----------------------------- MODULE EventLoop -----------------------------
(***************************************************************************)
(* One EventLoop (EventLoop.h, EventLoop.cpp), the Epoll::poll it blocks   *)
(* in, and the threads that hand it callbacks or stop it.                  *)
(*                                                                         *)
(* The loop thread repeats: block in epoll_wait, run the handlers of the   *)
(* ready channels, execute the callbacks queued so far, expire timers.     *)
(* Other threads append a callback under mutex_ and THEN write to the      *)
(* eventfd, with any interleaving between the two.  Statements on          *)
(* pendingFunctors_ are each one critical section of mutex_, so each is    *)
(* one step.                                                               *)
(*                                                                         *)
(* The eventfd is edge triggered: wakeReady is its place on epoll's ready  *)
(* list, wakeupFd the number it holds.  All other channels of the loop are *)
(* one source, "io".                                                       *)
(***************************************************************************)
EXTENDS Naturals, Sequences

CONSTANTS
  Threads,    (* threads other than the loop thread               *)
  Functors    (* the callbacks; each is queued at most once       *)

VARIABLES
  pc,                     (* where the loop thread is                     *)
  active,                 (* returned by poll(), handler not yet run      *)
  pendingFunctors,        (* pendingFunctors_                             *)
  functors,               (* the local vector of doPendingFunctors        *)
  callingPendingFunctors, (* callingPendingFunctors_                      *)
  quit,                   (* quit_                                        *)
  wakeupFd,               (* the counter of the eventfd wakeupFd_         *)
  wakeReady,              (* wakeupFd_ is on epoll's ready list           *)
  ioReady,                (* some other descriptor is on the ready list   *)
  tpc,                    (* per thread: "idle", or "wakeup" between its  *)
                          (* store and its write to the eventfd           *)
  queued,                 (* history: the callbacks handed over           *)
  asked,                  (* history: the threads that called quit()      *)
  ran                     (* history: the callbacks executed, in order    *)

loopVars   == <<pc, active, functors, callingPendingFunctors, ran>>
wakeVars   == <<wakeupFd, wakeReady>>
sharedVars == <<pendingFunctors, queued, quit>>
vars == <<loopVars, wakeVars, sharedVars, ioReady, tpc, asked>>

(* "handler": inside the handler of an I/O event; "functor": inside a      *)
(* queued callback.  Only there does client code run on the loop thread.   *)
ClientCode == {"handler", "functor"}

Locations == ClientCode \cup
  {"start", "poll", "dispatch", "run", "test", "stopped"}

TypeOK ==
  /\ pc \in Locations
  /\ active \subseteq {"wakeup", "io"}
  /\ pendingFunctors \in Seq(Functors)
  /\ functors \in Seq(Functors)
  /\ callingPendingFunctors \in BOOLEAN
  /\ callingPendingFunctors <=> pc \in {"run", "functor"}
  /\ quit \in BOOLEAN
  /\ wakeupFd \in Nat
  /\ wakeReady \in BOOLEAN
  /\ ioReady \in BOOLEAN
  /\ tpc \in [Threads -> {"idle", "wakeup"}]
  /\ queued \subseteq Functors
  /\ asked \subseteq Threads
  /\ ran \in Seq(Functors)

Init ==
  /\ pc = "start"
  /\ active = {}
  /\ pendingFunctors = <<>>
  /\ functors = <<>>
  /\ callingPendingFunctors = FALSE
  /\ quit = FALSE
  /\ wakeupFd = 0
  /\ wakeReady = FALSE
  /\ ioReady = FALSE
  /\ tpc = [t \in Threads |-> "idle"]
  /\ queued = {}
  /\ asked = {}
  /\ ran = <<>>

----------------------------------------------------------------------------
(* Operations both sides use. *)

PushFunctor(f) ==
  /\ f \notin queued
  /\ queued' = queued \cup {f}
  /\ pendingFunctors' = Append(pendingFunctors, f)

(* EventLoop::wakeup: the write adds one to the counter and is a new edge. *)
WriteWakeupFd ==
  /\ wakeupFd' = wakeupFd + 1
  /\ wakeReady' = TRUE

(* What epoll_wait would report for the eventfd. *)
WakeupDeliverable == wakeReady /\ wakeupFd > 0

----------------------------------------------------------------------------
(* Other threads. *)

(* queueInLoop called off the loop thread, up to the unlock of mutex_. *)
QueueInLoop(t, f) ==
  /\ tpc[t] = "idle"
  /\ PushFunctor(f)
  /\ tpc' = [tpc EXCEPT ![t] = "wakeup"]
  /\ UNCHANGED <<loopVars, wakeVars, quit, ioReady, asked>>

(* Mutant: quit() without the wakeup. *)
QuitNoWakeup(t) ==
  /\ tpc[t] = "idle"
  /\ t \notin asked
  /\ asked' = asked \cup {t}
  /\ quit' = TRUE
  /\ UNCHANGED <<loopVars, wakeVars, pendingFunctors, queued, ioReady, tpc>>

(* quit() called off the loop thread, up to its store. *)
Quit(t) ==
  /\ tpc[t] = "idle"
  /\ t \notin asked
  /\ asked' = asked \cup {t}
  /\ quit' = TRUE
  /\ tpc' = [tpc EXCEPT ![t] = "wakeup"]
  /\ UNCHANGED <<loopVars, wakeVars, pendingFunctors, queued, ioReady>>

(* Mutant: the write is skipped while the loop looks awake. *)
WakeupIfIdle(t) ==
  /\ tpc[t] = "wakeup"
  /\ IF callingPendingFunctors THEN UNCHANGED wakeVars ELSE WriteWakeupFd
  /\ tpc' = [tpc EXCEPT ![t] = "idle"]
  /\ UNCHANGED <<loopVars, sharedVars, ioReady, asked>>

(* The rest of queueInLoop or quit(): the write that wakes the loop. *)
Wakeup(t) ==
  /\ tpc[t] = "wakeup"
  /\ WriteWakeupFd
  /\ tpc' = [tpc EXCEPT ![t] = "idle"]
  /\ UNCHANGED <<loopVars, sharedVars, ioReady, asked>>

(* Some connection of the loop becomes ready. *)
IoEvent ==
  /\ ioReady = FALSE
  /\ ioReady' = TRUE
  /\ UNCHANGED <<loopVars, wakeVars, sharedVars, tpc, asked>>

----------------------------------------------------------------------------
(* The loop thread. *)

(* Entry of loop(): quit_ is cleared, whatever was stored before; the test *)
(* of the while loop is next.                                              *)
Start ==
  /\ pc = "start"
  /\ quit' = FALSE
  /\ pc' = "test"
  /\ UNCHANGED <<active, functors, callingPendingFunctors, ran, wakeVars,
                 pendingFunctors, queued, ioReady, tpc, asked>>

ReadySources ==
  {s \in {"wakeup", "io"} : IF s = "io" THEN ioReady ELSE WakeupDeliverable}

(* Epoll::poll: it returns only with at least one ready channel; a timeout *)
(* of epoll_wait goes round its own loop.  Edge triggered: what is         *)
(* reported leaves the ready list.                                         *)
Poll ==
  /\ pc = "poll"
  /\ ReadySources # {}
  /\ active' = ReadySources
  /\ wakeReady' = FALSE
  /\ ioReady' = FALSE
  /\ pc' = "dispatch"
  /\ UNCHANGED <<functors, callingPendingFunctors, ran, wakeupFd, sharedVars,
                 tpc, asked>>

(* handleRead of the wakeup channel: the read takes the whole counter. *)
HandleRead ==
  /\ pc = "dispatch"
  /\ "wakeup" \in active
  /\ wakeupFd' = 0
  /\ active' = active \ {"wakeup"}
  /\ UNCHANGED <<pc, functors, callingPendingFunctors, ran, wakeReady,
                 sharedVars, ioReady, tpc, asked>>

(* handleEvents of any other ready channel, entered and left. *)
HandlerCall ==
  /\ pc = "dispatch"
  /\ "io" \in active
  /\ active' = active \ {"io"}
  /\ pc' = "handler"
  /\ UNCHANGED <<functors, callingPendingFunctors, ran, wakeVars, sharedVars,
                 ioReady, tpc, asked>>

HandlerReturn ==
  /\ pc = "handler"
  /\ pc' = "dispatch"
  /\ UNCHANGED <<active, functors, callingPendingFunctors, ran, wakeVars,
                 sharedVars, ioReady, tpc, asked>>

(* doPendingFunctors up to the end of its critical section.  Only the loop *)
(* thread ever reads callingPendingFunctors_, so its store is joined to    *)
(* the swap.                                                               *)
SwapPending ==
  /\ pc = "dispatch"
  /\ active = {}
  /\ callingPendingFunctors' = TRUE
  /\ functors' = pendingFunctors
  /\ pendingFunctors' = <<>>
  /\ pc' = "run"
  /\ UNCHANGED <<active, ran, wakeVars, queued, quit, ioReady, tpc, asked>>

(* Mutant: the batch is executed from its end. *)
RunLastFunctor ==
  /\ pc = "run"
  /\ functors # <<>>
  /\ ran' = Append(ran, functors[Len(functors)])
  /\ functors' = SubSeq(functors, 1, Len(functors) - 1)
  /\ pc' = "functor"
  /\ UNCHANGED <<active, callingPendingFunctors, wakeVars, sharedVars,
                 ioReady, tpc, asked>>

(* functors[i](), entered; FunctorReturn leaves it. *)
RunFunctor ==
  /\ pc = "run"
  /\ functors # <<>>
  /\ ran' = Append(ran, Head(functors))
  /\ functors' = Tail(functors)
  /\ pc' = "functor"
  /\ UNCHANGED <<active, callingPendingFunctors, wakeVars, sharedVars,
                 ioReady, tpc, asked>>

FunctorReturn ==
  /\ pc = "functor"
  /\ pc' = "run"
  /\ UNCHANGED <<active, functors, callingPendingFunctors, ran, wakeVars,
                 sharedVars, ioReady, tpc, asked>>

(* Mutant: callingPendingFunctors_ stays set. *)
EndPendingNoReset ==
  /\ pc = "run"
  /\ functors = <<>>
  /\ pc' = "test"
  /\ UNCHANGED <<active, functors, callingPendingFunctors, ran, wakeVars,
                 sharedVars, ioReady, tpc, asked>>

(* The end of doPendingFunctors. *)
EndPending ==
  /\ pc = "run"
  /\ functors = <<>>
  /\ callingPendingFunctors' = FALSE
  /\ pc' = "test"
  /\ UNCHANGED <<active, functors, ran, wakeVars, sharedVars, ioReady, tpc,
                 asked>>

(* handleExpired, which queues nothing, and the test of the while loop. *)
EndIteration ==
  /\ pc = "test"
  /\ pc' = IF quit THEN "stopped" ELSE "poll"
  /\ UNCHANGED <<active, functors, callingPendingFunctors, ran, wakeVars,
                 sharedVars, ioReady, tpc, asked>>

(* Mutant: only other threads wake the loop. *)
QueueFromLoopNoWakeup(f) ==
  /\ pc \in ClientCode
  /\ PushFunctor(f)
  /\ UNCHANGED <<loopVars, wakeVars, quit, ioReady, tpc, asked>>

(* Mutant: a callback queued by a callback joins the running batch. *)
QueueFromLoopSameBatch(f) ==
  /\ pc \in ClientCode
  /\ f \notin queued
  /\ queued' = queued \cup {f}
  /\ IF callingPendingFunctors
       THEN functors' = Append(functors, f) /\ UNCHANGED pendingFunctors
       ELSE pendingFunctors' = Append(pendingFunctors, f) /\ UNCHANGED functors
  /\ UNCHANGED <<pc, active, callingPendingFunctors, ran, wakeVars, quit,
                 ioReady, tpc, asked>>

(* queueInLoop called by client code on the loop thread: it wakes the loop *)
(* only while callbacks are being executed.                                *)
QueueFromLoop(f) ==
  /\ pc \in ClientCode
  /\ PushFunctor(f)
  /\ IF callingPendingFunctors THEN WriteWakeupFd ELSE UNCHANGED wakeVars
  /\ UNCHANGED <<loopVars, quit, ioReady, tpc, asked>>

(* quit() called by client code on the loop thread: no wakeup. *)
QuitFromLoop ==
  /\ pc \in ClientCode
  /\ quit' = TRUE
  /\ UNCHANGED <<loopVars, wakeVars, pendingFunctors, queued, ioReady, tpc,
                 asked>>

----------------------------------------------------------------------------
ThreadStep(t) == Wakeup(t) \/ Quit(t) \/ \E f \in Functors : QueueInLoop(t, f)

(* What the loop thread does by itself. *)
LoopStep ==
  \/ Start \/ Poll \/ HandleRead \/ HandlerCall \/ HandlerReturn
  \/ SwapPending \/ RunFunctor \/ FunctorReturn \/ EndPending \/ EndIteration

(* What client code on the loop thread may decide to do. *)
ClientStep == QuitFromLoop \/ \E f \in Functors : QueueFromLoop(f)

Next == LoopStep \/ ClientStep \/ IoEvent \/ \E t \in Threads : ThreadStep(t)

Spec == Init /\ [][Next]_vars

(* The operating system schedules every runnable thread: the loop thread   *)
(* keeps going (a handler or a callback returns), and a thread that has    *)
(* stored its callback gets to its write.  Nobody has to queue anything,   *)
(* to call quit() or to send a connection any data.                        *)
Fairness == WF_vars(LoopStep) /\ \A t \in Threads : WF_vars(Wakeup(t))

FairSpec == Spec /\ Fairness

----------------------------------------------------------------------------
(* Some thread is between its store and its write to the eventfd. *)
WakeupOnItsWay == \E t \in Threads : tpc[t] = "wakeup"

(* A loop blocked in epoll_wait is never left asleep with something to do: *)
(* if a callback is queued or quit_ is set, the eventfd is reported, or a  *)
(* thread is about to write to it.  This is what the condition under the   *)
(* lock in queueInLoop, the drain in handleRead BEFORE the swap and the    *)
(* wakeup in quit() are for.                                               *)
NoLostWakeup ==
  pc = "poll" /\ (pendingFunctors # <<>> \/ quit)
    => WakeupDeliverable \/ WakeupOnItsWay

(* Between two callbacks of one batch the loop never goes back to          *)
(* epoll_wait, and a callback queued by a callback waits for the next      *)
(* batch: the batch being executed only ever shrinks until it is empty.    *)
BatchOnlyShrinks ==
  [][functors # <<>> => functors' \in {functors, Tail(functors)}]_vars

(* A callback handed over is executed, unless the loop has been stopped.   *)
EveryFunctorRuns ==
  \A f \in Functors :
    f \in queued ~> \/ pc = "stopped"
                    \/ \E i \in DOMAIN ran : ran[i] = f

(* quit() stops a loop that has entered loop(), even one asleep in         *)
(* epoll_wait with no traffic at all.                                      *)
QuitStops == (quit /\ pc # "start") ~> (pc = "stopped")

(* Refinement: the callbacks in the batch being executed come before those *)
(* queued since the swap.                                                  *)
Tasks == INSTANCE TaskQueue WITH queue <- functors \o pendingFunctors,
                                 done <- ran

(* Callbacks run exactly once, one at a time and in the order queued. *)
ImplementsTaskQueue == Tasks!Spec
============================================================================
