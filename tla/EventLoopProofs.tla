-------------------------- MODULE EventLoopProofs --------------------------
(***************************************************************************)
(* Proofs about EventLoop, for any number of threads and callbacks: the    *)
(* type invariant, NoLostWakeup, BatchOnlyShrinks and the safety part of   *)
(* the refinement of TaskQueue.  Liveness is left to TLC.                  *)
(***************************************************************************)
EXTENDS EventLoop, SequenceTheorems, TLAPS

(* The eventfd is reported by the next epoll_wait, or will be once a       *)
(* thread that has already stored its callback gets to run.                *)
WakeupPending == WakeupDeliverable \/ WakeupOnItsWay

(* Outside the interval from epoll_wait to the swap, a queued callback     *)
(* comes with a pending wakeup: those that were there at the swap left     *)
(* with it, and those queued since were followed by a write.               *)
QueuedIsAnnounced ==
  pc \in {"start", "run", "functor", "test", "poll"} /\ pendingFunctors # <<>>
    => WakeupPending

(* A loop that passed the test of its while loop and then was told to quit *)
(* has a pending wakeup.                                                   *)
QuitIsAnnounced == pc = "poll" /\ quit => WakeupPending

(* The batch is empty except while it is executed. *)
BatchOnlyInRun == functors # <<>> => pc \in {"run", "functor"}

IInv == TypeOK /\ QueuedIsAnnounced /\ QuitIsAnnounced /\ BatchOnlyInRun

----------------------------------------------------------------------------
(* The invariant is inductive and implies NoLostWakeup. *)

LEMMA InitIInv == Init => IInv
<1> SUFFICES ASSUME Init PROVE IInv
  OBVIOUS
<1>1. TypeOK
  <2>1. pc = "start" /\ ~callingPendingFunctors BY DEF Init
  <2>2. /\ callingPendingFunctors \in BOOLEAN
        /\ callingPendingFunctors <=> pc \in {"run", "functor"}
    BY <2>1 DEF Init
  <2>3. /\ tpc \in [Threads -> {"idle", "wakeup"}]
        /\ wakeReady \in BOOLEAN /\ ioReady \in BOOLEAN /\ quit \in BOOLEAN
    BY DEF Init
  <2>4. /\ pendingFunctors \in Seq(Functors) /\ functors \in Seq(Functors)
        /\ ran \in Seq(Functors) /\ wakeupFd \in Nat
        /\ active = {} /\ queued = {} /\ asked = {}
    BY DEF Init
  <2> QED BY <2>1, <2>2, <2>3, <2>4 DEF TypeOK, Locations, ClientCode
<1>2. QueuedIsAnnounced /\ QuitIsAnnounced /\ BatchOnlyInRun
  BY DEF Init, QueuedIsAnnounced, QuitIsAnnounced, BatchOnlyInRun
<1> QED BY <1>1, <1>2 DEF IInv

(* The types alone are inductive. *)
LEMMA NextTypeOK == ASSUME TypeOK, [Next]_vars PROVE TypeOK'
<1> USE DEF TypeOK, Locations, ClientCode, loopVars, wakeVars, sharedVars
<1>1. CASE LoopStep
  <2>1. CASE Start BY <2>1 DEF Start
  <2>2. CASE Poll BY <2>2 DEF Poll, ReadySources
  <2>3. CASE HandleRead BY <2>3 DEF HandleRead
  <2>4. CASE HandlerCall BY <2>4 DEF HandlerCall
  <2>5. CASE HandlerReturn BY <2>5 DEF HandlerReturn
  <2>6. CASE SwapPending BY <2>6 DEF SwapPending
  <2>7. CASE RunFunctor BY <2>7 DEF RunFunctor
  <2>8. CASE FunctorReturn BY <2>8 DEF FunctorReturn
  <2>9. CASE EndPending BY <2>9 DEF EndPending
  <2>10. CASE EndIteration BY <2>10 DEF EndIteration
  <2> QED BY <1>1, <2>1, <2>2, <2>3, <2>4, <2>5, <2>6, <2>7, <2>8, <2>9,
             <2>10 DEF LoopStep
<1>2. CASE ClientStep
  <2>1. CASE QuitFromLoop BY <2>1 DEF QuitFromLoop
  <2>2. ASSUME NEW f \in Functors, QueueFromLoop(f) PROVE TypeOK'
    <3>1. wakeupFd' \in Nat /\ wakeReady' \in BOOLEAN
      <4>1. CASE callingPendingFunctors
        BY <2>2, <4>1 DEF QueueFromLoop, WriteWakeupFd
      <4>2. CASE ~callingPendingFunctors BY <2>2, <4>2 DEF QueueFromLoop
      <4> QED BY <4>1, <4>2
    <3>2. /\ pendingFunctors' \in Seq(Functors)
          /\ queued' \subseteq Functors
      BY <2>2 DEF QueueFromLoop, PushFunctor
    <3> QED BY <2>2, <3>1, <3>2 DEF QueueFromLoop
  <2> QED BY <1>2, <2>1, <2>2 DEF ClientStep
<1>3. CASE IoEvent BY <1>3 DEF IoEvent
<1>4. ASSUME NEW t \in Threads, ThreadStep(t) PROVE TypeOK'
  <2>1. CASE Wakeup(t) BY <2>1 DEF Wakeup, WriteWakeupFd
  <2>2. CASE Quit(t)
    <3>1. quit' = TRUE /\ asked' \subseteq Threads BY <2>2 DEF Quit
    <3>2. tpc' \in [Threads -> {"idle", "wakeup"}] BY <2>2 DEF Quit
    <3> QED BY <2>2, <3>1, <3>2 DEF Quit
  <2>3. ASSUME NEW f \in Functors, QueueInLoop(t, f) PROVE TypeOK'
    BY <2>3 DEF QueueInLoop, PushFunctor
  <2> QED BY <1>4, <2>1, <2>2, <2>3 DEF ThreadStep
<1>5. CASE UNCHANGED vars BY <1>5 DEF vars
<1> QED BY <1>1, <1>2, <1>3, <1>4, <1>5 DEF Next

(* A step that leaves a callback queued or quit_ set leaves a wakeup       *)
(* pending, unless the loop is between epoll_wait and the swap.            *)
LEMMA NextAnnounced ==
  ASSUME IInv, [Next]_vars
  PROVE  QueuedIsAnnounced' /\ QuitIsAnnounced'
<1> USE DEF IInv, TypeOK, QueuedIsAnnounced, QuitIsAnnounced, WakeupPending,
            WakeupDeliverable, WakeupOnItsWay, loopVars, wakeVars, sharedVars
<1>1. CASE LoopStep
  <2>1. CASE Start BY <2>1 DEF Start
  <2>2. CASE Poll BY <2>2 DEF Poll
  <2>3. CASE HandleRead BY <2>3 DEF HandleRead
  <2>4. CASE HandlerCall BY <2>4 DEF HandlerCall
  <2>5. CASE HandlerReturn BY <2>5 DEF HandlerReturn
  <2>6. CASE SwapPending BY <2>6 DEF SwapPending
  <2>7. CASE RunFunctor BY <2>7 DEF RunFunctor
  <2>8. CASE FunctorReturn BY <2>8 DEF FunctorReturn
  <2>9. CASE EndPending BY <2>9 DEF EndPending
  <2>10. CASE EndIteration BY <2>10 DEF EndIteration
  <2> QED BY <1>1, <2>1, <2>2, <2>3, <2>4, <2>5, <2>6, <2>7, <2>8, <2>9,
             <2>10 DEF LoopStep
<1>2. CASE ClientStep
  <2>1. CASE QuitFromLoop BY <2>1 DEF QuitFromLoop, ClientCode
  <2>2. ASSUME NEW f \in Functors, QueueFromLoop(f)
        PROVE  QueuedIsAnnounced' /\ QuitIsAnnounced'
    <3>1. pc' = pc /\ pc \in {"handler", "functor"}
      BY <2>2 DEF QueueFromLoop, ClientCode
    <3>2. CASE pc = "functor"
      <4>1. callingPendingFunctors BY <3>2
      <4>2. wakeReady' = TRUE /\ wakeupFd' = wakeupFd + 1
        BY <2>2, <4>1 DEF QueueFromLoop, WriteWakeupFd
      <4> QED BY <4>2, <3>1, <3>2
    <3> QED BY <3>1, <3>2
  <2> QED BY <1>2, <2>1, <2>2 DEF ClientStep
<1>3. CASE IoEvent BY <1>3 DEF IoEvent
<1>4. ASSUME NEW t \in Threads, ThreadStep(t)
      PROVE  QueuedIsAnnounced' /\ QuitIsAnnounced'
  <2>1. CASE Wakeup(t) BY <2>1 DEF Wakeup, WriteWakeupFd
  <2>2. CASE Quit(t)
    <3>1. tpc'[t] = "wakeup" BY <2>2 DEF Quit
    <3> QED BY <3>1
  <2>3. ASSUME NEW f \in Functors, QueueInLoop(t, f)
        PROVE  QueuedIsAnnounced' /\ QuitIsAnnounced'
    <3>1. tpc'[t] = "wakeup" BY <2>3 DEF QueueInLoop
    <3> QED BY <3>1
  <2> QED BY <1>4, <2>1, <2>2, <2>3 DEF ThreadStep
<1>5. CASE UNCHANGED vars BY <1>5 DEF vars
<1> QED BY <1>1, <1>2, <1>3, <1>4, <1>5 DEF Next

LEMMA NextIInv == ASSUME IInv, [Next]_vars PROVE IInv'
<1>1. TypeOK' BY NextTypeOK DEF IInv
<1>2. BatchOnlyInRun'
  BY DEF IInv, BatchOnlyInRun, TypeOK, Next, LoopStep, Start, Poll,
     HandleRead, HandlerCall, HandlerReturn, SwapPending, RunFunctor,
     FunctorReturn, EndPending, EndIteration, ClientStep, QuitFromLoop,
     QueueFromLoop, IoEvent, ThreadStep, Wakeup, Quit, QueueInLoop, vars,
     loopVars
<1> QED BY <1>1, <1>2, NextAnnounced DEF IInv

LEMMA Invariance == Spec => []IInv
<1>1. Init => IInv BY InitIInv
<1>2. IInv /\ [Next]_vars => IInv' BY NextIInv
<1> QED BY <1>1, <1>2, PTL DEF Spec

(* The variables keep their types; callingPendingFunctors_ is set exactly  *)
(* while the batch of doPendingFunctors is executed.                       *)
THEOREM TypeCorrect == Spec => []TypeOK
<1>1. IInv => TypeOK BY DEF IInv
<1> QED BY <1>1, Invariance, PTL

(* The eventfd protocol of queueInLoop, quit, handleRead and loop never    *)
(* leaves the loop asleep with a callback queued or quit_ set.             *)
THEOREM NoWakeupLost == Spec => []NoLostWakeup
<1>1. IInv => NoLostWakeup
  BY DEF IInv, QueuedIsAnnounced, QuitIsAnnounced, WakeupPending, NoLostWakeup
<1> QED BY <1>1, Invariance, PTL

----------------------------------------------------------------------------
(* Batches and the refinement of TaskQueue. *)

(* A batch of doPendingFunctors only shrinks until it has been executed. *)
THEOREM BatchShrinks == Spec => BatchOnlyShrinks
<1>1. ASSUME IInv, [Next]_vars
      PROVE  functors # <<>> => functors' \in {functors, Tail(functors)}
  BY <1>1 DEF IInv, BatchOnlyInRun, Next, LoopStep, Start, Poll,
     HandleRead, HandlerCall, HandlerReturn, SwapPending, RunFunctor,
     FunctorReturn, EndPending, EndIteration, ClientStep, QuitFromLoop,
     QueueFromLoop, IoEvent, ThreadStep, Wakeup, Quit, QueueInLoop, vars,
     loopVars
<1> QED BY <1>1, Invariance, PTL DEF Spec, BatchOnlyShrinks

(* A callback appended to the pending ones is the last of the whole queue. *)
LEMMA PushIsSubmit ==
  ASSUME TypeOK, NEW f \in Functors, PushFunctor(f), functors' = functors,
         ran' = ran
  PROVE  Tasks!Submit(f)
<1>1. Append(pendingFunctors, f) = pendingFunctors \o <<f>>
  BY AppendIsConcat DEF TypeOK
<1>2. Append(functors \o pendingFunctors, f)
        = (functors \o pendingFunctors) \o <<f>>
  BY AppendIsConcat, ConcatProperties DEF TypeOK
<1>3. (functors \o pendingFunctors) \o <<f>>
        = functors \o (pendingFunctors \o <<f>>)
  BY ConcatAssociative DEF TypeOK
<1> QED BY <1>1, <1>2, <1>3 DEF PushFunctor, Tasks!Submit

(* The first of the batch is the first of the whole queue. *)
LEMMA RunIsExecute == ASSUME TypeOK, RunFunctor PROVE Tasks!Execute
<1> DEFINE q == functors \o pendingFunctors
<1>1. functors \in Seq(Functors) /\ functors # <<>>
      /\ pendingFunctors \in Seq(Functors)
  BY DEF TypeOK, RunFunctor
<1>2. q # <<>> /\ Head(q) = Head(functors)
      /\ Tail(q) = Tail(functors) \o pendingFunctors
  BY <1>1, ConcatProperties, HeadTailProperties
<1> QED BY <1>2 DEF RunFunctor, Tasks!Execute, sharedVars

(* Every callback is executed exactly once, one at a time, in the order of *)
(* the critical sections that queued them: the loop with its batches, its  *)
(* lock and its eventfd implements a plain FIFO of callbacks.              *)
THEOREM LoopIsTaskQueue == Spec => ImplementsTaskQueue
<1>1. Init => Tasks!Init
  BY ConcatEmptySeq DEF Init, Tasks!Init
<1>2. ASSUME IInv, [Next]_vars PROVE [Tasks!Next]_(Tasks!taskVars)
  <2> USE <1>2 DEF loopVars, sharedVars
  <2>1. CASE RunFunctor BY <2>1, RunIsExecute DEF IInv, Tasks!Next
  <2>2. ASSUME NEW f \in Functors,
               QueueFromLoop(f) \/ \E t \in Threads : QueueInLoop(t, f)
        PROVE  Tasks!Next
    BY <2>2, PushIsSubmit DEF IInv, QueueFromLoop, QueueInLoop, Tasks!Next
  <2>3. CASE SwapPending
    <3>1. functors = <<>> BY <2>3 DEF IInv, BatchOnlyInRun, SwapPending
    <3>2. pendingFunctors \o <<>> = <<>> \o pendingFunctors
      BY ConcatEmptySeq DEF IInv, TypeOK
    <3> QED BY <2>3, <3>1, <3>2 DEF SwapPending, Tasks!taskVars
  <2>4. CASE UNCHANGED <<functors, pendingFunctors, ran>>
    BY <2>4 DEF Tasks!taskVars
  <2> QED
    BY <2>1, <2>2, <2>3, <2>4 DEF Next, LoopStep, Start, Poll, HandleRead,
       HandlerCall, HandlerReturn, FunctorReturn, EndPending, EndIteration,
       ClientStep, QuitFromLoop, IoEvent, ThreadStep, Wakeup, Quit, vars
<1> QED BY <1>1, <1>2, Invariance, PTL DEF Spec, ImplementsTaskQueue, Tasks!Spec
============================================================================
