------------------------------- MODULE Server -------------------------------
(***************************************************************************)
(* The start of the server, its acceptor and the end of its threads:       *)
(* EventLoopThreadPool::start with the handshake of every EventLoopThread, *)
(* Server::handNewConn on an edge-triggered listening socket, and          *)
(* ~EventLoopThread.  What a loop does with a connection is the business   *)
(* of the other modules: here it takes it over and, some day, closes it.   *)
(***************************************************************************)
EXTENDS Naturals, Sequences

CONSTANTS
  NumThreads,  (* numThreads_                                              *)
  Conns,       (* bound: the connections that will ever arrive             *)
  MaxFds,      (* MAXFDS: a descriptor from here on is refused             *)
  Limits       (* descriptors the process may have: one of these           *)

ASSUME ServerAssumption ==
  /\ NumThreads \in Nat \ {0} /\ MaxFds \in Nat /\ Limits \subseteq Nat

Threads == 1..NumThreads

VARIABLES
  main,     (* where the main thread is                                    *)
  idx,      (* the EventLoopThread it is starting or destroying            *)
  thread,   (* where each loop thread is                                   *)
  loop,     (* loop_ is not NULL                                           *)
  quit,     (* quit_ of its EventLoop                                      *)
  woken,    (* quit() has written to its eventfd                           *)
  next,     (* next_, counted from 1                                       *)
  watched,  (* epoll watches the listening socket for input                *)
  ready,    (* the listening socket is on epoll's ready list               *)
  backlog,  (* connections the kernel has established, oldest first        *)
  limit,    (* the process's limit of descriptors                          *)
  conn,     (* each connection's life                                      *)
  fd,       (* its descriptor, 0 if it has none                            *)
  home,     (* the loop it was handed to, 0 if none                        *)
  starved   (* history: the last accept loop ended for want of descriptors *)

threadVars == <<thread, loop, quit, woken>>
epollVars  == <<watched, ready>>
connVars   == <<backlog, conn, fd, home, next, starved>>
vars == <<main, idx, limit, threadVars, epollVars, connVars>>

TypeOK ==
  /\ main \in {"create", "latch", "cond", "wait", "register", "poll",
               "accept", "destroy", "wakeup", "join", "done"}
  /\ idx \in Threads
  /\ thread \in [Threads -> {"none", "created", "running", "built",
                             "published", "looping", "left", "ended"}]
  /\ loop \in [Threads -> BOOLEAN] /\ quit \in [Threads -> BOOLEAN]
  /\ woken \in [Threads -> BOOLEAN]
  /\ next \in Threads /\ watched \in BOOLEAN /\ ready \in BOOLEAN
  /\ backlog \in Seq(Conns) /\ limit \in Limits /\ starved \in BOOLEAN
  /\ conn \in [Conns -> {"new", "backlog", "handed", "open", "refused",
                         "leaked", "closed"}]
  /\ fd \in [Conns -> 0..limit] /\ home \in [Conns -> 0..NumThreads]

(* The Server is constructed: the socket listens already. *)
Init ==
  /\ main = "create" /\ idx = 1 /\ limit \in Limits
  /\ thread = [i \in Threads |-> "none"]
  /\ loop = [i \in Threads |-> FALSE] /\ quit = [i \in Threads |-> FALSE]
  /\ woken = [i \in Threads |-> FALSE]
  /\ next = 1 /\ watched = FALSE /\ ready = FALSE
  /\ backlog = <<>> /\ starved = FALSE
  /\ conn = [c \in Conns |-> "new"]
  /\ fd = [c \in Conns |-> 0] /\ home = [c \in Conns |-> 0]

----------------------------------------------------------------------------
(* EventLoopThreadPool::start: startLoop of one EventLoopThread after the  *)
(* other.                                                                  *)

(* Thread::start *)
CreateThread ==
  /\ main = "create"
  /\ thread' = [thread EXCEPT ![idx] = "created"]
  /\ main' = "latch"
  /\ UNCHANGED <<idx, limit, loop, quit, woken, epollVars, connVars>>

(* pthread_create fails: start() returns all the same, and startLoop goes  *)
(* on to wait for a thread that will never run.                            *)
CreateFails ==
  /\ main = "create"
  /\ main' = "cond"
  /\ UNCHANGED <<idx, limit, threadVars, epollVars, connVars>>

(* latch_.wait() *)
LatchOpens ==
  /\ main = "latch"
  /\ thread[idx] # "created"
  /\ main' = "cond"
  /\ UNCHANGED <<idx, limit, threadVars, epollVars, connVars>>

(* Mutant: startLoop returns once the thread runs. *)
LoopNotAwaited ==
  /\ main = "cond"
  /\ thread[idx] # "none"
  /\ IF idx = NumThreads THEN main' = "register" /\ idx' = idx
                         ELSE main' = "create" /\ idx' = idx + 1
  /\ UNCHANGED <<limit, threadVars, epollVars, connVars>>

(* loop_ == NULL: cond_.wait(), which gives the mutex back. *)
CondWaits ==
  /\ main = "cond" /\ ~loop[idx]
  /\ main' = "wait"
  /\ UNCHANGED <<idx, limit, threadVars, epollVars, connVars>>

(* pthread_cond_wait may return for no reason. *)
SpuriousWakeup ==
  /\ main = "wait"
  /\ main' = "cond"
  /\ UNCHANGED <<idx, limit, threadVars, epollVars, connVars>>

(* loop_ is there, perhaps before anybody waited: then the next thread. *)
LoopPublished ==
  /\ main = "cond"
  /\ loop[idx]
  /\ IF idx = NumThreads THEN main' = "register" /\ idx' = idx
                         ELSE main' = "create" /\ idx' = idx + 1
  /\ UNCHANGED <<limit, threadVars, epollVars, connVars>>

(* A loop thread gets from one place to the next. *)
ThreadMoves(i, from, to) ==
  /\ thread[i] = from
  /\ thread' = [thread EXCEPT ![i] = to]
  /\ UNCHANGED <<idx, limit, epollVars, connVars>>

(* runInThread: tid_ is set, the latch counted down. *)
CountDown(i) ==
  ThreadMoves(i, "created", "running") /\ UNCHANGED <<main, loop, quit, woken>>

(* threadFunc: EventLoop loop; *)
BuildLoop(i) ==
  ThreadMoves(i, "running", "built") /\ UNCHANGED <<main, loop, quit, woken>>

(* Mutant: loop_ is set and nobody notified. *)
PublishSilently(i) ==
  /\ ThreadMoves(i, "built", "published")
  /\ loop' = [loop EXCEPT ![i] = TRUE]
  /\ UNCHANGED <<main, quit, woken>>

(* loop_ is set and cond_ notified, which is lost on a startLoop that does *)
(* not wait yet.                                                           *)
Publish(i) ==
  /\ ThreadMoves(i, "built", "published")
  /\ loop' = [loop EXCEPT ![i] = TRUE]
  /\ main' = IF main = "wait" /\ i = idx THEN "cond" ELSE main
  /\ UNCHANGED <<quit, woken>>

(* loop() clears quit_, even if somebody has set it already. *)
EnterLoop(i) ==
  /\ ThreadMoves(i, "published", "looping")
  /\ quit' = [quit EXCEPT ![i] = FALSE]
  /\ UNCHANGED <<main, loop, woken>>

(* quit_ is found set after some event, the wakeup or another. *)
LeaveLoop(i) ==
  /\ quit[i]
  /\ ThreadMoves(i, "looping", "left")
  /\ UNCHANGED <<main, loop, quit, woken>>

(* loop_ = NULL, and the EventLoop is destroyed. *)
EndThread(i) ==
  /\ ThreadMoves(i, "left", "ended")
  /\ loop' = [loop EXCEPT ![i] = FALSE]
  /\ UNCHANGED <<main, quit, woken>>

----------------------------------------------------------------------------
(* Server::start and Server::handNewConn. *)

(* EPOLL_CTL_ADD looks at the socket. *)
Register ==
  /\ main = "register"
  /\ watched' = TRUE /\ ready' = (backlog # <<>>)
  /\ main' = "poll"
  /\ UNCHANGED <<idx, limit, threadVars, connVars>>

Poll ==
  /\ main = "poll" /\ ready
  /\ ready' = FALSE
  /\ main' = "accept"
  /\ UNCHANGED <<idx, limit, watched, threadVars, connVars>>

FreeFds == {f \in 1..limit : \A c \in Conns : fd[c] # f}

(* What accept() returns: the lowest number that is free. *)
AcceptFd == CHOOSE f \in FreeFds : \A g \in FreeFds : f <= g

(* Mutant: the round robin does not start again. *)
AcceptedUnwrapped(c) ==
  /\ main = "accept" /\ backlog # <<>> /\ c = Head(backlog)
  /\ FreeFds # {}
  /\ backlog' = Tail(backlog)
  /\ next' = next + 1
  /\ UNCHANGED <<idx, limit, threadVars, starved>>

(* A connection is accepted; getNextLoop has its turn before anything else. *)
Accepted(c) ==
  /\ main = "accept" /\ backlog # <<>> /\ c = Head(backlog)
  /\ FreeFds # {}
  /\ backlog' = Tail(backlog)
  /\ next' = IF next = NumThreads THEN 1 ELSE next + 1
  /\ UNCHANGED <<idx, limit, threadVars, starved>>

(* accept_fd >= MAXFDS: closed at once. *)
Refuse(c) ==
  /\ Accepted(c)
  /\ AcceptFd >= MaxFds
  /\ conn' = [conn EXCEPT ![c] = "refused"]
  /\ UNCHANGED <<main, fd, home, epollVars>>

(* newEvent is queued for the loop whose turn it is. *)
HandOver(c) ==
  /\ Accepted(c)
  /\ AcceptFd < MaxFds
  /\ conn' = [conn EXCEPT ![c] = "handed"]
  /\ fd' = [fd EXCEPT ![c] = AcceptFd]
  /\ home' = [home EXCEPT ![c] = next]
  /\ UNCHANGED <<main, epollVars>>

(* setSocketNonBlocking fails: return, with the descriptor still open and  *)
(* events_ still 0, which handThisConn passes to epoll_mod.                *)
SetNonBlockingFails(c) ==
  /\ Accepted(c)
  /\ AcceptFd < MaxFds
  /\ conn' = [conn EXCEPT ![c] = "leaked"]
  /\ fd' = [fd EXCEPT ![c] = AcceptFd]
  /\ watched' = FALSE /\ ready' = FALSE
  /\ main' = "poll"
  /\ UNCHANGED home

(* Mutant: `if` for the `while` around accept(): what one event brings is  *)
(* not taken to the end.                                                   *)
AcceptEndsEarly ==
  /\ main = "accept"
  /\ starved' = FALSE
  /\ main' = "poll"
  /\ UNCHANGED <<idx, limit, epollVars, threadVars, backlog, conn, fd, home, next>>

(* accept() fails: EAGAIN, or EMFILE.  events_ is as it was, so that       *)
(* epoll_mod makes no call.                                                *)
AcceptEnds ==
  /\ main = "accept"
  /\ backlog = <<>> \/ FreeFds = {}
  /\ starved' = (backlog # <<>>)
  /\ main' = "poll"
  /\ UNCHANGED <<idx, limit, epollVars, threadVars, backlog, conn, fd, home, next>>

(* The loop runs newEvent. *)
TakeOver(c) ==
  /\ conn[c] = "handed" /\ thread[home[c]] = "looping"
  /\ conn' = [conn EXCEPT ![c] = "open"]
  /\ UNCHANGED <<main, idx, limit, threadVars, epollVars, backlog, fd, home,
                 next, starved>>

CloseConn(c) ==
  /\ conn[c] = "open" /\ thread[home[c]] = "looping"
  /\ conn' = [conn EXCEPT ![c] = "closed"]
  /\ fd' = [fd EXCEPT ![c] = 0]
  /\ UNCHANGED <<main, idx, limit, threadVars, epollVars, backlog, home, next,
                 starved>>

(* The kernel establishes a connection, at any time. *)
Arrive(c) ==
  /\ conn[c] = "new"
  /\ conn' = [conn EXCEPT ![c] = "backlog"]
  /\ backlog' = Append(backlog, c)
  /\ ready' = (ready \/ watched)
  /\ UNCHANGED <<main, idx, limit, threadVars, watched, fd, home, next, starved>>

----------------------------------------------------------------------------
(* The pool is destroyed by its owner: one ~EventLoopThread after another. *)

BeginDestroy ==
  /\ main = "poll"
  /\ main' = "destroy" /\ idx' = 1
  /\ UNCHANGED <<limit, threadVars, epollVars, connVars>>

(* loop_->quit(): the store, then the write to the eventfd. *)
Quit ==
  /\ main = "destroy" /\ loop[idx]
  /\ quit' = [quit EXCEPT ![idx] = TRUE]
  /\ main' = "wakeup"
  /\ UNCHANGED <<idx, limit, thread, loop, woken, epollVars, connVars>>

(* Mutant: quit() leaves the wakeup out. *)
NoWakeup ==
  /\ main = "wakeup"
  /\ main' = "join"
  /\ UNCHANGED <<idx, limit, threadVars, epollVars, connVars>>

Wakeup ==
  /\ main = "wakeup"
  /\ woken' = [woken EXCEPT ![idx] = TRUE]
  /\ main' = "join"
  /\ UNCHANGED <<idx, limit, thread, loop, quit, epollVars, connVars>>

Join ==
  /\ main = "join" /\ thread[idx] = "ended"
  /\ IF idx = NumThreads THEN main' = "done" /\ idx' = idx
                         ELSE main' = "destroy" /\ idx' = idx + 1
  /\ UNCHANGED <<limit, threadVars, epollVars, connVars>>

----------------------------------------------------------------------------
AcceptStep ==
  \/ Poll \/ AcceptEnds
  \/ \E c \in Conns : Refuse(c) \/ HandOver(c) \/ SetNonBlockingFails(c)

MainStep ==
  \/ CreateThread \/ CreateFails \/ LatchOpens \/ CondWaits \/ LoopPublished
  \/ Register
  \/ AcceptStep \/ Quit \/ Wakeup \/ Join

ThreadStep(i) ==
  CountDown(i) \/ BuildLoop(i) \/ Publish(i) \/ EnterLoop(i) \/ EndThread(i)

Next ==
  \/ MainStep \/ SpuriousWakeup \/ BeginDestroy
  \/ \E i \in Threads : ThreadStep(i) \/ LeaveLoop(i)
  \/ \E c \in Conns : Arrive(c) \/ TakeOver(c) \/ CloseConn(c)

Spec == Init /\ [][Next]_vars

(* Threads are scheduled, and a loop that has been woken up looks at quit_ *)
(* and at its callbacks.  Connections need not arrive, nor ever close; and *)
(* without a wakeup nothing brings a loop without traffic to look at quit_, *)
(* nor without a notify a startLoop that waits to look at loop_.           *)
FairSpec ==
  /\ Spec
  /\ WF_vars(MainStep)
  /\ \A i \in Threads : WF_vars(ThreadStep(i)) /\ WF_vars(woken[i] /\ LeaveLoop(i))
  /\ \A c \in Conns : WF_vars(TakeOver(c))

----------------------------------------------------------------------------
Destroying == main \in {"destroy", "wakeup", "join", "done"}

(* A connection is handed to an EventLoop that exists, however the threads *)
(* and startLoop interleave.                                               *)
LoopsExist ==
  \A c \in Conns :
    conn[c] \in {"handed", "open"} /\ ~Destroying
      => thread[home[c]] \in {"published", "looping"}

Leaked == \E c \in Conns : conn[c] = "leaked"

(* The acceptor waits for events only with its socket watched and nothing  *)
(* in the backlog that no event will tell it of.  There are two exceptions, *)
(* both after a failed call: an accept loop ended for want of descriptors  *)
(* leaves the rest to the next arrival, and a failing fcntl() ends all     *)
(* accepting for good.                                                     *)
NothingStranded ==
  main = "poll" /\ ~Leaked =>
    /\ watched
    /\ backlog # <<>> /\ ~starved => ready

CreateFailed == main \in {"cond", "wait"} /\ thread[idx] = "none"

(* A connection of the backlog gets to a loop that serves it or is refused, *)
(* which takes the start to be over: startLoop waits for none of its loops *)
(* for ever, though each notifies it once and perhaps before it waits.     *)
EveryConnectionServed ==
  \A c \in Conns :
    conn[c] = "backlog" ~> \/ conn[c] \in {"open", "refused"}
                           \/ starved \/ Leaked \/ CreateFailed \/ Destroying

(* quit() came before loop(), which has forgotten it. *)
QuitOverlooked == main = "join" /\ thread[idx] = "looping" /\ ~quit[idx]

(* The destruction ends, unless a loop has overlooked its quit(). *)
DestructionEnds == main = "destroy" ~> main = "done" \/ QuitOverlooked
=============================================================================
