----------------------------- MODULE ConnTable -----------------------------
(***************************************************************************)
(* Who keeps an HttpData alive, and who may still call it.                 *)
(*                                                                         *)
(* The acceptor (Server::handNewConn, on the main loop) makes an HttpData  *)
(* and queues HttpData::newEvent in one of the loops.  From then on only   *)
(* that loop's thread touches it.  Shared pointers to it are held by the   *)
(* acceptor's local, by the queued callback, by fd2http_ and by its live   *)
(* TimerNode; when the last is gone ~HttpData closes the descriptor and    *)
(* the kernel may hand the same number to the next connection, of any      *)
(* loop.  The Channels in fd2chan_ and in the vector poll() returned call  *)
(* the HttpData through a raw pointer.                                     *)
(*                                                                         *)
(* What the handlers do with the bytes is HttpConnection; how callbacks    *)
(* reach a loop is EventLoop.  Here a handler ends in one of the ways      *)
(* handleEvents and handleConn can end.                                    *)
(***************************************************************************)
CONSTANTS
  Conns,    (* HttpData objects, each made once                            *)
  Fds,      (* descriptors below MAXFDS                                    *)
  Loops,    (* the EventLoops of the pool                                  *)
  None      (* no connection, or no descriptor or loop yet                 *)

ASSUME NoneAssumption == None \notin Conns /\ None \notin Fds /\ None \notin Loops

VARIABLES
  live,       (* the HttpData objects that exist                           *)
  made,       (* history: those that have existed                          *)
  fd,         (* fd_                                                       *)
  loop,       (* loop_                                                     *)
  accepting,  (* req_info of handNewConn                                   *)
  pending,    (* per loop: the newEvent callbacks not yet run              *)
  fd2chan,    (* per loop: fd2chan_, by the HttpData its Channel calls     *)
  fd2http,    (* per loop: fd2http_                                        *)
  timed,      (* those a live TimerNode holds                              *)
  pc,         (* per loop: the part of loop() its thread is in             *)
  batch,      (* per loop: returned by poll(), handleEvents not yet called *)
  running     (* per loop: the HttpData whose handlers are being run       *)

tableVars  == <<fd2chan, fd2http, timed>>
acceptVars == <<made, fd, loop, accepting>>
loopVars   == <<pc, batch, running>>
vars == <<live, acceptVars, pending, tableVars, loopVars>>

Phases == {"poll", "handle", "functors", "expire"}

TypeOK ==
  /\ live \subseteq made /\ made \subseteq Conns
  /\ fd \in [Conns -> Fds \cup {None}]
  /\ loop \in [Conns -> Loops \cup {None}]
  /\ accepting \in Conns \cup {None}
  /\ pending \in [Loops -> SUBSET Conns]
  /\ fd2chan \in [Loops -> [Fds -> Conns \cup {None}]]
  /\ fd2http \in [Loops -> [Fds -> Conns \cup {None}]]
  /\ timed \subseteq Conns
  /\ pc \in [Loops -> Phases]
  /\ batch \in [Loops -> SUBSET Conns]
  /\ running \in [Loops -> Conns \cup {None}]

Init ==
  /\ live = {} /\ made = {}
  /\ fd = [c \in Conns |-> None]
  /\ loop = [c \in Conns |-> None]
  /\ accepting = None
  /\ pending = [l \in Loops |-> {}]
  /\ fd2chan = [l \in Loops |-> [f \in Fds |-> None]]
  /\ fd2http = [l \in Loops |-> [f \in Fds |-> None]]
  /\ timed = {}
  /\ pc = [l \in Loops |-> "poll"]
  /\ batch = [l \in Loops |-> {}]
  /\ running = [l \in Loops |-> None]

----------------------------------------------------------------------------
(* Some shared_ptr to c exists. *)
Held(c) ==
  \/ accepting = c
  \/ c \in timed
  \/ \E l \in Loops : c \in pending[l] \/ \E f \in Fds : fd2http[l][f] = c

(* A step that drops references destroys what is no longer held; the       *)
(* descriptor is closed with it.                                           *)
Release == live' = {c \in live : Held(c)'}

(* The numbers accept() may return. *)
FreeFds == Fds \ {fd[c] : c \in live}

(* handNewConn, one round of its loop: accept, new HttpData, queueInLoop.  *)
(* getNextLoop goes round the loops; any of them may be next.              *)
Accept(c, f, l) ==
  /\ accepting = None
  /\ c \notin made
  /\ f \in FreeFds
  /\ made' = made \cup {c}
  /\ live' = live \cup {c}
  /\ fd' = [fd EXCEPT ![c] = f]
  /\ loop' = [loop EXCEPT ![c] = l]
  /\ accepting' = c
  /\ pending' = [pending EXCEPT ![l] = @ \cup {c}]
  /\ UNCHANGED <<tableVars, loopVars>>

(* The end of the round: req_info goes out of scope. *)
AcceptNext ==
  /\ accepting # None
  /\ accepting' = None
  /\ UNCHANGED <<made, fd, loop, pending, tableVars, loopVars>>
  /\ Release

----------------------------------------------------------------------------
(* The thread of loop l. *)

(* Mutant: getEventsRequest does not skip an empty entry of fd2chan_. *)
PollUnchecked(l) ==
  /\ pc[l] = "poll"
  /\ \E F \in SUBSET Fds :
       batch' = [batch EXCEPT ![l] = {fd2chan[l][f] : f \in F}]
  /\ pc' = [pc EXCEPT ![l] = "handle"]
  /\ UNCHANGED <<live, acceptVars, pending, tableVars, running>>

(* Epoll::poll: the ready Channels, found through fd2chan_ (a descriptor   *)
(* with none is skipped).  The wakeup and accept channels are not shown.   *)
Poll(l) ==
  /\ pc[l] = "poll"
  /\ \E F \in SUBSET {f \in Fds : fd2chan[l][f] # None} :
       batch' = [batch EXCEPT ![l] = {fd2chan[l][f] : f \in F}]
  /\ pc' = [pc EXCEPT ![l] = "handle"]
  /\ UNCHANGED <<live, acceptVars, pending, tableVars, running>>

(* Channel::handleEvents enters the HttpData. *)
HandleEvents(l, c) ==
  /\ pc[l] = "handle" /\ running[l] = None
  /\ c \in batch[l]
  /\ running' = [running EXCEPT ![l] = c]
  /\ batch' = [batch EXCEPT ![l] = @ \ {c}]
  /\ UNCHANGED <<live, acceptVars, pending, tableVars, pc>>

Return(l) == running' = [running EXCEPT ![l] = None]

(* EPOLLHUP or EPOLLERR: nothing is called. *)
ReturnAtOnce(l) ==
  /\ running[l] # None
  /\ Return(l)
  /\ UNCHANGED <<live, acceptVars, pending, tableVars, pc, batch>>

(* handleConn: a new timer, a new mask; when EPOLL_CTL_MOD fails the entry *)
(* of fd2chan_ is dropped.                                                 *)
Rearm(l) ==
  LET c == running[l]
  IN  /\ c # None
      /\ timed' = timed \cup {c}
      /\ \/ UNCHANGED fd2chan
         \/ fd2chan' = [fd2chan EXCEPT ![l][fd[c]] = None]
      /\ Return(l)
      /\ UNCHANGED <<live, acceptVars, pending, fd2http, pc, batch>>

(* handleConn of a half-closed connection with output: the timer is gone.  *)
KeepHalfClosed(l) ==
  /\ running[l] # None
  /\ timed' = timed \ {running[l]}
  /\ Return(l)
  /\ UNCHANGED <<acceptVars, pending, fd2chan, fd2http, pc, batch>>
  /\ Release

(* Mutant: epoll_del keeps the Channel. *)
EpollDelKeepsChan(l, c) ==
  /\ fd2chan' = fd2chan
  /\ fd2http' = [fd2http EXCEPT ![l][fd[c]] = None]

(* epoll_del, called by HttpData::handleClose: both tables let go of c. *)
EpollDel(l, c) ==
  /\ fd2chan' = [fd2chan EXCEPT ![l][fd[c]] = None]
  /\ fd2http' = [fd2http EXCEPT ![l][fd[c]] = None]

(* Mutant: handleConn without seperateTimer. *)
HandleCloseTimed(l) ==
  /\ running[l] # None
  /\ timed' = timed
  /\ EpollDel(l, running[l])
  /\ Return(l)
  /\ UNCHANGED <<acceptVars, pending, pc, batch>>
  /\ Release

(* handleConn of a connection that is over. *)
HandleClose(l) ==
  /\ running[l] # None
  /\ timed' = timed \ {running[l]}
  /\ EpollDel(l, running[l])
  /\ Return(l)
  /\ UNCHANGED <<acceptVars, pending, pc, batch>>
  /\ Release

EndHandle(l) ==
  /\ pc[l] = "handle" /\ batch[l] = {} /\ running[l] = None
  /\ pc' = [pc EXCEPT ![l] = "functors"]
  /\ UNCHANGED <<live, acceptVars, pending, tableVars, batch, running>>

(* Mutant: epoll_add does not enter the HttpData into fd2http_. *)
NewEventUnheld(l, c) ==
  /\ pc[l] = "functors"
  /\ c \in pending[l]
  /\ pending' = [pending EXCEPT ![l] = @ \ {c}]
  /\ timed' = timed \cup {c}
  /\ fd2http' = fd2http
  /\ fd2chan' = [fd2chan EXCEPT ![l][fd[c]] = c]
  /\ UNCHANGED <<acceptVars, loopVars>>
  /\ Release

(* HttpData::newEvent, executed by doPendingFunctors: epoll_add, which     *)
(* drops the entry of fd2chan_ when EPOLL_CTL_ADD fails.                   *)
NewEvent(l, c) ==
  /\ pc[l] = "functors"
  /\ c \in pending[l]
  /\ pending' = [pending EXCEPT ![l] = @ \ {c}]
  /\ timed' = timed \cup {c}
  /\ fd2http' = [fd2http EXCEPT ![l][fd[c]] = c]
  /\ \E entry \in {c, None} :
       fd2chan' = [fd2chan EXCEPT ![l][fd[c]] = entry]
  /\ UNCHANGED <<acceptVars, loopVars>>
  /\ Release

(* doPendingFunctors ends; callbacks queued after its swap wait for the    *)
(* next round.  Which of them those are is left open.                      *)
EndFunctors(l) ==
  /\ pc[l] = "functors"
  /\ pc' = [pc EXCEPT ![l] = "expire"]
  /\ UNCHANGED <<live, acceptVars, pending, tableVars, batch, running>>

(* Mutant: timers are looked at before the handlers of the batch are run. *)
ExpireBeforeHandlers(l, c) ==
  /\ pc[l] \in {"handle", "expire"}
  /\ c \in timed /\ loop[c] = l
  /\ timed' = timed \ {c}
  /\ EpollDel(l, c)
  /\ UNCHANGED <<acceptVars, pending, loopVars>>
  /\ Release

(* handleExpired pops a node that has expired: ~TimerNode closes the       *)
(* connection, then lets go of it.                                         *)
Expire(l, c) ==
  /\ pc[l] = "expire"
  /\ c \in timed /\ loop[c] = l
  /\ timed' = timed \ {c}
  /\ EpollDel(l, c)
  /\ UNCHANGED <<acceptVars, pending, loopVars>>
  /\ Release

EndExpire(l) ==
  /\ pc[l] = "expire"
  /\ pc' = [pc EXCEPT ![l] = "poll"]
  /\ UNCHANGED <<live, acceptVars, pending, tableVars, batch, running>>

----------------------------------------------------------------------------
HandlerEnds(l) == ReturnAtOnce(l) \/ Rearm(l) \/ KeepHalfClosed(l) \/ HandleClose(l)

LoopStep(l) ==
  \/ Poll(l) \/ HandlerEnds(l) \/ EndHandle(l) \/ EndFunctors(l) \/ EndExpire(l)
  \/ \E c \in Conns : HandleEvents(l, c) \/ NewEvent(l, c) \/ Expire(l, c)

AcceptStep ==
  AcceptNext \/ \E c \in Conns, f \in Fds, l \in Loops : Accept(c, f, l)

Next == AcceptStep \/ \E l \in Loops : LoopStep(l)

Spec == Init /\ [][Next]_vars

----------------------------------------------------------------------------
(* A Channel that poll() returned, or whose handlers are being run, calls  *)
(* an HttpData that exists: nothing a loop does between epoll_wait and the *)
(* last handler of the batch destroys another connection of the batch.     *)
NoDanglingHandler ==
  \A l \in Loops :
    /\ batch[l] \subseteq live
    /\ running[l] # None => running[l] \in live

(* The tables of a loop hold only connections of that loop, alive, each    *)
(* under its own descriptor: after a descriptor number has been reused     *)
(* nothing still leads to the connection that had it before.               *)
TablesConsistent ==
  \A l \in Loops, f \in Fds :
    /\ fd2chan[l][f] \in {None, fd2http[l][f]}
    /\ fd2http[l][f] # None =>
         /\ fd2http[l][f] \in live
         /\ fd[fd2http[l][f]] = f
         /\ loop[fd2http[l][f]] = l

(* A live TimerNode belongs to a connection its loop still knows, so that  *)
(* an expired timer never closes a descriptor that has been reused.        *)
TimersKnown ==
  \A c \in timed : fd2http[loop[c]][fd[c]] = c

(* No connection is forgotten: until it is destroyed it is on its way to a *)
(* loop or in the table of its loop, or the acceptor has yet to drop it.   *)
NothingForgotten ==
  \A c \in live \ {accepting} :
    c \in pending[loop[c]] \/ fd2http[loop[c]][fd[c]] = c
============================================================================
