-------------------------------- MODULE Timer -------------------------------
(***************************************************************************)
(* The TimerManager of one loop (Timer.cpp): the priority queue of         *)
(* TimerNodes, their deferred deletion, and the clock, which counts        *)
(* milliseconds modulo 10000 s.  The loop iterates as in EventLoop::loop:  *)
(* handlers first, which detach and link timers, then handleExpired.       *)
(*                                                                         *)
(* A heap orders its nodes by expiredTime_ and nothing ever changes that   *)
(* of a node in it (TimerNode::update has no caller), so top() is a node   *)
(* of the least expiredTime_.                                              *)
(***************************************************************************)
EXTENDS Naturals

CONSTANTS
  Conns,          (* connections                                           *)
  Nodes,          (* TimerNode objects; one is reused once destroyed       *)
  NoConn, NoNode, (* the null of SPHttpData, of timer_                     *)
  Never,          (* the deadline of a connection without a timer          *)
  ExpiredTime,    (* DEFAULT_EXPIRED_TIME, in ticks                        *)
  KeepAliveTime,  (* DEFAULT_KEEP_ALIVE_TIME                               *)
  Wrap,           (* the ticks after which the clock starts again at 0     *)
  MaxTime         (* bound: the length of a behaviour, in ticks            *)

ASSUME TimerAssumption ==
  /\ ExpiredTime \in Nat /\ KeepAliveTime \in Nat
  /\ Wrap \in Nat \ {0} /\ MaxTime \in Nat
  /\ NoConn \notin Conns /\ NoNode \notin Nodes /\ Never \notin Nat

Timeouts == {ExpiredTime, KeepAliveTime, KeepAliveTime \div 2}

VARIABLES
  phase,       (* the loop: "poll", "dispatch", "conn", "expire"           *)
  cur,         (* the connection whose handleConn is running               *)
  clock,       (* tv_sec % 10000 * 1000 + tv_usec / 1000                   *)
  base,        (* real time at which the clock was last 0                  *)
  queue,       (* timerNodeQueue: the nodes in it                          *)
  SPHttpData,  (* the connection a node keeps and will close               *)
  expiredTime, (* expiredTime_                                             *)
  deleted,     (* the nodes whose deleted_ is set                          *)
  setBase,     (* history: base when the node was made                     *)
  timer,       (* timer_ of a connection: weak_ptr to its node             *)
  conn         (* a connection's life                                      *)

loopVars == <<phase, cur>>
timeVars == <<clock, base>>
nodeVars == <<queue, SPHttpData, expiredTime, deleted, setBase>>
vars == <<loopVars, timeVars, nodeVars, timer, conn>>

Now == base + clock
DueOf(n) == setBase[n] + expiredTime[n]

TypeOK ==
  /\ phase \in {"poll", "dispatch", "conn", "expire"}
  /\ IF phase = "conn" THEN cur \in Conns ELSE cur = NoConn
  /\ clock \in 0..(Wrap - 1) /\ base \in Nat
  /\ queue \subseteq Nodes /\ deleted \subseteq Nodes
  /\ SPHttpData \in [Nodes -> Conns \cup {NoConn}]
  /\ expiredTime \in [Nodes -> Nat] /\ setBase \in [Nodes -> Nat]
  /\ timer \in [Conns -> Nodes \cup {NoNode}]
  /\ conn \in [Conns -> {"new", "open", "closed"}]

Init ==
  /\ phase = "poll" /\ cur = NoConn
  /\ clock \in 0..(Wrap - 1) /\ base = 0
  /\ queue = {} /\ deleted = {}
  /\ SPHttpData = [n \in Nodes |-> NoConn]
  /\ expiredTime = [n \in Nodes |-> 0] /\ setBase = [n \in Nodes |-> 0]
  /\ timer = [c \in Conns |-> NoNode]
  /\ conn = [c \in Conns |-> "new"]

(* Mutant: the seconds are not reduced. *)
TickUnreduced ==
  /\ Now < MaxTime
  /\ clock' = clock + 1
  /\ UNCHANGED <<base, loopVars, nodeVars, timer, conn>>

(* Time passes whatever the loop is doing. *)
Tick ==
  /\ Now < MaxTime
  /\ IF clock + 1 = Wrap THEN clock' = 0 /\ base' = base + Wrap
                         ELSE clock' = clock + 1 /\ base' = base
  /\ UNCHANGED <<loopVars, nodeVars, timer, conn>>

----------------------------------------------------------------------------
(* What the handlers do to timers. *)

(* TimerManager::addTimer, which links the new node to the connection. *)
AddTimer(c, t) ==
  \E n \in Nodes \ queue :
    /\ queue' = queue \cup {n}
    /\ SPHttpData' = [SPHttpData EXCEPT ![n] = c]
    /\ expiredTime' = [expiredTime EXCEPT ![n] = clock + t]
    /\ setBase' = [setBase EXCEPT ![n] = base]
    /\ timer' = [timer EXCEPT ![c] = n]
    /\ UNCHANGED deleted

(* Mutant: the node is marked but keeps its connection. *)
DetachKeepsConn(c) ==
  /\ timer' = [timer EXCEPT ![c] = NoNode]
  /\ IF timer[c] = NoNode
       THEN UNCHANGED deleted
       ELSE deleted' = deleted \cup {timer[c]}
  /\ UNCHANGED <<queue, SPHttpData, expiredTime, setBase>>

(* seperateTimer: clearReq on the node, if there is one; it stays queued. *)
Detach(c) ==
  /\ timer' = [timer EXCEPT ![c] = NoNode]
  /\ IF timer[c] = NoNode
       THEN UNCHANGED <<SPHttpData, deleted>>
       ELSE /\ SPHttpData' = [SPHttpData EXCEPT ![timer[c]] = NoConn]
            /\ deleted' = deleted \cup {timer[c]}
  /\ UNCHANGED <<queue, expiredTime, setBase>>

(* poll() returns: only with events, of these connections or of any other  *)
(* descriptor of the loop.                                                 *)
Poll ==
  /\ phase = "poll"
  /\ phase' = "dispatch"
  /\ UNCHANGED <<cur, timeVars, nodeVars, timer, conn>>

(* newEvent, a callback: addToPoller with DEFAULT_EXPIRED_TIME. *)
NewEvent(c) ==
  /\ phase = "dispatch" /\ conn[c] = "new"
  /\ AddTimer(c, ExpiredTime)
  /\ conn' = [conn EXCEPT ![c] = "open"]
  /\ UNCHANGED <<loopVars, timeVars>>

(* reset(), after a whole request: the timer goes, handleConn is to follow. *)
Reset(c) ==
  /\ phase = "dispatch" /\ conn[c] = "open"
  /\ Detach(c)
  /\ UNCHANGED <<loopVars, timeVars, conn>>

(* handleConn begins by detaching the timer. *)
HandleConn(c) ==
  /\ phase = "dispatch" /\ conn[c] = "open"
  /\ Detach(c)
  /\ phase' = "conn" /\ cur' = c
  /\ UNCHANGED <<timeVars, conn>>

EndConn == phase = "conn" /\ phase' = "dispatch" /\ cur' = NoConn

(* Connected: updatePoller with the timeout the connection is due. *)
UpdatePoller ==
  /\ EndConn
  /\ \E t \in Timeouts : AddTimer(cur, t)
  /\ UNCHANGED <<timeVars, conn>>

(* Half closed with output pending: no timer is linked. *)
KeepHalfClosed == EndConn /\ UNCHANGED <<timeVars, nodeVars, timer, conn>>

(* handleClose, called at once. *)
HandleClose ==
  /\ EndConn
  /\ conn' = [conn EXCEPT ![cur] = "closed"]
  /\ UNCHANGED <<timeVars, nodeVars, timer>>

(* The batch and the callbacks are done. *)
EndDispatch ==
  /\ phase = "dispatch"
  /\ phase' = "expire"
  /\ UNCHANGED <<cur, timeVars, nodeVars, timer, conn>>

----------------------------------------------------------------------------
(* TimerManager::handleExpiredEvent *)

(* Mutant: any node may come first. *)
TopUnordered(n) == n \in queue

(* timerNodeQueue.top() *)
Top(n) == n \in queue /\ \A k \in queue : expiredTime[n] <= expiredTime[k]

(* isValid() *)
Valid(n) == clock < expiredTime[n]

(* The last reference goes: ~TimerNode closes the connection it holds. *)
Destroy(n) ==
  /\ IF SPHttpData[n] \in Conns
       THEN /\ conn' = [conn EXCEPT ![SPHttpData[n]] = "closed"]
            /\ timer' = [timer EXCEPT ![SPHttpData[n]] = NoNode]
       ELSE UNCHANGED <<conn, timer>>
  /\ SPHttpData' = [SPHttpData EXCEPT ![n] = NoConn]
  /\ expiredTime' = [expiredTime EXCEPT ![n] = 0]
  /\ setBase' = [setBase EXCEPT ![n] = 0]
  /\ deleted' = deleted \ {n}

(* The top is popped when it is deleted or no longer valid. *)
PopTop ==
  /\ phase = "expire"
  /\ \E n \in queue :
       /\ Top(n)
       /\ n \in deleted \/ ~Valid(n)
       /\ queue' = queue \ {n}
       /\ Destroy(n)
  /\ UNCHANGED <<loopVars, timeVars>>

EndExpire ==
  /\ phase = "expire"
  /\ queue # {} => \E n \in queue : Top(n) /\ n \notin deleted /\ Valid(n)
  /\ phase' = "poll"
  /\ UNCHANGED <<cur, timeVars, nodeVars, timer, conn>>

Next ==
  \/ Tick \/ Poll
  \/ \E c \in Conns : NewEvent(c) \/ Reset(c) \/ HandleConn(c)
  \/ UpdatePoller \/ KeepHalfClosed \/ HandleClose \/ EndDispatch
  \/ PopTop \/ EndExpire

Spec == Init /\ [][Next]_vars

----------------------------------------------------------------------------
(* Timers only close a connection that has been silent for its whole       *)
(* timeout, through whatever wrap of the clock, and never because of a     *)
(* timer that has been replaced: the manager implements Deadlines.         *)
D == INSTANCE Deadlines WITH
       now  <- Now,
       due  <- [c \in Conns |->
                  IF timer[c] = NoNode THEN Never ELSE DueOf(timer[c])],
       open <- {c \in Conns : conn[c] # "closed"}

ImplementsDeadlines == D!Spec

(* What handleExpiredEvent leaves in the queue is not due yet, provided it *)
(* was set since the clock last started again: the heap is in the order of *)
(* the deadlines as far as one epoch goes.                                 *)
ExpiredAreGone ==
  [][phase = "expire" /\ phase' = "poll" =>
       \A n \in queue : setBase[n] = base => Now < DueOf(n)]_vars

(* Timer.cpp:60-63 says of a node that has been marked as deleted that it  *)
(* is removed when it times out, at the latest, by handleExpiredEvent.     *)
(* But the clock starts again before it reaches an expiredTime_ of Wrap or *)
(* more: such a node only goes once it is marked and at the top.           *)
DeletedAreGone ==
  [][phase = "expire" /\ phase' = "poll" =>
       \A n \in queue \cap deleted : Now < DueOf(n)]_vars
=============================================================================
