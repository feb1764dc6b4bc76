----------------------------- MODULE TimerProofs ----------------------------
(***************************************************************************)
(* Proofs about Timer for any connections, nodes, timeouts and any length  *)
(* of the clock's period: types, the link between a connection and its     *)
(* node, and that the manager implements Deadlines.                        *)
(***************************************************************************)
EXTENDS Timer, TLAPS

(* A connection's node is queued, holds it and is not marked as deleted.   *)
Linked ==
  \A c \in Conns : timer[c] # NoNode =>
    /\ timer[c] \in queue \ deleted
    /\ SPHttpData[timer[c]] = c
    /\ conn[c] = "open"

(* A node that holds a connection is the one the connection knows.         *)
HeldIsLinked ==
  \A n \in Nodes : SPHttpData[n] # NoConn => timer[SPHttpData[n]] = n

(* handleConn has detached the timer of its connection.                    *)
CurDetached == phase = "conn" => timer[cur] = NoNode /\ conn[cur] = "open"

(* A node was made in this period of the clock or in an earlier one.       *)
PastBase == \A n \in Nodes : setBase[n] <= base

NodeInv == Linked /\ HeldIsLinked /\ PastBase /\ deleted \subseteq queue

IInv == TypeOK /\ NodeInv /\ CurDetached

----------------------------------------------------------------------------
LEMMA TimeoutsAreNat == Timeouts \subseteq Nat
BY TimerAssumption DEF Timeouts

NodeTypeOK ==
  /\ queue \subseteq Nodes /\ deleted \subseteq Nodes
  /\ SPHttpData \in [Nodes -> Conns \cup {NoConn}]
  /\ expiredTime \in [Nodes -> Nat] /\ setBase \in [Nodes -> Nat]
  /\ timer \in [Conns -> Nodes \cup {NoNode}]
  /\ conn \in [Conns -> {"new", "open", "closed"}]

(* What addTimer does keeps the invariant when the connection has no node  *)
(* (every caller has detached it) and stays open ...                       *)
LEMMA AddTimerKeeps ==
  ASSUME IInv, NEW c \in Conns, NEW t \in Nat, AddTimer(c, t),
         timer[c] = NoNode, UNCHANGED timeVars,
         conn' = [conn EXCEPT ![c] = "open"]
  PROVE  NodeTypeOK' /\ NodeInv'
<1>1. PICK n \in Nodes \ queue :
        /\ queue' = queue \cup {n}
        /\ SPHttpData' = [SPHttpData EXCEPT ![n] = c]
        /\ expiredTime' = [expiredTime EXCEPT ![n] = clock + t]
        /\ setBase' = [setBase EXCEPT ![n] = base]
        /\ timer' = [timer EXCEPT ![c] = n]
        /\ deleted' = deleted
  BY DEF AddTimer
<1>2. clock + t \in Nat /\ base \in Nat /\ base' = base
  BY DEF IInv, TypeOK, timeVars
<1>3. NodeTypeOK'
  BY <1>1, <1>2 DEF IInv, TypeOK, NodeTypeOK
<1>4. n \notin deleted /\ deleted' \subseteq queue'
  BY <1>1 DEF IInv, NodeInv
<1>5. Linked'
  BY <1>1, <1>4, TimerAssumption DEF IInv, TypeOK, NodeInv, Linked
<1>6. HeldIsLinked'
  BY <1>1, TimerAssumption DEF IInv, TypeOK, NodeInv, Linked, HeldIsLinked
<1>7. PastBase'
  BY <1>1, <1>2 DEF IInv, TypeOK, NodeInv, PastBase
<1> QED BY <1>3, <1>4, <1>5, <1>6, <1>7 DEF NodeInv

(* ... what clearReq does keeps it for a connection with or without a node *)
LEMMA DetachKeeps ==
  ASSUME IInv, NEW c \in Conns, Detach(c), UNCHANGED <<timeVars, conn>>
  PROVE  NodeTypeOK' /\ NodeInv' /\ timer'[c] = NoNode
<1>1. /\ queue' = queue /\ expiredTime' = expiredTime /\ setBase' = setBase
      /\ timer' = [timer EXCEPT ![c] = NoNode]
      /\ base' = base /\ conn' = conn
  BY DEF Detach, timeVars
<1>2. CASE timer[c] = NoNode
  <2>1. SPHttpData' = SPHttpData /\ deleted' = deleted
    BY <1>2 DEF Detach
  <2> QED
    BY <1>1, <1>2, <2>1, TimerAssumption DEF IInv, TypeOK, NodeInv, NodeTypeOK,
       Linked, HeldIsLinked, PastBase
<1>3. CASE timer[c] # NoNode
  <2>1. /\ SPHttpData' = [SPHttpData EXCEPT ![timer[c]] = NoConn]
        /\ deleted' = deleted \cup {timer[c]}
    BY <1>3 DEF Detach
  <2>2. timer[c] \in queue /\ timer[c] \in Nodes /\ SPHttpData[timer[c]] = c
    BY <1>3 DEF IInv, TypeOK, NodeInv, Linked
  <2>3. NodeTypeOK' BY <1>1, <2>1, <2>2 DEF IInv, TypeOK, NodeTypeOK
  <2>4. Linked'
    BY <1>1, <2>1, <2>2, TimerAssumption DEF IInv, TypeOK, NodeInv, Linked
  <2>5. HeldIsLinked'
    BY <1>1, <2>1, <2>2, TimerAssumption DEF IInv, TypeOK, NodeInv, HeldIsLinked
  <2>6. PastBase' /\ deleted' \subseteq queue' /\ timer'[c] = NoNode
    BY <1>1, <2>1, <2>2 DEF IInv, TypeOK, NodeInv, PastBase
  <2> QED BY <2>3, <2>4, <2>5, <2>6 DEF NodeInv
<1> QED BY <1>2, <1>3

(* ... and so does the destruction of a node that leaves the queue, which  *)
(* closes the connection it holds.                                         *)
LEMMA DestroyKeeps ==
  ASSUME IInv, NEW n \in queue, queue' = queue \ {n}, Destroy(n),
         UNCHANGED timeVars
  PROVE  NodeTypeOK' /\ NodeInv'
<1>1. /\ SPHttpData' = [SPHttpData EXCEPT ![n] = NoConn]
      /\ expiredTime' = [expiredTime EXCEPT ![n] = 0]
      /\ setBase' = [setBase EXCEPT ![n] = 0]
      /\ deleted' = deleted \ {n}
      /\ base' = base /\ n \in Nodes
  BY DEF Destroy, timeVars, IInv, TypeOK
<1>2. PastBase' /\ deleted' \subseteq queue'
  BY <1>1 DEF IInv, TypeOK, NodeInv, PastBase
<1>3. CASE SPHttpData[n] \in Conns
  <2>1. /\ conn' = [conn EXCEPT ![SPHttpData[n]] = "closed"]
        /\ timer' = [timer EXCEPT ![SPHttpData[n]] = NoNode]
        /\ timer[SPHttpData[n]] = n
    BY <1>1, <1>3, TimerAssumption DEF Destroy, IInv, NodeInv, HeldIsLinked
  <2>2. NodeTypeOK' BY <1>1, <1>3, <2>1 DEF IInv, TypeOK, NodeTypeOK
  <2>3. Linked'
    BY <1>1, <1>3, <2>1, TimerAssumption DEF IInv, TypeOK, NodeInv, Linked
  <2>4. HeldIsLinked'
    BY <1>1, <1>3, <2>1, TimerAssumption
       DEF IInv, TypeOK, NodeInv, Linked, HeldIsLinked
  <2> QED BY <1>2, <2>2, <2>3, <2>4 DEF NodeInv
<1>4. CASE SPHttpData[n] \notin Conns
  <2>1. conn' = conn /\ timer' = timer BY <1>4 DEF Destroy
  <2>2. NodeTypeOK' BY <1>1, <2>1 DEF IInv, TypeOK, NodeTypeOK
  <2>3. Linked' BY <1>1, <1>4, <2>1 DEF IInv, TypeOK, NodeInv, Linked
  <2>4. HeldIsLinked'
    BY <1>1, <2>1, TimerAssumption DEF IInv, TypeOK, NodeInv, HeldIsLinked
  <2> QED BY <1>2, <2>2, <2>3, <2>4 DEF NodeInv
<1> QED BY <1>3, <1>4

----------------------------------------------------------------------------
LEMMA InitIInv == Init => IInv
<1> SUFFICES ASSUME Init PROVE IInv
  OBVIOUS
<1>1. TypeOK BY TimerAssumption DEF Init, TypeOK
<1>2. NodeInv BY DEF Init, NodeInv, Linked, HeldIsLinked, PastBase
<1> QED BY <1>1, <1>2 DEF Init, IInv, CurDetached

LEMMA NextIInv == IInv /\ [Next]_vars => IInv'
<1> SUFFICES ASSUME IInv, [Next]_vars PROVE IInv'
  OBVIOUS
<1>1. CASE Tick
  <2>1. clock' \in 0..(Wrap - 1) /\ base' \in Nat /\ base <= base'
    BY <1>1, TimerAssumption DEF Tick, IInv, TypeOK
  <2>2. UNCHANGED <<loopVars, nodeVars, timer, conn>> BY <1>1 DEF Tick
  <2>3. PastBase' BY <2>1, <2>2 DEF IInv, TypeOK, NodeInv, PastBase, nodeVars
  <2> QED
    BY <2>1, <2>2, <2>3 DEF IInv, TypeOK, NodeInv, Linked, HeldIsLinked,
       CurDetached, loopVars, nodeVars
<1>2. CASE Poll \/ EndDispatch \/ EndExpire
  BY <1>2 DEF Poll, EndDispatch, EndExpire, IInv, TypeOK, NodeInv, Linked,
     HeldIsLinked, CurDetached, PastBase, timeVars, nodeVars
<1>3. ASSUME NEW c \in Conns, NewEvent(c) PROVE IInv'
  <2>1. timer[c] = NoNode /\ conn' = [conn EXCEPT ![c] = "open"]
    BY <1>3 DEF NewEvent, IInv, TypeOK, NodeInv, Linked
  <2>2. NodeTypeOK' /\ NodeInv'
    BY <1>3, <2>1, AddTimerKeeps, TimerAssumption DEF NewEvent
  <2> QED
    BY <1>3, <2>2 DEF NewEvent, IInv, TypeOK, NodeTypeOK, CurDetached, loopVars,
       timeVars
<1>4. ASSUME NEW c \in Conns, Reset(c) \/ HandleConn(c) PROVE IInv'
  <2>1. NodeTypeOK' /\ NodeInv' /\ timer'[c] = NoNode
    BY <1>4, DetachKeeps DEF Reset, HandleConn
  <2> QED
    BY <1>4, <2>1 DEF Reset, HandleConn, IInv, TypeOK, NodeTypeOK, CurDetached,
       loopVars, timeVars
<1>5. CASE UpdatePoller
  <2>1. cur \in Conns /\ timer[cur] = NoNode
        /\ conn' = [conn EXCEPT ![cur] = "open"]
    BY <1>5 DEF UpdatePoller, EndConn, IInv, TypeOK, CurDetached
  <2>2. NodeTypeOK' /\ NodeInv'
    BY <1>5, <2>1, AddTimerKeeps, TimeoutsAreNat DEF UpdatePoller
  <2> QED
    BY <1>5, <2>2 DEF UpdatePoller, EndConn, IInv, TypeOK, NodeTypeOK,
       CurDetached, timeVars
<1>6. CASE KeepHalfClosed
  BY <1>6 DEF KeepHalfClosed, EndConn, IInv, TypeOK, NodeInv, Linked,
     HeldIsLinked, CurDetached, PastBase, timeVars, nodeVars
<1>7. CASE HandleClose
  <2>1. cur \in Conns /\ timer[cur] = NoNode
    BY <1>7 DEF HandleClose, EndConn, IInv, TypeOK, CurDetached
  <2> QED
    BY <1>7, <2>1 DEF HandleClose, EndConn, IInv, TypeOK, NodeInv, Linked,
       HeldIsLinked, CurDetached, PastBase, timeVars, nodeVars
<1>8. CASE PopTop
  <2>1. NodeTypeOK' /\ NodeInv' BY <1>8, DestroyKeeps DEF PopTop
  <2> QED
    BY <1>8, <2>1 DEF PopTop, IInv, TypeOK, NodeTypeOK, CurDetached, loopVars,
       timeVars
<1>9. CASE UNCHANGED vars
  BY <1>9 DEF IInv, TypeOK, NodeInv, Linked, HeldIsLinked, CurDetached,
     PastBase, vars, loopVars, timeVars, nodeVars
<1> QED BY <1>1, <1>2, <1>3, <1>4, <1>5, <1>6, <1>7, <1>8, <1>9 DEF Next

LEMMA Invariance == Spec => []IInv
<1>1. Init => IInv BY InitIInv
<1>2. IInv /\ [Next]_vars => IInv' BY NextIInv
<1> QED BY <1>1, <1>2, PTL DEF Spec

(* The timers' variables keep their types and the clock its range.         *)
THEOREM TypeCorrect == Spec => []TypeOK
<1>1. IInv => TypeOK BY DEF IInv
<1> QED BY <1>1, Invariance, PTL

(* A node in the queue that holds a connection is that connection's timer, *)
(* and a connection with a timer is open: an expiring node closes the      *)
(* connection it was made for, while it is what that connection waits for. *)
THEOREM TimersLinked == Spec => [](Linked /\ HeldIsLinked)
<1>1. IInv => Linked /\ HeldIsLinked BY DEF IInv, NodeInv
<1> QED BY <1>1, Invariance, PTL
----------------------------------------------------------------------------
(* When handleExpiredEvent returns, the top is valid and every other node  *)
(* has a time no less than the top's: none of this period is overdue.      *)
THEOREM ExpiredGone == Spec => ExpiredAreGone
<1>1. ASSUME IInv, [Next]_vars, phase = "expire", phase' = "poll",
             NEW n \in queue, setBase[n] = base
      PROVE  Now < DueOf(n)
  <2>1. EndExpire
    BY <1>1 DEF Next, Tick, Poll, NewEvent, Reset, HandleConn, UpdatePoller,
       KeepHalfClosed, HandleClose, EndConn, EndDispatch, PopTop, loopVars, vars
  <2>2. PICK k \in queue : Top(k) /\ Valid(k)
    BY <1>1, <2>1 DEF EndExpire
  <2>3. expiredTime[k] <= expiredTime[n] /\ clock < expiredTime[k]
    BY <1>1, <2>2 DEF Top, Valid
  <2>4. /\ n \in Nodes /\ k \in Nodes /\ clock \in Nat /\ base \in Nat
        /\ expiredTime[n] \in Nat /\ expiredTime[k] \in Nat
    BY <1>1, <2>2 DEF IInv, TypeOK
  <2> QED BY <1>1, <2>3, <2>4 DEF Now, DueOf
<1>2. IInv /\ [Next]_vars =>
        (phase = "expire" /\ phase' = "poll" =>
           \A n \in queue : setBase[n] = base => Now < DueOf(n))
  BY <1>1
<1> QED BY <1>2, Invariance, PTL DEF Spec, ExpiredAreGone

----------------------------------------------------------------------------
(* The refinement of Deadlines. *)

due == [c \in Conns |-> IF timer[c] = NoNode THEN Never ELSE DueOf(timer[c])]
open == {c \in Conns : conn[c] # "closed"}

(* What addTimer does is Arm ... *)
LEMMA AddTimerArms ==
  ASSUME IInv, NEW c \in Conns, NEW t \in Timeouts, AddTimer(c, t),
         timer[c] = NoNode, conn[c] # "closed", UNCHANGED timeVars,
         conn' = [conn EXCEPT ![c] = "open"]
  PROVE  D!Arm(c)
<1>1. PICK n \in Nodes \ queue :
        /\ expiredTime' = [expiredTime EXCEPT ![n] = clock + t]
        /\ setBase' = [setBase EXCEPT ![n] = base]
        /\ timer' = [timer EXCEPT ![c] = n]
  BY DEF AddTimer
<1>2. /\ n # NoNode /\ clock \in Nat /\ base \in Nat /\ t \in Nat
      /\ clock' = clock /\ base' = base
  BY TimerAssumption, TimeoutsAreNat DEF IInv, TypeOK, timeVars
<1>3. DueOf(n)' = Now + t
  BY <1>1, <1>2 DEF IInv, TypeOK, DueOf, Now
<1>4. ASSUME NEW k \in Conns, k # c, timer[k] # NoNode
      PROVE  timer'[k] = timer[k] /\ DueOf(timer[k])' = DueOf(timer[k])
  <2>1. timer[k] \in queue BY <1>4 DEF IInv, NodeInv, Linked
  <2> QED BY <1>1, <1>4, <2>1 DEF IInv, TypeOK, DueOf
<1>5. due' = [due EXCEPT ![c] = Now + t]
  BY <1>1, <1>2, <1>3, <1>4 DEF due, IInv, TypeOK
<1>6. open' = open /\ Now' = Now /\ c \in open
  BY <1>2 DEF open, Now, IInv, TypeOK
<1> QED BY <1>5, <1>6 DEF D!Arm, due, open

(* ... what clearReq does is Disarm ...                                    *)
LEMMA DetachDisarms ==
  ASSUME IInv, NEW c \in Conns, conn[c] = "open", Detach(c),
         UNCHANGED <<timeVars, conn>>
  PROVE  D!Disarm(c)
<1>1. /\ expiredTime' = expiredTime /\ setBase' = setBase
      /\ timer' = [timer EXCEPT ![c] = NoNode]
      /\ clock' = clock /\ base' = base /\ conn' = conn
  BY DEF Detach, timeVars
<1>2. due' = [due EXCEPT ![c] = Never]
  BY <1>1 DEF due, DueOf, IInv, TypeOK
<1>3. open' = open /\ Now' = Now /\ c \in open
  BY <1>1 DEF open, Now
<1> QED BY <1>2, <1>3 DEF D!Disarm, due, open

(* ... and a node leaving the queue closes its connection when it is due,  *)
(* or nothing.                                                             *)
LEMMA PopTimesOut ==
  ASSUME IInv, PopTop
  PROVE  (\E c \in Conns : D!TimeOut(c)) \/ UNCHANGED D!vars
<1>1. PICK n \in queue : /\ n \in deleted \/ ~Valid(n)
                        /\ queue' = queue \ {n}
                        /\ Destroy(n)
  BY DEF PopTop
<1>2. /\ expiredTime' = [expiredTime EXCEPT ![n] = 0]
      /\ setBase' = [setBase EXCEPT ![n] = 0]
      /\ clock' = clock /\ base' = base /\ n \in Nodes
  BY <1>1 DEF PopTop, Destroy, timeVars, IInv, TypeOK
<1>3. CASE SPHttpData[n] \in Conns
  <2> DEFINE c == SPHttpData[n]
  <2>1. /\ conn' = [conn EXCEPT ![c] = "closed"]
        /\ timer' = [timer EXCEPT ![c] = NoNode]
        /\ timer[c] = n /\ n # NoNode
    BY <1>1, <1>3, TimerAssumption
       DEF Destroy, IInv, TypeOK, NodeInv, HeldIsLinked
  <2>2. n \notin deleted BY <1>3, <2>1 DEF IInv, NodeInv, Linked
  <2>3. ~(clock < expiredTime[n]) BY <1>1, <2>2 DEF Valid
  <2>4. DueOf(n) <= Now /\ DueOf(n) \in Nat
    BY <1>2, <2>3 DEF IInv, TypeOK, NodeInv, PastBase, DueOf, Now
  <2>5. due[c] = DueOf(n) BY <1>3, <2>1 DEF due
  <2>6. \A k \in Conns : timer[k] = n => k = c
    BY <2>1 DEF IInv, NodeInv, Linked
  <2>7. due' = [due EXCEPT ![c] = Never]
    <3>1. \A k \in Conns \ {c} : timer'[k] = timer[k]
      BY <1>3, <2>1 DEF IInv, TypeOK
    <3>2. \A k \in Conns \ {c} :
            timer[k] # NoNode => DueOf(timer[k])' = DueOf(timer[k])
      BY <1>2, <2>6, <3>1 DEF DueOf, IInv, TypeOK
    <3>3. \A k \in Conns \ {c} : due'[k] = due[k]
      BY <3>1, <3>2 DEF due
    <3>4. due'[c] = Never BY <1>3, <2>1 DEF due, IInv, TypeOK
    <3> QED BY <1>3, <3>3, <3>4 DEF due
  <2>8. open' = open \ {c} /\ Now' = Now
    BY <1>2, <1>3, <2>1 DEF open, Now, IInv, TypeOK
  <2>9. Never # DueOf(n) BY <2>4, TimerAssumption
  <2> QED
    BY <1>3, <2>4, <2>5, <2>7, <2>8, <2>9 DEF D!TimeOut, D!Finish, due, open
<1>4. CASE SPHttpData[n] \notin Conns
  <2>1. timer' = timer /\ conn' = conn BY <1>1, <1>4 DEF Destroy
  <2>2. \A k \in Conns : timer[k] # n \/ timer[k] = NoNode
    BY <1>4 DEF IInv, NodeInv, Linked
  <2>3. \A k \in Conns : timer[k] # NoNode => DueOf(timer[k])' = DueOf(timer[k])
    BY <1>2, <2>1, <2>2 DEF DueOf, IInv, TypeOK
  <2>4. due' = due /\ open' = open /\ Now' = Now
    BY <1>2, <2>1, <2>3 DEF due, open, Now
  <2> QED BY <2>4 DEF D!vars, due, open
<1> QED BY <1>3, <1>4

(* Through every wrap of the clock and whatever nodes are left in the      *)
(* queue, a timer only closes a connection whose deadline has come.        *)
THEOREM TimersAreDeadlines == Spec => ImplementsDeadlines
<1>1. Init => D!Init
  <2> SUFFICES ASSUME Init PROVE D!Init
    OBVIOUS
  <2>1. Now \in Nat BY TimerAssumption DEF Init, Now
  <2> QED BY <2>1 DEF Init, D!Init
<1>2. ASSUME IInv, [Next]_vars PROVE [D!Next]_(D!vars)
  <2>1. CASE Tick
    <3>1. Now' = Now + 1
      BY <1>2, <2>1 DEF Tick, Now, IInv, TypeOK
    <3>2. due' = due /\ open' = open
      BY <2>1 DEF Tick, nodeVars, due, open, DueOf
    <3> QED BY <3>1, <3>2 DEF D!Next, D!Tick, due, open
  <2>2. ASSUME NEW c \in Conns, NewEvent(c) PROVE D!Next
    <3>1. timer[c] = NoNode /\ conn' = [conn EXCEPT ![c] = "open"]
          /\ conn[c] # "closed"
      BY <1>2, <2>2 DEF NewEvent, IInv, TypeOK, NodeInv, Linked
    <3>2. ExpiredTime \in Timeouts BY DEF Timeouts
    <3>3. D!Arm(c) BY <1>2, <2>2, <3>1, <3>2, AddTimerArms DEF NewEvent
    <3> QED BY <3>3 DEF D!Next
  <2>3. ASSUME NEW c \in Conns, Reset(c) \/ HandleConn(c) PROVE D!Next
    <3>1. D!Disarm(c) BY <1>2, <2>3, DetachDisarms DEF Reset, HandleConn
    <3> QED BY <3>1 DEF D!Next
  <2>4. CASE UpdatePoller
    <3>1. PICK c \in Conns : c = cur
      BY <1>2, <2>4 DEF UpdatePoller, EndConn, IInv, TypeOK
    <3>2. timer[c] = NoNode /\ conn[c] = "open"
          /\ conn' = [conn EXCEPT ![c] = "open"]
      BY <1>2, <2>4, <3>1 DEF UpdatePoller, EndConn, IInv, TypeOK, CurDetached
    <3>3. PICK t \in Timeouts : AddTimer(c, t)
      BY <2>4, <3>1 DEF UpdatePoller, AddTimer
    <3>4. UNCHANGED timeVars BY <2>4 DEF UpdatePoller
    <3>5. D!Arm(c) BY <1>2, <3>2, <3>3, <3>4, AddTimerArms
    <3> QED BY <3>5 DEF D!Next
  <2>5. CASE HandleClose
    <3>1. cur \in Conns /\ timer[cur] = NoNode
      BY <1>2, <2>5 DEF HandleClose, EndConn, IInv, TypeOK, CurDetached
    <3>2. due[cur] = Never /\ due' = [due EXCEPT ![cur] = Never]
      BY <2>5, <3>1 DEF HandleClose, nodeVars, due, DueOf
    <3>3. open' = open \ {cur} /\ Now' = Now
      BY <1>2, <2>5, <3>1 DEF HandleClose, timeVars, open, Now, IInv, TypeOK
    <3> QED BY <3>1, <3>2, <3>3 DEF D!Next, D!Finish, due, open
  <2>6. CASE PopTop BY <1>2, <2>6, PopTimesOut DEF D!Next
  <2>7. CASE UNCHANGED <<timeVars, nodeVars, timer, conn>>
    <3>1. due' = due /\ open' = open /\ Now' = Now
      BY <2>7 DEF timeVars, nodeVars, due, open, DueOf, Now
    <3> QED BY <3>1 DEF D!vars, due, open
  <2> QED
    BY <1>2, <2>1, <2>2, <2>3, <2>4, <2>5, <2>6, <2>7
       DEF Next, Poll, EndDispatch, EndExpire, KeepHalfClosed, vars
<1> QED BY <1>1, <1>2, Invariance, PTL DEF Spec, ImplementsDeadlines, D!Spec
=============================================================================
