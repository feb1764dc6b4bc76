-------------------------- MODULE ConnTableProofs --------------------------
(***************************************************************************)
(* Proofs about ConnTable, for any connections, descriptors and loops: no  *)
(* handler is ever called on a destroyed HttpData, the tables never mix up *)
(* two users of one descriptor number, a timer never outlives what it      *)
(* would close, and no connection is forgotten.                            *)
(***************************************************************************)
EXTENDS ConnTable, TLAPS

(* Every existing HttpData has its descriptor and its loop. *)
Placed == \A c \in live : fd[c] \in Fds /\ loop[c] \in Loops

(* The kernel gives no number twice while it is open. *)
FdsExclusive == \A c, d \in live : fd[c] = fd[d] => c = d

AcceptingLive == accepting # None => accepting \in live

PendingLive ==
  \A l \in Loops : \A c \in pending[l] : c \in live /\ loop[c] = l

TimersLive == \A c \in timed : c \in live /\ fd2http[loop[c]][fd[c]] = c

(* The part of the invariant that says nothing of the batch being handled. *)
TableInv ==
  /\ TypeOK /\ Placed /\ FdsExclusive /\ AcceptingLive /\ PendingLive
  /\ TimersLive /\ TablesConsistent /\ NothingForgotten

(* What poll() returned, and the connection being handled, are in the      *)
(* table, each once, and only between epoll_wait and doPendingFunctors:    *)
(* callbacks and timers find the batch empty.                              *)
BatchInTable ==
  \A l \in Loops :
    /\ \A c \in batch[l] : c \in live /\ fd2http[l][fd[c]] = c
    /\ running[l] # None =>
         running[l] \in live /\ fd2http[l][fd[running[l]]] = running[l]

BatchInHandle ==
  \A l \in Loops :
    /\ batch[l] # {} \/ running[l] # None => pc[l] = "handle"
    /\ running[l] \notin batch[l]

IInv == TableInv /\ BatchInTable /\ BatchInHandle

----------------------------------------------------------------------------
LEMMA InitIInv == Init => IInv
  BY NoneAssumption
  DEF Init, IInv, TableInv, TypeOK, Placed, FdsExclusive, AcceptingLive,
      PendingLive, TimersLive, TablesConsistent, NothingForgotten,
      BatchInTable, BatchInHandle, Phases

(* A connection whose entry of fd2http_ stays is not destroyed. *)
LEMMA EntryKeepsAlive ==
  ASSUME Release, NEW c \in live, NEW l \in Loops, NEW f \in Fds,
         fd2http'[l][f] = c
  PROVE  c \in live'
  BY DEF Release, Held

(* Closing a connection leaves the others as they were.  It is the same    *)
(* step whether handleConn or an expired timer asks for it.                *)
LEMMA Closing ==
  ASSUME TableInv, NEW l \in Loops, NEW c \in live, loop[c] = l,
         timed' = timed \ {c}, EpollDel(l, c), Release,
         UNCHANGED <<acceptVars, pending>>,
         pc' \in [Loops -> Phases], batch' \in [Loops -> SUBSET Conns],
         running' \in [Loops -> Conns \cup {None}]
  PROVE  /\ TableInv'
         /\ \A m \in Loops, d \in live :
              d # c /\ fd2http[m][fd[d]] = d =>
                d \in live' /\ fd2http'[m][fd[d]] = d
<1> USE NoneAssumption DEF TableInv, TypeOK, acceptVars
<1>1. /\ fd[c] \in Fds /\ c \in Conns
      /\ live' \subseteq live
      /\ fd' = fd /\ loop' = loop /\ pending' = pending
      /\ accepting' = accepting /\ made' = made
  BY DEF Placed, Release
<1>2. \A m \in Loops, f \in Fds :
        fd2http'[m][f] = IF m = l /\ f = fd[c] THEN None ELSE fd2http[m][f]
  BY <1>1 DEF EpollDel
<1>3. \A m \in Loops, f \in Fds :
        fd2chan'[m][f] = IF m = l /\ f = fd[c] THEN None ELSE fd2chan[m][f]
  BY <1>1 DEF EpollDel
<1>4. ASSUME NEW m \in Loops, NEW d \in live, d # c, fd2http[m][fd[d]] = d
      PROVE  d \in live' /\ fd2http'[m][fd[d]] = d
  <2>1. fd[d] \in Fds /\ fd[d] # fd[c] BY <1>4 DEF Placed, FdsExclusive
  <2>2. fd2http'[m][fd[d]] = d BY <1>2, <1>4, <2>1
  <2> QED BY <2>1, <2>2, EntryKeepsAlive
<1>5. TypeOK'
  BY <1>1 DEF EpollDel
<1>6. Placed' /\ FdsExclusive'
  BY <1>1 DEF Placed, FdsExclusive
<1>7. AcceptingLive' /\ PendingLive'
  BY <1>1 DEF AcceptingLive, PendingLive, Release, Held
<1>8. TimersLive'
  BY <1>1, <1>4 DEF TimersLive, Placed
<1>9. TablesConsistent'
  <2> SUFFICES ASSUME NEW m \in Loops, NEW f \in Fds
               PROVE  /\ fd2chan'[m][f] \in {None, fd2http'[m][f]}
                      /\ fd2http'[m][f] # None =>
                           /\ fd2http'[m][f] \in live'
                           /\ fd[fd2http'[m][f]] = f
                           /\ loop[fd2http'[m][f]] = m
    BY <1>1 DEF TablesConsistent
  <2>1. fd2chan'[m][f] \in {None, fd2http'[m][f]}
    BY <1>2, <1>3 DEF TablesConsistent
  <2>2. ASSUME fd2http'[m][f] # None
        PROVE  /\ fd2http'[m][f] \in live'
               /\ fd[fd2http'[m][f]] = f
               /\ loop[fd2http'[m][f]] = m
    <3>1. /\ fd2http'[m][f] = fd2http[m][f]
          /\ fd2http[m][f] \in live
          /\ fd[fd2http[m][f]] = f
          /\ loop[fd2http[m][f]] = m
      BY <1>2, <2>2 DEF TablesConsistent
    <3> QED BY <3>1, EntryKeepsAlive
  <2> QED BY <2>1, <2>2
<1>10. NothingForgotten'
  <2> SUFFICES ASSUME NEW d \in live', d # accepting
               PROVE  d \in pending[loop[d]] \/ fd2http'[loop[d]][fd[d]] = d
    BY <1>1 DEF NothingForgotten
  <2>1. CASE d # c
    BY <1>1, <1>4, <2>1 DEF NothingForgotten, Placed
  <2>2. CASE d = c
    (* Neither a timer nor a table holds it any more: a callback does. *)
    <3>1. \A m \in Loops, f \in Fds : fd2http'[m][f] # c
      <4> SUFFICES ASSUME NEW m \in Loops, NEW f \in Fds, fd2http'[m][f] = c
                   PROVE  FALSE
        OBVIOUS
      <4>1. c # None BY <1>1
      <4>2. fd2http[m][f] = c /\ ~(m = l /\ f = fd[c]) BY <1>2, <4>1
      <4>3. fd[c] = f /\ loop[c] = m BY <4>1, <4>2 DEF TablesConsistent
      <4> QED BY <4>2, <4>3
    <3>2. \E m \in Loops : c \in pending[m]
      BY <1>1, <2>2, <3>1 DEF Release, Held
    <3> QED BY <2>2, <3>2 DEF PendingLive
  <2> QED BY <2>1, <2>2
<1> QED BY <1>4, <1>5, <1>6, <1>7, <1>8, <1>9, <1>10

(* A step that changes neither the tables nor who is alive. *)
LEMMA TablesKept ==
  ASSUME TableInv, UNCHANGED <<live, acceptVars, pending, tableVars>>,
         pc' \in [Loops -> Phases], batch' \in [Loops -> SUBSET Conns],
         running' \in [Loops -> Conns \cup {None}]
  PROVE  TableInv'
  BY DEF TableInv, TypeOK, Placed, FdsExclusive, AcceptingLive, PendingLive,
     TimersLive, TablesConsistent, NothingForgotten, acceptVars, tableVars

----------------------------------------------------------------------------
(* The acceptor. *)

LEMMA AcceptStepIInv == ASSUME IInv, AcceptStep PROVE IInv'
<1> USE NoneAssumption DEF IInv, TableInv, TypeOK, acceptVars, tableVars, loopVars
<1>1. CASE AcceptNext
  <2>1. accepting' = None /\ live' \subseteq live
        /\ UNCHANGED <<made, fd, loop, pending, tableVars, loopVars>>
    BY <1>1 DEF AcceptNext, Release
  <2>2. \A l \in Loops, f \in Fds : fd2http[l][f] # None => fd2http[l][f] \in live'
    BY <1>1, <2>1, EntryKeepsAlive DEF AcceptNext, TablesConsistent
  <2>3. \A l \in Loops : \A c \in pending[l] : c \in live'
    BY <1>1, <2>1 DEF AcceptNext, Release, Held, PendingLive
  <2>4. \A c \in timed : c \in live'
    BY <1>1, <2>1 DEF AcceptNext, Release, Held, TimersLive
  <2>5. TypeOK' BY <2>1
  <2>6. Placed' /\ FdsExclusive' /\ AcceptingLive' /\ PendingLive' /\ TimersLive'
    BY <2>1, <2>3, <2>4
    DEF Placed, FdsExclusive, AcceptingLive, PendingLive, TimersLive
  <2>7. TablesConsistent'
    BY <2>1, <2>2 DEF TablesConsistent
  <2>8. NothingForgotten'
    <3> SUFFICES ASSUME NEW c \in live'
                 PROVE  c \in pending[loop[c]] \/ fd2http[loop[c]][fd[c]] = c
      BY <2>1 DEF NothingForgotten
    <3>1. CASE c # accepting BY <2>1, <3>1 DEF NothingForgotten
    <3>2. CASE c = accepting
      <4>1. c \in Conns /\ c # None BY <2>1
      <4>2. Held(c)' BY <1>1 DEF AcceptNext, Release
      <4> QED BY <2>1, <4>1, <4>2 DEF Held, PendingLive, TimersLive, TablesConsistent
    <3> QED BY <3>1, <3>2
  <2>9. BatchInTable' /\ BatchInHandle'
    BY <2>1, <2>2 DEF BatchInTable, BatchInHandle, Placed
  <2> QED BY <2>5, <2>6, <2>7, <2>8, <2>9
<1>2. ASSUME NEW c \in Conns, NEW f \in Fds, NEW l \in Loops, Accept(c, f, l)
      PROVE  IInv'
  <2>1. /\ c \notin live
        /\ live' = live \cup {c}
        /\ accepting' = c /\ accepting = None
        /\ fd'[c] = f /\ loop'[c] = l
        /\ \A d \in live : fd'[d] = fd[d] /\ loop'[d] = loop[d] /\ fd[d] # f
        /\ UNCHANGED <<tableVars, loopVars>>
    BY <1>2 DEF Accept, FreeFds
  <2>2. \A m \in Loops : pending'[m] = IF m = l THEN pending[m] \cup {c}
                                               ELSE pending[m]
    BY <1>2 DEF Accept
  <2>3. TypeOK' BY <1>2 DEF Accept
  <2>4. Placed' /\ FdsExclusive' /\ AcceptingLive'
    BY <2>1 DEF Placed, FdsExclusive, AcceptingLive
  <2>5. PendingLive'
    <3> SUFFICES ASSUME NEW m \in Loops, NEW d \in pending'[m]
                 PROVE  d \in live' /\ loop'[d] = m
      BY DEF PendingLive
    <3>1. CASE d \in pending[m]
      <4>1. d \in live /\ loop[d] = m BY <3>1 DEF PendingLive
      <4> QED BY <4>1, <2>1
    <3>2. CASE m = l /\ d = c BY <3>2, <2>1
    <3> QED BY <2>2, <3>1, <3>2
  <2>6. TimersLive' BY <2>1 DEF TimersLive
  <2>7. TablesConsistent' BY <2>1 DEF TablesConsistent
  <2>8. NothingForgotten'
    <3> SUFFICES ASSUME NEW d \in live', d # c
                 PROVE  d \in pending'[loop'[d]] \/ fd2http[loop'[d]][fd'[d]] = d
      BY <2>1 DEF NothingForgotten
    <3>1. d \in live /\ d # accepting BY <2>1
    <3>2. loop'[d] = loop[d] /\ fd'[d] = fd[d] /\ loop[d] \in Loops
      BY <2>1, <3>1 DEF Placed
    <3>3. d \in pending[loop[d]] \/ fd2http[loop[d]][fd[d]] = d
      BY <3>1 DEF NothingForgotten
    <3> QED BY <2>2, <3>2, <3>3
  <2>9. BatchInTable' /\ BatchInHandle'
    BY <2>1 DEF BatchInTable, BatchInHandle
  <2> QED BY <2>3, <2>4, <2>5, <2>6, <2>7, <2>8, <2>9
<1> QED BY <1>1, <1>2 DEF AcceptStep

----------------------------------------------------------------------------
(* The loops. *)

LEMMA LoopStepIInv ==
  ASSUME IInv, NEW l \in Loops, LoopStep(l) PROVE IInv'
<1> USE NoneAssumption DEF IInv
<1>1. CASE Poll(l)
  <2>1. PICK F \in SUBSET {f \in Fds : fd2chan[l][f] # None} :
          batch' = [batch EXCEPT ![l] = {fd2chan[l][f] : f \in F}]
    BY <1>1 DEF Poll
  <2>2. \A f \in F : /\ fd2chan[l][f] \in live /\ fd2chan[l][f] # None
                     /\ fd2http[l][fd[fd2chan[l][f]]] = fd2chan[l][f]
    BY <2>1 DEF TableInv, TablesConsistent
  <2>3. /\ batch'[l] = {fd2chan[l][f] : f \in F}
        /\ \A m \in Loops : m # l => batch'[m] = batch[m]
        /\ \A m \in Loops : pc'[m] = IF m = l THEN "handle" ELSE pc[m]
        /\ running' = running /\ running[l] = None
        /\ UNCHANGED <<live, acceptVars, pending, tableVars>>
    BY <1>1, <2>1 DEF Poll, TableInv, TypeOK, BatchInHandle
  <2>4. /\ pc' \in [Loops -> Phases]
        /\ batch' \in [Loops -> SUBSET Conns]
        /\ running' \in [Loops -> Conns \cup {None}]
    BY <1>1, <2>1, <2>2 DEF Poll, TableInv, TypeOK, Phases
  <2>5. TableInv' BY <2>3, <2>4, TablesKept
  <2>6. BatchInTable'
    <3> SUFFICES ASSUME NEW m \in Loops
                 PROVE  /\ \A c \in batch'[m] : c \in live /\ fd2http[m][fd[c]] = c
                        /\ running[m] # None =>
                             /\ running[m] \in live
                             /\ fd2http[m][fd[running[m]]] = running[m]
      BY <2>3 DEF BatchInTable, acceptVars, tableVars
    <3>1. CASE m = l
      <4>1. ASSUME NEW c \in batch'[m]
            PROVE  c \in live /\ fd2http[m][fd[c]] = c
        <5>1. PICK f \in F : c = fd2chan[l][f]
          <6>1. c \in {fd2chan[l][f] : f \in F} BY <2>3, <3>1
          <6> QED BY <6>1, Zenon
        <5> QED BY <2>2, <3>1, <5>1
      <4> QED BY <2>3, <3>1, <4>1
    <3>2. CASE m # l BY <2>3, <3>2 DEF BatchInTable
    <3> QED BY <3>1, <3>2
  <2>7. BatchInHandle'
    <3>1. \A c \in {fd2chan[l][f] : f \in F} : c # None BY <2>2
    <3> QED BY <2>3, <3>1 DEF BatchInHandle
  <2> QED BY <2>5, <2>6, <2>7
<1>2. CASE ReturnAtOnce(l)
  <2>1. TableInv'
    BY <1>2, TablesKept DEF ReturnAtOnce, Return, TableInv, TypeOK
  <2>2. BatchInTable' /\ BatchInHandle'
    BY <1>2 DEF ReturnAtOnce, Return, BatchInTable, BatchInHandle, acceptVars,
       tableVars, TableInv, TypeOK
  <2> QED BY <2>1, <2>2
<1>3. CASE Rearm(l)
  <2> DEFINE c == running[l]
  <2>1. /\ c \in live /\ c \in Conns
        /\ fd2http[l][fd[c]] = c /\ loop[c] = l /\ fd[c] \in Fds
    BY <1>3 DEF Rearm, BatchInTable, TableInv, TypeOK, Placed, TablesConsistent
  <2>2. /\ timed' = timed \cup {c}
        /\ running' = [running EXCEPT ![l] = None]
        /\ UNCHANGED <<live, made, fd, loop, accepting, pending, fd2http, pc, batch>>
    BY <1>3 DEF Rearm, Return, acceptVars
  <2>3. /\ fd2chan' \in [Loops -> [Fds -> Conns \cup {None}]]
        /\ \A m \in Loops, f \in Fds : fd2chan'[m][f] \in {None, fd2chan[m][f]}
    <3>1. CASE UNCHANGED fd2chan BY <3>1 DEF TableInv, TypeOK
    <3>2. CASE fd2chan' = [fd2chan EXCEPT ![l][fd[c]] = None]
      BY <2>1, <3>2 DEF TableInv, TypeOK
    <3> QED BY <1>3, <3>1, <3>2 DEF Rearm
  <2>4. TypeOK' BY <2>1, <2>2, <2>3 DEF TableInv, TypeOK
  <2>5. /\ Placed' /\ FdsExclusive' /\ AcceptingLive' /\ PendingLive'
        /\ NothingForgotten'
    BY <2>2 DEF TableInv, Placed, FdsExclusive, AcceptingLive, PendingLive,
       NothingForgotten
  <2>6. TimersLive' BY <2>1, <2>2 DEF TableInv, TimersLive
  <2>7. TablesConsistent' BY <2>2, <2>3 DEF TableInv, TablesConsistent
  <2>8. BatchInTable' /\ BatchInHandle'
    BY <2>2 DEF BatchInTable, BatchInHandle, TableInv, TypeOK
  <2> QED BY <2>4, <2>5, <2>6, <2>7, <2>8 DEF TableInv
<1>4. CASE KeepHalfClosed(l)
  <2> DEFINE c == running[l]
  <2>1. /\ timed' = timed \ {c}
        /\ running' = [running EXCEPT ![l] = None]
        /\ UNCHANGED <<made, fd, loop, accepting, pending, fd2chan, fd2http, pc,
                      batch>>
        /\ Release
    BY <1>4 DEF KeepHalfClosed, Return, acceptVars
  (* fd2http_ still holds the connection: nothing is destroyed. *)
  <2>2. live' = live
    <3> SUFFICES ASSUME NEW d \in live PROVE Held(d)'
      BY <2>1 DEF Release
    <3>1. CASE d = accepting BY <2>1, <3>1 DEF Held
    <3>2. CASE d # accepting
      <4>1. loop[d] \in Loops /\ fd[d] \in Fds BY DEF TableInv, Placed
      <4> QED BY <2>1, <3>2, <4>1 DEF Held, TableInv, NothingForgotten
    <3> QED BY <3>1, <3>2
  <2>3. TypeOK' BY <2>1, <2>2 DEF TableInv, TypeOK
  <2>4. /\ Placed' /\ FdsExclusive' /\ AcceptingLive' /\ PendingLive'
        /\ NothingForgotten' /\ TimersLive' /\ TablesConsistent'
    BY <2>1, <2>2 DEF TableInv, Placed, FdsExclusive, AcceptingLive,
       PendingLive, NothingForgotten, TimersLive, TablesConsistent
  <2>5. BatchInTable' /\ BatchInHandle'
    BY <2>1, <2>2 DEF BatchInTable, BatchInHandle, TableInv, TypeOK
  <2> QED BY <2>3, <2>4, <2>5 DEF TableInv
<1>5. CASE HandleClose(l)
  <2> DEFINE c == running[l]
  <2>1. c \in live /\ loop[c] = l /\ fd2http[l][fd[c]] = c /\ c # None
    BY <1>5 DEF HandleClose, BatchInTable, TableInv, TypeOK, Placed,
       TablesConsistent
  <2>2. /\ timed' = timed \ {c} /\ EpollDel(l, c) /\ Release
        /\ UNCHANGED <<acceptVars, pending>>
        /\ pc' = pc /\ batch' = batch
        /\ running' = [running EXCEPT ![l] = None]
    BY <1>5 DEF HandleClose, Return
  <2>3. /\ TableInv'
        /\ \A m \in Loops, d \in live :
             d # c /\ fd2http[m][fd[d]] = d =>
               d \in live' /\ fd2http'[m][fd[d]] = d
    <3>1. /\ pc' \in [Loops -> Phases]
          /\ batch' \in [Loops -> SUBSET Conns]
          /\ running' \in [Loops -> Conns \cup {None}]
      BY <2>2 DEF TableInv, TypeOK
    <3> HIDE DEF c
    <3> QED BY <2>1, <2>2, <3>1, Closing
  (* c is in no batch, and no other loop runs it. *)
  <2>4. \A m \in Loops : c \notin batch[m] /\ (m # l => running[m] # c)
    BY <2>1 DEF BatchInTable, BatchInHandle, TableInv, TablesConsistent, Placed
  <2>5. BatchInTable'
    <3> SUFFICES ASSUME NEW m \in Loops
                 PROVE  /\ \A d \in batch[m] : d \in live' /\ fd2http'[m][fd[d]] = d
                        /\ running'[m] # None =>
                             /\ running'[m] \in live'
                             /\ fd2http'[m][fd[running'[m]]] = running'[m]
      BY <2>2 DEF BatchInTable, acceptVars
    <3>1. \A d \in batch[m] : d \in live' /\ fd2http'[m][fd[d]] = d
      BY <2>3, <2>4 DEF BatchInTable
    <3>2. CASE m = l BY <2>2, <3>1, <3>2 DEF TableInv, TypeOK
    <3>3. CASE m # l
      <4>1. running'[m] = running[m] BY <2>2, <3>3 DEF TableInv, TypeOK
      <4> QED BY <2>3, <2>4, <3>1, <3>3, <4>1 DEF BatchInTable
    <3> QED BY <3>2, <3>3
  <2>6. BatchInHandle'
    BY <2>2 DEF BatchInHandle, TableInv, TypeOK
  <2> QED BY <2>3, <2>5, <2>6
<1>6. CASE EndHandle(l)
  BY <1>6, TablesKept DEF EndHandle, TableInv, TypeOK, Phases, BatchInTable,
     BatchInHandle, acceptVars, tableVars
<1>7. CASE EndFunctors(l)
  BY <1>7, TablesKept DEF EndFunctors, TableInv, TypeOK, Phases, BatchInTable,
     BatchInHandle, acceptVars, tableVars
<1>8. CASE EndExpire(l)
  BY <1>8, TablesKept DEF EndExpire, TableInv, TypeOK, Phases, BatchInTable,
     BatchInHandle, acceptVars, tableVars
<1>9. ASSUME NEW c \in Conns, HandleEvents(l, c) PROVE IInv'
  <2>1. TableInv'
    BY <1>9, TablesKept DEF HandleEvents, TableInv, TypeOK
  <2>2. BatchInTable' /\ BatchInHandle'
    BY <1>9 DEF HandleEvents, BatchInTable, BatchInHandle, acceptVars,
       tableVars, TableInv, TypeOK
  <2> QED BY <2>1, <2>2
<1>10. ASSUME NEW c \in Conns, NewEvent(l, c) PROVE IInv'
  <2>1. c \in live /\ loop[c] = l /\ fd[c] \in Fds
    BY <1>10 DEF NewEvent, TableInv, PendingLive, Placed
  <2>2. /\ timed' = timed \cup {c} /\ Release
        /\ pending' = [pending EXCEPT ![l] = @ \ {c}]
        /\ UNCHANGED <<made, fd, loop, accepting, pc, batch, running>>
    BY <1>10 DEF NewEvent, acceptVars, loopVars
  <2>3. /\ fd2http' \in [Loops -> [Fds -> Conns \cup {None}]]
        /\ \A m \in Loops, f \in Fds :
             fd2http'[m][f] = IF m = l /\ f = fd[c] THEN c ELSE fd2http[m][f]
    BY <1>10, <2>1 DEF NewEvent, TableInv, TypeOK
  <2>4. /\ fd2chan' \in [Loops -> [Fds -> Conns \cup {None}]]
        /\ \A m \in Loops, f \in Fds :
             IF m = l /\ f = fd[c] THEN fd2chan'[m][f] \in {None, c}
                                   ELSE fd2chan'[m][f] = fd2chan[m][f]
    BY <1>10, <2>1 DEF NewEvent, TableInv, TypeOK
  (* The entry it takes was free, or its own: nobody is pushed out. *)
  <2>5. \A m \in Loops, d \in live : fd2http[m][fd[d]] = d => fd2http'[m][fd[d]] = d
    BY <2>1, <2>3 DEF TableInv, Placed, FdsExclusive
  <2>6. live' = live
    <3> SUFFICES ASSUME NEW d \in live PROVE Held(d)'
      BY <2>2 DEF Release
    <3>1. CASE d = accepting BY <2>2, <3>1 DEF Held
    <3>2. CASE d = c BY <2>2, <3>2 DEF Held
    <3>3. CASE d # accepting /\ d # c
      <4>1. loop[d] \in Loops /\ fd[d] \in Fds BY DEF TableInv, Placed
      <4>2. CASE d \in pending[loop[d]]
        <5>1. d \in pending'[loop[d]]
          BY <2>2, <3>3, <4>1, <4>2 DEF TableInv, TypeOK
        <5> QED BY <4>1, <5>1 DEF Held
      <4>3. CASE fd2http[loop[d]][fd[d]] = d
        BY <2>5, <4>1, <4>3 DEF Held
      <4> QED BY <3>3, <4>2, <4>3 DEF TableInv, NothingForgotten
    <3> QED BY <3>1, <3>2, <3>3
  <2>7. TypeOK'
    <3>1. pending' \in [Loops -> SUBSET Conns] BY <2>2 DEF TableInv, TypeOK
    <3> QED BY <2>2, <2>3, <2>4, <2>6, <3>1 DEF TableInv, TypeOK
  <2>8. Placed' /\ FdsExclusive' /\ AcceptingLive'
    BY <2>2, <2>6 DEF TableInv, Placed, FdsExclusive, AcceptingLive
  <2>9. PendingLive'
    BY <2>2, <2>6 DEF TableInv, TypeOK, PendingLive
  <2>10. TimersLive'
    <3>1. fd2http'[loop[c]][fd[c]] = c BY <2>1, <2>3
    <3>2. \A d \in timed : /\ d \in live /\ loop[d] \in Loops
                           /\ fd2http[loop[d]][fd[d]] = d
      BY DEF TableInv, TimersLive, Placed
    <3>3. \A d \in timed : fd2http'[loop[d]][fd[d]] = d BY <2>5, <3>2
    <3> QED BY <2>1, <2>2, <2>6, <3>1, <3>2, <3>3 DEF TimersLive
  <2>11. TablesConsistent'
    BY <2>1, <2>2, <2>3, <2>4, <2>6 DEF TableInv, TablesConsistent
  <2>12. NothingForgotten'
    <3> SUFFICES ASSUME NEW d \in live, d # accepting
                 PROVE  d \in pending'[loop[d]] \/ fd2http'[loop[d]][fd[d]] = d
      BY <2>2, <2>6 DEF NothingForgotten
    <3>1. loop[d] \in Loops BY DEF TableInv, Placed
    <3>2. CASE d = c BY <2>1, <2>3, <3>2
    <3>3. CASE d # c
      BY <2>2, <2>5, <3>1, <3>3 DEF TableInv, TypeOK, NothingForgotten
    <3> QED BY <3>2, <3>3
  <2>13. BatchInTable' /\ BatchInHandle'
    BY <2>2, <2>5, <2>6 DEF BatchInTable, BatchInHandle
  <2> QED BY <2>7, <2>8, <2>9, <2>10, <2>11, <2>12, <2>13 DEF TableInv
<1>11. ASSUME NEW c \in Conns, Expire(l, c) PROVE IInv'
  <2>1. c \in live /\ loop[c] = l /\ pc[l] = "expire"
    BY <1>11 DEF Expire, TableInv, TimersLive
  <2>2. /\ TableInv'
        /\ \A m \in Loops, d \in live :
             d # c /\ fd2http[m][fd[d]] = d =>
               d \in live' /\ fd2http'[m][fd[d]] = d
    BY <1>11, <2>1, Closing DEF Expire, loopVars, TableInv, TypeOK
  (* Its loop is past its batch, and no other loop has c in one. *)
  <2>3. \A m \in Loops : c \notin batch[m] /\ running[m] # c
    <3> SUFFICES ASSUME NEW m \in Loops, c \in batch[m] \/ running[m] = c
                 PROVE  FALSE
      OBVIOUS
    <3>1. c # None BY <2>1 DEF TableInv, TypeOK
    <3>2. fd2http[m][fd[c]] = c BY <3>1 DEF BatchInTable
    <3>3. m = l BY <2>1, <3>1, <3>2 DEF TableInv, TablesConsistent, Placed
    <3>4. pc[l] = "handle" BY <3>1, <3>3 DEF BatchInHandle
    <3> QED BY <2>1, <3>4
  <2>4. BatchInTable' /\ BatchInHandle'
    BY <1>11, <2>2, <2>3 DEF Expire, BatchInTable, BatchInHandle, loopVars,
       acceptVars
  <2> QED BY <2>2, <2>4
<1> QED
  BY <1>1, <1>2, <1>3, <1>4, <1>5, <1>6, <1>7, <1>8, <1>9, <1>10, <1>11
  DEF LoopStep, HandlerEnds

LEMMA Invariance == Spec => []IInv
<1>1. Init => IInv BY InitIInv
<1>2. ASSUME IInv, [Next]_vars PROVE IInv'
  <2>1. CASE Next BY <1>2, <2>1, AcceptStepIInv, LoopStepIInv DEF Next
  <2>2. CASE UNCHANGED vars
    <3>1. /\ UNCHANGED <<live, acceptVars, pending, tableVars>>
          /\ pc' = pc /\ batch' = batch /\ running' = running
      BY <2>2 DEF vars, loopVars
    <3>2. TableInv'
      BY <1>2, <3>1, TablesKept DEF IInv, TableInv, TypeOK
    <3>3. BatchInTable' /\ BatchInHandle'
      BY <1>2, <3>1 DEF acceptVars, tableVars, IInv, BatchInTable, BatchInHandle
    <3> QED BY <3>2, <3>3 DEF IInv
  <2> QED BY <1>2, <2>1, <2>2
<1> QED BY <1>1, <1>2, PTL DEF Spec

(* The types, the two tables and the timers of every loop. *)
THEOREM TypeCorrect == Spec => []TypeOK
<1>1. IInv => TypeOK BY DEF IInv, TableInv
<1> QED BY <1>1, Invariance, PTL

(* No Channel of a batch, and no handler being run, leads to a destroyed   *)
(* HttpData, however often descriptors are reused.                         *)
THEOREM HandlersAlive == Spec => []NoDanglingHandler
<1>1. IInv => NoDanglingHandler BY DEF IInv, BatchInTable, NoDanglingHandler
<1> QED BY <1>1, Invariance, PTL

(* fd2chan_ and fd2http_ of every loop agree with the connections alive. *)
THEOREM TablesAgree == Spec => []TablesConsistent
<1>1. IInv => TablesConsistent BY DEF IInv, TableInv
<1> QED BY <1>1, Invariance, PTL

(* A timer that may fire belongs to the connection now in the table. *)
THEOREM TimersMatch == Spec => []TimersKnown
<1>1. IInv => TimersKnown BY DEF IInv, TableInv, TimersLive, TimersKnown
<1> QED BY <1>1, Invariance, PTL

(* A connection that exists can still be reached by what will end it. *)
THEOREM NoneForgotten == Spec => []NothingForgotten
<1>1. IInv => NothingForgotten BY DEF IInv, TableInv
<1> QED BY <1>1, Invariance, PTL
============================================================================
