-------------------------- MODULE ThreadPoolProofs --------------------------
(***************************************************************************)
(* Proofs about ThreadPool, for any workers, clients, tasks and size of    *)
(* the ring: types, that the ring is a FIFO queue, that nobody sleeps      *)
(* through work and that a graceful shutdown loses no task.                *)
(***************************************************************************)
EXTENDS ThreadPool, FiniteSetTheorems, SequenceTheorems, TLAPS

(* The slot i places after h.                                              *)
At(h, i) == (h + i) % QueueSize

(* The ring holds count tasks from head on, and tail follows them.         *)
RingHolds ==
  /\ tail = At(head, count)
  /\ \A i \in 0..(count - 1) : queue[At(head, i)] \in Tasks

Alive == {w \in created : worker[w] # "exited"}

(* started counts the workers that have not left.                          *)
StartedCounts ==
  /\ created # {}
  /\ started = Cardinality(Alive)
  /\ \A w \in Workers : worker[w] = "none" <=> w \notin created

(* Workers leave a graceful shutdown when the ring is empty, and nothing   *)
(* is added any more.                                                      *)
LeaveEmpty ==
  \A w \in created : worker[w] = "exited" =>
    /\ shutdown # "no"
    /\ shutdown = "graceful" => count = 0

(* A worker holds a task while it runs it.                                 *)
RunsATask == \A w \in Workers : worker[w] = "run" => task[w] \in Tasks

(* A client gets to threadpool_free when every worker has left.            *)
FreedLast ==
  (\E c \in Clients : client[c] = "free")
    => \A w \in created : worker[w] = "exited"

InRing(t)  == \E i \in 0..(count - 1) : queue[At(head, i)] = t
InHand(t)  == \E w \in Workers : worker[w] = "run" /\ task[w] = t

(* A task that was accepted is in the ring, in hand or has been executed.  *)
NoneLost ==
  \A k \in DOMAIN accepted :
    LET t == accepted[k] IN InRing(t) \/ InHand(t) \/ t \in ran

IInv ==
  /\ TypeOK
  /\ RingHolds /\ StartedCounts /\ LeaveEmpty /\ RunsATask /\ FreedLast
  /\ NoSleepOnWork /\ NoneLost

----------------------------------------------------------------------------
(* The arithmetic of the ring. *)

LEMMA AtValue ==
  ASSUME NEW h \in Slots, NEW i \in 0..QueueSize
  PROVE  /\ At(h, i) \in Slots
         /\ h + i < QueueSize => At(h, i) = h + i
         /\ h + i >= QueueSize => At(h, i) = (h + i) - QueueSize
BY PoolAssumption DEF At, Slots

(* Going on by one slot. *)
LEMMA AtNext ==
  ASSUME NEW h \in Slots, NEW i \in 0..(QueueSize - 1)
  PROVE  /\ NextSlot(h) \in Slots
         /\ NextSlot(At(h, i)) = At(h, i + 1)
         /\ At(NextSlot(h), i) = At(h, i + 1)
         /\ At(h, 0) = h
<1>1. 0 \in 0..QueueSize /\ 1 \in 0..QueueSize /\ i \in 0..QueueSize
      /\ i + 1 \in 0..QueueSize /\ h \in Nat /\ QueueSize \in Nat
  BY PoolAssumption DEF Slots
<1>2. NextSlot(h) = At(h, 1) /\ NextSlot(At(h, i)) = At(At(h, i), 1)
  BY DEF NextSlot, At
<1>3. NextSlot(h) \in Slots /\ At(h, 0) = h
  BY <1>1, <1>2, AtValue DEF Slots
<1>4. At(h, i) \in Slots /\ At(h, i + 1) \in Slots /\ At(h, 1) \in Slots
  BY <1>1, AtValue
<1>5. At(At(h, i), 1) = At(h, i + 1)
  <2>1. CASE h + i < QueueSize
    BY <1>1, <1>4, <2>1, AtValue
  <2>2. CASE h + i >= QueueSize
    <3>1. At(h, i) = (h + i) - QueueSize /\ At(h, i + 1) = (h + (i + 1)) - QueueSize
      BY <1>1, <2>2, AtValue
    <3>2. At(h, i) + 1 < QueueSize
      BY <1>1, <3>1 DEF Slots
    <3> QED BY <1>1, <1>4, <3>1, <3>2, AtValue
  <2> QED BY <1>1, <2>1, <2>2
<1>6. At(At(h, 1), i) = At(h, i + 1)
  <2>1. CASE h + 1 < QueueSize
    <3>1. At(h, 1) = h + 1
      BY <1>1, <2>1, AtValue
    <3> QED BY <3>1, <1>1 DEF At
  <2>2. CASE h + 1 >= QueueSize
    <3>1. At(h, 1) = 0
      <4>1. h + 1 = QueueSize
        BY <1>1, <2>2 DEF Slots
      <4>2. At(h, 1) = (h + 1) - QueueSize
        BY <1>1, <2>2, AtValue
      <4> QED BY <1>1, <4>1, <4>2
    <3>2. At(0, i) = i /\ At(h, i + 1) = i
      BY <1>1, <2>2, <3>1, <1>4, AtValue DEF Slots
    <3> QED BY <3>1, <3>2
  <2> QED BY <1>1, <2>1, <2>2
<1> QED BY <1>2, <1>3, <1>5, <1>6

(* Two places of the ring are different slots. *)
LEMMA AtDistinct ==
  ASSUME NEW h \in Slots, NEW i \in 0..(QueueSize - 1),
         NEW j \in 0..(QueueSize - 1), i # j
  PROVE  At(h, i) # At(h, j)
<1>1. h \in Nat /\ i \in 0..QueueSize /\ j \in 0..QueueSize /\ QueueSize \in Nat
      /\ h < QueueSize /\ i < QueueSize /\ j < QueueSize /\ i \in Nat /\ j \in Nat
  BY PoolAssumption DEF Slots
<1>2. At(h, i) = h + i \/ At(h, i) = (h + i) - QueueSize
  BY <1>1, AtValue
<1>3. At(h, j) = h + j \/ At(h, j) = (h + j) - QueueSize
  BY <1>1, AtValue
<1> QED BY <1>1, <1>2, <1>3

(* What a step does to the ring: a task at its end, a task from its head,  *)
(* or nothing.                                                             *)
LEMMA AddToRing ==
  ASSUME IInv, NEW t \in Tasks, Add(t)
  PROVE  /\ queue' \in [Slots -> Tasks \cup {NoTask}]
         /\ tail' \in Slots /\ count' \in 0..QueueSize /\ count' = count + 1
         /\ RingHolds'
         /\ \A i \in 0..(count - 1) : queue'[At(head', i)] = queue[At(head, i)]
         /\ queue'[At(head', count)] = t
<1>1. /\ head \in Slots /\ tail \in Slots /\ tail = At(head, count)
      /\ count \in Nat /\ count < QueueSize /\ QueueSize \in Nat
      /\ queue \in [Slots -> Tasks \cup {NoTask}]
      /\ queue' = [queue EXCEPT ![tail] = t] /\ head' = head
      /\ tail' = NextSlot(tail) /\ count' = count + 1
  BY PoolAssumption DEF Add, IInv, TypeOK, RingHolds
<1>2. tail' \in Slots /\ tail' = At(head, count + 1)
  BY <1>1, AtNext, SMTT(30)
<1>3. \A i \in 0..(count - 1) : At(head, i) \in Slots /\ At(head, i) # tail
  BY <1>1, AtValue, AtDistinct
<1>4. \A i \in 0..(count - 1) : queue'[At(head', i)] = queue[At(head, i)]
  BY <1>1, <1>3
<1>5. queue'[At(head', count)] = t
  BY <1>1
<1>6. \A i \in 0..(count' - 1) : queue'[At(head', i)] \in Tasks
  BY <1>1, <1>4, <1>5 DEF IInv, RingHolds
<1>7. RingHolds'
  BY <1>1, <1>2, <1>6 DEF RingHolds, At
<1>8. queue' \in [Slots -> Tasks \cup {NoTask}]
  BY <1>1
<1> QED BY <1>1, <1>2, <1>4, <1>5, <1>7, <1>8

LEMMA TakeFromRing ==
  ASSUME IInv, NEW w \in Workers, TakeTask(w)
  PROVE  /\ queue' \in [Slots -> Tasks \cup {NoTask}]
         /\ head' \in Slots /\ count' \in 0..QueueSize /\ count' = count - 1
         /\ RingHolds'
         /\ queue[head] \in Tasks /\ queue[head] = queue[At(head, 0)]
         /\ \A i \in 0..(count' - 1) :
              queue'[At(head', i)] = queue[At(head, i + 1)]
<1>1. /\ head \in Slots /\ tail = At(head, count)
      /\ count \in Nat /\ 0 < count /\ count <= QueueSize /\ QueueSize \in Nat
      /\ queue \in [Slots -> Tasks \cup {NoTask}]
      /\ queue' = [queue EXCEPT ![head] = NoTask] /\ tail' = tail
      /\ head' = NextSlot(head) /\ count' = count - 1
  BY PoolAssumption DEF TakeTask, IInv, TypeOK, RingHolds
<1>2. /\ head' \in Slots /\ At(head, 0) = head
      /\ \A i \in 0..(count - 1) : At(head', i) = At(head, i + 1)
  BY <1>1, AtNext
<1>3. queue[head] \in Tasks
  BY <1>1, <1>2 DEF IInv, RingHolds
<1>4. \A i \in 0..(count' - 1) : At(head, i + 1) \in Slots /\ At(head, i + 1) # head
  <2>1. \A j \in 1..(count - 1) : At(head, j) \in Slots /\ At(head, j) # At(head, 0)
    BY <1>1, AtValue, AtDistinct
  <2> QED BY <1>1, <1>2, <2>1
<1>5. \A i \in 0..(count' - 1) : queue'[At(head', i)] = queue[At(head, i + 1)]
  BY <1>1, <1>2, <1>4
<1>6. tail' = At(head', count')
  BY <1>1, <1>2
<1>7. \A i \in 0..(count' - 1) : queue'[At(head', i)] \in Tasks
  BY <1>1, <1>5 DEF IInv, RingHolds
<1>8. RingHolds'
  BY <1>6, <1>7 DEF RingHolds, At
<1>9. queue' \in [Slots -> Tasks \cup {NoTask}]
  BY <1>1
<1> QED BY <1>1, <1>2, <1>3, <1>5, <1>8, <1>9

LEMMA RingUnchanged ==
  ASSUME IInv, UNCHANGED ringVars
  PROVE  /\ queue' \in [Slots -> Tasks \cup {NoTask}] /\ head' \in Slots
         /\ tail' \in Slots /\ count' \in 0..QueueSize /\ RingHolds'
         /\ count' = count /\ head' = head /\ queue' = queue
BY DEF IInv, TypeOK, RingHolds, At, ringVars

(* Workers are woken, not ended: nobody leaves or appears.                 *)
LEMMA Woken ==
  ASSUME IInv, created' = created, started' = started,
         worker' \in [Workers -> {"none", "lock", "wait", "run", "exited"}],
         \A w \in Workers : \/ worker'[w] = worker[w]
                            \/ /\ worker[w] \notin {"none", "exited"}
                               /\ worker'[w] \notin {"none", "exited"}
  PROVE  StartedCounts'
<1>1. created \subseteq Workers
  BY DEF IInv, TypeOK
<1>2. Alive' = Alive
  BY <1>1 DEF Alive
<1> QED BY <1>2 DEF IInv, StartedCounts

(* A worker that comes to the mutex, or goes from it, counts for one.      *)
LEMMA ReadyMoves ==
  ASSUME TypeOK, NEW w \in Workers, NEW p, worker' = [worker EXCEPT ![w] = p]
  PROVE  /\ Cardinality(Ready) \in Nat /\ Cardinality(Ready') \in Nat
         /\ w \in Ready /\ p \in {"wait", "run", "exited"}
              => Cardinality(Ready') = Cardinality(Ready) - 1
         /\ w \notin Ready /\ p = "lock"
              => Cardinality(Ready') = Cardinality(Ready) + 1
<1>1. IsFiniteSet(Ready) /\ IsFiniteSet(Ready')
  BY PoolAssumption, FS_Subset DEF Ready
<1>2. \A v \in Workers : worker'[v] = IF v = w THEN p ELSE worker[v]
  BY DEF TypeOK
<1>3. p \in {"wait", "run", "exited"} => Ready' = Ready \ {w}
  BY <1>2 DEF Ready
<1>4. p = "lock" => Ready' = Ready \cup {w}
  BY <1>2 DEF Ready
<1> QED
  BY <1>1, <1>3, <1>4, FS_CardinalityType, FS_RemoveElement, FS_AddElement

----------------------------------------------------------------------------
LEMMA InitIInv == Init => IInv
<1> SUFFICES ASSUME Init PROVE IInv
  OBVIOUS
<1>1. created \subseteq Workers /\ created # {} /\ IsFiniteSet(created)
  BY PoolAssumption, FS_Subset DEF Init
<1>2. Cardinality(created) \in Nat
  BY <1>1, FS_CardinalityType
<1>3. QueueSize \in Nat /\ 0 \in Slots /\ 0 \in 0..QueueSize
  BY PoolAssumption DEF Slots
<1>4. TypeOK
  <2>1. worker \in [Workers -> {"none", "lock", "wait", "run", "exited"}]
    BY DEF Init
  <2>2. queue \in [Slots -> Tasks \cup {NoTask}]
        /\ task \in [Workers -> Tasks \cup {NoTask}]
    BY DEF Init
  <2>3. client \in [Clients -> {"idle", "join", "free", "done"}]
    BY DEF Init
  <2> QED BY <1>1, <1>2, <1>3, <2>1, <2>2, <2>3 DEF Init, TypeOK
<1>5. RingHolds
  <2>1. At(0, 0) = 0
    BY <1>3, AtValue
  <2> QED BY <2>1 DEF Init, RingHolds
<1>6. StartedCounts
  <2>1. Alive = created
    BY <1>1 DEF Init, Alive
  <2> QED BY <1>1, <2>1 DEF Init, StartedCounts
<1>7. NoSleepOnWork
  BY DEF Init, NoSleepOnWork, Waiting
<1> QED
  BY <1>1, <1>4, <1>5, <1>6, <1>7
     DEF Init, IInv, LeaveEmpty, RunsATask, FreedLast, NoneLost

LEMMA AddIInv == ASSUME IInv, NEW t \in Tasks, Add(t) PROVE IInv'
<1>1. /\ UNCHANGED <<created, locked, shutdown, started, head, task, client,
                     taken, ran>>
      /\ shutdown = "no" /\ accepted' = Append(accepted, t)
  BY DEF Add, poolVars
<1>2. \/ worker' = worker /\ Waiting = {}
      \/ \E w \in Waiting : worker' = [worker EXCEPT ![w] = "lock"]
  BY DEF Add, Signal, Move
<1>3. worker' \in [Workers -> {"none", "lock", "wait", "run", "exited"}]
      /\ \A w \in Workers : \/ worker'[w] = worker[w]
                            \/ worker[w] = "wait" /\ worker'[w] = "lock"
  BY <1>2 DEF Waiting, IInv, TypeOK
<1>4. /\ queue' \in [Slots -> Tasks \cup {NoTask}]
      /\ tail' \in Slots /\ count' \in 0..QueueSize /\ count' = count + 1
      /\ RingHolds'
      /\ \A i \in 0..(count - 1) : queue'[At(head', i)] = queue[At(head, i)]
      /\ queue'[At(head', count)] = t
  BY AddToRing
<1>5. TypeOK'
  <2>1. accepted' \in Seq(Tasks)
    BY <1>1 DEF IInv, TypeOK
  <2> QED BY <1>1, <1>3, <1>4, <2>1 DEF IInv, TypeOK
<1>6. StartedCounts'
  BY <1>1, <1>3, Woken
<1>7. LeaveEmpty' /\ FreedLast'
  BY <1>1, <1>3 DEF IInv, TypeOK, LeaveEmpty, FreedLast
<1>8. RunsATask'
  BY <1>1, <1>3 DEF IInv, RunsATask
<1>9. NoSleepOnWork'
  <2>1. CASE worker' = worker /\ Waiting = {}
    BY <2>1 DEF Waiting, NoSleepOnWork
  <2>2. CASE \E w \in Waiting : worker' = [worker EXCEPT ![w] = "lock"]
    <3>1. PICK w \in Waiting : worker' = [worker EXCEPT ![w] = "lock"]
      BY <2>2
    <3>2. w \in Workers /\ w \notin Ready /\ TypeOK
      BY DEF Waiting, Ready, IInv
    <3>3. /\ Cardinality(Ready) \in Nat
          /\ Cardinality(Ready') = Cardinality(Ready) + 1
      BY <3>1, <3>2, ReadyMoves
    <3>4. count <= Cardinality(Ready) /\ count \in Nat
      BY <1>1, <3>1 DEF IInv, TypeOK, NoSleepOnWork
    <3>5. count' <= Cardinality(Ready')
      BY <1>4, <3>3, <3>4
    <3> QED BY <1>1, <3>5 DEF NoSleepOnWork
  <2> QED BY <1>2, <2>1, <2>2
<1>10. NoneLost'
  <2>1. count \in Nat /\ accepted \in Seq(Tasks)
    BY PoolAssumption DEF IInv, TypeOK
  <2>2. InRing(t)'
    BY <1>4, <2>1 DEF InRing
  <2>3. ASSUME NEW u, InRing(u) \/ InHand(u) \/ u \in ran
        PROVE  InRing(u)' \/ InHand(u)' \/ u \in ran'
    <3>1. InRing(u) => InRing(u)'
      BY <1>4, <2>1 DEF InRing
    <3>2. InHand(u) => InHand(u)'
      BY <1>1, <1>3 DEF InHand
    <3> QED BY <1>1, <2>3, <3>1, <3>2
  <2>4. \A k \in DOMAIN accepted' :
          (k \in DOMAIN accepted /\ accepted'[k] = accepted[k]) \/ accepted'[k] = t
    BY <1>1, <2>1
  <2> QED BY <2>2, <2>3, <2>4 DEF IInv, NoneLost
<1> QED BY <1>4, <1>5, <1>6, <1>7, <1>8, <1>9, <1>10 DEF IInv

(* A worker that goes to sleep, wakes up or leaves.                        *)
LEMMA MoveIInv ==
  ASSUME IInv, NEW w \in Workers, Sleep(w) \/ SpuriousWakeup(w) \/ Exit(w)
  PROVE  IInv'
<1>1. /\ UNCHANGED <<created, locked, shutdown, task, client, accepted, taken, ran>>
      /\ UNCHANGED ringVars
      /\ worker[w] \in {"lock", "wait"} /\ w \in created
  BY DEF Sleep, SpuriousWakeup, Exit, Enters, poolVars, history, IInv, StartedCounts
<1>2. PICK p \in {"lock", "wait", "exited"} :
        /\ worker' = [worker EXCEPT ![w] = p]
        /\ p = "wait" => count = 0 /\ shutdown = "no" /\ started' = started
        /\ p = "lock" => started' = started
        /\ p = "exited" => MustExit /\ started' = started - 1
  BY DEF Sleep, SpuriousWakeup, Exit, Move, poolVars
<1>3. /\ queue' \in [Slots -> Tasks \cup {NoTask}] /\ head' \in Slots
      /\ tail' \in Slots /\ count' \in 0..QueueSize /\ RingHolds'
      /\ count' = count /\ head' = head /\ queue' = queue
  BY <1>1, RingUnchanged
<1>4. worker' \in [Workers -> {"none", "lock", "wait", "run", "exited"}]
      /\ \A v \in Workers : worker'[v] = IF v = w THEN p ELSE worker[v]
  BY <1>2 DEF IInv, TypeOK
<1>5. StartedCounts' /\ started' \in Nat
  <2>1. CASE p # "exited"
    <3>1. started' = started /\ started \in Nat
      BY <1>2, <2>1 DEF IInv, TypeOK
    <3> QED BY <1>1, <1>4, <2>1, <3>1, Woken
  <2>2. CASE p = "exited"
    <3>1. created \subseteq Workers /\ IsFiniteSet(created)
      BY PoolAssumption, FS_Subset DEF IInv, TypeOK
    <3>2. IsFiniteSet(Alive)
      BY <3>1, FS_Subset DEF Alive
    <3>3. w \in Alive /\ Alive' = Alive \ {w}
      BY <1>1, <1>4, <2>2, <3>1 DEF Alive
    <3>4. Cardinality(Alive') = Cardinality(Alive) - 1 /\ Cardinality(Alive') \in Nat
      BY <3>2, <3>3, FS_RemoveElement, FS_CardinalityType
    <3>5. \A v \in Workers : worker'[v] = "none" <=> v \notin created'
      BY <1>1, <1>4, <2>2 DEF IInv, StartedCounts
    <3> QED
      BY <1>1, <1>2, <2>2, <3>4, <3>5 DEF IInv, StartedCounts, Alive
  <2> QED BY <2>1, <2>2
<1>6. TypeOK'
  BY <1>1, <1>3, <1>4, <1>5 DEF IInv, TypeOK
<1>7. LeaveEmpty'
  BY <1>1, <1>2, <1>3, <1>4 DEF IInv, TypeOK, LeaveEmpty, MustExit
<1>8. RunsATask' /\ FreedLast'
  BY <1>1, <1>4 DEF IInv, TypeOK, RunsATask, FreedLast
<1>9. NoSleepOnWork'
  <2>1. /\ Cardinality(Ready) \in Nat /\ Cardinality(Ready') \in Nat
        /\ w \notin Ready /\ p = "lock"
             => Cardinality(Ready') = Cardinality(Ready) + 1
    <3>1. TypeOK BY DEF IInv
    <3> QED BY <1>2, <3>1, ReadyMoves
  <2>2. CASE p = "wait"
    <3>1. count' <= Cardinality(Ready')
      BY <1>2, <1>3, <2>1, <2>2
    <3> QED BY <1>1, <1>2, <2>2, <3>1 DEF NoSleepOnWork
  <2>3. CASE p = "lock"
    <3>1. w \in Waiting /\ w \notin Ready
      BY <1>2, <2>3 DEF Sleep, SpuriousWakeup, Exit, Move, Waiting, Ready,
         IInv, TypeOK
    <3>2. shutdown = "no" /\ count <= Cardinality(Ready) /\ count \in Nat
      BY <3>1 DEF IInv, TypeOK, NoSleepOnWork
    <3>3. count' <= Cardinality(Ready')
      BY <1>3, <2>1, <2>3, <3>1, <3>2
    <3> QED BY <1>1, <3>2, <3>3 DEF NoSleepOnWork
  <2>4. CASE p = "exited"
    <3>1. shutdown # "no" /\ Waiting = {}
      BY <1>2, <2>4 DEF MustExit, IInv, NoSleepOnWork
    <3>2. Waiting' = {}
      BY <1>4, <2>4, <3>1 DEF Waiting
    <3> QED BY <3>2 DEF NoSleepOnWork
  <2> QED BY <2>2, <2>3, <2>4
<1>10. NoneLost'
  <2>1. \A u : InRing(u) => InRing(u)'
    BY <1>3 DEF InRing, At
  <2>2. \A u : InHand(u) => InHand(u)'
    BY <1>1, <1>4 DEF InHand
  <2> QED BY <1>1, <2>1, <2>2 DEF IInv, NoneLost
<1> QED BY <1>3, <1>5, <1>6, <1>7, <1>8, <1>9, <1>10 DEF IInv

LEMMA TakeIInv == ASSUME IInv, NEW w \in Workers, TakeTask(w) PROVE IInv'
<1>1. /\ UNCHANGED <<created, locked, shutdown, started, tail, client, accepted, ran>>
      /\ worker[w] = "lock" /\ worker' = [worker EXCEPT ![w] = "run"]
      /\ task' = [task EXCEPT ![w] = queue[head]]
      /\ taken' = Append(taken, queue[head])
      /\ w \in created
  BY DEF TakeTask, Enters, Move, poolVars, IInv, StartedCounts
<1>2. /\ queue' \in [Slots -> Tasks \cup {NoTask}]
      /\ head' \in Slots /\ count' \in 0..QueueSize /\ count' = count - 1
      /\ RingHolds'
      /\ queue[head] \in Tasks /\ queue[head] = queue[At(head, 0)]
      /\ \A i \in 0..(count' - 1) : queue'[At(head', i)] = queue[At(head, i + 1)]
  BY TakeFromRing
<1>3. worker' \in [Workers -> {"none", "lock", "wait", "run", "exited"}]
      /\ \A v \in Workers : worker'[v] = IF v = w THEN "run" ELSE worker[v]
  BY <1>1 DEF IInv, TypeOK
<1>4. task' \in [Workers -> Tasks \cup {NoTask}]
      /\ \A v \in Workers : task'[v] = IF v = w THEN queue[head] ELSE task[v]
  BY <1>1, <1>2 DEF IInv, TypeOK
<1>5. TypeOK'
  <2>1. taken' \in Seq(Tasks)
    BY <1>1, <1>2 DEF IInv, TypeOK
  <2> QED BY <1>1, <1>2, <1>3, <1>4, <2>1 DEF IInv, TypeOK
<1>6. StartedCounts'
  BY <1>1, <1>3, Woken
<1>7. LeaveEmpty'
  <2>1. \A v \in created : worker'[v] = "exited" => worker[v] = "exited"
    BY <1>3 DEF IInv, TypeOK
  <2>2. 0 < count
    BY DEF TakeTask
  <2> QED
    BY <1>1, <2>1, <2>2 DEF IInv, TypeOK, LeaveEmpty, TakeTask, MustExit
<1>8. FreedLast' /\ RunsATask'
  BY <1>1, <1>2, <1>3, <1>4 DEF IInv, TypeOK, FreedLast, RunsATask
<1>9. NoSleepOnWork'
  <2>1. Waiting' = Waiting
    BY <1>1, <1>3 DEF Waiting
  <2>2. TypeOK /\ w \in Ready
    BY <1>1 DEF IInv, Ready
  <2>3. /\ Cardinality(Ready) \in Nat
        /\ Cardinality(Ready') = Cardinality(Ready) - 1
    <3> DEFINE p == "run"
    <3>1. worker' = [worker EXCEPT ![w] = p] /\ p \in {"wait", "run", "exited"}
      BY <1>1
    <3> HIDE DEF p
    <3> QED BY <2>2, <3>1, ReadyMoves
  <2>4. count \in Nat
    BY DEF IInv, TypeOK
  <2>5. count <= Cardinality(Ready) => count' <= Cardinality(Ready')
    BY <1>2, <2>3, <2>4
  <2> QED BY <1>1, <2>1, <2>5 DEF IInv, NoSleepOnWork
<1>10. NoneLost'
  <2>1. ASSUME NEW u, InRing(u) PROVE InRing(u)' \/ InHand(u)'
    <3>1. PICK i \in 0..(count - 1) : queue[At(head, i)] = u
      BY <2>1 DEF InRing
    <3>2. CASE i = 0
      BY <1>2, <1>3, <1>4, <3>1, <3>2 DEF InHand
    <3>3. CASE i # 0
      <4>1. count \in Nat
        BY PoolAssumption DEF IInv, TypeOK
      <4>2. PICK j \in 0..(count' - 1) : i = j + 1
        <5>1. i - 1 \in 0..(count' - 1) /\ i = (i - 1) + 1
          BY <1>2, <3>3, <4>1
        <5> QED BY <5>1
      <4>3. queue'[At(head', j)] = u
        BY <1>2, <3>1, <4>2
      <4> QED BY <4>3 DEF InRing, At
    <3> QED BY <3>2, <3>3
  <2>2. \A u : InHand(u) => InHand(u)'
    BY <1>1, <1>3, <1>4 DEF InHand
  <2> QED BY <1>1, <2>1, <2>2 DEF IInv, NoneLost
<1> QED BY <1>2, <1>5, <1>6, <1>7, <1>8, <1>9, <1>10 DEF IInv

LEMMA RunIInv == ASSUME IInv, NEW w \in Workers, RunTask(w) PROVE IInv'
<1>1. /\ UNCHANGED <<created, locked, shutdown, started, client, accepted, taken>>
      /\ UNCHANGED ringVars
      /\ worker[w] = "run" /\ worker' = [worker EXCEPT ![w] = "lock"]
      /\ task' = [task EXCEPT ![w] = NoTask] /\ ran' = ran \cup {task[w]}
      /\ task[w] \in Tasks
  BY DEF RunTask, Move, poolVars, IInv, RunsATask
<1>2. /\ queue' \in [Slots -> Tasks \cup {NoTask}] /\ head' \in Slots
      /\ tail' \in Slots /\ count' \in 0..QueueSize /\ RingHolds'
      /\ count' = count /\ head' = head /\ queue' = queue
  BY <1>1, RingUnchanged
<1>3. /\ worker' \in [Workers -> {"none", "lock", "wait", "run", "exited"}]
      /\ \A v \in Workers : worker'[v] = IF v = w THEN "lock" ELSE worker[v]
      /\ task' \in [Workers -> Tasks \cup {NoTask}]
      /\ \A v \in Workers : v # w => task'[v] = task[v]
  BY <1>1 DEF IInv, TypeOK
<1>4. TypeOK'
  BY <1>1, <1>2, <1>3 DEF IInv, TypeOK
<1>5. StartedCounts'
  BY <1>1, <1>3, Woken
<1>6. LeaveEmpty' /\ FreedLast' /\ RunsATask'
  BY <1>1, <1>2, <1>3 DEF IInv, TypeOK, LeaveEmpty, FreedLast, RunsATask
<1>7. NoSleepOnWork'
  <2>1. Waiting' = Waiting
    BY <1>1, <1>3 DEF Waiting
  <2>2. TypeOK /\ w \notin Ready
    BY <1>1 DEF IInv, Ready
  <2>3. /\ Cardinality(Ready) \in Nat
        /\ Cardinality(Ready') = Cardinality(Ready) + 1
    BY <1>1, <2>2, ReadyMoves
  <2>4. count \in Nat
    BY DEF IInv, TypeOK
  <2>5. count <= Cardinality(Ready) => count' <= Cardinality(Ready')
    BY <1>2, <2>3, <2>4
  <2> QED BY <1>1, <2>1, <2>5 DEF IInv, NoSleepOnWork
<1>8. NoneLost'
  <2>1. \A u : InRing(u) => InRing(u)'
    BY <1>2 DEF InRing, At
  <2>2. \A u : InHand(u) => InHand(u)' \/ u \in ran'
    BY <1>1, <1>3 DEF InHand
  <2> QED BY <1>1, <2>1, <2>2 DEF IInv, NoneLost
<1> QED BY <1>2, <1>4, <1>5, <1>6, <1>7, <1>8 DEF IInv

LEMMA ClientIInv ==
  ASSUME IInv, NEW c \in Clients,
         \/ \E option \in {"immediate", "graceful"} : Destroy(c, option)
         \/ DestroyAgain(c) \/ ClientStep(c)
  PROVE  IInv'
<1>1. /\ UNCHANGED <<created, started, task, accepted, taken, ran>>
      /\ UNCHANGED ringVars
      /\ locked' \in BOOLEAN
      /\ shutdown' \in {"no", "immediate", "graceful"}
      /\ client' \in [Clients -> {"idle", "join", "free", "done"}]
  BY DEF Destroy, DestroyAgain, ClientStep, Join, Free, poolVars, history, IInv,
     TypeOK
<1>2. /\ worker' \in [Workers -> {"none", "lock", "wait", "run", "exited"}]
      /\ \A w \in Workers : \/ worker'[w] = worker[w]
                            \/ worker[w] = "wait" /\ worker'[w] = "lock"
      /\ \/ worker' = worker /\ shutdown' = shutdown
         \/ /\ shutdown = "no" /\ shutdown' # "no"
            /\ \A w \in Workers : worker'[w] # "wait"
  BY DEF Destroy, DestroyAgain, ClientStep, Join, Free, Broadcast, poolVars,
     history, IInv, TypeOK
<1>3. /\ queue' \in [Slots -> Tasks \cup {NoTask}] /\ head' \in Slots
      /\ tail' \in Slots /\ count' \in 0..QueueSize /\ RingHolds'
      /\ count' = count /\ head' = head /\ queue' = queue
  BY <1>1, RingUnchanged
<1>4. TypeOK'
  BY <1>1, <1>2, <1>3 DEF IInv, TypeOK
<1>5. StartedCounts'
  BY <1>1, <1>2, Woken
<1>6. LeaveEmpty'
  BY <1>1, <1>2, <1>3 DEF IInv, TypeOK, LeaveEmpty
<1>7. RunsATask'
  BY <1>1, <1>2 DEF IInv, RunsATask
<1>8. FreedLast'
  <2>1. CASE \/ \E option \in {"immediate", "graceful"} : Destroy(c, option)
             \/ DestroyAgain(c) \/ Free(c)
    <3>1. \A d \in Clients : client'[d] = "free" => client[d] = "free"
      BY <2>1 DEF Destroy, DestroyAgain, Free, IInv, TypeOK
    <3>2. \A w \in created : worker[w] = "exited" => worker'[w] = "exited"
      BY <1>2 DEF IInv, TypeOK
    <3> QED BY <1>1, <3>1, <3>2 DEF IInv, FreedLast
  <2>2. CASE Join(c)
    BY <1>1, <2>2 DEF Join, FreedLast
  <2> QED BY <2>1, <2>2 DEF ClientStep
<1>9. NoSleepOnWork'
  BY <1>1, <1>2, <1>3 DEF IInv, TypeOK, NoSleepOnWork, Waiting, Ready
<1>10. NoneLost'
  <2>1. \A u : InRing(u) => InRing(u)'
    BY <1>3 DEF InRing, At
  <2>2. \A u : InHand(u) => InHand(u)'
    BY <1>1, <1>2 DEF InHand
  <2> QED BY <1>1, <2>1, <2>2 DEF IInv, NoneLost
<1> QED BY <1>3, <1>4, <1>5, <1>6, <1>7, <1>8, <1>9, <1>10 DEF IInv

LEMMA NextIInv == IInv /\ [Next]_vars => IInv'
<1> SUFFICES ASSUME IInv, [Next]_vars PROVE IInv'
  OBVIOUS
<1>1. CASE UNCHANGED vars
  BY <1>1 DEF vars, poolVars, ringVars, history, IInv, TypeOK, RingHolds, At,
     StartedCounts, Alive, LeaveEmpty, RunsATask, FreedLast, NoSleepOnWork,
     Waiting, Ready, NoneLost, InRing, InHand
<1>2. CASE Next
  BY <1>2, AddIInv, MoveIInv, TakeIInv, RunIInv, ClientIInv DEF Next, WorkerStep
<1> QED BY <1>1, <1>2

LEMMA Invariance == Spec => []IInv
<1>1. Init => IInv BY InitIInv
<1>2. IInv /\ [Next]_vars => IInv' BY NextIInv
<1> QED BY <1>1, <1>2, PTL DEF Spec

----------------------------------------------------------------------------
(* The pool's variables keep their types: head and tail stay in the ring,  *)
(* count between 0 and its size, and started never goes below zero.        *)
THEOREM TypeCorrect == Spec => []TypeOK
<1>1. IInv => TypeOK BY DEF IInv
<1> QED BY <1>1, Invariance, PTL

(* While anybody sleeps, every task in the ring has a worker on its way to *)
(* the mutex, and a shutdown finds nobody asleep, for any number of workers.*)
THEOREM NobodySleeps == Spec => []NoSleepOnWork
<1>1. IInv => NoSleepOnWork BY DEF IInv
<1> QED BY <1>1, Invariance, PTL

(* When the workers of a graceful shutdown have been joined, every task    *)
(* that was accepted has been executed.                                    *)
THEOREM GracefulLosesNone == Spec => []GracefulRunsAll
<1>1. ASSUME IInv, shutdown = "graceful", \E c \in Clients : client[c] = "free",
             NEW k \in DOMAIN accepted
      PROVE  accepted[k] \in ran
  <2>1. \A w \in created : worker[w] = "exited"
    BY <1>1 DEF IInv, FreedLast
  <2>2. count = 0
    BY <1>1, <2>1 DEF IInv, StartedCounts, LeaveEmpty
  <2>3. \A w \in Workers : worker[w] # "run"
    BY <1>1, <2>1 DEF IInv, StartedCounts
  <2> QED BY <1>1, <2>2, <2>3 DEF IInv, NoneLost, InRing, InHand
<1>2. IInv => GracefulRunsAll BY <1>1 DEF GracefulRunsAll
<1> QED BY <1>2, Invariance, PTL

----------------------------------------------------------------------------
(* The refinement of TaskQueue: the ring from head on is the queue. *)

ring == [i \in 1..count |-> queue[(head + i - 1) % QueueSize]]

(* Sequences are functions: one is known by its length and its elements.   *)
LEMMA SeqIsFcn ==
  ASSUME NEW S, NEW s \in Seq(S), NEW n \in Nat, NEW f \in [1..n -> S],
         Len(s) = n, \A i \in 1..n : s[i] = f[i]
  PROVE  s = f
<1>1. s \in [1..n -> S]
  BY LenProperties
<1> QED BY <1>1

LEMMA RingIsSeq ==
  ASSUME IInv
  PROVE  /\ ring \in Seq(Tasks) /\ Len(ring) = count
         /\ \A i \in 1..count : ring[i] = queue[At(head, i - 1)]
<1>1. count \in Nat /\ head \in Nat
  BY PoolAssumption DEF IInv, TypeOK, Slots
<1>2. \A i \in 1..count : ring[i] = queue[At(head, i - 1)]
  <2>1. \A i \in 1..count : head + i - 1 = head + (i - 1)
    BY <1>1
  <2> QED BY <2>1 DEF ring, At
<1>3. \A i \in 1..count : ring[i] \in Tasks
  <2>1. \A i \in 1..count : i - 1 \in 0..(count - 1)
    BY <1>1
  <2> QED BY <1>2, <2>1 DEF IInv, RingHolds
<1>4. ring \in [1..count -> Tasks]
  BY <1>3 DEF ring
<1> QED BY <1>1, <1>2, <1>4

(* Adding a task appends it ...                                            *)
LEMMA AddSubmits == ASSUME IInv, NEW t \in Tasks, Add(t) PROVE T!Submit(t)
<1>1. /\ ring \in Seq(Tasks) /\ Len(ring) = count /\ count \in Nat
      /\ \A i \in 1..count : ring[i] = queue[At(head, i - 1)]
  BY RingIsSeq, PoolAssumption DEF IInv, TypeOK
<1>2. /\ count' = count + 1 /\ head' = head /\ head \in Nat
      /\ \A i \in 0..(count - 1) : queue'[At(head', i)] = queue[At(head, i)]
      /\ queue'[At(head', count)] = t
  <2>1. head' = head BY DEF Add
  <2>2. head \in Nat BY PoolAssumption DEF IInv, TypeOK, Slots
  <2> QED BY <2>1, <2>2, AddToRing
<1>3. \A i \in 1..(count + 1) : (head + i - 1) % QueueSize = At(head, i - 1)
  <2>1. \A i \in 1..(count + 1) : head + i - 1 = head + (i - 1)
    BY <1>1, <1>2
  <2> QED BY <2>1 DEF At
<1>4. ring' = [i \in 1..(count + 1) |-> queue'[At(head, i - 1)]]
  BY <1>2, <1>3 DEF ring
<1>5. \A i \in 1..count : queue'[At(head, i - 1)] = ring[i]
  <2>1. \A i \in 1..count : i - 1 \in 0..(count - 1)
    BY <1>1
  <2> QED BY <1>1, <1>2, <2>1
<1>6. queue'[At(head, (count + 1) - 1)] = t
  <2>1. (count + 1) - 1 = count BY <1>1
  <2> QED BY <1>2, <2>1
<1>7. ring' = Append(ring, t)
  <2>1. /\ Append(ring, t) \in Seq(Tasks) /\ Len(Append(ring, t)) = count + 1
        /\ \A i \in 1..count : Append(ring, t)[i] = ring[i]
        /\ Append(ring, t)[count + 1] = t
    BY <1>1
  <2>2. ASSUME NEW i \in 1..(count + 1)
        PROVE  ring'[i] = Append(ring, t)[i] /\ Append(ring, t)[i] \in Tasks
    <3>1. i \in 1..count \/ i = count + 1
      BY <1>1
    <3> QED BY <1>1, <1>4, <1>5, <1>6, <2>1, <3>1, ElementOfSeq
  <2>3. ring' \in [1..(count + 1) -> Tasks]
    BY <1>4, <2>2
  <2> HIDE DEF ring
  <2> QED BY <1>1, <2>1, <2>2, <2>3, SeqIsFcn
<1>8. taken' = taken
  BY DEF Add
<1> QED BY <1>7, <1>8 DEF T!Submit, ring

(* ... and a worker takes the head.                                        *)
LEMMA TakeExecutes ==
  ASSUME IInv, NEW w \in Workers, TakeTask(w) PROVE T!Execute
<1>1. /\ ring \in Seq(Tasks) /\ Len(ring) = count /\ count \in Nat /\ 0 < count
      /\ \A i \in 1..count : ring[i] = queue[At(head, i - 1)]
  BY RingIsSeq, PoolAssumption DEF IInv, TypeOK, TakeTask
<1>2. /\ count' = count - 1 /\ head' \in Nat /\ head \in Nat
      /\ queue[head] = queue[At(head, 0)]
      /\ \A i \in 0..(count' - 1) : queue'[At(head', i)] = queue[At(head, i + 1)]
  BY TakeFromRing, PoolAssumption DEF IInv, TypeOK, Slots
<1>3. \A i \in 1..(count - 1) : (head' + i - 1) % QueueSize = At(head', i - 1)
  <2>1. \A i \in 1..(count - 1) : head' + i - 1 = head' + (i - 1)
    BY <1>1, <1>2
  <2> QED BY <2>1 DEF At
<1>4. ring' = [i \in 1..(count - 1) |-> queue'[At(head', i - 1)]]
  BY <1>2, <1>3 DEF ring
<1>5. \A i \in 1..(count - 1) : queue'[At(head', i - 1)] = ring[i + 1]
  <2>1. \A i \in 1..(count - 1) :
          /\ i - 1 \in 0..(count' - 1) /\ (i - 1) + 1 = i
          /\ i + 1 \in 1..count /\ (i + 1) - 1 = i
    BY <1>1, <1>2
  <2>2. \A i \in 1..(count - 1) : queue'[At(head', i - 1)] = queue[At(head, i)]
    BY <1>2, <2>1
  <2> QED BY <1>1, <2>1, <2>2
<1>6. ring' = [i \in 1..(count - 1) |-> ring[i + 1]]
  BY <1>4, <1>5
<1>7. Tail(ring) = ring'
  <2>1. /\ Tail(ring) \in Seq(Tasks) /\ Len(Tail(ring)) = count - 1
        /\ \A i \in 1..(count - 1) : Tail(ring)[i] = ring[i + 1]
    BY <1>1, HeadTailProperties
  <2>2. \A i \in 1..(count - 1) :
          ring'[i] = Tail(ring)[i] /\ Tail(ring)[i] \in Tasks
    BY <1>6, <2>1, ElementOfSeq
  <2>3. ring' \in [1..(count - 1) -> Tasks]
    BY <1>6, <2>2
  <2>4. count - 1 \in Nat
    BY <1>1
  <2> HIDE DEF ring
  <2> QED BY <2>1, <2>2, <2>3, <2>4, SeqIsFcn
<1>8. ring # <<>> /\ Head(ring) = queue[head]
  BY <1>1, <1>2
<1>9. taken' = Append(taken, Head(ring))
  BY <1>8 DEF TakeTask
<1> QED BY <1>7, <1>8, <1>9 DEF T!Execute, ring

(* The ring is a FIFO queue through every wrap: tasks are taken in the     *)
(* order in which they were accepted, each once.                           *)
THEOREM PoolIsTaskQueue == Spec => ImplementsTaskQueue
<1>1. Init => T!Init
  BY DEF Init, T!Init
<1>2. ASSUME IInv, [Next]_vars PROVE [T!Next]_(T!taskVars)
  <2>1. ASSUME NEW t \in Tasks, Add(t) PROVE T!Next
    BY <1>2, <2>1, AddSubmits DEF T!Next
  <2>2. ASSUME NEW w \in Workers, TakeTask(w) PROVE T!Next
    BY <1>2, <2>2, TakeExecutes DEF T!Next
  <2>3. CASE UNCHANGED <<ringVars, taken>>
    <3>1. ring' = ring /\ taken' = taken
      BY <2>3 DEF ring, ringVars
    <3> QED BY <3>1 DEF T!taskVars, ring
  <2> QED
    BY <1>2, <2>1, <2>2, <2>3
       DEF Next, WorkerStep, ClientStep, Sleep, Exit, RunTask, SpuriousWakeup,
           Destroy, DestroyAgain, Join, Free, history, vars
<1> QED BY <1>1, <1>2, Invariance, PTL DEF Spec, ImplementsTaskQueue, T!Spec
=============================================================================
