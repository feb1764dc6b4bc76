----------------------------- MODULE ThreadPool -----------------------------
(***************************************************************************)
(* The thread pool (ThreadPool.cpp): a ring of tasks under one mutex, a    *)
(* condition variable, workers, and clients that add tasks and shut the    *)
(* pool down.  A critical section is one step; what matters is who finds   *)
(* the mutex free, and that two paths leave it locked.                     *)
(***************************************************************************)
EXTENDS Naturals, Sequences, FiniteSets

CONSTANTS
  Workers,    (* the threads threadpool_create is asked for                *)
  Clients,    (* threads that may call threadpool_destroy                  *)
  Tasks,      (* the tasks; each is added once                             *)
  NoTask,     (* an empty slot, or no task in hand                         *)
  QueueSize   (* _queue_size                                               *)

ASSUME PoolAssumption ==
  /\ QueueSize \in Nat \ {0} /\ NoTask \notin Tasks
  /\ IsFiniteSet(Workers)

VARIABLES
  created,   (* the workers whose pthread_create succeeded                 *)
  worker,    (* where each worker is                                       *)
  task,      (* the task a worker has taken                                *)
  client,    (* where each client is in threadpool_destroy                 *)
  locked,    (* the mutex has been left locked                             *)
  queue, head, tail, count, shutdown, started,
  accepted,  (* history: the tasks added, in order                         *)
  taken,     (* history: the tasks taken by workers, in order              *)
  ran        (* history: the tasks executed to the end                     *)

ringVars == <<queue, head, tail, count>>
poolVars == <<created, locked, shutdown, started>>
history  == <<accepted, taken, ran>>
vars == <<poolVars, ringVars, worker, task, client, history>>

Slots == 0..(QueueSize - 1)

(* Mutant: the index is not brought back to the start of the ring. *)
NextUnwrapped(i) == i + 1

NextSlot(i) == (i + 1) % QueueSize

TypeOK ==
  /\ created \subseteq Workers
  /\ worker \in [Workers -> {"none", "lock", "wait", "run", "exited"}]
  /\ task \in [Workers -> Tasks \cup {NoTask}]
  /\ client \in [Clients -> {"idle", "join", "free", "done"}]
  /\ locked \in BOOLEAN
  /\ queue \in [Slots -> Tasks \cup {NoTask}]
  /\ head \in Slots /\ tail \in Slots /\ count \in 0..QueueSize
  /\ shutdown \in {"no", "immediate", "graceful"}
  /\ started \in Nat
  /\ accepted \in Seq(Tasks) /\ taken \in Seq(Tasks) /\ ran \subseteq Tasks

(* threadpool_create; pthread_create may have failed after the first few.  *)
(* (The workers only touch what it sets up once they have tasks.)          *)
Init ==
  /\ created \in (SUBSET Workers) \ {{}}
  /\ worker = [w \in Workers |-> IF w \in created THEN "lock" ELSE "none"]
  /\ task = [w \in Workers |-> NoTask]
  /\ client = [c \in Clients |-> "idle"]
  /\ locked = FALSE
  /\ queue = [i \in Slots |-> NoTask]
  /\ head = 0 /\ tail = 0 /\ count = 0
  /\ shutdown = "no" /\ started = Cardinality(created)
  /\ accepted = <<>> /\ taken = <<>> /\ ran = {}

Move(w, place) == worker' = [worker EXCEPT ![w] = place]

Waiting == {w \in Workers : worker[w] = "wait"}

----------------------------------------------------------------------------
(* Mutant: only a task that finds the ring empty is signalled. *)
SignalFirst ==
  IF count > 0 \/ Waiting = {} THEN UNCHANGED worker
                               ELSE \E w \in Waiting : Move(w, "lock")

(* pthread_cond_signal wakes one waiting worker, if there is any. *)
Signal ==
  IF Waiting = {} THEN UNCHANGED worker ELSE \E w \in Waiting : Move(w, "lock")

(* Mutant: the test of the capacity overlooks that the ring may be full. *)
AddUnchecked(t) ==
  /\ ~locked /\ shutdown = "no"
  /\ \A i \in DOMAIN accepted : accepted[i] # t
  /\ queue' = [queue EXCEPT ![tail] = t]
  /\ tail' = NextSlot(tail)
  /\ count' = IF count = QueueSize THEN count ELSE count + 1
  /\ Signal
  /\ accepted' = Append(accepted, t)
  /\ UNCHANGED <<poolVars, head, task, client, taken, ran>>

(* threadpool_add.  A full ring and a pool being shut down refuse the task *)
(* and change nothing; a locked mutex never answers.                       *)
Add(t) ==
  /\ ~locked /\ count < QueueSize /\ shutdown = "no"
  /\ \A i \in DOMAIN accepted : accepted[i] # t
  /\ queue' = [queue EXCEPT ![tail] = t]
  /\ tail' = NextSlot(tail)
  /\ count' = count + 1
  /\ Signal
  /\ accepted' = Append(accepted, t)
  /\ UNCHANGED <<poolVars, head, task, client, taken, ran>>

----------------------------------------------------------------------------
(* threadpool_thread *)

Enters(w) == worker[w] = "lock" /\ ~locked

Sleep(w) ==
  /\ Enters(w)
  /\ count = 0 /\ shutdown = "no"
  /\ Move(w, "wait")
  /\ UNCHANGED <<poolVars, ringVars, task, client, history>>

(* pthread_cond_wait may return for no reason. *)
SpuriousWakeup(w) ==
  /\ worker[w] = "wait"
  /\ Move(w, "lock")
  /\ UNCHANGED <<poolVars, ringVars, task, client, history>>

(* Mutant: any shutdown ends a worker at once. *)
MustExitAtOnce == shutdown # "no"

MustExit == shutdown = "immediate" \/ (shutdown = "graceful" /\ count = 0)

Exit(w) ==
  /\ Enters(w)
  /\ MustExit
  /\ started' = started - 1
  /\ Move(w, "exited")
  /\ UNCHANGED <<created, locked, shutdown, ringVars, task, client, history>>

TakeTask(w) ==
  /\ Enters(w)
  /\ ~MustExit /\ count > 0
  /\ task' = [task EXCEPT ![w] = queue[head]]
  /\ taken' = Append(taken, queue[head])
  /\ queue' = [queue EXCEPT ![head] = NoTask]
  /\ head' = NextSlot(head)
  /\ count' = count - 1
  /\ Move(w, "run")
  /\ UNCHANGED <<poolVars, tail, client, accepted, ran>>

(* The task runs outside the lock and returns. *)
RunTask(w) ==
  /\ worker[w] = "run"
  /\ ran' = ran \cup {task[w]}
  /\ task' = [task EXCEPT ![w] = NoTask]
  /\ Move(w, "lock")
  /\ UNCHANGED <<poolVars, ringVars, client, accepted, taken>>

----------------------------------------------------------------------------
(* threadpool_destroy and threadpool_free *)

(* Mutant: the shutdown wakes one worker. *)
BroadcastOnce == Signal

(* pthread_cond_broadcast *)
Broadcast ==
  worker' = [w \in Workers |-> IF worker[w] = "wait" THEN "lock" ELSE worker[w]]

Destroy(c, option) ==
  /\ client[c] = "idle" /\ ~locked /\ shutdown = "no"
  /\ shutdown' = option
  /\ Broadcast
  /\ client' = [client EXCEPT ![c] = "join"]
  /\ UNCHANGED <<created, locked, started, ringVars, task, history>>

(* A second call finds shutdown set and leaves with the mutex locked. *)
DestroyAgain(c) ==
  /\ client[c] = "idle" /\ ~locked /\ shutdown # "no"
  /\ locked' = TRUE
  /\ client' = [client EXCEPT ![c] = "done"]
  /\ UNCHANGED <<created, shutdown, started, ringVars, worker, task, history>>

(* Every thread that was created has been joined. *)
Join(c) ==
  /\ client[c] = "join"
  /\ \A w \in created : worker[w] = "exited"
  /\ client' = [client EXCEPT ![c] = "free"]
  /\ UNCHANGED <<poolVars, ringVars, worker, task, history>>

(* threadpool_free locks the mutex for good before it destroys it; a lock  *)
(* held by a DestroyAgain makes it wait for ever.                          *)
Free(c) ==
  /\ client[c] = "free"
  /\ started > 0 \/ ~locked
  /\ locked' = (locked \/ started = 0)
  /\ client' = [client EXCEPT ![c] = "done"]
  /\ UNCHANGED <<created, shutdown, started, ringVars, worker, task, history>>

----------------------------------------------------------------------------
WorkerStep(w) == Sleep(w) \/ Exit(w) \/ TakeTask(w) \/ RunTask(w)
ClientStep(c) == Join(c) \/ Free(c)

Next ==
  \/ \E t \in Tasks : Add(t)
  \/ \E w \in Workers : WorkerStep(w) \/ SpuriousWakeup(w)
  \/ \E c \in Clients :
       \/ \E option \in {"immediate", "graceful"} : Destroy(c, option)
       \/ DestroyAgain(c) \/ ClientStep(c)

Spec == Init /\ [][Next]_vars

(* Threads are scheduled, a free mutex is got in the end, tasks return.    *)
FairSpec ==
  /\ Spec
  /\ \A w \in Workers : WF_vars(WorkerStep(w))
  /\ \A c \in Clients : WF_vars(ClientStep(c))

----------------------------------------------------------------------------
(* On their way to the mutex: woken, started or back from a task.          *)
Ready == {w \in Workers : worker[w] = "lock"}

(* No worker sleeps through work: while anybody sleeps there is a worker   *)
(* on its way to the mutex for every task in the ring, though one signal   *)
(* is sent per task, a signal may find nobody waiting, and any worker may  *)
(* overtake the one it woke; and a shutdown finds nobody waiting.          *)
NoSleepOnWork ==
  /\ Waiting # {} /\ shutdown = "no" => count <= Cardinality(Ready)
  /\ shutdown # "no" => Waiting = {}

(* Tasks are taken in the order they were added, each once, through every  *)
(* wrap of the ring: the pool is a TaskQueue.                              *)
T == INSTANCE TaskQueue WITH
       Functors <- Tasks,
       queue    <- [i \in 1..count |-> queue[(head + i - 1) % QueueSize]],
       done     <- taken

ImplementsTaskQueue == T!Spec

(* A graceful shutdown loses nothing: when its workers have been joined,   *)
(* every task accepted has been executed.                                  *)
GracefulRunsAll ==
  shutdown = "graceful" /\ (\E c \in Clients : client[c] = "free")
    => \A i \in DOMAIN accepted : accepted[i] \in ran

(* threadpool_destroy returns, unless a second call of it has left the     *)
(* mutex locked.                                                           *)
DestroyReturns ==
  \A c \in Clients : client[c] = "join" ~> client[c] = "done" \/ locked
=============================================================================
