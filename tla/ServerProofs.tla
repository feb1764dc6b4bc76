---------------------------- MODULE ServerProofs ----------------------------
(***************************************************************************)
(* Proofs about Server, for any number of loop threads, connections,       *)
(* descriptors and any MAXFDS: types, connections only go to loops that    *)
(* exist, and the acceptor never waits on a backlog it was not told of.    *)
(***************************************************************************)
EXTENDS Server, SequencesExt, FiniteSetTheorems, SequenceTheorems, TLAPS

(* A non-empty set of naturals has a least element: of the intervals 1..m  *)
(* one is minimal under inclusion.                                         *)
LEMMA LeastElement ==
  ASSUME NEW S \in SUBSET Nat, S # {}
  PROVE  \E m \in S : \A n \in S : m <= n
<1> DEFINE R == StrictSubsetOrdering(Nat)
           D == FiniteSubsetsOf(Nat)
           T == {1..m : m \in S}
<1>1. IsWellFoundedOn(R, D)
  BY FS_StrictSubsetOrderingWellFounded
<1>2. T \subseteq D /\ T # {}
  <2>1. \A m \in Nat : 1..m \in D
    BY FS_Interval DEF FiniteSubsetsOf
  <2> HIDE DEF D
  <2> QED BY <2>1
<1>3. PICK x \in T : \A y \in T : ~(<<y, x>> \in R)
  <2> HIDE DEF R, D, T
  <2> QED BY <1>1, <1>2, WFMin
<1>4. PICK m \in S : x = 1..m
  OBVIOUS
<1>5. ASSUME NEW n \in S, n < m PROVE FALSE
  <2>1. 1..n \in T /\ 1..n \subseteq 1..m
    BY <1>5
  <2>2. m \in 1..m /\ m \notin 1..n
    BY <1>5
  <2>3. <<1..n, x>> \in R
    BY <1>4, <2>1, <2>2 DEF StrictSubsetOrdering
  <2> QED BY <1>3, <2>1, <2>3
<1> QED BY <1>5

----------------------------------------------------------------------------
Starting  == main \in {"create", "latch", "cond", "wait"}
Accepting == main \in {"poll", "accept"}

(* The threads before idx, and after the start all of them, have a loop;   *)
(* those that startLoop has not come to do not exist.                      *)
StartedInOrder ==
  /\ \A i \in Threads :
       (Starting /\ i < idx) \/ main = "register" \/ Accepting
         => thread[i] \in {"published", "looping"}
  /\ \A i \in Threads :
       (Starting /\ idx < i) \/ (main = "create" /\ i = idx)
         => thread[i] = "none"

(* loop_ points at a loop that is not yet destroyed.                       *)
PublishedExist ==
  \A i \in Threads : loop[i] => thread[i] \in {"published", "looping", "left"}

(* Only the destruction ends a loop.                                       *)
NobodyQuits ==
  \A i \in Threads : quit[i] \/ thread[i] \in {"left", "ended"} => Destroying

(* Only the acceptor hands out connections, and each to some loop.         *)
Homes ==
  \A c \in Conns : conn[c] \in {"handed", "open"}
    => home[c] \in Threads /\ (Accepting \/ Destroying)

(* The kernel's queue holds the connections that wait, each once.          *)
BacklogWaits ==
  /\ \A k \in DOMAIN backlog : conn[backlog[k]] = "backlog"
  /\ \A j, k \in DOMAIN backlog : backlog[j] = backlog[k] => j = k

Watching == Accepting /\ ~Leaked => watched

IInv ==
  /\ TypeOK
  /\ StartedInOrder /\ PublishedExist /\ NobodyQuits
  /\ Homes /\ BacklogWaits /\ Watching /\ NothingStranded

----------------------------------------------------------------------------
(* accept() returns a descriptor that is free.                             *)
LEMMA AcceptFdFree ==
  ASSUME limit \in Nat, FreeFds # {}
  PROVE  AcceptFd \in 0..limit
<1>1. FreeFds \subseteq Nat /\ FreeFds \subseteq 0..limit
  BY DEF FreeFds
<1>2. \E f \in FreeFds : \A g \in FreeFds : f <= g
  BY <1>1, LeastElement
<1>3. AcceptFd \in FreeFds
  BY <1>2 DEF AcceptFd
<1> QED BY <1>1, <1>3

(* What is left of the kernel's queue when its head has been accepted.     *)
LEMMA TailOfBacklog ==
  ASSUME backlog \in Seq(Conns), BacklogWaits, NEW c \in Conns, Accepted(c)
  PROVE  /\ backlog' \in Seq(Conns)
         /\ conn[c] = "backlog"
         /\ \A k \in DOMAIN backlog' :
              /\ k + 1 \in DOMAIN backlog
              /\ backlog'[k] = backlog[k + 1]
              /\ backlog'[k] # c
<1>1. /\ backlog # <<>> /\ c = backlog[1] /\ backlog' = Tail(backlog)
      /\ 1 \in DOMAIN backlog
  BY DEF Accepted
<1>2. \A k \in DOMAIN Tail(backlog) :
        k + 1 \in DOMAIN backlog /\ Tail(backlog)[k] = backlog[k + 1] /\ k + 1 # 1
  BY <1>1
<1> QED BY <1>1, <1>2 DEF BacklogWaits

----------------------------------------------------------------------------
LEMMA InitIInv == Init => IInv
<1> SUFFICES ASSUME Init PROVE IInv
  OBVIOUS
<1>1. TypeOK
  <2>1. NumThreads \in Nat /\ limit \in Nat /\ 1 \in Threads
    BY ServerAssumption DEF Init, Threads
  <2>2. /\ fd \in [Conns -> 0..limit] /\ home \in [Conns -> 0..NumThreads]
        /\ idx \in Threads /\ next \in Threads
    BY <2>1 DEF Init
  <2>3. /\ loop \in [Threads -> BOOLEAN] /\ quit \in [Threads -> BOOLEAN]
        /\ woken \in [Threads -> BOOLEAN] /\ watched \in BOOLEAN
        /\ ready \in BOOLEAN /\ starved \in BOOLEAN
    BY DEF Init
  <2> QED BY <2>2, <2>3 DEF Init, TypeOK
<1>2. StartedInOrder
  BY ServerAssumption DEF Init, StartedInOrder, Starting, Accepting, Threads
<1> QED
  BY <1>1, <1>2 DEF Init, IInv, PublishedExist, NobodyQuits, Homes,
     BacklogWaits, Watching, Accepting, NothingStranded

(* The steps, by what they leave alone.                                    *)
StartSteps ==
  CreateThread \/ CreateFails \/ LatchOpens \/ CondWaits \/ SpuriousWakeup
    \/ LoopPublished
LoopSteps(i) ==
  CountDown(i) \/ BuildLoop(i) \/ Publish(i) \/ EnterLoop(i) \/ LeaveLoop(i)
    \/ EndThread(i)
EndSteps == BeginDestroy \/ Quit \/ Wakeup \/ Join
TakeSteps(c) == Refuse(c) \/ HandOver(c) \/ SetNonBlockingFails(c)

LEMMA StartIInv == ASSUME IInv, StartSteps PROVE IInv'
<1>1. /\ idx' \in Threads /\ main' \in {"create", "latch", "cond", "wait", "register"}
      /\ Starting /\ (~Starting' => idx = NumThreads /\ loop[idx])
      /\ UNCHANGED <<limit, loop, quit, woken, epollVars, connVars>>
      /\ thread' = thread
           \/ (main = "create" /\ thread' = [thread EXCEPT ![idx] = "created"])
  BY ServerAssumption DEF StartSteps, CreateThread, CreateFails, LatchOpens,
     CondWaits, SpuriousWakeup, LoopPublished, IInv, TypeOK, Threads, Starting, threadVars
<1>2. TypeOK'
  BY <1>1 DEF IInv, TypeOK, epollVars, connVars
<1>3. StartedInOrder'
  <2>1. CASE CreateThread
    BY <2>1 DEF CreateThread, IInv, TypeOK, StartedInOrder, Starting,
       Accepting, Threads
  <2>2. CASE CreateFails \/ LatchOpens \/ CondWaits \/ SpuriousWakeup
    BY <2>2 DEF CreateFails, LatchOpens, CondWaits, SpuriousWakeup, IInv, TypeOK, StartedInOrder, Starting,
       Accepting, Threads, threadVars
  <2>3. CASE LoopPublished
    <3>1. thread[idx] \in {"published", "looping"}
      BY <2>3 DEF LoopPublished, IInv, TypeOK, PublishedExist, NobodyQuits,
         Destroying
    <3>2. \A i \in Threads : i <= idx => thread[i] \in {"published", "looping"}
      BY <1>1, <3>1 DEF IInv, TypeOK, StartedInOrder, Threads
    <3>3. \A i \in Threads : idx < i => thread[i] = "none"
      BY <1>1 DEF IInv, StartedInOrder
    <3> QED
      BY <2>3, <3>2, <3>3, ServerAssumption
         DEF LoopPublished, StartedInOrder, Starting, Accepting, Threads,
             threadVars, IInv, TypeOK
  <2> QED BY <2>1, <2>2, <2>3 DEF StartSteps
<1>4. PublishedExist'
  BY <1>1 DEF IInv, TypeOK, PublishedExist, StartedInOrder
<1>5. NobodyQuits'
  BY <1>1 DEF IInv, TypeOK, NobodyQuits, Destroying, Starting
<1>6. Homes' /\ BacklogWaits' /\ Watching' /\ NothingStranded'
  BY <1>1 DEF IInv, Homes, BacklogWaits, Watching, NothingStranded, Accepting,
     Destroying, Starting, connVars
<1> QED BY <1>2, <1>3, <1>4, <1>5, <1>6 DEF IInv

LEMMA LoopIInv == ASSUME IInv, NEW i \in Threads, LoopSteps(i) PROVE IInv'
<1>1. /\ UNCHANGED <<idx, limit, epollVars, connVars>>
      /\ main' = main \/ (main = "wait" /\ main' = "cond")
  BY DEF LoopSteps, CountDown, BuildLoop, Publish, EnterLoop, LeaveLoop,
     EndThread, ThreadMoves
<1>2. PICK from, to \in {"created", "running", "built", "published", "looping",
                         "left", "ended"} :
        /\ thread[i] = from /\ thread' = [thread EXCEPT ![i] = to]
        /\ from # "none" /\ to # "none"
        /\ from \in {"published", "looping"} =>
             to \in {"published", "looping"} \/ quit[i]
        /\ to \in {"left", "ended"} => quit[i] \/ from = "left"
  BY DEF LoopSteps, CountDown, BuildLoop, Publish, EnterLoop, LeaveLoop,
     EndThread, ThreadMoves
<1>3. /\ loop' \in [Threads -> BOOLEAN] /\ quit' \in [Threads -> BOOLEAN]
      /\ woken' \in [Threads -> BOOLEAN]
      /\ \A k \in Threads : quit'[k] => quit[k]
  BY DEF LoopSteps, CountDown, BuildLoop, Publish, EnterLoop, LeaveLoop,
     EndThread, IInv, TypeOK
<1>4. TypeOK'
  BY <1>1, <1>2, <1>3 DEF IInv, TypeOK, epollVars, connVars
<1>5. NobodyQuits'
  BY <1>1, <1>2, <1>3 DEF IInv, TypeOK, NobodyQuits, Destroying
<1>6. StartedInOrder'
  BY <1>1, <1>2 DEF IInv, TypeOK, StartedInOrder, NobodyQuits, Destroying,
     Starting, Accepting
<1>7. PublishedExist'
  BY DEF LoopSteps, CountDown, BuildLoop, Publish, EnterLoop, LeaveLoop,
     EndThread, ThreadMoves, IInv, TypeOK, PublishedExist
<1>8. Homes' /\ BacklogWaits' /\ Watching' /\ NothingStranded'
  BY <1>1 DEF IInv, Homes, BacklogWaits, Watching, NothingStranded, Accepting,
     Destroying, Leaked, epollVars, connVars
<1> QED BY <1>4, <1>5, <1>6, <1>7, <1>8 DEF IInv

LEMMA EndIInv == ASSUME IInv, EndSteps PROVE IInv'
<1>1. /\ main' \in {"destroy", "wakeup", "join", "done"}
      /\ main = "poll" \/ Destroying
      /\ UNCHANGED <<limit, thread, loop, epollVars, connVars>>
  BY DEF EndSteps, BeginDestroy, Quit, Wakeup, Join, threadVars, Destroying
<1>2. idx' \in Threads
  BY ServerAssumption DEF EndSteps, BeginDestroy, Quit, Wakeup, Join, IInv,
     TypeOK, Threads
<1>3. quit' \in [Threads -> BOOLEAN] /\ woken' \in [Threads -> BOOLEAN]
  BY DEF EndSteps, BeginDestroy, Quit, Wakeup, Join, threadVars, IInv, TypeOK
<1>4. TypeOK'
  BY <1>1, <1>2, <1>3 DEF IInv, TypeOK, epollVars, connVars
<1>5. Destroying' /\ ~Starting' /\ ~Accepting' /\ main' # "register"
  BY <1>1 DEF Destroying, Starting, Accepting
<1>6. StartedInOrder' /\ NobodyQuits' /\ Watching' /\ NothingStranded'
  BY <1>1, <1>5 DEF StartedInOrder, NobodyQuits, Watching, NothingStranded
<1>7. PublishedExist' /\ Homes' /\ BacklogWaits'
  BY <1>1, <1>5 DEF IInv, PublishedExist, Homes, BacklogWaits, connVars
<1> QED BY <1>4, <1>6, <1>7 DEF IInv

LEMMA TakeIInv == ASSUME IInv, NEW c \in Conns, TakeSteps(c) PROVE IInv'
<1>1. /\ Accepted(c) /\ main = "accept" /\ main' \in {"accept", "poll"}
      /\ UNCHANGED <<idx, limit, threadVars, starved>>
      /\ next' = IF next = NumThreads THEN 1 ELSE next + 1
      /\ FreeFds # {}
  BY DEF TakeSteps, Refuse, HandOver, SetNonBlockingFails, Accepted
<1>2. PICK s \in {"refused", "handed", "leaked"} :
        /\ conn' = [conn EXCEPT ![c] = s]
        /\ s = "handed" => home' = [home EXCEPT ![c] = next]
        /\ s # "handed" => home' = home
        /\ s # "leaked" => main' = main /\ UNCHANGED epollVars
  BY DEF TakeSteps, Refuse, HandOver, SetNonBlockingFails
<1>3. /\ backlog' \in Seq(Conns) /\ conn[c] = "backlog"
      /\ \A k \in DOMAIN backlog' :
           /\ k + 1 \in DOMAIN backlog /\ backlog'[k] = backlog[k + 1]
           /\ backlog'[k] # c
  BY <1>1, TailOfBacklog DEF IInv, TypeOK
<1>4. TypeOK'
  <2>1. next' \in Threads
    BY <1>1, ServerAssumption DEF IInv, TypeOK, Threads
  <2>2. fd' \in [Conns -> 0..limit']
    <3>1. AcceptFd \in 0..limit
      BY <1>1, AcceptFdFree, ServerAssumption DEF IInv, TypeOK
    <3> QED
      BY <1>1, <3>1 DEF TakeSteps, Refuse, HandOver, SetNonBlockingFails, IInv,
         TypeOK
  <2>3. home' \in [Conns -> 0..NumThreads]
    BY <1>2, ServerAssumption DEF IInv, TypeOK, Threads
  <2>4. watched' \in BOOLEAN /\ ready' \in BOOLEAN
    BY DEF TakeSteps, Refuse, HandOver, SetNonBlockingFails, epollVars, IInv,
       TypeOK
  <2>5. conn' \in [Conns -> {"new", "backlog", "handed", "open", "refused",
                             "leaked", "closed"}]
    BY <1>2 DEF IInv, TypeOK
  <2> QED BY <1>1, <1>3, <2>1, <2>2, <2>3, <2>4, <2>5 DEF IInv, TypeOK, threadVars
<1>5. StartedInOrder' /\ PublishedExist' /\ NobodyQuits'
  BY <1>1 DEF IInv, StartedInOrder, PublishedExist, NobodyQuits, Starting,
     Accepting, Destroying, threadVars
<1>6. Homes'
  BY <1>1, <1>2 DEF IInv, TypeOK, Homes, Accepting
<1>7. BacklogWaits'
  <2>1. \A k \in DOMAIN backlog' : conn'[backlog'[k]] = "backlog"
    BY <1>2, <1>3 DEF IInv, TypeOK, BacklogWaits
  <2>2. \A j, k \in DOMAIN backlog' : backlog'[j] = backlog'[k] => j = k
    BY <1>3 DEF IInv, TypeOK, BacklogWaits
  <2> QED BY <2>1, <2>2 DEF BacklogWaits
<1>8. Watching' /\ NothingStranded'
  <2>1. CASE s = "leaked"
    BY <1>2, <2>1 DEF Watching, NothingStranded, Leaked, IInv, TypeOK
  <2>2. CASE s # "leaked"
    <3>1. Leaked => Leaked'
      BY <1>2, <1>3 DEF Leaked, IInv, TypeOK
    <3> QED
      BY <1>1, <1>2, <2>2, <3>1 DEF Watching, NothingStranded, Accepting, IInv,
         epollVars
  <2> QED BY <2>1, <2>2
<1> QED BY <1>4, <1>5, <1>6, <1>7, <1>8 DEF IInv

LEMMA PollIInv == ASSUME IInv, Register \/ Poll \/ AcceptEnds PROVE IInv'
<1>1. /\ UNCHANGED <<idx, limit, threadVars, backlog, conn, fd, home, next>>
      /\ main \in {"register", "poll", "accept"} /\ main' \in {"poll", "accept"}
  BY DEF Register, Poll, AcceptEnds, epollVars, connVars
<1>2. watched' \in BOOLEAN /\ ready' \in BOOLEAN /\ starved' \in BOOLEAN
  BY DEF Register, Poll, AcceptEnds, epollVars, connVars, IInv, TypeOK
<1>3. TypeOK'
  BY <1>1, <1>2 DEF IInv, TypeOK, threadVars
<1>4. StartedInOrder' /\ PublishedExist' /\ NobodyQuits' /\ Homes' /\ BacklogWaits'
  BY <1>1 DEF IInv, StartedInOrder, PublishedExist, NobodyQuits, Homes,
     BacklogWaits, Starting, Accepting, Destroying, threadVars
<1>5. Watching'
  BY <1>1 DEF Register, Poll, AcceptEnds, epollVars, IInv, Watching, Accepting,
     Leaked
<1>6. NothingStranded'
  BY <1>1, <1>5 DEF Register, Poll, AcceptEnds, epollVars, NothingStranded,
     Watching, Accepting
<1> QED BY <1>3, <1>4, <1>5, <1>6 DEF IInv

LEMMA ConnIInv ==
  ASSUME IInv, NEW c \in Conns, Arrive(c) \/ TakeOver(c) \/ CloseConn(c)
  PROVE  IInv'
<1>1. /\ UNCHANGED <<main, idx, limit, threadVars, watched, home, next, starved>>
      /\ conn[c] # "leaked"
  BY DEF Arrive, TakeOver, CloseConn, epollVars
<1>2. PICK s \in {"backlog", "open", "closed"} :
        /\ conn' = [conn EXCEPT ![c] = s]
        /\ s = "backlog" => conn[c] = "new" /\ backlog' = Append(backlog, c)
                            /\ ready' = (ready \/ watched)
        /\ s # "backlog" => backlog' = backlog /\ ready' = ready
        /\ s = "open" => conn[c] = "handed"
        /\ s # "backlog" => conn[c] # "backlog"
        /\ fd' = fd \/ fd' = [fd EXCEPT ![c] = 0]
  BY DEF Arrive, TakeOver, CloseConn, epollVars
<1>3. TypeOK'
  <2>1. ready' \in BOOLEAN
    BY <1>2 DEF IInv, TypeOK
  <2>2. backlog' \in Seq(Conns)
    <3>1. backlog' = backlog \/ backlog' = Append(backlog, c)
      BY <1>2
    <3>2. backlog \in Seq(Conns)
      BY DEF IInv, TypeOK
    <3> QED BY <3>1, <3>2
  <2>3. fd' \in [Conns -> 0..limit]
    <3>1. limit \in Nat /\ fd \in [Conns -> 0..limit]
      BY ServerAssumption DEF IInv, TypeOK
    <3>2. fd' = fd \/ fd' = [fd EXCEPT ![c] = 0]
      BY <1>2
    <3> QED BY <3>1, <3>2
  <2>4. conn' \in [Conns -> {"new", "backlog", "handed", "open", "refused",
                             "leaked", "closed"}]
    BY <1>2 DEF IInv, TypeOK
  <2> QED BY <1>1, <2>1, <2>2, <2>3, <2>4 DEF IInv, TypeOK, threadVars
<1>4. StartedInOrder' /\ PublishedExist' /\ NobodyQuits'
  BY <1>1 DEF IInv, StartedInOrder, PublishedExist, NobodyQuits, Starting,
     Accepting, Destroying, threadVars
<1>5. Homes'
  BY <1>1, <1>2 DEF IInv, TypeOK, Homes, Accepting, Destroying
<1>6. BacklogWaits'
  <2>1. CASE s = "backlog"
    <3>1. backlog' = Append(backlog, c) /\ conn[c] = "new"
      BY <1>2, <2>1
    <3>2. backlog \in Seq(Conns) /\ conn' = [conn EXCEPT ![c] = "backlog"]
      BY <1>2, <2>1 DEF IInv, TypeOK
    <3>3. \A k \in DOMAIN backlog' :
            IF k \in DOMAIN backlog THEN backlog'[k] = backlog[k]
            ELSE k = Len(backlog) + 1 /\ backlog'[k] = c
      BY <3>1, <3>2
    <3>4. \A k \in DOMAIN backlog :
            backlog[k] \in Conns /\ conn[backlog[k]] = "backlog"
      BY <3>2 DEF IInv, BacklogWaits
    <3>5. \A k \in DOMAIN backlog' : conn'[backlog'[k]] = "backlog"
      BY <3>2, <3>3, <3>4 DEF IInv, TypeOK
    <3>6. \A j, k \in DOMAIN backlog' : backlog'[j] = backlog'[k] => j = k
      BY <3>1, <3>3, <3>4 DEF IInv, BacklogWaits
    <3> QED BY <3>5, <3>6 DEF BacklogWaits
  <2>2. CASE s # "backlog"
    BY <1>2, <2>2 DEF IInv, TypeOK, BacklogWaits
  <2> QED BY <2>1, <2>2
<1>7. Leaked' = Leaked
  BY <1>1, <1>2 DEF Leaked, IInv, TypeOK
<1>8. Watching'
  BY <1>1, <1>7 DEF IInv, Watching, Accepting
<1>9. NothingStranded'
  <2> SUFFICES ASSUME main' = "poll", ~Leaked'
               PROVE  watched' /\ (backlog' # <<>> /\ ~starved' => ready')
    BY DEF NothingStranded
  <2>1. main = "poll" /\ ~Leaked /\ watched /\ watched' = watched
        /\ starved' = starved
    BY <1>1, <1>7 DEF IInv, NothingStranded
  <2>2. ready' \/ (backlog' = backlog /\ ready' = ready)
    BY <1>2, <2>1
  <2>3. backlog # <<>> /\ ~starved => ready
    BY <2>1 DEF IInv, NothingStranded
  <2> QED BY <2>1, <2>2, <2>3
<1> QED BY <1>3, <1>4, <1>5, <1>6, <1>8, <1>9 DEF IInv

LEMMA NextIInv == IInv /\ [Next]_vars => IInv'
<1> SUFFICES ASSUME IInv, [Next]_vars PROVE IInv'
  OBVIOUS
<1>1. CASE UNCHANGED vars
  BY <1>1 DEF vars, threadVars, epollVars, connVars, IInv, TypeOK,
     StartedInOrder, PublishedExist, NobodyQuits, Homes, BacklogWaits, Watching,
     NothingStranded, Starting, Accepting, Destroying, Leaked
<1>2. CASE Next
  BY <1>2, StartIInv, LoopIInv, EndIInv, TakeIInv, PollIInv, ConnIInv
     DEF Next, MainStep, AcceptStep, ThreadStep, StartSteps, LoopSteps, EndSteps,
         TakeSteps
<1> QED BY <1>1, <1>2

LEMMA Invariance == Spec => []IInv
<1>1. Init => IInv BY InitIInv
<1>2. IInv /\ [Next]_vars => IInv' BY NextIInv
<1> QED BY <1>1, <1>2, PTL DEF Spec

(* The server's variables keep their types; in particular accept() always  *)
(* has a least free descriptor to return, and next_ stays in the ring.     *)
THEOREM TypeCorrect == Spec => []TypeOK
<1>1. IInv => TypeOK BY DEF IInv
<1> QED BY <1>1, Invariance, PTL

(* The handshake of startLoop is enough: every connection is handed to a   *)
(* loop that exists, until the destruction begins.                         *)
THEOREM HandedToLoops == Spec => []LoopsExist
<1>1. IInv => LoopsExist
  BY DEF IInv, StartedInOrder, Homes, LoopsExist
<1> QED BY <1>1, Invariance, PTL

(* An acceptor that waits has its socket watched and an edge to come for   *)
(* every backlog, but for the two failures the property names.             *)
THEOREM NoneStranded == Spec => []NothingStranded
<1>1. IInv => NothingStranded BY DEF IInv
<1> QED BY <1>1, Invariance, PTL
=============================================================================
