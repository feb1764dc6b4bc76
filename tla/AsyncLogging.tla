--------------------------- MODULE AsyncLogging ---------------------------
(***************************************************************************)
(* The asynchronous logger (base/AsyncLogging.h, base/AsyncLogging.cpp).   *)
(* Any thread appends lines to currentBuffer_ under mutex_; the logger     *)
(* thread takes the filled buffers, writes them to the LogFile without the *)
(* lock and reuses two of them.                                            *)
(*                                                                         *)
(* append() is one critical section, so which thread calls it does not     *)
(* matter and it is one step.  A line is its number in the order of the    *)
(* calls, all lines have the same length, and a FixedBuffer takes Capacity *)
(* of them.  Buffers have an identity: "new Buffer" is any buffer that no  *)
(* shared_ptr refers to.                                                   *)
(***************************************************************************)
EXTENDS Naturals, Sequences, Functions

CONSTANTS
  Buffers,    (* bound: the memory there is for buffers          *)
  NoBuffer,   (* an empty shared_ptr                             *)
  Capacity,   (* lines in a buffer                               *)
  DropAbove,  (* 25: buffers the logger thread writes at a time  *)
  MaxLines    (* bound: calls of append()                        *)

ASSUME LoggingAssumption ==
  /\ NoBuffer \notin Buffers
  /\ \E four \in [1..4 -> Buffers] : IsInjective(four)
  /\ Capacity \in Nat \ {0}
  /\ DropAbove \in Nat \ {0, 1}
  /\ MaxLines \in Nat

VARIABLES
  pc,              (* where the logger thread is                     *)
  running,         (* running_                                       *)
  currentBuffer,   (* currentBuffer_                                 *)
  nextBuffer,      (* nextBuffer_                                    *)
  buffers,         (* buffers_                                       *)
  newBuffer1,      (* the two spare buffers and the batch,           *)
  newBuffer2,      (* locals of threadFunc                           *)
  buffersToWrite,
  written,         (* how many of buffersToWrite have been written   *)
  content,         (* the lines in each buffer                       *)
  file,            (* the lines handed to the LogFile                *)
  flushed,         (* how many of them it has flushed                *)
  appended         (* history: the calls of append() so far          *)

sharedVars == <<currentBuffer, nextBuffer, buffers>>
batchVars  == <<newBuffer1, newBuffer2, buffersToWrite, written>>
fileVars   == <<file, flushed>>
vars == <<pc, running, sharedVars, batchVars, content, fileVars, appended>>

Lines == 1..MaxLines
Pointers == Buffers \cup {NoBuffer}

TypeOK ==
  /\ pc \in {"none", "starting", "opening", "test", "lock", "waiting", "trim",
             "write", "done"}
  /\ running \in BOOLEAN
  /\ currentBuffer \in Buffers
  /\ nextBuffer \in Pointers
  /\ buffers \in Seq(Buffers)
  /\ newBuffer1 \in Pointers /\ newBuffer2 \in Pointers
  /\ buffersToWrite \in Seq(Buffers)
  /\ written \in Nat
  /\ content \in [Buffers -> Seq(Lines)]
  /\ \A b \in Buffers : Len(content[b]) <= Capacity
  /\ file \in Seq(Lines)
  /\ flushed \in Nat
  /\ appended \in 0..MaxLines

(* The buffers some shared_ptr refers to, and "new Buffer". *)
InUse == {currentBuffer, nextBuffer, newBuffer1, newBuffer2}
         \cup Range(buffers) \cup Range(buffersToWrite)
Fresh(used) == CHOOSE b \in Buffers : b \notin used

Init ==
  /\ pc = "none"
  /\ running = FALSE
  /\ currentBuffer = Fresh({})
  /\ nextBuffer = Fresh({currentBuffer})
  /\ buffers = <<>>
  /\ newBuffer1 = NoBuffer /\ newBuffer2 = NoBuffer
  /\ buffersToWrite = <<>> /\ written = 0
  /\ content = [b \in Buffers |-> <<>>]
  /\ file = <<>> /\ flushed = 0
  /\ appended = 0

----------------------------------------------------------------------------
(* The owner: once_init, and whoever destroys the logger. *)

(* start(), up to the latch.  Logging.cpp lets nobody append before.       *)
Start ==
  /\ pc = "none"
  /\ running' = TRUE
  /\ pc' = "starting"
  /\ UNCHANGED <<sharedVars, batchVars, content, fileVars, appended>>

(* stop(), up to the join.  Its notify may find nobody waiting: it is lost *)
(* then, and the logger thread sleeps until its timeout.                   *)
Stop ==
  /\ pc \notin {"none", "starting"}
  /\ running
  /\ running' = FALSE
  /\ UNCHANGED <<pc, sharedVars, batchVars, content, fileVars, appended>>

----------------------------------------------------------------------------
(* append(), by any thread; not after the logger thread has been joined. *)

AppendLine ==
  /\ pc \notin {"none", "starting", "done"}
  /\ appended < MaxLines
  /\ appended' = appended + 1
  /\ UNCHANGED <<pc, running, batchVars, fileVars>>

(* Mutant: avail() >= len. *)
AppendInPlaceTight ==
  /\ AppendLine
  /\ Len(content[currentBuffer]) <= Capacity
  /\ content' = [content EXCEPT ![currentBuffer] = Append(@, appended')]
  /\ UNCHANGED sharedVars

(* The line fits into currentBuffer_. *)
AppendInPlace ==
  /\ AppendLine
  /\ Len(content[currentBuffer]) < Capacity
  /\ content' = [content EXCEPT ![currentBuffer] = Append(@, appended')]
  /\ UNCHANGED sharedVars

(* It does not: nextBuffer_ takes its place. *)
AppendToNext ==
  /\ AppendLine
  /\ Len(content[currentBuffer]) = Capacity
  /\ nextBuffer # NoBuffer
  /\ buffers' = Append(buffers, currentBuffer)
  /\ currentBuffer' = nextBuffer
  /\ nextBuffer' = NoBuffer
  /\ content' = [content EXCEPT ![nextBuffer] = Append(@, appended')]

(* It does not, and nextBuffer_ is used up: a new Buffer. *)
AppendToNew ==
  /\ AppendLine
  /\ Len(content[currentBuffer]) = Capacity
  /\ nextBuffer = NoBuffer
  /\ ~(Buffers \subseteq InUse)
  /\ buffers' = Append(buffers, currentBuffer)
  /\ currentBuffer' = Fresh(InUse)
  /\ content' = [content EXCEPT ![Fresh(InUse)] = <<appended'>>]
  /\ UNCHANGED nextBuffer

----------------------------------------------------------------------------
(* threadFunc *)

(* The latch: start() returns. *)
Enter ==
  /\ pc = "starting"
  /\ pc' = "opening"
  /\ UNCHANGED <<running, sharedVars, batchVars, content, fileVars, appended>>

(* The LogFile and the two spare buffers. *)
Open ==
  /\ pc = "opening"
  /\ ~(Buffers \subseteq InUse)
  /\ newBuffer1' = Fresh(InUse)
  /\ ~(Buffers \subseteq InUse \cup {newBuffer1'})
  /\ newBuffer2' = Fresh(InUse \cup {newBuffer1'})
  /\ content' = [content EXCEPT ![newBuffer1'] = <<>>, ![newBuffer2'] = <<>>]
  /\ pc' = "test"
  /\ UNCHANGED <<running, sharedVars, buffersToWrite, written, fileVars, appended>>

(* while (running_), read without the lock; the last flush. *)
TestRunning ==
  /\ pc = "test"
  /\ IF running THEN pc' = "lock" /\ UNCHANGED flushed
                ELSE pc' = "done" /\ flushed' = Len(file)
  /\ UNCHANGED <<running, sharedVars, batchVars, content, file, appended>>

(* waitForSeconds gives up mutex_. *)
WaitForBuffers ==
  /\ pc = "lock"
  /\ buffers = <<>>
  /\ pc' = "waiting"
  /\ UNCHANGED <<running, sharedVars, batchVars, content, fileVars, appended>>

(* Mutant: wait() without a timeout. *)
SwapUntimed ==
  /\ \/ pc = "lock" /\ buffers # <<>>
     \/ pc = "waiting" /\ buffers # <<>>
  /\ buffersToWrite' = Append(buffers, currentBuffer)
  /\ buffers' = <<>>
  /\ currentBuffer' = newBuffer1
  /\ newBuffer1' = NoBuffer
  /\ IF nextBuffer = NoBuffer
       THEN nextBuffer' = newBuffer2 /\ newBuffer2' = NoBuffer
       ELSE UNCHANGED <<nextBuffer, newBuffer2>>
  /\ pc' = "trim"
  /\ UNCHANGED <<running, written, content, fileVars, appended>>

(* The rest of the critical section.  The wait may end for a notify, a     *)
(* timeout or no reason at all; nothing is tested after it.                *)
Swap ==
  /\ \/ pc = "lock" /\ buffers # <<>>
     \/ pc = "waiting"
  /\ buffersToWrite' = Append(buffers, currentBuffer)
  /\ buffers' = <<>>
  /\ currentBuffer' = newBuffer1
  /\ newBuffer1' = NoBuffer
  /\ IF nextBuffer = NoBuffer
       THEN nextBuffer' = newBuffer2 /\ newBuffer2' = NoBuffer
       ELSE UNCHANGED <<nextBuffer, newBuffer2>>
  /\ pc' = "trim"
  /\ UNCHANGED <<running, written, content, fileVars, appended>>

(* Mutant: >= for >. *)
TrimEarly ==
  /\ pc = "trim"
  /\ buffersToWrite' = IF Len(buffersToWrite) >= DropAbove
                         THEN SubSeq(buffersToWrite, 1, 2) ELSE buffersToWrite
  /\ pc' = "write"
  /\ UNCHANGED <<running, sharedVars, newBuffer1, newBuffer2, written, content,
                 fileVars, appended>>

(* Of too long a batch only the first two buffers are kept. *)
Trim ==
  /\ pc = "trim"
  /\ buffersToWrite' = IF Len(buffersToWrite) > DropAbove
                         THEN SubSeq(buffersToWrite, 1, 2) ELSE buffersToWrite
  /\ pc' = "write"
  /\ UNCHANGED <<running, sharedVars, newBuffer1, newBuffer2, written, content,
                 fileVars, appended>>

(* output.append of one buffer, without the lock. *)
WriteBuffer ==
  /\ pc = "write"
  /\ written < Len(buffersToWrite)
  /\ file' = file \o content[buffersToWrite[written + 1]]
  /\ written' = written + 1
  /\ UNCHANGED <<pc, running, sharedVars, newBuffer1, newBuffer2,
                 buffersToWrite, content, flushed, appended>>

(* What the two spares are after the batch was written, with the position  *)
(* in it that newBuffer2 is refilled from.                                 *)
Refill(second) ==
  LET last == IF Len(buffersToWrite) > 2 THEN 2 ELSE Len(buffersToWrite)
  IN  /\ newBuffer1' = IF newBuffer1 = NoBuffer THEN buffersToWrite[last]
                                                ELSE newBuffer1
      /\ newBuffer2' = IF newBuffer2 = NoBuffer THEN buffersToWrite[second]
                                                ELSE newBuffer2

EndIteration ==
  /\ pc = "write"
  /\ written = Len(buffersToWrite)
  /\ buffersToWrite' = <<>>
  /\ written' = 0
  /\ flushed' = Len(file)
  /\ pc' = "test"
  /\ UNCHANGED <<running, sharedVars, file, appended>>

(* Mutant: back() without pop_back(). *)
RecycleTwice ==
  /\ EndIteration
  /\ Refill(IF Len(buffersToWrite) > 2 THEN 2 ELSE Len(buffersToWrite))
  /\ content' = [content EXCEPT ![newBuffer1'] = <<>>, ![newBuffer2'] = <<>>]

(* Mutant: the second spare is not reset. *)
RecycleDirty ==
  /\ EndIteration
  /\ Refill(1)
  /\ content' = [content EXCEPT ![newBuffer1'] = <<>>]

(* The end of an iteration: spare buffers that were given away are taken   *)
(* from the back of the batch, cut to two, and reset; the file is flushed. *)
Recycle ==
  /\ EndIteration
  /\ Refill(1)
  /\ content' = [content EXCEPT ![newBuffer1'] = <<>>, ![newBuffer2'] = <<>>]

----------------------------------------------------------------------------
LoggerStep ==
  \/ Enter \/ Open \/ TestRunning \/ WaitForBuffers \/ Swap \/ Trim
  \/ WriteBuffer \/ Recycle

Next ==
  \/ LoggerStep
  \/ Start \/ Stop
  \/ AppendInPlace \/ AppendToNext \/ AppendToNew

Spec == Init /\ [][Next]_vars

(* The logger thread is scheduled and its waits time out.  Nobody has to   *)
(* log or to stop the logger.                                              *)
FairSpec == Spec /\ WF_vars(LoggerStep)

----------------------------------------------------------------------------
(* The assertions of threadFunc (AsyncLogging.cpp:44, 54-56, 74, 98, 105): *)
(* the spare buffers are always there and empty when an iteration begins,  *)
(* which rests on append() using up nextBuffer_ only together with a       *)
(* buffer it leaves in buffers_.                                           *)
AssertionsHold ==
  /\ pc = "starting" => running
  /\ pc \in {"lock", "waiting"} =>
       /\ newBuffer1 # NoBuffer /\ content[newBuffer1] = <<>>
       /\ newBuffer2 # NoBuffer /\ content[newBuffer2] = <<>>
       /\ buffersToWrite = <<>>
  /\ pc = "trim" => buffersToWrite # <<>>
  /\ pc = "write" /\ newBuffer1 = NoBuffer =>
       Len(buffersToWrite) >= (IF newBuffer2 = NoBuffer THEN 2 ELSE 1)

(* The logger thread reads its batch and resets its spares without the     *)
(* lock: none of those is a buffer that append() writes to or that is      *)
(* still to be taken, and no two pointers share a buffer.                  *)
BuffersNotShared ==
  /\ Range(buffersToWrite) \cap
       (Range(buffers) \cup {newBuffer1, newBuffer2, currentBuffer, nextBuffer}) = {}
  /\ Range(buffers) \cap {newBuffer1, newBuffer2, currentBuffer, nextBuffer} = {}
  /\ currentBuffer \notin {nextBuffer, newBuffer1, newBuffer2}
  /\ newBuffer1 # NoBuffer => newBuffer1 \notin {newBuffer2, nextBuffer}
  /\ newBuffer2 # NoBuffer => newBuffer2 # nextBuffer
  /\ IsInjective(buffers) /\ IsInjective(buffersToWrite)

(* stop() ends the logger thread, so that its join returns: also when the  *)
(* store to running_ and the notify, both made without the lock, come just *)
(* before the logger thread starts to wait.                                *)
StopFinishes == (~running /\ pc # "none") ~> pc = "done"

(* Log的设计.txt:10 says that AsyncLogging writes the data of the buffers    *)
(* to the LogFile when the time is up or when they have been filled.       *)
BuffersAreWritten ==
  \A n \in Lines :
    appended >= n ~> ~running \/ \E i \in DOMAIN file : file[i] = n
============================================================================
