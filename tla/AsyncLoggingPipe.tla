------------------------- MODULE AsyncLoggingPipe --------------------------
(***************************************************************************)
(* AsyncLogging as a pipe from append() to the LogFile: where the lines    *)
(* are that have not been written yet, and the refinement of LogPipe.      *)
(***************************************************************************)
EXTENDS AsyncLogging, SequencesExt

(* The lines of some buffers; those of the rest of the batch, of buffers_  *)
(* and of currentBuffer_: appended, and not yet written or thrown away.    *)
LinesOf(bs) == FlattenSeq([i \in DOMAIN bs |-> content[bs[i]]])

Backlog ==
  LinesOf(SubSeq(buffersToWrite, written + 1, Len(buffersToWrite)))
    \o LinesOf(buffers) \o content[currentBuffer]

(* However few lines are logged, none waits for ever in a buffer, nor in   *)
(* the LogFile for its flush, unless the logger is stopped.  (Which of     *)
(* them may be thrown away instead is what ImplementsLogPipe says.)        *)
NoLineWaits ==
  \A n \in Lines :
    appended >= n ~>
      \/ ~running
      \/ n \notin Range(Backlog \o SubSeq(file, flushed + 1, Len(file)))

(* Refinement. *)
Pipe == INSTANCE LogPipe WITH backlog <- Backlog,
                              Limit <- DropAbove * Capacity,
                              Kept <- 2 * Capacity

(* Lines are written in order, each once, and none is lost from a backlog  *)
(* of at most DropAbove buffers.                                           *)
ImplementsLogPipe == Pipe!Spec
============================================================================
