------------------------------ MODULE LogPipe ------------------------------
(***************************************************************************)
(* What AsyncLogging promises to those who log: lines get into the file in *)
(* the order in which they were appended, each once.  When the backlog has *)
(* grown beyond Limit lines, a middle part of it may be thrown away: its   *)
(* oldest Kept lines never are, nor is anything from a shorter backlog.    *)
(* Nothing is said of buffers, threads or times; AsyncLogging.tla          *)
(* implements this module.                                                 *)
(***************************************************************************)
EXTENDS Naturals, Sequences

CONSTANTS
  Limit,      (* the backlog, in lines, up to which nothing is lost *)
  Kept        (* the part of a longer one that is kept              *)

VARIABLES
  appended,   (* how many lines have been appended          *)
  backlog,    (* appended, not yet in the file, oldest first *)
  file        (* the lines in the file                      *)

pipeVars == <<appended, backlog, file>>

Init == appended = 0 /\ backlog = <<>> /\ file = <<>>

Accept ==
  /\ appended' = appended + 1
  /\ backlog' = Append(backlog, appended')
  /\ UNCHANGED file

Write ==
  /\ \E k \in 1..Len(backlog) :
       /\ file' = file \o SubSeq(backlog, 1, k)
       /\ backlog' = SubSeq(backlog, k + 1, Len(backlog))
  /\ UNCHANGED appended

Discard ==
  /\ \E k \in (Limit + 1)..Len(backlog) :
       backlog' = SubSeq(backlog, 1, Kept) \o SubSeq(backlog, k + 1, Len(backlog))
  /\ UNCHANGED <<appended, file>>

Next == Accept \/ Write \/ Discard

Spec == Init /\ [][Next]_pipeVars
============================================================================
