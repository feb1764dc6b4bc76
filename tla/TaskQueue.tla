----------------------------- MODULE TaskQueue -----------------------------
(***************************************************************************)
(* What an EventLoop promises to a thread that hands it a callback:        *)
(* callbacks are executed by the loop one at a time, each exactly once, in *)
(* the order in which they were handed over.  Nothing is said of threads,  *)
(* locks, eventfds or batches; EventLoop.tla implements this module.       *)
(***************************************************************************)
EXTENDS Sequences

CONSTANT Functors   (* the callbacks that may be handed over *)

VARIABLES
  queue,            (* handed over, not yet executed, oldest first *)
  done              (* executed, in order of execution             *)

taskVars == <<queue, done>>

Init ==
  /\ queue = <<>>
  /\ done = <<>>

Submit(f) ==
  /\ queue' = Append(queue, f)
  /\ UNCHANGED done

Execute ==
  /\ queue # <<>>
  /\ done' = Append(done, Head(queue))
  /\ queue' = Tail(queue)

Next == Execute \/ \E f \in Functors : Submit(f)

Spec == Init /\ [][Next]_taskVars
============================================================================
