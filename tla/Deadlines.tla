------------------------------ MODULE Deadlines -----------------------------
(***************************************************************************)
(* What the timers of a loop promise: a connection may carry a deadline;   *)
(* timing out closes it, and never before that deadline.                   *)
(***************************************************************************)
EXTENDS Naturals

CONSTANTS
  Conns,     (* connections                                                *)
  Timeouts,  (* the lengths a timer may be given, in ticks                 *)
  Never      (* the deadline of a connection without a timer               *)

VARIABLES
  now,  (* real time                                                       *)
  due,  (* the deadline of each connection, or Never                       *)
  open  (* the connections that are not closed                             *)

vars == <<now, due, open>>

Init == now \in Nat /\ due = [c \in Conns |-> Never] /\ open = Conns

Tick == now' = now + 1 /\ UNCHANGED <<due, open>>

(* The connection has been active: its deadline counts from now. *)
Arm(c) ==
  /\ c \in open
  /\ \E t \in Timeouts : due' = [due EXCEPT ![c] = now + t]
  /\ UNCHANGED <<now, open>>

Disarm(c) ==
  /\ c \in open
  /\ due' = [due EXCEPT ![c] = Never]
  /\ UNCHANGED <<now, open>>

(* The connection ends of its own accord. *)
Finish(c) ==
  /\ due' = [due EXCEPT ![c] = Never]
  /\ open' = open \ {c}
  /\ UNCHANGED now

TimeOut(c) ==
  /\ due[c] # Never
  /\ due[c] <= now
  /\ Finish(c)

(* Finish is a step of the handlers, TimeOut one of handleExpiredEvent: the *)
(* first is allowed only while no timer is armed, as every handler begins  *)
(* by detaching it.                                                        *)
Next ==
  \/ Tick
  \/ \E c \in Conns : Arm(c) \/ Disarm(c) \/ TimeOut(c)
  \/ \E c \in Conns : due[c] = Never /\ Finish(c)

Spec == Init /\ [][Next]_vars
=============================================================================
