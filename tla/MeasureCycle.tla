---------------------------- MODULE MeasureCycle ----------------------------
(***************************************************************************)
(* What the data tasks promise to the rest of the server when autosave is  *)
(* off: a measurement is running from the client's START until the last    *)
(* agent has ended; starts are counted only while it is running and some   *)
(* agent has not ended; and the measure appears in the store exactly once, *)
(* at the end, with all the starts counted and only if there are any.      *)
(***************************************************************************)
EXTENDS Naturals, Sequences

CONSTANT Agent  \* the agents of the server

VARIABLES
  phase,      \* "IDLE" or "RUNNING"
  ended,      \* agents that have ended the running measurement
  pending,    \* starts of the measure so far
  published   \* number of starts of every measure in the store

vars == <<phase, ended, pending, published>>

Init ==
  /\ phase = "IDLE"
  /\ ended = {}
  /\ pending = 0
  /\ published = <<>>

Begin ==
  /\ phase = "IDLE"
  /\ phase' = "RUNNING"
  /\ UNCHANGED <<ended, pending, published>>

AddStart ==
  /\ phase = "RUNNING"
  /\ ended # Agent
  /\ pending' = pending + 1
  /\ UNCHANGED <<phase, ended, published>>

EndOne(a) ==
  /\ phase = "RUNNING"
  /\ a \notin ended
  /\ ended \cup {a} # Agent
  /\ ended' = ended \cup {a}
  /\ UNCHANGED <<phase, pending, published>>

Finish(a) ==
  /\ phase = "RUNNING"
  /\ a \notin ended
  /\ ended \cup {a} = Agent
  /\ phase' = "IDLE"
  /\ ended' = {}
  /\ pending' = 0
  /\ published' = IF pending > 0 THEN Append(published, pending) ELSE published

Next ==
  \/ Begin
  \/ AddStart
  \/ \E a \in Agent : EndOne(a) \/ Finish(a)

Spec == Init /\ [][Next]_vars
=============================================================================
