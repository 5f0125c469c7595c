----------------------------- MODULE SchemaLog -----------------------------
(***************************************************************************)
(* What the migrations promise.  A migration comes into effect together     *)
(* with its record, and its record goes together with its effect.  As long  *)
(* as the log is orderly, migrations come in order and the last one goes    *)
(* first, so that the schema is the result of the first few of them.        *)
(***************************************************************************)
EXTENDS Naturals

CONSTANT N  \* number of embedded migrations

VARIABLES
  applied,    \* migrations in effect
  recorded,   \* migrations the log names
  orderly

log == <<applied, recorded, orderly>>

Init == applied = {} /\ recorded = {} /\ orderly = TRUE

Up(v) ==
  /\ v \notin recorded
  /\ applied' = applied \cup {v} /\ recorded' = recorded \cup {v}
  /\ orderly => applied = 1..(v - 1) /\ recorded = 1..(v - 1)
  /\ UNCHANGED orderly

Down(v) ==
  /\ v \in recorded
  /\ applied' \subseteq applied \ {v} /\ recorded' = recorded \ {v}
  /\ orderly' \in BOOLEAN
  /\ orderly' => /\ orderly
                 /\ applied' = 1..(v - 1) /\ recorded' = 1..(v - 1)

Next == \E v \in 1..N : Up(v) \/ Down(v)

Spec == Init /\ [][Next]_log
=============================================================================
