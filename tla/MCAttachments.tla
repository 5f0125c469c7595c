--------------------------- MODULE MCAttachments ---------------------------
(* Small instances of Attachments for TLC. *)
EXTENDS Attachments, TLC

Symmetry == Permutations(Request) \cup Permutations(Key) \cup Permutations(Task)
=============================================================================
