------------------------- MODULE MCAccountDeletion -------------------------
(* AccountDeletion for TLC: tasks are numbered in the order of creation.    *)
EXTENDS AccountDeletion

CONSTANT MaxTasks
MCTask == 1..MaxTasks
=============================================================================
