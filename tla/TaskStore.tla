----------------------------- MODULE TaskStore -----------------------------
(***************************************************************************)
(* What the task service promises its callers: a table of tasks in which   *)
(* every accepted write is one indivisible read-modify-write of the        *)
(* current row.  An update replaces the text and perhaps the priority and  *)
(* leaves the status alone; a transition moves the status along a legal    *)
(* edge and leaves everything else alone.                                  *)
(***************************************************************************)
EXTENDS Integers

CONSTANTS Task,     \* task ids
          User,     \* user ids
          Text,     \* titles with their descriptions
          Priority, \* the priorities
          Absent    \* what a task that is not in the table reads as

VARIABLES tasks,    \* the tasks table
          used      \* ids given out so far

Status == {"pending", "in_progress", "done", "cancelled"}

Row == [user : User, text : Text, status : Status, priority : Priority,
        version : Nat \ {0}]

\* The only moves a status may make.
legalTransitions ==
  [from \in Status |->
     CASE from = "pending"     -> {"in_progress", "done", "cancelled"}
       [] from = "in_progress" -> {"pending", "done", "cancelled"}
       [] from = "done"        -> {"pending", "in_progress"}
       [] from = "cancelled"   -> {"pending"}]

Init == tasks = [t \in Task |-> Absent] /\ used = {}

\* A new task is pending, at version 1, under an id never used before.
Create(t, u, text, priority) ==
  /\ t \notin used
  /\ used' = used \cup {t}
  /\ tasks' = [tasks EXCEPT ![t] =
       [user |-> u, text |-> text, status |-> "pending",
        priority |-> priority, version |-> 1]]

Update(t, text, priority) ==
  /\ tasks[t] # Absent
  /\ tasks' = [tasks EXCEPT ![t] =
       [tasks[t] EXCEPT !.text = text, !.priority = priority,
                        !.version = tasks[t].version + 1]]
  /\ UNCHANGED used

Transition(t, target) ==
  /\ tasks[t] # Absent
  /\ target \in legalTransitions[tasks[t].status]
  /\ tasks' = [tasks EXCEPT ![t] =
       [tasks[t] EXCEPT !.status = target,
                        !.version = tasks[t].version + 1]]
  /\ UNCHANGED used

Delete(t) ==
  /\ tasks[t] # Absent
  /\ tasks' = [tasks EXCEPT ![t] = Absent]
  /\ UNCHANGED used

Next ==
  \E t \in Task :
    \/ \E u \in User, text \in Text, priority \in Priority :
         Create(t, u, text, priority)
    \/ \E text \in Text, priority \in Priority : Update(t, text, priority)
    \/ \E target \in Status : Transition(t, target)
    \/ Delete(t)

Spec == Init /\ [][Next]_<<tasks, used>>
=============================================================================
