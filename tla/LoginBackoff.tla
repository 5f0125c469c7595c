---------------------------- MODULE LoginBackoff ----------------------------
(***************************************************************************)
(* Service.Authenticate with the progressive delay of one API process.      *)
(* The delay is read before the credential is looked at, the outcome is     *)
(* recorded after it, and the delay is slept before the answer: nothing is  *)
(* held in between, so attempts against one account overlap freely.         *)
(*                                                                          *)
(* Durations are in units of loginBackoffBase (250 ms); the shift that      *)
(* computes them is done on the 64-bit nanosecond value.                    *)
(***************************************************************************)
EXTENDS Naturals, FiniteSets

CONSTANTS
  Attempt,        \* slots for attempts in progress
  Email,          \* normalised addresses, registered or not
  IdleReset,      \* loginBackoffIdleReset, in ticks
  MaxFailures,    \* bound: failures counted against one address
  None

ASSUME BackoffAssumption ==
  /\ IsFiniteSet(Attempt)
  /\ IdleReset \in Nat
  /\ MaxFailures \in Nat
  /\ None \notin [failures : Nat, age : Nat]

loginBackoffThreshold == 3
loginBackoffCap == 16

VARIABLES
  entries,   \* entries[e]: failures and the age of the last one, or None
  att,       \* attempts in progress
  free       \* history: failures since the last reset that had to pay nothing

vars == <<entries, att, free>>

Idle == [pc |-> "idle"]

AttemptState ==
  {Idle} \cup [pc : {"checking", "sleeping"}, email : Email, delay : 0..loginBackoffCap]

TypeOK ==
  /\ entries \in [Email -> [failures : 1..MaxFailures, age : 0..(IdleReset + 1)] \cup {None}]
  /\ att \in [Attempt -> AttemptState]
  /\ free \in [Email -> Nat]

Init ==
  /\ entries = [e \in Email |-> None]
  /\ att = [a \in Attempt |-> Idle]
  /\ free = [e \in Email |-> 0]

-----------------------------------------------------------------------------
(* loginBackoffBase is 1953125 * 2^7 ns.  Shifted left by n in 64 bits it is  *)
(* Mantissa(n) * 2^(7 + n) as an unsigned number, negative as an int64 when   *)
(* the top bit is set.                                                        *)
Mantissa(n) ==
  IF n <= 36 THEN 1953125 ELSE IF n >= 57 THEN 0 ELSE 1953125 % 2^(57 - n)

Negative(n) == n \in 36..56 /\ Mantissa(n) >= 2^(56 - n)

NotPositive_Unchecked(n) == FALSE
NotPositive(n) == Mantissa(n) = 0 \/ Negative(n)

(* 4 s is the base shifted by 4; whatever is left of a wrapped value is above *)
(* it, a wrapped multiple of 2^43 ns.                                         *)
AboveCap(n) == n > 4 /\ ~Negative(n) /\ Mantissa(n) > 0

Shifted(n) ==
  IF AboveCap(n) \/ NotPositive(n) THEN loginBackoffCap
  ELSE IF n > 4 THEN 0  \* sleeping for a duration that is not positive
  ELSE 2^n

Delay(failures) ==
  IF failures < loginBackoffThreshold THEN 0 ELSE Shifted(failures - loginBackoffThreshold)

Stale_Never(entry) == FALSE
Stale(entry) == entry.age > IdleReset

(* What delay() would answer for e now.                                      *)
Owed(e) ==
  IF entries[e] = None \/ Stale(entries[e]) THEN 0 ELSE Delay(entries[e].failures)

Known(e) == entries[e] # None /\ ~Stale(entries[e])

-----------------------------------------------------------------------------
(* Authenticate up to FindUserByEmail: delay(), which forgets a stale entry. *)
Begin(a, e) ==
  /\ att[a] = Idle
  /\ att' = [att EXCEPT ![a] = [pc |-> "checking", email |-> e, delay |-> Owed(e)]]
  /\ entries' = [entries EXCEPT ![e] = IF Known(e) THEN @ ELSE None]
  /\ free' = [free EXCEPT ![e] = IF Known(e) THEN @ ELSE 0]

Sleep(a) == att' = [att EXCEPT ![a].pc = "sleeping"]

(* Unknown address or wrong password: recordFailure.                         *)
recordFailure_Restarts(e) == [failures |-> 1, age |-> 0]

recordFailure(e) ==
  [failures |-> IF Known(e) THEN entries[e].failures + 1 ELSE 1, age |-> 0]

Reject(a) ==
  LET e == att[a].email IN
  /\ att[a].pc = "checking"
  /\ recordFailure(e).failures <= MaxFailures
  /\ entries' = [entries EXCEPT ![e] = recordFailure(e)]
  /\ free' = [free EXCEPT ![e] = (IF Known(e) THEN @ ELSE 0)
                                   + (IF att[a].delay = 0 THEN 1 ELSE 0)]
  /\ Sleep(a)

(* The password is right: recordSuccess.                                     *)
Accept(a) ==
  /\ att[a].pc = "checking"
  /\ entries' = [entries EXCEPT ![att[a].email] = None]
  /\ free' = [free EXCEPT ![att[a].email] = 0]
  /\ Sleep(a)

(* The repository fails: nothing is recorded, nothing is slept.              *)
RepositoryFails(a) ==
  /\ att[a].pc = "checking"
  /\ att' = [att EXCEPT ![a] = Idle]
  /\ UNCHANGED <<entries, free>>

(* The delay is over, or the client is gone (sleepUnlessDone).               *)
Respond(a) ==
  /\ att[a].pc = "sleeping"
  /\ att' = [att EXCEPT ![a] = Idle]
  /\ UNCHANGED <<entries, free>>

Swept_AtLimit(e) == entries[e] # None /\ entries[e].age >= IdleReset
Swept(e) == entries[e] # None /\ Stale(entries[e])

sweep ==
  /\ entries' = [e \in Email |-> IF Swept(e) THEN None ELSE entries[e]]
  /\ free' = [e \in Email |-> IF Swept(e) THEN 0 ELSE free[e]]
  /\ UNCHANGED att

Tick ==
  /\ entries' = [e \in Email |->
                   IF entries[e] = None \/ Stale(entries[e]) THEN entries[e]
                   ELSE [entries[e] EXCEPT !.age = @ + 1]]
  /\ UNCHANGED <<att, free>>

Next ==
  \/ \E a \in Attempt, e \in Email : Begin(a, e)
  \/ \E a \in Attempt : Reject(a) \/ Accept(a) \/ RepositoryFails(a) \/ Respond(a)
  \/ sweep
  \/ Tick

Spec == Init /\ [][Next]_vars

-----------------------------------------------------------------------------
(* "failures=3 -> 250ms, 4 -> 500ms, 5 -> 1s, 6 -> 2s, 7+ -> capped 4s", and  *)
(* none before: however many failures are counted, also when the shift        *)
(* overflows 64 bits, the delay stays on that curve and never falls back.     *)
CurveKept ==
  \A e \in Email : Known(e) =>
    LET f == entries[e].failures
    IN  Owed(e) = CASE f < 3 -> 0 [] f = 3 -> 1 [] f = 4 -> 2 [] f = 5 -> 4
                    [] f = 6 -> 8 [] OTHER -> 16

(* A parallel burst reads one delay before any of it is recorded: it gets at  *)
(* most one free guess per attempt in progress beyond the tolerated ones.     *)
BurstBound ==
  \A e \in Email : free[e] <= loginBackoffThreshold + Cardinality(Attempt) - 1

(* What an account owes falls only by a right password or by IdleReset having *)
(* passed since its last failure: no failure and no sweep forgives.           *)
OwedFalls ==
  [][\A e \in Email : Owed(e)' < Owed(e) =>
       \/ \E a \in Attempt : att[a] # Idle /\ att[a].email = e /\ Accept(a)
       \/ entries[e].age = IdleReset /\ Tick]_vars
=============================================================================
