------------------------------ MODULE IntentStore ------------------------------
(***************************************************************************)
(* The queue file of src/solmesh/store.py: its contents, and for every     *)
(* operation of IntentStore what the operation rewrites the contents to.   *)
(* Every operator is a pure function of the contents that were loaded;     *)
(* the module Deferred decides when a process loads and when it saves.     *)
(***************************************************************************)
EXTENDS Naturals, Sequences

CONSTANTS
    MaxIntents,     \* bound: how many intents are ever queued
    MaxAttempts,    \* MAX_FLUSH_ATTEMPTS, stored as Intent.max_attempts
    Payments        \* (wallet, recipient, amount, mint): what dedup compares

ASSUME IntentStoreAssumption ==
    /\ MaxIntents \in Nat \ {0}
    /\ MaxAttempts \in Nat \ {0}

(***************************************************************************)
(* An intent's uuid is abstracted to its rank in order of creation, so     *)
(* the created_at order of pending_intents is the order of the numbers.    *)
(* What an intent asks for never changes and is kept beside the file, in   *)
(* the sequence of payments in order of creation.                          *)
(***************************************************************************)
Ids == 1..MaxIntents

Status == {"pending", "sending", "sent", "failed"}

Absent == [status |-> "none", attempts |-> 0]

Entries == [status : Status \cup {"none"}, attempts : Nat]

Files == [Ids -> Entries]

EmptyFile == [i \in Ids |-> Absent]

Present(file, i) == file[i].status # "none"

PendingIn(file) == {i \in Ids : file[i].status = "pending"}

-----------------------------------------------------------------------------

SetStatus(file, i, status) == [file EXCEPT ![i].status = status]

\* Mutant: the comparison is off by one.
IncrementAttemptsLate(file, i) ==
    LET tries == file[i].attempts + 1
    IN  [file EXCEPT ![i] =
            [status   |-> IF tries > MaxAttempts THEN "failed" ELSE @.status,
             attempts |-> tries]]

(* The attempt that reaches the maximum turns the intent FAILED at once,   *)
(* before anyone knows how that attempt ended.                             *)
IncrementAttempts(file, i) ==
    LET tries == file[i].attempts + 1
    IN  [file EXCEPT ![i] =
            [status   |-> IF tries >= MaxAttempts THEN "failed" ELSE @.status,
             attempts |-> tries]]

\* Mutant: nothing is recovered.
RecoverNothing(file) == file

RecoverSending(file) ==
    [i \in Ids |-> IF file[i].status = "sending"
                   THEN [file[i] EXCEPT !.status = "pending"]
                   ELSE file[i]]

\* Mutant: no deduplication.
NeverDuplicate(file, asked, what) == FALSE

IsDuplicate(file, asked, what) ==
    \E i \in PendingIn(file) : asked[i] = what

WithNew(file, i) == [file EXCEPT ![i] = [status |-> "pending", attempts |-> 0]]

Without(file, i) == [file EXCEPT ![i] = Absent]

Cleared(file, statuses) ==
    [i \in Ids |-> IF file[i].status \in statuses THEN Absent ELSE file[i]]

=============================================================================
