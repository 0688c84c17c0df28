----------------------------- MODULE PaymentQueue -----------------------------
(***************************************************************************)
(* What the store-and-forward queue promises to the person who fills it,   *)
(* with no processes, files, locks or messages: a payment is submitted     *)
(* once, tried a bounded number of times, confirmed only after a try, and  *)
(* never lost except by withdrawing it.  Deferred implements it when the   *)
(* commands that use the queue file follow each other.                     *)
(***************************************************************************)
EXTENDS Naturals, Sequences

CONSTANTS MaxIntents, MaxAttempts, Payments

VARIABLES
    entry,      \* state and number of tries of each payment
    asked       \* what the payments are, in order of submission

Slots == 1..MaxIntents

None == [state |-> "none", tries |-> 0]

Init == entry = [i \in Slots |-> None] /\ asked = <<>>

Open(i) == entry[i].state = "open"

Submit(what) ==
    LET i == Len(asked) + 1
    IN  /\ i <= MaxIntents
        /\ \A j \in Slots : Open(j) => asked[j] # what
        /\ asked' = Append(asked, what)
        /\ entry' = [entry EXCEPT ![i] = [state |-> "open", tries |-> 0]]

(* The last try closes the payment as failed before its outcome is known.  *)
Try(i) ==
    /\ Open(i)
    /\ entry' = [entry EXCEPT ![i] =
          [state |-> IF @.tries + 1 >= MaxAttempts THEN "failed" ELSE "open",
           tries |-> @.tries + 1]]
    /\ UNCHANGED asked

Confirm(i) ==
    /\ entry[i].state \in {"open", "failed"} /\ entry[i].tries > 0
    /\ entry' = [entry EXCEPT ![i].state = "sent"]
    /\ UNCHANGED asked

Withdraw(gone) ==
    /\ entry' = [i \in Slots |-> IF i \in gone THEN None ELSE entry[i]]
    /\ UNCHANGED asked

Next ==
    \/ \E what \in Payments : Submit(what)
    \/ \E i \in Slots : Try(i) \/ Confirm(i)
    \/ \E gone \in SUBSET Slots : Withdraw(gone)

Spec == Init /\ [][Next]_<<entry, asked>>

=============================================================================
