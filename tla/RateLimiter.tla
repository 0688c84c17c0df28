------------------------------ MODULE RateLimiter ------------------------------
(***************************************************************************)
(* The gateway's token buckets (src/solmesh/rate_limiter.py), shared by    *)
(* the mesh thread and the worker threads of the HTTP server.              *)
(*                                                                         *)
(* No lock protects a bucket.  A step is what a thread does between two    *)
(* calls, where CPython may let another thread run: the construction of a  *)
(* bucket, time.time() and min().  One tick of the clock is the time in    *)
(* which one token comes back.                                             *)
(***************************************************************************)
EXTENDS Integers

CONSTANTS
    Threads,    \* threads that call is_allowed
    NoBucket,   \* the caller has no bucket yet
    Nobody,     \* the thread serves no caller
    Callers,    \* bucket ids: mesh node ids and prefixes of API keys
    Patient,    \* callers with one request at a time: all mesh nodes, as the
                \* mesh thread is one, and HTTP callers that await the answer
    Burst,      \* tokens in a full bucket
    MaxTime     \* bound: ticks

ASSUME RateLimiterAssumption ==
    /\ NoBucket \notin Threads /\ Nobody \notin Callers
    /\ Patient \subseteq Callers
    /\ Burst \in Nat \ {0} /\ MaxTime \in Nat

VARIABLES
    clock,
    table,          \* _buckets: for each caller the thread that made its bucket
    tokens, last,   \* the buckets: tokens and last_refill
    pc, caller,     \* what each thread does, and for whom
    bucket,         \* the bucket it has looked up, by the thread that made it
    now, refilled,  \* its local variables: the time, and the tokens min() gave
    since,          \* when the window began that is being watched
    admitted,       \* requests stamped and admitted in that window
    spent           \* the stamp of each caller's last admission

buckets == <<table, tokens, last>>
locals  == <<caller, bucket, now, refilled>>
watched == <<since, admitted, spent>>
vars    == <<clock, buckets, pc, locals, watched>>

Buckets == Threads \X Callers

(* No admission yet: a stamp before the beginning.                         *)
Never == -1

Init ==
    /\ clock = 0
    /\ table = [c \in Callers |-> NoBucket]
    /\ tokens = [b \in Buckets |-> 0] /\ last = [b \in Buckets |-> 0]
    /\ pc = [w \in Threads |-> "free"]
    /\ caller = [w \in Threads |-> Nobody] /\ bucket = [w \in Threads |-> NoBucket]
    /\ now = [w \in Threads |-> 0] /\ refilled = [w \in Threads |-> 0]
    /\ since = 0 /\ admitted = [c \in Callers |-> 0]
    /\ spent = [c \in Callers |-> Never]

Goto(w, label) == pc' = [pc EXCEPT ![w] = label]

-----------------------------------------------------------------------------
(* is_allowed.                                                             *)

Served(c) == \E w \in Threads : caller[w] = c

Arrive(w, c) ==
    /\ pc[w] = "free"
    /\ c \in Patient => ~Served(c)
    /\ caller' = [caller EXCEPT ![w] = c]
    /\ IF table[c] = NoBucket
       THEN Goto(w, "make") /\ UNCHANGED bucket
       ELSE Goto(w, "clock") /\ bucket' = [bucket EXCEPT ![w] = table[c]]
    /\ UNCHANGED <<clock, buckets, now, refilled, watched>>

\* Mutant: a new bucket is empty, as the field's default says.
MakeEmpty(w) ==
    /\ pc[w] = "make"
    /\ table' = [table EXCEPT ![caller[w]] = w]
    /\ bucket' = [bucket EXCEPT ![w] = w]
    /\ tokens' = [tokens EXCEPT ![<<w, caller[w]>>] = 0]
    /\ last' = [last EXCEPT ![<<w, caller[w]>>] = clock]
    /\ Goto(w, "clock")
    /\ UNCHANGED <<clock, caller, now, refilled, watched>>

(* The new bucket replaces the one another thread may have put there.      *)
Make(w) ==
    /\ pc[w] = "make"
    /\ table' = [table EXCEPT ![caller[w]] = w]
    /\ bucket' = [bucket EXCEPT ![w] = w]
    /\ tokens' = [tokens EXCEPT ![<<w, caller[w]>>] = Burst]
    /\ last' = [last EXCEPT ![<<w, caller[w]>>] = clock]
    /\ Goto(w, "clock")
    /\ UNCHANGED <<clock, caller, now, refilled, watched>>

-----------------------------------------------------------------------------
(* consume.                                                                *)

ReadClock(w) ==
    /\ pc[w] = "clock"
    /\ now' = [now EXCEPT ![w] = clock]
    /\ Goto(w, "refill")
    /\ UNCHANGED <<clock, buckets, caller, bucket, refilled, watched>>

Mine(w) == <<bucket[w], caller[w]>>

Capped(n) == IF n > Burst THEN Burst ELSE n

\* Mutant: tokens pile up while the caller is silent.
RefillUncapped(w) ==
    /\ pc[w] = "refill"
    /\ refilled' = [refilled EXCEPT ![w] = tokens[Mine(w)] + (now[w] - last[Mine(w)])]
    /\ last' = [last EXCEPT ![Mine(w)] = now[w]]
    /\ Goto(w, "take")
    /\ UNCHANGED <<clock, table, tokens, caller, bucket, now, watched>>

(* elapsed, last_refill and min(); the time read may be behind the         *)
(* last_refill that another thread has set meanwhile.                      *)
Refill(w) ==
    /\ pc[w] = "refill"
    /\ refilled' = [refilled EXCEPT ![w] = Capped(tokens[Mine(w)] + (now[w] - last[Mine(w)]))]
    /\ last' = [last EXCEPT ![Mine(w)] = now[w]]
    /\ Goto(w, "take")
    /\ UNCHANGED <<clock, table, tokens, caller, bucket, now, watched>>

(* is_allowed returns.                                                     *)
Return(w) ==
    /\ Goto(w, "free")
    /\ caller' = [caller EXCEPT ![w] = Nobody]
    /\ bucket' = [bucket EXCEPT ![w] = NoBucket]
    /\ now' = [now EXCEPT ![w] = 0] /\ refilled' = [refilled EXCEPT ![w] = 0]

Admit(w) ==
    /\ pc[w] = "take" /\ refilled[w] >= 1
    /\ tokens' = [tokens EXCEPT ![Mine(w)] = refilled[w] - 1]
    /\ admitted' = [admitted EXCEPT ![caller[w]] = IF now[w] >= since THEN @ + 1 ELSE @]
    /\ spent' = [spent EXCEPT ![caller[w]] = now[w]]
    /\ Return(w)
    /\ UNCHANGED <<clock, table, last, since>>

Deny(w) ==
    /\ pc[w] = "take" /\ refilled[w] < 1
    /\ tokens' = [tokens EXCEPT ![Mine(w)] = refilled[w]]
    /\ Return(w)
    /\ UNCHANGED <<clock, table, last, watched>>

-----------------------------------------------------------------------------

Tick ==
    /\ clock < MaxTime
    /\ clock' = clock + 1
    /\ UNCHANGED <<buckets, pc, locals, watched>>

(* Not the program's: someone begins to count admissions.                  *)
Watch ==
    /\ since' = clock
    /\ admitted' = [c \in Callers |-> 0]
    /\ UNCHANGED <<clock, buckets, pc, locals, spent>>

Consume(w) == ReadClock(w) \/ Refill(w) \/ Admit(w) \/ Deny(w)

Next ==
    \/ \E w \in Threads, c \in Callers : Arrive(w, c)
    \/ \E w \in Threads : Make(w) \/ Consume(w)
    \/ Tick
    \/ Watch

Spec == Init /\ [][Next]_vars

-----------------------------------------------------------------------------
(* Correctness.                                                            *)

(* Type invariant: no bucket ever holds more than the burst.               *)
TypeOK ==
    /\ clock \in Nat
    /\ table \in [Callers -> Threads \cup {NoBucket}]
    /\ tokens \in [Buckets -> Int] /\ last \in [Buckets -> Nat]
    /\ \A b \in Buckets : tokens[b] <= Burst
    /\ pc \in [Threads -> {"free", "make", "clock", "refill", "take"}]
    /\ caller \in [Threads -> Callers \cup {Nobody}]
    /\ bucket \in [Threads -> Threads \cup {NoBucket}]
    /\ now \in [Threads -> Nat] /\ refilled \in [Threads -> Int]
    /\ \A w \in Threads : refilled[w] <= Burst
    /\ since \in Nat /\ admitted \in [Callers -> Nat]
    /\ spent \in [Callers -> Nat \cup {Never}]

WithinBurst(c) == admitted[c] <= Burst + (clock - since)

(* In any window of time a caller with one request at a time is granted no *)
(* more than a full bucket and what comes back in that time, whoever else  *)
(* is served by other threads meanwhile (is_allowed).                      *)
WindowBounded == \A c \in Patient : WithinBurst(c)

(* Such a caller is refused only if it spent a token within the very tick: *)
(* no race, new bucket or idle time costs it a token.                      *)
DenialsEarned ==
    \A w \in Threads :
        pc[w] = "take" /\ refilled[w] < 1 /\ caller[w] \in Patient
            => spent[caller[w]] = now[w]

(* README.md:255: the gateway limits every sender by a token bucket, HTTP  *)
(* callers with several requests at once included.                         *)
EveryoneBounded == \A c \in Callers : WithinBurst(c)

=============================================================================
