--------------------------- MODULE RateLimiterProofs ---------------------------
(***************************************************************************)
(* Proofs about RateLimiter, for any number of threads and callers, any    *)
(* burst and any time: what a caller with one request at a time is granted *)
(* and refused, although nothing is locked and other callers race.         *)
(***************************************************************************)
EXTENDS RateLimiter, TLAPS

(* One bucket per caller is in the table; a request of a patient caller    *)
(* has it to itself.                                                       *)
InTable(c) == <<table[c], c>>

Alone ==
    \A v, w \in Threads : caller[v] \in Patient /\ caller[v] = caller[w] => v = w

Consuming == {"clock", "refill", "take"}

Holds ==
    \A w \in Threads :
        /\ pc[w] = "free" <=> caller[w] = Nobody
        /\ pc[w] \in Consuming => bucket[w] \in Threads
        /\ pc[w] = "make" /\ caller[w] \in Patient => table[caller[w]] = NoBucket
        /\ pc[w] \in Consuming /\ caller[w] \in Patient => table[caller[w]] = bucket[w]

(* Without a race time does not run backwards.                             *)
StampOf(w) ==
    /\ pc[w] \in {"refill", "take"} => now[w] <= clock
    /\ pc[w] = "refill" /\ caller[w] \in Patient => last[Mine(w)] <= now[w]
    /\ pc[w] = "take" /\ caller[w] \in Patient => last[Mine(w)] = now[w]

Stamps ==
    /\ since <= clock
    /\ \A b \in Buckets : last[b] <= clock
    /\ \A w \in Threads : StampOf(w)

(* What was admitted since the window began and the level of the bucket    *)
(* together are a full bucket and the time up to the last refill; an empty *)
(* bucket was emptied at the last refill.                                  *)
Balance(c, level) ==
    /\ 0 <= level /\ level <= Burst
    /\ last[InTable(c)] >= since => admitted[c] + level <= Burst + (last[InTable(c)] - since)
    /\ last[InTable(c)] < since => admitted[c] = 0
    /\ level = 0 => spent[c] = last[InTable(c)]

(* The level is the bucket's, or the local variable of a thread about to   *)
(* store it.                                                               *)
Ledger ==
    /\ \A c \in Patient : table[c] = NoBucket => admitted[c] = 0
    /\ \A c \in Patient :
        table[c] # NoBucket /\ (\A w \in Threads : pc[w] = "take" => caller[w] # c)
            => Balance(c, tokens[InTable(c)])
    /\ \A w \in Threads :
        pc[w] = "take" /\ caller[w] \in Patient => Balance(caller[w], refilled[w])

Inv == TypeOK /\ Alone /\ Holds /\ Stamps /\ Ledger

-----------------------------------------------------------------------------

(* Initially there are no buckets and nothing has been admitted.           *)
LEMMA InitInv == Init => Inv
<1> SUFFICES ASSUME Init PROVE Inv
  OBVIOUS
<1>1. TypeOK
  BY RateLimiterAssumption DEF Init, TypeOK
<1>2. Alone /\ Holds
  BY RateLimiterAssumption DEF Init, Alone, Holds, Consuming
<1>3. Stamps /\ Ledger
  BY RateLimiterAssumption DEF Init, Stamps, StampOf, Ledger
<1>4. QED
  BY <1>1, <1>2, <1>3 DEF Inv

(* A refill adds no more than the time elapsed, and leaves a bucket empty  *)
(* only if it was empty and no time has elapsed.                           *)
LEMMA CappedRange ==
    ASSUME NEW level \in Nat, NEW elapsed \in Nat
    PROVE  /\ Capped(level + elapsed) \in Int
           /\ 0 <= Capped(level + elapsed) /\ Capped(level + elapsed) <= Burst
           /\ Capped(level + elapsed) <= level + elapsed
           /\ Capped(level + elapsed) = 0 => level = 0 /\ elapsed = 0
  BY RateLimiterAssumption DEF Capped

(* Every action keeps the types.                                           *)
LEMMA TypeStep ==
    ASSUME TypeOK, Holds, [Next]_vars
    PROVE  TypeOK'
<1>1. ASSUME NEW w \in Threads, NEW c \in Callers, Arrive(w, c) PROVE TypeOK'
  BY <1>1, RateLimiterAssumption DEF Arrive, Goto, TypeOK, buckets, locals, watched
<1>2. ASSUME NEW w \in Threads, Make(w) PROVE TypeOK'
  BY <1>2, RateLimiterAssumption DEF Make, Goto, TypeOK, Holds, Buckets, watched
<1>3. ASSUME NEW w \in Threads, ReadClock(w) PROVE TypeOK'
  BY <1>3 DEF ReadClock, Goto, TypeOK, buckets, watched
<1>4. ASSUME NEW w \in Threads, Refill(w) PROVE TypeOK'
  BY <1>4, RateLimiterAssumption
     DEF Refill, Goto, Mine, Capped, TypeOK, Holds, Consuming, Buckets, watched
<1>5. ASSUME NEW w \in Threads, Admit(w) PROVE TypeOK'
  BY <1>5, RateLimiterAssumption
     DEF Admit, Return, Goto, Mine, TypeOK, Holds, Consuming, Buckets
<1>6. ASSUME NEW w \in Threads, Deny(w) PROVE TypeOK'
  BY <1>6, RateLimiterAssumption
     DEF Deny, Return, Goto, Mine, TypeOK, Holds, Consuming, Buckets, watched
<1>7. ASSUME Tick PROVE TypeOK'
  BY <1>7 DEF Tick, TypeOK, buckets, locals, watched
<1>8. ASSUME Watch PROVE TypeOK'
  BY <1>8 DEF Watch, TypeOK, buckets, locals
<1>9. ASSUME UNCHANGED vars PROVE TypeOK'
  BY <1>9 DEF vars, TypeOK, buckets, locals, watched
<1>10. QED
  BY <1>1, <1>2, <1>3, <1>4, <1>5, <1>6, <1>7, <1>8, <1>9 DEF Next, Consume

(* A patient caller is not taken on while it is served.                    *)
LEMMA AloneStep ==
    ASSUME Alone, [Next]_vars
    PROVE  Alone'
<1>1. ASSUME NEW w \in Threads, NEW c \in Callers, Arrive(w, c) PROVE Alone'
  BY <1>1 DEF Arrive, Served, Alone
<1>2. ASSUME NEW w \in Threads, Make(w) PROVE Alone'
  BY <1>2 DEF Make, Alone
<1>3. ASSUME NEW w \in Threads, ReadClock(w) PROVE Alone'
  BY <1>3 DEF ReadClock, Alone
<1>4. ASSUME NEW w \in Threads, Refill(w) PROVE Alone'
  BY <1>4 DEF Refill, Alone
<1>5. ASSUME NEW w \in Threads, Admit(w) PROVE Alone'
  BY <1>5, RateLimiterAssumption DEF Admit, Return, Alone
<1>6. ASSUME NEW w \in Threads, Deny(w) PROVE Alone'
  BY <1>6, RateLimiterAssumption DEF Deny, Return, Alone
<1>7. ASSUME Tick PROVE Alone'
  BY <1>7 DEF Tick, Alone, locals
<1>8. ASSUME Watch PROVE Alone'
  BY <1>8 DEF Watch, Alone, locals
<1>9. ASSUME UNCHANGED vars PROVE Alone'
  BY <1>9 DEF vars, Alone, locals
<1>10. QED
  BY <1>1, <1>2, <1>3, <1>4, <1>5, <1>6, <1>7, <1>8, <1>9 DEF Next, Consume

(* For a patient caller a thread works on the bucket of the table.         *)
LEMMA HoldsStep ==
    ASSUME TypeOK, Alone, Holds, [Next]_vars
    PROVE  Holds'
<1>1. ASSUME NEW w \in Threads, NEW c \in Callers, Arrive(w, c) PROVE Holds'
  BY <1>1, RateLimiterAssumption DEF Arrive, Goto, TypeOK, Holds, Consuming, buckets
<1>2. ASSUME NEW w \in Threads, Make(w) PROVE Holds'
  BY <1>2 DEF Make, Goto, TypeOK, Alone, Holds
<1>3. ASSUME NEW w \in Threads, ReadClock(w) PROVE Holds'
  BY <1>3 DEF ReadClock, Goto, Holds, Consuming, buckets
<1>4. ASSUME NEW w \in Threads, Refill(w) PROVE Holds'
  BY <1>4 DEF Refill, Goto, Holds, Consuming
<1>5. ASSUME NEW w \in Threads, Admit(w) PROVE Holds'
  BY <1>5 DEF Admit, Return, Goto, TypeOK, Holds, Consuming
<1>6. ASSUME NEW w \in Threads, Deny(w) PROVE Holds'
  BY <1>6 DEF Deny, Return, Goto, TypeOK, Holds, Consuming
<1>7. ASSUME Tick PROVE Holds'
  BY <1>7 DEF Tick, Holds, buckets, locals
<1>8. ASSUME Watch PROVE Holds'
  BY <1>8 DEF Watch, Holds, buckets, locals
<1>9. ASSUME UNCHANGED vars PROVE Holds'
  BY <1>9 DEF vars, Holds, buckets, locals
<1>10. QED
  BY <1>1, <1>2, <1>3, <1>4, <1>5, <1>6, <1>7, <1>8, <1>9 DEF Next, Consume

(* Only the thread that serves a patient caller touches its last_refill.   *)
LEMMA StampsStep ==
    ASSUME TypeOK, Alone, Holds, Stamps, [Next]_vars
    PROVE  Stamps'
<1>1. ASSUME NEW w \in Threads, NEW c \in Callers, Arrive(w, c) PROVE Stamps'
  <2>1. since' <= clock' /\ \A b \in Buckets : last'[b] <= clock'
    BY <1>1 DEF Arrive, Stamps, buckets, watched
  <2>2. ASSUME NEW v \in Threads PROVE StampOf(v)'
    BY <1>1 DEF Arrive, Goto, Stamps, StampOf, TypeOK, Mine, buckets
  <2>3. QED
    BY <2>1, <2>2 DEF Stamps
<1>2. ASSUME NEW w \in Threads, Make(w) PROVE Stamps'
  <2>1. <<w, caller[w]>> \in Buckets
    BY <1>2 DEF Make, TypeOK, Holds, Buckets
  <2>2. since' <= clock' /\ \A b \in Buckets : last'[b] <= clock'
    BY <1>2, <2>1 DEF Make, Stamps, TypeOK, watched
  <2>3. ASSUME NEW v \in Threads PROVE StampOf(v)'
    <3>1. CASE v = w
      BY <1>2, <3>1 DEF Make, Goto, StampOf
    <3>2. CASE v # w
      <4>1. caller[v] \in Patient => Mine(v) # <<w, caller[w]>>
        BY <1>2, <3>2 DEF Alone, Mine
      <4>2. caller[v] \in Patient /\ pc[v] \in Consuming => Mine(v) \in Buckets
        BY RateLimiterAssumption DEF Holds, Buckets, Mine
      <4>3. pc'[v] = pc[v] /\ now'[v] = now[v] /\ caller'[v] = caller[v] /\ Mine(v)' = Mine(v)
        BY <1>2, <3>2 DEF Make, Goto, Mine
      <4>4. caller[v] \in Patient /\ pc[v] \in Consuming => last'[Mine(v)] = last[Mine(v)]
        BY <1>2, <4>1, <4>2 DEF Make
      <4>5. clock' = clock /\ StampOf(v)
        BY <1>2 DEF Make, Stamps
      <4>6. QED
        BY <4>3, <4>4, <4>5 DEF StampOf, Consuming
    <3>3. QED
      BY <3>1, <3>2
  <2>4. QED
    BY <2>2, <2>3 DEF Stamps
<1>3. ASSUME NEW w \in Threads, ReadClock(w) PROVE Stamps'
  <2>1. since' <= clock' /\ \A b \in Buckets : last'[b] <= clock'
    BY <1>3 DEF ReadClock, Stamps, buckets, watched
  <2>2. ASSUME NEW v \in Threads PROVE StampOf(v)'
    <3>1. CASE v = w
      <4>1. caller[w] \in Patient => Mine(w) \in Buckets
        BY <1>3 DEF ReadClock, TypeOK, Holds, Consuming, Buckets, Mine
      <4>2. QED
        BY <1>3, <3>1, <4>1 DEF ReadClock, Goto, Stamps, StampOf, TypeOK, Mine, buckets
    <3>2. CASE v # w
      BY <1>3, <3>2 DEF ReadClock, Goto, Stamps, StampOf, Mine, buckets
    <3>3. QED
      BY <3>1, <3>2
  <2>3. QED
    BY <2>1, <2>2 DEF Stamps
<1>4. ASSUME NEW w \in Threads, Refill(w) PROVE Stamps'
  <2>1. pc[w] = "refill" /\ Mine(w) \in Buckets /\ now[w] <= clock
    <3>1. pc[w] = "refill"
      BY <1>4 DEF Refill
    <3>2. caller[w] \in Callers /\ bucket[w] \in Threads
      BY <3>1 DEF TypeOK, Holds, Consuming
    <3>3. QED
      BY <3>1, <3>2 DEF Stamps, StampOf, Buckets, Mine
  <2>2. since' <= clock' /\ \A b \in Buckets : last'[b] <= clock'
    <3>1. since' = since /\ clock' = clock /\ last' = [last EXCEPT ![Mine(w)] = now[w]]
      BY <1>4 DEF Refill, watched
    <3>2. \A b \in Buckets : last'[b] = last[b] \/ last'[b] = now[w]
      BY <2>1, <3>1 DEF TypeOK
    <3>3. QED
      BY <2>1, <3>1, <3>2 DEF Stamps
  <2>3. ASSUME NEW v \in Threads PROVE StampOf(v)'
    <3>1. CASE v = w
      BY <1>4, <2>1, <3>1 DEF Refill, StampOf, TypeOK, Mine
    <3>2. CASE v # w
      <4>1. caller[v] \in Patient /\ pc[v] \in Consuming => Mine(v) \in Buckets \ {Mine(w)}
        BY <2>1, <3>2 DEF TypeOK, Alone, Holds, Consuming, Buckets, Mine
      <4>2. pc'[v] = pc[v] /\ now'[v] = now[v] /\ caller'[v] = caller[v] /\ Mine(v)' = Mine(v)
        BY <1>4, <3>2 DEF Refill, Goto, Mine
      <4>3. caller[v] \in Patient /\ pc[v] \in Consuming => last'[Mine(v)] = last[Mine(v)]
        BY <1>4, <4>1 DEF Refill
      <4>4. clock' = clock /\ StampOf(v)
        BY <1>4 DEF Refill, Stamps
      <4>5. QED
        BY <4>2, <4>3, <4>4 DEF StampOf, Consuming
    <3>3. QED
      BY <3>1, <3>2
  <2>4. QED
    BY <2>2, <2>3 DEF Stamps
<1>5. ASSUME NEW w \in Threads, Admit(w) PROVE Stamps'
  <2>1. since' <= clock' /\ \A b \in Buckets : last'[b] <= clock'
    BY <1>5 DEF Admit, Stamps
  <2>2. ASSUME NEW v \in Threads PROVE StampOf(v)'
    <3>1. CASE v = w
      BY <1>5, <3>1 DEF Admit, Return, Goto, StampOf, TypeOK
    <3>2. CASE v # w
      BY <1>5, <3>2 DEF Admit, Return, Goto, Stamps, StampOf, Mine
    <3>3. QED
      BY <3>1, <3>2
  <2>3. QED
    BY <2>1, <2>2 DEF Stamps
<1>6. ASSUME NEW w \in Threads, Deny(w) PROVE Stamps'
  <2>1. since' <= clock' /\ \A b \in Buckets : last'[b] <= clock'
    BY <1>6 DEF Deny, Stamps, watched
  <2>2. ASSUME NEW v \in Threads PROVE StampOf(v)'
    <3>1. CASE v = w
      BY <1>6, <3>1 DEF Deny, Return, Goto, StampOf, TypeOK
    <3>2. CASE v # w
      BY <1>6, <3>2 DEF Deny, Return, Goto, Stamps, StampOf, Mine
    <3>3. QED
      BY <3>1, <3>2
  <2>3. QED
    BY <2>1, <2>2 DEF Stamps
<1>7. ASSUME Tick PROVE Stamps'
  <2>1. since' <= clock' /\ \A b \in Buckets : last'[b] <= clock'
    BY <1>7 DEF Tick, Stamps, TypeOK, buckets, watched
  <2>2. ASSUME NEW v \in Threads PROVE StampOf(v)'
    <3>1. StampOf(v) /\ now[v] \in Nat /\ clock \in Nat /\ clock' = clock + 1
      BY <1>7 DEF Tick, Stamps, TypeOK
    <3>2. now[v] <= clock => now[v] <= clock'
      BY <3>1
    <3>3. pc' = pc /\ caller' = caller /\ now' = now /\ last' = last /\ Mine(v)' = Mine(v)
      BY <1>7 DEF Tick, buckets, locals, Mine
    <3>4. QED
      BY <3>1, <3>2, <3>3 DEF StampOf
  <2>3. QED
    BY <2>1, <2>2 DEF Stamps
<1>8. ASSUME Watch PROVE Stamps'
  <2>1. since' <= clock' /\ \A b \in Buckets : last'[b] <= clock'
    BY <1>8 DEF Watch, Stamps, TypeOK, buckets
  <2>2. ASSUME NEW v \in Threads PROVE StampOf(v)'
    BY <1>8 DEF Watch, Stamps, StampOf, Mine, buckets, locals
  <2>3. QED
    BY <2>1, <2>2 DEF Stamps
<1>9. ASSUME UNCHANGED vars PROVE Stamps'
  BY <1>9 DEF vars, Stamps, StampOf, Mine, buckets, locals, watched
<1>10. QED
  BY <1>1, <1>2, <1>3, <1>4, <1>5, <1>6, <1>7, <1>8, <1>9 DEF Next, Consume

(* Every admission is paid for out of the bucket or by time.               *)
LEMMA LedgerStep ==
    ASSUME TypeOK, Alone, Holds, Stamps, Ledger, [Next]_vars
    PROVE  Ledger'
<1>1. ASSUME NEW w \in Threads, NEW c \in Callers, Arrive(w, c) PROVE Ledger'
  BY <1>1
     DEF Arrive, Goto, Served, TypeOK, Ledger, Balance, InTable, vars, buckets,
         locals, watched
<1>2. ASSUME NEW w \in Threads, Make(w) PROVE Ledger'
  BY <1>2, RateLimiterAssumption
     DEF Make, Goto, TypeOK, Holds, Ledger, Balance, InTable, Consuming, Buckets,
         watched
<1>3. ASSUME NEW w \in Threads, ReadClock(w) PROVE Ledger'
  BY <1>3 DEF ReadClock, Goto, Ledger, Balance, InTable, buckets, watched
<1>4. ASSUME NEW w \in Threads, Refill(w) PROVE Ledger'
  <2>1. pc[w] = "refill" /\ caller[w] \in Callers /\ Mine(w) \in Buckets
    BY <1>4 DEF Refill, TypeOK, Holds, Consuming, Buckets, Mine
  <2>2. /\ table' = table /\ since' = since
        /\ \A c \in Callers \ {caller[w]} : admitted'[c] = admitted[c] /\ spent'[c] = spent[c]
        /\ \A b \in Buckets \ {Mine(w)} : tokens'[b] = tokens[b] /\ last'[b] = last[b]
    BY <1>4, <2>1 DEF Refill, watched
  <2>3. \A v \in Threads \ {w} :
          pc'[v] = pc[v] /\ caller'[v] = caller[v] /\ refilled'[v] = refilled[v]
    BY <1>4 DEF Refill, Goto
  <2>4. ASSUME NEW c \in Patient, c # caller[w], table[c] # NoBucket
        PROVE  InTable(c) \in Buckets \ {Mine(w)} /\ c \in Callers
    BY <2>4, RateLimiterAssumption DEF TypeOK, Buckets, InTable, Mine
  <2>5. ASSUME NEW c \in Patient, c # caller[w], table[c] # NoBucket, NEW level, Balance(c, level)
        PROVE  Balance(c, level)'
    BY <2>2, <2>4, <2>5 DEF Balance, InTable
  <2>6. ASSUME NEW c \in Patient, c = caller[w] PROVE Balance(c, refilled[w])'
    <3>1. InTable(c) = Mine(w) /\ table[c] # NoBucket
      BY <2>1, <2>6, RateLimiterAssumption DEF Holds, Consuming, InTable, Mine
    <3>2. Balance(c, tokens[Mine(w)])
      BY <2>1, <2>6, <3>1 DEF Alone, Ledger
    <3>3. /\ admitted' = admitted /\ spent' = spent /\ last'[Mine(w)] = now[w]
          /\ refilled'[w] = Capped(tokens[Mine(w)] + (now[w] - last[Mine(w)]))
          /\ InTable(c)' = Mine(w)
      BY <1>4, <2>1, <3>1 DEF Refill, TypeOK, InTable, watched
    <3>4. last[Mine(w)] <= now[w] /\ since <= clock /\ now[w] <= clock
      BY <2>1, <2>6 DEF Stamps, StampOf
    <3>5. /\ tokens[Mine(w)] \in Int /\ last[Mine(w)] \in Nat /\ now[w] \in Nat
          /\ since \in Nat /\ admitted[c] \in Nat
      BY <2>1, <2>6 DEF TypeOK
    <3>6. /\ 0 <= tokens[Mine(w)] /\ tokens[Mine(w)] <= Burst
          /\ last[Mine(w)] >= since =>
               admitted[c] + tokens[Mine(w)] <= Burst + (last[Mine(w)] - since)
          /\ last[Mine(w)] < since => admitted[c] = 0
          /\ tokens[Mine(w)] = 0 => spent[c] = last[Mine(w)]
      BY <3>1, <3>2 DEF Balance
    <3>7. /\ 0 <= refilled'[w] /\ refilled'[w] <= Burst
          /\ refilled'[w] <= tokens[Mine(w)] + (now[w] - last[Mine(w)])
          /\ refilled'[w] = 0 => tokens[Mine(w)] = 0 /\ now[w] = last[Mine(w)]
          /\ refilled'[w] \in Int
      <4>1. tokens[Mine(w)] \in Nat /\ now[w] - last[Mine(w)] \in Nat
        BY <3>4, <3>5, <3>6
      <4>2. /\ refilled'[w] \in Int /\ 0 <= refilled'[w] /\ refilled'[w] <= Burst
            /\ refilled'[w] <= tokens[Mine(w)] + (now[w] - last[Mine(w)])
            /\ refilled'[w] = 0 => tokens[Mine(w)] = 0 /\ now[w] - last[Mine(w)] = 0
        BY <3>3, <4>1, CappedRange
      <4>3. QED
        BY <3>5, <4>2
    <3>8. /\ now[w] >= since => admitted[c] + refilled'[w] <= Burst + (now[w] - since)
          /\ now[w] < since => admitted[c] = 0
          /\ refilled'[w] = 0 => spent[c] = now[w]
      BY <3>4, <3>5, <3>6, <3>7, RateLimiterAssumption
    <3>9. QED
      BY <2>2, <3>3, <3>7, <3>8 DEF Balance
  <2>7. \A c \in Patient : table'[c] = NoBucket => admitted'[c] = 0
    BY <1>4 DEF Refill, Ledger, watched
  <2>8. ASSUME NEW c \in Patient, table'[c] # NoBucket,
               \A v \in Threads : pc'[v] = "take" => caller'[v] # c
        PROVE  Balance(c, tokens[InTable(c)])'
    <3>1. pc'[w] = "take" /\ caller'[w] = caller[w]
      BY <1>4 DEF Refill, Goto, TypeOK
    <3>2. c # caller[w]
      BY <2>8, <3>1
    <3>3. \A v \in Threads : pc[v] = "take" => caller[v] # c
      BY <2>1, <2>3, <2>8
    <3>4. Balance(c, tokens[InTable(c)])
      BY <2>2, <2>8, <3>3 DEF Ledger
    <3>5. tokens'[InTable(c)'] = tokens[InTable(c)]
      BY <2>2, <2>4, <2>8, <3>2 DEF InTable
    <3>6. QED
      BY <2>2, <2>4, <2>8, <3>2, <3>4, <3>5 DEF Balance, InTable
  <2>9. ASSUME NEW v \in Threads, pc'[v] = "take", caller'[v] \in Patient
        PROVE  Balance(caller[v], refilled[v])'
    <3>1. CASE v = w
      <4>1. caller'[w] = caller[w]
        BY <1>4 DEF Refill
      <4>2. QED
        BY <2>6, <2>9, <3>1, <4>1
    <3>2. CASE v # w
      <4>1. pc[v] = "take" /\ caller[v] \in Patient /\ caller[v] # caller[w]
        BY <2>3, <2>9, <3>2 DEF Alone
      <4>2. Balance(caller[v], refilled[v]) /\ table[caller[v]] # NoBucket
        BY <4>1, RateLimiterAssumption DEF Ledger, Holds, Consuming
      <4>3. QED
        BY <2>2, <2>3, <2>4, <3>2, <4>1, <4>2 DEF Balance, InTable
    <3>3. QED
      BY <3>1, <3>2
  <2>10. QED
    BY <2>7, <2>8, <2>9 DEF Ledger
<1>5. ASSUME NEW w \in Threads, Admit(w) PROVE Ledger'
  <2>1. pc[w] = "take" /\ caller[w] \in Callers /\ Mine(w) \in Buckets
    BY <1>5 DEF Admit, TypeOK, Holds, Consuming, Buckets, Mine
  <2>2. /\ table' = table /\ since' = since
        /\ \A c \in Callers \ {caller[w]} : admitted'[c] = admitted[c] /\ spent'[c] = spent[c]
        /\ \A b \in Buckets \ {Mine(w)} : tokens'[b] = tokens[b] /\ last'[b] = last[b]
    BY <1>5, <2>1 DEF Admit
  <2>3. \A v \in Threads \ {w} :
          pc'[v] = pc[v] /\ caller'[v] = caller[v] /\ refilled'[v] = refilled[v]
    BY <1>5 DEF Admit, Return, Goto
  <2>4. ASSUME NEW c \in Patient, c # caller[w], table[c] # NoBucket
        PROVE  InTable(c) \in Buckets \ {Mine(w)} /\ c \in Callers
    BY <2>4, RateLimiterAssumption DEF TypeOK, Buckets, InTable, Mine
  <2>5. ASSUME NEW c \in Patient, c # caller[w], table[c] # NoBucket, NEW level, Balance(c, level)
        PROVE  Balance(c, level)'
    BY <2>2, <2>4, <2>5 DEF Balance, InTable
  <2>6. pc'[w] = "free" /\ last' = last
    BY <1>5 DEF Admit, Return, Goto, TypeOK
  <2>7. ASSUME NEW c \in Patient, c = caller[w] PROVE Balance(c, tokens[InTable(c)])'
    <3>1. InTable(c) = Mine(w) /\ InTable(c)' = Mine(w)
      BY <2>1, <2>2, <2>7 DEF Holds, Consuming, InTable, Mine
    <3>2. Balance(c, refilled[w]) /\ last[Mine(w)] = now[w]
      BY <2>1, <2>7 DEF Ledger, Stamps, StampOf
    <3>3. /\ refilled[w] >= 1 /\ tokens'[Mine(w)] = refilled[w] - 1
          /\ spent'[c] = now[w]
          /\ admitted'[c] = IF now[w] >= since THEN admitted[c] + 1 ELSE admitted[c]
      BY <1>5, <2>1, <2>7 DEF Admit, TypeOK
    <3>4. /\ refilled[w] \in Int /\ last[Mine(w)] \in Nat /\ now[w] \in Nat
          /\ since \in Nat /\ admitted[c] \in Nat
      BY <2>1, <2>7 DEF TypeOK
    <3>5. QED
      BY <2>2, <2>6, <3>1, <3>2, <3>3, <3>4, RateLimiterAssumption DEF Balance
  <2>8. ASSUME NEW c \in Patient, table'[c] = NoBucket PROVE admitted'[c] = 0
    <3>1. c # caller[w]
      BY <2>1, <2>2, <2>8, RateLimiterAssumption DEF Holds, Consuming
    <3>2. QED
      BY <2>2, <2>8, <3>1, RateLimiterAssumption DEF Ledger
  <2>9. ASSUME NEW c \in Patient, table'[c] # NoBucket,
               \A v \in Threads : pc'[v] = "take" => caller'[v] # c
        PROVE  Balance(c, tokens[InTable(c)])'
    <3>1. CASE c # caller[w]
      <4>1. \A v \in Threads : pc[v] = "take" => caller[v] # c
        BY <2>3, <2>9, <3>1
      <4>2. Balance(c, tokens[InTable(c)])
        BY <2>2, <2>9, <4>1 DEF Ledger
      <4>3. QED
        BY <2>2, <2>4, <2>9, <3>1, <4>2 DEF Balance, InTable
    <3>2. QED
      BY <2>7, <3>1
  <2>10. ASSUME NEW v \in Threads, pc'[v] = "take", caller'[v] \in Patient
         PROVE  Balance(caller[v], refilled[v])'
    <3>1. v # w /\ pc[v] = "take" /\ caller[v] \in Patient
      BY <2>3, <2>6, <2>10
    <3>2. caller[v] # caller[w]
      BY <3>1 DEF Alone
    <3>3. Balance(caller[v], refilled[v]) /\ table[caller[v]] # NoBucket
      BY <3>1, RateLimiterAssumption DEF Ledger, Holds, Consuming
    <3>4. QED
      BY <2>2, <2>3, <2>4, <3>1, <3>2, <3>3 DEF Balance, InTable
  <2>11. QED
    BY <2>8, <2>9, <2>10 DEF Ledger
<1>6. ASSUME NEW w \in Threads, Deny(w) PROVE Ledger'
  <2>1. pc[w] = "take" /\ caller[w] \in Callers /\ Mine(w) \in Buckets
    BY <1>6 DEF Deny, TypeOK, Holds, Consuming, Buckets, Mine
  <2>2. /\ table' = table /\ since' = since
        /\ \A c \in Callers \ {caller[w]} : admitted'[c] = admitted[c] /\ spent'[c] = spent[c]
        /\ \A b \in Buckets \ {Mine(w)} : tokens'[b] = tokens[b] /\ last'[b] = last[b]
    BY <1>6, <2>1 DEF Deny, watched
  <2>3. \A v \in Threads \ {w} :
          pc'[v] = pc[v] /\ caller'[v] = caller[v] /\ refilled'[v] = refilled[v]
    BY <1>6 DEF Deny, Return, Goto
  <2>4. ASSUME NEW c \in Patient, c # caller[w], table[c] # NoBucket
        PROVE  InTable(c) \in Buckets \ {Mine(w)} /\ c \in Callers
    BY <2>4, RateLimiterAssumption DEF TypeOK, Buckets, InTable, Mine
  <2>5. ASSUME NEW c \in Patient, c # caller[w], table[c] # NoBucket, NEW level, Balance(c, level)
        PROVE  Balance(c, level)'
    BY <2>2, <2>4, <2>5 DEF Balance, InTable
  <2>6. pc'[w] = "free" /\ last' = last
    BY <1>6 DEF Deny, Return, Goto, TypeOK
  <2>7. ASSUME NEW c \in Patient, c = caller[w] PROVE Balance(c, tokens[InTable(c)])'
    <3>1. InTable(c) = Mine(w) /\ InTable(c)' = Mine(w)
      BY <2>1, <2>2, <2>7 DEF Holds, Consuming, InTable, Mine
    <3>2. Balance(c, refilled[w]) /\ last[Mine(w)] = now[w]
      BY <2>1, <2>7 DEF Ledger, Stamps, StampOf
    <3>3. tokens'[Mine(w)] = refilled[w] /\ spent' = spent /\ admitted' = admitted
      BY <1>6, <2>1, <2>7 DEF Deny, TypeOK, watched
    <3>4. /\ refilled[w] \in Int /\ last[Mine(w)] \in Nat /\ now[w] \in Nat
          /\ since \in Nat /\ admitted[c] \in Nat
      BY <2>1, <2>7 DEF TypeOK
    <3>5. QED
      BY <2>2, <2>6, <3>1, <3>2, <3>3, <3>4 DEF Balance
  <2>8. ASSUME NEW c \in Patient, table'[c] = NoBucket PROVE admitted'[c] = 0
    <3>1. c # caller[w]
      BY <2>1, <2>2, <2>8, RateLimiterAssumption DEF Holds, Consuming
    <3>2. QED
      BY <2>2, <2>8, <3>1, RateLimiterAssumption DEF Ledger
  <2>9. ASSUME NEW c \in Patient, table'[c] # NoBucket,
               \A v \in Threads : pc'[v] = "take" => caller'[v] # c
        PROVE  Balance(c, tokens[InTable(c)])'
    <3>1. CASE c # caller[w]
      <4>1. \A v \in Threads : pc[v] = "take" => caller[v] # c
        BY <2>3, <2>9, <3>1
      <4>2. Balance(c, tokens[InTable(c)])
        BY <2>2, <2>9, <4>1 DEF Ledger
      <4>3. QED
        BY <2>2, <2>4, <2>9, <3>1, <4>2 DEF Balance, InTable
    <3>2. QED
      BY <2>7, <3>1
  <2>10. ASSUME NEW v \in Threads, pc'[v] = "take", caller'[v] \in Patient
         PROVE  Balance(caller[v], refilled[v])'
    <3>1. v # w /\ pc[v] = "take" /\ caller[v] \in Patient
      BY <2>3, <2>6, <2>10
    <3>2. caller[v] # caller[w]
      BY <3>1 DEF Alone
    <3>3. Balance(caller[v], refilled[v]) /\ table[caller[v]] # NoBucket
      BY <3>1, RateLimiterAssumption DEF Ledger, Holds, Consuming
    <3>4. QED
      BY <2>2, <2>3, <2>4, <3>1, <3>2, <3>3 DEF Balance, InTable
  <2>11. QED
    BY <2>8, <2>9, <2>10 DEF Ledger
<1>7. ASSUME Tick PROVE Ledger'
  BY <1>7 DEF Tick, Ledger, Balance, InTable, buckets, locals, watched
<1>8. ASSUME Watch PROVE Ledger'
  BY <1>8, RateLimiterAssumption
     DEF Watch, TypeOK, Holds, Ledger, Balance, InTable, Consuming, Buckets, buckets,
         locals
<1>9. ASSUME UNCHANGED vars PROVE Ledger'
  BY <1>9 DEF vars, Ledger, Balance, InTable, buckets, locals, watched
<1>10. QED
  BY <1>1, <1>2, <1>3, <1>4, <1>5, <1>6, <1>7, <1>8, <1>9 DEF Next, Consume

(* Inv is inductive.                                                       *)
LEMMA InvStep == Inv /\ [Next]_vars => Inv'
  BY TypeStep, AloneStep, HoldsStep, StampsStep, LedgerStep DEF Inv

(* Hence it always holds.                                                  *)
LEMMA Invariance == Spec => []Inv
  BY InitInv, InvStep, PTL DEF Spec

-----------------------------------------------------------------------------

(* Type correctness (TypeOK): no bucket ever holds more than the burst.    *)
THEOREM TypeCorrect == Spec => []TypeOK
<1>1. Inv => TypeOK
  BY DEF Inv
<1>2. QED
  BY Invariance, <1>1, PTL

(* A caller with one request at a time is granted at most a full bucket    *)
(* and what comes back, in every window of time.                           *)
THEOREM PatientBounded == Spec => []WindowBounded
<1>1. Inv => WindowBounded
  <2> SUFFICES ASSUME Inv, NEW c \in Patient PROVE WithinBurst(c)
    BY DEF WindowBounded
  <2>1. c \in Callers /\ admitted[c] \in Nat /\ since \in Nat /\ clock \in Nat /\ since <= clock
    BY RateLimiterAssumption DEF Inv, TypeOK, Stamps
  <2>2. CASE table[c] = NoBucket
    BY <2>1, <2>2, RateLimiterAssumption DEF Inv, Ledger, WithinBurst
  <2>3. ASSUME table[c] # NoBucket, NEW level \in Int, Balance(c, level) PROVE WithinBurst(c)
    <3>1. InTable(c) \in Buckets
      BY <2>1, <2>3 DEF Inv, TypeOK, Buckets, InTable
    <3>2. last[InTable(c)] \in Nat /\ last[InTable(c)] <= clock
      BY <3>1 DEF Inv, TypeOK, Stamps
    <3>3. QED
      BY <2>1, <2>3, <3>2, RateLimiterAssumption DEF Balance, WithinBurst
  <2>4. CASE table[c] # NoBucket
    <3>1. CASE \A w \in Threads : pc[w] = "take" => caller[w] # c
      <4>1. tokens[InTable(c)] \in Int
        BY <2>1, <2>4 DEF Inv, TypeOK, Buckets, InTable
      <4>2. QED
        BY <2>3, <2>4, <3>1, <4>1 DEF Inv, Ledger
    <3>2. ASSUME NEW w \in Threads, pc[w] = "take", caller[w] = c PROVE WithinBurst(c)
      <4>1. refilled[w] \in Int
        BY DEF Inv, TypeOK
      <4>2. QED
        BY <2>3, <2>4, <3>2, <4>1 DEF Inv, Ledger
    <3>3. QED
      BY <3>1, <3>2
  <2>5. QED
    BY <2>2, <2>4
<1>2. QED
  BY Invariance, <1>1, PTL

(* Such a caller is refused only within the tick of its last admission.    *)
THEOREM RefusalEarned == Spec => []DenialsEarned
<1>1. Inv => DenialsEarned
  <2> SUFFICES ASSUME Inv, NEW w \in Threads, pc[w] = "take", refilled[w] < 1,
                      caller[w] \in Patient
               PROVE  spent[caller[w]] = now[w]
    BY DEF DenialsEarned
  <2>1. Balance(caller[w], refilled[w]) /\ refilled[w] \in Int
    BY DEF Inv, TypeOK, Ledger
  <2>2. spent[caller[w]] = last[InTable(caller[w])]
    BY <2>1 DEF Balance
  <2>3. InTable(caller[w]) = Mine(w) /\ last[Mine(w)] = now[w]
    BY DEF Inv, Holds, Stamps, StampOf, Consuming, InTable, Mine
  <2>4. QED
    BY <2>2, <2>3
<1>2. QED
  BY Invariance, <1>1, PTL

=============================================================================
