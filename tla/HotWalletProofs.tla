--------------------------- MODULE HotWalletProofs ---------------------------
(***************************************************************************)
(* Proofs about HotWallet, for any number of requests and of threads that  *)
(* serve them, any policy, any number of restarts and a chain on which     *)
(* others open and close accounts at any time: the wallet keeps            *)
(* Custodian's promise, and what the account lookup found is false by the  *)
(* time of the transfer only if the account has changed in between.        *)
(***************************************************************************)
EXTENDS HotWallet, TLAPS

(* What others do to the chain.                                            *)
World ==
    \/ NewBlock \/ \E tx \in pool : Land(tx)
    \/ \E account : OthersOpen(account) \/ OwnerCloses(account)

Before == {"new", "blockhash", "account"}
After  == {"reply", "done", "lost"}

(* What the node has taken is what a thread was told, or has forgotten.    *)
OutcomeTrue ==
    \A j \in Jobs :
        /\ outcome[j] = "ok" => j \in granted
        /\ j \in granted => at[j] \in After

(* Every transaction the node has taken is one the wallet signed.          *)
PoolIsGranted == \A tx \in pool : \E k \in granted : tx = Tx(k)

(* Who is about to send without creating an account saw it, and who is     *)
(* about to create one either saw none or saw nothing: if that is not so   *)
(* now, somebody has changed it since.                                     *)
Overtaken(j) ==
    \/ blind[j] \/ j \in opened
    \/ \E k \in granted \ {j} : create[k] /\ Account(k) = Account(j)

SeenBefore ==
    \A j \in Jobs :
        /\ at[j] \in Before => ~create[j]
        /\ at[j] = "send" /\ Asks[j].asset # "SOL" /\ ~create[j] /\ Account(j) \notin accounts
             => j \in closed
        /\ at[j] = "send" /\ create[j] /\ Account(j) \in accounts => Overtaken(j)

Inv == TypeOK /\ OutcomeTrue /\ PoolIsGranted /\ SeenBefore

-----------------------------------------------------------------------------

(* Initially nothing has been asked of the node.                           *)
LEMMA InitInv == Init => Inv
<1> SUFFICES ASSUME Init PROVE Inv
  OBVIOUS
<1>1. TypeOK
  BY HotWalletAssumption DEF Init, TypeOK, Stages
<1>2. OutcomeTrue /\ PoolIsGranted
  BY DEF Init, OutcomeTrue, PoolIsGranted
<1>3. SeenBefore
  BY DEF Init, SeenBefore, Before
<1>4. QED
  BY <1>1, <1>2, <1>3 DEF Inv

(* Each step keeps the types.                                              *)
LEMMA StepType == ASSUME TypeOK, [Next]_vars PROVE TypeOK'
<1> USE DEF TypeOK
<1>1. ASSUME NEW j \in Jobs, Refuse(j) \/ Accept(j) PROVE TypeOK'
  BY <1>1 DEF Refuse, Accept, Goto, Stages, chain, others
<1>2. ASSUME NEW j \in Jobs, FetchBlockhash(j) PROVE TypeOK'
  BY <1>2 DEF FetchBlockhash, Goto, Stages, chain, others
<1>3. ASSUME NEW j \in Jobs, LookUp(j) PROVE TypeOK'
  BY <1>3 DEF LookUp, Goto, Stages, chain, others
<1>4. ASSUME NEW j \in Jobs, Send(j) PROVE TypeOK'
  BY <1>4 DEF Send, Goto, Stages, others
<1>5. ASSUME NEW j \in Jobs, SendRejected(j) PROVE TypeOK'
  BY <1>5 DEF SendRejected, Goto, Stages, chain, others
<1>6. ASSUME NEW j \in Jobs, GiveUp(j) \/ Reply(j) PROVE TypeOK'
  BY <1>6 DEF GiveUp, Reply, AnswerNo, Goto, Stages, chain, others
<1>7. CASE NewBlock
  <2>1. latest \in Nat /\ latest + 1 \in 0..MaxBlocks /\ 0..latest \subseteq 0..(latest + 1)
    BY <1>7, HotWalletAssumption DEF NewBlock
  <2>2. QED
    BY <1>7, <2>1 DEF NewBlock, worker, others
<1>8. CASE World
  <2>1. ASSUME NEW tx \in pool, Land(tx) PROVE TypeOK'
    BY <2>1 DEF Land, worker, others
  <2>2. ASSUME NEW account, OthersOpen(account) \/ OwnerCloses(account) PROVE TypeOK'
    BY <2>2, HotWalletAssumption DEF OthersOpen, OwnerCloses, Relying, worker
  <2>3. QED
    BY <1>7, <1>8, <2>1, <2>2 DEF World
<1>9. CASE Restart
  BY <1>9, HotWalletAssumption DEF Restart, Busy, Stages, chain, others
<1>10. CASE UNCHANGED vars
  BY <1>10 DEF vars, worker, chain, others
<1>11. QED
  BY <1>1, <1>2, <1>3, <1>4, <1>5, <1>6, <1>7, <1>8, <1>9, <1>10
     DEF World, Next, Step

(* What has been said of a transfer, and what the node found, is about a   *)
(* transaction that has been handed in.                                    *)
LEMMA StepOutcome == ASSUME TypeOK, OutcomeTrue, [Next]_vars PROVE OutcomeTrue'
<1> USE DEF TypeOK, OutcomeTrue, After
<1>1. ASSUME NEW j \in Jobs, Refuse(j) \/ Accept(j) \/ FetchBlockhash(j) \/ LookUp(j)
      PROVE  OutcomeTrue'
  BY <1>1 DEF Refuse, Accept, FetchBlockhash, LookUp, Goto
<1>2. ASSUME NEW j \in Jobs, Send(j) \/ SendRejected(j) PROVE OutcomeTrue'
  BY <1>2 DEF Send, SendRejected, Goto
<1>3. ASSUME NEW j \in Jobs, GiveUp(j) \/ Reply(j) PROVE OutcomeTrue'
  BY <1>3 DEF GiveUp, Reply, Goto
<1>4. CASE World \/ UNCHANGED vars
  BY <1>4 DEF World, NewBlock, Land, OthersOpen, OwnerCloses, vars, worker, others
<1>5. CASE Restart
  BY <1>5 DEF Restart, Busy
<1>6. QED
  BY <1>1, <1>2, <1>3, <1>4, <1>5 DEF World, Next, Step

(* A transfer the node has taken, or that is on its way to the node, keeps *)
(* its instructions and its blockhash.                                     *)
LEMMA Settled ==
    ASSUME TypeOK, OutcomeTrue, [Next]_vars, NEW k \in Jobs, at[k] \in After \cup {"send"}
    PROVE  create'[k] = create[k] /\ hash'[k] = hash[k] /\ blind'[k] = blind[k]
<1> USE DEF TypeOK, OutcomeTrue, After
<1>1. ASSUME NEW j \in Jobs, FetchBlockhash(j) \/ LookUp(j)
      PROVE  create'[k] = create[k] /\ hash'[k] = hash[k] /\ blind'[k] = blind[k]
  BY <1>1 DEF FetchBlockhash, LookUp
<1>2. ASSUME NEW j \in Jobs, \/ Refuse(j) \/ Accept(j) \/ Send(j) \/ SendRejected(j)
                             \/ GiveUp(j) \/ Reply(j)
      PROVE  create'[k] = create[k] /\ hash'[k] = hash[k] /\ blind'[k] = blind[k]
  BY <1>2 DEF Refuse, Accept, Send, SendRejected, GiveUp, Reply
<1>3. CASE World \/ Restart \/ UNCHANGED vars
  BY <1>3 DEF World, NewBlock, Land, OthersOpen, OwnerCloses, Restart, vars, worker
<1>4. QED
  BY <1>1, <1>2, <1>3 DEF World, Next, Step

(* Nothing is ever taken back.                                             *)
LEMMA Grows ==
    ASSUME [Next]_vars
    PROVE  granted \subseteq granted' /\ opened \subseteq opened' /\ closed \subseteq closed'
  BY DEF Next, Step, Refuse, Accept, FetchBlockhash, LookUp, Send, SendRejected, GiveUp,
         Reply, NewBlock, Land, OthersOpen, OwnerCloses, Restart, vars, chain, others

(* The node has no transactions but those of the wallet.                   *)
LEMMA StepPool ==
    ASSUME TypeOK, OutcomeTrue, PoolIsGranted, [Next]_vars PROVE PoolIsGranted'
<1>1. ASSUME NEW k \in granted PROVE k \in granted' /\ Tx(k)' = Tx(k)
  BY Settled, Grows DEF TypeOK, OutcomeTrue, After, Tx
<1>2. ASSUME NEW j \in Jobs, Send(j) PROVE PoolIsGranted'
  <2>1. j \in granted' /\ Tx(j)' = Tx(j) /\ pool' = pool \cup {Tx(j)}
    BY <1>2 DEF Send, Tx
  <2>2. QED
    BY <1>1, <2>1 DEF PoolIsGranted
<1>3. CASE pool' = pool
  BY <1>1, <1>3 DEF PoolIsGranted
<1>4. pool' = pool \/ \E j \in Jobs : Send(j)
  BY DEF Next, Step, Refuse, Accept, FetchBlockhash, LookUp, SendRejected, GiveUp, Reply,
         NewBlock, Land, OthersOpen, OwnerCloses, Restart, vars, chain
<1>5. QED
  BY <1>2, <1>3, <1>4

(* An account appears by a transfer that has been granted, or by others,   *)
(* who are noticed by those who have looked for it; and so are its owners. *)
LEMMA AccountChanges ==
    ASSUME TypeOK, PoolIsGranted, [Next]_vars, NEW j \in Jobs, at[j] = "send"
    PROVE  /\ Account(j) \in accounts' /\ Account(j) \notin accounts =>
                j \in opened' \/ \E k \in granted : create[k] /\ Account(k) = Account(j)
           /\ Account(j) \in accounts /\ Account(j) \notin accounts' => j \in closed'
<1>1. ASSUME NEW tx \in pool, Land(tx), Account(j) \in accounts', Account(j) \notin accounts
      PROVE  \E k \in granted : create[k] /\ Account(k) = Account(j)
  <2>1. tx.create /\ Account(j) = <<tx.to, tx.asset>>
    BY <1>1 DEF Land
  <2>2. PICK k \in granted : tx = Tx(k)
    BY DEF PoolIsGranted
  <2>3. QED
    BY <2>1, <2>2 DEF Tx, Account
<1>2. ASSUME NEW tx \in pool, Land(tx) PROVE accounts \subseteq accounts'
  BY <1>2 DEF Land
<1>3. ASSUME NEW account, OthersOpen(account)
      PROVE  /\ accounts \subseteq accounts'
             /\ Account(j) \in accounts' /\ Account(j) \notin accounts => j \in opened'
  BY <1>3 DEF OthersOpen, Relying
<1>4. ASSUME NEW account, OwnerCloses(account)
      PROVE  /\ accounts' \subseteq accounts
             /\ Account(j) \in accounts /\ Account(j) \notin accounts' => j \in closed'
  BY <1>4 DEF OwnerCloses, Relying
<1>5. CASE accounts' = accounts
  BY <1>5
<1>6. \/ accounts' = accounts \/ \E tx \in pool : Land(tx)
      \/ \E account : OthersOpen(account) \/ OwnerCloses(account)
  BY DEF Next, Step, Refuse, Accept, FetchBlockhash, LookUp, Send, SendRejected, GiveUp,
         Reply, NewBlock, Restart, vars, chain
<1>7. QED
  BY <1>1, <1>2, <1>3, <1>4, <1>5, <1>6

(* Having been overtaken lasts.                                            *)
LEMMA StaysOvertaken ==
    ASSUME TypeOK, OutcomeTrue, [Next]_vars,
           NEW j \in Jobs, at[j] \in After \cup {"send"}, Overtaken(j)
    PROVE  Overtaken(j)'
<1>1. CASE blind[j] \/ j \in opened
  BY <1>1, Settled, Grows DEF Overtaken
<1>2. ASSUME NEW k \in granted \ {j}, create[k], Account(k) = Account(j) PROVE Overtaken(j)'
  <2>1. k \in Jobs /\ at[k] \in After
    BY DEF TypeOK, OutcomeTrue
  <2>2. create'[k] /\ k \in granted' \ {j}
    BY <1>2, <2>1, Settled, Grows
  <2>3. QED
    BY <1>2, <2>2 DEF Overtaken, Account
<1>3. QED
  BY <1>1, <1>2 DEF Overtaken

(* Between the lookup and the transfer no change goes unnoticed.           *)
LEMMA StepSeen ==
    ASSUME TypeOK, OutcomeTrue, PoolIsGranted, SeenBefore, [Next]_vars PROVE SeenBefore'
<1> SUFFICES ASSUME NEW j \in Jobs
             PROVE  /\ at'[j] \in Before => ~create'[j]
                    /\ at'[j] = "send" /\ Asks[j].asset # "SOL" /\ ~create'[j]
                         => Account(j) \in accounts' \/ j \in closed'
                    /\ at'[j] = "send" /\ create'[j] /\ Account(j) \in accounts'
                         => Overtaken(j)'
  BY DEF SeenBefore, Account
<1>1. CASE FetchBlockhash(j)
  BY <1>1 DEF FetchBlockhash, Goto, SeenBefore, Before, TypeOK, chain
<1>2. CASE LookUp(j)
  BY <1>2 DEF LookUp, Goto, Before, TypeOK, Overtaken, chain
<1>3. CASE at[j] = "send" /\ at'[j] = "send"
  <2>1. create'[j] = create[j] /\ blind'[j] = blind[j]
    BY <1>3, Settled
  <2>2. ASSUME Asks[j].asset # "SOL", ~create'[j], Account(j) \notin accounts'
        PROVE  j \in closed'
    BY <1>3, <2>1, <2>2, Grows, AccountChanges DEF SeenBefore
  <2>3. ASSUME create'[j], Account(j) \in accounts' PROVE Overtaken(j)'
    <3>1. CASE Account(j) \in accounts
      BY <1>3, <2>1, <2>3, <3>1, StaysOvertaken DEF SeenBefore
    <3>2. CASE Account(j) \notin accounts
      <4>1. CASE j \in opened'
        BY <4>1 DEF Overtaken
      <4>2. ASSUME NEW k \in granted, create[k], Account(k) = Account(j) PROVE Overtaken(j)'
        <5>1. k # j
          BY <1>3 DEF OutcomeTrue, After
        <5>2. Overtaken(j)
          BY <4>2, <5>1 DEF Overtaken
        <5>3. QED
          BY <1>3, <5>2, StaysOvertaken
      <4>3. QED
        BY <1>3, <2>3, <3>2, <4>1, <4>2, AccountChanges
    <3>3. QED
      BY <3>1, <3>2
  <2>4. QED
    BY <1>3, <2>2, <2>3 DEF Before
<1>4. CASE /\ ~FetchBlockhash(j) /\ ~LookUp(j)
           /\ ~(at[j] = "send" /\ at'[j] = "send")
  <2> DEFINE Kept == /\ at'[j] # "send"
                     /\ at'[j] \in Before => at[j] \in Before /\ create'[j] = create[j]
  <2>1. ASSUME NEW i \in Jobs, Refuse(i) \/ Accept(i) \/ Send(i) \/ SendRejected(i)
        PROVE  Kept
    BY <1>4, <2>1 DEF Refuse, Accept, Send, SendRejected, Goto, Before, TypeOK
  <2>2. ASSUME NEW i \in Jobs, GiveUp(i) \/ Reply(i) PROVE Kept
    BY <1>4, <2>2 DEF GiveUp, Reply, Goto, Before, TypeOK
  <2>3. ASSUME NEW i \in Jobs, i # j, FetchBlockhash(i) \/ LookUp(i) PROVE Kept
    BY <1>4, <2>3 DEF FetchBlockhash, LookUp, Goto, Before, TypeOK
  <2>4. ASSUME Restart PROVE Kept
    BY <1>4, <2>4 DEF Restart, Busy, Before, TypeOK
  <2>5. ASSUME World \/ UNCHANGED vars PROVE Kept
    BY <1>4, <2>5 DEF World, NewBlock, Land, OthersOpen, OwnerCloses, Before, vars, worker
  <2>6. Kept
    BY <1>4, <2>1, <2>2, <2>3, <2>4, <2>5 DEF World, Next, Step
  <2>7. QED
    BY <2>6 DEF SeenBefore
<1>5. QED
  BY <1>1, <1>2, <1>3, <1>4

(* The invariant is inductive.                                             *)
LEMMA Invariance == Spec => []Inv
<1>1. Inv /\ [Next]_vars => Inv'
  BY StepType, StepOutcome, StepPool, StepSeen DEF Inv
<1>2. QED
  BY InitInv, <1>1, PTL DEF Spec

(* Type correctness of the threads, the node and the chain.                *)
THEOREM TypeCorrect == Spec => []TypeOK
<1>1. Inv => TypeOK
  BY DEF Inv
<1>2. QED
  BY Invariance, <1>1, PTL

(* No transfer lacks its account unless the owner closed it after it was   *)
(* looked for, and none meets an account it creates unless the lookup told *)
(* nothing or somebody opened it since.                                    *)
THEOREM LookupsSuffice == Spec => []AccountsAsSeen
<1>1. Inv => AccountsAsSeen
  <2> SUFFICES ASSUME Inv, NEW j \in Jobs, at[j] = "send"
               PROVE  /\ "missing" \in Faults(j) => j \in closed
                      /\ "exists" \in Faults(j) => Overtaken(j)
    BY DEF AccountsAsSeen, Overtaken
  <2> QED
    BY DEF Faults, Tx, Inv, SeenBefore
<1>2. QED
  BY Invariance, <1>1, PTL

-----------------------------------------------------------------------------

(* What the gateway accepts, by either door, the policy allows.            *)
LEMMA AcceptsEntitled == ASSUME NEW j \in Jobs, Accepts(Asks[j]) PROVE j \in Entitled
  BY HotWalletAssumption DEF Accepts, MeshAccepts, HttpAccepts, Supported, OverLimit, Entitled

(* One thread's move from one place to another is the custodian's from one *)
(* stage to another.                                                       *)
LEMMA StageMoves ==
    ASSUME TypeOK, NEW j \in Jobs, NEW place \in Stages, Goto(j, place)
    PROVE  /\ place \in {"blockhash", "account", "send"} => Stage' = [Stage EXCEPT ![j] = "open"]
           /\ place = "reply" => Stage' = [Stage EXCEPT ![j] = "tried"]
           /\ place = "done" => Stage' = [Stage EXCEPT ![j] = "closed"]
  BY DEF TypeOK, Goto, Stage, Stages

(* Every step of the gateway is one step of the custodian, or none. *)
LEMMA StepPromise ==
    ASSUME Inv, [Next]_vars
    PROVE  Promise!Next \/ UNCHANGED <<Stage, told, granted>>
<1> USE DEF Inv
<1>1. ASSUME NEW j \in Jobs, Accept(j) PROVE Promise!Consider(j)
  BY <1>1, AcceptsEntitled, StageMoves
     DEF Accept, Promise!Consider, Promise!Move, Stage, Stages
<1>2. ASSUME NEW j \in Jobs, Refuse(j) \/ GiveUp(j) PROVE Promise!Decline(j)
  BY <1>2, StageMoves
     DEF Refuse, GiveUp, AnswerNo, Promise!Decline, Promise!Move, Promise!Tell, Stage,
         Stages
<1>3. ASSUME NEW j \in Jobs, FetchBlockhash(j) \/ LookUp(j) PROVE UNCHANGED <<Stage, told, granted>>
  <2>1. Stage[j] = "open" /\ Stage' = [Stage EXCEPT ![j] = "open"]
    BY <1>3, StageMoves DEF FetchBlockhash, LookUp, Stage, Stages
  <2>2. Stage' = Stage
    BY <2>1 DEF Stage
  <2>3. QED
    BY <1>3, <2>2 DEF FetchBlockhash, LookUp
<1>4. ASSUME NEW j \in Jobs, Send(j) \/ SendRejected(j) PROVE Promise!Pay(j)
  BY <1>4, StageMoves
     DEF Send, SendRejected, Promise!Pay, Promise!Move, Stage, Stages
<1>5. ASSUME NEW j \in Jobs, Reply(j) PROVE Promise!Close(j)
  BY <1>5, StageMoves
     DEF Reply, AnswerNo, OutcomeTrue, Promise!Close, Promise!Move, Promise!Tell, Stage,
         Stages
<1>6. CASE World \/ UNCHANGED vars
  BY <1>6 DEF World, NewBlock, Land, OthersOpen, OwnerCloses, vars, worker, others, Stage
<1>7. CASE Restart
  <2>1. ASSUME NEW j \in Jobs
        PROVE  /\ at[j] = "new" => at'[j] = "new"
               /\ at[j] # "new" => at'[j] \in {"done", "lost"}
    BY <1>7 DEF Restart, Busy
  <2>2. Stage' = [j \in Jobs |-> IF Stage[j] = "new" THEN "new" ELSE "closed"]
    BY <2>1 DEF Stage
  <2>3. QED
    BY <1>7, <2>2 DEF Restart, Promise!Forget, Promise!Next
<1>8. QED
  BY <1>1, <1>2, <1>3, <1>4, <1>5, <1>6, <1>7 DEF World, Next, Step, Promise!Next

(* The wallet implements the custodian: only entitled requests are paid,   *)
(* once each, and "ok" is only said of what the node has taken.            *)
THEOREM PolicyKept == Spec => KeepsPolicy
<1>1. Init => Promise!Init
  BY DEF Init, Promise!Init, Stage
<1>2. Inv /\ [Next]_vars => [Promise!Next]_<<Stage, told, granted>>
  BY StepPromise
<1>3. QED
  BY Invariance, <1>1, <1>2, PTL DEF Spec, KeepsPolicy, Promise!Spec

=============================================================================
