------------------------------- MODULE HotWallet -------------------------------
(***************************************************************************)
(* Transfers from the gateway's hot wallet: TX_REQUEST (Mode 3) in the one *)
(* thread that serves the mesh, POST /v1/transfer in worker threads of the *)
(* HTTP server.  Both check the operator's policy, fetch a blockhash, look *)
(* for the recipient's token account, sign with the same key, hand the     *)
(* transaction to the same RPC node and answer; every RPC call is a step   *)
(* at which the threads interleave, and may raise.                         *)
(***************************************************************************)
EXTENDS Integers, FiniteSets

CONSTANTS
    Jobs,           \* requests, one for each arrival at the gateway
    Asks,           \* what each of them asks for
    HasHotWallet,   \* gateway.hot_wallet is configured
    Allowed,        \* gateway.allowed_requesters; empty: everybody
    Known,          \* KNOWN_TOKENS
    Limits,         \* transfer limit of each asset that has one
    Existing,       \* token accounts that may be there from the start
    Lifetime,       \* blocks for which the node takes a blockhash
    MaxAmount,      \* the largest amount an instruction holds: 2^64 - 1
    MaxBlocks,      \* bound: blocks made
    MaxChanges,     \* bound: accounts opened or closed by others
    MaxCrashes      \* bound: gateway restarts

(***************************************************************************)
(* A request: how it came, whose it is, whether the payload or the address *)
(* can be decoded, whether the signature (mesh) or the API key (HTTP) is   *)
(* right, and the transfer.  "SOL" is the asset that is not a token.       *)
(***************************************************************************)
ASSUME HotWalletAssumption ==
    /\ \A j \in Jobs :
         /\ Asks[j].via \in {"mesh", "http"}
         /\ Asks[j].decodes \in BOOLEAN /\ Asks[j].genuine \in BOOLEAN
         /\ Asks[j].amount \in Int
    /\ HasHotWallet \in BOOLEAN
    /\ "SOL" \notin Known
    /\ \A asset \in DOMAIN Limits : Limits[asset] \in Nat
    /\ Lifetime \in Nat /\ MaxAmount \in Nat
    /\ MaxBlocks \in Nat /\ MaxChanges \in Nat /\ MaxCrashes \in Nat

VARIABLES
    at,         \* where the thread that serves a request has got to
    hash,       \* the blockhash it has fetched
    create,     \* whether it puts a create-account instruction in front
    blind,      \* whether the account lookup raised
    outcome,    \* what _broadcast_to_solana returned
    told,       \* the answer sent: "nothing" until there is one
    latest,     \* the RPC node: latest block
    accounts,   \* token accounts on the chain
    pool,       \* transactions the node has accepted
    landed,     \* transactions on the chain
    granted,    \* requests whose transaction the node accepted
    opened,     \* requests whose account somebody else opened since the lookup
    closed,     \* requests whose account its owner closed since the lookup
    changes, crashes

worker == <<at, hash, create, blind, outcome>>
chain  == <<latest, accounts, pool, landed>>
others == <<opened, closed, changes>>
vars   == <<worker, told, chain, granted, others, crashes>>

Stages == {"new", "blockhash", "account", "send", "reply", "done", "lost"}

Busy(j) == at[j] \notin {"new", "done", "lost"}

Init ==
    /\ at = [j \in Jobs |-> "new"] /\ hash = [j \in Jobs |-> 0]
    /\ create = [j \in Jobs |-> FALSE] /\ blind = [j \in Jobs |-> FALSE]
    /\ outcome = [j \in Jobs |-> "none"] /\ told = [j \in Jobs |-> "nothing"]
    /\ latest = 0 /\ accounts \in SUBSET Existing /\ pool = {} /\ landed = {}
    /\ granted = {}
    /\ opened = {} /\ closed = {} /\ changes = 0 /\ crashes = 0

Goto(j, stage) == at' = [at EXCEPT ![j] = stage]

-----------------------------------------------------------------------------
(* The policy, as the two entry points check it.                           *)

\* Mutant: the limits of tokens are not looked up.
OverSolLimit(r) ==
    /\ r.asset = "SOL" /\ "SOL" \in DOMAIN Limits
    /\ r.amount > Limits["SOL"]

(* A token with no limit of its own has none.                              *)
OverLimit(r) ==
    /\ r.asset \in DOMAIN Limits
    /\ r.amount > Limits[r.asset]

Supported(r) == r.asset \in Known \cup {"SOL"}

MeshAccepts(r) ==
    /\ HasHotWallet /\ r.decodes /\ r.genuine
    /\ Allowed # {} => r.from \in Allowed
    /\ Supported(r) /\ ~OverLimit(r)

HttpAccepts(r) ==
    /\ r.genuine /\ HasHotWallet /\ r.decodes
    /\ Supported(r) /\ ~OverLimit(r)

Accepts(r) == IF r.via = "mesh" THEN MeshAccepts(r) ELSE HttpAccepts(r)

-----------------------------------------------------------------------------
(* The thread that serves a request.                                       *)

\* Mutant: an exception in a handler ends the thread of the mesh.
FreeUnlessRaised(j) ==
    Asks[j].via = "mesh" =>
        \A k \in Jobs : Asks[k].via = "mesh" =>
            ~Busy(k) /\ (at[k] = "done" => told[k] # "nothing")

(* One thread serves the mesh; an HTTP request has a worker of its own.    *)
Free(j) ==
    Asks[j].via = "mesh" =>
        \A k \in Jobs : Asks[k].via = "mesh" => ~Busy(k)

\* Mutant: no return after the NACK for an amount over the limit.
RefuseAndGoOn(j) ==
    /\ at[j] = "new" /\ Free(j)
    /\ Goto(j, IF OverLimit(Asks[j]) THEN "blockhash" ELSE "done")
    /\ told' = [told EXCEPT ![j] = "no"]
    /\ UNCHANGED <<hash, create, blind, outcome, chain, granted, others, crashes>>

(* The rate limiter may turn any request away.  These refusals are short   *)
(* texts, so the answer is always sent.                                    *)
Refuse(j) ==
    /\ at[j] = "new" /\ Free(j)
    /\ Goto(j, "done")
    /\ told' = [told EXCEPT ![j] = "no"]
    /\ UNCHANGED <<hash, create, blind, outcome, chain, granted, others, crashes>>

Accept(j) ==
    /\ at[j] = "new" /\ Free(j)
    /\ Accepts(Asks[j])
    /\ Goto(j, "blockhash")
    /\ UNCHANGED <<hash, create, blind, outcome, told, chain, granted, others, crashes>>

FetchBlockhash(j) ==
    /\ at[j] = "blockhash"
    /\ hash' = [hash EXCEPT ![j] = latest]
    /\ Goto(j, IF Asks[j].asset = "SOL" THEN "send" ELSE "account")
    /\ UNCHANGED <<create, blind, outcome, told, chain, granted, others, crashes>>

Account(j) == <<Asks[j].to, Asks[j].asset>>

\* Mutant: an account that could not be looked up is taken to exist.
LookUpHopeful(j) ==
    /\ at[j] = "account"
    /\ \E raises \in BOOLEAN :
         /\ blind' = [blind EXCEPT ![j] = raises]
         /\ create' = [create EXCEPT ![j] = ~raises /\ Account(j) \notin accounts]
    /\ Goto(j, "send")
    /\ UNCHANGED <<hash, outcome, told, chain, granted, others, crashes>>

(* A lookup that raises counts as an account that does not exist.          *)
LookUp(j) ==
    /\ at[j] = "account"
    /\ \E raises \in BOOLEAN :
         /\ blind' = [blind EXCEPT ![j] = raises]
         /\ create' = [create EXCEPT ![j] = raises \/ Account(j) \notin accounts]
    /\ Goto(j, "send")
    /\ UNCHANGED <<hash, outcome, told, chain, granted, others, crashes>>

(* An amount that is no unsigned 64-bit number raises when it is packed.   *)
Buildable(j) == Asks[j].amount \in 0..MaxAmount

(* Equal transfers signed by one key under one blockhash are one and the   *)
(* same transaction.                                                       *)
Tx(j) ==
    [to |-> Asks[j].to, asset |-> Asks[j].asset, amount |-> Asks[j].amount,
     create |-> create[j], hash |-> hash[j]]

(* What the node's simulation finds wrong with a transaction.              *)
Faults(j) ==
    LET tx == Tx(j)
    IN  {f \in {"expired", "processed", "exists", "missing"} :
           \/ f = "expired"   /\ tx.hash + Lifetime < latest
           \/ f = "processed" /\ tx \in landed
           \/ f = "exists"    /\ tx.create /\ Account(j) \in accounts
           \/ f = "missing"   /\ tx.asset # "SOL" /\ ~tx.create /\ Account(j) \notin accounts}

(* The node takes the transaction, but the call may raise all the same     *)
(* (a timeout).                                                            *)
Send(j) ==
    /\ at[j] = "send" /\ Buildable(j) /\ Faults(j) = {}
    /\ pool' = pool \cup {Tx(j)}
    /\ granted' = granted \cup {j}
    /\ \E result \in {"ok", "failed"} : outcome' = [outcome EXCEPT ![j] = result]
    /\ Goto(j, "reply")
    /\ UNCHANGED <<hash, create, blind, told, latest, accounts, landed, others, crashes>>

(* The node refuses it, or cannot be reached.                              *)
SendRejected(j) ==
    /\ at[j] = "send" /\ Buildable(j)
    /\ outcome' = [outcome EXCEPT ![j] = "failed"]
    /\ Goto(j, "reply")
    /\ UNCHANGED <<hash, create, blind, told, chain, granted, others, crashes>>

(* An answer that quotes an exception may exceed MAX_CHUNK_DATA: on the    *)
(* mesh pack_message then raises in the handler, and nothing is sent.      *)
TooLong(j) == Asks[j].via = "mesh"

AnswerNo(j) ==
    \/ told' = [told EXCEPT ![j] = "no"]
    \/ TooLong(j) /\ UNCHANGED told

(* The blockhash cannot be fetched, or the transaction cannot be built.    *)
GiveUp(j) ==
    /\ at[j] = "blockhash" \/ (at[j] = "send" /\ ~Buildable(j))
    /\ AnswerNo(j)
    /\ Goto(j, "done")
    /\ UNCHANGED <<hash, create, blind, outcome, chain, granted, others, crashes>>

Reply(j) ==
    /\ at[j] = "reply"
    /\ IF outcome[j] = "ok" THEN told' = [told EXCEPT ![j] = "ok"] ELSE AnswerNo(j)
    /\ Goto(j, "done")
    /\ UNCHANGED <<hash, create, blind, outcome, chain, granted, others, crashes>>

-----------------------------------------------------------------------------
(* The world.                                                              *)

NewBlock ==
    /\ latest < MaxBlocks
    /\ latest' = latest + 1
    /\ UNCHANGED <<worker, told, accounts, pool, landed, granted, others, crashes>>

(* An accepted transaction is executed, if it still can be.                *)
Land(tx) ==
    /\ tx \in pool \ landed
    /\ tx.hash + Lifetime >= latest
    /\ tx.asset = "SOL" \/ (tx.create <=> <<tx.to, tx.asset>> \notin accounts)
    /\ landed' = landed \cup {tx}
    /\ accounts' = IF tx.create THEN accounts \cup {<<tx.to, tx.asset>>} ELSE accounts
    /\ UNCHANGED <<worker, told, latest, pool, granted, others, crashes>>

(* Requests for tokens: SOL needs no account.                              *)
Transfers == {j \in Jobs : Asks[j].asset # "SOL"}

(* Requests that have looked for this account and not yet sent.            *)
Relying(account) == {j \in Jobs : at[j] = "send" /\ Account(j) = account}

(* The chain is everybody's: an owner closes an empty account, and any     *)
(* wallet may pay for somebody's new one.                                  *)
OthersOpen(account) ==
    /\ changes < MaxChanges /\ account \notin accounts
    /\ accounts' = accounts \cup {account}
    /\ opened' = opened \cup Relying(account)
    /\ changes' = changes + 1
    /\ UNCHANGED <<worker, told, latest, pool, landed, granted, closed, crashes>>

OwnerCloses(account) ==
    /\ changes < MaxChanges /\ account \in accounts
    /\ accounts' = accounts \ {account}
    /\ closed' = closed \cup Relying(account)
    /\ changes' = changes + 1
    /\ UNCHANGED <<worker, told, latest, pool, landed, granted, opened, crashes>>

(* The gateway process ends and is started again: what its threads were at *)
(* is lost.                                                                *)
Restart ==
    /\ crashes < MaxCrashes
    /\ crashes' = crashes + 1
    /\ at' = [j \in Jobs |-> IF Busy(j) THEN "lost" ELSE at[j]]
    /\ UNCHANGED <<hash, create, blind, outcome, told, chain, granted, others>>

Step(j) ==
    \/ Refuse(j) \/ Accept(j) \/ FetchBlockhash(j) \/ LookUp(j)
    \/ Send(j) \/ SendRejected(j) \/ GiveUp(j) \/ Reply(j)

Next ==
    \/ \E j \in Jobs : Step(j)
    \/ NewBlock
    \/ \E tx \in pool : Land(tx)
    \/ \E account \in {Account(j) : j \in Transfers} : OthersOpen(account) \/ OwnerCloses(account)
    \/ Restart

Spec == Init /\ [][Next]_vars

(* As long as some thread can run, one does: the RPC client's calls return *)
(* or time out.                                                            *)
FairSpec == Spec /\ WF_vars(\E j \in Jobs : Step(j))

-----------------------------------------------------------------------------
(* Correctness.                                                            *)

(* Type invariant of the threads, the node and the chain; an answer is the *)
(* last thing a handler does.                                              *)
TypeOK ==
    /\ at \in [Jobs -> Stages] /\ hash \in [Jobs -> Nat]
    /\ create \in [Jobs -> BOOLEAN] /\ blind \in [Jobs -> BOOLEAN]
    /\ outcome \in [Jobs -> {"none", "ok", "failed"}]
    /\ told \in [Jobs -> {"nothing", "ok", "no"}]
    /\ \A j \in Jobs : told[j] # "nothing" => at[j] = "done"
    /\ latest \in 0..MaxBlocks /\ changes \in 0..MaxChanges /\ crashes \in 0..MaxCrashes
    /\ opened \subseteq Jobs /\ closed \subseteq Jobs
    /\ landed \subseteq pool /\ granted \subseteq Jobs

(* The policy, as README.md:270-305 states it: a signature by a listed key *)
(* or an API key, a supported asset, and the same limits for both.         *)
Entitled ==
    {j \in Jobs :
        LET r == Asks[j]
        IN  /\ HasHotWallet /\ r.genuine
            /\ r.via = "http" \/ Allowed = {} \/ r.from \in Allowed
            /\ r.asset \in Known \cup {"SOL"}
            /\ r.asset \in DOMAIN Limits => r.amount <= Limits[r.asset]}

(* How far the custodian of the promise has got with each request.         *)
Stage ==
    [j \in Jobs |->
        CASE at[j] = "new" -> "new"
          [] at[j] \in {"blockhash", "account", "send"} -> "open"
          [] at[j] = "reply" -> "tried"
          [] OTHER -> "closed"]

Promise == INSTANCE Custodian WITH stage <- Stage

(* Whatever the threads, the node's failures and the restarts do, only an  *)
(* entitled request is paid, once; a request that was turned away is never *)
(* paid; and "ok" is only said of a transaction the node has taken.        *)
KeepsPolicy == Promise!Spec

(* The account lookup and the transfer are two RPC calls, on a chain that  *)
(* changes in between.  A transfer about to be handed to the node lacks    *)
(* its account only if the owner closed it after the lookup; an account    *)
(* is in the way of the one it creates only if the lookup raised, or       *)
(* somebody opened it since: another wallet, or a transfer of this one.    *)
AccountsAsSeen ==
    \A j \in Jobs : at[j] = "send" =>
        /\ "missing" \in Faults(j) => j \in closed
        /\ "exists" \in Faults(j) =>
             \/ blind[j] \/ j \in opened
             \/ \E k \in granted \ {j} : create[k] /\ Account(k) = Account(j)

(* The thread of the mesh comes to everyone, whatever a handler before     *)
(* raised, and unless the gateway restarts everyone is answered, but for   *)
(* the mesh requests that failed with an error text too long to send.      *)
EveryoneServed ==
    <>(\A j \in Jobs :
         \/ at[j] = "lost"
         \/ at[j] = "done" /\ (told[j] = "nothing" => TooLong(j) /\ outcome[j] # "ok"))

=============================================================================
