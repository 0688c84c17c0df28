------------------------------- MODULE ChunkRelay -------------------------------
(***************************************************************************)
(* Mode 1: a signed transaction is cut into chunks, sent over the mesh     *)
(* with per-chunk ACKs and a bounded number of retries, put together by    *)
(* the gateway, and broadcast; the outcome comes back by message id.       *)
(*                                                                         *)
(* Several relays run at once: the retry loop of one transaction is still  *)
(* running when the next is sent, and several nodes share the gateway.     *)
(***************************************************************************)
EXTENDS Naturals, FiniteSets

CONSTANTS
    Nodes,          \* mesh nodes that relay
    MsgIds,         \* message ids: 16 random bits
    NoId,           \* not relayed yet
    Txs,            \* signed transactions
    Owner,          \* the node each transaction is relayed by
    Chunks,         \* into how many chunks each is cut
    Retries,        \* MAX_RETRIES
    Burst,          \* tokens in a full rate-limit bucket
    MaxLosses,      \* bound: packets lost
    MaxDrops,       \* bound: expired buffers and gateway restarts
    MaxRefills      \* bound: tokens that come back

ASSUME ChunkRelayAssumption ==
    /\ NoId \notin MsgIds
    /\ Owner \in [Txs -> Nodes]
    /\ Chunks \in [Txs -> Nat \ {0}]
    /\ Retries \in Nat /\ Burst \in Nat \ {0}
    /\ MaxLosses \in Nat /\ MaxDrops \in Nat /\ MaxRefills \in Nat

VARIABLES
    id,         \* the message id of each relay
    stage,      \* what the relay's thread is doing
    round,      \* retry rounds it has made
    unsent,     \* chunks it is about to transmit
    acked,      \* _acked_chunks of each node
    results,    \* _results of each node
    outcome,    \* what the caller of wait_for_result was told
    air,        \* packets on the mesh
    tokens,     \* the gateway's rate-limit buckets
    buffers,    \* the gateway's reassembly buffers; total 0 is no buffer
    broadcasts, \* what the gateway has handed to the RPC node
    accepted,   \* transactions the RPC node has taken
    losses, drops, refills

client  == <<id, stage, round, unsent, outcome>>
gateway == <<tokens, buffers, broadcasts, accepted>>
env     == <<losses, drops, refills>>
vars    == <<client, acked, results, air, gateway, env>>

Stages == {"new", "sending", "acknowledged", "gave up"}

Numbers(t) == 0..(Chunks[t] - 1)

Keys == Nodes \X MsgIds

NoBuffer == [total |-> 0, parts |-> {}]

Init ==
    /\ id = [t \in Txs |-> NoId] /\ stage = [t \in Txs |-> "new"]
    /\ round = [t \in Txs |-> 0] /\ unsent = [t \in Txs |-> {}]
    /\ acked = [k \in Keys |-> {}] /\ results = [k \in Keys |-> "none"]
    /\ outcome = [t \in Txs |-> "none"]
    /\ air = {}
    /\ tokens = [s \in Nodes |-> Burst] /\ buffers = [k \in Keys |-> NoBuffer]
    /\ broadcasts = {} /\ accepted = {}
    /\ losses = 0 /\ drops = 0 /\ refills = 0

KeyOf(t) == <<Owner[t], id[t]>>

Unacked(t) == Numbers(t) \ acked[KeyOf(t)]

-----------------------------------------------------------------------------
(* The client: relay_raw_tx and its thread, _retry_loop.                   *)

(* A new id is taken (16 random bits: assumed not to be one of the same    *)
(* node's other relays, though another node may well use it); the thread   *)
(* starts with every chunk to send.                                        *)
Relay(t) ==
    /\ stage[t] = "new"
    /\ \E m \in MsgIds :
         /\ \A u \in Txs : Owner[u] = Owner[t] => id[u] # m
         /\ id' = [id EXCEPT ![t] = m]
         /\ acked' = [acked EXCEPT ![<<Owner[t], m>>] = {}]
    /\ stage' = [stage EXCEPT ![t] = "sending"]
    /\ unsent' = [unsent EXCEPT ![t] = Numbers(t)]
    /\ UNCHANGED <<round, outcome, results, air, gateway, env>>

Packet(t, n) ==
    [kind |-> "chunk", key |-> KeyOf(t), num |-> n, total |-> Chunks[t],
     tx |-> t, round |-> round[t]]

(* The chunks leave in order, each on its own.  Sending fails on a radio   *)
(* error: that ends the first transmission, and is ignored in a retry.     *)
Transmit(t) ==
    /\ \E n \in unsent[t] :
         /\ \A m \in unsent[t] : n <= m
         /\ \/ /\ air' = air \cup {Packet(t, n)}
               /\ unsent' = [unsent EXCEPT ![t] = @ \ {n}]
               /\ UNCHANGED losses
            \/ /\ losses < MaxLosses
               /\ losses' = losses + 1
               /\ unsent' = [unsent EXCEPT ![t] = IF round[t] = 0 THEN {} ELSE @ \ {n}]
               /\ UNCHANGED air
    /\ UNCHANGED <<id, stage, round, outcome, acked, results, gateway, drops, refills>>


(* ACK_TIMEOUT after a transmission: everything acknowledged, or another   *)
(* round.                                                                  *)
Wake(t) ==
    /\ stage[t] = "sending" /\ unsent[t] = {} /\ round[t] < Retries
    /\ IF Unacked(t) = {}
       THEN /\ stage' = [stage EXCEPT ![t] = "acknowledged"]
            /\ UNCHANGED <<round, unsent>>
       ELSE /\ round' = [round EXCEPT ![t] = @ + 1]
            /\ unsent' = [unsent EXCEPT ![t] = Unacked(t)]
            /\ UNCHANGED stage
    /\ UNCHANGED <<id, outcome, acked, results, air, gateway, env>>

(* The final check comes RETRY_DELAY after the last retransmission, with   *)
(* no ACK_TIMEOUT for its ACK, and writes a failure over whatever _results *)
(* holds.                                                                  *)
FinalCheck(t) ==
    /\ stage[t] = "sending" /\ unsent[t] = {} /\ round[t] = Retries
    /\ IF Unacked(t) = {}
       THEN /\ stage' = [stage EXCEPT ![t] = "acknowledged"]
            /\ UNCHANGED results
       ELSE /\ stage' = [stage EXCEPT ![t] = "gave up"]
            /\ results' = [results EXCEPT ![KeyOf(t)] = "fail"]
    /\ UNCHANGED <<id, round, unsent, outcome, acked, air, gateway, env>>

(* wait_for_result, called once, after relay_raw_tx returns.  A wait that  *)
(* times out changes nothing: the outcome just stays unknown.              *)
Collect(t) ==
    /\ stage[t] # "new" /\ outcome[t] = "none"
    /\ results[KeyOf(t)] # "none"
    /\ outcome' = [outcome EXCEPT ![t] = results[KeyOf(t)]]
    /\ results' = [results EXCEPT ![KeyOf(t)] = "none"]
    /\ UNCHANGED <<id, stage, round, unsent, acked, air, gateway, env>>

-----------------------------------------------------------------------------
(* The client's handlers.                                                  *)

HearAck(p) ==
    /\ p \in air /\ p.kind = "ack"
    /\ air' = air \ {p}
    /\ acked' = [acked EXCEPT ![p.key] = @ \cup {p.num}]
    /\ UNCHANGED <<client, results, gateway, env>>

(* TX_RESULT and NACK alike: the later one is the one that stays.          *)
HearResult(p) ==
    /\ p \in air /\ p.kind = "result"
    /\ air' = air \ {p}
    /\ results' = [results EXCEPT ![p.key] = IF p.ok THEN "ok" ELSE "fail"]
    /\ UNCHANGED <<client, acked, gateway, env>>

-----------------------------------------------------------------------------
(* The gateway: _handle_tx_chunk.                                          *)

Ack(p) == [kind |-> "ack", key |-> p.key, num |-> p.num]

\* Mutant: the error string is sent as a signature.
ResultOk(p, ok) == [kind |-> "result", key |-> p.key, ok |-> TRUE]

Result(p, ok) == [kind |-> "result", key |-> p.key, ok |-> ok]

\* Mutant: the chunk is acknowledged before the rate limit is checked.
DenyAcked(p) ==
    /\ p \in air /\ p.kind = "chunk"
    /\ tokens[p.key[1]] = 0
    /\ air' = (air \ {p}) \cup {Ack(p), Result(p, FALSE)}
    /\ UNCHANGED <<client, acked, results, gateway, env>>

(* No token: a NACK, and the chunk is dropped.                             *)
Deny(p) ==
    /\ p \in air /\ p.kind = "chunk"
    /\ tokens[p.key[1]] = 0
    /\ air' = (air \ {p}) \cup {Result(p, FALSE)}
    /\ UNCHANGED <<client, acked, results, gateway, env>>

\* Mutant: buffers keyed by the message id alone.
BufferKeyById(p) == <<CHOOSE s \in Nodes : TRUE, p.key[2]>>

(* Which buffer a chunk goes to.                                           *)
BufferKey(p) == <<p.key[1], p.key[2]>>

(* receive_chunk: the first chunk of a key fixes the total; a chunk number *)
(* received again replaces the one that was there.                         *)
Received(p) ==
    LET old == buffers[BufferKey(p)]
    IN  [total |-> IF old.total = 0 THEN p.total ELSE old.total,
         parts |-> {part \in old.parts : part.num # p.num} \cup {[num |-> p.num, tx |-> p.tx]}]

Complete(buf) == Cardinality(buf.parts) = buf.total

Admit(p) ==
    /\ p \in air /\ p.kind = "chunk"
    /\ tokens[p.key[1]] > 0
    /\ tokens' = [tokens EXCEPT ![p.key[1]] = @ - 1]

Keep(p) ==
    /\ Admit(p)
    /\ ~Complete(Received(p))
    /\ buffers' = [buffers EXCEPT ![BufferKey(p)] = Received(p)]
    /\ air' = (air \ {p}) \cup {Ack(p)}
    /\ UNCHANGED <<client, acked, results, broadcasts, accepted, env>>

(* What was assembled is a transaction only if all of it is the same one's *)
(* chunks; otherwise the signature does not verify.                        *)
WholeTx(parts) ==
    {t \in Txs : parts = [num : Numbers(t), tx : {t}]}

(* The last missing chunk: the buffer goes, the bytes go to the RPC node,  *)
(* which takes them or not. A call that raises is a failure, even if the   *)
(* node has taken them. Whether what it took ever executes nobody asks.    *)
Broadcast(p) ==
    /\ Admit(p)
    /\ Complete(Received(p))
    /\ buffers' = [buffers EXCEPT ![BufferKey(p)] = NoBuffer]
    /\ broadcasts' = broadcasts \cup {Received(p).parts}
    /\ \E taken \in SUBSET WholeTx(Received(p).parts), raised \in BOOLEAN :
         /\ taken = {} => raised
         /\ accepted' = accepted \cup taken
         /\ air' = (air \ {p}) \cup {Ack(p), Result(p, ~raised)}
    /\ UNCHANGED <<client, acked, results, env>>

-----------------------------------------------------------------------------
(* The world.                                                              *)

Lose(p) ==
    /\ p \in air /\ losses < MaxLosses
    /\ losses' = losses + 1
    /\ air' = air \ {p}
    /\ UNCHANGED <<client, acked, results, gateway, drops, refills>>

(* CHUNK_REASSEMBLY_TIMEOUT after its first chunk a buffer is dropped.     *)
Expire(k) ==
    /\ buffers[k].total # 0 /\ drops < MaxDrops
    /\ drops' = drops + 1
    /\ buffers' = [buffers EXCEPT ![k] = NoBuffer]
    /\ UNCHANGED <<client, acked, results, air, tokens, broadcasts, accepted, losses, refills>>

(* A gateway that restarts has no buffers and full buckets.                *)
Restart ==
    /\ drops < MaxDrops
    /\ drops' = drops + 1
    /\ buffers' = [k \in Keys |-> NoBuffer]
    /\ tokens' = [s \in Nodes |-> Burst]
    /\ UNCHANGED <<client, acked, results, air, broadcasts, accepted, losses, refills>>

\* Mutant: the bucket is not capped at max_tokens.
RefillUncapped(s) ==
    /\ refills < MaxRefills
    /\ refills' = refills + 1
    /\ tokens' = [tokens EXCEPT ![s] = @ + 1]
    /\ UNCHANGED <<client, acked, results, air, buffers, broadcasts, accepted, losses, drops>>

(* Time passes: a token comes back, up to max_tokens.                      *)
Refill(s) ==
    /\ tokens[s] < Burst /\ refills < MaxRefills
    /\ refills' = refills + 1
    /\ tokens' = [tokens EXCEPT ![s] = @ + 1]
    /\ UNCHANGED <<client, acked, results, air, buffers, broadcasts, accepted, losses, drops>>

-----------------------------------------------------------------------------

Thread(t) == Transmit(t) \/ Wake(t) \/ FinalCheck(t)

Deliver(p) == HearAck(p) \/ HearResult(p) \/ Deny(p) \/ Keep(p) \/ Broadcast(p)

Next ==
    \/ \E t \in Txs : Relay(t) \/ Thread(t) \/ Collect(t)
    \/ \E p \in air : Deliver(p) \/ Lose(p)
    \/ \E k \in Keys : Expire(k)
    \/ Restart
    \/ \E s \in Nodes : Refill(s)

Spec == Init /\ [][Next]_vars

(* Threads run, and a packet that is not lost arrives.                     *)
Arrives == \E p \in air : Deliver(p)
FairSpec == Spec /\ (\A t \in Txs : WF_vars(Thread(t))) /\ WF_vars(Arrives)

-----------------------------------------------------------------------------
(* Correctness.                                                            *)

Parts == [num : Nat, tx : Txs]

(* Type invariant of the relays, the mesh and the gateway.                 *)
TypeOK ==
    /\ id \in [Txs -> MsgIds \cup {NoId}] /\ stage \in [Txs -> Stages]
    /\ round \in [Txs -> 0..Retries] /\ unsent \in [Txs -> SUBSET Nat]
    /\ acked \in [Keys -> SUBSET Nat] /\ results \in [Keys -> {"none", "ok", "fail"}]
    /\ outcome \in [Txs -> {"none", "ok", "fail"}]
    /\ \A p \in air : /\ p.kind \in {"chunk", "ack", "result"} /\ p.key \in Keys
                      /\ p.kind # "result" => p.num \in Nat
    /\ tokens \in [Nodes -> 0..Burst]
    /\ buffers \in [Keys -> [total : Nat, parts : SUBSET Parts]]
    /\ broadcasts \subseteq SUBSET Parts /\ accepted \subseteq Txs
    /\ losses \in 0..MaxLosses /\ drops \in 0..MaxDrops /\ refills \in 0..MaxRefills

Whole(t) == [num : Numbers(t), tx : {t}]

(* README.md:303: nodes that happen on the same message id do not mix      *)
(* their chunks: all the gateway ever broadcasts is one transaction's own. *)
BroadcastsAreWhole == \A parts \in broadcasts : WholeTx(parts) # {}

(* A caller told that its transaction was sent: the RPC node has taken it, *)
(* whole; never on the strength of another relay's result, of a denial or  *)
(* of an error. (Nothing in the code waits for it to be executed.)         *)
OkMeansAccepted == \A t \in Txs : outcome[t] = "ok" => t \in accepted

(* When the thread stops because all is acknowledged, the transaction has  *)
(* been put together and broadcast, unless the gateway dropped a buffer in *)
(* the meantime: no loss, duplicate or denial leaves a silent gap.         *)
AcknowledgedIsBroadcast ==
    \A t \in Txs : stage[t] = "acknowledged" /\ drops = 0 => Whole(t) \in broadcasts

(* relay_raw_tx has returned; the thread has sent nothing yet.             *)
Starting(t) == stage[t] = "sending" /\ round[t] = 0 /\ unsent[t] = Numbers(t)

(* A result for this relay is under way: before it is broadcast, that is   *)
(* the NACK of a chunk denied for its rate.                                *)
ResultUnderWay(t) == \E p \in air : p.kind = "result" /\ p.key = KeyOf(t)


=============================================================================
