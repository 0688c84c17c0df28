--------------------------- MODULE ChunkRelayProofs ---------------------------
(***************************************************************************)
(* Proofs about ChunkRelay, for any number of nodes, transactions, chunks  *)
(* and retries and any losses, drops and refills.  What makes the three    *)
(* invariants hold is that a buffer only ever has chunks of the one relay  *)
(* that has its key, and never all of them.                                *)
(***************************************************************************)
EXTENDS ChunkRelay, FiniteSetTheorems, TLAPS

Relayed(t) == id[t] # NoId

(* Relays of one node differ in their id; and a relay has one from its     *)
(* start.                                                                  *)
IdsDiffer ==
    /\ \A t, u \in Txs : Relayed(t) /\ KeyOf(t) = KeyOf(u) => t = u
    /\ \A t \in Txs : /\ stage[t] = "new" <=> ~Relayed(t)
                      /\ stage[t] = "new" => unsent[t] = {}
                      /\ unsent[t] \subseteq Numbers(t)

(* A packet on the mesh has the key of a relay, and a chunk is that        *)
(* relay's.                                                                *)
ChunkOfOwn(p) ==
    /\ p.tx \in Txs /\ Relayed(p.tx) /\ p.key = KeyOf(p.tx)
    /\ p.num \in Numbers(p.tx) /\ p.total = Chunks[p.tx]

PacketsOwn ==
    \A p \in air :
        /\ \E t \in Txs : Relayed(t) /\ p.key = KeyOf(t)
        /\ p.kind = "chunk" => ChunkOfOwn(p)

(* A buffer has some, but not all, chunks of the relay that has its key.   *)
Partial(buf, t) ==
    /\ buf.total = Chunks[t]
    /\ buf.parts \subseteq Whole(t) /\ buf.parts # Whole(t)

BuffersOwn ==
    \A k \in Keys :
        \/ buffers[k] = NoBuffer
        \/ \E t \in Txs : Relayed(t) /\ KeyOf(t) = k /\ Partial(buffers[k], t)

(* Success is reported for a transaction the node took, by its own key.   *)
AcceptedAs(k) == \E t \in accepted : Relayed(t) /\ KeyOf(t) = k

SuccessOwn ==
    /\ \A p \in air : p.kind = "result" /\ p.ok = TRUE => AcceptedAs(p.key)
    /\ \A k \in Keys : results[k] = "ok" => AcceptedAs(k)

(* What has been acknowledged is in the buffer until all of it is          *)
(* broadcast.                                                              *)
Kept(t, n) == Whole(t) \in broadcasts \/ [num |-> n, tx |-> t] \in buffers[KeyOf(t)].parts

AcksKept ==
    drops = 0 =>
        \A t \in Txs : Relayed(t) =>
            /\ \A n \in acked[KeyOf(t)] : Kept(t, n)
            /\ \A p \in air : p.kind = "ack" /\ p.key = KeyOf(t) => Kept(t, p.num)

Inv ==
    /\ TypeOK /\ IdsDiffer /\ PacketsOwn /\ BuffersOwn /\ SuccessOwn /\ AcksKept
    /\ BroadcastsAreWhole /\ OkMeansAccepted /\ AcknowledgedIsBroadcast

-----------------------------------------------------------------------------
(* Chunks.                                                                 *)

(* A transaction has as many chunks as it was cut into.                    *)
LEMMA WholeSize ==
    ASSUME NEW t \in Txs
    PROVE  IsFiniteSet(Whole(t)) /\ Cardinality(Whole(t)) = Chunks[t]
<1>1. Chunks[t] \in Nat /\ Chunks[t] > 0
  BY ChunkRelayAssumption
<1>2. IsFiniteSet(Numbers(t)) /\ Cardinality(Numbers(t)) = Chunks[t]
  <2>1. Chunks[t] - 1 \in Int /\ 0 \in Int /\ ~(0 > Chunks[t] - 1) /\ (Chunks[t] - 1) - 0 + 1 = Chunks[t]
    BY <1>1
  <2>2. QED
    BY <2>1, FS_Interval, Zenon DEF Numbers
<1> DEFINE chunk == [n \in Numbers(t) |-> [num |-> n, tx |-> t]]
<1>3. chunk \in [Numbers(t) -> Whole(t)]
  BY DEF Whole
<1>4. chunk \in Injection(Numbers(t), Whole(t))
  <2>1. \A m, n \in Numbers(t) : chunk[m] = chunk[n] => m = n
    OBVIOUS
  <2>2. QED
    BY <1>3, <2>1 DEF Injection, IsInjective
<1>5. chunk \in Surjection(Numbers(t), Whole(t))
  <2>1. \A c \in Whole(t) : \E n \in Numbers(t) : chunk[n] = c
    <3> TAKE c \in Whole(t)
    <3>1. c.num \in Numbers(t) /\ c = [num |-> c.num, tx |-> t]
      BY DEF Whole
    <3>2. QED
      BY <3>1
  <2>2. QED
    BY <1>3, <2>1 DEF Surjection
<1>6. ExistsBijection(Numbers(t), Whole(t))
  BY <1>4, <1>5 DEF ExistsBijection, Bijection
<1>7. QED
  BY <1>2, <1>6, FS_Bijection

(* Two transactions have no chunk in common.                               *)
LEMMA WholeIsOne ==
    ASSUME NEW t \in Txs PROVE WholeTx(Whole(t)) = {t}
<1>1. [num |-> 0, tx |-> t] \in Whole(t)
  BY ChunkRelayAssumption DEF Whole, Numbers
<1>2. ASSUME NEW u \in Txs, Whole(t) = Whole(u) PROVE u = t
  <2>1. [num |-> 0, tx |-> t] \in [num : Numbers(u), tx : {u}]
    BY <1>1, <1>2 DEF Whole
  <2>2. QED
    BY <2>1
<1>3. QED
  BY <1>2 DEF WholeTx, Whole

(* What the gateway's buffer becomes when a chunk is received.             *)
LEMMA Reception ==
    ASSUME TypeOK, IdsDiffer, PacketsOwn, BuffersOwn, NEW p \in air, p.kind = "chunk"
    PROVE  /\ p.tx \in Txs /\ Relayed(p.tx) /\ KeyOf(p.tx) = p.key /\ BufferKey(p) = p.key
           /\ p.key \in Keys
           /\ [num |-> p.num, tx |-> p.tx] \in Received(p).parts
           /\ buffers[p.key].parts \subseteq Received(p).parts
           /\ Complete(Received(p)) => Received(p).parts = Whole(p.tx)
           /\ ~Complete(Received(p)) => Partial(Received(p), p.tx)
<1> DEFINE t == p.tx
           old == buffers[p.key]
           new == Received(p)
<1>1. /\ t \in Txs /\ Relayed(t) /\ p.key = KeyOf(t) /\ p.key \in Keys
      /\ p.num \in Numbers(t) /\ p.total = Chunks[t]
  BY DEF PacketsOwn, ChunkOfOwn, TypeOK
<1>2. BufferKey(p) = p.key
  BY <1>1 DEF BufferKey, Keys
<1>3. old = NoBuffer \/ (old.total = Chunks[t] /\ old.parts \subseteq Whole(t))
  BY <1>1 DEF BuffersOwn, IdsDiffer, Partial
<1>4. Chunks[t] \in Nat \ {0}
  BY <1>1, ChunkRelayAssumption
<1>5. new.total = Chunks[t]
  BY <1>1, <1>2, <1>3, <1>4 DEF Received, NoBuffer
<1>6. /\ new.parts = {c \in old.parts : c.num # p.num} \cup {[num |-> p.num, tx |-> t]}
      /\ old.parts \subseteq Whole(t)
  BY <1>2, <1>3 DEF Received, NoBuffer
<1>7. new.parts \subseteq Whole(t) /\ old.parts \subseteq new.parts
  <2>1. [num |-> p.num, tx |-> t] \in Whole(t)
    BY <1>1 DEF Whole
  <2>2. \A c \in Whole(t) : c.num = p.num => c = [num |-> p.num, tx |-> t]
    BY DEF Whole
  <2>3. QED
    BY <1>6, <2>1, <2>2
<1>8. Complete(new) <=> new.parts = Whole(t)
  BY <1>1, <1>5, <1>7, WholeSize, FS_Subset DEF Complete
<1>9. QED
  BY <1>1, <1>2, <1>5, <1>6, <1>7, <1>8 DEF Partial

-----------------------------------------------------------------------------
(* Initially.                                                              *)

(* Before anything is sent the invariant holds: no packet, buffer or success exists. *)
LEMMA InitInv == Init => Inv
<1> SUFFICES ASSUME Init PROVE Inv
  OBVIOUS
<1>1. TypeOK
  BY ChunkRelayAssumption DEF Init, TypeOK, Stages, NoBuffer, Parts
<1>2. IdsDiffer /\ PacketsOwn /\ BuffersOwn /\ SuccessOwn /\ AcksKept
  BY DEF Init, IdsDiffer, Relayed, PacketsOwn, BuffersOwn, SuccessOwn, AcksKept
<1>3. BroadcastsAreWhole /\ OkMeansAccepted /\ AcknowledgedIsBroadcast
  BY DEF Init, BroadcastsAreWhole, OkMeansAccepted, AcknowledgedIsBroadcast
<1>4. QED
  BY <1>1, <1>2, <1>3 DEF Inv

-----------------------------------------------------------------------------
(* A step keeps each part of the invariant.                                *)

(* An id, once drawn, stays; and what is broadcast or accepted is          *)
(* never taken back.                                                       *)
LEMMA Lasting ==
    ASSUME TypeOK, IdsDiffer, [Next]_vars
    PROVE  /\ \A t \in Txs : Relayed(t) => id'[t] = id[t]
           /\ accepted \subseteq accepted' /\ broadcasts \subseteq broadcasts'
<1>1. \A t \in Txs : Relayed(t) => id'[t] = id[t]
  <2>1. ASSUME NEW t \in Txs, Relay(t) PROVE \A u \in Txs : Relayed(u) => id'[u] = id[u]
    BY <2>1 DEF Relay, IdsDiffer, TypeOK
  <2>2. id' = id \/ \E t \in Txs : Relay(t)
    BY DEF Next, Thread, Transmit, Wake, FinalCheck, Collect, Deliver, HearAck, HearResult,
           Deny, Keep, Broadcast, Lose, Expire, Restart, Refill, vars, client
  <2>3. QED
    BY <2>1, <2>2
<1>2. accepted \subseteq accepted' /\ broadcasts \subseteq broadcasts'
  BY DEF Next, Relay, Thread, Transmit, Wake, FinalCheck, Collect, Deliver, HearAck,
         HearResult, Deny, Keep, Broadcast, Lose, Expire, Restart, Refill, vars, gateway
<1>3. QED
  BY <1>1, <1>2

(* A relay keeps its message id, so the key of its buffer never changes. *)
LEMMA KeyLasting ==
    ASSUME TypeOK, IdsDiffer, [Next]_vars, NEW t \in Txs, Relayed(t)
    PROVE  Relayed(t)' /\ KeyOf(t)' = KeyOf(t)
  BY Lasting DEF Relayed, KeyOf

(* The gateway has dropped no buffer if it has not by now.                 *)
LEMMA DropsGrow == ASSUME TypeOK, [Next]_vars, drops' = 0 PROVE drops = 0
<1>1. drops' = drops \/ drops' = drops + 1
  BY DEF Next, Relay, Thread, Transmit, Wake, FinalCheck, Collect, Deliver, HearAck,
         HearResult, Deny, Keep, Broadcast, Lose, Expire, Restart, Refill, vars, env
<1>2. drops \in Nat
  BY ChunkRelayAssumption DEF TypeOK
<1>3. QED
  BY <1>1, <1>2

(* Two relays of one node never have the same message id. *)
LEMMA StepIds == ASSUME TypeOK, IdsDiffer, [Next]_vars PROVE IdsDiffer'
<1>1. ASSUME NEW t \in Txs, Relay(t) PROVE IdsDiffer'
  <2>1. PICK m \in MsgIds : /\ \A u \in Txs : Owner[u] = Owner[t] => id[u] # m
                            /\ id' = [id EXCEPT ![t] = m]
    BY <1>1 DEF Relay
  <2>2. m # NoId
    BY ChunkRelayAssumption
  <2>3. QED
    BY <1>1, <2>1, <2>2 DEF Relay, IdsDiffer, Relayed, KeyOf, TypeOK
<1>2. ASSUME NEW t \in Txs, Transmit(t) PROVE IdsDiffer'
  BY <1>2 DEF Transmit, IdsDiffer, Relayed, KeyOf, TypeOK
<1>3. ASSUME NEW t \in Txs, Wake(t) \/ FinalCheck(t) PROVE IdsDiffer'
  <2>1. id' = id /\ \A u \in Txs : stage'[u] = "new" <=> stage[u] = "new"
    BY <1>3 DEF Wake, FinalCheck, TypeOK
  <2>2. \A u \in Txs : unsent'[u] \subseteq Numbers(u)
    <3>1. unsent' = unsent \/ unsent' = [unsent EXCEPT ![t] = Unacked(t)]
      BY <1>3 DEF Wake, FinalCheck
    <3>2. Unacked(t) \subseteq Numbers(t)
      BY DEF Unacked
    <3>3. QED
      BY <3>1, <3>2 DEF IdsDiffer, TypeOK
  <2>3. stage[t] # "new" /\ \A u \in Txs \ {t} : unsent'[u] = unsent[u]
    BY <1>3 DEF Wake, FinalCheck, TypeOK
  <2>4. QED
    BY <2>1, <2>2, <2>3 DEF IdsDiffer, Relayed, KeyOf
<1>4. CASE UNCHANGED client
  BY <1>4 DEF client, IdsDiffer, Relayed, KeyOf
<1>5. ASSUME NEW t \in Txs, Collect(t) PROVE IdsDiffer'
  BY <1>5 DEF Collect, IdsDiffer, Relayed, KeyOf
<1>6. QED
  BY <1>1, <1>2, <1>3, <1>4, <1>5
     DEF Next, Thread, Deliver, HearAck, HearResult, Deny, Keep, Broadcast, Lose, Expire,
         Restart, Refill, vars

(* Types: what is received has the type of what is sent.                   *)
LEMMA StepType ==
    ASSUME TypeOK, IdsDiffer, PacketsOwn, BuffersOwn, [Next]_vars PROVE TypeOK'
<1> USE ChunkRelayAssumption
<1> DEFINE Typed(p) == /\ p.kind \in {"chunk", "ack", "result"} /\ p.key \in Keys
                       /\ p.kind # "result" => p.num \in Nat
<1>1. \A t \in Txs : Numbers(t) \in SUBSET Nat /\ Whole(t) \in SUBSET Parts
  BY DEF Numbers, Whole, Parts
<1>2. ASSUME NEW t \in Txs, Relayed(t) PROVE KeyOf(t) \in Keys
  BY <1>2 DEF TypeOK, Relayed, KeyOf, Keys
<1>3. ASSUME NEW t \in Txs, Relay(t) PROVE TypeOK'
  <2>1. PICK m \in MsgIds : /\ id' = [id EXCEPT ![t] = m]
                            /\ acked' = [acked EXCEPT ![<<Owner[t], m>>] = {}]
    BY <1>3 DEF Relay
  <2>2. id' \in [Txs -> MsgIds \cup {NoId}] /\ acked' \in [Keys -> SUBSET Nat]
    BY <2>1 DEF TypeOK
  <2>3. stage' \in [Txs -> Stages] /\ unsent' \in [Txs -> SUBSET Nat]
    BY <1>1, <1>3 DEF Relay, TypeOK, Stages
  <2>4. QED
    BY <1>3, <2>2, <2>3 DEF Relay, TypeOK, gateway, env
<1>4. ASSUME NEW t \in Txs, Transmit(t) PROVE TypeOK'
  <2>1. \A n \in Nat : Typed(Packet(t, n))
    BY <1>2, <1>4 DEF Packet, Transmit, IdsDiffer
  <2>2. unsent' \in [Txs -> SUBSET Nat]
    BY <1>4 DEF Transmit, TypeOK
  <2>3. losses' \in 0..MaxLosses
    BY <1>4 DEF Transmit, TypeOK
  <2>4. \A p \in air' : Typed(p)
    <3>1. \A p \in air' \ air : \E n \in unsent[t] : p = Packet(t, n)
      BY <1>4 DEF Transmit
    <3>2. unsent[t] \subseteq Nat
      BY DEF TypeOK
    <3>3. QED
      BY <2>1, <3>1, <3>2 DEF TypeOK
  <2>5. QED
    BY <1>4, <2>2, <2>3, <2>4 DEF Transmit, TypeOK, gateway
<1>5. ASSUME NEW t \in Txs, Wake(t) PROVE TypeOK'
  <2>1. Unacked(t) \subseteq Nat
    BY <1>1 DEF Unacked
  <2>2. round' \in [Txs -> 0..Retries]
    BY <1>5 DEF Wake, TypeOK
  <2>3. stage' \in [Txs -> Stages] /\ unsent' \in [Txs -> SUBSET Nat]
    <3>1. \/ stage' = stage /\ unsent' = [unsent EXCEPT ![t] = Unacked(t)]
          \/ stage' = [stage EXCEPT ![t] = "acknowledged"] /\ unsent' = unsent
      BY <1>5 DEF Wake
    <3>2. stage' \in [Txs -> Stages]
      BY <3>1 DEF TypeOK, Stages
    <3>3. unsent \in [Txs -> SUBSET Nat] /\ Unacked(t) \in SUBSET Nat
      BY <2>1 DEF TypeOK
    <3>4. unsent' \in [Txs -> SUBSET Nat]
      BY <3>1, <3>3
    <3>5. QED
      BY <3>2, <3>4
  <2>4. QED
    BY <1>5, <2>2, <2>3 DEF Wake, TypeOK, gateway, env
<1>6. ASSUME NEW t \in Txs, FinalCheck(t) PROVE TypeOK'
  BY <1>6 DEF FinalCheck, TypeOK, Stages, gateway, env
<1>7. ASSUME NEW t \in Txs, Collect(t) PROVE TypeOK'
  <2>1. results[KeyOf(t)] \in {"none", "ok", "fail"}
    BY <1>2, <1>7 DEF Collect, IdsDiffer, TypeOK
  <2>2. QED
    BY <1>7, <2>1 DEF Collect, TypeOK, gateway, env
<1>8. ASSUME NEW p \in air, HearAck(p) PROVE TypeOK'
  BY <1>8 DEF HearAck, TypeOK, client, gateway, env
<1>9. ASSUME NEW p \in air, HearResult(p) PROVE TypeOK'
  BY <1>9 DEF HearResult, TypeOK, client, gateway, env
<1>10. ASSUME NEW p \in air, Deny(p) PROVE TypeOK'
  BY <1>10 DEF Deny, Result, TypeOK, client, gateway, env
<1>11. ASSUME NEW p \in air, Keep(p) \/ Broadcast(p) PROVE TypeOK'
  <2>1. /\ p.kind = "chunk" /\ p.key \in Keys
        /\ tokens' \in [Nodes -> 0..Burst]
    BY <1>11 DEF Keep, Broadcast, Admit, TypeOK, Keys
  <2>2. p.tx \in Txs /\ BufferKey(p) = p.key
    BY <2>1, Reception
  <2>3. CASE Keep(p)
    <3>1. Received(p) \in [total : Nat, parts : SUBSET Parts]
      <4>1. Partial(Received(p), p.tx)
        BY <2>1, <2>3, Reception DEF Keep
      <4>2. \E n, parts : Received(p) = [total |-> n, parts |-> parts]
        BY DEF Received
      <4>3. QED
        BY <1>1, <2>2, <4>1, <4>2 DEF Partial
    <3>2. buffers' \in [Keys -> [total : Nat, parts : SUBSET Parts]]
      BY <2>2, <2>3, <3>1 DEF Keep, TypeOK
    <3>3. QED
      BY <2>1, <2>3, <3>2 DEF Keep, Ack, TypeOK, client, env
  <2>4. CASE Broadcast(p)
    <3>1. /\ broadcasts' \subseteq SUBSET Parts /\ accepted' \subseteq Txs
          /\ buffers' \in [Keys -> [total : Nat, parts : SUBSET Parts]]
      <4>1. Received(p).parts = Whole(p.tx)
        BY <2>1, <2>4, Reception DEF Broadcast
      <4>2. WholeTx(Received(p).parts) \subseteq Txs
        BY DEF WholeTx
      <4>3. broadcasts' = broadcasts \cup {Whole(p.tx)}
        BY <2>4, <4>1 DEF Broadcast
      <4>4. broadcasts' \subseteq SUBSET Parts
        BY <1>1, <2>2, <4>3 DEF TypeOK
      <4>5. accepted' \subseteq Txs
        BY <2>4, <4>2 DEF Broadcast, TypeOK
      <4>6. buffers' = [buffers EXCEPT ![p.key] = NoBuffer]
        BY <2>2, <2>4 DEF Broadcast
      <4>7. NoBuffer \in [total : Nat, parts : SUBSET Parts]
        BY DEF NoBuffer
      <4>8. QED
        BY <4>4, <4>5, <4>6, <4>7 DEF TypeOK
    <3>2. \A q \in air' : Typed(q)
      BY <2>1, <2>4 DEF Broadcast, Ack, Result, TypeOK
    <3>3. QED
      BY <2>1, <2>4, <3>1, <3>2 DEF Broadcast, TypeOK, client, env
  <2>5. QED
    BY <1>11, <2>3, <2>4
<1>12. ASSUME NEW p \in air, Lose(p) PROVE TypeOK'
  BY <1>12 DEF Lose, TypeOK, client, gateway
<1>13. ASSUME NEW k \in Keys, Expire(k) PROVE TypeOK'
  BY <1>13 DEF Expire, NoBuffer, TypeOK, client
<1>14. CASE Restart
  BY <1>14 DEF Restart, NoBuffer, TypeOK, client
<1>15. ASSUME NEW s \in Nodes, Refill(s) PROVE TypeOK'
  BY <1>15 DEF Refill, TypeOK, client
<1>16. CASE UNCHANGED vars
  BY <1>16 DEF TypeOK, vars, client, gateway, env
<1>17. QED
  BY <1>3, <1>4, <1>5, <1>6, <1>7, <1>8, <1>9, <1>10, <1>11, <1>12, <1>13, <1>14, <1>15, <1>16
     DEF Next, Thread, Deliver

(* A packet in the air has the key of a relay, and a chunk is of its transaction. *)
LEMMA StepPackets == ASSUME TypeOK, IdsDiffer, PacketsOwn, [Next]_vars PROVE PacketsOwn'
<1> DEFINE Keyed(p) == \E t \in Txs : Relayed(t) /\ p.key = KeyOf(t)
<1>1. ASSUME NEW p \in air PROVE Keyed(p)' /\ (p.kind = "chunk" => ChunkOfOwn(p)')
  BY KeyLasting DEF PacketsOwn, ChunkOfOwn
<1>2. ASSUME NEW t \in Txs, Transmit(t) PROVE PacketsOwn'
  <2>1. Relayed(t)' /\ KeyOf(t)' = KeyOf(t)
    BY <1>2, KeyLasting DEF IdsDiffer, Transmit
  <2>2. ASSUME NEW p \in air', p \notin air PROVE Keyed(p)' /\ ChunkOfOwn(p)'
    <3>1. PICK n \in unsent[t] : p = Packet(t, n)
      BY <1>2, <2>2 DEF Transmit
    <3>2. n \in Numbers(t)
      BY DEF IdsDiffer
    <3>3. p.tx = t /\ p.key = KeyOf(t) /\ p.num = n /\ p.total = Chunks[t]
      BY <3>1 DEF Packet
    <3>4. QED
      BY <2>1, <3>2, <3>3 DEF ChunkOfOwn
  <2>3. QED
    BY <1>1, <2>2 DEF PacketsOwn
<1>3. CASE \A p \in air' : p \in air \/ (p.kind # "chunk" /\ \E q \in air : p.key = q.key)
  BY <1>1, <1>3 DEF PacketsOwn
<1>4. ASSUME NEW p \in air, Deliver(p)
      PROVE  \A q \in air' : q \in air \/ (q.kind # "chunk" /\ q.key = p.key)
  <2>1. CASE HearAck(p) \/ HearResult(p)
    BY <2>1 DEF HearAck, HearResult
  <2>2. CASE Deny(p) \/ Keep(p)
    BY <2>2 DEF Deny, Keep, Ack, Result
  <2>3. CASE Broadcast(p)
    BY <2>3 DEF Broadcast, Ack, Result
  <2>4. QED
    BY <1>4, <2>1, <2>2, <2>3 DEF Deliver
<1>5. air' \subseteq air \/ (\E t \in Txs : Transmit(t)) \/ \E p \in air : Deliver(p)
  BY DEF Next, Relay, Thread, Wake, FinalCheck, Collect, Lose, Expire, Restart, Refill, vars
<1>6. QED
  BY <1>2, <1>3, <1>4, <1>5

(* A buffer that is open holds some chunks of the relay with its key, and not all. *)
LEMMA StepBuffers ==
    ASSUME TypeOK, IdsDiffer, PacketsOwn, BuffersOwn, [Next]_vars
    PROVE  BuffersOwn' /\ (BroadcastsAreWhole => BroadcastsAreWhole')
<1> DEFINE Own(k) == \/ buffers[k] = NoBuffer
                     \/ \E t \in Txs : Relayed(t) /\ KeyOf(t) = k /\ Partial(buffers[k], t)
<1>1. ASSUME NEW k \in Keys, buffers'[k] = buffers[k] PROVE Own(k)'
  BY <1>1, KeyLasting DEF BuffersOwn, Partial
<1>2. ASSUME NEW k \in Keys, buffers'[k] = NoBuffer PROVE Own(k)'
  BY <1>2
<1>3. ASSUME NEW p \in air, Keep(p) PROVE BuffersOwn' /\ broadcasts' = broadcasts
  <2>1. p.kind = "chunk"
    BY <1>3 DEF Keep, Admit
  <2>2. /\ p.tx \in Txs /\ Relayed(p.tx) /\ KeyOf(p.tx) = p.key /\ p.key \in Keys
        /\ Partial(Received(p), p.tx) /\ BufferKey(p) = p.key
    BY <1>3, <2>1, Reception DEF Keep
  <2>3. buffers' = [buffers EXCEPT ![p.key] = Received(p)] /\ broadcasts' = broadcasts
    BY <1>3, <2>2 DEF Keep
  <2>4. Own(p.key)'
    BY <2>2, <2>3, KeyLasting DEF TypeOK, Partial
  <2>5. \A k \in Keys : Own(k)'
    BY <1>1, <2>3, <2>4 DEF TypeOK
  <2>6. QED
    BY <2>3, <2>5 DEF BuffersOwn
<1>4. ASSUME NEW p \in air, Broadcast(p)
      PROVE  BuffersOwn' /\ (BroadcastsAreWhole => BroadcastsAreWhole')
  <2>1. p.kind = "chunk"
    BY <1>4 DEF Broadcast, Admit
  <2>2. p.tx \in Txs /\ p.key \in Keys /\ Received(p).parts = Whole(p.tx) /\ BufferKey(p) = p.key
    BY <1>4, <2>1, Reception DEF Broadcast
  <2>3. /\ buffers' = [buffers EXCEPT ![p.key] = NoBuffer]
        /\ broadcasts' = broadcasts \cup {Whole(p.tx)}
    BY <1>4, <2>2 DEF Broadcast
  <2>4. \A k \in Keys : Own(k)'
    BY <1>1, <1>2, <2>3 DEF TypeOK
  <2>5. BroadcastsAreWhole => BroadcastsAreWhole'
    BY <2>2, <2>3, WholeIsOne DEF BroadcastsAreWhole
  <2>6. QED
    BY <2>4, <2>5 DEF BuffersOwn
<1>5. CASE /\ \A k \in Keys : buffers'[k] \in {buffers[k], NoBuffer}
           /\ broadcasts' = broadcasts
  <2>1. \A k \in Keys : Own(k)'
    BY <1>1, <1>2, <1>5
  <2>2. QED
    BY <1>5, <2>1 DEF BuffersOwn, BroadcastsAreWhole
<1>6. \/ \E p \in air : Keep(p) \/ Broadcast(p)
      \/ /\ \A k \in Keys : buffers'[k] \in {buffers[k], NoBuffer}
         /\ broadcasts' = broadcasts
  BY DEF Next, Relay, Thread, Transmit, Wake, FinalCheck, Collect, Deliver, HearAck,
         HearResult, Deny, Lose, Expire, Restart, Refill, vars, gateway, TypeOK
<1>7. QED
  BY <1>3, <1>4, <1>5, <1>6 DEF BroadcastsAreWhole

(* Accepted is what the relay of that key is about.                        *)
LEMMA StepSuccess ==
    ASSUME TypeOK, IdsDiffer, PacketsOwn, BuffersOwn, SuccessOwn, [Next]_vars
    PROVE  SuccessOwn' /\ (OkMeansAccepted => OkMeansAccepted')
<1>1. ASSUME NEW k \in Keys, AcceptedAs(k) PROVE AcceptedAs(k)'
  BY <1>1, Lasting, KeyLasting DEF AcceptedAs, TypeOK
<1>2. ASSUME NEW p \in air', p.kind = "result", p.ok = TRUE PROVE AcceptedAs(p.key)'
  <2>1. CASE p \in air
    BY <1>1, <1>2, <2>1 DEF SuccessOwn, TypeOK
  <2>2. ASSUME NEW q \in air, Broadcast(q), p \notin air PROVE AcceptedAs(p.key)'
    <3>1. q.kind = "chunk"
      BY <2>2 DEF Broadcast, Admit
    <3>2. /\ q.tx \in Txs /\ Relayed(q.tx) /\ KeyOf(q.tx) = q.key /\ q.key \in Keys
          /\ Received(q).parts = Whole(q.tx)
      BY <2>2, <3>1, Reception DEF Broadcast
    <3>3. PICK taken \in SUBSET WholeTx(Received(q).parts), raised \in BOOLEAN :
            /\ taken = {} => raised
            /\ accepted' = accepted \cup taken
            /\ air' = (air \ {q}) \cup {Ack(q), Result(q, ~raised)}
      BY <2>2 DEF Broadcast
    <3>4. p = Result(q, ~raised)
      BY <1>2, <2>2, <3>3 DEF Ack
    <3>5. ~raised /\ p.key = q.key
      BY <1>2, <3>4 DEF Result
    <3>6. q.tx \in taken
      BY <3>2, <3>3, <3>5, WholeIsOne
    <3>7. AcceptedAs(q.key)'
      BY <3>2, <3>3, <3>6, KeyLasting DEF AcceptedAs
    <3>8. QED
      BY <3>5, <3>7
  <2>3. ASSUME p \notin air, \A q \in air : ~Broadcast(q) PROVE FALSE
    <3>1. ASSUME NEW t \in Txs, Transmit(t) PROVE FALSE
      BY <1>2, <2>3, <3>1 DEF Transmit, Packet
    <3>2. ASSUME NEW q \in air, Deny(q) \/ Keep(q) PROVE FALSE
      BY <1>2, <2>3, <3>2 DEF Deny, Keep, Ack, Result
    <3>3. QED
      BY <1>2, <2>3, <3>1, <3>2
         DEF Next, Relay, Thread, Wake, FinalCheck, Collect, Deliver, HearAck, HearResult,
             Lose, Expire, Restart, Refill, vars
  <2>4. QED
    BY <2>1, <2>2, <2>3
<1>3. ASSUME NEW k \in Keys, results'[k] = "ok" PROVE AcceptedAs(k)'
  <2>1. CASE results[k] = "ok"
    BY <1>1, <2>1 DEF SuccessOwn
  <2>2. ASSUME NEW p \in air, HearResult(p), results[k] # "ok" PROVE AcceptedAs(k)'
    <3>1. p.key = k /\ p.ok = TRUE /\ p.kind = "result"
      BY <1>3, <2>2 DEF HearResult, TypeOK
    <3>2. QED
      BY <1>1, <3>1 DEF SuccessOwn
  <2>3. ASSUME results[k] # "ok", \A p \in air : ~HearResult(p) PROVE FALSE
    <3>1. ASSUME NEW t \in Txs, FinalCheck(t) \/ Collect(t) PROVE FALSE
      BY <1>3, <2>3, <3>1 DEF FinalCheck, Collect, TypeOK
    <3>2. QED
      BY <1>3, <2>3, <3>1
         DEF Next, Relay, Thread, Transmit, Wake, Deliver, HearAck, Deny, Keep, Broadcast,
             Lose, Expire, Restart, Refill, vars
  <2>4. QED
    BY <2>1, <2>2, <2>3
<1>4. ASSUME NEW t \in Txs, Collect(t), OkMeansAccepted PROVE OkMeansAccepted'
  <2>1. KeyOf(t) \in Keys /\ Relayed(t)
    BY <1>4, ChunkRelayAssumption DEF Collect, IdsDiffer, Relayed, KeyOf, Keys, TypeOK
  <2>2. results[KeyOf(t)] = "ok" => t \in accepted
    BY <2>1 DEF SuccessOwn, AcceptedAs, IdsDiffer, TypeOK
  <2>3. outcome' = [outcome EXCEPT ![t] = results[KeyOf(t)]] /\ accepted' = accepted
    BY <1>4 DEF Collect, gateway
  <2>4. QED
    BY <1>4, <2>2, <2>3 DEF OkMeansAccepted, TypeOK
<1>5. ASSUME outcome' = outcome, OkMeansAccepted PROVE OkMeansAccepted'
  BY <1>5, Lasting DEF OkMeansAccepted
<1>6. outcome' = outcome \/ \E t \in Txs : Collect(t)
  BY DEF Next, Relay, Thread, Transmit, Wake, FinalCheck, Deliver, HearAck, HearResult, Deny,
         Keep, Broadcast, Lose, Expire, Restart, Refill, vars, client
<1>7. QED
  BY <1>2, <1>3, <1>4, <1>5, <1>6 DEF SuccessOwn

(* A chunk that has been acknowledged stays in its buffer until all of     *)
(* them are broadcast, as long as no buffer is dropped.                    *)
LEMMA KeptStays ==
    ASSUME TypeOK, IdsDiffer, PacketsOwn, BuffersOwn, [Next]_vars, drops' = 0,
           NEW t \in Txs, Relayed(t), NEW n, Kept(t, n)
    PROVE  Kept(t, n)'
<1>1. CASE Whole(t) \in broadcasts
  BY <1>1, Lasting DEF Kept, Whole, Numbers
<1> DEFINE chunk == [num |-> n, tx |-> t]
<1>2. CASE chunk \in buffers[KeyOf(t)].parts
  <2>1. KeyOf(t) \in Keys /\ KeyOf(t)' = KeyOf(t) /\ drops \in Nat
    BY KeyLasting, ChunkRelayAssumption DEF TypeOK, Relayed, KeyOf, Keys
  <2>2. ASSUME NEW p \in air, Keep(p) \/ Broadcast(p) PROVE Kept(t, n)'
    <3>1. p.kind = "chunk"
      BY <2>2 DEF Keep, Broadcast, Admit
    <3>2. /\ p.tx \in Txs /\ Relayed(p.tx) /\ KeyOf(p.tx) = p.key /\ BufferKey(p) = p.key
          /\ buffers[p.key].parts \subseteq Received(p).parts
          /\ Complete(Received(p)) => Received(p).parts = Whole(p.tx)
      BY <3>1, Reception
    <3>3. CASE p.key # KeyOf(t)
      <4>1. buffers'[KeyOf(t)] = buffers[KeyOf(t)]
        BY <2>1, <2>2, <3>2, <3>3 DEF Keep, Broadcast, TypeOK
      <4>2. QED
        BY <1>2, <2>1, <4>1 DEF Kept
    <3>4. CASE p.key = KeyOf(t) /\ Keep(p)
      <4>1. buffers'[KeyOf(t)] = Received(p)
        BY <2>1, <3>2, <3>4 DEF Keep, TypeOK
      <4>2. QED
        BY <1>2, <2>1, <3>2, <3>4, <4>1 DEF Kept
    <3>5. CASE p.key = KeyOf(t) /\ Broadcast(p)
      <4>1. p.tx = t
        BY <3>2, <3>5 DEF IdsDiffer
      <4>2. Whole(t) \in broadcasts'
        BY <3>2, <3>5, <4>1 DEF Broadcast
      <4>3. QED
        BY <4>2 DEF Kept, Whole, Numbers
    <3>6. QED
      BY <2>2, <3>3, <3>4, <3>5
  <2>3. CASE buffers' = buffers
    BY <1>2, <2>1, <2>3 DEF Kept
  <2>4. buffers' = buffers \/ \E p \in air : Keep(p) \/ Broadcast(p)
    <3>1. ASSUME (\E k \in Keys : Expire(k)) \/ Restart PROVE FALSE
      BY <2>1, <3>1 DEF Expire, Restart
    <3>2. QED
      BY <3>1
         DEF Next, Relay, Thread, Transmit, Wake, FinalCheck, Collect, Deliver, HearAck,
             HearResult, Deny, Lose, Refill, vars, gateway
  <2>5. QED
    BY <2>2, <2>3, <2>4
<1>3. QED
  BY <1>1, <1>2 DEF Kept

(* Only a chunk that has reached its buffer is acknowledged.               *)
LEMMA StepAcks ==
    ASSUME TypeOK, IdsDiffer, PacketsOwn, BuffersOwn, AcksKept, [Next]_vars
    PROVE  AcksKept'
<1> SUFFICES ASSUME drops' = 0, NEW t \in Txs, Relayed(t)'
             PROVE  /\ \A n \in acked'[KeyOf(t)'] : Kept(t, n)'
                    /\ \A p \in air' : p.kind = "ack" /\ p.key = KeyOf(t)' => Kept(t, p.num)'
  BY DEF AcksKept
<1>1. drops = 0
  BY DropsGrow
<1>2. ASSUME ~Relayed(t)
      PROVE  acked'[KeyOf(t)'] = {} /\ \A p \in air' : p.key # KeyOf(t)'
  <2>1. PICK m \in MsgIds :
          /\ \A u \in Txs : Owner[u] = Owner[t] => id[u] # m
          /\ id' = [id EXCEPT ![t] = m] /\ acked' = [acked EXCEPT ![<<Owner[t], m>>] = {}]
          /\ air' = air
    <3>1. PICK u \in Txs : Relay(u)
      BY <1>2 DEF Next, Thread, Transmit, Wake, FinalCheck, Collect, Deliver, HearAck,
                  HearResult, Deny, Keep, Broadcast, Lose, Expire, Restart, Refill, vars,
                  client, Relayed
    <3>2. u = t
      BY <1>2, <3>1 DEF Relay, Relayed, TypeOK
    <3>3. QED
      BY <3>1, <3>2 DEF Relay
  <2>2. KeyOf(t)' = <<Owner[t], m>> /\ KeyOf(t)' \in Keys
    BY <2>1, ChunkRelayAssumption DEF KeyOf, Keys, TypeOK
  <2>3. \A u \in Txs : Relayed(u) => KeyOf(u) # KeyOf(t)'
    BY <2>1, <2>2 DEF KeyOf
  <2>4. QED
    BY <2>1, <2>2, <2>3 DEF PacketsOwn, TypeOK
<1>3. ASSUME Relayed(t)
      PROVE  /\ \A n \in acked'[KeyOf(t)'] : Kept(t, n)'
             /\ \A p \in air' : p.kind = "ack" /\ p.key = KeyOf(t)' => Kept(t, p.num)'
  <2>1. KeyOf(t)' = KeyOf(t) /\ KeyOf(t) \in Keys
    BY <1>3, KeyLasting, ChunkRelayAssumption DEF TypeOK, Relayed, KeyOf, Keys
  <2>2. ASSUME NEW n \in acked'[KeyOf(t)] PROVE Kept(t, n)'
    <3>1. n \in acked[KeyOf(t)] \/ \E p \in air : p.kind = "ack" /\ p.key = KeyOf(t) /\ p.num = n
      <4>1. ASSUME NEW p \in air, HearAck(p), n \notin acked[KeyOf(t)]
            PROVE  p.kind = "ack" /\ p.key = KeyOf(t) /\ p.num = n
        BY <2>1, <2>2, <4>1 DEF HearAck, TypeOK
      <4>2. ASSUME NEW u \in Txs, Relay(u) PROVE n \in acked[KeyOf(t)]
        BY <2>1, <2>2, <4>2 DEF Relay, TypeOK
      <4>3. CASE acked' = acked
        BY <2>2, <4>3
      <4>4. acked' = acked \/ (\E u \in Txs : Relay(u)) \/ \E p \in air : HearAck(p)
        BY DEF Next, Thread, Transmit, Wake, FinalCheck, Collect, Deliver, HearResult, Deny,
               Keep, Broadcast, Lose, Expire, Restart, Refill, vars
      <4>5. QED
        BY <4>1, <4>2, <4>3, <4>4
    <3>2. Kept(t, n)
      BY <1>1, <1>3, <3>1 DEF AcksKept
    <3>3. QED
      BY <1>3, <3>2, KeptStays
  <2>3. ASSUME NEW p \in air', p.kind = "ack", p.key = KeyOf(t) PROVE Kept(t, p.num)'
    <3>1. CASE p \in air
      <4>1. Kept(t, p.num)
        BY <1>1, <1>3, <2>3, <3>1 DEF AcksKept
      <4>2. QED
        BY <1>3, <4>1, KeptStays
    <3>2. ASSUME NEW q \in air, Keep(q) \/ Broadcast(q), p \notin air PROVE Kept(t, p.num)'
      <4>1. q.kind = "chunk"
        BY <3>2 DEF Keep, Broadcast, Admit
      <4>2. p.key = q.key /\ p.num = q.num
        BY <2>3, <3>2 DEF Keep, Broadcast, Ack, Result
      <4>3. /\ q.tx = t /\ BufferKey(q) = KeyOf(t)
            /\ [num |-> q.num, tx |-> t] \in Received(q).parts
            /\ Complete(Received(q)) => Received(q).parts = Whole(t)
        <5>1. q.tx \in Txs /\ Relayed(q.tx) /\ KeyOf(q.tx) = q.key
          BY <4>1, Reception
        <5>2. q.tx = t
          <6>1. KeyOf(q.tx) = KeyOf(t)
            BY <2>3, <4>2, <5>1
          <6>2. QED
            BY <1>3, <5>1, <6>1, Zenon DEF IdsDiffer
        <5>3. QED
          BY <2>3, <4>1, <4>2, <5>2, Reception
      <4>4. CASE Keep(q)
        <5>1. buffers'[KeyOf(t)] = Received(q)
          BY <2>1, <4>3, <4>4 DEF Keep, TypeOK
        <5>2. QED
          BY <2>1, <4>2, <4>3, <5>1 DEF Kept
      <4>5. CASE Broadcast(q)
        <5>1. Whole(t) \in broadcasts'
          BY <4>3, <4>5 DEF Broadcast
        <5>2. QED
          BY <5>1 DEF Kept, Whole, Numbers
      <4>6. QED
        BY <3>2, <4>4, <4>5
    <3>3. ASSUME p \notin air, \A q \in air : ~(Keep(q) \/ Broadcast(q)) PROVE FALSE
      <4>1. ASSUME NEW u \in Txs, Transmit(u) PROVE FALSE
        BY <2>3, <3>3, <4>1 DEF Transmit, Packet
      <4>2. ASSUME NEW q \in air, Deny(q) PROVE FALSE
        BY <2>3, <3>3, <4>2 DEF Deny, Result
      <4>3. QED
        BY <3>3, <4>1, <4>2
           DEF Next, Relay, Thread, Wake, FinalCheck, Collect, Deliver, HearAck, HearResult,
               Lose, Expire, Restart, Refill, vars
    <3>4. QED
      BY <3>1, <3>2, <3>3
  <2>4. QED
    BY <2>1, <2>2, <2>3
<1>4. QED
  BY <1>2, <1>3

(* A thread stops content only when every chunk has been acknowledged, and *)
(* a buffer never keeps them all.                                          *)
LEMMA StepAcknowledged ==
    ASSUME TypeOK, IdsDiffer, BuffersOwn, AcksKept, AcknowledgedIsBroadcast, [Next]_vars
    PROVE  AcknowledgedIsBroadcast'
<1> SUFFICES ASSUME NEW t \in Txs, stage'[t] = "acknowledged", drops' = 0
             PROVE  Whole(t) \in broadcasts'
  BY DEF AcknowledgedIsBroadcast, Whole, Numbers
<1>1. drops = 0
  BY DropsGrow
<1>2. CASE stage[t] = "acknowledged"
  BY <1>1, <1>2, Lasting DEF AcknowledgedIsBroadcast
<1>3. ASSUME stage[t] # "acknowledged", Wake(t) \/ FinalCheck(t) PROVE Whole(t) \in broadcasts'
  <2>1. Relayed(t) /\ Unacked(t) = {} /\ broadcasts' = broadcasts
    BY <1>3 DEF Wake, FinalCheck, IdsDiffer, TypeOK, gateway
  <2>2. KeyOf(t) \in Keys
    BY <2>1, ChunkRelayAssumption DEF TypeOK, Relayed, KeyOf, Keys
  <2>3. ASSUME Whole(t) \notin broadcasts PROVE FALSE
    <3>1. \A n \in Numbers(t) : [num |-> n, tx |-> t] \in buffers[KeyOf(t)].parts
      BY <1>1, <2>1, <2>3 DEF Unacked, AcksKept, Kept
    <3>2. Whole(t) \subseteq buffers[KeyOf(t)].parts
      BY <3>1 DEF Whole
    <3>3. Whole(t) # {}
      BY WholeSize, FS_EmptySet, ChunkRelayAssumption
    <3>4. Partial(buffers[KeyOf(t)], t)
      BY <2>1, <2>2, <3>2, <3>3 DEF BuffersOwn, IdsDiffer, NoBuffer
    <3>5. QED
      BY <3>2, <3>4 DEF Partial
  <2>4. QED
    BY <2>1, <2>3
<1>4. stage[t] = "acknowledged" \/ Wake(t) \/ FinalCheck(t)
  <2>1. ASSUME NEW u \in Txs, Relay(u) \/ Wake(u) \/ FinalCheck(u), stage[t] # "acknowledged"
        PROVE  Wake(t) \/ FinalCheck(t)
    BY <2>1 DEF Relay, Wake, FinalCheck, TypeOK
  <2>2. stage' = stage \/ \E u \in Txs : Relay(u) \/ Wake(u) \/ FinalCheck(u)
    BY DEF Next, Thread, Transmit, Collect, Deliver, HearAck, HearResult, Deny, Keep,
           Broadcast, Lose, Expire, Restart, Refill, vars, client
  <2>3. QED
    BY <2>1, <2>2
<1>5. QED
  BY <1>2, <1>3, <1>4

-----------------------------------------------------------------------------
(* The theorems.                                                           *)

(* The invariant is inductive.                                             *)
LEMMA Invariance == Spec => []Inv
<1>1. Inv /\ [Next]_vars => Inv'
  BY StepType, StepIds, StepPackets, StepBuffers, StepSuccess, StepAcks, StepAcknowledged
     DEF Inv
<1>2. QED
  BY InitInv, <1>1, PTL DEF Spec

(* Type correctness of the relays, the mesh and the gateway.               *)
THEOREM TypeCorrect == Spec => []TypeOK
<1>1. Inv => TypeOK
  BY DEF Inv
<1>2. QED
  BY Invariance, <1>1, PTL

(* All the gateway ever broadcasts is one transaction's own chunks.        *)
THEOREM NothingMixed == Spec => []BroadcastsAreWhole
<1>1. Inv => BroadcastsAreWhole
  BY DEF Inv
<1>2. QED
  BY Invariance, <1>1, PTL

(* A caller told that its transaction was sent: the RPC node has taken it. *)
THEOREM SuccessIsTrue == Spec => []OkMeansAccepted
<1>1. Inv => OkMeansAccepted
  BY DEF Inv
<1>2. QED
  BY Invariance, <1>1, PTL

(* A relay that ends with everything acknowledged has been broadcast,      *)
(* unless the gateway dropped a buffer.                                    *)
THEOREM NoSilentGap == Spec => []AcknowledgedIsBroadcast
<1>1. Inv => AcknowledgedIsBroadcast
  BY DEF Inv
<1>2. QED
  BY Invariance, <1>1, PTL

=============================================================================
