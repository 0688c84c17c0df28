---------------------------------- MODULE Wire ----------------------------------
(***************************************************************************)
(* One message from its fields to bytes and back: encoded, cut into chunks *)
(* if it is a transaction, packed behind ten-byte headers, carried by a    *)
(* mesh that delivers in any order, repeatedly, or with a byte damaged or  *)
(* the end cut off, checked, put together and decoded.  The widths of keys *)
(* and packets are constants, so that TLC can use smaller ones.            *)
(***************************************************************************)
EXTENDS Integers, Sequences, FiniteSets

CONSTANTS
    Messages,       \* messages sent
    Ids,            \* their ids, out of 0..65535
    Key,            \* bytes of a public key, mint or blockhash (32)
    Signature,      \* of a signature (64)
    Amount,         \* of an amount (8)
    MaxChunkData,   \* payload bytes of one packet (210)
    MaxChunks,      \* chunks of one transaction (255)
    Patterns,       \* what a damaged byte is XORed with
    MaxDamage       \* bound: packets damaged

Byte  == 0..255
MsgId == 0..65535

MsgType ==
    [TX_CHUNK |-> 1, TX_REQUEST |-> 2, ADDR_SHARE |-> 3, ACK |-> 16,
     NACK |-> 17, BALANCE_REQ |-> 32, BALANCE_RESP |-> 33,
     BLOCKHASH_REQ |-> 34, BLOCKHASH_RESP |-> 35, TX_RESULT |-> 48,
     GATEWAY_BEACON |-> 64]

(* The widths of the fields each payload starts with.                      *)
Layout ==
    [TX_CHUNK |-> <<>>, TX_REQUEST |-> <<Signature, Key, Key, Amount>>,
     ADDR_SHARE |-> <<Key>>, ACK |-> <<2, 1, 1>>, NACK |-> <<2, 1>>,
     BALANCE_REQ |-> <<Key>>, BALANCE_RESP |-> <<Key, Amount>>,
     BLOCKHASH_REQ |-> <<>>, BLOCKHASH_RESP |-> <<Key>>,
     TX_RESULT |-> <<2, 1>>, GATEWAY_BEACON |-> <<1, 1, 4>>]

(* Payloads that may go on with a mint or key, told by their length alone, *)
(* and payloads whose remaining bytes are text or data.                    *)
KeyByLength == {"BALANCE_REQ", "BALANCE_RESP", "GATEWAY_BEACON"}
OpenEnded   == {"TX_CHUNK", "TX_REQUEST", "ADDR_SHARE", "NACK", "TX_RESULT"}

(* What the callers of the encoders give them.                             *)
IsMessage(m) ==
    /\ m \in [kind : DOMAIN MsgType, fields : Seq(Nat), key : Seq(Byte), text : Seq(Byte)]
    /\ Len(m.fields) = Len(Layout[m.kind])
    /\ m.key # <<>> => Len(m.key) = Key /\ m.kind \in KeyByLength \cup {"TX_REQUEST"}
    /\ m.text # <<>> => m.kind \in OpenEnded

ASSUME WireAssumption ==
    /\ \A m \in Messages : IsMessage(m)
    /\ Ids \subseteq MsgId /\ Patterns \subseteq Byte \ {0}
    /\ MaxChunkData \in 1..245 /\ MaxChunks \in 1..255 /\ MaxDamage \in Nat
    /\ Key \in Nat \ {0} /\ Signature \in Nat /\ Amount \in Nat

VARIABLES
    message,    \* what is to be sent: kind, fields, key, text
    id,         \* its msg_id
    status,     \* "new", "sent", or "refused" when packing raised
    packets,    \* the packets as they are on the mesh
    damage,     \* of the packets damaged, the packet and byte; 0 is a cut
    delivered,  \* packets delivered so far
    buffers,    \* the receiver's reassembly buffers, by id
    received    \* the messages its handlers were given

vars == <<message, id, status, packets, damage, delivered, buffers, received>>

Init ==
    /\ message \in Messages /\ id \in Ids
    /\ status = "new" /\ packets = <<>> /\ damage = {} /\ delivered = {}
    /\ buffers = <<>> /\ received = {}

-----------------------------------------------------------------------------
(* Payloads.                                                               *)

(* What the first so many of some byte strings make, joined.               *)
Joins(ss) ==
    LET Upto[i \in 0..Len(ss)] == IF i = 0 THEN <<>> ELSE Upto[i - 1] \o ss[i]
    IN  Upto

Flat(ss) == Joins(ss)[Len(ss)]

(* What is left of a number without its last so many bytes.                *)
Rest(value, width) ==
    LET Without[n \in 0..width] == IF n = 0 THEN value ELSE Without[n - 1] \div 256
    IN  Without

BigEndian(value, width) ==
    [i \in 1..width |-> Rest(value, width)[width - i] % 256]

Overflows(value, width) == Rest(value, width)[width] # 0

(* What the first so many bytes say.                                       *)
Values(bytes) ==
    LET Upto[i \in 0..Len(bytes)] == IF i = 0 THEN 0 ELSE 256 * Upto[i - 1] + bytes[i]
    IN  Upto

ValueOf(bytes) == Values(bytes)[Len(bytes)]

(* The offsets at which the fields end.                                    *)
Ends(kind) ==
    LET Upto[i \in 0..Len(Layout[kind])] == IF i = 0 THEN 0 ELSE Upto[i - 1] + Layout[kind][i]
    IN  Upto

Flags(m) == IF m.key = <<>> THEN <<0>> ELSE <<1>>

Encode(m) ==
    Flat([i \in 1..Len(m.fields) |-> BigEndian(m.fields[i], Layout[m.kind][i])])
    \o (IF m.kind = "TX_REQUEST" THEN Flags(m) ELSE <<>>) \o m.key \o m.text

(* What a decoder returns, or nothing when it raises.  A transfer request  *)
(* without its flags byte is one from before there were tokens.            *)
Decode(kind, payload) ==
    LET n     == Len(Layout[kind])
        ends  == Ends(kind)
        fixed == ends[n]
        rest  == SubSeq(payload, fixed + 1, Len(payload))
        flag  == IF kind = "TX_REQUEST" /\ rest # <<>> THEN 1 ELSE 0
        keyed == \/ flag = 1 /\ rest[1] % 2 = 1
                 \/ kind \in KeyByLength /\ Len(rest) >= Key
        start == flag + (IF keyed THEN Key ELSE 0)
    IN  IF Len(payload) < fixed \/ Len(rest) < start THEN {}
        ELSE {[kind   |-> kind,
               fields |-> [i \in 1..n |->
                             ValueOf(SubSeq(payload, ends[i - 1] + 1, ends[i]))],
               key    |-> SubSeq(rest, flag + 1, start),
               text   |-> IF kind \in OpenEnded
                          THEN SubSeq(rest, start + 1, Len(rest)) ELSE <<>>]}

-----------------------------------------------------------------------------
(* Packets.                                                                *)

(* crc8, a byte at a time, by tables.  The exclusive or of two numbers of  *)
(* two, four and eight bits is that of their halves.                       *)
Xor2(a, b) == 2 * ((a \div 2 + b \div 2) % 2) + ((a + b) % 2)
Xor4(a, b) == 4 * Xor2(a \div 4, b \div 4) + Xor2(a % 4, b % 4)
Xor8(a, b) == 16 * Xor4(a \div 16, b \div 16) + Xor4(a % 16, b % 16)

XorOf == [a \in Byte |-> [b \in Byte |-> Xor8(a, b)]]

Shift  == [b \in Byte |-> IF b >= 128 THEN XorOf[(2 * b) % 256][49] ELSE 2 * b]
Shift2 == [b \in Byte |-> Shift[Shift[b]]]
Shift4 == [b \in Byte |-> Shift2[Shift2[b]]]
CrcOf  == [b \in Byte |-> Shift4[Shift4[b]]]

Crcs(bytes) ==
    LET Upto[i \in 0..Len(bytes)] ==
          IF i = 0 THEN 0 ELSE CrcOf[XorOf[Upto[i - 1]][bytes[i]]]
    IN  Upto

Crc8(bytes) == Crcs(bytes)[Len(bytes)]

Magic == <<83, 77>>
Version == 1
HeaderSize == 10

\* Mutant: the checksum covers the payload only.
PayloadChecksum(header, payload) == Crc8(payload)

Checksum(header, payload) == Crc8(header \o payload)

\* Mutant: one byte too many is let through.
TooLargeByOne(payload) == Len(payload) > MaxChunkData + 1

TooLarge(payload) == Len(payload) > MaxChunkData

PackMessage(kind, num, total, payload) ==
    LET header == Magic \o <<Version, MsgType[kind]>> \o BigEndian(id, 2)
                  \o <<num, total, Len(payload)>>
    IN  header \o <<Checksum(header, payload)>> \o payload

(* The header and payload, or nothing when unpacking raises.  Bytes beyond *)
(* the payload's length are ignored.                                       *)
UnpackMessage(raw) ==
    IF \/ Len(raw) < HeaderSize \/ SubSeq(raw, 1, 2) # Magic \/ raw[3] # Version
       \/ Len(raw) < HeaderSize + raw[9]
    THEN {}
    ELSE LET payload == SubSeq(raw, HeaderSize + 1, HeaderSize + raw[9])
         IN  {[kind |-> kind, id |-> ValueOf(SubSeq(raw, 5, 6)), num |-> raw[7],
               total |-> raw[8], payload |-> payload] :
                kind \in {k \in DOMAIN MsgType :
                            /\ MsgType[k] = raw[4]
                            /\ raw[10] = Checksum(SubSeq(raw, 1, 9), payload)}}

\* Mutant: one chunk more than the whole ones, even when none is left over.
TotalPlusOne(size) == size \div MaxChunkData + 1

Total(size) == (size + MaxChunkData - 1) \div MaxChunkData

(* The payloads of a message's packets: a transaction is cut into chunks.  *)
Payloads(m) ==
    LET data == Encode(m)
    IN  IF m.kind # "TX_CHUNK" \/ data = <<>> THEN <<data>>
        ELSE [i \in 1..Total(Len(data)) |->
                SubSeq(data, (i - 1) * MaxChunkData + 1,
                       IF i * MaxChunkData < Len(data) THEN i * MaxChunkData ELSE Len(data))]

-----------------------------------------------------------------------------
(* Packing raises for a payload over the limit, for a transaction of too   *)
(* many chunks, and for a number its field does not hold.                  *)
Send ==
    /\ status = "new"
    /\ LET payloads == Payloads(message)
           total    == Len(payloads)
       IN  IF \/ \E i \in 1..total : TooLarge(payloads[i])
              \/ total > MaxChunks
              \/ \E i \in DOMAIN message.fields :
                   Overflows(message.fields[i], Layout[message.kind][i])
           THEN status' = "refused" /\ UNCHANGED packets
           ELSE /\ status' = "sent"
                /\ packets' = [i \in 1..total |->
                                 PackMessage(message.kind, i - 1, total, payloads[i])]
    /\ UNCHANGED <<message, id, damage, delivered, buffers, received>>

(* The mesh damages a byte of a packet, or cuts its end off; twice the     *)
(* same packet is more than the checksum is for.                           *)
Damage(i) ==
    /\ Cardinality(damage) < MaxDamage
    /\ \A d \in damage : d[1] # i
    /\ \/ \E b \in 1..Len(packets[i]), x \in Patterns :
            /\ packets' = [packets EXCEPT ![i][b] = XorOf[@][x]]
            /\ damage' = damage \cup {<<i, b>>}
       \/ \E n \in 0..(Len(packets[i]) - 1) :
            /\ packets' = [packets EXCEPT ![i] = SubSeq(@, 1, n)]
            /\ damage' = damage \cup {<<i, 0>>}
    /\ UNCHANGED <<message, id, status, delivered, buffers, received>>

(* A chunk joins the buffer its id has, or opens one with the total it     *)
(* brings; when all are there, the buffer is emptied.                      *)
ReceiveChunk(h) ==
    LET old   == IF h.id \in DOMAIN buffers THEN buffers[h.id]
                 ELSE [total |-> h.total, parts |-> <<>>]
        parts == [n \in DOMAIN old.parts \cup {h.num} |->
                    IF n = h.num THEN h.payload ELSE old.parts[n]]
    IN  IF DOMAIN parts = 0..(old.total - 1)
        THEN /\ received' = received \cup
                    Decode("TX_CHUNK", Flat([i \in 1..old.total |-> parts[i - 1]]))
             /\ buffers' = [m \in DOMAIN buffers \ {h.id} |-> buffers[m]]
        ELSE /\ buffers' = [m \in DOMAIN buffers \cup {h.id} |->
                              IF m = h.id THEN [old EXCEPT !.parts = parts] ELSE buffers[m]]
             /\ UNCHANGED received

(* The mesh interface drops what does not unpack.                          *)
Deliver(i) ==
    /\ delivered' = delivered \cup {i}
    /\ LET headers == UnpackMessage(packets[i])
       IN  \/ headers = {} /\ UNCHANGED <<buffers, received>>
           \/ \E h \in headers :
                IF h.kind = "TX_CHUNK" THEN ReceiveChunk(h)
                ELSE /\ received' = received \cup Decode(h.kind, h.payload)
                     /\ UNCHANGED buffers
    /\ UNCHANGED <<message, id, status, packets, damage>>

Next ==
    \/ Send
    \/ \E i \in DOMAIN packets : Damage(i) \/ Deliver(i)

Spec == Init /\ [][Next]_vars

-----------------------------------------------------------------------------
(* Correctness.                                                            *)

(* Type invariant of the message, its packets and the receiver.            *)
TypeOK ==
    /\ message \in Messages /\ id \in Ids
    /\ status \in {"new", "sent", "refused"}
    /\ \A i \in DOMAIN packets :
         Len(packets[i]) <= HeaderSize + MaxChunkData /\ \A b \in DOMAIN packets[i] : packets[i][b] \in Byte
    /\ Cardinality(damage) <= MaxDamage
    /\ delivered \subseteq DOMAIN packets
    /\ \A m \in DOMAIN buffers :
         m \in Ids /\ DOMAIN buffers[m].parts \subseteq 0..(buffers[m].total - 1)

(* Whatever the mesh does to a byte of a packet or to its end, in whatever *)
(* order and how often it delivers, a handler is given the message that    *)
(* was sent or none: unpack_message, the reassembler and the decoders let  *)
(* nothing else through.  The one exception is a damaged length, which     *)
(* moves the bytes the checksum is taken over.                             *)
ReceivedAsSent ==
    (\A d \in damage : d[2] # 9) => received \subseteq {message}

(* What a message needs: its bytes, counted from its fields.               *)
Size(m) ==
    Ends(m.kind)[Len(m.fields)] + Len(m.key) + Len(m.text)
    + (IF m.kind = "TX_REQUEST" THEN 1 ELSE 0)

(* The code claims to carry "Up to 210 bytes payload per chunk" and 255    *)
(* chunks.                                                                 *)
Fits(m) ==
    /\ Size(m) <= MaxChunkData * (IF m.kind = "TX_CHUNK" THEN MaxChunks ELSE 1)
    /\ \A i \in DOMAIN m.fields : ~Overflows(m.fields[i], Layout[m.kind][i])

(* Every message that fits is sent, and is received whole once each of its *)
(* packets has been delivered undamaged, whatever the order and whichever  *)
(* lengths the payload, the optional key and the chunks have.              *)
FittingArrives ==
    /\ Fits(message) => status # "refused"
    /\ (status = "sent" /\ damage = {} /\ delivered = DOMAIN packets) => message \in received

=============================================================================
