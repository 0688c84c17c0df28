------------------------------- MODULE MCWire -------------------------------
(* Instances of Wire for TLC: keys of two bytes, packets of fifteen. *)
EXTENDS Wire

(* Bytes that differ from their neighbours.                                *)
Bytes(n) == [i \in 1..n |-> (77 * i + 6) % 256]

Of(kind, fields, keys, sizes) ==
    {[kind |-> kind, fields |-> f, key |-> Bytes(k), text |-> Bytes(n)] :
        f \in fields, k \in keys, n \in sizes}

(* For each kind: the boundaries of its fields, with and without the key,  *)
(* and texts up to and over what a packet holds; transactions of no bytes, *)
(* of whole chunks, of one byte more, and of more chunks than allowed.     *)
SomeMessages == UNION {
    Of("TX_CHUNK", {<<>>}, {0}, {0, 1, 14, 15, 16, 30, 31, 45, 46}),
    Of("TX_REQUEST", {<<1, 2, 65535, a>> : a \in {0, 256, 65535, 65536}}, {0, 2}, {0, 1, 5, 6}),
    Of("ADDR_SHARE", {<<513>>}, {0}, {0, 1, 13, 14}),
    Of("ACK", {<<65535, 255, 0>>, <<256, 0, 1>>}, {0}, {0}),
    Of("NACK", {<<258, 9>>}, {0}, {0, 12, 13}),
    Of("BALANCE_REQ", {<<513>>}, {0, 2}, {0}),
    Of("BALANCE_RESP", {<<513, a>> : a \in {0, 65535, 65536}}, {0, 2}, {0}),
    Of("BLOCKHASH_REQ", {<<>>}, {0}, {0}),
    Of("BLOCKHASH_RESP", {<<770>>}, {0}, {0}),
    Of("TX_RESULT", {<<4660, s>> : s \in {0, 1}}, {0}, {0, 12, 13}),
    Of("GATEWAY_BEACON", {<<1, 31, 16909060>>}, {0, 2}, {0}) }

=============================================================================
