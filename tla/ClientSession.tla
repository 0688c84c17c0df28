----------------------------- MODULE ClientSession -----------------------------
(***************************************************************************)
(* A client's questions over the mesh: the blockhash, balances, and its    *)
(* own address, which it shares.  Answers are not matched to questions:    *)
(* there is one slot for a blockhash, and any balance will do.  They may   *)
(* be lost or late, late enough to reach the next command's process.  Each *)
(* process talks to one of several gateways, told by an option or heard.   *)
(***************************************************************************)
EXTENDS Naturals

CONSTANTS
    Gateways,
    Nobody,         \* no gateway yet
    MaxRetries,     \* retransmissions of a shared address
    MaxCalls,       \* bound: calls made
    MaxProcesses    \* bound: client processes started

ASSUME ClientSessionAssumption ==
    /\ Nobody \notin Gateways
    /\ {MaxRetries, MaxCalls} \subseteq Nat /\ MaxProcesses \in Nat \ {0}

VARIABLES
    call,       \* the call in progress
    calls,      \* how many have been made: their numbers are the message ids
    gateway,    \* _gateway_id
    blockhash,  \* the slot of the BLOCKHASH_RESP handler
    balances,   \* balances heard and not yet returned
    awaited, acked,         \* _acked_chunks: shares made, and acknowledged
    questions, answers,     \* packets on the mesh
    known,      \* shares each gateway has stored
    processes,
    returned,   \* each call that returned an answer, and the answer
    givenUp,    \* calls that ended without one
    confirmed,  \* shares that returned True
    asked       \* gateways this process has sent questions to

memory == <<gateway, blockhash, balances, awaited, acked>>
caller == <<call, calls>>
mesh   == <<questions, answers>>
ghosts == <<returned, givenUp, confirmed, asked>>
vars   == <<memory, caller, mesh, ghosts, known, processes>>

NoAnswer == [kind |-> "none", call |-> 0]
Idle == [kind |-> "idle", number |-> 0, tries |-> 0]

Init ==
    /\ gateway \in Gateways \cup {Nobody}
    /\ blockhash = NoAnswer /\ balances = {} /\ awaited = {} /\ acked = {}
    /\ call = Idle /\ calls = 0
    /\ questions = {} /\ answers = {}
    /\ known = [g \in Gateways |-> {}]
    /\ processes = 1
    /\ returned = {} /\ givenUp = {} /\ confirmed = {} /\ asked = {}

-----------------------------------------------------------------------------
(* The caller.                                                             *)

Begin(kind) ==
    /\ call = Idle /\ calls < MaxCalls
    /\ calls' = calls + 1
    /\ call' = [kind |-> kind, number |-> calls', tries |-> 0]

Question(to) == [kind |-> call'.kind, call |-> call'.number, to |-> to]

Ask ==
    /\ gateway # Nobody
    /\ questions' = questions \cup {Question(gateway)}
    /\ asked' = asked \cup {gateway}

\* Mutant: the slot is not cleared before the question is sent.
FetchBlockhashUncleared ==
    /\ Begin("blockhash") /\ Ask
    /\ UNCHANGED <<memory, answers, returned, givenUp, confirmed, known, processes>>

FetchBlockhash ==
    /\ Begin("blockhash") /\ Ask
    /\ blockhash' = NoAnswer
    /\ UNCHANGED <<gateway, balances, awaited, acked, answers,
                   returned, givenUp, confirmed, known, processes>>

CheckBalance ==
    /\ Begin("balance") /\ Ask
    /\ UNCHANGED <<memory, answers, returned, givenUp, confirmed, known, processes>>

Return(answer) ==
    /\ returned' = returned \cup {[call |-> call, answer |-> answer]}
    /\ call' = Idle

GetBlockhash ==
    /\ call.kind = "blockhash" /\ blockhash # NoAnswer
    /\ Return(blockhash)
    /\ UNCHANGED <<memory, calls, mesh, givenUp, confirmed, asked, known, processes>>

\* Mutant: the balance returned is not removed.
GetBalanceAgain ==
    /\ call.kind = "balance"
    /\ \E balance \in balances : Return(balance)
    /\ UNCHANGED <<memory, calls, mesh, givenUp, confirmed, asked, known, processes>>

(* The one with the largest message id, which is random.                   *)
GetBalance ==
    /\ call.kind = "balance"
    /\ \E balance \in balances : Return(balance) /\ balances' = balances \ {balance}
    /\ UNCHANGED <<gateway, blockhash, awaited, acked, calls, mesh,
                   givenUp, confirmed, asked, known, processes>>

TimeOut ==
    /\ \/ call.kind = "blockhash" /\ blockhash = NoAnswer
       \/ call.kind = "balance" /\ balances = {}
    /\ givenUp' = givenUp \cup {call}
    /\ call' = Idle
    /\ UNCHANGED <<memory, calls, mesh, returned, confirmed, asked, known, processes>>

(* Every gateway in reach hears a shared address.                          *)
Broadcast == questions' = questions \cup {Question(g) : g \in Gateways}

ShareAddress ==
    /\ Begin("share") /\ Broadcast
    /\ awaited' = awaited \cup {calls'}
    /\ UNCHANGED <<gateway, blockhash, balances, acked, answers, ghosts,
                   known, processes>>

\* Mutant: one retransmission too many.
RepeatOnceMore ==
    /\ call.kind = "share" /\ call.number \notin acked
    /\ call.tries <= MaxRetries
    /\ call' = [call EXCEPT !.tries = @ + 1]
    /\ Broadcast
    /\ UNCHANGED <<memory, calls, answers, ghosts, known, processes>>

Repeat ==
    /\ call.kind = "share" /\ call.number \notin acked
    /\ call.tries < MaxRetries
    /\ call' = [call EXCEPT !.tries = @ + 1]
    /\ Broadcast
    /\ UNCHANGED <<memory, calls, answers, ghosts, known, processes>>

EndShare ==
    /\ call.kind = "share"
    /\ \/ /\ call.number \in acked
          /\ confirmed' = confirmed \cup {call.number}
          /\ UNCHANGED givenUp
       \/ /\ call.number \notin acked /\ call.tries = MaxRetries
          /\ givenUp' = givenUp \cup {call}
          /\ UNCHANGED confirmed
    /\ call' = Idle
    /\ UNCHANGED <<memory, calls, mesh, returned, asked, known, processes>>

(* The command ends, or is interrupted, and another one is started; what   *)
(* the node's radio receives from then on is the new process's.            *)
NewProcess ==
    /\ processes < MaxProcesses
    /\ processes' = processes + 1
    /\ gateway' \in Gateways \cup {Nobody}
    /\ blockhash' = NoAnswer
    /\ balances' = {} /\ awaited' = {} /\ acked' = {}
    /\ call' = Idle
    /\ givenUp' = IF call = Idle THEN givenUp ELSE givenUp \cup {call}
    /\ asked' = {}
    /\ UNCHANGED <<calls, mesh, returned, confirmed, known>>

-----------------------------------------------------------------------------
(* The gateways; the mesh loses what is never taken from it.               *)

Answer(q) == [kind |-> q.kind, call |-> q.call]

(* Rate limit, RPC error: the NACK finds nobody who waits for it.          *)
Refuse(q) ==
    /\ q.kind # "share"
    /\ UNCHANGED <<answers, known>>

(* A balance that cannot be fetched is answered, too, as 0.                *)
Serve(q) ==
    /\ answers' = answers \cup {Answer(q)}
    /\ known' = IF q.kind = "share"
                THEN [known EXCEPT ![q.to] = @ \cup {q.call}] ELSE known

Receive(q) ==
    /\ q \in questions /\ questions' = questions \ {q}
    /\ Refuse(q) \/ Serve(q)
    /\ UNCHANGED <<memory, caller, ghosts, processes>>

\* Mutant: whichever ACK arrives is for the share being made.
HeardAnyAck(a) ==
    IF a.kind = "share" /\ awaited # {} THEN acked \cup awaited ELSE acked

HeardAck(a) ==
    IF a.kind = "share" /\ a.call \in awaited THEN acked \cup {a.call} ELSE acked

(* The client's handlers of BLOCKHASH_RESP, BALANCE_RESP and ACK.          *)
Hear(a) ==
    /\ a \in answers /\ answers' = answers \ {a}
    /\ blockhash' = IF a.kind = "blockhash" THEN a ELSE blockhash
    /\ balances' = IF a.kind = "balance" THEN balances \cup {a} ELSE balances
    /\ acked' = HeardAck(a)
    /\ UNCHANGED <<gateway, awaited, caller, questions, ghosts, known, processes>>

\* Mutant: the gateway heard last is the one to talk to.
PinnedLast(g) == g

(* The first gateway heard, unless one was configured.                     *)
Pinned(g) == IF gateway = Nobody THEN g ELSE gateway

Beacon(g) ==
    /\ gateway' = Pinned(g)
    /\ UNCHANGED <<blockhash, balances, awaited, acked, caller, mesh, ghosts,
                   known, processes>>

Next ==
    \/ FetchBlockhash \/ GetBlockhash
    \/ CheckBalance \/ GetBalance \/ TimeOut
    \/ ShareAddress \/ Repeat \/ EndShare
    \/ NewProcess
    \/ \E q \in questions : Receive(q)
    \/ \E a \in answers : Hear(a)
    \/ \E g \in Gateways : Beacon(g)

Spec == Init /\ [][Next]_vars

-----------------------------------------------------------------------------
(* Correctness.                                                            *)

Calls == 1..calls
Kinds == {"blockhash", "balance", "share"}

Answers ==
    [kind : Kinds, call : Calls]

(* Type invariant of the client, the mesh and the gateways.                *)
TypeOK ==
    /\ call = Idle \/ /\ call \in [kind : Kinds, number : {calls}, tries : 0..MaxRetries]
                      /\ calls # 0
    /\ calls \in 0..MaxCalls
    /\ gateway \in Gateways \cup {Nobody}
    /\ blockhash \in Answers \cup {NoAnswer}
    /\ balances \subseteq Answers /\ answers \subseteq Answers
    /\ questions \subseteq [kind : Kinds, call : Calls, to : Gateways]
    /\ acked \subseteq awaited /\ awaited \subseteq Calls
    /\ known \in [Gateways -> SUBSET Calls]
    /\ processes \in 1..MaxProcesses

(* Nothing in an answer says which question it is for.  Still an answer is *)
(* of the kind asked for, serves one call only, and is for another call    *)
(* only if one of its kind was given up before.  (One is enough: from then *)
(* on each call may return the answer to the one before it, an older       *)
(* blockhash or another account's balance.)                                *)
AnswersAreOwn ==
    \A r \in returned :
        /\ r.answer.kind = r.call.kind
        /\ \A s \in returned : s.answer.call = r.answer.call => s = r
        /\ r.answer.call # r.call.number =>
             \E c \in givenUp : c.kind = r.call.kind /\ c.number < r.call.number

(* If share_address returned True, a gateway has stored that very address, *)
(* whatever ACKs of earlier shares were still on their way.                *)
SharesAreStored == \A n \in confirmed : \E g \in Gateways : n \in known[g]

(* A process asks one gateway only, whichever others it hears, and         *)
(* although discover_gateway returns the one heard last.                   *)
OneGateway == asked \subseteq {gateway}

=============================================================================
