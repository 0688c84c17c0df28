-------------------------- MODULE ClientSessionProofs --------------------------
(***************************************************************************)
(* Proofs about ClientSession, for any number of gateways, calls,          *)
(* processes and retransmissions, whatever the mesh loses or delays.       *)
(***************************************************************************)
EXTENDS ClientSession, TLAPS

(* No call has returned the answer to call n.                              *)
Fresh(n) == \A r \in returned : r.answer.call # n

(* The call that x asks for or answers is over.                            *)
Ended(x) ==
    \/ \E c \in givenUp : c.kind = x.kind /\ c.number = x.call
    \/ \E r \in returned : r.call.kind = x.kind /\ r.call.number = x.call

(* x belongs to a call in progress or over, and nobody has used it.        *)
Owed(x) ==
    /\ x.kind \in {"blockhash", "balance"}
    /\ Fresh(x.call)
    /\ (call.kind = x.kind /\ call.number = x.call) \/ Ended(x)

(* The numbers of calls that are over are taken.                           *)
Numbered ==
    /\ \A c \in givenUp : c.number \in Calls /\ (call # Idle => c.number # call.number)
    /\ \A r \in returned : /\ r.call.number \in Calls /\ r.answer.call \in Calls
                           /\ call # Idle => r.call.number # call.number

(* What can still be answered, or returned, is in one place only.          *)
QuestionsOwed ==
    \A q \in questions : q.kind # "share" =>
        /\ Owed(q) /\ blockhash.call # q.call
        /\ \A p \in questions : p.call = q.call => p = q
        /\ \A a \in answers \cup balances : a.call # q.call

AnswersOwed ==
    \A a \in answers : a.kind # "share" =>
        /\ Owed(a) /\ blockhash.call # a.call
        /\ \A q \in questions : q.call # a.call
        /\ \A b \in answers : b.call = a.call => b = a
        /\ \A b \in balances : b.call # a.call

BalancesOwed ==
    \A b \in balances :
        /\ Owed(b) /\ b.kind = "balance" /\ blockhash.call # b.call
        /\ \A c \in balances : c.call = b.call => c = b

SlotOwed ==
    blockhash # NoAnswer =>
        /\ blockhash.kind = "blockhash"
        /\ call.kind = "blockhash" => Owed(blockhash)

(* An acknowledgement comes from a gateway that has stored the address.    *)
Stored(n) == \E g \in Gateways : n \in known[g]

AcksAreStored ==
    /\ \A a \in answers : a.kind = "share" => Stored(a.call)
    /\ \A n \in acked : Stored(n)

Inv ==
    /\ TypeOK /\ Numbered
    /\ QuestionsOwed /\ AnswersOwed /\ BalancesOwed /\ SlotOwed
    /\ AcksAreStored /\ asked \subseteq Gateways
    /\ AnswersAreOwn /\ SharesAreStored /\ OneGateway

-----------------------------------------------------------------------------

(* Initially nothing has been asked.                                       *)
LEMMA InitInv == Init => Inv
<1> SUFFICES ASSUME Init PROVE Inv
  OBVIOUS
<1>1. TypeOK
  <2>1. gateway \in Gateways \cup {Nobody} /\ calls \in 0..MaxCalls
        /\ processes \in 1..MaxProcesses /\ known \in [Gateways -> SUBSET Calls]
    BY ClientSessionAssumption DEF Init
  <2>2. QED
    BY <2>1 DEF Init, TypeOK
<1>2. Numbered /\ QuestionsOwed /\ AnswersOwed /\ BalancesOwed /\ SlotOwed
  BY DEF Init, Numbered, QuestionsOwed, AnswersOwed, BalancesOwed, SlotOwed
<1>3. /\ AcksAreStored /\ asked \subseteq Gateways
      /\ AnswersAreOwn /\ SharesAreStored /\ OneGateway
  BY DEF Init, AcksAreStored, AnswersAreOwn, SharesAreStored, OneGateway
<1>4. QED
  BY <1>1, <1>2, <1>3 DEF Inv

(* Every step keeps the types. *)
LEMMA StepType == ASSUME TypeOK, [Next]_vars PROVE TypeOK'
<1> USE ClientSessionAssumption
<1>1. calls \in Nat /\ (call = Idle \/ (call.number = calls /\ call.kind \in Kinds /\ calls # 0))
  BY DEF TypeOK
<1>2. ASSUME NEW kind \in Kinds, Begin(kind)
      PROVE  /\ calls' \in 1..MaxCalls /\ Calls \subseteq Calls' /\ calls' \in Calls'
             /\ call' \in [kind : Kinds, number : {calls'}, tries : 0..MaxRetries] /\ calls' # 0
             /\ \A to \in Gateways : Question(to) \in [kind : Kinds, call : Calls', to : Gateways]
             /\ Answers \subseteq Answers'
  <2>1. calls' \in 1..MaxCalls /\ Calls \subseteq Calls' /\ calls' \in Calls'
    BY <1>1, <1>2 DEF Begin, Calls, TypeOK
  <2>2. call' \in [kind : Kinds, number : {calls'}, tries : 0..MaxRetries]
    BY <1>2 DEF Begin
  <2>3. call'.kind \in Kinds /\ call'.number = calls' /\ calls' # 0
    BY <2>1, <2>2
  <2>4. ASSUME NEW to \in Gateways
        PROVE  Question(to) \in [kind : Kinds, call : Calls', to : Gateways]
    BY <2>1, <2>3 DEF Question
  <2>5. Answers \subseteq Answers'
    BY <2>1 DEF Answers
  <2>6. QED
    BY <2>1, <2>2, <2>3, <2>4, <2>5
<1>3. CASE FetchBlockhash \/ CheckBalance
  <2>1. Begin("blockhash") \/ Begin("balance")
    BY <1>3 DEF FetchBlockhash, CheckBalance
  <2>2. gateway \in Gateways /\ questions' = questions \cup {Question(gateway)}
    BY <1>3 DEF FetchBlockhash, CheckBalance, Ask, TypeOK
  <2>3. questions' \subseteq [kind : Kinds, call : Calls', to : Gateways]
    BY <1>2, <2>1, <2>2 DEF Kinds, TypeOK
  <2>4. /\ blockhash' \in {NoAnswer, blockhash}
        /\ UNCHANGED <<gateway, balances, awaited, acked, answers, known, processes>>
    BY <1>3 DEF FetchBlockhash, CheckBalance, memory
  <2>5. QED
    BY <1>2, <2>1, <2>3, <2>4 DEF Kinds, TypeOK
<1>4. CASE ShareAddress
  <2>1. Begin("share") /\ questions' = questions \cup {Question(g) : g \in Gateways}
    BY <1>4 DEF ShareAddress, Broadcast
  <2>2. questions' \subseteq [kind : Kinds, call : Calls', to : Gateways]
    BY <1>2, <2>1 DEF Kinds, TypeOK
  <2>3. QED
    BY <1>2, <1>4, <2>1, <2>2 DEF ShareAddress, Kinds, TypeOK
<1>5. CASE GetBlockhash \/ TimeOut
  BY <1>5 DEF GetBlockhash, TimeOut, Return, TypeOK, memory, mesh, Calls, Answers
<1>6. CASE GetBalance
  BY <1>6 DEF GetBalance, Return, TypeOK, mesh, Calls, Answers
<1>7. CASE Repeat
  <2>1. /\ call'.kind = "share" /\ call'.number = call.number /\ call'.tries \in 0..MaxRetries
        /\ call.number = calls /\ calls' = calls
        /\ call' \in [kind : Kinds, number : {calls'}, tries : 0..MaxRetries] /\ calls' # 0
    BY <1>7 DEF Repeat, Idle, TypeOK
  <2>2. questions' \subseteq [kind : Kinds, call : Calls, to : Gateways]
    <3>1. calls \in Calls
      BY <1>1, <1>7, <2>1 DEF Repeat, Idle, Calls, TypeOK
    <3>2. QED
      BY <1>7, <2>1, <3>1 DEF Repeat, Broadcast, Question, Kinds, TypeOK
  <2>3. QED
    BY <1>7, <2>1, <2>2 DEF Repeat, TypeOK, memory, Calls, Answers
<1>8. CASE EndShare
  BY <1>8 DEF EndShare, TypeOK, memory, mesh, Calls, Answers
<1>9. CASE NewProcess
  BY <1>9 DEF NewProcess, TypeOK, mesh, Calls, Answers
<1>10. ASSUME NEW q \in questions, Receive(q) PROVE TypeOK'
  BY <1>10 DEF Receive, Refuse, Serve, Answer, TypeOK, memory, caller, Calls, Answers
<1>11. ASSUME NEW a \in answers, Hear(a) PROVE TypeOK'
  BY <1>11 DEF Hear, HeardAck, TypeOK, caller, Calls, Answers
<1>12. ASSUME NEW g \in Gateways, Beacon(g) PROVE TypeOK'
  BY <1>12 DEF Beacon, Pinned, TypeOK, caller, mesh, Calls, Answers
<1>13. CASE UNCHANGED vars
  BY <1>13 DEF vars, memory, caller, mesh, TypeOK, Calls, Answers
<1>14. QED
  BY <1>3, <1>4, <1>5, <1>6, <1>7, <1>8, <1>9, <1>10, <1>11, <1>12, <1>13 DEF Next

-----------------------------------------------------------------------------
(* Calls and their numbers.                                                *)

(* A call that begins has a number that no packet, slot, balance or call   *)
(* before it has.                                                          *)
LEMMA NewNumber ==
    ASSUME Inv, NEW kind, Begin(kind)
    PROVE  /\ call = Idle /\ calls' = calls + 1 /\ call'.kind = kind /\ call'.number = calls'
           /\ call' # Idle /\ calls \in Nat
           /\ \A n \in Calls : n # calls' /\ n \in Calls'
           /\ blockhash.call # calls'
  BY DEF Inv, Begin, Idle, TypeOK, Calls, Answers, NoAnswer

(* Questions, answers and shares carry the numbers of calls that were made. *)
LEMMA StepNumbered == ASSUME Inv, [Next]_vars PROVE Numbered'
<1> USE DEF Inv
<1>1. ASSUME NEW kind, Begin(kind), UNCHANGED <<returned, givenUp>> PROVE Numbered'
  BY <1>1, NewNumber DEF Numbered
<1>2. CASE FetchBlockhash \/ CheckBalance \/ ShareAddress
  BY <1>1, <1>2 DEF FetchBlockhash, CheckBalance, ShareAddress, ghosts
<1>3. CASE calls' = calls /\ call' = Idle
  <2>1. call # Idle => call.number \in Calls
    BY DEF TypeOK, Calls
  <2>2. \A c \in givenUp' : c \in givenUp \/ (c = call /\ call # Idle)
    BY <1>3 DEF Next, GetBlockhash, GetBalance, TimeOut, EndShare, NewProcess, Idle,
                FetchBlockhash, CheckBalance, ShareAddress, Repeat, Receive, Hear, Beacon, vars, ghosts, Begin
  <2>3. \A r \in returned' : r \in returned \/ (r.call = call /\ call # Idle /\ r.answer.call \in Calls)
    BY <1>3 DEF Next, GetBlockhash, GetBalance, Return, TimeOut, EndShare, NewProcess, Idle,
                FetchBlockhash, CheckBalance, ShareAddress, Repeat, Receive, Hear, Beacon, vars, ghosts,
                TypeOK, Answers
  <2>4. QED
    BY <1>3, <2>1, <2>2, <2>3 DEF Numbered, Calls
<1>4. CASE UNCHANGED <<calls, returned, givenUp>> /\ (call' # Idle => call # Idle /\ call'.number = call.number)
  BY <1>4 DEF Numbered, Calls
<1>5. CASE Repeat
  <2>1. call.kind = "share" /\ call'.number = call.number /\ call # Idle
    BY <1>5 DEF Repeat, Idle, TypeOK
  <2>2. QED
    BY <1>4, <1>5, <2>1 DEF Repeat, ghosts
<1>6. CASE \/ (\E q \in questions : Receive(q)) \/ (\E a \in answers : Hear(a))
           \/ (\E g \in Gateways : Beacon(g)) \/ UNCHANGED vars
  BY <1>4, <1>6 DEF Receive, Hear, Beacon, vars, caller, ghosts
<1>7. QED
  BY <1>2, <1>3, <1>5, <1>6
     DEF Next, GetBlockhash, GetBalance, Return, TimeOut, EndShare, NewProcess

-----------------------------------------------------------------------------
(* Answers and what is owed.                                               *)

Owing == QuestionsOwed /\ AnswersOwed /\ BalancesOwed /\ SlotOwed

(* What is owed stays so until it is returned: a call that ends returns an *)
(* answer or is given up.                                                  *)
LEMMA OwedStays ==
    ASSUME Inv, [Next]_vars, NEW x, Owed(x), Fresh(x.call)' PROVE Owed(x)'
<1>1. givenUp \subseteq givenUp' /\ returned \subseteq returned'
  BY DEF Next, FetchBlockhash, CheckBalance, ShareAddress, GetBlockhash, GetBalance, Return,
         TimeOut, Repeat, EndShare, NewProcess, Receive, Hear, Beacon, vars, ghosts
<1>2. CASE Ended(x)
  BY <1>1, <1>2 DEF Ended, Owed
<1>3. CASE call.kind = x.kind /\ call.number = x.call
  <2>1. call.kind \in {"blockhash", "balance"} /\ call # Idle
    BY <1>3 DEF Owed, Idle
  <2>2. \/ call' = call
        \/ call \in givenUp'
        \/ \E r \in returned' : r.call = call
    <3>1. CASE GetBlockhash \/ GetBalance
      <4>1. \E answer : [call |-> call, answer |-> answer] \in returned'
        BY <3>1 DEF GetBlockhash, GetBalance, Return
      <4>2. QED
        BY <4>1
    <3>2. CASE TimeOut \/ NewProcess
      BY <2>1, <3>2 DEF TimeOut, NewProcess
    <3>3. CASE ~(GetBlockhash \/ GetBalance \/ TimeOut \/ NewProcess)
      BY <2>1, <3>3 DEF Next, FetchBlockhash, CheckBalance, ShareAddress, Begin, Repeat,
                        EndShare, Receive, Hear, Beacon, vars, caller
    <3>4. QED
      BY <3>1, <3>2, <3>3
  <2>3. QED
    BY <1>3, <2>2 DEF Owed, Ended
<1>4. QED
  BY <1>2, <1>3 DEF Owed

(* Nothing owed has the number of a share in progress.                     *)
LEMMA NotTheShare ==
    ASSUME Inv, call.kind = "share", NEW x, Owed(x) PROVE x.call # call.number
  BY DEF Inv, Owed, Ended, Numbered, Idle

(* A new call: its number is nobody else's.                                *)
LEMMA OwingBegun ==
    ASSUME Inv, [Next]_vars, FetchBlockhash \/ CheckBalance \/ ShareAddress PROVE Owing'
<1> USE DEF Inv
<1>1. PICK kind \in Kinds : Begin(kind) /\ (kind = "blockhash" => blockhash' = NoAnswer)
  BY DEF FetchBlockhash, CheckBalance, ShareAddress, Kinds
<1>2. /\ call = Idle /\ calls' = calls + 1 /\ call'.kind = kind /\ call'.number = calls'
      /\ \A n \in Calls : n # calls'
      /\ blockhash.call # calls'
  BY <1>1, NewNumber
<1>3. /\ returned' = returned /\ answers' = answers /\ balances' = balances
      /\ blockhash' \in {NoAnswer, blockhash}
  BY DEF FetchBlockhash, CheckBalance, ShareAddress, memory, ghosts
<1>4. \A x : Owed(x) => Owed(x)'
  <2> TAKE x
  <2> HAVE Owed(x)
  <2>1. Fresh(x.call)'
    BY <1>3 DEF Owed, Fresh
  <2>2. QED
    BY <2>1, OwedStays
<1>5. /\ questions \subseteq questions'
      /\ \A q \in questions' \ questions : q.kind = kind /\ q.call = calls'
      /\ kind # "share" => \A p, q \in questions' \ questions : p = q
  <2>1. CASE FetchBlockhash \/ CheckBalance
    <3>1. questions' = questions \cup {Question(gateway)}
      BY <2>1 DEF FetchBlockhash, CheckBalance, Ask
    <3>2. Question(gateway).kind = kind /\ Question(gateway).call = calls'
      BY <1>2 DEF Question
    <3>3. QED
      BY <3>1, <3>2
  <2>2. CASE ShareAddress
    <3>1. questions' = questions \cup {Question(g) : g \in Gateways} /\ kind = "share"
      BY <1>1, <2>2 DEF ShareAddress, Broadcast, Begin
    <3>2. \A g : Question(g).kind = kind /\ Question(g).call = calls'
      BY <1>2 DEF Question
    <3>3. QED
      BY <3>1, <3>2
  <2>3. QED
    BY <2>1, <2>2
<1>6. /\ \A q \in questions : q.call \in Calls
      /\ \A a \in answers \cup balances : a.call \in Calls
      /\ 0 \notin Calls /\ calls' # 0 /\ NoAnswer.call = 0
  BY <1>2 DEF TypeOK, Answers, Calls, NoAnswer
<1>7. ASSUME NEW q \in questions' \ questions, kind # "share" PROVE Owed(q)'
  <2>1. q.call = calls' /\ q.kind = kind
    BY <1>5, <1>7
  <2>2. Fresh(q.call)'
    BY <1>2, <1>3, <2>1 DEF Fresh, Numbered
  <2>3. QED
    BY <1>2, <1>7, <2>1, <2>2 DEF Owed, Kinds
<1>8. QuestionsOwed'
  <2> SUFFICES ASSUME NEW q \in questions', q.kind # "share"
               PROVE  /\ Owed(q)' /\ blockhash'.call # q.call
                      /\ \A p \in questions' : p.call = q.call => p = q
                      /\ \A a \in answers' \cup balances' : a.call # q.call
    BY DEF QuestionsOwed
  <2>1. CASE q \in questions
    BY <1>2, <1>3, <1>4, <1>5, <1>6, <2>1 DEF QuestionsOwed
  <2>2. CASE q \notin questions
    BY <1>2, <1>3, <1>5, <1>6, <1>7, <2>2
  <2>3. QED
    BY <2>1, <2>2
<1>9. AnswersOwed'
  BY <1>2, <1>3, <1>4, <1>5, <1>6 DEF AnswersOwed
<1>10. BalancesOwed'
  BY <1>3, <1>4, <1>6 DEF BalancesOwed
<1>11. SlotOwed'
  BY <1>1, <1>2, <1>3, <1>4 DEF SlotOwed
<1>12. QED
  BY <1>8, <1>9, <1>10, <1>11 DEF Owing

(* A share repeated: what is owed is elsewhere.                            *)
LEMMA OwingRepeated == ASSUME Inv, [Next]_vars, Repeat PROVE Owing'
<1> USE DEF Inv
<1>1. /\ call.kind = "share" /\ call'.kind = "share" /\ call'.number = call.number
      /\ UNCHANGED <<returned, givenUp, answers, balances, blockhash>>
  BY DEF Repeat, Idle, TypeOK, memory, ghosts
<1>2. /\ questions \subseteq questions'
      /\ \A q \in questions' \ questions : q.kind = "share" /\ q.call = call.number
  BY <1>1 DEF Repeat, Broadcast, Question
<1>3. \A x : Owed(x) => Owed(x)' /\ x.call # call.number
  <2> TAKE x
  <2> HAVE Owed(x)
  <2>1. Fresh(x.call)'
    BY <1>1 DEF Owed, Fresh
  <2>2. QED
    BY <1>1, <2>1, OwedStays, NotTheShare
<1>4. QuestionsOwed'
  BY <1>1, <1>2, <1>3 DEF QuestionsOwed
<1>5. AnswersOwed'
  BY <1>1, <1>2, <1>3 DEF AnswersOwed
<1>6. BalancesOwed' /\ SlotOwed'
  BY <1>1, <1>3 DEF BalancesOwed, SlotOwed
<1>7. QED
  BY <1>4, <1>5, <1>6 DEF Owing

(* A call that ends: what it returns was in one place, and leaves it.      *)
LEMMA OwingEnded ==
    ASSUME Inv, [Next]_vars,
           GetBlockhash \/ GetBalance \/ TimeOut \/ EndShare \/ NewProcess
    PROVE  Owing'
<1> USE DEF Inv
<1>1. call' = Idle /\ questions' = questions /\ answers' = answers
  BY DEF GetBlockhash, GetBalance, Return, TimeOut, EndShare, NewProcess, mesh
<1>2. balances' \subseteq balances /\ blockhash' \in {NoAnswer, blockhash}
  BY DEF GetBlockhash, GetBalance, TimeOut, EndShare, NewProcess, memory
<1>3. \A r \in returned' :
        \/ r \in returned
        \/ /\ GetBlockhash
           /\ r.answer = blockhash /\ blockhash # NoAnswer /\ call.kind = "blockhash"
        \/ GetBalance /\ r.answer \in balances \ balances'
  BY DEF GetBlockhash, GetBalance, Return, TimeOut, EndShare, NewProcess
<1>4. \A x : Owed(x) /\ Fresh(x.call)' => Owed(x)'
  BY OwedStays
<1>5. ASSUME NEW x, Owed(x), blockhash.call # x.call,
             \A b \in balances \ balances' : b.call # x.call
      PROVE  Owed(x)'
  <2>1. Fresh(x.call)'
    BY <1>3, <1>5 DEF Owed, Fresh
  <2>2. QED
    BY <1>4, <1>5, <2>1
<1>6. \A x : x.call \in Calls => NoAnswer.call # x.call
  BY DEF NoAnswer, Calls
<1>7. QuestionsOwed'
  <2> SUFFICES ASSUME NEW q \in questions, q.kind # "share"
               PROVE  /\ Owed(q)' /\ blockhash'.call # q.call
                      /\ \A p \in questions : p.call = q.call => p = q
                      /\ \A a \in answers \cup balances' : a.call # q.call
    BY <1>1 DEF QuestionsOwed
  <2>1. q.call \in Calls
    BY DEF TypeOK
  <2>2. QED
    BY <1>2, <1>5, <1>6, <2>1 DEF QuestionsOwed
<1>8. AnswersOwed'
  <2> SUFFICES ASSUME NEW a \in answers, a.kind # "share"
               PROVE  /\ Owed(a)' /\ blockhash'.call # a.call
                      /\ \A q \in questions : q.call # a.call
                      /\ \A b \in answers : b.call = a.call => b = a
                      /\ \A b \in balances' : b.call # a.call
    BY <1>1 DEF AnswersOwed
  <2>1. a.call \in Calls
    BY DEF TypeOK, Answers
  <2>2. QED
    BY <1>2, <1>5, <1>6, <2>1 DEF AnswersOwed
<1>9. BalancesOwed'
  <2> SUFFICES ASSUME NEW b \in balances'
               PROVE  /\ Owed(b)' /\ b.kind = "balance" /\ blockhash'.call # b.call
                      /\ \A c \in balances' : c.call = b.call => c = b
    BY DEF BalancesOwed
  <2>1. b \in balances /\ b.call \in Calls
    BY <1>2 DEF TypeOK, Answers
  <2>2. QED
    BY <1>2, <1>5, <1>6, <2>1 DEF BalancesOwed
<1>10. SlotOwed'
  BY <1>1, <1>2 DEF SlotOwed, Idle
<1>11. QED
  BY <1>7, <1>8, <1>9, <1>10 DEF Owing

(* A packet that moves on: what it stands for moves with it.               *)
LEMMA OwingMoved ==
    ASSUME Inv, [Next]_vars,
           \/ \E q \in questions : Receive(q)
           \/ \E a \in answers : Hear(a)
           \/ (\E g \in Gateways : Beacon(g)) \/ UNCHANGED vars
    PROVE  Owing'
<1> USE DEF Inv
<1>1. UNCHANGED <<call, returned, givenUp>>
  BY DEF Receive, Hear, Beacon, vars, caller, ghosts
<1>2. \A x : Owed(x) => Owed(x)'
  BY <1>1 DEF Owed, Fresh, Ended
<1>3. ASSUME NEW q \in questions, Receive(q) PROVE Owing'
  <2>1. /\ questions' = questions \ {q} /\ balances' = balances /\ blockhash' = blockhash
        /\ answers' = answers \/ answers' = answers \cup {Answer(q)}
    BY <1>3 DEF Receive, Refuse, Serve, memory
  <2>2. \A a \in answers' : a \in answers \/ (a.kind = q.kind /\ a.call = q.call)
    BY <2>1 DEF Answer
  <2>3. Answer(q).kind = q.kind /\ Answer(q).call = q.call
    BY DEF Answer
  <2>4. QuestionsOwed'
    <3> SUFFICES ASSUME NEW p \in questions', p.kind # "share"
                 PROVE  /\ Owed(p)' /\ blockhash'.call # p.call
                        /\ \A o \in questions' : o.call = p.call => o = p
                        /\ \A a \in answers' \cup balances' : a.call # p.call
      BY DEF QuestionsOwed
    <3>1. p \in questions /\ p # q /\ q.call # p.call
      BY <2>1 DEF QuestionsOwed
    <3>2. QED
      BY <1>2, <2>1, <2>2, <3>1 DEF QuestionsOwed
  <2>5. AnswersOwed'
    <3> SUFFICES ASSUME NEW a \in answers', a.kind # "share"
                 PROVE  /\ Owed(a)' /\ blockhash'.call # a.call
                        /\ \A p \in questions' : p.call # a.call
                        /\ \A b \in answers' : b.call = a.call => b = a
                        /\ \A b \in balances' : b.call # a.call
      BY DEF AnswersOwed
    <3>1. CASE a \in answers
      BY <1>2, <2>1, <2>2, <3>1 DEF AnswersOwed
    <3>2. CASE a \notin answers
      <4>1. a = Answer(q) /\ a.kind = q.kind /\ a.call = q.call
        BY <2>1, <2>3, <3>2
      <4>2. Owed(q) /\ q.kind # "share"
        BY <4>1 DEF QuestionsOwed
      <4>3. Owed(a)'
        BY <1>2, <4>1, <4>2 DEF Owed, Fresh, Ended
      <4>4. QED
        BY <2>1, <4>1, <4>2, <4>3 DEF QuestionsOwed
    <3>3. QED
      BY <3>1, <3>2
  <2>6. BalancesOwed' /\ SlotOwed'
    BY <1>1, <1>2, <2>1 DEF BalancesOwed, SlotOwed
  <2>7. QED
    BY <2>4, <2>5, <2>6 DEF Owing
<1>4. ASSUME NEW a \in answers, Hear(a) PROVE Owing'
  <2>1. /\ questions' = questions /\ answers' = answers \ {a}
        /\ blockhash' = IF a.kind = "blockhash" THEN a ELSE blockhash
        /\ balances' = IF a.kind = "balance" THEN balances \cup {a} ELSE balances
    BY <1>4 DEF Hear
  <2>2. a.kind # "share" => Owed(a)
    BY DEF AnswersOwed
  <2>3. QuestionsOwed'
    BY <1>2, <2>1 DEF QuestionsOwed
  <2>4. AnswersOwed'
    <3> SUFFICES ASSUME NEW b \in answers', b.kind # "share"
                 PROVE  /\ Owed(b)' /\ blockhash'.call # b.call
                        /\ \A p \in questions' : p.call # b.call
                        /\ \A c \in answers' : c.call = b.call => c = b
                        /\ \A c \in balances' : c.call # b.call
      BY DEF AnswersOwed
    <3>1. b \in answers /\ a.call # b.call
      BY <2>1 DEF AnswersOwed
    <3>2. QED
      BY <1>2, <2>1, <3>1 DEF AnswersOwed
  <2>5. BalancesOwed'
    <3> SUFFICES ASSUME NEW b \in balances'
                 PROVE  /\ Owed(b)' /\ b.kind = "balance" /\ blockhash'.call # b.call
                        /\ \A c \in balances' : c.call = b.call => c = b
      BY DEF BalancesOwed
    <3>1. CASE a.kind = "balance"
      BY <1>2, <2>1, <2>2, <3>1 DEF BalancesOwed, AnswersOwed
    <3>2. CASE a.kind # "balance"
      BY <1>2, <2>1, <3>2 DEF BalancesOwed, AnswersOwed
    <3>3. QED
      BY <3>1, <3>2
  <2>6. SlotOwed'
    BY <1>1, <1>2, <2>1, <2>2 DEF SlotOwed
  <2>7. QED
    BY <2>3, <2>4, <2>5, <2>6 DEF Owing
<1>5. CASE UNCHANGED <<questions, answers, balances, blockhash>>
  <2>1. QuestionsOwed' /\ AnswersOwed'
    BY <1>2, <1>5 DEF QuestionsOwed, AnswersOwed
  <2>2. BalancesOwed' /\ SlotOwed'
    BY <1>1, <1>2, <1>5 DEF BalancesOwed, SlotOwed
  <2>3. QED
    BY <2>1, <2>2 DEF Owing
<1>6. QED
  BY <1>3, <1>4, <1>5 DEF Beacon, vars, memory, mesh

(* An answer returned was owed: to this call, or to one that was given up  *)
(* or made do with an older answer.                                        *)
LEMMA StepAnswers == ASSUME Inv, [Next]_vars PROVE AnswersAreOwn'
<1> USE DEF Inv
<1>1. ASSUME NEW x, Owed(x), x.kind = call.kind, call.kind \in {"blockhash", "balance"},
             returned' = returned \cup {[call |-> call, answer |-> x]}, givenUp' = givenUp
      PROVE  AnswersAreOwn'
  <2>1. call # Idle /\ call.number = calls /\ calls \in Nat
    BY <1>1 DEF TypeOK, Idle
  <2>2. ASSUME x.call # call.number
        PROVE  \E c \in givenUp : c.kind = call.kind /\ c.number < call.number
    <3>1. CASE \E c \in givenUp : c.kind = x.kind /\ c.number = x.call
      BY <1>1, <2>1, <2>2, <3>1 DEF Numbered, Calls
    <3>2. CASE \E r \in returned : r.call.kind = x.kind /\ r.call.number = x.call
      <4>1. PICK r \in returned : r.call.kind = x.kind /\ r.call.number = x.call
        BY <3>2
      <4>2. r.answer.call # r.call.number
        BY <1>1, <4>1 DEF Owed, Fresh
      <4>3. PICK c \in givenUp : c.kind = r.call.kind /\ c.number < r.call.number
        BY <4>2 DEF AnswersAreOwn
      <4>4. c.number \in 1..calls /\ r.call.number \in 1..calls /\ r.call.number # calls
        BY <2>1 DEF Numbered, Calls
      <4>5. QED
        BY <1>1, <2>1, <4>1, <4>3, <4>4
    <3>3. QED
      BY <1>1, <2>2, <3>1, <3>2 DEF Owed, Ended
  <2>3. \A r \in returned : r.answer.call # x.call
    BY <1>1 DEF Owed, Fresh
  <2>4. QED
    BY <1>1, <2>2, <2>3 DEF AnswersAreOwn
<1>2. CASE GetBlockhash
  BY <1>1, <1>2 DEF GetBlockhash, Return, SlotOwed
<1>3. CASE GetBalance
  BY <1>1, <1>3 DEF GetBalance, Return, BalancesOwed
<1>4. CASE returned' = returned /\ givenUp \subseteq givenUp'
  BY <1>4 DEF AnswersAreOwn
<1>5. QED
  BY <1>2, <1>3, <1>4
     DEF Next, FetchBlockhash, CheckBalance, ShareAddress, TimeOut, Repeat, EndShare,
         NewProcess, Receive, Hear, Beacon, vars, ghosts

(* An acknowledgement follows the storing.                                 *)
LEMMA StepShares ==
    ASSUME Inv, [Next]_vars PROVE AcksAreStored' /\ SharesAreStored'
<1> USE DEF Inv
<1>1. \A n : Stored(n) => Stored(n)'
  <2>1. known' = known \/ \E q \in questions : known' = [known EXCEPT ![q.to] = @ \cup {q.call}]
    BY DEF Next, FetchBlockhash, GetBlockhash, CheckBalance, GetBalance, TimeOut,
           ShareAddress, Repeat, EndShare, NewProcess, Receive, Refuse, Serve, Hear, Beacon,
           vars
  <2>2. QED
    BY <2>1 DEF Stored, TypeOK
<1>2. \A a \in answers' : a.kind = "share" => Stored(a.call)'
  <2>1. ASSUME NEW q \in questions, Receive(q)
        PROVE  \A a \in answers' : a \in answers \/ (a.kind = "share" => Stored(a.call)')
    <3>1. CASE q.kind = "share"
      <4>1. known' = [known EXCEPT ![q.to] = @ \cup {q.call}] /\ q.to \in Gateways
        BY <2>1, <3>1 DEF Receive, Refuse, Serve, TypeOK
      <4>2. Stored(q.call)'
        BY <4>1 DEF Stored, TypeOK
      <4>3. QED
        BY <2>1, <4>2 DEF Receive, Refuse, Serve, Answer
    <3>2. CASE q.kind # "share"
      BY <2>1, <3>2 DEF Receive, Refuse, Serve, Answer
    <3>3. QED
      BY <3>1, <3>2
  <2>2. answers' \subseteq answers \/ \E q \in questions : Receive(q)
    BY DEF Next, FetchBlockhash, GetBlockhash, CheckBalance, GetBalance, TimeOut,
           ShareAddress, Repeat, EndShare, NewProcess, Hear, Beacon, vars, mesh
  <2>3. QED
    BY <1>1, <2>1, <2>2 DEF AcksAreStored
<1>3. \A n \in acked' : Stored(n)'
  <2>1. \A n \in acked' : n \in acked \/ \E a \in answers : a.kind = "share" /\ a.call = n
    BY DEF Next, FetchBlockhash, GetBlockhash, CheckBalance, GetBalance, TimeOut,
           ShareAddress, Repeat, EndShare, NewProcess, Receive, Hear, HeardAck, Beacon, vars,
           memory
  <2>2. QED
    BY <1>1, <2>1 DEF AcksAreStored
<1>4. \A n \in confirmed' : n \in confirmed \/ n \in acked
  BY DEF Next, FetchBlockhash, GetBlockhash, CheckBalance, GetBalance, TimeOut,
         ShareAddress, Repeat, EndShare, NewProcess, Receive, Hear, Beacon, vars, ghosts
<1>5. SharesAreStored'
  <2>1. \A n \in confirmed' : Stored(n)'
    BY <1>1, <1>4 DEF SharesAreStored, AcksAreStored, Stored
  <2>2. QED
    BY <2>1 DEF SharesAreStored, Stored
<1>6. QED
  BY <1>2, <1>3, <1>5 DEF AcksAreStored

(* A gateway once asked stays the one to ask.                              *)
LEMMA StepGateway ==
    ASSUME Inv, [Next]_vars PROVE asked' \subseteq Gateways /\ OneGateway'
<1> USE DEF Inv
<1>1. CASE FetchBlockhash \/ CheckBalance
  BY <1>1 DEF FetchBlockhash, CheckBalance, Ask, memory, OneGateway, TypeOK
<1>2. CASE NewProcess
  BY <1>2 DEF NewProcess, OneGateway
<1>3. ASSUME NEW g \in Gateways, Beacon(g) PROVE asked' \subseteq Gateways /\ OneGateway'
  BY <1>3, ClientSessionAssumption DEF Beacon, Pinned, ghosts, OneGateway
<1>4. CASE UNCHANGED <<asked, gateway>>
  BY <1>4 DEF OneGateway
<1>5. QED
  BY <1>1, <1>2, <1>3, <1>4
     DEF Next, GetBlockhash, GetBalance, TimeOut, ShareAddress, Repeat, EndShare, Receive,
         Hear, vars, memory, ghosts

-----------------------------------------------------------------------------

(* The invariant is inductive.                                             *)
LEMMA Invariance == Spec => []Inv
<1>1. Inv /\ [Next]_vars => Owing'
  BY OwingBegun, OwingRepeated, OwingEnded, OwingMoved DEF Next
<1>2. Inv /\ [Next]_vars => Inv'
  BY <1>1, StepType, StepNumbered, StepAnswers, StepShares, StepGateway DEF Inv, Owing
<1>3. QED
  BY InitInv, <1>2, PTL DEF Spec

(* Type correctness of the client, the mesh and the gateways.              *)
THEOREM TypeCorrect == Spec => []TypeOK
<1>1. Inv => TypeOK
  BY DEF Inv
<1>2. QED
  BY Invariance, <1>1, PTL

(* An answer serves one call, of its kind, and is another call's only if   *)
(* one of its kind was given up.                                           *)
THEOREM AnswersAccounted == Spec => []AnswersAreOwn
<1>1. Inv => AnswersAreOwn
  BY DEF Inv
<1>2. QED
  BY Invariance, <1>1, PTL

(* What was confirmed as shared is stored by a gateway.                    *)
THEOREM SharesKept == Spec => []SharesAreStored
<1>1. Inv => SharesAreStored
  BY DEF Inv
<1>2. QED
  BY Invariance, <1>1, PTL

(* A process asks one gateway only.                                        *)
THEOREM Pinning == Spec => []OneGateway
<1>1. Inv => OneGateway
  BY DEF Inv
<1>2. QED
  BY Invariance, <1>1, PTL

=============================================================================
