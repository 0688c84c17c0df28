----------------------------- MODULE DeferredProofs -----------------------------
(***************************************************************************)
(* Theorems about Deferred, for every number of processes, intents,        *)
(* payments, crashes and messages.                                         *)
(***************************************************************************)
EXTENDS Deferred, TLAPS

(* What the operations of the store return is again a queue file.          *)
LEMMA StoreTypes ==
    ASSUME NEW f \in Files, NEW i \in Ids \cup {0}, NEW s \in Status \cup {"none"},
           NEW statuses \in SUBSET Status
    PROVE  /\ SetStatus(f, i, s) \in Files
           /\ IncrementAttempts(f, i) \in Files
           /\ RecoverSending(f) \in Files
           /\ WithNew(f, i) \in Files
           /\ Without(f, i) \in Files
           /\ Cleared(f, statuses) \in Files
<1> USE DEF Files, Entries, Status
<1>1. SetStatus(f, i, s) \in Files
  BY DEF SetStatus
<1>2. IncrementAttempts(f, i) \in Files
  <2> DEFINE entry == [status   |-> IF f[i].attempts + 1 >= MaxAttempts
                                    THEN "failed" ELSE f[i].status,
                       attempts |-> f[i].attempts + 1]
  <2>1. IncrementAttempts(f, i) = [f EXCEPT ![i] = entry]
    BY DEF IncrementAttempts
  <2>2. CASE i \in Ids
    <3>1. entry \in Entries
      BY <2>2
    <3>2. QED
      BY <2>1, <3>1
  <2>3. CASE i \notin Ids
    BY <2>1, <2>3
  <2>4. QED
    BY <2>2, <2>3
<1>3. RecoverSending(f) \in Files
  BY DEF RecoverSending
<1>4. WithNew(f, i) \in Files
  BY DEF WithNew
<1>5. Without(f, i) \in Files
  BY DEF Without, Absent
<1>6. Cleared(f, statuses) \in Files
  BY DEF Cleared, Absent
<1>7. QED
  BY <1>1, <1>2, <1>3, <1>4, <1>5, <1>6

(* An empty store is a queue file.                                         *)
LEMMA EmptyFileType == EmptyFile \in Files
BY DEF EmptyFile, Files, Entries, Absent

-----------------------------------------------------------------------------
(* Type correctness.                                                       *)

(* Between the start and the end of flush_intent a process is at an intent. *)
Working == Flushing \ {"snapshot", "next"}

AtWork == \A p \in Procs :
    /\ pc[p] \in Working => cur[p] \in Ids
    /\ pc[p] = "recover" => cmd[p] \in Commands

(* Saving a queue file leaves the file and the loaded copies well typed.   *)
LEMMA SaveTypes ==
    ASSUME TypeOK, NEW p \in Procs, NEW changed, NEW contents \in Files,
           Save(p, changed, contents)
    PROVE  /\ queue' \in Files
           /\ open' \in [Procs -> BOOLEAN]
           /\ buf' \in [Procs -> Files]
BY EmptyFileType DEF Save, TypeOK

(* A jump keeps the type of the program counters.                          *)
LEMMA GotoTypes ==
    ASSUME TypeOK, NEW p \in Procs, NEW label \in Labels, Goto(p, label)
    PROVE  pc' \in [Procs -> Labels]
BY DEF Goto, TypeOK

(* So does the end of a process.                                           *)
LEMMA ExitTypes ==
    ASSUME TypeOK, NEW p \in Procs, Exit(p)
    PROVE  /\ pc' \in [Procs -> Labels]
           /\ cmd' \in [Procs -> Commands \cup {"none"}]
BY DEF Exit, Goto, TypeOK, Labels

(* So does the way back to the loop of flush_all_pending.                  *)
LEMMA DoneTypes ==
    ASSUME TypeOK, NEW p \in Procs, Done(p)
    PROVE  /\ pc' \in [Procs -> Labels]
           /\ cur' \in [Procs -> Ids \cup {0}]
BY DEF Done, Goto, TypeOK, Labels, Flushing

(* Every action keeps the types.                                           *)
LEMMA TypeStep ==
    ASSUME TypeOK, AtWork, [Next]_vars
    PROVE  TypeOK'
<1>1. ASSUME NEW p \in Procs, Load(p) PROVE TypeOK'
  BY <1>1 DEF Load, TypeOK, disk, flush, waiting, net, env
<1>2. ASSUME NEW p \in Procs, Recover(p) PROVE TypeOK'
  <2>1. RecoverSending(buf[p]) \in Files
    BY StoreTypes DEF TypeOK
  <2>2. queue' \in Files /\ open' \in [Procs -> BOOLEAN] /\ buf' \in [Procs -> Files]
    BY <1>2, <2>1, SaveTypes DEF Recover
  <2>3. cmd[p] \in {"add", "remove", "clear", "list", "flush", "listen"}
    BY <1>2, DeferredAssumption DEF Recover, AtWork
  <2>4. ASSUME cmd[p] = "list"
        PROVE  pc' \in [Procs -> Labels] /\ cmd' \in [Procs -> Commands \cup {"none"}]
    BY <1>2, <2>4, ExitTypes DEF Recover
  <2>5. ASSUME cmd[p] # "list"
        PROVE  pc' \in [Procs -> Labels] /\ cmd' \in [Procs -> Commands \cup {"none"}]
    BY <1>2, <2>3, <2>5 DEF Recover, Goto, TypeOK, Labels, Rewrites
  <2>6. QED
    BY <1>2, <2>1, <2>2, <2>3, <2>4, <2>5 DEF Recover, TypeOK, flush, waiting, net, env
<1>3. ASSUME NEW p \in Procs, Add(p) PROVE TypeOK'
  <2>1. PICK what \in Payments : \/ Save(p, FALSE, EmptyFile) /\ UNCHANGED asked
                                \/ /\ Len(asked) < MaxIntents
                                   /\ asked' = Append(asked, what)
                                   /\ Save(p, TRUE, WithNew(buf[p], Len(asked) + 1))
    BY <1>3 DEF Add
  <2>2. Len(asked) < MaxIntents => Len(asked) + 1 \in Ids
    BY IntentStoreAssumption DEF TypeOK, Ids
  <2>3. Len(asked) < MaxIntents => WithNew(buf[p], Len(asked) + 1) \in Files
    BY <2>2, StoreTypes DEF TypeOK
  <2>4. queue' \in Files /\ open' \in [Procs -> BOOLEAN] /\ buf' \in [Procs -> Files]
    BY <2>1, <2>3, SaveTypes, EmptyFileType
  <2>5. Append(asked, what) \in Seq(Payments)
    BY DEF TypeOK
  <2>6. asked' \in Seq(Payments)
    BY <2>1, <2>5 DEF TypeOK
  <2>7. pc' \in [Procs -> Labels] /\ cmd' \in [Procs -> Commands \cup {"none"}]
    BY <1>3, ExitTypes DEF Add
  <2>8. QED
    BY <1>3, <2>1, <2>2, <2>3, <2>4, <2>5, <2>6, <2>7
       DEF Add, TypeOK, flush, waiting, net, env
<1>4. ASSUME NEW p \in Procs, Remove(p) PROVE TypeOK'
  <2>1. queue' \in Files /\ open' \in [Procs -> BOOLEAN] /\ buf' \in [Procs -> Files]
    BY <1>4, StoreTypes, SaveTypes DEF Remove, TypeOK
  <2>2. pc' \in [Procs -> Labels] /\ cmd' \in [Procs -> Commands \cup {"none"}]
    BY <1>4, ExitTypes DEF Remove
  <2>3. QED
    BY <1>4, <2>1, <2>2 DEF Remove, TypeOK, flush, waiting, net, env
<1>5. ASSUME NEW p \in Procs, Clear(p) PROVE TypeOK'
  <2>1. queue' \in Files /\ open' \in [Procs -> BOOLEAN] /\ buf' \in [Procs -> Files]
    BY <1>5, StoreTypes, SaveTypes DEF Clear, TypeOK
  <2>2. pc' \in [Procs -> Labels] /\ cmd' \in [Procs -> Commands \cup {"none"}]
    BY <1>5, ExitTypes DEF Clear
  <2>3. QED
    BY <1>5, <2>1, <2>2 DEF Clear, TypeOK, flush, waiting, net, env
<1>6. ASSUME NEW p \in Procs, Connect(p) PROVE TypeOK'
  <2>1. pc' \in [Procs -> Labels] /\ cmd' \in [Procs -> Commands \cup {"none"}]
    BY <1>6, ExitTypes, GotoTypes DEF Connect, TypeOK, Labels
  <2>2. QED
    BY <1>6, <2>1 DEF Connect, TypeOK, TypeOK, disk, file, flush, waiting, net, env
<1>7. ASSUME NEW p \in Procs, Discovered(p) PROVE TypeOK'
  BY <1>7 DEF Discovered, Goto, Labels, TypeOK, disk, file, flush, waiting, net, env
<1>8. ASSUME NEW p \in Procs, Lock(p) PROVE TypeOK'
  BY <1>8 DEF Lock, Goto, Labels, Flushing, TypeOK, disk, file, flush, waiting, net, env
<1>9. ASSUME NEW p \in Procs, Snapshot(p) PROVE TypeOK'
  BY <1>9
     DEF Snapshot, Goto, Labels, Flushing, PendingIn, TypeOK, disk, file, waiting,
         net, env
<1>10. ASSUME NEW p \in Procs, Skip(p) PROVE TypeOK'
  BY <1>10 DEF Skip, TypeOK, disk, file, waiting, net, env
<1>11. ASSUME NEW p \in Procs, Begin(p) PROVE TypeOK'
  BY <1>11
     DEF Begin, Goto, Labels, Rewrites, Oldest, TypeOK, disk, file, waiting, net, env
<1>12. ASSUME NEW p \in Procs, Finish(p) PROVE TypeOK'
  <2>1. pc' \in [Procs -> Labels] /\ cmd' \in [Procs -> Commands \cup {"none"}]
    BY <1>12, ExitTypes, GotoTypes DEF Finish, TypeOK, Labels
  <2>2. QED
    BY <1>12, <2>1 DEF Finish, TypeOK, disk, file, waiting, net, env
<1>13. ASSUME NEW p \in Procs, MarkSending(p) PROVE TypeOK'
  <2>1. SetStatus(buf[p], cur[p], "sending") \in Files
    BY StoreTypes DEF TypeOK, Status
  <2>2. queue' \in Files /\ open' \in [Procs -> BOOLEAN] /\ buf' \in [Procs -> Files]
    BY <1>13, <2>1, SaveTypes DEF MarkSending, SaveStatus
  <2>3. QED
    BY <1>13, <2>1, <2>2
       DEF MarkSending, Goto, Labels, Flushing, TypeOK, flush, waiting, net, env
<1>14. ASSUME NEW p \in Procs, Dispatch(p) PROVE TypeOK'
  <2>1. Len(log) \in Nat /\ Len(log) + 1 \in Msgs
    BY <1>14 DEF Dispatch, Msgs
  <2>2. pc' \in [Procs -> Labels]
    BY <1>14 DEF Dispatch, TypeOK, Goto, Labels, Flushing
  <2>3. NewRequest(p) \in Messages
    BY <1>14 DEF Dispatch, NewRequest, Messages, AtWork, Working, Flushing
  <2>4. log' \in Seq(Messages) /\ Len(log') = Len(log) + 1
    BY <1>14, <2>3 DEF Dispatch, TypeOK
  <2>5. 1..Len(log) \subseteq 1..Len(log') /\ Len(log) + 1 \in 1..Len(log')
    BY <2>1, <2>4
  <2>6. requests' \subseteq 1..Len(log')
    BY <1>14, <2>5 DEF Dispatch, TypeOK
  <2>7. replies' \subseteq [msg : 1..Len(log'), ok : BOOLEAN] /\ paid' \subseteq 1..Len(log')
    BY <1>14, <2>5 DEF Dispatch, TypeOK
  <2>8. cur[p] \in Ids /\ sends[cur[p]] + 1 \in Nat
    BY <1>14 DEF Dispatch, NewRequest, TypeOK, AtWork, Working, Flushing
  <2>9. sends' \in [Ids -> Nat]
    BY <1>14, <2>8 DEF Dispatch, TypeOK
  <2>10. msg' \in [Procs -> Msgs \cup {0}]
    BY <1>14, <2>1 DEF Dispatch, TypeOK
  <2>11. QED
    BY <1>14, <2>1, <2>2, <2>3, <2>4, <2>5, <2>6, <2>7, <2>8, <2>9, <2>10
       DEF Dispatch, TypeOK, disk, file, flush, env
<1>15. ASSUME NEW p \in Procs, DispatchRaises(p) PROVE TypeOK'
  BY <1>15
     DEF DispatchRaises, NotReady, WrongPassphrase, Goto, Labels, Flushing, TypeOK,
         disk, file, flush, waiting, net, env
<1>16. ASSUME NEW p \in Procs, Unmark(p) PROVE TypeOK'
  <2>1. SetStatus(buf[p], cur[p], "pending") \in Files
    BY StoreTypes DEF TypeOK, Status
  <2>2. queue' \in Files /\ open' \in [Procs -> BOOLEAN] /\ buf' \in [Procs -> Files]
    BY <1>16, <2>1, SaveTypes DEF Unmark, SaveStatus
  <2>3. QED
    BY <1>16, <2>1, <2>2, DoneTypes DEF Unmark, TypeOK, waiting, net, env
<1>17. ASSUME NEW p \in Procs, CountAttempt(p) PROVE TypeOK'
  <2>1. IncrementAttempts(buf[p], cur[p]) \in Files
    BY StoreTypes DEF TypeOK
  <2>2. queue' \in Files /\ open' \in [Procs -> BOOLEAN] /\ buf' \in [Procs -> Files]
    BY <1>17, <2>1, SaveTypes DEF CountAttempt
  <2>3. QED
    BY <1>17, <2>1, <2>2
       DEF CountAttempt, Goto, Labels, Flushing, TypeOK, flush, waiting, net, env
<1>18. ASSUME NEW p \in Procs, LookBack(p) PROVE TypeOK'
  <2>1. cur[p] \in Ids
    BY <1>18 DEF LookBack, AtWork, Working, Flushing
  <2>2. queue[cur[p]].status \in Status \cup {"none"}
    BY <2>1 DEF TypeOK, Files, Entries
  <2>3. QED
    BY <1>18, <2>1, <2>2
       DEF LookBack, Goto, Labels, Flushing, Status, TypeOK, disk, file, waiting, net,
           env
<1>19. ASSUME NEW p \in Procs, WriteBack(p) PROVE TypeOK'
  <2>1. SetStatus(buf[p], cur[p], seen[p]) \in Files
    BY StoreTypes DEF TypeOK, Status
  <2>2. queue' \in Files /\ open' \in [Procs -> BOOLEAN] /\ buf' \in [Procs -> Files]
    BY <1>19, <2>1, SaveTypes DEF WriteBack, SaveStatus
  <2>3. QED
    BY <1>19, <2>1, <2>2, DoneTypes DEF WriteBack, TypeOK, waiting, net, env
<1>20. ASSUME NEW p \in Procs, WaitOver(p) PROVE TypeOK'
  BY <1>20
     DEF WaitOver, StopWaiting, Goto, Labels, Flushing, TypeOK, disk, file, flush,
         net, env
<1>21. ASSUME NEW p \in Procs, Accept(p) PROVE TypeOK'
  <2>1. SetStatus(buf[p], cur[p], "sent") \in Files
    BY StoreTypes DEF TypeOK, Status
  <2>2. queue' \in Files /\ open' \in [Procs -> BOOLEAN] /\ buf' \in [Procs -> Files]
    BY <1>21, <2>1, SaveTypes DEF Accept, SaveStatus
  <2>3. QED
    BY <1>21, <2>1, <2>2, DoneTypes DEF Accept, TypeOK, waiting, net, env
<1>22. ASSUME NEW p \in Procs, Check(p) PROVE TypeOK'
  BY <1>22, DoneTypes
     DEF Check, Goto, Labels, Flushing, TypeOK, disk, file, waiting, net, env
<1>23. ASSUME NEW p \in Procs, Reopen(p) PROVE TypeOK'
  <2>1. SetStatus(buf[p], cur[p], "pending") \in Files
    BY StoreTypes DEF TypeOK, Status
  <2>2. queue' \in Files /\ open' \in [Procs -> BOOLEAN] /\ buf' \in [Procs -> Files]
    BY <1>23, <2>1, SaveTypes DEF Reopen, SaveStatus
  <2>3. QED
    BY <1>23, <2>1, <2>2, DoneTypes DEF Reopen, TypeOK, waiting, net, env
<1>24. ASSUME NEW p \in Procs, NEW c \in Commands, Start(p, c) PROVE TypeOK'
  BY <1>24
     DEF Start, Goto, Labels, Rewrites, TypeOK, disk, file, flush, waiting, net, env
<1>25. ASSUME NEW p \in Procs, Crash(p) PROVE TypeOK'
  BY <1>25, ExitTypes, EmptyFileType DEF Crash, TypeOK, disk, net
<1>26. ASSUME NEW p \in Procs, GiveUp(p) PROVE TypeOK'
  BY <1>26, ExitTypes DEF GiveUp, TypeOK, disk, file, flush, waiting, net
<1>27. ASSUME NEW p \in Procs, Beacon(p) PROVE TypeOK'
  BY <1>27 DEF Beacon, Goto, Labels, TypeOK, disk, file, flush, waiting, net, env
<1>28. ASSUME NEW p \in Procs, Stale(p) PROVE TypeOK'
  BY <1>28 DEF Stale, TypeOK, disk, file, flush, waiting, net
<1>29. ASSUME NEW n \in requests, Refuse(n) PROVE TypeOK'
  <2>1. [msg |-> n, ok |-> FALSE] \in [msg : 1..Len(log), ok : BOOLEAN]
    BY DEF TypeOK
  <2>2. QED
    BY <1>29, <2>1 DEF Refuse, Answer, TypeOK, disk, file, flush, waiting, env
<1>30. ASSUME NEW n \in requests, Pay(n) PROVE TypeOK'
  BY <1>30 DEF Pay, Answer, TypeOK, disk, file, flush, waiting, env
<1>31. ASSUME NEW r \in replies, Hear(r) PROVE TypeOK'
  BY <1>31 DEF Hear, TypeOK, disk, file, flush, env
<1>32. CASE UNCHANGED vars
  BY <1>32 DEF TypeOK, vars, disk, file, flush, waiting, net, env
<1>33. QED
  BY <1>1, <1>2, <1>3, <1>4, <1>5, <1>6, <1>7, <1>8, <1>9, <1>10, <1>11, <1>12, <1>13,
     <1>14, <1>15, <1>16, <1>17, <1>18, <1>19, <1>20, <1>21, <1>22, <1>23, <1>24,
     <1>25, <1>26, <1>27, <1>28, <1>29, <1>30, <1>31, <1>32
     DEF Next, Step

(* No action of flush_intent runs without an intent.                       *)
LEMMA AtWorkStep ==
    ASSUME TypeOK, AtWork, [Next]_vars
    PROVE  AtWork'
<1>1. ASSUME NEW p \in Procs, Load(p) PROVE AtWork'
  BY <1>1 DEF Load, AtWork, flush
<1>2. ASSUME NEW p \in Procs, Recover(p) PROVE AtWork'
  BY <1>2, DeferredAssumption
     DEF Recover, Goto, Exit, TypeOK, AtWork, Working, Flushing, flush
<1>3. ASSUME NEW p \in Procs, Add(p) PROVE AtWork'
  BY <1>3 DEF Add, Goto, Exit, AtWork, Working, Flushing, flush
<1>4. ASSUME NEW p \in Procs, Remove(p) PROVE AtWork'
  BY <1>4 DEF Remove, Goto, Exit, AtWork, Working, Flushing, flush
<1>5. ASSUME NEW p \in Procs, Clear(p) PROVE AtWork'
  BY <1>5 DEF Clear, Goto, Exit, AtWork, Working, Flushing, flush
<1>6. ASSUME NEW p \in Procs, Connect(p) PROVE AtWork'
  <2>1. ASSUME cmd[p] = "flush" /\ PendingIn(queue) = {} PROVE AtWork'
    BY <1>6, <2>1 DEF Connect, TypeOK, Exit, Goto, AtWork, Working, Flushing, flush
  <2>2. ASSUME ~(cmd[p] = "flush" /\ PendingIn(queue) = {}) PROVE AtWork'
    BY <1>6, <2>2 DEF Connect, TypeOK, Goto, AtWork, Working, Flushing, flush
  <2>3. QED
    BY <2>1, <2>2
<1>7. ASSUME NEW p \in Procs, Discovered(p) PROVE AtWork'
  BY <1>7 DEF Discovered, Goto, AtWork, Working, Flushing, flush
<1>8. ASSUME NEW p \in Procs, Lock(p) PROVE AtWork'
  BY <1>8 DEF Lock, Goto, AtWork, Working, flush
<1>9. ASSUME NEW p \in Procs, Snapshot(p) PROVE AtWork'
  BY <1>9 DEF Snapshot, Goto, AtWork, Working
<1>10. ASSUME NEW p \in Procs, Skip(p) PROVE AtWork'
  BY <1>10 DEF Skip, AtWork
<1>11. ASSUME NEW p \in Procs, Begin(p) PROVE AtWork'
  BY <1>11 DEF Begin, Goto, Oldest, TypeOK, AtWork
<1>12. ASSUME NEW p \in Procs, Finish(p) PROVE AtWork'
  BY <1>12 DEF Finish, Goto, Exit, TypeOK, AtWork, Working, Flushing
<1>13. ASSUME NEW p \in Procs, MarkSending(p) PROVE AtWork'
  BY <1>13 DEF MarkSending, Goto, AtWork, Working, Flushing, flush
<1>14. ASSUME NEW p \in Procs, Dispatch(p) PROVE AtWork'
  BY <1>14 DEF Dispatch, Goto, AtWork, Working, Flushing, flush
<1>15. ASSUME NEW p \in Procs, DispatchRaises(p) PROVE AtWork'
  BY <1>15
     DEF DispatchRaises, NotReady, WrongPassphrase, Goto, TypeOK, AtWork, Working,
         Flushing, flush
<1>16. ASSUME NEW p \in Procs, Unmark(p) PROVE AtWork'
  BY <1>16 DEF Unmark, Done, Goto, TypeOK, AtWork, Working
<1>17. ASSUME NEW p \in Procs, CountAttempt(p) PROVE AtWork'
  BY <1>17 DEF CountAttempt, Goto, AtWork, Working, Flushing, flush
<1>18. ASSUME NEW p \in Procs, LookBack(p) PROVE AtWork'
  BY <1>18 DEF LookBack, Goto, AtWork, Working, Flushing
<1>19. ASSUME NEW p \in Procs, WriteBack(p) PROVE AtWork'
  BY <1>19 DEF WriteBack, Done, Goto, TypeOK, AtWork, Working
<1>20. ASSUME NEW p \in Procs, WaitOver(p) PROVE AtWork'
  BY <1>20 DEF WaitOver, Goto, AtWork, Working, Flushing, flush
<1>21. ASSUME NEW p \in Procs, Accept(p) PROVE AtWork'
  BY <1>21 DEF Accept, Done, Goto, TypeOK, AtWork, Working
<1>22. ASSUME NEW p \in Procs, Check(p) PROVE AtWork'
  <2>1. ASSUME NeedsReopening(p) PROVE AtWork'
    BY <1>22, <2>1 DEF Check, TypeOK, Goto, AtWork, Working, Flushing
  <2>2. ASSUME ~NeedsReopening(p) PROVE AtWork'
    BY <1>22, <2>2 DEF Check, TypeOK, Done, Goto, AtWork, Working, Flushing
  <2>3. QED
    BY <2>1, <2>2
<1>23. ASSUME NEW p \in Procs, Reopen(p) PROVE AtWork'
  BY <1>23 DEF Reopen, Done, Goto, TypeOK, AtWork, Working
<1>24. ASSUME NEW p \in Procs, NEW c \in Commands, Start(p, c) PROVE AtWork'
  BY <1>24 DEF Start, Goto, TypeOK, AtWork, Working, Flushing, flush
<1>25. ASSUME NEW p \in Procs, Crash(p) PROVE AtWork'
  BY <1>25 DEF Crash, Exit, Goto, TypeOK, AtWork, Working, Flushing
<1>26. ASSUME NEW p \in Procs, GiveUp(p) PROVE AtWork'
  BY <1>26 DEF GiveUp, Exit, Goto, AtWork, Working, Flushing, flush
<1>27. ASSUME NEW p \in Procs, Beacon(p) PROVE AtWork'
  BY <1>27 DEF Beacon, Goto, AtWork, Working, Flushing, flush
<1>28. ASSUME NEW p \in Procs, Stale(p) PROVE AtWork'
  BY <1>28 DEF Stale, AtWork, flush
<1>29. ASSUME NEW n \in requests, Refuse(n) PROVE AtWork'
  BY <1>29 DEF Refuse, Answer, AtWork, flush
<1>30. ASSUME NEW n \in requests, Pay(n) PROVE AtWork'
  BY <1>30 DEF Pay, Answer, AtWork, flush
<1>31. ASSUME NEW r \in replies, Hear(r) PROVE AtWork'
  BY <1>31 DEF Hear, AtWork, flush
<1>32. CASE UNCHANGED vars
  BY <1>32 DEF vars, AtWork, flush
<1>33. QED
  BY <1>1, <1>2, <1>3, <1>4, <1>5, <1>6, <1>7, <1>8, <1>9, <1>10, <1>11, <1>12, <1>13,
     <1>14, <1>15, <1>16, <1>17, <1>18, <1>19, <1>20, <1>21, <1>22, <1>23, <1>24,
     <1>25, <1>26, <1>27, <1>28, <1>29, <1>30, <1>31, <1>32
     DEF Next, Step

(* The flush lock is held by exactly the process that is inside a flush.   *)
LockHeld == \A p \in Procs : pc[p] \in Flushing <=> flock = p

(* Only Lock and Finish enter and leave the flush; a crash may leave it.   *)
LEMMA LockHeldStep ==
    ASSUME TypeOK, LockHeld, [Next]_vars
    PROVE  LockHeld'
<1>1. ASSUME NEW p \in Procs, Load(p) PROVE LockHeld'
  BY <1>1 DEF Load, LockHeld
<1>2. ASSUME NEW p \in Procs, Recover(p) PROVE LockHeld'
  BY <1>2, DeferredAssumption DEF Recover, Goto, Exit, TypeOK, LockHeld, Flushing
<1>3. ASSUME NEW p \in Procs, Add(p) PROVE LockHeld'
  BY <1>3 DEF Add, Goto, Exit, LockHeld, Flushing
<1>4. ASSUME NEW p \in Procs, Remove(p) PROVE LockHeld'
  BY <1>4 DEF Remove, Goto, Exit, LockHeld, Flushing
<1>5. ASSUME NEW p \in Procs, Clear(p) PROVE LockHeld'
  BY <1>5 DEF Clear, Goto, Exit, LockHeld, Flushing
<1>6. ASSUME NEW p \in Procs, Connect(p) PROVE LockHeld'
  BY <1>6 DEF Connect, Goto, Exit, TypeOK, LockHeld, Flushing
<1>7. ASSUME NEW p \in Procs, Discovered(p) PROVE LockHeld'
  BY <1>7 DEF Discovered, Goto, LockHeld, Flushing
<1>8. ASSUME NEW p \in Procs, Lock(p) PROVE LockHeld'
  BY <1>8, DeferredAssumption DEF Lock, Goto, TypeOK, LockHeld, Flushing
<1>9. ASSUME NEW p \in Procs, Snapshot(p) PROVE LockHeld'
  BY <1>9 DEF Snapshot, Goto, LockHeld, Flushing
<1>10. ASSUME NEW p \in Procs, Skip(p) PROVE LockHeld'
  BY <1>10 DEF Skip, LockHeld
<1>11. ASSUME NEW p \in Procs, Begin(p) PROVE LockHeld'
  BY <1>11 DEF Begin, Goto, LockHeld, Flushing
<1>12. ASSUME NEW p \in Procs, Finish(p) PROVE LockHeld'
  BY <1>12, DeferredAssumption DEF Finish, Goto, Exit, TypeOK, LockHeld, Flushing
<1>13. ASSUME NEW p \in Procs, MarkSending(p) PROVE LockHeld'
  BY <1>13 DEF MarkSending, Goto, LockHeld, Flushing
<1>14. ASSUME NEW p \in Procs, Dispatch(p) PROVE LockHeld'
  BY <1>14 DEF Dispatch, Goto, LockHeld, Flushing
<1>15. ASSUME NEW p \in Procs, DispatchRaises(p) PROVE LockHeld'
  BY <1>15
     DEF DispatchRaises, NotReady, WrongPassphrase, Goto, TypeOK, LockHeld, Flushing
<1>16. ASSUME NEW p \in Procs, Unmark(p) PROVE LockHeld'
  BY <1>16 DEF Unmark, Done, Goto, LockHeld, Flushing
<1>17. ASSUME NEW p \in Procs, CountAttempt(p) PROVE LockHeld'
  BY <1>17 DEF CountAttempt, Goto, LockHeld, Flushing
<1>18. ASSUME NEW p \in Procs, LookBack(p) PROVE LockHeld'
  BY <1>18 DEF LookBack, Goto, LockHeld, Flushing
<1>19. ASSUME NEW p \in Procs, WriteBack(p) PROVE LockHeld'
  BY <1>19 DEF WriteBack, Done, Goto, LockHeld, Flushing
<1>20. ASSUME NEW p \in Procs, WaitOver(p) PROVE LockHeld'
  BY <1>20 DEF WaitOver, Goto, LockHeld, Flushing
<1>21. ASSUME NEW p \in Procs, Accept(p) PROVE LockHeld'
  BY <1>21 DEF Accept, Done, Goto, LockHeld, Flushing
<1>22. ASSUME NEW p \in Procs, Check(p) PROVE LockHeld'
  BY <1>22 DEF Check, Done, Goto, TypeOK, LockHeld, Flushing
<1>23. ASSUME NEW p \in Procs, Reopen(p) PROVE LockHeld'
  BY <1>23 DEF Reopen, Done, Goto, LockHeld, Flushing
<1>24. ASSUME NEW p \in Procs, NEW c \in Commands, Start(p, c) PROVE LockHeld'
  BY <1>24 DEF Start, Goto, LockHeld, Flushing
<1>25. ASSUME NEW p \in Procs, Crash(p) PROVE LockHeld'
  BY <1>25, DeferredAssumption DEF Crash, Exit, Goto, TypeOK, LockHeld, Flushing
<1>26. ASSUME NEW p \in Procs, GiveUp(p) PROVE LockHeld'
  BY <1>26 DEF GiveUp, Exit, Goto, LockHeld, Flushing
<1>27. ASSUME NEW p \in Procs, Beacon(p) PROVE LockHeld'
  BY <1>27 DEF Beacon, CanFlush, Goto, LockHeld, Flushing
<1>28. ASSUME NEW p \in Procs, Stale(p) PROVE LockHeld'
  BY <1>28 DEF Stale, LockHeld
<1>29. ASSUME NEW n \in requests, Refuse(n) PROVE LockHeld'
  BY <1>29 DEF Refuse, Answer, LockHeld
<1>30. ASSUME NEW n \in requests, Pay(n) PROVE LockHeld'
  BY <1>30 DEF Pay, Answer, LockHeld
<1>31. ASSUME NEW r \in replies, Hear(r) PROVE LockHeld'
  BY <1>31 DEF Hear, LockHeld
<1>32. CASE UNCHANGED vars
  BY <1>32 DEF vars, LockHeld
<1>33. QED
  BY <1>1, <1>2, <1>3, <1>4, <1>5, <1>6, <1>7, <1>8, <1>9, <1>10, <1>11, <1>12, <1>13,
     <1>14, <1>15, <1>16, <1>17, <1>18, <1>19, <1>20, <1>21, <1>22, <1>23, <1>24,
     <1>25, <1>26, <1>27, <1>28, <1>29, <1>30, <1>31, <1>32
     DEF Next, Step

-----------------------------------------------------------------------------
(* SENT means paid.                                                        *)

SentIn(f) == {i \in Ids : f[i].status = "sent"}

(* The intents of the requests the gateway has paid for.                   *)
PaidIntents == {log[n].intent : n \in paid}

(* No operation of the store makes an intent SENT, but update_status.      *)
LEMMA StoreSent ==
    ASSUME NEW f \in Files, NEW i \in Ids \cup {0}, NEW s, NEW statuses \in SUBSET Status
    PROVE  /\ SentIn(SetStatus(f, i, s)) \subseteq SentIn(f) \cup (IF s = "sent" THEN {i} ELSE {})
           /\ SentIn(IncrementAttempts(f, i)) \subseteq SentIn(f)
           /\ SentIn(RecoverSending(f)) \subseteq SentIn(f)
           /\ SentIn(WithNew(f, i)) \subseteq SentIn(f)
           /\ SentIn(Without(f, i)) \subseteq SentIn(f)
           /\ SentIn(Cleared(f, statuses)) \subseteq SentIn(f)
<1> USE DEF Files, Entries, SentIn
<1>1. SentIn(SetStatus(f, i, s)) \subseteq SentIn(f) \cup (IF s = "sent" THEN {i} ELSE {})
  BY DEF SetStatus
<1>2. SentIn(IncrementAttempts(f, i)) \subseteq SentIn(f)
  <2>1. ASSUME NEW j \in Ids, j # i PROVE IncrementAttempts(f, i)[j] = f[j]
    BY <2>1 DEF IncrementAttempts
  <2>2. ASSUME i \in Ids PROVE IncrementAttempts(f, i)[i].status \in {"failed", f[i].status}
    BY <2>2 DEF IncrementAttempts
  <2>3. ASSUME NEW j \in Ids, IncrementAttempts(f, i)[j].status = "sent"
        PROVE  f[j].status = "sent"
    BY <2>1, <2>2, <2>3
  <2>4. QED
    BY <2>3
<1>3. SentIn(RecoverSending(f)) \subseteq SentIn(f)
  BY DEF RecoverSending
<1>4. SentIn(WithNew(f, i)) \subseteq SentIn(f)
  BY DEF WithNew
<1>5. SentIn(Without(f, i)) \subseteq SentIn(f)
  BY DEF Without, Absent
<1>6. SentIn(Cleared(f, statuses)) \subseteq SentIn(f)
  BY DEF Cleared, Absent
<1>7. QED
  BY <1>1, <1>2, <1>3, <1>4, <1>5, <1>6

(* Nothing is SENT in an empty store.                                      *)
LEMMA EmptySent == SentIn(EmptyFile) = {}
BY DEF SentIn, EmptyFile, Absent

(* Every copy of the file, on disk or loaded, has only paid intents SENT.  *)
CopiesHonest ==
    /\ SentIn(queue) \subseteq PaidIntents
    /\ \A p \in Procs : SentIn(buf[p]) \subseteq PaidIntents

(* A process waits for its last request, which was for the intent it is at. *)
WaitsForOwn ==
    \A p \in Procs : msg[p] # 0 =>
        /\ pc[p] \in {"count", "wait"}
        /\ msg[p] \in 1..Len(log)
        /\ log[msg[p]].intent = cur[p]

(* Success is reported, heard, accepted and read back only of what is paid. *)
SuccessIsPaid ==
    /\ \A r \in replies : r.ok => r.msg \in paid
    /\ \A p \in Procs : answer[p] = "ok" => msg[p] \in paid
    /\ \A p \in Procs : pc[p] = "accept" => cur[p] \in PaidIntents
    /\ \A p \in Procs : seen[p] # "none" => pc[p] = "xmark"
    /\ \A p \in Procs : seen[p] = "sent" => cur[p] \in PaidIntents

(* The log only grows and a payment is never undone.                       *)
LEMMA PaidGrows ==
    ASSUME TypeOK, [Next]_vars
    PROVE  PaidIntents \subseteq PaidIntents'
<1>1. ASSUME NEW p \in Procs, Dispatch(p) PROVE PaidIntents \subseteq PaidIntents'
  <2>1. \A n \in 1..Len(log) : log'[n] = log[n]
    BY <1>1 DEF Dispatch, TypeOK
  <2>2. QED
    BY <1>1, <2>1 DEF Dispatch, TypeOK, PaidIntents
<1>2. ASSUME NEW n \in requests, Pay(n) PROVE PaidIntents \subseteq PaidIntents'
  BY <1>2 DEF Pay, Answer, PaidIntents
<1>3. ASSUME UNCHANGED <<log, paid>> PROVE PaidIntents \subseteq PaidIntents'
  BY <1>3 DEF PaidIntents
<1>4. ASSUME NEW p \in Procs, Load(p) PROVE UNCHANGED <<log, paid>>
  BY <1>4 DEF Load, net
<1>5. ASSUME NEW p \in Procs, Recover(p) PROVE UNCHANGED <<log, paid>>
  BY <1>5 DEF Recover, net
<1>6. ASSUME NEW p \in Procs, Add(p) PROVE UNCHANGED <<log, paid>>
  BY <1>6 DEF Add, net
<1>7. ASSUME NEW p \in Procs, Remove(p) PROVE UNCHANGED <<log, paid>>
  BY <1>7 DEF Remove, net
<1>8. ASSUME NEW p \in Procs, Clear(p) PROVE UNCHANGED <<log, paid>>
  BY <1>8 DEF Clear, net
<1>9. ASSUME NEW p \in Procs, Connect(p) PROVE UNCHANGED <<log, paid>>
  BY <1>9 DEF Connect, net
<1>10. ASSUME NEW p \in Procs, Discovered(p) PROVE UNCHANGED <<log, paid>>
  BY <1>10 DEF Discovered, net
<1>11. ASSUME NEW p \in Procs, Lock(p) PROVE UNCHANGED <<log, paid>>
  BY <1>11 DEF Lock, net
<1>12. ASSUME NEW p \in Procs, Snapshot(p) PROVE UNCHANGED <<log, paid>>
  BY <1>12 DEF Snapshot, net
<1>13. ASSUME NEW p \in Procs, Skip(p) PROVE UNCHANGED <<log, paid>>
  BY <1>13 DEF Skip, net
<1>14. ASSUME NEW p \in Procs, Begin(p) PROVE UNCHANGED <<log, paid>>
  BY <1>14 DEF Begin, net
<1>15. ASSUME NEW p \in Procs, Finish(p) PROVE UNCHANGED <<log, paid>>
  BY <1>15 DEF Finish, net
<1>16. ASSUME NEW p \in Procs, MarkSending(p) PROVE UNCHANGED <<log, paid>>
  BY <1>16 DEF MarkSending, net
<1>17. ASSUME NEW p \in Procs, DispatchRaises(p) PROVE UNCHANGED <<log, paid>>
  BY <1>17 DEF DispatchRaises, net
<1>18. ASSUME NEW p \in Procs, Unmark(p) PROVE UNCHANGED <<log, paid>>
  BY <1>18 DEF Unmark, net
<1>19. ASSUME NEW p \in Procs, CountAttempt(p) PROVE UNCHANGED <<log, paid>>
  BY <1>19 DEF CountAttempt, net
<1>20. ASSUME NEW p \in Procs, LookBack(p) PROVE UNCHANGED <<log, paid>>
  BY <1>20 DEF LookBack, net
<1>21. ASSUME NEW p \in Procs, WriteBack(p) PROVE UNCHANGED <<log, paid>>
  BY <1>21 DEF WriteBack, net
<1>22. ASSUME NEW p \in Procs, WaitOver(p) PROVE UNCHANGED <<log, paid>>
  BY <1>22 DEF WaitOver, net
<1>23. ASSUME NEW p \in Procs, Accept(p) PROVE UNCHANGED <<log, paid>>
  BY <1>23 DEF Accept, net
<1>24. ASSUME NEW p \in Procs, Check(p) PROVE UNCHANGED <<log, paid>>
  BY <1>24 DEF Check, net
<1>25. ASSUME NEW p \in Procs, Reopen(p) PROVE UNCHANGED <<log, paid>>
  BY <1>25 DEF Reopen, net
<1>26. ASSUME NEW p \in Procs, NEW c \in Commands, Start(p, c) PROVE UNCHANGED <<log, paid>>
  BY <1>26 DEF Start, net
<1>27. ASSUME NEW p \in Procs, Crash(p) PROVE UNCHANGED <<log, paid>>
  BY <1>27 DEF Crash, net
<1>28. ASSUME NEW p \in Procs, GiveUp(p) PROVE UNCHANGED <<log, paid>>
  BY <1>28 DEF GiveUp, net
<1>29. ASSUME NEW p \in Procs, Beacon(p) PROVE UNCHANGED <<log, paid>>
  BY <1>29 DEF Beacon, net
<1>30. ASSUME NEW p \in Procs, Stale(p) PROVE UNCHANGED <<log, paid>>
  BY <1>30 DEF Stale, net
<1>31. ASSUME NEW n \in requests, Refuse(n) PROVE UNCHANGED <<log, paid>>
  BY <1>31 DEF Refuse, Answer
<1>32. ASSUME NEW r \in replies, Hear(r) PROVE UNCHANGED <<log, paid>>
  BY <1>32 DEF Hear
<1>33. ASSUME UNCHANGED vars PROVE UNCHANGED <<log, paid>>
  BY <1>33 DEF vars, net
<1>34. QED
  BY <1>1, <1>2, <1>3, <1>4, <1>5, <1>6, <1>7, <1>8, <1>9, <1>10, <1>11, <1>12, <1>13,
     <1>14, <1>15, <1>16, <1>17, <1>18, <1>19, <1>20, <1>21, <1>22, <1>23, <1>24,
     <1>25, <1>26, <1>27, <1>28, <1>29, <1>30, <1>31, <1>32, <1>33
     DEF Next, Step

(* Saving keeps the copies honest when what is saved is.                   *)
LEMMA SaveHonest ==
    ASSUME TypeOK, CopiesHonest, NEW p \in Procs, NEW changed, NEW contents,
           Save(p, changed, contents), SentIn(contents) \subseteq PaidIntents,
           PaidIntents \subseteq PaidIntents'
    PROVE  CopiesHonest'
<1>1. SentIn(queue') \subseteq PaidIntents
  BY DEF Save, CopiesHonest
<1>2. ASSUME NEW q \in Procs PROVE SentIn(buf'[q]) \subseteq PaidIntents
  BY EmptySent DEF Save, CopiesHonest
<1>3. QED
  BY <1>1, <1>2 DEF CopiesHonest

(* update_status keeps copies honest if it writes SENT of what is paid.    *)
LEMMA SaveStatusHonest ==
    ASSUME TypeOK, CopiesHonest, NEW p \in Procs, NEW s, SaveStatus(p, s),
           s = "sent" => cur[p] \in PaidIntents,
           PaidIntents \subseteq PaidIntents'
    PROVE  CopiesHonest'
<1>1. SentIn(SetStatus(buf[p], cur[p], s))
         \subseteq SentIn(buf[p]) \cup (IF s = "sent" THEN {cur[p]} ELSE {})
  <2>1. buf[p] \in Files /\ cur[p] \in Ids \cup {0} /\ {} \in SUBSET Status
    BY DEF TypeOK
  <2>2. QED
    BY <2>1, StoreSent
<1>2. SentIn(buf[p]) \subseteq PaidIntents
  BY DEF CopiesHonest
<1>3. SentIn(SetStatus(buf[p], cur[p], s)) \subseteq PaidIntents
  BY <1>1, <1>2
<1>4. QED
  BY <1>3, SaveHonest DEF SaveStatus

(* No action makes an unpaid intent SENT in any copy.                      *)
LEMMA HonestStep ==
    ASSUME TypeOK, CopiesHonest, SuccessIsPaid, [Next]_vars
    PROVE  CopiesHonest'
<1>1. ASSUME NEW p \in Procs, Load(p) PROVE CopiesHonest'
  BY <1>1, PaidGrows DEF Load, CopiesHonest, disk
<1>2. ASSUME NEW p \in Procs, Recover(p) PROVE CopiesHonest'
  <2>1. SentIn(RecoverSending(buf[p])) \subseteq PaidIntents
    BY StoreSent DEF TypeOK, CopiesHonest
  <2>2. QED
    BY <1>2, <2>1, PaidGrows, SaveHonest DEF Recover
<1>3. ASSUME NEW p \in Procs, Add(p) PROVE CopiesHonest'
  <2>1. CASE Save(p, FALSE, EmptyFile)
    BY <2>1, EmptySent, PaidGrows, SaveHonest
  <2>2. CASE Len(asked) < MaxIntents /\ Save(p, TRUE, WithNew(buf[p], Len(asked) + 1))
    <3>1. Len(asked) + 1 \in Ids
      BY <2>2, IntentStoreAssumption DEF Ids
    <3>2. buf[p] \in Files /\ {} \in SUBSET Status
      BY DEF TypeOK
    <3>3. SentIn(WithNew(buf[p], Len(asked) + 1)) \subseteq SentIn(buf[p])
      BY <3>1, <3>2, StoreSent
    <3>4. SentIn(WithNew(buf[p], Len(asked) + 1)) \subseteq PaidIntents
      BY <3>3 DEF CopiesHonest
    <3>5. QED
      BY <2>2, <3>4, PaidGrows, SaveHonest
  <2>3. QED
    BY <1>3, <2>1, <2>2 DEF Add
<1>4. ASSUME NEW p \in Procs, Remove(p) PROVE CopiesHonest'
  <2>1. PICK i \in Ids : Save(p, Present(buf[p], i), Without(buf[p], i))
    BY <1>4 DEF Remove
  <2>2. SentIn(Without(buf[p], i)) \subseteq PaidIntents
    BY StoreSent DEF TypeOK, CopiesHonest
  <2>3. QED
    BY <2>1, <2>2, PaidGrows, SaveHonest
<1>5. ASSUME NEW p \in Procs, Clear(p) PROVE CopiesHonest'
  <2>1. PICK statuses \in SUBSET Status : Save(p, TRUE, Cleared(buf[p], statuses))
    BY <1>5 DEF Clear
  <2>2. SentIn(Cleared(buf[p], statuses)) \subseteq PaidIntents
    BY StoreSent DEF TypeOK, CopiesHonest
  <2>3. QED
    BY <2>1, <2>2, PaidGrows, SaveHonest
<1>6. ASSUME NEW p \in Procs, Connect(p) PROVE CopiesHonest'
  BY <1>6, PaidGrows DEF Connect, CopiesHonest, disk, file
<1>7. ASSUME NEW p \in Procs, Discovered(p) PROVE CopiesHonest'
  BY <1>7, PaidGrows DEF Discovered, CopiesHonest, disk, file
<1>8. ASSUME NEW p \in Procs, Lock(p) PROVE CopiesHonest'
  BY <1>8, PaidGrows DEF Lock, CopiesHonest, disk, file
<1>9. ASSUME NEW p \in Procs, Snapshot(p) PROVE CopiesHonest'
  BY <1>9, PaidGrows DEF Snapshot, CopiesHonest, disk, file
<1>10. ASSUME NEW p \in Procs, Skip(p) PROVE CopiesHonest'
  BY <1>10, PaidGrows DEF Skip, CopiesHonest, disk, file
<1>11. ASSUME NEW p \in Procs, Begin(p) PROVE CopiesHonest'
  BY <1>11, PaidGrows DEF Begin, CopiesHonest, disk, file
<1>12. ASSUME NEW p \in Procs, Finish(p) PROVE CopiesHonest'
  BY <1>12, PaidGrows DEF Finish, CopiesHonest, disk, file
<1>13. ASSUME NEW p \in Procs, MarkSending(p) PROVE CopiesHonest'
  BY <1>13, PaidGrows, SaveStatusHonest DEF MarkSending
<1>14. ASSUME NEW p \in Procs, Dispatch(p) PROVE CopiesHonest'
  BY <1>14, PaidGrows DEF Dispatch, CopiesHonest, disk, file
<1>15. ASSUME NEW p \in Procs, DispatchRaises(p) PROVE CopiesHonest'
  BY <1>15, PaidGrows DEF DispatchRaises, CopiesHonest, disk, file
<1>16. ASSUME NEW p \in Procs, Unmark(p) PROVE CopiesHonest'
  BY <1>16, PaidGrows, SaveStatusHonest DEF Unmark
<1>17. ASSUME NEW p \in Procs, CountAttempt(p) PROVE CopiesHonest'
  <2>1. SentIn(IncrementAttempts(buf[p], cur[p])) \subseteq PaidIntents
    BY StoreSent DEF TypeOK, CopiesHonest
  <2>2. QED
    BY <1>17, <2>1, PaidGrows, SaveHonest DEF CountAttempt
<1>18. ASSUME NEW p \in Procs, LookBack(p) PROVE CopiesHonest'
  BY <1>18, PaidGrows DEF LookBack, CopiesHonest, disk, file
<1>19. ASSUME NEW p \in Procs, WriteBack(p) PROVE CopiesHonest'
  BY <1>19, PaidGrows, SaveStatusHonest DEF WriteBack, SuccessIsPaid
<1>20. ASSUME NEW p \in Procs, WaitOver(p) PROVE CopiesHonest'
  BY <1>20, PaidGrows DEF WaitOver, CopiesHonest, disk, file
<1>21. ASSUME NEW p \in Procs, Accept(p) PROVE CopiesHonest'
  BY <1>21, PaidGrows, SaveStatusHonest DEF Accept, SuccessIsPaid
<1>22. ASSUME NEW p \in Procs, Check(p) PROVE CopiesHonest'
  BY <1>22, PaidGrows DEF Check, CopiesHonest, disk, file
<1>23. ASSUME NEW p \in Procs, Reopen(p) PROVE CopiesHonest'
  BY <1>23, PaidGrows, SaveStatusHonest DEF Reopen
<1>24. ASSUME NEW p \in Procs, NEW c \in Commands, Start(p, c) PROVE CopiesHonest'
  BY <1>24, PaidGrows DEF Start, CopiesHonest, disk, file
<1>25. ASSUME NEW p \in Procs, Crash(p) PROVE CopiesHonest'
  BY <1>25, PaidGrows, EmptySent DEF Crash, CopiesHonest, disk
<1>26. ASSUME NEW p \in Procs, GiveUp(p) PROVE CopiesHonest'
  BY <1>26, PaidGrows DEF GiveUp, CopiesHonest, disk, file
<1>27. ASSUME NEW p \in Procs, Beacon(p) PROVE CopiesHonest'
  BY <1>27, PaidGrows DEF Beacon, CopiesHonest, disk, file
<1>28. ASSUME NEW p \in Procs, Stale(p) PROVE CopiesHonest'
  BY <1>28, PaidGrows DEF Stale, CopiesHonest, disk, file
<1>29. ASSUME NEW n \in requests, Refuse(n) PROVE CopiesHonest'
  BY <1>29, PaidGrows DEF Refuse, Answer, CopiesHonest, disk, file
<1>30. ASSUME NEW n \in requests, Pay(n) PROVE CopiesHonest'
  BY <1>30, PaidGrows DEF Pay, Answer, CopiesHonest, disk, file
<1>31. ASSUME NEW r \in replies, Hear(r) PROVE CopiesHonest'
  BY <1>31, PaidGrows DEF Hear, CopiesHonest, disk, file
<1>32. CASE UNCHANGED vars
  BY <1>32, PaidGrows DEF vars, CopiesHonest, disk, file
<1>33. QED
  BY <1>1, <1>2, <1>3, <1>4, <1>5, <1>6, <1>7, <1>8, <1>9, <1>10, <1>11, <1>12, <1>13,
     <1>14, <1>15, <1>16, <1>17, <1>18, <1>19, <1>20, <1>21, <1>22, <1>23, <1>24,
     <1>25, <1>26, <1>27, <1>28, <1>29, <1>30, <1>31, <1>32
     DEF Next, Step

(* No action leaves a process waiting for another request's answer.        *)
LEMMA WaitsForOwnStep ==
    ASSUME TypeOK, WaitsForOwn, [Next]_vars
    PROVE  WaitsForOwn'
<1>1. ASSUME NEW p \in Procs, Load(p) PROVE WaitsForOwn'
  BY <1>1 DEF Load, WaitsForOwn, flush, waiting, net
<1>2. ASSUME NEW p \in Procs, Recover(p) PROVE WaitsForOwn'
  BY <1>2 DEF Recover, Goto, Exit, TypeOK, WaitsForOwn, flush, waiting, net
<1>3. ASSUME NEW p \in Procs, Add(p) PROVE WaitsForOwn'
  BY <1>3 DEF Add, Goto, Exit, WaitsForOwn, flush, waiting, net
<1>4. ASSUME NEW p \in Procs, Remove(p) PROVE WaitsForOwn'
  BY <1>4 DEF Remove, Goto, Exit, WaitsForOwn, flush, waiting, net
<1>5. ASSUME NEW p \in Procs, Clear(p) PROVE WaitsForOwn'
  BY <1>5 DEF Clear, Goto, Exit, WaitsForOwn, flush, waiting, net
<1>6. ASSUME NEW p \in Procs, Connect(p) PROVE WaitsForOwn'
  BY <1>6 DEF Connect, Goto, Exit, TypeOK, WaitsForOwn, flush, waiting, net
<1>7. ASSUME NEW p \in Procs, Discovered(p) PROVE WaitsForOwn'
  BY <1>7 DEF Discovered, Goto, WaitsForOwn, flush, waiting, net
<1>8. ASSUME NEW p \in Procs, Lock(p) PROVE WaitsForOwn'
  BY <1>8 DEF Lock, Goto, WaitsForOwn, flush, waiting, net
<1>9. ASSUME NEW p \in Procs, Snapshot(p) PROVE WaitsForOwn'
  BY <1>9 DEF Snapshot, Goto, WaitsForOwn, waiting, net
<1>10. ASSUME NEW p \in Procs, Skip(p) PROVE WaitsForOwn'
  BY <1>10 DEF Skip, WaitsForOwn, waiting, net
<1>11. ASSUME NEW p \in Procs, Begin(p) PROVE WaitsForOwn'
  BY <1>11 DEF Begin, Goto, WaitsForOwn, waiting, net
<1>12. ASSUME NEW p \in Procs, Finish(p) PROVE WaitsForOwn'
  BY <1>12 DEF Finish, Goto, Exit, TypeOK, WaitsForOwn, waiting, net
<1>13. ASSUME NEW p \in Procs, MarkSending(p) PROVE WaitsForOwn'
  BY <1>13 DEF MarkSending, Goto, WaitsForOwn, flush, waiting, net
<1>14. ASSUME NEW p \in Procs, Dispatch(p) PROVE WaitsForOwn'
  <2>1. Len(log') = Len(log) + 1 /\ log'[Len(log) + 1] = NewRequest(p)
    BY <1>14 DEF Dispatch, TypeOK
  <2>2. \A n \in 1..Len(log) : log'[n] = log[n]
    BY <1>14 DEF Dispatch, TypeOK
  <2>3. Len(log) + 1 \in 1..Len(log') /\ 1..Len(log) \subseteq 1..Len(log')
    BY <2>1 DEF TypeOK
  <2>4. QED
    BY <1>14, <2>1, <2>2, <2>3
       DEF Dispatch, NewRequest, Goto, TypeOK, WaitsForOwn, flush
<1>15. ASSUME NEW p \in Procs, DispatchRaises(p) PROVE WaitsForOwn'
  BY <1>15
     DEF DispatchRaises, NotReady, WrongPassphrase, Goto, TypeOK, WaitsForOwn, flush,
         waiting, net
<1>16. ASSUME NEW p \in Procs, Unmark(p) PROVE WaitsForOwn'
  BY <1>16 DEF Unmark, Done, Goto, WaitsForOwn, waiting, net
<1>17. ASSUME NEW p \in Procs, CountAttempt(p) PROVE WaitsForOwn'
  BY <1>17 DEF CountAttempt, Goto, WaitsForOwn, flush, waiting, net
<1>18. ASSUME NEW p \in Procs, LookBack(p) PROVE WaitsForOwn'
  BY <1>18 DEF LookBack, Goto, WaitsForOwn, waiting, net
<1>19. ASSUME NEW p \in Procs, WriteBack(p) PROVE WaitsForOwn'
  BY <1>19 DEF WriteBack, Done, Goto, WaitsForOwn, waiting, net
<1>20. ASSUME NEW p \in Procs, WaitOver(p) PROVE WaitsForOwn'
  BY <1>20 DEF WaitOver, StopWaiting, Goto, TypeOK, WaitsForOwn, flush, net
<1>21. ASSUME NEW p \in Procs, Accept(p) PROVE WaitsForOwn'
  BY <1>21 DEF Accept, Done, Goto, WaitsForOwn, waiting, net
<1>22. ASSUME NEW p \in Procs, Check(p) PROVE WaitsForOwn'
  BY <1>22 DEF Check, Done, Goto, TypeOK, WaitsForOwn, waiting, net
<1>23. ASSUME NEW p \in Procs, Reopen(p) PROVE WaitsForOwn'
  BY <1>23 DEF Reopen, Done, Goto, WaitsForOwn, waiting, net
<1>24. ASSUME NEW p \in Procs, NEW c \in Commands, Start(p, c) PROVE WaitsForOwn'
  BY <1>24 DEF Start, Goto, WaitsForOwn, flush, waiting, net
<1>25. ASSUME NEW p \in Procs, Crash(p) PROVE WaitsForOwn'
  BY <1>25 DEF Crash, Exit, Goto, TypeOK, WaitsForOwn, net
<1>26. ASSUME NEW p \in Procs, GiveUp(p) PROVE WaitsForOwn'
  BY <1>26 DEF GiveUp, Exit, Goto, WaitsForOwn, flush, waiting, net
<1>27. ASSUME NEW p \in Procs, Beacon(p) PROVE WaitsForOwn'
  BY <1>27 DEF Beacon, CanFlush, Goto, WaitsForOwn, flush, waiting, net
<1>28. ASSUME NEW p \in Procs, Stale(p) PROVE WaitsForOwn'
  BY <1>28 DEF Stale, WaitsForOwn, flush, waiting, net
<1>29. ASSUME NEW n \in requests, Refuse(n) PROVE WaitsForOwn'
  BY <1>29 DEF Refuse, Answer, WaitsForOwn, flush, waiting
<1>30. ASSUME NEW n \in requests, Pay(n) PROVE WaitsForOwn'
  BY <1>30 DEF Pay, Answer, WaitsForOwn, flush, waiting
<1>31. ASSUME NEW r \in replies, Hear(r) PROVE WaitsForOwn'
  BY <1>31 DEF Hear, WaitsForOwn, flush
<1>32. CASE UNCHANGED vars
  BY <1>32 DEF vars, WaitsForOwn, flush, waiting, net
<1>33. QED
  BY <1>1, <1>2, <1>3, <1>4, <1>5, <1>6, <1>7, <1>8, <1>9, <1>10, <1>11, <1>12, <1>13,
     <1>14, <1>15, <1>16, <1>17, <1>18, <1>19, <1>20, <1>21, <1>22, <1>23, <1>24,
     <1>25, <1>26, <1>27, <1>28, <1>29, <1>30, <1>31, <1>32
     DEF Next, Step

(* No action turns a failure or another intent's success into a success.   *)
LEMMA SuccessStep ==
    ASSUME TypeOK, AtWork, CopiesHonest, WaitsForOwn, SuccessIsPaid, [Next]_vars
    PROVE  SuccessIsPaid'
<1>1. ASSUME NEW p \in Procs, Load(p) PROVE SuccessIsPaid'
  BY <1>1, PaidGrows DEF Load, SuccessIsPaid, flush, waiting, net
<1>2. ASSUME NEW p \in Procs, Recover(p) PROVE SuccessIsPaid'
  BY <1>2, PaidGrows, DeferredAssumption
     DEF Recover, Goto, Exit, TypeOK, SuccessIsPaid, flush, waiting, net
<1>3. ASSUME NEW p \in Procs, Add(p) PROVE SuccessIsPaid'
  BY <1>3, PaidGrows DEF Add, Goto, Exit, SuccessIsPaid, flush, waiting, net
<1>4. ASSUME NEW p \in Procs, Remove(p) PROVE SuccessIsPaid'
  BY <1>4, PaidGrows DEF Remove, Goto, Exit, SuccessIsPaid, flush, waiting, net
<1>5. ASSUME NEW p \in Procs, Clear(p) PROVE SuccessIsPaid'
  BY <1>5, PaidGrows DEF Clear, Goto, Exit, SuccessIsPaid, flush, waiting, net
<1>6. ASSUME NEW p \in Procs, Connect(p) PROVE SuccessIsPaid'
  BY <1>6, PaidGrows DEF Connect, Goto, Exit, TypeOK, SuccessIsPaid, flush, waiting, net
<1>7. ASSUME NEW p \in Procs, Discovered(p) PROVE SuccessIsPaid'
  BY <1>7, PaidGrows DEF Discovered, Goto, SuccessIsPaid, flush, waiting, net
<1>8. ASSUME NEW p \in Procs, Lock(p) PROVE SuccessIsPaid'
  BY <1>8, PaidGrows DEF Lock, Goto, SuccessIsPaid, flush, waiting, net
<1>9. ASSUME NEW p \in Procs, Snapshot(p) PROVE SuccessIsPaid'
  BY <1>9, PaidGrows DEF Snapshot, Goto, SuccessIsPaid, waiting, net
<1>10. ASSUME NEW p \in Procs, Skip(p) PROVE SuccessIsPaid'
  BY <1>10, PaidGrows DEF Skip, SuccessIsPaid, waiting, net
<1>11. ASSUME NEW p \in Procs, Begin(p) PROVE SuccessIsPaid'
  BY <1>11, PaidGrows DEF Begin, Goto, SuccessIsPaid, waiting, net
<1>12. ASSUME NEW p \in Procs, Finish(p) PROVE SuccessIsPaid'
  BY <1>12, PaidGrows DEF Finish, Goto, Exit, TypeOK, SuccessIsPaid, waiting, net
<1>13. ASSUME NEW p \in Procs, MarkSending(p) PROVE SuccessIsPaid'
  BY <1>13, PaidGrows DEF MarkSending, Goto, SuccessIsPaid, flush, waiting, net
<1>14. ASSUME NEW p \in Procs, Dispatch(p) PROVE SuccessIsPaid'
  <2>1. 0 \notin paid
    BY DEF TypeOK
  <2>2. answer[p] # "ok"
    BY <1>14, <2>1 DEF Dispatch, WaitsForOwn, SuccessIsPaid
  <2>3. QED
    BY <1>14, <2>2, PaidGrows DEF Dispatch, Goto, SuccessIsPaid, flush
<1>15. ASSUME NEW p \in Procs, DispatchRaises(p) PROVE SuccessIsPaid'
  BY <1>15, PaidGrows
     DEF DispatchRaises, NotReady, WrongPassphrase, Goto, TypeOK, SuccessIsPaid,
         flush, waiting, net
<1>16. ASSUME NEW p \in Procs, Unmark(p) PROVE SuccessIsPaid'
  BY <1>16, PaidGrows DEF Unmark, Done, Goto, SuccessIsPaid, waiting, net
<1>17. ASSUME NEW p \in Procs, CountAttempt(p) PROVE SuccessIsPaid'
  BY <1>17, PaidGrows DEF CountAttempt, Goto, SuccessIsPaid, flush, waiting, net
<1>18. ASSUME NEW p \in Procs, LookBack(p) PROVE SuccessIsPaid'
  <2>1. cur[p] \in Ids
    BY <1>18 DEF LookBack, AtWork, Working, Flushing
  <2>2. seen'[p] = "sent" => cur[p] \in PaidIntents
    BY <1>18, <2>1 DEF LookBack, TypeOK, CopiesHonest, SentIn
  <2>3. QED
    BY <1>18, <2>2, PaidGrows DEF LookBack, Goto, TypeOK, SuccessIsPaid, waiting, net
<1>19. ASSUME NEW p \in Procs, WriteBack(p) PROVE SuccessIsPaid'
  BY <1>19, PaidGrows DEF WriteBack, Done, Goto, TypeOK, SuccessIsPaid, waiting, net
<1>20. ASSUME NEW p \in Procs, WaitOver(p) PROVE SuccessIsPaid'
  <2>1. 0 \notin paid
    BY DEF TypeOK
  <2>2. answer[p] = "ok" => cur[p] \in PaidIntents
    BY <2>1 DEF WaitsForOwn, SuccessIsPaid, PaidIntents
  <2>3. QED
    BY <1>20, <2>2, PaidGrows
       DEF WaitOver, StopWaiting, Goto, TypeOK, SuccessIsPaid, flush, net
<1>21. ASSUME NEW p \in Procs, Accept(p) PROVE SuccessIsPaid'
  BY <1>21, PaidGrows DEF Accept, Done, Goto, TypeOK, SuccessIsPaid, waiting, net
<1>22. ASSUME NEW p \in Procs, Check(p) PROVE SuccessIsPaid'
  <2>1. PaidIntents' = PaidIntents
    BY <1>22 DEF Check, PaidIntents, net
  <2>2. ASSUME NEW q \in Procs
        PROVE  \/ pc'[q] = pc[q] /\ cur'[q] = cur[q]
               \/ q = p /\ pc'[q] \notin {"accept", "xmark"}
    BY <1>22 DEF Check, Done, Goto, TypeOK
  <2>3. seen' = seen /\ answer' = answer /\ msg' = msg /\ replies' = replies /\ paid' = paid
    BY <1>22 DEF Check, waiting, net
  <2>4. seen[p] = "none"
    BY <1>22 DEF Check, SuccessIsPaid
  <2>5. QED
    BY <2>1, <2>2, <2>3, <2>4 DEF SuccessIsPaid
<1>23. ASSUME NEW p \in Procs, Reopen(p) PROVE SuccessIsPaid'
  BY <1>23, PaidGrows DEF Reopen, Done, Goto, SuccessIsPaid, waiting, net
<1>24. ASSUME NEW p \in Procs, NEW c \in Commands, Start(p, c) PROVE SuccessIsPaid'
  BY <1>24, PaidGrows DEF Start, Goto, SuccessIsPaid, flush, waiting, net
<1>25. ASSUME NEW p \in Procs, Crash(p) PROVE SuccessIsPaid'
  BY <1>25, PaidGrows DEF Crash, Exit, Goto, TypeOK, SuccessIsPaid, net
<1>26. ASSUME NEW p \in Procs, GiveUp(p) PROVE SuccessIsPaid'
  BY <1>26, PaidGrows DEF GiveUp, Exit, Goto, SuccessIsPaid, flush, waiting, net
<1>27. ASSUME NEW p \in Procs, Beacon(p) PROVE SuccessIsPaid'
  BY <1>27, PaidGrows DEF Beacon, CanFlush, Goto, SuccessIsPaid, flush, waiting, net
<1>28. ASSUME NEW p \in Procs, Stale(p) PROVE SuccessIsPaid'
  BY <1>28, PaidGrows DEF Stale, SuccessIsPaid, flush, waiting, net
<1>29. ASSUME NEW n \in requests, Refuse(n) PROVE SuccessIsPaid'
  BY <1>29, PaidGrows DEF Refuse, Answer, SuccessIsPaid, flush, waiting
<1>30. ASSUME NEW n \in requests, Pay(n) PROVE SuccessIsPaid'
  BY <1>30, PaidGrows DEF Pay, Answer, SuccessIsPaid, flush, waiting
<1>31. ASSUME NEW r \in replies, Hear(r) PROVE SuccessIsPaid'
  BY <1>31, PaidGrows DEF Hear, SuccessIsPaid, flush
<1>32. CASE UNCHANGED vars
  BY <1>32, PaidGrows DEF vars, SuccessIsPaid, flush, waiting, net
<1>33. QED
  BY <1>1, <1>2, <1>3, <1>4, <1>5, <1>6, <1>7, <1>8, <1>9, <1>10, <1>11, <1>12, <1>13,
     <1>14, <1>15, <1>16, <1>17, <1>18, <1>19, <1>20, <1>21, <1>22, <1>23, <1>24,
     <1>25, <1>26, <1>27, <1>28, <1>29, <1>30, <1>31, <1>32
     DEF Next, Step

-----------------------------------------------------------------------------
(* The inductive invariant, and what follows from it.                      *)

Inv == TypeOK /\ AtWork /\ LockHeld /\ CopiesHonest /\ WaitsForOwn /\ SuccessIsPaid

(* The invariant holds before any process has started.                     *)
LEMMA InvInit == Init => Inv
<1> SUFFICES ASSUME Init PROVE Inv
  OBVIOUS
<1>1. TypeOK
  BY EmptyFileType, DeferredAssumption DEF Init, TypeOK, Labels
<1>2. AtWork /\ LockHeld
  BY DeferredAssumption DEF Init, AtWork, LockHeld, Working, Flushing
<1>3. CopiesHonest /\ WaitsForOwn /\ SuccessIsPaid
  BY EmptySent DEF Init, CopiesHonest, WaitsForOwn, SuccessIsPaid
<1>4. QED
  BY <1>1, <1>2, <1>3 DEF Inv

(* It is inductive.                                                        *)
LEMMA InvStep == Inv /\ [Next]_vars => Inv'
BY TypeStep, AtWorkStep, LockHeldStep, HonestStep, WaitsForOwnStep, SuccessStep DEF Inv

(* Hence it always holds.                                                  *)
LEMMA InvAlways == Spec => []Inv
BY InvInit, InvStep, PTL DEF Spec

(* Every variable of every process keeps its type, for any processes,      *)
(* payments, intents and bounds.                                           *)
THEOREM TypeCorrect == Spec => []TypeOK
<1>1. Inv => TypeOK
  BY DEF Inv
<1>2. QED
  BY <1>1, InvAlways, PTL

(* Two flushes never run at once (flush_lock), with any number of          *)
(* processes that crash anywhere.                                          *)
THEOREM MutualExclusion == Spec => []FlushExclusive
<1>1. Inv => FlushExclusive
  BY DEF Inv, LockHeld, FlushExclusive
<1>2. QED
  BY <1>1, InvAlways, PTL

(* SENT in the file means that the gateway has paid for that intent,       *)
(* however the processes that share the file interleave: their lost        *)
(* updates lose news, they never invent a payment.                         *)
THEOREM SentIsPaid == Spec => []SentMeansPaid
<1>1. Inv => SentMeansPaid
  BY DEF Inv, CopiesHonest, SentIn, PaidIntents, SentMeansPaid, PaidFor
<1>2. QED
  BY <1>1, InvAlways, PTL

=============================================================================
