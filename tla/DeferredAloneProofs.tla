-------------------------- MODULE DeferredAloneProofs --------------------------
(***************************************************************************)
(* Theorems about Deferred when the commands that use the queue file       *)
(* follow each other: at most one process runs at a time, which may crash  *)
(* anywhere and start again.  Then what a process has loaded is what the   *)
(* file says, and the file is the queue that was promised.  For any        *)
(* number of intents, payments, attempts, crashes and messages.            *)
(***************************************************************************)
EXTENDS DeferredProofs

Alone == \A p, q \in Procs : p = q

(* Nobody saves between a load and the save that follows it.               *)
CopyIsFile == \A p \in Procs : open[p] => buf[p] = queue

(* What the file says of the intent a flush is at.                         *)
StatusAt(p) ==
    LET entry == queue[cur[p]]
    IN  /\ pc[p] = "mark" => entry.status = "pending"
        /\ pc[p] \in {"send", "unmark", "count", "xcount", "reopen"} =>
               entry.status = "sending"
        /\ pc[p] \in {"wait", "accept", "check", "xlook", "xmark"} =>
               entry.status \in {"sending", "failed"}
        /\ pc[p] \in {"wait", "accept", "check"} => entry.attempts > 0
        /\ pc[p] = "xmark" => seen[p] = entry.status

(* The rest of the snapshot is still pending.                              *)
RestAt(p) ==
    /\ pc[p] \notin Working => cur[p] = 0
    /\ pc[p] \in Flushing \ {"snapshot"} =>
           todo[p] \subseteq PendingIn(queue) /\ cur[p] \notin todo[p]

AtIntent == \A p \in Procs : StatusAt(p) /\ RestAt(p)

(* A command that adds has recovered what was SENDING.                     *)
Recovered ==
    \A p \in Procs : pc[p] = "add" => \A i \in Ids : queue[i].status # "sending"

(* The intents of the file have been added, and only they are sent.        *)
Added ==
    \A i \in Ids : Present(queue, i) \/ sends[i] > 0 => i <= Len(asked)

(* A transmission is counted, is about to be, or a crash came between.     *)
Uncounted(i) == \E p \in Procs : pc[p] = "count" /\ cur[p] = i

SendsCounted ==
    \A i \in Ids :
        /\ Present(queue, i) =>
               sends[i] <= queue[i].attempts + crashes + (IF Uncounted(i) THEN 1 ELSE 0)
        /\ queue[i].attempts <= MaxAttempts
        /\ queue[i].status \in {"pending", "sending"} => queue[i].attempts < MaxAttempts

AloneInv ==
    /\ Inv /\ CopyIsFile /\ AtIntent /\ Recovered /\ Added /\ SendsCounted
    /\ SendsBounded /\ NoOpenTwins

-----------------------------------------------------------------------------
(* What a step makes of the file, for a process alone.                     *)
Recovers(p) == pc[p] = "recover" /\ queue' = RecoverSending(queue) /\ asked' = asked

Adds(p) ==
    /\ pc[p] = "add" /\ Len(asked) < MaxIntents
    /\ \E what \in Payments :
         ~IsDuplicate(queue, asked, what) /\ asked' = Append(asked, what)
    /\ queue' = WithNew(queue, Len(asked) + 1)

Drops(p, gone) ==
    /\ pc[p] \in {"remove", "clear"}
    /\ queue' = [i \in Ids |-> IF i \in gone THEN Absent ELSE queue[i]]
    /\ asked' = asked

(* update_status of the intent the flush is at.                            *)
Written(p, s) ==
    \/ pc[p] = "mark" /\ s = "sending"
    \/ pc[p] \in {"unmark", "reopen"} /\ s = "pending"
    \/ pc[p] = "accept" /\ s = "sent"
    \/ pc[p] = "xmark" /\ s = seen[p]

Sets(p, s) ==
    /\ Written(p, s)
    /\ queue' = SetStatus(queue, cur[p], s)
    /\ asked' = asked

Counts(p) ==
    /\ pc[p] \in {"count", "xcount"}
    /\ queue' = IncrementAttempts(queue, cur[p])
    /\ asked' = asked

Edit(p) ==
    \/ Recovers(p) \/ Adds(p) \/ Counts(p)
    \/ \E gone \in SUBSET Ids : Drops(p, gone)
    \/ \E s : Sets(p, s)

(* A flush finds its intent in the file and saves what it says it saves.   *)
LEMMA FlushMoves ==
    ASSUME AloneInv, NEW p \in Procs
    PROVE  /\ MarkSending(p) => Sets(p, "sending")
           /\ Unmark(p) \/ Reopen(p) => Sets(p, "pending")
           /\ Accept(p) => Sets(p, "sent")
           /\ WriteBack(p) => Sets(p, seen[p])
           /\ CountAttempt(p) => Counts(p)
<1>1. pc[p] \in {"mark", "unmark", "reopen", "accept", "xmark", "count", "xcount"} =>
        Present(queue, cur[p])
  BY DEF AloneInv, AtIntent, StatusAt, Present
<1>2. ASSUME NEW s, SaveStatus(p, s), Present(queue, cur[p])
      PROVE  queue' = SetStatus(queue, cur[p], s)
  BY <1>2 DEF AloneInv, SaveStatus, Save, CopyIsFile
<1>3. CountAttempt(p) => Counts(p)
  BY <1>1 DEF AloneInv, CountAttempt, Save, CopyIsFile, Counts
<1>4. QED
  BY <1>1, <1>2, <1>3 DEF MarkSending, Unmark, WriteBack, Accept, Reopen, Sets, Written

(* A process alone rewrites the file as it is.                             *)
LEMMA FileMoves ==
    ASSUME AloneInv, [Next]_vars
    PROVE  UNCHANGED disk \/ (UNCHANGED <<net, env>> /\ \E p \in Procs : Edit(p))
<1> USE DEF AloneInv
<1> DEFINE Moves(p) == UNCHANGED disk \/ (UNCHANGED <<net, env>> /\ Edit(p))
<1>1. ASSUME NEW p \in Procs, NEW changed, NEW contents, Save(p, changed, contents)
      PROVE  buf[p] = queue /\ (queue' = queue \/ queue' = contents)
  BY <1>1 DEF Save, CopyIsFile
<1>2. ASSUME NEW p \in Procs, Recover(p) PROVE Moves(p)
  BY <1>2, <1>1 DEF Recover, Edit, Recovers, disk
<1>3. ASSUME NEW p \in Procs, Add(p) PROVE Moves(p)
  <2>1. PICK what \in Payments :
          \/ Save(p, FALSE, EmptyFile) /\ UNCHANGED asked
          \/ /\ ~IsDuplicate(buf[p], asked, what)
             /\ Len(asked) < MaxIntents
             /\ asked' = Append(asked, what)
             /\ Save(p, TRUE, WithNew(buf[p], Len(asked) + 1))
    BY <1>3 DEF Add
  <2>2. CASE Save(p, FALSE, EmptyFile) /\ UNCHANGED asked
    BY <2>2 DEF Save, disk
  <2>3. CASE /\ ~IsDuplicate(buf[p], asked, what)
             /\ Len(asked) < MaxIntents
             /\ asked' = Append(asked, what)
             /\ Save(p, TRUE, WithNew(buf[p], Len(asked) + 1))
    BY <2>3, <1>3 DEF Add, Save, CopyIsFile, Edit, Adds
  <2>4. QED
    BY <2>1, <2>2, <2>3
<1>4. ASSUME NEW p \in Procs, Remove(p) PROVE Moves(p)
  <2>1. PICK i \in Ids : Save(p, Present(buf[p], i), Without(buf[p], i))
    BY <1>4 DEF Remove
  <2>2. queue' = queue \/ queue' = Without(queue, i)
    BY <2>1, <1>1
  <2>3. Without(queue, i) = [j \in Ids |-> IF j \in {i} THEN Absent ELSE queue[j]]
    BY DEF Without, Inv, TypeOK, Files
  <2>4. pc[p] = "remove" /\ asked' = asked /\ UNCHANGED <<net, env>>
    BY <1>4 DEF Remove
  <2>5. QED
    BY <2>2, <2>3, <2>4 DEF Edit, Drops, disk
<1>5. ASSUME NEW p \in Procs, Clear(p) PROVE Moves(p)
  <2>1. PICK statuses \in {{s} : s \in Status} \cup {Status} :
          Save(p, TRUE, Cleared(buf[p], statuses))
    BY <1>5 DEF Clear
  <2>2. queue' = queue \/ queue' = Cleared(queue, statuses)
    BY <2>1, <1>1
  <2>3. DEFINE gone == {j \in Ids : queue[j].status \in statuses}
  <2>4. Cleared(queue, statuses) = [j \in Ids |-> IF j \in gone THEN Absent ELSE queue[j]]
    BY DEF Cleared
  <2>5. pc[p] = "clear" /\ asked' = asked /\ UNCHANGED <<net, env>> /\ gone \in SUBSET Ids
    BY <1>5 DEF Clear
  <2>6. QED
    BY <2>2, <2>4, <2>5 DEF Edit, Drops, disk
<1>6. ASSUME NEW p \in Procs, MarkSending(p) \/ Unmark(p) \/ WriteBack(p) \/ Accept(p) \/ Reopen(p)
      PROVE  Moves(p)
  BY <1>6, FlushMoves DEF MarkSending, Unmark, WriteBack, Accept, Reopen, Edit
<1>7. ASSUME NEW p \in Procs, CountAttempt(p) PROVE Moves(p)
  BY <1>7, FlushMoves DEF CountAttempt, Edit
<1>8. QED
  BY <1>2, <1>3, <1>4, <1>5, <1>6, <1>7
     DEF Next, Step, Load, Connect, Discovered, Lock, Snapshot, Skip, Begin, Finish,
         Dispatch, DispatchRaises, LookBack, WaitOver, Check, Start, Crash, GiveUp,
         Beacon, Stale, Refuse, Pay, Answer, Hear, vars

(* What becomes of one entry of the file.                                  *)
Stays(i) == queue'[i] = queue[i]

Becomes(i, from, to) ==
    /\ queue[i].status \in from
    /\ queue'[i] = [queue[i] EXCEPT !.status = to]

IsNew(i) ==
    /\ i = Len(asked) + 1 /\ Len(asked') = i
    /\ queue'[i] = [status |-> "pending", attempts |-> 0]

IsTried(i) ==
    /\ queue[i].status = "sending"
    /\ queue'[i] = [status   |-> IF queue[i].attempts + 1 >= MaxAttempts
                                 THEN "failed" ELSE "sending",
                    attempts |-> queue[i].attempts + 1]

IsAccepted(i) == Becomes(i, {"sending", "failed"}, "sent") /\ queue[i].attempts > 0

(* It stays, is edited by the flush that is at it, is new, or goes.        *)
LEMMA EntryMoves ==
    ASSUME AloneInv, [Next]_vars, NEW i \in Ids
    PROVE  \/ Stays(i) \/ Becomes(i, {"sending"}, "pending")
           \/ Becomes(i, {"pending"}, "sending") \/ IsAccepted(i)
           \/ IsTried(i) \/ IsNew(i) \/ queue'[i] = Absent
<1> USE DEF AloneInv, Inv
<1>1. queue \in Files /\ i \in DOMAIN queue /\ queue[i] \in Entries
  BY DEF TypeOK, Files
<1>2. CASE UNCHANGED disk
  BY <1>2 DEF disk, Stays
<1>3. ASSUME NEW p \in Procs, Recovers(p)
      PROVE  Stays(i) \/ Becomes(i, {"sending"}, "pending")
  BY <1>3 DEF Recovers, RecoverSending, Stays, Becomes
<1>4. ASSUME NEW p \in Procs, Adds(p) PROVE Stays(i) \/ IsNew(i)
  <2>1. PICK what \in Payments : asked' = Append(asked, what)
    BY <1>4 DEF Adds
  <2>2. asked \in Seq(Payments)
    BY DEF TypeOK
  <2>3. Len(asked') = Len(asked) + 1
    BY <2>1, <2>2
  <2>4. QED
    BY <1>1, <1>4, <2>3 DEF Adds, WithNew, Stays, IsNew, Files
<1>5. ASSUME NEW p \in Procs, Counts(p) PROVE Stays(i) \/ IsTried(i)
  <2>1. cur[p] = i => queue[i].status = "sending"
    BY <1>5 DEF Counts, AtIntent, StatusAt
  <2>2. QED
    BY <1>1, <1>5, <2>1 DEF Counts, IncrementAttempts, Stays, IsTried, Files
<1>6. ASSUME NEW p \in Procs, NEW gone \in SUBSET Ids, Drops(p, gone)
      PROVE  Stays(i) \/ queue'[i] = Absent
  BY <1>6 DEF Drops, Stays
<1>7. ASSUME NEW p \in Procs, NEW s, Sets(p, s)
      PROVE  \/ Stays(i) \/ Becomes(i, {"sending"}, "pending")
             \/ Becomes(i, {"pending"}, "sending") \/ IsAccepted(i)
  <2>1. CASE cur[p] # i
    BY <1>1, <1>7, <2>1 DEF Sets, SetStatus, Stays, Files
  <2>2. CASE cur[p] = i
    <3>1. queue'[i] = [queue[i] EXCEPT !.status = s]
      BY <1>1, <1>7, <2>2 DEF Sets, SetStatus, Files
    <3>2. StatusAt(p) /\ Written(p, s)
      BY <1>7 DEF Sets, AtIntent
    <3>3. pc[p] = "xmark" => queue'[i] = queue[i]
      BY <1>1, <2>2, <3>1, <3>2 DEF StatusAt, Written, Entries
    <3>4. QED
      BY <2>2, <3>1, <3>2, <3>3 DEF StatusAt, Written, Becomes, IsAccepted, Stays
  <2>3. QED
    BY <2>1, <2>2
<1>8. QED
  BY FileMoves, <1>2, <1>3, <1>4, <1>5, <1>6, <1>7 DEF Edit

-----------------------------------------------------------------------------
(* The invariant is kept.                                                  *)

(* With one process, whoever saves has closed its copy.                    *)
LEMMA StepCopy == ASSUME AloneInv, Alone, [Next]_vars PROVE CopyIsFile'
<1> USE DEF AloneInv, Inv
<1>1. ASSUME NEW p \in Procs, ~open'[p] PROVE CopyIsFile'
  BY <1>1 DEF Alone, CopyIsFile
<1>2. ASSUME NEW p \in Procs, NEW changed, NEW contents, Save(p, changed, contents)
      PROVE  ~open'[p]
  BY <1>2 DEF Save, TypeOK
<1>3. ASSUME NEW p \in Procs, Load(p) PROVE CopyIsFile'
  BY <1>3 DEF Load, CopyIsFile, TypeOK, Alone, disk
<1>4. ASSUME NEW p \in Procs, Crash(p) PROVE ~open'[p]
  BY <1>4 DEF Crash, TypeOK
<1>5. ASSUME NEW p \in Procs, Recover(p) \/ Add(p) \/ Remove(p) \/ Clear(p) PROVE ~open'[p]
  BY <1>5, <1>2 DEF Recover, Add, Remove, Clear
<1>6. ASSUME NEW p \in Procs,
             MarkSending(p) \/ Unmark(p) \/ CountAttempt(p) \/ WriteBack(p) \/ Accept(p)
                \/ Reopen(p)
      PROVE  ~open'[p]
  BY <1>6, <1>2 DEF MarkSending, Unmark, CountAttempt, WriteBack, Accept, Reopen, SaveStatus
<1>7. CASE UNCHANGED <<queue, file>>
  BY <1>7 DEF CopyIsFile, file
<1>8. QED
  BY <1>1, <1>3, <1>4, <1>5, <1>6, <1>7
     DEF Next, Step, Connect, Discovered, Lock, Snapshot, Skip, Begin, Finish, Dispatch,
         DispatchRaises, LookBack, WaitOver, Check, Start, GiveUp, Beacon, Stale,
         Refuse, Pay, Answer, Hear, vars, disk

(* Removed, cleared or kept, an entry was added before; only what a flush  *)
(* is at, hence what is in the file, is sent.                              *)
LEMMA StepAdded == ASSUME AloneInv, [Next]_vars PROVE Added'
<1> USE DEF AloneInv, Inv
<1>1. Len(asked) <= Len(asked') /\ Len(asked) \in Nat /\ Len(asked') \in Nat
  <2>1. asked \in Seq(Payments)
    BY DEF TypeOK
  <2>2. ASSUME NEW p \in Procs, Adds(p) PROVE Len(asked') = Len(asked) + 1
    BY <2>1, <2>2 DEF Adds
  <2>3. asked' = asked \/ \E p \in Procs : Adds(p)
    BY FileMoves DEF disk, Edit, Recovers, Sets, Counts, Drops
  <2>4. QED
    BY <2>1, <2>2, <2>3
<1>2. ASSUME NEW i \in Ids, Present(queue, i)' PROVE i <= Len(asked')
  <2>1. Present(queue, i) \/ i = Len(asked')
    <3>1. \/ Stays(i) \/ IsNew(i) \/ queue'[i] = Absent
          \/ queue[i].status \in {"pending", "sending", "failed"}
      BY EntryMoves DEF Becomes, IsTried, IsAccepted
    <3>2. QED
      BY <1>2, <3>1 DEF Stays, IsNew, Present, Absent
  <2>2. QED
    BY <1>1, <2>1 DEF Added, Ids
<1>3. ASSUME NEW i \in Ids, sends'[i] > 0 PROVE i <= Len(asked')
  <2>1. ASSUME NEW p \in Procs, Dispatch(p) PROVE sends[i] > 0 \/ Present(queue, i)
    BY <1>3, <2>1 DEF Dispatch, TypeOK, AtIntent, StatusAt, Present
  <2>2. sends' = sends \/ \E p \in Procs : Dispatch(p)
    BY DEF Next, Step, Load, Recover, Add, Remove, Clear, Connect, Discovered, Lock,
           Snapshot, Skip, Begin, Finish, MarkSending, DispatchRaises, Unmark,
           CountAttempt, LookBack, WriteBack, WaitOver, Accept, Check, Reopen, Start,
           Crash, GiveUp, Beacon, Stale, Refuse, Pay, Answer, Hear, vars, net
  <2>3. sends[i] > 0 \/ Present(queue, i)
    BY <1>3, <2>1, <2>2
  <2>4. QED
    BY <1>1, <2>3 DEF Added, Ids
<1>4. QED
  BY <1>2, <1>3 DEF Added

(* The steps that end the work at an intent leave no trace of it.          *)
LEMMA StepIntent == ASSUME AloneInv, Alone, [Next]_vars PROVE AtIntent'
<1> USE DEF AloneInv, Inv
<1>1. ASSUME NEW p \in Procs, StatusAt(p)', RestAt(p)' PROVE AtIntent'
  BY <1>1 DEF Alone, AtIntent
<1>2. ASSUME NEW p \in Procs, pc'[p] \notin Flushing, cur'[p] = 0 PROVE AtIntent'
  BY <1>1, <1>2 DEF StatusAt, RestAt, Flushing, Working
<1>3. ASSUME UNCHANGED <<queue, pc, cur, seen, todo>> PROVE AtIntent'
  BY <1>3 DEF AtIntent, StatusAt, RestAt, PendingIn
<1>4. ASSUME NEW p \in Procs, Recover(p) \/ Add(p) \/ Remove(p) \/ Clear(p) \/ Connect(p)
                              \/ Discovered(p) \/ GiveUp(p) \/ Crash(p) \/ Beacon(p)
                              \/ \E c \in Commands : Start(p, c)
      PROVE  AtIntent'
  <2>1. CASE Beacon(p) /\ pc'[p] = pc[p]
    BY <1>3, <2>1 DEF Beacon, Goto, TypeOK, disk, flush
  <2>2. CASE Crash(p)
    BY <1>2, <2>2 DEF Crash, Exit, Goto, TypeOK, Flushing
  <2>3. ASSUME ~Crash(p), ~(Beacon(p) /\ pc'[p] = pc[p]) PROVE AtIntent'
    <3> DEFINE Outside == cur' = cur /\ pc[p] \notin Flushing /\ pc'[p] \notin Flushing
    <3>0. ASSUME Recover(p) PROVE Outside
      <4>1. cmd[p] \in {"add", "remove", "clear", "list", "flush", "listen"}
        BY <3>0, DeferredAssumption DEF Recover, AtWork
      <4>2. QED
        BY <3>0, <4>1 DEF Recover, Exit, Goto, TypeOK, Flushing, flush
    <3>1. ASSUME Add(p) \/ Remove(p) \/ Clear(p) PROVE Outside
      BY <3>1 DEF Add, Remove, Clear, Exit, Goto, TypeOK, Flushing, flush
    <3>2. ASSUME Connect(p) \/ Discovered(p) \/ GiveUp(p) PROVE Outside
      BY <3>2 DEF Connect, Discovered, GiveUp, Exit, Goto, TypeOK, Flushing, flush
    <3>3. ASSUME Beacon(p) PROVE Outside
      BY <2>3, <3>3 DEF Beacon, CanFlush, Goto, TypeOK, Flushing, flush
    <3>4. ASSUME NEW c \in Commands, Start(p, c) PROVE Outside
      BY <3>4 DEF Start, Goto, TypeOK, Flushing, flush
    <3>5. Outside
      BY <1>4, <2>3, <3>0, <3>1, <3>2, <3>3, <3>4
    <3>6. cur[p] = 0
      BY <3>5 DEF AtIntent, RestAt, Working
    <3>7. QED
      BY <1>2, <3>5, <3>6
  <2>4. QED
    BY <2>1, <2>2, <2>3
<1>5. ASSUME NEW p \in Procs, Lock(p) PROVE AtIntent'
  BY <1>5, <1>1
     DEF Lock, Goto, TypeOK, AtIntent, StatusAt, RestAt, Working, Flushing, flush, disk
<1>6. ASSUME NEW p \in Procs, Snapshot(p) PROVE AtIntent'
  BY <1>6, <1>1
     DEF Snapshot, Goto, TypeOK, AtIntent, StatusAt, RestAt, Working, Flushing, PendingIn,
         Ids, disk
<1>7. ASSUME NEW p \in Procs, Skip(p) PROVE AtIntent'
  BY <1>7, <1>1
     DEF Skip, TypeOK, AtIntent, StatusAt, RestAt, Working, Flushing, PendingIn, disk
<1>8. ASSUME NEW p \in Procs, Begin(p) PROVE AtIntent'
  BY <1>8, <1>1
     DEF Begin, Oldest, Goto, TypeOK, AtIntent, StatusAt, RestAt, Working, Flushing,
         PendingIn, disk
<1>9. ASSUME NEW p \in Procs, Finish(p) PROVE AtIntent'
  <2>1. cur'[p] = 0
    BY <1>9 DEF Finish, AtIntent, RestAt, Working
  <2>2. pc'[p] \in {"idle", "off"}
    BY <1>9 DEF Finish, Exit, Goto, TypeOK
  <2>3. QED
    BY <1>2, <2>1, <2>2 DEF Flushing
<1>10. ASSUME NEW p \in Procs, Done(p), todo'[p] = todo[p], pc[p] \in Working,
              \A i \in todo[p] : queue'[i] = queue[i]
       PROVE  AtIntent'
  <2>1. pc'[p] = "next" /\ cur'[p] = 0
    BY <1>10 DEF Done, Goto, TypeOK
  <2>2. todo[p] \subseteq PendingIn(queue)
    BY <1>10 DEF AtIntent, RestAt, Working, Flushing
  <2>3. RestAt(p)'
    BY <1>10, <2>1, <2>2 DEF RestAt, PendingIn, Ids, Working, Flushing
  <2>4. StatusAt(p)'
    BY <2>1 DEF StatusAt
  <2>5. QED
    BY <1>1, <2>3, <2>4
<1>11. ASSUME NEW p \in Procs, cur'[p] = cur[p], todo'[p] = todo[p], pc[p] \in Working,
              pc'[p] \in Working, \A i \in todo[p] : queue'[i] = queue[i]
       PROVE  RestAt(p)'
  BY <1>11 DEF AtIntent, RestAt, PendingIn, Working
<1>12. ASSUME NEW p \in Procs, Dispatch(p) \/ DispatchRaises(p) \/ WaitOver(p) PROVE AtIntent'
  <2>1. queue' = queue /\ cur' = cur /\ todo' = todo
    BY <1>12 DEF Dispatch, DispatchRaises, WaitOver, disk, flush
  <2>2. StatusAt(p)' /\ pc[p] \in Working /\ pc'[p] \in Working
    BY <1>12, <2>1
       DEF Dispatch, DispatchRaises, NotReady, WrongPassphrase, WaitOver, Goto, TypeOK,
           AtIntent, StatusAt, Working, Flushing
  <2>3. QED
    BY <1>1, <1>11, <2>1, <2>2
<1>13. ASSUME NEW p \in Procs, LookBack(p) \/ Check(p) PROVE AtIntent'
  <2>1. queue' = queue /\ todo' = todo /\ StatusAt(p) /\ pc[p] \in Working
    BY <1>13 DEF LookBack, Check, AtIntent, Working, Flushing, disk
  <2>2. CASE LookBack(p)
    <3>1. Present(queue, cur[p]) /\ cur' = cur /\ pc'[p] = "xmark"
      BY <2>1, <2>2 DEF LookBack, StatusAt, Present, Goto, TypeOK
    <3>2. seen'[p] = queue[cur[p]].status
      BY <2>2, <3>1 DEF LookBack, TypeOK
    <3>3. StatusAt(p)' /\ pc'[p] \in Working
      BY <2>1, <2>2, <3>1, <3>2 DEF LookBack, StatusAt, Working, Flushing
    <3>4. QED
      BY <1>1, <1>11, <2>1, <3>1, <3>3
  <2>3. CASE Check(p) /\ NeedsReopening(p)
    <3>1. pc'[p] = "reopen" /\ cur' = cur /\ queue[cur[p]].status = "sending"
      BY <2>1, <2>3 DEF Check, NeedsReopening, StatusAt, Goto, TypeOK
    <3>2. StatusAt(p)' /\ pc'[p] \in Working
      BY <2>1, <3>1 DEF StatusAt, Working, Flushing
    <3>3. QED
      BY <1>1, <1>11, <2>1, <3>1, <3>2
  <2>4. CASE Check(p) /\ ~NeedsReopening(p)
    BY <1>10, <2>1, <2>4 DEF Check
  <2>5. QED
    BY <1>13, <2>2, <2>3, <2>4
<1>14. ASSUME NEW p \in Procs, pc[p] \in Working, NEW s,
              queue' = SetStatus(queue, cur[p], s) \/ queue' = IncrementAttempts(queue, cur[p])
       PROVE  \A i \in todo[p] : queue'[i] = queue[i]
  <2>1. \A i \in todo[p] : i \in Ids /\ i # cur[p]
    BY <1>14 DEF AtIntent, RestAt, Working, PendingIn
  <2>2. QED
    BY <1>14, <2>1 DEF SetStatus, IncrementAttempts, TypeOK, Files
<1>15. ASSUME NEW p \in Procs, Unmark(p) \/ WriteBack(p) \/ Accept(p) \/ Reopen(p)
       PROVE  AtIntent'
  <2>1. Done(p) /\ todo' = todo /\ pc[p] \in Working
    BY <1>15 DEF Unmark, WriteBack, Accept, Reopen, Working, Flushing
  <2>2. \E s : queue' = SetStatus(queue, cur[p], s)
    BY <1>15, FlushMoves DEF Sets
  <2>3. QED
    BY <1>10, <1>14, <2>1, <2>2
<1>16. ASSUME NEW p \in Procs, MarkSending(p) PROVE AtIntent'
  <2>1. queue' = SetStatus(queue, cur[p], "sending")
    BY <1>16, FlushMoves DEF Sets
  <2>2. pc[p] \in Working /\ pc'[p] = "send" /\ cur' = cur /\ todo' = todo
    BY <1>16 DEF MarkSending, Goto, TypeOK, Working, Flushing, flush
  <2>3. cur[p] \in Ids
    BY <2>2 DEF AtWork
  <2>4. queue'[cur[p]].status = "sending"
    BY <2>1, <2>3 DEF SetStatus, TypeOK, Files, Entries
  <2>5. StatusAt(p)' /\ pc'[p] \in Working
    BY <2>2, <2>4 DEF StatusAt, Working, Flushing
  <2>6. QED
    BY <1>1, <1>11, <1>14, <2>1, <2>2, <2>5
<1>17. ASSUME NEW p \in Procs, CountAttempt(p) PROVE AtIntent'
  <2>1. queue' = IncrementAttempts(queue, cur[p])
    BY <1>17, FlushMoves DEF Counts
  <2>2. /\ pc[p] \in {"count", "xcount"} /\ pc'[p] \in {"wait", "xlook"}
        /\ cur' = cur /\ todo' = todo
    BY <1>17 DEF CountAttempt, Goto, TypeOK, flush
  <2>3. cur[p] \in Ids /\ queue[cur[p]].status = "sending"
    BY <2>2 DEF AtWork, AtIntent, StatusAt, Working, Flushing
  <2>4. IsTried(cur[p])
    BY <2>1, <2>3 DEF IncrementAttempts, IsTried, TypeOK, Files, Entries
  <2>5. queue[cur[p]].attempts \in Nat
    BY <2>3 DEF TypeOK, Files, Entries
  <2>6. queue'[cur[p]].status \in {"sending", "failed"} /\ queue'[cur[p]].attempts > 0
    BY <2>4, <2>5 DEF IsTried
  <2>7. StatusAt(p)' /\ pc[p] \in Working /\ pc'[p] \in Working
    BY <2>2, <2>6 DEF StatusAt, Working, Flushing
  <2>8. QED
    BY <1>1, <1>11, <1>14, <2>1, <2>2, <2>7
<1>18. QED
  BY <1>3, <1>4, <1>5, <1>6, <1>7, <1>8, <1>9, <1>12, <1>13, <1>15, <1>16, <1>17
     DEF Next, Step, Load, Stale, Refuse, Pay, Answer, Hear, vars, disk, flush

(* Nothing comes between the recovery of a command and what it adds.       *)
LEMMA StepRecovered == ASSUME AloneInv, Alone, [Next]_vars PROVE Recovered'
<1> USE DEF AloneInv, Inv
<1> SUFFICES ASSUME NEW p \in Procs, pc'[p] = "add", NEW i \in Ids
             PROVE  queue'[i].status # "sending"
  BY DEF Recovered
<1>1. CASE Recover(p)
  <2>1. buf[p] = queue /\ queue \in Files
    BY <1>1 DEF Recover, Save, CopyIsFile, TypeOK
  <2>2. CASE \E j \in Ids : queue[j].status = "sending"
    BY <1>1, <2>1, <2>2 DEF Recover, Save, RecoverSending, Files, Entries
  <2>3. CASE ~\E j \in Ids : queue[j].status = "sending"
    BY <1>1, <2>1, <2>3 DEF Recover, Save
  <2>4. QED
    BY <2>2, <2>3
<1>2. CASE ~Recover(p)
  <2>1. pc[p] = "add" /\ queue' = queue
    <3>1. ASSUME NEW q \in Procs PROVE q = p
      BY DEF Alone
    <3>2. CASE \E q \in Procs, c \in Commands : Start(q, c)
      BY <3>1, <3>2 DEF Start, Goto, TypeOK
    <3>3. ASSUME NEW q \in Procs, Add(q) \/ Remove(q) \/ Clear(q) \/ Crash(q) \/ GiveUp(q)
          PROVE FALSE
      BY <3>1, <3>3 DEF Add, Remove, Clear, Crash, GiveUp, Exit, Goto, TypeOK
    <3>4. ASSUME NEW q \in Procs, Connect(q) \/ Discovered(q) \/ Lock(q) \/ Snapshot(q)
                                  \/ Begin(q) \/ Finish(q)
          PROVE  FALSE
      BY <3>1, <3>4 DEF Connect, Discovered, Lock, Snapshot, Begin, Finish, Exit, Goto, TypeOK
    <3>5. ASSUME NEW q \in Procs, MarkSending(q) \/ Dispatch(q) \/ DispatchRaises(q)
                                  \/ Unmark(q) \/ CountAttempt(q) \/ LookBack(q)
          PROVE  FALSE
      BY <3>1, <3>5
         DEF MarkSending, Dispatch, DispatchRaises, NotReady, WrongPassphrase, Unmark,
             CountAttempt, LookBack, Done, Goto, TypeOK
    <3>6. ASSUME NEW q \in Procs, WriteBack(q) \/ WaitOver(q) \/ Accept(q) \/ Check(q) \/ Reopen(q)
          PROVE  FALSE
      BY <3>1, <3>6 DEF WriteBack, WaitOver, Accept, Check, Reopen, Done, Goto, TypeOK
    <3>7. ASSUME NEW q \in Procs, Load(q) \/ Skip(q) \/ Beacon(q) \/ Stale(q)
          PROVE  pc[p] = "add" /\ queue' = queue
      BY <3>1, <3>7 DEF Load, Skip, Beacon, Stale, CanFlush, Goto, TypeOK, disk
    <3>8. CASE UNCHANGED <<queue, pc>>
      BY <3>8
    <3>9. QED
      BY <1>2, <3>1, <3>2, <3>3, <3>4, <3>5, <3>6, <3>7, <3>8
         DEF Next, Step, Refuse, Pay, Answer, Hear, vars, disk
  <2>2. QED
    BY <2>1 DEF Recovered
<1>3. QED
  BY <1>1, <1>2

(* A twin could only come from an addition, which compares with PENDING,   *)
(* and nothing is SENDING then.                                            *)
LEMMA StepTwins == ASSUME AloneInv, [Next]_vars PROVE NoOpenTwins'
<1> USE DEF AloneInv, Inv
<1> DEFINE Open(i) == queue[i].status \in {"pending", "sending"}
<1> SUFFICES ASSUME NEW i \in Ids, NEW j \in Ids, Open(i)', Open(j)', asked'[i] = asked'[j]
             PROVE  i = j
  BY DEF NoOpenTwins
<1>1. ASSUME NEW k \in Ids, Open(k)' PROVE Open(k) \/ IsNew(k)
  <2>1. \/ Stays(k) \/ IsNew(k) \/ queue'[k] = Absent \/ Open(k)
        \/ queue'[k] = [queue[k] EXCEPT !.status = "sent"]
    BY EntryMoves DEF Becomes, IsTried, IsAccepted
  <2>2. queue[k] \in Entries
    BY DEF TypeOK, Files
  <2>3. QED
    BY <1>1, <2>1, <2>2 DEF Stays, Absent, Entries
<1>2. asked \in Seq(Payments)
  BY DEF TypeOK
<1>3. ASSUME NEW k \in Ids, Open(k) PROVE k \in 1..Len(asked)
  BY <1>2, <1>3 DEF Added, Present, Ids
<1>4. CASE asked' = asked
  <2>1. ~IsNew(i) /\ ~IsNew(j)
    BY <1>2, <1>4 DEF IsNew
  <2>2. QED
    BY <1>1, <1>4, <2>1 DEF NoOpenTwins
<1>5. ASSUME NEW p \in Procs, Adds(p) PROVE i = j
  <2>1. PICK what \in Payments : ~IsDuplicate(queue, asked, what) /\ asked' = Append(asked, what)
    BY <1>5 DEF Adds
  <2>2. ASSUME NEW k \in Ids, Open(k) PROVE asked'[k] = asked[k] /\ asked[k] # what
    <3>1. queue[k].status = "pending"
      BY <1>5, <2>2 DEF Adds, Recovered
    <3>2. QED
      BY <1>2, <1>3, <2>1, <2>2, <3>1 DEF IsDuplicate, PendingIn
  <2>3. asked'[Len(asked) + 1] = what
    BY <1>2, <2>1
  <2>4. QED
    BY <1>1, <2>2, <2>3 DEF IsNew, NoOpenTwins
<1>6. QED
  BY FileMoves, <1>4, <1>5 DEF disk, Edit, Recovers, Drops, Sets, Counts

(* A transmission is made by a flush alone with its intent, and counted    *)
(* before it looks for the answer; a crash between the two is counted in   *)
(* its stead.                                                              *)
LEMMA SendMoves ==
    ASSUME AloneInv, [Next]_vars
    PROVE  \/ /\ UNCHANGED <<net, env>> /\ \E p \in Procs : Edit(p)
           \/ /\ UNCHANGED <<disk, crashes>>
              /\ \E p \in Procs : /\ pc[p] = "send" /\ pc'[p] = "count" /\ cur' = cur
                                  /\ sends' = [sends EXCEPT ![cur[p]] = @ + 1]
           \/ UNCHANGED <<disk, sends>> /\ crashes' = crashes + 1
           \/ /\ UNCHANGED <<disk, sends, crashes>>
              /\ \A p \in Procs : pc[p] = "count" => pc'[p] = "count" /\ cur'[p] = cur[p]
<1> USE DEF AloneInv, Inv
<1>1. ASSUME NEW p \in Procs, Dispatch(p)
      PROVE  /\ UNCHANGED <<disk, crashes>>
             /\ pc[p] = "send" /\ pc'[p] = "count" /\ cur' = cur
             /\ sends' = [sends EXCEPT ![cur[p]] = @ + 1]
  BY <1>1 DEF Dispatch, Goto, TypeOK, flush, env
<1>2. ASSUME NEW p \in Procs, Crash(p) PROVE UNCHANGED <<disk, sends>> /\ crashes' = crashes + 1
  BY <1>2 DEF Crash, net
<1>3. ASSUME NEW p \in Procs, CountAttempt(p) PROVE UNCHANGED <<net, env>> /\ Edit(p)
  BY <1>3, FlushMoves DEF CountAttempt, Edit
<1>4. ASSUME NEW p \in Procs, UNCHANGED <<disk, net, crashes>>, pc[p] # "count",
             \A q \in Procs \ {p} : pc'[q] = pc[q] /\ cur'[q] = cur[q]
      PROVE  /\ UNCHANGED <<disk, sends, crashes>>
             /\ \A q \in Procs : pc[q] = "count" => pc'[q] = "count" /\ cur'[q] = cur[q]
  BY <1>4 DEF net
<1> DEFINE Calm == /\ UNCHANGED <<disk, sends, crashes>>
                   /\ \A p \in Procs : pc[p] = "count" => pc'[p] = "count" /\ cur'[p] = cur[p]
<1>5. ASSUME NEW p \in Procs, Connect(p) \/ Discovered(p) \/ GiveUp(p) \/ Lock(p) \/ Snapshot(p)
      PROVE  Calm
  BY <1>4, <1>5
     DEF Connect, Discovered, GiveUp, Lock, Snapshot, Exit, Goto, TypeOK, env, flush
<1>6. ASSUME NEW p \in Procs, Begin(p) \/ Finish(p) \/ DispatchRaises(p) \/ LookBack(p)
      PROVE  Calm
  BY <1>4, <1>6
     DEF Begin, Finish, DispatchRaises, NotReady, WrongPassphrase, LookBack, Exit, Goto,
         TypeOK, env, flush
<1>7. ASSUME NEW p \in Procs, WaitOver(p) \/ Check(p) PROVE Calm
  BY <1>4, <1>7 DEF WaitOver, Check, Done, Goto, TypeOK, env, flush
<1>8. ASSUME NEW p \in Procs, NEW c \in Commands, Start(p, c) PROVE Calm
  BY <1>4, <1>8 DEF Start, Goto, TypeOK, env, flush
<1>9. ASSUME NEW p \in Procs, Load(p) \/ Skip(p) \/ Stale(p) PROVE Calm
  BY <1>9 DEF Load, Skip, Stale, env, flush, net
<1>10. ASSUME NEW p \in Procs, Beacon(p) PROVE Calm
  BY <1>10 DEF Beacon, CanFlush, Goto, TypeOK, env, flush, net
<1>11. CASE \/ \E n \in requests : Refuse(n) \/ Pay(n)
            \/ \E r \in replies : Hear(r)
            \/ UNCHANGED vars
  BY <1>11 DEF Refuse, Pay, Answer, Hear, vars, env, flush, net
<1>12. ASSUME NEW p \in Procs, Recover(p) \/ Add(p) \/ Remove(p) \/ Clear(p)
       PROVE  Calm \/ (UNCHANGED <<net, env>> /\ \E q \in Procs : Edit(q))
  <2>1. CASE UNCHANGED disk
    <3>1. /\ pc[p] # "count" /\ cur' = cur /\ UNCHANGED <<net, env>>
          /\ \A q \in Procs \ {p} : pc'[q] = pc[q]
      BY <1>12, <2>1 DEF Recover, Add, Remove, Clear, Exit, Goto, TypeOK, flush
    <3>2. QED
      BY <1>4, <2>1, <3>1 DEF env
  <2>2. QED
    BY <2>1, FileMoves
<1>13. ASSUME NEW p \in Procs,
              MarkSending(p) \/ Unmark(p) \/ WriteBack(p) \/ Accept(p) \/ Reopen(p)
       PROVE  UNCHANGED <<net, env>> /\ Edit(p)
  BY <1>13, FlushMoves DEF MarkSending, Unmark, WriteBack, Accept, Reopen, Edit
<1>14. QED
  BY <1>1, <1>2, <1>3, <1>5, <1>6, <1>7, <1>8, <1>9, <1>10, <1>11, <1>12, <1>13
     DEF Next, Step

(* An intent is given up after MaxAttempts counted attempts.               *)
LEMMA StepSends == ASSUME AloneInv, Alone, [Next]_vars PROVE SendsCounted' /\ SendsBounded'
<1> USE DEF AloneInv, Inv
<1> DEFINE U(i) == IF Uncounted(i) THEN 1 ELSE 0
<1>1. /\ MaxAttempts \in Nat \ {0} /\ crashes \in Nat /\ Len(asked) \in Nat
      /\ \A i \in Ids : sends[i] \in Nat /\ queue[i] \in Entries /\ queue[i].attempts \in Nat
  BY IntentStoreAssumption DEF TypeOK, Files, Entries
<1>2. ASSUME NEW p \in Procs, Edit(p), UNCHANGED <<net, env>>, NEW i \in Ids
      PROVE  /\ Present(queue, i)' => sends'[i] <= queue'[i].attempts + crashes' + U(i)'
             /\ queue'[i].attempts <= MaxAttempts
             /\ queue'[i].status \in {"pending", "sending"} => queue'[i].attempts < MaxAttempts
             /\ sends'[i] <= MaxAttempts + crashes'
  <2>1. sends' = sends /\ crashes' = crashes
    BY <1>2 DEF net, env
  <2>2. sends[i] <= MaxAttempts + crashes
    BY DEF SendsBounded
  <2>3. Uncounted(i) => IsTried(i)
    <3>1. SUFFICES ASSUME Uncounted(i) PROVE IsTried(i)
      OBVIOUS
    <3>2. pc[p] = "count" /\ cur[p] = i
      BY <3>1 DEF Alone, Uncounted
    <3>3. Counts(p) /\ queue[i].status = "sending"
      BY <1>2, <3>2 DEF Edit, Recovers, Adds, Drops, Sets, Written, AtIntent, StatusAt, Counts
    <3>4. QED
      BY <1>1, <3>2, <3>3 DEF Counts, IncrementAttempts, IsTried, TypeOK, Files
  <2>4. CASE IsTried(i)
    <3>1. /\ queue'[i].attempts = queue[i].attempts + 1
          /\ queue'[i].attempts >= MaxAttempts => queue'[i].status = "failed"
          /\ Present(queue, i) /\ queue[i].attempts < MaxAttempts
      BY <1>1, <2>4 DEF IsTried, SendsCounted, Present
    <3>2. sends[i] <= queue[i].attempts + crashes + 1
      BY <1>1, <3>1 DEF SendsCounted
    <3>3. queue'[i].attempts <= MaxAttempts /\ sends[i] <= queue'[i].attempts + crashes
      BY <1>1, <3>1, <3>2
    <3>4. /\ U(i)' \in {0, 1} /\ queue'[i].attempts \in Nat
          /\ queue'[i].status \in {"pending", "sending"} => queue'[i].attempts < MaxAttempts
      BY <1>1, <3>1
    <3>5. QED
      BY <1>1, <2>1, <2>2, <3>3, <3>4
  <2>5. CASE /\ ~IsTried(i)
             /\ \/ Stays(i) \/ Becomes(i, {"sending"}, "pending")
                \/ Becomes(i, {"pending"}, "sending") \/ IsAccepted(i)
    <3>1. queue'[i].attempts = queue[i].attempts
      BY <1>1, <2>5 DEF Stays, Becomes, IsAccepted, Entries
    <3>2. /\ queue'[i].status \in {"pending", "sending"} =>
                 queue[i].status \in {"pending", "sending"}
          /\ Present(queue, i)' => Present(queue, i)
      BY <1>1, <2>5 DEF Stays, Becomes, IsAccepted, Entries, Present
    <3>3. Present(queue, i) => sends[i] <= queue[i].attempts + crashes
      BY <1>1, <2>3, <2>5 DEF SendsCounted
    <3>4. queue[i].attempts <= MaxAttempts
          /\ (queue[i].status \in {"pending", "sending"} => queue[i].attempts < MaxAttempts)
      BY DEF SendsCounted
    <3>5. QED
      BY <1>1, <2>1, <2>2, <3>1, <3>2, <3>3, <3>4
  <2>6. CASE IsNew(i)
    <3>1. ~(i <= Len(asked))
      BY <1>1, <2>6 DEF IsNew
    <3>2. sends[i] = 0
      BY <1>1, <3>1 DEF Added
    <3>3. queue'[i].attempts = 0
      BY <2>6 DEF IsNew
    <3>4. QED
      BY <1>1, <2>1, <3>2, <3>3
  <2>7. CASE queue'[i] = Absent
    BY <1>1, <2>1, <2>2, <2>7 DEF Absent, Present
  <2>8. QED
    BY <2>4, <2>5, <2>6, <2>7, EntryMoves
<1>3. ASSUME NEW p \in Procs, UNCHANGED <<disk, crashes>>,
             pc[p] = "send", pc'[p] = "count", cur' = cur,
             sends' = [sends EXCEPT ![cur[p]] = @ + 1]
      PROVE  SendsCounted' /\ SendsBounded'
  <2>1. cur[p] \in Ids /\ queue[cur[p]].status = "sending" /\ ~Uncounted(cur[p])
    BY <1>3 DEF AtWork, Working, Flushing, AtIntent, StatusAt, Alone, Uncounted
  <2>2. queue' = queue
    BY <1>3 DEF disk
  <2>3. \A i \in Ids : sends'[i] = IF i = cur[p] THEN sends[i] + 1 ELSE sends[i]
    BY <1>3 DEF TypeOK
  <2>4. \A i \in Ids : Uncounted(i)' <=> i = cur[p]
    BY <1>3 DEF Alone, Uncounted
  <2>5. \A i \in Ids : ~Uncounted(i)
    BY <1>3 DEF Alone, Uncounted
  <2>6. SendsCounted'
    BY <1>1, <1>3, <2>2, <2>3, <2>4, <2>5 DEF SendsCounted, Present
  <2>7. sends[cur[p]] <= queue[cur[p]].attempts + crashes /\ queue[cur[p]].attempts < MaxAttempts
    BY <1>1, <2>1 DEF SendsCounted, Present
  <2>8. SendsBounded'
    BY <1>1, <1>3, <2>1, <2>3, <2>7 DEF SendsBounded
  <2>9. QED
    BY <2>6, <2>8
<1>4. CASE UNCHANGED <<disk, sends>> /\ crashes' = crashes + 1
  BY <1>1, <1>4 DEF SendsCounted, SendsBounded, Present, disk
<1>5. CASE /\ UNCHANGED <<disk, sends, crashes>>
           /\ \A p \in Procs : pc[p] = "count" => pc'[p] = "count" /\ cur'[p] = cur[p]
  <2>1. \A i \in Ids : Uncounted(i) => Uncounted(i)'
    BY <1>5 DEF Uncounted
  <2>2. QED
    BY <1>1, <1>5, <2>1 DEF SendsCounted, SendsBounded, Present, disk
<1>6. CASE UNCHANGED <<net, env>> /\ \E p \in Procs : Edit(p)
  BY <1>2, <1>6 DEF SendsCounted, SendsBounded
<1>7. QED
  BY SendMoves, <1>3, <1>4, <1>5, <1>6

-----------------------------------------------------------------------------
(* The queue that was promised.                                            *)

(* An edit of the file is one step of the abstract queue, or none.         *)
LEMMA StepPromise ==
    ASSUME AloneInv, [Next]_vars
    PROVE  Promise!Next \/ UNCHANGED <<Entry, asked>>
<1> USE DEF AloneInv, Inv
<1> DEFINE Of(e) == [state |-> IF e.status \in {"pending", "sending"} THEN "open" ELSE e.status,
                     tries |-> e.attempts]
<1>1. Ids = Promise!Slots /\ queue \in Files /\ (\A i \in Ids : queue[i] \in Entries)
      /\ asked \in Seq(Payments)
  BY DEF TypeOK, Files, Ids, Promise!Slots
<1>2. /\ Entry = [i \in Ids |-> Of(queue[i])]
      /\ Entry' = [i \in Ids |-> Of(queue'[i])]
  BY DEF Entry
<1>3. CASE UNCHANGED disk
  BY <1>3 DEF disk, Entry
<1>4. ASSUME NEW p \in Procs, Recovers(p) PROVE UNCHANGED <<Entry, asked>>
  <2>1. \A i \in Ids : Of(queue'[i]) = Of(queue[i])
    BY <1>1, <1>4 DEF Recovers, RecoverSending, Entries
  <2>2. QED
    BY <1>2, <1>4, <2>1 DEF Recovers
<1>5. ASSUME NEW p \in Procs, Adds(p) PROVE Promise!Next
  <2>1. PICK what \in Payments : ~IsDuplicate(queue, asked, what) /\ asked' = Append(asked, what)
    BY <1>5 DEF Adds
  <2> DEFINE n == Len(asked) + 1
  <2>2. n \in Ids /\ n <= MaxIntents
    BY <1>1, <1>5, IntentStoreAssumption DEF Adds, Ids
  <2>3. \A j \in Ids : Promise!Open(j) => asked[j] # what
    BY <1>1, <1>2, <1>5, <2>1
       DEF Adds, Recovered, Promise!Open, IsDuplicate, PendingIn, Entries, Status
  <2>4. Entry' = [Entry EXCEPT ![n] = [state |-> "open", tries |-> 0]]
    <3>1. \A i \in Ids : Of(queue'[i]) = IF i = n THEN [state |-> "open", tries |-> 0]
                                                  ELSE Of(queue[i])
      BY <1>1, <1>5 DEF Adds, WithNew, Files
    <3>2. QED
      BY <1>2, <3>1
  <2>5. Promise!Submit(what)
    BY <1>1, <2>1, <2>2, <2>3, <2>4 DEF Promise!Submit
  <2>6. QED
    BY <2>5 DEF Promise!Next
<1>6. ASSUME NEW p \in Procs, NEW gone \in SUBSET Ids, Drops(p, gone) PROVE Promise!Next
  <2>1. \A i \in Ids : Of(queue'[i]) = IF i \in gone THEN Promise!None ELSE Of(queue[i])
    BY <1>6 DEF Drops, Absent, Promise!None
  <2>2. Promise!Withdraw(gone)
    BY <1>1, <1>2, <1>6, <2>1 DEF Drops, Promise!Withdraw
  <2>3. QED
    BY <1>1, <2>2 DEF Promise!Next
<1>7. ASSUME NEW p \in Procs, Counts(p) PROVE Promise!Next
  <2>1. cur[p] \in Ids /\ queue[cur[p]].status = "sending"
    BY <1>7 DEF Counts, AtWork, AtIntent, StatusAt, Working, Flushing
  <2> DEFINE i == cur[p]
  <2>2. IsTried(i) /\ \A j \in Ids \ {i} : queue'[j] = queue[j]
    BY <1>1, <1>7, <2>1 DEF Counts, IncrementAttempts, IsTried, Files
  <2>3. Of(queue'[i]) = [state |-> IF Entry[i].tries + 1 >= MaxAttempts THEN "failed" ELSE "open",
                         tries |-> Entry[i].tries + 1]
    BY <1>1, <1>2, <2>1, <2>2 DEF IsTried
  <2>4. Entry' = [Entry EXCEPT ![i] =
          [state |-> IF Entry[i].tries + 1 >= MaxAttempts THEN "failed" ELSE "open",
           tries |-> Entry[i].tries + 1]]
    BY <1>2, <2>1, <2>2, <2>3
  <2>5. Promise!Try(i)
    BY <1>2, <1>7, <2>1, <2>4 DEF Counts, Promise!Try, Promise!Open
  <2>6. QED
    BY <1>1, <2>1, <2>5 DEF Promise!Next
<1>8. ASSUME NEW p \in Procs, NEW s, Sets(p, s) PROVE Promise!Next \/ UNCHANGED <<Entry, asked>>
  <2>1. cur[p] \in Ids /\ StatusAt(p)
    BY <1>8 DEF Sets, Written, AtWork, AtIntent, Working, Flushing
  <2> DEFINE i == cur[p]
  <2>2. queue'[i] = [queue[i] EXCEPT !.status = s] /\ \A j \in Ids \ {i} : queue'[j] = queue[j]
    BY <1>1, <1>8, <2>1 DEF Sets, SetStatus, Files
  <2>3. CASE pc[p] = "accept"
    <3>1. s = "sent" /\ queue[i].status \in {"sending", "failed"} /\ queue[i].attempts > 0
      BY <1>8, <2>1, <2>3 DEF Sets, Written, StatusAt
    <3>2. Of(queue'[i]) = [Entry[i] EXCEPT !.state = "sent"]
      BY <1>1, <1>2, <2>1, <2>2, <3>1 DEF Entries
    <3>3. Entry' = [Entry EXCEPT ![i].state = "sent"]
      BY <1>2, <2>1, <2>2, <3>2
    <3>4. Promise!Confirm(i)
      BY <1>2, <1>8, <2>1, <3>1, <3>3 DEF Sets, Promise!Confirm
    <3>5. QED
      BY <1>1, <2>1, <3>4 DEF Promise!Next
  <2>4. CASE pc[p] # "accept"
    <3>1. Of(queue'[i]) = Of(queue[i])
      BY <1>1, <1>8, <2>1, <2>2, <2>4 DEF Sets, Written, StatusAt, Entries
    <3>2. QED
      BY <1>2, <1>8, <2>1, <2>2, <3>1 DEF Sets
  <2>5. QED
    BY <2>3, <2>4
<1>9. QED
  BY FileMoves, <1>3, <1>4, <1>5, <1>6, <1>7, <1>8 DEF Edit

-----------------------------------------------------------------------------
(* Owners.                                                                 *)

(* An intent becomes SENDING in the hands of a flush and is put down       *)
(* PENDING, SENT or FAILED, but by the except branch.                      *)
LEMMA StepOwned ==
    ASSUME AloneInv, Alone, [Next]_vars, NEW i \in Ids, Orphaned(i)'
    PROVE  Orphaned(i) \/ \E p \in Procs : pc[p] = "xmark" /\ cur[p] = i
<1> USE DEF AloneInv, Inv
<1> DEFINE Left(p) == pc'[p] \in {"off", "recover"}
<1>1. PICK p \in Procs : ~Left(p)
  BY DEF Orphaned
<1>2. queue'[i].status = "sending" /\ ~Left(p) /\ cur'[p] # i
  BY <1>1 DEF Orphaned
<1>3. \A q \in Procs : q = p
  BY DEF Alone
<1> SUFFICES ASSUME ~Orphaned(i), ~(pc[p] = "xmark" /\ cur[p] = i) PROVE FALSE
  OBVIOUS
<1>4. ASSUME queue[i].status = "sending", pc[p] \notin {"off", "recover"}
      PROVE  cur[p] = i /\ pc[p] \in Working
  BY <1>3, <1>4 DEF Orphaned, AtIntent, RestAt, Ids
<1>5. CASE queue' = queue /\ cur' = cur /\ (pc[p] \in {"off", "recover"} => Left(p))
  BY <1>2, <1>4, <1>5
<1>6. ASSUME Recover(p) PROVE FALSE
  <2>1. buf[p] = queue /\ queue \in Files
    BY <1>6 DEF Recover, Save, CopyIsFile, TypeOK
  <2>2. CASE \E j \in Ids : queue[j].status = "sending"
    BY <1>2, <1>6, <2>1, <2>2 DEF Recover, Save, RecoverSending, Files, Entries
  <2>3. CASE ~\E j \in Ids : queue[j].status = "sending"
    BY <1>2, <1>6, <2>1, <2>3 DEF Recover, Save
  <2>4. QED
    BY <2>2, <2>3
<1>7. ASSUME Add(p) \/ Remove(p) \/ Clear(p) \/ Crash(p) \/ GiveUp(p) PROVE FALSE
  BY <1>2, <1>7 DEF Add, Remove, Clear, Crash, GiveUp, Exit, Goto, TypeOK
<1>8. ASSUME NEW c \in Commands, Start(p, c) PROVE FALSE
  BY <1>2, <1>8 DEF Start, Goto, TypeOK
<1>9. ASSUME Begin(p) PROVE FALSE
  BY <1>2, <1>4, <1>9 DEF Begin, Working, disk
<1>10. ASSUME MarkSending(p) PROVE FALSE
  <2>1. queue' = SetStatus(queue, cur[p], "sending") /\ cur' = cur
    BY <1>10, FlushMoves DEF Sets, MarkSending, flush
  <2>2. cur[p] # i => queue[i].status = "sending"
    BY <1>2, <2>1 DEF SetStatus, TypeOK, Files
  <2>3. QED
    BY <1>2, <1>4, <1>10, <2>1, <2>2 DEF MarkSending
<1>11. ASSUME CountAttempt(p) PROVE FALSE
  <2>1. queue' = IncrementAttempts(queue, cur[p]) /\ cur' = cur
    BY <1>11, FlushMoves DEF Counts, CountAttempt, flush
  <2>2. queue[i].status = "sending"
    BY <1>2, <2>1 DEF IncrementAttempts, TypeOK, Files, Entries
  <2>3. QED
    BY <1>2, <1>4, <1>11, <2>1, <2>2 DEF CountAttempt
<1>12. ASSUME Unmark(p) \/ Accept(p) \/ Reopen(p) PROVE FALSE
  <2>1. PICK s \in {"pending", "sent"} : queue' = SetStatus(queue, cur[p], s)
    BY <1>12, FlushMoves DEF Sets
  <2>2. pc[p] \in {"unmark", "accept", "reopen"}
    BY <1>12 DEF Unmark, Accept, Reopen
  <2>3. cur[p] # i /\ queue[i].status = "sending"
    BY <1>2, <2>1 DEF SetStatus, TypeOK, Files, Entries
  <2>4. QED
    BY <1>4, <2>2, <2>3
<1>13. ASSUME Check(p) PROVE FALSE
  <2>1. queue' = queue /\ cur[p] = i /\ pc[p] = "check"
    BY <1>2, <1>4, <1>13 DEF Check, disk
  <2>2. NeedsReopening(p)
    BY <1>2, <2>1 DEF NeedsReopening
  <2>3. QED
    BY <1>2, <1>13, <2>1, <2>2 DEF Check
<1>14. ASSUME WriteBack(p) PROVE FALSE
  <2>1. queue' = SetStatus(queue, cur[p], seen[p]) /\ pc[p] = "xmark"
    BY <1>14, FlushMoves DEF Sets, WriteBack
  <2>2. cur[p] # i /\ queue[i].status = "sending"
    BY <1>2, <2>1 DEF SetStatus, TypeOK, Files
  <2>3. QED
    BY <1>4, <2>1, <2>2
<1>15. ASSUME Load(p) \/ Skip(p) \/ Stale(p) \/ Beacon(p) PROVE FALSE
  BY <1>2, <1>4, <1>15
     DEF Load, Skip, Stale, Beacon, CanFlush, Connected, Flushing, Goto, TypeOK, disk, flush
<1>16. ASSUME Connect(p) \/ Discovered(p) \/ Lock(p) \/ Snapshot(p) \/ Finish(p)
              \/ Dispatch(p) \/ DispatchRaises(p) \/ LookBack(p) \/ WaitOver(p)
       PROVE  FALSE
  <2>1. queue' = queue /\ cur' = cur /\ pc[p] \notin {"off", "recover"}
    BY <1>16
       DEF Connect, Discovered, Lock, Snapshot, Finish, Dispatch, DispatchRaises, LookBack,
           WaitOver, disk, flush
  <2>2. QED
    BY <1>2, <1>4, <2>1
<1>17. CASE UNCHANGED <<queue, cur, pc>>
  BY <1>2, <1>4, <1>17
<1>18. QED
  BY <1>3, <1>6, <1>7, <1>8, <1>9, <1>10, <1>11, <1>12, <1>13, <1>14, <1>15, <1>16, <1>17
     DEF Next, Step, Refuse, Pay, Answer, Hear, vars, disk, flush

-----------------------------------------------------------------------------
(* Theorems.                                                               *)

(* The invariant holds of every behaviour of one process at a time.        *)
LEMMA AloneInvariance == ASSUME Alone PROVE Spec => []AloneInv
<1>1. Init => AloneInv
  <2> SUFFICES ASSUME Init PROVE AloneInv
    OBVIOUS
  <2>1. Inv /\ CopyIsFile /\ Recovered
    BY InvInit DEF Init, CopyIsFile, Recovered
  <2>2. AtIntent
    BY DEF Init, AtIntent, StatusAt, RestAt, Flushing
  <2>3. \A i \in Ids : queue[i] = Absent /\ sends[i] = 0 /\ ~Uncounted(i)
    BY DEF Init, EmptyFile, Uncounted
  <2>4. crashes = 0 /\ MaxAttempts \in Nat
    BY IntentStoreAssumption DEF Init
  <2>5. Added /\ SendsCounted /\ SendsBounded /\ NoOpenTwins
    BY <2>3, <2>4 DEF Added, SendsCounted, SendsBounded, NoOpenTwins, Present, Absent
  <2>6. QED
    BY <2>1, <2>2, <2>5 DEF AloneInv
<1>2. AloneInv /\ [Next]_vars => AloneInv'
  <2> SUFFICES ASSUME AloneInv, [Next]_vars PROVE AloneInv'
    OBVIOUS
  <2>1. Inv'
    BY InvStep DEF AloneInv
  <2>2. QED
    BY <2>1, StepCopy, StepIntent, StepRecovered, StepAdded, StepSends, StepTwins DEF AloneInv
<1>3. QED
  BY <1>1, <1>2, PTL DEF Spec

(* A process alone never transmits what the file does not say is SENDING,  *)
(* so that a crash at any step leaves what the next start recovers.        *)
THEOREM MarkedFirst == ASSUME Alone PROVE Spec => []TransmitOnlyMarked
<1>1. AloneInv => TransmitOnlyMarked
  BY DEF AloneInv, AtIntent, StatusAt, TransmitOnlyMarked
<1>2. QED
  BY <1>1, AloneInvariance, PTL

(* An intent is transmitted at most max_attempts times, and once more for  *)
(* each crash.                                                             *)
THEOREM SendsLimited == ASSUME Alone PROVE Spec => []SendsBounded
<1>1. AloneInv => SendsBounded
  BY DEF AloneInv
<1>2. QED
  BY <1>1, AloneInvariance, PTL

(* No two intents that ask for the same payment are ever open at once.     *)
THEOREM NoTwins == ASSUME Alone PROVE Spec => []NoOpenTwins
<1>1. AloneInv => NoOpenTwins
  BY DEF AloneInv
<1>2. QED
  BY <1>1, AloneInvariance, PTL

(* Whatever happens to the processes, an intent is SENDING in nobody's     *)
(* hands only because its dispatch raised.                                 *)
THEOREM NothingElseOrphans == ASSUME Alone PROVE Spec => OrphanedOnlyByRaise
<1>1. AloneInv /\ [Next]_vars =>
        \A i \in Ids : Orphaned(i)' =>
            Orphaned(i) \/ \E p \in Procs : pc[p] = "xmark" /\ cur[p] = i
  BY StepOwned
<1>2. QED
  BY <1>1, AloneInvariance, PTL DEF Spec, OrphanedOnlyByRaise

(* The file never forgets an attempt, a payment or that it has given up.   *)
THEOREM FileRemembers == ASSUME Alone PROVE Spec => NeverForgets
<1> DEFINE Kept(i) == Present(queue, i) /\ Present(queue, i)' =>
             /\ queue'[i].attempts >= queue[i].attempts
             /\ queue[i].status = "sent" => queue'[i].status = "sent"
             /\ queue[i].status = "failed" => queue'[i].status \in {"failed", "sent"}
<1>1. AloneInv /\ [Next]_vars => \A i \in Ids : Kept(i)
  <2> SUFFICES ASSUME AloneInv, [Next]_vars, NEW i \in Ids, Present(queue, i), Present(queue, i)'
               PROVE  /\ queue'[i].attempts >= queue[i].attempts
                      /\ queue[i].status = "sent" => queue'[i].status = "sent"
                      /\ queue[i].status = "failed" => queue'[i].status \in {"failed", "sent"}
    OBVIOUS
  <2>1. queue[i] \in Entries /\ asked \in Seq(Payments)
    BY DEF AloneInv, Inv, TypeOK, Files
  <2>2. ~IsNew(i) /\ queue'[i] # Absent
    BY <2>1 DEF AloneInv, Added, IsNew, Present, Absent, Ids
  <2>3. CASE Stays(i) \/ IsTried(i)
    BY <2>1, <2>3 DEF Stays, IsTried, Entries
  <2>4. CASE \/ Becomes(i, {"sending"}, "pending") \/ Becomes(i, {"pending"}, "sending")
             \/ IsAccepted(i)
    BY <2>1, <2>4 DEF Becomes, IsAccepted, Entries
  <2>5. QED
    BY <2>2, <2>3, <2>4, EntryMoves
<1>2. QED
  BY <1>1, AloneInvariance, PTL DEF Spec, NeverForgets

(* Used by one command at a time, crashes included, the queue file         *)
(* implements the queue that was promised.                                 *)
THEOREM PromiseKept == ASSUME Alone PROVE Spec => KeepsPromise
<1>1. Init => Promise!Init
  BY DEF Init, EmptyFile, Absent, Ids, Entry, Promise!Init, Promise!Slots, Promise!None
<1>2. AloneInv /\ [Next]_vars => [Promise!Next]_<<Entry, asked>>
  BY StepPromise
<1>3. QED
  BY AloneInvariance, <1>1, <1>2, PTL DEF Spec, KeepsPromise, Promise!Spec

=============================================================================
