-------------------------------- MODULE Deferred --------------------------------
(***************************************************************************)
(* Store-and-forward payments: the processes that share the queue file     *)
(* (the `listen` daemon, `queue flush`, `send deferred` and the `queue`    *)
(* commands), the flush worker of ClientNode, the mesh between client and  *)
(* gateway, and the gateway that pays.                                     *)
(*                                                                         *)
(* A store operation is two steps, as in the code: Load reads the whole    *)
(* file into memory, the operation's own action rewrites what was loaded   *)
(* and saves it with one atomic rename.  No lock covers the two steps;     *)
(* flock only keeps two flushes from running at once.                      *)
(***************************************************************************)
EXTENDS IntentStore, FiniteSets

CONSTANTS
    Procs,          \* operating-system processes that may run at once
    NoProc,         \* nobody holds the flush lock
    Commands,       \* the commands the user runs in this instance
    Unlocked,       \* payments of wallets whose passphrase the flusher holds
    Faults,         \* which exceptions the dispatch of an intent may raise
    MaxMsgs,        \* bound: requests transmitted
    MaxCrashes,     \* bound: kills, crashes and Ctrl-C
    MaxOutages      \* bound: times the gateway falls silent

ASSUME DeferredAssumption ==
    /\ NoProc \notin Procs
    /\ Commands \subseteq {"add", "remove", "clear", "list", "flush", "listen"}
    /\ Unlocked \subseteq Payments
    /\ Faults \subseteq {"raise", "wrong_passphrase"}
    /\ MaxMsgs \in Nat /\ MaxCrashes \in Nat /\ MaxOutages \in Nat

VARIABLES
    queue,      \* queue.json
    asked,      \* what each intent asks for, in order of creation
    flock,      \* holder of queue.lock, or NoProc
    pc, cmd,    \* what each process does, and the command it runs
    open, buf,  \* the file a process has loaded and not saved yet
    todo, cur,  \* rest of the flush's snapshot, and the intent it is at
    seen,       \* the status read back after a failed dispatch
    msg,        \* the request whose answer the process waits for, or 0
    answer,     \* what _results holds for that request
    fresh,      \* a beacon of the process's gateway is recent enough
    log,        \* who transmitted which intent, by message number
    requests, replies,  \* messages on the mesh; a lost one just stays there
    paid,       \* requests the gateway has paid for
    sends,      \* transmissions of each intent
    crashes, outages

disk    == <<queue, asked>>
file    == <<open, buf>>
flush   == <<todo, cur, seen>>
waiting == <<msg, answer>>
net     == <<log, requests, replies, paid, sends>>
env     == <<crashes, outages>>
vars    == <<disk, flock, pc, cmd, file, flush, waiting, fresh, net, env>>

Msgs == 1..MaxMsgs

(* The steps of IntentStore that load the file and save it.                *)
Rewrites == {"recover", "add", "remove", "clear",
             "mark", "unmark", "count", "accept", "reopen", "xcount", "xmark"}

(* The steps of flush_all_pending that run under the flush lock.           *)
Flushing == {"snapshot", "next", "mark", "send", "unmark", "count", "wait",
             "accept", "check", "reopen", "xcount", "xlook", "xmark"}

Labels == Rewrites \cup Flushing \cup {"off", "connect", "discover", "idle", "lock"}

Connected(p) == pc[p] \in Flushing \cup {"discover", "idle", "lock"}

Init ==
    /\ queue = EmptyFile /\ asked = <<>> /\ flock = NoProc
    /\ pc   = [p \in Procs |-> "off"] /\ cmd = [p \in Procs |-> "none"]
    /\ open = [p \in Procs |-> FALSE] /\ buf = [p \in Procs |-> EmptyFile]
    /\ todo = [p \in Procs |-> {}]    /\ cur = [p \in Procs |-> 0]
    /\ seen = [p \in Procs |-> "none"]
    /\ msg  = [p \in Procs |-> 0]     /\ answer = [p \in Procs |-> "none"]
    /\ fresh = [p \in Procs |-> FALSE]
    /\ log = <<>> /\ requests = {} /\ replies = {} /\ paid = {}
    /\ sends = [i \in Ids |-> 0]
    /\ crashes = 0 /\ outages = 0

-----------------------------------------------------------------------------
(* Store operations.                                                       *)

Goto(p, label) == pc' = [pc EXCEPT ![p] = label]

Exit(p) == Goto(p, "off") /\ cmd' = [cmd EXCEPT ![p] = "none"]

(* _load(): the whole file, into memory.                                   *)
Load(p) ==
    /\ pc[p] \in Rewrites /\ ~open[p]
    /\ open' = [open EXCEPT ![p] = TRUE]
    /\ buf' = [buf EXCEPT ![p] = queue]
    /\ UNCHANGED <<disk, flock, pc, cmd, flush, waiting, fresh, net, env>>

(* _save(): replace the file, but only by operations that found something  *)
(* to change.                                                              *)
Save(p, changed, contents) ==
    /\ open[p]
    /\ queue' = IF changed THEN contents ELSE queue
    /\ open' = [open EXCEPT ![p] = FALSE]
    /\ buf' = [buf EXCEPT ![p] = EmptyFile]

SaveStatus(p, status) ==
    Save(p, Present(buf[p], cur[p]), SetStatus(buf[p], cur[p], status))

-----------------------------------------------------------------------------
(* Processes: start, recovery, the one-shot commands, the end.             *)

(* Every command builds an IntentStore, whose constructor recovers.        *)
Start(p, c) ==
    /\ pc[p] = "off" /\ c \in Commands
    /\ cmd' = [cmd EXCEPT ![p] = c]
    /\ Goto(p, "recover")
    /\ UNCHANGED <<disk, flock, file, flush, waiting, fresh, net, env>>

Recover(p) ==
    /\ pc[p] = "recover"
    /\ Save(p, \E i \in Ids : buf[p][i].status = "sending", RecoverSending(buf[p]))
    /\ IF cmd[p] = "list"
       THEN Exit(p)
       ELSE /\ Goto(p, IF cmd[p] \in {"flush", "listen"} THEN "connect" ELSE cmd[p])
            /\ UNCHANGED cmd
    /\ UNCHANGED <<asked, flock, flush, waiting, fresh, net, env>>

(* A duplicate raises ValueError and nothing is saved.                     *)
Add(p) ==
    /\ pc[p] = "add"
    /\ \E what \in Payments :
         \/ /\ IsDuplicate(buf[p], asked, what)
            /\ Save(p, FALSE, EmptyFile) /\ UNCHANGED asked
         \/ /\ ~IsDuplicate(buf[p], asked, what)
            /\ Len(asked) < MaxIntents
            /\ asked' = Append(asked, what)
            /\ Save(p, TRUE, WithNew(buf[p], Len(asked) + 1))
         \/ /\ Len(asked) = MaxIntents      \* the bound, not the code
            /\ Save(p, FALSE, EmptyFile) /\ UNCHANGED asked
    /\ Exit(p)
    /\ UNCHANGED <<flock, flush, waiting, fresh, net, env>>

Remove(p) ==
    /\ pc[p] = "remove"
    /\ \E i \in Ids : Save(p, Present(buf[p], i), Without(buf[p], i))
    /\ Exit(p)
    /\ UNCHANGED <<asked, flock, flush, waiting, fresh, net, env>>

Clear(p) ==
    /\ pc[p] = "clear"
    /\ \E statuses \in {{s} : s \in Status} \cup {Status} :
         Save(p, TRUE, Cleared(buf[p], statuses))
    /\ Exit(p)
    /\ UNCHANGED <<asked, flock, flush, waiting, fresh, net, env>>

\* Mutant: the end of any process releases the flush lock.
CrashFreesLock(p) ==
    /\ pc[p] # "off" /\ crashes < MaxCrashes
    /\ crashes' = crashes + 1
    /\ Exit(p)
    /\ flock' = NoProc
    /\ open' = [open EXCEPT ![p] = FALSE] /\ buf' = [buf EXCEPT ![p] = EmptyFile]
    /\ todo' = [todo EXCEPT ![p] = {}] /\ cur' = [cur EXCEPT ![p] = 0]
    /\ seen' = [seen EXCEPT ![p] = "none"]
    /\ msg' = [msg EXCEPT ![p] = 0] /\ answer' = [answer EXCEPT ![p] = "none"]
    /\ fresh' = [fresh EXCEPT ![p] = FALSE]
    /\ UNCHANGED <<disk, net, outages>>

(* A process may end at any point: its memory is gone, the kernel drops    *)
(* its flock, and what it had not renamed into place is not in the file.   *)
Crash(p) ==
    /\ pc[p] # "off" /\ crashes < MaxCrashes
    /\ crashes' = crashes + 1
    /\ Exit(p)
    /\ flock' = IF flock = p THEN NoProc ELSE flock
    /\ open' = [open EXCEPT ![p] = FALSE] /\ buf' = [buf EXCEPT ![p] = EmptyFile]
    /\ todo' = [todo EXCEPT ![p] = {}] /\ cur' = [cur EXCEPT ![p] = 0]
    /\ seen' = [seen EXCEPT ![p] = "none"]
    /\ msg' = [msg EXCEPT ![p] = 0] /\ answer' = [answer EXCEPT ![p] = "none"]
    /\ fresh' = [fresh EXCEPT ![p] = FALSE]
    /\ UNCHANGED <<disk, net, outages>>

-----------------------------------------------------------------------------
(* Gateway discovery, as far as a flush depends on it.                     *)

(* `queue flush` with nothing pending ends before it connects.             *)
Connect(p) ==
    /\ pc[p] = "connect"
    /\ IF cmd[p] = "flush" /\ PendingIn(queue) = {}
       THEN Exit(p)
       ELSE Goto(p, "discover") /\ UNCHANGED cmd
    /\ UNCHANGED <<disk, flock, file, flush, waiting, fresh, net, env>>

(* With --gateway-node the command does not wait for a beacon; with        *)
(* --auto-discover it goes on after one, or gives up.                      *)
Discovered(p) ==
    /\ pc[p] = "discover"
    /\ Goto(p, IF cmd[p] = "listen" THEN "idle" ELSE "lock")
    /\ UNCHANGED <<disk, flock, cmd, file, flush, waiting, fresh, net, env>>

GiveUp(p) ==
    /\ pc[p] = "discover" /\ ~fresh[p] /\ outages < MaxOutages
    /\ outages' = outages + 1
    /\ Exit(p)
    /\ UNCHANGED <<disk, flock, file, flush, waiting, fresh, net, crashes>>

(* The daemon, discovering or idle, has something to flush.                *)
CanFlush(p) ==
    /\ cmd[p] = "listen" /\ pc[p] \in {"discover", "idle"}
    /\ PendingIn(queue) # {}

\* Mutant: only the beacon that brings the gateway back starts a flush.
BeaconEdge(p) ==
    /\ Connected(p)
    /\ fresh' = [fresh EXCEPT ![p] = TRUE]
    /\ Goto(p, IF CanFlush(p) /\ ~fresh[p] THEN "lock" ELSE pc[p])
    /\ UNCHANGED <<disk, flock, cmd, file, flush, waiting, net, env>>

(* A beacon refreshes last_seen and, in the daemon, starts a flush if      *)
(* something is pending and no flush of this process is under way.         *)
Beacon(p) ==
    /\ Connected(p)
    /\ fresh' = [fresh EXCEPT ![p] = TRUE]
    /\ Goto(p, IF CanFlush(p) THEN "lock" ELSE pc[p])
    /\ UNCHANGED <<disk, flock, cmd, file, flush, waiting, net, env>>

Stale(p) ==
    /\ fresh[p] /\ outages < MaxOutages
    /\ outages' = outages + 1
    /\ fresh' = [fresh EXCEPT ![p] = FALSE]
    /\ UNCHANGED <<disk, flock, pc, cmd, file, flush, waiting, net, crashes>>

-----------------------------------------------------------------------------
(* flush_all_pending.                                                      *)

Lock(p) ==
    /\ pc[p] = "lock" /\ flock = NoProc
    /\ flock' = p
    /\ Goto(p, "snapshot")
    /\ UNCHANGED <<disk, cmd, file, flush, waiting, fresh, net, env>>

Snapshot(p) ==
    /\ pc[p] = "snapshot"
    /\ todo' = [todo EXCEPT ![p] = PendingIn(queue)]
    /\ Goto(p, "next")
    /\ UNCHANGED <<disk, flock, cmd, file, cur, seen, waiting, fresh, net, env>>

Oldest(ids) == {i \in ids : \A j \in ids : i <= j}

(* Without a passphrase for the wallet the intent is skipped.              *)
Skip(p) ==
    /\ pc[p] = "next"
    /\ \E i \in Oldest(todo[p]) :
         /\ asked[i] \notin Unlocked
         /\ todo' = [todo EXCEPT ![p] = @ \ {i}]
    /\ UNCHANGED <<disk, flock, pc, cmd, file, cur, seen, waiting, fresh, net, env>>

Begin(p) ==
    /\ pc[p] = "next" /\ fresh[p]
    /\ \E i \in Oldest(todo[p]) :
         /\ asked[i] \in Unlocked
         /\ cur' = [cur EXCEPT ![p] = i]
         /\ todo' = [todo EXCEPT ![p] = @ \ {i}]
    /\ Goto(p, "mark")
    /\ UNCHANGED <<disk, flock, cmd, file, seen, waiting, fresh, net, env>>

(* The loop ends, or breaks because the gateway is offline; the lock is    *)
(* released.                                                               *)
Finish(p) ==
    /\ pc[p] = "next"
    /\ todo[p] = {} \/ (~fresh[p] /\ \E i \in Oldest(todo[p]) : asked[i] \in Unlocked)
    /\ todo' = [todo EXCEPT ![p] = {}]
    /\ flock' = NoProc
    /\ IF cmd[p] = "listen"
       THEN Goto(p, "idle") /\ UNCHANGED <<cmd, fresh>>
       ELSE Exit(p) /\ fresh' = [fresh EXCEPT ![p] = FALSE]
    /\ UNCHANGED <<disk, file, cur, seen, waiting, net, env>>

-----------------------------------------------------------------------------
(* flush_intent.                                                           *)

(* After an intent: back to the loop.                                      *)
Done(p) == Goto(p, "next") /\ cur' = [cur EXCEPT ![p] = 0]

\* Mutant: the status is not written before the dispatch.
MarkNothing(p) ==
    /\ pc[p] = "mark"
    /\ Save(p, FALSE, EmptyFile)
    /\ Goto(p, "send")
    /\ UNCHANGED <<asked, flock, cmd, flush, waiting, fresh, net, env>>

MarkSending(p) ==
    /\ pc[p] = "mark"
    /\ SaveStatus(p, "sending")
    /\ Goto(p, "send")
    /\ UNCHANGED <<asked, flock, cmd, flush, waiting, fresh, net, env>>

(* The signed request: whose it is and what it pays for; the mesh carries  *)
(* it under a message id not used before.                                  *)
NewRequest(p) == [by |-> p, intent |-> cur[p]]

(* request_transfer and its siblings put the request on the air.  A radio  *)
(* error is logged, no more: the request is then one that never arrives.   *)
Dispatch(p) ==
    LET n == Len(log) + 1
    IN  /\ pc[p] = "send" /\ n <= MaxMsgs
        /\ log' = Append(log, NewRequest(p))
        /\ requests' = requests \cup {n}
        /\ sends' = [sends EXCEPT ![cur[p]] = @ + 1]
        /\ msg' = [msg EXCEPT ![p] = n]
        /\ Goto(p, "count")
        /\ UNCHANGED <<disk, flock, cmd, file, flush, answer, fresh, replies, paid, env>>

(* No blockhash (fetch_blockhash timed out), or no gateway id, connection  *)
(* or wallet.                                                              *)
NotReady(p) == "raise" \in Faults /\ Goto(p, "xcount")

(* AES-GCM rejects the passphrase: that does not count as an attempt.      *)
WrongPassphrase(p) == "wrong_passphrase" \in Faults /\ Goto(p, "unmark")

(* The dispatch raises before anything is transmitted.                     *)
DispatchRaises(p) ==
    /\ pc[p] = "send"
    /\ NotReady(p) \/ WrongPassphrase(p)
    /\ UNCHANGED <<disk, flock, cmd, file, flush, waiting, fresh, net, env>>

Unmark(p) ==
    /\ pc[p] = "unmark"
    /\ SaveStatus(p, "pending")
    /\ Done(p)
    /\ UNCHANGED <<asked, flock, cmd, todo, seen, waiting, fresh, net, env>>

CountAttempt(p) ==
    /\ pc[p] \in {"count", "xcount"}
    /\ Save(p, Present(buf[p], cur[p]), IncrementAttempts(buf[p], cur[p]))
    /\ Goto(p, IF pc[p] = "count" THEN "wait" ELSE "xlook")
    /\ UNCHANGED <<asked, flock, cmd, flush, waiting, fresh, net, env>>

(* The except branch reads the status back and writes that status again.   *)
LookBack(p) ==
    /\ pc[p] = "xlook"
    /\ seen' = [seen EXCEPT ![p] =
                  IF Present(queue, cur[p]) THEN queue[cur[p]].status ELSE "pending"]
    /\ Goto(p, "xmark")
    /\ UNCHANGED <<disk, flock, cmd, file, todo, cur, waiting, fresh, net, env>>

WriteBack(p) ==
    /\ pc[p] = "xmark"
    /\ SaveStatus(p, seen[p])
    /\ seen' = [seen EXCEPT ![p] = "none"]
    /\ Done(p)
    /\ UNCHANGED <<asked, flock, cmd, todo, waiting, fresh, net, env>>

\* Mutant: a timeout is left behind as a result.
StopWaitingBadly(p) ==
    msg' = [msg EXCEPT ![p] = 0] /\ answer' = [answer EXCEPT ![p] = "timeout"]

(* wait_for_result: an answer that is there wins over the timeout.         *)
StopWaiting(p) == msg' = [msg EXCEPT ![p] = 0] /\ answer' = [answer EXCEPT ![p] = "none"]

\* Mutant: no answer is taken for a good one.
WaitOverHopeful(p) ==
    /\ pc[p] = "wait"
    /\ Goto(p, IF answer[p] = "fail" THEN "check" ELSE "accept")
    /\ StopWaiting(p)
    /\ UNCHANGED <<disk, flock, cmd, file, flush, fresh, net, env>>

WaitOver(p) ==
    /\ pc[p] = "wait"
    /\ Goto(p, IF answer[p] = "ok" THEN "accept" ELSE "check")
    /\ StopWaiting(p)
    /\ UNCHANGED <<disk, flock, cmd, file, flush, fresh, net, env>>

Accept(p) ==
    /\ pc[p] = "accept"
    /\ SaveStatus(p, "sent")
    /\ Done(p)
    /\ UNCHANGED <<asked, flock, cmd, todo, seen, waiting, fresh, net, env>>

\* Mutant: a FAILED intent is reopened too.
ReopensAlways(p) == queue[cur[p]].status # "none"

(* Failure or timeout: PENDING again, unless the attempt was the last.     *)
NeedsReopening(p) == queue[cur[p]].status \notin {"none", "failed"}

\* Mutant: a failure or a timeout leaves the status alone.
CheckNothing(p) ==
    /\ pc[p] = "check"
    /\ Done(p)
    /\ UNCHANGED <<disk, flock, cmd, file, todo, seen, waiting, fresh, net, env>>

Check(p) ==
    /\ pc[p] = "check"
    /\ IF NeedsReopening(p) THEN Goto(p, "reopen") /\ UNCHANGED cur ELSE Done(p)
    /\ UNCHANGED <<disk, flock, cmd, file, todo, seen, waiting, fresh, net, env>>

Reopen(p) ==
    /\ pc[p] = "reopen"
    /\ SaveStatus(p, "pending")
    /\ Done(p)
    /\ UNCHANGED <<asked, flock, cmd, todo, seen, waiting, fresh, net, env>>

-----------------------------------------------------------------------------
(* The gateway and the mesh.  A request reaches the gateway at most once,  *)
(* at any time or never; so does a reply.                                  *)

Answer(n, ok) ==
    /\ requests' = requests \ {n}
    /\ replies' = replies \cup {[msg |-> n, ok |-> ok]}
    /\ UNCHANGED <<disk, flock, pc, cmd, file, flush, waiting, fresh, log, sends, env>>

(* NACK: rate limited, unauthorized, over the limit, RPC failure.          *)
Refuse(n) == n \in requests /\ Answer(n, FALSE) /\ UNCHANGED paid

(* The RPC node takes the transaction; the call may still raise, and then  *)
(* the gateway reports a failure.                                          *)
Pay(n) ==
    /\ n \in requests
    /\ paid' = paid \cup {n}
    /\ \E ok \in BOOLEAN : Answer(n, ok)

\* Mutant: any result is taken for the one the process waits for.
HearAny(r) ==
    LET p == log[r.msg].by
    IN  /\ r \in replies
        /\ replies' = replies \ {r}
        /\ answer' = IF msg[p] # 0
                     THEN [answer EXCEPT ![p] = IF r.ok THEN "ok" ELSE "fail"]
                     ELSE answer
        /\ UNCHANGED <<disk, flock, pc, cmd, file, flush, msg, fresh,
                       log, requests, paid, sends, env>>

(* TX_RESULT or NACK: stored by message id; only the id the process waits  *)
(* for is ever read.                                                       *)
Hear(r) ==
    LET p == log[r.msg].by
    IN  /\ r \in replies
        /\ replies' = replies \ {r}
        /\ answer' = IF msg[p] = r.msg
                     THEN [answer EXCEPT ![p] = IF r.ok THEN "ok" ELSE "fail"]
                     ELSE answer
        /\ UNCHANGED <<disk, flock, pc, cmd, file, flush, msg, fresh,
                       log, requests, paid, sends, env>>

-----------------------------------------------------------------------------

Step(p) ==
    \/ Load(p) \/ Recover(p) \/ Add(p) \/ Remove(p) \/ Clear(p)
    \/ Connect(p) \/ Discovered(p)
    \/ Lock(p) \/ Snapshot(p) \/ Skip(p) \/ Begin(p) \/ Finish(p)
    \/ MarkSending(p) \/ Dispatch(p) \/ DispatchRaises(p) \/ Unmark(p)
    \/ CountAttempt(p) \/ LookBack(p) \/ WriteBack(p)
    \/ WaitOver(p) \/ Accept(p) \/ Check(p) \/ Reopen(p)

Next ==
    \/ \E p \in Procs : Step(p)
    \/ \E p \in Procs, c \in Commands : Start(p, c)
    \/ \E p \in Procs : Crash(p) \/ GiveUp(p) \/ Beacon(p) \/ Stale(p)
    \/ \E n \in requests : Refuse(n) \/ Pay(n)
    \/ \E r \in replies : Hear(r)

Spec == Init /\ [][Next]_vars

(* A running process goes on; a gateway that is up keeps beaconing, and    *)
(* some of its beacons arrive; and someone who leaves payments in the      *)
(* queue sooner or later runs the daemon.  Requests and answers may all be *)
(* lost.                                                                   *)
FairSpec ==
    /\ Spec
    /\ \A p \in Procs : WF_vars(Step(p)) /\ WF_vars(Beacon(p)) /\ SF_vars(Start(p, "listen"))

-----------------------------------------------------------------------------
(* Correctness.                                                            *)

Messages == [by : Procs, intent : Ids]

(* Type invariant of the queue file, the processes and the mesh.           *)
TypeOK ==
    /\ queue \in Files /\ asked \in Seq(Payments)
    /\ flock \in Procs \cup {NoProc}
    /\ pc \in [Procs -> Labels] /\ cmd \in [Procs -> Commands \cup {"none"}]
    /\ open \in [Procs -> BOOLEAN] /\ buf \in [Procs -> Files]
    /\ todo \in [Procs -> SUBSET Ids] /\ cur \in [Procs -> Ids \cup {0}]
    /\ seen \in [Procs -> Status \cup {"none"}]
    /\ msg \in [Procs -> Msgs \cup {0}]
    /\ answer \in [Procs -> {"none", "ok", "fail"}]
    /\ fresh \in [Procs -> BOOLEAN]
    /\ log \in Seq(Messages) /\ Len(log) <= MaxMsgs
    /\ requests \subseteq 1..Len(log) /\ paid \subseteq 1..Len(log)
    /\ replies \subseteq [msg : 1..Len(log), ok : BOOLEAN]
    /\ sends \in [Ids -> Nat]
    /\ crashes \in Nat /\ outages \in Nat

(* An intent is SENT in the file only if the gateway has paid for one of   *)
(* the requests made for that very intent, whatever the processes, the     *)
(* crashes and the mesh did (flush_intent's SENT branch).                  *)
PaidFor(i) == \E n \in paid : log[n].intent = i
SentMeansPaid == \A i \in Ids : queue[i].status = "sent" => PaidFor(i)

(* An intent is transmitted at most max_attempts times, plus once for      *)
(* every crash: a crash between the transmission and increment_attempts    *)
(* loses the count (constants.py:22 calls it "max end-to-end send          *)
(* attempts per queued intent").                                           *)
SendsBounded == \A i \in Ids : sends[i] <= MaxAttempts + crashes

(* A request leaves only while the file says SENDING, so that whatever     *)
(* stops the process, the next start finds the intent (_recover_sending).  *)
TransmitOnlyMarked ==
    \A p \in Procs : pc[p] \in {"send", "count"} => queue[cur[p]].status = "sending"

(* An intent is orphaned when it is SENDING although no flush is at it:    *)
(* pending_intents does not return it before a process recovers again.     *)
Orphaned(i) ==
    /\ queue[i].status = "sending"
    /\ \A p \in Procs : cur[p] # i
    /\ \E p \in Procs : pc[p] \notin {"off", "recover"}

(* SENDING is always somebody's (client.py:470 and README.md:188).         *)
SendingHasOwner == \A i \in Ids : ~Orphaned(i)

(* Whatever crash, timeout or failure a process meets, an intent is        *)
(* orphaned by one step only: the except branch of flush_intent, which     *)
(* writes SENDING back after a dispatch that raised.                       *)
OrphanedOnlyByRaise ==
    [][\A i \in Ids : Orphaned(i)' =>
          Orphaned(i) \/ \E p \in Procs : pc[p] = "xmark" /\ cur[p] = i
      ]_vars

(* Two intents that may still be sent never ask for the same payment       *)
(* (_is_duplicate looks at PENDING only; recovery and reopening must not   *)
(* bring a twin back).                                                     *)
NoOpenTwins ==
    \A i, j \in Ids :
        /\ queue[i].status \in {"pending", "sending"}
        /\ queue[j].status \in {"pending", "sending"}
        /\ asked[i] = asked[j]
        => i = j

(* The file never forgets: attempts are not uncounted, SENT is left only   *)
(* by removal, FAILED only by removal or a success heard after all.        *)
NeverForgets ==
    [][\A i \in Ids :
         Present(queue, i) /\ Present(queue, i)' =>
             /\ queue'[i].attempts >= queue[i].attempts
             /\ queue[i].status = "sent" => queue'[i].status = "sent"
             /\ queue[i].status = "failed" => queue'[i].status \in {"failed", "sent"}
      ]_vars

(* Every pending payment the daemon can sign for is settled or withdrawn,  *)
(* however many transfer requests, answers and blockhashes are lost, or is *)
(* orphaned: no blockhash is an exception, which is all that can keep it   *)
(* from being settled, and that only until the next process recovers.      *)
(* Beacons are assumed to keep coming (FairSpec).                          *)
EventuallySettled ==
    \A i \in Ids :
        (queue[i].status = "pending" /\ asked[i] \in Unlocked)
            ~> queue[i].status \in {"sent", "failed", "none"} \/ Orphaned(i)

(* Two flushes never run at once, in one process or in two (flush_lock).   *)
FlushExclusive ==
    \A p, q \in Procs : pc[p] \in Flushing /\ pc[q] \in Flushing => p = q

(* The abstract queue: PENDING and SENDING are one state, `open`.          *)
Entry ==
    [i \in Ids |-> [state |-> IF queue[i].status \in {"pending", "sending"}
                              THEN "open" ELSE queue[i].status,
                    tries |-> queue[i].attempts]]

Promise == INSTANCE PaymentQueue WITH entry <- Entry

(* Used by one command at a time, the file is the queue that was promised. *)
KeepsPromise == Promise!Spec

(* README.md:304: flock "for inter-process safety": SENT stays SENT.       *)
SentIsFinal ==
    [][\A i \in Ids : queue[i].status = "sent" => queue'[i] \in {queue[i], Absent}]_vars

=============================================================================
