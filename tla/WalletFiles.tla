------------------------------ MODULE WalletFiles ------------------------------
(***************************************************************************)
(* One wallet's file and the commands that use it, each a process of its   *)
(* own.  Nothing is locked: a creation checks that there is no file, opens *)
(* and truncates it, and writes it, in three steps; a deletion checks and  *)
(* unlinks.  What has been opened is an inode, which may be gone from the  *)
(* directory when it is written.                                           *)
(***************************************************************************)
EXTENDS Integers, Sequences

CONSTANTS
    Procs,          \* processes
    Keys,           \* keypairs a creation may make, derive or be given
    Size,           \* length of the file that holds one
    MaxInodes,      \* bound: files created
    MaxCrashes      \* bound: processes killed

ASSUME WalletFilesAssumption ==
    /\ Size \in [Keys -> Nat \ {0}]
    /\ MaxInodes \in Nat /\ MaxCrashes \in Nat
    /\ {"empty", "garbled"} \cap Keys = {}

VARIABLES
    pc,         \* where each command has got to
    key,        \* the keypair it creates
    fd,         \* the inode it has open
    path,       \* the inode of the wallet's file, 0 if there is none
    content,    \* of each inode ever created
    inodes,     \* how many there are
    crashes,
    alone,      \* whether nothing came between the steps of a creation
    raced,      \* whether two creations have ever overlapped
    safe,       \* wallets whose creation was alone and reported success
    unlinked    \* inodes removed by a deletion

files  == <<path, content, inodes>>
ghosts == <<alone, raced, safe, unlinked>>
vars   == <<pc, key, fd, files, crashes, ghosts>>

Init ==
    /\ pc = [p \in Procs |-> "idle"] /\ fd = [p \in Procs |-> 0]
    /\ key \in [Procs -> Keys]
    /\ path = 0 /\ content = <<>> /\ inodes = 0
    /\ crashes = 0
    /\ alone = [p \in Procs |-> FALSE] /\ raced = FALSE
    /\ safe = {} /\ unlinked = {}

Exists == path # 0

Goto(p, place) == pc' = [pc EXCEPT ![p] = place]

-----------------------------------------------------------------------------
(* create_wallet, create_wallet_with_mnemonic, recover_wallet,             *)
(* import_wallet.                                                          *)

Creating(p) == pc[p] \in {"save", "write"}

(* The keypair is made, derived from a mnemonic, or given.                 *)
StartCreation(p) ==
    /\ pc[p] = "idle" /\ Goto(p, "save")
    /\ \E k \in Keys : key' = [key EXCEPT ![p] = k]
    /\ alone' = [q \in Procs |->
                    IF q = p THEN \A o \in Procs : ~Creating(o)
                    ELSE alone[q] /\ ~Creating(q)]
    /\ raced' = (raced \/ \E o \in Procs : Creating(o))
    /\ UNCHANGED <<fd, files, crashes, safe, unlinked>>

\* Mutant: one of the four does not look whether there is a file.
CheckNothing(p) == StartCreation(p)

Check(p) == ~Exists /\ StartCreation(p)

\* Mutant: the file is opened before the passphrase is looked at.
RaiseLate(p) ==
    /\ Creating(p)
    /\ Goto(p, "idle")
    /\ fd' = [fd EXCEPT ![p] = 0]
    /\ UNCHANGED <<key, files, crashes, ghosts>>

(* An empty passphrase.                                                    *)
Raise(p) ==
    /\ pc[p] = "save"
    /\ Goto(p, "idle")
    /\ UNCHANGED <<key, fd, files, crashes, ghosts>>

(* O_TRUNC if there is a file, O_CREAT otherwise.                          *)
Open(p) ==
    /\ pc[p] = "save" /\ Goto(p, "write")
    /\ IF Exists
       THEN content' = [content EXCEPT ![path] = "empty"] /\ UNCHANGED <<path, inodes>>
       ELSE /\ inodes < MaxInodes
            /\ inodes' = inodes + 1 /\ path' = inodes'
            /\ content' = Append(content, "empty")
    /\ fd' = [fd EXCEPT ![p] = path']
    /\ UNCHANGED <<key, crashes, ghosts>>

(* Written from its start, a file keeps the end of anything longer.        *)
Over(k, old) == IF old = "empty" \/ (old \in Keys /\ Size[old] <= Size[k]) THEN k ELSE "garbled"

\* Mutant: the descriptor outlives the write.
WriteUnclosed(p) ==
    /\ pc[p] = "write" /\ Goto(p, "idle")
    /\ content' = [content EXCEPT ![fd[p]] = Over(key[p], @)]
    /\ UNCHANGED <<key, fd, path, inodes, crashes, ghosts>>

Write(p) ==
    /\ pc[p] = "write" /\ Goto(p, "idle")
    /\ content' = [content EXCEPT ![fd[p]] = Over(key[p], @)]
    /\ fd' = [fd EXCEPT ![p] = 0]
    /\ safe' = IF alone[p] THEN safe \cup {[inode |-> fd[p], key |-> key[p]]} ELSE safe
    /\ UNCHANGED <<key, path, inodes, crashes, alone, raced, unlinked>>

-----------------------------------------------------------------------------
(* delete_wallet.                                                          *)

CheckDelete(p) ==
    /\ pc[p] = "idle" /\ Exists
    /\ Goto(p, "unlink")
    /\ UNCHANGED <<key, fd, files, crashes, ghosts>>

(* The file may be gone meanwhile: FileNotFoundError.                      *)
Unlink(p) ==
    /\ pc[p] = "unlink" /\ Goto(p, "idle")
    /\ path' = 0
    /\ unlinked' = IF Exists THEN unlinked \cup {path} ELSE unlinked
    /\ alone' = [q \in Procs |-> alone[q] /\ ~Creating(q)]
    /\ UNCHANGED <<key, fd, content, inodes, crashes, raced, safe>>

(* A process is killed, and its place taken by a later command.            *)
Crash(p) ==
    /\ pc[p] # "idle" /\ crashes < MaxCrashes
    /\ crashes' = crashes + 1
    /\ Goto(p, "idle")
    /\ fd' = [fd EXCEPT ![p] = 0]
    /\ UNCHANGED <<key, files, ghosts>>

Next ==
    \E p \in Procs :
        \/ Check(p) \/ Raise(p) \/ Open(p) \/ Write(p)
        \/ CheckDelete(p) \/ Unlink(p) \/ Crash(p)

Spec == Init /\ [][Next]_vars

-----------------------------------------------------------------------------
(* Correctness.                                                            *)

(* What load_keypair, get_pubkey and list_wallets find.                    *)
Readable == content[path] \in Keys

(* Type invariant of the processes, the directory and the files.           *)
TypeOK ==
    /\ pc \in [Procs -> {"idle", "save", "write", "unlink"}]
    /\ key \in [Procs -> Keys]
    /\ inodes \in 0..MaxInodes /\ path \in 0..inodes
    /\ fd \in [Procs -> 0..inodes] /\ \A p \in Procs : pc[p] = "write" <=> fd[p] # 0
    /\ content \in [1..inodes -> Keys \cup {"empty", "garbled"}]
    /\ alone \in [Procs -> BOOLEAN] /\ raced \in BOOLEAN /\ crashes \in 0..MaxCrashes
    /\ safe \subseteq [inode : 1..inodes, key : Keys] /\ unlinked \subseteq 1..inodes

(* A wallet whose creation reported success, with no other creation or     *)
(* deletion of that name between its steps, is there with its key until it *)
(* is deleted, whatever is created, killed or refused after it.            *)
NoWalletLost ==
    \A w \in safe : w.inode \in unlinked \/ (path = w.inode /\ content[path] = w.key)

(* A file that cannot be read (and that makes list_wallets raise for every *)
(* wallet) is being written, or a crash or a race has left it behind; it   *)
(* is never what a refused command leaves.                                 *)
BrokenOnlyByAccident ==
    Exists /\ ~Readable =>
        (\E p \in Procs : fd[p] = path) \/ crashes > 0 \/ raced

=============================================================================
