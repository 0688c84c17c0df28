--------------------------- MODULE WalletFilesProofs ---------------------------
(***************************************************************************)
(* Proofs about WalletFiles, for any number of processes, keys of any      *)
(* length and any number of kills: what one command alone has created      *)
(* stays, and what cannot be read is the trace of a kill or a race.        *)
(***************************************************************************)
EXTENDS WalletFiles, TLAPS

(* While a wallet is being created, none that was safe is left.            *)
NothingToLose ==
    \A p \in Procs : Creating(p) => \A w \in safe : w.inode \in unlinked

(* A creation that has company is not alone, and one that is alone finds   *)
(* no file, and then an empty one that is its own.                         *)
Company ==
    \A p, q \in Procs : p # q /\ Creating(p) /\ Creating(q) => ~alone[p] /\ raced

Untouched ==
    \A p \in Procs :
        /\ alone[p] /\ pc[p] = "save" => path = 0
        /\ alone[p] /\ pc[p] = "write" => path = fd[p]
        /\ (alone[p] \/ ~raced) /\ pc[p] = "write" => content[fd[p]] = "empty"

Inv ==
    /\ TypeOK /\ NothingToLose /\ Company /\ Untouched
    /\ NoWalletLost /\ BrokenOnlyByAccident

-----------------------------------------------------------------------------

(* Initially there is no file.                                             *)
LEMMA InitInv == Init => Inv
<1> SUFFICES ASSUME Init PROVE Inv
  OBVIOUS
<1>1. TypeOK
  <2>1. <<>> \in [1..0 -> Keys \cup {"empty", "garbled"}]
    OBVIOUS
  <2>2. content \in [1..inodes -> Keys \cup {"empty", "garbled"}]
    BY <2>1, Zenon DEF Init
  <2>3. /\ pc \in [Procs -> {"idle", "save", "write", "unlink"}] /\ key \in [Procs -> Keys]
        /\ fd \in [Procs -> 0..inodes] /\ \A p \in Procs : pc[p] = "write" <=> fd[p] # 0
        /\ inodes \in 0..MaxInodes /\ path \in 0..inodes /\ crashes \in 0..MaxCrashes
    BY WalletFilesAssumption DEF Init
  <2>4. alone \in [Procs -> BOOLEAN] /\ raced \in BOOLEAN
    BY DEF Init
  <2>5. safe \subseteq [inode : 1..inodes, key : Keys] /\ unlinked \subseteq 1..inodes
    BY DEF Init
  <2>6. QED
    BY <2>2, <2>3, <2>4, <2>5 DEF TypeOK
<1>2. NothingToLose /\ Company /\ Untouched
  BY DEF Init, NothingToLose, Company, Untouched, Creating
<1>3. NoWalletLost /\ BrokenOnlyByAccident
  BY DEF Init, NoWalletLost, BrokenOnlyByAccident, Exists
<1>4. QED
  BY <1>1, <1>2, <1>3 DEF Inv

(* Starting: there is no file, so nothing can be lost.                     *)
LEMMA CheckStep == ASSUME Inv, NEW p \in Procs, Check(p) PROVE Inv'
<1> USE DEF Inv
<1>1. /\ path = 0 /\ pc[p] = "idle" /\ pc' = [pc EXCEPT ![p] = "save"]
      /\ alone' = [q \in Procs |-> IF q = p THEN \A o \in Procs : ~Creating(o)
                                   ELSE alone[q] /\ ~Creating(q)]
      /\ raced' = (raced \/ \E o \in Procs : Creating(o))
      /\ UNCHANGED <<fd, path, content, inodes, crashes, safe, unlinked>>
  BY DEF Check, StartCreation, Exists, Goto, files
<1>2. TypeOK'
  BY <1>1 DEF Check, StartCreation, TypeOK
<1>3. NothingToLose' /\ NoWalletLost'
  BY <1>1 DEF NothingToLose, NoWalletLost, TypeOK
<1>4. Company'
  BY <1>1 DEF Company, Creating, TypeOK
<1>5. Untouched'
  BY <1>1 DEF Untouched, Creating, TypeOK
<1>6. BrokenOnlyByAccident'
  BY <1>1 DEF BrokenOnlyByAccident, Exists
<1>7. QED
  BY <1>2, <1>3, <1>4, <1>5, <1>6

(* Refusing, starting a deletion, and being killed leave the files alone.  *)
LEMMA QuietStep ==
    ASSUME Inv, NEW p \in Procs, Raise(p) \/ CheckDelete(p) \/ Crash(p) PROVE Inv'
<1> USE DEF Inv
<1>1. /\ pc' = [pc EXCEPT ![p] = pc'[p]] /\ pc'[p] \in {"idle", "unlink"}
      /\ fd' = [fd EXCEPT ![p] = 0]
      /\ crashes' = crashes \/ crashes' > 0
      /\ UNCHANGED <<key, path, content, inodes, alone, raced, safe, unlinked>>
  <2>1. pc[p] # "write" => fd' = [fd EXCEPT ![p] = 0]
    BY DEF Raise, CheckDelete, Crash, TypeOK
  <2>2. QED
    BY <2>1, WalletFilesAssumption DEF Raise, CheckDelete, Crash, Goto, TypeOK, files, ghosts
<1>2. crashes' \in 0..MaxCrashes
  BY WalletFilesAssumption DEF Raise, CheckDelete, Crash, TypeOK
<1>3. TypeOK'
  <2>1. pc' \in [Procs -> {"idle", "save", "write", "unlink"}]
    BY <1>1 DEF TypeOK
  <2>2. fd' \in [Procs -> 0..inodes] /\ \A q \in Procs : pc'[q] = "write" <=> fd'[q] # 0
    BY <1>1 DEF TypeOK
  <2>3. QED
    BY <1>1, <1>2, <2>1, <2>2 DEF TypeOK
<1>4. NothingToLose' /\ NoWalletLost' /\ Company' /\ Untouched'
  BY <1>1 DEF NothingToLose, NoWalletLost, Company, Untouched, Creating, TypeOK
<1>5. BrokenOnlyByAccident'
  <2>1. CASE Crash(p)
    BY <2>1, WalletFilesAssumption DEF Crash, BrokenOnlyByAccident, TypeOK
  <2>2. CASE Raise(p) \/ CheckDelete(p)
    BY <2>2 DEF Raise, CheckDelete, BrokenOnlyByAccident, Readable, Exists, files, ghosts
  <2>3. QED
    BY <2>1, <2>2
<1>6. QED
  BY <1>3, <1>4, <1>5

(* Opening: what is truncated, if anything, was safe for nobody.           *)
LEMMA OpenStep == ASSUME Inv, NEW p \in Procs, Open(p) PROVE Inv'
<1> USE DEF Inv
<1>1. /\ pc[p] = "save" /\ pc' = [pc EXCEPT ![p] = "write"]
      /\ fd' = [fd EXCEPT ![p] = path'] /\ fd[p] = 0
      /\ UNCHANGED <<key, crashes, alone, raced, safe, unlinked>>
  BY DEF Open, Goto, ghosts, TypeOK
<1>2. /\ path' \in 1..inodes' /\ content'[path'] = "empty"
      /\ inodes' \in 0..MaxInodes /\ inodes <= inodes'
      /\ content' \in [1..inodes' -> Keys \cup {"empty", "garbled"}]
      /\ path # 0 => path' = path
      /\ \A i \in 1..inodes : i # path => content'[i] = content[i]
  <2>1. CASE Exists
    <3>1. /\ path \in 1..inodes /\ inodes \in Nat /\ path' = path /\ inodes' = inodes
          /\ content' = [content EXCEPT ![path] = "empty"]
      BY <2>1, WalletFilesAssumption DEF Open, Exists, TypeOK
    <3>2. QED
      BY <3>1 DEF TypeOK
  <2>2. CASE ~Exists
    <3>1. /\ inodes' = inodes + 1 /\ path' = inodes' /\ inodes < MaxInodes /\ inodes \in Nat
          /\ content' = Append(content, "empty") /\ path = 0
      BY <2>2, WalletFilesAssumption DEF Open, Exists, TypeOK
    <3>2. content \in Seq(Keys \cup {"empty", "garbled"}) /\ Len(content) = inodes
      BY <3>1 DEF TypeOK
    <3>3. /\ content' \in Seq(Keys \cup {"empty", "garbled"}) /\ Len(content') = inodes'
          /\ content'[inodes'] = "empty" /\ \A i \in 1..inodes : content'[i] = content[i]
      BY <3>1, <3>2
    <3>4. content' \in [1..inodes' -> Keys \cup {"empty", "garbled"}]
      BY <3>3
    <3>5. QED
      BY <3>1, <3>3, <3>4, WalletFilesAssumption
  <2>3. QED
    BY <2>1, <2>2
<1>3. TypeOK'
  BY <1>1, <1>2, WalletFilesAssumption DEF TypeOK
<1>4. \A w \in safe : w.inode \in unlinked
  BY <1>1 DEF NothingToLose, Creating
<1>5. NothingToLose' /\ NoWalletLost'
  BY <1>1, <1>4 DEF NothingToLose, NoWalletLost
<1>6. Company'
  BY <1>1 DEF Company, Creating, TypeOK
<1>7. Untouched'
  BY <1>1, <1>2 DEF Untouched, Company, Creating, TypeOK
<1>8. BrokenOnlyByAccident'
  BY <1>1, <1>2 DEF BrokenOnlyByAccident, TypeOK
<1>9. QED
  BY <1>3, <1>5, <1>6, <1>7, <1>8

(* Writing: who was alone writes a whole key into the wallet's file.       *)
LEMMA WriteStep == ASSUME Inv, NEW p \in Procs, Write(p) PROVE Inv'
<1> USE DEF Inv
<1>1. /\ pc[p] = "write" /\ pc' = [pc EXCEPT ![p] = "idle"] /\ fd' = [fd EXCEPT ![p] = 0]
      /\ content' = [content EXCEPT ![fd[p]] = Over(key[p], content[fd[p]])]
      /\ safe' = IF alone[p] THEN safe \cup {[inode |-> fd[p], key |-> key[p]]} ELSE safe
      /\ fd[p] \in 1..inodes /\ key[p] \in Keys
      /\ UNCHANGED <<key, path, inodes, crashes, alone, raced, unlinked>>
  BY DEF Write, Goto, TypeOK
<1>2. /\ content'[fd[p]] \in Keys \cup {"empty", "garbled"}
      /\ content[fd[p]] = "empty" => content'[fd[p]] = key[p]
      /\ \A i \in 1..inodes : i # fd[p] => content'[i] = content[i]
  BY <1>1 DEF Over, TypeOK
<1>3. TypeOK'
  <2>1. content' \in [1..inodes -> Keys \cup {"empty", "garbled"}]
    BY <1>1, <1>2 DEF TypeOK
  <2>2. safe' \subseteq [inode : 1..inodes, key : Keys]
    BY <1>1 DEF TypeOK
  <2>3. QED
    BY <1>1, <2>1, <2>2 DEF TypeOK
<1>4. \A w \in safe : w.inode \in unlinked
  BY <1>1 DEF NothingToLose, Creating
<1>5. NothingToLose'
  BY <1>1, <1>4 DEF NothingToLose, Company, Creating, TypeOK
<1>6. NoWalletLost'
  BY <1>1, <1>2, <1>4 DEF NoWalletLost, Untouched, TypeOK
<1>7. Company'
  BY <1>1 DEF Company, Creating, TypeOK
<1>8. Untouched'
  BY <1>1, <1>2 DEF Untouched, Company, Creating, TypeOK
<1>9. BrokenOnlyByAccident'
  <2>1. SUFFICES ASSUME path # 0, content'[path] \notin Keys, crashes = 0, ~raced
                 PROVE  \E q \in Procs : fd'[q] = path
    BY <1>1, WalletFilesAssumption DEF BrokenOnlyByAccident, Exists, Readable, TypeOK
  <2>2. path # fd[p]
    BY <1>1, <1>2, <2>1 DEF Untouched
  <2>3. content[path] \notin Keys
    BY <1>2, <2>1, <2>2 DEF TypeOK
  <2>4. PICK q \in Procs : fd[q] = path
    BY <2>1, <2>3 DEF BrokenOnlyByAccident, Exists, Readable
  <2>5. QED
    BY <1>1, <2>2, <2>4 DEF TypeOK
<1>10. QED
  BY <1>3, <1>5, <1>6, <1>7, <1>8, <1>9

(* Deleting: nobody whose creation it cuts into stays alone.               *)
LEMMA UnlinkStep == ASSUME Inv, NEW p \in Procs, Unlink(p) PROVE Inv'
<1> USE DEF Inv
<1>1. /\ pc[p] = "unlink" /\ pc' = [pc EXCEPT ![p] = "idle"] /\ path' = 0
      /\ unlinked' = IF path # 0 THEN unlinked \cup {path} ELSE unlinked
      /\ alone' = [q \in Procs |-> alone[q] /\ ~Creating(q)]
      /\ UNCHANGED <<key, fd, content, inodes, crashes, raced, safe>>
  BY DEF Unlink, Goto, Exists
<1>2. TypeOK'
  BY <1>1 DEF TypeOK
<1>3. NothingToLose' /\ NoWalletLost'
  BY <1>1 DEF NothingToLose, NoWalletLost, Creating, TypeOK
<1>4. Company' /\ Untouched'
  BY <1>1 DEF Company, Untouched, Creating, TypeOK
<1>5. BrokenOnlyByAccident'
  BY <1>1 DEF BrokenOnlyByAccident, Exists
<1>6. QED
  BY <1>2, <1>3, <1>4, <1>5

-----------------------------------------------------------------------------

(* The invariant is inductive.                                             *)
LEMMA Invariance == Spec => []Inv
<1>1. Inv /\ Next => Inv'
  BY CheckStep, QuietStep, OpenStep, WriteStep, UnlinkStep DEF Next
<1>2. Inv /\ UNCHANGED vars => Inv'
  BY DEF vars, files, ghosts, Inv, TypeOK, NothingToLose, Company, Untouched, Creating,
         NoWalletLost, BrokenOnlyByAccident, Readable, Exists
<1>3. QED
  BY InitInv, <1>1, <1>2, PTL DEF Spec

(* Type correctness of the processes, the directory and the files.         *)
THEOREM TypeCorrect == Spec => []TypeOK
<1>1. Inv => TypeOK
  BY DEF Inv
<1>2. QED
  BY Invariance, <1>1, PTL

(* A wallet that one command alone created is there until it is deleted.   *)
THEOREM WalletsStay == Spec => []NoWalletLost
<1>1. Inv => NoWalletLost
  BY DEF Inv
<1>2. QED
  BY Invariance, <1>1, PTL

(* Only a crash or a race leaves a file that cannot be read.               *)
THEOREM AccidentsOnly == Spec => []BrokenOnlyByAccident
<1>1. Inv => BrokenOnlyByAccident
  BY DEF Inv
<1>2. QED
  BY Invariance, <1>1, PTL

=============================================================================
