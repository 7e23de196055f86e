-------------------------- MODULE Quarantine_proofs --------------------------
(***************************************************************************)
(* The journal of the quarantine tells the truth of the vault, and no      *)
(* content is lost, through crashes, failed copies and restores that go    *)
(* back.                                                                   *)
(***************************************************************************)
EXTENDS Quarantine, TLAPS

Objects == [file : Nat, content : Nat, single : BOOLEAN]

\* Paths on another volume than the vault: only users put files there.
Away == Paths \ Home

Steps   == {"open", "locked", "clear", "isolate", "move", "copy", "copied", "moved"}
Holding == {"locked", "clear", "isolate", "move", "copy", "copied"}

Seen(i)      == <<i, "seen">> \in records
Intended(i)  == <<i, "intent">> \in records
Committed(i) == <<i, "committed">> \in records

\* The work on i has put its whole content into the vault; it has taken the source away.
Placed(i) == Committed(i) \/ (work.at \in {"copied", "moved"} /\ work.file = i)
Gone(i)   == Committed(i) \/ (work.at = "moved" /\ work.file = i)

Whole(i, object) == object.content # 0 \/ object.file = i

DiskInv ==
    /\ used \in Nat
    /\ disk \in [Paths -> Objects] /\ \A p \in Paths : disk[p] = NoObject \/ disk[p].file \in 1 .. used
    /\ \A q \in Away : disk[q].content = disk[q].file
    /\ \A q \in Away : disk[q].file # 0 =>
         /\ \A p \in Paths \ {q} : disk[p].file # disk[q].file
         /\ \A i \in DOMAIN vault : vault[i].file # disk[q].file

VaultInv ==
    \A i \in DOMAIN vault :
        /\ i \in 1 .. used
        /\ vault[i] \in Objects /\ vault[i].file \in 1 .. used
        /\ Seen(i) /\ Intended(i)

QueueInv ==
    manager # ManagerStopped =>
        /\ "queue" \in DOMAIN manager
        /\ \A c \in manager.queue : c.path \in Paths /\ c.file \in 1 .. used

WorkInv ==
    \/ work = NoWork
    \/ /\ work = [at |-> work.at, path |-> work.path, file |-> work.file]
       /\ work.at \in Steps /\ work.path \in Paths /\ work.file \in 1 .. used
       /\ work.at \in Holding => disk[work.path].file = work.file
       /\ work.at \in {"copy", "copied"} => work.path \in Away
       /\ work.at = "copy" => work.file \in DOMAIN vault /\ vault[work.file].content = 0
       /\ work.at \notin {"open", "locked"} => Seen(work.file)
       /\ work.at \in {"move", "copy", "copied", "moved"} => Intended(work.file)

RestoreInv ==
    restoring # NoWork =>
        /\ restoring = [at |-> restoring.at, path |-> restoring.path, id |-> restoring.id, file |-> restoring.file]
        /\ restoring.path \in Home /\ restoring.id \in 1 .. used /\ restoring.file \in 0 .. used
        /\ Seen(restoring.id) /\ Intended(restoring.id)

\* What is committed is no fragment in the vault, and none goes back to it.
CommitInv ==
    /\ \A i : Committed(i) => i \in 1 .. used
    /\ \A q \in Away : \A i \in 1 .. used : Gone(i) => disk[q].file # i
    /\ \A i \in DOMAIN vault : Placed(i) => Whole(i, vault[i])
    /\ restoring # NoWork /\ Placed(restoring.id) =>
         \/ disk[restoring.path] = NoObject
         \/ Whole(restoring.id, disk[restoring.path])
         \/ restoring.id \in DOMAIN vault

JournalInv == DiskInv /\ VaultInv /\ QueueInv /\ WorkInv /\ RestoreInv /\ CommitInv

\* A content that is at a path but this one, or in the vault.
KeptBeside(c, path) == c \in {disk[p].content : p \in Paths \ {path}} \union {vault[i].content : i \in DOMAIN vault}

\* What the vault, and a restore under way, hold of a file that is still at its path.
CopyOf(i, object, gone) == object.content \in {0, i} \union gone

ContentInv ==
    /\ work.at = "copied" => work.file \in discarded \/ KeptBeside(work.file, work.path)
    /\ \A q \in Away :
         /\ disk[q].file \in DOMAIN vault => CopyOf(disk[q].file, vault[disk[q].file], discarded)
         /\ restoring # NoWork /\ restoring.id = disk[q].file /\ disk[restoring.path].file = restoring.file =>
              CopyOf(disk[q].file, disk[restoring.path], discarded)
    /\ ContentIsKept

LEMMA JournalInvInit == QuarantineInit => JournalInv
<1> SUFFICES ASSUME QuarantineInit PROVE JournalInv
  OBVIOUS
<1> USE DEF QuarantineInit
<1>1. DiskInv
  <2>1. \A p \in Paths : disk[p] = NoObject
    OBVIOUS
  <2>2. NoObject \in Objects /\ NoObject.file = 0 /\ NoObject.content = 0
    BY DEF NoObject, Objects
  <2>3. disk \in [Paths -> Objects] /\ used \in Nat
    BY <2>2
  <2>4. \A q \in Away : disk[q].file = 0 /\ disk[q].content = 0
    BY <2>1, <2>2 DEF Away
  <2> QED
    BY <2>1, <2>3, <2>4 DEF DiskInv
<1>2. VaultInv /\ QueueInv /\ RestoreInv
  BY DEF VaultInv, QueueInv, RestoreInv
<1>3. WorkInv
  BY DEF WorkInv
<1>4. CommitInv
  BY DEF CommitInv, Committed, Gone, Placed, NoWork, NoObject
<1> QED
  BY <1>1, <1>2, <1>3, <1>4 DEF JournalInv

-----------------------------------------------------------------------------
(* Steps that leave the files and the vault as they are                    *)

LEMMA QuietStep ==
    ASSUME JournalInv, disk' = disk, vault' = vault, used' = used, restoring' = restoring, records \subseteq records',
           \A i : Committed(i)' => Gone(i), \A i : Gone(i)' => Gone(i), \A i : Placed(i)' => Placed(i),
           WorkInv', QueueInv'
    PROVE  JournalInv'
<1>1. DiskInv'
  BY DEF JournalInv, DiskInv
<1>2. VaultInv' /\ RestoreInv'
  BY DEF JournalInv, VaultInv, RestoreInv, Seen, Intended
<1>3. \A i : Gone(i) => i \in 1 .. used
  BY DEF JournalInv, CommitInv, WorkInv, Gone, NoWork
<1>4. CommitInv'
  BY <1>3 DEF JournalInv, CommitInv
<1> QED
  BY <1>1, <1>2, <1>4 DEF JournalInv

\* Nothing new is placed or done.
LEMMA NothingPlaced ==
    ASSUME work' = NoWork \/ work'.at \notin {"copied", "moved"},
           \A i : Committed(i)' => Committed(i)
    PROVE  /\ \A i : Committed(i)' => Gone(i)
           /\ \A i : Gone(i)' => Gone(i)
           /\ \A i : Placed(i)' => Placed(i)
BY DEF Gone, Placed, NoWork

\* The work begins with a file that is at its path.
LEMMA OpenIsWork ==
    ASSUME NEW p \in Paths, NEW f \in 1 .. used, used' = used, work' = [at |-> "open", path |-> p, file |-> f]
    PROVE  WorkInv' /\ work'.at = "open"
BY DEF WorkInv, Steps, Holding

LEMMA ManagerSteps ==
    ASSUME JournalInv,
           \/ SetPolicy \/ QuarantineStart \/ ScanPass \/ NextCandidate \/ QuarantineCrash
           \/ \E p \in Paths : ClassifyPending(p)
    PROVE  /\ JournalInv'
           /\ UNCHANGED <<disk, vault, used, restoring, discarded>>
           /\ work'.at = "copied" => work' = work
<1> USE DEF JournalInv
<1>1. CASE SetPolicy
  <2>1. UNCHANGED <<disk, vault, records, manager, work, restoring, used, discarded>>
    BY <1>1 DEF SetPolicy
  <2>2. WorkInv' /\ QueueInv'
    BY <2>1 DEF WorkInv, QueueInv, Seen, Intended
  <2>3. \A i : (Committed(i)' => Committed(i)) /\ (Gone(i)' => Gone(i)) /\ (Placed(i)' => Placed(i))
    BY <2>1 DEF Committed, Gone, Placed
  <2> QED
    BY <2>1, <2>2, <2>3, QuietStep DEF Gone
<1>2. CASE QuarantineStart
  <2>1. UNCHANGED <<disk, vault, records, work, restoring, used, discarded>> /\ "queue" \in DOMAIN manager' /\ manager'.queue = {}
    BY <1>2 DEF QuarantineStart
  <2>2. WorkInv' /\ QueueInv'
    BY <2>1 DEF WorkInv, QueueInv, Seen, Intended
  <2>3. \A i : (Committed(i)' => Committed(i)) /\ (Gone(i)' => Gone(i)) /\ (Placed(i)' => Placed(i))
    BY <2>1 DEF Committed, Gone, Placed
  <2> QED
    BY <2>1, <2>2, <2>3, QuietStep DEF Gone
<1>3. CASE ScanPass
  <2>1. UNCHANGED <<disk, vault, records, work, restoring, used, discarded>>
    BY <1>3 DEF ScanPass
  <2>2. PICK taken \in SUBSET Present :
          "queue" \in DOMAIN manager => manager'.queue = {[path |-> p, file |-> disk[p].file] : p \in taken}
    BY <1>3 DEF ScanPass
  <2>3. DOMAIN manager' = DOMAIN manager /\ manager # ManagerStopped
    BY <1>3 DEF ScanPass
  <2>4. \A p \in Present : p \in Paths /\ disk[p].file \in 1 .. used
    BY DEF Present, DiskInv
  <2>5. WorkInv' /\ QueueInv'
    BY <2>1, <2>2, <2>3, <2>4 DEF WorkInv, QueueInv, Seen, Intended
  <2>6. \A i : (Committed(i)' => Committed(i)) /\ (Gone(i)' => Gone(i)) /\ (Placed(i)' => Placed(i))
    BY <2>1 DEF Committed, Gone, Placed
  <2> QED
    BY <2>1, <2>5, <2>6, QuietStep DEF Gone
<1>4. CASE NextCandidate
  <2>1. UNCHANGED <<disk, vault, records, restoring, used, discarded>> /\ manager # ManagerStopped
    BY <1>4 DEF NextCandidate
  <2>2. PICK c \in manager.queue :
          /\ work' = [at |-> "open", path |-> c.path, file |-> c.file]
          /\ manager' = [manager EXCEPT !.queue = @ \ {c}]
    BY <1>4 DEF NextCandidate
  <2>3. QueueInv' /\ c.path \in Paths /\ c.file \in 1 .. used
    BY <2>1, <2>2 DEF QueueInv
  <2>4. WorkInv' /\ work'.at = "open"
    BY <2>1, <2>2, <2>3, OpenIsWork
  <2>5. \A i : Committed(i)' => Committed(i)
    BY <2>1 DEF Committed
  <2> QED
    BY <2>1, <2>3, <2>4, <2>5, NothingPlaced, QuietStep
<1>5. CASE QuarantineCrash
  <2>1. UNCHANGED <<disk, vault, records, restoring, used, discarded>> /\ manager' = ManagerStopped /\ work' = NoWork
    BY <1>5 DEF QuarantineCrash
  <2>2. WorkInv' /\ QueueInv' /\ work'.at = "idle"
    BY <2>1 DEF WorkInv, QueueInv, ManagerStopped, NoWork
  <2>3. \A i : Committed(i)' => Committed(i)
    BY <2>1 DEF Committed
  <2> QED
    BY <2>1, <2>2, <2>3, NothingPlaced, QuietStep
<1>6. ASSUME NEW p \in Paths, ClassifyPending(p)
      PROVE  /\ JournalInv'
             /\ UNCHANGED <<disk, vault, used, restoring, discarded>>
             /\ work'.at = "copied" => work' = work
  <2>1. UNCHANGED <<disk, vault, records, restoring, used, discarded>> /\ manager # ManagerStopped
    BY <1>6 DEF ClassifyPending
  <2>2. work' = [at |-> "open", path |-> p, file |-> disk[p].file] /\ disk[p].file \in 1 .. used
    BY <1>6 DEF ClassifyPending, Present, DiskInv
  <2>3. QueueInv'
    BY <1>6, <2>1 DEF ClassifyPending, QueueInv
  <2>4. WorkInv' /\ work'.at = "open"
    BY <2>1, <2>2, OpenIsWork
  <2>5. \A i : Committed(i)' => Committed(i)
    BY <2>1 DEF Committed
  <2> QED
    BY <2>1, <2>3, <2>4, <2>5, NothingPlaced, QuietStep
<1> QED
  BY <1>1, <1>2, <1>3, <1>4, <1>5, <1>6

-----------------------------------------------------------------------------
(* classify, as far as it only looks and writes records                    *)

LEMMA QueueStays ==
    ASSUME QueueInv, used' = used,
           \/ manager' = manager
           \/ manager # ManagerStopped /\ DOMAIN manager' = DOMAIN manager /\ manager'.queue = manager.queue
    PROVE  QueueInv'
BY DEF QueueInv

\* The classification gives up, or is over.
LEMMA WorkEnds ==
    ASSUME JournalInv, disk' = disk, vault' = vault, used' = used, restoring' = restoring, records' = records,
           work' = NoWork, QueueInv'
    PROVE  JournalInv' /\ work'.at # "copied"
<1>1. WorkInv' /\ work'.at = "idle"
  BY DEF WorkInv, NoWork
<1>2. \A i : Committed(i)' => Committed(i)
  BY DEF Committed
<1> QED
  BY <1>1, <1>2, NothingPlaced, QuietStep

LEMMA ClearEnds ==
    ASSUME JournalInv, Clear, work # NoWork, UNCHANGED <<stored, disk, vault, records, restoring, used, discarded>>
    PROVE  JournalInv' /\ work'.at # "copied"
<1>1. manager' = [manager EXCEPT !.processed[work.path] = work.file] /\ work' = NoWork
  BY DEF Clear
<1>2. QueueInv'
  <2>1. manager # ManagerStopped => DOMAIN manager' = DOMAIN manager /\ manager'.queue = manager.queue
    BY <1>1 DEF JournalInv, QueueInv
  <2>2. manager = ManagerStopped => manager' = ManagerStopped
    BY <1>1 DEF ManagerStopped
  <2> QED
    BY <2>1, <2>2, QueueStays DEF JournalInv
<1> QED
  BY <1>1, <1>2, WorkEnds

\* A step of the classification that keeps the file and may write a record of it.
LEMMA LookStep ==
    ASSUME JournalInv, manager' = manager, disk' = disk, vault' = vault, used' = used, restoring' = restoring,
           records \subseteq records', \A i : Committed(i)' => Committed(i),
           NEW step \in {"locked", "clear", "isolate", "move"}, Go(step), work # NoWork,
           disk[work.path].file = work.file,
           step # "locked" => Seen(work.file)', step = "move" => Intended(work.file)'
    PROVE  JournalInv' /\ work'.at # "copied"
<1>1. /\ work = [at |-> work.at, path |-> work.path, file |-> work.file]
      /\ work.path \in Paths /\ work.file \in 1 .. used
  BY DEF JournalInv, WorkInv
<1>2. work' = [at |-> step, path |-> work.path, file |-> work.file]
  BY <1>1 DEF Go
<1>3. WorkInv' /\ work'.at = step
  BY <1>1, <1>2 DEF WorkInv, Steps, Holding, Seen, Intended
<1>4. QueueInv'
  BY QueueStays DEF JournalInv
<1> QED
  BY <1>3, <1>4, NothingPlaced, QuietStep

LEMMA LookingSteps ==
    ASSUME JournalInv,
           \/ Retry \/ OpenLocked \/ Bypass \/ Judge \/ SubmitClean \/ WriteIntent \/ Commit
    PROVE  /\ JournalInv'
           /\ UNCHANGED <<disk, vault, used, restoring, discarded>>
           /\ work'.at = "copied" => work' = work
<1>1. ASSUME UNCHANGED <<manager, used>> PROVE QueueInv'
  BY <1>1, QueueStays DEF JournalInv
<1>2. CASE Retry
  BY <1>1, <1>2, WorkEnds DEF Retry
<1>3. CASE OpenLocked
  <2>1. UNCHANGED <<stored, disk, vault, records, manager, restoring, used, discarded>> /\ work # NoWork
    BY <1>3 DEF OpenLocked, NoWork
  <2>2. CASE Go("locked") /\ disk[work.path].file = work.file
    <3>1. records \subseteq records' /\ \A i : Committed(i)' => Committed(i)
      BY <2>1 DEF Committed
    <3> QED
      BY <2>1, <2>2, <3>1, LookStep
  <2>3. CASE work' = NoWork
    BY <1>1, <2>1, <2>3, WorkEnds
  <2> QED
    BY <1>3, <2>2, <2>3 DEF OpenLocked
<1>4. CASE Bypass
  BY <1>4, ClearEnds DEF Bypass, NoWork
<1>5. CASE SubmitClean
  BY <1>5, ClearEnds DEF SubmitClean, NoWork
<1>6. CASE Judge
  <2>1. UNCHANGED <<stored, disk, vault, manager, restoring, used, discarded>> /\ work # NoWork /\ work.at = "locked"
    BY <1>6 DEF Judge, NoWork
  <2>2. disk[work.path].file = work.file
    BY <2>1 DEF JournalInv, WorkInv, Holding
  <2>3. records' = records \union {<<work.file, "seen">>}
    BY <1>6 DEF Judge
  <2>4. records \subseteq records' /\ (\A i : Committed(i)' => Committed(i)) /\ Seen(work.file)'
    <3>1. work'.file = work.file
      <4>1. work = [at |-> work.at, path |-> work.path, file |-> work.file]
        BY <2>1 DEF JournalInv, WorkInv
      <4>2. \E step : work' = [work EXCEPT !.at = step]
        BY <1>6 DEF Judge, Go
      <4> QED
        BY <4>1, <4>2
    <3> QED
      BY <2>3, <3>1 DEF Committed, Seen
  <2>5. Go("isolate") \/ Go("clear")
    BY <1>6 DEF Judge
  <2> QED
    BY <2>1, <2>2, <2>4, <2>5, LookStep
<1>7. CASE WriteIntent
  <2>1. UNCHANGED <<stored, disk, vault, manager, restoring, used, discarded>> /\ work # NoWork /\ work.at = "isolate"
    BY <1>7 DEF WriteIntent, NoWork
  <2>2. disk[work.path].file = work.file /\ Seen(work.file)
    BY <2>1 DEF JournalInv, WorkInv, Holding
  <2>3. records' = records \union {<<work.file, "intent">>} /\ Go("move")
    BY <1>7 DEF WriteIntent
  <2>4. /\ records \subseteq records' /\ \A i : Committed(i)' => Committed(i)
        /\ Seen(work.file)' /\ Intended(work.file)'
    BY <2>2, <2>3 DEF Committed, Seen, Intended, Go
  <2> QED
    BY <2>1, <2>2, <2>3, <2>4, LookStep
<1>8. CASE Commit
  <2>1. UNCHANGED <<stored, disk, vault, manager, restoring, used, discarded>> /\ work.at = "moved" /\ work' = NoWork
    BY <1>8 DEF Commit
  <2>2. records' \in {records, records \union {<<work.file, "committed">>}}
    BY <1>8 DEF Commit
  <2>3. WorkInv' /\ work'.at = "idle"
    BY <2>1 DEF WorkInv, NoWork
  <2>4. records \subseteq records' /\ \A i : Committed(i)' => Gone(i)
    BY <2>1, <2>2 DEF Committed, Gone
  <2>5. (\A i : Gone(i)' => Gone(i)) /\ \A i : Placed(i)' => Placed(i)
    BY <2>1, <2>3, <2>4 DEF Gone, Placed
  <2> QED
    BY <1>1, <2>1, <2>3, <2>4, <2>5, QuietStep
<1> QED
  BY <1>2, <1>3, <1>4, <1>5, <1>6, <1>7, <1>8

-----------------------------------------------------------------------------
(* Steps that change files or the vault                                    *)

\* A vault with one object more, or one less.
LEMMA PutAndTake ==
    ASSUME NEW identifier, NEW object
    PROVE  /\ Put(identifier, object) =>
                /\ DOMAIN vault' = DOMAIN vault \union {identifier} /\ vault'[identifier] = object
                /\ \A i \in DOMAIN vault : i # identifier => vault'[i] = vault[i]
           /\ Take(identifier) =>
                /\ DOMAIN vault' = DOMAIN vault \ {identifier}
                /\ \A i \in DOMAIN vault' : vault'[i] = vault[i]
BY DEF Put, Take

\* What a user puts at a path is new, or nothing.
LEMMA UserPuts ==
    ASSUME JournalInv, NEW p \in Paths, UserWrites(p)
    PROVE  \E object \in Objects :
             /\ disk' = [disk EXCEPT ![p] = object]
             /\ object.content = object.file
             /\ \/ object = NoObject /\ used' = used
                \/ object.file = used + 1 /\ used' = used + 1
<1>1. used \in Nat
  BY DEF JournalInv, DiskInv
<1>2. CASE disk' = [disk EXCEPT ![p] = NoObject] /\ used' = used
  <2>1. NoObject \in Objects /\ NoObject.content = NoObject.file
    BY DEF NoObject, Objects
  <2> QED
    BY <1>2, <2>1
<1>3. ASSUME NEW one \in BOOLEAN, used' = used + 1,
             disk' = [disk EXCEPT ![p] = [file |-> used', content |-> used', single |-> one]]
      PROVE  \E object \in Objects :
               /\ disk' = [disk EXCEPT ![p] = object]
               /\ object.content = object.file
               /\ object.file = used + 1 /\ used' = used + 1
  <2> DEFINE object == [file |-> used + 1, content |-> used + 1, single |-> one]
  <2>1. object \in Objects
    BY <1>1 DEF Objects
  <2> QED
    BY <1>3, <2>1
<1> QED
  BY <1>2, <1>3 DEF UserWrites

LEMMA UserKeepsJournal ==
    ASSUME JournalInv, NEW p \in Paths, UserWrites(p)
    PROVE  JournalInv'
<1>1. PICK object \in Objects :
        /\ disk' = [disk EXCEPT ![p] = object]
        /\ object.content = object.file
        /\ \/ object = NoObject /\ used' = used
           \/ object.file = used + 1 /\ used' = used + 1
  BY UserPuts
<1>2. UNCHANGED <<stored, vault, records, manager, work, restoring>> /\ ~Locked(p)
  BY DEF UserWrites
<1>3. /\ disk \in [Paths -> Objects] /\ disk' \in [Paths -> Objects] /\ disk'[p] = object
      /\ \A q \in Paths \ {p} : disk'[q] = disk[q]
  BY <1>1 DEF JournalInv, DiskInv
<1>4. /\ used \in Nat /\ used' \in Nat /\ used <= used' /\ NoObject.file = 0
      /\ \A i \in 1 .. used : i \in 1 .. used' /\ i # object.file
  BY <1>1 DEF JournalInv, DiskInv, NoObject
<1>5. Home \subseteq Paths
  BY QuarantineAssumption
<1>6. DiskInv'
  <2>1. \A q \in Paths : disk'[q] = NoObject \/ disk'[q].file \in 1 .. used'
    BY <1>1, <1>3, <1>4 DEF JournalInv, DiskInv
  <2>2. \A q \in Away : disk'[q].content = disk'[q].file
    BY <1>1, <1>3 DEF JournalInv, DiskInv, Away
  <2>3. ASSUME NEW q \in Away, disk'[q].file # 0, NEW r \in Paths \ {q} PROVE disk'[r].file # disk'[q].file
    <3>1. disk[q].file \in 1 .. used \/ q = p
      BY <1>3, <1>4, <2>3 DEF JournalInv, DiskInv, Away
    <3>2. disk[r].file \in 1 .. used \/ disk[r].file = 0 \/ r = p
      BY <1>4, <2>3 DEF JournalInv, DiskInv
    <3>3. CASE q = p
      BY <1>1, <1>3, <1>4, <2>3, <3>2, <3>3
    <3>4. CASE r = p
      BY <1>1, <1>3, <1>4, <2>3, <3>1, <3>4 DEF Away
    <3>5. CASE q # p /\ r # p
      BY <1>3, <2>3, <3>5 DEF JournalInv, DiskInv, Away
    <3> QED
      BY <3>3, <3>4, <3>5
  <2>4. ASSUME NEW q \in Away, disk'[q].file # 0, NEW i \in DOMAIN vault PROVE vault[i].file # disk'[q].file
    <3>1. vault[i].file \in 1 .. used
      BY DEF JournalInv, VaultInv
    <3>2. CASE q = p
      BY <1>3, <1>4, <3>1, <3>2
    <3>3. CASE q # p
      BY <1>3, <2>4, <3>3 DEF JournalInv, DiskInv, Away
    <3> QED
      BY <3>2, <3>3
  <2> QED
    BY <1>2, <1>3, <1>4, <2>1, <2>2, <2>3, <2>4 DEF DiskInv
<1>7. VaultInv' /\ RestoreInv' /\ QueueInv'
  BY <1>2, <1>4 DEF JournalInv, VaultInv, RestoreInv, QueueInv, Seen, Intended
<1>8. WorkInv'
  <2>1. work.at \in Holding /\ work # NoWork => work.path # p
    BY <1>2 DEF Locked, Holding
  <2> QED
    BY <1>2, <1>3, <1>4, <2>1 DEF JournalInv, WorkInv, Seen, Intended
<1>9. CommitInv'
  <2>1. \A i : (Committed(i)' <=> Committed(i)) /\ (Gone(i)' <=> Gone(i)) /\ (Placed(i)' <=> Placed(i))
    BY <1>2 DEF Committed, Gone, Placed
  <2>2. \A i : Gone(i) => i \in 1 .. used
    BY DEF JournalInv, CommitInv, WorkInv, Gone, NoWork
  <2>3. \A q \in Away : \A i \in 1 .. used : Gone(i) => disk'[q].file # i
    BY <1>3, <1>4 DEF JournalInv, CommitInv, Away
  <2>4. disk'[p] = NoObject \/ disk'[p].content # 0
    BY <1>1, <1>3, <1>4
  <2>5. restoring # NoWork /\ Placed(restoring.id) =>
             \/ disk'[restoring.path] = NoObject
             \/ Whole(restoring.id, disk'[restoring.path])
             \/ restoring.id \in DOMAIN vault
    BY <1>3, <1>5, <2>4 DEF JournalInv, CommitInv, RestoreInv, Whole
  <2> QED
    BY <1>2, <1>4, <2>1, <2>2, <2>3, <2>5 DEF JournalInv, CommitInv
<1> QED
  BY <1>6, <1>7, <1>8, <1>9 DEF JournalInv

\* The work on a file: which, where, and what is on record of it.
LEMMA WorkUnderWay ==
    ASSUME JournalInv, work.at \in {"move", "copy", "copied"}
    PROVE  /\ work = [at |-> work.at, path |-> work.path, file |-> work.file]
           /\ work.path \in Paths /\ work.file \in 1 .. used
           /\ disk[work.path].file = work.file /\ disk[work.path] \in Objects
           /\ Seen(work.file) /\ Intended(work.file)
<1>1. work # NoWork
  BY DEF NoWork
<1> QED
  BY <1>1 DEF JournalInv, WorkInv, Holding, DiskInv

\* A file of a path on another volume, under work, is not on record as committed.
LEMMA NotYetCommitted ==
    ASSUME JournalInv, work.at \in {"move", "copy", "copied"}, work.path \in Away
    PROVE  ~Committed(work.file)
BY WorkUnderWay DEF JournalInv, CommitInv, Gone, Away

LEMMA MoveKeepsJournal == ASSUME JournalInv, Move PROVE JournalInv'
<1> DEFINE p == work.path
           f == work.file
<1>1. /\ work = [at |-> work.at, path |-> p, file |-> f] /\ work.at = "move"
      /\ p \in Home /\ p \in Paths /\ f \in 1 .. used
      /\ disk[p].file = f /\ disk[p] \in Objects /\ Seen(f) /\ Intended(f)
  BY WorkUnderWay DEF Move
<1>2. /\ DOMAIN vault' = DOMAIN vault \union {f} /\ vault'[f] = disk[p] /\ f \notin DOMAIN vault
      /\ \A i \in DOMAIN vault : vault'[i] = vault[i]
  BY PutAndTake DEF Move, Free
<1>3. /\ disk' = [disk EXCEPT ![p] = NoObject]
      /\ UNCHANGED <<stored, records, manager, restoring, used, discarded>>
  BY DEF Move
<1>4. work' = [at |-> "moved", path |-> p, file |-> f]
  BY <1>1 DEF Move, Go
<1>5. /\ disk \in [Paths -> Objects] /\ disk' \in [Paths -> Objects] /\ disk'[p] = NoObject
      /\ \A q \in Paths \ {p} : disk'[q] = disk[q]
  BY <1>1, <1>3 DEF JournalInv, DiskInv, NoObject, Objects
<1> HIDE DEF p, f
<1>6. NoObject.file = 0 /\ NoObject.content = 0 /\ used \in Nat
  BY DEF JournalInv, DiskInv, NoObject
<1>7. \A q \in Away : q \in Paths /\ q # p /\ disk'[q] = disk[q]
  BY <1>1, <1>5 DEF Away
<1>8. DiskInv'
  <2>1. \A q \in Paths : disk'[q] = NoObject \/ disk'[q].file \in 1 .. used'
    BY <1>3, <1>5 DEF JournalInv, DiskInv
  <2>2. \A q \in Away : disk'[q].content = disk'[q].file
    BY <1>7 DEF JournalInv, DiskInv
  <2>3. ASSUME NEW q \in Away, disk'[q].file # 0
        PROVE  /\ \A r \in Paths \ {q} : disk'[r].file # disk'[q].file
               /\ \A i \in DOMAIN vault' : vault'[i].file # disk'[q].file
    <3>1. /\ \A r \in Paths \ {q} : disk[r].file # disk[q].file
          /\ \A i \in DOMAIN vault : vault[i].file # disk[q].file
      BY <1>7, <2>3 DEF JournalInv, DiskInv
    <3>2. disk[p].file # disk[q].file
      BY <1>1, <1>7, <3>1
    <3> QED
      BY <1>2, <1>5, <1>6, <1>7, <2>3, <3>1, <3>2
  <2> QED
    BY <1>3, <1>5, <2>1, <2>2, <2>3 DEF DiskInv, JournalInv
<1>9. VaultInv'
  BY <1>1, <1>2, <1>3 DEF JournalInv, VaultInv, Seen, Intended
<1>10. RestoreInv' /\ QueueInv'
  BY <1>3 DEF JournalInv, RestoreInv, QueueInv, Seen, Intended
<1>11. WorkInv'
  BY <1>1, <1>3, <1>4 DEF WorkInv, Steps, Holding, Seen, Intended
<1>12. CommitInv'
  <2>1. \A i : /\ Committed(i)' <=> Committed(i)
               /\ Gone(i)' <=> Committed(i) \/ i = f
               /\ Placed(i)' <=> Committed(i) \/ i = f
    BY <1>3, <1>4 DEF Committed, Gone, Placed
  <2>2. ASSUME NEW q \in Away, NEW i \in 1 .. used, Gone(i)' PROVE disk'[q].file # i
    <3>1. CASE Committed(i)
      BY <1>7, <2>2, <3>1 DEF JournalInv, CommitInv, Gone
    <3>2. CASE i = f
      <4>1. disk[q].file # 0 => \A r \in Paths \ {q} : disk[r].file # disk[q].file
        BY DEF JournalInv, DiskInv
      <4>2. p \in Paths \ {q} /\ f # 0
        BY <1>1, <1>6, <1>7
      <4>3. disk[q].file # f
        BY <1>1, <4>1, <4>2
      <4> QED
        BY <1>7, <3>2, <4>3
    <3> QED
      BY <2>1, <2>2, <3>1, <3>2
  <2>3. ASSUME NEW i \in DOMAIN vault', Placed(i)' PROVE Whole(i, vault'[i])
    <3>1. CASE i = f
      BY <1>1, <1>2, <3>1 DEF Whole
    <3>2. CASE i # f
      BY <1>2, <2>1, <2>3, <3>2 DEF JournalInv, CommitInv, Placed
    <3> QED
      BY <3>1, <3>2
  <2>4. ASSUME restoring # NoWork, Placed(restoring.id)'
        PROVE  \/ disk'[restoring.path] = NoObject
               \/ Whole(restoring.id, disk'[restoring.path])
               \/ restoring.id \in DOMAIN vault'
    <3>1. CASE restoring.id = f
      BY <1>2, <3>1
    <3>2. CASE restoring.id # f
      <4>1. Placed(restoring.id) /\ restoring.path \in Paths
        BY <1>3, <2>1, <2>4, <3>2, QuarantineAssumption DEF Placed, JournalInv, RestoreInv
      <4> QED
        BY <1>2, <1>5, <2>4, <4>1 DEF JournalInv, CommitInv
    <3> QED
      BY <3>1, <3>2
  <2> QED
    BY <1>3, <2>1, <2>2, <2>3, <2>4 DEF JournalInv, CommitInv
<1> QED
  BY <1>8, <1>9, <1>10, <1>11, <1>12 DEF JournalInv

LEMMA BeginCopyKeepsJournal == ASSUME JournalInv, BeginCopy PROVE JournalInv'
<1> DEFINE p == work.path
           f == work.file
           fragment == [file |-> used + 1, content |-> 0, single |-> TRUE]
<1>1. /\ work = [at |-> work.at, path |-> p, file |-> f] /\ work.at = "move"
      /\ p \in Away /\ p \in Paths /\ f \in 1 .. used
      /\ disk[p].file = f /\ Seen(f) /\ Intended(f) /\ ~Committed(f)
  BY WorkUnderWay, NotYetCommitted DEF BeginCopy, Away
<1>2. used \in Nat /\ used' = used + 1 /\ UNCHANGED <<stored, disk, records, manager, restoring>>
  BY DEF BeginCopy, JournalInv, DiskInv
<1>3. fragment \in Objects /\ fragment.file = used + 1 /\ fragment.content = 0
  BY <1>2 DEF Objects
<1>4. Put(f, fragment) /\ f \notin DOMAIN vault
  BY <1>2 DEF BeginCopy, Free
<1>5. work' = [at |-> "copy", path |-> p, file |-> f]
  BY <1>1 DEF BeginCopy, Go
<1> HIDE DEF p, f, fragment
<1>6. /\ DOMAIN vault' = DOMAIN vault \union {f} /\ vault'[f] = fragment
      /\ \A i \in DOMAIN vault : vault'[i] = vault[i]
  BY <1>4, PutAndTake
<1>7. \A i \in 1 .. used : i \in 1 .. used' /\ i # used + 1
  BY <1>2
<1>8. DiskInv'
  <2>1. \A q \in Paths : disk[q] = NoObject \/ disk[q].file \in 1 .. used'
    BY <1>7 DEF JournalInv, DiskInv
  <2>2. \A q \in Away : disk[q].file # used + 1
    BY <1>2 DEF JournalInv, DiskInv, Away, NoObject
  <2>3. \A q \in Away : disk[q].file # 0 => \A i \in DOMAIN vault' : vault'[i].file # disk[q].file
    BY <1>3, <1>6, <2>2 DEF JournalInv, DiskInv
  <2> QED
    BY <1>2, <2>1, <2>3 DEF DiskInv, JournalInv
<1>9. VaultInv'
  <2>1. ASSUME NEW i \in DOMAIN vault' PROVE i \in 1 .. used' /\ vault'[i] \in Objects /\ vault'[i].file \in 1 .. used'
    <3>1. CASE i = f
      BY <1>1, <1>2, <1>3, <1>6, <1>7, <3>1
    <3>2. CASE i # f
      BY <1>6, <1>7, <3>2 DEF JournalInv, VaultInv
    <3> QED
      BY <3>1, <3>2
  <2>2. \A i \in DOMAIN vault' : Seen(i) /\ Intended(i)
    BY <1>1, <1>6 DEF JournalInv, VaultInv
  <2> QED
    BY <1>2, <2>1, <2>2 DEF VaultInv, Seen, Intended
<1>10. RestoreInv' /\ QueueInv'
  BY <1>2, <1>7 DEF JournalInv, RestoreInv, QueueInv, Seen, Intended
<1>11. WorkInv'
  BY <1>1, <1>2, <1>3, <1>5, <1>6, <1>7 DEF WorkInv, Steps, Holding, Seen, Intended
<1>12. CommitInv'
  <2>1. \A i : /\ Committed(i)' <=> Committed(i)
               /\ Gone(i)' <=> Committed(i)
               /\ Placed(i)' <=> Committed(i)
    BY <1>2, <1>5 DEF Committed, Gone, Placed
  <2>2. \A i : Committed(i) => i \in 1 .. used /\ i # f
    BY <1>1 DEF JournalInv, CommitInv
  <2>3. \A q \in Away : \A i \in 1 .. used' : Gone(i)' => disk'[q].file # i
    BY <1>2, <2>1, <2>2 DEF JournalInv, CommitInv, Gone
  <2>4. \A i \in DOMAIN vault' : Placed(i)' => Whole(i, vault'[i])
    BY <1>6, <2>1, <2>2 DEF JournalInv, CommitInv, Placed
  <2>5. restoring # NoWork /\ Committed(restoring.id) =>
             \/ disk[restoring.path] = NoObject
             \/ Whole(restoring.id, disk[restoring.path])
             \/ restoring.id \in DOMAIN vault'
    BY <1>6 DEF JournalInv, CommitInv, Placed
  <2> QED
    BY <1>2, <1>7, <2>1, <2>2, <2>3, <2>4, <2>5 DEF CommitInv
<1> QED
  BY <1>8, <1>9, <1>10, <1>11, <1>12 DEF JournalInv

LEMMA CopyContentKeepsJournal == ASSUME JournalInv, CopyContent PROVE JournalInv'
<1> DEFINE p == work.path
           f == work.file
           copy == [vault[f] EXCEPT !.content = disk[p].content]
<1>1. /\ work = [at |-> work.at, path |-> p, file |-> f] /\ work.at = "copy"
      /\ p \in Away /\ p \in Paths /\ f \in 1 .. used
      /\ disk[p].file = f /\ Seen(f) /\ Intended(f) /\ ~Committed(f)
      /\ f \in DOMAIN vault
  BY WorkUnderWay, NotYetCommitted DEF CopyContent, JournalInv, WorkInv, NoWork
<1>2. used \in Nat /\ UNCHANGED <<stored, disk, records, manager, restoring, used, discarded>>
  BY DEF CopyContent, JournalInv, DiskInv
<1>3. \A i : Committed(i) => i \in 1 .. used /\ i # f
  BY <1>1 DEF JournalInv, CommitInv
<1>4. RestoreInv' /\ QueueInv'
  BY <1>2 DEF JournalInv, RestoreInv, QueueInv, Seen, Intended
<1>5. CASE Put(f, copy) /\ Go("copied")
  <2>1. /\ vault[f] \in Objects /\ vault[f].file \in 1 .. used
        /\ disk[p].content = f /\ f # 0
    BY <1>1, <1>2 DEF JournalInv, VaultInv, DiskInv
  <2>2. copy \in Objects /\ copy.file = vault[f].file /\ copy.content = f
    BY <1>1, <1>2, <2>1 DEF Objects
  <2>3. work' = [at |-> "copied", path |-> p, file |-> f]
    BY <1>1, <1>5 DEF Go
  <2> HIDE DEF p, f, copy
  <2>4. /\ DOMAIN vault' = DOMAIN vault /\ vault'[f] = copy
        /\ \A i \in DOMAIN vault : i # f => vault'[i] = vault[i]
    <3>1. /\ DOMAIN vault' = DOMAIN vault \union {f} /\ vault'[f] = copy
          /\ \A i \in DOMAIN vault : i # f => vault'[i] = vault[i]
      BY <1>5, PutAndTake, Zenon
    <3>2. DOMAIN vault \union {f} = DOMAIN vault
      BY <1>1
    <3> QED
      BY <3>1, <3>2
  <2>5. DiskInv'
    <3>1. \A i \in DOMAIN vault' : vault'[i].file = vault[i].file
      BY <2>2, <2>4
    <3> QED
      BY <1>2, <2>4, <3>1 DEF JournalInv, DiskInv
  <2>6. VaultInv'
    <3>1. ASSUME NEW i \in DOMAIN vault' PROVE vault'[i] \in Objects /\ vault'[i].file \in 1 .. used
      BY <2>1, <2>2, <2>4 DEF JournalInv, VaultInv
    <3> QED
      BY <1>2, <2>4, <3>1 DEF JournalInv, VaultInv, Seen, Intended
  <2>7. WorkInv'
    BY <1>1, <1>2, <2>3 DEF WorkInv, Steps, Holding, Seen, Intended
  <2>8. CommitInv'
    <3>1. \A i : /\ Committed(i)' <=> Committed(i)
                 /\ Gone(i)' <=> Committed(i)
                 /\ Placed(i)' <=> Committed(i) \/ i = f
      BY <1>2, <2>3 DEF Committed, Gone, Placed
    <3>2. \A q \in Away : \A i \in 1 .. used' : Gone(i)' => disk'[q].file # i
      BY <1>2, <3>1 DEF JournalInv, CommitInv, Gone
    <3>3. \A i \in DOMAIN vault' : Placed(i)' => Whole(i, vault'[i])
      <4>1. Whole(f, copy)
        BY <2>1, <2>2 DEF Whole
      <4>2. \A i \in DOMAIN vault : Committed(i) => Whole(i, vault[i])
        BY DEF JournalInv, CommitInv, Placed
      <4> QED
        BY <2>4, <3>1, <4>1, <4>2
    <3>4. restoring # NoWork /\ (Committed(restoring.id) \/ restoring.id = f) =>
               \/ disk[restoring.path] = NoObject
               \/ Whole(restoring.id, disk[restoring.path])
               \/ restoring.id \in DOMAIN vault'
      BY <1>1, <2>4 DEF JournalInv, CommitInv, Placed
    <3> QED
      BY <1>2, <1>3, <3>1, <3>2, <3>3, <3>4 DEF CommitInv
  <2> QED
    BY <1>4, <2>5, <2>6, <2>7, <2>8 DEF JournalInv
<1>6. CASE Take(f) /\ work' = NoWork
  <2> HIDE DEF p, f, copy
  <2>1. DOMAIN vault' = DOMAIN vault \ {f} /\ \A i \in DOMAIN vault' : vault'[i] = vault[i]
    BY <1>6, PutAndTake
  <2>2. DiskInv' /\ VaultInv'
    BY <1>2, <2>1 DEF JournalInv, DiskInv, VaultInv, Seen, Intended
  <2>3. WorkInv'
    BY <1>6 DEF WorkInv
  <2>4. CommitInv'
    <3>1. \A i : /\ Committed(i)' <=> Committed(i)
                 /\ Gone(i)' <=> Committed(i)
                 /\ Placed(i)' <=> Committed(i)
      BY <1>2, <1>6 DEF Committed, Gone, Placed, NoWork
    <3> QED
      BY <1>2, <1>3, <2>1, <3>1 DEF JournalInv, CommitInv, Placed, Gone
  <2> QED
    BY <1>4, <2>2, <2>3, <2>4 DEF JournalInv
<1> QED
  BY <1>5, <1>6 DEF CopyContent

LEMMA DeleteSourceKeepsJournal == ASSUME JournalInv, DeleteSource PROVE JournalInv'
<1> DEFINE p == work.path
           f == work.file
<1>1. /\ work = [at |-> work.at, path |-> p, file |-> f] /\ work.at = "copied"
      /\ p \in Away /\ p \in Paths /\ f \in 1 .. used
      /\ disk[p].file = f /\ Seen(f) /\ Intended(f) /\ ~Committed(f)
  BY WorkUnderWay, NotYetCommitted DEF DeleteSource, JournalInv, WorkInv, NoWork
<1>2. used \in Nat /\ UNCHANGED <<stored, records, manager, restoring, used, discarded>>
  BY DEF DeleteSource, JournalInv, DiskInv
<1>3. \A i : Committed(i) => i \in 1 .. used /\ i # f
  BY <1>1 DEF JournalInv, CommitInv
<1>4. RestoreInv' /\ QueueInv'
  BY <1>2 DEF JournalInv, RestoreInv, QueueInv, Seen, Intended
<1>5. CASE disk' = [disk EXCEPT ![p] = NoObject] /\ UNCHANGED vault /\ Go("moved")
  <2>1. work' = [at |-> "moved", path |-> p, file |-> f]
    BY <1>1, <1>5 DEF Go
  <2> HIDE DEF p, f
  <2>2. /\ disk \in [Paths -> Objects] /\ disk' \in [Paths -> Objects] /\ disk'[p] = NoObject
        /\ \A q \in Paths \ {p} : disk'[q] = disk[q]
        /\ NoObject.file = 0 /\ NoObject.content = 0
    BY <1>1, <1>5 DEF JournalInv, DiskInv, NoObject, Objects
  <2>3. \A q \in Away : q \in Paths /\ (q # p => disk'[q] = disk[q])
    BY <2>2 DEF Away
  <2>4. DiskInv'
    <3>1. \A q \in Paths : disk'[q] = NoObject \/ disk'[q].file \in 1 .. used'
      BY <1>2, <2>2 DEF JournalInv, DiskInv
    <3>2. \A q \in Away : disk'[q].content = disk'[q].file
      BY <2>2, <2>3 DEF JournalInv, DiskInv
    <3>3. ASSUME NEW q \in Away, disk'[q].file # 0
          PROVE  /\ \A r \in Paths \ {q} : disk'[r].file # disk'[q].file
                 /\ \A i \in DOMAIN vault : vault[i].file # disk'[q].file
      <4>1. q # p /\ disk'[q] = disk[q]
        BY <2>2, <2>3, <3>3
      <4> QED
        BY <2>2, <3>3, <4>1 DEF JournalInv, DiskInv
    <3> QED
      BY <1>2, <1>5, <2>2, <3>1, <3>2, <3>3 DEF DiskInv
  <2>5. VaultInv'
    BY <1>2, <1>5 DEF JournalInv, VaultInv, Seen, Intended
  <2>6. WorkInv'
    BY <1>1, <1>2, <2>1 DEF WorkInv, Steps, Holding, Seen, Intended
  <2>7. CommitInv'
    <3>1. \A i : /\ Committed(i)' <=> Committed(i)
                 /\ Gone(i)' <=> Committed(i) \/ i = f
                 /\ Placed(i)' <=> Committed(i) \/ i = f
                 /\ Placed(i) <=> Committed(i) \/ i = f
      BY <1>1, <1>2, <2>1 DEF Committed, Gone, Placed
    <3>2. ASSUME NEW q \in Away, NEW i \in 1 .. used, Committed(i) \/ i = f PROVE disk'[q].file # i
      <4>1. CASE q = p
        BY <1>2, <2>2, <4>1
      <4>2. CASE q # p /\ Committed(i)
        BY <2>3, <4>2 DEF JournalInv, CommitInv, Gone
      <4>3. CASE q # p /\ i = f
        <5>1. disk[q].file # 0 => \A r \in Paths \ {q} : disk[r].file # disk[q].file
          BY DEF JournalInv, DiskInv
        <5>2. p \in Paths \ {q} /\ f # 0
          BY <1>1, <1>2, <4>3
        <5>3. disk[q].file # f
          BY <1>1, <5>1, <5>2
        <5> QED
          BY <2>3, <4>3, <5>3
      <4> QED
        BY <3>2, <4>1, <4>2, <4>3
    <3>3. \A i \in DOMAIN vault : Placed(i)' => Whole(i, vault[i])
      BY <3>1 DEF JournalInv, CommitInv
    <3>4. restoring # NoWork /\ (Committed(restoring.id) \/ restoring.id = f) =>
               \/ disk'[restoring.path] = NoObject
               \/ Whole(restoring.id, disk'[restoring.path])
               \/ restoring.id \in DOMAIN vault
      <4>1. restoring # NoWork => restoring.path \in Paths
        BY QuarantineAssumption DEF JournalInv, RestoreInv
      <4> QED
        BY <2>2, <3>1, <4>1 DEF JournalInv, CommitInv
    <3> QED
      BY <1>2, <1>3, <1>5, <3>1, <3>2, <3>3, <3>4 DEF CommitInv
  <2> QED
    BY <1>4, <2>4, <2>5, <2>6, <2>7 DEF JournalInv
<1>6. CASE Take(f) /\ UNCHANGED disk /\ work' = NoWork
  <2> HIDE DEF p, f
  <2>1. DOMAIN vault' = DOMAIN vault \ {f} /\ \A i \in DOMAIN vault' : vault'[i] = vault[i]
    BY <1>6, PutAndTake
  <2>2. DiskInv' /\ VaultInv'
    BY <1>2, <1>6, <2>1 DEF JournalInv, DiskInv, VaultInv, Seen, Intended
  <2>3. WorkInv'
    BY <1>6 DEF WorkInv
  <2>4. CommitInv'
    <3>1. \A i : /\ Committed(i)' <=> Committed(i)
                 /\ Gone(i)' <=> Committed(i)
                 /\ Placed(i)' <=> Committed(i)
      BY <1>2, <1>6 DEF Committed, Gone, Placed, NoWork
    <3> QED
      BY <1>2, <1>3, <1>6, <2>1, <3>1 DEF JournalInv, CommitInv, Placed, Gone
  <2> QED
    BY <1>4, <2>2, <2>3, <2>4 DEF JournalInv
<1> QED
  BY <1>5, <1>6 DEF DeleteSource

-----------------------------------------------------------------------------
(* restore                                                                 *)

LEMMA RestoreMoveKeepsJournal ==
    ASSUME JournalInv, NEW i \in DOMAIN vault, NEW p \in Paths, RestoreMove(i, p)
    PROVE  JournalInv'
<1>1. /\ restoring = NoWork /\ p \in Home /\ disk[p] = NoObject /\ ~(work.at = "copy" /\ work.file = i)
      /\ disk' = [disk EXCEPT ![p] = vault[i]] /\ Take(i)
      /\ restoring' = [at |-> "check", path |-> p, id |-> i, file |-> vault[i].file]
      /\ UNCHANGED <<stored, records, manager, work, used, discarded>>
  BY DEF RestoreMove
<1>2. DOMAIN vault' = DOMAIN vault \ {i} /\ \A j \in DOMAIN vault' : vault'[j] = vault[j]
  BY <1>1, PutAndTake
<1>3. i \in 1 .. used /\ vault[i] \in Objects /\ vault[i].file \in 1 .. used /\ Seen(i) /\ Intended(i)
  BY DEF JournalInv, VaultInv
<1>4. /\ disk \in [Paths -> Objects] /\ disk' \in [Paths -> Objects] /\ disk'[p] = vault[i]
      /\ \A q \in Paths \ {p} : disk'[q] = disk[q]
      /\ used \in Nat /\ NoObject.file = 0
  BY <1>1, <1>3 DEF JournalInv, DiskInv, NoObject
<1>5. \A q \in Away : q \in Paths /\ q # p /\ disk'[q] = disk[q]
  BY <1>1, <1>4 DEF Away
<1>6. DiskInv'
  <2>1. \A q \in Paths : disk'[q] = NoObject \/ disk'[q].file \in 1 .. used'
    BY <1>1, <1>3, <1>4 DEF JournalInv, DiskInv
  <2>2. \A q \in Away : disk'[q].content = disk'[q].file
    BY <1>5 DEF JournalInv, DiskInv
  <2>3. ASSUME NEW q \in Away, disk'[q].file # 0
        PROVE  /\ \A r \in Paths \ {q} : disk'[r].file # disk'[q].file
               /\ \A j \in DOMAIN vault' : vault'[j].file # disk'[q].file
    <3>1. /\ \A r \in Paths \ {q} : disk[r].file # disk[q].file
          /\ \A j \in DOMAIN vault : vault[j].file # disk[q].file
      BY <1>5, <2>3 DEF JournalInv, DiskInv
    <3> QED
      BY <1>2, <1>4, <1>5, <3>1
  <2> QED
    BY <1>1, <1>4, <2>1, <2>2, <2>3 DEF DiskInv
<1>7. VaultInv' /\ QueueInv'
  BY <1>1, <1>2 DEF JournalInv, VaultInv, QueueInv, Seen, Intended
<1>8. RestoreInv'
  BY <1>1, <1>3, <1>4 DEF RestoreInv, Seen, Intended
<1>9. WorkInv'
  <2>1. work # NoWork /\ work.at \in Holding => work.path # p
    BY <1>1, <1>4 DEF JournalInv, WorkInv
  <2>2. work # NoWork /\ work.at = "copy" => work.file \in DOMAIN vault' /\ vault'[work.file] = vault[work.file]
    BY <1>1, <1>2 DEF JournalInv, WorkInv
  <2> QED
    BY <1>1, <1>4, <2>1, <2>2 DEF JournalInv, WorkInv, Seen, Intended
<1>10. CommitInv'
  <2>1. \A j : (Committed(j)' <=> Committed(j)) /\ (Gone(j)' <=> Gone(j)) /\ (Placed(j)' <=> Placed(j))
    BY <1>1 DEF Committed, Gone, Placed
  <2>2. Placed(i) => Whole(i, disk'[p])
    BY <1>4 DEF JournalInv, CommitInv
  <2>3. restoring'.id = i /\ restoring'.path = p
    BY <1>1
  <2>4. \A q \in Away : \A j \in 1 .. used : Gone(j) => disk'[q].file # j
    BY <1>5 DEF JournalInv, CommitInv
  <2>5. \A j \in DOMAIN vault' : Placed(j) => Whole(j, vault'[j])
    BY <1>2 DEF JournalInv, CommitInv
  <2> QED
    BY <1>1, <2>1, <2>2, <2>3, <2>4, <2>5 DEF JournalInv, CommitInv
<1> QED
  BY <1>6, <1>7, <1>8, <1>9, <1>10 DEF JournalInv

\* The restore is over; nothing else has changed.
LEMMA RestoreEnds ==
    ASSUME JournalInv, restoring' = NoWork, UNCHANGED <<disk, vault, manager, work, used>>,
           records \subseteq records', \A i : Committed(i)' => Committed(i)
    PROVE  JournalInv'
<1>1. \A i : (Committed(i)' <=> Committed(i)) /\ (Gone(i)' <=> Gone(i)) /\ (Placed(i)' <=> Placed(i))
  BY DEF Committed, Gone, Placed
<1>2. DiskInv' /\ VaultInv' /\ QueueInv'
  BY DEF JournalInv, DiskInv, VaultInv, QueueInv, Seen, Intended
<1>3. RestoreInv'
  BY DEF RestoreInv
<1>4. WorkInv'
  BY DEF JournalInv, WorkInv, Seen, Intended
<1>5. CommitInv'
  BY <1>1 DEF JournalInv, CommitInv
<1> QED
  BY <1>2, <1>3, <1>4, <1>5 DEF JournalInv

LEMMA MoveBackKeepsJournal ==
    ASSUME JournalInv, restoring # NoWork, MoveBack, UNCHANGED <<manager, work, used>>,
           records \subseteq records', \A i : Committed(i)' => Committed(i)
    PROVE  JournalInv'
<1> DEFINE i == restoring.id
           p == restoring.path
<1>1. /\ p \in Home /\ p \in Paths /\ i \in 1 .. used /\ Seen(i) /\ Intended(i) /\ restoring' = NoWork
  BY QuarantineAssumption DEF JournalInv, RestoreInv, MoveBack
<1>2. CASE UNCHANGED <<disk, vault, discarded>>
  BY <1>1, <1>2, RestoreEnds
<1>3. ASSUME disk[p] # NoObject, Free(i), ~Locked(p), Put(i, disk[p]), disk' = [disk EXCEPT ![p] = NoObject]
      PROVE  JournalInv'
  <2> HIDE DEF i, p
  <2>1. /\ DOMAIN vault' = DOMAIN vault \union {i} /\ vault'[i] = disk[p] /\ i \notin DOMAIN vault
        /\ \A j \in DOMAIN vault : vault'[j] = vault[j]
    BY <1>3, PutAndTake DEF Free
  <2>2. /\ disk \in [Paths -> Objects] /\ disk' \in [Paths -> Objects] /\ disk'[p] = NoObject
        /\ \A q \in Paths \ {p} : disk'[q] = disk[q]
        /\ used \in Nat /\ NoObject.file = 0 /\ disk[p] \in Objects /\ disk[p].file \in 1 .. used
    BY <1>1, <1>3 DEF JournalInv, DiskInv, NoObject, Objects
  <2>3. \A q \in Away : q \in Paths /\ q # p /\ disk'[q] = disk[q]
    BY <1>1, <2>2 DEF Away
  <2>4. DiskInv'
    <3>1. \A q \in Paths : disk'[q] = NoObject \/ disk'[q].file \in 1 .. used'
      BY <2>2 DEF JournalInv, DiskInv
    <3>2. \A q \in Away : disk'[q].content = disk'[q].file
      BY <2>3 DEF JournalInv, DiskInv
    <3>3. ASSUME NEW q \in Away, disk'[q].file # 0
          PROVE  /\ \A r \in Paths \ {q} : disk'[r].file # disk'[q].file
                 /\ \A j \in DOMAIN vault' : vault'[j].file # disk'[q].file
      <4>1. /\ \A r \in Paths \ {q} : disk[r].file # disk[q].file
            /\ \A j \in DOMAIN vault : vault[j].file # disk[q].file
        BY <2>3, <3>3 DEF JournalInv, DiskInv
      <4>2. disk[p].file # disk[q].file
        BY <1>1, <2>3, <4>1
      <4> QED
        BY <2>1, <2>2, <2>3, <3>3, <4>1, <4>2
    <3> QED
      BY <2>2, <3>1, <3>2, <3>3 DEF DiskInv
  <2>5. VaultInv' /\ QueueInv'
    BY <1>1, <2>1, <2>2 DEF JournalInv, VaultInv, QueueInv, Seen, Intended
  <2>6. RestoreInv'
    BY <1>1 DEF RestoreInv
  <2>7. WorkInv'
    <3>1. work # NoWork /\ work.at \in Holding => work.path # p
      BY <1>3 DEF Locked, Holding
    <3>2. work # NoWork /\ work.at = "copy" => work.file \in DOMAIN vault' /\ vault'[work.file] = vault[work.file]
      BY <2>1 DEF JournalInv, WorkInv
    <3> QED
      BY <2>2, <3>1, <3>2 DEF JournalInv, WorkInv, Seen, Intended
  <2>8. CommitInv'
    <3>1. \A j : (Committed(j)' <=> Committed(j)) /\ (Gone(j)' <=> Gone(j)) /\ (Placed(j)' <=> Placed(j))
      BY DEF Committed, Gone, Placed
    <3>2. Placed(i) => Whole(i, disk[p])
      BY <1>3, <2>1 DEF JournalInv, CommitInv, i, p
    <3>3. \A q \in Away : \A j \in 1 .. used : Gone(j) => disk'[q].file # j
      BY <2>3 DEF JournalInv, CommitInv
    <3>4. \A j \in DOMAIN vault' : Placed(j) => Whole(j, vault'[j])
      BY <2>1, <3>2 DEF JournalInv, CommitInv
    <3> QED
      BY <1>1, <3>1, <3>3, <3>4 DEF JournalInv, CommitInv
  <2> QED
    BY <2>4, <2>5, <2>6, <2>7, <2>8 DEF JournalInv
<1> QED
  BY <1>2, <1>3 DEF MoveBack

LEMMA RestoreKeepsJournal ==
    ASSUME JournalInv, RestoreBack \/ RestoreJournal \/ RestoreVerdict \/ RestoreKilled
    PROVE  JournalInv'
<1>1. CASE RestoreBack
  <2>1. restoring # NoWork /\ UNCHANGED <<stored, records, manager, work, used>> /\ MoveBack
    BY <1>1 DEF RestoreBack, NoWork
  <2> QED
    BY <2>1, MoveBackKeepsJournal DEF Committed
<1>2. CASE RestoreJournal
  <2>1. restoring # NoWork /\ UNCHANGED <<stored, disk, vault, manager, work, used, discarded>>
    BY <1>2 DEF RestoreJournal, NoWork
  <2>2. records' = records \union {<<restoring.file, "restored">>} /\ restoring' = [restoring EXCEPT !.at = "verdict"]
    BY <1>2 DEF RestoreJournal
  <2>3. \A i : (Committed(i)' <=> Committed(i)) /\ (Gone(i)' <=> Gone(i)) /\ (Placed(i)' <=> Placed(i))
    BY <2>1, <2>2 DEF Committed, Gone, Placed
  <2>4. restoring' = [at |-> "verdict", path |-> restoring.path, id |-> restoring.id, file |-> restoring.file]
    BY <2>1, <2>2 DEF JournalInv, RestoreInv
  <2>5. DiskInv' /\ VaultInv' /\ QueueInv'
    BY <2>1, <2>2 DEF JournalInv, DiskInv, VaultInv, QueueInv, Seen, Intended
  <2>6. RestoreInv'
    BY <2>1, <2>2, <2>4 DEF JournalInv, RestoreInv, Seen, Intended
  <2>7. WorkInv'
    BY <2>1, <2>2 DEF JournalInv, WorkInv, Seen, Intended
  <2>8. CommitInv'
    BY <2>1, <2>3, <2>4 DEF JournalInv, CommitInv
  <2> QED
    BY <2>5, <2>6, <2>7, <2>8 DEF JournalInv
<1>3. CASE RestoreVerdict
  <2>1. restoring # NoWork /\ UNCHANGED <<stored, manager, work, used>>
    BY <1>3 DEF RestoreVerdict, NoWork
  <2>2. CASE restoring' = NoWork /\ UNCHANGED <<disk, vault, records, discarded>>
    BY <2>1, <2>2, RestoreEnds DEF Committed
  <2>3. CASE MoveBack /\ records' \in {records, records \union {<<restoring.file, "rolled_back">>}}
    <3>1. records \subseteq records' /\ \A i : Committed(i)' => Committed(i)
      BY <2>3 DEF Committed
    <3> QED
      BY <2>1, <2>3, <3>1, MoveBackKeepsJournal
  <2> QED
    BY <1>3, <2>2, <2>3 DEF RestoreVerdict
<1>4. CASE RestoreKilled
  BY <1>4, RestoreEnds DEF RestoreKilled, Committed
<1> QED
  BY <1>1, <1>2, <1>3, <1>4

LEMMA JournalInvStep == JournalInv /\ [QuarantineNext]_quarantineVars => JournalInv'
<1> SUFFICES ASSUME JournalInv, [QuarantineNext]_quarantineVars PROVE JournalInv'
  OBVIOUS
<1>1. CASE UNCHANGED quarantineVars
  <2>1. \A i : (Committed(i)' <=> Committed(i)) /\ (Gone(i)' <=> Gone(i)) /\ (Placed(i)' <=> Placed(i))
    BY <1>1 DEF quarantineVars, Committed, Gone, Placed
  <2> QED
    BY <1>1, <2>1 DEF quarantineVars, JournalInv, DiskInv, VaultInv, QueueInv, WorkInv, RestoreInv, CommitInv, Seen, Intended
<1>2. ASSUME NEW p \in Paths, UserWrites(p) \/ ClassifyPending(p) PROVE JournalInv'
  BY <1>2, UserKeepsJournal, ManagerSteps
<1>3. CASE ClassifySteps
  BY <1>3, LookingSteps, MoveKeepsJournal, BeginCopyKeepsJournal, CopyContentKeepsJournal, DeleteSourceKeepsJournal
     DEF ClassifySteps
<1>4. CASE RestoreSteps
  BY <1>4, RestoreMoveKeepsJournal, RestoreKeepsJournal DEF RestoreSteps
<1> QED
  BY <1>1, <1>2, <1>3, <1>4, ManagerSteps DEF QuarantineNext

\* After any failure the journal tells the truth of the vault: what is there was seen and
\* intended first, and what is committed is no unfinished copy (classify,
\* copy_locked_to_quarantine, restore).
THEOREM JournalStaysTrue == QuarantineInit /\ [][QuarantineNext]_quarantineVars => []JournalIsTrue
<1>1. JournalInv => JournalIsTrue
  BY DEF JournalInv, VaultInv, CommitInv, Placed, Whole, Seen, Intended, Committed, JournalIsTrue
<1> QED
  BY <1>1, JournalInvInit, JournalInvStep, PTL

-----------------------------------------------------------------------------
(* No content is lost                                                      *)

\* A content that is at a path or in the vault.
Somewhere(c) == (\E p \in Paths : disk[p].content = c) \/ (\E i \in DOMAIN vault : vault[i].content = c)

LEMMA KeptIsSomewhere ==
    /\ ContentIsKept <=> \A c \in (1 .. used) \ discarded : Somewhere(c)
    /\ \A c, path : KeptBeside(c, path) <=>
          (\E p \in Paths \ {path} : disk[p].content = c) \/ (\E i \in DOMAIN vault : vault[i].content = c)
BY DEF ContentIsKept, Somewhere, KeptBeside

LEMMA ContentInvInit == QuarantineInit => ContentInv
BY DEF QuarantineInit, ContentInv, ContentIsKept, NoWork

\* Steps that change no file, nor the vault.
LEMMA ContentStays ==
    ASSUME ContentInv, UNCHANGED <<disk, vault, used, discarded>>,
           \/ restoring' = restoring \/ restoring' = NoWork
           \/ /\ restoring # NoWork /\ restoring'.path = restoring.path
              /\ restoring'.id = restoring.id /\ restoring'.file = restoring.file,
           work'.at = "copied" => work' = work
    PROVE  ContentInv'
<1>1. (work.at = "copied" => work.file \in discarded \/ KeptBeside(work.file, work.path))'
  BY DEF ContentInv, KeptBeside
<1>2. ContentIsKept'
  BY DEF ContentInv, ContentIsKept
<1>3. \A q \in Away :
         /\ disk'[q].file \in DOMAIN vault' => CopyOf(disk'[q].file, vault'[disk'[q].file], discarded')
         /\ restoring' # NoWork /\ restoring'.id = disk'[q].file /\ disk'[restoring'.path].file = restoring'.file =>
              CopyOf(disk'[q].file, disk'[restoring'.path], discarded')
  BY DEF ContentInv, CopyOf
<1> QED
  BY <1>1, <1>2, <1>3 DEF ContentInv

LEMMA UserKeepsContent ==
    ASSUME JournalInv, ContentInv, NEW p \in Paths, UserWrites(p)
    PROVE  ContentInv'
<1>1. PICK object \in Objects :
        /\ disk' = [disk EXCEPT ![p] = object]
        /\ object.content = object.file
        /\ \/ object = NoObject /\ used' = used
           \/ object.file = used + 1 /\ used' = used + 1
  BY UserPuts
<1>2. /\ UNCHANGED <<stored, vault, records, manager, work, restoring>> /\ ~Locked(p)
      /\ discarded' = discarded \union {disk[p].content}
  BY DEF UserWrites
<1>3. /\ disk'[p] = object /\ \A q \in Paths \ {p} : disk'[q] = disk[q]
      /\ used \in Nat /\ NoObject.file = 0 /\ NoObject.content = 0
  BY <1>1 DEF JournalInv, DiskInv, NoObject
<1>4. \A c \in 1 .. used : Somewhere(c) => Somewhere(c)' \/ c \in discarded'
  BY <1>2, <1>3 DEF Somewhere
<1>5. work.at = "copied" => work.file \in discarded' \/ KeptBeside(work.file, work.path)'
  <2>1. work.at = "copied" => work.path # p
    BY <1>2 DEF Locked
  <2>2. work.at = "copied" => work.file \in discarded \/ KeptBeside(work.file, work.path)
    BY DEF ContentInv
  <2> QED
    BY <1>2, <1>3, <2>1, <2>2 DEF KeptBeside
<1>6. ContentIsKept'
  <2>1. ASSUME NEW c \in (1 .. used') \ discarded' PROVE Somewhere(c)'
    <3>1. CASE c \in 1 .. used
      <4>1. Somewhere(c)
        BY <1>2, <2>1, <3>1, KeptIsSomewhere DEF ContentInv
      <4> QED
        BY <1>4, <2>1, <3>1, <4>1
    <3>2. CASE c \notin 1 .. used
      <4>1. c = used + 1 /\ object.content = c
        BY <1>1, <1>3, <2>1, <3>2
      <4> QED
        BY <1>3, <4>1 DEF Somewhere
    <3> QED
      BY <3>1, <3>2
  <2> QED
    BY <2>1 DEF Somewhere, ContentIsKept
<1>7. ASSUME NEW q \in Away
      PROVE  /\ disk'[q].file \in DOMAIN vault => CopyOf(disk'[q].file, vault[disk'[q].file], discarded')
             /\ restoring # NoWork /\ restoring.id = disk'[q].file /\ disk'[restoring.path].file = restoring.file =>
                  CopyOf(disk'[q].file, disk'[restoring.path], discarded')
  <2>1. \A i \in DOMAIN vault : i \in 1 .. used
    BY DEF JournalInv, VaultInv
  <2>2. restoring # NoWork => restoring.id \in 1 .. used /\ restoring.file \in 0 .. used /\ restoring.path \in Paths
    BY QuarantineAssumption DEF JournalInv, RestoreInv
  <2>3. CASE q = p
    <3>1. disk'[q].file \notin 1 .. used
      BY <1>1, <1>3, <2>3
    <3> QED
      BY <2>1, <2>2, <3>1
  <2>4. CASE q # p
    <3>1. disk'[q] = disk[q]
      BY <1>3, <2>4 DEF Away
    <3>2. disk'[q].file \in DOMAIN vault => CopyOf(disk'[q].file, vault[disk'[q].file], discarded')
      BY <1>2, <3>1 DEF ContentInv, CopyOf
    <3>3. ASSUME restoring # NoWork, restoring.id = disk'[q].file, disk'[restoring.path].file = restoring.file
          PROVE  CopyOf(disk'[q].file, disk'[restoring.path], discarded')
      <4>1. CASE restoring.path = p
        <5>1. object = NoObject
          BY <1>1, <1>3, <2>2, <3>3, <4>1
        <5> QED
          BY <1>2, <1>3, <4>1, <5>1 DEF CopyOf
      <4>2. CASE restoring.path # p
        BY <1>2, <1>3, <2>2, <3>1, <3>3, <4>2 DEF ContentInv, CopyOf
      <4> QED
        BY <4>1, <4>2
    <3> QED
      BY <3>2, <3>3
  <2> QED
    BY <2>3, <2>4
<1> QED
  BY <1>2, <1>5, <1>6, <1>7 DEF ContentInv

LEMMA MoveKeepsContent == ASSUME JournalInv, ContentInv, Move PROVE ContentInv'
<1> DEFINE p == work.path
           f == work.file
<1>1. /\ p \in Home /\ p \in Paths /\ f \in 1 .. used /\ disk[p].file = f
  BY WorkUnderWay DEF Move
<1>2. /\ DOMAIN vault' = DOMAIN vault \union {f} /\ vault'[f] = disk[p] /\ f \notin DOMAIN vault
      /\ \A i \in DOMAIN vault : vault'[i] = vault[i]
  BY PutAndTake DEF Move, Free
<1>3. disk' = [disk EXCEPT ![p] = NoObject] /\ UNCHANGED <<restoring, used, discarded>>
  BY DEF Move
<1>4. work'.at = "moved"
  BY WorkUnderWay DEF Move, Go
<1>5. /\ disk'[p] = NoObject /\ \A q \in Paths \ {p} : disk'[q] = disk[q]
      /\ NoObject.file = 0 /\ NoObject.content = 0 /\ used \in Nat
  BY <1>1, <1>3 DEF JournalInv, DiskInv, NoObject
<1> HIDE DEF p, f
<1>6. \A q \in Away : q \in Paths /\ q # p /\ disk'[q] = disk[q] /\ disk[q].file # f
  <2>1. ASSUME NEW q \in Away PROVE q \in Paths /\ q # p /\ disk'[q] = disk[q]
    BY <1>1, <1>5 DEF Away
  <2>2. ASSUME NEW q \in Away PROVE disk[q].file # f
    <3>1. disk[q].file # 0 => \A r \in Paths \ {q} : disk[r].file # disk[q].file
      BY DEF JournalInv, DiskInv
    <3>2. p \in Paths \ {q} /\ f # 0
      BY <1>1, <1>5, <2>1
    <3> QED
      BY <1>1, <3>1, <3>2
  <2> QED
    BY <2>1, <2>2
<1>7. ContentIsKept'
  <2>1. \A c : Somewhere(c) => Somewhere(c)'
    <3>1. ASSUME NEW c, NEW q \in Paths, disk[q].content = c PROVE Somewhere(c)'
      <4>1. CASE q = p
        BY <1>2, <3>1, <4>1 DEF Somewhere
      <4>2. CASE q # p
        BY <1>5, <3>1, <4>2 DEF Somewhere
      <4> QED
        BY <4>1, <4>2
    <3>2. ASSUME NEW c, NEW i \in DOMAIN vault, vault[i].content = c PROVE Somewhere(c)'
      BY <1>2, <3>2 DEF Somewhere
    <3> QED
      BY <3>1, <3>2 DEF Somewhere
  <2> QED
    BY <1>3, <2>1 DEF ContentInv, ContentIsKept, Somewhere
<1>8. ASSUME NEW q \in Away
      PROVE  /\ disk'[q].file \in DOMAIN vault' => CopyOf(disk'[q].file, vault'[disk'[q].file], discarded')
             /\ restoring # NoWork /\ restoring.id = disk'[q].file /\ disk'[restoring.path].file = restoring.file =>
                  CopyOf(disk'[q].file, disk'[restoring.path], discarded')
  <2>1. disk'[q].file \in DOMAIN vault' => CopyOf(disk'[q].file, vault'[disk'[q].file], discarded')
    BY <1>2, <1>3, <1>6 DEF ContentInv, CopyOf
  <2>2. restoring # NoWork => restoring.path \in Paths
    BY QuarantineAssumption DEF JournalInv, RestoreInv
  <2>3. CASE restoring.path = p
    BY <1>5, <2>1, <2>3 DEF CopyOf
  <2>4. CASE restoring.path # p
    BY <1>3, <1>5, <1>6, <2>1, <2>2, <2>4 DEF ContentInv, CopyOf
  <2> QED
    BY <2>3, <2>4
<1> QED
  BY <1>3, <1>4, <1>7, <1>8 DEF ContentInv

LEMMA BeginCopyKeepsContent == ASSUME JournalInv, ContentInv, BeginCopy PROVE ContentInv'
<1> DEFINE f == work.file
           fragment == [file |-> used + 1, content |-> 0, single |-> TRUE]
<1>1. /\ DOMAIN vault' = DOMAIN vault \union {f} /\ vault'[f] = fragment /\ f \notin DOMAIN vault
      /\ \A i \in DOMAIN vault : vault'[i] = vault[i]
  <2>1. Put(f, fragment) /\ f \notin DOMAIN vault
    BY DEF BeginCopy, Free
  <2> HIDE DEF f, fragment
  <2> QED
    BY <2>1, PutAndTake
<1>2. /\ used \in Nat /\ used' = used + 1 /\ UNCHANGED <<disk, restoring>>
      /\ discarded' = discarded \union {used'} /\ work'.at = "copy"
  <2>1. work = [at |-> work.at, path |-> work.path, file |-> work.file]
    BY WorkUnderWay DEF BeginCopy
  <2>2. work'.at = "copy"
    BY <2>1 DEF BeginCopy, Go
  <2> QED
    BY <2>2 DEF BeginCopy, JournalInv, DiskInv
<1>3. fragment.content = 0
  OBVIOUS
<1> HIDE DEF f, fragment
<1>4. ContentIsKept'
  <2>1. \A c \in (1 .. used') \ discarded' : c \in (1 .. used) \ discarded
    BY <1>2
  <2>2. \A c : Somewhere(c) => Somewhere(c)'
    BY <1>1, <1>2 DEF Somewhere
  <2> QED
    BY <2>1, <2>2, KeptIsSomewhere DEF ContentInv, ContentIsKept, Somewhere
<1>5. ASSUME NEW q \in Away
      PROVE  /\ disk'[q].file \in DOMAIN vault' => CopyOf(disk'[q].file, vault'[disk'[q].file], discarded')
             /\ restoring # NoWork /\ restoring.id = disk'[q].file /\ disk'[restoring.path].file = restoring.file =>
                  CopyOf(disk'[q].file, disk'[restoring.path], discarded')
  BY <1>1, <1>2, <1>3 DEF ContentInv, CopyOf
<1> QED
  BY <1>2, <1>4, <1>5 DEF ContentInv

LEMMA CopyContentKeepsContent == ASSUME JournalInv, ContentInv, CopyContent PROVE ContentInv'
<1> DEFINE p == work.path
           f == work.file
           copy == [vault[f] EXCEPT !.content = disk[p].content]
<1>1. /\ work = [at |-> "copy", path |-> p, file |-> f]
      /\ p \in Away /\ f \in 1 .. used /\ f \in DOMAIN vault /\ vault[f].content = 0
  BY WorkUnderWay DEF CopyContent, JournalInv, WorkInv, NoWork
<1>2. UNCHANGED <<disk, restoring, used, discarded>> /\ used \in Nat
  BY DEF CopyContent, JournalInv, DiskInv
<1>3. ASSUME NEW q \in Away
      PROVE  restoring # NoWork /\ restoring.id = disk[q].file /\ disk[restoring.path].file = restoring.file =>
               CopyOf(disk[q].file, disk[restoring.path], discarded)
  BY DEF ContentInv
<1>4. CASE Put(f, copy) /\ Go("copied")
  <2>1. copy.content = f
    <3>1. vault[f] \in Objects /\ disk[p].content = f
      BY <1>1, WorkUnderWay DEF JournalInv, VaultInv, DiskInv
    <3> QED
      BY <3>1 DEF Objects
  <2>2. work'.at = "copied" /\ work'.file = f /\ work'.path = p
    BY <1>1, <1>4 DEF Go
  <2> HIDE DEF p, f, copy
  <2>3. /\ DOMAIN vault' = DOMAIN vault /\ vault'[f] = copy
        /\ \A i \in DOMAIN vault : i # f => vault'[i] = vault[i]
    BY <1>1, <1>4, PutAndTake
  <2>4. f \in DOMAIN vault' /\ vault'[f].content = f
    BY <1>1, <2>1, <2>3
  <2>5. ContentIsKept'
    <3>1. \A c \in 1 .. used : Somewhere(c) => Somewhere(c)'
      BY <1>1, <1>2, <2>3 DEF Somewhere
    <3> QED
      BY <1>2, <3>1, KeptIsSomewhere DEF ContentInv, ContentIsKept, Somewhere
  <2>6. ASSUME NEW q \in Away, disk[q].file \in DOMAIN vault
        PROVE  CopyOf(disk[q].file, vault'[disk[q].file], discarded)
    BY <2>1, <2>3, <2>6 DEF ContentInv, CopyOf
  <2>7. (work.at = "copied" => work.file \in discarded \/ KeptBeside(work.file, work.path))'
    <3>1. KeptBeside(work.file, work.path)'
      BY <2>2, <2>4 DEF KeptBeside
    <3> QED
      BY <3>1
  <2>8. \A q \in Away :
          /\ disk'[q].file \in DOMAIN vault' => CopyOf(disk'[q].file, vault'[disk'[q].file], discarded')
          /\ restoring' # NoWork /\ restoring'.id = disk'[q].file /\ disk'[restoring'.path].file = restoring'.file =>
               CopyOf(disk'[q].file, disk'[restoring'.path], discarded')
    BY <1>2, <1>3, <2>3, <2>6
  <2> QED
    BY <2>5, <2>7, <2>8 DEF ContentInv
<1>5. CASE Take(f) /\ work' = NoWork
  <2> HIDE DEF p, f, copy
  <2>1. DOMAIN vault' = DOMAIN vault \ {f} /\ \A i \in DOMAIN vault' : vault'[i] = vault[i]
    BY <1>5, PutAndTake
  <2>2. ContentIsKept'
    <3>1. \A c \in 1 .. used : Somewhere(c) => Somewhere(c)'
      BY <1>1, <1>2, <2>1 DEF Somewhere
    <3> QED
      BY <1>2, <3>1, KeptIsSomewhere DEF ContentInv, ContentIsKept, Somewhere
  <2>3. ASSUME NEW q \in Away, disk[q].file \in DOMAIN vault'
        PROVE  CopyOf(disk[q].file, vault'[disk[q].file], discarded)
    BY <2>1, <2>3 DEF ContentInv
  <2>4. work'.at # "copied"
    BY <1>5 DEF NoWork
  <2>5. \A q \in Away :
          /\ disk'[q].file \in DOMAIN vault' => CopyOf(disk'[q].file, vault'[disk'[q].file], discarded')
          /\ restoring' # NoWork /\ restoring'.id = disk'[q].file /\ disk'[restoring'.path].file = restoring'.file =>
               CopyOf(disk'[q].file, disk'[restoring'.path], discarded')
    BY <1>2, <1>3, <2>3
  <2> QED
    BY <2>2, <2>4, <2>5 DEF ContentInv
<1> QED
  BY <1>4, <1>5 DEF CopyContent

LEMMA DeleteSourceKeepsContent == ASSUME JournalInv, ContentInv, DeleteSource PROVE ContentInv'
<1> DEFINE p == work.path
           f == work.file
<1>1. /\ work = [at |-> "copied", path |-> p, file |-> f]
      /\ p \in Away /\ p \in Paths /\ f \in 1 .. used /\ disk[p].file = f /\ disk[p].content = f
  BY WorkUnderWay DEF DeleteSource, JournalInv, WorkInv, DiskInv, NoWork
<1>2. UNCHANGED <<restoring, used, discarded>> /\ used \in Nat
  BY DEF DeleteSource, JournalInv, DiskInv
<1>3. restoring # NoWork => restoring.id \in 1 .. used /\ restoring.path \in Paths /\ restoring.path # p
  BY <1>1, QuarantineAssumption DEF JournalInv, RestoreInv, Away
<1>4. CASE disk' = [disk EXCEPT ![p] = NoObject] /\ UNCHANGED vault /\ Go("moved")
  <2>1. work'.at = "moved"
    BY <1>1, <1>4 DEF Go
  <2> HIDE DEF p, f
  <2>2. /\ disk'[p] = NoObject /\ \A q \in Paths \ {p} : disk'[q] = disk[q]
        /\ NoObject.file = 0 /\ NoObject.content = 0
    BY <1>1, <1>4 DEF JournalInv, DiskInv, NoObject
  <2>3. f \in discarded \/ KeptBeside(f, p)
    BY <1>1 DEF ContentInv, p, f
  <2>4. ContentIsKept'
    <3>1. ASSUME NEW c \in (1 .. used) \ discarded PROVE Somewhere(c)'
      <4>1. Somewhere(c)
        BY KeptIsSomewhere DEF ContentInv
      <4>2. CASE c = f
        BY <1>4, <2>2, <2>3, <3>1, <4>2 DEF KeptBeside, Somewhere
      <4>3. CASE c # f
        BY <1>1, <1>4, <2>2, <4>1, <4>3 DEF Somewhere
      <4> QED
        BY <4>2, <4>3
    <3> QED
      BY <1>2, <3>1 DEF ContentIsKept, Somewhere
  <2>5. \A i \in DOMAIN vault : i # 0
    BY DEF JournalInv, VaultInv
  <2>6. ASSUME NEW q \in Away
        PROVE  /\ disk'[q].file \in DOMAIN vault => CopyOf(disk'[q].file, vault[disk'[q].file], discarded)
               /\ restoring # NoWork /\ restoring.id = disk'[q].file /\ disk'[restoring.path].file = restoring.file =>
                    CopyOf(disk'[q].file, disk'[restoring.path], discarded)
    <3>1. CASE q = p
      BY <1>2, <1>3, <2>2, <2>5, <3>1
    <3>2. CASE q # p
      <4>1. disk'[q] = disk[q]
        BY <2>2, <3>2 DEF Away
      <4> QED
        BY <1>3, <2>2, <4>1 DEF ContentInv
    <3> QED
      BY <3>1, <3>2
  <2> QED
    BY <1>2, <1>4, <2>1, <2>4, <2>6 DEF ContentInv
<1>5. CASE Take(f) /\ UNCHANGED disk /\ work' = NoWork
  <2> HIDE DEF p, f
  <2>1. DOMAIN vault' = DOMAIN vault \ {f} /\ \A i \in DOMAIN vault' : vault'[i] = vault[i]
    BY <1>5, PutAndTake
  <2>2. f \in DOMAIN vault => vault[f].content \in {0, f} \union discarded
    BY <1>1 DEF ContentInv, CopyOf
  <2>3. ContentIsKept'
    <3>1. ASSUME NEW c \in (1 .. used) \ discarded PROVE Somewhere(c)'
      <4>1. Somewhere(c)
        BY KeptIsSomewhere DEF ContentInv
      <4>2. CASE c = f
        BY <1>1, <1>5, <4>2 DEF Somewhere
      <4>3. CASE c # f
        BY <1>2, <1>5, <2>1, <2>2, <3>1, <4>1, <4>3 DEF Somewhere
      <4> QED
        BY <4>2, <4>3
    <3> QED
      BY <1>2, <3>1 DEF ContentIsKept, Somewhere
  <2>4. ASSUME NEW q \in Away
        PROVE  /\ disk[q].file \in DOMAIN vault' => CopyOf(disk[q].file, vault'[disk[q].file], discarded)
               /\ restoring # NoWork /\ restoring.id = disk[q].file /\ disk[restoring.path].file = restoring.file =>
                    CopyOf(disk[q].file, disk[restoring.path], discarded)
    BY <2>1 DEF ContentInv
  <2> QED
    BY <1>2, <1>5, <2>3, <2>4 DEF ContentInv, NoWork
<1> QED
  BY <1>4, <1>5 DEF DeleteSource

LEMMA RestoreMoveKeepsContent ==
    ASSUME JournalInv, ContentInv, NEW i \in DOMAIN vault, NEW p \in Paths, RestoreMove(i, p)
    PROVE  ContentInv'
<1>1. /\ restoring = NoWork /\ p \in Home /\ disk[p] = NoObject
      /\ disk' = [disk EXCEPT ![p] = vault[i]] /\ Take(i)
      /\ restoring' = [at |-> "check", path |-> p, id |-> i, file |-> vault[i].file]
      /\ UNCHANGED <<work, used, discarded>>
  BY DEF RestoreMove
<1>2. DOMAIN vault' = DOMAIN vault \ {i} /\ \A j \in DOMAIN vault' : vault'[j] = vault[j]
  BY <1>1, PutAndTake
<1>3. /\ disk'[p] = vault[i] /\ \A q \in Paths \ {p} : disk'[q] = disk[q]
      /\ NoObject.content = 0 /\ NoObject.file = 0 /\ used \in Nat
  BY <1>1 DEF JournalInv, DiskInv, NoObject
<1>4. \A q \in Away : q \in Paths /\ q # p /\ disk'[q] = disk[q]
  BY <1>1, <1>3 DEF Away
<1>5. ContentIsKept'
  <2>1. ASSUME NEW c \in 1 .. used, Somewhere(c) PROVE Somewhere(c)'
    <3>1. ASSUME NEW q \in Paths, disk[q].content = c PROVE Somewhere(c)'
      BY <1>1, <1>3, <3>1 DEF Somewhere
    <3>2. ASSUME NEW j \in DOMAIN vault, vault[j].content = c PROVE Somewhere(c)'
      BY <1>2, <1>3, <3>2 DEF Somewhere
    <3> QED
      BY <2>1, <3>1, <3>2 DEF Somewhere
  <2> QED
    BY <1>1, <2>1, KeptIsSomewhere DEF ContentInv, ContentIsKept, Somewhere
<1>6. work.at = "copied" => work.file \in discarded \/ KeptBeside(work.file, work.path)'
  <2>1. ASSUME work.at = "copied" PROVE work.path \in Away /\ work.file # 0
    BY <1>3, <2>1, WorkUnderWay DEF JournalInv, WorkInv, NoWork
  <2>2. ASSUME work.at = "copied", KeptBeside(work.file, work.path) PROVE KeptBeside(work.file, work.path)'
    <3>1. ASSUME NEW q \in Paths \ {work.path}, disk[q].content = work.file PROVE KeptBeside(work.file, work.path)'
      BY <1>1, <1>3, <2>1, <2>2, <3>1 DEF KeptBeside
    <3>2. ASSUME NEW j \in DOMAIN vault, vault[j].content = work.file PROVE KeptBeside(work.file, work.path)'
      <4>1. CASE j = i
        <5>1. p \in Paths \ {work.path} /\ disk'[p].content = work.file
          BY <1>3, <1>4, <2>1, <2>2, <3>2, <4>1
        <5> QED
          BY <1>1, <5>1 DEF KeptBeside
      <4>2. CASE j # i
        BY <1>1, <1>2, <3>2, <4>2 DEF KeptBeside
      <4> QED
        BY <4>1, <4>2
    <3> QED
      BY <2>2, <3>1, <3>2, KeptIsSomewhere
  <2> QED
    BY <2>2 DEF ContentInv
<1>7. ASSUME NEW q \in Away
      PROVE  /\ disk'[q].file \in DOMAIN vault' => CopyOf(disk'[q].file, vault'[disk'[q].file], discarded)
             /\ restoring'.id = disk'[q].file => CopyOf(disk'[q].file, disk'[restoring'.path], discarded)
  BY <1>1, <1>2, <1>3, <1>4 DEF ContentInv
<1> QED
  BY <1>1, <1>5, <1>6, <1>7 DEF ContentInv

LEMMA MoveBackKeepsContent ==
    ASSUME JournalInv, ContentInv, restoring # NoWork, MoveBack, UNCHANGED <<work, used>>
    PROVE  ContentInv'
<1> DEFINE i == restoring.id
           p == restoring.path
<1>1. p \in Home /\ p \in Paths /\ restoring' = NoWork
  BY QuarantineAssumption DEF JournalInv, RestoreInv, MoveBack
<1>2. CASE UNCHANGED <<disk, vault, discarded>>
  BY <1>1, <1>2, ContentStays
<1>3. ASSUME disk[p] # NoObject, Free(i), Put(i, disk[p]), disk' = [disk EXCEPT ![p] = NoObject],
             discarded' = IF disk[p].file = restoring.file THEN discarded ELSE discarded \union {disk[p].content}
      PROVE  ContentInv'
  <2>1. \A q \in Away : i = disk[q].file => CopyOf(i, disk[p], discarded')
    BY <1>3 DEF ContentInv, CopyOf
  <2> HIDE DEF i, p
  <2>2. /\ DOMAIN vault' = DOMAIN vault \union {i} /\ vault'[i] = disk[p] /\ i \notin DOMAIN vault
        /\ \A j \in DOMAIN vault : vault'[j] = vault[j]
    BY <1>3, PutAndTake DEF Free
  <2>3. /\ disk'[p] = NoObject /\ \A q \in Paths \ {p} : disk'[q] = disk[q]
        /\ discarded \subseteq discarded'
    BY <1>1, <1>3 DEF JournalInv, DiskInv
  <2>4. \A q \in Away : q \in Paths /\ q # p /\ disk'[q] = disk[q]
    BY <1>1, <2>3 DEF Away
  <2>5. ContentIsKept'
    <3>1. ASSUME NEW c, Somewhere(c) PROVE Somewhere(c)'
      <4>1. ASSUME NEW q \in Paths, disk[q].content = c PROVE Somewhere(c)'
        <5>1. CASE q = p
          BY <2>2, <4>1, <5>1 DEF Somewhere
        <5>2. CASE q # p
          BY <2>3, <4>1, <5>2 DEF Somewhere
        <5> QED
          BY <5>1, <5>2
      <4>2. ASSUME NEW j \in DOMAIN vault, vault[j].content = c PROVE Somewhere(c)'
        BY <2>2, <4>2 DEF Somewhere
      <4> QED
        BY <3>1, <4>1, <4>2 DEF Somewhere
    <3> QED
      BY <2>3, <3>1, KeptIsSomewhere DEF ContentInv, ContentIsKept, Somewhere
  <2>6. work.at = "copied" => work.file \in discarded' \/ KeptBeside(work.file, work.path)'
    <3>1. ASSUME KeptBeside(work.file, work.path) PROVE KeptBeside(work.file, work.path)'
      <4>1. ASSUME NEW q \in Paths \ {work.path}, disk[q].content = work.file PROVE KeptBeside(work.file, work.path)'
        <5>1. CASE q = p
          BY <2>2, <4>1, <5>1 DEF KeptBeside
        <5>2. CASE q # p
          BY <2>3, <4>1, <5>2 DEF KeptBeside
        <5> QED
          BY <5>1, <5>2
      <4>2. ASSUME NEW j \in DOMAIN vault, vault[j].content = work.file PROVE KeptBeside(work.file, work.path)'
        BY <2>2, <4>2 DEF KeptBeside
      <4> QED
        BY <3>1, <4>1, <4>2, KeptIsSomewhere
    <3> QED
      BY <2>3, <3>1 DEF ContentInv
  <2>7. ASSUME NEW q \in Away, disk'[q].file \in DOMAIN vault' PROVE CopyOf(disk'[q].file, vault'[disk'[q].file], discarded')
    <3>1. CASE disk'[q].file = i
      BY <2>1, <2>2, <2>4, <3>1
    <3>2. CASE disk'[q].file # i
      BY <2>2, <2>3, <2>4, <2>7, <3>2 DEF ContentInv, CopyOf
    <3> QED
      BY <3>1, <3>2
  <2> QED
    BY <1>1, <2>5, <2>6, <2>7 DEF ContentInv
<1> QED
  BY <1>2, <1>3 DEF MoveBack

LEMMA ContentInvStep == JournalInv /\ ContentInv /\ [QuarantineNext]_quarantineVars => ContentInv'
<1> SUFFICES ASSUME JournalInv, ContentInv, [QuarantineNext]_quarantineVars PROVE ContentInv'
  OBVIOUS
<1>1. CASE UNCHANGED quarantineVars
  BY <1>1, ContentStays DEF quarantineVars
<1>2. ASSUME NEW p \in Paths, UserWrites(p) \/ ClassifyPending(p) PROVE ContentInv'
  BY <1>2, UserKeepsContent, ManagerSteps, ContentStays
<1>3. CASE SetPolicy \/ QuarantineStart \/ ScanPass \/ NextCandidate \/ QuarantineCrash
  BY <1>3, ManagerSteps, ContentStays
<1>4. CASE ClassifySteps
  BY <1>4, LookingSteps, ContentStays, MoveKeepsContent, BeginCopyKeepsContent, CopyContentKeepsContent,
     DeleteSourceKeepsContent DEF ClassifySteps
<1>5. CASE RestoreSteps
  <2>1. ASSUME NEW i \in DOMAIN vault, NEW p \in Paths, RestoreMove(i, p) PROVE ContentInv'
    BY <2>1, RestoreMoveKeepsContent
  <2>2. CASE RestoreBack
    BY <2>2, MoveBackKeepsContent DEF RestoreBack, NoWork
  <2>3. CASE RestoreJournal
    <3>1. restoring # NoWork /\ UNCHANGED <<disk, vault, used, discarded, work>>
      BY <2>3 DEF RestoreJournal, NoWork
    <3>2. restoring = [at |-> restoring.at, path |-> restoring.path, id |-> restoring.id, file |-> restoring.file]
      BY <3>1 DEF JournalInv, RestoreInv
    <3>3. restoring'.path = restoring.path /\ restoring'.id = restoring.id /\ restoring'.file = restoring.file
      BY <2>3, <3>2 DEF RestoreJournal
    <3> QED
      BY <3>1, <3>3, ContentStays
  <2>4. CASE RestoreVerdict
    <3>1. restoring # NoWork /\ UNCHANGED <<work, used>>
      BY <2>4 DEF RestoreVerdict, NoWork
    <3>2. CASE MoveBack
      BY <3>1, <3>2, MoveBackKeepsContent
    <3>3. CASE restoring' = NoWork /\ UNCHANGED <<disk, vault, records, discarded>>
      BY <3>1, <3>3, ContentStays
    <3> QED
      BY <2>4, <3>2, <3>3 DEF RestoreVerdict
  <2>5. CASE RestoreKilled
    BY <2>5, ContentStays DEF RestoreKilled
  <2> QED
    BY <1>5, <2>1, <2>2, <2>3, <2>4, <2>5 DEF RestoreSteps
<1> QED
  BY <1>1, <1>2, <1>3, <1>4, <1>5 DEF QuarantineNext

\* Whatever users saved stays whole at a path or in the vault until a user replaces it:
\* through moves, copies that fail, crashes and restores that go back (classify,
\* copy_locked_to_quarantine, restore).
THEOREM ContentStaysKept == QuarantineInit /\ [][QuarantineNext]_quarantineVars => []ContentIsKept
<1>1. JournalInv /\ ContentInv => ContentIsKept
  BY DEF ContentInv
<1> QED
  BY <1>1, JournalInvInit, ContentInvInit, JournalInvStep, ContentInvStep, PTL

=============================================================================
