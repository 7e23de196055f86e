----------------------------- MODULE Quarantine -----------------------------
(***************************************************************************)
(* The broker's QuarantineManager: the content policy it loads, its passes *)
(* over the download folders and the driver's requests, the judgement of a *)
(* locked file, the two ways into the vault with their journal, and the    *)
(* administrator's restore, which runs in a process of its own.            *)
(***************************************************************************)
EXTENDS Integers, FiniteSets

CONSTANTS Paths, Home,        \* the watched paths, those on the vault's volume
          CategoryOf,         \* content_category of each path, or "transient"
          StoredPolicies,     \* what content-protection.bin may hold
          PassLimit,          \* maximum_per_pass
          MaxFiles            \* bound on the files users and copies create

Categories == {"documents", "programs", "unknown"}
Execution  == {"programs"}

ASSUME QuarantineAssumption ==
    /\ Home \subseteq Paths
    /\ CategoryOf \in [Paths -> Categories \union {"transient"}]
    /\ PassLimit \in Nat \ {0} /\ MaxFiles \in Nat

VARIABLES
    stored,      \* the policy file
    disk,        \* what is at a path: a file's identity and its content
    vault,       \* objects by identifier: the identity of the file that was isolated
    records,     \* provenance.jsonl, journal.jsonl and restore.jsonl
    manager,     \* the broker's memory
    work,        \* classify, between its steps
    restoring,   \* the restore, between its steps
    used,        \* files created so far
    discarded    \* history: contents users overwrote or removed, numbers of copies, and
                 \* strays: what a restore going back found at the path in its object's stead

quarantineVars == <<stored, disk, vault, records, manager, work, restoring, used, discarded>>

NoObject       == [file |-> 0, content |-> 0, single |-> FALSE]
NoWork         == [at |-> "idle"]
ManagerStopped == [policy |-> 0]

-----------------------------------------------------------------------------
(* The content policy *)

Strictest == [enabled |-> Categories, failClosed |-> TRUE, release |-> TRUE]

\* Older versions lack categories and the release: both come switched on.
Migrated(s) ==
    [enabled    |-> s.enabled \union (IF s.version = 1 THEN Execution ELSE {})
                              \union (IF s.version < 4 THEN {"unknown"} ELSE {}),
     failClosed |-> s.failClosed,
     release    |-> s.version < 3 \/ s.release]

\* No file, one that cannot be decrypted, or an invalid one: everything is protected.
LoadPolicy(s) ==
    IF s.version \in 1 .. 4 /\ Migrated(s).enabled \subseteq Categories THEN Migrated(s) ELSE Strictest

\* content-policy-set, in a process of its own
SetPolicy ==
    /\ \E s \in {p \in StoredPolicies : p.version = 4 /\ p.enabled \subseteq Categories} : stored' = s
    /\ UNCHANGED <<disk, vault, records, manager, work, restoring, used, discarded>>

Transient(p) == CategoryOf[p] = "transient"

Bypassed(p) == Transient(p) \/ CategoryOf[p] \notin manager.policy.enabled

Executable(p) == CategoryOf[p] \in Execution \intersect manager.policy.enabled

-----------------------------------------------------------------------------
QuarantineInit ==
    /\ stored \in StoredPolicies
    /\ disk = [p \in Paths |-> NoObject]
    /\ vault = [i \in {} |-> NoObject]
    /\ records = {}
    /\ discarded = {} /\ used = 0
    /\ manager = ManagerStopped /\ work = NoWork /\ restoring = NoWork

\* An open handle of classify shares reading only.
Locked(p) == work.at \notin {"idle", "open", "moved"} /\ work.path = p

\* A user saves, downloads or links a file, over what was there, or removes it.
UserWrites(p) ==
    /\ ~Locked(p)
    /\ \/ /\ used < MaxFiles /\ used' = used + 1
          /\ \E one \in BOOLEAN :
               disk' = [disk EXCEPT ![p] = [file |-> used', content |-> used', single |-> one]]
       \/ disk' = [disk EXCEPT ![p] = NoObject] /\ UNCHANGED used
    /\ discarded' = discarded \union {disk[p].content}
    /\ UNCHANGED <<stored, vault, records, manager, work, restoring>>

Present == {p \in Paths : disk[p] # NoObject}

\* Everything found at the start counts as processed.
QuarantineStart ==
    /\ manager = ManagerStopped
    /\ manager' = [policy    |-> LoadPolicy(stored),
                   processed |-> [p \in Paths |-> IF CategoryOf[p] \in LoadPolicy(stored).enabled
                                                    THEN disk[p].file ELSE 0],
                   sighted   |-> [p \in Paths |-> 0], queue |-> {}]
    /\ UNCHANGED <<stored, disk, vault, records, work, restoring, used, discarded>>

\* A pass of scan.  A file unchanged since the pass before is a candidate; only so many
\* are taken, and none when the walk is cut short: those left begin to be seen anew.
ScanPass ==
    /\ manager # ManagerStopped /\ work = NoWork /\ manager.queue = {}
    /\ \E visited \in SUBSET {p \in Present : ~Transient(p) /\ disk[p].file # manager.processed[p]} :
         LET candidates == {p \in visited : manager.sighted[p] = disk[p].file} IN
         \E taken \in SUBSET candidates :
           /\ taken = {} \/ taken = candidates \/ Cardinality(taken) = PassLimit
           /\ Cardinality(taken) <= PassLimit
           /\ manager' = [manager EXCEPT
                !.policy  = LoadPolicy(stored),
                !.sighted = [p \in Paths |-> IF p \in candidates THEN 0
                                             ELSE IF p \in visited THEN disk[p].file ELSE @[p]],
                !.queue   = {[path |-> p, file |-> disk[p].file] : p \in taken}]
    /\ UNCHANGED <<stored, disk, vault, records, work, restoring, used, discarded>>

\* The pass goes on with its next candidate, as it was listed.
NextCandidate ==
    /\ manager # ManagerStopped /\ work = NoWork
    /\ \E c \in manager.queue :
         /\ work' = [at |-> "open", path |-> c.path, file |-> c.file]
         /\ manager' = [manager EXCEPT !.queue = @ \ {c}]
    /\ UNCHANGED <<stored, disk, vault, records, restoring, used, discarded>>

\* classify_pending: the driver asks for a file by its identifier.
ClassifyPending(p) ==
    /\ manager # ManagerStopped /\ work = NoWork /\ manager.queue = {} /\ p \in Present
    /\ manager' = [manager EXCEPT !.policy = LoadPolicy(stored)]
    /\ work' = [at |-> "open", path |-> p, file |-> disk[p].file]
    /\ UNCHANGED <<stored, disk, vault, records, restoring, used, discarded>>

-----------------------------------------------------------------------------
(* classify *)

Go(step) == work' = [work EXCEPT !.at = step]

\* retry_pending and identity_rejected: the file is left for a later pass.  A locked one is
\* when hash_locked_file finds another size or takes over five seconds, or the driver does
\* not take the verdict on a file that is not analysed (kernel_verdict_failed).
Retry ==
    /\ work.at \in {"open", "locked", "clear", "isolate", "move"} /\ work' = NoWork
    /\ UNCHANGED <<stored, disk, vault, records, manager, restoring, used, discarded>>

\* The file is locked, and must be the one listed, with one name and no other stream.
OpenLocked ==
    /\ work.at = "open"
    /\ IF disk[work.path].file = work.file /\ disk[work.path].single THEN Go("locked") ELSE work' = NoWork
    /\ UNCHANGED <<stored, disk, vault, records, manager, restoring, used, discarded>>

\* The CLEAN verdict reaches the driver.
Clear ==
    /\ manager' = [manager EXCEPT !.processed[work.path] = work.file]
    /\ work' = NoWork

Bypass ==
    /\ work.at = "locked" /\ Bypassed(work.path)
    /\ Clear
    /\ UNCHANGED <<stored, disk, vault, records, restoring, used, discarded>>

Verdicts         == {"clean", "threat", "unavailable", "suspicious"}
SignatureResults == {"pinned", "unpinned", "none"}

\* Whether a file with this signature and scan result goes into quarantine.
MustIsolate(p, signature, verdict) ==
    \/ manager.policy.release
    \/ Executable(p) /\ signature # "pinned"
    \/ verdict \in {"suspicious", "threat"}
    \/ manager.policy.failClosed /\ verdict = "unavailable"

\* Hashed, examined and scanned; what was found is put on record before anything is done.
Judge ==
    /\ work.at = "locked" /\ ~Bypassed(work.path)
    /\ \E signature \in SignatureResults, verdict \in Verdicts :
         IF MustIsolate(work.path, signature, verdict) THEN Go("isolate") ELSE Go("clear")
    /\ records' = records \union {<<work.file, "seen">>}
    /\ UNCHANGED <<stored, disk, vault, manager, restoring, used, discarded>>

SubmitClean ==
    /\ work.at = "clear"
    /\ Clear
    /\ UNCHANGED <<stored, disk, vault, records, restoring, used, discarded>>

\* Fault: the file is moved although its intent could not be written.
WriteIntent_Ignored ==
    /\ work.at = "isolate"
    /\ records' \in {records, records \union {<<work.file, "intent">>}}
    /\ Go("move")
    /\ UNCHANGED <<stored, disk, vault, manager, restoring, used, discarded>>

WriteIntent ==
    /\ work.at = "isolate"
    /\ records' = records \union {<<work.file, "intent">>}
    /\ Go("move")
    /\ UNCHANGED <<stored, disk, vault, manager, restoring, used, discarded>>

Put(identifier, object) ==
    vault' = [i \in DOMAIN vault \union {identifier} |-> IF i = identifier THEN object ELSE vault[i]]

Take(identifier) == vault' = [i \in DOMAIN vault \ {identifier} |-> vault[i]]

Free(identifier) == identifier \notin DOMAIN vault

\* On the vault's volume the object is renamed, over nothing.
Move ==
    /\ work.at = "move" /\ work.path \in Home /\ Free(work.file)
    /\ Put(work.file, disk[work.path])
    /\ disk' = [disk EXCEPT ![work.path] = NoObject]
    /\ Go("moved")
    /\ UNCHANGED <<stored, records, manager, restoring, used, discarded>>

\* Elsewhere it is copied to a new file, so far a fragment, with an identity of its own,
BeginCopy ==
    /\ work.at = "move" /\ work.path \notin Home /\ Free(work.file)
    /\ used < MaxFiles /\ used' = used + 1
    /\ Put(work.file, [file |-> used', content |-> 0, single |-> TRUE])
    /\ discarded' = discarded \union {used'}
    /\ Go("copy")
    /\ UNCHANGED <<stored, disk, records, manager, restoring>>

\* the copy compared with the digest, or deleted,
CopyContent ==
    /\ work.at = "copy"
    /\ \/ Put(work.file, [vault[work.file] EXCEPT !.content = disk[work.path].content]) /\ Go("copied")
       \/ Take(work.file) /\ work' = NoWork
    /\ UNCHANGED <<stored, disk, records, manager, restoring, used, discarded>>

\* Fault: the source goes before the copy has been compared.
DeleteSource_Early ==
    /\ work.at \in {"copy", "copied"}
    /\ disk' = [disk EXCEPT ![work.path] = NoObject]
    /\ Go("moved")
    /\ UNCHANGED <<stored, vault, records, manager, restoring, used, discarded>>

\* and the source removed under its lock; when that fails the copy goes again.
DeleteSource ==
    /\ work.at = "copied"
    /\ \/ /\ disk' = [disk EXCEPT ![work.path] = NoObject]
          /\ UNCHANGED vault /\ Go("moved")
       \/ /\ Take(work.file)
          /\ UNCHANGED disk /\ work' = NoWork
    /\ UNCHANGED <<stored, records, manager, restoring, used, discarded>>

\* The verdict and the committed record, whose results nobody looks at.
Commit ==
    /\ work.at = "moved" /\ work' = NoWork
    /\ records' \in {records, records \union {<<work.file, "committed">>}}
    /\ UNCHANGED <<stored, disk, vault, manager, restoring, used, discarded>>

\* The broker ends at any step; its locks and its memory go.
QuarantineCrash ==
    /\ manager # ManagerStopped
    /\ manager' = ManagerStopped /\ work' = NoWork
    /\ UNCHANGED <<stored, disk, vault, records, restoring, used, discarded>>

-----------------------------------------------------------------------------
(* restore *)

\* An object with one name goes to a free path on its volume.
RestoreMove(i, p) ==
    /\ restoring = NoWork /\ i \in DOMAIN vault /\ vault[i].single
    /\ p \in Home /\ disk[p] = NoObject /\ ~(work.at = "copy" /\ work.file = i)
    /\ disk' = [disk EXCEPT ![p] = vault[i]]
    /\ Take(i)
    /\ restoring' = [at |-> "check", path |-> p, id |-> i, file |-> vault[i].file]
    /\ UNCHANGED <<stored, records, manager, work, used, discarded>>

\* Whatever is at the path by now goes back under the identifier, if it can.
MoveBack ==
    /\ restoring' = NoWork
    /\ IF disk[restoring.path] # NoObject /\ Free(restoring.id) /\ ~Locked(restoring.path)
         THEN /\ Put(restoring.id, disk[restoring.path])
              /\ disk' = [disk EXCEPT ![restoring.path] = NoObject]
              /\ discarded' = IF disk[restoring.path].file = restoring.file THEN discarded
                              ELSE discarded \union {disk[restoring.path].content}
         ELSE UNCHANGED <<disk, vault, discarded>>

SameObject == disk[restoring.path].file = restoring.file /\ disk[restoring.path].single

RestoreBack ==
    /\ restoring.at \in {"check", "journal"}
    /\ MoveBack
    /\ UNCHANGED <<stored, records, manager, work, used>>

RestoreJournal ==
    /\ restoring.at = "check" /\ SameObject
    /\ records' = records \union {<<restoring.file, "restored">>}
    /\ restoring' = [restoring EXCEPT !.at = "verdict"]
    /\ UNCHANGED <<stored, disk, vault, manager, work, used, discarded>>

\* The driver takes the verdict for the object looked at, or the object goes back.
RestoreVerdict ==
    /\ restoring.at = "verdict"
    /\ \/ /\ restoring' = NoWork
          /\ UNCHANGED <<disk, vault, records, discarded>>
       \/ /\ MoveBack
          /\ records' \in {records, records \union {<<restoring.file, "rolled_back">>}}
    /\ UNCHANGED <<stored, manager, work, used>>

RestoreKilled ==
    /\ restoring # NoWork /\ restoring' = NoWork
    /\ UNCHANGED <<stored, disk, vault, records, manager, work, used, discarded>>

-----------------------------------------------------------------------------
ClassifySteps ==
    \/ Retry \/ OpenLocked \/ Bypass \/ Judge \/ SubmitClean \/ WriteIntent
    \/ Move \/ BeginCopy \/ CopyContent \/ DeleteSource \/ Commit

RestoreSteps ==
    \/ \E i \in DOMAIN vault, p \in Paths : RestoreMove(i, p)
    \/ RestoreBack \/ RestoreJournal \/ RestoreVerdict \/ RestoreKilled

QuarantineNext ==
    \/ SetPolicy \/ \E p \in Paths : UserWrites(p) \/ ClassifyPending(p)
    \/ QuarantineStart \/ ScanPass \/ NextCandidate \/ QuarantineCrash
    \/ ClassifySteps \/ RestoreSteps

-----------------------------------------------------------------------------
(* Properties *)

\* Every content but those is whole somewhere, at a path or in the vault: through moves,
\* copies, failed copies, crashes and restores that go back.
ContentIsKept ==
    \A c \in (1 .. used) \ discarded :
        c \in {disk[p].content : p \in Paths} \union {vault[i].content : i \in DOMAIN vault}

\* The journal tells the truth of the vault after any failure: every object has its
\* provenance and its intent, and what is committed is no unfinished copy of it.
JournalIsTrue ==
    \A i \in DOMAIN vault :
        /\ {<<i, "seen">>, <<i, "intent">>} \subseteq records
        /\ <<i, "committed">> \in records => vault[i].content # 0 \/ vault[i].file = i

=============================================================================
