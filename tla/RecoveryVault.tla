---------------------------- MODULE RecoveryVault ----------------------------
(***************************************************************************)
(* The recovery vault of ransomware_recovery.ps1: snapshots of the user's  *)
(* folders into a store of objects named by their hash, detection of       *)
(* changes against a snapshot, and the restore of an incident.             *)
(*                                                                         *)
(* A content is its own hash.  The user, or what encrypts his files, goes  *)
(* on writing while the script works; one script runs at a time.           *)
(***************************************************************************)
EXTENDS Naturals, Sequences, FiniteSets

CONSTANTS Paths, Contents, NoContent,
          Canaries,             \* the paths of canary files
          HighEntropy,          \* contents whose entropy is 1200 above the others
          VaultQuota,           \* MaximumVaultBytes, in objects
          ChangeThreshold, DestructiveThreshold, EntropyThreshold,
          MaxUserSteps, MaxSnapshots, MaxIncidents, MaxDamage   \* bounds

ASSUME VaultAssumption ==
    /\ NoContent \notin Contents
    /\ {MaxUserSteps, MaxSnapshots, MaxIncidents, MaxDamage} \subseteq Nat

VARIABLES files,      \* the protected files
          objects,    \* what the file of each object name holds
          conflicts,  \* the conflict store
          snapshots,  \* the published snapshots, in order
          latest,     \* latest_snapshot of state.json, 0 is none
          incidents,  \* the recorded incidents, in order
          doing,      \* what the running script does next, or "rest"
          todo,       \* the files its loop has not come to
          taken,      \* the records of the snapshot being taken
          item,       \* the file in hand, its hash, the temporary copy, and whether
                      \* that was written to after its check
          restore,    \* the incident restored, what is missing, what is replaced
          userSteps,  \* steps of the user so far
          late,       \* history: paths written since the restore looked at its item's
          damaged     \* history: object names damaged from outside

catalogue == <<snapshots, latest, incidents>>
outside == <<userSteps, damaged>>
toolVars == <<doing, todo, taken, item, restore>>
vaultVars == <<files, objects, conflicts, catalogue, toolVars, late, outside>>

NoRecords == [p \in {} |-> NoContent]
NoItem == [path |-> NoContent, hash |-> NoContent, temporary |-> NoContent, touched |-> FALSE]
NoRestore == [incident |-> 0, missing |-> {}, replaced |-> {}]

Rests ==
    /\ doing' = "rest" /\ todo' = {} /\ taken' = NoRecords
    /\ item' = NoItem /\ restore' = NoRestore

Does(step) == doing' = step /\ UNCHANGED <<todo, taken, item, restore>>

\* The file in hand is done, or given up.
LeavesItem(step) == doing' = step /\ todo' = todo \ {item.path} /\ item' = NoItem

\* The order in which a folder lists its files.
First == CHOOSE p \in todo : TRUE

With(records, p, r) == [q \in DOMAIN records \union {p} |-> IF q = p THEN r ELSE records[q]]

VaultInit ==
    /\ \E c \in Contents \ HighEntropy : files = [p \in Paths |-> c]
    /\ objects = [c \in Contents |-> NoContent]
    /\ conflicts = {}
    /\ snapshots = <<>> /\ latest = 0 /\ incidents = <<>>
    /\ doing = "rest" /\ todo = {} /\ taken = NoRecords /\ item = NoItem /\ restore = NoRestore
    /\ late = {} /\ userSteps = 0 /\ damaged = {}

-----------------------------------------------------------------------------
(* New-Snapshot: the files are listed first, then taken one by one.  A file *)
(* that changes or vanishes on the way is skipped.                          *)

BeginSnapshot ==
    /\ doing = "rest" /\ Len(snapshots) < MaxSnapshots
    /\ doing' = "hash" /\ todo' = {p \in Paths : files[p] # NoContent}
    /\ UNCHANGED <<files, objects, conflicts, catalogue, taken, item, restore, late, outside>>

Hash ==
    /\ doing = "hash" /\ todo # {}
    /\ LET p == First IN
         IF files[p] = NoContent
         THEN doing' = "hash" /\ todo' = todo \ {p} /\ UNCHANGED item
         ELSE doing' = "save" /\ item' = [NoItem EXCEPT !.path = p, !.hash = files[p]]
                /\ UNCHANGED todo
    /\ UNCHANGED <<files, objects, conflicts, catalogue, taken, restore, late, outside>>

Skips == LeavesItem("hash") /\ UNCHANGED <<taken, restore>>

Stored == {c \in Contents : objects[c] # NoContent}

\* Save-Object: an object of that name is taken as it is; a copy needs room and a file.
Save ==
    /\ doing = "save"
    /\ \/ item.hash \in Stored /\ Does("record")
       \/ /\ item.hash \notin Stored
          /\ Cardinality(Stored) >= VaultQuota \/ files[item.path] = NoContent
          /\ Skips
       \/ /\ item.hash \notin Stored
          /\ Cardinality(Stored) < VaultQuota /\ files[item.path] # NoContent
          /\ doing' = "verify" /\ item' = [item EXCEPT !.temporary = files[item.path]]
          /\ UNCHANGED <<todo, taken, restore>>
    /\ UNCHANGED <<files, objects, conflicts, catalogue, late, outside>>

\* Copy and file are hashed again before the copy gets the name.
Verify ==
    /\ doing = "verify"
    /\ IF item.temporary = item.hash /\ files[item.path] = item.hash
       THEN objects' = [objects EXCEPT ![item.hash] = item.temporary] /\ Does("record")
       ELSE UNCHANGED objects /\ Skips
    /\ UNCHANGED <<files, conflicts, catalogue, late, outside>>

\* The entropy is that of the file now, which need not be the one that was stored.
RecordFile ==
    /\ doing = "record"
    /\ LeavesItem("hash")
    /\ taken' = IF files[item.path] = NoContent THEN taken
                ELSE With(taken, item.path, [hash |-> item.hash,
                                             high |-> files[item.path] \in HighEntropy])
    /\ UNCHANGED <<files, objects, conflicts, catalogue, restore, late, outside>>

Publish ==
    /\ doing = "hash" /\ todo = {}
    /\ snapshots' = Append(snapshots, taken)
    /\ doing' = "latest" /\ taken' = NoRecords
    /\ UNCHANGED <<files, objects, conflicts, latest, incidents, todo, item, restore, late, outside>>

SetLatest ==
    /\ doing = "latest"
    /\ latest' = Len(snapshots)
    /\ Rests
    /\ UNCHANGED <<files, objects, conflicts, snapshots, incidents, late, outside>>

-----------------------------------------------------------------------------
(* New-Incident.  Find-Changes reads each file once; its steps between      *)
(* files are left out.                                                      *)

Changed(s) == {p \in DOMAIN s : files[p] \notin {NoContent, s[p].hash}}
Deleted(s) == {p \in DOMAIN s : files[p] = NoContent}

Score(s) ==
    LET rising == {p \in Changed(s) : files[p] \in HighEntropy /\ ~s[p].high}
        points == (IF Cardinality(Changed(s)) >= ChangeThreshold THEN 35 ELSE 0)
                + (IF Cardinality(Deleted(s)) >= DestructiveThreshold THEN 35 ELSE 0)
                + (IF Cardinality(rising) >= EntropyThreshold THEN 25 ELSE 0)
    IN  IF Canaries \cap (Changed(s) \union Deleted(s)) # {} THEN 100 ELSE points

\* n: the snapshot asked for, or else the latest.
Detect(n) ==
    /\ doing = "rest" /\ n # 0 /\ Len(incidents) < MaxIncidents
    /\ Score(snapshots[n]) >= 50
    /\ incidents' = Append(incidents, [snapshot |-> n, changed |-> Changed(snapshots[n]),
                                       deleted |-> Deleted(snapshots[n]), restored |-> FALSE])
    /\ UNCHANGED <<files, objects, conflicts, snapshots, latest, toolVars, late, outside>>

-----------------------------------------------------------------------------
(* Invoke-Restore: any check that fails throws and ends the script.         *)

Baseline(i) == snapshots[incidents[i].snapshot]
Damages(i) == incidents[i].changed \union incidents[i].deleted

\* Get-RestorePlan, and the confirmation.
BeginRestore(i) ==
    /\ doing = "rest"
    /\ LET missing == {p \in Damages(i) : Baseline(i)[p].hash \notin Stored} IN
         /\ restore' = [incident |-> i, missing |-> missing, replaced |-> {}]
         /\ todo' = Damages(i) \ missing
    /\ doing' = "item"
    /\ UNCHANGED <<files, objects, conflicts, catalogue, taken, item, late, outside>>

CheckObject ==
    /\ doing = "item" /\ todo # {}
    /\ LET h == Baseline(restore.incident)[First].hash IN
         IF objects[h] = h
         THEN doing' = "copy" /\ item' = [NoItem EXCEPT !.path = First, !.hash = h]
                /\ UNCHANGED <<todo, taken, restore>>
         ELSE Rests
    /\ UNCHANGED <<files, objects, conflicts, catalogue, late, outside>>

CopyObject ==
    /\ doing = "copy"
    /\ IF item.hash \in Stored
       THEN doing' = "check" /\ item' = [item EXCEPT !.temporary = objects[item.hash]]
              /\ UNCHANGED <<todo, taken, restore>>
       ELSE Rests
    /\ UNCHANGED <<files, objects, conflicts, catalogue, late, outside>>

\* Fault: only the object is checked, not the copy of it.
CheckCopy_Skipped ==
    /\ doing = "check"
    /\ Does("look")
    /\ UNCHANGED <<files, objects, conflicts, catalogue, late, outside>>

CheckCopy ==
    /\ doing = "check"
    /\ IF item.temporary = item.hash THEN Does("look") ELSE Rests
    /\ UNCHANGED <<files, objects, conflicts, catalogue, late, outside>>

\* Fault: what is there is replaced without a copy.
LookAtPath_Replaces ==
    /\ doing = "look"
    /\ Does("place")
    /\ UNCHANGED <<files, objects, conflicts, catalogue, late, outside>>

LookAtPath ==
    /\ doing = "look"
    /\ Does(IF files[item.path] = NoContent THEN "place" ELSE "move away")
    /\ UNCHANGED <<files, objects, conflicts, catalogue, late, outside>>

MoveAway ==
    /\ doing = "move away"
    /\ IF files[item.path] = NoContent
       THEN Rests /\ late' = {} /\ UNCHANGED <<files, conflicts>>
       ELSE /\ conflicts' = conflicts \union {files[item.path]}
            /\ files' = [files EXCEPT ![item.path] = NoContent]
            /\ Does("place")
            /\ UNCHANGED late
    /\ UNCHANGED <<objects, catalogue, outside>>

\* Move-Item -Force: what has come to the path since is replaced.  The temporary copy lies
\* in the user's folder and may be gone.
Place ==
    /\ doing = "place"
    /\ IF item.temporary = NoContent
       THEN Rests /\ UNCHANGED files
       ELSE /\ files' = [files EXCEPT ![item.path] = item.temporary]
            /\ restore' = [restore EXCEPT !.replaced = @ \union {item.path}]
            /\ LeavesItem("item")
            /\ UNCHANGED taken
    /\ late' = {}
    /\ UNCHANGED <<objects, conflicts, catalogue, outside>>

Complete ==
    /\ doing = "item" /\ todo = {}
    /\ incidents' = [incidents EXCEPT ![restore.incident].restored = TRUE]
    /\ Rests
    /\ UNCHANGED <<files, objects, conflicts, snapshots, latest, late, outside>>

-----------------------------------------------------------------------------
(* The script is stopped; the user writes and deletes; an object is lost or *)
(* damaged from outside.                                                    *)

Killed ==
    /\ doing # "rest"
    /\ Rests
    /\ late' = {}
    /\ UNCHANGED <<files, objects, conflicts, catalogue, outside>>

UserWrites(p, c) ==
    /\ userSteps < MaxUserSteps /\ files[p] # c
    /\ files' = [files EXCEPT ![p] = c]
    /\ userSteps' = userSteps + 1
    /\ late' = IF doing \in {"move away", "place"} THEN late \union {p} ELSE late
    /\ UNCHANGED <<objects, conflicts, catalogue, toolVars, damaged>>

\* A restore's copy is a file like others until it has its name.
UserTouches(c) ==
    /\ userSteps < MaxUserSteps
    /\ doing \in {"check", "look", "move away", "place"} /\ item.temporary # c
    /\ item' = [item EXCEPT !.temporary = c, !.touched = (doing # "check")]
    /\ userSteps' = userSteps + 1
    /\ UNCHANGED <<files, objects, conflicts, catalogue, doing, todo, taken, restore, late, damaged>>

Damage(c, d) ==
    /\ Cardinality(damaged) < MaxDamage
    /\ c \in Stored /\ d # c
    /\ objects' = [objects EXCEPT ![c] = d]
    /\ damaged' = damaged \union {c}
    /\ UNCHANGED <<files, conflicts, catalogue, toolVars, late, userSteps>>

VaultNext ==
    \/ BeginSnapshot \/ Hash \/ Save \/ Verify \/ RecordFile \/ Publish \/ SetLatest
    \/ \E n \in {latest} \union DOMAIN snapshots : Detect(n)
    \/ \E i \in DOMAIN incidents : BeginRestore(i)
    \/ CheckObject \/ CopyObject \/ CheckCopy \/ LookAtPath \/ MoveAway \/ Place \/ Complete
    \/ Killed
    \/ \E p \in Paths, c \in Contents \union {NoContent} : UserWrites(p, c)
    \/ \E c \in Contents \union {NoContent} : UserTouches(c)
    \/ \E c \in Contents, d \in Contents \union {NoContent} : Damage(c, d)

VaultSpec == VaultInit /\ [][VaultNext]_vaultVars

-----------------------------------------------------------------------------
\* Whatever is written to the files while a snapshot is taken, each record of a
\* published one has its object in the vault, with the content of its name, unless that
\* object was damaged from outside.
PublishedIsStored ==
    \A n \in DOMAIN snapshots : \A p \in DOMAIN snapshots[n] :
        LET h == snapshots[n][p].hash IN objects[h] = h \/ h \in damaged

\* The script never destroys a content of the user's files: what it replaces is in the
\* conflict store, except for what was written to the path after the restore had looked
\* whether something is there (ransomware_recovery.ps1:316-320).
ReplacedIsKept ==
    [][userSteps' = userSteps =>
         \A p \in Paths : files'[p] # files[p] /\ files[p] # NoContent =>
             files[p] \in conflicts' \/ p \in late]_vaultVars

\* What the restore puts at a path is what the snapshot of its incident recorded there,
\* whatever later snapshots, damaged objects and interrupted restores there were, unless
\* the checked copy, which waits in the user's folder, is written to before it is moved
\* to its name (ransomware_recovery.ps1:315-320).
RestoresTheBaseline ==
    [][userSteps' = userSteps =>
         \A p \in Paths : files'[p] \notin {files[p], NoContent} =>
             files'[p] = Baseline(restore.incident)[p].hash \/ item.touched]_vaultVars

\* An incident is marked as restored only by a run that has replaced every file of it,
\* but those whose object it had reported as missing.
RestoredIsAll ==
    [][\A i \in DOMAIN incidents : incidents'[i].restored /\ ~incidents[i].restored =>
         restore.replaced \union restore.missing = Damages(i)]_vaultVars

\* The vault tells the truth: snapshots hold what they record, a restore writes what its
\* snapshot recorded, and what counts as restored was restored in full.
VaultIsTrue == []PublishedIsStored /\ RestoresTheBaseline /\ RestoredIsAll

=============================================================================
