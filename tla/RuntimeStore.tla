---------------------------- MODULE RuntimeStore ----------------------------
(***************************************************************************)
(* SecureRuntimeStore (secure_runtime_state.cpp): the DPAPI protected      *)
(* runtime state, kept in a primary file and a recovery file.  A file's    *)
(* content is the policy version it carries (0 in a fresh store), or       *)
(* NoFile, or Damaged when decryption or deserialisation fails.  The model *)
(* version and the channel keys take no part in the decisions modelled.    *)
(*                                                                         *)
(* A save is two steps, because the copy of the primary over the recovery  *)
(* file is not atomic while the write of the primary is (write-through     *)
(* temporary file, then a replacing move).                                 *)
(***************************************************************************)
EXTENDS Naturals

CONSTANTS MaxVersion,  \* bound on policy versions
          NoFile, Damaged

ASSUME VersionAssumption == MaxVersion \in Nat \ {0}
ASSUME FileAssumption == {NoFile, Damaged} \cap Nat = {} /\ NoFile # Damaged

VARIABLES primary, recovery

storeVars == <<primary, recovery>>

StoreVersions == 0..MaxVersion
StoreFile == StoreVersions \cup {NoFile, Damaged}

Readable(file) == file \in StoreVersions

StoreInit == primary = NoFile /\ recovery = NoFile

Absent == primary = NoFile /\ recovery = NoFile
Loadable == Readable(primary) \/ Readable(recovery)

\* load: the primary, or else the recovery file
Stored == IF Readable(primary) THEN primary ELSE recovery

(* load_or_create: an unreadable primary is removed and rewritten from the *)
(* recovery file; a store with no file at all is created at version 0; a   *)
(* store whose files exist but cannot be read is an error.                 *)
LoadOrCreate ==
  /\ Loadable \/ Absent
  /\ primary' = IF Absent THEN 0 ELSE Stored
  /\ UNCHANGED recovery

\* update_versions refuses a version below the stored one
Refuses(v) == \/ ~Loadable /\ ~Absent
              \/ Loadable /\ v < Stored

\* Fault: no recovery copy is kept
CopyToRecovery_Skipped == UNCHANGED <<primary, recovery>>

\* save, first step: the primary, when there is one, replaces the recovery file
CopyToRecovery ==
  /\ recovery' = IF primary = NoFile THEN recovery ELSE primary
  /\ UNCHANGED primary

\* save, second step: atomic_write
WritePrimary(v) == primary' = v /\ UNCHANGED recovery

=============================================================================
