---------------------------- MODULE ProcessGuard ----------------------------
(***************************************************************************)
(* The process guard driver: which programs may be launched, and who may   *)
(* open the protected process with rights that control it.  A callback     *)
(* copies the policy under the lock and decides later by its copy.         *)
(***************************************************************************)
EXTENDS Integers

CONSTANTS Processes,       \* the ordinary processes
          System,          \* process 4
          Launches,        \* programs somebody may start: see Denied
          GuardPolicies    \* the policies an administrator sets

ASSUME ProcessAssumption == System \notin Processes

VARIABLES
    guard,       \* g_Policy, or unloaded
    callback,    \* a handle to be granted or a program to be launched, with the policy copied
    controls,    \* <<p, t>>: process p has a handle on t with rights that control it (the
                 \* system process, which needs none to control anything, has none here)
    programs,    \* the launched programs that run
    holders,     \* history: who controlled its process before this policy, or may by trust
    earlier      \* history: the programs on their way before this policy

processVars == <<guard, callback, controls, programs, holders, earlier>>

Nobody     == "nobody"
NoCallback == [at |-> "nowhere"]
Unloaded   == [mode |-> "unloaded", flags |-> {}, exempt |-> Nobody]
AuditAll   == [mode |-> "audit", flags |-> {}, exempt |-> Nobody]

ProcessFlags ==
    {"quarantine", "user_temp", "download", "risky_script", "office_child"}

ProcessInit ==
    /\ guard = Unloaded
    /\ callback = NoCallback
    /\ controls = {} /\ programs = {}
    /\ holders = {} /\ earlier = {}

-----------------------------------------------------------------------------
(* What a policy denies *)

\* A launch is a program, where its image lies, what its command line does, and whether an
\* Office program is its parent.  The programs of the three lists that the driver holds:
Interpreters == {"powershell", "cmd", "python"}
ScriptHosts  == {"powershell", "certutil"}
OfficeTools  == {"powershell", "cmd"}

InQuarantine(l) == l.image = "quarantine"

DownloadedScript(l) == l.program \in Interpreters /\ l.command = "names_download"

RiskyScript(l) == l.program \in ScriptHosts /\ l.command \in {"obfuscated", "transfers"}

CredentialOrPersistence(l) == l.command \in {"credentials", "persists_download"}

OfficeChild(l) == l.program \in OfficeTools /\ l.office

Denied(p, l) ==
    /\ p.mode = "enforce"
    /\ \/ "quarantine" \in p.flags /\ InQuarantine(l)
       \/ "user_temp" \in p.flags /\ l.image = "temp"
       \/ "download" \in p.flags /\ (l.image = "downloads" \/ DownloadedScript(l))
       \/ "risky_script" \in p.flags /\ (RiskyScript(l) \/ CredentialOrPersistence(l))
       \/ "office_child" \in p.flags /\ OfficeChild(l)

\* Fault: only new handles are filtered, duplicates of another's are not.
Filtered_CreateOnly(p, o) ==
    /\ p.mode = "enforce" /\ p.exempt = o.target
    /\ ~o.kernel /\ o.caller \notin {o.target, System} /\ o.kind = "create"

\* The handle loses the rights that control its target.
Filtered(p, o) ==
    /\ p.mode = "enforce" /\ p.exempt = o.target
    /\ ~o.kernel /\ o.caller \notin {o.target, System}

-----------------------------------------------------------------------------
(* Device control and life cycle *)

\* Whoever controls the process that the policy protects, or is about to, and whatever
\* runs, or is about to.
Adopt(p) ==
    /\ guard' = p
    /\ holders' = {h \in Processes : <<h, p.exempt>> \in controls}
                    \union (IF callback.at = "handle" THEN {callback.holder} ELSE {})
    /\ earlier' = programs \union (IF callback.at = "launch" THEN {callback.launch} ELSE {})

SetGuardPolicy ==
    /\ guard # Unloaded
    /\ \E p \in GuardPolicies :
         /\ p.mode \in {"audit", "enforce"} /\ p.flags \subseteq ProcessFlags
         /\ Adopt(p)
    /\ UNCHANGED <<callback, controls, programs>>

\* The driver starts with the policy its image holds.
LoadGuard ==
    /\ guard = Unloaded
    /\ Adopt(AuditAll)
    /\ UNCHANGED <<callback, controls, programs>>

\* Unload waits for the callbacks under way.
UnloadGuard ==
    /\ guard # Unloaded /\ callback = NoCallback
    /\ Adopt(Unloaded)
    /\ UNCHANGED <<callback, controls, programs>>

-----------------------------------------------------------------------------
(* Handles *)

BeginHandle(o) ==
    /\ callback = NoCallback /\ o.holder # o.target
    /\ callback' = [at |-> "handle", caller |-> o.caller, holder |-> o.holder, target |-> o.target,
                    kind |-> o.kind, kernel |-> o.kernel, copy |-> guard]
    /\ UNCHANGED <<guard, controls, programs, holders, earlier>>

\* A process, or the kernel in its context, opens another.
OpenProcess(c, t) ==
    \E kernel \in BOOLEAN :
      BeginHandle([caller |-> c, holder |-> c, target |-> t, kind |-> "create", kernel |-> kernel])

\* A process duplicates a handle on t from one process into another; it needs control of
\* both.  A process has full control of itself.
DuplicateHandle(c, from, to, t) ==
    /\ <<from, t>> \in controls \/ from = t
    /\ c = from \/ c = System \/ <<c, from>> \in controls
    /\ c = to \/ c = System \/ <<c, to>> \in controls
    /\ BeginHandle([caller |-> c, holder |-> to, target |-> t, kind |-> "duplicate", kernel |-> FALSE])

Trusted(o) == o.kernel \/ o.caller \in {o.target, System}

\* The callback returns with the access it leaves.
HandleGranted ==
    /\ callback.at = "handle"
    /\ controls' = IF Filtered(callback.copy, callback) THEN controls
                   ELSE controls \union {<<callback.holder, callback.target>>}
    /\ holders' = IF Trusted(callback) THEN holders \union {callback.holder} ELSE holders
    /\ callback' = NoCallback
    /\ UNCHANGED <<guard, programs, earlier>>

CloseHandle(p, t) ==
    /\ <<p, t>> \in controls /\ callback = NoCallback
    /\ controls' = controls \ {<<p, t>>}
    /\ holders' = IF t = guard.exempt THEN holders \ {p} ELSE holders
    /\ UNCHANGED <<guard, callback, programs, earlier>>

-----------------------------------------------------------------------------
(* Launches *)

BeginLaunch(l) ==
    /\ callback = NoCallback /\ l \notin programs
    /\ callback' = [at |-> "launch", launch |-> l, copy |-> guard]
    /\ UNCHANGED <<guard, controls, programs, holders, earlier>>

\* The callback denies the creation or lets it go on.
Launched ==
    /\ callback.at = "launch"
    /\ programs' = IF Denied(callback.copy, callback.launch) THEN programs
                   ELSE programs \union {callback.launch}
    /\ callback' = NoCallback
    /\ UNCHANGED <<guard, controls, holders, earlier>>

ProgramEnds(l) ==
    /\ l \in programs
    /\ programs' = programs \ {l} /\ earlier' = earlier \ {l}
    /\ UNCHANGED <<guard, callback, controls, holders>>

ProcessNext ==
    \/ SetGuardPolicy \/ LoadGuard \/ UnloadGuard
    \/ \E p, t \in Processes :
         \/ OpenProcess(p, t) \/ CloseHandle(p, t)
         \/ \E c, from \in Processes \union {System} : DuplicateHandle(c, from, p, t)
    \/ HandleGranted
    \/ \E l \in Launches : BeginLaunch(l) \/ ProgramEnds(l)
    \/ Launched

-----------------------------------------------------------------------------
(* Properties *)

\* Control of the protected process does not spread: under a policy nobody gains it but
\* from itself, the system or the kernel, and whoever gave it up does not get it back.
\* And a program that the policy in force denies was on its way before that policy.
PolicyIsEnforced ==
    /\ guard.mode = "enforce" =>
         \A p \in Processes : <<p, guard.exempt>> \in controls => p \in holders
    /\ \A l \in programs : Denied(guard, l) => l \in earlier

=============================================================================
