----------------------------- MODULE Provenance -----------------------------
(***************************************************************************)
(* provenance::Store: what is known of files that came from outside, and   *)
(* of what was copied, renamed or extracted from them.  An entry is for a  *)
(* file with a content; the first one that fits a file answers for it.     *)
(***************************************************************************)
EXTENDS Integers, Sequences

CONSTANTS Files, FileContents,    \* a file's identifiers, and what a file may hold
          MaxRecorded              \* bound on the entries

ASSUME ProvenanceAssumption == MaxRecorded \in Nat

VARIABLES
    entries,     \* Store::entries_
    approved,    \* history: the contents approved so far
    passedOn     \* history: other contents that what was allowed was said to have become

provenanceVars == <<entries, approved, passedOn>>

ProvenanceInit == entries = <<>> /\ approved = {} /\ passedOn = {}

\* A file as it is now.
Versions == [file : Files, content : FileContents]

Pending == "execution_pending"

Entry(v, disposition) == [file |-> v.file, content |-> v.content, disposition |-> disposition]

Of(file) == {i \in DOMAIN entries : entries[i].file = file}

SameFileVersion(v) == {i \in Of(v.file) : entries[i].content = v.content}

FirstOf(indices) == CHOOSE i \in indices : \A j \in indices : i <= j

\* Fault: the first entry of a file answers for whatever it holds now.
Verdict_OfFile(e, v) == e.disposition

\* Of a file with another content than its entry says, nothing is known but that it came
\* from outside.
Verdict(e, v) == IF e.content = v.content THEN e.disposition ELSE Pending

Lookup(v) == IF Of(v.file) = {} THEN "not_found" ELSE Verdict(entries[FirstOf(Of(v.file))], v)

AddEntry(entry) == Len(entries) < MaxRecorded /\ entries' = Append(entries, entry)

RecordExternal(v) ==
    /\ AddEntry(Entry(v, Pending))
    /\ UNCHANGED <<approved, passedOn>>

\* Nothing extracted from an archive takes over its verdict.
PropagateArchive(archive, child) ==
    /\ Lookup(archive) # "not_found"
    /\ AddEntry(Entry(child, Pending))
    /\ UNCHANGED <<approved, passedOn>>

\* Where an allowed source is said to have become another content.
PassOn(disposition, source, dest) ==
    passedOn' = passedOn \union (IF disposition = "allowed" THEN {dest.content} \ {source.content} ELSE {})

\* A copy has the verdict of its source.  Its content is what the caller says: nothing
\* compares it with the source's.
PropagateCopy(source, dest) ==
    /\ Lookup(source) # "not_found"
    /\ AddEntry(Entry(dest, Lookup(source)))
    /\ PassOn(Lookup(source), source, dest)
    /\ UNCHANGED approved

\* The first entry of just this version becomes another.
Change(v, entry) ==
    /\ SameFileVersion(v) # {}
    /\ entries' = [entries EXCEPT ![FirstOf(SameFileVersion(v))] = entry]

\* The whole identity becomes the destination's, its content included.
PropagateRename(source, dest) ==
    LET disposition == entries[FirstOf(SameFileVersion(source))].disposition IN
    /\ Change(source, Entry(dest, disposition))
    /\ PassOn(disposition, source, dest)
    /\ UNCHANGED approved

Approve(v) ==
    /\ Change(v, Entry(v, "allowed"))
    /\ approved' = approved \union {v.content}
    /\ UNCHANGED passedOn

Quarantine(v) ==
    /\ IF SameFileVersion(v) # {} THEN Change(v, Entry(v, "quarantined")) ELSE AddEntry(Entry(v, "quarantined"))
    /\ UNCHANGED <<approved, passedOn>>

ExecutionAllowed(v) == Lookup(v) = "allowed"

ProvenanceNext ==
    \E v \in Versions :
        \/ RecordExternal(v) \/ Approve(v) \/ Quarantine(v)
        \/ \E w \in Versions : PropagateArchive(v, w) \/ PropagateCopy(v, w) \/ PropagateRename(v, w)

-----------------------------------------------------------------------------
(* Properties *)

\* Whatever is copied, renamed over another, extracted or changed in place, only a content
\* that was approved may be executed, and a copy made of one that may not is none that may.
\* The exception: the store believes what it is told of a copy or a new name, so a content
\* that a caller reports for the copy of an allowed file may be executed as well.
AllowedWasApproved == \A v \in Versions : ExecutionAllowed(v) => v.content \in approved \union passedOn

=============================================================================
