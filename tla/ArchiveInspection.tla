-------------------------- MODULE ArchiveInspection --------------------------
(***************************************************************************)
(* The inspection of a ZIP archive and of the archives in it: a walk over  *)
(* the central directory of each, under one budget for all of them.        *)
(***************************************************************************)
EXTENDS Integers, Sequences

CONSTANTS Names,                                   \* the canonical names of entries
          Sizes,                                   \* the sizes an entry may name
          MaxEntries, MaxDepth, MaxEntryBytes,     \* InspectionBudget
          MaxTotalBytes, MaxRatio

ASSUME ArchiveAssumption ==
    /\ {MaxEntries, MaxDepth, MaxEntryBytes, MaxTotalBytes, MaxRatio} \subseteq Nat \ {0}
    /\ Sizes \subseteq Nat

VARIABLES
    walk,       \* the archives open, the outermost first: entries left, names and flags so far
    budget,     \* SharedBudget: entries seen and bytes expanded
    verdict,    \* the flags of the outermost archive, when it is done
    skipped     \* history: an entry at some depth was not looked into

archiveVars == <<walk, budget, verdict, skipped>>

ArchiveInit ==
    /\ walk = <<>>
    /\ budget = [entries |-> 0, expanded |-> 0]
    /\ verdict = {"none"}
    /\ skipped = FALSE

Depth == Len(walk) - 1

Top == walk[Len(walk)]

MergeNested(target, nested) == target \union nested \union {"nested_container"}

\* The innermost archive is done: its flags go to the one around it, or are the verdict.
CloseArchive(rest, flags) ==
    IF rest = <<>> THEN walk' = <<>> /\ verdict' = flags
    ELSE /\ walk' = [rest EXCEPT ![Len(rest)].flags = MergeNested(@, flags)]
         /\ UNCHANGED verdict

\* An archive begins, with as many entries as its directory tells and the budget allows,
\* or is done at once: no directory, or too many.
OpenDirectory(rest) ==
    \/ \E n \in 0 .. MaxEntries :
         walk' = Append(rest, [left |-> n, names |-> {}, flags |-> {}]) /\ UNCHANGED verdict
    \/ \E more \in SUBSET {"budget_exhausted"} : CloseArchive(rest, {"malformed"} \union more)

OpenArchive ==
    /\ walk = <<>> /\ verdict = {"none"}
    /\ OpenDirectory(<<>>)
    /\ skipped' = (walk' = <<>>)
    /\ UNCHANGED budget

-----------------------------------------------------------------------------
(* Entries *)

\* Fault: each archive has the total for itself.
OverBudget_PerArchive(e) ==
    \/ budget.entries + 1 > MaxEntries
    \/ e.uncompressed > MaxEntryBytes
    \/ e.uncompressed > MaxTotalBytes

RatioExceeded(e) ==
    IF e.compressed = 0 THEN e.uncompressed # 0 ELSE e.uncompressed > MaxRatio * e.compressed

OverBudget(e) ==
    \/ budget.entries + 1 > MaxEntries
    \/ e.uncompressed > MaxEntryBytes
    \/ budget.expanded > MaxTotalBytes \/ e.uncompressed > MaxTotalBytes - budget.expanded
    \/ RatioExceeded(e)

Methods == {"stored", "deflated", "other"}

\* What a directory says of an entry; a name that leads out of the archive is no name.
Entries == [name : Names \union {"escape"}, uncompressed : Sizes, compressed : Sizes,
            method : Methods, encrypted : BOOLEAN]

NameFlags(name) ==
    IF name = "escape" THEN {"path_escape"} ELSE IF name \in Top.names THEN {"duplicate_name"} ELSE {}

KindFlags(e) ==
    (IF e.encrypted THEN {"encrypted_entry"} ELSE {})
      \union (IF e.method = "other" THEN {"unsupported_compression"} ELSE {})

\* What its header or its content is found to be besides; a header that differs from the
\* local one counts as malformed.
Findings == {"malformed", "active_content", "crc_mismatch"}

\* The entry has been counted, and leaves these flags with the archive.
Counted(name, flags, bytes) ==
    /\ budget' = [entries |-> budget.entries + 1, expanded |-> budget.expanded + bytes]
    /\ walk' = [walk EXCEPT ![Len(walk)] =
          [left |-> @.left - 1, names |-> @.names \union {name}, flags |-> @.flags \union NameFlags(name) \union flags]]

Reading == walk # <<>> /\ Top.left > 0

\* A header that is not one ends its archive, if need be after its name was read.
BadHeader ==
    /\ Reading
    /\ \E name \in SUBSET {"path_escape", "duplicate_name"} :
         CloseArchive(SubSeq(walk, 1, Depth), Top.flags \union name \union {"malformed"})
    /\ skipped' = TRUE
    /\ UNCHANGED budget

\* An entry of this name over the budget.
Bomb(name) ==
    /\ Reading /\ name \in {e.name : e \in {x \in Entries : OverBudget(x)}}
    /\ \E found \in SUBSET {"malformed"} : Counted(name, found \union {"bomb_risk", "budget_exhausted"}, 0)
    /\ skipped' = TRUE
    /\ UNCHANGED verdict

Decodes(e) == ~e.encrypted /\ (e.method = "deflated" \/ (e.method = "stored" /\ e.compressed = e.uncompressed))

\* Its local header says otherwise, or its content cannot be decoded.
Undecoded(e) ==
    /\ Reading /\ ~OverBudget(e)
    /\ \E found \in SUBSET {"malformed", "active_content"} :
         /\ "malformed" \in found \/ e.method = "other"
         /\ Counted(e.name, KindFlags(e) \union found, 0)
    /\ skipped' = TRUE
    /\ UNCHANGED verdict

Decoded(e) ==
    /\ Reading /\ ~OverBudget(e) /\ Decodes(e)
    /\ \E found \in SUBSET Findings : Counted(e.name, KindFlags(e) \union found, e.uncompressed)
    /\ UNCHANGED <<verdict, skipped>>

\* An archive in the archive, unless they go too deep.
Nested(e) ==
    /\ Reading /\ ~OverBudget(e) /\ Decodes(e)
    /\ \E found \in SUBSET Findings :
         LET flags == Top.flags \union NameFlags(e.name) \union found \union {"nested_container"}
             outer(more) == [walk EXCEPT ![Len(walk)] =
                [left |-> @.left - 1, names |-> @.names \union {e.name}, flags |-> flags \union more]]
         IN  IF Depth >= MaxDepth
               THEN /\ walk' = outer({"bomb_risk", "budget_exhausted"})
                    /\ skipped' = TRUE /\ UNCHANGED verdict
               ELSE /\ OpenDirectory(outer({}))
                    /\ skipped' = (skipped \/ Len(walk') = Len(walk))
    /\ budget' = [entries |-> budget.entries + 1, expanded |-> budget.expanded + e.uncompressed]

\* The directory may be longer than its entries.
EndOfDirectory ==
    /\ walk # <<>> /\ Top.left = 0
    /\ \E more \in SUBSET {"malformed"} : CloseArchive(SubSeq(walk, 1, Depth), Top.flags \union more)
    /\ UNCHANGED <<budget, skipped>>

ArchiveNext ==
    \/ OpenArchive \/ BadHeader \/ EndOfDirectory
    \/ \E name \in Names \union {"escape"} : Bomb(name)
    \/ \E e \in Entries : Undecoded(e) \/ Decoded(e) \/ Nested(e)

-----------------------------------------------------------------------------
(* The evidence *)

\* evidence_from: a rule broken, a protocol broken, or a content that can do something.
Evident(flags) ==
    {"path_escape", "bomb_risk", "budget_exhausted", "malformed", "crc_mismatch", "unsupported_compression",
     "active_content", "nested_container", "duplicate_name"} \intersect flags # {}

Stopped(flags) == flags \intersect {"bomb_risk", "budget_exhausted", "path_escape"} # {}

-----------------------------------------------------------------------------
(* Properties *)

\* The budget holds for all the archives together: bytes, entries looked into, and depth.
\* An entry at any depth that was not looked into is evidence in the end, and one that the
\* budget left out breaks a rule.
ArchiveIsBounded ==
    /\ budget.expanded <= MaxTotalBytes
    /\ Depth <= MaxDepth
    /\ verdict # {"none"} =>
         /\ skipped => Evident(verdict)
         /\ budget.entries > MaxEntries => Stopped(verdict)

=============================================================================
