--------------------------- MODULE Policy_proofs ---------------------------
(***************************************************************************)
(* What a crash, a failing call or a damaged file cannot break in the      *)
(* activation of the policy, for every number of drivers and versions.     *)
(* What a running script still has to do says how far it has come: the     *)
(* invariant gives, for each rest of a script, what the calls before it    *)
(* have left in the slots, the state file and the drivers.                 *)
(***************************************************************************)
EXTENDS PolicyLifecycle, SequenceTheorems, TLAPS

-----------------------------------------------------------------------------
(* The rests of the scripts. *)

Ops == {"pin", "envelope", "stage", "pending", "settled", "load", "copy", "write", "kernel",
        "audit", "backup", "activate", "copyback", "restore"}
Calls == [op : Ops, v : 0..MaxVersion, try : BOOLEAN]

Then(op, v, try, rest) == <<Call(op, v, try)>> \o rest
Only(op, v) == Then(op, v, FALSE, <<>>)

Writing(v, try)  == Then("write", v, try, <<>>)
Copying(v, try)  == Then("copy", v, try, Writing(v, try))
Loading(v, try)  == Then("load", v, try, Copying(v, try))
Settling(v, try) == Then("settled", v, try, Loading(v, try))

Enveloping == Then("envelope", 1, FALSE, Settling(1, FALSE))
Pinning    == Then("pin", 1, FALSE, Enveloping)

\* apply, from the end: the policy p is put in force, after the state v was marked as pending
Activating(p)     == Then("activate", p, TRUE, Settling(p, TRUE))
BackingUp(p)      == Then("backup", p, TRUE, Activating(p))
Applying(p)       == Then("kernel", p, TRUE, BackingUp(p))
MarkWriting(v, p) == Then("write", v, FALSE, Applying(p))
MarkCopying(v, p) == Then("copy", v, FALSE, MarkWriting(v, p))
MarkLoading(v, p) == Then("load", v, FALSE, MarkCopying(v, p))
Marking(v, p)     == Then("pending", v, FALSE, IF v = 0 THEN Applying(p) ELSE MarkLoading(v, p))
Staging(v, p)     == Then("stage", p, FALSE, Marking(v, p))

\* Restore-ActivePolicy
Reapplying(v)  == Then("kernel", v, FALSE, Settling(v, FALSE))
CopyingBack(v) == Then("copyback", v, FALSE, Settling(v, FALSE))
FallingBack(v) == Then("kernel", v, FALSE, CopyingBack(v))
Auditing       == Then("audit", 0, FALSE, Only("pending", 0))

-----------------------------------------------------------------------------
(* The invariant. *)

PolicyTypeOK ==
  /\ pin \in BOOLEAN /\ faulted \in BOOLEAN /\ slotLost \in {"no", "yes", "again"}
  /\ state \in [v : 0..MaxVersion, rec : BOOLEAN]
  /\ current \in Slot /\ previous \in Slot /\ staged \in Slot
  /\ drivers \in [Driver -> 0..MaxVersion]
  /\ primary \in StoreFile /\ recovery \in StoreFile

ResultOK ==
  result \in [action : {"none", "initialize", "apply", "recover", "audit", "boot"},
              outcome : {"running", "done", "failed", "unreadable", "restoring", "restored", "crashed"}]

\* all drivers enforce p
InForce(p) == \A d \in Driver : drivers[d] = Effect(p)

\* no policy was initialised yet
Untouched == state = NoState /\ current = NoFile /\ \A d \in Driver : drivers[d] = Audit

\* what the state file says is so, unless it asks for recovery or was lost
StateIsTrue ==
  /\ ~pin => Untouched /\ slotLost = "no"
  /\ ~state.rec /\ state.v > 0 =>
       /\ current \in {state.v, Damaged}
       /\ \A d \in Driver : drivers[d] \in {Audit, Effect(state.v)}

\* without damage the current slot holds what the state file names, or something newer; an
\* interrupted move leaves that in the previous slot, where another fault may reach it
Undamaged ==
  damaged = {} =>
    /\ \/ current \in Policy /\ current >= state.v
       \/ /\ current \notin Policy /\ (slotLost # "again" => current = NoFile)
          /\ previous \in Policy => previous >= state.v
          /\ slotLost = "no" => state.v = 0 /\ previous \notin Policy
          /\ slotLost = "yes" => previous \in Policy
    /\ \A d \in Driver : drivers[d] = Audit \/ drivers[d] >= state.v

StoreOK ==
  /\ damaged = {} => Readable(primary) \/ Absent
  /\ ~faulted => Absent \/ Readable(recovery) \/ (Doing("copy") /\ Readable(primary))

\* the script has nothing left to do, or what the calls made so far have brought about
AtRest == todo = <<>> /\ OutcomeIsTrue

InSlot(v)  == pin /\ current = v /\ InForce(v)
Settled(v) == InSlot(v) /\ state = [v |-> v, rec |-> FALSE]
Newer(p)   == pin /\ p > state.v
Marked(p)  == Newer(p) /\ staged = p /\ state.rec
BackedUp   == current = NoFile \/ previous = current

AtSettled(v) ==
  \E try \in BOOLEAN :
    \/ InSlot(v) /\ todo = Settling(v, try) /\ (try => state.rec)
    \/ Settled(v) /\ todo = Loading(v, try)
    \/ Settled(v) /\ todo \in {Copying(v, try), Writing(v, try)} /\ Readable(primary)

AtApply(p) ==
  \/ Newer(p) /\ todo = Staging(state.v, p)
  \/ Newer(p) /\ staged = p /\ todo = Marking(state.v, p)
  \/ Marked(p) /\ state.v > 0 /\ todo = MarkLoading(state.v, p)
  \/ /\ Marked(p) /\ state.v > 0 /\ Readable(primary)
     /\ todo \in {MarkCopying(state.v, p), MarkWriting(state.v, p)}
  \/ Marked(p) /\ todo = Applying(p)
  \/ Marked(p) /\ InForce(p) /\ todo = BackingUp(p)
  \/ Marked(p) /\ InForce(p) /\ BackedUp /\ todo = Activating(p)

AtInitialize ==
  /\ Untouched
  /\ \/ todo = Pinning
     \/ todo = Enveloping /\ pin

Fallback(v) == pin /\ previous = v /\ current \notin Policy /\ state.rec

AtRestore(v) ==
  \/ pin /\ current = v /\ todo = Reapplying(v)
  \/ pin /\ current = v /\ ~state.rec /\ todo = Only("kernel", v)
  \/ Fallback(v) /\ todo = FallingBack(v)
  \/ Fallback(v) /\ InForce(v) /\ todo = CopyingBack(v)

NoneLeft == state.rec /\ ~Verified(current) /\ ~Verified(previous)

AtFallback ==
  \/ todo = Only("restore", 0) /\ (state.rec \/ current \in Policy)
  \/ todo = Only("audit", 0) /\ ~state.rec /\ current = NoFile
  \/ todo \in {Auditing, Only("pending", 0)} /\ NoneLeft

Progress ==
  \/ AtRest \/ AtInitialize \/ AtFallback
  \/ \E v \in Policy : AtSettled(v) \/ AtApply(v) \/ AtRestore(v)

PolicyInv == ResultOK /\ PolicyTypeOK /\ StateIsTrue /\ Undamaged /\ StoreOK /\ Progress
Stable    == PolicyTypeOK /\ StateIsTrue /\ Undamaged /\ StoreOK /\ Progress

-----------------------------------------------------------------------------
(* The rests, call by call. *)

\* s is the call c and then the calls of rest
Begins(s, c, rest) ==
  /\ s \in Seq(Calls) /\ s # <<>>
  /\ Head(s) = c /\ Tail(s) = rest
  /\ Len(s) > 1 <=> rest # <<>>

LEMMA ThenBegins ==
  ASSUME NEW op \in Ops, NEW v \in 0..MaxVersion, NEW try \in BOOLEAN, NEW rest \in Seq(Calls)
  PROVE  Begins(Then(op, v, try, rest), Call(op, v, try), rest)
<1> DEFINE c == Call(op, v, try)
           s == <<c>> \o rest
<1>1. c \in Calls
  BY DEF Call, Calls
<1>2. <<c>> \in Seq(Calls) /\ Len(<<c>>) = 1 /\ <<c>>[1] = c
  BY <1>1
<1> HIDE DEF c
<1>3. /\ s \in Seq(Calls) /\ Len(s) = 1 + Len(rest)
      /\ \A i \in 1..Len(s) : s[i] = IF i = 1 THEN c ELSE rest[i - 1]
  BY <1>2, ConcatProperties
<1>4. Len(rest) \in Nat
  BY LenProperties
<1>5. s # <<>> /\ Head(s) = c
  BY <1>3, <1>4
<1>6. Tail(s) = rest
  <2>1. Tail(s) \in Seq(Calls) /\ Len(Tail(s)) = Len(rest)
    BY <1>3, <1>4, <1>5, HeadTailProperties
  <2>2. \A i \in 1..Len(rest) : Tail(s)[i] = rest[i]
    BY <1>3, <1>4, <1>5, <2>1, HeadTailProperties
  <2> QED
    BY <2>1, <2>2, SeqEqual
<1>7. Len(s) > 1 <=> rest # <<>>
  BY <1>3, <1>4, EmptySeq
<1> QED
  BY <1>3, <1>5, <1>6, <1>7 DEF Begins, Then, c

LEMMA FirstCall ==
  ASSUME NEW s, NEW op, NEW v, NEW try, NEW rest, Begins(s, Call(op, v, try), rest)
  PROVE  /\ s # <<>> /\ Tail(s) = rest
         /\ Head(s).op = op /\ Head(s).v = v /\ Head(s).try = try
BY DEF Begins, Call

\* what Set-PolicyState still does
LEMMA Saved ==
  ASSUME NEW v \in Policy, NEW try \in BOOLEAN
  PROVE  /\ Begins(Writing(v, try), Call("write", v, try), <<>>)
         /\ Begins(Copying(v, try), Call("copy", v, try), Writing(v, try))
         /\ Begins(Loading(v, try), Call("load", v, try), Copying(v, try))
         /\ Begins(Settling(v, try), Call("settled", v, try), Loading(v, try))
<1>1. v \in 0..MaxVersion /\ <<>> \in Seq(Calls)
  BY VersionAssumption DEF Policy
<1>2. Begins(Writing(v, try), Call("write", v, try), <<>>)
  BY <1>1, ThenBegins DEF Writing, Ops
<1>3. Begins(Copying(v, try), Call("copy", v, try), Writing(v, try))
  BY <1>1, <1>2, ThenBegins DEF Copying, Ops, Begins
<1>4. Begins(Loading(v, try), Call("load", v, try), Copying(v, try))
  BY <1>1, <1>3, ThenBegins DEF Loading, Ops, Begins
<1>5. Begins(Settling(v, try), Call("settled", v, try), Loading(v, try))
  BY <1>1, <1>4, ThenBegins DEF Settling, Ops, Begins
<1> QED
  BY <1>2, <1>3, <1>4, <1>5

\* what apply still does before that
LEMMA Applied ==
  ASSUME NEW v \in 0..MaxVersion, NEW p \in Policy
  PROVE  /\ Begins(Activating(p), Call("activate", p, TRUE), Settling(p, TRUE))
         /\ Begins(BackingUp(p), Call("backup", p, TRUE), Activating(p))
         /\ Begins(Applying(p), Call("kernel", p, TRUE), BackingUp(p))
         /\ Begins(MarkWriting(v, p), Call("write", v, FALSE), Applying(p))
         /\ Begins(MarkCopying(v, p), Call("copy", v, FALSE), MarkWriting(v, p))
         /\ Begins(MarkLoading(v, p), Call("load", v, FALSE), MarkCopying(v, p))
         /\ Begins(Marking(v, p), Call("pending", v, FALSE), IF v = 0 THEN Applying(p) ELSE MarkLoading(v, p))
         /\ Begins(Staging(v, p), Call("stage", p, FALSE), Marking(v, p))
<1>1. Begins(Settling(p, TRUE), Call("settled", p, TRUE), Loading(p, TRUE))
  BY Saved
<1>2. p \in 0..MaxVersion /\ Settling(p, TRUE) \in Seq(Calls)
  <2>1. p \in 0..MaxVersion
    BY VersionAssumption DEF Policy
  <2>2. Settling(p, TRUE) \in Seq(Calls)
    BY <1>1 DEF Begins
  <2> QED
    BY <2>1, <2>2
<1>3. Begins(Activating(p), Call("activate", p, TRUE), Settling(p, TRUE))
  BY <1>2, ThenBegins DEF Activating, Ops, Begins
<1>4. Begins(BackingUp(p), Call("backup", p, TRUE), Activating(p))
  BY <1>2, <1>3, ThenBegins DEF BackingUp, Ops, Begins
<1>5. Begins(Applying(p), Call("kernel", p, TRUE), BackingUp(p))
  BY <1>2, <1>4, ThenBegins DEF Applying, Ops, Begins
<1>6. Begins(MarkWriting(v, p), Call("write", v, FALSE), Applying(p))
  BY <1>2, <1>5, ThenBegins DEF MarkWriting, Ops, Begins
<1>7. Begins(MarkCopying(v, p), Call("copy", v, FALSE), MarkWriting(v, p))
  BY <1>2, <1>6, ThenBegins DEF MarkCopying, Ops, Begins
<1>8. Begins(MarkLoading(v, p), Call("load", v, FALSE), MarkCopying(v, p))
  BY <1>2, <1>7, ThenBegins DEF MarkLoading, Ops, Begins
<1>9. (IF v = 0 THEN Applying(p) ELSE MarkLoading(v, p)) \in Seq(Calls)
  BY <1>5, <1>8 DEF Begins
<1>10. Begins(Marking(v, p), Call("pending", v, FALSE), IF v = 0 THEN Applying(p) ELSE MarkLoading(v, p))
  <2>1. PICK rest : rest = IF v = 0 THEN Applying(p) ELSE MarkLoading(v, p)
    OBVIOUS
  <2>2. Begins(Then("pending", v, FALSE, rest), Call("pending", v, FALSE), rest)
    BY <1>9, <2>1, ThenBegins DEF Ops
  <2> QED
    BY <2>1, <2>2 DEF Marking
<1>11. Begins(Staging(v, p), Call("stage", p, FALSE), Marking(v, p))
  BY <1>2, <1>10, ThenBegins DEF Staging, Ops, Begins
<1> QED
  BY <1>3, <1>4, <1>5, <1>6, <1>7, <1>8, <1>9, <1>10, <1>11

\* what initialize still does before that
LEMMA Initialized ==
  /\ Begins(Enveloping, Call("envelope", 1, FALSE), Settling(1, FALSE))
  /\ Begins(Pinning, Call("pin", 1, FALSE), Enveloping)
<1>1. 1 \in 0..MaxVersion /\ 1 \in Policy
  BY VersionAssumption DEF Policy
<1>2. Settling(1, FALSE) \in Seq(Calls)
  BY <1>1, Saved DEF Begins
<1>3. Begins(Enveloping, Call("envelope", 1, FALSE), Settling(1, FALSE))
  BY <1>1, <1>2, ThenBegins DEF Enveloping, Ops
<1>4. Begins(Pinning, Call("pin", 1, FALSE), Enveloping)
  BY <1>1, <1>3, ThenBegins DEF Pinning, Ops, Begins
<1> QED
  BY <1>3, <1>4

\* what Restore-ActivePolicy and recover still do
LEMMA Restored ==
  ASSUME NEW v \in Policy
  PROVE  /\ Begins(Reapplying(v), Call("kernel", v, FALSE), Settling(v, FALSE))
         /\ Begins(CopyingBack(v), Call("copyback", v, FALSE), Settling(v, FALSE))
         /\ Begins(FallingBack(v), Call("kernel", v, FALSE), CopyingBack(v))
         /\ Begins(Only("kernel", v), Call("kernel", v, FALSE), <<>>)
<1>1. v \in 0..MaxVersion /\ <<>> \in Seq(Calls)
  BY VersionAssumption DEF Policy
<1>2. Settling(v, FALSE) \in Seq(Calls)
  BY Saved DEF Begins
<1>3. Begins(Reapplying(v), Call("kernel", v, FALSE), Settling(v, FALSE))
  BY <1>1, <1>2, ThenBegins DEF Reapplying, Ops
<1>4. Begins(CopyingBack(v), Call("copyback", v, FALSE), Settling(v, FALSE))
  BY <1>1, <1>2, ThenBegins DEF CopyingBack, Ops
<1>5. Begins(FallingBack(v), Call("kernel", v, FALSE), CopyingBack(v))
  BY <1>1, <1>4, ThenBegins DEF FallingBack, Ops, Begins
<1>6. Begins(Only("kernel", v), Call("kernel", v, FALSE), <<>>)
  BY <1>1, ThenBegins DEF Only, Ops
<1> QED
  BY <1>3, <1>4, <1>5, <1>6

LEMMA Fallen ==
  /\ Begins(Auditing, Call("audit", 0, FALSE), Only("pending", 0))
  /\ \A op \in {"pending", "audit", "restore"} : Begins(Only(op, 0), Call(op, 0, FALSE), <<>>)
<1>1. 0 \in 0..MaxVersion /\ <<>> \in Seq(Calls)
  BY VersionAssumption
<1>2. \A op \in {"pending", "audit", "restore"} : Begins(Only(op, 0), Call(op, 0, FALSE), <<>>)
  BY <1>1, ThenBegins DEF Only, Ops
<1>3. Begins(Auditing, Call("audit", 0, FALSE), Only("pending", 0))
  BY <1>1, <1>2, ThenBegins DEF Auditing, Ops, Begins
<1> QED
  BY <1>2, <1>3

-----------------------------------------------------------------------------
(* The scripts are those rests. *)

LEMMA ACall ==
  ASSUME NEW op \in Ops, NEW v \in 0..MaxVersion, NEW try \in BOOLEAN
  PROVE  Call(op, v, try) \in Calls
BY DEF Call, Calls

LEMMA NoVersion == 0 \in 0..MaxVersion /\ 1 \in 0..MaxVersion /\ 1 \in Policy
BY VersionAssumption DEF Policy

LEMMA Single ==
  ASSUME NEW S, NEW a \in S
  PROVE  <<a>> \in Seq(S) /\ <<a>> \o <<>> = <<a>>
<1>1. <<a>> \in Seq(S)
  OBVIOUS
<1> QED
  BY <1>1, ConcatEmptySeq

LEMMA Pair ==
  ASSUME NEW S, NEW a \in S, NEW b \in S
  PROVE  <<a, b>> \in Seq(S) /\ <<a, b>> = <<a>> \o <<b>>
<1> DEFINE x == <<a>>
           y == <<b>>
           z == <<a, b>>
<1>1. x \in Seq(S) /\ Len(x) = 1 /\ x[1] = a
  OBVIOUS
<1>2. y \in Seq(S) /\ Len(y) = 1 /\ y[1] = b
  OBVIOUS
<1>3. z \in Seq(S) /\ Len(z) = 2 /\ z[1] = a /\ z[2] = b
  OBVIOUS
<1> HIDE DEF x, y, z
<1>4. /\ x \o y \in Seq(S) /\ Len(x \o y) = Len(x) + Len(y)
      /\ \A i \in 1..Len(x) + Len(y) : (x \o y)[i] = IF i <= Len(x) THEN x[i] ELSE y[i - Len(x)]
  BY <1>1, <1>2, ConcatProperties
<1>5. Len(z) = Len(x \o y) /\ \A i \in 1..Len(z) : z[i] = (x \o y)[i]
  BY <1>1, <1>2, <1>3, <1>4
<1>6. z = x \o y
  BY <1>3, <1>4, <1>5, SeqEqual
<1> QED
  BY <1>3, <1>6 DEF x, y, z

LEMMA Triple ==
  ASSUME NEW S, NEW a \in S, NEW b \in S, NEW c \in S
  PROVE  <<a, b, c>> \in Seq(S) /\ <<a, b, c>> = <<a>> \o <<b, c>>
<1> DEFINE x == <<a>>
           y == <<b, c>>
           z == <<a, b, c>>
<1>1. x \in Seq(S) /\ Len(x) = 1 /\ x[1] = a
  OBVIOUS
<1>2. y \in Seq(S) /\ Len(y) = 2 /\ y[1] = b /\ y[2] = c
  OBVIOUS
<1>3. z \in Seq(S) /\ Len(z) = 3 /\ z[1] = a /\ z[2] = b /\ z[3] = c
  OBVIOUS
<1> HIDE DEF x, y, z
<1>4. /\ x \o y \in Seq(S) /\ Len(x \o y) = Len(x) + Len(y)
      /\ \A i \in 1..Len(x) + Len(y) : (x \o y)[i] = IF i <= Len(x) THEN x[i] ELSE y[i - Len(x)]
  BY <1>1, <1>2, ConcatProperties
<1>5. Len(z) = Len(x \o y) /\ \A i \in 1..Len(z) : z[i] = (x \o y)[i]
  BY <1>1, <1>2, <1>3, <1>4
<1>6. z = x \o y
  BY <1>3, <1>4, <1>5, SeqEqual
<1> QED
  BY <1>3, <1>6 DEF x, y, z

LEMMA Closed ==
  ASSUME NEW s \in Seq(Calls), NEW t \in Seq(Calls)
  PROVE  s \o t \in Seq(Calls)
BY ConcatProperties

LEMMA Associative ==
  ASSUME NEW s \in Seq(Calls), NEW t \in Seq(Calls), NEW u \in Seq(Calls)
  PROVE  (s \o t) \o u = s \o (t \o u)
BY ConcatAssociative

\* one, two and three calls before the others
Before(a, rest)            == <<a>> \o rest
TwoBefore(a, b, rest)      == <<a, b>> \o rest
ThreeBefore(a, b, c, rest) == <<a, b, c>> \o rest

LEMMA TwoFirst ==
  ASSUME NEW a \in Calls, NEW b \in Calls, NEW rest \in Seq(Calls)
  PROVE  TwoBefore(a, b, rest) = Before(a, Before(b, rest))
<1>1. <<a>> \in Seq(Calls) /\ <<b>> \in Seq(Calls) /\ <<a, b>> = <<a>> \o <<b>>
  BY Single, Pair
<1>2. PICK x \in Seq(Calls), y \in Seq(Calls) : x = <<a>> /\ y = <<b>>
  BY <1>1
<1>3. (x \o y) \o rest = x \o (y \o rest)
  BY Associative
<1> QED
  BY <1>1, <1>2, <1>3 DEF Before, TwoBefore

LEMMA ThreeFirst ==
  ASSUME NEW a \in Calls, NEW b \in Calls, NEW c \in Calls, NEW rest \in Seq(Calls)
  PROVE  ThreeBefore(a, b, c, rest) = Before(a, Before(b, Before(c, rest)))
<1>1. <<a>> \in Seq(Calls) /\ <<b, c>> \in Seq(Calls) /\ <<a, b, c>> = <<a>> \o <<b, c>>
  BY Single, Pair, Triple
<1>2. PICK x \in Seq(Calls), y \in Seq(Calls) : x = <<a>> /\ y = <<b, c>>
  BY <1>1
<1>3. (x \o y) \o rest = x \o (y \o rest)
  BY Associative
<1>4. ThreeBefore(a, b, c, rest) = Before(a, TwoBefore(b, c, rest))
  BY <1>1, <1>2, <1>3 DEF Before, TwoBefore, ThreeBefore
<1> QED
  BY <1>4, TwoFirst

LEMMA ThreeListed ==
  ASSUME NEW a \in Calls, NEW b \in Calls, NEW c \in Calls
  PROVE  <<a, b, c>> \in Seq(Calls)
BY Triple

\* Set-PolicyState, with what the script does after it
LEMMA SetState ==
  ASSUME NEW v \in Policy, NEW rec \in BOOLEAN, NEW try \in BOOLEAN, NEW rest \in Seq(Calls)
  PROVE  /\ SetPolicyState(v, rec, try) \in Seq(Calls)
         /\ SetPolicyState(v, rec, try) \o rest =
              Then(IF rec THEN "pending" ELSE "settled", v, try,
                   Then("load", v, try, Then("copy", v, try, Then("write", v, try, rest))))
<1> DEFINE op == IF rec THEN "pending" ELSE "settled"
           s == Call(op, v, try)
           a == Call("load", v, try)
           b == Call("copy", v, try)
           c == Call("write", v, try)
<1>1. v # 0 /\ v \in 0..MaxVersion /\ op \in Ops
  BY VersionAssumption DEF Policy, Ops
<1>2. s \in Calls /\ a \in Calls /\ b \in Calls /\ c \in Calls
  BY <1>1, ACall DEF Ops
<1>3. SetPolicyState(v, rec, try) = <<s>> \o <<a, b, c>>
  BY <1>1 DEF SetPolicyState
<1>4. Then(op, v, try, Then("load", v, try, Then("copy", v, try, Then("write", v, try, rest))))
        = Before(s, Before(a, Before(b, Before(c, rest))))
  BY DEF Then, Before
<1> HIDE DEF s, a, b, c
<1>5. PICK x \in Seq(Calls), y \in Seq(Calls) : x = <<s>> /\ y = <<a, b, c>>
  BY <1>2, Single, ThreeListed
<1>6. x \o y \in Seq(Calls)
  BY Closed
<1>7. (x \o y) \o rest = x \o (y \o rest)
  BY Associative
<1>8. (<<s>> \o <<a, b, c>>) \o rest = Before(s, ThreeBefore(a, b, c, rest))
  BY <1>5, <1>7 DEF Before, ThreeBefore
<1>9. ThreeBefore(a, b, c, rest) = Before(a, Before(b, Before(c, rest)))
  BY <1>2, ThreeFirst
<1> QED
  BY <1>3, <1>4, <1>5, <1>6, <1>8, <1>9

LEMMA Settles ==
  ASSUME NEW v \in Policy, NEW try \in BOOLEAN
  PROVE  SetPolicyState(v, FALSE, try) = Settling(v, try) /\ SetPolicyState(v, FALSE, try) \in Seq(Calls)
<1>1. PICK rest \in Seq(Calls) : rest = <<>>
  BY EmptySeq
<1>2. /\ SetPolicyState(v, FALSE, try) \in Seq(Calls)
      /\ SetPolicyState(v, FALSE, try) \o rest =
           Then("settled", v, try,
                Then("load", v, try, Then("copy", v, try, Then("write", v, try, rest))))
  <2>1. CASE try = TRUE
    BY ONLY v \in Policy, <2>1, rest \in Seq(Calls), SetState
  <2>2. CASE try = FALSE
    BY ONLY v \in Policy, <2>2, rest \in Seq(Calls), SetState
  <2> QED
    BY <2>1, <2>2
<1>3. SetPolicyState(v, FALSE, try) \o <<>> = Settling(v, try)
  BY <1>1, <1>2 DEF Settling, Loading, Copying, Writing
<1> QED
  BY <1>2, <1>3, ConcatEmptySeq

LEMMA SetNoState ==
  ASSUME NEW rest \in Seq(Calls)
  PROVE  /\ SetPolicyState(0, TRUE, FALSE) = Only("pending", 0)
         /\ SetPolicyState(0, TRUE, FALSE) \in Seq(Calls)
         /\ SetPolicyState(0, TRUE, FALSE) \o rest = Then("pending", 0, FALSE, rest)
<1>1. Call("pending", 0, FALSE) \in Calls
  BY NoVersion, ACall DEF Ops
<1>2. SetPolicyState(0, TRUE, FALSE) = <<Call("pending", 0, FALSE)>> \o <<>>
  BY DEF SetPolicyState
<1>3. PICK a : a = Call("pending", 0, FALSE)
  OBVIOUS
<1>4. <<a>> \in Seq(Calls) /\ <<a>> \o <<>> = <<a>>
  BY <1>1, <1>3, Single
<1> QED
  BY <1>2, <1>3, <1>4 DEF Only, Then

LEMMA InitializeIs == InitializeCalls = Pinning
<1> DEFINE a == Call("pin", 1, FALSE)
           b == Call("envelope", 1, FALSE)
           s == SetPolicyState(1, FALSE, FALSE)
<1>1. a \in Calls /\ b \in Calls /\ 1 \in Policy
  BY NoVersion, ACall DEF Ops
<1>2. s \in Seq(Calls) /\ s = Settling(1, FALSE)
  BY <1>1, Settles
<1>3. InitializeCalls = TwoBefore(a, b, s) /\ Pinning = Before(a, Before(b, Settling(1, FALSE)))
  BY DEF InitializeCalls, Pinning, Enveloping, Then, Before, TwoBefore
<1> HIDE DEF a, b, s
<1>4. TwoBefore(a, b, s) = Before(a, Before(b, s))
  BY <1>1, <1>2, TwoFirst
<1> QED
  BY <1>2, <1>3, <1>4

LEMMA ApplyIs ==
  ASSUME NEW p \in Policy, state.v \in 0..MaxVersion
  PROVE  ApplyCalls(p) = Staging(state.v, p)
<1> DEFINE t == Call("stage", p, FALSE)
           m == SetPolicyState(state.v, TRUE, FALSE)
           a == Call("kernel", p, TRUE)
           b == Call("backup", p, TRUE)
           c == Call("activate", p, TRUE)
           s == SetPolicyState(p, FALSE, TRUE)
<1>1. p \in 0..MaxVersion
  BY VersionAssumption DEF Policy
<1>2. t \in Calls /\ a \in Calls /\ b \in Calls /\ c \in Calls
  BY <1>1, ACall DEF Ops
<1>3. s \in Seq(Calls) /\ s = Settling(p, TRUE)
  BY Settles
<1>4. ApplyCalls(p) = ((<<t>> \o m) \o <<a, b, c>>) \o s
  BY DEF ApplyCalls
<1>5. Applying(p) = Before(a, Before(b, Before(c, Settling(p, TRUE))))
  BY DEF Applying, BackingUp, Activating, Then, Before
<1>6. Applying(p) = <<a, b, c>> \o s /\ <<a, b, c>> \in Seq(Calls) /\ <<t>> \in Seq(Calls)
  <2> HIDE DEF t, a, b, c, s
  <2>4. a \in Calls /\ b \in Calls /\ c \in Calls /\ s \in Seq(Calls)
    BY <1>2, <1>3
  <2>1. ThreeBefore(a, b, c, s) = Before(a, Before(b, Before(c, s)))
    BY ONLY <2>4, ThreeFirst
  <2>2. <<a, b, c>> \in Seq(Calls)
    BY <1>2, ThreeListed
  <2>3. <<t>> \in Seq(Calls)
    BY <1>2, Single
  <2> QED
    BY <1>3, <1>5, <2>1, <2>2, <2>3 DEF ThreeBefore
<1>7. Applying(p) \in Seq(Calls)
  BY <1>1, Applied DEF Begins
<1>8. m \in Seq(Calls) /\ m \o Applying(p) = Marking(state.v, p)
  <2>1. CASE state.v = 0
    BY <1>7, <2>1, SetNoState DEF Marking
  <2>2. CASE state.v # 0
    <3>1. state.v \in Policy
      BY <2>2, VersionAssumption DEF Policy
    <3>2. /\ m \in Seq(Calls)
          /\ m \o Applying(p) = Then("pending", state.v, FALSE,
               Then("load", state.v, FALSE, Then("copy", state.v, FALSE, Then("write", state.v, FALSE, Applying(p)))))
      BY <1>7, <3>1, SetState
    <3> QED
      BY <2>2, <3>2 DEF Marking, MarkLoading, MarkCopying, MarkWriting
  <2> QED
    BY <2>1, <2>2
<1>9. Staging(state.v, p) = <<t>> \o Marking(state.v, p)
  BY DEF Staging, Then
<1> HIDE DEF t, m, a, b, c, s
<1>10. PICK x, abc : x = <<t>> /\ abc = <<a, b, c>>
  OBVIOUS
<1>11. x \in Seq(Calls) /\ x \o m \in Seq(Calls) /\ abc \in Seq(Calls) /\ Applying(p) = abc \o s
  BY <1>6, <1>8, <1>10, Closed
<1>12. ((x \o m) \o abc) \o s = (x \o m) \o (abc \o s)
  <2>1. x \o m \in Seq(Calls) /\ abc \in Seq(Calls) /\ s \in Seq(Calls)
    BY <1>3, <1>11
  <2> QED
    BY <2>1, Associative
<1>13. (x \o m) \o Applying(p) = x \o (m \o Applying(p))
  BY <1>6, <1>7, <1>8, <1>10, Associative
<1> QED
  BY <1>4, <1>8, <1>9, <1>10, <1>11, <1>12, <1>13

LEMMA RestoreIs ==
  /\ Verified(current) => current \in Policy /\ RestoreCalls = Reapplying(current)
  /\ ~Verified(current) /\ Verified(previous) =>
       previous \in Policy /\ RestoreCalls = FallingBack(previous)
  /\ ~Verified(current) /\ ~Verified(previous) => RestoreCalls = Auditing
<1>1. CASE Verified(current)
  <2>1. current \in Policy
    BY <1>1 DEF Verified
  <2>2. SetPolicyState(current, FALSE, FALSE) = Settling(current, FALSE)
    BY <2>1, Settles
  <2> QED
    BY <1>1, <2>1, <2>2 DEF RestoreCalls, Reapplying, Then
<1>2. CASE ~Verified(current) /\ Verified(previous)
  <2> DEFINE a == Call("kernel", previous, FALSE)
             b == Call("copyback", previous, FALSE)
             s == SetPolicyState(previous, FALSE, FALSE)
  <2>1. previous \in Policy /\ previous \in 0..MaxVersion
    BY <1>2, VersionAssumption DEF Verified, Policy
  <2>2. s \in Seq(Calls) /\ s = Settling(previous, FALSE) /\ a \in Calls /\ b \in Calls
    BY <2>1, Settles, ACall DEF Ops
  <2>3. /\ RestoreCalls = TwoBefore(a, b, s)
        /\ FallingBack(previous) = Before(a, Before(b, Settling(previous, FALSE)))
    BY <1>2 DEF RestoreCalls, FallingBack, CopyingBack, Then, Before, TwoBefore
  <2> HIDE DEF a, b, s
  <2>4. TwoBefore(a, b, s) = Before(a, Before(b, s))
    BY <2>2, TwoFirst
  <2>5. RestoreCalls = FallingBack(previous)
    BY <2>2, <2>3, <2>4
  <2> QED
    BY <1>2, <2>1, <2>5
<1>3. CASE ~Verified(current) /\ ~Verified(previous)
  <2>1. SetPolicyState(0, TRUE, FALSE) = Only("pending", 0)
    BY EmptySeq, SetNoState
  <2> QED
    BY <1>3, <2>1 DEF RestoreCalls, Auditing, Then
<1> QED
  BY <1>1, <1>2, <1>3

\* a script of one call
LEMMA OneCall ==
  ASSUME NEW op \in Ops, NEW v \in 0..MaxVersion
  PROVE  <<Call(op, v, FALSE)>> = Only(op, v)
<1>1. PICK a : a = Call(op, v, FALSE)
  OBVIOUS
<1>2. a \in Calls
  BY <1>1, ACall
<1>3. <<a>> \o <<>> = <<a>>
  BY <1>2, Single
<1> QED
  BY <1>1, <1>3 DEF Only, Then

-----------------------------------------------------------------------------
(* What is so when a call is next. *)

LEMMA VersionFacts ==
  /\ NoFile \notin 0..MaxVersion /\ Damaged \notin 0..MaxVersion /\ NoFile # Damaged
  /\ NoFile \notin Policy /\ Damaged \notin Policy /\ 0 \notin Policy /\ 1 \in Policy
  /\ 0 \in 0..MaxVersion
  /\ \A v \in Policy : v \in 0..MaxVersion /\ v > 0
  /\ \A v \in 0..MaxVersion : v \in Nat /\ (v # 0 => v \in Policy) /\ (v > 0 => v \in Policy)
BY VersionAssumption, FileAssumption DEF Policy

LEMMA Effects ==
  /\ Effect(0) = Audit /\ Effect(1) = Audit /\ Audit \in 0..MaxVersion
  /\ \A v \in 0..MaxVersion : Effect(v) \in 0..MaxVersion /\ Effect(v) \in {Audit, v}
BY VersionAssumption, PolicyAssumption DEF Effect, Audit

Situation ==
  /\ Idle => AtRest
  /\ Doing("pin") => Untouched /\ todo = Pinning
  /\ Doing("envelope") => Untouched /\ pin /\ todo = Enveloping
  /\ Doing("stage") => \E p \in Policy : Newer(p) /\ todo = Staging(state.v, p)
  /\ Doing("settled") =>
       \E v \in Policy, try \in BOOLEAN : InSlot(v) /\ todo = Settling(v, try) /\ (try => state.rec)
  /\ Doing("pending") =>
       \/ \E p \in Policy : Newer(p) /\ staged = p /\ todo = Marking(state.v, p)
       \/ todo = Only("pending", 0) /\ NoneLeft
  /\ Doing("load") =>
       \/ \E v \in Policy, try \in BOOLEAN : Settled(v) /\ todo = Loading(v, try)
       \/ \E p \in Policy : Marked(p) /\ state.v > 0 /\ todo = MarkLoading(state.v, p)
  /\ Doing("copy") =>
       /\ Readable(primary)
       /\ \/ \E v \in Policy, try \in BOOLEAN : Settled(v) /\ todo = Copying(v, try)
          \/ \E p \in Policy : Marked(p) /\ state.v > 0 /\ todo = MarkCopying(state.v, p)
  /\ Doing("write") =>
       /\ Readable(primary)
       /\ \/ \E v \in Policy, try \in BOOLEAN : Settled(v) /\ todo = Writing(v, try)
          \/ \E p \in Policy : Marked(p) /\ state.v > 0 /\ todo = MarkWriting(state.v, p)
  /\ Doing("kernel") =>
       \/ \E p \in Policy : Marked(p) /\ todo = Applying(p)
       \/ \E v \in Policy : pin /\ current = v /\ todo = Reapplying(v)
       \/ \E v \in Policy : pin /\ current = v /\ ~state.rec /\ todo = Only("kernel", v)
       \/ \E v \in Policy : Fallback(v) /\ todo = FallingBack(v)
  /\ Doing("backup") => \E p \in Policy : Marked(p) /\ InForce(p) /\ todo = BackingUp(p)
  /\ Doing("activate") => \E p \in Policy : Marked(p) /\ InForce(p) /\ BackedUp /\ todo = Activating(p)
  /\ Doing("copyback") => \E v \in Policy : Fallback(v) /\ InForce(v) /\ todo = CopyingBack(v)
  /\ Doing("audit") =>
       \/ todo = Auditing /\ NoneLeft
       \/ todo = Only("audit", 0) /\ ~state.rec /\ current = NoFile
  /\ Doing("restore") =>
       todo = Only("restore", 0) /\ (state.rec \/ current \in Policy)

\* only the first call is being done
LEMMA OneAtATime ==
  ASSUME NEW op, NEW v, NEW try, NEW rest, Begins(todo, Call(op, v, try), rest)
  PROVE  ~Idle /\ Head(todo).try = try /\ \A other : Doing(other) => other = op
BY FirstCall DEF Doing, Idle

LEMMA Where == PolicyInv => Situation
<1> SUFFICES ASSUME PolicyInv PROVE Situation
  OBVIOUS
<1>1. state.v \in 0..MaxVersion
  BY DEF PolicyInv, PolicyTypeOK
<1>2. CASE AtRest
  BY <1>2 DEF AtRest, Situation, Doing, Idle
<1>3. CASE AtInitialize
  <2>1. CASE todo = Pinning
    <3>1. ~Idle /\ \A other : Doing(other) => other = "pin"
      BY <2>1, Initialized, OneAtATime
    <3> QED
      BY <1>3, <2>1, <3>1 DEF AtInitialize, Situation
  <2>2. CASE todo = Enveloping /\ pin
    <3>1. ~Idle /\ \A other : Doing(other) => other = "envelope"
      BY <2>2, Initialized, OneAtATime
    <3> QED
      BY <1>3, <2>2, <3>1 DEF AtInitialize, Situation
  <2> QED
    BY <1>3, <2>1, <2>2 DEF AtInitialize
<1>4. CASE AtFallback
  <2>1. CASE todo = Only("restore", 0) /\ (state.rec \/ current \in Policy)
    <3>1. ~Idle /\ \A other : Doing(other) => other = "restore"
      BY <2>1, Fallen, OneAtATime
    <3> QED
      BY <2>1, <3>1 DEF Situation
  <2>2. CASE todo = Only("audit", 0) /\ ~state.rec /\ current = NoFile
    <3>1. ~Idle /\ \A other : Doing(other) => other = "audit"
      BY <2>2, Fallen, OneAtATime
    <3> QED
      BY <2>2, <3>1 DEF Situation
  <2>3. CASE todo = Auditing /\ NoneLeft
    <3>1. ~Idle /\ \A other : Doing(other) => other = "audit"
      BY <2>3, Fallen, OneAtATime
    <3> QED
      BY <2>3, <3>1 DEF Situation
  <2>4. CASE todo = Only("pending", 0) /\ NoneLeft
    <3>1. ~Idle /\ \A other : Doing(other) => other = "pending"
      BY <2>4, Fallen, OneAtATime
    <3> QED
      BY <2>4, <3>1 DEF Situation
  <2> QED
    BY <1>4, <2>1, <2>2, <2>3, <2>4 DEF AtFallback
<1>5. ASSUME NEW v \in Policy, AtSettled(v) PROVE Situation
  <2>1. PICK try \in BOOLEAN :
          \/ InSlot(v) /\ todo = Settling(v, try) /\ (try => state.rec)
          \/ Settled(v) /\ todo = Loading(v, try)
          \/ Settled(v) /\ todo = Copying(v, try) /\ Readable(primary)
          \/ Settled(v) /\ todo = Writing(v, try) /\ Readable(primary)
    BY <1>5 DEF AtSettled
  <2>2. CASE InSlot(v) /\ todo = Settling(v, try) /\ (try => state.rec)
    <3>1. ~Idle /\ \A other : Doing(other) => other = "settled"
      BY <2>2, Saved, OneAtATime
    <3> QED
      BY <2>2, <3>1 DEF Situation
  <2>3. CASE Settled(v) /\ todo = Loading(v, try)
    <3>1. ~Idle /\ \A other : Doing(other) => other = "load"
      BY <2>3, Saved, OneAtATime
    <3> QED
      BY <2>3, <3>1 DEF Situation
  <2>4. CASE Settled(v) /\ todo = Copying(v, try) /\ Readable(primary)
    <3>1. ~Idle /\ \A other : Doing(other) => other = "copy"
      BY <2>4, Saved, OneAtATime
    <3> QED
      BY <2>4, <3>1 DEF Situation
  <2>5. CASE Settled(v) /\ todo = Writing(v, try) /\ Readable(primary)
    <3>1. ~Idle /\ \A other : Doing(other) => other = "write"
      BY <2>5, Saved, OneAtATime
    <3> QED
      BY <2>5, <3>1 DEF Situation
  <2> QED
    BY <2>1, <2>2, <2>3, <2>4, <2>5
<1>6. ASSUME NEW p \in Policy, AtApply(p) PROVE Situation
  <2>1. CASE Newer(p) /\ todo = Staging(state.v, p)
    <3>1. ~Idle /\ \A other : Doing(other) => other = "stage"
      BY <1>1, <2>1, Applied, OneAtATime
    <3> QED
      BY <2>1, <3>1 DEF Situation
  <2>2. CASE Newer(p) /\ staged = p /\ todo = Marking(state.v, p)
    <3>1. ~Idle /\ \A other : Doing(other) => other = "pending"
      BY <1>1, <2>2, Applied, OneAtATime
    <3> QED
      BY <2>2, <3>1 DEF Situation
  <2>3. CASE Marked(p) /\ state.v > 0 /\ todo = MarkLoading(state.v, p)
    <3>1. ~Idle /\ \A other : Doing(other) => other = "load"
      BY <1>1, <2>3, Applied, OneAtATime
    <3> QED
      BY <2>3, <3>1 DEF Situation
  <2>4. CASE Marked(p) /\ state.v > 0 /\ Readable(primary) /\ todo = MarkCopying(state.v, p)
    <3>1. ~Idle /\ \A other : Doing(other) => other = "copy"
      BY <1>1, <2>4, Applied, OneAtATime
    <3> QED
      BY <2>4, <3>1 DEF Situation
  <2>5. CASE Marked(p) /\ state.v > 0 /\ Readable(primary) /\ todo = MarkWriting(state.v, p)
    <3>1. ~Idle /\ \A other : Doing(other) => other = "write"
      BY <1>1, <2>5, Applied, OneAtATime
    <3> QED
      BY <2>5, <3>1 DEF Situation
  <2>6. CASE Marked(p) /\ todo = Applying(p)
    <3>1. ~Idle /\ \A other : Doing(other) => other = "kernel"
      BY <1>1, <2>6, Applied, OneAtATime
    <3> QED
      BY <2>6, <3>1 DEF Situation
  <2>7. CASE Marked(p) /\ InForce(p) /\ todo = BackingUp(p)
    <3>1. ~Idle /\ \A other : Doing(other) => other = "backup"
      BY <1>1, <2>7, Applied, OneAtATime
    <3> QED
      BY <2>7, <3>1 DEF Situation
  <2>8. CASE Marked(p) /\ InForce(p) /\ BackedUp /\ todo = Activating(p)
    <3>1. ~Idle /\ \A other : Doing(other) => other = "activate"
      BY <1>1, <2>8, Applied, OneAtATime
    <3> QED
      BY <2>8, <3>1 DEF Situation
  <2> QED
    BY <1>6, <2>1, <2>2, <2>3, <2>4, <2>5, <2>6, <2>7, <2>8 DEF AtApply
<1>7. ASSUME NEW v \in Policy, AtRestore(v) PROVE Situation
  <2>1. CASE pin /\ current = v /\ todo = Reapplying(v)
    <3>1. ~Idle /\ \A other : Doing(other) => other = "kernel"
      BY <2>1, Restored, OneAtATime
    <3> QED
      BY <2>1, <3>1 DEF Situation
  <2>2. CASE pin /\ current = v /\ ~state.rec /\ todo = Only("kernel", v)
    <3>1. ~Idle /\ \A other : Doing(other) => other = "kernel"
      BY <2>2, Restored, OneAtATime
    <3> QED
      BY <2>2, <3>1 DEF Situation
  <2>3. CASE Fallback(v) /\ todo = FallingBack(v)
    <3>1. ~Idle /\ \A other : Doing(other) => other = "kernel"
      BY <2>3, Restored, OneAtATime
    <3> QED
      BY <2>3, <3>1 DEF Situation
  <2>4. CASE Fallback(v) /\ InForce(v) /\ todo = CopyingBack(v)
    <3>1. ~Idle /\ \A other : Doing(other) => other = "copyback"
      BY <2>4, Restored, OneAtATime
    <3> QED
      BY <2>4, <3>1 DEF Situation
  <2> QED
    BY <1>7, <2>1, <2>2, <2>3, <2>4 DEF AtRestore
<1> QED
  BY <1>2, <1>3, <1>4, <1>5, <1>6, <1>7 DEF PolicyInv, Progress

\* a call of which the failure is followed by Restore-ActivePolicy has something to restore
LEMMA TryMeans ==
  ASSUME PolicyInv, ~Idle, Head(todo).try
  PROVE  state.rec \/ current \in Policy
<1> DEFINE Restorable == state.rec \/ current \in Policy
<1>1. state.v \in 0..MaxVersion
  BY DEF PolicyInv, PolicyTypeOK
<1>2. CASE AtRest
  BY <1>2 DEF AtRest, Idle
<1>3. CASE AtInitialize
  <2>1. PICK op, rest : Begins(todo, Call(op, 1, FALSE), rest)
    BY <1>3, Initialized DEF AtInitialize
  <2>2. Head(todo).try = FALSE
    BY <2>1, OneAtATime
  <2> QED
    BY <2>2
<1>4. CASE AtFallback
  <2>1. Head(todo).try = FALSE
    BY <1>4, Fallen, OneAtATime DEF AtFallback
  <2> QED
    BY <2>1
<1>5. ASSUME NEW v \in Policy, AtSettled(v) PROVE Restorable
  <2>1. CASE Settled(v)
    BY <2>1, VersionFacts DEF Settled, InSlot
  <2>2. ASSUME NEW try \in BOOLEAN, todo = Settling(v, try), try => state.rec PROVE Restorable
    <3>1. Head(todo).try = try
      BY <2>2, Saved, OneAtATime
    <3> QED
      BY <2>2, <3>1
  <2> QED
    BY <1>5, <2>1, <2>2 DEF AtSettled
<1>6. ASSUME NEW p \in Policy, AtApply(p) PROVE Restorable
  <2>1. CASE Marked(p)
    BY <2>1 DEF Marked
  <2>2. CASE todo = Staging(state.v, p)
    <3>1. Head(todo).try = FALSE
      BY <1>1, <2>2, Applied, OneAtATime
    <3> QED
      BY <3>1
  <2>3. CASE todo = Marking(state.v, p)
    <3>1. PICK rest : Begins(todo, Call("pending", state.v, FALSE), rest)
      BY <1>1, <2>3, Applied
    <3>2. Head(todo).try = FALSE
      BY <3>1, OneAtATime
    <3> QED
      BY <3>2
  <2> QED
    BY <1>6, <2>1, <2>2, <2>3 DEF AtApply
<1>7. ASSUME NEW v \in Policy, AtRestore(v) PROVE Restorable
  <2>1. PICK op, rest : Begins(todo, Call(op, v, FALSE), rest)
    BY <1>7, Restored DEF AtRestore
  <2>2. Head(todo).try = FALSE
    BY <2>1, OneAtATime
  <2> QED
    BY <2>2
<1> QED
  BY <1>2, <1>3, <1>4, <1>5, <1>6, <1>7 DEF PolicyInv, Progress

-----------------------------------------------------------------------------
(* What a call leaves behind. *)

LEMMA CallReturns ==
  ASSUME NEW op, NEW v, NEW try, NEW rest, Begins(todo, Call(op, v, try), rest), Done
  PROVE  /\ todo' = rest /\ damaged' = damaged /\ faulted' = faulted /\ slotLost' = slotLost /\ Arg = v
BY FirstCall DEF Done, Arg, history

\* the files of the store, through any call but the copy
LEMMA StoreKept ==
  ASSUME StoreOK, UNCHANGED storeVars, ~Doing("copy"), damaged' = damaged,
         faulted \in BOOLEAN, faulted' \in BOOLEAN, faulted => faulted'
  PROVE  StoreOK'
BY DEF StoreOK, storeVars, Readable, Absent

LEMMA RestAfter ==
  ASSUME todo' = <<>>,
         \/ (~state.rec /\ state.v > 0 /\ InForce(state.v))'
         \/ (~state.rec /\ Verified(current) /\ InForce(IF state.v > 0 THEN state.v ELSE current))'
         \/ (state.v = 0 /\ ~Verified(current) /\ (state.rec => ~Verified(previous)))'
  PROVE  AtRest'
BY DEF AtRest, OutcomeIsTrue, InForce

\* the pin, the signer of the policy
LEMMA PinKeeps ==
  ASSUME PolicyInv, Pin
  PROVE  Stable'
<1>1. Untouched /\ todo = Pinning
  BY Where DEF Situation, Pin
<1>2. \A other : Doing(other) => other = "pin"
  BY <1>1, Initialized, OneAtATime
<1>3. Untouched /\ todo = Pinning /\ ~Doing("copy")
  BY <1>1, <1>2
<1>4. todo' = Enveloping /\ damaged' = damaged /\ faulted' = faulted /\ slotLost' = slotLost
  BY <1>3, Initialized, CallReturns DEF Pin
<1>5. pin' = TRUE /\ UNCHANGED <<state, slots, drivers, storeVars>>
  BY DEF Pin
<1>6. StoreOK'
  BY <1>3, <1>4, <1>5, StoreKept DEF PolicyInv, PolicyTypeOK
<1>7. PolicyTypeOK' /\ Undamaged' /\ StateIsTrue'
  BY <1>3, <1>4, <1>5 DEF PolicyInv, PolicyTypeOK, Undamaged, StateIsTrue, Untouched, slots, storeVars
<1>8. AtInitialize'
  BY <1>3, <1>4, <1>5 DEF AtInitialize, Untouched, slots
<1> QED
  BY <1>6, <1>7, <1>8 DEF Stable, Progress

LEMMA EnvelopeKeeps ==
  ASSUME PolicyInv, Envelope
  PROVE  Stable'
<1>1. Untouched /\ pin /\ todo = Enveloping
  BY Where DEF Situation, Envelope
<1>2. \A other : Doing(other) => other = "envelope"
  BY <1>1, Initialized, OneAtATime
<1>3. Untouched /\ pin /\ todo = Enveloping /\ ~Doing("copy")
  BY <1>1, <1>2
<1>4. todo' = Settling(1, FALSE) /\ damaged' = damaged /\ faulted' = faulted /\ slotLost' = slotLost /\ Arg = 1
  BY <1>3, Initialized, CallReturns DEF Envelope
<1>5. current' = 1 /\ UNCHANGED <<pin, state, previous, staged, drivers, storeVars>>
  BY <1>4 DEF Envelope
<1>6. StoreOK'
  BY <1>3, <1>4, <1>5, StoreKept DEF PolicyInv, PolicyTypeOK
<1>7. PolicyTypeOK' /\ Undamaged' /\ StateIsTrue'
  BY <1>3, <1>4, <1>5, VersionFacts
     DEF PolicyInv, PolicyTypeOK, Undamaged, StateIsTrue, Untouched, NoState, storeVars, Slot
<1>8. AtSettled(1)'
  BY <1>3, <1>4, <1>5, Effects DEF AtSettled, InSlot, InForce, Untouched
<1> QED
  BY <1>6, <1>7, <1>8, VersionFacts DEF Stable, Progress

LEMMA StageKeeps ==
  ASSUME PolicyInv, Stage
  PROVE  Stable'
<1>1. state.v \in 0..MaxVersion
  BY DEF PolicyInv, PolicyTypeOK
<1>2. PICK p \in Policy : Newer(p) /\ todo = Staging(state.v, p)
  BY Where DEF Situation, Stage
<1>3. todo' = Marking(state.v, p) /\ damaged' = damaged /\ faulted' = faulted /\ slotLost' = slotLost /\ Arg = p
  BY <1>1, <1>2, Applied, CallReturns DEF Stage
<1>4. \A other : Doing(other) => other = "stage"
  BY <1>1, <1>2, Applied, OneAtATime
<1>5. staged' = p /\ UNCHANGED <<pin, state, current, previous, drivers, storeVars>> /\ ~Doing("copy")
  BY <1>3, <1>4 DEF Stage
<1>6. StoreOK'
  BY <1>2, <1>3, <1>5, StoreKept DEF PolicyInv, PolicyTypeOK
<1>7. PolicyTypeOK' /\ Undamaged' /\ StateIsTrue'
  BY <1>2, <1>3, <1>5 DEF PolicyInv, PolicyTypeOK, Undamaged, StateIsTrue, Untouched, storeVars, Slot
<1>8. AtApply(p)'
  BY <1>2, <1>3, <1>5 DEF AtApply, Newer
<1> QED
  BY <1>6, <1>7, <1>8 DEF Stable, Progress

LEMMA WriteStateKeeps ==
  ASSUME PolicyInv, WriteState
  PROVE  Stable'
<1>1. /\ state.v \in 0..MaxVersion /\ UNCHANGED <<pin, slots, drivers, storeVars>>
      /\ PolicyTypeOK /\ Undamaged /\ StateIsTrue /\ StoreOK
  BY DEF PolicyInv, PolicyTypeOK, WriteState
<1>2. CASE Doing("settled")
  <2>1. PICK v \in Policy, try \in BOOLEAN : InSlot(v) /\ todo = Settling(v, try)
    BY <1>2, Where DEF Situation
  <2>2. todo' = Loading(v, try) /\ damaged' = damaged /\ faulted' = faulted /\ slotLost' = slotLost /\ Arg = v
    BY <2>1, Saved, CallReturns DEF WriteState
  <2>3. \A other : Doing(other) => other = "settled"
    BY <2>1, Saved, OneAtATime
  <2>4. ~Doing("copy") /\ ~Doing("pending")
    BY <2>3
  <2>5. Doing("pending") = FALSE
    BY <2>4 DEF Doing
  <2>6. state' = [v |-> v, rec |-> FALSE]
    BY <2>2, <2>5 DEF WriteState
  <2>7. StoreOK'
    BY <1>1, <2>2, <2>4, StoreKept DEF PolicyTypeOK
  <2>8. PolicyTypeOK'
    BY <1>1, <2>2, <2>6, VersionFacts DEF PolicyTypeOK, slots, storeVars
  <2>9. StateIsTrue'
    BY <1>1, <2>1, <2>6 DEF StateIsTrue, Untouched, slots, InSlot, InForce
  <2>10. Undamaged'
    BY <1>1, <2>1, <2>6, Effects, VersionFacts DEF Undamaged, slots, InSlot, InForce
  <2>11. AtSettled(v)'
    BY <1>1, <2>1, <2>2, <2>6 DEF AtSettled, Settled, InSlot, InForce, slots
  <2> QED
    BY <2>7, <2>8, <2>9, <2>10, <2>11 DEF Stable, Progress
<1>3. ASSUME NEW p \in Policy, Newer(p), staged = p, todo = Marking(state.v, p)
      PROVE  Stable'
  <2>1. PICK rest : rest = IF state.v = 0 THEN Applying(p) ELSE MarkLoading(state.v, p)
    OBVIOUS
  <2>2. Begins(todo, Call("pending", state.v, FALSE), rest)
    BY <1>1, <1>3, <2>1, Applied
  <2>3. todo' = rest /\ damaged' = damaged /\ faulted' = faulted /\ slotLost' = slotLost /\ Arg = state.v
    BY <2>2, CallReturns DEF WriteState
  <2>4. /\ todo' = (IF state.v = 0 THEN Applying(p) ELSE MarkLoading(state.v, p))
        /\ damaged' = damaged /\ faulted' = faulted /\ slotLost' = slotLost /\ Arg = state.v
    BY <2>1, <2>3
  <2>5. \A other : Doing(other) => other = "pending"
    BY <2>2, OneAtATime
  <2>6. ~Doing("copy") /\ ~Doing("settled")
    BY <2>5
  <2>7. state' = [v |-> state.v, rec |-> TRUE]
    BY <2>4, <2>6 DEF WriteState
  <2>8. StoreOK'
    BY <1>1, <2>4, <2>6, StoreKept DEF PolicyTypeOK
  <2>9. PolicyTypeOK' /\ StateIsTrue' /\ Undamaged'
    BY <1>1, <1>3, <2>4, <2>7 DEF PolicyTypeOK, slots, storeVars, StateIsTrue, Untouched, Undamaged, Newer
  <2>10. Marked(p)' /\ state'.v = state.v
    BY <1>1, <1>3, <2>7 DEF Marked, Newer, slots
  <2>11. AtApply(p)'
    BY <1>1, <2>4, <2>10 DEF AtApply
  <2> QED
    BY <2>8, <2>9, <2>11 DEF Stable, Progress
<1>4. CASE todo = Only("pending", 0) /\ NoneLeft
  <2>1. todo' = <<>> /\ damaged' = damaged /\ faulted' = faulted /\ slotLost' = slotLost /\ Arg = 0
    BY <1>4, Fallen, CallReturns DEF WriteState
  <2>2. \A other : Doing(other) => other = "pending"
    BY <1>4, Fallen, OneAtATime
  <2>3. ~Doing("copy") /\ ~Doing("settled")
    BY <2>2
  <2>4. state' = [v |-> 0, rec |-> TRUE]
    BY <2>1, <2>3 DEF WriteState
  <2>5. StoreOK'
    BY <1>1, <2>1, <2>3, StoreKept DEF PolicyTypeOK
  <2>6. pin
    BY <1>1, <1>4 DEF StateIsTrue, Untouched, NoState, NoneLeft
  <2>7. PolicyTypeOK' /\ StateIsTrue'
    BY <1>1, <2>1, <2>4, <2>6, VersionFacts DEF PolicyTypeOK, slots, storeVars, StateIsTrue, Untouched
  <2>8. Undamaged'
    BY <1>1, <1>4, <2>1, <2>4, <2>6, VersionFacts DEF PolicyTypeOK, slots, Undamaged, NoneLeft, Verified
  <2>9. NoneLeft'
    BY <1>1, <1>4, <2>4 DEF NoneLeft, Verified, slots
  <2>10. AtRest'
    BY <2>1, <2>4, <2>9, RestAfter DEF NoneLeft
  <2> QED
    BY <2>5, <2>7, <2>8, <2>10 DEF Stable, Progress
<1> QED
  BY <1>2, <1>3, <1>4, Where DEF Situation, WriteState

LEMMA Given ==
  PolicyInv => /\ PolicyTypeOK /\ Undamaged /\ StateIsTrue /\ StoreOK
               /\ state.v \in 0..MaxVersion /\ pin \in BOOLEAN /\ faulted \in BOOLEAN
               /\ slotLost \in {"no", "yes", "again"}
               /\ primary \in StoreFile /\ recovery \in StoreFile
BY DEF PolicyInv, PolicyTypeOK

\* the slots, the state file and the drivers are as they were
LEMMA Unmoved ==
  ASSUME PolicyTypeOK, StateIsTrue, Undamaged, UNCHANGED <<pin, state, slots, drivers>>,
         damaged' = damaged, faulted' \in BOOLEAN, slotLost' = slotLost, primary' \in StoreFile, recovery' \in StoreFile
  PROVE  PolicyTypeOK' /\ StateIsTrue' /\ Undamaged'
BY DEF PolicyTypeOK, StateIsTrue, Untouched, Undamaged, slots

LEMMA LoadKeeps ==
  ASSUME PolicyInv, Load
  PROVE  Stable'
<1>1. /\ PolicyTypeOK /\ Undamaged /\ StateIsTrue /\ StoreOK /\ state.v \in 0..MaxVersion
      /\ faulted \in BOOLEAN /\ primary \in StoreFile /\ recovery \in StoreFile
  BY Given
<1>2. Doing("load") /\ UNCHANGED <<pin, state, slots, drivers>>
  BY DEF Load
<1>3. PICK v, try, rest :
        /\ v \in 0..MaxVersion /\ try \in BOOLEAN
        /\ Begins(todo, Call("load", v, try), rest)
        /\ try => state.v > 0 /\ current = state.v
        /\ \/ v \in Policy /\ Settled(v) /\ rest = Copying(v, try)
           \/ \E p \in Policy : Marked(p) /\ state.v > 0 /\ rest = MarkCopying(state.v, p)
  <2>1. ASSUME NEW v \in Policy, NEW try \in BOOLEAN, Settled(v), todo = Loading(v, try)
        PROVE  /\ Begins(todo, Call("load", v, try), Copying(v, try)) /\ v \in 0..MaxVersion
               /\ state.v > 0 /\ current = state.v
    BY <2>1, Saved, VersionFacts DEF Settled, InSlot
  <2>2. ASSUME NEW p \in Policy, todo = MarkLoading(state.v, p)
        PROVE  Begins(todo, Call("load", state.v, FALSE), MarkCopying(state.v, p))
    BY <1>1, <2>2, Applied
  <2>3. CASE \E v \in Policy, try \in BOOLEAN : Settled(v) /\ todo = Loading(v, try)
    <3>1. PICK v \in Policy, try \in BOOLEAN : Settled(v) /\ todo = Loading(v, try)
      BY <2>3
    <3>2. PICK rest : rest = Copying(v, try)
      OBVIOUS
    <3> QED
      BY <2>1, <3>1, <3>2
  <2>4. CASE \E p \in Policy : Marked(p) /\ state.v > 0 /\ todo = MarkLoading(state.v, p)
    <3>1. PICK p \in Policy : Marked(p) /\ state.v > 0 /\ todo = MarkLoading(state.v, p)
      BY <2>4
    <3>2. PICK v, rest : v = state.v /\ rest = MarkCopying(state.v, p)
      OBVIOUS
    <3>3. Begins(todo, Call("load", v, FALSE), rest)
      BY <2>2, <3>1, <3>2
    <3> QED
      BY <1>1, <3>1, <3>2, <3>3
  <2> QED
    BY <1>2, <2>3, <2>4, Where DEF Situation
<1>4. \A other : Doing(other) => other = "load"
  BY <1>3, OneAtATime
<1>5. ~Doing("copy")
  BY <1>4
<1>6. Stored \in StoreFile /\ (Loadable => Readable(Stored)) /\ 0 \in StoreFile /\ Readable(0)
  BY <1>1, VersionFacts DEF Stored, Loadable, Readable, StoreFile, StoreVersions
<1>7. CASE Refuses(Arg)
  <2>1. Throws /\ faulted' = faulted /\ slotLost' = slotLost /\ (IF Loadable THEN LoadOrCreate ELSE UNCHANGED storeVars)
    BY <1>7 DEF Load
  <2>2. damaged' = damaged
    BY <2>1 DEF Throws
  <2>3. ASSUME Loadable PROVE StoreOK'
    <3>1. primary' = Stored /\ recovery' = recovery /\ ~Absent
      BY <1>1, <2>1, <2>3, FileAssumption, VersionFacts
         DEF LoadOrCreate, Loadable, Absent, Readable, StoreVersions
    <3>2. Readable(primary)'
      BY <1>6, <2>3, <3>1 DEF Readable
    <3>3. ~faulted' => Readable(recovery)
      BY <1>1, <1>5, <2>1, <3>1 DEF StoreOK
    <3>4. ~faulted' => Readable(recovery)'
      BY <3>1, <3>3 DEF Readable
    <3> QED
      BY <3>2, <3>4 DEF StoreOK
  <2>4. ASSUME ~Loadable PROVE StoreOK'
    BY <1>1, <1>5, <2>1, <2>2, <2>4, StoreKept
  <2>5. primary' \in StoreFile /\ recovery' \in StoreFile
    BY <1>1, <1>6, <2>1 DEF LoadOrCreate, storeVars
  <2>6. PolicyTypeOK' /\ StateIsTrue' /\ Undamaged'
    BY <1>1, <1>2, <2>1, <2>2, <2>5, Unmoved
  <2>7. Progress'
    <3>1. CASE try
      <4>1. Head(todo).try = try
        BY <1>3, FirstCall
      <4>2. <<Call("restore", 0, FALSE)>> = Only("restore", 0)
        BY VersionFacts, OneCall DEF Ops
      <4>3. todo' = Only("restore", 0)
        BY <2>1, <3>1, <4>1, <4>2 DEF Throws
      <4>4. AtFallback'
        BY <1>1, <1>2, <1>3, <3>1, <4>3, VersionFacts DEF AtFallback, slots
      <4> QED
        BY <4>4 DEF Progress
    <3>2. CASE ~try
      <4>1. todo' = <<>> /\ result'.outcome = "failed"
        BY <1>3, <2>1, <3>2, FirstCall DEF Throws, PolicyInv, ResultOK
      <4>2. AtRest'
        BY <4>1 DEF AtRest, OutcomeIsTrue
      <4> QED
        BY <4>2 DEF Progress
    <3> QED
      BY <3>1, <3>2
  <2> QED
    BY <2>3, <2>4, <2>6, <2>7 DEF Stable
<1>8. CASE ~Refuses(Arg)
  <2>1. LoadOrCreate /\ Done
    BY <1>8 DEF Load
  <2>2. todo' = rest /\ damaged' = damaged /\ faulted' = faulted /\ slotLost' = slotLost
    BY <1>3, <2>1, CallReturns
  <2>3. primary' \in StoreFile /\ recovery' \in StoreFile /\ Readable(primary)'
    BY <1>1, <1>6, <2>1 DEF LoadOrCreate, Readable
  <2>4. PolicyTypeOK' /\ StateIsTrue' /\ Undamaged'
    BY <1>1, <1>2, <2>2, <2>3, Unmoved
  <2>5. CASE v \in Policy /\ Settled(v) /\ rest = Copying(v, try)
    <3>1. AtSettled(v)'
      BY <1>2, <1>3, <2>2, <2>3, <2>5 DEF AtSettled, Settled, InSlot, InForce, slots
    <3>2. Begins(todo', Call("copy", v, try), Writing(v, try))
      BY <1>3, <2>2, <2>5, Saved
    <3>3. Doing("copy")'
      BY <3>2, FirstCall DEF Doing, Idle
    <3> QED
      BY <2>3, <2>4, <2>5, <3>1, <3>3 DEF Stable, Progress, StoreOK
  <2>6. ASSUME NEW p \in Policy, Marked(p), state.v > 0, rest = MarkCopying(state.v, p) PROVE Stable'
    <3>1. AtApply(p)'
      BY <1>2, <2>2, <2>3, <2>6 DEF AtApply, Marked, Newer, slots
    <3>2. Begins(todo', Call("copy", state.v, FALSE), MarkWriting(state.v, p))
      BY <1>1, <2>2, <2>6, Applied
    <3>3. Doing("copy")'
      BY <3>2, FirstCall DEF Doing, Idle
    <3> QED
      BY <2>3, <2>4, <3>1, <3>3 DEF Stable, Progress, StoreOK
  <2> QED
    BY <1>3, <2>5, <2>6
<1> QED
  BY <1>7, <1>8

LEMMA CopyKeeps ==
  ASSUME PolicyInv, Copy
  PROVE  Stable'
<1>1. /\ PolicyTypeOK /\ Undamaged /\ StateIsTrue /\ StoreOK /\ state.v \in 0..MaxVersion
      /\ faulted \in BOOLEAN /\ primary \in StoreFile /\ recovery \in StoreFile
  BY Given
<1>2. Doing("copy") /\ UNCHANGED <<pin, state, slots, drivers>> /\ Done /\ CopyToRecovery
  BY DEF Copy
<1>3. Readable(primary)
  BY <1>2, Where DEF Situation
<1>4. primary' = primary /\ recovery' = primary
  BY <1>2, <1>3, VersionFacts DEF CopyToRecovery, Readable, StoreVersions
<1>5. Readable(primary)' /\ Readable(recovery)'
  BY <1>3, <1>4 DEF Readable
<1>6. ASSUME damaged' = damaged, faulted' = faulted, slotLost' = slotLost
      PROVE  PolicyTypeOK' /\ StateIsTrue' /\ Undamaged' /\ StoreOK'
  <2>1. PolicyTypeOK' /\ StateIsTrue' /\ Undamaged'
    BY <1>1, <1>2, <1>4, <1>6, Unmoved
  <2> QED
    BY <1>5, <2>1 DEF StoreOK
<1>7. ASSUME NEW v \in Policy, NEW try \in BOOLEAN, Settled(v), todo = Copying(v, try) PROVE Stable'
  <2>1. todo' = Writing(v, try) /\ damaged' = damaged /\ faulted' = faulted /\ slotLost' = slotLost
    BY <1>2, <1>7, Saved, CallReturns
  <2>2. AtSettled(v)'
    BY <1>2, <1>5, <1>7, <2>1 DEF AtSettled, Settled, InSlot, InForce, slots
  <2> QED
    BY <1>6, <2>1, <2>2 DEF Stable, Progress
<1>8. ASSUME NEW p \in Policy, Marked(p), state.v > 0, todo = MarkCopying(state.v, p) PROVE Stable'
  <2>1. todo' = MarkWriting(state.v, p) /\ damaged' = damaged /\ faulted' = faulted /\ slotLost' = slotLost
    BY <1>1, <1>2, <1>8, Applied, CallReturns
  <2>2. AtApply(p)'
    BY <1>2, <1>5, <1>8, <2>1 DEF AtApply, Marked, Newer, slots
  <2> QED
    BY <1>6, <2>1, <2>2 DEF Stable, Progress
<1> QED
  BY <1>2, <1>7, <1>8, Where DEF Situation

LEMMA WriteKeeps ==
  ASSUME PolicyInv, Write
  PROVE  Stable'
<1>1. /\ PolicyTypeOK /\ Undamaged /\ StateIsTrue /\ StoreOK /\ state.v \in 0..MaxVersion
      /\ faulted \in BOOLEAN /\ primary \in StoreFile /\ recovery \in StoreFile
  BY Given
<1>2. Doing("write") /\ UNCHANGED <<pin, state, slots, drivers>> /\ Done
      /\ primary' = Arg /\ recovery' = recovery
  BY DEF Write, WritePrimary
<1>3. Readable(primary)
  BY <1>2, Where DEF Situation
<1>4. ASSUME NEW v \in 0..MaxVersion, Arg = v, ~Doing("copy"), damaged' = damaged, faulted' = faulted, slotLost' = slotLost
      PROVE  PolicyTypeOK' /\ StateIsTrue' /\ Undamaged' /\ StoreOK'
  <2>1. primary' = v /\ primary' \in StoreFile /\ Readable(primary)'
    BY <1>2, <1>4 DEF StoreFile, StoreVersions, Readable
  <2>2. PolicyTypeOK' /\ StateIsTrue' /\ Undamaged'
    BY <1>1, <1>2, <1>4, <2>1, Unmoved
  <2>3. ~Absent
    BY <1>3, VersionFacts DEF Absent, Readable, StoreVersions
  <2>4. StoreOK'
    BY <1>1, <1>2, <1>4, <2>1, <2>3 DEF StoreOK, Readable
  <2> QED
    BY <2>2, <2>4
<1>5. ASSUME NEW v \in Policy, NEW try \in BOOLEAN, Settled(v), todo = Writing(v, try) PROVE Stable'
  <2>1. todo' = <<>> /\ damaged' = damaged /\ faulted' = faulted /\ slotLost' = slotLost /\ Arg = v
    BY <1>2, <1>5, Saved, CallReturns
  <2>2. \A other : Doing(other) => other = "write"
    BY <1>5, Saved, OneAtATime
  <2>3. AtRest'
    BY <1>2, <1>5, <2>1, VersionFacts, RestAfter DEF Settled, InSlot, InForce
  <2> QED
    BY <1>4, <2>1, <2>2, <2>3, VersionFacts DEF Stable, Progress
<1>6. ASSUME NEW p \in Policy, Marked(p), state.v > 0, todo = MarkWriting(state.v, p) PROVE Stable'
  <2>1. todo' = Applying(p) /\ damaged' = damaged /\ faulted' = faulted /\ slotLost' = slotLost /\ Arg = state.v
    BY <1>1, <1>2, <1>6, Applied, CallReturns
  <2>2. \A other : Doing(other) => other = "write"
    BY <1>1, <1>6, Applied, OneAtATime
  <2>3. AtApply(p)'
    BY <1>2, <1>6, <2>1 DEF AtApply, Marked, Newer, slots
  <2> QED
    BY <1>1, <1>4, <2>1, <2>2, <2>3 DEF Stable, Progress
<1> QED
  BY <1>2, <1>5, <1>6, Where DEF Situation

\* what is recorded and what is in the current slot, when no recovery is asked for
LEMMA RecordedPolicy ==
  ASSUME PolicyInv, ~state.rec
  PROVE  /\ state.v > 0 => \A v \in Policy : current = v => Effect(v) = Effect(state.v)
         /\ current = NoFile => state.v = 0
<1>1. (state.v > 0 => current \in {state.v, Damaged}) /\ state.v \in 0..MaxVersion
  BY Given DEF StateIsTrue
<1> QED
  BY <1>1, VersionFacts

\* the policy that kernelctl is given
LEMMA KernelArg ==
  ASSUME PolicyInv, Doing("kernel")
  PROVE  /\ Arg \in Policy /\ pin /\ todo # <<>>
         /\ ~state.rec /\ state.v > 0 => Effect(Arg) \in {Audit, Effect(state.v)}
         /\ damaged = {} => Effect(Arg) = Audit \/ Effect(Arg) >= state.v
<1>1. /\ state.v \in 0..MaxVersion /\ Undamaged /\ StateIsTrue
      /\ \A v \in Policy : Effect(v) \in {Audit, v}
  BY Given, Effects, VersionFacts
<1>2. ASSUME NEW p \in Policy, Marked(p), todo = Applying(p)
      PROVE  /\ Arg = p /\ pin /\ state.rec /\ todo # <<>>
             /\ Effect(p) = Audit \/ Effect(p) >= state.v
  <2>1. Arg = p /\ todo # <<>>
    BY <1>1, <1>2, Applied, FirstCall DEF Arg
  <2>2. pin /\ state.rec /\ p > state.v /\ p \in Nat
    BY <1>2, VersionFacts DEF Marked, Newer
  <2> QED
    BY <1>1, <2>1, <2>2
<1>3. ASSUME NEW v \in Policy, pin, current = v, todo = Reapplying(v) \/ todo = Only("kernel", v)
      PROVE  /\ Arg = v /\ todo # <<>>
             /\ ~state.rec /\ state.v > 0 => Effect(v) = Effect(state.v)
             /\ damaged = {} => Effect(v) = Audit \/ Effect(v) >= state.v
  <2>1. PICK rest : Begins(todo, Call("kernel", v, FALSE), rest)
    BY <1>3, Restored
  <2>2. Arg = v /\ todo # <<>>
    BY <2>1, FirstCall DEF Arg
  <2>3. ~state.rec /\ state.v > 0 => Effect(v) = Effect(state.v)
    BY <1>3, RecordedPolicy
  <2>4. damaged = {} => v >= state.v
    BY <1>1, <1>3 DEF Undamaged
  <2> QED
    BY <1>1, <2>2, <2>3, <2>4
<1>4. ASSUME NEW v \in Policy, Fallback(v), todo = FallingBack(v)
      PROVE  /\ Arg = v /\ pin /\ state.rec /\ todo # <<>>
             /\ damaged = {} => Effect(v) = Audit \/ Effect(v) >= state.v
  <2>1. Arg = v /\ todo # <<>>
    BY <1>4, Restored, FirstCall DEF Arg
  <2>2. damaged = {} => v >= state.v
    BY <1>1, <1>4 DEF Fallback, Undamaged
  <2> QED
    BY <1>1, <1>4, <2>1, <2>2 DEF Fallback
<1> QED
  BY <1>2, <1>3, <1>4, Where DEF Situation

LEMMA KernelKeeps ==
  ASSUME PolicyInv, Kernel
  PROVE  Stable'
<1>1. /\ PolicyTypeOK /\ Undamaged /\ StateIsTrue /\ StoreOK /\ state.v \in 0..MaxVersion
      /\ faulted \in BOOLEAN
  BY Given
<1>2. /\ Doing("kernel") /\ UNCHANGED <<pin, state, slots, storeVars>> /\ Done
      /\ drivers' = [d \in Driver |-> Effect(Arg)]
  BY DEF Kernel
<1>3. /\ Arg \in Policy /\ pin
      /\ ~state.rec /\ state.v > 0 => Effect(Arg) \in {Audit, Effect(state.v)}
      /\ damaged = {} => Effect(Arg) = Audit \/ Effect(Arg) >= state.v
  BY <1>2, KernelArg
<1>4. damaged' = damaged /\ faulted' = faulted /\ slotLost' = slotLost
  BY <1>2 DEF Done, history
<1>5. ASSUME ~Doing("copy") PROVE PolicyTypeOK' /\ StateIsTrue' /\ Undamaged' /\ StoreOK'
  <2>1. Effect(Arg) \in 0..MaxVersion
    BY <1>3, Effects, VersionFacts
  <2>2. PolicyTypeOK'
    BY <1>1, <1>2, <1>4, <2>1 DEF PolicyTypeOK, slots, storeVars
  <2>3. StateIsTrue'
    BY <1>1, <1>2, <1>3 DEF StateIsTrue, Untouched, slots
  <2>4. Undamaged'
    BY <1>1, <1>2, <1>3, <1>4 DEF Undamaged, slots
  <2>5. StoreOK'
    BY <1>1, <1>2, <1>4, <1>5, StoreKept
  <2> QED
    BY <2>2, <2>3, <2>4, <2>5
<1>6. ASSUME NEW v, Arg = v PROVE InForce(v)'
  BY <1>2, <1>6 DEF InForce
<1>7. ASSUME NEW p \in Policy, Marked(p), todo = Applying(p) PROVE Stable'
  <2>1. Begins(todo, Call("kernel", p, TRUE), BackingUp(p))
    BY <1>1, <1>7, Applied
  <2>2. todo' = BackingUp(p) /\ Arg = p
    BY <1>2, <2>1, CallReturns
  <2>3. \A other : Doing(other) => other = "kernel"
    BY <2>1, OneAtATime
  <2>4. Marked(p)' /\ InForce(p)'
    BY <1>2, <1>6, <1>7, <2>2 DEF Marked, Newer, slots
  <2>5. AtApply(p)'
    BY <2>2, <2>4 DEF AtApply
  <2> QED
    BY <1>5, <2>3, <2>5 DEF Stable, Progress
<1>8. ASSUME NEW v \in Policy, pin, current = v, todo = Reapplying(v) PROVE Stable'
  <2>1. Begins(todo, Call("kernel", v, FALSE), Settling(v, FALSE))
    BY <1>8, Restored
  <2>2. todo' = Settling(v, FALSE) /\ Arg = v
    BY <1>2, <2>1, CallReturns
  <2>3. \A other : Doing(other) => other = "kernel"
    BY <2>1, OneAtATime
  <2>4. InSlot(v)'
    BY <1>2, <1>6, <1>8, <2>2 DEF InSlot, slots
  <2>5. AtSettled(v)'
    BY <2>2, <2>4 DEF AtSettled
  <2> QED
    BY <1>5, <2>3, <2>5 DEF Stable, Progress
<1>9. ASSUME NEW v \in Policy, pin, current = v, ~state.rec, todo = Only("kernel", v) PROVE Stable'
  <2>1. Begins(todo, Call("kernel", v, FALSE), <<>>)
    BY <1>9, Restored
  <2>2. todo' = <<>> /\ Arg = v
    BY <1>2, <2>1, CallReturns
  <2>3. \A other : Doing(other) => other = "kernel"
    BY <2>1, OneAtATime
  <2>4. state.v > 0 => Effect(v) = Effect(state.v)
    BY <1>9, RecordedPolicy
  <2>5. (~state.rec /\ Verified(current) /\ InForce(IF state.v > 0 THEN state.v ELSE current))'
    BY <1>2, <1>9, <2>2, <2>4 DEF InForce, Verified, slots
  <2>6. AtRest'
    BY <2>2, <2>5, RestAfter
  <2> QED
    BY <1>5, <2>3, <2>6 DEF Stable, Progress
<1>10. ASSUME NEW v \in Policy, Fallback(v), todo = FallingBack(v) PROVE Stable'
  <2>1. Begins(todo, Call("kernel", v, FALSE), CopyingBack(v))
    BY <1>10, Restored
  <2>2. todo' = CopyingBack(v) /\ Arg = v
    BY <1>2, <2>1, CallReturns
  <2>3. \A other : Doing(other) => other = "kernel"
    BY <2>1, OneAtATime
  <2>4. Fallback(v)' /\ InForce(v)'
    BY <1>2, <1>4, <1>6, <1>10, <2>2 DEF Fallback, slots
  <2>5. AtRestore(v)'
    BY <2>2, <2>4 DEF AtRestore
  <2> QED
    BY <1>5, <2>3, <2>5 DEF Stable, Progress
<1> QED
  BY <1>2, <1>7, <1>8, <1>9, <1>10, Where DEF Situation

LEMMA AuditFallbackKeeps ==
  ASSUME PolicyInv, AuditFallback
  PROVE  Stable'
<1>1. /\ PolicyTypeOK /\ Undamaged /\ StateIsTrue /\ StoreOK /\ state.v \in 0..MaxVersion
      /\ faulted \in BOOLEAN
  BY Given
<1>2. Doing("audit") /\ UNCHANGED <<pin, state, slots, storeVars>> /\ Done
  BY DEF AuditFallback
<1>3. drivers' \in [Driver -> 0..MaxVersion] /\ \A d \in Driver : drivers'[d] \in {drivers[d], Audit}
  BY <1>1, Effects DEF AuditFallback, PolicyTypeOK
<1>4. damaged' = damaged /\ faulted' = faulted /\ slotLost' = slotLost
  BY <1>2 DEF Done, history
<1>5. \A other : Doing(other) => other = "audit"
  BY <1>2, Where, Fallen, OneAtATime DEF Situation
<1>6. PolicyTypeOK' /\ StateIsTrue' /\ Undamaged' /\ StoreOK'
  <2>1. PolicyTypeOK'
    BY <1>1, <1>2, <1>3, <1>4 DEF PolicyTypeOK, slots, storeVars
  <2>2. StateIsTrue'
    BY <1>1, <1>2, <1>3, <1>4 DEF StateIsTrue, Untouched, slots
  <2>3. Undamaged'
    BY <1>1, <1>2, <1>3, <1>4 DEF Undamaged, slots
  <2>4. StoreOK'
    BY <1>1, <1>2, <1>4, <1>5, StoreKept
  <2> QED
    BY <2>1, <2>2, <2>3, <2>4
<1>7. CASE todo = Auditing /\ NoneLeft
  <2>1. todo' = Only("pending", 0)
    BY <1>2, <1>7, Fallen, CallReturns
  <2>2. AtFallback'
    BY <1>2, <1>7, <2>1 DEF AtFallback, NoneLeft, Verified, slots
  <2> QED
    BY <1>6, <2>2 DEF Stable, Progress
<1>8. CASE todo = Only("audit", 0) /\ ~state.rec /\ current = NoFile
  <2>1. todo' = <<>>
    BY <1>2, <1>8, Fallen, CallReturns
  <2>2. state.v = 0
    BY <1>8, RecordedPolicy
  <2>3. (state.v = 0 /\ ~Verified(current) /\ ~state.rec)'
    BY <1>2, <1>8, <2>2, VersionFacts DEF Verified, slots
  <2>4. AtRest'
    BY <2>1, <2>3, RestAfter
  <2> QED
    BY <1>6, <2>4 DEF Stable, Progress
<1> QED
  BY <1>2, <1>7, <1>8, Where DEF Situation

LEMMA BackupKeeps ==
  ASSUME PolicyInv, Backup
  PROVE  Stable'
<1>1. /\ PolicyTypeOK /\ Undamaged /\ StateIsTrue /\ StoreOK /\ state.v \in 0..MaxVersion
      /\ faulted \in BOOLEAN
  BY Given
<1>2. /\ Doing("backup") /\ UNCHANGED <<pin, state, current, staged, drivers, storeVars>> /\ Done
      /\ previous' = IF current = NoFile THEN previous ELSE current
  BY DEF Backup
<1>3. PICK p \in Policy : Marked(p) /\ InForce(p) /\ todo = BackingUp(p)
  BY <1>2, Where DEF Situation
<1>4. Begins(todo, Call("backup", p, TRUE), Activating(p))
  BY <1>1, <1>3, Applied
<1>5. todo' = Activating(p) /\ damaged' = damaged /\ faulted' = faulted /\ slotLost' = slotLost
  BY <1>2, <1>4, CallReturns
<1>6. \A other : Doing(other) => other = "backup"
  BY <1>4, OneAtATime
<1>7. PolicyTypeOK' /\ StateIsTrue' /\ Undamaged'
  BY <1>1, <1>2, <1>5 DEF PolicyTypeOK, StateIsTrue, Untouched, Undamaged, storeVars
<1>8. StoreOK'
  BY <1>1, <1>2, <1>5, <1>6, StoreKept
<1>9. Marked(p)' /\ InForce(p)' /\ BackedUp'
  BY <1>2, <1>3 DEF Marked, Newer, InForce, BackedUp
<1>10. AtApply(p)'
  BY <1>5, <1>9 DEF AtApply
<1> QED
  BY <1>7, <1>8, <1>10 DEF Stable, Progress

LEMMA ActivateKeeps ==
  ASSUME PolicyInv, Activate
  PROVE  Stable'
<1>1. /\ PolicyTypeOK /\ Undamaged /\ StateIsTrue /\ StoreOK /\ state.v \in 0..MaxVersion
      /\ faulted \in BOOLEAN
  BY Given
<1>2. /\ Doing("activate") /\ UNCHANGED <<pin, state, previous, drivers, storeVars>> /\ Done
      /\ current' = staged /\ staged' = NoFile
  BY DEF Activate
<1>3. PICK p \in Policy : Marked(p) /\ InForce(p) /\ todo = Activating(p)
  BY <1>2, Where DEF Situation
<1>4. Begins(todo, Call("activate", p, TRUE), Settling(p, TRUE))
  BY <1>1, <1>3, Applied
<1>5. todo' = Settling(p, TRUE) /\ damaged' = damaged /\ faulted' = faulted /\ slotLost' = slotLost
  BY <1>2, <1>4, CallReturns
<1>6. \A other : Doing(other) => other = "activate"
  BY <1>4, OneAtATime
<1>7. pin /\ state.rec /\ p > state.v /\ current' = p /\ p \in Nat
  BY <1>2, <1>3, VersionFacts DEF Marked, Newer
<1>8. PolicyTypeOK' /\ StateIsTrue' /\ Undamaged'
  BY <1>1, <1>2, <1>5, <1>7 DEF PolicyTypeOK, StateIsTrue, Untouched, Undamaged, storeVars, Slot
<1>9. StoreOK'
  BY <1>1, <1>2, <1>5, <1>6, StoreKept
<1>10. InSlot(p)' /\ state.rec'
  BY <1>2, <1>3, <1>7 DEF InSlot, InForce
<1>11. AtSettled(p)'
  BY <1>5, <1>10 DEF AtSettled
<1> QED
  BY <1>8, <1>9, <1>11 DEF Stable, Progress

LEMMA CopyBackKeeps ==
  ASSUME PolicyInv, CopyBack
  PROVE  Stable'
<1>1. /\ PolicyTypeOK /\ Undamaged /\ StateIsTrue /\ StoreOK /\ state.v \in 0..MaxVersion
      /\ faulted \in BOOLEAN
  BY Given
<1>2. /\ Doing("copyback") /\ UNCHANGED <<pin, state, previous, staged, drivers, storeVars>> /\ Done
      /\ current' = previous
  BY DEF CopyBack
<1>3. PICK v \in Policy : Fallback(v) /\ InForce(v) /\ todo = CopyingBack(v)
  BY <1>2, Where DEF Situation
<1>4. Begins(todo, Call("copyback", v, FALSE), Settling(v, FALSE))
  BY <1>3, Restored
<1>5. todo' = Settling(v, FALSE) /\ damaged' = damaged /\ faulted' = faulted /\ slotLost' = slotLost
  BY <1>2, <1>4, CallReturns
<1>6. \A other : Doing(other) => other = "copyback"
  BY <1>4, OneAtATime
<1>7. pin /\ state.rec /\ current' = v /\ (damaged = {} => v >= state.v)
  BY <1>1, <1>2, <1>3 DEF Fallback, Undamaged
<1>8. PolicyTypeOK' /\ StateIsTrue' /\ Undamaged'
  BY <1>1, <1>2, <1>5, <1>7 DEF PolicyTypeOK, StateIsTrue, Untouched, Undamaged, storeVars, Slot
<1>9. StoreOK'
  BY <1>1, <1>2, <1>5, <1>6, StoreKept
<1>10. InSlot(v)'
  BY <1>2, <1>3, <1>7 DEF InSlot, InForce
<1>11. AtSettled(v)'
  BY <1>5, <1>10 DEF AtSettled
<1> QED
  BY <1>8, <1>9, <1>11 DEF Stable, Progress

\* Restore-ActivePolicy, with a slot that verifies or with none
LEMMA RestoreKeeps ==
  ASSUME PolicyInv, Restore
  PROVE  Stable'
<1>1. /\ PolicyTypeOK /\ Undamaged /\ StateIsTrue /\ StoreOK /\ state.v \in 0..MaxVersion
      /\ faulted \in BOOLEAN /\ primary \in StoreFile /\ recovery \in StoreFile
  BY Given
<1>2. /\ Doing("restore") /\ todo' = RestoreCalls
      /\ UNCHANGED <<pin, state, slots, drivers, result, damaged, faulted, slotLost, storeVars>>
  BY DEF Restore, history
<1>3. todo = Only("restore", 0) /\ (state.rec \/ current \in Policy)
  BY <1>2, Where DEF Situation
<1>4. \A other : Doing(other) => other = "restore"
  BY <1>3, Fallen, OneAtATime
<1>5. PolicyTypeOK' /\ StateIsTrue' /\ Undamaged'
  BY <1>1, <1>2, Unmoved DEF storeVars
<1>6. StoreOK'
  BY <1>1, <1>2, <1>4, StoreKept
<1>7. pin
  BY <1>1, <1>3, VersionFacts DEF StateIsTrue, Untouched, NoState
<1>8. CASE Verified(current)
  <2>1. current \in Policy /\ todo' = Reapplying(current)
    BY <1>2, <1>8, RestoreIs
  <2>2. PICK v \in Policy : v = current
    BY <2>1
  <2>3. AtRestore(v)'
    BY <1>2, <1>7, <2>1, <2>2 DEF AtRestore, slots
  <2> QED
    BY <1>5, <1>6, <2>3 DEF Stable, Progress
<1>9. ASSUME ~Verified(current) PROVE state.rec
  BY <1>1, <1>3, <1>7, <1>9, VersionFacts DEF Verified
<1>10. CASE ~Verified(current) /\ Verified(previous)
  <2>1. previous \in Policy /\ todo' = FallingBack(previous)
    BY <1>2, <1>10, RestoreIs
  <2>2. PICK v \in Policy : v = previous
    BY <2>1
  <2>3. current \notin Policy
    BY <1>7, <1>10 DEF Verified
  <2>4. AtRestore(v)'
    BY <1>2, <1>7, <1>9, <1>10, <2>1, <2>2, <2>3 DEF AtRestore, Fallback, slots
  <2> QED
    BY <1>5, <1>6, <2>4 DEF Stable, Progress
<1>11. CASE ~Verified(current) /\ ~Verified(previous)
  <2>1. todo' = Auditing
    BY <1>2, <1>11, RestoreIs
  <2>2. NoneLeft'
    BY <1>2, <1>9, <1>11 DEF NoneLeft, Verified, slots
  <2>3. AtFallback'
    BY <2>1, <2>2 DEF AtFallback
  <2> QED
    BY <1>5, <1>6, <2>3 DEF Stable, Progress
<1> QED
  BY <1>8, <1>10, <1>11

-----------------------------------------------------------------------------
(* The actions of the script, and what ends one. *)

\* a script that did not run, or did not run to its end
LEMMA Resting ==
  ASSUME todo' = <<>>, ResultOK,
         \/ result'.action \notin {"apply", "recover"}
         \/ result'.outcome \notin {"done", "restored"}
  PROVE  AtRest'
BY DEF AtRest, OutcomeIsTrue

LEMMA StillStanding ==
  ASSUME PolicyInv, Idle, UNCHANGED <<pin, state, slots, history, storeVars>>,
         drivers' = drivers \/ drivers' = [d \in Driver |-> Audit]
  PROVE  PolicyTypeOK' /\ StateIsTrue' /\ Undamaged' /\ StoreOK'
<1>1. /\ PolicyTypeOK /\ Undamaged /\ StateIsTrue /\ StoreOK /\ state.v \in 0..MaxVersion
      /\ faulted \in BOOLEAN /\ UNCHANGED <<pin, state, slots, damaged, faulted, slotLost, storeVars>>
  BY Given DEF history
<1>2. StoreOK'
  BY <1>1, StoreKept DEF Doing
<1>3. /\ drivers' \in [Driver -> 0..MaxVersion]
      /\ \A d \in Driver : drivers'[d] \in {drivers[d], Audit}
  BY <1>1, Effects DEF PolicyTypeOK
<1>4. PolicyTypeOK' /\ StateIsTrue' /\ Undamaged'
  BY <1>1, <1>3 DEF PolicyTypeOK, StateIsTrue, Untouched, Undamaged, slots, storeVars
<1> QED
  BY <1>2, <1>4

LEMMA EndsKeeps ==
  ASSUME PolicyInv, NEW action, NEW outcome, Ends(action, outcome),
         action = "initialize" \/ outcome = "unreadable"
  PROVE  Stable'
<1>1. PolicyTypeOK' /\ StateIsTrue' /\ Undamaged' /\ StoreOK'
  BY StillStanding DEF Ends
<1>2. AtRest'
  BY DEF Ends, Idle, AtRest, OutcomeIsTrue
<1> QED
  BY <1>1, <1>2 DEF Stable, Progress

LEMMA InitializeKeeps ==
  ASSUME PolicyInv, Initialize
  PROVE  Stable'
<1>1. CASE ~pin
  <2>1. Begin("initialize", Pinning)
    BY <1>1, InitializeIs DEF Initialize
  <2>2. PolicyTypeOK' /\ StateIsTrue' /\ Undamaged' /\ StoreOK'
    BY <2>1, StillStanding DEF Begin
  <2>3. Untouched
    BY <1>1, Given, Effects DEF StateIsTrue, Untouched
  <2>4. AtInitialize'
    BY <2>1, <2>3 DEF Begin, AtInitialize, Untouched, slots
  <2> QED
    BY <2>2, <2>4 DEF Stable, Progress
<1>2. CASE pin
  BY <1>2, EndsKeeps DEF Initialize
<1> QED
  BY <1>1, <1>2, Given

LEMMA ApplyKeeps ==
  ASSUME PolicyInv, NEW p \in Policy, Apply(p)
  PROVE  Stable'
<1>1. Begin("apply", Staging(state.v, p)) /\ pin /\ p > state.v
  BY Given, ApplyIs DEF Apply
<1>2. PolicyTypeOK' /\ StateIsTrue' /\ Undamaged' /\ StoreOK'
  BY <1>1, StillStanding DEF Begin
<1>3. AtApply(p)'
  BY <1>1 DEF Begin, AtApply, Newer
<1> QED
  BY <1>2, <1>3 DEF Stable, Progress

LEMMA RecoverKeeps ==
  ASSUME PolicyInv, Recover
  PROVE  Stable'
<1>1. ASSUME NEW calls, Begin("recover", calls)
      PROVE  /\ PolicyTypeOK' /\ StateIsTrue' /\ Undamaged' /\ StoreOK'
             /\ todo' = calls /\ UNCHANGED <<pin, state, slots>>
  BY <1>1, StillStanding DEF Begin
<1>2. CASE state.rec
  <2>1. Begin("recover", Only("restore", 0))
    BY <1>2, OneCall, VersionFacts DEF Recover, Ops
  <2>2. AtFallback'
    BY <1>1, <1>2, <2>1 DEF AtFallback
  <2> QED
    BY <1>1, <2>1, <2>2 DEF Stable, Progress
<1>3. CASE ~state.rec /\ Verified(current)
  <2>1. PICK v \in Policy : v = current
    BY <1>3 DEF Verified
  <2>2. <<Call("kernel", v, FALSE)>> = Only("kernel", v)
    BY OneCall, VersionFacts DEF Ops
  <2>3. Begin("recover", Only("kernel", v)) /\ pin
    BY <1>3, <2>1, <2>2 DEF Recover, Verified
  <2>4. AtRestore(v)'
    BY <1>1, <1>3, <2>1, <2>3 DEF AtRestore, slots
  <2> QED
    BY <1>1, <2>3, <2>4 DEF Stable, Progress
<1>4. CASE ~state.rec /\ ~Verified(current) /\ current # NoFile
  <2>1. Ends("recover", "unreadable")
    BY <1>4 DEF Recover
  <2> QED
    BY <2>1, EndsKeeps
<1>5. CASE ~state.rec /\ ~Verified(current) /\ current = NoFile
  <2>1. <<Call("audit", 0, FALSE)>> = Only("audit", 0)
    BY OneCall, VersionFacts DEF Ops
  <2>2. Begin("recover", Only("audit", 0))
    BY <1>5, <2>1 DEF Recover
  <2>3. AtFallback'
    BY <1>1, <1>5, <2>2 DEF AtFallback, slots
  <2> QED
    BY <1>1, <2>2, <2>3 DEF Stable, Progress
<1> QED
  BY <1>2, <1>3, <1>4, <1>5

\* kernelctl audit and a restart of the machine
LEMMA AuditKeeps ==
  ASSUME PolicyInv, AuditDrivers \/ Reboot
  PROVE  Stable'
<1>1. /\ Idle /\ drivers' = [d \in Driver |-> Audit] /\ todo' = todo
      /\ UNCHANGED <<pin, state, slots, history, storeVars>>
      /\ result'.action \notin {"apply", "recover"}
  BY DEF AuditDrivers, Reboot
<1>2. PolicyTypeOK' /\ StateIsTrue' /\ Undamaged' /\ StoreOK'
  BY <1>1, StillStanding
<1>3. AtRest'
  BY <1>1 DEF AtRest, OutcomeIsTrue, Idle
<1> QED
  BY <1>2, <1>3 DEF Stable, Progress

-----------------------------------------------------------------------------
(* Faults. *)

\* what a failing call or a crash leaves: the slots, the state file, the drivers and the store
LEMMA InterruptedKeeps ==
  ASSUME PolicyInv, ~Idle, Interrupted, damaged' = damaged
  PROVE  /\ PolicyTypeOK' /\ StateIsTrue' /\ Undamaged'
         /\ todo' \in {<<>>, Only("restore", 0)} => StoreOK'
<1>1. /\ PolicyTypeOK /\ Undamaged /\ StateIsTrue /\ StoreOK /\ state.v \in 0..MaxVersion
      /\ pin \in BOOLEAN /\ primary \in StoreFile /\ recovery \in StoreFile
      /\ Damaged \notin Policy /\ Damaged \in StoreFile /\ NoFile \in StoreFile
      /\ Damaged \in Slot /\ NoFile \in Slot
  BY Given, VersionFacts DEF StoreFile, Slot
<1>2. Situation
  BY Where
<1>3. /\ pin' = pin /\ faulted' = TRUE
      /\ state' = state \/ ((Doing("pending") \/ Doing("settled")) /\ state' = NoState)
      /\ staged' \in {staged, Damaged}
      /\ previous' = previous \/ (Doing("backup") /\ previous' = Damaged)
      /\ \/ current' = current
         \/ Doing("copyback") /\ current' = Damaged
         \/ Doing("activate") /\ current' = NoFile
      /\ recovery' = recovery \/ (Doing("copy") /\ recovery' = Damaged)
      /\ primary' = primary \/ (Doing("load") /\ ~Readable(primary) /\ primary' = NoFile)
      /\ slotLost' = IF slotLost # "no" THEN "again"
                     ELSE IF current # NoFile /\ current' = NoFile THEN "yes" ELSE "no"
  BY DEF Interrupted
<1>4. /\ Doing("copyback") => pin /\ state.rec /\ current \notin Policy /\ previous \in Policy
      /\ Doing("activate") => pin /\ state.rec /\ BackedUp /\ ~Doing("backup")
      /\ Doing("pending") \/ Doing("settled") => pin
  <2>1. Doing("copyback") => pin /\ state.rec /\ current \notin Policy /\ previous \in Policy
    BY <1>2 DEF Situation, Fallback
  <2>2. Doing("activate") => pin /\ state.rec /\ BackedUp /\ ~Doing("backup")
    BY <1>2 DEF Situation, Marked, Newer, Doing
  <2>3. Doing("pending") => pin
    BY <1>1, <1>2 DEF Situation, Newer, NoneLeft, StateIsTrue, Untouched, NoState
  <2>4. Doing("settled") => pin
    BY <1>2 DEF Situation, InSlot
  <2> QED
    BY <2>1, <2>2, <2>3, <2>4
<1>5. /\ drivers' \in [Driver -> 0..MaxVersion]
      /\ \A d \in Driver : drivers'[d] \in {Audit, drivers[d]} \/ (Doing("kernel") /\ drivers'[d] = Effect(Arg))
  BY <1>1 DEF Interrupted, PolicyTypeOK
<1>6. Doing("kernel") => /\ pin
                         /\ ~state.rec /\ state.v > 0 => Effect(Arg) \in {Audit, Effect(state.v)}
                         /\ damaged = {} => Effect(Arg) = Audit \/ Effect(Arg) >= state.v
  BY KernelArg
<1>7. PolicyTypeOK' /\ state'.v <= state.v
  <2>1. NoState \in [v : 0..MaxVersion, rec : BOOLEAN] /\ NoState.v = 0
    BY VersionFacts DEF NoState
  <2>2. state' \in [v : 0..MaxVersion, rec : BOOLEAN] /\ state'.v <= state.v
    BY <1>1, <1>3, <2>1 DEF PolicyTypeOK
  <2> QED
    BY <1>1, <1>3, <1>5, <2>2 DEF PolicyTypeOK
<1>8. StateIsTrue'
  <2>1. ASSUME ~pin PROVE (Untouched /\ slotLost = "no")'
    BY <1>1, <1>3, <1>4, <1>5, <1>6, <2>1 DEF StateIsTrue, Untouched
  <2>2. ASSUME ~state'.rec, state'.v > 0
        PROVE  /\ state' = state /\ current' = current
               /\ \A d \in Driver : drivers'[d] \in {Audit, Effect(state.v)}
    <3>1. state' = state
      BY <1>3, <2>2 DEF NoState
    <3> QED
      BY <1>1, <1>3, <1>4, <1>5, <1>6, <2>2, <3>1 DEF StateIsTrue
  <2> QED
    BY <1>1, <1>3, <2>1, <2>2 DEF StateIsTrue
<1>9. Undamaged'
  <2> SUFFICES ASSUME damaged = {} PROVE Undamaged'
    BY DEF Undamaged
  <2>1. state'.v \in 0..MaxVersion
    BY <1>7 DEF PolicyTypeOK
  <2>2. \A d \in Driver : (drivers[d] = Audit \/ drivers[d] >= state.v)'
    BY <1>1, <1>5, <1>6, <1>7, <2>1 DEF Undamaged, PolicyTypeOK, Audit
  <2>3. CASE current \in Policy /\ current >= state.v
    <3>1. CASE current' = current
      BY <1>1, <1>7, <2>1, <2>2, <2>3, <3>1, VersionFacts DEF Undamaged
    <3>2. CASE Doing("activate") /\ current' = NoFile
      <4>1. previous' = current /\ slotLost' \in {"yes", "again"}
        BY <1>1, <1>3, <1>4, <2>3, <3>2, VersionFacts DEF BackedUp
      <4>2. previous' >= state'.v
        BY <1>1, <1>7, <2>1, <2>3, <4>1, VersionFacts
      <4> QED
        BY <2>2, <2>3, <3>2, <4>1, <4>2, VersionFacts DEF Undamaged
    <3> QED
      BY <1>3, <1>4, <2>3, <3>1, <3>2
  <2>4. CASE /\ current \notin Policy /\ (slotLost # "again" => current = NoFile)
             /\ previous \in Policy => previous >= state.v
             /\ slotLost = "no" => state.v = 0 /\ previous \notin Policy
    <3>1. current' \notin Policy /\ (previous' \in Policy => previous' = previous)
      BY <1>3, <2>4, VersionFacts
    <3>2. previous' \in Policy => previous' >= state'.v
      BY <1>1, <1>7, <2>1, <2>4, <3>1, VersionFacts
    <3>3. CASE slotLost = "no"
      <4>1. slotLost' = "no" /\ current' = NoFile
        BY <1>3, <1>4, <2>4, <3>3
      <4>2. state'.v = 0
        BY <1>7, <2>1, <2>4, <3>3
      <4> QED
        BY <2>2, <2>4, <3>1, <3>3, <4>1, <4>2 DEF Undamaged
    <3>4. CASE slotLost # "no"
      BY <1>3, <2>2, <3>1, <3>2, <3>4 DEF Undamaged
    <3> QED
      BY <3>3, <3>4
  <2> QED
    BY <1>1, <2>3, <2>4 DEF Undamaged
<1>10. ASSUME todo' \in {<<>>, Only("restore", 0)} PROVE StoreOK'
  <2>1. damaged = {} => Readable(primary) \/ Absent
    BY <1>1 DEF StoreOK
  <2>2. Doing("copy") => Readable(primary) /\ primary' = primary
    <3>1. ASSUME Doing("copy"), Doing("load") PROVE FALSE
      BY <3>1 DEF Doing
    <3> QED
      BY <1>2, <1>3, <3>1 DEF Situation
  <2>3. damaged = {} => (Readable(primary) \/ Absent)'
    BY <1>3, <2>1, <2>2 DEF Readable, Absent
  <2> QED
    BY <1>3, <2>3 DEF StoreOK
<1> QED
  BY <1>7, <1>8, <1>9, <1>10

LEMMA CallFailsKeeps ==
  ASSUME PolicyInv, CallFails
  PROVE  Stable'
<1>1. /\ ~Idle /\ ~Doing("restore") /\ ~Doing("audit") /\ Interrupted /\ Throws /\ damaged' = damaged
  BY DEF CallFails, Throws
<1>2. CASE Head(todo).try
  <2>1. <<Call("restore", 0, FALSE)>> = Only("restore", 0)
    BY OneCall, VersionFacts DEF Ops
  <2>2. todo' = Only("restore", 0)
    BY <1>1, <1>2, <2>1 DEF Throws
  <2>3. state.rec \/ current \in Policy
    BY <1>1, <1>2, TryMeans
  <2>4. ~Doing("pending")
    <3>1. ASSUME NEW v \in 0..MaxVersion, NEW p \in Policy, todo = Marking(v, p) PROVE ~Head(todo).try
      <4>1. PICK rest : Begins(todo, Call("pending", v, FALSE), rest)
        BY <3>1, Applied
      <4> QED
        BY <4>1, FirstCall
    <3>2. todo = Only("pending", 0) => ~Head(todo).try
      BY Fallen, FirstCall
    <3> QED
      BY <1>2, <3>1, <3>2, Given, Where DEF Situation
  <2>5. (state.rec \/ current \in Policy)'
    <3>1. CASE Doing("settled")
      <4>1. current \in Policy
        BY <3>1, Where DEF Situation, InSlot
      <4>2. current' = current
        BY <1>1, <3>1 DEF Interrupted, Doing
      <4> QED
        BY <4>1, <4>2
    <3>2. CASE Doing("activate") \/ Doing("copyback")
      <4>1. state.rec
        BY <3>2, Where DEF Situation, Marked, Fallback
      <4>2. state' = state
        BY <1>1, <3>2 DEF Interrupted, Doing
      <4> QED
        BY <4>1, <4>2
    <3>3. CASE ~Doing("settled") /\ ~Doing("activate") /\ ~Doing("copyback")
      BY <1>1, <2>3, <2>4, <3>3 DEF Interrupted
    <3> QED
      BY <3>1, <3>2, <3>3
  <2>6. AtFallback'
    BY <2>2, <2>5 DEF AtFallback
  <2> QED
    BY <1>1, <2>2, <2>6, InterruptedKeeps DEF Stable, Progress
<1>3. CASE ~Head(todo).try
  <2>1. todo' = <<>> /\ result'.outcome = "failed"
    BY <1>1, <1>3 DEF Throws, PolicyInv, ResultOK
  <2>2. AtRest'
    BY <2>1 DEF AtRest, OutcomeIsTrue
  <2> QED
    BY <1>1, <2>1, <2>2, InterruptedKeeps DEF Stable, Progress
<1> QED
  BY <1>2, <1>3

LEMMA CrashKeeps ==
  ASSUME PolicyInv, Crash
  PROVE  Stable'
<1>1. ~Idle /\ Interrupted /\ damaged' = damaged /\ todo' = <<>> /\ result'.outcome = "crashed"
  BY DEF Crash, PolicyInv, ResultOK
<1>2. AtRest'
  BY <1>1 DEF AtRest, OutcomeIsTrue
<1> QED
  BY <1>1, <1>2, InterruptedKeeps DEF Stable, Progress

LEMMA DamageKeeps ==
  ASSUME PolicyInv, NEW f \in MayDamage, Damage(f)
  PROVE  Stable'
<1>1. /\ PolicyTypeOK /\ Undamaged /\ StateIsTrue /\ StoreOK /\ state.v \in 0..MaxVersion
      /\ pin \in BOOLEAN /\ primary \in StoreFile /\ recovery \in StoreFile
      /\ Damaged \notin Policy /\ Damaged \in StoreFile /\ Damaged \in Slot /\ ~Readable(Damaged)
  BY Given, VersionFacts DEF StoreFile, Slot, Readable, StoreVersions
<1>2. Idle /\ AtRest
  BY Where DEF Situation, Damage
<1>3. /\ UNCHANGED <<pin, state, staged, drivers, todo, result, faulted, slotLost, recovery>> /\ damaged' # {}
      /\ current' = current \/ (current # NoFile /\ current' = Damaged)
      /\ previous' = previous \/ previous' = Damaged
      /\ primary' = primary \/ (primary # NoFile /\ primary' = Damaged)
  BY DEF Damage
<1>4. PolicyTypeOK' /\ StateIsTrue' /\ Undamaged'
  BY <1>1, <1>3 DEF PolicyTypeOK, StateIsTrue, Untouched, Undamaged
<1>5. StoreOK'
  <2>1. ~faulted => Absent \/ Readable(recovery)
    BY <1>1, <1>2 DEF StoreOK, Doing
  <2>2. ~faulted => Absent' \/ Readable(recovery)'
    BY <1>3, <2>1 DEF Absent, Readable
  <2> QED
    BY <1>3, <2>2 DEF StoreOK
<1>6. AtRest'
  <2>1. OutcomeIsTrue
    BY <1>2 DEF AtRest
  <2>2. Verified(current)' => Verified(current) /\ current' = current
    BY <1>1, <1>3 DEF Verified
  <2>3. Verified(previous)' => Verified(previous)
    BY <1>1, <1>3 DEF Verified
  <2>4. OutcomeIsTrue'
    <3>1. CASE result.action \in {"apply", "recover"} /\ result.outcome \in {"done", "restored"}
      <4>1. \/ /\ ~state.rec /\ (state.v > 0 \/ Verified(current))
               /\ \A d \in Driver : drivers[d] = Effect(IF state.v > 0 THEN state.v ELSE current)
            \/ state.v = 0 /\ ~Verified(current) /\ (state.rec => ~Verified(previous))
        BY <1>2, <2>1, <3>1 DEF OutcomeIsTrue
      <4>2. ~state.rec /\ ~(state.v > 0) => state.v = 0
        BY <1>1
      <4>3. CASE state.v > 0 \/ ~state.rec
        BY <1>3, <2>2, <4>1, <4>2, <4>3 DEF OutcomeIsTrue
      <4>4. CASE state.v = 0 /\ state.rec
        BY <1>3, <2>2, <2>3, <4>1, <4>4 DEF OutcomeIsTrue
      <4> QED
        BY <1>1, <4>3, <4>4
    <3>2. CASE ~(result.action \in {"apply", "recover"} /\ result.outcome \in {"done", "restored"})
      BY <1>3, <3>2 DEF OutcomeIsTrue
    <3> QED
      BY <3>1, <3>2
  <2> QED
    BY <1>2, <1>3, <2>4 DEF AtRest
<1> QED
  BY <1>4, <1>5, <1>6 DEF Stable, Progress

-----------------------------------------------------------------------------
(* Every step, and what the runs check. *)

LEMMA ResultKeeps ==
  ASSUME PolicyInv, PolicyNext
  PROVE  ResultOK'
<1>1. ResultOK
  BY DEF PolicyInv
<1>2. CASE Initialize \/ Recover \/ AuditDrivers \/ Reboot \/ \E p \in Policy : Apply(p)
  <2>1. PICK action \in {"initialize", "apply", "recover", "audit", "boot"},
             outcome \in {"running", "done", "failed", "unreadable"} :
          result' = [action |-> action, outcome |-> outcome]
    <3>1. CASE AuditDrivers \/ Reboot
      BY <3>1 DEF AuditDrivers, Reboot
    <3>2. CASE \E p \in Policy : Apply(p)
      BY <3>2 DEF Apply, Begin
    <3>3. CASE Recover
      BY <3>3 DEF Recover, Begin, Ends
    <3>4. CASE Initialize
      BY <3>4 DEF Initialize, Begin, Ends
    <3> QED
      BY <1>2, <3>1, <3>2, <3>3, <3>4
  <2> QED
    BY <2>1 DEF ResultOK
<1>3. CASE CallFails \/ Crash
  BY <1>1, <1>3 DEF ResultOK, CallFails, Crash, Throws
<1>4. CASE \E f \in MayDamage : Damage(f)
  BY <1>1, <1>4 DEF ResultOK, Damage
<1>5. CASE Done \/ Throws \/ UNCHANGED result
  BY <1>1, <1>5 DEF ResultOK, Done, Throws
<1>6. CASE Step
  <2>1. Done \/ Throws \/ UNCHANGED result
    BY <1>6 DEF Step, Pin, Envelope, Stage, WriteState, Load, Copy, Write, Kernel, AuditFallback,
                Backup, Activate, CopyBack, Restore
  <2> QED
    BY <1>5, <2>1
<1> QED
  BY <1>2, <1>3, <1>4, <1>6 DEF PolicyNext

LEMMA PolicyStarts == PolicyInit => PolicyInv
<1> SUFFICES ASSUME PolicyInit PROVE PolicyInv
  OBVIOUS
<1>1. ResultOK /\ PolicyTypeOK
  BY VersionFacts, Effects DEF PolicyInit, NoState, StoreInit, ResultOK, PolicyTypeOK, Slot, StoreFile
<1>2. StateIsTrue /\ Undamaged
  BY VersionFacts DEF PolicyInit, NoState, StateIsTrue, Untouched, Undamaged
<1>3. StoreOK
  BY DEF PolicyInit, StoreInit, StoreOK, Absent
<1>4. AtRest
  BY DEF PolicyInit, AtRest, OutcomeIsTrue
<1> QED
  BY <1>1, <1>2, <1>3, <1>4 DEF PolicyInv, Progress

LEMMA PolicyInvKept == PolicyInv /\ [PolicyNext]_policyVars => PolicyInv'
<1> SUFFICES ASSUME PolicyInv, [PolicyNext]_policyVars PROVE PolicyInv'
  OBVIOUS
<1>1. ASSUME Stable', PolicyNext PROVE PolicyInv'
  BY <1>1, ResultKeeps DEF PolicyInv, Stable
<1>2. CASE PolicyNext
  <2>1. ASSUME Initialize \/ Recover \/ AuditDrivers \/ Reboot PROVE Stable'
    BY <2>1, InitializeKeeps, RecoverKeeps, AuditKeeps
  <2>2. ASSUME \E p \in Policy : Apply(p) PROVE Stable'
    BY <2>2, ApplyKeeps
  <2>3. ASSUME Pin \/ Envelope \/ Stage \/ WriteState PROVE Stable'
    BY <2>3, PinKeeps, EnvelopeKeeps, StageKeeps, WriteStateKeeps
  <2>4. ASSUME Load \/ Copy \/ Write PROVE Stable'
    BY <2>4, LoadKeeps, CopyKeeps, WriteKeeps
  <2>5. ASSUME Kernel \/ AuditFallback \/ Backup PROVE Stable'
    BY <2>5, KernelKeeps, AuditFallbackKeeps, BackupKeeps
  <2>6. ASSUME Activate \/ CopyBack \/ Restore PROVE Stable'
    BY <2>6, ActivateKeeps, CopyBackKeeps, RestoreKeeps
  <2>7. ASSUME CallFails \/ Crash PROVE Stable'
    BY <2>7, CallFailsKeeps, CrashKeeps
  <2>8. ASSUME \E f \in MayDamage : Damage(f) PROVE Stable'
    BY <2>8, DamageKeeps
  <2>9. Stable'
    BY <1>2, <2>1, <2>2, <2>3, <2>4, <2>5, <2>6, <2>7, <2>8 DEF PolicyNext, Step
  <2> QED
    BY <1>1, <1>2, <2>9
<1>3. CASE UNCHANGED policyVars
  <2>1. /\ PolicyTypeOK /\ Undamaged /\ StateIsTrue /\ StoreOK /\ ResultOK /\ Progress
    BY DEF PolicyInv
  <2>2. /\ UNCHANGED <<pin, state, current, previous, staged, drivers, todo, result>>
        /\ UNCHANGED <<damaged, faulted, slotLost, primary, recovery>>
    BY <1>3 DEF policyVars, slots, history, storeVars
  <2>3. PolicyTypeOK' /\ Undamaged' /\ StateIsTrue' /\ ResultOK'
    BY <2>1, <2>2 DEF PolicyTypeOK, Undamaged, StateIsTrue, Untouched, ResultOK
  <2>4. StoreOK'
    BY <2>1, <2>2 DEF StoreOK, Absent, Readable, Doing, Idle
  <2>5. AtRest' \/ AtInitialize' \/ AtFallback' \/ \E v \in Policy : AtSettled(v)' \/ AtApply(v)' \/ AtRestore(v)'
    <3>1. AtRest => AtRest'
      BY <2>2 DEF AtRest, OutcomeIsTrue, Idle, Verified
    <3>2. AtInitialize => AtInitialize'
      BY <2>2 DEF AtInitialize, Untouched
    <3>3. AtFallback => AtFallback'
      BY <2>2 DEF AtFallback, NoneLeft, Verified
    <3>4. \A v \in Policy : AtSettled(v) => AtSettled(v)'
      BY <2>2 DEF AtSettled, Settled, InSlot, InForce, Readable
    <3>5. \A v \in Policy : AtApply(v) => AtApply(v)'
      BY <2>2 DEF AtApply, Marked, BackedUp, Newer, InForce, Readable
    <3>6. \A v \in Policy : AtRestore(v) => AtRestore(v)'
      BY <2>2 DEF AtRestore, Fallback, InForce
    <3> QED
      BY <2>1, <3>1, <3>2, <3>3, <3>4, <3>5, <3>6 DEF Progress
  <2> QED
    BY <2>3, <2>4, <2>5 DEF PolicyInv, Progress
<1> QED
  BY <1>2, <1>3

\* Wherever a script stands, fails or crashes, what it has left to do says what it has brought
\* about so far (the invoke and finally blocks of ai_shield_policy.ps1).
THEOREM PolicyInvariant == PolicySpec => []PolicyInv
BY PolicyStarts, PolicyInvKept, PTL DEF PolicySpec

\* Whatever failed or crashed on the way, a state file that is there and does not ask for
\* recovery names the policy in the current slot, and no driver enforces any other
\* (Set-PolicyState pending before kernelctl, settled after it).
THEOREM SettledPolicyIsActive == PolicySpec => []SettledIsActive
<1>1. PolicyInv => SettledIsActive
  BY Given DEF StateIsTrue, SettledIsActive
<1> QED
  BY <1>1, PolicyInvariant, PTL

\* An apply or recover that says it is done has put the recorded policy in force everywhere
\* (the one in the current slot when the state file was lost), or there is no version recorded
\* and no current slot to read (Restore-ActivePolicy, the outcome the script prints).
THEOREM OutcomesAreTrue == PolicySpec => []OutcomeIsTrue
<1>1. PolicyInv => OutcomeIsTrue
  BY Where DEF Situation, AtRest, OutcomeIsTrue
<1> QED
  BY <1>1, PolicyInvariant, PTL

\* Crashes and failing calls alone cost neither slot: the current one keeps the policy, or the
\* previous one while an interrupted move has removed the current one and nothing else failed
\* (the order of backup, activate and Set-PolicyState in the apply action).
THEOREM FaultsCostNoPolicy == PolicySpec => []FaultsKeepPolicy
<1>1. PolicyInv => FaultsKeepPolicy
  <2> SUFFICES ASSUME PolicyInv, damaged = {} PROVE FaultsKeepPolicy
    BY DEF FaultsKeepPolicy
  <2>1. Undamaged /\ StateIsTrue /\ slotLost \in {"no", "yes", "again"}
    BY Given
  <2>2. ~pin => current = NoFile /\ slotLost = "no"
    BY <2>1 DEF StateIsTrue, Untouched
  <2>3. current \notin Policy /\ slotLost = "yes" => Kept(previous)
    BY <2>1, <2>2 DEF Undamaged, Kept, Verified
  <2>4. current \in Policy => Kept(current)
    BY <2>1, <2>2, VersionFacts DEF Undamaged, Kept, Verified
  <2> QED
    BY <2>1, <2>3, <2>4 DEF Undamaged, FaultsKeepPolicy
<1> QED
  BY <1>1, PolicyInvariant, PTL

\* A damaged primary alone, or interruptions alone, never make the runtime state unloadable
\* (the recovery copy that SecureRuntimeStore::save makes before it writes).
THEOREM StoreStaysLoadable == PolicySpec => []StoreSurvivesOneFault
<1>1. PolicyInv => StoreSurvivesOneFault
  BY DEF PolicyInv, StoreOK, StoreSurvivesOneFault, Loadable
<1> QED
  BY <1>1, PolicyInvariant, PTL

=============================================================================
