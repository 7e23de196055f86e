--------------------------- MODULE SignedPackages ---------------------------
(***************************************************************************)
(* What is done with a signed package: the policy store, which several     *)
(* administrators use by turns, the two slots of the update manager with   *)
(* their trial boots, and the registry of the model.                       *)
(***************************************************************************)
EXTENDS Integers

CONSTANTS Packages,        \* manifests with their kind, versions and flaw, if they have one
          Administrators

VARIABLES
    store,      \* Store: active, previous and staged policy, and the state of the staged one
    readings,   \* the policy each administrator read as active
    author,     \* history: who staged or activated last, and what it had read
    ran,        \* history: the policies that were active
    boot,       \* Manager: the slots, and which is active, staged and to fall back to
    before,     \* history: the version that ran before the active one
    restaged,   \* history: something was staged into the slot to fall back to
    model       \* Registry: the version of the active model

policyStoreVars == <<store, readings, author, ran>>
bootVars     == <<boot, before, restaged, model>>
packageVars  == <<policyStoreVars, bootVars>>

FirstPolicy  == [policy |-> 1, security |-> 1]
NoPolicy     == [policy |-> 0, security |-> 0]

PackagesInit ==
    /\ store = [active |-> FirstPolicy, previous |-> FirstPolicy, staged |-> NoPolicy, state |-> "empty"]
    /\ readings = [a \in Administrators |-> FirstPolicy]
    /\ author = [by |-> "nobody", read |-> NoPolicy] /\ ran = {FirstPolicy}
    /\ boot = [active |-> "a", staged |-> "b", previous |-> "a",
               slots  |-> [a |-> [state |-> "active", version |-> 1], b |-> [state |-> "empty", version |-> 0]]]
    /\ before = 1 /\ restaged = FALSE
    /\ model = 0

\* The right kind, with files, an ABI this one has, a version above the anchor's, and the
\* digest and the signer expected.
VerifyManifest(m, kind, floor) == m.kind = kind /\ m.flaw = "none" /\ m.security > floor

-----------------------------------------------------------------------------
(* policy_store::Store *)

\* An administrator looks up what is active: the anchor and the version it will expect.
ReadActive(a) ==
    /\ readings' = [readings EXCEPT ![a] = store.active]
    /\ UNCHANGED <<store, author, ran, bootVars>>

StagePolicy(a, m) ==
    /\ VerifyManifest(m, "policy", readings[a].security)
    /\ store' = [store EXCEPT !.staged = [policy |-> m.policy, security |-> m.security], !.state = "staged"]
    /\ author' = [by |-> a, read |-> readings[a]]
    /\ UNCHANGED <<readings, ran, bootVars>>

\* Fault: the expected version is not compared.
ActivatePolicy_Unexpected(a) ==
    /\ store.state = "staged" /\ store.staged.policy # 0
    /\ store' = [active |-> store.staged, previous |-> store.active, staged |-> NoPolicy, state |-> "active"]
    /\ author' = [by |-> a, read |-> readings[a]]
    /\ ran' = ran \union {store.staged}
    /\ UNCHANGED <<readings, bootVars>>

\* Only over the policy the administrator expects; otherwise what is staged is lost.
ActivatePolicy(a) ==
    /\ store.state = "staged" /\ store.staged.policy # 0
    /\ store' = IF store.active.policy = readings[a].policy
                  THEN [active |-> store.staged, previous |-> store.active, staged |-> NoPolicy, state |-> "active"]
                  ELSE [store EXCEPT !.state = "rolled_back"]
    /\ author' = [by |-> a, read |-> readings[a]]
    /\ ran' = ran \union {store'.active}
    /\ UNCHANGED <<readings, bootVars>>

RollbackPolicy ==
    /\ store.active.policy # store.previous.policy
    /\ store' = [store EXCEPT !.active = store.previous, !.state = "rolled_back"]
    /\ UNCHANGED <<readings, author, ran, bootVars>>

StoreNext ==
    \/ RollbackPolicy
    \/ \E a \in Administrators :
         ReadActive(a) \/ ActivatePolicy(a) \/ \E m \in Packages : StagePolicy(a, m)

-----------------------------------------------------------------------------
(* update::Manager *)

Other(slot) == IF slot = "a" THEN "b" ELSE "a"

Running == boot.slots[boot.active].version

\* Always into the slot that does not run, a trial boot or not.  The rollback anchor is
\* the version that runs.
StageUpdate(m) ==
    LET target == Other(boot.active) IN
    /\ VerifyManifest(m, "update", Running)
    /\ boot' = [boot EXCEPT !.staged = target,
                            !.slots[target] = [state |-> "staged", version |-> m.security]]
    /\ restaged' = (restaged \/ target = boot.previous)
    /\ UNCHANGED <<policyStoreVars, before, model>>

ActivateStaged ==
    /\ boot.slots[boot.staged].state = "staged"
    /\ boot' = [boot EXCEPT !.previous = boot.active, !.active = boot.staged,
                            !.slots[boot.active].state = "empty", !.slots[boot.staged].state = "active"]
    /\ before' = Running /\ restaged' = FALSE
    /\ UNCHANGED <<policyStoreVars, model>>

\* Fault: an unhealthy boot goes to the other slot, even after one that was healthy.
Failing_Other ==
    [boot EXCEPT !.active = Other(boot.active),
                 !.slots[Other(boot.active)].state = "active", !.slots[boot.active].state = "failed"]

\* The slot to fall back to is active again; when it is the one that runs, nothing failed.
Failing ==
    [boot EXCEPT !.active = boot.previous,
                 !.slots = [s \in {"a", "b"} |->
                    IF s = boot.previous THEN [@[s] EXCEPT !.state = "active"]
                    ELSE IF s = boot.active THEN [@[s] EXCEPT !.state = "failed"] ELSE @[s]]]

\* Healthy: drivers, core, audit and policy.
CommitBoot(healthy) ==
    /\ boot' = IF healthy THEN [boot EXCEPT !.previous = boot.active] ELSE Failing
    /\ before' = boot'.slots[boot'.active].version /\ restaged' = FALSE
    /\ UNCHANGED <<policyStoreVars, model>>

-----------------------------------------------------------------------------
(* model::Registry *)

\* A package and the metadata read with it; live samples teach it nothing.
LoadModel(m, metadata, floor) ==
    /\ metadata # 0 /\ VerifyManifest(m, "model", floor) /\ metadata = m.model
    /\ model' = metadata
    /\ UNCHANGED <<policyStoreVars, boot, before, restaged>>

BootNext ==
    \/ ActivateStaged \/ \E healthy \in BOOLEAN : CommitBoot(healthy)
    \/ \E m \in Packages :
         StageUpdate(m) \/ \E v \in {n.model : n \in Packages}, floor \in 0 .. 1 : LoadModel(m, v, floor)

-----------------------------------------------------------------------------
(* Properties *)

\* What is staged is activated by the administrator that staged it, which expects the very
\* policy it compared the package with.
OwnActivation ==
    /\ store.state = "staged" /\ store'.state = "active"
    /\ author'.by = author.by /\ author'.read = author.read

\* A policy version stood for two policies that were active: no manifest is refused for it.
Ambiguous == \E p, q \in ran : p.policy = q.policy /\ p.security # q.security

\* An administrator who activates what it staged itself, and expects what was active when it
\* staged, goes forward, whatever the others staged, activated and rolled back meanwhile.
\* The security versions are not compared again, so an activation can go back in three
\* cases: the package is one that another staged; the administrator looked again after
\* staging and now expects a newer policy than the one it staged over; or a policy version
\* stood for two policies.
OwnActivationGoesForward ==
    [][OwnActivation /\ ~Ambiguous => store'.active.security > store.active.security]_packageVars

\* A trial boot that fails goes back to the version that ran before it, unless a package
\* was staged during the trial: that one then runs, in the slot to fall back to.
FailedBootGoesBack ==
    [][boot'.slots[boot.active].state = "failed" /\ boot.slots[boot.active].state = "active" =>
         restaged \/ boot'.slots[boot'.active].version = before]_packageVars

=============================================================================
