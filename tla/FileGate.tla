------------------------------ MODULE FileGate ------------------------------
(***************************************************************************)
(* The download gate: the minifilter driver that gates written files, the  *)
(* filter port to the broker, the broker's receiver thread, its analysis   *)
(* worker and directory scan (serialised by QuarantineManager::mutex_),    *)
(* the users of the files, and the restore tool.                           *)
(*                                                                         *)
(* The pending table is the bounded map that PendingTable implements.      *)
(* A file's content is a version number; a write makes a new version.      *)
(***************************************************************************)
EXTENDS Naturals, Sequences, FiniteSets

CONSTANTS Files,          \* file identities on one volume
          Modes,          \* policy modes an administrator may set
          Capacity,       \* AI_SHIELD_PENDING_CAPACITY
          QueueLimit,     \* kMaximumQueuedRequests
          MaxVersion,     \* bound: a write beyond it fails (disk full)
          MaxRequests     \* bound: a request beyond it is not created

ASSUME FileGateAssumption ==
    /\ Modes \subseteq {"audit", "enforce"} /\ Modes # {}
    /\ Capacity \in Nat \ {0}
    /\ QueueLimit \in Nat \ {0}
    /\ MaxVersion \in Nat
    /\ MaxRequests \in Nat

VARIABLES
    mode,         \* g_Policy: "enforce" is ENFORCE with BLOCK_QUARANTINE_EXECUTION
    verdict,      \* g_PendingFiles as a map, "absent" when the file is not in it
    request,      \* the cleanup contexts, by request id, and where their thread is
    lastRequest,  \* g_AnalysisRequestId
    content,      \* the version each file holds
    place,        \* "watched", "transient" (a bypassed name) or "vault"
    writer,       \* a handle with write or delete access, and its operation
    readers,      \* files some user holds open for reading
    port,         \* messages in the filter port, oldest first
    broker,       \* "down", "registered" or "connected"
    recv,         \* the request the receiver thread has yet to answer, 0, or NoReceiver
    queue,        \* MinifilterAnalysisChannel::queue_
    work,         \* the classification that holds QuarantineManager::mutex_
    processed,    \* processed_: the stamp of the watched path last found clean
    restore,      \* the restore tool
    cleared,      \* history: the version and place last allowed to be read
    released,     \* history: the version an administrator released
    unmarked      \* history: files whose mark the driver knowingly did without

driverVars  == <<mode, verdict, request, lastRequest>>
fileVars    == <<content, place, writer, readers>>
brokerVars  == <<port, broker, recv, queue, work, processed>>
historyVars == <<cleared, released, unmarked>>
vars == <<driverVars, fileVars, brokerVars, restore, historyVars>>

Requests == 1 .. MaxRequests
Versions == 0 .. MaxVersion
NoStamp  == MaxVersion + 1
NoReceiver == MaxRequests + 1
Places   == {"watched", "transient", "vault"}
Stages   == {"prepared", "waiting", "answered", "done"}

\* AI_SHIELD_CLEANUP_CONTEXT, with the place of its thread in the dialogue.
Contexts ==
    [stage : {"unused"}] \union
    [stage : Stages, file : Files, place : {"watched", "transient"}]

NoWork    == [phase |-> "idle"]
NoRestore == [phase |-> "idle"]

WorkIn(phases) ==
    [phase : phases, file : Files, stamp : Versions, place : {"watched", "transient"}]

Init ==
    /\ mode \in Modes
    /\ verdict = [f \in Files |-> "absent"]
    /\ request = [r \in Requests |-> [stage |-> "unused"]]
    /\ lastRequest = 0
    /\ content = [f \in Files |-> 0]
    /\ place \in [Files -> {"watched", "transient"}]
    /\ writer = [f \in Files |-> "none"]
    /\ readers = {}
    /\ port = <<>> /\ broker = "down" /\ recv = 0 /\ queue = <<>> /\ work = NoWork
    /\ processed = [f \in Files |-> NoStamp]
    /\ restore = NoRestore
    /\ cleared = [f \in Files |-> [version |-> 0, place |-> place[f]]]
    /\ released = [f \in Files |-> NoStamp]
    /\ unmarked = {}

-----------------------------------------------------------------------------
(* The driver's table and the file system's sharing rules *)

Blocked(f) == verdict[f] # "absent"

Tracked == {f \in Files : Blocked(f)}

CanTrack(f) == Blocked(f) \/ Cardinality(Tracked) < Capacity

\* AiShieldSetPendingVerdict where it succeeds.
SetVerdict(f, v) ==
    /\ CanTrack(f)
    /\ verdict' = [verdict EXCEPT ![f] = IF v = "clean" THEN "absent" ELSE v]

\* The broker opens with FILE_SHARE_READ only: while it holds the file nobody
\* else has, or gets, write or delete access.
Locked(f) == work.phase \in {"locked", "clean", "dirty"} /\ work.file = f

-----------------------------------------------------------------------------
(* Users of the files, and the callbacks their operations pass through *)

OpenWriter(f) ==
    /\ place[f] # "vault" /\ writer[f] = "none" /\ ~Locked(f)
    /\ writer' = [writer EXCEPT ![f] = "open"]
    /\ UNCHANGED <<driverVars, content, place, readers, brokerVars, restore, historyVars>>

\* The operation is marked before it reaches the file system.  Without a place in the
\* table it is refused in enforce mode and runs unmarked in audit mode.
Mark(f) ==
    \/ SetVerdict(f, "pending") /\ unmarked' = unmarked \ {f}
    \/ /\ ~CanTrack(f) /\ mode # "enforce"
       /\ unmarked' = unmarked \union {f}
       /\ UNCHANGED verdict

\* Fault: a full table refuses nothing, whatever the mode.
GateMutation_FailOpen(f, operation) ==
    /\ writer[f] = "open"
    /\ Mark(f) \/ (~CanTrack(f) /\ UNCHANGED <<verdict, unmarked>>)
    /\ writer' = [writer EXCEPT ![f] = operation]
    /\ UNCHANGED <<mode, request, lastRequest, content, place, readers,
                   brokerVars, restore, cleared, released>>

GateMutation(f, operation) ==
    /\ writer[f] = "open"
    /\ Mark(f)
    /\ writer' = [writer EXCEPT ![f] = operation]
    /\ UNCHANGED <<mode, request, lastRequest, content, place, readers,
                   brokerVars, restore, cleared, released>>

PreWrite(f) == GateMutation(f, "writing")

PreSetInformation(f) == GateMutation(f, "renaming")

\* The file system performs the operation; a write beyond the bound fails.
CompleteWrite(f) ==
    /\ writer[f] = "writing"
    /\ content' = IF content[f] < MaxVersion
                    THEN [content EXCEPT ![f] = @ + 1] ELSE content
    /\ writer' = [writer EXCEPT ![f] = "open"]
    /\ UNCHANGED <<driverVars, place, readers, brokerVars, restore, historyVars>>

CompleteRename(f) ==
    /\ writer[f] = "renaming"
    /\ place' = [place EXCEPT ![f] = IF @ = "watched" THEN "transient" ELSE "watched"]
    /\ writer' = [writer EXCEPT ![f] = "open"]
    /\ UNCHANGED <<driverVars, content, readers, brokerVars, restore, historyVars>>

\* Fault: only a quarantined file is refused, not a pending one.
OpenReader_PendingPasses(f) ==
    /\ place[f] # "vault" /\ f \notin readers
    /\ mode = "enforce" => verdict[f] # "quarantined"
    /\ readers' = readers \union {f}
    /\ UNCHANGED <<driverVars, content, place, writer, brokerVars, restore, historyVars>>

\* PostCreate cancels an open for reading of a gated file in enforce mode.
OpenReader(f) ==
    /\ place[f] # "vault" /\ f \notin readers
    /\ mode = "enforce" => ~Blocked(f)
    /\ readers' = readers \union {f}
    /\ UNCHANGED <<driverVars, content, place, writer, brokerVars, restore, historyVars>>

\* PreCleanup: closing a handle to a gated file prepares an analysis request with
\* the path the file has now.  No context is allocated when the pool is exhausted,
\* the name cannot be queried or the path is too long.
PrepareRequest(f, p) ==
    \/ UNCHANGED <<request, lastRequest>>
    \/ /\ Blocked(f) /\ p # "vault"
       /\ lastRequest < MaxRequests
       /\ lastRequest' = lastRequest + 1
       /\ request' = [request EXCEPT ![lastRequest + 1] =
                        [stage |-> "prepared", file |-> f, place |-> p]]

CloseWriter(f) ==
    /\ writer[f] = "open"
    /\ writer' = [writer EXCEPT ![f] = "none"]
    /\ PrepareRequest(f, place[f])
    /\ UNCHANGED <<mode, verdict, content, place, readers, brokerVars, restore, historyVars>>

CloseReader(f) ==
    /\ f \in readers
    /\ readers' = readers \ {f}
    /\ PrepareRequest(f, place[f])
    /\ UNCHANGED <<mode, verdict, content, place, writer, brokerVars, restore, historyVars>>

\* Any other handle, opened for attributes only, passes PreCleanup as well.
CloseMetadata(f) ==
    /\ place[f] # "vault"
    /\ Blocked(f)
    /\ PrepareRequest(f, place[f])
    /\ UNCHANGED <<mode, verdict, fileVars, brokerVars, restore, historyVars>>

-----------------------------------------------------------------------------
(* PostCleanupSafe: the thread that closed the handle talks to the broker *)

Stage(r) == request[r].stage

SendMessage(r) ==
    /\ Stage(r) = "prepared"
    /\ IF broker = "connected"
         THEN /\ request' = [request EXCEPT ![r].stage = "waiting"]
              /\ port' = Append(port, r)
         ELSE /\ request' = [request EXCEPT ![r].stage = "done"]
              /\ UNCHANGED port
    /\ UNCHANGED <<mode, verdict, lastRequest, fileVars, broker, recv, queue, work,
                   processed, restore, historyVars>>

\* Fault: the message is sent without a timeout.
Timeout_OnDisconnect(r) ==
    /\ Stage(r) = "waiting" /\ broker # "connected"
    /\ request' = [request EXCEPT ![r].stage = "done"]
    /\ UNCHANGED <<mode, verdict, lastRequest, fileVars, brokerVars, restore, historyVars>>

\* 250 ms passed: the thread gives up and leaves the table as it is.
Timeout(r) ==
    /\ Stage(r) = "waiting"
    /\ request' = [request EXCEPT ![r].stage = "done"]
    /\ \/ /\ \A i \in 1 .. Len(port) : port[i] # r
          /\ UNCHANGED port
       \/ \E i \in 1 .. Len(port) :
            /\ port[i] = r
            /\ port' = SubSeq(port, 1, i - 1) \o SubSeq(port, i + 1, Len(port))
    /\ UNCHANGED <<mode, verdict, lastRequest, fileVars, broker, recv, queue, work,
                   processed, restore, historyVars>>

\* The verdict of the reply is stored; the broker always answers PENDING.
ApplyReply(r) ==
    /\ Stage(r) = "answered"
    /\ LET f == request[r].file IN
         SetVerdict(f, "pending") \/ (~CanTrack(f) /\ UNCHANGED verdict)
    /\ request' = [request EXCEPT ![r].stage = "done"]
    /\ UNCHANGED <<mode, lastRequest, fileVars, brokerVars, restore, historyVars>>

-----------------------------------------------------------------------------
(* The broker's receiver thread *)

\* A valid request is queued when the queue has room, and answered either way.
Receive ==
    /\ port # <<>> /\ recv = 0
    /\ recv' = Head(port)
    /\ port' = Tail(port)
    /\ queue' = IF Len(queue) < QueueLimit THEN Append(queue, Head(port)) ELSE queue
    /\ UNCHANGED <<driverVars, fileVars, broker, work, processed, restore, historyVars>>

\* The answer is lost when it cannot be sent, or nobody waits for it any more; the receiver
\* goes on all the same.
Reply ==
    /\ recv \in Requests
    /\ \/ /\ Stage(recv) = "waiting"
          /\ request' = [request EXCEPT ![recv].stage = "answered"]
       \/ UNCHANGED request
    /\ recv' = 0
    /\ UNCHANGED <<mode, verdict, lastRequest, fileVars, port, broker, queue, work,
                   processed, restore, historyVars>>

\* Waiting for a message fails: the thread ends for good, and the broker runs on.
ReceiverEnds ==
    /\ broker = "connected" /\ recv = 0
    /\ recv' = NoReceiver
    /\ UNCHANGED <<driverVars, fileVars, port, broker, queue, work, processed, restore,
                   historyVars>>

-----------------------------------------------------------------------------
(* classify_pending, scan and classify, one classification at a time *)

Listed(f) == [phase |-> "listed", file |-> f, stamp |-> content[f], place |-> place[f]]

\* The worker reads size and time of the requested path; a path that is gone is dropped.
TakeRequest ==
    /\ queue # <<>> /\ work.phase = "idle"
    /\ LET r == request[Head(queue)] IN
         work' = IF place[r.file] = r.place THEN Listed(r.file) ELSE NoWork
    /\ queue' = Tail(queue)
    /\ UNCHANGED <<driverVars, fileVars, port, broker, recv, processed, restore, historyVars>>

\* Fault: a path that was processed once is not looked at again.
ScanPick_OncePerPath(f) ==
    /\ broker = "connected" /\ work.phase = "idle"
    /\ place[f] = "watched" /\ processed[f] = NoStamp
    /\ work' = Listed(f)
    /\ UNCHANGED <<driverVars, fileVars, port, broker, recv, queue, processed, restore,
                   historyVars>>

\* The scan picks a watched file whose stamp is not the processed one.
ScanPick(f) ==
    /\ broker = "connected" /\ work.phase = "idle"
    /\ place[f] = "watched" /\ processed[f] # content[f]
    /\ work' = Listed(f)
    /\ UNCHANGED <<driverVars, fileVars, port, broker, recv, queue, processed, restore,
                   historyVars>>

\* Fault: the analysis shares the file with writers.
AnalysisOpens_ShareWrite ==
    /\ work.phase = "listed"
    /\ place[work.file] = work.place /\ content[work.file] = work.stamp
    /\ work' = [work EXCEPT !.phase = "locked"]
    /\ UNCHANGED <<driverVars, fileVars, port, broker, recv, queue, processed, restore,
                   historyVars>>

\* The file is opened without write sharing and must still have the listed stamp.
AnalysisOpens ==
    /\ work.phase = "listed"
    /\ writer[work.file] = "none"
    /\ place[work.file] = work.place /\ content[work.file] = work.stamp
    /\ work' = [work EXCEPT !.phase = "locked"]
    /\ UNCHANGED <<driverVars, fileVars, port, broker, recv, queue, processed, restore,
                   historyVars>>

\* open_failed or identity_rejected: a user's handle excludes ours, or the file changed.
AnalysisRejected ==
    /\ work.phase = "listed"
    /\ \/ writer[work.file] # "none" \/ work.file \in readers
       \/ place[work.file] # work.place \/ content[work.file] # work.stamp
    /\ work' = NoWork
    /\ UNCHANGED <<driverVars, fileVars, port, broker, recv, queue, processed, restore,
                   historyVars>>

\* A bypassed name is clean unseen; any other file is scanned.
Decide ==
    /\ work.phase = "locked"
    /\ \/ work' = [work EXCEPT !.phase = "clean"]
       \/ /\ work.place = "watched"
          /\ work' = [work EXCEPT !.phase = "dirty"]
    /\ UNCHANGED <<driverVars, fileVars, port, broker, recv, queue, processed, restore,
                   historyVars>>

\* content_hash_failed, or the provenance or intent record cannot be written.
DecideFails ==
    /\ work.phase \in {"locked", "dirty"}
    /\ work.place = "watched"
    /\ work' = NoWork
    /\ UNCHANGED <<driverVars, fileVars, port, broker, recv, queue, processed, restore,
                   historyVars>>

\* The clean verdict is submitted before the handle is closed.
SubmitClean ==
    /\ work.phase = "clean"
    /\ LET f == work.file IN
         \/ /\ SetVerdict(f, "clean")
            /\ cleared' = [cleared EXCEPT ![f] = [version |-> work.stamp, place |-> work.place]]
            /\ processed' = IF work.place = "watched"
                              THEN [processed EXCEPT ![f] = work.stamp] ELSE processed
            /\ unmarked' = unmarked \ {f}
         \/ ~CanTrack(f) /\ UNCHANGED <<verdict, cleared, processed, unmarked>>
    /\ work' = NoWork
    /\ UNCHANGED <<mode, request, lastRequest, fileVars, port, broker, recv, queue, restore,
                   released>>

\* The handle-relative rename passes PreSetInformation like anybody's; it may fail there
\* or in the file system.
MoveToVault ==
    /\ work.phase = "dirty"
    /\ LET f == work.file IN
         \/ /\ Mark(f)
            /\ \/ /\ place' = [place EXCEPT ![f] = "vault"]
                  /\ work' = [work EXCEPT !.phase = "moved"]
               \/ UNCHANGED place /\ work' = NoWork
         \/ /\ ~CanTrack(f) /\ mode = "enforce"
            /\ work' = NoWork
            /\ UNCHANGED <<verdict, unmarked, place>>
    /\ UNCHANGED <<mode, request, lastRequest, content, writer, readers, port, broker, recv,
                   queue, processed, restore, cleared, released>>

\* The result of the verdict is ignored.
SubmitQuarantined ==
    /\ work.phase = "moved"
    /\ \/ SetVerdict(work.file, "quarantined")
       \/ ~CanTrack(work.file) /\ UNCHANGED verdict
    /\ work' = NoWork
    /\ UNCHANGED <<mode, request, lastRequest, fileVars, port, broker, recv, queue, processed,
                   restore, historyVars>>

-----------------------------------------------------------------------------
(* The broker process *)

\* register_broker_gate, and QuarantineManager::initialize takes what it finds as processed.
BrokerStart ==
    /\ broker = "down"
    /\ broker' = "registered"
    /\ processed' = [f \in Files |-> IF place[f] = "watched" THEN content[f] ELSE NoStamp]
    /\ UNCHANGED <<driverVars, fileVars, port, recv, queue, work, restore, historyVars>>

BrokerConnect ==
    /\ broker = "registered"
    /\ broker' = "connected"
    /\ UNCHANGED <<driverVars, fileVars, port, recv, queue, work, processed, restore,
                   historyVars>>

\* Everything the broker holds in memory goes; PortDisconnect ends the kernel's waits.
BrokerGone ==
    /\ broker' = "down"
    /\ port' = <<>> /\ recv' = 0 /\ queue' = <<>> /\ work' = NoWork
    /\ processed' = [f \in Files |-> NoStamp]

BrokerCrash ==
    /\ broker # "down"
    /\ BrokerGone
    /\ request' = [r \in Requests |->
                     IF Stage(r) = "waiting" THEN [request[r] EXCEPT !.stage = "done"]
                                             ELSE request[r]]
    /\ UNCHANGED <<mode, verdict, lastRequest, fileVars, restore, historyVars>>

SetPolicy(m) ==
    /\ mode' = m
    /\ UNCHANGED <<verdict, request, lastRequest, fileVars, brokerVars, restore, historyVars>>

-----------------------------------------------------------------------------
(* quarantine-restore, a process of its own that is not the registered broker *)

\* Fault: the object is opened when it is moved, before the journal commit.
RestoreMove_OpensEarly(f) ==
    /\ restore.phase = "idle"
    /\ place[f] = "vault"
    /\ place' = [place EXCEPT ![f] = "watched"]
    /\ verdict' = [verdict EXCEPT ![f] = "absent"]
    /\ restore' = [phase |-> "moved", file |-> f, stamp |-> content[f]]
    /\ UNCHANGED <<mode, request, lastRequest, content, writer, readers, brokerVars, historyVars>>

\* MoveFileExW: the source is protected storage, so the rename is not gated, but the
\* handle it closes now has a watched path.
RestoreMove(f) ==
    /\ restore.phase = "idle"
    /\ place[f] = "vault"
    /\ place' = [place EXCEPT ![f] = "watched"]
    /\ PrepareRequest(f, "watched")
    /\ restore' = [phase |-> "moved", file |-> f, stamp |-> content[f]]
    /\ UNCHANGED <<mode, verdict, content, writer, readers, brokerVars, historyVars>>

\* The journal has the commit: ADMIN_FILE_VERDICT opens the object.
RestoreCommit ==
    /\ restore.phase = "moved"
    /\ LET f == restore.file IN
         /\ SetVerdict(f, "clean")
         /\ cleared' = [cleared EXCEPT ![f] = [version |-> restore.stamp, place |-> "watched"]]
         /\ released' = [released EXCEPT ![f] = restore.stamp]
         /\ unmarked' = unmarked \ {f}
    /\ restore' = NoRestore
    /\ UNCHANGED <<mode, request, lastRequest, fileVars, brokerVars>>

\* The journal or the verdict failed: the object moves back if it is there and not in use.
RestoreRollback ==
    /\ restore.phase = "moved"
    /\ LET f == restore.file IN
         place' = IF place[f] = "watched" /\ writer[f] = "none" /\ ~Locked(f)
                    THEN [place EXCEPT ![f] = "vault"] ELSE place
    /\ restore' = NoRestore
    /\ UNCHANGED <<driverVars, content, writer, readers, brokerVars, historyVars>>

-----------------------------------------------------------------------------
(* Unload and DriverEntry: contexts are drained, every static starts afresh, and the
   broker's next GET_EVENT fails, which ends it. *)
DriverReload ==
    /\ verdict' = [f \in Files |-> "absent"]
    /\ mode' = "audit"
    /\ request' = [r \in Requests |-> [stage |-> "unused"]]
    /\ lastRequest' = 0
    /\ BrokerGone
    /\ unmarked' = Files
    /\ UNCHANGED <<fileVars, restore, cleared, released>>

-----------------------------------------------------------------------------
UserNext ==
    \E f \in Files :
        \/ OpenWriter(f) \/ PreWrite(f) \/ PreSetInformation(f)
        \/ CompleteWrite(f) \/ CompleteRename(f)
        \/ OpenReader(f) \/ CloseWriter(f) \/ CloseReader(f) \/ CloseMetadata(f)

CleanupNext == \E r \in Requests : SendMessage(r) \/ Timeout(r) \/ ApplyReply(r)

BrokerNext ==
    \/ Receive \/ Reply \/ ReceiverEnds
    \/ TakeRequest \/ \E f \in Files : ScanPick(f)
    \/ AnalysisOpens \/ AnalysisRejected \/ Decide \/ DecideFails
    \/ SubmitClean \/ MoveToVault \/ SubmitQuarantined
    \/ BrokerStart \/ BrokerConnect

Next ==
    \/ UserNext \/ CleanupNext \/ BrokerNext \/ BrokerCrash
    \/ \E m \in Modes : SetPolicy(m)

RestoreNext ==
    \/ \E f \in Files : RestoreMove(f)
    \/ RestoreCommit \/ RestoreRollback

Spec == Init /\ [][Next]_vars

WholeNext == Next \/ RestoreNext \/ DriverReload

WholeSpec == Init /\ [][WholeNext]_vars

\* The kernel runs a cleanup's completion to its end: it is sent, times out after
\* 250 ms, and a reply is applied.
KernelFairness ==
    \A r \in Requests : /\ WF_vars(SendMessage(r))
                        /\ WF_vars(Timeout(r))
                        /\ WF_vars(ApplyReply(r))

\* The broker's threads keep running while it is connected, but for the receiver, which
\* may end at any time: nothing may rest on its answers.  Hashing and journalling
\* do not fail for ever, nor does the move into the vault, and the scan and the worker
\* both get the mutex again and again: hence the strong conditions.
BrokerFairness ==
    /\ WF_vars(Receive) /\ WF_vars(Reply) /\ WF_vars(TakeRequest)
    /\ \A f \in Files : SF_vars(ScanPick(f))
    /\ SF_vars(AnalysisOpens) /\ WF_vars(AnalysisRejected)
    /\ SF_vars(Decide) /\ WF_vars(SubmitClean) /\ WF_vars(SubmitQuarantined)
    /\ SF_vars(MoveToVault /\ work'.phase = "moved")

FairSpec == Spec /\ KernelFairness /\ BrokerFairness

KernelSpec == WholeSpec /\ KernelFairness

-----------------------------------------------------------------------------
(* Properties *)

\* Every variable holds a value of its kind; the queue respects its limit.
TypeOK ==
    /\ mode \in Modes \union {"audit"}
    /\ verdict \in [Files -> {"absent", "pending", "quarantined"}]
    /\ request \in [Requests -> Contexts]
    /\ lastRequest \in 0 .. MaxRequests
    /\ content \in [Files -> Versions]
    /\ place \in [Files -> Places]
    /\ writer \in [Files -> {"none", "open", "writing", "renaming"}]
    /\ readers \subseteq Files
    /\ port \in Seq(Requests)
    /\ broker \in {"down", "registered", "connected"}
    /\ recv \in 0 .. NoReceiver
    /\ queue \in Seq(Requests) /\ Len(queue) <= QueueLimit
    /\ work \in {NoWork} \union WorkIn({"listed", "locked", "clean", "dirty", "moved"})
    /\ processed \in [Files -> 0 .. NoStamp]
    /\ restore \in {NoRestore} \union [phase : {"moved"}, file : Files, stamp : Versions]
    /\ cleared \in [Files -> [version : Versions, place : {"watched", "transient"}]]
    /\ released \in [Files -> 0 .. NoStamp]
    /\ unmarked \subseteq Files

Current(f) == [version |-> content[f], place |-> place[f]]

\* The point of the gate: a file whose present content under its present name has
\* never been allowed is in the driver's table, whatever the writers, the stale
\* requests, the broker's two threads and its crashes do.  A full table in audit mode
\* (and a reload of the driver) is the only excuse.
GateCoversUnverified ==
    \A f \in Files \ unmarked : cleared[f] # Current(f) => Blocked(f)

\* While the broker judges a file it judges what everybody else sees: nobody holds
\* it for writing and it still is what was listed.
AnalysisIsExclusive ==
    \A f \in Files : Locked(f) =>
        /\ writer[f] = "none"
        /\ content[f] = work.stamp /\ place[f] = work.place

\* In enforce mode a new read handle is only ever given to allowed content.
ReadersOpenVerified ==
    [][\A f \in readers' \ (readers \union unmarked) :
          mode = "enforce" => cleared[f] = Current(f)]_vars

\* No clean verdict of the broker and no read is undone by the dialogue itself: only an
\* operation on a handle puts a file that is open to everybody back into the table.
OnlyMutationsGate ==
    [][\A f \in Files : ~Blocked(f) /\ Blocked(f)' =>
          writer'[f] \in {"writing", "renaming"} \/ Locked(f)]_vars

\* A file leaves the table only when its present content has been allowed.
OnlyVerdictsOpen ==
    [][\A f \in Files : Blocked(f) /\ ~Blocked(f)' => cleared'[f] = Current(f)']_vars

\* A restore opens an object with the verdict it submits after the journal commit, not
\* with the move before it.
RestoreOpensByCommit ==
    \A f \in Files \ unmarked :
        /\ released[f] = NoStamp /\ place[f] # "vault" /\ cleared[f] # Current(f)
        => Blocked(f)

\* The thread that closes a handle is never kept waiting by the broker.
EveryCleanupEnds ==
    \A r \in Requests : Stage(r) # "unused" ~> Stage(r) \in {"done", "unused"}

Idle(f) == writer[f] = "none" /\ f \notin readers

\* The scan reaches every changed file nobody has open, request or not, and whether or not
\* the receiver thread still runs.
ScanReaches ==
    \A f \in Files :
        (broker = "connected" /\ place[f] = "watched" /\ processed[f] # content[f])
          ~> (broker # "connected" \/ place[f] # "watched"
                \/ processed[f] = content[f] \/ ~Idle(f))

\* A gated file does not stay pending while the broker runs and nobody has it open.
PendingEnds ==
    \A f \in Files :
        (verdict[f] = "pending" /\ place[f] = "watched")
          ~> (verdict[f] # "pending" \/ place[f] # "watched"
                \/ broker # "connected" \/ ~Idle(f))

=============================================================================
