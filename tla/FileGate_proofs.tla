-------------------------- MODULE FileGate_proofs --------------------------
(***************************************************************************)
(* Type correctness of the download gate, and the gate itself, for every   *)
(* set of files, table size, queue limit, number of versions and requests. *)
(***************************************************************************)
EXTENDS FileGate, SequenceTheorems, TLAPS

USE FileGateAssumption

-----------------------------------------------------------------------------
(* Type correctness *)

Used == {r \in Requests : Stage(r) # "unused"}

\* A request in the port, with the receiver or in the queue belongs to a context:
\* only then has it a file and a place for the worker to read.
InFlight == port \in Seq(Used) /\ queue \in Seq(Used) /\ recv \in Used \union {0, NoReceiver}

\* A sequence over a set is one over every larger set.
LEMMA LargerAlphabet ==
    ASSUME NEW S, NEW T, S \subseteq T, NEW s \in Seq(S)
    PROVE  s \in Seq(T)
<1>1. s \in [1 .. Len(s) -> S] /\ Len(s) \in Nat
  BY LenProperties
<1>2. s \in [1 .. Len(s) -> T]
  BY <1>1
<1> QED
  BY <1>1, <1>2, SeqDef

\* Taking one message out of the port leaves messages of the port.
LEMMA WithoutElement ==
    ASSUME NEW S, NEW s \in Seq(S), NEW k \in 1 .. Len(s)
    PROVE  SubSeq(s, 1, k - 1) \o SubSeq(s, k + 1, Len(s)) \in Seq(S)
<1> DEFINE a == SubSeq(s, 1, k - 1)
           b == SubSeq(s, k + 1, Len(s))
<1>1. Len(s) \in Nat /\ k \in Nat /\ 1 <= k /\ k <= Len(s)
  OBVIOUS
<1>2. a \in Seq(S) /\ b \in Seq(S)
  BY <1>1
<1> HIDE DEF a, b
<1>3. a \o b \in Seq(S)
  BY <1>2, ConcatProperties
<1> QED
  BY <1>3 DEF a, b

\* A cleanup's new context has the type of one.
LEMMA PrepareTypes ==
    ASSUME TypeOK, NEW f \in Files, NEW p \in Places, PrepareRequest(f, p)
    PROVE  request' \in [Requests -> Contexts] /\ lastRequest' \in 0 .. MaxRequests
<1>1. CASE UNCHANGED <<request, lastRequest>>
  BY <1>1 DEF TypeOK
<1>2. CASE /\ p # "vault"
           /\ lastRequest < MaxRequests
           /\ lastRequest' = lastRequest + 1
           /\ request' = [request EXCEPT ![lastRequest + 1] =
                            [stage |-> "prepared", file |-> f, place |-> p]]
  <2>1. [stage |-> "prepared", file |-> f, place |-> p] \in Contexts
    BY <1>2 DEF Contexts, Stages, Places
  <2>2. lastRequest + 1 \in Requests /\ lastRequest' \in 0 .. MaxRequests
    BY <1>2 DEF TypeOK, Requests
  <2> QED
    BY <1>2, <2>1, <2>2 DEF TypeOK
<1> QED
  BY <1>1, <1>2 DEF PrepareRequest

\* The thread of a cleanup moves on.
LEMMA StageTypes ==
    ASSUME TypeOK, NEW r \in Requests, Stage(r) # "unused", NEW s \in Stages,
           request' = [request EXCEPT ![r].stage = s]
    PROVE  request' \in [Requests -> Contexts] /\ request[r].file \in Files
<1>1. request[r] \in [stage : Stages, file : Files, place : {"watched", "transient"}]
  BY DEF TypeOK, Contexts, Stage
<1>2. [request[r] EXCEPT !.stage = s] \in Contexts
  BY <1>1 DEF Contexts
<1> QED
  BY <1>1, <1>2 DEF TypeOK

\* The users' operations keep every variable in its type.
LEMMA UserTypes == ASSUME TypeOK, UserNext PROVE TypeOK'
<1> USE DEF TypeOK, fileVars, driverVars, brokerVars, historyVars
<1>1. PICK f \in Files :
        \/ OpenWriter(f) \/ PreWrite(f) \/ PreSetInformation(f)
        \/ CompleteWrite(f) \/ CompleteRename(f)
        \/ OpenReader(f) \/ CloseWriter(f) \/ CloseReader(f) \/ CloseMetadata(f)
  BY DEF UserNext
<1>2. CASE OpenWriter(f)
  BY <1>2 DEF OpenWriter
<1>3. CASE CompleteWrite(f)
  BY <1>3 DEF CompleteWrite, Versions
<1>4. CASE CompleteRename(f)
  BY <1>4 DEF CompleteRename, Places
<1>5. CASE OpenReader(f)
  BY <1>5 DEF OpenReader
<1>6. CASE PreWrite(f)
  BY <1>6 DEF PreWrite, GateMutation, Mark, SetVerdict
<1>7. CASE PreSetInformation(f)
  BY <1>7 DEF PreSetInformation, GateMutation, Mark, SetVerdict
<1>8. CASE CloseWriter(f)
  BY <1>8, PrepareTypes DEF CloseWriter
<1>9. CASE CloseReader(f)
  BY <1>9, PrepareTypes DEF CloseReader
<1>10. CASE CloseMetadata(f)
  BY <1>10, PrepareTypes DEF CloseMetadata
<1> QED
  BY <1>1, <1>2, <1>3, <1>4, <1>5, <1>6, <1>7, <1>8, <1>9, <1>10

\* So do the threads of the cleanups.
LEMMA CleanupTypes == ASSUME TypeOK, CleanupNext PROVE TypeOK'
<1> USE DEF TypeOK, fileVars, driverVars, brokerVars, historyVars
<1>1. PICK r \in Requests : SendMessage(r) \/ Timeout(r) \/ ApplyReply(r)
  BY DEF CleanupNext
<1>2. CASE SendMessage(r)
  <2>1. \E s \in Stages : request' = [request EXCEPT ![r].stage = s]
    BY <1>2 DEF SendMessage, Stages
  <2>2. request' \in [Requests -> Contexts]
    BY <1>2, <2>1, StageTypes DEF SendMessage
  <2>3. port' = port \/ port' = Append(port, r)
    BY <1>2 DEF SendMessage
  <2>4. port \in Seq(Requests) /\ Append(port, r) \in Seq(Requests)
    OBVIOUS
  <2> QED
    BY <1>2, <2>2, <2>3, <2>4 DEF SendMessage
<1>3. CASE Timeout(r)
  <2>1. request' \in [Requests -> Contexts]
    BY <1>3, StageTypes DEF Timeout, Stages
  <2>2. \/ port' = port
        \/ \E i \in 1 .. Len(port) :
             port' = SubSeq(port, 1, i - 1) \o SubSeq(port, i + 1, Len(port))
    BY <1>3 DEF Timeout
  <2>3. ASSUME NEW i \in 1 .. Len(port),
               port' = SubSeq(port, 1, i - 1) \o SubSeq(port, i + 1, Len(port))
        PROVE  port' \in Seq(Requests)
    <3>1. port \in Seq(Requests)
      OBVIOUS
    <3> QED
      BY <2>3, <3>1, WithoutElement
  <2> QED
    BY <1>3, <2>1, <2>2, <2>3 DEF Timeout
<1>4. CASE ApplyReply(r)
  <2>1. request' \in [Requests -> Contexts] /\ request[r].file \in Files
    BY <1>4, StageTypes DEF ApplyReply, Stages
  <2> QED
    BY <1>4, <2>1 DEF ApplyReply, SetVerdict
<1> QED
  BY <1>1, <1>2, <1>3, <1>4

\* What a busy worker holds.
LEMMA WorkTypes ==
    ASSUME TypeOK, work.phase # "idle"
    PROVE  /\ work \in WorkIn({"listed", "locked", "clean", "dirty", "moved"})
           /\ work.file \in Files
BY DEF TypeOK, NoWork, WorkIn

\* So do the broker's threads.
LEMMA BrokerTypes == ASSUME TypeOK, InFlight, BrokerNext PROVE TypeOK'
<1> USE DEF TypeOK, fileVars, driverVars, brokerVars, historyVars
<1>1. CASE Receive
  <2>1. Head(port) \in Requests /\ Tail(port) \in Seq(Requests)
    BY <1>1 DEF Receive
  <2>2. queue' \in Seq(Requests) /\ Len(queue') <= QueueLimit
    BY <1>1, <2>1 DEF Receive
  <2> QED
    BY <1>1, <2>1, <2>2 DEF Receive, Requests, NoReceiver
<1>2. CASE Reply
  <2>1. recv \in Requests
    BY <1>2 DEF Reply
  <2>2. request' \in [Requests -> Contexts]
    BY <1>2, <2>1, StageTypes DEF Reply, Stages, Stage
  <2> QED
    BY <1>2, <2>2 DEF Reply, NoReceiver
<1>3. CASE TakeRequest
  <2>1. Head(queue) \in Requests /\ Tail(queue) \in Seq(Requests)
         /\ Len(Tail(queue)) <= QueueLimit
    BY <1>3 DEF TakeRequest
  <2> DEFINE c == request[Head(queue)]
  <2>2. c \in [stage : Stages, file : Files, place : {"watched", "transient"}]
    <3>1. Head(queue) \in Used
      BY <1>3 DEF TakeRequest, InFlight
    <3>2. c.stage # "unused" /\ c \in Contexts
      BY <3>1 DEF Used, Stage
    <3> QED
      BY <3>2 DEF Contexts
  <2>3. work' = NoWork \/ work' \in WorkIn({"listed"})
    <3>1. c.file \in Files /\ c.place \in {"watched", "transient"}
      BY <2>2
    <3>2. place[c.file] = c.place => Listed(c.file) \in WorkIn({"listed"})
      BY <3>1 DEF Listed, WorkIn
    <3> QED
      BY <1>3, <3>2 DEF TakeRequest
  <2> QED
    BY <1>3, <2>1, <2>3 DEF TakeRequest, WorkIn
<1>4. ASSUME NEW f \in Files, ScanPick(f) PROVE TypeOK'
  <2>1. work' \in WorkIn({"listed"})
    BY <1>4 DEF ScanPick, Listed, WorkIn
  <2> QED
    BY <1>4, <2>1 DEF ScanPick, WorkIn
<1>5. CASE AnalysisOpens
  BY <1>5, WorkTypes DEF AnalysisOpens, WorkIn
<1>6. CASE AnalysisRejected
  BY <1>6 DEF AnalysisRejected
<1>7. CASE Decide
  BY <1>7, WorkTypes DEF Decide, WorkIn
<1>8. CASE DecideFails
  BY <1>8 DEF DecideFails
<1>9. CASE SubmitClean
  <2>1. /\ work.file \in Files /\ work.stamp \in Versions
        /\ work.place \in {"watched", "transient"}
    BY <1>9, WorkTypes DEF SubmitClean, WorkIn
  <2>2. [version |-> work.stamp, place |-> work.place]
          \in [version : Versions, place : {"watched", "transient"}]
    BY <2>1
  <2>3. work.stamp \in 0 .. NoStamp
    BY <2>1 DEF Versions, NoStamp
  <2>4. cleared' \in [Files -> [version : Versions, place : {"watched", "transient"}]]
    BY <1>9, <2>1, <2>2 DEF SubmitClean
  <2>5. processed' \in [Files -> 0 .. NoStamp]
    BY <1>9, <2>1, <2>3 DEF SubmitClean
  <2>6. verdict' \in [Files -> {"absent", "pending", "quarantined"}] /\ unmarked' \subseteq Files
    BY <1>9, <2>1 DEF SubmitClean, SetVerdict
  <2> QED
    BY <1>9, <2>4, <2>5, <2>6 DEF SubmitClean
<1>10. CASE MoveToVault
  <2>1. work.file \in Files
    BY <1>10, WorkTypes DEF MoveToVault
  <2>2. work' = NoWork \/ work' \in WorkIn({"moved"})
    BY <1>10, WorkTypes DEF MoveToVault, WorkIn
  <2>3. verdict' \in [Files -> {"absent", "pending", "quarantined"}] /\ unmarked' \subseteq Files
    BY <1>10, <2>1 DEF MoveToVault, Mark, SetVerdict
  <2>4. place' \in [Files -> Places]
    BY <1>10, <2>1 DEF MoveToVault, Places
  <2> QED
    BY <1>10, <2>2, <2>3, <2>4 DEF MoveToVault, WorkIn
<1>11. CASE SubmitQuarantined
  <2>1. work.file \in Files
    BY <1>11, WorkTypes DEF SubmitQuarantined
  <2> QED
    BY <1>11, <2>1 DEF SubmitQuarantined, SetVerdict
<1>12. CASE BrokerStart
  BY <1>12 DEF BrokerStart, Versions, NoStamp
<1>13. CASE BrokerConnect
  BY <1>13 DEF BrokerConnect
<1>14. CASE ReceiverEnds
  BY <1>14 DEF ReceiverEnds, NoReceiver
<1> QED
  BY <1>1, <1>2, <1>3, <1>4, <1>5, <1>6, <1>7, <1>8, <1>9, <1>10, <1>11, <1>12, <1>13, <1>14
     DEF BrokerNext

\* The end of the broker process leaves empty structures.
LEMMA BrokerGoneTypes ==
    ASSUME BrokerGone
    PROVE  /\ port' \in Seq(Requests) /\ broker' \in {"down", "registered", "connected"}
           /\ recv' \in 0 .. NoReceiver
           /\ queue' \in Seq(Requests) /\ Len(queue') <= QueueLimit
           /\ work' = NoWork
           /\ processed' \in [Files -> 0 .. NoStamp]
BY DEF BrokerGone, NoStamp, NoReceiver

LEMMA CrashTypes == ASSUME TypeOK, BrokerCrash PROVE TypeOK'
<1>1. request' \in [Requests -> Contexts]
  <2>1. ASSUME NEW r \in Requests, Stage(r) = "waiting"
        PROVE  [request[r] EXCEPT !.stage = "done"] \in Contexts
    <3>1. request[r] \in [stage : Stages, file : Files, place : {"watched", "transient"}]
      BY <2>1 DEF TypeOK, Contexts, Stage
    <3> QED
      BY <3>1 DEF Contexts, Stages
  <2> QED
    BY <2>1 DEF BrokerCrash, TypeOK
<1> QED
  BY <1>1, BrokerGoneTypes DEF BrokerCrash, TypeOK, fileVars, historyVars

LEMMA RestoreTypes == ASSUME TypeOK, RestoreNext PROVE TypeOK'
<1> USE DEF TypeOK, fileVars, driverVars, brokerVars, historyVars
<1>1. ASSUME NEW f \in Files, RestoreMove(f) PROVE TypeOK'
  <2>1. request' \in [Requests -> Contexts] /\ lastRequest' \in 0 .. MaxRequests
    BY <1>1, PrepareTypes DEF RestoreMove, Places
  <2> QED
    BY <1>1, <2>1 DEF RestoreMove, Places
<1>2. CASE RestoreCommit
  <2>1. restore.file \in Files /\ restore.stamp \in Versions
    BY <1>2 DEF RestoreCommit, NoRestore
  <2>2. restore.stamp \in 0 .. NoStamp
    BY <2>1 DEF Versions, NoStamp
  <2>3. [version |-> restore.stamp, place |-> "watched"]
          \in [version : Versions, place : {"watched", "transient"}]
    BY <2>1
  <2> QED
    BY <1>2, <2>1, <2>2, <2>3 DEF RestoreCommit, SetVerdict
<1>3. CASE RestoreRollback
  BY <1>3 DEF RestoreRollback, Places
<1> QED
  BY <1>1, <1>2, <1>3 DEF RestoreNext

\* No step but a reload of the driver forgets a context.
LEMMA UsedStays ==
    ASSUME TypeOK, Next \/ RestoreNext, NEW q \in Requests, Stage(q) # "unused"
    PROVE  Stage(q)' # "unused"
<1> USE DEF Stage
<1>1. CASE UNCHANGED request
  BY <1>1
<1>2. ASSUME NEW f \in Files, NEW p \in Places, PrepareRequest(f, p)
      PROVE  Stage(q)' # "unused"
  <2>1. request \in [Requests -> Contexts]
    BY DEF TypeOK
  <2> QED
    BY <1>2, <2>1 DEF PrepareRequest
<1>3. ASSUME NEW r \in Requests, NEW s \in Stages, request' = [request EXCEPT ![r].stage = s]
      PROVE  Stage(q)' # "unused"
  BY <1>3 DEF TypeOK, Stages
<1>4. CASE UserNext
  BY <1>1, <1>2, <1>4 DEF UserNext, OpenWriter, PreWrite, PreSetInformation, GateMutation,
     CompleteWrite, CompleteRename, OpenReader, CloseWriter, CloseReader, CloseMetadata, TypeOK,
     driverVars
<1>5. CASE CleanupNext
  BY <1>3, <1>5 DEF CleanupNext, SendMessage, Timeout, ApplyReply, Stages
<1>6. CASE BrokerNext
  <2>1. CASE Reply
    BY <1>1, <1>3, <2>1 DEF Reply, Stages, TypeOK
  <2>2. CASE BrokerNext /\ ~Reply
    BY <1>1, <2>2 DEF BrokerNext, Receive, TakeRequest, ScanPick, AnalysisOpens, AnalysisRejected,
       Decide, DecideFails, SubmitClean, MoveToVault, SubmitQuarantined, BrokerStart,
       BrokerConnect, ReceiverEnds, driverVars
  <2> QED
    BY <1>6, <2>1, <2>2
<1>7. CASE BrokerCrash
  BY <1>7 DEF BrokerCrash, TypeOK
<1>8. ASSUME NEW m \in Modes, SetPolicy(m) PROVE Stage(q)' # "unused"
  BY <1>1, <1>8 DEF SetPolicy
<1>9. CASE RestoreNext
  BY <1>1, <1>2, <1>9 DEF RestoreNext, RestoreMove, RestoreCommit, RestoreRollback, driverVars,
     Places
<1> QED
  BY <1>4, <1>5, <1>6, <1>7, <1>8, <1>9 DEF Next

\* Requests enter the port with their context and only travel on from there.
LEMMA InFlightStep ==
    ASSUME TypeOK, InFlight, [WholeNext]_vars
    PROVE  InFlight'
<1>1. CASE UNCHANGED vars
  BY <1>1 DEF vars, driverVars, brokerVars, InFlight, Used, Stage
<1>2. CASE BrokerCrash \/ DriverReload
  <2>1. port' = <<>> /\ queue' = <<>> /\ recv' = 0
    BY <1>2 DEF BrokerCrash, DriverReload, BrokerGone
  <2>2. \A U : <<>> \in Seq(U)
    OBVIOUS
  <2> QED
    BY <2>1, <2>2 DEF InFlight
<1>3. CASE (Next \/ RestoreNext) /\ ~BrokerCrash
  <2>1. Used \subseteq Used'
    BY <1>3, UsedStays DEF Used
  <2> DEFINE U == Used'
  <2>2. port \in Seq(U) /\ queue \in Seq(U) /\ recv \in U \union {0, NoReceiver}
    BY <2>1, LargerAlphabet DEF InFlight
  <2>3. InFlight' <=> port' \in Seq(U) /\ queue' \in Seq(U) /\ recv' \in U \union {0, NoReceiver}
    BY DEF InFlight
  <2> HIDE DEF U
  <2>4. UNCHANGED <<port, queue, recv>> => InFlight'
    BY <2>2, <2>3
  <2>5. ASSUME NEW r \in Requests, SendMessage(r) PROVE InFlight'
    <3>1. r \in U
      BY <2>1, <2>5 DEF SendMessage, Used, U
    <3>2. Append(port, r) \in Seq(U)
      BY <2>2, <3>1
    <3> QED
      BY <2>2, <2>3, <2>5, <3>2 DEF SendMessage
  <2>6. ASSUME NEW r \in Requests, Timeout(r) PROVE InFlight'
    <3>1. \A k \in 1 .. Len(port) :
            SubSeq(port, 1, k - 1) \o SubSeq(port, k + 1, Len(port)) \in Seq(U)
      BY <2>2, WithoutElement
    <3> QED
      BY <2>2, <2>3, <2>6, <3>1 DEF Timeout
  <2>7. CASE Receive
    <3>1. Head(port) \in U /\ Tail(port) \in Seq(U)
      BY <2>2, <2>7 DEF Receive
    <3>2. Append(queue, Head(port)) \in Seq(U)
      BY <2>2, <3>1
    <3> QED
      BY <2>2, <2>3, <2>7, <3>1, <3>2 DEF Receive
  <2>8. CASE Reply
    BY <2>2, <2>3, <2>8 DEF Reply
  <2>9. CASE TakeRequest
    <3>1. Tail(queue) \in Seq(U)
      BY <2>2, <2>9 DEF TakeRequest
    <3> QED
      BY <2>2, <2>3, <2>9, <3>1 DEF TakeRequest
  <2>10. CASE UserNext
    BY <2>4, <2>10 DEF UserNext, OpenWriter, PreWrite, PreSetInformation, GateMutation,
       CompleteWrite, CompleteRename, OpenReader, CloseWriter, CloseReader, CloseMetadata, brokerVars
  <2>11. ASSUME NEW r \in Requests, ApplyReply(r) PROVE InFlight'
    BY <2>4, <2>11 DEF ApplyReply, brokerVars
  <2>12. CASE BrokerNext /\ ~Receive /\ ~Reply /\ ~ReceiverEnds /\ ~TakeRequest
    BY <2>4, <2>12 DEF BrokerNext, ScanPick, AnalysisOpens, AnalysisRejected, Decide, DecideFails,
       SubmitClean, MoveToVault, SubmitQuarantined, BrokerStart, BrokerConnect
  <2>13. ASSUME NEW m \in Modes, SetPolicy(m) PROVE InFlight'
    BY <2>4, <2>13 DEF SetPolicy, brokerVars
  <2>14. CASE RestoreNext
    BY <2>4, <2>14 DEF RestoreNext, RestoreMove, RestoreCommit, RestoreRollback, brokerVars
  <2>15. CASE ReceiverEnds
    BY <2>2, <2>3, <2>15 DEF ReceiverEnds
  <2> QED
    BY <1>3, <2>5, <2>6, <2>7, <2>8, <2>9, <2>10, <2>11, <2>12, <2>13, <2>14, <2>15
       DEF Next, CleanupNext
<1> QED
  BY <1>1, <1>2, <1>3 DEF WholeNext

\* One step of the whole system keeps the types.
LEMMA TypeStep ==
    ASSUME TypeOK, InFlight, [WholeNext]_vars
    PROVE  TypeOK'
<1>1. CASE UNCHANGED vars
  BY <1>1 DEF vars, TypeOK, driverVars, fileVars, brokerVars, historyVars
<1>2. ASSUME NEW m \in Modes, SetPolicy(m) PROVE TypeOK'
  BY <1>2 DEF SetPolicy, TypeOK, fileVars, brokerVars, historyVars
<1>3. CASE DriverReload
  <2>1. request' \in [Requests -> Contexts]
    BY <1>3 DEF DriverReload, Contexts
  <2> QED
    BY <1>3, <2>1, BrokerGoneTypes DEF DriverReload, TypeOK, fileVars
<1> QED
  BY <1>1, <1>2, <1>3, UserTypes, CleanupTypes, BrokerTypes, CrashTypes, RestoreTypes
     DEF WholeNext, Next

LEMMA TypeInit == ASSUME Init PROVE TypeOK /\ InFlight
<1>1. request \in [Requests -> Contexts]
  BY DEF Init, Contexts
<1>2. /\ content \in [Files -> Versions] /\ processed \in [Files -> 0 .. NoStamp]
      /\ released \in [Files -> 0 .. NoStamp]
      /\ cleared \in [Files -> [version : Versions, place : {"watched", "transient"}]]
  BY DEF Init, Versions, NoStamp
<1>3. \A U : <<>> \in Seq(U)
  OBVIOUS
<1> QED
  BY <1>1, <1>2, <1>3 DEF Init, TypeOK, Places, InFlight, NoReceiver

\* Type correctness of the whole system, driver reloads and restores included.
THEOREM GateTypeCorrect == WholeSpec => []TypeOK
<1>1. Init => TypeOK /\ InFlight
  BY TypeInit
<1>2. TypeOK /\ InFlight /\ [WholeNext]_vars => TypeOK' /\ InFlight'
  BY TypeStep, InFlightStep
<1> QED
  BY <1>1, <1>2, PTL DEF WholeSpec

-----------------------------------------------------------------------------
(* The gate.  A clean verdict opens a file for the content the broker judged: it is the
   file's present content because the broker's handle shuts writers out, and a writer
   that is past its callback is marked because the mark came first. *)

\* An operation that is past its callback runs on a file in the table.
WriterMarked ==
    \A f \in Files \ unmarked : writer[f] \in {"writing", "renaming"} => Blocked(f)

GateInv ==
    TypeOK /\ InFlight /\ AnalysisIsExclusive /\ WriterMarked /\ GateCoversUnverified

\* What an action does to the table and to the excuses: f is marked, or excused.
LEMMA MarkedOrExcused ==
    ASSUME TypeOK, NEW f \in Files, Mark(f)
    PROVE  /\ Blocked(f)' \/ f \in unmarked'
           /\ \A g \in Files \ {f} : Blocked(g)' = Blocked(g) /\ (g \in unmarked' <=> g \in unmarked)
BY DEF TypeOK, Mark, SetVerdict, Blocked

\* Only the analysis that opened the file passes on to the states that hold it.
LEMMA ExclusiveStep ==
    ASSUME TypeOK, AnalysisIsExclusive, [WholeNext]_vars
    PROVE  AnalysisIsExclusive'
<1> USE DEF AnalysisIsExclusive, Locked, TypeOK
<1>1. CASE UNCHANGED <<work, writer, content, place>>
  BY <1>1
<1>2. CASE UNCHANGED vars
  BY <1>1, <1>2 DEF vars, brokerVars, fileVars
<1>3. CASE UserNext
  <2>1. PICK f \in Files :
          \/ OpenWriter(f) \/ PreWrite(f) \/ PreSetInformation(f)
          \/ CompleteWrite(f) \/ CompleteRename(f)
          \/ OpenReader(f) \/ CloseWriter(f) \/ CloseReader(f) \/ CloseMetadata(f)
    BY <1>3 DEF UserNext
  <2>2. CASE OpenWriter(f)
    BY <2>2 DEF OpenWriter, brokerVars
  <2>3. CASE CompleteWrite(f) \/ CompleteRename(f)
    BY <2>3 DEF CompleteWrite, CompleteRename, brokerVars
  <2>4. CASE PreWrite(f) \/ PreSetInformation(f)
    BY <2>4 DEF PreWrite, PreSetInformation, GateMutation, brokerVars
  <2>5. CASE CloseWriter(f)
    BY <2>5 DEF CloseWriter, brokerVars
  <2>6. CASE OpenReader(f) \/ CloseReader(f) \/ CloseMetadata(f)
    BY <1>1, <2>6 DEF OpenReader, CloseReader, CloseMetadata, brokerVars, fileVars
  <2> QED
    BY <2>1, <2>2, <2>3, <2>4, <2>5, <2>6
<1>4. CASE CleanupNext
  BY <1>1, <1>4 DEF CleanupNext, SendMessage, Timeout, ApplyReply, brokerVars, fileVars
<1>5. CASE BrokerNext
  <2>1. CASE Receive \/ Reply \/ ReceiverEnds \/ BrokerStart \/ BrokerConnect
    BY <1>1, <2>1 DEF Receive, Reply, ReceiverEnds, BrokerStart, BrokerConnect, fileVars
  <2>2. CASE TakeRequest \/ \E f \in Files : ScanPick(f)
    BY <2>2 DEF TakeRequest, ScanPick, Listed, NoWork
  <2>3. CASE AnalysisOpens
    BY <2>3, WorkTypes DEF AnalysisOpens, WorkIn, fileVars
  <2>4. CASE AnalysisRejected \/ DecideFails \/ SubmitClean \/ SubmitQuarantined
    BY <2>4 DEF AnalysisRejected, DecideFails, SubmitClean, SubmitQuarantined, NoWork
  <2>5. CASE Decide
    <3>1. /\ work'.file = work.file /\ work'.stamp = work.stamp /\ work'.place = work.place
          /\ work.phase = "locked"
      BY <2>5, WorkTypes DEF Decide, WorkIn
    <3> QED
      BY <2>5, <3>1 DEF Decide, fileVars
  <2>6. CASE MoveToVault
    <3>1. work'.phase \in {"moved", "idle"}
      BY <2>6, WorkTypes DEF MoveToVault, WorkIn, NoWork
    <3> QED
      BY <3>1
  <2> QED
    BY <1>5, <2>1, <2>2, <2>3, <2>4, <2>5, <2>6 DEF BrokerNext
<1>6. CASE BrokerCrash
  BY <1>6 DEF BrokerCrash, BrokerGone, NoWork
<1>7. ASSUME NEW m \in Modes, SetPolicy(m) PROVE AnalysisIsExclusive'
  BY <1>1, <1>7 DEF SetPolicy, brokerVars, fileVars
<1>8. CASE DriverReload
  BY <1>8 DEF DriverReload, BrokerGone, NoWork
<1>9. ASSUME NEW f \in Files, RestoreMove(f) PROVE AnalysisIsExclusive'
  <2>1. ~Locked(f)
    BY <1>9, WorkTypes DEF RestoreMove, WorkIn
  <2> QED
    BY <1>9, <2>1 DEF RestoreMove, brokerVars
<1>10. CASE RestoreCommit
  BY <1>1, <1>10 DEF RestoreCommit, brokerVars, fileVars
<1>11. CASE RestoreRollback
  <2>1. \A f \in Files : Locked(f) => place'[f] = place[f]
    BY <1>11 DEF RestoreRollback
  <2> QED
    BY <1>11, <2>1 DEF RestoreRollback, brokerVars
<1> QED
  BY <1>2, <1>3, <1>4, <1>5, <1>6, <1>7, <1>8, <1>9, <1>10, <1>11 DEF WholeNext, Next, RestoreNext

\* The steps that change the table, the excuses, a file or what it is allowed to be read as.
LEMMA CoverStep ==
    ASSUME GateInv, [Next]_vars
    PROVE  WriterMarked' /\ GateCoversUnverified'
<1> USE DEF WriterMarked, GateCoversUnverified, Current
<1> TypeOK
  BY DEF GateInv
<1>1. CASE UNCHANGED <<verdict, unmarked, writer, content, place, cleared>>
  BY <1>1 DEF GateInv, Blocked
<1>2. CASE UNCHANGED vars
  BY <1>1, <1>2 DEF vars, driverVars, fileVars, historyVars
<1>3. CASE UserNext
  <2>1. PICK f \in Files :
          \/ OpenWriter(f) \/ PreWrite(f) \/ PreSetInformation(f)
          \/ CompleteWrite(f) \/ CompleteRename(f)
          \/ OpenReader(f) \/ CloseWriter(f) \/ CloseReader(f) \/ CloseMetadata(f)
    BY <1>3 DEF UserNext
  <2>2. CASE OpenWriter(f) \/ CloseWriter(f)
    BY <2>2 DEF OpenWriter, CloseWriter, GateInv, TypeOK, Blocked, driverVars, historyVars
  <2>3. CASE CompleteWrite(f) \/ CompleteRename(f)
    <3>1. UNCHANGED <<verdict, unmarked, cleared>>
      BY <2>3 DEF CompleteWrite, CompleteRename, driverVars, historyVars
    <3>2. Blocked(f) \/ f \in unmarked
      BY <2>3 DEF CompleteWrite, CompleteRename, GateInv
    <3>3. \A g \in Files \ {f} : UNCHANGED <<content[g], place[g], writer[g]>>
      BY <2>3 DEF CompleteWrite, CompleteRename, TypeOK
    <3> QED
      BY <3>1, <3>2, <3>3 DEF GateInv, Blocked
  <2>4. CASE PreWrite(f) \/ PreSetInformation(f)
    <3>1. Mark(f) /\ UNCHANGED <<content, place, cleared>>
      BY <2>4 DEF PreWrite, PreSetInformation, GateMutation
    <3>2. \A g \in Files \ {f} : UNCHANGED writer[g]
      BY <2>4 DEF PreWrite, PreSetInformation, GateMutation, TypeOK
    <3> QED
      BY <3>1, <3>2, MarkedOrExcused DEF GateInv
  <2>5. CASE OpenReader(f) \/ CloseReader(f) \/ CloseMetadata(f)
    BY <1>1, <2>5 DEF OpenReader, CloseReader, CloseMetadata, driverVars, fileVars, historyVars
  <2> QED
    BY <2>1, <2>2, <2>3, <2>4, <2>5
<1>4. CASE CleanupNext
  <2>1. PICK r \in Requests : SendMessage(r) \/ Timeout(r) \/ ApplyReply(r)
    BY <1>4 DEF CleanupNext
  <2>2. CASE SendMessage(r) \/ Timeout(r)
    BY <1>1, <2>2 DEF SendMessage, Timeout, fileVars, historyVars
  <2>3. CASE ApplyReply(r)
    <3>1. UNCHANGED <<unmarked, writer, content, place, cleared>>
      BY <2>3 DEF ApplyReply, fileVars, historyVars
    <3>2. \A g \in Files : Blocked(g) => Blocked(g)'
      BY <2>3 DEF ApplyReply, SetVerdict, Blocked, TypeOK
    <3> QED
      BY <3>1, <3>2 DEF GateInv
  <2> QED
    BY <2>1, <2>2, <2>3
<1>5. CASE BrokerNext
  <2>1. CASE SubmitClean
    <3>1. PICK f \in Files : f = work.file /\ Locked(f)
      BY <2>1, WorkTypes DEF SubmitClean, Locked
    <3>2. writer[f] = "none" /\ content[f] = work.stamp /\ place[f] = work.place
      BY <3>1 DEF GateInv, AnalysisIsExclusive
    <3>3. UNCHANGED <<writer, content, place>>
      BY <2>1 DEF SubmitClean, fileVars
    <3>4. CASE UNCHANGED <<verdict, cleared, processed, unmarked>>
      BY <1>1, <3>3, <3>4
    <3>5. CASE /\ SetVerdict(f, "clean")
               /\ cleared' = [cleared EXCEPT ![f] = [version |-> work.stamp, place |-> work.place]]
               /\ unmarked' = unmarked \ {f}
      <4>1. cleared'[f] = Current(f)'
        BY <3>1, <3>2, <3>3, <3>5 DEF TypeOK
      <4>2. \A g \in Files \ {f} : /\ cleared'[g] = cleared[g] /\ Blocked(g)' = Blocked(g)
                                   /\ (g \in unmarked' <=> g \in unmarked)
        BY <3>1, <3>5 DEF TypeOK, SetVerdict, Blocked
      <4> QED
        BY <3>2, <3>3, <4>1, <4>2 DEF GateInv
    <3> QED
      BY <2>1, <3>1, <3>4, <3>5 DEF SubmitClean
  <2>2. CASE MoveToVault
    <3>1. PICK f \in Files : f = work.file
      BY <2>2, WorkTypes DEF MoveToVault
    <3>2. UNCHANGED <<writer, content, cleared>>
      BY <2>2 DEF MoveToVault
    <3>3. CASE UNCHANGED <<verdict, unmarked, place>>
      BY <1>1, <3>2, <3>3
    <3>4. CASE Mark(f) /\ \A g \in Files \ {f} : UNCHANGED place[g]
      BY <3>2, <3>4, MarkedOrExcused DEF GateInv
    <3> QED
      BY <2>2, <3>1, <3>3, <3>4 DEF MoveToVault, TypeOK
  <2>3. CASE SubmitQuarantined
    <3>1. UNCHANGED <<unmarked, writer, content, place, cleared>>
      BY <2>3 DEF SubmitQuarantined, fileVars, historyVars
    <3>2. \A g \in Files : Blocked(g) => Blocked(g)'
      BY <2>3 DEF SubmitQuarantined, SetVerdict, Blocked, TypeOK
    <3> QED
      BY <3>1, <3>2 DEF GateInv
  <2>4. CASE \/ Receive \/ Reply \/ TakeRequest \/ \E f \in Files : ScanPick(f)
             \/ AnalysisOpens \/ AnalysisRejected \/ Decide \/ DecideFails
             \/ ReceiverEnds \/ BrokerStart \/ BrokerConnect
    BY <1>1, <2>4 DEF Receive, Reply, TakeRequest, ScanPick, AnalysisOpens, AnalysisRejected,
       Decide, DecideFails, ReceiverEnds, BrokerStart, BrokerConnect, driverVars, fileVars,
       historyVars
  <2> QED
    BY <1>5, <2>1, <2>2, <2>3, <2>4 DEF BrokerNext
<1>6. CASE BrokerCrash
  BY <1>1, <1>6 DEF BrokerCrash, fileVars, historyVars
<1>7. ASSUME NEW m \in Modes, SetPolicy(m) PROVE WriterMarked' /\ GateCoversUnverified'
  BY <1>1, <1>7 DEF SetPolicy, fileVars, historyVars
<1> QED
  BY <1>2, <1>3, <1>4, <1>5, <1>6, <1>7 DEF Next

LEMMA GateInvariant == Spec => []GateInv
<1>1. Init => GateInv
  <2> SUFFICES ASSUME Init PROVE AnalysisIsExclusive /\ WriterMarked /\ GateCoversUnverified
    BY TypeInit DEF GateInv
  <2> QED
    BY DEF Init, AnalysisIsExclusive, Locked, NoWork, WriterMarked, GateCoversUnverified, Current
<1>2. GateInv /\ [Next]_vars => GateInv'
  <2> SUFFICES ASSUME GateInv, [Next]_vars PROVE GateInv'
    OBVIOUS
  <2>1. [WholeNext]_vars /\ TypeOK /\ InFlight
    BY DEF WholeNext, GateInv
  <2> QED
    BY <2>1, TypeStep, InFlightStep, ExclusiveStep, CoverStep DEF GateInv
<1> QED
  BY <1>1, <1>2, PTL DEF Spec

\* The point of the gate, for every number of files, requests and versions and for every
\* size of the table and the queue: unverified content is in the table.
THEOREM UnverifiedIsGated == Spec => []GateCoversUnverified
BY GateInvariant, PTL DEF GateInv

\* In enforce mode a read handle is only ever given to allowed content.
THEOREM ReadersSeeVerified == Spec => ReadersOpenVerified
<1>1. GateInv /\ [Next]_vars
        => [\A f \in readers' \ (readers \union unmarked) :
              mode = "enforce" => cleared[f] = Current(f)]_vars
  <2> SUFFICES ASSUME GateInv, Next, NEW f \in readers' \ (readers \union unmarked),
                      mode = "enforce"
               PROVE  cleared[f] = Current(f)
    OBVIOUS
  <2>1. CASE UNCHANGED readers
    BY <2>1
  <2>2. ASSUME NEW g \in Files, OpenReader(g) PROVE f \in Files /\ f = g /\ ~Blocked(f)
    BY <2>2 DEF OpenReader
  <2>3. (\A g \in Files : ~OpenReader(g)) => readers' \subseteq readers
    BY DEF Next, UserNext, CleanupNext, BrokerNext, OpenWriter, PreWrite, PreSetInformation,
       GateMutation, CompleteWrite, CompleteRename, CloseWriter, CloseReader, CloseMetadata,
       SendMessage, Timeout, ApplyReply, Receive, Reply, TakeRequest, ScanPick, AnalysisOpens,
       AnalysisRejected, Decide, DecideFails, SubmitClean, MoveToVault, SubmitQuarantined,
       ReceiverEnds, BrokerStart, BrokerConnect, BrokerCrash, SetPolicy, fileVars
  <2> QED
    BY <2>2, <2>3 DEF GateInv, GateCoversUnverified
<1> QED
  BY <1>1, GateInvariant, PTL DEF Spec, ReadersOpenVerified

-----------------------------------------------------------------------------
(* The restore tool and reloads of the driver.  An object may be taken back into the vault
   after its content was allowed, and then it is in no table: what is known of it there is
   that it would be allowed again under the watched name it goes back to. *)

\* The name a file has, or will be restored to.
NameOf(f) == IF place[f] = "vault" THEN "watched" ELSE place[f]

Held(f) ==
    /\ place[f] = "vault" => writer[f] = "none"
    /\ f \notin unmarked /\ released[f] = NoStamp =>
         /\ writer[f] \in {"writing", "renaming"} => Blocked(f)
         /\ cleared[f] # [version |-> content[f], place |-> NameOf(f)] => Blocked(f)

HeldInv == TypeOK /\ InFlight /\ AnalysisIsExclusive /\ \A f \in Files : Held(f)

\* A step that opens nothing, excuses no less and lets the file be keeps it held.
LEMMA HeldStays ==
    ASSUME NEW f \in Files, Held(f), released'[f] = released[f],
           UNCHANGED <<place[f], writer[f], content[f], cleared[f]>>,
           f \in unmarked => f \in unmarked', Blocked(f) => Blocked(f)'
    PROVE  Held(f)'
BY DEF Held, NameOf

\* A file that is marked, or excused from its mark, is held.
LEMMA MarkHolds ==
    ASSUME TypeOK, NEW f \in Files, Mark(f), place'[f] = "vault" => writer'[f] = "none"
    PROVE  Held(f)'
BY MarkedOrExcused DEF Held

LEMMA HeldByUsers ==
    ASSUME HeldInv, UserNext, NEW f \in Files
    PROVE  Held(f)'
<1> USE DEF HeldInv
<1>1. UNCHANGED <<cleared, released>>
  BY DEF UserNext, OpenWriter, PreWrite, PreSetInformation, GateMutation, CompleteWrite,
     CompleteRename, OpenReader, CloseWriter, CloseReader, CloseMetadata, historyVars
<1>2. PICK g \in Files :
        \/ OpenWriter(g) \/ PreWrite(g) \/ PreSetInformation(g)
        \/ CompleteWrite(g) \/ CompleteRename(g)
        \/ OpenReader(g) \/ CloseWriter(g) \/ CloseReader(g) \/ CloseMetadata(g)
  BY DEF UserNext
<1>3. CASE OpenWriter(g) \/ CloseWriter(g)
  <2>1. UNCHANGED <<verdict, unmarked, content, place>>
    BY <1>3 DEF OpenWriter, CloseWriter, driverVars, historyVars
  <2>2. writer'[f] = writer[f] \/ (f = g /\ place[f] # "vault" /\ writer'[f] = "open") \/ writer'[f] = "none"
    BY <1>3 DEF OpenWriter, CloseWriter, TypeOK
  <2> QED
    BY <1>1, <2>1, <2>2 DEF Held, NameOf, Blocked
<1>4. CASE CompleteWrite(g) \/ CompleteRename(g)
  <2>1. UNCHANGED <<verdict, unmarked>>
    BY <1>4 DEF CompleteWrite, CompleteRename, driverVars, historyVars
  <2>2. CASE f = g
    <3>1. writer[f] \in {"writing", "renaming"} /\ writer'[f] = "open" /\ place[f] # "vault"
      BY <1>4, <2>2 DEF CompleteWrite, CompleteRename, TypeOK, Held
    <3>2. place'[f] # "vault"
      BY <1>4, <2>2, <3>1 DEF CompleteWrite, CompleteRename, TypeOK
    <3> QED
      BY <1>1, <2>1, <3>1, <3>2 DEF Held, Blocked
  <2>3. CASE f # g
    <3>1. UNCHANGED <<content[f], place[f], writer[f]>>
      BY <1>4, <2>3 DEF CompleteWrite, CompleteRename, TypeOK
    <3> QED
      BY <1>1, <2>1, <3>1, HeldStays DEF Blocked
  <2> QED
    BY <2>2, <2>3
<1>5. CASE PreWrite(g) \/ PreSetInformation(g)
  <2>1. Mark(g) /\ UNCHANGED <<content, place>> /\ writer[g] = "open"
    BY <1>5 DEF PreWrite, PreSetInformation, GateMutation
  <2>2. CASE f = g
    BY <2>1, <2>2, MarkHolds DEF Held
  <2>3. CASE f # g
    <3>1. writer'[f] = writer[f]
      BY <1>5, <2>3 DEF PreWrite, PreSetInformation, GateMutation, TypeOK
    <3>2. Blocked(f)' = Blocked(f) /\ (f \in unmarked' <=> f \in unmarked)
      BY <2>1, <2>3, MarkedOrExcused
    <3> QED
      BY <1>1, <2>1, <3>1, <3>2, HeldStays
  <2> QED
    BY <2>2, <2>3
<1>6. CASE OpenReader(g) \/ CloseReader(g) \/ CloseMetadata(g)
  <2>1. UNCHANGED <<verdict, unmarked, content, place, writer>>
    BY <1>6 DEF OpenReader, CloseReader, CloseMetadata, driverVars, fileVars, historyVars
  <2> QED
    BY <1>1, <2>1, HeldStays DEF Blocked
<1> QED
  BY <1>2, <1>3, <1>4, <1>5, <1>6

LEMMA HeldByBroker ==
    ASSUME HeldInv, BrokerNext, NEW f \in Files
    PROVE  Held(f)'
<1> USE DEF HeldInv
<1>1. UNCHANGED <<content, writer, released>>
  BY DEF BrokerNext, Receive, Reply, TakeRequest, ScanPick, AnalysisOpens, AnalysisRejected, Decide,
     DecideFails, SubmitClean, MoveToVault, SubmitQuarantined, ReceiverEnds, BrokerStart,
     BrokerConnect, driverVars, fileVars, historyVars
<1>2. CASE SubmitClean
  <2>1. PICK g \in Files : g = work.file /\ Locked(g)
    BY <1>2, WorkTypes DEF SubmitClean, Locked
  <2>2. writer[g] = "none" /\ content[g] = work.stamp /\ place[g] = work.place /\ work.place # "vault"
    BY <2>1, WorkTypes DEF AnalysisIsExclusive, Locked, WorkIn
  <2>3. UNCHANGED place
    BY <1>2 DEF SubmitClean, fileVars
  <2>4. CASE UNCHANGED <<verdict, cleared, unmarked>>
    BY <1>1, <2>3, <2>4, HeldStays DEF Blocked
  <2>5. CASE /\ SetVerdict(g, "clean")
             /\ cleared' = [cleared EXCEPT ![g] = [version |-> work.stamp, place |-> work.place]]
             /\ unmarked' = unmarked \ {g}
    <3>1. CASE f = g
      <4>1. cleared'[f] = [version |-> content[f], place |-> place[f]]
        BY <2>1, <2>2, <2>5, <3>1 DEF TypeOK
      <4> QED
        BY <1>1, <2>2, <2>3, <3>1, <4>1 DEF Held, NameOf
    <3>2. CASE f # g
      <4>1. cleared'[f] = cleared[f] /\ Blocked(f)' = Blocked(f) /\ (f \in unmarked' <=> f \in unmarked)
        BY <2>5, <3>2 DEF TypeOK, SetVerdict, Blocked
      <4> QED
        BY <1>1, <2>3, <4>1, HeldStays
    <3> QED
      BY <3>1, <3>2
  <2> QED
    BY <1>2, <2>1, <2>4, <2>5 DEF SubmitClean
<1>3. CASE MoveToVault
  <2>1. PICK g \in Files : g = work.file /\ Locked(g)
    BY <1>3, WorkTypes DEF MoveToVault, Locked
  <2>2. writer[g] = "none"
    BY <2>1 DEF AnalysisIsExclusive
  <2>3. UNCHANGED cleared
    BY <1>3 DEF MoveToVault
  <2>4. CASE UNCHANGED <<verdict, unmarked, place>>
    BY <1>1, <2>3, <2>4, HeldStays DEF Blocked
  <2>5. CASE Mark(g) /\ \A h \in Files \ {g} : UNCHANGED place[h]
    <3>1. CASE f = g
      BY <1>1, <2>2, <2>5, <3>1, MarkHolds
    <3>2. CASE f # g
      BY <1>1, <2>3, <2>5, <3>2, MarkedOrExcused, HeldStays
    <3> QED
      BY <3>1, <3>2
  <2> QED
    BY <1>3, <2>1, <2>4, <2>5 DEF MoveToVault, TypeOK
<1>4. CASE SubmitQuarantined
  <2>1. UNCHANGED <<unmarked, place, cleared>>
    BY <1>4 DEF SubmitQuarantined, fileVars, historyVars
  <2>2. Blocked(f) => Blocked(f)'
    BY <1>4 DEF SubmitQuarantined, SetVerdict, Blocked, TypeOK
  <2> QED
    BY <1>1, <2>1, <2>2, HeldStays
<1>5. CASE \/ Receive \/ Reply \/ TakeRequest \/ \E g \in Files : ScanPick(g)
           \/ AnalysisOpens \/ AnalysisRejected \/ Decide \/ DecideFails
           \/ ReceiverEnds \/ BrokerStart \/ BrokerConnect
  <2>1. UNCHANGED <<verdict, unmarked, place, cleared>>
    BY <1>5 DEF Receive, Reply, TakeRequest, ScanPick, AnalysisOpens, AnalysisRejected, Decide,
       DecideFails, ReceiverEnds, BrokerStart, BrokerConnect, driverVars, fileVars, historyVars
  <2> QED
    BY <1>1, <2>1, HeldStays DEF Blocked
<1> QED
  BY <1>2, <1>3, <1>4, <1>5 DEF BrokerNext

\* The tool moves what is held, opens it only with the release, and takes back only what
\* nobody has open for writing.
LEMMA HeldByRestore ==
    ASSUME HeldInv, RestoreNext, NEW f \in Files
    PROVE  Held(f)'
<1> USE DEF HeldInv
<1>1. ASSUME NEW g \in Files, RestoreMove(g) PROVE Held(f)'
  <2>1. UNCHANGED <<verdict, unmarked, released, cleared, content, writer>>
    BY <1>1 DEF RestoreMove, historyVars
  <2>2. NameOf(f)' = NameOf(f) /\ (place'[f] = "vault" => place[f] = "vault")
    BY <1>1 DEF RestoreMove, NameOf, TypeOK
  <2> QED
    BY <2>1, <2>2 DEF Held, Blocked
<1>2. CASE RestoreCommit
  <2>1. restore.file \in Files /\ restore.stamp \in Versions
    BY <1>2 DEF RestoreCommit, NoRestore, TypeOK
  <2>2. UNCHANGED <<content, place, writer>>
    BY <1>2 DEF RestoreCommit, fileVars
  <2>3. CASE f = restore.file
    <3>1. released'[f] # NoStamp
      BY <1>2, <2>1, <2>3 DEF RestoreCommit, TypeOK, Versions, NoStamp
    <3> QED
      BY <2>2, <3>1 DEF Held, NoStamp
  <2>4. CASE f # restore.file
    BY <1>2, <2>2, <2>4, HeldStays DEF RestoreCommit, SetVerdict, Blocked, TypeOK
  <2> QED
    BY <2>3, <2>4
<1>3. CASE RestoreRollback
  <2>1. UNCHANGED <<verdict, unmarked, released, cleared, content, writer>>
    BY <1>3 DEF RestoreRollback, driverVars, historyVars
  <2>2. NameOf(f)' = NameOf(f) /\ (place'[f] = "vault" => place[f] = "vault" \/ writer[f] = "none")
    BY <1>3 DEF RestoreRollback, NameOf, TypeOK
  <2> QED
    BY <2>1, <2>2 DEF Held, Blocked
<1> QED
  BY <1>1, <1>2, <1>3 DEF RestoreNext

LEMMA HeldStep ==
    ASSUME HeldInv, [WholeNext]_vars, NEW f \in Files
    PROVE  Held(f)'
<1> USE DEF HeldInv
<1>1. CASE UNCHANGED <<verdict, fileVars, historyVars>>
  BY <1>1, HeldStays DEF fileVars, historyVars, Blocked
<1>2. CASE UNCHANGED vars
  BY <1>1, <1>2 DEF vars, driverVars
<1>3. CASE CleanupNext
  <2>1. UNCHANGED <<fileVars, historyVars>>
    BY <1>3 DEF CleanupNext, SendMessage, Timeout, ApplyReply
  <2>2. Blocked(f) => Blocked(f)'
    BY <1>3 DEF CleanupNext, SendMessage, Timeout, ApplyReply, SetVerdict, Blocked, TypeOK
  <2> QED
    BY <2>1, <2>2, HeldStays DEF fileVars, historyVars
<1>4. CASE BrokerCrash
  BY <1>1, <1>4 DEF BrokerCrash
<1>5. ASSUME NEW m \in Modes, SetPolicy(m) PROVE Held(f)'
  BY <1>1, <1>5 DEF SetPolicy
<1>6. CASE DriverReload
  BY <1>6 DEF DriverReload, Held, fileVars
<1> QED
  BY <1>2, <1>3, <1>4, <1>5, <1>6, HeldByUsers, HeldByBroker, HeldByRestore DEF WholeNext, Next

LEMMA HeldInvariant == WholeSpec => []HeldInv
<1>1. Init => HeldInv
  <2> SUFFICES ASSUME Init PROVE AnalysisIsExclusive /\ \A f \in Files : Held(f)
    BY TypeInit DEF HeldInv
  <2> QED
    BY DEF Init, AnalysisIsExclusive, Locked, NoWork, Held, NameOf
<1>2. HeldInv /\ [WholeNext]_vars => HeldInv'
  <2> SUFFICES ASSUME HeldInv, [WholeNext]_vars PROVE HeldInv'
    OBVIOUS
  <2>1. TypeOK /\ InFlight /\ AnalysisIsExclusive
    BY DEF HeldInv
  <2>2. TypeOK' /\ InFlight' /\ AnalysisIsExclusive'
    BY <2>1, TypeStep, InFlightStep, ExclusiveStep
  <2>3. \A f \in Files : Held(f)'
    BY HeldStep
  <2> QED
    BY <2>2, <2>3 DEF HeldInv
<1> QED
  BY <1>1, <1>2, PTL DEF WholeSpec

\* While the broker judges a file nobody writes it and it is what was listed, whatever the
\* restore tool does and however often the driver is reloaded (quarantine.cpp opens without
\* write sharing).
THEOREM AnalysisExclusive == WholeSpec => []AnalysisIsExclusive
BY HeldInvariant, PTL DEF HeldInv

\* An object nobody has released is in the driver's table until its present content has been
\* allowed: the restore's move opens nothing (ai_shield_broker's quarantine-restore).
THEOREM ReleaseOpensRestored == WholeSpec => []RestoreOpensByCommit
<1>1. HeldInv => RestoreOpensByCommit
  BY DEF HeldInv, Held, NameOf, RestoreOpensByCommit, Current
<1> QED
  BY <1>1, HeldInvariant, PTL

=============================================================================
