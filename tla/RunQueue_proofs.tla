--------------------------- MODULE RunQueue_proofs ---------------------------
(***************************************************************************)
(* Proofs about RunQueue, for every number of runs, clients and keys: the  *)
(* type invariant; unless a waiting run can look stale, that the game slot *)
(* is exclusive and that the service implements GameSlot; and of the       *)
(* records, what is final about a run that was cancelled and about one     *)
(* that another run resumes, that no key is given to two of them, and that *)
(* a stopped journey never passes; last, that GameSlot keeps its word.     *)
(***************************************************************************)
EXTENDS RunQueue, TLAPS

-----------------------------------------------------------------------------
(* Types                                                                    *)

\* The outcome of a journey that has not ended.
LEMMA OutcomeType == NoOutcome \in Outcome
  BY DEF Outcome, NoOutcome, Terminal

\* The empty service is well-typed.
LEMMA InitTypeOK == Init => TypeOK
<1> SUFFICES ASSUME Init
             PROVE  TypeOK
  OBVIOUS
<1>1. outcome \in [Run -> Outcome]
  BY OutcomeType DEF Init
<1>2. status \in [Run -> Status] /\ earlier \in [Run -> SUBSET Run]
  BY DEF Init, Status
<1>3. pc \in [Run -> WorkerPc] /\ proc \in [Run -> ProcState]
  BY DEF Init, WorkerPc, ProcState
<1>4. cpc \in [Client -> ClientPc] /\ crun \in [Client -> Run \cup {None}]
  BY DEF Init, ClientPc
<1>5. QED
  BY <1>1, <1>2, <1>3, <1>4 DEF Init, TypeOK

\* update(status=s) leaves statuses behind.
LEMMA UpdateStatusType ==
  ASSUME TypeOK, NEW r, NEW s \in Status, UpdateStatus(r, s)
  PROVE  status' \in [Run -> Status]
  BY DEF TypeOK, UpdateStatus

\* update(evidence_sealed=b) leaves Booleans behind.
LEMMA UpdateSealedType ==
  ASSUME TypeOK, NEW r, NEW b \in BOOLEAN, UpdateSealed(r, b)
  PROVE  sealed' \in [Run -> BOOLEAN]
  BY DEF TypeOK, UpdateSealed

\* _mark_worker_gone leaves well-typed records behind.
LEMMA SettleGoneTypes ==
  ASSUME TypeOK, NEW r, SettleGone(r)
  PROVE  status' \in [Run -> Status] /\ sealed' \in [Run -> BOOLEAN]
<1>1. PICK s \in {"FAILED_PLATFORM", "BLOCKED_ENVIRONMENT"} : UpdateStatus(r, s)
  BY DEF SettleGone
<1>2. s \in Status
  BY DEF Status, Terminal
<1>3. UpdateSealed(r, TRUE)
  BY DEF SettleGone
<1>4. QED
  BY <1>1, <1>2, <1>3, UpdateStatusType, UpdateSealedType

\* A worker that ends leaves nothing behind in its variables.
LEMMA ExitTypes ==
  ASSUME TypeOK, NEW r \in Run, Exit(r)
  PROVE  /\ pc' \in [Run -> WorkerPc]
         /\ proc' \in [Run -> ProcState]
         /\ spawner' \in [Run -> Daemon \cup {None}]
         /\ todo' \in [Run -> SUBSET Run]
         /\ hadPid' \in [Run -> SUBSET Run]
         /\ blocked' \in [Run -> BOOLEAN]
         /\ victim' \in [Run -> Run \cup {None}]
         /\ outcome' \in [Run -> Outcome]
  BY OutcomeType DEF TypeOK, Exit, WorkerPc, ProcState

\* What complete_record makes of the outcome of a journey.
LEMMA CompletedType ==
  ASSUME NEW o
  PROVE  Completed(o) \in Terminal
  BY DEF Completed, Terminal

\* Calls of the service.
LEMMA CallTypes ==
  ASSUME TypeOK, NEW c \in Client, NEW r \in Run,
         \/ \E key \in Key \cup {None} : SubmitRun(c, r, key)
         \/ \E old \in Run : ResumeRun(c, r, old)
         \/ ReapLoad(c, r)
  PROVE  TypeOK'
<1> USE QueueAssumption
    DEF TypeOK, Status, Terminal, WorkerPc, ClientPc, records, scans, workers,
        clients,
        Create, Created, Goto
<1>1. CASE \E key \in Key \cup {None} : SubmitRun(c, r, key)
  BY <1>1 DEF SubmitRun
<1>2. CASE \E old \in Run : ResumeRun(c, r, old)
  BY <1>2 DEF ResumeRun
<1>3. CASE ReapLoad(c, r)
  BY <1>3 DEF ReapLoad
<1>4. QED
  BY <1>1, <1>2, <1>3

\* What happens without a client.
LEMMA OutsideTypes ==
  ASSUME TypeOK,
         \/ PauseQueue
         \/ ResumeQueue
         \/ \E r \in Run : RequestCancel(r)
         \/ \E r \in Run : Age(r)
  PROVE  TypeOK'
<1> USE QueueAssumption
    DEF TypeOK, Status, Terminal, WorkerPc, ClientPc, records, scans, workers,
        clients
<1>1. CASE PauseQueue
  BY <1>1 DEF PauseQueue
<1>2. CASE ResumeQueue
  BY <1>2 DEF ResumeQueue
<1>3. CASE \E r \in Run : RequestCancel(r)
  BY <1>3 DEF RequestCancel
<1>4. CASE \E r \in Run : Age(r)
  BY <1>4 DEF Age
<1>5. QED
  BY <1>1, <1>2, <1>3, <1>4

\* Steps of a client that has called.
LEMMA ClientTypes ==
  ASSUME TypeOK, NEW c \in Client,
         \/ SpawnWorker(c)
         \/ SpawnFails(c)
         \/ RecordPid(c)
         \/ ReapProbe(c)
         \/ ReapMark(c)
         \/ ClientEnds(c)
  PROVE  TypeOK'
<1> USE QueueAssumption
    DEF TypeOK, Status, Terminal, WorkerPc, ClientPc, records, scans, workers,
        clients, ProcState,
        Goto, UpdateStatus, UpdatePid
<1>1. CASE SpawnWorker(c)
  BY <1>1 DEF SpawnWorker
<1>2. CASE SpawnFails(c)
  BY <1>2 DEF SpawnFails
<1>3. CASE RecordPid(c)
  BY <1>3 DEF RecordPid
<1>4. CASE ReapProbe(c)
  <2>1. CASE proc[crun[c]] = "dead"
    BY <1>4, <2>1 DEF ReapProbe
  <2>2. CASE proc[crun[c]] # "dead"
    BY <1>4, <2>2 DEF ReapProbe
  <2>3. QED
    BY <2>1, <2>2
<1>5. CASE ReapMark(c)
  <2>1. SettleGone(crun[c]) /\ Goto(c, "idle", None)
    BY <1>5 DEF ReapMark
  <2>2. status' \in [Run -> Status] /\ sealed' \in [Run -> BOOLEAN]
    BY <2>1, SettleGoneTypes
  <2>3. QED
    BY <1>5, <2>2 DEF ReapMark, SettleGone
<1>6. CASE ClientEnds(c)
  BY <1>6 DEF ClientEnds
<1>7. QED
  BY <1>1, <1>2, <1>3, <1>4, <1>5, <1>6

\* Steps of a worker that waits for its turn.
LEMMA WaitingTypes ==
  ASSUME TypeOK, NEW r \in Run,
         \/ PollCancelled(r)
         \/ PollList(r)
         \/ \E o \in Run : ScanStale(r, o)
         \/ \E o \in Run : ScanGone(r, o)
         \/ \E o \in Run : ScanActive(r, o)
         \/ ScanMark(r)
         \/ Claim(r)
         \/ WaitOn(r)
         \/ WaitTimesOut(r)
  PROVE  TypeOK'
<1> USE QueueAssumption
    DEF TypeOK, Status, Terminal, WorkerPc, ClientPc, records, scans, workers,
        clients,
        Live, Continue, Judged, UpdateStatus, UpdatePid
<1>1. CASE PollCancelled(r)
  BY <1>1, ExitTypes DEF PollCancelled
<1>2. CASE PollList(r)
  BY <1>2 DEF PollList
<1>3. CASE \E o \in Run : ScanStale(r, o)
  BY <1>3 DEF ScanStale
<1>4. CASE \E o \in Run : ScanGone(r, o)
  BY <1>4 DEF ScanGone
<1>5. CASE \E o \in Run : ScanActive(r, o)
  BY <1>5 DEF ScanActive
<1>6. CASE ScanMark(r)
  <2>1. SettleGone(victim[r])
    BY <1>6 DEF ScanMark
  <2>2. status' \in [Run -> Status] /\ sealed' \in [Run -> BOOLEAN]
    BY <2>1, SettleGoneTypes
  <2>3. QED
    BY <1>6, <2>2 DEF ScanMark, SettleGone
<1>7. CASE Claim(r)
  BY <1>7 DEF Claim
<1>8. CASE WaitOn(r)
  BY <1>8 DEF WaitOn
<1>9. CASE WaitTimesOut(r)
  BY <1>9, ExitTypes DEF WaitTimesOut
<1>10. QED
  BY <1>1, <1>2, <1>3, <1>4, <1>5, <1>6, <1>7, <1>8, <1>9

\* Steps of a worker that has had its turn.
LEMMA PlayingTypes ==
  ASSUME TypeOK, NEW r \in Run,
         \/ PublishPhases(r)
         \/ JourneyEnds(r)
         \/ JourneyCancelled(r)
         \/ CancelCleanup(r)
         \/ AfterJourney(r)
         \/ CompleteRecord(r)
         \/ WorkerRaises(r)
         \/ CompleteFailed(r)
         \/ WorkerDies(r)
  PROVE  TypeOK'
<1> USE QueueAssumption
    DEF TypeOK, Status, Terminal, WorkerPc, ClientPc, records, scans, workers,
        clients,
        Live, Continue, UpdateStatus
<1>1. CASE PublishPhases(r)
  BY <1>1 DEF PublishPhases
<1>2. CASE JourneyEnds(r)
  <2>1. PICK s \in Terminal \ {"CANCELLED"} :
          outcome' = [outcome EXCEPT ![r] = [result |-> s, ok |-> s = "PASSED"]]
    BY <1>2 DEF JourneyEnds
  <2>2. [result |-> s, ok |-> s = "PASSED"] \in Outcome
    BY DEF Outcome
  <2>3. sealed' \in [Run -> BOOLEAN]
    BY <1>2, UpdateSealedType DEF JourneyEnds
  <2>4. QED
    BY <1>2, <2>1, <2>2, <2>3 DEF JourneyEnds
<1>3. CASE JourneyCancelled(r)
  BY <1>3 DEF JourneyCancelled
<1>4. CASE CancelCleanup(r)
  <2>1. PICK s \in {"CANCELLED", "BLOCKED_ENVIRONMENT", "FAILED_PLATFORM"},
             seal \in BOOLEAN :
          /\ outcome' = [outcome EXCEPT ![r] = CancelOutcome(s, seal)]
          /\ \/ FinishCancel(r, CancelStatus(s, seal), seal)
             \/ StoreMayFail /\ UNCHANGED <<status, cancelReq, sealed>>
    BY <1>4 DEF CancelCleanup
  <2>2. CancelOutcome(s, seal) \in Outcome
    BY DEF CancelOutcome, Outcome
  <2>3. outcome' \in [Run -> Outcome]
    BY <2>1, <2>2
  <2>4. CancelStatus(s, seal) \in Status
    BY DEF CancelStatus
  <2>5. /\ status' \in [Run -> Status]
        /\ cancelReq' \in [Run -> BOOLEAN]
        /\ sealed' \in [Run -> BOOLEAN]
    <3>1. CASE FinishCancel(r, CancelStatus(s, seal), seal)
      BY <2>4, <3>1 DEF FinishCancel
    <3>2. CASE UNCHANGED <<status, cancelReq, sealed>>
      BY <3>2
    <3>3. QED
      BY <2>1, <3>1, <3>2
  <2>6. QED
    BY <1>4, <2>3, <2>5 DEF CancelCleanup
<1>5. CASE AfterJourney(r)
  <2>1. CASE Exit(r) /\ UNCHANGED status
    BY <1>5, <2>1, ExitTypes DEF AfterJourney
  <2>2. CASE /\ UpdateStatus(r, "COLLECTING")
             /\ Continue(r, "collect")
             /\ UNCHANGED <<scans, outcome>>
    BY <1>5, <2>2 DEF AfterJourney
  <2>3. QED
    BY <1>5, <2>1, <2>2 DEF AfterJourney
<1>6. CASE CompleteRecord(r)
  BY <1>6, ExitTypes, CompletedType DEF CompleteRecord
<1>7. CASE WorkerRaises(r)
  BY <1>7 DEF WorkerRaises
<1>8. CASE CompleteFailed(r)
  BY <1>8, ExitTypes DEF CompleteFailed
<1>9. CASE WorkerDies(r)
  BY <1>9, ExitTypes DEF WorkerDies
<1>10. QED
  BY <1>1, <1>2, <1>3, <1>4, <1>5, <1>6, <1>7, <1>8, <1>9

\* Every variable of the service keeps its type.
THEOREM TypeInvariant == Spec => []TypeOK
<1>1. TypeOK /\ [QueueNext]_vars => TypeOK'
  <2> SUFFICES ASSUME TypeOK, [QueueNext]_vars
               PROVE  TypeOK'
    OBVIOUS
  <2>1. CASE Calls
    BY <2>1, CallTypes, OutsideTypes DEF Calls
  <2>2. CASE \E c \in Client : ClientStep(c)
    BY <2>2, ClientTypes DEF ClientStep
  <2>3. CASE \E r \in Run : WorkerStep(r)
    BY <2>3, WaitingTypes, PlayingTypes DEF WorkerStep, Scan
  <2>4. CASE Environment
    BY <2>4, ClientTypes, WaitingTypes, PlayingTypes, OutsideTypes
    DEF Environment
  <2>5. CASE UNCHANGED vars
    BY <2>5 DEF vars, records, scans, workers, clients, TypeOK
  <2>6. QED
    BY <2>1, <2>2, <2>3, <2>4, <2>5 DEF QueueNext
<1>2. QED
  BY InitTypeOK, <1>1, PTL DEF Spec

-----------------------------------------------------------------------------
(* The game slot                                                            *)

\* Without runs there is nothing to order.
LEMMA InitSlotInv == Init => SlotInv
  BY DEF Init, SlotInv, ProcessesConsistent, EarlierOrdersRuns, SpawnsOwnRun,
        SettlesTheGone, StatusFollowsWorker, OverlooksNone, InGame, Live, IsTerminal,
        Terminal, Created

\* Calls of the service.
LEMMA CallSlot ==
  ASSUME TypeOK, TypeOK', SlotInv, NEW c \in Client, NEW r \in Run,
         \/ \E key \in Key \cup {None} : SubmitRun(c, r, key)
         \/ \E old \in Run : ResumeRun(c, r, old)
         \/ ReapLoad(c, r)
  PROVE  SlotInv'
<1> USE QueueAssumption
    DEF TypeOK, SlotInv, ProcessesConsistent, EarlierOrdersRuns, SpawnsOwnRun,
        SettlesTheGone, StatusFollowsWorker, OverlooksNone, InGame, Live, IsTerminal,
        Terminal, Created, records, scans, workers, clients,
        Create, Goto
<1>1. CASE \E key \in Key \cup {None} : SubmitRun(c, r, key)
  BY <1>1 DEF SubmitRun
<1>2. CASE \E old \in Run : ResumeRun(c, r, old)
  BY <1>2 DEF ResumeRun
<1>3. CASE ReapLoad(c, r)
  BY <1>3 DEF ReapLoad
<1>4. QED
  BY <1>1, <1>2, <1>3

\* What happens without a client.
LEMMA OutsideSlot ==
  ASSUME TypeOK, TypeOK', SlotInv, ~StaleWhileSpawned,
         \/ PauseQueue
         \/ ResumeQueue
         \/ \E r \in Run : RequestCancel(r)
         \/ \E r \in Run : Age(r)
  PROVE  SlotInv'
<1> USE QueueAssumption
    DEF TypeOK, SlotInv, ProcessesConsistent, EarlierOrdersRuns, SpawnsOwnRun,
        SettlesTheGone, StatusFollowsWorker, OverlooksNone, InGame, Live, IsTerminal,
        Terminal, Created, records, scans, workers, clients
<1>1. CASE PauseQueue
  BY <1>1 DEF PauseQueue
<1>2. CASE ResumeQueue
  BY <1>2 DEF ResumeQueue
<1>3. CASE \E r \in Run : RequestCancel(r)
  BY <1>3 DEF RequestCancel
<1>4. CASE \E r \in Run : Age(r)
  BY <1>4 DEF Age
<1>5. QED
  BY <1>1, <1>2, <1>3, <1>4

\* Steps of a client that has called.
LEMMA ClientSlot ==
  ASSUME TypeOK, TypeOK', SlotInv, NEW c \in Client,
         \/ SpawnWorker(c)
         \/ SpawnFails(c)
         \/ RecordPid(c)
         \/ ReapProbe(c)
         \/ ReapMark(c)
         \/ ClientEnds(c)
  PROVE  SlotInv'
<1> USE QueueAssumption
    DEF TypeOK, SlotInv, ProcessesConsistent, EarlierOrdersRuns, SpawnsOwnRun,
        SettlesTheGone, StatusFollowsWorker, OverlooksNone, InGame, Live, IsTerminal,
        Terminal, Created, records, scans, workers, clients,
        Goto, UpdateStatus, UpdatePid, SettleGone
<1>1. CASE SpawnWorker(c)
  BY <1>1 DEF SpawnWorker
<1>2. CASE SpawnFails(c)
  BY <1>2 DEF SpawnFails
<1>3. CASE RecordPid(c)
  BY <1>3 DEF RecordPid
<1>4. CASE ReapProbe(c)
  <2>1. UNCHANGED <<status, earlier, aged, pc, proc, todo, blocked, victim>>
    BY <1>4 DEF ReapProbe
  <2>2. CASE proc[crun[c]] = "dead" /\ Goto(c, "mark", crun[c])
    BY <1>4, <2>1, <2>2 DEF ReapProbe
  <2>3. CASE Goto(c, "idle", None)
    BY <2>1, <2>3
  <2>4. QED
    BY <1>4, <2>2, <2>3 DEF ReapProbe
<1>5. CASE ReapMark(c)
  BY <1>5 DEF ReapMark
<1>6. CASE ClientEnds(c)
  BY <1>6 DEF ClientEnds
<1>7. QED
  BY <1>1, <1>2, <1>3, <1>4, <1>5, <1>6

\* Steps of a worker that waits for its turn.
LEMMA WaitingSlot ==
  ASSUME TypeOK, TypeOK', SlotInv, NEW r \in Run,
         \/ PollCancelled(r)
         \/ PollList(r)
         \/ \E o \in Run : ScanStale(r, o)
         \/ \E o \in Run : ScanGone(r, o)
         \/ \E o \in Run : ScanActive(r, o)
         \/ ScanMark(r)
         \/ Claim(r)
         \/ WaitOn(r)
         \/ WaitTimesOut(r)
  PROVE  SlotInv'
<1> USE QueueAssumption
    DEF TypeOK, SlotInv, ProcessesConsistent, EarlierOrdersRuns, SpawnsOwnRun,
        SettlesTheGone, StatusFollowsWorker, OverlooksNone, InGame, Live, IsTerminal,
        Terminal, Created, records, scans, workers, clients,
        Continue, Exit, Judged, NextToJudge, UpdateStatus, UpdatePid, SettleGone
<1>1. CASE PollCancelled(r)
  BY <1>1 DEF PollCancelled
<1>2. CASE PollList(r)
  BY <1>2 DEF PollList
<1>3. CASE \E o \in Run : ScanStale(r, o)
  BY <1>3 DEF ScanStale
<1>4. CASE \E o \in Run : ScanGone(r, o)
  BY <1>4 DEF ScanGone
<1>5. CASE \E o \in Run : ScanActive(r, o)
  BY <1>5 DEF ScanActive
<1>6. CASE ScanMark(r)
  BY <1>6 DEF ScanMark
<1>7. CASE Claim(r)
  BY <1>7 DEF Claim
<1>8. CASE WaitOn(r)
  BY <1>8 DEF WaitOn
<1>9. CASE WaitTimesOut(r)
  BY <1>9 DEF WaitTimesOut
<1>10. QED
  BY <1>1, <1>2, <1>3, <1>4, <1>5, <1>6, <1>7, <1>8, <1>9

\* Steps of a worker that has had its turn.
LEMMA PlayingSlot ==
  ASSUME TypeOK, TypeOK', SlotInv, NEW r \in Run,
         \/ PublishPhases(r)
         \/ JourneyEnds(r)
         \/ JourneyCancelled(r)
         \/ CancelCleanup(r)
         \/ AfterJourney(r)
         \/ CompleteRecord(r)
         \/ WorkerRaises(r)
         \/ CompleteFailed(r)
         \/ WorkerDies(r)
  PROVE  SlotInv'
<1> USE QueueAssumption
    DEF TypeOK, SlotInv, ProcessesConsistent, EarlierOrdersRuns, SpawnsOwnRun,
        SettlesTheGone, StatusFollowsWorker, OverlooksNone, InGame, Live, IsTerminal,
        Terminal, Created, records, scans, workers, clients,
        Continue, Exit, UpdateStatus, FinishCancel
<1>1. CASE PublishPhases(r)
  BY <1>1 DEF PublishPhases
<1>2. CASE JourneyEnds(r)
  BY <1>2 DEF JourneyEnds
<1>3. CASE JourneyCancelled(r)
  BY <1>3 DEF JourneyCancelled
<1>4. CASE CancelCleanup(r)
  <2>1. PICK s \in {"CANCELLED", "BLOCKED_ENVIRONMENT", "FAILED_PLATFORM"},
             seal \in BOOLEAN :
          \/ FinishCancel(r, CancelStatus(s, seal), seal)
          \/ StoreMayFail /\ UNCHANGED <<status, cancelReq, sealed>>
    BY <1>4 DEF CancelCleanup
  <2>2. CancelStatus(s, seal) \in Terminal
    BY DEF CancelStatus
  <2>3. CASE FinishCancel(r, CancelStatus(s, seal), seal)
    BY <1>4, <2>2, <2>3 DEF CancelCleanup
  <2>4. CASE UNCHANGED <<status, cancelReq, sealed>>
    BY <1>4, <2>4 DEF CancelCleanup
  <2>5. QED
    BY <2>1, <2>3, <2>4
<1>5. CASE AfterJourney(r)
  <2>1. CASE Exit(r) /\ UNCHANGED status
    BY <1>5, <2>1 DEF AfterJourney
  <2>2. CASE /\ ~IsTerminal(r)
             /\ UpdateStatus(r, "COLLECTING")
             /\ Continue(r, "collect")
             /\ UNCHANGED <<scans, outcome>>
    BY <1>5, <2>2 DEF AfterJourney
  <2>3. QED
    BY <1>5, <2>1, <2>2 DEF AfterJourney
<1>6. CASE CompleteRecord(r)
  <2>1. Completed(outcome[r]) \in Terminal
    BY CompletedType
  <2>2. QED
    BY <1>6, <2>1 DEF CompleteRecord
<1>7. CASE WorkerRaises(r)
  BY <1>7 DEF WorkerRaises
<1>8. CASE CompleteFailed(r)
  BY <1>8 DEF CompleteFailed
<1>9. CASE WorkerDies(r)
  BY <1>9 DEF WorkerDies
<1>10. QED
  BY <1>1, <1>2, <1>3, <1>4, <1>5, <1>6, <1>7, <1>8, <1>9

\* SlotInv is an invariant if a waiting run never looks stale.
THEOREM SlotInvariant ==
  ASSUME ~StaleWhileSpawned
  PROVE  Spec => []SlotInv
<1>1. TypeOK /\ TypeOK' /\ SlotInv /\ [QueueNext]_vars => SlotInv'
  <2> SUFFICES ASSUME TypeOK, TypeOK', SlotInv, [QueueNext]_vars
               PROVE  SlotInv'
    OBVIOUS
  <2>1. CASE Calls
    BY <2>1, CallSlot, OutsideSlot DEF Calls
  <2>2. CASE \E c \in Client : ClientStep(c)
    BY <2>2, ClientSlot DEF ClientStep
  <2>3. CASE \E r \in Run : WorkerStep(r)
    BY <2>3, WaitingSlot, PlayingSlot DEF WorkerStep, Scan
  <2>4. CASE Environment
    BY <2>4, ClientSlot, WaitingSlot, PlayingSlot, OutsideSlot
    DEF Environment
  <2>5. CASE UNCHANGED vars
    BY <2>5
    DEF vars, records, scans, workers, clients, SlotInv, ProcessesConsistent,
        EarlierOrdersRuns, SpawnsOwnRun, SettlesTheGone, StatusFollowsWorker,
        OverlooksNone, InGame, Live, IsTerminal, Created
  <2>6. QED
    BY <2>1, <2>2, <2>3, <2>4, <2>5 DEF QueueNext
<1>2. QED
  BY InitSlotInv, TypeInvariant, <1>1, PTL DEF Spec

\* No two workers are in the game at the same time, whatever dies, is
\* cancelled, times out or is settled by others meanwhile, and whether or not
\* the store fails: of two runs the later one would have seen the earlier end.
THEOREM SlotIsExclusive ==
  ASSUME ~StaleWhileSpawned
  PROVE  Spec => []GameSlotExclusive
<1>1. SlotInv => GameSlotExclusive
  BY DEF SlotInv, ProcessesConsistent, EarlierOrdersRuns, StatusFollowsWorker,
         OverlooksNone, GameSlotExclusive, InGame, Created
<1>2. QED
  BY <1>1, SlotInvariant, PTL

-----------------------------------------------------------------------------
(* The service implements GameSlot                                          *)

\* What a step of one run that the others do not notice is to GameSlot.
OthersStay(r) == \A o \in Run \ {r} : StageOf(o)' = StageOf(o)

\* A run that alone changes its stage moves.
LEMMA OneMoves ==
  ASSUME NEW r \in Run, OthersStay(r), NEW from, NEW to,
         StageOf(r) = from, StageOf(r)' = to
  PROVE  Slot!Move(r, from, to)
  BY DEF OthersStay, Slot!Move

\* A step that no run notices is a stutter.
LEMMA NoneMoves ==
  ASSUME \A r \in Run : StageOf(r)' = StageOf(r), earlier' = earlier
  PROVE  UNCHANGED Slot!slotVars
  BY DEF Slot!slotVars

\* The stages are those of GameSlot.
LEMMA StageIsNamed ==
  ASSUME NEW r \in Run
  PROVE  StageOf(r) \in {"absent", "queued", "over", "playing", "lost"}
  BY DEF StageOf

\* A run that ends does so from wherever it was.
LEMMA RunEnds ==
  ASSUME NEW r \in Run, OthersStay(r), earlier' = earlier,
         StageOf(r) # "absent", StageOf(r)' = "over"
  PROVE  [Slot!Next]_Slot!slotVars
<1>1. CASE StageOf(r) = "over"
  BY <1>1, NoneMoves DEF OthersStay
<1>2. CASE StageOf(r) = "queued"
  <2>1. Slot!GiveUp(r)
    BY <1>2, OneMoves DEF Slot!GiveUp
  <2>2. QED
    BY <2>1 DEF Slot!Next
<1>3. CASE StageOf(r) = "playing"
  <2>1. Slot!Leave(r)
    BY <1>3, OneMoves DEF Slot!Leave
  <2>2. QED
    BY <2>1 DEF Slot!Next
<1>4. CASE StageOf(r) = "lost"
  <2>1. Slot!Settle(r)
    BY <1>4, OneMoves DEF Slot!Settle
  <2>2. QED
    BY <2>1 DEF Slot!Next
<1>5. QED
  BY <1>1, <1>2, <1>3, <1>4, StageIsNamed

\* Steps that leave the records' statuses alone, and the processes too but for
\* those of runs that wait or are over.
LEMMA StatusStays ==
  ASSUME status' = status, earlier' = earlier,
         \A r \in Run : \/ proc'[r] = "live" <=> proc[r] = "live"
                        \/ status[r] = "QUEUED"
                        \/ IsTerminal(r)
  PROVE  UNCHANGED Slot!slotVars
<1>1. \A r \in Run : StageOf(r)' = StageOf(r)
  BY DEF StageOf, IsTerminal
<1>2. QED
  BY <1>1, NoneMoves

\* update(status=s) with a terminal status.
LEMMA UpdateEnds ==
  ASSUME TypeOK, NEW r \in Run, NEW s \in Terminal,
         status[r] # "ABSENT", UpdateStatus(r, s), earlier' = earlier,
         \A o \in Run \ {r} : proc'[o] = "live" <=> proc[o] = "live"
  PROVE  [Slot!Next]_Slot!slotVars
<1>1. OthersStay(r)
  BY DEF OthersStay, StageOf, IsTerminal, UpdateStatus, TypeOK
<1>2. StageOf(r) # "absent"
  BY DEF StageOf
<1>3. StageOf(r)' = "over"
  BY DEF StageOf, IsTerminal, UpdateStatus, TypeOK, Terminal
<1>4. QED
  BY <1>1, <1>2, <1>3, RunEnds

\* _mark_worker_gone ends the run it settles.
LEMMA SettleEnds ==
  ASSUME TypeOK, NEW r \in Run, status[r] # "ABSENT", SettleGone(r),
         proc' = proc
  PROVE  [Slot!Next]_Slot!slotVars
<1>1. PICK s \in {"FAILED_PLATFORM", "BLOCKED_ENVIRONMENT"} : UpdateStatus(r, s)
  BY DEF SettleGone
<1>2. s \in Terminal
  BY DEF Terminal
<1>3. earlier' = earlier
  BY DEF SettleGone
<1>4. QED
  BY <1>1, <1>2, <1>3, UpdateEnds

\* A new record is a submission behind all existing ones.
LEMMA CreateSubmits ==
  ASSUME TypeOK, NEW c \in Client, NEW r \in Run, NEW key, NEW from,
         Create(c, r, key, from)
  PROVE  Slot!Next
<1>1. /\ status' = [status EXCEPT ![r] = "QUEUED"]
      /\ status[r] = "ABSENT"
      /\ proc' = proc
      /\ earlier' = [earlier EXCEPT ![r] = Created]
  BY DEF Create, workers
<1>2. OthersStay(r)
  BY <1>1 DEF OthersStay, StageOf, IsTerminal, TypeOK
<1>3. StageOf(r) = "absent" /\ StageOf(r)' = "queued"
  BY <1>1 DEF StageOf, TypeOK
<1>4. Created = {o \in Run : [q \in Run |-> StageOf(q)][o] # "absent"}
  BY DEF Created, StageOf
<1>5. Slot!Submit(r)
  BY <1>1, <1>2, <1>3, <1>4, OneMoves DEF Slot!Submit
<1>6. QED
  BY <1>5 DEF Slot!Next

\* Calls submit runs or change nothing that GameSlot sees.
LEMMA CallRefines ==
  ASSUME TypeOK, SlotInv, NEW c \in Client, NEW r \in Run,
         \/ \E key \in Key \cup {None} : SubmitRun(c, r, key)
         \/ \E old \in Run : ResumeRun(c, r, old)
         \/ ReapLoad(c, r)
  PROVE  [Slot!Next]_Slot!slotVars
<1>1. CASE \E key \in Key \cup {None} : SubmitRun(c, r, key)
  BY <1>1, CreateSubmits DEF SubmitRun
<1>2. CASE \E old \in Run : ResumeRun(c, r, old)
  BY <1>2, CreateSubmits DEF ResumeRun
<1>3. CASE ReapLoad(c, r)
  BY <1>3, StatusStays DEF ReapLoad, records, workers
<1>4. QED
  BY <1>1, <1>2, <1>3

\* Pausing, flagging and ageing are invisible to GameSlot.
LEMMA OutsideRefines ==
  ASSUME \/ PauseQueue
         \/ ResumeQueue
         \/ \E r \in Run : RequestCancel(r)
         \/ \E r \in Run : Age(r)
  PROVE  UNCHANGED Slot!slotVars
<1>1. status' = status /\ earlier' = earlier /\ proc' = proc
  BY DEF PauseQueue, ResumeQueue, RequestCancel, Age, records, workers
<1>2. QED
  BY <1>1, StatusStays

\* Clients end runs or change nothing that GameSlot sees.
LEMMA ClientRefines ==
  ASSUME TypeOK, SlotInv, NEW c \in Client,
         \/ SpawnWorker(c)
         \/ SpawnFails(c)
         \/ RecordPid(c)
         \/ ReapProbe(c)
         \/ ReapMark(c)
         \/ ClientEnds(c)
  PROVE  [Slot!Next]_Slot!slotVars
<1> USE DEF records, workers, SlotInv
<1>1. CASE SpawnWorker(c)
  <2>1. cpc[c] = "spawn" /\ crun[c] \in Run /\ status[crun[c]] = "QUEUED"
    BY <1>1 DEF SpawnWorker, SpawnsOwnRun
  <2>2. /\ status' = status
        /\ earlier' = earlier
        /\ \A r \in Run \ {crun[c]} : proc'[r] = "live" <=> proc[r] = "live"
    BY <1>1 DEF SpawnWorker, TypeOK
  <2>3. QED
    BY <2>1, <2>2, StatusStays
<1>2. CASE SpawnFails(c)
  <2>1. /\ crun[c] \in Run
        /\ status[crun[c]] # "ABSENT"
        /\ UpdateStatus(crun[c], "FAILED_PLATFORM")
        /\ earlier' = earlier
        /\ proc' = proc
    BY <1>2 DEF SpawnFails, SpawnsOwnRun
  <2>2. "FAILED_PLATFORM" \in Terminal
    BY DEF Terminal
  <2>3. QED
    BY <2>1, <2>2, UpdateEnds
<1>3. CASE RecordPid(c)
  BY <1>3, StatusStays DEF RecordPid
<1>4. CASE ReapProbe(c)
  BY <1>4, StatusStays DEF ReapProbe
<1>5. CASE ReapMark(c)
  <2>1. /\ crun[c] \in Run
        /\ proc[crun[c]] = "dead"
        /\ SettleGone(crun[c])
        /\ proc' = proc
    BY <1>5 DEF ReapMark, SpawnsOwnRun, SettlesTheGone
  <2>2. status[crun[c]] # "ABSENT"
    BY <2>1 DEF ProcessesConsistent
  <2>3. QED
    BY <2>1, <2>2, SettleEnds
<1>6. CASE ClientEnds(c)
  <2>1. /\ status' = status
        /\ earlier' = earlier
        /\ \A r \in Run : proc'[r] = "live" <=> proc[r] = "live"
    BY <1>6 DEF ClientEnds, TypeOK
  <2>2. QED
    BY <2>1, StatusStays
<1>7. QED
  BY <1>1, <1>2, <1>3, <1>4, <1>5, <1>6

\* A waiting worker settles others, gives up, or enters the game.
LEMMA WaitingRefines ==
  ASSUME TypeOK, SlotInv, NEW r \in Run,
         \/ PollCancelled(r)
         \/ PollList(r)
         \/ \E o \in Run : ScanStale(r, o)
         \/ \E o \in Run : ScanGone(r, o)
         \/ \E o \in Run : ScanActive(r, o)
         \/ ScanMark(r)
         \/ Claim(r)
         \/ WaitOn(r)
         \/ WaitTimesOut(r)
  PROVE  [Slot!Next]_Slot!slotVars
<1> USE DEF records, workers, SlotInv, Live
<1>1. CASE PollCancelled(r)
  <2>1. /\ status' = status
        /\ earlier' = earlier
        /\ status[r] = "QUEUED"
        /\ \A o \in Run \ {r} : proc'[o] = proc[o]
    BY <1>1 DEF PollCancelled, StatusFollowsWorker, Exit, TypeOK
  <2>2. QED
    BY <2>1, StatusStays
<1>2. CASE PollList(r)
  BY <1>2, StatusStays DEF PollList, Continue
<1>3. CASE \E o \in Run : ScanStale(r, o)
  <2>1. PICK o \in Run : ScanStale(r, o)
    BY <1>3
  <2>2. /\ status[o] # "ABSENT"
        /\ UpdateStatus(o, "FAILED_PLATFORM")
        /\ earlier' = earlier
        /\ proc' = proc
    BY <2>1 DEF ScanStale, ProcessesConsistent
  <2>3. "FAILED_PLATFORM" \in Terminal
    BY DEF Terminal
  <2>4. QED
    BY <2>2, <2>3, UpdateEnds
<1>4. CASE \E o \in Run : ScanGone(r, o)
  BY <1>4, StatusStays DEF ScanGone, Continue
<1>5. CASE \E o \in Run : ScanActive(r, o)
  BY <1>5, StatusStays DEF ScanActive
<1>6. CASE ScanMark(r)
  <2>1. /\ victim[r] \in Run
        /\ proc[victim[r]] = "dead"
        /\ SettleGone(victim[r])
        /\ proc' = proc
    BY <1>6 DEF ScanMark, SettlesTheGone, Continue
  <2>2. status[victim[r]] # "ABSENT"
    BY <2>1 DEF ProcessesConsistent
  <2>3. QED
    BY <2>1, <2>2, SettleEnds
<1>7. CASE Claim(r)
  <2>1. /\ status' = [status EXCEPT ![r] = "STARTING"]
        /\ status[r] = "QUEUED"
        /\ earlier' = earlier
        /\ proc' = proc
        /\ proc[r] = "live"
    BY <1>7 DEF Claim, UpdateStatus, StatusFollowsWorker, Continue
  <2>2. OthersStay(r)
    BY <2>1 DEF OthersStay, StageOf, IsTerminal, TypeOK
  <2>3. StageOf(r) = "queued" /\ StageOf(r)' = "playing"
    BY <2>1 DEF StageOf, IsTerminal, Terminal, TypeOK
  <2>4. \A o \in earlier[r] : o \in Run /\ StageOf(o) = "over"
    BY <1>7 DEF Claim, OverlooksNone, StageOf, IsTerminal, Terminal, TypeOK
  <2>5. Slot!Enter(r)
    BY <2>1, <2>2, <2>3, <2>4, OneMoves DEF Slot!Enter
  <2>6. QED
    BY <2>5 DEF Slot!Next
<1>8. CASE WaitOn(r)
  BY <1>8, StatusStays DEF WaitOn, Continue
<1>9. CASE WaitTimesOut(r)
  <2>1. /\ status[r] # "ABSENT"
        /\ UpdateStatus(r, "BLOCKED_ENVIRONMENT")
        /\ earlier' = earlier
        /\ \A o \in Run \ {r} : proc'[o] = proc[o]
    BY <1>9 DEF WaitTimesOut, StatusFollowsWorker, Exit, TypeOK
  <2>2. "BLOCKED_ENVIRONMENT" \in Terminal
    BY DEF Terminal
  <2>3. QED
    BY <2>1, <2>2, UpdateEnds
<1>10. QED
  BY <1>1, <1>2, <1>3, <1>4, <1>5, <1>6, <1>7, <1>8, <1>9

\* A worker that has had its turn: its run plays until it ends or is lost.
LEMMA PlayingRefines ==
  ASSUME TypeOK, SlotInv, NEW r \in Run,
         \/ PublishPhases(r)
         \/ JourneyEnds(r)
         \/ JourneyCancelled(r)
         \/ CancelCleanup(r)
         \/ AfterJourney(r)
         \/ CompleteRecord(r)
         \/ WorkerRaises(r)
         \/ CompleteFailed(r)
         \/ WorkerDies(r)
  PROVE  [Slot!Next]_Slot!slotVars
<1> USE DEF records, SlotInv, Live
<1>1. CASE PublishPhases(r)
  <2>1. /\ status' = [status EXCEPT ![r] = "RUNNING"]
        /\ status[r] \notin Terminal \cup {"ABSENT", "QUEUED"}
        /\ earlier' = earlier
        /\ proc' = proc
        /\ proc[r] = "live"
    BY <1>1 DEF PublishPhases, UpdateStatus, StatusFollowsWorker, Continue,
                InGame, IsTerminal, Terminal, ProcessesConsistent
  <2>2. \A o \in Run : StageOf(o)' = StageOf(o)
    BY <2>1 DEF StageOf, IsTerminal, Terminal, TypeOK
  <2>3. QED
    BY <2>1, <2>2, NoneMoves
<1>2. CASE JourneyEnds(r)
  BY <1>2, StatusStays DEF JourneyEnds, Continue
<1>3. CASE JourneyCancelled(r)
  BY <1>3, StatusStays DEF JourneyCancelled, Continue
<1>4. CASE CancelCleanup(r)
  <2>1. PICK s \in {"CANCELLED", "BLOCKED_ENVIRONMENT", "FAILED_PLATFORM"},
             seal \in BOOLEAN :
          \/ FinishCancel(r, CancelStatus(s, seal), seal)
          \/ StoreMayFail /\ UNCHANGED <<status, cancelReq, sealed>>
    BY <1>4 DEF CancelCleanup
  <2>2. earlier' = earlier /\ proc' = proc /\ status[r] # "ABSENT"
    BY <1>4 DEF CancelCleanup, Continue, ProcessesConsistent
  <2>3. CASE FinishCancel(r, CancelStatus(s, seal), seal)
    <3>1. CancelStatus(s, seal) \in Terminal
      BY DEF CancelStatus, Terminal
    <3>2. status' = [status EXCEPT ![r] = CancelStatus(s, seal)]
      BY <2>3 DEF FinishCancel
    <3>3. OthersStay(r)
      BY <2>2, <3>2 DEF OthersStay, StageOf, IsTerminal, TypeOK
    <3>4. StageOf(r) # "absent"
      BY <2>2 DEF StageOf
    <3>5. StageOf(r)' = "over"
      BY <3>1, <3>2 DEF StageOf, IsTerminal, Terminal, TypeOK
    <3>6. QED
      BY <2>2, <3>3, <3>4, <3>5, RunEnds
  <2>4. CASE UNCHANGED <<status, cancelReq, sealed>>
    BY <2>2, <2>4, StatusStays
  <2>5. QED
    BY <2>1, <2>3, <2>4
<1>5. CASE AfterJourney(r)
  <2>1. CASE IsTerminal(r) /\ Exit(r) /\ UNCHANGED status
    <3>1. earlier' = earlier /\ \A o \in Run \ {r} : proc'[o] = proc[o]
      BY <1>5, <2>1 DEF AfterJourney, Exit, TypeOK
    <3>2. QED
      BY <2>1, <3>1, StatusStays
  <2>2. CASE /\ ~IsTerminal(r)
             /\ UpdateStatus(r, "COLLECTING")
             /\ Continue(r, "collect")
    <3>1. /\ status' = [status EXCEPT ![r] = "COLLECTING"]
          /\ status[r] \notin Terminal \cup {"ABSENT", "QUEUED"}
          /\ earlier' = earlier
          /\ proc' = proc
          /\ proc[r] = "live"
      BY <1>5, <2>2 DEF AfterJourney, UpdateStatus, StatusFollowsWorker,
                        Continue, IsTerminal, Terminal, ProcessesConsistent
    <3>2. \A o \in Run : StageOf(o)' = StageOf(o)
      BY <3>1 DEF StageOf, IsTerminal, Terminal, TypeOK
    <3>3. QED
      BY <3>1, <3>2, NoneMoves
  <2>3. QED
    BY <1>5, <2>1, <2>2 DEF AfterJourney
<1>6. CASE CompleteRecord(r)
  <2>1. /\ status[r] # "ABSENT"
        /\ UpdateStatus(r, Completed(outcome[r]))
        /\ earlier' = earlier
        /\ \A o \in Run \ {r} : proc'[o] = proc[o]
    BY <1>6 DEF CompleteRecord, ProcessesConsistent, Exit, TypeOK
  <2>2. QED
    BY <2>1, CompletedType, UpdateEnds
<1>7. CASE WorkerRaises(r)
  BY <1>7, StatusStays DEF WorkerRaises
<1>8. CASE CompleteFailed(r)
  <2>1. /\ status[r] # "ABSENT"
        /\ UpdateStatus(r, "FAILED_PRODUCT")
        /\ earlier' = earlier
        /\ \A o \in Run \ {r} : proc'[o] = proc[o]
    BY <1>8 DEF CompleteFailed, ProcessesConsistent, Exit, TypeOK
  <2>2. "FAILED_PRODUCT" \in Terminal
    BY DEF Terminal
  <2>3. QED
    BY <2>1, <2>2, UpdateEnds
<1>9. CASE WorkerDies(r)
  <2>1. /\ status' = status
        /\ earlier' = earlier
        /\ proc[r] = "live"
        /\ proc'[r] # "live"
        /\ \A o \in Run \ {r} : proc'[o] = proc[o]
    BY <1>9 DEF WorkerDies, Exit, TypeOK
  <2>2. CASE status[r] = "QUEUED" \/ IsTerminal(r)
    BY <2>1, <2>2, StatusStays
  <2>3. CASE status[r] # "QUEUED" /\ ~IsTerminal(r)
    <3>1. OthersStay(r)
      BY <2>1 DEF OthersStay, StageOf, IsTerminal
    <3>2. StageOf(r) = "playing" /\ StageOf(r)' = "lost"
      BY <2>1, <2>3 DEF StageOf, IsTerminal, ProcessesConsistent
    <3>3. Slot!Die(r)
      BY <2>1, <3>1, <3>2, OneMoves DEF Slot!Die
    <3>4. QED
      BY <3>3 DEF Slot!Next
  <2>4. QED
    BY <2>2, <2>3
<1>10. QED
  BY <1>1, <1>2, <1>3, <1>4, <1>5, <1>6, <1>7, <1>8, <1>9

\* Every behaviour of the service is one of GameSlot, if a waiting run never
\* looks stale: submission order, and no way out of "over".
THEOREM ServiceImplementsGameSlot ==
  ASSUME ~StaleWhileSpawned
  PROVE  Spec => ImplementsGameSlot
<1>1. Init => Slot!Init
  BY DEF Init, Slot!Init, StageOf
<1>2. TypeOK /\ SlotInv /\ [QueueNext]_vars => [Slot!Next]_Slot!slotVars
  <2> SUFFICES ASSUME TypeOK, SlotInv, [QueueNext]_vars
               PROVE  [Slot!Next]_Slot!slotVars
    OBVIOUS
  <2>1. CASE Calls
    BY <2>1, CallRefines, OutsideRefines DEF Calls
  <2>2. CASE \E c \in Client : ClientStep(c)
    BY <2>2, ClientRefines DEF ClientStep
  <2>3. CASE \E r \in Run : WorkerStep(r)
    BY <2>3, WaitingRefines, PlayingRefines DEF WorkerStep, Scan
  <2>4. CASE Environment
    BY <2>4, ClientRefines, WaitingRefines, PlayingRefines, OutsideRefines
    DEF Environment
  <2>5. CASE UNCHANGED vars
    BY <2>5, StatusStays DEF vars, records, workers
  <2>6. QED
    BY <2>1, <2>2, <2>3, <2>4, <2>5 DEF QueueNext
<1>3. QED
  BY <1>1, <1>2, TypeInvariant, SlotInvariant, PTL
  DEF Spec, ImplementsGameSlot, Slot!Spec

-----------------------------------------------------------------------------
(* Cancellation                                                             *)

\* Only its own worker makes a run CANCELLED, as the last thing it does in the
\* game; nobody can start that worker again.
CancelInv ==
    /\ \A r \in Run :
          /\ proc[r] = "live" => pc[r] # "none"
          /\ status[r] = "ABSENT" => pc[r] = "none"
          /\ status[r] = "CANCELLED" => pc[r] \in {"ended", "fail", "exit"}
    /\ \A c \in Client : cpc[c] = "spawn" =>
          /\ crun[c] \in Run
          /\ status[crun[c]] # "ABSENT"
          /\ pc[crun[c]] = "none"
          /\ \A d \in Client : cpc[d] = "spawn" /\ crun[d] = crun[c] => d = c

CancelledStays(o) == status[o] = "CANCELLED" => status'[o] = "CANCELLED"

\* Nothing is cancelled at first.
LEMMA InitCancelInv == Init => CancelInv
  BY DEF Init, CancelInv

\* CancelInv is kept, and a cancelled run left alone, by the calls of a client.
LEMMA CallCancel ==
  ASSUME TypeOK, TypeOK', CancelInv, NEW c \in Client, NEW r \in Run,
         \/ \E key \in Key \cup {None} : SubmitRun(c, r, key)
         \/ \E old \in Run : ResumeRun(c, r, old)
         \/ ReapLoad(c, r)
  PROVE  CancelInv' /\ \A o \in Run : CancelledStays(o)
<1> USE DEF TypeOK, CancelInv, CancelledStays, Terminal, IsTerminal, Live,
        records, scans, workers, clients,
        Create, Goto
<1>1. CASE \E key \in Key \cup {None} : SubmitRun(c, r, key)
  BY <1>1 DEF SubmitRun
<1>2. CASE \E old \in Run : ResumeRun(c, r, old)
  BY <1>2 DEF ResumeRun
<1>3. CASE ReapLoad(c, r)
  BY <1>3 DEF ReapLoad
<1>4. QED
  BY <1>1, <1>2, <1>3

\* CancelInv is kept, and a cancelled run left alone, by what happens without a client.
LEMMA OutsideCancel ==
  ASSUME TypeOK, TypeOK', CancelInv,
         \/ PauseQueue
         \/ ResumeQueue
         \/ \E r \in Run : RequestCancel(r)
         \/ \E r \in Run : Age(r)
  PROVE  CancelInv' /\ \A o \in Run : CancelledStays(o)
<1> USE DEF TypeOK, CancelInv, CancelledStays, Terminal, IsTerminal, Live,
        records, scans, workers, clients
<1>1. CASE PauseQueue
  BY <1>1 DEF PauseQueue
<1>2. CASE ResumeQueue
  BY <1>2 DEF ResumeQueue
<1>3. CASE \E r \in Run : RequestCancel(r)
  BY <1>3 DEF RequestCancel
<1>4. CASE \E r \in Run : Age(r)
  BY <1>4 DEF Age
<1>5. QED
  BY <1>1, <1>2, <1>3, <1>4

\* CancelInv is kept, and a cancelled run left alone, by the later steps of a client.
LEMMA ClientCancel ==
  ASSUME TypeOK, TypeOK', CancelInv, NEW c \in Client,
         \/ SpawnWorker(c)
         \/ SpawnFails(c)
         \/ RecordPid(c)
         \/ ReapProbe(c)
         \/ ReapMark(c)
         \/ ClientEnds(c)
  PROVE  CancelInv' /\ \A o \in Run : CancelledStays(o)
<1> USE DEF TypeOK, CancelInv, CancelledStays, Terminal, IsTerminal, Live,
        records, scans, workers, clients,
        Goto, UpdateStatus, UpdatePid, UpdateSealed, SettleGone
<1>1. CASE SpawnWorker(c)
  BY <1>1 DEF SpawnWorker
<1>2. CASE SpawnFails(c)
  BY <1>2 DEF SpawnFails
<1>3. CASE RecordPid(c)
  BY <1>3 DEF RecordPid
<1>4. CASE ReapProbe(c)
  BY <1>4 DEF ReapProbe
<1>5. CASE ReapMark(c)
  BY <1>5 DEF ReapMark
<1>6. CASE ClientEnds(c)
  BY <1>6 DEF ClientEnds
<1>7. QED
  BY <1>1, <1>2, <1>3, <1>4, <1>5, <1>6

\* CancelInv is kept, and a cancelled run left alone, by a worker that waits for its turn.
LEMMA WaitingCancel ==
  ASSUME TypeOK, TypeOK', CancelInv, NEW r \in Run,
         \/ PollCancelled(r)
         \/ PollList(r)
         \/ \E o \in Run : ScanStale(r, o)
         \/ \E o \in Run : ScanGone(r, o)
         \/ \E o \in Run : ScanActive(r, o)
         \/ ScanMark(r)
         \/ Claim(r)
         \/ WaitOn(r)
         \/ WaitTimesOut(r)
  PROVE  CancelInv' /\ \A o \in Run : CancelledStays(o)
<1> USE DEF TypeOK, CancelInv, CancelledStays, Terminal, IsTerminal, Live,
        records, scans, workers, clients,
        Continue, Exit, UpdateStatus, UpdatePid, UpdateSealed, SettleGone
<1>1. CASE PollCancelled(r)
  BY <1>1 DEF PollCancelled
<1>2. CASE PollList(r)
  BY <1>2 DEF PollList
<1>3. CASE \E o \in Run : ScanStale(r, o)
  BY <1>3 DEF ScanStale
<1>4. CASE \E o \in Run : ScanGone(r, o)
  BY <1>4 DEF ScanGone
<1>5. CASE \E o \in Run : ScanActive(r, o)
  BY <1>5 DEF ScanActive
<1>6. CASE ScanMark(r)
  BY <1>6 DEF ScanMark
<1>7. CASE Claim(r)
  BY <1>7 DEF Claim
<1>8. CASE WaitOn(r)
  BY <1>8 DEF WaitOn
<1>9. CASE WaitTimesOut(r)
  BY <1>9 DEF WaitTimesOut
<1>10. QED
  BY <1>1, <1>2, <1>3, <1>4, <1>5, <1>6, <1>7, <1>8, <1>9

\* CancelInv is kept, and a cancelled run left alone, by a worker that has had its turn.
LEMMA PlayingCancel ==
  ASSUME TypeOK, TypeOK', CancelInv, NEW r \in Run,
         \/ PublishPhases(r)
         \/ JourneyEnds(r)
         \/ JourneyCancelled(r)
         \/ CancelCleanup(r)
         \/ AfterJourney(r)
         \/ CompleteRecord(r)
         \/ WorkerRaises(r)
         \/ CompleteFailed(r)
         \/ WorkerDies(r)
  PROVE  CancelInv' /\ \A o \in Run : CancelledStays(o)
<1> USE DEF TypeOK, CancelInv, CancelledStays, Terminal, IsTerminal, Live,
        records, scans, workers, clients,
        Continue, Exit, UpdateStatus, UpdateSealed, FinishCancel
<1>1. CASE PublishPhases(r)
  BY <1>1 DEF PublishPhases
<1>2. CASE JourneyEnds(r)
  BY <1>2 DEF JourneyEnds
<1>3. CASE JourneyCancelled(r)
  BY <1>3 DEF JourneyCancelled
<1>4. CASE CancelCleanup(r)
  <2>1. PICK s \in {"CANCELLED", "BLOCKED_ENVIRONMENT", "FAILED_PLATFORM"},
             seal \in BOOLEAN :
          \/ FinishCancel(r, CancelStatus(s, seal), seal)
          \/ StoreMayFail /\ UNCHANGED <<status, cancelReq, sealed>>
    BY <1>4 DEF CancelCleanup
  <2>2. CancelStatus(s, seal) \in Terminal
    BY DEF CancelStatus
  <2>3. CASE FinishCancel(r, CancelStatus(s, seal), seal)
    <3>1. /\ proc[r] = "live" /\ pc[r] = "cleanup"
          /\ status' = [status EXCEPT ![r] = CancelStatus(s, seal)]
          /\ pc' = [pc EXCEPT ![r] = "ended"]
          /\ proc' = proc /\ cpc' = cpc /\ crun' = crun
      BY <1>4, <2>3 DEF CancelCleanup
    <3>2. CancelInv'
      BY <2>2, <3>1
    <3>3. \A o \in Run : CancelledStays(o)
      BY <3>1
    <3>4. QED
      BY <3>2, <3>3
  <2>4. CASE UNCHANGED <<status, cancelReq, sealed>>
    BY <1>4, <2>4 DEF CancelCleanup
  <2>5. QED
    BY <2>1, <2>3, <2>4
<1>5. CASE AfterJourney(r)
  BY <1>5 DEF AfterJourney
<1>6. CASE CompleteRecord(r)
  <2>1. Completed(outcome[r]) \in Terminal \ {"CANCELLED"}
    BY DEF Completed
  <2>2. QED
    BY <1>6, <2>1 DEF CompleteRecord
<1>7. CASE WorkerRaises(r)
  BY <1>7 DEF WorkerRaises
<1>8. CASE CompleteFailed(r)
  BY <1>8 DEF CompleteFailed
<1>9. CASE WorkerDies(r)
  BY <1>9 DEF WorkerDies
<1>10. QED
  BY <1>1, <1>2, <1>3, <1>4, <1>5, <1>6, <1>7, <1>8, <1>9

\* The steps of the service together.
LEMMA NextCancel ==
  TypeOK /\ TypeOK' /\ CancelInv /\ [QueueNext]_vars
    => CancelInv' /\ \A o \in Run : CancelledStays(o)
<1> SUFFICES ASSUME TypeOK, TypeOK', CancelInv, [QueueNext]_vars
             PROVE  CancelInv' /\ \A o \in Run : CancelledStays(o)
  OBVIOUS
<1>1. CASE Calls
  BY <1>1, CallCancel, OutsideCancel DEF Calls
<1>2. CASE \E c \in Client : ClientStep(c)
  BY <1>2, ClientCancel DEF ClientStep
<1>3. CASE \E r \in Run : WorkerStep(r)
  BY <1>3, WaitingCancel, PlayingCancel DEF WorkerStep, Scan
<1>4. CASE Environment
  BY <1>4, ClientCancel, WaitingCancel, PlayingCancel, OutsideCancel
  DEF Environment
<1>5. CASE UNCHANGED vars
  BY <1>5 DEF vars, records, scans, workers, clients, CancelInv,
    CancelledStays
<1>6. QED
  BY <1>1, <1>2, <1>3, <1>4, <1>5 DEF QueueNext

\* A cancelled run stays cancelled: no late status query, no waiting worker
\* that had listed it earlier, and not its own worker, writes anything else
\* (the guard in RunStore.update, and the one caller of finish_cancel).
THEOREM CancellationIsFinal == Spec => CancelledIsFinal
<1>1. /\ TypeOK /\ TypeOK' /\ CancelInv /\ [QueueNext]_vars
      => CancelInv'
  BY NextCancel
<1>2. /\ TypeOK /\ TypeOK' /\ CancelInv /\ [QueueNext]_vars
      => [\A r \in Run : status[r] = "CANCELLED" => status'[r] = "CANCELLED"]_vars
  BY NextCancel DEF CancelledStays
<1>3. QED
  BY InitCancelInv, TypeInvariant, <1>1, <1>2, PTL DEF Spec, CancelledIsFinal

-----------------------------------------------------------------------------
(* Resumption                                                               *)

\* What a step may do to a run that is over, and to the origin of a run.
EndedStays(o) == IsTerminal(o) => IsTerminal(o)' /\ (sealed[o] => sealed'[o])

OriginIsSettled(o) ==
    \/ resumedFrom'[o] \in {resumedFrom[o], None}
    \/ IsTerminal(resumedFrom'[o]) /\ sealed[resumedFrom'[o]]

SettledStep == \A o \in Run : EndedStays(o) /\ OriginIsSettled(o)

\* Runs that are over are left over and sealed by the calls of a client.
LEMMA CallSettled ==
  ASSUME TypeOK, TypeOK', SlotInv, NEW c \in Client, NEW r \in Run,
         \/ \E key \in Key \cup {None} : SubmitRun(c, r, key)
         \/ \E old \in Run : ResumeRun(c, r, old)
         \/ ReapLoad(c, r)
  PROVE  SettledStep
<1> USE DEF TypeOK, SlotInv, ProcessesConsistent, SpawnsOwnRun, SettlesTheGone,
        StatusFollowsWorker, InGame, SettledStep, EndedStays, OriginIsSettled,
        Terminal, IsTerminal, Live, records, scans, workers, clients,
        Create, Goto
<1>1. CASE \E key \in Key \cup {None} : SubmitRun(c, r, key)
  BY <1>1 DEF SubmitRun
<1>2. CASE \E old \in Run : ResumeRun(c, r, old)
  <2>1. PICK old \in Run : ResumeRun(c, r, old)
    BY <1>2
  <2>2. /\ status[r] = "ABSENT"
        /\ status' = [status EXCEPT ![r] = "QUEUED"]
        /\ sealed' = sealed
    BY <2>1 DEF ResumeRun
  <2>3. \A o \in Run : EndedStays(o)
    BY <2>2
  <2>4. /\ resumedFrom' = [resumedFrom EXCEPT ![r] = old]
        /\ IsTerminal(old) /\ sealed[old]
    BY <2>1 DEF ResumeRun, Resumable
  <2>5. \A o \in Run : OriginIsSettled(o)
    BY <2>4
  <2>6. QED
    BY <2>3, <2>5
<1>3. CASE ReapLoad(c, r)
  BY <1>3 DEF ReapLoad
<1>4. QED
  BY <1>1, <1>2, <1>3

\* Runs that are over are left over and sealed by what happens without a client.
LEMMA OutsideSettled ==
  ASSUME TypeOK, TypeOK', SlotInv,
         \/ PauseQueue
         \/ ResumeQueue
         \/ \E r \in Run : RequestCancel(r)
         \/ \E r \in Run : Age(r)
  PROVE  SettledStep
<1> USE DEF TypeOK, SlotInv, ProcessesConsistent, SpawnsOwnRun, SettlesTheGone,
        StatusFollowsWorker, InGame, SettledStep, EndedStays, OriginIsSettled,
        Terminal, IsTerminal, Live, records, scans, workers, clients
<1>1. CASE PauseQueue
  BY <1>1 DEF PauseQueue
<1>2. CASE ResumeQueue
  BY <1>2 DEF ResumeQueue
<1>3. CASE \E r \in Run : RequestCancel(r)
  BY <1>3 DEF RequestCancel
<1>4. CASE \E r \in Run : Age(r)
  BY <1>4 DEF Age
<1>5. QED
  BY <1>1, <1>2, <1>3, <1>4

\* Runs that are over are left over and sealed by the later steps of a client.
LEMMA ClientSettled ==
  ASSUME TypeOK, TypeOK', SlotInv, NEW c \in Client,
         \/ SpawnWorker(c)
         \/ SpawnFails(c)
         \/ RecordPid(c)
         \/ ReapProbe(c)
         \/ ReapMark(c)
         \/ ClientEnds(c)
  PROVE  SettledStep
<1> USE DEF TypeOK, SlotInv, ProcessesConsistent, SpawnsOwnRun, SettlesTheGone,
        StatusFollowsWorker, InGame, SettledStep, EndedStays, OriginIsSettled,
        Terminal, IsTerminal, Live, records, scans, workers, clients,
        Goto, UpdateStatus, UpdatePid, UpdateSealed, SettleGone
<1>1. CASE SpawnWorker(c)
  BY <1>1 DEF SpawnWorker
<1>2. CASE SpawnFails(c)
  BY <1>2 DEF SpawnFails
<1>3. CASE RecordPid(c)
  BY <1>3 DEF RecordPid
<1>4. CASE ReapProbe(c)
  BY <1>4 DEF ReapProbe
<1>5. CASE ReapMark(c)
  BY <1>5 DEF ReapMark
<1>6. CASE ClientEnds(c)
  BY <1>6 DEF ClientEnds
<1>7. QED
  BY <1>1, <1>2, <1>3, <1>4, <1>5, <1>6

\* Runs that are over are left over and sealed by a worker that waits for its turn.
LEMMA WaitingSettled ==
  ASSUME TypeOK, TypeOK', SlotInv, NEW r \in Run,
         \/ PollCancelled(r)
         \/ PollList(r)
         \/ \E o \in Run : ScanStale(r, o)
         \/ \E o \in Run : ScanGone(r, o)
         \/ \E o \in Run : ScanActive(r, o)
         \/ ScanMark(r)
         \/ Claim(r)
         \/ WaitOn(r)
         \/ WaitTimesOut(r)
  PROVE  SettledStep
<1> USE DEF TypeOK, SlotInv, ProcessesConsistent, SpawnsOwnRun, SettlesTheGone,
        StatusFollowsWorker, InGame, SettledStep, EndedStays, OriginIsSettled,
        Terminal, IsTerminal, Live, records, scans, workers, clients,
        Continue, Exit, UpdateStatus, UpdatePid, UpdateSealed, SettleGone
<1>1. CASE PollCancelled(r)
  BY <1>1 DEF PollCancelled
<1>2. CASE PollList(r)
  BY <1>2 DEF PollList
<1>3. CASE \E o \in Run : ScanStale(r, o)
  BY <1>3 DEF ScanStale
<1>4. CASE \E o \in Run : ScanGone(r, o)
  BY <1>4 DEF ScanGone
<1>5. CASE \E o \in Run : ScanActive(r, o)
  BY <1>5 DEF ScanActive
<1>6. CASE ScanMark(r)
  BY <1>6 DEF ScanMark
<1>7. CASE Claim(r)
  BY <1>7 DEF Claim
<1>8. CASE WaitOn(r)
  BY <1>8 DEF WaitOn
<1>9. CASE WaitTimesOut(r)
  BY <1>9 DEF WaitTimesOut
<1>10. QED
  BY <1>1, <1>2, <1>3, <1>4, <1>5, <1>6, <1>7, <1>8, <1>9

\* Runs that are over are left over and sealed by a worker that has had its turn.
LEMMA PlayingSettled ==
  ASSUME TypeOK, TypeOK', SlotInv, NEW r \in Run,
         \/ PublishPhases(r)
         \/ JourneyEnds(r)
         \/ JourneyCancelled(r)
         \/ CancelCleanup(r)
         \/ AfterJourney(r)
         \/ CompleteRecord(r)
         \/ WorkerRaises(r)
         \/ CompleteFailed(r)
         \/ WorkerDies(r)
  PROVE  SettledStep
<1> USE DEF TypeOK, SlotInv, ProcessesConsistent, SpawnsOwnRun, SettlesTheGone,
        StatusFollowsWorker, InGame, SettledStep, EndedStays, OriginIsSettled,
        Terminal, IsTerminal, Live, records, scans, workers, clients,
        Continue, Exit, UpdateStatus, UpdateSealed, FinishCancel
<1>1. CASE PublishPhases(r)
  BY <1>1 DEF PublishPhases
<1>2. CASE JourneyEnds(r)
  BY <1>2 DEF JourneyEnds
<1>3. CASE JourneyCancelled(r)
  BY <1>3 DEF JourneyCancelled
<1>4. CASE CancelCleanup(r)
  <2>1. PICK s \in {"CANCELLED", "BLOCKED_ENVIRONMENT", "FAILED_PLATFORM"},
             seal \in BOOLEAN :
          \/ FinishCancel(r, CancelStatus(s, seal), seal)
          \/ StoreMayFail /\ UNCHANGED <<status, cancelReq, sealed>>
    BY <1>4 DEF CancelCleanup
  <2>2. /\ proc[r] = "live" /\ pc[r] = "cleanup"
        /\ resumedFrom' = resumedFrom
    BY <1>4 DEF CancelCleanup
  <2>3. ~IsTerminal(r)
    BY <2>2
  <2>4. QED
    BY <2>1, <2>2, <2>3
<1>5. CASE AfterJourney(r)
  BY <1>5 DEF AfterJourney
<1>6. CASE CompleteRecord(r)
  <2>1. Completed(outcome[r]) \in Terminal
    BY CompletedType
  <2>2. QED
    BY <1>6, <2>1 DEF CompleteRecord
<1>7. CASE WorkerRaises(r)
  BY <1>7 DEF WorkerRaises
<1>8. CASE CompleteFailed(r)
  BY <1>8 DEF CompleteFailed
<1>9. CASE WorkerDies(r)
  BY <1>9 DEF WorkerDies
<1>10. QED
  BY <1>1, <1>2, <1>3, <1>4, <1>5, <1>6, <1>7, <1>8, <1>9

\* The steps of the service together.
LEMMA NextSettled ==
  TypeOK /\ TypeOK' /\ SlotInv /\ [QueueNext]_vars => SettledStep
<1> SUFFICES ASSUME TypeOK, TypeOK', SlotInv, [QueueNext]_vars
             PROVE  SettledStep
  OBVIOUS
<1>1. CASE Calls
  BY <1>1, CallSettled, OutsideSettled DEF Calls
<1>2. CASE \E c \in Client : ClientStep(c)
  BY <1>2, ClientSettled DEF ClientStep
<1>3. CASE \E r \in Run : WorkerStep(r)
  BY <1>3, WaitingSettled, PlayingSettled DEF WorkerStep, Scan
<1>4. CASE Environment
  BY <1>4, ClientSettled, WaitingSettled, PlayingSettled, OutsideSettled
  DEF Environment
<1>5. CASE UNCHANGED vars
  BY <1>5 DEF vars, records, scans, workers, clients, SettledStep,
    EndedStays, OriginIsSettled, IsTerminal
<1>6. QED
  BY <1>1, <1>2, <1>3, <1>4, <1>5 DEF QueueNext

\* The original of a resumed run is over, sealed and out of the game for as
\* long as the resumed run exists (resume_precheck asks only once).
THEOREM ResumedRunIsSettled ==
  ASSUME ~StaleWhileSpawned
  PROVE  Spec => []ResumesSettledRun
<1>1. Init => ResumesSettledRun
  BY DEF Init, ResumesSettledRun
<1>2. /\ TypeOK /\ TypeOK' /\ SlotInv /\ SlotInv' /\ ResumesSettledRun
      /\ [QueueNext]_vars
      => ResumesSettledRun'
  <2> SUFFICES ASSUME TypeOK, TypeOK', SlotInv, SlotInv', ResumesSettledRun,
                      [QueueNext]_vars,
                      NEW r \in Run, NEW q \in Run, resumedFrom'[r] = q
               PROVE  IsTerminal(q)' /\ sealed'[q] /\ ~InGame(q)'
    BY DEF ResumesSettledRun, TypeOK
  <2>1. SettledStep
    BY NextSettled
  <2>2. IsTerminal(q) /\ sealed[q]
    BY <2>1, QueueAssumption DEF SettledStep, OriginIsSettled, ResumesSettledRun
  <2>3. IsTerminal(q)' /\ sealed'[q]
    BY <2>1, <2>2 DEF SettledStep, EndedStays
  <2>4. ~InGame(q)'
    BY <2>3 DEF SlotInv, StatusFollowsWorker, InGame
  <2>5. QED
    BY <2>3, <2>4
<1>3. QED
  BY TypeInvariant, SlotInvariant, <1>1, <1>2, PTL DEF Spec

-----------------------------------------------------------------------------
(* Stopped journeys                                                         *)

\* A journey stopped by a cancellation has ended its record by itself before
\* run_journey_worker looks at it.
StoppedInv ==
    \A r \in Run : outcome[r].result = "CANCELLED" =>
        pc[r] = "ended" /\ status[r] \in Terminal \ {"PASSED"}

NeverPasses(r) == outcome[r].result = "CANCELLED" => status'[r] # "PASSED"

StoppedStep == StoppedInv' /\ \A o \in Run : NeverPasses(o)

\* The calls of a client leave stopped journeys alone.
LEMMA CallStopped ==
  ASSUME TypeOK, ~StoreMayFail, StoppedInv, NEW c \in Client, NEW r \in Run,
         \/ \E key \in Key \cup {None} : SubmitRun(c, r, key)
         \/ \E old \in Run : ResumeRun(c, r, old)
         \/ ReapLoad(c, r)
  PROVE  StoppedStep
<1> USE DEF TypeOK, StoppedInv, StoppedStep, NeverPasses, Terminal, IsTerminal, Live,
        records, scans, workers, clients,
        Create, Goto
<1>1. CASE \E key \in Key \cup {None} : SubmitRun(c, r, key)
  BY <1>1 DEF SubmitRun
<1>2. CASE \E old \in Run : ResumeRun(c, r, old)
  BY <1>2 DEF ResumeRun
<1>3. CASE ReapLoad(c, r)
  BY <1>3 DEF ReapLoad
<1>4. QED
  BY <1>1, <1>2, <1>3

\* What happens without a client leaves stopped journeys alone.
LEMMA OutsideStopped ==
  ASSUME TypeOK, ~StoreMayFail, StoppedInv,
         \/ PauseQueue
         \/ ResumeQueue
         \/ \E r \in Run : RequestCancel(r)
         \/ \E r \in Run : Age(r)
  PROVE  StoppedStep
<1> USE DEF TypeOK, StoppedInv, StoppedStep, NeverPasses, Terminal, IsTerminal, Live,
        records, scans, workers, clients,
        Created
<1>1. CASE PauseQueue
  BY <1>1 DEF PauseQueue
<1>2. CASE ResumeQueue
  BY <1>2 DEF ResumeQueue
<1>3. CASE \E r \in Run : RequestCancel(r)
  BY <1>3 DEF RequestCancel
<1>4. CASE \E r \in Run : Age(r)
  BY <1>4 DEF Age
<1>5. QED
  BY <1>1, <1>2, <1>3, <1>4

\* The later steps of a client turn a stopped run into a failure at most.
LEMMA ClientStopped ==
  ASSUME TypeOK, ~StoreMayFail, CancelInv, StoppedInv, NEW c \in Client,
         \/ SpawnWorker(c)
         \/ SpawnFails(c)
         \/ RecordPid(c)
         \/ ReapProbe(c)
         \/ ReapMark(c)
         \/ ClientEnds(c)
  PROVE  StoppedStep
<1> USE DEF TypeOK, StoppedInv, StoppedStep, NeverPasses, Terminal, IsTerminal, Live,
        records, scans, workers, clients,
        Goto, UpdateStatus, UpdatePid, UpdateSealed, SettleGone
<1>1. CASE SpawnWorker(c)
  BY <1>1 DEF SpawnWorker, CancelInv
<1>2. CASE SpawnFails(c)
  BY <1>2 DEF SpawnFails
<1>3. CASE RecordPid(c)
  BY <1>3 DEF RecordPid
<1>4. CASE ReapProbe(c)
  BY <1>4 DEF ReapProbe
<1>5. CASE ReapMark(c)
  BY <1>5 DEF ReapMark
<1>6. CASE ClientEnds(c)
  BY <1>6 DEF ClientEnds
<1>7. QED
  BY <1>1, <1>2, <1>3, <1>4, <1>5, <1>6

\* A worker that waits for its turn turns a stopped run into a failure at most.
LEMMA WaitingStopped ==
  ASSUME TypeOK, ~StoreMayFail, StoppedInv, NEW r \in Run,
         \/ PollCancelled(r)
         \/ PollList(r)
         \/ \E o \in Run : ScanStale(r, o)
         \/ \E o \in Run : ScanGone(r, o)
         \/ \E o \in Run : ScanActive(r, o)
         \/ ScanMark(r)
         \/ Claim(r)
         \/ WaitOn(r)
         \/ WaitTimesOut(r)
  PROVE  StoppedStep
<1> USE DEF TypeOK, StoppedInv, StoppedStep, NeverPasses, Terminal, IsTerminal, Live,
        records, scans, workers, clients,
        Continue, Exit, NoOutcome, UpdateStatus, UpdatePid, UpdateSealed, SettleGone
<1>1. CASE PollCancelled(r)
  BY <1>1 DEF PollCancelled
<1>2. CASE PollList(r)
  BY <1>2 DEF PollList
<1>3. CASE \E o \in Run : ScanStale(r, o)
  BY <1>3 DEF ScanStale
<1>4. CASE \E o \in Run : ScanGone(r, o)
  BY <1>4 DEF ScanGone
<1>5. CASE \E o \in Run : ScanActive(r, o)
  BY <1>5 DEF ScanActive
<1>6. CASE ScanMark(r)
  BY <1>6 DEF ScanMark
<1>7. CASE Claim(r)
  BY <1>7 DEF Claim
<1>8. CASE WaitOn(r)
  BY <1>8 DEF WaitOn
<1>9. CASE WaitTimesOut(r)
  BY <1>9 DEF WaitTimesOut
<1>10. QED
  BY <1>1, <1>2, <1>3, <1>4, <1>5, <1>6, <1>7, <1>8, <1>9

\* The worker itself ends a stopped run before it looks at the record again.
LEMMA PlayingStopped ==
  ASSUME TypeOK, ~StoreMayFail, StoppedInv, NEW r \in Run,
         \/ PublishPhases(r)
         \/ JourneyEnds(r)
         \/ JourneyCancelled(r)
         \/ CancelCleanup(r)
         \/ AfterJourney(r)
         \/ CompleteRecord(r)
         \/ WorkerRaises(r)
         \/ CompleteFailed(r)
         \/ WorkerDies(r)
  PROVE  StoppedStep
<1> USE DEF TypeOK, StoppedInv, StoppedStep, NeverPasses, Terminal, IsTerminal, Live,
        records, scans, workers, clients,
        Continue, Exit, NoOutcome, UpdateStatus
<1>1. CASE PublishPhases(r)
  BY <1>1 DEF PublishPhases
<1>2. CASE JourneyEnds(r)
  BY <1>2 DEF JourneyEnds
<1>3. CASE JourneyCancelled(r)
  BY <1>3 DEF JourneyCancelled
<1>4. CASE CancelCleanup(r)
  <2>1. PICK s \in {"CANCELLED", "BLOCKED_ENVIRONMENT", "FAILED_PLATFORM"},
             seal \in BOOLEAN :
          /\ outcome' = [outcome EXCEPT ![r] = CancelOutcome(s, seal)]
          /\ FinishCancel(r, CancelStatus(s, seal), seal)
    BY <1>4 DEF CancelCleanup
  <2>2. /\ status' = [status EXCEPT ![r] = CancelStatus(s, seal)]
        /\ pc' = [pc EXCEPT ![r] = "ended"]
    BY <1>4, <2>1 DEF CancelCleanup, FinishCancel
  <2>3. CancelStatus(s, seal) \in Terminal \ {"PASSED"}
    BY DEF CancelStatus
  <2>4. \A o \in Run \ {r} : outcome'[o] = outcome[o]
    BY <2>1
  <2>5. QED
    BY <1>4, <2>2, <2>3, <2>4 DEF CancelCleanup
<1>5. CASE AfterJourney(r)
  BY <1>5 DEF AfterJourney
<1>6. CASE CompleteRecord(r)
  BY <1>6 DEF CompleteRecord
<1>7. CASE WorkerRaises(r)
  BY <1>7 DEF WorkerRaises
<1>8. CASE CompleteFailed(r)
  BY <1>8 DEF CompleteFailed
<1>9. CASE WorkerDies(r)
  BY <1>9 DEF WorkerDies
<1>10. QED
  BY <1>1, <1>2, <1>3, <1>4, <1>5, <1>6, <1>7, <1>8, <1>9

\* A journey that a cancellation has stopped is never recorded as passed, if
\* finish_cancel can write (the run queue_cancel shows what happens otherwise).
THEOREM StoppedNeverPasses ==
  ASSUME ~StoreMayFail
  PROVE  Spec => CancelledNeverPasses
<1>1. Init => StoppedInv
  BY DEF Init, StoppedInv, NoOutcome
<1>2. TypeOK /\ CancelInv /\ StoppedInv /\ [QueueNext]_vars
      => StoppedInv' /\ [\A o \in Run : NeverPasses(o)]_vars
  <2> SUFFICES ASSUME TypeOK, CancelInv, StoppedInv, [QueueNext]_vars
               PROVE  StoppedInv' /\ (vars' = vars \/ \A o \in Run : NeverPasses(o))
    OBVIOUS
  <2>1. CASE Calls
    BY <2>1, CallStopped, OutsideStopped DEF Calls, StoppedStep
  <2>2. CASE \E c \in Client : ClientStep(c)
    BY <2>2, ClientStopped DEF ClientStep, StoppedStep
  <2>3. CASE \E r \in Run : WorkerStep(r)
    BY <2>3, WaitingStopped, PlayingStopped DEF WorkerStep, Scan, StoppedStep
  <2>4. CASE Environment
    BY <2>4, ClientStopped, WaitingStopped, PlayingStopped, OutsideStopped
    DEF Environment, StoppedStep
  <2>5. CASE UNCHANGED vars
    BY <2>5 DEF vars, records, workers, StoppedInv
  <2>6. QED
    BY <2>1, <2>2, <2>3, <2>4, <2>5 DEF QueueNext
<1>3. [\A o \in Run : NeverPasses(o)]_vars
      => [\A r \in Run : outcome[r].result = "CANCELLED" => status'[r] # "PASSED"]_vars
  BY DEF NeverPasses
<1>4. /\ TypeOK /\ TypeOK' /\ CancelInv /\ [QueueNext]_vars
      => CancelInv'
  BY NextCancel
<1>5. QED
  BY TypeInvariant, InitCancelInv, <1>1, <1>2, <1>3, <1>4, PTL
  DEF Spec, CancelledNeverPasses

-----------------------------------------------------------------------------
(* GameSlot itself: handing the slot out in the order of submission is what *)
(* keeps it exclusive.                                                      *)

VARIABLES
    slotStage, \* where each run is in its life, as GameSlot sees it
    slotAhead  \* the runs submitted before each run

Promise == INSTANCE GameSlot WITH stage <- slotStage, ahead <- slotAhead

\* The runs and their order keep their types.
SlotTypes == slotStage \in [Run -> Promise!Stage] /\ slotAhead \in [Run -> SUBSET Run]

LEMMA InitOrder == Promise!Init => SlotTypes /\ Promise!OrderInv
  BY DEF Promise!Init, SlotTypes, Promise!Stage, Promise!OrderInv, Promise!AheadIsAnOrder,
         Promise!EnteredInOrder

\* A new run is behind all others; a run that is over stays over, so nothing
\* that was true of the runs ahead ceases to be.
LEMMA OrderStep ==
  ASSUME SlotTypes, Promise!OrderInv, Promise!Next
  PROVE  SlotTypes' /\ Promise!OrderInv'
<1>1. PICK r \in Run : \/ Promise!Submit(r) \/ Promise!Enter(r) \/ Promise!GiveUp(r)
                       \/ Promise!Leave(r) \/ Promise!Die(r) \/ Promise!Settle(r)
  BY DEF Promise!Next
<1> USE DEF SlotTypes, Promise!Stage, Promise!OrderInv, Promise!AheadIsAnOrder,
            Promise!EnteredInOrder, Promise!Move
<1>2. CASE Promise!Submit(r)
  BY <1>2 DEF Promise!Submit
<1>3. CASE Promise!Enter(r)
  BY <1>3 DEF Promise!Enter
<1>4. CASE Promise!GiveUp(r)
  BY <1>4 DEF Promise!GiveUp
<1>5. CASE Promise!Leave(r)
  BY <1>5 DEF Promise!Leave
<1>6. CASE Promise!Die(r)
  BY <1>6 DEF Promise!Die
<1>7. CASE Promise!Settle(r)
  BY <1>7 DEF Promise!Settle
<1>8. QED
  BY <1>1, <1>2, <1>3, <1>4, <1>5, <1>6, <1>7

\* At most one run is in the game, and none enters while the loss of another
\* is unsettled, for every number of runs.
THEOREM OneInGameAlways == Promise!Spec => []Promise!OneInGame
<1>1. (SlotTypes /\ Promise!OrderInv) /\ [Promise!Next]_(Promise!slotVars) => (SlotTypes /\ Promise!OrderInv)'
  <2> SUFFICES ASSUME SlotTypes, Promise!OrderInv, [Promise!Next]_(Promise!slotVars)
               PROVE  SlotTypes' /\ Promise!OrderInv'
    OBVIOUS
  <2>1. CASE UNCHANGED Promise!slotVars
    BY <2>1 DEF Promise!slotVars, SlotTypes, Promise!OrderInv, Promise!AheadIsAnOrder,
                Promise!EnteredInOrder
  <2>2. QED
    BY <2>1, OrderStep
<1>2. Promise!OrderInv => Promise!OneInGame
  BY DEF Promise!OrderInv, Promise!AheadIsAnOrder, Promise!EnteredInOrder,
         Promise!OneInGame
<1>3. QED
  BY InitOrder, <1>1, <1>2, PTL DEF Promise!Spec

=============================================================================
