------------------------------- MODULE RunQueue -------------------------------
(***************************************************************************)
(* The persistent run service, core/run_service.py, with the worker of     *)
(* core/run_executor.py that drives each run and the clients (CLI commands *)
(* and the MCP server) that submit, cancel, query and resume runs.         *)
(*                                                                         *)
(* All of them are separate processes that share nothing but the record    *)
(* files.  A RunStore mutation is one step, because it runs under the      *)
(* store lock; what the code reads without the lock (list, load, the       *)
(* signal-0 probe) is a step of its own whose result may be stale when it  *)
(* is used.  Processes may die between any two steps.                      *)
(*                                                                         *)
(* Abstracted: created_at is the set `earlier` of runs created before;     *)
(* `phase`, messages, timestamps, progress and the request are left out,   *)
(* because no control depends on them; the four phase updates of a worker  *)
(* are one step; the journey is one step that chooses its outcome.         *)
(***************************************************************************)
EXTENDS Naturals, FiniteSets

CONSTANTS
    Run,           \* run identities
    Client,        \* processes that call the service
    Daemon,        \* those that outlive their calls: the MCP server
    Key,           \* idempotency keys
    None,          \* no run, no client, no key
    StaleWhileSpawned, \* may a waiting worker's run be without a pid for
                       \* stale_queue_seconds?
    StoreMayFail       \* may acquiring the store lock, or saving, fail?

ASSUME QueueAssumption ==
    /\ None \notin Run \cup Client \cup Key
    /\ Daemon \subseteq Client
    /\ StaleWhileSpawned \in BOOLEAN
    /\ StoreMayFail \in BOOLEAN

VARIABLES
    \* the records
    status, pidKnown, cancelReq, sealed, idemKey, resumedFrom, earlier,
    aged,       \* the runs created stale_queue_seconds ago or earlier
    paused,     \* whether the queue.paused marker exists
    \* the workers
    pc, proc, spawner,
    todo,       \* of the runs listed by active_before, those not yet judged
    hadPid,     \* those of them whose listed record had a pid
    blocked,    \* whether an earlier run has been found active
    victim,     \* the run _mark_worker_gone is about to settle
    outcome,    \* what run-result.json and the exit code say of the journey
    \* the clients
    cpc, crun

records == <<status, pidKnown, cancelReq, sealed, idemKey, resumedFrom, earlier>>
scans   == <<todo, hadPid, blocked, victim>>
workers == <<pc, proc, spawner, scans, outcome>>
clients == <<cpc, crun>>
vars    == <<records, aged, paused, workers, clients>>

-----------------------------------------------------------------------------
Terminal  == {"PASSED", "FAILED_PRODUCT", "FAILED_PLATFORM",
              "BLOCKED_ENVIRONMENT", "CANCELLED"}
Resumable == {"CANCELLED", "FAILED_PLATFORM", "BLOCKED_ENVIRONMENT"}
Status    == {"ABSENT", "QUEUED", "STARTING", "RUNNING", "COLLECTING"}
             \cup Terminal

\* Control points of a worker, named for what it does next.
WorkerPc == {"none", "poll", "scan", "mark", "phases", "journey", "cleanup",
             "ended", "collect", "fail", "exit"}

ClientPc == {"idle", "spawn", "recordPid", "probe", "mark"}

\* "zombie": it has exited but its parent, a daemon, has not waited for it.
ProcState == {"none", "live", "zombie", "dead"}

Outcome == [result : Terminal \cup {"NONE"}, ok : BOOLEAN]

NoOutcome == [result |-> "NONE", ok |-> FALSE]

Created == {r \in Run : status[r] # "ABSENT"}

IsTerminal(r) == status[r] \in Terminal

Init ==
    /\ status = [r \in Run |-> "ABSENT"]
    /\ pidKnown = [r \in Run |-> FALSE]
    /\ cancelReq = [r \in Run |-> FALSE]
    /\ sealed = [r \in Run |-> FALSE]
    /\ idemKey = [r \in Run |-> None]
    /\ resumedFrom = [r \in Run |-> None]
    /\ earlier = [r \in Run |-> {}]
    /\ aged = {}
    /\ paused = FALSE
    /\ pc = [r \in Run |-> "none"]
    /\ proc = [r \in Run |-> "none"]
    /\ spawner = [r \in Run |-> None]
    /\ todo = [r \in Run |-> {}]
    /\ hadPid = [r \in Run |-> {}]
    /\ blocked = [r \in Run |-> FALSE]
    /\ victim = [r \in Run |-> None]
    /\ outcome = [r \in Run |-> NoOutcome]
    /\ cpc = [c \in Client |-> "idle"]
    /\ crun = [c \in Client |-> None]

-----------------------------------------------------------------------------
(* RunStore mutations, each under the store lock.                           *)

\* Mutant for CancelledIsFinal: update without its guard.
UpdateStatusAlways(r, s) == status' = [status EXCEPT ![r] = s]

\* update(run_id, status=s): refused only if the record is CANCELLED and s is
\* not; any other terminal status is overwritten.
UpdateStatus(r, s) ==
    status' = IF status[r] = "CANCELLED" /\ s # "CANCELLED" THEN status
              ELSE [status EXCEPT ![r] = s]

\* update(run_id, evidence_sealed=b), under the same guard.
UpdateSealed(r, b) ==
    sealed' = IF status[r] = "CANCELLED" THEN sealed
              ELSE [sealed EXCEPT ![r] = b]

\* update(run_id, pid=...), under the same guard.
UpdatePid(r) ==
    pidKnown' = IF status[r] = "CANCELLED" THEN pidKnown
                ELSE [pidKnown EXCEPT ![r] = TRUE]

\* _mark_worker_gone: FAILED_PLATFORM or BLOCKED_ENVIRONMENT, depending on
\* whether the game control API answers at that moment, and sealed.
SettleGone(r) ==
    /\ \E s \in {"FAILED_PLATFORM", "BLOCKED_ENVIRONMENT"} : UpdateStatus(r, s)
    /\ UpdateSealed(r, TRUE)
    /\ UNCHANGED <<pidKnown, cancelReq, idemKey, resumedFrom, earlier>>

\* The status complete_record derives from run-result.json and the exit code.
Completed(o) ==
    IF o.result \in {"FAILED_PLATFORM", "BLOCKED_ENVIRONMENT"} THEN o.result
    ELSE IF o.ok /\ o.result # "FAILED_PRODUCT" THEN "PASSED"
    ELSE "FAILED_PRODUCT"

-----------------------------------------------------------------------------
(* Clients.                                                                 *)

Goto(c, label, r) ==
    /\ cpc' = [cpc EXCEPT ![c] = label]
    /\ crun' = [crun EXCEPT ![c] = r]

\* RunStore.create: a new record behind all the existing ones.  The request it
\* stores names the run it resumes.
Create(c, r, key, from) ==
    /\ cpc[c] = "idle"
    /\ status[r] = "ABSENT"
    /\ status' = [status EXCEPT ![r] = "QUEUED"]
    /\ idemKey' = [idemKey EXCEPT ![r] = key]
    /\ resumedFrom' = [resumedFrom EXCEPT ![r] = from]
    /\ earlier' = [earlier EXCEPT ![r] = Created]
    /\ Goto(c, "spawn", r)
    /\ UNCHANGED <<pidKnown, cancelReq, sealed, aged, paused, workers>>

\* submit_run.  A request whose key some record has returns that record and
\* changes nothing.
SubmitRun(c, r, key) ==
    /\ key = None \/ \A o \in Created : idemKey[o] # key
    /\ Create(c, r, key, None)

\* Mutant for ResumesSettledRun: whether the evidence is sealed is not asked.
ResumeRunUnsealed(c, r, old) ==
    /\ status[old] \in Resumable
    /\ Create(c, r, None, old)

\* resume_run: the new run drops the idempotency key of the old one.
ResumeRun(c, r, old) ==
    /\ status[old] \in Resumable
    /\ sealed[old]
    /\ Create(c, r, None, old)

\* spawn_worker: Popen starts the worker, and collects the exited children of
\* this very process that nobody waited for.
SpawnWorker(c) ==
    /\ cpc[c] = "spawn"
    /\ LET r == crun[c] IN
        /\ proc' = [o \in Run |->
                       IF o = r THEN "live"
                       ELSE IF spawner[o] = c /\ proc[o] = "zombie" THEN "dead"
                       ELSE proc[o]]
        /\ pc' = [pc EXCEPT ![r] = "poll"]
        /\ spawner' = [spawner EXCEPT ![r] = IF c \in Daemon THEN c ELSE None]
        /\ Goto(c, "recordPid", r)
    /\ UNCHANGED <<records, aged, paused, scans, outcome>>

\* submit_run when Popen raises OSError.
SpawnFails(c) ==
    /\ cpc[c] = "spawn"
    /\ UpdateStatus(crun[c], "FAILED_PLATFORM")
    /\ Goto(c, "idle", None)
    /\ UNCHANGED <<pidKnown, cancelReq, sealed, idemKey, resumedFrom, earlier,
                   aged, paused, workers>>

\* spawn_worker's last line, which the worker may have overtaken.
RecordPid(c) ==
    /\ cpc[c] = "recordPid"
    /\ UpdatePid(crun[c])
    /\ Goto(c, "idle", None)
    /\ UNCHANGED <<status, cancelReq, sealed, idemKey, resumedFrom, earlier,
                   aged, paused, workers>>

\* Mutant for GameSlotExclusive: the cancelled run ends here, before its worker
\* has left the game.
RequestCancelNow(r) ==
    /\ r \in Created /\ ~IsTerminal(r)
    /\ cancelReq' = [cancelReq EXCEPT ![r] = TRUE]
    /\ status' = [status EXCEPT ![r] = "CANCELLED"]
    /\ UNCHANGED <<pidKnown, sealed, idemKey, resumedFrom, earlier,
                   aged, paused, workers, clients>>

\* request_cancel: flags the run and leaves it to its worker.
RequestCancel(r) ==
    /\ r \in Created /\ ~IsTerminal(r)
    /\ cancelReq' = [cancelReq EXCEPT ![r] = TRUE]
    /\ UNCHANGED <<status, pidKnown, sealed, idemKey, resumedFrom, earlier,
                   aged, paused, workers, clients>>

\* Mutant for RunsEnd: only runs that have started are looked after.
ReapLoadStarted(c, r) ==
    /\ cpc[c] = "idle"
    /\ r \in Created /\ ~IsTerminal(r) /\ pidKnown[r]
    /\ status[r] # "QUEUED"
    /\ Goto(c, "probe", r)
    /\ UNCHANGED <<records, aged, paused, workers>>

\* reap_if_worker_gone, called by status and get_run: the unlocked load.
ReapLoad(c, r) ==
    /\ cpc[c] = "idle"
    /\ r \in Created /\ ~IsTerminal(r) /\ pidKnown[r]
    /\ Goto(c, "probe", r)
    /\ UNCHANGED <<records, aged, paused, workers>>

\* Mutant for SlotInv: whatever the probe answers, the worker counts as gone.
ReapProbeAnswered(c) ==
    /\ cpc[c] = "probe"
    /\ Goto(c, "mark", crun[c])
    /\ UNCHANGED <<records, aged, paused, workers>>

\* os.kill(pid, 0), which succeeds on a zombie.
ReapProbe(c) ==
    /\ cpc[c] = "probe"
    /\ IF proc[crun[c]] = "dead" THEN Goto(c, "mark", crun[c])
                                 ELSE Goto(c, "idle", None)
    /\ UNCHANGED <<records, aged, paused, workers>>

\* _mark_worker_gone, on the record as it was when it was loaded.
ReapMark(c) ==
    /\ cpc[c] = "mark"
    /\ SettleGone(crun[c])
    /\ Goto(c, "idle", None)
    /\ UNCHANGED <<aged, paused, workers>>

\* A client ends between two steps: killed, or by an exception (the store lock
\* timed out).  The children of a daemon that ends are waited for by init.
ClientEnds(c) ==
    /\ \/ cpc[c] # "idle"
       \/ \E r \in Run : spawner[r] = c /\ proc[r] = "zombie"
    /\ Goto(c, "idle", None)
    /\ proc' = [r \in Run |-> IF spawner[r] = c /\ proc[r] = "zombie"
                              THEN "dead" ELSE proc[r]]
    /\ spawner' = [r \in Run |-> IF spawner[r] = c THEN None ELSE spawner[r]]
    /\ UNCHANGED <<records, aged, paused, pc, scans, outcome>>

\* autotest queue pause, autotest queue resume
PauseQueue ==
    /\ ~paused
    /\ paused' = TRUE
    /\ UNCHANGED <<records, aged, workers, clients>>

ResumeQueue ==
    /\ paused
    /\ paused' = FALSE
    /\ UNCHANGED <<records, aged, workers, clients>>

\* stale_queue_seconds pass since the run was created.  Either it has no worker
\* and nobody is about to spawn one; or, if StaleWhileSpawned, its submitter
\* has not recorded the pid (it died, or the store refused) and its worker, who
\* records it on its turn, has been waiting all the time.
Age(r) ==
    /\ r \in Created \ aged
    /\ \/ /\ pc[r] = "none"
          /\ \A c \in Client : cpc[c] = "spawn" => crun[c] # r
       \/ /\ StaleWhileSpawned
          /\ pc[r] = "poll"
          /\ paused \/ \E o \in earlier[r] : ~IsTerminal(o)
    /\ aged' = aged \cup {r}
    /\ UNCHANGED <<records, paused, workers, clients>>

-----------------------------------------------------------------------------
(* Workers.                                                                 *)

Live(r, label) == proc[r] = "live" /\ pc[r] = label

Continue(r, label) ==
    /\ pc' = [pc EXCEPT ![r] = label]
    /\ UNCHANGED <<proc, spawner>>

\* The process of r ends, and with it what it had read; a daemon that spawned
\* it has yet to wait for it.
Exit(r) ==
    /\ pc' = [pc EXCEPT ![r] = "exit"]
    /\ proc' = [proc EXCEPT ![r] =
                   IF spawner[r] = None THEN "dead" ELSE "zombie"]
    /\ todo' = [todo EXCEPT ![r] = {}]
    /\ hadPid' = [hadPid EXCEPT ![r] = {}]
    /\ blocked' = [blocked EXCEPT ![r] = FALSE]
    /\ victim' = [victim EXCEPT ![r] = None]
    /\ outcome' = [outcome EXCEPT ![r] = NoOutcome]
    /\ UNCHANGED spawner

\* wait_for_turn: RunCancelled if the record says so.
PollCancelled(r) ==
    /\ Live(r, "poll")
    /\ cancelReq[r] \/ status[r] = "CANCELLED"
    /\ Exit(r)
    /\ UNCHANGED <<records, aged, paused, clients>>

\* wait_for_turn: not paused, so active_before lists the unfinished runs.
PollList(r) ==
    /\ Live(r, "poll")
    /\ ~cancelReq[r] /\ status[r] # "CANCELLED"
    /\ ~paused
    /\ LET before == {o \in earlier[r] : ~IsTerminal(o)} IN
        /\ todo' = [todo EXCEPT ![r] = before]
        /\ hadPid' = [hadPid EXCEPT ![r] = {o \in before : pidKnown[o]}]
    /\ Continue(r, "scan")
    /\ UNCHANGED <<records, aged, paused, blocked, victim, outcome, clients>>

\* The next run active_before judges: the oldest of those that are left.
NextToJudge(r, o) == o \in todo[r] /\ earlier[o] \cap todo[r] = {}

Judged(r, o) ==
    /\ todo' = [todo EXCEPT ![r] = @ \ {o}]
    /\ hadPid' = [hadPid EXCEPT ![r] = @ \ {o}]

\* A listed run without a pid is settled if it is old enough ...
ScanStale(r, o) ==
    /\ Live(r, "scan") /\ NextToJudge(r, o)
    /\ o \notin hadPid[r] /\ o \in aged
    /\ UpdateStatus(o, "FAILED_PLATFORM")
    /\ Judged(r, o)
    /\ UNCHANGED <<pidKnown, cancelReq, sealed, idemKey, resumedFrom, earlier,
                   aged, paused, pc, proc, spawner, blocked, victim, outcome,
                   clients>>

\* ... one whose process is gone is about to be ...
ScanGone(r, o) ==
    /\ Live(r, "scan") /\ NextToJudge(r, o)
    /\ o \in hadPid[r] /\ proc[o] = "dead"
    /\ Judged(r, o)
    /\ victim' = [victim EXCEPT ![r] = o]
    /\ Continue(r, "mark")
    /\ UNCHANGED <<records, aged, paused, blocked, outcome, clients>>

\* ... and any other is active.
ScanActive(r, o) ==
    /\ Live(r, "scan") /\ NextToJudge(r, o)
    /\ IF o \in hadPid[r] THEN proc[o] # "dead" ELSE o \notin aged
    /\ Judged(r, o)
    /\ blocked' = [blocked EXCEPT ![r] = TRUE]
    /\ UNCHANGED <<records, aged, paused, pc, proc, spawner, victim, outcome,
                   clients>>

ScanMark(r) ==
    /\ Live(r, "mark")
    /\ SettleGone(victim[r])
    /\ victim' = [victim EXCEPT ![r] = None]
    /\ Continue(r, "scan")
    /\ UNCHANGED <<aged, paused, todo, hadPid, blocked, outcome, clients>>

\* Mutant for ImplementsGameSlot: an active run ahead does not hold this one up.
ClaimPastActive(r) ==
    /\ Live(r, "scan") /\ todo[r] = {}
    /\ UpdateStatus(r, "STARTING")
    /\ UpdatePid(r)
    /\ Continue(r, "phases")
    /\ UNCHANGED <<cancelReq, sealed, idemKey, resumedFrom, earlier, aged,
                   paused, scans, outcome, clients>>

\* Its turn: the worker takes the slot.  The status it has at this moment is
\* not looked at again.
Claim(r) ==
    /\ Live(r, "scan") /\ todo[r] = {} /\ ~blocked[r]
    /\ UpdateStatus(r, "STARTING")
    /\ UpdatePid(r)
    /\ Continue(r, "phases")
    /\ UNCHANGED <<cancelReq, sealed, idemKey, resumedFrom, earlier, aged,
                   paused, scans, outcome, clients>>

\* Not its turn: sleep and poll again.
WaitOn(r) ==
    /\ Live(r, "scan") /\ todo[r] = {} /\ blocked[r]
    /\ blocked' = [blocked EXCEPT ![r] = FALSE]
    /\ Continue(r, "poll")
    /\ UNCHANGED <<records, aged, paused, todo, hadPid, victim, outcome,
                   clients>>

\* Not its turn, or paused, and the waiting time is over.
WaitTimesOut(r) ==
    /\ \/ Live(r, "scan") /\ todo[r] = {} /\ blocked[r]
       \/ Live(r, "poll") /\ paused /\ ~cancelReq[r]
    /\ UpdateStatus(r, "BLOCKED_ENVIRONMENT")
    /\ Exit(r)
    /\ UNCHANGED <<pidKnown, cancelReq, sealed, idemKey, resumedFrom, earlier,
                   aged, paused, clients>>

\* run_journey_worker publishes PRECHECK, PREPARING, STARTING and RUNNING.
PublishPhases(r) ==
    /\ Live(r, "phases")
    /\ UpdateStatus(r, "RUNNING")
    /\ Continue(r, "journey")
    /\ UNCHANGED <<pidKnown, cancelReq, sealed, idemKey, resumedFrom, earlier,
                   aged, paused, scans, outcome, clients>>

\* The journey ends by itself, possibly with a cancellation nobody has looked
\* at; a pass also records that its evidence is sealed, if the store lets it.
JourneyEnds(r) ==
    /\ Live(r, "journey")
    /\ \E s \in Terminal \ {"CANCELLED"} :
        /\ outcome' = [outcome EXCEPT ![r] = [result |-> s, ok |-> s = "PASSED"]]
        /\ IF s = "PASSED"
             THEN UpdateSealed(r, TRUE) \/ (StoreMayFail /\ UNCHANGED sealed)
             ELSE UNCHANGED sealed
    /\ Continue(r, "ended")
    /\ UNCHANGED <<status, pidKnown, cancelReq, idemKey, resumedFrom, earlier,
                   aged, paused, scans, clients>>

\* The journey finds cancel_requested before one of its steps.
JourneyCancelled(r) ==
    /\ Live(r, "journey") /\ cancelReq[r]
    /\ Continue(r, "cleanup")
    /\ UNCHANGED <<records, aged, paused, scans, outcome, clients>>

\* Mutant for CancelledNeverPasses: the status is left to run_journey_worker.
FinishCancelLater(r, s, seal) ==
    /\ cancelReq' = [cancelReq EXCEPT ![r] = TRUE]
    /\ sealed' = [sealed EXCEPT ![r] = seal]
    /\ UNCHANGED status

\* finish_cancel: it writes the status whatever the record says.
FinishCancel(r, s, seal) ==
    /\ status' = [status EXCEPT ![r] = s]
    /\ cancelReq' = [cancelReq EXCEPT ![r] = TRUE]
    /\ sealed' = [sealed EXCEPT ![r] = seal]

\* The run-result.json and the exit code of a cancelled journey, and the status
\* finish_cancel derives for it: not sealing the evidence is a failure.
CancelOutcome(s, seal) == [result |-> s, ok |-> s = "CANCELLED" /\ seal]

\* Mutant for TypeOK: the reason of the failure is taken for the status.
CancelStatusReason(s, seal) ==
    IF s = "CANCELLED" /\ ~seal THEN "CANCEL_EVIDENCE_FAILED" ELSE s

CancelStatus(s, seal) ==
    IF s = "CANCELLED" /\ ~seal THEN "FAILED_PLATFORM" ELSE s

\* The cancellation path of JourneyExecutor.execute: restart the game to a
\* clean main menu (or not), write and seal the evidence (or not), then
\* finish_cancel, whose failure is only printed.
CancelCleanup(r) ==
    /\ Live(r, "cleanup")
    /\ \E s \in {"CANCELLED", "BLOCKED_ENVIRONMENT", "FAILED_PLATFORM"},
          seal \in BOOLEAN :
        /\ outcome' = [outcome EXCEPT ![r] = CancelOutcome(s, seal)]
        /\ \/ FinishCancel(r, CancelStatus(s, seal), seal)
           \/ StoreMayFail /\ UNCHANGED <<status, cancelReq, sealed>>
    /\ Continue(r, "ended")
    /\ UNCHANGED <<pidKnown, idemKey, resumedFrom, earlier, aged, paused,
                   scans, clients>>

\* Back in run_journey_worker: a record finish_cancel has ended is left alone.
\* The load and the update are one step: while the worker lives nobody else ends
\* its run (SettlesTheGone), so nothing can come between them.
AfterJourney(r) ==
    /\ Live(r, "ended")
    /\ \/ /\ IsTerminal(r)
          /\ Exit(r)
          /\ UNCHANGED status
       \/ /\ ~IsTerminal(r)
          /\ UpdateStatus(r, "COLLECTING")
          /\ Continue(r, "collect")
          /\ UNCHANGED <<scans, outcome>>
    /\ UNCHANGED <<pidKnown, cancelReq, sealed, idemKey, resumedFrom, earlier,
                   aged, paused, clients>>

CompleteRecord(r) ==
    /\ Live(r, "collect")
    /\ UpdateStatus(r, Completed(outcome[r]))
    /\ Exit(r)
    /\ UNCHANGED <<pidKnown, cancelReq, sealed, idemKey, resumedFrom, earlier,
                   aged, paused, clients>>

\* An exception reaches run_journey_worker: from the adapter factory or the
\* precheck, or from a store mutation that failed.
WorkerRaises(r) ==
    /\ \/ Live(r, "journey")
       \/ StoreMayFail /\ \/ Live(r, "poll") /\ paused
                          \/ \E label \in {"scan", "mark", "phases", "ended",
                                           "collect"} : Live(r, label)
    /\ pc' = [pc EXCEPT ![r] = "fail"]
    /\ todo' = [todo EXCEPT ![r] = {}]
    /\ hadPid' = [hadPid EXCEPT ![r] = {}]
    /\ UNCHANGED <<records, aged, paused, proc, spawner, blocked, victim,
                   outcome, clients>>

\* complete_record with exit code 1 and no result.
CompleteFailed(r) ==
    /\ Live(r, "fail")
    /\ UpdateStatus(r, "FAILED_PRODUCT")
    /\ Exit(r)
    /\ UNCHANGED <<pidKnown, cancelReq, sealed, idemKey, resumedFrom, earlier,
                   aged, paused, clients>>

\* force_stop, a kill, a reboot, or an exception that nothing catches.
WorkerDies(r) ==
    /\ proc[r] = "live"
    /\ Exit(r)
    /\ UNCHANGED <<records, aged, paused, clients>>

-----------------------------------------------------------------------------
ClientStep(c) ==
    \/ SpawnWorker(c) \/ SpawnFails(c) \/ RecordPid(c)
    \/ ReapProbe(c) \/ ReapMark(c)

Scan(r) ==
    \/ \E o \in Run : ScanStale(r, o) \/ ScanGone(r, o) \/ ScanActive(r, o)
    \/ ScanMark(r)

WorkerStep(r) ==
    \/ PollCancelled(r) \/ PollList(r) \/ Scan(r) \/ Claim(r) \/ WaitOn(r)
    \/ PublishPhases(r) \/ JourneyEnds(r) \/ JourneyCancelled(r)
    \/ CancelCleanup(r) \/ AfterJourney(r) \/ CompleteRecord(r)
    \/ CompleteFailed(r)

Environment ==
    \/ \E c \in Client : ClientEnds(c)
    \/ \E r \in Run : Age(r) \/ WaitTimesOut(r) \/ WorkerRaises(r)
                      \/ WorkerDies(r)
    \/ PauseQueue

Calls ==
    \/ \E c \in Client, r \in Run :
          \/ \E key \in Key \cup {None} : SubmitRun(c, r, key)
          \/ \E old \in Run : ResumeRun(c, r, old)
          \/ ReapLoad(c, r)
    \/ \E r \in Run : RequestCancel(r)
    \/ ResumeQueue

QueueNext ==
    \/ Calls
    \/ \E c \in Client : ClientStep(c)
    \/ \E r \in Run : WorkerStep(r)
    \/ Environment

Spec == Init /\ [][QueueNext]_vars

\* Processes that are not killed go on, a wait has a deadline (every caller of
\* wait_for_turn passes one), and agents ask for the status of a run whose
\* worker is dead until a query is not killed half-way.  One strong fairness
\* condition serves all runs, because only finitely many of these steps settle
\* something.  Nobody is obliged to submit, cancel or resume a run, or to
\* resume the queue.
FairSpec ==
    /\ Spec
    /\ \A c \in Client : WF_vars(ClientStep(c))
    /\ \A r \in Run : WF_vars(WorkerStep(r))
    /\ SF_vars(\E r \in Run : WaitTimesOut(r))
    /\ SF_vars(\E c \in Client, r \in Run : proc[r] = "dead" /\ ReapLoad(c, r))
    /\ SF_vars(\E c \in Client : crun[c] # None /\ proc[crun[c]] = "dead"
                                /\ ReapProbe(c))
    /\ SF_vars(\E c \in Client : ReapMark(c))

-----------------------------------------------------------------------------
(* Properties                                                               *)

TypeOK ==
    /\ status \in [Run -> Status]
    /\ pidKnown \in [Run -> BOOLEAN]
    /\ cancelReq \in [Run -> BOOLEAN]
    /\ sealed \in [Run -> BOOLEAN]
    /\ idemKey \in [Run -> Key \cup {None}]
    /\ resumedFrom \in [Run -> Run \cup {None}]
    /\ earlier \in [Run -> SUBSET Run]
    /\ aged \in SUBSET Run
    /\ paused \in BOOLEAN
    /\ pc \in [Run -> WorkerPc]
    /\ proc \in [Run -> ProcState]
    /\ spawner \in [Run -> Daemon \cup {None}]
    /\ todo \in [Run -> SUBSET Run]
    /\ hadPid \in [Run -> SUBSET Run]
    /\ blocked \in [Run -> BOOLEAN]
    /\ victim \in [Run -> Run \cup {None}]
    /\ outcome \in [Run -> Outcome]
    /\ cpc \in [Client -> ClientPc]
    /\ crun \in [Client -> Run \cup {None}]

\* The worker of the run is driving the game, or is about to.
InGame(r) == proc[r] = "live" /\ pc[r] \in {"phases", "journey", "cleanup"}

\* All runs share one game session (docs/unified-run-contract.md, section 3):
\* no two workers drive it at the same time.  It rests on every worker seeing
\* the records of the runs before it in time, since there is no lock on the
\* game, and on nobody settling a run whose worker may still start.
GameSlotExclusive ==
    \A r, o \in Run : InGame(r) /\ InGame(o) => r = o

\* The life of a run as its record and its process tell it.
StageOf(r) ==
    IF status[r] = "ABSENT" THEN "absent"
    ELSE IF status[r] = "QUEUED" THEN "queued"
    ELSE IF IsTerminal(r) THEN "over"
    ELSE IF proc[r] = "live" THEN "playing" ELSE "lost"

Slot == INSTANCE GameSlot WITH stage <- [r \in Run |-> StageOf(r)],
                               ahead <- earlier

\* The service implements GameSlot: the slot goes to runs in the order of
\* submission, a run that is over stays over, and the death of a worker frees
\* the slot only when its run has been settled.
ImplementsGameSlot == Slot!Spec

\* A cancelled run stays cancelled, whatever a status query or a waiting worker
\* that had loaded its record earlier decides about it (the guard in update).
CancelledIsFinal ==
    [][\A r \in Run : status[r] = "CANCELLED" => status'[r] = "CANCELLED"]_vars

\* A resumed run continues one that has ended for good: for as long as the new
\* run exists, the original is over, its evidence is sealed, and its worker is
\* out of the game, whoever else settles or completes the original meanwhile.
ResumesSettledRun ==
    \A r \in Run :
        resumedFrom[r] # None =>
            /\ IsTerminal(resumedFrom[r])
            /\ sealed[resumedFrom[r]]
            /\ ~InGame(resumedFrom[r])

\* A journey that was stopped by a cancellation is never recorded as passed.
\* It holds unless finish_cancel fails: see the run that lets the store fail.
CancelledNeverPasses ==
    [][\A r \in Run : outcome[r].result = "CANCELLED"
                      => status'[r] # "PASSED"]_vars

\* A recorded pass is the last word on a run: nobody turns it into a failure.
\* It does not hold: a status query that loaded the record before the worker
\* wrote its result settles it as gone afterwards.
PassedIsFinal ==
    [][\A r \in Run : status[r] = "PASSED" => status'[r] = "PASSED"]_vars

\* Every run whose worker's pid is on record comes to an end, even if the
\* worker dies, the queue is paused for a while, or the run is cancelled while
\* it waits, provided its status is asked for; unless its worker has exited
\* without a result under a server that lives on and does not wait for it: the
\* zombie answers the probe for as long as it is one, and the run is not found
\* gone (reap_if_worker_gone).  Runs behind it end by their own deadline.
RunsEnd == \A r \in Run : pidKnown[r] ~> IsTerminal(r) \/ proc[r] = "zombie"

-----------------------------------------------------------------------------
(* Why the slot is exclusive, unless StaleWhileSpawned.                     *)

\* The control point of a worker and the state of its process agree, and a run
\* without a record has neither a worker nor an age.
ProcessesConsistent ==
    \A r \in Run :
        /\ proc[r] = "none" <=> pc[r] = "none"
        /\ proc[r] \in {"zombie", "dead"} <=> pc[r] = "exit"
        /\ status[r] = "ABSENT" => pc[r] = "none" /\ r \notin aged

\* `earlier` puts the records in an order.
EarlierOrdersRuns ==
    /\ \A r, o \in Run :
          o \in earlier[r] => r \in Created /\ o \in Created /\ r \notin earlier[o]
    /\ \A r, o \in Created : r # o => o \in earlier[r] \/ r \in earlier[o]

\* A client that is about to spawn a worker has the run to itself.
SpawnsOwnRun ==
    \A c \in Client :
        /\ cpc[c] # "idle" => crun[c] \in Run
        /\ cpc[c] = "spawn" =>
              /\ status[crun[c]] = "QUEUED"
              /\ pc[crun[c]] = "none"
              /\ crun[c] \notin aged
              /\ \A d \in Client : cpc[d] = "spawn" /\ crun[d] = crun[c] => d = c

\* Only orphans grow old, and only runs whose worker is dead are settled.
SettlesTheGone ==
    /\ \A r \in aged : pc[r] = "none"
    /\ \A c \in Client : cpc[c] = "mark" => proc[crun[c]] = "dead"
    /\ \A r \in Run : Live(r, "mark") =>
          victim[r] \in Run /\ proc[victim[r]] = "dead"

\* Hence nobody ends a run whose worker waits or plays, and the record says
\* which of the two it does.
StatusFollowsWorker ==
    \A r \in Run : proc[r] = "live" =>
        /\ pc[r] \in {"poll", "scan", "mark"} => status[r] = "QUEUED"
        /\ InGame(r) => ~IsTerminal(r)
        /\ InGame(r) \/ pc[r] = "ended" => status[r] # "QUEUED"

\* A worker that judges the runs before it overlooks none, and one that is in
\* the game has seen all of them end.
OverlooksNone ==
    \A r \in Run : \A o \in earlier[r] :
        /\ Live(r, "scan") \/ Live(r, "mark") =>
              \/ IsTerminal(o) \/ o \in todo[r] \/ blocked[r]
              \/ Live(r, "mark") /\ victim[r] = o
        /\ InGame(r) => IsTerminal(o)

SlotInv ==
    /\ ProcessesConsistent
    /\ EarlierOrdersRuns
    /\ SpawnsOwnRun
    /\ SettlesTheGone
    /\ StatusFollowsWorker
    /\ OverlooksNone

=============================================================================
