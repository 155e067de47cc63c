# Verification of STS2-AUTOTEST

STS2-AUTOTEST runs automated tests against one real game process.  Its core is
a set of independent operating-system processes (command-line calls, MCP
servers, detached workers) that share files and one game.  The modules here
model that core in TLA+; TLC checks them on small instances and TLAPS proves
the most important results for instances of every size.

All source paths below are relative to `src/src/sts2_autotest/`.

## The system

| Component | State it keeps | Operations | What is hard |
|---|---|---|---|
| File lock, `core/lock_manager.py` | a file at a path, its flock, the PID in it | acquire (with or without timeout), release, probe, stale clean-up | the path, the inode and the flock are three things; unlink by one process while others open and lock; crashes |
| Run service, `core/run_service.py` | one `run.json` per run, `queue.paused` | create, update, request/finish cancel, list what is ahead, reap, wait for the turn, complete, resume, spawn | all decisions are taken by many processes from records read without a lock; processes die between any two steps |
| Journey worker, `core/run_executor.py` | its record, `run-result.json`, evidence | queue, publish phases, drive the journey, cancel path, complete | cancellation at any time, partial failure of the clean-up, a record changed by others |
| Main-menu recovery, `core/run_executor.py`, `core/main_menu_state.py` | verdict over observed frames | controlled restart, settle, abandon saved run | transient frames, loss of control in the middle, at most one restart |
| Environment lifecycle, `core/lifecycle.py`; Steam, `core/steam.py` | game process, relaunch counter | ensure ready, launch, terminate, popups | bounded relaunches, stale processes |
| Test session, `core/orchestrator.py` | session, results, failure history, lock, progress | start, run cases with retries, recover, pause, shut down | watchdog callbacks between awaits, crash and resume, lock on every exit |
| Watchdog, `core/watchdog.py` | heartbeat, status, restart budget | monitor, classify, terminate | one detection only, races with recovery |
| Recovery, `core/recovery.py` | attempt counters | classify, attempt in order | budgets, order of the attempts |
| Progress, `core/progress.py` | checksummed file | save, load, clear | crash during the save, resume after it |
| State engine, `core/state_engine.py` | none (a relation on screens) | validate, force | transitions nobody allowed |
| Action path, `execute_action` of `core/orchestrator.py` with `adapters/agent.py` or `adapters/cli_mod.py` | last valid state; a cache of the page | reset, wait, act, read again | the answer is lost after the game has obeyed; the game moves between two reads; the cache is stale |
| Session queue, `core/session_queue.py` | heap and pending map | enqueue, dequeue, cancel, pause | stale heap entries; used only by tests |
| Journeys and navigation, `core/journeys.py`, `core/navigation.py` | trajectory, progress, stuck detection | observe, choose, act until the goal | deadlines, cancellation, repeated states |
| Steam control, `core/steam.py` | two process ids | start, reuse, restart, stop | ids are reused, requests are honoured late, processes refuse to end |
| Test agent, `core/test_agent_runner.py` | verdict; the mods directory and the game outlive a run | validate, build, deploy, launch, smoke test, report | what is tested may not be what was built |
| Precheck, `core/precheck.py` | none | layered checks | order, early stop |
| Evidence, `evidence/*.py`, `core/evidence_hooks.py` | packs, logs, metrics | capture, seal, retain | sealing against partial failure, retention; a log that is written while it is read |
| Test DSL, `dsl/fluent.py` | trace, hook of the orchestrator | define, setup, execute, assert | the page changes while it is judged; directories of earlier tests |
| Clients, `cli/*.py` | none that persists | submit, status, cancel, resume, queue pause/resume | retried and concurrent calls |
| Test-spec pipeline, visual QA, configuration | mostly none | transformations and wrappers | data rather than control |

How they interact: a client creates a record and spawns a worker, which polls
the records of the earlier runs until it may enter the game; the worker drives
the game through an adapter and records what happened; anybody who asks for the
status of a run, and every waiting worker, settles runs whose worker is dead.
Every mutation of a record runs under a `LockManager` on `.store.lock`; test
sessions hold another `LockManager` for their whole life.  A journey drives the
game through an adapter in the loop of `core/navigation.py`; a generated test
drives it through the DSL, the orchestrator and the adapter.  Both leave an
evidence pack.

`PROJECT.json` lists every component with its status, the hazards with the line
where each bites, and for every definition of a module the lines it models.

## Modules

| Module | What it is |
|---|---|
| `LockManager` | `core/lock_manager.py`, one system call per action |
| `LockManager_proofs` | its theorems |
| `GameSlot` | abstract: one game, handed out in order of submission |
| `RunQueue` | `core/run_service.py`, the worker of `core/run_executor.py`, the clients of `cli/` |
| `RunQueue_proofs` | types, the slot invariant, exclusion, refinement of `GameSlot` and exclusion in it; finality of cancellations, resumption, a stopped journey never passes |
| `GameLifecycle` | the game process and `ensure_environment_ready` of `core/lifecycle.py` |
| `MenuRecovery` | extends it: the way back to a clean main menu, `core/run_executor.py`, `core/main_menu_state.py` |
| `MenuRecovery_proofs` | the inductive invariant of both and what follows from it |
| `TestSession` | the foreground command of `cli/main.py` with `core/orchestrator.py`, `core/recovery.py`, `core/watchdog.py`, `core/progress.py` |
| `TestSession_proofs` | the inductive invariant of the session and its eight theorems |
| `Navigation` | which action `core/navigation.py` plays on a page: its decision list |
| `Journeys` | `core/journeys.py` and the loop `progress_until` |
| `JourneyExecutor` | extends it: `JourneyExecutor.execute` of `core/run_executor.py`, with `core/evidence_hooks.py`, `core/anti_sleep.py` |
| `JourneyExecutor_proofs` | its inductive invariants and six theorems |
| `ActionPath` | `execute_action_sequence`, `core/state_engine.py`, `adapters/agent.py` |
| `CliAdapter` | `adapters/cli_mod.py` and its cache |
| `EvidencePacks`, `LogEvidence` | `evidence/packager.py`, `evidence/logs.py` |
| `CaseEvidence_proofs` | theorems about `ActionPath`, `EvidencePacks` and `LogEvidence` |
| `FluentCase` | `dsl/fluent.py` |
| `TestAgent` | `core/test_agent_runner.py` |
| `SessionQueue` | `core/session_queue.py` |
| `SteamGame` | `core/steam.py` |
| `Components_proofs` | theorems about `SteamGame`, `SessionQueue`, `TestAgent`, `FluentCase` and `CliAdapter` |
| `MCComponents_proofs` | the theorems of both for the specification that TLC checks |
| `MCLockManager`, `MCRunQueue`, `MCMenuRecovery`, `MCTestSession`, `MCJourneyExecutor`, `MCComponents` | instances, symmetry and bounds for TLC |

### LockManager

`path` is the inode the lock path names, `content` the PID written into each
inode, `owner` who has it flocked, `fd` the open descriptor of each process and
`pc` its place in the methods.  `acquire_lock` is `AcquireLock`, `TryOpen`,
`TryLock`, `WritePid` and their failing variants, then `ReadStalePid` and
`UnlinkStale` when it has timed out; `release_lock` is `UnlockAndClose` and
`UnlinkReleased`; `is_locked` is `ProbeOpen`, `ProbeLock` and `ProbeClose`.
`Crash` and `Restart` model death and the reuse of process identities.  An
inode that nothing refers to is reused, so one more inode than there are
processes is enough: each has at most one open, and the path names one more.

### RunQueue

The variables of a record (`status`, `pidKnown`, `cancelReq`, `sealed`,
`idemKey`, `resumedFrom`) are the fields of `RunRecord` that control depends
on; `earlier` stands for the order of `created_at`, `aged` for records older
than `stale_queue_seconds`, `paused` for the marker file.  A worker has a
control point `pc`, a process state `proc` (a zombie still answers signal 0)
and what it read in `active_before`: `todo`, `hadPid`, `blocked`, `victim`.  A
client has `cpc` and `crun`.

| Code | Actions |
|---|---|
| `submit_run`, `resume_run`, `spawn_worker` | `SubmitRun`, `ResumeRun`, `SpawnWorker`, `SpawnFails`, `RecordPid` |
| `request_cancel`, `finish_cancel` | `RequestCancel`, `FinishCancel` |
| `reap_if_worker_gone` | `ReapLoad`, `ReapProbe`, `ReapMark` |
| `wait_for_turn`, `active_before` | `PollCancelled`, `PollList`, `ScanStale`, `ScanGone`, `ScanActive`, `ScanMark`, `Claim`, `WaitOn`, `WaitTimesOut` |
| `run_journey_worker`, `execute`, `complete_record` | `PublishPhases`, `JourneyEnds`, `JourneyCancelled`, `CancelCleanup`, `AfterJourney`, `CompleteRecord`, `WorkerRaises`, `CompleteFailed` |
| death of processes, time | `ClientEnds`, `WorkerDies`, `Age` |

What is abstracted, and why it may be:

- A store mutation is one step, because it runs under the store lock.  The
  lock itself does not exclude (see `lock_mutex`), so real mutations can also
  lose updates; composing the two is planned as `StoreLock`.
- `list()` is one snapshot.  A record only becomes terminal while others look
  at it, and each is judged on its own, so reading them one by one gives no
  more outcomes.
- The four phase updates are one step, and the load and the update around
  `COLLECTING` another: nobody else ends the run of a live worker
  (`SettlesTheGone`, proved), so nothing can come between.
- The journey is one step that chooses its outcome; suite runs of
  `cli/main.py` use the same record operations in the same order.
- PIDs are not reused in `RunQueue`, and the wall clock does not run backwards.

### GameLifecycle and MenuRecovery

`game` is the one game process: gone, booting, on a main menu whose control mod
is still loading, on a usable menu, in a run, or wedged.  It dies, hangs, boots
and loads by itself (`Environment`), between any two steps of the worker, and
Steam carries out an accepted launch (`pending`) whenever it likes or never.  A
read of the control API is a step of its own (`Seen`, `NotSeen`), and a read of
a sound game may fail, `MaxGlitches` times in one call (`glitches`).

| Code | Actions |
|---|---|
| `ensure_environment_ready` | `Ensure`; `ProbeReady`, `ProbeFails`, `Look`, `GraceEnds`, `GracePollFails`, `Reprobe`, `Recover`, `TerminateStale`, `LaunchFresh`, `LaunchRaises`, `AwaitControllable`, `Verify` (`EnsureStep`) |
| `_run_environment_precheck` | `Precheck`, `PrecheckEnds` |
| `ensure_clean_main_menu` | `EnsureClean`, `LookForMenu`, then as below in the stage "check" |
| `recover_main_menu_via_restart` | `CancelRestart`, `Terminate`, `StartOnce`, `Started`, `WaitForMenu`, `WaitForActions` |
| `_settle_main_menu_state` | `Settle`, `SettleRead` with `Judge`, `Settled`, `Conclusion`; `Conclude` is what the caller makes of it |
| `_abandon_saved_run` | `Abandon`, `Confirm` |

`save` says whether a saved run exists, `haze` how many frames that deny or
invent one the menu may still show after it was built.  A frame is the tristate
`has_run_save` and the actions that matter.  `steady`, `launches` and `glitches`
are history: since when the game has been ready, and what the current call has
used up.

Abstracted: a wait is one step that ends with what it waits for or with the
timeout; how processes are found and killed (they may refuse to die); the reasons
of a verdict and the report; the adapter's cache, which is refreshed before each
read that counts.  The second read of a frame's actions is part of the read of
the frame.  An adapter whose action list is static (`CliMod`) only ever invents a
saved run, which the check treats as the safe side.  Not called from here and not
modelled: `gui_check`, `start_run`, `relaunch_run`, `ensure_game_up`.

### TestSession

One campaign: the command `autotest run` for the list `Cases`, in one process
after another.  `file` and `pending` are the progress file, `pc` the place of the
process, `lock` and `rival` the session lock; `todo`, `cur` and `verdict` are
`pending`, `case_id` and `results` of `run_all`; `history`, `crashed`, `keep` are
`_failure_history`, `_crashed`, `_progress_saved_on_shutdown`, and `asked` stands
for `_shutdown_requested` and `_pause_requested`.  `ran`, `givenUp`, `zombie` and
`restarts` are history, for the properties.

| Code | Actions |
|---|---|
| `_run_cmd_foreground` | `Run`, `RunNoResume`, `Resume`, `ResumeWithoutFile` |
| `start_session` | `Acquire`, `SessionBusy`, `CheckpointPassed`, `CheckpointFailed`, `Started` |
| `run_all` | `StartCase`, `SkipCase`, `CaseSaved`, `StopsAsAsked`, `AllDone` |
| `execute_case`, `_handle_failure` | `CaseEnds`, `CaseBreaks`, `FailsFatally`, `FailsForGood`, `FailsAndRecovers`, `Recovered` |
| `decide`, `_check_consecutive`, `_decide_crash` | `Decide`, `Ladder`, `DecideCrash` |
| `stop_session`, end of the process | `StopSession`, `FinishSession`, `ProcessExits` |
| `_monitor_loop`, SIGINT, `save_progress`, `load_progress` | `WatchdogFires`, `AskToStop`, `SaveProgress`, `ClearProgress`, `Corrupt` |
| other sessions, death | `RivalLocks`, `RivalUnlocks`, `Dies` |

The watchdog, the session and its recovery are coroutines of one event loop, so
`WatchdogFires` may happen only where the session awaits: in a case, in a
recovery, and in the cleanup between a case and its save.  It reports once, and
then cleans up: `_cleanup_resources` unlinks `.sts2-autotest.lock` in the working
directory.  With the evidence directory there (`LockInReach`) that is the lock
file of the very session that reports, which goes on: from then on a rival may
lock a new file (`astray`), and the session's own release unlinks the rival's.

Abstracted: what the game and the adapters answer (each checkpoint, case and
recovery chooses its outcome); the body of a case, with its actions and their
retries; the lock, which is taken here as if it excluded (`LockManager` is about
whether it does).  An exception that escapes from a hook, an adapter or the
status callback ends the process without `stop_session`, as `Dies`.  Repeated
names in the list are left out.

Not modelled because the program cannot reach it: the watchdog's "environment
incident" (`gui_probe` is never injected and `note_restart` never called), and the
signals of its termination sequence, as no adapter exposes `game_pid`; the cleanup
that ends the sequence is modelled.  Not modelled although it can: two commands at once on one progress file.  `--no-resume` removes the file,
and `--resume` reads it, before the lock is taken, and `stop_session` removes it
after the lock was given back.

Seen while modelling, and reproduced by the model as the code has it:

- The watchdog's cleanup can unlink the lock file of the living session (above);
  `LockMatchesSession` claims exclusion only as long as it has not.
- After a crash the remaining cases are saved as completed, so `--resume` finds
  nothing to do and ends green (`givenUp` in `NothingForgotten` and
  `ClearedWhenDone`).
- With the watchdog's report and a case that passes all the same, the remaining
  cases are skipped and the command is green (second disjunct of `GreenIsEarned`).
- A crash that follows a timeout has the signature the timeout had, so `decide`
  gives up at once; a second level restart needs crashes with exit codes.
- `--resume` with a file that cannot be read is red when the command line names
  no cases.

### Navigation, Journeys and JourneyExecutor

A `Page` is one read of the game: its screen, the actions it offers, the marks
the navigator looks at, and how many cards its selection block shows.
`choose_progress_action` is the decision list of the code, one list of rules per
screen; the first rule that applies decides.

A journey is a list of stages (`todo`): put the menu in order, start a run,
choose the character, embark, advance to a page.  `at` and `page` are the place
and the frame of the running stage, `call` the action being executed, `nav` the
locals of `progress_until`.  Each read may show any page of the instance, an
action may be refused, and a read may raise.

| Code | Actions |
|---|---|
| the journeys, `execute_target` | `Begin`, `Checkpoint`, `ChapterThink`, `DebugThink`, `FindThink` |
| `_raise_if_cancelled`, `_execute_action`, `_act_confirmed` | `CheckCancel`, `Send`, `After`, `ReadBefore`, `Confirmed`, `Raises` |
| `reset_to_main_menu` | `ResetRead`, `ResetForced` |
| `start_new_run`, `resume_run` | `StartThink`, `SelectRead`, `CharacterRead`, `EmbarkThink`, `Peek`, `ContinueThink` |
| `progress_until` | `NavRead`, `NavAnswered`, `Observe`, `Poll`, `PollOver`, `NavTimeout` |
| a client | `RequestCancel` |
| `JourneyExecutor.execute` | `Execute`, `Precheck`, `Launch`, `Travel` (the journey), `Wrap`, `Recover`, `Quiet`, `WriteResult`, `Seal`, `FinishCancel`, `EvidenceRaises`, `Finally` |
| `_write_journey_evidence` | `WriteTrace` |
| `on_session_end`, `refresh_artifact` of the evidence hooks | `SessionEnd`, `Refresh` |

`StepsOf` lists, for each way a journey can end, the steps that close the run,
and `MayRaise` those that let an `OSError` out; what an error leads to differs
from path to path (`EvidenceRaises`).  The recovery of the menu inside `execute`
is one step that succeeds or not (`MenuRecovery` has its inside), as is the
writing of a pack (`EvidencePacks`).  `record` is what the store took from the
path: a write of the seal (`Seal`) or of the end of a cancellation
(`FinishCancel`) may be lost, as `execute` swallows the errors of both and returns
the exit code it had.  `late` is history: the actions sent after
the request to cancel, those of the reset apart, which the code lets finish.
`files` says which of the files that a manifest declares are there, which were
missing when the manifest on the disk and the one in the archive were made, and
whether a write failed on the way: a manifest lists what is there when it is
written, so its truth depends on the order of the writers (`GreenIsWhole`).

Abstracted: the contents of the evidence a journey collects, card names, the
wall clock (ticks of a deadline and of a patience), the screenshots among the
declared files.

### ActionPath and CliAdapter

The two ways a case acts on the game.  In `ActionPath` a request of the agent
may be refused, time out or be answered with garbage, before or after the game
obeyed (`Reply`).

| Code | Actions |
|---|---|
| `execute_action_sequence`, `_wait_for_intermediate_settle` | `NextEntry`, `Probe`, `CheckMenu`, `Await`, `Settle` |
| `_auto_reset_to_main_menu`, `_try_abandon_to_main_menu` | `AutoReset`, `HardReset` |
| `execute_action`, `StateEngine.update_state` | `PreRead`, `Offer`, `Verdict`, `Reread` |
| `nav_to_screen` in `execute_action` | `NavStart`, `Navigate`, `NavReached` |
| `_recover_from_known_action_false_negative` | `FalseNegative` |
| `AgentAdapter.act` | `Act`, `Post`, `StartNewRun`, `Opened`, `FinishInterstitials` |

`CliAdapter` has the compound actions of the command-line tool and the cache
`get_state` answers from.

| Code | Actions |
|---|---|
| `wait_until_actionable`, `get_state`, `get_available_actions` | `Wait`, `PreRead`, `Offer`, `PostRead`, `NextEntry` |
| `_act_sync` | `Dispatch`, `OneCommand`, `ChooseEvent`, `SkipCardReward`, `Proceed`, `EmbarkCommand`, `EmbarkLeaves` |
| `_bundle_select_and_confirm_sync` | `BundleSelect`, `BundleConfirm` |
| `_start_new_run_sync` | `StartNewRun`, `NewRun`, `AbandonSaved`, `PollSubmenu`, `ChooseMode` |
| `_advance_dialogue_to_map_sync` | `Enter`, `Converge`, `ReadAgain`, `SkipReward`, `RewardStays`, `LeaveReward`, `SkipTriSelect`, `TriProceed`, `GoThrough`, `Said`, `Reread` |
| the progression of an event before `choose_map_node` | `AdvanceEvent`, `EventProgress`, `EventRead` |
| `_combat_basic_policy_sync` | `PolicyRead`, `PolicyPlays` |

A read may fail, time out or be degraded: a degraded page says COMBAT and is not
cached, so the page cached before it stays, and each place where the code falls
back to the cached page does so here (`OrCached`).  `fresh` is history: of the page
in hand and of the cached one, whether it was read after the last command.  In
both modules the game also moves by itself (`GameMoves`, `GameGoesOn`).  `audit`
is history, and so are the parts `effects`, `lost` and `drift` of `entry`.  The
interactive selection of cards (the CARD_SELECTION pages) is left out of both.

### EvidencePacks and LogEvidence

A pack is its directory, the summary on disk and the one in the archive.
`SessionEnd` and `Refresh` lay out the steps of the call, which are then taken
one by one: `Mkdir`, `WriteJson`, `WriteReport`, `Retain`, `CopyFiles`,
`Archive`, `Clear`.  Low space skips a write, a broken disk raises
(`WriteFails`), and `DiskTurns` may change that between any two.  `Open`,
`CaseEnd` and `Leave` are the session around it.

A collection of logs is `Collect`, `ParseLog`, `ReadLog`, `WriteCopy` or
`SaveFails`, and `CustomLog`, while the game does `GameWrites`, `GameRotates`
and `GameLocks`.  A text keeps all the lines of its log and, in `held`, which of
them it really has: all of a log that was read, the last ones of a snapshot
(`Tails`), the entries that were parsed of the copy made on failure (`CopyOf`).  `Cleanup` is the pruning of the copies before a collection: it
says which files the loop of the code has removed when it ends, without going
round.  A line is its level, since only levels decide what is kept.  `clock`
moves with every collection and with every copy, so no two copies have one age;
the code sorts by `st_mtime`, and files of one time would be taken in the order
the directory lists them.

### FluentCase, TestAgent, SessionQueue and SteamGame

`FluentCase` is one test after the other: `Define`, `StartPage` and
`StartOffers` (`_check_start_state`), `Act` and `Acted` (setup and tested
actions under the trace hook), `FirstLook`, `Poll` and `Deadline`
(`_settle_and_get_state`), `Judge`, `WriteTrace`, `WriteFails`, `RunHandlers`,
and `Interrupted`.  `look` is what the settle loop has read, `disk` which test
wrote which trace file and what `case.log` says, which depends on the text of a
failure and not on the verdict (`Says`).  `choose_neow_blessing`, which records
each event it answers, records one at most.

`TestAgent` numbers the versions of a MOD: the sources, the outputs of Debug and
Release, and of each file in the mods directory and in the running game the
version it is of.  Build and publish get the mods path and may already write
there, publish may write a Release output, all of them may fail half-way
(`Built`, `BuildFails`), and the deployment copies over what is there without
clearing it (`Copied`, `CopiedPartly`).  A run goes
`Start`, `Validate`, `Build`, `Localization`, `Deploy`, `LaunchGame` or
`DesktopOpen`, `Launched`, the smoke test (`Health`, `ReadRun`,
`OpenCharacterSelect`, `SelectTargetCharacter`, `Embark`, `ReachesCombat`,
`Advance`, `VerifyCard`, `NoHand`, `CardsDone`, `AbandonRun`, `FinalScan`,
`AgentRaises`) and `WriteReport`; `EditSources`, `GameStarts` and `GameExits`
happen when they like.  It is assumed that a developer who builds by hand does not
deploy with it.  The pck, which is only looked for, is not among the files.

`SessionQueue` has `Enqueue`, `Dequeue`, `Cancel`, `Pause`, `Clear`, and
`DropStale` for what `peek` removes; `served` is what the last dequeue saw.

`SteamGame` has a table of processes, each with the number of the call it was
born in: `StartSteam`, `StartGame`, `ReuseGame`, `RestartGame`, `StopGame`, then
`Ask`, `Reuse`, `Found`, `TimesOut`, `StartDirect`, and `Scan`, `Kill`, `Killed`;
Steam honours a request late, twice or never (`GameAppears`), processes end by
themselves and their ids go to others (`ProcessEnds`, `OtherAppears`).

### Seen while modelling the parts above

Where a property leaves a case out because the code does not keep the promise
there, the module says so next to the property:

- a session id cancelled and enqueued again revives the old heap entry, with its
  old priority (`Revived` in `ServedInTurn`);
- a page first read as UNKNOWN is judged on its first settled read, and so is the
  page after an action that is not one of `_STABLE_TRANSITION_ACTIONS`
  (`look.repeat` in `JudgesASettledPage`);
- a failure with an empty message is no failure in `case.log`, and files of the
  steps of an earlier, longer test stay (`TraceTellsTheVerdict`);
- `_start_new_run` of the agent adapter may answer success for nothing; the
  sequence then ends at its next entry (`audit.fake` in `DoneMeansDone`);
- an action that failed as a removed method counts as done when another page is
  read than before, though the page may have changed by itself and the action
  never been obeyed (`drift` in `DoneMeansDone`);
- after an offer made on a degraded page an action may be called needless on a
  cached page that is older than any number of commands, and after an error that
  left `act` the cache is not marked stale (`ReadsAreFresh`);
- the test agent reuses a game that runs, prefers an old Release output to the
  Debug one it has just built, and leaves files of earlier versions in the mods
  directory (`PassedMeansTested`);
- of a log with more entries than are kept, the crash reported is an early one;
  a rotation between the two reads of one `collect` mixes two logs
  (`ReportsItsCopy`);
- the store may lose the seal of a passed run and the end of a cancelled one, and
  the exit code stays 0 (`record.lost` in `GreenIsWhole`);
- the zombie of an MCP server answers the probe until the server ends or spawns
  another worker; till then its run stays open and holds up the queue (`RunsEnd`);
- the guard against sleep stays on when the pack of a blocked precheck cannot be
  written (`Released`).

Reproduced by the models as the code has it, and worth a review: a blocked
precheck does not call the adapter's `cleanup`; a passed run is marked as sealed
although the export of its pack failed; `resume_run` takes any map or combat page
for the run it continued; the agent ignores the answer to `abandon_run`, and
passes a card test whose hand was only read; journeys that fail by themselves
never record `evidence_sealed`, so `resume` refuses them; `mark_state_stale` is
not called by the polls of the orchestrator, whose reads are those of the cache.

## Checks

| Run | Instance | What it shows |
|---|---|---|
| `lock_mutex` | 2 processes, 3 inodes | finding: mutual exclusion fails |
| `queue_order` | 3 runs, 1 client | one worker in the game, in the order of submission, as `GameSlot` demands; a cancelled run never passes |
| `queue_faults` | 2 runs, 2 MCP servers, 1 key, failing store | types; the inductive invariant; resumption of settled runs only; cancelled stays cancelled |
| `queue_ends` | 2 runs, 1 MCP server, fairness | every run whose pid is on record ends, or its worker is a zombie of a living server |
| `queue_stale` | 3 runs, unrecorded pids may grow old | finding: two workers in the game |
| `queue_passed` | 1 run | finding: a pass is overwritten |
| `queue_cancel` | 1 run, failing store | finding: a cancelled run passes |
| `recovery` | 1 worker, 1 game, up to 3 failed reads and 2 misleading frames in a call, fairness | the inductive invariant; a game that stays sound is never killed by the readiness check; a clean verdict is true; one launch per call; every call returns |
| `session` | 3 cases, 5 kinds of failure, threshold 3, fairness | types; the lock follows the session, as far as the watchdog's cleanup leaves it alone; the progress file never runs ahead and forgets nothing, over resumed sessions; it is removed only when all is accounted for; a green exit is earned; restarts are bounded; a session the watchdog has reported starts no case; every command ends |
| `journey` | 10 journeys, 2 modes of fighting, 25 pages in any order, cancellation at any time, evidence that cannot be written, fairness | a cancelled journey plays nothing more; no card is selected twice; fights are fought as asked; exit code 0 means whole and agreeing evidence, and a sealed record unless the store lost it; every way out releases; a reported failure stays; every journey ends |
| `journey_resume` | 2 pages of the menu | finding: `resume_run` abandons the run it is to resume |
| `components` | 9 parts that share no state, one per behaviour | file lock: no flock leaks on any path, a holder's file names its holder; packs, actions, cached pages, MOD acceptance, session queue, Steam, logs and generated tests: what each promises (`PacksAreWhole`, `DoneMeansDone`, `ReadsAreFresh`, `PassedMeansTested`, `QueueKeepsItsWord`, `RestartIsFresh`, `LogsAreKept`, `CaseIsHonest`) |

Bounds.  `FewIncidents` (module `MCRunQueue`) limits the two safety runs: no
pause, at most `MaxCancels` = 1 cancelled run and `MaxUnsettled` = 1 dead worker
that is not settled yet.  Three runs are needed for a waiting worker that
settles one run while a third one waits behind both; two clients for racing
submissions, resumptions and reaps.  `queue_ends` has no such bound.  The
theorems below have none at all.  The runs of `RunQueue` do not check for
deadlock: when every run is over and nobody calls, the system rests.

`recovery` uses the code's `max_recoveries` = 1, two quick retries and three
stable frames; the polls of the boot window (2) and the reads of a settle (5) are
fewer than in the code, but enough for a streak to be broken and built again
before the reads run out.  What the environment may do is limited by
`EnvironmentAssumption`: at most `Retries + 1` failed reads of a sound game in a
call (with one more, the readiness check can take it for stale), and fewer
misleading frames than `StableFrames`.  The code does not check these; it chose
its retries and its three frames from what the game was observed to do.  The run
checks for deadlock.

`session` has no bound besides its constants: the history of a session is no
longer than the list of cases.  Three cases fill the ladder of the default
threshold 3 (restart, full restart, give up).  The failures are a timeout, an
adapter error, the same as a fatal one, and crashes with and without an exit code,
so that equal and different types and signatures occur in every order.
`LockInReach` is TRUE: the evidence directory is the working directory, the case
in which the watchdog's cleanup reaches the lock.  The run
checks for deadlock: another command can always be given.

`journey` lets every read show any of 25 pages, so no order of them is left out.
They include each kind of page on which a stage waits, chooses differently or
gives up; shops, bundles and relic rewards, which only differ in the name of the
action taken, are translated in `Navigation` but not among the pages.  A deadline of 3
ticks, a patience of 2, 3 rounds of the reset (8 in the code) and 2 of the wait
for the menu (30) let each loop end by success, by its count and by its clock,
and leave one tick for progress after a stall.  The journeys are five of the
catalogue and five targets of `execute_target`, which reach every stage.  The run
does not check for deadlock, because a journey that is over stays so.

`components` explores nine small models side by side: `part` is chosen once and
each part moves only its own variables, so the run is the sum of nine, not a
product (about 2.4 million states in all).  Two processes and three inodes for
the lock: the theorems cover any number, and `lock_mutex` shows that two are
enough for what goes wrong.  Three packs with a retention of two; four
sequences of entries that cover every kind, with two moves of the game by itself
(`Moves`), one before and one behind a request; two polls, attempts or steps of every
loop, so that each loop goes round once and gives up once; two versions of the
MOD, so that one is old, the older with a file more (`Extras`), which the newer
leaves in the mods directory; two session ids with three requests, so that an id
comes again; three process ids for three kinds of processes and two calls; a log
of three lines of which two entries are kept and a snapshot has two (`TailLines`); two tests in one directory.  It
does not check for deadlock, because parts come to rest.

Fairness of `JourneyExecutor` (`ExSpec`).  The worker goes on: weak fairness of
`ExStep` and of `Travel`, whose waits all have deadlines.  Neither the game nor
a client need ever do anything.  The parts of `components` are safety only.

Fairness of `RunQueue` (`FairSpec`).  A process that is not killed goes on (weak fairness of
each client's and each worker's steps).  `WaitTimesOut` is strongly fair
because `wait_for_turn` is always called with a deadline.  Reaping a dead worker
is strongly fair because clients poll the status of the runs they submitted;
without a query a dead worker's run stays open for ever, unless another run
waits behind it.  A zombie ends when its server ends or spawns another
worker, and nothing makes a server do either.  Submitting, cancelling, resuming, and lifting a pause are not
fair.

Fairness of `MenuRecovery`.  The worker goes on (weak fairness of `Step`); every
wait has a deadline.  The game and Steam need never do anything.

Fairness of `TestSession`.  The process of a command goes on (weak fairness of
`Advance`): every wait in `start_session`, in a recovery and in a case has a
timeout.  Nobody need give another command, and nothing from outside is fair.

Findings.  `lock_mutex`: `release_lock` unlinks after it has unlocked.
`queue_stale`: a waiting run without a recorded pid is settled after 120 s and
its worker overlooked.  `queue_passed`: a status query overwrites a pass it did
not see.  `queue_cancel`: an unsaved `finish_cancel` lets `complete_record`
record a pass.  `journey_resume`: `resume_run` puts the menu in order first, and
the menu is in order only without a saved run.  Sixteen more disagreements between
the code and its own documentation are listed in `PROJECT.json` without a run of
their own: the models reproduce them, and the properties name them where they
touch one.

## Proofs

All theorems hold for every value of the constants that satisfies the
assumptions of the modules (`LockAssumption`, `QueueAssumption` and those named
below).

- `LockManager_proofs`: `LockInv` is inductive.  It adds to the checked
  invariants that a dead process has no control point and that a descriptor is
  open exactly between open and close.  `LockNeverLeaks`, `PathIsHeldOnce` and
  `HolderStaysNamed` follow.
- `RunQueue_proofs`: `TypeInvariant`; `SlotInvariant`, under the assumption
  `~StaleWhileSpawned` that a waiting worker's pid is on record within
  `stale_queue_seconds` (the run `queue_stale` shows what happens otherwise).
  Exclusion is not inductive: that a worker may enter depends on what it read
  earlier.  `SlotInv` says that only runs of dead processes are settled
  (`SettlesTheGone`), hence the run of a live worker is open
  (`StatusFollowsWorker`), hence a worker that has judged all earlier runs has
  overlooked none (`OverlooksNone`); `EarlierOrdersRuns` makes any two runs
  comparable, and two workers in the game would have to be over for each other.
  `SlotIsExclusive` is the corollary, and `ServiceImplementsGameSlot` the
  refinement: each action maps to a step of `GameSlot` or to a stutter.
- In the same module, `OneInGameAlways`: exclusion also follows from the abstract
  specification.
- Of the records, there too: `CancellationIsFinal` needs no assumption;
  `ResumedRunIsSettled` strengthens the property by what a worker may still do
  to a run that is over.  `StoppedNeverPasses`: `StoppedInv`
  follows a cancelled journey to its record, under the assumption
  `~StoreMayFail` (the run `queue_cancel` shows what happens otherwise).

- `MenuRecovery_proofs`: `RecoveryInv` is inductive (`RecoveryInvariant`), given
  `RecoveryAssumption` and `EnvironmentAssumption`.  None of the three results is
  inductive alone.  `SoundGameIsKept` needs that each failed probe of a sound game
  has used up a glitch, so that none is left when the retries are over
  (`ProbesUseGlitches`); `CleanMenuIsClean` that with a saved run each clean frame
  has used up haze (`HazePaysClean`), so that a streak of `StableFrames` is out of
  reach; `LaunchesAreBounded` that every launch belongs to a recovery cycle and
  that a call runs the check only once (`CyclesPayLaunches`).

- `TestSession_proofs`: `SessionInv` is inductive, given `CasesAssumption` and
  `ThresholdAssumption` (the threshold is a number above one; with one, the first
  failure would already be final, and `is_failed`, which does not count final
  failures, would make the session green).  It is a conjunction of parts, each
  proved inductive with the help of the types alone: `LockMatchesSession`;
  `FileKnows`, the file against the list of `run_all`; `Accounted`, the list
  against the campaign; `ZombieCrashed`, the watchdog's mark against the crash
  flag; `Earned`, which gives every verdict its reason: a final failure comes after
  one that was reported as fail, a crash flag after a red verdict or the watchdog;
  `Restarted`, which ties each restart to a crash at the end of the history, so that
  the ladder (`RestartsForCrashes`) bounds it.

- `JourneyExecutor_proofs`: `JourneyInv` says that only `CheckCancel` leads to a
  request being sent, hence nothing is sent after a cancellation
  (`CancelEndsPlay`, with `GoalsAssumption`).  `CursorInv` says that the cursor of
  the selection is past every card already chosen (`NoCardIsPutBack`); it is the
  only record the code has.  `ExecuteInv` says which of the closing steps lie
  behind (`Past`), that what they left agrees with the status as long as it may
  still be green (`GreenSoFar`), and that the record of the run claims nothing that
  is not so, whatever the store has lost (`RecordSoFar`, `RecordIsTrue`);
  `GreenRunsAreWhole`, `EveryWayOutReleases` and `FailuresStayReported` follow.

- `Components_proofs`: five components, each with an invariant of its own.
  `StartInv`: a wait accepts only processes that were not there when the request
  was made (`StartedGameIsNew`).  `QueueInv`: the entry of the latest request of
  every waiting id is still in the heap (`QueueIsJust`).  `CacheInv`: a
  cache that is not marked stale was read after the last command (`MarkInv`), the
  page an offer was made on is that page unless it is degraded (`OfferInv`),
  and the page that ends a compound action was read after its last command
  (`ConvergeInv`), so `CliReadsAreFresh`.  `TestInv`: from the deployment on, every
  file of the run's own build is in the mods directory, and a game that was not
  reused was started since (`PassedRunsTestedTheBuild`).  `LookInv` and `TraceInv`:
  the last settled page is the last one read; the trace is written before the
  handlers run, and the hook is back (`CasesAreHonest`).  `MCComponents_proofs` carries them over to
  `McSpec`: a behaviour stays in its part (`PartStays`), and there moves as the
  part's specification does.

- `JourneyExecutor_proofs`, `FightsAreAsAsked`.  What is asked for in a fight was
  picked on an earlier page, in a mode that an earlier stage may have set.
  `FightInv` says that in a navigation the request on its way is one that the
  mode admits (`Fights`), and that outside of one nothing asks for the fight to
  be won; that a card test has set its mode to basic before any stage but its
  first, which needs what the list of stages (`StagesInv`) leaves first.  That the
  decision list picks nothing else in a fight (`NavigatorFights`) rests on lemmas
  about priority lists: the answer of a list is that of one of its rules
  (`FirstOfAmong`), for lists that are offered or joined too.

- `CaseEvidence_proofs`: three components.
  `ApInv` (`ActionsAreObeyedOnce`): until a request is posted, none of the entry
  has been obeyed, and none is posted behind one whose answer was lost
  (`ObeyedOnce`); while the game has not moved by itself, the page is the one that
  was read before the action unless a request was obeyed, so a glitch that counts
  as done was obeyed (`Undrifted`); after
  a new run that was answered for nothing the next entry is one that only the
  character page offers, and the game is not on it (`FakeIsStuck`).  This uses
  `ScriptsAssumption`: a script goes on from `start_new_run` to
  `select_character` or `embark`, as every script in `tests/generated` does.
  Without it a script that ends in `start_new_run` may be reported done for
  nothing, as `_start_new_run` may answer success for nothing.
  `PkInv` (`PacksKeepTheirPromise`): the steps that are left are a final part of
  the thirteen of a session end or of a later refresh (`Stage`), and what lies
  behind has been done, or skipped and marked as skipped.  When everything chosen
  for removal is gone, at most `Retention` packs are left, or the current one
  alone (`FirstGo`): the ranks of the packs that are kept are different numbers
  (`RankIsBounded`) between the excess and the number of packs.
  `LgInv` (`EvidenceOfLogsIsKept`): what is parsed of a log stays the beginning
  of it while the log grows, so also of the text that is read later, unless it
  was rotated (`Reading`); the crash is the last error of the copy that the first
  entries make; of
  the copies none that is pruned is newer than one that is kept, stuck ones apart
  (`CleanupPrunesTheOldest`).  A sequence's matching lines are finite in number
  by its length, and least and largest elements come from the well-founded order
  of the naturals, so no induction over data was needed.

- `MCComponents_proofs` carries these over as well (`ActionsPartIsObeyed`,
  `PacksPartIsWhole`, `LogsPartIsKept`); `MCComponents` states the three
  assumptions about its constants, and TLC evaluates them.

Every invariant and every action property of the passing runs is stated by a
theorem.  Only model-checked are the liveness properties `JourneyEnds`, `RunsEnd`,
`RecoveryReturns` and `CommandsEnd`: fairness is out of the prover's reach.

## What is left

1. `StoreLock`: the read-modify-write of `RunStore` over `LockManager`, lost
   updates and the shared temporary file.
2. Two commands on one progress file, and the session over `LockManager`.
3. `start_run`, `relaunch_run` and `ensure_game_up` of `core/lifecycle.py`, and
   `core/popup_disposal.py`.
4. The runs of a suite in a worker as a model of their own.

Not modelled, and why.  The spec pipeline (parser, reviewer, validator, code
generator, case registry), visual QA, configuration, errors and reports turn
data into data: no state survives a call and nothing runs beside it.  The
environment precheck is a chain of independent reads that stops at the first
failure; its outcome is a choice where it is used.  The workspace and the runtime
factory build objects.  Screenshots and metrics are one call of the operating
system each; the notifier is a wrapper around a desktop command.
