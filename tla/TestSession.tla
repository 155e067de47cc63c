---------------------------- MODULE TestSession ----------------------------
(***************************************************************************)
(* The command "autotest run" for a list of cases: cli/main.py decides      *)
(* from the progress file what to run, core/orchestrator.py starts the      *)
(* session, runs the cases one by one, recovers from failures as            *)
(* core/recovery.py decides and stops the session, core/watchdog.py looks   *)
(* over its shoulder, core/progress.py keeps the file.  A command is one    *)
(* process; it may die anywhere, and another may be started after it.       *)
(*                                                                         *)
(* What the game and the adapter answer is left open.  The watchdog and the *)
(* session share one event loop: the watchdog acts only where the session   *)
(* awaits.  A rival session (the pytest plugin) wants the same lock.        *)
(***************************************************************************)
EXTENDS Naturals, Sequences

CONSTANTS
    Cases,             \* the selected cases, numbers in the order of the list
    Failures,          \* what an adapter may raise: [type, code, p0]
    MaxConsecutive,    \* max_consecutive_failures
    LockInReach        \* the evidence directory is the working directory

ASSUME CasesAssumption == Cases \subseteq Nat
ASSUME FailuresAssumption == \A f \in Failures : f.p0 \in BOOLEAN
ASSUME ThresholdAssumption == MaxConsecutive \in Nat \ {0, 1}
ASSUME ReachAssumption == LockInReach \in BOOLEAN

VARIABLES
    file,       \* the progress file: none, good, or bad (checksum, JSON, schema)
    pending,    \* the pending cases in it
    pc,         \* where the process is
    lock,       \* the session's process has the lock
    rival,      \* another process has it
    astray,     \* the file of the lock was removed under a holder
    todo,       \* pending in run_all, with the case being run
    cur,        \* the case being run
    verdict,    \* the results of this session
    history,    \* _failure_history
    plan,       \* the recovery being executed
    crashed,    \* _crashed
    asked,      \* _shutdown_requested or _pause_requested
    keep,       \* _progress_saved_on_shutdown
    watchdog,   \* off, watching, or done: it reports once
    exit,       \* how the last command ended
    ran,        \* history: cases of the campaign that got a verdict
    givenUp,    \* history: cases skipped because the session had crashed
    zombie,     \* history: reported in this session, and recovered since
    restarts    \* history: restarts since the last failure that was no crash

fileVars == <<file, pending>>
caseVars == <<todo, cur, verdict>>
failVars == <<history, plan, crashed, restarts>>
flags == <<asked, keep>>
dogVars == <<watchdog, zombie>>
campaign == <<ran, givenUp>>
locks == <<lock, rival, astray>>
vars == <<fileVars, pc, locks, caseVars, failVars, flags, dogVars, exit, campaign>>

Starting == {"health", "state", "reset", "actionable", "fresh"}
Running == {"loop", "case", "recover", "save"}
InSession == Starting \cup Running \cup {"stop"}

Verdicts == {"none", "pass", "fail", "crash", "skip", "deterministic_fail"}
Bad == {"fail", "crash", "deterministic_fail"}
Restarts == {"GAME_RESTART", "FULL_RESTART"}
Plans == {"none", "FAST_PATH", "RECREATE", "TERMINATE"} \cup Restarts

TypeOK ==
    /\ file \in {"none", "good", "bad"}
    /\ pending \subseteq Cases
    /\ pc \in {"out", "acquire", "clear", "returned"} \cup InSession
    /\ lock \in BOOLEAN
    /\ rival \in BOOLEAN
    /\ astray \in BOOLEAN
    /\ todo \subseteq Cases
    /\ cur \in Nat
    /\ verdict \in [Cases -> Verdicts]
    /\ history \in Seq(Failures)
    /\ plan \in Plans
    /\ crashed \in BOOLEAN
    /\ asked \in BOOLEAN
    /\ keep \in BOOLEAN
    /\ watchdog \in {"off", "watching", "done"}
    /\ exit \in {"none", "green", "red", "died"}
    /\ ran \subseteq Cases
    /\ givenUp \subseteq Cases
    /\ zombie \in {"no", "yes", "recovered"}
    /\ restarts \in Nat

Init ==
    /\ file = "none" /\ pending = {}
    /\ pc = "out" /\ lock = FALSE /\ rival = FALSE /\ astray = FALSE
    /\ todo = {} /\ cur = 0 /\ verdict = [c \in Cases |-> "none"]
    /\ history = <<>> /\ plan = "none" /\ crashed = FALSE
    /\ asked = FALSE /\ keep = FALSE
    /\ watchdog = "off" /\ exit = "none"
    /\ ran = {} /\ givenUp = {} /\ zombie = "no" /\ restarts = 0

-----------------------------------------------------------------------------
(* core/recovery.py: what to do about a failure.                            *)

\* The last k records all satisfy the test that the set of them expresses.
EndsWith(h, S, k) ==
    Len(h) >= k /\ \A i \in 1..k : h[Len(h) + 1 - i] \in S

SameType(f) == {g \in Failures : g.type = f.type}

\* The signature is the name of the class, STS2Error for every failure that
\* gets here, and the exit code: it does not know the type of the failure.
SameSignature(f) == {g \in Failures : g.code = f.code}
Shortcut == 2


\* Mutant for RestartsAreBounded: takes the history to hold the current failure as well.
LadderCountsTwice(f, h, first, second) ==
    IF EndsWith(h, SameType(f), MaxConsecutive) THEN "TERMINATE"
    ELSE IF EndsWith(h, SameType(f), MaxConsecutive - 1) THEN second
    ELSE first

\* The ladder from the first measure over the second to giving up.
Ladder(f, h, first, second) ==
    IF EndsWith(h, SameType(f), MaxConsecutive - 1) THEN "TERMINATE"
    ELSE IF EndsWith(h, SameType(f), MaxConsecutive - 2) THEN second
    ELSE first

DecideCrash(f, h) ==
    IF h = <<>> THEN "GAME_RESTART"
    ELSE IF EndsWith(h, SameSignature(f), Shortcut - 1) THEN "TERMINATE"
    ELSE Ladder(f, h, "GAME_RESTART", "FULL_RESTART")

Decide(f, h) ==
    IF f.p0 THEN "TERMINATE"
    ELSE IF f.type = "crash" THEN DecideCrash(f, h)
    ELSE IF h = <<>> THEN "FAST_PATH"
    ELSE Ladder(f, h, "FAST_PATH", "RECREATE")

\* A restart may be blocked by a popup, or be spared by leaving the run from
\* inside the game; then, and after a restart, the adapter is made anew.
Outcomes(p) ==
    [ok : BOOLEAN, restarted : IF p \in Restarts THEN BOOLEAN ELSE {FALSE}]

-----------------------------------------------------------------------------
(* core/progress.py                                                         *)


\* Mutant for TypeOK: writes in place, and a full disk leaves half a file.
SaveInPlace(P) ==
    \/ file' = "good" /\ pending' = P
    \/ file' = "torn" /\ UNCHANGED pending

\* A save replaces the file as a whole, or leaves it as it is: no disk space,
\* or an error.
SaveProgress(P) ==
    \/ file' = "good" /\ pending' = P
    \/ UNCHANGED fileVars

\* A file that cannot be removed stays.
ClearProgress ==
    \/ file' = "none" /\ pending' = {}
    \/ UNCHANGED fileVars

Corrupt ==
    /\ file = "good" /\ pc = "out"
    /\ file' = "bad"
    /\ UNCHANGED <<pending, pc, locks, caseVars, failVars, flags, dogVars,
                   exit, campaign>>

-----------------------------------------------------------------------------
(* cli/main.py: _run_cmd_foreground                                         *)

\* A new process with a new orchestrator.
Begin(cases) ==
    /\ pc' = "acquire"
    /\ todo' = cases /\ cur' = 0 /\ verdict' = [c \in Cases |-> "none"]
    /\ history' = <<>> /\ plan' = "none" /\ crashed' = FALSE
    /\ asked' = FALSE /\ keep' = FALSE
    /\ exit' = "none"
    /\ zombie' = "no" /\ restarts' = 0
    /\ UNCHANGED <<locks, watchdog>>

BeginAnew == Begin(Cases) /\ ran' = {} /\ givenUp' = {}

Refuse(code) ==
    /\ exit' = code
    /\ verdict' = [c \in Cases |-> "none"]
    /\ UNCHANGED <<pc, locks, todo, cur, failVars, flags, dogVars, campaign>>

\* Without a flag: a file in the way, good or bad, is refused.
Run ==
    /\ pc = "out"
    /\ UNCHANGED fileVars
    /\ IF file = "none" THEN BeginAnew ELSE Refuse("red")

RunNoResume ==
    /\ pc = "out"
    /\ ClearProgress
    /\ IF file' = "none" THEN BeginAnew ELSE Refuse("red")

\* --resume goes on with what is pending in the file.
Resume ==
    /\ pc = "out" /\ file = "good"
    /\ UNCHANGED fileVars
    /\ IF pending = {} THEN Refuse("green")
       ELSE Begin(pending) /\ UNCHANGED campaign

\* Without a file that can be read it runs the cases the command line names,
\* and there need not be any.
ResumeWithoutFile ==
    /\ pc = "out" /\ file # "good"
    /\ UNCHANGED fileVars
    /\ BeginAnew \/ Refuse("red")

-----------------------------------------------------------------------------
(* core/orchestrator.py: start_session                                      *)

\* A lock whose file is gone excludes nobody until both have let go of theirs:
\* each lets the other's file go with its own.
Acquire ==
    /\ pc = "acquire" /\ (rival => astray)
    /\ pc' = "health" /\ lock' = TRUE
    /\ UNCHANGED <<fileVars, rival, astray, caseVars, failVars, flags, dogVars, exit,
                   campaign>>

SessionBusy ==
    /\ pc = "acquire" /\ rival
    /\ pc' = "returned" /\ exit' = "red"
    /\ UNCHANGED <<fileVars, locks, caseVars, failVars, flags, dogVars,
                   campaign>>

LetGo == lock' = FALSE /\ astray' = (astray /\ rival) /\ UNCHANGED rival

\* A checkpoint is passed: the adapter is healthy, the screen is known, a game
\* that is elsewhere was brought to the main menu, it is actionable.
NextCheckpoint ==
    [health |-> {"state"}, state |-> {"reset", "actionable"},
     reset |-> {"actionable"}, actionable |-> {"fresh"}]

CheckpointPassed ==
    /\ pc \in {"health", "state", "reset", "actionable"}
    /\ pc' \in NextCheckpoint[pc]
    /\ UNCHANGED <<fileVars, locks, caseVars, failVars, flags, dogVars, exit,
                   campaign>>


\* Mutant for LockMatchesSession: returns without the call that gives the lock back.
CheckpointFailedHolding ==
    /\ pc \in Starting
    /\ pc' = "returned" /\ exit' = "red"
    /\ UNCHANGED <<fileVars, locks, caseVars, failVars, flags, dogVars,
                   campaign>>

\* Each checkpoint that fails gives the lock back and ends the command.
CheckpointFailed ==
    /\ pc \in Starting
    /\ pc' = "returned" /\ exit' = "red" /\ LetGo
    /\ UNCHANGED <<fileVars, caseVars, failVars, flags, dogVars,
                   campaign>>

\* A saved run was abandoned, or not; the session starts and is watched.
Started ==
    /\ pc = "fresh"
    /\ pc' = "loop"
    /\ crashed' = FALSE /\ history' = <<>>
    /\ watchdog' = "watching"
    /\ UNCHANGED <<fileVars, locks, caseVars, plan, restarts, flags, zombie,
                   exit, campaign>>

-----------------------------------------------------------------------------
(* core/orchestrator.py: run_all                                            *)

IsNext(c) == c \in todo /\ \A d \in todo : c <= d


\* Mutant for FileLagsBehind: notes the case as completed when it starts.
StartCaseSaved ==
    /\ pc = "loop" /\ ~crashed
    /\ \E c \in todo : IsNext(c) /\ cur' = c /\ SaveProgress(todo \ {c})
    /\ pc' = "case"
    /\ UNCHANGED <<locks, todo, verdict, failVars, flags, dogVars, exit,
                   campaign>>

StartCase ==
    /\ pc = "loop" /\ ~crashed
    /\ \E c \in todo : IsNext(c) /\ cur' = c
    /\ pc' = "case"
    /\ UNCHANGED <<fileVars, locks, todo, verdict, failVars, flags, dogVars,
                   exit, campaign>>


\* Mutant for CommandsEnd: does not take the skipped case off the list.
SkipCaseAgain ==
    /\ pc = "loop" /\ crashed
    /\ \E c \in todo :
        /\ IsNext(c)
        /\ verdict' = [verdict EXCEPT ![c] = "skip"]
        /\ givenUp' = IF c \in ran THEN givenUp ELSE givenUp \cup {c}
        /\ SaveProgress(todo)
    /\ UNCHANGED <<pc, locks, todo, cur, failVars, flags, dogVars, exit, ran>>

\* After a crash a case is skipped, and counts as completed in the file.
SkipCase ==
    /\ pc = "loop" /\ crashed
    /\ \E c \in todo :
        /\ IsNext(c)
        /\ todo' = todo \ {c}
        /\ verdict' = [verdict EXCEPT ![c] = "skip"]
        /\ givenUp' = IF c \in ran THEN givenUp ELSE givenUp \cup {c}
        /\ SaveProgress(todo \ {c})
    /\ UNCHANGED <<pc, locks, cur, failVars, flags, dogVars, exit, ran>>

AllDone ==
    /\ pc = "loop" /\ todo = {}
    /\ pc' = "stop"
    /\ UNCHANGED <<fileVars, locks, caseVars, failVars, flags, dogVars, exit,
                   campaign>>

\* The progress is saved after each case.
CaseSaved ==
    /\ pc = "save" /\ ~asked
    /\ todo' = todo \ {cur}
    /\ SaveProgress(todo \ {cur})
    /\ pc' = "loop"
    /\ UNCHANGED <<locks, cur, verdict, failVars, flags, dogVars, exit,
                   campaign>>


\* Mutant for NothingForgotten: saves the cases it skips as completed, like
\* those after a crash.
StopsSavingAll ==
    /\ pc = "save" /\ asked
    /\ todo' = todo \ {cur}
    /\ SaveProgress({})
    /\ keep' = TRUE
    /\ verdict' = [c \in Cases |->
                    IF c \in todo \ {cur} THEN "skip" ELSE verdict[c]]
    /\ pc' = "stop"
    /\ UNCHANGED <<locks, cur, failVars, asked, dogVars, exit, campaign>>

\* Somebody asked to pause, or pressed Ctrl-C: the rest is skipped, and stays
\* pending in the file.
StopsAsAsked ==
    /\ pc = "save" /\ asked
    /\ todo' = todo \ {cur}
    /\ SaveProgress(todo \ {cur})
    /\ keep' = TRUE
    /\ verdict' = [c \in Cases |->
                    IF c \in todo \ {cur} THEN "skip" ELSE verdict[c]]
    /\ pc' = "stop"
    /\ UNCHANGED <<locks, cur, failVars, asked, dogVars, exit, campaign>>

-----------------------------------------------------------------------------
(* core/orchestrator.py: execute_case                                       *)

Ends(v) ==
    /\ verdict' = [verdict EXCEPT ![cur] = v]
    /\ ran' = ran \cup {cur} /\ givenUp' = givenUp \ {cur}
    /\ pc' = "save"

\* A case passes, fails an expectation or makes an illegal transition, or its
\* registered body breaks, which is a crash of the case alone.
CaseEnds ==
    /\ pc = "case"
    /\ \E v \in {"pass", "fail", "crash"} : Ends(v)
    /\ UNCHANGED <<fileVars, locks, todo, cur, failVars, flags, dogVars, exit>>

\* Any other exception in the probe is a crash of the session.
CaseBreaks ==
    /\ pc = "case"
    /\ Ends("crash")
    /\ crashed' = TRUE
    /\ UNCHANGED <<fileVars, locks, todo, cur, history, plan, restarts, flags,
                   dogVars, exit>>

Recorded(f) ==
    /\ history' = Append(history, f)
    /\ restarts' = IF f.type = "crash" THEN restarts ELSE 0

\* _handle_failure: a fatal failure crashes the session and is not recorded.
FailsFatally ==
    /\ pc = "case"
    /\ \E f \in Failures : f.p0
    /\ Ends("crash")
    /\ crashed' = TRUE
    /\ UNCHANGED <<fileVars, locks, todo, cur, history, plan, restarts, flags,
                   dogVars, exit>>

FailsForGood ==
    /\ pc = "case"
    /\ \E f \in Failures :
        /\ ~f.p0 /\ Decide(f, history) = "TERMINATE"
        /\ Recorded(f)
    /\ Ends("deterministic_fail")
    /\ crashed' = TRUE
    /\ UNCHANGED <<fileVars, locks, todo, cur, plan, flags, dogVars, exit>>

FailsAndRecovers ==
    /\ pc = "case"
    /\ \E f \in Failures :
        /\ ~f.p0 /\ Decide(f, history) # "TERMINATE"
        /\ plan' = Decide(f, history)
        /\ Recorded(f)
    /\ pc' = "recover"
    /\ UNCHANGED <<fileVars, locks, caseVars, crashed, flags, dogVars, exit,
                   campaign>>


\* Mutant for GreenIsEarned: the case passes because the recovery has succeeded.
RecoveredPasses ==
    /\ pc = "recover"
    /\ \E o \in Outcomes(plan) :
        /\ restarts' = IF o.restarted THEN restarts + 1 ELSE restarts
        /\ crashed' = (crashed /\ ~o.ok)
        /\ zombie' = IF o.ok /\ zombie = "yes" THEN "recovered" ELSE zombie
        /\ Ends(IF o.ok THEN "pass" ELSE "fail")
    /\ plan' = "none"
    /\ UNCHANGED <<fileVars, locks, todo, cur, history, flags, watchdog, exit>>

\* Mutant for ZombieStartsNothing: clears the crash flag of a recovery that has failed.
RecoveredOrNot ==
    /\ pc = "recover"
    /\ \E o \in Outcomes(plan) :
        /\ restarts' = IF o.restarted THEN restarts + 1 ELSE restarts
        /\ crashed' = FALSE
        /\ zombie' = IF o.ok /\ zombie = "yes" THEN "recovered" ELSE zombie
        /\ Ends("fail")
    /\ plan' = "none"
    /\ UNCHANGED <<fileVars, locks, todo, cur, history, flags, watchdog, exit>>

\* A recovery that succeeds clears the crash flag, whoever has set it.
Recovered ==
    /\ pc = "recover"
    /\ \E o \in Outcomes(plan) :
        LET again == {g \in Failures : g.type = history[Len(history)].type}
            giveUp == EndsWith(history, again, MaxConsecutive)
        IN  /\ restarts' = IF o.restarted THEN restarts + 1 ELSE restarts
            /\ crashed' = ((crashed /\ ~o.ok) \/ giveUp)
            /\ zombie' = IF o.ok /\ zombie = "yes" THEN "recovered" ELSE zombie
            /\ Ends(IF giveUp THEN "deterministic_fail" ELSE "fail")
    /\ plan' = "none"
    /\ UNCHANGED <<fileVars, locks, todo, cur, history, flags, watchdog, exit>>

-----------------------------------------------------------------------------
(* core/orchestrator.py: stop_session                                       *)

\* The watchdog is cancelled, the evidence sealed, the lock given back.
StopSession ==
    /\ pc = "stop"
    /\ watchdog' = "off" /\ LetGo
    /\ pc' = "clear"
    /\ UNCHANGED <<fileVars, caseVars, failVars, flags, zombie, exit,
                   campaign>>


\* Mutant for ClearedWhenDone: removes the file of a session that was stopped on request.
FinishSessionClearing ==
    /\ pc = "clear"
    /\ IF crashed THEN UNCHANGED fileVars ELSE ClearProgress
    /\ exit' = IF \E c \in Cases : verdict[c] \in {"fail", "crash"}
               THEN "red" ELSE "green"
    /\ pc' = "returned"
    /\ UNCHANGED <<locks, caseVars, failVars, flags, dogVars, campaign>>

\* A session that neither crashed nor was stopped leaves no file.  The exit
\* code looks at the verdicts fail and crash only.
FinishSession ==
    /\ pc = "clear"
    /\ IF crashed \/ keep THEN UNCHANGED fileVars ELSE ClearProgress
    /\ exit' = IF \E c \in Cases : verdict[c] \in {"fail", "crash"}
               THEN "red" ELSE "green"
    /\ pc' = "returned"
    /\ UNCHANGED <<locks, caseVars, failVars, flags, dogVars, campaign>>

\* The process ends, and with it what it still holds.
ProcessExits ==
    /\ pc = "returned"
    /\ pc' = "out" /\ LetGo
    /\ UNCHANGED <<fileVars, caseVars, failVars, flags, dogVars, exit,
                   campaign>>

-----------------------------------------------------------------------------
(* Everybody else                                                           *)

\* core/watchdog.py: no heartbeat, or a process is gone, while the session
\* awaits.  It marks the session as crashed and looks no more.  Nothing in the
\* source sets a GUI probe or spends the restart budget, so what it finds is
\* never taken for an incident of the environment.  No adapter names a process
\* to kill, but the cleanup runs all the same, and removes a file of the lock's
\* name from the working directory, if it can.
WatchdogFires ==
    /\ watchdog = "watching" /\ pc \in {"case", "recover", "save"}
    /\ watchdog' = "done" /\ zombie' = "yes" /\ crashed' = TRUE
    /\ astray' \in {astray, astray \/ LockInReach}
    /\ UNCHANGED <<fileVars, pc, lock, rival, caseVars, history, plan, restarts,
                   flags, exit, campaign>>

AskToStop ==
    /\ pc \in InSession /\ ~asked
    /\ asked' = TRUE
    /\ UNCHANGED <<fileVars, pc, locks, caseVars, failVars, keep, dogVars,
                   exit, campaign>>

\* The process is killed, or an exception escapes from the adapter, a hook or
\* the status callback and nobody stops the session.
Dies ==
    /\ pc # "out"
    /\ pc' = "out" /\ LetGo /\ watchdog' = "off" /\ exit' = "died"
    /\ UNCHANGED <<fileVars, caseVars, failVars, flags, zombie,
                   campaign>>

RivalLocks ==
    /\ ~rival /\ (lock => astray)
    /\ rival' = TRUE
    /\ UNCHANGED <<fileVars, pc, lock, astray, caseVars, failVars, flags, dogVars,
                   exit, campaign>>

RivalUnlocks ==
    /\ rival
    /\ rival' = FALSE /\ astray' = (astray /\ lock)
    /\ UNCHANGED <<fileVars, pc, lock, caseVars, failVars, flags, dogVars,
                   exit, campaign>>

-----------------------------------------------------------------------------
Command == Run \/ RunNoResume \/ Resume \/ ResumeWithoutFile
Start == Acquire \/ SessionBusy \/ CheckpointPassed \/ CheckpointFailed \/ Started
Loop == StartCase \/ SkipCase \/ AllDone \/ CaseSaved \/ StopsAsAsked
Case == CaseEnds \/ CaseBreaks \/ FailsFatally \/ FailsForGood
            \/ FailsAndRecovers \/ Recovered
Finish == StopSession \/ FinishSession \/ ProcessExits
Others == Corrupt \/ WatchdogFires \/ AskToStop \/ Dies \/ RivalLocks \/ RivalUnlocks

\* What the process of a command does by itself.
Advance == Start \/ Loop \/ Case \/ Finish
Next == Command \/ Advance \/ Others

\* Every call a session makes has a timeout, so its process does not stand still.
Spec == Init /\ [][Next]_vars /\ WF_vars(Advance)

-----------------------------------------------------------------------------
(* Properties                                                               *)

\* The lock is held from the first look at the game to the end of the session,
\* on every way out of start_session and stop_session it is given back, and
\* nobody else has it meanwhile, unless the watchdog's cleanup could reach and
\* removed its file.
LockMatchesSession ==
    /\ pc \in InSession => lock /\ (rival => astray)
    /\ pc \notin InSession => ~lock
    /\ astray => LockInReach

\* Whenever the process dies, the file it leaves still lists every case that
\* the session has yet to run: save_progress never runs ahead of the cases.
FileLagsBehind ==
    (pc \in InSession \cup {"clear"} /\ file = "good") => todo \subseteq pending

\* A case the file no longer lists got a verdict in this campaign, of this
\* session or of one that was resumed, or was skipped after a crash.
NothingForgotten ==
    file = "good" => Cases \ pending \subseteq ran \cup givenUp

\* stop_session removes the file only when every case of the campaign, those of
\* the sessions before it included, was run or given up.
ClearedWhenDone ==
    [][(pc = "clear" /\ file # "none" /\ file' = "none")
        => ran \cup givenUp = Cases]_vars

\* is_failed ignores deterministic_fail, yet a session with one is never green:
\* before a failure is final another one was reported as fail.  A green session
\* passed all its cases, save those skipped on request or after the watchdog.
GreenIsEarned ==
    exit = "green" =>
        \A c \in Cases :
            \/ verdict[c] \in {"none", "pass"}
            \/ verdict[c] = "skip" /\ (asked \/ zombie # "no")

\* The recovery restarts the game less than max_consecutive_failures times
\* before it gives up, or before a failure that is no crash.
RestartsAreBounded == restarts < MaxConsecutive

\* Once the watchdog has reported the session, no case starts before a recovery
\* has succeeded.
ZombieStartsNothing ==
    [][(pc = "loop" /\ pc' = "case") => zombie # "yes"]_vars

\* Every command ends.
CommandsEnd == pc # "out" ~> pc = "out"
=============================================================================
