------------------------------ MODULE MenuRecovery ------------------------------
(***************************************************************************)
(* How a journey worker brings the game back to a clean main menu, one     *)
(* that can be operated and has no saved run: ensure_clean_main_menu,      *)
(* recover_main_menu_via_restart and _run_environment_precheck of          *)
(* core/run_executor.py, with the judgement of core/main_menu_state.py.    *)
(*                                                                         *)
(* A menu that has just been built, by a start or by abandoning a run, may *)
(* for a while show frames that say the opposite of the truth: `haze` of   *)
(* them are still to come, MaxHaze at most.  The field has_run_save is     *)
(* read from the save system and never lies, but it need not be published. *)
(*                                                                         *)
(* Abstracted: the other fields of the report, the cache of the adapter    *)
(* (refreshed before each read that counts), and time: the game does not   *)
(* boot between two reads of one settle, which are a second apart.         *)
(***************************************************************************)
EXTENDS GameLifecycle

CONSTANTS
    StableFrames, \* stable_clean_frames and stable_dirty_frames
    SettleTries,  \* reads of one _settle_main_menu_state
    MaxHaze       \* misleading frames after a menu has been built

ASSUME RecoveryAssumption ==
    /\ StableFrames \in Nat
    /\ SettleTries \in Nat
    /\ MaxHaze \in Nat

\* Three stable frames are asked for because fewer than three may lie in a row,
\* and a probe is retried because few reads in a row fail.
ASSUME EnvironmentAssumption ==
    /\ MaxHaze < StableFrames
    /\ MaxGlitches <= Retries + 1

VARIABLES
    save,        \* does a saved run exist?
    haze,        \* misleading frames still to come
    rpc,         \* where the procedure is
    stage,       \* "check": ensure_clean_main_menu; "restart": the restart
    abandoned,   \* has this stage tried to abandon the run?
    result,      \* what the last call returned
    left, cleanStreak, dirtyStreak, sawSavedRun, decidable, lastFrame
                 \* the variables of _settle_main_menu_state

settleVars == <<left, cleanStreak, dirtyStreak, sawSavedRun, decidable, lastFrame>>
menuVars   == <<save, haze>>
callVars   == <<stage, abandoned, result>>
recVars    == <<menuVars, rpc, callVars, settleVars>>
vars       == <<viaSteam, lifeVars, recVars>>

-----------------------------------------------------------------------------
(* Frames of the main menu.                                                 *)

Frame == [field   : {"yes", "no", "unpublished"},
          actions : SUBSET {"new_run", "continue_run", "abandon_run"}]

\* frame_dirty: the field decides, and only without it the actions.
FrameDirty(f) ==
    IF f.field = "unpublished" THEN "continue_run" \in f.actions
                               ELSE f.field = "yes"

\* frame_clean.
FrameClean(f) ==
    /\ f.field # "yes"
    /\ "new_run" \in f.actions
    /\ f.field = "unpublished" => {"continue_run", "abandon_run"} \cap f.actions = {}

\* The frames the menu may show: the field is true if it is there.
Shown(f) == f.field \in {"unpublished", IF save THEN "yes" ELSE "no"}

Misleading(f) ==
    /\ f.field = "unpublished"
    /\ f.actions # {}
    /\ ("continue_run" \in f.actions) # save

\* The menu shows f.
Shows(f) ==
    /\ f \in Frame
    /\ Shown(f)
    /\ game = "loading" => f.actions = {}
    /\ IF Misleading(f) THEN haze > 0 /\ haze' = haze - 1 ELSE UNCHANGED haze

-----------------------------------------------------------------------------
(* _settle_main_menu_state.                                                 *)

\* Its variables at the start, with t reads to go.
Fresh(t) ==
    /\ left' = t
    /\ cleanStreak' = 0
    /\ dirtyStreak' = 0
    /\ sawSavedRun' = FALSE
    /\ decidable' = FALSE
    /\ lastFrame' = "unread"

Settle == rpc' = "settle" /\ Fresh(SettleTries)

\* Mutant for TypeOK: the number of tries is not looked at.
SettledTireless ==
    \/ lastFrame \in {"none", "other"}
    \/ sawSavedRun /\ dirtyStreak >= StableFrames
    \/ ~sawSavedRun /\ cleanStreak >= StableFrames

Settled ==
    \/ left = 0
    \/ lastFrame \in {"none", "other"}
    \/ sawSavedRun /\ dirtyStreak >= StableFrames
    \/ ~sawSavedRun /\ cleanStreak >= StableFrames

\* Mutant for CleanIsTrue: one clean frame is enough.
ConclusionFromOneFrame ==
    IF sawSavedRun THEN "dirty"
    ELSE IF cleanStreak > 0 THEN "clean" ELSE "undecidable"

Conclusion ==
    IF sawSavedRun THEN "dirty"
    ELSE IF cleanStreak >= StableFrames THEN "clean" ELSE "undecidable"

\* The frame returned is None: the last read failed and no earlier frame of
\* this settle was decidable.
Lost == ~decidable /\ lastFrame = "none"

Judge(f) ==
    \/ /\ FrameDirty(f)
       /\ sawSavedRun' = TRUE
       /\ cleanStreak' = 0
       /\ dirtyStreak' = dirtyStreak + 1
       /\ decidable' = TRUE
    \/ /\ ~FrameDirty(f) /\ FrameClean(f)
       /\ cleanStreak' = cleanStreak + 1
       /\ dirtyStreak' = 0
       /\ decidable' = TRUE
       /\ UNCHANGED sawSavedRun
    \/ /\ ~FrameDirty(f) /\ ~FrameClean(f)
       /\ cleanStreak' = 0
       /\ dirtyStreak' = 0
       /\ decidable' = (decidable \/ f.actions # {})
       /\ UNCHANGED sawSavedRun

\* A game that boots may answer with an UNKNOWN page, or not at all.
SettleRead ==
    /\ rpc = "settle"
    /\ ~Settled
    /\ left' = left - 1
    /\ \/ /\ Seen({"loading", "menu"})
          /\ \E f \in Frame : Shows(f) /\ Judge(f)
          /\ lastFrame' = "menu"
       \/ /\ Seen({"run", "boot"})
          /\ lastFrame' = "other"
          /\ UNCHANGED <<haze, cleanStreak, dirtyStreak, sawSavedRun, decidable>>
       \/ /\ NotSeen(Controllable)
          /\ lastFrame' = "none"
          /\ UNCHANGED <<haze, cleanStreak, dirtyStreak, sawSavedRun, decidable>>
    /\ UNCHANGED <<gameVars, ensureVars, launches, save, rpc, callVars>>

-----------------------------------------------------------------------------
(* _abandon_saved_run.  Its result is ignored; the settle after it decides. *)

\* Mutant for RecoveryReturns: the attempt is not remembered.
AbandonAgain ==
    /\ rpc = "abandon"
    /\ \/ NotSeen({"menu"}) /\ Settle /\ UNCHANGED menuVars
       \/ /\ Seen({"menu"})
          /\ save' \in BOOLEAN /\ (save' => save)
          /\ haze' = MaxHaze
          /\ rpc' = "confirm"
          /\ UNCHANGED settleVars
    /\ UNCHANGED <<gameVars, ensureVars, launches, callVars>>

\* act("abandon_run") fails, or it deletes the run or asks for confirmation.
Abandon ==
    /\ rpc = "abandon"
    /\ abandoned' = TRUE
    /\ \/ NotSeen({"menu"}) /\ Settle /\ UNCHANGED menuVars
       \/ /\ Seen({"menu"})
          /\ save' \in BOOLEAN /\ (save' => save)
          /\ haze' = MaxHaze
          /\ rpc' = "confirm"
          /\ UNCHANGED settleVars
    /\ UNCHANGED <<gameVars, ensureVars, launches, stage, result>>

\* The modal is confirmed if the one read shows it; any failure is printed.
Confirm ==
    /\ rpc = "confirm"
    /\ \/ NotSeen({"menu"}) /\ UNCHANGED menuVars
       \/ Seen({"menu"}) /\ save' \in BOOLEAN /\ (save' => save) /\ haze' = MaxHaze
    /\ Settle
    /\ UNCHANGED <<gameVars, ensureVars, launches, callVars>>

-----------------------------------------------------------------------------
(* ensure_clean_main_menu and recover_main_menu_via_restart.                *)

\* The call returns; what it has used up is forgotten.
Return(r) ==
    /\ rpc' = "idle"
    /\ result' = r
    /\ launches' = 0
    /\ glitches' = MaxGlitches

Enter(s, label) ==
    /\ stage' = s
    /\ abandoned' = FALSE
    /\ rpc' = label
    /\ UNCHANGED result

\* The worker calls ensure_clean_main_menu ...
EnsureClean ==
    /\ rpc = "idle"
    /\ Enter("check", "look")
    /\ UNCHANGED <<lifeVars, menuVars, settleVars>>

\* ... after a cancellation, recover_main_menu_via_restart ...
CancelRestart ==
    /\ rpc = "idle"
    /\ Enter("restart", "terminate")
    /\ UNCHANGED <<lifeVars, menuVars, settleVars>>

\* ... and _run_environment_precheck.
Precheck ==
    /\ rpc = "idle"
    /\ Ensure
    /\ rpc' = "precheck"
    /\ UNCHANGED <<gameVars, glitches, launches, menuVars, callVars, settleVars>>

PrecheckEnds ==
    /\ rpc = "precheck"
    /\ lpc = "idle"
    /\ Return(readiness)
    /\ UNCHANGED <<gameVars, ensureVars, menuVars, stage, abandoned, settleVars>>

\* Between the calls the game is played: runs begin, are saved and end.
Play ==
    /\ rpc = "idle"
    /\ game \in Ready
    /\ game' \in Ready
    /\ save' \in BOOLEAN
    /\ game' = "run" => save'
    /\ haze' = MaxHaze
    /\ result' = "none"
    /\ UNCHANGED <<pending, glitches, ensureVars, launches, rpc, stage, abandoned,
                   settleVars>>

\* On any other screen than the main menu, and if the read fails, restart.
LookForMenu ==
    /\ rpc = "look"
    /\ \/ /\ Seen({"loading", "menu"})
          /\ rpc' = "operational"
          /\ UNCHANGED callVars
       \/ NotSeen({"loading", "menu"}) /\ Enter("restart", "terminate")
    /\ UNCHANGED <<gameVars, ensureVars, launches, menuVars, settleVars>>

\* terminate(), without asking, and the wait for the process to go.  It may
\* raise (psutil.process_iter), which blocks the environment.
Terminate ==
    /\ rpc = "terminate"
    /\ \/ Kill /\ rpc' = "clear" /\ UNCHANGED <<glitches, launches, result>>
       \/ Return("blocked") /\ UNCHANGED gameVars
    /\ UNCHANGED <<ensureVars, menuVars, stage, abandoned, settleVars>>

\* The only start: ensure_environment_ready.
StartOnce ==
    /\ rpc = "clear"
    /\ Ensure
    /\ rpc' = "ensure"
    /\ UNCHANGED <<gameVars, glitches, launches, menuVars, callVars, settleVars>>

\* Its verdict is not used, as the game may need longer than that; an exception
\* blocks the environment.
Started ==
    /\ rpc = "ensure"
    /\ lpc = "idle"
    /\ IF readiness = "raised"
         THEN Return("blocked")
         ELSE rpc' = "menu" /\ UNCHANGED <<glitches, launches, result>>
    /\ UNCHANGED <<gameVars, ensureVars, menuVars, stage, abandoned, settleVars>>

\* _wait_for_main_menu, first for the menu, in the restart only (one that is
\* being rebuilt may list no actions) ...
WaitForMenu ==
    /\ rpc = "menu"
    /\ \/ Seen({"menu"}) /\ Settle /\ UNCHANGED <<launches, result>>
       \/ /\ Seen({"loading", "menu"})
          /\ rpc' = "operational"
          /\ UNCHANGED <<launches, result, settleVars>>
       \/ /\ CanMiss({"loading", "menu"})
          /\ Return("blocked")
          /\ UNCHANGED settleVars
    /\ UNCHANGED <<gameVars, ensureVars, menuVars, stage, abandoned>>

\* ... then until it has actions.  At the deadline the last state read counts,
\* and one of a run has actions too.
WaitForActions ==
    /\ rpc = "operational"
    /\ \/ Seen(Ready) /\ Settle /\ UNCHANGED <<launches, callVars>>
       \/ /\ stage = "check" /\ NotSeen(Ready)
          /\ Enter("restart", "terminate")
          /\ UNCHANGED <<launches, settleVars>>
       \/ /\ stage = "restart" /\ CanMiss(Ready)
          /\ Return("blocked")
          /\ UNCHANGED <<stage, abandoned, settleVars>>
    /\ UNCHANGED <<gameVars, ensureVars, menuVars>>

\* What becomes of the conclusion of a settle.
Conclude ==
    /\ rpc = "settle"
    /\ Settled
    /\ \/ /\ stage = "restart" /\ Lost
          /\ Return("blocked")
          /\ UNCHANGED <<stage, abandoned>>
       \/ /\ Conclusion = "dirty" /\ ~abandoned
          /\ rpc' = "abandon"
          /\ UNCHANGED <<glitches, launches, callVars>>
       \/ /\ Conclusion = "clean"
          /\ Return("clean")
          /\ UNCHANGED <<stage, abandoned>>
       \/ /\ stage = "check"
          /\ Conclusion # "clean" /\ (Conclusion = "dirty" => abandoned)
          /\ Enter("restart", "terminate")
          /\ UNCHANGED <<glitches, launches>>
       \/ /\ stage = "restart" /\ ~Lost
          /\ Conclusion # "clean" /\ (Conclusion = "dirty" => abandoned)
          /\ Return("notClean")
          /\ UNCHANGED <<stage, abandoned>>
    /\ Fresh(0)
    /\ UNCHANGED <<gameVars, ensureVars, menuVars>>

-----------------------------------------------------------------------------
Init ==
    /\ LifeInit
    /\ save \in BOOLEAN
    /\ game = "run" => save
    /\ haze = MaxHaze
    /\ rpc = "idle"
    /\ stage = "check"
    /\ abandoned = FALSE
    /\ result = "none"
    /\ left = 0
    /\ cleanStreak = 0
    /\ dirtyStreak = 0
    /\ sawSavedRun = FALSE
    /\ decidable = FALSE
    /\ lastFrame = "unread"

\* The steps of the procedure.
Step ==
    \/ EnsureStep /\ UNCHANGED recVars
    \/ SettleRead \/ Abandon \/ Confirm
    \/ LookForMenu \/ Terminate \/ StartOnce \/ Started
    \/ WaitForMenu \/ WaitForActions \/ Conclude \/ PrecheckEnds

\* A start takes longer than the second between two reads of a settle.
Environment ==
    \/ GameMoves /\ UNCHANGED recVars
    \/ /\ rpc # "settle"
       /\ GameShowsMenu
       /\ haze' = MaxHaze
       /\ UNCHANGED <<save, rpc, callVars, settleVars>>

Calls == EnsureClean \/ CancelRestart \/ Precheck \/ Play

\* The platform stays what it is.
Next == (Step \/ Environment \/ Calls) /\ UNCHANGED viaSteam

Spec == Init /\ [][Next]_vars

\* The worker goes on; neither the game nor Steam need ever do anything.
FairSpec == Spec /\ WF_vars(Step /\ UNCHANGED viaSteam)

-----------------------------------------------------------------------------
RecPc == {"idle", "look", "operational", "settle", "abandon", "confirm",
          "terminate", "clear", "ensure", "menu", "precheck"}

\* The types of the variables.
TypeOK ==
    /\ LifeTypeOK
    /\ save \in BOOLEAN
    /\ haze \in 0..MaxHaze
    /\ rpc \in RecPc
    /\ stage \in {"check", "restart"}
    /\ abandoned \in BOOLEAN
    /\ result \in {"none", "ready", "notReady", "raised", "clean", "notClean", "blocked"}
    /\ left \in 0..SettleTries
    /\ cleanStreak \in Nat
    /\ dirtyStreak \in Nat
    /\ sawSavedRun \in BOOLEAN
    /\ decidable \in BOOLEAN
    /\ lastFrame \in {"unread", "none", "menu", "other"}

\* A game that was ready when ensure_environment_ready was called, and has been
\* since, is not terminated, although up to MaxGlitches reads of it failed.
GoodGameSurvives == lpc = "terminate" => ~steady

\* A menu that a call has reported clean has no saved run: the frames that lie
\* after the menu was built are never enough for a stable conclusion.
CleanIsTrue == rpc = "idle" /\ result = "clean" => ~save

\* One call launches the game at most MaxRecoveries times, once in the code,
\* however slow or broken the game is.
OneStart == launches <= MaxRecoveries

\* The parts of the inductive invariant.  ensure_environment_ready runs only
\* where it is called; its cycles pay for the launches; while the game is
\* sound, the failed probes have used up the glitches; with a saved run, clean
\* frames are paid for by the haze.
RunsWhenCalled == lpc # "idle" => rpc \in {"ensure", "precheck"}

CyclesPayLaunches ==
    /\ launches <= MaxRecoveries
    /\ rpc \in {"terminate", "clear", "ensure", "menu"} => stage = "restart"
    /\ \/ launches = 0
       \/ rpc = "precheck"
       \/ stage = "restart" /\ rpc \notin {"idle", "look", "terminate", "clear"}
    /\ attempts <= MaxRecoveries
    /\ lpc # "idle" => launches <= attempts
    /\ lpc \in {"terminate", "launch"} => launches < attempts

ProbesUseGlitches ==
    steady =>
        /\ game \in Ready
        /\ lpc \in {"probe", "look", "grace", "reprobe"}
        /\ lpc = "probe" => glitches + Retries <= MaxGlitches + polls
        /\ lpc \in {"look", "grace", "reprobe"} => glitches = 0

HazePaysClean == rpc = "settle" /\ save => cleanStreak + haze <= MaxHaze

\* The inductive invariant of the proofs.
RecoveryInv ==
    /\ TypeOK
    /\ RunsWhenCalled
    /\ CyclesPayLaunches
    /\ ProbesUseGlitches
    /\ HazePaysClean
    /\ CleanIsTrue

\* Every call returns.
RecoveryReturns == rpc # "idle" ~> rpc = "idle"

================================================================================
