----------------------------- MODULE GameLifecycle -----------------------------
(***************************************************************************)
(* GameLifecycleManager, core/lifecycle.py: the readiness check of the     *)
(* game with its bounded recovery (ensure_environment_ready), and the game *)
(* process it watches, kills and launches.                                 *)
(*                                                                         *)
(* The game is one process that others may crash, hang or let boot at any  *)
(* time.  A read of its control API is a step of its own, so whatever has  *)
(* been read may be outdated when it is used.  A read of a sound game may  *)
(* fail, MaxGlitches times in one call.  A wait is one step that ends with *)
(* the sight it waits for or, if that was not there to be seen, with the   *)
(* timeout.                                                                *)
(*                                                                         *)
(* Abstracted: the handles by which a process is found and killed, the     *)
(* port, the environment passed to the game, and the reasons, checks and   *)
(* durations of the verdict.                                               *)
(***************************************************************************)
EXTENDS Naturals

CONSTANTS
    MaxRecoveries, \* max_recoveries
    Retries,       \* quick retries of a probe that failed
    GracePolls,    \* polls in the boot window of _wait_until_ready
    MaxGlitches    \* reads of a sound game that may fail in one call

ASSUME LifecycleAssumption ==
    /\ MaxRecoveries \in Nat
    /\ Retries \in Nat
    /\ GracePolls \in Nat \ {0}
    /\ MaxGlitches \in Nat

VARIABLES
    viaSteam,   \* is the game started by Steam (macOS), not by us?
    game,       \* the game process
    pending,    \* has Steam accepted a launch it has not carried out?
    glitches,   \* reads of a sound game that may still fail in this call
    lpc,        \* where ensure_environment_ready is
    polls,      \* retries or polls it has left
    preProcess, \* pre_process: was there a process when it looked?
    attempts,   \* recovery cycles begun
    readiness,  \* its last verdict
    launches,   \* games launched in this call
    steady      \* has the game been ready ever since the call?

gameVars   == <<game, pending>>
ensureVars == <<lpc, polls, preProcess, attempts, readiness, steady>>
lifeVars   == <<gameVars, glitches, ensureVars, launches>>

-----------------------------------------------------------------------------
(* The game process.                                                        *)

\* "boot": its screen reads UNKNOWN, or its API refuses the connection.
\* "loading": it shows the main menu, but the control mod publishes no action.
\* "menu", "run": it can be operated, on the main menu or in a run.
\* "wedged": a process whose API does not answer.
GameState == {"gone", "boot", "loading", "menu", "run", "wedged"}

Ready        == {"menu", "run"}            \* what _probe_ready accepts
Controllable == {"loading", "menu", "run"} \* what wait_for_controllable accepts

Present == game # "gone"

\* One read of the API that shows the game in one of the states S ...
Seen(S) == game \in S /\ UNCHANGED glitches

\* ... and one that does not, because it is in another state or the read fails.
CanMiss(S) == game \notin S \/ glitches > 0

NotSeen(S) ==
    \/ game \notin S /\ UNCHANGED glitches
    \/ game \in S /\ glitches > 0 /\ glitches' = glitches - 1

\* Steam carries out the launch it accepted; it never runs the game twice.
SteamStarts ==
    /\ pending
    /\ pending' = FALSE
    /\ game' = IF game = "gone" THEN "boot" ELSE game

SteamGivesUp == pending /\ pending' = FALSE /\ UNCHANGED game

MenuAppears == game = "boot" /\ game' = "loading" /\ UNCHANGED pending

ModLoaded == game = "loading" /\ game' = "menu" /\ UNCHANGED pending

\* It crashes, or stays as a process that does not answer.
GameDies ==
    /\ game \notin {"gone", "wedged"}
    /\ game' \in {"gone", "wedged"}
    /\ UNCHANGED pending

WedgedExits == game = "wedged" /\ game' = "gone" /\ UNCHANGED pending

\* What the game does by itself.
GameMoves ==
    /\ \/ SteamStarts \/ SteamGivesUp \/ ModLoaded \/ GameDies \/ WedgedExits
    /\ steady' = (steady /\ game' \in Ready)
    /\ UNCHANGED <<glitches, lpc, polls, preProcess, attempts, readiness, launches>>

\* MenuAppears is apart: a menu that is built anew may show wrong frames.
GameShowsMenu ==
    /\ MenuAppears
    /\ UNCHANGED <<glitches, ensureVars, launches>>

-----------------------------------------------------------------------------
(* terminate and launch.                                                    *)

\* terminate() and the waits for the process and the port: best effort, the
\* process may refuse to die (AccessDenied), and then the caller goes on.
Kill == game' \in {"gone", game} /\ UNCHANGED pending

\* launch(): nothing if there is a process.  Otherwise Popen, or a request that
\* Steam accepts; if every `open` command fails, launch returns 0 all the same.
Launch ==
    IF Present THEN UNCHANGED <<gameVars, launches>>
    ELSE \/ /\ IF viaSteam THEN pending' = TRUE /\ UNCHANGED game
                           ELSE game' = "boot" /\ UNCHANGED pending
            /\ launches' = launches + 1
         \/ viaSteam /\ UNCHANGED <<gameVars, launches>>

-----------------------------------------------------------------------------
(* ensure_environment_ready.                                                *)

EnsurePc == {"idle", "probe", "look", "grace", "reprobe", "recover",
             "terminate", "launch", "await", "verify"}

\* The call.
Ensure ==
    /\ lpc' = "probe"
    /\ polls' = Retries
    /\ preProcess' = FALSE
    /\ attempts' = 0
    /\ readiness' = "none"
    /\ steady' = (game \in Ready)

\* It returns, and its variables are gone.
Verdict(v) ==
    /\ lpc' = "idle"
    /\ readiness' = v
    /\ polls' = 0
    /\ preProcess' = FALSE
    /\ attempts' = 0
    /\ steady' = FALSE

\* A probe: the first one is retried at short intervals before anything else.
ProbeReady ==
    /\ lpc = "probe"
    /\ Seen(Ready)
    /\ Verdict("ready")
    /\ UNCHANGED <<gameVars, launches>>

ProbeFails ==
    /\ lpc = "probe"
    /\ NotSeen(Ready)
    /\ IF polls > 0 THEN polls' = polls - 1 /\ UNCHANGED lpc
                    ELSE lpc' = "look" /\ UNCHANGED polls
    /\ UNCHANGED <<gameVars, preProcess, attempts, readiness, steady, launches>>

\* Mutant for GoodGameSurvives: no boot grace period.
LookImpatient ==
    /\ lpc = "look"
    /\ preProcess' = Present
    /\ lpc' = "recover"
    /\ UNCHANGED <<gameVars, glitches, polls, attempts, readiness, steady, launches>>

\* A process that cannot be controlled may still be booting: it gets the whole
\* boot window before it counts as stale.
Look ==
    /\ lpc = "look"
    /\ preProcess' = Present
    /\ IF Present THEN lpc' = "grace" /\ polls' = GracePolls
                  ELSE lpc' = "recover" /\ UNCHANGED polls
    /\ UNCHANGED <<gameVars, glitches, attempts, readiness, steady, launches>>

GraceEnds ==
    /\ lpc = "grace"
    /\ Seen(Ready)
    /\ lpc' = "reprobe"
    /\ UNCHANGED <<gameVars, polls, preProcess, attempts, readiness, steady, launches>>

GracePollFails ==
    /\ lpc = "grace"
    /\ NotSeen(Ready)
    /\ IF polls > 1 THEN polls' = polls - 1 /\ UNCHANGED lpc
                    ELSE lpc' = "recover" /\ UNCHANGED polls
    /\ UNCHANGED <<gameVars, preProcess, attempts, readiness, steady, launches>>

\* The probe after the wait decides, not the wait.
Reprobe ==
    /\ lpc = "reprobe"
    /\ \/ Seen(Ready) /\ Verdict("ready")
       \/ /\ NotSeen(Ready)
          /\ lpc' = "recover"
          /\ preProcess' = Present
          /\ UNCHANGED <<polls, attempts, readiness, steady>>
    /\ UNCHANGED <<gameVars, launches>>

\* Mutant for OneStart: one attempt too many.
RecoverOnceMore ==
    /\ lpc = "recover"
    /\ IF attempts <= MaxRecoveries
         THEN /\ attempts' = attempts + 1
              /\ lpc' = IF preProcess THEN "terminate" ELSE "launch"
              /\ UNCHANGED <<polls, preProcess, readiness, steady>>
         ELSE Verdict("notReady")
    /\ UNCHANGED <<gameVars, glitches, launches>>

Recover ==
    /\ lpc = "recover"
    /\ IF attempts < MaxRecoveries
         THEN /\ attempts' = attempts + 1
              /\ lpc' = IF preProcess THEN "terminate" ELSE "launch"
              /\ UNCHANGED <<polls, preProcess, readiness, steady>>
         ELSE Verdict("notReady")
    /\ UNCHANGED <<gameVars, glitches, launches>>

\* terminate() may raise (psutil.process_iter), and so does the whole call.
TerminateStale ==
    /\ lpc = "terminate"
    /\ \/ /\ Kill
          /\ lpc' = "launch"
          /\ steady' = FALSE
          /\ UNCHANGED <<polls, preProcess, attempts, readiness>>
       \/ Verdict("raised") /\ UNCHANGED gameVars
    /\ UNCHANGED <<glitches, launches>>

LaunchFresh ==
    /\ lpc = "launch"
    /\ Launch
    /\ lpc' = "await"
    /\ UNCHANGED <<glitches, polls, preProcess, attempts, readiness, steady>>

\* Popen raises: no further attempt.
LaunchRaises ==
    /\ lpc = "launch"
    /\ ~Present /\ ~viaSteam
    /\ Verdict("notReady")
    /\ UNCHANGED <<gameVars, glitches, launches>>

\* wait_for_controllable.
AwaitControllable ==
    /\ lpc = "await"
    /\ \/ Seen(Controllable) /\ lpc' = "verify"
       \/ NotSeen(Controllable) /\ lpc' = "recover"
    /\ UNCHANGED <<gameVars, polls, preProcess, attempts, readiness, steady, launches>>

Verify ==
    /\ lpc = "verify"
    /\ \/ Seen(Ready) /\ Verdict("ready")
       \/ /\ NotSeen(Ready)
          /\ lpc' = "recover"
          /\ UNCHANGED <<polls, preProcess, attempts, readiness, steady>>
    /\ UNCHANGED <<gameVars, launches>>

EnsureStep ==
    \/ ProbeReady \/ ProbeFails \/ Look \/ GraceEnds \/ GracePollFails \/ Reprobe
    \/ Recover \/ TerminateStale \/ LaunchFresh \/ LaunchRaises
    \/ AwaitControllable \/ Verify

-----------------------------------------------------------------------------
LifeInit ==
    /\ viaSteam \in BOOLEAN
    /\ game \in GameState
    /\ pending = FALSE
    /\ glitches = MaxGlitches
    /\ lpc = "idle"
    /\ polls = 0
    /\ preProcess = FALSE
    /\ attempts = 0
    /\ readiness = "none"
    /\ launches = 0
    /\ steady = FALSE

LifeTypeOK ==
    /\ viaSteam \in BOOLEAN
    /\ game \in GameState
    /\ pending \in BOOLEAN
    /\ glitches \in 0..MaxGlitches
    /\ lpc \in EnsurePc
    /\ polls \in Nat
    /\ preProcess \in BOOLEAN
    /\ attempts \in Nat
    /\ readiness \in {"none", "ready", "notReady", "raised"}
    /\ launches \in Nat
    /\ steady \in BOOLEAN

================================================================================
