----------------------------- MODULE TestAgent -----------------------------
(***************************************************************************)
(* core/test_agent_runner.py (TestAgentRunner): runs of the acceptance     *)
(* workflow of one MOD on one machine, one after the other - validate,     *)
(* build, localization, deploy, launch, smoke test, report.  The sources   *)
(* change between runs, the mods directory and the game outlive a run, a   *)
(* launch request may be honoured late, and the game loads the mods when   *)
(* it starts.  Versions of the MOD are numbers.  The MOD's directory under *)
(* the mods path holds, of each file, the version that was written last:   *)
(* build, publish and the deployment write over what is there, and nothing *)
(* clears it.                                                              *)
(***************************************************************************)
EXTENDS Naturals

CONSTANTS
    Versions,   \* how far the sources get
    Extras,     \* the versions whose output has a file more than the assembly
    Tries,      \* attempts of a navigation loop (12 in the code)
    Hand        \* cards dealt

VARIABLES
    flags,   \* skip_deploy, skip_launch_game, skip_game_smoke, a character is configured
    mod,     \* sources, bin/Release, the files in the mods directory
    game,    \* running, requested, loaded files, screen, character of the run
    pc,      \* the step of the run
    count,   \* attempts or cards of the running loop
    found,   \* what this run built, deployed, tested, reused and saw fail
    verdict  \* _conclusion

taVars == <<flags, mod, game, pc, count, found, verdict>>

(* A file that is not there, or only in part, is of version 0.  bin/Release*)
(* is 0 when it is not there and Torn when a failing publish wrote to it.  *)
Torn == Versions + 1
Parts == {"assembly", "extra"}
NoFiles == [f \in Parts |-> 0]
Files(version) == IF version \in Extras THEN Parts ELSE {"assembly"}

NoFind == [built |-> 0, deployed |-> 0, tested |-> NoFiles, hero |-> "none",
           reused |-> FALSE, failed |-> FALSE]
Off == [on |-> FALSE, asked |-> FALSE, loaded |-> NoFiles, screen |-> "none", hero |-> "none"]
Flags == [deploy : BOOLEAN, launch : BOOLEAN, smoke : BOOLEAN, character : BOOLEAN]

Plain == [deploy |-> FALSE, launch |-> FALSE, smoke |-> FALSE, character |-> TRUE]

TaInit ==
    /\ flags = Plain
    /\ mod = [source |-> 1, release |-> 0, mods |-> NoFiles]
    /\ game = Off /\ pc = "idle" /\ count = 0 /\ found = NoFind /\ verdict = "none"

To(step) == pc' = step /\ count' = 0 /\ UNCHANGED verdict
Again == UNCHANGED <<pc, verdict>> /\ count' = count + 1
(* _Blocked, _Failed and every other exception end the steps.              *)
Ends(conclusion) == pc' = "report" /\ verdict' = conclusion /\ UNCHANGED count
Failed == Ends("FAILED")
Outside == UNCHANGED <<flags, mod, game>>

-----------------------------------------------------------------------------
Start ==
    /\ pc = "idle" /\ flags' \in Flags /\ pc' = "validate" /\ count' = 0 /\ verdict' = "PASSED"
    /\ found' = NoFind /\ UNCHANGED <<mod, game>>

Validate == pc = "validate" /\ (Ends("BLOCKED") \/ To("build")) /\ Outside /\ UNCHANGED found

(* Files of a version written over the directory, some of them in part; a  *)
(* torn output has no file that is known to be whole.                      *)
After(written, torn, version) ==
    [f \in Parts |-> IF f \in written THEN version ELSE IF f \in torn THEN 0 ELSE mod.mods[f]]
Partly(version) ==
    IF version = Torn THEN {After({}, torn, 0) : torn \in SUBSET Parts}
    ELSE {After(written, torn, version) : written, torn \in SUBSET Files(version)}

(* dotnet restore and build, then publish when the manifest declares a pck.*)
(* Both get the mods path (build gets an empty one under --skip-deploy, and*)
(* publish is left out), so that the project's own targets may deploy, and *)
(* publish may write bin/Release.  bin/Debug is the build of the run: a    *)
(* later step reads it only after this one has written it.  The pck is not *)
(* among the files: that it is missing is one of the failures.             *)
Built ==
    /\ To("localization") /\ found' = [found EXCEPT !.built = mod.source]
    /\ \E release \in {mod.release, mod.source}, written \in SUBSET Files(mod.source) :
          /\ flags.deploy => release = mod.release /\ written = {}
          /\ mod' = [mod EXCEPT !.release = release, !.mods = After(written, {}, mod.source)]
BuildFails ==
    /\ Failed /\ UNCHANGED found
    /\ \E release \in {mod.release, Torn}, mods \in Partly(mod.source) :
          /\ flags.deploy => release = mod.release /\ mods = mod.mods
          /\ mod' = [mod EXCEPT !.release = release, !.mods = mods]
Build ==
    /\ pc = "build" /\ UNCHANGED <<flags, game>>
    /\ (Ends("BLOCKED") /\ UNCHANGED <<mod, found>>) \/ BuildFails \/ Built

Localization ==
    /\ pc = "localization" /\ (Ends("BLOCKED") \/ Failed \/ To("deploy")) /\ Outside /\ UNCHANGED found

(* _find_build_output: Release before Debug, whichever is newer.           *)
BuildOutput == IF mod.release # 0 THEN mod.release ELSE found.built
NoModsPath ==
    /\ UNCHANGED <<mod, found>>
    /\ IF flags.smoke THEN To("launch") ELSE Ends("BLOCKED")
CopiedPartly == \E mods \in Partly(BuildOutput) : mod' = [mod EXCEPT !.mods = mods]
Copied ==
    \/ BuildOutput = Torn /\ CopiedPartly /\ UNCHANGED found
    \/ /\ BuildOutput # Torn /\ found' = [found EXCEPT !.deployed = BuildOutput]
       /\ mod' = [mod EXCEPT !.mods = After(Files(BuildOutput), {}, BuildOutput)]

(* Mutant: a copy that fails in the middle is only logged.                 *)
DeployLogged ==
    /\ pc = "deploy" /\ UNCHANGED <<flags, game>>
    /\ IF flags.deploy THEN To("launch") /\ UNCHANGED <<mod, found>>
       ELSE \/ NoModsPath
            \/ CopiedPartly /\ found' = [found EXCEPT !.deployed = BuildOutput] /\ To("launch")

Deploy ==
    /\ pc = "deploy" /\ UNCHANGED <<flags, game>>
    /\ IF flags.deploy THEN To("launch") /\ UNCHANGED <<mod, found>>
       ELSE \/ NoModsPath
            \/ Ends("FAILED") /\ UNCHANGED <<mod, found>>
            \/ CopiedPartly /\ UNCHANGED found /\ Ends("BLOCKED")
            \/ Copied /\ To("launch")

(* SteamController.start_steam and start_game(reuse_existing), then        *)
(* _launch_game_via_desktop_open when they raise: that one asks and does   *)
(* not look.                                                               *)
LaunchGame ==
    /\ pc = "launch" /\ UNCHANGED <<flags, mod>>
    /\ IF flags.launch \/ flags.smoke THEN To("health") /\ UNCHANGED <<game, found>>
       ELSE /\ found' = [found EXCEPT !.reused = game.on]
            /\ game' = [game EXCEPT !.asked = @ \/ ~game.on]
            /\ To(IF game.on THEN "health" ELSE "launching")
Launched == pc = "launching" /\ game.on /\ To("health") /\ Outside /\ UNCHANGED found
DesktopOpen ==
    /\ pc = "launching" /\ UNCHANGED <<flags, mod, found>>
    /\ \/ Ends("BLOCKED") /\ UNCHANGED game
       \/ To("health") /\ game' = [game EXCEPT !.asked = TRUE]

-----------------------------------------------------------------------------
(* _step_game_smoke.  An adapter that raises or refuses fails the run.     *)
Health ==
    /\ pc = "health" /\ Outside /\ UNCHANGED found
    /\ IF flags.smoke THEN Ends("PASSED")
       ELSE Ends("BLOCKED") \/ (game.on /\ To("run"))

Refused == Failed /\ UNCHANGED <<flags, mod, game, found>>
Shows(screens) == \E s \in screens : game' = [game EXCEPT !.screen = s]

(* _is_existing_target_run_state: the run in progress is taken over.       *)
IsTargetRun == IF flags.character THEN game.hero = "target" ELSE game.hero # "none"
ReadRun ==
    /\ pc = "run" /\ game.on /\ To(IF IsTargetRun THEN "advance" ELSE "open")
    /\ Outside /\ UNCHANGED found

OpenCharacterSelect ==
    /\ pc = "open" /\ game.on /\ UNCHANGED <<flags, mod, found>>
    /\ IF game.screen = "CHARACTER_SELECT" THEN To("select") /\ UNCHANGED game
       ELSE IF count = Tries THEN Failed /\ UNCHANGED game
       ELSE Again /\ (UNCHANGED game \/ (game.screen = "MAIN_MENU" /\ Shows({"CHARACTER_SELECT"})))

(* By id, then by the index of the option; the agent answers success for   *)
(* whatever it has selected.                                               *)
SelectTargetCharacter ==
    /\ pc = "select" /\ game.on /\ To("embark")
    /\ game' \in {[game EXCEPT !.hero = h] : h \in {"target", "other"}} /\ UNCHANGED <<flags, mod, found>>

Embark == pc = "embark" /\ game.on /\ To("advance") /\ Shows({"EVENT", "MAP"}) /\ UNCHANGED <<flags, mod, found>>

(* _assert_target_character_selected and _assert_runtime_text_state.       *)
ReachesCombat ==
    /\ pc = "advance" /\ game.on /\ game.screen = "COMBAT" /\ count < Tries /\ Outside
    /\ \/ /\ flags.character => game.hero = "target"
          /\ To("cards") /\ found' = [found EXCEPT !.tested = game.loaded, !.hero = game.hero]
       \/ Failed /\ UNCHANGED found
Advance ==
    /\ pc = "advance" /\ game.on /\ game.screen # "COMBAT" /\ UNCHANGED <<flags, mod, found>>
    /\ IF count = Tries \/ game.screen \notin {"EVENT", "MAP", "CARD_REWARD"} THEN Failed /\ UNCHANGED game
       ELSE Again /\ Shows(IF game.screen = "MAP" THEN {"COMBAT", "EVENT"}
                           ELSE {"MAP", "EVENT", "CARD_REWARD", "COMBAT"})

(* One card of the hand: it left the hand, it is only read, or it is       *)
(* played and compared with what it announces.                             *)
VerifyCard ==
    /\ pc = "cards" /\ game.on /\ count < Hand /\ UNCHANGED <<flags, mod>>
    /\ \/ Again /\ UNCHANGED <<game, found>>
       \/ /\ game.screen = "COMBAT" /\ Again /\ Shows({"COMBAT", "CARD_REWARD"})
          /\ \E bad \in BOOLEAN : found' = [found EXCEPT !.failed = @ \/ bad]
NoHand == pc = "cards" /\ count = 0 /\ Refused
CardsDone ==
    /\ pc = "cards" /\ count = Hand /\ Outside /\ UNCHANGED found
    /\ IF found.failed THEN Failed ELSE To("abandon")

(* The answer to abandon_run is not looked at.                             *)
AbandonRun ==
    /\ pc = "abandon" /\ game.on /\ To("scan") /\ UNCHANGED <<flags, mod, found>>
    /\ game' \in {game, [game EXCEPT !.screen = "MAIN_MENU", !.hero = "none"]}
FinalScan ==
    /\ pc = "scan" /\ game.on /\ (Failed \/ Ends("PASSED")) /\ Outside /\ UNCHANGED found

AgentRaises == pc \in {"run", "open", "select", "embark", "advance", "cards", "abandon", "scan"} /\ Refused

(* The report is written in the finally; a report that cannot be written   *)
(* takes the result with it.  The run is over, and with it its variables.  *)
WriteReport ==
    /\ pc = "report" /\ pc' = "idle" /\ UNCHANGED <<mod, game>>
    /\ flags' = Plain /\ verdict' = "none" /\ found' = NoFind /\ count' = 0

-----------------------------------------------------------------------------
(* The developer and the machine.                                          *)
World == UNCHANGED <<flags, pc, count, found, verdict>>
EditSources == pc = "idle" /\ mod.source < Versions /\ mod' = [mod EXCEPT !.source = @ + 1] /\ World /\ UNCHANGED game
GameStarts ==
    /\ game.asked /\ ~game.on /\ World /\ UNCHANGED mod
    /\ game' = [Off EXCEPT !.on = TRUE, !.loaded = mod.mods, !.screen = "MAIN_MENU"]
GameExits == game.on /\ game' = Off /\ World /\ UNCHANGED mod

TaNext ==
    \/ Start \/ Validate \/ Build \/ Localization \/ Deploy \/ LaunchGame \/ Launched \/ DesktopOpen
    \/ Health \/ ReadRun \/ OpenCharacterSelect \/ SelectTargetCharacter \/ Embark \/ ReachesCombat
    \/ Advance \/ VerifyCard \/ NoHand \/ CardsDone \/ AbandonRun \/ FinalScan \/ AgentRaises
    \/ WriteReport \/ EditSources \/ GameStarts \/ GameExits

-----------------------------------------------------------------------------
(* PASSED with a smoke test says that no card failed, that the fight was   *)
(* the configured character's, and, when the run had the game started and  *)
(* copied the output of its own build, that the game of the fight had      *)
(* loaded every file of this build, whatever failed builds and copies of   *)
(* earlier runs left in the mods directory and however late the game came  *)
(* (run, _step_build, _step_deploy, _step_launch_game).  It says no more,  *)
(* as the code does test other things: a game that runs already is reused; *)
(* a Release output of an earlier build is preferred to the Debug one just *)
(* built; files of earlier versions that this one has not stay in the mods *)
(* directory.                                                              *)
PassedMeansTested ==
    verdict = "PASSED" /\ pc = "report" /\ ~flags.smoke =>
        /\ ~found.failed
        /\ flags.character => found.hero = "target"
        /\ ~flags.launch /\ ~found.reused /\ found.deployed = found.built =>
              \A f \in Files(found.built) : found.tested[f] = found.built
=============================================================================
