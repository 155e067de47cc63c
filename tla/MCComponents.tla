---------------------------- MODULE MCComponents ----------------------------
(***************************************************************************)
(* The components that share no state with one another, each checked by    *)
(* itself in one run: `part` says which one a behaviour is about, and the  *)
(* slots hold the variables of that one.  The file lock has variables of   *)
(* its own, those of the module this one extends.                          *)
(***************************************************************************)
EXTENDS LockManager, Sequences

CONSTANTS Packs, Retention,                                  \* EvidencePacks
          Scripts, DebugActions, Resets, Follow, Moves,      \* ActionPath
          Patience, Entries,                                 \* CliAdapter
          Versions, Extras, Tries, Hand,                     \* TestAgent
          Sessions, MaxDepth, Requests,                      \* SessionQueue
          Pids, Starts,                                      \* SteamGame
          Lines, MaxEntries, TailLines, Retries, MaxBytes, MaxAge, Collections, \* LogEvidence
          Polls, PageMoves, Tests                                \* FluentCase

VARIABLES
    part,   \* the component of the behaviour
    slot1, slot2, slot3, slot4, slot5, slot6, slot7, slot8

slots == <<slot1, slot2, slot3, slot4, slot5, slot6, slot7, slot8>>
mcVars == <<part, slots, vars>>

\* Three components that CaseEvidence_proofs brings together.
E == INSTANCE CaseEvidence_proofs WITH
         \* EvidencePacks
         listed <- slot1, stray <- slot2, current <- slot3, pack <- slot4,
         space <- slot5, steps <- slot6, hooks <- slot7, pruned <- slot8,
         \* ActionPath
         game <- slot1, todo <- slot2, at <- slot3, entry <- slot4,
         seen <- slot5, spent <- slot6, audit <- slot7,
         \* LogEvidence
         log <- slot1, locked <- slot2, spare <- slot3,
         dir <- slot4, call <- slot5, result <- slot6, clock <- slot7
\* Five components that Components_proofs brings together.
C == INSTANCE Components_proofs WITH
         \* CliAdapter
         world <- slot1, cache <- slot2, stage <- slot3, call <- slot4, left <- slot5,
         fresh <- slot6,
         \* TestAgent
         flags <- slot1, mod <- slot2, game <- slot3, pc <- slot4, count <- slot5,
         found <- slot6, verdict <- slot7,
         \* SessionQueue
         heap <- slot1, pending <- slot2, paused <- slot3, clock <- slot4,
         number <- slot5, served <- slot6,
         \* SteamGame
         table <- slot1, asked <- slot2, ctl <- slot3, op <- slot4, answer <- slot5,
         \* FluentCase
         frame <- slot1, case <- slot2, trace <- slot3, look <- slot4, disk <- slot5,
         outcome <- slot6

\* The case sequences handed to the orchestrator.
Seqs ==
    {<<"return_to_menu", "start_new_run", "select_character", "embark", "choose_event",
       "choose_map_node", "enter_combat", "end_turn">>,
     <<"abandon_run", "give_card">>,
     <<"enter_combat", "give_card", "end_turn", "nav_to_map", "choose_map_node">>,
     <<"nav_to_combat", "end_turn">>}

ASSUME PacksAreNumbered == E!PacksAssumption
ASSUME ScriptsGoOn == E!ScriptsAssumption
ASSUME LogLimits == E!LogsAssumption

-----------------------------------------------------------------------------

McInit ==
    /\ Init
    /\ \/ part = "packs" /\ E!PackInit
       \/ part = "actions" /\ E!ApInit /\ slot8 = 0
       \/ part = "cli" /\ C!CaInit /\ slot7 = 0 /\ slot8 = 0
       \/ part = "agent" /\ C!TaInit /\ slot8 = 0
       \/ part = "queue" /\ C!SqInit /\ slot7 = 0 /\ slot8 = 0
       \/ part = "steam" /\ C!SgInit /\ slot6 = 0 /\ slot7 = 0 /\ slot8 = 0
       \/ part = "logs" /\ E!LgInit /\ slot8 = 0
       \/ part = "case" /\ C!FcInit /\ slot7 = 0 /\ slot8 = 0
       \/ part = "lock" /\ slot1 = 0 /\ slot2 = 0 /\ slot3 = 0 /\ slot4 = 0
             /\ slot5 = 0 /\ slot6 = 0 /\ slot7 = 0 /\ slot8 = 0

InLock(Act) == part = "lock" /\ Act /\ UNCHANGED <<part, slots>>
InEP(Act) == part = "packs" /\ Act /\ UNCHANGED <<part, vars>>
InAP(Act) == part = "actions" /\ Act /\ UNCHANGED <<part, vars, slot8>>
InCA(Act) == part = "cli" /\ Act /\ UNCHANGED <<part, vars, slot7, slot8>>
InTA(Act) == part = "agent" /\ Act /\ UNCHANGED <<part, vars, slot8>>
InSQ(Act) == part = "queue" /\ Act /\ UNCHANGED <<part, vars, slot7, slot8>>
InSG(Act) == part = "steam" /\ Act /\ UNCHANGED <<part, vars, slot6, slot7, slot8>>
InLG(Act) == part = "logs" /\ Act /\ UNCHANGED <<part, vars, slot8>>
InFC(Act) == part = "case" /\ Act /\ UNCHANGED <<part, vars, slot7, slot8>>

LockNext ==
    \E p \in Process :
        \/ \E wait \in BOOLEAN : InLock(AcquireLock(p, wait))
        \/ InLock(TryOpen(p)) \/ InLock(TryOpenFails(p)) \/ InLock(TryLock(p)) \/ InLock(TryLockFails(p))
        \/ InLock(WritePid(p)) \/ InLock(WriteFails(p)) \/ InLock(ReadStalePid(p)) \/ InLock(UnlinkStale(p))
        \/ InLock(UnlockAndClose(p)) \/ InLock(UnlinkReleased(p)) \/ InLock(ProbeOpen(p))
        \/ InLock(ProbeLock(p)) \/ InLock(ProbeClose(p)) \/ InLock(Crash(p)) \/ InLock(Restart(p))

EPNext ==
    \/ InEP(E!Open) \/ InEP(E!CaseEnd) \/ InEP(E!SessionEnd) \/ InEP(E!Refresh)
    \/ InEP(E!Leave) \/ InEP(E!Mkdir) \/ InEP(E!WriteJson) \/ InEP(E!WriteReport)
    \/ InEP(E!Retain) \/ InEP(E!CopyFiles) \/ InEP(E!Archive) \/ InEP(E!Clear)
    \/ InEP(E!WriteFails) \/ InEP(E!DiskTurns)

APNext ==
    \/ InAP(E!NextEntry) \/ InAP(E!Probe) \/ InAP(E!AutoReset) \/ InAP(E!HardReset)
    \/ InAP(E!CheckMenu) \/ InAP(E!Await) \/ InAP(E!PreRead) \/ InAP(E!Offer)
    \/ InAP(E!Act) \/ InAP(E!Post) \/ InAP(E!StartNewRun) \/ InAP(E!Opened)
    \/ InAP(E!FinishInterstitials) \/ InAP(E!Verdict) \/ InAP(E!Reread)
    \/ InAP(E!FalseNegative) \/ InAP(E!Settle) \/ InAP(E!NavStart)
    \/ InAP(E!Navigate) \/ InAP(E!NavReached) \/ InAP(E!GameMoves)

CANext ==
    \/ InCA(C!Wait) \/ InCA(C!PreRead) \/ InCA(C!Offer) \/ InCA(C!Dispatch)
    \/ InCA(C!OneCommand) \/ InCA(C!ChooseEvent) \/ InCA(C!SkipCardReward) \/ InCA(C!Proceed)
    \/ InCA(C!BundleSelect) \/ InCA(C!BundleConfirm) \/ InCA(C!EmbarkCommand)
    \/ InCA(C!EmbarkLeaves) \/ InCA(C!StartNewRun) \/ InCA(C!NewRun) \/ InCA(C!AbandonSaved)
    \/ InCA(C!PollSubmenu) \/ InCA(C!ChooseMode) \/ InCA(C!Enter) \/ InCA(C!Converge)
    \/ InCA(C!ReadAgain) \/ InCA(C!SkipReward) \/ InCA(C!RewardStays) \/ InCA(C!LeaveReward)
    \/ InCA(C!SkipTriSelect) \/ InCA(C!TriProceed) \/ InCA(C!GoThrough) \/ InCA(C!Said)
    \/ InCA(C!Reread) \/ InCA(C!AdvanceEvent) \/ InCA(C!EventProgress) \/ InCA(C!EventRead)
    \/ InCA(C!PolicyRead) \/ InCA(C!PolicyPlays) \/ InCA(C!PostRead) \/ InCA(C!NextEntry)
    \/ InCA(C!GameGoesOn)

TANext ==
    \/ InTA(C!Start) \/ InTA(C!Validate) \/ InTA(C!Build) \/ InTA(C!Localization)
    \/ InTA(C!Deploy) \/ InTA(C!LaunchGame) \/ InTA(C!Launched) \/ InTA(C!DesktopOpen)
    \/ InTA(C!Health) \/ InTA(C!ReadRun) \/ InTA(C!OpenCharacterSelect)
    \/ InTA(C!SelectTargetCharacter) \/ InTA(C!Embark) \/ InTA(C!ReachesCombat)
    \/ InTA(C!Advance) \/ InTA(C!VerifyCard) \/ InTA(C!NoHand) \/ InTA(C!CardsDone)
    \/ InTA(C!AbandonRun) \/ InTA(C!FinalScan) \/ InTA(C!AgentRaises) \/ InTA(C!WriteReport)
    \/ InTA(C!EditSources) \/ InTA(C!GameStarts) \/ InTA(C!GameExits)

SQNext ==
    \/ InSQ(C!Enqueue) \/ InSQ(C!Dequeue) \/ InSQ(C!DropStale) \/ InSQ(C!Cancel)
    \/ InSQ(C!Pause) \/ InSQ(C!Clear)

SGNext ==
    \/ InSG(C!StartSteam) \/ InSG(C!StartGame) \/ InSG(C!ReuseGame) \/ InSG(C!RestartGame)
    \/ InSG(C!StopGame) \/ InSG(C!Ask) \/ InSG(C!Reuse) \/ InSG(C!Found)
    \/ InSG(C!TimesOut) \/ InSG(C!StartDirect) \/ InSG(C!Scan) \/ InSG(C!Kill)
    \/ InSG(C!Killed) \/ InSG(C!StopSteam) \/ InSG(C!GameAppears) \/ InSG(C!ProcessEnds)
    \/ InSG(C!OtherAppears)

LGNext ==
    \/ InLG(E!Collect) \/ InLG(E!ParseLog) \/ InLG(E!ReadLog) \/ InLG(E!WriteCopy)
    \/ InLG(E!SaveFails) \/ InLG(E!CustomLog) \/ InLG(E!GameWrites) \/ InLG(E!GameRotates)
    \/ InLG(E!GameLocks) \/ InLG(E!SpareAppears)

FCNext ==
    \/ InFC(C!Define) \/ InFC(C!StartPage) \/ InFC(C!StartOffers) \/ InFC(C!Act)
    \/ InFC(C!Acted) \/ InFC(C!FirstLook) \/ InFC(C!Poll) \/ InFC(C!Deadline)
    \/ InFC(C!Judge) \/ InFC(C!WriteTrace) \/ InFC(C!WriteFails) \/ InFC(C!RunHandlers)
    \/ InFC(C!Interrupted) \/ InFC(C!GameMoves)

McNext == LockNext \/ EPNext \/ APNext \/ CANext \/ TANext \/ SQNext \/ SGNext \/ LGNext \/ FCNext
McSpec == McInit /\ [][McNext]_mcVars

-----------------------------------------------------------------------------
(* What each component promises; its module says what the property means.  *)

(* Evidence packs, after skipped, failed and repeated writes.              *)
PacksAreWhole == part = "packs" => E!PacksAreWhole

(* Actions of a case, by execute_action and the agent adapter.             *)
DoneMeansDone == part = "actions" => E!DoneMeansDone

(* Pages read through the cache of the command-line adapter.               *)
ReadsAreFresh == part = "cli" => C!ReadsAreFresh

(* The verdict of the MOD acceptance workflow.                             *)
PassedMeansTested == part = "agent" => C!PassedMeansTested

(* The priority queue of sessions.                                         *)
QueueKeepsItsWord == part = "queue" => C!QueueKeepsItsWord

(* The game that Steam control starts or restarts.                         *)
RestartIsFresh == [][part = "steam" => C!AnswersFresh]_mcVars

(* The game logs kept as evidence.                                         *)
LogsAreKept == part = "logs" => E!LogsAreKept

(* The verdict and the trace of one generated test.                        *)
CaseIsHonest == part = "case" => C!CaseIsHonest

=============================================================================
