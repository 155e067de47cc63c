------------------------- MODULE MCComponents_proofs ------------------------
(***************************************************************************)
(* The theorems of Components_proofs and CaseEvidence_proofs carried over  *)
(* to the specification in which MCComponents explores the components side *)
(* by side: a behaviour is about one part for ever, and moves the slots of *)
(* that part as the part's own specification does.                         *)
(***************************************************************************)
EXTENDS MCComponents, TLAPS

-----------------------------------------------------------------------------
(* A part stays what it is.                                                *)
LEMMA PartStays == [McNext]_mcVars => part' = part
  BY DEF McNext, mcVars, LockNext, EPNext, APNext, CANext, TANext, SQNext, SGNext, LGNext,
         FCNext, InLock, InEP, InAP, InCA, InTA, InSQ, InSG, InLG, InFC

(* The page the command-line adapter hands out was read after the last     *)
(* command, in the composition that is model-checked; an action answered as*)
(* needless after a degraded offer is left out (mark_state_stale,          *)
(* _act_sync).                                                             *)
THEOREM CliPartIsFresh == McSpec => []ReadsAreFresh
<1>1. McInit /\ part = "cli" => C!CaInit
  BY DEF McInit
<1>2. [McNext]_mcVars /\ part = "cli" => [C!CaNext]_(C!caVars)
  BY DEF McNext, mcVars, slots, LockNext, EPNext, APNext, CANext, TANext, SQNext, SGNext,
         LGNext, FCNext, InLock, InEP, InAP, InCA, InTA, InSQ, InSG, InLG, InFC,
         C!CaNext, C!caVars
<1>3. C!CaInit /\ [][C!CaNext]_(C!caVars) => []C!ReadsAreFresh
  BY C!CliReadsAreFresh DEF C!CaSpec
<1>4. [McNext]_mcVars => ((part = "cli") <=> (part = "cli")')
  BY PartStays
<1>5. ReadsAreFresh <=> (part = "cli" => C!ReadsAreFresh)
  BY DEF ReadsAreFresh
<1>6. QED
  BY <1>1, <1>2, <1>3, <1>4, <1>5, PTL DEF McSpec

(* A PASSED verdict of the acceptance workflow means that the run's own    *)
(* build was tested, unless the game was reused or a Release output was    *)
(* preferred (_step_build, _step_deploy, _step_launch_game, run).          *)
THEOREM AgentPartTestsTheBuild == McSpec => []PassedMeansTested
<1>1. McInit /\ part = "agent" => C!TaInit
  BY DEF McInit
<1>2. [McNext]_mcVars /\ part = "agent" => [C!TaNext]_(C!taVars)
  BY DEF McNext, mcVars, slots, LockNext, EPNext, APNext, CANext, TANext, SQNext, SGNext,
         LGNext, FCNext, InLock, InEP, InAP, InCA, InTA, InSQ, InSG, InLG, InFC,
         C!TaNext, C!taVars
<1>3. C!TaInit /\ [][C!TaNext]_(C!taVars) => []C!PassedMeansTested
  BY C!PassedRunsTestedTheBuild DEF C!TaSpec
<1>4. [McNext]_mcVars => ((part = "agent") <=> (part = "agent")')
  BY PartStays
<1>5. PassedMeansTested <=> (part = "agent" => C!PassedMeansTested)
  BY DEF PassedMeansTested
<1>6. QED
  BY <1>1, <1>2, <1>3, <1>4, <1>5, PTL DEF McSpec

(* No waiting session is forgotten and each is served in turn (enqueue,    *)
(* dequeue, cancel).                                                       *)
THEOREM QueuePartIsJust == McSpec => []QueueKeepsItsWord
<1>1. McInit /\ part = "queue" => C!SqInit
  BY DEF McInit
<1>2. [McNext]_mcVars /\ part = "queue" => [C!SqNext]_(C!sqVars)
  BY DEF McNext, mcVars, slots, LockNext, EPNext, APNext, CANext, TANext, SQNext, SGNext,
         LGNext, FCNext, InLock, InEP, InAP, InCA, InTA, InSQ, InSG, InLG, InFC,
         C!SqNext, C!sqVars
<1>3. C!SqInit /\ [][C!SqNext]_(C!sqVars) => []C!QueueKeepsItsWord
  BY C!QueueIsJust DEF C!SqSpec
<1>4. [McNext]_mcVars => ((part = "queue") <=> (part = "queue")')
  BY PartStays
<1>5. QueueKeepsItsWord <=> (part = "queue" => C!QueueKeepsItsWord)
  BY DEF QueueKeepsItsWord
<1>6. QED
  BY <1>1, <1>2, <1>3, <1>4, <1>5, PTL DEF McSpec

(* A generated test judges a settled page, and its log says that it failed *)
(* when it did with a message (assert_that, _settle_and_get_state,         *)
(* _write_trace_files).                                                    *)
THEOREM CasePartIsHonest == McSpec => []CaseIsHonest
<1>1. McInit /\ part = "case" => C!FcInit
  BY DEF McInit
<1>2. [McNext]_mcVars /\ part = "case" => [C!FcNext]_(C!fcVars)
  BY DEF McNext, mcVars, slots, LockNext, EPNext, APNext, CANext, TANext, SQNext, SGNext,
         LGNext, FCNext, InLock, InEP, InAP, InCA, InTA, InSQ, InSG, InLG, InFC,
         C!FcNext, C!fcVars
<1>3. C!FcInit /\ [][C!FcNext]_(C!fcVars) => []C!CaseIsHonest
  BY C!CasesAreHonest DEF C!FcSpec
<1>4. [McNext]_mcVars => ((part = "case") <=> (part = "case")')
  BY PartStays
<1>5. CaseIsHonest <=> (part = "case" => C!CaseIsHonest)
  BY DEF CaseIsHonest
<1>6. QED
  BY <1>1, <1>2, <1>3, <1>4, <1>5, PTL DEF McSpec

(* The game a start or a restart answers with is a new one (start_game,    *)
(* restart_game).                                                          *)
THEOREM SteamPartIsNew == McSpec => RestartIsFresh
<1>1. McInit /\ part = "steam" => C!SgInit
  BY DEF McInit
<1>2. [McNext]_mcVars /\ part = "steam" => [C!SgNext]_(C!sgVars)
  BY DEF McNext, mcVars, slots, LockNext, EPNext, APNext, CANext, TANext, SQNext, SGNext,
         LGNext, FCNext, InLock, InEP, InAP, InCA, InTA, InSQ, InSG, InLG, InFC,
         C!SgNext, C!sgVars
<1>3. C!SgInit /\ [][C!SgNext]_(C!sgVars) => [][C!AnswersFresh]_(C!sgVars)
  BY C!StartedGameIsNew DEF C!SgSpec, C!RestartIsFresh
<1>4. [McNext]_mcVars => ((part = "steam") <=> (part = "steam")')
  BY PartStays
<1>5. [C!AnswersFresh]_(C!sgVars) => C!AnswersFresh
  BY DEF C!AnswersFresh, C!sgVars
<1>6. [C!AnswersFresh]_(C!sgVars) \/ part # "steam" => [part = "steam" => C!AnswersFresh]_mcVars
  BY <1>5
<1>7. QED
  BY <1>1, <1>2, <1>3, <1>4, <1>6, PTL DEF McSpec, RestartIsFresh

(* The pack that is current is whole, kept and sealed as it was written,   *)
(* whatever is skipped or fails on the way (create_pack, on_session_end).  *)
THEOREM PacksPartIsWhole == McSpec => []PacksAreWhole
<1>1. McInit /\ part = "packs" => E!PackInit
  BY DEF McInit
<1>2. [McNext]_mcVars /\ part = "packs" => [E!PackNext]_(E!packVars)
  BY DEF McNext, mcVars, slots, LockNext, EPNext, APNext, CANext, TANext, SQNext, SGNext,
         LGNext, FCNext, InLock, InEP, InAP, InCA, InTA, InSQ, InSG, InLG, InFC,
         E!PackNext, E!packVars
<1>3. E!PackInit /\ [][E!PackNext]_(E!packVars) => []E!PacksAreWhole
  BY PacksAreNumbered, E!PacksKeepTheirPromise DEF E!PkSpec
<1>4. [McNext]_mcVars => ((part = "packs") <=> (part = "packs")')
  BY PartStays
<1>5. PacksAreWhole <=> (part = "packs" => E!PacksAreWhole)
  BY DEF PacksAreWhole
<1>6. QED
  BY <1>1, <1>2, <1>3, <1>4, <1>5, PTL DEF McSpec

(* No action of a case is reported done that the game did not obey, unless *)
(* it failed as a removed method and the page changed by itself, and none  *)
(* is posted again once it was obeyed (execute_action, AgentAdapter.act).  *)
THEOREM ActionsPartIsObeyed == McSpec => []DoneMeansDone
<1>1. McInit /\ part = "actions" => E!ApInit
  BY DEF McInit
<1>2. [McNext]_mcVars /\ part = "actions" => [E!ApNext]_(E!apVars)
  BY DEF McNext, mcVars, slots, LockNext, EPNext, APNext, CANext, TANext, SQNext, SGNext,
         LGNext, FCNext, InLock, InEP, InAP, InCA, InTA, InSQ, InSG, InLG, InFC,
         E!ApNext, E!apVars
<1>3. E!ApInit /\ [][E!ApNext]_(E!apVars) => []E!DoneMeansDone
  BY ScriptsGoOn, E!ActionsAreObeyedOnce DEF E!ApSpec
<1>4. [McNext]_mcVars => ((part = "actions") <=> (part = "actions")')
  BY PartStays
<1>5. DoneMeansDone <=> (part = "actions" => E!DoneMeansDone)
  BY DEF DoneMeansDone
<1>6. QED
  BY <1>1, <1>2, <1>3, <1>4, <1>5, PTL DEF McSpec

(* A collection reports what its copy holds - of collect, when both of its *)
(* reads were of one log - and the oldest copies go first (collect,        *)
(* collect_on_failure, collect_snapshot).                                  *)
THEOREM LogsPartIsKept == McSpec => []LogsAreKept
<1>1. McInit /\ part = "logs" => E!LgInit
  BY DEF McInit
<1>2. [McNext]_mcVars /\ part = "logs" => [E!LgNext]_(E!lgVars)
  BY DEF McNext, mcVars, slots, LockNext, EPNext, APNext, CANext, TANext, SQNext, SGNext,
         LGNext, FCNext, InLock, InEP, InAP, InCA, InTA, InSQ, InSG, InLG, InFC,
         E!LgNext, E!lgVars
<1>3. E!LgInit /\ [][E!LgNext]_(E!lgVars) => []E!LogsAreKept
  BY LogLimits, E!EvidenceOfLogsIsKept DEF E!LgSpec
<1>4. [McNext]_mcVars => ((part = "logs") <=> (part = "logs")')
  BY PartStays
<1>5. LogsAreKept <=> (part = "logs" => E!LogsAreKept)
  BY DEF LogsAreKept
<1>6. QED
  BY <1>1, <1>2, <1>3, <1>4, <1>5, PTL DEF McSpec

=============================================================================
