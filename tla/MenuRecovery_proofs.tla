-------------------------- MODULE MenuRecovery_proofs --------------------------
(***************************************************************************)
(* What MenuRecovery guarantees for every number of retries, polls and     *)
(* frames that EnvironmentAssumption admits: RecoveryInv is inductive.     *)
(***************************************************************************)
EXTENDS MenuRecovery, TLAPS

USE DEF lifeVars, gameVars, ensureVars, recVars, menuVars, callVars, settleVars,
        GameState, EnsurePc, RecPc, Ready, Controllable

\* The Boolean variables.
Flags ==
    /\ viaSteam \in BOOLEAN
    /\ pending \in BOOLEAN
    /\ preProcess \in BOOLEAN
    /\ steady \in BOOLEAN
    /\ save \in BOOLEAN
    /\ abandoned \in BOOLEAN
    /\ sawSavedRun \in BOOLEAN
    /\ decidable \in BOOLEAN

\* The control points and the other values.
Labels ==
    /\ game \in GameState
    /\ lpc \in EnsurePc
    /\ readiness \in {"none", "ready", "notReady", "raised"}
    /\ rpc \in RecPc
    /\ stage \in {"check", "restart"}
    /\ result \in {"none", "ready", "notReady", "raised", "clean", "notClean", "blocked"}
    /\ lastFrame \in {"unread", "none", "menu", "other"}

Counters ==
    /\ glitches \in 0..MaxGlitches
    /\ polls \in Nat
    /\ attempts \in Nat
    /\ launches \in Nat
    /\ haze \in 0..MaxHaze
    /\ left \in 0..SettleTries
    /\ cleanStreak \in Nat
    /\ dirtyStreak \in Nat

Types == Flags /\ Labels /\ Counters

LEMMA TypesAreTypeOK == TypeOK <=> Types
  BY Zenon DEF TypeOK, LifeTypeOK, Types, Flags, Labels, Counters

\* Each step keeps the Boolean variables Boolean.
LEMMA FlagsStep ==
  ASSUME Flags, Next
  PROVE  Flags'
<1>0. viaSteam' \in BOOLEAN
  BY Zenon DEF Next, Flags
<1>1. CASE ProbeReady /\ UNCHANGED recVars
  BY <1>0, <1>1, Zenon DEF Flags, ProbeReady, Seen, Verdict
<1>2. CASE ProbeFails /\ UNCHANGED recVars
  BY <1>0, <1>2, Zenon DEF Flags, ProbeFails, NotSeen
<1>3. CASE Look /\ UNCHANGED recVars
  BY <1>0, <1>3, Zenon DEF Flags, Look, Present
<1>4. CASE GraceEnds /\ UNCHANGED recVars
  BY <1>0, <1>4, Zenon DEF Flags, GraceEnds, Seen
<1>5. CASE GracePollFails /\ UNCHANGED recVars
  BY <1>0, <1>5, Zenon DEF Flags, GracePollFails, NotSeen
<1>6. CASE Reprobe /\ UNCHANGED recVars
  BY <1>0, <1>6, Zenon DEF Flags, Reprobe, Seen, NotSeen, Verdict, Present
<1>7. CASE Recover /\ UNCHANGED recVars
  BY <1>0, <1>7, Zenon DEF Flags, Recover, Verdict
<1>8. CASE TerminateStale /\ UNCHANGED recVars
  BY <1>0, <1>8, Zenon DEF Flags, TerminateStale, Kill, Verdict
<1>9. CASE LaunchFresh /\ UNCHANGED recVars
  BY <1>0, <1>9, Zenon DEF Flags, LaunchFresh, Launch, Present
<1>10. CASE LaunchRaises /\ UNCHANGED recVars
  BY <1>0, <1>10, Zenon DEF Flags, LaunchRaises, Verdict, Present
<1>11. CASE AwaitControllable /\ UNCHANGED recVars
  BY <1>0, <1>11, Zenon DEF Flags, AwaitControllable, Seen, NotSeen
<1>12. CASE Verify /\ UNCHANGED recVars
  BY <1>0, <1>12, Zenon DEF Flags, Verify, Seen, NotSeen, Verdict
<1>13. CASE SettleRead
  BY <1>0, <1>13, Zenon DEF Flags, SettleRead, Seen, NotSeen, Shows, Judge, Misleading, Shown
<1>14. CASE Abandon
  BY <1>0, <1>14, Zenon DEF Flags, Abandon, Seen, NotSeen, Settle, Fresh
<1>15. CASE Confirm
  BY <1>0, <1>15, Zenon DEF Flags, Confirm, Seen, NotSeen, Settle, Fresh
<1>16. CASE LookForMenu
  BY <1>0, <1>16, Zenon DEF Flags, LookForMenu, Seen, NotSeen, Enter
<1>17. CASE Terminate
  BY <1>0, <1>17, Zenon DEF Flags, Terminate, Kill, Return
<1>18. CASE StartOnce
  <2>1. steady' \in BOOLEAN
    BY <1>18 DEF StartOnce, Ensure
  <2>2. QED
    BY <1>0, <1>18, <2>1, Zenon DEF Flags, StartOnce, Ensure
<1>19. CASE Started
  BY <1>0, <1>19, Zenon DEF Flags, Started, Return
<1>20. CASE WaitForMenu
  BY <1>0, <1>20, Zenon DEF Flags, WaitForMenu, Seen, CanMiss, Settle, Fresh, Return
<1>21. CASE WaitForActions
  BY <1>0, <1>21, Zenon DEF Flags, WaitForActions, Seen, NotSeen, CanMiss, Settle, Fresh, Return, Enter
<1>22. CASE Conclude
  BY <1>0, <1>22, Zenon DEF Flags, Conclude, Return, Enter, Fresh, Conclusion
<1>23. CASE PrecheckEnds
  BY <1>0, <1>23, Zenon DEF Flags, PrecheckEnds, Return
<1>24. CASE EnsureClean
  BY <1>0, <1>24, Zenon DEF Flags, EnsureClean, Enter
<1>25. CASE CancelRestart
  BY <1>0, <1>25, Zenon DEF Flags, CancelRestart, Enter
<1>26. CASE Precheck
  <2>1. steady' \in BOOLEAN
    BY <1>26 DEF Precheck, Ensure
  <2>2. QED
    BY <1>0, <1>26, <2>1, Zenon DEF Flags, Precheck, Ensure
<1>27. CASE Play
  BY <1>0, <1>27, Zenon DEF Flags, Play
<1>28. CASE GameMoves /\ UNCHANGED recVars
  BY <1>0, <1>28, Zenon DEF Flags, GameMoves, SteamStarts, SteamGivesUp, ModLoaded, GameDies, WedgedExits
<1>29. CASE rpc # "settle" /\ GameShowsMenu /\ haze' = MaxHaze /\ UNCHANGED <<save, rpc, callVars, settleVars>>
  BY <1>0, <1>29, Zenon DEF Flags, GameShowsMenu, MenuAppears
<1>30. QED
  BY <1>1, <1>2, <1>3, <1>4, <1>5, <1>6, <1>7, <1>8, <1>9, <1>10, <1>11, <1>12, <1>13, <1>14, <1>15, <1>16, <1>17, <1>18, <1>19, <1>20, <1>21, <1>22, <1>23, <1>24, <1>25, <1>26, <1>27, <1>28, <1>29 DEF Next, Step, EnsureStep, Environment, Calls

\* ... the control points in their sets ...
LEMMA LabelsStep ==
  ASSUME Flags, Labels, Next
  PROVE  Labels'
<1>1. CASE ProbeReady /\ UNCHANGED recVars
  BY <1>1 DEF Labels, Flags, ProbeReady, Seen, Verdict
<1>2. CASE ProbeFails /\ UNCHANGED recVars
  BY <1>2 DEF Labels, Flags, ProbeFails, NotSeen
<1>3. CASE Look /\ UNCHANGED recVars
  BY <1>3 DEF Labels, Flags, Look, Present
<1>4. CASE GraceEnds /\ UNCHANGED recVars
  BY <1>4 DEF Labels, Flags, GraceEnds, Seen
<1>5. CASE GracePollFails /\ UNCHANGED recVars
  BY <1>5 DEF Labels, Flags, GracePollFails, NotSeen
<1>6. CASE Reprobe /\ UNCHANGED recVars
  BY <1>6 DEF Labels, Flags, Reprobe, Seen, NotSeen, Verdict, Present
<1>7. CASE Recover /\ UNCHANGED recVars
  BY <1>7 DEF Labels, Flags, Recover, Verdict
<1>8. CASE TerminateStale /\ UNCHANGED recVars
  BY <1>8 DEF Labels, Flags, TerminateStale, Kill, Verdict
<1>9. CASE LaunchFresh /\ UNCHANGED recVars
  BY <1>9 DEF Labels, Flags, LaunchFresh, Launch, Present
<1>10. CASE LaunchRaises /\ UNCHANGED recVars
  BY <1>10 DEF Labels, Flags, LaunchRaises, Verdict, Present
<1>11. CASE AwaitControllable /\ UNCHANGED recVars
  BY <1>11 DEF Labels, Flags, AwaitControllable, Seen, NotSeen
<1>12. CASE Verify /\ UNCHANGED recVars
  BY <1>12 DEF Labels, Flags, Verify, Seen, NotSeen, Verdict
<1>13. CASE SettleRead
  BY <1>13 DEF Labels, Flags, SettleRead, Seen, NotSeen, Shows, Judge, Misleading, Shown
<1>14. CASE Abandon
  BY <1>14 DEF Labels, Flags, Abandon, Seen, NotSeen, Settle, Fresh
<1>15. CASE Confirm
  BY <1>15 DEF Labels, Flags, Confirm, Seen, NotSeen, Settle, Fresh
<1>16. CASE LookForMenu
  BY <1>16 DEF Labels, Flags, LookForMenu, Seen, NotSeen, Enter
<1>17. CASE Terminate
  BY <1>17 DEF Labels, Flags, Terminate, Kill, Return
<1>18. CASE StartOnce
  BY <1>18 DEF Labels, Flags, StartOnce, Ensure
<1>19. CASE Started
  BY <1>19 DEF Labels, Flags, Started, Return
<1>20. CASE WaitForMenu
  BY <1>20 DEF Labels, Flags, WaitForMenu, Seen, CanMiss, Settle, Fresh, Return
<1>21. CASE WaitForActions
  BY <1>21 DEF Labels, Flags, WaitForActions, Seen, NotSeen, CanMiss, Settle, Fresh, Return, Enter
<1>22. CASE Conclude
  BY <1>22 DEF Labels, Flags, Conclude, Return, Enter, Fresh, Conclusion
<1>23. CASE PrecheckEnds
  BY <1>23 DEF Labels, Flags, PrecheckEnds, Return
<1>24. CASE EnsureClean
  BY <1>24 DEF Labels, Flags, EnsureClean, Enter
<1>25. CASE CancelRestart
  BY <1>25 DEF Labels, Flags, CancelRestart, Enter
<1>26. CASE Precheck
  BY <1>26 DEF Labels, Flags, Precheck, Ensure
<1>27. CASE Play
  BY <1>27 DEF Labels, Flags, Play
<1>28. CASE GameMoves /\ UNCHANGED recVars
  BY <1>28 DEF Labels, Flags, GameMoves, SteamStarts, SteamGivesUp, ModLoaded, GameDies, WedgedExits
<1>29. CASE rpc # "settle" /\ GameShowsMenu /\ haze' = MaxHaze /\ UNCHANGED <<save, rpc, callVars, settleVars>>
  BY <1>29 DEF Labels, Flags, GameShowsMenu, MenuAppears
<1>30. QED
  BY <1>1, <1>2, <1>3, <1>4, <1>5, <1>6, <1>7, <1>8, <1>9, <1>10, <1>11, <1>12, <1>13, <1>14, <1>15, <1>16, <1>17, <1>18, <1>19, <1>20, <1>21, <1>22, <1>23, <1>24, <1>25, <1>26, <1>27, <1>28, <1>29 DEF Next, Step, EnsureStep, Environment, Calls

\* ... and the counters in their ranges.
LEMMA CountersStep ==
  ASSUME Flags, Labels, Counters, Next
  PROVE  Counters'
<1> USE LifecycleAssumption, RecoveryAssumption
<1>1. CASE ProbeReady /\ UNCHANGED recVars
  BY <1>1 DEF Counters, ProbeReady, Seen, Verdict
<1>2. CASE ProbeFails /\ UNCHANGED recVars
  BY <1>2 DEF Counters, ProbeFails, NotSeen
<1>3. CASE Look /\ UNCHANGED recVars
  BY <1>3 DEF Counters, Look, Present
<1>4. CASE GraceEnds /\ UNCHANGED recVars
  BY <1>4 DEF Counters, GraceEnds, Seen
<1>5. CASE GracePollFails /\ UNCHANGED recVars
  BY <1>5 DEF Counters, GracePollFails, NotSeen
<1>6. CASE Reprobe /\ UNCHANGED recVars
  BY <1>6 DEF Counters, Reprobe, Seen, NotSeen, Verdict, Present
<1>7. CASE Recover /\ UNCHANGED recVars
  BY <1>7 DEF Counters, Recover, Verdict
<1>8. CASE TerminateStale /\ UNCHANGED recVars
  BY <1>8 DEF Counters, TerminateStale, Kill, Verdict
<1>9. CASE LaunchFresh /\ UNCHANGED recVars
  BY <1>9 DEF Counters, LaunchFresh, Launch, Present
<1>10. CASE LaunchRaises /\ UNCHANGED recVars
  BY <1>10 DEF Counters, LaunchRaises, Verdict, Present
<1>11. CASE AwaitControllable /\ UNCHANGED recVars
  BY <1>11 DEF Counters, AwaitControllable, Seen, NotSeen
<1>12. CASE Verify /\ UNCHANGED recVars
  BY <1>12 DEF Counters, Verify, Seen, NotSeen, Verdict
<1>13. CASE SettleRead
  BY <1>13 DEF Counters, SettleRead, Seen, NotSeen, Shows, Judge, Settled
<1>14. CASE Abandon
  BY <1>14 DEF Counters, Abandon, Seen, NotSeen, Settle, Fresh
<1>15. CASE Confirm
  BY <1>15 DEF Counters, Confirm, Seen, NotSeen, Settle, Fresh
<1>16. CASE LookForMenu
  BY <1>16 DEF Counters, LookForMenu, Seen, NotSeen, Enter
<1>17. CASE Terminate
  BY <1>17 DEF Counters, Terminate, Kill, Return
<1>18. CASE StartOnce
  BY <1>18 DEF Counters, StartOnce, Ensure
<1>19. CASE Started
  BY <1>19 DEF Counters, Started, Return
<1>20. CASE WaitForMenu
  BY <1>20 DEF Counters, WaitForMenu, Seen, CanMiss, Settle, Fresh, Return
<1>21. CASE WaitForActions
  BY <1>21 DEF Counters, WaitForActions, Seen, NotSeen, CanMiss, Settle, Fresh, Return, Enter
<1>22. CASE Conclude
  BY <1>22 DEF Counters, Conclude, Return, Enter, Fresh, Conclusion
<1>23. CASE PrecheckEnds
  BY <1>23 DEF Counters, PrecheckEnds, Return
<1>24. CASE EnsureClean
  BY <1>24 DEF Counters, EnsureClean, Enter
<1>25. CASE CancelRestart
  BY <1>25 DEF Counters, CancelRestart, Enter
<1>26. CASE Precheck
  BY <1>26 DEF Counters, Precheck, Ensure
<1>27. CASE Play
  BY <1>27 DEF Counters, Play
<1>28. CASE GameMoves /\ UNCHANGED recVars
  BY <1>28 DEF Counters, GameMoves, SteamStarts, SteamGivesUp, ModLoaded, GameDies, WedgedExits
<1>29. CASE rpc # "settle" /\ GameShowsMenu /\ haze' = MaxHaze /\ UNCHANGED <<save, rpc, callVars, settleVars>>
  BY <1>29 DEF Counters, GameShowsMenu, MenuAppears
<1>30. QED
  BY <1>1, <1>2, <1>3, <1>4, <1>5, <1>6, <1>7, <1>8, <1>9, <1>10, <1>11, <1>12, <1>13, <1>14, <1>15, <1>16, <1>17, <1>18, <1>19, <1>20, <1>21, <1>22, <1>23, <1>24, <1>25, <1>26, <1>27, <1>28, <1>29 DEF Next, Step, EnsureStep, Environment, Calls

\* The readiness check runs only where it is called.
LEMMA CalledStep ==
  ASSUME Types, RunsWhenCalled, Next
  PROVE  RunsWhenCalled'
<1>1. CASE ProbeReady /\ UNCHANGED recVars
  BY <1>1 DEF Types, Labels, RunsWhenCalled, ProbeReady, Seen, Verdict
<1>2. CASE ProbeFails /\ UNCHANGED recVars
  BY <1>2 DEF Types, Labels, RunsWhenCalled, ProbeFails, NotSeen
<1>3. CASE Look /\ UNCHANGED recVars
  BY <1>3 DEF Types, Labels, RunsWhenCalled, Look, Present
<1>4. CASE GraceEnds /\ UNCHANGED recVars
  BY <1>4 DEF Types, Labels, RunsWhenCalled, GraceEnds, Seen
<1>5. CASE GracePollFails /\ UNCHANGED recVars
  BY <1>5 DEF Types, Labels, RunsWhenCalled, GracePollFails, NotSeen
<1>6. CASE Reprobe /\ UNCHANGED recVars
  BY <1>6 DEF Types, Labels, RunsWhenCalled, Reprobe, Seen, NotSeen, Verdict, Present
<1>7. CASE Recover /\ UNCHANGED recVars
  BY <1>7 DEF Types, Labels, RunsWhenCalled, Recover, Verdict
<1>8. CASE TerminateStale /\ UNCHANGED recVars
  BY <1>8 DEF Types, Labels, RunsWhenCalled, TerminateStale, Kill, Verdict
<1>9. CASE LaunchFresh /\ UNCHANGED recVars
  BY <1>9 DEF Types, Labels, RunsWhenCalled, LaunchFresh, Launch, Present
<1>10. CASE LaunchRaises /\ UNCHANGED recVars
  BY <1>10 DEF Types, Labels, RunsWhenCalled, LaunchRaises, Verdict, Present
<1>11. CASE AwaitControllable /\ UNCHANGED recVars
  BY <1>11 DEF Types, Labels, RunsWhenCalled, AwaitControllable, Seen, NotSeen
<1>12. CASE Verify /\ UNCHANGED recVars
  BY <1>12 DEF Types, Labels, RunsWhenCalled, Verify, Seen, NotSeen, Verdict
<1>13. CASE SettleRead
  BY <1>13 DEF Types, Labels, RunsWhenCalled, SettleRead, Seen, NotSeen
<1>14. CASE Abandon
  BY <1>14 DEF Types, Labels, RunsWhenCalled, Abandon, Seen, NotSeen, Settle, Fresh
<1>15. CASE Confirm
  BY <1>15 DEF Types, Labels, RunsWhenCalled, Confirm, Seen, NotSeen, Settle, Fresh
<1>16. CASE LookForMenu
  BY <1>16 DEF Types, Labels, RunsWhenCalled, LookForMenu, Seen, NotSeen, Enter
<1>17. CASE Terminate
  BY <1>17 DEF Types, Labels, RunsWhenCalled, Terminate, Kill, Return
<1>18. CASE StartOnce
  BY <1>18 DEF Types, Labels, RunsWhenCalled, StartOnce, Ensure
<1>19. CASE Started
  BY <1>19 DEF Types, Labels, RunsWhenCalled, Started, Return
<1>20. CASE WaitForMenu
  BY <1>20 DEF Types, Labels, RunsWhenCalled, WaitForMenu, Seen, CanMiss, Settle, Fresh, Return
<1>21. CASE WaitForActions
  BY <1>21 DEF Types, Labels, RunsWhenCalled, WaitForActions, Seen, NotSeen, CanMiss, Settle, Fresh, Return, Enter
<1>22. CASE Conclude
  BY <1>22 DEF Types, Labels, RunsWhenCalled, Conclude, Return, Enter, Fresh, Conclusion
<1>23. CASE PrecheckEnds
  BY <1>23 DEF Types, Labels, RunsWhenCalled, PrecheckEnds, Return
<1>24. CASE EnsureClean
  BY <1>24 DEF Types, Labels, RunsWhenCalled, EnsureClean, Enter
<1>25. CASE CancelRestart
  BY <1>25 DEF Types, Labels, RunsWhenCalled, CancelRestart, Enter
<1>26. CASE Precheck
  BY <1>26 DEF Types, Labels, RunsWhenCalled, Precheck, Ensure
<1>27. CASE Play
  BY <1>27 DEF Types, Labels, RunsWhenCalled, Play
<1>28. CASE GameMoves /\ UNCHANGED recVars
  BY <1>28 DEF Types, Labels, RunsWhenCalled, GameMoves, SteamStarts, SteamGivesUp, ModLoaded, GameDies, WedgedExits
<1>29. CASE rpc # "settle" /\ GameShowsMenu /\ haze' = MaxHaze /\ UNCHANGED <<save, rpc, callVars, settleVars>>
  BY <1>29 DEF Types, Labels, RunsWhenCalled, GameShowsMenu, MenuAppears
<1>30. QED
  BY <1>1, <1>2, <1>3, <1>4, <1>5, <1>6, <1>7, <1>8, <1>9, <1>10, <1>11, <1>12, <1>13, <1>14, <1>15, <1>16, <1>17, <1>18, <1>19, <1>20, <1>21, <1>22, <1>23, <1>24, <1>25, <1>26, <1>27, <1>28, <1>29 DEF Next, Step, EnsureStep, Environment, Calls

\* Each launch is paid for by a recovery cycle.
LEMMA LaunchStep ==
  ASSUME Types, RunsWhenCalled, CyclesPayLaunches, Next
  PROVE  CyclesPayLaunches'
<1> USE LifecycleAssumption
<1>1. CASE ProbeReady /\ UNCHANGED recVars
  BY <1>1 DEF Types, Labels, Counters, RunsWhenCalled, CyclesPayLaunches, ProbeReady, Seen, Verdict
<1>2. CASE ProbeFails /\ UNCHANGED recVars
  BY <1>2 DEF Types, Labels, Counters, RunsWhenCalled, CyclesPayLaunches, ProbeFails, NotSeen
<1>3. CASE Look /\ UNCHANGED recVars
  BY <1>3 DEF Types, Labels, Counters, RunsWhenCalled, CyclesPayLaunches, Look, Present
<1>4. CASE GraceEnds /\ UNCHANGED recVars
  BY <1>4 DEF Types, Labels, Counters, RunsWhenCalled, CyclesPayLaunches, GraceEnds, Seen
<1>5. CASE GracePollFails /\ UNCHANGED recVars
  BY <1>5 DEF Types, Labels, Counters, RunsWhenCalled, CyclesPayLaunches, GracePollFails, NotSeen
<1>6. CASE Reprobe /\ UNCHANGED recVars
  BY <1>6 DEF Types, Labels, Counters, RunsWhenCalled, CyclesPayLaunches, Reprobe, Seen, NotSeen, Verdict, Present
<1>7. CASE Recover /\ UNCHANGED recVars
  BY <1>7 DEF Types, Labels, Counters, RunsWhenCalled, CyclesPayLaunches, Recover, Verdict
<1>8. CASE TerminateStale /\ UNCHANGED recVars
  BY <1>8 DEF Types, Labels, Counters, RunsWhenCalled, CyclesPayLaunches, TerminateStale, Kill, Verdict
<1>9. CASE LaunchFresh /\ UNCHANGED recVars
  BY <1>9 DEF Types, Labels, Counters, RunsWhenCalled, CyclesPayLaunches, LaunchFresh, Launch, Present
<1>10. CASE LaunchRaises /\ UNCHANGED recVars
  BY <1>10 DEF Types, Labels, Counters, RunsWhenCalled, CyclesPayLaunches, LaunchRaises, Verdict, Present
<1>11. CASE AwaitControllable /\ UNCHANGED recVars
  BY <1>11 DEF Types, Labels, Counters, RunsWhenCalled, CyclesPayLaunches, AwaitControllable, Seen, NotSeen
<1>12. CASE Verify /\ UNCHANGED recVars
  BY <1>12 DEF Types, Labels, Counters, RunsWhenCalled, CyclesPayLaunches, Verify, Seen, NotSeen, Verdict
<1>13. CASE SettleRead
  BY <1>13 DEF Types, Labels, Counters, RunsWhenCalled, CyclesPayLaunches, SettleRead, Seen, NotSeen
<1>14. CASE Abandon
  BY <1>14 DEF Types, Labels, Counters, RunsWhenCalled, CyclesPayLaunches, Abandon, Seen, NotSeen, Settle, Fresh
<1>15. CASE Confirm
  BY <1>15 DEF Types, Labels, Counters, RunsWhenCalled, CyclesPayLaunches, Confirm, Seen, NotSeen, Settle, Fresh
<1>16. CASE LookForMenu
  BY <1>16 DEF Types, Labels, Counters, RunsWhenCalled, CyclesPayLaunches, LookForMenu, Seen, NotSeen, Enter
<1>17. CASE Terminate
  BY <1>17 DEF Types, Labels, Counters, RunsWhenCalled, CyclesPayLaunches, Terminate, Kill, Return
<1>18. CASE StartOnce
  BY <1>18 DEF Types, Labels, Counters, RunsWhenCalled, CyclesPayLaunches, StartOnce, Ensure
<1>19. CASE Started
  BY <1>19 DEF Types, Labels, Counters, RunsWhenCalled, CyclesPayLaunches, Started, Return
<1>20. CASE WaitForMenu
  BY <1>20 DEF Types, Labels, Counters, RunsWhenCalled, CyclesPayLaunches, WaitForMenu, Seen, CanMiss, Settle, Fresh, Return
<1>21. CASE WaitForActions
  BY <1>21 DEF Types, Labels, Counters, RunsWhenCalled, CyclesPayLaunches, WaitForActions, Seen, NotSeen, CanMiss, Settle, Fresh, Return, Enter
<1>22. CASE Conclude
  BY <1>22 DEF Types, Labels, Counters, RunsWhenCalled, CyclesPayLaunches, Conclude, Return, Enter, Fresh, Conclusion
<1>23. CASE PrecheckEnds
  BY <1>23 DEF Types, Labels, Counters, RunsWhenCalled, CyclesPayLaunches, PrecheckEnds, Return
<1>24. CASE EnsureClean
  BY <1>24 DEF Types, Labels, Counters, RunsWhenCalled, CyclesPayLaunches, EnsureClean, Enter
<1>25. CASE CancelRestart
  BY <1>25 DEF Types, Labels, Counters, RunsWhenCalled, CyclesPayLaunches, CancelRestart, Enter
<1>26. CASE Precheck
  BY <1>26 DEF Types, Labels, Counters, RunsWhenCalled, CyclesPayLaunches, Precheck, Ensure
<1>27. CASE Play
  BY <1>27 DEF Types, Labels, Counters, RunsWhenCalled, CyclesPayLaunches, Play
<1>28. CASE GameMoves /\ UNCHANGED recVars
  BY <1>28 DEF Types, Labels, Counters, RunsWhenCalled, CyclesPayLaunches, GameMoves, SteamStarts, SteamGivesUp, ModLoaded, GameDies, WedgedExits
<1>29. CASE rpc # "settle" /\ GameShowsMenu /\ haze' = MaxHaze /\ UNCHANGED <<save, rpc, callVars, settleVars>>
  BY <1>29 DEF Types, Labels, Counters, RunsWhenCalled, CyclesPayLaunches, GameShowsMenu, MenuAppears
<1>30. QED
  BY <1>1, <1>2, <1>3, <1>4, <1>5, <1>6, <1>7, <1>8, <1>9, <1>10, <1>11, <1>12, <1>13, <1>14, <1>15, <1>16, <1>17, <1>18, <1>19, <1>20, <1>21, <1>22, <1>23, <1>24, <1>25, <1>26, <1>27, <1>28, <1>29 DEF Next, Step, EnsureStep, Environment, Calls

\* While the game is sound, failed probes use up the glitches.
LEMMA ProbeStep ==
  ASSUME Types, RunsWhenCalled, ProbesUseGlitches, Next
  PROVE  ProbesUseGlitches'
<1> USE LifecycleAssumption, EnvironmentAssumption
<1>1. CASE ProbeReady /\ UNCHANGED recVars
  BY <1>1 DEF Types, Flags, Labels, Counters, RunsWhenCalled, ProbesUseGlitches, ProbeReady, Seen, Verdict
<1>2. CASE ProbeFails /\ UNCHANGED recVars
  BY <1>2 DEF Types, Flags, Labels, Counters, RunsWhenCalled, ProbesUseGlitches, ProbeFails, NotSeen
<1>3. CASE Look /\ UNCHANGED recVars
  BY <1>3 DEF Types, Flags, Labels, Counters, RunsWhenCalled, ProbesUseGlitches, Look, Present
<1>4. CASE GraceEnds /\ UNCHANGED recVars
  BY <1>4 DEF Types, Flags, Labels, Counters, RunsWhenCalled, ProbesUseGlitches, GraceEnds, Seen
<1>5. CASE GracePollFails /\ UNCHANGED recVars
  BY <1>5 DEF Types, Flags, Labels, Counters, RunsWhenCalled, ProbesUseGlitches, GracePollFails, NotSeen
<1>6. CASE Reprobe /\ UNCHANGED recVars
  <2> SUFFICES ASSUME steady, NotSeen(Ready)
               PROVE  FALSE
    BY <1>6 DEF Reprobe, Verdict, ProbesUseGlitches
  <2>1. game \in Ready /\ glitches = 0
    BY <1>6 DEF ProbesUseGlitches, Reprobe
  <2>2. QED
    BY <2>1 DEF NotSeen
<1>7. CASE Recover /\ UNCHANGED recVars
  BY <1>7 DEF Types, Flags, Labels, Counters, RunsWhenCalled, ProbesUseGlitches, Recover, Verdict
<1>8. CASE TerminateStale /\ UNCHANGED recVars
  BY <1>8 DEF Types, Flags, Labels, Counters, RunsWhenCalled, ProbesUseGlitches, TerminateStale, Kill, Verdict
<1>9. CASE LaunchFresh /\ UNCHANGED recVars
  BY <1>9 DEF Types, Flags, Labels, Counters, RunsWhenCalled, ProbesUseGlitches, LaunchFresh, Launch, Present
<1>10. CASE LaunchRaises /\ UNCHANGED recVars
  BY <1>10 DEF Types, Flags, Labels, Counters, RunsWhenCalled, ProbesUseGlitches, LaunchRaises, Verdict, Present
<1>11. CASE AwaitControllable /\ UNCHANGED recVars
  BY <1>11 DEF Types, Flags, Labels, Counters, RunsWhenCalled, ProbesUseGlitches, AwaitControllable, Seen, NotSeen
<1>12. CASE Verify /\ UNCHANGED recVars
  BY <1>12 DEF Types, Flags, Labels, Counters, RunsWhenCalled, ProbesUseGlitches, Verify, Seen, NotSeen, Verdict
<1>13. CASE SettleRead
  BY <1>13 DEF Types, Flags, Labels, Counters, RunsWhenCalled, ProbesUseGlitches, SettleRead, Seen, NotSeen
<1>14. CASE Abandon
  BY <1>14 DEF Types, Flags, Labels, Counters, RunsWhenCalled, ProbesUseGlitches, Abandon, Seen, NotSeen, Settle, Fresh
<1>15. CASE Confirm
  BY <1>15 DEF Types, Flags, Labels, Counters, RunsWhenCalled, ProbesUseGlitches, Confirm, Seen, NotSeen, Settle, Fresh
<1>16. CASE LookForMenu
  BY <1>16 DEF Types, Flags, Labels, Counters, RunsWhenCalled, ProbesUseGlitches, LookForMenu, Seen, NotSeen, Enter
<1>17. CASE Terminate
  BY <1>17 DEF Types, Flags, Labels, Counters, RunsWhenCalled, ProbesUseGlitches, Terminate, Kill, Return
<1>18. CASE StartOnce
  BY <1>18 DEF Types, Flags, Labels, Counters, RunsWhenCalled, ProbesUseGlitches, StartOnce, Ensure
<1>19. CASE Started
  BY <1>19 DEF Types, Flags, Labels, Counters, RunsWhenCalled, ProbesUseGlitches, Started, Return
<1>20. CASE WaitForMenu
  BY <1>20 DEF Types, Flags, Labels, Counters, RunsWhenCalled, ProbesUseGlitches, WaitForMenu, Seen, CanMiss, Settle, Fresh, Return
<1>21. CASE WaitForActions
  BY <1>21 DEF Types, Flags, Labels, Counters, RunsWhenCalled, ProbesUseGlitches, WaitForActions, Seen, NotSeen, CanMiss, Settle, Fresh, Return, Enter
<1>22. CASE Conclude
  BY <1>22 DEF Types, Flags, Labels, Counters, RunsWhenCalled, ProbesUseGlitches, Conclude, Return, Enter, Fresh, Conclusion
<1>23. CASE PrecheckEnds
  BY <1>23 DEF Types, Flags, Labels, Counters, RunsWhenCalled, ProbesUseGlitches, PrecheckEnds, Return
<1>24. CASE EnsureClean
  BY <1>24 DEF Types, Flags, Labels, Counters, RunsWhenCalled, ProbesUseGlitches, EnsureClean, Enter
<1>25. CASE CancelRestart
  BY <1>25 DEF Types, Flags, Labels, Counters, RunsWhenCalled, ProbesUseGlitches, CancelRestart, Enter
<1>26. CASE Precheck
  BY <1>26 DEF Types, Flags, Labels, Counters, RunsWhenCalled, ProbesUseGlitches, Precheck, Ensure
<1>27. CASE Play
  BY <1>27 DEF Types, Flags, Labels, Counters, RunsWhenCalled, ProbesUseGlitches, Play
<1>28. CASE GameMoves /\ UNCHANGED recVars
  BY <1>28 DEF Types, Flags, Labels, Counters, RunsWhenCalled, ProbesUseGlitches, GameMoves, SteamStarts, SteamGivesUp, ModLoaded, GameDies, WedgedExits
<1>29. CASE rpc # "settle" /\ GameShowsMenu /\ haze' = MaxHaze /\ UNCHANGED <<save, rpc, callVars, settleVars>>
  BY <1>29 DEF Types, Flags, Labels, Counters, RunsWhenCalled, ProbesUseGlitches, GameShowsMenu, MenuAppears
<1>30. QED
  BY <1>1, <1>2, <1>3, <1>4, <1>5, <1>6, <1>7, <1>8, <1>9, <1>10, <1>11, <1>12, <1>13, <1>14, <1>15, <1>16, <1>17, <1>18, <1>19, <1>20, <1>21, <1>22, <1>23, <1>24, <1>25, <1>26, <1>27, <1>28, <1>29 DEF Next, Step, EnsureStep, Environment, Calls

\* Without a clean frame nothing has to be paid for.
LEMMA NoCleanFrame ==
  ASSUME NEW c \in Nat, NEW h \in Nat, NEW m \in Nat, c = 0, h <= m
  PROVE  c + h <= m
  OBVIOUS

\* A frame that looks clean while there is a saved run misleads.
LEMMA CleanFrameMisleads ==
  ASSUME Flags, NEW f \in Frame, save, Shown(f), FrameClean(f)
  PROVE  Misleading(f)
<1>1. f.field # "no" /\ f.field # "yes"
  BY DEF Shown, FrameClean
<1>2. f.field = "unpublished"
  BY <1>1 DEF Frame
<1>3. "continue_run" \notin f.actions /\ f.actions # {}
  BY <1>2 DEF FrameClean
<1>4. QED
  BY <1>2, <1>3, Zenon DEF Misleading

\* With a saved run, clean frames in a row are paid for by the haze.
LEMMA HazeStep ==
  ASSUME Types, HazePaysClean, Next
  PROVE  HazePaysClean'
<1> USE RecoveryAssumption
<1>1. CASE ProbeReady /\ UNCHANGED recVars
  BY <1>1 DEF Types, Labels, Counters, HazePaysClean, ProbeReady, Seen, Verdict
<1>2. CASE ProbeFails /\ UNCHANGED recVars
  BY <1>2 DEF Types, Labels, Counters, HazePaysClean, ProbeFails, NotSeen
<1>3. CASE Look /\ UNCHANGED recVars
  BY <1>3 DEF Types, Labels, Counters, HazePaysClean, Look, Present
<1>4. CASE GraceEnds /\ UNCHANGED recVars
  BY <1>4 DEF Types, Labels, Counters, HazePaysClean, GraceEnds, Seen
<1>5. CASE GracePollFails /\ UNCHANGED recVars
  BY <1>5 DEF Types, Labels, Counters, HazePaysClean, GracePollFails, NotSeen
<1>6. CASE Reprobe /\ UNCHANGED recVars
  BY <1>6 DEF Types, Labels, Counters, HazePaysClean, Reprobe, Seen, NotSeen, Verdict, Present
<1>7. CASE Recover /\ UNCHANGED recVars
  BY <1>7 DEF Types, Labels, Counters, HazePaysClean, Recover, Verdict
<1>8. CASE TerminateStale /\ UNCHANGED recVars
  BY <1>8 DEF Types, Labels, Counters, HazePaysClean, TerminateStale, Kill, Verdict
<1>9. CASE LaunchFresh /\ UNCHANGED recVars
  BY <1>9 DEF Types, Labels, Counters, HazePaysClean, LaunchFresh, Launch, Present
<1>10. CASE LaunchRaises /\ UNCHANGED recVars
  BY <1>10 DEF Types, Labels, Counters, HazePaysClean, LaunchRaises, Verdict, Present
<1>11. CASE AwaitControllable /\ UNCHANGED recVars
  BY <1>11 DEF Types, Labels, Counters, HazePaysClean, AwaitControllable, Seen, NotSeen
<1>12. CASE Verify /\ UNCHANGED recVars
  BY <1>12 DEF Types, Labels, Counters, HazePaysClean, Verify, Seen, NotSeen, Verdict
<1>13. CASE SettleRead
  <2>0. save' = save
    BY <1>13 DEF SettleRead
  <2> SUFFICES ASSUME save
               PROVE  cleanStreak' + haze' <= MaxHaze
    BY <2>0 DEF HazePaysClean
  <2>1. save /\ cleanStreak + haze <= MaxHaze
    BY <1>13 DEF SettleRead, HazePaysClean
  <2>2. CASE haze' = haze /\ cleanStreak' = cleanStreak
    BY <2>1, <2>2
  <2>3. CASE \E f \in Frame : Shows(f) /\ Judge(f)
    <3>1. PICK f \in Frame : Shows(f) /\ Judge(f)
      BY <2>3
    <3>2. haze' \in Nat
      BY <3>1 DEF Shows, Types, Counters
    <3>3. CASE cleanStreak' = 0
      <4>1. haze' <= MaxHaze
        BY <3>1 DEF Shows, Types, Counters
      <4>2. cleanStreak' \in Nat
        BY <3>3
      <4>3. QED
        BY <3>2, <3>3, <4>1, <4>2, NoCleanFrame
    <3>4. CASE FrameClean(f) /\ cleanStreak' = cleanStreak + 1
      <4>1. Misleading(f)
        BY <2>1, <3>1, <3>4, CleanFrameMisleads DEF Shows, Types
      <4>2. haze' = haze - 1
        BY <3>1, <4>1 DEF Shows
      <4>3. QED
        BY <2>1, <3>4, <4>2 DEF Types, Counters
    <3>5. QED
      BY <3>1, <3>3, <3>4 DEF Judge
  <2>4. QED
    BY <1>13, <2>2, <2>3 DEF SettleRead
<1>14. CASE Abandon
  BY <1>14 DEF Types, Labels, Counters, HazePaysClean, Abandon, Seen, NotSeen, Settle, Fresh
<1>15. CASE Confirm
  <2>1. cleanStreak' = 0
    BY <1>15 DEF Confirm, Settle, Fresh
  <2>2. haze' = haze \/ haze' = MaxHaze
    BY <1>15 DEF Confirm
  <2>3. QED
    BY <2>1, <2>2 DEF HazePaysClean, Types, Counters
<1>16. CASE LookForMenu
  BY <1>16 DEF Types, Labels, Counters, HazePaysClean, LookForMenu, Seen, NotSeen, Enter
<1>17. CASE Terminate
  BY <1>17 DEF Types, Labels, Counters, HazePaysClean, Terminate, Kill, Return
<1>18. CASE StartOnce
  BY <1>18 DEF Types, Labels, Counters, HazePaysClean, StartOnce, Ensure
<1>19. CASE Started
  BY <1>19 DEF Types, Labels, Counters, HazePaysClean, Started, Return
<1>20. CASE WaitForMenu
  BY <1>20 DEF Types, Labels, Counters, HazePaysClean, WaitForMenu, Seen, CanMiss, Settle, Fresh, Return
<1>21. CASE WaitForActions
  BY <1>21 DEF Types, Labels, Counters, HazePaysClean, WaitForActions, Seen, NotSeen, CanMiss, Settle, Fresh, Return, Enter
<1>22. CASE Conclude
  BY <1>22 DEF Types, Labels, Counters, HazePaysClean, Conclude, Return, Enter, Fresh, Conclusion
<1>23. CASE PrecheckEnds
  BY <1>23 DEF Types, Labels, Counters, HazePaysClean, PrecheckEnds, Return
<1>24. CASE EnsureClean
  BY <1>24 DEF Types, Labels, Counters, HazePaysClean, EnsureClean, Enter
<1>25. CASE CancelRestart
  BY <1>25 DEF Types, Labels, Counters, HazePaysClean, CancelRestart, Enter
<1>26. CASE Precheck
  BY <1>26 DEF Types, Labels, Counters, HazePaysClean, Precheck, Ensure
<1>27. CASE Play
  BY <1>27 DEF Types, Labels, Counters, HazePaysClean, Play
<1>28. CASE GameMoves /\ UNCHANGED recVars
  BY <1>28 DEF Types, Labels, Counters, HazePaysClean, GameMoves, SteamStarts, SteamGivesUp, ModLoaded, GameDies, WedgedExits
<1>29. CASE rpc # "settle" /\ GameShowsMenu /\ haze' = MaxHaze /\ UNCHANGED <<save, rpc, callVars, settleVars>>
  BY <1>29 DEF Types, Labels, Counters, HazePaysClean, GameShowsMenu, MenuAppears
<1>30. QED
  BY <1>1, <1>2, <1>3, <1>4, <1>5, <1>6, <1>7, <1>8, <1>9, <1>10, <1>11, <1>12, <1>13, <1>14, <1>15, <1>16, <1>17, <1>18, <1>19, <1>20, <1>21, <1>22, <1>23, <1>24, <1>25, <1>26, <1>27, <1>28, <1>29 DEF Next, Step, EnsureStep, Environment, Calls

\* Only a stable conclusion, which the haze cannot produce, is reported clean.
LEMMA CleanStep ==
  ASSUME Types, HazePaysClean, CleanIsTrue, Next
  PROVE  CleanIsTrue'
<1> USE EnvironmentAssumption, RecoveryAssumption
<1>1. CASE ProbeReady /\ UNCHANGED recVars
  BY <1>1 DEF Types, Labels, CleanIsTrue, ProbeReady, Seen, Verdict
<1>2. CASE ProbeFails /\ UNCHANGED recVars
  BY <1>2 DEF Types, Labels, CleanIsTrue, ProbeFails, NotSeen
<1>3. CASE Look /\ UNCHANGED recVars
  BY <1>3 DEF Types, Labels, CleanIsTrue, Look, Present
<1>4. CASE GraceEnds /\ UNCHANGED recVars
  BY <1>4 DEF Types, Labels, CleanIsTrue, GraceEnds, Seen
<1>5. CASE GracePollFails /\ UNCHANGED recVars
  BY <1>5 DEF Types, Labels, CleanIsTrue, GracePollFails, NotSeen
<1>6. CASE Reprobe /\ UNCHANGED recVars
  BY <1>6 DEF Types, Labels, CleanIsTrue, Reprobe, Seen, NotSeen, Verdict, Present
<1>7. CASE Recover /\ UNCHANGED recVars
  BY <1>7 DEF Types, Labels, CleanIsTrue, Recover, Verdict
<1>8. CASE TerminateStale /\ UNCHANGED recVars
  BY <1>8 DEF Types, Labels, CleanIsTrue, TerminateStale, Kill, Verdict
<1>9. CASE LaunchFresh /\ UNCHANGED recVars
  BY <1>9 DEF Types, Labels, CleanIsTrue, LaunchFresh, Launch, Present
<1>10. CASE LaunchRaises /\ UNCHANGED recVars
  BY <1>10 DEF Types, Labels, CleanIsTrue, LaunchRaises, Verdict, Present
<1>11. CASE AwaitControllable /\ UNCHANGED recVars
  BY <1>11 DEF Types, Labels, CleanIsTrue, AwaitControllable, Seen, NotSeen
<1>12. CASE Verify /\ UNCHANGED recVars
  BY <1>12 DEF Types, Labels, CleanIsTrue, Verify, Seen, NotSeen, Verdict
<1>13. CASE SettleRead
  BY <1>13 DEF Types, Labels, CleanIsTrue, SettleRead, Seen, NotSeen
<1>14. CASE Abandon
  BY <1>14 DEF Types, Labels, CleanIsTrue, Abandon, Seen, NotSeen, Settle, Fresh
<1>15. CASE Confirm
  BY <1>15 DEF Types, Labels, CleanIsTrue, Confirm, Seen, NotSeen, Settle, Fresh
<1>16. CASE LookForMenu
  BY <1>16 DEF Types, Labels, CleanIsTrue, LookForMenu, Seen, NotSeen, Enter
<1>17. CASE Terminate
  BY <1>17 DEF Types, Labels, CleanIsTrue, Terminate, Kill, Return
<1>18. CASE StartOnce
  BY <1>18 DEF Types, Labels, CleanIsTrue, StartOnce, Ensure
<1>19. CASE Started
  BY <1>19 DEF Types, Labels, CleanIsTrue, Started, Return
<1>20. CASE WaitForMenu
  BY <1>20 DEF Types, Labels, CleanIsTrue, WaitForMenu, Seen, CanMiss, Settle, Fresh, Return
<1>21. CASE WaitForActions
  BY <1>21 DEF Types, Labels, CleanIsTrue, WaitForActions, Seen, NotSeen, CanMiss, Settle, Fresh, Return, Enter
<1>22. CASE Conclude
  <2> SUFFICES ASSUME rpc' = "idle", result' = "clean"
               PROVE  ~save'
    BY DEF CleanIsTrue
  <2>1. Conclusion = "clean"
    BY <1>22 DEF Conclude, Return, Enter, Types, Labels
  <2>2. cleanStreak >= StableFrames
    BY <2>1 DEF Conclusion
  <2>3. ~save
    BY <1>22, <2>2 DEF Conclude, HazePaysClean, Types, Counters
  <2>4. QED
    BY <1>22, <2>3 DEF Conclude
<1>23. CASE PrecheckEnds
  BY <1>23 DEF PrecheckEnds, Return, CleanIsTrue, Types, Labels
<1>24. CASE EnsureClean
  BY <1>24 DEF Types, Labels, CleanIsTrue, EnsureClean, Enter
<1>25. CASE CancelRestart
  BY <1>25 DEF Types, Labels, CleanIsTrue, CancelRestart, Enter
<1>26. CASE Precheck
  BY <1>26 DEF Types, Labels, CleanIsTrue, Precheck, Ensure
<1>27. CASE Play
  BY <1>27 DEF Types, Labels, CleanIsTrue, Play
<1>28. CASE GameMoves /\ UNCHANGED recVars
  BY <1>28 DEF Types, Labels, CleanIsTrue, GameMoves, SteamStarts, SteamGivesUp, ModLoaded, GameDies, WedgedExits
<1>29. CASE rpc # "settle" /\ GameShowsMenu /\ haze' = MaxHaze /\ UNCHANGED <<save, rpc, callVars, settleVars>>
  BY <1>29 DEF Types, Labels, CleanIsTrue, GameShowsMenu, MenuAppears
<1>30. QED
  BY <1>1, <1>2, <1>3, <1>4, <1>5, <1>6, <1>7, <1>8, <1>9, <1>10, <1>11, <1>12, <1>13, <1>14, <1>15, <1>16, <1>17, <1>18, <1>19, <1>20, <1>21, <1>22, <1>23, <1>24, <1>25, <1>26, <1>27, <1>28, <1>29 DEF Next, Step, EnsureStep, Environment, Calls

\* The invariant holds at the start ...
LEMMA InitInv == Init => RecoveryInv
<1> SUFFICES ASSUME Init
             PROVE  RecoveryInv
  OBVIOUS
<1>1. Flags
  BY Zenon DEF Init, LifeInit, Flags
<1>2. Labels
  BY DEF Init, LifeInit, Labels
<1>3. Counters
  BY LifecycleAssumption, RecoveryAssumption DEF Init, LifeInit, Counters
<1>4. TypeOK
  BY <1>1, <1>2, <1>3, TypesAreTypeOK DEF Types
<1>5. CyclesPayLaunches
  BY LifecycleAssumption DEF Init, LifeInit, CyclesPayLaunches
<1>6. RunsWhenCalled /\ HazePaysClean /\ CleanIsTrue
  BY DEF Init, LifeInit, RunsWhenCalled, HazePaysClean, CleanIsTrue
<1>7. ProbesUseGlitches
  BY DEF Init, LifeInit, ProbesUseGlitches
<1>8. QED
  BY <1>4, <1>5, <1>6, <1>7 DEF RecoveryInv

\* ... every step keeps it ...
LEMMA StepInv == RecoveryInv /\ Next => RecoveryInv'
<1> SUFFICES ASSUME RecoveryInv, Next
             PROVE  RecoveryInv'
  OBVIOUS
<1>1. Types
  BY TypesAreTypeOK DEF RecoveryInv
<1>2. Types'
  BY <1>1, FlagsStep, LabelsStep, CountersStep DEF Types
<1>3. TypeOK' <=> Types'
  BY Zenon DEF TypeOK, LifeTypeOK, Types, Flags, Labels, Counters
<1>4. RunsWhenCalled' /\ CyclesPayLaunches'
  BY <1>1, CalledStep, LaunchStep DEF RecoveryInv
<1>5. ProbesUseGlitches'
  BY <1>1, ProbeStep DEF RecoveryInv
<1>6. HazePaysClean' /\ CleanIsTrue'
  BY <1>1, HazeStep, CleanStep DEF RecoveryInv
<1>7. QED
  BY <1>2, <1>3, <1>4, <1>5, <1>6 DEF RecoveryInv

\* ... and so does doing nothing.
LEMMA StutterInv == RecoveryInv /\ UNCHANGED vars => RecoveryInv'
<1> SUFFICES ASSUME RecoveryInv, UNCHANGED vars
             PROVE  RecoveryInv'
  OBVIOUS
<1>. Types
  BY TypesAreTypeOK DEF RecoveryInv
<1>a. Flags' /\ Labels'
  <2>1. Flags'
    BY Zenon DEF vars, Types, Flags
  <2>2. Labels'
    BY DEF vars, Types, Labels
  <2>3. QED
    BY <2>1, <2>2
<1>b. Counters'
  BY Zenon DEF vars, Types, Counters
<1>1. TypeOK'
  BY <1>a, <1>b, Zenon DEF TypeOK, LifeTypeOK, Flags, Labels, Counters
<1>2. RunsWhenCalled' /\ CyclesPayLaunches'
  BY Zenon DEF vars, RecoveryInv, RunsWhenCalled, CyclesPayLaunches
<1>3. ProbesUseGlitches'
  BY Zenon DEF vars, RecoveryInv, ProbesUseGlitches
<1>4. HazePaysClean' /\ CleanIsTrue'
  BY Zenon DEF vars, RecoveryInv, HazePaysClean, CleanIsTrue
<1>5. QED
  BY <1>1, <1>2, <1>3, <1>4 DEF RecoveryInv

-----------------------------------------------------------------------------
\* The inductive invariant holds in every behaviour.
THEOREM RecoveryInvariant == Spec => []RecoveryInv
<1>1. RecoveryInv /\ [Next]_vars => RecoveryInv'
  BY StepInv, StutterInv
<1>2. QED
  BY InitInv, <1>1, PTL DEF Spec

\* A menu reported clean has no saved run.
THEOREM CleanMenuIsClean == Spec => []CleanIsTrue
<1>1. RecoveryInv => CleanIsTrue
  BY DEF RecoveryInv
<1>2. QED
  BY RecoveryInvariant, <1>1, PTL

\* A sound game is not terminated for a few failed reads.
THEOREM SoundGameIsKept == Spec => []GoodGameSurvives
<1>1. RecoveryInv => GoodGameSurvives
  BY DEF RecoveryInv, ProbesUseGlitches, GoodGameSurvives
<1>2. QED
  BY RecoveryInvariant, <1>1, PTL

\* A call launches the game at most MaxRecoveries times.
THEOREM LaunchesAreBounded == Spec => []OneStart
<1>1. RecoveryInv => OneStart
  BY DEF RecoveryInv, CyclesPayLaunches, OneStart
<1>2. QED
  BY RecoveryInvariant, <1>1, PTL

================================================================================
