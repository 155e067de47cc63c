------------------------- MODULE TestSession_proofs -------------------------
(***************************************************************************)
(* What TestSession guarantees for every list of cases, every set of        *)
(* failures and every threshold above one.  The invariant is a conjunction  *)
(* of parts, each proved inductive from those before it.                    *)
(***************************************************************************)
EXTENDS TestSession, SequenceTheorems, TLAPS

USE DEF fileVars, caseVars, failVars, flags, dogVars, campaign, locks,
        Starting, Running, InSession

\* The Boolean variables.
Booleans ==
    /\ lock \in BOOLEAN
    /\ rival \in BOOLEAN
    /\ astray \in BOOLEAN
    /\ crashed \in BOOLEAN
    /\ asked \in BOOLEAN
    /\ keep \in BOOLEAN

\* The other variables; a case that is being run is one of those to do.
Values ==
    /\ file \in {"none", "good", "bad"}
    /\ pending \subseteq Cases
    /\ pc \in {"out", "acquire", "clear", "returned"} \cup InSession
    /\ todo \subseteq Cases
    /\ cur \in Nat
    /\ verdict \in [Cases -> Verdicts]
    /\ history \in Seq(Failures)
    /\ plan \in Plans
    /\ watchdog \in {"off", "watching", "done"}
    /\ exit \in {"none", "green", "red", "died"}
    /\ ran \subseteq Cases
    /\ givenUp \subseteq Cases
    /\ zombie \in {"no", "yes", "recovered"}
    /\ restarts \in Nat
    /\ pc \in {"case", "recover", "save"} => cur \in todo

\* The file lists every case the process has yet to finish.
FileKnows ==
    (pc \notin {"out", "returned"} /\ file = "good") => todo \subseteq pending

\* The cases that are no longer to do are accounted for.
Accounted ==
    /\ NothingForgotten
    /\ pc \notin {"out", "returned"} => Cases \ todo \subseteq ran \cup givenUp
    /\ pc = "save" => cur \in ran
    /\ pc \in {"stop", "clear"} => keep \/ todo = {}

\* A session the watchdog has reported is crashed, until a recovery succeeds.
ZombieCrashed ==
    /\ (zombie = "yes" /\ pc \in Running) => crashed
    /\ pc \in Starting \cup {"acquire"} => zombie = "no"

\* A verdict no later step of the session changes: it makes the exit code red.
SomeFail == \E c \in Cases : verdict[c] = "fail"
SomeRed == \E c \in Cases : verdict[c] \in {"fail", "crash"}

\* Cases that are to do have no verdict; no verdict is without its reason.
Earned ==
    /\ pc \notin {"out", "returned"} => exit = "none"
    /\ pc \in Starting \cup {"acquire", "loop", "case", "recover"}
        => \A c \in todo : verdict[c] = "none"
    /\ pc = "save" => \A c \in todo \ {cur} : verdict[c] = "none"
    /\ (pc \in {"loop", "case", "save"} /\ Len(history) >= 1) => SomeFail
    /\ (pc = "recover" /\ Len(history) >= 2) => SomeFail
    /\ (\E c \in Cases : verdict[c] = "deterministic_fail") => SomeFail
    /\ (pc \notin {"out", "returned"} /\ crashed) => zombie # "no" \/ SomeRed
    /\ (\E c \in Cases : verdict[c] = "skip") => asked \/ zombie # "no" \/ SomeRed
    /\ GreenIsEarned

\* The failures that may lead to a restart.
Crashes == {g \in Failures : g.type = "crash"}

\* Each restart stands for a crash at the end of the history.
Restarted ==
    /\ pc \in Starting \cup {"acquire"} => restarts = 0
    /\ pc \in Running => EndsWith(history, Crashes, restarts)
    /\ (pc = "recover" /\ plan \in Restarts)
        => EndsWith(history, Crashes, restarts + 1) /\ restarts + 1 < MaxConsecutive
    /\ RestartsAreBounded

\* Each step keeps the Boolean variables Boolean.
LEMMA BooleansStep ==
  ASSUME Booleans, Next
  PROVE  Booleans'
<1>1. CASE Run
  BY <1>1, Zenon DEF Booleans, Run, BeginAnew, Begin, Refuse
<1>2. CASE RunNoResume
  BY <1>2, Zenon
   DEF Booleans, RunNoResume, ClearProgress, BeginAnew, Begin, Refuse
<1>3. CASE Resume
  BY <1>3, Zenon DEF Booleans, Resume, Begin, Refuse
<1>4. CASE ResumeWithoutFile
  BY <1>4, Zenon DEF Booleans, ResumeWithoutFile, BeginAnew, Begin, Refuse
<1>5. CASE Acquire
  BY <1>5, Zenon DEF Booleans, Acquire
<1>6. CASE SessionBusy
  BY <1>6, Zenon DEF Booleans, SessionBusy
<1>7. CASE CheckpointPassed
  BY <1>7, Zenon DEF Booleans, CheckpointPassed, NextCheckpoint
<1>8. CASE CheckpointFailed
  BY <1>8, Zenon DEF Booleans, CheckpointFailed, LetGo
<1>9. CASE Started
  BY <1>9, Zenon DEF Booleans, Started
<1>10. CASE StartCase
  BY <1>10, Zenon DEF Booleans, StartCase, IsNext
<1>11. CASE SkipCase
  BY <1>11, Zenon DEF Booleans, SkipCase, SaveProgress, IsNext
<1>12. CASE AllDone
  BY <1>12, Zenon DEF Booleans, AllDone
<1>13. CASE CaseSaved
  BY <1>13, Zenon DEF Booleans, CaseSaved, SaveProgress
<1>14. CASE StopsAsAsked
  BY <1>14, Zenon DEF Booleans, StopsAsAsked, SaveProgress
<1>15. CASE CaseEnds
  BY <1>15, Zenon DEF Booleans, CaseEnds, Ends
<1>16. CASE CaseBreaks
  BY <1>16, Zenon DEF Booleans, CaseBreaks, Ends
<1>17. CASE FailsFatally
  BY <1>17, Zenon DEF Booleans, FailsFatally, Ends
<1>18. CASE FailsForGood
  BY <1>18, Zenon DEF Booleans, FailsForGood, Ends, Recorded
<1>19. CASE FailsAndRecovers
  BY <1>19, Zenon DEF Booleans, FailsAndRecovers, Recorded
<1>20. CASE Recovered
  BY <1>20, Zenon DEF Booleans, Recovered, Ends, Outcomes
<1>21. CASE StopSession
  BY <1>21, Zenon DEF Booleans, StopSession, LetGo
<1>22. CASE FinishSession
  BY <1>22, Zenon DEF Booleans, FinishSession, ClearProgress
<1>23. CASE ProcessExits
  BY <1>23, Zenon DEF Booleans, ProcessExits, LetGo
<1>24. CASE Corrupt
  BY <1>24, Zenon DEF Booleans, Corrupt
<1>25. CASE WatchdogFires
  BY <1>25, Zenon DEF Booleans, WatchdogFires
<1>26. CASE AskToStop
  BY <1>26, Zenon DEF Booleans, AskToStop
<1>27. CASE Dies
  BY <1>27, Zenon DEF Booleans, Dies, LetGo
<1>28. CASE RivalLocks
  BY <1>28, Zenon DEF Booleans, RivalLocks
<1>29. CASE RivalUnlocks
  BY <1>29, Zenon DEF Booleans, RivalUnlocks
<1>30. QED
  BY <1>1, <1>2, <1>3, <1>4, <1>5, <1>6, <1>7, <1>8, <1>9, <1>10, <1>11, <1>12,
     <1>13, <1>14, <1>15, <1>16, <1>17, <1>18, <1>19, <1>20, <1>21, <1>22,
     <1>23, <1>24, <1>25, <1>26, <1>27, <1>28, <1>29
   DEF Next, Command, Advance, Start, Loop, Case, Finish, Others

\* A new process knows no verdict and no failure.
LEMMA Blank ==
  /\ [c \in Cases |-> "none"] \in [Cases -> Verdicts]
  /\ <<>> \in Seq(Failures)
BY DEF Verdicts

LEMMA BeginValues ==
  ASSUME NEW S, S \subseteq Cases, Values, Begin(S),
         file' \in {"none", "good", "bad"},
         pending' \subseteq Cases, ran' \subseteq Cases, givenUp' \subseteq Cases
  PROVE  Values'
<1>1. verdict' \in [Cases -> Verdicts] /\ history' \in Seq(Failures)
  BY Blank DEF Begin
<1>2. todo' \subseteq Cases /\ cur' \in Nat /\ restarts' \in Nat
        /\ plan' \in Plans
  BY DEF Begin, Plans
<1>3. watchdog' \in {"off", "watching", "done"} /\ pc' = "acquire"
        /\ exit' = "none" /\ zombie' = "no"
  BY DEF Begin, Values
<1>4. QED
  BY <1>1, <1>2, <1>3 DEF Values

LEMMA RefuseValues ==
  ASSUME NEW e \in {"green", "red"}, Values, Refuse(e),
         file' \in {"none", "good", "bad"},
         pending' \subseteq Cases
  PROVE  Values'
<1>1. verdict' \in [Cases -> Verdicts]
  BY Blank DEF Refuse
<1>2. QED
  BY <1>1 DEF Values, Refuse

\* ... and the others in their sets.
LEMMA ValuesStep ==
  ASSUME Values, Next
  PROVE  Values'
<1>1. CASE Run
  <2>1. file' \in {"none", "good", "bad"} /\ pending' \subseteq Cases
    BY <1>1 DEF Values, Run, ClearProgress
  <2>2. QED
    BY <1>1, <2>1, BeginValues, RefuseValues DEF Values, Run, BeginAnew
<1>2. CASE RunNoResume
  <2>1. file' \in {"none", "good", "bad"} /\ pending' \subseteq Cases
    BY <1>2 DEF Values, RunNoResume, ClearProgress
  <2>2. QED
    BY <1>2, <2>1, BeginValues, RefuseValues DEF Values, RunNoResume, BeginAnew
<1>3. CASE Resume
  <2>1. file' \in {"none", "good", "bad"} /\ pending' \subseteq Cases
    BY <1>3 DEF Values, Resume, ClearProgress
  <2>2. QED
    BY <1>3, <2>1, BeginValues, RefuseValues DEF Values, Resume, BeginAnew
<1>4. CASE ResumeWithoutFile
  <2>1. file' \in {"none", "good", "bad"} /\ pending' \subseteq Cases
    BY <1>4 DEF Values, ResumeWithoutFile, ClearProgress
  <2>2. QED
    BY <1>4, <2>1, BeginValues, RefuseValues
     DEF Values, ResumeWithoutFile, BeginAnew
<1>5. CASE Acquire
  BY <1>5 DEF Values, Acquire
<1>6. CASE SessionBusy
  BY <1>6 DEF Values, SessionBusy
<1>7. CASE CheckpointPassed
  BY <1>7 DEF Values, CheckpointPassed, NextCheckpoint
<1>8. CASE CheckpointFailed
  BY <1>8 DEF Values, CheckpointFailed, LetGo
<1>9. CASE Started
  BY <1>9 DEF Values, Started
<1>10. CASE StartCase
  BY <1>10, CasesAssumption DEF Values, StartCase, IsNext
<1>11. CASE SkipCase
  BY <1>11 DEF Values, SkipCase, SaveProgress, IsNext, Verdicts
<1>12. CASE AllDone
  BY <1>12 DEF Values, AllDone
<1>13. CASE CaseSaved
  BY <1>13 DEF Values, CaseSaved, SaveProgress
<1>14. CASE StopsAsAsked
  BY <1>14 DEF Values, StopsAsAsked, SaveProgress, Verdicts
<1>15. CASE CaseEnds
  BY <1>15 DEF Values, CaseEnds, Ends, Verdicts
<1>16. CASE CaseBreaks
  BY <1>16 DEF Values, CaseBreaks, Ends, Verdicts
<1>17. CASE FailsFatally
  BY <1>17 DEF Values, FailsFatally, Ends, Verdicts
<1>18. CASE FailsForGood
  BY <1>18 DEF Values, FailsForGood, Ends, Recorded, Verdicts
<1>19. CASE FailsAndRecovers
  BY <1>19
   DEF Values, FailsAndRecovers, Recorded, Plans, Restarts, Decide, DecideCrash,
       Ladder
<1>20. CASE Recovered
  BY <1>20 DEF Values, Recovered, Ends, Outcomes, Verdicts, Plans
<1>21. CASE StopSession
  BY <1>21 DEF Values, StopSession, LetGo
<1>22. CASE FinishSession
  BY <1>22 DEF Values, FinishSession, ClearProgress
<1>23. CASE ProcessExits
  BY <1>23 DEF Values, ProcessExits, LetGo
<1>24. CASE Corrupt
  BY <1>24 DEF Values, Corrupt
<1>25. CASE WatchdogFires
  BY <1>25 DEF Values, WatchdogFires
<1>26. CASE AskToStop
  BY <1>26 DEF Values, AskToStop
<1>27. CASE Dies
  BY <1>27 DEF Values, Dies, LetGo
<1>28. CASE RivalLocks
  BY <1>28 DEF Values, RivalLocks
<1>29. CASE RivalUnlocks
  BY <1>29 DEF Values, RivalUnlocks
<1>30. QED
  BY <1>1, <1>2, <1>3, <1>4, <1>5, <1>6, <1>7, <1>8, <1>9, <1>10, <1>11, <1>12,
     <1>13, <1>14, <1>15, <1>16, <1>17, <1>18, <1>19, <1>20, <1>21, <1>22,
     <1>23, <1>24, <1>25, <1>26, <1>27, <1>28, <1>29
   DEF Next, Command, Advance, Start, Loop, Case, Finish, Others

\* The lock follows the session.
LEMMA LockStep ==
  ASSUME LockMatchesSession, Next
  PROVE  LockMatchesSession'
<1>1. CASE Run
  BY <1>1 DEF LockMatchesSession, Run, BeginAnew, Begin, Refuse
<1>2. CASE RunNoResume
  BY <1>2
   DEF LockMatchesSession, RunNoResume, ClearProgress, BeginAnew, Begin, Refuse
<1>3. CASE Resume
  BY <1>3 DEF LockMatchesSession, Resume, Begin, Refuse
<1>4. CASE ResumeWithoutFile
  BY <1>4 DEF LockMatchesSession, ResumeWithoutFile, BeginAnew, Begin, Refuse
<1>5. CASE Acquire
  BY <1>5 DEF LockMatchesSession, Acquire
<1>6. CASE SessionBusy
  BY <1>6 DEF LockMatchesSession, SessionBusy
<1>7. CASE CheckpointPassed
  BY <1>7 DEF LockMatchesSession, CheckpointPassed, NextCheckpoint
<1>8. CASE CheckpointFailed
  BY <1>8 DEF LockMatchesSession, CheckpointFailed, LetGo
<1>9. CASE Started
  BY <1>9 DEF LockMatchesSession, Started
<1>10. CASE StartCase
  BY <1>10 DEF LockMatchesSession, StartCase, IsNext
<1>11. CASE SkipCase
  BY <1>11 DEF LockMatchesSession, SkipCase, SaveProgress, IsNext
<1>12. CASE AllDone
  BY <1>12 DEF LockMatchesSession, AllDone
<1>13. CASE CaseSaved
  BY <1>13 DEF LockMatchesSession, CaseSaved, SaveProgress
<1>14. CASE StopsAsAsked
  BY <1>14 DEF LockMatchesSession, StopsAsAsked, SaveProgress
<1>15. CASE CaseEnds
  BY <1>15 DEF LockMatchesSession, CaseEnds, Ends
<1>16. CASE CaseBreaks
  BY <1>16 DEF LockMatchesSession, CaseBreaks, Ends
<1>17. CASE FailsFatally
  BY <1>17 DEF LockMatchesSession, FailsFatally, Ends
<1>18. CASE FailsForGood
  BY <1>18 DEF LockMatchesSession, FailsForGood, Ends, Recorded
<1>19. CASE FailsAndRecovers
  BY <1>19 DEF LockMatchesSession, FailsAndRecovers, Recorded
<1>20. CASE Recovered
  BY <1>20 DEF LockMatchesSession, Recovered, Ends, Outcomes
<1>21. CASE StopSession
  BY <1>21 DEF LockMatchesSession, StopSession, LetGo
<1>22. CASE FinishSession
  BY <1>22 DEF LockMatchesSession, FinishSession, ClearProgress
<1>23. CASE ProcessExits
  BY <1>23 DEF LockMatchesSession, ProcessExits, LetGo
<1>24. CASE Corrupt
  BY <1>24 DEF LockMatchesSession, Corrupt
<1>25. CASE WatchdogFires
  BY <1>25 DEF LockMatchesSession, WatchdogFires
<1>26. CASE AskToStop
  BY <1>26 DEF LockMatchesSession, AskToStop
<1>27. CASE Dies
  BY <1>27 DEF LockMatchesSession, Dies, LetGo
<1>28. CASE RivalLocks
  BY <1>28 DEF LockMatchesSession, RivalLocks
<1>29. CASE RivalUnlocks
  BY <1>29 DEF LockMatchesSession, RivalUnlocks
<1>30. QED
  BY <1>1, <1>2, <1>3, <1>4, <1>5, <1>6, <1>7, <1>8, <1>9, <1>10, <1>11, <1>12,
     <1>13, <1>14, <1>15, <1>16, <1>17, <1>18, <1>19, <1>20, <1>21, <1>22,
     <1>23, <1>24, <1>25, <1>26, <1>27, <1>28, <1>29
   DEF Next, Command, Advance, Start, Loop, Case, Finish, Others

\* The file is never ahead of the session.
LEMMA FileStep ==
  ASSUME FileKnows, Next
  PROVE  FileKnows'
<1>1. CASE Run
  BY <1>1 DEF FileKnows, Run, BeginAnew, Begin, Refuse
<1>2. CASE RunNoResume
  BY <1>2 DEF FileKnows, RunNoResume, ClearProgress, BeginAnew, Begin, Refuse
<1>3. CASE Resume
  BY <1>3 DEF FileKnows, Resume, Begin, Refuse
<1>4. CASE ResumeWithoutFile
  BY <1>4 DEF FileKnows, ResumeWithoutFile, BeginAnew, Begin, Refuse
<1>5. CASE Acquire
  BY <1>5 DEF FileKnows, Acquire
<1>6. CASE SessionBusy
  BY <1>6 DEF FileKnows, SessionBusy
<1>7. CASE CheckpointPassed
  BY <1>7 DEF FileKnows, CheckpointPassed, NextCheckpoint
<1>8. CASE CheckpointFailed
  BY <1>8 DEF FileKnows, CheckpointFailed, LetGo
<1>9. CASE Started
  BY <1>9 DEF FileKnows, Started
<1>10. CASE StartCase
  BY <1>10 DEF FileKnows, StartCase, IsNext
<1>11. CASE SkipCase
  BY <1>11 DEF FileKnows, SkipCase, SaveProgress, IsNext
<1>12. CASE AllDone
  BY <1>12 DEF FileKnows, AllDone
<1>13. CASE CaseSaved
  BY <1>13 DEF FileKnows, CaseSaved, SaveProgress
<1>14. CASE StopsAsAsked
  BY <1>14 DEF FileKnows, StopsAsAsked, SaveProgress
<1>15. CASE CaseEnds
  BY <1>15 DEF FileKnows, CaseEnds, Ends
<1>16. CASE CaseBreaks
  BY <1>16 DEF FileKnows, CaseBreaks, Ends
<1>17. CASE FailsFatally
  BY <1>17 DEF FileKnows, FailsFatally, Ends
<1>18. CASE FailsForGood
  BY <1>18 DEF FileKnows, FailsForGood, Ends, Recorded
<1>19. CASE FailsAndRecovers
  BY <1>19 DEF FileKnows, FailsAndRecovers, Recorded
<1>20. CASE Recovered
  BY <1>20 DEF FileKnows, Recovered, Ends, Outcomes
<1>21. CASE StopSession
  BY <1>21 DEF FileKnows, StopSession, LetGo
<1>22. CASE FinishSession
  BY <1>22 DEF FileKnows, FinishSession, ClearProgress
<1>23. CASE ProcessExits
  BY <1>23 DEF FileKnows, ProcessExits, LetGo
<1>24. CASE Corrupt
  BY <1>24 DEF FileKnows, Corrupt
<1>25. CASE WatchdogFires
  BY <1>25 DEF FileKnows, WatchdogFires
<1>26. CASE AskToStop
  BY <1>26 DEF FileKnows, AskToStop
<1>27. CASE Dies
  BY <1>27 DEF FileKnows, Dies, LetGo
<1>28. CASE RivalLocks
  BY <1>28 DEF FileKnows, RivalLocks
<1>29. CASE RivalUnlocks
  BY <1>29 DEF FileKnows, RivalUnlocks
<1>30. QED
  BY <1>1, <1>2, <1>3, <1>4, <1>5, <1>6, <1>7, <1>8, <1>9, <1>10, <1>11, <1>12,
     <1>13, <1>14, <1>15, <1>16, <1>17, <1>18, <1>19, <1>20, <1>21, <1>22,
     <1>23, <1>24, <1>25, <1>26, <1>27, <1>28, <1>29
   DEF Next, Command, Advance, Start, Loop, Case, Finish, Others

\* No case gets lost.
LEMMA AccountedStep ==
  ASSUME Values, Accounted, Next
  PROVE  Accounted'
<1>1. CASE Run
  BY <1>1 DEF Accounted, NothingForgotten, Run, BeginAnew, Begin, Refuse
<1>2. CASE RunNoResume
  BY <1>2
   DEF Accounted, NothingForgotten, RunNoResume, ClearProgress, BeginAnew,
       Begin, Refuse
<1>3. CASE Resume
  BY <1>3 DEF Accounted, NothingForgotten, Resume, Begin, Refuse
<1>4. CASE ResumeWithoutFile
  BY <1>4
   DEF Accounted, NothingForgotten, ResumeWithoutFile, BeginAnew, Begin, Refuse
<1>5. CASE Acquire
  BY <1>5 DEF Accounted, NothingForgotten, Acquire
<1>6. CASE SessionBusy
  BY <1>6 DEF Accounted, NothingForgotten, SessionBusy
<1>7. CASE CheckpointPassed
  BY <1>7 DEF Accounted, NothingForgotten, CheckpointPassed, NextCheckpoint
<1>8. CASE CheckpointFailed
  BY <1>8 DEF Accounted, NothingForgotten, CheckpointFailed, LetGo
<1>9. CASE Started
  BY <1>9 DEF Accounted, NothingForgotten, Started
<1>10. CASE StartCase
  BY <1>10 DEF Accounted, NothingForgotten, StartCase, IsNext, Values
<1>11. CASE SkipCase
  BY <1>11
   DEF Accounted, NothingForgotten, SkipCase, SaveProgress, IsNext, Values
<1>12. CASE AllDone
  BY <1>12 DEF Accounted, NothingForgotten, AllDone
<1>13. CASE CaseSaved
  BY <1>13 DEF Accounted, NothingForgotten, CaseSaved, SaveProgress
<1>14. CASE StopsAsAsked
  BY <1>14 DEF Accounted, NothingForgotten, StopsAsAsked, SaveProgress
<1>15. CASE CaseEnds
  BY <1>15 DEF Accounted, NothingForgotten, CaseEnds, Ends
<1>16. CASE CaseBreaks
  BY <1>16 DEF Accounted, NothingForgotten, CaseBreaks, Ends
<1>17. CASE FailsFatally
  BY <1>17 DEF Accounted, NothingForgotten, FailsFatally, Ends
<1>18. CASE FailsForGood
  BY <1>18 DEF Accounted, NothingForgotten, FailsForGood, Ends, Recorded
<1>19. CASE FailsAndRecovers
  BY <1>19 DEF Accounted, NothingForgotten, FailsAndRecovers, Recorded
<1>20. CASE Recovered
  BY <1>20 DEF Accounted, NothingForgotten, Recovered, Ends, Outcomes, Values
<1>21. CASE StopSession
  BY <1>21 DEF Accounted, NothingForgotten, StopSession, LetGo
<1>22. CASE FinishSession
  BY <1>22 DEF Accounted, NothingForgotten, FinishSession, ClearProgress
<1>23. CASE ProcessExits
  BY <1>23 DEF Accounted, NothingForgotten, ProcessExits, LetGo
<1>24. CASE Corrupt
  BY <1>24 DEF Accounted, NothingForgotten, Corrupt
<1>25. CASE WatchdogFires
  BY <1>25 DEF Accounted, NothingForgotten, WatchdogFires
<1>26. CASE AskToStop
  BY <1>26 DEF Accounted, NothingForgotten, AskToStop
<1>27. CASE Dies
  BY <1>27 DEF Accounted, NothingForgotten, Dies, LetGo
<1>28. CASE RivalLocks
  BY <1>28 DEF Accounted, NothingForgotten, RivalLocks
<1>29. CASE RivalUnlocks
  BY <1>29 DEF Accounted, NothingForgotten, RivalUnlocks
<1>30. QED
  BY <1>1, <1>2, <1>3, <1>4, <1>5, <1>6, <1>7, <1>8, <1>9, <1>10, <1>11, <1>12,
     <1>13, <1>14, <1>15, <1>16, <1>17, <1>18, <1>19, <1>20, <1>21, <1>22,
     <1>23, <1>24, <1>25, <1>26, <1>27, <1>28, <1>29
   DEF Next, Command, Advance, Start, Loop, Case, Finish, Others

\* The mark of the watchdog goes with the crash flag.
LEMMA ZombieStep ==
  ASSUME ZombieCrashed, Next
  PROVE  ZombieCrashed'
<1>1. CASE Run
  BY <1>1 DEF ZombieCrashed, Run, BeginAnew, Begin, Refuse
<1>2. CASE RunNoResume
  BY <1>2
   DEF ZombieCrashed, RunNoResume, ClearProgress, BeginAnew, Begin, Refuse
<1>3. CASE Resume
  BY <1>3 DEF ZombieCrashed, Resume, Begin, Refuse
<1>4. CASE ResumeWithoutFile
  BY <1>4 DEF ZombieCrashed, ResumeWithoutFile, BeginAnew, Begin, Refuse
<1>5. CASE Acquire
  BY <1>5 DEF ZombieCrashed, Acquire
<1>6. CASE SessionBusy
  BY <1>6 DEF ZombieCrashed, SessionBusy
<1>7. CASE CheckpointPassed
  BY <1>7 DEF ZombieCrashed, CheckpointPassed, NextCheckpoint
<1>8. CASE CheckpointFailed
  BY <1>8 DEF ZombieCrashed, CheckpointFailed, LetGo
<1>9. CASE Started
  BY <1>9 DEF ZombieCrashed, Started
<1>10. CASE StartCase
  BY <1>10 DEF ZombieCrashed, StartCase, IsNext
<1>11. CASE SkipCase
  BY <1>11 DEF ZombieCrashed, SkipCase, SaveProgress, IsNext
<1>12. CASE AllDone
  BY <1>12 DEF ZombieCrashed, AllDone
<1>13. CASE CaseSaved
  BY <1>13 DEF ZombieCrashed, CaseSaved, SaveProgress
<1>14. CASE StopsAsAsked
  BY <1>14 DEF ZombieCrashed, StopsAsAsked, SaveProgress
<1>15. CASE CaseEnds
  BY <1>15 DEF ZombieCrashed, CaseEnds, Ends
<1>16. CASE CaseBreaks
  BY <1>16 DEF ZombieCrashed, CaseBreaks, Ends
<1>17. CASE FailsFatally
  BY <1>17 DEF ZombieCrashed, FailsFatally, Ends
<1>18. CASE FailsForGood
  BY <1>18 DEF ZombieCrashed, FailsForGood, Ends, Recorded
<1>19. CASE FailsAndRecovers
  BY <1>19 DEF ZombieCrashed, FailsAndRecovers, Recorded
<1>20. CASE Recovered
  BY <1>20 DEF ZombieCrashed, Recovered, Ends, Outcomes
<1>21. CASE StopSession
  BY <1>21 DEF ZombieCrashed, StopSession, LetGo
<1>22. CASE FinishSession
  BY <1>22 DEF ZombieCrashed, FinishSession, ClearProgress
<1>23. CASE ProcessExits
  BY <1>23 DEF ZombieCrashed, ProcessExits, LetGo
<1>24. CASE Corrupt
  BY <1>24 DEF ZombieCrashed, Corrupt
<1>25. CASE WatchdogFires
  BY <1>25 DEF ZombieCrashed, WatchdogFires
<1>26. CASE AskToStop
  BY <1>26 DEF ZombieCrashed, AskToStop
<1>27. CASE Dies
  BY <1>27 DEF ZombieCrashed, Dies, LetGo
<1>28. CASE RivalLocks
  BY <1>28 DEF ZombieCrashed, RivalLocks
<1>29. CASE RivalUnlocks
  BY <1>29 DEF ZombieCrashed, RivalUnlocks
<1>30. QED
  BY <1>1, <1>2, <1>3, <1>4, <1>5, <1>6, <1>7, <1>8, <1>9, <1>10, <1>11, <1>12,
     <1>13, <1>14, <1>15, <1>16, <1>17, <1>18, <1>19, <1>20, <1>21, <1>22,
     <1>23, <1>24, <1>25, <1>26, <1>27, <1>28, <1>29
   DEF Next, Command, Advance, Start, Loop, Case, Finish, Others

\* A failure is final only after another one.
LEMMA FinalIsNotFirst ==
  ASSUME NEW f, ~f.p0, NEW h \in Seq(Failures), Decide(f, h) = "TERMINATE"
  PROVE  Len(h) >= 1
<1>1. h # <<>>
  BY DEF Decide, DecideCrash
<1>2. QED
  BY <1>1, EmptySeq

\* What a longer tail satisfies a shorter one does.
LEMMA ShorterTail ==
  ASSUME NEW h \in Seq(Failures), NEW S, NEW k \in Nat, NEW j \in Nat, j <= k,
         EndsWith(h, S, k)
  PROVE  EndsWith(h, S, j)
BY DEF EndsWith

LEMMA LongerTail ==
  ASSUME NEW h \in Seq(Failures), NEW S, NEW k \in Nat, NEW f \in Failures,
         f \in S, EndsWith(h, S, k)
  PROVE  EndsWith(Append(h, f), S, k + 1)
<1>1. Len(Append(h, f)) = Len(h) + 1 /\ Append(h, f)[Len(h) + 1] = f
  OBVIOUS
<1>2. \A i \in 1..Len(h) : Append(h, f)[i] = h[i]
  OBVIOUS
<1>3. ASSUME NEW i \in 1..(k + 1)
      PROVE  Append(h, f)[Len(h) + 1 + 1 - i] \in S
  <2>1. CASE i = 1
    BY <2>1, <1>1
  <2>2. CASE i # 1
    <3>1. i - 1 \in 1..k /\ Len(h) + 1 - (i - 1) \in 1..Len(h)
            /\ Len(h) + 1 + 1 - i = Len(h) + 1 - (i - 1)
      BY <2>2 DEF EndsWith
    <3>2. QED
      BY <3>1, <1>2 DEF EndsWith
  <2>3. QED
    BY <2>1, <2>2
<1>4. Len(h) + 1 >= k + 1
  BY DEF EndsWith
<1>5. QED
  BY <1>1, <1>3, <1>4 DEF EndsWith

\* The strategy restarts for a crash only, and not after too many of them.
LEMMA RestartsForCrashes ==
  ASSUME NEW f \in Failures, ~f.p0, NEW h \in Seq(Failures), NEW k \in Nat,
         EndsWith(h, Crashes, k), Decide(f, h) \in Restarts
  PROVE  f \in Crashes /\ k + 1 < MaxConsecutive
<1>1. f.type = "crash"
  BY DEF Decide, Ladder, Restarts
<1>2. SameType(f) = Crashes
  BY <1>1 DEF SameType, Crashes
<1>3. CASE h = <<>>
  BY <1>1, <1>3, ThresholdAssumption DEF EndsWith, Crashes
<1>4. CASE h # <<>>
  <2>1. ~EndsWith(h, Crashes, MaxConsecutive - 1)
    BY <1>1, <1>2, <1>4 DEF Decide, DecideCrash, Ladder, Restarts
  <2>2. MaxConsecutive - 1 \in Nat
    BY ThresholdAssumption
  <2>3. ~(MaxConsecutive - 1 <= k)
    BY <2>1, <2>2, ShorterTail
  <2>4. QED
    BY <1>1, <2>3, ThresholdAssumption DEF Crashes
<1>5. QED
  BY <1>3, <1>4

\* No verdict loses its reason.
LEMMA EarnedStep ==
  ASSUME Values, Earned, Next
  PROVE  Earned'
<1>1. CASE Run
  BY <1>1
   DEF Earned, GreenIsEarned, SomeFail, SomeRed, Run, BeginAnew, Begin, Refuse
<1>2. CASE RunNoResume
  BY <1>2
   DEF Earned, GreenIsEarned, SomeFail, SomeRed, RunNoResume, ClearProgress,
       BeginAnew, Begin, Refuse
<1>3. CASE Resume
  BY <1>3
   DEF Earned, GreenIsEarned, SomeFail, SomeRed, Resume, Begin, Refuse, Values
<1>4. CASE ResumeWithoutFile
  BY <1>4
   DEF Earned, GreenIsEarned, SomeFail, SomeRed, ResumeWithoutFile, BeginAnew,
       Begin, Refuse
<1>5. CASE Acquire
  BY <1>5 DEF Earned, GreenIsEarned, SomeFail, SomeRed, Acquire
<1>6. CASE SessionBusy
  BY <1>6 DEF Earned, GreenIsEarned, SomeFail, SomeRed, SessionBusy
<1>7. CASE CheckpointPassed
  BY <1>7
   DEF Earned, GreenIsEarned, SomeFail, SomeRed, CheckpointPassed,
       NextCheckpoint
<1>8. CASE CheckpointFailed
  BY <1>8 DEF Earned, GreenIsEarned, SomeFail, SomeRed, CheckpointFailed, LetGo
<1>9. CASE Started
  BY <1>9 DEF Earned, GreenIsEarned, SomeFail, SomeRed, Started
<1>10. CASE StartCase
  BY <1>10
   DEF Earned, GreenIsEarned, SomeFail, SomeRed, StartCase, IsNext, Values
<1>11. CASE SkipCase
  BY <1>11
   DEF Earned, GreenIsEarned, SomeFail, SomeRed, SkipCase, SaveProgress, IsNext,
       Values, Verdicts
<1>12. CASE AllDone
  BY <1>12 DEF Earned, GreenIsEarned, SomeFail, SomeRed, AllDone
<1>13. CASE CaseSaved
  BY <1>13
   DEF Earned, GreenIsEarned, SomeFail, SomeRed, CaseSaved, SaveProgress, Values
<1>14. CASE StopsAsAsked
  BY <1>14
   DEF Earned, GreenIsEarned, SomeFail, SomeRed, StopsAsAsked, SaveProgress,
       Values
<1>15. CASE CaseEnds
  BY <1>15
   DEF Earned, GreenIsEarned, SomeFail, SomeRed, CaseEnds, Ends, Values,
       Verdicts
<1>16. CASE CaseBreaks
  BY <1>16
   DEF Earned, GreenIsEarned, SomeFail, SomeRed, CaseBreaks, Ends, Values,
       Verdicts
<1>17. CASE FailsFatally
  BY <1>17
   DEF Earned, GreenIsEarned, SomeFail, SomeRed, FailsFatally, Ends, Values,
       Verdicts
<1>18. CASE FailsForGood
  BY <1>18, FinalIsNotFirst
   DEF Earned, GreenIsEarned, SomeFail, SomeRed, FailsForGood, Ends, Recorded,
       Values, Verdicts
<1>19. CASE FailsAndRecovers
  BY <1>19
   DEF Earned, GreenIsEarned, SomeFail, SomeRed, FailsAndRecovers, Recorded,
       Values
<1>20. CASE Recovered
  <2>1. PICK v \in {"fail", "deterministic_fail"} : Ends(v)
    BY <1>20 DEF Recovered
  <2>2. cur \in todo /\ todo \subseteq Cases /\ verdict \in [Cases -> Verdicts]
          /\ history \in Seq(Failures)
    BY <1>20 DEF Recovered, Values
  <2>3. verdict[cur] = "none" /\ verdict'[cur] = v
          /\ \A c \in Cases \ {cur} : verdict'[c] = verdict[c]
    BY <1>20, <2>1, <2>2 DEF Earned, Recovered, Ends
  <2>4. v = "deterministic_fail" => Len(history) >= MaxConsecutive
    BY <1>20, <2>2, <2>3, ThresholdAssumption DEF Recovered, EndsWith, Ends
  <2>5. SomeFail'
    <3>1. CASE v = "fail"
      BY <3>1, <2>2, <2>3 DEF SomeFail
    <3>2. CASE v = "deterministic_fail"
      <4>1. Len(history) >= 2
        BY <2>2, <2>4, <3>2, ThresholdAssumption
      <4>2. SomeFail
        BY <1>20, <4>1 DEF Earned, Recovered
      <4>3. QED
        BY <4>2, <2>2, <2>3 DEF SomeFail
    <3>3. QED
      BY <3>1, <3>2
  <2>6. SomeRed'
    BY <2>5 DEF SomeFail, SomeRed
  <2>7. pc' = "save" /\ exit' = exit /\ cur' = cur /\ todo' = todo
    BY <1>20, <2>1 DEF Recovered, Ends
  <2>8. exit' = "none"
    BY <1>20, <2>7 DEF Recovered, Earned
  <2>9. \A c \in todo' \ {cur'} : verdict'[c] = "none"
    BY <1>20, <2>2, <2>3, <2>7 DEF Earned, Recovered
  <2>10. GreenIsEarned'
    BY <2>8 DEF GreenIsEarned
  <2>11. QED
    BY <2>5, <2>6, <2>7, <2>8, <2>9, <2>10 DEF Earned
<1>21. CASE StopSession
  BY <1>21 DEF Earned, GreenIsEarned, SomeFail, SomeRed, StopSession, LetGo
<1>22. CASE FinishSession
  BY <1>22
   DEF Earned, GreenIsEarned, SomeFail, SomeRed, FinishSession, ClearProgress,
       Values, Verdicts
<1>23. CASE ProcessExits
  BY <1>23 DEF Earned, GreenIsEarned, SomeFail, SomeRed, ProcessExits, LetGo
<1>24. CASE Corrupt
  BY <1>24 DEF Earned, GreenIsEarned, SomeFail, SomeRed, Corrupt
<1>25. CASE WatchdogFires
  BY <1>25 DEF Earned, GreenIsEarned, SomeFail, SomeRed, WatchdogFires
<1>26. CASE AskToStop
  BY <1>26 DEF Earned, GreenIsEarned, SomeFail, SomeRed, AskToStop
<1>27. CASE Dies
  BY <1>27 DEF Earned, GreenIsEarned, SomeFail, SomeRed, Dies, LetGo
<1>28. CASE RivalLocks
  BY <1>28 DEF Earned, GreenIsEarned, SomeFail, SomeRed, RivalLocks
<1>29. CASE RivalUnlocks
  BY <1>29 DEF Earned, GreenIsEarned, SomeFail, SomeRed, RivalUnlocks
<1>30. QED
  BY <1>1, <1>2, <1>3, <1>4, <1>5, <1>6, <1>7, <1>8, <1>9, <1>10, <1>11, <1>12,
     <1>13, <1>14, <1>15, <1>16, <1>17, <1>18, <1>19, <1>20, <1>21, <1>22,
     <1>23, <1>24, <1>25, <1>26, <1>27, <1>28, <1>29
   DEF Next, Command, Advance, Start, Loop, Case, Finish, Others

\* No restart without a crash, and not too many.
LEMMA RestartedStep ==
  ASSUME Values, Restarted, Next
  PROVE  Restarted'
<1>1. CASE Run
  BY <1>1, ThresholdAssumption
   DEF Restarted, RestartsAreBounded, Run, BeginAnew, Begin, Refuse
<1>2. CASE RunNoResume
  BY <1>2, ThresholdAssumption
   DEF Restarted, RestartsAreBounded, RunNoResume, ClearProgress, BeginAnew,
       Begin, Refuse
<1>3. CASE Resume
  BY <1>3, ThresholdAssumption
   DEF Restarted, RestartsAreBounded, Resume, Begin, Refuse
<1>4. CASE ResumeWithoutFile
  BY <1>4, ThresholdAssumption
   DEF Restarted, RestartsAreBounded, ResumeWithoutFile, BeginAnew, Begin,
       Refuse
<1>5. CASE Acquire
  BY <1>5 DEF Restarted, RestartsAreBounded, Acquire
<1>6. CASE SessionBusy
  BY <1>6 DEF Restarted, RestartsAreBounded, SessionBusy
<1>7. CASE CheckpointPassed
  BY <1>7 DEF Restarted, RestartsAreBounded, CheckpointPassed, NextCheckpoint
<1>8. CASE CheckpointFailed
  BY <1>8 DEF Restarted, RestartsAreBounded, CheckpointFailed, LetGo
<1>9. CASE Started
  BY <1>9 DEF Restarted, RestartsAreBounded, Started, EndsWith, Values
<1>10. CASE StartCase
  BY <1>10 DEF Restarted, RestartsAreBounded, StartCase, IsNext
<1>11. CASE SkipCase
  BY <1>11 DEF Restarted, RestartsAreBounded, SkipCase, SaveProgress, IsNext
<1>12. CASE AllDone
  BY <1>12 DEF Restarted, RestartsAreBounded, AllDone
<1>13. CASE CaseSaved
  BY <1>13 DEF Restarted, RestartsAreBounded, CaseSaved, SaveProgress
<1>14. CASE StopsAsAsked
  BY <1>14 DEF Restarted, RestartsAreBounded, StopsAsAsked, SaveProgress
<1>15. CASE CaseEnds
  BY <1>15 DEF Restarted, RestartsAreBounded, CaseEnds, Ends
<1>16. CASE CaseBreaks
  BY <1>16 DEF Restarted, RestartsAreBounded, CaseBreaks, Ends
<1>17. CASE FailsFatally
  BY <1>17 DEF Restarted, RestartsAreBounded, FailsFatally, Ends
<1>18. CASE FailsForGood
  <2>1. PICK f \in Failures : ~f.p0 /\ Recorded(f)
    BY <1>18 DEF FailsForGood
  <2>2. EndsWith(history, Crashes, restarts) /\ history \in Seq(Failures)
        /\ restarts \in Nat
    BY <1>18 DEF FailsForGood, Values, Restarted
  <2>3. CASE f \in Crashes
    <3>1. EndsWith(history', Crashes, restarts + 1) /\ restarts' = restarts
      BY <2>1, <2>2, <2>3, LongerTail DEF Recorded, Crashes
    <3>2. history' \in Seq(Failures)
      BY <2>1, <2>2 DEF Recorded
    <3>3. EndsWith(history', Crashes, restarts')
      BY <3>1, <3>2, <2>2, ShorterTail
    <3>4. QED
      BY <1>18, <3>1, <3>3 DEF FailsForGood, Ends, Restarted, RestartsAreBounded
  <2>4. CASE f \notin Crashes
    <3>1. restarts' = 0
      BY <2>1, <2>4 DEF Recorded, Crashes
    <3>2. EndsWith(history', Crashes, 0)
      BY <2>1, <2>2 DEF EndsWith, Recorded
    <3>3. QED
      BY <1>18, <3>1, <3>2, ThresholdAssumption
       DEF FailsForGood, Ends, Restarted, RestartsAreBounded
  <2>5. QED
    BY <2>3, <2>4
<1>19. CASE FailsAndRecovers
  <2>1. PICK f \in Failures : ~f.p0 /\ plan' = Decide(f, history) /\ Recorded(f)
    BY <1>19 DEF FailsAndRecovers
  <2>2. EndsWith(history, Crashes, restarts) /\ history \in Seq(Failures)
        /\ restarts \in Nat
    BY <1>19 DEF FailsAndRecovers, Values, Restarted
  <2>3. CASE f \in Crashes
    <3>1. EndsWith(history', Crashes, restarts + 1) /\ restarts' = restarts
      BY <2>1, <2>2, <2>3, LongerTail DEF Recorded, Crashes
    <3>2. history' \in Seq(Failures)
      BY <2>1, <2>2 DEF Recorded
    <3>3. EndsWith(history', Crashes, restarts')
      BY <3>1, <3>2, <2>2, ShorterTail
    <3>4. plan' \in Restarts => restarts + 1 < MaxConsecutive
      BY <2>1, <2>2, RestartsForCrashes
    <3>5. QED
      BY <1>19, <3>1, <3>3, <3>4
       DEF FailsAndRecovers, Restarted, RestartsAreBounded
  <2>4. CASE f \notin Crashes
    <3>1. restarts' = 0 /\ plan' \notin Restarts
      BY <2>1, <2>2, <2>4, RestartsForCrashes DEF Recorded, Crashes
    <3>2. EndsWith(history', Crashes, 0)
      BY <2>1, <2>2 DEF EndsWith, Recorded
    <3>3. QED
      BY <1>19, <3>1, <3>2, ThresholdAssumption
       DEF FailsAndRecovers, Restarted, RestartsAreBounded
  <2>5. QED
    BY <2>3, <2>4
<1>20. CASE Recovered
  BY <1>20 DEF Restarted, RestartsAreBounded, Recovered, Ends, Outcomes, Values
<1>21. CASE StopSession
  BY <1>21 DEF Restarted, RestartsAreBounded, StopSession, LetGo
<1>22. CASE FinishSession
  BY <1>22 DEF Restarted, RestartsAreBounded, FinishSession, ClearProgress
<1>23. CASE ProcessExits
  BY <1>23 DEF Restarted, RestartsAreBounded, ProcessExits, LetGo
<1>24. CASE Corrupt
  BY <1>24 DEF Restarted, RestartsAreBounded, Corrupt
<1>25. CASE WatchdogFires
  BY <1>25 DEF Restarted, RestartsAreBounded, WatchdogFires
<1>26. CASE AskToStop
  BY <1>26 DEF Restarted, RestartsAreBounded, AskToStop
<1>27. CASE Dies
  BY <1>27 DEF Restarted, RestartsAreBounded, Dies, LetGo
<1>28. CASE RivalLocks
  BY <1>28 DEF Restarted, RestartsAreBounded, RivalLocks
<1>29. CASE RivalUnlocks
  BY <1>29 DEF Restarted, RestartsAreBounded, RivalUnlocks
<1>30. QED
  BY <1>1, <1>2, <1>3, <1>4, <1>5, <1>6, <1>7, <1>8, <1>9, <1>10, <1>11, <1>12,
     <1>13, <1>14, <1>15, <1>16, <1>17, <1>18, <1>19, <1>20, <1>21, <1>22,
     <1>23, <1>24, <1>25, <1>26, <1>27, <1>28, <1>29
   DEF Next, Command, Advance, Start, Loop, Case, Finish, Others

-----------------------------------------------------------------------------
\* The inductive invariant.
SessionInv ==
    /\ Booleans
    /\ Values
    /\ LockMatchesSession
    /\ FileKnows
    /\ Accounted
    /\ ZombieCrashed
    /\ Earned
    /\ Restarted

LEMMA SessionInit == Init => SessionInv
<1> SUFFICES ASSUME Init PROVE SessionInv
  OBVIOUS
<1>1. Booleans
  BY Zenon DEF Init, Booleans
<1>2. Values
  BY Blank DEF Init, Values, Plans
<1>3. LockMatchesSession /\ FileKnows /\ Accounted /\ ZombieCrashed
  BY
   DEF Init, LockMatchesSession, FileKnows, Accounted, NothingForgotten,
       ZombieCrashed
<1>4. Earned
  BY DEF Init, Earned, GreenIsEarned
<1>5. Restarted
  BY ThresholdAssumption DEF Init, Restarted, RestartsAreBounded
<1>6. QED
  BY <1>1, <1>2, <1>3, <1>4, <1>5 DEF SessionInv

LEMMA SessionStutters ==
  ASSUME SessionInv, UNCHANGED vars
  PROVE  SessionInv'
<1>1. Booleans'
  BY Zenon DEF SessionInv, vars, Booleans
<1>2. Values'
  BY DEF SessionInv, vars, Values
<1>3. LockMatchesSession'
  BY DEF SessionInv, vars, LockMatchesSession
<1>4. FileKnows'
  BY DEF SessionInv, vars, FileKnows
<1>5. Accounted'
  BY DEF SessionInv, vars, Accounted, NothingForgotten
<1>6. ZombieCrashed'
  BY DEF SessionInv, vars, ZombieCrashed
<1>7. Earned'
  BY DEF SessionInv, vars, Earned, GreenIsEarned, SomeFail, SomeRed
<1>8. Restarted'
  BY DEF SessionInv, vars, Restarted, RestartsAreBounded
<1>9. QED
  BY <1>1, <1>2, <1>3, <1>4, <1>5, <1>6, <1>7, <1>8 DEF SessionInv

LEMMA SessionStep == SessionInv /\ [Next]_vars => SessionInv'
<1>1. CASE Next
  BY <1>1, BooleansStep, ValuesStep, LockStep, FileStep, AccountedStep,
     ZombieStep, EarnedStep, RestartedStep DEF SessionInv
<1>2. CASE UNCHANGED vars
  BY <1>2, SessionStutters
<1>3. QED
  BY <1>1, <1>2

LEMMA SessionAlways == Spec => []SessionInv
BY SessionInit, SessionStep, PTL DEF Spec

\* Every variable stays in its set: in particular the recovery plans, verdicts
\* and file states are those of the code, and the history is of failures.
THEOREM TypeCorrect == Spec => []TypeOK
<1>1. SessionInv => TypeOK
  <2> SUFFICES ASSUME SessionInv PROVE TypeOK
    OBVIOUS
  <2>1. Booleans /\ Values
    BY DEF SessionInv
  <2>2. QED
    BY <2>1, Zenon DEF Booleans, Values, TypeOK
<1>2. QED
  BY <1>1, SessionAlways, PTL

\* start_session and stop_session take and give back the lock on every path, and
\* nobody else holds it unless _cleanup_resources has unlinked its file.
THEOREM LockFollowsSession == Spec => []LockMatchesSession
<1>1. SessionInv => LockMatchesSession
  BY DEF SessionInv
<1>2. QED
  BY <1>1, SessionAlways, PTL

\* save_progress never runs ahead of run_all, for every list of cases.
THEOREM FileIsBehind == Spec => []FileLagsBehind
<1>1. SessionInv => FileLagsBehind
  BY DEF SessionInv, FileKnows, FileLagsBehind
<1>2. QED
  BY <1>1, SessionAlways, PTL

\* Over any number of commands, deaths and resumptions no case drops out of
\* the file unless it got a verdict or was skipped after a crash.
THEOREM NoCaseForgotten == Spec => []NothingForgotten
<1>1. SessionInv => NothingForgotten
  BY DEF SessionInv, Accounted
<1>2. QED
  BY <1>1, SessionAlways, PTL

\* A green exit code means what it says, for every set of failures.
THEOREM GreenSessionsEarnIt == Spec => []GreenIsEarned
<1>1. SessionInv => GreenIsEarned
  BY DEF SessionInv, Earned
<1>2. QED
  BY <1>1, SessionAlways, PTL

\* The recovery ladder restarts the game less than MaxConsecutive times in a
\* row, for every threshold above one.
THEOREM BoundedRestarts == Spec => []RestartsAreBounded
<1>1. SessionInv => RestartsAreBounded
  BY DEF SessionInv, Restarted
<1>2. QED
  BY <1>1, SessionAlways, PTL

\* stop_session removes the progress file only when nothing is left to resume.
THEOREM ClearsWhenDone == Spec => ClearedWhenDone
<1>1. SessionInv /\ [Next]_vars
        => [(pc = "clear" /\ file # "none" /\ file' = "none")
              => ran \cup givenUp = Cases]_vars
  <2> SUFFICES ASSUME SessionInv, Next, pc = "clear", file # "none", file' = "none"
               PROVE  ran \cup givenUp = Cases
    OBVIOUS
  <2>1. FinishSession /\ ~keep
    BY DEF Next, Command, Advance, Start, Loop, Case, Finish, Others,
           Run, RunNoResume, Resume, ResumeWithoutFile, Acquire, SessionBusy,
           CheckpointPassed, CheckpointFailed, Started, StartCase, SkipCase,
           AllDone, CaseSaved, StopsAsAsked, CaseEnds, CaseBreaks, FailsFatally,
           FailsForGood, FailsAndRecovers, Recovered, StopSession, FinishSession,
           ProcessExits, Corrupt, WatchdogFires, AskToStop, Dies, RivalLocks,
           RivalUnlocks
  <2>2. Cases \subseteq ran \cup givenUp
    BY <2>1 DEF SessionInv, Accounted
  <2>3. QED
    BY <2>2 DEF SessionInv, Values
<1>2. QED
  BY <1>1, SessionAlways, PTL DEF Spec, ClearedWhenDone

\* A session the watchdog has reported starts no case, until a recovery of the
\* case that was running clears the mark.
THEOREM ZombiesStartNothing == Spec => ZombieStartsNothing
<1>1. SessionInv /\ [Next]_vars
        => [(pc = "loop" /\ pc' = "case") => zombie # "yes"]_vars
  <2> SUFFICES ASSUME SessionInv, Next, pc = "loop", pc' = "case"
               PROVE  zombie # "yes"
    OBVIOUS
  <2>1. ~crashed
    BY DEF Next, Command, Advance, Start, Loop, Case, Finish, Others,
           Run, RunNoResume, Resume, ResumeWithoutFile, Acquire, SessionBusy,
           CheckpointPassed, CheckpointFailed, Started, StartCase, SkipCase,
           AllDone, CaseSaved, StopsAsAsked, CaseEnds, CaseBreaks, FailsFatally,
           FailsForGood, FailsAndRecovers, Recovered, StopSession, FinishSession,
           ProcessExits, Corrupt, WatchdogFires, AskToStop, Dies, RivalLocks,
           RivalUnlocks
  <2>2. QED
    BY <2>1 DEF SessionInv, ZombieCrashed
<1>2. QED
  BY <1>1, SessionAlways, PTL DEF Spec, ZombieStartsNothing

=============================================================================
