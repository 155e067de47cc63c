----------------------- MODULE JourneyExecutor_proofs -----------------------
(***************************************************************************)
(* Theorems about JourneyExecutor.  The first part is about the journey:   *)
(* what it may still play after a cancellation, how it can end, which      *)
(* cards the navigator takes and how it fights.  The second part is about  *)
(* execute, the ways out of it and the evidence they leave.                *)
(***************************************************************************)
EXTENDS JourneyExecutor, TLAPS, SequenceTheorems, WellFoundedInduction

Ways == {"passed", "cancelled", "failed", "crashed"}

(* What the request to cancel and the actions sent after it have to do     *)
(* with each other, and how a journey ends.                                *)
JourneyInv ==
    /\ late \in {0, 1}
    /\ late = 1 => cancel
    /\ late = 1 /\ at = "send" => Resetting
    /\ outcome.how \in Ways \union {"none"}

(* All actions but the cancel check keep away from the step "send".        *)
Unsent == at' # "send" /\ (outcome' = outcome \/ outcome'.how \in Ways)

-----------------------------------------------------------------------------
(* The building blocks of the actions.                                     *)
LEMMA FinishUnsent ==
    ASSUME NEW how \in Ways, NEW why, Finish(how, why) PROVE Unsent
BY DEF Finish, Unsent

LEMMA EnterUnsent ==
    ASSUME NEW stages, Enter(stages) PROVE Unsent
BY DEF Enter, FirstStep, Unsent

LEMMA ProceedUnsent ==
    ASSUME NEW f, Proceed(f) PROVE Unsent
BY FinishUnsent, EnterUnsent DEF Proceed, Ways

LEMMA BlockedUnsent ==
    ASSUME NEW why, Blocked(why) PROVE Unsent
BY FinishUnsent, ProceedUnsent DEF Blocked, Ways

LEMMA GotoUnsent ==
    ASSUME NEW s, NEW f, Goto(s, f), s # "send" PROVE Unsent
BY DEF Goto, Unsent

LEMMA AskUnsent ==
    ASSUME NEW name, NEW from, NEW f, Ask(name, from, f) PROVE Unsent
BY GotoUnsent DEF Ask

LEMMA ConfirmUnsent ==
    ASSUME NEW name, NEW f, Confirm(name, f) PROVE Unsent
BY GotoUnsent DEF Confirm

LEMMA NextRoundUnsent ==
    ASSUME NextRound PROVE Unsent
BY GotoUnsent, BlockedUnsent DEF NextRound

LEMMA ForceBackUnsent ==
    ASSUME NEW f, ForceBack(f) PROVE Unsent
BY AskUnsent, BlockedUnsent DEF ForceBack

LEMMA ArriveUnsent ==
    ASSUME NEW f, Arrive(f) PROVE Unsent
BY FinishUnsent, ProceedUnsent DEF Arrive, Ways

LEMMA WaitUnsent ==
    ASSUME NEW n, Wait(n) PROVE Unsent
BY GotoUnsent DEF Wait

LEMMA NothingToDoUnsent ==
    ASSUME NEW f, NEW n, NothingToDo(f, n) PROVE Unsent
BY WaitUnsent, BlockedUnsent DEF NothingToDo

LEMMA ConcludeUnsent ==
    ASSUME NEW f, Conclude(f) PROVE Unsent
BY WaitUnsent, BlockedUnsent, ArriveUnsent DEF Conclude

-----------------------------------------------------------------------------
(* The actions of a journey but CheckCancel and Send.                      *)
Elsewhere ==
    \/ After \/ Raises \/ ReadBefore \/ Confirmed \/ ResetRead \/ ResetForced
    \/ Checkpoint \/ StartThink \/ SelectRead \/ CharacterRead \/ EmbarkThink
    \/ Peek \/ ContinueThink \/ ChapterThink \/ DebugThink \/ FindThink
    \/ NavRead \/ NavAnswered \/ Observe \/ Poll \/ PollOver \/ NavTimeout

LEMMA ElsewhereUnsent ==
    ASSUME Elsewhere PROVE Unsent /\ UNCHANGED <<goal, cancel, late>>
<1>1. CASE After
      BY <1>1, BlockedUnsent, GotoUnsent DEF After
<1>2. CASE Raises
      BY <1>2, FinishUnsent DEF Raises, Ways
<1>3. CASE ReadBefore
      BY <1>3, BlockedUnsent, AskUnsent DEF ReadBefore
<1>4. CASE Confirmed
      BY <1>4, NextRoundUnsent, GotoUnsent, ProceedUnsent DEF Confirmed
<1>5. CASE ResetRead
      BY <1>5, ConfirmUnsent, ProceedUnsent, ForceBackUnsent DEF ResetRead
<1>6. CASE ResetForced
      BY <1>6, NextRoundUnsent, AskUnsent, BlockedUnsent DEF ResetForced
<1>7. CASE Checkpoint
      BY <1>7, FinishUnsent, ProceedUnsent DEF Checkpoint, Ways
<1>8. CASE StartThink
      BY <1>8, ConfirmUnsent, GotoUnsent, BlockedUnsent DEF StartThink
<1>9. CASE SelectRead
      BY <1>9, ProceedUnsent, BlockedUnsent DEF SelectRead
<1>10. CASE CharacterRead
      BY <1>10, ProceedUnsent, ConfirmUnsent DEF CharacterRead
<1>11. CASE EmbarkThink
      BY <1>11, ConfirmUnsent, ProceedUnsent DEF EmbarkThink
<1>12. CASE Peek
      BY <1>12, FinishUnsent, EnterUnsent, ProceedUnsent DEF Peek, Ways
<1>13. CASE ContinueThink
      BY <1>13, ConfirmUnsent, BlockedUnsent DEF ContinueThink
<1>14. CASE ChapterThink
      BY <1>14, BlockedUnsent, ProceedUnsent DEF ChapterThink
<1>15. CASE DebugThink
      BY <1>15, BlockedUnsent, ProceedUnsent DEF DebugThink
<1>16. CASE FindThink
      BY <1>16, BlockedUnsent, ProceedUnsent DEF FindThink
<1>17. CASE NavRead
      BY <1>17, BlockedUnsent, ArriveUnsent, AskUnsent, NothingToDoUnsent DEF NavRead
<1>18. CASE NavAnswered
      BY <1>18, GotoUnsent, AskUnsent, BlockedUnsent DEF NavAnswered
<1>19. CASE Observe
      BY <1>19, ConcludeUnsent, GotoUnsent DEF Observe
<1>20. CASE Poll
      BY <1>20, ConcludeUnsent DEF Poll, Unsent
<1>21. CASE PollOver
      BY <1>21, ConcludeUnsent, BlockedUnsent DEF PollOver
<1>22. CASE NavTimeout
      BY <1>22, BlockedUnsent DEF NavTimeout
<1> QED BY <1>1, <1>2, <1>3, <1>4, <1>5, <1>6, <1>7, <1>8, <1>9, <1>10, <1>11, <1>12,
           <1>13, <1>14, <1>15, <1>16, <1>17, <1>18, <1>19, <1>20, <1>21, <1>22
        DEF Elsewhere

LEMMA TravelParts ==
    Travel => (CheckCancel \/ Send \/ Elsewhere) /\ UNCHANGED exVars
BY DEF Travel, On, Elsewhere

(* A step of the list of a path that does what it should.                  *)
ListStep ==
    \/ Recover \/ Quiet \/ WriteResult \/ WriteTrace \/ SessionEnd \/ Refresh \/ Seal
    \/ FinishCancel

(* Steps of execute that leave the journey alone.                          *)
LEMMA WrapUpLeavesJourney ==
    ASSUME Execute \/ Precheck \/ ListStep \/ EvidenceRaises \/ Finally
    PROVE  UNCHANGED vars
BY DEF Execute, Precheck, ListStep, Recover, Quiet, WriteResult, WriteTrace, SessionEnd,
       Refresh, Seal, FinishCancel, EvidenceRaises, Finally

-----------------------------------------------------------------------------
LEMMA JourneyInit == ExInit => JourneyInv
BY DEF ExInit, Init, JourneyInv, Ways

LEMMA JourneyStep == JourneyInv /\ [ExNext]_allVars => JourneyInv'
<1> SUFFICES ASSUME JourneyInv, [ExNext]_allVars PROVE JourneyInv'
    OBVIOUS
<1> USE DEF JourneyInv
<1>1. CASE UNCHANGED vars
      BY <1>1 DEF vars, Resetting, Now
<1>2. CASE Begin
      <2>1. Unsent /\ UNCHANGED <<cancel, late>>
            BY <1>2, EnterUnsent DEF Begin
      <2> QED BY <2>1 DEF Unsent
<1>3. CASE CheckCancel
      <2>1. CASE cancel /\ ~Resetting
            BY <1>3, <2>1, FinishUnsent DEF CheckCancel, Unsent, Ways
      <2>2. CASE ~(cancel /\ ~Resetting)
            BY <1>3, <2>2 DEF CheckCancel, Goto, Resetting, Now
      <2> QED BY <2>1, <2>2
<1>4. CASE Send
      BY <1>4 DEF Send, Goto
<1>5. CASE Elsewhere
      BY <1>5, ElsewhereUnsent DEF Unsent
<1>6. CASE RequestCancel
      BY <1>6 DEF RequestCancel, Resetting, Now
<1>7. CASE Wrap
      BY <1>7 DEF Wrap, Ways
<1>8. CASE Launch
      BY <1>1, <1>2, <1>8 DEF Launch
<1> QED BY <1>1, <1>3, <1>4, <1>5, <1>6, <1>7, <1>8, TravelParts, WrapUpLeavesJourney
        DEF ExNext, ExStep, ListStep, On, allVars

LEMMA JourneyInvariant == ExSpec => []JourneyInv
BY JourneyInit, JourneyStep, PTL DEF ExSpec

(* After a cancellation at most one more action is played, in any journey, *)
(* over any pages and with any bounds (_raise_if_cancelled).               *)
THEOREM CancelEndsPlay == ExSpec => []CancelStopsPlay
<1>1. JourneyInv => CancelStopsPlay
      BY DEF JourneyInv, CancelStopsPlay
<1> QED BY <1>1, JourneyInvariant, PTL

-----------------------------------------------------------------------------
(* The cursor of the navigator is past the card it took last.              *)
NavFields == {"clock", "cursor", "last", "picks", "won", "pseudo", "since", "stuck", "until"}
PastTheLastCard(n) ==
    /\ DOMAIN n = NavFields
    /\ n.cursor \in Nat /\ n.last \in Int /\ n.last < n.cursor

CursorInv ==
    /\ PastTheLastCard(nav)
    /\ at \in {"observe", "poll"} /\ call.name = "select_deck_card" => nav.cursor > 0

(* Most steps leave the locals of the navigator alone, or start them over. *)
Calm == at' \notin {"observe", "poll"} /\ nav' \in {nav, FreshNav}

LEMMA CalmKeepsCursor == ASSUME CursorInv, Calm PROVE CursorInv'
BY DEF CursorInv, Calm, PastTheLastCard, FreshNav, NavFields

LEMMA FinishCalm == ASSUME NEW how, NEW why, Finish(how, why) PROVE Calm
BY DEF Finish, Calm

LEMMA EnterCalm == ASSUME NEW stages, Enter(stages) PROVE Calm
BY DEF Enter, FirstStep, Calm

LEMMA ProceedCalm == ASSUME NEW f, Proceed(f) PROVE Calm
BY FinishCalm, EnterCalm DEF Proceed

LEMMA BlockedCalm == ASSUME NEW why, Blocked(why) PROVE Calm
BY FinishCalm, ProceedCalm DEF Blocked

LEMMA ArriveCalm == ASSUME NEW f, Arrive(f) PROVE Calm
BY FinishCalm, ProceedCalm DEF Arrive

LEMMA GotoCalm ==
    ASSUME NEW s, NEW f, Goto(s, f), s \notin {"observe", "poll"}, UNCHANGED nav PROVE Calm
BY DEF Goto, Calm

LEMMA AskCalm ==
    ASSUME NEW name, NEW from, NEW f, Ask(name, from, f), UNCHANGED nav PROVE Calm
BY GotoCalm DEF Ask

LEMMA ConfirmCalm == ASSUME NEW name, NEW f, Confirm(name, f), UNCHANGED nav PROVE Calm
BY GotoCalm DEF Confirm

LEMMA NextRoundCalm == ASSUME NextRound PROVE Calm
BY GotoCalm, BlockedCalm DEF NextRound

LEMMA ForceBackCalm ==
    ASSUME NEW f, ForceBack(f), at' # "done" => UNCHANGED nav PROVE Calm
<1>1. CASE \E from : Ask("abandon_run", from, f)
      BY <1>1, AskCalm DEF Ask, Goto
<1>2. CASE Blocked("none")
      BY <1>2, BlockedCalm
<1> QED BY <1>1, <1>2 DEF ForceBack

LEMMA CalmActions ==
    ASSUME \/ CheckCancel \/ Send \/ After \/ Raises \/ ReadBefore \/ Confirmed \/ ResetRead
           \/ ResetForced \/ Checkpoint \/ StartThink \/ SelectRead \/ CharacterRead
           \/ EmbarkThink \/ Peek \/ ContinueThink \/ ChapterThink \/ DebugThink \/ FindThink
           \/ NavTimeout
    PROVE  Calm
<1> USE DEF Stay
<1>1. CASE CheckCancel \/ Send
      BY <1>1, FinishCalm, GotoCalm DEF CheckCancel, Send
<1>2. CASE After
      BY <1>2, BlockedCalm, GotoCalm DEF After
<1>3. CASE Raises
      BY <1>3, FinishCalm DEF Raises
<1>4. CASE ReadBefore
      BY <1>4, BlockedCalm, AskCalm DEF ReadBefore
<1>5. CASE Confirmed
      BY <1>5, NextRoundCalm, GotoCalm, ProceedCalm DEF Confirmed
<1>6. CASE ResetRead
      BY <1>6, ConfirmCalm, ProceedCalm, ForceBackCalm DEF ResetRead
<1>7. CASE ResetForced
      BY <1>7, NextRoundCalm, AskCalm, BlockedCalm DEF ResetForced
<1>8. CASE Checkpoint
      BY <1>8, FinishCalm, ProceedCalm DEF Checkpoint
<1>9. CASE StartThink
      BY <1>9, ConfirmCalm, GotoCalm, BlockedCalm DEF StartThink
<1>10. CASE SelectRead
      BY <1>10, ProceedCalm, BlockedCalm DEF SelectRead
<1>11. CASE CharacterRead
      BY <1>11, ProceedCalm, ConfirmCalm DEF CharacterRead
<1>12. CASE EmbarkThink
      BY <1>12, ConfirmCalm, ProceedCalm DEF EmbarkThink
<1>13. CASE Peek
      BY <1>13, FinishCalm, EnterCalm, ProceedCalm DEF Peek
<1>14. CASE ContinueThink
      BY <1>14, ConfirmCalm, BlockedCalm DEF ContinueThink
<1>15. CASE ChapterThink
      BY <1>15, BlockedCalm, ProceedCalm DEF ChapterThink
<1>16. CASE DebugThink
      BY <1>16, BlockedCalm, ProceedCalm DEF DebugThink
<1>17. CASE FindThink
      BY <1>17, BlockedCalm, ProceedCalm DEF FindThink
<1>18. CASE NavTimeout
      BY <1>18, BlockedCalm DEF NavTimeout
<1> QED BY <1>1, <1>2, <1>3, <1>4, <1>5, <1>6, <1>7, <1>8, <1>9, <1>10, <1>11, <1>12,
           <1>13, <1>14, <1>15, <1>16, <1>17, <1>18

-----------------------------------------------------------------------------
LEMMA WaitKeepsCursor ==
    ASSUME NEW n, PastTheLastCard(n), Wait(n) PROVE CursorInv'
BY DEF Wait, Goto, CursorInv, PastTheLastCard

LEMMA ChangesKeepCursor ==
    ASSUME NEW n, PastTheLastCard(n), NEW x
    PROVE  /\ PastTheLastCard([n EXCEPT !.since = x]) /\ PastTheLastCard([n EXCEPT !.until = x])
           /\ PastTheLastCard([n EXCEPT !.clock = x])
BY DEF PastTheLastCard, NavFields

LEMMA TrackedKeepsCursor ==
    ASSUME CursorInv, NEW f PROVE PastTheLastCard(Tracked(f))
<1> DEFINE n == [nav EXCEPT !.clock = @ + 1,
                            !.pseudo = @ \/ (f.screen = "COMBAT" /\ ~RealCombat(f))]
<1>1. PastTheLastCard(n)
      BY DEF CursorInv, PastTheLastCard, NavFields
<1>2. PastTheLastCard([n EXCEPT !.cursor = 0, !.last = -1, !.picks = 0])
      BY <1>1 DEF PastTheLastCard, NavFields
<1> HIDE DEF n
<1>3. Tracked(f) = IF f.screen = "CARD_REWARD" THEN n
                   ELSE [n EXCEPT !.cursor = 0, !.last = -1, !.picks = 0]
      BY DEF Tracked, n
<1> QED BY <1>1, <1>2, <1>3

LEMMA ConcludeKeepsCursor ==
    ASSUME CursorInv, at \in {"observe", "poll"}, NEW f, Conclude(f) PROVE CursorInv'
<1> DEFINE same == f.screen = "CARD_REWARD" /\ page.screen = "CARD_REWARD"
           stuck == IF same /\ ~FreshPick THEN nav.stuck + 1 ELSE 0
           last == IF same /\ call.name = "select_deck_card" THEN Asked ELSE nav.last
           n == [nav EXCEPT !.stuck = stuck, !.last = last]
<1>1. last \in Int /\ last < nav.cursor
      BY DEF CursorInv, PastTheLastCard, Asked, CardIndex
<1> HIDE DEF stuck, last
<1>2. PastTheLastCard(n)
      BY <1>1 DEF CursorInv, PastTheLastCard, NavFields
<1> HIDE DEF n
<1>3. \/ Blocked("NO_PROGRESS") \/ Arrive(f) \/ Wait([n EXCEPT !.until = 0])
      BY DEF Conclude, n, stuck, last
<1> QED BY <1>2, <1>3, BlockedCalm, ArriveCalm, CalmKeepsCursor, WaitKeepsCursor,
           ChangesKeepCursor

LEMMA NavigatorKeepsCursor ==
    ASSUME CursorInv, NavRead \/ NavAnswered \/ Observe \/ Poll \/ PollOver PROVE CursorInv'
<1>1. CASE NavRead
      <2>1. PICK f \in Seen :
               \/ \E why : Blocked(why)
               \/ Arrive(f)
               \/ at' = "check" /\ nav' = [Tracked(f) EXCEPT !.since = -1]
               \/ NothingToDo(f, Tracked(f))
            BY <1>1 DEF NavRead, Ask, Goto
      <2>2. PastTheLastCard(Tracked(f))
            BY TrackedKeepsCursor
      <2>3. CASE at' = "check" /\ nav' = [Tracked(f) EXCEPT !.since = -1]
            BY <2>2, <2>3, ChangesKeepCursor DEF CursorInv, PastTheLastCard
      <2>4. CASE NothingToDo(f, Tracked(f))
            <3>1. \/ \E why : Blocked(why)
                  \/ Wait(Tracked(f)) \/ Wait([Tracked(f) EXCEPT !.since = nav.clock])
                  BY <2>4 DEF NothingToDo
            <3> QED BY <2>2, <3>1, BlockedCalm, CalmKeepsCursor, WaitKeepsCursor,
                       ChangesKeepCursor
      <2> QED BY <2>1, <2>3, <2>4, BlockedCalm, ArriveCalm, CalmKeepsCursor
<1>2. CASE NavAnswered
      <2> DEFINE picked == IF call.name = "select_deck_card" THEN 1 ELSE 0
      <2>1. CASE call.won
            <3>1. /\ at' = "observe" /\ UNCHANGED call
                  /\ nav' = [nav EXCEPT !.won = TRUE, !.cursor = @ + picked,
                                        !.picks = @ + picked]
                  BY <1>2, <2>1 DEF NavAnswered, Goto
            <3> QED BY <3>1 DEF CursorInv, PastTheLastCard, NavFields
      <2>2. CASE ~call.won
            <3>1. (\E why : Blocked(why)) \/ (\E name : Ask(name, "nav", page) /\ Stay)
                  BY <1>2, <2>2 DEF NavAnswered
            <3> QED BY <3>1, BlockedCalm, AskCalm, CalmKeepsCursor DEF Stay
      <2> QED BY <2>1, <2>2
<1>3. CASE Observe
      <2>1. \/ \E f : Conclude(f)
            \/ UNCHANGED call /\ \E x : nav' = [nav EXCEPT !.until = x]
            BY <1>3 DEF Observe
      <2>2. at = "observe"
            BY <1>3 DEF Observe
      <2> QED BY <2>1, <2>2, ConcludeKeepsCursor, ChangesKeepCursor
              DEF CursorInv, PastTheLastCard, NavFields
<1>4. CASE Poll
      <2>1. \/ \E f : Conclude(f)
            \/ UNCHANGED <<at, call>> /\ nav' = [nav EXCEPT !.clock = @ + 1]
            BY <1>4 DEF Poll
      <2>2. at = "poll"
            BY <1>4 DEF Poll
      <2> QED BY <2>1, <2>2, ConcludeKeepsCursor DEF CursorInv, PastTheLastCard, NavFields
<1>5. CASE PollOver
      <2>1. (\E f : Conclude(f)) \/ Blocked("NO_PROGRESS")
            BY <1>5 DEF PollOver
      <2>2. at = "poll"
            BY <1>5 DEF PollOver
      <2> QED BY <2>1, <2>2, ConcludeKeepsCursor, BlockedCalm, CalmKeepsCursor
<1> QED BY <1>1, <1>2, <1>3, <1>4, <1>5

LEMMA CursorInit == ExInit => CursorInv
BY DEF ExInit, Init, CursorInv, PastTheLastCard, FreshNav, NavFields, NoCall

LEMMA CursorStep == CursorInv /\ [ExNext]_allVars => CursorInv'
<1> SUFFICES ASSUME CursorInv, [ExNext]_allVars PROVE CursorInv'
    OBVIOUS
<1>1. CASE UNCHANGED <<at, call, nav>>
      BY <1>1 DEF CursorInv, PastTheLastCard
<1>2. CASE Launch
      <2>1. CASE Begin
            BY <2>1, EnterCalm, CalmKeepsCursor DEF Begin
      <2>2. CASE UNCHANGED vars
            BY <1>1, <2>2 DEF vars
      <2> QED BY <1>2, <2>1, <2>2 DEF Launch
<1>3. CASE Wrap
      BY <1>1, <1>3 DEF Wrap
<1>4. CASE Travel
      BY <1>4, CalmActions, CalmKeepsCursor, NavigatorKeepsCursor, TravelParts DEF Elsewhere
<1>5. CASE RequestCancel
      BY <1>1, <1>5 DEF RequestCancel
<1>6. CASE UNCHANGED vars
      BY <1>1, <1>6 DEF vars
<1> QED BY <1>2, <1>3, <1>4, <1>5, <1>6, WrapUpLeavesJourney
        DEF ExNext, ExStep, ListStep, On, allVars

(* The navigator never takes the card it took last, which would put it     *)
(* back, on any sequence of pages (progress_until, deck_cursor).           *)
THEOREM NoCardIsPutBack == ExSpec => []NoCardTwice
<1>1. CursorInv => NoCardTwice
      BY DEF CursorInv, PastTheLastCard, NoCardTwice, CardIndex
<1>2. ExSpec => []CursorInv
      BY CursorInit, CursorStep, PTL DEF ExSpec
<1> QED BY <1>1, <1>2, PTL

-----------------------------------------------------------------------------
(* A stage, and the steps of a stage that navigates.                       *)
StageNames == {"nav", "try", "reset", "checkpoint", "start", "select", "character", "embark",
               "peek", "continue", "debug", "give", "find", "play", "chapter"}
Targets == Goals \union {"", "MAP", "COMBAT", "EVENT", "GAME_OVER"}
Stages == [do : StageNames, to : Targets,
           when : {"", "any", "stable", "nextEvent", "nextMap"}]
NavSteps == {"read", "check", "send", "after", "answered", "observe", "poll"}
Acting == {"check", "send", "after", "answered"}

(* What the navigator plays in a fight is what the mode lets it.           *)
Fights(m, name) ==
    /\ m = "death" => name = "end_turn"
    /\ m = "basic" => name \in {"play_card", "end_turn"}

(* The stages left; only resume_run peeks, and only first.                 *)
StagesInv ==
    /\ todo \in Seq(Stages)
    /\ at # "done" => todo # << >>
    /\ \A i \in 2 .. Len(todo) : todo[i].do # "peek"
    /\ at # "done" /\ Now.do = "peek" => Len(todo) > 2

(* A card test has set the mode to basic before any stage but its first,   *)
(* and outside a navigation nothing asks for the fight to be won.          *)
FightInv ==
    /\ StagesInv
    /\ DOMAIN call = {"name", "from", "won"}
    /\ at # "done" /\ InNav =>
          /\ at \in NavSteps
          /\ at \in Acting => call.from = "nav" /\ (page.screen = "COMBAT" => Fights(mode, call.name))
    /\ at # "done" /\ ~InNav => call.name # "win_combat" /\ at \notin {"observe", "poll"}
    /\ at # "done" /\ Now.do = "debug" => at = "think"
    /\ at # "done" /\ goal = "card_test" => mode = "basic" \/ Now.do = "debug"
-----------------------------------------------------------------------------
(* A priority list answers with the action of one of its rules, or none.   *)
Among(rules, names) ==
    \E S : rules \in Seq(S) /\ \A r \in S : DOMAIN r = {"when", "do"} /\ r.do \in names

LEMMA FirstHit ==
    ASSUME NEW S, S \subseteq Nat, S # {} PROVE Min(S) \in S
<1>1. PICK x \in S : \A y \in S : ~ (<<y, x>> \in OpToRel(<, Nat))
      BY NatLessThanWellFounded, WFMin
<1>2. \A y \in S : ~ (y < x)
      BY <1>1 DEF OpToRel
<1>3. ASSUME NEW y \in S PROVE x <= y
      <2>1. x \in Nat /\ y \in Nat
            OBVIOUS
      <2> QED BY <1>2, <2>1
<1> QED BY <1>3 DEF Min

LEMMA FirstOfAmong ==
    ASSUME NEW rules, NEW names, Among(rules, names)
    PROVE  FirstOf(rules) \in names \union {NoAct}
<1> DEFINE hits == {i \in DOMAIN rules : rules[i].when}
<1>1. PICK S : rules \in Seq(S) /\ \A r \in S : r.do \in names
      BY DEF Among
<1>2. DOMAIN rules \subseteq Nat /\ \A i \in DOMAIN rules : rules[i] \in S
      BY <1>1
<1>3. CASE hits = {}
      BY <1>3 DEF FirstOf
<1>4. CASE hits # {}
      <2>1. Min(hits) \in hits
            <3>1. hits \subseteq Nat
                  BY <1>2
            <3> HIDE DEF hits
            <3> QED BY <1>4, <3>1, FirstHit
      <2>2. FirstOf(rules) = rules[Min(hits)].do
            BY <1>4 DEF FirstOf
      <2> QED BY <1>1, <1>2, <2>1, <2>2
<1> QED BY <1>3, <1>4

LEMMA OffersAmong ==
    ASSUME NEW f, NEW N, NEW names \in Seq(N)
    PROVE  Among(Offers(f, names), N)
<1> DEFINE S == {Rule(names[i] \in f.acts, names[i]) : i \in DOMAIN names}
<1>1. \A i \in DOMAIN names : names[i] \in N
      OBVIOUS
<1>2. \A r \in S : DOMAIN r = {"when", "do"} /\ r.do \in N
      BY <1>1 DEF Rule
<1>3. Offers(f, names) \in Seq(S)
      <2>1. \A i \in DOMAIN names : Rule(names[i] \in f.acts, names[i]) \in S
            OBVIOUS
      <2>2. Offers(f, names) \in [1 .. Len(names) -> S] /\ Len(names) \in Nat
            <3> HIDE DEF S
            <3>1. DOMAIN names = 1 .. Len(names) /\ Len(names) \in Nat
                  OBVIOUS
            <3> QED BY <2>1, <3>1 DEF Offers
      <2> HIDE DEF S
      <2> QED BY <2>2, SeqDef
<1> HIDE DEF S
<1> QED BY <1>2, <1>3 DEF Among

LEMMA OnlyOnAmong ==
    ASSUME NEW rules, NEW names, Among(rules, names), NEW holds
    PROVE  Among(OnlyOn(holds, rules), names)
<1>1. PICK S : /\ rules \in Seq(S)
               /\ \A r \in S : DOMAIN r = {"when", "do"} /\ r.do \in names
      BY DEF Among
<1> DEFINE T == {[r EXCEPT !.when = @ /\ holds] : r \in S}
<1>2. \A r \in T : DOMAIN r = {"when", "do"} /\ r.do \in names
      BY <1>1
<1>3. OnlyOn(holds, rules) \in Seq(T)
      <2>1. /\ DOMAIN rules = 1 .. Len(rules) /\ Len(rules) \in Nat
            /\ \A i \in DOMAIN rules : rules[i] \in S
            BY <1>1
      <2>2. \A i \in DOMAIN rules : [rules[i] EXCEPT !.when = @ /\ holds] \in T
            BY <2>1
      <2> HIDE DEF T
      <2>3. OnlyOn(holds, rules) \in [1 .. Len(rules) -> T]
            BY <2>1, <2>2 DEF OnlyOn
      <2> QED BY <2>1, <2>3, SeqDef
<1> HIDE DEF T
<1> QED BY <1>2, <1>3 DEF Among

LEMMA OneRuleAmong ==
    ASSUME NEW when, NEW act, NEW names, act \in names PROVE Among(<< Rule(when, act) >>, names)
<1> DEFINE rule == Rule(when, act)
<1>1. DOMAIN rule = {"when", "do"} /\ rule.do \in names
      BY DEF Rule
<1> HIDE DEF rule
<1>2. << rule >> \in Seq({rule})
      OBVIOUS
<1>3. \A r \in {rule} : DOMAIN r = {"when", "do"} /\ r.do \in names
      BY <1>1
<1> DEFINE rules == << rule >>
<1>4. rules \in Seq({rule})
      BY <1>2
<1> HIDE DEF rules
<1>5. Among(rules, names)
      BY <1>3, <1>4 DEF Among
<1> QED BY <1>5 DEF rule, rules

LEMMA JoinedAmong ==
    ASSUME NEW a, NEW b, NEW names, Among(a, names), Among(b, names)
    PROVE  Among(a \o b, names)
<1>1. PICK S : a \in Seq(S) /\ \A r \in S : DOMAIN r = {"when", "do"} /\ r.do \in names
      BY DEF Among
<1>2. PICK T : b \in Seq(T) /\ \A r \in T : DOMAIN r = {"when", "do"} /\ r.do \in names
      BY DEF Among
<1>3. a \in Seq(S \union T) /\ b \in Seq(S \union T)
      BY <1>1, <1>2
<1>4. a \o b \in Seq(S \union T)
      BY <1>3
<1> QED BY <1>1, <1>2, <1>4 DEF Among

(* What a fight is played with, by the mode (choose_progress_action).      *)
LEMMA NavigatorFights ==
    ASSUME NEW f, f.screen = "COMBAT", NEW wanted, NEW cursor, NEW name,
           name = choose_progress_action(f, wanted, cursor, mode), name # NoAct
    PROVE  Fights(mode, name)
<1>1. name = FirstOf(CombatRules(f, mode))
      BY DEF choose_progress_action
<1>2. ASSUME mode = "death" PROVE name = "end_turn"
      <2>1. name = FirstOf(Offers(f, <<"end_turn">>))
            BY <1>1, <1>2 DEF CombatRules
      <2>2. <<"end_turn">> \in Seq({"end_turn"})
            OBVIOUS
      <2>3. Among(Offers(f, <<"end_turn">>), {"end_turn"})
            BY <2>2, OffersAmong
      <2> QED BY <2>1, <2>3, FirstOfAmong
<1>3. ASSUME mode = "basic" PROVE name \in {"play_card", "end_turn"}
      <2>1. name = FirstOf(BasicCombat(f))
            BY <1>1, <1>3 DEF CombatRules
      <2>2. BasicCombat(f) = << Rule("play_card" \in f.acts /\ "playable" \in f.has, "play_card") >>
                             \o << Rule("end_turn" \in f.acts, "end_turn") >>
            BY DEF BasicCombat
      <2>3. Among(BasicCombat(f), {"play_card", "end_turn"})
            BY <2>2, OneRuleAmong, JoinedAmong
      <2> QED BY <2>1, <2>3, FirstOfAmong
<1> QED BY <1>2, <1>3 DEF Fights

(* Neither the reset nor the start of a run asks for a won fight.          *)
LEMMA ResetDoesNotFight ==
    ASSUME NEW f PROVE ResetAct(f) # "win_combat" /\ FirstOffered(f, StartActs) # "win_combat"
<1> DEFINE names == {"return_to_menu", "return_to_main_menu", "abandon_run", "confirm_modal",
                     "close_main_menu_submenu", "collect_rewards_and_proceed", "resolve_rewards",
                     "proceed", "choose_event", "choose_event_option", "choose_neow_blessing",
                     "start_new_run", "new_run", "open_character_select", NoAct}
<1>1. /\ ReturnToMenu \in Seq(names) /\ RewardProceed \in Seq(names) /\ StartActs \in Seq(names)
      /\ <<"abandon_run", "confirm_modal", "close_main_menu_submenu">> \in Seq(names)
      BY DEF ReturnToMenu, RewardProceed, StartActs
<1>2. EventAdvance \in Seq(names)
      <2>1. EventChoice \in Seq(names) /\ <<"choose_neow_blessing">> \in Seq(names)
            BY DEF EventChoice
      <2> HIDE DEF names
      <2> QED BY <2>1 DEF EventAdvance
<1>3. NoAct \in names /\ "win_combat" \notin names
      BY DEF NoAct
<1> HIDE DEF names
<1>4. FirstOffered(f, EventAdvance) \in names /\ FirstOffered(f, StartActs) \in names
      BY <1>1, <1>2, <1>3, OffersAmong, FirstOfAmong DEF FirstOffered
<1>5. ResetEventAct(f) \in names
      BY <1>3, <1>4 DEF ResetEventAct
<1>6. ResetAct(f) \in names
      <2>1. /\ Among(Offers(f, ReturnToMenu), names)
            /\ Among(Offers(f, <<"abandon_run", "confirm_modal", "close_main_menu_submenu">>), names)
            BY <1>1, OffersAmong
      <2>2. Among(OnlyOn(f.screen = "CARD_REWARD", Offers(f, RewardProceed)), names)
            BY <1>1, OffersAmong, OnlyOnAmong
      <2>3. Among(<< Rule(f.screen = "EVENT", ResetEventAct(f)) >>, names)
            BY <1>5, OneRuleAmong
      <2> QED BY <1>3, <2>1, <2>2, <2>3, JoinedAmong, FirstOfAmong DEF ResetAct
<1> QED BY <1>3, <1>4, <1>6
-----------------------------------------------------------------------------
(* The lists of stages.                                                    *)
LEMMA StageLists ==
    ASSUME NEW g \in Goals, NEW m
    PROVE  /\ StagesOf(g, m) \in Seq(Stages) /\ StagesOf(g, m) # << >>
           /\ \A i \in 2 .. Len(StagesOf(g, m)) : StagesOf(g, m)[i].do # "peek"
           /\ Head(StagesOf(g, m)).do = "peek" => Len(StagesOf(g, m)) > 2
           /\ g = "card_test" => Head(StagesOf(g, m)).do = "debug"
<1> DEFINE Plain == {s \in Stages : s.do # "peek"}
           IsList(s) == s \in Seq(Plain) /\ Len(s) \in Nat \ {0}
<1>1. ASSUME NEW what \in StageNames \ {"peek"} PROVE IsList(Do(what))
      <2> DEFINE stage == Stage(what, "", "")
      <2>1. stage \in Plain
            BY DEF Stage, Stages, Targets
      <2>2. Do(what) = << stage >>
            BY DEF Do
      <2> HIDE DEF Plain, stage
      <2> QED BY <2>1, <2>2
<1>2. ASSUME NEW to \in Targets, NEW when \in {"any", "stable", "nextEvent", "nextMap"}
      PROVE  IsList(Nav(to, when))
      <2>1. Stage("nav", to, when) \in Plain
            BY DEF Stage, Stages, StageNames
      <2> HIDE DEF Plain
      <2> QED BY <2>1 DEF Nav
<1>3. IsList(<< Stage("try", "MAP", "stable") >>)
      <2>1. Stage("try", "MAP", "stable") \in Plain
            BY DEF Stage, Stages, StageNames, Targets
      <2> HIDE DEF Plain
      <2> QED BY <2>1
<1>4. ASSUME NEW a, NEW b, IsList(a), IsList(b) PROVE IsList(a \o b) /\ Head(a \o b) = Head(a)
      <2> HIDE DEF Plain
      <2> QED BY <1>4
<1>5. ASSUME NEW s, IsList(s)
      PROVE  /\ s \in Seq(Stages) /\ s # << >> /\ Head(s).do # "peek"
             /\ \A i \in 2 .. Len(s) : s[i].do # "peek"
      <2>1. \A i \in 1 .. Len(s) : s[i] \in Plain
            BY <1>5
      <2>2. Plain \subseteq Stages
            OBVIOUS
      <2>3. s \in Seq(Stages) /\ s # << >> /\ Head(s) = s[1] /\ 1 \in 1 .. Len(s)
            <3> HIDE DEF Plain
            <3> QED BY <1>5, <2>2
      <2> QED BY <2>1, <2>3
<1>l. /\ IsList(Do("reset")) /\ IsList(Do("checkpoint")) /\ IsList(Do("start")) /\ IsList(Do("select"))
      /\ IsList(Do("character")) /\ IsList(Do("embark")) /\ IsList(Do("continue"))
      /\ IsList(Do("debug")) /\ IsList(Do("give")) /\ IsList(Do("find")) /\ IsList(Do("play"))
      /\ IsList(Do("chapter"))
      <2> HIDE DEF IsList
      <2> QED BY <1>1 DEF StageNames
<1> HIDE DEF IsList, Plain
<1>6. IsList(ToMenu) /\ IsList(Embark)
      BY <1>4, <1>l DEF ToMenu, Embark
<1>7. ASSUME NEW t \in Targets PROVE IsList(start_new_run(t))
      <2>1. IsList(Nav("EVENT", "any")) /\ IsList(Nav(t, "stable"))
            BY <1>2 DEF Targets
      <2> QED BY <1>4, <1>l, <1>6, <2>1 DEF start_new_run
<1>8. /\ IsList(Nav("COMBAT", "any")) /\ IsList(Nav("GAME_OVER", "any")) /\ IsList(Nav("MAP", "stable"))
      /\ IsList(Nav("EVENT", "nextEvent")) /\ IsList(Nav("MAP", "nextMap"))
      BY <1>2 DEF Targets
<1>9. IsList(start_new_run("COMBAT")) /\ IsList(start_new_run("MAP")) /\ IsList(start_new_run(g))
      BY <1>7 DEF Targets
<1>10. IsList(card_test) /\ Head(card_test) = Stage("debug", "", "")
      <2>1. IsList(card_test) /\ Head(card_test) = Head(Do("debug"))
            <3> DEFINE a == Do("debug") \o start_new_run("COMBAT")
                       b == a \o Do("give")
                       c == b \o Do("find")
            <3>1. IsList(a) /\ Head(a) = Head(Do("debug"))
                  BY <1>4, <1>l, <1>9
            <3> HIDE DEF a
            <3>2. IsList(b) /\ Head(b) = Head(Do("debug"))
                  BY <1>4, <1>l, <3>1
            <3> HIDE DEF b
            <3>3. IsList(c) /\ Head(c) = Head(Do("debug"))
                  BY <1>4, <1>l, <3>2
            <3> HIDE DEF c
            <3>4. IsList(c \o Do("play")) /\ Head(c \o Do("play")) = Head(Do("debug"))
                  BY <1>4, <1>l, <3>3
            <3> QED BY <3>4 DEF card_test, a, b, c
      <2>2. Head(Do("debug")) = Stage("debug", "", "")
            <3> DEFINE stage == Stage("debug", "", "")
            <3>1. Do("debug") = << stage >>
                  BY DEF Do
            <3> HIDE DEF stage
            <3>2. Head(<< stage >>) = stage
                  OBVIOUS
            <3> QED BY <3>1, <3>2 DEF stage
      <2> QED BY <2>1, <2>2
<1>11. CASE g = "resume_run"
      <2> DEFINE first == Stage("peek", "", "")
                 attempt == << Stage("try", "MAP", "stable") >>
                 a == attempt \o Do("reset")
                 b == a \o Do("continue")
                 rest == b \o Nav("MAP", "stable")
      <2>1. first \in Stages /\ first.do = "peek"
            BY DEF Stage, Stages, Targets, StageNames
      <2>2. resume_run = (((<< first >> \o attempt) \o Do("reset")) \o Do("continue")) \o Nav("MAP", "stable")
            BY DEF resume_run, Do
      <2> HIDE DEF first
      <2>3. IsList(a) /\ IsList(b)
            BY <1>3, <1>4, <1>l
      <2>4. IsList(rest)
            <3> HIDE DEF b
            <3> QED BY <1>4, <1>8, <2>3
      <2>5. /\ \A s : IsList(s) => s \in Seq(Stages) /\ Len(s) \in Nat \ {0}
            /\ << first >> \in Seq(Stages)
            BY <1>5, <2>1 DEF IsList
      <2>6. /\ attempt \in Seq(Stages) /\ Do("reset") \in Seq(Stages)
            /\ Do("continue") \in Seq(Stages) /\ Nav("MAP", "stable") \in Seq(Stages)
            BY <1>3, <1>l, <1>8, <2>5
      <2>7. resume_run = << first >> \o rest
            <3> HIDE DEF attempt
            <3>1. \A p, q, r \in Seq(Stages) : (p \o q) \o r = p \o (q \o r) /\ q \o r \in Seq(Stages)
                  BY ConcatAssociative, ConcatProperties
            <3>2. << first >> \o attempt \in Seq(Stages) /\ a \in Seq(Stages) /\ b \in Seq(Stages)
                  BY <2>3, <2>5, <2>6, <3>1
            <3>3. (<< first >> \o attempt) \o Do("reset") = << first >> \o a
                  BY <2>5, <2>6, <3>1
            <3>4. (<< first >> \o a) \o Do("continue") = << first >> \o b
                  BY <2>5, <2>6, <3>1, <3>2
            <3>5. (<< first >> \o b) \o Nav("MAP", "stable") = << first >> \o rest
                  BY <2>5, <2>6, <3>1, <3>2
            <3> QED BY <2>2, <3>3, <3>4, <3>5
      <2>8. Len(b) \in Nat \ {0} /\ Len(Nav("MAP", "stable")) \in Nat \ {0} /\ b \in Seq(Stages)
            BY <1>8, <2>3, <2>5
      <2>9. Len(rest) >= 2
            <3> HIDE DEF b
            <3>1. Len(rest) = Len(b) + Len(Nav("MAP", "stable"))
                  BY <2>6, <2>8, ConcatProperties
            <3> QED BY <2>8, <3>1
      <2>10. rest \in Seq(Stages) /\ Len(rest) \in Nat /\ \A i \in 1 .. Len(rest) : rest[i].do # "peek"
            <3> HIDE DEF rest
            <3>1. rest \in Seq(Stages) /\ Head(rest).do # "peek" /\ \A i \in 2 .. Len(rest) : rest[i].do # "peek"
                  BY <1>5, <2>4
            <3>2. Head(rest) = rest[1] /\ Len(rest) \in Nat
                  BY <2>9, <3>1
            <3> QED BY <3>1, <3>2
      <2> HIDE DEF rest
      <2>11. /\ resume_run \in Seq(Stages) /\ Len(resume_run) = 1 + Len(rest)
             /\ \A i \in 2 .. Len(resume_run) : resume_run[i] = rest[i - 1] /\ i - 1 \in 1 .. Len(rest)
            BY <2>5, <2>7, <2>10
      <2>12. StagesOf(g, m) = resume_run /\ g # "card_test"
            BY <1>11 DEF StagesOf
      <2> QED BY <2>9, <2>10, <2>11, <2>12
<1>12. CASE g # "resume_run"
      <2>1. IsList(death_test) /\ IsList(next_act)
            BY <1>4, <1>l, <1>8, <1>9 DEF death_test, next_act
      <2>2. IsList(StagesOf(g, m))
            BY <1>4, <1>8, <1>9, <1>10, <1>12, <2>1 DEF StagesOf
      <2>3. g = "card_test" => StagesOf(g, m) = card_test
            BY DEF StagesOf
      <2>4. Stage("debug", "", "").do = "debug"
            BY DEF Stage
      <2> QED BY <1>5, <1>10, <2>2, <2>3, <2>4
<1> QED BY <1>11, <1>12

-----------------------------------------------------------------------------
(* What ends a stage: the end of the journey, or the next stage.           *)
Over == at' = "done" /\ todo' = << >> /\ call' = NoCall
Onwards ==
    /\ Len(todo) # 1 /\ todo' = Tail(todo) /\ at' = FirstStep(Head(Tail(todo))) /\ call' = NoCall

LEMMA FinishIsOver == ASSUME NEW how, NEW why, Finish(how, why) PROVE Over
BY DEF Finish, Over

LEMMA ProceedEnds == ASSUME NEW f, Proceed(f) PROVE Over \/ Onwards
BY FinishIsOver DEF Proceed, Enter, Onwards

LEMMA BlockedEnds == ASSUME NEW why, Blocked(why) PROVE Over \/ Onwards
BY FinishIsOver, ProceedEnds DEF Blocked

LEMMA ArriveEnds == ASSUME NEW f, Arrive(f) PROVE Over \/ Onwards
BY FinishIsOver, ProceedEnds DEF Arrive

(* A stage is entered with nothing asked for yet.                          *)
LEMMA FirstSteps ==
    ASSUME NEW s PROVE
        /\ FirstStep(s) \notin {"done", "observe", "poll"}
        /\ s.do \in {"nav", "try"} => FirstStep(s) = "read"
        /\ s.do = "debug" => FirstStep(s) = "think"
BY DEF FirstStep

LEMMA NothingAsked == DOMAIN NoCall = {"name", "from", "won"} /\ NoCall.name # "win_combat"
BY DEF NoCall, NoAct

LEMMA EnteredFights ==
    ASSUME todo' \in Seq(Stages), todo' # << >>, at' = FirstStep(Head(todo')), call' = NoCall,
           \A i \in 2 .. Len(todo') : todo'[i].do # "peek",
           Head(todo').do = "peek" => Len(todo') > 2,
           goal' = "card_test" => mode' = "basic" \/ Head(todo').do = "debug"
    PROVE  FightInv'
<1>1. /\ at' \notin {"done", "observe", "poll"}
      /\ Head(todo').do \in {"nav", "try"} => at' = "read"
      /\ Head(todo').do = "debug" => at' = "think"
      BY FirstSteps
<1>2. StagesInv'
      BY DEF StagesInv, Now
<1> QED BY <1>1, <1>2, NothingAsked DEF FightInv, InNav, Now, NavSteps, Acting

LEMMA OverFights == ASSUME Over PROVE FightInv'
<1>1. StagesInv'
      BY DEF Over, StagesInv
<1> QED BY <1>1, NothingAsked DEF Over, FightInv

LEMMA StageEndFights ==
    ASSUME FightInv, at # "done", Over \/ Onwards, goal' = goal,
           goal = "card_test" => mode' = "basic"
    PROVE  FightInv'
<1>1. CASE Over
      BY <1>1, OverFights
<1>2. CASE Onwards
      <2>1. todo \in Seq(Stages) /\ todo # << >> /\ \A i \in 2 .. Len(todo) : todo[i].do # "peek"
            BY DEF FightInv, StagesInv
      <2>2. /\ todo' \in Seq(Stages) /\ todo' # << >> /\ Len(todo') = Len(todo) - 1 /\ Len(todo) \in Nat
            /\ \A i \in 1 .. Len(todo') : todo'[i] = todo[i + 1]
            <3>1. Len(todo) \in Nat /\ Len(todo) > 1
                  <4>1. Len(todo) # 1
                        BY <1>2 DEF Onwards
                  <4>2. Len(todo) \in Nat /\ Len(todo) # 0
                        BY <2>1, EmptySeq
                  <4> QED BY <4>1, <4>2
            <3>2. /\ Tail(todo) \in Seq(Stages) /\ Len(Tail(todo)) = Len(todo) - 1
                  /\ \A i \in 1 .. Len(todo) - 1 : Tail(todo)[i] = todo[i + 1]
                  BY <2>1, <3>1
            <3>3. todo' = Tail(todo)
                  BY <1>2 DEF Onwards
            <3>4. Tail(todo) # << >>
                  BY <3>1, <3>2, EmptySeq
            <3> QED BY <3>1, <3>2, <3>3, <3>4
      <2>3. \A i \in 1 .. Len(todo') : todo'[i].do # "peek"
            BY <2>1, <2>2
      <2>4. Head(todo') = todo'[1] /\ 1 \in 1 .. Len(todo')
            BY <2>2
      <2> QED BY <1>2, <2>2, <2>3, <2>4, EnteredFights DEF Onwards
<1> QED BY <1>1, <1>2

(* A stage that does not navigate goes on.                                 *)
LEMMA WithinFights ==
    ASSUME FightInv, at # "done", UNCHANGED <<goal, mode, todo>>, ~InNav, Now.do # "debug",
           at' \notin {"done", "observe", "poll"}, DOMAIN call' = {"name", "from", "won"},
           call'.name # "win_combat"
    PROVE  FightInv'
<1>1. StagesInv'
      BY DEF FightInv, StagesInv, Now
<1> QED BY <1>1 DEF FightInv, InNav, Now

LEMMA AskFights ==
    ASSUME FightInv, at # "done", UNCHANGED <<goal, mode>>, ~InNav, Now.do # "debug",
           NEW name, NEW from, NEW f, Ask(name, from, f) \/ Confirm(name, f), name # "win_combat"
    PROVE  FightInv'
<1>1. /\ todo' = todo /\ at' \in {"check", "before"}
      /\ DOMAIN call' = {"name", "from", "won"} /\ call'.name = name
      BY DEF Ask, Confirm, Goto
<1> QED BY <1>1, WithinFights

(* A navigation goes on, towards a read or with what it looks for.         *)
LEMMA NavGoesOn ==
    ASSUME FightInv, at # "done", UNCHANGED <<goal, mode, todo>>, InNav,
           at' \in NavSteps, DOMAIN call' = {"name", "from", "won"},
           at' \in Acting => call'.from = "nav" /\ (page'.screen = "COMBAT" => Fights(mode, call'.name))
    PROVE  FightInv'
<1>1. Now.do # "debug"
      BY DEF InNav
<1>2. StagesInv'
      BY DEF FightInv, StagesInv, Now, NavSteps
<1>3. at' # "done"
      BY DEF NavSteps
<1> QED BY <1>1, <1>2, <1>3 DEF FightInv, InNav, Now

(* The parts of the navigator.                                             *)
LEMMA WaitGoesOn ==
    ASSUME FightInv, at # "done", UNCHANGED <<goal, mode>>, InNav, NEW n, Wait(n) PROVE FightInv'
<1>1. todo' = todo /\ at' = "read" /\ call' = NoCall
      BY DEF Wait, Goto
<1> QED BY <1>1, NothingAsked, NavGoesOn DEF NavSteps, Acting

(* In a navigation that is under way a card test has left its first stage. *)
LEMMA NavIsBasic ==
    ASSUME FightInv, at # "done", InNav
    PROVE  Now.do # "debug" /\ (goal = "card_test" => mode = "basic")
BY DEF FightInv, InNav

LEMMA ConcludeGoesOn ==
    ASSUME FightInv, at # "done", UNCHANGED <<goal, mode>>, InNav, NEW f, Conclude(f)
    PROVE  FightInv'
<1>1. (\E why : Blocked(why)) \/ Arrive(f) \/ (\E n : Wait(n))
      BY DEF Conclude
<1> QED BY <1>1, WaitGoesOn, BlockedEnds, ArriveEnds, NavIsBasic, StageEndFights

LEMMA NothingToDoGoesOn ==
    ASSUME FightInv, at # "done", UNCHANGED <<goal, mode>>, InNav, NEW f, NEW n, NothingToDo(f, n)
    PROVE  FightInv'
<1>1. (\E why : Blocked(why)) \/ (\E m : Wait(m))
      BY DEF NothingToDo
<1> QED BY <1>1, WaitGoesOn, BlockedEnds, NavIsBasic, StageEndFights

LEMMA NavReadFights == ASSUME FightInv, NavRead PROVE FightInv'
<1>1. at = "read" /\ InNav /\ UNCHANGED <<goal, mode>>
      BY DEF NavRead
<1>2. PICK f \in Seen :
          LET n == Tracked(f)
              name == choose_progress_action(f, Now.to, n.cursor, mode)
          IN  \/ \E why : Blocked(why)
              \/ Arrive(f)
              \/ name # NoAct /\ Ask(name, "nav", f)
              \/ NothingToDo(f, n)
      BY DEF NavRead
<1> DEFINE name == choose_progress_action(f, Now.to, Tracked(f).cursor, mode)
<1>3. CASE name # NoAct /\ Ask(name, "nav", f)
      <2>1. /\ todo' = todo /\ at' = "check" /\ page' = f
            /\ call' = [name |-> name, from |-> "nav", won |-> FALSE]
            BY <1>3 DEF Ask, Goto
      <2>2. f.screen = "COMBAT" => Fights(mode, name)
            BY <1>3, NavigatorFights
      <2> HIDE DEF name
      <2> QED BY <1>1, <2>1, <2>2, NavGoesOn DEF NavSteps
<1>4. CASE NothingToDo(f, Tracked(f))
      BY <1>1, <1>4, NothingToDoGoesOn
<1>5. CASE (\E why : Blocked(why)) \/ Arrive(f)
      BY <1>1, <1>5, BlockedEnds, ArriveEnds, NavIsBasic, StageEndFights
<1> QED BY <1>2, <1>3, <1>4, <1>5

LEMMA NavAnsweredFights == ASSUME FightInv, NavAnswered PROVE FightInv'
<1>1. at = "answered" /\ InNav /\ UNCHANGED <<goal, mode>>
      BY DEF NavAnswered
<1>2. DOMAIN call = {"name", "from", "won"} /\ (page.screen = "COMBAT" => Fights(mode, call.name))
      BY <1>1 DEF FightInv, Acting
<1>3. \/ Goto("observe", page) /\ UNCHANGED call
      \/ call.name \in DOMAIN Fallback /\ Ask(Fallback[call.name], "nav", page)
      \/ Blocked("ACTION_FAILED")
      BY DEF NavAnswered
<1>4. CASE Goto("observe", page) /\ UNCHANGED call
      BY <1>1, <1>2, <1>4, NavGoesOn DEF Goto, NavSteps, Acting
<1>5. CASE call.name \in DOMAIN Fallback /\ Ask(Fallback[call.name], "nav", page)
      <2>1. /\ todo' = todo /\ at' = "check" /\ page' = page
            /\ DOMAIN call' = {"name", "from", "won"} /\ call'.from = "nav"
            BY <1>5 DEF Ask, Goto
      <2>2. page.screen = "COMBAT" => mode \notin {"death", "basic"}
            BY <1>2, <1>5 DEF Fights, Fallback
      <2> QED BY <1>1, <2>1, <2>2, NavGoesOn DEF NavSteps, Fights
<1>6. CASE Blocked("ACTION_FAILED")
      BY <1>1, <1>6, BlockedEnds, NavIsBasic, StageEndFights
<1> QED BY <1>3, <1>4, <1>5, <1>6

LEMMA LookingFights == ASSUME FightInv, Observe \/ Poll \/ PollOver \/ NavTimeout PROVE FightInv'
<1>1. at \in {"observe", "poll", "read"} /\ UNCHANGED <<goal, mode>>
      BY DEF Observe, Poll, PollOver, NavTimeout
<1>2. InNav /\ at # "done"
      <2>1. CASE NavTimeout
            BY <1>1, <2>1 DEF NavTimeout
      <2>2. CASE at \in {"observe", "poll"}
            BY <2>2 DEF FightInv
      <2> QED BY <2>1, <2>2 DEF Observe, Poll, PollOver
<1>3. DOMAIN call = {"name", "from", "won"}
      BY DEF FightInv
<1>4. \/ \E f : Conclude(f)
      \/ \E why : Blocked(why)
      \/ todo' = todo /\ at' = "poll" /\ UNCHANGED call
      BY DEF Observe, Poll, PollOver, NavTimeout, Goto
<1>5. CASE \E f : Conclude(f)
      BY <1>1, <1>2, <1>5, ConcludeGoesOn
<1>6. CASE \E why : Blocked(why)
      BY <1>1, <1>2, <1>6, BlockedEnds, NavIsBasic, StageEndFights
<1>7. CASE todo' = todo /\ at' = "poll" /\ UNCHANGED call
      BY <1>1, <1>2, <1>3, <1>7, NavGoesOn DEF NavSteps, Acting
<1> QED BY <1>4, <1>5, <1>6, <1>7

(* The steps that every stage shares.                                      *)
LEMMA SharedFights == ASSUME FightInv, CheckCancel \/ Send \/ After \/ Raises PROVE FightInv'
<1>c. DOMAIN call = {"name", "from", "won"}
      BY DEF FightInv
<1>1. CASE Raises
      BY <1>1, FinishIsOver, OverFights DEF Raises
<1>2. CASE After /\ \E why : Blocked(why)
      <2>1. at = "after" /\ UNCHANGED <<goal, mode>>
            BY <1>2 DEF After
      <2>2. goal = "card_test" => mode = "basic"
            BY <2>1 DEF FightInv
      <2> QED BY <1>2, <2>1, <2>2, BlockedEnds, StageEndFights
<1>3. CASE CheckCancel /\ \E how, why : Finish(how, why)
      BY <1>3, FinishIsOver, OverFights
<1>4. CASE \/ /\ CheckCancel /\ at = "check" /\ at' = "send" /\ call' = call /\ page' = page
              /\ UNCHANGED <<goal, mode, todo>>
           \/ /\ Send /\ at = "send" /\ at' = "after" /\ page' = page
              /\ \E won \in BOOLEAN : call' = [call EXCEPT !.won = won]
              /\ UNCHANGED <<goal, mode, todo>>
           \/ /\ After /\ at = "after" /\ at' = "answered" /\ call' = call /\ page' = page
              /\ UNCHANGED <<goal, mode, todo>>
      <2>1. /\ at \in Acting /\ at' \in Acting /\ at \notin {"done", "think"} /\ page' = page
            /\ UNCHANGED <<goal, mode, todo>>
            BY <1>4 DEF Acting
      <2>2. DOMAIN call' = {"name", "from", "won"} /\ call'.name = call.name /\ call'.from = call.from
            BY <1>4, <1>c
      <2>3. Now.do # "debug"
            BY <2>1 DEF FightInv
      <2>4. CASE InNav
            <3>1. call.from = "nav" /\ (page.screen = "COMBAT" => Fights(mode, call.name))
                  BY <2>1, <2>4 DEF FightInv
            <3> QED BY <2>1, <2>2, <2>4, <3>1, NavGoesOn DEF NavSteps, Acting
      <2>5. CASE ~InNav
            <3>1. call.name # "win_combat"
                  BY <2>1, <2>5 DEF FightInv
            <3> QED BY <2>1, <2>2, <2>3, <2>5, <3>1, WithinFights DEF Acting
      <2> QED BY <2>4, <2>5
<1>5. CASE /\ After /\ at = "after" /\ call.from = "confirm" /\ at' = "confirmed" /\ call' = call
           /\ UNCHANGED <<goal, mode, todo>>
      <2>1. ~InNav /\ Now.do # "debug" /\ call.name # "win_combat"
            BY <1>5 DEF FightInv, Acting
      <2> QED BY <1>5, <1>c, <2>1, WithinFights
<1>6. CheckCancel => (\E how, why : Finish(how, why)) \/
                     /\ at = "check" /\ at' = "send" /\ call' = call /\ page' = page
                     /\ UNCHANGED <<goal, mode, todo>>
      BY DEF CheckCancel, Goto
<1>7. Send => /\ at = "send" /\ at' = "after" /\ page' = page
              /\ \E won \in BOOLEAN : call' = [call EXCEPT !.won = won]
              /\ UNCHANGED <<goal, mode, todo>>
      BY DEF Send, Goto
<1>8. After => \/ \E why : Blocked(why)
               \/ /\ at = "after" /\ at' = "answered" /\ call' = call /\ page' = page
                  /\ UNCHANGED <<goal, mode, todo>>
               \/ /\ at = "after" /\ call.from = "confirm" /\ at' = "confirmed" /\ call' = call
                  /\ UNCHANGED <<goal, mode, todo>>
      BY DEF After, Goto
<1> QED BY <1>1, <1>2, <1>3, <1>4, <1>5, <1>6, <1>7, <1>8

(* The stages that put the menu in order, start a run and play a card.     *)
StageActions ==
    \/ ReadBefore \/ Confirmed \/ ResetRead \/ ResetForced \/ Checkpoint \/ StartThink
    \/ SelectRead \/ CharacterRead \/ EmbarkThink \/ Peek \/ ContinueThink \/ ChapterThink
    \/ FindThink

StageStep ==
    \/ Over \/ Onwards
    \/ \E name, from, f : name # "win_combat" /\ (Ask(name, from, f) \/ Confirm(name, f))
    \/ /\ todo' = todo /\ at' \in {"read", "reread", "think"}
       /\ call' = NoCall \/ call' = call

LEMMA NextRoundSteps == ASSUME NextRound PROVE StageStep
BY BlockedEnds DEF NextRound, Goto, StageStep

LEMMA ForceBackSteps == ASSUME NEW f, ForceBack(f) PROVE StageStep
BY BlockedEnds DEF ForceBack, StageStep

LEMMA StageActionsStep ==
    ASSUME FightInv, StageActions, ~Peek PROVE StageStep /\ UNCHANGED <<goal, mode>>
<1>1. CASE ReadBefore
      <2>1. at = "before"
            BY <1>1 DEF ReadBefore
      <2>2. NameOf # "win_combat"
            BY <2>1 DEF NameOf, FightInv, NavSteps
      <2> QED BY <1>1, <2>2, BlockedEnds DEF ReadBefore, StageStep
<1>2. CASE Confirmed
      BY <1>2, NextRoundSteps, ProceedEnds DEF Confirmed, Goto, StageStep
<1>3. CASE ResetRead
      <2>1. PICK f : \/ Confirm("abandon_run", f)
                     \/ Proceed(f)
                     \/ Confirm(ResetAct(f), f)
                     \/ ForceBack(f)
            BY <1>3 DEF ResetRead
      <2>2. ForceBack(f) => StageStep
            BY ForceBackSteps
      <2> QED BY <1>3, <2>1, <2>2, ProceedEnds, ResetDoesNotFight DEF ResetRead, StageStep
<1>4. CASE ResetForced
      BY <1>4, NextRoundSteps, BlockedEnds DEF ResetForced, StageStep
<1>5. CASE Checkpoint
      BY <1>5, FinishIsOver, ProceedEnds DEF Checkpoint, StageStep
<1>6. CASE StartThink
      BY <1>6, BlockedEnds, ResetDoesNotFight DEF StartThink, Goto, StageStep
<1>7. CASE SelectRead
      BY <1>7, ProceedEnds, BlockedEnds DEF SelectRead, StageStep
<1>8. CASE CharacterRead
      BY <1>8, ProceedEnds DEF CharacterRead, StageStep
<1>9. CASE EmbarkThink
      BY <1>9, ProceedEnds DEF EmbarkThink, StageStep
<1>10. CASE ContinueThink
      BY <1>10, BlockedEnds DEF ContinueThink, StageStep
<1>11. CASE ChapterThink \/ FindThink
      BY <1>11, BlockedEnds, ProceedEnds DEF ChapterThink, FindThink, StageStep
<1> QED BY <1>1, <1>2, <1>3, <1>4, <1>5, <1>6, <1>7, <1>8, <1>9, <1>10, <1>11 DEF StageActions

LEMMA StageActionsPlace ==
    ASSUME FightInv, StageActions PROVE at # "done" /\ ~InNav /\ Now.do # "debug"
<1>1. CASE at \in {"before", "confirmed"}
      BY <1>1 DEF FightInv, NavSteps
<1>2. CASE /\ at # "done"
           /\ Now.do \in {"reset", "checkpoint", "start", "select", "character", "embark", "peek",
                          "continue", "chapter", "find"}
      BY <1>2 DEF InNav
<1> QED BY <1>1, <1>2 DEF StageActions, ReadBefore, Confirmed, ResetRead, ResetForced, Checkpoint,
           StartThink, SelectRead, CharacterRead, EmbarkThink, Peek, ContinueThink, ChapterThink,
           FindThink

LEMMA StageActionsFight == ASSUME FightInv, StageActions, ~Peek PROVE FightInv'
<1>1. StageStep /\ UNCHANGED <<goal, mode>> /\ at # "done" /\ ~InNav /\ Now.do # "debug"
      BY StageActionsStep, StageActionsPlace
<1>2. goal = "card_test" => mode = "basic"
      BY <1>1 DEF FightInv
<1>3. CASE Over \/ Onwards
      BY <1>1, <1>2, <1>3, StageEndFights
<1>4. CASE \E name, from, f : name # "win_combat" /\ (Ask(name, from, f) \/ Confirm(name, f))
      BY <1>1, <1>4, AskFights
<1>5. CASE /\ todo' = todo /\ at' \in {"read", "reread", "think"}
           /\ call' = NoCall \/ call' = call
      <2>1. DOMAIN call' = {"name", "from", "won"} /\ call'.name # "win_combat"
            BY <1>1, <1>5, NothingAsked DEF FightInv
      <2> QED BY <1>1, <1>5, <2>1, WithinFights
<1> QED BY <1>1, <1>3, <1>4, <1>5 DEF StageStep

LEMMA PeekFights == ASSUME FightInv, Peek PROVE FightInv'
<1>1. at # "done" /\ Now.do = "peek" /\ UNCHANGED <<goal, mode>>
      BY DEF Peek
<1>2. goal = "card_test" => mode = "basic"
      BY <1>1 DEF FightInv
<1>3. \/ \E how, why : Finish(how, why)
      \/ Enter(Tail(Tail(todo)))
      \/ \E f : Proceed(f)
      BY DEF Peek
<1>4. CASE Enter(Tail(Tail(todo)))
      <2>1. /\ todo \in Seq(Stages) /\ Len(todo) > 2 /\ Len(todo) \in Nat
            /\ \A i \in 2 .. Len(todo) : todo[i].do # "peek"
            BY <1>1 DEF FightInv, StagesInv
      <2>2. /\ Tail(todo) \in Seq(Stages) /\ Len(Tail(todo)) = Len(todo) - 1
            /\ \A i \in 1 .. Len(todo) - 1 : Tail(todo)[i] = todo[i + 1]
            BY <2>1
      <2> DEFINE rest == Tail(Tail(todo))
      <2>3. /\ rest \in Seq(Stages) /\ Len(rest) = Len(todo) - 2
            /\ \A i \in 1 .. Len(rest) : rest[i] = todo[i + 2]
            <3> DEFINE t == Tail(todo)
            <3>1. t \in Seq(Stages) /\ Len(t) = Len(todo) - 1 /\ Len(t) > 1
                  BY <2>1, <2>2
            <3>2. \A i \in 1 .. Len(todo) - 1 : t[i] = todo[i + 1]
                  BY <2>2
            <3> HIDE DEF t
            <3>3. /\ Tail(t) \in Seq(Stages) /\ Len(Tail(t)) = Len(t) - 1
                  /\ \A i \in 1 .. Len(t) - 1 : Tail(t)[i] = t[i + 1]
                  BY <3>1
            <3>4. \A i \in 1 .. Len(todo) - 2 : t[i + 1] = todo[i + 2]
                  <4> TAKE i \in 1 .. Len(todo) - 2
                  <4>1. i + 1 \in 1 .. Len(todo) - 1 /\ (i + 1) + 1 = i + 2
                        BY <2>1
                  <4> QED BY <3>2, <4>1
            <3>5. Len(Tail(t)) = Len(todo) - 2 /\ Len(t) - 1 = Len(todo) - 2
                  BY <2>1, <3>1, <3>3
            <3>6. rest = Tail(t)
                  BY DEF t
            <3> HIDE DEF rest
            <3> QED BY <3>3, <3>4, <3>5, <3>6
      <2>4. todo' = rest /\ at' = FirstStep(Head(rest)) /\ call' = NoCall
            BY <1>4 DEF Enter
      <2> HIDE DEF rest
      <2>5. rest # << >> /\ Head(rest) = rest[1] /\ \A i \in 1 .. Len(rest) : rest[i].do # "peek"
            <3>1. Len(rest) \in Nat /\ Len(rest) >= 1
                  BY <2>1, <2>3
            <3>2. \A i \in 1 .. Len(rest) : rest[i].do # "peek"
                  <4> TAKE i \in 1 .. Len(rest)
                  <4>1. i + 2 \in 2 .. Len(todo)
                        BY <2>1, <2>3, <3>1
                  <4> QED BY <2>1, <2>3, <4>1
            <3> QED BY <2>3, <3>1, <3>2, EmptySeq
      <2>6. 1 \in 1 .. Len(rest) /\ \A i \in 2 .. Len(rest) : i \in 1 .. Len(rest)
            BY <2>1, <2>3
      <2> QED BY <1>1, <1>2, <2>3, <2>4, <2>5, <2>6, EnteredFights
<1>5. CASE (\E how, why : Finish(how, why)) \/ (\E f : Proceed(f))
      BY <1>1, <1>2, <1>5, FinishIsOver, ProceedEnds, StageEndFights
<1> QED BY <1>3, <1>4, <1>5

LEMMA DebugFights == ASSUME FightInv, DebugThink PROVE FightInv'
<1>1. at # "done" /\ goal' = goal /\ Now.do = "debug"
      BY DEF DebugThink
<1>2. CASE mode' = "basic" /\ Proceed(page)
      BY <1>1, <1>2, ProceedEnds, StageEndFights
<1>3. CASE Blocked("DEBUG_ACTIONS_UNAVAILABLE")
      <2>1. Over
            BY <1>1, <1>3, FinishIsOver DEF Blocked
      <2> QED BY <2>1, OverFights
<1> QED BY <1>2, <1>3 DEF DebugThink

LEMMA BeginFights == ASSUME Begin PROVE FightInv'
<1>1. PICK g \in Goals : goal' = g
      BY DEF Begin
<1>2. todo' = StagesOf(g, mode') /\ at' = FirstStep(Head(todo')) /\ call' = NoCall
      BY <1>1 DEF Begin, Enter
<1>3. /\ todo' \in Seq(Stages) /\ todo' # << >>
      /\ \A i \in 2 .. Len(todo') : todo'[i].do # "peek"
      /\ Head(todo').do = "peek" => Len(todo') > 2
      /\ g = "card_test" => Head(todo').do = "debug"
      BY <1>2, StageLists
<1> QED BY <1>1, <1>2, <1>3, EnteredFights

(* A fight is fought as the journey asks, on any pages and with any bounds *)
(* (_resolve_combat_mode, card_test, choose_progress_action): a death test *)
(* only ends turns, a card test never has the fight won for it.            *)
THEOREM FightsAreAsAsked == ExSpec => []FightsAsAsked
<1>1. ExInit => FightInv
      <2> SUFFICES ASSUME ExInit PROVE FightInv
          OBVIOUS
      <2>1. at = "done" /\ todo = << >> /\ call = NoCall
            BY DEF ExInit, Init
      <2> QED BY <2>1, NothingAsked DEF FightInv, StagesInv
<1>2. FightInv /\ [ExNext]_allVars => FightInv'
      <2> SUFFICES ASSUME FightInv, [ExNext]_allVars PROVE FightInv'
          OBVIOUS
      <2>1. CASE UNCHANGED <<todo, at, page, call, mode>> /\ goal' = goal
            BY <2>1 DEF FightInv, StagesInv, InNav, Now
      <2>2. CASE Wrap
            <3>1. UNCHANGED <<todo, at, page, call>> /\ goal' = "idle" /\ mode' = "traversal"
                  BY <2>2 DEF Wrap
            <3> QED BY <3>1 DEF FightInv, StagesInv, InNav, Now, Fights
      <2>3. CASE Begin
            BY <2>3, BeginFights
      <2>4. CASE Travel
            <3>1. \/ CheckCancel \/ Send \/ After \/ Raises
                  \/ StageActions \/ DebugThink \/ NavRead \/ NavAnswered
                  \/ Observe \/ Poll \/ PollOver \/ NavTimeout
                  BY <2>4 DEF Travel, On, StageActions
            <3> QED BY <3>1, SharedFights, StageActionsFight, PeekFights, DebugFights, NavReadFights,
                       NavAnsweredFights, LookingFights
      <2> QED BY <2>1, <2>2, <2>3, <2>4
              DEF ExNext, ExStep, On, allVars, vars, Execute, Precheck, Launch, Recover, Quiet,
                  WriteResult, WriteTrace, SessionEnd, Refresh, Seal, FinishCancel, EvidenceRaises,
                  Finally, RequestCancel
<1>3. FightInv => FightsAsAsked
      BY DEF FightInv, FightsAsAsked, Fights, Acting
<1> QED BY <1>1, <1>2, <1>3, PTL DEF ExSpec

-----------------------------------------------------------------------------
(* The second part.  A path has passed a step when every place where it    *)
(* stands in the path's list is behind.                                    *)
Past(s) == \A i \in DOMAIN StepsOf(path) : StepsOf(path)[i] = s => i < step

Early == {"idle", "precheck", "mode", "journey"}

(* Before the journey is over nothing is reported, packed or released.     *)
Untouched ==
    /\ path = "none" /\ report = "none" /\ reason = "none" /\ cleaned = 0
    /\ outcomeOf = Nothing /\ record = NoRecord /\ sealed = FALSE

(* What a path that can still end green has achieved so far.               *)
GreenSoFar ==
    /\ path = "passed" =>
          /\ status = "PASSED" /\ report \in {"none", "PASSED"}
          /\ Past("session") => pack = "passed"
          /\ Past("seal") => record.lost \/ record.sealed
    /\ path = "cancelled" /\ reason = "none" =>
          /\ step # 1 => status = "CANCELLED"
          /\ Past("session") => pack = "cancelled"
          /\ Past("seal") => sealed
          /\ Past("finish") => record.lost \/ (record.sealed /\ record.status = "CANCELLED")
    /\ path # "passed" => status # "PASSED"

(* What the path has achieved for the files the manifest declares, if all  *)
(* writes went well: the last manifest is made when everything is there,   *)
(* the last archive after it.                                              *)
FilesOfRun ==
    [there : SUBSET Declared, missing : SUBSET Declared, archived : SUBSET Declared,
     lost : BOOLEAN]
FilesBy(trace, write, session, manifest, refresh) ==
    /\ step > trace => {"trace", "manifest"} \subseteq files.there
    /\ step > write => "result" \in files.there
    /\ step > session => {"summary", "junit"} \subseteq files.there
    /\ step > manifest => files.missing = {}
    /\ step > refresh => files.archived = {}
ManifestSoFar ==
    ~files.lost =>
        /\ path = "passed" => FilesBy(3, 4, 5, 7, 8)
        /\ path = "cancelled" => FilesBy(5, 4, 6, 8, 9)

(* What the record of the run says is so; until the seal is reached it says*)
(* nothing, and a cancelled run that reaches it in order has a pack.       *)
RecordIsTrue ==
    /\ record.sealed \in BOOLEAN /\ record.lost \in BOOLEAN
    /\ DOMAIN record = {"status", "sealed", "lost"}
    /\ sealed \in BOOLEAN
    /\ sealed \/ record.sealed => pack # "none"
    /\ record.status = "CANCELLED" => record.sealed /\ pack = "cancelled"
RecordSoFar ==
    /\ record # NoRecord =>
          \/ path = "passed" /\ step > 9
          \/ path = "cancelled" /\ step > 11
    /\ sealed => path = "cancelled" /\ step > 10
    /\ path = "cancelled" /\ step \in 7 .. 10 => pack # "none"

ExecuteInv ==
    /\ files \in FilesOfRun
    /\ RecordIsTrue
    /\ ex = "wrap" => RecordSoFar
    /\ ex = "wrap" => ManifestSoFar
    /\ ex \in Early \union {"wrap", "escaping", "raised", "returned"}
    /\ ex \in Early => Untouched
    /\ ex = "journey" => goal # "idle"
    /\ ex \in {"wrap", "escaping"} =>
          path \in Ways /\ step \in Nat \ {0} /\ cleaned = 0 /\ outcomeOf = Nothing
    /\ ex = "wrap" => GreenSoFar
    /\ GreenIsWhole
    /\ Released

-----------------------------------------------------------------------------
LEMMA StepsOfPassed ==
    StepsOf("passed") = <<"shot", "case", "trace", "write", "session", "persist", "trace",
                          "refresh", "seal">>
BY DEF StepsOf

LEMMA StepsOfCancelled ==
    StepsOf("cancelled") = <<"recover", "shot", "case", "write", "trace", "session",
                             "persist", "trace", "refresh", "seal", "finish">>
BY DEF StepsOf

LEMMA StepsOfFailed ==
    StepsOf("failed") = <<"crash", "case", "trace", "write", "failure", "session", "persist",
                          "trace", "refresh">>
BY DEF StepsOf

LEMMA StepsOfCrashed == StepsOf("crashed") = <<"crash", "case", "write", "session">>
BY DEF StepsOf

(* The lists are finite; a passed journey is not recovered, a cancelled    *)
(* one is recovered first, and both are packed and sealed.                 *)
LEMMA Lists ==
    /\ \A p \in Ways : Len(StepsOf(p)) \in Nat \ {0} /\ DOMAIN StepsOf(p) = 1 .. Len(StepsOf(p))
    /\ \A i \in DOMAIN StepsOf("passed") : StepsOf("passed")[i] # "recover"
    /\ StepsOf("passed")[5] = "session" /\ StepsOf("passed")[9] = "seal"
    /\ 5 \in DOMAIN StepsOf("passed") /\ 9 \in DOMAIN StepsOf("passed")
    /\ StepsOf("cancelled")[1] = "recover" /\ StepsOf("cancelled")[6] = "session"
    /\ StepsOf("cancelled")[10] = "seal" /\ StepsOf("cancelled")[11] = "finish"
    /\ {6, 10, 11} \subseteq DOMAIN StepsOf("cancelled")
    /\ \A i \in DOMAIN StepsOf("cancelled") : StepsOf("cancelled")[i] = "recover" => i = 1
<1>1. /\ Len(StepsOf("passed")) = 9 /\ DOMAIN StepsOf("passed") = 1 .. 9
      /\ StepsOf("passed")[5] = "session" /\ StepsOf("passed")[9] = "seal"
      /\ \A i \in 1 .. 9 : StepsOf("passed")[i] # "recover"
      BY StepsOfPassed
<1>2. /\ Len(StepsOf("cancelled")) = 11 /\ DOMAIN StepsOf("cancelled") = 1 .. 11
      /\ StepsOf("cancelled")[1] = "recover" /\ StepsOf("cancelled")[6] = "session"
      /\ StepsOf("cancelled")[10] = "seal" /\ StepsOf("cancelled")[11] = "finish"
      BY StepsOfCancelled
<1>3. \A i \in 2 .. 11 : StepsOf("cancelled")[i] # "recover"
      BY StepsOfCancelled
<1>4. Len(StepsOf("failed")) = 9 /\ DOMAIN StepsOf("failed") = 1 .. 9
      BY StepsOfFailed
<1>5. Len(StepsOf("crashed")) = 4 /\ DOMAIN StepsOf("crashed") = 1 .. 4
      BY StepsOfCrashed
<1>6. \A p \in Ways : Len(StepsOf(p)) \in Nat \ {0}
                        /\ DOMAIN StepsOf(p) = 1 .. Len(StepsOf(p))
    <2> TAKE p \in Ways
    <2>1. CASE p = "passed"
          BY <1>1, <2>1
    <2>2. CASE p = "cancelled"
          BY <1>2, <2>2
    <2>3. CASE p = "failed"
          BY <1>4, <2>3
    <2>4. CASE p = "crashed"
          BY <1>5, <2>4
    <2> QED BY <2>1, <2>2, <2>3, <2>4 DEF Ways
<1>7. \A i \in DOMAIN StepsOf("cancelled") : StepsOf("cancelled")[i] = "recover" => i = 1
      BY <1>2, <1>3
<1>8. 5 \in 1 .. 9 /\ 9 \in 1 .. 9 /\ {6, 10, 11} \subseteq 1 .. 11
      OBVIOUS
<1> QED BY <1>1, <1>2, <1>6, <1>7, <1>8

(* One step forward passes that step and no other.                         *)
LEMMA OneStep ==
    ASSUME path \in Ways, step \in Nat, path' = path, Done, NEW s,
           StepsOf(path)[step] # s, Past(s)'
    PROVE  Past(s)
<1>1. \A i \in DOMAIN StepsOf(path) : i \in Nat
      BY Lists
<1>2. \A i \in DOMAIN StepsOf(path) : StepsOf(path)[i] = s => i < step + 1
      BY DEF Past, Done
<1> QED BY <1>1, <1>2 DEF Past

LEMMA NothingPassedYet ==
    ASSUME path' \in {"passed", "cancelled"}, step' = 1
    PROVE  ~Past("session")' /\ ~Past("seal")' /\ (path' = "cancelled" => ~Past("finish")')
BY Lists DEF Past

LEMMA AllPassed ==
    ASSUME path \in Ways, step \in Nat, AllDone, NEW s PROVE Past(s)
<1>1. \A i \in DOMAIN StepsOf(path) : i \in Nat /\ i <= Len(StepsOf(path))
      BY Lists
<1> QED BY <1>1, Lists DEF Past, AllDone

-----------------------------------------------------------------------------
(* Where the writes stand in the lists of the two paths that can end green.*)
LEMMA Places ==
    /\ \A i \in 1 .. 9 :
          /\ StepsOf("passed")[i] = "trace" <=> i \in {3, 7}
          /\ StepsOf("passed")[i] = "write" <=> i = 4
          /\ StepsOf("passed")[i] = "session" <=> i = 5
          /\ StepsOf("passed")[i] = "refresh" <=> i = 8
    /\ \A i \in 1 .. 11 :
          /\ StepsOf("cancelled")[i] = "trace" <=> i \in {5, 8}
          /\ StepsOf("cancelled")[i] = "write" <=> i = 4
          /\ StepsOf("cancelled")[i] = "session" <=> i = 6
          /\ StepsOf("cancelled")[i] = "refresh" <=> i = 9
    /\ Len(StepsOf("passed")) = 9 /\ Len(StepsOf("cancelled")) = 11
BY StepsOfPassed, StepsOfCancelled

(* What a write, a failed write and a new archive leave of the files.      *)
LEMMA WritesAreFiles ==
    ASSUME files \in FilesOfRun, NEW new \in SUBSET Declared
    PROVE  /\ Written(new) \in FilesOfRun
           /\ Missed(new) \subseteq {f \in FilesOfRun : f.lost}
           /\ \A f \in Packed(new) :
                 f \in FilesOfRun
                   /\ (f.lost \/ f = [Written(new) EXCEPT !.archived = files.missing])
<1>1. \A got \in SUBSET Declared : Written(got) \in FilesOfRun
      BY DEF Written, FilesOfRun
<1>2. \A got \in SUBSET Declared :
         [Written(got) EXCEPT !.lost = TRUE] \in {f \in FilesOfRun : f.lost}
      BY <1>1 DEF FilesOfRun
<1>3. \A f \in FilesOfRun : [f EXCEPT !.archived = files.missing] \in FilesOfRun
                              /\ [f EXCEPT !.archived = files.missing].lost = f.lost
      BY DEF FilesOfRun
<1>4. Missed(new) \subseteq {f \in FilesOfRun : f.lost}
      BY <1>2 DEF Missed
<1> QED BY <1>1, <1>3, <1>4 DEF Packed

LEMMA ListedIsFiles ==
    ASSUME files \in FilesOfRun PROVE Listed \in FilesOfRun
BY DEF Listed, Written, FilesOfRun, Declared

(* A run that has not come to a green end needs only a true record.        *)
LEMMA NotGreenYet ==
    ASSUME outcomeOf.exit # 0, RecordIsTrue PROVE GreenIsWhole
BY DEF GreenIsWhole, RecordIsTrue

LEMMA NotGreenThen ==
    ASSUME outcomeOf'.exit # 0, RecordIsTrue' PROVE GreenIsWhole'
BY DEF GreenIsWhole, RecordIsTrue

LEMMA NothingIsRed == Nothing.exit # 0
BY DEF Nothing

LEMMA ExecuteInit == ExInit => ExecuteInv
<1> SUFFICES ASSUME ExInit PROVE ExecuteInv
    OBVIOUS
<1>1. RecordIsTrue /\ outcomeOf = Nothing
      BY DEF ExInit, RecordIsTrue, NoRecord
<1>2. GreenIsWhole
      BY <1>1, NotGreenYet, NothingIsRed
<1>3. files \in FilesOfRun
      BY DEF ExInit, FilesOfRun, NoFiles
<1> QED BY <1>1, <1>2, <1>3 DEF ExInit, ExecuteInv, Untouched, Early, Released

LEMMA PastKept ==
    ASSUME UNCHANGED <<path, step>>, NEW s PROVE Past(s)' <=> Past(s)
BY DEF Past

(* A step of a path's list keeps what the path has achieved.               *)
LEMMA ListStepKeepsGreen ==
    ASSUME ExecuteInv, ex = "wrap", ListStep
    PROVE  GreenSoFar' /\ UNCHANGED <<path, ex, cleaned, outcomeOf>> /\ step' \in Nat \ {0}
<1> DEFINE here == StepsOf(path)[step]
<1>1. path \in Ways /\ step \in Nat \ {0} /\ GreenSoFar
      BY DEF ExecuteInv
<1>2. Done /\ UNCHANGED <<path, ex, cleaned, outcomeOf>>
      BY DEF ListStep, Recover, Quiet, WriteResult, WriteTrace, SessionEnd, Refresh, Seal,
             FinishCancel
<1>3. step' \in Nat \ {0} /\ step' # 1
      BY <1>1, <1>2 DEF Done
<1>4. \A s \in {"session", "seal", "finish"} : here # s /\ Past(s)' => Past(s)
      BY <1>1, <1>2, OneStep
<1>5. path = "cancelled" /\ step = 1 => here = "recover"
      BY Lists
<1>6. ~AllDone
      BY DEF ListStep, Recover, Quiet, WriteResult, WriteTrace, SessionEnd, Refresh, Seal,
             FinishCancel, Wrapping, LastPicture, FailureReport, ArtifactPath
<1>7. path = "passed" => here # "recover"
      BY <1>1, <1>6, Lists DEF AllDone, Ways
<1>15. RecordIsTrue
      BY DEF ExecuteInv
<1>8. CASE Recover
      <2>1. here = "recover"
            BY <1>8 DEF Recover, Wrapping
      <2>2. path = "cancelled" => step = 1
            BY <1>1, <1>6, <2>1, Lists DEF AllDone, Ways
      <2>3. path = "cancelled" => ~Past("session") /\ ~Past("seal") /\ ~Past("finish")
            BY <2>2, Lists DEF Past
      <2>4. path # "passed" /\ status' # "PASSED"
            BY <1>7, <1>8, <2>1 DEF Recover
      <2>5. path = "cancelled" => ~Past("session")' /\ ~Past("seal")' /\ ~Past("finish")'
            BY <1>4, <2>1, <2>3
      <2>6. reason' = "none" => status' = "CANCELLED"
            BY <1>8 DEF Recover
      <2> QED BY <1>2, <1>3, <2>4, <2>5, <2>6 DEF GreenSoFar
<1>9. CASE Quiet
      <2>1. here \notin {"recover", "session", "seal", "finish"}
            BY <1>9 DEF Quiet, Wrapping, LastPicture, FailureReport, ArtifactPath
      <2> QED BY <1>1, <1>2, <1>3, <1>4, <1>5, <1>9, <2>1 DEF Quiet, GreenSoFar
<1>10. CASE WriteResult
      <2>1. here = "write"
            BY <1>10 DEF WriteResult, Wrapping
      <2> QED BY <1>1, <1>2, <1>3, <1>4, <1>5, <1>10, <2>1 DEF WriteResult, GreenSoFar
<1>11. CASE SessionEnd
      <2>1. here = "session"
            BY <1>11 DEF SessionEnd, Wrapping
      <2>2. path = "passed" => pack' = "passed"
            BY <1>1, <1>11 DEF SessionEnd, run_result, GreenSoFar
      <2>3. path = "cancelled" /\ reason = "none" => pack' = "cancelled"
            BY <1>1, <1>5, <1>11, <2>1 DEF SessionEnd, run_result, GreenSoFar
      <2> QED BY <1>1, <1>2, <1>3, <1>4, <1>5, <1>11, <2>1, <2>2, <2>3
              DEF SessionEnd, GreenSoFar
<1>12. CASE Seal
      <2>1. here = "seal"
            BY <1>12 DEF Seal, Wrapping
      <2>2. path = "passed" => record'.lost \/ record'.sealed
            BY <1>12, <1>15 DEF Seal, Stored, RecordIsTrue
      <2> QED BY <1>1, <1>2, <1>3, <1>4, <1>5, <1>12, <2>1, <2>2 DEF Seal, GreenSoFar
<1>13. CASE FinishCancel
      <2>1. here = "finish"
            BY <1>13 DEF FinishCancel, Wrapping
      <2>2. path # "passed"
            BY <1>1, <1>6, <2>1, StepsOfPassed DEF AllDone
      <2>3. path = "cancelled" /\ reason = "none" => sealed
            <3> SUFFICES ASSUME path = "cancelled", reason = "none" PROVE sealed
                OBVIOUS
            <3>1. step = 11
                  BY <1>1, <1>6, <2>1, StepsOfCancelled DEF AllDone
            <3>2. Past("seal")
                  BY <3>1, StepsOfCancelled DEF Past
            <3> QED BY <1>1, <3>2 DEF GreenSoFar
      <2>4. path = "cancelled" /\ reason = "none" =>
               record'.lost \/ (record'.sealed /\ record'.status = "CANCELLED")
            <3> SUFFICES ASSUME path = "cancelled", reason = "none"
                         PROVE  record'.lost \/ (record'.sealed /\ record'.status = "CANCELLED")
                OBVIOUS
            <3>1. CancelStatus = "CANCELLED"
                  BY DEF CancelStatus
            <3> QED BY <1>13, <1>15, <2>3, <3>1 DEF FinishCancel, Stored, RecordIsTrue
      <2> QED BY <1>1, <1>2, <1>3, <1>4, <1>5, <1>13, <2>1, <2>2, <2>4 DEF FinishCancel, GreenSoFar
<1>14. CASE WriteTrace \/ Refresh
      <2>1. here \in {"trace", "refresh"}
            BY <1>14 DEF WriteTrace, Refresh, Wrapping
      <2> QED BY <1>1, <1>2, <1>3, <1>4, <1>5, <1>14, <2>1 DEF WriteTrace, Refresh, GreenSoFar
<1> QED BY <1>2, <1>3, <1>8, <1>9, <1>10, <1>11, <1>12, <1>13, <1>14 DEF ListStep

(* A step of the list leaves the record as true as it was.                 *)
LEMMA ListStepKeepsRecord ==
    ASSUME ExecuteInv, ex = "wrap", ListStep
    PROVE  RecordIsTrue' /\ RecordSoFar'
<1> DEFINE here == StepsOf(path)[step]
<1>1. /\ path \in Ways /\ step \in Nat \ {0} /\ GreenSoFar /\ RecordIsTrue /\ RecordSoFar
      BY DEF ExecuteInv
<1>2. step' = step + 1 /\ path' = path /\ ~AllDone
      BY DEF ListStep, Recover, Quiet, WriteResult, WriteTrace, SessionEnd, Refresh, Seal,
             FinishCancel, Wrapping, LastPicture, FailureReport, ArtifactPath, Done
<1>3. ASSUME path = "passed"
      PROVE  step \in 1 .. 9 /\ (here = "seal" <=> step = 9) /\ here \notin {"finish", "recover"}
    <2>1. Len(StepsOf(path)) = 9
          BY <1>3, Places
    <2>2. step \in 1 .. 9
          BY <1>1, <1>2, <2>1 DEF AllDone
    <2> QED BY <1>3, <2>2, StepsOfPassed
<1>4. path = "cancelled" => step \in 1 .. 11 /\ (here = "seal" <=> step = 10)
                               /\ (here = "finish" <=> step = 11)
                               /\ (here = "session" <=> step = 6)
      BY <1>1, <1>2, StepsOfCancelled DEF AllDone
<1>5. path \in {"failed", "crashed"} => here \notin {"seal", "finish"}
      <2>1. ASSUME path = "failed" PROVE step \in 1 .. 9
            <3>1. Len(StepsOf(path)) = 9
                  BY <2>1, StepsOfFailed
            <3> QED BY <1>1, <1>2, <3>1 DEF AllDone
      <2>2. path = "crashed" => step \in 1 .. 4
            BY <1>1, <1>2, StepsOfCrashed DEF AllDone
      <2> QED BY <2>1, <2>2, StepsOfFailed, StepsOfCrashed
<1>6. record = NoRecord /\ NoRecord.sealed = FALSE /\ NoRecord.status = "none"
         /\ NoRecord.lost = FALSE
      BY <1>1, <1>3, <1>4 DEF RecordSoFar, NoRecord
<1>7. CASE Seal
      <2>1. here = "seal"
            BY <1>7 DEF Seal, Wrapping
      <2>2. pack' = pack
            BY <1>7 DEF Seal
      <2>3. CASE path = "passed"
            <3>1. step = 9 /\ pack = "passed"
                  BY <1>1, <1>3, <2>1, <2>3, StepsOfPassed DEF GreenSoFar, Past
            <3>2. /\ record' \in {[NoRecord EXCEPT !.sealed = TRUE],
                                  [NoRecord EXCEPT !.lost = TRUE]}
                  /\ sealed' = sealed
                  BY <1>6, <1>7, <2>3 DEF Seal, Stored
            <3>3. /\ record'.sealed \in BOOLEAN /\ record'.lost \in BOOLEAN
                  /\ DOMAIN record' = {"status", "sealed", "lost"} /\ record'.status = "none"
                  BY <3>2 DEF NoRecord
            <3> QED BY <1>1, <1>2, <2>2, <2>3, <3>1, <3>2, <3>3
                    DEF RecordIsTrue, RecordSoFar
      <2>4. CASE path = "cancelled"
            <3>1. step = 10 /\ pack # "none"
                  BY <1>1, <1>4, <2>1, <2>4 DEF RecordSoFar
            <3>2. sealed' = TRUE /\ record' = record
                  BY <1>7, <2>4 DEF Seal
            <3> QED BY <1>1, <1>2, <1>6, <2>2, <2>4, <3>1, <3>2 DEF RecordIsTrue, RecordSoFar
      <2> QED BY <1>1, <1>5, <2>1, <2>3, <2>4 DEF Ways
<1>8. CASE FinishCancel
      <2>1. here = "finish"
            BY <1>8 DEF FinishCancel, Wrapping
      <2>2. path = "cancelled" /\ step = 11
            BY <1>1, <1>3, <1>4, <1>5, <2>1 DEF Ways
      <2>3. /\ record' \in {[NoRecord EXCEPT !.status = CancelStatus, !.sealed = sealed],
                            [NoRecord EXCEPT !.lost = TRUE]}
            /\ UNCHANGED <<sealed, pack>>
            BY <1>6, <1>8 DEF FinishCancel, Stored
      <2>4. /\ DOMAIN record' = {"status", "sealed", "lost"}
            /\ record'.lost \in BOOLEAN
            /\ \/ record'.status = CancelStatus /\ record'.sealed = sealed
               \/ record'.status = "none" /\ record'.sealed = FALSE
            BY <2>3 DEF NoRecord
      <2>5. Past("session") /\ Past("seal")
            BY <1>1, <1>2, <2>2, StepsOfCancelled DEF Past
      <2>6. CancelStatus = "CANCELLED" => reason = "none"
            BY DEF CancelStatus
      <2>7. record'.status = "CANCELLED" => sealed /\ record'.sealed /\ pack = "cancelled"
            BY <1>1, <2>2, <2>4, <2>5, <2>6 DEF GreenSoFar
      <2>8. RecordIsTrue'
            BY <1>1, <2>3, <2>4, <2>7 DEF RecordIsTrue
      <2>9. RecordSoFar'
            BY <1>1, <1>2, <2>2, <2>3 DEF RecordSoFar
      <2> QED BY <2>8, <2>9
<1>9. CASE SessionEnd
      <2>1. here = "session" /\ UNCHANGED <<record, sealed>> /\ pack' # "none"
            BY <1>9 DEF SessionEnd, Wrapping, run_result
      <2> QED BY <1>1, <1>2, <1>4, <1>6, <2>1 DEF RecordIsTrue, RecordSoFar
<1>10. CASE Recover \/ Quiet \/ WriteResult \/ WriteTrace \/ Refresh
      <2>1. UNCHANGED <<record, sealed, pack>>
            BY <1>10 DEF Recover, Quiet, WriteResult, WriteTrace, Refresh
      <2>2. here # "session"
            BY <1>10 DEF Recover, Quiet, WriteResult, WriteTrace, Refresh, Wrapping, LastPicture,
                         FailureReport, ArtifactPath
      <2> QED BY <1>1, <1>2, <1>4, <1>6, <2>1, <2>2 DEF RecordIsTrue, RecordSoFar
<1> QED BY <1>7, <1>8, <1>9, <1>10 DEF ListStep

(* What a step of the list does to the files.                              *)
FilesAfter(here) ==
    \/ here = "trace" /\ files' = Listed
    \/ here = "write" /\ files' = Written({"result"})
    \/ here = "session" /\ files' = [Written({"summary", "junit"}) EXCEPT !.archived = files.missing]
    \/ here = "refresh" /\ files' = [Written({"junit"}) EXCEPT !.archived = files.missing]
    \/ here \notin {"trace", "write", "session", "refresh"} /\ files' = files

LEMMA ListStepFiles ==
    ASSUME files \in FilesOfRun, ListStep
    PROVE  files' \in FilesOfRun /\ (files'.lost \/ FilesAfter(StepsOf(path)[step]))
<1> DEFINE here == StepsOf(path)[step]
<1>1. CASE WriteTrace
      <2>1. here = "trace" /\ files' \in {Listed} \union Missed({"trace"})
            BY <1>1 DEF WriteTrace, Wrapping
      <2> QED BY <2>1, ListedIsFiles, WritesAreFiles DEF Declared, FilesAfter
<1>2. CASE WriteResult
      <2>1. here = "write" /\ (files' = Written({"result"}) \/ files' \in Missed({}))
            BY <1>2 DEF WriteResult, Wrapping
      <2> QED BY <2>1, WritesAreFiles DEF Declared, FilesAfter
<1>3. CASE SessionEnd
      <2>1. here = "session" /\ files' \in Packed({"summary", "junit"})
            BY <1>3 DEF SessionEnd, Wrapping
      <2> QED BY <2>1, WritesAreFiles DEF Declared, FilesAfter
<1>4. CASE Refresh
      <2>1. here = "refresh" /\ files' \in Packed({"junit"})
            BY <1>4 DEF Refresh, Wrapping
      <2> QED BY <2>1, WritesAreFiles DEF Declared, FilesAfter
<1>5. CASE Recover \/ Quiet \/ Seal \/ FinishCancel
      <2>1. here \notin {"trace", "write", "session", "refresh"} /\ files' = files
            BY <1>5 DEF Recover, Quiet, Seal, FinishCancel, Wrapping, LastPicture,
                        FailureReport, ArtifactPath
      <2> QED BY <2>1 DEF FilesAfter
<1> QED BY <1>1, <1>2, <1>3, <1>4, <1>5 DEF ListStep

LEMMA FieldsAfter ==
    ASSUME files \in FilesOfRun, NEW here, FilesAfter(here)
    PROVE  /\ files'.lost = files.lost /\ files.there \subseteq files'.there
           /\ here = "trace" =>
                 /\ {"trace", "manifest"} \subseteq files'.there
                 /\ files'.missing = Declared \ (files.there \union {"trace"})
           /\ here = "write" => "result" \in files'.there
           /\ here = "session" => {"summary", "junit"} \subseteq files'.there
           /\ here # "trace" => files'.missing = files.missing
           /\ here = "refresh" => files'.archived = files.missing
           /\ here \notin {"session", "refresh"} => files'.archived = files.archived
<1>1. CASE here = "trace" /\ files' = Listed
      BY <1>1 DEF Listed, Written, FilesOfRun
<1>2. CASE here = "write" /\ files' = Written({"result"})
      BY <1>2 DEF Written, FilesOfRun
<1>3. CASE here = "session" /\ files' = [Written({"summary", "junit"}) EXCEPT !.archived = files.missing]
      BY <1>3 DEF Written, FilesOfRun
<1>4. CASE here = "refresh" /\ files' = [Written({"junit"}) EXCEPT !.archived = files.missing]
      BY <1>4 DEF Written, FilesOfRun
<1>5. CASE here \notin {"trace", "write", "session", "refresh"} /\ files' = files
      BY <1>5
<1> QED BY <1>1, <1>2, <1>3, <1>4, <1>5 DEF FilesAfter

(* Each step adds its files; the last manifest is made after all of them.  *)
LEMMA ListStepKeepsManifest ==
    ASSUME ExecuteInv, ex = "wrap", ListStep
    PROVE  ManifestSoFar' /\ files' \in FilesOfRun
<1> DEFINE here == StepsOf(path)[step]
<1>1. files \in FilesOfRun /\ ManifestSoFar /\ step \in Nat \ {0}
      BY DEF ExecuteInv
<1>2. step' = step + 1 /\ path' = path /\ ~AllDone
      BY DEF ListStep, Recover, Quiet, WriteResult, WriteTrace, SessionEnd, Refresh, Seal,
             FinishCancel, Wrapping, LastPicture, FailureReport, ArtifactPath, Done
<1>3. files' \in FilesOfRun /\ (files'.lost \/ FilesAfter(here))
      BY <1>1, ListStepFiles
<1>4. ASSUME ~files'.lost, path = "passed"
      PROVE  FilesBy(3, 4, 5, 7, 8)'
      <2>5. Len(StepsOf(path)) = 9
            BY <1>4, Places
      <2>1. step \in 1 .. 9
            BY <1>1, <1>2, <2>5 DEF AllDone
      <2>2. FilesAfter(here) /\ ~files.lost
            BY <1>1, <1>3, <1>4, FieldsAfter
      <2>3. FilesBy(3, 4, 5, 7, 8)
            BY <1>1, <1>4, <2>2 DEF ManifestSoFar
      <2>4. /\ here = "trace" <=> step \in {3, 7}
            /\ here = "write" <=> step = 4
            /\ here = "session" <=> step = 5
            /\ here = "refresh" <=> step = 8
            BY <1>4, <2>1, Places
      <2> HIDE DEF here
      <2> QED BY <1>1, <1>2, <2>1, <2>2, <2>3, <2>4, FieldsAfter DEF FilesBy, Declared
<1>5. ASSUME ~files'.lost, path = "cancelled"
      PROVE  FilesBy(5, 4, 6, 8, 9)'
      <2>5. Len(StepsOf(path)) = 11
            BY <1>5, Places
      <2>1. step \in 1 .. 11
            BY <1>1, <1>2, <2>5 DEF AllDone
      <2>2. FilesAfter(here) /\ ~files.lost
            BY <1>1, <1>3, <1>5, FieldsAfter
      <2>3. FilesBy(5, 4, 6, 8, 9)
            BY <1>1, <1>5, <2>2 DEF ManifestSoFar
      <2>4. /\ here = "trace" <=> step \in {5, 8}
            /\ here = "write" <=> step = 4
            /\ here = "session" <=> step = 6
            /\ here = "refresh" <=> step = 9
            BY <1>5, <2>1, Places
      <2> HIDE DEF here
      <2> QED BY <1>1, <1>2, <2>1, <2>2, <2>3, <2>4, FieldsAfter DEF FilesBy, Declared
<1> QED BY <1>2, <1>3, <1>4, <1>5 DEF ManifestSoFar

(* Evidence that cannot be written: the three ways it goes on.             *)
LEMMA RaisingKeepsGreen ==
    ASSUME ExecuteInv, EvidenceRaises
    PROVE  ExecuteInv'
<1>1. /\ ex = "wrap" /\ path \in Ways /\ step \in Nat \ {0} /\ cleaned = 0
      /\ outcomeOf = Nothing /\ GreenSoFar
      BY DEF EvidenceRaises, Wrapping, ExecuteInv
<1>2. UNCHANGED <<cleaned, outcomeOf, report, guard>> /\ ex' \in {"wrap", "escaping"}
      BY <1>1 DEF EvidenceRaises
<1>3. /\ path' \in Ways /\ step' \in Nat \ {0}
      /\ ex' = "wrap" => GreenSoFar'
      <2>1. CASE path = "passed"
            BY <1>1, <2>1 DEF EvidenceRaises, GreenSoFar, Ways
      <2>2. CASE path = "cancelled"
            <3>1. step' = Len(StepsOf(path)) /\ reason' # "none" /\ UNCHANGED <<path, status>>
                  BY <2>2 DEF EvidenceRaises
            <3> QED BY <1>1, <2>2, <3>1, Lists DEF GreenSoFar
      <2>3. CASE path \notin {"passed", "cancelled"}
            BY <1>1, <2>3 DEF EvidenceRaises
      <2> QED BY <2>1, <2>2, <2>3
<1>6. UNCHANGED <<record, sealed, pack>> /\ RecordIsTrue /\ RecordSoFar
      BY <1>1 DEF EvidenceRaises, ExecuteInv
<1>7. RecordIsTrue' /\ (ex' = "wrap" => RecordSoFar')
      <2>1. RecordIsTrue'
            BY <1>6 DEF RecordIsTrue
      <2>2. CASE path = "passed"
            <3>1. step <= 9
                  BY <1>1, <2>2, Places DEF EvidenceRaises, Wrapping, AllDone
            <3>2. path' = "crashed"
                  BY <2>2 DEF EvidenceRaises
            <3> QED BY <1>1, <1>6, <2>1, <2>2, <3>1, <3>2 DEF RecordSoFar
      <2>3. CASE path = "cancelled"
            <3>2. Len(StepsOf(path)) = 11
                  BY <2>3, Places
            <3>3. step' = Len(StepsOf(path)) /\ path' = path /\ ~AllDone
                  BY <2>3 DEF EvidenceRaises, Wrapping
            <3>1. step <= 11 /\ step' = 11 /\ path' = path
                  BY <1>1, <3>2, <3>3 DEF AllDone
            <3> QED BY <1>1, <1>6, <2>1, <2>3, <3>1 DEF RecordSoFar
      <2>4. CASE path \notin {"passed", "cancelled"}
            BY <2>1, <2>4 DEF EvidenceRaises
      <2> QED BY <2>2, <2>3, <2>4
<1>4. GreenIsWhole' /\ Released'
      <2>1. GreenIsWhole'
            BY <1>1, <1>2, <1>7, NotGreenThen, NothingIsRed
      <2> QED BY <1>1, <1>2, <2>1 DEF Released
<1>5. files' \in FilesOfRun /\ files'.lost
      BY WritesAreFiles DEF EvidenceRaises, ExecuteInv, Declared
<1> QED BY <1>1, <1>2, <1>3, <1>4, <1>5, <1>7 DEF ExecuteInv, Early, ManifestSoFar

LEMMA FinallyKeeps ==
    ASSUME ExecuteInv, Finally
    PROVE  ExecuteInv'
<1>1. /\ ex \in {"wrap", "escaping"} /\ path \in Ways /\ step \in Nat \ {0} /\ cleaned = 0
      /\ outcomeOf = Nothing
      BY DEF Finally, ExecuteInv
<1>2. /\ UNCHANGED <<path, pack, status, sealed, record, reason, report, files>> /\ cleaned' = 1
      /\ guard' = FALSE /\ ex' \in {"raised", "returned"}
      BY <1>1 DEF Finally, StopGuard, Leave
<1>5. RecordIsTrue /\ RecordIsTrue'
      BY <1>2 DEF ExecuteInv, RecordIsTrue
<1>6. files' \in FilesOfRun /\ Released'
      BY <1>1, <1>2 DEF ExecuteInv, Released
<1>7. GreenIsWhole' => ExecuteInv'
      BY <1>1, <1>2, <1>5, <1>6 DEF ExecuteInv, Early
<1>3. CASE ex = "escaping"
      <2>1. ex' = "raised" /\ UNCHANGED outcomeOf
            BY <1>3 DEF Finally
      <2> QED BY <1>1, <1>5, <1>7, <2>1, NotGreenThen, NothingIsRed
<1>4. CASE ex = "wrap"
      <2>1. AllDone /\ outcomeOf' = [status |-> status, exit |->
               IF path = "passed" \/ (path = "cancelled" /\ reason = "none") THEN 0 ELSE 1]
            BY <1>4 DEF Finally, Leave
      <2>2. Past("session") /\ Past("seal") /\ Past("finish")
            BY <1>1, <2>1, AllPassed
      <2>3. GreenSoFar
            BY <1>4 DEF ExecuteInv
      <2>7. ~files.lost /\ path \in {"passed", "cancelled"}
               => files.missing = {} /\ files.archived = {}
            BY <1>1, <1>4, <2>1, Places DEF AllDone, ExecuteInv, ManifestSoFar, FilesBy
      <2>4. CASE path = "passed"
            <3>1. outcomeOf'.status = "PASSED" /\ pack = "passed" /\ (record.lost \/ record.sealed)
                  BY <2>1, <2>2, <2>3, <2>4 DEF GreenSoFar
            <3> QED BY <1>2, <1>5, <1>7, <2>4, <2>7, <3>1 DEF GreenIsWhole, RecordIsTrue
      <2>5. CASE path = "cancelled" /\ reason = "none"
            <3>1. step # 1
                  BY <2>1, <2>5, Lists DEF AllDone, Ways
            <3>2. /\ outcomeOf'.status = "CANCELLED" /\ pack = "cancelled"
                  /\ record.lost \/ (record.sealed /\ record.status = "CANCELLED")
                  BY <2>1, <2>2, <2>3, <2>5, <3>1 DEF GreenSoFar
            <3> QED BY <1>2, <1>5, <1>7, <2>5, <2>7, <3>2 DEF GreenIsWhole, RecordIsTrue
      <2>6. CASE path # "passed" /\ ~(path = "cancelled" /\ reason = "none")
            <3>1. outcomeOf'.exit # 0
                  BY <2>1, <2>6
            <3> QED BY <1>5, <1>7, <3>1, NotGreenThen
      <2> QED BY <2>4, <2>5, <2>6
<1> QED BY <1>1, <1>3, <1>4

LEMMA WrapEnters ==
    ASSUME JourneyInv, ExecuteInv, Wrap
    PROVE  ExecuteInv'
<1>1. ex = "journey" /\ goal # "idle" /\ Untouched
      BY DEF Wrap, ExecuteInv, Early
<1>2. path' \in Ways /\ path' = outcome.how
      BY <1>1 DEF Wrap, Running, JourneyInv
<1>3. /\ ex' = "wrap" /\ step' = 1 /\ status' \in StatusOf(path')
      /\ UNCHANGED <<report, pack, reason, sealed, record, guard, cleaned, outcomeOf, files>>
      BY DEF Wrap
<1>4. (path' = "passed" => status' = "PASSED") /\ (path' # "passed" => status' # "PASSED")
      BY <1>2, <1>3 DEF StatusOf, Ways
<1>5. GreenSoFar'
      BY <1>1, <1>3, <1>4, NothingPassedYet DEF GreenSoFar, Untouched
<1>6. ManifestSoFar' /\ RecordSoFar'
      BY <1>1, <1>3 DEF ManifestSoFar, FilesBy, RecordSoFar, Untouched
<1>7. RecordIsTrue'
      BY <1>1, <1>3 DEF RecordIsTrue, Untouched, NoRecord
<1>8. GreenIsWhole'
      BY <1>1, <1>3, <1>7, NotGreenThen, NothingIsRed DEF Untouched
<1> QED BY <1>1, <1>2, <1>3, <1>5, <1>6, <1>7, <1>8
        DEF ExecuteInv, Untouched, Early, Released

LEMMA LaunchKeeps ==
    ASSUME JourneyInv, ExecuteInv, Launch
    PROVE  ExecuteInv'
<1>1. ex = "mode" /\ Untouched
      BY DEF Launch, ExecuteInv, Early
<1>2. UNCHANGED <<report, pack, reason, sealed, record, guard, cleaned, outcomeOf, files>>
      BY DEF Launch
<1>5. RecordIsTrue'
      BY <1>1, <1>2 DEF RecordIsTrue, Untouched, NoRecord
<1>6. GreenIsWhole'
      BY <1>1, <1>2, <1>5, NotGreenThen, NothingIsRed DEF Untouched
<1>3. CASE Begin /\ ex' = "journey" /\ UNCHANGED <<path, step, status>>
      <2>1. goal' # "idle"
            BY <1>3, GoalsAssumption DEF Begin
      <2> QED BY <1>1, <1>2, <1>3, <1>5, <1>6, <2>1
              DEF ExecuteInv, Untouched, Early, Released
<1>4. CASE /\ ex' = "wrap" /\ path' \in {"crashed", "failed"} /\ status' # "PASSED"
           /\ step' = 1
      <2>1. GreenSoFar' /\ ManifestSoFar' /\ RecordSoFar'
            BY <1>1, <1>2, <1>4
            DEF GreenSoFar, ManifestSoFar, FilesBy, RecordSoFar, Untouched
      <2> QED BY <1>1, <1>2, <1>4, <1>5, <1>6, <2>1
              DEF ExecuteInv, Untouched, Early, Released, Ways
<1> QED BY <1>3, <1>4 DEF Launch

LEMMA ExecuteStep == JourneyInv /\ ExecuteInv /\ [ExNext]_allVars => ExecuteInv'
<1> SUFFICES ASSUME JourneyInv, ExecuteInv, [ExNext]_allVars PROVE ExecuteInv'
    OBVIOUS
<1>1. CASE UNCHANGED exVars /\ goal' = goal
      <2>1. GreenSoFar' <=> GreenSoFar
            BY <1>1, PastKept DEF GreenSoFar, exVars
      <2>2. (GreenIsWhole' <=> GreenIsWhole) /\ (Released' <=> Released)
            BY <1>1 DEF GreenIsWhole, Released, exVars
      <2>3. ManifestSoFar' <=> ManifestSoFar
            BY <1>1 DEF ManifestSoFar, FilesBy, exVars
      <2>4. (RecordIsTrue' <=> RecordIsTrue) /\ (RecordSoFar' <=> RecordSoFar)
            BY <1>1 DEF RecordIsTrue, RecordSoFar, exVars
      <2> QED BY <1>1, <2>1, <2>2, <2>3, <2>4 DEF ExecuteInv, Untouched, exVars
<1>12. Untouched /\ UNCHANGED <<record, sealed, outcomeOf>> => RecordIsTrue' /\ GreenIsWhole'
      <2> SUFFICES ASSUME Untouched, UNCHANGED <<record, sealed, outcomeOf>>
                   PROVE  RecordIsTrue' /\ GreenIsWhole'
          OBVIOUS
      <2>1. RecordIsTrue'
            BY DEF Untouched, RecordIsTrue, NoRecord
      <2> QED BY <2>1, NotGreenThen, NothingIsRed DEF Untouched
<1>2. CASE Execute
      <2>1. ex = "idle" /\ Untouched
            BY <1>2 DEF Execute, ExecuteInv, Early
      <2>2. RecordIsTrue' /\ GreenIsWhole'
            BY <1>2, <1>12, <2>1 DEF Execute
      <2> QED BY <1>2, <2>1, <2>2
              DEF Execute, StartGuard, ExecuteInv, Untouched, Early, Released
<1>3. CASE Precheck
      <2>1. ex = "precheck" /\ Untouched /\ UNCHANGED <<path, reason, sealed, record, cleaned>>
            BY <1>3 DEF Precheck, ExecuteInv, Early
      <2>6. files' \in FilesOfRun
            BY <1>3, WritesAreFiles DEF Precheck, ExecuteInv, Declared
      <2>7. RecordIsTrue'
            BY <2>1 DEF Untouched, RecordIsTrue, NoRecord
      <2>2. CASE ex' = "mode" /\ UNCHANGED <<report, pack, status, guard, outcomeOf>>
            BY <1>12, <2>1, <2>2, <2>6 DEF ExecuteInv, Untouched, Early, Released
      <2>3. CASE ex' = "raised" /\ StopGuard /\ UNCHANGED outcomeOf
            BY <1>12, <2>1, <2>3, <2>6 DEF ExecuteInv, Untouched, Early, Released, StopGuard
      <2>4. CASE StopGuard /\ Leave("BLOCKED_ENVIRONMENT", 2)
            <3>1. GreenIsWhole' /\ ex' = "returned"
                  BY <2>4, <2>7, NotGreenThen DEF Leave
            <3> QED BY <2>1, <2>4, <2>6, <2>7, <3>1
                    DEF ExecuteInv, Untouched, Early, Released, StopGuard
      <2>5. CASE ex' = "raised" /\ status' = "BLOCKED_ENVIRONMENT" /\ UNCHANGED outcomeOf
            BY <1>12, <2>1, <2>5, <2>6 DEF ExecuteInv, Untouched, Early, Released
      <2> QED BY <1>3, <2>2, <2>3, <2>4, <2>5 DEF Precheck
<1>4. CASE Launch
      BY <1>4, LaunchKeeps
<1>5. CASE Wrap
      BY <1>5, WrapEnters
<1>6. CASE ListStep
      <2>1. ex = "wrap"
            BY <1>6 DEF ListStep, Recover, Quiet, WriteResult, WriteTrace, SessionEnd, Refresh,
                        Seal, FinishCancel, Wrapping, LastPicture, FailureReport, ArtifactPath
      <2>2. GreenSoFar' /\ UNCHANGED <<path, ex, cleaned, outcomeOf>> /\ step' \in Nat \ {0}
            BY <1>6, <2>1, ListStepKeepsGreen
      <2>3. ManifestSoFar' /\ files' \in FilesOfRun
            BY <1>6, <2>1, ListStepKeepsManifest
      <2>4. RecordIsTrue' /\ RecordSoFar'
            BY <1>6, <2>1, ListStepKeepsRecord
      <2>5. outcomeOf' = Nothing
            BY <2>1, <2>2 DEF ExecuteInv
      <2>6. GreenIsWhole'
            BY <2>4, <2>5, NotGreenThen, NothingIsRed
      <2> QED BY <2>1, <2>2, <2>3, <2>4, <2>6 DEF ExecuteInv, Early, Released
<1>7. CASE EvidenceRaises
      BY <1>7, RaisingKeepsGreen
<1>8. CASE Finally
      BY <1>8, FinallyKeeps
<1>9. CASE Travel
      <2>1. UNCHANGED exVars /\ goal' = goal
            BY <1>9, TravelParts, ElsewhereUnsent DEF CheckCancel, Send
      <2> QED BY <1>1, <2>1
<1>10. CASE On(RequestCancel)
      BY <1>1, <1>10 DEF On, RequestCancel
<1>11. CASE UNCHANGED allVars
      BY <1>1, <1>11 DEF allVars, vars
<1> QED BY <1>2, <1>3, <1>4, <1>5, <1>6, <1>7, <1>8, <1>9, <1>10, <1>11
        DEF ExNext, ExStep, ListStep

LEMMA ExecuteInvariant == ExSpec => []ExecuteInv
BY ExecuteInit, ExecuteStep, JourneyInvariant, PTL DEF ExSpec

(* A green exit code means that the run is packed as what it was, whatever *)
(* step of the way could not be written, and recorded so unless the store  *)
(* lost the write, which changes no exit code; and the record never claims *)
(* a seal or a clean cancel there was none of (execute, on_session_end,    *)
(* RunStore.update, finish_cancel).                                        *)
THEOREM GreenRunsAreWhole == ExSpec => []GreenIsWhole
<1>1. ExecuteInv => GreenIsWhole
      BY DEF ExecuteInv
<1> QED BY <1>1, ExecuteInvariant, PTL

(* Every way out of execute cleans the adapter up once and stops the guard *)
(* against sleep, but for the one exception the property names (finally).  *)
THEOREM EveryWayOutReleases == ExSpec => []Released
<1>1. ExecuteInv => Released
      BY DEF ExecuteInv
<1> QED BY <1>1, ExecuteInvariant, PTL

(* A failure that is reported stays reported: no later step of any path    *)
(* writes PASSED over it (write_result).                                   *)
THEOREM FailuresStayReported == ExSpec => RedStaysRed
<1>1. ExecuteInv /\ [ExNext]_allVars
         => [report \notin {"none", "PASSED"} => report' # "PASSED"]_report
      <2> SUFFICES ASSUME ExecuteInv, ExNext, report \notin {"none", "PASSED"},
                          report' = "PASSED"
                   PROVE  FALSE
          BY DEF allVars, exVars
      <2>1. ex \notin Early
            BY DEF ExecuteInv, Untouched
      <2>2. WriteResult
            BY <2>1, TravelParts
            DEF ExNext, ExStep, On, exVars, Execute, Precheck, Launch, Wrap, Recover, Quiet,
                WriteTrace, SessionEnd, Refresh, Seal, FinishCancel, EvidenceRaises, Finally, Early
      <2>3. status = "PASSED" /\ GreenSoFar
            BY <2>2 DEF WriteResult, Wrapping, ExecuteInv
      <2> QED BY <2>3 DEF GreenSoFar
<1> QED BY <1>1, ExecuteInvariant, PTL DEF ExSpec, RedStaysRed
=============================================================================
