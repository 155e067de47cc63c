----------------------------- MODULE FluentCase -----------------------------
(***************************************************************************)
(* One generated test after the other through dsl/fluent.py: assert_that   *)
(* checks the start state, runs the setup and the tested actions with a    *)
(* trace hook, waits until the page settles, judges the assertions, writes *)
(* the trace and runs the error handlers.  The game moves by itself while  *)
(* the test looks, any read or write may fail, and a repeated test writes  *)
(* into the directory of the earlier one.  An action of the sequences is   *)
(* one step here; ActionPath has its inside.                               *)
(***************************************************************************)
EXTENDS Naturals, Sequences

CONSTANTS
    Polls,   \* polls of _settle_and_get_state before its deadline
    PageMoves, \* moves of the game by itself, per test
    Tests    \* calls of assert_that

VARIABLES
    frame,   \* what the game shows: screen, cards in hand, anything offered
    case,    \* the running test: its step, its actions, its requirement, its start page
    trace,   \* recorded entries, the snapshot before the tested actions, the hook
    look,    \* _settle_and_get_state: polls, repeat required, the last read, whether
             \* it was a repeat, last signature
    disk,    \* case.log and the test that wrote each step file
    outcome  \* what assert_that returned or raised, with a message or not; how often handlers ran

fcVars == <<frame, case, trace, look, disk, outcome>>

Nothing == [screen |-> "none", hand |-> 0, offers |-> FALSE]
Unknown == [screen |-> "UNKNOWN", hand |-> 0, offers |-> FALSE]

NoLook == [polls |-> 0, repeat |-> FALSE, read |-> Nothing, same |-> FALSE, last |-> Nothing, late |-> FALSE]

(* Start states as the specification text is parsed into (external).       *)
AnyStart == [allowed |-> {}, screen |-> "none", node |-> FALSE, neow |-> FALSE, first |-> FALSE, reward |-> FALSE]
Requirements ==
    {AnyStart,
     [AnyStart EXCEPT !.screen = "EVENT", !.neow = TRUE],
     [AnyStart EXCEPT !.screen = "MAP", !.node = TRUE, !.first = TRUE],
     [AnyStart EXCEPT !.allowed = {"MAP", "COMBAT"}, !.node = TRUE, !.first = TRUE],
     [AnyStart EXCEPT !.allowed = {"EVENT"}, !.reward = TRUE]}

NoLog == [test |-> 0, says |-> "none", steps |-> 0]     \* none, or one cut off

FcInit ==
    /\ frame = [screen |-> "MAP", hand |-> 0, offers |-> TRUE]
    /\ case = [number |-> 0, at |-> "idle", setup |-> 0, tested |-> 0, final |-> "none",
               start |-> AnyStart, page |-> "none", moves |-> PageMoves]
    /\ trace = [entries |-> 0, before |-> Nothing, hook |-> "previous"]
    /\ look = NoLook
    /\ disk = [log |-> NoLog, steps |-> [i \in 1 .. 2 |-> 0]]
    /\ outcome = [verdict |-> "none", told |-> FALSE, handlers |-> 0]

At(step) == case.at = step
Goto(step) == case' = [case EXCEPT !.at = step]
Logs(verdict) == outcome' = [outcome EXCEPT !.verdict = verdict]
(* The text of a failure may be empty: an exception, or an assertion,      *)
(* without a message.                                                      *)
TestFails == \E told \in BOOLEAN : outcome' = [outcome EXCEPT !.verdict = "fail", !.told = told]
ReadFrame == {frame, Unknown}      \* _get_state_or_unknown: an error reads as UNKNOWN

-----------------------------------------------------------------------------
(* A new builder: at most one setup action, at most one tested action; a   *)
(* test without actions passes at once.                                    *)
Define ==
    /\ case.at \in {"idle", "returned", "raised"} /\ case.number < Tests
    /\ \E setup \in 0 .. 1, final \in {"none", "other", "choose_event", "end_turn"}, start \in Requirements :
          LET tested == IF final = "none" THEN 0 ELSE 1
          IN  /\ case' = [number |-> case.number + 1, setup |-> setup, tested |-> tested, final |-> final,
                          at |-> IF setup + tested = 0 THEN "log"
                                 ELSE IF start = AnyStart THEN "run" ELSE "start",
                          start |-> start, page |-> "none", moves |-> PageMoves]
              /\ outcome' = [verdict |-> IF setup + tested = 0 THEN "pass" ELSE "none", told |-> FALSE, handlers |-> 0]
              /\ trace' = [entries |-> 0, before |-> Nothing,
                           hook |-> IF setup + tested > 0 /\ start = AnyStart THEN "record" ELSE "previous"]
    /\ UNCHANGED <<frame, look, disk>>

(* _check_start_state: the page, then the actions; any error fails the     *)
(* test like an error of an action does.                                   *)
Breaks ==
    /\ case' = [case EXCEPT !.at = "log in except", !.setup = 0, !.tested = 0,
                         !.start = AnyStart, !.page = "none"]
    /\ TestFails
StartPage ==
    /\ At("start") /\ UNCHANGED <<frame, trace, look, disk>>
    /\ \/ case' = [case EXCEPT !.at = "offers", !.page = frame.screen] /\ UNCHANGED outcome
       \/ Breaks

(* The exemptions of a run that is already past the page the text names.   *)
PastFirstBattle(page, start) ==
    /\ start.first
    /\ start.screen = "MAP" \/ {"MAP", "COMBAT"} \subseteq start.allowed
    /\ page \in {"CARD_REWARD", "EVENT"}
PastNeow(page, start) ==
    start.screen = "EVENT" /\ start.neow /\ page \in {"MAP", "COMBAT", "CARD_REWARD"}
StartMet(page, start, offers) ==
    /\ start.allowed # {} => \/ page \in start.allowed
                             \/ page = "CARD_REWARD" /\ start.reward
                             \/ PastFirstBattle(page, start)
    /\ start.allowed = {} /\ start.screen # "none" =>
           page = start.screen \/ PastNeow(page, start) \/ PastFirstBattle(page, start)
    /\ start.node => \/ page \in {"COMBAT", "CARD_REWARD"}
                     \/ page = "EVENT" /\ PastFirstBattle(page, start)
                     \/ offers
StartOffers ==
    /\ At("offers") /\ UNCHANGED <<frame, look, disk>>
    /\ \/ /\ StartMet(case.page, case.start, frame.screen = "MAP" /\ frame.offers)
          /\ case' = [case EXCEPT !.at = "run", !.start = AnyStart, !.page = "none"] /\ trace' = [trace EXCEPT !.hook = "record"] /\ UNCHANGED outcome
       \/ /\ ~StartMet(case.page, case.start, frame.screen = "MAP" /\ frame.offers)
          /\ case' = [case EXCEPT !.at = "log in try", !.start = AnyStart, !.page = "none"] /\ UNCHANGED trace
          /\ outcome' = [outcome EXCEPT !.verdict = "fail", !.told = TRUE]
       \/ Breaks /\ UNCHANGED trace

-----------------------------------------------------------------------------
(* The pages an action may lead to, or the game by itself (external).      *)
Pages ==
    LET page(s, h, o) == [screen |-> s, hand |-> h, offers |-> o]
    IN  {Unknown, page("MAP", 0, FALSE)}
            \union {page("COMBAT", h, TRUE) : h \in 0 .. 2}
            \union {page(s, 0, TRUE) : s \in {"MAP", "EVENT", "CARD_REWARD", "GAME_OVER"}}

(* execute_action_sequence for the setup, then for the tested action: the  *)
(* snapshot before the latter is its own pre-state.  The hook records most *)
(* actions once, nav_to_screen not at all, choose_neow_blessing each event *)
(* it answers (here one at most); an action that reaches another page than *)
(* it should, or fails after such an event, is recorded and raises.        *)
HandOf(page) == IF page.screen = "COMBAT" THEN page ELSE Nothing     \* what is compared of it
Act ==
    /\ At("run") /\ case.setup + case.tested > 0 /\ UNCHANGED <<look, disk>>
    /\ frame' \in Pages
    /\ \E recorded \in 0 .. 1 :
          trace' = [trace EXCEPT !.entries = @ + recorded, !.before = IF case.setup = 0 THEN HandOf(frame) ELSE @]
    /\ \/ /\ case' = IF case.setup > 0 THEN [case EXCEPT !.setup = @ - 1] ELSE [case EXCEPT !.tested = @ - 1]
          /\ UNCHANGED outcome
       \/ Breaks

(* The hook is put back before the page is looked at.                      *)
Acted ==
    /\ At("run") /\ case.setup + case.tested = 0 /\ Goto("settle")
    /\ trace' = [trace EXCEPT !.hook = "previous"] /\ UNCHANGED <<frame, look, disk, outcome>>

-----------------------------------------------------------------------------
(* _needs_settle, _is_end_turn_draw_incomplete.                            *)
NeedsSettle(page) ==
    \/ page.screen = "UNKNOWN"
    \/ /\ page.screen # "GAME_OVER"
       /\ \/ case.final = "end_turn" /\ trace.before.screen = "COMBAT" /\ page.screen = "COMBAT"
                /\ page.hand < trace.before.hand
          \/ page.screen = "COMBAT" /\ page.hand = 0
          \/ ~page.offers
Stable == case.final \in {"choose_event", "end_turn"}     \* _STABLE_TRANSITION_ACTIONS
Sees(page) == [look EXCEPT !.same = (page = look.read), !.read = page]

(* _settle_and_get_state: the first read decides whether a repeat is asked.*)
FirstLook ==
    /\ At("settle") /\ UNCHANGED <<frame, trace, disk, outcome>>
    /\ \E page \in ReadFrame, timeout \in BOOLEAN :
          LET repeat == Stable /\ page.screen # "UNKNOWN"
          IN  IF ~timeout \/ (~NeedsSettle(page) /\ ~repeat)
              THEN Goto("judge") /\ look' = [Sees(page) EXCEPT !.late = ~timeout]
              ELSE /\ Goto("poll")
                   /\ look' = [Sees(page) EXCEPT !.repeat = page.screen # "UNKNOWN",
                                   !.last = IF repeat /\ ~NeedsSettle(page) THEN page ELSE Nothing]

(* Mutant: a transitional frame does not reset the last settled signature. *)
PollForgiving ==
    /\ At("poll") /\ look.polls < Polls /\ UNCHANGED <<frame, trace, disk, outcome>>
    /\ \E page \in ReadFrame :
          /\ look' = [Sees(page) EXCEPT !.polls = @ + 1, !.last = IF NeedsSettle(page) THEN @ ELSE page]
          /\ Goto(IF ~NeedsSettle(page) /\ (look.repeat => page = look.last) THEN "judge" ELSE "poll")

Poll ==
    /\ At("poll") /\ look.polls < Polls /\ UNCHANGED <<frame, trace, disk, outcome>>
    /\ \E page \in ReadFrame :
          /\ look' = [Sees(page) EXCEPT !.polls = @ + 1, !.last = IF NeedsSettle(page) THEN Nothing ELSE page]
          /\ Goto(IF ~NeedsSettle(page) /\ (look.repeat => page = look.last) THEN "judge" ELSE "poll")

(* The deadline: the last read is judged as it is.                         *)
Deadline ==
    /\ At("poll") /\ Goto("judge") /\ look' = [look EXCEPT !.late = TRUE]
    /\ UNCHANGED <<frame, trace, disk, outcome>>

(* The assertions; one that raises ends the test without trace or handler. *)
Judge ==
    /\ At("judge") /\ look' = NoLook /\ trace' = [trace EXCEPT !.before = Nothing] /\ UNCHANGED <<frame, disk>>
    /\ \/ Goto("log") /\ (Logs("pass") \/ TestFails)
       \/ Goto("raised") /\ Logs("raised")

-----------------------------------------------------------------------------
(* _write_trace_files: the step files one after the other, then case.log,  *)
(* which tells a failure by its text, and a pass only when there is no     *)
(* step.  Files of an earlier test with more steps stay.                   *)
Logging == case.at \in {"log", "log in try", "log in except"}
Written(count) == [disk EXCEPT !.steps = [i \in 1 .. 2 |-> IF i <= count THEN case.number ELSE @[i]]]
Says == IF outcome.told THEN "failed" ELSE IF trace.entries = 0 THEN "passed" ELSE "nothing"
WriteTrace ==
    /\ Logging /\ UNCHANGED <<frame, trace, look, outcome>>
    /\ disk' = [Written(trace.entries) EXCEPT
                    !.log = [test |-> case.number, says |-> Says, steps |-> trace.entries]]
    /\ Goto(IF outcome.verdict = "fail" THEN "handlers" ELSE "returned")

(* An error inside the try block is caught once, and the trace written     *)
(* again; everywhere else it leaves assert_that, the hook put back.        *)
WriteFails ==
    /\ Logging /\ UNCHANGED <<frame, look>>
    /\ \/ \E count \in 0 .. trace.entries : disk' = Written(count)
       \/ disk' = [Written(trace.entries) EXCEPT !.log = NoLog]
    /\ IF At("log in try")
       THEN Goto("log in except") /\ TestFails /\ UNCHANGED trace
       ELSE Goto("raised") /\ Logs("raised") /\ trace' = [trace EXCEPT !.hook = "previous"]

(* _run_handlers: every handler once, its errors swallowed.                *)
RunHandlers ==
    /\ At("handlers") /\ Goto("returned") /\ UNCHANGED <<frame, look, disk>>
    /\ outcome' = [outcome EXCEPT !.handlers = @ + 1] /\ trace' = [trace EXCEPT !.hook = "previous"]

(* KeyboardInterrupt and SystemExit pass through.                          *)
Interrupted ==
    /\ case.at \in {"start", "offers", "run", "settle", "poll"} /\ Goto("raised") /\ Logs("raised")
    /\ trace' = [trace EXCEPT !.hook = "previous", !.before = Nothing] /\ look' = NoLook /\ UNCHANGED <<frame, disk>>

GameMoves ==
    /\ case.at \in {"start", "offers", "settle", "poll"} /\ case.moves > 0
    /\ frame' \in Pages \ {frame}
    /\ case' = [case EXCEPT !.moves = @ - 1] /\ UNCHANGED <<trace, look, disk, outcome>>

FcNext ==
    \/ Define \/ StartPage \/ StartOffers \/ Act \/ Acted \/ FirstLook \/ Poll \/ Deadline \/ Judge
    \/ WriteTrace \/ WriteFails \/ RunHandlers \/ Interrupted \/ GameMoves

-----------------------------------------------------------------------------
(* The page the assertions judge is not a transition frame unless the time *)
(* to settle was over; and it was read twice in a row when the first read  *)
(* was a page in transition, or any page after an action of                *)
(* _STABLE_TRANSITION_ACTIONS (_settle_and_get_state).  After a first read *)
(* that failed, and after other actions, one settled read is enough.       *)
JudgesASettledPage ==
    At("judge") /\ ~look.late =>
        /\ ~NeedsSettle(look.read)
        /\ look.repeat => look.same

(* A test that returns has left its own case.log, with as many steps as    *)
(* were recorded, each in a file of this test; the log says that it failed *)
(* exactly when it did with a message; the handlers ran once for a failure *)
(* and never for a pass (assert_that).  A failure without a message reads  *)
(* in the log like a pass, and step files of an earlier test may follow    *)
(* those of this one (_write_trace_files).                                 *)
TraceTellsTheVerdict ==
    At("returned") =>
        /\ disk.log.test = case.number /\ disk.log.steps = trace.entries
        /\ disk.log.says = "failed" <=> outcome.verdict = "fail" /\ outcome.told
        /\ \A i \in 1 .. trace.entries : disk.steps[i] = case.number
        /\ outcome.handlers = IF outcome.verdict = "fail" THEN 1 ELSE 0

(* The orchestrator has its own hook back on every way out.                *)
HookGivenBack == case.at \in {"returned", "raised", "settle", "poll", "judge"} => trace.hook = "previous"

CaseIsHonest == JudgesASettledPage /\ TraceTellsTheVerdict /\ HookGivenBack
=============================================================================
