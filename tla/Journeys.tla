------------------------------ MODULE Journeys ------------------------------
(***************************************************************************)
(* core/journeys.py (GenericJourneys) and progress_until of                *)
(* core/navigation.py: a journey is a list of stages (put the menu in      *)
(* order, embark, advance to a page...), each of which reads the game,     *)
(* plays an action and reads again.  The game moves by itself between two  *)
(* reads, a read may raise, an action may be refused, and the request to   *)
(* cancel arrives at any moment.                                           *)
(***************************************************************************)
EXTENDS Navigation, Integers

CONSTANTS
    Frames,      \* the frames the game may show
    Modes,       \* the combat modes asked for: "traversal", "basic", "death"
    Goals,       \* the journeys asked for
    DebugActions,\* the adapter's supports_debug_actions
    Deadline,    \* ticks until progress_until gives up
    Patience,    \* ticks without an observable change (no_progress_timeout)
    ResetSteps,  \* rounds of reset_to_main_menu (8 in the code)
    StartWaits   \* rounds start_new_run waits for a menu action (30)

ASSUME GoalsAssumption == "idle" \notin Goals

VARIABLES
    goal,        \* the journey that runs, "idle" before the call
    mode,        \* GenericJourneys.combat_mode
    todo,        \* the stages left, the first one is running
    at,          \* the step of the running stage
    page,        \* the frame the stage decides on (_last_snapshot)
    left,        \* rounds left of the reset or of the wait for the menu
    call,        \* the action being executed and the caller it returns to
    nav,         \* the locals of progress_until
    saved,       \* the game holds a run that can be continued
    cancel,      \* cancel_requested, as the store would answer it
    late,        \* actions sent after the cancel request, outside the reset
    outcome      \* how the journey ended, and the reason code

vars == <<goal, mode, todo, at, page, left, call, nav, saved, cancel, late, outcome>>

-----------------------------------------------------------------------------
(* The stages.                                                             *)
Stage(do, to, when) == [do |-> do, to |-> to, when |-> when]
Do(do) == << Stage(do, "", "") >>
Nav(to, when) == << Stage("nav", to, when) >>

Embark == Do("start") \o Do("select") \o Do("character") \o Do("embark")
ToMenu == Do("reset") \o Do("checkpoint")

start_new_run(target) ==
    CASE target = "MAIN_MENU" -> ToMenu
      [] target = "CHARACTER_SELECT" -> ToMenu \o Do("start") \o Do("select")
      [] target = "EVENT" -> ToMenu \o Embark \o Nav("EVENT", "any")
      [] OTHER -> ToMenu \o Embark \o Nav(target, "stable")

resume_run == Do("peek") \o << Stage("try", "MAP", "stable") >>
              \o Do("reset") \o Do("continue") \o Nav("MAP", "stable")

death_test == start_new_run("COMBAT") \o Nav("GAME_OVER", "any")

card_test == Do("debug") \o start_new_run("COMBAT")
             \o Do("give") \o Do("find") \o Do("play")

next_act == start_new_run("MAP") \o Do("chapter")
            \o Nav("EVENT", "nextEvent") \o Nav("MAP", "nextMap")

StagesOf(g, m) ==
    CASE g = "resume_run" -> resume_run
      [] g = "first_battle" -> start_new_run("MAP") \o Nav("COMBAT", "any")
      [] g = "card_test" -> card_test
      [] g = "finish_interstitials" -> Nav("MAP", "stable")
      [] g = "NEXT_ACT" -> next_act
      [] g = "COMBAT" /\ m = "death" -> death_test
      [] g = "new_run" -> start_new_run("MAP")
      [] OTHER -> start_new_run(g)

Running == outcome.how = "none" /\ goal # "idle"
Now == Head(todo)
InNav == Now.do \in {"nav", "try"}
Resetting == todo # << >> /\ Now.do = "reset"

-----------------------------------------------------------------------------
(* The first step of a stage.                                              *)
FirstStep(stage) ==
    CASE stage.do \in {"nav", "try", "reset", "peek", "select", "character"} -> "read"
      [] stage.do \in {"continue", "embark", "start", "find", "chapter", "debug"} -> "think"
      [] stage.do \in {"give", "play"} -> "before"
      [] OTHER -> "check"

NoCall == [name |-> NoAct, from |-> "none", won |-> FALSE]
NoFrame == Page("", {}, {}, 0)
FreshNav == [clock |-> 0, cursor |-> 0, last |-> -1, picks |-> 0, won |-> FALSE,
             pseudo |-> FALSE, since |-> -1, stuck |-> 0, until |-> 0]
Rounds(stage) == IF stage.do = "reset" THEN ResetSteps
                 ELSE IF stage.do = "start" THEN StartWaits ELSE 0

Finish(how, why) ==
    /\ outcome' = [how |-> how, why |-> why]
    /\ todo' = << >> /\ at' = "done" /\ page' = NoFrame
    /\ left' = 0 /\ call' = NoCall /\ nav' = FreshNav

Enter(stages) ==
    /\ todo' = stages /\ at' = FirstStep(Head(stages)) /\ left' = Rounds(Head(stages))
    /\ call' = NoCall /\ nav' = FreshNav
    /\ UNCHANGED outcome

(* The stage is over: the next one, or the end of the journey.             *)
Proceed(f) ==
    IF Len(todo) = 1 THEN Finish("passed", "none")
    ELSE page' = f /\ Enter(Tail(todo))

(* JourneyFailure: caught only around the first navigation of resume_run.  *)
Blocked(why) ==
    IF Now.do = "try" THEN Proceed(NoFrame) ELSE Finish("failed", why)

Goto(step, f) == at' = step /\ page' = f /\ UNCHANGED <<todo, outcome>>
Stay == UNCHANGED <<left, nav>>

-----------------------------------------------------------------------------
(* What the game may show, and what an action does to it: external.        *)
InMenu(f) == f.screen \in {"MAIN_MENU", "CHARACTER_SELECT", "UNKNOWN", "GAME_OVER"}
Shows(f) ==
    /\ "save" \in f.has => saved
    /\ "nosave" \in f.has => ~saved
    /\ f.screen = "CHARACTER_SELECT" => ~saved
    /\ ~InMenu(f) => saved
Seen == {f \in Frames : Shows(f)}

SavedAfter(name) ==
    CASE name = "abandon_run" -> FALSE
      [] name \in {"return_to_menu", "return_to_main_menu"} -> saved /\ page.screen # "GAME_OVER"
      [] name = "embark" -> TRUE
      [] OTHER -> saved

(* Two equal frames may still differ in what the model leaves out.         *)
Differs(f, g) == IF f = g THEN BOOLEAN ELSE {TRUE}

-----------------------------------------------------------------------------
(* _execute_action: the cancel check, the action, the read after it.  The  *)
(* request may arrive between the check and the action.                    *)
Ask(name, from, f) ==
    /\ call' = [name |-> name, from |-> from, won |-> FALSE]
    /\ Goto("check", f)

(* Mutant: the action is not guarded by the cancel check.                  *)
PlayOnCancelled ==
    /\ Running /\ at = "check" /\ call.from # "none"
    /\ Goto("send", page) /\ UNCHANGED call /\ Stay
    /\ UNCHANGED <<goal, mode, saved, cancel, late>>

CheckCancel ==
    /\ Running /\ at = "check" /\ call.from # "none"
    /\ IF cancel /\ ~Resetting THEN Finish("cancelled", "none")
       ELSE Goto("send", page) /\ UNCHANGED call /\ Stay
    /\ UNCHANGED <<goal, mode, saved, cancel, late>>

Send ==
    /\ Running /\ at = "send"
    /\ \E won \in BOOLEAN :
          /\ call' = [call EXCEPT !.won = won]
          /\ saved' = IF won THEN SavedAfter(call.name) ELSE saved
    /\ late' = IF cancel /\ ~Resetting /\ late < 2 THEN late + 1 ELSE late
    /\ Goto("after", page) /\ Stay
    /\ UNCHANGED <<goal, mode, cancel>>

(* The read after an action; a navigator and a bare reset keep the frame   *)
(* they decided on, a confirmed action compares the two.                   *)
After ==
    /\ Running /\ at = "after"
    /\ \E f \in Seen :
          IF call.from = "confirm"
          THEN \E new \in Differs(f, page) :
                  IF ~call.won \/ ~new THEN Blocked("none")
                  ELSE Goto("confirmed", f) /\ UNCHANGED call /\ Stay
          ELSE Goto("answered", page) /\ UNCHANGED call /\ Stay
    /\ UNCHANGED <<goal, mode, saved, cancel, late>>

(* A read or an action raises: the game's interface (STS2Error), or an     *)
(* observer of the new frame.                                              *)
Raises ==
    /\ Running /\ at \in {"read", "before", "send", "after", "reread", "observe", "poll"}
    /\ \/ Finish("failed", "STS2Error")
       \/ Finish("crashed", "none")
    /\ UNCHANGED <<goal, mode, saved, cancel, late>>

(* _act_confirmed: the page is read again and must offer the action.       *)
Confirm(name, f) ==
    /\ call' = [name |-> name, from |-> "confirm", won |-> FALSE]
    /\ Goto("before", f)

NameOf == IF Now.do = "give" THEN "give_card"
          ELSE IF Now.do = "play" THEN "play_card" ELSE call.name

ReadBefore ==
    /\ Running /\ at = "before"
    /\ \E f \in Seen :
          IF NameOf \notin f.acts THEN Blocked("none")
          ELSE Ask(NameOf, "confirm", f) /\ Stay
    /\ UNCHANGED <<goal, mode, saved, cancel, late>>

(* Mutant: the rounds of the reset are not counted.                        *)
EndlessRound == left' = left /\ call' = NoCall /\ Goto("read", NoFrame) /\ UNCHANGED nav

NextRound ==
    IF left = 1 THEN Blocked("none")
    ELSE left' = left - 1 /\ call' = NoCall /\ Goto("read", NoFrame) /\ UNCHANGED nav

Confirmed ==
    /\ Running /\ at = "confirmed"
    /\ CASE Now.do = "reset" -> NextRound
         [] Now.do = "character" -> Goto("reread", NoFrame) /\ UNCHANGED call /\ Stay
         [] OTHER -> Proceed(page)
    /\ UNCHANGED <<goal, mode, saved, cancel, late>>

-----------------------------------------------------------------------------
(* reset_to_main_menu: whatever the page, back to a menu without a run.    *)
Dirty(f) == "save" \in f.has \/ ("nosave" \notin f.has /\ "continue_run" \in f.acts)

ResetEventAct(f) ==
    IF "options" \in f.has
    THEN IF "locked" \in f.has THEN NoAct ELSE FirstOffered(f, EventAdvance)
    ELSE FirstOffered(f, EventAdvance)

ResetAct(f) ==
    FirstOf(Offers(f, ReturnToMenu)
            \o Offers(f, <<"abandon_run", "confirm_modal", "close_main_menu_submenu">>)
            \o OnlyOn(f.screen = "CARD_REWARD", Offers(f, RewardProceed))
            \o << Rule(f.screen = "EVENT", ResetEventAct(f)) >>)

ForcedScreens == {"MAP", "COMBAT", "SHOP", "REST", "CHEST", "EVENT"}

(* No way out is offered: abandon_run is tried all the same.               *)
ForceBack(f) ==
    IF f.screen \in ForcedScreens THEN Ask("abandon_run", "bare", f)
    ELSE IF DebugActions THEN Ask("abandon_run", "debug", f) ELSE Blocked("none")

ResetRead ==
    /\ Running /\ at = "read" /\ Now.do = "reset"
    /\ \E f \in Seen :
          CASE f.screen = "MAIN_MENU" /\ Dirty(f) /\ "abandon_run" \in f.acts ->
                   Confirm("abandon_run", f) /\ Stay
            [] f.screen = "MAIN_MENU" /\ ~(Dirty(f) /\ "abandon_run" \in f.acts) ->
                   Proceed(f)
            [] f.screen # "MAIN_MENU" /\ ResetAct(f) # NoAct ->
                   Confirm(ResetAct(f), f) /\ Stay
            [] OTHER -> ForceBack(f) /\ (at' # "done" => Stay)
    /\ UNCHANGED <<goal, mode, saved, cancel, late>>

ResetForced ==
    /\ Running /\ at = "answered" /\ Now.do = "reset"
    /\ CASE call.won -> NextRound
         [] ~call.won /\ call.from = "bare" /\ DebugActions ->
                Ask("abandon_run", "debug", page) /\ Stay
         [] OTHER -> Blocked("none")
    /\ UNCHANGED <<goal, mode, saved, cancel, late>>

-----------------------------------------------------------------------------
(* The stages of start_new_run, resume_run, card_test and execute_target.  *)
StartActs == <<"start_new_run", "new_run", "open_character_select">>

Checkpoint ==
    /\ Running /\ at = "check" /\ Now.do = "checkpoint"
    /\ IF cancel THEN Finish("cancelled", "none") ELSE Proceed(page)
    /\ UNCHANGED <<goal, mode, saved, cancel, late>>

StartThink ==
    /\ Running /\ at = "think" /\ Now.do = "start"
    /\ LET name == FirstOffered(page, StartActs)
       IN  CASE name # NoAct -> Confirm(name, page) /\ Stay
             [] name = NoAct /\ left > 0 ->
                   \E f \in Seen : /\ Goto("think", f) /\ left' = left - 1
                                   /\ UNCHANGED <<call, nav>>
             [] OTHER -> Blocked("none")
    /\ UNCHANGED <<goal, mode, saved, cancel, late>>

SelectRead ==
    /\ Running /\ at = "read" /\ Now.do = "select"
    /\ \E f \in Seen :
          IF f.screen = "CHARACTER_SELECT" THEN Proceed(f) ELSE Blocked("none")
    /\ UNCHANGED <<goal, mode, saved, cancel, late>>

CharacterRead ==
    /\ Running /\ Now.do = "character"
    /\ \/ /\ at = "read"
          /\ \E f \in Seen : IF "picked" \in f.has THEN Proceed(f)
                             ELSE Confirm("select_character", f) /\ Stay
       \/ /\ at = "reread"
          /\ \E f \in Seen : Proceed(f)
    /\ UNCHANGED <<goal, mode, saved, cancel, late>>

(* When the page has left the character select, embark is skipped.         *)
EmbarkThink ==
    /\ Running /\ at = "think" /\ Now.do = "embark"
    /\ IF "embark" \in page.acts THEN Confirm("embark", page) /\ Stay ELSE Proceed(page)
    /\ UNCHANGED <<goal, mode, saved, cancel, late>>

Peek ==
    /\ Running /\ at = "read" /\ Now.do = "peek"
    /\ \E f \in Seen :
          CASE f.screen \in {"MAP", "COMBAT"} -> Finish("passed", "none")
            [] f.screen \in {"MAIN_MENU", "UNKNOWN"} ->
                   page' = NoFrame /\ Enter(Tail(Tail(todo)))
            [] OTHER -> Proceed(NoFrame)
    /\ UNCHANGED <<goal, mode, saved, cancel, late>>

ContinueThink ==
    /\ Running /\ at = "think" /\ Now.do = "continue"
    /\ IF "continue_run" \in page.acts THEN Confirm("continue_run", page) /\ Stay
       ELSE Blocked("none")
    /\ UNCHANGED <<goal, mode, saved, cancel, late>>

ChapterThink ==
    /\ Running /\ at = "think" /\ Now.do = "chapter"
    /\ IF "unnumbered" \in page.has THEN Blocked("none") ELSE Proceed(page)
    /\ UNCHANGED <<goal, mode, saved, cancel, late>>

DebugThink ==
    /\ Running /\ at = "think" /\ Now.do = "debug"
    /\ IF DebugActions THEN mode' = "basic" /\ Proceed(page)
       ELSE Blocked("DEBUG_ACTIONS_UNAVAILABLE") /\ UNCHANGED mode
    /\ UNCHANGED <<goal, saved, cancel, late>>

FindThink ==
    /\ Running /\ at = "think" /\ Now.do = "find"
    /\ CASE "given" \notin page.has -> Blocked("NO_PROGRESS")
         [] "given" \in page.has /\ "aimless" \in page.has -> Blocked("TARGET_UNREACHABLE")
         [] OTHER -> Proceed(page)
    /\ UNCHANGED <<goal, mode, saved, cancel, late>>

-----------------------------------------------------------------------------
(* progress_until: read, decide, act, look for a change, until the target. *)
Leftovers == {"choose_event", "choose_event_option", "advance_dialogue",
              "collect_rewards_and_proceed", "claim_reward", "proceed"}
Met(f, when) ==
    CASE when = "any" -> TRUE
      [] when = "stable" -> MapIsStable(f)
      [] when = "nextEvent" -> {"later", "active"} \subseteq f.has
      [] when = "nextMap" -> /\ "later" \in f.has /\ MapIsStable(f)
                             /\ f.has \cap {"active", "reward"} = {}
                             /\ f.acts \cap Leftovers = {}
Arrived(f) ==
    /\ f.screen = Now.to /\ Met(f, Now.when)
    /\ Now.to = "COMBAT" => RealCombat(f)
Arrive(f) == IF Now.do = "try" THEN Finish("passed", "none") ELSE Proceed(f)

TerminalReason == [GAME_OVER |-> "COMBAT_FAILED", VICTORY |-> "RUN_COMPLETED",
                   CRASHED |-> "GAME_CRASHED"]
Terminal(f) == f.screen \in DOMAIN TerminalReason /\ f.screen # Now.to

(* Mutant: the cursor starts over at every read.                           *)
TrackedFromScratch(f) == [nav EXCEPT !.clock = @ + 1, !.cursor = 0]

(* Off the card page the cursor and the record of the picks start over.    *)
Tracked(f) ==
    LET n == [nav EXCEPT !.clock = @ + 1,
                         !.pseudo = @ \/ (f.screen = "COMBAT" /\ ~RealCombat(f))]
    IN  IF f.screen = "CARD_REWARD" THEN n
        ELSE [n EXCEPT !.cursor = 0, !.last = -1, !.picks = 0]

Wait(n) == /\ Goto("read", NoFrame) /\ nav' = n
           /\ call' = NoCall /\ UNCHANGED left

(* No action applies: unreachable, stuck, unknown, or only not ready yet.  *)
NothingToDo(f, n) ==
    CASE /\ f.screen = "MAP" /\ Now.to # "MAP"
         /\ "moving" \notin f.has /\ "choose_map_node" \notin f.acts ->
             Blocked("TARGET_UNREACHABLE")
      [] f.screen = "CARD_REWARD" /\ n.picks > 0 /\ n.won -> Blocked("NO_PROGRESS")
      [] f.screen = "UNKNOWN" /\ nav.since = -1 ->
             \E back \in BOOLEAN :
                Wait(IF back THEN n ELSE [n EXCEPT !.since = nav.clock])
      [] f.screen = "UNKNOWN" /\ nav.since # -1 /\ nav.clock - nav.since >= Patience ->
             Blocked("UNKNOWN_SCREEN_STUCK")
      [] OTHER -> Wait(n)

NavRead ==
    /\ Running /\ at = "read" /\ InNav /\ nav.clock < Deadline
    /\ \E f \in Seen :
          LET n == Tracked(f)
              name == choose_progress_action(f, Now.to, n.cursor, mode)
          IN  CASE Terminal(f) -> Blocked(TerminalReason[f.screen])
                [] ~Terminal(f) /\ Arrived(f) -> Arrive(f)
                [] ~Arrived(f) /\ ActionSurfaceIncomplete(f) ->
                       Blocked("ACTION_SURFACE_INCOMPLETE")
                [] name # NoAct /\ ~Terminal(f) /\ ~Arrived(f) ->
                       /\ Ask(name, "nav", f)
                       /\ nav' = [n EXCEPT !.since = -1] /\ UNCHANGED left
                [] OTHER -> NothingToDo(f, n)
    /\ UNCHANGED <<goal, mode, saved, cancel, late>>

(* A page that cannot be skipped is answered with its first card.          *)
Fallback == [grid_select_skip |-> "grid_select_card", tri_select_skip |-> "tri_select_card"]

NavAnswered ==
    /\ Running /\ at = "answered" /\ InNav
    /\ LET picked == IF call.name = "select_deck_card" THEN 1 ELSE 0
       IN  CASE call.won ->
                    /\ nav' = [nav EXCEPT !.won = TRUE, !.cursor = @ + picked,
                                          !.picks = @ + picked]
                    /\ Goto("observe", page) /\ UNCHANGED <<call, left>>
             [] ~call.won /\ call.name \in DOMAIN Fallback /\ page.cards > 0 ->
                    Ask(Fallback[call.name], "nav", page) /\ Stay
             [] OTHER -> Blocked("ACTION_FAILED")
    /\ UNCHANGED <<goal, mode, saved, cancel, late>>

Asked == CardIndex(page, nav.cursor - 1)
FreshPick == call.name = "select_deck_card" /\ Asked # nav.last

(* Two rounds on the card page without leaving it end the navigation.      *)
Conclude(f) ==
    LET same == f.screen = "CARD_REWARD" /\ page.screen = "CARD_REWARD"
        n == [nav EXCEPT !.stuck = IF same /\ ~FreshPick THEN @ + 1 ELSE 0,
                         !.last = IF same /\ call.name = "select_deck_card"
                                  THEN Asked ELSE @]
    IN  CASE n.stuck >= 2 -> Blocked("NO_PROGRESS")
          [] n.stuck < 2 /\ Arrived(f) -> Arrive(f)
          [] OTHER -> Wait([n EXCEPT !.until = 0])

Observe ==
    /\ Running /\ at = "observe"
    /\ \E f \in Seen : \E new \in Differs(f, page) :
          IF new \/ FreshPick THEN Conclude(f)
          ELSE /\ Goto("poll", page) /\ UNCHANGED <<call, left>>
               /\ nav' = [nav EXCEPT !.until = Min({nav.clock + Patience, Deadline})]
    /\ UNCHANGED <<goal, mode, saved, cancel, late>>

Poll ==
    /\ Running /\ at = "poll" /\ nav.clock < nav.until
    /\ \E f \in Seen : \E new \in Differs(f, page) :
          IF new THEN Conclude(f)
          ELSE /\ nav' = [nav EXCEPT !.clock = @ + 1]
               /\ UNCHANGED <<todo, at, page, left, call, outcome>>
    /\ UNCHANGED <<goal, mode, saved, cancel, late>>

(* The last resort: reconnect once and look again.                         *)
PollOver ==
    /\ Running /\ at = "poll" /\ nav.clock = nav.until
    /\ \E back \in BOOLEAN : \E f \in Seen : \E new \in Differs(f, page) :
          IF back /\ new THEN Conclude(f) ELSE Blocked("NO_PROGRESS")
    /\ UNCHANGED <<goal, mode, saved, cancel, late>>

NavTimeout ==
    /\ Running /\ at = "read" /\ InNav /\ nav.clock = Deadline
    /\ Blocked(IF Now.to = "COMBAT" /\ nav.pseudo THEN "TRANSITION" ELSE "TIMEOUT")
    /\ UNCHANGED <<goal, mode, saved, cancel, late>>

-----------------------------------------------------------------------------
Init ==
    /\ goal = "idle" /\ mode = "traversal" /\ todo = << >> /\ at = "done"
    /\ page = NoFrame /\ left = 0 /\ call = NoCall /\ nav = FreshNav
    /\ saved = FALSE /\ cancel = FALSE /\ late = 0
    /\ outcome = [how |-> "none", why |-> "none"]

Begin ==
    /\ goal = "idle"
    /\ goal' \in Goals /\ mode' \in Modes /\ saved' \in BOOLEAN
    /\ page' = NoFrame /\ Enter(StagesOf(goal', mode'))
    /\ UNCHANGED <<cancel, late>>

RequestCancel ==
    /\ Running /\ ~cancel /\ cancel' = TRUE
    /\ UNCHANGED <<goal, mode, todo, at, page, left, call, nav, saved, late, outcome>>

-----------------------------------------------------------------------------
(* After the cancel request a journey plays at most the one action that    *)
(* had passed its check already (_raise_if_cancelled before every action,  *)
(* the fallback of a refused skip included).                               *)
CancelStopsPlay == late <= 1

(* On a page of cards the navigator never takes the card it took last,     *)
(* which would put it back: the cursor is the only record of the picks,    *)
(* the game's own count is always zero.                                    *)
NoCardTwice ==
    /\ at = "send" /\ InNav /\ call.name = "select_deck_card"
    /\ page.screen = "CARD_REWARD" /\ page.cards > 0
    => CardIndex(page, nav.cursor) # nav.last

(* A fight goes as the journey asks: a death test only ends turns, a card  *)
(* test never ends the fight before the card is played.                    *)
FightsAsAsked ==
    at = "send" /\ page.screen = "COMBAT" =>
        /\ goal = "COMBAT" /\ mode = "death" /\ InNav => call.name = "end_turn"
        /\ goal = "card_test" => call.name # "win_combat"

(* Every journey ends, however the game answers: each loop has a bound.    *)
JourneyEnds == goal # "idle" ~> outcome.how # "none"

(* resume_run continues the saved run ("从主菜单恢复已有局"), so it never   *)
(* gives a run up.                                                         *)
ResumeKeepsRun == goal = "resume_run" /\ at = "send" => call.name # "abandon_run"
=============================================================================
