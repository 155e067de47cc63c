----------------------------- MODULE ActionPath -----------------------------
(***************************************************************************)
(* The only path by which a case acts on the game: execute_action_sequence *)
(* and execute_action of core/orchestrator.py, the transition check of     *)
(* core/state_engine.py, and the AgentAdapter (adapters/agent.py) that     *)
(* turns an action into HTTP requests.  A request may be refused, may time *)
(* out or return garbage before or after the game obeyed it; the game may  *)
(* leave a screen by itself between two requests.                          *)
(***************************************************************************)
EXTENDS Naturals, Sequences, FiniteSets

CONSTANTS
    Scripts,   \* the action sequences a case may hand over
    DebugActions, \* the adapter was built with debug_actions
    Resets,       \* attempts of _auto_reset_to_main_menu
    Follow,       \* steps of _finish_interstitials
    Moves         \* pages the game changes by itself

VARIABLES
    game,   \* screen, a saved run on the menu, a modal, moves of its own
    todo,   \* the entries still to run
    at,     \* where the sequence is
    entry,  \* the running entry: name, effects on the game, no-op, status, whether
            \* the game obeyed a request that was not answered by success, and
            \* whether the page is another than the one read before the action
    seen,   \* _current_screen and _last_valid_state
    spent,  \* attempts of the running loop
    audit   \* what happened to the entries: hollow, twice, fake

apVars == <<game, todo, at, entry, seen, spent, audit>>

Entry(name) ==
    [name |-> name, effects |-> 0, noop |-> FALSE, status |-> "none", lost |-> FALSE, drift |-> FALSE]
Screens ==
    {"MAIN_MENU", "CHARACTER_SELECT", "EVENT", "MAP", "COMBAT", "CARD_REWARD", "GAME_OVER", "UNKNOWN"}
InRun == {"EVENT", "MAP", "COMBAT", "CARD_REWARD"}

(* The targets a script gives to nav_to_screen, by the name of its entry.  *)
NavTarget == [nav_to_map |-> "MAP", nav_to_combat |-> "COMBAT"]

(* GameScreen.allowed_transitions, for the screens of this model; a page   *)
(* that has no name is accepted behind every other, and leads nowhere.     *)
Allowed(from) ==
    CASE from = "MAIN_MENU" -> {"CHARACTER_SELECT"}
      [] from = "CHARACTER_SELECT" -> {"EVENT", "MAP"}
      [] from = "MAP" -> {"COMBAT", "EVENT", "GAME_OVER"}
      [] from = "COMBAT" -> {"MAP", "GAME_OVER", "CARD_REWARD"}
      [] from = "EVENT" -> {"MAP", "COMBAT", "CARD_REWARD"}
      [] from = "CARD_REWARD" -> {"MAP", "COMBAT"}
      [] OTHER -> {}
update_state(current, new) == new \in {current, "UNKNOWN"} \union Allowed(current)

(* What the agent itself offers, and obeys.                                *)
Offered ==
    CASE game.modal -> {"confirm_modal"}
      [] game.screen = "MAIN_MENU" ->
            IF game.saved THEN {"continue_run", "abandon_run"} ELSE {"open_character_select"}
      [] game.screen = "CHARACTER_SELECT" -> {"select_character", "embark"}
      [] game.screen = "EVENT" -> {"choose_event_option"}
      [] game.screen = "MAP" -> {"choose_map_node", "abandon_run"}
      [] game.screen = "COMBAT" -> {"end_turn", "abandon_run"}
      [] game.screen = "CARD_REWARD" -> {"collect_rewards_and_proceed"}
      [] game.screen = "GAME_OVER" -> {"return_to_main_menu"}
      [] OTHER -> {"proceed"}

(* get_available_actions: the agent's names and the ones the adapter adds; *)
(* the screen is a second request, and unknown when that one fails.        *)
get_available_actions(screen) ==
    Offered
        \union (IF Offered \cap {"open_character_select", "abandon_run"} # {}
                THEN {"start_new_run"} ELSE {})
        \union (IF "choose_event_option" \in Offered THEN {"choose_event"} ELSE {})
        \union (IF DebugActions THEN {"give_card"} ELSE {})
        \union (IF screen \in {"MAIN_MENU", "GAME_OVER"} THEN {"return_to_menu"} ELSE {})
        \union (IF screen \in {"COMBAT", "CARD_REWARD"} THEN {"enter_combat"} ELSE {})

(* The screens a request the game obeys may lead to (external).            *)
Obeys(name) ==
    LET to(screens) == {[game EXCEPT !.screen = s] : s \in screens}
    IN CASE name = "open_character_select" -> to({"CHARACTER_SELECT"})
         [] name = "abandon_run" ->
               IF game.screen = "MAIN_MENU"
               THEN {[game EXCEPT !.saved = FALSE], [game EXCEPT !.modal = TRUE]}
               ELSE {[game EXCEPT !.screen = "MAIN_MENU", !.saved = FALSE]}
         [] name = "confirm_modal" -> {[game EXCEPT !.saved = FALSE, !.modal = FALSE]}
         [] name = "embark" -> {[game EXCEPT !.screen = "EVENT", !.saved = TRUE]}
         [] name = "choose_event_option" -> to({"EVENT", "MAP", "COMBAT", "CARD_REWARD", "UNKNOWN"})
         [] name = "choose_map_node" -> to({"COMBAT", "EVENT", "UNKNOWN"})
         [] name = "end_turn" -> to({"COMBAT", "CARD_REWARD", "GAME_OVER"})
         [] name \in {"collect_rewards_and_proceed", "proceed"} -> to({"MAP"})
         [] name = "return_to_menu" -> to({"MAIN_MENU"})
         [] name = "die" -> {[game EXCEPT !.screen = "GAME_OVER", !.saved = FALSE]}
         [] OTHER -> {game}
Obeyed(name) ==
    name \in Offered \/ (name = "return_to_menu" /\ game.screen = "GAME_OVER")
        \/ (name = "die" /\ game.screen \in InRun) \/ (name = "give_card" /\ game.screen = "COMBAT")

ApInit ==
    /\ todo \in Scripts
    /\ game \in {[screen |-> s, saved |-> v, modal |-> FALSE, moves |-> Moves] :
                    s \in Screens, v \in BOOLEAN}
    /\ at = "next" /\ entry = Entry("none") /\ seen = [current |-> "MAIN_MENU", valid |-> "none"]
    /\ spent = 0 /\ audit = [hollow |-> FALSE, twice |-> FALSE, fake |-> FALSE]

Go(where) == at' = where
Fail == at' = "raised"
Same == UNCHANGED <<game, todo, entry, seen, spent, audit>>

-----------------------------------------------------------------------------
(* execute_action_sequence: the debug gate, then return_to_menu's recovery,*)
(* then the wait for the action to be offered; a navigation needs neither. *)
NextEntry ==
    /\ at = "next"
    /\ IF todo = << >> THEN Go("done") /\ UNCHANGED <<entry, todo>>
       ELSE /\ entry' = Entry(Head(todo)) /\ todo' = Tail(todo)
            /\ Go(IF Head(todo) = "give_card" /\ ~DebugActions THEN "raised"
                  ELSE IF Head(todo) \in DOMAIN NavTarget THEN "nav"
                  ELSE IF Head(todo) = "return_to_menu" THEN "probe" ELSE "await")
    /\ spent' = 0 /\ UNCHANGED <<game, seen, audit>>

Probe ==
    /\ at = "probe" /\ Same
    /\ \/ Fail
       \/ \E screen \in {game.screen, "unread"} :
             Go(IF "return_to_menu" \in get_available_actions(screen) THEN "await" ELSE "reset")

(* _auto_reset_to_main_menu: a clean menu ends it; a saved run, a map or a *)
(* fight is abandoned, other pages are left by their own action; a failed  *)
(* read, a page it cannot leave, or the last attempt fall to the restart.  *)
ResetAction ==
    CASE game.screen \in {"MAIN_MENU", "MAP", "COMBAT"} ->
            IF DebugActions /\ game.screen # "MAIN_MENU" THEN "die" ELSE "abandon_run"
      [] game.screen = "GAME_OVER" -> "return_to_menu"
      [] game.screen = "CHARACTER_SELECT" -> "embark"
      [] game.screen = "EVENT" -> "choose_event_option"
      [] OTHER -> "collect_rewards_and_proceed"
AutoReset ==
    /\ at = "reset" /\ UNCHANGED <<todo, entry, seen, audit>>
    /\ \/ spent < Resets /\ game.screen = "MAIN_MENU" /\ ~game.saved /\ Go("check")
          /\ UNCHANGED <<game, spent>>
       \/ /\ spent < Resets /\ game.screen # "UNKNOWN" /\ (game.screen # "MAIN_MENU" \/ game.saved)
          /\ spent' = spent + 1
          /\ game' \in {game} \union (IF Obeyed(ResetAction) THEN Obeys(ResetAction) ELSE {})
          /\ Go(IF game.screen \in {"MAP", "COMBAT"} /\ game'.screen # "MAIN_MENU"
                THEN "restart" ELSE "reset")
       \/ Go("restart") /\ UNCHANGED <<game, spent>>

(* Phase 2: nothing when the menu is read, a restart otherwise, which may  *)
(* fail silently; a restarted game shows the saved run.                    *)
HardReset ==
    /\ at = "restart" /\ Go("check") /\ UNCHANGED <<todo, entry, seen, spent, audit>>
    /\ game' \in {game, [game EXCEPT !.screen = "MAIN_MENU", !.modal = FALSE]}

(* The recovery counts only when a fresh read says MAIN_MENU.              *)
CheckMenu ==
    /\ at = "check" /\ Same
    /\ Fail \/ Go(IF game.screen = "MAIN_MENU" THEN "await" ELSE "raised")

(* wait_until_actionable of the adapter: what it adds itself does not make *)
(* the game ready.                                                         *)
Actionable(screen) ==
    get_available_actions(screen) \ {"give_card", "return_to_menu", "enter_combat"} # {}
Await ==
    /\ at = "await" /\ Same
    /\ Fail \/ \E screen \in {game.screen, "unread"} :
                  /\ Actionable(screen) /\ entry.name \in get_available_actions(screen)
                  /\ Go("pre")

-----------------------------------------------------------------------------
(* _get_state_validated: a fight whose hand stays empty is answered with   *)
(* the last valid state, when there is one.                                *)
Validated ==
    {[current |-> game.screen, valid |-> game.screen]}
        \union (IF game.screen # "COMBAT" THEN {}
                ELSE {[seen EXCEPT !.current = IF seen.valid = "none" THEN "COMBAT" ELSE seen.valid]})

(* execute_action: the state before, the offer, the adapter's dispatch.    *)
PreRead ==
    /\ at = "pre" /\ UNCHANGED <<game, todo, spent, audit>>
    /\ \/ Fail /\ UNCHANGED <<seen, entry>>
       \/ /\ seen' \in Validated /\ Go("offer")
          /\ entry' = [entry EXCEPT !.drift = seen'.current # game.screen]
Offer ==
    /\ at = "offer" /\ Same
    /\ \/ Fail
       \/ \E screen \in {game.screen, "unread"} :
             Go(IF entry.name \in get_available_actions(screen) THEN "act" ELSE "raised")

(* AgentAdapter.act: some actions are answered by looking first.           *)
Answers(status) == entry' = [entry EXCEPT !.status = status] /\ Go("verdict")
NoOp(name) ==
    \/ name = "return_to_menu" /\ game.screen = "MAIN_MENU"
    \/ name = "enter_combat" /\ game.screen \in {"COMBAT", "CARD_REWARD"}
(* _resolve_agent_action_args: these look their option up in a fresh state *)
(* and nothing catches the error of that read.                             *)
ReadsArguments == {"select_character", "play_card"}
Act ==
    /\ at = "act" /\ UNCHANGED <<game, todo, seen, spent, audit>>
    /\ \/ entry.name \in ReadsArguments /\ Fail /\ UNCHANGED entry
       \/ /\ entry.name \in {"return_to_menu", "enter_combat", "choose_event"}
          /\ \E status \in {"timeout", "failure"} : Answers(status)
       \/ /\ NoOp(entry.name) /\ Go("verdict")
          /\ entry' = [entry EXCEPT !.noop = TRUE, !.status = "success"]
       \/ /\ ~NoOp(entry.name) /\ UNCHANGED entry
          /\ Go(IF entry.name = "start_new_run" THEN "start" ELSE "post")

(* The name that is posted.                                                *)
Posted ==
    CASE entry.name = "choose_event" -> "choose_event_option"
      [] entry.name = "abandon_run" /\ DebugActions /\ game.screen # "MAIN_MENU" -> "die"
      [] entry.name = "start_new_run" -> "open_character_select"
      [] OTHER -> entry.name

(* _request, _mcp_request and classify_action_error: the answer to a POST, *)
(* and whether the game obeyed.  A glitch is the failure that newer games  *)
(* report of a method they no longer have (_is_play_phase_glitch).         *)
Unanswered == {"timeout", "failure", "glitch"}
Reply(name) ==
    LET obeyed == IF Obeyed(name) THEN Obeys(name) ELSE {}
    IN  {[status |-> "success", game |-> g, effects |-> 1] : g \in obeyed}
            \union {[status |-> f, game |-> g, effects |-> 1] : f \in Unanswered, g \in obeyed}
            \union {[status |-> f, game |-> game, effects |-> 0] : f \in Unanswered}
Posts(reply) ==
    /\ game' = reply.game
    /\ entry' = [entry EXCEPT !.status = reply.status, !.effects = @ + reply.effects,
                              !.lost = @ \/ (reply.effects = 1 /\ reply.status # "success")]
    /\ audit' = [audit EXCEPT !.twice = @ \/ (entry.lost /\ reply.effects = 1)]

(* Mutant: a request that timed out is posted again.                       *)
PostResent ==
    /\ at = "post" /\ UNCHANGED <<todo, seen, spent>>
    /\ \E reply \in Reply(Posted) :
          entry.effects < 2 /\ Posts(reply) /\ Go(IF reply.status = "timeout" THEN "post" ELSE "verdict")

Post ==
    /\ at = "post" /\ UNCHANGED <<todo, seen, spent>>
    /\ \E reply \in Reply(Posted) :
          /\ Posts(reply)
          /\ Go(IF reply.status = "success" /\ entry.name \in {"choose_event", "collect_rewards_and_proceed"}
                THEN "follow" ELSE "verdict")

(* _start_new_run: abandon a saved run, confirm it, open character select; *)
(* when nothing of this applies, success.                                  *)
StartNewRun ==
    /\ at = "start" /\ UNCHANGED <<todo, seen>>
    /\ \/ (\E status \in {"timeout", "failure"} : Answers(status)) /\ UNCHANGED <<game, spent, audit>>
       \/ /\ {"continue_run", "abandon_run"} \subseteq Offered /\ spent = 0 /\ spent' = 1
          /\ \E reply \in Reply("abandon_run") :
                Posts(reply) /\ Go(IF reply.status = "success" THEN "start" ELSE "opened")
       \/ /\ "confirm_modal" \in Offered /\ spent = 1 /\ UNCHANGED spent
          /\ \E reply \in Reply("confirm_modal") :
                Posts(reply) /\ Go(IF reply.status = "success" THEN "start" ELSE "verdict")
       \/ /\ "open_character_select" \in Offered /\ Go("post") /\ UNCHANGED <<game, spent, entry, audit>>
       \/ /\ Offered \cap {"open_character_select", "confirm_modal"} = {}
          /\ spent = 1 \/ ~({"continue_run", "abandon_run"} \subseteq Offered)
          /\ Go("opened") /\ UNCHANGED <<game, spent, entry, audit>>
Opened ==
    /\ at = "opened" /\ Answers("success") /\ UNCHANGED <<game, todo, seen, spent>>
    /\ audit' = [audit EXCEPT !.fake = @ \/ game.screen # "CHARACTER_SELECT"]

(* _finish_interstitials: the pages behind an event or a reward, each by   *)
(* one more request, until a stable page or the last step.                 *)
FollowAction == IF game.screen = "EVENT" THEN "choose_event_option" ELSE "collect_rewards_and_proceed"
FinishInterstitials ==
    /\ at = "follow" /\ UNCHANGED <<todo, seen>>
    /\ \/ (\E status \in {"timeout", "failure"} : Answers(status)) /\ UNCHANGED <<game, spent, audit>>
       \/ spent = Follow /\ Answers("timeout") /\ UNCHANGED <<game, spent, audit>>
       \/ /\ spent < Follow /\ game.screen # "CARD_REWARD"   \* or an event with nothing to choose
          /\ Answers("success") /\ UNCHANGED <<game, spent, audit>>
       \/ /\ spent < Follow /\ game.screen \in {"EVENT", "CARD_REWARD"} /\ spent' = spent + 1
          /\ \E reply \in Reply(FollowAction) :
                Posts(reply) /\ Go(IF reply.status = "success" THEN "follow" ELSE "verdict")

-----------------------------------------------------------------------------
(* A timeout or a failure ends the sequence, a glitch is looked into.      *)
Hollow == entry.effects = 0 /\ ~entry.noop /\ entry.name # "start_new_run"
Verdict ==
    /\ at = "verdict" /\ UNCHANGED <<game, todo, entry, seen, spent>>
    /\ Go(CASE entry.status = "success" -> "reread" [] entry.status = "glitch" -> "doubt"
            [] OTHER -> "raised")
    /\ audit' = [audit EXCEPT !.hollow = @ \/ (entry.status = "success" /\ Hollow)]

(* The state after must be one the transition table allows, and the one    *)
(* the entry expects.                                                      *)
Onto == IF entry.name = "end_turn" /\ todo # << >> THEN "settle" ELSE "next"
Reread ==
    /\ at = "reread" /\ UNCHANGED <<game, todo, entry, spent, audit>>
    /\ \/ Fail /\ UNCHANGED seen
       \/ /\ seen' \in Validated
          /\ Go(IF update_state(seen.current, seen'.current) THEN Onto ELSE "raised")

(* _recover_from_known_action_false_negative: the glitch counts as done    *)
(* when another page is read than before the action, whoever changed it.   *)
FalseNegative ==
    /\ at = "doubt" /\ UNCHANGED <<game, todo, entry, spent>>
    /\ \/ Fail /\ UNCHANGED <<seen, audit>>
       \/ /\ seen' \in Validated
          /\ LET done == seen'.current # seen.current /\ update_state(seen.current, seen'.current)
             IN  /\ Go(IF done THEN Onto ELSE "raised")
                 /\ audit' = [audit EXCEPT
                        !.hollow = @ \/ (done /\ Hollow /\ ~entry.drift),
                        !.fake = @ \/ (done /\ entry.name = "start_new_run"
                                          /\ game.screen # "CHARACTER_SELECT")]

(* _wait_for_intermediate_settle: until two reads of the new turn agree, or*)
(* the time is up; it never fails.                                         *)
Settle == at = "settle" /\ Go("next") /\ Same

-----------------------------------------------------------------------------
(* nav_to_screen: progress_until acts on the game by the adapter until it  *)
(* reads the target or gives up (Navigation has the rules it acts by).     *)
NavStart ==
    /\ at = "nav" /\ UNCHANGED <<game, todo, entry, spent, audit>>
    /\ \/ Fail /\ UNCHANGED seen
       \/ seen' \in Validated /\ Go("navigate")
Navigate ==
    /\ at = "navigate" /\ UNCHANGED <<todo, entry, seen, spent, audit>>
    /\ \/ Fail /\ UNCHANGED game
       \/ game.screen = NavTarget[entry.name] /\ Go("reached") /\ UNCHANGED game
       \/ \E name \in Offered \ {"abandon_run", "continue_run"} : \E reply \in Reply(name) :
             game' = reply.game /\ UNCHANGED at
NavReached ==
    /\ at = "reached" /\ UNCHANGED <<game, todo, entry, spent, audit>>
    /\ \/ Fail /\ UNCHANGED seen
       \/ /\ seen' \in Validated
          /\ Go(IF update_state(seen.current, seen'.current)
                   /\ seen'.current = NavTarget[entry.name] THEN "next" ELSE "raised")

(* The game by itself: a page closes, the last enemy dies, the player dies.*)
GameMoves ==
    /\ at \notin {"done", "raised"} /\ game.moves > 0
    /\ \E s \in Screens :
          /\ <<game.screen, s>> \in {<<"EVENT", "MAP">>, <<"EVENT", "UNKNOWN">>, <<"UNKNOWN", "EVENT">>,
                <<"UNKNOWN", "MAP">>, <<"COMBAT", "CARD_REWARD">>, <<"COMBAT", "GAME_OVER">>,
                <<"CARD_REWARD", "MAP">>}
          /\ game' = [game EXCEPT !.screen = s, !.moves = @ - 1]
    /\ entry' = [entry EXCEPT !.drift = TRUE] /\ UNCHANGED <<todo, at, seen, spent, audit>>

ApNext ==
    \/ NextEntry \/ Probe \/ AutoReset \/ HardReset \/ CheckMenu \/ Await \/ PreRead \/ Offer
    \/ Act \/ Post \/ StartNewRun \/ Opened \/ FinishInterstitials \/ Verdict \/ Reread
    \/ FalseNegative \/ Settle \/ NavStart \/ Navigate \/ NavReached \/ GameMoves

-----------------------------------------------------------------------------
(* No action is reported done that the game did not obey: success is the   *)
(* agent's word that it did, or the adapter saw it to be needless; and the *)
(* failure of a method the game no longer has counts as done only when the *)
(* page changed, so the game obeyed or THE PAGE CHANGED BY ITSELF (drift): *)
(* in that case the code reports an action done that was never obeyed      *)
(* (orchestrator.py:1222-1233, 1411-1418).  Nothing more is posted for an  *)
(* entry once the game obeyed a request whose answer was lost, the requests*)
(* of _start_new_run and _finish_interstitials included.  And a sequence is*)
(* reported done only when its new run was really opened: _start_new_run   *)
(* may answer success for nothing, but then the next entry is never offered*)
(* (execute_action_sequence, execute_action, AgentAdapter.act).            *)
DoneMeansDone ==
    /\ ~audit.hollow /\ ~audit.twice
    /\ at = "done" => ~audit.fake
=============================================================================
