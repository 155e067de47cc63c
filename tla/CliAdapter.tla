----------------------------- MODULE CliAdapter -----------------------------
(***************************************************************************)
(* The CliModAdapter (adapters/cli_mod.py): every request starts the sts2  *)
(* tool, and the last page read is cached until a command marks it stale.  *)
(* The caller is the orchestrator's path: wait until actionable, read, ask *)
(* for the actions, act, read again.  A tool call may fail or time out     *)
(* before or after the game obeyed, a query may hit the removed            *)
(* get_IsPlayPhase (a degraded COMBAT page), and the game moves by itself. *)
(* Two pages are told from their screen by what they show: SUBMENU is      *)
(* MAIN_MENU with the single-player submenu open, DIALOGUE is EVENT with   *)
(* a dialogue, a card grid or a Proceed to go through, no choice to make.  *)
(***************************************************************************)
EXTENDS Naturals, FiniteSets

CONSTANTS
    Patience,   \* iterations of each polling loop before its deadline
    Entries     \* actions of one case

VARIABLES
    world,   \* page of the game, a saved run, moves of its own left
    cache,   \* _cached_state, _cache_stale, page of _available_actions_cache
    stage,   \* where the caller or the compound action is
    call,    \* action, page its offer comes from, page in hand, loop count, answer
    left,    \* entries left
    fresh    \* the page in hand, and the cached one, were read after the last command

caVars == <<world, cache, stage, call, left, fresh>>

Converged == {"MAP", "COMBAT"}
Interstitial == {"EVENT", "CARD_REWARD", "TRI_SELECT", "BUNDLE_SELECTION"}
InRun == {"EVENT", "MAP", "COMBAT", "CARD_REWARD"}

(* What the code tests when it tests a screen: a degraded page says COMBAT.*)
ScreenOf(page) ==
    CASE page = "DEGRADED" -> "COMBAT" [] page = "DIALOGUE" -> "EVENT"
      [] page = "SUBMENU" -> "MAIN_MENU" [] OTHER -> page

(* _screen_to_actions.  Actions that are one plain command and look at no  *)
(* page (new_run, proceed, play_card, ...) are left out; select_character  *)
(* stands for them.                                                        *)
Opening == {"start_new_run", "select_character", "embark"}
ActionsOf(page) ==
    LET screen == ScreenOf(page) IN
    CASE screen = "MAIN_MENU" -> {"start_new_run", "return_to_menu"}
      [] screen = "CHARACTER_SELECT" -> {"select_character", "embark"}
      [] screen \in {"MAP", "EVENT"} -> Opening \union {"choose_map_node", "choose_event", "advance_dialogue"}
      [] screen = "COMBAT" -> Opening \union {"enter_combat", "choose_map_node", "choose_event",
                                  "advance_dialogue", "combat_basic_policy"}
      [] screen = "CARD_REWARD" -> Opening \union {"choose_map_node", "enter_combat", "choose_event",
                                       "advance_dialogue", "combat_basic_policy", "skip_card_reward"}
      [] screen = "TRI_SELECT" -> {"advance_dialogue", "choose_map_node"}
      [] screen = "BUNDLE_SELECTION" -> {"bundle_select", "advance_dialogue", "choose_map_node"}
      [] screen = "GAME_OVER" -> {"return_to_menu"}
      [] OTHER -> {}

(* What a command of the tool does to the game it reaches (external).      *)
Leads(command) ==
    LET at(pages) == world.page \in pages
        to(pages) == {[world EXCEPT !.page = p] : p \in pages}
    IN CASE command = "new_run" /\ at({"MAIN_MENU"}) /\ ~world.saved -> to({"SUBMENU", "CHARACTER_SELECT"})
         [] command = "abandon_run" /\ at({"MAIN_MENU"}) -> {[world EXCEPT !.saved = FALSE]}
         [] command = "choose_game_mode" /\ at({"SUBMENU"}) -> to({"CHARACTER_SELECT"})
         [] command = "select_character" /\ at({"CHARACTER_SELECT"}) -> {world}
         [] command = "embark" /\ at({"CHARACTER_SELECT"}) -> to({"CHARACTER_SELECT", "UNKNOWN", "EVENT"})
         [] command = "choose_event" /\ at({"EVENT"}) ->
               to({"DIALOGUE", "UNKNOWN", "COMBAT", "CARD_REWARD", "TRI_SELECT", "BUNDLE_SELECTION"})
         [] command = "advance_dialogue" /\ at({"DIALOGUE"}) -> to({"EVENT", "MAP"})
         [] command = "tri_select_skip" /\ at({"TRI_SELECT"}) -> to({"DIALOGUE"})
         [] command = "reward_skip_card" /\ at({"CARD_REWARD"}) -> to({"CARD_REWARD", "DIALOGUE"})
         [] command = "proceed" /\ at({"CARD_REWARD", "TRI_SELECT"}) -> to({"MAP", "UNKNOWN"})
         [] command = "bundle_select" /\ at({"BUNDLE_SELECTION"}) -> {world}
         [] command = "bundle_confirm" /\ at({"BUNDLE_SELECTION"}) -> to({"DIALOGUE", "MAP"})
         [] command = "choose_map_node" /\ at({"MAP"}) -> to({"COMBAT", "EVENT"})
         [] command \in {"play_card", "end_turn"} /\ at({"COMBAT"}) -> to({"COMBAT", "CARD_REWARD", "GAME_OVER"})
         [] command = "return_to_menu" /\ at({"GAME_OVER"}) -> to({"MAIN_MENU"})
         [] OTHER -> {}

NoCall == [action |-> "none", offer |-> "none", page |-> "none", tries |-> 0, status |-> "none"]
CaInit ==
    /\ world \in [page : {"MAIN_MENU", "SUBMENU", "EVENT", "COMBAT"}, saved : BOOLEAN, moves : {2}]
    /\ cache = [page |-> "none", stale |-> TRUE, actions |-> "none"]
    /\ stage = "wait" /\ call = NoCall /\ left = Entries
    /\ fresh = [hand |-> FALSE, cached |-> FALSE]

-----------------------------------------------------------------------------
MarkedNever == cache                                                \* mutant

(* mark_state_stale: the page and the actions are dropped together; the    *)
(* page itself stays in _cached_state.                                     *)
Stale == [cache EXCEPT !.stale = TRUE, !.actions = "none"]

(* _get_state_sync: the cached page, or a query.  The page it returns is   *)
(* cached unless it is UNKNOWN or degraded: then the old page stays, and a *)
(* degraded one marks it stale.                                            *)
Cached(c) ==
    [page |-> c.page, cache |-> c, fresh |-> [hand |-> fresh.cached, cached |-> fresh.cached]]
Query(c) ==
    {IF world.page = "UNKNOWN"
     THEN [page |-> "UNKNOWN", cache |-> c, fresh |-> [fresh EXCEPT !.hand = TRUE]]
     ELSE [page |-> world.page, cache |-> [page |-> world.page, stale |-> FALSE, actions |-> "none"],
           fresh |-> [hand |-> TRUE, cached |-> TRUE]]}
        \union (IF ScreenOf(world.page) \notin {"EVENT", "MAP", "COMBAT"} THEN {}
                ELSE {[page |-> "DEGRADED", cache |-> [c EXCEPT !.stale = TRUE, !.actions = "none"],
                       fresh |-> [fresh EXCEPT !.hand = TRUE]]})
get_state(c) == IF ~c.stale /\ c.page # "none" THEN {Cached(c)} ELSE Query(c)
(* `except STS2Error: state = self._cached_state`, after a failed query.   *)
OrCached(c) == get_state(c) \union {Cached(c)}
Takes(read) == cache' = read.cache /\ fresh' = read.fresh

Holding(where, read, tries) ==
    /\ Takes(read) /\ stage' = where
    /\ call' = [call EXCEPT !.page = read.page, !.tries = tries]
OnTo(where, tries) == stage' = where /\ call' = [call EXCEPT !.tries = tries]

(* An answer: needless (no command was called for), sent (the tool took    *)
(* the command), arrived (the page in hand shows it), failure or timeout.  *)
Answer(status) == call' = [call EXCEPT !.status = status] /\ stage' = "answered"

(* _run_cli and _parse_response.  A command may have reached the game and  *)
(* failed all the same; the error of the removed get_IsPlayPhase counts as *)
(* success (_action_error_result).                                         *)
Obeyed(command) ==
    /\ Leads(command) # {} /\ world' \in Leads(command) /\ cache' = Stale
    /\ fresh' = [hand |-> FALSE, cached |-> FALSE] /\ UNCHANGED left
Fails(command) ==
    /\ world' \in Leads(command) \union {world}
    /\ fresh' = [hand |-> FALSE, cached |-> FALSE] /\ UNCHANGED left
Sends(command, ok, failed) ==
    \/ Obeyed(command) /\ ok
    \/ Fails(command) /\ cache' = Stale /\ failed
Broken == \E status \in {"timeout", "failure", "sent"} : Answer(status)
ReadFails ==
    /\ \E status \in {"timeout", "failure"} : Answer(status)
    /\ cache' = Stale /\ UNCHANGED <<world, left, fresh>>

(* The error leaves act itself, and the cache as it is.                    *)
Raises(command) == Fails(command) /\ stage' = "raised" /\ UNCHANGED <<cache, call>>

-----------------------------------------------------------------------------
(* The caller.  wait_until_actionable drops the cache before it asks for   *)
(* the actions, again while there are none.                                *)
Wait ==
    /\ stage = "wait" /\ left > 0 /\ UNCHANGED world
    /\ \E read \in Query(Stale) :
          /\ Takes([read EXCEPT !.cache.actions = read.page])
          /\ IF ActionsOf(read.page) = {} THEN UNCHANGED <<stage, left>>
             ELSE stage' = "pre" /\ left' = left - 1
    /\ call' = NoCall
PreRead ==
    /\ stage = "pre" /\ UNCHANGED <<world, left>>
    /\ \E read \in get_state(cache) : Holding("offer", read, 0)

(* _get_available_actions_sync: those cached, or those of one more read.   *)
Offer ==
    /\ stage = "offer" /\ UNCHANGED <<world, left>>
    /\ \E read \in IF cache.actions # "none" THEN {[Cached(cache) EXCEPT !.page = cache.actions]}
                   ELSE get_state(cache) :
          /\ Takes([read EXCEPT !.cache.actions = read.page])
          /\ \E a \in ActionsOf(read.page) : call' = [call EXCEPT !.action = a, !.offer = read.page]
    /\ stage' = "act"

(* _act_sync: some actions look at the cached page as it is, others read   *)
(* again first, and look at the cached page when that read fails.          *)
Looked(action) ==
    IF \/ action \in {"advance_dialogue", "choose_map_node", "return_to_menu"} /\ cache.page # "none"
       \/ action = "enter_combat"
    THEN OrCached(cache) ELSE {Cached(cache)}
Needless(action, screen) ==
    \/ action \in Opening /\ screen \in InRun
    \/ action = "choose_event" /\ screen \in Converged \union {"CARD_REWARD"}
    \/ action = "advance_dialogue" /\ screen \in Converged
    \/ action = "choose_map_node" /\ screen = "COMBAT"
    \/ action = "enter_combat" /\ screen \in {"COMBAT", "CARD_REWARD"}
    \/ action = "skip_card_reward" /\ screen \notin {"none", "CARD_REWARD"}
    \/ action = "return_to_menu" /\ screen = "MAIN_MENU"
PathOf(action, screen) ==
    CASE action = "choose_map_node" /\ screen = "EVENT" -> "event"
      [] action \in {"advance_dialogue", "choose_map_node"} /\ screen \in Interstitial -> "enter"
      [] OTHER -> action
Dispatch ==
    /\ stage = "act" /\ UNCHANGED <<world, left>>
    /\ \E read \in Looked(call.action) :
          IF Needless(call.action, ScreenOf(read.page)) THEN Takes(read) /\ Answer("needless")
          ELSE Holding(PathOf(call.action, ScreenOf(read.page)), read, 0)

(* One command; choose_event is repeated while its button is not there.    *)
OneCommand ==
    /\ stage \in {"select_character", "choose_map_node", "advance_dialogue", "return_to_menu", "enter_combat"}
    /\ Sends(stage, Answer("sent"), Broken)
ChooseEvent ==
    /\ stage = "choose_event"
    /\ Sends("choose_event", Answer("sent"),
             Broken \/ (call.tries < Patience /\ OnTo("choose_event", call.tries + 1)))

(* skip_card_reward: skip, and proceed when the skip fails, in one breath: *)
(* the cache is marked once, whichever ends it.                            *)
SkipCardReward ==
    /\ stage = "skip_card_reward"
    /\ \/ Obeyed("reward_skip_card") /\ Answer("sent")
       \/ Fails("reward_skip_card") /\ UNCHANGED cache /\ OnTo("proceed", 0)
Proceed == stage = "proceed" /\ Sends("proceed", Answer("sent"), Broken)

(* _bundle_select_and_confirm_sync; a converging action reads on after it. *)
AfterBundle == IF call.action = "bundle_select" THEN Answer("sent") ELSE OnTo("again", call.tries)
BundleFails ==
    (\E status \in {"timeout", "failure"} : Answer(status)) \/ AfterBundle
BundleSelect == stage = "bundle_select" /\ Sends("bundle_select", OnTo("confirm", call.tries), BundleFails)
BundleConfirm == stage = "confirm" /\ Sends("bundle_confirm", AfterBundle, BundleFails)

(* _embark_sync: the command, then reads until the page is left.           *)
EmbarkCommand == stage = "embark" /\ Sends("embark", OnTo("leave", 0), Broken)
EmbarkLeaves ==
    /\ stage = "leave" /\ UNCHANGED <<world, left>>
    /\ \/ ReadFails
       \/ \E read \in Query(Stale) :
             IF read.page # "CHARACTER_SELECT" THEN Takes(read) /\ Answer("arrived")
             ELSE IF call.tries < Patience THEN Holding("leave", read, call.tries + 1)
             ELSE Takes(read) /\ Answer("failure")

(* _start_new_run_sync: with the submenu open the mode is all that is left *)
(* to choose; else new_run, abandoning a saved run when the tool asks for  *)
(* it, reads until the menu is left or its submenu shows, the mode.        *)
StartNewRun ==
    /\ stage = "start_new_run" /\ UNCHANGED <<world, left>>
    /\ \/ ReadFails
       \/ \E read \in get_state(cache) :
             Holding(IF read.page = "SUBMENU" THEN "mode" ELSE "new_run", read, 0)
NewRun ==
    /\ stage = "new_run"
    /\ \/ Sends("new_run", OnTo("submenu", 0), Broken)
       \/ /\ world.saved /\ call.tries = 0
          /\ Fails("new_run") /\ UNCHANGED cache /\ OnTo("abandon", 0)
AbandonSaved == stage = "abandon" /\ Sends("abandon_run", OnTo("new_run", 1), Broken)
PollSubmenu ==
    /\ stage = "submenu" /\ UNCHANGED <<world, left>>
    /\ \/ ReadFails
       \/ \E read \in Query(Stale) :
             IF read.page = "SUBMENU" THEN Holding("mode", read, 0)
             ELSE IF read.page = "MAIN_MENU" /\ call.tries < Patience
             THEN Holding("submenu", read, call.tries + 1)
             ELSE Takes(read) /\ Answer("sent")
ChooseMode == stage = "mode" /\ Sends("choose_game_mode", Answer("sent"), Broken)

(* _advance_dialogue_to_map_sync: the page in hand decides the next step,  *)
(* and a page that decides nothing is read again.  choose_map_node reads   *)
(* once more and goes on to the node.                                      *)
Enter ==
    /\ stage = "enter" /\ UNCHANGED <<world, left>>
    /\ \E read \in OrCached(cache) : Holding("converge", read, 0)
Converges(status) ==
    /\ IF call.action = "choose_map_node" THEN OnTo("reread", 0) ELSE Answer(status)
    /\ UNCHANGED <<cache, fresh>>
NextStep ==
    CASE call.page = "CARD_REWARD" -> "skip" [] call.page = "TRI_SELECT" -> "tri"
      [] call.page = "BUNDLE_SELECTION" -> "bundle_select" [] call.page = "DIALOGUE" -> "dialogue"
      [] OTHER -> "retry"
Converge ==
    /\ stage = "converge" /\ UNCHANGED <<world, left>>
    /\ IF call.tries >= Patience THEN Answer("failure") /\ UNCHANGED <<cache, fresh>>
       ELSE IF call.page \in Converged THEN Converges("arrived")
       \* an event whose options await a choice is left to choose_event
       ELSE IF call.page = "EVENT" THEN Converges("needless")
       ELSE OnTo(NextStep, call.tries + 1) /\ UNCHANGED <<cache, fresh>>
ReadAgain ==
    /\ stage \in {"retry", "again"} /\ UNCHANGED <<world, left>>
    /\ \E read \in OrCached(Stale) : Holding("converge", read, call.tries)
SkipReward ==
    /\ stage = "skip"
    /\ Sends("reward_skip_card", OnTo("skipped", call.tries), OnTo("skipped", call.tries))
RewardStays ==
    /\ stage = "skipped" /\ UNCHANGED <<world, left>>
    /\ \E read \in OrCached(cache) :
          Holding(IF read.page = "CARD_REWARD" THEN "leave_reward" ELSE "converge", read, call.tries)
LeaveReward ==
    stage = "leave_reward" /\ Sends("proceed", OnTo("again", call.tries), OnTo("again", call.tries))
SkipTriSelect ==
    /\ stage = "tri"
    /\ \/ Obeyed("tri_select_skip") /\ OnTo("said", call.tries)
       \/ Fails("tri_select_skip") /\ UNCHANGED cache /\ OnTo("tri_proceed", call.tries)
TriProceed ==
    /\ stage = "tri_proceed"
    /\ \/ Obeyed("proceed") /\ OnTo("said", call.tries)
       \/ Raises("proceed")
GoThrough ==
    /\ stage = "dialogue"
    /\ \/ Obeyed("advance_dialogue") /\ OnTo("said", call.tries)
       \/ Raises("advance_dialogue")
Said ==
    /\ stage = "said" /\ UNCHANGED <<world, left>>
    /\ \/ stage' = "raised" /\ UNCHANGED <<cache, call, fresh>>
       \/ \E read \in get_state(cache) : Holding("converge", read, call.tries)
Reread ==
    /\ stage = "reread" /\ UNCHANGED <<world, left>>
    /\ \E read \in OrCached(cache) :
          IF ScreenOf(read.page) = "COMBAT" THEN Takes(read) /\ Answer("arrived")
          ELSE Holding("choose_map_node", read, 0)

(* _advance_event_until_map_sync, from the cached page, and what           *)
(* choose_map_node makes of the page it ends on.                           *)
EventEnds ==
    /\ CASE ScreenOf(call.page) \in {"COMBAT", "CARD_REWARD"} -> Answer("arrived")
         [] call.page = "MAP" -> OnTo("choose_map_node", 0)
         [] OTHER -> Answer("failure")
    /\ UNCHANGED <<cache, fresh>>
AdvanceEvent ==
    /\ stage = "event" /\ UNCHANGED <<world, left>>
    /\ IF call.tries >= Patience \/ call.page \notin {"DEGRADED", "EVENT", "DIALOGUE"} THEN EventEnds
       ELSE /\ OnTo(IF call.page = "DEGRADED" THEN "event_read" ELSE "progress", call.tries + 1)
            /\ UNCHANGED <<cache, fresh>>
EventProgress ==
    /\ stage = "progress"
    /\ Sends(IF call.page = "EVENT" THEN "choose_event" ELSE "advance_dialogue",
             OnTo("event_read", call.tries), Broken)
EventRead ==
    /\ stage = "event_read" /\ UNCHANGED <<world, left>>
    /\ ReadFails \/ \E read \in Query(Stale) : Holding("event", read, call.tries)

(* _combat_basic_policy_sync: a fresh read, then a card or the turn's end, *)
(* until the fight is left; on a degraded page it is nobody's turn.        *)
PolicyRead ==
    /\ stage = "combat_basic_policy" /\ UNCHANGED <<world, left>>
    /\ IF call.tries >= Patience THEN Answer("timeout") /\ UNCHANGED <<cache, fresh>>
       ELSE \/ ReadFails
            \/ \E read \in Query(Stale) :
                  IF ScreenOf(read.page) # "COMBAT" THEN Takes(read) /\ Answer("arrived")
                  ELSE \/ read.page = "COMBAT" /\ Holding("turn", read, call.tries + 1)
                       \/ Holding("combat_basic_policy", read, call.tries + 1)
PolicyPlays ==
    /\ stage = "turn"
    /\ \E command \in {"play_card", "end_turn"} :
          LET onward == OnTo("combat_basic_policy", call.tries) IN
          Sends(command, onward, IF command = "play_card" THEN onward ELSE Broken)

(* The caller reads the page the action led to, after a failure too (the   *)
(* false-negative check); an error that left act ends the entry unread.    *)
PostRead ==
    /\ stage = "answered" /\ UNCHANGED <<world, left>>
    /\ \E read \in get_state(cache) : Holding("seen", read, 0)
NextEntry ==
    stage \in {"seen", "raised"} /\ stage' = "wait" /\ call' = NoCall /\ UNCHANGED <<world, cache, left, fresh>>

GameGoesOn ==
    /\ world.moves > 0
    /\ \E p \in {"MAP", "CARD_REWARD", "GAME_OVER", "UNKNOWN", "EVENT"} :
          /\ <<world.page, p>> \in {<<"DIALOGUE", "MAP">>, <<"COMBAT", "CARD_REWARD">>,
                 <<"COMBAT", "GAME_OVER">>, <<"MAP", "UNKNOWN">>, <<"UNKNOWN", "MAP">>, <<"UNKNOWN", "EVENT">>}
          /\ world' = [world EXCEPT !.page = p, !.moves = @ - 1]
    /\ UNCHANGED <<cache, stage, call, left, fresh>>

CaNext ==
    \/ Wait \/ PreRead \/ Offer \/ Dispatch \/ OneCommand \/ ChooseEvent \/ SkipCardReward \/ Proceed
    \/ BundleSelect \/ BundleConfirm \/ EmbarkCommand \/ EmbarkLeaves \/ StartNewRun \/ NewRun
    \/ AbandonSaved \/ PollSubmenu \/ ChooseMode \/ Enter \/ Converge \/ ReadAgain \/ SkipReward
    \/ RewardStays \/ LeaveReward \/ SkipTriSelect \/ TriProceed \/ GoThrough \/ Said \/ Reread
    \/ AdvanceEvent \/ EventProgress \/ EventRead \/ PolicyRead \/ PolicyPlays
    \/ PostRead \/ NextEntry \/ GameGoesOn

-----------------------------------------------------------------------------
(* However many commands a compound action sent, and however they and the  *)
(* reads between them failed: the page the caller takes for its result was *)
(* read after the last command; so was the cached page whenever act has    *)
(* answered and the cache is not marked; an action that says its page has  *)
(* arrived holds such a page, and so does one answered as needless, when   *)
(* the page its actions were offered for was a real one (mark_state_stale, *)
(* _get_state_sync, _act_sync).  Not claimed, because the code does not    *)
(* give it: after an offer made on a degraded page, which is never cached, *)
(* an action may be called needless on a page read before any number of    *)
(* commands; after an error that left act the cache is not marked.         *)
ReadsAreFresh ==
    /\ stage = "seen" => fresh.hand
    /\ stage = "answered" /\ ~cache.stale => fresh.cached
    /\ stage = "answered" /\ call.status = "arrived" => fresh.hand
    /\ stage = "answered" /\ call.status = "needless" /\ call.offer # "DEGRADED" => fresh.hand
=============================================================================
