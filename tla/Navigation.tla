----------------------------- MODULE Navigation -----------------------------
(***************************************************************************)
(* core/navigation.py and core/semantics.py: which action the navigator    *)
(* plays on a page it has read.  A frame is one read of the game: the      *)
(* screen, the actions it offers, the marks the navigator looks at, and    *)
(* the number of cards of its selection block.                             *)
(*   marks  real, bare, playable      combat: live enemy, empty hand with  *)
(*                                    cards to draw, a card to play        *)
(*          moving, vote, node, MONSTER, REST, TREASURE                    *)
(*                                    map: travelling, waiting for a vote, *)
(*                                    a node to take, its types            *)
(*          options, locked, active   event: options, all locked, not done *)
(*          rewardCard, reward        a card to choose, a reward block     *)
(*          potion, shut, hurt        a potion to discard, every rest      *)
(*                                    option disabled, less than half life *)
(*          save, nosave              the menu says whether a run is saved *)
(*          picked, given, aimless    the character is chosen, the card is *)
(*                                    in hand, it has no enemy to hit      *)
(*          later                     a later chapter than the first       *)
(***************************************************************************)
EXTENDS Naturals, Sequences, FiniteSetsExt

Page(screen, acts, has, cards) ==
    [screen |-> screen, acts |-> acts, has |-> has, cards |-> cards]

NoAct == "no_action"

ReturnToMenu == <<"return_to_menu", "return_to_main_menu">>
RewardProceed == <<"collect_rewards_and_proceed", "resolve_rewards", "proceed">>
EventChoice == <<"choose_event", "choose_event_option">>
EventAdvance == EventChoice \o <<"choose_neow_blessing">>

-----------------------------------------------------------------------------
(* A priority list: the first rule that applies decides.                   *)
Rule(when, do) == [when |-> when, do |-> do]
Offers(f, names) == [i \in DOMAIN names |-> Rule(names[i] \in f.acts, names[i])]
OnlyOn(holds, rules) ==
    [i \in DOMAIN rules |-> [rules[i] EXCEPT !.when = @ /\ holds]]
FirstOf(rules) ==
    LET hits == {i \in DOMAIN rules : rules[i].when}
    IN  IF hits = {} THEN NoAct ELSE rules[Min(hits)].do
FirstOffered(f, names) == FirstOf(Offers(f, names))

-----------------------------------------------------------------------------
RealCombat(f) ==
    /\ f.screen = "COMBAT"
    /\ "real" \in f.has
    /\ f.acts \cap {"play_card", "end_turn", "win_combat"} # {}

ActionSurfaceIncomplete(f) ==
    /\ f.screen = "COMBAT"
    /\ f.acts \cap {"play_card", "win_combat"} = {}
    /\ "bare" \in f.has

MapIsStable(f) == f.has \cap {"moving", "vote"} = {}

BasicCombat(f) ==
    << Rule("play_card" \in f.acts /\ "playable" \in f.has, "play_card"),
       Rule("end_turn" \in f.acts, "end_turn") >>

(* Mutant: a death test fights when it has a card to play.                 *)
FightToDeath(f, mode) == BasicCombat(f)

CombatRules(f, mode) ==
    CASE mode = "death" -> Offers(f, <<"end_turn">>)
      [] mode = "traversal" -> Offers(f, <<"win_combat">>) \o BasicCombat(f)
      [] OTHER -> BasicCombat(f)

(* The choice of a deck card goes through the cards one by one; when all   *)
(* have been tried only a confirmation is left.                            *)
DeckRules(f, cursor) ==
    << Rule(f.cards = 0 \/ cursor < f.cards, "select_deck_card") >>
    \o Offers(f, <<"confirm_modal", "proceed">>) \o << Rule(TRUE, NoAct) >>

(* A card among the rewards is taken, the rarest one, before any skip.      *)
RewardCard(f) ==
    Rule("reward_choose_card" \in f.acts /\ "rewardCard" \in f.has, "reward_choose_card")

CardRewardRules(f, cursor) ==
    OnlyOn("select_deck_card" \in f.acts, DeckRules(f, cursor))
    \o << RewardCard(f) >>
    \o Offers(f, <<"skip_reward_cards", "reward_skip_card",
                   "collect_rewards_and_proceed", "choose_reward_card",
                   "reward_choose_card">>)
    \o << Rule({"claim_reward", "proceed"} \subseteq f.acts, "claim_reward") >>
    \o Offers(f, <<"proceed">>)

SelectionRules(f) ==
    << Rule("tri_select_skip" \in f.acts /\ f.screen # "TRI_SELECT", "tri_select_skip") >>
    \o Offers(f, <<"grid_select_skip", "hand_confirm_selection">>)
    \o OnlyOn(f.cards > 0,
              Offers(f, <<"tri_select_card", "grid_select_card",
                          "select_deck_card", "hand_select_card">>))

EventRules(f) ==
    OnlyOn("options" \in f.has, Offers(f, EventChoice))
    \o Offers(f, <<"choose_neow_blessing", "advance_dialogue">>)

(* A page of three cards is answered with the first card, offered or not.  *)
TriRules(f) ==
    << Rule(f.cards > 0, "tri_select_card") >> \o Offers(f, <<"tri_select_skip">>)

RestRules(f) ==
    << Rule("choose_rest_option" \in f.acts,
            IF "shut" \in f.has THEN NoAct ELSE "choose_rest_option") >>
    \o Offers(f, <<"rest", "smith", "recuperate", "proceed">>)

RewardRules(f) ==
    Offers(f, <<"relic_select", "pick_relic", "reward_claim", "relic_skip", "proceed">>)

MarksFor(wanted) ==
    CASE wanted = "COMBAT" -> {"MONSTER"}
      [] wanted = "REST" -> {"REST"}
      [] wanted = "CHEST" -> {"TREASURE"}
      [] OTHER -> {}

MapRules(f, wanted) ==
    << Rule("moving" \in f.has, NoAct),
       Rule("vote" \in f.has /\ f.acts = {}, NoAct),
       Rule(/\ f.has \cap MarksFor(wanted) # {}
            /\ "choose_map_node_by_type" \in f.acts, "choose_map_node_by_type"),
       Rule("node" \in f.has /\ "choose_map_node" \in f.acts, "choose_map_node") >>

ScreenRules(f, wanted) ==
    CASE f.screen = "EVENT" -> EventRules(f)
      [] f.screen = "BUNDLE_SELECTION" -> Offers(f, <<"bundle_select", "bundle_confirm">>)
      [] f.screen = "TRI_SELECT" -> TriRules(f)
      [] f.screen = "CHEST" ->
            Offers(f, <<"open_chest", "choose_treasure_relic", "pick_relic", "proceed">>)
            \o << Rule(TRUE, NoAct) >>
      [] f.screen = "REST" -> RestRules(f) \o << Rule(TRUE, NoAct) >>
      [] f.screen \in {"RELIC_REWARD", "BOSS_REWARD"} -> RewardRules(f)
      [] f.screen = "SHOP" -> Offers(f, <<"proceed", "leave_shop", "shop_exit">>)
      [] f.screen = "MAP" -> MapRules(f, wanted)
      [] OTHER -> << >>

choose_progress_action(f, wanted, cursor, mode) ==
    CASE f.screen = "CARD_REWARD" -> FirstOf(CardRewardRules(f, cursor))
      [] f.screen = "COMBAT" -> FirstOf(CombatRules(f, mode))
      [] OTHER -> FirstOf(
            OnlyOn(f.screen = "MAIN_MENU",
                   Offers(f, <<"open_character_select", "continue_run", "abandon_run">>))
            \o << Rule(/\ f.screen = "MAP" /\ "potion" \in f.has
                       /\ "discard_potion" \in f.acts, "discard_potion") >>
            \o SelectionRules(f) \o ScreenRules(f, wanted)
            \o Offers(f, <<"confirm_modal">>))

(* The card a select_deck_card asks for.                                   *)
CardIndex(f, cursor) == IF f.screen = "CARD_REWARD" /\ f.cards > 0 THEN cursor ELSE 0
=============================================================================
