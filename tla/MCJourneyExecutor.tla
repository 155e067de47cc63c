-------------------------- MODULE MCJourneyExecutor -------------------------
(* Pages of the game a journey meets, and the journeys asked for.          *)
EXTENDS JourneyExecutor

MCFrames == {
    Page("MAIN_MENU", {"start_new_run"}, {"nosave"}, 0),
    Page("MAIN_MENU", {"continue_run", "abandon_run"}, {"save"}, 0),
    Page("MAIN_MENU", {}, {}, 0),
    Page("CHARACTER_SELECT", {"select_character", "embark"}, {}, 0),
    Page("CHARACTER_SELECT", {"select_character", "embark"}, {"picked"}, 0),
    Page("EVENT", {"choose_event_option"}, {"options", "active", "later"}, 0),
    Page("EVENT", {"advance_dialogue"}, {}, 0),
    Page("MAP", {"choose_map_node", "choose_map_node_by_type"}, {"node", "MONSTER"}, 0),
    Page("MAP", {"choose_map_node"}, {"node", "later"}, 0),
    Page("MAP", {}, {"moving"}, 0),
    Page("MAP", {}, {"unnumbered"}, 0),
    Page("COMBAT", {"play_card", "end_turn", "win_combat", "give_card"},
         {"real", "playable", "given"}, 0),
    Page("COMBAT", {"end_turn", "give_card"}, {"real", "given", "aimless"}, 0),
    Page("COMBAT", {"end_turn"}, {}, 0),
    Page("COMBAT", {"end_turn"}, {"real", "bare"}, 0),
    Page("CARD_REWARD", {"select_deck_card"}, {}, 2),
    Page("CARD_REWARD", {"proceed", "collect_rewards_and_proceed"}, {"reward"}, 0),
    Page("UNKNOWN", {"grid_select_skip"}, {}, 1),
    Page("UNKNOWN", {}, {}, 0),
    Page("REST", {"choose_rest_option"}, {"shut"}, 0),
    Page("TRI_SELECT", {}, {}, 3),
    Page("CHEST", {"open_chest"}, {}, 0),
    Page("MAP", {"discard_potion", "choose_map_node"}, {"potion", "node"}, 0),
    Page("CARD_REWARD", {"reward_choose_card", "skip_reward_cards"}, {"rewardCard"}, 0),
    Page("GAME_OVER", {"return_to_main_menu"}, {}, 0) }

(* The menu with a saved run it offers to continue, and without.           *)
MCResumeFrames == {
    Page("MAIN_MENU", {"continue_run", "abandon_run"}, {"save"}, 0),
    Page("MAIN_MENU", {"start_new_run"}, {"nosave"}, 0) }

MCGoals == {"resume_run", "new_run", "first_battle", "card_test", "finish_interstitials",
            "NEXT_ACT", "COMBAT", "MAIN_MENU", "CHARACTER_SELECT", "EVENT"}

=============================================================================
