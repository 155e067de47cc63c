-------------------------- MODULE CaseEvidence_proofs --------------------------
(***************************************************************************)
(* Theorems about the actions of a case and about what it leaves behind,   *)
(* its evidence pack and the copies of the game's log, for every value of  *)
(* the constants.                                                          *)
(***************************************************************************)
EXTENDS ActionPath, EvidencePacks, LogEvidence, TLAPS, FiniteSetTheorems, SequenceTheorems,
        WellFoundedInduction

-----------------------------------------------------------------------------
(* The actions of a case.                                                 *)

(* A case that starts a new run goes on with an action that only the       *)
(* character page offers.                                                  *)
OfTheCharacter == {"select_character", "embark"}
GoesOn(script) ==
    \A i \in 1 .. Len(script) : script[i] = "start_new_run" =>
        i < Len(script) /\ script[i + 1] \in OfTheCharacter
ScriptsAssumption == \A script \in Scripts : script \in Seq(STRING) /\ GoesOn(script)

ApSpec == ApInit /\ [][ApNext]_apVars

(* The types that the steps rely on.                                       *)
IsGame(g) == DOMAIN g = {"screen", "saved", "modal", "moves"} /\ g.screen \in Screens
IsEntry(e) ==
    /\ DOMAIN e = {"name", "effects", "noop", "status", "lost", "drift"}
    /\ e.effects \in Nat
ApTypeOK ==
    /\ IsGame(game)
    /\ todo \in Seq(STRING)
    /\ IsEntry(entry)
    /\ DOMAIN seen = {"current", "valid"}
    /\ DOMAIN audit = {"hollow", "twice", "fake"}

(* No request of the entry has been counted before one is posted, none is  *)
(* posted behind one whose answer was lost, and what is answered by success*)
(* was obeyed, or was needless.                                            *)
Before == {"probe", "reset", "restart", "check", "await", "pre", "offer", "act", "nav", "navigate",
           "reached"}
ObeyedOnce ==
    /\ at \in Before => entry.effects = 0
    /\ at \in Before \union {"post", "start", "follow"} => ~entry.lost
    /\ at = "follow" => entry.effects # 0
    /\ at = "verdict" /\ entry.status = "success" =>
          entry.effects # 0 \/ entry.noop \/ entry.name = "start_new_run"
    /\ ~audit.hollow /\ ~audit.twice

(* While nothing moved the game, the page is the one that was read before  *)
(* the action, and no other one can be read.                               *)
Undrifted ==
    at \in {"offer", "act", "post", "start", "follow", "verdict", "doubt", "opened"} /\ ~entry.drift =>
        /\ seen.valid \in {"none", seen.current}
        /\ entry.effects = 0 => game.screen = seen.current

(* A new run is followed by the choice of its character, and one that was  *)
(* answered for nothing leaves the game on a page that does not offer it.  *)
CharacterNext == todo # << >> /\ Head(todo) \in OfTheCharacter
FakeIsStuck ==
    /\ GoesOn(todo)
    /\ entry.name = "start_new_run" => CharacterNext
    /\ at \in {"start", "opened"} => entry.name = "start_new_run"
    /\ audit.fake /\ at # "raised" =>
          /\ game.screen # "CHARACTER_SELECT"
          /\ \/ at \in {"verdict", "reread", "next"}
                   /\ entry.name = "start_new_run" /\ (at = "verdict" => entry.status = "success")
             \/ at = "await" /\ entry.name \in OfTheCharacter

ApInv == ApTypeOK /\ ObeyedOnce /\ Undrifted /\ FakeIsStuck

(* A game that obeys a request is on one of the screens.                   *)
LEMMA ObeysIsGame ==
    ASSUME IsGame(game), NEW name
    PROVE  \A g \in Obeys(name) : IsGame(g)
<1>1. \A s \in Screens : IsGame([game EXCEPT !.screen = s])
  BY DEF IsGame
<1>2. /\ IsGame([game EXCEPT !.saved = FALSE])
      /\ IsGame([game EXCEPT !.modal = TRUE])
      /\ IsGame([game EXCEPT !.saved = FALSE, !.modal = FALSE])
  BY DEF IsGame
<1>3. /\ IsGame([game EXCEPT !.screen = "MAIN_MENU", !.saved = FALSE])
      /\ IsGame([game EXCEPT !.screen = "EVENT", !.saved = TRUE])
      /\ IsGame([game EXCEPT !.screen = "GAME_OVER", !.saved = FALSE])
  BY DEF IsGame, Screens
<1>4. CASE name \in {"open_character_select", "choose_event_option", "choose_map_node", "end_turn",
                     "collect_rewards_and_proceed", "proceed", "return_to_menu"}
  <2>1. \E screens \in SUBSET Screens : Obeys(name) = {[game EXCEPT !.screen = s] : s \in screens}
    <3> USE DEF Screens
    <3>1. CASE name = "open_character_select"
      <4> WITNESS {"CHARACTER_SELECT"} \in SUBSET Screens
      <4> QED  BY <3>1 DEF Obeys
    <3>2. CASE name = "choose_event_option"
      <4> WITNESS {"EVENT", "MAP", "COMBAT", "CARD_REWARD", "UNKNOWN"} \in SUBSET Screens
      <4> QED  BY <3>2 DEF Obeys
    <3>3. CASE name = "choose_map_node"
      <4> WITNESS {"COMBAT", "EVENT", "UNKNOWN"} \in SUBSET Screens
      <4> QED  BY <3>3 DEF Obeys
    <3>4. CASE name = "end_turn"
      <4> WITNESS {"COMBAT", "CARD_REWARD", "GAME_OVER"} \in SUBSET Screens
      <4> QED  BY <3>4 DEF Obeys
    <3>5. CASE name \in {"collect_rewards_and_proceed", "proceed"}
      <4> WITNESS {"MAP"} \in SUBSET Screens
      <4> QED  BY <3>5 DEF Obeys
    <3>6. CASE name = "return_to_menu"
      <4> WITNESS {"MAIN_MENU"} \in SUBSET Screens
      <4> QED  BY <3>6 DEF Obeys
    <3> QED  BY <1>4, <3>1, <3>2, <3>3, <3>4, <3>5, <3>6
  <2> QED  BY <1>1, <2>1
<1>5. CASE name \notin {"open_character_select", "choose_event_option", "choose_map_node", "end_turn",
                        "collect_rewards_and_proceed", "proceed", "return_to_menu"}
  <2>1. Obeys(name) \subseteq {game, [game EXCEPT !.saved = FALSE], [game EXCEPT !.modal = TRUE],
            [game EXCEPT !.saved = FALSE, !.modal = FALSE],
            [game EXCEPT !.screen = "MAIN_MENU", !.saved = FALSE],
            [game EXCEPT !.screen = "EVENT", !.saved = TRUE],
            [game EXCEPT !.screen = "GAME_OVER", !.saved = FALSE]}
    BY <1>5 DEF Obeys
  <2> QED  BY <1>2, <1>3, <2>1
<1> QED  BY <1>4, <1>5

(* Of every answer to a request: success means that the game obeyed.       *)
LEMMA RepliesAreGames ==
    ASSUME IsGame(game), NEW name, NEW reply \in Reply(name)
    PROVE  /\ IsGame(reply.game)
           /\ reply.status \in {"success", "timeout", "failure", "glitch"}
           /\ reply.effects \in {0, 1}
           /\ reply.status = "success" => reply.effects = 1
           /\ reply.effects = 0 => reply.game = game
  BY ObeysIsGame DEF Reply, Unanswered

(* What one request leaves behind, of an entry that lost no answer.        *)
LEMMA PostsKeep ==
    ASSUME ApTypeOK, ~entry.lost, ~audit.hollow, ~audit.twice,
           NEW name, NEW reply \in Reply(name), Posts(reply)
    PROVE  /\ IsGame(game') /\ IsEntry(entry') /\ DOMAIN audit' = {"hollow", "twice", "fake"}
           /\ entry'.name = entry.name /\ entry'.noop = entry.noop /\ entry'.drift = entry.drift
           /\ entry'.status = reply.status
           /\ reply.status = "success" => ~entry'.lost /\ entry'.effects # 0
           /\ entry'.effects = 0 => game' = game /\ entry.effects = 0
           /\ ~audit'.hollow /\ ~audit'.twice /\ audit'.fake = audit.fake
<1>1. /\ IsGame(reply.game) /\ reply.effects \in {0, 1}
      /\ reply.status = "success" => reply.effects = 1
      /\ reply.effects = 0 => reply.game = game
  BY RepliesAreGames DEF ApTypeOK
<1> DEFINE count == entry.effects + reply.effects
           gone == entry.lost \/ (reply.effects = 1 /\ reply.status # "success")
           again == audit.twice \/ (entry.lost /\ reply.effects = 1)
<1>2. /\ entry' = [entry EXCEPT !.status = reply.status, !.effects = count, !.lost = gone]
      /\ audit' = [audit EXCEPT !.twice = again] /\ game' = reply.game
  BY DEF Posts
<1>3. /\ count \in Nat /\ ~again
      /\ reply.status = "success" => count # 0 /\ ~gone
      /\ count = 0 => entry.effects = 0 /\ reply.effects = 0
  BY <1>1 DEF ApTypeOK, IsEntry
<1> HIDE DEF count, gone, again
<1>4. /\ DOMAIN entry' = DOMAIN entry /\ entry'.name = entry.name /\ entry'.noop = entry.noop
      /\ entry'.drift = entry.drift /\ entry'.status = reply.status /\ entry'.effects = count
      /\ entry'.lost = gone
  BY <1>2 DEF ApTypeOK, IsEntry
<1>5. DOMAIN audit' = DOMAIN audit /\ audit'.hollow = audit.hollow /\ audit'.fake = audit.fake
         /\ audit'.twice = again
  BY <1>2 DEF ApTypeOK
<1> QED  BY <1>1, <1>2, <1>3, <1>4, <1>5 DEF ApTypeOK, IsEntry

(* Every step of a case keeps the invariant.                               *)
LEMMA ApStep ==
    ASSUME ScriptsAssumption, ApInv, [ApNext]_apVars
    PROVE  ApInv'
<1> USE DEF ApInv
<1>b. \A status : Answers(status) =>
          /\ IsEntry(entry') /\ at' = "verdict"
          /\ entry'.name = entry.name /\ entry'.effects = entry.effects
          /\ entry'.noop = entry.noop /\ entry'.drift = entry.drift
          /\ entry'.status = status
  BY DEF Answers, Go, ApTypeOK, IsEntry
<1>1. CASE NextEntry
  <2>1. CASE todo = << >>
    BY <1>1, <2>1 DEF NextEntry, ApTypeOK, ObeyedOnce, FakeIsStuck, CharacterNext, Undrifted, Go, Before
  <2>2. CASE todo # << >>
    <3>1. /\ Head(todo) \in STRING /\ Tail(todo) \in Seq(STRING)
          /\ Head(todo) = todo[1] /\ Len(todo) \in Nat /\ Len(todo) > 0
          /\ Len(Tail(todo)) = Len(todo) - 1
          /\ \A i \in 1 .. Len(Tail(todo)) : Tail(todo)[i] = todo[i + 1]
          /\ Len(Tail(todo)) > 0 => Tail(todo) # << >> /\ Head(Tail(todo)) = Tail(todo)[1]
      <4> DEFINE t == todo
      <4>1. t \in Seq(STRING) /\ t # << >>
        BY <2>2 DEF ApTypeOK
      <4> HIDE DEF t
      <4>2. Head(t) \in STRING /\ Tail(t) \in Seq(STRING) /\ Len(t) \in Nat /\ Len(t) > 0
        BY <4>1
      <4>3. Head(t) = t[1] /\ Len(Tail(t)) = Len(t) - 1
        BY <4>1
      <4>4. \A i \in 1 .. Len(t) - 1 : Tail(t)[i] = t[i + 1]
        BY <4>1
      <4>5. Len(Tail(t)) > 0 => Tail(t) # << >> /\ Head(Tail(t)) = Tail(t)[1]
        <5>1. \A u \in Seq(STRING) : Len(u) > 0 => u # << >> /\ Head(u) = u[1]
          OBVIOUS
        <5> QED  BY <4>2, <5>1
      <4> QED  BY <4>2, <4>3, <4>4, <4>5 DEF t
    <3>2. GoesOn(Tail(todo))
      BY <3>1 DEF GoesOn, FakeIsStuck
    <3>3. Head(todo) = "start_new_run" => Tail(todo) # << >> /\ Head(Tail(todo)) \in OfTheCharacter
      <4>1. ASSUME Head(todo) = "start_new_run" PROVE 1 < Len(todo) /\ todo[1 + 1] \in OfTheCharacter
        BY <3>1, <4>1 DEF GoesOn, FakeIsStuck
      <4> QED  BY <3>1, <4>1
    <3>4. /\ entry' = Entry(Head(todo)) /\ todo' = Tail(todo) /\ UNCHANGED <<game, audit, seen>>
          /\ at' \in {"raised", "nav", "probe", "await"}
          /\ Head(todo) \in OfTheCharacter => at' = "await"
      BY <1>1, <2>2 DEF NextEntry, Go, NavTarget, OfTheCharacter
    <3>5. ApTypeOK' /\ ObeyedOnce' /\ Undrifted'
      <4>1. IsEntry(entry') /\ entry'.effects = 0 /\ ~entry'.lost
        BY <3>1, <3>4 DEF IsEntry, Entry
      <4> QED  BY <3>1, <3>4, <4>1 DEF ApTypeOK, ObeyedOnce, Undrifted, Before
    <3>6. FakeIsStuck'
      BY <1>1, <3>1, <3>2, <3>3, <3>4 DEF FakeIsStuck, CharacterNext, Entry, NextEntry
    <3> QED  BY <3>5, <3>6
  <2> QED  BY <2>1, <2>2
<1>2. CASE Probe \/ CheckMenu \/ Offer
  BY <1>2 DEF Probe, CheckMenu, Offer, Same, Go, Fail, ApTypeOK, ObeyedOnce, Undrifted, FakeIsStuck, CharacterNext, Before
<1>3. CASE AutoReset
  <2>1. IsGame(game')
    BY <1>3, ObeysIsGame DEF AutoReset, ApTypeOK
  <2>2. at = "reset" /\ at' \in {"check", "restart", "reset"} /\ UNCHANGED <<todo, entry, seen, audit>>
    BY <1>3 DEF AutoReset, Go
  <2> QED  BY <2>1, <2>2 DEF ApTypeOK, ObeyedOnce, Undrifted, FakeIsStuck, CharacterNext, Before
<1>4. CASE HardReset
  BY <1>4 DEF HardReset, Go, IsGame, Screens, ApTypeOK, ObeyedOnce, Undrifted, FakeIsStuck, CharacterNext, Before
<1>5. CASE Await
  <2>1. at = "await" /\ UNCHANGED <<game, todo, entry, seen, audit>> /\ at' \in {"raised", "pre"}
    BY <1>5 DEF Await, Same, Go, Fail
  <2>2. at' = "pre" => ~(game.screen # "CHARACTER_SELECT" /\ entry.name \in OfTheCharacter)
    BY <1>5 DEF Await, Go, Fail, get_available_actions, Offered, OfTheCharacter
  <2> QED  BY <2>1, <2>2 DEF ApTypeOK, ObeyedOnce, Undrifted, FakeIsStuck, CharacterNext, Before
<1>v. seen' \in Validated =>
          /\ DOMAIN seen' = {"current", "valid"}
          /\ seen'.current = game.screen => seen'.valid \in {"none", seen'.current}
          /\ seen.valid \in {"none", seen.current} /\ game.screen = seen.current =>
                seen'.current = seen.current
  BY DEF Validated, ApTypeOK
<1>6. CASE PreRead
  <2>1. at = "pre" /\ UNCHANGED <<game, todo, audit>> /\ DOMAIN seen' = {"current", "valid"}
    BY <1>6, <1>v DEF PreRead, Fail, ApTypeOK
  <2>2. CASE Fail /\ UNCHANGED <<seen, entry>>
    BY <2>1, <2>2 DEF Fail, ApTypeOK, ObeyedOnce, Undrifted, FakeIsStuck, CharacterNext, Before
  <2>3. CASE seen' \in Validated /\ at' = "offer"
                /\ entry' = [entry EXCEPT !.drift = seen'.current # game.screen]
    <3>1. /\ IsEntry(entry') /\ entry'.name = entry.name /\ entry'.effects = entry.effects
          /\ entry'.lost = entry.lost /\ entry'.drift = (seen'.current # game.screen)
      BY <2>3 DEF ApTypeOK, IsEntry
    <3> QED  BY <1>v, <2>1, <2>3, <3>1 DEF ApTypeOK, ObeyedOnce, Undrifted, FakeIsStuck, CharacterNext, Before
  <2> QED  BY <1>6, <2>2, <2>3 DEF PreRead, Go
<1>6n. CASE NavStart \/ NavReached
  BY <1>6n, <1>v DEF NavStart, NavReached, Go, Fail, ApTypeOK, ObeyedOnce, Undrifted, FakeIsStuck, CharacterNext, Before
<1>7. CASE Act
  <2>1. at = "act" /\ UNCHANGED <<game, todo, seen, audit>>
    BY <1>7 DEF Act
  <2>2. CASE UNCHANGED entry /\ at' \in {"raised", "start", "post"}
               /\ (at' = "start" => entry.name = "start_new_run")
    BY <2>1, <2>2 DEF ApTypeOK, ObeyedOnce, Undrifted, FakeIsStuck, CharacterNext, Before
  <2>3. CASE \E status \in {"timeout", "failure"} : Answers(status)
    <3>1. PICK status : Answers(status) /\ status # "success"
      BY <2>3
    <3> QED  BY <1>b, <2>1, <3>1 DEF ApTypeOK, ObeyedOnce, Undrifted, FakeIsStuck, CharacterNext, Before
  <2>4. CASE at' = "verdict" /\ entry' = [entry EXCEPT !.noop = TRUE, !.status = "success"]
    <3>1. IsEntry(entry') /\ entry'.name = entry.name /\ entry'.noop
             /\ entry'.effects = entry.effects /\ entry'.drift = entry.drift
      BY <2>4 DEF ApTypeOK, IsEntry
    <3> QED
      BY <2>1, <2>4, <3>1 DEF ApTypeOK, ObeyedOnce, Undrifted, FakeIsStuck, CharacterNext, Before
  <2> QED  BY <1>7, <2>2, <2>3, <2>4 DEF Act, Go, Fail
<1>8. CASE Post
  <2>1. PICK reply \in Reply(Posted) : Posts(reply) /\
           Go(IF reply.status = "success" /\ entry.name \in {"choose_event", "collect_rewards_and_proceed"}
                THEN "follow" ELSE "verdict")
    BY <1>8 DEF Post
  <2>2. /\ at = "post" /\ UNCHANGED <<todo, seen>> /\ at' \in {"follow", "verdict"}
        /\ at' = "follow" => reply.status = "success"
    BY <1>8, <2>1 DEF Post, Go
  <2> DEFINE name == Posted
  <2>3. reply \in Reply(name) /\ ~entry.lost
    BY <2>1, <2>2 DEF ObeyedOnce
  <2> HIDE DEF name
  <2> QED  BY <2>1, <2>2, <2>3, PostsKeep DEF ApTypeOK, ObeyedOnce, Undrifted, FakeIsStuck, CharacterNext, Before
<1>9. CASE StartNewRun
  <2>1. at = "start" /\ UNCHANGED <<todo, seen>> /\ ~entry.lost /\ ~audit.fake
    BY <1>9 DEF StartNewRun, ObeyedOnce, FakeIsStuck
  <2>2. CASE UNCHANGED <<game, entry, audit>> /\ at' \in {"opened", "post"}
    BY <2>1, <2>2 DEF ApTypeOK, ObeyedOnce, Undrifted, FakeIsStuck, CharacterNext, Before
  <2>3. CASE (\E status \in {"timeout", "failure"} : Answers(status)) /\ UNCHANGED <<game, audit>>
    BY <1>b, <2>1, <2>3 DEF ApTypeOK, ObeyedOnce, Undrifted, FakeIsStuck, CharacterNext, Before
  <2>4. ASSUME NEW name, NEW reply \in Reply(name), Posts(reply),
               at' \in {"start", "opened", "verdict"},
               at' = "start" => reply.status = "success"
        PROVE  ApInv'
    BY <2>1, <2>4, PostsKeep DEF ApTypeOK, ObeyedOnce, Undrifted, FakeIsStuck, CharacterNext, Before
  <2>5. \/ UNCHANGED <<game, entry, audit>> /\ at' \in {"opened", "post"}
        \/ (\E status \in {"timeout", "failure"} : Answers(status)) /\ UNCHANGED <<game, audit>>
        \/ \E name \in {"abandon_run", "confirm_modal"} : \E reply \in Reply(name) :
              /\ Posts(reply) /\ at' \in {"start", "opened", "verdict"}
              /\ at' = "start" => reply.status = "success"
    BY <1>9 DEF StartNewRun, Go
  <2> QED  BY <2>2, <2>3, <2>4, <2>5
<1>10. CASE Opened
  <2>1. /\ IsEntry(entry') /\ at' = "verdict" /\ entry'.status = "success"
        /\ entry'.name = entry.name /\ entry'.effects = entry.effects /\ entry'.drift = entry.drift
    BY <1>10, <1>b DEF Opened
  <2>2. at = "opened" /\ UNCHANGED <<game, todo, seen>>
    BY <1>10 DEF Opened
  <2>3. /\ DOMAIN audit' = {"hollow", "twice", "fake"}
        /\ audit'.hollow = audit.hollow /\ audit'.twice = audit.twice
        /\ audit'.fake => audit.fake \/ game.screen # "CHARACTER_SELECT"
    BY <1>10 DEF Opened, ApTypeOK
  <2>4. entry.name = "start_new_run" /\ ~audit.fake
    BY <2>2 DEF FakeIsStuck
  <2> QED
    BY <2>1, <2>2, <2>3, <2>4 DEF ApTypeOK, ObeyedOnce, Undrifted, FakeIsStuck, CharacterNext, Before
<1>11. CASE FinishInterstitials
  <2>1. at = "follow" /\ UNCHANGED <<todo, seen>> /\ ~entry.lost /\ entry.effects # 0
    BY <1>11 DEF FinishInterstitials, ObeyedOnce
  <2>2. ~(audit.fake /\ at # "raised")
    BY <2>1 DEF FakeIsStuck
  <2>3. CASE (\E status : Answers(status)) /\ UNCHANGED <<game, audit>>
    BY <1>b, <2>1, <2>2, <2>3 DEF ApTypeOK, ObeyedOnce, Undrifted, FakeIsStuck, CharacterNext, Before
  <2>4. ASSUME NEW name, NEW reply \in Reply(name), Posts(reply), at' \in {"follow", "verdict"},
               at' = "follow" => reply.status = "success"
        PROVE  ApInv'
    BY <2>1, <2>2, <2>4, PostsKeep DEF ApTypeOK, ObeyedOnce, Undrifted, FakeIsStuck, CharacterNext, Before
  <2>5. \/ (\E status : Answers(status)) /\ UNCHANGED <<game, audit>>
        \/ \E name : \E reply \in Reply(name) :
              /\ Posts(reply) /\ at' \in {"follow", "verdict"}
              /\ at' = "follow" => reply.status = "success"
    <3> DEFINE name == FollowAction
    <3>1. \/ (\E status : Answers(status)) /\ UNCHANGED <<game, audit>>
          \/ \E reply \in Reply(name) :
                Posts(reply) /\ Go(IF reply.status = "success" THEN "follow" ELSE "verdict")
      BY <1>11 DEF FinishInterstitials
    <3> HIDE DEF name
    <3> QED  BY <3>1 DEF Go
  <2> QED  BY <2>3, <2>4, <2>5
<1>12. CASE Verdict
  <2>1. at = "verdict" /\ UNCHANGED <<game, todo, entry, seen>> /\ at' \in {"reread", "doubt", "raised"}
           /\ (at' = "reread" <=> entry.status = "success")
    BY <1>12 DEF Verdict, Go
  <2>2. /\ DOMAIN audit' = {"hollow", "twice", "fake"}
        /\ audit'.fake = audit.fake /\ audit'.twice = audit.twice
        /\ audit'.hollow => audit.hollow \/ (entry.status = "success" /\ Hollow)
    BY <1>12 DEF Verdict, ApTypeOK
  <2>3. ~audit'.hollow /\ ~audit'.twice
    BY <2>1, <2>2 DEF ObeyedOnce, Hollow
  <2> QED  BY <2>1, <2>2, <2>3 DEF ApTypeOK, ObeyedOnce, Undrifted, FakeIsStuck, CharacterNext, Before
<1>13. CASE FalseNegative
  <2>1. at = "doubt" /\ UNCHANGED <<game, todo, entry>> /\ at' \in {"next", "settle", "raised"}
           /\ DOMAIN seen' = {"current", "valid"}
           /\ (at' = "settle" => entry.name = "end_turn")
    BY <1>13, <1>v DEF FalseNegative, Go, Fail, Onto, ApTypeOK
  <2>2. ~(audit.fake /\ at # "raised")
    BY <2>1 DEF FakeIsStuck
  <2>3. /\ DOMAIN audit' = {"hollow", "twice", "fake"}
        /\ audit'.twice = audit.twice
        /\ audit'.hollow => audit.hollow \/ (seen' \in Validated /\ seen'.current # seen.current
                                                /\ Hollow /\ ~entry.drift)
        /\ audit'.fake => audit.fake \/ (entry.name = "start_new_run" /\ game.screen # "CHARACTER_SELECT")
    BY <1>13 DEF FalseNegative, ApTypeOK
  <2>4. ~audit'.hollow
    BY <1>v, <2>1, <2>3 DEF ObeyedOnce, Undrifted, Hollow
  <2> QED  BY <2>1, <2>2, <2>3, <2>4 DEF ApTypeOK, ObeyedOnce, Undrifted, FakeIsStuck, CharacterNext, Before
<1>13r. CASE Reread \/ Settle
  BY <1>13r, <1>v DEF Reread, Settle, Onto, Same, Go, Fail, ApTypeOK, ObeyedOnce, Undrifted, FakeIsStuck, CharacterNext, Before
<1>14. CASE Navigate
  <2>1. IsGame(game')
    BY <1>14, RepliesAreGames DEF Navigate, ApTypeOK
  <2>2. at = "navigate" /\ UNCHANGED <<todo, entry, seen, audit>> /\ at' \in {"navigate", "reached", "raised"}
    BY <1>14 DEF Navigate, Go, Fail
  <2> QED  BY <2>1, <2>2 DEF ApTypeOK, ObeyedOnce, Undrifted, FakeIsStuck, CharacterNext, Before
<1>15. CASE GameMoves
  <2>1. /\ IsGame(game')
        /\ game'.screen # "CHARACTER_SELECT"
    BY <1>15 DEF GameMoves, ApTypeOK, IsGame, Screens
  <2>2. /\ IsEntry(entry') /\ entry'.name = entry.name /\ entry'.effects = entry.effects
        /\ entry'.noop = entry.noop /\ entry'.status = entry.status /\ entry'.lost = entry.lost
        /\ entry'.drift = TRUE
    BY <1>15 DEF GameMoves, ApTypeOK, IsEntry
  <2> QED  BY <1>15, <2>1, <2>2 DEF GameMoves, ApTypeOK, ObeyedOnce, Undrifted, FakeIsStuck, CharacterNext, Before
<1>16. CASE UNCHANGED apVars
  BY <1>16 DEF apVars, ApTypeOK, ObeyedOnce, Undrifted, FakeIsStuck, CharacterNext, Before
<1> QED
  BY <1>1, <1>2, <1>3, <1>4, <1>5, <1>6, <1>6n, <1>7, <1>8, <1>9, <1>10, <1>11, <1>12, <1>13, <1>13r,
     <1>14, <1>15, <1>16 DEF ApNext

(* An action of a case is not reported done without the game having obeyed *)
(* it, unless it was needless or the page changed by itself; nothing is    *)
(* posted behind a request that was obeyed and whose answer was lost; and a*)
(* case that started no run does not go on as if it had (execute_action,   *)
(* AgentAdapter.act), for any scripts that go on from a new run to its     *)
(* character and any limits.                                               *)
THEOREM ActionsAreObeyedOnce == ScriptsAssumption /\ ApSpec => []DoneMeansDone
<1>1. ScriptsAssumption /\ ApInit => ApInv
  <2> SUFFICES ASSUME ScriptsAssumption, ApInit PROVE ApInv
    OBVIOUS
  <2>1. todo \in Seq(STRING) /\ GoesOn(todo)
    BY DEF ScriptsAssumption, ApInit
  <2>2. IsGame(game)
    BY DEF ApInit, IsGame, Screens
  <2>3. IsEntry(entry) /\ entry.name = "none" /\ at = "next"
    BY DEF ApInit, IsEntry, Entry
  <2>5. DOMAIN seen = {"current", "valid"}
    BY DEF ApInit
  <2>4. DOMAIN audit = {"hollow", "twice", "fake"} /\ ~audit.hollow /\ ~audit.twice /\ ~audit.fake
    BY DEF ApInit
  <2> QED
    BY <2>1, <2>2, <2>3, <2>4, <2>5 DEF ApInv, ApTypeOK, ObeyedOnce, Undrifted, FakeIsStuck, Before
<1>2. ScriptsAssumption /\ ApInv /\ [ApNext]_apVars => ApInv'
  BY ApStep
<1>3. ApInv => DoneMeansDone
  BY DEF ApInv, ObeyedOnce, FakeIsStuck, DoneMeansDone
<1>4. ScriptsAssumption => []ScriptsAssumption
  <2>1. ScriptsAssumption => ScriptsAssumption'
    BY DEF ScriptsAssumption
  <2> QED  BY <2>1, PTL
<1> QED
  BY <1>1, <1>2, <1>3, <1>4, PTL DEF ApSpec

-----------------------------------------------------------------------------
(* The evidence pack.                                                     *)

(* The names of packs are numbers in the order of their creation.          *)
PacksAssumption == Packs \subseteq Nat \ {0} /\ Retention \in Nat

PkSpec == PackInit /\ [][PackNext]_packVars

(* Where a call is, by its next step among those of a whole session end.   *)
StepNames == {"mkdir", "json", "md", "repair", "retain", "copy", "files", "filesMd", "junit", "path",
              "pathMd", "zip", "clear"}
Plan == Create \o Copy \o Export \o <<"clear">>
Left(n, m) == steps = SubSeq(Plan, n, m)

(* The result in the summary is the one the session declared last.         *)
Named == pack.json # NoSummary /\ ~pack.skipped => pack.json.result = hooks.result

(* What a session end has reached when its next step is the n-th.          *)
Reached(n) ==
    /\ n >= 2 => pack.there
    /\ n <= 5 => pruned = "not yet"
    /\ n <= 12 => ~pack.sealed
    /\ n <= 7 => ~pack.json.files
    /\ n = 7 => pack.files = hooks.files
    /\ n >= 3 => Named
Stage ==
    CASE hooks.stage \in {"cases", "raised"} ->
            Left(14, 13) /\ pruned = "not yet" /\ ~pack.sealed /\ ~pack.json.files
      [] hooks.stage \in {"ending", "again"} -> \E n \in 1 .. 14 : Left(n, 13) /\ Reached(n)
      [] hooks.stage = "refreshed" ->
            (\E n \in 9 .. 13 : Left(n, 12)) /\ pack.there /\ Named
      [] hooks.stage = "escaped" -> Left(14, 13) /\ pruned = "not yet" /\ ~pack.sealed
(* Of the types only what the steps rely on.                               *)
PkTypeOK ==
    /\ listed \subseteq Packs /\ IsFiniteSet(listed) /\ current \in Packs \union {0}
    /\ DOMAIN pack = DOMAIN NoPack /\ DOMAIN pack.json = DOMAIN NoSummary
    /\ DOMAIN hooks = DOMAIN NewHooks
    /\ hooks.stage \in {"cases", "ending", "raised", "again", "refreshed", "escaped"}
    /\ hooks.result # "none"
    /\ pack.json # NoSummary => pack.json.result # "none"
PkInv ==
    /\ PkTypeOK /\ Stage
    /\ current = 0 => hooks.stage = "cases"
    /\ pruned = "all" => Cardinality(AllListed) <= Max({Retention, 1})
    /\ pack.sealed => pack.zip = pack.json
    /\ NamesRealFiles

-----------------------------------------------------------------------------
(* The thirteen steps of a session end, and the parts that are done again  *)
(* later.                                                                  *)
LEMMA PlanSteps ==
    /\ Plan \in Seq(StepNames) /\ Len(Plan) = 13
    /\ Plan[1] = "mkdir" /\ Plan[2] = "json" /\ Plan[3] = "md" /\ Plan[4] = "repair"
    /\ Plan[5] = "retain" /\ Plan[6] = "copy" /\ Plan[7] = "files" /\ Plan[8] = "filesMd"
    /\ Plan[9] = "junit" /\ Plan[10] = "path" /\ Plan[11] = "pathMd" /\ Plan[12] = "zip"
    /\ Plan[13] = "clear"
<1> USE DEF Plan, Create, Copy, Export
<1>1. Plan \in Seq(StepNames)
  BY DEF StepNames
<1>2. Len(Plan) = 13
  OBVIOUS
<1>3. Plan[1] = "mkdir" /\ Plan[2] = "json" /\ Plan[3] = "md" /\ Plan[4] = "repair"
  OBVIOUS
<1>4. Plan[5] = "retain" /\ Plan[6] = "copy" /\ Plan[7] = "files" /\ Plan[8] = "filesMd"
  OBVIOUS
<1>5. Plan[9] = "junit" /\ Plan[10] = "path" /\ Plan[11] = "pathMd" /\ Plan[12] = "zip"
  OBVIOUS
<1>6. Plan[13] = "clear"
  OBVIOUS
<1> QED  BY <1>1, <1>2, <1>3, <1>4, <1>5, <1>6 DEF StepNames

LEMMA PlanParts ==
    /\ Create \o Copy \o Export \o <<"clear">> = SubSeq(Plan, 1, 13)
    /\ Export = SubSeq(Plan, 9, 12)
    /\ <<"clear">> = SubSeq(Plan, 13, 13)
    /\ SubSeq(Plan, 14, 13) = << >> /\ SubSeq(Plan, 13, 12) = << >>
<1>1. Plan = SubSeq(Plan, 1, 13)
  BY PlanSteps, SubSeqFull
<1>2. Export = SubSeq(Plan, 9, 12)
  BY PlanSteps DEF Export
<1>3. <<"clear">> = SubSeq(Plan, 13, 13)
  BY PlanSteps
<1>4. SubSeq(Plan, 14, 13) = << >> /\ SubSeq(Plan, 13, 12) = << >>
  BY PlanSteps, SubSeqEmpty
<1> QED  BY <1>1, <1>2, <1>3, <1>4 DEF Plan

(* A walk along the plan, one step at a time.                              *)
LEMMA Walk ==
    ASSUME NEW n \in 1 .. 14, NEW m \in {12, 13}, n <= m + 1, Left(n, m)
    PROVE  /\ steps = << >> <=> n = m + 1
           /\ n <= m => Head(steps) = Plan[n] /\ Tail(steps) = SubSeq(Plan, n + 1, m)
<1>1. CASE n = m + 1
  BY <1>1, PlanParts DEF Left
<1>2. CASE n <= m
  <2>1. n \in 1 .. Len(Plan) /\ m \in n .. Len(Plan)
    BY <1>2, PlanSteps
  <2>2. Head(steps) = Plan[n] /\ Tail(steps) = SubSeq(Plan, n + 1, m)
    BY <2>1, PlanSteps, HeadTailOfSubSeq DEF Left
  <2>3. Len(steps) = m - n + 1
    <3>1. \A i \in n .. m : Plan[i] \in StepNames
      <4> TAKE i \in n .. m
      <4>1. i \in 1 .. Len(Plan)
        BY <2>1, PlanSteps
      <4> QED  BY <4>1, PlanSteps, ElementOfSeq
    <3> QED  BY <1>2, <3>1, SubSeqProperties DEF Left
  <2>4. steps # << >>
    BY <1>2, <2>3
  <2> QED  BY <1>2, <2>2, <2>4
<1> QED  BY <1>1, <1>2

-----------------------------------------------------------------------------
(* What the first packs by name leave behind (_enforce_retention).         *)
LEMMA MaxOfTwo ==
    ASSUME NEW a \in Nat, NEW b \in Nat
    PROVE  Max({a, b}) \in Nat /\ Max({a, b}) >= a /\ Max({a, b}) >= b
<1>1. \E x \in {a, b} : \A y \in {a, b} : x >= y
  <2>1. a >= b \/ b >= a
    OBVIOUS
  <2> QED  BY <2>1
<1> QED  BY <1>1 DEF Max

Rank(K, p) == Cardinality({q \in K : q < p})

(* The rank of a pack among the older ones.                                *)
LEMMA RankIsBounded ==
    ASSUME NEW K, K \subseteq Nat, IsFiniteSet(K), NEW p \in K
    PROVE  /\ Rank(K, p) \in Nat /\ Rank(K, p) < Cardinality(K)
           /\ \A r \in K : r < p => Rank(K, r) < Rank(K, p)
<1> DEFINE Below(x) == {q \in K : q < x}
<1>1. \A x : IsFiniteSet(Below(x)) /\ Cardinality(Below(x)) \in Nat
  <2> TAKE x
  <2>1. Below(x) \in SUBSET K
    OBVIOUS
  <2> QED  BY <2>1, FS_Subset, FS_CardinalityType
<1>2. Cardinality(K) \in Nat
  BY FS_CardinalityType
<1>3. Cardinality(Below(p)) < Cardinality(K)
  <2>1. Below(p) \in SUBSET K /\ p \notin Below(p)
    OBVIOUS
  <2>2. Below(p) # K
    BY <2>1
  <2>3. Cardinality(Below(p)) <= Cardinality(K) /\ Cardinality(K) # Cardinality(Below(p))
    BY <2>1, <2>2, FS_Subset
  <2> QED  BY <1>1, <1>2, <2>3
<1>4. ASSUME NEW r \in K, r < p PROVE Cardinality(Below(r)) < Cardinality(Below(p))
  <2>1. Below(r) \in SUBSET Below(p) /\ r \in Below(p) /\ r \notin Below(r)
    <3>1. p \in Nat /\ r \in Nat /\ \A q \in K : q \in Nat /\ (q < r => q < p)
      BY <1>4
    <3>2. \A q \in Below(r) : q \in Below(p)
      BY <3>1
    <3>3. r \in Below(p) /\ ~(r < r)
      BY <1>4, <3>1
    <3> QED  BY <3>2, <3>3
  <2>2. Below(r) # Below(p)
    BY <2>1
  <2>3. /\ Cardinality(Below(r)) <= Cardinality(Below(p))
        /\ Cardinality(Below(p)) # Cardinality(Below(r))
    BY <1>1, <2>1, <2>2, FS_Subset
  <2> QED  BY <1>1, <2>3
<1> QED  BY <1>1, <1>3, <1>4 DEF Rank

LEMMA FirstGo ==
    ASSUME NEW S, S \subseteq Nat, IsFiniteSet(S), NEW c, NEW r \in Nat,
           NEW excess \in Nat, excess = Cardinality(S) - r,
           NEW doomed, doomed \subseteq S \ {c},
           \A p \in S \ {c} : p \in doomed <=> Rank(S \ {c}, p) < excess
    PROVE  Cardinality(S \ doomed) <= r \/ Cardinality(S \ doomed) <= 1
<1> DEFINE K == S \ {c}
           V == {p \in K : ~(Rank(K, p) < excess)}
           one == IF c \in S THEN 1 ELSE 0
<1>1. IsFiniteSet(K) /\ Cardinality(K) = Cardinality(S) - one /\ Cardinality(S) \in Nat
  BY FS_RemoveElement, FS_CardinalityType
<1>2. /\ \A p \in K : Rank(K, p) \in Nat /\ Rank(K, p) < Cardinality(K)
      /\ \A p, q \in K : p < q => Rank(K, p) < Rank(K, q)
  <2>1. K \subseteq Nat
    OBVIOUS
  <2> HIDE DEF K
  <2> QED  BY <1>1, <2>1, RankIsBounded
<1> DEFINE top == Cardinality(K) - 1
           f == [p \in V |-> Rank(K, p)]
<1>3. top \in Int /\ Cardinality(K) \in Nat
  BY <1>1, FS_CardinalityType
<1>4. f \in Injection(V, excess .. top)
  <2>1. \A p \in V : Rank(K, p) \in excess .. top
    <3> HIDE DEF K
    <3> SUFFICES ASSUME NEW p \in V PROVE Rank(K, p) \in excess .. top
      OBVIOUS
    <3>1. p \in K /\ ~(Rank(K, p) < excess)
      OBVIOUS
    <3>2. Rank(K, p) \in Nat /\ Rank(K, p) < Cardinality(K)
      BY <1>2, <3>1
    <3> QED  BY <1>3, <3>1, <3>2
  <2>2. f \in [V -> excess .. top]
    BY <2>1
  <2>3. ASSUME NEW p \in V, NEW q \in V, f[p] = f[q] PROVE p = q
    <3>1. p \in Nat /\ q \in Nat /\ p \in K /\ q \in K /\ Rank(K, p) = Rank(K, q)
      BY <2>3
    <3>2. ~(p < q) /\ ~(q < p)
      <4> HIDE DEF K
      <4>1. /\ Rank(K, p) \in Nat /\ Rank(K, q) \in Nat
            /\ p < q => Rank(K, p) < Rank(K, q)
            /\ q < p => Rank(K, q) < Rank(K, p)
        BY <1>2, <3>1
      <4> QED  BY <3>1, <4>1
    <3> QED  BY <3>1, <3>2
  <2> HIDE DEF f
  <2>4. DOMAIN f = V
    BY <2>2
  <2> QED  BY <2>2, <2>3, <2>4 DEF Injection, IsInjective
<1> HIDE DEF f
<1>5. /\ IsFiniteSet(excess .. top)
      /\ Cardinality(excess .. top) = IF excess > top THEN 0 ELSE top - excess + 1
  <2>1. excess \in Int /\ top \in Int
    BY <1>3
  <2> HIDE DEF top
  <2> QED  BY <2>1, FS_Interval
<1>6. /\ IsFiniteSet(V) /\ Cardinality(V) \in Nat
      /\ Cardinality(V) <= IF excess > top THEN 0 ELSE top - excess + 1
  <2> HIDE DEF V
  <2>1. IsFiniteSet(V) /\ Cardinality(V) <= Cardinality(excess .. top)
    BY <1>4, <1>5, FS_Injection
  <2> QED  BY <1>5, <2>1, FS_CardinalityType
<1>7. Cardinality(S \ doomed) <= Cardinality(V) + one
  <2>1. (c \in S => S \ doomed = V \union {c}) /\ (c \notin S => S \ doomed = V)
    OBVIOUS
  <2>2. c \notin V
    OBVIOUS
  <2> HIDE DEF V
  <2>3. IsFiniteSet(V) /\ Cardinality(V) \in Nat
    BY <1>6
  <2>4. CASE c \in S
    <3>1. Cardinality(V \union {c}) = Cardinality(V) + 1
      BY <2>2, <2>3, FS_AddElement
    <3> DEFINE kept == Cardinality(S \ doomed)
    <3>2. kept = Cardinality(V) + 1 /\ one = 1
      BY <2>1, <2>4, <3>1
    <3> HIDE DEF kept, one
    <3> QED  BY <2>3, <3>2 DEF kept
  <2>5. CASE c \notin S
    <3> DEFINE kept == Cardinality(S \ doomed)
    <3>2. kept = Cardinality(V) /\ one = 0
      BY <2>1, <2>5
    <3> HIDE DEF kept, one
    <3> QED  BY <2>3, <3>2 DEF kept
  <2> QED  BY <2>4, <2>5
<1>8. Cardinality(S \ doomed) \in Nat
  BY FS_Difference, FS_CardinalityType
<1> HIDE DEF V, K
<1> QED  BY <1>1, <1>3, <1>6, <1>7, <1>8

(* A step is recognised by its name.                                       *)
LEMMA PlanNames ==
    ASSUME NEW n \in 1 .. 13
    PROVE  /\ Plan[n] = "mkdir" <=> n = 1
           /\ Plan[n] = "json" <=> n = 2
           /\ Plan[n] = "md" <=> n = 3
           /\ Plan[n] = "repair" <=> n = 4
           /\ Plan[n] = "retain" <=> n = 5
           /\ Plan[n] = "copy" <=> n = 6
           /\ Plan[n] = "files" <=> n = 7
           /\ Plan[n] = "filesMd" <=> n = 8
           /\ Plan[n] = "junit" <=> n = 9
           /\ Plan[n] = "path" <=> n = 10
           /\ Plan[n] = "pathMd" <=> n = 11
           /\ Plan[n] = "zip" <=> n = 12
           /\ Plan[n] = "clear" <=> n = 13
<1>1. \/ n = 1 \/ n = 2 \/ n = 3 \/ n = 4 \/ n = 5 \/ n = 6 \/ n = 7 \/ n = 8 \/ n = 9 \/ n = 10
      \/ n = 11 \/ n = 12 \/ n = 13
  OBVIOUS
<1> QED  BY <1>1, PlanSteps

-----------------------------------------------------------------------------
(* The step a session end or a refresh is about to take.                   *)
LEMMA Onwards ==
    ASSUME Stage, hooks.stage \in {"cases", "ending", "raised", "again", "refreshed", "escaped"},
           steps # << >>
    PROVE  \E n \in 1 .. 13 :
              /\ Head(steps) = Plan[n]
              /\ \/ /\ hooks.stage \in {"ending", "again"} /\ Reached(n)
                    /\ Tail(steps) = SubSeq(Plan, n + 1, 13)
                 \/ /\ hooks.stage = "refreshed" /\ n \in 9 .. 12 /\ pack.there /\ Named
                    /\ Tail(steps) = SubSeq(Plan, n + 1, 12)
<1>1. ~Left(14, 13)
  BY PlanParts DEF Left
<1>2. CASE hooks.stage \in {"ending", "again"}
  <2>1. PICK n \in 1 .. 14 : Left(n, 13) /\ Reached(n)
    BY <1>2 DEF Stage
  <2>2. n <= 13 + 1 /\ (n # 13 + 1 => n <= 13)
    OBVIOUS
  <2>3. n # 13 + 1
    BY <2>1, <2>2, Walk
  <2>4. n \in 1 .. 13 /\ Head(steps) = Plan[n] /\ Tail(steps) = SubSeq(Plan, n + 1, 13)
    <3>1. n \in 1 .. 13 /\ n <= 13 /\ 13 \in {12, 13} /\ n <= 13 + 1
      BY <2>2, <2>3
    <3> QED  BY <2>1, <3>1, Walk
  <2> QED  BY <1>2, <2>1, <2>4
<1>3. CASE hooks.stage = "refreshed"
  <2>1. PICK n \in 9 .. 13 : Left(n, 12)
    BY <1>3 DEF Stage
  <2>2. n \in 1 .. 14 /\ n <= 12 + 1 /\ (n # 12 + 1 => n <= 12 /\ n \in 9 .. 12 /\ n \in 1 .. 13)
    OBVIOUS
  <2>3. n # 12 + 1
    BY <2>1, <2>2, Walk
  <2>4. Head(steps) = Plan[n] /\ Tail(steps) = SubSeq(Plan, n + 1, 12)
    BY <2>1, <2>2, <2>3, Walk
  <2> QED  BY <1>3, <2>2, <2>3, <2>4 DEF Stage
<1> QED  BY <1>1, <1>2, <1>3 DEF Stage

(* After that step, when it keeps the stage of the session.                *)
LEMMA StageOn ==
    ASSUME NEW n \in 1 .. 13, hooks'.stage = hooks.stage,
           \/ /\ hooks.stage \in {"ending", "again"} /\ Reached(n + 1)'
              /\ steps' = SubSeq(Plan, n + 1, 13)
           \/ /\ hooks.stage = "refreshed" /\ n \in 9 .. 12 /\ pack'.there /\ Named'
              /\ steps' = SubSeq(Plan, n + 1, 12)
    PROVE  Stage'
<1>1. n + 1 \in 1 .. 14
  OBVIOUS
<1>2. CASE hooks.stage \in {"ending", "again"}
  <2>1. \E k \in 1 .. 14 : steps' = SubSeq(Plan, k, 13) /\ Reached(k)'
    BY <1>1, <1>2
  <2> QED  BY <1>2, <2>1 DEF Stage, Left
<1>3. CASE hooks.stage = "refreshed"
  <2>1. n + 1 \in 9 .. 13
    BY <1>3
  <2>2. \E k \in 9 .. 13 : steps' = SubSeq(Plan, k, 12)
    BY <1>3, <2>1
  <2> QED  BY <1>3, <2>2 DEF Stage, Left
<1> QED  BY <1>2, <1>3

(* Every step of the pipeline keeps the invariant.                         *)
LEMMA PkStep == ASSUME PacksAssumption, PkInv, [PackNext]_packVars PROVE PkInv'
<1>t. /\ PkTypeOK /\ Stage /\ NamesRealFiles
      /\ current = 0 => hooks.stage = "cases"
      /\ pruned = "all" => Cardinality(AllListed) <= Max({Retention, 1})
      /\ pack.sealed => pack.zip = pack.json
  BY DEF PkInv
<1> DEFINE Step(n) ==
              /\ Head(steps) = Plan[n]
              /\ \/ /\ hooks.stage \in {"ending", "again"} /\ Reached(n)
                    /\ Tail(steps) = SubSeq(Plan, n + 1, 13)
                 \/ /\ hooks.stage = "refreshed" /\ n \in 9 .. 12 /\ pack.there /\ Named
                    /\ Tail(steps) = SubSeq(Plan, n + 1, 12)
<1>1. CASE Open
  <2>1. UNCHANGED <<listed, stray, pack, space, steps, hooks, pruned>> /\ current' \in Packs /\ current = 0
    BY <1>1 DEF Open
  <2>2. PkTypeOK' /\ Stage'
    BY <1>t, <2>1 DEF PkTypeOK, Stage, Left, Reached, Named
  <2>3. pruned = "not yet"
    BY <1>t, <2>1 DEF Stage
  <2>4. current' # 0
    BY <2>1 DEF PacksAssumption
  <2> QED  BY <1>t, <2>1, <2>2, <2>3, <2>4 DEF PkInv, NamesRealFiles
<1>2. CASE CaseEnd
  <2>1. /\ UNCHANGED <<listed, stray, current, pack, space, steps, pruned>> /\ hooks.stage = "cases"
        /\ DOMAIN hooks' = DOMAIN hooks /\ hooks'.stage = hooks.stage /\ hooks'.result = hooks.result
    BY <1>2, <1>t DEF CaseEnd, PkTypeOK, NewHooks
  <2>2. PkTypeOK' /\ Stage'
    BY <1>t, <2>1 DEF PkTypeOK, Stage, Left
  <2> QED  BY <1>t, <2>1, <2>2 DEF PkInv, NamesRealFiles, AllListed
<1>3. CASE SessionEnd
  <2>1. /\ UNCHANGED <<listed, stray, current, pack, space, pruned>> /\ hooks.stage \in {"cases", "raised"}
        /\ current # 0
        /\ DOMAIN hooks' = DOMAIN hooks /\ hooks'.stage \in {"ending", "again"}
        /\ hooks'.result # "none" /\ steps' = SubSeq(Plan, 1, 13)
    BY <1>3, <1>t, PlanParts DEF SessionEnd, PkTypeOK, NewHooks, Idle
  <2>2. PkTypeOK'
    BY <1>t, <2>1 DEF PkTypeOK
  <2>3. Stage'
    <3>1. pruned = "not yet" /\ ~pack.sealed /\ ~pack.json.files
      BY <1>t, <2>1 DEF Stage
    <3>2. Reached(1)'
      <4>1. ~(1 >= 2) /\ ~(1 = 7) /\ ~(1 >= 3)
        OBVIOUS
      <4>2. pruned' = "not yet" /\ ~pack'.sealed /\ ~pack'.json.files
        BY <2>1, <3>1
      <4> QED  BY <4>1, <4>2 DEF Reached
    <3>3. \E k \in 1 .. 14 : steps' = SubSeq(Plan, k, 13) /\ Reached(k)'
      <4>1. 1 \in 1 .. 14
        OBVIOUS
      <4> QED  BY <2>1, <3>2, <4>1
    <3> QED  BY <2>1, <3>3 DEF Stage, Left
  <2> QED  BY <1>t, <2>1, <2>2, <2>3 DEF PkInv, NamesRealFiles, AllListed
<1>4. CASE Refresh
  <2>1. /\ UNCHANGED <<listed, stray, current, pack, space, pruned>> /\ hooks.stage \in {"ending", "again"}
        /\ DOMAIN hooks' = DOMAIN hooks /\ hooks'.stage = "refreshed" /\ hooks'.result = hooks.result
        /\ steps' = SubSeq(Plan, 9, 12) /\ pack.there /\ steps = << >>
        /\ current # 0
    BY <1>4, <1>t, PlanParts DEF Refresh, PkTypeOK, NewHooks, Idle
  <2>2. PkTypeOK'
    BY <1>t, <2>1 DEF PkTypeOK
  <2>3. Stage'
    <3>1. PICK n \in 1 .. 14 : Left(n, 13) /\ Reached(n)
      BY <1>t, <2>1 DEF Stage
    <3>2. n = 13 + 1
      <4>1. n <= 13 + 1
        OBVIOUS
      <4> QED  BY <2>1, <3>1, <4>1, Walk
    <3>3. Named
      BY <3>1, <3>2 DEF Reached
    <3>4. \E k \in 9 .. 13 : steps' = SubSeq(Plan, k, 12)
      <4>1. 9 \in 9 .. 13
        OBVIOUS
      <4> QED  BY <2>1, <4>1
    <3> QED  BY <2>1, <3>3, <3>4 DEF Stage, Left, Named
  <2> QED  BY <1>t, <2>1, <2>2, <2>3 DEF PkInv, NamesRealFiles, AllListed
<1>5. CASE Leave
  <2>1. /\ current' = 0 /\ pack' = NoPack /\ hooks' = NewHooks /\ steps' = << >> /\ pruned' = "not yet"
        /\ listed' = listed \/ (current \in Packs /\ listed' = listed \union {current})
    BY <1>5, <1>t DEF Leave, PkTypeOK
  <2>2. listed' \subseteq Packs /\ IsFiniteSet(listed')
    BY <1>t, <2>1, FS_AddElement DEF PkTypeOK
  <2>3. PkTypeOK' /\ Stage'
    BY <2>1, <2>2, PlanParts DEF PkTypeOK, Stage, Left, NoPack, NewHooks, NoSummary
  <2>4. hooks'.stage = "cases" /\ ~pack'.sealed /\ NamesRealFiles'
    BY <2>1 DEF NewHooks, NoPack, NoSummary, NamesRealFiles
  <2> QED  BY <2>1, <2>3, <2>4 DEF PkInv
<1>6. CASE Mkdir
  <2>1. /\ steps # << >> /\ Head(steps) = "mkdir" /\ UNCHANGED <<current, listed, hooks, pruned>>
        /\ steps' = Tail(steps) /\ pack' = [pack EXCEPT !.there = TRUE]
    BY <1>6 DEF Mkdir, At, Onward
  <2>2. PICK n \in 1 .. 13 : Step(n)
    BY <1>t, <2>1, Onwards DEF PkTypeOK
  <2>3. n = 1 /\ hooks.stage \in {"ending", "again"}
    BY <2>1, <2>2, PlanSteps
  <2>4. /\ DOMAIN pack' = DOMAIN pack /\ pack'.there /\ pack'.json = pack.json /\ pack'.zip = pack.zip
        /\ pack'.sealed = pack.sealed /\ pack'.files = pack.files /\ pack'.skipped = pack.skipped
    BY <1>t, <2>1 DEF PkTypeOK, NoPack
  <2>5. PkTypeOK'
    BY <1>t, <2>1, <2>4 DEF PkTypeOK
  <2>6. Reached(n + 1)'
    <3>1. pruned = "not yet" /\ ~pack.sealed /\ ~pack.json.files
      <4>1. Reached(1)
        BY <2>2, <2>3
      <4>2. 1 <= 5 /\ 1 <= 12 /\ 1 <= 7
        OBVIOUS
      <4> QED  BY <4>1, <4>2 DEF Reached
    <3>2. n + 1 = 2 /\ ~(2 = 7) /\ ~(2 >= 3)
      BY <2>3
    <3> QED  BY <2>1, <2>4, <3>1, <3>2 DEF Reached
  <2>7. Stage'
    BY <2>1, <2>2, <2>3, <2>6, StageOn
  <2> QED  BY <1>t, <2>1, <2>4, <2>5, <2>7 DEF PkInv, NamesRealFiles, AllListed
<1>7. CASE WriteJson
  <2>1. /\ steps # << >> /\ Head(steps) \in {"json", "files", "path"}
        /\ UNCHANGED <<current, listed, hooks, pruned>> /\ steps' = Tail(steps)
    BY <1>7 DEF WriteJson, At, Onward
  <2>2. PICK n \in 1 .. 13 : Step(n)
    BY <1>t, <2>1, Onwards DEF PkTypeOK
  <2>3. \/ n = 2 /\ Head(steps) = "json" /\ hooks.stage # "refreshed"
        \/ n = 7 /\ Head(steps) = "files" /\ hooks.stage # "refreshed"
        \/ n = 10 /\ Head(steps) = "path"
    BY <2>1, <2>2, PlanNames
  <2>4. /\ n \in {2, 7, 10} /\ n >= 2 /\ n <= 12 /\ n + 1 # 7
        /\ n + 1 <= 5 => n <= 5 /\ n = 2
        /\ n + 1 <= 7 => n <= 7 /\ n = 2
        /\ n # 2 => n >= 3
        /\ n = 2 => n <= 5 /\ n <= 7
    BY <2>3
  <2>5. CASE n # 2 /\ pack' = pack
    <3>1. PkTypeOK'
      BY <1>t, <2>1, <2>5 DEF PkTypeOK
    <3>2. Reached(n) => Reached(n + 1)'
      BY <2>1, <2>4, <2>5 DEF Reached, Named
    <3>3. Stage'
      BY <2>1, <2>2, <2>5, <3>2, StageOn DEF Named
    <3> QED  BY <1>t, <2>1, <2>5, <3>1, <3>3 DEF PkInv, NamesRealFiles, AllListed
  <2>6. CASE pack' = [pack EXCEPT !.skipped = TRUE]
    <3>1. /\ DOMAIN pack' = DOMAIN pack /\ pack'.there = pack.there /\ pack'.json = pack.json
          /\ pack'.zip = pack.zip /\ pack'.sealed = pack.sealed /\ pack'.files = pack.files
          /\ pack'.skipped
      BY <1>t, <2>6 DEF PkTypeOK, NoPack
    <3>2. PkTypeOK'
      BY <1>t, <2>1, <3>1 DEF PkTypeOK
    <3>3. Named'
      BY <3>1 DEF Named
    <3>4. Reached(n) => Reached(n + 1)'
      BY <2>1, <2>4, <3>1, <3>3 DEF Reached
    <3>5. Stage'
      BY <2>1, <2>2, <3>1, <3>3, <3>4, StageOn
    <3> QED  BY <1>t, <2>1, <3>1, <3>2, <3>5 DEF PkInv, NamesRealFiles, AllListed
  <2>7. CASE /\ Head(steps) = "json" \/ pack.json # NoSummary
             /\ pack' = [pack EXCEPT !.json = SummaryOf(Head(steps)), !.sealed = FALSE]
    <3>1. /\ DOMAIN pack' = DOMAIN pack /\ pack'.there = pack.there
          /\ pack'.json = SummaryOf(Head(steps)) /\ ~pack'.sealed /\ pack'.files = pack.files
          /\ pack'.skipped = pack.skipped
      BY <1>t, <2>7 DEF PkTypeOK, NoPack
    <3>2. /\ DOMAIN pack'.json = DOMAIN NoSummary
          /\ n = 2 => pack'.json.result = hooks.result /\ ~pack'.json.files
          /\ n # 2 => pack.json # NoSummary /\ pack'.json.result = pack.json.result
          /\ n = 7 => pack'.json.files = hooks.files
          /\ n = 10 => pack'.json.files = pack.json.files
      <4>1. CASE n = 2
        BY <2>3, <3>1, <4>1 DEF SummaryOf, NoSummary
      <4>2. CASE n = 7
        <5>1. Head(steps) = "files" /\ pack.json # NoSummary
          BY <2>3, <2>7, <4>2
        <5>2. pack'.json = [pack.json EXCEPT !.files = hooks.files]
          BY <3>1, <5>1 DEF SummaryOf
        <5>3. /\ DOMAIN pack'.json = DOMAIN NoSummary /\ pack'.json.result = pack.json.result
              /\ pack'.json.files = hooks.files
          BY <1>t, <5>2 DEF NoSummary, PkTypeOK
        <5> QED  BY <4>2, <5>1, <5>3
      <4>3. CASE n = 10
        <5>1. Head(steps) = "path" /\ pack.json # NoSummary
          BY <2>3, <2>7, <4>3
        <5>2. pack'.json = [pack.json EXCEPT !.path = TRUE]
          BY <3>1, <5>1 DEF SummaryOf
        <5>3. /\ DOMAIN pack'.json = DOMAIN NoSummary /\ pack'.json.result = pack.json.result
              /\ pack'.json.files = pack.json.files
          BY <1>t, <5>2 DEF NoSummary, PkTypeOK
        <5> QED  BY <4>3, <5>1, <5>3
      <4> QED  BY <2>4, <4>1, <4>2, <4>3
    <3>3. pack'.json.result # "none" /\ pack'.json # NoSummary
      <4>1. pack'.json.result # "none"
        BY <1>t, <3>2 DEF PkTypeOK
      <4> QED  BY <4>1 DEF NoSummary
    <3>4. PkTypeOK'
      BY <1>t, <2>1, <3>1, <3>2, <3>3 DEF PkTypeOK
    <3>5. /\ pack.there
          /\ n = 2 => pruned = "not yet"
          /\ n = 7 => pack.files = hooks.files
          /\ n # 2 => Named
      <4>1. CASE n = 2
        <5>1. Reached(2) /\ 2 >= 2 /\ 2 <= 5
          BY <2>2, <2>3, <4>1
        <5> QED  BY <4>1, <5>1 DEF Reached
      <4>2. CASE n = 7
        <5>1. Reached(7) /\ 7 >= 2 /\ 7 >= 3
          BY <2>2, <2>3, <4>2
        <5> QED  BY <4>2, <5>1 DEF Reached
      <4>3. CASE n = 10
        <5>1. 10 >= 2 /\ 10 >= 3
          OBVIOUS
        <5> QED  BY <2>2, <4>3, <5>1 DEF Reached
      <4> QED  BY <2>4, <4>1, <4>2, <4>3
    <3>6. Named'
      BY <2>1, <3>1, <3>2, <3>5 DEF Named
    <3>7. Reached(n + 1)'
      BY <2>1, <2>4, <3>1, <3>2, <3>5, <3>6 DEF Reached
    <3>8. Stage'
      BY <2>1, <2>2, <3>1, <3>5, <3>6, <3>7, StageOn
    <3>9. NamesRealFiles'
      BY <1>t, <2>4, <3>1, <3>2, <3>5 DEF NamesRealFiles
    <3>10. pruned' = "all" => AllListed' = AllListed
      BY <2>1, <3>2, <3>3, <3>5 DEF AllListed
    <3> QED  BY <1>t, <2>1, <3>1, <3>4, <3>8, <3>9, <3>10 DEF PkInv
  <2> QED  BY <1>7, <2>3, <2>5, <2>6, <2>7 DEF WriteJson
<1>9. CASE WriteReport
  <2>1. /\ steps # << >> /\ Head(steps) \in {"md", "filesMd", "pathMd", "repair", "junit"}
        /\ UNCHANGED <<current, listed, pack, hooks, pruned>> /\ steps' = Tail(steps)
    BY <1>9 DEF WriteReport, At, Onward
  <2>2. PICK n \in 1 .. 13 : Step(n)
    BY <1>t, <2>1, Onwards DEF PkTypeOK
  <2>3. n = 3 \/ n = 4 \/ n = 8 \/ n = 9 \/ n = 11
    BY <2>1, <2>2, PlanNames
  <2>4. PkTypeOK'
    BY <1>t, <2>1 DEF PkTypeOK
  <2>5. Reached(n) => Reached(n + 1)'
    <3>1. /\ n >= 2 /\ n >= 3 /\ n + 1 # 7
          /\ n + 1 <= 5 => n <= 5
          /\ n + 1 <= 12 => n <= 12
          /\ n + 1 <= 7 => n <= 7
      BY <2>3
    <3> QED  BY <2>1, <3>1 DEF Reached, Named
  <2>6. Stage'
    BY <2>1, <2>2, <2>5, StageOn DEF Named
  <2> QED  BY <1>t, <2>1, <2>4, <2>6 DEF PkInv, NamesRealFiles, AllListed
<1>10. CASE Retain
  <2>1. /\ steps # << >> /\ Head(steps) = "retain" /\ UNCHANGED <<current, hooks>> /\ steps' = Tail(steps)
    BY <1>10 DEF Retain, At, Onward
  <2>2. PICK n \in 1 .. 13 : Step(n)
    BY <1>t, <2>1, Onwards DEF PkTypeOK
  <2>3. n = 5 /\ hooks.stage \in {"ending", "again"}
    BY <2>1, <2>2, PlanSteps
  <2>4. PICK gone \in SUBSET Doomed :
          /\ listed' = listed \ gone /\ pack' = (IF current \in gone THEN NoPack ELSE pack)
          /\ pruned' = IF gone = Doomed THEN "all" ELSE "some"
    BY <1>10 DEF Retain
  <2>5. current \notin gone /\ pack' = pack
    BY <2>4 DEF Doomed
  <2>6. PkTypeOK'
    BY <1>t, <2>1, <2>4, <2>5, FS_Difference DEF PkTypeOK
  <2>7. Stage'
    <3>1. pack.there /\ ~pack.sealed /\ ~pack.json.files /\ Named
      <4>1. Reached(5)
        BY <2>2, <2>3
      <4>2. 5 >= 2 /\ 5 <= 12 /\ 5 <= 7 /\ 5 >= 3
        OBVIOUS
      <4> QED  BY <4>1, <4>2 DEF Reached
    <3>2. Reached(6)'
      <4>1. ~(6 <= 5) /\ ~(6 = 7)
        OBVIOUS
      <4> QED  BY <2>1, <2>5, <3>1, <4>1 DEF Reached, Named
    <3>3. n + 1 = 6
      BY <2>3
    <3> QED  BY <2>1, <2>2, <2>3, <3>2, <3>3, StageOn
  <2>8. ASSUME pruned' = "all" PROVE Cardinality(AllListed') <= Max({Retention, 1})
    <3>1. gone = Doomed
      BY <2>4, <2>8
    <3>2. AllListed' = AllListed \ Doomed
      BY <2>1, <2>4, <2>5, <3>1 DEF AllListed
    <3>3. /\ Max({Retention, 1}) \in Nat /\ Max({Retention, 1}) >= Retention
          /\ Max({Retention, 1}) >= 1 /\ Retention \in Nat
      BY MaxOfTwo DEF PacksAssumption
    <3>5. AllListed \subseteq Nat /\ IsFiniteSet(AllListed) /\ Cardinality(AllListed) \in Nat
      <4>1. IsFiniteSet(listed) /\ IsFiniteSet(listed \union {current})
        BY <1>t, FS_AddElement DEF PkTypeOK
      <4>2. listed \subseteq Nat /\ current \in Nat
        <5>1. listed \subseteq Packs /\ current \in Packs \union {0}
          BY <1>t DEF PkTypeOK
        <5>2. \A p \in Packs : p \in Nat
          BY DEF PacksAssumption
        <5> QED  BY <5>1, <5>2
      <4> QED  BY <4>1, <4>2, FS_CardinalityType DEF AllListed
    <3>6. CASE Cardinality(AllListed) <= Retention
      <4>1. AllListed' = AllListed
        BY <3>2, <3>6 DEF Doomed
      <4> QED  BY <3>3, <3>5, <3>6, <4>1
    <3>7. CASE ~(Cardinality(AllListed) <= Retention)
      <4>1. Excess \in Nat /\ Excess = Cardinality(AllListed) - Retention
        BY <3>3, <3>5, <3>7 DEF Excess
      <4>2. Doomed = {p \in AllListed \ {current} :
                         Cardinality({q \in AllListed \ {current} : q < p}) < Excess}
        BY <3>7 DEF Doomed
      <4>3. Cardinality(AllListed \ Doomed) <= Retention \/ Cardinality(AllListed \ Doomed) <= 1
        <5> DEFINE S == AllListed  excess == Excess  doomed == Doomed
        <5>1. /\ S \subseteq Nat /\ IsFiniteSet(S) /\ Retention \in Nat /\ excess \in Nat
              /\ excess = Cardinality(S) - Retention
          BY <3>3, <3>5, <4>1
        <5>3. doomed \subseteq S \ {current}
          BY <4>2
        <5>4. \A p \in S \ {current} :
                 p \in doomed <=> Rank(S \ {current}, p) < excess
          BY <4>2 DEF Rank
        <5> HIDE DEF S, excess, doomed
        <5>2. Cardinality(S \ doomed) <= Retention \/ Cardinality(S \ doomed) <= 1
          BY <5>1, <5>3, <5>4, FirstGo
        <5> QED  BY <5>2 DEF S, doomed
      <4>4. Cardinality(AllListed \ Doomed) \in Nat
        BY <3>5, FS_Difference, FS_CardinalityType
      <4> QED  BY <3>2, <3>3, <4>3, <4>4
    <3> QED  BY <3>6, <3>7
  <2> QED  BY <1>t, <2>1, <2>3, <2>5, <2>6, <2>7, <2>8 DEF PkInv, NamesRealFiles
<1>11. CASE CopyFiles
  <2>1. /\ steps # << >> /\ Head(steps) = "copy" /\ UNCHANGED <<current, listed, hooks, pruned>>
        /\ steps' = Tail(steps) /\ pack' = [pack EXCEPT !.files = hooks.files]
    BY <1>11 DEF CopyFiles, At, Onward
  <2>2. PICK n \in 1 .. 13 : Step(n)
    BY <1>t, <2>1, Onwards DEF PkTypeOK
  <2>3. n = 6 /\ hooks.stage \in {"ending", "again"}
    BY <2>1, <2>2, PlanSteps
  <2>4. /\ DOMAIN pack' = DOMAIN pack /\ pack'.there = pack.there /\ pack'.json = pack.json
        /\ pack'.zip = pack.zip /\ pack'.sealed = pack.sealed /\ pack'.files = hooks.files
        /\ pack'.skipped = pack.skipped
    BY <1>t, <2>1 DEF PkTypeOK, NoPack
  <2>5. PkTypeOK'
    BY <1>t, <2>1, <2>4 DEF PkTypeOK
  <2>6. pack.there /\ ~pack.sealed /\ ~pack.json.files /\ Named
    <3>1. Reached(6)
      BY <2>2, <2>3
    <3>2. 6 >= 2 /\ 6 <= 12 /\ 6 <= 7 /\ 6 >= 3
      OBVIOUS
    <3> QED  BY <3>1, <3>2 DEF Reached
  <2>7. Stage'
    <3>1. Reached(7)'
      <4>1. ~(7 <= 5)
        OBVIOUS
      <4> QED  BY <2>1, <2>4, <2>6, <4>1 DEF Reached, Named
    <3>2. n + 1 = 7
      BY <2>3
    <3> QED  BY <2>1, <2>2, <2>3, <3>1, <3>2, StageOn
  <2> QED  BY <1>t, <2>1, <2>4, <2>5, <2>6, <2>7 DEF PkInv, NamesRealFiles, AllListed
<1>12. CASE Archive
  <2>1. /\ steps # << >> /\ Head(steps) = "zip" /\ UNCHANGED <<current, listed, hooks, pruned>>
        /\ steps' = Tail(steps)
    BY <1>12 DEF Archive, At, Onward
  <2>2. PICK n \in 1 .. 13 : Step(n)
    BY <1>t, <2>1, Onwards DEF PkTypeOK
  <2>3. n = 12
    BY <2>1, <2>2, PlanSteps
  <2>4. /\ DOMAIN pack' = DOMAIN pack /\ pack'.there = pack.there /\ pack'.json = pack.json
        /\ pack'.files = pack.files /\ pack'.skipped = pack.skipped
        /\ pack'.sealed => pack'.zip = pack'.json
    BY <1>12, <1>t DEF Archive, PkTypeOK, NoPack
  <2>5. PkTypeOK'
    BY <1>t, <2>1, <2>4 DEF PkTypeOK
  <2>6. pack.there /\ Named
    <3>1. 12 >= 2 /\ 12 >= 3
      OBVIOUS
    <3> QED  BY <2>2, <2>3, <3>1 DEF Reached
  <2>7. Stage'
    <3>1. Reached(13)'
      <4>1. ~(13 <= 5) /\ ~(13 <= 12) /\ ~(13 <= 7) /\ ~(13 = 7)
        OBVIOUS
      <4> QED  BY <2>1, <2>4, <2>6, <4>1 DEF Reached, Named
    <3>2. n + 1 = 13
      BY <2>3
    <3>3. pack'.there /\ Named'
      BY <2>1, <2>4, <2>6 DEF Named
    <3> QED  BY <2>1, <2>2, <3>1, <3>2, <3>3, StageOn
  <2> QED  BY <1>t, <2>1, <2>4, <2>5, <2>7 DEF PkInv, NamesRealFiles, AllListed
<1>13. CASE Clear
  <2>1. /\ steps # << >> /\ Head(steps) = "clear" /\ UNCHANGED <<current, listed, pack, pruned>>
        /\ steps' = Tail(steps) /\ DOMAIN hooks' = DOMAIN hooks
        /\ hooks'.stage = hooks.stage /\ hooks'.result = hooks.result
    BY <1>13, <1>t DEF Clear, At, Onward, PkTypeOK, NewHooks
  <2>2. PICK n \in 1 .. 13 : Step(n)
    BY <1>t, <2>1, Onwards DEF PkTypeOK
  <2>3. n = 13 /\ hooks.stage \in {"ending", "again"}
    BY <2>1, <2>2, PlanSteps
  <2>4. PkTypeOK'
    BY <1>t, <2>1 DEF PkTypeOK
  <2>5. pack.there /\ Named
    <3>1. 13 >= 2 /\ 13 >= 3
      OBVIOUS
    <3> QED  BY <2>2, <2>3, <3>1 DEF Reached
  <2>6. Stage'
    <3>1. Reached(14)'
      <4>1. ~(14 <= 5) /\ ~(14 <= 12) /\ ~(14 <= 7) /\ ~(14 = 7)
        OBVIOUS
      <4> QED  BY <2>1, <2>5, <4>1 DEF Reached, Named
    <3>2. n + 1 = 14
      BY <2>3
    <3> QED  BY <2>1, <2>2, <2>3, <3>1, <3>2, StageOn
  <2> QED  BY <1>t, <2>1, <2>4, <2>6 DEF PkInv, NamesRealFiles, AllListed
<1>14. CASE WriteFails
  <2>1. /\ steps # << >> /\ UNCHANGED <<listed, current, pack, pruned>>
        /\ Head(steps) \in {"mkdir", "json", "md", "copy", "files", "filesMd", "path", "pathMd"}
    BY <1>14 DEF WriteFails, At
  <2>2. PICK n \in 1 .. 13 : Step(n)
    BY <1>t, <2>1, Onwards DEF PkTypeOK
  <2>3. \/ n = 1 \/ n = 2 \/ n = 3
        \/ n = 6 \/ n = 7 \/ n = 8 \/ n = 10 \/ n = 11
    BY <2>1, <2>2, PlanNames
  <2>4. CASE InCreate
    <3>1. n <= 5 /\ n <= 12 /\ n <= 7 /\ current # 0 /\ hooks.stage \in {"ending", "again"}
      BY <1>t, <2>2, <2>3, <2>4, PlanNames DEF InCreate
    <3>2. pruned = "not yet" /\ ~pack.sealed /\ ~pack.json.files
      BY <2>2, <3>1 DEF Reached
    <3>3. /\ steps' = << >> /\ hooks' = [hooks EXCEPT !.stage = hooks'.stage]
          /\ hooks'.stage \in {"raised", "escaped"}
      BY <1>14, <1>t, <2>4 DEF WriteFails, PkTypeOK, NewHooks
    <3>4. DOMAIN hooks' = DOMAIN hooks /\ hooks'.result = hooks.result
      BY <1>t, <3>3 DEF PkTypeOK, NewHooks
    <3>5. PkTypeOK'
      BY <1>t, <2>1, <3>3, <3>4 DEF PkTypeOK
    <3>6. Stage'
      BY <2>1, <3>2, <3>3, PlanParts DEF Stage, Left
    <3> QED  BY <1>t, <2>1, <3>1, <3>2, <3>5, <3>6 DEF PkInv, NamesRealFiles, AllListed
  <2>5. CASE ~InCreate
    <3>1. /\ UNCHANGED hooks
          /\ hooks.stage = "refreshed" => steps' = SubSeq(Plan, 13, 12)
          /\ hooks.stage # "refreshed" => steps' = SubSeq(Plan, 13, 13)
      BY <1>14, <2>5, PlanParts DEF WriteFails
    <3>2. n >= 2 /\ n >= 3
      BY <2>2, <2>3, <2>5, PlanNames DEF InCreate
    <3>3. pack.there /\ Named
      BY <2>2, <3>2 DEF Reached
    <3>4. Reached(12 + 1)'
      <4>1. 12 + 1 = 13 /\ ~(13 <= 5) /\ ~(13 <= 12) /\ ~(13 <= 7) /\ ~(13 = 7)
        OBVIOUS
      <4> QED  BY <2>1, <3>1, <3>3, <4>1 DEF Reached, Named
    <3>5. PkTypeOK'
      BY <1>t, <2>1, <3>1 DEF PkTypeOK
    <3>6. Stage'
      <4>1. 12 \in 1 .. 13 /\ 12 \in 9 .. 12 /\ 12 + 1 = 13
        OBVIOUS
      <4>2. pack'.there /\ Named'
        BY <2>1, <3>1, <3>3 DEF Named
      <4> QED  BY <2>2, <3>1, <3>4, <4>1, <4>2, StageOn
    <3> QED  BY <1>t, <2>1, <3>1, <3>5, <3>6 DEF PkInv, NamesRealFiles, AllListed
  <2> QED  BY <2>4, <2>5
<1>8. CASE DiskTurns \/ UNCHANGED packVars
  <2>1. UNCHANGED <<listed, stray, current, pack, steps, hooks, pruned>>
    BY <1>8 DEF DiskTurns, packVars
  <2> QED
    BY <1>t, <2>1 DEF PkInv, PkTypeOK, Stage, Left, Reached, Named, NamesRealFiles, AllListed
<1> QED
  BY <1>1, <1>2, <1>3, <1>4, <1>5, <1>6, <1>7, <1>8, <1>9, <1>10, <1>11, <1>12, <1>13, <1>14
     DEF PackNext

(* An evidence pack keeps what it promises, whatever is skipped, fails or  *)
(* is repeated while it is written.                                        *)
THEOREM PacksKeepTheirPromise == PacksAssumption /\ PkSpec => []PacksAreWhole
<1>1. PacksAssumption /\ PackInit => PkInv
  <2> SUFFICES ASSUME PacksAssumption, PackInit PROVE PkInv
    OBVIOUS
  <2>1. /\ listed = {} /\ current = 0 /\ pack = NoPack /\ steps = << >> /\ hooks = NewHooks
        /\ pruned = "not yet"
    BY DEF PackInit
  <2>2. PkTypeOK
    BY <2>1, FS_EmptySet DEF PkTypeOK, NoPack, NewHooks, NoSummary
  <2>3. Stage
    BY <2>1, PlanParts DEF Stage, Left, NoPack, NewHooks, NoSummary
  <2>4. NamesRealFiles /\ ~pack.sealed /\ hooks.stage = "cases"
    BY <2>1 DEF NamesRealFiles, NoPack, NoSummary, NewHooks
  <2> QED  BY <2>1, <2>2, <2>3, <2>4 DEF PkInv
<1>2. PacksAssumption /\ PkInv /\ [PackNext]_packVars => PkInv'
  BY PkStep
<1>3. PkInv => PacksAreWhole
  <2> SUFFICES ASSUME PkInv PROVE PacksAreWhole
    OBVIOUS
  <2>1. NamesRealFiles /\ (pack.sealed => pack.zip = pack.json)
    BY DEF PkInv
  <2>2. /\ pruned # "not yet" => pack.there
        /\ pack.sealed => Named
    <3>1. PkTypeOK /\ Stage
      BY DEF PkInv
    <3>2. CASE hooks.stage \in {"ending", "again"}
      <4>1. PICK n \in 1 .. 14 : Left(n, 13) /\ Reached(n)
        BY <3>1, <3>2 DEF Stage
      <4>2. (n <= 5 \/ n >= 2) /\ (n <= 12 \/ n >= 3)
        OBVIOUS
      <4> QED  BY <4>1, <4>2 DEF Reached
    <3>3. CASE hooks.stage \notin {"ending", "again"}
      BY <3>1, <3>3 DEF Stage, PkTypeOK
    <3> QED  BY <3>2, <3>3
  <2> QED  BY <2>1, <2>2 DEF PkInv, PacksAreWhole, RetentionHolds, SealedIsCurrent, Named
<1>4. PacksAssumption => []PacksAssumption
  <2>1. PacksAssumption => PacksAssumption'
    BY DEF PacksAssumption
  <2> QED  BY <2>1, PTL
<1> QED
  BY <1>1, <1>2, <1>3, <1>4, PTL DEF PkSpec

-----------------------------------------------------------------------------
(* The copies of the log.                                                 *)

(* The limits of the collector (LogCollector.__init__).                    *)
LogsAssumption == MaxEntries \in Nat /\ TailLines \in Nat /\ MaxBytes \in Nat /\ MaxAge \in Nat
LgSpec == LgInit /\ [][LgNext]_lgVars

(* What a log has, and what a text that was read or copied holds of it.    *)
Logs == [gen : Nat, lines : Seq({"ERROR", "INFO"})]
IsText(text) ==
    /\ DOMAIN text = {"gen", "lines", "held"}
    /\ text.gen \in Nat /\ text.lines \in Seq({"ERROR", "INFO"})
    /\ text.held \subseteq 1 .. Len(text.lines)
IsWhole(text) == text.held = 1 .. Len(text.lines)

LgTypeOK ==
    /\ log \in Logs /\ log.gen \in 0 .. 2
    /\ DOMAIN call = {"op", "step", "tries", "text"} /\ IsText(call.text)
    /\ call.op # "snapshot" => IsWhole(call.text)
    /\ call.step # "idle" => call.op \in {"collect", "failure", "snapshot"}
    /\ DOMAIN result = {"op", "parsed", "copy", "crash"}
    /\ IsFiniteSet(dir) /\ \A f \in dir : f.made \in Nat
    /\ clock \in Nat

(* While the log is read nothing is reported yet; what collect has parsed  *)
(* is of the log as it was, and stays the beginning of it while the log    *)
(* only grows, so of the text it reads later.                              *)
Reading ==
    call.step \in {"parse", "read", "write"} =>
        /\ log.gen # 0 /\ result.copy = NoText
        /\ call.op = "collect" =>
              /\ result.parsed.gen \in 0 .. log.gen
              /\ result.parsed.gen = log.gen => FirstLinesOf(log, result.parsed)
              /\ call.step = "write" /\ result.parsed.gen = call.text.gen =>
                    FirstLinesOf(call.text, result.parsed)

(* What a result says of the copy it names.                                *)
Reported(r) ==
    r.copy # NoText =>
        /\ r.op = "collect" =>
              /\ IsWhole(r.copy)
              /\ r.parsed.gen = r.copy.gen => FirstLinesOf(r.copy, r.parsed)
        /\ r.op = "snapshot" => r.parsed = Parsed(r.copy)
        /\ r.op = "failure" => \E text :
              /\ IsText(text) /\ IsWhole(text)
              /\ r = ResultOf("failure", text, r.parsed)

LgInv == LgTypeOK /\ Reading /\ Reported(result)

-----------------------------------------------------------------------------
(* A set of naturals has a least element, and a largest one when it is     *)
(* bounded.                                                                *)
LEMMA LeastOf ==
    ASSUME NEW S, S \subseteq Nat, S # {}
    PROVE  \E x \in S : \A y \in S : x <= y
<1>1. PICK x \in S : \A y \in S : ~ (<<y, x>> \in OpToRel(<, Nat))
  BY NatLessThanWellFounded, WFMin
<1>2. \A y \in S : ~ (y < x)
  BY <1>1 DEF OpToRel
<1>3. ASSUME NEW y \in S PROVE x <= y
  <2>1. x \in Nat /\ y \in Nat
    OBVIOUS
  <2> QED  BY <1>2, <2>1
<1> QED  BY <1>3

LEMMA LargestOf ==
    ASSUME NEW S, S \subseteq Nat, S # {}, NEW b \in Nat, \A x \in S : x <= b
    PROVE  Max(S) \in S /\ \A y \in S : Max(S) >= y
<1> DEFINE T == {b - x : x \in S}
<1>1. T \subseteq Nat /\ T # {}
  <2>1. ASSUME NEW x \in S PROVE b - x \in Nat
    <3>1. x \in Nat /\ x <= b
      OBVIOUS
    <3> QED  BY <3>1
  <2> QED  BY <2>1
<1>2. PICK t \in T : \A u \in T : t <= u
  <2> HIDE DEF T
  <2> QED  BY <1>1, LeastOf
<1>3. PICK x \in S : t = b - x
  BY <1>2
<1>4. \A y \in S : x >= y
  <2> TAKE y \in S
  <2>1. b - x <= b - y
    BY <1>2, <1>3
  <2> QED  BY <2>1
<1> QED  BY <1>3, <1>4 DEF Max

(* A text has finitely many matching lines, and all of them are kept when  *)
(* they are no more than max_entries (_parse_log_text).                    *)
LEMMA LinesOfATextAreFinite ==
    ASSUME NEW lines \in Seq({"ERROR", "INFO"})
    PROVE  /\ Len(lines) \in Nat /\ Matching(lines) \subseteq 1 .. Len(lines)
           /\ IsFiniteSet(Matching(lines)) /\ Cardinality(Matching(lines)) \in Nat
<1>1. Len(lines) \in Nat /\ Matching(lines) \subseteq 1 .. Len(lines)
  BY DEF Matching
<1>2. IsFiniteSet(1 .. Len(lines))
  BY <1>1, FS_Interval
<1> QED  BY <1>1, <1>2, FS_Subset, FS_CardinalityType

LEMMA AllAreKept ==
    ASSUME LogsAssumption, NEW K, K \subseteq Nat, IsFiniteSet(K), Cardinality(K) <= MaxEntries
    PROVE  FirstOf(K) = K
<1> SUFFICES ASSUME NEW i \in K PROVE Cardinality({j \in K : j < i}) < MaxEntries
  BY DEF FirstOf
<1> DEFINE below == {j \in K : j < i}
<1>1. IsFiniteSet(below) /\ IsFiniteSet(below \union {i})
  BY FS_Subset, FS_AddElement
<1>2. Cardinality(below \union {i}) = Cardinality(below) + 1
  BY <1>1, FS_AddElement
<1>3. Cardinality(below \union {i}) <= Cardinality(K)
  BY FS_Subset
<1> QED  BY <1>1, <1>2, <1>3, FS_CardinalityType DEF LogsAssumption

(* What _extract_crash_info takes is the last error of the entries, and    *)
(* of the whole text when all of its entries are kept.                     *)
LEMMA CrashIsTheLastError ==
    ASSUME LogsAssumption, NEW text, IsText(text), IsWhole(text), NEW parsed,
           NEW r, r = ResultOf("failure", text, parsed)
    PROVE  /\ r.parsed = [gen |-> r.copy.gen, lines |-> r.copy.held]
           /\ IF r.crash = 0 THEN \A i \in r.copy.held : r.copy.lines[i] # "ERROR"
              ELSE LastErrorOf(r.copy, r.crash)
           /\ Cardinality(Matching(r.copy.lines)) <= MaxEntries =>
                 \A i \in 1 .. Len(r.copy.lines) : r.copy.lines[i] = "ERROR" => i <= r.crash
<1> DEFINE all == Matching(text.lines)
           held == FirstOf(all)
           errors == {i \in held : text.lines[i] = "ERROR"}
<1>1. /\ Len(text.lines) \in Nat /\ all \subseteq 1 .. Len(text.lines) /\ IsFiniteSet(all)
  BY LinesOfATextAreFinite DEF IsText
<1>2. Parsed(text) = [gen |-> text.gen, lines |-> held]
  <2>1. all \cap text.held = all
    BY <1>1 DEF IsWhole
  <2> QED  BY <2>1 DEF Parsed
<1>3. Errors(text) = errors
  BY <1>2 DEF Errors
<1>4. held \subseteq all /\ errors \subseteq Nat /\ \A x \in errors : x <= Len(text.lines) /\ x # 0
  BY <1>1 DEF FirstOf
<1>5. /\ r.copy = [text EXCEPT !.held = held] /\ r.crash = CrashInfo(text)
      /\ r.parsed = [gen |-> text.gen, lines |-> held]
  BY <1>2 DEF ResultOf, CopyOf
<1>6. r.copy.gen = text.gen /\ r.copy.lines = text.lines /\ r.copy.held = held
  BY <1>5 DEF IsText
<1>7. errors = {} => r.crash = 0
  BY <1>3, <1>5 DEF CrashInfo
<1>8. errors # {} => r.crash \in errors /\ \A y \in errors : r.crash >= y
  <2>1. errors # {} => r.crash = Max(errors)
    BY <1>3, <1>5 DEF CrashInfo
  <2> HIDE DEF errors
  <2> QED  BY <1>1, <1>4, <2>1, LargestOf
<1>9. Cardinality(all) <= MaxEntries => held = all
  <2>1. all \subseteq Nat
    BY <1>1
  <2> HIDE DEF all
  <2> QED  BY <1>1, <2>1, AllAreKept
<1>10. \A i \in 1 .. Len(text.lines) : text.lines[i] = "ERROR" => i \in all
  BY DEF Matching, Wanted
<1>11. \A y \in errors : y \in Nat /\ y # 0
  BY <1>4
<1>12. IF r.crash = 0 THEN \A i \in r.copy.held : r.copy.lines[i] # "ERROR"
       ELSE LastErrorOf(r.copy, r.crash)
  <2>1. CASE errors = {}
    BY <1>6, <1>7, <2>1
  <2>2. CASE errors # {}
    <3>1. \A y \in errors : y <= r.crash
      BY <1>8, <1>11, <2>2
    <3> QED  BY <1>6, <1>8, <1>11, <2>2, <3>1 DEF LastErrorOf
  <2> QED  BY <2>1, <2>2
<1>13. ASSUME Cardinality(all) <= MaxEntries, NEW i \in 1 .. Len(text.lines), text.lines[i] = "ERROR"
       PROVE  i <= r.crash
  <2>1. i \in errors
    BY <1>9, <1>10, <1>13
  <2> QED  BY <1>8, <1>11, <2>1
<1> QED  BY <1>5, <1>6, <1>12, <1>13

(* A parse of the whole text is one of its first lines, and what was       *)
(* parsed of a log is so still when the game has written on.               *)
LEMMA WholeParse ==
    ASSUME NEW text, text.lines \in Seq({"ERROR", "INFO"})
    PROVE  FirstLinesOf(text, Parsed(Whole(text))) /\ Parsed(Whole(text)).gen = text.gen
<1>1. Len(text.lines) \in Nat /\ Matching(text.lines) \subseteq 1 .. Len(text.lines)
  BY LinesOfATextAreFinite
<1>2. {i \in Matching(text.lines) : i <= Len(text.lines)} = Matching(text.lines)
  BY <1>1
<1>3. Len(text.lines) \in 0 .. Len(text.lines)
  BY <1>1
<1>4. Matching(text.lines) \cap (1 .. Len(text.lines)) = Matching(text.lines)
  BY <1>1
<1>5. Parsed(Whole(text)) = [gen |-> text.gen, lines |-> FirstOf(Matching(text.lines))]
  BY <1>4 DEF Parsed, Whole
<1> DEFINE p == Parsed(Whole(text))
           early == {i \in Matching(text.lines) : i <= Len(text.lines)}
<1>6. p.gen = text.gen /\ p.lines = FirstOf({i \in Matching(text.lines) : i <= Len(text.lines)})
  <2>1. p.gen = text.gen /\ p.lines = FirstOf(Matching(text.lines))
    BY <1>5
  <2>2. early = Matching(text.lines)
    BY <1>2
  <2> HIDE DEF p, early
  <2>3. p.lines = FirstOf(early)
    BY <2>1, <2>2
  <2> QED  BY <2>1, <2>3 DEF early
<1> HIDE DEF p
<1>7. FirstLinesOf(text, p)
  BY <1>3, <1>6 DEF FirstLinesOf
<1> QED  BY <1>6, <1>7 DEF p

LEMMA GrownLog ==
    ASSUME NEW text \in Logs, NEW level \in {"ERROR", "INFO"}
    PROVE  /\ [text EXCEPT !.lines = Append(@, level)] \in Logs
           /\ [text EXCEPT !.lines = Append(@, level)].gen = text.gen
           /\ \A entries : FirstLinesOf(text, entries) =>
                 FirstLinesOf([text EXCEPT !.lines = Append(@, level)], entries)
<1> DEFINE new == Append(text.lines, level)
<1>1. text.lines \in Seq({"ERROR", "INFO"})
  BY DEF Logs
<1>2. /\ new \in Seq({"ERROR", "INFO"}) /\ Len(text.lines) \in Nat /\ Len(new) = Len(text.lines) + 1
      /\ \A i \in 1 .. Len(text.lines) : new[i] = text.lines[i]
  BY <1>1
<1>3. [text EXCEPT !.lines = Append(@, level)] = [gen |-> text.gen, lines |-> new]
  BY DEF Logs
<1>4. [gen |-> text.gen, lines |-> new] \in Logs
  BY <1>2 DEF Logs
<1>5. ASSUME NEW entries, FirstLinesOf(text, entries)
      PROVE  FirstLinesOf([gen |-> text.gen, lines |-> new], entries)
  <2>1. PICK k \in 0 .. Len(text.lines) :
            entries.lines = FirstOf({i \in Matching(text.lines) : i <= k})
    BY <1>5 DEF FirstLinesOf
  <2> HIDE DEF new
  <2>2. {i \in Matching(new) : i <= k} = {i \in Matching(text.lines) : i <= k}
    BY <1>2, <2>1 DEF Matching
  <2>3. k \in 0 .. Len(new)
    BY <1>2, <2>1
  <2> QED  BY <2>1, <2>2, <2>3 DEF FirstLinesOf
<1> QED  BY <1>3, <1>4, <1>5

(* A result made of a text that was copied speaks of that text.            *)
LEMMA Results ==
    ASSUME NEW op, NEW text, IsText(text), op # "snapshot" => IsWhole(text), NEW entries,
           op = "collect" /\ entries.gen = text.gen => FirstLinesOf(text, entries)
    PROVE  /\ DOMAIN ResultOf(op, text, entries) = {"op", "parsed", "copy", "crash"}
           /\ Reported(ResultOf(op, text, entries))
<1> DEFINE r == ResultOf(op, text, entries)
<1> SUFFICES DOMAIN r = {"op", "parsed", "copy", "crash"} /\ Reported(r)
  OBVIOUS
<1>1. DOMAIN r = {"op", "parsed", "copy", "crash"} /\ r.op = op
  BY DEF ResultOf
<1>2. CASE op = "collect"
  <2>1. r.copy = text /\ (r.parsed = entries \/ (text = Custom /\ r.parsed = Parsed(text)))
    BY <1>2 DEF ResultOf, CopyOf
  <2>2. FirstLinesOf(Custom, Parsed(Custom))
    <3> DEFINE c == [gen |-> 99, lines |-> <<"INFO", "ERROR">>]
    <3>1. c.lines \in Seq({"ERROR", "INFO"}) /\ Custom = Whole(c) /\ c.lines = Custom.lines
      BY DEF Custom, Whole
    <3>2. FirstLinesOf(c, Parsed(Whole(c)))
      BY <3>1, WholeParse
    <3> QED  BY <3>1, <3>2 DEF FirstLinesOf
  <2> QED  BY <1>1, <1>2, <2>1, <2>2 DEF Reported
<1>3. CASE op = "snapshot"
  <2>1. r.copy = text /\ r.parsed = Parsed(text)
    BY <1>3 DEF ResultOf, CopyOf
  <2> QED  BY <1>1, <1>3, <2>1 DEF Reported
<1>4. CASE op = "failure"
  <2>1. r = ResultOf("failure", text, r.parsed)
    BY <1>4 DEF ResultOf
  <2> HIDE DEF r
  <2> QED  BY <1>1, <1>4, <2>1 DEF Reported, IsText
<1>5. CASE op \notin {"collect", "snapshot", "failure"}
  BY <1>1, <1>5 DEF Reported
<1> QED  BY <1>1, <1>2, <1>3, <1>4, <1>5

(* The texts that do not come from the latest log, and those that do.      *)
LEMMA Fixed ==
    /\ IsText(NoText) /\ IsWhole(NoText) /\ NoText.gen = 0
    /\ IsText(Backup) /\ IsWhole(Backup) /\ Backup.gen = 98
    /\ IsText(Custom) /\ IsWhole(Custom) /\ Custom.gen = 99
BY DEF NoText, Backup, Custom, IsText, IsWhole, Whole

LEMMA OfTheLog ==
    ASSUME LogsAssumption, log \in Logs
    PROVE  /\ IsText(Whole(log)) /\ IsWhole(Whole(log))
           /\ Whole(log).gen = log.gen /\ Whole(log).lines = log.lines
           /\ \A text \in Tails : IsText(text)
<1>1. log.gen \in Nat /\ log.lines \in Seq({"ERROR", "INFO"}) /\ Len(log.lines) \in Nat
  BY DEF Logs
<1>2. /\ IsText(Whole(log)) /\ IsWhole(Whole(log))
      /\ Whole(log).gen = log.gen /\ Whole(log).lines = log.lines
  BY <1>1 DEF IsText, IsWhole, Whole
<1>3. ASSUME NEW text \in Tails PROVE IsText(text)
  <2> DEFINE cut == IF Len(log.lines) > TailLines THEN Len(log.lines) - TailLines ELSE 0
  <2>1. cut \in Nat
    BY <1>1 DEF LogsAssumption
  <2>2. PICK from \in {cut + 1, cut + 2} : text = [Whole(log) EXCEPT !.held = from .. Len(log.lines)]
    BY <1>3 DEF Tails
  <2> HIDE DEF cut
  <2>3. from \in Nat /\ from >= 1
    BY <2>1, <2>2
  <2>4. from .. Len(log.lines) \subseteq 1 .. Len(log.lines)
    BY <1>1, <2>3
  <2> QED  BY <1>2, <2>2, <2>4 DEF IsText
<1> QED  BY <1>2, <1>3

-----------------------------------------------------------------------------
(* Fewer copies take no more space.                                        *)
LEMMA Weighed ==
    ASSUME NEW S, IsFiniteSet(S), NEW T, T \subseteq S
    PROVE  IsFiniteSet(T) /\ Bytes(T) \in Nat /\ Bytes(S) \in Nat /\ Bytes(T) <= Bytes(S)
<1> DEFINE heavy(X) == {f \in X : f.weight = 2}
<1>1. IsFiniteSet(T) /\ Cardinality(T) <= Cardinality(S)
  BY FS_Subset
<1>2. IsFiniteSet(heavy(S)) /\ IsFiniteSet(heavy(T))
  BY <1>1, FS_Subset
<1>3. heavy(T) \subseteq heavy(S)
  OBVIOUS
<1>4. Cardinality(heavy(T)) <= Cardinality(heavy(S))
  BY <1>2, <1>3, FS_Subset
<1>5. /\ Cardinality(S) \in Nat /\ Cardinality(T) \in Nat
      /\ Cardinality(heavy(S)) \in Nat /\ Cardinality(heavy(T)) \in Nat
  BY <1>1, <1>2, FS_CardinalityType
<1>6. Bytes(S) = Cardinality(S) + Cardinality(heavy(S)) /\ Bytes(T) = Cardinality(T) + Cardinality(heavy(T))
  BY DEF Bytes
<1> HIDE DEF heavy
<1> QED  BY <1>1, <1>4, <1>5, <1>6

(* _cleanup_old_logs takes the oldest first and stops when the rest fits.  *)
LEMMA CleanupPrunesTheOldest ==
    ASSUME LogsAssumption, LgTypeOK, NEW stuck \in SUBSET dir
    PROVE  /\ \A f \in dir \ Cleanup(stuck), g \in Cleanup(stuck) \ stuck : f.made < g.made
           /\ stuck = {} => Bytes(Cleanup(stuck)) <= MaxBytes
           /\ Cleanup(stuck) \subseteq dir
<1> DEFINE young == dir \ {f \in dir \ stuck : clock - f.made > MaxAge}
           left(f) == {g \in young : g.made >= f.made \/ g \in stuck}
<1>1. Cleanup(stuck) = young \ {f \in young \ stuck : Bytes(left(f)) > MaxBytes}
  BY DEF Cleanup
<1>2. IsFiniteSet(dir) /\ IsFiniteSet(young) /\ young \subseteq dir
  BY FS_Subset DEF LgTypeOK
<1>3. \A f \in dir : f.made \in Nat
  BY DEF LgTypeOK
<1>4. ASSUME NEW f \in dir \ Cleanup(stuck), NEW g \in Cleanup(stuck) \ stuck
      PROVE  f.made < g.made
  <2>1. g \in young \ stuck /\ ~(Bytes(left(g)) > MaxBytes)
    BY <1>1, <1>4
  <2>2. ~(clock - g.made > MaxAge)
    BY <2>1
  <2>3. f.made \in Nat /\ g.made \in Nat
    BY <1>2, <1>3, <2>1
  <2>4. CASE f \notin young
    BY <2>2, <2>3, <2>4 DEF LgTypeOK, LogsAssumption
  <2>5. CASE f \in young
    <3>1. Bytes(left(f)) > MaxBytes
      BY <1>1, <1>4, <2>5
    <3>2. ASSUME f.made >= g.made PROVE FALSE
      <4>1. left(f) \subseteq left(g)
        <5> SUFFICES ASSUME NEW h \in young, h.made >= f.made \/ h \in stuck
                     PROVE  h.made >= g.made \/ h \in stuck
          OBVIOUS
        <5>1. h.made \in Nat
          BY <1>2, <1>3
        <5> QED  BY <2>3, <3>2, <5>1
      <4>2. IsFiniteSet(left(g))
        BY <1>2, FS_Subset
      <4> HIDE DEF left
      <4>3. Bytes(left(f)) \in Nat /\ Bytes(left(g)) \in Nat /\ Bytes(left(f)) <= Bytes(left(g))
        BY <4>1, <4>2, Weighed
      <4> QED  BY <2>1, <3>1, <4>3 DEF LogsAssumption
    <3> QED  BY <2>3, <3>2
  <2> QED  BY <2>4, <2>5
<1>5. ASSUME stuck = {} PROVE Bytes(Cleanup(stuck)) <= MaxBytes
  <2> DEFINE K == Cleanup(stuck)
  <2>1. K \subseteq young /\ IsFiniteSet(K)
    BY <1>1, <1>2, FS_Subset
  <2>2. CASE K = {}
    <3>1. {f \in K : f.weight = 2} = {}
      BY <2>2
    <3>2. Bytes(K) = 0
      BY <2>2, <3>1, FS_EmptySet DEF Bytes
    <3> QED  BY <3>2 DEF LogsAssumption
  <2>3. CASE K # {}
    <3> DEFINE made == {f.made : f \in K}
    <3>1. made \subseteq Nat /\ made # {}
      BY <1>2, <1>3, <2>1, <2>3
    <3>2. PICK m \in made : \A n \in made : m <= n
      <4> HIDE DEF made
      <4> QED  BY <3>1, LeastOf
    <3>3. PICK f \in K : m = f.made
      BY <3>2
    <3>4. K \subseteq left(f)
      <4> SUFFICES ASSUME NEW g \in K PROVE g \in young /\ g.made >= f.made
        BY DEF left
      <4>1. g.made \in Nat /\ f.made \in Nat /\ g \in young
        BY <1>2, <1>3, <2>1, <3>3
      <4>2. m <= g.made
        BY <3>2
      <4> QED  BY <3>3, <4>1, <4>2
    <3>5. ~(Bytes(left(f)) > MaxBytes)
      BY <1>1, <1>5, <2>1, <3>3
    <3>6. IsFiniteSet(left(f))
      BY <1>2, FS_Subset
    <3> HIDE DEF left, K
    <3>7. Bytes(K) \in Nat /\ Bytes(left(f)) \in Nat /\ Bytes(K) <= Bytes(left(f))
      BY <3>4, <3>6, Weighed
    <3> QED  BY <3>5, <3>7 DEF LogsAssumption, K
  <2> QED  BY <2>2, <2>3
<1> QED  BY <1>1, <1>2, <1>4, <1>5
-----------------------------------------------------------------------------
(* A collector starts within the invariant, and every step keeps it.       *)
LEMMA LgStart == LgInit => LgInv
<1> SUFFICES ASSUME LgInit PROVE LgInv
  OBVIOUS
<1>1. IsFiniteSet(dir) /\ \A f \in dir : f.made \in Nat
  <2>1. IsFiniteSet({[made |-> 1, weight |-> 2]})
    BY FS_Singleton
  <2>2. IsFiniteSet({[made |-> 1, weight |-> 2], [made |-> 2, weight |-> 1]})
    BY <2>1, FS_AddElement
  <2>3. IsFiniteSet(Older)
    <3>1. Older = {[made |-> 1, weight |-> 2], [made |-> 2, weight |-> 1]}
                    \union {[made |-> 3, weight |-> 1]}
      BY DEF Older
    <3> QED  BY <2>2, <3>1, FS_AddElement
  <2> QED  BY <2>3 DEF LgInit, Older
<1>2. call.step = "idle" /\ result.copy = NoText
  BY DEF LgInit, NoCall, NoResult
<1>3. LgTypeOK
  <2>1. log \in Logs /\ log.gen \in 0 .. 2
    BY DEF LgInit, Logs
  <2>2. DOMAIN call = {"op", "step", "tries", "text"} /\ call.text = NoText
    BY DEF LgInit, NoCall
  <2>3. DOMAIN result = {"op", "parsed", "copy", "crash"}
    BY DEF LgInit, NoResult
  <2> QED  BY <1>1, <1>2, <2>1, <2>2, <2>3, Fixed DEF LgTypeOK, LgInit
<1> QED  BY <1>2, <1>3 DEF LgInv, Reading, Reported

LEMMA LgStep == LogsAssumption /\ LgInv /\ [LgNext]_lgVars => LgInv'
<1> SUFFICES ASSUME LogsAssumption, LgInv, [LgNext]_lgVars PROVE LgInv'
  OBVIOUS
<1>t. LgTypeOK /\ Reading /\ Reported(result)
  BY DEF LgInv
<1>l. LogsAssumption /\ log \in Logs
  BY <1>t DEF LgTypeOK
<1>k. ASSUME NEW text, Kept(text) \/ KeptTwice(text)
      PROVE  IsFiniteSet(dir') /\ (\A f \in dir' : f.made \in Nat) /\ clock' \in Nat
  <2> DEFINE one == File(text, clock)
             two == File(text, clock + 1)
  <2>1. one.made = clock /\ two.made = clock + 1
    BY DEF File
  <2>2. \/ dir' = dir \union {one} /\ clock' = clock + 1
        \/ dir' = (dir \union {one}) \union {two} /\ clock' = clock + 2
    BY <1>k DEF Kept, KeptTwice
  <2> HIDE DEF one, two
  <2>3. IsFiniteSet(dir \union {one}) /\ IsFiniteSet((dir \union {one}) \union {two})
    <3>1. IsFiniteSet(dir \union {one})
      BY <1>t, FS_AddElement DEF LgTypeOK
    <3> QED  BY <3>1, FS_AddElement
  <2>c. clock \in Nat
    BY <1>t DEF LgTypeOK
  <2>4. IsFiniteSet(dir') /\ clock \in Nat /\ clock' \in Nat
    <3>1. IsFiniteSet(dir')
      BY <2>2, <2>3
    <3> QED  BY <2>c, <2>2, <3>1
  <2>5. \A f \in dir' : f \in dir \/ f = one \/ f = two
    BY <2>2
  <2>6. \A f \in dir' : f.made \in Nat
    BY <1>t, <2>1, <2>4, <2>5 DEF LgTypeOK
  <2> QED  BY <2>4, <2>6
<1>g. ASSUME NEW step, Goto(step)
      PROVE  /\ DOMAIN call' = {"op", "step", "tries", "text"}
             /\ call'.text = NoText /\ call'.step = step /\ call'.op = call.op
  BY <1>t, <1>g DEF Goto, LgTypeOK
<1>i. NoCall.step = "idle" /\ NoCall.text = NoText /\ DOMAIN NoCall = {"op", "step", "tries", "text"}
  BY DEF NoCall
<1>n. /\ DOMAIN NoResult = {"op", "parsed", "copy", "crash"} /\ NoResult.copy = NoText
      /\ NoResult.parsed.gen = 0
  BY DEF NoResult
<1>1. CASE Collect
  <2>1. PICK stuck \in SUBSET dir : dir' = Cleanup(stuck)
    BY <1>1 DEF Collect
  <2>2. IsFiniteSet(dir') /\ \A f \in dir' : f.made \in Nat
    <3>1. dir' \subseteq dir
      BY <1>t, <2>1, CleanupPrunesTheOldest
    <3> QED  BY <1>t, <3>1, FS_Subset DEF LgTypeOK
  <2>3. log' = log /\ clock' \in Nat /\ result' = NoResult
    BY <1>1, <1>t DEF Collect, Outside, LgTypeOK
  <2>4. /\ DOMAIN call' = {"op", "step", "tries", "text"} /\ call'.text = NoText
        /\ call'.step \in {"custom", "parse", "read"} /\ (call'.step # "custom" => log.gen # 0)
        /\ call'.op \in {"collect", "failure", "snapshot"}
    BY <1>1, <1>i DEF Collect
  <2>5. LgTypeOK'
    BY <1>t, <1>n, <2>2, <2>3, <2>4, Fixed DEF LgTypeOK
  <2>6. Reading'
    BY <1>t, <1>n, <2>3, <2>4 DEF Reading, LgTypeOK
  <2> QED  BY <1>n, <2>3, <2>5, <2>6 DEF LgInv, Reported
<1>2. CASE ParseLog
  <2>1. /\ call.step = "parse" /\ UNCHANGED <<log, dir, clock>> /\ call'.step = "read" /\ call'.text = NoText
        /\ DOMAIN call' = {"op", "step", "tries", "text"} /\ call'.op = call.op
    BY <1>2, <1>g DEF ParseLog, Outside
  <2>2. \/ result' = result
        \/ result' = [result EXCEPT !.parsed = Parsed(Whole(log))]
    BY <1>2 DEF ParseLog
  <2>3. /\ DOMAIN result' = {"op", "parsed", "copy", "crash"} /\ result'.copy = NoText
        /\ result'.parsed = result.parsed \/ result'.parsed = Parsed(Whole(log))
    BY <1>t, <2>1, <2>2 DEF LgTypeOK, Reading
  <2>4. FirstLinesOf(log, Parsed(Whole(log))) /\ Parsed(Whole(log)).gen = log.gen
    BY <1>l, WholeParse DEF Logs
  <2>5. LgTypeOK'
    BY <1>t, <2>1, <2>3, Fixed DEF LgTypeOK
  <2>6. Reading'
    BY <1>t, <2>1, <2>3, <2>4 DEF Reading, LgTypeOK
  <2> QED  BY <2>3, <2>5, <2>6 DEF LgInv, Reported
<1>3. CASE ReadLog
  <2>1. call.step = "read" /\ UNCHANGED <<log, dir, clock, result>>
    BY <1>3 DEF ReadLog, Outside
  <2>2. /\ DOMAIN call' = {"op", "step", "tries", "text"} /\ call'.op = call.op
        /\ \/ call'.step = "write" /\ call'.text = Whole(log)
           \/ call'.step = "write" /\ call.op = "snapshot" /\ call'.text \in Tails
           \/ call'.step = "read" /\ call'.text = call.text
           \/ call'.step = "write" /\ call'.text = Backup
           \/ call'.step = "custom" /\ call'.text = NoText
    <3>1. CASE ~locked
      BY <1>3, <1>t, <3>1 DEF ReadLog, Readable, LgTypeOK
    <3>2. CASE locked /\ call.tries < Retries
      BY <1>3, <1>t, <3>2 DEF ReadLog, LgTypeOK
    <3>3. CASE locked /\ ~(call.tries < Retries)
      <4>1. \/ call' = [call EXCEPT !.step = "write", !.text = Backup]
            \/ Goto("custom")
        BY <1>3, <3>3 DEF ReadLog
      <4> QED  BY <1>t, <1>g, <4>1 DEF LgTypeOK
    <3> QED  BY <3>1, <3>2, <3>3
  <2>3. LgTypeOK'
    BY <1>l, <1>t, <2>1, <2>2, Fixed, OfTheLog DEF LgTypeOK
  <2>4. Reading'
    <3>1. FirstLinesOf(log, result.parsed) => FirstLinesOf(Whole(log), result.parsed)
      BY <1>l, OfTheLog DEF FirstLinesOf
    <3> QED  BY <1>l, <1>t, <2>1, <2>2, <3>1, Fixed, OfTheLog DEF Reading, LgTypeOK
  <2> QED  BY <1>t, <2>1, <2>3, <2>4 DEF LgInv, Reported
<1>4. CASE WriteCopy
  <2>1. /\ call.step = "write" /\ log' = log /\ Kept(CopyOf(call.op, call.text)) /\ call'.step = "custom"
        /\ call'.text = NoText /\ DOMAIN call' = {"op", "step", "tries", "text"} /\ call'.op = call.op
        /\ result' = ResultOf(call.op, call.text, result.parsed)
    BY <1>4, <1>g DEF WriteCopy, Outside
  <2>2. DOMAIN result' = {"op", "parsed", "copy", "crash"} /\ Reported(result')
    BY <1>t, <2>1, Results DEF LgTypeOK, Reading
  <2>3. LgTypeOK'
    BY <1>t, <1>k, <2>1, <2>2, Fixed DEF LgTypeOK
  <2> QED  BY <2>1, <2>2, <2>3 DEF LgInv, Reading
<1>5. CASE SaveFails
  <2>1. CASE /\ call.step = "write" /\ call.op = "collect" /\ log' = log /\ Goto("custom") /\ Kept(Whole(log))
             /\ result' = ResultOf("collect", Whole(log), result.parsed)
    <3>1. DOMAIN result' = {"op", "parsed", "copy", "crash"} /\ Reported(result')
      <4>1. result.parsed.gen = Whole(log).gen => FirstLinesOf(Whole(log), result.parsed)
        BY <1>l, <1>t, <2>1, OfTheLog DEF Reading, FirstLinesOf
      <4> QED  BY <1>l, <2>1, <4>1, OfTheLog, Results
    <3>2. /\ call'.step = "custom" /\ call'.text = NoText /\ call'.op = call.op
          /\ DOMAIN call' = {"op", "step", "tries", "text"}
      BY <1>g, <2>1
    <3>3. LgTypeOK'
      BY <1>t, <1>k, <2>1, <3>1, <3>2, Fixed DEF LgTypeOK
    <3> QED  BY <3>1, <3>2, <3>3 DEF LgInv, Reading
  <2>2. CASE /\ UNCHANGED <<log, dir, clock>> /\ result' = NoResult
             /\ call' = NoCall \/ Goto("custom")
    <3>1. /\ call'.step \in {"idle", "custom"} /\ call'.text = NoText
          /\ DOMAIN call' = {"op", "step", "tries", "text"} /\ (call'.step = "custom" => call'.op = call.op)
      BY <1>g, <1>i, <2>2
    <3>2. LgTypeOK'
      <4>1. call'.step # "idle" => call'.op \in {"collect", "failure", "snapshot"}
        BY <1>5, <1>t, <3>1 DEF SaveFails, LgTypeOK
      <4>2. IsText(call'.text) /\ IsWhole(call'.text)
        BY <3>1, Fixed
      <4> QED  BY <1>t, <1>n, <2>2, <3>1, <4>1, <4>2 DEF LgTypeOK
    <3>3. Reading'
      BY <3>1 DEF Reading
    <3> QED  BY <1>n, <2>2, <3>2, <3>3 DEF LgInv, Reported
  <2> QED  BY <1>5, <2>1, <2>2 DEF SaveFails, Outside
<1>6. CASE CustomLog
  <2>1. /\ call.step = "custom" /\ call' = NoCall /\ log' = log
        /\ (\E text : Kept(text) \/ KeptTwice(text)) \/ UNCHANGED <<dir, clock>>
        /\ \/ result' \in {result, NoResult}
           \/ result' = ResultOf(call.op, Custom, result.parsed) /\ call.op # "snapshot"
    BY <1>6 DEF CustomLog, Outside
  <2>2. Reported(result') /\ DOMAIN result' = {"op", "parsed", "copy", "crash"}
    <3>1. CASE result' = result
      BY <1>t, <3>1 DEF LgTypeOK
    <3>2. CASE result' = NoResult
      BY <1>n, <3>2 DEF Reported
    <3>3. CASE result' = ResultOf(call.op, Custom, result.parsed) /\ call.op = "failure"
      BY <3>3, Fixed, Results
    <3>4. CASE result' = ResultOf(call.op, Custom, result.parsed) /\ call.op = "collect"
      <4>1. result' = ResultOf("collect", Custom, Parsed(Custom))
        BY <3>4 DEF ResultOf
      <4>2. FirstLinesOf(Custom, Parsed(Custom))
        <5>1. Whole(Custom) = Custom
          BY DEF Custom, Whole
        <5> QED  BY <5>1, Fixed, WholeParse DEF IsText
      <4> QED  BY <4>1, <4>2, Fixed, Results
    <3> QED  BY <1>t, <2>1, <3>1, <3>2, <3>3, <3>4 DEF LgTypeOK
  <2>3. IsFiniteSet(dir') /\ (\A f \in dir' : f.made \in Nat) /\ clock' \in Nat
    BY <1>k, <1>t, <2>1 DEF LgTypeOK
  <2>4. LgTypeOK'
    BY <1>t, <1>i, <2>1, <2>2, <2>3, Fixed DEF LgTypeOK
  <2> QED  BY <1>i, <2>1, <2>2, <2>4 DEF LgInv, Reading
<1>7. CASE GameWrites
  <2>1. PICK level \in {"ERROR", "INFO"} : log' = [log EXCEPT !.lines = Append(@, level)]
    BY <1>7 DEF GameWrites
  <2>2. log.gen # 0 /\ UNCHANGED <<dir, call, result, clock>>
    BY <1>7 DEF GameWrites, World
  <2>3. log' \in Logs /\ log'.gen = log.gen
    BY <1>l, <2>1, GrownLog
  <2>4. FirstLinesOf(log, result.parsed) => FirstLinesOf(log', result.parsed)
    BY <1>l, <2>1, GrownLog
  <2>5. LgTypeOK'
    BY <1>t, <2>2, <2>3 DEF LgTypeOK
  <2>6. Reading'
    BY <1>t, <2>2, <2>3, <2>4 DEF Reading
  <2> QED  BY <1>t, <2>2, <2>5, <2>6 DEF LgInv, Reported
<1>8. CASE GameRotates
  <2>1. log' = [gen |-> log.gen + 1, lines |-> << >>] /\ log.gen < 2 /\ UNCHANGED <<dir, call, result, clock>>
    BY <1>8 DEF GameRotates, World
  <2>2. log' \in Logs /\ log'.gen \in 0 .. 2 /\ log'.gen = log.gen + 1 /\ log.gen \in 0 .. 2
    BY <1>t, <2>1 DEF LgTypeOK, Logs
  <2>3. LgTypeOK'
    BY <1>t, <2>1, <2>2 DEF LgTypeOK
  <2>4. Reading'
    BY <1>t, <2>1, <2>2 DEF Reading
  <2> QED  BY <1>t, <2>1, <2>3, <2>4 DEF LgInv, Reported
<1>9. CASE GameLocks \/ SpareAppears \/ UNCHANGED lgVars
  <2>1. UNCHANGED <<log, dir, call, result, clock>>
    BY <1>9 DEF GameLocks, SpareAppears, World, lgVars
  <2>2. LgTypeOK'
    BY <1>t, <2>1 DEF LgTypeOK
  <2>3. Reading'
    BY <1>t, <2>1 DEF Reading
  <2> QED  BY <1>t, <2>1, <2>2, <2>3 DEF LgInv, Reported
<1> QED  BY <1>1, <1>2, <1>3, <1>4, <1>5, <1>6, <1>7, <1>8, <1>9 DEF LgNext

(* What a collection reports is what its copy shows, however the game      *)
(* writes and locks the log meanwhile, and across a rotation for the       *)
(* operations that read once (collect_on_failure, collect_snapshot); of    *)
(* collect only when both of its reads were of one log.  The crash is the  *)
(* last error of the copy, and the copies are pruned from the oldest on;   *)
(* for any limits, number of retries and length of the log.                *)
THEOREM EvidenceOfLogsIsKept == LogsAssumption /\ LgSpec => []LogsAreKept
<1>1. LgInit => LgInv
  BY LgStart
<1>2. LogsAssumption /\ LgInv /\ [LgNext]_lgVars => LgInv'
  BY LgStep
<1>3. LogsAssumption /\ LgInv => LogsAreKept
  <2> SUFFICES ASSUME LogsAssumption, LgInv PROVE LogsAreKept
    OBVIOUS
  <2>1. LgTypeOK /\ Reported(result)
    BY DEF LgInv
  <2>2. PrunesTheOldest
    BY <2>1, CleanupPrunesTheOldest DEF PrunesTheOldest
  <2>3. result.copy # NoText /\ result.op = "failure" =>
          /\ result.parsed = [gen |-> result.copy.gen, lines |-> result.copy.held]
          /\ IF result.crash = 0 THEN \A i \in result.copy.held : result.copy.lines[i] # "ERROR"
             ELSE LastErrorOf(result.copy, result.crash)
          /\ Cardinality(Matching(result.copy.lines)) <= MaxEntries =>
                \A i \in 1 .. Len(result.copy.lines) : result.copy.lines[i] = "ERROR" => i <= result.crash
    <3> SUFFICES ASSUME result.copy # NoText, result.op = "failure"
                 PROVE  /\ result.parsed = [gen |-> result.copy.gen, lines |-> result.copy.held]
                        /\ IF result.crash = 0
                           THEN \A i \in result.copy.held : result.copy.lines[i] # "ERROR"
                           ELSE LastErrorOf(result.copy, result.crash)
                        /\ Cardinality(Matching(result.copy.lines)) <= MaxEntries =>
                              \A i \in 1 .. Len(result.copy.lines) :
                                 result.copy.lines[i] = "ERROR" => i <= result.crash
      OBVIOUS
    <3>1. PICK text : IsText(text) /\ IsWhole(text) /\ result = ResultOf("failure", text, result.parsed)
      BY <2>1 DEF Reported
    <3> DEFINE r == result
    <3>2. r = ResultOf("failure", text, result.parsed)
      BY <3>1
    <3> HIDE DEF r
    <3>3. /\ r.parsed = [gen |-> r.copy.gen, lines |-> r.copy.held]
          /\ IF r.crash = 0 THEN \A i \in r.copy.held : r.copy.lines[i] # "ERROR"
             ELSE LastErrorOf(r.copy, r.crash)
          /\ Cardinality(Matching(r.copy.lines)) <= MaxEntries =>
                \A i \in 1 .. Len(r.copy.lines) : r.copy.lines[i] = "ERROR" => i <= r.crash
      BY <3>1, <3>2, CrashIsTheLastError
    <3> QED  BY <3>3 DEF r
  <2>4. /\ result.copy # NoText /\ result.op = "collect" =>
              /\ result.copy.held = 1 .. Len(result.copy.lines)
              /\ result.parsed.gen = result.copy.gen => FirstLinesOf(result.copy, result.parsed)
        /\ result.copy # NoText /\ result.op = "snapshot" => result.parsed = Parsed(result.copy)
    BY <2>1 DEF Reported, IsWhole
  <2> QED  BY <2>2, <2>3, <2>4 DEF LogsAreKept, ReportsItsCopy
<1>4. LogsAssumption => []LogsAssumption
  <2>1. LogsAssumption => LogsAssumption'
    BY DEF LogsAssumption
  <2> QED  BY <2>1, PTL
<1> QED
  BY <1>1, <1>2, <1>3, <1>4, PTL DEF LgSpec
=============================================================================
