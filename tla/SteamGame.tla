----------------------------- MODULE SteamGame -----------------------------
(***************************************************************************)
(* core/steam.py (SteamController): Steam and the game as processes of an  *)
(* operating system that gives the ids of dead processes to new ones.  A   *)
(* request to start goes through Steam and may be honoured late, twice or  *)
(* never; a process may refuse to end, and processes end by themselves.    *)
(* The Windows job object, which outlives no controller, is left out.      *)
(***************************************************************************)
EXTENDS Naturals

CONSTANTS
    Pids,     \* process ids
    Starts    \* calls; a process carries the number of the call it was born in

VARIABLES
    table,     \* pid -> what runs: "none", "game", "steam", "other"; its age
    asked,     \* Steam still holds a request to start the game
    ctl,       \* _steam_pid, _game_pid
    op,        \* the running call, its step, existing_pids, what it kills
    answer     \* how the last call ended, and the age of its game

sgVars == <<table, asked, ctl, op, answer>>

NoPid == 0
Free == [kind |-> "none", age |-> 0]
Running(kind) == {p \in Pids : table[p].kind = kind}
NoOp == [name |-> "none", step |-> "idle", existing |-> {}, victims |-> {}, epoch |-> 0, direct |-> FALSE]

SgInit ==
    /\ table = [p \in Pids |-> Free] /\ asked = FALSE
    /\ ctl = [steam |-> NoPid, game |-> NoPid] /\ op = NoOp /\ answer = [how |-> "none", age |-> 0, epoch |-> 0]

Returns(how, age) ==
    /\ answer' = [how |-> how, age |-> age, epoch |-> op.epoch]
    /\ op' = [NoOp EXCEPT !.epoch = op.epoch]
Still == UNCHANGED <<table, asked, ctl>>

-----------------------------------------------------------------------------
(* is_process_alive: the pid runs under the expected name.                 *)
IsAlive(pid, kind) == pid # NoPid /\ table[pid].kind = kind

Call(name, step) ==
    /\ op.step = "idle" /\ op.epoch < Starts
    /\ op' = [NoOp EXCEPT !.name = name, !.step = step, !.epoch = op.epoch + 1]
    /\ UNCHANGED <<table, asked, ctl, answer>>

(* start_steam: nothing when its own Steam still runs, the Steam that runs *)
(* or a new one otherwise; one that does not appear is an error.           *)
StartSteam ==
    /\ op.step = "idle" /\ ~IsAlive(ctl.steam, "steam") /\ UNCHANGED <<op, asked, answer>>
    /\ \E p \in Pids :
          /\ ctl' = [ctl EXCEPT !.steam = p]
          /\ \/ table[p].kind = "steam" /\ UNCHANGED table
             \/ /\ Running("steam") = {} /\ table[p].kind = "none"
                /\ table' = [table EXCEPT ![p] = [kind |-> "steam", age |-> op.epoch]]

StartGame == Call("start", "start")
ReuseGame == Call("reuse", "start")
RestartGame == Call("restart", "terminate")
StopGame == Call("stop", "terminate")

(* start_game: a running game is reused when the caller allows it;         *)
(* otherwise Steam is asked, and only a pid that is not among the ones     *)
(* that ran at that moment is taken for the answer.                        *)
Adopt(p) == ctl' = [ctl EXCEPT !.game = p] /\ Returns("game", table[p].age) /\ UNCHANGED <<table, asked>>
Ask ==
    /\ op.step = "start" /\ UNCHANGED <<table, answer>>
    /\ op.name # "reuse" \/ Running("game") = {}
    /\ asked' = TRUE /\ UNCHANGED ctl
    /\ op' = [op EXCEPT !.step = "wait", !.existing = Running("game")]
Reuse ==
    /\ op.step = "start" /\ op.name = "reuse"
    /\ \E p \in Running("game") : (\A q \in Running("game") : p <= q) /\ Adopt(p)

(* Mutant: any process of the game's name is the answer.                   *)
FoundAny == op.step = "wait" /\ \E p \in Running("game") : Adopt(p)

Found == op.step = "wait" /\ \E p \in Running("game") \ op.existing : Adopt(p)

(* The timeout: an error, or _start_game_direct with the same exclusions.  *)
TimesOut == op.step = "wait" /\ Returns("no game", 0) /\ Still
StartDirect ==
    /\ op.step = "wait" /\ ~op.direct /\ op.name # "restart" /\ asked' = TRUE
    /\ op' = [op EXCEPT !.direct = TRUE] /\ UNCHANGED <<table, ctl, answer>>

(* _terminate_game: the controller's own pid and every process of the name,*)
(* one after the other; each is checked by name, asked to end, killed      *)
(* after the grace, and left when it refuses.  A scan that fails leaves    *)
(* the controller's own pid.                                               *)
Scan ==
    /\ op.step = "terminate" /\ Still /\ UNCHANGED answer
    /\ \E seen \in {Running("game"), {}} :
          op' = [op EXCEPT !.step = "kill", !.victims = seen \union ({ctl.game} \ {NoPid})]
Kill ==
    /\ op.step = "kill" /\ UNCHANGED <<asked, ctl, answer>>
    /\ \E p \in op.victims :
          /\ op' = [op EXCEPT !.victims = @ \ {p}]
          /\ table' \in IF IsAlive(p, "game") THEN {table, [table EXCEPT ![p] = Free]} ELSE {table}
Killed ==
    /\ op.step = "kill" /\ op.victims = {} /\ ctl' = [ctl EXCEPT !.game = NoPid] /\ UNCHANGED <<table, asked>>
    /\ IF op.name = "restart" THEN op' = [op EXCEPT !.step = "start"] /\ UNCHANGED answer
       ELSE Returns("stopped", 0)

(* stop_steam and the end of the context manager: the game, then Steam.    *)
StopSteam ==
    /\ op.step = "idle" /\ ctl.steam # NoPid /\ ctl' = [ctl EXCEPT !.steam = NoPid] /\ UNCHANGED <<asked, op, answer>>
    /\ table' \in {table} \union (IF IsAlive(ctl.steam, "steam") THEN {[table EXCEPT ![ctl.steam] = Free]} ELSE {})

-----------------------------------------------------------------------------
(* The operating system and Steam.                                         *)
Machine == UNCHANGED <<ctl, op, answer>>
GameAppears ==
    /\ asked /\ Machine /\ asked' \in BOOLEAN
    /\ \E p \in Pids : /\ table[p].kind = "none"
                       /\ table' = [table EXCEPT ![p] = [kind |-> "game", age |-> op.epoch]]
ProcessEnds == \E p \in Pids : table[p].kind # "none" /\ table' = [table EXCEPT ![p] = Free] /\ UNCHANGED asked /\ Machine
OtherAppears ==
    /\ Running("other") = {} /\ UNCHANGED asked /\ Machine
    /\ \E p \in Pids : table[p].kind = "none" /\ table' = [table EXCEPT ![p] = [kind |-> "other", age |-> op.epoch]]

SgNext ==
    \/ StartSteam \/ StartGame \/ ReuseGame \/ RestartGame \/ StopGame \/ Ask \/ Reuse \/ Found
    \/ TimesOut \/ StartDirect \/ Scan \/ Kill \/ Killed \/ StopSteam \/ GameAppears \/ ProcessEnds
    \/ OtherAppears

-----------------------------------------------------------------------------
(* The game a restart or a start answers with was not there when the call  *)
(* began, even when the old one refused to end, its pid was given to       *)
(* another process, or an earlier request was honoured late (restart_game, *)
(* start_game).                                                            *)
AnswersFresh == answer'.how = "game" /\ answer' # answer /\ op.name # "reuse" => answer'.age = op.epoch
RestartIsFresh == [][AnswersFresh]_sgVars
=============================================================================
