-------------------------- MODULE Components_proofs -------------------------
(***************************************************************************)
(* Theorems about five of the components of MCComponents, for every value  *)
(* of their constants: the game that Steam control answers with, the queue *)
(* of sessions, the pages of the command-line adapter, the acceptance runs *)
(* of the test agent, and the generated tests.                             *)
(***************************************************************************)
EXTENDS SteamGame, SessionQueue, TestAgent, FluentCase, CliAdapter, TLAPS

SgSpec == SgInit /\ [][SgNext]_sgVars
SqSpec == SqInit /\ [][SqNext]_sqVars
TaSpec == TaInit /\ [][TaNext]_taVars
FcSpec == FcInit /\ [][FcNext]_fcVars
CaSpec == CaInit /\ [][CaNext]_caVars

-----------------------------------------------------------------------------
(* While a start waits, each game is one that ran when Steam was asked, or *)
(* one that was born since.                                                *)
StartInv ==
    /\ table \in [Pids -> [kind : {"none", "game", "steam", "other"}, age : Nat]]
    /\ op.epoch \in Nat
    /\ op.step = "wait" => \A p \in Pids : table[p].kind = "game" =>
                              p \in op.existing \/ table[p].age = op.epoch
    /\ DOMAIN op = DOMAIN NoOp

LEMMA StartInit == SgInit => StartInv
BY DEF SgInit, StartInv, Free, NoOp

LEMMA MachineKeepsStart ==
    ASSUME StartInv, GameAppears \/ ProcessEnds \/ OtherAppears PROVE StartInv'
<1>1. UNCHANGED op
      BY DEF GameAppears, ProcessEnds, OtherAppears, Machine
<1>2. PICK p \in Pids : table' \in {[table EXCEPT ![p] = Free],
                                    [table EXCEPT ![p] = [kind |-> "game", age |-> op.epoch]],
                                    [table EXCEPT ![p] = [kind |-> "other", age |-> op.epoch]]}
      BY DEF GameAppears, ProcessEnds, OtherAppears
<1> QED BY <1>1, <1>2 DEF StartInv, Free

LEMMA StartStep == StartInv /\ [SgNext]_sgVars => StartInv'
<1> SUFFICES ASSUME StartInv, [SgNext]_sgVars PROVE StartInv'
    OBVIOUS
<1>1. CASE StartSteam
      <2>1. UNCHANGED op
            BY <1>1 DEF StartSteam
      <2>2. UNCHANGED table \/ \E p \in Pids :
                table' = [table EXCEPT ![p] = [kind |-> "steam", age |-> op.epoch]]
            BY <1>1 DEF StartSteam
      <2> QED BY <2>1, <2>2 DEF StartInv
<1>2. CASE StartGame \/ ReuseGame \/ RestartGame \/ StopGame
      <2>1. PICK name, step : step # "wait" /\ Call(name, step)
            BY <1>2 DEF StartGame, ReuseGame, RestartGame, StopGame
      <2>2. /\ op' = [NoOp EXCEPT !.name = name, !.step = step, !.epoch = op.epoch + 1]
            /\ UNCHANGED table
            BY <2>1 DEF Call
      <2>3. op'.step = step /\ op'.epoch = op.epoch + 1 /\ DOMAIN op' = DOMAIN NoOp
            BY <2>2 DEF NoOp
      <2> QED BY <2>1, <2>2, <2>3 DEF StartInv
<1>3. CASE Ask
      BY <1>3 DEF Ask, StartInv, NoOp, Running
<1>4. CASE Reuse \/ Found \/ TimesOut
      BY <1>4 DEF Reuse, Found, TimesOut, Adopt, Returns, Still, StartInv, NoOp
<1>5. CASE StartDirect
      BY <1>5 DEF StartDirect, StartInv, NoOp
<1>6. CASE Scan
      BY <1>6 DEF Scan, Still, StartInv, NoOp
<1>7. CASE Kill
      <2>1. op' = [op EXCEPT !.victims = op'.victims] /\ op.step = "kill"
            BY <1>7 DEF Kill, StartInv, NoOp
      <2>2. UNCHANGED table \/ \E p : table' = [table EXCEPT ![p] = Free]
            BY <1>7 DEF Kill
      <2> QED BY <2>1, <2>2 DEF StartInv, Free, NoOp
<1>8. CASE Killed
      BY <1>8 DEF Killed, Returns, StartInv, NoOp
<1>9. CASE StopSteam
      <2>1. UNCHANGED op
            BY <1>9 DEF StopSteam
      <2>2. UNCHANGED table \/ \E p : table' = [table EXCEPT ![p] = Free]
            BY <1>9 DEF StopSteam
      <2> QED BY <2>1, <2>2 DEF StartInv, Free
<1>10. CASE UNCHANGED sgVars
      BY <1>10 DEF sgVars, StartInv
<1> QED BY <1>1, <1>2, <1>3, <1>4, <1>5, <1>6, <1>7, <1>8, <1>9, <1>10, MachineKeepsStart
        DEF SgNext

(* Whatever processes die, refuse to die or take a pid over, the game a    *)
(* start or a restart answers with was born in that call (start_game,      *)
(* restart_game), for any number of pids and calls.                        *)
THEOREM StartedGameIsNew == SgSpec => RestartIsFresh
<1>1. StartInv /\ [SgNext]_sgVars => [AnswersFresh]_sgVars
      <2> SUFFICES ASSUME StartInv, SgNext, answer'.how = "game", answer' # answer,
                          op.name # "reuse"
                   PROVE  answer'.age = op.epoch
          BY DEF AnswersFresh
      <2>1. CASE Found
            BY <2>1 DEF Found, Adopt, Returns, StartInv, Running
      <2>2. ~Reuse
            BY DEF Reuse
      <2>3. \A how : how # "game" => ~Returns(how, 0)
            BY DEF Returns
      <2>4. ~TimesOut /\ ~Killed
            BY <2>3 DEF TimesOut, Killed
      <2> QED BY <2>1, <2>2, <2>4
              DEF SgNext, StartSteam, StartGame, ReuseGame, RestartGame, StopGame, Call, Ask,
                  StartDirect, Scan, Kill, StopSteam, GameAppears, ProcessEnds, OtherAppears,
                  Machine
<1> QED BY <1>1, StartInit, StartStep, PTL DEF SgSpec, RestartIsFresh

-----------------------------------------------------------------------------
(* Behind the heap and _pending: the entry of the latest request of each   *)
(* waiting session is still in the heap.  What was served last stays       *)
(* recorded as it was.                                                     *)
QueueInv ==
    /\ \A s \in Waiting : \E e \in heap : e.session = s /\ e.request = pending[s]
    /\ ServedInTurn

LEMMA QueueInit == SqInit => QueueInv
BY DEF SqInit, QueueInv, Waiting, ServedInTurn, NobodyServed

(* Only entries of sessions that do not wait are skipped on the way.       *)
LEMMA SkippedAreDead ==
    ASSUME NEW e, NEW skipped \in Skipped(e) PROVE \A f \in skipped : f.session \notin Waiting
BY DEF Skipped, Live

LEMMA DequeueServesInTurn == ASSUME QueueInv, Dequeue PROVE QueueInv'
<1>1. PICK e \in Reached : \E skipped \in Skipped(e) :
         /\ heap' = heap \ (skipped \union {e}) /\ pending' = Without(e.session)
         /\ served' = [served |-> TRUE, entry |-> e, waiting |-> pending, heap |-> heap]
      BY DEF Dequeue
<1> PICK skipped \in Skipped(e) : heap' = heap \ (skipped \union {e})
      BY <1>1
<1>2. \A s \in Waiting' : \E f \in heap' : f.session = s /\ f.request = pending'[s]
      <2> TAKE s \in Waiting'
      <2>1. s \in Waiting /\ s # e.session /\ pending'[s] = pending[s]
            BY <1>1 DEF Waiting, Without
      <2>2. PICK f \in heap : f.session = s /\ f.request = pending[s]
            BY <2>1 DEF QueueInv
      <2>3. f \in heap'
            BY <1>1, <2>1, <2>2, SkippedAreDead
      <2> QED BY <2>1, <2>2, <2>3
<1>3. e \in heap /\ e.session \in Waiting
      BY DEF Reached, Live
<1>4. PICK f \in heap : f.session = e.session /\ f.request = pending[e.session]
      BY <1>3 DEF QueueInv
<1>5. \A g \in heap : g.session \in Waiting => ~Before(g, e)
      BY DEF Reached, Live
<1>6. /\ served'.entry = e /\ served'.waiting = pending /\ served'.heap = heap
      BY <1>1
<1>7. ~Revived' => e.request = f.request
      BY <1>3, <1>4, <1>6 DEF Revived
<1>8. ServedInTurn'
      BY <1>3, <1>4, <1>5, <1>6, <1>7 DEF ServedInTurn, Waiting
<1> QED BY <1>2, <1>8 DEF QueueInv

LEMMA QueueStep == QueueInv /\ [SqNext]_sqVars => QueueInv'
<1> SUFFICES ASSUME QueueInv, [SqNext]_sqVars PROVE QueueInv'
    OBVIOUS
<1>1. ASSUME UNCHANGED served PROVE ServedInTurn'
      BY <1>1 DEF QueueInv, ServedInTurn, Revived
<1>2. CASE Enqueue
      <2>1. PICK s \in Sessions, p \in Priorities :
               /\ heap' = heap \union
                     {[priority |-> p, at |-> clock, session |-> s, request |-> number']}
               /\ pending' = [x \in Waiting \union {s} |-> IF x = s THEN number' ELSE pending[x]]
            BY <1>2 DEF Enqueue
      <2>2. \A x \in Waiting' : \E e \in heap' : e.session = x /\ e.request = pending'[x]
        <3> TAKE x \in Waiting'
        <3>1. x \in Waiting \union {s} /\ pending'[x] = IF x = s THEN number' ELSE pending[x]
              BY <2>1 DEF Waiting
        <3>2. CASE x = s
          <4> DEFINE new == [priority |-> p, at |-> clock, session |-> s, request |-> number']
          <4>1. new \in heap' /\ new.session = s /\ new.request = number'
                BY <2>1
          <4> QED BY <3>1, <3>2, <4>1
        <3>3. CASE x # s
              BY <2>1, <3>1, <3>3 DEF QueueInv
        <3> QED BY <3>2, <3>3
      <2> QED BY <1>1, <1>2, <2>2 DEF QueueInv, Enqueue
<1>3. CASE Dequeue
      BY <1>3, DequeueServesInTurn
<1>4. CASE DropStale
      <2>1. \A e \in heap : e.session \in Waiting => e \in heap'
            BY <1>4, SkippedAreDead DEF DropStale, Live
      <2>2. UNCHANGED <<pending, served>>
            BY <1>4 DEF DropStale
      <2> QED BY <1>1, <2>1, <2>2 DEF QueueInv, Waiting
<1>5. CASE Cancel
      BY <1>1, <1>5 DEF Cancel, Without, QueueInv, Waiting
<1>6. CASE Clear
      BY <1>1, <1>6 DEF Clear, QueueInv, Waiting
<1>7. CASE Pause
      BY <1>1, <1>7 DEF Pause, QueueInv, Waiting
<1>8. CASE UNCHANGED sqVars
      BY <1>1, <1>8 DEF sqVars, QueueInv, Waiting
<1> QED BY <1>2, <1>3, <1>4, <1>5, <1>6, <1>7, <1>8 DEF SqNext

(* No waiting session is lost, and while no session id has two entries the *)
(* best and oldest request is served (enqueue, dequeue, cancel, peek), for *)
(* any number of sessions, requests and any depth.                         *)
THEOREM QueueIsJust == SqSpec => []QueueKeepsItsWord
<1>1. QueueInv => QueueKeepsItsWord
      BY DEF QueueInv, QueueKeepsItsWord, NobodyForgotten
<1> QED BY <1>1, QueueInit, QueueStep, PTL DEF SqSpec

-----------------------------------------------------------------------------
(* Behind the cached page.  While the cache is not marked, its page was    *)
(* read after the last command, except where an error has just left the    *)
(* cache as it was; and a fallback to the cached page, inside a converging *)
(* action, never brings back a page that would end it: the commands are    *)
(* sent on other pages, and only a read changes the cached one.            *)
Commands == Opening \union {"choose_map_node", "choose_event", "advance_dialogue", "enter_combat",
                            "combat_basic_policy", "skip_card_reward", "bundle_select", "return_to_menu"}
Stepping ==
    \/ stage \in {"skip", "leave_reward", "tri", "tri_proceed", "dialogue"}
    \/ stage \in {"bundle_select", "confirm"} /\ call.action # "bundle_select"
Endings == Converged \union {"DEGRADED"}
Converging == Stepping \/ stage \in {"enter", "converge", "retry", "again", "skipped", "said", "reread"}
Fields == {"page", "stale", "actions"}
CacheShape ==
    /\ DOMAIN cache = Fields
    /\ DOMAIN call = DOMAIN NoCall
    /\ DOMAIN fresh = {"hand", "cached"}
MarkInv ==
    /\ ~cache.stale => fresh.cached \/ stage \in {"raised", "wait", "proceed", "abandon", "tri_proceed"}
    /\ cache.stale => cache.actions \in {"none", "DEGRADED", "UNKNOWN"}
OfferInv == stage = "act" => call.action \in Commands /\ (call.offer = "DEGRADED" \/ fresh.cached)
ConvergeInv ==
    /\ Converging => /\ cache.page \in Endings => fresh.cached
                     /\ cache.page = "EVENT" => fresh.cached \/ call.offer = "DEGRADED"
    /\ Stepping => cache.page \notin Endings \union {"EVENT"}
    /\ stage = "converge" /\ call.page \notin {"DEGRADED", "UNKNOWN"} =>
          call.page = cache.page /\ (fresh.cached => fresh.hand)
    /\ stage = "event" /\ ScreenOf(call.page) # "EVENT" => fresh.hand
CacheInv == CacheShape /\ MarkInv /\ OfferInv /\ ConvergeInv /\ ReadsAreFresh

(* What a read may be: the game's page, cached; an unknown or a degraded   *)
(* one; the page that was cached.                                          *)
IsRead(read) ==
    /\ DOMAIN read = {"page", "cache", "fresh"}
    /\ DOMAIN read.cache = Fields
    /\ DOMAIN read.fresh = {"hand", "cached"}
Real(read) ==
    /\ read.page = world.page /\ read.cache.page = world.page
    /\ ~read.cache.stale /\ read.cache.actions = "none"
    /\ read.fresh.hand /\ read.fresh.cached
Unmapped(read, c) ==
    /\ read.page = "UNKNOWN" /\ read.cache = c
    /\ read.fresh.hand /\ read.fresh.cached = fresh.cached
Degraded(read, c) ==
    /\ read.page = "DEGRADED" /\ read.cache.page = c.page
    /\ read.cache.stale /\ read.cache.actions = "none"
    /\ read.fresh.hand /\ read.fresh.cached = fresh.cached
Held(read, c) ==
    /\ read.page = c.page /\ read.cache = c
    /\ read.fresh.hand = fresh.cached /\ read.fresh.cached = fresh.cached
Asked(read, c) == IsRead(read) /\ (Real(read) \/ Unmapped(read, c) \/ Degraded(read, c))

LEMMA QueriesAsk ==
    ASSUME CacheShape, NEW c, DOMAIN c = Fields, NEW read \in Query(c)
    PROVE  Asked(read, c)
<1> DEFINE Blank == [page |-> world.page, stale |-> FALSE, actions |-> "none"]
           Old == [c EXCEPT !.stale = TRUE, !.actions = "none"]
           Seen == [fresh EXCEPT !.hand = TRUE]
<1>1. /\ DOMAIN Blank = Fields /\ Blank.page = world.page /\ ~Blank.stale /\ Blank.actions = "none"
      BY DEF CacheShape, Fields
<1>2. /\ DOMAIN Old = Fields /\ Old.page = c.page /\ Old.stale /\ Old.actions = "none"
      BY DEF Fields
<1>3. DOMAIN Seen = {"hand", "cached"} /\ Seen.hand /\ Seen.cached = fresh.cached
      BY DEF CacheShape
<1>4. \/ read = [page |-> "UNKNOWN", cache |-> c, fresh |-> Seen]
      \/ read = [page |-> world.page, cache |-> Blank, fresh |-> [hand |-> TRUE, cached |-> TRUE]]
      \/ read = [page |-> "DEGRADED", cache |-> Old, fresh |-> Seen]
      BY DEF Query
<1> HIDE DEF Blank, Old, Seen
<1>6. CASE read = [page |-> "UNKNOWN", cache |-> c, fresh |-> Seen]
      BY <1>3, <1>6 DEF Asked, Unmapped, IsRead
<1>7. CASE read = [page |-> world.page, cache |-> Blank, fresh |-> [hand |-> TRUE, cached |-> TRUE]]
      BY <1>1, <1>7 DEF Asked, Real, IsRead
<1>8. CASE read = [page |-> "DEGRADED", cache |-> Old, fresh |-> Seen]
      BY <1>2, <1>3, <1>8 DEF Asked, Degraded, IsRead
<1> QED BY <1>4, <1>6, <1>7, <1>8

LEMMA HeldIsRead ==
    ASSUME CacheShape, NEW c, DOMAIN c = Fields
    PROVE  IsRead(Cached(c)) /\ Held(Cached(c), c)
BY DEF Cached, Held, IsRead, CacheShape, Fields

LEMMA ReadsGet ==
    ASSUME CacheShape, NEW c, DOMAIN c = Fields, NEW read \in OrCached(c)
    PROVE  Asked(read, c) \/ (IsRead(read) /\ Held(read, c))
BY QueriesAsk, HeldIsRead DEF OrCached, get_state

LEMMA StatesGet ==
    ASSUME CacheShape, NEW read \in get_state(cache)
    PROVE  Asked(read, cache) \/ (~cache.stale /\ IsRead(read) /\ Held(read, cache))
<1>1. DOMAIN cache = Fields
      BY DEF CacheShape, Fields
<1> QED BY <1>1, QueriesAsk, HeldIsRead DEF get_state

LEMMA Marked ==
    ASSUME CacheShape
    PROVE  /\ DOMAIN Stale = Fields /\ Stale.page = cache.page
           /\ Stale.stale /\ Stale.actions = "none"
BY DEF CacheShape, Stale, Fields

LEMMA CacheInit == CaInit => CacheInv
<1> SUFFICES ASSUME CaInit PROVE CacheInv
    OBVIOUS
<1>1. CacheShape
      BY DEF CaInit, CacheShape, Fields
<1>2. stage = "wait" /\ cache.stale = TRUE /\ cache.actions = "none"
      BY DEF CaInit
<1> QED BY <1>1, <1>2 DEF CacheInv, MarkInv, OfferInv, ConvergeInv, ReadsAreFresh, Converging, Stepping

(* A command that marks the cache, whatever becomes of it.                 *)
Onwards == {"answered", "confirm", "again", "leave", "submenu", "new_run", "mode", "choose_event",
          "skipped", "said", "event_read", "combat_basic_policy"}
LEMMA CommandsMark ==
    ASSUME CacheInv, NEW st, NEW n,
           cache' = Stale, fresh' = [hand |-> FALSE, cached |-> FALSE],
           \/ stage' = "answered" /\ call' = [call EXCEPT !.status = st] /\ st \notin {"arrived", "needless"}
           \/ stage' \in Onwards \ {"answered"} /\ call' = [call EXCEPT !.tries = n],
           stage' \in {"confirm", "again", "skipped", "said"} => Stepping \/ (stage' = "confirm" /\ call.action = "bundle_select")
    PROVE  CacheInv'
<1>1. /\ DOMAIN cache' = Fields /\ cache'.page = cache.page
      /\ cache'.stale /\ cache'.actions = "none"
      BY Marked DEF CacheInv
<1>2. CacheShape'
      BY <1>1 DEF CacheInv, CacheShape
<1>3. MarkInv'
      BY <1>1 DEF MarkInv
<1>4. stage' \in Onwards /\ (stage' = "answered" => call'.status = st)
      BY DEF CacheInv, CacheShape, NoCall, Onwards
<1>5. OfferInv' /\ ReadsAreFresh'
      BY <1>1, <1>4 DEF OfferInv, ReadsAreFresh, Onwards
<1>6. call'.action = call.action /\ call'.offer = call.offer
      BY DEF CacheInv, CacheShape, NoCall
<1>7. Stepping' => Stepping
      BY <1>4, <1>6 DEF Stepping, Onwards
<1>8. Converging' => Stepping
      BY <1>4, <1>6, <1>7 DEF Converging, Onwards
<1>9. ConvergeInv'
      BY <1>1, <1>4, <1>6, <1>7, <1>8 DEF CacheInv, ConvergeInv, Onwards
<1> QED BY <1>2, <1>3, <1>5, <1>9 DEF CacheInv
(* A step that leaves the cache and its age alone.                         *)
LEMMA Onward ==
    ASSUME CacheInv, UNCHANGED <<cache, fresh>>, NEW n, NEW st,
           \/ stage' = "answered" /\ call' = [call EXCEPT !.status = st] /\ st \notin {"arrived", "needless"}
              /\ (~cache.stale => fresh.cached)
           \/ /\ stage' \in {"skip", "tri", "bundle_select", "dialogue"} /\ call' = [call EXCEPT !.tries = n]
              /\ stage = "converge" /\ call.page \notin Converged \union {"EVENT", "UNKNOWN", "DEGRADED"}
           \/ /\ stage' \in {"retry", "reread"} /\ call' = [call EXCEPT !.tries = n] /\ stage = "converge"
           \/ stage' \in {"choose_map_node", "event_read", "progress"} /\ call' = [call EXCEPT !.tries = n]
              /\ stage = "event"
    PROVE  CacheInv'
<1>1. CacheShape'
      BY DEF CacheInv, CacheShape
<1>2. MarkInv'
      BY DEF CacheInv, MarkInv
<1>3. call'.action = call.action /\ call'.offer = call.offer /\ (stage' = "answered" => call'.status = st)
      BY DEF CacheInv, CacheShape, NoCall
<1>4. OfferInv' /\ ReadsAreFresh'
      BY <1>3 DEF OfferInv, ReadsAreFresh
<1>5. Converging' => stage = "converge"
      BY DEF Converging, Stepping
<1>6. Stepping' => cache.page \notin Endings \union {"EVENT"}
      BY <1>5 DEF Stepping, CacheInv, ConvergeInv, Endings
<1>7. Converging' => Converging
      BY <1>5 DEF Converging
<1>8. ConvergeInv'
      BY <1>3, <1>6, <1>7 DEF CacheInv, ConvergeInv
<1> QED BY <1>1, <1>2, <1>4, <1>8 DEF CacheInv

(* A read inside a compound action, of a page taken for the next step.     *)
Paused == {"leave", "mode", "new_run", "submenu", "event", "turn", "combat_basic_policy",
            "converge", "leave_reward", "choose_map_node"}
LEMMA ReadOn ==
    ASSUME CacheInv, NEW c, c \in {cache, Stale}, NEW read, NEW n,
           Asked(read, c) \/ (IsRead(read) /\ Held(read, c)), Takes(read),
           ~cache.stale /\ c = cache => fresh.cached,
           stage' \in Paused, call' = [call EXCEPT !.page = read.page, !.tries = n],
           stage' \in {"converge", "leave_reward"} => Converging,
           stage' = "leave_reward" => read.page = "CARD_REWARD",
           stage' = "event" => Asked(read, c)
    PROVE  CacheInv'
<1>1. /\ DOMAIN cache' = Fields /\ cache' = read.cache /\ fresh' = read.fresh
      /\ DOMAIN fresh' = {"hand", "cached"}
      BY DEF Takes, Asked, IsRead
<1>2. CacheShape'
      BY <1>1 DEF CacheInv, CacheShape
<1>3. /\ call'.action = call.action /\ call'.offer = call.offer /\ call'.page = read.page
      BY DEF CacheInv, CacheShape, NoCall
<1>4. DOMAIN c = Fields /\ (c = cache \/ (c.page = cache.page /\ c.stale /\ c.actions = "none"))
      BY Marked DEF CacheInv, CacheShape
<1>5. MarkInv'
      BY <1>1, <1>4 DEF CacheInv, MarkInv, Asked, Real, Unmapped, Degraded, Held
<1>6. OfferInv' /\ ReadsAreFresh'
      BY DEF OfferInv, ReadsAreFresh, Paused
<1>7. /\ Converging' => Converging /\ stage' \in {"converge", "leave_reward"}
      /\ Stepping' => stage' = "leave_reward"
      BY DEF Converging, Stepping, Paused
<1>8. \/ cache'.page = world.page /\ read.page = world.page /\ fresh'.cached /\ fresh'.hand
      \/ /\ cache'.page = cache.page /\ (fresh.cached => fresh'.cached)
         /\ \/ read.page \in {"UNKNOWN", "DEGRADED"} /\ Asked(read, c) /\ fresh'.hand
            \/ read.page = cache.page /\ (fresh'.cached => fresh'.hand) /\ Held(read, c)
      BY <1>1, <1>4 DEF Asked, Real, Unmapped, Degraded, Held
<1>9. Converging' => /\ cache'.page \in Endings => fresh'.cached
                     /\ cache'.page = "EVENT" => fresh'.cached \/ call'.offer = "DEGRADED"
      BY <1>3, <1>7, <1>8 DEF CacheInv, ConvergeInv
<1>10. Stepping' => cache'.page \notin Endings \union {"EVENT"}
      BY <1>7, <1>8 DEF Endings, Converged
<1>11. stage' = "converge" /\ call'.page \notin {"DEGRADED", "UNKNOWN"} =>
          call'.page = cache'.page /\ (fresh'.cached => fresh'.hand)
      BY <1>3, <1>8
<1>12. stage' = "event" => fresh'.hand
      BY <1>1 DEF Asked, Real, Unmapped, Degraded
<1>13. ConvergeInv'
      BY <1>9, <1>10, <1>11, <1>12 DEF ConvergeInv
<1> QED BY <1>2, <1>5, <1>6, <1>13 DEF CacheInv

(* A read that ends the action.                                            *)
LEMMA ReadEnds ==
    ASSUME CacheInv, NEW c, c \in {cache, Stale}, NEW read, NEW st,
           Asked(read, c) \/ (IsRead(read) /\ Held(read, c)), Takes(read),
           ~cache.stale /\ c = cache => fresh.cached,
           Answer(st),
           st = "arrived" => read.fresh.hand,
           st = "needless" /\ call.offer # "DEGRADED" => read.fresh.hand
    PROVE  CacheInv'
<1>1. /\ DOMAIN cache' = Fields /\ cache' = read.cache /\ fresh' = read.fresh
      /\ DOMAIN fresh' = {"hand", "cached"}
      BY DEF Takes, Asked, IsRead
<1>2. CacheShape'
      BY <1>1 DEF CacheInv, CacheShape, Answer
<1>3. stage' = "answered" /\ call'.offer = call.offer /\ call'.status = st
      BY DEF CacheInv, CacheShape, NoCall, Answer
<1>4. DOMAIN c = Fields /\ (c = cache \/ (c.page = cache.page /\ c.stale /\ c.actions = "none"))
      BY Marked DEF CacheInv, CacheShape
<1>5. MarkInv'
      BY <1>1, <1>4 DEF CacheInv, MarkInv, Asked, Real, Unmapped, Degraded, Held
<1>6. ~cache'.stale => fresh'.cached
      BY <1>1, <1>4 DEF Asked, Real, Unmapped, Degraded, Held
<1>7. OfferInv' /\ ConvergeInv' /\ ReadsAreFresh'
      BY <1>1, <1>3, <1>6 DEF OfferInv, ConvergeInv, Converging, Stepping, ReadsAreFresh
<1> QED BY <1>2, <1>5, <1>7 DEF CacheInv
(* A command that fails and leaves the cache as it is: the action goes on  *)
(* to another command, or its error is raised.                             *)
LEMMA CommandsRaise ==
    ASSUME CacheInv, UNCHANGED cache, fresh' = [hand |-> FALSE, cached |-> FALSE],
           \/ stage' = "raised" /\ UNCHANGED call
           \/ stage' \in {"proceed", "abandon"} /\ (\E n : call' = [call EXCEPT !.tries = n])
           \/ stage = "tri" /\ stage' = "tri_proceed" /\ (\E n : call' = [call EXCEPT !.tries = n])
    PROVE  CacheInv'
<1>1. CacheShape' /\ call'.action = call.action
      BY DEF CacheInv, CacheShape, NoCall
<1>2. MarkInv' /\ OfferInv' /\ ReadsAreFresh'
      BY DEF CacheInv, MarkInv, OfferInv, ReadsAreFresh
<1>3. Converging' => stage = "tri" /\ cache'.page \notin Endings \union {"EVENT"}
      BY DEF CacheInv, ConvergeInv, Converging, Stepping
<1>4. ConvergeInv'
      BY <1>3 DEF ConvergeInv, Converging
<1> QED BY <1>1, <1>2, <1>4 DEF CacheInv

LEMMA CacheStep == CacheInv /\ [CaNext]_caVars => CacheInv'
<1> SUFFICES ASSUME CacheInv, [CaNext]_caVars PROVE CacheInv'
    OBVIOUS
<1> USE DEF Answer, OnTo, Holding
<1>s. CacheShape /\ DOMAIN Stale = Fields /\ DOMAIN cache = Fields
      BY Marked DEF CacheInv, CacheShape
<1>f. stage \notin {"raised", "wait", "proceed", "abandon", "tri_proceed"} => (~cache.stale => fresh.cached)
      BY DEF CacheInv, MarkInv
<1>1. CASE Wait
      <2>1. PICK read \in Query(Stale) : Takes([read EXCEPT !.cache.actions = read.page])
            BY <1>1 DEF Wait
      <2>2. Asked(read, Stale)
            BY <1>s, QueriesAsk
      <2>3. /\ DOMAIN cache' = Fields /\ DOMAIN fresh' = {"hand", "cached"}
            /\ cache'.stale = read.cache.stale /\ cache'.actions = read.page /\ fresh' = read.fresh
            BY <2>1, <2>2 DEF Takes, Asked, IsRead, Fields
      <2>4. call' = NoCall /\ stage' \in {"wait", "pre"}
            BY <1>1 DEF Wait
      <2>5. CacheShape'
            BY <2>3, <2>4 DEF CacheShape
      <2>6. MarkInv'
            BY <2>2, <2>3, <1>s, Marked DEF MarkInv, Asked, Real, Unmapped, Degraded
      <2> QED BY <2>4, <2>5, <2>6
              DEF CacheInv, OfferInv, ReadsAreFresh, ConvergeInv, Converging, Stepping
<1>2. CASE PreRead
      <2>1. PICK read \in get_state(cache) : Holding("offer", read, 0)
            BY <1>2 DEF PreRead
      <2>2. Asked(read, cache) \/ (~cache.stale /\ IsRead(read) /\ Held(read, cache))
            BY <1>s, StatesGet
      <2>3. /\ DOMAIN cache' = Fields /\ DOMAIN fresh' = {"hand", "cached"}
            /\ cache' = read.cache /\ fresh' = read.fresh /\ stage' = "offer"
            BY <2>1, <2>2 DEF Takes, Asked, IsRead
      <2>4. CacheShape'
            BY <2>1, <2>3, <1>s DEF CacheShape
      <2>5. MarkInv'
            BY <1>2, <1>f, <2>2, <2>3 DEF PreRead, CacheInv, MarkInv, Asked, Real, Unmapped, Degraded, Held
      <2> QED BY <2>3, <2>4, <2>5
              DEF CacheInv, OfferInv, ReadsAreFresh, ConvergeInv, Converging, Stepping
<1>3. CASE Offer
      <2>1. PICK read \in IF cache.actions # "none" THEN {[Cached(cache) EXCEPT !.page = cache.actions]}
                          ELSE get_state(cache) :
               /\ Takes([read EXCEPT !.cache.actions = read.page])
               /\ \E a \in ActionsOf(read.page) : call' = [call EXCEPT !.action = a, !.offer = read.page]
            BY <1>3 DEF Offer
      <2>2. PICK a \in ActionsOf(read.page) : call' = [call EXCEPT !.action = a, !.offer = read.page]
            BY <2>1
      <2>3. a \in Commands /\ read.page # "UNKNOWN" /\ read.page # "none"
            BY <2>2 DEF ActionsOf, ScreenOf, Commands, Opening
      <2>4. ~cache.stale => fresh.cached
            BY <1>3, <1>f DEF Offer
      <2> DEFINE Good == /\ IsRead(read) /\ (read.page = "DEGRADED" \/ read.fresh.cached)
                         /\ read.cache.stale => read.page = "DEGRADED"
                         /\ ~read.cache.stale => read.fresh.cached
      <2>5. ASSUME cache.actions # "none" PROVE Good
            <3>1. read = [Cached(cache) EXCEPT !.page = cache.actions]
                  BY <2>1, <2>5
            <3>2. /\ DOMAIN read = {"page", "cache", "fresh"} /\ read.page = cache.actions /\ read.cache = cache
                  /\ read.fresh = [hand |-> fresh.cached, cached |-> fresh.cached]
                  BY <3>1 DEF Cached
            <3>3. read.page = "DEGRADED" \/ (~cache.stale /\ fresh.cached)
                  BY <2>3, <2>4, <2>5, <3>2 DEF CacheInv, MarkInv
            <3> QED BY <2>4, <3>2, <3>3, <1>s DEF IsRead
      <2>6. ASSUME cache.actions = "none" PROVE Good
            BY <1>s, <2>1, <2>3, <2>4, <2>6, StatesGet DEF Asked, Real, Unmapped, Degraded, Held
      <2>7. Good
            BY <2>5, <2>6
      <2> HIDE DEF Good
      <2>8. /\ DOMAIN cache' = Fields /\ DOMAIN fresh' = {"hand", "cached"} /\ fresh' = read.fresh
            /\ cache'.stale = read.cache.stale /\ cache'.actions = read.page
            BY <2>1, <2>7 DEF Takes, IsRead, Fields, Good
      <2>9. stage' = "act" /\ call'.action = a /\ call'.offer = read.page /\ CacheShape'
            BY <1>3, <1>s, <2>2, <2>8 DEF Offer, CacheShape, NoCall
      <2>10. MarkInv' /\ OfferInv'
            BY <2>3, <2>7, <2>8, <2>9 DEF MarkInv, OfferInv, Good
      <2> QED BY <2>9, <2>10 DEF CacheInv, ReadsAreFresh, ConvergeInv, Converging, Stepping
<1>4. CASE Dispatch
      <2>1. PICK read \in Looked(call.action) :
               IF Needless(call.action, ScreenOf(read.page)) THEN Takes(read) /\ Answer("needless")
               ELSE Holding(PathOf(call.action, ScreenOf(read.page)), read, 0)
            BY <1>4 DEF Dispatch
      <2>2. Asked(read, cache) \/ (IsRead(read) /\ Held(read, cache))
            BY <1>s, ReadsGet, HeldIsRead DEF Looked
      <2>3. call.action \in Commands /\ (call.offer = "DEGRADED" \/ fresh.cached) /\ (~cache.stale => fresh.cached)
            BY <1>4, <1>f DEF Dispatch, CacheInv, OfferInv
      <2>4. CASE Needless(call.action, ScreenOf(read.page))
            BY <2>1, <2>2, <2>3, <2>4, ReadEnds DEF Asked, Real, Unmapped, Degraded, Held
      <2>5. CASE ~Needless(call.action, ScreenOf(read.page))
            <3>1. /\ Takes(read) /\ stage' = PathOf(call.action, ScreenOf(read.page))
                  /\ call' = [call EXCEPT !.page = read.page, !.tries = 0]
                  BY <2>1, <2>5
            <3>2. /\ DOMAIN cache' = Fields /\ cache' = read.cache /\ fresh' = read.fresh
                  /\ DOMAIN fresh' = {"hand", "cached"}
                  BY <2>2, <3>1 DEF Takes, Asked, IsRead
            <3>3. CacheShape' /\ call'.action = call.action /\ call'.offer = call.offer /\ call'.page = read.page
                  BY <1>s, <3>1, <3>2 DEF CacheShape, NoCall
            <3>4. MarkInv'
                  BY <2>2, <2>3, <3>2 DEF CacheInv, MarkInv, Asked, Real, Unmapped, Degraded, Held
            <3>5. stage' \in Commands \union {"event", "enter"}
                  BY <2>3, <3>1 DEF PathOf
            <3>6. OfferInv' /\ ReadsAreFresh' /\ ~Stepping' /\ stage' # "converge"
                  BY <3>3, <3>5, <3>1 DEF OfferInv, ReadsAreFresh, Stepping, Commands, Opening, PathOf
            <3>7. Converging' => stage' = "enter" /\ ScreenOf(read.page) \in Interstitial
                  BY <2>3, <3>1, <3>5, <3>6 DEF Converging, PathOf, Commands, Opening
            <3>8. ScreenOf(read.page) \in Interstitial =>
                     read.page \notin Endings \union {"UNKNOWN"}
                  BY DEF ScreenOf, Interstitial, Endings, Converged
            <3>9. Converging' => /\ cache'.page \in Endings => fresh'.cached
                                 /\ cache'.page = "EVENT" => fresh'.cached \/ call'.offer = "DEGRADED"
                  BY <2>2, <2>3, <3>2, <3>3, <3>7, <3>8 DEF Asked, Real, Unmapped, Degraded, Held, Endings
            <3>10. stage' = "event" => ScreenOf(read.page) = "EVENT"
                  BY <2>3, <3>1 DEF PathOf, Commands, Opening
            <3>11. ConvergeInv'
                  BY <3>3, <3>6, <3>9, <3>10 DEF ConvergeInv
            <3> QED BY <3>3, <3>4, <3>6, <3>11 DEF CacheInv
      <2> QED BY <2>4, <2>5
<1>5. CASE OneCommand \/ ChooseEvent \/ Proceed \/ EmbarkCommand \/ AbandonSaved \/ ChooseMode
      BY <1>5, CommandsMark
         DEF OneCommand, ChooseEvent, Proceed, EmbarkCommand, AbandonSaved, ChooseMode, Sends, Obeyed, Fails,
             Broken, Onwards
<1>6. CASE BundleSelect \/ BundleConfirm
      BY <1>6, CommandsMark
         DEF BundleSelect, BundleConfirm, BundleFails, AfterBundle, Sends, Obeyed, Fails, Onwards, Stepping
<1>7. CASE SkipReward \/ LeaveReward \/ EventProgress \/ PolicyPlays
      BY <1>7, CommandsMark
         DEF SkipReward, LeaveReward, EventProgress, PolicyPlays, Sends, Obeyed, Fails, Broken, Onwards, Stepping
<1>8. CASE SkipCardReward \/ NewRun
      BY <1>8, CommandsMark, CommandsRaise
         DEF SkipCardReward, NewRun, Sends, Obeyed, Fails, Broken, Onwards
<1>9. CASE SkipTriSelect \/ TriProceed \/ GoThrough
      BY <1>9, CommandsMark, CommandsRaise
         DEF SkipTriSelect, TriProceed, GoThrough, Raises, Obeyed, Fails, Onwards, Stepping
<1>10. ASSUME ReadFails, stage \notin {"raised", "wait", "proceed", "abandon", "tri_proceed"} PROVE CacheInv'
      <2>1. DOMAIN cache' = Fields /\ cache'.stale /\ cache'.actions = "none" /\ stage' = "answered"
            BY <1>s, <1>10, Marked DEF ReadFails
      <2>2. call'.status \in {"timeout", "failure"} /\ CacheShape'
            BY <1>s, <1>10, <2>1 DEF ReadFails, CacheShape, NoCall
      <2> QED BY <2>1, <2>2
              DEF CacheInv, MarkInv, OfferInv, ConvergeInv, Converging, Stepping, ReadsAreFresh
<1>11. CASE EmbarkLeaves \/ PollSubmenu
      <2>1. \A read \in Query(Stale) : Asked(read, Stale)
            BY <1>s, QueriesAsk
      <2>2. CASE ReadFails
            BY <1>10, <1>11, <2>2 DEF EmbarkLeaves, PollSubmenu
      <2>3. ASSUME NEW read \in Query(Stale), Takes(read),
                   \/ \E st \in {"arrived", "failure", "sent"} : Answer(st)
                   \/ /\ stage' \in {"leave", "mode", "submenu"}
                      /\ \E n : call' = [call EXCEPT !.page = read.page, !.tries = n]
            PROVE  CacheInv'
            <3>1. Asked(read, Stale) /\ read.fresh.hand
                  BY <2>1 DEF Asked, Real, Unmapped, Degraded
            <3>2. Stale # cache \/ cache.stale
                  BY <1>s, Marked
            <3>3. CASE \E st \in {"arrived", "failure", "sent"} : Answer(st)
                  <4> HIDE DEF Answer
                  <4> QED BY <2>3, <3>1, <3>2, <3>3, ReadEnds
            <3>4. CASE /\ stage' \in {"leave", "mode", "submenu"}
                       /\ \E n : call' = [call EXCEPT !.page = read.page, !.tries = n]
                  BY <2>3, <3>1, <3>2, <3>4, ReadOn DEF Paused
            <3> QED BY <2>3, <3>3, <3>4
      <2>4. CASE EmbarkLeaves /\ ~ReadFails
            BY <2>3, <2>4 DEF EmbarkLeaves
      <2>5. CASE PollSubmenu /\ ~ReadFails
            BY <2>3, <2>5 DEF PollSubmenu
      <2> QED BY <1>11, <2>2, <2>4, <2>5
<1>12. CASE StartNewRun
      BY <1>10, <1>12, <1>f, <1>s, StatesGet, ReadOn DEF StartNewRun, Paused
<1>13. CASE Enter
      BY <1>13, <1>f, <1>s, ReadsGet, ReadOn DEF Enter, Paused, Converging
<1>14. CASE Converge
      <2>1. stage = "converge" /\ UNCHANGED <<cache, fresh>>
            BY <1>14 DEF Converge, Converges
      <2>2. CASE call.tries >= Patience
            BY <1>14, <1>f, <2>1, <2>2, Onward DEF Converge
      <2>3. CASE ~(call.tries >= Patience) /\ call.page \in Converged \union {"EVENT"}
            <3>1. PICK st \in {"arrived", "needless"} :
                     /\ Converges(st)
                     /\ st = "needless" => call.page = "EVENT"
                     /\ st = "arrived" => call.page \in Converged
                  BY <1>14, <2>3 DEF Converge, Converged
            <3>2. CASE call.action = "choose_map_node"
                  BY <2>1, <3>1, <3>2, Onward DEF Converges
            <3>3. CASE call.action # "choose_map_node"
                  <4>1. /\ stage' = "answered" /\ call'.status = st /\ call'.offer = call.offer
                        /\ CacheShape'
                        BY <1>s, <2>1, <3>1, <3>3 DEF Converges, CacheShape, NoCall
                  <4>2. fresh.hand \/ (st = "needless" /\ call.offer = "DEGRADED")
                        BY <2>1, <3>1 DEF CacheInv, ConvergeInv, Converging, Endings, Converged
                  <4>3. MarkInv' /\ ReadsAreFresh' /\ OfferInv'
                        BY <1>f, <2>1, <4>1, <4>2 DEF CacheInv, MarkInv, OfferInv, ReadsAreFresh
                  <4> QED BY <4>1, <4>3 DEF CacheInv, ConvergeInv, Converging, Stepping
            <3> QED BY <3>2, <3>3
      <2>4. CASE ~(call.tries >= Patience) /\ call.page \notin Converged \union {"EVENT"}
            BY <1>14, <2>1, <2>4, Onward DEF Converge, NextStep
      <2> QED BY <2>2, <2>3, <2>4
<1>15. CASE ReadAgain \/ RewardStays
      BY <1>15, <1>f, <1>s, ReadsGet, ReadOn, Marked DEF ReadAgain, RewardStays, Paused, Converging
<1>16. CASE Said
      <2>1. CASE stage' = "raised" /\ UNCHANGED <<cache, call, fresh>>
            BY <2>1 DEF CacheInv, CacheShape, MarkInv, OfferInv, ConvergeInv, Converging, Stepping, ReadsAreFresh
      <2>2. CASE \E read \in get_state(cache) : Holding("converge", read, call.tries)
            BY <1>16, <1>f, <1>s, <2>2, StatesGet, ReadOn DEF Said, Paused, Converging
      <2> QED BY <1>16, <2>1, <2>2 DEF Said
<1>17. CASE Reread
      <2>1. PICK read \in OrCached(cache) :
               IF ScreenOf(read.page) = "COMBAT" THEN Takes(read) /\ Answer("arrived")
               ELSE Holding("choose_map_node", read, 0)
            BY <1>17 DEF Reread
      <2>2. Asked(read, cache) \/ (IsRead(read) /\ Held(read, cache))
            BY <1>s, ReadsGet
      <2>3. stage = "reread" /\ (~cache.stale => fresh.cached)
            BY <1>17, <1>f DEF Reread
      <2>4. CASE ScreenOf(read.page) = "COMBAT"
            <3>1. Held(read, cache) => cache.page \in Endings
                  BY <2>4 DEF ScreenOf, Endings, Converged, Held
            <3>2. read.fresh.hand
                  BY <2>2, <2>3, <3>1 DEF Asked, Real, Unmapped, Degraded, Held, CacheInv, ConvergeInv, Converging
            <3> QED BY <2>1, <2>2, <2>3, <2>4, <3>2, ReadEnds
      <2>5. CASE ScreenOf(read.page) # "COMBAT"
            BY <2>1, <2>2, <2>3, <2>5, ReadOn DEF Paused
      <2> QED BY <2>4, <2>5
<1>18. CASE AdvanceEvent
      <2>1. stage = "event" /\ UNCHANGED <<cache, fresh>> /\ (~cache.stale => fresh.cached)
            BY <1>18, <1>f DEF AdvanceEvent, EventEnds
      <2>2. CASE Answer("arrived")
            <3>1. ScreenOf(call.page) \in {"COMBAT", "CARD_REWARD"}
                  BY <1>18, <2>1, <2>2 DEF AdvanceEvent, EventEnds, CacheInv, CacheShape, NoCall
            <3>2. fresh.hand
                  BY <2>1, <3>1 DEF CacheInv, ConvergeInv
            <3>3. CacheShape' /\ stage' = "answered" /\ call'.status = "arrived"
                  BY <1>s, <2>1, <2>2 DEF CacheShape, NoCall
            <3> QED BY <2>1, <3>2, <3>3
                    DEF CacheInv, MarkInv, OfferInv, ConvergeInv, Converging, Stepping, ReadsAreFresh
      <2>3. CASE ~Answer("arrived")
            BY <1>18, <2>1, <2>3, Onward DEF AdvanceEvent, EventEnds
      <2> QED BY <2>2, <2>3
<1>19. CASE EventRead
      <2>1. CASE ReadFails
            BY <1>10, <1>19, <2>1 DEF EventRead
      <2>2. CASE \E read \in Query(Stale) : Holding("event", read, call.tries)
            <3>1. PICK read \in Query(Stale) : Holding("event", read, call.tries)
                  BY <2>2
            <3>2. Asked(read, Stale) /\ (Stale # cache \/ cache.stale)
                  BY <1>s, Marked, QueriesAsk
            <3> QED BY <3>1, <3>2, ReadOn DEF Paused
      <2> QED BY <1>19, <2>1, <2>2 DEF EventRead
<1>20. CASE PolicyRead
      <2>1. CASE ReadFails
            BY <1>10, <1>20, <2>1 DEF PolicyRead
      <2>2. CASE Answer("timeout") /\ UNCHANGED <<cache, fresh>>
            BY <1>20, <1>f, <2>2, Onward DEF PolicyRead
      <2>3. ASSUME NEW read \in Query(Stale),
                   \/ Takes(read) /\ Answer("arrived")
                   \/ Holding("turn", read, call.tries + 1)
                   \/ Holding("combat_basic_policy", read, call.tries + 1)
            PROVE  CacheInv'
            <3>1. Asked(read, Stale) /\ read.fresh.hand
                  BY <1>s, QueriesAsk DEF Asked, Real, Unmapped, Degraded
            <3>2. Stale # cache \/ cache.stale
                  BY <1>s, Marked
            <3>3. CASE Takes(read) /\ Answer("arrived")
                  BY <3>1, <3>2, <3>3, ReadEnds
            <3>4. CASE ~(Takes(read) /\ Answer("arrived"))
                  BY <2>3, <3>1, <3>2, <3>4, ReadOn DEF Paused
            <3> QED BY <3>3, <3>4
      <2> QED BY <1>20, <2>1, <2>2, <2>3 DEF PolicyRead
<1>21. CASE PostRead
      <2>1. PICK read \in get_state(cache) : Holding("seen", read, 0)
            BY <1>21 DEF PostRead
      <2>2. Asked(read, cache) \/ (~cache.stale /\ IsRead(read) /\ Held(read, cache))
            BY <1>s, StatesGet
      <2>3. stage = "answered" /\ (~cache.stale => fresh.cached)
            BY <1>21, <1>f DEF PostRead
      <2>4. /\ DOMAIN cache' = Fields /\ DOMAIN fresh' = {"hand", "cached"}
            /\ cache' = read.cache /\ fresh' = read.fresh /\ stage' = "seen"
            BY <2>1, <2>2 DEF Takes, Asked, IsRead
      <2>5. CacheShape'
            BY <2>1, <2>4, <1>s DEF CacheShape
      <2>6. MarkInv' /\ fresh'.hand
            BY <2>2, <2>3, <2>4 DEF CacheInv, MarkInv, Asked, Real, Unmapped, Degraded, Held
      <2> QED BY <2>4, <2>5, <2>6
              DEF CacheInv, OfferInv, ReadsAreFresh, ConvergeInv, Converging, Stepping
<1>22. CASE NextEntry
      BY <1>22 DEF NextEntry, CacheInv, CacheShape, MarkInv, OfferInv, ConvergeInv, Converging, Stepping,
                   ReadsAreFresh
<1>23. CASE GameGoesOn \/ UNCHANGED caVars
      BY <1>23 DEF GameGoesOn, caVars, CacheInv, CacheShape, MarkInv, OfferInv, ConvergeInv, Converging,
                   Stepping, ReadsAreFresh
<1> QED BY <1>1, <1>2, <1>3, <1>4, <1>5, <1>6, <1>7, <1>8, <1>9, <1>11, <1>12, <1>13, <1>14, <1>15,
           <1>16, <1>17, <1>18, <1>19, <1>20, <1>21, <1>22, <1>23 DEF CaNext

(* Whatever a compound action sent, and however it and the reads between   *)
(* failed: the page taken for its result was read after the last command,  *)
(* and so was one that it says has arrived, the cached one unless it is    *)
(* marked, and the one on which an action offered for a real page is       *)
(* called needless (mark_state_stale, _get_state_sync, _act_sync), for any *)
(* number of actions and any patience of the loops.                        *)
THEOREM CliReadsAreFresh == CaSpec => []ReadsAreFresh
<1>1. CacheInv => ReadsAreFresh
      BY DEF CacheInv
<1> QED BY <1>1, CacheInit, CacheStep, PTL DEF CaSpec

-----------------------------------------------------------------------------
(* Behind a passed acceptance run.  A run that launches by itself and has  *)
(* copied the output of its own build has every file of it in the mods     *)
(* directory from then on; a game that runs after the launch and is not    *)
(* reused has been started since, and so has loaded them.                  *)
Own == ~flags.deploy /\ ~flags.launch /\ ~flags.smoke /\ found.deployed = found.built
HasBuild(files) == \A f \in Files(found.built) : files[f] = found.built
Started == {"launching", "health", "run", "open", "select", "embark", "advance", "cards",
            "abandon", "scan"}
Fought == {"cards", "abandon", "scan"}
PassedRun == verdict = "PASSED" /\ pc = "report" /\ ~flags.smoke

AgentTypes ==
    /\ DOMAIN mod = {"source", "release", "mods"} /\ mod.source \in Nat \ {0}
    /\ DOMAIN game = {"on", "asked", "loaded", "screen", "hero"}
    /\ DOMAIN found = {"built", "deployed", "tested", "hero", "reused", "failed"}

TestInv ==
    /\ pc \in {"validate", "build", "localization", "deploy"} => found.deployed = 0
    /\ pc \in {"localization", "deploy"} => found.built # 0
    /\ pc \in Started \union {"launch"} /\ ~flags.smoke => found.built # 0
    /\ flags.deploy /\ (pc \in Started \union {"launch"} \/ PassedRun) /\ ~flags.smoke
          => found.deployed = 0 /\ found.built # 0
    /\ Own /\ pc \in Started \union {"launch"} => HasBuild(mod.mods)
    /\ Own /\ pc \in Started /\ ~found.reused /\ game.on => game.loaded = mod.mods
    /\ Own /\ ~found.reused /\ (pc \in Fought \/ PassedRun) => HasBuild(found.tested)
    /\ flags.character /\ (pc \in Fought \/ PassedRun) => found.hero = "target"
    /\ pc \in {"abandon", "scan"} \/ PassedRun => ~found.failed

LEMMA TestInit == TaInit => AgentTypes /\ TestInv
BY DEF TaInit, Plain, AgentTypes, TestInv, Own, Off, NoFind, Started, Fought, PassedRun

LEMMA TypesStep == AgentTypes /\ [TaNext]_taVars => AgentTypes'
<1> SUFFICES ASSUME AgentTypes, [TaNext]_taVars PROVE AgentTypes'
    OBVIOUS
<1> USE DEF AgentTypes, Outside, World, Off, NoFind
<1>1. CASE Start
      BY <1>1 DEF Start
<1>2. CASE Validate \/ Localization \/ Launched \/ Health \/ ReadRun \/ CardsDone \/ FinalScan
      BY <1>2 DEF Validate, Localization, Launched, Health, ReadRun, CardsDone, FinalScan
<1>3. CASE Build
      BY <1>3 DEF Build, Built, BuildFails
<1>4. CASE Deploy
      BY <1>4 DEF Deploy, NoModsPath, Copied, CopiedPartly
<1>5. CASE LaunchGame \/ DesktopOpen
      BY <1>5 DEF LaunchGame, DesktopOpen
<1>6. CASE OpenCharacterSelect \/ Embark \/ Advance
      BY <1>6 DEF OpenCharacterSelect, Embark, Advance, Shows
<1>7. CASE SelectTargetCharacter
      BY <1>7 DEF SelectTargetCharacter
<1>8. CASE ReachesCombat
      BY <1>8 DEF ReachesCombat
<1>9. CASE VerifyCard
      BY <1>9 DEF VerifyCard, Shows
<1>10. CASE NoHand \/ AgentRaises
      BY <1>10 DEF NoHand, AgentRaises, Refused
<1>11. CASE AbandonRun
      BY <1>11 DEF AbandonRun
<1>12. CASE WriteReport
      BY <1>12 DEF WriteReport
<1>13. CASE EditSources
      BY <1>13 DEF EditSources
<1>14. CASE GameStarts \/ GameExits
      BY <1>14 DEF GameStarts, GameExits
<1>15. CASE UNCHANGED taVars
      BY <1>15 DEF taVars
<1> QED BY <1>1, <1>2, <1>3, <1>4, <1>5, <1>6, <1>7, <1>8, <1>9, <1>10, <1>11, <1>12, <1>13,
           <1>14, <1>15 DEF TaNext

LEMMA TestStep == AgentTypes /\ TestInv /\ [TaNext]_taVars => TestInv'
<1> SUFFICES ASSUME AgentTypes, TestInv, [TaNext]_taVars PROVE TestInv'
    OBVIOUS
<1> USE DEF AgentTypes, TestInv, Own, HasBuild, Started, Fought, PassedRun, Outside, World, To
<1>1. CASE Start
      BY <1>1 DEF Start, NoFind
<1>2. CASE Validate \/ Localization \/ Launched \/ Health
      BY <1>2 DEF Validate, Localization, Launched, Health, Ends, Failed
<1>3. CASE Build
      BY <1>3 DEF Build, Built, BuildFails, Ends, Failed
<1>4. CASE Deploy
      <2>1. CASE flags.deploy
            BY <1>4, <2>1 DEF Deploy
      <2>2. CASE ~flags.deploy /\ (NoModsPath \/ Ends("FAILED") \/ (CopiedPartly /\ Ends("BLOCKED")))
            BY <1>4, <2>2 DEF Deploy, NoModsPath, CopiedPartly, Ends
      <2>3. CASE ~flags.deploy /\ Copied /\ pc' = "launch"
            <3>1. /\ UNCHANGED <<flags, game, verdict>> /\ found'.built = found.built
                  /\ found'.reused = found.reused
                  BY <1>4, <2>3 DEF Deploy, Copied, NoModsPath, CopiedPartly, Ends
            <3>2. CASE BuildOutput = Torn
                  BY <1>4, <2>3, <3>1, <3>2 DEF Deploy, Copied
            <3>3. CASE BuildOutput # Torn
                  <4>1. found'.deployed = BuildOutput /\ mod'.mods = After(Files(BuildOutput), {}, BuildOutput)
                        BY <2>3, <3>3 DEF Copied
                  <4>2. found'.deployed = found'.built => HasBuild(mod.mods)'
                        BY <3>1, <4>1 DEF After, HasBuild, Files, Parts
                  <4>3. found'.failed = found.failed /\ pc' = "launch" /\ found'.built # 0 /\ ~flags'.deploy
                        BY <1>4, <2>3, <3>3 DEF Deploy, Copied
                  <4> QED BY <3>1, <4>2, <4>3
            <3> QED BY <3>2, <3>3
      <2> QED BY <1>4, <2>1, <2>2, <2>3 DEF Deploy
<1>5. CASE LaunchGame \/ DesktopOpen
      BY <1>5 DEF LaunchGame, DesktopOpen, Ends
<1>6. CASE OpenCharacterSelect \/ Embark \/ Advance
      BY <1>6 DEF OpenCharacterSelect, Embark, Advance, Shows, Again, Ends, Failed
<1>7. CASE SelectTargetCharacter \/ ReadRun
      BY <1>7 DEF SelectTargetCharacter, ReadRun
<1>8. CASE ReachesCombat
      <2>1. UNCHANGED <<flags, mod, game>> /\ pc = "advance" /\ game.on
            BY <1>8 DEF ReachesCombat
      <2>2. CASE Failed /\ UNCHANGED found
            BY <2>1, <2>2 DEF Ends, Failed
      <2>3. CASE /\ flags.character => game.hero = "target"
                 /\ pc' = "cards" /\ UNCHANGED verdict
                 /\ found' = [found EXCEPT !.tested = game.loaded, !.hero = game.hero]
            <3>1. /\ found'.tested = game.loaded /\ found'.hero = game.hero
                  /\ \A f \in {"built", "deployed", "reused", "failed"} : found'[f] = found[f]
                  BY <2>3
            <3>2. Own' => Own
                  BY <2>1, <3>1
            <3>3. Own /\ ~found.reused => HasBuild(mod.mods) /\ HasBuild(found'.tested)
                  BY <2>1, <3>1
            <3>4. (Own /\ ~found.reused => HasBuild(found.tested))'
                  BY <3>1, <3>2, <3>3
            <3> QED BY <2>1, <2>3, <3>1, <3>2, <3>3, <3>4
      <2> QED BY <1>8, <2>2, <2>3 DEF ReachesCombat
<1>9. CASE VerifyCard
      BY <1>9 DEF VerifyCard, Shows, Again
<1>10. CASE NoHand \/ AgentRaises \/ CardsDone \/ FinalScan
      BY <1>10 DEF NoHand, AgentRaises, Refused, CardsDone, FinalScan, Ends, Failed
<1>11. CASE AbandonRun
      BY <1>11 DEF AbandonRun
<1>12. CASE WriteReport
      BY <1>12 DEF WriteReport
<1>13. CASE EditSources
      <2>1. UNCHANGED <<flags, game, pc, found, verdict>>
            BY <1>13 DEF EditSources
      <2>2. mod'.mods = mod.mods
            BY <1>13 DEF EditSources
      <2> QED BY <2>1, <2>2
<1>14. CASE GameStarts \/ GameExits
      <2>1. UNCHANGED <<flags, mod, pc, found, verdict>>
            BY <1>14 DEF GameStarts, GameExits
      <2>2. CASE GameStarts
            <3>1. game' = [Off EXCEPT !.on = TRUE, !.loaded = mod.mods, !.screen = "MAIN_MENU"]
                  BY <2>2 DEF GameStarts
            <3>2. game'.loaded = mod.mods
                  BY ONLY <3>1 DEF Off
            <3> QED BY <2>1, <3>2
      <2>3. CASE GameExits
            BY <2>1, <2>3 DEF GameExits, Off
      <2> QED BY <1>14, <2>2, <2>3
<1>15. CASE UNCHANGED taVars
      BY <1>15 DEF taVars
<1> QED BY <1>1, <1>2, <1>3, <1>4, <1>5, <1>6, <1>7, <1>8, <1>9, <1>10, <1>11, <1>12, <1>13,
           <1>14, <1>15 DEF TaNext

(* A passed acceptance run fought as the configured character and saw no   *)
(* card fail; the game it started had loaded every file of its build when  *)
(* the output copied was that of this build, after any sequence of earlier *)
(* runs, failed builds and copies, edits and starts of the game (run).     *)
(* A reused game, a Release output of an earlier build and files that stay *)
(* from earlier versions are not excluded by the code, nor by this.        *)
THEOREM PassedRunsTestedTheBuild == TaSpec => []PassedMeansTested
<1>1. TestInv => PassedMeansTested
      BY DEF TestInv, PassedMeansTested, PassedRun, Own, HasBuild
<1>2. TaSpec => [](AgentTypes /\ TestInv)
      <2>1. AgentTypes /\ TestInv /\ [TaNext]_taVars => (AgentTypes /\ TestInv)'
            BY TypesStep, TestStep
      <2> QED BY TestInit, <2>1, PTL DEF TaSpec
<1> QED BY <1>1, <1>2, PTL

-----------------------------------------------------------------------------
(* Behind an honest case: the last settled page is the last one read, so   *)
(* that a repeat is one of neighbouring reads; the trace has no more steps *)
(* than the test has actions; the handlers wait for the trace; the hook is *)
(* recorded only on the way to an action or out of a failure.              *)
CaseTypes ==
    /\ frame.screen # "none"
    /\ DOMAIN case = {"number", "at", "setup", "tested", "final", "start", "page", "moves"}
    /\ DOMAIN trace = {"entries", "before", "hook"} /\ DOMAIN look = DOMAIN NoLook
    /\ DOMAIN disk = {"log", "steps"} /\ DOMAIN outcome = {"verdict", "told", "handlers"}
    /\ case.setup \in Nat /\ case.tested \in Nat /\ trace.entries \in Nat
    /\ trace.entries + case.setup + case.tested <= 2

LookInv ==
    /\ case.at \notin {"poll", "judge"} => look = NoLook
    /\ At("poll") => ~look.late /\ (look.last # Nothing => look.last = look.read)
    /\ JudgesASettledPage

Told ==
    /\ disk.log.test = case.number /\ disk.log.steps = trace.entries
    /\ disk.log.says = "failed" <=> outcome.verdict = "fail" /\ outcome.told
    /\ \A i \in 1 .. trace.entries : disk.steps[i] = case.number

TraceInv ==
    /\ case.at \notin {"returned", "raised"} => outcome.handlers = 0
    /\ case.at \in {"log in try", "log in except", "handlers"} => outcome.verdict = "fail"
    /\ outcome.told \in BOOLEAN
    /\ case.at \in {"start", "offers", "run", "settle", "poll", "judge"} => outcome.told = FALSE
    /\ case.at \in {"log", "log in try", "log in except"} /\ outcome.told => outcome.verdict = "fail"
    /\ At("handlers") => Told
    /\ TraceTellsTheVerdict
    /\ case.at \in {"idle", "log"} => trace.hook = "previous"
    /\ HookGivenBack

LEMMA CaseInit == FcInit => CaseTypes /\ LookInv /\ TraceInv
BY DEF FcInit, CaseTypes, LookInv, TraceInv, Told, JudgesASettledPage, TraceTellsTheVerdict,
       HookGivenBack, At, NoLook, NoLog

(* What most steps leave alone.                                            *)
Kept ==
    /\ case'.setup = case.setup /\ case'.tested = case.tested /\ DOMAIN case' = DOMAIN case
    /\ trace'.entries = trace.entries /\ DOMAIN trace' = DOMAIN trace
    /\ DOMAIN look' = DOMAIN look /\ DOMAIN disk' = DOMAIN disk
    /\ DOMAIN outcome' = DOMAIN outcome

LEMMA KeptTypes == ASSUME CaseTypes, Kept, frame'.screen # "none" PROVE CaseTypes'
BY DEF CaseTypes, Kept

LEMMA SeesKeeps ==
    ASSUME CaseTypes, NEW page
    PROVE  /\ DOMAIN Sees(page) = DOMAIN look
           /\ Sees(page).same = (page = look.read) /\ Sees(page).read = page
           /\ Sees(page).repeat = look.repeat /\ Sees(page).late = look.late
BY DEF CaseTypes, Sees, NoLook

LEMMA FewSteps ==
    ASSUME CaseTypes PROVE \A i \in 1 .. trace.entries : i \in 1 .. 2
<1>1. trace.entries \in Nat /\ trace.entries <= 2
      BY DEF CaseTypes
<1> QED BY <1>1

LEMMA CaseTypesStep == CaseTypes /\ [FcNext]_fcVars => CaseTypes'
<1> SUFFICES ASSUME CaseTypes, [FcNext]_fcVars PROVE CaseTypes'
    OBVIOUS
<1> USE DEF Goto, Logs, TestFails
<1>1. CASE Define
      <2>1. PICK setup \in 0 .. 1, tested \in 0 .. 1 :
               case'.setup = setup /\ case'.tested = tested
            BY <1>1 DEF Define
      <2>2. /\ trace'.entries = 0 /\ DOMAIN trace' = DOMAIN trace
            /\ DOMAIN case' = DOMAIN case /\ DOMAIN outcome' = DOMAIN outcome
            BY <1>1 DEF Define, CaseTypes
      <2> QED BY <1>1, <2>1, <2>2 DEF Define, CaseTypes
<1>2. CASE StartPage \/ StartOffers
      <2>1. CASE Breaks
            <3>1. /\ case'.setup = 0 /\ case'.tested = 0 /\ DOMAIN case' = DOMAIN case
                  /\ DOMAIN outcome' = DOMAIN outcome
                  BY <2>1 DEF Breaks, CaseTypes
            <3>2. /\ DOMAIN trace' = DOMAIN trace /\ trace'.entries = trace.entries
                  /\ UNCHANGED <<frame, look, disk>>
                  BY <1>2 DEF StartPage, StartOffers, CaseTypes
            <3> QED BY <3>1, <3>2 DEF CaseTypes
      <2>2. CASE /\ \/ case' = [case EXCEPT !.at = "log in try", !.start = AnyStart, !.page = "none"]
                    \/ case' = [case EXCEPT !.at = "run", !.start = AnyStart, !.page = "none"]
                    \/ case' = [case EXCEPT !.at = "offers", !.page = frame.screen]
                 /\ outcome' = [outcome EXCEPT !.verdict = "fail", !.told = TRUE] \/ UNCHANGED outcome
            <3>1. trace' = [trace EXCEPT !.hook = "record"] \/ UNCHANGED trace
                  BY <1>2 DEF StartPage, StartOffers
            <3>2. UNCHANGED <<frame, look, disk>>
                  BY <1>2 DEF StartPage, StartOffers
            <3>3. /\ case'.setup = case.setup /\ case'.tested = case.tested
                  /\ DOMAIN case' = DOMAIN case
                  BY <2>2 DEF CaseTypes
            <3>4. Kept
                  BY <2>2, <3>1, <3>2, <3>3 DEF Kept, CaseTypes
            <3> QED BY <3>2, <3>4, KeptTypes DEF CaseTypes
      <2> QED BY <1>2, <2>1, <2>2 DEF StartPage, StartOffers
<1>3. CASE Act
      <2>1. case.setup + case.tested > 0 /\ UNCHANGED <<look, disk>>
            BY <1>3 DEF Act
      <2>2. frame'.screen # "none"
            BY <1>3 DEF Act, Pages, Unknown
      <2>3. /\ trace'.entries \in {trace.entries, trace.entries + 1}
            /\ DOMAIN trace' = DOMAIN trace
            <3>1. PICK recorded \in 0 .. 1 :
                     trace' = [trace EXCEPT !.entries = @ + recorded,
                                            !.before = IF case.setup = 0 THEN HandOf(frame) ELSE @]
                  BY <1>3 DEF Act
            <3> QED BY <3>1 DEF CaseTypes
      <2>4. CASE Breaks
            <3>1. /\ case'.setup = 0 /\ case'.tested = 0 /\ DOMAIN case' = DOMAIN case
                  /\ DOMAIN outcome' = DOMAIN outcome
                  BY <2>4 DEF Breaks, CaseTypes
            <3> QED BY <2>1, <2>2, <2>3, <3>1 DEF CaseTypes
      <2>5. CASE /\ case' = IF case.setup > 0 THEN [case EXCEPT !.setup = @ - 1]
                            ELSE [case EXCEPT !.tested = @ - 1]
                 /\ UNCHANGED outcome
            <3>3. DOMAIN case' = DOMAIN case
                  BY <2>5 DEF CaseTypes
            <3>4. \/ case.setup > 0 /\ case'.setup = case.setup - 1 /\ case'.tested = case.tested
                  \/ case.setup = 0 /\ case'.setup = 0 /\ case'.tested = case.tested - 1
                  BY <2>5 DEF CaseTypes
            <3> QED BY <2>1, <2>2, <2>3, <2>5, <3>3, <3>4 DEF CaseTypes
      <2> QED BY <1>3, <2>4, <2>5 DEF Act
<1>4. CASE Acted
      <2>1. Kept /\ UNCHANGED frame
            BY <1>4 DEF Acted, Kept, CaseTypes
      <2> QED BY <2>1, KeptTypes DEF CaseTypes
<1>5. CASE FirstLook \/ Poll \/ Deadline
      <2>1. /\ \E at : case' = [case EXCEPT !.at = at]
            /\ UNCHANGED <<frame, trace, disk, outcome>>
            BY <1>5 DEF FirstLook, Poll, Deadline
      <2>2. DOMAIN look' = DOMAIN look
            BY <1>5, SeesKeeps DEF FirstLook, Poll, Deadline
      <2>3. Kept
            BY <2>1, <2>2 DEF Kept, CaseTypes
      <2> QED BY <2>1, <2>3, KeptTypes DEF CaseTypes
<1>6. CASE Judge \/ Interrupted
      <2>1. /\ \E at : case' = [case EXCEPT !.at = at]
            /\ \/ \E v : outcome' = [outcome EXCEPT !.verdict = v]
               \/ \E told \in BOOLEAN : outcome' = [outcome EXCEPT !.verdict = "fail", !.told = told]
            /\ look' = NoLook /\ UNCHANGED <<frame, disk>>
            BY <1>6 DEF Judge, Interrupted
      <2>2. \/ trace' = [trace EXCEPT !.before = Nothing]
            \/ trace' = [trace EXCEPT !.hook = "previous", !.before = Nothing]
            BY <1>6 DEF Judge, Interrupted
      <2>3. Kept
            BY <2>1, <2>2 DEF Kept, CaseTypes
      <2> QED BY <2>1, <2>3, KeptTypes DEF CaseTypes
<1>7. CASE WriteTrace \/ WriteFails
      <2>1. /\ \E at : case' = [case EXCEPT !.at = at]
            /\ \/ UNCHANGED outcome \/ outcome' = [outcome EXCEPT !.verdict = "raised"]
               \/ \E told \in BOOLEAN : outcome' = [outcome EXCEPT !.verdict = "fail", !.told = told]
            /\ UNCHANGED trace \/ trace' = [trace EXCEPT !.hook = "previous"]
            /\ UNCHANGED <<frame, look>>
            BY <1>7 DEF WriteTrace, WriteFails
      <2>2. DOMAIN disk' = DOMAIN disk
            BY <1>7 DEF WriteTrace, WriteFails, Written, CaseTypes
      <2>3. Kept
            BY <2>1, <2>2 DEF Kept, CaseTypes
      <2> QED BY <2>1, <2>3, KeptTypes DEF CaseTypes
<1>8. CASE RunHandlers
      <2>1. Kept /\ UNCHANGED frame
            BY <1>8 DEF RunHandlers, Kept, CaseTypes
      <2> QED BY <2>1, KeptTypes DEF CaseTypes
<1>9. CASE GameMoves
      <2>1. Kept /\ frame' \in Pages
            BY <1>9 DEF GameMoves, Kept, CaseTypes
      <2>2. \A page \in Pages : page.screen # "none"
            BY DEF Pages, Unknown
      <2> QED BY <2>1, <2>2, KeptTypes
<1>10. CASE UNCHANGED fcVars
      BY <1>10 DEF fcVars, CaseTypes
<1> QED BY <1>1, <1>2, <1>3, <1>4, <1>5, <1>6, <1>7, <1>8, <1>9, <1>10 DEF FcNext

(* What a step does that neither looks at the page nor judges it.          *)
LEMMA LookKept ==
    ASSUME CaseTypes, LookInv, case.at \notin {"poll", "judge"}, UNCHANGED look,
           case'.at \notin {"poll", "judge"}
    PROVE  LookInv'
BY DEF LookInv, JudgesASettledPage, At

LEMMA LookStep == CaseTypes /\ LookInv /\ [FcNext]_fcVars => LookInv'
<1> SUFFICES ASSUME CaseTypes, LookInv, [FcNext]_fcVars PROVE LookInv'
    OBVIOUS
<1> USE DEF CaseTypes, Goto, Logs, TestFails, At
<1>1. CASE Define
      BY <1>1, LookKept DEF Define
<1>2. CASE StartPage \/ StartOffers
      BY <1>2, LookKept DEF StartPage, StartOffers, Breaks
<1>3. CASE Act
      BY <1>3, LookKept DEF Act, Breaks
<1>4. CASE Acted
      BY <1>4, LookKept DEF Acted
<1>5. CASE FirstLook
      <2>1. look = NoLook /\ UNCHANGED trace /\ case'.final = case.final
            BY <1>5 DEF FirstLook, LookInv
      <2>2. PICK page \in ReadFrame, timeout \in BOOLEAN :
               IF ~timeout \/ (~NeedsSettle(page) /\ ~(Stable /\ page.screen # "UNKNOWN"))
               THEN Goto("judge") /\ look' = [Sees(page) EXCEPT !.late = ~timeout]
               ELSE /\ Goto("poll")
                    /\ look' = [Sees(page) EXCEPT !.repeat = page.screen # "UNKNOWN",
                           !.last = IF Stable /\ page.screen # "UNKNOWN" /\ ~NeedsSettle(page)
                                    THEN page ELSE Nothing]
            BY <1>5 DEF FirstLook
      <2> DEFINE seen == Sees(page)
      <2>7. /\ DOMAIN seen = {"polls", "repeat", "read", "same", "last", "late"}
            /\ seen.read = page /\ seen.repeat = FALSE /\ seen.late = FALSE
            BY <2>1, SeesKeeps DEF NoLook
      <2> HIDE DEF seen
      <2>3. CASE case'.at = "judge"
            <3>1. /\ look'.read = page /\ look'.repeat = FALSE /\ look'.late = ~timeout
                  /\ timeout => ~NeedsSettle(page)
                  <4>1. look' = [seen EXCEPT !.late = ~timeout]
                        /\ (timeout => ~NeedsSettle(page))
                        BY <2>2, <2>3 DEF seen
                  <4> QED BY ONLY <2>7, <4>1
            <3>2. NeedsSettle(page)' = NeedsSettle(page)
                  BY <2>1 DEF NeedsSettle
            <3>3. JudgesASettledPage'
                  BY <3>1, <3>2 DEF JudgesASettledPage, NeedsSettle
            <3> QED BY <2>3, <3>3 DEF LookInv
      <2>4. CASE case'.at = "poll"
            <3>1. /\ look'.read = page /\ look'.late = FALSE
                  /\ look'.last \in {page, Nothing}
                  <4>1. look' = [seen EXCEPT !.repeat = page.screen # "UNKNOWN",
                                  !.last = IF Stable /\ page.screen # "UNKNOWN" /\ ~NeedsSettle(page)
                                           THEN page ELSE Nothing]
                        BY <2>2, <2>4 DEF seen
                  <4> QED BY ONLY <2>7, <4>1
            <3> QED BY <2>4, <3>1 DEF LookInv, JudgesASettledPage
      <2> QED BY <2>2, <2>3, <2>4
<1>6. CASE Poll
      <2>1. UNCHANGED trace /\ case'.final = case.final /\ At("poll")
            BY <1>6 DEF Poll
      <2>2. PICK page \in ReadFrame :
               /\ look' = [Sees(page) EXCEPT !.polls = @ + 1,
                              !.last = IF NeedsSettle(page) THEN Nothing ELSE page]
               /\ Goto(IF ~NeedsSettle(page) /\ (look.repeat => page = look.last)
                       THEN "judge" ELSE "poll")
            BY <1>6 DEF Poll
      <2>3. /\ look'.same = (page = look.read) /\ look'.read = page
            /\ look'.repeat = look.repeat /\ look'.late = look.late
            /\ look'.last \in {page, Nothing}
            BY <2>2, SeesKeeps DEF NoLook
      <2>4. page # Nothing
            BY DEF ReadFrame, Nothing, Unknown
      <2>5. case'.at = "judge" => JudgesASettledPage'
            <3>1. CASE ~NeedsSettle(page) /\ (look.repeat => page = look.last)
                  <4>1. look.repeat => look'.same
                        BY <2>1, <2>3, <2>4, <3>1 DEF LookInv
                  <4>2. NeedsSettle(page)' = NeedsSettle(page)
                        BY <2>1 DEF NeedsSettle
                  <4> QED BY <2>3, <3>1, <4>1, <4>2 DEF JudgesASettledPage, NeedsSettle
            <3>2. CASE ~(~NeedsSettle(page) /\ (look.repeat => page = look.last))
                  BY <2>2, <3>2
            <3> QED BY <3>1, <3>2
      <2>6. case'.at \in {"judge", "poll"}
            BY <2>2
      <2> QED BY <2>1, <2>3, <2>5, <2>6 DEF LookInv, JudgesASettledPage
<1>7. CASE Deadline
      BY <1>7 DEF Deadline, LookInv, JudgesASettledPage, NoLook
<1>8. CASE Judge \/ Interrupted
      BY <1>8 DEF Judge, Interrupted, LookInv, JudgesASettledPage
<1>9. CASE WriteTrace \/ WriteFails
      BY <1>9, LookKept DEF WriteTrace, WriteFails, Logging
<1>10. CASE RunHandlers
      BY <1>10, LookKept DEF RunHandlers
<1>11. CASE GameMoves
      <2>1. UNCHANGED <<trace, look>> /\ case'.at = case.at /\ At("judge") = FALSE
            BY <1>11 DEF GameMoves
      <2> QED BY <2>1 DEF LookInv, JudgesASettledPage
<1>12. CASE UNCHANGED fcVars
      BY <1>12 DEF fcVars, LookInv, JudgesASettledPage, NeedsSettle
<1> QED BY <1>1, <1>2, <1>3, <1>4, <1>5, <1>6, <1>7, <1>8, <1>9, <1>10, <1>11, <1>12 DEF FcNext

LEMMA TraceStep == CaseTypes /\ TraceInv /\ [FcNext]_fcVars => TraceInv'
<1> SUFFICES ASSUME CaseTypes, TraceInv, [FcNext]_fcVars PROVE TraceInv'
    OBVIOUS
<1> USE DEF CaseTypes, Goto, Logs, TestFails, At, TraceInv, TraceTellsTheVerdict, HookGivenBack
<1>1. CASE Define
      <2>1. PICK setup \in 0 .. 1, tested \in 0 .. 1, start \in Requirements :
               /\ case'.at = IF setup + tested = 0 THEN "log"
                             ELSE IF start = AnyStart THEN "run" ELSE "start"
               /\ outcome'.handlers = 0 /\ outcome'.told = FALSE
               /\ trace'.hook = IF setup + tested > 0 /\ start = AnyStart THEN "record"
                                ELSE "previous"
            BY ONLY <1>1 DEF Define
      <2>2. ~(setup + tested = 0 /\ setup + tested > 0)
            BY ONLY setup \in 0 .. 1, tested \in 0 .. 1
      <2>3. case'.at = "log" => trace'.hook = "previous"
            BY ONLY <2>1, <2>2
      <2> QED BY <2>1, <2>3
<1>2. CASE StartPage \/ StartOffers
      <2>1. case.at \in {"start", "offers"}
            BY <1>2 DEF StartPage, StartOffers
      <2>2. CASE Breaks
            <3>1. /\ case'.at = "log in except" /\ outcome'.verdict = "fail"
                  /\ outcome'.told \in BOOLEAN /\ outcome'.handlers = outcome.handlers
                  BY <2>2 DEF Breaks
            <3> QED BY <2>1, <3>1
      <2>3. CASE ~Breaks
            <3>1. \/ case'.at = "offers" /\ UNCHANGED outcome
                  \/ case'.at = "run" /\ UNCHANGED outcome
                  \/ /\ case'.at = "log in try"
                     /\ outcome'.verdict = "fail" /\ outcome'.told = TRUE
                     /\ outcome'.handlers = outcome.handlers
                  BY <1>2, <2>3 DEF StartPage, StartOffers
            <3> QED BY <2>1, <3>1
      <2> QED BY <2>2, <2>3
<1>3. CASE Act
      BY <1>3 DEF Act, Breaks
<1>4. CASE Acted
      BY <1>4 DEF Acted
<1>5. CASE FirstLook \/ Poll \/ Deadline
      BY <1>5 DEF FirstLook, Poll, Deadline
<1>6. CASE Judge \/ Interrupted
      <2>1. /\ \/ case'.at = "raised"
               \/ case'.at = "log" /\ (outcome'.told => outcome'.verdict = "fail")
            /\ outcome'.told \in BOOLEAN /\ outcome'.handlers = outcome.handlers
            <3>1. CASE Interrupted
                  BY <3>1 DEF Interrupted
            <3>2. CASE At("judge") /\ Goto("log") /\ Logs("pass")
                  BY <3>2
            <3>3. CASE At("judge") /\ Goto("log") /\ TestFails
                  BY <3>3
            <3>4. CASE Goto("raised") /\ Logs("raised")
                  BY <3>4
            <3> QED BY <1>6, <3>1, <3>2, <3>3, <3>4 DEF Judge
      <2>2. case.at \notin {"returned", "raised"}
            BY <1>6 DEF Judge, Interrupted
      <2>3. trace'.hook = "previous"
            BY <1>6 DEF Judge, Interrupted
      <2> QED BY <2>1, <2>2, <2>3
<1>7. CASE WriteTrace
      <2>1. /\ disk'.log = [test |-> case.number, says |-> Says, steps |-> trace.entries]
            /\ disk'.steps = [i \in 1 .. 2 |-> IF i <= trace.entries THEN case.number
                                               ELSE disk.steps[i]]
            BY <1>7 DEF WriteTrace, Written
      <2>2. UNCHANGED <<trace, outcome>> /\ case'.number = case.number
            BY <1>7 DEF WriteTrace
      <2>3. Told'
            <3>1. \A i \in 1 .. trace.entries : i \in 1 .. 2
                  BY FewSteps
            <3>2. \A i \in 1 .. trace'.entries : disk'.steps[i] = case'.number
                  <4> TAKE i \in 1 .. trace'.entries
                  <4>1. i \in 1 .. trace.entries /\ i \in 1 .. 2
                        BY <2>2, <3>1
                  <4>2. trace.entries \in Nat
                        OBVIOUS
                  <4>3. disk'.steps[i] = case.number
                        BY ONLY <2>1, <4>1, <4>2
                  <4> QED BY <2>2, <4>3
            <3>3. disk'.log.says = "failed" <=> outcome.told = TRUE
                  <4>1. disk'.log.says = Says
                        BY ONLY <2>1
                  <4>2. Says = "failed" <=> outcome.told = TRUE
                        BY DEF Says
                  <4> QED BY ONLY <4>1, <4>2
            <3>4. outcome.told => outcome.verdict = "fail"
                  BY <1>7 DEF WriteTrace, Logging
            <3>5. outcome'.told = outcome.told /\ outcome'.verdict = outcome.verdict
                  BY <2>2
            <3>6. disk'.log.test = case.number /\ disk'.log.steps = trace.entries
                  BY ONLY <2>1
            <3> QED BY <2>2, <3>5, <3>6, <3>2, <3>3, <3>4 DEF Told
      <2>4. case'.at = IF outcome.verdict = "fail" THEN "handlers" ELSE "returned"
            BY <1>7 DEF WriteTrace
      <2>5. Logging
            BY <1>7 DEF WriteTrace
      <2> QED BY <2>2, <2>3, <2>4, <2>5 DEF Told, Logging
<1>8. CASE WriteFails
      <2>1. CASE At("log in try")
            <3>1. /\ case'.at = "log in except" /\ outcome'.verdict = "fail"
                  /\ outcome'.told \in BOOLEAN /\ outcome'.handlers = outcome.handlers
                  BY <1>8, <2>1 DEF WriteFails
            <3> QED BY <2>1, <3>1
      <2>2. CASE ~At("log in try")
            <3>1. /\ case'.at = "raised" /\ trace'.hook = "previous"
                  /\ outcome'.told = outcome.told /\ outcome'.handlers = outcome.handlers
                  <4>1. /\ case' = [case EXCEPT !.at = "raised"]
                        /\ outcome' = [outcome EXCEPT !.verdict = "raised"]
                        /\ trace' = [trace EXCEPT !.hook = "previous"]
                        BY ONLY <1>8, <2>2 DEF WriteFails, Goto, Logs
                  <4>2. "at" \in DOMAIN case /\ "hook" \in DOMAIN trace
                        OBVIOUS
                  <4>3. DOMAIN outcome = {"verdict", "told", "handlers"}
                        OBVIOUS
                  <4> QED BY ONLY <4>1, <4>2, <4>3
            <3> QED BY <2>2, <3>1
      <2> QED BY <2>1, <2>2
<1>9. CASE RunHandlers
      BY <1>9 DEF RunHandlers, Told
<1>10. CASE GameMoves
      BY <1>10 DEF GameMoves
<1>11. CASE UNCHANGED fcVars
      BY <1>11 DEF fcVars, Told
<1> QED BY <1>1, <1>2, <1>3, <1>4, <1>5, <1>6, <1>7, <1>8, <1>9, <1>10, <1>11 DEF FcNext

(* A test judges a settled page unless its time was over, its log tells a  *)
(* failure that has a message and no other, with the steps of this test,   *)
(* and the hook is given back on every way out (assert_that), for any      *)
(* number of polls, of moves of the game and of tests in one directory.    *)
THEOREM CasesAreHonest == FcSpec => []CaseIsHonest
<1>1. LookInv /\ TraceInv => CaseIsHonest
      BY DEF LookInv, TraceInv, CaseIsHonest
<1>2. CaseTypes /\ LookInv /\ TraceInv /\ [FcNext]_fcVars => (CaseTypes /\ LookInv /\ TraceInv)'
      BY CaseTypesStep, LookStep, TraceStep
<1> QED BY <1>1, <1>2, CaseInit, PTL DEF FcSpec
=============================================================================
