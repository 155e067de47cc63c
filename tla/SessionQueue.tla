---------------------------- MODULE SessionQueue ----------------------------
(***************************************************************************)
(* core/session_queue.py: the priority queue of session requests.  A heap  *)
(* holds every entry pushed, _pending only says which session ids wait; a  *)
(* cancelled entry stays in the heap until it reaches the top.  Session    *)
(* ids are the callers' and may come again; requests are numbered.         *)
(***************************************************************************)
EXTENDS Naturals, FiniteSets

CONSTANTS
    Sessions,   \* session ids
    MaxDepth,   \* max_depth
    Requests    \* requests ever enqueued

VARIABLES
    heap,      \* entries [priority_order, created_at, session_id, request]
    pending,   \* session id -> its latest request
    paused,    \* _paused
    clock,     \* the time of created_at
    number,    \* requests so far
    served     \* the last dequeue: entry, the best that waited, request expected

sqVars == <<heap, pending, paused, clock, number, served>>

Priorities == 0 .. 2      \* _PRIORITY_ORDER: HIGH, NORMAL, LOW
Waiting == DOMAIN pending
NobodyServed == [served |-> FALSE]

SqInit ==
    /\ heap = {} /\ pending = [s \in {} |-> 0] /\ paused = FALSE /\ clock = 0
    /\ number = 0 /\ served = NobodyServed

Before(a, b) == a.priority < b.priority \/ (a.priority = b.priority /\ a.at < b.at)
Tops == {e \in heap : \A f \in heap : ~Before(f, e)}
IsFull == Cardinality(Waiting) >= MaxDepth

(* Two requests of one instant carry the same created_at.                  *)
Tick == clock' \in {clock, clock + 1}

Enqueue ==
    /\ number < Requests /\ ~IsFull /\ Tick /\ number' = number + 1
    /\ \E s \in Sessions, p \in Priorities :
          /\ heap' = heap \union {[priority |-> p, at |-> clock, session |-> s, request |-> number']}
          /\ pending' = [x \in Waiting \union {s} |-> IF x = s THEN number' ELSE pending[x]]
    /\ UNCHANGED <<paused, served>>

Without(s) == [x \in Waiting \ {s} |-> pending[x]]

(* The entry a loop of heappop stops at, and the entries popped before it; *)
(* entries that compare equal come in any order.                           *)
Live(e) == e.session \in Waiting
Reached == {e \in heap : Live(e) /\ \A f \in heap : Live(f) => ~Before(f, e)}
Skipped(e) == {q \in SUBSET {f \in heap : ~Live(f) /\ ~Before(e, f)} :
                  {f \in heap : Before(f, e)} \subseteq q}

(* Mutant: what is popped is served, whether it was cancelled or not.      *)
ServeTop ==
    /\ ~paused /\ UNCHANGED <<paused, clock, number>>
    /\ \E e \in Tops :
          /\ heap' = heap \ {e} /\ pending' = Without(e.session)
          /\ served' = [served |-> TRUE, entry |-> e, waiting |-> pending, heap |-> heap]

Dequeue ==
    /\ ~paused /\ UNCHANGED <<paused, clock, number>>
    /\ \E e \in Reached : \E skipped \in Skipped(e) :
          /\ heap' = heap \ (skipped \union {e}) /\ pending' = Without(e.session)
          /\ served' = [served |-> TRUE, entry |-> e, waiting |-> pending, heap |-> heap]

(* dequeue and peek of an empty queue drop the entries left; peek drops    *)
(* the cancelled entries on top.                                           *)
DropStale ==
    /\ UNCHANGED <<pending, paused, clock, number, served>>
    /\ \/ heap # {} /\ (\A e \in heap : ~Live(e)) /\ heap' = {}
       \/ \E e \in Reached : \E skipped \in Skipped(e) : skipped # {} /\ heap' = heap \ skipped

Cancel ==
    /\ \E s \in Waiting : pending' = Without(s)
    /\ UNCHANGED <<heap, paused, clock, number, served>>
Pause == paused' = ~paused /\ UNCHANGED <<heap, pending, clock, number, served>>
Clear ==
    /\ heap # {} /\ heap' = {} /\ pending' = [s \in {} |-> 0]
    /\ UNCHANGED <<paused, clock, number, served>>

SqNext == Enqueue \/ Dequeue \/ DropStale \/ Cancel \/ Pause \/ Clear

-----------------------------------------------------------------------------
(* A session that waits has an entry that dequeue will reach, whatever was *)
(* cancelled, enqueued again or dropped in between (enqueue, cancel, peek).*)
NobodyForgotten == \A s \in Waiting : \E e \in heap : e.session = s

(* While no session id has two entries, a dequeue serves the request that  *)
(* waits, and no request of a better priority, or of the same priority and *)
(* earlier, waits at that moment (dequeue, cancel).                        *)
Revived == \E e, f \in served.heap : e.session = f.session /\ e.request # f.request
ServedInTurn ==
    served.served /\ ~Revived =>
        /\ served.entry.session \in DOMAIN served.waiting
        /\ served.waiting[served.entry.session] = served.entry.request
        /\ \A e \in served.heap : e.session \in DOMAIN served.waiting => ~Before(e, served.entry)

QueueKeepsItsWord == NobodyForgotten /\ ServedInTurn
=============================================================================
