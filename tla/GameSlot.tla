------------------------------- MODULE GameSlot -------------------------------
(***************************************************************************)
(* What the persistent run service promises its users: all runs share one  *)
(* game session, it is given out in the order of submission, and a run     *)
(* whose worker dies keeps it until somebody has settled that run.         *)
(***************************************************************************)
CONSTANT Run

VARIABLES
    stage,  \* where each run is in its life
    ahead   \* the runs submitted before each run

slotVars == <<stage, ahead>>

Stage == {"absent", "queued", "playing", "lost", "over"}

Init ==
    /\ stage = [r \in Run |-> "absent"]
    /\ ahead = [r \in Run |-> {}]

Move(r, from, to) ==
    /\ stage[r] = from
    /\ stage' = [stage EXCEPT ![r] = to]

Submit(r) ==
    /\ Move(r, "absent", "queued")
    /\ ahead' = [ahead EXCEPT ![r] = {o \in Run : stage[o] # "absent"}]

\* A run enters the game when every run ahead of it is over.
Enter(r) ==
    /\ \A o \in ahead[r] : stage[o] = "over"
    /\ Move(r, "queued", "playing")
    /\ UNCHANGED ahead

\* A run leaves the queue without playing: cancelled, timed out, or failed.
GiveUp(r) == Move(r, "queued", "over") /\ UNCHANGED ahead

Leave(r) == Move(r, "playing", "over") /\ UNCHANGED ahead

\* The worker of the run dies with the game in an unknown state.
Die(r) == Move(r, "playing", "lost") /\ UNCHANGED ahead

\* The loss has been noticed and the run settled; only now is the slot free.
Settle(r) == Move(r, "lost", "over") /\ UNCHANGED ahead

Next == \E r \in Run : Submit(r) \/ Enter(r) \/ GiveUp(r) \/ Leave(r)
                       \/ Die(r) \/ Settle(r)

Spec == Init /\ [][Next]_slotVars

\* `ahead` is the order in which the runs were submitted.
AheadIsAnOrder ==
    /\ \A r \in Run : \A o \in ahead[r] :
          stage[r] # "absent" /\ o \in Run /\ stage[o] # "absent" /\ r \notin ahead[o]
    /\ \A r, o \in Run : stage[r] # "absent" /\ stage[o] # "absent" /\ r # o
          => o \in ahead[r] \/ r \in ahead[o]

\* A run has entered the game only after every run ahead of it was over.
EnteredInOrder ==
    \A r \in Run : stage[r] \in {"playing", "lost"}
        => \A o \in ahead[r] : stage[o] = "over"

OrderInv == AheadIsAnOrder /\ EnteredInOrder

\* At most one run is in the game, and nobody is while a lost run is unsettled.
OneInGame ==
    \A r, o \in Run :
        stage[r] = "playing" /\ stage[o] \in {"playing", "lost"} => r = o

=============================================================================
