------------------------------ MODULE MCRunQueue ------------------------------
(* RunQueue with model values for the runs, the clients and the keys.       *)
EXTENDS RunQueue, TLC

Symmetry == Permutations(Run) \cup Permutations(Client)

\* The bound of the safety runs: the queue is not paused, at most one run is
\* cancelled, and at most one dead worker is unsettled at a time.
MaxCancels == 1
MaxUnsettled == 1

FewIncidents ==
    /\ ~paused
    /\ Cardinality({r \in Run : cancelReq[r]}) <= MaxCancels
    /\ Cardinality({r \in Run : proc[r] = "dead" /\ ~IsTerminal(r)})
          <= MaxUnsettled

=============================================================================
