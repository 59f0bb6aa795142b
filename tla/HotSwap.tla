------------------------------- MODULE HotSwap -------------------------------
(***************************************************************************)
(* What swapping the model of a running edge device promises, whatever     *)
(* files it keeps, until something disturbs it (a crash, a file operation  *)
(* that fails): the device always runs a model; a new model is either      *)
(* taken over at once or turned down without a trace; and the decision is  *)
(* not put off for ever.                                                   *)
(***************************************************************************)
CONSTANTS Model, Loadable, Factory, None

VARIABLES running, candidate, disturbed

swapVars == <<running, candidate, disturbed>>

Init ==
    /\ running = Factory
    /\ candidate = None
    /\ disturbed = FALSE

Offer(m) ==
    /\ ~disturbed
    /\ candidate = None
    /\ candidate' = m
    /\ UNCHANGED <<running, disturbed>>

Accept ==
    /\ ~disturbed
    /\ candidate \in Loadable
    /\ running' = candidate
    /\ candidate' = None
    /\ UNCHANGED disturbed

Reject ==
    /\ ~disturbed
    /\ candidate \in Model \ Loadable
    /\ candidate' = None
    /\ UNCHANGED <<running, disturbed>>

(* From then on nothing is promised but that what runs has been loaded.    *)
Disturb ==
    /\ disturbed' = TRUE
    /\ running' \in Loadable \cup {None}
    /\ candidate' \in Model \cup {None}

Next ==
    \/ \E m \in Model : Offer(m)
    \/ Accept
    \/ Reject
    \/ Disturb

SafeSpec == Init /\ [][Next]_swapVars

Spec == SafeSpec /\ WF_swapVars(Accept \/ Reject)
=============================================================================
