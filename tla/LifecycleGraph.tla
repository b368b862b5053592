--------------------------- MODULE LifecycleGraph ---------------------------
(***************************************************************************)
(* What a managed node promises about its primary state: it starts         *)
(* unconfigured and moves along the edges that ~/get_transition_graph      *)
(* announces (StateMachine::all_transitions), or recovers from an error.   *)
(* Intermediate states, callbacks and callers are not visible here.        *)
(***************************************************************************)

VARIABLE settled        \* the last primary state the node was in

Primary == {"unconfigured", "inactive", "active", "finalized"}

\* all_transitions, as pairs of start and goal state.
Edges == { <<"unconfigured", "inactive">>,      \* configure
           <<"inactive", "active">>,            \* activate
           <<"active", "inactive">>,            \* deactivate
           <<"inactive", "unconfigured">>,      \* cleanup
           <<"unconfigured", "finalized">>,     \* the three shutdowns
           <<"inactive", "finalized">>,
           <<"active", "finalized">> }

GraphInit == settled = "unconfigured"

Follow == <<settled, settled'>> \in Edges

\* finish_error_processing: back to the start or finalized.
Recover == settled # "finalized" /\ settled' \in {"unconfigured", "finalized"}

GraphSpec == GraphInit /\ [][Follow \/ Recover]_settled
=============================================================================
