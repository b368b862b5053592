------------------------------ MODULE MCPubSub ------------------------------
(* Instance of PubSub: one topic in two sessions. A publisher with each route,  *)
(* and a durable one on the bus only; two shared subscribers and an owned one in *)
(* its session, an owned one of another Rust type, and a subscriber in the other *)
(* session. Each configuration takes the subscribers it needs.                   *)
EXTENDS PubSub

CONSTANTS talker, shared, second, owned, alien, far

MCKey == [e \in Endpoints |->
            [session |-> IF e = far THEN "there" ELSE "here", topic |-> "chatter"]]
MCType == [e \in Endpoints |-> IF e = alien THEN "U" ELSE "T"]
MCOrigin == [s \in Subs |-> "Any"]
MCSink == [s \in Subs |-> CASE s \in {owned, alien} -> "owned"
                             [] s = far -> "queue"
                             [] OTHER -> "shared"]
MCBuilds ==
    {[intra |-> TRUE, locality |-> "Any", durable |-> d] : d \in BOOLEAN}
    \cup {[intra |-> FALSE, locality |-> l, durable |-> FALSE] : l \in {"Any", "Remote"}}

\* The subscriber of the other session is there first, and the one of the other
\* type is built while no other endpoint is.
Underway(e) == stage[e] \notin {"absent", "live", "dropped"}
OneByOne ==
    /\ stage[far] # "live" => \A e \in Endpoints \ {far} : stage[e] = "absent"
    /\ Underway(alien) => \A e \in Endpoints \ {alien} : ~ Underway(e)
=============================================================================
