---------------------------- MODULE MCDiscovery ----------------------------
(* A publisher and a subscription of this session and one of another.       *)
EXTENDS Discovery
MCKind == [e \in Endpoints |-> IF e = "p" THEN "pub" ELSE "sub"]
=============================================================================
