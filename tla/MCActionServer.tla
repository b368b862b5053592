--------------------------- MODULE MCActionServer ---------------------------
(* Small instances of ActionServer.  Queries have fixed targets: a cancel   *)
(* query per goal, the result queries for g1.                               *)
EXTENDS ActionServer, TLC
CONSTANTS g1, g2, c1, c2, r1, r2
AllTargets == (c1 :> g1 @@ c2 :> g2 @@ r1 :> g1 @@ r2 :> g1)
MCTarget == [q \in Cancels \cup Results |-> AllTargets[q]]

\* No invariant or action property of the safety run reads the content of
\* status messages, and no guard does: states that differ only there are one.
WithoutStatusContent ==
    <<mode, shutdown, legacy, goalQ, cancelQ, resultQ, goals, resultFutures,
      routes, chan, flag, pc, outcome, toNotify, publishing, sent, driverWait,
      tasks, answer>>
=============================================================================
