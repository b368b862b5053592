----------------------------- MODULE MCWaitSet -----------------------------
(* Two waiters (two threads of a multi-threaded executor) that share one    *)
(* subscription and have one guard condition of their own each.             *)
EXTENDS WaitSet, TLC
CONSTANTS w1, w2, g1, g2, s1
MCWatches == (w1 :> {g1, s1} @@ w2 :> {g2, s1})
=============================================================================
