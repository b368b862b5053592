---------------------------- MODULE MCParameters ----------------------------
(* Two names, two threads. gain is an integer, one of 1, 3 and 4 (step 2     *)
(* from 1 to 4), with an override and a default that is off the grid; mode   *)
(* is a dynamically typed parameter or a read-only one.                      *)
EXTENDS Parameters, TLC
CONSTANTS gain, mode, t1, t2

IntValue(i) == [type |-> "int", v |-> i]
BoolValue == [type |-> "bool", v |-> 1]
MCValues == {IntValue(2), IntValue(3), BoolValue, NotSet}
Descriptor(type, readOnly, dynamic, range) ==
    [type |-> type, readOnly |-> readOnly, dynamic |-> dynamic, range |-> range]
MCDeclarations ==
    {[name |-> gain, default |-> IntValue(2),
      descriptor |-> Descriptor("int", FALSE, FALSE, <<1, 4, 2>>)],
     [name |-> mode, default |-> IntValue(2),
      descriptor |-> Descriptor("NotSet", TRUE, FALSE, <<>>)],
     [name |-> mode, default |-> BoolValue,
      descriptor |-> Descriptor("bool", FALSE, TRUE, <<>>)]}
Param(n, v) == [name |-> n, value |-> v]
MCRequests == {<<Param(gain, IntValue(3)), Param(mode, BoolValue)>>,
               <<Param(gain, IntValue(2)), Param(gain, NotSet)>>, <<>>}
ThreadSymmetry == Permutations(Threads)
MCOverrides == [n \in Names |-> IF n = gain THEN IntValue(3) ELSE NoValue]
=============================================================================
