-------------------------- MODULE MCRuntimeStorage --------------------------
(* Small instances of RuntimeStorage for TLC.                               *)
EXTENDS RuntimeStorage, TLC

CONSTANTS c1, c2

TwoRows == {[value |-> 1, readonly |-> "unset"], [value |-> 2, readonly |-> "true"]}
(* Everything, one value, and the rows that are readonly.                   *)
ThreeQueries == {[values |-> Values, flags |-> Flags],
                 [values |-> {1}, flags |-> Flags],
                 [values |-> Values, flags |-> {"true"}]}
(* Nothing, and a row of each kind.                                         *)
Starts == {[i \in Ids |-> NoRow],
           [i \in Ids |-> [value |-> 1, readonly |-> IF i = 1 THEN "unset" ELSE "true"]]}
ClientSymmetry == Permutations({c1, c2})
=============================================================================
