---------------------------- MODULE MCScopedStore ----------------------------
(* Small instances of ScopedStore for TLC.                                  *)
EXTENDS ScopedStore, TLC

CONSTANTS c1, c2

(* Two scopes of which one has an extended contract, and one apart.         *)
ThreeScopes == <<[scope |-> "a", contract |-> "base", maxRows |-> 2],
                 [scope |-> "b", contract |-> "extended", maxRows |-> 1],
                 [scope |-> "c", contract |-> "other", maxRows |-> 0]>>
(* Store.extend keeps the cell of the base's shape.                         *)
ThreeContracts ==
    [base |-> [entry |-> "base.entry"],
     extended |-> [entry |-> "base.entry", note |-> "extended.note"],
     other |-> [entry |-> "other.entry"]]
ClientSymmetry == Permutations({c1, c2})
=============================================================================
