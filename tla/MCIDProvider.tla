---------------------------- MODULE MCIDProvider ----------------------------
(***************************************************************************)
(* The instance of IDProvider that TLC checks: the user's address is       *)
(* written in one way, the other one in two.                               *)
(***************************************************************************)
EXTENDS IDProvider, TLC

CONSTANTS x, lower, alice, bob

MCAddrStrings == {String(a) : a \in Addrs} \cup {<<x, lower>>}

\* Two aliases that only the user tells apart.
Symmetry == Permutations({alice, bob})
=============================================================================
