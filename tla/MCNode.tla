------------------------------- MODULE MCNode -------------------------------
\* Model values of the node's runs.  a1 and a2 have a currency each, a3 has
\* the symbol of a2, a4 claims the native currency's and a5 is no asset.
EXTENDS Node, TLC

CONSTANTS a1, a2, a3, a4, a5, eth, PRN, TST

MCAssets == {eth, a1, a2, a3, a4, a5}
MCSymbols == {ETH, PRN, TST}
MCValid == {eth, a1, a2, a3, a4}
MCSymbolOf ==
    (eth :> ETH) @@ (a1 :> PRN) @@ (a2 :> TST) @@ (a3 :> TST) @@ (a4 :> ETH)
        @@ (a5 :> PRN)

NodeSymmetry == Permutations(Callers) \cup Permutations(Readers)
=============================================================================
