SPECIFICATION Spec
CONSTANTS
    a1 = a1
    a2 = a2
    a3 = a3
    a4 = a4
    a5 = a5
    eth = eth
    PRN = PRN
    TST = TST
    ETH = ETH
    AssetETH = eth
    Assets <- MCAssets
    Symbols <- MCSymbols
    Valid <- MCValid
    SymbolOf <- MCSymbolOf
    ConfigAssets = {a1, a2, a3}
    Callers = {c1, c2, c3}
    Readers = {r1, r2}
    Nobody = Nobody
INVARIANTS
    TypeOK
    SymbolRoundTrip
    CurrencyNeverRefused
    SymbolsInOrder
SYMMETRY NodeSymmetry
CHECK_DEADLOCK FALSE
