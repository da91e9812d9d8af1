----------------------------- MODULE NodeProofs -----------------------------
(***************************************************************************)
(* Proofs about Node: for any currencies, assets, calls and readers, the   *)
(* two lookups of the contract registry are inverse to each other, and the *)
(* currency registry follows it, one registration behind at most.  And     *)
(* about IDProvider: the two indices of the cache agree until a peer is    *)
(* deleted, for any aliases, addresses, spellings and file, wherever the   *)
(* file has the peers under their aliases.                                 *)
(***************************************************************************)
EXTENDS Node, IDProvider, SequenceTheorems, TLAPS

----------------------------------------------------------------------------
(* Node. *)

\* The contract registry: indices are in range, no two symbols and no two
\* positions share an asset, and every position has a symbol.
ContractInv ==
    /\ \A s, t \in DOMAIN currencies : currencies[s] = currencies[t] => s = t
    /\ \A i, j \in 1 .. Len(assets) : assets[i] = assets[j] => i = j
    /\ \A i \in 1 .. Len(assets) :
          \E s \in DOMAIN currencies : currencies[s] + 1 = i

\* The currency registry holds the symbols at the positions of their assets;
\* the one asset it may lack is that of the call in progress.
CurrencyInv ==
    /\ \A i \in 1 .. Len(symbols) :
          symbols[i] \in DOMAIN currencies /\ currencies[symbols[i]] + 1 = i
    /\ (\A c \in Callers : call[c] # "registering") =>
          Len(symbols) = Len(assets)
    /\ \A c \in Callers : call[c] = "registering" =>
          /\ Len(assets) = Len(symbols) + 1
          /\ wanted[c] \in DOMAIN currencies
          /\ currencies[wanted[c]] = Len(symbols)

\* Who is between the two registrations holds the node's mutex, and nobody is
\* before the node is up.
CallInv ==
    /\ \A c \in Callers : call[c] \in {"registering", "opening"} => lock = c
    /\ \A c \in Callers : call[c] # "duplicate"
    /\ phase # "up" => \A c \in Callers : call[c] = "new"

NodeInv == TypeOK /\ ContractInv /\ CurrencyInv /\ CallInv

\* Storing an asset that RegisterAssetERC20 did not refuse keeps the contract
\* registry well formed and puts the new symbol at the end.
LEMMA StoreAssetKeeps ==
    ASSUME TypeOK, ContractInv, NEW a \in Assets, ~RefusedAsset(a),
           StoreAsset(a)
    PROVE  /\ ContractInv'
           /\ assets' \in Seq(Assets)
           /\ Len(assets') = Len(assets) + 1
           /\ DOMAIN currencies' = DOMAIN currencies \cup {SymbolOf[a]}
           /\ DOMAIN currencies' \subseteq Symbols
           /\ currencies' \in [DOMAIN currencies' -> Nat]
           /\ SymbolOf[a] \notin DOMAIN currencies
           /\ currencies'[SymbolOf[a]] = Len(assets)
           /\ \A s \in DOMAIN currencies : currencies'[s] = currencies[s]
           /\ \A s \in DOMAIN currencies' : currencies'[s] < Len(assets')
PROOF
  <1> USE NodeAssumption DEF NodeAssumption
  <1>1. /\ assets \in Seq(Assets)
        /\ Len(assets) \in Nat
        /\ assets' = Append(assets, a)
        /\ Len(assets') = Len(assets) + 1
        /\ assets' \in Seq(Assets)
        /\ \A i \in 1 .. Len(assets) : assets'[i] = assets[i]
        /\ assets'[Len(assets) + 1] = a
    BY DEF TypeOK, StoreAsset
  <1>2. /\ DOMAIN currencies' = DOMAIN currencies \cup {SymbolOf[a]}
        /\ currencies'[SymbolOf[a]] = Len(assets)
        /\ SymbolOf[a] \notin DOMAIN currencies
        /\ SymbolOf[a] \in Symbols
    BY DEF StoreAsset, RefusedAsset
  <1>3. \A s \in DOMAIN currencies : currencies'[s] = currencies[s]
    BY <1>2 DEF StoreAsset
  <1>4. /\ DOMAIN currencies' \subseteq Symbols
        /\ currencies' \in [DOMAIN currencies' -> Nat]
    BY <1>1, <1>2, <1>3 DEF TypeOK, StoreAsset
  <1>5. \A s \in DOMAIN currencies :
            currencies[s] \in Nat /\ currencies[s] < Len(assets)
    BY DEF TypeOK
  <1>6. \A s \in DOMAIN currencies' : currencies'[s] < Len(assets')
    BY <1>1, <1>2, <1>3, <1>5
  <1>7. \A i \in 1 .. Len(assets) : assets[i] # a
    <2> SUFFICES ASSUME NEW i \in 1 .. Len(assets), assets[i] = a
                 PROVE  FALSE
      OBVIOUS
    <2>1. PICK s \in DOMAIN currencies : currencies[s] + 1 = i
      BY DEF ContractInv
    <2>2. isAssetRegistered(a)
      BY <2>1 DEF isAssetRegistered, Asset
    <2> QED BY <2>2 DEF RefusedAsset
  <1>8. ContractInv'
    <2>1. \A s, t \in DOMAIN currencies' :
              currencies'[s] = currencies'[t] => s = t
      BY <1>1, <1>2, <1>3, <1>5 DEF ContractInv
    <2>2. \A i, j \in 1 .. Len(assets') : assets'[i] = assets'[j] => i = j
      <3> TAKE i, j \in 1 .. Len(assets')
      <3>1. i \in 1 .. Len(assets) \/ i = Len(assets) + 1
        BY <1>1
      <3>2. j \in 1 .. Len(assets) \/ j = Len(assets) + 1
        BY <1>1
      <3> QED BY <3>1, <3>2, <1>1, <1>7 DEF ContractInv
    <2>3. \A i \in 1 .. Len(assets') :
              \E s \in DOMAIN currencies' : currencies'[s] + 1 = i
      <3> TAKE i \in 1 .. Len(assets')
      <3>1. CASE i \in 1 .. Len(assets)
        <4>1. PICK s \in DOMAIN currencies : currencies[s] + 1 = i
          BY <3>1 DEF ContractInv
        <4> QED BY <4>1, <1>2, <1>3
      <3>2. CASE i = Len(assets) + 1
        BY <3>2, <1>2
      <3> QED BY <3>1, <3>2, <1>1
    <2> QED BY <2>1, <2>2, <2>3 DEF ContractInv
  <1> QED BY <1>1, <1>2, <1>3, <1>4, <1>6, <1>8

\* A symbol is in the currency registry only if it is in the contract registry.
LEMMA RegisteredIsContract ==
    ASSUME TypeOK, CurrencyInv, NEW s, isRegistered(s)
    PROVE  s \in DOMAIN currencies /\ currencies[s] < Len(symbols)
PROOF
  <1>1. PICK i \in 1 .. Len(symbols) : symbols[i] = s
    BY DEF isRegistered
  <1>2. s \in DOMAIN currencies /\ currencies[s] + 1 = i
    BY <1>1 DEF CurrencyInv
  <1>3. currencies[s] \in Nat /\ Len(symbols) \in Nat
    BY <1>2 DEF TypeOK
  <1> QED BY <1>2, <1>3

\* A registration in the two registries, in one go or in two steps, leaves the
\* currency registry's entries at the positions of their assets.
LEMMA PositionsKept ==
    ASSUME TypeOK, CurrencyInv,
           DOMAIN currencies \subseteq DOMAIN currencies',
           \A s \in DOMAIN currencies : currencies'[s] = currencies[s]
    PROVE  \A i \in 1 .. Len(symbols) :
              /\ symbols[i] \in DOMAIN currencies'
              /\ currencies'[symbols[i]] + 1 = i
PROOF BY DEF CurrencyInv

\* Every action keeps the invariant.
LEMMA NodeStep == NodeInv /\ [Next]_vars => NodeInv'
PROOF
  <1> USE NodeAssumption DEF NodeAssumption
  <1> SUFFICES ASSUME NodeInv, [Next]_vars PROVE NodeInv'
    OBVIOUS
  <1>0. TypeOK /\ ContractInv /\ CurrencyInv /\ CallInv
    BY DEF NodeInv
  <1>1. ASSUME NEW a \in ConfigAssets, registerAssetERC20s(a)
        PROVE  NodeInv'
    <2>1. \A c \in Callers : call[c] = "new"
      BY <1>0, <1>1 DEF CallInv, registerAssetERC20s
    <2>2. CASE RefusedAsset(a)
      <3>1. UNCHANGED <<regVars, lock, call, wanted, sessions, readerVars>>
        BY <1>1, <2>2 DEF registerAssetERC20s, regVars
      <3>2. phase' = "failed" /\ pending' = pending \ {a}
        BY <1>1, <2>2 DEF registerAssetERC20s
      <3>3. TypeOK'
        BY <1>0, <3>1, <3>2 DEF TypeOK, regVars, readerVars
      <3>4. ContractInv' /\ CurrencyInv'
        BY <1>0, <3>1 DEF ContractInv, CurrencyInv, regVars
      <3>5. CallInv'
        BY <1>0, <2>1, <3>1, <3>2 DEF CallInv
      <3> QED BY <3>3, <3>4, <3>5 DEF NodeInv
    <2>3. CASE ~RefusedAsset(a)
      <3>1. StoreAsset(a) /\ a \in Assets
        BY <1>1, <2>3 DEF registerAssetERC20s
      <3>2. /\ UNCHANGED <<lock, call, wanted, sessions, readerVars>>
            /\ pending' = pending \ {a}
        BY <1>1 DEF registerAssetERC20s
      <3>3. ~isRegistered(SymbolOf[a])
        BY <1>0, <2>3, RegisteredIsContract DEF RefusedAsset
      <3>4. /\ symbols' = Append(symbols, SymbolOf[a])
            /\ phase' = phase
            /\ phase = "boot"
        BY <1>1, <2>3, <3>3 DEF registerAssetERC20s
      <3>5. /\ Len(symbols) = Len(assets)
            /\ symbols \in Seq(Symbols)
            /\ SymbolOf[a] \in Symbols
        BY <1>0, <2>1, <3>1 DEF CurrencyInv, TypeOK
      <3>6. /\ symbols' \in Seq(Symbols)
            /\ Len(symbols') = Len(symbols) + 1
            /\ Len(symbols) \in Nat
            /\ symbols'[Len(symbols) + 1] = SymbolOf[a]
            /\ \A i \in 1 .. Len(symbols) : symbols'[i] = symbols[i]
        BY <3>4, <3>5
      <3>7. TypeOK'
        BY <1>0, <2>3, <3>1, <3>2, <3>4, <3>6, StoreAssetKeeps
        DEF TypeOK, readerVars
      <3>8. ContractInv'
        BY <1>0, <2>3, <3>1, StoreAssetKeeps
      <3>9. CurrencyInv'
        <4>1. \A i \in 1 .. Len(symbols') :
                  /\ symbols'[i] \in DOMAIN currencies'
                  /\ currencies'[symbols'[i]] + 1 = i
          <5> TAKE i \in 1 .. Len(symbols')
          <5>1. CASE i \in 1 .. Len(symbols)
            <6>1. /\ symbols[i] \in DOMAIN currencies'
                  /\ currencies'[symbols[i]] + 1 = i
              BY <1>0, <2>3, <3>1, <5>1, StoreAssetKeeps, PositionsKept
            <6> QED BY <6>1, <5>1, <3>6
          <5>2. CASE i = Len(symbols) + 1
            BY <1>0, <2>3, <3>1, <3>5, <3>6, <5>2, StoreAssetKeeps
          <5> QED BY <5>1, <5>2, <3>6
        <4>2. Len(symbols') = Len(assets')
          BY <1>0, <2>3, <3>1, <3>5, <3>6, StoreAssetKeeps
        <4> QED BY <2>1, <3>2, <4>1, <4>2 DEF CurrencyInv
      <3>10. CallInv'
        BY <1>0, <3>2, <3>4 DEF CallInv
      <3> QED BY <3>7, <3>8, <3>9, <3>10 DEF NodeInv
    <2> QED BY <2>2, <2>3
  <1>2. ASSUME New PROVE NodeInv'
    <2> USE <1>2 DEF New
    <2>1. TypeOK'
      BY <1>0 DEF TypeOK, regVars, readerVars
    <2>2. ContractInv' /\ CurrencyInv' /\ CallInv'
      BY <1>0 DEF ContractInv, CurrencyInv, CallInv, regVars
    <2> QED BY <2>1, <2>2 DEF NodeInv
  <1>3. ASSUME NEW c \in Callers, NEW a \in Assets, RegisterCurrency(c, a)
        PROVE  NodeInv'
    <2>1. CASE RefusedAsset(a)
      <3>1. /\ call' = [call EXCEPT ![c] = "refused"]
            /\ call[c] = "new"
            /\ phase = "up"
            /\ UNCHANGED <<phase, pending, regVars, lock, wanted, sessions,
                           readerVars>>
        BY <1>3, <2>1 DEF RegisterCurrency, regVars
      <3>2. TypeOK'
        BY <1>0, <3>1 DEF TypeOK, CallStates, regVars, readerVars
      <3>3. ContractInv'
        BY <1>0, <3>1 DEF ContractInv, regVars
      <3>4. \A d \in Callers :
                /\ call'[d] = "registering" <=> call[d] = "registering"
                /\ call'[d] = "opening" <=> call[d] = "opening"
                /\ call'[d] = "duplicate" => call[d] = "duplicate"
        BY <1>0, <3>1 DEF TypeOK
      <3>5. CurrencyInv'
        BY <1>0, <3>1, <3>4 DEF CurrencyInv, regVars
      <3>6. CallInv'
        BY <1>0, <3>1, <3>4 DEF CallInv
      <3> QED BY <3>2, <3>3, <3>5, <3>6 DEF NodeInv
    <2>2. CASE ~RefusedAsset(a)
      <3>1. /\ lock = Nobody /\ lock' = c
            /\ StoreAsset(a)
            /\ call' = [call EXCEPT ![c] = "registering"]
            /\ wanted' = [wanted EXCEPT ![c] = SymbolOf[a]]
            /\ phase = "up"
            /\ UNCHANGED <<phase, pending, symbols, sessions, readerVars>>
        BY <1>3, <2>2 DEF RegisterCurrency, LockNode
      <3>2. \A d \in Callers : call[d] \notin {"registering", "opening"}
        BY <1>0, <3>1 DEF CallInv
      <3>3. Len(symbols) = Len(assets)
        BY <1>0, <3>2 DEF CurrencyInv
      <3>4. SymbolOf[a] \in Symbols
        OBVIOUS
      <3>5. TypeOK'
        BY <1>0, <2>2, <3>1, <3>4, StoreAssetKeeps
        DEF TypeOK, CallStates, readerVars
      <3>6. ContractInv'
        BY <1>0, <2>2, <3>1, StoreAssetKeeps
      <3>7. \A d \in Callers :
                /\ call'[d] = "registering" => d = c
                /\ call'[d] # "opening"
                /\ call'[d] # "duplicate"
        BY <1>0, <3>1, <3>2 DEF TypeOK, CallInv
      <3>8. call'[c] = "registering" /\ wanted'[c] = SymbolOf[a]
        BY <1>0, <3>1 DEF TypeOK
      <3>9. CurrencyInv'
        <4>1. \A i \in 1 .. Len(symbols') :
                  /\ symbols'[i] \in DOMAIN currencies'
                  /\ currencies'[symbols'[i]] + 1 = i
          BY <1>0, <2>2, <3>1, StoreAssetKeeps, PositionsKept
        <4>2. /\ Len(assets') = Len(symbols') + 1
              /\ wanted'[c] \in DOMAIN currencies'
              /\ currencies'[wanted'[c]] = Len(symbols')
          BY <1>0, <2>2, <3>1, <3>3, <3>8, StoreAssetKeeps
        <4> QED BY <3>7, <3>8, <4>1, <4>2 DEF CurrencyInv
      <3>10. CallInv'
        BY <3>1, <3>7 DEF CallInv
      <3> QED BY <3>5, <3>6, <3>9, <3>10 DEF NodeInv
    <2> QED BY <2>1, <2>2
  <1>4. ASSUME NEW c \in Callers, RegisterCurrencyReturns(c)
        PROVE  NodeInv'
    <2>1. /\ call[c] = "registering"
          /\ lock' = Nobody
          /\ UNCHANGED <<phase, pending, currencies, assets, wanted, sessions,
                         readerVars>>
      BY <1>4 DEF RegisterCurrencyReturns
    <2>2. /\ Len(assets) = Len(symbols) + 1
          /\ wanted[c] \in DOMAIN currencies
          /\ currencies[wanted[c]] = Len(symbols)
          /\ symbols \in Seq(Symbols)
          /\ Len(symbols) \in Nat
          /\ wanted[c] \in Symbols
      BY <1>0, <2>1 DEF CurrencyInv, TypeOK
    <2>3. ~isRegistered(wanted[c])
      BY <1>0, <2>2, RegisteredIsContract
    <2>4. /\ call' = [call EXCEPT ![c] = "registered"]
          /\ symbols' = Append(symbols, wanted[c])
      BY <1>4, <2>3 DEF RegisterCurrencyReturns
    <2>5. /\ symbols' \in Seq(Symbols)
          /\ Len(symbols') = Len(symbols) + 1
          /\ symbols'[Len(symbols) + 1] = wanted[c]
          /\ \A i \in 1 .. Len(symbols) : symbols'[i] = symbols[i]
      BY <2>2, <2>4
    <2>6. TypeOK'
      BY <1>0, <2>1, <2>4, <2>5 DEF TypeOK, CallStates, readerVars
    <2>7. ContractInv'
      BY <1>0, <2>1 DEF ContractInv
    <2>8. /\ lock = c
          /\ \A d \in Callers \ {c} : call[d] \notin {"registering", "opening"}
      BY <1>0, <2>1 DEF CallInv
    <2>9. \A d \in Callers :
              call'[d] \notin {"registering", "opening", "duplicate"}
      BY <1>0, <2>4, <2>8 DEF TypeOK, CallInv
    <2>10. CurrencyInv'
      <3>1. \A i \in 1 .. Len(symbols') :
                /\ symbols'[i] \in DOMAIN currencies'
                /\ currencies'[symbols'[i]] + 1 = i
        <4> TAKE i \in 1 .. Len(symbols')
        <4>1. CASE i \in 1 .. Len(symbols)
          BY <1>0, <2>1, <2>5, <4>1 DEF CurrencyInv
        <4>2. CASE i = Len(symbols) + 1
          BY <2>1, <2>2, <2>5, <4>2
        <4> QED BY <4>1, <4>2, <2>2, <2>5
      <3>2. Len(symbols') = Len(assets')
        BY <2>1, <2>2, <2>5
      <3> QED BY <2>9, <3>1, <3>2 DEF CurrencyInv
    <2>11. phase = "up"
      BY <1>0, <2>1 DEF CallInv
    <2>12. CallInv'
      BY <2>1, <2>9, <2>11 DEF CallInv
    <2> QED BY <2>6, <2>7, <2>10, <2>12 DEF NodeInv
  <1>5. ASSUME NEW c \in Callers,
               \/ OpenSession(c)
               \/ \E ok \in BOOLEAN : OpenSessionReturns(c, ok)
        PROVE  NodeInv'
    <2>1. UNCHANGED <<phase, pending, regVars, wanted, readerVars>>
      BY <1>5 DEF OpenSession, OpenSessionReturns
    <2>2. PICK to \in {"opening", "opened", "refused"} :
              /\ call' = [call EXCEPT ![c] = to]
              /\ to = "opening" => lock = Nobody /\ lock' = c
              /\ to # "opening" => call[c] = "opening" /\ lock' = Nobody
      BY <1>5 DEF OpenSession, OpenSessionReturns
    <2>3. call[c] \in {"new", "opening"} /\ sessions' \in SUBSET Callers
      BY <1>0, <1>5 DEF OpenSession, OpenSessionReturns, TypeOK
    <2>4. lock' \in Callers \cup {Nobody}
      BY <2>2
    <2>5. TypeOK'
      BY <1>0, <2>1, <2>2, <2>3, <2>4
      DEF TypeOK, CallStates, regVars, readerVars
    <2>6. ContractInv'
      BY <1>0, <2>1 DEF ContractInv, regVars
    <2>7. \A d \in Callers :
              /\ call'[d] = "registering" <=> call[d] = "registering"
              /\ call'[d] # "duplicate"
              /\ call'[d] = "opening" => d = c \/ call[d] = "opening"
      BY <1>0, <2>2, <2>3 DEF TypeOK, CallInv
    <2>8. CurrencyInv'
      BY <1>0, <2>1, <2>7 DEF CurrencyInv, regVars
    <2>9. phase = "up"
      BY <1>0, <1>5 DEF OpenSession, OpenSessionReturns, CallInv
    <2>10. \A d \in Callers :
               call'[d] \in {"registering", "opening"} => lock' = d
      <3> SUFFICES ASSUME NEW d \in Callers,
                          call'[d] \in {"registering", "opening"}
                   PROVE  lock' = d
        OBVIOUS
      <3>1. CASE d = c
        BY <1>0, <2>2, <3>1 DEF TypeOK
      <3>2. CASE d # c
        <4>1. call[d] \in {"registering", "opening"}
          BY <1>0, <2>2, <3>2 DEF TypeOK
        <4>2. lock = d
          BY <1>0, <4>1 DEF CallInv
        <4>3. lock = c \/ lock = Nobody
          BY <1>0, <2>2 DEF CallInv
        <4> QED BY <4>2, <4>3, <3>2
      <3> QED BY <3>1, <3>2
    <2>11. CallInv'
      BY <2>1, <2>7, <2>9, <2>10 DEF CallInv
    <2> QED BY <2>5, <2>6, <2>8, <2>11 DEF NodeInv
  <1>6. ASSUME NEW r \in Readers,
               \/ \E s \in Symbols : makeAllocation(r, s)
               \/ \E a \in Assets : getCurrencies(r, a)
               \/ Currency(r)
        PROVE  NodeInv'
    <2>1. UNCHANGED <<phase, pending, regVars, lock, call, wanted, sessions>>
      BY <1>6 DEF makeAllocation, getCurrencies, Currency
    <2>2. /\ reader' \in [Readers -> ReaderStates]
          /\ seen' \in [Readers -> Symbols]
      <3>1. CASE \E s \in Symbols : makeAllocation(r, s)
        BY <1>0, <3>1 DEF makeAllocation, TypeOK, ReaderStates
      <3>2. CASE \E a \in Assets : getCurrencies(r, a)
        BY <1>0, <3>2 DEF getCurrencies, SymbolsFor, TypeOK, ReaderStates
      <3>3. CASE Currency(r)
        BY <1>0, <3>3 DEF Currency, TypeOK, ReaderStates
      <3> QED BY <1>6, <3>1, <3>2, <3>3
    <2>3. TypeOK'
      BY <1>0, <2>1, <2>2 DEF TypeOK, regVars
    <2>4. ContractInv' /\ CurrencyInv' /\ CallInv'
      BY <1>0, <2>1 DEF ContractInv, CurrencyInv, CallInv, regVars
    <2> QED BY <2>3, <2>4 DEF NodeInv
  <1>7. CASE UNCHANGED vars
    <2>1. TypeOK'
      BY <1>0, <1>7 DEF TypeOK, vars, regVars, readerVars
    <2>2. ContractInv' /\ CurrencyInv' /\ CallInv'
      BY <1>0, <1>7 DEF ContractInv, CurrencyInv, CallInv, vars, regVars
    <2> QED BY <2>1, <2>2 DEF NodeInv
  <1> QED BY <1>1, <1>2, <1>3, <1>4, <1>5, <1>6, <1>7 DEF Next

\* The registries a new node starts with satisfy the invariant.
LEMMA NodeInit == Init => NodeInv
PROOF
  <1> USE NodeAssumption DEF NodeAssumption
  <1> SUFFICES ASSUME Init PROVE NodeInv
    OBVIOUS
  <1>1. /\ Len(assets) = 1 /\ assets[1] = AssetETH
        /\ Len(symbols) = 1 /\ symbols[1] = ETH
        /\ DOMAIN currencies = {ETH} /\ currencies[ETH] = 0
    BY DEF Init
  <1>2. TypeOK
    BY <1>1 DEF Init, TypeOK, CallStates, ReaderStates
  <1>3. ContractInv
    BY <1>1 DEF ContractInv
  <1>4. CurrencyInv
    BY <1>1 DEF Init, CurrencyInv
  <1>5. CallInv
    BY DEF Init, CallInv
  <1> QED BY <1>2, <1>3, <1>4, <1>5 DEF NodeInv

\* The invariant holds of every reachable state of the node.
LEMMA NodeInvariant == Spec => []NodeInv
PROOF BY NodeInit, NodeStep, PTL DEF Spec

\* The registries of the node are well typed whatever is registered.
THEOREM NodeTypeCorrect == Spec => []TypeOK
PROOF
  <1>1. NodeInv => TypeOK
    BY DEF NodeInv
  <1> QED BY <1>1, NodeInvariant, PTL

\* Turning a symbol into an asset (makeAllocation) and the asset back into a
\* symbol (getCurrencies) gives the same symbol.
THEOREM SymbolRoundTripTheorem == Spec => []SymbolRoundTrip
PROOF
  <1>1. NodeInv => SymbolRoundTrip
    <2> SUFFICES ASSUME NodeInv, NEW s \in DOMAIN currencies
                 PROVE  SymbolsFor(Asset(s)) = {s}
      BY DEF SymbolRoundTrip
    <2>1. \A t \in DOMAIN currencies :
              /\ currencies[t] \in Nat
              /\ currencies[t] + 1 \in 1 .. Len(assets)
      BY DEF NodeInv, TypeOK
    <2>2. \A t \in DOMAIN currencies : Asset(t) = Asset(s) => t = s
      <3> SUFFICES ASSUME NEW t \in DOMAIN currencies, Asset(t) = Asset(s)
                   PROVE  t = s
        OBVIOUS
      <3>1. currencies[t] + 1 = currencies[s] + 1
        BY <2>1 DEF Asset, NodeInv, ContractInv
      <3>2. currencies[t] = currencies[s]
        BY <2>1, <3>1
      <3> QED BY <3>2 DEF NodeInv, ContractInv
    <2> QED BY <2>2 DEF SymbolsFor
  <1> QED BY <1>1, NodeInvariant, PTL

\* The branches of registerAssetERC20s and RegisterCurrency that the comments
\* call unreachable are: the currency registry never refuses a symbol.
THEOREM CurrencyNeverRefusedTheorem == Spec => []CurrencyNeverRefused
PROOF
  <1>1. NodeInv => CurrencyNeverRefused
    <2> SUFFICES ASSUME NodeInv PROVE CurrencyNeverRefused
      OBVIOUS
    <2>1. \A c \in Callers : call[c] # "duplicate"
      BY DEF NodeInv, CallInv
    <2>2. ASSUME phase = "failed", NEW i \in 1 .. Len(assets)
          PROVE  \E s \in DOMAIN currencies :
                     Asset(s) = assets[i] /\ isRegistered(s)
      <3>1. Len(symbols) = Len(assets)
        BY <2>2 DEF NodeInv, CallInv, CurrencyInv
      <3>2. symbols[i] \in DOMAIN currencies /\ currencies[symbols[i]] + 1 = i
        BY <3>1 DEF NodeInv, CurrencyInv
      <3>3. isRegistered(symbols[i])
        BY <3>1 DEF isRegistered
      <3> QED BY <3>2, <3>3 DEF Asset
    <2> QED BY <2>1, <2>2 DEF CurrencyNeverRefused
  <1> QED BY <1>1, NodeInvariant, PTL

\* The currency registry lists its symbols in the contract registry's order.
THEOREM SymbolsInOrderTheorem == Spec => []SymbolsInOrder
PROOF
  <1>1. NodeInv => SymbolsInOrder
    <2> SUFFICES ASSUME NodeInv, NEW s \in DOMAIN currencies, isRegistered(s)
                 PROVE  /\ currencies[s] < Len(symbols)
                        /\ symbols[currencies[s] + 1] = s
      BY DEF SymbolsInOrder
    <2>1. PICK i \in 1 .. Len(symbols) : symbols[i] = s
      BY DEF isRegistered
    <2>2. currencies[s] + 1 = i
      BY <2>1 DEF NodeInv, CurrencyInv
    <2>3. currencies[s] \in Nat /\ Len(symbols) \in Nat
      BY DEF NodeInv, TypeOK
    <2>4. currencies[s] < Len(symbols)
      BY <2>1, <2>2, <2>3
    <2> QED BY <2>1, <2>2, <2>4
  <1> QED BY <1>1, NodeInvariant, PTL

----------------------------------------------------------------------------
(* IDProvider. *)

USE IDProviderAssumption DEF IDProviderAssumption

\* Every peer is indexed by the string it was entered with, and every indexed
\* string is that of a peer; it leads to one if the peers with that string are
\* filed under their aliases.
Agree(byKey, byAddr) ==
    /\ \A k \in DOMAIN byKey : byKey[k].addr \in DOMAIN byAddr
    /\ \A s \in DOMAIN byAddr : FiledByAlias(byKey, s) =>
          byAddr[s] \in DOMAIN byKey /\ byKey[byAddr[s]].addr = s

CacheInv == ProviderTypeOK /\ (~deleted => Agree(peerIDsByAlias, aliasByAddr))

----------------------------------------------------------------------------
\* Writing a peer keeps a map of peers.
LEMMA PutPeer ==
    ASSUME NEW m \in PeerMaps, NEW a \in Aliases, NEW p \in PeerID
    PROVE  Put(m, a, p) \in PeerMaps
<1>1. PICK D \in SUBSET Aliases : m \in [D -> PeerID]
  BY DEF PeerMaps, MapsTo
<1>2. Put(m, a, p) \in [D \cup {a} -> PeerID]
  BY <1>1 DEF Put
<1>3. D \cup {a} \in SUBSET Aliases
  OBVIOUS
<1> QED
  BY <1>2, <1>3 DEF PeerMaps, MapsTo

\* The empty map, which is what a truncated file reads as.
LEMMA EmptyPeers ==
    Empty \in PeerMaps /\ Empty \in PeerFiles /\ DOMAIN Empty = {}
<1>1. \A S : Empty \in [{} -> S]
  BY DEF Empty
<1>2. \A S : Empty \in MapsTo(S)
  BY <1>1 DEF MapsTo
<1> QED
  BY <1>2 DEF PeerMaps, PeerFiles, Empty

\* A map of peers maps keys to peers.
LEMMA PeerMapType ==
    ASSUME NEW m \in PeerMaps
    PROVE  DOMAIN m \subseteq Aliases /\ \A k \in DOMAIN m : m[k] \in PeerID
  BY DEF PeerMaps, MapsTo

\* What the cache holds can be written to the file.
LEMMA PeersAreFile == PeerMaps \subseteq PeerFiles
<1>1. PeerID \subseteq [alias : Aliases, addr : AddrStrings \cup {Garbage}]
  BY DEF PeerID
<1> QED
  BY <1>1 DEF PeerMaps, PeerFiles, MapsTo

\* A file that newIDProviderCache does not refuse is a map of peers.
LEMMA OpenedFile ==
    ASSUME NEW m \in PeerFiles, ~RefusedFile(m)
    PROVE  m \in PeerMaps /\ OwnAlias \notin DOMAIN m
<1>1. PICK D \in SUBSET Aliases :
        m \in [D -> [alias : Aliases, addr : AddrStrings \cup {Garbage}]]
  BY DEF PeerFiles, MapsTo
<1>2. \A k \in D : m[k].addr # Garbage
  BY <1>1 DEF RefusedFile
<1>3. \A k \in D : m[k] \in PeerID
  BY <1>1, <1>2 DEF PeerID
<1>4. m \in [D -> PeerID]
  BY <1>1, <1>3
<1> QED
  BY <1>4 DEF PeerMaps, MapsTo, RefusedFile

\* newIDProviderCache builds an index that agrees with the file, in whichever
\* order the loop goes over the map.
LEMMA IndexAgrees ==
    ASSUME NEW m \in PeerMaps, NEW f \in Indices(m)
    PROVE  /\ Agree(m, f)
           /\ DOMAIN f \subseteq AddrStrings
           /\ \A s \in DOMAIN f : f[s] \in Aliases
<1> DEFINE strings == {m[k].addr : k \in DOMAIN m}
<1>1. /\ f \in [strings -> Aliases]
      /\ \A s \in strings : \E k \in DOMAIN m : m[k] = [alias |-> f[s], addr |-> s]
  BY DEF Indices
<1>2. strings \subseteq AddrStrings
  BY PeerMapType DEF PeerID
<1>3. ASSUME NEW s \in DOMAIN f, FiledByAlias(m, s)
      PROVE  f[s] \in DOMAIN m /\ m[f[s]].addr = s
  <2>1. PICK k \in DOMAIN m : m[k] = [alias |-> f[s], addr |-> s]
    BY <1>1
  <2>2. m[k].alias = f[s] /\ m[k].addr = s
    BY <2>1
  <2> QED
    BY <1>3, <2>2 DEF FiledByAlias
<1>4. \A k \in DOMAIN m : m[k].addr \in DOMAIN f
  BY <1>1
<1> QED
  BY <1>1, <1>2, <1>3, <1>4 DEF Agree

\* Writing a peer under a new alias keeps the indices in agreement: a string
\* already indexed is moved to the new alias, which has it too.
LEMMA WriteAgrees ==
    ASSUME NEW m, NEW f, NEW a, NEW s, Agree(m, f), a \notin DOMAIN m
    PROVE  Agree(Put(m, a, [alias |-> a, addr |-> s]), Put(f, s, a))
<1> DEFINE p == [alias |-> a, addr |-> s]
           n == Put(m, a, p)
           g == Put(f, s, a)
<1>0. p.alias = a /\ p.addr = s
  OBVIOUS
<1> HIDE DEF p
<1>n. /\ DOMAIN n = DOMAIN m \cup {a}
      /\ n[a] = p
      /\ \A k \in DOMAIN m : n[k] = m[k]
  BY DEF Put
<1>g. /\ DOMAIN g = DOMAIN f \cup {s}
      /\ g[s] = a
      /\ \A r \in DOMAIN f : r # s => g[r] = f[r]
  BY DEF Put
<1> HIDE DEF n, g
<1>1. \A k \in DOMAIN n : n[k].addr \in DOMAIN g
  BY <1>0, <1>n, <1>g DEF Agree
<1>2. ASSUME NEW r \in DOMAIN g, FiledByAlias(n, r)
      PROVE  g[r] \in DOMAIN n /\ n[g[r]].addr = r
  <2>1. CASE r = s
    BY <2>1, <1>0, <1>n, <1>g
  <2>2. CASE r # s
    <3>1. r \in DOMAIN f /\ g[r] = f[r]
      BY <2>2, <1>g
    <3>2. FiledByAlias(m, r)
      BY <1>2, <1>n DEF FiledByAlias
    <3>3. f[r] \in DOMAIN m /\ m[f[r]].addr = r
      BY <3>1, <3>2 DEF Agree
    <3> QED
      BY <3>1, <3>3, <1>n
  <2> QED
    BY <2>1, <2>2
<1>3. Agree(n, g)
  BY <1>1, <1>2 DEF Agree
<1> QED
  BY <1>3 DEF n, g, p

\* Before a session is opened there is only the file.
LEMMA CacheInit == ProviderInit => CacheInv
<1> SUFFICES ASSUME ProviderInit PROVE CacheInv
  OBVIOUS
<1>1. ProviderTypeOK
  BY EmptyPeers DEF ProviderInit, ProviderTypeOK
<1>2. Agree(peerIDsByAlias, aliasByAddr)
  BY EmptyPeers DEF ProviderInit, Agree
<1> QED
  BY <1>1, <1>2 DEF CacheInv

\* Opening a session, writing and deleting peers, storing them and stopping.
LEMMA CacheStep == CacheInv /\ [ProviderNext]_providerVars => CacheInv'
<1> SUFFICES ASSUME CacheInv, [ProviderNext]_providerVars
             PROVE  ProviderTypeOK' /\ (~deleted' => Agree(peerIDsByAlias, aliasByAddr)')
  BY DEF CacheInv
<1>i. ProviderTypeOK /\ (~deleted => Agree(peerIDsByAlias, aliasByAddr))
  BY DEF CacheInv
<1> USE <1>i DEF cacheVars
<1>1. CASE initIDProvider
  <2> DEFINE own == [alias |-> OwnAlias, addr |-> String(OwnAddr)]
  <2>1. PICK f \in Indices(file) : aliasByAddr' = Put(f, String(OwnAddr), OwnAlias)
    BY <1>1 DEF initIDProvider
  <2>2. /\ peerIDsByAlias' = Put(file, OwnAlias, own)
        /\ isOpen' = TRUE
        /\ UNCHANGED <<file, updating, deleted, refusedOpen, stored>>
    BY <1>1 DEF initIDProvider
  <2>3. file \in PeerMaps /\ OwnAlias \notin DOMAIN file
    BY <1>1, OpenedFile DEF initIDProvider, ProviderTypeOK
  <2>4. String(OwnAddr) \in AddrStrings
    BY DEF String
  <2>5. own \in PeerID
    BY <2>4 DEF PeerID
  <2>6. /\ Agree(file, f)
        /\ DOMAIN f \subseteq AddrStrings
        /\ \A s \in DOMAIN f : f[s] \in Aliases
    BY <2>3, IndexAgrees
  <2>7. Agree(Put(file, OwnAlias, own), Put(f, String(OwnAddr), OwnAlias))
    BY <2>3, <2>6, WriteAgrees
  <2>8. Agree(peerIDsByAlias, aliasByAddr)'
    BY <2>1, <2>2, <2>7 DEF Agree, FiledByAlias
  <2>9. peerIDsByAlias' \in PeerMaps
    BY <2>2, <2>3, <2>5, PutPeer
  <2>10. /\ DOMAIN aliasByAddr' \subseteq AddrStrings
         /\ \A s \in DOMAIN aliasByAddr' : aliasByAddr'[s] \in Aliases
    BY <2>1, <2>4, <2>6 DEF Put
  <2> QED
    BY <2>2, <2>8, <2>9, <2>10 DEF ProviderTypeOK
<1>2. CASE initIDProviderFails
  BY <1>2 DEF initIDProviderFails, ProviderTypeOK, Agree, FiledByAlias
<1>3. ASSUME NEW alias \in Aliases, NEW s \in AddrStrings \cup {Garbage},
             AddPeerID(alias, s)
      PROVE  ProviderTypeOK' /\ (~deleted' => Agree(peerIDsByAlias, aliasByAddr)')
  <2> DEFINE p == [alias |-> alias, addr |-> s]
  <2>1. s \in AddrStrings /\ alias \notin DOMAIN peerIDsByAlias
    BY <1>3 DEF AddPeerID, RefusedWrite
  <2>2. /\ peerIDsByAlias' = Put(peerIDsByAlias, alias, p)
        /\ aliasByAddr' = Put(aliasByAddr, s, alias)
        /\ UNCHANGED <<isOpen, file, updating, refusedOpen, deleted, stored>>
    BY <1>3 DEF AddPeerID, StorePeer
  <2>3. p \in PeerID
    BY <2>1 DEF PeerID
  <2>4. peerIDsByAlias' \in PeerMaps
    BY <2>2, <2>3, PutPeer DEF ProviderTypeOK
  <2>5. /\ DOMAIN aliasByAddr' \subseteq AddrStrings
        /\ \A r \in DOMAIN aliasByAddr' : aliasByAddr'[r] \in Aliases
    BY <2>1, <2>2 DEF ProviderTypeOK, Put
  <2>6. ~deleted => Agree(Put(peerIDsByAlias, alias, p), Put(aliasByAddr, s, alias))
    BY <2>1, WriteAgrees
  <2>7. ~deleted => Agree(peerIDsByAlias, aliasByAddr)'
    BY <2>2, <2>6 DEF Agree, FiledByAlias
  <2> QED
    BY <2>2, <2>4, <2>5, <2>7 DEF ProviderTypeOK
<1>4. ASSUME NEW alias \in Aliases, Delete(alias)
      PROVE  ProviderTypeOK' /\ (~deleted' => Agree(peerIDsByAlias, aliasByAddr)')
  <2>1. peerIDsByAlias' \in PeerMaps
    <3> DEFINE D == DOMAIN peerIDsByAlias \ {alias}
    <3>1. D \in SUBSET Aliases /\ \A k \in D : peerIDsByAlias[k] \in PeerID
      BY PeerMapType DEF ProviderTypeOK
    <3>2. peerIDsByAlias' \in [D -> PeerID]
      BY <1>4, <3>1 DEF Delete
    <3> QED
      BY <3>1, <3>2 DEF PeerMaps, MapsTo
  <2> QED
    BY <1>4, <2>1 DEF Delete, ProviderTypeOK
<1>5. CASE UpdateStorage
  BY <1>5, EmptyPeers DEF UpdateStorage, ProviderTypeOK, Agree, FiledByAlias
<1>6. CASE UpdateStorageReturns
  BY <1>6, PeersAreFile DEF UpdateStorageReturns, ProviderTypeOK, Agree, FiledByAlias
<1>7. CASE Stop
  BY <1>7, EmptyPeers DEF Stop, ProviderTypeOK, Agree
<1>8. CASE UNCHANGED providerVars
  BY <1>8 DEF providerVars, ProviderTypeOK, Agree, FiledByAlias
<1> QED
  BY <1>1, <1>2, <1>3, <1>4, <1>5, <1>6, <1>7, <1>8 DEF ProviderNext

\* The indices agree in every state of a session without deletions.
LEMMA CacheInvariant == ProviderSpec => []CacheInv
  BY CacheInit, CacheStep, PTL DEF ProviderSpec

\* Type correctness, for any aliases and addresses and any file.
THEOREM ProviderTypeCorrect == ProviderSpec => []ProviderTypeOK
<1>1. CacheInv => ProviderTypeOK
  BY DEF CacheInv
<1> QED
  BY <1>1, CacheInvariant, PTL

\* ReadByOffChainAddr finds every peer that was entered with the canonical
\* spelling of its address (idprovider/local/cache.go), if the entries with that
\* address have their alias as the key: HandleProposal does not take the peer
\* for an unknown one.
THEOREM PeersFound == ProviderSpec => []KnownPeerFound
<1>1. CacheInv => KnownPeerFound
  <2> SUFFICES ASSUME CacheInv, ~deleted, NEW k \in DOMAIN peerIDsByAlias,
                      peerIDsByAlias[k].addr = String(peerIDsByAlias[k].addr[1]),
                      FiledByAlias(peerIDsByAlias, peerIDsByAlias[k].addr)
               PROVE  \E p \in ReadByOffChainAddr(peerIDsByAlias[k].addr[1]) :
                         p.addr = peerIDsByAlias[k].addr
    BY DEF KnownPeerFound
  <2> DEFINE s == peerIDsByAlias[k].addr
             b == aliasByAddr[s]
  <2>1. /\ s \in DOMAIN aliasByAddr
        /\ b \in DOMAIN peerIDsByAlias
        /\ peerIDsByAlias[b].addr = s
    BY DEF CacheInv, Agree
  <2>2. peerIDsByAlias[b] \in ReadByOffChainAddr(s[1])
    BY <2>1 DEF ReadByOffChainAddr
  <2> QED
    BY <2>1, <2>2
<1> QED
  BY <1>1, CacheInvariant, PTL

\* The peer that ReadByOffChainAddr returns for an address has that address, if
\* the entries with that address have their alias as the key.
THEOREM ResolvedPeers == ProviderSpec => []ResolvedPeerHasAddr
<1>1. CacheInv => ResolvedPeerHasAddr
  <2> SUFFICES ASSUME CacheInv, ~deleted, NEW addr \in Addrs,
                      FiledByAlias(peerIDsByAlias, String(addr)),
                      NEW p \in ReadByOffChainAddr(addr)
               PROVE  p.addr[1] = addr
    BY DEF ResolvedPeerHasAddr
  <2>1. p.addr = String(addr)
    BY DEF ReadByOffChainAddr, CacheInv, Agree
  <2> QED
    BY <2>1 DEF String
<1> QED
  BY <1>1, CacheInvariant, PTL
=============================================================================
