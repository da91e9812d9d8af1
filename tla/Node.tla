-------------------------------- MODULE Node --------------------------------
(***************************************************************************)
(* The node (node/node.go) with its two registries: the contract registry  *)
(* (blockchain/ethereum/registry.go), which maps currency symbols to asset *)
(* contracts, and the currency registry (currency/registry.go), which has  *)
(* the parser of each symbol.                                              *)
(*                                                                         *)
(* A currency is registered in the contract registry first and in the      *)
(* currency registry second, under the node's mutex.  Sessions read both   *)
(* registries without it: each registry has a mutex of its own, held for   *)
(* one call.                                                               *)
(***************************************************************************)
EXTENDS Naturals, Sequences

CONSTANTS
    Symbols, ETH,      \* currency symbols; the one of the native currency
    Assets, AssetETH,  \* addresses of asset contracts; the one for ETH
    Valid,             \* the assets ValidateAssetERC20 accepts
    SymbolOf,          \* the symbol it reads from the blockchain for each asset
    ConfigAssets,      \* what cfg.AssetERC20s may list
    Callers,           \* concurrent API calls on the node
    Readers,           \* uses of the registries by sessions
    Nobody             \* no call holds the node's mutex

ASSUME NodeAssumption ==
    /\ ETH \in Symbols
    /\ AssetETH \in Assets
    /\ Valid \subseteq Assets
    /\ SymbolOf \in [Assets -> Symbols]
    /\ ConfigAssets \subseteq Assets
    /\ Nobody \notin Callers

VARIABLES
    phase,       \* "boot": in New, "up": serving, "failed": New returned an error
    pending,     \* assets registerAssetERC20s has still to register
    currencies,  \* contractRegistry.currencies: symbol -> index from 0
    assets,      \* contractRegistry.assets
    symbols,     \* Registry.symbols, which are also the keys of its currencies
    lock,        \* who holds the node's mutex
    call,        \* where each API call is
    wanted,      \* the symbol each RegisterCurrency call is registering
    sessions,    \* n.sessions; a session is named after the call that opened it
    reader,      \* where each use of the registries is
    seen         \* the symbol each of them found in the contract registry

regVars    == <<currencies, assets, symbols>>
readerVars == <<reader, seen>>

vars == <<phase, pending, regVars, lock, call, wanted, sessions, readerVars>>

CallStates == {"new", "registering", "opening", "registered", "duplicate",
               "opened", "refused"}
ReaderStates == {"new", "found", "unknown", "parsed", "nil"}

TypeOK ==
    /\ phase \in {"boot", "up", "failed"}
    /\ pending \subseteq ConfigAssets
    /\ currencies \in [DOMAIN currencies -> Nat]
    /\ DOMAIN currencies \subseteq Symbols
    /\ \A s \in DOMAIN currencies : currencies[s] < Len(assets)
    /\ assets \in Seq(Assets)
    /\ symbols \in Seq(Symbols)
    /\ lock \in Callers \cup {Nobody}
    /\ call \in [Callers -> CallStates]
    /\ wanted \in [Callers -> Symbols]
    /\ sessions \subseteq Callers
    /\ reader \in [Readers -> ReaderStates]
    /\ seen \in [Readers -> Symbols]

\* NewContractRegistry and the registration of ETH in New.
Init ==
    /\ phase = "boot"
    /\ pending \in SUBSET ConfigAssets
    /\ currencies = [s \in {ETH} |-> 0]
    /\ assets = <<AssetETH>>
    /\ symbols = <<ETH>>
    /\ lock = Nobody
    /\ call = [c \in Callers |-> "new"]
    /\ wanted = [c \in Callers |-> ETH]
    /\ sessions = {}
    /\ reader = [r \in Readers |-> "new"]
    /\ seen = [r \in Readers |-> ETH]

----------------------------------------------------------------------------
(* The registries. *)

\* The address contractRegistry.Asset returns for a symbol it knows.
Asset(s) == assets[currencies[s] + 1]

isAssetRegistered(a) == \E s \in DOMAIN currencies : Asset(s) = a

\* The symbols contractRegistry.Symbol can return for an asset.
SymbolsFor(a) == {s \in DOMAIN currencies : Asset(s) = a}

\* Fault: the symbol read from the blockchain is not looked up.
RefusedAssetAnySymbol(a) == isAssetRegistered(a) \/ a \notin Valid

\* RegisterAssetERC20 returns an error.
RefusedAsset(a) ==
    \/ isAssetRegistered(a)
    \/ a \notin Valid
    \/ SymbolOf[a] \in DOMAIN currencies

\* Fault: the index is the one after the new entry's.
StoreAssetShifted(a) ==
    /\ currencies' = [s \in DOMAIN currencies \cup {SymbolOf[a]} |->
                        IF s = SymbolOf[a] THEN Len(assets) + 1
                                           ELSE currencies[s]]
    /\ assets' = Append(assets, a)

\* Fault: the index is the one of the last asset.
StoreAssetOnLast(a) ==
    /\ currencies' = [s \in DOMAIN currencies \cup {SymbolOf[a]} |->
                        IF s = SymbolOf[a] THEN Len(assets) - 1
                                           ELSE currencies[s]]
    /\ assets' = Append(assets, a)

\* The end of RegisterAssetERC20.
StoreAsset(a) ==
    /\ currencies' = [s \in DOMAIN currencies \cup {SymbolOf[a]} |->
                        IF s = SymbolOf[a] THEN Len(assets)
                                           ELSE currencies[s]]
    /\ assets' = Append(assets, a)

\* Registry.isRegistered
isRegistered(s) == \E i \in 1 .. Len(symbols) : symbols[i] = s

----------------------------------------------------------------------------
(* The node. *)

\* One round of the loop of registerAssetERC20s, in the order of a Go map.
\* Nothing else runs yet.
registerAssetERC20s(a) ==
    /\ phase = "boot"
    /\ a \in pending
    /\ pending' = pending \ {a}
    /\ IF RefusedAsset(a)
       THEN phase' = "failed" /\ UNCHANGED regVars
       ELSE /\ StoreAsset(a)
            /\ IF isRegistered(SymbolOf[a])
               THEN phase' = "failed" /\ UNCHANGED symbols
               ELSE symbols' = Append(symbols, SymbolOf[a]) /\ UNCHANGED phase
    /\ UNCHANGED <<lock, call, wanted, sessions, readerVars>>

\* New returns the node.
New ==
    /\ phase = "boot"
    /\ pending = {}
    /\ phase' = "up"
    /\ UNCHANGED <<pending, regVars, lock, call, wanted, sessions, readerVars>>

\* Fault: RegisterCurrency does not take the mutex.
LockNodeNot(c) == UNCHANGED lock

\* n.Lock()
LockNode(c) == lock = Nobody /\ lock' = c

\* RegisterCurrency up to the end of RegisterAssetERC20.
RegisterCurrency(c, a) ==
    /\ phase = "up"
    /\ call[c] = "new"
    /\ IF RefusedAsset(a)
       THEN /\ lock = Nobody
            /\ call' = [call EXCEPT ![c] = "refused"]
            /\ UNCHANGED <<currencies, assets, wanted, lock>>
       ELSE /\ LockNode(c)
            /\ StoreAsset(a)
            /\ call' = [call EXCEPT ![c] = "registering"]
            /\ wanted' = [wanted EXCEPT ![c] = SymbolOf[a]]
    /\ UNCHANGED <<phase, pending, symbols, sessions, readerVars>>

\* The rest of RegisterCurrency.
RegisterCurrencyReturns(c) ==
    /\ call[c] = "registering"
    /\ lock' = Nobody
    /\ IF isRegistered(wanted[c])
       THEN /\ call' = [call EXCEPT ![c] = "duplicate"]
            /\ UNCHANGED symbols
       ELSE /\ call' = [call EXCEPT ![c] = "registered"]
            /\ symbols' = Append(symbols, wanted[c])
    /\ UNCHANGED <<phase, pending, currencies, assets, wanted, sessions,
                   readerVars>>

\* OpenSession holds the mutex while session.New runs.
OpenSession(c) ==
    /\ phase = "up"
    /\ call[c] = "new"
    /\ lock = Nobody
    /\ lock' = c
    /\ call' = [call EXCEPT ![c] = "opening"]
    /\ UNCHANGED <<phase, pending, regVars, wanted, sessions, readerVars>>

OpenSessionReturns(c, ok) ==
    /\ call[c] = "opening"
    /\ lock' = Nobody
    /\ call' = [call EXCEPT ![c] = IF ok THEN "opened" ELSE "refused"]
    /\ sessions' = IF ok THEN sessions \cup {c} ELSE sessions
    /\ UNCHANGED <<phase, pending, regVars, wanted, readerVars>>

----------------------------------------------------------------------------
(* What sessions read. *)

\* makeAllocation looks the symbol of an opening balance up.
makeAllocation(r, s) ==
    /\ sessions # {}
    /\ reader[r] = "new"
    /\ reader' = [reader EXCEPT ![r] =
                    IF s \in DOMAIN currencies THEN "found" ELSE "unknown"]
    /\ seen' = [seen EXCEPT ![r] = s]
    /\ UNCHANGED <<phase, pending, regVars, lock, call, wanted, sessions>>

\* getCurrencies looks an asset of a proposal or of a restored channel up.
getCurrencies(r, a) ==
    /\ sessions # {}
    /\ reader[r] = "new"
    /\ IF isAssetRegistered(a)
       THEN /\ reader' = [reader EXCEPT ![r] = "found"]
            /\ \E s \in SymbolsFor(a) : seen' = [seen EXCEPT ![r] = s]
       ELSE /\ reader' = [reader EXCEPT ![r] = "unknown"]
            /\ UNCHANGED seen
    /\ UNCHANGED <<phase, pending, regVars, lock, call, wanted, sessions>>

\* Both then take the parser from the currency registry and call it.  The
\* parser is nil when the symbol is not there.
Currency(r) ==
    /\ reader[r] = "found"
    /\ reader' = [reader EXCEPT ![r] =
                    IF isRegistered(seen[r]) THEN "parsed" ELSE "nil"]
    /\ UNCHANGED <<phase, pending, regVars, lock, call, wanted, sessions, seen>>

Next ==
    \/ \E a \in ConfigAssets : registerAssetERC20s(a)
    \/ New
    \/ \E c \in Callers :
          \/ \E a \in Assets : RegisterCurrency(c, a)
          \/ RegisterCurrencyReturns(c)
          \/ OpenSession(c)
          \/ \E ok \in BOOLEAN : OpenSessionReturns(c, ok)
    \/ \E r \in Readers :
          \/ \E s \in Symbols : makeAllocation(r, s)
          \/ \E a \in Assets : getCurrencies(r, a)
          \/ Currency(r)

Spec == Init /\ [][Next]_vars

----------------------------------------------------------------------------
(* Properties. *)

\* Looking the asset of a symbol up gives the symbol back, and no other one:
\* the proposer turns symbols into assets, its peer assets into symbols.
SymbolRoundTrip == \A s \in DOMAIN currencies : SymbolsFor(Asset(s)) = {s}

\* Once the contract registry took an asset in, the currency registry does not
\* refuse its symbol: the branches the comments in registerAssetERC20s and
\* RegisterCurrency call unreachable are.
CurrencyNeverRefused ==
    /\ \A c \in Callers : call[c] # "duplicate"
    /\ phase = "failed" =>
          \A i \in 1 .. Len(assets) : \E s \in DOMAIN currencies :
              Asset(s) = assets[i] /\ isRegistered(s)

\* The currency registry lists the symbols in the order in which the contract
\* registry numbered them.
SymbolsInOrder ==
    \A s \in DOMAIN currencies :
        isRegistered(s) => /\ currencies[s] < Len(symbols)
                           /\ symbols[currencies[s] + 1] = s

\* A symbol found in the contract registry is known to the currency registry
\* too when its parser is used.  Not so between the two registrations (see the
\* README).
ParserFound == \A r \in Readers : reader[r] # "nil"
=============================================================================
