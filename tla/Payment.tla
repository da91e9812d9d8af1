------------------------------ MODULE Payment -------------------------------
(***************************************************************************)
(* Amounts and balances: how the balances a user gives to OpenCh become    *)
(* the state of a channel (session/session.go), how payments change it     *)
(* (app/payment/channel.go), and how amounts are parsed and printed        *)
(* (currency/currency.go).                                                 *)
(*                                                                         *)
(* An amount a user writes or reads is a number of fine units; a balance   *)
(* is a number of base units of the currency.  Fine is the number of fine  *)
(* units in a base unit, so that amounts below a base unit exist.  Coarse  *)
(* is the number of base units in the last digit Print keeps: 1 for a      *)
(* currency with up to 16 decimals, 100 for the 18 decimals of ETH.        *)
(***************************************************************************)
EXTENDS Integers, Sequences

CONSTANTS
    Self, Peer, Stranger,  \* aliases: own, of a known peer, of nobody known
    Registered,            \* symbols of registered currencies
    Unregistered,          \* a symbol that is not registered
    OpeningAmounts,        \* amounts, in fine units, given to OpenCh
    PaidAmounts,           \* amounts, in fine units, given to SendPayChUpdate
    Fine, Coarse,
    MaxParts,              \* bound: length of a list of participants
    MaxPayments            \* bound: payments in one SendPayChUpdate

ASSUME PaymentAssumption ==
    /\ Self # Peer /\ Self # Stranger /\ Peer # Stranger
    /\ Fine \in Nat \ {0}
    /\ Coarse \in Nat \ {0}
    /\ OpeningAmounts \subseteq Int
    /\ PaidAmounts \subseteq Int

Symbols == Registered \cup {Unregistered}
Nodes == {"proposer", "proposee"}

\* Sequences over S of the given lengths.
Lists(S, lengths) == UNION {[1 .. n -> S] : n \in lengths}

\* The BalInfo records a user may pass to OpenCh: nothing about their shape is
\* checked when a request is received.
BalInfos ==
    [currencies : Lists(Symbols, 1 .. 2),
     parts : Lists({Self, Peer, Stranger}, 0 .. MaxParts),
     bals : Lists(Lists(OpeningAmounts, 1 .. 2), 1 .. 2)]

\* A payment: what is paid and to whom.
Payments ==
    [currency : Symbols, amount : PaidAmounts, payee : {Self, Peer, Stranger}]

VARIABLES
    stage,       \* "new", "open", "refused", or "panic": the process died
    asked,       \* the BalInfo given to OpenCh
    currencies,  \* ch.currencies: symbol of each row of the balances
    parts,       \* ch.parts of each node's channel
    bals         \* state.Balances in base units

vars == <<stage, asked, currencies, parts, bals>>

TypeOK ==
    /\ stage \in {"new", "open", "refused", "panic"}
    /\ asked \in BalInfos
    /\ stage = "open" =>
          /\ currencies \in Lists(Registered, 1 .. 2)
          /\ \A n \in Nodes : parts[n] \in [1 .. 2 -> {Self, Peer}]
          /\ bals \in [1 .. Len(currencies) -> [1 .. 2 -> Nat]]

\* A user calls OpenCh.
Init ==
    /\ stage = "new"
    /\ asked \in BalInfos
    /\ currencies = <<>>
    /\ parts = [n \in Nodes |-> <<>>]
    /\ bals = <<>>

----------------------------------------------------------------------------
(* currency.Parse and currency.Print *)

\* Parse accepts the amount: it is at least one base unit.
Parses(amount) == amount >= Fine

\* Digits beyond the base unit are cut off.
Parse(amount) == amount \div Fine

\* The quotient of a decimal division has 16 decimals; the last is rounded.
PrintBal(bal) == ((2 * bal + Coarse) \div (2 * Coarse)) * Coarse * Fine

----------------------------------------------------------------------------
(* OpenCh *)

\* Index of the last entry for Self, 1 if there is none.
OwnIdx(ps) ==
    LET own == {i \in DOMAIN ps : ps[i] = Self}
    IN  IF own = {} THEN 1 ELSE CHOOSE i \in own : \A j \in own : j <= i

\* s with the entries at 1 and i exchanged.
SwapFirst(s, i) == [s EXCEPT ![1] = s[i], ![i] = s[1]]

\* Fault: only the participants are rearranged.
sanitizeBalInfoParts(b) ==
    LET own == OwnIdx(b.parts)
    IN  IF own = 1 THEN b ELSE [b EXCEPT !.parts = SwapFirst(@, own)]

\* The user's own entry is moved to the front, in every row.
sanitizeBalInfo(b) ==
    LET own == OwnIdx(b.parts)
    IN  IF own = 1
        THEN b
        ELSE [b EXCEPT !.parts = SwapFirst(@, own),
                       !.bals = [i \in DOMAIN @ |-> SwapFirst(@[i], own)]]

\* It indexes every row with the index of the own entry in the participants.
SanitizePanics(b) ==
    LET own == OwnIdx(b.parts)
    IN  own # 1 /\ \E i \in DOMAIN b.bals : Len(b.bals[i]) < own

\* retrievePartIDs returns no error.
PartsKnown(ps) ==
    /\ \A i \in DOMAIN ps : ps[i] # Stranger
    /\ \A i, j \in DOMAIN ps : ps[i] = ps[j] => i = j
    /\ \E i \in DOMAIN ps : ps[i] = Self

\* makeAllocation returns no error.
AllocationMade(b) ==
    /\ Len(b.currencies) = Len(b.bals)
    /\ \A i \in DOMAIN b.currencies :
          /\ b.currencies[i] \in Registered
          /\ \A j \in DOMAIN b.bals[i] : Parses(b.bals[i][j])

\* go-perun accepts a proposal of two participants with a balance for each.
ProposalValid(b) ==
    Len(b.parts) = 2 /\ \A i \in DOMAIN b.bals : Len(b.bals[i]) = 2

\* OpenCh, or its refusal.  The peer takes part, or not; it lists the same
\* participants, by its own aliases.
OpenCh(peerAccepts) ==
    /\ stage = "new"
    /\ ~SanitizePanics(asked)
    /\ LET b == sanitizeBalInfo(asked)
       IN  IF /\ PartsKnown(b.parts)
              /\ AllocationMade(b)
              /\ ProposalValid(b)
              /\ peerAccepts
           THEN /\ stage' = "open"
                /\ currencies' = b.currencies
                /\ parts' = [n \in Nodes |->
                      IF n = "proposer" THEN b.parts ELSE <<Peer, Self>>]
                /\ bals' = [i \in DOMAIN b.bals |->
                      [j \in DOMAIN b.bals[i] |-> Parse(b.bals[i][j])]]
           ELSE stage' = "refused" /\ UNCHANGED <<currencies, parts, bals>>
    /\ UNCHANGED asked

OpenChPanics ==
    /\ stage = "new"
    /\ SanitizePanics(asked)
    /\ stage' = "panic"
    /\ UNCHANGED <<asked, currencies, parts, bals>>

----------------------------------------------------------------------------
(* SendPayChUpdate *)

IndexOf(ps, alias) == CHOOSE i \in DOMAIN ps : ps[i] = alias

\* Channel.Currency: symbols has the last index of a repeated currency.
CurrencyIdx(symbol) ==
    CHOOSE i \in DOMAIN currencies :
        /\ currencies[i] = symbol
        /\ \A j \in DOMAIN currencies : currencies[j] = symbol => j <= i

\* Fault: payer and payee are mixed up.
payeeIdxSwapped(ps, payee) == CHOOSE i \in DOMAIN ps : ps[i] # payee

\* getPayerPayeeIdx: the index of the payee, the other one is the payer.
payeeIdx(ps, payee) == IndexOf(ps, payee)

\* SendPayChUpdate goes on to SendChUpdate with this payment.
PaymentValid(n, p) ==
    /\ \E i \in DOMAIN currencies : currencies[i] = p.currency
    /\ Parses(p.amount)
    /\ \E i \in DOMAIN parts[n] : parts[n][i] = p.payee

\* Fault: the payer's balance is not reduced.
newUpdateCredit(n, p, b) ==
    [b EXCEPT ![CurrencyIdx(p.currency)][payeeIdx(parts[n], p.payee)] =
        @ + Parse(p.amount)]

\* Balances b after payment p of node n.
newUpdate(n, p, b) ==
    LET to == payeeIdx(parts[n], p.payee)
        from == 3 - to
        row == CurrencyIdx(p.currency)
    IN  [b EXCEPT ![row][from] = @ - Parse(p.amount),
                  ![row][to] = @ + Parse(p.amount)]

\* The updates of all payments, one after the other.
Updated(n, ps) ==
    LET after[k \in 0 .. Len(ps)] ==
            IF k = 0 THEN bals ELSE newUpdate(n, ps[k], after[k - 1])
    IN  after[Len(ps)]

\* go-perun refuses a state with a negative balance.
StateValid(b) == \A i \in DOMAIN b : \A j \in DOMAIN b[i] : b[i][j] >= 0

\* A node sends the payments and the other one accepts.
SendPayChUpdate(n, ps) ==
    /\ stage = "open"
    /\ \A k \in DOMAIN ps : PaymentValid(n, ps[k])
    /\ StateValid(Updated(n, ps))
    /\ bals' = Updated(n, ps)
    /\ UNCHANGED <<stage, asked, currencies, parts>>

Next ==
    \/ \E peerAccepts \in BOOLEAN : OpenCh(peerAccepts)
    \/ OpenChPanics
    \/ \E n \in Nodes, ps \in Lists(Payments, 1 .. MaxPayments) :
          SendPayChUpdate(n, ps)

Spec == Init /\ [][Next]_vars

----------------------------------------------------------------------------
(* Properties. *)

\* makeBalInfoFromState: what node n shows as the balance of an alias.
Shown(n, i, alias) == PrintBal(bals[i][IndexOf(parts[n], alias)])

\* Total of row i of the balances.
Total(b, i) == b[i][1] + b[i][2]

\* Payments move money and neither make nor destroy any: the total of each
\* currency stays what the participants paid in when the channel was opened.
FundsConserved ==
    stage = "open" => \A i \in DOMAIN bals :
        Total(bals, i) = Parse(asked.bals[i][1]) + Parse(asked.bals[i][2])

\* A channel opens with the balances the user named for each participant, in
\* whichever order they were listed.
OpensAsAsked ==
    [][stage = "new" /\ stage' = "open" =>
        \A i \in DOMAIN bals' : \A j \in 1 .. 2 :
            \E k \in 1 .. 2 :
                /\ parts'["proposer"][k] = asked.parts[j]
                /\ bals'[i][k] = Parse(asked.bals[i][j])]_vars

\* Whichever node sends a payment, its own balance grows if it named itself as
\* the payee and falls if it named the peer.
PayeeGains ==
    [][\A n \in Nodes, p \in Payments :
        (stage = "open" /\ SendPayChUpdate(n, <<p>>)) =>
            LET me == IndexOf(parts[n], Self)
                row == CurrencyIdx(p.currency)
            IN  IF p.payee = Self THEN bals'[row][me] > bals[row][me]
                                  ELSE bals'[row][me] < bals[row][me]]_vars

\* What a node shows as a balance is the balance: reading it back gives the
\* same number of base units, with nothing lost.  Not so if Coarse > 1 (see the
\* README).
PrintedBalanceExact ==
    stage = "open" => \A n \in Nodes, i \in DOMAIN bals, alias \in {Self, Peer} :
        Shown(n, i, alias) = bals[i][IndexOf(parts[n], alias)] * Fine

\* A balance a node shows can be parsed again, which the terminal client does
\* before it computes the effect of a payment.  Not so for a balance of zero
\* (see the README).
PrintedBalanceParses ==
    stage = "open" => \A n \in Nodes, i \in DOMAIN bals, alias \in {Self, Peer} :
        Parses(Shown(n, i, alias))

\* No BalInfo makes OpenCh panic.  Not so if its lists differ in length (see the
\* README).
OpenChNeverPanics == stage # "panic"
=============================================================================
