--------------------------- MODULE PaymentProofs ----------------------------
(***************************************************************************)
(* Proofs about Payment: a channel opens with the balances that were       *)
(* asked for, and payments move money without making or destroying any,    *)
(* for any amounts, any decimals and any number of payments in an update.  *)
(*                                                                         *)
(* The payments of an update are made in a loop, so that what they add up  *)
(* to needs an induction.  It is made by minimal counterexample: a set of  *)
(* natural numbers that is not empty has a least element (LeastNumber).    *)
(***************************************************************************)
EXTENDS Payment, WellFoundedInduction, NaturalsInduction, TLAPS

USE PaymentAssumption DEF PaymentAssumption

\* Balances of two participants, one row per element of D.
Balances(D) == [D -> [1 .. 2 -> Int]]

\* An open channel: both nodes list the two participants, in one order or the
\* other, and there is a row of balances for each currency.
OpenInv ==
    /\ currencies \in Lists(Registered, 1 .. 2)
    /\ \A n \in Nodes : parts[n] \in [1 .. 2 -> {Self, Peer}] /\ parts[n][1] # parts[n][2]
    /\ bals \in [DOMAIN currencies -> [1 .. 2 -> Nat]]

PaymentInv ==
    /\ stage \in {"new", "open", "refused", "panic"}
    /\ asked \in BalInfos
    /\ stage = "open" => OpenInv
    /\ FundsConserved

----------------------------------------------------------------------------
(* Lists and numbers. *)

\* The well-ordering of the natural numbers, in the form the inductions use.
LEMMA LeastNumber ==
    ASSUME NEW T \in SUBSET Nat, T # {}
    PROVE  \E x \in T : \A y \in T : x <= y
<1>1. IsWellFoundedOn(OpToRel(<, Nat), Nat)
  BY NatLessThanWellFounded
<1>2. PICK x \in T : \A y \in T : <<y, x>> \notin OpToRel(<, Nat)
  BY <1>1, WFMin
<1>3. \A y \in T : ~(y < x)
  BY <1>2 DEF OpToRel
<1>4. x \in Nat /\ T \subseteq Nat
  OBVIOUS
<1> QED
  BY <1>3, <1>4

\* A list is a sequence of one of the lengths.
LEMMA ListHasLength ==
    ASSUME NEW S, NEW L \in SUBSET Nat, NEW s \in Lists(S, L)
    PROVE  Len(s) \in L /\ s \in [1 .. Len(s) -> S] /\ DOMAIN s = 1 .. Len(s)
<1>1. PICK m \in L : s \in [1 .. m -> S]
  BY DEF Lists
<1>2. s \in Seq(S) /\ DOMAIN s = 1 .. m /\ m \in Nat
  BY <1>1
<1>3. Len(s) = m
  BY <1>2
<1> QED
  BY <1>1, <1>2, <1>3

\* Parsing cuts off what is below the base unit (currency.go), and leaves at least
\* one base unit of an amount that it accepts.
LEMMA ParseGives ==
    ASSUME NEW a \in Int
    PROVE  Parse(a) \in Int /\ (Parses(a) => Parse(a) >= 1)
  BY DEF Parse, Parses

----------------------------------------------------------------------------
(* Updates. *)

\* The index of the currency of a valid payment is one of the rows.
LEMMA CurrencyRow ==
    ASSUME currencies \in Lists(Registered, 1 .. 2),
           NEW c, \E i \in DOMAIN currencies : currencies[i] = c
    PROVE  CurrencyIdx(c) \in DOMAIN currencies
<1>1. DOMAIN currencies \in {1 .. 1, 1 .. 2}
  BY DEF Lists
<1>2. \E i \in DOMAIN currencies :
        /\ currencies[i] = c
        /\ \A j \in DOMAIN currencies : currencies[j] = c => j <= i
  BY <1>1
<1> QED
  BY <1>2 DEF CurrencyIdx

\* The payee of a valid payment and the payer are the two participants.
LEMMA PayeeAndPayer ==
    ASSUME NEW ps \in [1 .. 2 -> {Self, Peer}], NEW payee, \E i \in DOMAIN ps : ps[i] = payee
    PROVE  /\ payeeIdx(ps, payee) \in 1 .. 2
           /\ 3 - payeeIdx(ps, payee) \in 1 .. 2
           /\ 3 - payeeIdx(ps, payee) # payeeIdx(ps, payee)
           /\ ps[payeeIdx(ps, payee)] = payee
<1>1. payeeIdx(ps, payee) \in DOMAIN ps /\ ps[payeeIdx(ps, payee)] = payee
  BY DEF payeeIdx, IndexOf
<1> QED
  BY <1>1

\* newUpdate takes from the payer what it gives to the payee, in the row of the
\* payment's currency, and leaves the other rows alone (payment/channel.go).
LEMMA NewUpdateMoves ==
    ASSUME OpenInv, NEW n \in Nodes, NEW p \in Payments, PaymentValid(n, p),
           NEW b \in Balances(DOMAIN currencies)
    PROVE  LET row == CurrencyIdx(p.currency)
               to == payeeIdx(parts[n], p.payee)
           IN  /\ newUpdate(n, p, b) \in Balances(DOMAIN currencies)
               /\ \A i \in DOMAIN currencies : i # row => newUpdate(n, p, b)[i] = b[i]
               /\ newUpdate(n, p, b)[row][to] = b[row][to] + Parse(p.amount)
               /\ newUpdate(n, p, b)[row][3 - to] = b[row][3 - to] - Parse(p.amount)
<1> DEFINE row == CurrencyIdx(p.currency)
           to == payeeIdx(parts[n], p.payee)
           amount == Parse(p.amount)
<1>1. row \in DOMAIN currencies
  BY CurrencyRow DEF OpenInv, PaymentValid
<1>2. to \in 1 .. 2 /\ 3 - to \in 1 .. 2 /\ 3 - to # to
  BY PayeeAndPayer DEF OpenInv, PaymentValid
<1>3. amount \in Int
  BY ParseGives DEF Payments
<1> DEFINE r == [b[row] EXCEPT ![3 - to] = @ - amount, ![to] = @ + amount]
<1>4. newUpdate(n, p, b) = [b EXCEPT ![row] = r]
  BY DEF newUpdate
<1> HIDE DEF row, to, amount
<1>5. b[row] \in [1 .. 2 -> Int]
  BY <1>1 DEF Balances
<1>6. /\ r \in [1 .. 2 -> Int]
      /\ r[to] = b[row][to] + amount
      /\ r[3 - to] = b[row][3 - to] - amount
  BY <1>2, <1>3, <1>5
<1> HIDE DEF r
<1>7. /\ newUpdate(n, p, b) \in Balances(DOMAIN currencies)
      /\ newUpdate(n, p, b)[row] = r
      /\ \A i \in DOMAIN currencies : i # row => newUpdate(n, p, b)[i] = b[i]
  BY <1>1, <1>4, <1>6 DEF Balances
<1> QED
  BY <1>6, <1>7 DEF row, to, amount

\* So that it keeps the total of every row.
LEMMA NewUpdateKeepsTotals ==
    ASSUME OpenInv, NEW n \in Nodes, NEW p \in Payments, PaymentValid(n, p),
           NEW b \in Balances(DOMAIN currencies)
    PROVE  \A i \in DOMAIN currencies : Total(newUpdate(n, p, b), i) = Total(b, i)
<1> DEFINE row == CurrencyIdx(p.currency)
           to == payeeIdx(parts[n], p.payee)
           amount == Parse(p.amount)
           c == newUpdate(n, p, b)
<1> SUFFICES ASSUME NEW i \in DOMAIN currencies
             PROVE  c[i][1] + c[i][2] = b[i][1] + b[i][2]
  BY DEF Total
<1>1. /\ i # row => c[i] = b[i]
      /\ c[row][to] = b[row][to] + amount
      /\ c[row][3 - to] = b[row][3 - to] - amount
  BY NewUpdateMoves
<1>2. to \in 1 .. 2
  BY PayeeAndPayer DEF OpenInv, PaymentValid
<1>3. amount \in Int
  BY ParseGives DEF Payments
<1>4. i = row => b[row][1] \in Int /\ b[row][2] \in Int
  BY DEF Balances
<1> HIDE DEF row, to, amount, c
<1>5. to = 1 \/ to = 2
  BY <1>2
<1> QED
  BY <1>1, <1>3, <1>4, <1>5

\* The loop over the payments of an update computes one state after the other:
\* the function that Updated defines by recursion exists.
LEMMA UpdatesChain ==
    ASSUME NEW n, NEW ps, Len(ps) \in Nat
    PROVE  \E f : /\ f = [k \in 0 .. Len(ps) |->
                          IF k = 0 THEN bals ELSE newUpdate(n, ps[k], f[k - 1])]
                  /\ Updated(n, ps) = f[Len(ps)]
<1> DEFINE Chain(m, f) == f = [k \in 0 .. m |->
                              IF k = 0 THEN bals ELSE newUpdate(n, ps[k], f[k - 1])]
           T == {m \in Nat : \A f : ~Chain(m, f)}
<1>1. T = {}
  <2> SUFFICES ASSUME T # {} PROVE FALSE
    OBVIOUS
  <2>1. PICK m \in T : \A y \in T : m <= y
    BY LeastNumber
  <2>2. m # 0
    <3> DEFINE g == [k \in 0 .. 0 |-> bals]
    <3>1. Chain(0, g)
      OBVIOUS
    <3> QED
      BY <3>1
  <2>3. m - 1 \in Nat /\ m - 1 \notin T
    <3>1. m \in Nat
      OBVIOUS
    <3> HIDE DEF T
    <3> QED
      BY <2>1, <2>2, <3>1
  <2>4. PICK f : Chain(m - 1, f)
    BY <2>3
  <2> DEFINE g == [k \in 0 .. m |-> IF k = m THEN newUpdate(n, ps[m], f[m - 1]) ELSE f[k]]
  <2>5. \A k \in 0 .. m - 1 : g[k] = f[k]
    BY <2>3
  <2>6. \A k \in 0 .. m :
          g[k] = IF k = 0 THEN bals ELSE newUpdate(n, ps[k], g[k - 1])
    <3> SUFFICES ASSUME NEW k \in 0 .. m
                 PROVE  g[k] = IF k = 0 THEN bals ELSE newUpdate(n, ps[k], g[k - 1])
      OBVIOUS
    <3>1. CASE k = m
      BY <3>1, <2>2, <2>3, <2>5
    <3>2. CASE k # m
      <4>1. k \in 0 .. m - 1 /\ (k # 0 => k - 1 \in 0 .. m - 1)
        BY <3>2
      <4>2. f[k] = IF k = 0 THEN bals ELSE newUpdate(n, ps[k], f[k - 1])
        BY <4>1, <2>4
      <4> QED
        BY <4>1, <4>2, <2>5
    <3> QED
      BY <3>1, <3>2
  <2>7. Chain(m, g)
    BY <2>6
  <2> QED
    BY <2>7
<1>2. PICK f : Chain(Len(ps), f)
  BY <1>1
<1> DEFINE h == CHOOSE g : Chain(Len(ps), g)
<1>3. Chain(Len(ps), h)
  BY <1>2
<1>4. Updated(n, ps) = h[Len(ps)]
  BY DEF Updated
<1> QED
  BY <1>3, <1>4

\* All payments of an update together keep the total of every row: by induction
\* over the payments, the balances after each of them do.
LEMMA UpdatedKeepsTotals ==
    ASSUME OpenInv, NEW n \in Nodes, NEW ps \in Lists(Payments, 1 .. MaxPayments),
           \A k \in DOMAIN ps : PaymentValid(n, ps[k])
    PROVE  /\ Updated(n, ps) \in Balances(DOMAIN currencies)
           /\ \A i \in DOMAIN currencies : Total(Updated(n, ps), i) = Total(bals, i)
<1> DEFINE Kept(b) == /\ b \in Balances(DOMAIN currencies)
                      /\ \A i \in DOMAIN currencies : Total(b, i) = Total(bals, i)
<1>1. Len(ps) \in Nat /\ ps \in [1 .. Len(ps) -> Payments] /\ DOMAIN ps = 1 .. Len(ps)
  <2>1. 1 .. MaxPayments \in SUBSET Nat
    OBVIOUS
  <2> QED
    BY <2>1, ListHasLength
<1>2. PICK f : /\ f = [k \in 0 .. Len(ps) |->
                        IF k = 0 THEN bals ELSE newUpdate(n, ps[k], f[k - 1])]
               /\ Updated(n, ps) = f[Len(ps)]
  BY <1>1, UpdatesChain
<1>3. \A k \in 0 .. Len(ps) :
        f[k] = IF k = 0 THEN bals ELSE newUpdate(n, ps[k], f[k - 1])
  BY <1>2
<1>4. Kept(bals)
  BY DEF OpenInv, Balances
<1>5. ASSUME NEW k \in 1 .. Len(ps), Kept(f[k - 1])
      PROVE  Kept(f[k])
  <2>1. ps[k] \in Payments /\ PaymentValid(n, ps[k])
    BY <1>1
  <2>2. f[k] = newUpdate(n, ps[k], f[k - 1])
    BY <1>1, <1>3
  <2>3. newUpdate(n, ps[k], f[k - 1]) \in Balances(DOMAIN currencies)
    BY <1>5, <2>1, NewUpdateMoves
  <2>4. \A i \in DOMAIN currencies :
          Total(newUpdate(n, ps[k], f[k - 1]), i) = Total(f[k - 1], i)
    BY <1>5, <2>1, NewUpdateKeepsTotals
  <2> QED
    BY <1>5, <2>2, <2>3, <2>4
<1> DEFINE T == {k \in 0 .. Len(ps) : ~Kept(f[k])}
<1> HIDE DEF Kept
<1>6. T = {}
  <2> SUFFICES ASSUME T # {} PROVE FALSE
    OBVIOUS
  <2>1. T \in SUBSET Nat
    BY <1>1
  <2>2. PICK m \in T : \A y \in T : m <= y
    BY <2>1, LeastNumber
  <2>3. m # 0
    BY <1>1, <1>3, <1>4
  <2>4. m \in 1 .. Len(ps) /\ m - 1 \in 0 .. Len(ps) /\ ~(m <= m - 1)
    BY <2>3, <1>1
  <2>5. Kept(f[m - 1])
    BY <2>2, <2>4
  <2> QED
    BY <1>5, <2>4, <2>5
<1>7. Kept(f[Len(ps)])
  BY <1>1, <1>6
<1> QED
  BY <1>2, <1>7 DEF Kept

----------------------------------------------------------------------------
(* Opening. *)

\* The proposal that OpenCh makes of a BalInfo it does not refuse: two different
\* participants, and for each of them, in either place, the balances that were
\* asked for (session.go, sanitizeBalInfo).
LEMMA SanitizedAsAsked ==
    ASSUME NEW b \in BalInfos,
           PartsKnown(sanitizeBalInfo(b).parts),
           ProposalValid(sanitizeBalInfo(b))
    PROVE  LET s == sanitizeBalInfo(b)
           IN  /\ s.currencies = b.currencies
               /\ s.parts \in [1 .. 2 -> {Self, Peer}] /\ s.parts[1] # s.parts[2]
               /\ DOMAIN s.bals = DOMAIN b.bals
               /\ \A i \in DOMAIN s.bals : s.bals[i] \in [1 .. 2 -> OpeningAmounts]
               /\ \/ \A j \in 1 .. 2 :
                        /\ s.parts[j] = b.parts[j]
                        /\ \A i \in DOMAIN s.bals : s.bals[i][j] = b.bals[i][j]
                  \/ \A j \in 1 .. 2 :
                        /\ s.parts[3 - j] = b.parts[j]
                        /\ \A i \in DOMAIN s.bals : s.bals[i][3 - j] = b.bals[i][j]
<1> DEFINE s == sanitizeBalInfo(b)
           own == OwnIdx(b.parts)
<1>1. /\ b.parts \in Lists({Self, Peer, Stranger}, 0 .. MaxParts)
      /\ b.bals \in Lists(Lists(OpeningAmounts, 1 .. 2), 1 .. 2)
      /\ b = [currencies |-> b.currencies, parts |-> b.parts, bals |-> b.bals]
  BY DEF BalInfos
<1>2. /\ b.parts \in [1 .. Len(b.parts) -> {Self, Peer, Stranger}] /\ Len(b.parts) \in Nat
      /\ \A i \in DOMAIN b.bals : b.bals[i] \in Lists(OpeningAmounts, 1 .. 2)
  <2>1. 0 .. MaxParts \in SUBSET Nat
    OBVIOUS
  <2>2. b.parts \in [1 .. Len(b.parts) -> {Self, Peer, Stranger}] /\ Len(b.parts) \in Nat
    BY <1>1, <2>1, ListHasLength
  <2>3. PICK m \in 1 .. 2 : b.bals \in [1 .. m -> Lists(OpeningAmounts, 1 .. 2)]
    BY <1>1 DEF Lists
  <2> QED
    BY <2>2, <2>3
<1>3. \A i \in DOMAIN b.bals : /\ DOMAIN b.bals[i] = 1 .. Len(b.bals[i])
                               /\ Len(b.bals[i]) \in 1 .. 2
                               /\ b.bals[i] \in [1 .. Len(b.bals[i]) -> OpeningAmounts]
  <2>1. 1 .. 2 \in SUBSET Nat
    OBVIOUS
  <2> QED
    BY <1>2, <2>1, ListHasLength
<1>4. CASE own = 1
  <2>1. s = b
    BY <1>4 DEF sanitizeBalInfo
  <2>2. Len(b.parts) = 2 /\ \A i \in DOMAIN b.bals : Len(b.bals[i]) = 2
    BY <2>1 DEF ProposalValid
  <2>3. s.parts \in [1 .. 2 -> {Self, Peer}] /\ s.parts[1] # s.parts[2]
    BY <1>2, <2>1, <2>2 DEF PartsKnown
  <2>4. \A i \in DOMAIN s.bals : s.bals[i] \in [1 .. 2 -> OpeningAmounts]
    BY <1>3, <2>1, <2>2
  <2> QED
    BY <2>1, <2>3, <2>4
<1>5. CASE own # 1
  <2>1. /\ s.currencies = b.currencies
        /\ s.parts = SwapFirst(b.parts, own)
        /\ s.bals = [i \in DOMAIN b.bals |-> SwapFirst(b.bals[i], own)]
    BY <1>1, <1>5 DEF sanitizeBalInfo
  <2>2. DOMAIN s.parts = DOMAIN b.parts
    BY <2>1 DEF SwapFirst
  <2>3. Len(b.parts) = 2
    BY <1>2, <2>2 DEF ProposalValid
  <2>4. own = 2
    BY <1>2, <1>5, <2>3 DEF OwnIdx
  <2> HIDE DEF own
  <2>5. /\ s.parts \in [1 .. 2 -> {Self, Peer, Stranger}]
        /\ s.parts[1] = b.parts[2] /\ s.parts[2] = b.parts[1]
    BY <1>2, <2>1, <2>3, <2>4 DEF SwapFirst
  <2>6. s.parts \in [1 .. 2 -> {Self, Peer}] /\ s.parts[1] # s.parts[2]
    BY <2>5 DEF PartsKnown
  <2>7. ASSUME NEW i \in DOMAIN b.bals
        PROVE  /\ s.bals[i] \in [1 .. 2 -> OpeningAmounts]
               /\ s.bals[i][1] = b.bals[i][2] /\ s.bals[i][2] = b.bals[i][1]
    <3>1. s.bals[i] = SwapFirst(b.bals[i], 2)
      BY <2>1, <2>4
    <3>2. DOMAIN s.bals[i] = DOMAIN b.bals[i] /\ Len(s.bals[i]) = 2
      BY <2>1, <3>1 DEF SwapFirst, ProposalValid
    <3>3. Len(b.bals[i]) = 2
      BY <1>3, <3>2
    <3> QED
      BY <1>3, <3>1, <3>3 DEF SwapFirst
  <2>8. DOMAIN s.bals = DOMAIN b.bals
    BY <2>1
  <2>9. \A j \in 1 .. 2 :
          /\ s.parts[3 - j] = b.parts[j]
          /\ \A i \in DOMAIN s.bals : s.bals[i][3 - j] = b.bals[i][j]
    BY <2>5, <2>7, <2>8
  <2> QED
    BY <2>1, <2>6, <2>7, <2>8, <2>9
<1> QED
  BY <1>4, <1>5

\* OpenCh, when it opens a channel: its state is the proposal, with the amounts
\* parsed.
LEMMA OpenedAsAsked ==
    ASSUME asked \in BalInfos, stage = "new", stage' = "open",
           NEW peerAccepts \in BOOLEAN, OpenCh(peerAccepts)
    PROVE  /\ OpenInv'
           /\ DOMAIN bals' = DOMAIN asked.bals
           /\ \/ \A j \in 1 .. 2 :
                    /\ parts'["proposer"][j] = asked.parts[j]
                    /\ \A i \in DOMAIN bals' : bals'[i][j] = Parse(asked.bals[i][j])
              \/ \A j \in 1 .. 2 :
                    /\ parts'["proposer"][3 - j] = asked.parts[j]
                    /\ \A i \in DOMAIN bals' : bals'[i][3 - j] = Parse(asked.bals[i][j])
<1> DEFINE b == sanitizeBalInfo(asked)
<1>1. /\ PartsKnown(b.parts) /\ AllocationMade(b) /\ ProposalValid(b)
      /\ currencies' = b.currencies
      /\ parts' = [n \in Nodes |-> IF n = "proposer" THEN b.parts ELSE <<Peer, Self>>]
      /\ bals' = [i \in DOMAIN b.bals |->
                    [j \in DOMAIN b.bals[i] |-> Parse(b.bals[i][j])]]
  BY DEF OpenCh
<1>2. /\ b.currencies = asked.currencies
      /\ b.parts \in [1 .. 2 -> {Self, Peer}] /\ b.parts[1] # b.parts[2]
      /\ DOMAIN b.bals = DOMAIN asked.bals
      /\ \A i \in DOMAIN b.bals : b.bals[i] \in [1 .. 2 -> OpeningAmounts]
      /\ \/ \A j \in 1 .. 2 :
               /\ b.parts[j] = asked.parts[j]
               /\ \A i \in DOMAIN b.bals : b.bals[i][j] = asked.bals[i][j]
         \/ \A j \in 1 .. 2 :
               /\ b.parts[3 - j] = asked.parts[j]
               /\ \A i \in DOMAIN b.bals : b.bals[i][3 - j] = asked.bals[i][j]
  BY <1>1, SanitizedAsAsked
<1> HIDE DEF b
<1>3. /\ DOMAIN bals' = DOMAIN b.bals
      /\ \A i \in DOMAIN b.bals, j \in 1 .. 2 : bals'[i][j] = Parse(b.bals[i][j])
  BY <1>1, <1>2
<1>4. /\ parts'["proposer"] = b.parts /\ parts'["proposee"] = <<Peer, Self>>
      /\ \A n \in Nodes : parts'[n] \in [1 .. 2 -> {Self, Peer}] /\ parts'[n][1] # parts'[n][2]
  BY <1>1, <1>2 DEF Nodes
<1>5. /\ currencies' \in Lists(Registered, 1 .. 2)
      /\ DOMAIN currencies' = DOMAIN b.bals
  <2>1. /\ asked.currencies \in Lists(Symbols, 1 .. 2)
        /\ asked.bals \in Lists(Lists(OpeningAmounts, 1 .. 2), 1 .. 2)
    BY DEF BalInfos
  <2>2. PICK m \in 1 .. 2 : asked.currencies \in [1 .. m -> Symbols]
    BY <2>1 DEF Lists
  <2>3. currencies' \in [1 .. m -> Registered]
    BY <1>1, <1>2, <2>2 DEF AllocationMade
  <2>4. PICK k \in 1 .. 2 : DOMAIN asked.bals = 1 .. k
    BY <2>1 DEF Lists
  <2>5. Len(b.currencies) = m /\ Len(b.bals) = k
    BY <1>2, <2>2, <2>4
  <2>6. m = k
    BY <1>1, <2>5 DEF AllocationMade
  <2> QED
    BY <1>2, <2>3, <2>4, <2>6 DEF Lists
<1>6. bals' \in [DOMAIN currencies' -> [1 .. 2 -> Nat]]
  <2>1. \A i \in DOMAIN b.bals, j \in 1 .. 2 : Parse(b.bals[i][j]) \in Nat
    <3> SUFFICES ASSUME NEW i \in DOMAIN b.bals, NEW j \in 1 .. 2
                 PROVE  Parse(b.bals[i][j]) \in Nat
      OBVIOUS
    <3>1. b.bals[i][j] \in Int /\ Parses(b.bals[i][j])
      BY <1>1, <1>2, <1>5 DEF AllocationMade
    <3> QED
      BY <3>1, ParseGives
  <2> QED
    BY <1>1, <1>2, <1>5, <2>1
<1> QED
  BY <1>2, <1>3, <1>4, <1>5, <1>6 DEF OpenInv

----------------------------------------------------------------------------
(* The channel, from OpenCh on. *)

\* OpenCh has been called with some BalInfo.
LEMMA PaymentInit == Init => PaymentInv
  BY DEF Init, PaymentInv, FundsConserved

\* Opening the channel and every update of it keep the totals.
LEMMA PaymentStep == PaymentInv /\ [Next]_vars => PaymentInv'
<1> SUFFICES ASSUME PaymentInv, [Next]_vars PROVE PaymentInv'
  OBVIOUS
<1>1. ASSUME NEW peerAccepts \in BOOLEAN, OpenCh(peerAccepts)
      PROVE  PaymentInv'
  <2>1. stage' \in {"open", "refused"} /\ asked' = asked /\ stage = "new"
    BY <1>1 DEF OpenCh
  <2>2. CASE stage' = "open"
    <3>1. asked \in BalInfos
      BY DEF PaymentInv
    <3>2. /\ OpenInv'
          /\ DOMAIN bals' = DOMAIN asked.bals
          /\ \/ \A j \in 1 .. 2 : \A i \in DOMAIN bals' :
                   bals'[i][j] = Parse(asked.bals[i][j])
             \/ \A j \in 1 .. 2 : \A i \in DOMAIN bals' :
                   bals'[i][3 - j] = Parse(asked.bals[i][j])
      BY <1>1, <2>1, <2>2, <3>1, OpenedAsAsked
    <3>3. ASSUME NEW i \in DOMAIN bals'
          PROVE  bals'[i][1] + bals'[i][2]
                   = Parse(asked.bals[i][1]) + Parse(asked.bals[i][2])
      <4>1. bals'[i] \in [1 .. 2 -> Nat]
        BY <3>2 DEF OpenInv
      <4>2. \/ /\ bals'[i][1] = Parse(asked.bals[i][1])
               /\ bals'[i][2] = Parse(asked.bals[i][2])
            \/ /\ bals'[i][2] = Parse(asked.bals[i][1])
               /\ bals'[i][1] = Parse(asked.bals[i][2])
        BY <3>2
      <4> QED
        BY <4>1, <4>2
    <3> QED
      BY <2>1, <2>2, <3>1, <3>2, <3>3 DEF PaymentInv, FundsConserved, Total
  <2>3. CASE stage' = "refused"
    BY <2>1, <2>3 DEF PaymentInv, FundsConserved
  <2> QED
    BY <2>1, <2>2, <2>3
<1>2. CASE OpenChPanics
  BY <1>2 DEF OpenChPanics, PaymentInv, FundsConserved
<1>3. ASSUME NEW n \in Nodes, NEW ps \in Lists(Payments, 1 .. MaxPayments),
             SendPayChUpdate(n, ps)
      PROVE  PaymentInv'
  <2>1. /\ stage = "open" /\ OpenInv /\ bals' = Updated(n, ps)
        /\ \A k \in DOMAIN ps : PaymentValid(n, ps[k])
        /\ StateValid(Updated(n, ps))
        /\ UNCHANGED <<stage, asked, currencies, parts>>
    BY <1>3 DEF SendPayChUpdate, PaymentInv
  <2>2. /\ bals' \in Balances(DOMAIN currencies)
        /\ \A i \in DOMAIN currencies : Total(bals', i) = Total(bals, i)
    BY <2>1, UpdatedKeepsTotals
  <2>3. bals' \in [DOMAIN currencies -> [1 .. 2 -> Nat]]
    BY <2>1, <2>2 DEF StateValid, Balances
  <2>4. OpenInv'
    BY <2>1, <2>3 DEF OpenInv
  <2>5. FundsConserved'
    BY <2>1, <2>2 DEF PaymentInv, FundsConserved, OpenInv, Balances
  <2> QED
    BY <2>1, <2>4, <2>5 DEF PaymentInv
<1>4. CASE UNCHANGED vars
  BY <1>4 DEF vars, PaymentInv, OpenInv, FundsConserved, Total
<1> QED
  BY <1>1, <1>2, <1>3, <1>4 DEF Next

\* Types and totals, in every state.
LEMMA PaymentInvariant == Spec => []PaymentInv
  BY PaymentInit, PaymentStep, PTL DEF Spec

\* Type correctness: in particular no balance of an open channel is negative.
THEOREM PaymentTypeCorrect == Spec => []TypeOK
<1>1. PaymentInv => TypeOK
  <2> SUFFICES ASSUME PaymentInv PROVE TypeOK
    OBVIOUS
  <2>1. stage = "open" => DOMAIN currencies = 1 .. Len(currencies)
    BY DEF PaymentInv, OpenInv, Lists
  <2> QED
    BY <2>1 DEF PaymentInv, OpenInv, TypeOK
<1> QED
  BY <1>1, PaymentInvariant, PTL

\* Whatever is paid, in however many payments per update and by whichever node,
\* the total of each currency stays what OpenCh was asked to put in
\* (app/payment/channel.go, newUpdate).
THEOREM FundsAreConserved == Spec => []FundsConserved
<1>1. PaymentInv => FundsConserved
  BY DEF PaymentInv
<1> QED
  BY <1>1, PaymentInvariant, PTL

\* sanitizeBalInfo rearranges participants and balances alike: each participant
\* starts with what the user named for it (session.go, OpenCh).
THEOREM OpensWhatWasAsked == Spec => OpensAsAsked
<1>1. PaymentInv /\ [Next]_vars =>
        [stage = "new" /\ stage' = "open" =>
           \A i \in DOMAIN bals' : \A j \in 1 .. 2 :
              \E k \in 1 .. 2 :
                 /\ parts'["proposer"][k] = asked.parts[j]
                 /\ bals'[i][k] = Parse(asked.bals[i][j])]_vars
  <2> SUFFICES ASSUME PaymentInv, Next, stage = "new", stage' = "open",
                      NEW i \in DOMAIN bals', NEW j \in 1 .. 2
               PROVE  \E k \in 1 .. 2 :
                         /\ parts'["proposer"][k] = asked.parts[j]
                         /\ bals'[i][k] = Parse(asked.bals[i][j])
    OBVIOUS
  <2>1. PICK peerAccepts \in BOOLEAN : OpenCh(peerAccepts)
    BY DEF Next, OpenChPanics, SendPayChUpdate
  <2>2. \/ /\ parts'["proposer"][j] = asked.parts[j]
           /\ bals'[i][j] = Parse(asked.bals[i][j])
        \/ /\ parts'["proposer"][3 - j] = asked.parts[j]
           /\ bals'[i][3 - j] = Parse(asked.bals[i][j])
    BY <2>1, OpenedAsAsked DEF PaymentInv
  <2>3. 3 - j \in 1 .. 2
    OBVIOUS
  <2> QED
    BY <2>2, <2>3
<1> QED
  BY <1>1, PaymentInvariant, PTL DEF Spec, OpensAsAsked

\* A payment to oneself is a request for money and a payment to the peer gives
\* some, whichever node makes it and in whichever order it lists the two
\* participants (app/payment/channel.go, getPayerPayeeIdx).
THEOREM PayeeIsPaid == Spec => PayeeGains
<1> DEFINE A == \A n \in Nodes, p \in Payments :
        (stage = "open" /\ SendPayChUpdate(n, <<p>>)) =>
            LET me == IndexOf(parts[n], Self)
                row == CurrencyIdx(p.currency)
            IN  IF p.payee = Self THEN bals'[row][me] > bals[row][me]
                                  ELSE bals'[row][me] < bals[row][me]
<1>1. PaymentInv => A
  <2> SUFFICES ASSUME PaymentInv, NEW n \in Nodes, NEW p \in Payments,
                      stage = "open", SendPayChUpdate(n, <<p>>)
               PROVE  LET me == IndexOf(parts[n], Self)
                          row == CurrencyIdx(p.currency)
                      IN  IF p.payee = Self THEN bals'[row][me] > bals[row][me]
                                            ELSE bals'[row][me] < bals[row][me]
    OBVIOUS
  <2> DEFINE me == IndexOf(parts[n], Self)
             row == CurrencyIdx(p.currency)
             to == payeeIdx(parts[n], p.payee)
             amount == Parse(p.amount)
  <2>1. OpenInv /\ PaymentValid(n, p) /\ bals' = Updated(n, <<p>>)
    BY DEF PaymentInv, SendPayChUpdate
  <2>2. bals' = newUpdate(n, p, bals)
    <3> DEFINE ps == <<p>>
    <3>1. Len(ps) = 1 /\ ps[1] = p
      OBVIOUS
    <3>2. PICK f : /\ f = [k \in 0 .. Len(ps) |->
                           IF k = 0 THEN bals ELSE newUpdate(n, ps[k], f[k - 1])]
                   /\ Updated(n, ps) = f[Len(ps)]
      BY <3>1, UpdatesChain
    <3> HIDE DEF ps
    <3>3. f[0] = bals /\ f[1] = newUpdate(n, ps[1], f[0])
      BY <3>1, <3>2
    <3> QED
      BY <2>1, <3>1, <3>2, <3>3 DEF ps
  <2>3. bals \in Balances(DOMAIN currencies)
    BY <2>1 DEF OpenInv, Balances
  <2>4. /\ bals'[row][to] = bals[row][to] + amount
        /\ bals'[row][3 - to] = bals[row][3 - to] - amount
    BY <2>1, <2>2, <2>3, NewUpdateMoves
  <2>5. amount \in Int /\ amount >= 1
    BY <2>1, ParseGives DEF PaymentValid, Payments
  <2>6. /\ parts[n] \in [1 .. 2 -> {Self, Peer}] /\ parts[n][1] # parts[n][2]
        /\ \E i \in DOMAIN parts[n] : parts[n][i] = p.payee
    BY <2>1 DEF OpenInv, PaymentValid
  <2>7. to \in 1 .. 2 /\ parts[n][to] = p.payee
    BY <2>6, PayeeAndPayer
  <2>8. me \in 1 .. 2 /\ parts[n][me] = Self
    <3>1. \E i \in DOMAIN parts[n] : parts[n][i] = Self
      BY <2>6
    <3> QED
      BY <2>6, <3>1 DEF IndexOf
  <2>9. row \in DOMAIN currencies
    BY <2>1, CurrencyRow DEF OpenInv, PaymentValid
  <2>10. bals[row] \in [1 .. 2 -> Int]
    BY <2>3, <2>9 DEF Balances
  <2> HIDE DEF me, row, to, amount
  <2>11. CASE p.payee = Self
    <3>1. me = to
      BY <2>6, <2>7, <2>8, <2>11
    <3>2. bals'[row][me] > bals[row][me]
      BY <2>4, <2>5, <2>7, <2>10, <3>1
    <3> QED
      BY <2>11, <3>2 DEF me, row
  <2>12. CASE p.payee # Self
    <3>1. me = 3 - to
      BY <2>6, <2>7, <2>8, <2>12
    <3>2. bals'[row][me] < bals[row][me]
      BY <2>4, <2>5, <2>8, <2>10, <3>1
    <3> QED
      BY <2>12, <3>2 DEF me, row
  <2> QED
    BY <2>11, <2>12
<1>2. PaymentInv /\ [Next]_vars => [A]_vars
  BY <1>1
<1> HIDE DEF A
<1>3. Spec => [][A]_vars
  BY <1>2, PaymentInvariant, PTL DEF Spec
<1> QED
  BY <1>3 DEF A, PayeeGains
=============================================================================
