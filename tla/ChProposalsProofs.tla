------------------------- MODULE ChProposalsProofs -------------------------
(***************************************************************************)
(* Proofs about ChProposals: who calls the responder of a proposal, and    *)
(* where its notification is, for any set of proposals, any response       *)
(* timeout and any number of subscriptions.                                *)
(***************************************************************************)
EXTENDS ChProposals, SequenceTheorems, TLAPS

USE ChProposalsAssumption DEF ChProposalsAssumption

\* Only proposals with known currencies get as far as the mutex: the others end
\* the process before (session.go:660-672).
CurrenciesInv ==
    \A p \in Proposals :
        /\ stage[p] = "handled" => p \in KnownCurrencies
        /\ stage[p] = "handling" /\ ~crashed => p \in KnownCurrencies

\* What was not rejected on arrival was not called for yet, until RespondChProposal
\* has taken the entry out of the map and made the one call.
CallsInv ==
    \A p \in Proposals :
        /\ expiry[p] # 0 => p \in KnownPeers
        /\ stage[p] \in {"new", "dropped"} => calls[p] = 0
        /\ stage[p] = "handling" => calls[p] =
              (IF p \in KnownPeers THEN 0 ELSE 1) + (IF p \in KnownCurrencies THEN 0 ELSE 1)
        /\ stage[p] = "handling" /\ p \notin KnownPeers => expiry[p] = 0
        /\ stage[p] = "handled" => calls[p] \in {0, 1}

\* An entry of the map and an answer in progress are one or the other, are for
\* a proposal that was taken in, and exclude any earlier call.
AnswersInv ==
    /\ responders \cap answering = {}
    /\ accepted \subseteq KnownPeers
    /\ \A p \in responders \cup answering :
          stage[p] = "handled" /\ p \in KnownPeers /\ calls[p] = 0

\* The last notifier is the one in use, and notifications are for proposals
\* that were taken in.
NotesInv ==
    /\ sub \in {0, nsubs}
    /\ \A p \in Proposals : Cached(p) \/ Bound(p) \/ Notified(p) => stage[p] = "handled"
    /\ NotificationAccounted

ProposalsInv == TypeOK /\ CurrenciesInv /\ CallsInv /\ AnswersInv /\ NotesInv

----------------------------------------------------------------------------
\* append puts one notification at the end of chProposalNotifsCache and keeps
\* the others (session.go:684).
LEMMA CacheGrows ==
    ASSUME cache \in Seq(Proposals), NEW p \in Proposals, cache' = Append(cache, p)
    PROVE  /\ cache' \in Seq(Proposals)
           /\ \A q : Cached(q)' <=> Cached(q) \/ q = p
<1>1. /\ cache' \in Seq(Proposals) /\ Len(cache') = Len(cache) + 1
      /\ \A i \in 1 .. Len(cache) : cache'[i] = cache[i]
      /\ cache'[Len(cache) + 1] = p
  BY AppendProperties
<1>2. Len(cache) \in Nat
  BY LenProperties
<1>3. 1 .. Len(cache') = (1 .. Len(cache)) \cup {Len(cache) + 1}
  BY <1>1, <1>2
<1> QED
  BY <1>1, <1>2, <1>3 DEF Cached

\* The loop of SubChProposals sends each cached notification (session.go:766-770).
LEMMA CacheIsSent ==
    ASSUME cache \in Seq(Proposals)
    PROVE  CacheToSend \subseteq Proposals /\ \A q : q \in CacheToSend <=> Cached(q)
  BY ElementOfSeq, LenProperties DEF CacheToSend, Cached

\* A new session has no proposals.
LEMMA ProposalsInit == Init => ProposalsInv
<1> SUFFICES ASSUME Init PROVE ProposalsInv
  OBVIOUS
<1> USE DEF Init
<1>1. TypeOK
  <2>1. cache \in Seq(Proposals) /\ now \in 0 .. MaxTime
    OBVIOUS
  <2>2. sub \in 0 .. MaxSubs /\ nsubs \in 0 .. MaxSubs
    OBVIOUS
  <2>3. /\ bound \subseteq (1 .. MaxSubs) \X Proposals
        /\ shown \subseteq (1 .. MaxSubs) \X Proposals
    OBVIOUS
  <2>4. isOpen \in BOOLEAN /\ crashed \in BOOLEAN
    OBVIOUS
  <2>5. /\ stage \in [Proposals -> {"new", "handling", "handled", "dropped"}]
        /\ expiry \in [Proposals -> Nat] /\ calls \in [Proposals -> Nat]
    OBVIOUS
  <2> QED
    BY <2>1, <2>2, <2>3, <2>4, <2>5 DEF TypeOK
<1>2. CurrenciesInv /\ CallsInv /\ AnswersInv
  BY DEF CurrenciesInv, CallsInv, AnswersInv
<1>3. NotesInv
  BY DEF NotesInv, NotificationAccounted, Cached, Bound, Notified
<1> QED
  BY <1>1, <1>2, <1>3 DEF ProposalsInv

\* Every step keeps each proposal with one caller of its responder and its
\* notification in one place.
LEMMA ProposalsStep == ProposalsInv /\ [Next]_vars => ProposalsInv'
<1> SUFFICES ASSUME ProposalsInv, [Next]_vars
             PROVE  ProposalsInv'
  OBVIOUS
<1> USE DEF subVars, noteVars, answerVars
<1>i. TypeOK /\ CurrenciesInv /\ CallsInv /\ AnswersInv /\ NotesInv
  BY DEF ProposalsInv
<1> USE <1>i
<1> SUFFICES TypeOK' /\ CurrenciesInv' /\ CallsInv' /\ AnswersInv' /\ NotesInv'
  BY DEF ProposalsInv
<1>1. CASE UNCHANGED vars
  <2> USE <1>1 DEF vars
  <2>1. TypeOK'
    BY DEF TypeOK
  <2>2. CurrenciesInv'
    BY DEF TypeOK, CurrenciesInv
  <2>3. CallsInv'
    BY DEF TypeOK, CurrenciesInv, CallsInv, AnswersInv
  <2>4. AnswersInv'
    BY DEF TypeOK, CurrenciesInv, AnswersInv, CallsInv
  <2>5. NotesInv'
    BY DEF TypeOK, NotesInv, NotificationAccounted, Cached, Bound, Notified
  <2> QED
    BY <2>1, <2>2, <2>3, <2>4, <2>5
<1>2. ASSUME NEW p \in Proposals, HandleProposal(p)
      PROVE  TypeOK' /\ CurrenciesInv' /\ CallsInv' /\ AnswersInv' /\ NotesInv'
  <2> USE <1>2 DEF HandleProposal, Expiry
  <2>1. TypeOK'
    <3>1. Expiry(p) \in Nat
      BY DEF TypeOK
    <3>2. expiry' \in [Proposals -> Nat]
      BY <3>1 DEF TypeOK
    <3>3. calls' \in [Proposals -> Nat]
      BY DEF TypeOK
    <3> QED
      BY <3>2, <3>3 DEF TypeOK
  <2>2. CurrenciesInv'
    BY DEF TypeOK, CurrenciesInv
  <2>3. CallsInv'
    BY DEF TypeOK, CurrenciesInv, CallsInv, AnswersInv
  <2>4. AnswersInv'
    BY DEF TypeOK, CurrenciesInv, AnswersInv, CallsInv
  <2>5. NotesInv'
    <3>1. ~Cached(p) /\ ~Bound(p) /\ ~Notified(p)
      BY DEF NotesInv
    <3>2. \A q \in Proposals : /\ Cached(q)' <=> Cached(q)
                               /\ Bound(q)' <=> Bound(q)
                               /\ Notified(q)' <=> Notified(q)
      BY DEF Cached, Bound, Notified
    <3> QED
      BY <3>1, <3>2 DEF NotesInv, NotificationAccounted, TypeOK
  <2> QED
    BY <2>1, <2>2, <2>3, <2>4, <2>5
<1>3. ASSUME NEW p \in Proposals, ProposalTakenIn(p)
      PROVE  TypeOK' /\ CurrenciesInv' /\ CallsInv' /\ AnswersInv' /\ NotesInv'
  <2> USE <1>3 DEF ProposalTakenIn, StoreEntry, NotifyOrCache
  <2>1. TypeOK'
    BY CacheGrows DEF TypeOK
  <2>2. CurrenciesInv'
    BY DEF TypeOK, CurrenciesInv
  <2>3. CallsInv'
    BY DEF TypeOK, CurrenciesInv, CallsInv, AnswersInv
  <2>4. AnswersInv'
    BY DEF TypeOK, CurrenciesInv, AnswersInv, CallsInv
  <2>5. NotesInv'
    <3>1. ~Cached(p) /\ ~Bound(p) /\ ~Notified(p)
      BY DEF NotesInv
    <3>2. \A q \in Proposals : Notified(q)' <=> Notified(q)
      BY DEF Notified
    <3>3. CASE sub = 0
      <4>1. \A q \in Proposals : Cached(q)' <=> Cached(q) \/ q = p
        BY <3>3, CacheGrows DEF TypeOK
      <4>2. \A q \in Proposals : Bound(q)' <=> Bound(q)
        BY <3>3 DEF Bound
      <4> QED
        BY <3>1, <3>2, <3>3, <4>1, <4>2 DEF NotesInv, NotificationAccounted, TypeOK, Bound
    <3>4. CASE sub # 0
      <4>1. \A q \in Proposals : Cached(q)' <=> Cached(q)
        BY <3>4 DEF Cached
      <4>2. \A q \in Proposals : Bound(q)' <=> Bound(q) \/ q = p
        <5>1. sub \in 1 .. MaxSubs
          BY <3>4 DEF TypeOK
        <5>2. \A q \in Proposals, s \in 1 .. MaxSubs :
                <<s, q>> \in bound' <=> <<s, q>> \in bound \/ <<s, q>> = <<sub, p>>
          BY <3>4
        <5> QED
          BY <5>1, <5>2 DEF Bound
      <4>3. \A q \in Proposals, s \in 1 .. MaxSubs :
              <<s, q>> \in bound' <=> <<s, q>> \in bound \/ (q = p /\ s = sub)
        BY <3>4 DEF TypeOK
      <4>4. \A s \in 1 .. MaxSubs : <<s, p>> \notin bound
        BY <3>1 DEF Bound
      <4> QED
        BY <3>1, <3>2, <3>4, <4>1, <4>2, <4>3, <4>4 DEF NotesInv, NotificationAccounted, TypeOK
    <3> QED
      BY <3>3, <3>4
  <2> QED
    BY <2>1, <2>2, <2>3, <2>4, <2>5
<1>4. ASSUME NEW p \in Proposals, RespondChProposal(p)
      PROVE  TypeOK' /\ CurrenciesInv' /\ CallsInv' /\ AnswersInv' /\ NotesInv'
  <2> USE <1>4 DEF RespondChProposal, DeleteEntry
  <2>1. TypeOK'
    BY DEF TypeOK
  <2>2. CurrenciesInv'
    BY DEF TypeOK, CurrenciesInv
  <2>3. CallsInv'
    BY DEF TypeOK, CurrenciesInv, CallsInv, AnswersInv
  <2>4. AnswersInv'
    BY DEF TypeOK, CurrenciesInv, AnswersInv, CallsInv
  <2>5. NotesInv'
    BY DEF TypeOK, NotesInv, NotificationAccounted, Cached, Bound, Notified
  <2> QED
    BY <2>1, <2>2, <2>3, <2>4, <2>5
<1>5. ASSUME NEW p \in Proposals, NEW accept \in BOOLEAN, NEW ok \in BOOLEAN,
             Answer(p, accept, ok)
      PROVE  TypeOK' /\ CurrenciesInv' /\ CallsInv' /\ AnswersInv' /\ NotesInv'
  <2> USE <1>5 DEF Answer
  <2>1. TypeOK'
    BY DEF TypeOK
  <2>2. CurrenciesInv'
    BY DEF TypeOK, CurrenciesInv
  <2>3. CallsInv'
    BY DEF TypeOK, CurrenciesInv, CallsInv, AnswersInv
  <2>4. AnswersInv'
    BY DEF TypeOK, CurrenciesInv, AnswersInv, CallsInv
  <2>5. NotesInv'
    BY DEF TypeOK, NotesInv, NotificationAccounted, Cached, Bound, Notified
  <2> QED
    BY <2>1, <2>2, <2>3, <2>4, <2>5
<1>6. ASSUME NEW b \in bound, Deliver(b)
      PROVE  TypeOK' /\ CurrenciesInv' /\ CallsInv' /\ AnswersInv' /\ NotesInv'
  <2> USE <1>6 DEF Deliver
  <2>1. TypeOK'
    BY DEF TypeOK
  <2>2. CurrenciesInv'
    BY DEF TypeOK, CurrenciesInv
  <2>3. CallsInv'
    BY DEF TypeOK, CurrenciesInv, CallsInv, AnswersInv
  <2>4. AnswersInv'
    BY DEF TypeOK, CurrenciesInv, AnswersInv, CallsInv
  <2>5. NotesInv'
    <3>1. PICK s \in 1 .. MaxSubs, p \in Proposals : b = <<s, p>>
      BY DEF TypeOK
    <3>2. Bound(p) /\ ~Cached(p)
      BY <3>1 DEF Bound, NotesInv, NotificationAccounted
    <3>3. \A q \in Proposals : Cached(q)' <=> Cached(q)
      BY DEF Cached
    <3>4. \A q \in Proposals : Notified(q)' <=> Notified(q) \/ q = p
      BY <3>1 DEF Notified
    <3>5. ~Bound(p)'
      BY <3>1, <3>2 DEF Bound, NotesInv, NotificationAccounted
    <3>6. \A q \in Proposals \ {p} : Bound(q)' <=> Bound(q)
      BY <3>1 DEF Bound
    <3> QED
      BY <3>1, <3>2, <3>3, <3>4, <3>5, <3>6 DEF NotesInv, NotificationAccounted, TypeOK
  <2> QED
    BY <2>1, <2>2, <2>3, <2>4, <2>5
<1>7. CASE SubChProposals
  <2> USE <1>7 DEF SubChProposals
  <2>1. TypeOK'
    BY CacheIsSent DEF TypeOK
  <2>2. CurrenciesInv'
    BY DEF TypeOK, CurrenciesInv
  <2>3. CallsInv'
    BY DEF TypeOK, CurrenciesInv, CallsInv, AnswersInv
  <2>4. AnswersInv'
    BY DEF TypeOK, CurrenciesInv, AnswersInv, CallsInv
  <2>5. NotesInv'
    <3>1. \A q \in Proposals : ~Cached(q)'
      BY DEF Cached
    <3>2. \A q \in Proposals : Notified(q)' <=> Notified(q)
      BY DEF Notified
    <3>3. \A q \in Proposals, s \in 1 .. MaxSubs :
            <<s, q>> \in bound' <=> <<s, q>> \in bound \/ (Cached(q) /\ s = nsubs + 1)
      BY CacheIsSent DEF TypeOK
    <3>4. nsubs + 1 \in 1 .. MaxSubs
      BY DEF TypeOK
    <3>5. \A q \in Proposals : Bound(q)' <=> Bound(q) \/ Cached(q)
      BY <3>3, <3>4 DEF Bound
    <3>6. \A q \in Proposals : Cached(q) => \A s \in 1 .. MaxSubs : <<s, q>> \notin bound
      BY DEF NotesInv, NotificationAccounted, Bound
    <3> QED
      BY <3>1, <3>2, <3>3, <3>4, <3>5, <3>6 DEF NotesInv, NotificationAccounted, TypeOK
  <2> QED
    BY <2>1, <2>2, <2>3, <2>4, <2>5
<1>8. CASE UnsubChProposals
  <2> USE <1>8 DEF UnsubChProposals
  <2>1. TypeOK'
    BY DEF TypeOK
  <2>2. CurrenciesInv'
    BY DEF TypeOK, CurrenciesInv
  <2>3. CallsInv'
    BY DEF TypeOK, CurrenciesInv, CallsInv, AnswersInv
  <2>4. AnswersInv'
    BY DEF TypeOK, CurrenciesInv, AnswersInv, CallsInv
  <2>5. NotesInv'
    BY DEF TypeOK, NotesInv, NotificationAccounted, Cached, Bound, Notified
  <2> QED
    BY <2>1, <2>2, <2>3, <2>4, <2>5
<1>9. CASE CloseSession
  <2> USE <1>9 DEF CloseSession
  <2>1. TypeOK'
    BY DEF TypeOK
  <2>2. CurrenciesInv'
    BY DEF TypeOK, CurrenciesInv
  <2>3. CallsInv'
    BY DEF TypeOK, CurrenciesInv, CallsInv, AnswersInv
  <2>4. AnswersInv'
    BY DEF TypeOK, CurrenciesInv, AnswersInv, CallsInv
  <2>5. NotesInv'
    BY DEF TypeOK, NotesInv, NotificationAccounted, Cached, Bound, Notified
  <2> QED
    BY <2>1, <2>2, <2>3, <2>4, <2>5
<1>10. CASE Tick
  <2> USE <1>10 DEF Tick
  <2>1. TypeOK'
    BY DEF TypeOK
  <2>2. CurrenciesInv'
    BY DEF TypeOK, CurrenciesInv
  <2>3. CallsInv'
    BY DEF TypeOK, CurrenciesInv, CallsInv, AnswersInv
  <2>4. AnswersInv'
    BY DEF TypeOK, CurrenciesInv, AnswersInv, CallsInv
  <2>5. NotesInv'
    BY DEF TypeOK, NotesInv, NotificationAccounted, Cached, Bound, Notified
  <2> QED
    BY <2>1, <2>2, <2>3, <2>4, <2>5
<1>11. CASE OthersLock \/ OthersUnlock
  <2> USE <1>11 DEF OthersLock, OthersUnlock
  <2>1. TypeOK'
    BY DEF TypeOK
  <2>2. CurrenciesInv'
    BY DEF TypeOK, CurrenciesInv
  <2>3. CallsInv'
    BY DEF TypeOK, CurrenciesInv, CallsInv, AnswersInv
  <2>4. AnswersInv'
    BY DEF TypeOK, CurrenciesInv, AnswersInv, CallsInv
  <2>5. NotesInv'
    BY DEF TypeOK, NotesInv, NotificationAccounted, Cached, Bound, Notified
  <2> QED
    BY <2>1, <2>2, <2>3, <2>4, <2>5
<1> QED
  BY <1>1, <1>2, <1>3, <1>4, <1>5, <1>6, <1>7, <1>8, <1>9, <1>10, <1>11 DEF Next

\* Who calls a responder, and where a notification is, in every state.
LEMMA ProposalsInvariant == Spec => []ProposalsInv
  BY ProposalsInit, ProposalsStep, PTL DEF Spec

\* Type correctness: in particular a notification goroutine always carries a
\* notifier that SubChProposals has installed, never nil.
THEOREM ProposalsTypeCorrect == Spec => []TypeOK
<1>1. ProposalsInv => TypeOK
  BY DEF ProposalsInv
<1> QED
  BY <1>1, ProposalsInvariant, PTL

\* The node and the user never both call the responder of a proposal, and two
\* RespondChProposal calls never both do: the entry leaves the map in the critical
\* section that found it (session.go:836-844).  Only the handler calls it twice, and
\* then it panics: what it survives has known currencies.
THEOREM ResponderOnce == Spec => []ResponderCalledOnce
<1>1. ProposalsInv => ResponderCalledOnce
  <2> SUFFICES ASSUME ProposalsInv, NEW p \in Proposals
               PROVE  \/ calls[p] + (IF p \in answering THEN 1 ELSE 0) <= 1
                      \/ crashed /\ p \notin KnownPeers \cup KnownCurrencies
    BY DEF ResponderCalledOnce
  <2>1. p \in answering => calls[p] = 0
    BY DEF ProposalsInv, AnswersInv
  <2>2. calls[p] \in {0, 1} \/ (stage[p] = "handling" /\ p \notin KnownPeers \cup KnownCurrencies)
    BY DEF ProposalsInv, TypeOK, CallsInv
  <2>3. stage[p] = "handling" /\ p \notin KnownCurrencies => crashed
    BY DEF ProposalsInv, CurrenciesInv
  <2> QED
    BY <2>1, <2>2, <2>3
<1> QED
  BY <1>1, ProposalsInvariant, PTL

\* The user is notified of a proposal that the node has rejected for an unknown
\* peer, but cannot accept it: no entry is stored for it (session.go:679).
THEOREM UnknownPeersRefused == Spec => []UnknownPeerNeverAccepted
<1>1. ProposalsInv => UnknownPeerNeverAccepted
  BY DEF ProposalsInv, AnswersInv, UnknownPeerNeverAccepted
<1> QED
  BY <1>1, ProposalsInvariant, PTL

\* HandleProposal and SubChProposals lose no notification between them, and
\* send none twice (session.go:683-689 and 766-770).
THEOREM NotificationsAccounted == Spec => []NotificationAccounted
<1>1. ProposalsInv => NotificationAccounted
  BY DEF ProposalsInv, NotesInv
<1> QED
  BY <1>1, ProposalsInvariant, PTL
=============================================================================
