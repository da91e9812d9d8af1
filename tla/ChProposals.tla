---------------------------- MODULE ChProposals ----------------------------
(***************************************************************************)
(* Incoming channel proposals of a session: HandleProposal, SubChProposals, *)
(* UnsubChProposals and RespondChProposal of session/session.go.           *)
(*                                                                         *)
(* HandleProposal looks at isOpen, the peers and the currencies before it  *)
(* takes the session's mutex; RespondChProposal looks at isOpen before it  *)
(* takes the mutex, and holds it only to take the entry out of             *)
(* chProposalResponders, so that an answer is in progress with the mutex   *)
(* free.  What the session's other methods (Session) do is here that they  *)
(* have the mutex for a while, or for good.                                *)
(***************************************************************************)
EXTENDS Naturals, Sequences

CONSTANTS
    Proposals,        \* incoming proposals; their IDs are unique
    KnownPeers,       \* the ones whose participants are all in the ID provider
    KnownCurrencies,  \* the ones whose assets are all registered
    ResponseTimeout,  \* timeoutConfig.response, in ticks
    MaxTime,          \* bound: the clock stops here
    MaxSubs           \* bound: number of successful SubChProposals calls

ASSUME ChProposalsAssumption ==
    /\ KnownPeers \subseteq Proposals
    /\ KnownCurrencies \subseteq Proposals
    /\ ResponseTimeout \in Nat
    /\ MaxTime \in Nat \ {0}
    /\ MaxSubs \in Nat

VARIABLES
    isOpen,      \* s.isOpen
    slock,       \* the session's mutex: "free", or "other" when one of the
                 \* session's other methods has it
    sub, nsubs,  \* s.chProposalNotifier: 0 is nil, n the n-th one; how many
    cache,       \* s.chProposalNotifsCache
    responders,  \* IDs in s.chProposalResponders
    now,         \* time.Now()
    stage,       \* of each proposal: "new", "handling" (waiting for the mutex),
                 \* "handled", "dropped"
    expiry,      \* notif.Expiry of each proposal
    answering,   \* proposals RespondChProposal is answering, without the mutex
    accepted,    \* proposals whose responder accepted
    bound,       \* notification goroutines, with their notifier
    shown,       \* history: notifications delivered
    calls,       \* history: responder calls made per proposal
    crashed      \* the process died in HandleProposal

subVars    == <<sub, nsubs>>
noteVars   == <<cache, bound, shown>>
answerVars == <<responders, answering, accepted, calls>>

vars == <<isOpen, slock, subVars, noteVars, answerVars, now, stage, expiry, crashed>>

TypeOK ==
    /\ isOpen \in BOOLEAN
    /\ slock \in {"free", "other"}
    /\ sub \in 0 .. MaxSubs
    /\ nsubs \in 0 .. MaxSubs
    /\ cache \in Seq(Proposals)
    /\ responders \subseteq Proposals
    /\ now \in 0 .. MaxTime
    /\ stage \in [Proposals -> {"new", "handling", "handled", "dropped"}]
    /\ expiry \in [Proposals -> Nat]
    /\ answering \subseteq Proposals
    /\ accepted \subseteq Proposals
    /\ bound \subseteq (1 .. MaxSubs) \X Proposals
    /\ shown \subseteq (1 .. MaxSubs) \X Proposals
    /\ calls \in [Proposals -> Nat]
    /\ crashed \in BOOLEAN

\* Times start at 1, because an expiry of 0 marks a proposal already rejected.
Init ==
    /\ isOpen = TRUE /\ slock = "free"
    /\ sub = 0 /\ nsubs = 0
    /\ cache = <<>> /\ bound = {} /\ shown = {}
    /\ responders = {} /\ answering = {} /\ accepted = {}
    /\ now = 1
    /\ stage = [p \in Proposals |-> "new"]
    /\ expiry = [p \in Proposals |-> 0]
    /\ calls = [p \in Proposals |-> 0]
    /\ crashed = FALSE

Notified(p) == \E s \in 1 .. MaxSubs : <<s, p>> \in shown
Bound(p) == \E s \in 1 .. MaxSubs : <<s, p>> \in bound
Cached(p) == \E i \in 1 .. Len(cache) : cache[i] = p

----------------------------------------------------------------------------
\* notif.Expiry: 0 marks a proposal that has been rejected.
Expiry(p) == IF p \in KnownPeers THEN now + ResponseTimeout ELSE 0

\* HandleProposalWInterface up to s.Lock().  A proposal of an unknown peer is
\* rejected at once and its expiry set to 0.  A proposal with an unknown
\* currency is rejected too, but then chProposalNotif indexes the missing
\* currencies and the process dies.
HandleProposal(p) ==
    /\ ~crashed
    /\ stage[p] = "new"
    /\ IF ~isOpen
       THEN /\ stage' = [stage EXCEPT ![p] = "dropped"]
            /\ UNCHANGED <<expiry, calls, crashed>>
       ELSE /\ stage' = [stage EXCEPT ![p] = "handling"]
            /\ expiry' = [expiry EXCEPT ![p] = Expiry(p)]
            /\ calls' = [calls EXCEPT ![p] =
                 @ + (IF p \in KnownPeers THEN 0 ELSE 1)
                   + (IF p \in KnownCurrencies THEN 0 ELSE 1)]
            /\ crashed' = (p \notin KnownCurrencies)
    /\ UNCHANGED <<isOpen, slock, subVars, noteVars, responders, answering, accepted,
                   now>>

\* Only proposals that were not rejected can be answered.
StoreEntry(p) ==
    responders' = IF expiry[p] # 0 THEN responders \cup {p} ELSE responders

\* Fault: without a subscriber the notification is dropped.
NotifyOrDrop(p) ==
    /\ bound' = IF sub = 0 THEN bound ELSE bound \cup {<<sub, p>>}
    /\ UNCHANGED cache

\* Unlike its counterpart in Channel, the go statement evaluates the notifier.
NotifyOrCache(p) ==
    IF sub = 0
    THEN cache' = Append(cache, p) /\ UNCHANGED bound
    ELSE bound' = bound \cup {<<sub, p>>} /\ UNCHANGED cache

\* HandleProposalWInterface under the mutex: store, then cache or notify, also
\* when the session was closed while the handler waited.
ProposalTakenIn(p) ==
    /\ ~crashed /\ slock = "free"
    /\ stage[p] = "handling"
    /\ stage' = [stage EXCEPT ![p] = "handled"]
    /\ StoreEntry(p)
    /\ NotifyOrCache(p)
    /\ UNCHANGED <<isOpen, slock, subVars, shown, answering, accepted, calls, now,
                   expiry, crashed>>

\* A notification goroutine runs.
Deliver(b) ==
    /\ ~crashed
    /\ b \in bound
    /\ bound' = bound \ {b}
    /\ shown' = shown \cup {b}
    /\ UNCHANGED <<isOpen, slock, subVars, cache, answerVars, now, stage, expiry,
                   crashed>>

\* Fault: the last cached notification is not sent.
CacheToSendShort == {cache[i] : i \in 1 .. Len(cache) - 1}

\* The notifications SubChProposals sends from the cache, which ends up empty.
CacheToSend == {cache[i] : i \in 1 .. Len(cache)}

SubChProposals ==
    /\ ~crashed /\ slock = "free"
    /\ isOpen
    /\ sub = 0
    /\ nsubs < MaxSubs
    /\ nsubs' = nsubs + 1 /\ sub' = nsubs + 1
    /\ bound' = bound \cup ({nsubs + 1} \X CacheToSend)
    /\ cache' = <<>>
    /\ UNCHANGED <<isOpen, slock, shown, answerVars, now, stage, expiry, crashed>>

UnsubChProposals ==
    /\ ~crashed /\ slock = "free"
    /\ isOpen
    /\ sub # 0
    /\ sub' = 0
    /\ UNCHANGED <<isOpen, slock, nsubs, noteVars, answerVars, now, stage, expiry,
                   crashed>>

\* Fault: the entry stays in the map when it is answered.
DeleteEntryForgets(p) == UNCHANGED responders

\* delete(s.chProposalResponders, chProposalID)
DeleteEntry(p) == responders' = responders \ {p}

\* RespondChProposal from its critical section to the check of the expiry.  Any
\* ID that has an entry can be answered, whether or not the user was notified of
\* it.  isOpen was read before the mutex was waited for, so that it says nothing
\* of the session by now.
RespondChProposal(p) ==
    /\ ~crashed /\ slock = "free"
    /\ p \in responders
    /\ DeleteEntry(p)
    /\ answering' = IF expiry[p] < now THEN answering ELSE answering \cup {p}
    /\ UNCHANGED <<isOpen, slock, subVars, noteVars, accepted, calls, now, stage,
                   expiry, crashed>>

\* acceptChProposal or rejectChProposal: the responder is called and returns.
Answer(p, accept, ok) ==
    /\ ~crashed
    /\ p \in answering
    /\ answering' = answering \ {p}
    /\ calls' = [calls EXCEPT ![p] = @ + 1]
    /\ accepted' = IF accept /\ ok THEN accepted \cup {p} ELSE accepted
    /\ UNCHANGED <<isOpen, slock, subVars, noteVars, responders, now, stage, expiry,
                   crashed>>

\* Another method of the session takes its mutex, and gives it back; it need
\* not (Session: CallsReturn, and Reject in HandleUpdate).
OthersLock ==
    /\ ~crashed /\ slock = "free"
    /\ slock' = "other"
    /\ UNCHANGED <<isOpen, subVars, noteVars, answerVars, now, stage, expiry,
                   crashed>>

OthersUnlock ==
    /\ ~crashed /\ slock = "other"
    /\ slock' = "free"
    /\ UNCHANGED <<isOpen, subVars, noteVars, answerVars, now, stage, expiry,
                   crashed>>

\* Session.Close, as far as proposals are concerned: it has the mutex.
CloseSession ==
    /\ ~crashed /\ slock = "other"
    /\ isOpen
    /\ isOpen' = FALSE
    /\ UNCHANGED <<slock, subVars, noteVars, answerVars, now, stage, expiry,
                   crashed>>

Tick ==
    /\ ~crashed
    /\ now < MaxTime
    /\ now' = now + 1
    /\ UNCHANGED <<isOpen, slock, subVars, noteVars, answerVars, stage, expiry,
                   crashed>>

Next ==
    \/ \E p \in Proposals :
          \/ HandleProposal(p)
          \/ ProposalTakenIn(p)
          \/ RespondChProposal(p)
          \/ \E accept, ok \in BOOLEAN : Answer(p, accept, ok)
    \/ \E b \in bound : Deliver(b)
    \/ SubChProposals
    \/ UnsubChProposals
    \/ OthersLock \/ OthersUnlock
    \/ CloseSession
    \/ Tick

Spec == Init /\ [][Next]_vars

\* Goroutines that have started get on, and the mutex is a Go channel that
\* serves its waiters in turn.  Nobody has to call anything, and who has the
\* mutex need not give it back.
Fairness ==
    /\ \A p \in Proposals : SF_vars(ProposalTakenIn(p))
    /\ WF_vars(\E b \in bound : Deliver(b))

FairSpec == Spec /\ Fairness

----------------------------------------------------------------------------
(* Properties. *)

\* The responder of a proposal is called at most once, by the node (unknown
\* peer or unknown currency) or for the user, never by both and never for two
\* answers.  A second call is made only by a handler that both checks have failed
\* in, and that does not survive it: HandleProposal goes on after the first
\* rejection, rejects again and panics (session.go:653, 664 and 667).
ResponderCalledOnce ==
    \A p \in Proposals :
        \/ calls[p] + (IF p \in answering THEN 1 ELSE 0) <= 1
        \/ crashed /\ p \notin KnownPeers \cup KnownCurrencies

\* A proposal of an unknown peer never becomes a channel, although the user is
\* notified of it like of any other.
UnknownPeerNeverAccepted == accepted \subseteq KnownPeers

\* A proposal that was taken in is, until the user has been told of it, either
\* cached, while nobody is subscribed, or carried by exactly one goroutine.
NotificationAccounted ==
    \A p \in Proposals : stage[p] = "handled" =>
        /\ Cached(p) => sub = 0 /\ ~(Bound(p) \/ Notified(p))
        /\ Bound(p) => ~Notified(p)
        /\ \A s, u \in 1 .. MaxSubs :
              <<s, p>> \in bound /\ <<u, p>> \in bound => s = u
        /\ Cached(p) \/ Bound(p) \/ Notified(p)

\* The session's other methods never keep the mutex for good.
MutexComesFree == []<>(slock = "free")

\* If so, a proposal is shown to the user, or stays cached for the next
\* subscription, unless the process dies.
ProposalReachesUser ==
    MutexComesFree =>
        \A p \in Proposals :
            stage[p] = "handling" ~> (Notified(p) \/ Cached(p) \/ crashed)

\* The user is notified of the proposals that the node has rejected for an
\* unknown peer.  Not so when their currency is unknown too: see HandleProposal.
RejectedIsNotified ==
    MutexComesFree =>
        \A p \in Proposals \ KnownPeers :
            stage[p] = "handling" ~> (Notified(p) \/ Cached(p))
=============================================================================
