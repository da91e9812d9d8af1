------------------------------ MODULE Channel ------------------------------
(***************************************************************************)
(* One node's view of a two-party state channel: session/channel.go.       *)
(*                                                                         *)
(* Every exported method takes the channel's mutex and most of them hold   *)
(* it across calls that block on the peer or on the chain.  The mutex and  *)
(* the program position of its holder are one variable, `at': it is "free" *)
(* when nobody holds the mutex, otherwise it names the call the holder is  *)
(* blocked in.  Two kinds of goroutine run WITHOUT the mutex: the ones     *)
(* that hand a notification to the subscriber (`sending', `bound').        *)
(*                                                                         *)
(* A call that returns an error without changing anything (channel closed, *)
(* subscription exists, unknown update) is a step that leaves every        *)
(* variable unchanged, so only its guard appears here.                     *)
(***************************************************************************)
EXTENDS Naturals, Sequences, FiniteSets

CONSTANTS
    ProposalIds,      \* identities of the updates the peer may propose
    MaxVersion,       \* bound: the highest state version explored
    ResponseTimeout,  \* timeoutConfig.response, in ticks
    MaxTime,          \* bound: the clock stops here
    MaxSubs,          \* bound: number of successful SubChUpdates calls
    MaxRegistered     \* bound: number of on-chain registrations

ASSUME ChannelAssumption ==
    /\ MaxVersion \in Nat
    /\ ResponseTimeout \in Nat
    /\ MaxTime \in Nat
    /\ MaxSubs \in Nat
    /\ MaxRegistered \in Nat

VARIABLES
    ver, final,         \* pch.State(): Version and IsFinal
    status,             \* ch.status
    wasCloseInitiated,  \* ch.wasCloseInitiated
    sub,                \* ch.chUpdateNotifier: 0 is nil, n the n-th one
    cache,              \* ch.chUpdateNotifCache
    responders,         \* ch.chUpdateResponders, by UpdateID
    at, cur, serr,      \* mutex holder: position, update, settle error
    now,                \* time.Now()
    arriving,           \* HandleUpdate goroutines waiting for the mutex
    events,             \* HandleAdjudicatorEvent goroutines waiting, by type
    sending,            \* goroutines of sendChUpdateNotif
    bound,              \* goroutines of SubChUpdates, with their notifier
    chain, nreg,        \* the adjudicator contract's view of this channel
    watching,           \* the Watch goroutine is running
    crashed,            \* the process died calling a nil notifier
    nsubs,              \* subscriptions made: it numbers the notifiers
    handled,            \* updates HandleUpdate took in: their names are used
    closeCalled,        \* Close offered the final state to the peer
    shown,              \* history: notifications delivered
    closedNotifs,       \* history: Closed notifications sent
    calls               \* history: responder calls made per proposal

chVars    == <<ver, final, status, wasCloseInitiated>>
subVars   == <<sub, nsubs>>
noteVars  == <<cache, sending, bound, shown, handled>>
respVars  == <<responders, calls>>
lockVars  == <<at, cur, serr>>
chainVars == <<chain, nreg, watching, events>>
envVars   == <<now, arriving, crashed>>
closeVars == <<closedNotifs, closeCalled>>

vars == <<chVars, subVars, noteVars, respVars, lockVars, chainVars, envVars,
          closeVars>>

----------------------------------------------------------------------------
\* An update proposed by the peer: pclient.ChannelUpdate.
Proposal == [id : ProposalIds, ver : 1 .. MaxVersion, final : BOOLEAN]

NoUpdate == [id |-> "none", ver |-> 0, final |-> FALSE]

\* chUpdateResponderEntry; the responder is identified with its proposal.
Entry == [upd : Proposal, expiry : Nat]

\* makeChCloseNotif: the receiver and whether settling failed.
ClosedNotif == [to : 1 .. MaxSubs, err : BOOLEAN]

NoEntry == [upd |-> NoUpdate, expiry |-> 0]

\* Any other type of event is ignored (the default case of the switch).
EventTypes == {"registered", "concluded"}

Stages == {"free", "send", "accept", "reject", "registerAccepted",
           "finalize", "registerClosing", "challenge", "settle", "closing",
           "notify"}

\* makeChUpdateNotif: fmt.Sprintf("%s_%d", ch.ID(), proposedState.Version).
UpdateID(p) == p.ver

UpdateIDs == 1 .. MaxVersion

Notified(p) == \E s \in 1 .. MaxSubs : <<s, p>> \in shown

TypeOK ==
    /\ ver \in 0 .. MaxVersion
    /\ final \in BOOLEAN
    /\ status \in {"open", "closed"}
    /\ wasCloseInitiated \in BOOLEAN
    /\ sub \in 0 .. MaxSubs
    /\ nsubs \in 0 .. MaxSubs
    /\ cache \in Seq(Proposal)
    /\ responders \in [UpdateIDs -> Entry \cup {NoEntry}]
    /\ at \in Stages
    /\ cur \in Proposal \cup {NoUpdate}
    /\ serr \in BOOLEAN
    /\ now \in 0 .. MaxTime
    /\ arriving \subseteq Proposal
    /\ events \in [EventTypes -> Nat]
    /\ sending \subseteq Proposal
    /\ bound \subseteq (1 .. MaxSubs) \X Proposal
    /\ shown \subseteq (1 .. MaxSubs) \X Proposal
    /\ chain \in {"none", "registered", "concluded"}
    /\ nreg \in 0 .. MaxRegistered
    /\ watching \in BOOLEAN
    /\ crashed \in BOOLEAN
    /\ closedNotifs \in Seq(ClosedNotif)
    /\ handled \subseteq Proposal
    /\ calls \in [ProposalIds -> Nat]
    /\ closeCalled \in BOOLEAN

\* newCh: an open channel whose Watch goroutine has been started.
Init ==
    /\ ver = 0 /\ final = FALSE
    /\ status = "open"
    /\ wasCloseInitiated = FALSE
    /\ sub = 0 /\ nsubs = 0
    /\ cache = <<>>
    /\ responders = [i \in UpdateIDs |-> NoEntry]
    /\ at = "free" /\ cur = NoUpdate /\ serr = FALSE
    /\ now = 0
    /\ arriving = {}
    /\ events = [e \in EventTypes |-> 0]
    /\ sending = {} /\ bound = {} /\ shown = {}
    /\ chain = "none" /\ nreg = 0 /\ watching = TRUE
    /\ crashed = FALSE
    /\ closedNotifs = <<>> /\ handled = {}
    /\ calls = [i \in ProposalIds |-> 0]
    /\ closeCalled = FALSE

\* The caller has just acquired the mutex with ch.Lock().
Locked == ~crashed /\ at = "free"

\* The holder of the mutex is blocked in (or just past) the call named s.
Holding(s) == ~crashed /\ at = s

\* Deferred ch.Unlock().
Unlock == at' = "free" /\ cur' = NoUpdate /\ serr' = FALSE

Keep(s) == at' = s /\ UNCHANGED <<cur, serr>>

\* Fault: the check for a closed channel is missing.
NotClosedUnchecked == TRUE

\* `if ch.status == closed' of every method that is an API call.
NotClosed == status # "closed"

----------------------------------------------------------------------------
(* Sending an update. *)

\* SendChUpdate up to the call of pch.UpdateBy, made with the mutex held.
SendChUpdate ==
    /\ Locked
    /\ NotClosed
    /\ Keep("send")
    /\ UNCHANGED <<chVars, subVars, noteVars, respVars, chainVars, envVars,
                   closeVars>>

\* pch.UpdateBy returned: the peer agreed, or it refused or did not answer
\* within chUpdate().  Either way SendChUpdate returns.
UpdateByReturns(ok) ==
    /\ Holding("send")
    /\ ok => ~final /\ ver < MaxVersion
    /\ ver' = IF ok THEN ver + 1 ELSE ver
    /\ Unlock
    /\ UNCHANGED <<final, status, wasCloseInitiated, subVars, noteVars,
                   respVars, chainVars, envVars, closeVars>>

----------------------------------------------------------------------------
(* Receiving updates and telling the user about them. *)

\* External: go-perun checks a proposal of the peer against the current state
\* (next version, not final) and the session starts HandleUpdate for it in a
\* goroutine of its own.
PeerProposes(i, f) ==
    /\ ~crashed /\ watching /\ at # "closing"
    /\ ~final /\ ver < MaxVersion
    /\ \A p \in arriving \cup handled : p.id # i
    /\ arriving' = arriving \cup {[id |-> i, ver |-> ver + 1, final |-> f]}
    /\ UNCHANGED <<chVars, subVars, noteVars, respVars, lockVars, chainVars,
                   now, crashed, closeVars>>

\* Fault: a notification without a subscriber is dropped.
SendChUpdateNotifDrops(p) ==
    /\ sending' = IF sub = 0 THEN sending ELSE sending \cup {p}
    /\ UNCHANGED <<cache, bound, shown>>

\* sendChUpdateNotif: cache without a subscriber, otherwise start a goroutine
\* that will look the notifier up when it runs.
SendChUpdateNotif(p) ==
    IF sub = 0
    THEN cache' = Append(cache, p) /\ UNCHANGED <<sending, bound, shown>>
    ELSE sending' = sending \cup {p} /\ UNCHANGED <<cache, bound, shown>>

\* HandleUpdate.  The expiry is counted from the moment the mutex was obtained.
HandleUpdate(p) ==
    /\ Locked
    /\ p \in arriving
    /\ arriving' = arriving \ {p}
    /\ IF status = "closed"
       THEN UNCHANGED <<noteVars, responders>>
       ELSE /\ responders' = [responders EXCEPT ![UpdateID(p)] =
                                [upd |-> p, expiry |-> now + ResponseTimeout]]
            /\ SendChUpdateNotif(p)
            /\ handled' = handled \cup {p}
    /\ UNCHANGED <<chVars, subVars, calls, lockVars, chainVars, now, crashed,
                   closeVars>>

\* The goroutine of sendChUpdateNotif: it reads ch.chUpdateNotifier without
\* the mutex, and calling a nil function value kills the process.
DeliverNotif(p) ==
    /\ ~crashed
    /\ p \in sending
    /\ sending' = sending \ {p}
    /\ IF sub = 0
       THEN crashed' = TRUE /\ UNCHANGED shown
       ELSE shown' = shown \cup {<<sub, p>>} /\ UNCHANGED crashed
    /\ UNCHANGED <<chVars, subVars, cache, bound, handled, respVars,
                   lockVars, chainVars, now, arriving, closeVars>>

\* A goroutine of SubChUpdates: its function value was evaluated by the go
\* statement, so it always reaches the notifier it was started with.
DeliverCached(b) ==
    /\ ~crashed
    /\ b \in bound
    /\ bound' = bound \ {b}
    /\ shown' = shown \cup {b}
    /\ UNCHANGED <<chVars, subVars, cache, sending, handled, respVars,
                   lockVars, chainVars, envVars, closeVars>>

\* Fault: the cache is sent but not emptied.
FlushCacheKeeps(n) ==
    /\ bound' = bound \cup {<<n, cache[i]>> : i \in 1 .. Len(cache)}
    /\ UNCHANGED cache

\* One goroutine per cached notification, first to last.
FlushCache(n) ==
    /\ bound' = bound \cup {<<n, cache[i]>> : i \in 1 .. Len(cache)}
    /\ cache' = <<>>

\* SubChUpdates: install the notifier and send it the cached notifications.
SubChUpdates ==
    /\ Locked
    /\ NotClosed
    /\ sub = 0
    /\ nsubs < MaxSubs
    /\ nsubs' = nsubs + 1
    /\ sub' = nsubs + 1
    /\ FlushCache(nsubs + 1)
    /\ UNCHANGED <<chVars, sending, shown, handled, respVars, lockVars,
                   chainVars, envVars, closeVars>>

UnsubChUpdates ==
    /\ Locked
    /\ NotClosed
    /\ sub # 0
    /\ sub' = 0
    /\ UNCHANGED <<chVars, nsubs, noteVars, respVars, lockVars, chainVars,
                   envVars, closeVars>>

----------------------------------------------------------------------------
(* Answering an update. *)

\* Fault: the entry stays in the map when it is answered.
DeleteEntryForgets(id) == UNCHANGED responders

\* delete(ch.chUpdateResponders, updateID)
DeleteEntry(id) == responders' = [responders EXCEPT ![id] = NoEntry]

\* RespondChUpdate up to the call of the responder.  The entry is consumed
\* even when it has expired.
RespondChUpdate(id, accept) ==
    /\ Locked
    /\ NotClosed
    /\ LET entry == responders[id] IN
       /\ entry # NoEntry
       /\ DeleteEntry(id)
       /\ IF entry.expiry < now
          THEN UNCHANGED <<calls, lockVars>>
          ELSE /\ at' = IF accept THEN "accept" ELSE "reject"
               /\ cur' = entry.upd
               /\ calls' = [calls EXCEPT ![entry.upd.id] = @ + 1]
               /\ UNCHANGED serr
    /\ UNCHANGED <<chVars, subVars, noteVars, chainVars, envVars, closeVars>>

\* entry.responder.Accept returned.  It can only succeed for the successor of
\* the current state.  An accepted final state is registered next.
AcceptReturns(ok) ==
    /\ Holding("accept")
    /\ ok => ~final /\ cur.ver = ver + 1
    /\ ver' = IF ok THEN cur.ver ELSE ver
    /\ final' = IF ok THEN cur.final ELSE final
    /\ IF ok /\ cur.final THEN Keep("registerAccepted") ELSE Unlock
    /\ UNCHANGED <<status, wasCloseInitiated, subVars, noteVars, respVars,
                   chainVars, envVars, closeVars>>

\* Fault: this path returns without releasing the mutex.
RejectReturnsLocked == Holding("reject") /\ UNCHANGED vars

\* entry.responder.Reject returned, with or without an error.
RejectReturns ==
    /\ Holding("reject")
    /\ Unlock
    /\ UNCHANGED <<chVars, subVars, noteVars, respVars, chainVars, envVars,
                   closeVars>>

----------------------------------------------------------------------------
(* The adjudicator contract (external) and the watcher on it. *)

\* The Watch goroutine starts a handler goroutine for every event it sees.
Emit(e) ==
    events' = IF watching THEN [events EXCEPT ![e] = @ + 1] ELSE events

\* A registration of a non-final state opens (or renews) the challenge period;
\* registering a final state concludes the channel at once.
ChainRegistered ==
    /\ chain # "concluded" /\ nreg < MaxRegistered
    /\ chain' = "registered" /\ nreg' = nreg + 1
    /\ Emit("registered")
    /\ UNCHANGED watching

ChainConcluded ==
    /\ chain # "concluded"
    /\ chain' = "concluded"
    /\ Emit("concluded")
    /\ UNCHANGED <<nreg, watching>>

\* The peer registers, or refutes, with a state that is not final; or it holds
\* a final state (agreed, or offered by finalize) and concludes with it; or it
\* concludes after the challenge period.
PeerOnChain ==
    /\ ~crashed
    /\ \/ ChainRegistered
       \/ (final \/ closeCalled \/ chain = "registered") /\ ChainConcluded
    /\ UNCHANGED <<chVars, subVars, noteVars, respVars, lockVars, envVars,
                   closeVars>>

\* register: pch.Register returned.  An error leaves it open whether the
\* transaction was mined.
Register ==
    \/ UNCHANGED chainVars
    \/ final /\ ChainConcluded
    \/ ~final /\ ChainRegistered

\* RespondChUpdate, after register of an accepted final state.
RegisterAcceptedReturns ==
    /\ Holding("registerAccepted")
    /\ Register
    /\ Unlock
    /\ UNCHANGED <<chVars, subVars, noteVars, respVars, envVars, closeVars>>

----------------------------------------------------------------------------
(* Closing the channel. *)

\* Close up to the call of pch.UpdateBy in finalize: the request that carries
\* the signed final state goes to the peer.
Close ==
    /\ Locked
    /\ NotClosed
    /\ Keep("finalize")
    /\ closeCalled' = TRUE
    /\ UNCHANGED <<chVars, subVars, noteVars, respVars, chainVars, envVars,
                   closedNotifs>>

\* finalize returns; its error is only logged.
FinalizeReturns(ok) ==
    /\ Holding("finalize")
    /\ ok => ~final /\ ver < MaxVersion
    /\ ver' = IF ok THEN ver + 1 ELSE ver
    /\ final' = (final \/ ok)
    /\ Keep("registerClosing")
    /\ UNCHANGED <<status, wasCloseInitiated, subVars, noteVars, respVars,
                   chainVars, envVars, closeVars>>

\* Fault: the flag is set only if the registration took effect.
MarkCloseInitiatedIfMined ==
    wasCloseInitiated' = (wasCloseInitiated \/ chain' # chain)

MarkCloseInitiated == wasCloseInitiated' = TRUE

\* Close, after register: the flag is set whether or not it failed.
RegisterClosingReturns ==
    /\ Holding("registerClosing")
    /\ Register
    /\ MarkCloseInitiated
    /\ Unlock
    /\ UNCHANGED <<ver, final, status, subVars, noteVars, respVars, envVars,
                   closeVars>>

\* Fault: the test on a Registered event is inverted.
StageForEventInverted(e) ==
    CASE e = "registered" /\ final -> "challenge"
      [] e = "concluded" /\ final  -> "settle"
      [] OTHER                     -> "free"

\* Fault: both events are tested for a state that is not final.
StageForEventNotFinal(e) ==
    CASE e = "registered" /\ ~final -> "challenge"
      [] e = "concluded" /\ ~final  -> "settle"
      [] OTHER                      -> "free"

\* What an event starts, given whether pch.State() is final.
StageForEvent(e) ==
    CASE e = "registered" /\ ~final -> "challenge"
      [] e = "concluded" /\ final   -> "settle"
      [] OTHER                      -> "free"

\* HandleAdjudicatorEvent up to its first blocking call.  It does not look at
\* ch.status.
HandleAdjudicatorEvent(e) ==
    /\ Locked
    /\ events[e] > 0
    /\ events' = [events EXCEPT ![e] = @ - 1]
    /\ at' = StageForEvent(e)
    /\ UNCHANGED <<chVars, subVars, noteVars, respVars, cur, serr, chain,
                   nreg, watching, envVars, closeVars>>

\* e.Timeout().Wait returned, in time or with an error that is only logged.
ChallengePasses ==
    /\ Holding("challenge")
    /\ Keep("settle")
    /\ UNCHANGED <<chVars, subVars, noteVars, respVars, chainVars, envVars,
                   closeVars>>

\* Fault: the error of Settle is dropped.
SettleErrorDropped(ok) == FALSE

SettleError(ok) == ~ok

\* settle: pch.Settle returned; on success the channel is concluded on-chain.
\* Either way close is next: it calls pch.Close, whose error is only logged, and
\* waits for the Watch goroutine.
SettleReturns(ok) ==
    /\ Holding("settle")
    /\ at' = "closing" /\ serr' = SettleError(ok) /\ UNCHANGED cur
    /\ IF ok /\ chain # "concluded"
       THEN ChainConcluded
       ELSE UNCHANGED chainVars
    /\ UNCHANGED <<chVars, subVars, noteVars, respVars, envVars, closeVars>>

\* External: Watch returns because pch.Close has closed its channel.
WatchReturns ==
    /\ Holding("closing")
    /\ watching
    /\ watching' = FALSE
    /\ UNCHANGED <<chVars, subVars, noteVars, respVars, lockVars, chain, nreg,
                   events, envVars, closeVars>>

\* Fault: the notifier is called without testing it for nil.
CloseAndNotifyUnchecked ==
    /\ Holding("closing")
    /\ ~watching
    /\ status' = "closed"
    /\ Keep("notify")
    /\ UNCHANGED <<ver, final, wasCloseInitiated, subVars, noteVars,
                   respVars, chainVars, envVars, closeVars>>

\* closeAndNotify, once watcherWg.Wait has returned: the channel is marked closed,
\* even if settling failed; without a subscriber the notification is dropped.
CloseAndNotify ==
    /\ Holding("closing")
    /\ ~watching
    /\ status' = "closed"
    /\ IF sub = 0 THEN Unlock ELSE Keep("notify")
    /\ UNCHANGED <<ver, final, wasCloseInitiated, subVars, noteVars,
                   respVars, chainVars, envVars, closeVars>>

\* Fault: closeAndNotify does not remove the subscription.
UnsubAfterCloseForgets == UNCHANGED sub

\* unsubChUpdates, called by closeAndNotify.
UnsubAfterClose == sub' = 0

\* closeAndNotify, last part: the notifier is called with the mutex held and
\* the subscription is removed when it returns.
NotifyClosed ==
    /\ Holding("notify")
    /\ closedNotifs' = Append(closedNotifs, [to |-> sub, err |-> serr])
    /\ UnsubAfterClose
    /\ Unlock
    /\ UNCHANGED <<chVars, nsubs, noteVars, respVars, chainVars, envVars,
                   closeCalled>>

----------------------------------------------------------------------------
Tick ==
    /\ ~crashed
    /\ now < MaxTime
    /\ now' = now + 1
    /\ UNCHANGED <<chVars, subVars, noteVars, respVars, lockVars, chainVars,
                   arriving, crashed, closeVars>>

\* The call the holder of the mutex is blocked in returns.
HolderProceeds ==
    \/ \E ok \in BOOLEAN :
          \/ UpdateByReturns(ok)
          \/ AcceptReturns(ok)
          \/ FinalizeReturns(ok)
          \/ SettleReturns(ok)
    \/ RejectReturns
    \/ RegisterAcceptedReturns
    \/ RegisterClosingReturns
    \/ ChallengePasses
    \/ CloseAndNotify
    \/ NotifyClosed

\* RespondChUpdate takes any ID, whether or not its notification was received.
UserCalls ==
    \/ SendChUpdate
    \/ SubChUpdates
    \/ UnsubChUpdates
    \/ \E id \in UpdateIDs, accept \in BOOLEAN : RespondChUpdate(id, accept)
    \/ Close

Next ==
    \/ UserCalls
    \/ HolderProceeds
    \/ WatchReturns
    \/ \E i \in ProposalIds, f \in BOOLEAN : PeerProposes(i, f)
    \/ \E p \in arriving : HandleUpdate(p)
    \/ \E p \in sending : DeliverNotif(p)
    \/ \E b \in bound : DeliverCached(b)
    \/ \E e \in EventTypes : HandleAdjudicatorEvent(e)
    \/ PeerOnChain
    \/ Tick

Spec == Init /\ [][Next]_vars

\* Calls to the peer and to the chain run under a context with a deadline
\* (timeout.go), the challenge period ends, Watch returns once its channel is
\* closed (external), goroutines are scheduled, and the mutex is a Go channel
\* whose waiters are served in turn.  Users, the peer and the chain owe nothing,
\* and neither does the notifier that closeAndNotify calls with the mutex held:
\* it sends on a stream, without a deadline.
Fairness ==
    /\ WF_vars(at # "notify" /\ HolderProceeds)
    /\ WF_vars(WatchReturns)
    /\ WF_vars(\E p \in sending : DeliverNotif(p))
    /\ WF_vars(\E b \in bound : DeliverCached(b))
    /\ SF_vars(\E p \in arriving : HandleUpdate(p))
    /\ \A e \in EventTypes : SF_vars(HandleAdjudicatorEvent(e))

FairSpec == Spec /\ Fairness

----------------------------------------------------------------------------
(* Properties. *)

Cached(p) == \E i \in 1 .. Len(cache) : cache[i] = p

Bound(p) == \E s \in 1 .. MaxSubs : <<s, p>> \in bound

\* The user gets at most one Closed notification for a channel, although every
\* adjudicator event still queued when the channel closes runs settle and
\* closeAndNotify again: the subscription is gone and cannot be renewed.
ClosedNotifiedOnce ==
    /\ Len(closedNotifs) <= 1
    /\ status = "closed" => sub = 0 \/ at = "notify"

\* A Closed notification without an error means the channel was concluded
\* on-chain; closing after a failed settle is reported as such.
ClosedNotifTellsOutcome ==
    \A i \in 1 .. Len(closedNotifs) :
        ~closedNotifs[i].err => chain = "concluded"

\* An update taken in by HandleUpdate is, until the user has been told of it,
\* in exactly one place: cached (and then nobody is subscribed), or carried by
\* one notification goroutine.  Unsubscribing, resubscribing and closing never
\* lose or duplicate it; only a crash of the process does.
NotificationAccounted ==
    \A p \in handled :
        /\ Cached(p) => sub = 0 /\ ~(p \in sending \/ Bound(p) \/ Notified(p))
        /\ p \in sending => ~(Bound(p) \/ Notified(p))
        /\ Bound(p) => ~Notified(p)
        /\ \A s, u \in 1 .. MaxSubs :
              <<s, p>> \in bound /\ <<u, p>> \in bound => s = u
        /\ Cached(p) \/ p \in sending \/ Bound(p) \/ Notified(p) \/ crashed

\* The responder of an update is called at most once, whatever the user sends
\* and however often the peer reuses a version (go-perun's responders panic on
\* a second call).
ResponderCalledOnce == \A i \in ProposalIds : calls[i] <= 1

\* The side whose user called Close settles as primary: no adjudicator event
\* can be handled between the finalizing update and the setting of the flag,
\* even though register makes the chain emit one before Close returns.
CloserSettlesAsPrimary == at = "settle" => wasCloseInitiated = closeCalled

\* Once closed, a channel stays closed and neither its state, its pending
\* responders nor its cache change: late goroutines and calls do nothing.
ClosedChannelFrozen ==
    [][status = "closed" =>
         /\ status' = "closed"
         /\ UNCHANGED <<ver, final, wasCloseInitiated, cache,
                        responders>>]_vars

\* The notifier that is told of the closing returns.
NotifierReturns == []<>(at # "notify")

\* If so, the mutex is never kept: every path through every method releases it.
MutexReleased == NotifierReturns => (at # "free" ~> (at = "free" \/ crashed))

\* A Registered event ends in a closed channel, however many calls compete for
\* the mutex, unless the final state was agreed meanwhile (then the channel is
\* closed by the Concluded event).
RegisteredEventCloses ==
    events["registered"] > 0 ~> (status = "closed" \/ final \/ crashed)

\* A Concluded event that finds the final state agreed ends in a closed channel,
\* whoever concluded it and whatever else waits for the mutex.
ConcludedEventCloses ==
    events["concluded"] > 0 /\ final ~> (status = "closed" \/ crashed)

\* An update that reached the channel is shown to the user or kept for the next
\* subscription, unless the channel closes first.
UpdateReachesUser ==
    \A i \in ProposalIds :
        (\E p \in arriving : p.id = i)
          ~> \/ \E p \in handled : p.id = i /\ (Notified(p) \/ Cached(p))
             \/ status = "closed"
             \/ crashed

\* The channel seen through its API.
Api == INSTANCE ChannelApi
         WITH life <- status, subscribed <- (sub # 0),
              told <- Len(closedNotifs)

\* A channel is what its API promises, whoever else holds or waits for its
\* mutex: whatever a method read before it blocked still holds when it returns,
\* and a late call or event finds a closed channel and does nothing.
ImplementsApi == Api!Spec

\* No notification goroutine finds the notifier nil when it runs.  Not so: it
\* reads the notifier after the mutex was released (see the README).
NotifierNeverNil == ~crashed

\* The UpdateID of an update is its own.  Not so: two updates of one version
\* have the same, so that an answer to the first reaches the second.
UpdateIDsUnique ==
    \A p, q \in handled : UpdateID(p) = UpdateID(q) => p = q

\* A channel concluded on-chain is settled and closed by this node.  Not so if
\* its finalizing update timed out and was accepted late (see the README).
ConcludedChannelCloses == chain = "concluded" ~> (status = "closed" \/ crashed)
====
