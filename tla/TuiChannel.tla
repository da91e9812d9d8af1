----------------------------- MODULE TuiChannel -----------------------------
(***************************************************************************)
(* One row of the terminal client: cmd/perunnodetui, a channel from its    *)
(* proposal, made by the user or by the peer, to its end.                  *)
(*                                                                         *)
(* A row has a mutex that is held during calls to the node; `at' is "free" *)
(* or names the call its holder is in.  Commands, the handler of the       *)
(* update stream, one goroutine per notification and the timers compete    *)
(* for it.  The node is known by what it sends and answers.                *)
(***************************************************************************)
EXTENDS Naturals

CONSTANTS
    Updates,          \* IDs of the updates the peer may propose
    FinalUpdates,     \* the ones among them that finalize the channel
    ResponseTimeout,  \* ticks the user has for an answer
    MaxTime,          \* bound: the clock stops here
    MaxVersion        \* bound: the highest version of the channel's state

NoID == "none"   \* p.updateID before the first update

ASSUME TuiChannelAssumption ==
    /\ NoID \notin Updates
    /\ FinalUpdates \subseteq Updates
    /\ ResponseTimeout \in Nat
    /\ MaxTime \in Nat
    /\ MaxVersion \in Nat

VARIABLES
    isIncoming,     \* the peer proposed the channel
    phase, status,  \* p.phase and p.status
    updateID,       \* p.updateID, as far as updates are concerned
    current,        \* p.current.version
    hasCh,          \* p.chID is set
    at, accept,     \* holder of the row's mutex; the answer it is giving
    proposing,      \* propose is waiting for the node, without the mutex
    waking,         \* notifyIncomingChannel is sleeping
    byChID,         \* R.byChID has the channel
    handler,        \* incomingUpdateHandler
    subscribed,     \* the node has a notifier for its stream
    notes,          \* goroutines that are about to show an update
    reading,        \* goroutines that have shown one and read p.updateID next
    timers,         \* goroutines that sleep, with the ID read and the expiry
    now,            \* time.Now()
    ver, nodeState, \* the node's channel: version; "none", "open" or "closed"
    adrift,         \* calls that failed here and may yet take effect there
    lost,           \* history: versions made by such calls
    pending,        \* updates the node has not had an answer to
    inbox,          \* updates of which a notification is on the stream
    closedNotif,    \* closed notification on the stream, "ok" or "failed"
    expiry          \* when the answer to an update is due

rowVars   == <<phase, status, updateID, current, hasCh>>
lockVars  == <<at, accept>>
openVars  == <<isIncoming, proposing, waking>>
goVars    == <<byChID, handler, subscribed, notes, reading, timers>>
lostVars  == <<adrift, lost>>
nodeVars  == <<ver, nodeState, lostVars, pending, inbox, closedNotif, expiry>>

vars == <<rowVars, lockVars, openVars, goVars, now, nodeVars>>

Blank == MaxVersion + 1   \* the version of an empty balInfo

chPhase == {"error", "open", "transact", "register", "settle", "closed"}

responseStatus ==
    {"noUpdate", "waitingForPeer", "waitingForUser", "expired", "responding",
     "userRejected", "peerRejected", "accepted", "errorStatus"}

TypeOK ==
    /\ phase \in chPhase
    /\ status \in responseStatus
    /\ updateID \in Updates \cup {NoID}
    /\ current \in 0 .. Blank
    /\ at \in {"free", "proposal", "opened", "subscribe", "update", "close",
               "respond"}
    /\ handler \in {"none", "running", "ended", "broken", "lost"}
    /\ notes \subseteq Updates /\ reading \subseteq Updates
    /\ timers \subseteq (Updates \cup {NoID}) \X (0 .. MaxTime)
    /\ now \in 0 .. MaxTime /\ ver \in 0 .. MaxVersion
    /\ adrift \in 0 .. MaxVersion /\ lost \subseteq 0 .. MaxVersion
    /\ pending \subseteq Updates /\ inbox \subseteq Updates
    /\ expiry \in [Updates -> 0 .. MaxTime]
    /\ isIncoming \in BOOLEAN /\ hasCh \in BOOLEAN /\ accept \in BOOLEAN
    /\ proposing \in BOOLEAN /\ waking \in BOOLEAN /\ byChID \in BOOLEAN
    /\ subscribed \in BOOLEAN
    /\ nodeState \in {"none", "open", "closed"}
    /\ closedNotif \in {"none", "ok", "failed"}

\* The row of the user's own proposal, with propose waiting for its answer.
newOutgoingChannel ==
    /\ isIncoming = FALSE /\ status = "waitingForPeer"
    /\ proposing = TRUE /\ waking = FALSE

\* The row of a proposal of the peer, with the timer of notifyIncomingChannel.
newIncomingChannel ==
    /\ isIncoming = TRUE /\ status = "waitingForUser"
    /\ proposing = FALSE /\ waking = TRUE

\* The row is in the table before anything can look it up: putAtIndex.
Init ==
    /\ newOutgoingChannel \/ newIncomingChannel
    /\ phase = "open"
    /\ updateID = NoID /\ current = Blank /\ hasCh = FALSE
    /\ at = "free" /\ accept = FALSE
    /\ byChID = FALSE /\ handler = "none" /\ subscribed = FALSE
    /\ notes = {} /\ reading = {} /\ timers = {}
    /\ now = 0
    /\ ver = 0 /\ nodeState = "none" /\ adrift = 0 /\ lost = {}
    /\ pending = {} /\ inbox = {} /\ closedNotif = "none"
    /\ expiry = [u \in Updates |-> 0]

----------------------------------------------------------------------------
(* Opening the channel. *)

\* A call fails before, or after, the node has opened the channel.
PerhapsOpened == nodeState' \in {nodeState, "open"}

\* proposerFn returned an error, which is only logged.
ProposeFails ==
    /\ proposing
    /\ proposing' = FALSE
    /\ PerhapsOpened
    /\ UNCHANGED <<rowVars, lockVars, isIncoming, waking, goVars, now, ver,
                   lostVars, pending, inbox, closedNotif, expiry>>

\* The peer rejected the proposal.
ProposeRejected ==
    /\ proposing /\ at = "free"
    /\ proposing' = FALSE
    /\ phase' = "error" /\ status' = "peerRejected"
    /\ UNCHANGED <<updateID, current, hasCh, lockVars, isIncoming, waking,
                   goVars, now, nodeVars>>

\* The node opened the channel, and propose takes the mutex.
ProposeAccepted ==
    /\ proposing /\ at = "free"
    /\ proposing' = FALSE
    /\ nodeState' = "open"
    /\ at' = "opened"
    /\ UNCHANGED <<rowVars, accept, isIncoming, waking, goVars, now, ver,
                   lostVars, pending, inbox, closedNotif, expiry>>

\* R.setChID
SetChID == byChID' = TRUE

\* What is proposed is taken off the row.
clearUpdate == status' = "noUpdate"

\* setChID, then toTransact up to subUpdates.
ToTransact ==
    /\ at = "opened"
    /\ SetChID
    /\ hasCh' = TRUE /\ current' = ver
    /\ phase' = "transact" /\ clearUpdate
    /\ at' = "subscribe"
    /\ UNCHANGED <<updateID, accept, openVars, handler, subscribed, notes,
                   reading, timers, now, nodeVars>>

\* subUpdates returned: there is a stream, which the node has still to serve;
\* an error is only logged.
SubUpdates(ok) ==
    /\ at = "subscribe"
    /\ at' = "free"
    /\ handler' = IF ok THEN "running" ELSE "none"
    /\ UNCHANGED <<rowVars, accept, openVars, byChID, subscribed, notes,
                   reading, timers, now, nodeVars>>

\* Fault: the timer does not look at the row.
ProposalUnansweredAlways == TRUE

ProposalUnanswered == status = "waitingForUser" /\ phase = "open"

\* The end of notifyIncomingChannel.
ProposalTimer ==
    /\ waking /\ at = "free"
    /\ now >= ResponseTimeout
    /\ waking' = FALSE
    /\ IF ProposalUnanswered
       THEN phase' = "error" /\ status' = "expired"
       ELSE UNCHANGED <<phase, status>>
    /\ UNCHANGED <<updateID, current, hasCh, lockVars, isIncoming, proposing,
                   goVars, now, nodeVars>>

----------------------------------------------------------------------------
(* Answers of the user. *)

\* respond, respondToProposal and respondToUpdate up to the call.  A row that
\* is settled, closed or in error is left alone.
Respond(a) ==
    /\ at = "free"
    /\ status = "waitingForUser"
    /\ phase \in {"open", "transact", "register"}
    /\ status' = "responding"
    /\ at' = IF phase = "open" THEN "proposal" ELSE "respond"
    /\ accept' = a
    /\ UNCHANGED <<phase, updateID, current, hasCh, openVars, goVars, now,
                   nodeVars>>

\* The client gets an error for a call that changes the channel.  The node may
\* not have got the call, may have refused it, or may be about to make the
\* change, only its reply is lost.
NoReply ==
    \/ UNCHANGED adrift
    \/ nodeState = "open" /\ adrift + ver < MaxVersion /\ adrift' = adrift + 1

\* External: the node makes the change of a call whose reply was lost.
NodeGoesOn ==
    /\ adrift > 0 /\ nodeState = "open" /\ ver < MaxVersion
    /\ adrift' = adrift - 1
    /\ ver' = ver + 1
    /\ lost' = lost \cup {ver'}
    /\ UNCHANGED <<rowVars, lockVars, openVars, goVars, now, nodeState, pending,
                   inbox, closedNotif, expiry>>

\* respondToProposal or respondToUpdate got an error, be it because the node
\* finds the answer late: the row stays "responding".
RespondFails ==
    /\ at \in {"proposal", "respond"}
    /\ at' = "free"
    /\ \/ UNCHANGED <<nodeState, adrift, pending>>
       \/ /\ at = "proposal" /\ accept
          /\ PerhapsOpened
          /\ UNCHANGED <<adrift, pending>>
       \/ /\ at = "respond" /\ nodeState = "open" /\ updateID \in pending
          /\ pending' = pending \ {updateID}
          /\ IF accept THEN NoReply ELSE UNCHANGED adrift
          /\ UNCHANGED nodeState
    /\ UNCHANGED <<rowVars, accept, openVars, goVars, now, ver, lost, inbox,
                   closedNotif, expiry>>

\* respondToProposal, after the call.
RespondToProposalReturns ==
    /\ at = "proposal"
    /\ IF accept
       THEN nodeState' = "open" /\ at' = "opened" /\ UNCHANGED <<phase, status>>
       ELSE /\ phase' = "error" /\ status' = "userRejected"
            /\ at' = "free" /\ UNCHANGED nodeState
    /\ UNCHANGED <<updateID, current, hasCh, accept, openVars, goVars, now, ver,
                   lostVars, pending, inbox, closedNotif, expiry>>

\* Fault: the balances shown are not renewed.
ShowAcceptedKeeps == UNCHANGED current

\* p.current = updatedBalInfo
ShowAccepted == current' = ver'

\* respondToUpdate, after the call.
RespondToUpdateReturns ==
    /\ at = "respond"
    /\ nodeState = "open" /\ updateID \in pending
    /\ accept => ver < MaxVersion
    /\ at' = "free"
    /\ pending' = pending \ {updateID}
    /\ IF accept
       THEN ver' = ver + 1 /\ ShowAccepted /\ status' = "accepted"
       ELSE status' = "userRejected" /\ UNCHANGED <<ver, current>>
    /\ UNCHANGED <<phase, updateID, hasCh, accept, openVars, goVars, now,
                   nodeState, lostVars, inbox, closedNotif, expiry>>

----------------------------------------------------------------------------
(* Payments and closing. *)

\* The test at the beginning of update and closeCh.
ReadyForUpdates ==
    /\ phase = "transact"
    /\ status \notin {"waitingForPeer", "waitingForUser", "responding"}

\* update up to its call.  An amount that does not parse ends it before.
Update ==
    /\ at = "free" /\ ReadyForUpdates
    /\ at' = "update"
    /\ status' = "waitingForPeer"
    /\ UNCHANGED <<phase, updateID, current, hasCh, accept, openVars, goVars,
                   now, nodeVars>>

\* sendUpdate returned: accepted, rejected or timed out, or an error, after
\* which nobody asks the node for its state.
UpdateReturns(result) ==
    /\ at = "update"
    /\ at' = "free"
    /\ status' = result
    /\ IF result = "accepted"
       THEN /\ nodeState = "open" /\ ver < MaxVersion
            /\ ver' = ver + 1 /\ ShowAccepted
       ELSE UNCHANGED <<ver, current>>
    /\ IF result = "errorStatus" THEN NoReply ELSE UNCHANGED adrift
    /\ UNCHANGED <<phase, updateID, hasCh, accept, openVars, goVars, now,
                   nodeState, lost, pending, inbox, closedNotif, expiry>>

\* closeCh up to its call.
CloseCh ==
    /\ at = "free" /\ ReadyForUpdates
    /\ at' = "close"
    /\ phase' = "register" /\ clearUpdate
    /\ UNCHANGED <<updateID, current, hasCh, accept, openVars, goVars, now,
                   nodeVars>>

\* closeCh, after the call.  After an error it goes on, with an empty balInfo;
\* otherwise the final state was agreed, or the close is not collaborative.
CloseReturns(ok) ==
    /\ at = "close"
    /\ ver' \in IF ok /\ ver < MaxVersion THEN {ver, ver + 1} ELSE {ver}
    /\ IF ok THEN UNCHANGED adrift ELSE NoReply
    /\ current' = IF ok THEN ver' ELSE Blank
    /\ phase' = "settle"
    /\ at' = "free"
    /\ UNCHANGED <<status, updateID, hasCh, accept, openVars, goVars, now,
                   nodeState, lost, pending, inbox, closedNotif, expiry>>

----------------------------------------------------------------------------
(* Notifications. *)

\* External: the node serves the stream, or refuses it, because the channel is
\* closed; the error ends the handler.
NodeSubscribes ==
    /\ handler = "running" /\ ~subscribed
    /\ IF nodeState = "open"
       THEN subscribed' = TRUE /\ UNCHANGED handler
       ELSE handler' = "ended" /\ UNCHANGED subscribed
    /\ UNCHANGED <<rowVars, lockVars, openVars, byChID, notes, reading, timers,
                   now, nodeVars>>

\* External: the node takes in an update of the peer and notifies its
\* subscriber, now or when there is one.
PeerProposes(u) ==
    /\ nodeState = "open"
    /\ expiry[u] = 0 /\ u \notin pending
    /\ now + ResponseTimeout <= MaxTime
    /\ expiry' = [expiry EXCEPT ![u] = now + ResponseTimeout]
    /\ pending' = pending \cup {u}
    /\ inbox' = inbox \cup {u}
    /\ UNCHANGED <<rowVars, lockVars, openVars, goVars, now, ver, nodeState,
                   lostVars, closedNotif>>

\* External: the node closes the channel, settled or not, and notifies its
\* subscriber, if it has one.
NodeCloses(result) ==
    /\ nodeState = "open"
    /\ nodeState' = "closed"
    /\ closedNotif' = IF subscribed THEN result ELSE "none"
    /\ UNCHANGED <<rowVars, lockVars, openVars, goVars, now, ver, lostVars,
                   pending, inbox, expiry>>

\* R.getByChID finds the row.
RowFound == byChID

\* incomingUpdateHandler takes a notification of an update from the stream.
RecvUpdate(u) ==
    /\ handler = "running" /\ subscribed
    /\ u \in inbox
    /\ inbox' = inbox \ {u}
    /\ IF RowFound
       THEN notes' = notes \cup {u} /\ UNCHANGED handler
       ELSE handler' = "lost" /\ UNCHANGED notes
    /\ UNCHANGED <<rowVars, lockVars, openVars, byChID, subscribed, reading,
                   timers, now, ver, nodeState, lostVars, pending, closedNotif,
                   expiry>>

\* sub.Recv returns an error: the handler ends and nobody subscribes again.
StreamBreaks ==
    /\ handler = "running"
    /\ handler' = "broken"
    /\ UNCHANGED <<rowVars, lockVars, openVars, byChID, subscribed, notes,
                   reading, timers, now, nodeVars>>

\* Fault: the phase is set in the error case only.
ClosedPhaseSwapped == IF closedNotif = "ok" THEN phase ELSE "closed"

ClosedPhase == IF closedNotif = "ok" THEN "closed" ELSE phase

\* The handler takes the closed notification, which ends it, and
\* notifyClosingUpdate: clearUpdate resets the status in either case.
NotifyClosingUpdate ==
    /\ handler = "running" /\ at = "free"
    /\ closedNotif # "none"
    /\ handler' = "ended"
    /\ phase' = ClosedPhase
    /\ current' = IF closedNotif = "ok" THEN ver ELSE current
    /\ clearUpdate
    /\ UNCHANGED <<updateID, hasCh, lockVars, openVars, byChID, subscribed,
                   notes, reading, timers, now, nodeVars>>

\* notifyNonClosingUpdate up to its Unlock.
NotifyNonClosingUpdate(u) ==
    /\ u \in notes /\ at = "free"
    /\ notes' = notes \ {u}
    /\ reading' = reading \cup {u}
    /\ updateID' = u
    /\ status' = "waitingForUser"
    /\ phase' = IF u \in FinalUpdates THEN "register" ELSE phase
    /\ UNCHANGED <<current, hasCh, lockVars, openVars, byChID, handler,
                   subscribed, timers, now, nodeVars>>

\* time.Sleep(time.Until(expiry))
Wakes(u) == expiry[u]

\* currUpdateID := p.updateID, without the mutex.
ReadUpdateID(u) ==
    /\ u \in reading
    /\ reading' = reading \ {u}
    /\ timers' = timers \cup {<<updateID, Wakes(u)>>}
    /\ UNCHANGED <<rowVars, lockVars, openVars, byChID, handler, subscribed,
                   notes, now, nodeVars>>

\* Fault: updates that finalize the channel do not expire.
UpdateUnansweredOpen(id) ==
    updateID = id /\ status = "waitingForUser" /\ phase = "transact"

UpdateUnanswered(id) ==
    /\ updateID = id /\ status = "waitingForUser"
    /\ phase \in {"transact", "register"}

\* The end of notifyNonClosingUpdate.
UpdateTimer(t) ==
    /\ t \in timers /\ at = "free"
    /\ now >= t[2]
    /\ timers' = timers \ {t}
    /\ status' = IF UpdateUnanswered(t[1]) THEN "expired" ELSE status
    /\ UNCHANGED <<phase, updateID, current, hasCh, lockVars, openVars, byChID,
                   handler, subscribed, notes, reading, now, nodeVars>>

Tick ==
    /\ now < MaxTime
    /\ now' = now + 1
    /\ UNCHANGED <<rowVars, lockVars, openVars, goVars, nodeVars>>

----------------------------------------------------------------------------
\* A call to the node, or the step after it, comes to its end.
CallReturns ==
    \/ ToTransact
    \/ \E ok \in BOOLEAN : SubUpdates(ok) \/ CloseReturns(ok)
    \/ RespondFails
    \/ RespondToProposalReturns
    \/ RespondToUpdateReturns
    \/ \E result \in {"accepted", "peerRejected", "errorStatus"} :
          UpdateReturns(result)

\* acc, rej, send, req and close: each command runs in a goroutine of its own
\* and finds the row by its number.
Command == (\E a \in BOOLEAN : Respond(a)) \/ Update \/ CloseCh

Next ==
    \/ ProposeFails \/ ProposeRejected \/ ProposeAccepted
    \/ ProposalTimer
    \/ Command
    \/ CallReturns
    \/ \E u \in Updates :
          \/ PeerProposes(u)
          \/ RecvUpdate(u)
          \/ NotifyNonClosingUpdate(u)
          \/ ReadUpdateID(u)
    \/ \E t \in timers : UpdateTimer(t)
    \/ \E result \in {"ok", "failed"} : NodeCloses(result)
    \/ NodeSubscribes \/ NodeGoesOn
    \/ NotifyClosingUpdate \/ StreamBreaks
    \/ Tick

Spec == Init /\ [][Next]_vars

\* Time passes, the node answers its calls (they have deadlines there), and
\* goroutines proceed; sync.Mutex does not starve those who wait for it.
Fairness ==
    /\ WF_vars(Tick)
    /\ WF_vars(CallReturns)
    /\ SF_vars(NotifyClosingUpdate)
    /\ \A u \in Updates : WF_vars(ReadUpdateID(u))
    /\ SF_vars(\E t \in timers : UpdateTimer(t))

FairSpec == Spec /\ Fairness

----------------------------------------------------------------------------
(* Properties. *)

\* The balances of a row that takes payments are of a version the node has made,
\* and the only later versions are those whose call got no reply: no other
\* update goes by the row, whoever proposed it, and the row catches up with the
\* next reply.
CurrentMatchesNode ==
    at = "free" /\ phase = "transact" =>
        /\ current <= ver
        /\ \A v \in 0 .. MaxVersion : current < v /\ v <= ver => v \in lost

\* A row that shows an error or an expired proposal has no channel behind it:
\* the timer, the peer's answer and the user's never both open and reject.
ErrorRowHasNoChannel == phase = "error" => ~hasCh /\ nodeState = "none"

\* The handler of the updates never meets a channel it has no row for, which
\* would end it for good.
HandlerFindsRow == handler # "lost"

\* A usable row never waits for the user for ever, although a goroutine may
\* read the ID of an update that is not its own.
WaitEnds ==
    (status = "waitingForUser" /\ phase \in {"transact", "register"})
      ~> (status # "waitingForUser" \/ phase \notin {"transact", "register"})

\* When the node reports a channel as closed and settled, its row gets there,
\* whatever call to the node it is in, unless the stream breaks.
ClosedReachesRow ==
    (closedNotif = "ok" /\ handler = "running")
      ~> (phase = "closed" \/ handler = "broken")

\* A closed row stays closed.  Not so: see NotifyNonClosingUpdate and the
\* README.
ClosedRowStaysClosed == [][phase = "closed" => phase' = "closed"]_vars
=============================================================================
