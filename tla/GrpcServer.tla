----------------------------- MODULE GrpcServer -----------------------------
(***************************************************************************)
(* Subscriptions in the gRPC server, api/grpc/server.go: to the updates of *)
(* a channel or to the channel proposals of a session, how they are made,  *)
(* removed, and ended when the channel is closed.                          *)
(*                                                                         *)
(* A subscription is kept in two places: its notifier in the channel or    *)
(* the session, under a mutex there, and its signal in a map of the        *)
(* server, under the server's.  Subscribing fills them, and the ways of    *)
(* ending a subscription empty them, one after the other with neither      *)
(* mutex held in between.  The two kinds share no state; a behaviour is    *)
(* about one of them, its `kind'.                                          *)
(***************************************************************************)
CONSTANTS
    Streams,     \* calls that subscribe
    Unsubs,      \* calls that unsubscribe
    Nobody       \* a nil notifier, or no entry in the map

ASSUME GrpcServerAssumption == Nobody \notin Streams

VARIABLES
    kind,            \* never changes: "updates" or "proposals"
    notifier,        \* ch.chUpdateNotifier, respectively s.chProposalNotifier:
                     \* the stream it sends to
    isClosed,        \* the channel, respectively the session, is closed
    closing,         \* the closed notification is being sent, ch locked
    signal,          \* a.chUpdatesNotif[session][channel], respectively
                     \* a.chProposalsNotif[session]: the stream to signal
    stream,          \* where each call that subscribes is
    unsub,           \* where each call that unsubscribes is
    removed,         \* history: the stream whose notifier each one removed
    signalled,       \* streams whose signal was closed
    panicked,        \* a nil or closed signal was closed: the process died
    apart            \* never changes: whether calls happen to start, and the
                     \* channel to close, only while no subscription is half
                     \* made or half removed

vars == <<kind, notifier, isClosed, closing, signal, stream, unsub, removed,
          signalled, panicked, apart>>

StreamStates == {"new", "subscribed", "waiting", "ended", "refused"}
UnsubStates == {"new", "unsubscribed", "returned", "refused"}

TypeOK ==
    /\ kind \in {"updates", "proposals"}
    /\ notifier \in Streams \cup {Nobody}
    /\ isClosed \in BOOLEAN
    /\ closing \in BOOLEAN
    /\ signal \in Streams \cup {Nobody}
    /\ stream \in [Streams -> StreamStates]
    /\ unsub \in [Unsubs -> UnsubStates]
    /\ removed \in [Unsubs -> Streams \cup {Nobody}]
    /\ signalled \subseteq Streams
    /\ panicked \in BOOLEAN
    /\ apart \in BOOLEAN

Init ==
    /\ kind \in {"updates", "proposals"}
    /\ notifier = Nobody
    /\ isClosed = FALSE /\ closing = FALSE
    /\ signal = Nobody
    /\ stream = [s \in Streams |-> "new"]
    /\ unsub = [u \in Unsubs |-> "new"]
    /\ removed = [u \in Unsubs |-> Nobody]
    /\ signalled = {}
    /\ panicked = FALSE
    /\ apart \in BOOLEAN

\* No subscription is half made or half removed.
Settled ==
    /\ \A s \in Streams : stream[s] # "subscribed"
    /\ \A u \in Unsubs : unsub[u] # "unsubscribed"

\* A call on the channel can start: the process lives, the mutex is free.
CanCall == ~panicked /\ ~closing /\ (apart => Settled)

----------------------------------------------------------------------------
\* A subscription is refused when there is one, or nothing to subscribe to.
Subscribe(s) ==
    /\ CanCall
    /\ stream[s] = "new"
    /\ IF isClosed \/ notifier # Nobody
       THEN /\ stream' = [stream EXCEPT ![s] = "refused"]
            /\ UNCHANGED notifier
       ELSE /\ stream' = [stream EXCEPT ![s] = "subscribed"]
            /\ notifier' = s
    /\ UNCHANGED <<kind, isClosed, closing, signal, unsub, removed, signalled,
                   panicked, apart>>

\* SubPayChUpdates up to ch.SubChUpdates.
SubPayChUpdates(s) == kind = "updates" /\ Subscribe(s)

\* SubPayChProposals up to sess.SubChProposals.
SubPayChProposals(s) == kind = "proposals" /\ Subscribe(s)

\* Fault: the signal is not put into the map.
StoreSignalForgets(s) == UNCHANGED signal

\* a.chUpdatesNotif[req.SessionID][req.ChID] = signal, under the mutex.
StoreSignal(s) == signal' = s

\* The call registers its signal, in one of the two maps, and waits on it.
RegisterSignal(s) ==
    /\ ~panicked
    /\ stream[s] = "subscribed"
    /\ stream' = [stream EXCEPT ![s] = "waiting"]
    /\ StoreSignal(s)
    /\ UNCHANGED <<kind, notifier, isClosed, closing, unsub, removed, signalled,
                   panicked, apart>>

\* The signal is closed and the call returns, which ends the stream.
StreamEnds(s) ==
    /\ ~panicked
    /\ stream[s] = "waiting"
    /\ s \in signalled
    /\ stream' = [stream EXCEPT ![s] = "ended"]
    /\ UNCHANGED <<kind, notifier, isClosed, closing, signal, unsub, removed,
                   signalled, panicked, apart>>

\* Fault: the entry is deleted before it is read.
CloseSignalLate ==
    /\ signal' = Nobody
    /\ UNCHANGED <<signalled, panicked>>

\* Takes the signal out of the map and closes it.  Closing a nil channel, or
\* one already closed, panics.
CloseSignal ==
    /\ signal' = Nobody
    /\ signalled' = signalled \cup ({signal} \ {Nobody})
    /\ panicked' = (signal \in {Nobody} \cup signalled)

\* Each kind has a function of its own with this body.
closeGrpcPayChUpdateSub == kind = "updates" /\ CloseSignal
closeGrpcPayChProposalSub == kind = "proposals" /\ CloseSignal

\* An unsubscription is refused when there is nothing to remove.
Unsubscribe(u) ==
    /\ CanCall
    /\ unsub[u] = "new"
    /\ IF isClosed \/ notifier = Nobody
       THEN /\ unsub' = [unsub EXCEPT ![u] = "refused"]
            /\ UNCHANGED <<notifier, removed>>
       ELSE /\ unsub' = [unsub EXCEPT ![u] = "unsubscribed"]
            /\ notifier' = Nobody
            /\ removed' = [removed EXCEPT ![u] = notifier]
    /\ UNCHANGED <<kind, isClosed, closing, signal, stream, signalled, panicked,
                   apart>>

\* UnsubPayChUpdates up to ch.UnsubChUpdates.
UnsubPayChUpdates(u) == kind = "updates" /\ Unsubscribe(u)

\* UnsubPayChProposals up to sess.UnsubChProposals.
UnsubPayChProposals(u) == kind = "proposals" /\ Unsubscribe(u)

\* The rest of either.
UnsubReturns(u) ==
    /\ ~panicked
    /\ unsub[u] = "unsubscribed"
    /\ unsub' = [unsub EXCEPT ![u] = "returned"]
    /\ closeGrpcPayChUpdateSub \/ closeGrpcPayChProposalSub
    /\ UNCHANGED <<kind, notifier, isClosed, closing, stream, removed, apart>>

\* Channel.closeAndNotify up to the call of the notifier.
ChannelCloses ==
    /\ kind = "updates"
    /\ CanCall
    /\ ~isClosed
    /\ isClosed' = TRUE
    /\ closing' = (notifier # Nobody)
    /\ UNCHANGED <<kind, notifier, signal, stream, unsub, removed, signalled,
                   panicked, apart>>

\* The notifier sends the closed notification, then ends the stream;
\* closeAndNotify then drops the notifier and the mutex is released.
NotifyClosed ==
    /\ ~panicked
    /\ closing
    /\ closeGrpcPayChUpdateSub
    /\ notifier' = Nobody
    /\ closing' = FALSE
    /\ UNCHANGED <<kind, isClosed, stream, unsub, removed, apart>>

\* CloseSession: nobody is notified, and the notifier stays where it is.
CloseSession ==
    /\ kind = "proposals"
    /\ CanCall
    /\ ~isClosed
    /\ isClosed' = TRUE
    /\ UNCHANGED <<kind, notifier, closing, signal, stream, unsub, removed,
                   signalled, panicked, apart>>

Next ==
    \/ \E s \in Streams :
          \/ SubPayChUpdates(s) \/ SubPayChProposals(s)
          \/ RegisterSignal(s)
          \/ StreamEnds(s)
    \/ \E u \in Unsubs :
          \/ UnsubPayChUpdates(u) \/ UnsubPayChProposals(u)
          \/ UnsubReturns(u)
    \/ ChannelCloses
    \/ NotifyClosed
    \/ CloseSession

Spec == Init /\ [][Next]_vars

\* Calls that were accepted get on; no client has to call anything.
Fairness ==
    /\ \A s \in Streams : WF_vars(RegisterSignal(s)) /\ WF_vars(StreamEnds(s))
    /\ \A u \in Unsubs : WF_vars(UnsubReturns(u))
    /\ WF_vars(NotifyClosed)

FairSpec == Spec /\ Fairness

----------------------------------------------------------------------------
(* Properties. *)

\* A signal in the map was not closed yet, so that closing it once more cannot
\* be what brings the process down.  Holds however the calls overlap.
SignalClosedOnce == signal \notin signalled

\* Calls that do not overlap never bring the process down, in whichever of the
\* two ways subscriptions end.
ApartCallsSafe == apart => ~panicked

\* If calls do not overlap, an unsubscription signals the stream whose notifier
\* it has removed, and no other.
UnsubSignalsItsStream ==
    [][\A u \in Unsubs :
         apart /\ unsub[u] = "unsubscribed" /\ unsub'[u] = "returned" =>
             removed[u] # Nobody /\ signalled' = signalled \cup {removed[u]}]_vars

\* If calls do not overlap, the one that removed a stream's notifier makes the
\* stream end.
UnsubEndsStream ==
    \A s \in Streams :
        apart /\ (\E u \in Unsubs : removed[u] = s) ~> stream[s] = "ended"

\* If calls do not overlap, every stream on the updates of a channel ends when
\* the channel is closed.
ClosedChannelEndsStreams ==
    apart /\ kind = "updates" /\ isClosed
      ~> \A s \in Streams : stream[s] \notin {"subscribed", "waiting"}

\* Nobody waits on a session that is closed.  Not so: the stream of its
\* proposals stays, see CloseSession and the README.
ClosedSessionEndsStreams ==
    kind = "proposals" /\ isClosed
      ~> \A s \in Streams : stream[s] \notin {"subscribed", "waiting"}

\* Whoever ends a subscription finds its signal in the map, for any clients: what
\* the comment on the maps of the server says.  Not so: a subscription can be ended
\* before its signal is stored, and a nil channel closed (see the README).
EntryForActiveSubscription == ~panicked
=============================================================================
