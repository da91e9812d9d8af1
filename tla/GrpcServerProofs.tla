-------------------------- MODULE GrpcServerProofs --------------------------
(***************************************************************************)
(* Proofs about GrpcServer: a signal is closed once however the calls      *)
(* overlap, and calls that do not overlap never bring the process down,    *)
(* for any number of calls.                                                *)
(***************************************************************************)
EXTENDS GrpcServer, TLAPS

USE GrpcServerAssumption DEF GrpcServerAssumption

\* A signal in the map belongs to a call that waits on it and was not closed;
\* one that was closed belonged to a call that had stored it.
SignalInv ==
    /\ \A s \in Streams : signal = s => stream[s] = "waiting" /\ s \notin signalled
    /\ \A s \in signalled : stream[s] \in {"waiting", "ended"}

\* Where the notifier and the map differ, if calls do not overlap: only while one
\* call is half way through, and then it is known which and how.
ApartInv ==
    apart =>
        /\ ~panicked
        /\ Settled => signal = notifier
        /\ closing => Settled /\ notifier # Nobody
        /\ \A s \in Streams : stream[s] = "subscribed" =>
              /\ notifier = s /\ signal = Nobody
              /\ \A u \in Unsubs : unsub[u] # "unsubscribed"
        /\ \A u \in Unsubs : unsub[u] = "unsubscribed" =>
              /\ notifier = Nobody /\ signal # Nobody /\ removed[u] = signal
              /\ \A v \in Unsubs : unsub[v] = "unsubscribed" => v = u

ServerInv == TypeOK /\ SignalInv /\ ApartInv

----------------------------------------------------------------------------
\* A server starts without subscriptions.
LEMMA ServerInit == Init => ServerInv
  BY DEF Init, ServerInv, TypeOK, SignalInv, ApartInv, Settled, StreamStates,
     UnsubStates

\* Closing a signal keeps the types of what it writes.
LEMMA CloseSignalType ==
    ASSUME TypeOK, CloseSignal
    PROVE  panicked' \in BOOLEAN /\ signalled' \subseteq Streams /\ signal' = Nobody
<1>1. panicked' \in BOOLEAN
  BY DEF CloseSignal
<1>2. signalled' \subseteq Streams
  BY DEF CloseSignal, TypeOK
<1> QED
  BY <1>1, <1>2 DEF CloseSignal

\* Every step of the server, the channel and the session keeps both.
LEMMA ServerStep == ServerInv /\ [Next]_vars => ServerInv'
<1> SUFFICES ASSUME ServerInv, [Next]_vars
             PROVE  TypeOK' /\ SignalInv' /\ ApartInv'
  BY DEF ServerInv
<1>i. TypeOK /\ SignalInv /\ ApartInv
  BY DEF ServerInv
<1> USE <1>i DEF StreamStates, UnsubStates
<1>1. CASE UNCHANGED vars
  <2> USE <1>1 DEF vars
  <2>1. TypeOK'
    BY DEF TypeOK
  <2>2. SignalInv'
    BY DEF TypeOK, SignalInv
  <2>3. ApartInv'
    BY DEF TypeOK, SignalInv, ApartInv, Settled
  <2> QED
    BY <2>1, <2>2, <2>3
<1>2. ASSUME NEW s \in Streams, Subscribe(s)
      PROVE  TypeOK' /\ SignalInv' /\ ApartInv'
  <2> USE <1>2 DEF Subscribe, CanCall
  <2>1. TypeOK'
    BY DEF TypeOK
  <2>2. SignalInv'
    BY DEF TypeOK, SignalInv
  <2>3. ApartInv'
    BY DEF TypeOK, SignalInv, ApartInv, Settled
  <2> QED
    BY <2>1, <2>2, <2>3
<1>3. ASSUME NEW s \in Streams, RegisterSignal(s)
      PROVE  TypeOK' /\ SignalInv' /\ ApartInv'
  <2> USE <1>3 DEF RegisterSignal, StoreSignal
  <2>1. TypeOK'
    BY DEF TypeOK
  <2>2. SignalInv'
    BY DEF TypeOK, SignalInv
  <2>3. ApartInv'
    BY DEF TypeOK, SignalInv, ApartInv, Settled
  <2> QED
    BY <2>1, <2>2, <2>3
<1>4. ASSUME NEW s \in Streams, StreamEnds(s)
      PROVE  TypeOK' /\ SignalInv' /\ ApartInv'
  <2> USE <1>4 DEF StreamEnds
  <2>1. TypeOK'
    BY DEF TypeOK
  <2>2. SignalInv'
    BY DEF TypeOK, SignalInv
  <2>3. ApartInv'
    BY DEF TypeOK, SignalInv, ApartInv, Settled
  <2> QED
    BY <2>1, <2>2, <2>3
<1>5. ASSUME NEW u \in Unsubs, Unsubscribe(u)
      PROVE  TypeOK' /\ SignalInv' /\ ApartInv'
  <2> USE <1>5 DEF Unsubscribe, CanCall
  <2>1. TypeOK'
    BY DEF TypeOK
  <2>2. SignalInv'
    BY DEF TypeOK, SignalInv
  <2>3. ApartInv'
    BY DEF TypeOK, SignalInv, ApartInv, Settled
  <2> QED
    BY <2>1, <2>2, <2>3
<1>6. ASSUME NEW u \in Unsubs, UnsubReturns(u)
      PROVE  TypeOK' /\ SignalInv' /\ ApartInv'
  <2> USE <1>6 DEF UnsubReturns, closeGrpcPayChUpdateSub,
     closeGrpcPayChProposalSub, CloseSignal
  <2>1. TypeOK'
    <3>1. CloseSignal
      OBVIOUS
    <3>2. panicked' \in BOOLEAN /\ signalled' \subseteq Streams /\ signal' = Nobody
      BY <3>1, CloseSignalType
    <3> QED
      BY <3>1, <3>2 DEF TypeOK
  <2>2. SignalInv'
    BY DEF TypeOK, SignalInv
  <2>3. ApartInv'
    BY DEF TypeOK, SignalInv, ApartInv, Settled
  <2> QED
    BY <2>1, <2>2, <2>3
<1>7. CASE ChannelCloses
  <2> USE <1>7 DEF ChannelCloses, CanCall
  <2>1. TypeOK'
    BY DEF TypeOK
  <2>2. SignalInv'
    BY DEF TypeOK, SignalInv
  <2>3. ApartInv'
    BY DEF TypeOK, SignalInv, ApartInv, Settled
  <2> QED
    BY <2>1, <2>2, <2>3
<1>8. CASE NotifyClosed
  <2> USE <1>8 DEF NotifyClosed, closeGrpcPayChUpdateSub, CloseSignal
  <2>1. TypeOK'
    <3>1. CloseSignal
      OBVIOUS
    <3>2. panicked' \in BOOLEAN /\ signalled' \subseteq Streams /\ signal' = Nobody
      BY <3>1, CloseSignalType
    <3> QED
      BY <3>1, <3>2 DEF TypeOK
  <2>2. SignalInv'
    BY DEF TypeOK, SignalInv
  <2>3. ApartInv'
    BY DEF TypeOK, SignalInv, ApartInv, Settled
  <2> QED
    BY <2>1, <2>2, <2>3
<1>9. CASE CloseSession
  <2> USE <1>9 DEF CloseSession, CanCall
  <2>1. TypeOK'
    BY DEF TypeOK
  <2>2. SignalInv'
    BY DEF TypeOK, SignalInv
  <2>3. ApartInv'
    BY DEF TypeOK, SignalInv, ApartInv, Settled
  <2> QED
    BY <2>1, <2>2, <2>3
<1> QED
  BY <1>1, <1>2, <1>3, <1>4, <1>5, <1>6, <1>7, <1>8, <1>9
     DEF Next, SubPayChUpdates, SubPayChProposals, UnsubPayChUpdates,
         UnsubPayChProposals

\* How notifier and map correspond, in every state of the server.
LEMMA ServerInvariant == Spec => []ServerInv
  BY ServerInit, ServerStep, PTL DEF Spec

\* Type correctness, for any number of calls.
THEOREM ServerTypeCorrect == Spec => []TypeOK
<1>1. ServerInv => TypeOK
  BY DEF ServerInv
<1> QED
  BY <1>1, ServerInvariant, PTL

\* Calls that do not overlap never close a nil or closed signal
\* (api/grpc/server.go, closeGrpcPayChUpdateSub and closeGrpcPayChProposalSub).
THEOREM ApartCallsAreSafe == Spec => []ApartCallsSafe
<1>1. ServerInv => ApartCallsSafe
  BY DEF ServerInv, ApartInv, ApartCallsSafe
<1> QED
  BY <1>1, ServerInvariant, PTL

\* However the calls overlap, what is in a map of the server was not closed:
\* the entry is deleted in the critical section that closes it.
THEOREM SignalsClosedOnce == Spec => []SignalClosedOnce
<1>1. ServerInv => SignalClosedOnce
  BY DEF ServerInv, TypeOK, SignalInv, SignalClosedOnce
<1> QED
  BY <1>1, ServerInvariant, PTL

\* UnsubPayChUpdates and UnsubPayChProposals end the stream whose notifier they
\* have removed, if calls do not overlap: the map has its signal and no other.
THEOREM UnsubSignalsStream == Spec => UnsubSignalsItsStream
<1>1. ServerInv /\ [Next]_vars =>
        [\A u \in Unsubs :
           apart /\ unsub[u] = "unsubscribed" /\ unsub'[u] = "returned" =>
             removed[u] # Nobody /\ signalled' = signalled \cup {removed[u]}]_vars
  <2> SUFFICES ASSUME ServerInv, Next, NEW u \in Unsubs, apart,
                      unsub[u] = "unsubscribed", unsub'[u] = "returned"
               PROVE  removed[u] # Nobody /\ signalled' = signalled \cup {removed[u]}
    OBVIOUS
  <2>1. removed[u] = signal /\ signal # Nobody /\ ~Settled
    BY DEF ServerInv, ApartInv, Settled
  <2>2. UnsubReturns(u)
    BY <2>1 DEF ServerInv, TypeOK, Next, SubPayChUpdates, SubPayChProposals, Subscribe,
       RegisterSignal, StreamEnds, UnsubPayChUpdates, UnsubPayChProposals,
       Unsubscribe, UnsubReturns, ChannelCloses, NotifyClosed, CloseSession, CanCall
  <2> QED
    BY <2>1, <2>2 DEF UnsubReturns, closeGrpcPayChUpdateSub,
       closeGrpcPayChProposalSub, CloseSignal
<1> QED
  BY <1>1, ServerInvariant, PTL DEF Spec, UnsubSignalsItsStream
=============================================================================
