---------------------------- MODULE ClientProofs ----------------------------
(***************************************************************************)
(* Proofs about the two clients of a node.  TuiChannel: what a row of the  *)
(* terminal client shows, for any updates, any response timeout and any    *)
(* order of events.  Cli: what the command line client has shown before it *)
(* accepts, for any number of channels, sessions, subscriptions and        *)
(* updates.  The two share nothing.                                        *)
(***************************************************************************)
EXTENDS TuiChannel, Cli, FiniteSetTheorems, SequenceTheorems, TLAPS

----------------------------------------------------------------------------
(* TuiChannel. *)

USE TuiChannelAssumption DEF TuiChannelAssumption

\* The phases of a row that has got its channel.
Usable == phase \notin {"open", "error"}

\* While a proposal may still be refused or expire there is no channel: at most
\* one of propose and respond is waiting for the node's answer, a row in error
\* waits for nothing, and a row whose call failed is never answered again.
OpeningInv ==
    /\ proposing => /\ at = "free" /\ phase = "open" /\ nodeState = "none"
                    /\ status = "waitingForPeer"
    /\ phase = "error" => at = "free" /\ nodeState = "none" /\ ~proposing
    /\ phase = "open" => at \in {"free", "proposal", "opened"}
    /\ at = "proposal" => nodeState = "none" /\ phase = "open"
    /\ at = "opened" => nodeState # "none" /\ phase = "open"
    /\ phase = "open" /\ at = "proposal" => status = "responding"
    /\ phase = "open" /\ at = "free" /\ status = "waitingForUser" =>
          nodeState = "none"
    /\ Usable => nodeState # "none"

\* The holder of the row's mutex is in a call that fits the phase: nobody
\* changes the phase under it.
CallInv ==
    /\ at \in {"subscribe", "update"} => phase = "transact"
    /\ at = "close" => phase = "register"
    /\ at = "respond" => phase \in {"transact", "register"}

\* Only a row that has got its channel is indexed by it, has a handler, shows
\* updates or has an update to answer.
KnownInv ==
    /\ hasCh \/ byChID \/ updateID # NoID => Usable
    /\ handler # "none" \/ at = "subscribe" => byChID
    /\ notes # {} => byChID
    /\ handler # "lost"

\* What the node has made since the version shown was made by calls that got no
\* reply.
OnlyLost == \A v \in 0 .. MaxVersion : current < v /\ v <= ver => v \in lost

\* A row that takes payments shows a version the node has made, and lags behind
\* by lost replies only, also while it is in a call.
VersionInv == phase = "transact" => current <= ver /\ OnlyLost

RowInv == TypeOK /\ OpeningInv /\ CallInv /\ KnownInv /\ VersionInv

----------------------------------------------------------------------------
\* A new row, of the user's proposal or of the peer's, has no channel.
LEMMA RowInit == Init => RowInv
<1> SUFFICES ASSUME Init PROVE RowInv
  OBVIOUS
<1> USE DEF Init, newOutgoingChannel, newIncomingChannel
<1>1. TypeOK
  <2>1. /\ isIncoming \in BOOLEAN /\ hasCh \in BOOLEAN /\ accept \in BOOLEAN
        /\ proposing \in BOOLEAN /\ waking \in BOOLEAN /\ byChID \in BOOLEAN
        /\ subscribed \in BOOLEAN
    OBVIOUS
  <2>2. timers \subseteq (Updates \cup {NoID}) \X (0 .. MaxTime)
    OBVIOUS
  <2>3. expiry \in [Updates -> 0 .. MaxTime] /\ now \in 0 .. MaxTime
    OBVIOUS
  <2>4. ver \in 0 .. MaxVersion /\ current \in 0 .. Blank
    BY DEF Blank
  <2> QED
    BY <2>1, <2>2, <2>3, <2>4 DEF TypeOK, chPhase, responseStatus
<1>2. OpeningInv /\ CallInv /\ KnownInv /\ VersionInv
  BY DEF OpeningInv, CallInv, KnownInv, VersionInv, OnlyLost, Usable
<1> QED
  BY <1>1, <1>2 DEF RowInv

\* Every step of a command, a call, a notification, a timer and the node keeps
\* what the row shows in line with the node.
LEMMA RowStep == RowInv /\ [Next]_vars => RowInv'
<1> SUFFICES ASSUME RowInv, [Next]_vars
             PROVE  TypeOK' /\ OpeningInv' /\ CallInv' /\ KnownInv' /\ VersionInv'
  BY DEF RowInv
<1>i. TypeOK /\ OpeningInv /\ CallInv /\ KnownInv /\ VersionInv
  BY DEF RowInv
<1> USE <1>i DEF rowVars, lockVars, openVars, goVars, lostVars, nodeVars
<1>1. CASE UNCHANGED vars
  <2> USE <1>1 DEF vars
  <2>1. TypeOK'
    BY DEF TypeOK, chPhase, responseStatus, Blank
  <2>2. OpeningInv' /\ CallInv'
    BY DEF TypeOK, chPhase, responseStatus, OpeningInv, CallInv, KnownInv, Usable
  <2>3. KnownInv' /\ VersionInv'
    BY DEF TypeOK, chPhase, OpeningInv, CallInv, KnownInv, VersionInv, OnlyLost, Usable
  <2> QED
    BY <2>1, <2>2, <2>3
<1>2. CASE ProposeFails
  <2> USE <1>2 DEF ProposeFails, PerhapsOpened
  <2>1. TypeOK'
    <3>1. proposing' \in BOOLEAN
      OBVIOUS
    <3> QED
      BY <3>1 DEF TypeOK, chPhase, responseStatus, Blank
  <2>2. OpeningInv' /\ CallInv'
    BY DEF TypeOK, chPhase, responseStatus, OpeningInv, CallInv, KnownInv, Usable
  <2>3. KnownInv' /\ VersionInv'
    BY DEF TypeOK, chPhase, OpeningInv, CallInv, KnownInv, VersionInv, OnlyLost, Usable
  <2> QED
    BY <2>1, <2>2, <2>3
<1>3. CASE ProposeRejected
  <2> USE <1>3 DEF ProposeRejected
  <2>1. TypeOK'
    <3>1. proposing' \in BOOLEAN
      BY DEF TypeOK
    <3> QED
      BY <3>1 DEF TypeOK, chPhase, responseStatus, Blank
  <2>2. OpeningInv' /\ CallInv'
    BY DEF TypeOK, chPhase, responseStatus, OpeningInv, CallInv, KnownInv, Usable
  <2>3. KnownInv' /\ VersionInv'
    BY DEF TypeOK, chPhase, OpeningInv, CallInv, KnownInv, VersionInv, OnlyLost, Usable
  <2> QED
    BY <2>1, <2>2, <2>3
<1>4. CASE ProposeAccepted
  <2> USE <1>4 DEF ProposeAccepted
  <2>1. TypeOK'
    <3>1. proposing' \in BOOLEAN
      OBVIOUS
    <3> QED
      BY <3>1 DEF TypeOK, chPhase, responseStatus, Blank
  <2>2. OpeningInv' /\ CallInv'
    BY DEF TypeOK, chPhase, responseStatus, OpeningInv, CallInv, KnownInv, Usable
  <2>3. KnownInv' /\ VersionInv'
    BY DEF TypeOK, chPhase, OpeningInv, CallInv, KnownInv, VersionInv, OnlyLost, Usable
  <2> QED
    BY <2>1, <2>2, <2>3
<1>5. CASE ProposalTimer
  <2> USE <1>5 DEF ProposalTimer, ProposalUnanswered
  <2>1. TypeOK'
    <3>1. waking' \in BOOLEAN
      OBVIOUS
    <3> QED
      BY <3>1 DEF TypeOK, chPhase, responseStatus, Blank
  <2>2. OpeningInv' /\ CallInv'
    BY DEF TypeOK, chPhase, responseStatus, OpeningInv, CallInv, KnownInv, Usable
  <2>3. KnownInv' /\ VersionInv'
    BY DEF TypeOK, chPhase, OpeningInv, CallInv, KnownInv, VersionInv, OnlyLost, Usable
  <2> QED
    BY <2>1, <2>2, <2>3
<1>6. ASSUME NEW a \in BOOLEAN, Respond(a)
      PROVE  TypeOK' /\ OpeningInv' /\ CallInv' /\ KnownInv' /\ VersionInv'
  <2> USE <1>6 DEF Respond
  <2>1. TypeOK'
    BY DEF TypeOK, chPhase, responseStatus, Blank
  <2>2. OpeningInv' /\ CallInv'
    BY DEF TypeOK, chPhase, responseStatus, OpeningInv, CallInv, KnownInv, Usable
  <2>3. KnownInv' /\ VersionInv'
    BY DEF TypeOK, chPhase, OpeningInv, CallInv, KnownInv, VersionInv, OnlyLost, Usable
  <2> QED
    BY <2>1, <2>2, <2>3
<1>7. CASE Update
  <2> USE <1>7 DEF Update, ReadyForUpdates
  <2>1. TypeOK'
    BY DEF TypeOK, chPhase, responseStatus, Blank
  <2>2. OpeningInv' /\ CallInv'
    BY DEF TypeOK, chPhase, responseStatus, OpeningInv, CallInv, KnownInv, Usable
  <2>3. KnownInv' /\ VersionInv'
    BY DEF TypeOK, chPhase, OpeningInv, CallInv, KnownInv, VersionInv, OnlyLost, Usable
  <2> QED
    BY <2>1, <2>2, <2>3
<1>8. CASE CloseCh
  <2> USE <1>8 DEF CloseCh, ReadyForUpdates, clearUpdate
  <2>1. TypeOK'
    BY DEF TypeOK, chPhase, responseStatus, Blank
  <2>2. OpeningInv' /\ CallInv'
    BY DEF TypeOK, chPhase, responseStatus, OpeningInv, CallInv, KnownInv, Usable
  <2>3. KnownInv' /\ VersionInv'
    BY DEF TypeOK, chPhase, OpeningInv, CallInv, KnownInv, VersionInv, OnlyLost, Usable
  <2> QED
    BY <2>1, <2>2, <2>3
<1>9. CASE ToTransact
  <2> USE <1>9 DEF ToTransact, SetChID, clearUpdate
  <2>1. TypeOK'
    BY DEF TypeOK, chPhase, responseStatus, Blank
  <2>2. OpeningInv' /\ CallInv'
    BY DEF TypeOK, chPhase, responseStatus, OpeningInv, CallInv, KnownInv, Usable
  <2>3. KnownInv' /\ VersionInv'
    BY DEF TypeOK, chPhase, OpeningInv, CallInv, KnownInv, VersionInv, OnlyLost, Usable
  <2> QED
    BY <2>1, <2>2, <2>3
<1>10. ASSUME NEW ok \in BOOLEAN, SubUpdates(ok)
      PROVE  TypeOK' /\ OpeningInv' /\ CallInv' /\ KnownInv' /\ VersionInv'
  <2> USE <1>10 DEF SubUpdates
  <2>1. TypeOK'
    BY DEF TypeOK, chPhase, responseStatus, Blank
  <2>2. OpeningInv' /\ CallInv'
    BY DEF TypeOK, chPhase, responseStatus, OpeningInv, CallInv, KnownInv, Usable
  <2>3. KnownInv' /\ VersionInv'
    BY DEF TypeOK, chPhase, OpeningInv, CallInv, KnownInv, VersionInv, OnlyLost, Usable
  <2> QED
    BY <2>1, <2>2, <2>3
<1>11. ASSUME NEW ok \in BOOLEAN, CloseReturns(ok)
      PROVE  TypeOK' /\ OpeningInv' /\ CallInv' /\ KnownInv' /\ VersionInv'
  <2> USE <1>11 DEF CloseReturns, NoReply
  <2>1. TypeOK'
    BY DEF TypeOK, chPhase, responseStatus, Blank
  <2>2. OpeningInv' /\ CallInv'
    BY DEF TypeOK, chPhase, responseStatus, OpeningInv, CallInv, KnownInv, Usable
  <2>3. KnownInv' /\ VersionInv'
    BY DEF TypeOK, chPhase, OpeningInv, CallInv, KnownInv, VersionInv, OnlyLost, Usable
  <2> QED
    BY <2>1, <2>2, <2>3
<1>12. CASE RespondFails
  <2> USE <1>12 DEF RespondFails, NoReply, PerhapsOpened
  <2>1. TypeOK'
    BY DEF TypeOK, chPhase, responseStatus, Blank
  <2>2. OpeningInv' /\ CallInv'
    BY DEF TypeOK, chPhase, responseStatus, OpeningInv, CallInv, KnownInv, Usable
  <2>3. KnownInv' /\ VersionInv'
    BY DEF TypeOK, chPhase, OpeningInv, CallInv, KnownInv, VersionInv, OnlyLost, Usable
  <2> QED
    BY <2>1, <2>2, <2>3
<1>13. CASE RespondToProposalReturns
  <2> USE <1>13 DEF RespondToProposalReturns
  <2>1. TypeOK'
    BY DEF TypeOK, chPhase, responseStatus, Blank
  <2>2. OpeningInv' /\ CallInv'
    BY DEF TypeOK, chPhase, responseStatus, OpeningInv, CallInv, KnownInv, Usable
  <2>3. KnownInv' /\ VersionInv'
    BY DEF TypeOK, chPhase, OpeningInv, CallInv, KnownInv, VersionInv, OnlyLost, Usable
  <2> QED
    BY <2>1, <2>2, <2>3
<1>14. CASE RespondToUpdateReturns
  <2> USE <1>14 DEF RespondToUpdateReturns, ShowAccepted
  <2>1. TypeOK'
    BY DEF TypeOK, chPhase, responseStatus, Blank
  <2>2. OpeningInv' /\ CallInv'
    BY DEF TypeOK, chPhase, responseStatus, OpeningInv, CallInv, KnownInv, Usable
  <2>3. KnownInv' /\ VersionInv'
    BY DEF TypeOK, chPhase, OpeningInv, CallInv, KnownInv, VersionInv, OnlyLost, Usable
  <2> QED
    BY <2>1, <2>2, <2>3
<1>15. ASSUME NEW result \in {"accepted", "peerRejected", "errorStatus"},
             UpdateReturns(result)
      PROVE  TypeOK' /\ OpeningInv' /\ CallInv' /\ KnownInv' /\ VersionInv'
  <2> USE <1>15 DEF UpdateReturns, NoReply, ShowAccepted
  <2>1. TypeOK'
    BY DEF TypeOK, chPhase, responseStatus, Blank
  <2>2. OpeningInv' /\ CallInv'
    BY DEF TypeOK, chPhase, responseStatus, OpeningInv, CallInv, KnownInv, Usable
  <2>3. KnownInv' /\ VersionInv'
    BY DEF TypeOK, chPhase, OpeningInv, CallInv, KnownInv, VersionInv, OnlyLost, Usable
  <2> QED
    BY <2>1, <2>2, <2>3
<1>16. ASSUME NEW u \in Updates, PeerProposes(u)
      PROVE  TypeOK' /\ OpeningInv' /\ CallInv' /\ KnownInv' /\ VersionInv'
  <2> USE <1>16 DEF PeerProposes
  <2>1. TypeOK'
    BY DEF TypeOK, chPhase, responseStatus, Blank
  <2>2. OpeningInv' /\ CallInv'
    BY DEF TypeOK, chPhase, responseStatus, OpeningInv, CallInv, KnownInv, Usable
  <2>3. KnownInv' /\ VersionInv'
    BY DEF TypeOK, chPhase, OpeningInv, CallInv, KnownInv, VersionInv, OnlyLost, Usable
  <2> QED
    BY <2>1, <2>2, <2>3
<1>17. ASSUME NEW u \in Updates, RecvUpdate(u)
      PROVE  TypeOK' /\ OpeningInv' /\ CallInv' /\ KnownInv' /\ VersionInv'
  <2> USE <1>17 DEF RecvUpdate, RowFound
  <2>1. TypeOK'
    BY DEF TypeOK, chPhase, responseStatus, Blank
  <2>2. OpeningInv' /\ CallInv'
    BY DEF TypeOK, chPhase, responseStatus, OpeningInv, CallInv, KnownInv, Usable
  <2>3. KnownInv' /\ VersionInv'
    BY DEF TypeOK, chPhase, OpeningInv, CallInv, KnownInv, VersionInv, OnlyLost, Usable
  <2> QED
    BY <2>1, <2>2, <2>3
<1>18. ASSUME NEW u \in Updates, NotifyNonClosingUpdate(u)
      PROVE  TypeOK' /\ OpeningInv' /\ CallInv' /\ KnownInv' /\ VersionInv'
  <2> USE <1>18 DEF NotifyNonClosingUpdate
  <2>1. TypeOK'
    BY DEF TypeOK, chPhase, responseStatus, Blank
  <2>2. OpeningInv' /\ CallInv'
    BY DEF TypeOK, chPhase, responseStatus, OpeningInv, CallInv, KnownInv, Usable
  <2>3. KnownInv' /\ VersionInv'
    BY DEF TypeOK, chPhase, OpeningInv, CallInv, KnownInv, VersionInv, OnlyLost, Usable
  <2> QED
    BY <2>1, <2>2, <2>3
<1>19. ASSUME NEW u \in Updates, ReadUpdateID(u)
      PROVE  TypeOK' /\ OpeningInv' /\ CallInv' /\ KnownInv' /\ VersionInv'
  <2> USE <1>19 DEF ReadUpdateID, Wakes
  <2>1. TypeOK'
    BY DEF TypeOK, chPhase, responseStatus, Blank
  <2>2. OpeningInv' /\ CallInv'
    BY DEF TypeOK, chPhase, responseStatus, OpeningInv, CallInv, KnownInv, Usable
  <2>3. KnownInv' /\ VersionInv'
    BY DEF TypeOK, chPhase, OpeningInv, CallInv, KnownInv, VersionInv, OnlyLost, Usable
  <2> QED
    BY <2>1, <2>2, <2>3
<1>20. ASSUME NEW t \in timers, UpdateTimer(t)
      PROVE  TypeOK' /\ OpeningInv' /\ CallInv' /\ KnownInv' /\ VersionInv'
  <2> USE <1>20 DEF UpdateTimer, UpdateUnanswered
  <2>1. TypeOK'
    BY DEF TypeOK, chPhase, responseStatus, Blank
  <2>2. OpeningInv' /\ CallInv'
    BY DEF TypeOK, chPhase, responseStatus, OpeningInv, CallInv, KnownInv, Usable
  <2>3. KnownInv' /\ VersionInv'
    BY DEF TypeOK, chPhase, OpeningInv, CallInv, KnownInv, VersionInv, OnlyLost, Usable
  <2> QED
    BY <2>1, <2>2, <2>3
<1>21. ASSUME NEW result \in {"ok", "failed"}, NodeCloses(result)
      PROVE  TypeOK' /\ OpeningInv' /\ CallInv' /\ KnownInv' /\ VersionInv'
  <2> USE <1>21 DEF NodeCloses
  <2>1. TypeOK'
    BY DEF TypeOK, chPhase, responseStatus, Blank
  <2>2. OpeningInv' /\ CallInv'
    BY DEF TypeOK, chPhase, responseStatus, OpeningInv, CallInv, KnownInv, Usable
  <2>3. KnownInv' /\ VersionInv'
    BY DEF TypeOK, chPhase, OpeningInv, CallInv, KnownInv, VersionInv, OnlyLost, Usable
  <2> QED
    BY <2>1, <2>2, <2>3
<1>22. CASE NotifyClosingUpdate
  <2> USE <1>22 DEF NotifyClosingUpdate, ClosedPhase, clearUpdate
  <2>1. TypeOK'
    BY DEF TypeOK, chPhase, responseStatus, Blank
  <2>2. OpeningInv' /\ CallInv'
    BY DEF TypeOK, chPhase, responseStatus, OpeningInv, CallInv, KnownInv, Usable
  <2>3. KnownInv' /\ VersionInv'
    BY DEF TypeOK, chPhase, OpeningInv, CallInv, KnownInv, VersionInv, OnlyLost, Usable
  <2> QED
    BY <2>1, <2>2, <2>3
<1>23. CASE Tick
  <2> USE <1>23 DEF Tick
  <2>1. TypeOK'
    BY DEF TypeOK, chPhase, responseStatus, Blank
  <2>2. OpeningInv' /\ CallInv'
    BY DEF TypeOK, chPhase, responseStatus, OpeningInv, CallInv, KnownInv, Usable
  <2>3. KnownInv' /\ VersionInv'
    BY DEF TypeOK, chPhase, OpeningInv, CallInv, KnownInv, VersionInv, OnlyLost, Usable
  <2> QED
    BY <2>1, <2>2, <2>3
<1>24. CASE NodeSubscribes
  <2> USE <1>24 DEF NodeSubscribes
  <2>1. TypeOK'
    <3>1. subscribed' \in BOOLEAN
      BY DEF TypeOK
    <3> QED
      BY <3>1 DEF TypeOK, chPhase, responseStatus, Blank
  <2>2. OpeningInv' /\ CallInv'
    BY DEF TypeOK, chPhase, responseStatus, OpeningInv, CallInv, KnownInv, Usable
  <2>3. KnownInv' /\ VersionInv'
    BY DEF TypeOK, chPhase, OpeningInv, CallInv, KnownInv, VersionInv, OnlyLost, Usable
  <2> QED
    BY <2>1, <2>2, <2>3
<1>25. CASE NodeGoesOn
  <2> USE <1>25 DEF NodeGoesOn
  <2>1. TypeOK'
    BY DEF TypeOK, chPhase, responseStatus, Blank
  <2>2. OpeningInv' /\ CallInv'
    BY DEF TypeOK, chPhase, responseStatus, OpeningInv, CallInv, KnownInv, Usable
  <2>3. KnownInv' /\ VersionInv'
    BY DEF TypeOK, chPhase, OpeningInv, CallInv, KnownInv, VersionInv, OnlyLost, Usable
  <2> QED
    BY <2>1, <2>2, <2>3
<1>26. CASE StreamBreaks
  <2> USE <1>26 DEF StreamBreaks
  <2>1. TypeOK'
    BY DEF TypeOK, chPhase, responseStatus, Blank
  <2>2. OpeningInv' /\ CallInv'
    BY DEF TypeOK, chPhase, responseStatus, OpeningInv, CallInv, KnownInv, Usable
  <2>3. KnownInv' /\ VersionInv'
    BY DEF TypeOK, chPhase, OpeningInv, CallInv, KnownInv, VersionInv, OnlyLost, Usable
  <2> QED
    BY <2>1, <2>2, <2>3
<1> QED
  BY <1>1, <1>2, <1>3, <1>4, <1>5, <1>6, <1>7, <1>8, <1>9, <1>10, <1>11, <1>12,
     <1>13, <1>14, <1>15, <1>16, <1>17, <1>18, <1>19, <1>20, <1>21, <1>22, <1>23,
     <1>24, <1>25, <1>26
     DEF Next, Command, CallReturns

\* What the row shows is in line with the node in every state.
LEMMA RowInvariant == Spec => []RowInv
  BY RowInit, RowStep, PTL DEF Spec

\* Type correctness: no phase or status outside the ones declared, no version
\* beyond the node's.
THEOREM RowTypeCorrect == Spec => []TypeOK
<1>1. RowInv => TypeOK
  BY DEF RowInv
<1> QED
  BY <1>1, RowInvariant, PTL

\* The balances a row shows while it takes payments are those of the node,
\* whoever proposed the updates, up to the updates that the node made without
\* its reply reaching the client (paymentclient.go:264, 239).
THEOREM RowMatchesNode == Spec => []CurrentMatchesNode
<1>1. RowInv => CurrentMatchesNode
  BY DEF RowInv, VersionInv, OnlyLost, CurrentMatchesNode
<1> QED
  BY <1>1, RowInvariant, PTL

\* The timer of a proposal (notifyIncomingChannel), the peer's answer and the
\* user's never put a row into error behind which the node has a channel.
THEOREM ErrorMeansNoChannel == Spec => []ErrorRowHasNoChannel
<1>1. RowInv => ErrorRowHasNoChannel
  BY DEF RowInv, OpeningInv, KnownInv, Usable, ErrorRowHasNoChannel
<1> QED
  BY <1>1, RowInvariant, PTL

\* incomingUpdateHandler finds the row of every notification, because setChID
\* comes before subUpdates.
THEOREM HandlerNeverLost == Spec => []HandlerFindsRow
<1>1. RowInv => HandlerFindsRow
  BY DEF RowInv, KnownInv, HandlerFindsRow
<1> QED
  BY <1>1, RowInvariant, PTL

----------------------------------------------------------------------------
(* Cli. *)

USE CliAssumption DEF CliAssumption

\* What an entry can be answered with was shown.
OpenInv ==
    /\ openChannelsCounter \in Nat /\ openChannelsList \in Seq(Nat)
    /\ DOMAIN openChannelsMap \subseteq Nat
    /\ \A a \in DOMAIN openChannelsMap :
          /\ openChannelsMap[a] \in Entry
          /\ openChannelsMap[a].latest \in shown \cup {NoUpdate}

NotifInv ==
    /\ channelNotifCounter \in Nat
    /\ DOMAIN channelNotifMap \subseteq Nat
    /\ \A a \in DOMAIN channelNotifMap : channelNotifMap[a] \in Offered

\* What a handler is about to store was shown.
HandlersInv ==
    /\ handlers \in Seq(Handler)
    /\ \A i \in DOMAIN handlers : handlers[i].stage = "store" =>
          handlers[i].inbox # <<>> /\ Msg(i).type = "update" /\ Msg(i).id \in shown

NodeType == node \in NodeState

ShellInv ==
    /\ connected \in BOOLEAN /\ crashed \in BOOLEAN
    /\ cmd \in Commands
    /\ requests \in Seq(Offered)
    /\ sent \in Nat /\ shown \subseteq UpdateIDs /\ accepted \subseteq shown

CliInv == OpenInv /\ NotifInv /\ HandlersInv /\ NodeType /\ ShellInv

----------------------------------------------------------------------------
(* Lists. *)

\* The orders of a finite set are sequences.
LEMMA OrdersOfSet ==
    ASSUME NEW S, IsFiniteSet(S), NEW list \in SetToSeqs(S)
    PROVE  list \in Seq(S)
<1>1. Cardinality(S) \in Nat
  BY FS_CardinalityType
<1>2. list \in [1 .. Cardinality(S) -> S]
  BY DEF SetToSeqs
<1> QED
  BY <1>1, <1>2

\* The orders of a sequence are sequences of the same elements.
LEMMA OrdersOfSeq ==
    ASSUME NEW S, NEW s \in Seq(S), NEW list \in Orders(s)
    PROVE  list \in Seq(S)
<1>1. Len(s) \in Nat /\ DOMAIN s = 1 .. Len(s) /\ \A i \in 1 .. Len(s) : s[i] \in S
  BY LenProperties, ElementOfSeq
<1>2. PICK p \in [DOMAIN s -> DOMAIN s] : list = [i \in DOMAIN s |-> s[p[i]]]
  BY DEF Orders
<1>3. list \in [1 .. Len(s) -> S]
  BY <1>1, <1>2
<1> QED
  BY <1>1, <1>3

\* An index that was found is one of the list; none is 0.
LEMMA IndexType ==
    ASSUME NEW list \in Seq(Nat), NEW alias
    PROVE  IndexOf(list, alias) \in Nat
<1>1. Len(list) \in Nat /\ DOMAIN list = 1 .. Len(list)
  BY LenProperties
<1> QED
  BY <1>1 DEF IndexOf

\* The list stays a list of aliases while one is removed.
LEMMA ListSwapped ==
    ASSUME openChannelsList \in Seq(Nat), crashed \in BOOLEAN, NEW idx, SwapAlias(idx)
    PROVE  openChannelsList' \in Seq(Nat) /\ crashed' \in BOOLEAN
<1> DEFINE n == Len(openChannelsList)
<1>1. /\ n \in Nat /\ DOMAIN openChannelsList = 1 .. n
      /\ openChannelsList \in [1 .. n -> Nat]
  BY LenProperties
<1>2. CASE idx \in DOMAIN openChannelsList
  <2>1. n \in DOMAIN openChannelsList
    BY <1>1, <1>2
  <2>2. openChannelsList' \in [1 .. n -> Nat]
    BY <1>1, <1>2, <2>1 DEF SwapAlias, NoAlias
  <2>3. \A f \in [1 .. n -> Nat] : f \in Seq(Nat)
    BY <1>1
  <2> QED
    BY <1>2, <2>2, <2>3 DEF SwapAlias
<1>3. CASE idx \notin DOMAIN openChannelsList
  BY <1>3 DEF SwapAlias
<1> QED
  BY <1>2, <1>3

LEMMA ListCut ==
    ASSUME openChannelsList \in Seq(Nat), crashed \in BOOLEAN, CutLast
    PROVE  openChannelsList' \in Seq(Nat) /\ crashed' \in BOOLEAN
<1>1. CASE openChannelsList # <<>>
  <2>1. openChannelsList' = SubSeq(openChannelsList, 1, Len(openChannelsList) - 1)
    BY <1>1 DEF CutLast, Front
  <2> QED
    BY <1>1, <2>1 DEF CutLast
<1>2. CASE openChannelsList = <<>>
  BY <1>2 DEF CutLast
<1> QED
  BY <1>1, <1>2

----------------------------------------------------------------------------
(* The parts of the invariant. *)

\* What does not touch a part keeps it; more may have been shown.
LEMMA PartsKept ==
    ASSUME shown \subseteq shown'
    PROVE  /\ OpenInv /\ UNCHANGED openChannelVars => OpenInv'
           /\ NotifInv /\ UNCHANGED notifVars => NotifInv'
           /\ HandlersInv /\ UNCHANGED handlers => HandlersInv'
           /\ NodeType /\ UNCHANGED node => NodeType'
<1>1. OpenInv /\ UNCHANGED openChannelVars => OpenInv'
  BY DEF OpenInv, openChannelVars
<1>2. NotifInv /\ UNCHANGED notifVars => NotifInv'
  BY DEF NotifInv, notifVars
<1>3. HandlersInv /\ UNCHANGED handlers => HandlersInv'
  BY DEF HandlersInv, Msg
<1>4. NodeType /\ UNCHANGED node => NodeType'
  BY DEF NodeType
<1> QED
  BY <1>1, <1>2, <1>3, <1>4

LEMMA NotifRemoved ==
    ASSUME NotifInv, NEW alias, removeChannelNotif(alias)
    PROVE  NotifInv'
  BY DEF NotifInv, removeChannelNotif, Without

LEMMA NotifAdded ==
    ASSUME NotifInv, NEW p \in Offered, addChannelNotif(p)
    PROVE  NotifInv'
  BY DEF NotifInv, addChannelNotif, With

LEMMA OpenRemoved ==
    ASSUME OpenInv, NEW alias, removeOpenChannelID(alias), UNCHANGED shown
    PROVE  OpenInv'
  BY DEF OpenInv, removeOpenChannelID, Without

\* A new entry has nothing to be answered.
LEMMA OpenAdded ==
    ASSUME OpenInv, UNCHANGED shown, NEW c \in ChIDs, NEW restored \in Seq(ChIDs),
           NEW notif \in Nat, addOpenChannelID(c, restored, notif)
    PROVE  OpenInv' /\ cmd' \in Commands
<1> DEFINE alias == openChannelsCounter + 1
           entry == [id |-> c, latest |-> NoUpdate]
<1>1. alias \in Nat /\ entry \in Entry /\ entry.latest = NoUpdate
  BY DEF OpenInv, Entry
<1>2. /\ openChannelsMap' = With(openChannelsMap, alias, entry)
      /\ openChannelsCounter' = alias /\ openChannelsList' = openChannelsList
      /\ cmd' = [fn |-> "list", alias |-> alias, restored |-> restored, notif |-> notif]
  BY DEF addOpenChannelID
<1> HIDE DEF alias, entry
<1>3. OpenInv'
  BY <1>1, <1>2 DEF OpenInv, With
<1> QED
  BY <1>1, <1>2, <1>3 DEF Commands

\* The entry of an alias gets another latest notification; list and counter stay.
LEMMA LatestSet ==
    ASSUME OpenInv, shown \subseteq UpdateIDs, NEW alias, NEW u \in shown \cup {NoUpdate},
           openChannelsMap' = [openChannelsMap EXCEPT ![alias].latest = u],
           UNCHANGED <<openChannelsCounter, openChannelsList, shown>>
    PROVE  OpenInv'
<1>1. DOMAIN openChannelsMap' = DOMAIN openChannelsMap
  OBVIOUS
<1>2. ASSUME NEW a \in DOMAIN openChannelsMap
      PROVE  /\ openChannelsMap'[a] \in Entry
             /\ openChannelsMap'[a].latest \in shown \cup {NoUpdate}
  <2>1. openChannelsMap[a] \in Entry /\ openChannelsMap[a].latest \in shown \cup {NoUpdate}
    BY DEF OpenInv
  <2> QED
    BY <2>1 DEF Entry
<1> QED
  BY <1>1, <1>2 DEF OpenInv

\* A subscription adds a handler that waits for its first message.
LEMMA Subscribed ==
    ASSUME HandlersInv, NodeType, UNCHANGED shown,
           NEW c \in ChIDs, NEW alias \in Nat, Subscribe(c, alias)
    PROVE  HandlersInv' /\ NodeType'
<1>1. CASE node.ch[c] = "open" /\ node.stream[c] = 0 /\ node.session # 0
  <2>1. PICK queue \in Orders(node.cache[c]) :
          handlers' = Append(handlers, [alias |-> alias, id |-> c, inbox |-> queue,
                                        stage |-> "recv", idx |-> 0])
    BY <1>1 DEF Subscribe
  <2> DEFINE h == [alias |-> alias, id |-> c, inbox |-> queue, stage |-> "recv", idx |-> 0]
  <2>2. node.cache[c] \in Seq(Messages)
    BY DEF NodeType, NodeState
  <2>3. queue \in Seq(Messages)
    BY <2>2, OrdersOfSeq
  <2>4. h \in Handler /\ h.stage = "recv"
    BY <2>3 DEF Handler, Stages
  <2>5. /\ handlers \in Seq(Handler) /\ Len(handlers) \in Nat
        /\ DOMAIN handlers = 1 .. Len(handlers)
    BY LenProperties DEF HandlersInv
  <2>6. handlers' = Append(handlers, h)
    BY <2>1
  <2> HIDE DEF h
  <2>7. /\ handlers' \in Seq(Handler) /\ DOMAIN handlers' = 1 .. Len(handlers) + 1
        /\ \A i \in DOMAIN handlers : handlers'[i] = handlers[i]
        /\ handlers'[Len(handlers) + 1].stage = "recv"
    BY <2>4, <2>5, <2>6, AppendProperties, LenProperties
  <2>8. HandlersInv'
    BY <2>5, <2>7 DEF HandlersInv, Msg
  <2>9. NodeType'
    <3> DEFINE stream == [node.stream EXCEPT ![c] = Len(handlers) + 1]
               cache == [node.cache EXCEPT ![c] = <<>>]
    <3>1. stream \in [ChIDs -> Nat] /\ cache \in [ChIDs -> Seq(Messages)]
      BY <2>5, EmptySeq DEF NodeType, NodeState
    <3>2. node' = [node EXCEPT !.stream = stream, !.cache = cache]
      BY <1>1 DEF Subscribe
    <3> HIDE DEF stream, cache
    <3> QED
      BY <3>1, <3>2 DEF NodeType, NodeState
  <2> QED
    BY <2>8, <2>9
<1>2. CASE ~(node.ch[c] = "open" /\ node.stream[c] = 0 /\ node.session # 0)
  <2>1. UNCHANGED <<node, handlers>>
    BY <1>2 DEF Subscribe
  <2> QED
    BY <2>1, PartsKept
<1> QED
  BY <1>1, <1>2

\* A message joins an inbox behind the one that is read.
LEMMA MessageAppended ==
    ASSUME NEW queue \in Seq(Messages), NEW m \in Messages
    PROVE  /\ Append(queue, m) \in Seq(Messages) /\ Append(queue, m) # <<>>
           /\ queue # <<>> => Head(Append(queue, m)) = Head(queue)
<1>1. /\ Append(queue, m) \in Seq(Messages) /\ Len(Append(queue, m)) = Len(queue) + 1
      /\ \A i \in 1 .. Len(queue) : Append(queue, m)[i] = queue[i]
  BY AppendProperties
<1>2. Len(queue) \in Nat /\ (queue # <<>> => Len(queue) # 0)
  BY LenProperties, EmptySeq
<1>3. Append(queue, m) # <<>>
  BY <1>1, <1>2, EmptySeq
<1>4. queue # <<>> => Head(Append(queue, m)) = Head(queue)
  BY <1>1, <1>2, HeadTailProperties
<1> QED
  BY <1>1, <1>3, <1>4

\* The types of a handler and of what it has to read.
LEMMA HandlerFields ==
    ASSUME HandlersInv, NEW i \in DOMAIN handlers
    PROVE  /\ handlers[i] \in Handler /\ handlers[i].alias \in Nat
           /\ handlers[i].inbox \in Seq(Messages)
           /\ handlers[i].inbox # <<>> =>
                 Msg(i) \in Messages /\ Tail(handlers[i].inbox) \in Seq(Messages)
<1>1. handlers[i] \in Handler
  BY LenProperties, ElementOfSeq DEF HandlersInv
<1>2. handlers[i].alias \in Nat /\ handlers[i].inbox \in Seq(Messages)
  BY <1>1 DEF Handler
<1> QED
  BY <1>1, <1>2, HeadTailProperties DEF Msg

\* One handler goes on; what it is about to store, if anything, was shown.
LEMMA HandlerGoesOn ==
    ASSUME HandlersInv, shown \subseteq shown', NEW i \in DOMAIN handlers, NEW h \in Handler,
           handlers' = [handlers EXCEPT ![i] = h],
           h.stage = "store" =>
              h.inbox # <<>> /\ Head(h.inbox).type = "update" /\ Head(h.inbox).id \in shown'
    PROVE  HandlersInv'
<1>1. Len(handlers) \in Nat /\ DOMAIN handlers = 1 .. Len(handlers)
  BY LenProperties DEF HandlersInv
<1>2. \A j \in DOMAIN handlers : handlers[j] \in Handler
  BY HandlerFields
<1>3. /\ handlers' \in [1 .. Len(handlers) -> Handler] /\ DOMAIN handlers' = DOMAIN handlers
      /\ handlers'[i] = h /\ \A j \in DOMAIN handlers : j # i => handlers'[j] = handlers[j]
  BY <1>1, <1>2
<1>4. \A n \in Nat : \A f \in [1 .. n -> Handler] : f \in Seq(Handler)
  OBVIOUS
<1>5. handlers' \in Seq(Handler)
  BY ONLY <1>1, <1>3, <1>4
<1> QED
  BY <1>3, <1>5 DEF HandlersInv, Msg

\* A handler is done with its message.
LEMMA MessageRead ==
    ASSUME HandlersInv, UNCHANGED shown, NEW i \in DOMAIN handlers,
           handlers[i].inbox # <<>>, NEW stage \in Stages \ {"store"}, NEW idx \in Nat,
           handlers' = [handlers EXCEPT ![i].inbox = Tail(@), ![i].idx = idx,
                                        ![i].stage = stage]
    PROVE  HandlersInv'
<1> DEFINE h == [handlers[i] EXCEPT !.inbox = Tail(handlers[i].inbox), !.idx = idx,
                                    !.stage = stage]
<1>1. handlers[i] \in Handler /\ Tail(handlers[i].inbox) \in Seq(Messages)
  BY HandlerFields
<1>2. h \in Handler /\ h.stage # "store"
  BY <1>1 DEF Handler
<1>3. handlers' = [handlers EXCEPT ![i] =
                     [handlers[i] EXCEPT !.inbox = Tail(@), !.idx = idx, !.stage = stage]]
  OBVIOUS
<1>4. [handlers[i] EXCEPT !.inbox = Tail(@), !.idx = idx, !.stage = stage] = h
  BY <1>1 DEF Handler
<1>5. handlers' = [handlers EXCEPT ![i] = h]
  BY <1>3, <1>4
<1> HIDE DEF h
<1> QED
  BY <1>2, <1>5, HandlerGoesOn

\* A message joins the inbox of a handler, behind the one it is at.
LEMMA MessageSent ==
    ASSUME HandlersInv, UNCHANGED shown, NEW m \in Messages, NEW k \in DOMAIN handlers,
           handlers' = [handlers EXCEPT ![k].inbox = Append(@, m)]
    PROVE  HandlersInv'
<1> DEFINE h == [handlers[k] EXCEPT !.inbox = Append(handlers[k].inbox, m)]
<1>1. handlers[k] \in Handler /\ handlers[k].inbox \in Seq(Messages)
  BY HandlerFields
<1>2. /\ Append(handlers[k].inbox, m) \in Seq(Messages)
      /\ Append(handlers[k].inbox, m) # <<>>
      /\ handlers[k].inbox # <<>> =>
           Head(Append(handlers[k].inbox, m)) = Head(handlers[k].inbox)
  BY <1>1, MessageAppended
<1>3. /\ h \in Handler /\ h.stage = handlers[k].stage
      /\ h.inbox = Append(handlers[k].inbox, m)
  BY <1>1, <1>2 DEF Handler
<1>4. handlers' = [handlers EXCEPT ![k] = h]
  OBVIOUS
<1> HIDE DEF h
<1>5. h.stage = "store" =>
        h.inbox # <<>> /\ Head(h.inbox).type = "update" /\ Head(h.inbox).id \in shown'
  BY <1>2, <1>3 DEF HandlersInv, Msg
<1> QED
  BY <1>3, <1>4, <1>5, HandlerGoesOn

----------------------------------------------------------------------------
(* The steps of the shell. *)

USE DEF CliInv

\* A command that sends its request and leaves the tables for its reply.
LEMMA RequestSent ==
    ASSUME CliInv, NEW c \in Commands, NEW n, Request(c, n), NodeType',
           accepted' \subseteq shown
    PROVE  CliInv'
<1>1. UNCHANGED <<openChannelVars, notifVars, handlers, connected, crashed, requests,
                  sent, shown>> /\ cmd' = c
  BY DEF Request, tables, openChannelVars, notifVars
<1>2. OpenInv' /\ NotifInv' /\ HandlersInv'
  BY <1>1, PartsKept
<1> QED
  BY <1>1, <1>2 DEF ShellInv

LEMMA ConnectStep ==
    ASSUME CliInv, nodeConnectFn PROVE CliInv'
<1>1. UNCHANGED <<openChannelVars, notifVars, cmd, handlers, crashed, requests, node,
                  sent, shown, accepted>> /\ connected' = TRUE
  BY DEF nodeConnectFn, tables, openChannelVars, notifVars, outside, hist
<1>2. OpenInv' /\ NotifInv' /\ HandlersInv' /\ NodeType'
  BY <1>1, PartsKept
<1> QED
  BY <1>1, <1>2 DEF ShellInv

LEMMA SessionOpenStep ==
    ASSUME CliInv, sessionOpenFn PROVE CliInv'
<1> DEFINE open == {c \in ChIDs : node.ch[c] = "open"}
<1>1. UNCHANGED <<openChannelVars, notifVars, handlers, connected, crashed, requests,
                  sent, shown, accepted>>
  BY DEF sessionOpenFn, tables, openChannelVars, notifVars, hist
<1>2. OpenInv' /\ NotifInv' /\ HandlersInv'
  BY <1>1, PartsKept
<1>3. NodeType'
  <2> DEFINE n == node.sessions + 1
  <2>1. n \in Nat /\ node' = [node EXCEPT !.session = n, !.sessions = n]
    BY DEF sessionOpenFn, NodeType, NodeState
  <2> HIDE DEF n
  <2> QED
    BY <2>1 DEF NodeType, NodeState
<1>4. PICK list \in SetToSeqs(open) : cmd' = [fn |-> "sessionOpen", restored |-> list]
  BY DEF sessionOpenFn
<1>5. list \in Seq(ChIDs)
  <2>1. IsFiniteSet(open) /\ open \subseteq ChIDs
    BY FS_Subset
  <2> HIDE DEF open
  <2>2. list \in Seq(open)
    BY <2>1, OrdersOfSet
  <2> QED
    BY <2>1, <2>2, SeqMonotonic
<1>6. cmd' \in Commands
  BY <1>4, <1>5 DEF Commands
<1> QED
  BY <1>1, <1>2, <1>3, <1>6 DEF ShellInv

\* What the fields of a command are that has sent its request.
LEMMA CommandFields ==
    ASSUME cmd \in Commands
    PROVE  /\ cmd.fn = "sessionOpen" => cmd.restored \in Seq(ChIDs)
           /\ cmd.fn = "channelSend" => cmd.id \in ChIDs
           /\ cmd.fn = "channelRespond" => cmd.id \in ChIDs /\ cmd.alias \in Nat
           /\ cmd.fn = "list" => cmd.alias \in Nat /\ cmd.restored \in Seq(ChIDs)
<1>1. CASE cmd = Idle
  BY <1>1 DEF Idle
<1>2. CASE cmd \in [fn : {"sessionOpen"}, restored : Seq(ChIDs)]
  BY <1>2
<1>3. CASE cmd \in [fn : {"sessionClose", "cut"}]
  BY <1>3
<1>4. CASE cmd \in [fn : {"channelSend"}, id : ChIDs]
  BY <1>4
<1>5. CASE cmd \in [fn : {"channelRespond"}, alias : Nat, id : ChIDs, accept : BOOLEAN]
  BY <1>5
<1>6. CASE cmd \in [fn : {"channelClose", "paymentRespond"}, alias : Nat]
  BY <1>6
<1>7. CASE cmd \in [fn : {"list"}, alias : Nat, restored : Seq(ChIDs), notif : Nat]
  BY <1>7
<1>8. CASE cmd \in [fn : {"swap"}, idx : Nat]
  BY <1>8
<1> QED
  BY <1>1, <1>2, <1>3, <1>4, <1>5, <1>6, <1>7, <1>8 DEF Commands

LEMMA SessionOpenedStep ==
    ASSUME CliInv, SessionOpened PROVE CliInv'
<1>1. /\ UNCHANGED <<connected, notifVars, handlers, requests, crashed, node, sent, shown,
                     accepted>>
      /\ cmd.fn = "sessionOpen"
  BY DEF SessionOpened, Replied, outside, hist
<1>2. NotifInv' /\ HandlersInv' /\ NodeType'
  BY <1>1, PartsKept
<1>3. OpenInv' /\ cmd' \in Commands
  <2>1. CASE cmd.restored # <<>>
    <3>1. Head(cmd.restored) \in ChIDs /\ Tail(cmd.restored) \in Seq(ChIDs)
      BY <1>1, <2>1, CommandFields, HeadTailProperties DEF ShellInv
    <3>2. addOpenChannelID(Head(cmd.restored), Tail(cmd.restored), 0)
      BY <2>1 DEF SessionOpened
    <3> QED
      BY <1>1, <3>1, <3>2, OpenAdded
  <2>2. CASE cmd.restored = <<>>
    <3>1. cmd' = Idle /\ UNCHANGED openChannelVars
      BY <2>2 DEF SessionOpened
    <3> QED
      BY <1>1, <3>1, PartsKept DEF Commands
  <2> QED
    BY <2>1, <2>2
<1> QED
  BY <1>1, <1>2, <1>3 DEF ShellInv

LEMMA OpenChannelListedStep ==
    ASSUME CliInv, OpenChannelListed PROVE CliInv'
<1>1. /\ UNCHANGED <<connected, openChannelsCounter, openChannelsMap, requests, crashed,
                     sent, shown, accepted>>
      /\ openChannelsList' = Append(openChannelsList, cmd.alias)
      /\ removeChannelNotif(cmd.notif) /\ cmd.fn = "list"
  BY DEF OpenChannelListed, Replied, hist
<1>2. cmd.alias \in Nat /\ cmd.restored \in Seq(ChIDs)
  BY <1>1, CommandFields DEF ShellInv
<1>3. openChannelsList' \in Seq(Nat)
  BY <1>1, <1>2, AppendProperties DEF OpenInv
<1>4. OpenInv'
  BY <1>1, <1>3 DEF OpenInv
<1>5. NotifInv'
  BY <1>1, NotifRemoved
<1>6. HandlersInv' /\ NodeType'
  <2>1. CASE cmd.alias \in DOMAIN openChannelsMap
    <3>1. Subscribe(openChannelsMap[cmd.alias].id, cmd.alias)
      BY <2>1 DEF OpenChannelListed
    <3>2. openChannelsMap[cmd.alias].id \in ChIDs
      BY <2>1 DEF OpenInv, Entry
    <3> QED
      BY <1>1, <1>2, <3>1, <3>2, Subscribed
  <2>2. CASE cmd.alias \notin DOMAIN openChannelsMap
    <3>1. UNCHANGED <<node, handlers>>
      BY <2>2 DEF OpenChannelListed
    <3> QED
      BY <1>1, <3>1, PartsKept
  <2> QED
    BY <2>1, <2>2
<1>7. cmd' \in Commands
  <2>1. cmd' = Idle \/ cmd' = [fn |-> "sessionOpen", restored |-> cmd.restored]
    BY DEF OpenChannelListed
  <2> QED
    BY <1>2, <2>1 DEF Commands
<1> QED
  BY <1>1, <1>4, <1>5, <1>6, <1>7 DEF ShellInv

LEMMA SessionCloseStep ==
    ASSUME CliInv, sessionCloseFn PROVE CliInv'
<1> DEFINE none == [c \in ChIDs |-> 0]
           empty == [c \in ChIDs |-> <<>>]
           n == [node EXCEPT !.session = 0, !.pending = {}, !.proposed = {},
                             !.stream = none, !.cache = empty]
<1>1. Request([fn |-> "sessionClose"], n) /\ accepted' = accepted
  BY DEF sessionCloseFn
<1>2. none \in [ChIDs -> Nat] /\ empty \in [ChIDs -> Seq(Messages)]
  BY EmptySeq
<1>3. NodeType'
  <2>1. node' = n
    BY <1>1 DEF Request
  <2> HIDE DEF none, empty
  <2> QED
    BY <1>2, <2>1 DEF NodeType, NodeState
<1>4. [fn |-> "sessionClose"] \in Commands
  BY DEF Commands
<1> QED
  BY <1>1, <1>3, <1>4, RequestSent DEF ShellInv

\* Nothing is left of the tables.
LEMMA SessionClosedStep ==
    ASSUME CliInv, SessionClosed PROVE CliInv'
<1>1. UNCHANGED <<connected, handlers, requests, crashed, node, sent, shown, accepted>>
      /\ resetLocalCache /\ cmd' = Idle
  BY DEF SessionClosed, outside, hist, Replied
<1>2. HandlersInv' /\ NodeType'
  BY <1>1, PartsKept
<1>3. DOMAIN EmptyMap = {} /\ <<>> \in Seq(Nat)
  BY EmptySeq DEF EmptyMap
<1>4. OpenInv' /\ NotifInv'
  BY <1>1, <1>3 DEF resetLocalCache, OpenInv, NotifInv
<1> QED
  BY <1>1, <1>2, <1>4 DEF ShellInv, Commands

LEMMA ChannelSendStep ==
    ASSUME CliInv, channelSendFn PROVE CliInv'
<1>1. PICK c \in ChIDs : Request([fn |-> "channelSend", id |-> c], [node EXCEPT !.ch[c] = "open"])
                         /\ accepted' = accepted
  BY DEF channelSendFn
<1> DEFINE ch == [node.ch EXCEPT ![c] = "open"]
<1>2. ch \in [ChIDs -> {"new", "open", "closed"}]
  BY DEF NodeType, NodeState
<1>3. node' = [node EXCEPT !.ch = ch]
  BY <1>1 DEF Request
<1> HIDE DEF ch
<1>4. NodeType'
  BY <1>2, <1>3 DEF NodeType, NodeState
<1>5. [fn |-> "channelSend", id |-> c] \in Commands
  BY DEF Commands
<1> QED
  BY <1>1, <1>4, <1>5, RequestSent DEF ShellInv

LEMMA ChannelOpenedStep ==
    ASSUME CliInv, ChannelOpened PROVE CliInv'
<1>1. /\ UNCHANGED <<connected, notifVars, handlers, requests, crashed, node, sent, shown,
                     accepted>>
      /\ cmd.fn = "channelSend" /\ addOpenChannelID(cmd.id, <<>>, 0)
  BY DEF ChannelOpened, Replied, outside, hist
<1>2. cmd.id \in ChIDs /\ <<>> \in Seq(ChIDs)
  BY <1>1, CommandFields, EmptySeq DEF ShellInv
<1>3. OpenInv' /\ cmd' \in Commands
  BY <1>1, <1>2, OpenAdded
<1>4. NotifInv' /\ HandlersInv' /\ NodeType'
  BY <1>1, PartsKept
<1> QED
  BY <1>1, <1>3, <1>4 DEF ShellInv

LEMMA ChannelRespondStep ==
    ASSUME CliInv, channelRespondFn PROVE CliInv'
<1>1. PICK a \in DOMAIN channelNotifMap, answer \in BOOLEAN :
        LET c == channelNotifMap[a] IN
        /\ Request([fn |-> "channelRespond", alias |-> a, id |-> c, accept |-> answer],
                   [node EXCEPT !.proposed = @ \ {c},
                                !.ch[c] = IF answer THEN "open" ELSE "closed"])
        /\ accepted' = accepted
  BY DEF channelRespondFn
<1> DEFINE c == channelNotifMap[a]
           state == IF answer THEN "open" ELSE "closed"
           ch == [node.ch EXCEPT ![c] = state]
           n == [node EXCEPT !.proposed = @ \ {c}, !.ch = ch]
<1>2. a \in Nat /\ c \in ChIDs
  BY DEF NotifInv
<1>3. ch \in [ChIDs -> {"new", "open", "closed"}]
  BY <1>2 DEF NodeType, NodeState
<1>4. node' = n
  BY <1>1 DEF Request
<1> HIDE DEF ch
<1>5. NodeType'
  BY <1>3, <1>4 DEF NodeType, NodeState
<1>6. [fn |-> "channelRespond", alias |-> a, id |-> c, accept |-> answer] \in Commands
  BY <1>2 DEF Commands
<1> QED
  BY <1>1, <1>5, <1>6, RequestSent DEF ShellInv

LEMMA RequestRespondedStep ==
    ASSUME CliInv, RequestResponded PROVE CliInv'
<1>1. /\ UNCHANGED <<connected, handlers, requests, crashed, node, sent, shown, accepted>>
      /\ cmd.fn = "channelRespond"
  BY DEF RequestResponded, Replied, outside, hist
<1>2. HandlersInv' /\ NodeType'
  BY <1>1, PartsKept
<1>3. OpenInv' /\ NotifInv' /\ cmd' \in Commands
  <2>1. CASE cmd.accept
    <3>1. addOpenChannelID(cmd.id, <<>>, cmd.alias) /\ UNCHANGED notifVars
      BY <2>1 DEF RequestResponded
    <3>2. cmd.id \in ChIDs /\ cmd.alias \in Nat /\ <<>> \in Seq(ChIDs)
      BY <1>1, CommandFields, EmptySeq DEF ShellInv
    <3>3. OpenInv' /\ cmd' \in Commands
      BY <1>1, <3>1, <3>2, OpenAdded
    <3> QED
      BY <1>1, <3>1, <3>3, PartsKept
  <2>2. CASE ~cmd.accept
    <3>1. removeChannelNotif(cmd.alias) /\ cmd' = Idle /\ UNCHANGED openChannelVars
      BY <2>2 DEF RequestResponded
    <3> QED
      BY <1>1, <3>1, NotifRemoved, PartsKept DEF Commands
  <2> QED
    BY <2>1, <2>2
<1> QED
  BY <1>1, <1>2, <1>3 DEF ShellInv

LEMMA ChannelRespondFailsStep ==
    ASSUME CliInv, ChannelRespondFails PROVE CliInv'
<1>1. PICK a \in DOMAIN channelNotifMap :
        /\ removeChannelNotif(a)
        /\ UNCHANGED <<connected, openChannelVars, cmd, handlers,
                       requests, crashed, node, sent, shown, accepted>>
  BY DEF ChannelRespondFails, outside, hist
<1>2. OpenInv' /\ NotifInv' /\ HandlersInv' /\ NodeType'
  BY <1>1, NotifRemoved, PartsKept
<1> QED
  BY <1>1, <1>2 DEF ShellInv

LEMMA ChannelCloseStep ==
    ASSUME CliInv, chCloseNSettleFn PROVE CliInv'
<1>1. PICK a \in DOMAIN openChannelsMap :
        Request([fn |-> "channelClose", alias |-> a], node) /\ accepted' = accepted
  BY DEF chCloseNSettleFn
<1>2. [fn |-> "channelClose", alias |-> a] \in Commands
  BY DEF Commands, OpenInv
<1>3. NodeType'
  BY <1>1 DEF Request, NodeType
<1> QED
  BY <1>1, <1>2, <1>3, RequestSent DEF ShellInv

\* The three steps of removeOpenChannelID in the shell.
LEMMA ChannelClosedStep ==
    ASSUME CliInv, ChannelClosed PROVE CliInv'
<1> DEFINE idx == IndexOf(openChannelsList, cmd.alias)
<1>1. /\ UNCHANGED <<connected, notifVars, handlers, requests, crashed, node, sent,
                     shown, accepted>>
      /\ removeOpenChannelID(cmd.alias)
      /\ cmd' = Idle \/ cmd' = [fn |-> "swap", idx |-> idx]
  BY DEF ChannelClosed, Replied, outside, hist
<1>2. OpenInv' /\ NotifInv' /\ HandlersInv' /\ NodeType'
  BY <1>1, OpenRemoved, PartsKept
<1>3. idx \in Nat
  BY IndexType DEF OpenInv
<1> HIDE DEF idx
<1>4. cmd' \in Commands
  BY <1>1, <1>3 DEF Commands
<1> QED
  BY <1>1, <1>2, <1>4 DEF ShellInv

LEMMA ShellRemovesStep ==
    ASSUME CliInv, ShellSwaps \/ ShellCuts PROVE CliInv'
<1>1. /\ UNCHANGED <<connected, notifVars, handlers, requests, node, sent, shown, accepted>>
      /\ UNCHANGED <<openChannelsCounter, openChannelsMap>>
      /\ cmd' = [fn |-> "cut"] \/ cmd' = Idle
      /\ SwapAlias(cmd.idx) \/ CutLast
  BY DEF ShellSwaps, ShellCuts, SwapAlias, CutLast, outside, hist
<1>2. openChannelsList' \in Seq(Nat) /\ crashed' \in BOOLEAN
  BY <1>1, ListSwapped, ListCut DEF OpenInv, ShellInv
<1>3. OpenInv'
  BY <1>1, <1>2 DEF OpenInv
<1>4. NotifInv' /\ HandlersInv' /\ NodeType'
  BY <1>1, PartsKept
<1>5. cmd' \in Commands
  BY <1>1 DEF Commands
<1> QED
  BY <1>1, <1>2, <1>3, <1>4, <1>5 DEF ShellInv

LEMMA SubStep ==
    ASSUME CliInv, paymentSubFn \/ paymentUnsubFn PROVE CliInv'
<1>1. UNCHANGED <<connected, openChannelVars, notifVars, cmd, requests, crashed, sent,
                  shown, accepted>>
  BY DEF paymentSubFn, paymentUnsubFn, tables, openChannelVars, notifVars, hist
<1>2. OpenInv' /\ NotifInv'
  BY <1>1, PartsKept
<1>3. CASE paymentSubFn
  <2>1. PICK a \in DOMAIN openChannelsMap : Subscribe(openChannelsMap[a].id, a)
    BY <1>3 DEF paymentSubFn
  <2>2. a \in Nat /\ openChannelsMap[a].id \in ChIDs
    BY DEF OpenInv, Entry
  <2>3. HandlersInv' /\ NodeType'
    BY <1>1, <2>1, <2>2, Subscribed
  <2> QED
    BY <1>1, <1>2, <2>3 DEF ShellInv
<1>4. CASE paymentUnsubFn
  <2>1. PICK a \in DOMAIN openChannelsMap :
          node' = [node EXCEPT !.stream[openChannelsMap[a].id] = 0] /\ UNCHANGED handlers
    BY <1>4 DEF paymentUnsubFn
  <2> DEFINE stream == [node.stream EXCEPT ![openChannelsMap[a].id] = 0]
  <2>2. stream \in [ChIDs -> Nat]
    BY DEF NodeType, NodeState
  <2>3. node' = [node EXCEPT !.stream = stream]
    BY <2>1
  <2> HIDE DEF stream
  <2>4. NodeType'
    BY <2>2, <2>3 DEF NodeType, NodeState
  <2>5. HandlersInv'
    BY <1>1, <2>1, PartsKept
  <2> QED
    BY <1>1, <1>2, <2>4, <2>5 DEF ShellInv
<1> QED
  BY <1>3, <1>4

\* The update of an entry was shown, or there is none, and the node waits for none
\* without an ID.
LEMMA PaymentRespondStep ==
    ASSUME CliInv, paymentRespondFn PROVE CliInv'
<1>1. PICK a \in DOMAIN openChannelsMap, answer \in BOOLEAN :
        LET c == openChannelsMap[a].id
            u == openChannelsMap[a].latest IN
        /\ u = <<c, node.ver[c] + 1>>
        /\ Request([fn |-> "paymentRespond", alias |-> a],
                   [node EXCEPT !.pending = @ \ {u},
                                !.ver[c] = IF answer THEN @ + 1 ELSE @])
        /\ accepted' = IF answer THEN accepted \cup {u} ELSE accepted
  BY DEF paymentRespondFn
<1> DEFINE c == openChannelsMap[a].id
           u == openChannelsMap[a].latest
           v == IF answer THEN node.ver[c] + 1 ELSE node.ver[c]
           version == [node.ver EXCEPT ![c] = v]
<1>2. a \in Nat /\ c \in ChIDs /\ node.ver \in [ChIDs -> Nat]
  BY DEF OpenInv, Entry, NodeType, NodeState
<1>3. u # NoUpdate
  <2>1. Len(u) = 2
    BY <1>1
  <2> QED
    BY <2>1, EmptySeq DEF NoUpdate
<1>4. u \in shown
  BY <1>3 DEF OpenInv
<1>5. accepted' \subseteq shown
  BY <1>1, <1>4 DEF ShellInv
<1>6. version \in [ChIDs -> Nat]
  BY <1>2
<1>7. node' = [node EXCEPT !.pending = @ \ {u}, !.ver = version]
  BY <1>1 DEF Request
<1> HIDE DEF version, u
<1>8. NodeType'
  BY <1>6, <1>7 DEF NodeType, NodeState
<1>9. [fn |-> "paymentRespond", alias |-> a] \in Commands
  BY <1>2 DEF Commands
<1> QED
  BY <1>1, <1>5, <1>8, <1>9, RequestSent

LEMMA UpdateRespondedStep ==
    ASSUME CliInv, UpdateResponded PROVE CliInv'
<1>1. /\ UNCHANGED <<connected, openChannelsCounter, openChannelsList, notifVars,
                     handlers, requests, crashed, node, sent, shown, accepted>>
      /\ cmd' = Idle
  BY DEF UpdateResponded, Replied, outside, hist
<1>2. NotifInv' /\ HandlersInv' /\ NodeType'
  BY <1>1, PartsKept
<1>3. OpenInv'
  <2>1. CASE openChannelsMap' = openChannelsMap
    BY <1>1, <2>1, PartsKept DEF openChannelVars
  <2>2. CASE openChannelsMap' = [openChannelsMap EXCEPT ![cmd.alias].latest = NoUpdate]
    BY <1>1, <2>2, LatestSet DEF ShellInv
  <2> QED
    BY <2>1, <2>2 DEF UpdateResponded
<1> QED
  BY <1>1, <1>2, <1>3 DEF ShellInv, Commands

LEMMA CommandFailsStep ==
    ASSUME CliInv, CommandFails PROVE CliInv'
<1>1. /\ UNCHANGED <<connected, openChannelVars, notifVars, handlers, requests, crashed,
                     node, sent, shown, accepted>>
      /\ cmd' = Idle
  BY DEF CommandFails, tables, openChannelVars, notifVars, outside, hist
<1>2. OpenInv' /\ NotifInv' /\ HandlersInv' /\ NodeType'
  BY <1>1, PartsKept
<1> QED
  BY <1>1, <1>2 DEF ShellInv, Commands

----------------------------------------------------------------------------
(* The steps of the goroutines. *)

LEMMA NotifHandlerStep ==
    ASSUME CliInv, channelNotifHandler PROVE CliInv'
<1>1. /\ UNCHANGED <<connected, openChannelVars, cmd, handlers, crashed, node, sent,
                     shown, accepted>>
      /\ requests # <<>> /\ requests' = Tail(requests) /\ addChannelNotif(Head(requests))
  BY DEF channelNotifHandler, outside, hist
<1>2. requests' \in Seq(Offered) /\ Head(requests) \in Offered
  BY <1>1, HeadTailProperties DEF ShellInv
<1>3. OpenInv' /\ NotifInv' /\ HandlersInv' /\ NodeType'
  BY <1>1, <1>2, NotifAdded, PartsKept
<1> QED
  BY <1>1, <1>2, <1>3 DEF ShellInv

LEMMA HandlerEndsStep ==
    ASSUME CliInv, NEW i \in DOMAIN handlers, HandlerEnds(i) PROVE CliInv'
<1> DEFINE h == [handlers[i] EXCEPT !.stage = "ended", !.inbox = <<>>]
<1>1. /\ UNCHANGED <<connected, openChannelVars, notifVars, cmd, requests, crashed, node,
                     sent, shown, accepted>>
      /\ handlers' = [handlers EXCEPT ![i] = h]
  BY DEF HandlerEnds, tables, openChannelVars, notifVars, outside, hist
<1>2. h \in Handler /\ h.stage # "store"
  BY HandlerFields, EmptySeq DEF Handler, Stages
<1> HIDE DEF h
<1>3. HandlersInv'
  BY <1>1, <1>2, HandlerGoesOn
<1>4. OpenInv' /\ NotifInv' /\ NodeType'
  BY <1>1, PartsKept
<1> QED
  BY <1>1, <1>3, <1>4 DEF ShellInv

\* The update is in the messages of the handler and gets shown.
LEMMA ShowUpdateStep ==
    ASSUME CliInv, NEW i \in DOMAIN handlers, ShowUpdate(i) PROVE CliInv'
<1> DEFINE h == [handlers[i] EXCEPT !.stage = "store"]
<1>1. /\ UNCHANGED <<connected, openChannelVars, notifVars, cmd, requests, crashed, node,
                     sent, accepted>>
      /\ handlers[i].inbox # <<>> /\ Msg(i).type = "update"
      /\ shown' = shown \cup {Msg(i).id} /\ handlers' = [handlers EXCEPT ![i] = h]
  BY DEF ShowUpdate, Waits, tables, openChannelVars, notifVars, outside
<1>2. Msg(i).id \in UpdateIDs
  BY <1>1, HandlerFields DEF Messages
<1>3. OpenInv' /\ NotifInv' /\ NodeType'
  BY <1>1, PartsKept
<1>4. h \in Handler /\ h.inbox = handlers[i].inbox
  BY HandlerFields DEF Handler, Stages
<1> HIDE DEF h
<1>5. HandlersInv'
  BY <1>1, <1>4, HandlerGoesOn DEF Msg
<1> QED
  BY <1>1, <1>2, <1>3, <1>5 DEF ShellInv

LEMMA ShowUpdatePanicsStep ==
    ASSUME CliInv, NEW i \in DOMAIN handlers, ShowUpdatePanics(i) PROVE CliInv'
<1>1. /\ UNCHANGED <<connected, openChannelVars, notifVars, cmd, handlers, requests, node,
                     sent, shown, accepted>>
      /\ crashed' = TRUE
  BY DEF ShowUpdatePanics, tables, openChannelVars, notifVars, outside, hist
<1>2. OpenInv' /\ NotifInv' /\ HandlersInv' /\ NodeType'
  BY <1>1, PartsKept
<1> QED
  BY <1>1, <1>2 DEF ShellInv

LEMMA StoreUpdateStep ==
    ASSUME CliInv, NEW i \in DOMAIN handlers, StoreUpdate(i) PROVE CliInv'
<1>1. /\ UNCHANGED <<connected, openChannelsCounter, openChannelsList, notifVars, cmd,
                     requests, node, sent, shown, accepted>>
      /\ handlers[i].inbox # <<>> /\ handlers[i].stage = "store"
      /\ handlers' = [handlers EXCEPT ![i].stage = "recv", ![i].inbox = Tail(@)]
  BY DEF StoreUpdate, ShownBefore, outside, hist
<1>2. NotifInv' /\ NodeType'
  BY <1>1, PartsKept
<1>3. Msg(i).id \in shown
  BY <1>1 DEF HandlersInv
<1>4. OpenInv' /\ crashed' \in BOOLEAN
  <2>1. CASE openChannelsMap' = openChannelsMap /\ crashed' = TRUE
    BY <1>1, <2>1, PartsKept DEF openChannelVars
  <2>2. CASE /\ openChannelsMap' = [openChannelsMap EXCEPT ![handlers[i].alias].latest = Msg(i).id]
             /\ UNCHANGED crashed
    BY <1>1, <1>3, <2>2, LatestSet DEF ShellInv
  <2> QED
    BY <2>1, <2>2 DEF StoreUpdate
<1>5. HandlersInv'
  <2> DEFINE h == [handlers[i] EXCEPT !.stage = "recv", !.inbox = Tail(handlers[i].inbox)]
  <2>1. handlers[i] \in Handler /\ Tail(handlers[i].inbox) \in Seq(Messages)
    BY <1>1, HandlerFields
  <2>2. h \in Handler /\ h.stage # "store"
    BY <2>1 DEF Handler, Stages
  <2>3. handlers' = [handlers EXCEPT ![i] =
                       [handlers[i] EXCEPT !.stage = "recv", !.inbox = Tail(@)]]
    BY <1>1
  <2>4. [handlers[i] EXCEPT !.stage = "recv", !.inbox = Tail(@)] = h
    BY <2>1 DEF Handler
  <2>5. handlers' = [handlers EXCEPT ![i] = h]
    BY <2>3, <2>4
  <2> HIDE DEF h
  <2> QED
    BY <1>1, <2>2, <2>5, HandlerGoesOn
<1> QED
  BY <1>1, <1>2, <1>4, <1>5 DEF ShellInv

LEMMA ClosedNotifStep ==
    ASSUME CliInv, NEW i \in DOMAIN handlers, handleUpdateTypeClosedNotif(i) PROVE CliInv'
<1> DEFINE idx == IndexOf(openChannelsList, handlers[i].alias)
           stage == IF idx = 0 THEN "recv" ELSE "swap"
<1>1. /\ UNCHANGED <<connected, notifVars, cmd, requests, crashed, node, sent, shown,
                     accepted>>
      /\ handlers[i].inbox # <<>> /\ removeOpenChannelID(handlers[i].alias)
      /\ handlers' = [handlers EXCEPT ![i].inbox = Tail(@), ![i].idx = idx,
                                      ![i].stage = stage]
  BY DEF handleUpdateTypeClosedNotif, Waits, RemoveClosed, outside, hist
<1>2. idx \in Nat
  BY IndexType DEF OpenInv
<1>3. stage \in Stages \ {"store"}
  BY DEF Stages
<1> HIDE DEF idx, stage
<1>4. HandlersInv'
  BY <1>1, <1>2, <1>3, MessageRead
<1>5. OpenInv' /\ NotifInv' /\ NodeType'
  BY <1>1, OpenRemoved, PartsKept
<1> QED
  BY <1>1, <1>4, <1>5 DEF ShellInv

\* The rest of removeOpenChannelID in a handler.
LEMMA HandlerRemovesStep ==
    ASSUME CliInv, NEW i \in DOMAIN handlers, HandlerSwaps(i) \/ HandlerCuts(i) PROVE CliInv'
<1>1. /\ UNCHANGED <<connected, notifVars, cmd, requests, node, sent, shown, accepted>>
      /\ UNCHANGED <<openChannelsCounter, openChannelsMap>>
      /\ SwapAlias(handlers[i].idx) \/ CutLast
  BY DEF HandlerSwaps, HandlerCuts, SwapAlias, CutLast, outside, hist
<1>2. openChannelsList' \in Seq(Nat) /\ crashed' \in BOOLEAN
  BY <1>1, ListSwapped, ListCut DEF OpenInv, ShellInv
<1>3. OpenInv'
  BY <1>1, <1>2 DEF OpenInv
<1>4. NotifInv' /\ NodeType'
  BY <1>1, PartsKept
<1>5. HandlersInv'
  <2>1. CASE HandlerSwaps(i)
    <3> DEFINE h == [handlers[i] EXCEPT !.stage = "cut", !.idx = 0]
    <3>1. handlers' = [handlers EXCEPT ![i] = h]
      BY <2>1 DEF HandlerSwaps
    <3>2. h \in Handler /\ h.stage # "store"
      BY HandlerFields DEF Handler, Stages
    <3> HIDE DEF h
    <3> QED
      BY <1>1, <3>1, <3>2, HandlerGoesOn
  <2>2. CASE HandlerCuts(i)
    <3> DEFINE h == [handlers[i] EXCEPT !.stage = "recv"]
    <3>1. handlers' = [handlers EXCEPT ![i] = h]
      BY <2>2 DEF HandlerCuts
    <3>2. h \in Handler /\ h.stage # "store"
      BY HandlerFields DEF Handler, Stages
    <3> HIDE DEF h
    <3> QED
      BY <1>1, <3>1, <3>2, HandlerGoesOn
  <2> QED
    BY <2>1, <2>2
<1> QED
  BY <1>1, <1>2, <1>3, <1>4, <1>5 DEF ShellInv

----------------------------------------------------------------------------
(* The steps of the node. *)

LEMMA PeerUpdatesStep ==
    ASSUME CliInv, PeerUpdates PROVE CliInv'
<1>1. PICK c \in ChIDs :
        LET u == <<c, node.ver[c] + 1>> IN
        /\ sent' = sent + 1
        /\ IF node.stream[c] \in DOMAIN handlers
           THEN /\ node' = [node EXCEPT !.pending = @ \cup {u}]
                /\ handlers' = [handlers EXCEPT ![node.stream[c]].inbox = Append(@, UpdateMsg(u))]
           ELSE /\ node' = [node EXCEPT !.pending = @ \cup {u},
                                        !.cache[c] = Append(@, UpdateMsg(u))]
                /\ UNCHANGED handlers
        /\ UNCHANGED <<connected, openChannelVars, notifVars, cmd, requests, crashed,
                       shown, accepted>>
  BY DEF PeerUpdates, tables, openChannelVars, notifVars, hist
<1> DEFINE u == <<c, node.ver[c] + 1>>
<1>2. u \in UpdateIDs
  BY DEF NodeType, NodeState, UpdateIDs
<1> HIDE DEF u
<1>3. UpdateMsg(u) \in Messages
  BY <1>2 DEF UpdateMsg, Messages
<1>4. HandlersInv' /\ NodeType'
  <2>1. CASE node.stream[c] \in DOMAIN handlers
    <3>1. /\ node' = [node EXCEPT !.pending = @ \cup {u}]
          /\ handlers' = [handlers EXCEPT ![node.stream[c]].inbox = Append(@, UpdateMsg(u))]
      BY <1>1, <2>1 DEF u
    <3>2. NodeType'
      BY <1>2, <3>1 DEF NodeType, NodeState
    <3> QED
      BY <1>1, <1>3, <2>1, <3>1, <3>2, MessageSent
  <2>2. CASE node.stream[c] \notin DOMAIN handlers
    <3> DEFINE cache == [node.cache EXCEPT ![c] = Append(node.cache[c], UpdateMsg(u))]
    <3>1. /\ node' = [node EXCEPT !.pending = @ \cup {u}, !.cache = cache]
          /\ UNCHANGED handlers
      BY <1>1, <2>2 DEF u
    <3>2. cache \in [ChIDs -> Seq(Messages)]
      BY <1>3, AppendProperties DEF NodeType, NodeState
    <3> HIDE DEF cache
    <3>3. NodeType'
      BY <1>2, <3>1, <3>2 DEF NodeType, NodeState
    <3> QED
      BY <1>1, <3>1, <3>3, PartsKept
  <2> QED
    BY <2>1, <2>2
<1>5. OpenInv' /\ NotifInv'
  BY <1>1, PartsKept
<1> QED
  BY <1>1, <1>4, <1>5 DEF ShellInv

LEMMA PaymentMadeStep ==
    ASSUME CliInv, PaymentMade PROVE CliInv'
<1>1. PICK c \in ChIDs :
        /\ node' = [node EXCEPT !.ver[c] = @ + 1]
        /\ UNCHANGED <<connected, openChannelVars, notifVars, cmd, handlers, requests,
                       crashed, sent, shown, accepted>>
  BY DEF PaymentMade, tables, openChannelVars, notifVars, hist
<1> DEFINE version == [node.ver EXCEPT ![c] = node.ver[c] + 1]
<1>2. version \in [ChIDs -> Nat] /\ node' = [node EXCEPT !.ver = version]
  BY <1>1 DEF NodeType, NodeState
<1> HIDE DEF version
<1>3. NodeType'
  BY <1>2 DEF NodeType, NodeState
<1>4. OpenInv' /\ NotifInv' /\ HandlersInv'
  BY <1>1, PartsKept
<1> QED
  BY <1>1, <1>3, <1>4 DEF ShellInv

LEMMA PeerOffersStep ==
    ASSUME CliInv, PeerOffers PROVE CliInv'
<1>1. PICK c \in Offered :
        /\ node' = [node EXCEPT !.proposed = @ \cup {c}]
        /\ requests' = Append(requests, c)
        /\ UNCHANGED <<connected, openChannelVars, notifVars, cmd, handlers, crashed, sent,
                       shown, accepted>>
  BY DEF PeerOffers, tables, openChannelVars, notifVars, hist
<1>2. NodeType'
  BY <1>1 DEF NodeType, NodeState
<1>3. OpenInv' /\ NotifInv' /\ HandlersInv'
  BY <1>1, PartsKept
<1>4. requests' \in Seq(Offered)
  BY <1>1 DEF ShellInv
<1> QED
  BY <1>1, <1>2, <1>3, <1>4 DEF ShellInv

LEMMA CloseAtNodeStep ==
    ASSUME CliInv, CloseAtNode PROVE CliInv'
<1>1. PICK c \in ChIDs, error \in BOOLEAN :
        /\ handlers' = IF node.stream[c] \notin DOMAIN handlers THEN handlers
                       ELSE [handlers EXCEPT ![node.stream[c]].inbox =
                                Append(@, ClosedMsg(error))]
        /\ node' = [node EXCEPT !.ch[c] = "closed", !.stream[c] = 0]
        /\ UNCHANGED <<connected, openChannelVars, notifVars, cmd, requests, crashed, sent,
                       shown, accepted>>
  BY DEF CloseAtNode, tables, openChannelVars, notifVars, hist
<1> DEFINE ch == [node.ch EXCEPT ![c] = "closed"]
           stream == [node.stream EXCEPT ![c] = 0]
<1>2. ch \in [ChIDs -> {"new", "open", "closed"}] /\ stream \in [ChIDs -> Nat]
  BY DEF NodeType, NodeState
<1>3. node' = [node EXCEPT !.ch = ch, !.stream = stream]
  BY <1>1
<1> HIDE DEF ch, stream
<1>4. NodeType'
  BY <1>2, <1>3 DEF NodeType, NodeState
<1>5. ClosedMsg(error) \in Messages
  BY DEF ClosedMsg, Messages
<1>6. HandlersInv'
  BY <1>1, <1>5, MessageSent, PartsKept
<1>7. OpenInv' /\ NotifInv'
  BY <1>1, PartsKept
<1> QED
  BY <1>1, <1>4, <1>6, <1>7 DEF ShellInv

----------------------------------------------------------------------------
(* The theorems. *)

LEMMA CliInitially == CliInit => CliInv
<1> SUFFICES ASSUME CliInit PROVE CliInv
  OBVIOUS
<1>1. DOMAIN EmptyMap = {} /\ <<>> \in Seq(Nat)
  BY EmptySeq DEF EmptyMap
<1>2. OpenInv /\ NotifInv
  BY <1>1 DEF CliInit, OpenInv, NotifInv
<1>3. HandlersInv
  <2>1. <<>> \in Seq(Handler) /\ DOMAIN <<>> = {}
    BY EmptySeq, LenProperties
  <2> QED
    BY <2>1 DEF CliInit, HandlersInv
<1>4. NodeType
  BY EmptySeq DEF CliInit, NodeType, NodeState
<1>5. ShellInv
  BY EmptySeq DEF CliInit, ShellInv, Commands
<1> QED
  BY <1>2, <1>3, <1>4, <1>5

LEMMA CliStep == CliInv /\ [CliNext]_cliVars => CliInv'
<1> SUFFICES ASSUME CliInv, [CliNext]_cliVars PROVE CliInv'
  OBVIOUS
<1>1. CASE Shell
  BY <1>1, ConnectStep, SessionOpenStep, SessionOpenedStep, OpenChannelListedStep,
     SessionCloseStep, SessionClosedStep, ChannelSendStep, ChannelOpenedStep,
     ChannelRespondStep, RequestRespondedStep, ChannelRespondFailsStep, ChannelCloseStep,
     ChannelClosedStep, ShellRemovesStep, SubStep, PaymentRespondStep, UpdateRespondedStep,
     CommandFailsStep DEF Shell
<1>2. CASE Node
  BY <1>2, PeerUpdatesStep, PaymentMadeStep, PeerOffersStep, CloseAtNodeStep DEF Node
<1>3. CASE channelNotifHandler
  BY <1>3, NotifHandlerStep
<1>4. ASSUME NEW i \in DOMAIN handlers, HandlerStep(i) PROVE CliInv'
  BY <1>4, HandlerEndsStep, ShowUpdateStep, ShowUpdatePanicsStep, StoreUpdateStep,
     ClosedNotifStep, HandlerRemovesStep DEF HandlerStep, HandlerWorks
<1>5. CASE UNCHANGED cliVars
  <2>1. UNCHANGED <<connected, openChannelVars, notifVars, cmd, handlers, requests, crashed,
                    node, sent, shown, accepted>>
    BY <1>5 DEF cliVars, tables, openChannelVars, notifVars, outside, hist
  <2>2. OpenInv' /\ NotifInv' /\ HandlersInv' /\ NodeType'
    BY <2>1, PartsKept
  <2> QED
    BY <2>1, <2>2 DEF ShellInv
<1> QED
  BY <1>1, <1>2, <1>3, <1>4, <1>5 DEF CliNext

LEMMA CliInvariant == CliSpec => []CliInv
  BY CliInitially, CliStep, PTL DEF CliSpec

\* Every table, command, handler and message of the command line client has its
\* type, whatever the node answers and however the unguarded statements of the
\* shell and the goroutines mix.
THEOREM CliTypeCorrect == CliSpec => []CliTypeOK
<1>1. CliInv => CliTypeOK
  <2>1. ShellInv => accepted \subseteq UpdateIDs
    BY DEF ShellInv
  <2> QED
    BY <2>1 DEF CliTypeOK, OpenInv, NotifInv, HandlersInv, NodeType, ShellInv
<1> QED
  BY <1>1, CliInvariant, PTL

\* The client accepts no update ID that it has not shown first, for any channels,
\* sessions, subscriptions and updates, with IDs that the node uses again
\* (handleUpdateTypeOpenNotif, paymentAccept).
THEOREM CliAcceptedWasShown == CliSpec => []AcceptedWasShown
<1>1. CliInv => AcceptedWasShown
  BY DEF ShellInv, AcceptedWasShown
<1> QED
  BY <1>1, CliInvariant, PTL
=============================================================================
