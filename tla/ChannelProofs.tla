--------------------------- MODULE ChannelProofs ---------------------------
(***************************************************************************)
(* Proofs about Channel, for any set of proposals and any bounds.          *)
(***************************************************************************)
EXTENDS Channel, SequenceTheorems, TLAPS

USE ChannelAssumption DEF ChannelAssumption

\* The type of the chain's variables: preserved by what anybody does on-chain.
ChainTypeOK ==
    /\ chain \in {"none", "registered", "concluded"}
    /\ nreg \in 0 .. MaxRegistered
    /\ watching \in BOOLEAN
    /\ events \in [EventTypes -> Nat]

\* A registration or a conclusion on-chain preserves the types and stops no
\* watcher (the contract and Watch, channel.go:137-143).
LEMMA ChainType ==
    ASSUME TypeOK, ChainRegistered \/ ChainConcluded
    PROVE  ChainTypeOK'
  BY DEF TypeOK, ChainTypeOK, ChainRegistered, ChainConcluded, Emit, EventTypes

\* pch.Register preserves the types (channel.go:699-707).
LEMMA RegisterType ==
    ASSUME TypeOK, Register
    PROVE  ChainTypeOK'
  BY ChainType DEF Register, TypeOK, ChainTypeOK, chainVars

\* The stages a step can move to are stages.
LEMMA StageNames ==
    /\ "free" \in Stages /\ "send" \in Stages /\ "accept" \in Stages
    /\ "reject" \in Stages /\ "registerAccepted" \in Stages
    /\ "finalize" \in Stages /\ "registerClosing" \in Stages
    /\ "challenge" \in Stages /\ "settle" \in Stages /\ "closing" \in Stages
    /\ "notify" \in Stages
  BY DEF Stages

\* Closed notifications have a receiver only because closeAndNotify tests the
\* notifier for nil before it calls it (channel.go:232-237): without this
\* conjunct TypeOK is not inductive.
TypeInv == TypeOK /\ (at = "notify" => sub # 0)

\* The return of the call the mutex holder is blocked in preserves the types,
\* for each of the calls made with the mutex held.
LEMMA HolderType ==
    ASSUME TypeInv, HolderProceeds
    PROVE  TypeInv'
<1> USE StageNames
        DEF TypeInv, TypeOK, chVars, subVars, noteVars, respVars, lockVars,
            envVars, closeVars
<1>1. ASSUME NEW ok \in BOOLEAN, UpdateByReturns(ok) PROVE TypeInv'
  <2>1. ver' \in 0 .. MaxVersion
    BY <1>1 DEF UpdateByReturns
  <2> QED
    BY <1>1, <2>1 DEF UpdateByReturns, Unlock, chainVars
<1>2. ASSUME NEW ok \in BOOLEAN, AcceptReturns(ok) PROVE TypeInv'
  <2>1. cur.ver \in Nat /\ cur.ver <= MaxVersion /\ cur.final \in BOOLEAN
    <3>1. CASE cur \in Proposal
      BY <3>1 DEF Proposal
    <3>2. CASE cur = NoUpdate
      BY <3>2 DEF NoUpdate
    <3> QED
      BY <3>1, <3>2
  <2>2. ver' \in 0 .. MaxVersion /\ final' \in BOOLEAN
    BY <1>2, <2>1 DEF AcceptReturns
  <2>3. at' \in Stages /\ at' # "notify" /\ serr' \in BOOLEAN
        /\ cur' \in Proposal \cup {NoUpdate}
    BY <1>2 DEF AcceptReturns, Unlock, Keep
  <2> QED
    BY <1>2, <2>2, <2>3 DEF AcceptReturns, chainVars
<1>3. ASSUME NEW ok \in BOOLEAN, FinalizeReturns(ok) PROVE TypeInv'
  BY <1>3 DEF FinalizeReturns, Keep, chainVars
<1>4. ASSUME NEW ok \in BOOLEAN, SettleReturns(ok) PROVE TypeInv'
  <2>1. ChainTypeOK'
    BY <1>4, ChainType DEF SettleReturns, ChainTypeOK, chainVars
  <2>2. at' \in Stages /\ at' # "notify" /\ serr' \in BOOLEAN
    BY <1>4 DEF SettleReturns, SettleError
  <2> QED
    BY <1>4, <2>1, <2>2 DEF SettleReturns, ChainTypeOK
<1>5. CASE RejectReturns
  BY <1>5 DEF RejectReturns, Unlock, chainVars
<1>6. CASE RegisterAcceptedReturns
  BY <1>6, RegisterType DEF RegisterAcceptedReturns, Unlock, ChainTypeOK
<1>7. CASE RegisterClosingReturns
  BY <1>7, RegisterType
     DEF RegisterClosingReturns, MarkCloseInitiated, Unlock, ChainTypeOK
<1>8. CASE ChallengePasses
  BY <1>8 DEF ChallengePasses, Keep, chainVars
<1>9. CASE CloseAndNotify
  BY <1>9 DEF CloseAndNotify, Keep, Unlock, chainVars
<1>10. CASE NotifyClosed
  <2>1. [to |-> sub, err |-> serr] \in ClosedNotif
    BY <1>10 DEF ClosedNotif, NotifyClosed, Holding
  <2>2. closedNotifs' \in Seq(ClosedNotif)
    BY <1>10, <2>1 DEF NotifyClosed
  <2>3. at' = "free" /\ cur' = NoUpdate /\ serr' = FALSE /\ sub' = 0
    BY <1>10 DEF NotifyClosed, UnsubAfterClose, Unlock
  <2>4. UNCHANGED <<chVars, nsubs, noteVars, respVars, chainVars, envVars,
                    closeCalled>>
    BY <1>10 DEF NotifyClosed
  <2>5. /\ sub' \in 0 .. MaxSubs /\ at' \in Stages /\ at' # "notify"
    BY <2>3
  <2>7. cur' \in Proposal \cup {NoUpdate} /\ serr' \in BOOLEAN
    BY <2>3
  <2>6. /\ ver' = ver /\ final' = final /\ status' = status
        /\ wasCloseInitiated' = wasCloseInitiated /\ nsubs' = nsubs
        /\ closeCalled' = closeCalled
    BY <2>4
  <2> QED
    BY <2>2, <2>4, <2>5, <2>6, <2>7 DEF chainVars
<1> QED
  BY <1>1, <1>2, <1>3, <1>4, <1>5, <1>6, <1>7, <1>8, <1>9, <1>10
     DEF HolderProceeds

\* TypeInv holds of every behaviour of the channel (channel.go).
LEMMA TypeInvariant == Spec => []TypeInv
<1>1. Init => TypeInv
  <2> SUFFICES ASSUME Init PROVE TypeInv
    OBVIOUS
  <2> USE DEF Init
  <2>1. /\ ver \in 0 .. MaxVersion /\ sub \in 0 .. MaxSubs
        /\ nsubs \in 0 .. MaxSubs /\ now \in 0 .. MaxTime
        /\ nreg \in 0 .. MaxRegistered
    OBVIOUS
  <2>2. /\ cache \in Seq(Proposal)
        /\ closedNotifs \in Seq(ClosedNotif)
    OBVIOUS
  <2>3. /\ responders \in [UpdateIDs -> Entry \cup {NoEntry}]
        /\ events \in [EventTypes -> Nat]
        /\ calls \in [ProposalIds -> Nat]
    OBVIOUS
  <2>4. at \in Stages /\ at # "notify"
    BY StageNames
  <2> QED
    BY <2>1, <2>2, <2>3, <2>4 DEF TypeInv, TypeOK
<1>2. TypeInv /\ [Next]_vars => TypeInv'
  <2> SUFFICES ASSUME TypeInv, [Next]_vars PROVE TypeInv'
    OBVIOUS
  <2> USE StageNames DEF TypeInv, TypeOK, chVars, subVars, noteVars, respVars, lockVars, chainVars,
              envVars, closeVars
  <2>1. CASE SendChUpdate
    BY <2>1 DEF SendChUpdate, Keep
  <2>2. CASE SubChUpdates
    BY <2>2 DEF SubChUpdates, FlushCache
  <2>3. CASE UnsubChUpdates
    BY <2>3 DEF UnsubChUpdates, Locked
  <2>4. ASSUME NEW id \in UpdateIDs, NEW accept \in BOOLEAN,
               RespondChUpdate(id, accept)
        PROVE  TypeInv'
    <3> DEFINE entry == responders[id]
    <3>1. responders' \in [UpdateIDs -> Entry \cup {NoEntry}]
      BY <2>4 DEF RespondChUpdate, DeleteEntry
    <3>2. at' \in Stages /\ at' # "notify" /\ serr' = serr
      BY <2>4 DEF RespondChUpdate, Locked
    <3>4. entry \in Entry
      BY <2>4 DEF RespondChUpdate
    <3>5. entry.upd \in Proposal /\ entry.upd.id \in ProposalIds
      BY <3>4 DEF Entry, Proposal
    <3>3. cur' \in Proposal \cup {NoUpdate} /\ calls' \in [ProposalIds -> Nat]
      BY <2>4, <3>5 DEF RespondChUpdate
    <3>6. UNCHANGED <<chVars, subVars, noteVars, chainVars, envVars, closeVars>>
      BY <2>4 DEF RespondChUpdate
    <3> QED
      BY <3>1, <3>2, <3>3, <3>6
  <2>5. CASE Close
    BY <2>5 DEF Close, Keep
  <2>6. CASE HolderProceeds
    BY <2>6, HolderType
  <2>7. ASSUME NEW i \in ProposalIds, NEW f \in BOOLEAN, PeerProposes(i, f)
        PROVE  TypeInv'
    <3>1. [id |-> i, ver |-> ver + 1, final |-> f] \in Proposal
      BY <2>7 DEF PeerProposes, Proposal
    <3>2. /\ arriving' \subseteq Proposal
          /\ UNCHANGED <<chVars, subVars, noteVars, respVars, lockVars, chainVars,
                         now, crashed, closeVars>>
      BY <2>7, <3>1 DEF PeerProposes
    <3> QED
      BY <3>2
  <2>8. ASSUME NEW p \in arriving, HandleUpdate(p)
        PROVE  TypeInv'
    <3>1. /\ cache' \in Seq(Proposal)
          /\ sending' \subseteq Proposal
          /\ bound' = bound /\ shown' = shown
          /\ handled' \subseteq Proposal
      <4>1. Append(cache, p) \in Seq(Proposal)
        OBVIOUS
      <4>2. CASE status = "closed"
        BY <2>8, <4>2 DEF HandleUpdate
      <4>3. CASE status # "closed"
        BY <2>8, <4>1, <4>3 DEF HandleUpdate, SendChUpdateNotif
      <4> QED
        BY <4>2, <4>3
    <3>2. [upd |-> p, expiry |-> now + ResponseTimeout] \in Entry
      BY DEF Entry
    <3>3. responders' \in [UpdateIDs -> Entry \cup {NoEntry}]
      BY <2>8, <3>2 DEF HandleUpdate
    <3> QED
      BY <2>8, <3>1, <3>3 DEF HandleUpdate
  <2>9. ASSUME NEW p \in sending, DeliverNotif(p)
        PROVE  TypeInv'
    <3>1. crashed' \in BOOLEAN /\ shown' \subseteq (1 .. MaxSubs) \X Proposal
      <4>1. CASE sub = 0
        BY <2>9, <4>1 DEF DeliverNotif
      <4>2. CASE sub # 0
        BY <2>9, <4>2 DEF DeliverNotif
      <4> QED
        BY <4>1, <4>2
    <3> QED
      BY <2>9, <3>1 DEF DeliverNotif
  <2>10. ASSUME NEW b \in bound, DeliverCached(b)
         PROVE  TypeInv'
    BY <2>10 DEF DeliverCached
  <2>11. ASSUME NEW e \in EventTypes, HandleAdjudicatorEvent(e)
         PROVE  TypeInv'
    <3>1. StageForEvent(e) \in Stages /\ StageForEvent(e) # "notify"
      BY DEF StageForEvent
    <3> QED
      BY <2>11, <3>1 DEF HandleAdjudicatorEvent
  <2>12. CASE PeerOnChain
    <3>1. ChainTypeOK'
      BY <2>12, ChainType DEF PeerOnChain
    <3> QED
      BY <2>12, <3>1 DEF PeerOnChain, ChainTypeOK
  <2>13. CASE Tick
    BY <2>13 DEF Tick
  <2>14. CASE WatchReturns
    BY <2>14 DEF WatchReturns
  <2>15. CASE UNCHANGED vars
    BY <2>15 DEF vars
  <2> QED
    BY <2>1, <2>2, <2>3, <2>4, <2>5, <2>6, <2>7, <2>8, <2>9, <2>10, <2>11,
       <2>12, <2>13, <2>14, <2>15 DEF Next, UserCalls
<1> QED
  BY <1>1, <1>2, PTL DEF Spec

\* Every variable keeps its type.
THEOREM TypeCorrect == Spec => []TypeOK
<1>1. TypeInv => TypeOK
  BY DEF TypeInv
<1> QED
  BY <1>1, TypeInvariant, PTL

----------------------------------------------------------------------------
(* Closing. *)

\* The stages of the methods that refuse to run on a closed channel.
ApiStages == {"send", "accept", "reject", "registerAccepted", "finalize",
              "registerClosing"}

\* What the mutex guarantees about closing, between any two steps: API calls
\* in progress see an open channel; a subscription outlives the closing only
\* until its Closed notification has been given, and that happens once.
ClosingInv ==
    /\ at \in ApiStages => status = "open"
    /\ at = "notify" => status = "closed" /\ closedNotifs = <<>>
    /\ status = "closed" => sub = 0 \/ at = "notify"
    /\ closedNotifs # <<>> => status = "closed" /\ sub = 0
    /\ Len(closedNotifs) <= 1

\* ClosingInv is preserved by every step of the channel (channel.go).
LEMMA ClosingStep ==
    ASSUME TypeOK, TypeOK', ClosingInv, [Next]_vars
    PROVE  ClosingInv'
<1> USE DEF ClosingInv, ApiStages, chVars, subVars, lockVars, closeVars
<1>1. CASE SendChUpdate
  BY <1>1 DEF SendChUpdate, Keep, NotClosed, Locked, TypeOK
<1>2. CASE SubChUpdates
  BY <1>2 DEF SubChUpdates, NotClosed, Locked
<1>3. CASE UnsubChUpdates
  BY <1>3 DEF UnsubChUpdates, NotClosed, Locked
<1>4. ASSUME NEW id, NEW accept \in BOOLEAN, RespondChUpdate(id, accept)
      PROVE  ClosingInv'
  BY <1>4 DEF RespondChUpdate, NotClosed, Locked, TypeOK
<1>5. CASE Close
  BY <1>5 DEF Close, Keep, NotClosed, Locked, TypeOK
<1>6. ASSUME NEW ok \in BOOLEAN, UpdateByReturns(ok) PROVE ClosingInv'
  BY <1>6 DEF UpdateByReturns, Unlock, Holding
<1>7. ASSUME NEW ok \in BOOLEAN, AcceptReturns(ok) PROVE ClosingInv'
  BY <1>7 DEF AcceptReturns, Unlock, Keep, Holding
<1>8. ASSUME NEW ok \in BOOLEAN, FinalizeReturns(ok) PROVE ClosingInv'
  BY <1>8 DEF FinalizeReturns, Keep, Holding
<1>9. ASSUME NEW ok \in BOOLEAN, SettleReturns(ok) PROVE ClosingInv'
  BY <1>9 DEF SettleReturns, Holding
<1>10. CASE RejectReturns
  BY <1>10 DEF RejectReturns, Unlock, Holding
<1>11. CASE RegisterAcceptedReturns
  BY <1>11 DEF RegisterAcceptedReturns, Unlock, Holding
<1>12. CASE RegisterClosingReturns
  BY <1>12 DEF RegisterClosingReturns, Unlock, Holding
<1>13. CASE ChallengePasses
  BY <1>13 DEF ChallengePasses, Keep, Holding
<1>14. CASE CloseAndNotify
  BY <1>14 DEF CloseAndNotify, Unlock, Keep, Holding, TypeOK
<1>15. CASE NotifyClosed
  <2>1. closedNotifs = <<>> /\ Len(closedNotifs') = 1
    BY <1>15 DEF NotifyClosed, Holding
  <2>2. at' = "free" /\ sub' = 0 /\ status' = "closed"
    BY <1>15 DEF NotifyClosed, Unlock, UnsubAfterClose, Holding
  <2> QED
    BY <2>1, <2>2
<1>16. ASSUME NEW e \in EventTypes, HandleAdjudicatorEvent(e)
       PROVE  ClosingInv'
  <2>1. at' \in {"challenge", "settle", "free"}
    BY <1>16 DEF HandleAdjudicatorEvent, StageForEvent
  <2> QED
    BY <1>16, <2>1 DEF HandleAdjudicatorEvent, Locked
<1>17. CASE UNCHANGED <<chVars, subVars, lockVars, closeVars>>
  BY <1>17
<1>18. (\E i \in ProposalIds, f \in BOOLEAN : PeerProposes(i, f))
         => UNCHANGED <<chVars, subVars, lockVars, closeVars>>
  BY DEF PeerProposes
<1>19. (\E p \in arriving : HandleUpdate(p))
         => UNCHANGED <<chVars, subVars, lockVars, closeVars>>
  BY DEF HandleUpdate
<1>20. (\E p \in sending : DeliverNotif(p)) \/ (\E b \in bound : DeliverCached(b))
         => UNCHANGED <<chVars, subVars, lockVars, closeVars>>
  BY DEF DeliverNotif, DeliverCached
<1>21. PeerOnChain \/ WatchReturns \/ Tick \/ UNCHANGED vars
         => UNCHANGED <<chVars, subVars, lockVars, closeVars>>
  BY DEF PeerOnChain, WatchReturns, Tick, vars
<1> QED
  BY <1>1, <1>2, <1>3, <1>4, <1>5, <1>6, <1>7, <1>8, <1>9, <1>10, <1>11, <1>12,
     <1>13, <1>14, <1>15, <1>16, <1>17, <1>18, <1>19, <1>20, <1>21
     DEF Next, UserCalls, HolderProceeds

\* ClosingInv holds of every behaviour of the channel.
LEMMA ClosingInvariant == Spec => []ClosingInv
<1>1. Init => ClosingInv
  BY DEF Init, ClosingInv, ApiStages
<1> QED
  BY <1>1, TypeCorrect, ClosingStep, PTL DEF Spec

\* Closing is told once, to a subscription that ends with it: closeAndNotify
\* may run again for queued events, but finds no notifier.
THEOREM ClosedNotifiedOnceTheorem == Spec => []ClosedNotifiedOnce
<1>1. ClosingInv => ClosedNotifiedOnce
  BY DEF ClosingInv, ClosedNotifiedOnce
<1> QED
  BY <1>1, ClosingInvariant, PTL

\* What a step of a closed channel leaves alone.
FrozenStep ==
    status = "closed" =>
        /\ status' = "closed"
        /\ UNCHANGED <<ver, final, wasCloseInitiated, cache, responders>>

\* No call, event or goroutine changes a closed channel: API calls are refused
\* and those that were in progress had kept the closing waiting for the mutex.
THEOREM ClosedChannelFrozenTheorem == Spec => ClosedChannelFrozen
<1>1. ASSUME TypeOK, ClosingInv, [Next]_vars
      PROVE  FrozenStep
  <2> SUFFICES ASSUME status = "closed"
               PROVE  /\ status' = "closed"
                      /\ UNCHANGED <<ver, final, wasCloseInitiated, cache,
                                     responders>>
    BY DEF FrozenStep
  <2>1. at \notin ApiStages
    BY <1>1 DEF ClosingInv
  <2> USE <2>1 DEF ApiStages, chVars, noteVars, respVars
  <2>2. ~(SendChUpdate \/ SubChUpdates \/ UnsubChUpdates \/ Close)
    BY DEF SendChUpdate, SubChUpdates, UnsubChUpdates, Close, NotClosed
  <2>3. \A id, accept : ~RespondChUpdate(id, accept)
    BY DEF RespondChUpdate, NotClosed
  <2>4. \A ok : ~(UpdateByReturns(ok) \/ AcceptReturns(ok) \/ FinalizeReturns(ok))
    BY DEF UpdateByReturns, AcceptReturns, FinalizeReturns, Holding
  <2>5. ~(RejectReturns \/ RegisterAcceptedReturns \/ RegisterClosingReturns)
    BY DEF RejectReturns, RegisterAcceptedReturns, RegisterClosingReturns,
           Holding
  <2>6. ASSUME NEW ok, SettleReturns(ok)
        PROVE  UNCHANGED <<chVars, noteVars, respVars>>
    BY <2>6 DEF SettleReturns
  <2>7. ASSUME ChallengePasses \/ NotifyClosed
        PROVE  UNCHANGED <<chVars, noteVars, respVars>>
    BY <2>7 DEF ChallengePasses, NotifyClosed
  <2>8. CASE CloseAndNotify
    BY <2>8 DEF CloseAndNotify
  <2>9. ASSUME NEW i, NEW f, PeerProposes(i, f)
        PROVE  UNCHANGED <<chVars, noteVars, respVars>>
    BY <2>9 DEF PeerProposes
  <2>10. ASSUME NEW p, HandleUpdate(p)
         PROVE  UNCHANGED <<chVars, noteVars, respVars>>
    BY <2>10 DEF HandleUpdate
  <2>11. ASSUME NEW p, DeliverNotif(p) \/ DeliverCached(p)
         PROVE  UNCHANGED <<chVars, cache, respVars>>
    BY <2>11 DEF DeliverNotif, DeliverCached
  <2>12. ASSUME NEW e, HandleAdjudicatorEvent(e)
         PROVE  UNCHANGED <<chVars, noteVars, respVars>>
    BY <2>12 DEF HandleAdjudicatorEvent
  <2>13. ASSUME PeerOnChain \/ WatchReturns \/ Tick \/ UNCHANGED vars
         PROVE  UNCHANGED <<chVars, noteVars, respVars>>
    BY <2>13 DEF PeerOnChain, WatchReturns, Tick, vars
  <2> QED
    BY <1>1, <2>2, <2>3, <2>4, <2>5, <2>6, <2>7, <2>8, <2>9, <2>10, <2>11,
       <2>12, <2>13 DEF Next, UserCalls, HolderProceeds
<1>2. ClosedChannelFrozen <=> [][FrozenStep]_vars
  BY DEF ClosedChannelFrozen, FrozenStep
<1> QED
  BY <1>1, <1>2, TypeCorrect, ClosingInvariant, PTL DEF Spec

----------------------------------------------------------------------------
(* The channel implements its API. *)

\* What each step of the channel is to its user.
ApiStep == Api!Advance \/ Api!Subscribe \/ Api!Unsubscribe \/ Api!CloseChannel
             \/ Api!TellClosed \/ UNCHANGED Api!apiVars

\* The steps that change nothing the user sees: most methods up to the call
\* they block in, and everything done by goroutines, the peer or the chain.
LEMMA InternalSteps ==
    ASSUME \/ SendChUpdate \/ Close
           \/ \E id, accept : RespondChUpdate(id, accept)
           \/ \E ok : SettleReturns(ok)
           \/ RejectReturns \/ RegisterAcceptedReturns
           \/ RegisterClosingReturns \/ ChallengePasses
           \/ \E i, f : PeerProposes(i, f)
           \/ \E p : HandleUpdate(p) \/ DeliverNotif(p) \/ DeliverCached(p)
           \/ \E e : HandleAdjudicatorEvent(e)
           \/ PeerOnChain \/ WatchReturns \/ Tick \/ UNCHANGED vars
    PROVE  UNCHANGED Api!apiVars
<1>1. UNCHANGED <<ver, final, status, sub, closedNotifs>>
  <2> USE DEF chVars, subVars, closeVars
  <2>1. CASE SendChUpdate \/ Close
    BY <2>1 DEF SendChUpdate, Close
  <2>2. CASE \E id, accept : RespondChUpdate(id, accept)
    BY <2>2 DEF RespondChUpdate
  <2>3. CASE \E ok : SettleReturns(ok)
    BY <2>3 DEF SettleReturns
  <2>4. CASE RejectReturns \/ RegisterAcceptedReturns
    BY <2>4 DEF RejectReturns, RegisterAcceptedReturns
  <2>5. CASE RegisterClosingReturns \/ ChallengePasses
    BY <2>5 DEF RegisterClosingReturns, ChallengePasses
  <2>6. CASE \E i, f : PeerProposes(i, f)
    BY <2>6 DEF PeerProposes
  <2>7. CASE \E p : HandleUpdate(p) \/ DeliverNotif(p) \/ DeliverCached(p)
    BY <2>7 DEF HandleUpdate, DeliverNotif, DeliverCached
  <2>8. CASE \E e : HandleAdjudicatorEvent(e)
    BY <2>8 DEF HandleAdjudicatorEvent
  <2>9. CASE PeerOnChain \/ WatchReturns \/ Tick \/ UNCHANGED vars
    BY <2>9 DEF PeerOnChain, WatchReturns, Tick, vars
  <2> QED
    BY <2>1, <2>2, <2>3, <2>4, <2>5, <2>6, <2>7, <2>8, <2>9
<1> QED
  BY <1>1 DEF Api!apiVars

\* The channel with its mutex, goroutines and callbacks (channel.go)
\* implements the interface: by ClosingInv the calls that return a new state
\* return it to an open channel, and a Closed notification is the first.
THEOREM ImplementsApiTheorem == Spec => ImplementsApi
<1>1. Init => Api!Init
  BY DEF Init, Api!Init
<1>2. ASSUME TypeOK, TypeOK', TypeInv, ClosingInv, [Next]_vars
      PROVE  ApiStep
  <2> USE <1>2 DEF ApiStep, ClosingInv, ApiStages
  <2>1. CASE SubChUpdates
    <3>1. /\ status = "open" /\ sub = 0 /\ sub' # 0
          /\ UNCHANGED <<ver, final, status, closedNotifs>>
      BY <2>1 DEF SubChUpdates, NotClosed, TypeOK, chVars, closeVars
    <3> QED
      BY <3>1 DEF Api!Subscribe
  <2>2. CASE UnsubChUpdates
    <3>1. /\ status = "open" /\ sub # 0 /\ sub' = 0
          /\ UNCHANGED <<ver, final, status, closedNotifs>>
      BY <2>2 DEF UnsubChUpdates, NotClosed, TypeOK, chVars, closeVars
    <3> QED
      BY <3>1 DEF Api!Unsubscribe
  <2>3. ASSUME NEW ok \in BOOLEAN,
               \/ UpdateByReturns(ok) \/ AcceptReturns(ok)
               \/ FinalizeReturns(ok)
        PROVE  ApiStep
    <3>1. /\ status = "open"
          /\ UNCHANGED <<status, sub, closedNotifs>>
      BY <2>3 DEF UpdateByReturns, AcceptReturns, FinalizeReturns, Holding,
                  subVars, closeVars
    <3>2. CASE ok
      <4>1. ~final /\ ver' = ver + 1 /\ final' \in BOOLEAN
        <5>1. final' \in BOOLEAN
          BY DEF TypeOK
        <5> QED
          BY <2>3, <3>2, <5>1
             DEF UpdateByReturns, AcceptReturns, FinalizeReturns
      <4> QED
        BY <3>1, <4>1 DEF Api!Advance
    <3>3. CASE ~ok
      <4>1. UNCHANGED <<ver, final>>
        BY <2>3, <3>3
           DEF UpdateByReturns, AcceptReturns, FinalizeReturns, TypeOK
      <4> QED
        BY <3>1, <4>1 DEF Api!apiVars
    <3> QED
      BY <3>2, <3>3
  <2>4. CASE CloseAndNotify
    <3>1. status' = "closed" /\ UNCHANGED <<ver, final, sub, closedNotifs>>
      BY <2>4 DEF CloseAndNotify, subVars, closeVars
    <3>2. CASE status = "open"
      BY <3>1, <3>2 DEF Api!CloseChannel
    <3>3. CASE status = "closed"
      BY <3>1, <3>3 DEF Api!apiVars
    <3> QED
      BY <3>2, <3>3 DEF TypeOK
  <2>5. CASE NotifyClosed
    <3>1. /\ status = "closed" /\ closedNotifs = <<>> /\ sub # 0
          /\ sub' = 0 /\ UNCHANGED <<ver, final, status>>
      BY <2>5 DEF NotifyClosed, Holding, UnsubAfterClose, TypeInv, chVars
    <3>2. Len(closedNotifs) = 0 /\ Len(closedNotifs') = 1
      BY <2>5, <3>1 DEF NotifyClosed
    <3> QED
      BY <3>1, <3>2 DEF Api!TellClosed
  <2> QED
    BY <2>1, <2>2, <2>3, <2>4, <2>5, InternalSteps
       DEF Next, UserCalls, HolderProceeds
<1>3. ApiStep => [Api!Next]_(Api!apiVars)
  BY DEF ApiStep, Api!Next
<1> QED
  BY <1>1, <1>2, <1>3, TypeInvariant, TypeCorrect, ClosingInvariant, PTL
     DEF Spec, ImplementsApi, Api!Spec

----------------------------------------------------------------------------
(* Who settles as primary. *)

\* The flag lags behind the call of Close only while Close holds the mutex.
PrimaryInv ==
    /\ at \in {"finalize", "registerClosing"} => closeCalled = TRUE
    /\ at \notin {"finalize", "registerClosing"}
         => wasCloseInitiated = closeCalled

\* An adjudicator event is never settled between the start of Close and the
\* setting of wasCloseInitiated: Settle's isSecondary argument is right.
THEOREM CloserSettlesAsPrimaryTheorem == Spec => []CloserSettlesAsPrimary
<1>1. Init => PrimaryInv
  BY DEF Init, PrimaryInv
<1>2. ASSUME PrimaryInv, [Next]_vars
      PROVE  PrimaryInv'
  <2> USE <1>2 DEF PrimaryInv, chVars, lockVars, closeVars
  <2>1. CASE Close
    BY <2>1 DEF Close, Keep
  <2>2. ASSUME NEW ok, FinalizeReturns(ok) PROVE PrimaryInv'
    BY <2>2 DEF FinalizeReturns, Keep, Holding
  <2>3. CASE RegisterClosingReturns
    BY <2>3 DEF RegisterClosingReturns, MarkCloseInitiated, Unlock, Holding
  \* The other steps taken with the mutex leave both flags alone.
  <2>4. ASSUME SendChUpdate \/ SubChUpdates \/ UnsubChUpdates
        PROVE  PrimaryInv'
    BY <2>4 DEF SendChUpdate, SubChUpdates, UnsubChUpdates, Locked, Keep
  <2>5. ASSUME NEW id, NEW accept, RespondChUpdate(id, accept)
        PROVE  PrimaryInv'
    BY <2>5 DEF RespondChUpdate, Locked
  <2>6. ASSUME NEW ok, UpdateByReturns(ok) \/ AcceptReturns(ok)
        PROVE  PrimaryInv'
    BY <2>6 DEF UpdateByReturns, AcceptReturns, Holding, Unlock, Keep
  <2>7. ASSUME NEW ok, SettleReturns(ok) PROVE PrimaryInv'
    BY <2>7 DEF SettleReturns, Holding
  <2>8. ASSUME RejectReturns \/ RegisterAcceptedReturns \/ ChallengePasses
        PROVE  PrimaryInv'
    BY <2>8 DEF RejectReturns, RegisterAcceptedReturns, ChallengePasses,
                Holding, Unlock, Keep
  <2>9. ASSUME CloseAndNotify \/ NotifyClosed PROVE PrimaryInv'
    BY <2>9 DEF CloseAndNotify, NotifyClosed, Holding, Unlock, Keep
  <2>10. ASSUME NEW e, HandleAdjudicatorEvent(e) PROVE PrimaryInv'
    BY <2>10 DEF HandleAdjudicatorEvent, StageForEvent, Locked
  \* The steps taken without it leave the stage alone as well.
  <2>11. ASSUME NEW i, NEW f, PeerProposes(i, f) PROVE PrimaryInv'
    BY <2>11 DEF PeerProposes
  <2>12. ASSUME NEW p, HandleUpdate(p) \/ DeliverNotif(p) \/ DeliverCached(p)
         PROVE  PrimaryInv'
    BY <2>12 DEF HandleUpdate, DeliverNotif, DeliverCached
  <2>13. ASSUME PeerOnChain \/ WatchReturns \/ Tick \/ UNCHANGED vars PROVE PrimaryInv'
    BY <2>13 DEF PeerOnChain, WatchReturns, Tick, vars
  <2> QED
    BY <2>1, <2>2, <2>3, <2>4, <2>5, <2>6, <2>7, <2>8, <2>9, <2>10, <2>11,
       <2>12, <2>13 DEF Next, UserCalls, HolderProceeds
<1>3. PrimaryInv => CloserSettlesAsPrimary
  BY DEF PrimaryInv, CloserSettlesAsPrimary
<1> QED
  BY <1>1, <1>2, <1>3, PTL DEF Spec

----------------------------------------------------------------------------
(* Responders. *)

\* Proposals on the way and taken in are told apart by their identity.
DistinctProposals ==
    /\ \A p, q \in arriving \cup handled : p.id = q.id => p = q
    /\ arriving \cap handled = {}

\* An entry of chUpdateResponders is filed under the UpdateID of an update that
\* was taken in and that nobody has answered; only such updates get answered.
RespondersInv ==
    /\ \A v \in UpdateIDs : responders[v] # NoEntry =>
         /\ responders[v].upd \in handled
         /\ UpdateID(responders[v].upd) = v
         /\ calls[responders[v].upd.id] = 0
    /\ \A i \in ProposalIds : calls[i] > 0 => \E p \in handled : p.id = i
    /\ \A i \in ProposalIds : calls[i] <= 1

\* The steps other than the arrival of a proposal, HandleUpdate and
\* RespondChUpdate touch neither the map nor the proposals.
LEMMA RespondersUntouched ==
    ASSUME [Next]_vars,
           ~(\E i \in ProposalIds, f \in BOOLEAN : PeerProposes(i, f)),
           ~(\E p \in arriving : HandleUpdate(p)),
           ~(\E id \in UpdateIDs, accept \in BOOLEAN : RespondChUpdate(id, accept))
    PROVE  UNCHANGED <<respVars, arriving, handled>>
<1> USE DEF respVars, noteVars, envVars
<1>1. SendChUpdate \/ SubChUpdates \/ UnsubChUpdates \/ Close
        => UNCHANGED <<respVars, arriving, handled>>
  BY DEF SendChUpdate, SubChUpdates, UnsubChUpdates, Close
<1>2. ASSUME NEW ok, \/ UpdateByReturns(ok) \/ AcceptReturns(ok)
                     \/ FinalizeReturns(ok) \/ SettleReturns(ok)
      PROVE  UNCHANGED <<respVars, arriving, handled>>
  BY <1>2 DEF UpdateByReturns, AcceptReturns, FinalizeReturns, SettleReturns
<1>3. RejectReturns \/ RegisterAcceptedReturns \/ RegisterClosingReturns
        => UNCHANGED <<respVars, arriving, handled>>
  BY DEF RejectReturns, RegisterAcceptedReturns, RegisterClosingReturns
<1>4. ChallengePasses \/ CloseAndNotify \/ NotifyClosed
        => UNCHANGED <<respVars, arriving, handled>>
  BY DEF ChallengePasses, CloseAndNotify, NotifyClosed
<1>5. ASSUME NEW p, DeliverNotif(p) \/ DeliverCached(p)
      PROVE  UNCHANGED <<respVars, arriving, handled>>
  BY <1>5 DEF DeliverNotif, DeliverCached
<1>6. ASSUME NEW e, HandleAdjudicatorEvent(e)
      PROVE  UNCHANGED <<respVars, arriving, handled>>
  BY <1>6 DEF HandleAdjudicatorEvent
<1>7. PeerOnChain \/ WatchReturns \/ Tick \/ UNCHANGED vars
        => UNCHANGED <<respVars, arriving, handled>>
  BY DEF PeerOnChain, WatchReturns, Tick, vars
<1> QED
  BY <1>1, <1>2, <1>3, <1>4, <1>5, <1>6, <1>7
     DEF Next, UserCalls, HolderProceeds

\* Entries and proposals correspond in every state of the channel: an entry is
\* consumed by RespondChUpdate when it answers it (channel.go), and an update
\* that was answered is never filed again.
LEMMA RespondersInvariant == Spec => [](DistinctProposals /\ RespondersInv)
<1> DEFINE Inv == DistinctProposals /\ RespondersInv
<1>1. Init => Inv
  BY DEF Init, DistinctProposals, RespondersInv
<1>2. ASSUME TypeOK, TypeOK', Inv, [Next]_vars
      PROVE  Inv'
  <2> USE <1>2 DEF DistinctProposals, RespondersInv
  <2>1. ASSUME NEW i \in ProposalIds, NEW f \in BOOLEAN, PeerProposes(i, f)
        PROVE  Inv'
    <3>1. DistinctProposals'
      BY <2>1 DEF PeerProposes, noteVars
    <3> QED
      BY <2>1, <3>1 DEF PeerProposes, noteVars, respVars
  <2>2. ASSUME NEW p \in arriving, HandleUpdate(p)
        PROVE  Inv'
    <3>1. CASE status = "closed"
      BY <2>2, <3>1 DEF HandleUpdate, noteVars
    <3>2. CASE status # "closed"
      <4> DEFINE new == [upd |-> p, expiry |-> now + ResponseTimeout]
      <4>1. /\ handled' = handled \cup {p} /\ arriving' = arriving \ {p}
            /\ calls' = calls
            /\ responders' = [responders EXCEPT ![UpdateID(p)] = new]
        BY <2>2, <3>2 DEF HandleUpdate
      <4>2. DistinctProposals'
        BY <4>1
      <4>3. p \in Proposal /\ p.id \in ProposalIds
        BY DEF TypeOK, Proposal
      <4>4. calls[p.id] = 0
        <5>1. ~(\E q \in handled : q.id = p.id)
          OBVIOUS
        <5>2. calls[p.id] \in Nat
          BY <4>3 DEF TypeOK
        <5> QED
          BY <4>3, <5>1, <5>2
      <4>5. ASSUME NEW v \in UpdateIDs, responders'[v] # NoEntry
            PROVE  /\ responders'[v].upd \in handled'
                   /\ UpdateID(responders'[v].upd) = v
                   /\ calls'[responders'[v].upd.id] = 0
        <5>1. CASE v = UpdateID(p)
          <6>1. responders'[v] = new
            BY <4>1, <5>1 DEF TypeOK
          <6> QED
            BY <4>1, <4>4, <5>1, <6>1
        <5>2. CASE v # UpdateID(p)
          BY <4>1, <4>5, <5>2 DEF TypeOK
        <5> QED
          BY <5>1, <5>2
      <4> QED
        BY <4>1, <4>2, <4>5 DEF UpdateID
    <3> QED
      BY <3>1, <3>2
  <2>3. ASSUME NEW id \in UpdateIDs, NEW accept \in BOOLEAN,
               RespondChUpdate(id, accept)
        PROVE  Inv'
    <3> DEFINE upd == responders[id].upd
    <3>1. responders[id] # NoEntry
      BY <2>3 DEF RespondChUpdate
    <3>2. /\ responders' = [responders EXCEPT ![id] = NoEntry]
          /\ handled' = handled /\ arriving' = arriving
      BY <2>3 DEF RespondChUpdate, DeleteEntry, noteVars, envVars
    <3>3. calls' = calls \/ calls' = [calls EXCEPT ![upd.id] = @ + 1]
      BY <2>3 DEF RespondChUpdate
    <3>4. /\ upd \in handled /\ UpdateID(upd) = id /\ calls[upd.id] = 0
          /\ upd.id \in ProposalIds
      BY <3>1 DEF TypeOK, Proposal
    <3>5. ASSUME NEW v \in UpdateIDs, responders'[v] # NoEntry
          PROVE  /\ responders'[v].upd \in handled'
                 /\ UpdateID(responders'[v].upd) = v
                 /\ calls'[responders'[v].upd.id] = 0
      <4>1. v # id /\ responders'[v] = responders[v]
        BY <3>1, <3>2, <3>5 DEF TypeOK
      <4>2. /\ responders[v].upd \in handled
            /\ UpdateID(responders[v].upd) = v
            /\ calls[responders[v].upd.id] = 0
        BY <3>5, <4>1
      <4>3. responders[v].upd # upd
        BY <3>4, <4>1, <4>2
      <4>4. responders[v].upd.id # upd.id
        BY <3>4, <4>2, <4>3
      <4>5. responders[v].upd.id \in ProposalIds
        BY <4>2 DEF TypeOK, Proposal
      <4> QED
        BY <3>2, <3>3, <3>4, <4>1, <4>2, <4>4, <4>5 DEF TypeOK
    <3>6. ASSUME NEW i \in ProposalIds
          PROVE  /\ calls'[i] <= 1
                 /\ calls'[i] > 0 => \E p \in handled' : p.id = i
      <4>1. CASE calls'[i] = calls[i]
        BY <3>2, <4>1
      <4>2. CASE i = upd.id /\ calls'[i] = calls[i] + 1
        BY <3>2, <3>4, <4>2
      <4>3. calls'[i] = calls[i] \/ (i = upd.id /\ calls'[i] = calls[i] + 1)
        <5>1. calls \in [ProposalIds -> Nat]
          BY DEF TypeOK
        <5>2. ASSUME calls' = [calls EXCEPT ![upd.id] = @ + 1]
              PROVE  calls'[i] = IF i = upd.id THEN calls[i] + 1 ELSE calls[i]
          BY ONLY <5>1, <5>2, i \in ProposalIds
        <5> QED
          BY <3>3, <5>2
      <4> QED
        BY <4>1, <4>2, <4>3
    <3>7. DistinctProposals'
      BY <3>2
    <3> QED
      BY <3>5, <3>6, <3>7
  <2>4. CASE UNCHANGED <<respVars, arriving, handled>>
    BY <2>4 DEF respVars
  <2> QED
    BY <2>1, <2>2, <2>3, <2>4, RespondersUntouched
<1> HIDE DEF Inv
<1>3. Spec => []Inv
  BY <1>1, <1>2, TypeCorrect, PTL DEF Spec
<1> QED
  BY <1>3 DEF Inv

\* No responder is called twice, whatever the user sends and however often the
\* peer reuses a version (channel.go, RespondChUpdate).
THEOREM ResponderCalledOnceTheorem == Spec => []ResponderCalledOnce
<1>1. DistinctProposals /\ RespondersInv => ResponderCalledOnce
  BY DEF RespondersInv, ResponderCalledOnce
<1> QED
  BY <1>1, RespondersInvariant, PTL

----------------------------------------------------------------------------
(* What the user is told of the closing. *)

\* The error of Settle is carried to the notification, and nothing leads back
\* from a concluded channel.
OutcomeInv ==
    /\ at \in {"closing", "notify"} /\ ~serr => chain = "concluded"
    /\ ClosedNotifTellsOutcome

\* Nothing that happens on-chain undoes a conclusion.
LEMMA ConclusionLasts ==
    ASSUME [Next]_vars, chain = "concluded"
    PROVE  chain' = "concluded"
<1> USE DEF chainVars
<1>1. ~ChainRegistered /\ ~ChainConcluded
  BY DEF ChainRegistered, ChainConcluded
<1>2. Register => chain' = chain
  BY <1>1 DEF Register
<1>3. SendChUpdate \/ SubChUpdates \/ UnsubChUpdates \/ Close => chain' = chain
  BY DEF SendChUpdate, SubChUpdates, UnsubChUpdates, Close
<1>4. ASSUME NEW id, NEW accept, RespondChUpdate(id, accept) PROVE chain' = chain
  BY <1>4 DEF RespondChUpdate
<1>5. ASSUME NEW ok, \/ UpdateByReturns(ok) \/ AcceptReturns(ok)
                     \/ FinalizeReturns(ok) \/ SettleReturns(ok)
      PROVE  chain' = chain
  BY <1>5 DEF UpdateByReturns, AcceptReturns, FinalizeReturns, SettleReturns
<1>6. RejectReturns \/ RegisterAcceptedReturns \/ RegisterClosingReturns
        => chain' = chain
  BY <1>2 DEF RejectReturns, RegisterAcceptedReturns, RegisterClosingReturns
<1>7. ChallengePasses \/ CloseAndNotify \/ NotifyClosed => chain' = chain
  BY DEF ChallengePasses, CloseAndNotify, NotifyClosed
<1>8. ASSUME NEW p, HandleUpdate(p) \/ DeliverNotif(p) \/ DeliverCached(p)
      PROVE  chain' = chain
  BY <1>8 DEF HandleUpdate, DeliverNotif, DeliverCached
<1>9. ASSUME NEW i, NEW f, PeerProposes(i, f) PROVE chain' = chain
  BY <1>9 DEF PeerProposes
<1>10. ASSUME NEW e, HandleAdjudicatorEvent(e) PROVE chain' = chain
  BY <1>10 DEF HandleAdjudicatorEvent
<1>11. PeerOnChain \/ WatchReturns \/ Tick \/ UNCHANGED vars => chain' = chain
  BY <1>1 DEF PeerOnChain, WatchReturns, Tick, vars
<1> QED
  BY <1>3, <1>4, <1>5, <1>6, <1>7, <1>8, <1>9, <1>10, <1>11
     DEF Next, UserCalls, HolderProceeds

\* The steps that neither settle, close nor notify leave the stage outside of
\* the closing, and the notifications alone.
LEMMA OutcomeUntouched ==
    ASSUME [Next]_vars,
           ~(\E ok \in BOOLEAN : SettleReturns(ok)), ~CloseAndNotify, ~NotifyClosed
    PROVE  /\ UNCHANGED closedNotifs
           /\ at' \notin {"closing", "notify"} \/ UNCHANGED <<at, serr>>
<1> USE DEF closeVars, lockVars
<1>1. SendChUpdate \/ SubChUpdates \/ UnsubChUpdates \/ Close =>
        UNCHANGED closedNotifs /\ (at' \notin {"closing", "notify"} \/ UNCHANGED <<at, serr>>)
  BY DEF SendChUpdate, SubChUpdates, UnsubChUpdates, Close, Keep
<1>2. ASSUME NEW id, NEW accept, RespondChUpdate(id, accept)
      PROVE  UNCHANGED closedNotifs /\ (at' \notin {"closing", "notify"} \/ UNCHANGED <<at, serr>>)
  BY <1>2 DEF RespondChUpdate
<1>3. ASSUME NEW ok, UpdateByReturns(ok) \/ AcceptReturns(ok) \/ FinalizeReturns(ok)
      PROVE  UNCHANGED closedNotifs /\ at' \notin {"closing", "notify"}
  BY <1>3 DEF UpdateByReturns, AcceptReturns, FinalizeReturns, Unlock, Keep
<1>4. RejectReturns \/ RegisterAcceptedReturns \/ RegisterClosingReturns \/ ChallengePasses
        => UNCHANGED closedNotifs /\ at' \notin {"closing", "notify"}
  BY DEF RejectReturns, RegisterAcceptedReturns, RegisterClosingReturns,
         ChallengePasses, Unlock, Keep
<1>5. ASSUME NEW p, HandleUpdate(p) \/ DeliverNotif(p) \/ DeliverCached(p)
      PROVE  UNCHANGED <<closedNotifs, at, serr>>
  BY <1>5 DEF HandleUpdate, DeliverNotif, DeliverCached
<1>6. ASSUME NEW i, NEW f, PeerProposes(i, f)
      PROVE  UNCHANGED <<closedNotifs, at, serr>>
  BY <1>6 DEF PeerProposes
<1>7. ASSUME NEW e, HandleAdjudicatorEvent(e)
      PROVE  UNCHANGED closedNotifs /\ at' \notin {"closing", "notify"}
  BY <1>7 DEF HandleAdjudicatorEvent, StageForEvent
<1>8. PeerOnChain \/ WatchReturns \/ Tick \/ UNCHANGED vars => UNCHANGED <<closedNotifs, at, serr>>
  BY DEF PeerOnChain, WatchReturns, Tick, vars
<1> QED
  BY <1>1, <1>2, <1>3, <1>4, <1>5, <1>6, <1>7, <1>8
     DEF Next, UserCalls, HolderProceeds

\* A Closed notification without an error is only ever given for a channel that
\* was concluded on-chain: settle's error reaches closeAndNotify unchanged
\* (channel.go), whatever else happens on-chain meanwhile.
THEOREM ClosedNotifTellsOutcomeTheorem == Spec => []ClosedNotifTellsOutcome
<1>1. Init => OutcomeInv
  BY DEF Init, OutcomeInv, ClosedNotifTellsOutcome
<1>2. ASSUME TypeOK, OutcomeInv, [Next]_vars
      PROVE  OutcomeInv'
  <2> USE <1>2
  <2>0. chain = "concluded" => chain' = "concluded"
    BY ConclusionLasts
  <2>1. ASSUME NEW ok \in BOOLEAN, SettleReturns(ok) PROVE OutcomeInv'
    <3>1. at' = "closing" /\ (ok => chain' = "concluded") /\ closedNotifs' = closedNotifs
      BY <2>1, <2>0 DEF SettleReturns, ChainConcluded, closeVars
    <3>2. ~serr' => ok
      BY <2>1 DEF SettleReturns, SettleError
    <3> QED
      BY <2>0, <3>1, <3>2 DEF OutcomeInv, ClosedNotifTellsOutcome
  <2>2. CASE CloseAndNotify
    BY <2>0, <2>2 DEF CloseAndNotify, Holding, Keep, Unlock, OutcomeInv,
       ClosedNotifTellsOutcome, closeVars
  <2>3. CASE NotifyClosed
    <3> DEFINE e == [to |-> sub, err |-> serr]
    <3>1. at = "notify" /\ at' = "free" /\ closedNotifs' = Append(closedNotifs, e)
      BY <2>3 DEF NotifyClosed, Holding, Unlock
    <3>2. ~e.err => chain = "concluded"
      BY <3>1 DEF OutcomeInv
    <3>3. closedNotifs \in Seq(ClosedNotif)
      BY DEF TypeOK
    <3>4. ASSUME NEW i \in 1 .. Len(closedNotifs')
          PROVE  \/ closedNotifs'[i] = e
                 \/ i \in 1 .. Len(closedNotifs) /\ closedNotifs'[i] = closedNotifs[i]
      <4> HIDE DEF e
      <4> QED
        BY <3>1, <3>3
    <3> QED
      BY <2>0, <3>1, <3>2, <3>4 DEF OutcomeInv, ClosedNotifTellsOutcome
  <2>4. CASE /\ UNCHANGED closedNotifs
             /\ at' \notin {"closing", "notify"} \/ UNCHANGED <<at, serr>>
    BY <2>0, <2>4 DEF OutcomeInv, ClosedNotifTellsOutcome
  <2> QED
    BY <2>1, <2>2, <2>3, <2>4, OutcomeUntouched
<1>3. OutcomeInv => ClosedNotifTellsOutcome
  BY DEF OutcomeInv
<1> QED
  BY <1>1, <1>2, <1>3, TypeCorrect, PTL DEF Spec

----------------------------------------------------------------------------
(* Where the notification of an update is. *)

\* Notifications are of updates that were taken in, and of each there is one.
NotesInv ==
    /\ \A p \in Proposal : Cached(p) \/ p \in sending \/ Bound(p) \/ Notified(p)
                            => p \in handled
    /\ NotificationAccounted

\* append puts one notification at the end of the cache and keeps the others
\* (channel.go, sendChUpdateNotif).
LEMMA CacheGrows ==
    ASSUME cache \in Seq(Proposal), NEW p \in Proposal, cache' = Append(cache, p)
    PROVE  \A q : Cached(q)' <=> Cached(q) \/ q = p
<1>1. /\ Len(cache') = Len(cache) + 1 /\ Len(cache) \in Nat
      /\ \A i \in 1 .. Len(cache) : cache'[i] = cache[i]
      /\ cache'[Len(cache) + 1] = p
  BY AppendProperties, LenProperties
<1>2. 1 .. Len(cache') = (1 .. Len(cache)) \cup {Len(cache) + 1}
  BY <1>1
<1> QED
  BY <1>1, <1>2 DEF Cached

\* The steps other than HandleUpdate, a delivery and the ones that change the
\* subscription touch no notification.
LEMMA NotesUntouched ==
    ASSUME [Next]_vars,
           ~(\E p \in arriving : HandleUpdate(p)),
           ~(\E p \in sending : DeliverNotif(p)), ~(\E b \in bound : DeliverCached(b)),
           ~SubChUpdates, ~UnsubChUpdates, ~NotifyClosed
    PROVE  UNCHANGED <<noteVars, sub, crashed>>
<1> USE DEF subVars, envVars
<1>1. SendChUpdate \/ Close => UNCHANGED <<noteVars, sub, crashed>>
  BY DEF SendChUpdate, Close
<1>2. ASSUME NEW id, NEW accept, RespondChUpdate(id, accept)
      PROVE  UNCHANGED <<noteVars, sub, crashed>>
  BY <1>2 DEF RespondChUpdate
<1>3. ASSUME NEW ok, \/ UpdateByReturns(ok) \/ AcceptReturns(ok)
                     \/ FinalizeReturns(ok) \/ SettleReturns(ok)
      PROVE  UNCHANGED <<noteVars, sub, crashed>>
  BY <1>3 DEF UpdateByReturns, AcceptReturns, FinalizeReturns, SettleReturns
<1>4. ASSUME \/ RejectReturns \/ RegisterAcceptedReturns \/ RegisterClosingReturns
             \/ ChallengePasses \/ CloseAndNotify
      PROVE  UNCHANGED <<noteVars, sub, crashed>>
  BY <1>4 DEF RejectReturns, RegisterAcceptedReturns, RegisterClosingReturns,
         ChallengePasses, CloseAndNotify
<1>5. ASSUME NEW i, NEW f, PeerProposes(i, f) PROVE UNCHANGED <<noteVars, sub, crashed>>
  BY <1>5 DEF PeerProposes
<1>6. ASSUME NEW e, HandleAdjudicatorEvent(e) PROVE UNCHANGED <<noteVars, sub, crashed>>
  BY <1>6 DEF HandleAdjudicatorEvent
<1>7. PeerOnChain \/ WatchReturns \/ Tick \/ UNCHANGED vars => UNCHANGED <<noteVars, sub, crashed>>
  BY DEF PeerOnChain, WatchReturns, Tick, vars
<1> QED
  BY <1>1, <1>2, <1>3, <1>4, <1>5, <1>6, <1>7 DEF Next, UserCalls, HolderProceeds

\* Taking an update in, delivering its notification and changing the subscription
\* leave each notification in one place.
LEMMA NotesStep ==
    ASSUME TypeOK, DistinctProposals, NotesInv, [Next]_vars
    PROVE  NotesInv'
<1> USE DEF subVars, noteVars
<1>1. ASSUME NEW p \in arriving, HandleUpdate(p) PROVE NotesInv'
  <2>1. CASE status = "closed"
    BY <1>1, <2>1 DEF HandleUpdate, NotesInv, NotificationAccounted, Cached, Bound, Notified
  <2>2. CASE status # "closed"
    <3>1. /\ handled' = handled \cup {p} /\ SendChUpdateNotif(p)
          /\ bound' = bound /\ shown' = shown /\ sub' = sub /\ crashed' = crashed
      BY <1>1, <2>2 DEF HandleUpdate, SendChUpdateNotif
    <3>2. p \in Proposal /\ p \notin handled
      BY DEF DistinctProposals, TypeOK
    <3>3. ~Cached(p) /\ p \notin sending /\ ~Bound(p) /\ ~Notified(p)
      BY <3>2 DEF NotesInv
    <3>4. \A q \in Proposal : (Bound(q)' <=> Bound(q)) /\ (Notified(q)' <=> Notified(q))
      BY <3>1 DEF Bound, Notified
    <3>5. \A s \in 1 .. MaxSubs : <<s, p>> \notin bound
      BY <3>3 DEF Bound
    <3>h. handled \subseteq Proposal
      BY DEF TypeOK
    <3>6. CASE sub = 0
      <4>1. cache' = Append(cache, p) /\ sending' = sending
        BY <3>1, <3>6 DEF SendChUpdateNotif
      <4>2. \A q \in Proposal : Cached(q)' <=> Cached(q) \/ q = p
        BY <3>2, <4>1, CacheGrows DEF TypeOK
      <4> QED
        BY <3>1, <3>2, <3>3, <3>4, <3>5, <3>6, <3>h, <4>1, <4>2 DEF NotesInv, NotificationAccounted
    <3>7. CASE sub # 0
      <4>1. cache' = cache /\ sending' = sending \cup {p}
        BY <3>1, <3>7 DEF SendChUpdateNotif
      <4>2. \A q \in Proposal : Cached(q)' <=> Cached(q)
        BY <4>1 DEF Cached
      <4> QED
        BY <3>1, <3>2, <3>3, <3>4, <3>5, <3>7, <3>h, <4>1, <4>2 DEF NotesInv, NotificationAccounted
    <3> QED
      BY <3>6, <3>7
  <2> QED
    BY <2>1, <2>2
<1>2. ASSUME NEW p \in sending, DeliverNotif(p) PROVE NotesInv'
  <2>1. /\ sending' = sending \ {p}
        /\ UNCHANGED <<cache, bound, handled, sub>>
    BY <1>2 DEF DeliverNotif
  <2>2. p \in Proposal /\ p \in handled /\ handled \subseteq Proposal
    BY DEF TypeOK, NotesInv
  <2>3. ~Cached(p) /\ ~Bound(p) /\ ~Notified(p)
    BY <2>2 DEF NotesInv, NotificationAccounted
  <2>4. \A q \in Proposal : (Cached(q)' <=> Cached(q)) /\ (Bound(q)' <=> Bound(q))
    BY <2>1 DEF Cached, Bound
  <2>5. CASE sub = 0
    <3>1. crashed' /\ \A q \in Proposal : Notified(q)' <=> Notified(q)
      BY <1>2, <2>5 DEF DeliverNotif, Notified
    <3> QED
      BY <2>1, <2>2, <2>3, <2>4, <3>1 DEF NotesInv, NotificationAccounted
  <2>6. CASE sub # 0
    <3>1. shown' = shown \cup {<<sub, p>>} /\ crashed' = crashed
      BY <1>2, <2>6 DEF DeliverNotif
    <3>2. sub \in 1 .. MaxSubs
      BY <2>6 DEF TypeOK
    <3>3. \A q \in Proposal, s \in 1 .. MaxSubs :
            <<s, q>> \in shown' <=> <<s, q>> \in shown \/ (s = sub /\ q = p)
      BY <3>1
    <3>4. \A q \in Proposal : Notified(q)' <=> Notified(q) \/ q = p
      BY <3>2, <3>3 DEF Notified
    <3> QED
      BY <2>1, <2>2, <2>3, <2>4, <3>1, <3>4 DEF NotesInv, NotificationAccounted
  <2> QED
    BY <2>5, <2>6
<1>3. ASSUME NEW b \in bound, DeliverCached(b) PROVE NotesInv'
  <2>1. PICK s \in 1 .. MaxSubs, p \in Proposal : b = <<s, p>>
    BY DEF TypeOK
  <2>2. /\ bound' = bound \ {b} /\ shown' = shown \cup {b}
        /\ UNCHANGED <<cache, sending, handled, sub, crashed>>
    BY <1>3 DEF DeliverCached, envVars
  <2>3. Bound(p) /\ p \in handled /\ handled \subseteq Proposal
    BY <2>1 DEF Bound, NotesInv, TypeOK
  <2>4. ~Cached(p) /\ p \notin sending /\ ~Notified(p)
    BY <2>3 DEF NotesInv, NotificationAccounted
  <2>5. \A q \in Proposal : Cached(q)' <=> Cached(q)
    BY <2>2 DEF Cached
  <2>6. \A q \in Proposal : Notified(q)' <=> Notified(q) \/ q = p
    BY <2>1, <2>2 DEF Notified
  <2>7. ~Bound(p)'
    BY <2>1, <2>2, <2>3 DEF Bound, NotesInv, NotificationAccounted
  <2>8. \A q \in Proposal \ {p} : Bound(q)' <=> Bound(q)
    BY <2>1, <2>2 DEF Bound
  <2> QED
    BY <2>1, <2>2, <2>3, <2>4, <2>5, <2>6, <2>7, <2>8 DEF NotesInv, NotificationAccounted
<1>4. CASE SubChUpdates
  <2>1. /\ sub = 0 /\ cache' = <<>>
        /\ bound' = bound \cup {<<nsubs + 1, cache[i]>> : i \in 1 .. Len(cache)}
        /\ UNCHANGED <<sending, shown, handled, crashed>>
    BY <1>4 DEF SubChUpdates, FlushCache, envVars
  <2>2. nsubs + 1 \in 1 .. MaxSubs /\ handled \subseteq Proposal
    BY <1>4 DEF SubChUpdates, TypeOK
  <2>3. \A q \in Proposal : ~Cached(q)'
    BY <2>1 DEF Cached
  <2>4. \A q \in Proposal : Notified(q)' <=> Notified(q)
    BY <2>1 DEF Notified
  <2>5. \A q \in Proposal, s \in 1 .. MaxSubs :
          <<s, q>> \in bound' <=> <<s, q>> \in bound \/ (s = nsubs + 1 /\ Cached(q))
    BY <2>1 DEF Cached
  <2>6. \A q \in Proposal : Bound(q)' <=> Bound(q) \/ Cached(q)
    BY <2>2, <2>5 DEF Bound
  <2>7. \A q \in handled : Cached(q) => \A s \in 1 .. MaxSubs : <<s, q>> \notin bound
    BY DEF NotesInv, NotificationAccounted, Bound
  <2> QED
    BY <2>1, <2>2, <2>3, <2>4, <2>5, <2>6, <2>7 DEF NotesInv, NotificationAccounted
<1>5. CASE UnsubChUpdates \/ NotifyClosed
  <2>1. sub' = 0 /\ UNCHANGED <<cache, sending, bound, shown, handled, crashed>>
    BY <1>5 DEF UnsubChUpdates, NotifyClosed, UnsubAfterClose, envVars
  <2> QED
    BY <2>1 DEF NotesInv, NotificationAccounted, Cached, Bound, Notified
<1>6. CASE UNCHANGED <<noteVars, sub, crashed>>
  BY <1>6 DEF NotesInv, NotificationAccounted, Cached, Bound, Notified
<1> QED
  BY <1>1, <1>2, <1>3, <1>4, <1>5, <1>6, NotesUntouched

\* HandleUpdate, SubChUpdates, UnsubChUpdates and closeAndNotify lose no
\* notification and send none twice, for any number of updates and
\* subscriptions; a notification is lost only when the process dies on a nil
\* notifier (channel.go, sendChUpdateNotif).
THEOREM NotificationAccountedTheorem == Spec => []NotificationAccounted
<1>1. Init => NotesInv
  BY DEF Init, NotesInv, NotificationAccounted, Cached, Bound, Notified
<1>2. NotesInv => NotificationAccounted
  BY DEF NotesInv
<1>3. DistinctProposals /\ RespondersInv => DistinctProposals
  OBVIOUS
<1> QED
  BY <1>1, <1>2, <1>3, NotesStep, RespondersInvariant, TypeCorrect, PTL DEF Spec
=============================================================================
