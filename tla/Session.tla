------------------------------ MODULE Session ------------------------------
(***************************************************************************)
(* The channels of a session and the two levels of mutexes around them:    *)
(* session/session.go (New, OpenCh, the end of RespondChProposal,          *)
(* HandleUpdate, GetChsInfo, DeployAssetERC20, Close),                     *)
(* session/channelRegistry.go and, for what Close shuts down,              *)
(* session/client.go.                                                      *)
(*                                                                         *)
(* The session's mutex guards the registry.  Close and GetChsInfo take the *)
(* mutex of every registered channel while they hold it.  OpenCh and       *)
(* RespondChProposal read isOpen without it and take it only at their end, *)
(* to register the channel that was opened meanwhile.                      *)
(*                                                                         *)
(* What a channel does inside its own mutex is the subject of Channel; here *)
(* it is an operation that begins, may close the channel, and ends.        *)
(***************************************************************************)
EXTENDS Naturals, Sequences, FiniteSets

CONSTANTS
    Callers,    \* goroutines that call the session API
    Chans,      \* channels, by ID
    Nobody,     \* the session's mutex is free
    Handler     \* the goroutine of the client that runs HandleUpdate

ASSUME SessionAssumption ==
    Nobody \notin Callers /\ Handler \notin Callers /\ Nobody # Handler

VARIABLES
    isOpen,     \* s.isOpen
    slock,      \* holder of the session's mutex
    reg,        \* s.chs.chs, in the order of put
    chlock,     \* mutex of each channel: "free", "op" or "session"
    status,     \* ch.status, "none" before newCh
    phase,      \* pch.Phase(); "Registered" stands for any unexpected phase
    pc,         \* where each caller is
    walk,       \* index of the next channel in a caller's forEach
    force,      \* Close's argument
    odd,        \* Close met a channel in an unexpected phase
    opened,     \* the channel a caller is about to register
    client,     \* how far the channel client was closed
    goros,      \* goroutines the client waits for: c.wg
    returned,   \* history: channels reported to the user
    refused,    \* history: channels an update was rejected for as unknown
    snapshot    \* history: openChsInfo of the Close that succeeded

chanVars   == <<chlock, status, phase>>
callVars   == <<pc, walk, force, odd, opened>>
clientVars == <<client, goros>>
resultVars == <<returned, refused, snapshot>>

vars == <<isOpen, slock, reg, chanVars, callVars, clientVars, resultVars>>

NoChan == "noChannel"

Registered == {reg[i] : i \in 1 .. Len(reg)}

TypeOK ==
    /\ isOpen \in BOOLEAN
    /\ slock \in Callers \cup {Nobody, Handler}
    /\ reg \in Seq(Chans)
    /\ chlock \in [Chans -> {"free", "op", "session"}]
    /\ status \in [Chans -> {"none", "open", "closed"}]
    /\ phase \in [Chans -> {"Acting", "Registered", "Withdrawn"}]
    /\ pc \in [Callers -> {"idle", "proposing", "adding", "reading", "info",
                           "deploying", "closing", "shutdown"}]
    /\ walk \in [Callers -> Nat]
    /\ force \in [Callers -> BOOLEAN]
    /\ odd \in [Callers -> BOOLEAN]
    /\ opened \in [Callers -> Chans \cup {NoChan}]
    /\ client \in {"running", "noHandler", "noBus", "noDatabase"}
    /\ goros \subseteq {"listener", "handler"}
    /\ returned \subseteq Chans
    /\ refused \subseteq Chans
    /\ snapshot \subseteq Chans

\* handleRestoredCh registers channels in the Acting phase only, and of these the
\* ones with peers and currencies that are known.
handleRestoredCh(c) == phase[c] = "Acting"

\* RestoreChs: the channels found in the database, in any order.
Restored ==
    /\ phase \in [Chans -> {"Acting", "Registered"}]
    /\ \E n \in 0 .. Cardinality(Chans) : reg \in [1 .. n -> Chans]
    /\ \A i, j \in 1 .. Len(reg) : reg[i] = reg[j] => i = j
    /\ \A c \in Registered : handleRestoredCh(c)
    /\ status = [c \in Chans |-> IF c \in Registered THEN "open" ELSE "none"]
    /\ returned = Registered

\* newEthereumPaymentClient and Handle have started their goroutines.
ClientStarted == client = "running" /\ goros = {"listener", "handler"}

\* New
Init ==
    /\ isOpen = TRUE /\ slock = Nobody
    /\ Restored
    /\ ClientStarted
    /\ chlock = [c \in Chans |-> "free"]
    /\ pc = [t \in Callers |-> "idle"]
    /\ walk = [t \in Callers |-> 1]
    /\ force = [t \in Callers |-> FALSE]
    /\ odd = [t \in Callers |-> FALSE]
    /\ opened = [t \in Callers |-> NoChan]
    /\ refused = {} /\ snapshot = {}

\* s.Lock() returned for caller t, respectively s.Unlock().
LockSession(t) == slock = Nobody /\ slock' = t
UnlockSession == slock' = Nobody

Goto(t, l) == pc' = [pc EXCEPT ![t] = l]

\* The method returns and its local variables are gone.
Return(t) ==
    /\ Goto(t, "idle")
    /\ walk' = [walk EXCEPT ![t] = 1]
    /\ force' = [force EXCEPT ![t] = FALSE]
    /\ odd' = [odd EXCEPT ![t] = FALSE]
    /\ opened' = [opened EXCEPT ![t] = NoChan]

----------------------------------------------------------------------------
(* Opening channels. *)

\* OpenCh, or RespondChProposal with accept = true, up to the call of
\* ProposeChannel, respectively responder.Accept: isOpen is read without the
\* mutex and nothing is locked during the call.
OpenCh(t) ==
    /\ pc[t] = "idle"
    /\ isOpen
    /\ Goto(t, "proposing")
    /\ UNCHANGED <<isOpen, slock, reg, chanVars, walk, force, odd, opened,
                   clientVars, resultVars>>

\* The call failed: the peer refused, did not answer or did not fund.
ProposalFails(t) ==
    /\ pc[t] = "proposing"
    /\ Return(t)
    /\ UNCHANGED <<isOpen, slock, reg, chanVars, clientVars, resultVars>>

\* The call returned a funded channel with a fresh ID, and newCh wraps it.
ProposalSucceeds(t, c) ==
    /\ pc[t] = "proposing"
    /\ status[c] = "none" /\ phase[c] = "Acting"
    /\ status' = [status EXCEPT ![c] = "open"]
    /\ opened' = [opened EXCEPT ![t] = c]
    /\ Goto(t, "adding")
    /\ UNCHANGED <<isOpen, slock, reg, chlock, phase, walk, force, odd,
                   clientVars, resultVars>>

\* chRegistry.put
Put(c) == reg' = Append(reg, c)

\* addCh: register the channel under the session's mutex.  Neither addCh nor
\* its callers look at isOpen again.  RespondChProposal then returns; OpenCh
\* has the channel's GetChInfo to wait for.
AddCh(t) ==
    /\ pc[t] = "adding" /\ slock = Nobody
    /\ Put(opened[t])
    /\ \/ Return(t) /\ returned' = returned \cup {opened[t]}
       \/ /\ Goto(t, "reading")
          /\ UNCHANGED <<walk, force, odd, opened, returned>>
    /\ UNCHANGED <<isOpen, slock, chanVars, clientVars, refused, snapshot>>

\* OpenCh ends with ch.GetChInfo(), which takes the channel's mutex.
ChInfoRead(t) ==
    /\ pc[t] = "reading"
    /\ chlock[opened[t]] = "free"
    /\ returned' = returned \cup {opened[t]}
    /\ Return(t)
    /\ UNCHANGED <<isOpen, slock, reg, chanVars, clientVars, refused, snapshot>>

----------------------------------------------------------------------------
(* What happens to a channel, outside and inside its own mutex. *)

\* External: the watcher sees the channel registered or concluded on-chain.
PhaseMoves(c) ==
    /\ status[c] # "none" /\ phase[c] = "Acting"
    /\ phase' = [phase EXCEPT ![c] = "Registered"]
    /\ UNCHANGED <<isOpen, slock, reg, chlock, status, callVars,
                   clientVars, resultVars>>

\* A method or event handler of the channel takes the channel's mutex.
ChannelOpBegins(c) ==
    /\ status[c] # "none"
    /\ chlock[c] = "free"
    /\ chlock' = [chlock EXCEPT ![c] = "op"]
    /\ UNCHANGED <<isOpen, slock, reg, status, phase, callVars,
                   clientVars, resultVars>>

\* It releases the mutex, having changed nothing, or having closed a channel
\* that was disputed or concluded, after settling it or failing to.
ChannelOpEnds(c) ==
    /\ chlock[c] = "op"
    /\ chlock' = [chlock EXCEPT ![c] = "free"]
    /\ \/ UNCHANGED <<status, phase>>
       \/ /\ phase[c] # "Acting"
          /\ status' = [status EXCEPT ![c] = "closed"]
          /\ \/ phase' = [phase EXCEPT ![c] = "Withdrawn"]
             \/ UNCHANGED phase
    /\ UNCHANGED <<isOpen, slock, reg, callVars,
                   clientVars, resultVars>>

\* HandleUpdateWInterface: an update for a channel that is not in the registry
\* is rejected, and the session's mutex is held during the call of Reject.  An
\* update for a channel that is there is handed to it in a goroutine (and
\* changes nothing here).
HandleUpdate(c) ==
    /\ slock = Nobody
    /\ isOpen
    /\ status[c] # "none"
    /\ c \notin Registered
    /\ slock' = Handler
    /\ refused' = refused \cup {c}
    /\ UNCHANGED <<isOpen, reg, chanVars, callVars, clientVars,
                   returned, snapshot>>

\* Reject returns, with or without an error.  Its context is
\* context.Background(): nothing bounds how long it takes.
RejectReturns ==
    /\ slock = Handler
    /\ UnlockSession
    /\ UNCHANGED <<isOpen, reg, chanVars, callVars, clientVars, resultVars>>

----------------------------------------------------------------------------
(* Deploying a contract. *)

\* DeployAssetERC20: the transaction is sent with the session's mutex held.
DeployAssetERC20(t) ==
    /\ pc[t] = "idle"
    /\ LockSession(t)
    /\ isOpen
    /\ Goto(t, "deploying")
    /\ UNCHANGED <<isOpen, reg, chanVars, walk, force, odd, opened,
                   clientVars, resultVars>>

\* The contract is deployed, or the transaction failed or timed out.
DeployReturns(t) ==
    /\ pc[t] = "deploying"
    /\ UnlockSession
    /\ Return(t)
    /\ UNCHANGED <<isOpen, reg, chanVars, clientVars, resultVars>>

----------------------------------------------------------------------------
(* Walking over all channels. *)

\* GetChsInfo: take the session's mutex (whether or not the session is open).
GetChsInfo(t) ==
    /\ pc[t] = "idle"
    /\ LockSession(t)
    /\ Goto(t, "info")
    /\ UNCHANGED <<isOpen, reg, chanVars, walk, force, odd, opened,
                   clientVars, resultVars>>

\* GetChInfo of the next channel: its mutex is taken and released.
GetChsInfoNext(t) ==
    /\ pc[t] = "info"
    /\ walk[t] <= Len(reg)
    /\ chlock[reg[walk[t]]] = "free"
    /\ walk' = [walk EXCEPT ![t] = @ + 1]
    /\ UNCHANGED <<isOpen, slock, reg, chanVars, pc, force, odd, opened,
                   clientVars, resultVars>>

\* Fault: the session's mutex is not released.
GetChsInfoReturnsLocked(t) ==
    /\ pc[t] = "info"
    /\ walk[t] > Len(reg)
    /\ Return(t)
    /\ UNCHANGED <<isOpen, slock, reg, chanVars, clientVars, resultVars>>

\* GetChsInfo returns the information it has collected.
GetChsInfoReturns(t) ==
    /\ pc[t] = "info"
    /\ walk[t] > Len(reg)
    /\ UnlockSession
    /\ Return(t)
    /\ UNCHANGED <<isOpen, reg, chanVars, clientVars, resultVars>>

\* Close: refused on a closed session, otherwise the walk begins.
Close(t, f) ==
    /\ pc[t] = "idle"
    /\ LockSession(t)
    /\ isOpen
    /\ Goto(t, "closing")
    /\ force' = [force EXCEPT ![t] = f]
    /\ UNCHANGED <<isOpen, reg, chanVars, walk, odd, opened, clientVars, resultVars>>

\* ch.Lock() of the next channel, which is kept, and a look at its phase.
CloseLocksNext(t) ==
    /\ pc[t] = "closing"
    /\ walk[t] <= Len(reg)
    /\ chlock[reg[walk[t]]] = "free"
    /\ chlock' = [chlock EXCEPT ![reg[walk[t]]] = "session"]
    /\ odd' = [odd EXCEPT ![t] = @ \/ phase[reg[walk[t]]] = "Registered"]
    /\ walk' = [walk EXCEPT ![t] = @ + 1]
    /\ UNCHANGED <<isOpen, slock, reg, status, phase, pc, force, opened,
                   clientVars, resultVars>>

\* openChsInfo: the status of a locked channel cannot change any more.
OpenChs == {c \in Registered : status[c] = "open"}

\* Fault: the error paths return with the channels still locked.
UnlockAllChsForgets == UNCHANGED chlock

UnlockAllChs ==
    chlock' = [c \in Chans |-> IF c \in Registered THEN "free" ELSE chlock[c]]

\* Close returns an error: a channel is in an unexpected phase, or is open and
\* force was not given.
CloseFails(t) ==
    /\ pc[t] = "closing"
    /\ walk[t] > Len(reg)
    /\ odd[t] \/ (~force[t] /\ OpenChs # {})
    /\ UnlockAllChs
    /\ UnlockSession
    /\ Return(t)
    /\ UNCHANGED <<isOpen, reg, status, phase, clientVars, resultVars>>

\* Close goes through: isOpen is cleared, then the wallets and the client are
\* closed, still under the mutex.
CloseSucceeds(t) ==
    /\ pc[t] = "closing"
    /\ walk[t] > Len(reg)
    /\ ~odd[t]
    /\ force[t] \/ OpenChs = {}
    /\ isOpen' = FALSE
    /\ snapshot' = OpenChs
    /\ Goto(t, "shutdown")
    /\ UNCHANGED <<slock, reg, chanVars, walk, force, odd, opened, clientVars,
                   returned, refused>>

\* Fault: the channels are unlocked when the session has been closed.
CloseReturnsUnlocking(t) ==
    /\ UnlockAllChs
    /\ UnlockSession
    /\ Return(t)
    /\ UNCHANGED <<status, phase>>

\* Close returns, with or without an error of client.Close.  The channels that
\* Close locked stay locked.
CloseReturns(t) ==
    /\ UnlockSession
    /\ Return(t)
    /\ UNCHANGED chanVars

\* A part of client.Close was done, or has failed and was the last.
ClosePart(t, next) ==
    \/ client' = next /\ UNCHANGED <<slock, chanVars, callVars>>
    \/ CloseReturns(t) /\ UNCHANGED client

\* client.Close, first part: pClient.Close stops the handler.
PClientCloses(t) ==
    /\ pc[t] = "shutdown" /\ client = "running"
    /\ ClosePart(t, "noHandler")
    /\ UNCHANGED <<isOpen, reg, goros, resultVars>>

\* Fault: the goroutines are waited for before the bus is closed.
MsgBusClosesLate(t) ==
    /\ pc[t] = "shutdown" /\ client = "noHandler" /\ goros = {}
    /\ ClosePart(t, "noBus")
    /\ UNCHANGED <<isOpen, reg, goros, resultVars>>

\* Second part: msgBus.Close stops the listener.
MsgBusCloses(t) ==
    /\ pc[t] = "shutdown" /\ client = "noHandler"
    /\ ClosePart(t, "noBus")
    /\ UNCHANGED <<isOpen, reg, goros, resultVars>>

\* Last part: c.wg.Wait returns, and the database is closed or fails to.
DatabaseCloses(t) ==
    /\ pc[t] = "shutdown" /\ client = "noBus"
    /\ goros = {}
    /\ CloseReturns(t)
    /\ client' \in {"noBus", "noDatabase"}
    /\ UNCHANGED <<isOpen, reg, goros, resultVars>>

\* External: a goroutine of the client sees that it was stopped.  What it has
\* started for messages of the peer is not waited for.
GoroutineEnds(g) ==
    /\ g \in goros
    /\ \/ g = "handler" /\ client # "running"
       \/ g = "listener" /\ client \notin {"running", "noHandler"}
    /\ goros' = goros \ {g}
    /\ UNCHANGED <<isOpen, slock, reg, chanVars, callVars, client, resultVars>>

----------------------------------------------------------------------------
\* A caller in a method of the session makes its next step.
Proceeds(t) ==
    \/ ProposalFails(t)
    \/ \E c \in Chans : ProposalSucceeds(t, c)
    \/ ChInfoRead(t)
    \/ DeployReturns(t)
    \/ GetChsInfoNext(t)
    \/ GetChsInfoReturns(t)
    \/ CloseLocksNext(t)
    \/ CloseFails(t)
    \/ CloseSucceeds(t)
    \/ PClientCloses(t) \/ MsgBusCloses(t) \/ DatabaseCloses(t)

Next ==
    \/ \E t \in Callers :
          \/ OpenCh(t)
          \/ AddCh(t)
          \/ GetChsInfo(t)
          \/ DeployAssetERC20(t)
          \/ \E f \in BOOLEAN : Close(t, f)
          \/ Proceeds(t)
    \/ \E c \in Chans :
          \/ PhaseMoves(c)
          \/ ChannelOpBegins(c)
          \/ ChannelOpEnds(c)
          \/ HandleUpdate(c)
    \/ RejectReturns
    \/ \E g \in goros : GoroutineEnds(g)

Spec == Init /\ [][Next]_vars

\* Operations of a channel end (Channel's MutexReleased, with its premise), the
\* calls that Proceeds stands for have deadlines, and both kinds of mutex are
\* Go channels that serve their waiters in turn.  Nobody has to call anything,
\* and RejectReturns is not fair: that call has no deadline.
Fairness ==
    /\ \A c \in Chans : WF_vars(ChannelOpEnds(c))
    /\ WF_vars(\E g \in goros : GoroutineEnds(g))
    /\ \A t \in Callers : SF_vars(AddCh(t)) /\ SF_vars(Proceeds(t))

FairSpec == Spec /\ Fairness

----------------------------------------------------------------------------
(* Properties. *)

Closing == \E t \in Callers : pc[t] = "closing"

\* A Close that fails leaves no trace: while the session is open and nobody is
\* in Close, no channel is left locked by the session.
FailedCloseReleases ==
    isOpen /\ ~Closing => \A c \in Chans : chlock[c] # "session"

\* The channels a forced Close reported as open stay as reported: nothing can
\* run on them between the walk and the end of the process.
SnapshotStaysOpen == \A c \in snapshot : status[c] = "open"

\* An update is refused as belonging to an unknown channel only while OpenCh
\* (or RespondChProposal) has not returned that channel yet.
RefusedOnlyUnreturned ==
    [][\A c \in refused' \ refused : c \notin returned]_vars

\* The registry never changes under a walk: GetChsInfo sizes its result before
\* it walks, and Close must unlock exactly the channels it has locked.
RegistryFixedDuringWalk ==
    [][(\E t \in Callers : pc[t] \in {"info", "closing", "shutdown"})
         => reg' = reg]_vars

\* HandleUpdate never keeps the session's mutex for good: what its call of
\* Reject, which has no deadline (session.go:980), depends on the peer for.
RejectionsReturn == []<>(slock # Handler)

\* If so, every method returns, as long as the session is not closed: nobody
\* who has a channel's mutex waits for the session's.
CallsReturnWhileOpen ==
    RejectionsReturn =>
        \A t \in Callers : pc[t] # "idle" ~> (pc[t] = "idle" \/ ~isOpen)

\* A Close that shuts the client down returns: each goroutine it waits for was
\* stopped before.
ShutdownEnds == \A t \in Callers : pc[t] = "shutdown" ~> pc[t] = "idle"

\* Every method returns, whatever was called before, if the rejections do.
CallsReturn ==
    RejectionsReturn => \A t \in Callers : pc[t] # "idle" ~> pc[t] = "idle"

\* A channel that was closed, and whose mutex is free again, is not in the
\* session's registry any more.  Not so: close leaves the registry alone.
ClosedChsRemoved ==
    \A c \in Registered : status[c] = "closed" => chlock[c] # "free"

\* A closed session gains no channel.  Not so: see AddCh and the README.
ClosedSessionGainsNoChannel == [][~isOpen => reg' = reg]_vars

\* Close with force closes the session.  Not so: see CloseFails and the README.
ForceCloses ==
    [][\A t \in Callers :
         pc[t] = "closing" /\ pc'[t] # "closing" /\ force[t] => ~isOpen']_vars
=============================================================================
