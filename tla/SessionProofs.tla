--------------------------- MODULE SessionProofs ---------------------------
(***************************************************************************)
(* Proofs about Session: the discipline of its two levels of mutexes, for  *)
(* any number of callers and channels.                                     *)
(***************************************************************************)
EXTENDS Session, SequenceTheorems, TLAPS

USE SessionAssumption DEF SessionAssumption

\* The methods that hold the session's mutex from one step to the next.
Holds(t) == pc[t] \in {"info", "deploying", "closing", "shutdown"}

\* Types, and what a caller about to register a channel has in its hands: put
\* appends a channel only because newCh has returned one (session.go:433-434).
TypeInv ==
    /\ TypeOK
    /\ \A t \in Callers : walk[t] >= 1 /\ (pc[t] \in {"adding", "reading"} => opened[t] \in Chans)

\* The session's mutex is held by the caller that is in GetChsInfo,
\* DeployAssetERC20 or Close, so that there is one such caller at most, and none
\* while HandleUpdate has it (session.go:915, 970, 1009 and 1093).
MutexInv == \A t \in Callers : Holds(t) <=> slock = t

\* A walk starts at the first channel; Close walks in open sessions only and
\* closes the client in closed ones only (session.go:1019 and 1062).
WalkInv ==
    \A t \in Callers :
        /\ ~Holds(t) => walk[t] = 1
        /\ pc[t] = "closing" => isOpen
        /\ pc[t] = "shutdown" => ~isOpen

\* Close has the mutex of every channel it has passed (session.go:1028).
PassedLocked ==
    \A t \in Callers : pc[t] = "closing" =>
        \A i \in 1 .. Len(reg) : i < walk[t] => chlock[reg[i]] = "session"

\* In an open session a channel is locked by the session only for a Close that
\* is walking, and then it is one of the channels which that Close would unlock
\* (session.go:1050 and 1056).
LockedByClose ==
    isOpen => \A c \in Chans : chlock[c] = "session" => Closing /\ c \in Registered

\* What a successful Close has reported as open is open, and locked for good.
SnapshotInv ==
    /\ isOpen => snapshot = {}
    /\ \A c \in snapshot : chlock[c] = "session" /\ status[c] = "open"

\* What the user was told of, and what OpenCh is about to tell, is in the
\* registry.
ReturnedInv ==
    /\ returned \subseteq Registered
    /\ \A t \in Callers : pc[t] = "reading" => opened[t] \in Registered

SessionInv ==
    /\ TypeInv /\ MutexInv /\ WalkInv
    /\ PassedLocked /\ LockedByClose /\ SnapshotInv /\ ReturnedInv

----------------------------------------------------------------------------
\* put adds the channel to the registry and keeps all others at their place
\* (channelRegistry.go).
LEMMA PutRegisters ==
    ASSUME reg \in Seq(Chans), NEW c \in Chans, Put(c)
    PROVE  /\ reg' \in Seq(Chans)
           /\ Registered' = Registered \cup {c}
<1>1. /\ reg' \in Seq(Chans) /\ Len(reg') = Len(reg) + 1
      /\ \A i \in 1 .. Len(reg) : reg'[i] = reg[i]
      /\ reg'[Len(reg) + 1] = c
  BY AppendProperties DEF Put
<1>2. Len(reg) \in Nat
  BY LenProperties
<1>3. 1 .. Len(reg') = (1 .. Len(reg)) \cup {Len(reg) + 1}
  BY <1>1, <1>2
<1> QED
  BY <1>1, <1>2, <1>3 DEF Registered

\* Registered channels are channels.
LEMMA RegisteredType ==
    ASSUME reg \in Seq(Chans)
    PROVE  Registered \subseteq Chans /\ Len(reg) \in Nat
  BY LenProperties, ElementOfSeq DEF Registered

\* New leaves a session in which nothing is locked and every restored channel
\* is registered.
LEMMA SessionInit == Init => SessionInv
<1> SUFFICES ASSUME Init PROVE SessionInv
  OBVIOUS
<1> USE DEF Init, Restored, ClientStarted
<1>1. reg \in Seq(Chans)
  <2>1. PICK n \in 0 .. Cardinality(Chans) : reg \in [1 .. n -> Chans]
    OBVIOUS
  <2>2. n \in Nat
    BY <2>1
  <2> QED
    BY <2>1, <2>2
<1>2. Registered \subseteq Chans
  BY <1>1, RegisteredType
<1>3. TypeInv
  BY <1>1, <1>2 DEF TypeInv, TypeOK
<1>4. MutexInv /\ WalkInv
  BY DEF MutexInv, WalkInv, Holds
<1>5. PassedLocked /\ LockedByClose /\ SnapshotInv /\ ReturnedInv
  BY DEF PassedLocked, LockedByClose, SnapshotInv, ReturnedInv
<1> QED
  BY <1>3, <1>4, <1>5 DEF SessionInv

----------------------------------------------------------------------------
\* Every step of the session keeps the discipline of its mutexes.
LEMMA SessionStep == SessionInv /\ [Next]_vars => SessionInv'
<1> SUFFICES ASSUME SessionInv, [Next]_vars
             PROVE  SessionInv'
  OBVIOUS
<1> USE DEF chanVars, callVars, clientVars, resultVars
<1>i. /\ TypeInv /\ MutexInv /\ WalkInv
      /\ PassedLocked /\ LockedByClose /\ SnapshotInv /\ ReturnedInv
  BY DEF SessionInv
<1> USE <1>i
<1> SUFFICES /\ TypeInv' /\ MutexInv' /\ WalkInv'
             /\ PassedLocked' /\ LockedByClose' /\ SnapshotInv' /\ ReturnedInv'
  BY DEF SessionInv
<1>r. Registered \subseteq Chans /\ Len(reg) \in Nat
  BY RegisteredType DEF TypeInv, TypeOK
<1>1. CASE UNCHANGED vars
  <2> USE <1>1 DEF vars
  <2>1. TypeInv'
    BY DEF TypeInv, TypeOK
  <2>2. MutexInv' /\ WalkInv'
    BY DEF TypeInv, TypeOK, MutexInv, WalkInv, Holds
  <2>3. PassedLocked' /\ LockedByClose'
    BY DEF TypeInv, TypeOK, MutexInv, WalkInv, Holds, PassedLocked,
       LockedByClose, Closing, Registered
  <2>4. SnapshotInv' /\ ReturnedInv'
    BY DEF TypeInv, TypeOK, SnapshotInv, ReturnedInv, Registered
  <2> QED
    BY <2>1, <2>2, <2>3, <2>4
<1>2. ASSUME NEW t \in Callers, OpenCh(t)
      PROVE  /\ TypeInv' /\ MutexInv' /\ WalkInv' /\ PassedLocked'
             /\ LockedByClose' /\ SnapshotInv' /\ ReturnedInv'
  <2> USE <1>2 DEF OpenCh, Goto
  <2>1. TypeInv'
    BY DEF TypeInv, TypeOK
  <2>2. MutexInv' /\ WalkInv'
    BY DEF TypeInv, TypeOK, MutexInv, WalkInv, Holds
  <2>3. PassedLocked' /\ LockedByClose'
    BY DEF TypeInv, TypeOK, MutexInv, WalkInv, Holds, PassedLocked,
       LockedByClose, Closing, Registered
  <2>4. SnapshotInv' /\ ReturnedInv'
    BY DEF TypeInv, TypeOK, SnapshotInv, ReturnedInv, Registered
  <2> QED
    BY <2>1, <2>2, <2>3, <2>4
<1>3. ASSUME NEW t \in Callers, AddCh(t)
      PROVE  /\ TypeInv' /\ MutexInv' /\ WalkInv' /\ PassedLocked'
             /\ LockedByClose' /\ SnapshotInv' /\ ReturnedInv'
  <2> USE <1>3 DEF AddCh, Return, Goto
  <2>1. opened[t] \in Chans /\ reg \in Seq(Chans)
    BY DEF TypeInv, TypeOK
  <2>2. reg' \in Seq(Chans) /\ Registered' = Registered \cup {opened[t]}
    BY <2>1, PutRegisters
  <2>3. \A u \in Callers : ~Holds(u)
    BY DEF MutexInv
  <2>4. TypeInv'
    <3>1. CASE Return(t) /\ returned' = returned \cup {opened[t]}
      <4>1. TypeOK'
        BY <2>1, <2>2, <3>1 DEF TypeInv, TypeOK
      <4> QED
        BY <4>1, <3>1 DEF TypeInv, TypeOK
    <3>2. CASE Goto(t, "reading") /\ UNCHANGED <<walk, force, odd, opened, returned>>
      <4>1. TypeOK'
        BY <2>1, <2>2, <3>2 DEF TypeInv, TypeOK
      <4> QED
        BY <4>1, <3>2, <2>1 DEF TypeInv, TypeOK
    <3> QED
      BY <3>1, <3>2
  <2>5. MutexInv' /\ WalkInv'
    BY <2>3 DEF TypeInv, TypeOK, MutexInv, WalkInv, Holds
  <2>6. PassedLocked' /\ LockedByClose'
    BY <2>2, <2>3 DEF TypeInv, TypeOK, PassedLocked, LockedByClose, Closing, Holds
  <2>7. SnapshotInv'
    BY DEF SnapshotInv
  <2>8. ReturnedInv'
    BY <2>1, <2>2 DEF ReturnedInv, TypeInv, TypeOK
  <2> QED
    BY <2>4, <2>5, <2>6, <2>7, <2>8
<1>4. ASSUME NEW t \in Callers, GetChsInfo(t)
      PROVE  /\ TypeInv' /\ MutexInv' /\ WalkInv' /\ PassedLocked'
             /\ LockedByClose' /\ SnapshotInv' /\ ReturnedInv'
  <2> USE <1>4 DEF GetChsInfo, LockSession, Goto
  <2>1. TypeInv'
    BY DEF TypeInv, TypeOK
  <2>2. MutexInv' /\ WalkInv'
    BY DEF TypeInv, TypeOK, MutexInv, WalkInv, Holds
  <2>3. PassedLocked' /\ LockedByClose'
    BY DEF TypeInv, TypeOK, MutexInv, WalkInv, Holds, PassedLocked,
       LockedByClose, Closing, Registered
  <2>4. SnapshotInv' /\ ReturnedInv'
    BY DEF TypeInv, TypeOK, SnapshotInv, ReturnedInv, Registered
  <2> QED
    BY <2>1, <2>2, <2>3, <2>4
<1>5. ASSUME NEW t \in Callers, NEW f \in BOOLEAN, Close(t, f)
      PROVE  /\ TypeInv' /\ MutexInv' /\ WalkInv' /\ PassedLocked'
             /\ LockedByClose' /\ SnapshotInv' /\ ReturnedInv'
  <2> USE <1>5 DEF Close, LockSession, Goto
  <2>1. TypeInv'
    BY DEF TypeInv, TypeOK
  <2>2. MutexInv' /\ WalkInv'
    BY DEF TypeInv, TypeOK, MutexInv, WalkInv, Holds
  <2>3. PassedLocked' /\ LockedByClose'
    <3>1. \A u \in Callers : ~Holds(u) /\ walk[u] = 1
      BY DEF MutexInv, WalkInv
    <3>2. \A c \in Chans : chlock[c] # "session"
      BY <3>1 DEF LockedByClose, Closing, Holds
    <3> QED
      BY <3>1, <3>2 DEF TypeInv, TypeOK, Holds, PassedLocked, LockedByClose
  <2>4. SnapshotInv' /\ ReturnedInv'
    BY DEF TypeInv, TypeOK, SnapshotInv, ReturnedInv, Registered
  <2> QED
    BY <2>1, <2>2, <2>3, <2>4
<1>6. ASSUME NEW t \in Callers, ProposalFails(t)
      PROVE  /\ TypeInv' /\ MutexInv' /\ WalkInv' /\ PassedLocked'
             /\ LockedByClose' /\ SnapshotInv' /\ ReturnedInv'
  <2> USE <1>6 DEF ProposalFails, Return, Goto
  <2>1. TypeInv'
    BY DEF TypeInv, TypeOK
  <2>2. MutexInv' /\ WalkInv'
    BY DEF TypeInv, TypeOK, MutexInv, WalkInv, Holds
  <2>3. PassedLocked' /\ LockedByClose'
    BY DEF TypeInv, TypeOK, MutexInv, WalkInv, Holds, PassedLocked,
       LockedByClose, Closing, Registered
  <2>4. SnapshotInv' /\ ReturnedInv'
    BY DEF TypeInv, TypeOK, SnapshotInv, ReturnedInv, Registered
  <2> QED
    BY <2>1, <2>2, <2>3, <2>4
<1>7. ASSUME NEW t \in Callers, NEW c \in Chans, ProposalSucceeds(t, c)
      PROVE  /\ TypeInv' /\ MutexInv' /\ WalkInv' /\ PassedLocked'
             /\ LockedByClose' /\ SnapshotInv' /\ ReturnedInv'
  <2> USE <1>7 DEF ProposalSucceeds, Goto
  <2>1. TypeInv'
    BY DEF TypeInv, TypeOK
  <2>2. MutexInv' /\ WalkInv'
    BY DEF TypeInv, TypeOK, MutexInv, WalkInv, Holds
  <2>3. PassedLocked' /\ LockedByClose'
    BY DEF TypeInv, TypeOK, MutexInv, WalkInv, Holds, PassedLocked,
       LockedByClose, Closing, Registered
  <2>4. SnapshotInv' /\ ReturnedInv'
    BY DEF TypeInv, TypeOK, SnapshotInv, ReturnedInv, Registered
  <2> QED
    BY <2>1, <2>2, <2>3, <2>4
<1>8. ASSUME NEW t \in Callers, GetChsInfoNext(t)
      PROVE  /\ TypeInv' /\ MutexInv' /\ WalkInv' /\ PassedLocked'
             /\ LockedByClose' /\ SnapshotInv' /\ ReturnedInv'
  <2> USE <1>8 DEF GetChsInfoNext
  <2>1. TypeInv'
    BY DEF TypeInv, TypeOK
  <2>2. MutexInv' /\ WalkInv'
    BY DEF TypeInv, TypeOK, MutexInv, WalkInv, Holds
  <2>3. PassedLocked' /\ LockedByClose'
    BY DEF TypeInv, TypeOK, MutexInv, WalkInv, Holds, PassedLocked,
       LockedByClose, Closing, Registered
  <2>4. SnapshotInv' /\ ReturnedInv'
    BY DEF TypeInv, TypeOK, SnapshotInv, ReturnedInv, Registered
  <2> QED
    BY <2>1, <2>2, <2>3, <2>4
<1>9. ASSUME NEW t \in Callers, GetChsInfoReturns(t)
      PROVE  /\ TypeInv' /\ MutexInv' /\ WalkInv' /\ PassedLocked'
             /\ LockedByClose' /\ SnapshotInv' /\ ReturnedInv'
  <2> USE <1>9 DEF GetChsInfoReturns, UnlockSession, Return, Goto
  <2>1. TypeInv'
    BY DEF TypeInv, TypeOK
  <2>2. MutexInv' /\ WalkInv'
    BY DEF TypeInv, TypeOK, MutexInv, WalkInv, Holds
  <2>3. PassedLocked' /\ LockedByClose'
    BY DEF TypeInv, TypeOK, MutexInv, WalkInv, Holds, PassedLocked,
       LockedByClose, Closing, Registered
  <2>4. SnapshotInv' /\ ReturnedInv'
    BY DEF TypeInv, TypeOK, SnapshotInv, ReturnedInv, Registered
  <2> QED
    BY <2>1, <2>2, <2>3, <2>4
<1>10. ASSUME NEW t \in Callers, CloseLocksNext(t)
      PROVE  /\ TypeInv' /\ MutexInv' /\ WalkInv' /\ PassedLocked'
             /\ LockedByClose' /\ SnapshotInv' /\ ReturnedInv'
  <2> USE <1>10 DEF CloseLocksNext
  <2> DEFINE d == reg[walk[t]]
  <2>1. d \in Registered /\ d \in Chans /\ walk[t] \in 1 .. Len(reg)
    BY <1>r DEF TypeInv, TypeOK, Registered
  <2>2. TypeInv'
    <3>1. TypeOK'
      BY <2>1 DEF TypeInv, TypeOK
    <3> QED
      BY <3>1 DEF TypeInv, TypeOK
  <2>3. MutexInv' /\ WalkInv'
    BY DEF TypeInv, TypeOK, MutexInv, WalkInv, Holds
  <2>4. PassedLocked'
    <3> SUFFICES ASSUME NEW u \in Callers, pc[u] = "closing",
                        NEW i \in 1 .. Len(reg), i < walk'[u]
                 PROVE  chlock'[reg[i]] = "session"
      BY DEF PassedLocked
    <3>1. u = t
      BY DEF MutexInv, Holds
    <3>2. i < walk[t] \/ i = walk[t]
      BY <3>1, <1>r DEF TypeInv, TypeOK
    <3>3. reg[i] \in Chans
      BY <1>r DEF Registered
    <3> QED
      BY <2>1, <3>1, <3>2, <3>3 DEF PassedLocked, TypeInv, TypeOK
  <2>5. LockedByClose'
    BY <2>1 DEF LockedByClose, Closing, Registered, TypeInv, TypeOK
  <2>6. SnapshotInv' /\ ReturnedInv'
    BY <2>1 DEF SnapshotInv, ReturnedInv, WalkInv, Registered
  <2> QED
    BY <2>2, <2>3, <2>4, <2>5, <2>6
<1>11. ASSUME NEW t \in Callers, CloseFails(t)
      PROVE  /\ TypeInv' /\ MutexInv' /\ WalkInv' /\ PassedLocked'
             /\ LockedByClose' /\ SnapshotInv' /\ ReturnedInv'
  <2> USE <1>11 DEF CloseFails, UnlockAllChs, UnlockSession, Return, Goto
  <2>1. TypeInv'
    BY <1>r DEF TypeInv, TypeOK
  <2>2. MutexInv' /\ WalkInv'
    BY DEF TypeInv, TypeOK, MutexInv, WalkInv, Holds
  <2>3. PassedLocked'
    BY DEF TypeInv, TypeOK, MutexInv, Holds, PassedLocked
  <2>4. \A c \in Chans : chlock'[c] # "session"
    BY DEF WalkInv, LockedByClose
  <2>5. LockedByClose'
    BY <2>4 DEF LockedByClose
  <2>6. SnapshotInv' /\ ReturnedInv'
    BY DEF SnapshotInv, ReturnedInv, WalkInv, Registered, TypeInv, TypeOK
  <2> QED
    BY <2>1, <2>2, <2>3, <2>5, <2>6
<1>12. ASSUME NEW t \in Callers, CloseSucceeds(t)
      PROVE  /\ TypeInv' /\ MutexInv' /\ WalkInv' /\ PassedLocked'
             /\ LockedByClose' /\ SnapshotInv' /\ ReturnedInv'
  <2> USE <1>12 DEF CloseSucceeds, OpenChs, Goto
  <2>1. TypeInv'
    BY <1>r DEF TypeInv, TypeOK
  <2>2. MutexInv' /\ WalkInv'
    BY DEF TypeInv, TypeOK, MutexInv, WalkInv, Holds
  <2>3. PassedLocked' /\ LockedByClose'
    BY DEF TypeInv, TypeOK, MutexInv, Holds, PassedLocked, LockedByClose
  <2>4. \A c \in Registered : chlock[c] = "session"
    BY <1>r DEF PassedLocked, Registered, TypeInv, TypeOK
  <2>5. SnapshotInv' /\ ReturnedInv'
    BY <2>4 DEF SnapshotInv, ReturnedInv, Registered, TypeInv, TypeOK
  <2> QED
    BY <2>1, <2>2, <2>3, <2>5
<1>13. ASSUME NEW t \in Callers, PClientCloses(t) \/ MsgBusCloses(t)
      PROVE  /\ TypeInv' /\ MutexInv' /\ WalkInv' /\ PassedLocked'
             /\ LockedByClose' /\ SnapshotInv' /\ ReturnedInv'
  <2> USE <1>13 DEF PClientCloses, MsgBusCloses, ClosePart, CloseReturns,
                  UnlockSession, Return, Goto
  <2>1. slock = t /\ ~isOpen /\ isOpen' = isOpen /\ reg' = reg
    BY DEF MutexInv, WalkInv, Holds
  <2>2. CASE UNCHANGED <<slock, chanVars, callVars>>
    <3>1. TypeInv'
      BY <2>2 DEF TypeInv, TypeOK
    <3>2. MutexInv' /\ WalkInv'
      BY <2>2, <2>1 DEF MutexInv, WalkInv, Holds
    <3>3. PassedLocked' /\ LockedByClose' /\ SnapshotInv' /\ ReturnedInv'
      BY <2>2, <2>1 DEF PassedLocked, LockedByClose, SnapshotInv, ReturnedInv, Registered
    <3> QED
      BY <3>1, <3>2, <3>3
  <2>3. CASE CloseReturns(t) /\ UNCHANGED client
    <3>1. TypeInv'
      <4>1. TypeOK'
        BY <2>3 DEF TypeInv, TypeOK
      <4> QED
        BY <2>3, <4>1 DEF TypeInv, TypeOK
    <3>2. MutexInv' /\ WalkInv'
      BY <2>3, <2>1 DEF TypeInv, TypeOK, MutexInv, WalkInv, Holds
    <3>3. PassedLocked' /\ LockedByClose' /\ SnapshotInv' /\ ReturnedInv'
      BY <2>3, <2>1 DEF TypeInv, TypeOK, MutexInv, Holds, PassedLocked,
         LockedByClose, SnapshotInv, ReturnedInv, Registered
    <3> QED
      BY <3>1, <3>2, <3>3
  <2> QED
    BY <2>2, <2>3
<1>14. ASSUME NEW t \in Callers, DatabaseCloses(t)
      PROVE  /\ TypeInv' /\ MutexInv' /\ WalkInv' /\ PassedLocked'
             /\ LockedByClose' /\ SnapshotInv' /\ ReturnedInv'
  <2> USE <1>14 DEF DatabaseCloses, CloseReturns, UnlockSession, Return, Goto
  <2>1. TypeInv'
    BY DEF TypeInv, TypeOK
  <2>2. MutexInv' /\ WalkInv'
    BY DEF TypeInv, TypeOK, MutexInv, WalkInv, Holds
  <2>3. PassedLocked' /\ LockedByClose'
    BY DEF TypeInv, TypeOK, MutexInv, WalkInv, Holds, PassedLocked,
       LockedByClose, Closing, Registered
  <2>4. SnapshotInv' /\ ReturnedInv'
    BY DEF TypeInv, TypeOK, SnapshotInv, ReturnedInv, Registered
  <2> QED
    BY <2>1, <2>2, <2>3, <2>4
<1>15. ASSUME NEW c \in Chans, PhaseMoves(c)
      PROVE  /\ TypeInv' /\ MutexInv' /\ WalkInv' /\ PassedLocked'
             /\ LockedByClose' /\ SnapshotInv' /\ ReturnedInv'
  <2> USE <1>15 DEF PhaseMoves
  <2>1. TypeInv'
    BY DEF TypeInv, TypeOK
  <2>2. MutexInv' /\ WalkInv'
    BY DEF TypeInv, TypeOK, MutexInv, WalkInv, Holds
  <2>3. PassedLocked' /\ LockedByClose'
    BY DEF TypeInv, TypeOK, MutexInv, WalkInv, Holds, PassedLocked,
       LockedByClose, Closing, Registered
  <2>4. SnapshotInv' /\ ReturnedInv'
    BY DEF TypeInv, TypeOK, SnapshotInv, ReturnedInv, Registered
  <2> QED
    BY <2>1, <2>2, <2>3, <2>4
<1>16. ASSUME NEW c \in Chans, ChannelOpBegins(c)
      PROVE  /\ TypeInv' /\ MutexInv' /\ WalkInv' /\ PassedLocked'
             /\ LockedByClose' /\ SnapshotInv' /\ ReturnedInv'
  <2> USE <1>16 DEF ChannelOpBegins
  <2>1. TypeInv'
    BY DEF TypeInv, TypeOK
  <2>2. MutexInv' /\ WalkInv'
    BY DEF TypeInv, TypeOK, MutexInv, WalkInv, Holds
  <2>3. PassedLocked' /\ LockedByClose'
    BY DEF TypeInv, TypeOK, MutexInv, WalkInv, Holds, PassedLocked,
       LockedByClose, Closing, Registered
  <2>4. SnapshotInv' /\ ReturnedInv'
    BY DEF TypeInv, TypeOK, SnapshotInv, ReturnedInv, Registered
  <2> QED
    BY <2>1, <2>2, <2>3, <2>4
<1>17. ASSUME NEW c \in Chans, ChannelOpEnds(c)
      PROVE  /\ TypeInv' /\ MutexInv' /\ WalkInv' /\ PassedLocked'
             /\ LockedByClose' /\ SnapshotInv' /\ ReturnedInv'
  <2> USE <1>17 DEF ChannelOpEnds
  <2>1. TypeInv'
    BY DEF TypeInv, TypeOK
  <2>2. MutexInv' /\ WalkInv'
    BY DEF TypeInv, TypeOK, MutexInv, WalkInv, Holds
  <2>3. PassedLocked' /\ LockedByClose'
    BY DEF TypeInv, TypeOK, MutexInv, WalkInv, Holds, PassedLocked,
       LockedByClose, Closing, Registered
  <2>4. SnapshotInv' /\ ReturnedInv'
    BY DEF TypeInv, TypeOK, SnapshotInv, ReturnedInv, Registered
  <2> QED
    BY <2>1, <2>2, <2>3, <2>4
<1>18. ASSUME NEW c \in Chans, HandleUpdate(c)
      PROVE  /\ TypeInv' /\ MutexInv' /\ WalkInv' /\ PassedLocked'
             /\ LockedByClose' /\ SnapshotInv' /\ ReturnedInv'
  <2> USE <1>18 DEF HandleUpdate
  <2>1. TypeInv'
    BY DEF TypeInv, TypeOK
  <2>2. MutexInv' /\ WalkInv'
    BY DEF TypeInv, TypeOK, MutexInv, WalkInv, Holds
  <2>3. PassedLocked' /\ LockedByClose'
    BY DEF TypeInv, TypeOK, MutexInv, WalkInv, Holds, PassedLocked,
       LockedByClose, Closing, Registered
  <2>4. SnapshotInv' /\ ReturnedInv'
    BY DEF TypeInv, TypeOK, SnapshotInv, ReturnedInv, Registered
  <2> QED
    BY <2>1, <2>2, <2>3, <2>4
<1>19. ASSUME NEW g \in goros, GoroutineEnds(g)
      PROVE  /\ TypeInv' /\ MutexInv' /\ WalkInv' /\ PassedLocked'
             /\ LockedByClose' /\ SnapshotInv' /\ ReturnedInv'
  <2> USE <1>19 DEF GoroutineEnds
  <2>1. TypeInv'
    BY DEF TypeInv, TypeOK
  <2>2. MutexInv' /\ WalkInv'
    BY DEF TypeInv, TypeOK, MutexInv, WalkInv, Holds
  <2>3. PassedLocked' /\ LockedByClose'
    BY DEF TypeInv, TypeOK, MutexInv, WalkInv, Holds, PassedLocked,
       LockedByClose, Closing, Registered
  <2>4. SnapshotInv' /\ ReturnedInv'
    BY DEF TypeInv, TypeOK, SnapshotInv, ReturnedInv, Registered
  <2> QED
    BY <2>1, <2>2, <2>3, <2>4
<1>20. ASSUME NEW t \in Callers, ChInfoRead(t)
      PROVE  /\ TypeInv' /\ MutexInv' /\ WalkInv' /\ PassedLocked'
             /\ LockedByClose' /\ SnapshotInv' /\ ReturnedInv'
  <2> USE <1>20 DEF ChInfoRead, Return, Goto
  <2>1. TypeInv'
    BY DEF TypeInv, TypeOK
  <2>2. MutexInv' /\ WalkInv'
    BY DEF TypeInv, TypeOK, MutexInv, WalkInv, Holds
  <2>3. PassedLocked' /\ LockedByClose'
    BY DEF TypeInv, TypeOK, MutexInv, WalkInv, Holds, PassedLocked,
       LockedByClose, Closing, Registered
  <2>4. SnapshotInv' /\ ReturnedInv'
    BY DEF TypeInv, TypeOK, SnapshotInv, ReturnedInv, Registered
  <2> QED
    BY <2>1, <2>2, <2>3, <2>4
<1>21. ASSUME RejectReturns
      PROVE  /\ TypeInv' /\ MutexInv' /\ WalkInv' /\ PassedLocked'
             /\ LockedByClose' /\ SnapshotInv' /\ ReturnedInv'
  <2> USE <1>21 DEF RejectReturns, UnlockSession
  <2>1. TypeInv'
    BY DEF TypeInv, TypeOK
  <2>2. MutexInv' /\ WalkInv'
    BY DEF TypeInv, TypeOK, MutexInv, WalkInv, Holds
  <2>3. PassedLocked' /\ LockedByClose'
    BY DEF TypeInv, TypeOK, MutexInv, WalkInv, Holds, PassedLocked,
       LockedByClose, Closing, Registered
  <2>4. SnapshotInv' /\ ReturnedInv'
    BY DEF TypeInv, TypeOK, SnapshotInv, ReturnedInv, Registered
  <2> QED
    BY <2>1, <2>2, <2>3, <2>4
<1>22. ASSUME NEW t \in Callers, DeployAssetERC20(t)
      PROVE  /\ TypeInv' /\ MutexInv' /\ WalkInv' /\ PassedLocked'
             /\ LockedByClose' /\ SnapshotInv' /\ ReturnedInv'
  <2> USE <1>22 DEF DeployAssetERC20, LockSession, Goto
  <2>1. TypeInv'
    BY DEF TypeInv, TypeOK
  <2>2. MutexInv' /\ WalkInv'
    BY DEF TypeInv, TypeOK, MutexInv, WalkInv, Holds
  <2>3. PassedLocked' /\ LockedByClose'
    BY DEF TypeInv, TypeOK, MutexInv, WalkInv, Holds, PassedLocked,
       LockedByClose, Closing, Registered
  <2>4. SnapshotInv' /\ ReturnedInv'
    BY DEF TypeInv, TypeOK, SnapshotInv, ReturnedInv, Registered
  <2> QED
    BY <2>1, <2>2, <2>3, <2>4
<1>23. ASSUME NEW t \in Callers, DeployReturns(t)
      PROVE  /\ TypeInv' /\ MutexInv' /\ WalkInv' /\ PassedLocked'
             /\ LockedByClose' /\ SnapshotInv' /\ ReturnedInv'
  <2> USE <1>23 DEF DeployReturns, UnlockSession, Return, Goto
  <2>1. TypeInv'
    BY DEF TypeInv, TypeOK
  <2>2. MutexInv' /\ WalkInv'
    BY DEF TypeInv, TypeOK, MutexInv, WalkInv, Holds
  <2>3. PassedLocked' /\ LockedByClose'
    BY DEF TypeInv, TypeOK, MutexInv, WalkInv, Holds, PassedLocked,
       LockedByClose, Closing, Registered
  <2>4. SnapshotInv' /\ ReturnedInv'
    BY DEF TypeInv, TypeOK, SnapshotInv, ReturnedInv, Registered
  <2> QED
    BY <2>1, <2>2, <2>3, <2>4
<1> QED
  BY <1>1, <1>2, <1>3, <1>4, <1>5, <1>6, <1>7, <1>8, <1>9, <1>10, <1>11, <1>12,
     <1>13, <1>14, <1>15, <1>16, <1>17, <1>18, <1>19, <1>20, <1>21, <1>22, <1>23
     DEF Next, Proceeds

\* The discipline of the mutexes holds in every state of the session.
LEMMA SessionInvariant == Spec => []SessionInv
  BY SessionInit, SessionStep, PTL DEF Spec

\* Type correctness, for any number of callers and channels.
THEOREM SessionTypeCorrect == Spec => []TypeOK
<1>1. SessionInv => TypeOK
  BY DEF SessionInv, TypeInv
<1> QED
  BY <1>1, SessionInvariant, PTL

\* Close releases the mutex of every channel it has locked when it returns one
\* of its two errors (session.go:1050 and 1056), whatever runs meanwhile.
THEOREM CloseReleases == Spec => []FailedCloseReleases
<1>1. SessionInv => FailedCloseReleases
  BY DEF SessionInv, LockedByClose, FailedCloseReleases
<1> QED
  BY <1>1, SessionInvariant, PTL

\* The list of open channels that a forced Close returns (session.go:1064)
\* stays true for as long as the process runs.
THEOREM SnapshotIsFinal == Spec => []SnapshotStaysOpen
<1>1. SessionInv => SnapshotStaysOpen
  BY DEF SessionInv, SnapshotInv, SnapshotStaysOpen
<1> QED
  BY <1>1, SessionInvariant, PTL

\* No channel is registered while GetChsInfo or Close walks over the registry:
\* GetChsInfo writes within the slice it sized before (session.go:918-921), and
\* Close unlocks exactly the channels that it has locked.
THEOREM RegistryFixed == Spec => RegistryFixedDuringWalk
<1>1. SessionInv /\ [Next]_vars =>
        [(\E t \in Callers : pc[t] \in {"info", "closing", "shutdown"})
            => reg' = reg]_vars
  <2> SUFFICES ASSUME SessionInv, Next,
                      NEW t \in Callers, pc[t] \in {"info", "closing", "shutdown"}
               PROVE  reg' = reg
    OBVIOUS
  <2>1. slock = t /\ slock # Nobody
    BY DEF SessionInv, MutexInv, Holds
  <2>2. \A u \in Callers : ~AddCh(u)
    BY <2>1 DEF AddCh
  <2> QED
    BY <2>2 DEF Next, Proceeds, OpenCh, GetChsInfo, Close, ProposalFails,
       ProposalSucceeds, GetChsInfoNext, GetChsInfoReturns, CloseLocksNext,
       CloseFails, CloseSucceeds, PClientCloses, MsgBusCloses, DatabaseCloses,
       PhaseMoves, ChannelOpBegins, ChannelOpEnds, HandleUpdate, RejectReturns,
       ChInfoRead, DeployAssetERC20, DeployReturns, GoroutineEnds
<1> QED
  BY <1>1, SessionInvariant, PTL DEF Spec, RegistryFixedDuringWalk

\* HandleUpdateWInterface answers that it does not know a channel
\* (session.go:977-982) only before the user was told of that channel: every
\* channel the user knows stays in the registry.
THEOREM RefusedBeforeReturned == Spec => RefusedOnlyUnreturned
<1>1. SessionInv /\ [Next]_vars => [\A c \in refused' \ refused : c \notin returned]_vars
  <2> SUFFICES ASSUME SessionInv, Next, NEW c \in refused', c \notin refused
               PROVE  c \notin returned
    OBVIOUS
  <2>1. CASE HandleUpdate(c)
    BY <2>1 DEF HandleUpdate, SessionInv, ReturnedInv
  <2>2. CASE ~HandleUpdate(c)
    <3>1. \A d \in Chans : ~HandleUpdate(d)
      BY <2>2 DEF HandleUpdate
    <3>2. refused' = refused
      BY <3>1 DEF Next, Proceeds, OpenCh, GetChsInfo, Close, ProposalFails,
         ProposalSucceeds, GetChsInfoNext, GetChsInfoReturns, CloseLocksNext,
         CloseFails, CloseSucceeds, PClientCloses, MsgBusCloses, DatabaseCloses,
         PhaseMoves, ChannelOpBegins, ChannelOpEnds, AddCh, RejectReturns,
         ChInfoRead, DeployAssetERC20, DeployReturns, GoroutineEnds, resultVars
    <3> QED
      BY <3>2
  <2> QED
    BY <2>1, <2>2
<1> QED
  BY <1>1, SessionInvariant, PTL DEF Spec, RefusedOnlyUnreturned
=============================================================================
