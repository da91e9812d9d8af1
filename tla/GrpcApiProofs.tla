---------------------------- MODULE GrpcApiProofs ----------------------------
(***************************************************************************)
(* Proofs about GrpcApi: what a reply of the API says is so, and stays so, *)
(* for any sessions, channels, peers and clients.                          *)
(***************************************************************************)
EXTENDS GrpcApi, FiniteSetTheorems, FunctionTheorems, SequenceTheorems, TLAPS

USE GrpcApiAssumption DEF GrpcApiAssumption

\* A session that is open has the database, which no two share.
OpenInv ==
    \A s \in SessionIDs : sess[s] = "open" =>
        dbOpen /\ \A q \in SessionIDs : sess[q] = "open" => q = s

\* What a reply named is there.
ToldInv ==
    \A t \in told :
        \/ \E s \in SessionIDs : t = <<s>> /\ HasSession(s)
        \/ \E s \in SessionIDs : \E c \in ChIDs :
              t = <<s, c>> /\ HasSession(s) /\ st[s][c] # "none"

\* A call that opens a channel has its session, has persisted the channel before it
\* adds it, and has added it before it reads it for the reply.
StageInv ==
    \A k \in Clients : call[k] # Idle =>
        LET s == call[k].req.SessionID
            c == call[k].ch IN
        /\ HasSession(s)
        /\ call[k].stage \in {"add", "info"} => c \in ChIDs /\ phase[c] # "none"
        /\ call[k].stage = "info" => st[s][c] # "none"

\* While the session of a call that has still to add its channel is open, nobody else
\* knows that channel: nobody can register a state of it.
AddInv ==
    \A k \in Clients : call[k] # Idle /\ call[k].stage = "add" =>
        LET s == call[k].req.SessionID
            c == call[k].ch IN
        /\ sess[s] = "open" => phase[c] = "Acting" /\ st[s][c] = "none"
        /\ \A l \in Clients \ {k} : call[l] # Idle /\ call[l].stage = "add" => call[l].ch # c

\* A session knows only channels that were persisted, and what an open session has
\* open is not settled.
PhaseInv ==
    \A s \in SessionIDs, c \in ChIDs :
        /\ st[s][c] # "none" => phase[c] # "none"
        /\ sess[s] = "open" /\ st[s][c] = "open" => phase[c] # "Withdrawn"

\* What clients may expect to be restored can be.
OwedInv == \A c \in owed : phase[c] = "Acting"

CoreInv == OpenInv /\ ToldInv /\ StageInv /\ AddInv /\ PhaseInv /\ OwedInv

StateInv == TypeOK /\ CoreInv

----------------------------------------------------------------------------
(* Lists of channels. *)

\* SetToSeq lists the elements of a finite set, all of them.
LEMMA ListOfSet ==
    ASSUME NEW S, IsFiniteSet(S)
    PROVE  /\ SetToSeq(S) \in Seq(S)
           /\ \A i \in DOMAIN SetToSeq(S) : SetToSeq(S)[i] \in S
           /\ \A x \in S : \E i \in DOMAIN SetToSeq(S) : SetToSeq(S)[i] = x
           /\ SetToSeq(S) = <<>> <=> S = {}
<1> DEFINE n == Cardinality(S)
           f == SetToSeq(S)
<1>1. n \in Nat /\ ExistsBijection(1 .. n, S)
  BY FS_CardinalityType
<1>2. \E g \in [1 .. n -> S] : IsInjective(g)
  BY <1>1 DEF ExistsBijection, Bijection, Injection, IsInjective
<1>3. f \in [1 .. n -> S] /\ IsInjective(f)
  BY <1>2 DEF SetToSeq
<1>4. IsFiniteSet(1 .. n) /\ Cardinality(1 .. n) = n
  <2>1. 1 \in Int /\ n \in Int /\ (1 > n => n = 0) /\ n - 1 + 1 = n
    BY <1>1
  <2> HIDE DEF n
  <2> QED
    BY <2>1, FS_Interval
<1> HIDE DEF n, f
<1>5. f \in Surjection(1 .. n, S)
  BY <1>3, <1>4, FS_Injection DEF Injection, n
<1>6. f \in Seq(S) /\ DOMAIN f = 1 .. n /\ \A x \in S : \E i \in 1 .. n : f[i] = x
  BY <1>1, <1>3, <1>5 DEF Surjection
<1>7. f = <<>> => S = {}
  <2>1. f = <<>> => DOMAIN f = {}
    OBVIOUS
  <2> QED
    BY <1>6, <2>1
<1>8. S = {} => f = <<>>
  <2>1. S = {} => n = 0
    BY <1>1, <1>3
  <2>2. Len(f) = n
    BY <1>1, <1>6, LenProperties
  <2> QED
    BY <1>6, <2>1, <2>2, EmptySeq
<1> QED
  BY <1>3, <1>6, <1>7, <1>8 DEF f

LEMMA ShortLists ==
    ASSUME NEW S, NEW x \in S, NEW y \in S
    PROVE  <<x>> \in Seq(S) /\ <<x, y>> \in Seq(S)
  OBVIOUS

LEMMA AnyBalInfoTyped ==
    ASSUME NEW a \in STRING, NEW y \in STRING
    PROVE  AnyBalInfo(a, y) \in BalInfo
<1>1. "self" \in STRING /\ "1" \in STRING /\ "2" \in STRING
  BY TextsAssumption DEF Texts
<1>2. <<y>> \in Seq(STRING) /\ <<"self", a>> \in Seq(STRING) /\ <<"1", "2">> \in Seq(STRING)
  BY <1>1, ShortLists
<1>3. [Bal |-> <<"1", "2">>] \in BalInfoBal
  BY <1>2 DEF BalInfoBal
<1>4. <<[Bal |-> <<"1", "2">>]>> \in Seq(BalInfoBal)
  BY <1>3, ShortLists
<1> QED
  BY <1>2, <1>4 DEF AnyBalInfo, BalInfo

\* The message for a channel.
LEMMA InfoOfCh ==
    ASSUME TypeOK, NEW c \in ChIDs
    PROVE  toGrpcPayChInfo(c) \in PayChInfo /\ toGrpcPayChInfo(c).ChID = c
<1>1. "" \in STRING /\ "ETH" \in STRING /\ "PRN" \in STRING /\ "0" \in STRING
  BY TextsAssumption DEF Texts
<1>2. c \in STRING /\ parts[c] \in STRING /\ cur[c] \in STRING
  BY <1>1 DEF TypeOK, Aliases
<1>3. AnyBalInfo(parts[c], cur[c]) \in BalInfo
  BY <1>2, AnyBalInfoTyped
<1> QED
  BY <1>1, <1>2, <1>3 DEF toGrpcPayChInfo, PayChInfo

\* The list that a reply has of some channels names them, all of them and no other.
LEMMA ListedChs ==
    ASSUME TypeOK, NEW C \in SUBSET ChIDs
    PROVE  /\ toGrpcPayChsInfo(C) \in Seq(PayChInfo)
           /\ ChIDsIn(toGrpcPayChsInfo(C)) = C
           /\ toGrpcPayChsInfo(C) = <<>> <=> C = {}
<1> DEFINE S == {toGrpcPayChInfo(c) : c \in C}
           f == [c \in C |-> toGrpcPayChInfo(c)]
<1>1. IsFiniteSet(C)
  BY FS_Subset
<1>2. f \in Surjection(C, S)
  BY DEF Surjection
<1>3. IsFiniteSet(S)
  BY <1>1, <1>2, FS_Surjection
<1>4. \A c \in C : toGrpcPayChInfo(c) \in PayChInfo /\ toGrpcPayChInfo(c).ChID = c
  BY InfoOfCh
<1>5. S \subseteq PayChInfo /\ (S = {} <=> C = {})
  BY <1>4
<1>6. /\ \A x \in S : x.ChID \in C
      /\ \A c \in C : \E x \in S : x.ChID = c
  BY <1>4
<1>7. toGrpcPayChsInfo(C) = SetToSeq(S)
  BY DEF toGrpcPayChsInfo
<1> HIDE DEF S, f
<1>8. /\ SetToSeq(S) \in Seq(S)
      /\ \A i \in DOMAIN SetToSeq(S) : SetToSeq(S)[i] \in S
      /\ \A x \in S : \E i \in DOMAIN SetToSeq(S) : SetToSeq(S)[i] = x
      /\ SetToSeq(S) = <<>> <=> S = {}
  BY <1>3, ListOfSet
<1>9. SetToSeq(S) \in Seq(PayChInfo)
  BY <1>5, <1>8, SeqMonotonic
<1>10. ChIDsIn(SetToSeq(S)) = C
  BY <1>6, <1>8 DEF ChIDsIn
<1> QED
  BY <1>5, <1>7, <1>8, <1>9, <1>10

----------------------------------------------------------------------------
(* Requests. *)

LEMMA RequestSessions ==
    /\ \A r \in Requests.AddPeerID : r.SessionID \in SessionIDs /\ r.PeerID.Alias \in Aliases
    /\ \A r \in Requests.GetPeerID : r.SessionID \in SessionIDs /\ r.Alias \in Aliases
    /\ \A r \in Requests.OpenPayCh : r.SessionID \in SessionIDs
    /\ \A r \in Requests.RespondPayChProposal : r.SessionID \in SessionIDs
    /\ \A r \in Requests.GetPayChsInfo : r.SessionID \in SessionIDs
    /\ \A r \in Requests.CloseSession : r.SessionID \in SessionIDs
    /\ \A r \in Requests.SubPayChProposals : r.SessionID \in SessionIDs
    /\ \A r \in Requests.UnsubPayChProposals : r.SessionID \in SessionIDs
  BY DEF Requests, SessionReq, AnyPeerID

LEMMA RequestChs ==
    /\ \A r \in Requests.SendPayChUpdate : r.SessionID \in SessionIDs /\ r.ChID \in ChIDs
    /\ \A r \in Requests.SubPayChUpdates : r.SessionID \in SessionIDs /\ r.ChID \in ChIDs
    /\ \A r \in Requests.UnsubPayChUpdates : r.SessionID \in SessionIDs /\ r.ChID \in ChIDs
    /\ \A r \in Requests.RespondPayChUpdate : r.SessionID \in SessionIDs /\ r.ChID \in ChIDs
    /\ \A r \in Requests.GetPayChInfo : r.SessionID \in SessionIDs /\ r.ChID \in ChIDs
    /\ \A r \in Requests.ClosePayCh : r.SessionID \in SessionIDs /\ r.ChID \in ChIDs
  BY DEF Requests, ChReq

----------------------------------------------------------------------------
(* The state. *)

coreVars == <<sess, dbOpen, st, phase, call, told, owed>>

LEMMA CoreKept == CoreInv /\ UNCHANGED coreVars => CoreInv'
  BY DEF CoreInv, coreVars, OpenInv, ToldInv, StageInv, AddInv, PhaseInv, OwedInv, HasSession

LEMMA StateKept ==
    StateInv /\ UNCHANGED <<nodeVars, chVars, call, runVars, histVars>> => StateInv'
<1> SUFFICES ASSUME StateInv, UNCHANGED <<nodeVars, chVars, call, runVars, histVars>>
             PROVE  StateInv'
  OBVIOUS
<1> USE DEF nodeVars, chVars, runVars, histVars
<1>1. TypeOK'
  BY DEF StateInv, TypeOK
<1>2. CoreInv'
  BY CoreKept DEF StateInv, coreVars
<1> QED
  BY <1>1, <1>2 DEF StateInv

\* A refusal changes nothing.
LEMMA RefusedState ==
    ASSUME StateInv, NEW m, NEW r, NEW E, Refuse(m, r, E)
    PROVE  StateInv'
  BY StateKept DEF Refuse

LEMMA InitialState == Init => StateInv
<1> SUFFICES ASSUME Init PROVE StateInv
  OBVIOUS
<1>1. TypeOK
  <2>1. /\ sess \in [SessionIDs -> {"unused", "open", "closed", "gone"}]
        /\ peers \in [SessionIDs -> SUBSET Aliases]
        /\ registered \in BOOLEAN /\ listening \in BOOLEAN /\ dbOpen \in BOOLEAN
    BY DEF Init
  <2>2. st \in [SessionIDs -> [ChIDs -> {"none", "open", "closed"}]]
    BY DEF Init
  <2>3. /\ locked \in [SessionIDs -> SUBSET ChIDs] /\ stuck \in [SessionIDs -> BOOLEAN]
        /\ phase \in [ChIDs -> {"none", "Acting", "Withdrawn", "other"}]
        /\ parts \in [ChIDs -> Aliases \cup {""}] /\ cur \in [ChIDs -> {"", "ETH", "PRN"}]
    BY DEF Init
  <2>4. /\ call \in [Clients -> {Idle} \cup Calls]
        /\ down \in BOOLEAN
        /\ stops \in 0 .. MaxStops
    <3>1. call \in [Clients -> {Idle} \cup Calls]
      BY DEF Init
    <3>2. down \in BOOLEAN
      BY DEF Init
    <3>3. stops \in 0 .. MaxStops
      <4>1. stops = 0 /\ MaxStops \in Nat
        BY DEF Init
      <4> QED
        BY ONLY <4>1
    <3> QED
      BY <3>1, <3>2, <3>3
  <2>5. subs \subseteq Named /\ told \subseteq Named /\ owed \subseteq ChIDs
    BY DEF Init
  <2> QED
    BY <2>1, <2>2, <2>3, <2>4, <2>5 DEF TypeOK
<1>2. CoreInv
  BY DEF Init, CoreInv, OpenInv, ToldInv, StageInv, AddInv, PhaseInv, OwedInv
<1> QED
  BY <1>1, <1>2 DEF StateInv

LEMMA RegisterCurrencyState ==
    ASSUME StateInv, NEW r, RegisterCurrency(r) PROVE StateInv'
<1> USE DEF nodeVars, chVars, runVars, histVars
<1>1. CASE down' = TRUE /\ UNCHANGED <<nodeVars, chVars, call, last, stops, histVars>>
  BY <1>1, CoreKept DEF StateInv, TypeOK, coreVars
<1>2. CASE registered' = TRUE
           /\ UNCHANGED <<sess, peers, listening, dbOpen, chVars, call, runVars, histVars>>
  BY <1>2, CoreKept DEF StateInv, TypeOK, coreVars
<1>3. CASE \E E : Refuse("RegisterCurrency", r, E)
  BY <1>3, RefusedState
<1> QED
  BY <1>1, <1>2, <1>3 DEF RegisterCurrency

LEMMA FailsLateState ==
    ASSUME StateInv, NEW r, OpenSessionFailsLate(r) PROVE StateInv'
<1> USE DEF nodeVars, chVars, runVars, histVars, OpenSessionFailsLate
<1>1. TypeOK'
  BY DEF StateInv, TypeOK
<1>2. CoreInv'
  <2>1. OpenInv'
    <3>a. sess' = sess /\ (dbOpen' = dbOpen \/ dbOpen' = TRUE)
      OBVIOUS
    <3>b. dbOpen \in BOOLEAN /\ dbOpen' \in BOOLEAN
      BY <1>1 DEF StateInv, TypeOK
    <3>1. sess' = sess /\ (dbOpen => dbOpen')
      BY ONLY <3>a, <3>b
    <3>2. OpenInv
      BY DEF StateInv, CoreInv
    <3> QED
      BY ONLY <3>1, <3>2 DEF OpenInv
  <2>u. UNCHANGED <<sess, st, phase, call, told, owed>>
    OBVIOUS
  <2>i. ToldInv /\ StageInv /\ AddInv /\ PhaseInv /\ OwedInv
    BY DEF StateInv, CoreInv
  <2>2. ToldInv' /\ StageInv' /\ AddInv' /\ PhaseInv' /\ OwedInv'
    <3>1. ToldInv'
      BY ONLY <2>u, <2>i DEF ToldInv, HasSession
    <3>2. StageInv'
      BY ONLY <2>u, <2>i DEF StageInv, HasSession
    <3>3. AddInv'
      BY ONLY <2>u, <2>i DEF AddInv
    <3>4. PhaseInv' /\ OwedInv'
      BY ONLY <2>u, <2>i DEF PhaseInv, OwedInv
    <3> QED
      BY <3>1, <3>2, <3>3, <3>4
  <2> QED
    BY <2>1, <2>2 DEF CoreInv
<1> QED
  BY <1>1, <1>2 DEF StateInv

\* The channels that a new session has are those that could be restored; no call and
\* no reply of before is about a session that did not exist.
LEMMA OpenSessionState ==
    ASSUME StateInv, NEW r, OpenSession(r) PROVE StateInv'
<1> DEFINE s == CHOOSE q \in SessionIDs : sess[q] = "unused"
           restored == {c \in ChIDs : handleRestoredCh(c)}
           row == [c \in ChIDs |-> IF c \in restored THEN "open" ELSE "none"]
<1>1. s \in SessionIDs /\ sess[s] = "unused"
  BY DEF OpenSession
<1>2. /\ ~dbOpen /\ dbOpen' = TRUE /\ listening' = TRUE
      /\ sess' = [sess EXCEPT ![s] = "open"]
      /\ peers' = [peers EXCEPT ![s] = StoredPeers]
      /\ st' = [st EXCEPT ![s] = row]
      /\ told' = told \cup {<<s>>} \cup {<<s, c>> : c \in restored}
      /\ owed' = owed \cup restored
      /\ UNCHANGED <<registered, locked, stuck, subs, phase, parts, cur, call, down, stops>>
  BY DEF OpenSession, runVars
<1> HIDE DEF s
<1>3. \A c \in restored : c \in ChIDs /\ phase[c] = "Acting"
  BY DEF handleRestoredCh
<1>4. row \in [ChIDs -> {"none", "open", "closed"}]
      /\ \A c \in ChIDs : (row[c] # "none" <=> c \in restored)
  OBVIOUS
<1> HIDE DEF restored, row
<1> USE DEF StateInv, CoreInv
<1>5. TypeOK'
  <2>1. told' \subseteq Named
    <3>1. told \subseteq Named /\ <<s>> \in Named
      BY <1>1 DEF TypeOK, Named
    <3>2. \A c \in restored : <<s, c>> \in Named
      BY <1>1, <1>3 DEF Named
    <3> QED
      BY <1>2, <3>1, <3>2
  <2>2. owed' \subseteq ChIDs /\ st' \in [SessionIDs -> [ChIDs -> {"none", "open", "closed"}]]
    BY <1>2, <1>3, <1>4 DEF TypeOK
  <2>3. peers' \in [SessionIDs -> SUBSET Aliases]
    BY <1>2 DEF TypeOK, Aliases
  <2>4. sess' \in [SessionIDs -> {"unused", "open", "closed", "gone"}]
    BY <1>2 DEF TypeOK
  <2> QED
    BY <1>2, <2>1, <2>2, <2>3, <2>4 DEF TypeOK
<1>6. \A q \in SessionIDs : q # s => sess'[q] = sess[q] /\ st'[q] = st[q]
  BY <1>2 DEF TypeOK
<1>7. sess'[s] = "open" /\ st'[s] = row
  BY <1>1, <1>2 DEF TypeOK
<1>8. \A q \in SessionIDs : HasSession(q) => q # s /\ HasSession(q)'
  BY <1>1, <1>6 DEF HasSession
<1>9. OpenInv'
  BY <1>2, <1>6, <1>7 DEF OpenInv
<1>10. ToldInv'
  <2> SUFFICES ASSUME NEW t \in told'
               PROVE  \/ \E q \in SessionIDs : t = <<q>> /\ HasSession(q)'
                      \/ \E q \in SessionIDs : \E c \in ChIDs :
                            t = <<q, c>> /\ HasSession(q)' /\ st'[q][c] # "none"
    BY DEF ToldInv
  <2>1. CASE t \in told
    BY <1>6, <1>8, <2>1 DEF ToldInv
  <2>2. CASE t = <<s>>
    BY <1>1, <1>7, <2>2 DEF HasSession
  <2>3. CASE \E c \in restored : t = <<s, c>>
    BY <1>1, <1>3, <1>4, <1>7, <2>3 DEF HasSession
  <2> QED
    BY <1>2, <2>1, <2>2, <2>3
<1>11. ASSUME NEW k \in Clients, call[k] # Idle
       PROVE  call[k].req.SessionID \in SessionIDs
  BY <1>11, RequestSessions DEF TypeOK, Calls
<1>u. phase' = phase /\ call' = call
  BY <1>2
<1>12. StageInv'
  BY <1>u, <1>6, <1>8, <1>11 DEF StageInv
<1>13. AddInv'
  <2>1. ASSUME NEW k \in Clients, call[k] # Idle
        PROVE  LET q == call[k].req.SessionID IN
               q \in SessionIDs /\ sess'[q] = sess[q] /\ st'[q] = st[q]
    BY <1>6, <1>8, <1>11, <2>1 DEF StageInv
  <2> QED
    BY <1>u, <2>1 DEF AddInv
<1>14. PhaseInv'
  <2> SUFFICES ASSUME NEW q \in SessionIDs, NEW c \in ChIDs
               PROVE  /\ st'[q][c] # "none" => phase[c] # "none"
                      /\ sess'[q] = "open" /\ st'[q][c] = "open" => phase[c] # "Withdrawn"
    BY <1>u DEF PhaseInv
  <2>1. CASE q = s
    BY <1>3, <1>4, <1>7, <2>1
  <2>2. CASE q # s
    BY <1>6, <2>2 DEF PhaseInv
  <2> QED
    BY <2>1, <2>2
<1>15. OwedInv'
  BY <1>2, <1>3 DEF OwedInv
<1> QED
  BY <1>5, <1>9, <1>10, <1>12, <1>13, <1>14, <1>15

LEMMA AddPeerIDState ==
    ASSUME StateInv, NEW r \in Requests.AddPeerID, AddPeerID(r) PROVE StateInv'
<1>1. CASE \E E : Refuse("AddPeerID", r, E)
  BY <1>1, RefusedState
<1>2. CASE /\ peers' = [peers EXCEPT ![r.SessionID] = @ \cup {r.PeerID.Alias}]
           /\ UNCHANGED <<sess, registered, listening, dbOpen, chVars, call, runVars, histVars>>
  <2> USE <1>2 DEF chVars, runVars, histVars
  <2>1. r.SessionID \in SessionIDs /\ r.PeerID.Alias \in Aliases
    BY RequestSessions
  <2>2. peers' \in [SessionIDs -> SUBSET Aliases]
    BY <2>1 DEF StateInv, TypeOK
  <2> QED
    BY <2>2, CoreKept DEF StateInv, TypeOK, coreVars
<1> QED
  BY <1>1, <1>2 DEF AddPeerID

\* Nothing that a client can see changes when a subscription or a mutex does.
LEMMA SubsState ==
    ASSUME StateInv, subs' \subseteq Named,
           stuck' = stuck \/ \E s \in SessionIDs : stuck' = [stuck EXCEPT ![s] = TRUE],
           UNCHANGED <<nodeVars, st, locked, phase, parts, cur, call, runVars, histVars>>
    PROVE  StateInv'
<1> USE DEF nodeVars, runVars, histVars
<1>1. stuck' \in [SessionIDs -> BOOLEAN]
  BY DEF StateInv, TypeOK
<1> QED
  BY <1>1, CoreKept DEF StateInv, TypeOK, coreVars

\* The session of a call that opens a channel.
LEMMA CallSession ==
    ASSUME StateInv, NEW k \in Clients, call[k] # Idle
    PROVE  call[k] \in Calls /\ call[k].req.SessionID \in SessionIDs
  BY RequestSessions DEF StateInv, TypeOK, Calls

LEMMA ProposesState ==
    ASSUME StateInv, NEW k \in Clients,
           NEW m \in {"OpenPayCh", "RespondPayChProposal"},
           NEW r \in Requests.OpenPayCh \cup Requests.RespondPayChProposal,
           HasSession(r.SessionID), Proposes(k, m, r)
    PROVE  StateInv'
<1> DEFINE new == [method |-> m, req |-> r, stage |-> "propose", ch |-> ""]
<1>1. /\ call' = [call EXCEPT ![k] = new]
      /\ UNCHANGED <<sess, peers, registered, listening, dbOpen, st, locked, stuck, subs,
                     phase, parts, cur, down, stops, told, owed>>
  BY DEF Proposes, nodeVars, chVars, runVars, histVars
<1>2. new \in Calls /\ new.stage = "propose" /\ new.req = r
  BY DEF Calls
<1> HIDE DEF new
<1>3. /\ call' \in [Clients -> {Idle} \cup Calls]
      /\ call'[k] = new /\ \A l \in Clients \ {k} : call'[l] = call[l]
  BY <1>1, <1>2 DEF StateInv, TypeOK
<1>4. TypeOK'
  BY <1>1, <1>3 DEF StateInv, TypeOK
<1>5. OpenInv' /\ ToldInv' /\ PhaseInv' /\ OwedInv'
  BY <1>1 DEF StateInv, CoreInv, OpenInv, ToldInv, PhaseInv, OwedInv, HasSession
<1>6. sess' = sess /\ st' = st /\ phase' = phase /\ StageInv /\ AddInv
  BY <1>1 DEF StateInv, CoreInv
<1>7. StageInv'
  <2> SUFFICES ASSUME NEW l \in Clients, call'[l] # Idle
               PROVE  LET q == call'[l].req.SessionID
                          c == call'[l].ch IN
                      /\ HasSession(q)
                      /\ call'[l].stage \in {"add", "info"} => c \in ChIDs /\ phase[c] # "none"
                      /\ call'[l].stage = "info" => st[q][c] # "none"
    BY <1>6 DEF StageInv, HasSession
  <2>1. CASE l = k
    BY <1>2, <1>3, <2>1
  <2>2. CASE l # k
    BY <1>3, <1>6, <2>2 DEF StageInv
  <2> QED
    BY <2>1, <2>2
<1>8. AddInv'
  BY <1>2, <1>3, <1>6 DEF AddInv
<1> QED
  BY <1>4, <1>5, <1>7, <1>8 DEF StateInv, CoreInv

LEMMA OpenPayChState ==
    ASSUME StateInv, NEW k \in Clients, NEW r \in Requests.OpenPayCh, OpenPayCh(k, r)
    PROVE  StateInv'
<1>1. CASE \E E : Refuse("OpenPayCh", r, E)
  BY <1>1, RefusedState
<1>2. CASE Proposes(k, "OpenPayCh", r) /\ HasSession(r.SessionID)
  BY <1>2, ProposesState
<1> QED
  BY <1>1, <1>2 DEF OpenPayCh

LEMMA RespondPayChProposalState ==
    ASSUME StateInv, NEW k \in Clients, NEW r \in Requests.RespondPayChProposal,
           RespondPayChProposal(k, r)
    PROVE  StateInv'
<1>1. CASE \E E : Refuse("RespondPayChProposal", r, E)
  BY <1>1, RefusedState
<1>2. CASE Proposes(k, "RespondPayChProposal", r) /\ HasSession(r.SessionID)
  BY <1>2, ProposesState
<1>3. CASE UNCHANGED <<nodeVars, chVars, call, runVars, histVars>>
  BY <1>3, StateKept
<1> QED
  BY <1>1, <1>2, <1>3 DEF RespondPayChProposal, CallsSession

\* A call ends; its reply may name the channel.
LEMMA CallEnds ==
    ASSUME StateInv, NEW k \in Clients, call' = [call EXCEPT ![k] = Idle],
           UNCHANGED <<nodeVars, chVars, runVars>>,
           told' \subseteq Named, owed' \subseteq ChIDs, ToldInv', OwedInv'
    PROVE  StateInv'
<1>1. UNCHANGED <<sess, peers, registered, listening, dbOpen, st, locked, stuck, subs,
                  phase, parts, cur, down, stops>>
  BY DEF nodeVars, chVars, runVars
<1>2. /\ call' \in [Clients -> {Idle} \cup Calls]
      /\ call'[k] = Idle /\ \A l \in Clients \ {k} : call'[l] = call[l]
  BY DEF StateInv, TypeOK
<1>3. TypeOK'
  BY <1>1, <1>2 DEF StateInv, TypeOK
<1>4. OpenInv' /\ PhaseInv'
  BY <1>1 DEF StateInv, CoreInv, OpenInv, PhaseInv
<1>5. StageInv'
  BY <1>1, <1>2 DEF StateInv, CoreInv, StageInv, HasSession
<1>6. AddInv'
  BY <1>1, <1>2 DEF StateInv, CoreInv, AddInv
<1> QED
  BY <1>3, <1>4, <1>5, <1>6 DEF StateInv, CoreInv

LEMMA ProposalFailsState ==
    ASSUME StateInv, NEW k \in Clients, ProposalFails(k) PROVE StateInv'
<1>1. /\ call' = [call EXCEPT ![k] = Idle] /\ UNCHANGED <<nodeVars, chVars, runVars>>
      /\ told' = told /\ owed' = owed /\ sess' = sess /\ st' = st /\ phase' = phase
  BY DEF ProposalFails, nodeVars, chVars, histVars
<1>2. told' \subseteq Named /\ owed' \subseteq ChIDs
  BY <1>1 DEF StateInv, TypeOK
<1>3. ToldInv' /\ OwedInv'
  BY <1>1 DEF StateInv, CoreInv, ToldInv, OwedInv, HasSession
<1> QED
  BY <1>1, <1>2, <1>3, CallEnds

LEMMA ChOpenedState ==
    ASSUME StateInv, NEW k \in Clients, ChOpened(k) PROVE StateInv'
<1> DEFINE s == call[k].req.SessionID
           c == call[k].ch
<1>1. /\ call[k] # Idle /\ call[k].stage = "info"
      /\ call' = [call EXCEPT ![k] = Idle] /\ UNCHANGED <<nodeVars, chVars, runVars>>
      /\ told' = told \cup {<<s, c>>} /\ owed' = owed \cup {d \in {c} : phase[d] = "Acting"}
      /\ sess' = sess /\ st' = st /\ phase' = phase
  BY DEF ChOpened, At, nodeVars, chVars
<1>2. s \in SessionIDs /\ c \in ChIDs /\ HasSession(s) /\ st[s][c] # "none"
  BY <1>1, CallSession DEF StateInv, CoreInv, StageInv
<1> HIDE DEF s, c
<1>3. told' \subseteq Named /\ owed' \subseteq ChIDs
  <2>1. told \subseteq Named /\ owed \subseteq ChIDs /\ <<s, c>> \in Named
    BY <1>2 DEF StateInv, TypeOK, Named
  <2> QED
    BY <1>1, <1>2, <2>1
<1>4. ToldInv'
  BY <1>1, <1>2 DEF StateInv, CoreInv, ToldInv, HasSession
<1>5. OwedInv'
  BY <1>1 DEF StateInv, CoreInv, OwedInv
<1> QED
  BY <1>1, <1>3, <1>4, <1>5, CallEnds

\* A channel that did not exist is persisted: no session has it, and no other call.
LEMMA ProposalSucceedsState ==
    ASSUME StateInv, NEW k \in Clients, ProposalSucceeds(k) PROVE StateInv'
<1>1. PICK c \in ChIDs, o \in Offers :
        /\ call[k] # Idle /\ phase[c] = "none"
        /\ phase' = [phase EXCEPT ![c] = "Acting"]
        /\ parts' = [parts EXCEPT ![c] = o[1]]
        /\ cur' = [cur EXCEPT ![c] = o[2]]
        /\ call' = [call EXCEPT ![k].stage = "add", ![k].ch = c]
        /\ UNCHANGED <<sess, peers, registered, listening, dbOpen, st, locked, stuck, subs,
                       down, stops, told, owed>>
  BY DEF ProposalSucceeds, At, nodeVars, runVars, histVars
<1> DEFINE new == [call[k] EXCEPT !.stage = "add", !.ch = c]
           s == call[k].req.SessionID
<1>2. call[k] \in Calls /\ s \in SessionIDs
  BY <1>1, CallSession
<1>3. new \in Calls /\ new.stage = "add" /\ new.ch = c /\ new.req.SessionID = s
  BY <1>2 DEF Calls
<1>4. call' = [call EXCEPT ![k] = new]
  BY <1>1
<1> HIDE DEF new, s
<1>5. /\ call' \in [Clients -> {Idle} \cup Calls]
      /\ call'[k] = new /\ \A l \in Clients \ {k} : call'[l] = call[l]
  BY <1>3, <1>4 DEF StateInv, TypeOK
<1>6. o[1] \in Aliases /\ o[2] \in {"ETH", "PRN"}
  BY DEF Offers, Aliases
<1>7. /\ phase' \in [ChIDs -> {"none", "Acting", "Withdrawn", "other"}]
      /\ parts' \in [ChIDs -> Aliases \cup {""}] /\ cur' \in [ChIDs -> {"", "ETH", "PRN"}]
      /\ phase'[c] = "Acting" /\ \A d \in ChIDs \ {c} : phase'[d] = phase[d]
  BY <1>1, <1>6 DEF StateInv, TypeOK
<1>8. TypeOK'
  BY <1>1, <1>5, <1>7 DEF StateInv, TypeOK
<1>9. UNCHANGED <<sess, dbOpen, st, told, owed>> /\ phase[c] = "none" /\ call[k] # Idle
  BY <1>1
<1>i. TypeOK /\ StageInv /\ AddInv /\ PhaseInv /\ OwedInv
  BY DEF StateInv, CoreInv
<1>10. OpenInv' /\ ToldInv'
  BY <1>9 DEF StateInv, CoreInv, OpenInv, ToldInv, HasSession
<1>11. PhaseInv' /\ OwedInv'
  <2>1. \A d \in ChIDs : /\ phase[d] # "none" => phase'[d] = phase[d]
                         /\ phase'[d] = "Withdrawn" => phase[d] = "Withdrawn"
    BY <1>7, <1>9
  <2>2. PhaseInv'
    BY <1>9, <1>i, <2>1 DEF PhaseInv
  <2>3. OwedInv'
    BY <1>9, <1>i, <2>1 DEF OwedInv, TypeOK
  <2> QED
    BY <2>2, <2>3
<1>12. StageInv'
  <2> SUFFICES ASSUME NEW l \in Clients, call'[l] # Idle
               PROVE  LET q == call'[l].req.SessionID
                          d == call'[l].ch IN
                      /\ HasSession(q)
                      /\ call'[l].stage \in {"add", "info"} => d \in ChIDs /\ phase'[d] # "none"
                      /\ call'[l].stage = "info" => st[q][d] # "none"
    BY <1>9 DEF StageInv, HasSession
  <2>1. CASE l = k
    <3>1. HasSession(s)
      BY <1>9, <1>i DEF StageInv, s
    <3>2. call'[l].req.SessionID = s /\ call'[l].ch = c /\ call'[l].stage = "add"
      BY <1>3, <1>5, <2>1
    <3> QED
      BY <1>7, <3>1, <3>2
  <2>2. CASE l # k
    BY <1>5, <1>7, <1>i, <2>2 DEF StageInv
  <2> QED
    BY <2>1, <2>2
<1>13. st[s][c] = "none"
  BY <1>2, <1>9, <1>i DEF PhaseInv
<1>14. \A l \in Clients \ {k} :
         call[l] # Idle /\ call[l].stage = "add" => call[l].ch \in ChIDs \ {c}
  BY <1>9, <1>i DEF StageInv
<1>15. AddInv'
  <2> SUFFICES ASSUME NEW l \in Clients, call'[l] # Idle, call'[l].stage = "add"
               PROVE  LET q == call'[l].req.SessionID
                          d == call'[l].ch IN
                      /\ sess[q] = "open" => phase'[d] = "Acting" /\ st[q][d] = "none"
                      /\ \A j \in Clients \ {l} :
                            call'[j] # Idle /\ call'[j].stage = "add" => call'[j].ch # d
    BY <1>9 DEF AddInv
  <2>1. CASE l = k
    <3>1. call'[l].req.SessionID = s /\ call'[l].ch = c
      BY <1>3, <1>5, <2>1
    <3>2. \A j \in Clients \ {l} :
            call'[j] # Idle /\ call'[j].stage = "add" => call'[j].ch # c
      BY <1>5, <1>14, <2>1
    <3> QED
      BY <1>7, <1>13, <3>1, <3>2
  <2>2. CASE l # k
    <3>1. call'[l] = call[l] /\ call[l].ch \in ChIDs \ {c}
      BY <1>5, <1>14, <2>2
    <3>2. phase'[call[l].ch] = phase[call[l].ch]
      BY <1>7, <3>1
    <3>3. \A j \in Clients \ {l} :
            call'[j] # Idle /\ call'[j].stage = "add" => call'[j].ch # call[l].ch
      BY <1>3, <1>5, <1>i, <3>1 DEF AddInv
    <3> QED
      BY <1>i, <3>1, <3>2, <3>3 DEF AddInv
  <2> QED
    BY <2>1, <2>2
<1> QED
  BY <1>8, <1>10, <1>11, <1>12, <1>15 DEF StateInv, CoreInv

\* The session takes the channel also when it was closed meanwhile; when it is still
\* open, nobody can have settled the channel.
LEMMA AddChState ==
    ASSUME StateInv, NEW k \in Clients, AddCh(k) PROVE StateInv'
<1> DEFINE s == call[k].req.SessionID
           c == call[k].ch
           new == [call[k] EXCEPT !.stage = "info"]
<1>1. /\ call[k] # Idle /\ call[k].stage = "add"
      /\ st' = [st EXCEPT ![s][c] = "open"] /\ call' = [call EXCEPT ![k] = new]
      /\ UNCHANGED <<sess, peers, registered, listening, dbOpen, locked, stuck, subs,
                     phase, parts, cur, down, stops, told, owed>>
  BY DEF AddCh, At, Put, nodeVars, runVars, histVars
<1>i. TypeOK /\ ToldInv /\ StageInv /\ AddInv /\ PhaseInv
  BY DEF StateInv, CoreInv
<1>2. call[k] \in Calls /\ s \in SessionIDs /\ c \in ChIDs /\ HasSession(s)
      /\ phase[c] # "none" /\ (sess[s] = "open" => phase[c] = "Acting")
  BY <1>1, <1>i, CallSession DEF StageInv, AddInv
<1>3. new \in Calls /\ new.stage = "info" /\ new.ch = c /\ new.req.SessionID = s
  BY <1>2 DEF Calls
<1>4. /\ st' \in [SessionIDs -> [ChIDs -> {"none", "open", "closed"}]]
      /\ \A q \in SessionIDs, d \in ChIDs :
            st'[q][d] = IF q = s /\ d = c THEN "open" ELSE st[q][d]
  BY <1>1, <1>2, <1>i DEF TypeOK
<1>d. \A l \in Clients \ {k} : call[l] # Idle /\ call[l].stage = "add" =>
         call[l].ch # c /\ call[l].ch \in ChIDs /\ call[l].req.SessionID \in SessionIDs
  BY <1>1, <1>i, CallSession DEF AddInv, StageInv
<1> HIDE DEF new, s, c
<1>5. /\ call' \in [Clients -> {Idle} \cup Calls]
      /\ call'[k] = new /\ \A l \in Clients \ {k} : call'[l] = call[l]
  BY <1>1, <1>3, <1>i DEF TypeOK
<1>6. TypeOK'
  BY <1>1, <1>4, <1>5, <1>i DEF TypeOK
<1>7. UNCHANGED <<sess, dbOpen, phase, told, owed>>
  BY <1>1
<1>8. OpenInv' /\ OwedInv'
  BY <1>7 DEF StateInv, CoreInv, OpenInv, OwedInv
<1>9. \A q \in SessionIDs, d \in ChIDs : st[q][d] # "none" => st'[q][d] # "none"
  BY <1>4
<1>10. ToldInv'
  BY <1>7, <1>9, <1>i DEF ToldInv, HasSession
<1>11. PhaseInv'
  BY <1>2, <1>4, <1>7, <1>i DEF PhaseInv
<1>12. StageInv'
  <2> SUFFICES ASSUME NEW l \in Clients, call'[l] # Idle
               PROVE  LET q == call'[l].req.SessionID
                          d == call'[l].ch IN
                      /\ HasSession(q)
                      /\ call'[l].stage \in {"add", "info"} => d \in ChIDs /\ phase[d] # "none"
                      /\ call'[l].stage = "info" => st'[q][d] # "none"
    BY <1>7 DEF StageInv, HasSession
  <2>1. CASE l = k
    <3>1. call'[l].req.SessionID = s /\ call'[l].ch = c
      BY <1>3, <1>5, <2>1
    <3> QED
      BY <1>2, <1>4, <3>1
  <2>2. CASE l # k
    <3>1. call'[l] = call[l] /\ call[l].req.SessionID \in SessionIDs
      BY <1>5, <2>2, CallSession
    <3> QED
      BY <1>9, <1>i, <3>1 DEF StageInv
  <2> QED
    BY <2>1, <2>2
<1>13. AddInv'
  <2> SUFFICES ASSUME NEW l \in Clients, call'[l] # Idle, call'[l].stage = "add"
               PROVE  LET q == call'[l].req.SessionID
                          d == call'[l].ch IN
                      /\ sess[q] = "open" => phase[d] = "Acting" /\ st'[q][d] = "none"
                      /\ \A j \in Clients \ {l} :
                            call'[j] # Idle /\ call'[j].stage = "add" => call'[j].ch # d
    BY <1>7 DEF AddInv
  <2>1. l # k
    BY <1>3, <1>5
  <2>2. /\ call'[l] = call[l] /\ call[l].ch # c /\ call[l].ch \in ChIDs
        /\ call[l].req.SessionID \in SessionIDs
    BY <1>5, <1>d, <2>1
  <2>3. st'[call[l].req.SessionID][call[l].ch] = st[call[l].req.SessionID][call[l].ch]
    BY <1>4, <2>2
  <2>4. \A j \in Clients \ {l} :
          call'[j] # Idle /\ call'[j].stage = "add" => call'[j].ch # call[l].ch
    BY <1>3, <1>5, <1>i, <2>2 DEF AddInv
  <2> QED
    BY <1>i, <2>2, <2>3, <2>4 DEF AddInv
<1> QED
  BY <1>6, <1>8, <1>10, <1>11, <1>12, <1>13 DEF StateInv, CoreInv

\* A state of a channel is registered through the one session that can: the calls
\* that have still to add their channel have another.
LEMMA PhaseBecomesState ==
    ASSUME StateInv, NEW s \in SessionIDs, NEW c \in ChIDs, st[s][c] # "none",
           \A q \in SessionIDs \ {s} : sess[q] # "open", PhaseBecomes(c, "other"),
           UNCHANGED <<nodeVars, st, locked, stuck, subs, parts, cur, call, runVars, told>>
    PROVE  StateInv'
<1>i. TypeOK /\ StageInv /\ AddInv /\ PhaseInv /\ OwedInv
  BY DEF StateInv, CoreInv
<1>1. /\ UNCHANGED <<sess, peers, registered, listening, dbOpen, st, locked, stuck, subs,
                     parts, cur, call, down, stops, told>>
      /\ owed' = owed \ {c}
  BY DEF PhaseBecomes, nodeVars, runVars
<1>2. /\ phase' \in [ChIDs -> {"none", "Acting", "Withdrawn", "other"}]
      /\ phase'[c] = "other" /\ \A d \in ChIDs \ {c} : phase'[d] = phase[d]
  BY <1>i DEF PhaseBecomes, TypeOK
<1>3. TypeOK'
  BY <1>1, <1>2, <1>i DEF TypeOK
<1>4. UNCHANGED <<sess, dbOpen, st, call, told>>
  BY <1>1
<1>5. OpenInv' /\ ToldInv'
  <2>1. OpenInv /\ ToldInv
    BY DEF StateInv, CoreInv
  <2>2. OpenInv'
    BY ONLY <1>4, <2>1 DEF OpenInv
  <2>3. ToldInv'
    BY ONLY <1>4, <2>1 DEF ToldInv, HasSession
  <2> QED
    BY <2>2, <2>3
<1>6. PhaseInv'
  BY <1>2, <1>4, <1>i DEF PhaseInv
<1>7. OwedInv'
  BY <1>1, <1>2, <1>i DEF OwedInv, TypeOK
<1>8. StageInv'
  BY <1>2, <1>4, <1>i DEF StageInv, HasSession
<1>9. AddInv'
  <2> SUFFICES ASSUME NEW k \in Clients, call[k] # Idle, call[k].stage = "add",
                      sess[call[k].req.SessionID] = "open"
               PROVE  phase'[call[k].ch] = "Acting"
    BY <1>4, <1>i DEF AddInv
  <2>1. call[k].req.SessionID \in SessionIDs /\ call[k].ch \in ChIDs
    BY <1>i, CallSession DEF StageInv
  <2>2. call[k].req.SessionID = s
    BY <2>1
  <2>3. call[k].ch # c /\ phase[call[k].ch] = "Acting"
    BY <1>i, <2>2 DEF AddInv
  <2> QED
    BY <1>2, <2>1, <2>3
<1> QED
  BY <1>3, <1>5, <1>6, <1>7, <1>8, <1>9 DEF StateInv, CoreInv

LEMMA PersistsAlone ==
    ASSUME NEW s, Persists(s)
    PROVE  \A q \in SessionIDs \ {s} : sess[q] # "open"
  BY DEF Persists

LEMMA RespondPayChUpdateState ==
    ASSUME StateInv, NEW r \in Requests.RespondPayChUpdate, RespondPayChUpdate(r)
    PROVE  StateInv'
<1>1. CASE \E E : Refuse("RespondPayChUpdate", r, E)
  BY <1>1, RefusedState
<1>2. CASE UNCHANGED <<nodeVars, chVars, call, runVars, histVars>>
  BY <1>2, StateKept
<1>3. CASE /\ CallsCh(r) /\ Persists(r.SessionID) /\ PhaseBecomes(r.ChID, "other")
           /\ UNCHANGED <<nodeVars, st, locked, stuck, subs, parts, cur, call, runVars, told>>
  <2>1. r.SessionID \in SessionIDs /\ r.ChID \in ChIDs /\ st[r.SessionID][r.ChID] # "none"
    BY <1>3, RequestChs DEF CallsCh, Registered
  <2> QED
    BY <1>3, <2>1, PersistsAlone, PhaseBecomesState
<1> QED
  BY <1>1, <1>2, <1>3 DEF RespondPayChUpdate

LEMMA ClosePayChState ==
    ASSUME StateInv, NEW r \in Requests.ClosePayCh, ClosePayCh(r)
    PROVE  StateInv'
<1>1. CASE \E E : Refuse("ClosePayCh", r, E)
  BY <1>1, RefusedState
<1>2. CASE UNCHANGED <<phase, owed>>
           /\ UNCHANGED <<nodeVars, st, locked, stuck, subs, parts, cur, call, runVars, told>>
  BY <1>2, StateKept DEF chVars, histVars
<1>3. CASE /\ CallsCh(r) /\ Persists(r.SessionID) /\ PhaseBecomes(r.ChID, "other")
           /\ UNCHANGED <<nodeVars, st, locked, stuck, subs, parts, cur, call, runVars, told>>
  <2>1. r.SessionID \in SessionIDs /\ r.ChID \in ChIDs /\ st[r.SessionID][r.ChID] # "none"
    BY <1>3, RequestChs DEF CallsCh, Registered
  <2> QED
    BY <1>3, <2>1, PersistsAlone, PhaseBecomesState
<1> QED
  BY <1>1, <1>2, <1>3 DEF ClosePayCh

LEMMA PeerRegistersState ==
    ASSUME StateInv, PeerRegisters PROVE StateInv'
<1>1. PICK s \in SessionIDs, c \in ChIDs :
        /\ sess[s] = "open" /\ st[s][c] = "open" /\ PhaseBecomes(c, "other")
        /\ UNCHANGED <<nodeVars, st, locked, stuck, subs, parts, cur, call, runVars, told>>
  BY DEF PeerRegisters
<1>2. \A q \in SessionIDs \ {s} : sess[q] # "open"
  BY <1>1 DEF StateInv, CoreInv, OpenInv
<1>3. st[s][c] # "none"
  BY <1>1
<1> QED
  BY <1>1, <1>2, <1>3, PhaseBecomesState

\* A channel that is closed leaves its phase to nobody else: a call that has still to
\* add one does so in another phase.
LEMMA ChannelClosesState ==
    ASSUME StateInv, ChannelCloses PROVE StateInv'
<1>1. PICK s \in SessionIDs, c \in ChIDs,
           err \in ChainErrs("Withdraw") \cup {NewAPIErrUnknownInternal, Nil} :
        /\ st[s][c] = "open" /\ phase[c] = "other"
        /\ Persists(s) \/ err # Nil
        /\ st' = [st EXCEPT ![s][c] = "closed"]
        /\ phase' = [phase EXCEPT ![c] = IF err = Nil THEN "Withdrawn" ELSE "other"]
        /\ subs' = subs \ {<<s, c>>}
        /\ UNCHANGED <<sess, peers, registered, listening, dbOpen, locked, stuck, parts, cur,
                       call, down, stops, told, owed>>
  BY DEF ChannelCloses, nodeVars, runVars, histVars
<1>i. TypeOK /\ OpenInv /\ ToldInv /\ StageInv /\ AddInv /\ PhaseInv /\ OwedInv
  BY DEF StateInv, CoreInv
<1>2. /\ st' \in [SessionIDs -> [ChIDs -> {"none", "open", "closed"}]]
      /\ \A q \in SessionIDs, d \in ChIDs :
            st'[q][d] = IF q = s /\ d = c THEN "closed" ELSE st[q][d]
  BY <1>1, <1>i DEF TypeOK
<1>3. /\ phase' \in [ChIDs -> {"none", "Acting", "Withdrawn", "other"}]
      /\ phase'[c] \in {"Withdrawn", "other"}
      /\ \A d \in ChIDs \ {c} : phase'[d] = phase[d]
      /\ phase'[c] = "Withdrawn" => Persists(s)
  BY <1>1, <1>i DEF TypeOK
<1>4. TypeOK'
  <2>1. subs' \subseteq Named
    BY <1>1, <1>i DEF TypeOK
  <2> QED
    BY <1>1, <1>2, <1>3, <1>i, <2>1 DEF TypeOK
<1>5. UNCHANGED <<sess, dbOpen, call, told, owed>> /\ st[s][c] = "open" /\ phase[c] = "other"
  BY <1>1
<1>6. OpenInv'
  BY ONLY <1>5, <1>i DEF OpenInv
<1>7. \A q \in SessionIDs, d \in ChIDs : (st[q][d] # "none" <=> st'[q][d] # "none")
  BY <1>2, <1>5
<1>8. ToldInv'
  BY <1>5, <1>7, <1>i DEF ToldInv, HasSession
<1>9. StageInv'
  <2>1. \A k \in Clients : call[k] # Idle => call[k].req.SessionID \in SessionIDs
    BY CallSession
  <2> QED
    BY <1>3, <1>5, <1>7, <1>i, <2>1 DEF StageInv, HasSession
<1>10. AddInv'
  <2> SUFFICES ASSUME NEW k \in Clients, call[k] # Idle, call[k].stage = "add",
                      sess[call[k].req.SessionID] = "open"
               PROVE  /\ phase'[call[k].ch] = "Acting"
                      /\ st'[call[k].req.SessionID][call[k].ch] = "none"
    BY <1>5, <1>i DEF AddInv
  <2>1. call[k].req.SessionID \in SessionIDs /\ call[k].ch \in ChIDs
    BY <1>i, CallSession DEF StageInv
  <2>2. /\ phase[call[k].ch] = "Acting" /\ call[k].ch # c
        /\ st[call[k].req.SessionID][call[k].ch] = "none"
    BY <1>5, <1>i DEF AddInv
  <2> QED
    BY <1>3, <1>7, <2>1, <2>2
<1>11. PhaseInv'
  <2> SUFFICES ASSUME NEW q \in SessionIDs, NEW d \in ChIDs
               PROVE  /\ st'[q][d] # "none" => phase'[d] # "none"
                      /\ sess[q] = "open" /\ st'[q][d] = "open" => phase'[d] # "Withdrawn"
    BY <1>5 DEF PhaseInv
  <2>1. CASE d # c
    BY <1>2, <1>3, <1>i, <2>1 DEF PhaseInv
  <2>2. CASE d = c /\ q = s
    BY <1>2, <1>3, <2>2
  <2>3. CASE d = c /\ q # s
    BY <1>3, <2>3, PersistsAlone
  <2> QED
    BY <2>1, <2>2, <2>3
<1>12. OwedInv'
  BY <1>3, <1>5, <1>i DEF OwedInv, TypeOK
<1> QED
  BY <1>4, <1>6, <1>8, <1>9, <1>10, <1>11, <1>12 DEF StateInv, CoreInv

\* Close refuses when a channel is neither in use nor settled; what is open in an
\* open session is not settled, so that it can be restored.
LEMMA CloseSessionState ==
    ASSUME StateInv, NEW r \in Requests.CloseSession, CloseSession(r) PROVE StateInv'
<1> DEFINE s == r.SessionID
<1>i. TypeOK /\ OpenInv /\ ToldInv /\ StageInv /\ AddInv /\ PhaseInv /\ OwedInv
  BY DEF StateInv, CoreInv
<1>1. CASE \E E : Refuse("CloseSession", r, E)
  BY <1>1, RefusedState
<1>2. CASE /\ CallsSession(r) /\ ~Closed(s)
           /\ toGrpcPayChsInfo(Unclosed(s, r.Force)) = <<>>
           /\ sess' = [sess EXCEPT ![s] = "closed"]
           /\ locked' = [locked EXCEPT ![s] = Registered(s)]
           /\ subs' = subs \ ({<<s>>} \cup {<<s, c>> : c \in Registered(s)})
           /\ listening' \in BOOLEAN /\ dbOpen' \in BOOLEAN
           /\ owed' \in {owed, owed \cup OpenChs(s)}
           /\ UNCHANGED <<peers, registered, st, stuck, phase, parts, cur, call, runVars, told>>
  <2>1. s \in SessionIDs /\ sess[s] = "open"
    BY <1>2, RequestSessions DEF CallsSession, HasSession, Closed
  <2> HIDE DEF s
  <2>2. Registered(s) \subseteq ChIDs /\ OpenChs(s) \subseteq ChIDs
        /\ Unclosed(s, r.Force) \subseteq ChIDs
    BY DEF Registered, OpenChs, Unclosed, UnexpectedPhaseChs
  <2>3. /\ sess' \in [SessionIDs -> {"unused", "open", "closed", "gone"}]
        /\ sess'[s] = "closed" /\ \A q \in SessionIDs \ {s} : sess'[q] = sess[q]
    BY <1>2, <2>1, <1>i DEF TypeOK
  <2>4. \A q \in SessionIDs : sess'[q] # "open"
    BY <1>i, <2>1, <2>3 DEF OpenInv
  <2>5. \A q \in SessionIDs : HasSession(q) => HasSession(q)'
    BY <2>3 DEF HasSession
  <2>6. TypeOK'
    <3>1. locked' \in [SessionIDs -> SUBSET ChIDs] /\ subs' \subseteq Named
      BY <1>2, <1>i, <2>2 DEF TypeOK
    <3>2. owed' \subseteq ChIDs
      BY <1>2, <1>i, <2>2 DEF TypeOK
    <3>3. UNCHANGED <<peers, registered, st, stuck, phase, parts, cur, call, down, stops, told>>
          /\ listening' \in BOOLEAN /\ dbOpen' \in BOOLEAN
      BY <1>2 DEF runVars
    <3> QED
      BY <1>i, <2>3, <3>1, <3>2, <3>3 DEF TypeOK
  <2>7. UNCHANGED <<st, phase, call, told>>
    BY <1>2
  <2>8. OpenInv'
    BY <2>4 DEF OpenInv
  <2>9. ToldInv'
    BY <1>i, <2>5, <2>7 DEF ToldInv
  <2>10. \A k \in Clients : call[k] # Idle => call[k].req.SessionID \in SessionIDs
    BY CallSession
  <2>11. StageInv'
    BY <1>i, <2>5, <2>7, <2>10 DEF StageInv
  <2>12. AddInv'
    BY <1>i, <2>4, <2>7, <2>10 DEF AddInv
  <2>13. PhaseInv'
    BY <1>i, <2>4, <2>7 DEF PhaseInv
  <2>14. Unclosed(s, r.Force) = {}
    BY <1>2, <1>i, <2>2, ListedChs
  <2>15. UnexpectedPhaseChs(s) = {}
    BY <2>14 DEF Unclosed
  <2>16. \A c \in OpenChs(s) : phase[c] = "Acting"
    <3> SUFFICES ASSUME NEW c \in OpenChs(s) PROVE phase[c] = "Acting"
      OBVIOUS
    <3>1. c \in ChIDs /\ st[s][c] = "open"
      BY DEF OpenChs
    <3>2. phase[c] # "Withdrawn"
      BY <1>i, <2>1, <3>1 DEF PhaseInv
    <3>3. c \in Registered(s)
      BY <3>1 DEF Registered
    <3>4. phase[c] \in {"Acting", "Withdrawn"}
      BY <2>15, <3>3 DEF UnexpectedPhaseChs
    <3> QED
      BY <3>2, <3>4
  <2>17. OwedInv'
    BY <1>2, <1>i, <2>7, <2>16 DEF OwedInv
  <2> QED
    BY <2>6, <2>8, <2>9, <2>11, <2>12, <2>13, <2>17 DEF StateInv, CoreInv
<1> QED
  <2>1. CASE /\ ~Closed(s) /\ toGrpcPayChsInfo(Unclosed(s, r.Force)) = <<>>
             /\ ~\E E : Refuse("CloseSession", r, E)
    BY <1>2, <2>1 DEF CloseSession
  <2> QED
    BY <1>1, <2>1 DEF CloseSession

LEMMA StopState ==
    ASSUME StateInv, Stop PROVE StateInv'
<1>i. TypeOK /\ PhaseInv /\ OwedInv
  BY DEF StateInv, CoreInv
<1>1. /\ sess' \in [SessionIDs -> {"unused", "open", "closed", "gone"}]
      /\ \A s \in SessionIDs : sess'[s] # "open"
  BY DEF Stop
<1>2. /\ st' \in [SessionIDs -> [ChIDs -> {"none", "open", "closed"}]]
      /\ \A s \in SessionIDs, c \in ChIDs : st'[s][c] = "none"
  BY DEF Stop
<1>3. /\ call' \in [Clients -> {Idle} \cup Calls] /\ \A k \in Clients : call'[k] = Idle
      /\ told' = {} /\ subs' = {} /\ owed' = owed /\ phase' = phase /\ parts' = parts /\ cur' = cur
  BY DEF Stop
<1>4. /\ peers' \in [SessionIDs -> SUBSET Aliases] /\ locked' \in [SessionIDs -> SUBSET ChIDs]
      /\ stuck' \in [SessionIDs -> BOOLEAN]
      /\ registered' \in BOOLEAN /\ listening' \in BOOLEAN /\ dbOpen' \in BOOLEAN
      /\ down' \in BOOLEAN
  BY DEF Stop
<1>5. stops' \in 0 .. MaxStops
  <2>1. stops < MaxStops /\ stops' = stops + 1 /\ stops \in 0 .. MaxStops /\ MaxStops \in Nat
    BY <1>i DEF Stop, TypeOK
  <2> QED
    BY ONLY <2>1
<1>6. TypeOK'
  BY <1>1, <1>2, <1>3, <1>4, <1>5, <1>i DEF TypeOK
<1>7. OpenInv' /\ ToldInv' /\ StageInv' /\ AddInv'
  BY <1>1, <1>3 DEF OpenInv, ToldInv, StageInv, AddInv
<1>8. PhaseInv' /\ OwedInv'
  BY <1>1, <1>2, <1>3, <1>i DEF PhaseInv, OwedInv
<1> QED
  BY <1>6, <1>7, <1>8 DEF StateInv, CoreInv

LEMMA SubscriptionsState ==
    ASSUME StateInv,
           \/ \E r \in Requests.SubPayChProposals : SubPayChProposals(r)
           \/ \E r \in Requests.UnsubPayChProposals : UnsubPayChProposals(r)
           \/ \E r \in Requests.SubPayChUpdates : SubPayChUpdates(r)
           \/ \E r \in Requests.UnsubPayChUpdates : UnsubPayChUpdates(r)
           \/ \E r \in Requests.GetPayChsInfo : GetPayChsInfo(r)
    PROVE  StateInv'
<1>1. subs \subseteq Named
  BY DEF StateInv, TypeOK
<1>2. ASSUME NEW r \in Requests.SubPayChProposals, SubPayChProposals(r) PROVE StateInv'
  <2>1. <<r.SessionID>> \in Named
    BY RequestSessions DEF Named
  <2> QED
    BY <1>1, <1>2, <2>1, RefusedState, SubsState DEF SubPayChProposals
<1>3. ASSUME NEW r \in Requests.UnsubPayChProposals, UnsubPayChProposals(r) PROVE StateInv'
  BY <1>1, <1>3, RefusedState, SubsState DEF UnsubPayChProposals
<1>4. ASSUME NEW r \in Requests.SubPayChUpdates, SubPayChUpdates(r) PROVE StateInv'
  <2>1. <<r.SessionID, r.ChID>> \in Named
    BY RequestChs DEF Named
  <2> QED
    BY <1>1, <1>4, <2>1, RefusedState, SubsState DEF SubPayChUpdates
<1>5. ASSUME NEW r \in Requests.UnsubPayChUpdates, UnsubPayChUpdates(r) PROVE StateInv'
  BY <1>1, <1>5, RefusedState, SubsState DEF UnsubPayChUpdates
<1>6. ASSUME NEW r \in Requests.GetPayChsInfo, GetPayChsInfo(r) PROVE StateInv'
  BY <1>1, <1>6, RequestSessions, StateKept, SubsState DEF GetPayChsInfo
<1> QED
  BY <1>2, <1>3, <1>4, <1>5, <1>6

\* Calls that only answer, and what happens without a call.
LEMMA AnswersState ==
    ASSUME StateInv,
           \/ NoSession \/ NoChannel
           \/ \E r : \/ GetConfig(r) \/ Time(r) \/ Help(r) \/ OpenSessionRefused(r)
                     \/ GetPeerID(r) \/ DeployAssetERC20(r) \/ SendPayChUpdateRefused(r)
                     \/ SendPayChUpdate(r) \/ GetPayChInfo(r)
           \/ NotifyUpdate \/ NotifyProposal \/ Deliver
    PROVE  StateInv'
<1>1. UNCHANGED <<nodeVars, chVars, call, runVars, histVars>>
  <2>1. CASE NoSession \/ NoChannel
    BY <2>1 DEF NoSession, NoChannel, Refuse
  <2>2. CASE \E r : GetConfig(r) \/ Time(r) \/ Help(r) \/ OpenSessionRefused(r)
    BY <2>2 DEF GetConfig, Time, Help, OpenSessionRefused, Refuse
  <2>3. CASE \E r : GetPeerID(r) \/ DeployAssetERC20(r)
    BY <2>3 DEF GetPeerID, DeployAssetERC20, Refuse
  <2>4. CASE \E r : SendPayChUpdateRefused(r) \/ SendPayChUpdate(r) \/ GetPayChInfo(r)
    BY <2>4 DEF SendPayChUpdateRefused, SendPayChUpdate, GetPayChInfo, Refuse
  <2>5. CASE NotifyUpdate \/ NotifyProposal \/ Deliver
    BY <2>5 DEF NotifyUpdate, NotifyProposal, Deliver
  <2> QED
    BY <2>1, <2>2, <2>3, <2>4, <2>5
<1> QED
  BY <1>1, StateKept

LEMMA StateStep == StateInv /\ [Next]_vars => StateInv'
<1> SUFFICES ASSUME StateInv, [Next]_vars PROVE StateInv'
  OBVIOUS
<1>1. CASE UNCHANGED vars
  BY <1>1, StateKept DEF vars
<1>2. CASE Next
  BY <1>2, AnswersState, SubscriptionsState, RegisterCurrencyState, FailsLateState,
     OpenSessionState, AddPeerIDState, OpenPayChState, RespondPayChProposalState,
     ProposalFailsState, ProposalSucceedsState, AddChState, ChOpenedState,
     CloseSessionState, RespondPayChUpdateState, ClosePayChState, PeerRegistersState,
     ChannelClosesState, StopState DEF Next
<1> QED
  BY <1>1, <1>2

LEMMA StateInvariant == Spec => []StateInv
  BY InitialState, StateStep, PTL DEF Spec

\* Type correctness: what the node keeps of sessions, channels and calls, for any
\* number of them.
THEOREM GrpcApiTypeCorrect == Spec => []TypeOK
<1>1. StateInv => TypeOK
  BY DEF StateInv
<1> QED
  BY <1>1, StateInvariant, PTL

----------------------------------------------------------------------------
(* The replies. *)

\* What a reply is that succeeds, and one that does not.
LEMMA ReplyFields ==
    ASSUME NEW m, NEW r, NEW resp, Send(m, r, resp)
    PROVE  /\ last' # NoReply /\ last'.method = m /\ last'.resp = resp
           /\ m \notin NodeMethods => last'.session = r.SessionID
  BY DEF Send, NoReply

\* The info of an error is the one its code stands for.
TellsInfo(e) ==
    IF e.Code = ErrFailedPreCondition
    THEN DOMAIN e.AddInfo \subseteq {"ErrInfoFailedPreCondUnclosedChs"}
    ELSE DOMAIN e.AddInfo = InfoOf(e.Code)

Converts(err) == toGrpcError(err) \in MsgError /\ TellsInfo(toGrpcError(err))

\* An error that is not about a session or a channel which could not be found.
Unrelated(err) ==
    LET e == toGrpcError(err) IN
    e.Code = ErrResourceNotFound =>
        e.AddInfo.ErrInfoResourceNotFound.Type \notin {"session", "channel"}

\* The errors of the model, except for those of CloseSession and of a session or a
\* channel that is not found.
Plain(err) == Converts(err) /\ Unrelated(err)

\* The codes are different, so that each has its own info.
LEMMA ErrorInfos ==
    /\ InfoOf(101) = {"ErrInfoPeerRequestTimedOut"} /\ InfoOf(102) = {"ErrInfoPeerRejected"}
    /\ InfoOf(103) = {"ErrInfoPeerNotFunded"} /\ InfoOf(104) = {"ErrInfoUserResponseTimedOut"}
    /\ InfoOf(201) = {"ErrInfoResourceNotFound"} /\ InfoOf(202) = {"ErrInfoResourceExists"}
    /\ InfoOf(203) = {"ErrInfoInvalidArgument"} /\ InfoOf(205) = {"ErrInfoInvalidConfig"}
    /\ InfoOf(301) = {"ErrInfoTxTimedOut"} /\ InfoOf(302) = {"ErrInfoChainNotReachable"}
    /\ InfoOf(401) = {}
  BY DEF InfoOf, ErrPeerRequestTimedOut, ErrPeerRejected, ErrPeerNotFunded,
         ErrUserResponseTimedOut, ErrResourceNotFound, ErrResourceExists, ErrInvalidArgument,
         ErrInvalidConfig, ErrInvalidContracts, ErrTxTimedOut, ErrChainNotReachable,
         ErrUnknownInternal

\* A record is not nil.
LEMMA InfoNotNil == \A info : "type" \in DOMAIN info => info # Nil
  BY DEF Nil

LEMMA NoInfoErrors == Plain(NewAPIErrFailedPreCondition) /\ Plain(NewAPIErrUnknownInternal)
<1> USE DEF Plain, Converts, Unrelated, toGrpcError, NewAPIErr, MsgError, ErrorCategory,
        ErrorCode, AddInfo, Empty, Nil, TellsInfo
<1>1. Plain(NewAPIErrFailedPreCondition)
  BY DEF NewAPIErrFailedPreCondition, ErrFailedPreCondition, ErrResourceNotFound, ClientError
<1>2. Plain(NewAPIErrUnknownInternal)
  BY ErrorInfos DEF NewAPIErrUnknownInternal, ErrUnknownInternal, ErrFailedPreCondition,
     ErrResourceNotFound, InternalError
<1> QED
  BY <1>1, <1>2

LEMMA PlainIf ==
    ASSUME NEW err, NEW cat \in ErrorCategory, NEW code \in ErrorCode, NEW info \in AddInfo,
           toGrpcError(err) = [Category |-> cat, Code |-> code, AddInfo |-> info],
           code # 204, DOMAIN info = InfoOf(code)
    PROVE  Converts(err) /\ (code # 201 => Plain(err))
  BY DEF Plain, Converts, Unrelated, MsgError, TellsInfo, ErrFailedPreCondition,
         ErrResourceNotFound

\* The errors with texts, the one for a resource, and the one for the user's response.
LEMMA TextErrors ==
    ASSUME NEW a \in STRING, NEW b \in STRING, NEW c \in STRING
    PROVE
      /\ Plain(NewAPIErrPeerRequestTimedOut(a, b))
      /\ Plain(NewAPIErrPeerRejected(a, b))
      /\ Plain(NewAPIErrPeerNotFunded(a))
      /\ Plain(NewAPIErrResourceExists(a, b))
      /\ Plain(NewAPIErrInvalidArgument(a, b))
      /\ Plain(NewAPIErrInvalidConfig(a, b))
      /\ Plain(NewAPIErrTxTimedOut(a, b, c))
      /\ Plain(NewAPIErrChainNotReachable(a))
<1>0. "" \in STRING
  BY TextsAssumption DEF Texts
<1>1. Plain(NewAPIErrPeerRequestTimedOut(a, b))
  <2> DEFINE info == [ErrInfoPeerRequestTimedOut |-> [PeerAlias |-> "", Timeout |-> b]]
  <2>1. toGrpcError(NewAPIErrPeerRequestTimedOut(a, b)) =
          [Category |-> ParticipantError, Code |-> 101, AddInfo |-> info]
    BY InfoNotNil DEF toGrpcError, toGrpcAddInfo, NewAPIErr,
       NewAPIErrPeerRequestTimedOut, ErrPeerRequestTimedOut
  <2>2. info \in AddInfo /\ DOMAIN info = InfoOf(101)
    BY <1>0, ErrorInfos DEF AddInfo, ErrInfoPeerRequestTimedOut
  <2>3. ParticipantError \in ErrorCategory /\ 101 \in ErrorCode
    BY DEF ErrorCategory, ErrorCode, ParticipantError
  <2> HIDE DEF info
  <2> QED
    BY <2>1, <2>2, <2>3, PlainIf
<1>2. Plain(NewAPIErrPeerRejected(a, b))
  <2> DEFINE info == [ErrInfoPeerRejected |-> [PeerAlias |-> a, Reason |-> b]]
  <2>1. toGrpcError(NewAPIErrPeerRejected(a, b)) =
          [Category |-> ParticipantError, Code |-> 102, AddInfo |-> info]
    BY InfoNotNil DEF toGrpcError, toGrpcAddInfo, NewAPIErr,
       NewAPIErrPeerRejected, ErrPeerRejected
  <2>2. info \in AddInfo /\ DOMAIN info = InfoOf(102)
    BY ErrorInfos DEF AddInfo, ErrInfoPeerRejected
  <2>3. ParticipantError \in ErrorCategory /\ 102 \in ErrorCode
    BY DEF ErrorCategory, ErrorCode, ParticipantError
  <2> HIDE DEF info
  <2> QED
    BY <2>1, <2>2, <2>3, PlainIf
<1>3. Plain(NewAPIErrPeerNotFunded(a))
  <2> DEFINE info == [ErrInfoPeerNotFunded |-> [PeerAlias |-> a]]
  <2>1. toGrpcError(NewAPIErrPeerNotFunded(a)) =
          [Category |-> ParticipantError, Code |-> 103, AddInfo |-> info]
    BY InfoNotNil DEF toGrpcError, toGrpcAddInfo, NewAPIErr,
       NewAPIErrPeerNotFunded, ErrPeerNotFunded
  <2>2. info \in AddInfo /\ DOMAIN info = InfoOf(103)
    BY ErrorInfos DEF AddInfo, ErrInfoPeerNotFunded
  <2>3. ParticipantError \in ErrorCategory /\ 103 \in ErrorCode
    BY DEF ErrorCategory, ErrorCode, ParticipantError
  <2> HIDE DEF info
  <2> QED
    BY <2>1, <2>2, <2>3, PlainIf
<1>4. Plain(NewAPIErrResourceExists(a, b))
  <2> DEFINE info == [ErrInfoResourceExists |-> [Type |-> a, Id |-> b]]
  <2>1. toGrpcError(NewAPIErrResourceExists(a, b)) =
          [Category |-> ClientError, Code |-> 202, AddInfo |-> info]
    BY InfoNotNil DEF toGrpcError, toGrpcAddInfo, NewAPIErr,
       NewAPIErrResourceExists, ErrResourceExists
  <2>2. info \in AddInfo /\ DOMAIN info = InfoOf(202)
    BY ErrorInfos DEF AddInfo, ErrInfoResourceExists
  <2>3. ClientError \in ErrorCategory /\ 202 \in ErrorCode
    BY DEF ErrorCategory, ErrorCode, ClientError
  <2> HIDE DEF info
  <2> QED
    BY <2>1, <2>2, <2>3, PlainIf
<1>5. Plain(NewAPIErrInvalidArgument(a, b))
  <2> DEFINE info == [ErrInfoInvalidArgument |-> [Name |-> a, Value |-> b, Requirement |-> ""]]
  <2>1. toGrpcError(NewAPIErrInvalidArgument(a, b)) =
          [Category |-> ClientError, Code |-> 203, AddInfo |-> info]
    BY InfoNotNil DEF toGrpcError, toGrpcAddInfo, NewAPIErr,
       NewAPIErrInvalidArgument, ErrInvalidArgument
  <2>2. info \in AddInfo /\ DOMAIN info = InfoOf(203)
    BY <1>0, ErrorInfos DEF AddInfo, ErrInfoInvalidArgument
  <2>3. ClientError \in ErrorCategory /\ 203 \in ErrorCode
    BY DEF ErrorCategory, ErrorCode, ClientError
  <2> HIDE DEF info
  <2> QED
    BY <2>1, <2>2, <2>3, PlainIf
<1>6. Plain(NewAPIErrInvalidConfig(a, b))
  <2> DEFINE info == [ErrInfoInvalidConfig |-> [Name |-> a, Value |-> b]]
  <2>1. toGrpcError(NewAPIErrInvalidConfig(a, b)) =
          [Category |-> ClientError, Code |-> 205, AddInfo |-> info]
    BY InfoNotNil DEF toGrpcError, toGrpcAddInfo, NewAPIErr,
       NewAPIErrInvalidConfig, ErrInvalidConfig
  <2>2. info \in AddInfo /\ DOMAIN info = InfoOf(205)
    BY ErrorInfos DEF AddInfo, ErrInfoInvalidConfig
  <2>3. ClientError \in ErrorCategory /\ 205 \in ErrorCode
    BY DEF ErrorCategory, ErrorCode, ClientError
  <2> HIDE DEF info
  <2> QED
    BY <2>1, <2>2, <2>3, PlainIf
<1>7. Plain(NewAPIErrTxTimedOut(a, b, c))
  <2> DEFINE info == [ErrInfoTxTimedOut |-> [TxType |-> a, TxID |-> b, TxTimeout |-> c]]
  <2>1. toGrpcError(NewAPIErrTxTimedOut(a, b, c)) =
          [Category |-> ProtocolFatalError, Code |-> 301, AddInfo |-> info]
    BY InfoNotNil DEF toGrpcError, toGrpcAddInfo, NewAPIErr,
       NewAPIErrTxTimedOut, ErrTxTimedOut
  <2>2. info \in AddInfo /\ DOMAIN info = InfoOf(301)
    BY ErrorInfos DEF AddInfo, ErrInfoTxTimedOut
  <2>3. ProtocolFatalError \in ErrorCategory /\ 301 \in ErrorCode
    BY DEF ErrorCategory, ErrorCode, ProtocolFatalError
  <2> HIDE DEF info
  <2> QED
    BY <2>1, <2>2, <2>3, PlainIf
<1>8. Plain(NewAPIErrChainNotReachable(a))
  <2> DEFINE info == [ErrInfoChainNotReachable |-> [ChainURL |-> a]]
  <2>1. toGrpcError(NewAPIErrChainNotReachable(a)) =
          [Category |-> ProtocolFatalError, Code |-> 302, AddInfo |-> info]
    BY InfoNotNil DEF toGrpcError, toGrpcAddInfo, NewAPIErr,
       NewAPIErrChainNotReachable, ErrChainNotReachable
  <2>2. info \in AddInfo /\ DOMAIN info = InfoOf(302)
    BY ErrorInfos DEF AddInfo, ErrInfoChainNotReachable
  <2>3. ProtocolFatalError \in ErrorCategory /\ 302 \in ErrorCode
    BY DEF ErrorCategory, ErrorCode, ProtocolFatalError
  <2> HIDE DEF info
  <2> QED
    BY <2>1, <2>2, <2>3, PlainIf
<1> QED
  BY <1>1, <1>2, <1>3, <1>4, <1>5, <1>6, <1>7, <1>8

LEMMA ResourceErrors ==
    ASSUME NEW a \in STRING, NEW b \in STRING
    PROVE  LET err == NewAPIErrResourceNotFound(a, b) IN
           /\ Converts(err) /\ (a \notin {"session", "channel"} => Plain(err))
           /\ toGrpcError(err).AddInfo =
                [ErrInfoResourceNotFound |-> [Type |-> a, Id |-> b]]
<1>1. Converts(NewAPIErrResourceNotFound(a, b))
  <2> DEFINE info == [ErrInfoResourceNotFound |-> [Type |-> a, Id |-> b]]
  <2>1. toGrpcError(NewAPIErrResourceNotFound(a, b)) =
          [Category |-> ClientError, Code |-> 201, AddInfo |-> info]
    BY InfoNotNil DEF toGrpcError, toGrpcAddInfo, NewAPIErr,
       NewAPIErrResourceNotFound, ErrResourceNotFound
  <2>2. info \in AddInfo /\ DOMAIN info = InfoOf(201)
    BY ErrorInfos DEF AddInfo, ErrInfoResourceNotFound
  <2>3. ClientError \in ErrorCategory /\ 201 \in ErrorCode
    BY DEF ErrorCategory, ErrorCode, ClientError
  <2> HIDE DEF info
  <2> QED
    BY <2>1, <2>2, <2>3, PlainIf
<1>2. toGrpcError(NewAPIErrResourceNotFound(a, b)).AddInfo =
        [ErrInfoResourceNotFound |-> [Type |-> a, Id |-> b]]
  BY InfoNotNil DEF toGrpcError, toGrpcAddInfo, NewAPIErr, NewAPIErrResourceNotFound
<1>3. a \notin {"session", "channel"} => Unrelated(NewAPIErrResourceNotFound(a, b))
  BY <1>2 DEF Unrelated
<1> QED
  BY <1>1, <1>2, <1>3 DEF Plain

LEMMA ResponseErrors ==
    ASSUME NEW a \in Int, NEW b \in Int
    PROVE  Plain(NewAPIErrUserResponseTimedOut(a, b))
<1>1. Plain(NewAPIErrUserResponseTimedOut(a, b))
  <2> DEFINE info == [ErrInfoUserResponseTimedOut |-> [Expiry |-> a, ReceivedAt |-> b]]
  <2>1. toGrpcError(NewAPIErrUserResponseTimedOut(a, b)) =
          [Category |-> ParticipantError, Code |-> 104, AddInfo |-> info]
    BY InfoNotNil DEF toGrpcError, toGrpcAddInfo, NewAPIErr,
       NewAPIErrUserResponseTimedOut, ErrUserResponseTimedOut
  <2>2. info \in AddInfo /\ DOMAIN info = InfoOf(104)
    BY ErrorInfos DEF AddInfo, ErrInfoUserResponseTimedOut
  <2>3. ParticipantError \in ErrorCategory /\ 104 \in ErrorCode
    BY DEF ErrorCategory, ErrorCode, ParticipantError
  <2> HIDE DEF info
  <2> QED
    BY <2>1, <2>2, <2>3, PlainIf
<1> QED
  BY <1>1

\* The error of Close, as the payment app passes it on.
LEMMA UnclosedErrors ==
    ASSUME NEW chs \in Seq(PayChInfo)
    PROVE  LET err == toPayChsCloseSessionErr(NewAPIErrFailedPreConditionUnclosedChs(chs)) IN
           /\ Plain(err)
           /\ toGrpcError(err).AddInfo = [ErrInfoFailedPreCondUnclosedChs |-> [Chs |-> chs]]
<1> DEFINE err == NewAPIErrFailedPreConditionUnclosedChs(chs)
           passed == NewAPIErr(ClientError, ErrFailedPreCondition,
                               [type |-> "FailedPreCondUnclosedPayChs", PayChs |-> chs])
           info == [ErrInfoFailedPreCondUnclosedChs |-> [Chs |-> chs]]
<1>1. toPayChsCloseSessionErr(err) = passed
  BY InfoNotNil DEF toPayChsCloseSessionErr, NewAPIErrFailedPreConditionUnclosedChs, NewAPIErr,
     InfoIs
<1>2. toGrpcError(passed) =
        [Category |-> ClientError, Code |-> ErrFailedPreCondition, AddInfo |-> info]
  BY InfoNotNil DEF toGrpcError, NewAPIErr, toGrpcAddInfo
<1>3. Plain(passed)
  BY <1>2 DEF Plain, Converts, Unrelated, MsgError, ErrorCategory, ErrorCode, AddInfo, TellsInfo,
     ErrFailedPreCondition, ErrResourceNotFound, ClientError, ErrInfoFailedPreCondUnclosedChs
<1> QED
  BY <1>1, <1>2, <1>3

----------------------------------------------------------------------------
(* Messages of the service. *)

\* The message of every method.
LEMMA ServiceResps ==
    /\ Service["GetConfig"].resp = GetConfigResp
    /\ Service["Time"].resp = TimeResp
    /\ Service["Help"].resp = HelpResp
    /\ Service["OpenSession"].resp = OpenSessionResp
    /\ Service["RegisterCurrency"].resp = RegisterCurrencyResp
    /\ Service["AddPeerID"].resp = AddPeerIDResp
    /\ Service["GetPeerID"].resp = GetPeerIDResp
    /\ Service["OpenPayCh"].resp = OpenPayChResp
    /\ Service["GetPayChsInfo"].resp = GetPayChsInfoResp
    /\ Service["SubPayChProposals"].resp = SubPayChProposalsResp
    /\ Service["UnsubPayChProposals"].resp = UnsubPayChProposalsResp
    /\ Service["RespondPayChProposal"].resp = RespondPayChProposalResp
    /\ Service["CloseSession"].resp = CloseSessionResp
    /\ Service["DeployAssetERC20"].resp = DeployAssetERC20Resp
    /\ Service["SendPayChUpdate"].resp = SendPayChUpdateResp
    /\ Service["SubPayChUpdates"].resp = SubPayChUpdatesResp
    /\ Service["UnsubPayChUpdates"].resp = UnsubPayChUpdatesResp
    /\ Service["RespondPayChUpdate"].resp = RespondPayChUpdateResp
    /\ Service["GetPayChInfo"].resp = GetPayChInfoResp
    /\ Service["ClosePayCh"].resp = ClosePayChResp
  BY DEF Service

\* The methods that answer with an error, all but three.
Failing == Methods \ {"GetConfig", "Time", "Help"}

LEMMA ErrorMessages ==
    ASSUME NEW m \in Failing, NEW e \in MsgError
    PROVE  [Error |-> e] \in Service[m].resp
<1>1. m \in {"OpenSession", "RegisterCurrency", "AddPeerID", "GetPeerID", "OpenPayCh",
             "GetPayChsInfo", "SubPayChProposals", "UnsubPayChProposals",
             "RespondPayChProposal", "CloseSession", "DeployAssetERC20", "SendPayChUpdate",
             "SubPayChUpdates", "UnsubPayChUpdates", "RespondPayChUpdate", "GetPayChInfo",
             "ClosePayCh"}
  BY DEF Failing, Methods, Requests
<1> QED
  BY <1>1, ServiceResps DEF OpenSessionResp, RegisterCurrencyResp, AddPeerIDResp, GetPeerIDResp,
     OpenPayChResp, GetPayChsInfoResp, SubPayChProposalsResp, UnsubPayChProposalsResp,
     RespondPayChProposalResp, CloseSessionResp, DeployAssetERC20Resp, SendPayChUpdateResp,
     SubPayChUpdatesResp, UnsubPayChUpdatesResp, RespondPayChUpdateResp, GetPayChInfoResp,
     ClosePayChResp

----------------------------------------------------------------------------
(* What a reply says. *)

\* What the runs check of every reply.
ReplyInv == ErrorTellsInfo /\ ToldIsFound /\ ToldOpenIsRestored /\ UnclosedChsTold

LEMMA NothingSent == (last = NoReply => ReplyInv) /\ (last' = NoReply => ReplyInv')
  BY DEF ReplyInv, ErrorTellsInfo, ToldIsFound, ToldOpenIsRestored, UnclosedChsTold, Replied,
         RefusedWith

\* A reply that is not an error, and not that of OpenSession.
LEMMA GoodReply ==
    ASSUME NEW m, NEW r, NEW resp, Send(m, r, resp), "Error" \notin DOMAIN resp,
           m = "OpenSession" => "MsgSuccess" \notin DOMAIN resp,
           resp \in Service[m].resp \/ (m \in Streaming /\ resp = [Status |-> "Unknown"])
    PROVE  ReplyInv'
<1>1. last' # NoReply /\ last'.method = m /\ last'.resp = resp
  BY ReplyFields
<1>2. ErrorTellsInfo'
  BY <1>1 DEF ErrorTellsInfo
<1>3. ToldIsFound'
  BY <1>1 DEF ToldIsFound, RefusedWith
<1>4. ToldOpenIsRestored'
  BY <1>1 DEF ToldOpenIsRestored, Replied
<1>5. UnclosedChsTold'
  BY <1>1 DEF UnclosedChsTold, RefusedWith
<1> QED
  BY <1>2, <1>3, <1>4, <1>5 DEF ReplyInv

LEMMA SuccessReply ==
    ASSUME NEW m, m # "OpenSession", NEW r, NEW msg, Succeed(m, r, msg),
           [MsgSuccess |-> msg] \in Service[m].resp
    PROVE  ReplyInv'
<1>1. "Error" \notin DOMAIN [MsgSuccess |-> msg]
  OBVIOUS
<1> QED
  BY <1>1, GoodReply DEF Succeed

\* What an error of a method that does not stream is sent as.
LEMMA ErrorReply ==
    ASSUME NEW m \in Failing \ Streaming, NEW r, NEW err, Fail(m, r, err), Converts(err)
    PROVE  /\ last' # NoReply /\ last'.method = m /\ last'.resp = [Error |-> toGrpcError(err)]
           /\ m \notin NodeMethods => last'.session = r.SessionID
           /\ ErrorTellsInfo' /\ ToldOpenIsRestored'
<1> DEFINE resp == [Error |-> toGrpcError(err)]
<1>1. Send(m, r, resp)
  BY DEF Fail
<1>2. resp \in Service[m].resp
  BY ErrorMessages DEF Converts
<1>3. DOMAIN resp = {"Error"} /\ resp.Error = toGrpcError(err)
  OBVIOUS
<1> HIDE DEF resp
<1>4. /\ last' # NoReply /\ last'.method = m /\ last'.resp = resp
      /\ m \notin NodeMethods => last'.session = r.SessionID
  BY <1>1, ReplyFields
<1>5. ErrorTellsInfo'
  BY <1>2, <1>3, <1>4 DEF ErrorTellsInfo, Converts, TellsInfo
<1>6. ToldOpenIsRestored'
  BY <1>3, <1>4 DEF ToldOpenIsRestored
<1> QED
  BY <1>4, <1>5, <1>6 DEF resp

LEMMA StatusReply ==
    ASSUME NEW m \in Streaming, NEW r, NEW err, Fail(m, r, err)
    PROVE  ReplyInv'
<1> DEFINE resp == [Status |-> "Unknown"]
<1>1. Send(m, r, resp) /\ m # "OpenSession"
  BY DEF Fail, Streaming
<1>2. "Error" \notin DOMAIN resp
  OBVIOUS
<1> HIDE DEF resp
<1> QED
  BY <1>1, <1>2, GoodReply DEF resp

\* An error that is no news of a session or a channel.
LEMMA PlainReply ==
    ASSUME NEW m \in Failing, NEW r, NEW err, Fail(m, r, err), Plain(err),
           m = "CloseSession" => toGrpcError(err).Code # ErrFailedPreCondition
    PROVE  ReplyInv'
<1>1. CASE m \in Streaming
  BY <1>1, StatusReply
<1>2. CASE m \notin Streaming
  <2>1. /\ last' # NoReply /\ last'.method = m /\ last'.resp = [Error |-> toGrpcError(err)]
        /\ ErrorTellsInfo' /\ ToldOpenIsRestored'
    BY <1>2, ErrorReply DEF Plain
  <2>2. ToldIsFound'
    BY <2>1 DEF ToldIsFound, RefusedWith, Plain, Unrelated
  <2>3. UnclosedChsTold'
    BY <2>1 DEF UnclosedChsTold, Replied, RefusedWith
  <2> QED
    BY <2>1, <2>2, <2>3 DEF ReplyInv
<1> QED
  BY <1>1, <1>2

LEMMA PlainRefusal ==
    ASSUME NEW m \in Failing, m # "CloseSession", NEW r, NEW E, Refuse(m, r, E),
           \A err \in E : Plain(err)
    PROVE  ReplyInv'
  BY PlainReply DEF Refuse

\* A session that is not there, or a channel that it has not: no reply named it.
LEMMA NotFoundReply ==
    ASSUME NEW m \in Failing \ NodeMethods, NEW r,
           NEW type \in {"session", "channel"}, NEW id \in STRING,
           Refuse(m, r, {NewAPIErrResourceNotFound(type, id)}),
           type = "session" => <<id>> \notin told,
           type = "channel" => <<r.SessionID, id>> \notin told
    PROVE  ReplyInv'
<1> DEFINE err == NewAPIErrResourceNotFound(type, id)
           info == [Type |-> type, Id |-> id]
<1>1. Fail(m, r, err) /\ told' = told
  BY DEF Refuse, histVars
<1>2. type \in STRING
  BY TextsAssumption DEF Texts
<1>3. Converts(err) /\ toGrpcError(err).AddInfo.ErrInfoResourceNotFound = info
  <2>1. Converts(err) /\ toGrpcError(err).AddInfo = [ErrInfoResourceNotFound |-> info]
    BY <1>2, ResourceErrors
  <2> QED
    BY <2>1
<1>c. toGrpcError(err).Code # ErrFailedPreCondition
  BY DEF toGrpcError, NewAPIErr, NewAPIErrResourceNotFound, ErrResourceNotFound,
         ErrFailedPreCondition
<1> HIDE DEF err
<1>4. CASE m \in Streaming
  BY <1>1, <1>4, StatusReply
<1>5. CASE m \notin Streaming
  <2>1. /\ last' # NoReply /\ last'.method = m /\ last'.resp = [Error |-> toGrpcError(err)]
        /\ last'.session = r.SessionID /\ ErrorTellsInfo' /\ ToldOpenIsRestored'
    BY <1>1, <1>3, <1>5, ErrorReply
  <2>2. last'.resp.Error.AddInfo.ErrInfoResourceNotFound = info
    BY <1>3, <2>1
  <2>3. ToldIsFound'
    BY <1>1, <2>1, <2>2 DEF ToldIsFound
  <2>4. UnclosedChsTold'
    BY <1>c, <2>1 DEF UnclosedChsTold, RefusedWith
  <2> QED
    BY <2>1, <2>3, <2>4 DEF ReplyInv
<1> QED
  BY <1>4, <1>5

\* The members of told are told apart by their length.
LEMMA NamedApart ==
    /\ \A s, t : <<s>> = <<t>> => s = t
    /\ \A s, t, c : <<s>> # <<t, c>>
    /\ \A s, t, c, d : <<s, c>> = <<t, d>> => s = t /\ c = d
<1>1. \A s, t, c : Len(<<s>>) = 1 /\ Len(<<t, c>>) = 2
  OBVIOUS
<1>2. \A s, t : <<s>>[1] = s
  OBVIOUS
<1>3. \A s, c : <<s, c>>[1] = s /\ <<s, c>>[2] = c
  OBVIOUS
<1> QED
  BY <1>1, <1>2, <1>3

LEMMA ToldSession ==
    ASSUME ToldInv, NEW s, <<s>> \in told PROVE HasSession(s)
  BY NamedApart DEF ToldInv

LEMMA ToldChannel ==
    ASSUME ToldInv, NEW s, NEW c, <<s, c>> \in told PROVE st[s][c] # "none"
  BY NamedApart DEF ToldInv

LEMMA NotFound ==
    ASSUME StateInv, NoSession \/ NoChannel PROVE ReplyInv'
<1>1. ASSUME NEW m \in Methods \ NodeMethods, NEW r \in Requests[m], ~HasSession(r.SessionID),
             Refuse(m, r, {NewAPIErrResourceNotFound("session", r.SessionID)})
      PROVE  ReplyInv'
  <2>1. m \in Failing
    BY DEF Failing, NodeMethods
  <2>2. r.SessionID \in STRING
    BY DEF Methods, NodeMethods, Requests, SessionReq, ChReq
  <2>3. <<r.SessionID>> \notin told
    BY <1>1, ToldSession DEF StateInv, CoreInv
  <2> QED
    BY <1>1, <2>1, <2>2, <2>3, NotFoundReply
<1>2. ASSUME NEW m \in ChMethods, NEW r \in Requests[m], r.ChID \notin Registered(r.SessionID),
             Refuse(m, r, {NewAPIErrResourceNotFound("channel", r.ChID)})
      PROVE  ReplyInv'
  <2>1. m \in Failing \ NodeMethods
    BY DEF ChMethods, Failing, NodeMethods, Methods, Requests
  <2>2. r.ChID \in ChIDs
    BY RequestChs DEF ChMethods
  <2>3. <<r.SessionID, r.ChID>> \notin told
    BY <1>2, <2>2, ToldChannel DEF StateInv, CoreInv, Registered
  <2> QED
    BY <1>2, <2>1, <2>2, <2>3, NotFoundReply
<1> QED
  BY <1>1, <1>2 DEF NoSession, NoChannel

LEMMA OpenSessionReply ==
    ASSUME StateInv, NEW r, OpenSession(r) PROVE ReplyInv'
<1> DEFINE s == CHOOSE q \in SessionIDs : sess[q] = "unused"
           restored == {c \in ChIDs : handleRestoredCh(c)}
           chs == toGrpcPayChsInfo(restored)
           resp == [MsgSuccess |-> [SessionID |-> s, RestoredChs |-> chs]]
<1>1. s \in STRING
  BY DEF OpenSession
<1>2. /\ Send("OpenSession", r, resp) /\ owed' = owed \cup restored
      /\ UNCHANGED <<registered, parts, cur>>
  BY DEF OpenSession, Succeed
<1>3. chs \in Seq(PayChInfo) /\ ChIDsIn(chs) = restored
  BY ListedChs DEF StateInv
<1>4. \A c \in owed : parts[c] \in StoredPeers /\ (cur[c] = "ETH" \/ registered) => c \in restored
  BY DEF StateInv, CoreInv, OwedInv, TypeOK, handleRestoredCh
<1> HIDE DEF s, restored, chs
<1>5. /\ DOMAIN resp = {"MsgSuccess"} /\ resp.MsgSuccess.RestoredChs = chs
      /\ resp \in Service["OpenSession"].resp
  BY <1>1, <1>3, ServiceResps DEF OpenSessionResp, OpenSessionResp_MsgSuccess
<1> HIDE DEF resp
<1>6. last' # NoReply /\ last'.method = "OpenSession" /\ last'.resp = resp
  BY <1>2, ReplyFields
<1>7. ErrorTellsInfo'
  BY <1>5, <1>6 DEF ErrorTellsInfo
<1>8. ToldIsFound' /\ UnclosedChsTold'
  BY <1>5, <1>6 DEF ToldIsFound, UnclosedChsTold, RefusedWith
<1>9. ToldOpenIsRestored'
  BY <1>2, <1>3, <1>4, <1>5, <1>6 DEF ToldOpenIsRestored
<1> QED
  BY <1>7, <1>8, <1>9 DEF ReplyInv

\* A refused Close names channels that the session has; none of them is settled, for
\* what is in neither phase is not, and what is open in an open session is not.
LEMMA UnclosedReply ==
    ASSUME StateInv, NEW r \in Requests.CloseSession, sess[r.SessionID] = "open",
           toGrpcPayChsInfo(Unclosed(r.SessionID, r.Force)) # <<>>,
           Refuse("CloseSession", r,
                  {toPayChsCloseSessionErr(NewAPIErrFailedPreConditionUnclosedChs(
                       toGrpcPayChsInfo(Unclosed(r.SessionID, r.Force))))})
    PROVE  ReplyInv'
<1> DEFINE s == r.SessionID
           C == Unclosed(s, r.Force)
           chs == toGrpcPayChsInfo(C)
           err == toPayChsCloseSessionErr(NewAPIErrFailedPreConditionUnclosedChs(chs))
           info == [ErrInfoFailedPreCondUnclosedChs |-> [Chs |-> chs]]
<1>1. Fail("CloseSession", r, err) /\ UNCHANGED <<sess, st, phase>>
  BY DEF Refuse, nodeVars, chVars
<1>2. s \in SessionIDs
  BY RequestSessions
<1>3. \A c \in C : c \in ChIDs /\ st[s][c] # "none" /\ phase[c] # "Withdrawn"
  BY <1>2 DEF Unclosed, UnexpectedPhaseChs, OpenChs, Registered, StateInv, CoreInv, PhaseInv
<1>4. chs \in Seq(PayChInfo) /\ ChIDsIn(chs) = C
  BY <1>3, ListedChs DEF StateInv
<1>5. Plain(err) /\ toGrpcError(err).AddInfo = info
  BY <1>4, UnclosedErrors
<1> HIDE DEF C, chs, err
<1>6. "CloseSession" \in Failing \ Streaming /\ "CloseSession" \notin NodeMethods
  BY DEF Failing, Streaming, NodeMethods, Methods, Requests
<1>7. /\ last' # NoReply /\ last'.method = "CloseSession" /\ last'.session = s
      /\ last'.resp = [Error |-> toGrpcError(err)]
      /\ ErrorTellsInfo' /\ ToldOpenIsRestored'
  BY <1>1, <1>5, <1>6, ErrorReply DEF Plain
<1>8. ToldIsFound'
  BY <1>5, <1>7 DEF ToldIsFound, RefusedWith, Plain, Unrelated
<1>9. last'.resp.Error.AddInfo = info
  BY <1>5, <1>7
<1>10. UnclosedChsTold'
  <2>1. "ErrInfoFailedPreCondUnclosedChs" \in DOMAIN info
        /\ info.ErrInfoFailedPreCondUnclosedChs.Chs = chs
    OBVIOUS
  <2>2. \A c \in C : c \in Registered(s)' /\ phase'[c] # "Withdrawn"
    BY <1>1, <1>3 DEF Registered
  <2>3. chs # <<>>
    BY DEF chs, C
  <2> HIDE DEF info
  <2> QED
    BY <1>4, <1>7, <1>9, <2>1, <2>2, <2>3 DEF UnclosedChsTold
<1> QED
  BY <1>7, <1>8, <1>10 DEF ReplyInv

LEMMA CloseSessionReply ==
    ASSUME StateInv, NEW r \in Requests.CloseSession, CloseSession(r) PROVE ReplyInv'
<1> DEFINE s == r.SessionID
<1>1. "CloseSession" \in Failing \ Streaming /\ "CloseSession" \notin NodeMethods
  BY DEF Failing, Streaming, NodeMethods, Methods, Requests
<1>2. CASE Closed(s) /\ Refuse("CloseSession", r, {NewAPIErrFailedPreCondition})
  <2> DEFINE err == NewAPIErrFailedPreCondition
  <2>1. Fail("CloseSession", r, err) /\ sess' = sess
    BY <1>2 DEF Refuse, nodeVars
  <2>2. Plain(err)
    BY NoInfoErrors
  <2> HIDE DEF err
  <2>3. /\ last' # NoReply /\ last'.method = "CloseSession" /\ last'.session = s
        /\ last'.resp = [Error |-> toGrpcError(err)]
        /\ ErrorTellsInfo' /\ ToldOpenIsRestored'
    BY <1>1, <2>1, <2>2, ErrorReply DEF Plain
  <2>4. ToldIsFound'
    BY <2>2, <2>3 DEF ToldIsFound, RefusedWith, Plain, Unrelated
  <2>5. UnclosedChsTold'
    BY <1>2, <2>1, <2>3 DEF UnclosedChsTold, Closed
  <2> QED
    BY <2>3, <2>4, <2>5 DEF ReplyInv
<1>3. CASE Fail("CloseSession", r, NewAPIErrUnknownInternal)
  <2>1. toGrpcError(NewAPIErrUnknownInternal).Code # ErrFailedPreCondition
    BY DEF toGrpcError, NewAPIErr, NewAPIErrUnknownInternal, ErrUnknownInternal,
           ErrFailedPreCondition
  <2> QED
    BY <1>1, <1>3, <2>1, NoInfoErrors, PlainReply
<1>4. CASE Succeed("CloseSession", r, [OpenPayChsInfo |-> toGrpcPayChsInfo(OpenChs(s))])
  <2>1. toGrpcPayChsInfo(OpenChs(s)) \in Seq(PayChInfo)
    BY ListedChs DEF StateInv, OpenChs
  <2>2. [MsgSuccess |-> [OpenPayChsInfo |-> toGrpcPayChsInfo(OpenChs(s))]]
          \in Service["CloseSession"].resp
    BY <2>1, ServiceResps DEF CloseSessionResp, CloseSessionResp_MsgSuccess
  <2> QED
    BY <1>4, <2>2, SuccessReply
<1>5. CASE /\ ~Closed(s) /\ toGrpcPayChsInfo(Unclosed(s, r.Force)) # <<>>
           /\ Refuse("CloseSession", r,
                     {toPayChsCloseSessionErr(NewAPIErrFailedPreConditionUnclosedChs(
                          toGrpcPayChsInfo(Unclosed(s, r.Force))))})
  <2>1. sess[s] = "open"
    BY <1>5 DEF CloseSession, CallsSession, HasSession, Closed
  <2> QED
    BY <1>5, <2>1, UnclosedReply
<1> QED
  BY <1>2, <1>3, <1>4, <1>5 DEF CloseSession

\* The errors of the chain and of the peer.
LEMMA RemoteErrors ==
    /\ \A t \in STRING : \A err \in ChainErrs(t) : Plain(err)
    /\ \A a \in STRING : \A err \in PeerErrs(a) : Plain(err)
<1>1. "txid" \in STRING /\ "10s" \in STRING /\ "url" \in STRING /\ "no" \in STRING
  BY TextsAssumption DEF Texts
<1>2. \A t \in STRING : \A err \in ChainErrs(t) : Plain(err)
  BY <1>1, TextErrors DEF ChainErrs
<1>3. \A a \in STRING : \A err \in PeerErrs(a) : Plain(err)
  BY <1>1, TextErrors DEF PeerErrs
<1> QED
  BY <1>2, <1>3

LEMMA ConfigReplies ==
    ASSUME NEW r, GetConfig(r) \/ Time(r) \/ Help(r) PROVE ReplyInv'
<1> DEFINE config == [ChainAddress |-> "url", Adjudicator |-> "adj", AssetETH |-> "eth",
                      CommTypes |-> <<"tcp">>, IdProviderTypes |-> <<"local">>]
<1>1. CASE GetConfig(r)
  <2>1. /\ "url" \in STRING /\ "adj" \in STRING /\ "eth" \in STRING
        /\ "tcp" \in STRING /\ "local" \in STRING
    BY TextsAssumption DEF Texts
  <2>2. <<"tcp">> \in Seq(STRING) /\ <<"local">> \in Seq(STRING)
    BY <2>1, ShortLists
  <2>3. config \in Service["GetConfig"].resp /\ "Error" \notin DOMAIN config
    BY <2>1, <2>2, ServiceResps DEF GetConfigResp
  <2> HIDE DEF config
  <2>4. Send("GetConfig", r, config)
    BY <1>1 DEF GetConfig, config
  <2> QED
    BY <2>3, <2>4, GoodReply
<1>2. CASE Time(r)
  <2>1. [Time |-> 0] \in Service["Time"].resp /\ "Error" \notin DOMAIN [Time |-> 0]
    BY ServiceResps DEF TimeResp
  <2> QED
    BY <1>2, <2>1, GoodReply DEF Time
<1>3. CASE Help(r)
  <2>1. <<"payment">> \in Seq(STRING)
    BY TextsAssumption, ShortLists DEF Texts
  <2>2. [Apis |-> <<"payment">>] \in Service["Help"].resp
        /\ "Error" \notin DOMAIN [Apis |-> <<"payment">>]
    BY <2>1, ServiceResps DEF HelpResp
  <2> QED
    BY <1>3, <2>2, GoodReply DEF Help
<1> QED
  BY <1>1, <1>2, <1>3

LEMMA RegisterCurrencyReply ==
    ASSUME NEW r \in Requests.RegisterCurrency, RegisterCurrency(r) PROVE ReplyInv'
<1>1. /\ "asset" \in STRING /\ "token" \in STRING /\ "currency" \in STRING /\ "PRN" \in STRING
  BY TextsAssumption DEF Texts
<1>r. r.AssetAddr = "asset" /\ r.TokenAddr = "token"
  BY DEF Requests
<1>2. "RegisterCurrency" \in Failing
  BY DEF Failing, Methods, Requests
<1>3. CASE down' = TRUE /\ UNCHANGED last
  BY <1>3, NothingSent DEF RegisterCurrency, Ready
<1>4. CASE Refuse("RegisterCurrency", r,
             {NewAPIErrInvalidArgument("asset", r.AssetAddr),
              NewAPIErrInvalidArgument("token", r.TokenAddr), NewAPIErrUnknownInternal})
  BY <1>1, <1>2, <1>4, <1>r, TextErrors, NoInfoErrors, PlainRefusal
<1>5. CASE Refuse("RegisterCurrency", r, {NewAPIErrResourceExists("currency", "PRN")})
  BY <1>1, <1>2, <1>5, TextErrors, PlainRefusal
<1>6. CASE Succeed("RegisterCurrency", r, [Symbol |-> "PRN"])
  <2>1. [MsgSuccess |-> [Symbol |-> "PRN"]] \in Service["RegisterCurrency"].resp
    BY <1>1, ServiceResps DEF RegisterCurrencyResp, RegisterCurrencyResp_MsgSuccess
  <2> QED
    BY <1>6, <2>1, SuccessReply
<1> QED
  BY <1>3, <1>4, <1>5, <1>6 DEF RegisterCurrency

LEMMA OpenSessionErrors ==
    ASSUME NEW r \in Requests.OpenSession, OpenSessionRefused(r) \/ OpenSessionFailsLate(r)
    PROVE  ReplyInv'
<1>1. /\ "configFile" \in STRING /\ "commAddr" \in STRING /\ "chainURL" \in STRING
      /\ "v" \in STRING /\ "databaseDir" \in STRING /\ "session.yaml" \in STRING
  BY TextsAssumption DEF Texts
<1>r. r.ConfigFile = "session.yaml"
  BY DEF Requests
<1>2. "OpenSession" \in Failing
  BY DEF Failing, Methods, Requests
<1>3. CASE OpenSessionRefused(r)
  <2>1. /\ Plain(NewAPIErrInvalidArgument("configFile", r.ConfigFile))
        /\ Plain(NewAPIErrInvalidConfig("commAddr", "v"))
        /\ Plain(NewAPIErrInvalidConfig("chainURL", "v"))
    BY <1>1, <1>r, TextErrors
  <2> QED
    BY <1>2, <1>3, <2>1, NoInfoErrors, PlainRefusal DEF OpenSessionRefused
<1>4. CASE OpenSessionFailsLate(r)
  BY <1>1, <1>2, <1>4, TextErrors, PlainReply DEF OpenSessionFailsLate
<1> QED
  BY <1>3, <1>4

LEMMA PeerReplies ==
    ASSUME \/ \E r \in Requests.AddPeerID : AddPeerID(r)
           \/ \E r \in Requests.GetPeerID : GetPeerID(r)
    PROVE  ReplyInv'
<1>1. /\ "peerAlias" \in STRING /\ "peerID" \in STRING /\ "offChainAddress" \in STRING
      /\ "addr" \in STRING /\ "host" \in STRING /\ "tcp" \in STRING
  BY TextsAssumption DEF Texts
<1>2. "AddPeerID" \in Failing /\ "GetPeerID" \in Failing
  BY DEF Failing, Methods, Requests
<1>3. ASSUME NEW r \in Requests.AddPeerID, AddPeerID(r) PROVE ReplyInv'
  <2>1. r.PeerID.Alias \in STRING
    BY RequestSessions DEF Aliases
  <2>2. /\ Plain(NewAPIErrInvalidArgument("peerAlias", r.PeerID.Alias))
        /\ Plain(NewAPIErrResourceExists("peerID", r.PeerID.Alias))
        /\ Plain(NewAPIErrInvalidArgument("offChainAddress", "addr"))
        /\ Plain(NewAPIErrFailedPreCondition)
    BY <1>1, <2>1, TextErrors, NoInfoErrors
  <2>3. [MsgSuccess |-> [Success |-> TRUE]] \in Service["AddPeerID"].resp
    BY ServiceResps DEF AddPeerIDResp, AddPeerIDResp_MsgSuccess
  <2> QED
    BY <1>2, <1>3, <2>2, <2>3, PlainRefusal, SuccessReply DEF AddPeerID
<1>4. ASSUME NEW r \in Requests.GetPeerID, GetPeerID(r) PROVE ReplyInv'
  <2>1. r.Alias \in STRING
    BY RequestSessions DEF Aliases
  <2>2. Plain(NewAPIErrResourceNotFound("peerID", r.Alias))
    BY <1>1, <2>1, ResourceErrors
  <2>3. [MsgSuccess |-> [PeerID |-> AnyPeerID(r.Alias)]] \in Service["GetPeerID"].resp
    BY <1>1, <2>1, ServiceResps DEF GetPeerIDResp, GetPeerIDResp_MsgSuccess, PeerID, AnyPeerID
  <2> QED
    BY <1>2, <1>4, <2>2, <2>3, NoInfoErrors, PlainRefusal, SuccessReply DEF GetPeerID
<1> QED
  BY <1>3, <1>4

LEMMA DeployAssetERC20Reply ==
    ASSUME NEW r \in Requests.DeployAssetERC20, DeployAssetERC20(r) PROVE ReplyInv'
<1>1. "Deploy" \in STRING /\ "token" \in STRING /\ "asset" \in STRING
  BY TextsAssumption DEF Texts
<1>r. r.TokenAddr = "token"
  BY DEF Requests
<1>2. "DeployAssetERC20" \in Failing
  BY DEF Failing, Methods, Requests
<1>3. Plain(NewAPIErrInvalidArgument("token", r.TokenAddr))
  BY <1>1, <1>r, TextErrors
<1>4. \A err \in ChainErrs("Deploy") : Plain(err)
  BY <1>1, RemoteErrors
<1>5. [MsgSuccess |-> [AssetAddr |-> "asset"]] \in Service["DeployAssetERC20"].resp
  BY <1>1, ServiceResps DEF DeployAssetERC20Resp, DeployAssetERC20Resp_MsgSuccess
<1> QED
  BY <1>2, <1>3, <1>4, <1>5, NoInfoErrors, PlainRefusal, SuccessReply DEF DeployAssetERC20

LEMMA OpenPayChReply ==
    ASSUME NEW k \in Clients, NEW r \in Requests.OpenPayCh, OpenPayCh(k, r) PROVE ReplyInv'
<1> DEFINE alias == r.OpeningBalInfo.Parts[2]
           currency == r.OpeningBalInfo.Currencies[1]
<1>1. /\ "peerID" \in STRING /\ "currency" \in STRING /\ "peerAlias" \in STRING
      /\ "amount" \in STRING /\ "1" \in STRING /\ "ETH" \in STRING /\ "PRN" \in STRING
  BY TextsAssumption DEF Texts
<1>2. alias \in STRING /\ currency \in STRING
  <2>1. PICK o \in Offers : r.OpeningBalInfo = AnyBalInfo(o[1], o[2])
    BY DEF Requests
  <2>2. o[1] \in STRING /\ o[2] \in STRING
    BY <1>1 DEF Offers, Aliases
  <2>3. alias = o[1] /\ currency = o[2]
    BY <2>1 DEF AnyBalInfo
  <2> QED
    BY <2>2, <2>3
<1> HIDE DEF alias, currency
<1>3. "OpenPayCh" \in Failing
  BY DEF Failing, Methods, Requests
<1>4. /\ Plain(NewAPIErrResourceNotFound("peerID", alias))
      /\ Plain(NewAPIErrResourceNotFound("currency", currency))
  BY <1>1, <1>2, ResourceErrors
<1>5. /\ Plain(NewAPIErrInvalidArgument("peerAlias", alias))
      /\ Plain(NewAPIErrInvalidArgument("currency", currency))
      /\ Plain(NewAPIErrInvalidArgument("amount", "1"))
  BY <1>1, <1>2, TextErrors
<1>6. CASE Proposes(k, "OpenPayCh", r)
  BY <1>6, NothingSent DEF OpenPayCh, Proposes, Ready
<1>7. \/ Proposes(k, "OpenPayCh", r)
      \/ Refuse("OpenPayCh", r, {NewAPIErrFailedPreCondition})
      \/ Refuse("OpenPayCh", r, {NewAPIErrResourceNotFound("peerID", alias)})
      \/ Refuse("OpenPayCh", r, {NewAPIErrResourceNotFound("currency", currency)})
      \/ Refuse("OpenPayCh", r, {NewAPIErrInvalidArgument("peerAlias", alias),
                                 NewAPIErrInvalidArgument("currency", currency),
                                 NewAPIErrInvalidArgument("amount", "1"),
                                 NewAPIErrUnknownInternal})
  BY DEF OpenPayCh, alias, currency
<1> QED
  BY <1>3, <1>4, <1>5, <1>6, <1>7, NoInfoErrors, PlainRefusal

\* The reply to a rejected proposal has an empty channel.
LEMMA RespondPayChProposalReply ==
    ASSUME NEW k \in Clients, NEW r \in Requests.RespondPayChProposal,
           RespondPayChProposal(k, r)
    PROVE  ReplyInv'
<1>1. "proposal" \in STRING /\ "" \in STRING
  BY TextsAssumption DEF Texts
<1>2. r.ProposalID = "proposal"
  BY DEF Requests
<1>3. "RespondPayChProposal" \in Failing
  BY DEF Failing, Methods, Requests
<1>4. Plain(NewAPIErrResourceNotFound("proposal", r.ProposalID))
  BY <1>1, <1>2, ResourceErrors
<1>5. Plain(NewAPIErrUserResponseTimedOut(1, 2))
  BY ResponseErrors
<1>6. [MsgSuccess |-> [OpenedPayChInfo |-> NoPayChInfo]] \in Service["RespondPayChProposal"].resp
  <2>1. NoPayChInfo \in PayChInfo
    <3>1. <<>> \in Seq(STRING) /\ <<>> \in Seq(BalInfoBal)
      OBVIOUS
    <3>2. [Currencies |-> <<>>, Parts |-> <<>>, Bals |-> <<>>] \in BalInfo
      BY <3>1 DEF BalInfo
    <3> QED
      BY <1>1, <3>2 DEF NoPayChInfo, PayChInfo
  <2> QED
    BY <2>1, ServiceResps DEF RespondPayChProposalResp, RespondPayChProposalResp_MsgSuccess
<1>7. CASE Proposes(k, "RespondPayChProposal", r)
  BY <1>7, NothingSent DEF RespondPayChProposal, CallsSession, Proposes, Ready
<1> QED
  BY <1>3, <1>4, <1>5, <1>6, <1>7, NoInfoErrors, PlainRefusal, SuccessReply
     DEF RespondPayChProposal

LEMMA CallReplies ==
    ASSUME StateInv, NEW k \in Clients, ProposalFails(k) \/ ChOpened(k) PROVE ReplyInv'
<1> DEFINE m == call[k].method
<1>1. call[k] # Idle
  BY DEF ProposalFails, ChOpened, At
<1>2. m \in {"OpenPayCh", "RespondPayChProposal"}
  BY <1>1, CallSession DEF Calls
<1> HIDE DEF m
<1>3. m \in Failing /\ m # "CloseSession" /\ m # "OpenSession"
  BY <1>2 DEF Failing, Methods, Requests
<1>4. CASE ProposalFails(k)
  <2>1. "Fund" \in STRING /\ "peer" \in STRING
    BY TextsAssumption DEF Texts
  <2>2. /\ \A err \in ChainErrs("Fund") : Plain(err)
        /\ \A err \in PeerErrs("peer") : Plain(err)
    BY <2>1, RemoteErrors
  <2>3. Plain(NewAPIErrPeerNotFunded("peer"))
    BY <2>1, TextErrors
  <2>4. \E err : Plain(err) /\ Fail(m, call[k].req, err)
    BY <1>4, <2>2, <2>3, NoInfoErrors DEF ProposalFails, m
  <2> QED
    BY <1>3, <2>4, PlainReply
<1>5. CASE ChOpened(k)
  <2> DEFINE msg == [OpenedPayChInfo |-> toGrpcPayChInfo(call[k].ch)]
  <2>1. call[k].stage = "info" /\ Succeed(m, call[k].req, msg)
    BY <1>5 DEF ChOpened, At, m
  <2>2. call[k].ch \in ChIDs
    BY <1>1, <2>1 DEF StateInv, CoreInv, StageInv
  <2>3. toGrpcPayChInfo(call[k].ch) \in PayChInfo
    BY <2>2, InfoOfCh DEF StateInv
  <2>4. [MsgSuccess |-> msg] \in Service[m].resp
    BY <1>2, <2>3, ServiceResps DEF OpenPayChResp, OpenPayChResp_MsgSuccess,
       RespondPayChProposalResp, RespondPayChProposalResp_MsgSuccess
  <2> QED
    BY <1>3, <2>1, <2>4, SuccessReply
<1> QED
  BY <1>4, <1>5

LEMMA GetPayChsInfoReply ==
    ASSUME StateInv, NEW r \in Requests.GetPayChsInfo, GetPayChsInfo(r) PROVE ReplyInv'
<1> DEFINE msg == [OpenPayChsInfo |-> toGrpcPayChsInfo(Registered(r.SessionID))]
<1>1. toGrpcPayChsInfo(Registered(r.SessionID)) \in Seq(PayChInfo)
  BY ListedChs DEF StateInv, Registered
<1>2. [MsgSuccess |-> msg] \in Service["GetPayChsInfo"].resp
  BY <1>1, ServiceResps DEF GetPayChsInfoResp, GetPayChsInfoResp_MsgSuccess
<1> HIDE DEF msg
<1>3. CASE Succeed("GetPayChsInfo", r, msg)
  BY <1>2, <1>3, SuccessReply
<1>4. CASE last' = last
  BY <1>4, NothingSent DEF GetPayChsInfo, CallsSession, Ready
<1> QED
  BY <1>3, <1>4 DEF GetPayChsInfo, msg

\* Subscribing is answered by the notifications, or by the end of the stream.
LEMMA SubscribeReplies ==
    ASSUME (\E r : SubPayChProposals(r)) \/ (\E r : SubPayChUpdates(r)) PROVE ReplyInv'
<1>1. Ready
  BY DEF SubPayChProposals, SubPayChUpdates, CallsCh, CallsSession
<1>2. CASE last' = last
  BY <1>1, <1>2, NothingSent DEF Ready
<1>3. CASE \E m \in Streaming : \E r, err : Fail(m, r, err)
  BY <1>3, StatusReply
<1> QED
  BY <1>2, <1>3 DEF SubPayChProposals, SubPayChUpdates, Refuse, Streaming

LEMMA UnsubscribeReplies ==
    ASSUME \/ \E r \in Requests.UnsubPayChProposals : UnsubPayChProposals(r)
           \/ \E r \in Requests.UnsubPayChUpdates : UnsubPayChUpdates(r)
    PROVE  ReplyInv'
<1>1. "proposalsSub" \in STRING /\ "updatesSub" \in STRING
  BY TextsAssumption DEF Texts
<1>2. "UnsubPayChProposals" \in Failing /\ "UnsubPayChUpdates" \in Failing
  BY DEF Failing, Methods, Requests
<1>3. ASSUME NEW r \in Requests.UnsubPayChProposals, UnsubPayChProposals(r) PROVE ReplyInv'
  <2>1. r.SessionID \in STRING
    BY RequestSessions
  <2>2. Plain(NewAPIErrResourceNotFound("proposalsSub", r.SessionID))
    BY <1>1, <2>1, ResourceErrors
  <2>3. [MsgSuccess |-> [Success |-> TRUE]] \in Service["UnsubPayChProposals"].resp
    BY ServiceResps DEF UnsubPayChProposalsResp, UnsubPayChProposalsResp_MsgSuccess
  <2> QED
    BY <1>2, <1>3, <2>2, <2>3, NoInfoErrors, PlainRefusal, SuccessReply DEF UnsubPayChProposals
<1>4. ASSUME NEW r \in Requests.UnsubPayChUpdates, UnsubPayChUpdates(r) PROVE ReplyInv'
  <2>1. r.ChID \in STRING
    BY RequestChs
  <2>2. Plain(NewAPIErrResourceNotFound("updatesSub", r.ChID))
    BY <1>1, <2>1, ResourceErrors
  <2>3. [MsgSuccess |-> [Success |-> TRUE]] \in Service["UnsubPayChUpdates"].resp
    BY ServiceResps DEF UnsubPayChUpdatesResp, UnsubPayChUpdatesResp_MsgSuccess
  <2> QED
    BY <1>2, <1>4, <2>2, <2>3, NoInfoErrors, PlainRefusal, SuccessReply DEF UnsubPayChUpdates
<1> QED
  BY <1>3, <1>4

LEMMA SendPayChUpdateReply ==
    ASSUME StateInv, NEW r \in Requests.SendPayChUpdate,
           SendPayChUpdateRefused(r) \/ SendPayChUpdate(r)
    PROVE  ReplyInv'
<1>1. /\ "currency" \in STRING /\ "ETH" \in STRING /\ "amount" \in STRING /\ "1" \in STRING
      /\ "payee" \in STRING /\ "self" \in STRING /\ "peer" \in STRING
  BY TextsAssumption DEF Texts
<1>2. "SendPayChUpdate" \in Failing
  BY DEF Failing, Methods, Requests
<1>3. CASE SendPayChUpdateRefused(r)
  <2>1. Plain(NewAPIErrResourceNotFound("currency", "ETH"))
    BY <1>1, ResourceErrors
  <2>2. /\ Plain(NewAPIErrInvalidArgument("amount", "1"))
        /\ Plain(NewAPIErrInvalidArgument("payee", "self"))
    BY <1>1, TextErrors
  <2> QED
    BY <1>2, <1>3, <2>1, <2>2, PlainRefusal DEF SendPayChUpdateRefused
<1>4. CASE SendPayChUpdate(r)
  <2>1. \A err \in PeerErrs("peer") : Plain(err)
    BY <1>1, RemoteErrors
  <2>2. toGrpcPayChInfo(r.ChID) \in PayChInfo
    BY RequestChs, InfoOfCh DEF StateInv
  <2>3. [MsgSuccess |-> [UpdatedPayChInfo |-> toGrpcPayChInfo(r.ChID)]]
          \in Service["SendPayChUpdate"].resp
    BY <2>2, ServiceResps DEF SendPayChUpdateResp, SendPayChUpdateResp_MsgSuccess
  <2> QED
    BY <1>2, <1>4, <2>1, <2>3, NoInfoErrors, PlainRefusal, SuccessReply DEF SendPayChUpdate
<1> QED
  BY <1>3, <1>4

LEMMA RespondPayChUpdateReply ==
    ASSUME StateInv, NEW r \in Requests.RespondPayChUpdate, RespondPayChUpdate(r)
    PROVE  ReplyInv'
<1>1. "update" \in STRING /\ "Register" \in STRING
  BY TextsAssumption DEF Texts
<1>2. r.UpdateID = "update"
  BY DEF Requests
<1>3. "RespondPayChUpdate" \in Failing
  BY DEF Failing, Methods, Requests
<1>4. Plain(NewAPIErrResourceNotFound("update", r.UpdateID))
  BY <1>1, <1>2, ResourceErrors
<1>5. Plain(NewAPIErrUserResponseTimedOut(1, 2))
  BY ResponseErrors
<1>6. \A err \in ChainErrs("Register") : Plain(err)
  BY <1>1, RemoteErrors
<1>7. toGrpcPayChInfo(r.ChID) \in PayChInfo
  BY RequestChs, InfoOfCh DEF StateInv
<1>8. [MsgSuccess |-> [UpdatedPayChInfo |-> toGrpcPayChInfo(r.ChID)]]
        \in Service["RespondPayChUpdate"].resp
  BY <1>7, ServiceResps DEF RespondPayChUpdateResp, RespondPayChUpdateResp_MsgSuccess
<1>9. CASE \E E : (\A err \in E : Plain(err)) /\ Refuse("RespondPayChUpdate", r, E)
  BY <1>3, <1>9, PlainRefusal
<1>10. CASE \E err \in ChainErrs("Register") \cup {NewAPIErrUnknownInternal} :
               Fail("RespondPayChUpdate", r, err)
  BY <1>3, <1>6, <1>10, NoInfoErrors, PlainReply
<1>11. CASE Succeed("RespondPayChUpdate", r, [UpdatedPayChInfo |-> toGrpcPayChInfo(r.ChID)])
  BY <1>8, <1>11, SuccessReply
<1> QED
  <2>1. CASE Refuse("RespondPayChUpdate", r, {NewAPIErrFailedPreCondition})
    BY <1>9, <2>1, NoInfoErrors
  <2>2. CASE Refuse("RespondPayChUpdate", r,
               {NewAPIErrResourceNotFound("update", r.UpdateID),
                NewAPIErrUserResponseTimedOut(1, 2), NewAPIErrUnknownInternal})
    BY <1>4, <1>5, <1>9, <2>2, NoInfoErrors
  <2> QED
    BY <1>10, <1>11, <2>1, <2>2 DEF RespondPayChUpdate

LEMMA ChReplies ==
    ASSUME StateInv,
           \/ \E r \in Requests.GetPayChInfo : GetPayChInfo(r)
           \/ \E r \in Requests.ClosePayCh : ClosePayCh(r)
    PROVE  ReplyInv'
<1>1. ASSUME NEW r \in Requests.GetPayChInfo, GetPayChInfo(r) PROVE ReplyInv'
  <2>1. toGrpcPayChInfo(r.ChID) \in PayChInfo
    BY RequestChs, InfoOfCh DEF StateInv
  <2>2. [MsgSuccess |-> [PayChInfo |-> toGrpcPayChInfo(r.ChID)]] \in Service["GetPayChInfo"].resp
    BY <2>1, ServiceResps DEF GetPayChInfoResp, GetPayChInfoResp_MsgSuccess
  <2> QED
    BY <1>1, <2>2, SuccessReply DEF GetPayChInfo
<1>2. ASSUME NEW r \in Requests.ClosePayCh, ClosePayCh(r) PROVE ReplyInv'
  <2>1. "ClosePayCh" \in Failing
    BY DEF Failing, Methods, Requests
  <2>2. "Register" \in STRING
    BY TextsAssumption DEF Texts
  <2>3. \A err \in ChainErrs("Register") : Plain(err)
    BY <2>2, RemoteErrors
  <2>4. toGrpcPayChInfo(r.ChID) \in PayChInfo
    BY RequestChs, InfoOfCh DEF StateInv
  <2>5. [MsgSuccess |-> [ClosedPayChInfo |-> toGrpcPayChInfo(r.ChID)]]
          \in Service["ClosePayCh"].resp
    BY <2>4, ServiceResps DEF ClosePayChResp, ClosePayChResp_MsgSuccess
  <2>6. CASE \E err \in ChainErrs("Register") \cup {NewAPIErrUnknownInternal} :
               Fail("ClosePayCh", r, err)
    BY <2>1, <2>3, <2>6, NoInfoErrors, PlainReply
  <2>7. CASE Refuse("ClosePayCh", r, {NewAPIErrFailedPreCondition})
    BY <2>1, <2>7, NoInfoErrors, PlainRefusal
  <2>8. CASE Succeed("ClosePayCh", r, [ClosedPayChInfo |-> toGrpcPayChInfo(r.ChID)])
    BY <2>5, <2>8, SuccessReply
  <2> QED
    BY <1>2, <2>6, <2>7, <2>8 DEF ClosePayCh
<1> QED
  BY <1>1, <1>2

LEMMA UpdateNotifs ==
    ASSUME StateInv, NEW s, NEW c \in ChIDs, NEW type \in ChUpdateType, NEW expiry \in Int,
           NEW error \in MsgError \cup Empty,
           Send("SubPayChUpdates", [SessionID |-> s, ChID |-> c],
                ChUpdateNotif(c, type, expiry, error))
    PROVE  ReplyInv'
<1> DEFINE resp == ChUpdateNotif(c, type, expiry, error)
<1>1. "update" \in STRING
  BY TextsAssumption DEF Texts
<1>2. toGrpcPayChInfo(c) \in PayChInfo
  BY InfoOfCh DEF StateInv
<1>3. resp \in Service["SubPayChUpdates"].resp /\ "Error" \notin DOMAIN resp
  BY <1>1, <1>2, ServiceResps DEF ChUpdateNotif, SubPayChUpdatesResp, SubPayChUpdatesResp_Notify
<1> HIDE DEF resp
<1>4. "SubPayChUpdates" # "OpenSession"
  OBVIOUS
<1> QED
  BY <1>3, <1>4, GoodReply DEF resp

LEMMA NotificationReplies ==
    ASSUME StateInv, ChannelCloses \/ NotifyUpdate \/ NotifyProposal PROVE ReplyInv'
<1>1. CASE ChannelCloses
  <2>1. PICK s \in SessionIDs, c \in ChIDs,
             err \in ChainErrs("Withdraw") \cup {NewAPIErrUnknownInternal, Nil} :
          \/ last' = last
          \/ Send("SubPayChUpdates", [SessionID |-> s, ChID |-> c],
                  ChUpdateNotif(c, 2, 0, IF err = Nil THEN Nil ELSE toGrpcError(err)))
    BY <1>1 DEF ChannelCloses
  <2> DEFINE error == IF err = Nil THEN Nil ELSE toGrpcError(err)
  <2>2. "Withdraw" \in STRING
    BY TextsAssumption DEF Texts
  <2>3. err # Nil => Plain(err)
    BY <2>2, RemoteErrors, NoInfoErrors
  <2>4. error \in MsgError \cup Empty
    BY <2>3 DEF Plain, Converts, Empty
  <2> HIDE DEF error
  <2>5. CASE last' = last
    BY <1>1, <2>5, NothingSent DEF ChannelCloses, Ready
  <2>6. CASE Send("SubPayChUpdates", [SessionID |-> s, ChID |-> c], ChUpdateNotif(c, 2, 0, error))
    <3>1. 2 \in ChUpdateType /\ 0 \in Int
      BY DEF ChUpdateType
    <3> QED
      BY <2>4, <2>6, <3>1, UpdateNotifs
  <2> QED
    BY <2>1, <2>5, <2>6 DEF error
<1>2. CASE NotifyUpdate
  <2>1. Nil \in MsgError \cup Empty /\ {0, 1} \subseteq ChUpdateType /\ 1 \in Int
    BY DEF Empty, ChUpdateType
  <2> QED
    BY <1>2, <2>1, UpdateNotifs DEF NotifyUpdate
<1>3. CASE NotifyProposal
  <2>1. PICK s \in SessionIDs, a \in Aliases :
          Send("SubPayChProposals", [SessionID |-> s],
               [Notify |-> [ProposalID |-> "proposal", OpeningBalInfo |-> AnyBalInfo(a, "ETH"),
                            ChallengeDurSecs |-> 10, Expiry |-> 1]])
    BY <1>3 DEF NotifyProposal
  <2> DEFINE resp == [Notify |-> [ProposalID |-> "proposal",
                                  OpeningBalInfo |-> AnyBalInfo(a, "ETH"),
                                  ChallengeDurSecs |-> 10, Expiry |-> 1]]
  <2>2. "proposal" \in STRING /\ "ETH" \in STRING
    BY TextsAssumption DEF Texts
  <2>3. AnyBalInfo(a, "ETH") \in BalInfo
    BY <2>2, AnyBalInfoTyped DEF Aliases
  <2>4. resp \in Service["SubPayChProposals"].resp /\ "Error" \notin DOMAIN resp
    BY <2>2, <2>3, ServiceResps DEF SubPayChProposalsResp, SubPayChProposalsResp_Notify
  <2> HIDE DEF resp
  <2>5. "SubPayChProposals" # "OpenSession"
    OBVIOUS
  <2> QED
    BY <2>1, <2>4, <2>5, GoodReply DEF resp
<1> QED
  BY <1>1, <1>2, <1>3

\* Steps after which no message is on its way.
LEMMA SilentSteps ==
    ASSUME \/ PeerRegisters \/ Deliver \/ Stop
           \/ \E k \in Clients : ProposalSucceeds(k) \/ AddCh(k)
    PROVE  ReplyInv'
<1>1. last' = NoReply
  BY DEF PeerRegisters, Deliver, Stop, ProposalSucceeds, AddCh, At, Ready
<1> QED
  BY <1>1, NothingSent

LEMMA ReplyStep == StateInv /\ ReplyInv /\ [Next]_vars => ReplyInv'
<1> SUFFICES ASSUME StateInv, ReplyInv, [Next]_vars PROVE ReplyInv'
  OBVIOUS
<1>1. CASE UNCHANGED vars
  <2>1. UNCHANGED <<sess, registered, st, phase, parts, cur, last, told, owed>>
    BY <1>1 DEF vars, nodeVars, chVars, histVars
  <2>2. ErrorTellsInfo' /\ ToldIsFound'
    BY <2>1 DEF ReplyInv, ErrorTellsInfo, ToldIsFound, RefusedWith
  <2>3. ToldOpenIsRestored' /\ UnclosedChsTold'
    BY <2>1 DEF ReplyInv, ToldOpenIsRestored, UnclosedChsTold, Replied, RefusedWith, Registered
  <2> QED
    BY <2>2, <2>3 DEF ReplyInv
<1>2. CASE Next
  BY <1>2, NotFound, ConfigReplies, RegisterCurrencyReply, OpenSessionErrors, OpenSessionReply,
     PeerReplies, DeployAssetERC20Reply, OpenPayChReply, RespondPayChProposalReply, CallReplies,
     GetPayChsInfoReply, CloseSessionReply, SubscribeReplies, UnsubscribeReplies,
     SendPayChUpdateReply, RespondPayChUpdateReply, ChReplies, NotificationReplies, SilentSteps
     DEF Next
<1> QED
  BY <1>1, <1>2

LEMMA ReplyInvariant == Spec => []ReplyInv
<1>1. Init => ReplyInv
  BY NothingSent DEF Init
<1> QED
  BY <1>1, ReplyStep, StateInvariant, PTL DEF Spec

\* Whatever fails in whichever component, the client gets a message of the method
\* that it called, and an error has exactly the info that its code stands for.
THEOREM ErrorsTellInfo == Spec => []ErrorTellsInfo
<1>1. ReplyInv => ErrorTellsInfo
  BY DEF ReplyInv
<1> QED
  BY <1>1, ReplyInvariant, PTL

\* GetSession and GetCh find what an earlier reply named, however opening and
\* closing overlapped: nothing leaves the tables while the process lives.
THEOREM ToldFound == Spec => []ToldIsFound
<1>1. ReplyInv => ToldIsFound
  BY DEF ReplyInv
<1> QED
  BY <1>1, ReplyInvariant, PTL

\* OpenSession restores every channel that a client was told is open and nobody has
\* closed since, if its peer is in the file and its currency is registered.
THEOREM OwedRestored == Spec => []ToldOpenIsRestored
<1>1. ReplyInv => ToldOpenIsRestored
  BY DEF ReplyInv
<1> QED
  BY <1>1, ReplyInvariant, PTL

\* When Close refuses for an open session, the client learns of which channels, all
\* of them the session's and none of them settled.
THEOREM UnclosedTold == Spec => []UnclosedChsTold
<1>1. ReplyInv => UnclosedChsTold
  BY DEF ReplyInv
<1> QED
  BY <1>1, ReplyInvariant, PTL
=============================================================================
