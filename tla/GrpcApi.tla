------------------------------ MODULE GrpcApi ------------------------------
(***************************************************************************)
(* The calls of the gRPC API from the request to the reply: the handlers   *)
(* of api/grpc/server.go, the wrappers of app/payment, and what the node,  *)
(* the session and the channel do to the state that the API shows.         *)
(*                                                                         *)
(* A node with one configuration file for sessions, opened again and again *)
(* with that file, also after the process was stopped.  Sessions and       *)
(* channels are never taken out of their tables, so a handler's lookup of  *)
(* them and the call it is for are one step.  What Session, Channel, Node, *)
(* IDProvider and ChProposals say in detail is one step, too, with the     *)
(* errors it can return; only opening a channel, which other calls overlap *)
(* without waiting for it, has several.                                    *)
(*                                                                         *)
(* Balances and versions are left out (one value stands for all); so is    *)
(* the mutex of the node, each holder of which is one step.                *)
(***************************************************************************)
EXTENDS ApiErrors, SequencesExt

CONSTANTS
    Clients,       \* calls that open a channel at the same time
    SessionIDs,    \* strings
    ChIDs,         \* strings
    StoredPeers,   \* aliases in the file of the ID provider
    AddedPeers,    \* aliases that clients add
    MaxStops       \* bound: how often the process is stopped

ASSUME GrpcApiAssumption ==
    /\ SessionIDs \subseteq STRING
    /\ ChIDs \subseteq STRING /\ IsFiniteSet(ChIDs)
    /\ StoredPeers \subseteq STRING /\ AddedPeers \subseteq STRING
    /\ StoredPeers \cap AddedPeers = {}
    /\ MaxStops \in Nat

\* Texts that messages are filled with.
Texts == {"", "0", "1", "2", "10s", "ETH", "PRN", "Deploy", "Fund", "Register", "Withdraw",
          "addr", "adj", "alias", "amount", "asset", "chainURL", "channel", "commAddr",
          "configFile", "currency", "databaseDir", "eth", "host", "local", "mismatch", "no",
          "offChainAddress", "payee", "payment", "peer", "peerAlias", "peerID", "proposal",
          "proposalsSub", "self", "session", "session.yaml", "tcp", "token", "txid",
          "update", "updatesSub", "url", "v"}

\* The provers do not know that these are strings.
ASSUME TextsAssumption == Texts \subseteq STRING

VARIABLES
    sess,        \* node.sessions: "unused", "open", "closed"; "gone" when the
                 \* process that had it was stopped
    peers,       \* the aliases the session's ID provider knows
    registered,  \* the currency PRN is registered with the node
    listening,   \* a message bus listens at the address of the configuration
    dbOpen,      \* the database of the configuration is open
    st,          \* session.chs: "none", "open", "closed" (Channel.status)
    locked,      \* channels of a session whose mutex Close has kept
    stuck,       \* the mutex of the session is held for good
    subs,        \* subscriptions: <<s>> to proposals, <<s, c>> to updates
    phase,       \* go-perun's phase of the channel, persisted: "none",
                 \* "Acting", "Withdrawn", or "other"
    parts, cur,  \* of the channel, persisted: the peer's alias, the currency
    call,        \* the calls that open a channel
    last,        \* the message on its way to a client, if there is one
    down, stops, \* the process panicked; how often it was stopped
    told,        \* history: IDs in the replies of this process
    owed         \* history: channels that clients may expect to be restored

nodeVars == <<sess, peers, registered, listening, dbOpen>>
chVars   == <<st, locked, stuck, subs, phase, parts, cur>>
runVars  == <<down, stops>>
histVars == <<told, owed>>

vars == <<nodeVars, chVars, call, last, runVars, histVars>>

Aliases == StoredPeers \cup AddedPeers

\* The peer and the currency of a channel: what a client has added and what it has
\* registered are not combined.
Offers == (Aliases \X {"ETH"}) \cup (StoredPeers \X {"PRN"})

Idle == [method |-> "none"]

NoReply == [method |-> "none"]

----------------------------------------------------------------------------
(* Conversions. *)

AnyBalInfo(alias, currency) ==
    [Currencies |-> <<currency>>, Parts |-> <<"self", alias>>,
     Bals |-> <<[Bal |-> <<"1", "2">>]>>]

AnyPeerID(alias) ==
    [Alias |-> alias, OffChainAddress |-> "addr", CommAddress |-> "host",
     CommType |-> "tcp"]

toGrpcPayChInfo(c) ==
    [ChID |-> c, BalInfo |-> AnyBalInfo(parts[c], cur[c]), Version |-> "0"]

\* The zero value of a ChInfo.
NoPayChInfo == [ChID |-> "", Version |-> "",
                BalInfo |-> [Currencies |-> <<>>, Parts |-> <<>>, Bals |-> <<>>]]

toGrpcPayChsInfo(C) == SetToSeq({toGrpcPayChInfo(c) : c \in C})

\* The IDs in a list of channels.
ChIDsIn(infos) == {infos[i].ChID : i \in DOMAIN infos}

----------------------------------------------------------------------------
(* Requests.  A session ID may be one that does not exist yet. *)

SessionReq == {[SessionID |-> s] : s \in SessionIDs}

ChReq == {[SessionID |-> s, ChID |-> c] : s \in SessionIDs, c \in ChIDs}

Requests ==
    [GetConfig        |-> Empty, Time |-> Empty, Help |-> Empty,
     RegisterCurrency |-> {[TokenAddr |-> "token", AssetAddr |-> "asset"]},
     OpenSession      |-> {[ConfigFile |-> "session.yaml"]},
     AddPeerID        |-> {[SessionID |-> s,
                            PeerID |-> AnyPeerID(a)] :
                               s \in SessionIDs, a \in Aliases},
     GetPeerID        |-> {[SessionID |-> s, Alias |-> a] :
                               s \in SessionIDs, a \in Aliases},
     OpenPayCh        |-> {[SessionID |-> s, OpeningBalInfo |-> AnyBalInfo(o[1], o[2]),
                            ChallengeDurSecs |-> 10] : s \in SessionIDs, o \in Offers},
     GetPayChsInfo    |-> SessionReq,
     SubPayChProposals    |-> SessionReq,
     UnsubPayChProposals  |-> SessionReq,
     RespondPayChProposal |-> {[SessionID |-> s, ProposalID |-> "proposal",
                                Accept |-> b] : s \in SessionIDs, b \in BOOLEAN},
     CloseSession     |-> {[SessionID |-> s, Force |-> b] :
                               s \in SessionIDs, b \in BOOLEAN},
     DeployAssetERC20 |-> {[SessionID |-> s, TokenAddr |-> "token"] : s \in SessionIDs},
     SendPayChUpdate  |-> {[SessionID |-> s, ChID |-> c,
                            Payments |-> <<[Currency |-> "ETH", Payee |-> "self",
                                            Amount |-> "1"]>>] :
                               s \in SessionIDs, c \in ChIDs},
     SubPayChUpdates  |-> ChReq,
     UnsubPayChUpdates    |-> ChReq,
     RespondPayChUpdate   |-> {[SessionID |-> s, ChID |-> c, UpdateID |-> "update",
                                Accept |-> b] :
                               s \in SessionIDs, c \in ChIDs, b \in BOOLEAN},
     GetPayChInfo     |-> ChReq,
     ClosePayCh       |-> ChReq]

Methods == DOMAIN Requests

ASSUME RequestsTyped == \A m \in Methods : Requests[m] \subseteq Service[m].req

\* Calls answered with a stream: an error ends the stream with a status.
Streaming == {"SubPayChProposals", "SubPayChUpdates"}

NodeMethods == {"GetConfig", "Time", "Help", "RegisterCurrency", "OpenSession"}

ChMethods == {"SendPayChUpdate", "SubPayChUpdates", "UnsubPayChUpdates",
              "RespondPayChUpdate", "GetPayChInfo", "ClosePayCh"}

----------------------------------------------------------------------------
\* What an ID in a reply names: a session, or a channel of a session.
Named == {<<s>> : s \in SessionIDs} \cup (SessionIDs \X ChIDs)

\* A call that opens a channel: its request, where it is, and the channel, once
\* there is one.
Calls == [method : {"OpenPayCh", "RespondPayChProposal"},
          req : Requests.OpenPayCh \cup Requests.RespondPayChProposal,
          stage : {"propose", "add", "info"}, ch : ChIDs \cup {""}]

TypeOK ==
    /\ sess \in [SessionIDs -> {"unused", "open", "closed", "gone"}]
    /\ peers \in [SessionIDs -> SUBSET Aliases]
    /\ registered \in BOOLEAN /\ listening \in BOOLEAN /\ dbOpen \in BOOLEAN
    /\ st \in [SessionIDs -> [ChIDs -> {"none", "open", "closed"}]]
    /\ locked \in [SessionIDs -> SUBSET ChIDs] /\ stuck \in [SessionIDs -> BOOLEAN]
    /\ subs \subseteq Named
    /\ phase \in [ChIDs -> {"none", "Acting", "Withdrawn", "other"}]
    /\ parts \in [ChIDs -> Aliases \cup {""}] /\ cur \in [ChIDs -> {"", "ETH", "PRN"}]
    /\ call \in [Clients -> {Idle} \cup Calls]
    /\ down \in BOOLEAN /\ stops \in 0 .. MaxStops
    /\ told \subseteq Named /\ owed \subseteq ChIDs

Init ==
    /\ sess = [s \in SessionIDs |-> "unused"]
    /\ peers = [s \in SessionIDs |-> {}]
    /\ registered = FALSE
    /\ listening = FALSE /\ dbOpen = FALSE
    /\ st = [s \in SessionIDs |-> [c \in ChIDs |-> "none"]]
    /\ locked = [s \in SessionIDs |-> {}]
    /\ stuck = [s \in SessionIDs |-> FALSE]
    /\ subs = {}
    /\ phase = [c \in ChIDs |-> "none"]
    /\ parts = [c \in ChIDs |-> ""] /\ cur = [c \in ChIDs |-> ""]
    /\ call = [k \in Clients |-> Idle]
    /\ last = NoReply
    /\ down = FALSE /\ stops = 0
    /\ told = {} /\ owed = {}

\* The process runs, and no message is on its way to a client.
Ready == ~down /\ last = NoReply

\* Of the request only its session is kept.
Send(m, r, resp) ==
    last' = [method |-> m, resp |-> resp,
             session |-> IF m \in NodeMethods THEN "" ELSE r.SessionID]

Succeed(m, r, msg) == Send(m, r, [MsgSuccess |-> msg])

\* errResponse; a streaming handler returns the error to gRPC instead.
Fail(m, r, err) ==
    Send(m, r, IF m \in Streaming THEN [Status |-> "Unknown"]
                                  ELSE [Error |-> toGrpcError(err)])

\* Some error of the set E is returned, and nothing changes.
Refuse(m, r, E) ==
    /\ \E err \in E : Fail(m, r, err)
    /\ UNCHANGED <<nodeVars, chVars, call, runVars, histVars>>

\* handleChainError: the two errors of the chain.
ChainErrs(txType) ==
    {NewAPIErrTxTimedOut(txType, "txid", "10s"), NewAPIErrChainNotReachable("url")}

\* handleProposalError: the two errors of the peer.
PeerErrs(alias) ==
    {NewAPIErrPeerRequestTimedOut(alias, "10s"), NewAPIErrPeerRejected(alias, "no")}

Registered(s) == {c \in ChIDs : st[s][c] # "none"}

OpenChs(s) == {c \in ChIDs : st[s][c] = "open"}

HasSession(s) == sess[s] \in {"open", "closed"}

Closed(s) == sess[s] = "closed"

----------------------------------------------------------------------------
(* Finding the session and the channel. *)

\* node.GetSession finds nothing.
NoSession ==
    \E m \in Methods \ NodeMethods : \E r \in Requests[m] :
        /\ Ready /\ ~HasSession(r.SessionID)
        /\ Refuse(m, r, {NewAPIErrResourceNotFound("session", r.SessionID)})

\* session.GetCh, which takes the session's mutex, finds nothing.
NoChannel ==
    \E m \in ChMethods : \E r \in Requests[m] :
        /\ Ready /\ HasSession(r.SessionID) /\ ~stuck[r.SessionID]
        /\ r.ChID \notin Registered(r.SessionID)
        /\ Refuse(m, r, {NewAPIErrResourceNotFound("channel", r.ChID)})

\* A call of the session, which takes its mutex.
CallsSession(r) == Ready /\ HasSession(r.SessionID) /\ ~stuck[r.SessionID]

\* A call of the channel, which takes its mutex: Close may have kept it.
CallsCh(r) ==
    /\ CallsSession(r)
    /\ r.ChID \in Registered(r.SessionID)
    /\ r.ChID \notin locked[r.SessionID]

----------------------------------------------------------------------------
(* Calls of the node. *)

GetConfig(r) ==
    /\ Ready
    /\ Send("GetConfig", r,
            [ChainAddress |-> "url", Adjudicator |-> "adj", AssetETH |-> "eth",
             CommTypes |-> <<"tcp">>, IdProviderTypes |-> <<"local">>])
    /\ UNCHANGED <<nodeVars, chVars, call, runVars, histVars>>

Time(r) ==
    /\ Ready
    /\ Send("Time", r, [Time |-> 0])
    /\ UNCHANGED <<nodeVars, chVars, call, runVars, histVars>>

Help(r) ==
    /\ Ready
    /\ Send("Help", r, [Apis |-> <<"payment">>])
    /\ UNCHANGED <<nodeVars, chVars, call, runVars, histVars>>

\* A contract that is not what it should be is one of these errors.
InvalidContracts ==
    NewAPIErrInvalidContracts(<<[Name |-> "asset", Address |-> "asset",
                                 Error |-> "mismatch"]>>)

\* The process dies when the error cannot be converted.
RegisterCurrency(r) ==
    LET m == "RegisterCurrency" IN
    /\ Ready
    /\ \/ /\ ConversionPanics(InvalidContracts)
          /\ down' = TRUE
          /\ UNCHANGED <<nodeVars, chVars, call, last, stops, histVars>>
       \/ Refuse(m, r,
            {NewAPIErrInvalidArgument("asset", r.AssetAddr),
             NewAPIErrInvalidArgument("token", r.TokenAddr),
             NewAPIErrUnknownInternal})
       \/ /\ registered
          /\ Refuse(m, r, {NewAPIErrResourceExists("currency", "PRN")})
       \/ /\ ~registered
          /\ registered' = TRUE
          /\ Succeed(m, r, [Symbol |-> "PRN"])
          /\ UNCHANGED <<sess, peers, listening, dbOpen, chVars, call, runVars, histVars>>

\* handleRestoredCh: peers and currencies have to be known by now.
handleRestoredCh(c) ==
    /\ phase[c] = "Acting"
    /\ parts[c] \in StoredPeers
    /\ cur[c] = "ETH" \/ registered

\* session.New fails before it listens, or because something listens already.
OpenSessionRefused(r) ==
    /\ Ready
    /\ Refuse("OpenSession", r,
            {NewAPIErrInvalidArgument("configFile", r.ConfigFile),
             NewAPIErrInvalidConfig(IF listening THEN "commAddr" ELSE "chainURL", "v"),
             NewAPIErrUnknownInternal})

\* session.New fails when channels are restored: the database is in use, or a
\* peer cannot be reached.  The bus goes on listening, and the database stays open.
OpenSessionFailsLate(r) ==
    /\ Ready /\ ~listening
    /\ listening' = TRUE
    /\ dbOpen' \in {dbOpen, TRUE}
    /\ Fail("OpenSession", r, NewAPIErrInvalidConfig("databaseDir", "v"))
    /\ UNCHANGED <<sess, peers, registered, chVars, call, runVars, histVars>>

\* session.New succeeds and the session is entered into the map.
OpenSession(r) ==
    /\ Ready /\ ~listening /\ ~dbOpen
    /\ listening' = TRUE /\ dbOpen' = TRUE
    /\ \E s \in SessionIDs : sess[s] = "unused"
    /\ LET s == CHOOSE q \in SessionIDs : sess[q] = "unused"
           restored == {c \in ChIDs : handleRestoredCh(c)} IN
          /\ sess' = [sess EXCEPT ![s] = "open"]
          /\ peers' = [peers EXCEPT ![s] = StoredPeers]
          /\ st' = [st EXCEPT ![s] = [c \in ChIDs |->
                       IF c \in restored THEN "open" ELSE "none"]]
          /\ Succeed("OpenSession", r,
                     [SessionID |-> s, RestoredChs |-> toGrpcPayChsInfo(restored)])
          /\ told' = told \cup {<<s>>} \cup {<<s, c>> : c \in restored}
          /\ owed' = owed \cup restored
    /\ UNCHANGED <<registered, locked, stuck, subs, phase, parts, cur, call, runVars>>

----------------------------------------------------------------------------
(* Calls of a session. *)

AddPeerID(r) ==
    LET m == "AddPeerID" s == r.SessionID alias == r.PeerID.Alias IN
    /\ CallsSession(r)
    /\ \/ /\ Closed(s)
          /\ Refuse(m, r, {NewAPIErrFailedPreCondition})
       \/ /\ ~Closed(s) /\ alias \in peers[s]
          /\ Refuse(m, r, {NewAPIErrInvalidArgument("peerAlias", alias),
                           NewAPIErrResourceExists("peerID", alias)})
       \/ /\ ~Closed(s) /\ alias \notin peers[s]
          /\ Refuse(m, r, {NewAPIErrInvalidArgument("offChainAddress", "addr")})
       \/ /\ ~Closed(s) /\ alias \notin peers[s]
          /\ peers' = [peers EXCEPT ![s] = @ \cup {alias}]
          /\ Succeed(m, r, [Success |-> TRUE])
          /\ UNCHANGED <<sess, registered, listening, dbOpen, chVars, call, runVars,
                         histVars>>

GetPeerID(r) ==
    LET m == "GetPeerID" s == r.SessionID IN
    /\ CallsSession(r)
    /\ \/ /\ Closed(s)
          /\ Refuse(m, r, {NewAPIErrFailedPreCondition})
       \/ /\ ~Closed(s) /\ r.Alias \notin peers[s]
          /\ Refuse(m, r, {NewAPIErrResourceNotFound("peerID", r.Alias)})
       \/ /\ ~Closed(s) /\ r.Alias \in peers[s]
          /\ Succeed(m, r, [PeerID |-> AnyPeerID(r.Alias)])
          /\ UNCHANGED <<nodeVars, chVars, call, runVars, histVars>>

DeployAssetERC20(r) ==
    LET m == "DeployAssetERC20" IN
    /\ CallsSession(r)
    /\ \/ /\ Closed(r.SessionID)
          /\ Refuse(m, r, {NewAPIErrFailedPreCondition})
       \/ /\ ~Closed(r.SessionID)
          /\ Refuse(m, r, ChainErrs("Deploy") \cup
                {NewAPIErrInvalidArgument("token", r.TokenAddr), NewAPIErrUnknownInternal})
       \/ /\ ~Closed(r.SessionID)
          /\ Succeed(m, r, [AssetAddr |-> "asset"])
          /\ UNCHANGED <<nodeVars, chVars, call, runVars, histVars>>

\* Client k's call of an opener m has passed the checks.
Proposes(k, m, r) ==
    /\ call' = [call EXCEPT ![k] = [method |-> m, req |-> r, stage |-> "propose",
                                    ch |-> ""]]
    /\ UNCHANGED <<nodeVars, chVars, last, runVars, histVars>>

\* The checks of OpenCh, which reads isOpen without the mutex.
OpenPayCh(k, r) ==
    LET m == "OpenPayCh"
        s == r.SessionID
        alias == r.OpeningBalInfo.Parts[2]
        currency == r.OpeningBalInfo.Currencies[1]
        known == currency = "ETH" \/ registered IN
    /\ Ready /\ HasSession(s)
    /\ \/ /\ Closed(s)
          /\ Refuse(m, r, {NewAPIErrFailedPreCondition})
       \/ /\ ~Closed(s) /\ alias \notin peers[s]
          /\ Refuse(m, r, {NewAPIErrResourceNotFound("peerID", alias)})
       \/ /\ ~Closed(s) /\ alias \in peers[s] /\ ~known
          /\ Refuse(m, r, {NewAPIErrResourceNotFound("currency", currency)})
       \/ /\ ~Closed(s) /\ alias \in peers[s] /\ known
          /\ Refuse(m, r, {NewAPIErrInvalidArgument("peerAlias", alias),
                           NewAPIErrInvalidArgument("currency", currency),
                           NewAPIErrInvalidArgument("amount", "1"),
                           NewAPIErrUnknownInternal})
       \/ /\ ~Closed(s) /\ alias \in peers[s] /\ known
          /\ call[k] = Idle
          /\ Proposes(k, m, r)

\* A proposal of a peer the session knows.
RespondPayChProposal(k, r) ==
    LET m == "RespondPayChProposal" IN
    /\ CallsSession(r)
    /\ \/ /\ Closed(r.SessionID)
          /\ Refuse(m, r, {NewAPIErrFailedPreCondition})
       \/ /\ ~Closed(r.SessionID)
          /\ Refuse(m, r, {NewAPIErrResourceNotFound("proposal", r.ProposalID),
                           NewAPIErrUserResponseTimedOut(1, 2)})
       \/ /\ ~Closed(r.SessionID) /\ ~r.Accept
          /\ Refuse(m, r, {NewAPIErrUnknownInternal})
       \/ /\ ~Closed(r.SessionID) /\ ~r.Accept
          /\ Succeed(m, r, [OpenedPayChInfo |-> NoPayChInfo])
          /\ UNCHANGED <<nodeVars, chVars, call, runVars, histVars>>
       \/ /\ ~Closed(r.SessionID) /\ r.Accept
          /\ call[k] = Idle
          /\ Proposes(k, m, r)

\* The call of client k has come to stage g.
At(k, g) == Ready /\ call[k] # Idle /\ call[k].stage = g

\* ProposeChannel or Accept returns an error.
ProposalFails(k) ==
    LET m == call[k].method IN
    /\ At(k, "propose")
    /\ \E err \in ChainErrs("Fund")
                  \cup {NewAPIErrPeerNotFunded("peer"), NewAPIErrUnknownInternal}
                  \cup {e \in PeerErrs("peer") : m = "OpenPayCh"} :
          Fail(m, call[k].req, err)
    /\ call' = [call EXCEPT ![k] = Idle]
    /\ UNCHANGED <<nodeVars, chVars, runVars, histVars>>

\* The client of session s still writes to the database: it is open, or stopped
\* half way when it was closed.
Persists(s) == dbOpen /\ \A q \in SessionIDs \ {s} : sess[q] # "open"

\* ProposeChannel or Accept returns a channel, which go-perun has persisted.
ProposalSucceeds(k) ==
    \E c \in ChIDs, o \in Offers :
        LET r == call[k].req a == o[1] y == o[2] IN
        /\ At(k, "propose")
        /\ phase[c] = "none" /\ Persists(r.SessionID)
        /\ IF call[k].method = "OpenPayCh"
           THEN r.OpeningBalInfo = AnyBalInfo(a, y)
           ELSE a \in peers[r.SessionID] /\ (y = "ETH" \/ registered)
        /\ phase' = [phase EXCEPT ![c] = "Acting"]
        /\ parts' = [parts EXCEPT ![c] = a]
        /\ cur' = [cur EXCEPT ![c] = y]
        /\ call' = [call EXCEPT ![k].stage = "add", ![k].ch = c]
        /\ UNCHANGED <<nodeVars, st, locked, stuck, subs, last, runVars, histVars>>

\* Fault: a session that was closed meanwhile takes no channel.
PutIfOpen(s, c) ==
    st' = IF sess[s] = "open" THEN [st EXCEPT ![s][c] = "open"] ELSE st

Put(s, c) == st' = [st EXCEPT ![s][c] = "open"]

\* addCh, in OpenCh under the session's mutex, taken again for it, whatever
\* became of the session.
AddCh(k) ==
    LET s == call[k].req.SessionID IN
    /\ At(k, "add")
    /\ ~stuck[s]
    /\ Put(s, call[k].ch)
    /\ call' = [call EXCEPT ![k].stage = "info"]
    /\ UNCHANGED <<nodeVars, locked, stuck, subs, phase, parts, cur, last, runVars,
                   histVars>>

\* OpenCh ends with GetChInfo, which takes the channel's mutex, and
\* acceptChProposal with getChInfo, which does not.
ChOpened(k) ==
    LET s == call[k].req.SessionID
        c == call[k].ch IN
    /\ At(k, "info")
    /\ call[k].method = "OpenPayCh" => c \notin locked[s]
    /\ Succeed(call[k].method, call[k].req, [OpenedPayChInfo |-> toGrpcPayChInfo(c)])
    /\ call' = [call EXCEPT ![k] = Idle]
    /\ told' = told \cup {<<s, c>>}
    /\ owed' = owed \cup {d \in {c} : phase[d] = "Acting"}
    /\ UNCHANGED <<nodeVars, chVars, runVars>>

\* GetChsInfo waits for each channel with the session's mutex held.
GetPayChsInfo(r) ==
    LET s == r.SessionID IN
    /\ CallsSession(r)
    /\ \/ /\ locked[s] = {}
          /\ Succeed("GetPayChsInfo", r,
                     [OpenPayChsInfo |-> toGrpcPayChsInfo(Registered(s))])
          /\ UNCHANGED <<nodeVars, chVars, call, runVars, histVars>>
       \/ /\ locked[s] # {}
          /\ stuck' = [stuck EXCEPT ![s] = TRUE]
          /\ UNCHANGED <<nodeVars, st, locked, subs, phase, parts, cur, call, last,
                         runVars, histVars>>

\* Fault: Close does not look at the phases.
NoPhases(s) == {}

\* Neither of the two phases that Close expects.
UnexpectedPhaseChs(s) ==
    {c \in Registered(s) : phase[c] \notin {"Acting", "Withdrawn"}}

\* The channels that keep Close from closing the session.
Unclosed(s, force) ==
    IF UnexpectedPhaseChs(s) # {} THEN UnexpectedPhaseChs(s)
    ELSE IF force THEN {} ELSE OpenChs(s)

\* Close refuses, or keeps the channels locked and shuts the client down, which
\* may stop half way.  The subscriptions stay, but no call can tell any more.
CloseSession(r) ==
    LET m == "CloseSession"
        s == r.SessionID
        unclosed == toGrpcPayChsInfo(Unclosed(s, r.Force)) IN
    /\ CallsSession(r)
    /\ \/ /\ Closed(s)
          /\ Refuse(m, r, {NewAPIErrFailedPreCondition})
       \/ /\ ~Closed(s) /\ unclosed # <<>>
          /\ Refuse(m, r, {toPayChsCloseSessionErr(
                              NewAPIErrFailedPreConditionUnclosedChs(unclosed))})
       \/ /\ ~Closed(s) /\ unclosed = <<>>
          /\ sess' = [sess EXCEPT ![s] = "closed"]
          /\ locked' = [locked EXCEPT ![s] = Registered(s)]
          /\ subs' = subs \ ({<<s>>} \cup {<<s, c>> : c \in Registered(s)})
          /\ \/ /\ listening' = FALSE /\ dbOpen' = FALSE
                /\ Succeed(m, r, [OpenPayChsInfo |-> toGrpcPayChsInfo(OpenChs(s))])
                /\ owed' = owed \cup OpenChs(s)
             \/ /\ listening' \in BOOLEAN /\ dbOpen' = TRUE
                /\ Fail(m, r, NewAPIErrUnknownInternal)
                /\ UNCHANGED owed
          /\ UNCHANGED <<peers, registered, st, stuck, phase, parts, cur, call, runVars,
                         told>>

SubPayChProposals(r) ==
    LET m == "SubPayChProposals" s == r.SessionID IN
    /\ CallsSession(r)
    /\ \/ /\ Closed(s) \/ <<s>> \in subs
          /\ Refuse(m, r, {NewAPIErrFailedPreCondition})
       \/ /\ ~Closed(s) /\ <<s>> \notin subs
          /\ subs' = subs \cup {<<s>>}
          /\ UNCHANGED <<nodeVars, st, locked, stuck, phase, parts, cur, call, last,
                         runVars, histVars>>

UnsubPayChProposals(r) ==
    LET m == "UnsubPayChProposals" s == r.SessionID IN
    /\ CallsSession(r)
    /\ \/ /\ Closed(s)
          /\ Refuse(m, r, {NewAPIErrFailedPreCondition})
       \/ /\ ~Closed(s) /\ <<s>> \notin subs
          /\ Refuse(m, r, {NewAPIErrResourceNotFound("proposalsSub", s)})
       \/ /\ ~Closed(s) /\ <<s>> \in subs
          /\ subs' = subs \ {<<s>>}
          /\ Succeed(m, r, [Success |-> TRUE])
          /\ UNCHANGED <<nodeVars, st, locked, stuck, phase, parts, cur, call, runVars,
                         histVars>>

----------------------------------------------------------------------------
(* Calls of a channel. *)

ChClosed(r) == st[r.SessionID][r.ChID] = "closed"

\* The channel's phase becomes q, and with it what can be restored.
PhaseBecomes(c, q) ==
    /\ phase' = [phase EXCEPT ![c] = q]
    /\ owed' = owed \ {c}

\* The payments are checked before the mutex is taken.
SendPayChUpdateRefused(r) ==
    /\ CallsSession(r)
    /\ r.ChID \in Registered(r.SessionID)
    /\ Refuse("SendPayChUpdate", r,
          {NewAPIErrResourceNotFound("currency", "ETH"),
           NewAPIErrInvalidArgument("amount", "1"),
           NewAPIErrInvalidArgument("payee", "self")})

SendPayChUpdate(r) ==
    LET m == "SendPayChUpdate" IN
    /\ CallsCh(r)
    /\ \/ /\ ChClosed(r)
          /\ Refuse(m, r, {NewAPIErrFailedPreCondition})
       \/ /\ ~ChClosed(r)
          /\ Refuse(m, r, PeerErrs("peer") \cup {NewAPIErrUnknownInternal})
       \/ /\ ~ChClosed(r)
          /\ Succeed(m, r, [UpdatedPayChInfo |-> toGrpcPayChInfo(r.ChID)])
          /\ UNCHANGED <<nodeVars, chVars, call, runVars, histVars>>

SubPayChUpdates(r) ==
    LET m == "SubPayChUpdates" sub == <<r.SessionID, r.ChID>> IN
    /\ CallsCh(r)
    /\ \/ /\ ChClosed(r) \/ sub \in subs
          /\ Refuse(m, r, {NewAPIErrFailedPreCondition})
       \/ /\ ~ChClosed(r) /\ sub \notin subs
          /\ subs' = subs \cup {sub}
          /\ UNCHANGED <<nodeVars, st, locked, stuck, phase, parts, cur, call, last,
                         runVars, histVars>>

UnsubPayChUpdates(r) ==
    LET m == "UnsubPayChUpdates" sub == <<r.SessionID, r.ChID>> IN
    /\ CallsCh(r)
    /\ \/ /\ ChClosed(r)
          /\ Refuse(m, r, {NewAPIErrFailedPreCondition})
       \/ /\ ~ChClosed(r) /\ sub \notin subs
          /\ Refuse(m, r, {NewAPIErrResourceNotFound("updatesSub", r.ChID)})
       \/ /\ ~ChClosed(r) /\ sub \in subs
          /\ subs' = subs \ {sub}
          /\ Succeed(m, r, [Success |-> TRUE])
          /\ UNCHANGED <<nodeVars, st, locked, stuck, phase, parts, cur, call, runVars,
                         histVars>>

\* An accepted final update is registered on-chain, or that fails.
RespondPayChUpdate(r) ==
    LET m == "RespondPayChUpdate"
        updated == [UpdatedPayChInfo |-> toGrpcPayChInfo(r.ChID)] IN
    /\ CallsCh(r)
    /\ \/ /\ ChClosed(r)
          /\ Refuse(m, r, {NewAPIErrFailedPreCondition})
       \/ /\ ~ChClosed(r)
          /\ Refuse(m, r, {NewAPIErrResourceNotFound("update", r.UpdateID),
                           NewAPIErrUserResponseTimedOut(1, 2),
                           NewAPIErrUnknownInternal})
       \/ /\ ~ChClosed(r)
          /\ Succeed(m, r, updated)
          /\ UNCHANGED <<nodeVars, chVars, call, runVars, histVars>>
       \/ /\ ~ChClosed(r) /\ r.Accept /\ Persists(r.SessionID)
          /\ PhaseBecomes(r.ChID, "other")
          /\ \/ \E err \in ChainErrs("Register") \cup {NewAPIErrUnknownInternal} :
                   Fail(m, r, err)
             \/ Succeed(m, r, updated)
          /\ UNCHANGED <<nodeVars, st, locked, stuck, subs, parts, cur, call, runVars,
                         told>>

GetPayChInfo(r) ==
    /\ CallsCh(r)
    /\ Succeed("GetPayChInfo", r, [PayChInfo |-> toGrpcPayChInfo(r.ChID)])
    /\ UNCHANGED <<nodeVars, chVars, call, runVars, histVars>>

\* The finalizing update and the registration may each succeed or fail.
ClosePayCh(r) ==
    LET m == "ClosePayCh" IN
    /\ CallsCh(r)
    /\ \/ /\ ChClosed(r)
          /\ Refuse(m, r, {NewAPIErrFailedPreCondition})
       \/ /\ ~ChClosed(r)
          /\ \/ /\ Persists(r.SessionID)
                /\ PhaseBecomes(r.ChID, "other")
                /\ Succeed(m, r, [ClosedPayChInfo |-> toGrpcPayChInfo(r.ChID)])
             \/ /\ \/ Persists(r.SessionID) /\ PhaseBecomes(r.ChID, "other")
                   \/ UNCHANGED <<phase, owed>>
                /\ \E err \in ChainErrs("Register") \cup {NewAPIErrUnknownInternal} :
                      Fail(m, r, err)
          /\ UNCHANGED <<nodeVars, st, locked, stuck, subs, parts, cur, call, runVars,
                         told>>

----------------------------------------------------------------------------
(* What happens without a call. *)

\* The message arrives at the client.
Deliver ==
    /\ last # NoReply
    /\ last' = NoReply
    /\ UNCHANGED <<nodeVars, chVars, call, runVars, histVars>>

\* The peer registers a state; go-perun's watcher sees it.
PeerRegisters ==
    \E s \in SessionIDs, c \in ChIDs :
        /\ Ready
        /\ sess[s] = "open" /\ st[s][c] = "open" /\ phase[c] = "Acting"
        /\ PhaseBecomes(c, "other")
        /\ UNCHANGED <<nodeVars, st, locked, stuck, subs, parts, cur, call, last, runVars,
                       told>>

\* The notifier that SubPayChUpdates gave to the channel.
ChUpdateNotif(c, type, expiry, error) ==
    [Notify |-> [UpdateID |-> "update", ProposedPayChInfo |-> toGrpcPayChInfo(c),
                 Type |-> type, Expiry |-> expiry, Error |-> error]]

\* HandleAdjudicatorEvent: the channel is settled, or that fails, and closed.  The
\* subscriber is told and the stream ends.
ChannelCloses ==
    \E s \in SessionIDs, c \in ChIDs,
       err \in ChainErrs("Withdraw") \cup {NewAPIErrUnknownInternal, Nil} :
        /\ Ready
        /\ st[s][c] = "open" /\ c \notin locked[s] /\ phase[c] = "other"
        /\ Persists(s) \/ err # Nil
        /\ st' = [st EXCEPT ![s][c] = "closed"]
        /\ phase' = [phase EXCEPT ![c] = IF err = Nil THEN "Withdrawn" ELSE "other"]
        /\ subs' = subs \ {<<s, c>>}
        /\ IF <<s, c>> \in subs
           THEN Send("SubPayChUpdates", [SessionID |-> s, ChID |-> c],
                     ChUpdateNotif(c, 2, 0, IF err = Nil THEN Nil ELSE toGrpcError(err)))
           ELSE UNCHANGED last
        /\ UNCHANGED <<nodeVars, locked, stuck, parts, cur, call, runVars, histVars>>

\* A subscriber is notified of an update of the peer, regular or final.
NotifyUpdate ==
    \E s \in SessionIDs, c \in ChIDs, type \in {0, 1} :
        /\ Ready
        /\ <<s, c>> \in subs /\ sess[s] = "open"
        /\ Send("SubPayChUpdates", [SessionID |-> s, ChID |-> c],
                ChUpdateNotif(c, type, 1, Nil))
        /\ UNCHANGED <<nodeVars, chVars, call, runVars, histVars>>

\* A subscriber is notified of a proposal.
NotifyProposal ==
    \E s \in SessionIDs, a \in Aliases :
        /\ Ready
        /\ <<s>> \in subs /\ sess[s] = "open" /\ a \in peers[s]
        /\ Send("SubPayChProposals", [SessionID |-> s],
                [Notify |-> [ProposalID |-> "proposal",
                             OpeningBalInfo |-> AnyBalInfo(a, "ETH"),
                             ChallengeDurSecs |-> 10, Expiry |-> 1]])
        /\ UNCHANGED <<nodeVars, chVars, call, runVars, histVars>>

\* The process is stopped and started.  What go-perun persisted is still there,
\* and the file of the ID provider, which nobody has written.
Stop ==
    /\ last = NoReply
    /\ stops < MaxStops
    /\ stops' = stops + 1
    /\ down' = FALSE
    /\ sess' = [s \in SessionIDs |-> IF sess[s] = "unused" THEN "unused" ELSE "gone"]
    /\ peers' = [s \in SessionIDs |-> {}]
    /\ registered' = FALSE
    /\ listening' = FALSE /\ dbOpen' = FALSE
    /\ st' = [s \in SessionIDs |-> [c \in ChIDs |-> "none"]]
    /\ locked' = [s \in SessionIDs |-> {}]
    /\ stuck' = [s \in SessionIDs |-> FALSE]
    /\ subs' = {}
    /\ call' = [k \in Clients |-> Idle]
    /\ told' = {}
    /\ UNCHANGED <<phase, parts, cur, last, owed>>

Next ==
    \/ NoSession \/ NoChannel
    \/ \E r \in Requests.GetConfig : GetConfig(r)
    \/ \E r \in Requests.Time : Time(r)
    \/ \E r \in Requests.Help : Help(r)
    \/ \E r \in Requests.RegisterCurrency : RegisterCurrency(r)
    \/ \E r \in Requests.OpenSession :
          OpenSessionRefused(r) \/ OpenSessionFailsLate(r) \/ OpenSession(r)
    \/ \E r \in Requests.AddPeerID : AddPeerID(r)
    \/ \E r \in Requests.GetPeerID : GetPeerID(r)
    \/ \E r \in Requests.DeployAssetERC20 : DeployAssetERC20(r)
    \/ \E k \in Clients :
          \/ \E r \in Requests.OpenPayCh : OpenPayCh(k, r)
          \/ \E r \in Requests.RespondPayChProposal : RespondPayChProposal(k, r)
          \/ ProposalFails(k) \/ ProposalSucceeds(k) \/ AddCh(k) \/ ChOpened(k)
    \/ \E r \in Requests.GetPayChsInfo : GetPayChsInfo(r)
    \/ \E r \in Requests.CloseSession : CloseSession(r)
    \/ \E r \in Requests.SubPayChProposals : SubPayChProposals(r)
    \/ \E r \in Requests.UnsubPayChProposals : UnsubPayChProposals(r)
    \/ \E r \in Requests.SendPayChUpdate : SendPayChUpdateRefused(r) \/ SendPayChUpdate(r)
    \/ \E r \in Requests.SubPayChUpdates : SubPayChUpdates(r)
    \/ \E r \in Requests.UnsubPayChUpdates : UnsubPayChUpdates(r)
    \/ \E r \in Requests.RespondPayChUpdate : RespondPayChUpdate(r)
    \/ \E r \in Requests.GetPayChInfo : GetPayChInfo(r)
    \/ \E r \in Requests.ClosePayCh : ClosePayCh(r)
    \/ PeerRegisters \/ ChannelCloses \/ NotifyUpdate \/ NotifyProposal
    \/ Deliver \/ Stop

Spec == Init /\ [][Next]_vars

----------------------------------------------------------------------------
(* Properties. *)

\* The reply that was just sent, and whether it is an error with this code.
Replied(m) == last # NoReply /\ last.method = m

RefusedWith(code) ==
    last # NoReply /\ "Error" \in DOMAIN last.resp /\ last.resp.Error.Code = code

\* The additional info that goes with an error code, see ErrorCode in perun.go.
InfoOf(code) ==
    CASE code = ErrPeerRequestTimedOut  -> {"ErrInfoPeerRequestTimedOut"}
      [] code = ErrPeerRejected         -> {"ErrInfoPeerRejected"}
      [] code = ErrPeerNotFunded        -> {"ErrInfoPeerNotFunded"}
      [] code = ErrUserResponseTimedOut -> {"ErrInfoUserResponseTimedOut"}
      [] code = ErrResourceNotFound     -> {"ErrInfoResourceNotFound"}
      [] code = ErrResourceExists       -> {"ErrInfoResourceExists"}
      [] code = ErrInvalidArgument      -> {"ErrInfoInvalidArgument"}
      [] code = ErrInvalidConfig        -> {"ErrInfoInvalidConfig"}
      [] code = ErrInvalidContracts     -> {"ErrInfoInvalidContracts"}
      [] code = ErrTxTimedOut           -> {"ErrInfoTxTimedOut"}
      [] code = ErrChainNotReachable    -> {"ErrInfoChainNotReachable"}
      [] code = ErrUnknownInternal      -> {}

\* Whichever error of whichever component a handler returns, the client gets a
\* message of the method it called, and an error has exactly the additional info
\* its code stands for ("The keys in the additional field is fixed for each error
\* code", ErrorCode in perun.go): what a client reads after it looked at the code
\* is never nil.  Only a failed precondition comes with and without info.
ErrorTellsInfo ==
    last # NoReply =>
        /\ \/ last.resp \in Service[last.method].resp
           \/ last.method \in Streaming /\ last.resp = [Status |-> "Unknown"]
        /\ "Error" \in DOMAIN last.resp =>
              LET e == last.resp.Error IN
              IF e.Code = ErrFailedPreCondition
              THEN DOMAIN e.AddInfo \subseteq {"ErrInfoFailedPreCondUnclosedChs"}
              ELSE DOMAIN e.AddInfo = InfoOf(e.Code)

\* An ID that the node gave to a client stays good while the process lives: no
\* call is refused because its session or channel is unknown when an earlier reply
\* had named it, however opening and closing overlapped.  This goes for closed
\* channels, too, against the comment on Channel.close, "It also removes the channel
\* from the session" (channel.go:721): no code does, as ClosedChsRemoved in Session
\* shows.
ToldIsFound ==
    RefusedWith(ErrResourceNotFound) =>
        LET info == last.resp.Error.AddInfo.ErrInfoResourceNotFound IN
        /\ info.Type = "session" => <<info.Id>> \notin told
        /\ info.Type = "channel" => <<last.session, info.Id>> \notin told

\* A channel that a client was told is open, last when its session was closed by
\* force, is restored by the next session, also after the process was stopped,
\* if neither side has closed it since, the file of the ID provider has its peer
\* and its currency is registered.
ToldOpenIsRestored ==
    Replied("OpenSession") /\ "MsgSuccess" \in DOMAIN last.resp =>
        {c \in owed : parts[c] \in StoredPeers /\ (cur[c] = "ETH" \/ registered)}
            \subseteq ChIDsIn(last.resp.MsgSuccess.RestoredChs)

\* When CloseSession refuses to close an open session, the reply names the
\* channels it is for, all of which the session has and none is settled.
UnclosedChsTold ==
    Replied("CloseSession") /\ RefusedWith(ErrFailedPreCondition)
        /\ sess[last.session] = "open"
      => LET info == last.resp.Error.AddInfo IN
         /\ "ErrInfoFailedPreCondUnclosedChs" \in DOMAIN info
         /\ info.ErrInfoFailedPreCondUnclosedChs.Chs # <<>>
         /\ \A c \in ChIDsIn(info.ErrInfoFailedPreCondUnclosedChs.Chs) :
               c \in Registered(last.session) /\ phase[c] # "Withdrawn"

\* No error of the API brings the node down.  Not so: the one for an invalid
\* contract cannot be converted, see RegisterCurrency and the README.
NodeSurvives == ~down

\* The address of the configuration is in use only while a session is open, so
\* that a refused OpenSession can be tried again.  Not so, see OpenSessionFailsLate.
ListenerHasSession == listening => \E s \in SessionIDs : sess[s] = "open"

\* Whatever was open when the session was closed comes back, as the comment on
\* Close promises.  Not so for peers and currencies added by clients.
AllSessionDataPersisted ==
    Replied("OpenSession") /\ "MsgSuccess" \in DOMAIN last.resp =>
        owed \subseteq ChIDsIn(last.resp.MsgSuccess.RestoredChs)
=============================================================================
