-------------------------------- MODULE Cli --------------------------------
(***************************************************************************)
(* The command line client, cmd/perunnodecli: a shell that runs one        *)
(* command at a time, a goroutine per subscription that handles its        *)
(* notifications, and the global tables that all of them read and write    *)
(* without a mutex, one statement after the other.                         *)
(*                                                                         *)
(* Channels and opening requests have aliases made of a counter and the    *)
(* peer's alias; with one peer the counter is left.  The ID of an update   *)
(* is its channel and version.  Left out are openChannelsRevMap, which     *)
(* only texts are made of, channelNotifList, which is kept by the same     *)
(* statements as openChannelsList, and the commands that change nothing.   *)
(* The node is external: it offers what api/grpc/server.go does for one    *)
(* configuration file.                                                     *)
(***************************************************************************)
EXTENDS Integers, SequencesExt

CONSTANTS
    ChIDs,        \* the channels; the ID of a channel stands for its proposal, too
    Offered,      \* those that the peer may propose, if the user does not
    MaxUpdates,   \* bound: updates the peers propose
    MaxChVersion,   \* bound: version of a channel
    MaxSubs,      \* bound: subscriptions to updates
    MaxSessions   \* bound: sessions that are opened

ASSUME CliAssumption ==
    /\ IsFiniteSet(ChIDs) /\ Offered \subseteq ChIDs
    /\ MaxUpdates \in Nat /\ MaxChVersion \in Nat
    /\ MaxSubs \in Nat /\ MaxSessions \in Nat

VARIABLES
    connected,    \* client # nil
    openChannelsCounter, openChannelsMap, openChannelsList,
    channelNotifCounter, channelNotifMap,

    cmd,          \* the command that the shell is in
    handlers,     \* paymentNotifHandler goroutines, one per subscription
    requests,     \* notifications that no channelNotifHandler has read yet
    crashed,      \* a goroutine has panicked
    node,         \* external: the session that is open (0: none), the state and
                  \* version of the channels, updates and proposals to respond to,
                  \* the streams, the updates of channels without one
    sent,         \* number of updates that peers have proposed
    shown,        \* history: IDs of updates that were shown to the user
    accepted      \* history: IDs that the node accepted for the user

openChannelVars == <<openChannelsCounter, openChannelsMap, openChannelsList>>
notifVars == <<channelNotifCounter, channelNotifMap>>
tables == <<openChannelVars, notifVars>>
outside == <<node, sent>>
hist == <<shown, accepted>>

cliVars == <<connected, tables, cmd, handlers, requests, crashed, outside, hist>>

Idle == [fn |-> "none"]

EmptyMap == [a \in {} |-> 0]

UpdateIDs == ChIDs \X Nat
NoUpdate == <<>>     \* latestPaymentNotifID = ""
NoAlias == 0         \* the empty string in a list of aliases

\* What arrives on a stream: an update, or that the channel is closed, with or
\* without an error.
UpdateMsg(u) == [type |-> "update", id |-> u]
ClosedMsg(error) == [type |-> "closed", error |-> error]

Messages == [type : {"update"}, id : UpdateIDs] \cup [type : {"closed"}, error : BOOLEAN]

Entry == [id : ChIDs, latest : UpdateIDs \cup {NoUpdate}]

\* A handler: the alias and the ID it was started with, what is on its stream,
\* the statement it has come to, the index that removeOpenChannelID found.
Stages == {"recv", "store", "swap", "cut", "ended"}
Handler == [alias : Nat, id : ChIDs, inbox : Seq(Messages), stage : Stages, idx : Nat]

Commands ==
    {Idle} \cup [fn : {"sessionOpen"}, restored : Seq(ChIDs)]
    \cup [fn : {"sessionClose", "cut"}] \cup [fn : {"channelSend"}, id : ChIDs]
    \cup [fn : {"channelRespond"}, alias : Nat, id : ChIDs, accept : BOOLEAN]
    \cup [fn : {"channelClose", "paymentRespond"}, alias : Nat]
    \cup [fn : {"list"}, alias : Nat, restored : Seq(ChIDs), notif : Nat]
    \cup [fn : {"swap"}, idx : Nat]

NodeState ==
    [session : Nat, sessions : Nat, ch : [ChIDs -> {"new", "open", "closed"}],
     ver : [ChIDs -> Nat], pending : SUBSET UpdateIDs, proposed : SUBSET Offered,
     stream : [ChIDs -> Nat], cache : [ChIDs -> Seq(Messages)]]

CliTypeOK ==
    /\ connected \in BOOLEAN
    /\ openChannelsCounter \in Nat /\ openChannelsList \in Seq(Nat)
    /\ DOMAIN openChannelsMap \subseteq Nat
    /\ \A a \in DOMAIN openChannelsMap : openChannelsMap[a] \in Entry
    /\ channelNotifCounter \in Nat
    /\ DOMAIN channelNotifMap \subseteq Nat
    /\ \A a \in DOMAIN channelNotifMap : channelNotifMap[a] \in Offered
    /\ cmd \in Commands
    /\ handlers \in Seq(Handler)
    /\ requests \in Seq(Offered)
    /\ crashed \in BOOLEAN
    /\ node \in NodeState
    /\ sent \in Nat /\ shown \subseteq UpdateIDs /\ accepted \subseteq UpdateIDs

With(f, a, v) == [b \in DOMAIN f \cup {a} |-> IF b = a THEN v ELSE f[b]]
Without(f, a) == [b \in DOMAIN f \ {a} |-> f[b]]

CliInit ==
    /\ connected = FALSE
    /\ openChannelsCounter = 0 /\ openChannelsMap = EmptyMap /\ openChannelsList = <<>>
    /\ channelNotifCounter = 0 /\ channelNotifMap = EmptyMap
    /\ cmd = Idle
    /\ handlers = <<>> /\ requests = <<>>
    /\ crashed = FALSE
    /\ node = [session |-> 0, sessions |-> 0, ch |-> [c \in ChIDs |-> "new"],
               ver |-> [c \in ChIDs |-> 0], pending |-> {}, proposed |-> {},
               stream |-> [c \in ChIDs |-> 0], cache |-> [c \in ChIDs |-> <<>>]]
    /\ sent = 0
    /\ shown = {} /\ accepted = {}

Runs == connected /\ ~crashed

----------------------------------------------------------------------------
(* The tables. *)

\* The orders in which the goroutines of the node may send what it has cached.
Orders(s) ==
    {[i \in DOMAIN s |-> s[p[i]]] :
        p \in {q \in [DOMAIN s -> DOMAIN s] :
                  \A i, j \in DOMAIN s : q[i] = q[j] => i = j}}

\* paymentSub.  The call returns before the node has looked at it; a node that
\* refuses ends the stream, and the handler returns.  A node that does not sends
\* what has arrived without a subscriber.
Subscribe(c, alias) ==
    IF node.ch[c] = "open" /\ node.stream[c] = 0 /\ node.session # 0
    THEN /\ Len(handlers) < MaxSubs
         /\ node' = [node EXCEPT !.stream[c] = Len(handlers) + 1, !.cache[c] = <<>>]
         /\ \E inbox \in Orders(node.cache[c]) :
               handlers' = Append(handlers, [alias |-> alias, id |-> c, inbox |-> inbox,
                                             stage |-> "recv", idx |-> 0])
    ELSE UNCHANGED <<node, handlers>>

\* addOpenChannelID up to the map; the shell goes on with the list, the channels
\* that are still to be entered and the request that is to be removed.
addOpenChannelID(c, restored, notif) ==
    LET alias == openChannelsCounter + 1 IN
    /\ openChannelsCounter' = alias
    /\ openChannelsMap' = With(openChannelsMap, alias, [id |-> c, latest |-> NoUpdate])
    /\ cmd' = [fn |-> "list", alias |-> alias, restored |-> restored, notif |-> notif]
    /\ UNCHANGED openChannelsList

\* removeOpenChannelID up to the end of its loop: the index it found, or 0.
IndexOf(list, alias) ==
    LET first == {i \in DOMAIN list :
                     /\ list[i] = alias
                     /\ \A j \in DOMAIN list : list[j] = alias => i <= j} IN
    IF first = {} THEN 0 ELSE CHOOSE i \in first : TRUE

removeOpenChannelID(alias) ==
    /\ openChannelsMap' = Without(openChannelsMap, alias)
    /\ UNCHANGED <<openChannelsCounter, openChannelsList>>

\* The last alias takes the place of the one that is removed, and is blanked.  An
\* index that the list does not have any more is a panic.
SwapAlias(idx) ==
    /\ IF idx \in DOMAIN openChannelsList
       THEN /\ openChannelsList' =
                  [j \in DOMAIN openChannelsList |->
                     IF j = Len(openChannelsList) THEN NoAlias
                     ELSE IF j = idx THEN openChannelsList[Len(openChannelsList)]
                     ELSE openChannelsList[j]]
            /\ UNCHANGED crashed
       ELSE crashed' = TRUE /\ UNCHANGED openChannelsList
    /\ UNCHANGED <<openChannelsCounter, openChannelsMap>>

\* The list loses its last element, whichever that is by now.
CutLast ==
    /\ IF openChannelsList # <<>>
       THEN openChannelsList' = Front(openChannelsList) /\ UNCHANGED crashed
       ELSE crashed' = TRUE /\ UNCHANGED openChannelsList
    /\ UNCHANGED <<openChannelsCounter, openChannelsMap>>

addChannelNotif(p) ==
    /\ channelNotifCounter' = channelNotifCounter + 1
    /\ channelNotifMap' = With(channelNotifMap, channelNotifCounter + 1, p)

removeChannelNotif(alias) ==
    /\ channelNotifMap' = Without(channelNotifMap, alias)
    /\ UNCHANGED channelNotifCounter

\* One step: what a goroutine writes between its statements is overwritten, and
\* an index it has found is out of range afterwards either way.
resetLocalCache ==
    /\ channelNotifCounter' = 0 /\ channelNotifMap' = EmptyMap
    /\ openChannelsCounter' = 0 /\ openChannelsMap' = EmptyMap /\ openChannelsList' = <<>>

----------------------------------------------------------------------------
(* The shell: a command reads the tables and sends its request, which the  *)
(* node serves, and goes on with the reply when the goroutines may have    *)
(* worked.  A command that fails and leaves all as it was is no step.      *)

\* The request of the command c is sent; the node is n when it has served it.
Request(c, n) ==
    /\ Runs /\ cmd = Idle /\ node.session # 0
    /\ cmd' = c
    /\ node' = n
    /\ UNCHANGED <<connected, tables, handlers, requests, crashed, sent, shown>>

\* The command fn has got the reply.
Replied(fn) == Runs /\ cmd.fn = fn

\* nodeConnectFn: the client is set, whether or not the node answers.
nodeConnectFn ==
    /\ ~connected
    /\ connected' = TRUE
    /\ UNCHANGED <<tables, cmd, handlers, requests, crashed, outside, hist>>

\* The node refuses a second session with the same file, and restores channels in
\* any order.
sessionOpenFn ==
    /\ Runs /\ cmd = Idle
    /\ node.session = 0 /\ node.sessions < MaxSessions
    /\ \E restored \in SetToSeqs({c \in ChIDs : node.ch[c] = "open"}) :
          cmd' = [fn |-> "sessionOpen", restored |-> restored]
    /\ node' = [node EXCEPT !.session = node.sessions + 1, !.sessions = @ + 1]
    /\ UNCHANGED <<connected, tables, handlers, requests, crashed, sent, hist>>

\* The next restored channel is entered; the handlers of those that were entered
\* run meanwhile.  At the end the client subscribes to proposals.
SessionOpened ==
    /\ Replied("sessionOpen")
    /\ IF cmd.restored # <<>>
       THEN addOpenChannelID(Head(cmd.restored), Tail(cmd.restored), 0)
       ELSE cmd' = Idle /\ UNCHANGED openChannelVars
    /\ UNCHANGED <<connected, notifVars, handlers, requests, crashed, outside, hist>>

\* The end of addOpenChannelID, paymentSub if the alias is still there, and the
\* deferred call of removeChannelNotif.
OpenChannelListed ==
    /\ Replied("list")
    /\ openChannelsList' = Append(openChannelsList, cmd.alias)
    /\ IF cmd.alias \in DOMAIN openChannelsMap
       THEN Subscribe(openChannelsMap[cmd.alias].id, cmd.alias)
       ELSE UNCHANGED <<node, handlers>>
    /\ removeChannelNotif(cmd.notif)
    /\ cmd' = IF cmd.restored = <<>> THEN Idle
              ELSE [fn |-> "sessionOpen", restored |-> cmd.restored]
    /\ UNCHANGED <<connected, openChannelsCounter, openChannelsMap, requests, crashed,
                   sent, hist>>

sessionCloseFn ==
    \E force \in BOOLEAN :
        /\ force \/ \A c \in ChIDs : node.ch[c] # "open"
        /\ Request([fn |-> "sessionClose"],
                   [node EXCEPT !.session = 0, !.pending = {}, !.proposed = {},
                                !.stream = [c \in ChIDs |-> 0],
                                !.cache = [c \in ChIDs |-> <<>>]])
        /\ UNCHANGED accepted

SessionClosed ==
    /\ Replied("sessionClose")
    /\ cmd' = Idle
    /\ resetLocalCache
    /\ UNCHANGED <<connected, handlers, requests, crashed, outside, hist>>

channelSendFn ==
    \E c \in ChIDs :
        /\ node.ch[c] = "new" /\ c \notin node.proposed
        /\ Request([fn |-> "channelSend", id |-> c], [node EXCEPT !.ch[c] = "open"])
        /\ UNCHANGED accepted

ChannelOpened ==
    /\ Replied("channelSend")
    /\ addOpenChannelID(cmd.id, <<>>, 0)
    /\ UNCHANGED <<connected, notifVars, handlers, requests, crashed, outside, hist>>

\* channelAcceptFn and channelRejectFn.
channelRespondFn ==
    \E a \in DOMAIN channelNotifMap, accept \in BOOLEAN :
        LET c == channelNotifMap[a] IN
        /\ c \in node.proposed
        /\ Request([fn |-> "channelRespond", alias |-> a, id |-> c, accept |-> accept],
                   [node EXCEPT !.proposed = @ \ {c},
                                !.ch[c] = IF accept THEN "open" ELSE "closed"])
        /\ UNCHANGED accepted

\* An accepted channel is entered; the notification of a rejected one is removed.
RequestResponded ==
    /\ Replied("channelRespond")
    /\ IF cmd.accept
       THEN addOpenChannelID(cmd.id, <<>>, cmd.alias) /\ UNCHANGED notifVars
       ELSE /\ removeChannelNotif(cmd.alias)
            /\ cmd' = Idle /\ UNCHANGED openChannelVars
    /\ UNCHANGED <<connected, handlers, requests, crashed, outside, hist>>

\* The call fails; the notification is removed all the same.
ChannelRespondFails ==
    \E a \in DOMAIN channelNotifMap :
        /\ Runs /\ cmd = Idle
        /\ removeChannelNotif(a)
        /\ UNCHANGED <<connected, openChannelVars, cmd, handlers,
                       requests, crashed, outside, hist>>

\* The channel is registered; it is closed when that is concluded.
chCloseNSettleFn ==
    \E a \in DOMAIN openChannelsMap :
        /\ node.ch[openChannelsMap[a].id] = "open"
        /\ Request([fn |-> "channelClose", alias |-> a], node)
        /\ UNCHANGED accepted

\* removeOpenChannelID of the shell, in three steps.
ChannelClosed ==
    /\ Replied("channelClose")
    /\ removeOpenChannelID(cmd.alias)
    /\ LET idx == IndexOf(openChannelsList, cmd.alias) IN
       cmd' = IF idx = 0 THEN Idle ELSE [fn |-> "swap", idx |-> idx]
    /\ UNCHANGED <<connected, notifVars, handlers, requests, crashed, outside, hist>>

ShellSwaps ==
    /\ Replied("swap")
    /\ SwapAlias(cmd.idx)
    /\ cmd' = [fn |-> "cut"]
    /\ UNCHANGED <<connected, notifVars, handlers, requests, outside, hist>>

ShellCuts ==
    /\ Replied("cut")
    /\ CutLast
    /\ cmd' = Idle
    /\ UNCHANGED <<connected, notifVars, handlers, requests, outside, hist>>

paymentSubFn ==
    \E a \in DOMAIN openChannelsMap :
        /\ Runs /\ cmd = Idle
        /\ Subscribe(openChannelsMap[a].id, a)
        /\ UNCHANGED <<connected, tables, cmd, requests, crashed, sent, hist>>

paymentUnsubFn ==
    \E a \in DOMAIN openChannelsMap :
        LET c == openChannelsMap[a].id IN
        /\ Runs /\ cmd = Idle
        /\ node' = [node EXCEPT !.stream[c] = 0]
        /\ UNCHANGED <<connected, tables, cmd, handlers, requests, crashed, sent, hist>>

\* paymentAccept and paymentReject.  Without a notification they complain, and send
\* the request with an empty update ID all the same, which the node refuses, as it
\* does the ID of another channel.
paymentRespondFn ==
    \E a \in DOMAIN openChannelsMap, accept \in BOOLEAN :
        LET c == openChannelsMap[a].id
            u == openChannelsMap[a].latest IN
        /\ u = <<c, node.ver[c] + 1>> /\ u \in node.pending
        /\ accept => node.ver[c] < MaxChVersion
        /\ Request([fn |-> "paymentRespond", alias |-> a],
                   [node EXCEPT !.pending = @ \ {u},
                                !.ver[c] = IF accept THEN @ + 1 ELSE @])
        /\ accepted' = IF accept THEN accepted \cup {u} ELSE accepted

\* The entry, if it is still there, forgets its notification, also when that is a
\* newer one by now.
UpdateResponded ==
    /\ Replied("paymentRespond")
    /\ cmd' = Idle
    /\ openChannelsMap' = IF cmd.alias \in DOMAIN openChannelsMap
                          THEN [openChannelsMap EXCEPT ![cmd.alias].latest = NoUpdate]
                          ELSE openChannelsMap
    /\ UNCHANGED <<connected, openChannelsCounter, openChannelsList, notifVars,
                   handlers, requests, crashed, outside, hist>>

\* The command gets an error instead, which it prints.
CommandFails ==
    /\ Runs /\ cmd.fn \in {"channelSend", "channelClose", "paymentRespond"}
    /\ cmd' = Idle
    /\ UNCHANGED <<connected, tables, handlers, requests, crashed, outside, hist>>

----------------------------------------------------------------------------
(* The goroutines. *)

\* channelNotifHandler: the request is entered; the handler returns when it cannot
\* get the time.
channelNotifHandler ==
    /\ Runs /\ requests # <<>>
    /\ requests' = Tail(requests)
    /\ addChannelNotif(Head(requests))
    /\ UNCHANGED <<connected, openChannelVars, cmd, handlers, crashed, outside, hist>>

Msg(i) == Head(handlers[i].inbox)

Waits(i) == Runs /\ handlers[i].stage = "recv" /\ handlers[i].inbox # <<>>

\* paymentNotifHandler returns: sub.Recv or getNodeTime got an error.
HandlerEnds(i) ==
    /\ Runs /\ handlers[i].stage = "recv"
    /\ handlers' = [handlers EXCEPT ![i].stage = "ended", ![i].inbox = <<>>]
    /\ UNCHANGED <<connected, tables, cmd, requests, crashed, outside, hist>>

\* Fault: the ID is stored before the update is shown.
StoreFirst(i) == TRUE

\* Whether the update has been shown when its ID is stored.
ShownBefore(i) == handlers[i].stage = "store"

\* handleUpdateTypeOpenNotif and handleUpdateTypeFinalNotif, first half: the update
\* is shown next to the current state of the channel.
ShowUpdate(i) ==
    /\ Waits(i) /\ Msg(i).type = "update"
    /\ handlers[i].alias \in DOMAIN openChannelsMap /\ node.session # 0
    /\ shown' = shown \cup {Msg(i).id}
    /\ handlers' = [handlers EXCEPT ![i].stage = "store"]
    /\ UNCHANGED <<connected, tables, cmd, requests, crashed, outside, accepted>>

\* Without that state, because the alias is unknown or the call fails, they panic.
ShowUpdatePanics(i) ==
    /\ Waits(i) /\ Msg(i).type = "update"
    /\ crashed' = TRUE
    /\ UNCHANGED <<connected, tables, cmd, handlers, requests, outside, hist>>

\* Second half: its ID is stored.  The channel may have been removed meanwhile.
StoreUpdate(i) ==
    LET a == handlers[i].alias IN
    /\ Runs /\ handlers[i].inbox # <<>> /\ Msg(i).type = "update"
    /\ ShownBefore(i)
    /\ handlers' = [handlers EXCEPT ![i].stage = "recv", ![i].inbox = Tail(@)]
    /\ IF a \in DOMAIN openChannelsMap
       THEN /\ openChannelsMap' = [openChannelsMap EXCEPT ![a].latest = Msg(i).id]
            /\ UNCHANGED crashed
       ELSE crashed' = TRUE /\ UNCHANGED openChannelsMap
    /\ UNCHANGED <<connected, openChannelsCounter, openChannelsList, notifVars,
                   cmd, requests, outside, hist>>


RemoveClosed(i) == removeOpenChannelID(handlers[i].alias)

\* The channel is removed, whether or not its state could be settled: the three
\* steps of removeOpenChannelID in the handler.
handleUpdateTypeClosedNotif(i) ==
    /\ Waits(i) /\ Msg(i).type = "closed"
    /\ RemoveClosed(i)
    /\ LET idx == IndexOf(openChannelsList, handlers[i].alias) IN
       handlers' = [handlers EXCEPT ![i].inbox = Tail(@), ![i].idx = idx,
                                    ![i].stage = IF idx = 0 THEN "recv" ELSE "swap"]
    /\ UNCHANGED <<connected, notifVars, cmd, requests, crashed, outside, hist>>

HandlerSwaps(i) ==
    /\ Runs /\ handlers[i].stage = "swap"
    /\ SwapAlias(handlers[i].idx)
    /\ handlers' = [handlers EXCEPT ![i].stage = "cut", ![i].idx = 0]
    /\ UNCHANGED <<connected, notifVars, cmd, requests, outside, hist>>

HandlerCuts(i) ==
    /\ Runs /\ handlers[i].stage = "cut"
    /\ CutLast
    /\ handlers' = [handlers EXCEPT ![i].stage = "recv"]
    /\ UNCHANGED <<connected, notifVars, cmd, requests, outside, hist>>

----------------------------------------------------------------------------
(* The node and the peers. *)

\* A peer proposes an update, for the version that follows the current one; the
\* subscriber is notified, or the next one.
PeerUpdates ==
    \E c \in ChIDs :
        LET u == <<c, node.ver[c] + 1>> IN
        /\ Runs /\ node.session # 0 /\ node.ch[c] = "open" /\ sent < MaxUpdates
        /\ sent' = sent + 1
        /\ IF node.stream[c] \in DOMAIN handlers
           THEN /\ node' = [node EXCEPT !.pending = @ \cup {u}]
                /\ handlers' = [handlers EXCEPT ![node.stream[c]].inbox = Append(@, UpdateMsg(u))]
           ELSE /\ node' = [node EXCEPT !.pending = @ \cup {u},
                                        !.cache[c] = Append(@, UpdateMsg(u))]
                /\ UNCHANGED handlers
        /\ UNCHANGED <<connected, tables, cmd, requests, crashed, hist>>

\* A payment of the user is accepted by the peer.
PaymentMade ==
    \E c \in ChIDs :
        /\ Runs /\ node.session # 0 /\ node.ch[c] = "open" /\ node.ver[c] < MaxChVersion
        /\ node' = [node EXCEPT !.ver[c] = @ + 1]
        /\ UNCHANGED <<connected, tables, cmd, handlers, requests, crashed, sent, hist>>

\* A peer proposes a channel while the client is subscribed, which it is whenever
\* the user or a session that was opened or not closed has seen to it.
PeerOffers ==
    \E c \in Offered :
        /\ Runs /\ node.session # 0
        /\ node.ch[c] = "new" /\ c \notin node.proposed
        /\ node' = [node EXCEPT !.proposed = @ \cup {c}]
        /\ requests' = Append(requests, c)
        /\ UNCHANGED <<connected, tables, cmd, handlers, crashed, sent, hist>>

\* The channel is closed by either side; the subscriber is notified.
CloseAtNode ==
    \E c \in ChIDs, error \in BOOLEAN :
        /\ Runs /\ node.session # 0 /\ node.ch[c] = "open"
        /\ handlers' = IF node.stream[c] \notin DOMAIN handlers THEN handlers
                       ELSE [handlers EXCEPT ![node.stream[c]].inbox =
                                Append(@, ClosedMsg(error))]
        /\ node' = [node EXCEPT !.ch[c] = "closed", !.stream[c] = 0]
        /\ UNCHANGED <<connected, tables, cmd, requests, crashed, sent, hist>>

HandlerWorks(i) ==
    \/ ShowUpdate(i) \/ ShowUpdatePanics(i) \/ StoreUpdate(i)
    \/ handleUpdateTypeClosedNotif(i) \/ HandlerSwaps(i) \/ HandlerCuts(i)

HandlerStep(i) == HandlerWorks(i) \/ HandlerEnds(i)

Shell ==
    \/ nodeConnectFn
    \/ sessionOpenFn \/ SessionOpened \/ sessionCloseFn \/ SessionClosed
    \/ channelSendFn \/ ChannelOpened \/ OpenChannelListed
    \/ channelRespondFn \/ RequestResponded \/ ChannelRespondFails
    \/ chCloseNSettleFn \/ ChannelClosed \/ ShellSwaps \/ ShellCuts
    \/ paymentSubFn \/ paymentUnsubFn \/ paymentRespondFn \/ UpdateResponded
    \/ CommandFails

Node == PeerUpdates \/ PaymentMade \/ PeerOffers \/ CloseAtNode

CliNext ==
    \/ Shell \/ Node
    \/ channelNotifHandler
    \/ \E i \in 1 .. MaxSubs : i \in DOMAIN handlers /\ HandlerStep(i)

\* Goroutines that can go on do; the user and the node need not, and no stream has
\* to break.
CliFairness ==
    \A i \in 1 .. MaxSubs : WF_cliVars(i \in DOMAIN handlers /\ HandlerWorks(i))

CliSpec == CliInit /\ [][CliNext]_cliVars /\ CliFairness

----------------------------------------------------------------------------
(* Properties. *)

\* The client accepts no update ID that it has not shown, also when updates
\* overtake the command, arrive with a subscription, or aliases are given out
\* again.  Whether the update is the one that was shown is up to the node, which
\* may use an ID twice (UpdateIDsUnique in Channel).
AcceptedWasShown == accepted \subseteq shown


\* When the shell and the goroutines have come to an end, the list that commands
\* are completed from has the aliases of the map (channel.go:158, 169).  It
\* does not hold: a channel that is entered between the last two statements of a
\* removal is cut off the list, and the blank stays.
ListAgrees ==
    ~crashed /\ cmd = Idle
    /\ (\A i \in DOMAIN handlers : handlers[i].stage \in {"recv", "ended"}) =>
          ToSet(openChannelsList) = DOMAIN openChannelsMap

\* The client survives every notification.  Not so: one that arrives while the
\* user closes its channel finds no entry, see ShowUpdatePanics and StoreUpdate.
ClientSurvives == ~crashed

\* A channel leaves the table only when it is being closed.  Not so: aliases are
\* given out again after the session was closed, and a handler of the session
\* before may still hold one.
RemovedAreClosed ==
    [][\A c \in ChIDs :
          (\E a \in DOMAIN openChannelsMap : openChannelsMap[a].id = c)
          /\ (\A a \in DOMAIN openChannelsMap' : openChannelsMap'[a].id # c)
          => node.ch[c] = "closed" \/ cmd # Idle]_cliVars
=============================================================================
