---------------------------- MODULE ChannelApi ----------------------------
(***************************************************************************)
(* What a channel promises its user, without mutexes, goroutines, peer or  *)
(* chain: the ChAPI interface of perun.go and the notifications it sends.  *)
(* While it is open the state of the channel moves on one version at a     *)
(* time, until it is final; it is closed once; and a subscription that is  *)
(* there at that moment ends with the one Closed notification.  No call is *)
(* owed an effect: each of them may return an error.                       *)
(***************************************************************************)
EXTENDS Naturals

VARIABLES
    ver, final,   \* the state in ChInfo
    life,         \* "open" or "closed"
    subscribed,   \* a ChUpdateNotifier is set
    told          \* number of notifications of type ChUpdateTypeClosed

apiVars == <<ver, final, life, subscribed, told>>

Init ==
    /\ ver = 0 /\ final = FALSE
    /\ life = "open" /\ subscribed = FALSE /\ told = 0

\* SendChUpdate, RespondChUpdate or Close, agreed to by both participants.
Advance ==
    /\ life = "open" /\ ~final
    /\ ver' = ver + 1
    /\ final' \in BOOLEAN
    /\ UNCHANGED <<life, subscribed, told>>

\* SubChUpdates and UnsubChUpdates.
Subscribe ==
    /\ life = "open" /\ ~subscribed
    /\ subscribed' = TRUE
    /\ UNCHANGED <<ver, final, life, told>>

Unsubscribe ==
    /\ life = "open" /\ subscribed
    /\ subscribed' = FALSE
    /\ UNCHANGED <<ver, final, life, told>>

\* The channel is settled, or settling was tried, and closed.
CloseChannel ==
    /\ life = "open"
    /\ life' = "closed"
    /\ UNCHANGED <<ver, final, subscribed, told>>

\* The Closed notification: no update and no subscription comes after it.
TellClosed ==
    /\ life = "closed" /\ subscribed /\ told = 0
    /\ subscribed' = FALSE /\ told' = 1
    /\ UNCHANGED <<ver, final, life>>

Next == Advance \/ Subscribe \/ Unsubscribe \/ CloseChannel \/ TellClosed

Spec == Init /\ [][Next]_apiVars
============================================================================
