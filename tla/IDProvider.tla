----------------------------- MODULE IDProvider -----------------------------
(***************************************************************************)
(* The local ID provider of a session (idprovider/local): the cache of     *)
(* peers, indexed by alias and by off-chain address, and the file it is    *)
(* read from and written to.                                               *)
(*                                                                         *)
(* An address has several spellings (upper or lower case, with or without  *)
(* 0x); ParseAddr accepts them all, and String gives the canonical one.    *)
(* The cache is indexed by the string the user gave.  An entry of the file *)
(* names its alias twice, as the key and in the entry, and nothing keeps   *)
(* the two the same.                                                       *)
(***************************************************************************)
CONSTANTS
    Aliases, OwnAlias,   \* aliases of peers; the one of the user, "self"
    Addrs, OwnAddr,      \* off-chain addresses; the user's own
    Spellings, Canonical,\* ways to write an address; the one String gives
    AddrStrings,         \* the strings that users write for addresses
    Garbage              \* a string ParseAddr refuses

ASSUME IDProviderAssumption ==
    /\ OwnAlias \in Aliases
    /\ OwnAddr \in Addrs
    /\ Canonical \in Spellings
    /\ AddrStrings \subseteq Addrs \X Spellings
    /\ \A addr \in Addrs : <<addr, Canonical>> \in AddrStrings
    /\ Garbage \notin AddrStrings

\* offChainAddr.String()
String(addr) == <<addr, Canonical>>

\* perun.PeerID: Alias and OffChainAddrString.
PeerID == [alias : Aliases, addr : AddrStrings]

\* The maps of peers, by key; a file may also have strings that are no address.
MapsTo(S) == UNION {[D -> S] : D \in SUBSET Aliases}
PeerMaps == MapsTo(PeerID)
PeerFiles == MapsTo([alias : Aliases, addr : AddrStrings \cup {Garbage}])

VARIABLES
    isOpen,          \* a session uses the provider
    peerIDsByAlias,  \* key -> peer
    aliasByAddr,     \* address string -> alias
    file,            \* contents of the ID provider file
    updating,        \* UpdateStorage has truncated the file
    refusedOpen,     \* NewIDprovider or initIDProvider returned an error
    deleted,         \* history: a peer was deleted in this session
    stored           \* history: the file is as UpdateStorage has written it

cacheVars == <<peerIDsByAlias, aliasByAddr>>
providerVars ==
    <<isOpen, cacheVars, file, updating, refusedOpen, deleted, stored>>

ProviderTypeOK ==
    /\ isOpen \in BOOLEAN
    /\ peerIDsByAlias \in PeerMaps
    /\ DOMAIN aliasByAddr \subseteq AddrStrings
    /\ \A s \in DOMAIN aliasByAddr : aliasByAddr[s] \in Aliases
    /\ file \in PeerFiles
    /\ updating \in BOOLEAN
    /\ refusedOpen \in BOOLEAN
    /\ deleted \in BOOLEAN
    /\ stored \in BOOLEAN

Empty == [a \in {} |-> Garbage]

\* Any file, as the user wrote it.
ProviderInit ==
    /\ isOpen = FALSE
    /\ peerIDsByAlias = Empty /\ aliasByAddr = Empty
    /\ file \in PeerFiles
    /\ updating = FALSE
    /\ refusedOpen = FALSE
    /\ deleted = FALSE
    /\ stored = FALSE

----------------------------------------------------------------------------
\* m with k mapped to v, as the assignment m[k] = v of a Go map.
Put(m, k, v) == [x \in DOMAIN m \cup {k} |-> IF x = k THEN v ELSE m[x]]

\* The indices newIDProviderCache can build: of the entries with the same
\* string, the one the loop over the map comes to last.  The index has the
\* alias of the entry, which need not be its key.
Indices(m) ==
    LET strings == {m[k].addr : k \in DOMAIN m}
    IN  {f \in [strings -> Aliases] :
           \A s \in strings : \E k \in DOMAIN m : m[k] = [alias |-> f[s], addr |-> s]}

\* newIDProviderCache returns the error of ParseAddr, or Write finds an entry
\* with the key of the user.
RefusedFile(m) ==
    \/ \E k \in DOMAIN m : m[k].addr = Garbage
    \/ OwnAlias \in DOMAIN m

\* ReadByOffChainAddr: the peer it returns, none if it finds no peer.
ReadByOffChainAddr(addr) ==
    {peerIDsByAlias[k] : k \in {b \in DOMAIN peerIDsByAlias :
        String(addr) \in DOMAIN aliasByAddr /\ aliasByAddr[String(addr)] = b}}

\* initIDProvider: the file is read, then the user is added, with the canonical
\* spelling that NewUnlockedUser gives to the user's address.
initIDProvider ==
    /\ ~isOpen
    /\ ~RefusedFile(file)
    /\ isOpen' = TRUE
    /\ peerIDsByAlias' =
          Put(file, OwnAlias, [alias |-> OwnAlias, addr |-> String(OwnAddr)])
    /\ \E f \in Indices(file) : aliasByAddr' = Put(f, String(OwnAddr), OwnAlias)
    /\ UNCHANGED <<file, updating, refusedOpen, deleted, stored>>

\* initIDProvider returns an error.
initIDProviderFails ==
    /\ ~isOpen
    /\ RefusedFile(file)
    /\ refusedOpen' = TRUE
    /\ UNCHANGED <<isOpen, cacheVars, file, updating, deleted, stored>>

\* Write returns an error.
RefusedWrite(alias, s) == alias \in DOMAIN peerIDsByAlias \/ s = Garbage

\* Fault: the address is not indexed.
StorePeerUnindexed(alias, s) ==
    /\ peerIDsByAlias' = Put(peerIDsByAlias, alias, [alias |-> alias, addr |-> s])
    /\ UNCHANGED aliasByAddr

\* The end of Write.
StorePeer(alias, s) ==
    /\ peerIDsByAlias' = Put(peerIDsByAlias, alias, [alias |-> alias, addr |-> s])
    /\ aliasByAddr' = Put(aliasByAddr, s, alias)

\* Session.AddPeerID, which calls Write with the alias of the peer as the key.
AddPeerID(alias, s) ==
    /\ isOpen
    /\ ~updating
    /\ ~RefusedWrite(alias, s)
    /\ StorePeer(alias, s)
    /\ UNCHANGED <<isOpen, file, updating, refusedOpen, deleted, stored>>

\* Delete leaves aliasByAddr as it is.
Delete(alias) ==
    /\ isOpen
    /\ ~updating
    /\ alias \in DOMAIN peerIDsByAlias
    /\ peerIDsByAlias' = [a \in DOMAIN peerIDsByAlias \ {alias} |->
                            peerIDsByAlias[a]]
    /\ deleted' = TRUE
    /\ UNCHANGED <<isOpen, aliasByAddr, file, updating, refusedOpen, stored>>

\* UpdateStorage: os.Create truncates the file.  The read lock it holds keeps
\* Write and Delete out.
UpdateStorage ==
    /\ isOpen
    /\ ~updating
    /\ updating' = TRUE
    /\ file' = Empty
    /\ stored' = FALSE
    /\ UNCHANGED <<isOpen, cacheVars, refusedOpen, deleted>>

\* The encoder has written all peers.
UpdateStorageReturns ==
    /\ updating
    /\ updating' = FALSE
    /\ file' = peerIDsByAlias
    /\ stored' = TRUE
    /\ UNCHANGED <<isOpen, cacheVars, refusedOpen, deleted>>

\* The node stops, wherever it is; the file remains.
Stop ==
    /\ isOpen
    /\ isOpen' = FALSE
    /\ updating' = FALSE
    /\ peerIDsByAlias' = Empty /\ aliasByAddr' = Empty
    /\ deleted' = FALSE
    /\ UNCHANGED <<file, refusedOpen, stored>>

ProviderNext ==
    \/ initIDProvider
    \/ initIDProviderFails
    \/ \E alias \in Aliases, s \in AddrStrings \cup {Garbage} :
          AddPeerID(alias, s)
    \/ \E alias \in Aliases : Delete(alias)
    \/ UpdateStorage
    \/ UpdateStorageReturns
    \/ Stop

ProviderSpec == ProviderInit /\ [][ProviderNext]_providerVars

----------------------------------------------------------------------------
(* Properties. *)

\* The entries with the string s have their alias as the key.
FiledByAlias(m, s) == \A k \in DOMAIN m : m[k].addr = s => m[k].alias = k

\* A peer whose address was entered in the canonical spelling is found by it,
\* under whichever alias, although several aliases may share the address: a
\* proposal of that peer is not rejected as one of an unknown peer.  For a
\* session without deletions, in whichever order the file was indexed, when the
\* entries with that address are filed under their alias; AnySpellingFound and
\* ReadIsCurrent say what does not hold otherwise.
KnownPeerFound ==
    ~deleted => \A k \in DOMAIN peerIDsByAlias :
        LET s == peerIDsByAlias[k].addr
        IN  s = String(s[1]) /\ FiledByAlias(peerIDsByAlias, s) =>
               \E p \in ReadByOffChainAddr(s[1]) : p.addr = s

\* The peer an address is resolved to has that address: the user is not told
\* that a proposal came from somebody else.  With the same premises.
ResolvedPeerHasAddr ==
    ~deleted => \A addr \in Addrs :
        FiledByAlias(peerIDsByAlias, String(addr)) =>
            \A p \in ReadByOffChainAddr(addr) : p.addr[1] = addr

\* The specification for a file that the code would write itself.
FiledSpec ==
    /\ ProviderSpec
    /\ \A k \in DOMAIN file : file[k].alias = k /\ file[k].addr # Garbage

\* Every peer can be looked up by its address, as it can by its alias
\* (idprovider/local/doc.go:20-22).  It does not hold: the index has the string
\* the peer was entered with, the lookup uses the canonical spelling.
AnySpellingFound ==
    ~deleted =>
        \A k \in DOMAIN peerIDsByAlias :
            ReadByOffChainAddr(peerIDsByAlias[k].addr[1]) # {}

\* The lookup by an address returns a peer with that address
\* (idprovider/local/cache.go:70).  It does not hold after a deletion: the alias
\* stays in the index, and may be given to another peer.
ReadIsCurrent ==
    \A addr \in Addrs : \A p \in ReadByOffChainAddr(addr) : p.addr[1] = addr

\* A session can be opened with the file that UpdateStorage has written, which
\* is how a node is normally shut down (idprovider/local/doc.go:27-29).  It does
\* not hold: the file then has the user's own entry, which Write refuses.
StoredFileOpens ==
    [][stored => ~initIDProviderFails]_providerVars
=============================================================================
