SPECIFICATION ProviderSpec
CONSTANTS
    alice = alice
    bob = bob
    x = x
    lower = lower
    Aliases = {self, alice, bob}
    OwnAlias = self
    Addrs = {own, x}
    OwnAddr = own
    Spellings = {checksum, lower}
    Canonical = checksum
    AddrStrings <- MCAddrStrings
    Garbage = Garbage
SYMMETRY Symmetry
INVARIANTS
    KnownPeerFound
CHECK_DEADLOCK FALSE
