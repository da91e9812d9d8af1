SPECIFICATION Spec
CONSTANTS
    Self = self
    Peer = peer
    Stranger = stranger
    Registered = {ETH, PRN}
    Unregistered = XYZ
    OpeningAmounts = {1, 2, 5}
    PaidAmounts = {0, 2, 4}
    Fine = 2
    Coarse = 1
    MaxParts = 2
    MaxPayments = 2
INVARIANTS
    FundsConserved
PROPERTIES
    OpensAsAsked
    PayeeGains
CHECK_DEADLOCK FALSE
