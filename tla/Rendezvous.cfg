CONSTANTS
  None = None
  GeneratedId = GeneratedId
  FixedId = FixedId
  BadId = BadId
  Publishers = {p1, p2}
  MaxMessages = 3
SPECIFICATION FairRendezvousSpec
INVARIANTS
  ChannelInv
  WalletJoins
PROPERTIES
  RefinesContract
  ChannelSettles
CHECK_DEADLOCK FALSE
