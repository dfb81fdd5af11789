SPECIFICATION Spec
CONSTANTS
  ByteBits = 4
  ShortBytes = 2
  IntBytes = 4
  LongBytes = 7
  UuidBytes = 2
  Types <- MCTypes
  PacketIds <- MCPacketIds
  PacketTypes <- MCPacketTypes
  Sent <- MCWritten
  OpenEnded <- MCOpenEnded
  OpenLists <- MCOpenLists
  OpenNbt <- MCOpenNbt
  OptionalFlags <- MCOptionalFlags
  Rounded <- MCRounded
  Tails <- MCTails
CHECK_DEADLOCK FALSE
INVARIANTS
  ReadsBack
  CutIsRefused
  RereadsTheSame
