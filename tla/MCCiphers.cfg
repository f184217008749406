SPECIFICATION CiphersSpec
CONSTANTS
  BLOCKLEN = 16
  PayloadSizes <- MCPayloadSizes
  MaxBytes = 64
  Keys <- MCKeys
  PacketSizes = {0, 15, 16, 40}
INVARIANTS
  OwnKeystream
  ReadsWhatWasSent
