SPECIFICATION Spec
CONSTANTS
  SNET_RX_BUFS_COUNT = 2
  FrameWords = 2
  loop_limit = 2
  Macs = {"fifo"}
  Traffic = {"both"}
INVARIANTS
  KnownTypes
