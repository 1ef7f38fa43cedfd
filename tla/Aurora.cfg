SPECIFICATION Spec
CONSTANTS
  Words = 2
  MAX_PCX_PKTS = 2
  MaxOut = 2
  Kinds = {"store", "interrupt", "cas1", "cas2"}
INVARIANTS
  TypeOK
  HandshakeBoundsLink
  RingSuffices
PROPERTIES
  Emulated
  NoStarvation
