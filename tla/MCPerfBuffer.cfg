CONSTANTS
  Cpus = {c1, c2}
  Events = {a, b}
  Slots = 2
  MaxOutput = 6
  None = None
SYMMETRY MCSymmetry
SPECIFICATION PBSpec
INVARIANTS
  PBTypeOK
  LossAccounted
  NoLostWakeup
