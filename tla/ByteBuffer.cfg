SPECIFICATION Spec
CONSTANTS
  Capacity = 3
  Byte = {0, 1}
INVARIANTS
  TypeOK
  Ordered
  ReadsWhatWasPut
