CONSTANTS
  Nids = {d1, d2}
  MaxKeys = 3
SPECIFICATION Spec
CHECK_DEADLOCK FALSE
SYMMETRY DeviceSymmetry
INVARIANTS
  IssuedVerifies
  StartsUnlessCertTorn
PROPERTY IsAnchor
