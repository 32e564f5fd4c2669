SPECIFICATION Spec
CONSTANTS
  LIMB_BITS = 4  UDIV1NORM_THRESHOLD = 2  DIVNORM_LARGE_THRESHOLD = 3  TABLE_BITS = 2
  EXP_BITS_MAX = 8  DOUBLE_BITS = 3  DOUBLE_EXP_BITS = 3
  ZIV_EXTRA_BITS = 2
  Args <- OnInts
INVARIANT IntsExact
CHECK_DEADLOCK FALSE
