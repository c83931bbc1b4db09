SPECIFICATION Spec
CONSTANTS
  a = a
  b = b
  wide = wide
  huge = huge
  Expert = {a, b, wide, huge}
  Size <- Sizes
  Limit <- SmallTiers
  Target <- OneByteTarget
  MaxLeases = 1
INVARIANT NoLeak
