CONSTANTS
  k1 = k1
  k2 = k2
  s = s
  Key <- TwoKeys
  NoKey = noKey
  Salt <- OneSalt
  NoIV = noIV
  N = 4
  Long <- OneLong
  Wrap = 3
  BitXor <- XorOf
SPECIFICATION Spec
SYMMETRY Keys
INVARIANTS NonceOnce IssuedOnce
