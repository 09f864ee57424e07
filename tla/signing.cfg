SPECIFICATION Spec
CONSTANTS
  W = 10
  L = 2
  Prime = 16776367
  Order = 16773727
  A = 0
  B = 59
  BaseX = 1
  BaseY = 15099814
  Keys = {1, 2, 16773726, 9999999}
  \* With nonce 1 and key 2, Order - 2 makes s zero.
  Digests = {0, 1, 16773727, 16773725, 16777215, 1234567}
  \* Out of range: 0, Order, 2^24 - 1.  4368366 leads to x = Order and r = 0,
  \* 13962191 and its negative to x = Order + 3 and r = 3.
  Nonces = {0, 16773727, 16777215, 4368366, 13962191, 2811536, 1, 2, 16773726, 16, 8388607, 5555555}
  Noise = {12345678}
  MaxTurns = 2
INVARIANTS PublicKeyIsTheMultiple SignatureInRange SignatureBelongsToKey
CHECK_DEADLOCK FALSE
