------------------------------- MODULE Words -------------------------------
(***************************************************************************)
(* The operators &, | and ^ of 32-bit words, by halves down to single      *)
(* bits.  (The operators of Bitwise are recursive, and nothing can be      *)
(* proved of them here; MCWalks compares the two.)                         *)
(***************************************************************************)
EXTENDS Integers

And1(x, y)  == x * y
And2(x, y)  == 2 * And1(x \div 2, y \div 2) + And1(x % 2, y % 2)
And4(x, y)  == 4 * And2(x \div 4, y \div 4) + And2(x % 4, y % 4)
And8(x, y)  == 16 * And4(x \div 16, y \div 16) + And4(x % 16, y % 16)
And16(x, y) == 256 * And8(x \div 256, y \div 256) + And8(x % 256, y % 256)

And(x, y) ==
  65536 * And16((x \div 65536) % 65536, (y \div 65536) % 65536)
    + And16(x % 65536, y % 65536)

Or(x, y)  == x + (y - And(x, y))
Xor(x, y) == (x - And(x, y)) + (y - And(x, y))
=============================================================================
