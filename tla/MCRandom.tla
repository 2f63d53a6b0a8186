------------------------------ MODULE MCRandom ------------------------------
(* Constants for TLC: moduli of four bits, with recurrences of full period.    *)
(* A factor is split after the first bit, and doubles are exact to six bits.   *)
(* m1 + 1 is no power of two, so that norm is rounded, and Denominator is      *)
(* below m1, as 2^24 is: both seeds lead to the smallest differences of U01d.  *)
EXTENDS RandomStream

SmallInvA1 == << <<1, 0, 6>>, <<1, 0, 0>>, <<0, 1, 0>> >>
SmallInvA2 == << <<0, 1, 5>>, <<1, 0, 0>>, <<0, 1, 0>> >>
SmallA1p76 == << <<0, 2, 9>>, <<7, 4, 2>>, <<4, 3, 4>> >>
SmallA2p76 == << <<5, 3, 2>>, <<6, 5, 4>>, <<5, 6, 0>> >>
SmallA1p127 == << <<6, 2, 7>>, <<3, 3, 2>>, <<4, 10, 3>> >>
SmallA2p127 == << <<4, 0, 1>>, <<3, 4, 4>>, <<5, 3, 6>> >>
TwoSeeds == {1, 3}
SomeJumps == {<<0, 3>>, <<0, -2>>, <<2, -3>>, <<-2, 5>>, <<-1, 0>>}
=============================================================================
