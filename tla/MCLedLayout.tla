----------------------------- MODULE MCLedLayout -----------------------------
(***************************************************************************)
(* Instances of LedLayout for TLC: paintings that tell neighbours apart,   *)
(* by column, by row, and one that leaves the keyboard as it was before.   *)
(***************************************************************************)
EXTENDS LedLayout

CONSTANTS Red, Blue

ASSUME LargeIsDistinct == Size = "LIBMK_L" => DistinctAddresses

Painted(IsRed(_, _)) == [key \in Keys |-> IF IsRed(key[1], key[2]) THEN Red ELSE Blue]
Stripes == Painted(LAMBDA r, c : c % 2 = 0)
Checkers == Painted(LAMBDA r, c : (r + c) % 2 = 0)
\* First and last key, the key of LED 0, a key without a LED.
MCSingleKeys == {<<0, 0>>, <<5, 20>>, <<0, 17>>, <<6, 23>>}
MCPaintings == {Stripes, Checkers, AllOf(Black)}
=============================================================================
