------------------------------ MODULE MCAmbilight ------------------------------
(***************************************************************************)
(* Instances of Ambilight for TLC.  The left half of the screen is looked  *)
(* at, which is two pixels; the right half is always red.                  *)
(***************************************************************************)
EXTENDS Ambilight

Dark == <<1, 0, 0>>
Grey == <<2, 2, 2>>
Orange == <<2, 1, 0>>
Rust == <<2, 0, 0>>
Blue == <<0, 0, 2>>
Sea == <<0, 1, 3>>
Red == <<3, 0, 0>>

Show(top, bottom) ==
    [p \in Screen |-> IF p[1] > 0 THEN Red ELSE IF p[2] = 0 THEN top ELSE bottom]
Screens == {Show(top, bottom) : top, bottom \in {Dark, Grey, Orange, Rust, Blue, Sea}}

\* The threads see white where nothing counts and, of rust over blue, the
\* darkest color that the doubles may make of it.
Darkest(colors) == {c \in colors : \A other \in colors : Total(c) <= Total(other)}
Seen == Dominant(Show(Dark, Grey)) \cup Darkest(Dominant(Show(Rust, Blue)))

\* TLC evaluates a definition once, but not one that stands for a CONSTANT.
SomeColors == Seen

\* What BrightnessIsKept of AmbilightProofs rests on.
ASSUME ScreensAreSeen == ColorsAreSeen(Screens) /\ AveragesAreColors(Screens)

\* "SATURATION_BIAS: Minimum required difference between any pair of bytes of
\* the RGB triplet of a pixel" (ambilight.c:85-86): their order does not
\* matter, as it does not in capture.h.
SaturationIsOfAnyPair == \A s \in Screens : Dominant(s) = calc_dominant_color(s)

\* "scaled so that at least one of the RGB values of the triplet is the
\* maximum of 255" (lines 87-89).
BrightnessIsFull == \A s \in Screens : \A c \in Dominant(s) : Brightest(c) = MaxByte
=============================================================================
