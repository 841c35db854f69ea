---------------------------- MODULE MCNotifications ----------------------------
(***************************************************************************)
(* An instance of Notifications for TLC: beside Black one color, whose     *)
(* bytes differ, so that bytes of two colors are never a third one.        *)
(***************************************************************************)
EXTENDS Notifications

OneColor == {<<1, 3>>}

\* The fade starts below the color in one byte and above it in the other, as
\* it does at the darkest and the lightest.
Extremes == {<<0, 3>>, <<3, 0>>}
=============================================================================
