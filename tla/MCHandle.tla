------------------------------- MODULE MCHandle -------------------------------
(***************************************************************************)
(* Instances of HandleProperties for TLC.                                  *)
(***************************************************************************)
EXTENDS HandleProperties, TLC

Plugged(m, words, access) == [maker |-> m, product |-> words, usb |-> access]
KeyboardL == Plugged(TRUE, {"MasterKeys", "L"}, "opens")
KeyboardS == Plugged(TRUE, {"MasterKeys", "S"}, "opens")
Mouse == Plugged(TRUE, {}, "opens")
Locked == Plugged(FALSE, {}, "no_open")

TwoKeyboards == {<<KeyboardL, KeyboardS>>}
AwkwardBuses == {<<KeyboardS, KeyboardL>>, <<Mouse, KeyboardL>>, <<Locked, KeyboardL>>}

\* The blocks of the heap are interchangeable.
Interchangeable == Permutations(Handles)
=============================================================================
