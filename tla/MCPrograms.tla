------------------------------ MODULE MCPrograms ------------------------------
(***************************************************************************)
(* Instances of Programs for TLC.                                          *)
(***************************************************************************)
EXTENDS Programs

Plugged(m, words, access) == [maker |-> m, product |-> words, usb |-> access]
KeyboardL == Plugged(TRUE, {"MasterKeys", "L"}, "opens")
KeyboardS == Plugged(TRUE, {"MasterKeys", "S"}, "opens")
Mouse == Plugged(TRUE, {}, "opens")
Locked == Plugged(FALSE, {}, "no_open")
Silent == Plugged(FALSE, {}, "no_descriptor")

MixedBuses == {<<KeyboardL>>, <<>>, <<Mouse, KeyboardL>>, <<Locked>>, <<Silent, KeyboardS>>,
               <<KeyboardL, KeyboardS>>, <<KeyboardS, KeyboardS>>}

Scripts == {"main", "record", "ctrl", "viewer", "ambilight", "notifications"}
StartedOn == [b \in MixedBuses |->
    Scripts \cup (IF Cardinality({k \in DOMAIN b : Supported(b[k])}) < 2 THEN {"python", "any"} ELSE {})]

\* The blocks of the heap are interchangeable.
Interchangeable == Permutations(Handles)
=============================================================================
