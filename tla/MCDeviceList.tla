---------------------------- MODULE MCDeviceList ----------------------------
(***************************************************************************)
(* Instances of DeviceList for TLC: two keyboards, a Cooler Master device  *)
(* that is none, a foreign device, and devices that cannot be opened.      *)
(***************************************************************************)
EXTENDS DeviceList

Plugged(m, words, access) == [maker |-> m, product |-> words, usb |-> access]
KeyboardL == Plugged(TRUE, {"MasterKeys", "L"}, "opens")
KeyboardS == Plugged(TRUE, {"MasterKeys", "White", "S"}, "opens")
Mouse == Plugged(TRUE, {}, "opens")
Foreign == Plugged(FALSE, {"L"}, "opens")
Locked == Plugged(TRUE, {"MasterKeys", "L"}, "no_open")

BusesOf(D, k) == UNION {[1..m -> D] : m \in 0..k}
KeyboardBuses == BusesOf({KeyboardL, KeyboardS}, 3)
AllBuses == KeyboardBuses \cup BusesOf({KeyboardL, KeyboardS, Mouse, Foreign, Locked}, 2)
=============================================================================
