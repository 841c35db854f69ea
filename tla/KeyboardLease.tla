---------------------------- MODULE KeyboardLease ----------------------------
(***************************************************************************)
(* What the handles of libmk promise.  A handle is opened, controls its    *)
(* keyboard, gives it back, and is discarded; it is never opened again.    *)
(* A keyboard is controlled by one open handle at a time, and whoever      *)
(* gives up a handle gives back the keyboard with it.                      *)
(***************************************************************************)
CONSTANTS Handles, Keyboards, Nobody

VARIABLES
    life,       \* of every handle: none, open or closed
    lease       \* the handle that controls a keyboard, or Nobody

LeaseInit == life = [h \in Handles |-> "none"] /\ lease = [k \in Keyboards |-> Nobody]

Open(h) ==
    /\ life[h] = "none"
    /\ life' = [life EXCEPT ![h] = "open"] /\ lease' = lease

Control(h, k) ==
    /\ life[h] = "open" /\ lease[k] = Nobody
    /\ lease' = [lease EXCEPT ![k] = h] /\ life' = life

\* The keyboard is given back, the handle stays open.
Yield(k) ==
    /\ lease[k] # Nobody
    /\ lease' = [lease EXCEPT ![k] = Nobody] /\ life' = life

\* The handle is closed, or closed and discarded, with its lease.
Close(h) ==
    /\ life[h] = "open"
    /\ \E end \in {"closed", "none"} : life' = [life EXCEPT ![h] = end]
    /\ lease' = [k \in Keyboards |-> IF lease[k] = h THEN Nobody ELSE lease[k]]

Discard(h) ==
    /\ life[h] = "closed"
    /\ life' = [life EXCEPT ![h] = "none"] /\ lease' = lease

LeaseNext ==
    \/ \E h \in Handles : Open(h) \/ Close(h) \/ Discard(h) \/ \E k \in Keyboards : Control(h, k)
    \/ \E k \in Keyboards : Yield(k)

LeaseSpec == LeaseInit /\ [][LeaseNext]_<<life, lease>>
=============================================================================
