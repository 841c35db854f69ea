--------------------------- MODULE HandleProperties ---------------------------
(***************************************************************************)
(* What the handles of libmk are to keep, and what its documentation says  *)
(* of them that the code does not do.                                      *)
(***************************************************************************)
EXTENDS Handle

Reachable == held \cup ({DeviceHandle} \ {NULL})

\* While the library is up, no handle a program holds, and not the global
\* one, points to a struct that was freed: disable_control forgets the global
\* handle that it frees (lines 493-496), and no call frees another's struct.
NothingDangles == lib = "up" => Reachable \subseteq alloc

\* No struct with an open libusb handle is freed, so none is lost without
\* libusb_close (lines 347-348 ask the field open, line 328 sets it).
UsbHandlesKept == \A h \in Handles : usb[h] = "open" => h \in alloc

\* Every struct is held by a program or is the global handle, unless
\* libusb_open failed in create_handle or the global handle was overwritten.
NothingLeaks == alloc \subseteq Reachable

\* The handles implement the lease of keyboards: a keyboard in custom mode
\* is controlled by one open handle, the one that claims its interface, and
\* closing a handle returns its keyboard to the firmware (lines 444-499).
Controller(k) ==
    IF mode[k] = "firmware" THEN NULL
    ELSE IF \E h \in alloc : claimed[h] /\ dev[h] = k
    THEN CHOOSE h \in alloc : claimed[h] /\ dev[h] = k
    ELSE "abandoned"
Lease == INSTANCE KeyboardLease WITH
    Keyboards <- Index, Nobody <- NULL,
    life <- [h \in Handles |-> IF h \notin alloc THEN "none"
                               ELSE IF open[h] THEN "open" ELSE "closed"],
    lease <- [k \in Index |-> Controller(k)]
LeaseSpec == Lease!LeaseSpec

-----------------------------------------------------------------------------
(* What the documentation says, and the code does not do. *)

\* "If closed, the handle is no longer valid" (libmk.h:167-168): no closed
\* libusb handle is used.  disable_control resets the one it closed.
ClosedIsUnused == dead = {}

\* "NULL or valid pointer in *handle" (libmk.h:265): what the caller's
\* pointer, or the global one, designates is an opened handle.
PointersAreValid ==
    lib = "up" => \A h \in {out, DeviceHandle} \ {NULL} : h \in alloc => usb[h] # "garbage"

\* "Current state of the handle" (libmk.h:167): open says whether the libusb
\* handle is open, also after enable_control failed to read the firmware.
OpenIsTruthful == \A h \in alloc : open[h] <=> usb[h] = "open"

\* "Any supported device" (libmk.h:126): asking for one does not crash on a
\* bus with a Cooler Master device that libmk does not support.
SetDeviceAnswers == lib # "set_device crashed"

\* "The model must be connected, else LIBMK_ERR_DEV_NOT_CONNECTED ... chooses
\* the first available device of the specified model" (libmk.h:261-269): with
\* every wanted keyboard there and nothing failing, one is found.
Available(m) == \E k \in DOMAIN bus : Supported(bus[k]) /\ Matches(m, bus[k])
AvailableIsFound ==
    (\A m \in Wanted : Available(m)) =>
        result \notin {"LIBMK_ERR_DEV_OPEN_FAILED", "LIBMK_ERR_DESCR", "LIBMK_ERR_DEV_NOT_CONNECTED"}

\* "Return the bDevice USB descriptor property" (libmk.h:311): that of the
\* device behind the handle passed.
IdentIsOfHandle == ident.told = ident.asked

\* "Frees up the memory used by the libusb context" (libmk.h:208-209):
\* libmk_exit does, also with the global handle open.
ExitFrees == [][ExitRefused => lib' = "exited"]_vars
=============================================================================
