-------------------------------- MODULE Handle --------------------------------
(***************************************************************************)
(* The LibMK_Handle structs of libmk/libmk.c, the global DeviceHandle, and *)
(* the libusb handles behind them, from libmk_set_device to libmk_exit.    *)
(* libmk has no lock: calls do not overlap, and each is one action, with   *)
(* one more action for every libusb call in it that can fail.              *)
(*                                                                         *)
(* An operator whose name ends in Bug is a plausible slip in the operator  *)
(* after it, and no action uses one.                                       *)
(***************************************************************************)
EXTENDS DeviceIdent, FiniteSets, SequencesExt

CONSTANTS
    Handles,    \* the blocks that malloc can return for a LibMK_Handle
    NULL,
    MaxBus,     \* bound on the devices on the bus
    Buses,      \* what may be plugged in
    Wanted,     \* the models that clients ask for
    Faults,     \* which libusb calls may fail
    Habits      \* what clients do beyond the documentation

ASSUME HandlesAssumption == NULL \notin Handles
ASSUME BusAssumption ==
    MaxBus \in Nat /\ \A b \in Buses : b \in Seq(Devices) /\ Len(b) <= MaxBus
ASSUME WantedAssumption == Wanted \subseteq Models \cup {"DEV_ANY"}
ASSUME FaultsAssumption ==
    Faults \subseteq {"list", "reopen", "memory", "create", "driver", "claim",
                      "mode", "firmware", "transfer", "release", "reset"}
ASSUME HabitsAssumption == Habits \subseteq {"replace_global"}

VARIABLES
    bus,            \* the devices, in the order libusb lists them
    DeviceHandle,   \* the global handle
    alloc,          \* the LibMK_Handle structs that are allocated
    open, dev,      \* their field open, and the bus index of their device
    usb, claimed,   \* is the libusb_device_handle in them open, with the interface
    mode, driver,   \* of every keyboard: firmware mode or one of the others, called
                    \* custom here, and is the kernel driver attached
    held, out,      \* handles set_device gave to clients, and its last *handle
    result,         \* what the last call returned
    ident,          \* last get_device_ident: the device asked about, and answered
    dead,           \* functions that passed a closed libusb handle to libusb
    lib             \* up, exited or crashed

struct == <<alloc, open, dev>>
libusb == <<usb, claimed>>
keyboard == <<mode, driver>>
client == <<held, out>>
log == <<ident, dead>>
vars == <<bus, DeviceHandle, struct, libusb, keyboard, client, result, log, lib>>

Index == 1..MaxBus
Results == {"LIBMK_SUCCESS", "LIBMK_ERR_DEV_LIST", "LIBMK_ERR_DEV_NOT_CONNECTED",
    "LIBMK_ERR_DESCR", "LIBMK_ERR_DEV_OPEN_FAILED", "LIBMK_ERR_DEV_NOT_SET",
    "LIBMK_ERR_TRANSFER", "LIBMK_ERR_IFACE_CLAIM_FAILED", "LIBMK_ERR_DEV_NOT_CLOSED",
    "LIBMK_ERR_IFACE_RELEASE_FAILED", "LIBMK_ERR_DEV_RESET_FAILED"}
Crashes == {"set_device crashed", "get_device_ident crashed", "call crashed"}

TypeOK ==
    /\ bus \in Buses /\ DeviceHandle \in Handles \cup {NULL}
    /\ alloc \subseteq Handles /\ open \in [Handles -> BOOLEAN] /\ dev \in [Handles -> Index \cup {0}]
    /\ usb \in [Handles -> {"garbage", "open", "closed"}] /\ claimed \in [Handles -> BOOLEAN]
    /\ mode \in [Index -> {"firmware", "custom"}] /\ driver \in [Index -> BOOLEAN]
    /\ held \subseteq Handles /\ out \in Handles \cup {NULL} /\ result \in Results
    /\ ident \in [asked : Index \cup {0}, told : Index \cup {0}]
    /\ dead \subseteq {"disable", "call"}
    /\ lib \in {"up", "exited"} \cup Crashes

Init ==
    /\ bus \in Buses /\ DeviceHandle = NULL
    /\ alloc = {} /\ open = [h \in Handles |-> FALSE] /\ dev = [h \in Handles |-> 0]
    /\ usb = [h \in Handles |-> "garbage"] /\ claimed = [h \in Handles |-> FALSE]
    /\ mode = [k \in Index |-> "firmware"] /\ driver = [k \in Index |-> TRUE]
    /\ held = {} /\ out = NULL /\ result = "LIBMK_SUCCESS"
    /\ ident = [asked |-> 0, told |-> 0] /\ dead = {} /\ lib = "up"

-----------------------------------------------------------------------------
(* libmk_set_device *)

Matches(m, d) == d.maker /\ (m = "DEV_ANY" \/ libmk_ident_model(d.product) = m)

\* The loop ends at the first device that matches or that fails.
EndsAt(m) == {k \in DOMAIN bus : bus[k].usb # "opens" \/ Matches(m, bus[k])}
Chosen(m) == IF EndsAt(m) = {} THEN 0 ELSE Min(EndsAt(m))
Found(m) == Chosen(m) # 0 /\ bus[Chosen(m)].usb = "opens"

\* A program sets the global handle once, and again after disabling it.
\* own: does it pass a pointer, rather than NULL.
MaySet(own) == lib = "up" /\ (own \/ DeviceHandle = NULL \/ "replace_global" \in Habits)

SetDeviceNoList(own) ==
    /\ "list" \in Faults /\ result' = "LIBMK_ERR_DEV_LIST"
    /\ UNCHANGED <<bus, DeviceHandle, struct, libusb, keyboard, client, log, lib>>

SetDeviceNotFound(m, own) ==
    /\ ~Found(m)
    /\ result' = IF Chosen(m) = 0 THEN "LIBMK_ERR_DEV_NOT_CONNECTED"
                 ELSE IF bus[Chosen(m)].usb = "no_descriptor" THEN "LIBMK_ERR_DESCR"
                 ELSE "LIBMK_ERR_DEV_OPEN_FAILED"
    /\ UNCHANGED <<bus, DeviceHandle, struct, libusb, keyboard, client, log, lib>>

\* libmk_open_device returns NULL, and libmk_create_handle reads through it.
SetDeviceCrashes(m, own) ==
    /\ Found(m)
    /\ ~Supported(bus[Chosen(m)]) \/ "reopen" \in Faults
    /\ lib' = "set_device crashed"
    /\ UNCHANGED <<bus, DeviceHandle, struct, libusb, keyboard, client, result, log>>

\* The assignment through the handle parameter of libmk_create_handle.
Stored(own, h) ==
    IF own THEN out' = h /\ DeviceHandle' = DeviceHandle
    ELSE DeviceHandle' = h /\ out' = out

SetDeviceNoMemory(m, own) ==
    /\ Found(m) /\ Supported(bus[Chosen(m)]) /\ "memory" \in Faults
    /\ Stored(own, NULL) /\ result' = "LIBMK_ERR_DEV_OPEN_FAILED"
    /\ UNCHANGED <<bus, struct, libusb, keyboard, held, log, lib>>

\* libusb_open fails: the struct keeps what malloc left in it.
SetDeviceNoHandle(m, own, h, garbage) ==
    /\ Found(m) /\ Supported(bus[Chosen(m)]) /\ "create" \in Faults
    /\ h \notin alloc /\ alloc' = alloc \cup {h}
    /\ open' = [open EXCEPT ![h] = garbage]
    /\ usb' = [usb EXCEPT ![h] = "garbage"]
    /\ dev' = [dev EXCEPT ![h] = 0]
    /\ Stored(own, h) /\ result' = "LIBMK_ERR_DEV_OPEN_FAILED"
    /\ UNCHANGED <<bus, claimed, keyboard, held, log, lib>>

SetDevice(m, own, h) ==
    /\ Found(m) /\ Supported(bus[Chosen(m)])
    /\ h \notin alloc /\ alloc' = alloc \cup {h}
    /\ open' = [open EXCEPT ![h] = TRUE]
    /\ usb' = [usb EXCEPT ![h] = "open"]
    /\ dev' = [dev EXCEPT ![h] = Chosen(m)]
    /\ Stored(own, h) /\ held' = (IF own THEN held \cup {h} ELSE held)
    /\ result' = "LIBMK_SUCCESS"
    /\ UNCHANGED <<bus, claimed, keyboard, log, lib>>

-----------------------------------------------------------------------------
(* The calls on a handle.  A client passes one that it was given and that   *)
(* is open as far as the struct says, or NULL for the global one.           *)

Target(p) == IF p = NULL THEN DeviceHandle ELSE p
MayPass(p) == lib = "up" /\ (p = NULL \/ (p \in held /\ open[p]))
Reaches(p) == MayPass(p) /\ Target(p) # NULL /\ usb[Target(p)] = "open"

NotSet(p) ==
    /\ MayPass(p) /\ Target(p) = NULL /\ result' = "LIBMK_ERR_DEV_NOT_SET"
    /\ UNCHANGED <<bus, DeviceHandle, struct, libusb, keyboard, client, log, lib>>

\* A libusb handle that was closed, or never opened, is passed to libusb.
DeadHandle(p) ==
    /\ MayPass(p) /\ Target(p) # NULL /\ usb[Target(p)] # "open"
    /\ dead' = dead \cup {"call"}
    /\ lib' \in {"up", "call crashed"} /\ result' = "LIBMK_ERR_TRANSFER"
    /\ UNCHANGED <<bus, DeviceHandle, struct, libusb, keyboard, client, ident>>

\* The operating system gives the interface of a device to one handle.
Busy(h) == \E g \in Handles \ {h} : claimed[g] /\ dev[g] = dev[h]

EnableNoDriver(p) ==
    /\ Reaches(p) /\ driver[dev[Target(p)]] /\ "driver" \in Faults
    /\ result' = "LIBMK_ERR_IFACE_CLAIM_FAILED"
    /\ UNCHANGED <<bus, DeviceHandle, struct, libusb, keyboard, client, log, lib>>

EnableNoClaim(p) ==
    /\ Reaches(p) /\ (Busy(Target(p)) \/ "claim" \in Faults)
    /\ driver' = [driver EXCEPT ![dev[Target(p)]] = FALSE]
    /\ result' = "LIBMK_ERR_IFACE_CLAIM_FAILED"
    /\ UNCHANGED <<bus, DeviceHandle, struct, libusb, mode, client, log, lib>>

Claims(h) ==
    /\ ~Busy(h) /\ driver' = [driver EXCEPT ![dev[h]] = FALSE]

EnableNoMode(p) ==
    /\ Reaches(p) /\ Claims(Target(p)) /\ "mode" \in Faults
    /\ claimed' = [claimed EXCEPT ![Target(p)] = TRUE]
    /\ result' = "LIBMK_ERR_TRANSFER"
    /\ UNCHANGED <<bus, DeviceHandle, struct, usb, mode, client, log, lib>>

\* libmk_send_control_packet closes the libusb handle, and leaves open as it is.
EnableNoFirmware(p) ==
    /\ Reaches(p) /\ Claims(Target(p)) /\ "firmware" \in Faults
    /\ mode' = [mode EXCEPT ![dev[Target(p)]] = "custom"]
    /\ usb' = [usb EXCEPT ![Target(p)] = "closed"]
    /\ claimed' = [claimed EXCEPT ![Target(p)] = FALSE]
    /\ result' = "LIBMK_ERR_TRANSFER"
    /\ UNCHANGED <<bus, DeviceHandle, struct, client, log, lib>>

Enable(p) ==
    /\ Reaches(p) /\ Claims(Target(p))
    /\ claimed' = [claimed EXCEPT ![Target(p)] = TRUE]
    /\ mode' = [mode EXCEPT ![dev[Target(p)]] = "custom"]
    /\ result' = "LIBMK_SUCCESS"
    /\ UNCHANGED <<bus, DeviceHandle, struct, usb, client, log, lib>>

DisableNoMode(p) ==
    /\ Reaches(p) /\ (~claimed[Target(p)] \/ "mode" \in Faults)
    /\ result' = "LIBMK_ERR_TRANSFER"
    /\ UNCHANGED <<bus, DeviceHandle, struct, libusb, keyboard, client, log, lib>>

DisableNoRelease(p) ==
    /\ Reaches(p) /\ claimed[Target(p)] /\ "release" \in Faults
    /\ mode' = [mode EXCEPT ![dev[Target(p)]] = "firmware"]
    /\ result' = "LIBMK_ERR_IFACE_RELEASE_FAILED"
    /\ UNCHANGED <<bus, DeviceHandle, struct, libusb, driver, client, log, lib>>

ReleasedModeBug(k) == mode[k]
ReleasedMode(k) == "firmware"

\* disable_control frees the global handle, and only that one.
AllocAfterBug(h) == alloc
AllocAfter(h) == IF h = DeviceHandle THEN alloc \ {h} ELSE alloc

GlobalAfterBug(h) == DeviceHandle
GlobalAfter(h) == IF h = DeviceHandle THEN NULL ELSE DeviceHandle

\* libusb_reset_device comes last, with the handle closed four lines before.
Disable(p) ==
    /\ Reaches(p) /\ claimed[Target(p)]
    /\ mode' = [mode EXCEPT ![dev[Target(p)]] = ReleasedMode(dev[Target(p)])]
    /\ claimed' = [claimed EXCEPT ![Target(p)] = FALSE]
    /\ usb' = [usb EXCEPT ![Target(p)] = "closed"]
    /\ open' = [open EXCEPT ![Target(p)] = FALSE]
    /\ alloc' = AllocAfter(Target(p)) /\ DeviceHandle' = GlobalAfter(Target(p))
    /\ dead' = dead \cup {"disable"} /\ result' = "LIBMK_SUCCESS"
    /\ UNCHANGED <<bus, dev, driver, client, ident, lib>>

\* libmk_set_control_mode as a call of its own; it fails as in DisableNoMode.
SetControlMode(p, m) ==
    /\ Reaches(p) /\ claimed[Target(p)]
    /\ mode' = [mode EXCEPT ![dev[Target(p)]] = m]
    /\ result' = "LIBMK_SUCCESS"
    /\ UNCHANGED <<bus, DeviceHandle, struct, libusb, driver, client, log, lib>>

\* The packets of the calls for effects, colors, profiles and firmware.  Those
\* that set a mode first (set_effect, set_single_led, save_profile and
\* set_active_profile, at 530, 722, 785, 792) are SetControlMode, then this.
Exchange(p) ==
    /\ Reaches(p) /\ claimed[Target(p)] /\ result' = "LIBMK_SUCCESS"
    /\ UNCHANGED <<bus, DeviceHandle, struct, libusb, keyboard, client, log, lib>>

ExchangeFails(p) ==
    /\ Reaches(p) /\ (~claimed[Target(p)] \/ "transfer" \in Faults)
    /\ result' = "LIBMK_ERR_TRANSFER"
    /\ UNCHANGED <<bus, DeviceHandle, struct, libusb, keyboard, client, log, lib>>

\* What the firmware does to its mode on a reset is up to the keyboard.
Reset(p) ==
    /\ Reaches(p)
    /\ mode' \in {mode, [mode EXCEPT ![dev[Target(p)]] = "firmware"]}
    /\ result' = "LIBMK_SUCCESS"
    /\ UNCHANGED <<bus, DeviceHandle, struct, libusb, driver, client, log, lib>>

ResetFails(p) ==
    /\ Reaches(p) /\ "reset" \in Faults /\ result' = "LIBMK_ERR_DEV_RESET_FAILED"
    /\ UNCHANGED <<bus, DeviceHandle, struct, libusb, keyboard, client, log, lib>>

\* Whatever handle it is given, the answer is read through DeviceHandle.
GetDeviceIdent(p) ==
    /\ MayPass(p) /\ Target(p) # NULL
    /\ IF DeviceHandle = NULL
       THEN lib' = "get_device_ident crashed" /\ ident' = ident
       ELSE lib' = lib /\ ident' = [asked |-> dev[Target(p)], told |-> dev[DeviceHandle]]
    /\ UNCHANGED <<bus, DeviceHandle, struct, libusb, keyboard, client, result, dead>>

MayFreeBug(h) == TRUE
MayFree(h) == ~open[h]

FreeHandle(h) ==
    /\ lib = "up" /\ h \in held /\ MayFree(h)
    /\ alloc' = alloc \ {h} /\ held' = held \ {h} /\ result' = "LIBMK_SUCCESS"
    /\ UNCHANGED <<bus, DeviceHandle, open, dev, libusb, keyboard, out, log, lib>>

FreeHandleRefused(h) ==
    /\ lib = "up" /\ h \in held /\ ~MayFree(h) /\ result' = "LIBMK_ERR_DEV_NOT_CLOSED"
    /\ UNCHANGED <<bus, DeviceHandle, struct, libusb, keyboard, client, log, lib>>

\* libmk_exit frees the global handle, and leaves the pointer to it.
Exit ==
    /\ lib = "up" /\ (DeviceHandle # NULL => ~open[DeviceHandle])
    /\ alloc' = alloc \ {DeviceHandle} /\ lib' = "exited" /\ result' = "LIBMK_SUCCESS"
    /\ UNCHANGED <<bus, DeviceHandle, open, dev, libusb, keyboard, client, log>>

ExitRefused ==
    /\ lib = "up" /\ DeviceHandle # NULL /\ open[DeviceHandle]
    /\ result' = "LIBMK_ERR_DEV_NOT_CLOSED"
    /\ UNCHANGED <<bus, DeviceHandle, struct, libusb, keyboard, client, log, lib>>

-----------------------------------------------------------------------------
SetDeviceCall(m, own) ==
    /\ MaySet(own)
    /\ \/ SetDeviceNoList(own)
       \/ SetDeviceNotFound(m, own)
       \/ SetDeviceCrashes(m, own)
       \/ SetDeviceNoMemory(m, own)
       \/ \E h \in Handles, garbage \in BOOLEAN : SetDeviceNoHandle(m, own, h, garbage)
       \/ \E h \in Handles : SetDevice(m, own, h)

SetDeviceCalls == \E m \in Wanted, own \in BOOLEAN : SetDeviceCall(m, own)

HandleCalls ==
    \E p \in held \cup {NULL} :
        \/ NotSet(p) \/ DeadHandle(p)
        \/ EnableNoDriver(p) \/ EnableNoClaim(p) \/ EnableNoMode(p) \/ EnableNoFirmware(p)
        \/ Enable(p)
        \/ DisableNoMode(p) \/ DisableNoRelease(p) \/ Disable(p)
        \/ \E m \in {"firmware", "custom"} : SetControlMode(p, m)
        \/ Exchange(p) \/ ExchangeFails(p)
        \/ Reset(p) \/ ResetFails(p) \/ GetDeviceIdent(p)

Next ==
    \/ SetDeviceCalls \/ HandleCalls
    \/ \E h \in held : FreeHandle(h) \/ FreeHandleRefused(h)
    \/ Exit \/ ExitRefused

Spec == Init /\ [][Next]_vars
=============================================================================
