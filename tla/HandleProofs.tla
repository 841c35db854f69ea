----------------------------- MODULE HandleProofs -----------------------------
(***************************************************************************)
(* Theorems about the handles of libmk, for every bus, every number of     *)
(* handles and every combination of failing libusb calls.                  *)
(***************************************************************************)
EXTENDS HandleProperties, TLAPS, WellFoundedInduction

\* A non-empty set of bus indices has a least element.
LEMMA ChosenIsIndex ==
    ASSUME TypeOK, NEW m
    PROVE  /\ Chosen(m) \in Index \cup {0}
           /\ Found(m) => Chosen(m) \in Index
<1>1. EndsAt(m) \subseteq Index
  BY BusAssumption DEF TypeOK, EndsAt, Index
<1>2. ASSUME EndsAt(m) # {}  PROVE Min(EndsAt(m)) \in EndsAt(m)
  <2>1. EndsAt(m) \subseteq Nat
    BY <1>1 DEF Index
  <2>2. PICK k \in EndsAt(m) : \A j \in EndsAt(m) : <<j, k>> \notin OpToRel(<, Nat)
    BY <1>2, <2>1, NatLessThanWellFounded, WFMin
  <2>3. \A j \in EndsAt(m) : ~(j < k)
    BY <2>1, <2>2 DEF OpToRel
  <2>4. \A j \in EndsAt(m) : k =< j
    BY <2>1, <2>3
  <2> QED  BY <2>4 DEF Min
<1> QED  BY <1>1, <1>2 DEF Chosen, Found

-----------------------------------------------------------------------------
LEMMA TypeInit == Init => TypeOK
  BY BusAssumption DEF Init, TypeOK, Index, Results, Crashes

\* A call of set_device, for whatever model it asks.
LEMMA TypeSetDevice ==
    ASSUME TypeOK, NEW m, NEW own \in BOOLEAN, SetDeviceCall(m, own)
    PROVE  TypeOK'
<1>0. /\ MaySet(own)
      /\ \/ SetDeviceNoList(own)
         \/ SetDeviceNotFound(m, own)
         \/ SetDeviceCrashes(m, own)
         \/ SetDeviceNoMemory(m, own)
         \/ \E h \in Handles, garbage \in BOOLEAN : SetDeviceNoHandle(m, own, h, garbage)
         \/ \E h \in Handles : SetDevice(m, own, h)
  BY DEF SetDeviceCall
<1> USE DEF TypeOK, Index, Results, Crashes, struct, libusb, keyboard, client, log
<1>1. CASE SetDeviceNoList(own)        BY <1>1 DEF SetDeviceNoList
<1>2. CASE SetDeviceNotFound(m, own)   BY <1>2 DEF SetDeviceNotFound
<1>3. CASE SetDeviceCrashes(m, own)    BY <1>3 DEF SetDeviceCrashes
<1>4. CASE SetDeviceNoMemory(m, own)   BY <1>4 DEF SetDeviceNoMemory, Stored
<1>5. ASSUME NEW h \in Handles, NEW garbage \in BOOLEAN, SetDeviceNoHandle(m, own, h, garbage)
      PROVE TypeOK'
  BY <1>5 DEF SetDeviceNoHandle, Stored
<1>6. ASSUME NEW h \in Handles, SetDevice(m, own, h)  PROVE TypeOK'
  <2>1. Chosen(m) \in Index
    BY <1>6, ChosenIsIndex DEF SetDevice
  <2> DEFINE index == Chosen(m)
  <2>2. dev' = [dev EXCEPT ![h] = index]
    BY <1>6 DEF SetDevice
  <2>3. index \in Index
    BY <2>1
  <2> HIDE DEF index
  <2>4. dev' \in [Handles -> Index \cup {0}]
    BY <2>2, <2>3
  <2>5. held' \subseteq Handles
    BY <1>6 DEF SetDevice
  <2>6. /\ DeviceHandle' \in Handles \cup {NULL}
        /\ out' \in Handles \cup {NULL}
    BY <1>6 DEF SetDevice, Stored
  <2>7. /\ alloc' = alloc \cup {h}
        /\ open' = [open EXCEPT ![h] = TRUE]
        /\ usb' = [usb EXCEPT ![h] = "open"]
        /\ result' = "LIBMK_SUCCESS"
        /\ UNCHANGED <<bus, claimed, keyboard, log, lib>>
    BY <1>6 DEF SetDevice
  <2> QED  BY <2>4, <2>5, <2>6, <2>7
<1> HIDE DEF TypeOK, Index, Results, Crashes, struct, libusb, keyboard, client, log
<1> QED  BY <1>0, <1>1, <1>2, <1>3, <1>4, <1>5, <1>6

LEMMA TypeHandleCalls == ASSUME TypeOK, HandleCalls  PROVE TypeOK'
<1> PICK p \in held \cup {NULL} :
        \/ NotSet(p) \/ DeadHandle(p)
        \/ EnableNoDriver(p) \/ EnableNoClaim(p) \/ EnableNoMode(p) \/ EnableNoFirmware(p)
        \/ Enable(p)
        \/ DisableNoMode(p) \/ DisableNoRelease(p) \/ Disable(p)
        \/ \E m \in {"firmware", "custom"} : SetControlMode(p, m)
        \/ Exchange(p) \/ ExchangeFails(p)
        \/ Reset(p) \/ ResetFails(p) \/ GetDeviceIdent(p)
  BY DEF HandleCalls
<1>0. Target(p) \in Handles \cup {NULL}
  BY DEF Target, TypeOK
<1> USE DEF TypeOK, Index, Results, Crashes, struct, libusb, keyboard, client, log
<1>1. CASE NotSet(p)             BY <1>1 DEF NotSet
<1>2. CASE DeadHandle(p)         BY <1>2 DEF DeadHandle
<1>3. CASE EnableNoDriver(p)     BY <1>3 DEF EnableNoDriver
<1>4. CASE EnableNoClaim(p)      BY <1>4 DEF EnableNoClaim
<1>5. CASE EnableNoMode(p)       BY <1>5 DEF EnableNoMode, Claims
<1>6. CASE EnableNoFirmware(p)   BY <1>6 DEF EnableNoFirmware, Claims
<1>7. CASE Enable(p)             BY <1>7 DEF Enable, Claims
<1>8. CASE DisableNoMode(p)      BY <1>8 DEF DisableNoMode
<1>9. CASE DisableNoRelease(p)   BY <1>9 DEF DisableNoRelease
<1>10. CASE Disable(p)           BY <1>10 DEF Disable, ReleasedMode, AllocAfter, GlobalAfter
<1>11. CASE Reset(p)             BY <1>11 DEF Reset
<1>12. CASE ResetFails(p)        BY <1>12 DEF ResetFails
<1>13. CASE GetDeviceIdent(p)
  <2>1. Target(p) \in Handles
    BY <1>0, <1>13 DEF GetDeviceIdent
  <2>2. /\ ident' \in [asked : Index \cup {0}, told : Index \cup {0}]
        /\ lib' \in {"up", "exited"} \cup Crashes
    <3>1. CASE DeviceHandle = NULL
      BY <1>13, <3>1 DEF GetDeviceIdent
    <3>2. CASE DeviceHandle # NULL
      <4>1. dev[Target(p)] \in Index \cup {0} /\ dev[DeviceHandle] \in Index \cup {0}
        BY <2>1, <3>2
      <4>2. ident' = [asked |-> dev[Target(p)], told |-> dev[DeviceHandle]] /\ lib' = lib
        BY <1>13, <3>2 DEF GetDeviceIdent
      <4> QED  BY <4>1, <4>2
    <3> QED  BY <3>1, <3>2
  <2> QED  BY <1>13, <2>2 DEF GetDeviceIdent
<1>14. ASSUME NEW m \in {"firmware", "custom"}, SetControlMode(p, m)  PROVE TypeOK'
  BY <1>14 DEF SetControlMode
<1>15. CASE Exchange(p) \/ ExchangeFails(p)
  BY <1>15 DEF Exchange, ExchangeFails
<1> QED  BY <1>1, <1>2, <1>3, <1>4, <1>5, <1>6, <1>7, <1>8, <1>9, <1>10, <1>11, <1>12, <1>13, <1>14, <1>15

\* The types hold whatever fails (every function of libmk.c on a handle).
THEOREM HandleTypes == Spec => []TypeOK
<1>1. TypeOK /\ [Next]_vars => TypeOK'
  <2> SUFFICES ASSUME TypeOK, [Next]_vars  PROVE TypeOK'
    OBVIOUS
  <2>1. CASE UNCHANGED vars
    BY <2>1 DEF vars, TypeOK, struct, libusb, keyboard, client, log
  <2>2. ASSUME NEW h \in held, FreeHandle(h) \/ FreeHandleRefused(h)  PROVE TypeOK'
    BY <2>2 DEF FreeHandle, FreeHandleRefused, TypeOK, Index, Results, Crashes, struct, libusb, keyboard, client, log
  <2>3. CASE Exit \/ ExitRefused
    BY <2>3 DEF Exit, ExitRefused, TypeOK, Index, Results, Crashes, struct, libusb, keyboard, client, log
  <2> QED  BY <2>1, <2>2, <2>3, TypeSetDevice, TypeHandleCalls DEF Next, SetDeviceCalls
<1> QED  BY <1>1, TypeInit, PTL DEF Spec

-----------------------------------------------------------------------------
(***************************************************************************)
(* The invariant of memory: an open libusb handle is behind a struct that  *)
(* is allocated and says open, and what a program can reach is allocated,  *)
(* the global handle apart from the ones that programs own.                *)
(***************************************************************************)
OpenInv == \A h \in Handles : usb[h] = "open" => h \in alloc /\ open[h]
OwnInv == lib = "up" => NothingDangles /\ DeviceHandle \notin held
MemoryInv == OpenInv /\ OwnInv

LEMMA MemoryInit == Init => MemoryInv
  BY DEF Init, MemoryInv, OpenInv, OwnInv, NothingDangles, Reachable

\* A call that leaves the structs, the pointers and the libusb handles alone.
LEMMA MemoryUntouched ==
    ASSUME MemoryInv, UNCHANGED <<DeviceHandle, alloc, open, usb, held>>,
           lib' = "up" => lib = "up"
    PROVE  MemoryInv'
  BY DEF MemoryInv, OpenInv, OwnInv, NothingDangles, Reachable

LEMMA MemorySetDevice ==
    ASSUME TypeOK, MemoryInv, NEW m, NEW own \in BOOLEAN, SetDeviceCall(m, own)
    PROVE  MemoryInv'
<1>0. /\ MaySet(own)
      /\ \/ SetDeviceNoList(own)
         \/ SetDeviceNotFound(m, own)
         \/ SetDeviceCrashes(m, own)
         \/ SetDeviceNoMemory(m, own)
         \/ \E h \in Handles, garbage \in BOOLEAN : SetDeviceNoHandle(m, own, h, garbage)
         \/ \E h \in Handles : SetDevice(m, own, h)
  BY DEF SetDeviceCall
<1>1. CASE SetDeviceNoList(own) \/ SetDeviceNotFound(m, own) \/ SetDeviceCrashes(m, own)
  BY <1>1, MemoryUntouched
     DEF SetDeviceNoList, SetDeviceNotFound, SetDeviceCrashes, struct, libusb, client
<1>2. CASE SetDeviceNoMemory(m, own)
  <2>1. /\ DeviceHandle' \in {DeviceHandle, NULL}
        /\ UNCHANGED <<alloc, open, usb, held, lib>>
    BY <1>2 DEF SetDeviceNoMemory, Stored, struct, libusb
  <2> QED
    BY <2>1, HandlesAssumption DEF MemoryInv, OpenInv, OwnInv, NothingDangles, Reachable, TypeOK
<1>3. ASSUME NEW h \in Handles, NEW garbage \in BOOLEAN, SetDeviceNoHandle(m, own, h, garbage)
      PROVE MemoryInv'
  <2>1. /\ lib = "up" /\ lib' = "up" /\ h \notin alloc /\ alloc' = alloc \cup {h}
        /\ open' = [open EXCEPT ![h] = garbage]
        /\ usb' = [usb EXCEPT ![h] = "garbage"]
        /\ held' = held /\ DeviceHandle' \in {DeviceHandle, h}
    BY <1>0, <1>3 DEF SetDeviceNoHandle, Stored, MaySet
  <2> QED
    BY <2>1 DEF MemoryInv, OpenInv, OwnInv, NothingDangles, Reachable, TypeOK
<1>4. ASSUME NEW h \in Handles, SetDevice(m, own, h)  PROVE MemoryInv'
  <2>1. /\ lib = "up" /\ lib' = "up" /\ h \notin alloc /\ alloc' = alloc \cup {h}
        /\ open' = [open EXCEPT ![h] = TRUE]
        /\ usb' = [usb EXCEPT ![h] = "open"]
    BY <1>0, <1>4 DEF SetDevice, MaySet
  <2>2. \/ held' = held \cup {h} /\ DeviceHandle' = DeviceHandle
        \/ held' = held /\ DeviceHandle' = h
    BY <1>4 DEF SetDevice, Stored
  <2>3. OpenInv'
    BY <2>1 DEF MemoryInv, OpenInv, TypeOK
  <2>4. OwnInv'
    BY <2>1, <2>2, HandlesAssumption DEF MemoryInv, OwnInv, NothingDangles, Reachable, TypeOK
  <2> QED  BY <2>3, <2>4 DEF MemoryInv
<1> QED  BY <1>0, <1>1, <1>2, <1>3, <1>4

LEMMA MemoryHandleCalls == ASSUME TypeOK, MemoryInv, HandleCalls  PROVE MemoryInv'
<1> PICK p \in held \cup {NULL} :
        \/ NotSet(p) \/ DeadHandle(p)
        \/ EnableNoDriver(p) \/ EnableNoClaim(p) \/ EnableNoMode(p) \/ EnableNoFirmware(p)
        \/ Enable(p)
        \/ DisableNoMode(p) \/ DisableNoRelease(p) \/ Disable(p)
        \/ \E m \in {"firmware", "custom"} : SetControlMode(p, m)
        \/ Exchange(p) \/ ExchangeFails(p)
        \/ Reset(p) \/ ResetFails(p) \/ GetDeviceIdent(p)
  BY DEF HandleCalls
<1>0. Target(p) \in Handles \cup {NULL}
  BY DEF Target, TypeOK
<1>1. CASE NotSet(p) \/ EnableNoDriver(p) \/ EnableNoClaim(p) \/ EnableNoMode(p) \/ Enable(p)
  BY <1>1, MemoryUntouched
     DEF NotSet, EnableNoDriver, EnableNoClaim, EnableNoMode, Enable, struct, libusb, client
<1>2. CASE DeadHandle(p) \/ GetDeviceIdent(p)
  BY <1>2, MemoryUntouched DEF DeadHandle, GetDeviceIdent, MayPass, struct, libusb, client
<1>3. CASE DisableNoMode(p) \/ DisableNoRelease(p) \/ Reset(p) \/ ResetFails(p)
  BY <1>3, MemoryUntouched
     DEF DisableNoMode, DisableNoRelease, Reset, ResetFails, struct, libusb, client
<1>4. CASE EnableNoFirmware(p)
  BY <1>4 DEF EnableNoFirmware, struct, client, MemoryInv, OpenInv, OwnInv, NothingDangles,
     Reachable, TypeOK
<1>5. CASE Disable(p)
  <2>1. PICK h \in Handles : h = Target(p)
    BY <1>0, <1>5 DEF Disable, Reaches
  <2>2. /\ lib = "up" /\ usb' = [usb EXCEPT ![h] = "closed"]
        /\ open' = [open EXCEPT ![h] = FALSE]
        /\ held' = held /\ lib' = lib
    BY <1>5, <2>1 DEF Disable, Reaches, MayPass, client
  <2>3. \/ h = DeviceHandle /\ alloc' = alloc \ {h} /\ DeviceHandle' = NULL
        \/ h # DeviceHandle /\ alloc' = alloc /\ DeviceHandle' = DeviceHandle
    BY <1>5, <2>1 DEF Disable, AllocAfter, GlobalAfter
  <2>4. OpenInv'
    BY <2>2, <2>3 DEF MemoryInv, OpenInv, TypeOK
  <2>5. OwnInv'
    BY <2>2, <2>3, HandlesAssumption DEF MemoryInv, OwnInv, NothingDangles, Reachable, TypeOK
  <2> QED  BY <2>4, <2>5 DEF MemoryInv
<1>6. ASSUME NEW m \in {"firmware", "custom"}, SetControlMode(p, m)  PROVE MemoryInv'
  BY <1>6, MemoryUntouched DEF SetControlMode, struct, libusb, client
<1>7. CASE Exchange(p) \/ ExchangeFails(p)
  BY <1>7, MemoryUntouched DEF Exchange, ExchangeFails, struct, libusb, client
<1> QED  BY <1>1, <1>2, <1>3, <1>4, <1>5, <1>6, <1>7

LEMMA MemoryNext == TypeOK /\ MemoryInv /\ [Next]_vars => MemoryInv'
<1> SUFFICES ASSUME TypeOK, MemoryInv, [Next]_vars  PROVE MemoryInv'
  OBVIOUS
<1>1. CASE UNCHANGED vars
  BY <1>1, MemoryUntouched DEF vars, struct, libusb, client
<1>2. ASSUME NEW h \in held, FreeHandle(h)  PROVE MemoryInv'
  BY <1>2, HandlesAssumption DEF FreeHandle, MayFree, libusb, MemoryInv, OpenInv, OwnInv,
     NothingDangles, Reachable, TypeOK
<1>3. ASSUME NEW h \in held, FreeHandleRefused(h)  PROVE MemoryInv'
  BY <1>3, MemoryUntouched DEF FreeHandleRefused, struct, libusb, client
<1>4. CASE Exit
  BY <1>4, HandlesAssumption DEF Exit, libusb, client, MemoryInv, OpenInv, OwnInv, TypeOK
<1>5. CASE ExitRefused
  BY <1>5, MemoryUntouched DEF ExitRefused, struct, libusb, client
<1> QED
  BY <1>1, <1>2, <1>3, <1>4, <1>5, MemorySetDevice, MemoryHandleCalls DEF Next, SetDeviceCalls

LEMMA MemoryHolds == Spec => []MemoryInv
<1> QED  BY MemoryInit, MemoryNext, HandleTypes, PTL DEF Spec

\* No pointer of a program, and not the global one, dangles while the library
\* is up, whatever fails (disable_control, free_handle, set_device).
THEOREM PointersAreLive == Spec => []NothingDangles
<1>1. MemoryInv => NothingDangles
  BY DEF MemoryInv, OwnInv, NothingDangles
<1> QED  BY <1>1, MemoryHolds, PTL

\* No struct is freed with its libusb handle open (free_handle, exit).
THEOREM OpenIsKept == Spec => []UsbHandlesKept
<1>1. MemoryInv => UsbHandlesKept
  BY DEF MemoryInv, OpenInv, UsbHandlesKept
<1> QED  BY <1>1, MemoryHolds, PTL

-----------------------------------------------------------------------------
Careful == "create" \notin Faults /\ "replace_global" \notin Habits

LEMMA LeakNext ==
    Careful /\ TypeOK /\ MemoryInv /\ NothingLeaks /\ [Next]_vars => NothingLeaks'
<1> SUFFICES ASSUME Careful, TypeOK, MemoryInv, NothingLeaks, [Next]_vars  PROVE NothingLeaks'
  OBVIOUS
<1> USE DEF NothingLeaks, Reachable
<1>1. ASSUME UNCHANGED <<alloc, held, DeviceHandle>>  PROVE NothingLeaks'
  BY <1>1
<1>2. CASE UNCHANGED vars
  BY <1>2 DEF vars, struct, client
<1>3. CASE SetDeviceCalls
  <2> PICK m \in Wanted, own \in BOOLEAN :
        MaySet(own) /\ (
            \/ SetDeviceNoList(own)
            \/ SetDeviceNotFound(m, own)
            \/ SetDeviceCrashes(m, own)
            \/ SetDeviceNoMemory(m, own)
            \/ \E h \in Handles, garbage \in BOOLEAN : SetDeviceNoHandle(m, own, h, garbage)
            \/ \E h \in Handles : SetDevice(m, own, h))
    BY <1>3 DEF SetDeviceCalls, SetDeviceCall
  <2>1. CASE SetDeviceNoList(own) \/ SetDeviceNotFound(m, own) \/ SetDeviceCrashes(m, own)
    BY <1>1, <2>1 DEF SetDeviceNoList, SetDeviceNotFound, SetDeviceCrashes, struct, client
  <2>2. ASSUME NEW h \in Handles, NEW garbage \in BOOLEAN, SetDeviceNoHandle(m, own, h, garbage)
        PROVE FALSE
    BY <2>2 DEF SetDeviceNoHandle, Careful
  <2>3. CASE SetDeviceNoMemory(m, own)
    <3>1. DeviceHandle' = DeviceHandle
      BY <2>3 DEF SetDeviceNoMemory, Stored, MaySet, Careful
    <3> QED  BY <1>1, <2>3, <3>1 DEF SetDeviceNoMemory, struct
  <2>4. ASSUME NEW h \in Handles, SetDevice(m, own, h)  PROVE NothingLeaks'
    <3>1. \/ DeviceHandle' = DeviceHandle /\ held' = held \cup {h}
          \/ DeviceHandle = NULL /\ DeviceHandle' = h /\ held' = held
      BY <2>4 DEF SetDevice, Stored, MaySet, Careful
    <3> QED  BY <2>4, <3>1, HandlesAssumption DEF SetDevice, TypeOK
  <2> QED  BY <2>1, <2>2, <2>3, <2>4
<1>4. CASE HandleCalls
  <2> PICK p \in held \cup {NULL} :
        \/ NotSet(p) \/ DeadHandle(p)
        \/ EnableNoDriver(p) \/ EnableNoClaim(p) \/ EnableNoMode(p) \/ EnableNoFirmware(p)
        \/ Enable(p)
        \/ DisableNoMode(p) \/ DisableNoRelease(p) \/ Disable(p)
        \/ \E m \in {"firmware", "custom"} : SetControlMode(p, m)
        \/ Exchange(p) \/ ExchangeFails(p)
        \/ Reset(p) \/ ResetFails(p) \/ GetDeviceIdent(p)
    BY <1>4 DEF HandleCalls
  <2>1. CASE NotSet(p) \/ DeadHandle(p) \/ EnableNoDriver(p) \/ EnableNoClaim(p)
              \/ EnableNoMode(p) \/ EnableNoFirmware(p) \/ Enable(p)
    BY <1>1, <2>1 DEF NotSet, DeadHandle, EnableNoDriver, EnableNoClaim, EnableNoMode,
       EnableNoFirmware, Enable, struct, client
  <2>2. CASE DisableNoMode(p) \/ DisableNoRelease(p) \/ Reset(p) \/ ResetFails(p)
              \/ GetDeviceIdent(p)
    BY <1>1, <2>2 DEF DisableNoMode, DisableNoRelease, Reset, ResetFails, GetDeviceIdent,
       struct, client
  <2>3. CASE Disable(p)
    BY <2>3 DEF Disable, AllocAfter, GlobalAfter, client
  <2>4. ASSUME NEW m \in {"firmware", "custom"}, SetControlMode(p, m)  PROVE NothingLeaks'
    BY <1>1, <2>4 DEF SetControlMode, struct, client
  <2>5. CASE Exchange(p) \/ ExchangeFails(p)
    BY <1>1, <2>5 DEF Exchange, ExchangeFails, struct, client
  <2> QED  BY <2>1, <2>2, <2>3, <2>4, <2>5
<1>5. ASSUME NEW h \in held, FreeHandle(h)  PROVE NothingLeaks'
  BY <1>5 DEF FreeHandle
<1>6. CASE Exit
  BY <1>6 DEF Exit, client
<1>7. ASSUME NEW h \in held, FreeHandleRefused(h)  PROVE NothingLeaks'
  BY <1>1, <1>7 DEF FreeHandleRefused, struct, client
<1>8. CASE ExitRefused
  BY <1>1, <1>8 DEF ExitRefused, struct, client
<1> QED  BY <1>2, <1>3, <1>4, <1>5, <1>6, <1>7, <1>8 DEF Next

\* With the second libusb_open of set_device working, and programs that set
\* the global handle once, every struct can be reached until it is freed.
THEOREM NoneIsLost == Careful => (Spec => []NothingLeaks)
<1> SUFFICES ASSUME Careful  PROVE Spec => []NothingLeaks
  OBVIOUS
<1>1. Init => NothingLeaks
  BY DEF Init, NothingLeaks
<1>2. TypeOK /\ MemoryInv /\ NothingLeaks /\ [Next]_vars => NothingLeaks'
  BY LeakNext
<1> QED  BY <1>1, <1>2, HandleTypes, MemoryHolds, PTL DEF Spec

-----------------------------------------------------------------------------
(***************************************************************************)
(* The handles of libmk implement KeyboardLease, as long as reading the    *)
(* firmware version does not fail, which abandons the keyboard in custom   *)
(* mode, nor the second libusb_open, which leaves a handle half made.      *)
(***************************************************************************)

Sound == {"create", "firmware"} \cap Faults = {}

\* The claimant of a keyboard: open, alone, and there while it is controlled.
ClaimInv ==
    /\ \A h \in Handles : claimed[h] => usb[h] = "open"
    /\ \A g, h \in Handles : claimed[g] /\ claimed[h] /\ dev[g] = dev[h] => g = h
    /\ \A k \in Index : mode[k] = "custom" => \E h \in Handles : claimed[h] /\ dev[h] = k

LeaseInv == TypeOK /\ MemoryInv /\ ClaimInv

\* The actions that touch neither handles nor keyboards.
Quiet == UNCHANGED <<alloc, open, dev, usb, claimed, mode>>

\* The actions, as what they do to the handle h and its keyboard.
ClaimsFor(h) ==
    /\ usb[h] = "open" /\ ~Busy(h)
    /\ claimed' = [claimed EXCEPT ![h] = TRUE]
    /\ mode' \in {mode, [mode EXCEPT ![dev[h]] = "custom"]}
    /\ UNCHANGED <<alloc, open, dev, usb>>
TakesBack(h) ==
    /\ claimed[h] /\ mode' = [mode EXCEPT ![dev[h]] = "custom"]
    /\ UNCHANGED <<alloc, open, dev, usb, claimed>>
Returns(k) ==
    /\ mode' = [mode EXCEPT ![k] = "firmware"]
    /\ UNCHANGED <<alloc, open, dev, usb, claimed>>
Opens(h) ==
    /\ h \notin alloc /\ alloc' = alloc \cup {h}
    /\ open' = [open EXCEPT ![h] = TRUE] /\ usb' = [usb EXCEPT ![h] = "open"]
    /\ \E k \in Index : dev' = [dev EXCEPT ![h] = k]
    /\ UNCHANGED <<claimed, mode>>
Closes(h) ==
    /\ usb[h] = "open" /\ claimed[h]
    /\ mode' = [mode EXCEPT ![dev[h]] = "firmware"]
    /\ claimed' = [claimed EXCEPT ![h] = FALSE] /\ usb' = [usb EXCEPT ![h] = "closed"]
    /\ open' = [open EXCEPT ![h] = FALSE] /\ alloc' \in {alloc, alloc \ {h}}
    /\ dev' = dev
Frees(h) ==
    /\ h \in alloc /\ ~open[h] /\ alloc' = alloc \ {h}
    /\ UNCHANGED <<open, dev, usb, claimed, mode>>

Effect ==
    \/ Quiet
    \/ \E h \in Handles : ClaimsFor(h) \/ TakesBack(h) \/ Opens(h) \/ Closes(h) \/ Frees(h)
    \/ \E k \in Index : Returns(k)

\* Every step of the handles has one of these effects.
LEMMA EffectOfNext == Sound /\ LeaseInv /\ [Next]_vars => Effect
<1> SUFFICES ASSUME Sound, LeaseInv, [Next]_vars  PROVE Effect
  OBVIOUS
<1>1. CASE UNCHANGED vars
  BY <1>1 DEF vars, struct, libusb, keyboard, Effect, Quiet
<1>2. CASE SetDeviceCalls
  <2> PICK m \in Wanted, own \in BOOLEAN :
        MaySet(own) /\ (
            \/ SetDeviceNoList(own)
            \/ SetDeviceNotFound(m, own)
            \/ SetDeviceCrashes(m, own)
            \/ SetDeviceNoMemory(m, own)
            \/ \E h \in Handles, garbage \in BOOLEAN : SetDeviceNoHandle(m, own, h, garbage)
            \/ \E h \in Handles : SetDevice(m, own, h))
    BY <1>2 DEF SetDeviceCalls, SetDeviceCall
  <2>1. CASE SetDeviceNoList(own) \/ SetDeviceNotFound(m, own) \/ SetDeviceCrashes(m, own)
              \/ SetDeviceNoMemory(m, own)
    BY <2>1 DEF SetDeviceNoList, SetDeviceNotFound, SetDeviceCrashes, SetDeviceNoMemory,
       struct, libusb, keyboard, Effect, Quiet
  <2>2. ASSUME NEW h \in Handles, NEW garbage \in BOOLEAN, SetDeviceNoHandle(m, own, h, garbage)
        PROVE FALSE
    BY <2>2 DEF SetDeviceNoHandle, Sound
  <2>3. ASSUME NEW h \in Handles, SetDevice(m, own, h)  PROVE Opens(h)
    <3>1. Chosen(m) \in Index
      BY <2>3, ChosenIsIndex DEF SetDevice, LeaseInv
    <3> QED  BY <2>3, <3>1 DEF SetDevice, Opens, keyboard
  <2> QED  BY <2>1, <2>2, <2>3 DEF Effect
<1>3. CASE HandleCalls
  <2> PICK p \in held \cup {NULL} :
        \/ NotSet(p) \/ DeadHandle(p)
        \/ EnableNoDriver(p) \/ EnableNoClaim(p) \/ EnableNoMode(p) \/ EnableNoFirmware(p)
        \/ Enable(p)
        \/ DisableNoMode(p) \/ DisableNoRelease(p) \/ Disable(p)
        \/ \E m \in {"firmware", "custom"} : SetControlMode(p, m)
        \/ Exchange(p) \/ ExchangeFails(p)
        \/ Reset(p) \/ ResetFails(p) \/ GetDeviceIdent(p)
    BY <1>3 DEF HandleCalls
  <2>1. CASE NotSet(p) \/ DeadHandle(p) \/ EnableNoDriver(p) \/ EnableNoClaim(p)
              \/ DisableNoMode(p) \/ ResetFails(p) \/ GetDeviceIdent(p)
              \/ Exchange(p) \/ ExchangeFails(p)
    BY <2>1 DEF NotSet, DeadHandle, EnableNoDriver, EnableNoClaim, DisableNoMode, ResetFails,
       Exchange, ExchangeFails, GetDeviceIdent, struct, libusb, keyboard, Effect, Quiet
  <2>2. CASE EnableNoFirmware(p)
    BY <2>2 DEF EnableNoFirmware, Sound
  <2>3. ASSUME Reaches(p)
        PROVE  /\ Target(p) \in Handles /\ usb[Target(p)] = "open"
               /\ Target(p) \in alloc
    BY <2>3 DEF Reaches, Target, LeaseInv, TypeOK, MemoryInv, OpenInv
  <2>4. CASE EnableNoMode(p) \/ Enable(p)
    <3>1. ClaimsFor(Target(p))
      BY <2>3, <2>4 DEF EnableNoMode, Enable, Claims, struct, ClaimsFor
    <3> QED  BY <2>3, <2>4, <3>1 DEF EnableNoMode, Enable, Effect
  <2>5. CASE DisableNoRelease(p)
    <3>1. Target(p) \in Handles /\ dev[Target(p)] \in Index \cup {0}
      BY <2>3, <2>5 DEF DisableNoRelease, LeaseInv, TypeOK
    <3>2. CASE dev[Target(p)] \in Index
      BY <2>5, <3>2 DEF DisableNoRelease, struct, libusb, Returns, Effect
    <3>3. CASE dev[Target(p)] \notin Index
      BY <2>5, <3>3 DEF DisableNoRelease, struct, libusb, Quiet, Effect, LeaseInv, TypeOK
    <3> QED  BY <3>2, <3>3
  <2>6. CASE Reset(p)
    <3>1. CASE dev[Target(p)] \in Index
      BY <2>6, <3>1 DEF Reset, struct, libusb, Returns, Quiet, Effect
    <3>2. CASE dev[Target(p)] \notin Index
      BY <2>6, <3>2 DEF Reset, struct, libusb, Quiet, Effect, LeaseInv, TypeOK
    <3> QED  BY <3>1, <3>2
  <2>7. CASE Disable(p)
    <3>1. Closes(Target(p))
      BY <2>3, <2>7 DEF Disable, AllocAfter, ReleasedMode, Closes
    <3> QED  BY <2>3, <2>7, <3>1 DEF Disable, Effect
  <2>8. ASSUME NEW m \in {"firmware", "custom"}, SetControlMode(p, m)  PROVE Effect
    <3>1. CASE dev[Target(p)] \notin Index
      BY <2>8, <3>1 DEF SetControlMode, struct, libusb, Quiet, Effect, LeaseInv, TypeOK
    <3>2. CASE dev[Target(p)] \in Index /\ m = "firmware"
      BY <2>8, <3>2 DEF SetControlMode, struct, libusb, Returns, Effect
    <3>3. CASE m = "custom"
      <4>1. TakesBack(Target(p))
        BY <2>8, <3>3 DEF SetControlMode, struct, libusb, TakesBack
      <4> QED  BY <2>3, <2>8, <4>1 DEF SetControlMode, Effect
    <3> QED  BY <2>8, <3>1, <3>2, <3>3
  <2> QED  BY <2>1, <2>2, <2>4, <2>5, <2>6, <2>7, <2>8
<1>4. ASSUME NEW h \in held, FreeHandle(h) \/ FreeHandleRefused(h)  PROVE Effect
  <2>1. h \in Handles
    BY DEF LeaseInv, TypeOK
  <2>2. CASE FreeHandle(h)
    <3>1. h \in alloc
      BY <2>2 DEF FreeHandle, LeaseInv, MemoryInv, OwnInv, NothingDangles, Reachable
    <3>2. Frees(h)
      BY <2>2, <3>1 DEF FreeHandle, MayFree, libusb, keyboard, Frees
    <3> QED  BY <2>1, <3>2 DEF Effect
  <2>3. CASE FreeHandleRefused(h)
    BY <2>3 DEF FreeHandleRefused, struct, libusb, keyboard, Effect, Quiet
  <2> QED  BY <1>4, <2>2, <2>3
<1>5. CASE Exit
  <2>1. CASE DeviceHandle = NULL
    <3>1. alloc' = alloc
      BY <1>5, <2>1, HandlesAssumption DEF Exit, LeaseInv, TypeOK
    <3> QED  BY <1>5, <3>1 DEF Exit, libusb, keyboard, Effect, Quiet
  <2>2. CASE DeviceHandle # NULL
    <3>1. DeviceHandle \in Handles /\ DeviceHandle \in alloc
      BY <1>5, <2>2 DEF Exit, LeaseInv, TypeOK, MemoryInv, OwnInv, NothingDangles, Reachable
    <3>2. Frees(DeviceHandle)
      BY <1>5, <2>2, <3>1 DEF Exit, libusb, keyboard, Frees
    <3> QED  BY <3>1, <3>2 DEF Effect
  <2> QED  BY <2>1, <2>2
<1>6. CASE ExitRefused
  BY <1>6 DEF ExitRefused, struct, libusb, keyboard, Effect, Quiet
<1> QED  BY <1>1, <1>2, <1>3, <1>4, <1>5, <1>6 DEF Next

-----------------------------------------------------------------------------
LEMMA ClaimInit == Init => ClaimInv
  BY DEF Init, ClaimInv

LEMMA ClaimNext == LeaseInv /\ Effect => ClaimInv'
<1> SUFFICES ASSUME LeaseInv, Effect  PROVE ClaimInv'
  OBVIOUS
<1> USE DEF LeaseInv, ClaimInv, TypeOK
<1>1. CASE Quiet
  BY <1>1 DEF Quiet, Index
<1>2. ASSUME NEW h \in Handles, ClaimsFor(h)  PROVE ClaimInv'
  <2>1. /\ claimed' = [claimed EXCEPT ![h] = TRUE] /\ UNCHANGED <<dev, usb>>
        /\ usb[h] = "open" /\ \A g \in Handles : g # h /\ claimed[g] => dev[g] # dev[h]
    BY <1>2 DEF ClaimsFor, Busy
  <2>2. \A k \in Index : mode'[k] = "custom" => mode[k] = "custom" \/ k = dev[h]
    BY <1>2 DEF ClaimsFor
  <2>3. \A k \in Index : mode'[k] = "custom" => \E g \in Handles : claimed'[g] /\ dev'[g] = k
    BY <2>1, <2>2
  <2> QED  BY <2>1, <2>3 DEF Index
<1>3. ASSUME NEW h \in Handles, Opens(h)  PROVE ClaimInv'
  <2>1. ~claimed[h]
    BY <1>3 DEF Opens, MemoryInv, OpenInv
  <2>2. claimed' = claimed /\ mode' = mode /\ usb' = [usb EXCEPT ![h] = "open"]
    BY <1>3 DEF Opens
  <2>3. \A g \in Handles : claimed[g] => g # h /\ dev'[g] = dev[g] /\ usb'[g] = usb[g]
    BY <1>3, <2>1, <2>2 DEF Opens
  <2>4. \A g \in Handles : claimed'[g] => usb'[g] = "open"
    BY <2>2, <2>3
  <2>5. \A f, g \in Handles : claimed'[f] /\ claimed'[g] /\ dev'[f] = dev'[g] => f = g
    BY <2>2, <2>3
  <2>6. \A k \in Index : mode'[k] = "custom" => \E g \in Handles : claimed'[g] /\ dev'[g] = k
    BY <2>2, <2>3
  <2> QED  BY <2>4, <2>5, <2>6 DEF Index
<1>4. ASSUME NEW h \in Handles, Closes(h)  PROVE ClaimInv'
  <2>1. /\ claimed' = [claimed EXCEPT ![h] = FALSE] /\ usb' = [usb EXCEPT ![h] = "closed"]
        /\ mode' = [mode EXCEPT ![dev[h]] = "firmware"] /\ dev' = dev
    BY <1>4 DEF Closes
  <2>2. \A g \in Handles : claimed'[g] => usb'[g] = "open"
    BY <2>1
  <2>3. \A f, g \in Handles : claimed'[f] /\ claimed'[g] /\ dev'[f] = dev'[g] => f = g
    BY <2>1
  <2>4. ASSUME NEW k \in Index, mode'[k] = "custom"
        PROVE  \E g \in Handles : claimed'[g] /\ dev'[g] = k
    <3>1. k # dev[h] /\ mode[k] = "custom"
      BY <2>1, <2>4
    <3>2. PICK g \in Handles : claimed[g] /\ dev[g] = k
      BY <3>1
    <3> QED  BY <2>1, <3>1, <3>2
  <2> QED  BY <2>2, <2>3, <2>4 DEF Index
<1>5. ASSUME NEW h \in Handles, Frees(h)  PROVE ClaimInv'
  BY <1>5 DEF Frees, Index
<1>6. ASSUME NEW k \in Index, Returns(k)  PROVE ClaimInv'
  BY <1>6 DEF Returns, Index
<1>7. ASSUME NEW h \in Handles, TakesBack(h)  PROVE ClaimInv'
  <2>1. /\ claimed' = claimed /\ dev' = dev /\ usb' = usb /\ claimed[h]
        /\ \A k \in Index : mode'[k] = "custom" => mode[k] = "custom" \/ k = dev[h]
    BY <1>7 DEF TakesBack
  <2> QED  BY <2>1 DEF Index
<1> QED  BY <1>1, <1>2, <1>3, <1>4, <1>5, <1>6, <1>7 DEF Effect

LEMMA LeaseInvHolds == Sound => (Spec => []LeaseInv)
<1> SUFFICES ASSUME Sound  PROVE Spec => []LeaseInv
  OBVIOUS
<1>1. LeaseInv /\ [Next]_vars => ClaimInv'
  BY EffectOfNext, ClaimNext
<1> QED  BY <1>1, ClaimInit, HandleTypes, MemoryHolds, PTL DEF Spec, LeaseInv

-----------------------------------------------------------------------------
(***************************************************************************)
(* The refinement.                                                         *)
(***************************************************************************)
Life == [h \in Handles |-> IF h \notin alloc THEN "none" ELSE IF open[h] THEN "open" ELSE "closed"]
Leases == [k \in Index |-> Controller(k)]

\* The mapping reads the claimant off a controlled keyboard.
ClaimantControls ==
    \A k \in Index :
        /\ mode[k] = "firmware" => Controller(k) = NULL
        /\ \A h \in Handles : mode[k] = "custom" /\ claimed[h] /\ dev[h] = k => Controller(k) = h

LEMMA ControllerIs == LeaseInv => ClaimantControls
<1> SUFFICES ASSUME LeaseInv, NEW k \in Index
             PROVE  /\ mode[k] = "firmware" => Controller(k) = NULL
                    /\ \A h \in Handles : mode[k] = "custom" /\ claimed[h] /\ dev[h] = k
                          => Controller(k) = h
  BY DEF ClaimantControls
<1>1. ASSUME NEW h \in Handles, mode[k] = "custom", claimed[h], dev[h] = k
      PROVE  Controller(k) = h
  <2>1. h \in alloc
    BY <1>1 DEF LeaseInv, ClaimInv, MemoryInv, OpenInv
  <2>2. \A g \in alloc : claimed[g] /\ dev[g] = k => g = h
    BY <1>1 DEF LeaseInv, ClaimInv, TypeOK
  <2> QED  BY <1>1, <2>1, <2>2 DEF Controller
<1> QED  BY <1>1 DEF Controller

\* A keyboard whose mode, claimant and claimant's device stay is mapped alike.
LEMMA LeaseKept ==
    ASSUME LeaseInv, LeaseInv', NEW k \in Index, mode'[k] = mode[k],
           \A h \in Handles : claimed[h] /\ dev[h] = k => claimed'[h] /\ dev'[h] = k
    PROVE  Leases'[k] = Leases[k]
<1>1. Leases[k] = Controller(k) /\ Leases'[k] = Controller(k)'
  BY DEF Leases, Index
<1>2. /\ mode'[k] = "firmware" => Controller(k)' = NULL
      /\ \A h \in Handles : mode'[k] = "custom" /\ claimed'[h] /\ dev'[h] = k
            => Controller(k)' = h
  <2>1. LeaseInv' => ClaimantControls'
    BY ControllerIs, PTL
  <2> QED  BY <2>1 DEF ClaimantControls, Index
<1>3. CASE mode[k] = "firmware"
  BY <1>1, <1>2, <1>3, ControllerIs DEF ClaimantControls
<1>4. CASE mode[k] = "custom"
  <2>1. PICK h \in Handles : claimed[h] /\ dev[h] = k
    BY <1>4 DEF LeaseInv, ClaimInv
  <2>2. Controller(k) = h
    BY <1>4, <2>1, ControllerIs DEF ClaimantControls
  <2>3. Controller(k)' = h
    BY <1>2, <1>4, <2>1
  <2> QED  BY <1>1, <2>2, <2>3
<1> QED  BY <1>3, <1>4 DEF LeaseInv, TypeOK

LEMMA LeaseStep == LeaseInv /\ LeaseInv' /\ Effect => [Lease!LeaseNext]_<<Life, Leases>>
<1> SUFFICES ASSUME LeaseInv, LeaseInv', Effect  PROVE [Lease!LeaseNext]_<<Life, Leases>>
  OBVIOUS
<1>0. /\ \A h \in Handles : Life[h] = IF h \notin alloc THEN "none"
                                      ELSE IF open[h] THEN "open" ELSE "closed"
      /\ DOMAIN Life = Handles /\ DOMAIN Life' = Handles
      /\ \A h \in Handles : Life'[h] = IF h \notin alloc' THEN "none"
                                       ELSE IF open'[h] THEN "open" ELSE "closed"
      /\ Leases = [k \in Index |-> Leases[k]] /\ Leases' = [k \in Index |-> Leases'[k]]
  BY DEF Life, Leases, Index
<1>1. ASSUME NEW k \in Index
      PROVE  /\ Leases'[k] = Controller(k)' /\ Leases[k] = Controller(k)
             /\ mode'[k] = "firmware" => Leases'[k] = NULL
             /\ \A h \in Handles : mode'[k] = "custom" /\ claimed'[h] /\ dev'[h] = k
                   => Leases'[k] = h
             /\ mode[k] = "firmware" => Leases[k] = NULL
             /\ \A h \in Handles : mode[k] = "custom" /\ claimed[h] /\ dev[h] = k
                   => Leases[k] = h
  <2>1. ClaimantControls /\ ClaimantControls'
    BY ControllerIs, PTL
  <2> QED  BY <2>1 DEF ClaimantControls, Leases, Index
<1>2. CASE Quiet
  <2>1. \A k \in Index : Leases'[k] = Leases[k]
    BY <1>2, LeaseKept DEF Quiet
  <2>2. Life' = Life
    BY <1>2 DEF Life, Quiet
  <2> QED  BY <1>0, <2>1, <2>2
<1>3. ASSUME NEW h \in Handles, ClaimsFor(h) \/ TakesBack(h)
      PROVE  [Lease!LeaseNext]_<<Life, Leases>>
  <2>0. /\ UNCHANGED <<alloc, open, dev, usb>> /\ usb[h] = "open" /\ claimed'[h]
        /\ \A g \in Handles : claimed[g] => claimed'[g]
        /\ \A g \in Handles : g # h /\ claimed[g] => dev[g] # dev[h]
        /\ mode' \in {mode, [mode EXCEPT ![dev[h]] = "custom"]}
    BY <1>3 DEF ClaimsFor, Busy, TakesBack, LeaseInv, ClaimInv, TypeOK
  <2>1. Life' = Life
    BY <2>0 DEF Life
  <2>2. \A k \in Index : mode'[k] = mode[k] => Leases'[k] = Leases[k]
    BY <2>0, LeaseKept
  <2>3. CASE mode' = mode
    BY <1>0, <2>1, <2>2, <2>3
  <2>4. CASE mode' # mode
    <3>1. mode' = [mode EXCEPT ![dev[h]] = "custom"]
      BY <2>0, <2>4
    <3>2. dev[h] \in Index /\ mode[dev[h]] = "firmware" /\ mode'[dev[h]] = "custom"
      BY <2>4, <3>1 DEF LeaseInv, TypeOK
    <3>3. Leases'[dev[h]] = h /\ Leases[dev[h]] = NULL
      BY <1>1, <2>0, <3>2
    <3>4. \A k \in Index : k # dev[h] => Leases'[k] = Leases[k]
      BY <2>2, <3>1 DEF LeaseInv, TypeOK
    <3>5. Leases' = [Leases EXCEPT ![dev[h]] = h]
      BY <1>0, <3>2, <3>3, <3>4
    <3>6. Life[h] = "open"
      BY <1>0, <2>0 DEF LeaseInv, MemoryInv, OpenInv
    <3>7. PICK k \in Index : k = dev[h]
      BY <3>2
    <3>8. Lease!Control(h, k)
      BY <2>1, <3>3, <3>5, <3>6, <3>7 DEF Lease!Control, Life, Leases
    <3> QED  BY <3>8 DEF Lease!LeaseNext
  <2> QED  BY <2>3, <2>4
<1>4. ASSUME NEW h \in Handles, Opens(h)  PROVE [Lease!LeaseNext]_<<Life, Leases>>
  <2>1. \A g \in Handles : claimed[g] => g # h
    BY <1>4 DEF Opens, LeaseInv, MemoryInv, OpenInv, ClaimInv
  <2>2. \A k \in Index : Leases'[k] = Leases[k]
    BY <1>4, <2>1, LeaseKept DEF Opens, LeaseInv, TypeOK
  <2>3. Life[h] = "none" /\ Life' = [Life EXCEPT ![h] = "open"]
    <3>1. Life[h] = "none" /\ Life'[h] = "open"
      BY <1>0, <1>4 DEF Opens, LeaseInv, TypeOK
    <3>2. \A g \in Handles : g # h => Life'[g] = Life[g]
      BY <1>0, <1>4 DEF Opens, LeaseInv, TypeOK
    <3>3. Life = [g \in Handles |-> Life[g]] /\ Life' = [g \in Handles |-> Life'[g]]
      BY DEF Life
    <3> QED  BY <3>1, <3>2, <3>3
  <2>4. Lease!Open(h)
    BY <1>0, <2>2, <2>3 DEF Lease!Open, Life, Leases
  <2> QED  BY <2>4 DEF Lease!LeaseNext
<1>5. ASSUME NEW h \in Handles, Closes(h)  PROVE [Lease!LeaseNext]_<<Life, Leases>>
  <2>1. Life[h] = "open"
    BY <1>0, <1>5 DEF Closes, LeaseInv, MemoryInv, OpenInv
  <2>2. \E end \in {"closed", "none"} : Life' = [Life EXCEPT ![h] = end]
    <3>1. Life'[h] \in {"closed", "none"}
      BY <1>0, <1>5 DEF Closes, LeaseInv, TypeOK
    <3>2. \A g \in Handles : g # h => Life'[g] = Life[g]
      BY <1>0, <1>5 DEF Closes, LeaseInv, TypeOK
    <3>3. Life' = [Life EXCEPT ![h] = Life'[h]]
      <4>1. Life = [g \in Handles |-> Life[g]] /\ Life' = [g \in Handles |-> Life'[g]]
        BY DEF Life
      <4> QED  BY <3>2, <4>1
    <3> QED  BY <3>1, <3>3
  <2>3. ASSUME NEW k \in Index
        PROVE  Leases'[k] = IF Leases[k] = h THEN NULL ELSE Leases[k]
    <3>1. CASE k = dev[h]
      <4>1. mode'[k] = "firmware"
        BY <1>5, <3>1 DEF Closes, LeaseInv, TypeOK
      <4>2. Leases[k] \in {h, NULL}
        BY <1>1, <1>5, <3>1 DEF Closes, LeaseInv, TypeOK
      <4> QED  BY <1>1, <4>1, <4>2
    <3>2. CASE k # dev[h]
      <4>1. mode'[k] = mode[k]
        BY <1>5, <3>2 DEF Closes, LeaseInv, TypeOK
      <4>2. Leases'[k] = Leases[k]
        BY <1>5, <3>2, <4>1, LeaseKept DEF Closes, LeaseInv, TypeOK
      <4>3. Leases[k] # h
        <5>1. CASE mode[k] = "firmware"
          BY <1>1, <5>1, HandlesAssumption
        <5>2. CASE mode[k] = "custom"
          <6>1. PICK g \in Handles : claimed[g] /\ dev[g] = k
            BY <5>2 DEF LeaseInv, ClaimInv
          <6> QED  BY <1>1, <3>2, <5>2, <6>1
        <5> QED  BY <5>1, <5>2 DEF LeaseInv, TypeOK
      <4> QED  BY <4>2, <4>3
    <3> QED  BY <3>1, <3>2
  <2>4. Leases' = [k \in Index |-> IF Leases[k] = h THEN NULL ELSE Leases[k]]
    BY <1>0, <2>3
  <2>5. Lease!Close(h)
    BY <2>1, <2>2, <2>4 DEF Lease!Close, Life, Leases
  <2> QED  BY <2>5 DEF Lease!LeaseNext
<1>6. ASSUME NEW h \in Handles, Frees(h)  PROVE [Lease!LeaseNext]_<<Life, Leases>>
  <2>1. \A k \in Index : Leases'[k] = Leases[k]
    BY <1>6, LeaseKept DEF Frees
  <2>2. Life[h] = "closed" /\ Life' = [Life EXCEPT ![h] = "none"]
    BY <1>0, <1>6 DEF Frees, Life
  <2>3. Lease!Discard(h)
    BY <1>0, <2>1, <2>2 DEF Lease!Discard, Life, Leases
  <2> QED  BY <2>3 DEF Lease!LeaseNext
<1>7. ASSUME NEW k \in Index, Returns(k)  PROVE [Lease!LeaseNext]_<<Life, Leases>>
  <2>1. Life' = Life
    BY <1>7 DEF Returns, Life
  <2>2. Leases'[k] = NULL
    BY <1>1, <1>7 DEF Returns, LeaseInv, TypeOK
  <2>3. \A j \in Index : j # k => Leases'[j] = Leases[j]
    BY <1>7, LeaseKept DEF Returns, LeaseInv, TypeOK
  <2>4. Leases' = [Leases EXCEPT ![k] = NULL]
    BY <1>0, <2>2, <2>3
  <2>5. CASE Leases[k] = NULL
    BY <1>0, <2>1, <2>4, <2>5
  <2>6. CASE Leases[k] # NULL
    <3>1. Lease!Yield(k)
      BY <2>1, <2>4, <2>6 DEF Lease!Yield, Life, Leases
    <3> QED  BY <3>1 DEF Lease!LeaseNext
  <2> QED  BY <2>5, <2>6
<1> QED  BY <1>2, <1>3, <1>4, <1>5, <1>6, <1>7 DEF Effect

(***************************************************************************)
(* With the firmware read and the second libusb_open working, whatever     *)
(* else fails: no two handles control a keyboard, no handle is opened      *)
(* twice, and a handle that is closed has given its keyboard back.         *)
(***************************************************************************)
THEOREM ImplementsLease == Sound => (Spec => LeaseSpec)
<1> SUFFICES ASSUME Sound  PROVE Spec => LeaseSpec
  OBVIOUS
<1>1. Init => Lease!LeaseInit
  BY DEF Init, Lease!LeaseInit, Controller
<1>2. LeaseInv /\ LeaseInv' /\ [Next]_vars => [Lease!LeaseNext]_<<Life, Leases>>
  BY EffectOfNext, LeaseStep
<1>3. Spec => []LeaseInv
  BY LeaseInvHolds
<1> QED  BY <1>1, <1>2, <1>3, PTL DEF Spec, LeaseSpec, Lease!LeaseSpec, Life, Leases
=============================================================================
