---------------------------- MODULE ProgramsProofs ----------------------------
(***************************************************************************)
(* Theorems about the programs of the repository, for every bus, every     *)
(* number of handles and every combination of failing calls: that their    *)
(* calls keep the memory of the handles, and what they leave behind.       *)
(***************************************************************************)
EXTENDS Programs, HandleProofs

\* What a step of a program does to libmk.
LibraryStep ==
    \/ \E m : \E own \in BOOLEAN : SetDeviceCall(m, own)
    \/ HandleCalls
    \/ \E h \in held : FreeHandle(h) \/ FreeHandleRefused(h)
    \/ Exit \/ ExitRefused \/ LightAfterExit
    \/ /\ result' \in Results
       /\ UNCHANGED <<bus, DeviceHandle, struct, libusb, keyboard, client, log, lib>>

\* The functions of libmk with all their outcomes are calls of Handle.
LEMMA CallsOnHandles ==
    ASSUME NEW p, \/ libmk_enable_control(p) \/ libmk_disable_control(p)
                  \/ libmk_set_control_mode(p) \/ Light(p) \/ libmk_reset(p)
                  \/ NotSet(p) \/ GetDeviceIdent(p)
    PROVE  HandleCalls
<1>. USE DEF OnNone
<1>1. p \in held \cup {NULL}
  <2>1. MayPass(p)
    BY DEF libmk_enable_control, libmk_disable_control, libmk_set_control_mode, Light,
       libmk_reset, NotSet, DeadHandle, EnableNoDriver, EnableNoClaim, EnableNoMode,
       EnableNoFirmware, Enable, DisableNoMode, DisableNoRelease, Disable, SetControlMode,
       Exchange, ExchangeFails, Reset, ResetFails, GetDeviceIdent, Reaches
  <2>. QED  BY <2>1 DEF MayPass
<1>. QED
  BY <1>1 DEF HandleCalls, libmk_enable_control, libmk_disable_control,
     libmk_set_control_mode, Light, libmk_reset

LEMMA FreeingIsAStep ==
    ASSUME NEW p, libmk_free_handle(p) \/ libmk_exit PROVE LibraryStep
  BY DEF libmk_free_handle, FreeHandle, FreeHandleRefused, libmk_exit, LibraryStep

LEMMA DetectIsAStep == ASSUME TypeOK, libmk_detect_devices PROVE LibraryStep
  BY DEF libmk_detect_devices, LibraryStep, Results

LEMMA NothingIsAStep == ASSUME TypeOK, UNCHANGED vars PROVE LibraryStep
  BY DEF vars, LibraryStep, TypeOK

LEMMA CallIsAStep == ASSUME TypeOK, Calls PROVE LibraryStep
<1>1. CASE call = "detect" /\ libmk_detect_devices
  BY <1>1, DetectIsAStep
<1>2. CASE \E m \in Offered : SetDeviceCall(m, Own)
  <2>1. Own \in BOOLEAN
    BY DEF Own
  <2>2. \E m : \E own \in BOOLEAN : SetDeviceCall(m, own)
    BY <1>2, <2>1
  <2>. QED  BY <2>2 DEF LibraryStep
<1>3. CASE UNCHANGED vars
  BY <1>3, NothingIsAStep
<1>4. CASE \/ libmk_enable_control(Passed) \/ Light(Passed)
           \/ libmk_disable_control(Passed) \/ libmk_reset(Passed)
  BY <1>4, CallsOnHandles DEF LibraryStep
<1>5. CASE libmk_free_handle(Passed) \/ libmk_exit
  BY <1>5, FreeingIsAStep
<1>6. CASE LightAfterExit
  BY <1>6 DEF LibraryStep
<1>. QED  BY <1>1, <1>2, <1>3, <1>4, <1>5, <1>6 DEF Calls

LEMMA PythonCallIsAStep == ASSUME TypeOK, PythonCalls PROVE LibraryStep
<1>1. CASE masterkeys_detect_devices
  BY <1>1, DetectIsAStep DEF masterkeys_detect_devices
<1>2. CASE masterkeys_set_device
  BY <1>2, NothingIsAStep DEF masterkeys_set_device, Rejected, LibraryStep
<1>3. CASE masterkeys_enable_control \/ masterkeys_disable_control
  BY <1>3, CallsOnHandles
     DEF masterkeys_enable_control, masterkeys_disable_control, LibraryStep
<1>4. CASE masterkeys_set_control_mode
  BY <1>4, CallsOnHandles, NothingIsAStep DEF masterkeys_set_control_mode, Rejected, LibraryStep
<1>5. CASE masterkeys_set_color \/ masterkeys_get_active_profile
  BY <1>5, CallsOnHandles, NothingIsAStep
     DEF masterkeys_set_color, masterkeys_get_active_profile, Rejected, LibraryStep
<1>6. CASE masterkeys_get_device_ident
  BY <1>6, CallsOnHandles DEF masterkeys_get_device_ident, LibraryStep
<1>7. CASE AtExit
  BY <1>7, FreeingIsAStep DEF AtExit
<1>. QED  BY <1>1, <1>2, <1>3, <1>4, <1>5, <1>6, <1>7 DEF PythonCalls

LEMMA ThreadIsAStep ==
    ASSUME TypeOK, NEW h \in Handles, ControllerThread(h) PROVE LibraryStep
<1>1. CASE ThreadBegins(h) \/ ThreadDrains(h) \/ ThreadStops(h)
  BY <1>1, NothingIsAStep DEF ThreadBegins, ThreadDrains, ThreadStops
<1>2. CASE ThreadExecutes(h) \/ ThreadFails(h)
  BY <1>2, CallsOnHandles DEF ThreadExecutes, ThreadFails, Light, LibraryStep
<1>3. CASE ThreadDisables(h)
  BY <1>3, CallsOnHandles DEF ThreadDisables, LibraryStep
<1>. QED  BY <1>1, <1>2, <1>3 DEF ControllerThread

LEMMA ProgramsStepLibrary ==
    ASSUME TypeOK, [ProgramsNext]_<<vars, script>> PROVE LibraryStep
<1>1. CASE UNCHANGED <<vars, script>>
  BY <1>1, NothingIsAStep
<1>2. CASE Step
  BY <1>2, CallIsAStep, PythonCallIsAStep DEF Step
<1>3. CASE HasNoModel \/ CreateFails \/ Join
  BY <1>3, NothingIsAStep DEF HasNoModel, CreateFails, Join
<1>4. CASE AnyCall
  BY <1>4 DEF AnyCall, Next, SetDeviceCalls, LibraryStep
<1>. QED  BY <1>1, <1>2, <1>3, <1>4, ThreadIsAStep DEF ProgramsNext

-----------------------------------------------------------------------------
(* Types and memory *)

LEMMA LibraryTypes == ASSUME TypeOK, LibraryStep PROVE TypeOK'
<1>. USE DEF TypeOK, struct, libusb, keyboard, client, log
<1>1. CASE \E h \in held : FreeHandle(h) \/ FreeHandleRefused(h)
  BY <1>1 DEF FreeHandle, FreeHandleRefused, Results
<1>2. CASE Exit \/ ExitRefused
  BY <1>2 DEF Exit, ExitRefused, Results
<1>3. CASE LightAfterExit
  BY <1>3 DEF LightAfterExit, Results, Crashes
<1>4. CASE /\ result' \in Results
           /\ UNCHANGED <<bus, DeviceHandle, struct, libusb, keyboard, client, log, lib>>
  BY <1>4
<1>. HIDE DEF TypeOK, struct, libusb, keyboard, client, log
<1>. QED
  BY <1>1, <1>2, <1>3, <1>4, TypeSetDevice, TypeHandleCalls DEF LibraryStep

LEMMA LibraryMemory == ASSUME TypeOK, MemoryInv, LibraryStep PROVE MemoryInv'
<1>1. CASE Next
  BY <1>1, MemoryNext
<1>2. CASE LightAfterExit
  BY <1>2, MemoryUntouched DEF LightAfterExit, struct, libusb, client
<1>3. CASE UNCHANGED <<bus, DeviceHandle, struct, libusb, keyboard, client, log, lib>>
  BY <1>3, MemoryUntouched DEF struct, libusb, client
<1>. QED  BY <1>1, <1>2, <1>3, MemorySetDevice DEF LibraryStep, Next

LEMMA ProgramsMemory == ProgramsSpec => [](TypeOK /\ MemoryInv)
<1>1. ProgramsInit => TypeOK /\ MemoryInv
  BY TypeInit, MemoryInit DEF ProgramsInit
<1>2. TypeOK /\ MemoryInv /\ [ProgramsNext]_<<vars, script>> => (TypeOK /\ MemoryInv)'
  BY ProgramsStepLibrary, LibraryTypes, LibraryMemory
<1>. QED  BY <1>1, <1>2, PTL DEF ProgramsSpec

(***************************************************************************)
(* Whatever the programs, a Python session or any other client call, and   *)
(* whatever fails: no pointer to a handle dangles while the library is up. *)
(***************************************************************************)
THEOREM ProgramsKeepPointers == ProgramsSpec => []NothingDangles
<1>1. MemoryInv => NothingDangles
  BY DEF MemoryInv, OwnInv, NothingDangles
<1>. QED  BY <1>1, ProgramsMemory, PTL

\* No program frees the struct of an open libusb handle.
THEOREM ProgramsKeepUsbHandles == ProgramsSpec => []UsbHandlesKept
<1>1. MemoryInv => UsbHandlesKept
  BY DEF MemoryInv, OpenInv, UsbHandlesKept
<1>. QED  BY <1>1, ProgramsMemory, PTL

-----------------------------------------------------------------------------
(* The scripts *)

\* The programs that make their calls in an order of their own.
Scripts == {"main", "record", "ctrl", "viewer", "ambilight", "notifications"}

\* The calls of a program that has no keyboard, as far as it knows.
Idle == {"detect", "set", "reset", "exit", "quit", "stray", "ended"}

\* What every script says: a keyboard that was set is enabled, lit, and
\* disabled, and nothing else follows a success.
LEMMA ScriptTable ==
    ASSUME NEW p \in Scripts, NEW c \in DOMAIN Script[p]
    PROVE  LET n == Script[p][c] IN
           /\ p \in DOMAIN Script
           /\ c \in {"detect", "set", "create", "start", "enable", "light", "disable",
                     "reset", "free", "exit", "quit", "stray"}
           /\ c \in {"create", "start"} => p = "ctrl"
           /\ c = "free" => p \in {"record", "ctrl"}
           /\ c \in {"detect", "reset", "free", "exit", "quit", "stray"} =>
                n.ok \subseteq Idle /\ n.error \subseteq Idle
           /\ c = "set" =>
                n.ok \subseteq {"enable", "create"} /\ n.error \subseteq Idle \cup {"enable"}
           /\ c = "enable" =>
                n.ok \subseteq {"light"} /\ n.error \subseteq Idle \cup {"light"}
           /\ c = "create" => n.ok \subseteq {"start"} /\ n.error \subseteq {"start"}
           /\ c = "start" => n.ok \subseteq {"join"} /\ n.error \subseteq {"join"}
           /\ c = "light" =>
                n.ok \subseteq {"light", "disable"} /\ n.error \subseteq {"light", "disable"}
           /\ c = "disable" =>
                LET after == IF p \in {"record", "ctrl"} THEN {"free"} ELSE Idle
                IN  n.ok \subseteq after /\ n.error \subseteq after
<1>. USE DEF Script, To, Then, Idle
<1>1. CASE p = "main"           BY <1>1 DEF Main
<1>2. CASE p = "record"         BY <1>2 DEF Record, RecordWith
<1>3. CASE p = "ctrl"           BY <1>3 DEF Ctrl
<1>4. CASE p = "viewer"         BY <1>4 DEF Viewer
<1>5. CASE p = "ambilight"      BY <1>5 DEF Ambilight
<1>6. CASE p = "notifications"  BY <1>6 DEF Notifier
<1>. QED  BY <1>1, <1>2, <1>3, <1>4, <1>5, <1>6 DEF Scripts

\* The programs, what Python was answered, and the controllers of ctrl.c: a
\* program with handles of its own never sets the global one.
ScriptInv ==
    /\ program \in Scripts \cup {"python", "any"}
    /\ program # "python" => answer = "code"
    /\ control \in [Handles -> {"none", "created", "prestart", "active", "leaving",
                                "closed", "stopped"}]
    /\ Own => DeviceHandle = NULL
    /\ program = "any" => call = "detect"

Scripted == program \in Scripts

\* A call of a script, what follows it, and what is noted of it.
LEMMA StepFacts ==
    ASSUME Scripted, ScriptInv, Step
    PROVE  /\ Calls /\ UNCHANGED <<program, answer>>
           /\ call \in DOMAIN Script[program]
           /\ call' \in IF result' = "LIBMK_SUCCESS" THEN Script[program][call].ok
                        ELSE Script[program][call].error
           /\ failed \subseteq failed'
           /\ result' \notin {"LIBMK_SUCCESS", "LIBMK_ERR_DEV_NOT_SET"} => call \in failed'
           /\ call \notin {"create", "start"} => control' = control
           /\ call = "create" => control' = [control EXCEPT ![out] = "created"]
           /\ call = "start" /\ result' \in {"LIBMK_SUCCESS", "LIBMK_ERR_DEV_NOT_SET"} =>
                control' = [control EXCEPT ![out] = "prestart"]
           /\ control' \in {control, [control EXCEPT ![out] = "created"],
                            [control EXCEPT ![out] = "prestart"]}
<1>1. program # "python" /\ answer = "code"
  BY DEF Scripted, Scripts, ScriptInv
<1>2. Calls /\ UNCHANGED <<program, answer>> /\ call \in DOMAIN Script[program]
  BY <1>1 DEF Step
<1>3. call' \in IF result' = "LIBMK_SUCCESS" THEN Script[program][call].ok
                ELSE Script[program][call].error
  BY DEF Step
<1>4. Fails <=> result' \notin {"LIBMK_SUCCESS", "LIBMK_ERR_DEV_NOT_SET"}
  BY <1>1, <1>2 DEF Fails
<1>5. failed' = IF Fails THEN failed \cup {call} ELSE failed
  BY DEF Step
<1>6. control' = CASE call = "create" -> [control EXCEPT ![out] = "created"]
                   [] call = "start" /\ ~Fails -> [control EXCEPT ![out] = "prestart"]
                   [] OTHER -> control
  BY DEF Step
<1>. QED  BY <1>2, <1>3, <1>4, <1>5, <1>6

\* Only set_device writes the global handle, but to forget it.
LEMMA GlobalAfterCalls == ASSUME HandleCalls PROVE DeviceHandle' \in {DeviceHandle, NULL}
<1>1. PICK p \in held \cup {NULL} :
        \/ NotSet(p) \/ DeadHandle(p)
        \/ EnableNoDriver(p) \/ EnableNoClaim(p) \/ EnableNoMode(p) \/ EnableNoFirmware(p)
        \/ Enable(p)
        \/ DisableNoMode(p) \/ DisableNoRelease(p) \/ Disable(p)
        \/ \E m \in {"firmware", "custom"} : SetControlMode(p, m)
        \/ Exchange(p) \/ ExchangeFails(p)
        \/ Reset(p) \/ ResetFails(p) \/ GetDeviceIdent(p)
  BY DEF HandleCalls
<1>2. CASE Disable(p)
  BY <1>2 DEF Disable, GlobalAfter
<1>3. CASE \E m \in {"firmware", "custom"} : SetControlMode(p, m)
  BY <1>3 DEF SetControlMode
<1>. QED
  BY <1>1, <1>2, <1>3 DEF NotSet, DeadHandle, EnableNoDriver, EnableNoClaim, EnableNoMode,
     EnableNoFirmware, Enable, DisableNoMode, DisableNoRelease, Exchange, ExchangeFails,
     Reset, ResetFails, GetDeviceIdent

LEMMA GlobalStaysNull ==
    ASSUME DeviceHandle = NULL,
           \/ Own /\ Calls
           \/ \E h \in Handles : ControllerThread(h)
           \/ UNCHANGED vars
    PROVE  DeviceHandle' = NULL
<1>1. ASSUME NEW m, SetDeviceCall(m, TRUE) PROVE DeviceHandle' = NULL
  BY <1>1 DEF SetDeviceCall, SetDeviceNoList, SetDeviceNotFound, SetDeviceCrashes,
     SetDeviceNoMemory, SetDeviceNoHandle, SetDevice, Stored
<1>2. CASE UNCHANGED vars
  BY <1>2 DEF vars
<1>3. CASE Own /\ Calls
  <2>1. CASE \E m \in Offered : SetDeviceCall(m, Own)
    <3>1. Own = TRUE
      BY <1>3 DEF Own
    <3>. QED  BY <1>1, <2>1, <3>1
  <2>2. CASE \/ libmk_enable_control(Passed) \/ Light(Passed)
             \/ libmk_disable_control(Passed) \/ libmk_reset(Passed)
    BY <2>2, CallsOnHandles, GlobalAfterCalls
  <2>3. CASE libmk_detect_devices \/ libmk_free_handle(Passed) \/ libmk_exit \/ LightAfterExit
    BY <2>3 DEF libmk_detect_devices, libmk_free_handle, FreeHandle, FreeHandleRefused,
       libmk_exit, Exit, ExitRefused, LightAfterExit
  <2>. QED  BY <1>2, <1>3, <2>1, <2>2, <2>3 DEF Calls
<1>4. ASSUME NEW h \in Handles, ControllerThread(h) PROVE DeviceHandle' = NULL
  <2>1. CASE ThreadBegins(h) \/ ThreadDrains(h) \/ ThreadStops(h)
    BY <1>2, <2>1 DEF ThreadBegins, ThreadDrains, ThreadStops
  <2>2. CASE ThreadExecutes(h) \/ ThreadFails(h) \/ ThreadDisables(h)
    BY <2>2, CallsOnHandles, GlobalAfterCalls
       DEF ThreadExecutes, ThreadFails, ThreadDisables, Light
  <2>. QED  BY <1>4, <2>1, <2>2 DEF ControllerThread
<1>. QED  BY <1>2, <1>3, <1>4

\* A step of the thread of a controller moves its controller on.
LEMMA ThreadFacts ==
    ASSUME NEW h \in Handles, ControllerThread(h)
    PROVE  /\ program = "ctrl" /\ UNCHANGED <<program, call, models, answer>>
           /\ failed \subseteq failed'
           /\ control[h] \in {"prestart", "active", "leaving", "closed"}
           /\ \E to \in {"active", "leaving", "closed", "stopped"} :
                control' = [control EXCEPT ![h] = to]
<1>1. \E from \in {"prestart", "active", "leaving", "closed"},
         to \in {"active", "leaving", "closed", "stopped"} : Advance(h, from, to)
  BY DEF ControllerThread, ThreadBegins, ThreadExecutes, ThreadFails, ThreadDrains,
     ThreadDisables, ThreadStops
<1>2. failed \subseteq failed'
  BY DEF ControllerThread, ThreadBegins, ThreadExecutes, ThreadFails, ThreadDrains,
     ThreadDisables, ThreadStops
<1>. QED  BY <1>1, <1>2 DEF Advance

LEMMA ScriptNext ==
    ASSUME ScriptInv, [ProgramsNext]_<<vars, script>> PROVE ScriptInv'
<1>1. CASE UNCHANGED <<vars, script>>
  BY <1>1 DEF script, vars, ScriptInv, Own
<1>2. CASE Step /\ Scripted
  <2>1. /\ Calls /\ UNCHANGED <<program, answer>>
        /\ control' \in {control, [control EXCEPT ![out] = "created"],
                         [control EXCEPT ![out] = "prestart"]}
    BY <1>2, StepFacts
  <2>2. Own => DeviceHandle' = NULL
    BY <2>1, GlobalStaysNull DEF ScriptInv
  <2>. QED  BY <1>2, <2>1, <2>2 DEF ScriptInv, Own, Scripted, Scripts
<1>3. CASE Step /\ ~Scripted
  <2>1. program' = program /\ program \in {"python", "any"} /\ program \in DOMAIN Script
    BY <1>3 DEF Step, Scripted, ScriptInv
  <2>2. program = "python"
    BY <2>1 DEF Script
  <2>3. control' = control
    <3>1. call \in DOMAIN Script["python"]
      BY <1>3, <2>2 DEF Step
    <3>2. call \in {"session", "exit"}
      BY <3>1 DEF Script, Python
    <3>. QED  BY <1>3, <3>2 DEF Step
  <2>. QED  BY <2>1, <2>2, <2>3 DEF ScriptInv, Own
<1>4. CASE HasNoModel \/ CreateFails \/ Join
  <2>1. UNCHANGED <<vars, program, answer, control>> /\ program # "any"
    BY <1>4 DEF HasNoModel, CreateFails, Join, NoModel
  <2>. QED  BY <2>1 DEF ScriptInv, Own, vars
<1>5. CASE AnyCall
  BY <1>5 DEF AnyCall, script, ScriptInv, Own
<1>6. ASSUME NEW h \in Handles, ControllerThread(h) PROVE ScriptInv'
  <2>1. /\ program = "ctrl" /\ UNCHANGED <<program, answer>>
        /\ \E to \in {"active", "leaving", "closed", "stopped"} :
             control' = [control EXCEPT ![h] = to]
    BY <1>6, ThreadFacts
  <2>2. DeviceHandle' = NULL
    BY <1>6, <2>1, GlobalStaysNull DEF ScriptInv, Own
  <2>. QED  BY <2>1, <2>2 DEF ScriptInv, Own
<1>. QED  BY <1>1, <1>2, <1>3, <1>4, <1>5, <1>6 DEF ProgramsNext

LEMMA ScriptHolds == ProgramsSpec => []ScriptInv
<1>1. ProgramsInit => ScriptInv
  <2>. SUFFICES ASSUME ProgramsInit PROVE ScriptInv
    OBVIOUS
  <2>1. program \in Scripts \cup {"python", "any"}
    BY StartedAssumption DEF ProgramsInit, Init, Scripts
  <2>. QED  BY <2>1 DEF ProgramsInit, Init, ScriptInv, Own
<1>2. ScriptInv /\ [ProgramsNext]_<<vars, script>> => ScriptInv'
  BY ScriptNext
<1>. QED  BY <1>1, <1>2, PTL DEF ProgramsSpec

-----------------------------------------------------------------------------
(* What the functions of libmk do, by what they return *)

NoError == {"LIBMK_SUCCESS", "LIBMK_ERR_DEV_NOT_SET"}

LEMMA SetEffect ==
    ASSUME TypeOK, NEW m, NEW own \in BOOLEAN, SetDeviceCall(m, own)
    PROVE  /\ UNCHANGED <<mode, claimed, dead>>
           /\ \/ \E h \in Handles :
                   /\ result' = "LIBMK_SUCCESS" /\ lib' = "up"
                   /\ alloc' = alloc \cup {h}
                   /\ usb' = [usb EXCEPT ![h] = "open"] /\ open' = [open EXCEPT ![h] = TRUE]
                   /\ IF own THEN out' = h /\ held' = held \cup {h} /\ DeviceHandle' = DeviceHandle
                      ELSE DeviceHandle' = h /\ UNCHANGED <<out, held>>
              \/ /\ lib' = "set_device crashed"
                 /\ UNCHANGED <<DeviceHandle, alloc, open, usb, held, out, result>>
              \/ /\ result' \notin NoError
                 /\ \A h \in Handles : usb'[h] = "open" => usb[h] = "open"
<1>0. /\ MaySet(own)
      /\ \/ SetDeviceNoList(own)
         \/ SetDeviceNotFound(m, own)
         \/ SetDeviceCrashes(m, own)
         \/ SetDeviceNoMemory(m, own)
         \/ \E h \in Handles, garbage \in BOOLEAN : SetDeviceNoHandle(m, own, h, garbage)
         \/ \E h \in Handles : SetDevice(m, own, h)
  BY DEF SetDeviceCall
<1>. USE DEF struct, libusb, keyboard, client, log, NoError
<1>1. CASE SetDeviceNoList(own) \/ SetDeviceNotFound(m, own)
  BY <1>1 DEF SetDeviceNoList, SetDeviceNotFound
<1>2. CASE SetDeviceCrashes(m, own)
  BY <1>2 DEF SetDeviceCrashes
<1>3. CASE SetDeviceNoMemory(m, own)
  BY <1>3 DEF SetDeviceNoMemory
<1>4. ASSUME NEW h \in Handles, NEW garbage \in BOOLEAN, SetDeviceNoHandle(m, own, h, garbage)
      PROVE  /\ UNCHANGED <<mode, claimed, dead>>
             /\ result' \notin NoError
             /\ \A g \in Handles : usb'[g] = "open" => usb[g] = "open"
  BY <1>4 DEF SetDeviceNoHandle, TypeOK
<1>5. ASSUME NEW h \in Handles, SetDevice(m, own, h)
      PROVE  /\ UNCHANGED <<mode, claimed, dead>>
             /\ result' = "LIBMK_SUCCESS" /\ lib' = "up"
             /\ alloc' = alloc \cup {h}
             /\ usb' = [usb EXCEPT ![h] = "open"] /\ open' = [open EXCEPT ![h] = TRUE]
             /\ IF own THEN out' = h /\ held' = held \cup {h} /\ DeviceHandle' = DeviceHandle
                ELSE DeviceHandle' = h /\ UNCHANGED <<out, held>>
  BY <1>0, <1>5 DEF SetDevice, Stored, MaySet
<1>. HIDE DEF struct, libusb, keyboard, client, log, NoError
<1>. QED  BY <1>0, <1>1, <1>2, <1>3, <1>4, <1>5

LEMMA EnableEffect ==
    ASSUME TypeOK, NEW p, libmk_enable_control(p)
    PROVE  /\ UNCHANGED <<DeviceHandle, alloc, open, dev, held, out>>
           /\ \/ /\ result' = "LIBMK_SUCCESS"
                 /\ Target(p) # NULL /\ usb[Target(p)] = "open" /\ usb' = usb
                 /\ mode' = [mode EXCEPT ![dev[Target(p)]] = "custom"]
              \/ /\ result' = "LIBMK_ERR_DEV_NOT_SET"
                 /\ Target(p) = NULL /\ UNCHANGED <<usb, mode>>
              \/ result' \notin NoError
  BY DEF libmk_enable_control, OnNone, NotSet, DeadHandle, EnableNoDriver, EnableNoClaim,
     EnableNoMode, EnableNoFirmware, Enable, Reaches, struct, libusb, keyboard, client, NoError

LEMMA LightEffect ==
    ASSUME NEW p, Light(p)
    PROVE  UNCHANGED <<DeviceHandle, alloc, open, dev, usb, mode, held, out>>
  BY DEF Light, OnNone, NotSet, DeadHandle, Exchange, ExchangeFails, struct, libusb,
     keyboard, client

LEMMA DisableEffect ==
    ASSUME TypeOK, NEW p, libmk_disable_control(p)
    PROVE  /\ UNCHANGED <<dev, held, out>>
           /\ \/ /\ result' = "LIBMK_SUCCESS"
                 /\ Target(p) # NULL /\ usb[Target(p)] = "open"
                 /\ mode' = [mode EXCEPT ![dev[Target(p)]] = "firmware"]
                 /\ usb' = [usb EXCEPT ![Target(p)] = "closed"]
                 /\ open' = [open EXCEPT ![Target(p)] = FALSE]
                 /\ alloc' = IF Target(p) = DeviceHandle THEN alloc \ {Target(p)} ELSE alloc
                 /\ DeviceHandle' = IF Target(p) = DeviceHandle THEN NULL ELSE DeviceHandle
              \/ /\ result' = "LIBMK_ERR_DEV_NOT_SET"
                 /\ Target(p) = NULL /\ UNCHANGED <<DeviceHandle, alloc, open, usb, mode>>
              \/ result' \notin NoError
<1>1. CASE Disable(p)
  BY <1>1 DEF Disable, Reaches, ReleasedMode, AllocAfter, GlobalAfter, client
<1>2. CASE OnNone(p) \/ DisableNoMode(p) \/ DisableNoRelease(p)
  BY <1>2 DEF OnNone, NotSet, DeadHandle, DisableNoMode, DisableNoRelease, struct, libusb,
     keyboard, client, NoError
<1>. QED  BY <1>1, <1>2 DEF libmk_disable_control

\* A reset of a keyboard that is not open does nothing.
LEMMA ResetEffect ==
    ASSUME TypeOK, NEW p, libmk_reset(p)
    PROVE  /\ UNCHANGED <<DeviceHandle, alloc, open, dev, usb, held, out>>
           /\ (\A h \in Handles : usb[h] # "open") => mode' = mode
<1>1. Reaches(p) => Target(p) \in Handles /\ usb[Target(p)] = "open"
  BY DEF Reaches, MayPass, Target, TypeOK
<1>. QED
  BY <1>1 DEF libmk_reset, OnNone, NotSet, DeadHandle, Reset, ResetFails, struct, libusb,
     keyboard, client

\* The calls that touch no keyboard while none is open, and that open none.
LEMMA QuietEffect ==
    ASSUME TypeOK, Calls,
           call \in {"detect", "reset", "free", "exit", "quit", "stray"}
    PROVE  /\ UNCHANGED <<usb, open, out>>
           /\ (\A h \in Handles : usb[h] # "open") => mode' = mode
           /\ alloc' \subseteq alloc
<1>1. CASE call = "reset"
  BY <1>1, ResetEffect DEF Calls
<1>2. CASE call = "stray"
  BY <1>2, LightEffect DEF Calls, LightAfterExit, struct, libusb, keyboard, client
<1>3. CASE call \in {"detect", "free", "exit", "quit"}
  BY <1>3 DEF Calls, libmk_detect_devices, libmk_free_handle, FreeHandle, FreeHandleRefused,
     libmk_exit, Exit, ExitRefused, struct, libusb, keyboard, client
<1>. QED  BY <1>1, <1>2, <1>3

-----------------------------------------------------------------------------
(* What the programs leave behind *)

\* The calls that have to succeed for a program to give its keyboard back.
Taking == {"enable", "start", "create", "disable", "join"}

\* The handle of the keyboard that the program is at.
Current == Target(Passed)

\* Between set_device and disable_control, here or in the controller of ctrl.c.
Using ==
    \/ call \in {"enable", "create", "start", "light", "disable"}
    \/ call = "join" /\ control[out] \in {"prestart", "active", "leaving"}

\* The controllers that have a thread.
Controlled == {"prestart", "active", "leaving", "closed"}

\* At most the current keyboard is taken, and only while it is used; the one
\* thread there may be is that of the controller that is waited for.
GivenBackInv ==
    Scripted /\ failed \cap Taking = {} =>
        /\ \A h \in Handles : usb[h] = "open" => Using /\ h = Current
        /\ \A k \in Index : mode[k] = "custom" => Using /\ Current \in Handles /\ dev[Current] = k
        /\ \A h \in Handles : control[h] \in Controlled => call = "join" /\ h = out

\* No keyboard is taken.
Clean ==
    /\ \A h \in Handles : usb[h] # "open"
    /\ \A k \in Index : mode[k] # "custom"
    /\ \A h \in Handles : control[h] \notin Controlled

LEMMA CleanIsGivenBack == Clean => GivenBackInv
  BY DEF Clean, GivenBackInv

\* A program that is not at a keyboard has taken none.
LEMMA UnusedIsClean ==
    ASSUME GivenBackInv, Scripted, failed \cap Taking = {},
           ~Using \/ Current \notin Handles, call # "join" \/ out \notin Handles
    PROVE  Clean
  BY DEF GivenBackInv, Clean

LEMMA GivenBackStep ==
    ASSUME TypeOK, ScriptInv, GivenBackInv, Step, Scripted PROVE GivenBackInv'
<1>. SUFFICES ASSUME (failed \cap Taking = {})' PROVE GivenBackInv'
  BY DEF GivenBackInv
<1>1. /\ Calls /\ program' = program /\ Scripted' /\ failed \cap Taking = {}
      /\ result' \in NoError \/ call \notin Taking
      /\ call \in DOMAIN Script[program]
      /\ call' \in IF result' = "LIBMK_SUCCESS" THEN Script[program][call].ok
                   ELSE Script[program][call].error
  BY StepFacts DEF Scripted, NoError, Taking
<1>2. control \in [Handles -> {"none", "created", "prestart", "active", "leaving",
                               "closed", "stopped"}]
  BY DEF ScriptInv
<1>3. NULL \notin Handles
  BY HandlesAssumption
<1>4. Own' = Own /\ (Own => DeviceHandle = NULL /\ DeviceHandle' = NULL)
  BY <1>1, GlobalStaysNull DEF Own, ScriptInv
<1>5. CASE call \in {"detect", "reset", "free", "exit", "quit", "stray"}
  <2>1. Clean
    BY <1>1, <1>5, UnusedIsClean DEF Using
  <2>2. UNCHANGED <<usb, mode, control>>
    BY <1>1, <1>5, <2>1, QuietEffect, StepFacts DEF Clean
  <2>3. Clean'
    BY <2>1, <2>2 DEF Clean
  <2>. QED  BY <2>3 DEF Clean, GivenBackInv
<1>6. CASE call = "set"
  <2>1. Clean /\ control' = control
    BY <1>1, <1>6, UnusedIsClean, StepFacts DEF Using
  <2>2. PICK m : SetDeviceCall(m, Own)
    BY <1>1, <1>6 DEF Calls
  <2>3. Own \in BOOLEAN
    BY DEF Own
  <2>4. /\ UNCHANGED mode
        /\ \/ \E h \in Handles :
                /\ result' = "LIBMK_SUCCESS"
                /\ usb' = [usb EXCEPT ![h] = "open"]
                /\ IF Own THEN out' = h ELSE DeviceHandle' = h
           \/ \A h \in Handles : usb'[h] = "open" => usb[h] = "open"
    BY <2>2, <2>3, SetEffect
  <2>5. CASE \A h \in Handles : usb'[h] = "open" => usb[h] = "open"
    <3>1. Clean'
      BY <2>1, <2>4, <2>5 DEF Clean
    <3>. QED  BY <3>1 DEF Clean, GivenBackInv
  <2>6. ASSUME NEW h \in Handles, result' = "LIBMK_SUCCESS",
               usb' = [usb EXCEPT ![h] = "open"], IF Own THEN out' = h ELSE DeviceHandle' = h
        PROVE  GivenBackInv'
    <3>1. Current' = h
      BY <1>3, <1>4, <2>6 DEF Current, Target, Passed
    <3>2. Using'
      BY <1>1, <1>6, <2>6, ScriptTable DEF Scripted, Using
    <3>3. \A g \in Handles : usb'[g] = "open" => g = h
      BY <2>1, <2>6 DEF Clean, TypeOK
    <3>. QED  BY <2>1, <2>4, <3>1, <3>2, <3>3 DEF Clean, GivenBackInv
  <2>. QED  BY <2>4, <2>5, <2>6
<1>7. CASE call = "create"
  <2>1. /\ UNCHANGED vars /\ call' = "start"
        /\ control' = [control EXCEPT ![out] = "created"]
    BY <1>1, <1>7, StepFacts, ScriptTable DEF Calls, Scripted
  <2>2. Current' = Current /\ Using' /\ Using
    BY <1>4, <1>7, <2>1 DEF Current, Target, Passed, vars, client, Using
  <2>3. \A h \in Handles : control'[h] \notin Controlled
    BY <1>1, <1>2, <1>7, <2>1 DEF GivenBackInv, Controlled
  <2>. QED  BY <1>1, <2>1, <2>2, <2>3 DEF GivenBackInv, vars, struct, libusb, keyboard
<1>8. CASE call \in {"enable", "start"}
  <2>1. libmk_enable_control(Passed) /\ result' \in NoError
    BY <1>1, <1>8 DEF Calls, Taking
  <2>2. /\ UNCHANGED <<DeviceHandle, dev, out>> /\ usb' = usb
        /\ \/ /\ result' = "LIBMK_SUCCESS"
              /\ Current # NULL /\ mode' = [mode EXCEPT ![dev[Current]] = "custom"]
           \/ Current = NULL /\ mode' = mode
    BY <2>1, EnableEffect DEF Current, NoError
  <2>3. Current' = Current /\ Using
    BY <1>4, <1>8, <2>2 DEF Current, Target, Passed, Using
  <2>4. \A h \in Handles : control[h] \notin Controlled
    BY <1>1, <1>8 DEF GivenBackInv
  <2>5. control' = IF call = "start" THEN [control EXCEPT ![out] = "prestart"] ELSE control
    BY <1>8, <2>1, StepFacts DEF NoError
  <2>6. \A h \in Handles : control'[h] \in Controlled => call = "start" /\ h = out
    BY <1>2, <2>4, <2>5 DEF Controlled
  <2>7. call = "start" => Own /\ call' = "join"
    BY <1>1, ScriptTable DEF Scripted, Own
  <2>8. CASE Current = NULL /\ mode' = mode
    <3>1. call # "start" \/ out \notin Handles
      BY <1>3, <1>4, <2>7, <2>8 DEF Current, Target, Passed
    <3>2. Clean'
      BY <1>1, <1>3, <2>2, <2>6, <2>8, <3>1 DEF Clean, GivenBackInv
    <3>. QED  BY <3>2 DEF Clean, GivenBackInv
  <2>9. CASE /\ result' = "LIBMK_SUCCESS" /\ Current # NULL
             /\ mode' = [mode EXCEPT ![dev[Current]] = "custom"]
    <3>1. Current \in Handles /\ (call = "start" => Current = out)
      BY <1>4, <2>7, <2>9 DEF Current, Target, Passed, TypeOK
    <3>2. Using'
      <4>1. CASE call = "enable"
        BY <1>1, <2>9, <4>1, ScriptTable DEF Scripted, Using
      <4>2. CASE call = "start"
        BY <1>2, <2>2, <2>5, <2>7, <3>1, <4>2 DEF Using
      <4>. QED  BY <1>8, <4>1, <4>2
    <3>3. \A h \in Handles : control'[h] \in Controlled => call' = "join" /\ h = out'
      BY <2>2, <2>6, <2>7
    <3>4. \A h \in Handles : usb'[h] = "open" => h = Current'
      BY <1>1, <2>2, <2>3 DEF GivenBackInv
    <3>5. \A k \in Index : mode'[k] = "custom" => mode[k] = "custom" \/ k = dev[Current]
      BY <2>9 DEF TypeOK
    <3>6. \A k \in Index : mode'[k] = "custom" => k = dev[Current]
      BY <1>1, <3>5 DEF GivenBackInv
    <3>7. dev'[Current'] = dev[Current] /\ Current' \in Handles
      BY <2>2, <2>3, <3>1
    <3>. QED  BY <3>2, <3>3, <3>4, <3>6, <3>7 DEF GivenBackInv
  <2>. QED  BY <2>2, <2>8, <2>9
<1>9. CASE call = "light"
  <2>1. Light(Passed) /\ call' \in {"light", "disable"} /\ control' = control
    BY <1>1, <1>9, StepFacts, ScriptTable DEF Calls, Scripted
  <2>2. UNCHANGED <<DeviceHandle, dev, usb, mode, out>>
    BY <2>1, LightEffect
  <2>3. Current' = Current /\ Using /\ Using'
    BY <1>4, <1>9, <2>1, <2>2 DEF Current, Target, Passed, Using
  <2>. QED  BY <1>1, <1>9, <2>1, <2>2, <2>3 DEF GivenBackInv
<1>10. CASE call = "disable"
  <2>1. libmk_disable_control(Passed) /\ result' \in NoError /\ control' = control
    BY <1>1, <1>10, StepFacts DEF Calls, Taking
  <2>2. \/ /\ Current # NULL
           /\ mode' = [mode EXCEPT ![dev[Current]] = "firmware"]
           /\ usb' = [usb EXCEPT ![Current] = "closed"]
        \/ Current = NULL /\ UNCHANGED <<usb, mode>>
    BY <2>1, DisableEffect DEF Current, NoError
  <2>3. \A h \in Handles : usb'[h] # "open"
    BY <1>1, <1>3, <2>2 DEF GivenBackInv, TypeOK
  <2>4. \A k \in Index : mode'[k] # "custom"
    BY <1>1, <1>3, <2>2 DEF GivenBackInv, TypeOK
  <2>5. \A h \in Handles : control'[h] \notin Controlled
    BY <1>1, <1>10, <2>1 DEF GivenBackInv
  <2>. QED  BY <2>3, <2>4, <2>5 DEF GivenBackInv
<1>. QED
  BY <1>1, <1>5, <1>6, <1>7, <1>8, <1>9, <1>10, ScriptTable DEF Scripted

LEMMA GivenBackThread ==
    ASSUME TypeOK, ScriptInv, GivenBackInv, NEW h \in Handles, ControllerThread(h)
    PROVE  GivenBackInv'
<1>. SUFFICES ASSUME (Scripted /\ failed \cap Taking = {})' PROVE GivenBackInv'
  BY DEF GivenBackInv
<1>1. /\ program = "ctrl" /\ UNCHANGED <<program, call>>
      /\ failed \cap Taking = {} /\ Scripted /\ control[h] \in Controlled
  BY ThreadFacts DEF Scripted, Controlled
<1>2. call = "join" /\ h = out
  BY <1>1 DEF GivenBackInv
<1>3. DeviceHandle = NULL /\ DeviceHandle' = NULL
  BY <1>1, GlobalStaysNull DEF ScriptInv, Own
<1>4. Current = h /\ NULL \notin Handles
  BY <1>1, <1>2, HandlesAssumption DEF Current, Target, Passed, Own
<1>5. control \in [Handles -> {"none", "created", "prestart", "active", "leaving",
                               "closed", "stopped"}]
  BY DEF ScriptInv
<1>6. \A g \in Handles : control'[g] \in Controlled => g = h
  BY <1>1, <1>2, <1>5, ThreadFacts DEF GivenBackInv
<1>7. CASE ThreadDisables(h)
  <2>1. libmk_disable_control(h) /\ result' = "LIBMK_SUCCESS"
    BY <1>7 DEF ThreadDisables, Taking
  <2>2. /\ out' = out
        /\ mode' = [mode EXCEPT ![dev[h]] = "firmware"] /\ usb' = [usb EXCEPT ![h] = "closed"]
    BY <1>4, <2>1, DisableEffect DEF Target, NoError
  <2>3. \A g \in Handles : usb'[g] # "open"
    BY <1>1, <1>4, <2>2 DEF GivenBackInv, TypeOK
  <2>4. \A k \in Index : mode'[k] # "custom"
    BY <1>1, <1>4, <2>2 DEF GivenBackInv, TypeOK
  <2>. QED  BY <1>1, <1>2, <1>6, <2>2, <2>3, <2>4 DEF GivenBackInv
<1>8. CASE ThreadBegins(h) \/ ThreadExecutes(h) \/ ThreadFails(h) \/ ThreadDrains(h)
  <2>1. UNCHANGED <<dev, usb, mode, out>>
    BY <1>8 DEF ThreadBegins, ThreadExecutes, ThreadFails, ThreadDrains, Exchange,
       ExchangeFails, vars, struct, libusb, keyboard, client
  <2>2. control[h] \in {"prestart", "active"} /\ control'[h] \in {"active", "leaving"}
    BY <1>5, <1>8 DEF ThreadBegins, ThreadExecutes, ThreadFails, ThreadDrains, Advance
  <2>3. Using /\ Using' /\ Current' = h
    BY <1>1, <1>2, <1>4, <2>1, <2>2 DEF Using, Current, Target, Passed, Own
  <2>. QED  BY <1>1, <1>2, <1>4, <1>6, <2>1, <2>3 DEF GivenBackInv
<1>9. CASE ThreadStops(h)
  <2>1. UNCHANGED <<usb, mode, out>> /\ control[h] = "closed"
    BY <1>9 DEF ThreadStops, Advance, vars, libusb, keyboard, client
  <2>2. ~Using
    BY <1>2, <2>1 DEF Using
  <2>. QED  BY <1>1, <1>2, <1>6, <2>1, <2>2 DEF GivenBackInv
<1>. QED  BY <1>7, <1>8, <1>9 DEF ControllerThread

LEMMA GivenBackNext ==
    ASSUME TypeOK, ScriptInv, GivenBackInv, [ProgramsNext]_<<vars, script>>
    PROVE  GivenBackInv'
<1>1. CASE UNCHANGED <<vars, script>>
  BY <1>1 DEF vars, script, struct, libusb, keyboard, client, GivenBackInv, Scripted, Using,
     Current, Target, Passed, Own
<1>2. CASE Step /\ Scripted
  BY <1>2, GivenBackStep
<1>3. CASE Step /\ ~Scripted
  BY <1>3 DEF Step, Scripted, GivenBackInv
<1>4. CASE AnyCall
  BY <1>4 DEF AnyCall, script, Scripted, Scripts, GivenBackInv
<1>5. CASE CreateFails
  BY <1>5 DEF CreateFails, Taking, GivenBackInv
<1>6. CASE HasNoModel \/ Join
  <2>. SUFFICES ASSUME (Scripted /\ failed \cap Taking = {})' PROVE GivenBackInv'
    BY DEF GivenBackInv
  <2>1. /\ UNCHANGED <<vars, program, control>> /\ Scripted /\ failed \cap Taking = {}
        /\ \/ call = "set"
           \/ call = "join" /\ control[out] = "stopped"
    BY <1>6 DEF HasNoModel, Join, Scripted, Taking
  <2>2. \A h \in Handles : control[h] \notin Controlled
    BY <2>1 DEF GivenBackInv, Controlled
  <2>3. ~Using
    BY <2>1 DEF Using
  <2>4. Clean
    BY <2>1, <2>2, <2>3 DEF GivenBackInv, Clean
  <2>. QED  BY <2>1, <2>4 DEF Clean, GivenBackInv, vars, libusb, keyboard
<1>. QED
  BY <1>1, <1>2, <1>3, <1>4, <1>5, <1>6, GivenBackThread DEF ProgramsNext

LEMMA GivenBackHolds == ProgramsSpec => []GivenBackInv
<1>1. ProgramsInit => GivenBackInv
  BY DEF ProgramsInit, Init, GivenBackInv, Controlled
<1>2. TypeOK /\ ScriptInv /\ GivenBackInv /\ [ProgramsNext]_<<vars, script>> => GivenBackInv'
  BY GivenBackNext
<1>. QED  BY <1>1, <1>2, ProgramsMemory, ScriptHolds, PTL DEF ProgramsSpec

\* A program that could take and give back control, and for ctrl.c start and
\* join the controller, leaves every keyboard to its firmware and every libusb
\* handle closed: whatever set_device, the packets and the reset return, and
\* wherever record.c and mk_notifications.c leave early.
THEOREM ProgramsGiveKeyboardsBack == ProgramsSpec => []KeyboardsAreGivenBack
<1>1. TypeOK /\ ScriptInv /\ GivenBackInv => KeyboardsAreGivenBack
  <2>. SUFFICES ASSUME TypeOK, ScriptInv, GivenBackInv,
                       Done, program # "python", failed \cap Taking = {}
                PROVE  /\ \A k \in Index : mode[k] = "firmware"
                       /\ \A h \in Handles : usb[h] # "open"
    BY DEF KeyboardsAreGivenBack, Taking
  <2>1. Scripted /\ ~Using
    BY DEF Scripted, ScriptInv, Done, Using, Scripts
  <2>2. \A k \in Index : mode[k] # "custom"
    BY <2>1 DEF GivenBackInv
  <2>. QED  BY <2>1, <2>2 DEF GivenBackInv, TypeOK
<1>. QED  BY <1>1, ProgramsMemory, ScriptHolds, GivenBackHolds, PTL

-----------------------------------------------------------------------------
(* The structs that the programs leave *)

\* From set_device to disable_control, and to free_handle for a handle of the
\* program's own.
Holding == call \in {"enable", "create", "start", "light", "disable", "join", "free"}

\* After the disable_control of a handle of the program's own.
Closed == call = "free" \/ (call = "join" /\ control[out] \in {"closed", "stopped"})

\* At most the current struct is allocated, and it is closed when it is freed.
FreedInv ==
    Scripted /\ failed \cap (Taking \cup {"set"}) = {} =>
        /\ alloc \subseteq (IF Holding THEN {Current} ELSE {})
        /\ out \in Handles /\ Closed => ~open[out]

LEMMA FreedStep ==
    ASSUME TypeOK, ScriptInv, GivenBackInv, FreedInv, Step, Scripted PROVE FreedInv'
<1>. SUFFICES ASSUME (failed \cap (Taking \cup {"set"}) = {})' PROVE FreedInv'
  BY DEF FreedInv, Closed
<1>1. /\ Calls /\ program' = program /\ Scripted'
      /\ failed \cap Taking = {} /\ failed \cap (Taking \cup {"set"}) = {}
      /\ result' \in NoError \/ call \notin Taking \cup {"set"}
      /\ call \in DOMAIN Script[program]
      /\ call' \in IF result' = "LIBMK_SUCCESS" THEN Script[program][call].ok
                   ELSE Script[program][call].error
  BY StepFacts DEF Scripted, NoError, Taking
<1>2. /\ control \in [Handles -> {"none", "created", "prestart", "active", "leaving",
                                  "closed", "stopped"}]
      /\ NULL \notin Handles
  BY HandlesAssumption DEF ScriptInv
<1>3. Own' = Own /\ (Own => DeviceHandle = NULL /\ DeviceHandle' = NULL)
  BY <1>1, GlobalStaysNull DEF Own, ScriptInv
<1>4. alloc \subseteq Handles /\ DeviceHandle \in Handles \cup {NULL} /\ out \in Handles \cup {NULL}
  BY DEF TypeOK
<1>5. CASE call \in {"detect", "reset", "exit", "quit", "stray"}
  <2>1. alloc = {}
    BY <1>1, <1>5 DEF FreedInv, Closed, Holding
  <2>2. alloc' = {}
    BY <1>1, <1>5, <2>1, QuietEffect
  <2>3. call' \notin {"free", "join"}
    BY <1>1, <1>5, ScriptTable DEF Scripted, Idle
  <2>. QED  BY <2>2, <2>3 DEF FreedInv, Closed
<1>6. CASE call = "free"
  <2>1. Own
    BY <1>1, <1>6, ScriptTable DEF Own, Scripted
  <2>2. Passed = out /\ libmk_free_handle(out)
    BY <1>1, <1>6, <2>1 DEF Calls, Passed
  <2>3. out \in Handles /\ alloc \subseteq {out} /\ ~open[out]
    <3>1. out \in Handles
      BY <2>2 DEF libmk_free_handle, FreeHandle, FreeHandleRefused, TypeOK
    <3>2. Current = out
      BY <1>2, <2>2, <3>1 DEF Current, Target
    <3>. QED  BY <1>1, <1>6, <3>1, <3>2 DEF FreedInv, Closed, Holding
  <2>4. alloc' = {}
    BY <2>2, <2>3 DEF libmk_free_handle, FreeHandle, FreeHandleRefused, MayFree
  <2>5. call' \notin {"free", "join"}
    BY <1>1, <1>6, ScriptTable DEF Scripted, Idle
  <2>. QED  BY <2>4, <2>5 DEF FreedInv, Closed
<1>7. CASE call = "set"
  <2>1. alloc = {}
    BY <1>1, <1>7 DEF FreedInv, Closed, Holding
  <2>2. PICK m : SetDeviceCall(m, Own)
    BY <1>1, <1>7 DEF Calls
  <2>3. Own \in BOOLEAN
    BY DEF Own
  <2>4. \/ \E h \in Handles :
             /\ result' = "LIBMK_SUCCESS" /\ alloc' = alloc \cup {h}
             /\ IF Own THEN out' = h ELSE DeviceHandle' = h
        \/ alloc' = alloc
    BY <1>1, <1>7, <2>2, <2>3, SetEffect
  <2>5. call' \notin {"free", "join"}
    BY <1>1, <1>7, ScriptTable DEF Scripted, Idle
  <2>6. ASSUME NEW h \in Handles, result' = "LIBMK_SUCCESS", alloc' = alloc \cup {h},
               IF Own THEN out' = h ELSE DeviceHandle' = h
        PROVE  FreedInv'
    <3>1. Current' = h
      BY <1>2, <1>3, <2>6 DEF Current, Target, Passed
    <3>2. Holding'
      BY <1>1, <1>7, <2>6, ScriptTable DEF Scripted, Holding
    <3>. QED  BY <2>1, <2>5, <2>6, <3>1, <3>2 DEF FreedInv, Closed
  <2>. QED  BY <2>1, <2>4, <2>5, <2>6 DEF FreedInv, Closed
<1>8. CASE call \in {"enable", "create", "start", "light"}
  <2>1. UNCHANGED <<DeviceHandle, alloc, open, out>>
    BY <1>1, <1>8, EnableEffect, LightEffect DEF Calls, vars, struct, client
  <2>2. Current' = Current /\ alloc \subseteq {Current}
    BY <1>1, <1>3, <1>8, <2>1 DEF Current, Target, Passed, FreedInv, Closed, Holding
  <2>3. Holding' \/ alloc = {}
    <3>1. CASE call = "enable"
      <4>1. result' = "LIBMK_SUCCESS" \/ Current = NULL
        BY <1>1, <3>1, EnableEffect DEF Calls, Current, Taking, NoError
      <4>2. CASE result' = "LIBMK_SUCCESS"
        BY <1>1, <3>1, <4>2, ScriptTable DEF Scripted, Holding
      <4>3. CASE Current = NULL
        BY <1>2, <1>4, <2>2, <4>3
      <4>. QED  BY <4>1, <4>2, <4>3
    <3>2. CASE call # "enable"
      BY <1>1, <1>8, <3>2, ScriptTable DEF Scripted, Holding
    <3>. QED  BY <3>1, <3>2
  <2>4. /\ call' # "free"
        /\ call' = "join" => call = "start"
    BY <1>1, <1>8, ScriptTable DEF Scripted, Idle
  <2>5. call = "start" /\ out \in Handles => control'[out] = "prestart"
    BY <1>1, <1>2, StepFacts DEF NoError, Taking
  <2>. QED  BY <2>1, <2>2, <2>3, <2>4, <2>5 DEF FreedInv, Closed
<1>9. CASE call = "disable"
  <2>1. libmk_disable_control(Passed) /\ result' \in NoError
    BY <1>1, <1>9 DEF Calls, Taking
  <2>2. alloc \subseteq {Current}
    BY <1>1, <1>9 DEF FreedInv, Closed, Holding
  <2>3. /\ out' = out
        /\ \/ /\ Current # NULL
              /\ open' = [open EXCEPT ![Current] = FALSE]
              /\ alloc' = IF Current = DeviceHandle THEN alloc \ {Current} ELSE alloc
           \/ Current = NULL /\ UNCHANGED <<DeviceHandle, alloc>>
    BY <2>1, DisableEffect DEF Current, NoError
  <2>4. CASE Own
    <3>1. call' = "free"
      BY <1>1, <1>9, <2>4, ScriptTable DEF Own, Scripted
    <3>2. out \in Handles => Current = out /\ Current' = out
      BY <1>2, <1>3, <2>3, <2>4 DEF Current, Target, Passed
    <3>3. out \in Handles => ~open'[out] /\ alloc' = alloc
      BY <1>2, <1>3, <2>3, <2>4, <3>2 DEF TypeOK
    <3>4. out \notin Handles => alloc = {} /\ alloc' = {}
      BY <1>2, <1>3, <1>4, <2>2, <2>3, <2>4 DEF Current, Target, Passed
    <3>. QED  BY <2>2, <2>3, <3>1, <3>2, <3>3, <3>4 DEF FreedInv, Closed, Holding
  <2>5. CASE ~Own
    <3>1. Current = DeviceHandle
      BY <2>5 DEF Current, Target, Passed
    <3>2. alloc' = {}
      BY <1>2, <1>4, <2>2, <2>3, <3>1
    <3>3. call' \notin {"free", "join"}
      BY <1>1, <1>9, <2>5, ScriptTable DEF Own, Scripted, Idle
    <3>. QED  BY <3>2, <3>3 DEF FreedInv, Closed
  <2>. QED  BY <2>4, <2>5
<1>. QED
  BY <1>1, <1>5, <1>6, <1>7, <1>8, <1>9, ScriptTable DEF Scripted

LEMMA FreedThread ==
    ASSUME TypeOK, ScriptInv, GivenBackInv, FreedInv, NEW h \in Handles, ControllerThread(h)
    PROVE  FreedInv'
<1>. SUFFICES ASSUME (Scripted /\ failed \cap (Taking \cup {"set"}) = {})' PROVE FreedInv'
  BY DEF FreedInv, Closed
<1>1. /\ program = "ctrl" /\ UNCHANGED <<program, call>> /\ Scripted
      /\ failed \cap Taking = {} /\ failed \cap (Taking \cup {"set"}) = {}
      /\ control[h] \in Controlled
  BY ThreadFacts DEF Scripted, Controlled
<1>2. call = "join" /\ h = out
  BY <1>1 DEF GivenBackInv
<1>3. DeviceHandle = NULL /\ DeviceHandle' = NULL
  BY <1>1, GlobalStaysNull DEF ScriptInv, Own
<1>4. Current = h /\ NULL \notin Handles
  BY <1>1, <1>2, HandlesAssumption DEF Current, Target, Passed, Own
<1>5. control \in [Handles -> {"none", "created", "prestart", "active", "leaving",
                               "closed", "stopped"}]
  BY DEF ScriptInv
<1>6. alloc \subseteq {h}
  BY <1>1, <1>2, <1>4 DEF FreedInv, Closed, Holding
<1>7. CASE ThreadDisables(h)
  <2>1. libmk_disable_control(h) /\ result' = "LIBMK_SUCCESS"
    BY <1>7 DEF ThreadDisables, Taking
  <2>2. out' = out /\ open' = [open EXCEPT ![h] = FALSE] /\ alloc' = alloc
    BY <1>3, <1>4, <2>1, DisableEffect DEF Target, NoError
  <2>3. Current' = h /\ ~open'[h]
    BY <1>1, <1>2, <1>4, <2>2 DEF Current, Target, Passed, Own, TypeOK
  <2>. QED  BY <1>1, <1>2, <1>6, <2>2, <2>3 DEF FreedInv, Closed, Holding
<1>8. CASE ThreadBegins(h) \/ ThreadExecutes(h) \/ ThreadFails(h) \/ ThreadDrains(h)
  <2>1. UNCHANGED <<alloc, out>>
    BY <1>8 DEF ThreadBegins, ThreadExecutes, ThreadFails, ThreadDrains, Exchange,
       ExchangeFails, vars, struct, client
  <2>2. control'[h] \in {"active", "leaving"}
    BY <1>5, <1>8 DEF ThreadBegins, ThreadExecutes, ThreadFails, ThreadDrains, Advance
  <2>3. Current' = h
    BY <1>1, <1>2, <1>4, <2>1 DEF Current, Target, Passed, Own
  <2>. QED  BY <1>1, <1>2, <1>6, <2>1, <2>2, <2>3 DEF FreedInv, Closed, Holding
<1>9. CASE ThreadStops(h)
  <2>1. UNCHANGED <<alloc, open, out>> /\ control[h] = "closed"
    BY <1>9 DEF ThreadStops, Advance, vars, struct, client
  <2>2. ~open[h]
    BY <1>1, <1>2, <2>1 DEF FreedInv, Closed
  <2>3. Current' = h
    BY <1>1, <1>2, <1>4, <2>1 DEF Current, Target, Passed, Own
  <2>. QED  BY <1>1, <1>2, <1>6, <2>1, <2>2, <2>3 DEF FreedInv, Closed, Holding
<1>. QED  BY <1>7, <1>8, <1>9 DEF ControllerThread

LEMMA FreedNext ==
    ASSUME TypeOK, ScriptInv, GivenBackInv, FreedInv, [ProgramsNext]_<<vars, script>>
    PROVE  FreedInv'
<1>1. CASE UNCHANGED <<vars, script>>
  BY <1>1 DEF vars, script, struct, client, FreedInv, Closed, Scripted, Holding, Current, Target,
     Passed, Own
<1>2. CASE Step /\ Scripted
  BY <1>2, FreedStep
<1>3. CASE Step /\ ~Scripted
  BY <1>3 DEF Step, Scripted, FreedInv
<1>4. CASE AnyCall
  BY <1>4 DEF AnyCall, script, Scripted, Scripts, FreedInv
<1>5. CASE CreateFails
  BY <1>5 DEF CreateFails, Taking, FreedInv
<1>6. CASE HasNoModel
  <2>1. /\ UNCHANGED <<vars, program, control, failed>> /\ call = "set"
        /\ call' \in {"exit", "ended", "quit"}
    BY <1>6 DEF HasNoModel, NoModel
  <2>2. Scripted' /\ (failed \cap (Taking \cup {"set"}) = {})' => alloc = {}
    BY <2>1 DEF FreedInv, Closed, Scripted, Holding
  <2>3. alloc' = alloc
    BY <2>1 DEF vars, struct
  <2>. QED  BY <2>1, <2>2, <2>3 DEF FreedInv, Closed
<1>7. CASE Join
  <2>. SUFFICES ASSUME (Scripted /\ failed \cap (Taking \cup {"set"}) = {})' PROVE FreedInv'
    BY DEF FreedInv, Closed
  <2>1. /\ UNCHANGED <<vars, program, control>> /\ Scripted
        /\ failed \cap (Taking \cup {"set"}) = {}
        /\ call = "join" /\ control[out] = "stopped"
    BY <1>7 DEF Join, Scripted, Taking
  <2>2. alloc \subseteq {Current} /\ (out \in Handles => ~open[out])
    BY <2>1 DEF FreedInv, Closed, Holding
  <2>3. Current' = Current /\ UNCHANGED <<alloc, open, out>>
    BY <2>1 DEF Current, Target, Passed, Own, vars, struct, client
  <2>4. call' = "free"
    BY <1>7 DEF Join
  <2>. QED  BY <2>2, <2>3, <2>4 DEF FreedInv, Closed, Holding
<1>. QED
  BY <1>1, <1>2, <1>3, <1>4, <1>5, <1>6, <1>7, FreedThread DEF ProgramsNext

\* When the device was set too, no struct is left: every handle of the
\* program's own that record.c and ctrl.c were given is closed when they free
\* it, so that libmk_free_handle never refuses, and disable_control frees the
\* global one.
THEOREM ProgramsFreeStructs == ProgramsSpec => []StructsAreFreed
<1>1. ProgramsInit => FreedInv
  BY DEF ProgramsInit, Init, FreedInv
<1>2. /\ TypeOK /\ ScriptInv /\ GivenBackInv /\ FreedInv
      /\ [ProgramsNext]_<<vars, script>>
      => FreedInv'
  BY FreedNext
<1>3. ScriptInv /\ FreedInv => StructsAreFreed
  <2>. SUFFICES ASSUME ScriptInv, FreedInv, Done, program # "python",
                       failed \cap (Taking \cup {"set"}) = {}
                PROVE  alloc = {}
    BY DEF StructsAreFreed, Taking
  <2>1. Scripted /\ ~Holding
    BY DEF Scripted, ScriptInv, Done, Holding, Scripts
  <2>. QED  BY <2>1 DEF FreedInv, Closed
<1>. QED
  BY <1>1, <1>2, <1>3, ProgramsMemory, ScriptHolds, GivenBackHolds, PTL DEF ProgramsSpec

-----------------------------------------------------------------------------
(* The closed libusb handles that the programs use *)

\* The calls whose errors a program has to mind.
Telling == {"set", "enable", "start", "session"}

\* No closed libusb handle was used, and none is within reach.
Told ==
    /\ "call" \notin dead
    /\ DeviceHandle # NULL => usb[DeviceHandle] = "open"
    /\ \A h \in held : open[h] => usb[h] = "open"
    /\ lib = "exited" => DeviceHandle = NULL

ToldInv == Scripted /\ failed \cap Telling = {} => Told

LEMMA ToldIsLive == ASSUME Told, NEW p PROVE ~DeadHandle(p)
  BY DEF Told, DeadHandle, MayPass, Target

LEMMA ToldSet ==
    ASSUME TypeOK, Told, NEW m, NEW own \in BOOLEAN, SetDeviceCall(m, own), result' \in NoError
    PROVE  Told'
<1>1. CASE \E h \in Handles :
             /\ lib' = "up" /\ dead' = dead
             /\ usb' = [usb EXCEPT ![h] = "open"] /\ open' = [open EXCEPT ![h] = TRUE]
             /\ IF own THEN held' = held \cup {h} /\ DeviceHandle' = DeviceHandle
                ELSE DeviceHandle' = h /\ held' = held
  BY <1>1 DEF Told, TypeOK
<1>2. CASE /\ lib' = "set_device crashed"
           /\ UNCHANGED <<DeviceHandle, open, usb, held, dead>>
  BY <1>2 DEF Told
<1>. QED  BY <1>1, <1>2, SetEffect

LEMMA ToldEnable ==
    ASSUME Told, NEW p, libmk_enable_control(p), result' \in NoError
    PROVE  Told'
<1>1. UNCHANGED <<DeviceHandle, open, usb, held, dead, lib>>
  BY ToldIsLive DEF libmk_enable_control, OnNone, NotSet, EnableNoDriver, EnableNoClaim,
     EnableNoMode, EnableNoFirmware, Enable, struct, libusb, client, log, NoError
<1>. QED  BY <1>1 DEF Told

LEMMA ToldDisable == ASSUME TypeOK, Told, NEW p, libmk_disable_control(p) PROVE Told'
<1>1. CASE OnNone(p) \/ DisableNoMode(p) \/ DisableNoRelease(p)
  <2>1. UNCHANGED <<DeviceHandle, open, usb, held, dead, lib>>
    BY <1>1, ToldIsLive DEF OnNone, NotSet, DisableNoMode, DisableNoRelease, struct, libusb,
       client, log
  <2>. QED  BY <2>1 DEF Told
<1>2. CASE Disable(p)
  <2>1. /\ dead' = dead \cup {"disable"} /\ held' = held /\ lib' = lib /\ lib = "up"
        /\ usb' = [usb EXCEPT ![Target(p)] = "closed"]
        /\ open' = [open EXCEPT ![Target(p)] = FALSE]
        /\ DeviceHandle' = IF Target(p) = DeviceHandle THEN NULL ELSE DeviceHandle
    BY <1>2 DEF Disable, Reaches, MayPass, GlobalAfter, client
  <2>2. DeviceHandle' # NULL => usb'[DeviceHandle'] = "open"
    BY <2>1 DEF Told, TypeOK
  <2>3. \A h \in held : open'[h] => usb'[h] = "open"
    BY <2>1 DEF Told, TypeOK
  <2>. QED  BY <2>1, <2>2, <2>3 DEF Told
<1>. QED  BY <1>1, <1>2 DEF libmk_disable_control

LEMMA ToldUse == ASSUME Told, NEW p, Light(p) \/ libmk_reset(p) PROVE Told'
<1>1. UNCHANGED <<DeviceHandle, open, usb, held, dead, lib>>
  BY ToldIsLive DEF Light, libmk_reset, OnNone, NotSet, Exchange, ExchangeFails, Reset,
     ResetFails, struct, libusb, client, log
<1>. QED  BY <1>1 DEF Told

\* libmk_exit is refused while the global handle is open.
LEMMA ToldEnds ==
    ASSUME TypeOK, MemoryInv, Told,
           \/ libmk_detect_devices \/ libmk_exit \/ LightAfterExit
           \/ \E p : libmk_free_handle(p)
    PROVE  Told'
<1>1. CASE libmk_exit
  <2>1. Exit => DeviceHandle = NULL
    BY DEF Exit, Told, MemoryInv, OpenInv, TypeOK
  <2>2. UNCHANGED <<DeviceHandle, open, usb, held, dead>> /\ (ExitRefused => lib' = lib)
    BY <1>1 DEF libmk_exit, Exit, ExitRefused, struct, libusb, client, log
  <2>. QED  BY <1>1, <2>1, <2>2 DEF libmk_exit, Told
<1>2. CASE LightAfterExit
  BY <1>2 DEF LightAfterExit, Told, struct, libusb, client
<1>3. CASE libmk_detect_devices \/ \E p : libmk_free_handle(p)
  <2>1. UNCHANGED <<DeviceHandle, open, usb, dead, lib>> /\ held' \subseteq held
    BY <1>3 DEF libmk_detect_devices, libmk_free_handle, FreeHandle, FreeHandleRefused,
       struct, libusb, client, log
  <2>. QED  BY <2>1 DEF Told
<1>. QED  BY <1>1, <1>2, <1>3

LEMMA ToldStep ==
    ASSUME TypeOK, MemoryInv, ScriptInv, ToldInv, Step, Scripted PROVE ToldInv'
<1>. SUFFICES ASSUME (failed \cap Telling = {})' PROVE Told'
  BY DEF ToldInv
<1>1. /\ Calls /\ Told /\ call \in DOMAIN Script[program]
      /\ result' \in NoError \/ call \notin Telling
  BY StepFacts DEF ToldInv, NoError, Telling
<1>2. Own \in BOOLEAN
  BY DEF Own
<1>3. CASE call = "set"
  <2>1. PICK m : SetDeviceCall(m, Own)
    BY <1>1, <1>3 DEF Calls
  <2>. QED  BY <1>1, <1>2, <1>3, <2>1, ToldSet DEF Telling
<1>4. CASE call \in {"enable", "start"}
  BY <1>1, <1>4, ToldEnable DEF Calls, Telling
<1>5. CASE call = "create"
  BY <1>1, <1>5 DEF Calls, Told, vars, struct, libusb, client, log
<1>6. CASE call = "disable"
  BY <1>1, <1>6, ToldDisable DEF Calls
<1>7. CASE call \in {"light", "stray", "reset"}
  BY <1>1, <1>7, ToldUse, ToldEnds DEF Calls
<1>8. CASE call \in {"detect", "free", "exit", "quit"}
  BY <1>1, <1>8, ToldEnds DEF Calls
<1>. QED
  BY <1>1, <1>3, <1>4, <1>5, <1>6, <1>7, <1>8, ScriptTable DEF Scripted

LEMMA ToldNext ==
    ASSUME TypeOK, MemoryInv, ScriptInv, ToldInv, [ProgramsNext]_<<vars, script>>
    PROVE  ToldInv'
<1>1. CASE UNCHANGED <<vars, script>>
  BY <1>1 DEF vars, script, struct, libusb, client, log, ToldInv, Scripted, Told
<1>2. CASE Step /\ Scripted
  BY <1>2, ToldStep
<1>3. CASE Step /\ ~Scripted
  BY <1>3 DEF Step, Scripted, ToldInv
<1>4. CASE AnyCall
  BY <1>4 DEF AnyCall, script, Scripted, Scripts, ToldInv
<1>5. CASE CreateFails \/ HasNoModel \/ Join
  <2>1. UNCHANGED <<vars, program>> /\ failed \subseteq failed'
    BY <1>5 DEF CreateFails, HasNoModel, Join
  <2>. QED  BY <2>1 DEF ToldInv, Scripted, Told, vars, struct, libusb, client, log
<1>6. ASSUME NEW h \in Handles, ControllerThread(h) PROVE ToldInv'
  <2>1. program' = program /\ failed \subseteq failed'
    BY <1>6, ThreadFacts
  <2>2. SUFFICES ASSUME Told PROVE Told'
    BY <2>1 DEF ToldInv, Scripted
  <2>3. CASE ThreadBegins(h) \/ ThreadDrains(h) \/ ThreadStops(h)
    BY <2>2, <2>3 DEF ThreadBegins, ThreadDrains, ThreadStops, Told, vars, struct, libusb,
       client, log
  <2>4. CASE ThreadExecutes(h) \/ ThreadFails(h)
    BY <2>2, <2>4, ToldUse DEF ThreadExecutes, ThreadFails, Light
  <2>5. CASE ThreadDisables(h)
    BY <2>2, <2>5, ToldDisable DEF ThreadDisables
  <2>. QED  BY <1>6, <2>3, <2>4, <2>5 DEF ControllerThread
<1>. QED
  BY <1>1, <1>2, <1>3, <1>4, <1>5, <1>6 DEF ProgramsNext

\* A Python session that used a closed handle was given the code of the call.
PythonInv == program = "python" /\ "call" \in dead => "session" \in failed

\* Only DeadHandle and LightAfterExit note such a use, and Python makes no
\* call of libmk after Py_AtExit.
LEMMA PythonIsTold ==
    ASSUME PythonCalls, "call" \notin dead, "call" \in dead'
    PROVE  /\ call = "session" /\ result' = "LIBMK_ERR_TRANSFER"
           /\ answer' \notin {"exception", "number"}
<1>. USE DEF vars, struct, libusb, client, log
<1>1. ASSUME NEW p,
             \/ libmk_enable_control(p) \/ libmk_disable_control(p)
             \/ libmk_set_control_mode(p) \/ Light(p)
      PROVE  result' = "LIBMK_ERR_TRANSFER"
  <2>1. DeadHandle(p) => result' = "LIBMK_ERR_TRANSFER"
    BY DEF DeadHandle
  <2>2. ~NotSet(p) /\ ~EnableNoDriver(p) /\ ~EnableNoClaim(p) /\ ~EnableNoMode(p)
        /\ ~EnableNoFirmware(p) /\ ~Enable(p)
    BY DEF NotSet, EnableNoDriver, EnableNoClaim, EnableNoMode, EnableNoFirmware, Enable
  <2>3. ~DisableNoMode(p) /\ ~DisableNoRelease(p) /\ ~Disable(p)
        /\ ~(\E m \in {"firmware", "custom"} : SetControlMode(p, m))
    BY DEF DisableNoMode, DisableNoRelease, Disable, SetControlMode
  <2>4. ~Exchange(p) /\ ~ExchangeFails(p)
    BY DEF Exchange, ExchangeFails
  <2>. QED
    BY <1>1, <2>1, <2>2, <2>3, <2>4 DEF libmk_enable_control, libmk_disable_control,
       libmk_set_control_mode, Light, OnNone
<1>2. ~masterkeys_detect_devices /\ ~AtExit
  BY DEF masterkeys_detect_devices, libmk_detect_devices, AtExit, libmk_exit, Exit, ExitRefused
<1>3. ~(UNCHANGED vars) /\ ~Rejected
  BY DEF Rejected
<1>4. ~masterkeys_set_device
  <2>1. ASSUME NEW m, SetDeviceCall(m, FALSE) PROVE dead' = dead
    BY <2>1 DEF SetDeviceCall, SetDeviceNoList, SetDeviceNotFound, SetDeviceCrashes,
       SetDeviceNoMemory, SetDeviceNoHandle, SetDevice
  <2>. QED  BY <1>3, <2>1 DEF masterkeys_set_device
<1>5. ~masterkeys_get_device_ident
  BY DEF masterkeys_get_device_ident, NotSet, GetDeviceIdent
<1>6. call = "session"
  BY <1>2 DEF PythonCalls
<1>7. CASE masterkeys_enable_control \/ masterkeys_disable_control \/ masterkeys_set_control_mode
  BY <1>1, <1>3, <1>6, <1>7 DEF masterkeys_enable_control, masterkeys_disable_control,
     masterkeys_set_control_mode, Code
<1>8. CASE masterkeys_set_color \/ masterkeys_get_active_profile
  BY <1>1, <1>3, <1>6, <1>8 DEF masterkeys_set_color, masterkeys_get_active_profile
<1>. QED  BY <1>2, <1>4, <1>5, <1>7, <1>8 DEF PythonCalls

LEMMA PythonNext ==
    ASSUME ScriptInv, PythonInv, [ProgramsNext]_<<vars, script>> PROVE PythonInv'
<1>1. CASE UNCHANGED <<vars, script>>
  BY <1>1 DEF vars, script, log, PythonInv
<1>2. CASE Step /\ program = "python"
  <2>1. /\ PythonCalls
        /\ failed' = IF Fails THEN failed \cup {call} ELSE failed
    BY <1>2 DEF Step
  <2>2. "call" \notin dead /\ "call" \in dead' => Fails /\ call = "session"
    BY <2>1, PythonIsTold DEF Fails
  <2>. QED  BY <1>2, <2>1, <2>2 DEF PythonInv, Step
<1>3. CASE Step /\ program # "python"
  BY <1>3 DEF Step, PythonInv
<1>4. CASE AnyCall
  BY <1>4 DEF AnyCall, script, PythonInv
<1>5. CASE CreateFails \/ HasNoModel \/ Join
  BY <1>5 DEF CreateFails, HasNoModel, Join, NoModel, PythonInv
<1>6. ASSUME NEW h \in Handles, ControllerThread(h) PROVE PythonInv'
  BY <1>6, ThreadFacts DEF PythonInv
<1>. QED
  BY <1>1, <1>2, <1>3, <1>4, <1>5, <1>6 DEF ProgramsNext

\* A program or a Python session that uses a closed libusb handle was told
\* before: by an error of set_device or of enable_control that it went on
\* after, or by the code that Python was given.
THEOREM ProgramsAreTold == ProgramsSpec => []DeadIsTold
<1>1. ProgramsInit => ToldInv /\ PythonInv
  BY DEF ProgramsInit, Init, ToldInv, Told, PythonInv
<1>2. /\ TypeOK /\ MemoryInv /\ ScriptInv /\ ToldInv /\ PythonInv
      /\ [ProgramsNext]_<<vars, script>>
      => (ToldInv /\ PythonInv)'
  BY ToldNext, PythonNext
<1>3. ScriptInv /\ ToldInv /\ PythonInv => DeadIsTold
  BY DEF ScriptInv, ToldInv, Told, PythonInv, DeadIsTold, Scripted, Telling
<1>. QED
  BY <1>1, <1>2, <1>3, ProgramsMemory, ScriptHolds, PTL DEF ProgramsSpec
=============================================================================
