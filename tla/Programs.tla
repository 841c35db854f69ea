------------------------------ MODULE Programs ------------------------------
(***************************************************************************)
(* The programs of the repository as sequences of calls of libmk:          *)
(* utils/main.c, record.c and ctrl.c, the examples ambilight.c, viewer.py  *)
(* and mk_notifications.c, and a Python session at the binding             *)
(* masterkeys.c.  What they do with the answers decides who gives the      *)
(* keyboards back.                                                         *)
(***************************************************************************)
EXTENDS HandleProperties

CONSTANT Started    \* the programs that are run on a bus

ASSUME StartedAssumption ==
    Started \in [Buses -> SUBSET {"main", "record", "ctrl", "viewer", "ambilight",
                                "notifications", "python", "any"}]

VARIABLES
    program,    \* the one that runs
    call,       \* the call it makes next
    models,     \* the models that detect_devices gave, and that are to be tried
    answer,     \* what the last call gave to Python
    failed,     \* the calls that returned an error other than DEV_NOT_SET
    control     \* of every handle: the state of the controller of ctrl.c for it

script == <<program, call, models, answer, failed, control>>

-----------------------------------------------------------------------------
(* The functions of libmk, each with all its outcomes. *)

ModelsOn(b) ==
    LET known == SelectSeq(b, Supported)
    IN  [i \in DOMAIN known |-> libmk_ident_model(known[i].product)]

libmk_detect_devices ==
    /\ lib = "up"
    /\ \/ result' = "LIBMK_SUCCESS" /\ models' = ModelsOn(bus)
       \/ "list" \in Faults /\ result' = "LIBMK_ERR_DEV_LIST" /\ models' = <<>>
    /\ UNCHANGED <<bus, DeviceHandle, struct, libusb, keyboard, client, log, lib>>

OnNone(p) == NotSet(p) \/ DeadHandle(p)

libmk_enable_control(p) ==
    \/ OnNone(p) \/ EnableNoDriver(p) \/ EnableNoClaim(p) \/ EnableNoMode(p)
    \/ EnableNoFirmware(p) \/ Enable(p)
libmk_disable_control(p) == OnNone(p) \/ DisableNoMode(p) \/ DisableNoRelease(p) \/ Disable(p)
libmk_set_control_mode(p) ==
    OnNone(p) \/ DisableNoMode(p) \/ \E m \in {"firmware", "custom"} : SetControlMode(p, m)
Light(p) == OnNone(p) \/ Exchange(p) \/ ExchangeFails(p)
libmk_reset(p) == OnNone(p) \/ Reset(p) \/ ResetFails(p)
libmk_free_handle(p) == FreeHandle(p) \/ FreeHandleRefused(p)
libmk_exit == Exit \/ ExitRefused

\* The threads of mk_notifications.c run after its init called libmk_exit,
\* which frees the global handle and leaves the pointer to it.
LightAfterExit ==
    /\ lib = "exited"
    /\ IF DeviceHandle = NULL
       THEN result' = "LIBMK_ERR_DEV_NOT_SET" /\ UNCHANGED <<dead, lib>>
       ELSE /\ dead' = dead \cup {"call"} /\ lib' \in {"exited", "call crashed"}
            /\ result' = "LIBMK_ERR_TRANSFER"
    /\ UNCHANGED <<bus, DeviceHandle, struct, libusb, keyboard, client, ident>>

-----------------------------------------------------------------------------
(* The Python binding: every function acts on the global handle.  An        *)
(* exception of PyArg_ParseTuple comes before libmk is called.              *)

Rejected == answer' = "exception" /\ UNCHANGED vars /\ models' = models
Code == answer' = "code" /\ models' = models

\* Py_None is returned, without a reference, when there is no list.
masterkeys_detect_devices ==
    libmk_detect_devices /\ answer' = IF result' = "LIBMK_SUCCESS" THEN "tuple" ELSE "None"
masterkeys_set_device == Rejected \/ (Code /\ \E m \in Wanted : SetDeviceCall(m, FALSE))
masterkeys_enable_control == libmk_enable_control(NULL) /\ Code
masterkeys_disable_control == libmk_disable_control(NULL) /\ Code
masterkeys_set_control_mode == Rejected \/ (Code /\ libmk_set_control_mode(NULL))

\* An item that is no small integer is converted to some byte, and the call
\* of libmk is made before Python sees the exception of the conversion.
masterkeys_set_color ==
    Rejected \/ (Light(NULL) /\ answer' \in {"code", "code and exception"} /\ models' = models)

\* NULL is returned without an exception.
masterkeys_get_active_profile ==
    /\ Light(NULL) /\ models' = models
    /\ answer' = IF result' = "LIBMK_SUCCESS" THEN "number" ELSE "nothing"

\* 0, rather than an error, when no device is set.
masterkeys_get_device_ident ==
    (NotSet(NULL) \/ GetDeviceIdent(NULL)) /\ answer' = "number" /\ models' = models

\* Py_AtExit calls libmk_exit; its result is lost.
AtExit == libmk_exit /\ UNCHANGED <<answer, models>>

-----------------------------------------------------------------------------
(* The programs: what follows a call that succeeds, and one that fails.     *)

To(next, otherwise) == [ok |-> next, error |-> otherwise]
Then(next) == To(next, next)

Main == [
    detect |-> Then({"set"}),             set |-> To({"enable"}, {"set"}),
    enable |-> To({"light"}, {"reset"}),  light |-> Then({"light", "disable"}),
    disable |-> Then({"reset"}),          reset |-> Then({"set"}),
    exit |-> Then({"ended"})]

\* record.c, given what follows a packet that fails, and disable_control.
RecordWith(onError, afterDisable) == [
    detect |-> To({"set"}, {"ended"}),    set |-> To({"enable"}, {"ended"}),
    enable |-> Then({"light"}),           light |-> To({"light", "disable"}, onError),
    disable |-> Then(afterDisable),       free |-> Then({"exit"}),
    exit |-> Then({"ended"})]
RecordBug == RecordWith({"exit"}, {"free"})
RecordNoFreeBug == RecordWith({"disable"}, {"exit"})
Record == RecordWith({"disable"}, {"free"})

\* ctrl.c starts a controller for every keyboard, and looks at no result.
Ctrl == [
    detect |-> Then({"set"}),             set |-> To({"create"}, {"set"}),
    create |-> Then({"start"}),           start |-> Then({"join"}),
    free |-> Then({"set"})]

\* len(None) raises, and so do images that viewer.py cannot read.
Viewer == [
    detect |-> To({"set"}, {"exit"}),     set |-> Then({"enable"}),
    enable |-> Then({"light"}),           light |-> Then({"disable"}),
    disable |-> Then({"exit"}),           exit |-> Then({"ended"})]

Ambilight == [
    detect |-> To({"set"}, {"ended"}),    set |-> Then({"enable"}),
    enable |-> Then({"light"}),           light |-> Then({"light", "disable"}),
    disable |-> Then({"exit"}),           exit |-> Then({"ended"})]

\* notifications.py starts the threads whatever number init returned.
Notifier == [
    detect |-> To({"set"}, {"quit"}),     set |-> To({"enable"}, {"quit"}),
    enable |-> To({"light"}, {"quit"}),   light |-> To({"light", "disable"}, {"disable"}),
    disable |-> Then({"exit"}),           exit |-> Then({"ended"}),
    quit |-> Then({"stray", "ended"}),    stray |-> To({"stray", "ended"}, {"ended"})]

\* A Python session makes any call next, whatever the last one answered.
Python == [session |-> Then({"session", "exit"}), exit |-> Then({"ended"})]

Script == [main |-> Main, record |-> Record, ctrl |-> Ctrl, viewer |-> Viewer,
           ambilight |-> Ambilight, notifications |-> Notifier, python |-> Python]

\* Where a program goes that detected no keyboard, or was told none.
NoModel == [main |-> "exit", record |-> "ended", ctrl |-> "ended", viewer |-> "exit",
            notifications |-> "quit"]

\* ambilight.c takes the first of none, record.c asks which of several.
Offered ==
    IF \/ program = "record" /\ Len(models) > 1
       \/ program = "ambilight" /\ models = <<>>
    THEN Wanted ELSE IF models = <<>> THEN {} ELSE {models[1]}

Own == program \in {"record", "ctrl"}
Passed == IF Own THEN out ELSE NULL
Remaining == IF program \in {"main", "ctrl"} THEN Tail(models) ELSE models

Calls ==
    \/ call = "detect" /\ libmk_detect_devices
    \/ /\ call = "set" /\ \E m \in Offered : SetDeviceCall(m, Own)
       /\ models' = Remaining
    \/ /\ models' = models
       /\ \/ call = "create" /\ UNCHANGED vars
          \/ call \in {"enable", "start"} /\ libmk_enable_control(Passed)
          \/ call \in {"light", "stray"} /\ Light(Passed)
          \/ call = "stray" /\ LightAfterExit
          \/ call = "disable" /\ libmk_disable_control(Passed)
          \/ call = "reset" /\ libmk_reset(Passed)
          \/ call = "free" /\ libmk_free_handle(Passed)
          \/ call \in {"exit", "quit"} /\ libmk_exit

PythonCalls ==
    \/ /\ call = "session"
       /\ \/ masterkeys_detect_devices \/ masterkeys_set_device
          \/ masterkeys_enable_control \/ masterkeys_disable_control
          \/ masterkeys_set_control_mode \/ masterkeys_set_color
          \/ masterkeys_get_active_profile \/ masterkeys_get_device_ident
    \/ call = "exit" /\ AtExit

Fails ==
    /\ result' \notin {"LIBMK_SUCCESS", "LIBMK_ERR_DEV_NOT_SET"}
    /\ answer' \notin {"exception", "number"}

Step ==
    /\ program \in DOMAIN Script /\ call \in DOMAIN Script[program]
    /\ IF program = "python" THEN PythonCalls ELSE Calls /\ answer' = answer
    /\ LET next == Script[program][call]
       IN  call' \in IF result' = "LIBMK_SUCCESS" THEN next.ok ELSE next.error
    /\ failed' = IF Fails THEN failed \cup {call} ELSE failed
    /\ control' = CASE call = "create" -> [control EXCEPT ![out] = "created"]
                    [] call = "start" /\ ~Fails -> [control EXCEPT ![out] = "prestart"]
                    [] OTHER -> control
    /\ program' = program

HasNoModel ==
    /\ program \in DOMAIN NoModel /\ call = "set"
    /\ models = <<>> \/ (program = "record" /\ Len(models) > 1)
    /\ call' = NoModel[program]
    /\ UNCHANGED <<vars, program, models, answer, failed, control>>

-----------------------------------------------------------------------------
(* libmkc in ctrl.c: the controller, its thread, and the join by polling.   *)

\* No memory for the controller: the next keyboard.
CreateFails ==
    /\ program = "ctrl" /\ call = "create" /\ "memory" \in Faults
    /\ call' = "set" /\ failed' = failed \cup {"create"}
    /\ UNCHANGED <<vars, program, models, answer, control>>

\* A controller that is not ACTIVE is not waited for, stopped or not started.
Join ==
    /\ program = "ctrl" /\ call = "join" /\ call' = "free"
    /\ failed' = IF control[out] = "stopped" THEN failed ELSE failed \cup {"join"}
    /\ UNCHANGED <<vars, program, models, answer, control>>

Advance(h, from, to) ==
    /\ program = "ctrl" /\ call # "ended"
    /\ control[h] = from /\ control' = [control EXCEPT ![h] = to]
    /\ UNCHANGED <<program, call, models, answer>>

ThreadBegins(h) == Advance(h, "prestart", "active") /\ UNCHANGED <<vars, failed>>
ThreadExecutes(h) == Advance(h, "active", "active") /\ Exchange(h) /\ UNCHANGED failed
ThreadFails(h) ==
    Advance(h, "active", "leaving") /\ ExchangeFails(h) /\ failed' = failed \cup {"light"}

\* wait_controller was called: the thread leaves an empty list.
ThreadDrains(h) ==
    Advance(h, "active", "leaving") /\ call \in {"join", "free", "set"} /\ UNCHANGED <<vars, failed>>

ThreadDisables(h) ==
    /\ Advance(h, "leaving", "closed") /\ libmk_disable_control(h)
    /\ failed' = IF result' = "LIBMK_SUCCESS" THEN failed ELSE failed \cup {"disable"}
ThreadStops(h) == Advance(h, "closed", "stopped") /\ UNCHANGED <<vars, failed>>

ControllerThread(h) ==
    \/ ThreadBegins(h) \/ ThreadExecutes(h) \/ ThreadFails(h)
    \/ ThreadDrains(h) \/ ThreadDisables(h) \/ ThreadStops(h)

-----------------------------------------------------------------------------

\* Any other client: whatever calls the documentation allows.
AnyCall == program = "any" /\ Next /\ UNCHANGED script

ProgramsInit ==
    /\ Init /\ program \in Started[bus]
    /\ call \in CASE program = "python" -> {"session"}
                  [] program = "viewer" -> {"detect", "exit"}
                  [] OTHER -> {"detect"}
    /\ models = <<>> /\ answer = "code" /\ failed = {} /\ control = [h \in Handles |-> "none"]

\* A crash is the end of the process, with all of its threads.
ProgramsNext ==
    /\ lib \notin Crashes
    /\ \/ Step \/ HasNoModel \/ AnyCall
       \/ CreateFails \/ Join \/ \E h \in Handles : ControllerThread(h)
ProgramsSpec == ProgramsInit /\ [][ProgramsNext]_<<vars, script>>

-----------------------------------------------------------------------------
(* What the programs are to keep. *)

\* main.c and ctrl.c are also done with a keyboard before they take the next.
Done == call = "ended" \/ (program \in {"main", "ctrl"} /\ call \in {"set", "exit"})

\* A program that could enable and disable control, and for ctrl.c make and
\* join the controller, leaves every keyboard to its firmware and closes its
\* libusb handles, whatever else failed, also on the ways out of record.c
\* after a failed packet (lines 106-111 and 129-134).
KeyboardsAreGivenBack ==
    Done /\ program # "python" /\ failed \cap {"enable", "start", "create", "disable", "join"} = {} =>
        /\ \A k \in Index : mode[k] = "firmware"
        /\ \A h \in Handles : usb[h] # "open"

\* When the device was set too, no struct is left: record.c (line 139) and
\* ctrl.c (149) free their own, and disable_control the global one.
StructsAreFreed ==
    Done /\ program # "python"
         /\ failed \cap {"set", "enable", "start", "create", "disable", "join"} = {} => alloc = {}

\* No program uses a closed libusb handle unless set_device or enable_control
\* told it of an error that it ignored: after disable_control there is nothing
\* to use (main.c resets the keyboard at line 133, after disabling at 128).
DeadIsTold == program # "any" /\ "call" \in dead => failed \cap {"set", "enable", "start", "session"} # {}

-----------------------------------------------------------------------------
(* What the documentation says, and the programs do not do. *)

\* "Use only at the end of the program" (libmk.h:210): libmk_exit.
ExitIsTheEnd == call # "stray"

\* "Now the controller will automatically exit after all instructions are
\* done" (ctrl.c:143): the program does not end before the controller does.
ControllerExits ==
    program = "ctrl" /\ call = "ended" => \A h \in Handles : control[h] \in {"none", "created", "stopped"}

\* ":return: Result code ... or profile number" (__init__.py:302): no NULL.
ProfileIsAnswered == answer # "nothing"

\* ":return: Tuple of integers" (__init__.py:106): detect_devices, not None.
DetectGivesTuple == answer # "None"
=============================================================================
