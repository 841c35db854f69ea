------------------------------ MODULE DeviceList ------------------------------
(***************************************************************************)
(* libmk_detect_devices of libmk/libmk.c, called again and again: it links *)
(* a LibMK_Device per supported device on the bus, copies their models     *)
(* into an array, and frees the devices.                                   *)
(*                                                                         *)
(* libmk_create_device leaves the next field as malloc returned it: with   *)
(* the link of an earlier list, or with what any other user of the block   *)
(* wrote there (the strings and libusb's structs of lines 241-298, freed   *)
(* before).  The heap is therefore part of the model.  Where the code      *)
(* reads a LibMK_Device that is not allocated the model stops, and claims  *)
(* nothing more: C leaves open what happens then, and a build may crash,   *)
(* or go on and report devices out of order or not at all.                 *)
(***************************************************************************)
EXTENDS DeviceIdent, FiniteSets, SequencesExt

CONSTANTS
    Cells,      \* the heap blocks that malloc can return for a LibMK_Device
    NULL,
    Wild,       \* an address that is no cell's
    Garbage,    \* what other users of a block may leave where next will be
    Buses,      \* what may be plugged in when detect is called
    MaxCalls,   \* bound on the calls of detect
    Lifo        \* does malloc return the block freed last, as glibc does

Pointers == Cells \cup {NULL}
Links == Pointers \cup {Wild}

ASSUME BusesAssumption ==
    /\ \A b \in Buses : b \in Seq(Devices) /\ Len(b) <= Cardinality(Cells)
    /\ NULL \notin Cells /\ Wild \notin Pointers
ASSUME HeapAssumption == Garbage \subseteq Links /\ Lifo \in BOOLEAN
ASSUME CallsAssumption == MaxCalls \in Nat

VARIABLES
    pc,             \* where detect is: idle, open, walk, copy or strayed
    bus, i,         \* the libusb device list and the loop over it
    list, temp, n,  \* locals of detect
    current,        \* local of libmk_append_device
    models, result, \* the array of the caller, and what detect returned
    next, model,    \* the fields of the cells
    live, freed,    \* allocated cells, and the others that were: last freed first
    leaked,         \* libusb handles that were opened and not closed
    calls,
    \* auxiliary: the cell appended last, and whether this call appended a
    \* device behind a cell whose next malloc had not returned as NULL
    tail, stale

locals == <<bus, i, list, temp, n, current>>
fields == <<next, model>>
heap == <<live, freed>>
answer == <<models, result>>
aux == <<tail, stale>>
vars == <<pc, locals, fields, heap, answer, leaked, calls, aux>>

LIBMK_ERR_DEV_LIST == -9
\* The positions of the supported devices on a bus.
SupportedAt(b) == {k \in DOMAIN b : Supported(b[k])}
ModelOf(d) == libmk_ident_model(d.product)

TypeOK ==
    /\ pc \in {"idle", "open", "walk", "copy", "strayed"}
    /\ bus \in Buses \cup {<<>>} /\ i \in 1..Len(bus) + 1
    /\ list \in Pointers /\ {temp, current} \subseteq Links /\ n \in 0..Len(bus)
    /\ models \in Seq(Models) /\ result \in {LIBMK_ERR_DEV_LIST} \cup Nat
    /\ next \in [Cells -> Links] /\ model \in [Cells -> Models \cup {"none"}]
    /\ live \subseteq Cells /\ freed \in Seq(Cells \ live) /\ IsInjective(freed)
    /\ leaked \in Nat /\ calls \in 0..MaxCalls
    /\ tail \in Pointers /\ stale \in BOOLEAN

Init ==
    /\ pc = "idle" /\ bus = <<>> /\ i = 1 /\ n = 0
    /\ list = NULL /\ temp = NULL /\ current = NULL
    /\ models = <<>> /\ result = 0
    /\ next = [c \in Cells |-> NULL] /\ model = [c \in Cells |-> "none"]
    /\ live = {} /\ freed = <<>> /\ leaked = 0 /\ calls = 0
    /\ tail = NULL /\ stale = FALSE

-----------------------------------------------------------------------------
DetectFails ==
    /\ pc = "idle" /\ calls < MaxCalls /\ calls' = calls + 1
    /\ result' = LIBMK_ERR_DEV_LIST
    /\ UNCHANGED <<pc, locals, fields, heap, models, leaked, aux>>

Detect ==
    /\ pc = "idle" /\ calls < MaxCalls /\ calls' = calls + 1
    /\ bus' \in Buses
    /\ pc' = "open" /\ i' = 1 /\ n' = 0
    /\ list' = NULL /\ temp' = NULL /\ current' = NULL
    /\ tail' = NULL /\ stale' = FALSE
    /\ UNCHANGED <<fields, heap, answer, leaked>>

OpenDeviceBug(d) == d.usb = "opens" /\ d.maker
OpenDevice(d) == Supported(d)

SkipDevice ==
    /\ pc = "open" /\ i <= Len(bus) /\ ~OpenDevice(bus[i])
    /\ i' = i + 1 /\ temp' = NULL
    /\ leaked' = IF LeftOpen(bus[i]) THEN leaked + 1 ELSE leaked
    /\ UNCHANGED <<pc, bus, list, n, current, fields, heap, answer, calls, aux>>

\* The blocks malloc may return.
Malloc == IF Lifo /\ freed # <<>> THEN {Head(freed)} ELSE Cells \ live

Without(s, c) ==
    IF c \in Range(s) THEN RemoveAt(s, CHOOSE k \in DOMAIN s : s[k] = c) ELSE s

CreateDeviceBug(c) ==
    /\ live' = live \cup {c} /\ freed' = freed
    /\ model' = [model EXCEPT ![c] = ModelOf(bus[i])] /\ next' = next

\* libmk_create_device sets every field of the cell but next, which keeps
\* what detect left there or holds what others did.
CreateDevice(c) ==
    /\ live' = live \cup {c}
    /\ freed' = Without(freed, c)
    /\ model' = [model EXCEPT ![c] = ModelOf(bus[i])]
    /\ \E link \in {next[c]} \cup Garbage : next' = [next EXCEPT ![c] = link]

\* The count of devices after another one was appended.
CountedBug == IF list = NULL THEN n + 1 ELSE n
Counted == n + 1

\* The first supported device: libmk_append_device returns it as the list.
AppendFirst ==
    /\ pc = "open" /\ i <= Len(bus) /\ OpenDevice(bus[i]) /\ list = NULL
    /\ \E c \in Malloc : CreateDevice(c) /\ temp' = c /\ list' = c /\ tail' = c
    /\ n' = Counted /\ i' = i + 1
    /\ UNCHANGED <<pc, bus, current, answer, leaked, calls, stale>>

\* Another one: libmk_append_device starts at the head.
AppendNext ==
    /\ pc = "open" /\ i <= Len(bus) /\ OpenDevice(bus[i]) /\ list # NULL
    /\ \E c \in Malloc : CreateDevice(c) /\ temp' = c /\ tail' = c
    /\ stale' = (stale \/ next[tail] # NULL)
    /\ current' = list /\ pc' = "walk"
    /\ UNCHANGED <<bus, i, list, n, answer, leaked, calls>>

LastCellBug(c) == next[c] = list
LastCell(c) == next[c] = NULL

\* The cell whose next the loop reads, and whether it reads one.
Reached == IF pc = "walk" THEN current ELSE temp
Reads == pc = "walk" \/ (pc = "copy" /\ Len(models) < n)

\* The loop has come to memory that is not an allocated LibMK_Device.
Stray ==
    /\ Reads /\ Reached \notin live
    /\ pc' = "strayed"
    /\ UNCHANGED <<locals, fields, heap, answer, leaked, calls, aux>>

Walk ==
    /\ pc = "walk" /\ current \in live /\ ~LastCell(current)
    /\ current' = next[current]
    /\ UNCHANGED <<pc, bus, i, list, temp, n, fields, heap, answer, leaked, calls, aux>>

Link ==
    /\ pc = "walk" /\ current \in live /\ LastCell(current)
    /\ next' = [next EXCEPT ![current] = temp]
    /\ n' = Counted /\ i' = i + 1 /\ pc' = "open"
    /\ UNCHANGED <<bus, list, temp, current, model, heap, answer, leaked, calls, aux>>

BuildArray ==
    /\ pc = "open" /\ i > Len(bus)
    /\ models' = <<>> /\ temp' = list /\ pc' = "copy"
    /\ UNCHANGED <<bus, i, list, n, current, fields, heap, result, leaked, calls, aux>>

\* Where the copying loop goes from cell c.
FollowingBug(c) == IF next[c] # NULL THEN next[list] ELSE c
Following(c) == IF next[c] # NULL THEN next[c] ELSE c

\* One turn of the copying loop, which frees the cell it has read.
CopyModel ==
    /\ pc = "copy" /\ Len(models) < n /\ temp \in live
    /\ models' = Append(models, model[temp])
    /\ temp' = Following(temp)
    /\ live' = live \ {temp} /\ freed' = <<temp>> \o freed
    /\ UNCHANGED <<pc, bus, i, list, n, current, fields, result, leaked, calls, aux>>

Return ==
    /\ pc = "copy" /\ Len(models) = n
    /\ result' = n /\ pc' = "idle"
    /\ UNCHANGED <<locals, fields, heap, models, leaked, calls, aux>>

Step ==
    SkipDevice \/ AppendFirst \/ AppendNext \/ Walk \/ Link
        \/ BuildArray \/ CopyModel \/ Return \/ Stray
Next == Detect \/ DetectFails \/ Step

Spec == Init /\ [][Next]_vars

\* detect is sequential code: it takes a step whenever it can.
FairSpec == Spec /\ WF_vars(Step)

-----------------------------------------------------------------------------
\* A call that comes to its end without reading memory that is no device of its
\* list (StraysOnStale says when it may) has reported what is on the bus: as
\* many models as supported devices, in the order of the bus, whatever links
\* the blocks held (libmk_detect_devices, lines 214-237).
InBusOrder(at) ==
    /\ \A j, k \in DOMAIN at : j < k => at[j] < at[k]
    /\ Range(at) = SupportedAt(bus)
DetectsTheBus ==
    pc = "idle" /\ result # LIBMK_ERR_DEV_LIST =>
        \E at \in [1..result -> SupportedAt(bus)] :
            InBusOrder(at) /\ models = [k \in 1..result |-> ModelOf(bus[at[k]])]

\* Only one thing leads detect out of its list: that a device was appended
\* behind a block whose next malloc had not returned as NULL.  What the block
\* of the only device, or of the last one, holds does no harm: the loop of
\* line 230 ends by its count (lines 229-236 and 312-315).
StraysOnStale == pc = "strayed" => stale

\* After such a call every LibMK_Device is freed, whatever links the blocks
\* held: detect keeps none and frees none twice (lines 233-236).
DevicesAreFreed == pc = "idle" => live = {}

\* detect returns to its caller unless a stale link is in its list (lines
\* 312-313: the walk meets a NULL).
DetectReturns == (pc # "idle") ~> (pc = "idle" \/ stale)

=============================================================================
