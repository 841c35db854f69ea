------------------------------ MODULE Controller ------------------------------
(***************************************************************************)
(* The asynchronous controller of libmk/libmkc.c: one thread that executes *)
(* a linked list of instructions on a keyboard, and the client threads     *)
(* that schedule, cancel, stop, wait, join and free.                       *)
(*                                                                         *)
(* instr_lock is held over the execution of an instruction and over its    *)
(* sleep, so it is a variable.  The state, exit_flag and error locks guard *)
(* single reads and writes, which are atomic steps here.  A call that      *)
(* blocks on instr_lock is two steps: the call, and its critical section.  *)
(*                                                                         *)
(* An operator whose name ends in Bug is a plausible slip in the operator  *)
(* after it.  No action uses one: they are what the properties must catch. *)
(***************************************************************************)
EXTENDS Naturals, Sequences, FiniteSets, SequencesExt

CONSTANTS
    Clients,            \* the threads that call the library
    Instrs,             \* the LibMK_Instruction structs they create
    IdMod,              \* ids are unsigned ints, modulo IdMod
    MaxChain,           \* longest linked list passed to one sched call
    Habits,             \* what clients do beyond the documentation
    Faults              \* which calls out of the controller may fail; malloc:
                        \* memory from it is not zero

ASSUME InstrsAssumption == IsFiniteSet(Instrs)
ASSUME IdModAssumption == IdMod \in Nat /\ IdMod > 2
ASSUME MaxChainAssumption == MaxChain \in Nat /\ MaxChain > 0
ASSUME HabitsAssumption == Habits \subseteq {"reschedule", "free_unjoined"}
ASSUME FaultsAssumption == Faults \subseteq {"enable", "create", "exec", "disable", "malloc"}

UnsetId == IdMod - 1    \* (unsigned int) -1, the id of a new instruction

\* Two members of enum LibMK_Result with one value.
LIBMK_ERR_STILL_ACTIVE == "-15"
LIBMK_ERR_DEV_NOT_CLOSED == "-15"

\* The linked lists a client can build with the create_instruction functions.
Chains == {s \in UNION {[1..n -> Instrs] : n \in 1..MaxChain} : IsInjective(s)}

VARIABLES
    \* The fields of the LibMK_Controller.
    mem,                \* is the struct live, its locks destroyed, or freed
    state, exit_flag, wait_flag, error,
    instr,              \* the linked list, head first
    instr_lock,         \* who holds it: "leaked" is a client that returned
    handle,             \* is the LibMK_Handle open or closed
    \* The fields of every LibMK_Instruction, and who owns its memory.
    id, alloc,
    \* The clients: the call each is in, its argument, what join or free said.
    pc, arg, result,
    started,            \* start_controller has returned LIBMK_SUCCESS
    \* The controller thread: where it is, its local copy of wait_flag.
    tpc, wait,
    \* History: instructions executed, steps that failed, and the list that
    \* the first wait_controller found.
    done, failed, promised

owner == <<mem, handle>>
status == <<state, error>>
flags == <<exit_flag, wait_flag>>
list == <<instr, instr_lock, id, alloc>>
fields == <<owner, status, flags, list>>
clients == <<pc, arg, result, started>>
thread == <<tpc, wait>>
history == <<done, failed, promised>>
vars == <<fields, clients, thread, history>>

(***************************************************************************)
(* libmk_create_controller: error is in memory from malloc and is not set. *)
(***************************************************************************)
InitialErrors == {"SUCCESS"} \cup (IF "malloc" \in Faults THEN {"garbage"} ELSE {})

Init ==
    /\ mem = "live"
    /\ state = "PRESTART"
    /\ exit_flag = FALSE
    /\ wait_flag = FALSE
    /\ error \in InitialErrors
    /\ instr = <<>>
    /\ instr_lock = "free"
    /\ handle = "open"
    /\ id = [i \in Instrs |-> UnsetId]
    /\ alloc = [i \in Instrs |-> "fresh"]
    /\ pc = [c \in Clients |-> "idle"]
    /\ arg = [c \in Clients |-> <<>>]
    /\ result = [c \in Clients |-> "none"]
    /\ started = FALSE
    /\ tpc = "none"
    /\ wait = FALSE
    /\ done = <<>>
    /\ failed = {}
    /\ promised = {}

\* The thread exists and has not left libmk_run_controller.
Running == tpc \notin {"none", "ended"}

\* A client enters the library while nobody is freeing the controller.
CanCall(c) == pc[c] = "idle" /\ mem = "live" /\ \A d \in Clients : pc[d] # "free"

Begin(c, call, chain) ==
    /\ CanCall(c)
    /\ pc' = [pc EXCEPT ![c] = call]
    /\ arg' = [arg EXCEPT ![c] = chain]

Return(c, call) ==
    /\ pc[c] = call
    /\ pc' = [pc EXCEPT ![c] = "idle"]
    /\ arg' = [arg EXCEPT ![c] = <<>>]

LockFreeBug == TRUE
LockFree == instr_lock = "free"

UnlockBug == instr_lock' = IF tpc = "exec" THEN "leaked" ELSE "free"
Unlock == instr_lock' = "free"

\* The instructions of chain now belong to owner o.
Owned(chain, o) == [i \in Instrs |-> IF i \in ToSet(chain) THEN o ELSE alloc[i]]

-----------------------------------------------------------------------------
(***************************************************************************)
(* libmk_start_controller.  A client starts a controller once; it may try  *)
(* again when control could not be enabled.  The result of pthread_create  *)
(* is not looked at.                                                       *)
(***************************************************************************)
Start(c) ==
    /\ CanCall(c)
    /\ ~started
    /\ started' = TRUE
    /\ \/ tpc' = "begin"
       \/ /\ "create" \in Faults
          /\ tpc' = "none"
    /\ UNCHANGED <<fields, pc, arg, result, wait, history>>

StartFails(c) ==
    /\ CanCall(c)
    /\ ~started
    /\ "enable" \in Faults
    /\ failed' = failed \cup {"enable"}
    /\ UNCHANGED <<fields, clients, thread, done, promised>>

(***************************************************************************)
(* libmk_sched_instruction.  The id check is under the lock, and returns   *)
(* without unlocking it.  A freed instruction keeps its id: the allocator  *)
(* does not touch that offset.                                             *)
(***************************************************************************)
SchedCall(c, chain) ==
    /\ Begin(c, "sched", chain)
    /\ \/ /\ \A i \in ToSet(chain) : alloc[i] = "fresh"
          /\ alloc' = Owned(chain, "chain")
       \/ /\ "reschedule" \in Habits
          /\ Len(chain) = 1 /\ alloc[Head(chain)] = "list"
          /\ UNCHANGED alloc
    /\ UNCHANGED <<owner, status, flags, instr, instr_lock, id, result, started,
                   thread, history>>

\* The id the walk to the end of the list leaves behind, 0 for an empty list.
LastIdBug == Len(instr)
LastId == IF instr = <<>> THEN 0 ELSE id[Last(instr)]

Position(chain, i) == CHOOSE k \in DOMAIN chain : chain[k] = i

Numbered(chain) ==
    [i \in Instrs |-> IF i \in ToSet(chain)
                       THEN (LastId + Position(chain, i)) % IdMod ELSE id[i]]

AlreadyScheduled(chain) == id[Head(chain)] # UnsetId

AppendedBug(chain) == chain \o instr
AppendedLostBug(chain) == IF instr = <<>> THEN chain ELSE instr
Appended(chain) == instr \o chain

SchedAppend(c) ==
    /\ Return(c, "sched")
    /\ LockFree
    /\ ~AlreadyScheduled(arg[c])
    /\ instr' = Appended(arg[c])
    /\ id' = Numbered(arg[c])
    /\ alloc' = Owned(arg[c], "list")
    /\ UNCHANGED <<owner, status, flags, instr_lock, result, started,
                   thread, history>>

SchedReject(c) ==
    /\ Return(c, "sched")
    /\ LockFree
    /\ AlreadyScheduled(arg[c])
    /\ instr_lock' = "leaked"
    /\ UNCHANGED <<owner, status, flags, instr, id, alloc, result,
                   started, thread, history>>

(***************************************************************************)
(* libmk_cancel_instruction.  The client knows the id that sched returned  *)
(* for the instruction, which may have been executed since: arg is the     *)
(* instruction meant, and the search compares ids.                         *)
(***************************************************************************)
CancelCall(c, i) ==
    /\ Begin(c, "cancel", <<i>>)
    /\ alloc[i] \in {"list", "freed"}
    /\ UNCHANGED <<fields, result, started, thread, history>>

Matches(i) == {k \in DOMAIN instr : id[instr[k]] = id[i]}

\* The first match of the walk along next pointers.
FirstMatch(i) == CHOOSE k \in Matches(i) : \A m \in Matches(i) : k <= m

UnlinkedBug(k) == IF k = 1 THEN instr ELSE RemoveAt(instr, k)
Unlinked(k) == RemoveAt(instr, k)

CancelFound(c) ==
    LET i == Head(arg[c]) IN
    /\ Return(c, "cancel")
    /\ LockFree
    /\ Matches(i) # {}
    /\ instr' = Unlinked(FirstMatch(i))
    /\ alloc' = [alloc EXCEPT ![instr[FirstMatch(i)]] = "freed"]
    /\ UNCHANGED <<owner, status, flags, instr_lock, id, result, started,
                   thread, history>>

CancelMissed(c) ==
    /\ Return(c, "cancel")
    /\ LockFree
    /\ Matches(Head(arg[c])) = {}
    /\ UNCHANGED <<fields, result, started, thread, history>>

\* libmk_stop_controller
Stop(c) ==
    /\ CanCall(c)
    /\ exit_flag' = TRUE
    /\ UNCHANGED <<owner, status, wait_flag, list, clients, thread, history>>

\* libmk_wait_controller
Wait(c) ==
    /\ CanCall(c)
    /\ wait_flag' = TRUE
    /\ promised' = IF wait_flag THEN promised ELSE ToSet(instr)
    /\ UNCHANGED <<owner, status, exit_flag, list, clients, thread, done, failed>>

(***************************************************************************)
(* libmk_join_controller polls the state and touches nothing else: it is   *)
(* its last poll, and the timeout may pass after any that reads ACTIVE.    *)
(***************************************************************************)
JoinResult == IF state = "ACTIVE" THEN "JOIN_ERR" ELSE state

Join(c) ==
    /\ CanCall(c)
    /\ result' = [result EXCEPT ![c] = JoinResult]
    /\ UNCHANGED <<fields, pc, arg, started, thread, history>>

(***************************************************************************)
(* libmk_free_controller: the state is read and unlocked before the locks  *)
(* are destroyed.  A disciplined client frees a controller that was never  *)
(* started, or that a join has reported STOPPED, when no call is in it.    *)
(***************************************************************************)
MayFree(c) ==
    /\ \A d \in Clients : pc[d] = "idle"
    /\ \/ ~started
       \/ result[c] = "STOPPED"
       \/ "free_unjoined" \in Habits

FreeCheck(c) ==
    /\ Begin(c, "free", <<>>)
    /\ MayFree(c)
    /\ state # "ACTIVE"
    /\ UNCHANGED <<fields, result, started, thread, history>>

\* An active controller is not freed, whoever asks.
FreeRefused(c) ==
    /\ CanCall(c)
    /\ state = "ACTIVE"
    /\ result' = [result EXCEPT ![c] = LIBMK_ERR_STILL_ACTIVE]
    /\ UNCHANGED <<fields, pc, arg, started, thread, history>>

\* libmk_free_handle refuses an open handle, after the locks are destroyed.
FreeBody(c) ==
    /\ Return(c, "free")
    /\ \/ /\ handle = "open"
          /\ mem' = "locks_destroyed"
          /\ result' = [result EXCEPT ![c] = LIBMK_ERR_DEV_NOT_CLOSED]
       \/ /\ handle = "closed"
          /\ mem' = "freed"
          /\ result' = [result EXCEPT ![c] = "SUCCESS"]
    /\ UNCHANGED <<handle, status, flags, list, started, thread, history>>

-----------------------------------------------------------------------------
(***************************************************************************)
(* libmk_run_controller, the thread.                                       *)
(***************************************************************************)
RunBegin ==
    /\ tpc = "begin"
    /\ state' = "ACTIVE"
    /\ tpc' = "flags"
    /\ UNCHANGED <<owner, error, flags, list, clients, wait, history>>

LeavesBug == exit_flag \/ wait_flag
LeavesSwappedBug == wait_flag
Leaves == exit_flag

\* The top of the loop reads both flags in one critical section.
RunFlags ==
    /\ tpc = "flags"
    /\ wait' = wait_flag
    /\ tpc' = IF Leaves THEN "disable" ELSE "queue"
    /\ UNCHANGED <<fields, clients, history>>

DrainedBug == FALSE
Drained == wait

\* The list is empty: leave if waiting was requested, else sleep 1 ms.
RunIdle ==
    /\ tpc = "queue"
    /\ LockFree
    /\ instr = <<>>
    /\ tpc' = IF Drained THEN "disable" ELSE "flags"
    /\ UNCHANGED <<fields, clients, wait, history>>

RunTake ==
    /\ tpc = "queue"
    /\ LockFree
    /\ instr # <<>>
    /\ instr_lock' = "thread"
    /\ tpc' = "exec"
    /\ UNCHANGED <<owner, status, flags, instr, id, alloc, clients, wait,
                   history>>

\* libmk_set_controller_error: the first error is kept.
RecordedBug(e) == e
Recorded(e) == IF error = "SUCCESS" THEN e ELSE error

RunExec ==
    /\ tpc = "exec"
    /\ done' = Append(done, Head(instr))
    /\ tpc' = "sleep"
    /\ UNCHANGED <<fields, clients, wait, failed, promised>>

\* The failed instruction stays at the head of the list, and is not freed.
RunExecFails ==
    /\ tpc = "exec"
    /\ "exec" \in Faults
    /\ error' = Recorded("exec")
    /\ failed' = failed \cup {"exec"}
    /\ Unlock
    /\ tpc' = "disable"
    /\ UNCHANGED <<owner, state, flags, instr, id, alloc, clients, wait, done,
                   promised>>

\* After usleep(duration), with the lock still held.
RunNext ==
    /\ tpc = "sleep"
    /\ instr' = Tail(instr)
    /\ alloc' = [alloc EXCEPT ![Head(instr)] = "freed"]
    /\ Unlock
    /\ tpc' = "flags"
    /\ UNCHANGED <<owner, status, flags, id, clients, wait, history>>

DisabledBug == "open"
Disabled == "closed"

RunDisable ==
    /\ tpc = "disable"
    /\ handle' = Disabled
    /\ tpc' = "stop"
    /\ UNCHANGED <<mem, status, flags, list, clients, wait, history>>

\* The mode switch or the release of the interface fails: still open.
RunDisableFails ==
    /\ tpc = "disable"
    /\ "disable" \in Faults
    /\ error' = Recorded("disable")
    /\ failed' = failed \cup {"disable"}
    /\ tpc' = "stop"
    /\ UNCHANGED <<owner, state, flags, list, clients, wait, done, promised>>

\* The state is published before the keyboard is given back.
RunStopBug ==
    /\ tpc = "disable" /\ state = "ACTIVE"
    /\ state' = "STOPPED"
    /\ UNCHANGED <<owner, error, flags, list, clients, thread, history>>

RunStop ==
    /\ tpc = "stop"
    /\ state' = "STOPPED"
    /\ tpc' = "ended"
    /\ UNCHANGED <<owner, error, flags, list, clients, wait, history>>

-----------------------------------------------------------------------------
Thread ==
    \/ RunBegin \/ RunFlags \/ RunIdle \/ RunTake \/ RunExec \/ RunExecFails
    \/ RunNext \/ RunDisable \/ RunDisableFails \/ RunStop

\* The rest of a call that a client has begun.
Finish(c) ==
    \/ SchedAppend(c) \/ SchedReject(c)
    \/ CancelFound(c) \/ CancelMissed(c)
    \/ FreeBody(c)

Client(c) ==
    \/ Start(c) \/ StartFails(c)
    \/ \E chain \in Chains : SchedCall(c, chain)
    \/ \E i \in Instrs : CancelCall(c, i)
    \/ Stop(c) \/ Wait(c) \/ Join(c) \/ FreeCheck(c) \/ FreeRefused(c)
    \/ Finish(c)

Next == Thread \/ \E c \in Clients : Client(c)

Spec == Init /\ [][Next]_vars

(***************************************************************************)
(* The operating system runs every thread, an instruction and its sleep    *)
(* take finite time, and a client that has begun a call goes on with it.   *)
(* Nothing obliges a client to begin a call.                               *)
(***************************************************************************)
FairSpec ==
    /\ Spec
    /\ WF_vars(Thread)
    /\ \A c \in Clients : WF_vars(Finish(c))
=============================================================================
