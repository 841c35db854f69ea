------------------------- MODULE ControllerProperties -------------------------
(***************************************************************************)
(* What the controller of Controller.tla promises.                         *)
(***************************************************************************)
EXTENDS Controller

(***************************************************************************)
(* Types: every field of the controller, every instruction and every       *)
(* thread of libmkc.c is in one of its states.                             *)
(***************************************************************************)
TypeOK ==
    /\ mem \in {"live", "locks_destroyed", "freed"}
    /\ state \in {"PRESTART", "ACTIVE", "STOPPED"}
    /\ exit_flag \in BOOLEAN /\ wait_flag \in BOOLEAN
    /\ error \in {"SUCCESS", "garbage", "exec", "disable"}
    /\ instr \in Seq(Instrs)
    /\ instr_lock \in {"free", "thread", "leaked"}
    /\ handle \in {"open", "closed"}
    /\ id \in [Instrs -> 0..(IdMod - 1)]
    /\ alloc \in [Instrs -> {"fresh", "chain", "list", "freed"}]
    /\ pc \in [Clients -> {"idle", "sched", "cancel", "free"}]
    /\ arg \in [Clients -> Seq(Instrs)]
    /\ result \in [Clients -> {"none", "PRESTART", "STOPPED", "JOIN_ERR",
                               "SUCCESS", LIBMK_ERR_STILL_ACTIVE}]
    /\ started \in BOOLEAN /\ wait \in BOOLEAN
    /\ tpc \in {"none", "begin", "flags", "queue", "exec", "sleep", "disable",
                "stop", "ended"}
    /\ done \in Seq(Instrs)
    /\ failed \subseteq {"enable", "exec", "disable"}
    /\ promised \subseteq Instrs

-----------------------------------------------------------------------------
(***************************************************************************)
(* The linked list holds exactly the scheduled instructions whose memory   *)
(* is still allocated, each once: neither the thread's free after          *)
(* execution nor a cancel leaves a dangling next pointer, and none leaks.  *)
(***************************************************************************)
ListOwnsMemory ==
    /\ IsInjective(instr)
    /\ ToSet(instr) = {i \in Instrs : alloc[i] = "list"}

(***************************************************************************)
(* The ids of the pending instructions increase along the list, whatever   *)
(* was cancelled between: a cancel by id can match one instruction only.   *)
(***************************************************************************)
IdsIncrease ==
    \A j, k \in DOMAIN instr : j < k => id[instr[j]] < id[instr[k]]

(***************************************************************************)
(* While the thread executes an instruction, or sleeps for its duration    *)
(* with instr_lock held, the head of the list stays where it is: no client *)
(* frees or moves the instruction the thread is about to read again.       *)
(***************************************************************************)
Busy == tpc \in {"exec", "sleep"}

HeadKept ==
    Busy /\ Busy' =>
        (instr' # <<>> /\ Head(instr') = Head(instr) /\ alloc'[Head(instr)] = "list")

HeadIsStable == [][HeadKept]_vars

(***************************************************************************)
(* A controller is freed, or its locks destroyed, only when no thread is   *)
(* left that will touch it and no client is inside a call on it.           *)
(***************************************************************************)
NoUseAfterFree ==
    mem # "live" => ~Running /\ \A c \in Clients : pc[c] = "idle"

(***************************************************************************)
(* libmk_free_controller destroys the locks of a controller and then does  *)
(* not free it only when its thread never ran, or could not return the     *)
(* keyboard to its firmware.                                               *)
(***************************************************************************)
HalfFreed ==
    mem = "locks_destroyed" => tpc = "none" \/ "disable" \in failed

(***************************************************************************)
(* After libmk_wait_controller every instruction that was pending at the   *)
(* first call is executed or cancelled before the controller is STOPPED,   *)
(* unless a stop was requested or an instruction failed.                   *)
(***************************************************************************)
WaitKeepsPending ==
    state = "STOPPED" /\ ~exit_flag /\ "exec" \notin failed =>
        \A i \in promised : alloc[i] = "freed"

(***************************************************************************)
(* What libmk_get_controller_error means, of a controller whose memory     *)
(* happened to hold LIBMK_SUCCESS (libmk_create_controller does not set    *)
(* error, and what was there hides every failure: FailureIsReported).      *)
(* Success on a STOPPED controller: every instruction taken was executed,  *)
(* and the keyboard was given back.  The result of disable_control: the    *)
(* same, but the keyboard was kept.  The result of an instruction: one     *)
(* failed, and a failing disable_control after it did not hide that.       *)
(***************************************************************************)
ErrorTells ==
    /\ error = "SUCCESS" =>
        "exec" \notin failed /\ (state = "STOPPED" => handle = "closed")
    /\ error = "disable" =>
        "exec" \notin failed /\ "disable" \in failed /\ handle = "open"
    /\ error = "exec" => "exec" \in failed

(***************************************************************************)
(* The controller implements the abstract queue: instructions are executed *)
(* in the order of scheduling, each at most once, only while the           *)
(* controller is active, and never after they were cancelled.  The one the *)
(* thread sleeps on has been executed although the list still holds it.    *)
(***************************************************************************)
Pending == IF tpc = "sleep" THEN Tail(instr) ELSE instr

Queue == INSTANCE InstructionQueue WITH
    pending <- Pending,
    executed <- done,
    phase <- state

QueueSpec == Queue!QueueSpec

-----------------------------------------------------------------------------
(***************************************************************************)
(* Liveness, under FairSpec and with no leaked lock.                       *)
(***************************************************************************)
\* A stop request ends a controller thread, wherever it is in its loop.
StopEnds == Running /\ exit_flag ~> tpc = "ended"

\* A wait request ends a controller thread, once the list has run empty.
WaitEnds == Running /\ wait_flag ~> tpc = "ended"

\* What is scheduled on a running controller is executed or cancelled, or
\* the controller stops.
ScheduledLeaves ==
    \A i \in Instrs :
        Running /\ alloc[i] = "list" ~> alloc[i] = "freed" \/ tpc = "ended"

\* Every call of a client returns: instr_lock does become free.
CallsReturn == \A c \in Clients : pc[c] # "idle" ~> pc[c] = "idle"

-----------------------------------------------------------------------------
(***************************************************************************)
(* What the header libmkc.h says and the code does not do.                 *)
(***************************************************************************)
\* "To assure that the controller has stopped, use libmk_join_controller":
\* after a join that did not time out, the thread is not running.
JoinAssuresStopped ==
    \A c \in Clients : result[c] \in {"PRESTART", "STOPPED"} => ~Running

\* "Only after the linked list has become empty does the Controller exit",
\* of a controller that no stop and no failure ended.
WaitDrains ==
    [][state' = "STOPPED" /\ state # "STOPPED" /\ ~exit_flag /\ failed = {}
         => instr = <<>>]_vars

\* "If the instruction has already been executed, the instruction is not
\* cancelled and the function fails quietly."
CancelExecutedIsQuiet ==
    [][\A c \in Clients :
         pc[c] = "cancel" /\ pc'[c] = "idle" /\ arg[c][1] \in ToSet(done) =>
           UNCHANGED instr]_vars

\* "LibMK_Result error; ///< Set for LIBMK_STATE_ERROR": after a failed
\* instruction, error is the result of that instruction.
FailureIsReported == "exec" \in failed => error = "exec"

\* "Returns LIBMK_ERR_STILL_ACTIVE if the controller is still active": that
\* answer leaves a controller behind on which free can be called again.
StillActiveIsIntact ==
    \A c \in Clients : result[c] = LIBMK_ERR_STILL_ACTIVE => mem = "live"

\* sched returns "a LibMK_Result (negative integer) upon failure": a rejected
\* instruction is reported, and the controller can still be stopped.
RejectIsHarmless == Running /\ exit_flag ~> tpc = "ended"

\* "This function enables control of the keyboard and initializes the
\* thread": when start returns LIBMK_SUCCESS there is a thread.
StartedHasThread == started => tpc # "none"
=============================================================================
