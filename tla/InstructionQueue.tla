--------------------------- MODULE InstructionQueue ---------------------------
(***************************************************************************)
(* What a LibMK_Controller promises to the program that schedules          *)
(* instructions on it, without its thread, its locks or its ids: one queue *)
(* that is executed first in, first out while the controller is active,    *)
(* and from which any instruction may be withdrawn before it is executed.  *)
(* Controller.tla is shown to implement this module.                       *)
(***************************************************************************)
EXTENDS Naturals, Sequences, SequencesExt

CONSTANT Instrs         \* the LibMK_Instruction structs a program may create

VARIABLES
    pending,            \* the scheduled instructions, oldest first
    executed,           \* the instructions sent to the keyboard, in order
    phase               \* the controller's LibMK_Controller_State

queueVars == <<pending, executed, phase>>

\* Every instruction a controller has been given and that was not withdrawn.
Accepted == executed \o pending

QueueInit ==
    /\ pending = <<>>
    /\ executed = <<>>
    /\ phase = "PRESTART"

(***************************************************************************)
(* A whole linked list of new instructions is appended behind the pending  *)
(* ones; nothing that was accepted before is accepted a second time.       *)
(***************************************************************************)
Submit ==
    /\ IsStrictPrefix(pending, pending')
    /\ pending' \in Seq(Instrs)
    /\ IsInjective(executed \o pending')
    /\ UNCHANGED <<executed, phase>>

\* One pending instruction is cancelled; the others keep their order.
Withdraw ==
    /\ \E k \in 1..Len(pending) : pending' = RemoveAt(pending, k)
    /\ UNCHANGED <<executed, phase>>

\* The oldest pending instruction is sent to the keyboard, once.
Execute ==
    /\ phase = "ACTIVE"
    /\ pending # <<>>
    /\ executed' = Append(executed, Head(pending))
    /\ pending' = Tail(pending)
    /\ UNCHANGED phase

Advance ==
    /\ <<phase, phase'>> \in {<<"PRESTART", "ACTIVE">>, <<"ACTIVE", "STOPPED">>}
    /\ UNCHANGED <<pending, executed>>

QueueNext == Submit \/ Withdraw \/ Execute \/ Advance

QueueSpec == QueueInit /\ [][QueueNext]_queueVars
=============================================================================
