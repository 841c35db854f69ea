------------------------------- MODULE Ambilight -------------------------------
(***************************************************************************)
(* examples/ambilight/ambilight.c: one thread puts the dominant color of   *)
(* the screen in target_color, one fades the keyboard to it, and main      *)
(* joins them.  Control-C sets a flag in a signal handler, which locks     *)
(* exit_req_lock in whatever thread it interrupts, so that lock is taken   *)
(* and released in steps of its own.                                       *)
(*                                                                         *)
(* An operator whose name ends in Bug is a plausible slip in the operator  *)
(* after it.                                                               *)
(***************************************************************************)
EXTENDS DominantColor

CONSTANTS
    Colors,         \* the dominant colors of the screenshots that may be taken
    Rate,           \* divides the way to the target, 20.0
    MaxSignals,     \* bound on the times Control-C is pressed
    AnyThread,      \* may a signal interrupt any thread, or main before others
    Faults          \* detect: no list of devices; control: no keyboard, or none
                    \* that can be controlled; transfer; disable; stack: tv_sec
                    \* is garbage that is large

Threads == {"main", "screenshot", "keyboard"}
Loops == Threads \ {"main"}

ASSUME AmbilightAssumption ==
    /\ Colors \subseteq ColorSpace /\ Rate \in Nat \ {0}
    /\ MaxSignals \in Nat /\ AnyThread \in BOOLEAN
    /\ Faults \subseteq {"detect", "control", "transfer", "disable", "stack"}

VARIABLES
    pc,                 \* where every thread is
    handler,            \* where in interrupt_handler every thread is
    signals,            \* signals delivered
    exit_requested, exit_req_lock,
    target_color, target_color_lock,
    average, written,   \* calculate_keyboard_color: its color, the byte it writes
    color, long,        \* update_keyboard_color: its color, is its sleep endless
    control,            \* does the program control a keyboard
    shown,              \* the color that the keyboard was sent last, none at first
    failed              \* has a call on the keyboard failed

flags == <<exit_requested, exit_req_lock>>
target == <<target_color, target_color_lock>>
capture == <<average, written>>
update == <<color, long>>
keyboard == <<control, shown, failed>>
vars == <<pc, handler, signals, flags, target, capture, update, keyboard>>

Places == {"init", "none", "check", "look", "capture", "target", "write", "fade", "send",
           "sleep", "join screenshot", "join keyboard", "close", "ended"}

TypeOK ==
    /\ pc \in [Threads -> Places]
    /\ handler \in [Threads -> {"none", "lock", "unlock"}] /\ signals \in 0..MaxSignals
    /\ exit_requested \in BOOLEAN /\ exit_req_lock \in Threads \cup {"free"}
    /\ target_color \in ColorSpace /\ target_color_lock \in {"free", "screenshot"}
    /\ average \in ColorSpace /\ written \in Bytes /\ color \in ColorSpace /\ long \in BOOLEAN
    /\ control \in BOOLEAN /\ shown \in SUBSET ColorSpace /\ failed \in BOOLEAN

Init ==
    /\ pc = [t \in Threads |-> IF t = "main" THEN "init" ELSE "none"]
    /\ handler = [t \in Threads |-> "none"] /\ signals = 0
    /\ exit_requested = FALSE /\ exit_req_lock = "free"
    /\ target_color = Black /\ target_color_lock = "free"
    /\ average = Black /\ written = 1 /\ color = Black /\ long = FALSE
    /\ control = FALSE /\ shown = {} /\ failed = FALSE

Alive == pc["main"] # "ended"
Lives(t) == pc[t] \notin {"none", "ended"}

\* A thread goes on where it was when its handler has returned.
At(t, place) == Alive /\ pc[t] = place /\ handler[t] = "none"
Goes(t, place) == pc' = [pc EXCEPT ![t] = place]

-----------------------------------------------------------------------------
(* main *)

\* Only a negative number of devices ends it, and what set_device and
\* enable_control return is not looked at.
Setup ==
    /\ At("main", "init")
    /\ \/ /\ control' \in {TRUE} \cup (IF "control" \in Faults THEN {FALSE} ELSE {})
          /\ pc' = [t \in Threads |-> IF t = "main" THEN "join screenshot" ELSE "check"]
       \/ /\ "detect" \in Faults
          /\ Goes("main", "ended") /\ control' = control
    /\ UNCHANGED <<handler, signals, flags, target, capture, update, shown, failed>>

JoinOf(t) == IF t = "screenshot" THEN "join screenshot" ELSE "join keyboard"
AfterJoinBug(t) == "close"
AfterJoin(t) == IF t = "screenshot" THEN "join keyboard" ELSE "close"

Join ==
    /\ \E t \in Loops :
        At("main", JoinOf(t)) /\ pc[t] = "ended" /\ Goes("main", AfterJoin(t))
    /\ UNCHANGED <<handler, signals, flags, target, capture, update, keyboard>>

Close ==
    /\ At("main", "close") /\ Goes("main", "ended")
    /\ \/ control' = FALSE
       \/ "disable" \in Faults /\ control' = control
    /\ UNCHANGED <<handler, signals, flags, target, capture, update, shown, failed>>

Main == Setup \/ Join \/ Close

-----------------------------------------------------------------------------
(* interrupt_handler *)

\* SIGINT is blocked in a thread that handles one.  Linux gives a signal of
\* the process to its main thread, and to another one while that blocks it.
MayInterrupt(t) ==
    Lives(t) /\ handler[t] = "none" /\ (AnyThread \/ t = "main" \/ handler["main"] # "none")

\* A signal ends the nanosleep that it interrupts.
Interrupt(t) ==
    /\ Alive /\ signals < MaxSignals /\ MayInterrupt(t)
    /\ signals' = signals + 1 /\ handler' = [handler EXCEPT ![t] = "lock"]
    /\ pc' = IF pc[t] = "sleep" THEN [pc EXCEPT ![t] = "check"] ELSE pc
    /\ UNCHANGED <<flags, target, capture, update, keyboard>>

HandlerLocks(t) ==
    /\ Alive /\ handler[t] = "lock" /\ exit_req_lock = "free"
    /\ exit_req_lock' = t /\ handler' = [handler EXCEPT ![t] = "unlock"]
    /\ UNCHANGED <<pc, signals, exit_requested, target, capture, update, keyboard>>

HandlerUnlockedBug == exit_req_lock
HandlerUnlocked == "free"

HandlerUnlocks(t) ==
    /\ Alive /\ handler[t] = "unlock"
    /\ exit_requested' = TRUE /\ exit_req_lock' = HandlerUnlocked
    /\ handler' = [handler EXCEPT ![t] = "none"]
    /\ UNCHANGED <<pc, signals, target, capture, update, keyboard>>

-----------------------------------------------------------------------------
(* The top of both loops *)

Checks(t) ==
    /\ At(t, "check") /\ exit_req_lock = "free"
    /\ exit_req_lock' = t /\ Goes(t, "look")
    /\ UNCHANGED <<handler, signals, exit_requested, target, capture, update, keyboard>>

Looks(t) ==
    /\ At(t, "look") /\ exit_req_lock' = "free"
    /\ Goes(t, IF exit_requested THEN "ended" ELSE IF t = "screenshot" THEN "capture" ELSE "fade")
    /\ UNCHANGED <<handler, signals, exit_requested, target, capture, update, keyboard>>

-----------------------------------------------------------------------------
(* calculate_keyboard_color *)

Captures ==
    /\ At("screenshot", "capture") /\ Goes("screenshot", "target")
    /\ average' \in Colors
    /\ UNCHANGED <<handler, signals, flags, target, written, update, keyboard>>

TargetFreeBug == TRUE
TargetFree == target_color_lock = "free"

LocksTarget ==
    /\ At("screenshot", "target") /\ TargetFree
    /\ target_color_lock' = "screenshot" /\ written' = 1 /\ Goes("screenshot", "write")
    /\ UNCHANGED <<handler, signals, flags, target_color, average, update, keyboard>>

\* With the last byte the lock is released.
Writes ==
    /\ At("screenshot", "write")
    /\ target_color' = [target_color EXCEPT ![written] = average[written]]
    /\ IF written < 3
       THEN written' = written + 1 /\ UNCHANGED <<pc, target_color_lock>>
       ELSE Goes("screenshot", "check") /\ target_color_lock' = "free" /\ UNCHANGED written
    /\ UNCHANGED <<handler, signals, flags, average, update, keyboard>>

-----------------------------------------------------------------------------
(* update_keyboard_color *)

\* color += (unsigned char) (diff / 20.0).  For a negative difference C leaves
\* that undefined; the compilers of x86 take the low byte.
Fraction(diff) == IF diff < 0 THEN -((-diff) \div Rate) ELSE diff \div Rate
Faded(from, to) == (from + (Fraction(to - from) % (MaxByte + 1))) % (MaxByte + 1)
NewColor == [b \in Bytes |-> Faded(color[b], target_color[b])]

\* equal, over prev, which is the color before this step.
EqualBug == \E b \in Bytes : color[b] = target_color[b]
Equal == color = target_color

\* The section of target_color_lock is one step; no other lock is taken in it.
Fades ==
    /\ At("keyboard", "fade") /\ TargetFree
    /\ color' = NewColor /\ Goes("keyboard", IF Equal THEN "check" ELSE "send")
    /\ UNCHANGED <<handler, signals, flags, target, capture, long, keyboard>>

\* A failure is printed.  keyboard_lock is taken by this thread alone.
Sends ==
    /\ At("keyboard", "send") /\ Goes("keyboard", "sleep")
    /\ \/ control /\ shown' = {color} /\ failed' = failed
       \/ (~control \/ "transfer" \in Faults) /\ shown' = shown /\ failed' = TRUE
    /\ long' \in {FALSE} \cup (IF "stack" \in Faults THEN {TRUE} ELSE {})
    /\ UNCHANGED <<handler, signals, flags, target, capture, color, control>>

\* tv_sec was never set, so a sleep may be as good as endless.
Wakes ==
    /\ At("keyboard", "sleep") /\ ~long /\ Goes("keyboard", "check")
    /\ UNCHANGED <<handler, signals, flags, target, capture, update, keyboard>>

-----------------------------------------------------------------------------
Loop(t) ==
    \/ Checks(t) \/ Looks(t)
    \/ t = "screenshot" /\ (Captures \/ LocksTarget \/ Writes)
    \/ t = "keyboard" /\ (Fades \/ Sends \/ Wakes)

Next ==
    \/ Main \/ \E t \in Loops : Loop(t)
    \/ \E t \in Threads : Interrupt(t) \/ HandlerLocks(t) \/ HandlerUnlocks(t)

Spec == Init /\ [][Next]_vars

\* The keyboard thread is busy with something other than its locks: a packet,
\* if there is a keyboard, or a sleep, unless tv_sec is garbage, which nanosleep
\* may refuse at once.
Rests ==
    \/ pc["keyboard"] = "send" /\ control
    \/ pc["keyboard"] = "sleep" /\ "stack" \notin Faults

\* It looks at exit_requested again and again and never rests between, as it
\* does while its color is equal to the target (lines 205-206).
Spins ==
    /\ <>[]~Rests
    /\ []<>(pc["keyboard"] = "look") /\ []<>(pc["keyboard"] = "fade")

(***************************************************************************)
(* The operating system runs every thread.  A mutex has no queue, so the   *)
(* handler gets exit_req_lock, which is free again and again, only if the  *)
(* loops rest between two looks at the flag: the screenshot thread always  *)
(* takes a screenshot there, the keyboard thread rests unless it spins.    *)
(***************************************************************************)
FairSpec ==
    /\ Spec /\ WF_vars(Main) /\ \A t \in Loops : WF_vars(Loop(t))
    /\ \A t \in Threads : WF_vars(HandlerLocks(t)) /\ WF_vars(HandlerUnlocks(t))
    /\ Spins \/ \A t \in Threads : SF_vars(HandlerLocks(t))

-----------------------------------------------------------------------------
(* Properties *)

\* The keyboard is given back only when the threads that use it and the
\* screen have ended: no color is sent to it afterwards (lines 246-253).
KeyboardIsQuiet == pc["main"] = "close" => \A t \in Loops : pc[t] = "ended"

\* The fade only ever steps towards a color that a screenshot had, or black,
\* and never towards bytes of two of them (lines 170-174 and 196-203).
TargetIsWhole == [][color' # color => target_color \in Colors \cup {Black}]_vars

\* Unless a call failed, the keyboard shows the color that the fade is at,
\* from the first one on: no step of it is left out (lines 205-212).
KeyboardFollows ==
    pc["keyboard"] # "send" /\ ~failed => shown \subseteq {color}

\* The colors that calculate_keyboard_color stores come from these screens.
ColorsAreSeen(screens) == \A c \in Colors : \E screen \in screens : c \in Dominant(screen)

\* Every color of a screenshot has a byte of full brightness, but for the last
\* bit that the product of doubles may lose, also where the pixels that count
\* average to a dark one (lines 152-168).
DominantIsBright ==
    pc["screenshot"] \in {"target", "write"} => Brightest(average) >= MaxByte - 1

\* Control-C ends the program from every point of its threads, however often
\* it is pressed and whoever holds which lock, unless the handler waits for
\* a lock of the thread it interrupted, the keyboard thread sleeps on, or it
\* spins on the lock (lines 40-45, 95-101, 187-192, 205-206, 214-216).
LockedOut(t) == handler[t] = "lock" /\ exit_req_lock = t
Oversleeps == pc["keyboard"] = "sleep" /\ long
InterruptEnds ==
    <>(signals > 0) =>
        <>~Alive \/ <>[](Oversleeps \/ \E t \in Threads : LockedOut(t)) \/ Spins

-----------------------------------------------------------------------------
(* What the comments say, and the code does not do. *)

\* "Handle a Control-C command to exit the loop" (line 41): Control-C ends the
\* program, even if the keyboard thread does not spin on the handler's lock.
ControlCEnds == (signals > 0 ~> ~Alive) \/ Spins
=============================================================================
