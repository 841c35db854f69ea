----------------------------- MODULE Notifications -----------------------------
(***************************************************************************)
(* The notification keyboard, examples/notifications: one thread fades the *)
(* keyboard to the color in target_color, one puts the dominant color of   *)
(* the screen there, and each notification starts a thread that flashes    *)
(* another.  Python's thread starts, stops and ends them.                  *)
(*                                                                         *)
(* exit_lock guards single reads and writes, which are atomic here; the    *)
(* colors are written and copied byte by byte.  An operator whose name     *)
(* ends in Bug is a plausible slip in the operator after it.               *)
(***************************************************************************)
EXTENDS Integers, Sequences, FiniteSets

CONSTANTS
    Flashers,   \* the threads of flash_keyboard
    Channels,   \* the bytes of a color are 1..Channels
    MaxByte,    \* the largest byte
    Colors,     \* of the screen and of notifications
    Garbage,    \* what the stack of keyboard_updater may hold when it starts
    Speed,      \* divides the way to the target, speed
    Levels,     \* steps of a flash from dark to light
    Repeat,     \* flash_repeat
    Faults      \* create: a thread cannot be created; transfer: the keyboard fails

Bytes == 1..Channels
ColorSpace == [Bytes -> 0..MaxByte]
Black == [b \in Bytes |-> 0]

ASSUME NotificationsAssumption ==
    /\ Channels \in Nat \ {0} /\ MaxByte \in Nat \ {0} /\ Speed \in Nat \ {0}
    /\ Levels \in Nat \ {0} /\ Repeat \in Nat \ {0}
    /\ Colors \subseteq ColorSpace /\ Garbage \subseteq ColorSpace /\ Faults \subseteq {"create", "transfer"}
    /\ {"updater", "capturer", "free"} \cap Flashers = {}

VARIABLES
    \* Python's thread, the joins it has still to do, those it did.
    main, joins, joined,
    \* The globals of the module.
    exit_requested, target_color, target_override, target_lock, keyboard_lock,
    \* keyboard_updater: where it is, the byte to copy, its locals.
    updater, copied, target, previous,
    \* capturer: where it is, the byte to write, the color of the screen.
    capturer, written, screen,
    \* Every flasher: where it is, its color, flashes and turns done, byte to write.
    flasher

python == <<main, joins, joined, exit_requested>>
color == <<target_color, target_override>>
locks == <<target_lock, keyboard_lock>>
update == <<updater, copied, target, previous>>
capture == <<capturer, written, screen>>
vars == <<python, color, locks, update, capture, flasher>>

\* What every flash is made of: Levels + 1 turns up, and as many down.
Turns == 2 * (Levels + 1)
NoFlash == [pc |-> "none", color |-> Black, flashes |-> 0, turn |-> 0, byte |-> 1]
FlasherStates ==
    [pc : {"none", "keyboard", "mark", "loop", "write", "clear", "ended"}, color : ColorSpace,
     flashes : 0..Repeat, turn : 0..Turns, byte : Bytes]

TypeOK ==
    /\ main \in {"init", "up", "stop", "stopped", "exit", "exited", "crashed"}
    /\ joins \in Seq({"updater", "capturer"}) /\ joined \subseteq {"updater", "capturer"}
    /\ exit_requested \in BOOLEAN /\ target_override \in BOOLEAN
    /\ target_color \in ColorSpace /\ target \in ColorSpace
    /\ previous \in ColorSpace /\ screen \in ColorSpace
    /\ target_lock \in {"free", "updater", "capturer"}
    /\ keyboard_lock \in {"free", "capturer"} \cup Flashers
    /\ updater \in {"none", "check", "lock", "copy", "send", "ended"} /\ copied \in Bytes
    /\ capturer \in {"none", "check", "keyboard", "target", "write", "ended"} /\ written \in Bytes
    /\ flasher \in [Flashers -> FlasherStates]

\* After init, whose failures end the program.  previous is not initialised.
Init ==
    /\ main = "init" /\ joins = <<>> /\ joined = {}
    /\ exit_requested = FALSE /\ target_color = Black /\ target_override = FALSE
    /\ target_lock = "free" /\ keyboard_lock = "free"
    /\ updater = "none" /\ copied = 1 /\ target = Black /\ previous \in Garbage
    /\ capturer = "none" /\ written = 1 /\ screen = Black
    /\ flasher = [f \in Flashers |-> NoFlash]

\* The threads of a process end with it.
Alive == main \notin {"exited", "crashed"}

-----------------------------------------------------------------------------
(* Python's thread *)

\* What pthread_create returned is not looked at.
Created(thread) == thread' = "check" \/ ("create" \in Faults /\ thread' = "none")

Start ==
    /\ main = "init" /\ main' = "up"
    /\ Created(updater) /\ Created(capturer)
    /\ UNCHANGED <<joins, joined, exit_requested, color, locks, copied, target, previous,
                   written, screen, flasher>>

FlashKeyboard(f, c) ==
    /\ main = "up" /\ flasher[f].pc = "none"
    /\ flasher' = [flasher EXCEPT ![f].pc = "keyboard", ![f].color = c]
    /\ UNCHANGED <<python, color, locks, update, capture>>

JoinsBug == <<"capturer">>
Joins == <<"updater", "capturer">>

\* stop, and mkn_exit, which Python calls at its end whatever was called before.
Stop ==
    /\ main = "up" /\ main' = "stop"
    /\ exit_requested' = TRUE /\ joins' = Joins
    /\ UNCHANGED <<joined, color, locks, update, capture, flasher>>

AtExit ==
    /\ main \in {"init", "up", "stopped"} /\ main' = "exit"
    /\ exit_requested' = TRUE /\ joins' = Joins
    /\ UNCHANGED <<joined, color, locks, update, capture, flasher>>

State(thread) == IF thread = "updater" THEN updater ELSE capturer

Join ==
    /\ main \in {"stop", "exit"} /\ joins # <<>>
    /\ Head(joins) \notin joined /\ State(Head(joins)) = "ended"
    /\ joined' = joined \cup {Head(joins)} /\ joins' = Tail(joins)
    /\ UNCHANGED <<main, exit_requested, color, locks, update, capture, flasher>>

\* pthread_join of a thread that was joined, or never created, is undefined:
\* it returns an error, or crashes.
JoinUndefined ==
    /\ main \in {"stop", "exit"} /\ joins # <<>>
    /\ Head(joins) \in joined \/ State(Head(joins)) = "none"
    /\ joins' = Tail(joins) /\ main' \in {main, "crashed"}
    /\ UNCHANGED <<joined, exit_requested, color, locks, update, capture, flasher>>

\* stop returns; mkn_exit disables control, and ends libmk and the process.
Return ==
    /\ main \in {"stop", "exit"} /\ joins = <<>>
    /\ main' = IF main = "stop" THEN "stopped" ELSE "exited"
    /\ UNCHANGED <<joins, joined, exit_requested, color, locks, update, capture, flasher>>

-----------------------------------------------------------------------------
(* keyboard_updater *)

UpdaterChecks ==
    /\ Alive /\ updater = "check"
    /\ updater' = IF exit_requested THEN "ended" ELSE "lock"
    /\ UNCHANGED <<python, color, locks, copied, target, previous, capture, flasher>>

TargetFreeBug == TRUE
TargetFree == target_lock = "free"

UpdaterLocks ==
    /\ Alive /\ updater = "lock" /\ TargetFree
    /\ target_lock' = "updater" /\ updater' = "copy" /\ copied' = 1
    /\ UNCHANGED <<python, color, keyboard_lock, target, previous, capture, flasher>>

\* With the last byte the lock is released, whoever holds it by then.
UpdaterCopies ==
    /\ Alive /\ updater = "copy"
    /\ target' = [target EXCEPT ![copied] = target_color[copied]]
    /\ IF copied < Channels
       THEN copied' = copied + 1 /\ UNCHANGED <<updater, target_lock>>
       ELSE updater' = "send" /\ target_lock' = "free" /\ UNCHANGED copied
    /\ UNCHANGED <<python, color, keyboard_lock, previous, capture, flasher>>

\* The keyboard has this color already; the sleep is left out by continue.
UpdaterSkips ==
    /\ Alive /\ updater = "send" /\ target = previous /\ updater' = "check"
    /\ UNCHANGED <<python, color, locks, copied, target, previous, capture, flasher>>

\* diff / speed, rounded towards zero, as an unsigned char.  For a negative
\* one C leaves that undefined; the compilers of x86 take the low byte.
Fraction(diff) == IF diff < 0 THEN -((-diff) \div Speed) ELSE diff \div Speed
FadedUpBug(from, to) == (from + Fraction(IF to < from THEN from - to ELSE to - from)) % (MaxByte + 1)
Faded(from, to) == (from + (Fraction(to - from) % (MaxByte + 1))) % (MaxByte + 1)

\* The flag is read anew here, without the lock.
UpdaterSends ==
    /\ Alive /\ updater = "send" /\ target # previous
    /\ previous' = IF target_override THEN previous
                   ELSE [b \in Bytes |-> Faded(previous[b], target[b])]
    /\ target' = IF target_override THEN target ELSE previous'
    /\ updater' \in {"check"} \cup (IF "transfer" \in Faults THEN {"ended"} ELSE {})
    /\ UNCHANGED <<python, color, locks, copied, capture, flasher>>

Updater == UpdaterChecks \/ UpdaterLocks \/ UpdaterCopies \/ UpdaterSkips \/ UpdaterSends

-----------------------------------------------------------------------------
(* capturer *)

\* The dominant color of a screenshot may be any.
CapturerChecks ==
    /\ Alive /\ capturer = "check"
    /\ IF exit_requested THEN capturer' = "ended" /\ UNCHANGED screen
       ELSE capturer' = "keyboard" /\ screen' \in Colors
    /\ UNCHANGED <<python, color, locks, update, written, flasher>>

KeyboardFreeBug == TRUE
KeyboardFree == keyboard_lock = "free"

CapturerLocksKeyboard ==
    /\ Alive /\ capturer = "keyboard" /\ KeyboardFree
    /\ keyboard_lock' = "capturer" /\ capturer' = "target"
    /\ UNCHANGED <<python, color, target_lock, update, written, screen, flasher>>

CapturerLocksTarget ==
    /\ Alive /\ capturer = "target" /\ TargetFree
    /\ target_lock' = "capturer" /\ capturer' = "write" /\ written' = 1
    /\ UNCHANGED <<python, color, keyboard_lock, update, screen, flasher>>

\* With the last byte both locks are released.
CapturerWrites ==
    /\ Alive /\ capturer = "write"
    /\ target_color' = [target_color EXCEPT ![written] = screen[written]]
    /\ IF written < Channels
       THEN written' = written + 1 /\ UNCHANGED <<capturer, locks>>
       ELSE /\ capturer' = "check" /\ UNCHANGED written
            /\ target_lock' = "free" /\ keyboard_lock' = "free"
    /\ UNCHANGED <<python, target_override, update, screen, flasher>>

Capturer == CapturerChecks \/ CapturerLocksKeyboard \/ CapturerLocksTarget \/ CapturerWrites

-----------------------------------------------------------------------------
(* _flash_keyboard and __flash_keyboard *)

At(f, pc) == Alive /\ flasher[f].pc = pc
Goes(f, pc) == flasher' = [flasher EXCEPT ![f].pc = pc]

FlasherLocksKeyboard(f) ==
    /\ At(f, "keyboard") /\ KeyboardFree
    /\ keyboard_lock' = f /\ Goes(f, "mark")
    /\ UNCHANGED <<python, color, target_lock, update, capture>>

\* The flag is set under the lock.
FlasherMarks(f) ==
    /\ At(f, "mark") /\ TargetFree
    /\ target_override' = TRUE
    /\ flasher' = [flasher EXCEPT ![f].pc = "loop", ![f].turn = 0]
    /\ UNCHANGED <<python, target_color, locks, update, capture>>

\* Before and after each turn target_lock is unlocked, where before the turn
\* it should be locked: whoever holds it does so no longer.
FlasherUnlocks(f) ==
    /\ At(f, "loop")
    /\ target_lock' = "free"
    /\ flasher' = [flasher EXCEPT ![f].pc = IF flasher[f].turn < Turns THEN "write" ELSE "clear",
                                  ![f].byte = 1]
    /\ UNCHANGED <<python, color, keyboard_lock, update, capture>>

\* The level of a turn: 0 to Levels, and back.
Level(turn) == IF turn <= Levels THEN turn ELSE Turns - 1 - turn

FlasherWrites(f) ==
    LET me == flasher[f] IN
    /\ At(f, "write")
    /\ target_color' =
        [target_color EXCEPT ![me.byte] = (me.color[me.byte] * Level(me.turn)) \div Levels]
    /\ flasher' = [flasher EXCEPT ![f] =
        IF me.byte < Channels THEN [me EXCEPT !.byte = me.byte + 1]
        ELSE [me EXCEPT !.pc = "loop", !.turn = me.turn + 1]]
    /\ UNCHANGED <<python, target_override, locks, update, capture>>

ClearedBug == TRUE
Cleared == FALSE

UnlockedBug == keyboard_lock
Unlocked == "free"

\* The flag is reset under the lock; after the last flash of this thread it
\* releases the keyboard and ends.
FlasherClears(f) ==
    LET me == flasher[f] IN
    /\ At(f, "clear") /\ TargetFree
    /\ target_override' = Cleared
    /\ flasher' = [flasher EXCEPT ![f] =
        [me EXCEPT !.flashes = me.flashes + 1,
                   !.pc = IF me.flashes + 1 < Repeat THEN "mark" ELSE "ended"]]
    /\ keyboard_lock' = IF me.flashes + 1 < Repeat THEN keyboard_lock ELSE Unlocked
    /\ UNCHANGED <<python, target_color, target_lock, update, capture>>

Flasher(f) ==
    \/ FlasherLocksKeyboard(f) \/ FlasherMarks(f) \/ FlasherUnlocks(f)
    \/ FlasherWrites(f) \/ FlasherClears(f)

-----------------------------------------------------------------------------
Ends == Join \/ JoinUndefined \/ Return

Next ==
    \/ Start \/ Stop \/ AtExit \/ Ends
    \/ \E f \in Flashers, c \in Colors : FlashKeyboard(f, c)
    \/ Updater \/ Capturer
    \/ \E f \in Flashers : Flasher(f)

Spec == Init /\ [][Next]_vars

\* The operating system runs every thread, and a sleep or a screenshot ends.
\* A thread that waits for a lock which others take again and again may wait
\* for ever: the mutexes promise no order.
FairSpec ==
    /\ Spec
    /\ WF_vars(Ends) /\ WF_vars(Updater) /\ WF_vars(Capturer)
    /\ \A f \in Flashers : WF_vars(Flasher(f))

-----------------------------------------------------------------------------
(* Properties *)

\* libmk is ended only when the thread that uses it has ended: no color is
\* sent through a closed handle (mkn_exit 41-49).
KeyboardIsQuiet == main = "exited" => updater \in {"none", "ended"}

\* Nobody else writes target_color while a flash goes on, and no two flashes
\* mix: keyboard_lock keeps them apart although target_lock does not
\* (lines 187-194 of capture.h, 226-261 of mk_notifications.c).
Flashing(f) == flasher[f].pc \in {"mark", "loop", "write", "clear"}
FlashIsUndisturbed ==
    [][\A f \in Flashers :
        Flashing(f) /\ target_color' # target_color =>
            flasher'[f] # flasher[f] /\ \A g \in Flashers \ {f} : ~Flashing(g)]_vars

\* The fade is suspended only while a flash goes on: no thread ends with the
\* flag set, whatever was stopped meanwhile (lines 226-252).
OverrideIsFlash == target_override => \E f \in Flashers : Flashing(f) /\ keyboard_lock = f

\* Until the first flash, what the updater copies is a color that somebody
\* wrote, and not bytes of two (lines 72-76, and 188-193 of capture.h).
WholeUntilFlash ==
    (\A f \in Flashers : flasher[f].pc \in {"none", "keyboard"}) =>
        (updater = "send" => target \in Colors \cup {Black})

\* The fade goes towards the target and never past it, and gets closer in
\* every byte that is at least Speed away (lines 86-91).
Distance(c, b) == IF target[b] < c[b] THEN c[b] - target[b] ELSE target[b] - c[b]
FadeApproaches ==
    [][updater = "send" /\ updater' # "send" /\ ~target_override =>
        \A b \in Bytes :
            /\ previous[b] <= target[b] => previous'[b] \in previous[b]..target[b]
            /\ previous[b] >= target[b] => previous'[b] \in target[b]..previous[b]
            /\ Distance(previous, b) >= Speed => previous'[b] # previous[b]]_vars

\* stop and mkn_exit return, or crash in a join, whatever flashes go on and
\* whoever holds which lock (lines 41-49, 163-180).
StopReturns == main \in {"stop", "exit"} ~> main \in {"stopped", "exited", "crashed"}

\* "target_color is protected by target_lock" (lines 56-57): what the updater
\* copies is never bytes of two colors, also with flashes.
Shades == {[b \in Bytes |-> (c[b] * level) \div Levels] : c \in Colors, level \in 0..Levels}
TargetIsProtected == updater = "send" => target \in Shades \cup Colors \cup {Black}
=============================================================================
