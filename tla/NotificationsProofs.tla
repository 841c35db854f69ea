-------------------------- MODULE NotificationsProofs --------------------------
(***************************************************************************)
(* Theorems about Notifications, for every number of flashers, every color *)
(* and every speed: its types, that nobody but the one flash writes the    *)
(* color, that the fade is suspended for a flash only, and that the handle *)
(* is closed only under an updater that has ended; and that colors are     *)
(* whole before the first flash, and the fade goes to its target.          *)
(***************************************************************************)
EXTENDS Notifications, SequenceTheorems, TLAPS

-----------------------------------------------------------------------------
(* Typing *)

\* A color faded to a level is a color, and so is one step of the fade.
LEMMA LevelIsByte ==
    ASSUME NEW n \in 0..MaxByte, NEW level \in 0..Levels
    PROVE (n * level) \div Levels \in 0..MaxByte
<1>. DEFINE q == (n * level) \div Levels
<1>1. n * level \in Nat /\ n * level <= n * Levels
  BY NotificationsAssumption
<1>2. q \in Int /\ q * Levels <= n * level /\ n * level < (q + 1) * Levels
  BY <1>1, NotificationsAssumption
<1>. HIDE DEF q
<1>3. q >= 0
  <2>. SUFFICES ASSUME q + 1 <= 0 PROVE FALSE
    BY <1>2
  <2>1. (q + 1) * Levels <= 0
    BY <1>2, NotificationsAssumption
  <2>2. (q + 1) * Levels \in Int /\ n * level \in Nat
    BY <1>1, <1>2, NotificationsAssumption
  <2>. QED  BY <1>2, <2>1, <2>2
<1>4. q <= n
  <2>. SUFFICES ASSUME n + 1 <= q PROVE FALSE
    BY <1>2
  <2>1. (n + 1) * Levels <= q * Levels
    BY <1>2, NotificationsAssumption
  <2>2. n * Levels < (n + 1) * Levels
    BY NotificationsAssumption
  <2>3. q * Levels \in Int /\ n * Levels \in Int /\ (n + 1) * Levels \in Int
    BY <1>2, NotificationsAssumption
  <2>. QED  BY <1>1, <1>2, <2>1, <2>2, <2>3
<1>5. q \in 0..MaxByte
  BY <1>2, <1>3, <1>4, NotificationsAssumption
<1>. QED  BY <1>5 DEF q

LEMMA FadedIsByte ==
    ASSUME NEW from \in 0..MaxByte, NEW to \in 0..MaxByte PROVE Faded(from, to) \in 0..MaxByte
<1>1. Fraction(to - from) \in Int
  BY NotificationsAssumption DEF Fraction
<1>2. Fraction(to - from) % (MaxByte + 1) \in 0..MaxByte
  BY <1>1, NotificationsAssumption
<1>. QED  BY <1>2, NotificationsAssumption DEF Faded

\* A flash in a turn has not done the last one, and it ends with the last
\* of its flashes.
Counted ==
    \A f \in Flashers :
        /\ flasher[f].pc = "write" => flasher[f].turn < Turns
        /\ flasher[f].pc # "ended" => flasher[f].flashes < Repeat

\* The two ways in which a step of a flash changes two fields of its record.
LEMMA FieldsType ==
    ASSUME NEW r \in FlasherStates
    PROVE /\ \A turn \in 0..Turns : [r EXCEPT !.pc = "loop", !.turn = turn] \in FlasherStates
          /\ \A n \in 0..Repeat, pc \in {"mark", "ended"} :
                [r EXCEPT !.flashes = n, !.pc = pc] \in FlasherStates
BY DEF FlasherStates

LEMMA TypesAndTurns == Spec => [](TypeOK /\ Counted)
<1>1. Init => TypeOK /\ Counted
  <2>1. Black \in ColorSpace /\ 1 \in Bytes
    BY NotificationsAssumption DEF Black, ColorSpace, Bytes
  <2>2. NoFlash \in FlasherStates /\ NoFlash.pc = "none" /\ NoFlash.flashes = 0
    BY <2>1, NotificationsAssumption DEF NoFlash, FlasherStates, Turns
  <2>3. <<>> \in Seq({"updater", "capturer"})
    OBVIOUS
  <2>. SUFFICES ASSUME Init PROVE TypeOK /\ Counted
    OBVIOUS
  <2>4. flasher \in [Flashers -> FlasherStates] /\ Counted
    BY <2>2, NotificationsAssumption DEF Init, Counted
  <2>5. target_color \in ColorSpace /\ target \in ColorSpace /\ previous \in ColorSpace
        /\ screen \in ColorSpace
    BY <2>1, NotificationsAssumption DEF Init
  <2>. QED  BY <2>1, <2>3, <2>4, <2>5 DEF Init, TypeOK
<1>2. TypeOK /\ Counted /\ [Next]_vars => TypeOK' /\ Counted'
  <2>. SUFFICES ASSUME TypeOK, Counted, [Next]_vars PROVE TypeOK' /\ Counted'
    OBVIOUS
  <2>. USE NotificationsAssumption
  <2>0. UNCHANGED flasher => Counted'
    BY DEF Counted
  <2>1. CASE Start
    BY <2>0, <2>1 DEF Start, Created, TypeOK, color, locks
  <2>2. CASE Stop \/ AtExit
    <3>2. <<"updater", "capturer">> \in Seq({"updater", "capturer"})
      OBVIOUS
    <3>1. joins' \in Seq({"updater", "capturer"})
      BY <2>2, <3>2 DEF Stop, AtExit, Joins
    <3>. QED  BY <2>0, <2>2, <3>1 DEF Stop, AtExit, TypeOK, color, locks, update, capture
  <2>3. CASE Ends
    <3>a. joins # <<>> => /\ Head(joins) \in {"updater", "capturer"}
                          /\ Tail(joins) \in Seq({"updater", "capturer"})
      BY HeadTailProperties DEF TypeOK
    <3>1. joins' \in Seq({"updater", "capturer"})
      BY <2>3, <3>a DEF Ends, Join, JoinUndefined, Return, TypeOK
    <3>2. joined' \subseteq {"updater", "capturer"}
      BY <2>3, <3>a DEF Ends, Join, JoinUndefined, Return, TypeOK
    <3>3. main' \in {"init", "up", "stop", "stopped", "exit", "exited", "crashed"}
      BY <2>3 DEF Ends, Join, JoinUndefined, Return, TypeOK
    <3>4. UNCHANGED <<exit_requested, color, locks, update, capture, flasher>>
      BY <2>3 DEF Ends, Join, JoinUndefined, Return
    <3>. QED  BY <2>0, <3>1, <3>2, <3>3, <3>4 DEF TypeOK, color, locks, update, capture
  <2>4. ASSUME NEW f \in Flashers, NEW c \in Colors, FlashKeyboard(f, c)
        PROVE TypeOK' /\ Counted'
    <3>1. [flasher[f] EXCEPT !.pc = "keyboard", !.color = c] \in FlasherStates
      BY DEF TypeOK, FlasherStates
    <3>2. flasher' = [flasher EXCEPT ![f] = [flasher[f] EXCEPT !.pc = "keyboard", !.color = c]]
      BY <2>4 DEF FlashKeyboard, TypeOK, FlasherStates
    <3>3. flasher' \in [Flashers -> FlasherStates] /\ Counted'
      BY <2>4, <3>1, <3>2 DEF FlashKeyboard, TypeOK, Counted, FlasherStates
    <3>. QED  BY <2>4, <3>3 DEF FlashKeyboard, TypeOK, python, color, locks, update, capture
  <2>5. CASE UpdaterChecks \/ UpdaterLocks \/ UpdaterSkips
    <3>1. CASE UpdaterChecks
      BY <2>0, <3>1 DEF UpdaterChecks, TypeOK, python, color, locks, capture
    <3>2. CASE UpdaterLocks
      BY <2>0, <3>2 DEF UpdaterLocks, TypeOK, python, color, capture, Bytes
    <3>3. CASE UpdaterSkips
      BY <2>0, <3>3 DEF UpdaterSkips, TypeOK, python, color, locks, capture
    <3>. QED  BY <2>5, <3>1, <3>2, <3>3
  <2>6. CASE UpdaterCopies
    <3>1. target' \in ColorSpace
      BY <2>6 DEF UpdaterCopies, TypeOK, ColorSpace
    <3>2. copied' \in Bytes /\ target_lock' \in {"free", "updater", "capturer"}
      BY <2>6 DEF UpdaterCopies, TypeOK, Bytes
    <3>3. updater' \in {"copy", "send"}
      BY <2>6 DEF UpdaterCopies
    <3>4. UNCHANGED <<python, color, keyboard_lock, previous, capture, flasher>>
      BY <2>6 DEF UpdaterCopies
    <3>5. UNCHANGED <<main, joins, joined, exit_requested, target_color, target_override,
                      capturer, written, screen>>
      BY <3>4 DEF python, color, capture
    <3>. QED  BY <2>0, <3>1, <3>2, <3>3, <3>4, <3>5 DEF TypeOK
  <2>7. CASE UpdaterSends
    <3>1. [b \in Bytes |-> Faded(previous[b], target[b])] \in ColorSpace
      BY FadedIsByte DEF TypeOK, ColorSpace
    <3>2. previous' \in ColorSpace /\ target' \in ColorSpace
      BY <2>7, <3>1 DEF UpdaterSends, TypeOK
    <3>. QED  BY <2>0, <2>7, <3>2 DEF UpdaterSends, TypeOK, python, color, locks, capture
  <2>8. CASE CapturerChecks \/ CapturerLocksKeyboard \/ CapturerLocksTarget
    <3>1. CASE CapturerChecks
      BY <2>0, <3>1 DEF CapturerChecks, TypeOK, python, color, locks, update
    <3>2. CASE CapturerLocksKeyboard
      BY <2>0, <3>2 DEF CapturerLocksKeyboard, TypeOK, python, color, update
    <3>3. CASE CapturerLocksTarget
      BY <2>0, <3>3 DEF CapturerLocksTarget, TypeOK, python, color, update, Bytes
    <3>. QED  BY <2>8, <3>1, <3>2, <3>3
  <2>9. CASE CapturerWrites
    <3>1. target_color' \in ColorSpace
      BY <2>9 DEF CapturerWrites, TypeOK, ColorSpace
    <3>2. written' \in Bytes /\ target_lock' \in {"free", "updater", "capturer"}
      BY <2>9 DEF CapturerWrites, TypeOK, Bytes, locks
    <3>3. keyboard_lock' \in {"free", "capturer"} \cup Flashers /\ capturer' \in {"write", "check"}
      BY <2>9 DEF CapturerWrites, TypeOK, locks
    <3>4. UNCHANGED <<python, target_override, update, screen, flasher>>
      BY <2>9 DEF CapturerWrites
    <3>5. UNCHANGED <<main, joins, joined, exit_requested, updater, copied, target, previous>>
      BY <3>4 DEF python, update
    <3>. QED  BY <2>0, <3>1, <3>2, <3>3, <3>4, <3>5 DEF TypeOK
  <2>10. ASSUME NEW f \in Flashers, Flasher(f) PROVE TypeOK' /\ Counted'
    <3>. DEFINE me == flasher[f]
    <3>0. me \in FlasherStates /\ Turns \in Nat /\ 1 \in Bytes /\ 0 <= Turns
      BY DEF TypeOK, Turns, Bytes
    <3>1. CASE FlasherLocksKeyboard(f)
      <4>1. flasher' = [flasher EXCEPT ![f] = [me EXCEPT !.pc = "mark"]]
        BY <3>1 DEF FlasherLocksKeyboard, Goes
      <4>2. [me EXCEPT !.pc = "mark"] \in FlasherStates /\ me.pc = "keyboard"
        BY <3>0, <3>1 DEF FlasherLocksKeyboard, At, FlasherStates
      <4>3. flasher' \in [Flashers -> FlasherStates] /\ Counted'
        BY <3>0, <4>1, <4>2 DEF TypeOK, Counted, FlasherStates
      <4>. QED  BY <3>1, <4>3 DEF FlasherLocksKeyboard, TypeOK, python, color, update, capture
    <3>2. CASE FlasherMarks(f)
      <4>1. flasher' = [flasher EXCEPT ![f] = [me EXCEPT !.pc = "loop", !.turn = 0]]
        BY <3>2 DEF FlasherMarks
      <4>a. me.pc = "mark"
        BY <3>2 DEF FlasherMarks, At
      <4>b. 0 \in 0..Turns
        BY <3>0
      <4>2. [me EXCEPT !.pc = "loop", !.turn = 0] \in FlasherStates
        BY <3>0, <4>b, FieldsType
      <4>3. flasher' \in [Flashers -> FlasherStates] /\ Counted'
        BY <3>0, <4>a, <4>1, <4>2 DEF TypeOK, Counted, FlasherStates
      <4>. QED  BY <3>2, <4>3 DEF FlasherMarks, TypeOK, python, color, locks, update, capture
    <3>3. CASE FlasherUnlocks(f)
      <4>. DEFINE next == [me EXCEPT !.pc = IF me.turn < Turns THEN "write" ELSE "clear",
                                     !.byte = 1]
      <4>1. flasher' = [flasher EXCEPT ![f] = next]
        BY <3>3 DEF FlasherUnlocks
      <4>2. next \in FlasherStates /\ me.pc = "loop"
        BY <3>0, <3>3 DEF FlasherUnlocks, At, FlasherStates
      <4>3. flasher' \in [Flashers -> FlasherStates] /\ Counted'
        BY <3>0, <4>1, <4>2 DEF TypeOK, Counted, FlasherStates
      <4>. QED  BY <3>3, <4>3 DEF FlasherUnlocks, TypeOK, python, color, update, capture
    <3>4. CASE FlasherWrites(f)
      <4>. DEFINE next == IF me.byte < Channels THEN [me EXCEPT !.byte = me.byte + 1]
                          ELSE [me EXCEPT !.pc = "loop", !.turn = me.turn + 1]
      <4>1. flasher' = [flasher EXCEPT ![f] = next]
        BY <3>4 DEF FlasherWrites
      <4>2. me.pc = "write" /\ me.turn < Turns
        BY <3>4 DEF FlasherWrites, At, Counted
      <4>3. next \in FlasherStates
        <5>1. CASE me.byte < Channels
          <6>1. me.byte + 1 \in Bytes
            BY <3>0, <5>1 DEF FlasherStates, Bytes
          <6>. QED  BY <3>0, <5>1, <6>1 DEF FlasherStates
        <5>2. CASE ~(me.byte < Channels)
          <6>1. me.turn + 1 \in 0..Turns
            BY <3>0, <4>2 DEF FlasherStates
          <6>. QED  BY <3>0, <5>2, <6>1, FieldsType
        <5>. QED  BY <5>1, <5>2
      <4>4. flasher' \in [Flashers -> FlasherStates] /\ Counted'
        BY <3>0, <4>1, <4>2, <4>3 DEF TypeOK, Counted, FlasherStates
      <4>5. Level(me.turn) \in 0..Levels
        BY <3>0, <4>2 DEF Level, Turns, FlasherStates
      <4>6. me.byte \in Bytes /\ me.color[me.byte] \in 0..MaxByte
        BY <3>0 DEF FlasherStates, ColorSpace
      <4>7. (me.color[me.byte] * Level(me.turn)) \div Levels \in 0..MaxByte
        BY <4>5, <4>6, LevelIsByte
      <4>8. target_color' \in ColorSpace
        BY <3>4, <4>6, <4>7 DEF FlasherWrites, TypeOK, ColorSpace
      <4>. QED  BY <3>4, <4>4, <4>8 DEF FlasherWrites, TypeOK, python, locks, update, capture
    <3>5. CASE FlasherClears(f)
      <4>. DEFINE next == [me EXCEPT !.flashes = me.flashes + 1,
                                     !.pc = IF me.flashes + 1 < Repeat THEN "mark" ELSE "ended"]
      <4>1. flasher' = [flasher EXCEPT ![f] = next]
        BY <3>5 DEF FlasherClears
      <4>2. me.pc = "clear" /\ me.flashes < Repeat
        BY <3>5 DEF FlasherClears, At, Counted
      <4>3. next \in FlasherStates
        <5>1. me.flashes + 1 \in 0..Repeat
          BY <3>0, <4>2 DEF FlasherStates
        <5>. QED  BY <3>0, <5>1, FieldsType
      <4>4. flasher' \in [Flashers -> FlasherStates] /\ Counted'
        BY <3>0, <4>1, <4>2, <4>3 DEF TypeOK, Counted, FlasherStates
      <4>5. target_override' \in BOOLEAN /\ keyboard_lock' \in {keyboard_lock, "free"}
        BY <3>5 DEF FlasherClears, Cleared, Unlocked
      <4>6. UNCHANGED <<main, joins, joined, exit_requested, target_color, target_lock, updater,
                        copied, target, previous, capturer, written, screen>>
        BY <3>5 DEF FlasherClears, python, update, capture
      <4>. HIDE DEF next
      <4>. QED  BY <4>4, <4>5, <4>6 DEF TypeOK
    <3>. QED  BY <2>10, <3>1, <3>2, <3>3, <3>4, <3>5 DEF Flasher
  <2>11. CASE UNCHANGED vars
    BY <2>0, <2>11 DEF vars, TypeOK, python, color, locks, update, capture
  <2>. QED  BY <2>1, <2>2, <2>3, <2>4, <2>5, <2>6, <2>7, <2>8, <2>9, <2>10, <2>11
            DEF Next, Updater, Capturer
<1>. QED  BY <1>1, <1>2, PTL DEF Spec

\* The variables of every thread keep their types.
THEOREM NotificationsTypes == Spec => []TypeOK
BY TypesAndTurns, PTL

-----------------------------------------------------------------------------
(* The keyboard *)

\* A flash goes on in the thread that holds keyboard_lock, and in no other;
\* the capturer writes only while it holds it; and the flag is set only
\* between the two places where a flash sets and clears it.
KeyboardLockInv ==
    /\ \A f \in Flashers : Flashing(f) <=> keyboard_lock = f
    /\ capturer \in {"target", "write"} <=> keyboard_lock = "capturer"
    /\ target_override => \E f \in Flashers : flasher[f].pc \in {"loop", "write", "clear"}
    /\ main = "init" => capturer = "none"

\* The steps of the flash that has the keyboard leave the other threads out.
LEMMA FlasherKeepsLock ==
    ASSUME TypeOK, KeyboardLockInv, NEW f \in Flashers, Flasher(f)
    PROVE KeyboardLockInv'
<1>. USE NotificationsAssumption
<1>0. /\ \A g \in Flashers : flasher[g] \in FlasherStates
      /\ \A g \in Flashers : g # "capturer" /\ g # "free"
  BY DEF TypeOK
<1>1. CASE FlasherLocksKeyboard(f)
  <2>1. /\ flasher'[f].pc = "mark" /\ \A g \in Flashers \ {f} : flasher'[g] = flasher[g]
        /\ keyboard_lock = "free" /\ keyboard_lock' = f /\ flasher[f].pc = "keyboard"
        /\ UNCHANGED <<capturer, target_override, main>>
    BY <1>0, <1>1 DEF FlasherLocksKeyboard, Goes, At, KeyboardFree, python, color, capture, TypeOK,
                      FlasherStates
  <2>. QED  BY <1>0, <2>1 DEF KeyboardLockInv, Flashing
<1>2. CASE FlasherMarks(f)
  <2>1. /\ flasher'[f].pc = "loop" /\ \A g \in Flashers \ {f} : flasher'[g] = flasher[g]
        /\ flasher[f].pc = "mark"
        /\ UNCHANGED <<capturer, keyboard_lock, main>>
    BY <1>0, <1>2 DEF FlasherMarks, At, python, locks, capture, TypeOK, FlasherStates
  <2>. QED  BY <1>0, <2>1 DEF KeyboardLockInv, Flashing
<1>3. CASE FlasherUnlocks(f) \/ FlasherWrites(f)
  <2>1. /\ flasher'[f].pc \in {"loop", "write", "clear"}
        /\ \A g \in Flashers \ {f} : flasher'[g] = flasher[g]
        /\ flasher[f].pc \in {"loop", "write"}
        /\ UNCHANGED <<capturer, keyboard_lock, target_override, main>>
    <3>1. CASE FlasherUnlocks(f)
      BY <1>0, <3>1 DEF FlasherUnlocks, At, python, color, capture, TypeOK, FlasherStates
    <3>2. CASE FlasherWrites(f)
      BY <1>0, <3>2 DEF FlasherWrites, At, python, locks, capture, TypeOK, FlasherStates
    <3>. QED  BY <1>3, <3>1, <3>2
  <2>. QED  BY <1>0, <2>1 DEF KeyboardLockInv, Flashing
<1>4. CASE FlasherClears(f)
  <2>1. /\ flasher[f].pc = "clear" /\ \A g \in Flashers \ {f} : flasher'[g] = flasher[g]
        /\ \/ flasher'[f].pc = "mark" /\ keyboard_lock' = keyboard_lock
           \/ flasher'[f].pc = "ended" /\ keyboard_lock' = "free"
        /\ target_override' = FALSE /\ UNCHANGED <<capturer, main>>
    BY <1>0, <1>4 DEF FlasherClears, At, python, capture, Cleared, Unlocked, TypeOK, FlasherStates
  <2>. QED  BY <1>0, <2>1 DEF KeyboardLockInv, Flashing
<1>. QED  BY <1>1, <1>2, <1>3, <1>4 DEF Flasher

LEMMA KeyboardLockInvariant == Spec => []KeyboardLockInv
<1>1. Init => KeyboardLockInv
  BY NotificationsAssumption DEF Init, KeyboardLockInv, Flashing, NoFlash
<1>2. TypeOK /\ KeyboardLockInv /\ [Next]_vars => KeyboardLockInv'
  <2>. SUFFICES ASSUME TypeOK, KeyboardLockInv, [Next]_vars PROVE KeyboardLockInv'
    OBVIOUS
  <2>0. UNCHANGED <<capturer, keyboard_lock, target_override, flasher>>
        /\ (main' = main \/ main' # "init") => KeyboardLockInv'
    BY DEF KeyboardLockInv, Flashing
  <2>1. CASE Start
    <3>1. capturer = "none" /\ main' # "init"
      BY <2>1 DEF Start, KeyboardLockInv
    <3>2. capturer' \in {"check", "none"} /\ UNCHANGED <<keyboard_lock, target_override, flasher>>
      BY <2>1 DEF Start, Created, color, locks
    <3>. QED  BY <3>1, <3>2 DEF KeyboardLockInv, Flashing
  <2>2. CASE Stop \/ AtExit \/ Ends
    BY <2>0, <2>2 DEF Stop, AtExit, Ends, Join, JoinUndefined, Return, color, locks, capture,
                      python
  <2>3. ASSUME NEW f \in Flashers, NEW c \in Colors, FlashKeyboard(f, c) PROVE KeyboardLockInv'
    <3>1. /\ flasher'[f].pc = "keyboard" /\ flasher[f].pc = "none"
          /\ \A g \in Flashers \ {f} : flasher'[g] = flasher[g]
          /\ UNCHANGED <<capturer, keyboard_lock, target_override, main>>
      BY <2>3 DEF FlashKeyboard, TypeOK, FlasherStates, python, color, locks, capture
    <3>. QED  BY <3>1 DEF KeyboardLockInv, Flashing
  <2>4. CASE Updater
    BY <2>0, <2>4 DEF Updater, UpdaterChecks, UpdaterLocks, UpdaterCopies, UpdaterSkips,
                      UpdaterSends, python, color, locks, capture
  <2>5. CASE Capturer
    <3>1. UNCHANGED <<target_override, flasher, main>>
      BY <2>5 DEF Capturer, CapturerChecks, CapturerLocksKeyboard, CapturerLocksTarget,
                  CapturerWrites, python, color
    <3>2. \/ capturer \in {"target", "write"} /\ capturer' \in {"target", "write"}
             /\ keyboard_lock' = keyboard_lock
          \/ capturer = "check" /\ capturer' \in {"ended", "keyboard"}
             /\ keyboard_lock' = keyboard_lock
          \/ capturer = "keyboard" /\ capturer' = "target"
             /\ keyboard_lock = "free" /\ keyboard_lock' = "capturer"
          \/ capturer = "write" /\ capturer' = "check" /\ keyboard_lock' = "free"
      <4>1. CASE CapturerChecks
        BY <4>1 DEF CapturerChecks, locks
      <4>2. CASE CapturerLocksKeyboard
        BY <4>2 DEF CapturerLocksKeyboard, KeyboardFree
      <4>3. CASE CapturerLocksTarget
        BY <4>3 DEF CapturerLocksTarget
      <4>4. CASE CapturerWrites
        BY <4>4 DEF CapturerWrites, locks
      <4>. QED  BY <2>5, <4>1, <4>2, <4>3, <4>4 DEF Capturer
    <3>3. \A f \in Flashers : f # "free" /\ f # "capturer"
      BY NotificationsAssumption
    <3>. QED  BY <3>1, <3>2, <3>3 DEF KeyboardLockInv, Flashing
  <2>6. ASSUME NEW f \in Flashers, Flasher(f) PROVE KeyboardLockInv'
    BY <2>6, FlasherKeepsLock
  <2>7. CASE UNCHANGED vars
    BY <2>0, <2>7 DEF vars, python, color, locks, capture
  <2>. QED  BY <2>1, <2>2, <2>3, <2>4, <2>5, <2>6, <2>7 DEF Next
<1>. QED  BY <1>1, <1>2, NotificationsTypes, PTL DEF Spec

\* Whatever is stopped meanwhile, the fade is suspended only for the flash
\* that holds the keyboard, and goes on when that ends.
THEOREM OverrideEndsWithFlash == Spec => []OverrideIsFlash
<1>1. KeyboardLockInv => OverrideIsFlash
  BY DEF KeyboardLockInv, OverrideIsFlash, Flashing
<1>. QED  BY <1>1, KeyboardLockInvariant, PTL

\* Only the flash that goes on writes the color of the keyboard, for any
\* number of notifications and whatever target_lock is worth.
THEOREM FlashesAreUndisturbed == Spec => FlashIsUndisturbed
<1>1. TypeOK /\ KeyboardLockInv /\ [Next]_vars =>
        [\A f \in Flashers : Flashing(f) /\ target_color' # target_color =>
            flasher'[f] # flasher[f] /\ \A g \in Flashers \ {f} : ~Flashing(g)]_vars
  <2>. SUFFICES ASSUME TypeOK, KeyboardLockInv, Next, NEW f \in Flashers, Flashing(f),
                       target_color' # target_color
                PROVE flasher'[f] # flasher[f] /\ \A g \in Flashers \ {f} : ~Flashing(g)
    OBVIOUS
  <2>1. keyboard_lock = f /\ f # "capturer" /\ \A g \in Flashers \ {f} : ~Flashing(g)
    BY NotificationsAssumption DEF KeyboardLockInv
  <2>2. capturer # "write"
    BY <2>1 DEF KeyboardLockInv
  <2>3. PICK g \in Flashers : FlasherWrites(g)
    <3>1. ~(Start \/ Stop \/ AtExit \/ Ends)
      BY DEF Start, Stop, AtExit, Ends, Join, JoinUndefined, Return, color
    <3>2. ~Updater /\ ~\E g \in Flashers, c \in Colors : FlashKeyboard(g, c)
      BY DEF Updater, UpdaterChecks, UpdaterLocks, UpdaterCopies, UpdaterSkips, UpdaterSends,
             FlashKeyboard, color
    <3>3. ~Capturer
      BY <2>2 DEF Capturer, CapturerChecks, CapturerLocksKeyboard, CapturerLocksTarget,
                  CapturerWrites, color
    <3>4. PICK g \in Flashers : Flasher(g)
      BY <3>1, <3>2, <3>3 DEF Next
    <3>. QED  BY <3>4 DEF Flasher, FlasherLocksKeyboard, FlasherMarks, FlasherUnlocks,
                           FlasherClears, color
  <2>4. g = f
    BY <2>1, <2>3 DEF FlasherWrites, At, Flashing
  <2>5. flasher[f] \in FlasherStates
    BY DEF TypeOK
  <2>6. flasher'[f].byte = flasher[f].byte + 1 \/ flasher'[f].turn = flasher[f].turn + 1
    BY <2>3, <2>4, <2>5 DEF FlasherWrites, TypeOK, FlasherStates
  <2>. QED  BY <2>1, <2>5, <2>6, NotificationsAssumption DEF FlasherStates, Bytes
<1>. QED  BY <1>1, NotificationsTypes, KeyboardLockInvariant, PTL DEF Spec, FlashIsUndisturbed

-----------------------------------------------------------------------------
(* The end *)

\* Once the join of the updater is behind, the updater has ended or never was.
JoinInv ==
    /\ main = "init" => joined = {}
    /\ "updater" \in joined => updater = "ended"
    /\ main \in {"stop", "exit"} =>
        \/ joins = Joins
        \/ joins \in {<<"capturer">>, <<>>} /\ updater \in {"none", "ended"}
    /\ main = "exited" => updater \in {"none", "ended"}

\* mkn_exit closes the device only under an updater that has ended, also
\* where stop has joined it before, or start never created it.
THEOREM KeyboardIsQuietAtEnd == Spec => []KeyboardIsQuiet
<1>1. Init => JoinInv
  BY DEF Init, JoinInv
<1>2. TypeOK /\ JoinInv /\ [Next]_vars => JoinInv'
  <2>. SUFFICES ASSUME TypeOK, JoinInv, [Next]_vars PROVE JoinInv'
    OBVIOUS
  <2>0. UNCHANGED <<main, joins, joined>> /\ (updater \in {"none", "ended"} => updater' = updater)
        => JoinInv'
    BY DEF JoinInv, TypeOK
  <2>1. CASE Start
    <3>1. joined' = {} /\ main' = "up"
      BY <2>1 DEF Start, JoinInv
    <3>. QED  BY <3>1 DEF JoinInv
  <2>2. CASE Stop \/ AtExit
    BY <2>2 DEF Stop, AtExit, JoinInv, update
  <2>3. CASE Ends
    <3>1. UNCHANGED updater
      BY <2>3 DEF Ends, Join, JoinUndefined, Return, update
    <3>2. CASE Join \/ JoinUndefined
      <4>1. /\ joins # <<>> /\ joins' = Tail(joins) /\ main' \in {main, "crashed"}
            /\ main \in {"stop", "exit"}
        BY <3>2 DEF Join, JoinUndefined
      <4>2. CASE joins = Joins
        <5>1. Head(joins) = "updater" /\ joins' = <<"capturer">>
          BY <4>1, <4>2 DEF Joins
        <5>2. updater \in {"none", "ended"}
          BY <3>2, <5>1 DEF Join, JoinUndefined, State, JoinInv
        <5>3. "updater" \in joined' => updater = "ended"
          BY <3>2, <5>1 DEF Join, JoinUndefined, State, JoinInv
        <5>. QED  BY <3>1, <4>1, <5>1, <5>2, <5>3 DEF JoinInv
      <4>3. CASE joins = <<"capturer">> /\ updater \in {"none", "ended"}
        <5>1. joins' = <<>> /\ Head(joins) = "capturer"
          BY <4>1, <4>3
        <5>2. "updater" \in joined' => "updater" \in joined
          BY <3>2, <5>1 DEF Join, JoinUndefined
        <5>. QED  BY <3>1, <4>1, <4>3, <5>1, <5>2 DEF JoinInv
      <4>. QED  BY <4>1, <4>2, <4>3 DEF JoinInv
    <3>3. CASE Return
      <4>1. joins = <<>> /\ joins # Joins
        BY <3>3 DEF Return, Joins
      <4>. QED  BY <3>1, <3>3, <4>1 DEF Return, JoinInv
    <3>. QED  BY <2>3, <3>2, <3>3 DEF Ends
  <2>4. CASE Updater
    BY <2>0, <2>4 DEF Updater, UpdaterChecks, UpdaterLocks, UpdaterCopies, UpdaterSkips,
                      UpdaterSends, python
  <2>5. CASE Capturer
    BY <2>0, <2>5 DEF Capturer, CapturerChecks, CapturerLocksKeyboard, CapturerLocksTarget,
                      CapturerWrites, python, update
  <2>6. ASSUME NEW f \in Flashers, Flasher(f) \/ \E c \in Colors : FlashKeyboard(f, c)
        PROVE JoinInv'
    BY <2>0, <2>6 DEF Flasher, FlasherLocksKeyboard, FlasherMarks, FlasherUnlocks, FlasherWrites,
                      FlasherClears, FlashKeyboard, python, update
  <2>7. CASE UNCHANGED vars
    BY <2>0, <2>7 DEF vars, python, update
  <2>. QED  BY <2>1, <2>2, <2>3, <2>4, <2>5, <2>6, <2>7 DEF Next
<1>3. JoinInv => KeyboardIsQuiet
  BY DEF JoinInv, KeyboardIsQuiet
<1>. QED  BY <1>1, <1>2, <1>3, NotificationsTypes, PTL DEF Spec
-----------------------------------------------------------------------------
(* Colors before the first flash *)

NoFlashYet == \A f \in Flashers : flasher[f].pc \in {"none", "keyboard"}
Whole == Colors \cup {Black}

\* Until then the capturer and the updater hold target_lock over their bytes.
WholeInv ==
    NoFlashYet =>
        /\ capturer \in {"keyboard", "target", "write"} => screen \in Colors
        /\ capturer # "write" => target_color \in Whole
        /\ capturer = "write" =>
             target_lock = "capturer" /\ \A b \in 1..(written - 1) : target_color[b] = screen[b]
        /\ updater = "copy" =>
             target_lock = "updater" /\ \A b \in 1..(copied - 1) : target[b] = target_color[b]
        /\ updater = "send" => target \in Whole

\* A flash that has begun has left "none" and "keyboard" for good.
LEMMA FlashHasBegun ==
    ASSUME TypeOK, NEW f \in Flashers, Flasher(f)
    PROVE  ~NoFlashYet'
<1>0. flasher[f] \in FlasherStates
  BY DEF TypeOK
<1>. USE DEF At, Goes, TypeOK, FlasherStates, NoFlashYet
<1>1. CASE FlasherLocksKeyboard(f)  BY <1>0, <1>1 DEF FlasherLocksKeyboard
<1>2. CASE FlasherMarks(f)    BY <1>0, <1>2 DEF FlasherMarks
<1>3. CASE FlasherUnlocks(f)  BY <1>0, <1>3 DEF FlasherUnlocks
<1>4. CASE FlasherWrites(f)   BY <1>0, <1>4 DEF FlasherWrites
<1>5. CASE FlasherClears(f)   BY <1>0, <1>5 DEF FlasherClears
<1>. QED  BY <1>1, <1>2, <1>3, <1>4, <1>5 DEF Flasher

LEMMA WholeUpdater == ASSUME TypeOK, WholeInv, NoFlashYet, Updater  PROVE WholeInv'
<1>. USE DEF WholeInv, python, color, locks, update, capture
<1>1. CASE UpdaterChecks \/ UpdaterSkips \/ UpdaterSends
  BY <1>1 DEF UpdaterChecks, UpdaterSkips, UpdaterSends
<1>2. CASE UpdaterLocks
  BY <1>2 DEF UpdaterLocks, TargetFree
<1>3. CASE UpdaterCopies
  <2>1. /\ updater = "copy" /\ target_lock = "updater" /\ capturer # "write"
        /\ target_color \in Whole /\ target_color' = target_color
        /\ \A b \in 1..(copied - 1) : target[b] = target_color[b]
        /\ capturer' = capturer /\ screen' = screen
    BY <1>3 DEF UpdaterCopies
  <2>2. /\ copied \in Bytes /\ target \in [Bytes -> 0..MaxByte] /\ target_color \in [Bytes -> 0..MaxByte]
        /\ Bytes = 1..Channels /\ Channels \in Nat
    BY NotificationsAssumption DEF TypeOK, ColorSpace, Bytes
  <2>3. target' \in [Bytes -> 0..MaxByte] /\ \A b \in 1..copied : target'[b] = target_color[b]
    BY <1>3, <2>1, <2>2 DEF UpdaterCopies
  <2>4. CASE copied < Channels
    BY <1>3, <2>1, <2>2, <2>3, <2>4 DEF UpdaterCopies
  <2>5. CASE ~(copied < Channels)
    <3>1. target' = target_color
      BY <2>2, <2>3, <2>5
    <3>. QED  BY <1>3, <2>1, <2>5, <3>1 DEF UpdaterCopies
  <2>. QED  BY <2>4, <2>5
<1>. QED  BY <1>1, <1>2, <1>3 DEF Updater

LEMMA WholeCapturer == ASSUME TypeOK, WholeInv, NoFlashYet, Capturer  PROVE WholeInv'
<1>. USE DEF WholeInv, python, color, locks, update, capture
<1>1. CASE CapturerChecks \/ CapturerLocksKeyboard
  BY <1>1 DEF CapturerChecks, CapturerLocksKeyboard
<1>2. CASE CapturerLocksTarget
  BY <1>2 DEF CapturerLocksTarget, TargetFree
<1>3. CASE CapturerWrites
  <2>1. /\ capturer = "write" /\ target_lock = "capturer" /\ updater # "copy" /\ screen \in Colors
        /\ \A b \in 1..(written - 1) : target_color[b] = screen[b]
        /\ updater' = updater /\ target' = target /\ screen' = screen
    BY <1>3 DEF CapturerWrites
  <2>2. /\ written \in Bytes /\ screen \in [Bytes -> 0..MaxByte] /\ target_color \in [Bytes -> 0..MaxByte]
        /\ Bytes = 1..Channels /\ Channels \in Nat
    BY NotificationsAssumption DEF TypeOK, ColorSpace, Bytes
  <2>3. /\ target_color' \in [Bytes -> 0..MaxByte]
        /\ \A b \in 1..written : target_color'[b] = screen[b]
    BY <1>3, <2>1, <2>2 DEF CapturerWrites
  <2>4. CASE written < Channels
    BY <1>3, <2>1, <2>2, <2>3, <2>4 DEF CapturerWrites
  <2>5. CASE ~(written < Channels)
    <3>1. target_color' = screen
      BY <2>2, <2>3, <2>5
    <3>. QED  BY <1>3, <2>1, <2>5, <3>1 DEF CapturerWrites, Whole
  <2>. QED  BY <2>4, <2>5
<1>. QED  BY <1>1, <1>2, <1>3 DEF Capturer

\* Before the first flash the updater copies whole colors, of any length.
THEOREM ColorsAreWhole == Spec => []WholeUntilFlash
<1>1. Init => WholeInv
  BY DEF Init, WholeInv, Whole
<1>2. TypeOK /\ KeyboardLockInv /\ WholeInv /\ [Next]_vars => WholeInv'
  <2>. SUFFICES ASSUME TypeOK, KeyboardLockInv, WholeInv, [Next]_vars, NoFlashYet'  PROVE WholeInv'
    BY DEF WholeInv
  <2>1. NoFlashYet /\ \A f \in Flashers : ~Flasher(f)
    <3>1. ASSUME NEW f \in Flashers, NEW c \in Colors, FlashKeyboard(f, c)  PROVE NoFlashYet
      BY <3>1 DEF FlashKeyboard, NoFlashYet, TypeOK, FlasherStates
    <3>2. ASSUME UNCHANGED flasher  PROVE NoFlashYet
      BY <3>2 DEF NoFlashYet
    <3>. QED
      BY <3>1, <3>2, FlashHasBegun DEF Next, Start, Stop, AtExit, Ends, Join, JoinUndefined, Return,
         Updater, UpdaterChecks, UpdaterLocks, UpdaterCopies, UpdaterSkips, UpdaterSends,
         Capturer, CapturerChecks, CapturerLocksKeyboard, CapturerLocksTarget, CapturerWrites, vars
  <2>2. CASE Start
    <3>1. capturer = "none"
      BY <2>2 DEF Start, KeyboardLockInv
    <3>2. capturer' \in {"check", "none"} /\ updater' \in {"check", "none"} /\ UNCHANGED target_color
      BY <2>2 DEF Start, Created, color
    <3>. QED  BY <2>1, <3>1, <3>2 DEF WholeInv
  <2>3. CASE \/ Stop \/ AtExit \/ Ends \/ UNCHANGED vars
             \/ \E f \in Flashers, c \in Colors : FlashKeyboard(f, c)
    <3>1. UNCHANGED <<color, locks, update, capture>>
      BY <2>3 DEF Stop, AtExit, Ends, Join, JoinUndefined, Return, FlashKeyboard, vars
    <3>. QED  BY <2>1, <3>1 DEF WholeInv, color, locks, update, capture
  <2>. QED  BY <2>1, <2>2, <2>3, WholeUpdater, WholeCapturer DEF Next
<1>3. WholeInv => WholeUntilFlash
  BY DEF WholeInv, WholeUntilFlash, NoFlashYet, Whole
<1>. QED  BY <1>1, <1>2, <1>3, NotificationsTypes, KeyboardLockInvariant, PTL DEF Spec
-----------------------------------------------------------------------------
(* The fade *)

\* A part of the way to the target is not more than the way, and something of
\* a way of at least Speed.
LEMMA FractionIsPart ==
    ASSUME NEW way \in 0..MaxByte
    PROVE  way \div Speed \in 0..way /\ (way >= Speed => way \div Speed > 0)
<1>. DEFINE q == way \div Speed
<1>1. q \in Int /\ q * Speed <= way /\ way < (q + 1) * Speed
  BY NotificationsAssumption
<1>. HIDE DEF q
<1>2. q >= 0
  <2>. SUFFICES ASSUME q + 1 <= 0 PROVE FALSE
    BY <1>1
  <2>1. (q + 1) * Speed <= 0 /\ (q + 1) * Speed \in Int
    BY <1>1, NotificationsAssumption
  <2>. QED  BY <1>1, <2>1
<1>3. q <= q * Speed /\ q * Speed \in Int
  BY <1>1, <1>2, NotificationsAssumption
<1>4. way >= Speed => q > 0
  <2>. SUFFICES ASSUME q = 0 PROVE way < Speed
    BY <1>2, <1>1, NotificationsAssumption
  <2>. QED  BY <1>1, NotificationsAssumption
<1>. QED  BY <1>1, <1>2, <1>3, <1>4, NotificationsAssumption DEF q

\* A byte that is a byte already is not changed by the width of bytes.
LEMMA ByteIsKept ==
    ASSUME NEW n \in 0..MaxByte
    PROVE  n % (MaxByte + 1) = n /\ (n + (MaxByte + 1)) % (MaxByte + 1) = n
BY NotificationsAssumption

LEMMA BelowZero ==
    ASSUME NEW q \in 1..MaxByte
    PROVE  (-q) % (MaxByte + 1) = (MaxByte + 1) - q
<1>. DEFINE M == MaxByte + 1
            d == (-q) \div M
            r == (-q) % M
<1>1. M \in Nat \ {0} /\ -q \in Int /\ q \in Nat /\ 0 < q /\ q < M
  BY NotificationsAssumption
<1>. HIDE DEF M
<1>2. d \in Int /\ r \in 0..(M - 1) /\ -q = M * d + r
  BY <1>1
<1>. HIDE DEF d, r
<1>3. ~(d >= 0)
  <2>. SUFFICES ASSUME d >= 0 PROVE FALSE
    OBVIOUS
  <2>1. M * d >= 0 /\ M * d \in Int
    BY <1>1, <1>2
  <2>. QED  BY <1>1, <1>2, <2>1
<1>4. ~(d <= -2)
  <2>. SUFFICES ASSUME d <= -2 PROVE FALSE
    OBVIOUS
  <2>1. M * d <= M * (-2) /\ M * d \in Int
    BY <1>1, <1>2
  <2>. QED  BY <1>1, <1>2, <2>1
<1>5. d = -1
  BY <1>2, <1>3, <1>4
<1>6. r = M - q
  BY <1>1, <1>2, <1>5
<1>. QED  BY <1>6 DEF M, r

LEMMA FadedUp ==
    ASSUME NEW from \in 0..MaxByte, NEW to \in 0..MaxByte, from <= to
    PROVE  Faded(from, to) \in from..to /\ (to - from >= Speed => Faded(from, to) # from)
<1>. DEFINE q == (to - from) \div Speed
<1>1. to - from \in 0..MaxByte
  BY NotificationsAssumption
<1>2. q \in 0..(to - from) /\ (to - from >= Speed => q > 0)
  BY <1>1, FractionIsPart
<1>3. Fraction(to - from) = q
  BY <1>1, NotificationsAssumption DEF Fraction
<1>. HIDE DEF q
<1>4. q \in 0..MaxByte /\ from + q \in 0..MaxByte
  BY <1>1, <1>2, NotificationsAssumption
<1>5. Faded(from, to) = from + q
  BY <1>3, <1>4, ByteIsKept DEF Faded
<1>. QED  BY <1>1, <1>2, <1>4, <1>5, NotificationsAssumption

LEMMA FadedDown ==
    ASSUME NEW from \in 0..MaxByte, NEW to \in 0..MaxByte, to <= from
    PROVE  Faded(from, to) \in to..from /\ (from - to >= Speed => Faded(from, to) # from)
<1>. DEFINE q == (from - to) \div Speed
<1>1. from - to \in 0..MaxByte
  BY NotificationsAssumption
<1>2. q \in 0..(from - to) /\ (from - to >= Speed => q > 0)
  BY <1>1, FractionIsPart
<1>3. Fraction(to - from) = -q
  <2>1. CASE to < from
    <3>1. -(to - from) = from - to
      BY NotificationsAssumption
    <3>. QED  BY <2>1, <3>1, NotificationsAssumption DEF Fraction
  <2>2. CASE to = from
    <3>1. to - from = 0 /\ from - to = 0 /\ q = 0
      BY <1>2, <2>2, NotificationsAssumption
    <3>. QED  BY <3>1 DEF Fraction
  <2>. QED  BY <2>1, <2>2, NotificationsAssumption
<1>. HIDE DEF q
<1>4. q \in 0..MaxByte /\ from - q \in 0..MaxByte
  BY <1>1, <1>2, NotificationsAssumption
<1>5. CASE q = 0
  <2>1. Faded(from, to) = from
    BY <1>3, <1>5, ByteIsKept, NotificationsAssumption DEF Faded
  <2>. QED  BY <1>2, <1>5, <2>1, NotificationsAssumption
<1>6. CASE q > 0
  <2>1. /\ (MaxByte + 1) - q \in 0..MaxByte /\ -q + (MaxByte + 1) = (MaxByte + 1) - q
        /\ MaxByte + 1 \in Nat \ {0} /\ -q \in Int
    BY <1>4, <1>6, NotificationsAssumption
  <2>2. (-q) % (MaxByte + 1) = (MaxByte + 1) - q
    BY <1>4, <1>6, BelowZero
  <2>3. from + ((MaxByte + 1) - q) = (from - q) + (MaxByte + 1)
    BY <1>4, NotificationsAssumption
  <2>4. Faded(from, to) = from - q
    BY <1>3, <1>4, <2>2, <2>3, ByteIsKept DEF Faded
  <2>. QED  BY <1>1, <1>2, <1>4, <2>4, <1>6, NotificationsAssumption
<1>. QED  BY <1>4, <1>5, <1>6

\* There is no updater before start.
UpdaterWaits == main = "init" => updater = "none"

LEMMA WaitsForStart == Spec => []UpdaterWaits
<1>1. Init => UpdaterWaits
  BY DEF Init, UpdaterWaits
<1>2. TypeOK /\ UpdaterWaits /\ [Next]_vars => UpdaterWaits'
  <2>. SUFFICES ASSUME TypeOK, UpdaterWaits, [Next]_vars PROVE UpdaterWaits'
    OBVIOUS
  <2>. USE DEF UpdaterWaits, python, update
  <2>1. CASE Start \/ Stop \/ AtExit
    BY <2>1 DEF Start, Stop, AtExit
  <2>2. CASE Ends
    BY <2>2 DEF Ends, Join, JoinUndefined, Return
  <2>3. CASE Updater
    BY <2>3 DEF Updater, UpdaterChecks, UpdaterLocks, UpdaterCopies, UpdaterSkips, UpdaterSends
  <2>4. CASE Capturer
    BY <2>4 DEF Capturer, CapturerChecks, CapturerLocksKeyboard, CapturerLocksTarget, CapturerWrites
  <2>5. ASSUME NEW f \in Flashers, Flasher(f) \/ \E c \in Colors : FlashKeyboard(f, c)
        PROVE UpdaterWaits'
    BY <2>5 DEF Flasher, FlasherLocksKeyboard, FlasherMarks, FlasherUnlocks, FlasherWrites,
       FlasherClears, FlashKeyboard
  <2>6. CASE UNCHANGED vars
    BY <2>6 DEF vars
  <2>. QED  BY <2>1, <2>2, <2>3, <2>4, <2>5, <2>6 DEF Next
<1>. QED  BY <1>1, <1>2, NotificationsTypes, PTL DEF Spec

\* From any color, garbage included, the fade steps towards its target and
\* not past it, at any speed.
THEOREM FadeGoesToTarget == Spec => FadeApproaches
<1>1. TypeOK /\ UpdaterWaits /\ [Next]_vars =>
        [updater = "send" /\ updater' # "send" /\ ~target_override =>
            \A b \in Bytes :
                /\ previous[b] <= target[b] => previous'[b] \in previous[b]..target[b]
                /\ previous[b] >= target[b] => previous'[b] \in target[b]..previous[b]
                /\ Distance(previous, b) >= Speed => previous'[b] # previous[b]]_vars
  <2>. SUFFICES ASSUME TypeOK, UpdaterWaits, Next, updater = "send", updater' # "send", ~target_override, NEW b \in Bytes
                PROVE /\ previous[b] <= target[b] => previous'[b] \in previous[b]..target[b]
                      /\ previous[b] >= target[b] => previous'[b] \in target[b]..previous[b]
                      /\ Distance(previous, b) >= Speed => previous'[b] # previous[b]
    OBVIOUS
  <2>1. previous[b] \in 0..MaxByte /\ target[b] \in 0..MaxByte
    BY DEF TypeOK, ColorSpace
  <2>2. UpdaterSkips \/ UpdaterSends
    <3>1. ~(Start \/ Stop \/ AtExit \/ Ends)
      BY DEF Start, Stop, AtExit, Ends, Join, JoinUndefined, Return, update, UpdaterWaits
    <3>2. \A f \in Flashers : \A c \in Colors : ~FlashKeyboard(f, c)
      BY DEF FlashKeyboard, update
    <3>3. ~Capturer
      BY DEF Capturer, CapturerChecks, CapturerLocksKeyboard, CapturerLocksTarget, CapturerWrites,
         update
    <3>4. \A f \in Flashers : ~Flasher(f)
      BY DEF Flasher, FlasherLocksKeyboard, FlasherMarks, FlasherUnlocks, FlasherWrites,
         FlasherClears, update
    <3>5. Updater
      BY <3>1, <3>2, <3>3, <3>4 DEF Next
    <3>. QED
      BY <3>5 DEF Updater, UpdaterChecks, UpdaterLocks, UpdaterCopies
  <2>3. CASE UpdaterSkips
    <3>1. previous[b] = target[b] /\ previous'[b] = previous[b]
      BY <2>3 DEF UpdaterSkips
    <3>. QED  BY <2>1, <3>1, NotificationsAssumption DEF Distance
  <2>4. CASE UpdaterSends
    <3>1. previous'[b] = Faded(previous[b], target[b])
      BY <2>4 DEF UpdaterSends
    <3>. HIDE DEF Faded
    <3>2. CASE previous[b] < target[b]
      BY <2>1, <3>1, <3>2, FadedUp, NotificationsAssumption DEF Distance
    <3>3. CASE target[b] < previous[b]
      BY <2>1, <3>1, <3>3, FadedDown, NotificationsAssumption DEF Distance
    <3>4. CASE previous[b] = target[b]
      <4>1. previous[b] <= target[b]
        BY <2>1, <3>4, NotificationsAssumption
      <4>2. previous'[b] \in previous[b]..target[b]
        BY <2>1, <3>1, <4>1, FadedUp
      <4>3. Distance(previous, b) = 0
        BY <2>1, <3>4, NotificationsAssumption DEF Distance
      <4>. QED  BY <3>4, <4>2, <4>3, NotificationsAssumption
    <3>5. previous[b] < target[b] \/ target[b] < previous[b] \/ previous[b] = target[b]
      BY <2>1, NotificationsAssumption
    <3>. QED  BY <3>2, <3>3, <3>4, <3>5
  <2>. QED  BY <2>2, <2>3, <2>4
<1>. QED  BY <1>1, NotificationsTypes, WaitsForStart, PTL DEF Spec, FadeApproaches
=============================================================================
