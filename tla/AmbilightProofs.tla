---------------------------- MODULE AmbilightProofs ----------------------------
(***************************************************************************)
(* Theorems about Ambilight, for every screen, every rate of the fade and  *)
(* every number of signals: its types, that the target is read whole, that *)
(* the keyboard shows every step of the fade, and that it is given back    *)
(* under threads that have ended.                                          *)
(***************************************************************************)
EXTENDS Ambilight, TLAPS

-----------------------------------------------------------------------------
(* The fade *)

LEMMA FadedIsByte ==
    ASSUME NEW from \in 0..MaxByte, NEW to \in 0..MaxByte PROVE Faded(from, to) \in 0..MaxByte
<1>1. Fraction(to - from) \in Int
  BY ScreenAssumption, AmbilightAssumption DEF Fraction
<1>2. Fraction(to - from) % (MaxByte + 1) \in 0..MaxByte
  BY <1>1, ScreenAssumption
<1>. QED  BY <1>2, ScreenAssumption DEF Faded

\* At its target the fade stays.
LEMMA FadedStays == ASSUME NEW n \in 0..MaxByte PROVE Faded(n, n) = n
<1>1. Fraction(n - n) = 0
  BY ScreenAssumption, AmbilightAssumption DEF Fraction
<1>2. 0 % (MaxByte + 1) = 0 /\ n % (MaxByte + 1) = n
  BY ScreenAssumption
<1>. QED  BY <1>1, <1>2, ScreenAssumption DEF Faded

LEMMA NewColorIsColor ==
    ASSUME color \in ColorSpace, target_color \in ColorSpace
    PROVE NewColor \in ColorSpace /\ (Equal => NewColor = color)
<1>1. \A b \in Bytes : color[b] \in 0..MaxByte /\ target_color[b] \in 0..MaxByte
  BY DEF ColorSpace
<1>2. NewColor \in ColorSpace
  BY <1>1, FadedIsByte DEF NewColor, ColorSpace
<1>3. ASSUME Equal PROVE NewColor = color
  <2>1. \A b \in Bytes : NewColor[b] = color[b]
    BY <1>1, <1>3, FadedStays DEF NewColor, Equal
  <2>. QED  BY <1>2, <2>1 DEF NewColor, ColorSpace
<1>. QED  BY <1>2, <1>3

LEMMA BlackIsColor == Black \in ColorSpace
  BY ScreenAssumption DEF Black, ColorSpace

-----------------------------------------------------------------------------
(* The invariant *)

\* Every thread is at places of its own, and main passes a join of a thread
\* that has ended.
PlaceOK ==
    /\ pc["main"] \in {"init", "join screenshot", "join keyboard", "close", "ended"}
    /\ pc["screenshot"] \in {"none", "check", "look", "capture", "target", "write", "ended"}
    /\ pc["keyboard"] \in {"none", "check", "look", "fade", "send", "sleep", "ended"}
    /\ pc["main"] = "init" => pc["screenshot"] = "none" /\ pc["keyboard"] = "none"
    /\ pc["main"] \in {"join keyboard", "close"} => pc["screenshot"] = "ended"
    /\ pc["main"] = "close" => pc["keyboard"] = "ended"

\* The writer holds the lock of the target and has copied the bytes before
\* the next one; whoever finds the lock free finds a whole color.
TargetOK ==
    /\ target_color_lock = "screenshot" <=> pc["screenshot"] = "write"
    /\ pc["screenshot"] \in {"target", "write"} => average \in Colors
    /\ pc["screenshot"] = "write" =>
           \A b \in Bytes : b < written => target_color[b] = average[b]
    /\ pc["screenshot"] # "write" => target_color \in Colors \cup {Black}

IInv == TypeOK /\ PlaceOK /\ TargetOK /\ KeyboardFollows

LEMMA InitInvariant == ASSUME Init PROVE IInv
<1>1. TypeOK
  <2>1. pc \in [Threads -> Places] /\ handler \in [Threads -> {"none", "lock", "unlock"}]
    BY DEF Init, Places
  <2>2. signals \in 0..MaxSignals /\ written \in Bytes /\ shown \in SUBSET ColorSpace
    BY AmbilightAssumption DEF Init, Bytes
  <2>. QED  BY <2>1, <2>2, BlackIsColor DEF Init, TypeOK
<1>. QED  BY <1>1 DEF Init, IInv, PlaceOK, TargetOK, KeyboardFollows, Threads

-----------------------------------------------------------------------------
(* Typing and places *)

\* Where pc goes: the place of one thread changes, and Setup starts both.
LEMMA GoesIsTyped ==
    ASSUME pc \in [Threads -> Places], NEW t \in Threads, NEW place \in Places, Goes(t, place)
    PROVE /\ pc' \in [Threads -> Places] /\ pc'[t] = place
          /\ \A u \in Threads : u # t => pc'[u] = pc[u]
  BY DEF Goes

LEMMA MainTypes == ASSUME TypeOK, PlaceOK, Main PROVE TypeOK' /\ PlaceOK'
<1>. USE DEF At, Alive
<1>1. CASE Setup
  <2>1. UNCHANGED <<handler, signals, flags, target, capture, update, shown, failed>>
    BY <1>1 DEF Setup
  <2>2. control' \in BOOLEAN
    BY <1>1 DEF Setup, TypeOK
  <2>3. pc' \in [Threads -> Places] /\ PlaceOK'
    <3>1. CASE pc' = [t \in Threads |-> IF t = "main" THEN "join screenshot" ELSE "check"]
      BY <3>1 DEF PlaceOK, Threads, Places
    <3>2. CASE Goes("main", "ended") /\ pc["main"] = "init"
      <4>1. pc \in [Threads -> Places] /\ "main" \in Threads /\ "ended" \in Places
        BY DEF TypeOK, Threads, Places
      <4>2. /\ pc' \in [Threads -> Places] /\ pc'["main"] = "ended"
            /\ pc'["screenshot"] = pc["screenshot"] /\ pc'["keyboard"] = pc["keyboard"]
        BY <3>2, <4>1 DEF Goes, Threads
      <4>. QED  BY <3>2, <4>2 DEF PlaceOK
    <3>. QED  BY <1>1, <3>1, <3>2 DEF Setup
  <2>. QED  BY <2>1, <2>2, <2>3 DEF TypeOK, flags, target, capture, update
<1>2. CASE Join
  <2>1. UNCHANGED <<handler, signals, flags, target, capture, update, keyboard>>
    BY <1>2 DEF Join
  <2>2. pc' \in [Threads -> Places] /\ PlaceOK'
    <3>1. PICK t \in Loops : pc["main"] = JoinOf(t) /\ pc[t] = "ended" /\ Goes("main", AfterJoin(t))
      BY <1>2 DEF Join
    <3>2. \/ t = "screenshot" /\ pc["main"] = "join screenshot" /\ Goes("main", "join keyboard")
          \/ t = "keyboard" /\ pc["main"] = "join keyboard" /\ Goes("main", "close")
      BY <3>1 DEF Loops, Threads, JoinOf, AfterJoin
    <3>. QED  BY <3>1, <3>2, GoesIsTyped DEF TypeOK, PlaceOK, Threads, Places
  <2>. QED  BY <2>1, <2>2 DEF TypeOK, flags, target, capture, update, keyboard
<1>3. CASE Close
  <2>1. UNCHANGED <<handler, signals, flags, target, capture, update, shown, failed>>
    BY <1>3 DEF Close
  <2>2. control' \in BOOLEAN
    BY <1>3 DEF Close, TypeOK
  <2>3. pc' \in [Threads -> Places] /\ PlaceOK'
    BY <1>3 DEF Close, TypeOK, PlaceOK, Threads, Places, Goes
  <2>. QED  BY <2>1, <2>2, <2>3 DEF TypeOK, flags, target, capture, update
<1>. QED  BY <1>1, <1>2, <1>3 DEF Main

LEMMA HandlerTypes ==
    ASSUME TypeOK, PlaceOK, NEW t \in Threads,
           Interrupt(t) \/ HandlerLocks(t) \/ HandlerUnlocks(t)
    PROVE TypeOK' /\ PlaceOK'
<1>1. UNCHANGED <<target, capture, update, keyboard>>
  BY DEF Interrupt, HandlerLocks, HandlerUnlocks
<1>2. handler' \in [Threads -> {"none", "lock", "unlock"}] /\ signals' \in 0..MaxSignals
  BY AmbilightAssumption DEF Interrupt, HandlerLocks, HandlerUnlocks, TypeOK
<1>3. exit_requested' \in BOOLEAN /\ exit_req_lock' \in Threads \cup {"free"}
  BY DEF Interrupt, HandlerLocks, HandlerUnlocks, HandlerUnlocked, TypeOK, flags
<1>4. pc' = pc \/ (pc[t] = "sleep" /\ pc' = [pc EXCEPT ![t] = "check"])
  BY DEF Interrupt, HandlerLocks, HandlerUnlocks
<1>5. pc' \in [Threads -> Places] /\ PlaceOK'
  BY <1>4 DEF TypeOK, PlaceOK, Threads, Places
<1>. QED  BY <1>1, <1>2, <1>3, <1>5 DEF TypeOK, target, capture, update, keyboard

LEMMA LoopTypes ==
    ASSUME TypeOK, PlaceOK, NEW t \in Loops, Checks(t) \/ Looks(t)
    PROVE TypeOK' /\ PlaceOK'
<1>1. UNCHANGED <<handler, signals, exit_requested, target, capture, update, keyboard>>
  BY DEF Checks, Looks
<1>2. exit_req_lock' \in Threads \cup {"free"}
  BY DEF Checks, Looks, Loops
<1>3. pc' \in [Threads -> Places] /\ PlaceOK'
  <2>1. pc[t] \in {"check", "look"}
    BY DEF Checks, Looks, At
  <2>2. \/ Goes(t, "look") \/ Goes(t, "ended")
        \/ t = "screenshot" /\ Goes(t, "capture")
        \/ t = "keyboard" /\ Goes(t, "fade")
    BY DEF Checks, Looks, Loops, Threads
  <2>3. PICK place \in Places :
          /\ Goes(t, place)
          /\ \/ place \in {"look", "ended"}
             \/ t = "screenshot" /\ place = "capture"
             \/ t = "keyboard" /\ place = "fade"
    BY <2>2 DEF Places
  <2>4. t \in Threads /\ pc \in [Threads -> Places]
    BY DEF Loops, Threads, TypeOK
  <2>5. /\ pc' \in [Threads -> Places] /\ pc'[t] = place
        /\ \A u \in Threads : u # t => pc'[u] = pc[u]
    BY <2>3, <2>4, GoesIsTyped
  <2>6. CASE t = "screenshot"
    BY <2>1, <2>3, <2>5, <2>6 DEF PlaceOK, Threads
  <2>7. CASE t = "keyboard"
    BY <2>1, <2>3, <2>5, <2>7 DEF PlaceOK, Threads
  <2>8. t = "screenshot" \/ t = "keyboard"
    BY DEF Loops, Threads
  <2>. QED  BY <2>5, <2>6, <2>7, <2>8
<1>. QED  BY <1>1, <1>2, <1>3 DEF TypeOK, target, capture, update, keyboard

LEMMA ScreenshotTypes ==
    ASSUME TypeOK, PlaceOK, Captures \/ LocksTarget \/ Writes
    PROVE TypeOK' /\ PlaceOK'
<1>1. UNCHANGED <<handler, signals, flags, update, keyboard>>
  BY DEF Captures, LocksTarget, Writes
<1>2. average' \in ColorSpace
  BY AmbilightAssumption DEF Captures, LocksTarget, Writes, TypeOK, capture
<1>3. target_color' \in ColorSpace
  BY DEF Captures, LocksTarget, Writes, TypeOK, target, ColorSpace
<1>4. written' \in Bytes
  BY DEF Captures, LocksTarget, Writes, TypeOK, capture, Bytes
<1>5. target_color_lock' \in {"free", "screenshot"}
  BY DEF Captures, LocksTarget, Writes, TypeOK, target
<1>6. pc' \in [Threads -> Places] /\ PlaceOK'
  <2>1. pc["screenshot"] \in {"capture", "target", "write"}
    BY DEF Captures, LocksTarget, Writes, At
  <2>2. \/ pc' = pc \/ Goes("screenshot", "check")
        \/ Goes("screenshot", "target") \/ Goes("screenshot", "write")
    BY DEF Captures, LocksTarget, Writes
  <2>. QED  BY <2>1, <2>2, GoesIsTyped DEF TypeOK, PlaceOK, Threads, Places
<1>. QED  BY <1>1, <1>2, <1>3, <1>4, <1>5, <1>6 DEF TypeOK, flags, update, keyboard

LEMMA KeyboardTypes ==
    ASSUME TypeOK, PlaceOK, Fades \/ Sends \/ Wakes
    PROVE TypeOK' /\ PlaceOK'
<1>1. UNCHANGED <<handler, signals, flags, target, capture, control>>
  BY DEF Fades, Sends, Wakes, keyboard
<1>2. color' \in ColorSpace
  BY NewColorIsColor DEF Fades, Sends, Wakes, TypeOK, update
<1>3. shown' \in SUBSET ColorSpace
  BY DEF Fades, Sends, Wakes, TypeOK, keyboard
<1>4. failed' \in BOOLEAN /\ long' \in BOOLEAN
  BY DEF Fades, Sends, Wakes, TypeOK, keyboard, update
<1>5. pc' \in [Threads -> Places] /\ PlaceOK'
  <2>1. /\ pc["keyboard"] \in {"fade", "send", "sleep"}
        /\ \E place \in {"check", "send", "sleep"} : Goes("keyboard", place)
    BY DEF Fades, Sends, Wakes, At
  <2>. QED  BY <2>1, GoesIsTyped DEF TypeOK, PlaceOK, Threads, Places
<1>. QED  BY <1>1, <1>2, <1>3, <1>4, <1>5 DEF TypeOK, flags, target, capture

-----------------------------------------------------------------------------
(* The target and what the keyboard shows *)

\* Steps that write neither the target nor the average.
LEMMA TargetStays ==
    ASSUME IInv, UNCHANGED <<target, capture>>,
           pc'["screenshot"] = pc["screenshot"]
             \/ {pc["screenshot"], pc'["screenshot"]} \cap {"target", "write"} = {}
    PROVE TargetOK'
<1>. QED  BY DEF IInv, TargetOK, target, capture

\* Steps that write neither the color nor what is shown.
LEMMA FollowStays ==
    ASSUME IInv, UNCHANGED <<color, keyboard>>,
           pc["keyboard"] = "send" => pc'["keyboard"] = "send"
    PROVE KeyboardFollows'
<1>. QED  BY DEF IInv, KeyboardFollows, keyboard

LEMMA MainKeeps ==
    ASSUME IInv, Main PROVE TargetOK' /\ KeyboardFollows'
<1>. USE DEF IInv, PlaceOK, Threads, At, Goes, Alive
<1>1. TargetOK'
  <2>1. CASE Setup
    BY <2>1, TargetStays DEF Setup, TypeOK
  <2>2. CASE Join
    BY <2>2, TargetStays DEF Join, TypeOK
  <2>3. CASE Close
    BY <2>3, TargetStays DEF Close, TypeOK
  <2>. QED  BY <2>1, <2>2, <2>3 DEF Main
<1>2. KeyboardFollows'
  BY DEF KeyboardFollows, Main, Setup, Join, Close, update, keyboard, TypeOK
<1>. QED  BY <1>1, <1>2

LEMMA HandlerKeeps ==
    ASSUME IInv, NEW t \in Threads, Interrupt(t) \/ HandlerLocks(t) \/ HandlerUnlocks(t)
    PROVE TargetOK' /\ KeyboardFollows'
<1>1. UNCHANGED <<target, capture, color, keyboard>>
  BY DEF Interrupt, HandlerLocks, HandlerUnlocks, update
<1>2. pc'["screenshot"] = pc["screenshot"] /\ (pc["keyboard"] = "send" => pc'["keyboard"] = "send")
  BY DEF Interrupt, HandlerLocks, HandlerUnlocks, IInv, TypeOK, PlaceOK, Threads
<1>. QED  BY <1>1, <1>2, TargetStays, FollowStays

LEMMA LoopKeeps ==
    ASSUME IInv, NEW t \in Loops, Checks(t) \/ Looks(t)
    PROVE TargetOK' /\ KeyboardFollows'
<1>. USE DEF At, Goes, IInv, PlaceOK, Threads, Loops
<1>1. UNCHANGED <<target, capture, color, keyboard>>
  BY DEF Checks, Looks, update
<1>2. pc["keyboard"] = "send" => pc'["keyboard"] = "send"
  BY DEF Checks, Looks, TypeOK
<1>3. \/ pc'["screenshot"] = pc["screenshot"]
      \/ {pc["screenshot"], pc'["screenshot"]} \cap {"target", "write"} = {}
  BY DEF Checks, Looks, TypeOK
<1>. QED  BY <1>1, <1>2, <1>3, TargetStays, FollowStays

LEMMA ScreenshotKeeps ==
    ASSUME IInv, Captures \/ LocksTarget \/ Writes
    PROVE TargetOK' /\ KeyboardFollows'
<1>1. TargetOK'
  <2>. /\ TypeOK /\ TargetOK /\ "screenshot" \in Threads
    BY DEF IInv, Threads
  <2>1. CASE Captures
    <3>1. pc["screenshot"] = "capture" /\ pc'["screenshot"] = "target"
      BY <2>1, GoesIsTyped DEF Captures, At, TypeOK, Places
    <3>2. average' \in Colors /\ UNCHANGED target
      BY <2>1 DEF Captures, target
    <3>. QED  BY <3>1, <3>2 DEF TargetOK, target
  <2>2. CASE LocksTarget
    <3>1. pc["screenshot"] = "target" /\ pc'["screenshot"] = "write"
      BY <2>2, GoesIsTyped DEF LocksTarget, At, TypeOK, Places
    <3>2. target_color_lock' = "screenshot" /\ written' = 1 /\ UNCHANGED average
      BY <2>2 DEF LocksTarget
    <3>. QED  BY <3>1, <3>2 DEF TargetOK, Bytes
  <2>3. CASE Writes
    <3>1. /\ average \in Colors /\ average \in ColorSpace /\ target_color \in ColorSpace
          /\ \A b \in Bytes : b < written => target_color[b] = average[b]
      BY <2>3 DEF Writes, At, TargetOK, TypeOK
    <3>2. written \in Bytes /\ UNCHANGED average
      BY <2>3 DEF Writes, TypeOK
    <3>3. target_color' = [target_color EXCEPT ![written] = average[written]]
      BY <2>3 DEF Writes
    <3>4. target_color' \in ColorSpace
      BY <3>1, <3>2, <3>3 DEF ColorSpace
    <3>5. ASSUME NEW b \in Bytes, b < written + 1 PROVE target_color'[b] = average[b]
      <4>1. b = written \/ b < written
        BY <3>2, <3>5 DEF Bytes
      <4>. QED  BY <3>1, <3>2, <3>3, <4>1 DEF ColorSpace
    <3>6. CASE written < 3
      <4>1. written' = written + 1 /\ UNCHANGED <<pc, target_color_lock>>
        BY <2>3, <3>6 DEF Writes
      <4>2. pc["screenshot"] = "write"
        BY <2>3 DEF Writes, At
      <4>. QED  BY <3>1, <3>2, <3>5, <4>1, <4>2 DEF TargetOK
    <3>7. CASE ~(written < 3)
      <4>1. \A b \in Bytes : b < written + 1
        BY <3>2, <3>7 DEF Bytes
      <4>2. target_color' = average
        BY <3>1, <3>4, <3>5, <4>1 DEF ColorSpace
      <4>3. Goes("screenshot", "check") /\ target_color_lock' = "free"
        BY <2>3, <3>7 DEF Writes
      <4>4. pc'["screenshot"] = "check"
        BY <4>3, GoesIsTyped DEF TypeOK, Places
      <4>. QED  BY <3>1, <4>2, <4>3, <4>4 DEF TargetOK
    <3>. QED  BY <3>6, <3>7
  <2>. QED  BY <2>1, <2>2, <2>3
<1>2. KeyboardFollows'
  BY FollowStays DEF Captures, LocksTarget, Writes, Goes, update, TypeOK, IInv, Threads
<1>. QED  BY <1>1, <1>2

LEMMA KeyboardKeeps ==
    ASSUME IInv, Fades \/ Sends \/ Wakes
    PROVE TargetOK' /\ KeyboardFollows'
<1>. USE DEF At, Goes, IInv, PlaceOK, Threads
<1>1. TargetOK'
  BY TargetStays DEF Fades, Sends, Wakes, TypeOK
<1>2. KeyboardFollows'
  <2>1. CASE Fades
    BY <2>1, NewColorIsColor DEF Fades, KeyboardFollows, TypeOK, keyboard
  <2>2. CASE Sends
    BY <2>2 DEF Sends, KeyboardFollows
  <2>3. CASE Wakes
    BY <2>3, FollowStays DEF Wakes, update
  <2>. QED  BY <2>1, <2>2, <2>3
<1>. QED  BY <1>1, <1>2

LEMMA StepInvariant == ASSUME IInv, [Next]_vars PROVE IInv'
<1>1. CASE Main
  BY <1>1, MainTypes, MainKeeps DEF IInv
<1>2. ASSUME NEW t \in Loops, Loop(t) PROVE IInv'
  <2>1. CASE Checks(t) \/ Looks(t)
    BY <2>1, LoopTypes, LoopKeeps DEF IInv
  <2>2. CASE Captures \/ LocksTarget \/ Writes
    BY <2>2, ScreenshotTypes, ScreenshotKeeps DEF IInv
  <2>3. CASE Fades \/ Sends \/ Wakes
    BY <2>3, KeyboardTypes, KeyboardKeeps DEF IInv
  <2>. QED  BY <1>2, <2>1, <2>2, <2>3 DEF Loop
<1>3. ASSUME NEW t \in Threads, Interrupt(t) \/ HandlerLocks(t) \/ HandlerUnlocks(t)
      PROVE IInv'
  BY <1>3, HandlerTypes, HandlerKeeps DEF IInv
<1>4. CASE UNCHANGED vars
  <2>. USE DEF vars, flags, target, capture, update, keyboard, IInv
  <2>1. TypeOK' /\ PlaceOK'
    <3>1. TypeOK'
      BY <1>4 DEF TypeOK
    <3>2. PlaceOK'
      BY <1>4 DEF PlaceOK
    <3>. QED  BY <3>1, <3>2
  <2>2. TargetOK'
    BY <1>4, TargetStays
  <2>3. KeyboardFollows'
    BY <1>4, FollowStays
  <2>. QED  BY <2>1, <2>2, <2>3
<1>. QED  BY <1>1, <1>2, <1>3, <1>4 DEF Next

LEMMA Invariant == Spec => []IInv
<1>. QED  BY InitInvariant, StepInvariant, PTL DEF Spec

-----------------------------------------------------------------------------
(* The brightness of a dominant color *)

\* The brightest of three bytes is one of them.
LEMMA BrightestIsAByte ==
    ASSUME NEW rgb \in [Bytes -> Int]
    PROVE /\ \E b \in Bytes : Brightest(rgb) = rgb[b]
          /\ \A b \in Bytes : Brightest(rgb) >= rgb[b]
<1>. DEFINE all == {rgb[b] : b \in Bytes}
<1>1. rgb[1] \in Int /\ rgb[2] \in Int /\ rgb[3] \in Int
  BY DEF Bytes
<1>2. all = {rgb[1], rgb[2], rgb[3]}
  BY DEF Bytes
<1>3. \E x \in all : \A y \in all : x >= y
  BY <1>1, <1>2
<1>. HIDE DEF all
<1>4. Max(all) \in all /\ \A y \in all : Max(all) >= y
  BY <1>3 DEF Max
<1>. QED  BY <1>4 DEF all, Brightest

\* The largest byte is scaled to MaxByte, or to the one below it.
LEMMA BrightestIsScaled ==
    ASSUME NEW n \in Nat \ {0}, NEW scaled \in Scalings(n, n)
    PROVE scaled \in {MaxByte, MaxByte - 1}
<1>1. (n * MaxByte) \div n = MaxByte
  BY ScreenAssumption
<1>. QED  BY <1>1 DEF Scalings

LEMMA NormalisedIsBright ==
    ASSUME NEW rgb \in ColorSpace \ {Black}, NEW c \in Normalised(rgb)
    PROVE Brightest(c) >= MaxByte - 1
<1>. DEFINE max == Brightest(rgb)
<1>1. rgb \in [Bytes -> Int] /\ \A b \in Bytes : rgb[b] \in Nat
  BY ScreenAssumption DEF ColorSpace
<1>2. PICK b \in Bytes : max = rgb[b]
  BY <1>1, BrightestIsAByte
<1>3. max \in Nat \ {0}
  <2>1. PICK d \in Bytes : rgb[d] # 0
    BY DEF ColorSpace, Black
  <2>. QED  BY <1>1, <1>2, <2>1, BrightestIsAByte
<1>. HIDE DEF max
<1>4. /\ c \in [Bytes -> UNION {Scalings(rgb[d], max) : d \in Bytes}]
      /\ \A d \in Bytes : c[d] \in Scalings(rgb[d], max)
  BY <1>3 DEF Normalised, max
<1>5. c[b] \in {MaxByte, MaxByte - 1}
  BY <1>2, <1>3, <1>4, BrightestIsScaled
<1>6. ASSUME NEW d \in Bytes PROVE c[d] \in Int
  <2>1. (rgb[d] * MaxByte) \div max \in Int
    BY <1>1, <1>3, ScreenAssumption
  <2>. QED  BY <1>4, <2>1 DEF Scalings
<1>7. c \in [Bytes -> Int]
  BY <1>4, <1>6
<1>. QED  BY <1>5, <1>7, BrightestIsAByte, ScreenAssumption

LEMMA DominantsAreBright ==
    ASSUME NEW screens, ColorsAreSeen(screens), AveragesAreColors(screens), NEW c \in Colors
    PROVE Brightest(c) >= MaxByte - 1
<1>1. PICK screen \in screens : c \in Dominant(screen)
  BY DEF ColorsAreSeen
<1>. DEFINE pixels == {p \in Looked : Counts(screen[p], Saturation(screen[p]))}
<1>2. CASE pixels = {}
  <2>1. c = White
    BY <1>1, <1>2 DEF Dominant, DominantOf
  <2>2. White \in [Bytes -> Int] /\ White[1] = MaxByte
    BY ScreenAssumption DEF White, Bytes
  <2>3. Brightest(White) \in Int /\ Brightest(White) >= White[1]
    BY <2>2, BrightestIsAByte DEF Bytes
  <2>. QED  BY <2>1, <2>2, <2>3, ScreenAssumption
<1>3. CASE pixels # {}
  <2>1. Average(screen, pixels) \in ColorSpace \ {Black}
    BY <1>3 DEF AveragesAreColors
  <2>2. c \in Normalised(Average(screen, pixels))
    BY <1>1, <1>3 DEF Dominant, DominantOf
  <2>. QED  BY <2>1, <2>2, NormalisedIsBright
<1>. QED  BY <1>2, <1>3

-----------------------------------------------------------------------------
(* Theorems *)

\* The variables keep their types: the fade never leaves the bytes, whichever
\* way a negative difference is converted (line 200).
THEOREM TypesHold == Spec => []TypeOK
<1>. QED  BY Invariant, PTL DEF IInv

\* The keyboard is given back under threads that have ended (lines 246-253).
THEOREM KeyboardIsGivenBackQuietly == Spec => []KeyboardIsQuiet
<1>1. IInv => KeyboardIsQuiet
  BY DEF IInv, PlaceOK, KeyboardIsQuiet, Loops, Threads
<1>. QED  BY Invariant, <1>1, PTL

\* No step of the fade is left out (lines 205-212).
THEOREM FadeIsShown == Spec => []KeyboardFollows
<1>. QED  BY Invariant, PTL DEF IInv

\* The fade reads the target of one screenshot (lines 170-174, 196-203).
THEOREM TargetIsReadWhole == Spec => TargetIsWhole
<1>1. ASSUME IInv, [Next]_vars PROVE color' # color => target_color \in Colors \cup {Black}
  <2>. SUFFICES ASSUME color' # color PROVE target_color \in Colors \cup {Black}
    OBVIOUS
  <2>1. Fades
    BY <1>1 DEF Next, vars, Main, Setup, Join, Close, Loop, Checks, Looks, Captures,
                LocksTarget, Writes, Sends, Wakes, Interrupt, HandlerLocks, HandlerUnlocks, update
  <2>2. pc["screenshot"] # "write"
    BY <1>1, <2>1 DEF Fades, TargetFree, IInv, TargetOK
  <2>. QED  BY <1>1, <2>2 DEF IInv, TargetOK
<1>. QED  BY Invariant, <1>1, PTL DEF Spec, TargetIsWhole

(***************************************************************************)
(* A color on its way to the keyboard has a byte of full brightness, or    *)
(* one below it, however dark the pixels of the screen are on the average  *)
(* (lines 152-168): if the colors come from screens whose counted pixels   *)
(* do not average to black.                                                *)
(***************************************************************************)
THEOREM BrightnessIsKept ==
    ASSUME NEW screens, ColorsAreSeen(screens), AveragesAreColors(screens)
    PROVE  Spec => []DominantIsBright
<1>1. IInv => DominantIsBright
  BY DominantsAreBright DEF IInv, TargetOK, DominantIsBright
<1>. QED  BY Invariant, <1>1, PTL
=============================================================================
