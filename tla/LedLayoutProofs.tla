---------------------------- MODULE LedLayoutProofs ----------------------------
(***************************************************************************)
(* Theorems about LedLayout: its types, and the colors that keys have      *)
(* after a call and half way through one, for every painting, number of    *)
(* calls and byte before the tables.                                       *)
(***************************************************************************)
EXTENDS LedLayout, WellFoundedInduction, TLAPS

USE DEF LIBMK_MAX_ROWS, LIBMK_MAX_COLS, LIBMK_ALL_LED_PCK_NUM, LIBMK_ALL_LED_PER_PCK,
        LAYOUT_ANSI, LAYOUT_ISO, LIBMK_EFFECT_CTRL, LIBMK_CUSTOM_CTRL, LIBMK_EFF_CUSTOM

Packets == DOMAIN NoPackets
Places == 0..LIBMK_ALL_LED_PER_PCK - 1

-----------------------------------------------------------------------------
(* Keys and places *)

LEMMA PacketNumbers == Packets = 0..7 /\ Places = 0..15
BY DEF Packets, Places, NoPackets

\* Of several keys, one comes last in the order of the table.
LEMMA LastExists ==
    ASSUME NEW keys \in SUBSET Keys, keys # {}
    PROVE LastOf(keys) \in keys
<1> DEFINE index(key) == key[1] * LIBMK_MAX_COLS + key[2]
           rank(key) == 200 - index(key)
           T == {rank(key) : key \in keys}
<1>1. \A key \in keys : index(key) \in 0..200 /\ rank(key) \in Nat
  BY DEF Keys
<1>2. T \subseteq Nat /\ T # {}
  BY <1>1
<1>3. PICK x \in T : \A y \in T : ~(<<y, x>> \in OpToRel(<, Nat))
  <2> HIDE DEF T
  <2>. QED  BY <1>2, NatLessThanWellFounded, WFMin
<1>4. \A y \in T : y >= x
  <2> SUFFICES ASSUME NEW y \in T PROVE y >= x
    OBVIOUS
  <2>1. y \in Nat /\ x \in Nat
    BY <1>2
  <2>2. ~(y < x)
    <3> HIDE DEF T
    <3>. QED  BY <1>3, <2>1 DEF OpToRel
  <2>. QED  BY <2>1, <2>2
<1>5. PICK key \in keys : x = rank(key)
  OBVIOUS
<1>6. \A other \in keys : index(key) >= index(other)
  <2> SUFFICES ASSUME NEW other \in keys PROVE index(key) >= index(other)
    OBVIOUS
  <2>1. rank(other) >= rank(key)
    BY <1>4, <1>5
  <2>2. index(key) \in Int /\ index(other) \in Int
    BY <1>1
  <2>3. \A m, n \in Int : 200 - m >= 200 - n => n >= m
    OBVIOUS
  <2>. QED  BY <2>1, <2>2, <2>3
<1>. QED  BY <1>6 DEF LastOf

LEMMA LastOfOne == ASSUME NEW key \in Keys PROVE LastOf({key}) = key
<1>1. {key} \in SUBSET Keys /\ {key} # {}
  OBVIOUS
<1>. QED  BY <1>1, LastExists

\* A LED is the only one in its place.
LEMMA SlotIsUnique ==
    ASSUME NEW a \in Leds, NEW b \in Leds, Slot(a) = Slot(b)
    PROVE a = b
<1>1. a \div 16 = b \div 16 /\ a % 16 = b % 16 /\ a \in Nat /\ b \in Nat
  BY DEF Slot, Leds
<1>. QED  BY <1>1

LEMMA SlotInRange ==
    ASSUME NEW a \in Leds
    PROVE a \div 16 \in Packets /\ a % 16 \in Places
<1>1. a \in 0..127
  BY DEF Leds
<1>. QED  BY <1>1, PacketNumbers

\* Only the table of the ANSI keyboard gives the address of a LED.
LEMMA AddressedIsAnsi ==
    ASSUME TypeOK, NEW key \in Addressed
    PROVE /\ layout = LIBMK_LAYOUT_ANSI /\ key \in Keys /\ LedOf(key) \in Leds
          /\ \A stray : Address(layout, key, stray) = LedOf(key)
<1>1. key \in Keys /\ LedOf(key) \in Leds /\ layout \in {0, 1}
  BY DEF Addressed, IsKnown
<1>2. layout # 0
  <2>1. NoLed \notin Leds
    BY DEF NoLed, Leds
  <2>. QED  BY <1>1, <2>1 DEF LedOf, Address
<1>. QED  BY <1>1, <1>2 DEF LIBMK_LAYOUT_ANSI, LedOf, Address

\* A key of the table has the place of its LED to itself.
LEMMA HoldersOfLed ==
    ASSUME TypeOK, DistinctAddresses, NEW key \in Addressed, NEW stray
    PROVE Holders(LedOf(key) \div 16, LedOf(key) % 16, stray) = {key}
<1>1. /\ layout = LIBMK_LAYOUT_ANSI /\ key \in Keys /\ LedOf(key) \in Leds
      /\ Address(layout, key, stray) = LedOf(key)
  BY AddressedIsAnsi
<1>2. key \in Holders(LedOf(key) \div 16, LedOf(key) % 16, stray)
  BY <1>1 DEF Holders, Slot
<1>3. ASSUME NEW other \in Holders(LedOf(key) \div 16, LedOf(key) % 16, stray)
      PROVE other = key
  <2>1. /\ other \in Keys /\ Address(layout, other, stray) \in Leds
        /\ Slot(Address(layout, other, stray)) = Slot(LedOf(key))
    BY DEF Holders, Slot
  <2>2. Address(layout, other, stray) = LedOf(key)
    BY <1>1, <2>1, SlotIsUnique
  <2>3. Address(layout, other, stray) = Address(layout, other, NoLed)
    BY <1>1 DEF Address, LIBMK_LAYOUT_ANSI
  <2>. QED  BY <1>1, <2>1, <2>2, <2>3 DEF DistinctAddresses, LedOf
<1>. QED  BY <1>2, <1>3

LEMMA FilledType ==
    ASSUME NEW painting \in [Keys -> Colors], NEW stray
    PROVE Filled(painting, stray) \in [Packets -> [Places -> Colors]]
<1>1. ASSUME NEW p \in Packets, NEW i \in Places, Holders(p, i, stray) # {}
      PROVE painting[LastOf(Holders(p, i, stray))] \in Colors
  <2>1. Holders(p, i, stray) \in SUBSET Keys
    BY DEF Holders
  <2>. QED  BY <1>1, <2>1, LastExists
<1>. QED  BY <1>1, LayoutConstants DEF Filled, Packets, Places

-----------------------------------------------------------------------------
(* Typing *)

LEMMA OnlyType ==
    ASSUME NEW key \in Keys, NEW color \in Colors
    PROVE Only(key, color) \in [Keys -> Colors] /\ AllOf(color) \in [Keys -> Colors]
BY LayoutConstants DEF Only, AllOf

\* What set_effect leaves of the keyboard's mode and effect.
LEMMA EffectFacts ==
    ASSUME TypeOK, NEW failed, SetEffect(LIBMK_EFF_CUSTOM, failed)
    PROVE /\ mode' \in {LIBMK_EFFECT_CTRL, LIBMK_CUSTOM_CTRL} /\ effect' \in Effects
          /\ ~failed => effect' = LIBMK_EFF_CUSTOM
BY DEF SetEffect, shown, TypeOK, Effects

\* The LEDs after the next packet have colors.
LEMMA WithPacketType ==
    ASSUME TypeOK, k < LIBMK_ALL_LED_PCK_NUM
    PROVE WithPacket \in [Leds -> Colors]
<1>1. packets \in [Packets -> [Places -> Colors]] /\ k \in 0..8 /\ leds \in [Leds -> Colors]
  BY DEF TypeOK, Packets, Places
<1>2. k \in Packets
  BY <1>1, PacketNumbers
<1>3. packets[k] \in [Places -> Colors]
  BY <1>1, <1>2
<1>4. \A a \in Leds : packets[k][a % 16] \in Colors
  BY <1>3, SlotInRange
<1>. QED  BY <1>1, <1>4 DEF WithPacket

LEMMA SingleLedType ==
    ASSUME NEW address, NEW color \in Colors
    PROVE SingleLed(address, color) \in [Leds -> Colors]
BY LayoutConstants DEF SingleLed

\* The variables keep their types, whatever the tables hold.
LEMMA TypeStep == TypeOK /\ [Next]_vars => TypeOK'
<1> SUFFICES ASSUME TypeOK, [Next]_vars PROVE TypeOK'
  OBVIOUS
<1> USE LayoutConstants, PacketNumbers DEF locals, shown, call
<1>1. ASSUME NEW painting \in Paintings, SetAllLedColor(painting) PROVE TypeOK'
  <2>1. painting \in [Keys -> Colors]
    OBVIOUS
  <2>2. packets' \in [DOMAIN NoPackets -> [0..LIBMK_ALL_LED_PER_PCK - 1 -> Colors]]
    <3>1. NoPackets \in [Packets -> [Places -> Colors]]
      BY DEF NoPackets, Places
    <3>2. packets' \in [Packets -> [Places -> Colors]]
      BY <1>1, <2>1, <3>1, FilledType DEF SetAllLedColor
    <3>. QED  BY <3>2 DEF Packets, Places
  <2>3. pc' \in {"send", "crashed"} /\ k' = 0
    BY <1>1 DEF SetAllLedColor, FirstPacket
  <2>4. effectFailed' \in BOOLEAN /\ mode' \in {LIBMK_EFFECT_CTRL, LIBMK_CUSTOM_CTRL} /\ effect' \in Effects
    BY <1>1, EffectFacts DEF SetAllLedColor
  <2>5. /\ UNCHANGED <<layout, result, leds>> /\ last' = "all" /\ asked' = painting
        /\ before' = leds /\ calls < MaxCalls /\ calls' = calls + 1
    BY <1>1 DEF SetAllLedColor, Begin
  <2>. QED  BY <2>1, <2>2, <2>3, <2>4, <2>5 DEF TypeOK
<1>2. ASSUME NEW painting \in Paintings, SetAllRefused(painting) PROVE TypeOK'
  <2>1. effectFailed' \in BOOLEAN /\ mode' \in {LIBMK_EFFECT_CTRL, LIBMK_CUSTOM_CTRL} /\ effect' \in Effects
    BY <1>2, EffectFacts DEF SetAllRefused
  <2>2. /\ UNCHANGED <<layout, packets, k, leds>> /\ last' = "all" /\ asked' = painting
        /\ before' = leds /\ calls < MaxCalls /\ calls' = calls + 1
        /\ result' = "LIBMK_ERR_UNKNOWN_LAYOUT" /\ pc' = "idle"
    BY <1>2 DEF SetAllRefused, Begin, Returns
  <2>. QED  BY <2>1, <2>2 DEF TypeOK
<1>3. CASE SendColors
  <2>1. leds' \in [Leds -> Colors]
    BY <1>3, WithPacketType DEF SendColors
  <2>2. k < 8 /\ k' = k + 1 /\ UNCHANGED <<layout, pc, packets, effectFailed, result, shown, call>>
    BY <1>3 DEF SendColors
  <2>. QED  BY <2>1, <2>2 DEF TypeOK
<1>4. CASE SendFails
  <2>1. leds' \in [Leds -> Colors]
    BY <1>4, WithPacketType DEF SendFails, TypeOK
  <2>2. UNCHANGED <<layout, locals, shown, call>> /\ result' = "LIBMK_ERR_TRANSFER" /\ pc' = "idle"
    BY <1>4 DEF SendFails, Returns, TransferError
  <2>. QED  BY <2>1, <2>2 DEF TypeOK
<1>5. CASE AllSent
  BY <1>5 DEF TypeOK, AllSent, Returns
<1>6. ASSUME NEW color \in Colors, SetFullColor(color) PROVE TypeOK'
  BY <1>6 DEF TypeOK, SetFullColor, Begin, Returns, AllOf
<1>7. ASSUME NEW color \in Colors, SetFullFails(color) PROVE TypeOK'
  <2>1. leds' \in [Leds -> Colors]
    BY <1>7 DEF SetFullFails, TypeOK
  <2>2. AllOf(color) \in [Keys -> Colors]
    BY DEF AllOf
  <2>. QED  BY <1>7, <2>1, <2>2 DEF TypeOK, SetFullFails, Begin, Returns, TransferError
<1>8. ASSUME NEW key \in SingleKeys, NEW color \in Colors, SetSingleLed(key, color) PROVE TypeOK'
  <2>1. leds' \in [Leds -> Colors]
    BY <1>8, SingleLedType DEF SetSingleLed
  <2>. QED  BY <1>8, <2>1, OnlyType DEF TypeOK, SetSingleLed, Begin, Returns
<1>9. ASSUME NEW key \in SingleKeys, NEW color \in Colors, SetSingleRefused(key, color) PROVE TypeOK'
  BY <1>9, OnlyType DEF TypeOK, SetSingleRefused, Begin, Returns
<1>10. ASSUME NEW key \in SingleKeys, NEW color \in Colors, SetSingleNoMode(key, color)
       PROVE TypeOK'
  BY <1>10, OnlyType DEF TypeOK, SetSingleNoMode, Begin, Returns, TransferError
<1>11. ASSUME NEW key \in SingleKeys, NEW color \in Colors, SetSingleFails(key, color)
       PROVE TypeOK'
  <2>1. leds' \in [Leds -> Colors]
    BY <1>11, SingleLedType DEF SetSingleFails, TypeOK
  <2>. QED  BY <1>11, <2>1, OnlyType DEF TypeOK, SetSingleFails, Begin, Returns, TransferError
<1>12. CASE UNCHANGED vars
  BY <1>12 DEF TypeOK, vars
<1>. QED
  BY <1>1, <1>2, <1>3, <1>4, <1>5, <1>6, <1>7, <1>8, <1>9, <1>10, <1>11, <1>12 DEF Next

LEMMA TypeInit == Init => TypeOK
<1> SUFFICES ASSUME Init PROVE TypeOK
  OBVIOUS
<1>1. packets \in [DOMAIN NoPackets -> [0..LIBMK_ALL_LED_PER_PCK - 1 -> Colors]] /\ k = 0
  BY LayoutConstants DEF Init, NoPackets
<1>2. {leds, before} \subseteq [Leds -> Colors] /\ asked \in [Keys -> Colors]
  BY LayoutConstants DEF Init, AllOf
<1>3. effectFailed \in BOOLEAN
  BY DEF Init
<1>4. mode \in {LIBMK_EFFECT_CTRL, LIBMK_CUSTOM_CTRL} /\ effect \in Effects
  BY DEF Init
<1>. QED  BY <1>1, <1>2, <1>3, <1>4, LayoutConstants DEF Init, TypeOK

\* Types (the locals of set_all_led_color at lines 659-664 and the handle).
THEOREM LedLayoutTypes == Spec => []TypeOK
BY TypeInit, TypeStep, PTL DEF Spec

-----------------------------------------------------------------------------
(* Colors *)

\* While set_all_led_color sends, the colors that keys are to have are in the
\* packets, the LEDs of the packets before k hold theirs, and the others are
\* as before the call.
Sending ==
    pc = "send" =>
        /\ \A key \in Addressed : packets[LedOf(key) \div 16][LedOf(key) % 16] = asked[key]
        /\ \A a \in Leds :
            leds[a] = IF a \div 16 < k THEN packets[a \div 16][a % 16] ELSE before[a]

\* The colors of the keys of the table, and of a call that succeeded.
Lit == Returned => \A key \in Addressed : leds[LedOf(key)] = asked[key]
Half ==
    last # "none" =>
        \A key \in Addressed : leds[LedOf(key)] \in {before[LedOf(key)], asked[key]}

\* The effect of set_all_led_color, and what a refusal leaves.
Shown == last = "all" => effect = LIBMK_EFF_CUSTOM \/ effectFailed
Refused ==
    /\ result = "LIBMK_ERR_UNKNOWN_LAYOUT" => leds = before /\ ~IsKnown(layout)
    /\ pc = "send" => IsKnown(layout)

LedsInv == Sending /\ Lit /\ Half /\ Shown /\ Refused

LEMMA LayoutStays ==
    ASSUME layout' = layout
    PROVE /\ Addressed' = Addressed /\ \A key : LedOf(key)' = LedOf(key)
          /\ IsKnown(layout)' <=> IsKnown(layout)
BY DEF Addressed, LedOf, IsKnown, Address

\* A call that changes no color, and does not report success.
LEMMA QuietStep ==
    ASSUME layout' = layout, leds' = leds, before' = leds, pc' = "idle", Shown',
           result' # "LIBMK_SUCCESS", result' = "LIBMK_ERR_UNKNOWN_LAYOUT" => ~IsKnown(layout)
    PROVE LedsInv'
BY LayoutStays DEF LedsInv, Sending, Lit, Returned, Half, Refused

\* A call that sets every key to what was asked for.
LEMMA LitStep ==
    ASSUME layout' = layout, pc' = "idle", Shown', result' # "LIBMK_ERR_UNKNOWN_LAYOUT",
           \A key \in Addressed : leds'[LedOf(key)] = asked'[key]
    PROVE LedsInv'
BY LayoutStays DEF LedsInv, Sending, Lit, Half, Refused

\* A call that fails, with what it asks for done or not begun.
LEMMA FailStep ==
    ASSUME layout' = layout, pc' = "idle", Shown', result' = "LIBMK_ERR_TRANSFER",
           before' = leds,
           leds' = leds \/ \A key \in Addressed : leds'[LedOf(key)] = asked'[key]
    PROVE LedsInv'
BY LayoutStays DEF LedsInv, Sending, Lit, Returned, Half, Refused

\* What set_full_color and set_single_led make of the LEDs is what they ask for.
LEMMA FullIsAsked ==
    ASSUME TypeOK, NEW color, NEW key \in Addressed
    PROVE [a \in Leds |-> color][LedOf(key)] = AllOf(color)[key]
BY AddressedIsAnsi DEF AllOf

LEMMA SingleIsAsked ==
    ASSUME TypeOK, DistinctAddresses, NEW key \in Keys, NEW color, NEW stray,
           NEW other \in Addressed
    PROVE SingleLed(Address(layout, key, stray), color)[LedOf(other)] = Only(key, color)[other]
<1>1. /\ layout = LIBMK_LAYOUT_ANSI /\ other \in Keys /\ LedOf(other) \in Leds
      /\ LedOf(other) = Address(layout, other, NoLed)
      /\ LedOf(key) = Address(layout, key, NoLed)
  BY AddressedIsAnsi DEF LedOf
<1>2. Address(layout, key, stray) = LedOf(key)
  BY <1>1 DEF Address, LIBMK_LAYOUT_ANSI
<1>3. LedOf(other) = LedOf(key) <=> other = key
  BY <1>1 DEF DistinctAddresses
<1>. QED  BY <1>1, <1>2, <1>3 DEF SingleLed, Only, AllOf

\* The LEDs that the next packet makes.
LEMMA PacketTaken ==
    ASSUME TypeOK, Sending, pc = "send", NEW a \in Leds
    PROVE WithPacket[a] = IF a \div 16 < k + 1 THEN packets[a \div 16][a % 16] ELSE before[a]
<1>1. a \div 16 \in Int /\ k \in Int
  BY SlotInRange, PacketNumbers DEF TypeOK
<1>2. leds[a] = IF a \div 16 < k THEN packets[a \div 16][a % 16] ELSE before[a]
  BY DEF Sending
<1>. QED  BY <1>1, <1>2 DEF WithPacket

LEMMA LedsStep == DistinctAddresses /\ TypeOK /\ LedsInv /\ [Next]_vars => LedsInv'
<1> SUFFICES ASSUME DistinctAddresses, TypeOK, LedsInv, [Next]_vars PROVE LedsInv'
  OBVIOUS
<1> USE DEF locals, shown, call
<1>1. ASSUME NEW painting \in Paintings, SetAllLedColor(painting) PROVE LedsInv'
  <2>1. /\ layout' = layout /\ leds' = leds /\ before' = leds /\ asked' = painting /\ k' = 0
        /\ IsKnown(layout) /\ result' = result /\ last' = "all"
    BY <1>1 DEF SetAllLedColor, Begin, FirstPacket
  <2>2. pc' # "idle"
    BY <1>1 DEF SetAllLedColor
  <2>3. ASSUME pc' = "send" PROVE Sending'
    <3>1. PICK stray : packets' = Filled(painting, stray)
      BY <1>1, <2>3 DEF SetAllLedColor
    <3>2. ASSUME NEW key \in Addressed
          PROVE packets'[LedOf(key) \div 16][LedOf(key) % 16] = painting[key]
      <4>1. key \in Keys /\ LedOf(key) \in Leds
        BY AddressedIsAnsi
      <4>2. LedOf(key) \div 16 \in Packets /\ LedOf(key) % 16 \in Places
        BY <4>1, SlotInRange
      <4>3. Holders(LedOf(key) \div 16, LedOf(key) % 16, stray) = {key}
        BY HoldersOfLed
      <4>. QED  BY <3>1, <4>1, <4>2, <4>3, LastOfOne DEF Filled, Packets, Places
    <3>3. \A a \in Leds : ~(a \div 16 < 0)
      BY SlotInRange, PacketNumbers
    <3>. QED  BY <2>1, <3>2, <3>3, LayoutStays DEF Sending
  <2>4. Shown'
    <3>1. effectFailed' \in BOOLEAN /\ SetEffect(LIBMK_EFF_CUSTOM, effectFailed')
      BY <1>1 DEF SetAllLedColor
    <3>. QED  BY <3>1, EffectFacts DEF Shown
  <2>5. Sending'
    BY <2>3 DEF Sending
  <2>6. Half' /\ Lit' /\ Refused'
    BY <2>1, <2>2, LayoutStays DEF LedsInv, Half, Lit, Returned, Refused
  <2>. QED  BY <2>4, <2>5, <2>6 DEF LedsInv
<1>2. ASSUME NEW painting \in Paintings, SetAllRefused(painting) PROVE LedsInv'
  <2>1. Shown'
    <3>1. effectFailed' \in BOOLEAN /\ SetEffect(LIBMK_EFF_CUSTOM, effectFailed')
      BY <1>2 DEF SetAllRefused
    <3>. QED  BY <3>1, EffectFacts DEF Shown
  <2>. QED  BY <1>2, <2>1, QuietStep DEF SetAllRefused, Begin, Returns
<1>3. CASE SendColors
  <2>1. /\ layout' = layout /\ pc = "send" /\ pc' = "send" /\ packets' = packets
        /\ before' = before /\ asked' = asked /\ last' = last /\ k' = k + 1
        /\ leds' = WithPacket /\ result' = result
    BY <1>3 DEF SendColors
  <2>2. \A a \in Leds :
          leds'[a] = IF a \div 16 < k' THEN packets[a \div 16][a % 16] ELSE before[a]
    BY <2>1, PacketTaken DEF LedsInv
  <2>3. Sending'
    BY <2>1, <2>2, LayoutStays DEF LedsInv, Sending
  <2>4. Half'
    <3>1. \A key \in Addressed : LedOf(key) \in Leds
      BY AddressedIsAnsi
    <3>. QED  BY <2>1, <2>2, <3>1, LayoutStays DEF LedsInv, Sending, Half
  <2>5. Shown'
    BY <1>3 DEF SendColors, LedsInv, Shown
  <2>6. Lit' /\ Refused'
    BY <2>1, LayoutStays DEF LedsInv, Lit, Returned, Refused
  <2>. QED  BY <2>3, <2>4, <2>5, <2>6 DEF LedsInv
<1>4. CASE SendFails
  <2>1. /\ layout' = layout /\ pc = "send" /\ pc' = "idle" /\ before' = before
        /\ asked' = asked /\ last' = last /\ result' = "LIBMK_ERR_TRANSFER"
        /\ leds' = leds \/ leds' = WithPacket
    BY <1>4 DEF SendFails, Returns, TransferError
  <2>2. Half'
    <3>1. CASE leds' = leds
      BY <2>1, <3>1, LayoutStays DEF LedsInv, Half
    <3>2. CASE leds' = WithPacket
      <4>1. \A key \in Addressed : LedOf(key) \in Leds
        BY AddressedIsAnsi
      <4>2. \A a \in Leds : leds'[a] \in {packets[a \div 16][a % 16], before[a]}
        BY <2>1, <3>2, PacketTaken DEF LedsInv
      <4>. QED  BY <2>1, <4>1, <4>2, LayoutStays DEF LedsInv, Sending, Half
    <3>. QED  BY <2>1, <3>1, <3>2
  <2>3. Shown'
    BY <1>4 DEF SendFails, LedsInv, Shown
  <2>4. Sending' /\ Lit' /\ Refused'
    BY <2>1, LayoutStays DEF Sending, Lit, Returned, Refused
  <2>. QED  BY <2>2, <2>3, <2>4 DEF LedsInv
<1>5. CASE AllSent
  <2>1. /\ layout' = layout /\ pc = "send" /\ pc' = "idle" /\ leds' = leds /\ asked' = asked
        /\ k = 8 /\ result' = "LIBMK_SUCCESS"
    BY <1>5 DEF AllSent, Returns
  <2>2. ASSUME NEW key \in Addressed PROVE leds[LedOf(key)] = asked[key]
    <3>1. LedOf(key) \in Leds
      BY AddressedIsAnsi
    <3>2. LedOf(key) \div 16 < k
      BY <2>1, <3>1, SlotInRange, PacketNumbers
    <3>. QED  BY <2>1, <3>1, <3>2 DEF LedsInv, Sending
  <2>3. Shown'
    BY <1>5 DEF AllSent, LedsInv, Shown
  <2>. QED  BY <2>1, <2>2, <2>3, LitStep
<1>6. ASSUME NEW color \in Colors, SetFullColor(color) PROVE LedsInv'
  <2>1. /\ layout' = layout /\ pc' = "idle" /\ result' = "LIBMK_SUCCESS" /\ last' = "full"
        /\ asked' = AllOf(color) /\ leds' = [a \in Leds |-> color]
    BY <1>6 DEF SetFullColor, Begin, Returns
  <2>2. \A key \in Addressed : leds'[LedOf(key)] = asked'[key]
    BY <2>1, FullIsAsked
  <2>. QED  BY <2>1, <2>2, LitStep DEF Shown
<1>7. ASSUME NEW color \in Colors, SetFullFails(color) PROVE LedsInv'
  <2>1. /\ layout' = layout /\ pc' = "idle" /\ result' = "LIBMK_ERR_TRANSFER" /\ last' = "full"
        /\ asked' = AllOf(color) /\ before' = leds
        /\ leds' = leds \/ leds' = [a \in Leds |-> color]
    BY <1>7 DEF SetFullFails, Begin, Returns, TransferError
  <2>2. leds' = leds \/ \A key \in Addressed : leds'[LedOf(key)] = asked'[key]
    BY <2>1, FullIsAsked
  <2>. QED  BY <2>1, <2>2, FailStep DEF Shown
<1>8. ASSUME NEW key \in SingleKeys, NEW color \in Colors, SetSingleLed(key, color) PROVE LedsInv'
  <2>1. PICK stray : leds' = SingleLed(Address(layout, key, stray), color)
    BY <1>8 DEF SetSingleLed
  <2>2. /\ layout' = layout /\ pc' = "idle" /\ result' = "LIBMK_SUCCESS" /\ last' = "single"
        /\ asked' = Only(key, color)
    BY <1>8 DEF SetSingleLed, Begin, Returns
  <2>3. \A other \in Addressed : leds'[LedOf(other)] = asked'[other]
    BY <2>1, <2>2, LayoutConstants, SingleIsAsked
  <2>. QED  BY <2>2, <2>3, LitStep DEF Shown
<1>9. ASSUME NEW key \in SingleKeys, NEW color \in Colors, SetSingleRefused(key, color) PROVE LedsInv'
  BY <1>9, QuietStep DEF SetSingleRefused, Begin, Returns, Shown
<1>10. ASSUME NEW key \in SingleKeys, NEW color \in Colors, SetSingleNoMode(key, color)
       PROVE LedsInv'
  BY <1>10, QuietStep DEF SetSingleNoMode, Begin, Returns, TransferError, Shown
<1>11. ASSUME NEW key \in SingleKeys, NEW color \in Colors, SetSingleFails(key, color)
       PROVE LedsInv'
  <2>1. PICK stray : leds' \in {leds, SingleLed(Address(layout, key, stray), color)}
    BY <1>11 DEF SetSingleFails
  <2>2. /\ layout' = layout /\ pc' = "idle" /\ result' = "LIBMK_ERR_TRANSFER" /\ last' = "single"
        /\ asked' = Only(key, color) /\ before' = leds
    BY <1>11 DEF SetSingleFails, Begin, Returns, TransferError
  <2>3. leds' = leds \/ \A other \in Addressed : leds'[LedOf(other)] = asked'[other]
    BY <2>1, <2>2, LayoutConstants, SingleIsAsked
  <2>. QED  BY <2>2, <2>3, FailStep DEF Shown
<1>12. CASE UNCHANGED vars
  <2>1. Sending' /\ Half'
    BY <1>12, LayoutStays DEF vars, LedsInv, Sending, Half
  <2>2. Lit' /\ Shown' /\ Refused'
    BY <1>12, LayoutStays DEF vars, LedsInv, Lit, Returned, Shown, Refused
  <2>. QED  BY <2>1, <2>2 DEF LedsInv
<1>. QED
  BY <1>1, <1>2, <1>3, <1>4, <1>5, <1>6, <1>7, <1>8, <1>9, <1>10, <1>11, <1>12 DEF Next

LEMMA LedsInit == Init => LedsInv
BY DEF Init, LedsInv, Sending, Lit, Returned, Half, Shown, Refused

LEMMA LedsHold == DistinctAddresses => (Spec => []LedsInv)
<1> SUFFICES ASSUME DistinctAddresses PROVE Spec => []LedsInv
  OBVIOUS
<1>1. TypeOK /\ LedsInv /\ [Next]_vars => LedsInv'
  BY LedsStep
<1>. QED  BY LedsInit, <1>1, LedLayoutTypes, PTL DEF Spec

\* Where no two keys share a LED, success means that the keyboard holds for
\* every key of the table the color asked for, whatever was lit or left half
\* sent before; and that it shows the colors of set_all_led_color, unless the
\* set_effect failed whose result line 658 drops (lines 653-732).
THEOREM KeysGetTheirColors == ASSUME DistinctAddresses PROVE Spec => []KeysAreLit
<1>1. LedsInv => KeysAreLit
  BY DEF LedsInv, Lit, Shown, KeysAreLit, Returned
<1>. QED  BY <1>1, LedsHold, PTL

\* There, a call that fails leaves every key with its color from before the
\* call or with the one asked for (lines 682-686), and one that refuses the
\* layout leaves every color alone, whatever its effect or mode packet did.
THEOREM FailureKeepsColors == ASSUME DistinctAddresses PROVE Spec => []OldOrNew
<1>1. LedsInv => OldOrNew
  BY DEF LedsInv, Half, Refused, OldOrNew
<1>. QED  BY <1>1, LedsHold, PTL
=============================================================================
