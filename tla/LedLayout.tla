------------------------------ MODULE LedLayout ------------------------------
(***************************************************************************)
(* How libmk/libmk.c finds the LED of a key: the tables of addresses, the  *)
(* look-up by the layout and size of the handle, and the calls that light  *)
(* keys.  An address a is LED a % 16 of packet a \div 16.                  *)
(*                                                                         *)
(* The keyboard holds a color for every LED.  Those that set_all_led_color *)
(* sends are shown under the effect LIBMK_EFF_CUSTOM, which has to be set  *)
(* first (INTERFACE.md:116-117); the packets of set_full_color and         *)
(* set_single_led light the LEDs under any effect.                         *)
(***************************************************************************)
EXTENDS Integers, Sequences

CONSTANTS
    OtherEffects, \* what the keyboard may show but LIBMK_EFF_CUSTOM
    Size,       \* of the keyboard, LibMK_Size
    Layouts,    \* what the firmware may have said its layout is
    Paintings,  \* the colors a program asks set_all_led_color for
    Colors,     \* those of set_full_color and set_single_led
    Black,
    SingleKeys, \* the keys it asks set_single_led for
    StrayBytes, \* what lies in memory before the tables
    MaxCalls    \* bound on the number of calls

LIBMK_MAX_ROWS == 7
LIBMK_MAX_COLS == 24
LIBMK_ALL_LED_PCK_NUM == 8
LIBMK_ALL_LED_PER_PCK == 16
Keys == (0..LIBMK_MAX_ROWS - 1) \X (0..LIBMK_MAX_COLS - 1)
Leds == 0..LIBMK_ALL_LED_PCK_NUM * LIBMK_ALL_LED_PER_PCK - 1
Sizes == [LIBMK_L |-> 1, LIBMK_M |-> 2, LIBMK_S |-> 3]
LIBMK_LAYOUT_UNKNOWN == 0
LIBMK_LAYOUT_ANSI == 1
LIBMK_LAYOUT_ISO == 2
LIBMK_EFFECT_CTRL == 1
LIBMK_CUSTOM_CTRL == 2
LIBMK_EFF_CUSTOM == 10

ASSUME LayoutConstants ==
    /\ OtherEffects \subseteq Nat \ {LIBMK_EFF_CUSTOM}
    /\ Size \in DOMAIN Sizes /\ Layouts \subseteq 0..3 /\ StrayBytes \subseteq 0..255
    /\ Black \in Colors /\ Paintings \subseteq [Keys -> Colors]
    /\ SingleKeys \subseteq Keys /\ MaxCalls \in Nat

-----------------------------------------------------------------------------
(* The tables.  255 stands for no LED; rows are written up to their last    *)
(* key.  Those of size M, and of ISO keyboards of size S, are still empty.  *)

NoLed == 255
Row(addresses) == addresses \o [i \in 1..LIBMK_MAX_COLS - Len(addresses) |-> NoLed]
Matrix(rows) == [r \in 1..LIBMK_MAX_ROWS |-> Row(rows[r])]
Empty == Matrix([r \in 1..LIBMK_MAX_ROWS |-> <<>>])

AnsiL == Matrix(<<
    <<11, 22, 30, 25, 27, 255, 7, 51, 57, 62, 255, 86, 87, 83, 85, 79, 72, 0, 101, 109, 117, 119>>,
    <<14, 15, 23, 31, 39, 38, 46, 47, 55, 63, 71, 70, 54, 255, 81, 3, 1, 2, 100, 108, 116, 118>>,
    <<9, 8, 16, 24, 32, 33, 41, 40, 48, 56, 64, 65, 49, 255, 82, 94, 92, 88, 96, 104, 112, 110>>,
    <<17, 10, 18, 26, 34, 35, 43, 42, 50, 58, 66, 67, 255, 255, 84, 255, 255, 255, 97, 105, 113>>,
    <<73, 255, 12, 20, 28, 36, 37, 45, 44, 52, 60, 69, 255, 255, 74, 255, 80, 255, 98, 106, 114, 111>>,
    <<6, 90, 75, 255, 255, 255, 91, 255, 255, 255, 77, 78, 61, 255, 4, 95, 93, 5, 107, 255, 115>>,
    <<>> >>)

AnsiS == Matrix(<<
    <<96, 97, 98, 99, 104, 255, 105, 106, 112, 113, 255, 114, 67, 68, 69, 102, 103, 107>>,
    <<0, 1, 8, 9, 16, 17, 24, 25, 32, 33, 40, 41, 48, 255, 49, 56, 57, 64>>,
    <<2, 3, 10, 11, 18, 19, 26, 27, 34, 35, 42, 43, 50, 255, 51, 58, 59, 66>>,
    <<4, 5, 12, 13, 20, 21, 28, 29, 36, 37, 44, 45, 255, 255, 52>>,
    <<6, 255, 7, 14, 15, 22, 23, 30, 31, 38, 39, 46, 1, 255, 47, 255, 61>>,
    <<91, 90, 92, 255, 255, 255, 93, 255, 255, 255, 94, 60, 95, 255, 54, 63, 62, 70>>,
    <<>> >>)

\* The ISO keyboard differs by its Enter key and the key next to left Shift.
IsoL == [AnsiL EXCEPT ![3][15] = 84, ![4][13] = 68, ![4][15] = NoLed, ![5][2] = 19]

LIBMK_LAYOUT == <<<<AnsiL, Empty, AnsiS>>, <<IsoL, Empty, Empty>>>>

\* The layouts that libmk_get_offset knows: its own LAYOUT_ANSI, 0, and
\* LAYOUT_ISO, 1, which are not the values of enum LibMK_Layout.
LAYOUT_ANSI == 0
LAYOUT_ISO == 1
IsKnown(layout) == layout \in {LAYOUT_ISO, LAYOUT_ANSI}

\* The address of a key; index -1 is what lies before the tables.
Address(layout, key, stray) ==
    IF layout = 0 THEN stray
    ELSE LIBMK_LAYOUT[layout][Sizes[Size]][key[1] + 1][key[2] + 1]

\* No two keys of the table of the ANSI keyboard share a LED.  That holds for
\* size L; the table of size S has an address twice.
DistinctAddresses ==
    \A key, other \in Keys :
        /\ Address(LIBMK_LAYOUT_ANSI, key, NoLed) \in Leds
        /\ Address(LIBMK_LAYOUT_ANSI, key, NoLed) = Address(LIBMK_LAYOUT_ANSI, other, NoLed)
        => key = other

-----------------------------------------------------------------------------
VARIABLES
    layout,         \* the field of the handle
    pc,             \* idle, sending the colors, or crashed
    packets, k,     \* locals of set_all_led_color: colors, next to send
    effectFailed,   \* did its set_effect fail, which it does not look at
    result,         \* what the last call returned
    mode, effect,   \* the keyboard: its control mode, its effect
    leds,           \* and the color of every LED
    before, asked,  \* LEDs at the start of the call, colors it asks for
    last, calls     \* the call, and how many there were

locals == <<packets, k, effectFailed>>
shown == <<mode, effect>>
call == <<before, asked, last, calls>>
vars == <<layout, pc, locals, result, shown, leds, call>>

Effects == OtherEffects \cup {LIBMK_EFF_CUSTOM}
NoPackets == [p \in 0..LIBMK_ALL_LED_PCK_NUM - 1 |-> [i \in 0..LIBMK_ALL_LED_PER_PCK - 1 |-> Black]]
AllOf(color) == [key \in Keys |-> color]
Only(key, color) == [AllOf(Black) EXCEPT ![key] = color]

TypeOK ==
    /\ layout \in Layouts /\ pc \in {"idle", "send", "crashed"}
    /\ packets \in [DOMAIN NoPackets -> [0..LIBMK_ALL_LED_PER_PCK - 1 -> Colors]]
    /\ k \in 0..LIBMK_ALL_LED_PCK_NUM /\ effectFailed \in BOOLEAN
    /\ mode \in {LIBMK_EFFECT_CTRL, LIBMK_CUSTOM_CTRL} /\ effect \in Effects
    /\ result \in {"LIBMK_SUCCESS", "LIBMK_ERR_TRANSFER", "LIBMK_ERR_UNKNOWN_LAYOUT"}
    /\ {leds, before} \subseteq [Leds -> Colors] /\ asked \in [Keys -> Colors]
    /\ last \in {"none", "all", "full", "single"} /\ calls \in 0..MaxCalls

\* A keyboard whose control was enabled, with the effect of its profile.
Init ==
    /\ layout \in Layouts /\ pc = "idle" /\ packets = NoPackets /\ k = 0
    /\ mode = LIBMK_CUSTOM_CTRL /\ effect \in Effects /\ effectFailed = FALSE
    /\ result = "LIBMK_SUCCESS" /\ last = "none" /\ calls = 0
    /\ leds = [a \in Leds |-> Black] /\ before = leds /\ asked = AllOf(Black)

Begin(name, painting) ==
    /\ pc = "idle" /\ calls < MaxCalls /\ calls' = calls + 1
    /\ last' = name /\ asked' = painting /\ before' = leds

Returns(r) == result' = r /\ pc' = "idle"

\* What the library makes of a failed libusb transfer.
TransferError == "LIBMK_ERR_TRANSFER"

\* Where the LED with an address is: its packet, and its place there.
SlotBug(a) == <<a \div LIBMK_ALL_LED_PCK_NUM, a % LIBMK_ALL_LED_PCK_NUM>>
Slot(a) == <<a \div LIBMK_ALL_LED_PER_PCK, a % LIBMK_ALL_LED_PER_PCK>>

\* The key whose color ends up in a place: the last one with that address.
Holders(p, i, stray) == {key \in Keys : Address(layout, key, stray) \in Leds
                                         /\ Slot(Address(layout, key, stray)) = <<p, i>>}
LastOf(keys) ==
    CHOOSE key \in keys : \A other \in keys :
        key[1] * LIBMK_MAX_COLS + key[2] >= other[1] * LIBMK_MAX_COLS + other[2]
Filled(painting, stray) ==
    [p \in DOMAIN NoPackets |-> [i \in 0..LIBMK_ALL_LED_PER_PCK - 1 |->
        IF Holders(p, i, stray) = {} THEN Black ELSE painting[LastOf(Holders(p, i, stray))]]]

FirstPacketBug == k
FirstPacket == 0

\* The two packets of libmk_set_effect.  A send fails before its packet reaches
\* the keyboard, or after it if the reply is lost.
SetEffect(e, failed) ==
    \/ ~failed /\ mode' = LIBMK_EFFECT_CTRL /\ effect' = e
    \/ failed /\ mode' = LIBMK_EFFECT_CTRL /\ effect' \in {effect, e}
    \/ failed /\ UNCHANGED shown

\* set_all_led_color up to its sending loop: it sets the effect, whatever
\* comes of that, and fills the packets.  An address beyond the packets makes
\* it write through a pointer that was never set.
SetAllLedColor(painting) ==
    /\ Begin("all", painting) /\ IsKnown(layout)
    /\ \E stray \in StrayBytes :
        IF layout = 0 /\ stray \notin Leds \cup {NoLed}
        THEN pc' = "crashed" /\ packets' = NoPackets
        ELSE pc' = "send" /\ packets' = Filled(painting, stray)
    /\ k' = FirstPacket
    /\ effectFailed' \in BOOLEAN /\ SetEffect(LIBMK_EFF_CUSTOM, effectFailed')
    /\ UNCHANGED <<layout, result, leds>>

\* The effect is set before the layout is looked at.
SetAllRefused(painting) ==
    /\ Begin("all", painting) /\ ~IsKnown(layout)
    /\ effectFailed' \in BOOLEAN /\ SetEffect(LIBMK_EFF_CUSTOM, effectFailed')
    /\ Returns("LIBMK_ERR_UNKNOWN_LAYOUT")
    /\ UNCHANGED <<layout, packets, k, leds>>

\* The LEDs when the keyboard has taken packet k.
WithPacket == [a \in Leds |-> IF a \div LIBMK_ALL_LED_PER_PCK = k
                              THEN packets[k][a % LIBMK_ALL_LED_PER_PCK] ELSE leds[a]]

SendColors ==
    /\ pc = "send" /\ k < LIBMK_ALL_LED_PCK_NUM /\ k' = k + 1
    /\ leds' = WithPacket
    /\ UNCHANGED <<layout, pc, packets, effectFailed, result, shown, call>>

SendFails ==
    /\ pc = "send" /\ k < LIBMK_ALL_LED_PCK_NUM
    /\ leds' \in {leds, WithPacket}
    /\ Returns(TransferError)
    /\ UNCHANGED <<layout, locals, shown, call>>

AllSent ==
    /\ pc = "send" /\ k = LIBMK_ALL_LED_PCK_NUM
    /\ Returns("LIBMK_SUCCESS")
    /\ UNCHANGED <<layout, locals, shown, leds, call>>

SetFullColor(color) ==
    /\ Begin("full", AllOf(color)) /\ Returns("LIBMK_SUCCESS")
    /\ leds' = [a \in Leds |-> color]
    /\ UNCHANGED <<layout, locals, shown>>

SetFullFails(color) ==
    /\ Begin("full", AllOf(color)) /\ Returns(TransferError)
    /\ leds' \in {leds, [a \in Leds |-> color]}
    /\ UNCHANGED <<layout, locals, shown>>

\* The keyboard lights one LED and turns the others off; it lights none for
\* an address it does not have.
SingleLed(address, color) == [a \in Leds |-> IF a = address THEN color ELSE Black]

\* set_single_led sets the control mode before it looks at the layout.
SetSingleLed(key, color) ==
    /\ Begin("single", Only(key, color)) /\ IsKnown(layout)
    /\ mode' = LIBMK_CUSTOM_CTRL
    /\ \E stray \in StrayBytes : leds' = SingleLed(Address(layout, key, stray), color)
    /\ Returns("LIBMK_SUCCESS")
    /\ UNCHANGED <<layout, locals, effect>>

SetSingleRefused(key, color) ==
    /\ Begin("single", Only(key, color)) /\ ~IsKnown(layout)
    /\ mode' = LIBMK_CUSTOM_CTRL
    /\ Returns("LIBMK_ERR_UNKNOWN_LAYOUT")
    /\ UNCHANGED <<layout, locals, leds, effect>>

\* Its mode packet does not reach the keyboard, which needs no reply.
SetSingleNoMode(key, color) ==
    /\ Begin("single", Only(key, color)) /\ Returns(TransferError)
    /\ UNCHANGED <<layout, locals, shown, leds>>

SetSingleFails(key, color) ==
    /\ Begin("single", Only(key, color)) /\ IsKnown(layout)
    /\ mode' = LIBMK_CUSTOM_CTRL
    /\ \E stray \in StrayBytes : leds' \in {leds, SingleLed(Address(layout, key, stray), color)}
    /\ Returns(TransferError)
    /\ UNCHANGED <<layout, locals, effect>>

Next ==
    \/ \E painting \in Paintings : SetAllLedColor(painting) \/ SetAllRefused(painting)
    \/ SendColors \/ SendFails \/ AllSent
    \/ \E color \in Colors : SetFullColor(color) \/ SetFullFails(color)
    \/ \E key \in SingleKeys, color \in Colors :
        SetSingleLed(key, color) \/ SetSingleRefused(key, color)
        \/ SetSingleNoMode(key, color) \/ SetSingleFails(key, color)

Spec == Init /\ [][Next]_vars

-----------------------------------------------------------------------------
(* Properties *)

Returned == pc = "idle" /\ result = "LIBMK_SUCCESS" /\ last # "none"
LedOf(key) == Address(layout, key, NoLed)
Addressed == IF IsKnown(layout) THEN {key \in Keys : LedOf(key) \in Leds} ELSE {}

\* After a call that returned success, the keyboard holds for every key of the
\* table the color that the program asked for, whatever was lit before and
\* whatever earlier calls left half sent; and it shows those colors, unless
\* the set_effect failed whose result set_all_led_color does not look at
\* (set_all_led_color 653-688, set_single_led 715-732).
KeysAreLit ==
    Returned =>
        /\ \A key \in Addressed : leds[LedOf(key)] = asked[key]
        /\ last = "all" => effect = LIBMK_EFF_CUSTOM \/ effectFailed

\* A call that fails half way leaves every key with its color from before the
\* call or with the color asked for, and never with that of another key (lines
\* 682-686).  A call that refuses the layout has changed no color, although it
\* has sent the packets of its effect (658) or mode (722).
OldOrNew ==
    /\ last # "none" =>
        \A key \in Addressed : leds[LedOf(key)] \in {before[LedOf(key)], asked[key]}
    /\ result = "LIBMK_ERR_UNKNOWN_LAYOUT" => leds = before

\* "Set the color of all the LEDs on the keyboard individually" (libmk.h:386):
\* as KeysAreLit, of a keyboard whose table has one address twice.
KeysAreIndividual == KeysAreLit

\* The supported "MasterKeys Pro L RGB ISO" (README.md:36), whose layout is
\* LIBMK_LAYOUT_ISO, is not refused as unknown.
IsoIsSupported == layout = LIBMK_LAYOUT_ISO => result # "LIBMK_ERR_UNKNOWN_LAYOUT"

\* "Device has unknown layout" (libmk.h:41): a call that looks keys up does
\* not succeed on a keyboard of LIBMK_LAYOUT_UNKNOWN.
UnknownIsRefused ==
    layout = LIBMK_LAYOUT_UNKNOWN /\ last \in {"all", "single"} => ~Returned

\* "Set the color of a single LED" (libmk.h:396): after success one is lit.
SingleIsLit ==
    Returned /\ last = "single" /\ asked # AllOf(Black) => \E a \in Leds : leds[a] # Black

\* "Set the color of all the LEDs" (libmk.h:386): after success they are shown.
ColorsAreShown == Returned /\ last = "all" => effect = LIBMK_EFF_CUSTOM

\* "Device has unknown layout" (libmk.h:41): a call that is refused for that
\* leaves the keyboard as it was.
RefusalChangesNothing ==
    [][result' = "LIBMK_ERR_UNKNOWN_LAYOUT" /\ calls' # calls => UNCHANGED <<shown, leds>>]_vars
=============================================================================
