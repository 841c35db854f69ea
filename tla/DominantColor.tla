----------------------------- MODULE DominantColor -----------------------------
(***************************************************************************)
(* The dominant color of a screenshot, which examples/ambilight computes   *)
(* in calculate_keyboard_color and examples/notifications in capture.h:    *)
(* the average of the pixels that are neither dark, nor bright, nor grey,  *)
(* scaled to full brightness.                                              *)
(***************************************************************************)
EXTENDS Integers, FiniteSets, FiniteSetsExt

CONSTANTS
    Width, Height,      \* of the screen
    Divider,            \* the part of its columns that is looked at: one in Divider
    MaxByte,            \* the largest byte
    LOWER_TRESHOLD, UPPER_TRESHOLD, SATURATION_BIAS

ASSUME ScreenAssumption ==
    /\ Width \in Nat \ {0} /\ Height \in Nat \ {0} /\ Divider \in Nat \ {0}
    /\ MaxByte \in Nat \ {0}

Bytes == 1..3
ColorSpace == [Bytes -> 0..MaxByte]
Black == [b \in Bytes |-> 0]
White == [b \in Bytes |-> MaxByte]

Screen == (0..Width - 1) \X (0..Height - 1)
Screenshots == [Screen -> ColorSpace]

\* The byte after b, from the last one to the first.
After(b) == (b % 3) + 1
Total(pixel) == MapThenSumSet(LAMBDA b : pixel[b], Bytes)

\* ambilight.c does not take the absolute value of a difference, capture.h does.
Rise(pixel, b) == pixel[b] - pixel[After(b)]
calc_diff(pixel, b) == IF Rise(pixel, b) < 0 THEN -Rise(pixel, b) ELSE Rise(pixel, b)
Saturation(pixel) == Max({0} \cup {Rise(pixel, b) : b \in Bytes})
SaturationOfCapture(pixel) == Max({calc_diff(pixel, b) : b \in Bytes})

Counts(pixel, saturation) ==
    Total(pixel) \in LOWER_TRESHOLD..UPPER_TRESHOLD /\ saturation >= SATURATION_BIAS

Looked == {p \in Screen : p[1] < Width \div Divider}

Average(screen, pixels) ==
    [b \in Bytes |-> MapThenSumSet(LAMBDA p : screen[p][b], pixels) \div Cardinality(pixels)]

Brightest(rgb) == Max({rgb[b] : b \in Bytes})

\* color * (255.0 / max) as a double, cut off: a product that ought to be an
\* integer may come out just below it, as 25 * (255.0 / 25) does.
Scalings(value, max) ==
    LET exact == (value * MaxByte) \div max IN
    {exact} \cup IF value > 0 /\ max < MaxByte /\ (value * MaxByte) % max = 0
                 THEN {exact - 1} ELSE {}
NormalisedBug(rgb) == {rgb}
Normalised(rgb) ==
    LET max == Brightest(rgb) IN
    IF max = 0 THEN {rgb}
    ELSE {c \in [Bytes -> UNION {Scalings(rgb[b], max) : b \in Bytes}] :
              \A b \in Bytes : c[b] \in Scalings(rgb[b], max)}

\* What may come out, for the pixels that count.
DominantOf(screen, pixels) ==
    IF pixels = {} THEN {White} ELSE Normalised(Average(screen, pixels))
Dominant(screen) ==
    DominantOf(screen, {p \in Looked : Counts(screen[p], Saturation(screen[p]))})
calc_dominant_color(screen) ==
    DominantOf(screen, {p \in Looked : Counts(screen[p], SaturationOfCapture(screen[p]))})

\* The pixels that count are too bright together to average to black.  It
\* holds of all screens whenever LOWER_TRESHOLD is 3 or more, as it is in the
\* code: then the three averages add up to more than 0.
AveragesAreColors(screens) ==
    \A screen \in screens, pixels \in SUBSET Looked :
        /\ pixels # {}
        /\ \A p \in pixels : Counts(screen[p], Saturation(screen[p]))
        => Average(screen, pixels) \in ColorSpace \ {Black}
=============================================================================
