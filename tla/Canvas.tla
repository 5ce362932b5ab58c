------------------------------- MODULE Canvas -------------------------------
(***************************************************************************)
(* What a backing store promises, with nothing of how it does it: a canvas *)
(* the application draws on and scrolls, and a window that shows, where it *)
(* was flushed, what the canvas holds.  There is no server, no copy of the *)
(* canvas on its side and no delay: BackingStore is shown to implement it. *)
(*                                                                         *)
(* The canvas is a column of blocks (rows of a window); what a block holds *)
(* is the number of the drawing it was last covered by.                    *)
(***************************************************************************)
EXTENDS Integers

CONSTANTS
    N,        \* the blocks of the largest canvas
    MaxDraw,  \* the drawings of the application (a bound)
    HasAlpha  \* beginPaint() blanks what is going to be painted

VARIABLES
    canvas,   \* what the application drew, per block
    shown,    \* what the window shows, per block
    draws     \* the drawings so far

Block == 1 .. N

Blank == 0
Undefined == -1  \* nothing is promised of the block
Content == Undefined .. MaxDraw

vars == <<canvas, shown, draws>>

\* a drawing covers the whole region it was announced for
Covered(c, region, v) == [b \in Block |-> IF b \in region THEN v ELSE c[b]]

\* until then a region announced by beginPaint() is blank, or anything
Announced(c, region) == Covered(c, region, IF HasAlpha THEN Blank ELSE Undefined)

\* Scrolling moves the area by d; what it uncovers is for the application
\* to draw again.
Scrolled(c, size, area, d) ==
    [b \in Block |-> IF b - d \in area /\ b <= size THEN c[b - d]
                     ELSE IF b \in area THEN Undefined
                     ELSE c[b]]

-----------------------------------------------------------------------------

TypeOK ==
    /\ canvas \in [Block -> Content]
    /\ shown \in [Block -> Content]
    /\ draws \in 0 .. MaxDraw

Init ==
    /\ canvas = [b \in Block |-> Undefined]
    /\ shown = [b \in Block |-> Undefined]
    /\ draws = 0

Announce(region) ==
    /\ canvas' = Announced(canvas, region)
    /\ UNCHANGED <<shown, draws>>

Draw(region) ==
    /\ draws < MaxDraw
    /\ draws' = draws + 1
    /\ canvas' = Covered(canvas, region, draws + 1)
    /\ UNCHANGED shown

Scroll(size, area, d) ==
    /\ canvas' = Scrolled(canvas, size, area, d)
    /\ UNCHANGED <<shown, draws>>

\* the one promise: a flushed block shows what was drawn there last
Flush(region) ==
    /\ \A b \in Block :
          IF b \in region
          THEN canvas[b] # Undefined => shown'[b] = canvas[b]
          ELSE shown'[b] = shown[b]
    /\ UNCHANGED <<canvas, draws>>

Resize ==
    /\ canvas' = [b \in Block |-> Undefined]
    /\ UNCHANGED <<shown, draws>>

Next ==
    \/ \E region \in SUBSET Block : Announce(region) \/ Draw(region) \/ Flush(region)
    \/ \E size \in Block, area \in SUBSET Block, d \in -N .. N : Scroll(size, area, d)
    \/ Resize

Spec == Init /\ [][Next]_vars
=============================================================================
