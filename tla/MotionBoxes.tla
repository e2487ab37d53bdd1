----------------------------- MODULE MotionBoxes ------------------------------
(***************************************************************************)
(* The boxes of a motion frame: contours that lie near each other are      *)
(* merged greedily, in rounds, until a round merges nothing; what remains  *)
(* is scaled to the clip's resolution and clipped to its frame.            *)
(***************************************************************************)
EXTENDS Integers, SequencesExt

CONSTANTS
    MotionBoxSet,   \* boxes that contours may have, in the motion frame
    MaxBoxes,       \* bound: contours of a frame
    MergeDist,      \* motion_merge_dist
    MotionSize,     \* width and height of the motion frame
    ClipSize        \* width and height of the clip

ASSUME MotionBoxesAssumption ==
    /\ MaxBoxes \in Nat \ {0} /\ MergeDist \in Nat
    /\ MotionBoxSet \subseteq [x : Nat, y : Nat, w : Nat, h : Nat]
    /\ MotionSize \in [w : Nat \ {0}, h : Nat \ {0}] /\ ClipSize \in [w : Nat, h : Nat]

VARIABLES
    raw,        \* the boxes of the contours
    boxes,      \* the boxes that a round starts from
    merged,     \* the boxes that the round has made
    used,       \* the indices that the round has merged into an earlier one
    loop        \* the indices i and j, the box of i, whether the round changed anything

boxVars == <<raw, boxes, merged, used, loop>>

Right(b) == b.x + b.w
Bottom(b) == b.y + b.h
Lesser(m, n) == IF m <= n THEN m ELSE n
Greater(m, n) == IF m <= n THEN n ELSE m

Near(a, b) ==
    /\ a.x - MergeDist < Right(b) /\ Right(a) + MergeDist > b.x
    /\ a.y - MergeDist < Bottom(b) /\ Bottom(a) + MergeDist > b.y

(* The corner has moved when the size is taken: a box that grows to the    *)
(* left keeps its width, and so loses its right edge, unless the other box *)
(* reaches further.                                                        *)
Merge(a, b) ==
    LET x == Lesser(a.x, b.x)
        y == Lesser(a.y, b.y)
    IN  [x |-> x, y |-> y,
         w |-> Greater(x + a.w, Right(b)) - x,
         h |-> Greater(y + a.h, Bottom(b)) - y]

-------------------------------------------------------------------------------
(* Box i of the round is taken up, unless it has been merged already.      *)
TakeBox ==
    /\ loop.pc = "outer" /\ loop.i <= Len(boxes)
    /\ loop' = IF loop.i \in used THEN [loop EXCEPT !.i = @ + 1]
               ELSE [loop EXCEPT !.pc = "inner", !.j = loop.i + 1, !.box = boxes[loop.i]]
    /\ UNCHANGED <<raw, boxes, merged, used>>

CompareBox ==
    /\ loop.pc = "inner" /\ loop.j <= Len(boxes)
    /\ IF loop.j \notin used /\ Near(loop.box, boxes[loop.j])
       THEN /\ used' = used \cup {loop.j}
            /\ loop' = [loop EXCEPT !.j = @ + 1, !.box = Merge(loop.box, boxes[loop.j]),
                                    !.changed = TRUE]
       ELSE /\ loop' = [loop EXCEPT !.j = @ + 1]
            /\ UNCHANGED used
    /\ UNCHANGED <<raw, boxes, merged>>

AppendBox ==
    /\ loop.pc = "inner" /\ loop.j > Len(boxes)
    /\ merged' = Append(merged, loop.box)
    /\ loop' = [loop EXCEPT !.pc = "outer", !.i = @ + 1]
    /\ UNCHANGED <<raw, boxes, used>>

(* Mutant: one round must do.                                              *)
OneRound ==
    /\ loop.pc = "outer" /\ loop.i > Len(boxes)
    /\ boxes' = merged
    /\ loop' = [loop EXCEPT !.pc = "done"]
    /\ UNCHANGED <<raw, merged, used>>

EndRound ==
    /\ loop.pc = "outer" /\ loop.i > Len(boxes)
    /\ boxes' = merged
    /\ IF loop.changed
       THEN /\ loop' = [loop EXCEPT !.i = 1, !.changed = FALSE]
            /\ merged' = <<>> /\ used' = {}
       ELSE /\ loop' = [loop EXCEPT !.pc = "done"]
            /\ UNCHANGED <<merged, used>>
    /\ UNCHANGED raw

(* To the resolution of the clip, clipped; a box under four pixels is left *)
(* out.                                                                    *)
Scaled(n) == (n * ClipSize.h) \div MotionSize.h
Clipped(b) ==
    [x |-> Scaled(b.x), y |-> Scaled(b.y),
     w |-> Lesser(Scaled(b.w), ClipSize.w - Scaled(b.x)),
     h |-> Lesser(Scaled(b.h), ClipSize.h - Scaled(b.y))]
Reported == {c \in {Clipped(b) : b \in ToSet(boxes)} : c.w >= 4 /\ c.h >= 4}

-------------------------------------------------------------------------------
BoxInit ==
    /\ raw \in UNION {[1..n -> MotionBoxSet] : n \in 1..MaxBoxes}
    /\ boxes = raw
    /\ merged = <<>> /\ used = {}
    /\ loop = [pc |-> "outer", i |-> 1, j |-> 1, box |-> raw[1], changed |-> FALSE]

BoxNext == TakeBox \/ CompareBox \/ AppendBox \/ EndRound
BoxSpec == BoxInit /\ [][BoxNext]_boxVars

-------------------------------------------------------------------------------
BoxTypeOK ==
    LET Box == [x : Nat, y : Nat, w : Nat, h : Nat]
    IN  /\ raw \in Seq(MotionBoxSet)
        /\ boxes \in Seq(Box) /\ merged \in Seq(Box)
        /\ used \subseteq 1..MaxBoxes
        /\ loop \in [pc : {"outer", "inner", "done"}, i : 1..MaxBoxes + 1, j : 1..MaxBoxes + 1,
                     box : Box, changed : BOOLEAN]

(* What is left are boxes too far apart to merge; every contour's upper    *)
(* left corner is right of and below that of a box; no box reaches beyond  *)
(* the contours; and what is reported lies within the frame of the clip.   *)
(* That a box covers its contours is not among it: see Merge.              *)
BoxesApart == \A i, j \in 1..Len(boxes) : i # j => ~Near(boxes[i], boxes[j])
CornersKept == \A r \in ToSet(raw) : \E b \in ToSet(boxes) : b.x <= r.x /\ b.y <= r.y
NothingInvented ==
    \A b \in ToSet(boxes) :
        /\ \E r \in ToSet(raw) : r.x = b.x
        /\ \E r \in ToSet(raw) : r.y = b.y
        /\ \E r \in ToSet(raw) : Right(b) <= Right(r)
        /\ \E r \in ToSet(raw) : Bottom(b) <= Bottom(r)
WithinClip ==
    \A c \in Reported :
        c.x >= 0 /\ c.y >= 0 /\ Right(c) <= ClipSize.w /\ Bottom(c) <= ClipSize.h
MergedBoxes ==
    loop.pc = "done" => BoxesApart /\ CornersKept /\ NothingInvented /\ WithinClip
===============================================================================
