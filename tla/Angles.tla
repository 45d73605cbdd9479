------------------------------- MODULE Angles -------------------------------
(***************************************************************************)
(* The rotation of one entity from time step to time step and, in between, *)
(* from frame to frame: VectorAngle, AngleVector and AngleLerp of math.h,  *)
(* as TimeStep and InterpolateEntities (game_state.cpp) use them.          *)
(*                                                                         *)
(* Angles are given by where they point: the directions are the points     *)
(* with whole coordinates on a circle, and an angle in general is its      *)
(* cosine with the half plane it lies in.  Rounding is left out.           *)
(***************************************************************************)
EXTENDS Integers

CONSTANTS
    Radius,             \* of the circle: the length that stands for 1
    Frames              \* amounts are multiples of 1 / Frames

ASSUME AnglesAssumption == Radius \in Nat \ {0} /\ Frames \in Nat \ {0}

VARIABLES
    from, to,           \* the entity's rotation in the last two states
    amount,             \* how far the frame is between them
    drawn               \* its rotation on the screen

vars == <<from, to, amount, drawn>>

Directions == {v \in [x : -Radius..Radius, y : -Radius..Radius] :
                 v.x * v.x + v.y * v.y = Radius * Radius}

Sign(n) == IF n > 0 THEN 1 ELSE IF n < 0 THEN -1 ELSE 0

(* acos(x) * sign(y), in degrees and made positive: on the axis it is 0,   *)
(* even to the left.  The vector's length is taken to be 1 in the scale.   *)
VectorAngle(v, one) ==
    IF v.y = 0 THEN [cos |-> one, side |-> 0] ELSE [cos |-> v.x, side |-> Sign(v.y)]

AngleVector(a) == CHOOSE v \in Directions : v.x = a.cos /\ Sign(v.y) = a.side

(* Seeded fault: the vectors are blended the wrong way round.              *)
AngleLerp_Backwards(a, b, t) ==
    LET va == AngleVector(a)
        vb == AngleVector(b)
    IN  VectorAngle([x |-> t * va.x + (Frames - t) * vb.x, y |-> t * va.y + (Frames - t) * vb.y],
                    Frames * Radius)
AngleLerp(a, b, t) ==
    LET va == AngleVector(a)
        vb == AngleVector(b)
    IN  VectorAngle([x |-> (Frames - t) * va.x + t * vb.x, y |-> (Frames - t) * va.y + t * vb.y],
                    Frames * Radius)

Init ==
    /\ from = VectorAngle([x |-> Radius, y |-> 0], Radius) /\ to = from
    /\ amount = 0
    /\ drawn = AngleLerp(from, to, amount)

TurnEntity ==           \* a time step; frames that lag run several of them
    /\ from' = to
    /\ \E v \in Directions : to' = VectorAngle(v, Radius)
    /\ \E t \in 0..Frames : amount' = t
    /\ drawn' = AngleLerp(from', to', amount')

DrawEntity ==           \* a frame without a time step
    /\ \E t \in amount + 1..Frames : amount' = t
    /\ drawn' = AngleLerp(from, to, amount')
    /\ UNCHANGED <<from, to>>

Next == TurnEntity \/ DrawEntity

Spec == Init /\ [][Next]_vars

-----------------------------------------------------------------------------
(* Properties.                                                             *)

(* The angle a in the scale of what is drawn.                              *)
Scaled(a) == [cos |-> Frames * a.cos, side |-> a.side]

(* What is drawn begins with the old rotation and ends with the new one;   *)
(* an entity that turns within the upper half, or within the lower one,    *)
(* is never drawn turned beyond either, and never turns back.              *)
SameHalf == from.side = to.side

TurnsSteadily ==
    [][ /\ amount' = 0 => drawn' = Scaled(from')
        /\ amount' = Frames => drawn' = Scaled(to')
        /\ SameHalf /\ <<from, to>>' = <<from, to>> =>
             /\ drawn'.side = to.side
             /\ (drawn'.cos - drawn.cos) * (to.cos - from.cos) >= 0 ]_vars

(* An entity that turns by less than half a circle is always drawn between *)
(* its old and its new rotation (on the axis, rounding decides).  With the *)
(* two rotations in different halves, the way leads over 0 degrees if      *)
(* their cosines add up to more than nothing, else over 180 degrees.       *)
Between(a, b, d) ==
    LET lo(m, n) == IF m < n THEN m ELSE n
        hi(m, n) == IF m < n THEN n ELSE m
    IN  \/ d.side = 0 \/ a.side = 0 \/ b.side = 0
        \/ a.side = b.side /\ d.side = a.side /\ d.cos \in lo(a.cos, b.cos)..hi(a.cos, b.cos)
        \/ a.side # b.side /\ a.cos + b.cos > 0 /\ d.cos >= (IF d.side = a.side THEN a.cos ELSE b.cos)
        \/ a.side # b.side /\ a.cos + b.cos < 0 /\ d.cos <= (IF d.side = a.side THEN a.cos ELSE b.cos)
        \/ a.side # b.side /\ a.cos + b.cos = 0

NeverTurnsAway == Between(Scaled(from), Scaled(to), drawn)

=============================================================================
