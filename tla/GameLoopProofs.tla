--------------------------- MODULE GameLoopProofs ---------------------------
(***************************************************************************)
(* The frame loop, proved for every time step, every menu of speeds and    *)
(* every bound on the cost of frames and time steps.                       *)
(***************************************************************************)
EXTENDS GameLoop, SequenceTheorems, TLAPS

(* A fastest speed exists, and is at least the default one.                *)
LEMMA FastestSpeed ==
    Fastest \in DtScales /\ Fastest \in Nat /\ \A t \in DtScales : t <= Fastest
BY LoopAssumption DEF Fastest

LEMMA FixedIsNat == Fixed \in Nat \ {0}
BY LoopAssumption DEF Fixed

(* The accumulator is never negative, and the bookkeeping stays in type.   *)
THEOREM TypeCorrect == Spec => []TypeOK
<1> USE LoopAssumption
<1>1. Init => TypeOK
  <2>1. <<>> \in Seq(1..MaxIssued)
    BY EmptySeq
  <2> QED BY <2>1 DEF Init, TypeOK
<1>2. ASSUME TypeOK, [Next]_vars PROVE TypeOK'
  <2> USE <1>2 DEF TypeOK
  <2>1. CASE BeginFrame
    <3>1. PICK delta \in 1..(FrameCost + StepCost * frameSteps) :
            accumulated' = accumulated + delta * scale
      BY <2>1 DEF BeginFrame
    <3>2. FrameCost + StepCost * frameSteps \in Nat
      OBVIOUS
    <3>3. delta \in Nat /\ scale \in Nat
      BY <3>2
    <3>4. delta * scale \in Nat
      BY <3>3
    <3>5. \A added \in Nat : accumulated + added \in Nat
      OBVIOUS
    <3>6. accumulated' \in Nat
      BY <3>1, <3>4, <3>5, Zenon
    <3> QED BY <2>1, <3>6 DEF BeginFrame
  <2>2. CASE TimeStep
    <3>1. executed \o queue \in Seq(1..MaxIssued)
      BY ConcatProperties
    <3>2. accumulated - Fixed \in Nat
      BY <2>2, FixedIsNat DEF TimeStep
    <3>3. <<>> \in Seq(1..MaxIssued)
      BY EmptySeq
    <3> QED BY <2>2, <3>1, <3>2, <3>3 DEF TimeStep
  <2>3. CASE StepsDone
    BY <2>3 DEF StepsDone
  <2>4. CASE IssueCommand
    <3>1. Append(queue, issued + 1) \in Seq(1..MaxIssued)
      BY <2>4, AppendProperties DEF IssueCommand
    <3> QED BY <2>4, <3>1 DEF IssueCommand
  <2>5. CASE SelectSpeed
    BY <2>5 DEF SelectSpeed
  <2>6. CASE EndFrame \/ Quit
    BY <2>6 DEF EndFrame, Quit
  <2>7. CASE UNCHANGED vars
    BY <2>7 DEF vars
  <2> QED
    BY <1>2, <2>1, <2>2, <2>3, <2>4, <2>5, <2>6, <2>7 DEF Next, Frame, Stopped
<1> QED BY <1>1, <1>2, PTL DEF Spec

(* The interpolation factor of every drawn frame is within 0..1.           *)
THEOREM DrawnBetweenSteps == Spec => []InterpolationInRange
<1>1. Init => InterpolationInRange
  BY FixedIsNat DEF Init, InterpolationInRange
<1>2. InterpolationInRange /\ [Next]_vars => InterpolationInRange'
  BY DEF InterpolationInRange, Next, Frame, BeginFrame, TimeStep, StepsDone,
         IssueCommand, SelectSpeed, EndFrame, Quit, Stopped, vars
<1> QED BY <1>1, <1>2, PTL DEF Spec

(* Appending to the second part of a concatenation appends to the whole.   *)
LEMMA ConcatAppend ==
  ASSUME NEW S, NEW s \in Seq(S), NEW t \in Seq(S), NEW e \in S
  PROVE  s \o Append(t, e) = Append(s \o t, e)
<1>1. Append(t, e) = t \o <<e>>
  BY AppendIsConcat
<1>2. s \o t \in Seq(S) /\ <<e>> \in Seq(S)
  BY ConcatProperties
<1>3. Append(s \o t, e) = (s \o t) \o <<e>>
  BY <1>2, AppendIsConcat
<1>4. (s \o t) \o <<e>> = s \o (t \o <<e>>)
  BY <1>2, ConcatAssociative
<1> QED BY <1>1, <1>3, <1>4

(* The numbers from 1 to n, and then n + 1, are those from 1 to n + 1.     *)
LEMMA CountOn ==
  ASSUME NEW n \in Nat
  PROVE  Append([i \in 1..n |-> i], n + 1) = [i \in 1..(n + 1) |-> i]
<1> DEFINE s == [i \in 1..n |-> i]
           t == [i \in 1..(n + 1) |-> i]
<1>1. s \in Seq(Nat) /\ Len(s) = n /\ t \in Seq(Nat) /\ Len(t) = n + 1
  BY IsASeq
<1>2. /\ Append(s, n + 1) \in Seq(Nat)
      /\ Len(Append(s, n + 1)) = n + 1
      /\ \A i \in 1..n : Append(s, n + 1)[i] = s[i]
      /\ Append(s, n + 1)[n + 1] = n + 1
  BY <1>1, AppendProperties
<1>3. \A i \in 1..(n + 1) : Append(s, n + 1)[i] = t[i]
  BY <1>2
<1> QED BY <1>1, <1>2, <1>3, SeqEqual

(* Every command is executed exactly once and in order.                    *)
THEOREM CommandsExactlyOnce == Spec => []ExactlyOnceInOrder
<1>1. Init => ExactlyOnceInOrder
  <2> SUFFICES ASSUME Init PROVE ExactlyOnceInOrder
    OBVIOUS
  <2>1. <<>> \o <<>> = <<>>
    BY ConcatEmptySeq, EmptySeq
  <2>2. [i \in 1..0 |-> i] = <<>>
    OBVIOUS
  <2> QED BY <2>1, <2>2 DEF Init, ExactlyOnceInOrder
<1>2. TypeOK /\ ExactlyOnceInOrder /\ [Next]_vars => ExactlyOnceInOrder'
  <2> SUFFICES ASSUME TypeOK, ExactlyOnceInOrder, [Next]_vars PROVE ExactlyOnceInOrder'
    OBVIOUS
  <2> DEFINE Numbers == 1..MaxIssued
  <2>1. executed \in Seq(Numbers) /\ queue \in Seq(Numbers) /\ issued \in Nat
    BY DEF TypeOK
  <2>2. CASE TimeStep
    <3>1. (executed \o queue) \o <<>> = executed \o queue
      BY <2>1, ConcatProperties, ConcatEmptySeq
    <3> QED BY <2>2, <3>1 DEF ExactlyOnceInOrder, TimeStep
  <2>3. CASE IssueCommand
    <3>1. executed \o Append(queue, issued + 1) = Append(executed \o queue, issued + 1)
      <4>1. issued + 1 \in Numbers
        BY <2>1, <2>3, LoopAssumption DEF IssueCommand
      <4> HIDE DEF Numbers
      <4> QED BY <2>1, <4>1, ConcatAppend
    <3>2. Append([i \in 1..issued |-> i], issued + 1) = [i \in 1..(issued + 1) |-> i]
      BY <2>1, CountOn
    <3> QED BY <2>3, <3>1, <3>2 DEF ExactlyOnceInOrder, IssueCommand
  <2>4. CASE BeginFrame
    BY <2>4 DEF ExactlyOnceInOrder, BeginFrame
  <2>5. CASE StepsDone
    BY <2>5 DEF ExactlyOnceInOrder, StepsDone
  <2>6. CASE SelectSpeed
    BY <2>6 DEF ExactlyOnceInOrder, SelectSpeed
  <2>7. CASE EndFrame \/ Quit
    BY <2>7 DEF ExactlyOnceInOrder, EndFrame, Quit
  <2>8. CASE UNCHANGED vars
    BY <2>8 DEF ExactlyOnceInOrder, vars
  <2> QED BY <2>2, <2>3, <2>4, <2>5, <2>6, <2>7, <2>8 DEF Next, Frame, Stopped
<1> QED BY <1>1, <1>2, TypeCorrect, PTL DEF Spec

(* The products in the bound on the time steps of a frame: the cost of a   *)
(* step at the fastest speed, and the time a frame may start with.         *)
Drag == StepCost * Fastest
Budget == Fixed + FrameCost * Fastest

LEMMA ProductsAreNat == Drag \in Nat /\ Budget \in Nat
BY FastestSpeed, FixedIsNat, LoopAssumption DEF Drag, Budget

LEMMA Monotone ==
  ASSUME NEW a \in Nat, NEW b \in Nat, NEW c \in Nat, NEW d \in Nat, a <= b, c <= d
  PROVE  a * c <= b * d
<1>1. a * c <= b * c
  OBVIOUS
<1>2. b * c <= b * d
  OBVIOUS
<1>3. a * c \in Nat /\ b * c \in Nat /\ b * d \in Nat
  OBVIOUS
<1> QED BY <1>1, <1>2, <1>3

(* If the frame before ran n steps within the bound k, and the time owed   *)
(* at its end plus the drag of its n steps covers this frame's f steps,    *)
(* then this frame is within the bound as well.                            *)
LEMMA BoundCarriesOver ==
  ASSUME NEW fixed \in Nat, NEW drag \in Nat, NEW k \in Nat,
         NEW n \in Nat, NEW f \in Nat, NEW rest \in Nat,
         n * (fixed - drag) <= k,
         f * fixed + rest <= k + drag * n
  PROVE  f * (fixed - drag) <= k
<1>1. f * (fixed - drag) = f * fixed - f * drag
  OBVIOUS
<1>2. f * fixed \in Nat /\ f * drag \in Nat /\ drag * n \in Nat
  OBVIOUS
<1>3. CASE n <= f
  <2>1. drag * n <= drag * f
    BY <1>3, Monotone
  <2>2. drag * f = f * drag
    OBVIOUS
  <2> QED BY <1>1, <1>2, <2>1, <2>2
<1>4. CASE f < n /\ drag <= fixed
  <2>1. fixed - drag \in Nat
    BY <1>4
  <2>2. f * (fixed - drag) <= n * (fixed - drag)
    BY <1>4, <2>1, Monotone
  <2>3. f * (fixed - drag) \in Nat /\ n * (fixed - drag) \in Nat
    BY <2>1
  <2> QED BY <2>2, <2>3
<1>5. CASE fixed < drag
  <2>1. f * fixed <= f * drag
    BY <1>5, Monotone
  <2> QED BY <1>1, <1>2, <2>1
<1> QED BY <1>3, <1>4, <1>5

(* The strengthening: between frames the bound holds of the frame that     *)
(* ended; while stepping, the time the frame started with was earned by a  *)
(* frame for which it held.                                                *)
SpiralInv ==
    /\ phase # "stepping" =>
         accumulated <= Fixed /\ frameSteps * (Fixed - Drag) <= Budget
    /\ phase = "stepping" =>
         \E n \in Nat : /\ n * (Fixed - Drag) <= Budget
                       /\ frameSteps * Fixed + accumulated <= Budget + Drag * n

(* The time steps of a frame stay bounded if a step is cheaper than the    *)
(* time it simulates.                                                      *)
THEOREM NoSpiral == Spec => []NoSpiralOfDeath
<1>1. Init => SpiralInv
  BY FixedIsNat, ProductsAreNat DEF Init, SpiralInv
<1>2. TypeOK /\ SpiralInv /\ [Next]_vars => SpiralInv'
  <2> SUFFICES ASSUME TypeOK, SpiralInv, [Next]_vars PROVE SpiralInv'
    OBVIOUS
  <2>0. /\ accumulated \in Nat /\ frameSteps \in Nat /\ scale \in DtScales
        /\ Fixed \in Nat /\ Drag \in Nat /\ Budget \in Nat
        /\ frameSteps * Fixed \in Nat
    BY FixedIsNat, ProductsAreNat DEF TypeOK
  <2>1. CASE BeginFrame
    <3>1. PICK delta \in 1..(FrameCost + StepCost * frameSteps) :
            accumulated' = accumulated + delta * scale
      BY <2>1 DEF BeginFrame
    <3>2. delta * scale <= FrameCost * Fastest + Drag * frameSteps
      <4> DEFINE cost == FrameCost + StepCost * frameSteps
      <4>1. cost \in Nat /\ delta \in Nat /\ delta <= cost
        BY <2>0, LoopAssumption
      <4>2. scale \in Nat /\ Fastest \in Nat /\ scale <= Fastest
        BY <2>0, FastestSpeed, LoopAssumption
      <4>3. delta * scale <= cost * Fastest
        <5> HIDE DEF cost
        <5> QED BY <4>1, <4>2, Monotone
      <4>4. cost * Fastest = FrameCost * Fastest + Drag * frameSteps
        BY <2>0, <4>2, LoopAssumption DEF Drag
      <4> QED BY <4>3, <4>4
    <3>3. accumulated <= Fixed /\ frameSteps * (Fixed - Drag) <= Budget
      BY <2>1 DEF BeginFrame, SpiralInv
    <3>4. /\ delta * scale \in Nat /\ FrameCost * Fastest \in Nat
          /\ Drag * frameSteps \in Nat
      BY <2>0, FastestSpeed, LoopAssumption
    <3>5. accumulated' <= Budget + Drag * frameSteps
      BY <2>0, <3>1, <3>2, <3>3, <3>4 DEF Budget
    <3>6. frameSteps' * Fixed + accumulated' = accumulated'
      <4>1. accumulated' \in Nat
        BY <2>0, <3>1, <3>4
      <4> QED BY <2>0, <2>1, <4>1 DEF BeginFrame
    <3> QED BY <2>0, <2>1, <3>3, <3>5, <3>6 DEF BeginFrame, SpiralInv
  <2>2. CASE TimeStep
    <3>1. PICK n \in Nat : /\ n * (Fixed - Drag) <= Budget
                           /\ frameSteps * Fixed + accumulated <= Budget + Drag * n
      BY <2>2 DEF TimeStep, SpiralInv
    <3>2. frameSteps' * Fixed + accumulated' = frameSteps * Fixed + accumulated
      <4>1. (frameSteps + 1) * Fixed = frameSteps * Fixed + Fixed
        BY <2>0
      <4> QED BY <2>0, <2>2, <4>1 DEF TimeStep
    <3> QED BY <2>2, <3>1, <3>2 DEF TimeStep, SpiralInv
  <2>3. CASE StepsDone
    <3>1. PICK n \in Nat : /\ n * (Fixed - Drag) <= Budget
                           /\ frameSteps * Fixed + accumulated <= Budget + Drag * n
      BY <2>3 DEF StepsDone, SpiralInv
    <3>2. frameSteps * (Fixed - Drag) <= Budget
      BY <2>0, <3>1, BoundCarriesOver
    <3> QED BY <2>3, <3>2 DEF StepsDone, SpiralInv
  <2>4. CASE IssueCommand
    BY <2>4 DEF IssueCommand, SpiralInv
  <2>5. CASE SelectSpeed
    BY <2>5 DEF SelectSpeed, SpiralInv
  <2>6. CASE EndFrame \/ Quit
    BY <2>6 DEF EndFrame, Quit, SpiralInv
  <2>7. CASE UNCHANGED vars
    BY <2>7 DEF vars, SpiralInv
  <2> QED BY <2>1, <2>2, <2>3, <2>4, <2>5, <2>6, <2>7 DEF Next, Frame, Stopped
<1>3. TypeOK /\ SpiralInv => NoSpiralOfDeath
  <2> SUFFICES ASSUME TypeOK, SpiralInv PROVE frameSteps * (Fixed - Drag) <= Budget
    BY DEF NoSpiralOfDeath, Drag, Budget
  <2>1. CASE phase # "stepping"
    BY <2>1 DEF SpiralInv
  <2>2. CASE phase = "stepping"
    <3>1. PICK n \in Nat : /\ n * (Fixed - Drag) <= Budget
                           /\ frameSteps * Fixed + accumulated <= Budget + Drag * n
      BY <2>2 DEF SpiralInv
    <3>2. accumulated \in Nat /\ frameSteps \in Nat /\ Fixed \in Nat
          /\ Drag \in Nat /\ Budget \in Nat
      BY FixedIsNat, ProductsAreNat DEF TypeOK
    <3> QED BY <3>1, <3>2, BoundCarriesOver
  <2> QED BY <2>1, <2>2
<1> QED BY <1>1, <1>2, <1>3, TypeCorrect, PTL DEF Spec

(* At speed zero nothing is added to an accumulator that holds no more     *)
(* than one time step.                                                     *)
PausedInv ==
    InterpolationInRange /\ (phase = "stepping" /\ scale = 0 => accumulated <= Fixed)

(* A paused game runs no time step.                                        *)
THEOREM PausedIsPaused == Spec => PausedRunsNothing
<1>1. Init => PausedInv
  BY FixedIsNat DEF Init, PausedInv, InterpolationInRange
<1>2. TypeOK /\ PausedInv /\ [Next]_vars => PausedInv'
  <2> SUFFICES ASSUME TypeOK, PausedInv, [Next]_vars PROVE PausedInv'
    OBVIOUS
  <2>1. CASE BeginFrame
    <3>1. PICK delta \in 1..(FrameCost + StepCost * frameSteps) :
            accumulated' = accumulated + delta * scale
      BY <2>1 DEF BeginFrame
    <3>2. scale = 0 => accumulated' = accumulated
      <4>1. delta \in Int /\ accumulated \in Nat
        BY DEF TypeOK
      <4> QED BY <3>1, <4>1
    <3> QED BY <2>1, <3>2 DEF BeginFrame, PausedInv, InterpolationInRange
  <2>2. CASE TimeStep
    <3>1. scale # 0 /\ scale' = scale
      BY <2>2, FixedIsNat DEF TimeStep, PausedInv, TypeOK
    <3> QED BY <2>2, <3>1 DEF TimeStep, PausedInv, InterpolationInRange
  <2>3. CASE StepsDone
    BY <2>3 DEF StepsDone, PausedInv, InterpolationInRange
  <2>4. CASE IssueCommand
    BY <2>4 DEF IssueCommand, PausedInv, InterpolationInRange
  <2>5. CASE SelectSpeed
    BY <2>5 DEF SelectSpeed, PausedInv, InterpolationInRange
  <2>6. CASE EndFrame \/ Quit
    BY <2>6 DEF EndFrame, Quit, PausedInv, InterpolationInRange
  <2>7. CASE UNCHANGED vars
    BY <2>7 DEF vars, PausedInv, InterpolationInRange
  <2> QED BY <2>1, <2>2, <2>3, <2>4, <2>5, <2>6, <2>7 DEF Next, Frame, Stopped
<1>3. TypeOK /\ PausedInv /\ [Next]_vars => [frameSteps' > frameSteps => scale > 0]_vars
  <2> SUFFICES ASSUME TypeOK, PausedInv, Next, frameSteps' > frameSteps PROVE scale > 0
    BY DEF vars
  <2>0. scale \in Nat /\ frameSteps \in Nat
    BY LoopAssumption DEF TypeOK
  <2>1. CASE TimeStep
    BY <2>0, <2>1, FixedIsNat DEF TimeStep, PausedInv, TypeOK
  <2>2. CASE ~TimeStep
    <3>1. frameSteps' = frameSteps \/ frameSteps' = 0
      BY <2>2 DEF Next, Frame, BeginFrame, StepsDone, EndFrame, Quit, IssueCommand,
                  SelectSpeed, Stopped, vars
    <3> QED BY <2>0, <3>1
  <2> QED BY <2>1, <2>2
<1> QED BY <1>1, <1>2, <1>3, TypeCorrect, PTL DEF Spec, PausedRunsNothing

=============================================================================
