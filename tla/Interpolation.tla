--------------------------- MODULE Interpolation ---------------------------
(***************************************************************************)
(* InterpolateEntities (game_state.cpp): which entities of the next state  *)
(* are drawn, and which entity of the previous state each is blended with. *)
(* The loop walks both lists with 32-bit indices; on a mismatch it steps   *)
(* the second index back before the loop header steps both forward.        *)
(***************************************************************************)
EXTENDS Drawing

CONSTANTS
    Ids,            \* entity ids
    MaxEntities,    \* bound of the instance: the length of a list
    IndexRange      \* how many values an index has: 2^32 in the code

ASSUME InterpolationAssumption ==
    /\ Ids \subseteq Nat
    /\ MaxEntities \in Nat
    /\ IndexRange \in Nat /\ IndexRange > MaxEntities

VARIABLES
    prev, next,     \* ids of the two entity lists
    i, j,           \* 0-based indices into them
    drawn           \* index pairs blended so far: outInterpolated

vars == <<prev, next, i, j, drawn>>

(* A list never holds an id twice (ObjectIdsFresh of GameState).           *)
Lists ==
    UNION {{s \in [1..n -> Ids] : \A k, l \in 1..n : s[k] = s[l] => k = l}
             : n \in 0..MaxEntities}

Init ==
    /\ prev \in Lists /\ next \in Lists
    /\ i = 0 /\ j = 0
    /\ drawn = <<>>

Running == i < Len(prev) /\ j < Len(next)

(* Seeded faults: the second index is not stepped back; the first one is,  *)
(* too.                                                                    *)
Skip_BothIndices ==
    /\ Running /\ prev[i + 1] # next[j + 1]
    /\ i' = (i + 1) % IndexRange
    /\ j' = (j + 1) % IndexRange
    /\ UNCHANGED <<prev, next, drawn>>

Skip_Stuck ==
    /\ Running /\ prev[i + 1] # next[j + 1]
    /\ i' = (((i - 1) % IndexRange) + 1) % IndexRange
    /\ j' = (((j - 1) % IndexRange) + 1) % IndexRange
    /\ UNCHANGED <<prev, next, drawn>>

Skip ==
    /\ Running /\ prev[i + 1] # next[j + 1]
    /\ i' = (i + 1) % IndexRange
    /\ j' = (((j - 1) % IndexRange) + 1) % IndexRange
    /\ UNCHANGED <<prev, next, drawn>>

Blend ==
    /\ Running /\ prev[i + 1] = next[j + 1]
    /\ drawn' = Append(drawn, <<i + 1, j + 1>>)
    /\ i' = (i + 1) % IndexRange
    /\ j' = (j + 1) % IndexRange
    /\ UNCHANGED <<prev, next>>

Done == ~Running /\ UNCHANGED vars

Next == Skip \/ Blend \/ Done

Spec == Init /\ [][Next]_vars
FairSpec == Spec /\ WF_vars(Skip \/ Blend)

-----------------------------------------------------------------------------
(* Properties.                                                             *)

(* When the loop ends it has drawn the longest surviving beginning of the  *)
(* next list, each entity blended from its states in the two lists: one    *)
(* entity at the front that was not there before hides all those behind it. *)
DrawsLongestSurvivingPrefix ==
    ~Running =>
      /\ [k \in 1..Len(drawn) |-> prev[drawn[k][1]]] = Drawn(prev, next)
      /\ [k \in 1..Len(drawn) |-> next[drawn[k][2]]] = Drawn(prev, next)

(* Stepping the unsigned index back from zero does not derail the loop.    *)
LoopEnds == <>~Running

=============================================================================
