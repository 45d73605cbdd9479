------------------------ MODULE InterpolationProofs ------------------------
(***************************************************************************)
(* What InterpolateEntities draws, for lists of any length below the range *)
(* of an index.  That nothing longer could have been drawn speaks of every *)
(* way to find the next list in the previous one, so the invariant does,   *)
(* too: none of them is ahead of the loop.                                 *)
(***************************************************************************)
EXTENDS Interpolation, ListProofs

Positions ==
    /\ prev \in Lists /\ next \in Lists
    /\ i \in 0..Len(prev) /\ j \in 0..Len(next)
    /\ drawn \in Seq(Nat \X Nat) /\ Len(drawn) = j

(* The entities drawn so far are the first j of the next list, each found  *)
(* among the first i of the previous one, in order.                        *)
Found ==
    /\ \A k \in 1..j : /\ drawn[k][2] = k
                       /\ drawn[k][1] \in 1..i
                       /\ prev[drawn[k][1]] = next[k]
    /\ \A k, l \in 1..j : k < l => drawn[k][1] < drawn[l][1]

(* Whoever finds more than j entities finds the next one at i or later.    *)
NoneAhead ==
    \A n \in j + 1..Len(next) : \A f \in [1..n -> 1..Len(prev)] :
      Finds(f, n, prev, next) => f[j + 1] >= i + 1

WalkInv == Positions /\ Found /\ NoneAhead

LEMMA ListLengths ==
    ASSUME NEW s \in Lists
    PROVE  /\ s \in Seq(Ids) /\ s \in Seq(Nat)
           /\ Len(s) \in Nat /\ Len(s) < IndexRange /\ IndexRange \in Nat
           /\ \A k \in 1..Len(s) : s[k] \in Ids
<1>1. PICK n \in 0..MaxEntities : s \in [1..n -> Ids]
  BY DEF Lists
<1>2. n \in Nat /\ n < IndexRange /\ IndexRange \in Nat /\ Ids \subseteq Nat
  BY InterpolationAssumption
<1>3. \A k \in 1..n : s[k] \in Ids /\ s[k] \in Nat
  BY <1>1, <1>2
<1>4. s \in Seq(Ids) /\ s \in [1..n -> Nat]
  BY <1>1, <1>2, <1>3
<1>5. s \in Seq(Nat) /\ Len(s) = n
  BY <1>1, <1>2, <1>4
<1> QED BY <1>2, <1>3, <1>4, <1>5

(* The index arithmetic: a step forward stays in range, and a step back    *)
(* followed by a step forward is none, at zero, too.                       *)
LEMMA Forward ==
    ASSUME NEW R \in Nat, NEW x \in Nat, x < R
    PROVE  x % R = x
OBVIOUS

LEMMA BackAndForth ==
    ASSUME NEW R \in Nat, NEW x \in Nat, x < R
    PROVE  (((x - 1) % R) + 1) % R = x
<1>1. CASE x = 0
  <2>1. (x - 1) % R = R - 1
    BY <1>1
  <2>2. (R - 1) + 1 = R /\ R % R = 0
    OBVIOUS
  <2> QED BY <1>1, <2>1, <2>2
<1>2. CASE x > 0
  <2>1. (x - 1) % R = x - 1
    BY <1>2
  <2> QED BY <1>2, <2>1
<1> QED BY <1>1, <1>2

LEMMA WalkBegins == Init => WalkInv
<1> SUFFICES ASSUME Init PROVE WalkInv
  OBVIOUS
<1>1. /\ prev \in Lists /\ next \in Lists /\ i = 0 /\ j = 0 /\ drawn = <<>>
      /\ Len(prev) \in Nat /\ Len(next) \in Nat
  BY ListLengths DEF Init
<1>2. Positions
  BY <1>1, EmptySeq DEF Positions
<1>3. Found
  BY <1>1 DEF Found
<1>4. NoneAhead
  BY <1>1 DEF NoneAhead
<1> QED BY <1>2, <1>3, <1>4 DEF WalkInv

LEMMA WalkSkips ==
    ASSUME WalkInv, Skip
    PROVE  WalkInv'
<1>0. /\ prev \in Lists /\ next \in Lists /\ i \in Nat /\ j \in Nat
      /\ i < Len(prev) /\ j < Len(next) /\ prev[i + 1] # next[j + 1]
      /\ UNCHANGED <<prev, next, drawn>>
      /\ Len(prev) \in Nat /\ Len(next) \in Nat
      /\ Len(prev) < IndexRange /\ Len(next) < IndexRange /\ IndexRange \in Nat
  BY ListLengths DEF WalkInv, Positions, Skip, Running
<1>1. i' = i + 1 /\ j' = j
  <2>1. (i + 1) % IndexRange = i + 1
    BY <1>0, Forward
  <2>2. (((j - 1) % IndexRange) + 1) % IndexRange = j
    BY <1>0, BackAndForth
  <2> QED BY <2>1, <2>2 DEF Skip
<1>2. Positions'
  BY <1>0, <1>1 DEF WalkInv, Positions
<1>3. Found'
  BY <1>0, <1>1 DEF WalkInv, Found
<1>4. NoneAhead'
  <2> SUFFICES ASSUME NEW n \in j' + 1..Len(next'), NEW f \in [1..n -> 1..Len(prev')],
                      Finds(f, n, prev', next')
               PROVE  f[j' + 1] >= i' + 1
    BY DEF NoneAhead
  <2>0. /\ n \in j + 1..Len(next) /\ f \in [1..n -> 1..Len(prev)]
        /\ Finds(f, n, prev, next) /\ j' + 1 = j + 1 /\ i' + 1 = i + 2
    BY <1>0, <1>1
  <2>1. f[j + 1] >= i + 1
    BY <2>0 DEF WalkInv, NoneAhead
  <2>2. j + 1 \in 1..n /\ f[j + 1] \in Int
    BY <1>0, <2>0
  <2>3. prev[f[j + 1]] = next[j + 1]
    BY <2>0, <2>2 DEF Finds
  <2> QED BY <1>0, <2>0, <2>1, <2>2, <2>3
<1> QED BY <1>2, <1>3, <1>4 DEF WalkInv

LEMMA WalkBlends ==
    ASSUME WalkInv, Blend
    PROVE  WalkInv'
<1>0. /\ prev \in Lists /\ next \in Lists /\ i \in Nat /\ j \in Nat
      /\ i < Len(prev) /\ j < Len(next) /\ prev[i + 1] = next[j + 1]
      /\ UNCHANGED <<prev, next>>
      /\ drawn \in Seq(Nat \X Nat) /\ Len(drawn) = j
      /\ drawn' = Append(drawn, <<i + 1, j + 1>>)
      /\ Len(prev) \in Nat /\ Len(next) \in Nat
      /\ Len(prev) < IndexRange /\ Len(next) < IndexRange /\ IndexRange \in Nat
  BY ListLengths DEF WalkInv, Positions, Blend, Running
<1>1. i' = i + 1 /\ j' = j + 1
  <2>1. (i + 1) % IndexRange = i + 1
    BY <1>0, Forward
  <2>2. (j + 1) % IndexRange = j + 1
    BY <1>0, Forward
  <2> QED BY <2>1, <2>2 DEF Blend
<1>2. /\ drawn' \in Seq(Nat \X Nat) /\ Len(drawn') = j + 1
      /\ drawn'[j + 1] = <<i + 1, j + 1>>
      /\ \A k \in 1..j : drawn'[k] = drawn[k]
  BY <1>0, AppendProperties
<1>3. Positions'
  BY <1>0, <1>1, <1>2 DEF Positions
<1>4. Found'
  <2>1. ASSUME NEW k \in 1..j + 1
        PROVE  /\ drawn'[k][2] = k /\ drawn'[k][1] \in 1..i + 1
               /\ prev[drawn'[k][1]] = next[k]
    <3>1. CASE k = j + 1
      BY <1>0, <1>2, <3>1
    <3>2. CASE k \in 1..j
      BY <1>0, <1>2, <3>2 DEF WalkInv, Found
    <3>3. k \in 1..j \/ k = j + 1
      BY <1>0
    <3> QED BY <3>1, <3>2, <3>3
  <2>2. ASSUME NEW k \in 1..j + 1, NEW l \in 1..j + 1, k < l
        PROVE  drawn'[k][1] < drawn'[l][1]
    <3>0. k \in 1..j
      BY <1>0, <2>2
    <3>1. k \in 1..j /\ drawn'[k] = drawn[k] /\ drawn[k][1] \in 1..i
      BY <1>2, <3>0 DEF WalkInv, Found
    <3>2. CASE l = j + 1
      BY <1>0, <1>2, <3>1, <3>2
    <3>3. CASE l \in 1..j
      BY <1>0, <1>2, <2>2, <3>1, <3>3 DEF WalkInv, Found
    <3>4. l \in 1..j \/ l = j + 1
      BY <1>0
    <3> QED BY <3>2, <3>3, <3>4
  <2> QED BY <1>0, <1>1, <2>1, <2>2 DEF Found
<1>5. NoneAhead'
  <2> SUFFICES ASSUME NEW n \in j' + 1..Len(next'), NEW f \in [1..n -> 1..Len(prev')],
                      Finds(f, n, prev', next')
               PROVE  f[j' + 1] >= i' + 1
    BY DEF NoneAhead
  <2>0. /\ n \in j + 2..Len(next) /\ f \in [1..n -> 1..Len(prev)]
        /\ Finds(f, n, prev, next) /\ j' + 1 = j + 2 /\ i' + 1 = i + 2
    BY <1>0, <1>1
  <2>1. n \in j + 1..Len(next) /\ j + 1 \in 1..n /\ j + 2 \in 1..n
    BY <1>0, <2>0
  <2>2. f[j + 1] >= i + 1
    BY <2>0, <2>1 DEF WalkInv, NoneAhead
  <2>3. f[j + 1] \in 1..Len(prev) /\ f[j + 2] \in 1..Len(prev)
    BY <2>0, <2>1
  <2>4. f[j + 1] < f[j + 2]
    BY <1>0, <2>0, <2>1 DEF Finds
  <2>5. f[j + 2] >= i + 2
    BY <1>0, <2>2, <2>3, <2>4
  <2> QED BY <2>0, <2>5
<1> QED BY <1>3, <1>4, <1>5 DEF WalkInv

LEMMA WalkInvariant == Spec => []WalkInv
<1>1. WalkInv /\ [Next]_vars => WalkInv'
  <2>1. WalkInv /\ UNCHANGED vars => WalkInv'
    BY DEF WalkInv, Positions, Found, NoneAhead, vars
  <2> QED BY <2>1, WalkSkips, WalkBlends DEF Next, Done
<1> QED BY <1>1, WalkBegins, PTL DEF Spec

LEMMA LongestWhenDone ==
    ASSUME WalkInv, ~Running
    PROVE  Drawn(prev, next) = SubSeq(next, 1, j)
<1>0. /\ prev \in Seq(Ids) /\ next \in Seq(Ids)
      /\ Len(prev) \in Nat /\ Len(next) \in Nat
      /\ i \in 0..Len(prev) /\ j \in 0..Len(next)
  BY ListLengths DEF WalkInv, Positions
<1>1. i = Len(prev) \/ j = Len(next)
  BY <1>0 DEF Running
<1>2. PICK f \in [1..j -> 1..Len(prev)] : Finds(f, j, prev, next)
  <2> DEFINE f == [k \in 1..j |-> drawn[k][1]]
  <2>1. \A k \in 1..j : drawn[k][1] \in 1..Len(prev)
    BY <1>0 DEF WalkInv, Found
  <2>2. f \in [1..j -> 1..Len(prev)]
    BY <2>1
  <2>3. Finds(f, j, prev, next)
    BY DEF Finds, WalkInv, Found
  <2> QED BY <2>2, <2>3
<1>3. Embeds(SubSeq(next, 1, j), prev)
  BY <1>0, <1>2, PrefixEmbeds
<1>4. ASSUME NEW m \in 0..Len(next), Embeds(SubSeq(next, 1, m), prev), ~(m <= j)
      PROVE  FALSE
  <2>1. PICK g \in [1..m -> 1..Len(prev)] : Finds(g, m, prev, next)
    BY <1>0, <1>4, PrefixEmbeds
  <2>2. m \in j + 1..Len(next) /\ j + 1 \in 1..m
    BY <1>0, <1>4
  <2>3. g[j + 1] >= i + 1
    BY <2>1, <2>2 DEF WalkInv, NoneAhead
  <2>4. g[j + 1] \in 1..Len(prev)
    BY <2>1, <2>2
  <2> QED BY <1>0, <1>1, <2>2, <2>3, <2>4
<1>5. \A m \in 0..Len(next) : Embeds(SubSeq(next, 1, m), prev) => m <= j
  BY <1>4
<1> QED BY <1>0, <1>3, <1>5, LongestIsDrawn

(* Nothing that could have been drawn in order is left out: the loop draws *)
(* the longest beginning of the next list that survives from the previous, *)
(* each entity blended from its own two states.                            *)
THEOREM LongestPrefixDrawn == Spec => []DrawsLongestSurvivingPrefix
<1>1. WalkInv => DrawsLongestSurvivingPrefix
  <2> SUFFICES ASSUME WalkInv, ~Running
               PROVE  /\ [k \in 1..Len(drawn) |-> prev[drawn[k][1]]] = Drawn(prev, next)
                      /\ [k \in 1..Len(drawn) |-> next[drawn[k][2]]] = Drawn(prev, next)
    BY DEF DrawsLongestSurvivingPrefix
  <2>1. next \in Seq(Ids) /\ j \in 0..Len(next) /\ Len(next) \in Nat /\ Len(drawn) = j
    BY ListLengths DEF WalkInv, Positions
  <2>2. \A k \in 1..j : drawn[k][2] = k /\ prev[drawn[k][1]] = next[k]
    BY DEF WalkInv, Found
  <2>3. SubSeq(next, 1, j) = [k \in 1..j |-> next[k]]
    BY <2>1
  <2> QED BY <2>1, <2>2, <2>3, LongestWhenDone
<1> QED BY <1>1, WalkInvariant, PTL

=============================================================================
