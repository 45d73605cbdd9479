----------------------------- MODULE ListProofs -----------------------------
(***************************************************************************)
(* Facts about the operators that several models share: what a Total is    *)
(* made of (Tally), which entities are drawn (Drawing), and division.      *)
(***************************************************************************)
EXTENDS Tally, Drawing, FiniteSetTheorems, SequenceTheorems, TLAPS

(* Quotient and remainder.                                                 *)
LEMMA Division ==
    ASSUME NEW d \in Nat \ {0}, NEW n \in Int
    PROVE  \E q \in Int, r \in 0..d - 1 : n = d * q + r /\ q = n \div d /\ r = n % d
<1>1. PICK q \in Int : q = n \div d
  OBVIOUS
<1>2. d * q <= n /\ n < d * q + d
  BY <1>1
<1>3. PICK r \in 0..d - 1 : n = d * q + r
  BY <1>2
<1>4. n % d = r
  BY <1>3
<1> QED BY <1>1, <1>3, <1>4

LEMMA MoreIsMore ==
    ASSUME NEW c \in Nat, NEW a \in Int, NEW b \in Int, a <= b
    PROVE  c * a <= c * b
<1>1. PICK d \in Nat : b = a + d
  <2>1. b - a \in Nat /\ b = a + (b - a)
    OBVIOUS
  <2> QED BY <2>1
<1>2. c * b = c * a + c * d /\ c * d \in Nat /\ c * a \in Int
  BY <1>1
<1> QED BY <1>2

(* The functions that have a total.  A name keeps them in one piece for     *)
(* the provers.                                                            *)
Numbers(S) == [S -> Nat]

(* The items of one kind.                                                  *)
LEMMA OneKind ==
    ASSUME NEW s, NEW n \in Nat
    PROVE  IsFiniteSet({s} \X (1..n)) /\ Cardinality({s} \X (1..n)) = n
<1>1. IsFiniteSet({s}) /\ Cardinality({s}) = 1
  BY FS_Singleton
<1>2. IsFiniteSet(1..n) /\ Cardinality(1..n) = n
  BY FS_Interval
<1>3. IsFiniteSet({s} \X (1..n)) /\ Cardinality({s} \X (1..n)) = Cardinality({s}) * Cardinality(1..n)
  BY <1>1, <1>2, FS_Product
<1> QED BY <1>1, <1>2, <1>3

(* A total of finitely many numbers is a number.                           *)
LEMMA TotalIsNumber ==
    ASSUME NEW S, IsFiniteSet(S), NEW f \in Numbers(S)
    PROVE  IsFiniteSet(Items(f)) /\ Total(f) \in Nat
<1> USE DEF Numbers
<1> DEFINE Kinds == {{s} \X (1..f[s]) : s \in S}
<1>1. IsFiniteSet(Kinds)
  <2>1. IsFiniteSet({{s} \X (1..f[s]) : s \in S})
    <3> DEFINE g == [s \in S |-> {s} \X (1..f[s])]
    <3>1. g \in Surjection(S, Kinds)
      BY DEF Surjection
    <3> QED BY <3>1, FS_Surjection
  <2> QED BY <2>1
<1>2. \A T \in Kinds : IsFiniteSet(T)
  BY OneKind
<1>3. Items(f) = UNION Kinds
  BY DEF Items
<1>4. IsFiniteSet(UNION Kinds)
  BY <1>1, <1>2, FS_UNION
<1> QED BY <1>3, <1>4, FS_CardinalityType DEF Total

LEMMA TotalOfNothing == ASSUME NEW f \in Numbers({}) PROVE Total(f) = 0
<1>1. Items(f) = {}
  BY DEF Items, Numbers
<1> QED BY <1>1, FS_EmptySet DEF Total

(* One more summand.                                                       *)
LEMMA TotalWithOneMore ==
    ASSUME NEW S, IsFiniteSet(S), NEW x, x \notin S,
           NEW f \in Numbers(S), NEW g \in Numbers(S \cup {x}),
           \A s \in S : g[s] = f[s]
    PROVE  Total(g) = Total(f) + g[x]
<1> USE DEF Numbers
<1> DEFINE new == {x} \X (1..g[x])
<1>1. Items(g) = Items(f) \cup new
  BY DEF Items
<1>2. Items(f) \cap new = {}
  <2>1. \A p \in Items(f) : p[1] \in S
    BY DEF Items
  <2>2. \A p \in new : p[1] = x
    OBVIOUS
  <2> QED BY <2>1, <2>2
<1>3. IsFiniteSet(Items(f)) /\ Cardinality(Items(f)) \in Nat
  BY TotalIsNumber DEF Total
<1>4. IsFiniteSet(new) /\ Cardinality(new) = g[x]
  BY OneKind
<1>5. Cardinality(Items(f) \cup new)
        = Cardinality(Items(f)) + Cardinality(new) - Cardinality(Items(f) \cap new)
  BY <1>3, <1>4, FS_Union
<1>6. Cardinality({}) = 0 /\ g[x] \in Nat
  BY FS_EmptySet
<1> HIDE DEF new
<1>7. Cardinality(Items(g)) = Cardinality(Items(f)) + g[x] - 0
  BY <1>1, <1>2, <1>4, <1>5, <1>6, Zenon
<1>8. Total(f) \in Nat /\ Total(g) = Total(f) + g[x] - 0
  BY <1>3, <1>7, Zenon DEF Total
<1> QED BY <1>6, <1>8

(* Another value of one summand.                                           *)
LEMMA TotalWithAnother ==
    ASSUME NEW S, IsFiniteSet(S), NEW x \in S,
           NEW f \in Numbers(S), NEW g \in Numbers(S),
           \A s \in S \ {x} : g[s] = f[s]
    PROVE  Total(g) = Total(f) - f[x] + g[x]
<1> DEFINE R == S \ {x}
           h == [s \in R |-> f[s]]
<1>1. IsFiniteSet(R) /\ x \notin R /\ R \cup {x} = S
  BY FS_RemoveElement
<1>2. h \in Numbers(R)
  BY DEF Numbers
<1>3. (\A s \in R : f[s] = h[s]) /\ (\A s \in R : g[s] = h[s])
  OBVIOUS
<1>4. f \in Numbers(R \cup {x}) /\ g \in Numbers(R \cup {x})
  BY <1>1
<1>5. Total(h) \in Nat
  BY <1>1, <1>2, TotalIsNumber
<1> HIDE DEF h, R
<1>6. Total(f) = Total(h) + f[x]
  BY <1>1, <1>2, <1>3, <1>4, TotalWithOneMore
<1>7. Total(g) = Total(h) + g[x]
  BY <1>1, <1>2, <1>3, <1>4, TotalWithOneMore
<1>8. f[x] \in Nat /\ g[x] \in Nat
  BY DEF Numbers
<1> QED BY <1>5, <1>6, <1>7, <1>8

(* One more summand at the end of a list, which is how lists grow.         *)
LEMMA TotalOfLonger ==
    ASSUME NEW n \in Nat, NEW f \in Numbers(1..n), NEW g \in Numbers(1..n + 1),
           \A i \in 1..n : g[i] = f[i]
    PROVE  Total(g) = Total(f) + g[n + 1]
<1>1. IsFiniteSet(1..n)
  BY FS_Interval
<1>2. n + 1 \notin 1..n /\ 1..n \cup {n + 1} = 1..n + 1
  OBVIOUS
<1>3. g \in Numbers(1..n \cup {n + 1})
  BY <1>2
<1>4. n + 1 \notin 1..n
  BY <1>2
<1> QED BY <1>1, <1>3, <1>4, TotalWithOneMore, Zenon

(* How many elements of a list have a property: one more at its end.       *)
LEMMA CountOfLonger ==
    ASSUME NEW n \in Nat, NEW T, T \subseteq 1..n
    PROVE  /\ IsFiniteSet(T) /\ Cardinality(T) \in Nat
           /\ Cardinality(T \cup {n + 1}) = Cardinality(T) + 1
<1>1. IsFiniteSet(1..n)
  BY FS_Interval
<1>2. IsFiniteSet(T)
  BY <1>1, FS_Subset
<1>3. n + 1 \notin T
  OBVIOUS
<1> QED BY <1>2, <1>3, FS_AddElement, FS_CardinalityType

-----------------------------------------------------------------------------
(* Lists, whatever they hold.                                              *)
IsList(s) == \E S : s \in Seq(S)

LEMMA ListFacts ==
    ASSUME NEW s, IsList(s)
    PROVE  Len(s) \in Nat /\ s = [k \in 1..Len(s) |-> s[k]]
<1>1. PICK S : s \in Seq(S)
  BY DEF IsList
<1>2. \A n \in Nat : \A f \in [1..n -> S] : f = [k \in 1..n |-> f[k]]
  OBVIOUS
<1> QED BY <1>1, <1>2, LenProperties

LEMMA EmptyList == IsList(<<>>) /\ Len(<<>>) = 0
BY EmptySeq DEF IsList

LEMMA ListGrows ==
    ASSUME NEW s, IsList(s), NEW e
    PROVE  /\ IsList(Append(s, e)) /\ Len(s) \in Nat /\ Len(Append(s, e)) = Len(s) + 1
           /\ Append(s, e)[Len(s) + 1] = e
           /\ \A k \in 1..Len(s) : k \in 1..Len(Append(s, e)) /\ Append(s, e)[k] = s[k]
           /\ \A k \in 1..Len(Append(s, e)) : k \in 1..Len(s) \/ k = Len(s) + 1
<1>1. PICK S : s \in Seq(S)
  BY DEF IsList
<1> DEFINE T == S \cup {e}
<1>2. s \in Seq(T) /\ e \in T /\ Len(s) \in Nat
  BY <1>1
<1> HIDE DEF T
<1>3. /\ Append(s, e) \in Seq(T) /\ Len(Append(s, e)) = Len(s) + 1
      /\ Append(s, e)[Len(s) + 1] = e
      /\ \A k \in 1..Len(s) : Append(s, e)[k] = s[k]
  BY <1>2, AppendProperties
<1>4. IsList(Append(s, e))
  BY <1>3 DEF IsList
<1> QED BY <1>2, <1>3, <1>4

-----------------------------------------------------------------------------
(* What is drawn.  f finds the first n elements of new in old, in order.   *)
Finds(f, n, old, new) ==
    /\ \A k \in 1..n : old[f[k]] = new[k]
    /\ \A k, l \in 1..n : k < l => f[k] < f[l]

LEMMA PrefixEmbeds ==
    ASSUME NEW S, NEW old \in Seq(S), NEW new \in Seq(S), NEW n \in 0..Len(new)
    PROVE  Embeds(SubSeq(new, 1, n), old)
             <=> \E f \in [1..n -> 1..Len(old)] : Finds(f, n, old, new)
<1> DEFINE s == SubSeq(new, 1, n)
<1>1. Len(new) \in Nat
  BY LenProperties
<1>2. Len(s) = n /\ \A k \in 1..n : s[k] = new[k]
  BY <1>1
<1> HIDE DEF s
<1>3. Embeds(s, old) <=> \E f \in [1..n -> 1..Len(old)] : Finds(f, n, old, new)
  <2>1. \A f : Finds(f, n, old, new) <=> /\ \A k \in 1..Len(s) : old[f[k]] = s[k]
                                         /\ \A k, l \in 1..Len(s) : k < l => f[k] < f[l]
    BY <1>2 DEF Finds
  <2> QED BY <1>2, <2>1 DEF Embeds
<1> QED BY <1>3 DEF s

(* A beginning is drawn if it is found in the old list and nothing longer  *)
(* is.                                                                     *)
LEMMA LongestIsDrawn ==
    ASSUME NEW old, NEW new, NEW n \in 0..Len(new), Len(new) \in Nat,
           Embeds(SubSeq(new, 1, n), old),
           \A m \in 0..Len(new) : Embeds(SubSeq(new, 1, m), old) => m <= n
    PROVE  Drawn(old, new) = SubSeq(new, 1, n)
<1> DEFINE surviving == {m \in 0..Len(new) : Embeds(SubSeq(new, 1, m), old)}
           longest == CHOOSE m \in surviving : \A l \in surviving : l <= m
<1>1. n \in surviving /\ \A m \in surviving : m <= n
  OBVIOUS
<1>2. longest \in surviving /\ \A l \in surviving : l <= longest
  <2> HIDE DEF surviving
  <2> QED BY <1>1
<1>3. longest \in 0..Len(new) /\ longest <= n /\ n <= longest
  BY <1>1, <1>2
<1> HIDE DEF longest
<1>4. longest = n
  BY <1>3
<1> QED BY <1>4 DEF Drawn, longest

(* In particular if the element behind it is not in the old list at all.   *)
LEMMA DrawnUpToNewcomer ==
    ASSUME NEW S, NEW old \in Seq(S), NEW new \in Seq(S), NEW n \in 0..Len(new),
           NEW f \in [1..n -> 1..Len(old)], Finds(f, n, old, new),
           n < Len(new) => \A i \in 1..Len(old) : old[i] # new[n + 1]
    PROVE  Drawn(old, new) = SubSeq(new, 1, n)
<1>1. Len(new) \in Nat
  BY LenProperties
<1>2. Embeds(SubSeq(new, 1, n), old)
  BY PrefixEmbeds
<1>3. \A m \in 0..Len(new) : Embeds(SubSeq(new, 1, m), old) => m <= n
  <2> SUFFICES ASSUME NEW m \in 0..Len(new), Embeds(SubSeq(new, 1, m), old), ~(m <= n)
               PROVE  FALSE
    OBVIOUS
  <2>1. PICK g \in [1..m -> 1..Len(old)] : Finds(g, m, old, new)
    BY PrefixEmbeds
  <2>2. n + 1 \in 1..m /\ n < Len(new)
    BY <1>1
  <2>3. old[g[n + 1]] = new[n + 1] /\ g[n + 1] \in 1..Len(old)
    BY <2>1, <2>2 DEF Finds
  <2> QED BY <2>2, <2>3
<1> QED BY <1>1, <1>2, <1>3, LongestIsDrawn

=============================================================================
