------------------------------ MODULE Drawing ------------------------------
(* What InterpolateEntities (game_state.cpp) computes, in closed form.     *)
EXTENDS Integers, Sequences

Embeds(s, t) ==     \* s is what is left of t when some elements are dropped
    \E f \in [1..Len(s) -> 1..Len(t)] :
      /\ \A k \in 1..Len(s) : t[f[k]] = s[k]
      /\ \A k, l \in 1..Len(s) : k < l => f[k] < f[l]

(* The entities of "new" that are drawn when the state before held "old":  *)
(* the longest beginning of new that has survived, in order, from old.     *)
Drawn(old, new) ==
    LET surviving == {n \in 0..Len(new) : Embeds(SubSeq(new, 1, n), old)}
    IN  SubSeq(new, 1, CHOOSE n \in surviving : \A m \in surviving : m <= n)

=============================================================================
