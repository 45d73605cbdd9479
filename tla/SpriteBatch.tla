---------------------------- MODULE SpriteBatch ----------------------------
(***************************************************************************)
(* RenderContextDX11::Submit (render_context_dx11.cpp) and the frame       *)
(* around it: a list of sprites becomes draw calls, each of sprites that   *)
(* share a texture and fit the instance buffer.  Positions, colours and    *)
(* the GPU state that is set once per call are left out.                   *)
(***************************************************************************)
EXTENDS Sequences, Tally

CONSTANTS
    Textures,           \* views of loaded textures, as numbers: the sort compares addresses
    Missing,            \* m_MissingTexture
    Layers,             \* sprite.layer
    MaxBatchSize,       \* MAX_BATCH_SIZE
    MaxSprites,         \* bounds of the instance: sprites in a list,
    MaxSubmits          \* and lists in a frame

NoTexture == 0          \* a null texture handle, and its sort key

ASSUME BatchAssumption ==
    /\ Textures \subseteq Nat \ {NoTexture}
    /\ Missing \in Nat \ {NoTexture} /\ Missing \notin Textures
    /\ Layers \subseteq Nat
    /\ MaxBatchSize \in Nat \ {0}
    /\ MaxSprites \in Nat /\ MaxSubmits \in Nat

VARIABLES
    phase,              \* where in the frame, or in Submit, the thread is
    list,               \* the draw list being submitted
    spriteIdx,          \* how many of its sprites have been copied
    currentTexture,     \* the view bound for the batch
    batch,              \* the mapped instance buffer, as far as it is written
    draws,              \* history: draw calls of this submit
    drawnBefore,        \* history: sprites drawn in this frame by earlier submits
    callsBefore,        \* history: draw calls of this frame in earlier submits
    submits,            \* history: lists submitted in this frame
    spriteCount, drawcallCount      \* m_Stats

statVars == <<spriteCount, drawcallCount>>
historyVars == <<drawnBefore, callsBefore, submits>>
vars == <<phase, list, spriteIdx, currentTexture, batch, draws, historyVars, statVars>>

Sprite == [texture : Textures \cup {NoTexture}, layer : Layers]

GetSpriteTexture(sprite) == IF sprite.texture # NoTexture THEN sprite.texture ELSE Missing

Init ==
    /\ phase = "frame"
    /\ list = <<>> /\ spriteIdx = 0
    /\ currentTexture = Missing /\ batch = <<>> /\ draws = <<>>
    /\ drawnBefore = 0 /\ callsBefore = 0 /\ submits = 0
    /\ spriteCount = 0 /\ drawcallCount = 0

(* The game hands over a list; Submit counts its sprites before drawing.   *)
BeginSubmit ==
    /\ phase = "frame" /\ submits < MaxSubmits
    /\ \E n \in 0..MaxSprites : list' \in [1..n -> Sprite]
    /\ spriteIdx' = 0 /\ draws' = <<>>
    /\ spriteCount' = spriteCount + Len(list')
    /\ submits' = submits + 1
    /\ \E sortBeforeRendering \in BOOLEAN :
         phase' = IF sortBeforeRendering THEN "sort" ELSE "draw"
    /\ drawnBefore' = drawnBefore + spriteIdx
    /\ callsBefore' = callsBefore + Len(draws)
    /\ UNCHANGED <<currentTexture, batch, drawcallCount>>

(* The comparison of SortForRendering.  It is no strict weak order: of two *)
(* sprites each can come before the other, for which the standard promises *)
(* nothing of std::sort.  A Direct3D build takes Microsoft's, which checks *)
(* its bounds itself and only ever moves elements: it leaves some          *)
(* permutation behind or, in a debug build, finds the order wrong, aborts. *)
Before(a, b) == a.layer < b.layer \/ a.texture < b.texture

Permutations(s) ==
    {[k \in 1..Len(s) |-> s[f[k]]] :
       f \in {g \in [1..Len(s) -> 1..Len(s)] :
                \A k, l \in 1..Len(s) : g[k] = g[l] => k = l}}

Consistent(s) == \A k, l \in 1..Len(s) : ~(Before(s[k], s[l]) /\ Before(s[l], s[k]))

SortForRendering ==
    /\ phase = "sort"
    /\ list' \in Permutations(list)
    /\ Consistent(list) => \A k, l \in 1..Len(list) : k < l => ~Before(list'[l], list'[k])
    /\ phase' \in IF Consistent(list) THEN {"draw"} ELSE {"draw", "aborted"}
    /\ UNCHANGED <<spriteIdx, currentTexture, batch, draws, historyVars, statVars>>

(* Seeded fault: a sprite without a texture is skipped, by a continue that *)
(* does not count it.                                                      *)
BeginBatch_Continues ==
    /\ phase = "draw" /\ spriteIdx < Len(list)
    /\ IF list[spriteIdx + 1].texture = NoTexture
       THEN UNCHANGED <<currentTexture, batch, phase>>
       ELSE /\ currentTexture' = list[spriteIdx + 1].texture
            /\ batch' = <<>>
            /\ phase' = "copy"
    /\ UNCHANGED <<list, spriteIdx, draws, historyVars, statVars>>

BeginBatch ==
    /\ phase = "draw" /\ spriteIdx < Len(list)
    /\ currentTexture' = GetSpriteTexture(list[spriteIdx + 1])
    /\ batch' = <<>>
    /\ phase' = "copy"
    /\ UNCHANGED <<list, spriteIdx, draws, historyVars, statVars>>

(* The do-while: the first sprite is copied whatever the counts are.       *)
MoreInBatch ==
    batch = <<>> \/ (Len(batch) < MaxBatchSize /\ spriteIdx < Len(list))

(* Seeded fault: textures are not compared.                                *)
SameTexture_Unchecked == TRUE
SameTexture == GetSpriteTexture(list[spriteIdx + 1]) = currentTexture

CopySprite ==
    /\ phase = "copy" /\ MoreInBatch /\ SameTexture
    /\ batch' = Append(batch, list[spriteIdx + 1])
    /\ spriteIdx' = spriteIdx + 1
    /\ UNCHANGED <<phase, list, currentTexture, draws, historyVars, statVars>>

(* Seeded fault: the sprite that did not fit is skipped.                   *)
DrawBatch_SkipsNext ==
    /\ phase = "copy" /\ ~(MoreInBatch /\ SameTexture)
    /\ draws' = Append(draws, [texture |-> currentTexture, sprites |-> batch])
    /\ spriteIdx' = spriteIdx + 1
    /\ drawcallCount' = drawcallCount + 1
    /\ phase' = "draw"
    /\ UNCHANGED <<list, currentTexture, batch, historyVars, spriteCount>>

DrawBatch ==
    /\ phase = "copy" /\ ~(MoreInBatch /\ SameTexture)
    /\ draws' = Append(draws, [texture |-> currentTexture, sprites |-> batch])
    /\ drawcallCount' = drawcallCount + 1
    /\ phase' = "draw"
    /\ UNCHANGED <<list, spriteIdx, currentTexture, batch, historyVars, spriteCount>>

EndSubmit ==
    /\ phase = "draw" /\ spriteIdx >= Len(list)
    /\ phase' = "frame"
    /\ UNCHANGED <<list, spriteIdx, currentTexture, batch, draws, historyVars, statVars>>

Present ==              \* the frame is shown, its statistics are handed out and reset
    /\ phase = "frame"
    /\ spriteCount' = 0 /\ drawcallCount' = 0
    /\ list' = <<>> /\ spriteIdx' = 0 /\ draws' = <<>>
    /\ drawnBefore' = 0 /\ callsBefore' = 0 /\ submits' = 0
    /\ UNCHANGED <<phase, currentTexture, batch>>

InSubmit == SortForRendering \/ BeginBatch \/ CopySprite \/ DrawBatch \/ EndSubmit

Aborted == phase = "aborted" /\ UNCHANGED vars

Next == BeginSubmit \/ InSubmit \/ Present \/ Aborted

(* Submit, once called, is ordinary sequential code: it runs on.           *)
Spec == Init /\ [][Next]_vars
FairSpec == Spec /\ WF_vars(InSubmit)

-----------------------------------------------------------------------------
(* Properties.                                                             *)

TypeOK ==
    /\ phase \in {"frame", "sort", "draw", "copy", "aborted"}
    /\ list \in Seq(Sprite)
    /\ spriteIdx \in 0..Len(list)
    /\ currentTexture \in Textures \cup {Missing}
    /\ batch \in Seq(Sprite)
    /\ draws \in Seq([texture : Textures \cup {Missing}, sprites : Seq(Sprite)])
    /\ drawnBefore \in Nat /\ callsBefore \in Nat /\ submits \in Nat
    /\ spriteCount \in Nat /\ drawcallCount \in Nat

(* The mapped instance buffer holds MAX_BATCH_SIZE sprites and is never    *)
(* written past its end, at whatever place the batches break.              *)
BatchFitsBuffer ==
    /\ Len(batch) <= MaxBatchSize
    /\ \A k \in 1..Len(draws) : Len(draws[k].sprites) \in 1..MaxBatchSize

(* Every sprite of the list is drawn exactly once, in the order of the     *)
(* list: later sprites cover earlier ones, across all draw calls.          *)
DrawnBy(n) == Total([k \in 1..n |-> Len(draws[k].sprites)])   \* the first n calls

InListOrder ==
    \A k \in 1..Len(draws) :
      \A m \in 1..Len(draws[k].sprites) : draws[k].sprites[m] = list[DrawnBy(k - 1) + m]

EverySpriteOnce ==
    /\ InListOrder
    /\ DrawnBy(Len(draws)) + (IF phase = "copy" THEN Len(batch) ELSE 0) = spriteIdx
    /\ phase = "frame" => spriteIdx = Len(list)

(* A draw call shows every one of its sprites with the texture the sprite  *)
(* asked for, the placeholder for a sprite that has none.                  *)
OwnTexture ==
    \A k \in 1..Len(draws) : \A m \in 1..Len(draws[k].sprites) :
      GetSpriteTexture(draws[k].sprites[m]) = draws[k].texture

(* No draw call is wasted: two in a row differ in texture, or the first    *)
(* one was full.                                                           *)
NoWastedDrawcall ==
    \A k \in 1..Len(draws) - 1 :
      draws[k].texture # draws[k + 1].texture \/ Len(draws[k].sprites) = MaxBatchSize

(* The statistics of a frame are those of what it drew, all submits of it  *)
(* together and none of the frame before.                                  *)
StatsOfThisFrame ==
    phase = "frame" =>
      /\ spriteCount = drawnBefore + spriteIdx
      /\ drawcallCount = callsBefore + Len(draws)

(* The loop without an increment ends: each batch takes at least one       *)
(* sprite.                                                                 *)
SubmitReturns == phase = "draw" ~> phase = "frame"

=============================================================================
