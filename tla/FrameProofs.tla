---------------------------- MODULE FrameProofs ----------------------------
(***************************************************************************)
(* Submit and the frame around it, proved for every list, every set of     *)
(* textures and every size of the instance buffer.  First SpriteBatch by   *)
(* itself; then the frame's passes do to Submit's variables what           *)
(* SpriteBatch says, so what is proved of it holds of the frame; no buffer *)
(* is overrun; every draw call sees its own pass's bindings.               *)
(***************************************************************************)
EXTENDS Frame, ListProofs

Views == Textures \cup {Missing}
DrawCall == [texture : Views, sprites : Seq(Sprite)]

LEMMA TextureOfSprite == ASSUME NEW s \in Sprite PROVE GetSpriteTexture(s) \in Views
BY BatchAssumption DEF GetSpriteTexture, Sprite, Views, NoTexture

(* What is appended to a sequence is its last element, and the only change. *)
LEMMA Appended ==
    ASSUME NEW S, NEW s \in Seq(S), NEW e \in S
    PROVE /\ Append(s, e) \in Seq(S)
          /\ Len(Append(s, e)) = Len(s) + 1
          /\ \A k \in 1..Len(s) : Append(s, e)[k] = s[k]
          /\ Append(s, e)[Len(s) + 1] = e
          /\ Append(s, e) # <<>>
BY AppendProperties

(* The sort permutes the list: same length, same kind of elements.         *)
LEMMA SortedList ==
    ASSUME NEW s \in Seq(Sprite), NEW t \in Permutations(s)
    PROVE t \in Seq(Sprite) /\ Len(t) = Len(s)
<1>1. PICK f \in [1..Len(s) -> 1..Len(s)] : t = [k \in 1..Len(s) |-> s[f[k]]]
  BY DEF Permutations
<1>2. Len(s) \in Nat
  BY LenProperties
<1>3. \A k \in 1..Len(s) : s[f[k]] \in Sprite
  BY <1>1, ElementOfSeq
<1>4. t \in [1..Len(s) -> Sprite]
  BY <1>1, <1>3
<1> QED BY <1>2, <1>4

(* The list, the copied sprites and the statistics keep their types; the   *)
(* sprite that is read is always one of the list.                          *)
FirstOfBatch ==
    phase = "copy" /\ batch = <<>> =>
      /\ spriteIdx < Len(list)
      /\ GetSpriteTexture(list[spriteIdx + 1]) = currentTexture

LEMMA ReadsInList == Spec => [](TypeOK /\ FirstOfBatch)
<1> DEFINE TInv == TypeOK /\ FirstOfBatch
<1> USE DEF Views, DrawCall
<1>1. Init => TInv
  <2>1. /\ <<>> \in Seq(Sprite) /\ <<>> \in Seq(DrawCall)
        /\ Len(<<>>) = 0
    BY EmptySeq
  <2> QED BY <2>1 DEF Init, TypeOK, FirstOfBatch
<1>2. ASSUME TInv, [Next]_vars PROVE TInv'
  <2> USE <1>2 DEF TypeOK, FirstOfBatch
  <2>0. Len(list) \in Nat /\ Len(batch) \in Nat /\ Len(draws) \in Nat
    BY LenProperties
  <2>1. CASE BeginSubmit
    <3>1. PICK n \in 0..MaxSprites : list' \in [1..n -> Sprite]
      BY <2>1 DEF BeginSubmit
    <3>2. n \in Nat
      BY BatchAssumption
    <3>3. list' \in Seq(Sprite) /\ Len(list') \in Nat
      BY <3>1, <3>2, LenProperties
    <3>4. draws' = <<>> /\ <<>> \in Seq(DrawCall)
      BY <2>1, EmptySeq DEF BeginSubmit
    <3>5. spriteCount' \in Nat /\ callsBefore' \in Nat /\ drawnBefore' \in Nat /\ submits' \in Nat
      BY <2>1, <3>3, <2>0 DEF BeginSubmit
    <3>6. phase' \in {"sort", "draw"}
      BY <2>1 DEF BeginSubmit
    <3> QED BY <2>1, <3>3, <3>4, <3>5, <3>6 DEF BeginSubmit
  <2>2. CASE SortForRendering
    <3>1. list' \in Seq(Sprite) /\ Len(list') = Len(list)
      BY <2>2, SortedList DEF SortForRendering
    <3>2. phase' \in {"draw", "aborted"}
      BY <2>2 DEF SortForRendering
    <3> QED BY <2>2, <3>1, <3>2 DEF SortForRendering, historyVars, statVars
  <2>3. CASE BeginBatch
    <3>1. spriteIdx + 1 \in 1..Len(list)
      BY <2>3, <2>0 DEF BeginBatch
    <3>2. list[spriteIdx + 1] \in Sprite
      BY <3>1, ElementOfSeq
    <3>3. currentTexture' \in Views /\ currentTexture' = GetSpriteTexture(list[spriteIdx + 1])
      BY <2>3, <3>2, TextureOfSprite DEF BeginBatch
    <3>4. <<>> \in Seq(Sprite)
      BY EmptySeq
    <3> QED BY <2>3, <3>3, <3>4 DEF BeginBatch, historyVars, statVars
  <2>4. CASE CopySprite
    <3>1. spriteIdx < Len(list)
      BY <2>4 DEF CopySprite, MoreInBatch
    <3>2. list[spriteIdx + 1] \in Sprite
      BY <3>1, <2>0, ElementOfSeq
    <3>3. batch' \in Seq(Sprite) /\ batch' # <<>>
      BY <2>4, <3>2, Appended DEF CopySprite
    <3>4. spriteIdx' \in 0..Len(list)
      BY <2>4, <3>1, <2>0 DEF CopySprite
    <3> QED BY <2>4, <3>3, <3>4 DEF CopySprite, historyVars, statVars
  <2>5. CASE DrawBatch
    <3>1. [texture |-> currentTexture, sprites |-> batch] \in DrawCall
      OBVIOUS
    <3>2. draws' \in Seq(DrawCall)
      BY <2>5, <3>1, Appended DEF DrawBatch
    <3>3. drawcallCount' \in Nat
      BY <2>5 DEF DrawBatch
    <3> QED BY <2>5, <3>2, <3>3 DEF DrawBatch, historyVars
  <2>6. CASE EndSubmit
    BY <2>6 DEF EndSubmit, historyVars, statVars
  <2>7. CASE Present
    <3>1. <<>> \in Seq(Sprite) /\ <<>> \in Seq(DrawCall) /\ Len(<<>>) = 0
      BY EmptySeq
    <3> QED BY <2>7, <3>1 DEF Present
  <2>8. CASE UNCHANGED vars
    BY <2>8 DEF vars, historyVars, statVars
  <2> QED BY <1>2, <2>1, <2>2, <2>3, <2>4, <2>5, <2>6, <2>7, <2>8 DEF Next, InSubmit, Aborted
<1> QED BY <1>1, <1>2, PTL DEF Spec

(* The list, the buffer, the draw calls and the statistics keep their      *)
(* types, and the sprite that Submit looks at is one of the list.          *)
THEOREM TypeCorrect == Spec => []TypeOK
BY ReadsInList, PTL

(* A draw call never outgrows the buffer, and shows one texture, the one   *)
(* each of its sprites asked for; so does the batch being built.           *)
WellFormed(call) ==
    /\ Len(call.sprites) \in 1..MaxBatchSize
    /\ \A m \in 1..Len(call.sprites) : GetSpriteTexture(call.sprites[m]) = call.texture

BatchInv ==
    /\ Len(batch) <= MaxBatchSize
    /\ phase = "copy" => \A m \in 1..Len(batch) : GetSpriteTexture(batch[m]) = currentTexture
    /\ \A k \in 1..Len(draws) : WellFormed(draws[k])

LEMMA BatchInvariant == Spec => []BatchInv
<1>1. Init => BatchInv
  <2>1. Len(<<>>) = 0
    BY EmptySeq
  <2> QED BY <2>1, BatchAssumption DEF Init, BatchInv
<1>2. ASSUME TypeOK, FirstOfBatch, BatchInv, [Next]_vars PROVE BatchInv'
  <2> USE <1>2 DEF BatchInv
  <2>0. Len(list) \in Nat /\ Len(batch) \in Nat /\ Len(draws) \in Nat /\ Len(<<>>) = 0
    BY LenProperties, EmptySeq DEF TypeOK
  <2>1. CASE UNCHANGED <<batch, draws>> /\ phase' # "copy"
    BY <2>1
  <2>2. CASE UNCHANGED batch /\ draws' = <<>> /\ phase' # "copy"
    BY <2>0, <2>2
  <2>3. CASE BeginBatch
    BY <2>0, <2>3, BatchAssumption DEF BeginBatch
  <2>4. CASE CopySprite
    <3>1. list[spriteIdx + 1] \in Sprite
      BY <2>0, <2>4, ElementOfSeq DEF TypeOK, CopySprite, MoreInBatch, FirstOfBatch
    <3>2. Len(batch') = Len(batch) + 1
          /\ \A m \in 1..Len(batch) : batch'[m] = batch[m]
          /\ batch'[Len(batch) + 1] = list[spriteIdx + 1]
      BY <2>4, <3>1, Appended DEF CopySprite, TypeOK
    <3>3. Len(batch) < MaxBatchSize
      BY <2>0, <2>4, BatchAssumption DEF CopySprite, MoreInBatch
    <3>4. \A m \in 1..Len(batch') : GetSpriteTexture(batch'[m]) = currentTexture
      BY <2>0, <2>4, <3>2 DEF CopySprite, SameTexture
    <3> QED BY <2>0, <2>4, <3>2, <3>3, <3>4, BatchAssumption DEF CopySprite
  <2>5. CASE DrawBatch
    <3>1. batch # <<>>
      BY <2>5 DEF DrawBatch, MoreInBatch, SameTexture, FirstOfBatch
    <3>2. Len(batch) \in 1..MaxBatchSize
      BY <2>0, <3>1, EmptySeq, BatchAssumption DEF TypeOK
    <3> DEFINE call == [texture |-> currentTexture, sprites |-> batch]
    <3>3. call \in DrawCall /\ WellFormed(call)
      BY <2>5, <3>2 DEF TypeOK, DrawCall, Views, WellFormed, DrawBatch
    <3>4. /\ Len(draws') = Len(draws) + 1
          /\ \A k \in 1..Len(draws) : draws'[k] = draws[k]
          /\ draws'[Len(draws) + 1] = call
      <4> HIDE DEF call
      <4>1. draws \in Seq(DrawCall) /\ draws' = Append(draws, call)
        BY <2>5 DEF DrawBatch, TypeOK, DrawCall, Views, call
      <4> QED BY <3>3, <4>1, Appended
    <3>5. \A k \in 1..Len(draws') : WellFormed(draws'[k])
      <4> HIDE DEF call
      <4>1. TAKE k \in 1..Len(draws')
      <4>2. CASE k \in 1..Len(draws)
        BY <3>4, <4>2
      <4>3. CASE k = Len(draws) + 1
        BY <3>3, <3>4, <4>3
      <4> QED BY <2>0, <3>4, <4>1, <4>2, <4>3
    <3> QED BY <2>5, <3>5 DEF DrawBatch, WellFormed
  <2> QED BY <2>0, <2>1, <2>2, <2>3, <2>4, <2>5
        DEF Next, InSubmit, BeginSubmit, SortForRendering, EndSubmit, Present, Aborted, vars,
            historyVars, statVars
<1> QED BY <1>1, <1>2, ReadsInList, PTL DEF Spec

(* The mapped instance buffer is never written past its end.               *)
THEOREM FitsBuffer == Spec => []BatchFitsBuffer
<1>1. BatchInv => BatchFitsBuffer
  BY DEF BatchInv, WellFormed, BatchFitsBuffer
<1> QED BY <1>1, BatchInvariant, PTL

(* Every sprite is drawn with the texture it asked for.                    *)
THEOREM DrawnWithOwnTexture == Spec => []OwnTexture
<1>1. BatchInv => OwnTexture
  BY DEF BatchInv, WellFormed, OwnTexture
<1> QED BY <1>1, BatchInvariant, PTL

(* What the counters stand for at every point of a submit: the list's      *)
(* sprites are counted when it begins, each draw call when it is made.     *)
StatsInv ==
    /\ phase = "sort" => spriteIdx = 0 /\ draws = <<>>
    /\ phase = "frame" => spriteIdx = Len(list)
    /\ spriteCount = drawnBefore + Len(list)
    /\ drawcallCount = callsBefore + Len(draws)

LEMMA StatsInvariant == Spec => []StatsInv
<1>1. Init => StatsInv
  <2>1. Len(<<>>) = 0
    BY EmptySeq
  <2> QED BY <2>1 DEF Init, StatsInv
<1>2. ASSUME TypeOK, StatsInv, [Next]_vars PROVE StatsInv'
  <2> USE <1>2 DEF StatsInv
  <2>0. Len(list) \in Nat /\ Len(draws) \in Nat /\ Len(<<>>) = 0
    BY LenProperties, EmptySeq DEF TypeOK
  <2>1. CASE BeginSubmit
    <3>1. phase' \in {"sort", "draw"}
      BY <2>1 DEF BeginSubmit
    <3>2. spriteIdx' = 0 /\ draws' = <<>>
      BY <2>1 DEF BeginSubmit
    <3>3. spriteCount' = drawnBefore' + Len(list')
      BY <2>1 DEF BeginSubmit
    <3>4. drawcallCount' = callsBefore' + Len(draws')
      BY <2>0, <2>1, <3>2 DEF BeginSubmit, TypeOK
    <3> QED BY <3>1, <3>2, <3>3, <3>4
  <2>2. CASE SortForRendering
    <3>1. Len(list') = Len(list)
      BY <2>2, SortedList DEF SortForRendering, TypeOK
    <3> QED BY <2>2, <3>1 DEF SortForRendering, historyVars, statVars
  <2>3. CASE BeginBatch
    BY <2>3 DEF BeginBatch, historyVars, statVars
  <2>4. CASE CopySprite
    BY <2>4 DEF CopySprite, historyVars, statVars
  <2>5. CASE DrawBatch
    <3> DEFINE call == [texture |-> currentTexture, sprites |-> batch]
    <3>1. call \in DrawCall /\ draws \in Seq(DrawCall) /\ draws' = Append(draws, call)
      BY <2>5 DEF DrawBatch, TypeOK, DrawCall, Views
    <3> HIDE DEF call
    <3>2. Len(draws') = Len(draws) + 1
      BY <3>1, Appended
    <3> QED BY <2>0, <2>5, <3>2 DEF DrawBatch, TypeOK, historyVars
  <2>6. CASE EndSubmit
    BY <2>0, <2>6 DEF EndSubmit, TypeOK, historyVars, statVars
  <2>7. CASE Present
    BY <2>0, <2>7 DEF Present
  <2>8. CASE UNCHANGED vars
    BY <2>8 DEF vars, historyVars, statVars
  <2> QED BY <2>1, <2>2, <2>3, <2>4, <2>5, <2>6, <2>7, <2>8 DEF Next, InSubmit, Aborted
<1> QED BY <1>1, <1>2, TypeCorrect, PTL DEF Spec

(* The statistics are those of the frame that is presented.                *)
THEOREM FrameStatistics == Spec => []StatsOfThisFrame
<1>1. StatsInv => StatsOfThisFrame
  BY DEF StatsInv, StatsOfThisFrame
<1> QED BY <1>1, StatsInvariant, PTL

(* A batch ends for a reason: it is full, or the list is at its end, or    *)
(* the sprite that comes next has another texture.  While the next batch   *)
(* is copied the reason is remembered in the texture that is bound.        *)
Closed(call, next) == Len(call.sprites) = MaxBatchSize \/ call.texture # next

NoWasteInv ==
    /\ \A k \in 1..Len(draws) - 1 : Closed(draws[k], draws[k + 1].texture)
    /\ phase = "draw" /\ draws # <<>> /\ spriteIdx < Len(list) =>
         Closed(draws[Len(draws)], GetSpriteTexture(list[spriteIdx + 1]))
    /\ phase = "copy" /\ draws # <<>> => Closed(draws[Len(draws)], currentTexture)

(* No draw call is made that the one before could have taken in.           *)
THEOREM BatchesAreMaximal == Spec => []NoWastedDrawcall
<1>1. Init => NoWasteInv
  <2>1. Len(<<>>) = 0
    BY EmptySeq
  <2> QED BY <2>1 DEF Init, NoWasteInv
<1>2. ASSUME TypeOK, FirstOfBatch, BatchInv, StatsInv, NoWasteInv, [Next]_vars PROVE NoWasteInv'
  <2> USE <1>2 DEF NoWasteInv
  <2>0. Len(list) \in Nat /\ Len(batch) \in Nat /\ Len(draws) \in Nat /\ Len(<<>>) = 0
    BY LenProperties, EmptySeq DEF TypeOK
  <2>1. CASE draws' = <<>>
    BY <2>0, <2>1
  <2>2. CASE SortForRendering
    <3>1. draws' = <<>>
      BY <2>2 DEF SortForRendering, StatsInv
    <3> QED BY <2>1, <3>1
  <2>3. CASE BeginBatch
    BY <2>3 DEF BeginBatch
  <2>4. CASE CopySprite
    BY <2>4 DEF CopySprite
  <2>5. CASE DrawBatch
    <3> DEFINE call == [texture |-> currentTexture, sprites |-> batch]
    <3>1. /\ call \in DrawCall /\ draws \in Seq(DrawCall) /\ draws' = Append(draws, call)
          /\ call.texture = currentTexture /\ call.sprites = batch
      BY <2>5 DEF DrawBatch, TypeOK, DrawCall, Views
    <3>2. Closed(call, GetSpriteTexture(list[spriteIdx + 1])) \/ spriteIdx >= Len(list)
      <4>1. ~(MoreInBatch /\ SameTexture)
        BY <2>5 DEF DrawBatch
      <4>2. CASE ~MoreInBatch
        <5>1. Len(batch) >= MaxBatchSize \/ spriteIdx >= Len(list)
          BY <2>0, <4>2, BatchAssumption DEF MoreInBatch, TypeOK
        <5>2. Len(batch) <= MaxBatchSize
          BY DEF BatchInv
        <5> QED BY <2>0, <3>1, <5>1, <5>2, BatchAssumption DEF Closed
      <4>3. CASE ~SameTexture
        BY <3>1, <4>3 DEF SameTexture, Closed
      <4> QED BY <4>1, <4>2, <4>3
    <3> HIDE DEF call
    <3>3. /\ Len(draws') = Len(draws) + 1
          /\ \A k \in 1..Len(draws) : draws'[k] = draws[k]
          /\ draws'[Len(draws) + 1] = call
      BY <3>1, Appended
    <3>4. \A k \in 1..Len(draws') - 1 : Closed(draws'[k], draws'[k + 1].texture)
      <4>1. TAKE k \in 1..Len(draws') - 1
      <4>2. CASE k \in 1..Len(draws) - 1
        BY <2>0, <3>3, <4>2
      <4>3. CASE k = Len(draws)
        <5>1. draws # <<>> /\ k \in 1..Len(draws)
          BY <2>0, <4>1, <4>3
        <5>2. Closed(draws[k], currentTexture)
          BY <2>5, <4>3, <5>1 DEF DrawBatch
        <5> QED BY <3>1, <3>3, <4>3, <5>1, <5>2
      <4> QED BY <2>0, <3>3, <4>1, <4>2, <4>3
    <3> QED BY <2>0, <2>5, <3>2, <3>3, <3>4 DEF DrawBatch, TypeOK
  <2>6. CASE EndSubmit
    BY <2>6 DEF EndSubmit
  <2>7. CASE UNCHANGED vars
    BY <2>7 DEF vars, historyVars, statVars
  <2> QED BY <2>1, <2>2, <2>3, <2>4, <2>5, <2>6, <2>7
        DEF Next, InSubmit, BeginSubmit, Present, Aborted
<1>3. NoWasteInv => NoWastedDrawcall
  BY DEF NoWasteInv, NoWastedDrawcall, Closed
<1> QED BY <1>1, <1>2, <1>3, ReadsInList, BatchInvariant, StatsInvariant, PTL DEF Spec

-----------------------------------------------------------------------------
(* Every sprite once.  How much the first n calls draw is a sum of lengths *)
(* and depends on those calls alone.                                       *)
Lengths(calls, n) == [k \in 1..n |-> Len(calls[k].sprites)]

LEMMA LengthsAreNumbers ==
    ASSUME NEW calls \in Seq(DrawCall), NEW n \in 0..Len(calls)
    PROVE  Lengths(calls, n) \in Numbers(1..n)
<1>1. \A k \in 1..n : k \in 1..Len(calls)
  BY LenProperties
<1>2. \A k \in 1..n : Len(calls[k].sprites) \in Nat
  BY <1>1, ElementOfSeq, LenProperties DEF DrawCall
<1> QED BY <1>2 DEF Lengths, Numbers

LEMMA DrawnByIsNumber ==
    ASSUME TypeOK, NEW n \in 0..Len(draws)
    PROVE  DrawnBy(n) \in Nat
<1>1. draws \in Seq(DrawCall)
  BY DEF TypeOK, DrawCall, Views
<1>2. n \in Nat /\ IsFiniteSet(1..n)
  BY <1>1, LenProperties, FS_Interval
<1>3. Lengths(draws, n) \in Numbers(1..n)
  BY <1>1, LengthsAreNumbers
<1> QED BY <1>2, <1>3, TotalIsNumber DEF DrawnBy, Lengths

(* While sprites are copied the batch holds those that follow what has     *)
(* been drawn.                                                             *)
OnceInv ==
    /\ InListOrder
    /\ DrawnBy(Len(draws)) + (IF phase = "copy" THEN Len(batch) ELSE 0) = spriteIdx
    /\ phase = "copy" =>
         \A m \in 1..Len(batch) : batch[m] = list[DrawnBy(Len(draws)) + m]

LEMMA NothingDrawn == Len(<<>>) = 0 /\ 1..0 = {} /\ Total(Lengths(<<>>, 0)) = 0
<1>1. Len(<<>>) = 0 /\ 1..0 = {}
  BY EmptySeq
<1>2. Lengths(<<>>, 0) \in Numbers({})
  BY <1>1 DEF Lengths, Numbers
<1> QED BY <1>1, <1>2, TotalOfNothing

(* The draw call just made is the batch, and what it adds is its length.   *)
LEMMA OnceDrawn ==
    ASSUME TypeOK, OnceInv, DrawBatch
    PROVE  OnceInv'
<1> DEFINE call == [texture |-> currentTexture, sprites |-> batch]
           n == Len(draws)
<1>1. call \in DrawCall /\ draws \in Seq(DrawCall) /\ draws' = Append(draws, call)
  BY DEF DrawBatch, TypeOK, DrawCall, Views
<1>2. /\ n \in Nat /\ Len(draws') = n + 1 /\ draws' \in Seq(DrawCall)
      /\ \A k \in 1..n : draws'[k] = draws[k]
      /\ draws'[n + 1].sprites = batch
  <2>1. call.sprites = batch
    OBVIOUS
  <2> HIDE DEF call
  <2> QED BY <1>1, <2>1, Appended, LenProperties
<1>3. /\ phase = "copy" /\ phase' # "copy"
      /\ list' = list /\ spriteIdx' = spriteIdx /\ Len(batch) \in Nat
  BY LenProperties DEF DrawBatch, TypeOK
<1> HIDE DEF call
<1>4. \A k \in 0..n : DrawnBy(k)' = DrawnBy(k)
  <2> SUFFICES ASSUME NEW k \in 0..n PROVE Lengths(draws', k) = Lengths(draws, k)
    BY DEF DrawnBy, Lengths
  <2>1. \A j \in 1..k : j \in 1..n
    BY <1>2
  <2> QED BY <1>2, <2>1 DEF Lengths
<1>5. Total(Lengths(draws', n + 1)) = Total(Lengths(draws, n)) + Len(batch)
  <2>1. n \in 0..Len(draws) /\ n + 1 \in 0..Len(draws')
    BY <1>2
  <2>2. Lengths(draws, n) \in Numbers(1..n)
    BY <1>1, <2>1, LengthsAreNumbers
  <2>3. Lengths(draws', n + 1) \in Numbers(1..n + 1)
    BY <1>2, <2>1, LengthsAreNumbers
  <2>4. \A i \in 1..n : Lengths(draws', n + 1)[i] = Lengths(draws, n)[i]
    BY <1>2 DEF Lengths
  <2>5. Lengths(draws', n + 1)[n + 1] = Len(batch)
    BY <1>2 DEF Lengths
  <2>6. Total(Lengths(draws', n + 1)) = Total(Lengths(draws, n)) + Lengths(draws', n + 1)[n + 1]
    BY <1>2, <2>2, <2>3, <2>4, TotalOfLonger
  <2> QED BY <2>5, <2>6
<1>6. DrawnBy(Len(draws))' = DrawnBy(n) + Len(batch)
  BY <1>2, <1>5 DEF DrawnBy, Lengths
<1>7. InListOrder'
  <2> SUFFICES ASSUME NEW k \in 1..n + 1, NEW m \in 1..Len(draws'[k].sprites)
               PROVE  draws'[k].sprites[m] = list[DrawnBy(k - 1)' + m]
    BY <1>2, <1>3 DEF InListOrder
  <2>1. k - 1 \in 0..n
    BY <1>2
  <2>2. DrawnBy(k - 1)' = DrawnBy(k - 1)
    BY <1>4, <2>1
  <2>3. CASE k \in 1..n
    BY <1>2, <2>2, <2>3 DEF OnceInv, InListOrder
  <2>4. CASE k = n + 1
    <3>1. draws'[k].sprites = batch /\ k - 1 = n
      BY <1>2, <2>4
    <3> QED BY <1>3, <2>2, <3>1 DEF OnceInv
  <2> QED BY <1>2, <2>3, <2>4
<1>8. DrawnBy(n) \in Nat
  BY <1>2, DrawnByIsNumber
<1>9. DrawnBy(Len(draws))' + 0 = spriteIdx'
  BY <1>3, <1>6, <1>8 DEF OnceInv
<1> QED BY <1>3, <1>7, <1>9 DEF OnceInv

LEMMA OnceCopied ==
    ASSUME TypeOK, FirstOfBatch, OnceInv, CopySprite
    PROVE  OnceInv'
<1>1. /\ phase = "copy" /\ phase' = "copy" /\ list' = list /\ draws' = draws
      /\ spriteIdx' = spriteIdx + 1 /\ batch' = Append(batch, list[spriteIdx + 1])
      /\ batch \in Seq(Sprite) /\ Len(list) \in Nat /\ Len(batch) \in Nat /\ Len(draws) \in Nat
  BY LenProperties DEF CopySprite, TypeOK
<1>2. list[spriteIdx + 1] \in Sprite
  BY <1>1, ElementOfSeq DEF TypeOK, CopySprite, MoreInBatch, FirstOfBatch
<1>3. /\ Len(batch') = Len(batch) + 1
      /\ \A m \in 1..Len(batch) : batch'[m] = batch[m]
      /\ batch'[Len(batch) + 1] = list[spriteIdx + 1]
  BY <1>1, <1>2, Appended
<1>4. DrawnBy(Len(draws)) \in Nat /\ DrawnBy(Len(draws)) + Len(batch) = spriteIdx
  BY <1>1, DrawnByIsNumber DEF OnceInv
<1>5. DrawnBy(Len(draws))' = DrawnBy(Len(draws)) /\ InListOrder'
  BY <1>1 DEF DrawnBy, InListOrder, OnceInv
<1>6. \A m \in 1..Len(batch') : batch'[m] = list[DrawnBy(Len(draws)) + m]
  <2> SUFFICES ASSUME NEW m \in 1..Len(batch) + 1
               PROVE  batch'[m] = list[DrawnBy(Len(draws)) + m]
    BY <1>3
  <2>1. CASE m \in 1..Len(batch)
    BY <1>1, <1>3, <2>1 DEF OnceInv
  <2>2. CASE m = Len(batch) + 1
    <3>1. DrawnBy(Len(draws)) + m = spriteIdx + 1
      BY <1>1, <1>4, <2>2
    <3> QED BY <1>3, <2>2, <3>1
  <2> QED BY <1>1, <2>1, <2>2
<1>7. DrawnBy(Len(draws)) + Len(batch') = spriteIdx'
  BY <1>1, <1>3, <1>4
<1> QED BY <1>1, <1>5, <1>6, <1>7 DEF OnceInv

LEMMA OnceInvariant == Spec => []OnceInv
<1>1. Init => OnceInv
  BY NothingDrawn DEF Init, OnceInv, InListOrder, DrawnBy, Lengths
<1>2. ASSUME TypeOK, FirstOfBatch, StatsInv, OnceInv, [Next]_vars PROVE OnceInv'
  <2>0. Len(draws) \in Nat /\ DrawnBy(Len(draws)) \in Nat /\ Len(<<>>) = 0
    <3>1. Len(draws) \in Nat
      BY <1>2, LenProperties DEF TypeOK
    <3>2. Len(draws) \in 0..Len(draws)
      BY <3>1
    <3> QED BY <1>2, <3>1, <3>2, DrawnByIsNumber, EmptySeq
  <2>1. CASE draws' = <<>> /\ spriteIdx' = 0 /\ phase' # "copy"
    <3>1. DrawnBy(Len(draws))' = 0 /\ InListOrder'
      BY <2>1, NothingDrawn DEF DrawnBy, Lengths, InListOrder
    <3> QED BY <2>1, <3>1 DEF OnceInv
  <2>2. CASE /\ UNCHANGED <<list, draws, spriteIdx>>
             /\ "copy" \notin {phase, phase'} \/ UNCHANGED <<phase, batch>>
    <3>1. DrawnBy(Len(draws))' = DrawnBy(Len(draws)) /\ (InListOrder' <=> InListOrder)
      BY <2>2 DEF DrawnBy, InListOrder
    <3> QED BY <1>2, <2>2, <3>1 DEF OnceInv
  <2>3. CASE SortForRendering
    <3>1. draws' = <<>> /\ spriteIdx' = 0 /\ phase' # "copy"
      BY <1>2, <2>3 DEF SortForRendering, StatsInv
    <3> QED BY <2>1, <3>1
  <2>4. CASE BeginBatch
    <3>1. /\ phase # "copy" /\ batch' = <<>> /\ UNCHANGED <<list, draws, spriteIdx>>
      BY <2>4 DEF BeginBatch
    <3>2. DrawnBy(Len(draws))' = DrawnBy(Len(draws)) /\ InListOrder' /\ Len(batch') = 0
      BY <1>2, <2>0, <3>1 DEF DrawnBy, InListOrder, OnceInv
    <3>3. DrawnBy(Len(draws)) + 0 = spriteIdx
      BY <1>2, <3>1 DEF OnceInv
    <3> QED BY <2>0, <3>1, <3>2, <3>3 DEF OnceInv
  <2>5. CASE CopySprite
    BY <1>2, <2>5, OnceCopied
  <2>6. CASE DrawBatch
    BY <1>2, <2>6, OnceDrawn
  <2>7. CASE BeginSubmit \/ Present
    BY <2>1, <2>7 DEF BeginSubmit, Present
  <2>8. CASE EndSubmit
    BY <2>2, <2>8 DEF EndSubmit
  <2>9. CASE Aborted \/ UNCHANGED vars
    BY <2>2, <2>9 DEF Aborted, vars
  <2> QED BY <1>2, <2>3, <2>4, <2>5, <2>6, <2>7, <2>8, <2>9 DEF Next, InSubmit
<1> QED BY <1>1, <1>2, ReadsInList, StatsInvariant, PTL DEF Spec

(* Every sprite of a list is drawn once, in the order of the list, however *)
(* it is cut into draw calls; nothing is left over when Submit returns.    *)
THEOREM SpritesDrawnOnce == Spec => []EverySpriteOnce
<1>1. OnceInv /\ StatsInv => EverySpriteOnce
  BY DEF OnceInv, StatsInv, EverySpriteOnce
<1> QED BY <1>1, OnceInvariant, StatsInvariant, PTL


-----------------------------------------------------------------------------
(* Every step of the frame is a step of Submit's specification, or none.   *)

LEMMA StepSimulates == FrameNext => [Next]_vars
<1>1. Clear => UNCHANGED vars
  BY DEF Clear
<1>2. SubmitSprites => Next
  BY DEF SubmitSprites, Next
<1>3. WorkOnSprites => Next
  BY DEF WorkOnSprites, Next, InSubmit
<1>4. DrawSprites => Next
  BY DEF DrawSprites, Next, InSubmit
<1>5. BeginIm3d \/ DrawIm3dList \/ EndIm3d \/ RenderImGui => UNCHANGED vars
  BY DEF BeginIm3d, DrawIm3dList, EndIm3d, RenderImGui
<1>6. PresentFrame => Next
  BY DEF PresentFrame, Next
<1>7. StopAborted => Next
  BY DEF StopAborted, Next
<1>8. QED
  BY <1>1, <1>2, <1>3, <1>4, <1>5, <1>6, <1>7 DEF FrameNext

(* By construction: the actions of a frame contain those of Submit, so     *)
(* what is proved of Submit by itself can be cited for a whole frame.      *)
LEMMA FrameImplementsSubmit == FrameSpec => Spec
<1>1. FrameInit => Init
  BY DEF FrameInit
<1>2. [FrameNext]_frameVars => [Next]_vars
  BY StepSimulates DEF frameVars
<1>3. QED
  BY <1>1, <1>2, PTL DEF FrameSpec, Spec

-----------------------------------------------------------------------------
(* Bindings.                                                               *)

(* A binding is the new one where there is one, and the old one elsewhere. *)
LEMMA Replaced ==
    ASSUME NEW b, NEW new, NEW s \in Slots
    PROVE Set(b, new)[s] = IF s \in DOMAIN new THEN new[s] ELSE b[s]
BY DEF Set

(* Which passes the context is set up for, at every stage of the frame.    *)
SetFor(needs, free) == \A s \in DOMAIN needs \ free : pipeline[s] = needs[s]

OfPrimitive == {"topology", "vs", "gs", "ps", "vsConstants", "gsConstants", "vertices", "layout"}

PipelineInv ==
    /\ stage \in {"clear", "update", "im3d", "imgui", "present"}
    /\ stage # "clear" => pipeline["target"] = "back"
    /\ phase # "frame" => stage = "update" /\ SetFor(SpriteNeeds, {})
    /\ stage = "im3d" => \A p \in Primitives : SetFor(Im3dNeeds(p), OfPrimitive)

BindingsInv == PipelineInv /\ EveryDrawOwnBindings

(* Submit binds all that its draw calls depend on, however it finds the    *)
(* context.                                                                *)
LEMMA SubmitBindsAll ==
    ASSUME NEW b, NEW s \in DOMAIN SpriteNeeds
    PROVE Set(Set(b, SetUpRenderTarget), SpriteSetup)[s] = SpriteNeeds[s]
<1>1. s \in Slots
  BY DEF Slots, SpriteNeeds
<1>2. CASE s \in DOMAIN SpriteSetup
  <2>1. SpriteSetup[s] = SpriteNeeds[s]
    BY <1>2 DEF SpriteSetup, SpriteNeeds
  <2>2. QED
    BY <1>1, <1>2, <2>1, Replaced
<1>3. CASE s \notin DOMAIN SpriteSetup
  <2>1. s \in DOMAIN SetUpRenderTarget /\ SetUpRenderTarget[s] = SpriteNeeds[s]
    BY <1>3 DEF SpriteSetup, SetUpRenderTarget, SpriteNeeds
  <2>2. QED
    BY <1>1, <1>3, <2>1, Replaced
<1>4. QED
  BY <1>2, <1>3

(* The Im3d pass relies on the render target that is bound already, and    *)
(* binds the rest in two parts: once, and for each list.                   *)
LEMMA PassBindsShared ==
    ASSUME NEW b, b["target"] = "back", NEW p \in Primitives,
           NEW s \in DOMAIN Im3dNeeds(p) \ OfPrimitive
    PROVE Set(b, Im3dSetup)[s] = Im3dNeeds(p)[s]
<1>1. s \in Slots
  BY DEF Slots, Im3dNeeds
<1>2. CASE s \in DOMAIN Im3dSetup
  <2>1. Im3dSetup[s] = Im3dNeeds(p)[s]
    BY <1>2 DEF Im3dSetup, Im3dNeeds
  <2>2. QED
    BY <1>1, <1>2, <2>1, Replaced
<1>3. CASE s \notin DOMAIN Im3dSetup
  <2>1. s = "target"
    BY <1>3 DEF Im3dSetup, Im3dNeeds, OfPrimitive
  <2>2. Im3dNeeds(p)["target"] = "back"
    BY DEF Im3dNeeds
  <2>3. QED
    BY <1>1, <1>3, <2>1, <2>2, Replaced
<1>4. QED
  BY <1>2, <1>3

LEMMA ListBindsOwn ==
    ASSUME NEW p \in Primitives, SetFor(Im3dNeeds(p), OfPrimitive), NEW s \in DOMAIN Im3dNeeds(p)
    PROVE Set(pipeline, Im3dBindings(p))[s] = Im3dNeeds(p)[s]
<1>1. s \in Slots
  BY DEF Slots, Im3dNeeds
<1>2. CASE s \in OfPrimitive
  <2>1. s \in DOMAIN Im3dBindings(p)
    BY <1>2 DEF OfPrimitive, Im3dBindings
  <2>2. Im3dBindings(p)[s] = Im3dNeeds(p)[s]
    BY <1>2 DEF OfPrimitive, Primitives, Im3dBindings, Im3dNeeds, GeometryShader
  <2>3. QED
    BY <1>1, <2>1, <2>2, Replaced
<1>3. CASE s \notin OfPrimitive
  <2>1. s \notin DOMAIN Im3dBindings(p)
    BY <1>3 DEF OfPrimitive, Im3dBindings
  <2>2. QED
    BY <1>1, <1>3, <2>1, Replaced DEF SetFor
<1>4. QED
  BY <1>2, <1>3

LEMMA StagesAndBindings == FrameSpec => []BindingsInv
<1>1. FrameInit => BindingsInv
  BY DEF FrameInit, Init, BindingsInv, PipelineInv, EveryDrawOwnBindings
<1>2. BindingsInv /\ [FrameNext]_frameVars => BindingsInv'
  <2> SUFFICES ASSUME BindingsInv, [FrameNext]_frameVars PROVE BindingsInv'
    OBVIOUS
  <2> USE DEF BindingsInv
  <2>1. CASE Clear
    <3>1. pipeline' = Set(pipeline, SetUpRenderTarget) /\ stage = "clear" /\ stage' = "update"
          /\ UNCHANGED <<phase, lastDraw>>
      BY <2>1 DEF Clear, vars
    <3>2. phase' = "frame"
      BY <3>1 DEF PipelineInv
    <3>3. pipeline'["target"] = "back"
      BY <3>1, Replaced DEF SetUpRenderTarget, Slots
    <3>4. QED
      BY <3>1, <3>2, <3>3 DEF PipelineInv, EveryDrawOwnBindings, Sees
  <2>2. CASE SubmitSprites
    <3>1. /\ stage = "update" /\ stage' = "update" /\ UNCHANGED lastDraw
          /\ pipeline' = Set(Set(pipeline, SetUpRenderTarget), SpriteSetup)
      BY <2>2 DEF SubmitSprites
    <3>2. \A s \in DOMAIN SpriteNeeds : pipeline'[s] = SpriteNeeds[s]
      BY <3>1, SubmitBindsAll
    <3>3. pipeline'["target"] = "back"
      <4>1. "target" \in Slots /\ "target" \notin DOMAIN SpriteSetup /\ "target" \in DOMAIN SetUpRenderTarget
        BY DEF Slots, SpriteSetup, SetUpRenderTarget
      <4>2. QED
        BY <3>1, <4>1, Replaced DEF SetUpRenderTarget
    <3>4. PipelineInv'
      BY <3>1, <3>2, <3>3 DEF PipelineInv, SetFor
    <3>5. QED
      BY <3>1, <3>4 DEF EveryDrawOwnBindings, Sees
  <2>3. CASE WorkOnSprites
    <3>1. stage = "update" /\ UNCHANGED <<stage, pipeline, lastDraw>> /\ phase # "frame"
      BY <2>3 DEF WorkOnSprites, pipelineVars, SortForRendering, BeginBatch, CopySprite, EndSubmit
    <3>2. QED
      BY <3>1 DEF PipelineInv, EveryDrawOwnBindings, SetFor, Sees
  <2>4. CASE DrawSprites
    <3>1. /\ stage = "update" /\ phase # "frame" /\ UNCHANGED <<stage, pipeline>>
          /\ lastDraw'.pass = "sprites" /\ lastDraw'.bound = pipeline
      BY <2>4 DEF DrawSprites, DrawBatch
    <3>2. SetFor(SpriteNeeds, {})
      BY <3>1 DEF PipelineInv
    <3>3. EveryDrawOwnBindings'
      BY <3>1, <3>2 DEF EveryDrawOwnBindings, SetFor, Sees
    <3>4. QED
      BY <3>1, <3>2, <3>3 DEF PipelineInv, SetFor
  <2>5. CASE BeginIm3d
    <3>1. /\ stage = "update" /\ stage' = "im3d" /\ phase = "frame"
          /\ pipeline' = Set(pipeline, Im3dSetup) /\ UNCHANGED <<phase, lastDraw>>
      BY <2>5 DEF BeginIm3d, vars
    <3>2. pipeline["target"] = "back"
      BY <3>1 DEF PipelineInv
    <3>3. pipeline'["target"] = "back"
      BY <3>1, <3>2, Replaced DEF Im3dSetup, Slots
    <3>4. \A p \in Primitives : \A s \in DOMAIN Im3dNeeds(p) \ OfPrimitive : pipeline'[s] = Im3dNeeds(p)[s]
      BY <3>1, <3>2, PassBindsShared
    <3>5. QED
      BY <3>1, <3>3, <3>4 DEF PipelineInv, EveryDrawOwnBindings, SetFor, Sees
  <2>6. CASE DrawIm3dList
    <3>1. PICK p \in Primitives :
            /\ stage = "im3d" /\ UNCHANGED <<stage, phase>>
            /\ pipeline' = Set(pipeline, Im3dBindings(p))
            /\ lastDraw'.pass = p /\ lastDraw'.bound = pipeline'
      BY <2>6 DEF DrawIm3dList, vars
    <3>2. pipeline["target"] = "back" /\ phase = "frame" /\ \A q \in Primitives : SetFor(Im3dNeeds(q), OfPrimitive)
      BY <3>1 DEF PipelineInv
    <3>3. \A s \in DOMAIN Im3dNeeds(p) : pipeline'[s] = Im3dNeeds(p)[s]
      BY <3>1, <3>2, ListBindsOwn
    <3>4. EveryDrawOwnBindings'
      BY <3>1, <3>3 DEF EveryDrawOwnBindings, Sees
    <3>5. \A s \in Slots \ OfPrimitive : pipeline'[s] = pipeline[s]
      BY <3>1, Replaced DEF OfPrimitive, Im3dBindings
    <3>6. pipeline'["target"] = "back"
      BY <3>2, <3>5 DEF Slots, OfPrimitive
    <3>7. \A q \in Primitives : DOMAIN Im3dNeeds(q) \subseteq Slots
      BY DEF Im3dNeeds, Slots
    <3>8. \A q \in Primitives : \A s \in DOMAIN Im3dNeeds(q) \ OfPrimitive :
            pipeline'[s] = Im3dNeeds(q)[s]
      BY <3>2, <3>5, <3>7 DEF SetFor
    <3>9. QED
      BY <3>1, <3>2, <3>4, <3>6, <3>8 DEF PipelineInv, SetFor
  <2>7. CASE EndIm3d
    <3>1. /\ stage = "im3d" /\ stage' = "imgui" /\ UNCHANGED <<phase, lastDraw>>
          /\ pipeline' = Set(pipeline, [vs |-> Nothing, gs |-> Nothing, ps |-> Nothing])
      BY <2>7 DEF EndIm3d, vars
    <3>2. pipeline'["target"] = "back"
      BY <3>1, Replaced DEF PipelineInv, Slots
    <3>3. QED
      BY <3>1, <3>2 DEF PipelineInv, EveryDrawOwnBindings, Sees
  <2>8. CASE RenderImGui
    BY <2>8 DEF RenderImGui, vars, PipelineInv, EveryDrawOwnBindings, Sees
  <2>9. CASE PresentFrame
    <3>1. stage = "present" /\ stage' = "clear" /\ lastDraw' = NoDraw /\ UNCHANGED <<phase, pipeline>>
      BY <2>9 DEF PresentFrame, Present
    <3>2. QED
      BY <3>1 DEF PipelineInv, EveryDrawOwnBindings, Sees
  <2>10. CASE StopAborted
    <3>1. UNCHANGED <<stage, phase, pipeline, lastDraw>>
      BY <2>10 DEF StopAborted, Aborted, vars, pipelineVars
    <3>2. QED
      BY <3>1 DEF PipelineInv, EveryDrawOwnBindings, SetFor, Sees
  <2>11. CASE UNCHANGED frameVars
    <3>1. UNCHANGED <<stage, phase, pipeline, lastDraw>>
      BY <2>11 DEF frameVars, vars, pipelineVars
    <3>2. QED
      BY <3>1 DEF PipelineInv, EveryDrawOwnBindings, SetFor, Sees
  <2>12. QED
    BY <2>1, <2>2, <2>3, <2>4, <2>5, <2>6, <2>7, <2>8, <2>9, <2>10, <2>11 DEF FrameNext
<1>3. QED
  BY <1>1, <1>2, PTL DEF FrameSpec

(* Whatever a frame submits, and whatever the frames before it have left   *)
(* bound, no draw call of the sprites or of Im3d sees another pass's       *)
(* state in a binding it depends on.                                       *)
THEOREM OwnBindings == FrameSpec => []EveryDrawOwnBindings
<1>1. BindingsInv => EveryDrawOwnBindings
  BY DEF BindingsInv
<1>2. QED
  BY <1>1, StagesAndBindings, PTL

-----------------------------------------------------------------------------
(* Buffers.                                                                *)

BufferInv ==
    /\ vertexBufferSize \in Nat
    /\ lastDraw.read <= lastDraw.size

LEMMA BuffersGrow == FrameSpec => []BufferInv
<1>1. FrameSpec => []BatchFitsBuffer
  BY FrameImplementsSubmit, FitsBuffer, PTL
<1>2. FrameInit => BufferInv
  BY DEF FrameInit, BufferInv, NoDraw
<1>3. BatchFitsBuffer /\ BufferInv /\ [FrameNext]_frameVars => BufferInv'
  <2> SUFFICES ASSUME BatchFitsBuffer, BufferInv, [FrameNext]_frameVars PROVE BufferInv'
    OBVIOUS
  <2>1. CASE DrawSprites
    <3>1. /\ lastDraw' = [pass |-> "sprites", bound |-> pipeline,
                          read |-> Len(batch), size |-> MaxBatchSize]
          /\ UNCHANGED vertexBufferSize
      BY <2>1 DEF DrawSprites
    <3>2. QED
      BY <3>1 DEF BufferInv, BatchFitsBuffer
  <2>2. CASE DrawIm3dList
    <3>1. PICK p \in Primitives, n \in VertexCounts :
            /\ vertexBufferSize' = Grown(n)
            /\ lastDraw' = [pass |-> p, bound |-> pipeline', read |-> n, size |-> vertexBufferSize']
      BY <2>2 DEF DrawIm3dList
    <3>2. n \in Nat
      BY FrameAssumption
    <3>3. vertexBufferSize' \in Nat /\ n <= vertexBufferSize'
      BY <3>1, <3>2 DEF Grown, BufferInv
    <3>4. QED
      BY <3>1, <3>3 DEF BufferInv
  <2>3. CASE PresentFrame
    <3>1. lastDraw' = NoDraw /\ UNCHANGED vertexBufferSize
      BY <2>3 DEF PresentFrame
    <3>2. QED
      BY <3>1 DEF BufferInv, NoDraw
  <2>4. CASE UNCHANGED <<vertexBufferSize, lastDraw>>
    BY <2>4 DEF BufferInv
  <2>5. QED
    BY <2>1, <2>2, <2>3, <2>4
    DEF FrameNext, Clear, SubmitSprites, WorkOnSprites, BeginIm3d, EndIm3d, RenderImGui,
        StopAborted, pipelineVars, frameVars
<1>4. QED
  BY <1>1, <1>2, <1>3, PTL DEF FrameSpec

(* For every batch size, and whatever Im3d is asked to draw, neither the   *)
(* instance buffer nor the vertex buffer is written past its end.          *)
THEOREM BuffersFit == FrameSpec => []BuffersNeverOverrun
<1>1. BatchFitsBuffer /\ BufferInv => BuffersNeverOverrun
  BY DEF BufferInv, BuffersNeverOverrun
<1>2. QED
  BY <1>1, FrameImplementsSubmit, FitsBuffer, BuffersGrow, PTL

(* Carried over from Submit: in a frame, too, every sprite is drawn with   *)
(* its own texture.                                                        *)
THEOREM OwnTextureInFrame == FrameSpec => []OwnTexture
BY FrameImplementsSubmit, DrawnWithOwnTexture, PTL

(* In a whole frame of several submits every sprite of every list is drawn *)
(* once, in its order.                                                     *)
THEOREM SpritesOnceInFrame == FrameSpec => []EverySpriteOnce
BY SpritesDrawnOnce, FrameImplementsSubmit, PTL

=============================================================================
