------------------------------- MODULE Frame -------------------------------
(***************************************************************************)
(* One frame on the graphics card: Clear, the sprites that Game::Update    *)
(* submits (SpriteBatch), the Im3d pass (im3d_dx11.cpp), the ImGui pass    *)
(* and Present.  All passes share one Direct3D context, whose bindings     *)
(* stay as the last pass left them; nobody resets it.                      *)
(*                                                                         *)
(* A binding is named after the pass or the primitive it belongs to.  The  *)
(* texture of the sprites is SpriteBatch's currentTexture.                 *)
(***************************************************************************)
EXTENDS SpriteBatch

CONSTANTS
    VertexCounts,       \* m_vertexCount of Im3d's draw lists
    MaxLists            \* bound of the instance: draw lists in a frame

Primitives == {"triangles", "lines", "points"}      \* Im3d::DrawPrimitiveType
Nothing == "none"

ASSUME FrameAssumption ==
    /\ VertexCounts \subseteq Nat \ {0}
    /\ MaxLists \in Nat

VARIABLES
    stage,              \* how far RunInternal is in the frame
    pipeline,           \* the context's bindings
    vertexBufferSize,   \* m_VertexBufferSize, 0 as long as there is no buffer
    lists,              \* Im3d draw lists rendered in this frame
    lastDraw            \* history: the last draw call, with the bindings it saw

pipelineVars == <<stage, pipeline, vertexBufferSize, lists, lastDraw>>
frameVars == <<vars, pipelineVars>>

Slots == {"target", "viewport", "rasterizer", "topology", "indices", "layout", "vertices",
          "instances", "vs", "vsConstants", "gs", "gsConstants", "ps", "sampler", "blend", "depth"}

NoDraw == [pass |-> Nothing, bound |-> [s \in Slots |-> Nothing], read |-> 0, size |-> 0]

(* The bindings b with those of the function new in their place.           *)
Set(b, new) == [s \in Slots |-> IF s \in DOMAIN new THEN new[s] ELSE b[s]]

FrameInit ==
    /\ Init
    /\ stage = "clear"
    /\ pipeline = [s \in Slots |-> Nothing]
    /\ vertexBufferSize = 0 /\ lists = 0
    /\ lastDraw = NoDraw

SetUpRenderTarget == [target |-> "back", viewport |-> "window", rasterizer |-> "sprites"]

Clear ==
    /\ stage = "clear"
    /\ pipeline' = Set(pipeline, SetUpRenderTarget)
    /\ stage' = "update"
    /\ UNCHANGED <<vars, vertexBufferSize, lists, lastDraw>>

(* What Submit binds before its first draw call.                           *)
SpriteSetup ==
    [topology |-> "triangles", indices |-> "quad", layout |-> "sprites",
     vertices |-> "quad", instances |-> "sprites",
     gs |-> Nothing, vs |-> "sprites", vsConstants |-> "sprites",
     ps |-> "sprites", sampler |-> "sprites", blend |-> "sprites", depth |-> "sprites"]

SubmitSprites ==
    /\ stage = "update"
    /\ BeginSubmit
    /\ pipeline' = Set(Set(pipeline, SetUpRenderTarget), SpriteSetup)
    /\ UNCHANGED <<stage, vertexBufferSize, lists, lastDraw>>

DrawSprites ==
    /\ stage = "update"
    /\ DrawBatch
    /\ lastDraw' = [pass |-> "sprites", bound |-> pipeline,
                    read |-> Len(batch), size |-> MaxBatchSize]
    /\ UNCHANGED <<stage, pipeline, vertexBufferSize, lists>>

WorkOnSprites ==
    /\ stage = "update"
    /\ SortForRendering \/ BeginBatch \/ CopySprite \/ EndSubmit
    /\ UNCHANGED pipelineVars

(* Update has returned; the Im3d pass binds what all its lists share.      *)
Im3dSetup == [viewport |-> "window", blend |-> "im3d", depth |-> "im3d", rasterizer |-> "im3d"]

BeginIm3d ==
    /\ stage = "update" /\ phase = "frame"
    /\ pipeline' = Set(pipeline, Im3dSetup)
    /\ stage' = "im3d" /\ lists' = 0
    /\ UNCHANGED <<vars, vertexBufferSize, lastDraw>>

(* The shader sets made at start-up: triangles have no geometry shader.    *)
GeometryShader(p) == IF p = "triangles" THEN Nothing ELSE p

(* Seeded fault: the geometry shader is set only if the set has one.       *)
Im3dBindings_KeepsShader(p) ==
    LET shaders == [topology |-> p, vs |-> p, ps |-> p, vsConstants |-> "im3d",
                    gsConstants |-> "im3d", vertices |-> "im3d", layout |-> "im3d"]
    IN  IF GeometryShader(p) = Nothing THEN shaders
        ELSE [s \in DOMAIN shaders \cup {"gs"} |-> IF s = "gs" THEN p ELSE shaders[s]]
Im3dBindings(p) ==
    [topology |-> p, vs |-> p, gs |-> GeometryShader(p), ps |-> p, vsConstants |-> "im3d",
     gsConstants |-> "im3d", vertices |-> "im3d", layout |-> "im3d"]

(* Seeded fault: the buffer is made once and kept.                         *)
Grown_Once(n) == IF vertexBufferSize = 0 THEN n ELSE vertexBufferSize
Grown(n) == IF vertexBufferSize = 0 \/ vertexBufferSize < n THEN n ELSE vertexBufferSize

DrawIm3dList ==
    /\ stage = "im3d" /\ lists < MaxLists
    /\ lists' = lists + 1
    /\ \E p \in Primitives, n \in VertexCounts :
         /\ vertexBufferSize' = Grown(n)
         /\ pipeline' = Set(pipeline, Im3dBindings(p))
         /\ lastDraw' = [pass |-> p, bound |-> pipeline', read |-> n, size |-> vertexBufferSize']
    /\ UNCHANGED <<vars, stage>>

EndIm3d ==
    /\ stage = "im3d"
    /\ pipeline' = Set(pipeline, [vs |-> Nothing, gs |-> Nothing, ps |-> Nothing])
    /\ stage' = "imgui"
    /\ UNCHANGED <<vars, vertexBufferSize, lists, lastDraw>>

(* ImGui's back end saves the bindings, draws, and restores them.          *)
RenderImGui ==
    /\ stage = "imgui"
    /\ stage' = "present"
    /\ UNCHANGED <<vars, pipeline, vertexBufferSize, lists, lastDraw>>

PresentFrame ==
    /\ stage = "present"
    /\ Present
    /\ stage' = "clear" /\ lists' = 0 /\ lastDraw' = NoDraw
    /\ UNCHANGED <<pipeline, vertexBufferSize>>

StopAborted == Aborted /\ UNCHANGED pipelineVars

FrameNext ==
    \/ Clear \/ SubmitSprites \/ WorkOnSprites \/ DrawSprites
    \/ BeginIm3d \/ DrawIm3dList \/ EndIm3d \/ RenderImGui \/ PresentFrame
    \/ StopAborted

FrameSpec == FrameInit /\ [][FrameNext]_frameVars
FrameFairSpec == FrameSpec /\ WF_frameVars(WorkOnSprites \/ DrawSprites)

-----------------------------------------------------------------------------
(* Properties.                                                             *)

(* What the outcome of a draw call depends on: the sprites' of everything  *)
(* but a geometry shader's constants, an Im3d list's of no index buffer,   *)
(* no instances and no sampler.  Lines and points are made into triangles  *)
(* by a geometry shader; with triangles and sprites none may interfere.    *)
SpriteNeeds ==
    [target |-> "back", viewport |-> "window", rasterizer |-> "sprites",
     topology |-> "triangles", indices |-> "quad", layout |-> "sprites",
     vertices |-> "quad", instances |-> "sprites", vs |-> "sprites",
     vsConstants |-> "sprites", gs |-> Nothing, ps |-> "sprites",
     sampler |-> "sprites", blend |-> "sprites", depth |-> "sprites"]

Im3dNeeds(p) ==
    [target |-> "back", viewport |-> "window", rasterizer |-> "im3d",
     topology |-> p, layout |-> "im3d", vertices |-> "im3d",
     vs |-> p, vsConstants |-> "im3d",
     gs |-> IF p \in {"lines", "points"} THEN p ELSE Nothing, gsConstants |-> "im3d",
     ps |-> p, blend |-> "im3d", depth |-> "im3d"]

(* Each draw call of the sprites and of Im3d sees all the bindings its     *)
(* outcome depends on as its own pass wants them, whatever the passes      *)
(* before it, or before it in the frame before, have left bound.           *)
Sees(needs) == \A s \in DOMAIN needs : lastDraw.bound[s] = needs[s]

EveryDrawOwnBindings ==
    \/ lastDraw = NoDraw
    \/ lastDraw.pass = "sprites" /\ Sees(SpriteNeeds)
    \/ lastDraw.pass \in Primitives /\ Sees(Im3dNeeds(lastDraw.pass))

(* No buffer is written past its end: not the instance buffer of the       *)
(* sprites, wherever their batches break, and not Im3d's vertex buffer,    *)
(* which is made when it is first needed and again when it is too small,   *)
(* in a later list of the frame or in a later frame.                       *)
BuffersNeverOverrun == BatchFitsBuffer /\ lastDraw.read <= lastDraw.size

=============================================================================
