------------------------------ MODULE Process ------------------------------
(***************************************************************************)
(* The process with its session: GameSession::FromMap (MapLoad) is one     *)
(* step of the start-up (Lifecycle), runs only when all before it has been *)
(* acquired or given up, and may stop at any point with a panic: a missing *)
(* file or layer, a texture that cannot be made.                           *)
(***************************************************************************)
EXTENDS Lifecycle, MapLoad

Init == ProcessInit /\ SessionInit

vars == <<processVars, sessionVars>>

AtSession == Starting /\ Startup[step + 1] = "session"

LoadSession ==
    /\ AtSession /\ Uses("session") \subseteq alive
    /\ FromMap
    /\ UNCHANGED processVars

AcquireNext ==
    /\ Acquire
    /\ AtSession => phase = "loaded"
    /\ UNCHANGED sessionVars

FailNext ==
    /\ Fail
    /\ AtSession => phase # "loaded"
    /\ UNCHANGED sessionVars

Next == LoadSession \/ AcquireNext \/ FailNext \/ (AfterStartup /\ UNCHANGED sessionVars)

Spec == Init /\ [][Next]_vars

=============================================================================
