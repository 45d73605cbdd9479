---------------------------- MODULE MCEventPump ----------------------------
(* Instances of EventPump for TLC: the debug shortcut's keys, a key the    *)
(* table does not know, the left button and one the switch does not know.  *)
EXTENDS EventPump, TLC

SmallMapped == "lalt" :> "alt" @@ "p" :> "p" @@ "left" :> "lmb"

=============================================================================
