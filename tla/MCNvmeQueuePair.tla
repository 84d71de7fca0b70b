-------------------------- MODULE MCNvmeQueuePair --------------------------
(* A queue pair on small instances.  Commands completed by interrupt       *)
(* handlers only, or one by the main thread, with ample room; the former   *)
(* again with too few blocks and a careless host; and both kinds together. *)
EXTENDS NvmeQueuePair, TLC

CONSTANTS c1, c2, b1, b2, b3

InHandlers == c1 :> "fetch" @@ c2 :> "data"
InMain     == c1 :> "apu"
InBoth     == c1 :> "fetch" @@ c2 :> "apu"

MCScenes == {
  [kind |-> InHandlers, blocks |-> {b1, b2, b3}, careful |-> 1],
  [kind |-> InMain,     blocks |-> {b1, b2, b3}, careful |-> 1],
  [kind |-> InHandlers, blocks |-> {b1},         careful |-> 0]}

MixedScene == {[kind |-> InBoth, blocks |-> {b1, b2, b3}, careful |-> 1]}
=============================================================================
