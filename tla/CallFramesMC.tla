---------------------------- MODULE CallFramesMC ----------------------------
(* CallFrames on small instances: the pool's spare objects are              *)
(* interchangeable, and so are the defer statements.                        *)
EXTENDS CallFrames

Spares == Permutations(Envs \ {TopEnv, LibEnv}) \cup Permutations(Sites)
=============================================================================
