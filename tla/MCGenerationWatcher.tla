------------------------ MODULE MCGenerationWatcher ------------------------
(* Bounds for checking GenerationWatcher: two servers, and two polls alive *)
(* at once, the current one and one that a stop or a switch left behind.   *)
EXTENDS GenerationWatcher

CONSTANTS c1, c2, s1, s2
=============================================================================
