-------------------------- MODULE MC_OfflineUpdate --------------------------
(* OfflineUpdate for TLC.                                                     *)
EXTENDS OfflineUpdate

CONSTANT other   \* a task that is no retry

MCRequest == Client \X (1..UP_RE_TIMES)
MCTask == MCRequest \cup {<<other, 0>>}
=============================================================================
