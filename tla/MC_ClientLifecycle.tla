----------------------- MODULE MC_ClientLifecycle -----------------------
(* The instances of ClientLifecycle that TLC checks; the .cfg files give the
   constants their values.                                                 *)
EXTENDS ClientLifecycle
==========================================================================
