---------------------------- MODULE MC_SendQueue ----------------------------
(* The instances of SendQueue that TLC checks; the .cfg files give the
   constants their values.                                                  *)
EXTENDS SendQueue
=============================================================================
