------------------------ MODULE ConnectionLifetime ------------------------
(* What the server promises about each connection, whatever its threads do:
   the memory of a connection goes through its phases in one order, is given
   back only after the leave was handled to the end, and the reason for which
   the connection ends is decided once.                                      *)
CONSTANTS Connection, Reason, NoReason

VARIABLES phase, reason

lvars == <<phase, reason>>

Phase == {"none", "accepted", "open", "leaving", "listed"}

Init == /\ phase = [c \in Connection |-> "none"]
        /\ reason = [c \in Connection |-> NoReason]

\* The steps of the life of one connection.
Follows == {<<"none", "accepted">>, <<"accepted", "none">>,
            <<"accepted", "open">>, <<"open", "leaving">>,
            <<"leaving", "listed">>, <<"listed", "none">>}

\* What one step may do to the reason of c.
ReasonStep(c) ==
  \/ reason'[c] = reason[c]
  \/ phase[c] \in {"open", "leaving", "listed"} /\ reason[c] = NoReason
  \/ phase'[c] = "none" /\ reason'[c] = NoReason

\* A step moves any number of connections one phase ahead: a pass over the
\* destroy list ends several at once.
Next ==
  /\ phase' \in [Connection -> Phase]
  /\ reason' \in [Connection -> Reason]
  /\ \A c \in Connection :
       /\ phase'[c] = phase[c] \/ <<phase[c], phase'[c]>> \in Follows
       /\ ReasonStep(c)

Spec == Init /\ [][Next]_lvars
===========================================================================
