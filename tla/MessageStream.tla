--------------------------- MODULE MessageStream ---------------------------
(* What a connection promises to those who write to it: messages are numbered
   in the order in which they were written; one that was accepted reaches the
   peer once and in its turn, unless the connection breaks.                  *)
EXTENDS Naturals, Sequences

VARIABLES
  written,      \* number of messages written so far
  pending,      \* those accepted that have not reached the peer
  received      \* those that have, in the order of their arrival

svars == <<written, pending, received>>

Init == written = 0 /\ pending = {} /\ received = <<>>

Accept == /\ written' = written + 1
          /\ pending' = pending \cup {written'}
          /\ UNCHANGED received

\* The queue is full.
Refuse == written' = written + 1 /\ UNCHANGED <<pending, received>>

Deliver == \E m \in pending :
             /\ \A k \in pending : m <= k
             /\ pending' = pending \ {m}
             /\ received' = Append(received, m)
             /\ UNCHANGED written

Break == pending' = {} /\ UNCHANGED <<written, received>>

Next == Accept \/ Refuse \/ Deliver \/ Break

Spec == Init /\ [][Next]_svars
============================================================================
