----------------------------- MODULE MC_Receive -----------------------------
(* Receive for TLC: what the peer sends.  The frame in the middle has an
   extended length, so that the buffer holds its bytes when the last one is
   parsed.                                                                  *)
EXTENDS Receive, SequencesExt

F(payloads, extended) == [payload |-> payloads, extended |-> extended]

Size(f) == HeaderSize(f) + f.payload

Bytes(sent) ==
  FlattenSeq([f \in 1..Len(sent) |->
    [i \in 1..Size(sent[f]) |-> [frame |-> f, offset |-> i - 1]]])

MixedSent == <<F(1, 0), F(2, 2), F(1, 0)>>
MixedStream == Bytes(MixedSent)

MCLine == BoundedSeq({Blank, "c"}, BUFFER_SIZE)
MCBehind == {<<"c">>}

\* An upgrade request of two words that ends in front of zeros, or fills the buffer.
MCRequest(n) ==
  [i \in 0..BUFFER_SIZE - 1 |-> IF i >= n THEN Zero ELSE IF i = 8 THEN Blank ELSE "c"]
MCUpgraded == {MCRequest(7), MCRequest(BUFFER_SIZE)}
=============================================================================
