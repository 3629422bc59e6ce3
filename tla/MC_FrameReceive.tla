-------------------------- MODULE MC_FrameReceive --------------------------
(* FrameReceive for TLC: what the peer sends, two frames that may arrive in
   one read.                                                                *)
EXTENDS FrameReceive, SequencesExt

F(payload, extended) == [payload |-> payload, extended |-> extended]

Size(f) == HeaderSize(f) + f.payload

Bytes(sent) ==
  FlattenSeq([f \in 1..Len(sent) |->
    [i \in 1..Size(sent[f]) |-> [frame |-> f, offset |-> i - 1]]])

ShortSent == <<F(1, 0), F(0, 0)>>
ShortStream == Bytes(ShortSent)
=============================================================================
