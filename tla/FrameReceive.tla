---------------------------- MODULE FrameReceive ----------------------------
(* The receiving side of one client after the handshake: async_read_some
   fills frame_data_.data behind the bytes it holds, on_data_received parses
   what was read, hands a whole frame to the dispatcher and reads again.  The
   chain of receives is sequential; what other threads do to it is the
   client's disconnect (ClientLifecycle).

   A byte is its position in what the peer sends, from 1, so that a property
   can say which bytes a frame was made of; Stream tells what the peer meant
   by it.  Bytes that are read as a header and were not meant as this part of
   a header have any value.

   A definition whose name ends in _ and a word is its namesake with a slip a
   programmer could make; no other definition uses it.                       *)
EXTENDS Naturals, Sequences, FiniteSets

CONSTANTS
  BUFFER_SIZE,
  Sent,      \* the frames the peer sends: payload, bytes of extended length
  Stream,    \* the bytes the peer sends: the frame and the offset in it
  Misread    \* the lengths that bytes not meant as a length can stand for

Frame == [payload: Nat, extended: {0, 2, 8}]
HeaderSize(f) == 6 + f.extended
LastByte(b) == b.offset + 1 = HeaderSize(Sent[b.frame]) + Sent[b.frame].payload

\* The peer sends the frames from the first byte of the first one on, each one
\* whole before the next.  The parser looks at six bytes without a check.
ASSUME StreamAssumption ==
  /\ BUFFER_SIZE \in Nat /\ BUFFER_SIZE >= 6
  /\ Misread \subseteq Nat
  /\ Sent \in Seq(Frame)
  /\ Stream \in Seq([frame: 1..Len(Sent), offset: Nat])
  /\ \A i \in 1..Len(Stream) :
       Stream[i] =
         IF i = 1 THEN [frame |-> 1, offset |-> 0]
         ELSE LET before == Stream[i - 1] IN
              IF LastByte(before) THEN [frame |-> before.frame + 1, offset |-> 0]
              ELSE [before EXCEPT !.offset = @ + 1]

VARIABLES
  frame,       \* frame_data_, its buffer apart
  data,        \* frame_data_.data; 0 is a byte that was never received
  data_len,    \* bytes_received of the read that is being handled
  phase,       \* reading, parsing, a framedata_parse_result, ended
  arrived,     \* how many bytes of the stream were read
  dispatched,  \* the frames on_frame_data was called with
  reads        \* what the reads so far had in common

vars == <<frame, data, data_len, phase, arrived, dispatched, reads>>

Result == {"framedata_ok", "framedata_error", "framedata_indeterminate"}
State == {"ready", "fin_and_rsv_ok", "mask_and_payload_len_ok", "mask_key_ok",
          "payload_data_ok"}

FrameData ==
  [state_: State, mask_: {0, 1}, masking_key_: Nat, payload_length_: Nat,
   data_pos_: Nat, pos_: Nat, length: 0..2 * BUFFER_SIZE, start_pos_: Nat]

\* A frame as the dispatcher gets it: the byte its header begins with, the
\* first byte of its key, and which bytes of the buffer are its payload.
Message == [head: Nat, key: Nat, data_pos_: Nat, payload_length_: Nat]

TypeOK ==
  /\ frame \in FrameData
  /\ data \in [0..BUFFER_SIZE - 1 -> 0..Len(Stream)]
  /\ data_len \in 0..BUFFER_SIZE
  /\ phase \in {"reading", "parsing", "ended"} \cup Result
  /\ arrived \in 0..Len(Stream)
  /\ dispatched \in Seq(Message)
  /\ reads \in [atBorders: BOOLEAN, everyBorder: BOOLEAN]

\* The state is not reset.
Reset_KeepsState ==
  [state_ |-> frame.state_, mask_ |-> 0, masking_key_ |-> frame.masking_key_,
   payload_length_ |-> 0, data_pos_ |-> 0, pos_ |-> 0, length |-> 0,
   start_pos_ |-> 0]

\* ws_framedata::reset
Reset ==
  [state_ |-> "ready", mask_ |-> 0, masking_key_ |-> frame.masking_key_,
   payload_length_ |-> 0, data_pos_ |-> 0, pos_ |-> 0, length |-> 0,
   start_pos_ |-> 0]

--------------------------------------------------------------------------
(* The stream *)

\* A frame ends with byte i.
Border(i) == LastByte(Stream[i])

\* Byte i was sent as the byte of a frame with this offset.
Meant(i, offset) == i # 0 /\ Stream[i].offset = offset

SentFrame(i) == Sent[Stream[i].frame]

--------------------------------------------------------------------------
(* Reading *)

\* async_read_some: n bytes arrive behind those in the buffer.  Nothing is
\* asked for, and nothing arrives, when the buffer is full.
Read(n) ==
  /\ phase = "reading"
  /\ frame.length + n <= BUFFER_SIZE
  /\ arrived + n <= Len(Stream)
  /\ n > 0 \/ frame.length = BUFFER_SIZE
  /\ data' = [i \in 0..BUFFER_SIZE - 1 |->
                IF i \in frame.length..frame.length + n - 1
                THEN arrived + 1 + (i - frame.length) ELSE data[i]]
  /\ arrived' = arrived + n
  /\ data_len' = n
  /\ frame' = [frame EXCEPT !.length = @ + n]
  /\ reads' = [atBorders   |-> reads.atBorders /\ Border(arrived + n),
               everyBorder |-> /\ reads.everyBorder
                               /\ \A i \in arrived + 1..arrived + n - 1 : ~Border(i)]
  /\ phase' = "parsing"
  /\ UNCHANGED dispatched

\* The read fails: on_error.
ReadFailed ==
  /\ phase = "reading"
  /\ phase' = "ended"
  /\ UNCHANGED <<frame, data, data_len, arrived, dispatched, reads>>

--------------------------------------------------------------------------
(* ws_framedata_parser::parse: one action for each case of its switch, which
   fall through until one of them returns. *)

Parse(state) == phase = "parsing" /\ frame.state_ = state

Return(result) ==
  /\ phase' = result
  /\ UNCHANGED <<frame, data, data_len, arrived, dispatched, reads>>

FetchFin ==
  /\ Parse("ready")
  /\ frame' = [frame EXCEPT !.pos_ = @ + 1, !.state_ = "fin_and_rsv_ok"]
  /\ UNCHANGED <<data, data_len, phase, arrived, dispatched, reads>>

\* What the byte at pos_ can be read as: the mask bit, and how many bytes of
\* length follow it in the eyes of the parser, which expects 4 where the
\* sender writes 8.
LengthForm(i) ==
  IF Meant(i, 1)
  THEN {[mask |-> 1, width |-> CASE SentFrame(i).extended = 0 -> 0
                                 [] SentFrame(i).extended = 2 -> 2
                                 [] SentFrame(i).extended = 8 -> 4]}
  ELSE [mask: {0, 1}, width: {0, 2, 4}]

\* The length in the byte i, if it is no more than that byte.
ShortLength(i) == IF Meant(i, 1) THEN {SentFrame(i).payload} ELSE Misread

\* The length in the bytes from pos_ on.  The bytes may not have arrived, and
\* of 8 bytes the first four are read, which are 0.
LongLength(pos_, width) ==
  IF /\ Meant(data[pos_], 2)
     /\ \A i \in 1..width - 1 : data[pos_ + i] = data[pos_] + i
     /\ SentFrame(data[pos_]).extended = (IF width = 2 THEN 2 ELSE 8)
  THEN {IF width = 2 THEN SentFrame(data[pos_]).payload ELSE 0}
  ELSE Misread

FetchLength ==
  /\ Parse("fin_and_rsv_ok")
  /\ frame.pos_ < data_len
  /\ \E form \in LengthForm(data[frame.pos_]) :
       \E n \in IF form.width = 0 THEN ShortLength(data[frame.pos_])
                ELSE LongLength(frame.pos_ + 1, form.width) :
         frame' = [frame EXCEPT !.mask_ = form.mask, !.payload_length_ = n,
                                !.pos_ = @ + 1 + form.width,
                                !.state_ = "mask_and_payload_len_ok"]
  /\ UNCHANGED <<data, data_len, phase, arrived, dispatched, reads>>

\* The key is taken without asking whether it has arrived.
FetchMaskingKey_Early ==
  /\ Parse("mask_and_payload_len_ok")
  /\ frame.mask_ = 1
  /\ frame.pos_ + 4 < BUFFER_SIZE
  /\ frame' = [frame EXCEPT !.masking_key_ = data[frame.pos_], !.pos_ = @ + 4,
                            !.data_pos_ = frame.pos_ + 4, !.state_ = "mask_key_ok"]
  /\ UNCHANGED <<data, data_len, phase, arrived, dispatched, reads>>

FetchMaskingKey ==
  /\ Parse("mask_and_payload_len_ok")
  /\ frame.mask_ = 1
  /\ frame.pos_ + 4 <= data_len
  /\ frame' = [frame EXCEPT !.masking_key_ = data[frame.pos_], !.pos_ = @ + 4,
                            !.data_pos_ = frame.pos_ + 4, !.state_ = "mask_key_ok"]
  /\ UNCHANGED <<data, data_len, phase, arrived, dispatched, reads>>

\* The payload is taken when its first byte has arrived.
FetchPayload_Early ==
  /\ Parse("mask_key_ok")
  /\ frame.pos_ <= data_len
  /\ frame' = [frame EXCEPT !.pos_ = @ + frame.payload_length_,
                            !.start_pos_ = frame.pos_ + frame.payload_length_,
                            !.state_ = "payload_data_ok"]
  /\ phase' = "framedata_ok"
  /\ UNCHANGED <<data, data_len, arrived, dispatched, reads>>

\* The frame is not marked as parsed.
FetchPayload_Unmarked ==
  /\ Parse("mask_key_ok")
  /\ frame.pos_ + frame.payload_length_ <= data_len
  /\ frame' = [frame EXCEPT !.pos_ = @ + frame.payload_length_,
                            !.start_pos_ = frame.pos_ + frame.payload_length_]
  /\ phase' = "framedata_ok"
  /\ UNCHANGED <<data, data_len, arrived, dispatched, reads>>

\* The payload is unmasked where it is.
FetchPayload ==
  /\ Parse("mask_key_ok")
  /\ frame.pos_ + frame.payload_length_ <= data_len
  /\ frame' = [frame EXCEPT !.pos_ = @ + frame.payload_length_,
                            !.start_pos_ = frame.pos_ + frame.payload_length_,
                            !.state_ = "payload_data_ok"]
  /\ phase' = "framedata_ok"
  /\ UNCHANGED <<data, data_len, arrived, dispatched, reads>>

\* The read that is being parsed does not reach far enough: pos_ counts from
\* the first byte of the buffer, data_len from the first byte of the read.
Indeterminate ==
  /\ \/ Parse("fin_and_rsv_ok") /\ frame.pos_ >= data_len
     \/ /\ Parse("mask_and_payload_len_ok") /\ frame.mask_ = 1
        /\ frame.pos_ + 4 > data_len
     \/ Parse("mask_key_ok") /\ frame.pos_ + frame.payload_length_ > data_len
  /\ Return("framedata_indeterminate")

\* A frame that is not masked, or a frame that was parsed already.
ParseError ==
  /\ \/ Parse("mask_and_payload_len_ok") /\ frame.mask_ # 1
     \/ Parse("payload_data_ok")
  /\ Return("framedata_error")

--------------------------------------------------------------------------
(* on_data_received, after parse *)

Received ==
  [head |-> data[0], key |-> frame.masking_key_, data_pos_ |-> frame.data_pos_,
   payload_length_ |-> frame.payload_length_]

\* on_frame_data.  If it leaves the client unavailable on_error follows; if
\* bytes follow in the buffer they are parsed, otherwise reading goes on.
FrameOk ==
  /\ phase = "framedata_ok"
  /\ dispatched' = Append(dispatched, Received)
  /\ \/ /\ phase' = "ended"
        /\ UNCHANGED frame
     \/ /\ frame.pos_ < frame.length
        /\ frame' = [frame EXCEPT !.length = @ + data_len]
        /\ phase' = "parsing"
     \/ /\ frame.pos_ >= frame.length
        /\ frame' = Reset
        /\ phase' = "reading"
  /\ UNCHANGED <<data, data_len, arrived, reads>>

\* The frame is incomplete: the buffer cannot hold it, ...
FrameTooLong ==
  /\ phase = "framedata_indeterminate"
  /\ frame.start_pos_ = 0
  /\ data_len = BUFFER_SIZE
  /\ phase' = "ended"
  /\ UNCHANGED <<frame, data, data_len, arrived, dispatched, reads>>

\* ... or the rest of it is awaited.  start_pos_ is 0 whenever a frame is
\* incomplete, so that nothing is ever moved to the front of the buffer.
FrameIncomplete ==
  /\ phase = "framedata_indeterminate"
  /\ ~ (frame.start_pos_ = 0 /\ data_len = BUFFER_SIZE)
  /\ IF frame.start_pos_ = 0 THEN UNCHANGED <<frame, data>>
     ELSE /\ frame' = [frame EXCEPT !.length = @ - frame.start_pos_,
                                    !.pos_ = @ - frame.start_pos_,
                                    !.data_pos_ = @ - frame.start_pos_,
                                    !.start_pos_ = 0]
          /\ data' = [i \in 0..BUFFER_SIZE - 1 |->
                        IF /\ i + frame.start_pos_ < frame.length
                           /\ i + frame.start_pos_ < BUFFER_SIZE
                        THEN data[i + frame.start_pos_] ELSE data[i]]
  /\ phase' = "reading"
  /\ UNCHANGED <<data_len, arrived, dispatched, reads>>

FrameError ==
  /\ phase = "framedata_error"
  /\ frame' = Reset
  /\ phase' = "reading"
  /\ UNCHANGED <<data, data_len, arrived, dispatched, reads>>

--------------------------------------------------------------------------
Init ==
  /\ frame = [state_ |-> "ready", mask_ |-> 0, masking_key_ |-> 0,
              payload_length_ |-> 0, data_pos_ |-> 0, pos_ |-> 0, length |-> 0,
              start_pos_ |-> 0]
  /\ data = [i \in 0..BUFFER_SIZE - 1 |-> 0]
  /\ data_len = 0
  /\ phase = "reading"
  /\ arrived = 0
  /\ dispatched = <<>>
  /\ reads = [atBorders |-> TRUE, everyBorder |-> TRUE]

Next ==
  \/ \E n \in 0..BUFFER_SIZE : Read(n)
  \/ ReadFailed
  \/ FetchFin \/ FetchLength \/ FetchMaskingKey \/ FetchPayload
  \/ Indeterminate \/ ParseError
  \/ FrameOk \/ FrameTooLong \/ FrameIncomplete \/ FrameError

Spec == Init /\ [][Next]_vars

--------------------------------------------------------------------------
(* Safety *)

\* What is handed to the dispatcher has arrived and is contiguous in the
\* stream: however reads cut the stream, no payload reaches beyond what was
\* received, into what an earlier frame left in the buffer.
PayloadArrived ==
  phase = "framedata_ok" =>
    /\ frame.data_pos_ + frame.payload_length_ <= frame.length
    /\ frame.length <= BUFFER_SIZE
    /\ \A i \in 0..frame.length - 1 : data[i] = arrived - frame.length + 1 + i

\* The bytes from the head of a frame to the end of its payload.
End(m) == m.head + m.data_pos_ + m.payload_length_ - 1

\* No byte of the stream is in two frames: none is parsed again after errors,
\* resets and frames that stick together.
BytesUsedOnce ==
  \A j, k \in 1..Len(dispatched) :
    j < k => End(dispatched[j]) < dispatched[k].head

\* A frame with a short length whose first byte is the first of the buffer is
\* handed on as it was sent, or not at all, however many reads it took.
ShortFrameIntact ==
  \A k \in 1..Len(dispatched) :
    LET m == dispatched[k]
        f == SentFrame(m.head)
    IN  Meant(m.head, 0) /\ f.extended = 0 =>
          /\ m.key = m.head + 2
          /\ m.data_pos_ = 6 /\ m.payload_length_ = f.payload

FramesArrived == {i \in 1..arrived : Border(i)}

\* If every read brings one frame, and none with a length of 8 bytes, all
\* frames are handed on, in order and intact.
FramePerRead ==
  /\ reads.atBorders /\ reads.everyBorder /\ phase = "reading"
  /\ \A i \in 1..arrived : SentFrame(i).extended # 8
  => /\ Len(dispatched) = Cardinality(FramesArrived)
     /\ \A k \in 1..Len(dispatched) :
          LET m == dispatched[k] IN
          /\ Stream[m.head] = [frame |-> k, offset |-> 0]
          /\ m.key = m.head + m.data_pos_ - 4
          /\ m.data_pos_ = HeaderSize(Sent[k])
          /\ m.payload_length_ = Sent[k].payload

--------------------------------------------------------------------------
(* What a comment of on_data_received says and its code does not do *)

\* "Frames stick together, go on parsing": frames that arrive whole, several
\* in one read, are all handed on.
StickyFramesParsed ==
  reads.atBorders /\ phase = "reading" => Len(dispatched) = Cardinality(FramesArrived)

=============================================================================
