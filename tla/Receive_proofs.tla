-------------------------- MODULE Receive_proofs --------------------------
(* Theorems about FrameReceive, Command and their composition Receive, for any
   frames, reads and lines: the server hands on bytes that have arrived, each of
   them once, and a frame with a short length as it was sent; and what
   command::init finds in a line is what is in it.                           *)
EXTENDS Receive, NumberFacts, SequenceTheorems, TLAPS

--------------------------------------------------------------------------
(* Frames *)

\* The buffer has not been handed on yet: what is in it is still to be used.
Fresh == frame.state_ = "payload_data_ok" => phase = "framedata_ok"

\* The buffer holds the last bytes that arrived.
BufferIsTail ==
  Fresh =>
    /\ frame.length <= BUFFER_SIZE /\ frame.length <= arrived
    /\ phase \in {"parsing", "framedata_ok", "framedata_indeterminate"} =>
         data_len <= frame.length
    /\ \A i \in 0..frame.length - 1 : data[i] = arrived - frame.length + 1 + i

\* Where the parser stands in each of its states.
Positions ==
  /\ phase = "framedata_ok" =>
       /\ frame.state_ = "payload_data_ok"
       /\ frame.pos_ = frame.data_pos_ + frame.payload_length_
       /\ frame.pos_ <= data_len
  /\ phase \in {"reading", "framedata_indeterminate"} =>
       frame.state_ # "payload_data_ok" /\ frame.start_pos_ = 0
  /\ frame.state_ # "payload_data_ok" => frame.start_pos_ = 0
  /\ frame.state_ = "ready" => frame.pos_ = 0
  /\ frame.state_ = "fin_and_rsv_ok" => frame.pos_ = 1
  /\ frame.state_ = "mask_and_payload_len_ok" => frame.pos_ \in {2, 4, 6}
  /\ frame.state_ = "mask_key_ok" => frame.pos_ = frame.data_pos_
  /\ frame.state_ \in {"mask_key_ok", "payload_data_ok"} => frame.data_pos_ >= 6
  /\ frame.state_ \in {"mask_and_payload_len_ok", "mask_key_ok", "payload_data_ok"} =>
       frame.length >= 2

\* The frames that were handed on end before the bytes in the buffer.
UsedBefore ==
  \A k \in 1..Len(dispatched) :
    End(dispatched[k]) <= arrived - (IF Fresh THEN frame.length ELSE 0)

\* The fields of a frame with a short length that starts the buffer.
ShortFrameParsed ==
  /\ frame.state_ \in {"mask_and_payload_len_ok", "mask_key_ok", "payload_data_ok"}
  /\ Fresh
  /\ Meant(data[0], 0) /\ SentFrame(data[0]).extended = 0
  => /\ frame.payload_length_ = SentFrame(data[0]).payload
     /\ frame.state_ = "mask_and_payload_len_ok" => frame.pos_ = 2
     /\ frame.state_ # "mask_and_payload_len_ok" =>
          frame.data_pos_ = 6 /\ frame.masking_key_ = data[0] + 2

FrameInv ==
  /\ TypeOK /\ BufferIsTail /\ Positions /\ UsedBefore /\ ShortFrameParsed
  /\ BytesUsedOnce /\ ShortFrameIntact

--------------------------------------------------------------------------
\* The types of the constants, without the shape of the stream.
LEMMA ConstantTypes ==
  /\ BUFFER_SIZE \in Nat /\ BUFFER_SIZE >= 6
  /\ Misread \subseteq Nat
  /\ Len(Stream) \in Nat
  /\ \A i \in 1..Len(Stream) :
       Stream[i].offset \in Nat /\ SentFrame(i) \in Frame
<1> DEFINE Byte == [frame: 1..Len(Sent), offset: Nat]
<1>1. /\ BUFFER_SIZE \in Nat /\ BUFFER_SIZE >= 6 /\ Misread \subseteq Nat
      /\ Sent \in Seq(Frame) /\ Stream \in Seq(Byte)
  BY StreamAssumption
<1>2. \A b \in Byte : b.frame \in 1..Len(Sent) /\ b.offset \in Nat
  OBVIOUS
<1> HIDE DEF Byte
<1>3. Len(Stream) \in Nat /\ \A i \in 1..Len(Stream) : Stream[i] \in Byte
  BY <1>1
<1>4. \A f \in 1..Len(Sent) : Sent[f] \in Frame
  BY <1>1
<1> QED BY <1>1, <1>2, <1>3, <1>4 DEF SentFrame

\* Every bound on a read of the length is a natural number.
LEMMA LengthsAreNat ==
  ASSUME TypeOK, NEW i \in 0..Len(Stream)
  PROVE  /\ \A form \in LengthForm(i) : form.mask \in {0, 1} /\ form.width \in {0, 2, 4}
         /\ ShortLength(i) \subseteq Nat
<1>1. CASE Meant(i, 1)
  <2>1. SentFrame(i) \in Frame
    BY <1>1, ConstantTypes DEF Meant
  <2> QED BY <1>1, <2>1 DEF LengthForm, ShortLength, Frame
<1>2. CASE ~ Meant(i, 1)
  BY <1>2, ConstantTypes DEF LengthForm, ShortLength
<1> QED BY <1>1, <1>2

LEMMA LongLengthsAreNat ==
  ASSUME TypeOK, NEW p \in 0..BUFFER_SIZE - 1, NEW width \in {2, 4}
  PROVE  LongLength(p, width) \subseteq Nat
<1>1. data[p] \in 0..Len(Stream)
  BY DEF TypeOK
<1>2. CASE Meant(data[p], 2)
  <2>1. SentFrame(data[p]) \in Frame
    BY <1>1, <1>2, ConstantTypes DEF Meant
  <2>2. (IF width = 2 THEN SentFrame(data[p]).payload ELSE 0) \in Nat
    BY <2>1 DEF Frame
  <2>3. Misread \subseteq Nat
    BY ConstantTypes
  <2> DEFINE long == IF width = 2 THEN SentFrame(data[p]).payload ELSE 0
  <2>4. LongLength(p, width) \in {{long}, Misread}
    BY DEF LongLength
  <2> QED BY <2>2, <2>3, <2>4
<1>3. CASE ~ Meant(data[p], 2)
  BY <1>3, ConstantTypes DEF LongLength
<1> QED BY <1>2, <1>3

\* What FetchLength leaves.
LEMMA FetchedLength ==
  ASSUME TypeOK, Positions, FetchLength
  PROVE  /\ frame.state_ = "fin_and_rsv_ok" /\ phase = "parsing"
         /\ frame.pos_ = 1 /\ 1 < data_len
         /\ \E mask \in {0, 1}, n \in Nat, width \in {0, 2, 4} :
              /\ frame' = [frame EXCEPT !.mask_ = mask, !.payload_length_ = n,
                                        !.pos_ = 2 + width,
                                        !.state_ = "mask_and_payload_len_ok"]
              /\ Meant(data[1], 1) /\ SentFrame(data[1]).extended = 0 =>
                   n = SentFrame(data[1]).payload /\ width = 0
<1>1. /\ frame.state_ = "fin_and_rsv_ok" /\ phase = "parsing"
      /\ frame.pos_ = 1 /\ 1 < data_len
  BY DEF FetchLength, Parse, Positions
<1>2. data[1] \in 0..Len(Stream)
  BY ConstantTypes DEF TypeOK
<1>3. PICK form \in LengthForm(data[1]) :
        \E n \in IF form.width = 0 THEN ShortLength(data[1])
                 ELSE LongLength(2, form.width) :
          frame' = [frame EXCEPT !.mask_ = form.mask, !.payload_length_ = n,
                                 !.pos_ = @ + 1 + form.width,
                                 !.state_ = "mask_and_payload_len_ok"]
  <2>1. frame.pos_ = 1 /\ frame.pos_ + 1 = 2
    BY <1>1
  <2>2. \E form \in LengthForm(data[frame.pos_]) :
          \E n \in IF form.width = 0 THEN ShortLength(data[frame.pos_])
                   ELSE LongLength(frame.pos_ + 1, form.width) :
            frame' = [frame EXCEPT !.mask_ = form.mask, !.payload_length_ = n,
                                   !.pos_ = @ + 1 + form.width,
                                   !.state_ = "mask_and_payload_len_ok"]
    BY DEF FetchLength
  <2> QED BY <2>1, <2>2
<1>4. form.mask \in {0, 1} /\ form.width \in {0, 2, 4}
  BY <1>2, <1>3, LengthsAreNat
<1>5. PICK n \in IF form.width = 0 THEN ShortLength(data[1])
                 ELSE LongLength(2, form.width) :
        frame' = [frame EXCEPT !.mask_ = form.mask, !.payload_length_ = n,
                               !.pos_ = @ + 1 + form.width,
                               !.state_ = "mask_and_payload_len_ok"]
  BY <1>3
<1>6. n \in Nat
  <2>1. CASE form.width = 0
    BY <2>1, <1>2, <1>5, LengthsAreNat
  <2>2. CASE form.width \in {2, 4}
    BY <2>2, <1>5, LongLengthsAreNat, ConstantTypes
  <2> QED BY <1>4, <2>1, <2>2
<1>7. frame' = [frame EXCEPT !.mask_ = form.mask, !.payload_length_ = n,
                             !.pos_ = 2 + form.width,
                             !.state_ = "mask_and_payload_len_ok"]
  BY <1>1, <1>4, <1>5
<1>8. ASSUME Meant(data[1], 1), SentFrame(data[1]).extended = 0
      PROVE  n = SentFrame(data[1]).payload /\ form.width = 0
  BY <1>8, <1>3, <1>5 DEF LengthForm, ShortLength
<1> QED BY <1>1, <1>4, <1>6, <1>7, <1>8

--------------------------------------------------------------------------
LEMMA TypeStep ==
  ASSUME TypeOK, BufferIsTail, Positions, Next
  PROVE  TypeOK'
<1>0. frame \in FrameData /\ Reset \in FrameData
  BY ConstantTypes DEF TypeOK, Reset, FrameData, State
<1>1. ASSUME NEW n \in 0..BUFFER_SIZE, Read(n) PROVE TypeOK'
  <2>1. frame.length \in Nat
    BY <1>0 DEF FrameData
  <2>2. frame.length + n \in 0..2 * BUFFER_SIZE
    BY <1>1, <2>1, ConstantTypes DEF Read
  <2>3. frame' = [frame EXCEPT !.length = frame.length + n]
    BY <1>1 DEF Read
  <2>4. frame' \in FrameData
    BY <1>0, <2>2, <2>3 DEF FrameData
  <2>5. arrived' \in 0..Len(Stream)
    BY <1>1, ConstantTypes, SMTT(30) DEF Read, TypeOK
  <2>6. ASSUME NEW i \in 0..BUFFER_SIZE - 1 PROVE data'[i] \in 0..Len(Stream)
    <3>1. data'[i] = IF i \in frame.length..frame.length + n - 1
                     THEN arrived + 1 + (i - frame.length) ELSE data[i]
      BY <1>1 DEF Read
    <3>2. data[i] \in 0..Len(Stream) /\ arrived \in Nat /\ Len(Stream) \in Nat
      BY ConstantTypes DEF TypeOK
    <3>3. arrived + n <= Len(Stream)
      BY <1>1 DEF Read
    <3> QED BY <2>1, <3>1, <3>2, <3>3, ConstantTypes
  <2>7. data' \in [0..BUFFER_SIZE - 1 -> 0..Len(Stream)]
    BY <1>1, <2>6 DEF Read
  <2>8. reads' \in [atBorders: BOOLEAN, everyBorder: BOOLEAN]
    BY <1>1 DEF Read, Border, TypeOK
  <2> QED BY <1>1, <2>4, <2>5, <2>7, <2>8 DEF Read, TypeOK
<1>2. CASE ReadFailed
  BY <1>2 DEF ReadFailed, TypeOK
<1>3. CASE FetchFin
  <2>1. frame.pos_ + 1 \in Nat /\ "fin_and_rsv_ok" \in State
    BY <1>0 DEF FrameData, State
  <2>2. frame' = [frame EXCEPT !.pos_ = frame.pos_ + 1, !.state_ = "fin_and_rsv_ok"]
    BY <1>3 DEF FetchFin
  <2>3. frame' \in FrameData
    BY <1>0, <2>1, <2>2 DEF FrameData
  <2> QED BY <1>3, <2>3 DEF FetchFin, TypeOK
<1>4. CASE FetchLength
  <2>1. PICK mask \in {0, 1}, n \in Nat, width \in {0, 2, 4} :
          frame' = [frame EXCEPT !.mask_ = mask, !.payload_length_ = n,
                                 !.pos_ = 2 + width,
                                 !.state_ = "mask_and_payload_len_ok"]
    BY <1>4, FetchedLength
  <2>2. 2 + width \in Nat /\ "mask_and_payload_len_ok" \in State
    BY DEF State
  <2>3. frame' \in FrameData
    BY <1>0, <2>1, <2>2 DEF FrameData
  <2> QED BY <1>4, <2>3 DEF FetchLength, TypeOK
<1>5. CASE FetchMaskingKey
  <2>1. frame.pos_ \in Nat /\ data_len \in 0..BUFFER_SIZE
    BY <1>0 DEF FrameData, TypeOK
  <2>2. frame.pos_ \in 0..BUFFER_SIZE - 1
    BY <1>5, <2>1, ConstantTypes DEF FetchMaskingKey
  <2>3. data[frame.pos_] \in Nat /\ frame.pos_ + 4 \in Nat /\ "mask_key_ok" \in State
    BY <2>1, <2>2, ConstantTypes, SMTT(30) DEF TypeOK, State
  <2>4. frame' = [frame EXCEPT !.masking_key_ = data[frame.pos_],
                               !.pos_ = frame.pos_ + 4,
                               !.data_pos_ = frame.pos_ + 4, !.state_ = "mask_key_ok"]
    BY <1>5 DEF FetchMaskingKey
  <2>5. frame' \in FrameData
    BY <1>0, <2>3, <2>4 DEF FrameData
  <2> QED BY <1>5, <2>5 DEF FetchMaskingKey, TypeOK
<1>6. CASE FetchPayload
  <2>1. frame.pos_ + frame.payload_length_ \in Nat /\ "payload_data_ok" \in State
    BY <1>0 DEF FrameData, State
  <2>2. frame' = [frame EXCEPT !.pos_ = frame.pos_ + frame.payload_length_,
                               !.start_pos_ = frame.pos_ + frame.payload_length_,
                               !.state_ = "payload_data_ok"]
    BY <1>6 DEF FetchPayload
  <2>3. frame' \in FrameData
    BY <1>0, <2>1, <2>2 DEF FrameData
  <2> QED BY <1>6, <2>3 DEF FetchPayload, TypeOK, Result
<1>7. CASE Indeterminate
  BY <1>7 DEF Indeterminate, Return, TypeOK, Result
<1>8. CASE ParseError
  BY <1>8 DEF ParseError, Return, TypeOK, Result
<1>9. CASE FrameOk
  <2>1. Received \in Message
    BY <1>0, ConstantTypes DEF Received, Message, FrameData, TypeOK
  <2>2. dispatched' \in Seq(Message)
    BY <1>9, <2>1 DEF FrameOk, TypeOK
  <2>3. frame.length + data_len \in 0..2 * BUFFER_SIZE
    <3>1. frame.length \in Nat /\ data_len \in 0..BUFFER_SIZE
      BY <1>0 DEF FrameData, TypeOK
    <3>2. frame.length <= BUFFER_SIZE
      BY <1>9 DEF FrameOk, BufferIsTail, Fresh
    <3> QED BY <3>1, <3>2, ConstantTypes
  <2>4. [frame EXCEPT !.length = frame.length + data_len] \in FrameData
    BY <1>0, <2>3 DEF FrameData
  <2>5. frame' \in FrameData
    BY <1>0, <1>9, <2>4 DEF FrameOk
  <2> QED BY <1>9, <2>2, <2>5 DEF FrameOk, TypeOK
<1>10. CASE FrameTooLong
  BY <1>10 DEF FrameTooLong, TypeOK
<1>11. CASE FrameIncomplete
  BY <1>11 DEF FrameIncomplete, Positions, TypeOK
<1>12. CASE FrameError
  BY <1>0, <1>12 DEF FrameError, TypeOK
<1> QED
  BY <1>1, <1>2, <1>3, <1>4, <1>5, <1>6, <1>7, <1>8, <1>9, <1>10, <1>11, <1>12 DEF Next

\* What the steps of the parser do not touch.
LEMMA ParserStep ==
  ASSUME TypeOK, BufferIsTail, Positions,
         FetchFin \/ FetchLength \/ FetchMaskingKey \/ FetchPayload
         \/ Indeterminate \/ ParseError
  PROVE  /\ UNCHANGED <<data, data_len, arrived, dispatched, reads>>
         /\ frame'.length = frame.length
         /\ phase = "parsing" /\ phase' \in {"parsing"} \cup Result
         /\ frame.state_ # "payload_data_ok" \/ UNCHANGED frame
         /\ Fresh' => Fresh
<1>0. frame \in FrameData
  BY DEF TypeOK
<1>1. CASE FetchFin
  <2>1. frame'.length = frame.length
    BY <1>0, <1>1 DEF FetchFin, FrameData
  <2> QED BY <1>1, <2>1 DEF FetchFin, Parse, Fresh
<1>2. CASE FetchLength
  <2>1. frame'.length = frame.length
    BY <1>0, <1>2, FetchedLength DEF FrameData
  <2>2. frame.state_ = "fin_and_rsv_ok" /\ phase = "parsing"
    BY <1>2 DEF FetchLength, Parse
  <2>3. UNCHANGED <<data, data_len, phase, arrived, dispatched, reads>>
    BY <1>2 DEF FetchLength
  <2> QED BY <2>1, <2>2, <2>3 DEF Fresh
<1>3. CASE FetchMaskingKey
  <2>1. frame'.length = frame.length
    BY <1>0, <1>3 DEF FetchMaskingKey, FrameData
  <2> QED BY <1>3, <2>1 DEF FetchMaskingKey, Parse, Fresh
<1>4. CASE FetchPayload
  <2>1. frame'.length = frame.length
    BY <1>0, <1>4 DEF FetchPayload, FrameData
  <2> QED BY <1>4, <2>1 DEF FetchPayload, Parse, Fresh, Result
<1>5. CASE Indeterminate
  BY <1>5 DEF Indeterminate, Parse, Return, Fresh, Result
<1>6. CASE ParseError
  BY <1>6 DEF ParseError, Parse, Return, Fresh, Result
<1> QED BY <1>1, <1>2, <1>3, <1>4, <1>5, <1>6

LEMMA TailStep ==
  ASSUME TypeOK, BufferIsTail, Positions, Next
  PROVE  BufferIsTail'
<1>0. /\ frame.length \in Nat /\ arrived \in Nat /\ data_len \in 0..BUFFER_SIZE
      /\ BUFFER_SIZE \in Nat
  BY ConstantTypes DEF TypeOK, FrameData
<1>1. ASSUME NEW n \in 0..BUFFER_SIZE, Read(n) PROVE BufferIsTail'
  <2>1. /\ phase = "reading" /\ frame.length + n <= BUFFER_SIZE /\ Fresh
        /\ arrived' = arrived + n /\ data_len' = n /\ phase' = "parsing"
        /\ frame'.length = frame.length + n
    BY <1>1 DEF Read, Positions, Fresh, TypeOK, FrameData
  <2>2. /\ frame.length <= arrived
        /\ \A i \in 0..frame.length - 1 : data[i] = arrived - frame.length + 1 + i
    BY <2>1 DEF BufferIsTail
  <2>3. ASSUME NEW i \in 0..frame'.length - 1
        PROVE  data'[i] = arrived' - frame'.length + 1 + i
    <3>1. i \in 0..BUFFER_SIZE - 1
      BY <1>0, <2>1
    <3>2. data'[i] = IF i \in frame.length..frame.length + n - 1
                     THEN arrived + 1 + (i - frame.length) ELSE data[i]
      BY <1>1, <3>1 DEF Read
    <3> QED BY <1>0, <2>1, <2>2, <3>1, <3>2
  <2> QED BY <1>0, <2>1, <2>2, <2>3 DEF BufferIsTail
<1>2. CASE FetchFin \/ FetchLength \/ FetchMaskingKey \/ FetchPayload
           \/ Indeterminate \/ ParseError
  BY <1>2, ParserStep DEF BufferIsTail, Result
<1>3. CASE ReadFailed \/ FrameTooLong
  BY <1>3 DEF ReadFailed, FrameTooLong, BufferIsTail, Positions, Fresh
<1>4. CASE FrameIncomplete
  BY <1>4 DEF FrameIncomplete, BufferIsTail, Positions, Fresh
<1>5. CASE FrameOk
  <2>1. CASE UNCHANGED frame /\ phase' = "ended"
    BY <1>5, <2>1 DEF FrameOk, BufferIsTail, Positions, Fresh
  <2>2. CASE /\ frame' = [frame EXCEPT !.length = @ + data_len]
             /\ phase' = "parsing"
    BY <1>5, <2>2 DEF FrameOk, BufferIsTail, Positions, Fresh, TypeOK, FrameData
  <2>3. CASE frame' = Reset
    BY <1>0, <1>5, <2>3 DEF FrameOk, BufferIsTail, Reset
  <2> QED BY <1>5, <2>1, <2>2, <2>3 DEF FrameOk
<1>6. CASE FrameError
  BY <1>0, <1>6 DEF FrameError, BufferIsTail, Reset
<1> QED BY <1>1, <1>2, <1>3, <1>4, <1>5, <1>6 DEF Next

LEMMA PositionStep ==
  ASSUME TypeOK, BufferIsTail, Positions, Next
  PROVE  Positions'
<1>0. frame \in FrameData /\ data_len \in 0..BUFFER_SIZE /\ BUFFER_SIZE \in Nat
  BY ConstantTypes DEF TypeOK
<1>1. ASSUME NEW n \in 0..BUFFER_SIZE, Read(n) PROVE Positions'
  BY <1>0, <1>1 DEF Read, Positions, FrameData
<1>2. CASE ReadFailed \/ FrameTooLong
  BY <1>2 DEF ReadFailed, FrameTooLong, Positions
<1>3. CASE FetchFin
  BY <1>0, <1>3 DEF FetchFin, Parse, Positions, FrameData
<1>4. CASE FetchLength
  <2>1. PICK mask \in {0, 1}, n \in Nat, width \in {0, 2, 4} :
          frame' = [frame EXCEPT !.mask_ = mask, !.payload_length_ = n,
                                 !.pos_ = 2 + width,
                                 !.state_ = "mask_and_payload_len_ok"]
    BY <1>4, FetchedLength
  <2>2. frame.state_ = "fin_and_rsv_ok" /\ phase = "parsing" /\ 1 < data_len
    BY <1>4, FetchedLength
  <2>3. frame.length >= 2 /\ frame.start_pos_ = 0
    BY <1>0, <2>2 DEF BufferIsTail, Fresh, Positions, FrameData
  <2>4. /\ frame'.state_ = "mask_and_payload_len_ok" /\ frame'.pos_ \in {2, 4, 6}
        /\ frame'.length = frame.length /\ frame'.start_pos_ = frame.start_pos_
    BY <1>0, <2>1 DEF FrameData
  <2>5. phase' = "parsing"
    BY <1>4, <2>2 DEF FetchLength
  <2> QED BY <2>3, <2>4, <2>5 DEF Positions
<1>5. CASE FetchMaskingKey
  BY <1>0, <1>5 DEF FetchMaskingKey, Parse, Positions, FrameData
<1>6. CASE FetchPayload
  BY <1>0, <1>6 DEF FetchPayload, Parse, Positions, FrameData
<1>7. CASE Indeterminate
  BY <1>7 DEF Indeterminate, Parse, Return, Positions
<1>8. CASE ParseError
  BY <1>8 DEF ParseError, Parse, Return, Positions
<1>9. CASE FrameOk
  <2>1. CASE UNCHANGED frame /\ phase' = "ended"
    BY <1>9, <2>1 DEF FrameOk, Positions
  <2>2. CASE /\ frame' = [frame EXCEPT !.length = @ + data_len]
             /\ phase' = "parsing"
    <3>1. frame.state_ = "payload_data_ok" /\ frame.length >= 2 /\ frame.data_pos_ >= 6
      BY <1>9 DEF FrameOk, Positions
    <3>2. /\ frame'.state_ = "payload_data_ok" /\ frame'.length >= 2
          /\ frame'.data_pos_ >= 6
      BY <1>0, <2>2, <3>1 DEF FrameData
    <3> QED BY <2>2, <3>2 DEF Positions
  <2>3. CASE frame' = Reset /\ phase' = "reading"
    BY <2>3 DEF Positions, Reset
  <2> QED BY <1>9, <2>1, <2>2, <2>3 DEF FrameOk
<1>10. CASE FrameIncomplete
  BY <1>10 DEF FrameIncomplete, Positions
<1>11. CASE FrameError
  BY <1>11 DEF FrameError, Positions, Reset
<1> QED
  BY <1>1, <1>2, <1>3, <1>4, <1>5, <1>6, <1>7, <1>8, <1>9, <1>10, <1>11 DEF Next

--------------------------------------------------------------------------
\* The frame that is handed on: it begins with the first byte of the buffer
\* and ends with a byte that has arrived.
LEMMA HandedOn ==
  ASSUME TypeOK, BufferIsTail, Positions, UsedBefore, FrameOk
  PROVE  /\ Received \in Message /\ dispatched' = Append(dispatched, Received)
         /\ Len(dispatched) \in Nat
         /\ \A k \in 1..Len(dispatched) :
              dispatched[k] \in Message /\ End(dispatched[k]) < Received.head
         /\ End(Received) <= arrived
<1>1. /\ frame \in FrameData /\ arrived \in Nat /\ data_len \in Nat
      /\ BUFFER_SIZE \in Nat /\ BUFFER_SIZE >= 6
      /\ data[0] \in Nat /\ dispatched \in Seq(Message)
  BY ConstantTypes DEF TypeOK
<1>2. /\ frame.length \in Nat /\ frame.pos_ \in Nat /\ frame.data_pos_ \in Nat
      /\ frame.payload_length_ \in Nat /\ frame.masking_key_ \in Nat
  BY <1>1 DEF FrameData
<1>3. phase = "framedata_ok" /\ Fresh
  BY DEF FrameOk, Fresh
<1>4. /\ frame.pos_ = frame.data_pos_ + frame.payload_length_
      /\ frame.pos_ <= data_len /\ data_len <= frame.length
      /\ frame.length >= 2
  BY <1>3 DEF Positions, BufferIsTail
<1>5. data[0] = arrived - frame.length + 1 + 0
  BY <1>2, <1>3, <1>4 DEF BufferIsTail
<1>6. Received \in Message
  BY <1>1, <1>2 DEF Received, Message
<1>7. End(Received) <= arrived
  <2>1. End(Received) = data[0] + frame.data_pos_ + frame.payload_length_ - 1
    BY DEF End, Received
  <2>2. /\ data[0] \in Nat /\ arrived \in Nat /\ data_len \in Nat
        /\ frame.length \in Nat /\ frame.data_pos_ \in Nat
        /\ frame.payload_length_ \in Nat /\ frame.pos_ \in Nat
    BY <1>1, <1>2
  <2>3. /\ frame.pos_ = frame.data_pos_ + frame.payload_length_
        /\ frame.pos_ <= data_len /\ data_len <= frame.length
    BY <1>4
  <2>4. data[0] = arrived - frame.length + 1
    BY <1>5, <2>2
  <2> QED BY <2>1, <2>2, <2>3, <2>4
<1>8. ASSUME NEW k \in 1..Len(dispatched)
      PROVE  dispatched[k] \in Message /\ End(dispatched[k]) < Received.head
  <2>1. dispatched[k] \in Message
    BY <1>1
  <2>2. End(dispatched[k]) \in Int
    BY <2>1 DEF Message, End
  <2>3. End(dispatched[k]) <= arrived - frame.length
    BY <1>3 DEF UsedBefore
  <2> QED BY <1>1, <1>2, <1>5, <2>1, <2>2, <2>3 DEF Received
<1> QED BY <1>1, <1>6, <1>7, <1>8 DEF FrameOk

LEMMA UsedStep ==
  ASSUME TypeOK, BufferIsTail, Positions, UsedBefore, Next
  PROVE  UsedBefore'
<1>0. /\ frame.length \in Nat /\ arrived \in Nat /\ data_len \in Nat
      /\ dispatched \in Seq(Message)
  BY ConstantTypes DEF TypeOK, FrameData
<1>1. \A k \in 1..Len(dispatched) : End(dispatched[k]) \in Int
  <2>1. \A k \in 1..Len(dispatched) : dispatched[k] \in Message
    BY <1>0
  <2> QED BY <2>1 DEF Message, End
<1>2. SUFFICES ASSUME ~ FrameOk
               PROVE  UsedBefore'
  <2>1. SUFFICES ASSUME FrameOk
                 PROVE  UsedBefore'
    OBVIOUS
  <2>2. arrived' = arrived
    BY <2>1 DEF FrameOk
  <2>3. Fresh' => frame'.length = 0
    BY <2>1, SMTT(30) DEF FrameOk, Fresh, Positions, Reset, TypeOK, FrameData
  <2>4. ASSUME NEW k \in 1..Len(dispatched')
        PROVE  End(dispatched'[k]) <= arrived
    <3>1. CASE k = Len(dispatched) + 1
      BY <2>1, <3>1, HandedOn
    <3>2. CASE k \in 1..Len(dispatched)
      <4>1. dispatched'[k] = dispatched[k]
        BY <1>0, <2>1, <3>2, HandedOn
      <4>2. End(dispatched[k]) <= arrived - (IF Fresh THEN frame.length ELSE 0)
        BY <3>2 DEF UsedBefore
      <4> QED BY <1>0, <1>1, <3>2, <4>1, <4>2
    <3> QED BY <1>0, <2>1, <2>4, <3>1, <3>2, HandedOn
  <2> QED BY <1>0, <2>2, <2>3, <2>4 DEF UsedBefore
<1>3. SUFFICES arrived' - (IF Fresh' THEN frame'.length ELSE 0)
                 >= arrived - (IF Fresh THEN frame.length ELSE 0)
               /\ arrived' \in Nat /\ (Fresh' => frame'.length \in Nat)
  <2>1. dispatched' = dispatched
    BY <1>2, ParserStep DEF Next, Read, ReadFailed, FrameTooLong, FrameIncomplete, FrameError
  <2> QED BY <1>0, <1>1, <1>3, <2>1, SMTT(30) DEF UsedBefore
<1>4. ASSUME NEW n \in 0..BUFFER_SIZE, Read(n)
      PROVE  /\ arrived' = arrived + n /\ frame'.length = frame.length + n
             /\ n \in Nat /\ Fresh
  BY <1>4, ConstantTypes DEF Read, Fresh, Positions, TypeOK, FrameData
<1>5. CASE FetchFin \/ FetchLength \/ FetchMaskingKey \/ FetchPayload
           \/ Indeterminate \/ ParseError
  BY <1>0, <1>5, ParserStep
<1>6. CASE ReadFailed \/ FrameTooLong \/ FrameIncomplete
  <2>1. Fresh /\ UNCHANGED <<frame, arrived>>
    BY <1>6 DEF ReadFailed, FrameTooLong, FrameIncomplete, Positions, Fresh
  <2> QED BY <1>0, <2>1
<1>7. CASE FrameError
  BY <1>0, <1>7 DEF FrameError, Reset
<1> QED BY <1>0, <1>2, <1>4, <1>5, <1>6, <1>7, SMTT(30) DEF Next

LEMMA OnceStep ==
  ASSUME TypeOK, BufferIsTail, Positions, UsedBefore, BytesUsedOnce, Next
  PROVE  BytesUsedOnce'
<1>1. CASE FrameOk
  <2>1. SUFFICES ASSUME NEW j \in 1..Len(dispatched'), NEW k \in 1..Len(dispatched'),
                        j < k
                 PROVE  End(dispatched'[j]) < dispatched'[k].head
    BY DEF BytesUsedOnce
  <2>2. Len(dispatched) \in Nat /\ dispatched \in Seq(Message)
    BY <1>1, HandedOn DEF TypeOK
  <2>3. j \in 1..Len(dispatched) /\ dispatched'[j] = dispatched[j]
    BY <1>1, <2>1, <2>2, HandedOn
  <2>4. CASE k = Len(dispatched) + 1
    BY <1>1, <2>2, <2>3, <2>4, HandedOn
  <2>5. CASE k \in 1..Len(dispatched)
    BY <1>1, <2>1, <2>2, <2>3, <2>5, HandedOn DEF BytesUsedOnce
  <2> QED BY <1>1, <2>2, <2>4, <2>5, HandedOn
<1>2. CASE ~ FrameOk
  <2>1. dispatched' = dispatched
    BY <1>2, ParserStep DEF Next, Read, ReadFailed, FrameTooLong, FrameIncomplete, FrameError
  <2> QED BY <2>1 DEF BytesUsedOnce
<1> QED BY <1>1, <1>2

--------------------------------------------------------------------------
\* The byte after the first byte of a frame is the second one of that frame.
LEMMA SecondByte ==
  ASSUME NEW i \in 1..Len(Stream), i + 1 \in 1..Len(Stream), Meant(i, 0)
  PROVE  Meant(i + 1, 1) /\ SentFrame(i + 1) = SentFrame(i)
<1>1. Len(Stream) \in Nat /\ SentFrame(i) \in Frame
  BY ConstantTypes
<1>2. Stream[i].offset = 0
  BY DEF Meant
<1>3. ~ LastByte(Stream[i])
  <2>1. /\ Sent[Stream[i].frame].payload \in Nat
        /\ Sent[Stream[i].frame].extended \in Nat
    BY <1>1 DEF SentFrame, Frame
  <2> QED BY <1>2, <2>1, SMTT(30) DEF LastByte, HeaderSize
<1>4. i + 1 # 1 /\ (i + 1) - 1 = i
  BY <1>1
<1>5. Stream[i + 1] = [Stream[i] EXCEPT !.offset = @ + 1]
  BY <1>3, <1>4, StreamAssumption
<1>6. Stream \in Seq([frame: 1..Len(Sent), offset: Nat])
  BY StreamAssumption
<1> DEFINE Byte == [frame: 1..Len(Sent), offset: Nat]
<1>7. \A b \in Byte :
        LET c == [b EXCEPT !.offset = @ + 1]
        IN  c.offset = b.offset + 1 /\ c.frame = b.frame
  OBVIOUS
<1>8. Stream[i] \in Byte
  <2> HIDE DEF Byte
  <2>1. Stream \in Seq(Byte)
    BY <1>6 DEF Byte
  <2> QED BY <2>1
<1>9. Stream[i + 1].offset = 1 /\ Stream[i + 1].frame = Stream[i].frame
  BY <1>2, <1>5, <1>7, <1>8
<1> QED BY <1>1, <1>4, <1>9 DEF Meant, SentFrame

LEMMA ShortStep ==
  ASSUME TypeOK, BufferIsTail, Positions, ShortFrameParsed, Next
  PROVE  ShortFrameParsed'
<1>0. /\ frame \in FrameData /\ data_len \in Nat /\ arrived \in 0..Len(Stream)
      /\ Len(Stream) \in Nat /\ BUFFER_SIZE \in Nat /\ BUFFER_SIZE >= 6
  BY ConstantTypes DEF TypeOK
<1> DEFINE Parsed(f) ==
      f.state_ \in {"mask_and_payload_len_ok", "mask_key_ok", "payload_data_ok"}
<1>1. ASSUME NEW n \in 0..BUFFER_SIZE, Read(n) PROVE ShortFrameParsed'
  <2>1. SUFFICES ASSUME Parsed(frame')
                 PROVE  data'[0] = data[0]
    <3>1. /\ frame' = [frame EXCEPT !.length = frame.length + n]
          /\ phase = "reading" /\ phase' = "parsing"
      BY <1>1 DEF Read
    <3>2. /\ frame'.state_ = frame.state_ /\ frame'.pos_ = frame.pos_
          /\ frame'.payload_length_ = frame.payload_length_
          /\ frame'.data_pos_ = frame.data_pos_
          /\ frame'.masking_key_ = frame.masking_key_
      BY <1>0, <3>1 DEF FrameData
    <3>3. Fresh
      BY <3>1 DEF Fresh, Positions
    <3> QED BY <2>1, <3>2, <3>3 DEF ShortFrameParsed, SentFrame, Meant
  <2>2. frame.length \in Nat /\ frame.state_ = frame'.state_
    BY <1>0, <1>1 DEF Read, FrameData
  <2>3. frame.length >= 2
    BY <2>1, <2>2 DEF Positions
  <2>4. data'[0] = IF 0 \in frame.length..frame.length + n - 1
                   THEN arrived + 1 + (0 - frame.length) ELSE data[0]
    BY <1>0, <1>1 DEF Read
  <2> QED BY <2>2, <2>3, <2>4
<1>2. CASE FetchFin
  BY <1>0, <1>2 DEF FetchFin, ShortFrameParsed, FrameData
<1>3. CASE FetchLength
  <2>1. PICK mask \in {0, 1}, n \in Nat, width \in {0, 2, 4} :
          /\ frame' = [frame EXCEPT !.mask_ = mask, !.payload_length_ = n,
                                    !.pos_ = 2 + width,
                                    !.state_ = "mask_and_payload_len_ok"]
          /\ Meant(data[1], 1) /\ SentFrame(data[1]).extended = 0 =>
               n = SentFrame(data[1]).payload /\ width = 0
    BY <1>3, FetchedLength
  <2>2. /\ frame'.state_ = "mask_and_payload_len_ok"
        /\ frame'.payload_length_ = n /\ frame'.pos_ = 2 + width
        /\ data' = data
    BY <1>0, <1>3, <2>1 DEF FetchLength, FrameData
  <2>3. /\ frame.length \in Nat /\ frame.length >= 2 /\ frame.length <= arrived
        /\ data[0] = arrived - frame.length + 1
        /\ data[1] = arrived - frame.length + 2
    <3>1. frame.state_ = "fin_and_rsv_ok" /\ phase = "parsing" /\ 1 < data_len
      BY <1>3, FetchedLength
    <3>2. /\ frame.length \in Nat /\ Fresh
      BY <1>0, <3>1 DEF Fresh, FrameData
    <3>3. data_len <= frame.length /\ frame.length <= arrived
      BY <3>1, <3>2 DEF BufferIsTail
    <3>4. \A i \in 0..frame.length - 1 : data[i] = arrived - frame.length + 1 + i
      BY <3>2 DEF BufferIsTail
    <3> QED BY <1>0, <3>1, <3>2, <3>3, <3>4, SMTT(30)
  <2>4. ASSUME Meant(data[0], 0), SentFrame(data[0]).extended = 0
        PROVE  n = SentFrame(data[0]).payload /\ width = 0
    <3>1. /\ data[0] \in 1..Len(Stream) /\ data[0] + 1 \in 1..Len(Stream)
          /\ data[1] = data[0] + 1
      BY <1>0, <2>3
    <3> QED BY <2>1, <2>4, <3>1, SecondByte
  <2> QED BY <2>2, <2>4 DEF ShortFrameParsed
<1>4. CASE FetchMaskingKey
  <2>1. /\ frame'.state_ = "mask_key_ok" /\ frame'.data_pos_ = frame.pos_ + 4
        /\ frame'.masking_key_ = data[frame.pos_]
        /\ frame'.payload_length_ = frame.payload_length_
        /\ data' = data
    BY <1>0, <1>4 DEF FetchMaskingKey, FrameData
  <2>2. /\ frame.state_ = "mask_and_payload_len_ok" /\ phase = "parsing"
        /\ frame.pos_ + 4 <= data_len
    BY <1>4 DEF FetchMaskingKey, Parse
  <2>3. Fresh /\ frame.length \in Nat
    BY <1>0, <2>2 DEF Fresh, FrameData
  <2>4. /\ data_len <= frame.length
        /\ \A i \in 0..frame.length - 1 : data[i] = arrived - frame.length + 1 + i
    BY <2>2, <2>3 DEF BufferIsTail
  <2>5. ASSUME frame.pos_ = 2
        PROVE  data[2] = data[0] + 2
    BY <1>0, <2>2, <2>3, <2>4, <2>5
  <2> QED BY <2>1, <2>2, <2>3, <2>5 DEF ShortFrameParsed
<1>5. CASE FetchPayload
  <2>1. /\ frame'.state_ = "payload_data_ok" /\ frame'.data_pos_ = frame.data_pos_
        /\ frame'.masking_key_ = frame.masking_key_
        /\ frame'.payload_length_ = frame.payload_length_
        /\ data' = data
    BY <1>0, <1>5 DEF FetchPayload, FrameData
  <2>2. frame.state_ = "mask_key_ok" /\ Fresh
    BY <1>5 DEF FetchPayload, Parse, Fresh
  <2> QED BY <2>1, <2>2 DEF ShortFrameParsed
<1>6. CASE Indeterminate \/ ParseError
  BY <1>6, ParserStep DEF Indeterminate, ParseError, Parse, Return, ShortFrameParsed, Fresh
<1>7. CASE ReadFailed \/ FrameTooLong \/ FrameIncomplete
  <2>1. Fresh /\ UNCHANGED <<frame, data>>
    BY <1>7 DEF ReadFailed, FrameTooLong, FrameIncomplete, Positions, Fresh
  <2> QED BY <2>1 DEF ShortFrameParsed, SentFrame, Meant
<1>8. CASE FrameOk
  <2>1. Fresh' => frame'.state_ = "ready"
    BY <1>0, <1>8, SMTT(30) DEF FrameOk, Fresh, Positions, Reset, FrameData
  <2> QED BY <2>1 DEF ShortFrameParsed
<1>9. CASE FrameError
  BY <1>9 DEF FrameError, Reset, ShortFrameParsed
<1> QED BY <1>1, <1>2, <1>3, <1>4, <1>5, <1>6, <1>7, <1>8, <1>9 DEF Next

LEMMA IntactStep ==
  ASSUME TypeOK, BufferIsTail, Positions, UsedBefore, ShortFrameParsed,
         ShortFrameIntact, Next
  PROVE  ShortFrameIntact'
<1>1. CASE FrameOk
  <2>1. SUFFICES ASSUME NEW k \in 1..Len(dispatched'),
                        Meant(dispatched'[k].head, 0),
                        SentFrame(dispatched'[k].head).extended = 0
                 PROVE  /\ dispatched'[k].key = dispatched'[k].head + 2
                        /\ dispatched'[k].data_pos_ = 6
                        /\ dispatched'[k].payload_length_
                             = SentFrame(dispatched'[k].head).payload
    BY DEF ShortFrameIntact, Meant, SentFrame
  <2>2. Len(dispatched) \in Nat /\ dispatched \in Seq(Message)
    BY <1>1, HandedOn DEF TypeOK
  <2>3. CASE k = Len(dispatched) + 1
    <3>1. dispatched'[k] = Received
      BY <1>1, <2>2, <2>3, HandedOn
    <3>2. frame.state_ = "payload_data_ok" /\ Fresh
      BY <1>1 DEF FrameOk, Positions, Fresh
    <3>3. Received.head = data[0]
      BY DEF Received
    <3> QED BY <2>1, <3>1, <3>2, <3>3 DEF ShortFrameParsed, Received
  <2>4. CASE k \in 1..Len(dispatched)
    <3>1. dispatched'[k] = dispatched[k]
      BY <1>1, <2>2, <2>4, HandedOn
    <3> QED BY <2>1, <2>4, <3>1 DEF ShortFrameIntact
  <2> QED BY <1>1, <2>2, <2>3, <2>4, HandedOn
<1>2. CASE ~ FrameOk
  <2>1. dispatched' = dispatched
    BY <1>2, ParserStep DEF Next, Read, ReadFailed, FrameTooLong, FrameIncomplete, FrameError
  <2> QED BY <2>1 DEF ShortFrameIntact, Meant, SentFrame
<1> QED BY <1>1, <1>2

--------------------------------------------------------------------------
\* The invariant that the theorems below rest on, for every stream of whole
\* frames, every buffer and every way in which reads cut the stream.
THEOREM FrameInductive == Spec => []FrameInv
<1>1. Init => FrameInv
  <2> SUFFICES ASSUME Init PROVE FrameInv
    OBVIOUS
  <2>1. TypeOK
    BY ConstantTypes DEF Init, TypeOK, FrameData, State
  <2>2. BufferIsTail /\ Positions /\ ShortFrameParsed
    BY ConstantTypes DEF Init, BufferIsTail, Positions, ShortFrameParsed
  <2>3. UsedBefore /\ BytesUsedOnce /\ ShortFrameIntact
    BY DEF Init, UsedBefore, BytesUsedOnce, ShortFrameIntact
  <2> QED BY <2>1, <2>2, <2>3 DEF FrameInv
<1>2. FrameInv /\ [Next]_vars => FrameInv'
  <2> SUFFICES ASSUME FrameInv, [Next]_vars PROVE FrameInv'
    OBVIOUS
  <2>1. CASE Next
    BY <2>1, TypeStep, TailStep, PositionStep, UsedStep, OnceStep, ShortStep,
       IntactStep DEF FrameInv
  <2>2. CASE UNCHANGED vars
    <3>1. TypeOK' /\ BufferIsTail' /\ Positions'
      BY <2>2 DEF vars, FrameInv, TypeOK, BufferIsTail, Fresh, Positions
    <3>2. UsedBefore' /\ ShortFrameParsed'
      BY <2>2 DEF vars, FrameInv, UsedBefore, ShortFrameParsed, Fresh, Meant, SentFrame
    <3>3. BytesUsedOnce' /\ ShortFrameIntact'
      BY <2>2 DEF vars, FrameInv, BytesUsedOnce, ShortFrameIntact, Meant, SentFrame
    <3> QED BY <3>1, <3>2, <3>3 DEF FrameInv
  <2> QED BY <2>1, <2>2
<1> QED BY <1>1, <1>2, PTL DEF Spec

\* Every reachable state of the receive chain is well typed; what length counts
\* is bounded although frames that stick together make it count a read twice.
THEOREM ReceiveTypeCorrect == Spec => []TypeOK
BY FrameInductive, PTL DEF FrameInv

\* A payload that is handed on has arrived and is contiguous in the stream.
THEOREM PayloadsHaveArrived == Spec => []PayloadArrived
<1>1. FrameInv => PayloadArrived
  <2> SUFFICES ASSUME FrameInv, phase = "framedata_ok"
               PROVE  /\ frame.data_pos_ + frame.payload_length_ <= frame.length
                      /\ frame.length <= BUFFER_SIZE
                      /\ \A i \in 0..frame.length - 1 :
                           data[i] = arrived - frame.length + 1 + i
    BY DEF PayloadArrived
  <2>1. Fresh
    BY DEF Fresh
  <2>2. /\ data_len <= frame.length /\ frame.length <= BUFFER_SIZE
        /\ \A i \in 0..frame.length - 1 : data[i] = arrived - frame.length + 1 + i
    BY <2>1 DEF FrameInv, BufferIsTail
  <2>3. frame.data_pos_ + frame.payload_length_ <= data_len
    BY DEF FrameInv, Positions
  <2>4. /\ frame.length \in Nat /\ data_len \in Nat
        /\ frame.data_pos_ \in Nat /\ frame.payload_length_ \in Nat
    BY ConstantTypes DEF FrameInv, TypeOK, FrameData
  <2> QED BY <2>2, <2>3, <2>4
<1> QED BY <1>1, FrameInductive, PTL

\* No byte of the stream is handed on in two frames.
THEOREM BytesAreUsedOnce == Spec => []BytesUsedOnce
BY FrameInductive, PTL DEF FrameInv

\* A frame with a short length is handed on as it was sent, if at all.
THEOREM ShortFramesIntact == Spec => []ShortFrameIntact
BY FrameInductive, PTL DEF FrameInv

--------------------------------------------------------------------------
(* Frames that come one by one *)

OnePerRead ==
  /\ reads.atBorders /\ reads.everyBorder
  /\ \A i \in 1..arrived : SentFrame(i).extended # 8

\* Frame number k was handed on as it was sent.
Intact(m, k) ==
  /\ Stream[m.head] = [frame |-> k, offset |-> 0]
  /\ m.key = m.head + m.data_pos_ - 4
  /\ m.data_pos_ = HeaderSize(Sent[k])
  /\ m.payload_length_ = Sent[k].payload

\* The frames up to number k have arrived, and nothing behind them.
Arrived(k) ==
  /\ Cardinality(FramesArrived) = k
  /\ arrived = 0 => k = 0
  /\ arrived # 0 => Stream[arrived].frame = k /\ LastByte(Stream[arrived])

\* The buffer holds frame number k, and it came in the last read.
HoldsFrame(k) ==
  /\ k \in 1..Len(Sent) /\ Sent[k].extended # 8
  /\ frame.length = HeaderSize(Sent[k]) + Sent[k].payload
  /\ data_len = frame.length
  /\ \A i \in 1..frame.length :
       Stream[arrived - frame.length + i] = [frame |-> k, offset |-> i - 1]

\* What has been parsed of it.
ParsedOf(k) ==
  /\ frame.state_ \in {"mask_and_payload_len_ok", "mask_key_ok", "payload_data_ok"} =>
       frame.mask_ = 1 /\ frame.payload_length_ = Sent[k].payload
  /\ frame.state_ = "mask_and_payload_len_ok" => frame.pos_ = HeaderSize(Sent[k]) - 4
  /\ frame.state_ \in {"mask_key_ok", "payload_data_ok"} =>
       /\ frame.data_pos_ = HeaderSize(Sent[k])
       /\ frame.masking_key_ = data[0] + frame.data_pos_ - 4

\* The frame before this one has been handed on when this one arrives, and the
\* parser needs no other read for it.
FrameByFrame ==
  OnePerRead /\ phase # "ended" =>
    /\ \A k \in 1..Len(dispatched) : Intact(dispatched[k], k)
    /\ phase = "reading" =>
         frame.length = 0 /\ frame.state_ = "ready" /\ Arrived(Len(dispatched))
    /\ phase # "reading" =>
         LET k == Len(dispatched) + 1 IN Arrived(k) /\ HoldsFrame(k) /\ ParsedOf(k)
    /\ \/ phase \in {"reading", "framedata_ok"}
       \/ phase = "parsing" /\ frame.state_ # "payload_data_ok"

--------------------------------------------------------------------------
LEMMA SentTypes ==
  ASSUME NEW k \in 1..Len(Sent)
  PROVE  /\ Sent[k].payload \in Nat /\ Sent[k].extended \in {0, 2, 8}
         /\ HeaderSize(Sent[k]) = 6 + Sent[k].extended
<1>1. Sent \in Seq(Frame)
  BY StreamAssumption
<1>2. Sent[k] \in Frame
  BY <1>1
<1> QED BY <1>2 DEF Frame, HeaderSize

\* A byte that is not the last of its frame, and the byte behind it.
LEMMA NextByte ==
  ASSUME NEW i \in 1..Len(Stream)
  PROVE  /\ Stream[i].frame \in 1..Len(Sent) /\ Stream[i].offset \in Nat
         /\ i < Len(Stream) /\ ~ LastByte(Stream[i]) =>
              Stream[i + 1] = [frame |-> Stream[i].frame, offset |-> Stream[i].offset + 1]
         /\ i < Len(Stream) /\ LastByte(Stream[i]) =>
              Stream[i + 1] = [frame |-> Stream[i].frame + 1, offset |-> 0]
         /\ i = 1 => Stream[i] = [frame |-> 1, offset |-> 0]
<1> DEFINE Byte == [frame: 1..Len(Sent), offset: Nat]
<1>1. \A b \in Byte :
        /\ b.frame \in 1..Len(Sent) /\ b.offset \in Nat
        /\ [b EXCEPT !.offset = @ + 1] = [frame |-> b.frame, offset |-> b.offset + 1]
  OBVIOUS
<1>2. Stream \in Seq(Byte)
  BY StreamAssumption
<1> HIDE DEF Byte
<1>3. Stream[i] \in Byte /\ Len(Stream) \in Nat
  BY <1>2
<1>4. ASSUME i < Len(Stream)
      PROVE  Stream[i + 1] =
               IF LastByte(Stream[i]) THEN [frame |-> Stream[i].frame + 1, offset |-> 0]
               ELSE [Stream[i] EXCEPT !.offset = @ + 1]
  <2>1. i + 1 \in 1..Len(Stream) /\ i + 1 # 1 /\ (i + 1) - 1 = i
    BY <1>3, <1>4
  <2> QED BY <2>1, StreamAssumption
<1>5. i = 1 => Stream[i] = [frame |-> 1, offset |-> 0]
  BY StreamAssumption
<1> QED BY <1>1, <1>3, <1>4, <1>5

\* What comes after the last byte of a frame, up to the next last byte, is the
\* next frame.
LEMMA FrameBytes ==
  ASSUME NEW a \in Nat, NEW n \in Nat, n > 0, a + n <= Len(Stream),
         NEW k \in Nat, a = 0 => k = 1,
         a # 0 => LastByte(Stream[a]) /\ k = Stream[a].frame + 1,
         \A i \in a + 1..a + n - 1 : ~ Border(i), Border(a + n)
  PROVE  /\ k \in 1..Len(Sent)
         /\ \A i \in 1..n : Stream[a + i] = [frame |-> k, offset |-> i - 1]
         /\ n = HeaderSize(Sent[k]) + Sent[k].payload
<1>0. Len(Stream) \in Nat
  BY ConstantTypes
<1> DEFINE P == {i \in 1..n : Stream[a + i] = [frame |-> k, offset |-> i - 1]}
<1>1. 1 \in P
  <2>1. CASE a = 0
    <3>1. 1 \in 1..Len(Stream) /\ a + 1 = 1 /\ k = 1 /\ 1 - 1 = 0
      BY <1>0, <2>1
    <3>2. Stream[1] = [frame |-> 1, offset |-> 0]
      BY <3>1, NextByte
    <3> QED BY <3>1, <3>2
  <2>2. CASE a # 0
    <3>1. a \in 1..Len(Stream) /\ a < Len(Stream)
      BY <1>0, <2>2
    <3>2. Stream[a + 1] = [frame |-> k, offset |-> 0]
      BY <2>2, <3>1, NextByte
    <3> QED BY <3>2
  <2> QED BY <2>1, <2>2
<1>2. ASSUME NEW i \in 1..n, i \in P, i < n
      PROVE  i + 1 \in P
  <2>1. a + i \in 1..Len(Stream) /\ a + i < Len(Stream) /\ a + i \in a + 1..a + n - 1
    BY <1>0, <1>2
  <2>2. ~ LastByte(Stream[a + i])
    BY <2>1 DEF Border
  <2>3. Stream[a + i].frame = k /\ Stream[a + i].offset = i - 1
    BY <1>2
  <2>4. Stream[(a + i) + 1] = [frame |-> k, offset |-> (i - 1) + 1]
    BY <2>1, <2>2, <2>3, NextByte
  <2>5. (a + i) + 1 = a + (i + 1) /\ (i - 1) + 1 = (i + 1) - 1
    OBVIOUS
  <2> QED BY <1>2, <2>4, <2>5
<1>3. 1..n \subseteq P
  <2> HIDE DEF P
  <2> QED BY <1>1, <1>2, IntervalInduction
<1>4. \A i \in 1..n : Stream[a + i] = [frame |-> k, offset |-> i - 1]
  BY <1>3
<1>5. k \in 1..Len(Sent)
  <2>1. a + 1 \in 1..Len(Stream) /\ Stream[a + 1].frame = k
    BY <1>0, <1>1
  <2> QED BY <2>1, NextByte
<1>6. n = HeaderSize(Sent[k]) + Sent[k].payload
  <2>1. n \in P
    <3> HIDE DEF P
    <3> QED BY <1>3
  <2>2. Stream[a + n].frame = k /\ Stream[a + n].offset = n - 1
    BY <2>1
  <2> QED BY <1>5, <2>2, SentTypes DEF Border, LastByte
<1> QED BY <1>4, <1>5, <1>6

\* Reads that are not of one frame each cannot be mended.
LEMMA OnePerReadBefore ==
  ASSUME TypeOK, BufferIsTail, Positions, Next, OnePerRead'
  PROVE  OnePerRead
<1>1. ASSUME NEW n \in 0..BUFFER_SIZE, Read(n) PROVE OnePerRead
  <2>1. arrived' = arrived + n /\ arrived \in Nat /\ n \in Nat
    BY <1>1, ConstantTypes DEF Read, TypeOK
  <2>2. reads.atBorders /\ reads.everyBorder
    BY <1>1 DEF Read, OnePerRead
  <2>3. 1..arrived \subseteq 1..arrived'
    BY <2>1
  <2>4. \A i \in 1..arrived' : SentFrame(i).extended # 8
    BY DEF OnePerRead, SentFrame
  <2> QED BY <2>2, <2>3, <2>4 DEF OnePerRead
<1>2. CASE ~ \E n \in 0..BUFFER_SIZE : Read(n)
  <2>1. UNCHANGED <<arrived, reads>>
    BY <1>2, ParserStep
    DEF Next, ReadFailed, FrameOk, FrameTooLong, FrameIncomplete, FrameError
  <2> QED BY <2>1 DEF OnePerRead, SentFrame
<1> QED BY <1>1, <1>2

LEMMA ReadsFrame ==
  ASSUME TypeOK, BufferIsTail, Positions, FrameByFrame, OnePerRead',
         OnePerRead, NEW n \in 0..BUFFER_SIZE, Read(n)
  PROVE  FrameByFrame'
<1> DEFINE k == Len(dispatched) + 1
<1>0. /\ phase = "reading" /\ frame.length = 0 /\ frame.state_ = "ready"
      /\ Arrived(Len(dispatched))
      /\ \A j \in 1..Len(dispatched) : Intact(dispatched[j], j)
      /\ arrived \in Nat /\ Len(Stream) \in Nat /\ Len(dispatched) \in Nat
  BY ConstantTypes DEF Read, FrameByFrame, TypeOK
<1>1. /\ n \in Nat /\ n > 0 /\ arrived + n <= Len(Stream)
      /\ arrived' = arrived + n /\ data_len' = n /\ phase' = "parsing"
      /\ dispatched' = dispatched
      /\ frame'.length = n /\ frame'.state_ = "ready"
  <2>1. frame' = [frame EXCEPT !.length = frame.length + n] /\ frame \in FrameData
    BY DEF Read, TypeOK
  <2>2. frame'.length = 0 + n /\ frame'.state_ = "ready"
    BY <1>0, <2>1 DEF FrameData
  <2>3. n > 0
    BY <1>0, ConstantTypes DEF Read
  <2> QED BY <2>2, <2>3, ConstantTypes DEF Read
<1>2. Border(arrived + n) /\ \A i \in arrived + 1..arrived + n - 1 : ~ Border(i)
  BY DEF Read, OnePerRead
<1>3. /\ arrived = 0 => k = 1
      /\ arrived # 0 => LastByte(Stream[arrived]) /\ k = Stream[arrived].frame + 1
  BY <1>0 DEF Arrived
<1>4. /\ k \in 1..Len(Sent) /\ n = HeaderSize(Sent[k]) + Sent[k].payload
      /\ \A i \in 1..n : Stream[arrived + i] = [frame |-> k, offset |-> i - 1]
  <2>1. /\ arrived \in Nat /\ n \in Nat /\ n > 0 /\ arrived + n <= Len(Stream)
        /\ k \in Nat
    BY <1>0, <1>1
  <2> HIDE DEF k
  <2> QED BY ONLY <1>2, <1>3, <2>1, FrameBytes, ZenonT(40)
<1>5. Stream[arrived + n] = [frame |-> k, offset |-> n - 1] /\ n \in 1..n
  <2> HIDE DEF k
  <2>1. n \in 1..n
    BY <1>1
  <2> QED BY <1>4, <2>1
<1>6. Sent[k].extended # 8
  <2>1. arrived + n \in 1..arrived' /\ Stream[arrived + n].frame = k
    BY <1>0, <1>1, <1>5
  <2>2. SentFrame(arrived + n).extended # 8
    BY <2>1 DEF OnePerRead, SentFrame
  <2> QED BY <2>1, <2>2 DEF SentFrame
<1>7. HoldsFrame(k)'
  <2>1. \A i \in 1..n : arrived' - n + i = arrived + i
    BY <1>0, <1>1
  <2>2. \A i \in 1..n : Stream[arrived' - n + i] = [frame |-> k, offset |-> i - 1]
    BY <1>4, <2>1
  <2>3. k' = k
    BY <1>1
  <2> HIDE DEF k
  <2> QED BY <1>1, <1>4, <1>6, <2>2, <2>3 DEF HoldsFrame
<1>8. Arrived(k)'
  <2>1. FramesArrived' = FramesArrived \cup {arrived + n}
    <3>1. FramesArrived' = {i \in 1..arrived + n : Border(i)}
      BY <1>1 DEF FramesArrived, Border
    <3>2. \A i \in 1..arrived + n :
            i \in 1..arrived \/ i \in arrived + 1..arrived + n - 1 \/ i = arrived + n
      BY <1>0, <1>1
    <3>3. 1..arrived \subseteq 1..arrived + n /\ arrived + n \in 1..arrived + n
      BY <1>0, <1>1
    <3> QED BY <1>2, <3>1, <3>2, <3>3 DEF FramesArrived
  <2>2. IsFiniteSet(FramesArrived) /\ arrived + n \notin FramesArrived
    <3>1. IsFiniteSet(1..arrived) /\ FramesArrived \subseteq 1..arrived
      <4>1. 1 \in Int /\ arrived \in Int
        BY <1>0
      <4> QED BY <4>1, FS_Interval DEF FramesArrived
    <3>2. arrived + n \notin 1..arrived
      BY <1>0, <1>1
    <3> QED BY <3>1, <3>2, FS_Subset
  <2>3. Cardinality(FramesArrived') = Len(dispatched) + 1
    BY <1>0, <2>1, <2>2, FS_AddElement DEF Arrived
  <2>4. arrived' # 0 /\ arrived' = arrived + n
    BY <1>0, <1>1
  <2>5. Stream[arrived'].frame = k /\ LastByte(Stream[arrived'])
    BY <1>2, <1>5, <2>4 DEF Border
  <2> QED BY <1>1, <2>3, <2>4, <2>5 DEF Arrived
<1>9. ParsedOf(k)'
  BY <1>1 DEF ParsedOf
<1>10. \A j \in 1..Len(dispatched') : Intact(dispatched'[j], j)
  BY <1>0, <1>1 DEF Intact
<1> QED
  BY <1>1, <1>7, <1>8, <1>9, <1>10 DEF FrameByFrame

\* The length of a frame that is in the buffer is read as it was sent.
LEMMA FetchesLength ==
  ASSUME TypeOK, BufferIsTail, Positions, NEW k, HoldsFrame(k), Fresh, FetchLength
  PROVE  frame' = [frame EXCEPT !.mask_ = 1, !.payload_length_ = Sent[k].payload,
                                !.pos_ = 2 + Sent[k].extended,
                                !.state_ = "mask_and_payload_len_ok"]
<1>1. frame.pos_ = 1
  BY FetchedLength
<1>2. /\ k \in 1..Len(Sent) /\ Sent[k].payload \in Nat /\ Sent[k].extended \in {0, 2}
      /\ frame.length = 6 + Sent[k].extended + Sent[k].payload
      /\ arrived \in Nat /\ frame.length <= arrived
  BY SentTypes, ConstantTypes DEF HoldsFrame, BufferIsTail, TypeOK
<1>3. ASSUME NEW i \in 0..frame.length - 1
      PROVE  /\ data[i] = arrived - frame.length + 1 + i
             /\ \A o : Meant(data[i], o) <=> o = i
             /\ SentFrame(data[i]) = Sent[k]
  <2>1. data[i] = arrived - frame.length + 1 + i
    BY DEF BufferIsTail
  <2>2. /\ i + 1 \in 1..frame.length /\ (i + 1) - 1 = i
        /\ arrived - frame.length + 1 + i = arrived - frame.length + (i + 1)
        /\ arrived - frame.length + 1 + i # 0
    <3>1. frame.length \in Nat
      BY <1>2
    <3>2. i \in Nat /\ i < frame.length
      BY <3>1
    <3>3. arrived \in Nat /\ frame.length <= arrived
      BY <1>2
    <3> QED BY ONLY <3>1, <3>2, <3>3
  <2>3. Stream[arrived - frame.length + (i + 1)] = [frame |-> k, offset |-> (i + 1) - 1]
    BY <2>2 DEF HoldsFrame
  <2>4. Stream[data[i]] = [frame |-> k, offset |-> i]
    BY <2>1, <2>2, <2>3
  <2> QED BY <2>1, <2>2, <2>4 DEF Meant, SentFrame
<1>4. /\ 1 \in 0..frame.length - 1 /\ 2 \in 0..frame.length - 1
      /\ 3 \in 0..frame.length - 1
  BY <1>2, SMTT(30)
<1>5. Meant(data[1], 1) /\ SentFrame(data[1]) = Sent[k]
  BY <1>3, <1>4
<1>6. ShortLength(data[1]) = {Sent[k].payload}
  BY <1>5 DEF ShortLength
<1>7. PICK form \in LengthForm(data[1]) :
        \E n \in IF form.width = 0 THEN ShortLength(data[1])
                 ELSE LongLength(2, form.width) :
          frame' = [frame EXCEPT !.mask_ = form.mask, !.payload_length_ = n,
                                 !.pos_ = @ + 1 + form.width,
                                 !.state_ = "mask_and_payload_len_ok"]
  <2>1. frame.pos_ = 1 /\ frame.pos_ + 1 = 2
    BY <1>1
  <2>2. \E form \in LengthForm(data[frame.pos_]) :
          \E n \in IF form.width = 0 THEN ShortLength(data[frame.pos_])
                   ELSE LongLength(frame.pos_ + 1, form.width) :
            frame' = [frame EXCEPT !.mask_ = form.mask, !.payload_length_ = n,
                                   !.pos_ = @ + 1 + form.width,
                                   !.state_ = "mask_and_payload_len_ok"]
    BY DEF FetchLength
  <2> QED BY <2>1, <2>2
<1>8. form.mask = 1 /\ form.width = Sent[k].extended
  <2>1. form \in {[mask |-> 1, width |-> CASE Sent[k].extended = 0 -> 0
                                           [] Sent[k].extended = 2 -> 2
                                           [] Sent[k].extended = 8 -> 4]}
    BY <1>5, <1>7 DEF LengthForm
  <2>2. CASE Sent[k].extended = 0
    BY <2>1, <2>2
  <2>3. CASE Sent[k].extended = 2
    BY <2>1, <2>3
  <2> QED BY <1>2, <2>2, <2>3
<1>9. ASSUME Sent[k].extended = 2
      PROVE  LongLength(2, 2) = {Sent[k].payload}
  <2>1. /\ Meant(data[2], 2) /\ SentFrame(data[2]) = Sent[k]
        /\ data[3] = data[2] + 1
    <3>1. data[3] = arrived - frame.length + 1 + 3 /\ data[2] = arrived - frame.length + 1 + 2
      BY <1>3, <1>4
    <3>2. frame.length \in Nat
      BY <1>2
    <3>3. data[3] = data[2] + 1
      BY <1>2, <3>1, <3>2
    <3> QED BY <1>3, <1>4, <3>3
  <2>2. \A i \in 1..2 - 1 : i = 1 /\ 2 + i = 3
    OBVIOUS
  <2>3. \A i \in 1..2 - 1 : data[2 + i] = data[2] + i
    BY <2>1, <2>2
  <2> QED BY <1>9, <2>1, <2>3 DEF LongLength
<1>10. frame' = [frame EXCEPT !.mask_ = 1, !.payload_length_ = Sent[k].payload,
                              !.pos_ = @ + 1 + Sent[k].extended,
                              !.state_ = "mask_and_payload_len_ok"]
  <2>1. CASE Sent[k].extended = 0
    <3>1. form.width = 0
      BY <1>8, <2>1
    <3> QED BY <1>6, <1>7, <1>8, <3>1
  <2>2. CASE Sent[k].extended = 2
    <3>1. form.width = 2
      BY <1>8, <2>2
    <3>2. LongLength(2, form.width) = {Sent[k].payload}
      BY <1>9, <2>2, <3>1
    <3>3. PICK n \in {Sent[k].payload} :
            frame' = [frame EXCEPT !.mask_ = form.mask, !.payload_length_ = n,
                                   !.pos_ = @ + 1 + form.width,
                                   !.state_ = "mask_and_payload_len_ok"]
      <4>1. IF form.width = 0 THEN FALSE ELSE TRUE
        BY <3>1
      <4> QED BY <1>7, <3>1, <3>2, <4>1, Zenon
    <3> QED BY <1>8, <3>3
  <2> QED BY <1>2, <2>1, <2>2
<1> QED BY <1>1, <1>2, <1>10

\* A step of the parser with a frame in the buffer.
LEMMA ParsesFrame ==
  ASSUME TypeOK, BufferIsTail, Positions, FrameByFrame, OnePerRead',
         OnePerRead,
         FetchFin \/ FetchLength \/ FetchMaskingKey \/ FetchPayload
         \/ Indeterminate \/ ParseError
  PROVE  FrameByFrame'
<1> DEFINE k == Len(dispatched) + 1
<1>1. /\ UNCHANGED <<data, data_len, arrived, dispatched, reads>>
      /\ frame'.length = frame.length /\ phase = "parsing"
  BY ParserStep
<1>2. /\ frame.state_ # "payload_data_ok" /\ frame \in FrameData
      /\ \A j \in 1..Len(dispatched) : Intact(dispatched[j], j)
      /\ Arrived(k) /\ HoldsFrame(k) /\ ParsedOf(k)
  BY <1>1 DEF FrameByFrame, TypeOK
<1>3. /\ k \in 1..Len(Sent) /\ Sent[k].payload \in Nat /\ Sent[k].extended \in {0, 2}
      /\ HeaderSize(Sent[k]) = 6 + Sent[k].extended
      /\ frame.length = 6 + Sent[k].extended + Sent[k].payload
      /\ data_len = frame.length
  BY <1>2, SentTypes DEF HoldsFrame
<1>4. Fresh
  BY <1>1, <1>2 DEF Fresh
<1> HIDE DEF k
<1>5. SUFFICES /\ phase' \in {"parsing", "framedata_ok"} /\ ParsedOf(k)'
               /\ phase' = "parsing" => frame'.state_ # "payload_data_ok"
  <2>1. /\ \A j \in 1..Len(dispatched') : Intact(dispatched'[j], j)
        /\ Arrived(k)'
    BY <1>1, <1>2 DEF Arrived, FramesArrived, Border, k
  <2>2. HoldsFrame(k)'
    BY <1>1, <1>2 DEF HoldsFrame, k
  <2>3. k' = Len(dispatched') + 1
    BY DEF k
  <2>4. k' = k
    BY <1>1 DEF k
  <2> QED BY <1>5, <2>1, <2>2, <2>3, <2>4, <1>1 DEF FrameByFrame
<1>6. k' = k
  BY <1>1 DEF k
<1>13. data[0] \in Nat /\ arrived \in Nat
  BY ConstantTypes DEF TypeOK
<1>7. CASE FetchFin
  <2>1. phase' = "parsing" /\ frame'.state_ = "fin_and_rsv_ok"
    BY <1>2, <1>7 DEF FetchFin, Parse, FrameData
  <2> QED BY <2>1 DEF ParsedOf
<1>8. CASE FetchLength
  <2>1. frame' = [frame EXCEPT !.mask_ = 1, !.payload_length_ = Sent[k].payload,
                               !.pos_ = 2 + Sent[k].extended,
                               !.state_ = "mask_and_payload_len_ok"]
    BY <1>2, <1>4, <1>8, FetchesLength
  <2>2. /\ frame'.state_ = "mask_and_payload_len_ok" /\ frame'.mask_ = 1
        /\ frame'.payload_length_ = Sent[k].payload
        /\ frame'.pos_ = 2 + Sent[k].extended
    BY <1>2, <2>1 DEF FrameData
  <2>3. phase' = "parsing"
    BY <1>8 DEF FetchLength, Parse
  <2>4. frame'.pos_ = HeaderSize(Sent[k]) - 4
    BY <1>3, <2>2
  <2> QED BY <1>6, <2>2, <2>3, <2>4 DEF ParsedOf
<1>9. CASE FetchMaskingKey
  <2>1. /\ frame.state_ = "mask_and_payload_len_ok" /\ frame.mask_ = 1
        /\ frame.payload_length_ = Sent[k].payload
        /\ frame.pos_ = 2 + Sent[k].extended
    BY <1>2, <1>3, <1>9 DEF FetchMaskingKey, Parse, ParsedOf
  <2>2. /\ frame'.state_ = "mask_key_ok" /\ frame'.mask_ = 1
        /\ frame'.payload_length_ = Sent[k].payload
        /\ frame'.data_pos_ = frame.pos_ + 4
        /\ frame'.masking_key_ = data[frame.pos_]
    BY <1>2, <1>9, <2>1 DEF FetchMaskingKey, FrameData
  <2>3. frame'.data_pos_ = HeaderSize(Sent[k])
    BY <1>3, <2>1, <2>2
  <2>4. data[frame.pos_] = data[0] + frame.pos_
    <3>1. frame.pos_ \in 0..frame.length - 1 /\ 0 \in 0..frame.length - 1
      BY <1>3, <2>1
    <3>2. /\ data[frame.pos_] = arrived - frame.length + 1 + frame.pos_
          /\ data[0] = arrived - frame.length + 1 + 0
      BY <1>4, <3>1 DEF BufferIsTail
    <3>3. arrived \in Nat /\ frame.length \in Nat /\ frame.pos_ \in Nat
      BY <1>3, <1>13, <2>1
    <3> QED BY <3>2, <3>3
  <2>5. frame'.masking_key_ = data[0] + frame'.data_pos_ - 4
    <3>1. data[0] \in Nat /\ frame.pos_ \in Nat
      BY <1>3, <1>13, <2>1
    <3> QED BY <2>2, <2>4, <3>1
  <2>6. phase' = "parsing" /\ data' = data
    BY <1>1, <1>9 DEF FetchMaskingKey
  <2> QED BY <1>6, <2>2, <2>3, <2>5, <2>6 DEF ParsedOf
<1>10. CASE FetchPayload
  <2>1. /\ frame.state_ = "mask_key_ok"
        /\ frame.mask_ = 1 /\ frame.payload_length_ = Sent[k].payload
        /\ frame.data_pos_ = HeaderSize(Sent[k])
        /\ frame.masking_key_ = data[0] + frame.data_pos_ - 4
    BY <1>2, <1>10 DEF FetchPayload, Parse, ParsedOf
  <2>2. /\ frame'.state_ = "payload_data_ok" /\ frame'.mask_ = frame.mask_
        /\ frame'.payload_length_ = frame.payload_length_
        /\ frame'.data_pos_ = frame.data_pos_
        /\ frame'.masking_key_ = frame.masking_key_
    BY <1>2, <1>10 DEF FetchPayload, FrameData
  <2>3. phase' = "framedata_ok" /\ data' = data
    BY <1>1, <1>10 DEF FetchPayload
  <2> QED BY <1>6, <2>1, <2>2, <2>3 DEF ParsedOf
<1>11. ~ Indeterminate
  <2>1. ~ (Parse("fin_and_rsv_ok") /\ frame.pos_ >= data_len)
    BY <1>3 DEF Parse, Positions
  <2>2. ~ (Parse("mask_and_payload_len_ok") /\ frame.mask_ = 1 /\ frame.pos_ + 4 > data_len)
    BY <1>2, <1>3 DEF Parse, ParsedOf
  <2>3. ~ (Parse("mask_key_ok") /\ frame.pos_ + frame.payload_length_ > data_len)
    BY <1>2, <1>3 DEF Parse, ParsedOf, Positions
  <2> QED BY <2>1, <2>2, <2>3 DEF Indeterminate
<1>12. ~ ParseError
  BY <1>2 DEF ParseError, Parse, ParsedOf
<1> QED BY <1>7, <1>8, <1>9, <1>10, <1>11, <1>12

\* A frame is handed on, and the buffer is empty again.
LEMMA HandsOnFrame ==
  ASSUME TypeOK, BufferIsTail, Positions, UsedBefore, FrameByFrame, OnePerRead',
         OnePerRead, FrameOk
  PROVE  FrameByFrame'
<1> DEFINE k == Len(dispatched) + 1
<1>1. /\ phase = "framedata_ok" /\ UNCHANGED <<arrived, data, data_len, reads>>
      /\ Len(dispatched) \in Nat /\ dispatched \in Seq(Message)
      /\ Received \in Message /\ dispatched' = Append(dispatched, Received)
  BY HandedOn DEF FrameOk, TypeOK
<1>2. /\ \A j \in 1..Len(dispatched) : Intact(dispatched[j], j)
      /\ Arrived(k) /\ HoldsFrame(k) /\ ParsedOf(k)
      /\ frame.state_ = "payload_data_ok" /\ Fresh
  BY <1>1 DEF FrameByFrame, Positions, Fresh
<1>3. /\ k \in 1..Len(Sent) /\ Sent[k].payload \in Nat /\ Sent[k].extended \in {0, 2}
      /\ HeaderSize(Sent[k]) = 6 + Sent[k].extended
      /\ frame.length = 6 + Sent[k].extended + Sent[k].payload
  BY <1>2, SentTypes DEF HoldsFrame
<1>4. frame.pos_ = frame.length
  BY <1>1, <1>2, <1>3 DEF ParsedOf, Positions
<1>5. SUFFICES ASSUME phase' # "ended"
               PROVE  FrameByFrame'
  BY DEF FrameByFrame
<1>6. phase' = "reading" /\ frame' = Reset
  <2>1. frame.length \in Nat
    BY <1>3
  <2> QED BY <1>4, <1>5, <2>1 DEF FrameOk
<1>7. frame'.length = 0 /\ frame'.state_ = "ready"
  BY <1>6 DEF Reset
<1>8. Len(dispatched') = k
  BY <1>1
<1>9. Arrived(Len(dispatched))'
  <2>1. FramesArrived' = FramesArrived /\ arrived' = arrived
    BY <1>1 DEF FramesArrived, Border
  <2> QED BY <1>2, <1>8, <2>1 DEF Arrived
<1>10. Intact(Received, k)
  <2>1. /\ data[0] = arrived - frame.length + 1 + 0
        /\ arrived \in Nat /\ frame.length \in Nat /\ 1 \in 1..frame.length
    <3>1. arrived \in Nat
      BY ConstantTypes DEF TypeOK
    <3>2. frame.length \in Nat /\ 0 \in 0..frame.length - 1 /\ 1 \in 1..frame.length
      BY <1>3
    <3> QED BY <1>2, <3>1, <3>2 DEF BufferIsTail
  <2>2. Stream[arrived - frame.length + 1] = [frame |-> k, offset |-> 1 - 1]
    <3> HIDE DEF k
    <3> QED BY <1>2, <2>1 DEF HoldsFrame
  <2>3. data[0] = arrived - frame.length + 1 /\ 1 - 1 = 0
    BY <2>1
  <2>4. Stream[data[0]] = [frame |-> k, offset |-> 0]
    BY <2>2, <2>3
  <2>5. /\ frame.data_pos_ = HeaderSize(Sent[k])
        /\ frame.masking_key_ = data[0] + frame.data_pos_ - 4
        /\ frame.payload_length_ = Sent[k].payload
    BY <1>2 DEF ParsedOf
  <2> HIDE DEF k
  <2> QED BY <2>4, <2>5 DEF Intact, Received
<1>11. ASSUME NEW j \in 1..Len(dispatched')
       PROVE  Intact(dispatched'[j], j)
  <2>1. CASE j = k
    <3>1. dispatched'[j] = Received
      BY <1>1, <2>1
    <3> QED BY <1>10, <2>1, <3>1
  <2>2. CASE j \in 1..Len(dispatched)
    <3>1. dispatched'[j] = dispatched[j]
      BY <1>1, <2>2
    <3> QED BY <1>2, <2>2, <3>1
  <2> QED BY <1>1, <1>8, <1>11, <2>1, <2>2
<1> QED BY <1>6, <1>7, <1>9, <1>11 DEF FrameByFrame

LEMMA FrameByFrameStep ==
  ASSUME FrameInv, FrameByFrame, Next
  PROVE  FrameByFrame'
<1>1. TypeOK /\ BufferIsTail /\ Positions /\ UsedBefore
  BY DEF FrameInv
<1>2. SUFFICES ASSUME OnePerRead', phase' # "ended"
               PROVE  FrameByFrame'
  BY DEF FrameByFrame
<1>3. OnePerRead
  BY <1>1, <1>2, OnePerReadBefore
<1>4. phase \in {"reading", "parsing", "framedata_ok"} \/ phase = "ended"
  BY <1>3 DEF FrameByFrame
<1>5. CASE ReadFailed \/ FrameTooLong \/ FrameIncomplete \/ FrameError
  BY <1>2, <1>4, <1>5 DEF ReadFailed, FrameTooLong, FrameIncomplete, FrameError
<1> QED
  BY <1>1, <1>2, <1>3, <1>5, ReadsFrame, ParsesFrame, HandsOnFrame DEF Next

\* As long as every read brings one frame, the chain goes frame by frame.
THEOREM FramesOneByOne == Spec => []FrameByFrame
<1>1. Init => FrameByFrame
  <2> SUFFICES ASSUME Init PROVE FrameByFrame
    OBVIOUS
  <2>1. /\ phase = "reading" /\ arrived = 0 /\ dispatched = <<>>
        /\ frame.length = 0 /\ frame.state_ = "ready"
    BY DEF Init
  <2>2. FramesArrived = {}
    BY <2>1 DEF FramesArrived
  <2>3. Cardinality({}) = 0 /\ Len(dispatched) = 0
    BY <2>1, FS_EmptySet
  <2>4. Arrived(Len(dispatched))
    BY <2>1, <2>2, <2>3 DEF Arrived
  <2> QED BY <2>1, <2>4 DEF FrameByFrame
<1>2. FrameInv /\ FrameByFrame /\ [Next]_vars => FrameByFrame'
  <2> SUFFICES ASSUME FrameInv, FrameByFrame, [Next]_vars PROVE FrameByFrame'
    OBVIOUS
  <2>1. CASE UNCHANGED vars
    BY <2>1 DEF vars, FrameByFrame, OnePerRead, SentFrame, Arrived, FramesArrived,
                Border, HoldsFrame, ParsedOf
  <2> QED BY <2>1, FrameByFrameStep
<1> QED BY <1>1, <1>2, FrameInductive, PTL DEF Spec

\* If every read brings one frame, and none with a length of 8 bytes, every frame
\* is handed on, in order and intact: for any number of frames of any length that
\* fits in the buffer.
THEOREM OneFramePerRead == Spec => []FramePerRead
<1>1. FrameByFrame => FramePerRead
  <2> SUFFICES ASSUME FrameByFrame, OnePerRead, phase = "reading"
               PROVE  /\ Len(dispatched) = Cardinality(FramesArrived)
                      /\ \A k \in 1..Len(dispatched) : Intact(dispatched[k], k)
    BY DEF FramePerRead, OnePerRead, Intact
  <2> QED BY DEF FrameByFrame, Arrived
<1> QED BY <1>1, FramesOneByOne, PTL

--------------------------------------------------------------------------
(* Lines *)

\* The words that have been found: those that begin before the current one,
\* and all of them when the loop is done.
Found == {i \in 1..str_length :
            WordBegins(i) /\ (i < cmd_segment_pos \/ curr_index > str_length)}

\* The loop of init.
LoopInv ==
  init_phase = "init" =>
    /\ cmd_segment_pos <= curr_index
    /\ \A i \in cmd_segment_pos..curr_index - 1 : line[i] # Blank
    /\ curr_index <= str_length =>
         cmd_segment_pos = 1 \/ line[cmd_segment_pos - 1] = Blank
    /\ \A i \in 1..str_length :
         command_data[i] = IF line[i] = Blank /\ i < curr_index THEN Zero ELSE line[i]
    /\ {Words[k] : k \in 1..Len(Words)} = Found
    /\ \A j, k \in 1..Len(Words) : j < k => Words[j] < Words[k]

NameFirst == name_ = NULL => params_ = <<>>

CommandInv == CommandTypeOK /\ NameFirst /\ LoopInv /\ WordsFound /\ WordsTerminated

--------------------------------------------------------------------------
LEMMA LineTypes ==
  ASSUME CommandTypeOK
  PROVE  /\ str_length \in Nat
         /\ \A i \in 1..str_length : line[i] \in {Blank, "c"}
         /\ DOMAIN command_data = 1..str_length
         /\ \A i \in 1..str_length : command_data[i] \in {Blank, Zero, "c"}
BY DEF CommandTypeOK, str_length

\* A word is added behind those that were found.
LEMMA AddedWord ==
  ASSUME CommandTypeOK, NameFirst, AddWord, cmd_segment_pos \in 1..str_length
  PROVE  /\ name_' \in 1..str_length \cup {NULL} /\ params_' \in Seq(1..str_length)
         /\ name_' # NULL
         /\ Words' = Append(Words, cmd_segment_pos)
<1>1. /\ params_ \in Seq(1..str_length) /\ name_ \in 1..str_length \cup {NULL}
      /\ str_length \in Nat /\ NULL \notin Nat
  BY LineTypes, CommandAssumption DEF CommandTypeOK
<1>2. CASE name_ = NULL
  <2>1. params_ = <<>> /\ params_' = <<>> /\ name_' = cmd_segment_pos
    BY <1>2 DEF NameFirst, AddWord
  <2>2. name_' # NULL
    BY <1>1, <2>1
  <2>3. Words = <<>>
    BY <1>2, <2>1 DEF Words
  <2>4. Words' = <<cmd_segment_pos>>
    BY <2>1, <2>2 DEF Words
  <2> QED BY <1>1, <2>1, <2>2, <2>3, <2>4
<1>3. CASE name_ # NULL
  <2>1. params_' = Append(params_, cmd_segment_pos) /\ name_' = name_
    BY <1>3 DEF AddWord
  <2>2. Words = <<name_>> \o params_ /\ Words' = <<name_>> \o params_'
    BY <1>3, <2>1 DEF Words
  <2>3. PICK p \in Seq(1..str_length) : p = params_
    BY <1>1
  <2>4. PICK n \in 1..str_length : n = name_
    BY <1>1, <1>3
  <2>5. /\ Append(p, cmd_segment_pos) \in Seq(1..str_length)
        /\ <<n>> \o Append(p, cmd_segment_pos) = Append(<<n>> \o p, cmd_segment_pos)
    BY ONLY <2>3, <2>4, cmd_segment_pos \in 1..str_length
  <2> QED BY <1>1, <1>3, <2>1, <2>2, <2>3, <2>4, <2>5, Zenon
<1> QED BY <1>2, <1>3

LEMMA WordTypes ==
  ASSUME CommandTypeOK
  PROVE  Words \in Seq(1..str_length)
<1>1. CASE name_ = NULL
  BY <1>1 DEF Words, CommandTypeOK
<1>2. CASE name_ # NULL
  BY <1>2 DEF Words, CommandTypeOK
<1> QED BY <1>1, <1>2

\* Ascending words of which all are before p, and p.
LEMMA OneMoreWord ==
  ASSUME NEW w \in Seq(Nat), NEW p \in Nat, NEW S, NEW v, v = Append(w, p),
         {w[k] : k \in 1..Len(w)} = S,
         \A j, k \in 1..Len(w) : j < k => w[j] < w[k],
         \A i \in S : i < p
  PROVE  /\ {v[k] : k \in 1..Len(v)} = S \cup {p}
         /\ \A j, k \in 1..Len(v) : j < k => v[j] < v[k]
<1>1. /\ Len(w) \in Nat /\ Len(v) = Len(w) + 1 /\ v[Len(v)] = p
      /\ \A k \in 1..Len(w) : v[k] = w[k] /\ w[k] \in Nat
  OBVIOUS
<1>2. \A k \in 1..Len(v) : v[k] \in S \cup {p}
  BY <1>1
<1>3. \A i \in S : \E k \in 1..Len(v) : v[k] = i
  <2>1. \A i \in S : \E k \in 1..Len(w) : w[k] = i
    OBVIOUS
  <2> QED BY <1>1, <2>1
<1>4. {v[k] : k \in 1..Len(v)} = S \cup {p}
  BY <1>1, <1>2, <1>3
<1>5. \A k \in 1..Len(w) : w[k] < p
  OBVIOUS
<1>6. \A j, k \in 1..Len(v) : j < k => v[j] < v[k]
  <2> SUFFICES ASSUME NEW j \in 1..Len(v), NEW k \in 1..Len(v), j < k
               PROVE  v[j] < v[k]
    OBVIOUS
  <2>1. j \in 1..Len(w) /\ v[j] = w[j]
    BY <1>1
  <2>2. CASE k \in 1..Len(w)
    BY <1>1, <2>1, <2>2
  <2>3. CASE k = Len(v)
    BY <1>1, <1>5, <2>1, <2>3
  <2> QED BY <1>1, <2>2, <2>3
<1> QED BY <1>4, <1>6

--------------------------------------------------------------------------
LEMMA CommandTypeStep ==
  ASSUME CommandInv, CommandNext
  PROVE  CommandTypeOK' /\ NameFirst'
<1>0. CommandTypeOK /\ NameFirst /\ str_length \in Nat /\ NULL \notin Nat
  BY LineTypes, CommandAssumption DEF CommandInv
<1>1. ASSUME NEW l \in Line, CommandReset(l) PROVE CommandTypeOK' /\ NameFirst'
  <2>1. l \in Seq({Blank, "c"}) /\ l \in Seq({Blank, Zero, "c"}) /\ Len(l) \in Nat
    BY CommandAssumption
  <2>2. /\ line' = l /\ command_data' = l /\ curr_index' = 1 /\ cmd_segment_pos' = 1
        /\ name_' = NULL /\ params_' = <<>> /\ is_correct_' = FALSE
        /\ init_phase' \in {"idle", "init"}
    BY <1>1 DEF CommandReset
  <2>3. 1 \in 1..Len(l) + 1 /\ <<>> \in Seq(1..Len(l))
    BY <2>1
  <2> QED BY <2>1, <2>2, <2>3 DEF CommandTypeOK, NameFirst, str_length
<1>2. CASE SkipBlank
  <2>1. curr_index \in 1..str_length /\ curr_index = cmd_segment_pos
    BY <1>0, <1>2 DEF SkipBlank, Looping, CommandTypeOK
  <2>2. /\ command_data' \in Seq({Blank, Zero, "c"})
        /\ Len(command_data') = Len(command_data)
    BY <1>0, <1>2, <2>1 DEF SkipBlank, CommandTypeOK
  <2> QED BY <1>0, <1>2, <2>1, <2>2 DEF SkipBlank, CommandTypeOK, NameFirst, str_length
<1>3. CASE EndWord
  <2>1. curr_index \in 1..str_length /\ cmd_segment_pos \in 1..str_length
    BY <1>0, <1>3 DEF EndWord, Looping, CommandTypeOK, CommandInv, LoopInv
  <2>2. /\ command_data' \in Seq({Blank, Zero, "c"})
        /\ Len(command_data') = Len(command_data)
    BY <1>0, <1>3, <2>1 DEF EndWord, CommandTypeOK
  <2>3. /\ name_' \in 1..str_length \cup {NULL} /\ params_' \in Seq(1..str_length)
        /\ name_' # NULL
    BY <1>0, <1>3, <2>1, AddedWord DEF EndWord
  <2> QED BY <1>0, <1>3, <2>1, <2>2, <2>3 DEF EndWord, CommandTypeOK, NameFirst, str_length
<1>4. CASE SkipChar
  BY <1>0, <1>4 DEF SkipChar, Looping, CommandTypeOK, NameFirst, str_length
<1>5. CASE LastWord
  <2>1. curr_index \in 1..str_length /\ cmd_segment_pos \in 1..str_length
    BY <1>0, <1>5 DEF LastWord, Looping, CommandTypeOK, CommandInv, LoopInv
  <2>2. /\ name_' \in 1..str_length \cup {NULL} /\ params_' \in Seq(1..str_length)
        /\ name_' # NULL
    BY <1>0, <1>5, <2>1, AddedWord DEF LastWord
  <2> QED BY <1>0, <1>5, <2>1, <2>2 DEF LastWord, CommandTypeOK, NameFirst, str_length
<1>6. CASE EndInit
  BY <1>0, <1>6 DEF EndInit, CommandTypeOK, NameFirst, str_length
<1> QED BY <1>1, <1>2, <1>3, <1>4, <1>5, <1>6 DEF CommandNext

\* The step that finds the word that begins at cmd_segment_pos and ends before
\* position e.
LEMMA WordStep ==
  ASSUME CommandInv, init_phase = "init", AddWord, NEW e \in 1..str_length + 1,
         curr_index \in 1..str_length,
         cmd_segment_pos < e,
         \A i \in cmd_segment_pos..e - 1 : line[i] # Blank,
         e <= str_length => line[e] = Blank,
         UNCHANGED line,
         IF e <= str_length THEN cmd_segment_pos' = e + 1 /\ curr_index' = e + 1
         ELSE curr_index' = e
  PROVE  /\ {Words'[k] : k \in 1..Len(Words')} = Found'
         /\ \A j, k \in 1..Len(Words') : j < k => Words'[j] < Words'[k]
<1>0. /\ CommandTypeOK /\ NameFirst /\ str_length \in Nat /\ Words \in Seq(1..str_length)
      /\ str_length' = str_length /\ Words \in Seq(Nat)
      /\ cmd_segment_pos \in 1..str_length
  BY LineTypes, WordTypes DEF CommandInv, CommandTypeOK, str_length
<1>1. Words' = Append(Words, cmd_segment_pos)
  BY <1>0, AddedWord
<1>2. /\ {Words[k] : k \in 1..Len(Words)} = Found
      /\ \A j, k \in 1..Len(Words) : j < k => Words[j] < Words[k]
      /\ cmd_segment_pos = 1 \/ line[cmd_segment_pos - 1] = Blank
  BY <1>0 DEF CommandInv, LoopInv
<1>3. \A i \in Found : i < cmd_segment_pos
  BY <1>0 DEF Found
<1>4. Found' = Found \cup {cmd_segment_pos}
  <2>1. Found' = {i \in 1..str_length :
                    WordBegins(i) /\ (i < cmd_segment_pos' \/ curr_index' > str_length)}
    BY <1>0 DEF Found, WordBegins
  <2>2. WordBegins(cmd_segment_pos)
    BY <1>0, <1>2 DEF WordBegins
  <2>3. ASSUME NEW i \in 1..str_length, WordBegins(i), i > cmd_segment_pos
        PROVE  i > e
    <3>1. i \notin cmd_segment_pos + 1..e - 1
      <4> SUFFICES ASSUME i \in cmd_segment_pos + 1..e - 1 PROVE FALSE
        OBVIOUS
      <4>1. i - 1 \in cmd_segment_pos..e - 1 /\ i # 1
        BY <1>0
      <4> QED BY <2>3, <4>1 DEF WordBegins
    <3>2. i # e
      BY <2>3, <1>0 DEF WordBegins
    <3> QED BY <1>0, <2>3, <3>1, <3>2
  <2>4. ASSUME NEW i \in 1..str_length, WordBegins(i)
        PROVE  (i < cmd_segment_pos' \/ curr_index' > str_length)
                 <=> (i < cmd_segment_pos \/ i = cmd_segment_pos)
    <3>1. CASE e <= str_length
      BY <1>0, <2>3, <2>4, <3>1
    <3>2. CASE e = str_length + 1
      BY <1>0, <2>3, <2>4, <3>2
    <3> QED BY <1>0, <3>1, <3>2
  <2>5. Found = {i \in 1..str_length : WordBegins(i) /\ i < cmd_segment_pos}
    BY <1>0 DEF Found
  <2> QED BY <1>0, <2>1, <2>2, <2>4, <2>5
<1>5. /\ {Words'[k] : k \in 1..Len(Words')} = Found \cup {cmd_segment_pos}
      /\ \A j, k \in 1..Len(Words') : j < k => Words'[j] < Words'[k]
  <2>1. cmd_segment_pos \in Nat /\ Words \in Seq(Nat)
    BY <1>0
  <2>2. /\ {Words[k] : k \in 1..Len(Words)} = Found
        /\ \A j, k \in 1..Len(Words) : j < k => Words[j] < Words[k]
    BY <1>2
  <2> QED BY ONLY <1>1, <1>3, <2>1, <2>2, OneMoreWord, SMTT(30)
<1> QED BY <1>4, <1>5

--------------------------------------------------------------------------
\* A step that finds no word and leaves Found as it is.
LEMMA NoWordStep ==
  ASSUME CommandInv, init_phase = "init", UNCHANGED <<line, name_, params_>>,
         Found' = Found
  PROVE  /\ {Words'[k] : k \in 1..Len(Words')} = Found'
         /\ \A j, k \in 1..Len(Words') : j < k => Words'[j] < Words'[k]
<1>1. Words' = Words
  BY DEF Words
<1>2. /\ {Words[k] : k \in 1..Len(Words)} = Found
      /\ \A j, k \in 1..Len(Words) : j < k => Words[j] < Words[k]
  BY DEF CommandInv, LoopInv
<1> QED BY <1>1, <1>2

LEMMA LoopStep ==
  ASSUME CommandInv, CommandNext
  PROVE  LoopInv'
<1>0. /\ CommandTypeOK /\ LoopInv /\ str_length \in Nat
      /\ DOMAIN command_data = 1..str_length
      /\ curr_index \in 1..str_length + 1 /\ cmd_segment_pos \in 1..str_length + 1
  BY LineTypes DEF CommandInv, CommandTypeOK
<1>1. ASSUME NEW l \in Line, CommandReset(l) PROVE LoopInv'
  <2>1. /\ line' = l /\ command_data' = l /\ curr_index' = 1 /\ cmd_segment_pos' = 1
        /\ name_' = NULL /\ params_' = <<>> /\ Len(l) \in Nat
    BY <1>1, CommandAssumption DEF CommandReset
  <2>2. SUFFICES ASSUME init_phase' = "init" PROVE LoopInv'
    BY DEF LoopInv
  <2>3. l # <<>> /\ l \in Seq({Blank, "c"})
    BY <1>1, <2>2, CommandAssumption DEF CommandReset
  <2>4. str_length' = Len(l) /\ Len(l) > 0
    BY <2>1, <2>3 DEF str_length
  <2>5. Words' = <<>>
    BY <2>1 DEF Words
  <2>6. Found' = {}
    BY <2>1, <2>4 DEF Found
  <2>7. {Words'[k] : k \in 1..Len(Words')} = {}
    BY <2>5
  <2> QED BY <2>1, <2>4, <2>5, <2>6, <2>7 DEF LoopInv
<1>2. CASE SkipBlank
  <2>1. /\ init_phase = "init" /\ curr_index \in 1..str_length
        /\ command_data[curr_index] = Blank /\ curr_index = cmd_segment_pos
        /\ cmd_segment_pos' = curr_index + 1 /\ curr_index' = curr_index + 1
        /\ str_length' = str_length /\ UNCHANGED <<line, name_, params_>>
    BY <1>0, <1>2 DEF SkipBlank, Looping, str_length
  <2>2. line[curr_index] = Blank
    BY <1>0, <2>1 DEF LoopInv, Zero, Blank
  <2>3. \A i \in 1..str_length :
          command_data'[i] = IF i = curr_index THEN Zero ELSE command_data[i]
    BY <1>0, <1>2 DEF SkipBlank
  <2>4. \A i \in 1..str_length :
          command_data'[i] = IF line[i] = Blank /\ i < curr_index + 1 THEN Zero ELSE line[i]
    BY <1>0, <2>1, <2>2, <2>3 DEF LoopInv
  <2>5. Found' = Found
    <3>1. ASSUME NEW i \in 1..str_length, WordBegins(i)
          PROVE  (i < curr_index + 1 \/ curr_index + 1 > str_length)
                   <=> (i < curr_index \/ curr_index > str_length)
      <4>1. i # curr_index
        BY <2>2, <3>1 DEF WordBegins
      <4> QED BY <1>0, <2>1, <3>1, <4>1
    <3>2. Found = {i \in 1..str_length : WordBegins(i)
                     /\ (i < curr_index \/ curr_index > str_length)}
      BY <2>1 DEF Found
    <3>3. Found' = {i \in 1..str_length : WordBegins(i)
                     /\ (i < curr_index + 1 \/ curr_index + 1 > str_length)}
      BY <2>1 DEF Found, WordBegins
    <3> QED BY <3>1, <3>2, <3>3
  <2>6. /\ {Words'[k] : k \in 1..Len(Words')} = Found'
        /\ \A j, k \in 1..Len(Words') : j < k => Words'[j] < Words'[k]
    BY <2>1, <2>5, NoWordStep
  <2>7. /\ cmd_segment_pos' <= curr_index'
        /\ \A i \in cmd_segment_pos'..curr_index' - 1 : line'[i] # Blank
        /\ line'[cmd_segment_pos' - 1] = Blank
    BY <1>0, <2>1, <2>2
  <2>8. \A i \in 1..str_length' :
          command_data'[i] = IF line'[i] = Blank /\ i < curr_index' THEN Zero ELSE line'[i]
    BY <2>1, <2>4
  <2> HIDE DEF Found, Words
  <2> QED BY <2>6, <2>7, <2>8 DEF LoopInv
<1>3. CASE EndWord
  <2>1. /\ init_phase = "init" /\ curr_index \in 1..str_length /\ AddWord
        /\ command_data[curr_index] = Blank /\ curr_index # cmd_segment_pos
        /\ cmd_segment_pos' = curr_index + 1 /\ curr_index' = curr_index + 1
        /\ str_length' = str_length /\ UNCHANGED line
    BY <1>0, <1>3 DEF EndWord, Looping, str_length
  <2>2. line[curr_index] = Blank
    BY <1>0, <2>1 DEF LoopInv, Zero, Blank
  <2>3. \A i \in 1..str_length :
          command_data'[i] = IF i = curr_index THEN Zero ELSE command_data[i]
    BY <1>0, <1>3 DEF EndWord
  <2>4. \A i \in 1..str_length :
          command_data'[i] = IF line[i] = Blank /\ i < curr_index + 1 THEN Zero ELSE line[i]
    BY <1>0, <2>1, <2>2, <2>3 DEF LoopInv
  <2>5. /\ curr_index \in 1..str_length + 1 /\ cmd_segment_pos < curr_index
        /\ \A i \in cmd_segment_pos..curr_index - 1 : line[i] # Blank
    BY <1>0, <2>1 DEF LoopInv
  <2>6. /\ {Words'[k] : k \in 1..Len(Words')} = Found'
        /\ \A j, k \in 1..Len(Words') : j < k => Words'[j] < Words'[k]
    BY <2>1, <2>2, <2>5, WordStep
  <2>7. /\ cmd_segment_pos' <= curr_index'
        /\ \A i \in cmd_segment_pos'..curr_index' - 1 : line'[i] # Blank
        /\ line'[cmd_segment_pos' - 1] = Blank
    BY <1>0, <2>1, <2>2
  <2>8. \A i \in 1..str_length' :
          command_data'[i] = IF line'[i] = Blank /\ i < curr_index' THEN Zero ELSE line'[i]
    BY <2>1, <2>4
  <2> HIDE DEF Found, Words
  <2> QED BY <2>6, <2>7, <2>8 DEF LoopInv
<1>4. CASE SkipChar \/ LastWord
  <2>1. /\ init_phase = "init" /\ curr_index \in 1..str_length
        /\ command_data[curr_index] # Blank
        /\ cmd_segment_pos' = cmd_segment_pos /\ curr_index' = curr_index + 1
        /\ str_length' = str_length /\ UNCHANGED <<line, command_data>>
    BY <1>0, <1>4 DEF SkipChar, LastWord, Looping, str_length
  <2>2. line[curr_index] # Blank
    BY <1>0, <2>1 DEF LoopInv
  <2>3. /\ cmd_segment_pos <= curr_index
        /\ \A i \in cmd_segment_pos..curr_index : line[i] # Blank
    BY <1>0, <2>1, <2>2 DEF LoopInv
  <2>4. \A i \in 1..str_length' :
          command_data'[i] = IF line'[i] = Blank /\ i < curr_index' THEN Zero ELSE line'[i]
    BY <1>0, <2>1, <2>2 DEF LoopInv
  <2>5. /\ {Words'[k] : k \in 1..Len(Words')} = Found'
        /\ \A j, k \in 1..Len(Words') : j < k => Words'[j] < Words'[k]
    <3>1. CASE SkipChar
      <4>1. UNCHANGED <<name_, params_>> /\ curr_index # str_length
        BY <3>1 DEF SkipChar
      <4>2. Found' = Found
        BY <1>0, <2>1, <4>1 DEF Found, WordBegins
      <4> QED BY <2>1, <4>1, <4>2, NoWordStep
    <3>2. CASE LastWord
      <4>1. AddWord /\ curr_index = str_length
        BY <3>2 DEF LastWord
      <4>2. /\ str_length + 1 \in 1..str_length + 1 /\ cmd_segment_pos < str_length + 1
            /\ ~ (str_length + 1 <= str_length) /\ curr_index' = str_length + 1
            /\ \A i \in cmd_segment_pos..(str_length + 1) - 1 : line[i] # Blank
        BY <1>0, <2>1, <2>3, <4>1
      <4> QED BY <2>1, <4>1, <4>2, WordStep
    <3> QED BY <1>4, <3>1, <3>2
  <2>6. /\ cmd_segment_pos' <= curr_index'
        /\ \A i \in cmd_segment_pos'..curr_index' - 1 : line'[i] # Blank
        /\ cmd_segment_pos' = 1 \/ line'[cmd_segment_pos' - 1] = Blank
    BY <1>0, <2>1, <2>3 DEF LoopInv
  <2> HIDE DEF Found, Words
  <2> QED BY <2>4, <2>5, <2>6 DEF LoopInv
<1>5. CASE EndInit
  BY <1>5 DEF EndInit, LoopInv
<1> QED BY <1>1, <1>2, <1>3, <1>4, <1>5 DEF CommandNext

\* When the loop is done the words that were found are those of the line.
LEMMA IdleStep ==
  ASSUME CommandInv, CommandNext
  PROVE  WordsFound' /\ WordsTerminated'
<1>0. CommandTypeOK /\ NameFirst /\ LoopInv /\ str_length \in Nat
  BY LineTypes DEF CommandInv
<1>1. CASE EndInit
  <2>1. /\ init_phase = "init" /\ curr_index > str_length
        /\ UNCHANGED <<line, command_data, name_, params_>>
        /\ is_correct_' = (name_ # NULL)
    BY <1>1 DEF EndInit
  <2>2. Words' = Words /\ str_length' = str_length
    BY <2>1 DEF Words, str_length
  <2>3. Found = {i \in 1..str_length : WordBegins(i)}
    BY <2>1 DEF Found
  <2>4. /\ {Words[k] : k \in 1..Len(Words)} = Found
        /\ \A j, k \in 1..Len(Words) : j < k => Words[j] < Words[k]
        /\ \A i \in 1..str_length :
             command_data[i] = IF line[i] = Blank /\ i < curr_index THEN Zero ELSE line[i]
    BY <1>0, <2>1 DEF LoopInv
  <2>5. \A i \in 1..str_length :
          command_data[i] = IF line[i] = Blank THEN Zero ELSE line[i]
    BY <1>0, <2>1, <2>4 DEF CommandTypeOK
  <2>6. WordsTerminated'
    BY <2>1, <2>2, <2>5 DEF WordsTerminated
  <2>7. {i \in 1..str_length' : WordBegins(i)'} = {i \in 1..str_length : WordBegins(i)}
    BY <2>1, <2>2 DEF WordBegins
  <2>8. /\ is_correct_' <=> (name_' # NULL)
        /\ name_' = NULL => params_' = <<>>
    BY <1>0, <2>1 DEF NameFirst
  <2> HIDE DEF Words, Found
  <2> QED BY <2>2, <2>3, <2>4, <2>6, <2>7, <2>8 DEF WordsFound
<1>2. ASSUME NEW l \in Line, CommandReset(l) PROVE WordsFound' /\ WordsTerminated'
  <2>1. SUFFICES ASSUME init_phase' = "idle" PROVE WordsFound' /\ WordsTerminated'
    BY DEF WordsFound, WordsTerminated
  <2>2. /\ line' = <<>> /\ name_' = NULL /\ params_' = <<>> /\ is_correct_' = FALSE
    BY <1>2, <2>1 DEF CommandReset
  <2>3. str_length' = 0 /\ Words' = <<>>
    BY <2>2 DEF str_length, Words
  <2>4. {Words'[k] : k \in 1..Len(Words')} = {}
    BY <2>3
  <2> QED BY <2>2, <2>3, <2>4 DEF WordsFound, WordsTerminated
<1>3. CASE SkipBlank \/ EndWord \/ SkipChar \/ LastWord
  <2>1. init_phase' = "init"
    BY <1>3 DEF SkipBlank, EndWord, SkipChar, LastWord, Looping
  <2> QED BY <2>1 DEF WordsFound, WordsTerminated
<1> QED BY <1>1, <1>2, <1>3 DEF CommandNext

\* The invariant that the theorems below rest on.
THEOREM CommandInductive == CommandSpec => []CommandInv
<1>1. CommandInit => CommandInv
  <2> SUFFICES ASSUME CommandInit PROVE CommandInv
    OBVIOUS
  <2>0. /\ line = <<>> /\ command_data = <<>> /\ str_length = 0
        /\ <<>> \in Seq({Blank, "c"}) /\ <<>> \in Seq({Blank, Zero, "c"})
        /\ <<>> \in Seq(1..0)
    BY DEF CommandInit, str_length
  <2>1. CommandTypeOK /\ NameFirst /\ LoopInv
    <3>1. NameFirst /\ LoopInv
      BY DEF CommandInit, NameFirst, LoopInv
    <3>2. curr_index = 1 /\ cmd_segment_pos = 1 /\ name_ = NULL /\ params_ = <<>>
          /\ is_correct_ = FALSE /\ init_phase = "idle" /\ Len(command_data) = 0
      BY <2>0 DEF CommandInit
    <3>3. 1 \in 1..0 + 1
      OBVIOUS
    <3> QED BY <2>0, <3>1, <3>2, <3>3 DEF CommandTypeOK
  <2>2. Words = <<>> /\ str_length = 0
    BY DEF CommandInit, Words, str_length
  <2>3. WordsFound /\ WordsTerminated
    BY <2>2 DEF CommandInit, WordsFound, WordsTerminated
  <2> QED BY <2>1, <2>3 DEF CommandInv
<1>2. CommandInv /\ [CommandNext]_command_vars => CommandInv'
  <2> SUFFICES ASSUME CommandInv, [CommandNext]_command_vars PROVE CommandInv'
    OBVIOUS
  <2>1. CASE CommandNext
    BY <2>1, CommandTypeStep, LoopStep, IdleStep DEF CommandInv
  <2>2. CASE UNCHANGED command_vars
    <3>1. CommandTypeOK' /\ NameFirst'
      BY <2>2 DEF command_vars, CommandInv, CommandTypeOK, NameFirst, str_length
    <3>2. /\ Words' = Words /\ str_length' = str_length
          /\ \A i : WordBegins(i)' <=> WordBegins(i)
      BY <2>2 DEF command_vars, Words, str_length, WordBegins
    <3>3. Found' = Found
      BY <2>2, <3>2 DEF command_vars, Found
    <3>4. LoopInv'
      BY <2>2, <3>2, <3>3 DEF command_vars, CommandInv, LoopInv
    <3>5. WordsTerminated'
      BY <2>2, <3>2 DEF command_vars, CommandInv, WordsTerminated
    <3>6. {i \in 1..str_length' : WordBegins(i)'} = {i \in 1..str_length : WordBegins(i)}
      BY <3>2
    <3>7. WordsFound'
      BY <2>2, <3>2, <3>6 DEF command_vars, CommandInv, WordsFound
    <3> QED BY <3>1, <3>4, <3>5, <3>7 DEF CommandInv
  <2> QED BY <2>1, <2>2
<1> QED BY <1>1, <1>2, PTL DEF CommandSpec

\* The pointers stay inside the line.
THEOREM PointersInLine == CommandSpec => []CommandTypeOK
BY CommandInductive, PTL DEF CommandInv

\* The name and the parameters are the words of the line, for every line.
THEOREM WordsAreFound == CommandSpec => []WordsFound
BY CommandInductive, PTL DEF CommandInv

\* Every word is ended by a zero, and nothing else is changed.
THEOREM WordsAreTerminated == CommandSpec => []WordsTerminated
BY CommandInductive, PTL DEF CommandInv

--------------------------------------------------------------------------
(* The composition *)

\* A step of Receive is a step of FrameReceive and a step of Command, or none.
LEMMA ReceiveStep ==
  [ReceiveNext]_receive_vars => [Next]_vars /\ [CommandNext]_command_vars
<1> SUFFICES ASSUME [ReceiveNext]_receive_vars
             PROVE  [Next]_vars /\ [CommandNext]_command_vars
  OBVIOUS
<1>1. ASSUME NEW n \in 0..BUFFER_SIZE, Arrives(n)
      PROVE  Next /\ UNCHANGED command_vars
  BY <1>1 DEF Arrives, Next
<1>2. CASE Unmasks
  BY <1>2 DEF Unmasks, Next
<1>3. CASE Dispatch
  BY <1>3 DEF Dispatch, CommandNext
<1>4. CASE Loop
  BY <1>4 DEF Loop, CommandNext
<1>5. CASE Handled
  BY <1>5 DEF Handled, Next
<1>6. CASE Receiving
  BY <1>6 DEF Receiving, Next
<1>7. CASE UNCHANGED receive_vars
  BY <1>7 DEF receive_vars
<1> QED BY <1>1, <1>2, <1>3, <1>4, <1>5, <1>6, <1>7 DEF ReceiveNext

\* The chain from the socket to the handler treats frames as FrameReceive does
\* and lines as Command does: what holds of them holds of it.
THEOREM ReceiveImplementsParts == ReceiveSpec => Spec /\ CommandSpec
<1>1. ReceiveInit => Init /\ CommandInit
  BY DEF ReceiveInit
<1> QED BY <1>1, ReceiveStep, PTL DEF ReceiveSpec, Spec, CommandSpec

--------------------------------------------------------------------------
(* The line and the payload *)

\* Behind every frame that has been in it the memory is as it was before the first,
\* but for the zeros with which words that were found there have been ended.
KeptBehind ==
  OnePerRead /\ phase # "ended" =>
    \A i \in 0..BUFFER_SIZE - 1 :
      /\ i >= frame.length
      /\ \A k \in 1..Len(dispatched) :
           dispatched[k].data_pos_ + dispatched[k].payload_length_ <= i
      => memory[i] \in {Zero, before[i]}

\* The payload lies where it was unmasked until the command takes it apart.
PayloadLies ==
  phase = "framedata_ok" =>
    /\ payload \in [1..frame.payload_length_ -> Char]
    /\ ~ handled => \A j \in 1..frame.payload_length_ :
                      memory[frame.data_pos_ + j - 1] = payload[j]

OneCommand == (handled => phase = "framedata_ok") /\ (init_phase # "idle" => handled)

LineInv ==
  memory \in Memory /\ OneCommand /\ PayloadLies /\ KeptBehind /\ LineIsPayload

--------------------------------------------------------------------------
LEMMA MinIsLeast ==
  ASSUME NEW S \in SUBSET Nat, NEW z \in S, \A m \in S : z <= m
  PROVE  Min(S) = z
<1>1. \A m \in S : m \in Nat
  OBVIOUS
<1>2. Min(S) \in S /\ \A m \in S : Min(S) <= m
  BY DEF Min
<1>3. Min(S) <= z /\ z <= Min(S) /\ z \in Nat /\ Min(S) \in Nat
  BY <1>1, <1>2
<1> QED BY ONLY <1>3

LEMMA Prefix ==
  ASSUME NEW s, NEW m \in Nat
  PROVE  SubSeq(s, 1, m) = [j \in 1..m |-> s[j]]
<1> DEFINE S == {s[j] : j \in 1..m}
<1>1. \A j \in 1..m : s[j] \in S
  OBVIOUS
<1> HIDE DEF S
<1>2. /\ SubSeq(s, 1, m) \in Seq(S)
      /\ Len(SubSeq(s, 1, m)) = IF 1 <= m THEN m - 1 + 1 ELSE 0
      /\ \A j \in 1..m - 1 + 1 : SubSeq(s, 1, m)[j] = s[1 + j - 1]
  BY <1>1, SubSeqProperties
<1>3. Len(SubSeq(s, 1, m)) = m /\ \A j \in 1..m : SubSeq(s, 1, m)[j] = s[j]
  BY <1>2
<1>4. SubSeq(s, 1, m) = [j \in 1..Len(SubSeq(s, 1, m)) |-> SubSeq(s, 1, m)[j]]
  BY <1>2
<1> QED BY <1>3, <1>4

\* What a payload is up to its first zero.
LEMMA OwnPart ==
  ASSUME NEW n \in Nat, NEW p \in [1..n -> Char]
  PROVE  \/ /\ \A j \in 1..n : p[j] # Zero
            /\ UpToZero(p) = p
         \/ \E o \in 1..n :
              /\ p[o] = Zero /\ \A j \in 1..o - 1 : p[j] # Zero
              /\ UpToZero(p) = [j \in 1..o - 1 |-> p[j]]
<1> DEFINE zeros == {j \in 1..Len(p) : p[j] = Zero}
<1>1. Len(p) = n
  OBVIOUS
<1>2. CASE zeros = {}
  BY <1>1, <1>2 DEF UpToZero
<1>3. CASE zeros # {}
  <2>1. zeros \in SUBSET Nat
    BY <1>1
  <2>2. PICK o \in zeros : \A m \in zeros : o <= m
    <3> HIDE DEF zeros
    <3> QED BY <1>3, <2>1, LeastNumber
  <2>3. Min(zeros) = o
    <3> HIDE DEF zeros
    <3> QED BY <2>1, <2>2, MinIsLeast
  <2>4. o \in 1..n /\ p[o] = Zero
    BY <1>1, <2>2
  <2>5. \A j \in 1..o - 1 : p[j] # Zero
    <3> SUFFICES ASSUME NEW j \in 1..o - 1, p[j] = Zero PROVE FALSE
      OBVIOUS
    <3>1. j \in zeros
      BY <1>1, <2>4
    <3>2. o <= j
      <4> HIDE DEF zeros
      <4> QED BY <2>2, <3>1
    <3> QED BY <2>4, <3>2
  <2>6. UpToZero(p) = [j \in 1..o - 1 |-> p[j]]
    <3>1. SubSeq(p, 1, o - 1) = [j \in 1..o - 1 |-> p[j]]
      BY <2>4, Prefix
    <3> QED BY <1>3, <2>3, <3>1 DEF UpToZero
  <2> QED BY <2>4, <2>5, <2>6
<1> QED BY <1>2, <1>3

\* What a C string is: the memory from i on, up to its first zero or to the end of
\* the buffer, and on.
LEMMA StringIsMemory ==
  ASSUME memory \in Memory, BUFFER_SIZE \in Nat, NEW i \in 0..BUFFER_SIZE,
         NEW behind \in Seq({Blank, "c"})
  PROVE  LET s == CString(i, behind) IN
         \/ /\ \A j \in i..BUFFER_SIZE - 1 : memory[j] # Zero
            /\ Len(s) \in Nat /\ BUFFER_SIZE - i <= Len(s)
            /\ \A k \in 1..BUFFER_SIZE - i : s[k] = memory[i + k - 1]
         \/ \E z \in i..BUFFER_SIZE - 1 :
              /\ memory[z] = Zero /\ \A j \in i..z - 1 : memory[j] # Zero
              /\ s = [k \in 1..z - i |-> memory[i + k - 1]]
<1> DEFINE zeros == {j \in i..BUFFER_SIZE - 1 : memory[j] = Zero}
           rest == [k \in 1..BUFFER_SIZE - i |-> memory[i + k - 1]]
<1>1. CASE zeros = {}
  <2>1. CString(i, behind) = rest \o behind
    BY <1>1 DEF CString
  <2>2. \A k \in 1..BUFFER_SIZE - i : memory[i + k - 1] \in Char
    <3>1. \A k \in 1..BUFFER_SIZE - i : i + k - 1 \in 0..BUFFER_SIZE - 1
      OBVIOUS
    <3> QED BY <3>1 DEF Memory
  <2>3. rest \in Seq(Char) /\ Len(rest) = BUFFER_SIZE - i
    BY <2>2
  <2>4. behind \in Seq(Char)
    BY DEF Char
  <2>5. \A k \in 1..BUFFER_SIZE - i : rest[k] = memory[i + k - 1]
    OBVIOUS
  <2> HIDE DEF rest
  <2>6. /\ Len(rest \o behind) = Len(rest) + Len(behind) /\ Len(behind) \in Nat
        /\ \A k \in 1..Len(rest) : (rest \o behind)[k] = rest[k]
    BY <2>3, <2>4
  <2> QED BY <1>1, <2>1, <2>3, <2>5, <2>6
<1>2. CASE zeros # {}
  <2>1. zeros \in SUBSET Nat
    OBVIOUS
  <2>2. PICK z \in zeros : \A m \in zeros : z <= m
    <3> HIDE DEF zeros
    <3> QED BY <1>2, <2>1, LeastNumber
  <2>3. Min(zeros) = z
    <3> HIDE DEF zeros
    <3> QED BY <2>1, <2>2, MinIsLeast
  <2>4. z \in i..BUFFER_SIZE - 1 /\ memory[z] = Zero
    BY <2>2
  <2>5. \A j \in i..z - 1 : memory[j] # Zero
    <3> SUFFICES ASSUME NEW j \in i..z - 1, memory[j] = Zero PROVE FALSE
      OBVIOUS
    <3>1. j \in zeros
      BY <2>4
    <3>2. z <= j
      <4> HIDE DEF zeros
      <4> QED BY <2>2, <3>1
    <3> QED BY <2>4, <3>2
  <2>6. CString(i, behind) = SubSeq(rest, 1, z - i)
    BY <1>2, <2>3 DEF CString
  <2>7. SubSeq(rest, 1, z - i) = [k \in 1..z - i |-> rest[k]]
    <3>1. z - i \in Nat
      BY <2>4
    <3> HIDE DEF rest
    <3> QED BY <3>1, Prefix
  <2>8. [k \in 1..z - i |-> rest[k]] = [k \in 1..z - i |-> memory[i + k - 1]]
    <3>1. \A k \in 1..z - i : k \in 1..BUFFER_SIZE - i
      BY <2>4
    <3> QED BY <3>1
  <2> QED BY <2>4, <2>5, <2>6, <2>7, <2>8
<1> QED BY <1>1, <1>2

\* A payload that lies in the memory begins its C string, and ends it if there is a
\* zero in it.
LEMMA LineOfPayload ==
  ASSUME memory \in Memory, BUFFER_SIZE \in Nat,
         NEW i \in Nat, NEW n \in Nat, i + n <= BUFFER_SIZE,
         NEW p \in [1..n -> Char], \A j \in 1..n : memory[i + j - 1] = p[j],
         NEW behind \in Seq({Blank, "c"})
  PROVE  LET own == UpToZero(p)
             s == CString(i, behind)
         IN /\ Len(own) <= Len(s) /\ \A k \in 1..Len(own) : s[k] = own[k]
            /\ own # p => s = own
            /\ own = p => Len(own) = n
            /\ \A k \in 1..Len(s) :
                 i + k - 1 < BUFFER_SIZE => s[k] = memory[i + k - 1] /\ s[k] # Zero
<1> DEFINE own == UpToZero(p)
           s == CString(i, behind)
<1>1. i \in 0..BUFFER_SIZE
  OBVIOUS
<1>2. Len(p) = n
  OBVIOUS
<1>3. CASE /\ \A j \in i..BUFFER_SIZE - 1 : memory[j] # Zero
           /\ Len(s) \in Nat /\ BUFFER_SIZE - i <= Len(s)
           /\ \A k \in 1..BUFFER_SIZE - i : s[k] = memory[i + k - 1]
  <2>1. \A j \in 1..n : p[j] # Zero /\ j \in 1..BUFFER_SIZE - i
    <3>1. \A j \in 1..n : i + j - 1 \in i..BUFFER_SIZE - 1 /\ j \in 1..BUFFER_SIZE - i
      OBVIOUS
    <3> QED BY <1>3, <3>1
  <2>2. own = p
    BY <2>1, OwnPart
  <2>3. \A k \in 1..Len(s) : i + k - 1 < BUFFER_SIZE =>
          k \in 1..BUFFER_SIZE - i /\ i + k - 1 \in i..BUFFER_SIZE - 1
    BY <1>3
  <2> HIDE DEF s, own
  <2>4. n <= Len(s)
    BY <1>3
  <2>5. \A k \in 1..n : s[k] = p[k]
    BY <1>3, <2>1
  <2>6. \A k \in 1..Len(s) :
          i + k - 1 < BUFFER_SIZE => s[k] = memory[i + k - 1] /\ s[k] # Zero
    BY <1>3, <2>3
  <2> QED BY <1>2, <2>2, <2>4, <2>5, <2>6 DEF s, own
<1>4. CASE \E z \in i..BUFFER_SIZE - 1 :
             /\ memory[z] = Zero /\ \A j \in i..z - 1 : memory[j] # Zero
             /\ s = [k \in 1..z - i |-> memory[i + k - 1]]
  <2>1. PICK z \in i..BUFFER_SIZE - 1 :
             /\ memory[z] = Zero /\ \A j \in i..z - 1 : memory[j] # Zero
             /\ s = [k \in 1..z - i |-> memory[i + k - 1]]
    BY <1>4
  <2> HIDE DEF s, own
  <2>2. Len(s) = z - i /\ z - i \in Nat
    BY <2>1
  <2>3. \A k \in 1..Len(s) : s[k] = memory[i + k - 1] /\ s[k] # Zero
    <3>1. \A k \in 1..z - i : i + k - 1 \in i..z - 1
      BY <2>1
    <3> QED BY <2>1, <2>2, <3>1
  <2>4. CASE (\A j \in 1..n : p[j] # Zero) /\ own = p
    <3>1. z - i >= n
      <4> SUFFICES ASSUME z - i < n PROVE FALSE
        BY <2>1
      <4>1. z - i + 1 \in 1..n /\ i + (z - i + 1) - 1 = z
        BY <2>1
      <4>2. p[z - i + 1] = Zero
        BY <2>1, <4>1
      <4> QED BY <2>4, <4>1, <4>2
    <3>2. \A k \in 1..n : s[k] = p[k]
      BY <2>2, <2>3, <3>1
    <3> QED BY <1>2, <2>2, <2>3, <2>4, <3>1, <3>2 DEF s, own
  <2>5. CASE \E o \in 1..n :
               /\ p[o] = Zero /\ \A j \in 1..o - 1 : p[j] # Zero
               /\ own = [j \in 1..o - 1 |-> p[j]]
    <3>1. PICK o \in 1..n :
               /\ p[o] = Zero /\ \A j \in 1..o - 1 : p[j] # Zero
               /\ own = [j \in 1..o - 1 |-> p[j]]
      BY <2>5
    <3>2. i + o - 1 \in i..BUFFER_SIZE - 1 /\ memory[i + o - 1] = Zero
      BY <3>1
    <3>3. z <= i + o - 1
      <4> SUFFICES ASSUME i + o - 1 < z PROVE FALSE
        BY <2>1, <3>2
      <4>1. i + o - 1 \in i..z - 1
        BY <2>1, <3>2
      <4> QED BY <2>1, <3>2, <4>1
    <3>4. z = i + o - 1
      <4> SUFFICES ASSUME z < i + o - 1 PROVE FALSE
        BY <2>1, <3>3
      <4>1. z - i + 1 \in 1..o - 1 /\ z - i + 1 \in 1..n /\ i + (z - i + 1) - 1 = z
        BY <2>1, <3>1
      <4>2. p[z - i + 1] = Zero
        BY <2>1, <4>1
      <4> QED BY <3>1, <4>1, <4>2
    <3>5. s = own
      <4>1. z - i = o - 1
        BY <3>1, <3>4
      <4>2. \A k \in 1..o - 1 : memory[i + k - 1] = p[k]
        BY <3>1
      <4> QED BY <2>1, <3>1, <4>1, <4>2
    <3>6. own # p
      <4>1. Len(own) = o - 1
        BY <3>1
      <4> QED BY <1>2, <3>1, <4>1
    <3> QED BY <2>2, <2>3, <3>5, <3>6 DEF s, own
  <2>6. \/ (\A j \in 1..n : p[j] # Zero) /\ own = p
        \/ \E o \in 1..n :
              /\ p[o] = Zero /\ \A j \in 1..o - 1 : p[j] # Zero
              /\ own = [j \in 1..o - 1 |-> p[j]]
    BY OwnPart DEF own
  <2> QED BY <2>4, <2>5, <2>6
<1> QED BY <1>1, <1>3, <1>4, StringIsMemory

\* What the steps of the parser leave of the line: nothing is handed on.
LEMMA LineTypesStep ==
  ASSUME TypeOK, Positions, BufferIsTail, memory \in Memory, OneCommand, ReceiveNext
  PROVE  memory' \in Memory /\ OneCommand'
<1>1. ASSUME NEW n \in 0..BUFFER_SIZE, Arrives(n)
      PROVE  memory' \in Memory /\ OneCommand'
  <2>1. ~ handled /\ UNCHANGED <<handled, init_phase>>
    BY <1>1 DEF Arrives, Read, OneCommand, command_vars
  <2>2. "c" \in Char
    BY DEF Char
  <2>3. memory' \in Memory
    BY <1>1, <2>2 DEF Arrives, Memory
  <2> QED BY <2>1, <2>3 DEF OneCommand
<1>2. CASE Unmasks
  <2>1. ~ handled /\ UNCHANGED <<handled, init_phase>> /\ phase' = "framedata_ok"
    BY <1>2 DEF Unmasks, FetchPayload, Parse, OneCommand, command_vars
  <2>2. frame.pos_ \in Nat /\ frame.payload_length_ \in Nat
    BY DEF TypeOK, FrameData
  <2>3. PICK chars \in [1..frame.payload_length_ -> Char] : memory' = Unmask(chars)
    BY <1>2 DEF Unmasks
  <2>4. Len(chars) = frame.payload_length_
    BY <2>2
  <2>5. memory' \in Memory
    <3>1. ASSUME NEW i \in 0..BUFFER_SIZE - 1,
                 i >= frame.pos_ /\ i < frame.pos_ + Len(chars)
          PROVE  chars[i - frame.pos_ + 1] \in Char
      <4>1. i - frame.pos_ + 1 \in 1..frame.payload_length_
        BY <2>2, <2>4, <3>1, ConstantTypes
      <4> QED BY <4>1
    <3> QED BY <2>3, <3>1 DEF Unmask, Memory
  <2> QED BY <2>1, <2>5 DEF OneCommand
<1>3. CASE Dispatch
  BY <1>3 DEF Dispatch, vars, OneCommand
<1>4. CASE Loop
  <2>1. /\ init_phase = "init" /\ UNCHANGED <<phase, handled>>
    BY <1>4 DEF Loop, SkipBlank, EndWord, SkipChar, LastWord, EndInit, Looping, vars
  <2>2. Zero \in Char
    BY DEF Char
  <2>3. memory' \in Memory
    BY <1>4, <2>2 DEF Loop, Memory
  <2> QED BY <2>1, <2>3 DEF OneCommand
<1>5. CASE Handled
  BY <1>5 DEF Handled, command_vars, OneCommand
<1>6. CASE Receiving
  <2>1. phase # "framedata_ok"
    BY <1>6 DEF Receiving, FetchFin, FetchLength, FetchMaskingKey, Indeterminate,
                ParseError, FrameTooLong, FrameIncomplete, FrameError, ReadFailed, Parse
  <2> QED BY <1>6, <2>1 DEF Receiving, command_vars, line_vars, OneCommand
<1> QED BY <1>1, <1>2, <1>3, <1>4, <1>5, <1>6 DEF ReceiveNext

LEMMA PayloadStep ==
  ASSUME TypeOK, Positions, BufferIsTail, memory \in Memory, OneCommand, PayloadLies,
         ReceiveNext
  PROVE  PayloadLies'
<1>0. /\ frame \in FrameData /\ frame.pos_ \in Nat /\ frame.payload_length_ \in Nat
      /\ BUFFER_SIZE \in Nat /\ data_len \in 0..BUFFER_SIZE
  BY ConstantTypes DEF TypeOK, FrameData
<1>1. ASSUME NEW n \in 0..BUFFER_SIZE, Arrives(n) PROVE PayloadLies'
  BY <1>1 DEF Arrives, Read, PayloadLies
<1>2. CASE Unmasks
  <2>1. /\ frame.state_ = "mask_key_ok" /\ frame.pos_ = frame.data_pos_
        /\ frame.pos_ + frame.payload_length_ <= data_len
    BY <1>2 DEF Unmasks, FetchPayload, Parse, Positions
  <2>2. frame'.payload_length_ = frame.payload_length_ /\ frame'.data_pos_ = frame.pos_
    BY <1>0, <1>2, <2>1 DEF Unmasks, FetchPayload, FrameData
  <2>3. payload' \in [1..frame.payload_length_ -> Char] /\ memory' = Unmask(payload')
    BY <1>2 DEF Unmasks
  <2>4. Len(payload') = frame.payload_length_
    BY <1>0, <2>3
  <2>5. ASSUME NEW j \in 1..frame.payload_length_
        PROVE  memory'[frame.pos_ + j - 1] = payload'[j]
    <3>1. /\ frame.pos_ + j - 1 \in 0..BUFFER_SIZE - 1
          /\ frame.pos_ + j - 1 >= frame.pos_
          /\ frame.pos_ + j - 1 < frame.pos_ + frame.payload_length_
          /\ (frame.pos_ + j - 1) - frame.pos_ + 1 = j
      BY <1>0, <2>1
    <3> QED BY <2>3, <2>4, <3>1 DEF Unmask, Memory
  <2> QED BY <2>2, <2>3, <2>5 DEF PayloadLies
<1>3. CASE Dispatch
  BY <1>3 DEF Dispatch, vars, PayloadLies
<1>4. CASE Loop
  <2>1. handled
    BY <1>4 DEF Loop, SkipBlank, EndWord, SkipChar, LastWord, EndInit, Looping, OneCommand
  <2> QED BY <1>4, <2>1 DEF Loop, vars, PayloadLies
<1>5. CASE Handled
  BY <1>5 DEF Handled, FrameOk, PayloadLies
<1>6. CASE Receiving
  <2>1. phase' # "framedata_ok"
    BY <1>6 DEF Receiving, FetchFin, FetchLength, FetchMaskingKey, Indeterminate, Return,
                ParseError, FrameTooLong, FrameIncomplete, FrameError, ReadFailed, Parse
  <2> QED BY <2>1 DEF PayloadLies
<1> QED BY <1>1, <1>2, <1>3, <1>4, <1>5, <1>6 DEF ReceiveNext

LEMMA KeptStep ==
  ASSUME FrameInv, FrameByFrame, FrameByFrame', memory \in Memory, OneCommand, KeptBehind,
         ReceiveNext
  PROVE  KeptBehind'
<1>0. /\ frame \in FrameData /\ frame.pos_ \in Nat /\ frame.length \in Nat
      /\ frame.payload_length_ \in Nat
      /\ BUFFER_SIZE \in Nat /\ data_len \in 0..BUFFER_SIZE
      /\ TypeOK /\ BufferIsTail /\ Positions /\ UsedBefore
  BY ConstantTypes DEF FrameInv, TypeOK, FrameData
<1>8. before' = before
  BY DEF ReceiveNext, Arrives, Unmasks, Dispatch, Loop, Handled, Receiving, line_vars
<1>1. SUFFICES ASSUME OnePerRead', phase' # "ended",
                      NEW i \in 0..BUFFER_SIZE - 1, i >= frame'.length,
                      \A k \in 1..Len(dispatched') :
                        dispatched'[k].data_pos_ + dispatched'[k].payload_length_ <= i
               PROVE  memory'[i] \in {Zero, before'[i]}
  BY DEF KeptBehind
<1>2. ASSUME NEW n \in 0..BUFFER_SIZE, Arrives(n) PROVE memory'[i] \in {Zero, before'[i]}
  <2>1. OnePerRead /\ phase = "reading" /\ dispatched' = dispatched
    BY <1>0, <1>1, <1>2, OnePerReadBefore DEF Arrives, Read, Next
  <2>2. frame.length = 0
    BY <2>1 DEF FrameByFrame
  <2>3. frame'.length = n
    BY <1>0, <1>2, <2>2 DEF Arrives, Read, FrameData
  <2>4. i \notin frame.length..frame.length + n - 1 /\ i >= 0
    BY <1>1, <2>2, <2>3
  <2>5. memory[i] \in {Zero, before[i]}
    BY <1>1, <2>1, <2>2, <2>4 DEF KeptBehind
  <2> QED BY <1>2, <1>8, <2>4, <2>5 DEF Arrives, Memory
<1>3. CASE Unmasks
  <2>1. Next
    BY <1>3 DEF Unmasks, Next
  <2>2. OnePerRead /\ phase # "ended" /\ dispatched' = dispatched
    BY <1>0, <1>1, <1>3, <2>1, OnePerReadBefore DEF Unmasks, FetchPayload, Parse
  <2>3. frame'.length = frame.length
    BY <1>0, <1>3 DEF Unmasks, FetchPayload, FrameData
  <2>4. memory[i] \in {Zero, before[i]}
    BY <1>1, <2>2, <2>3 DEF KeptBehind
  <2>5. frame.pos_ + frame.payload_length_ <= frame.length
    <3>1. frame.state_ = "mask_key_ok" /\ phase = "parsing"
          /\ frame.pos_ + frame.payload_length_ <= data_len
      BY <1>3 DEF Unmasks, FetchPayload, Parse
    <3>2. data_len <= frame.length
      BY <1>0, <3>1 DEF BufferIsTail, Fresh
    <3> QED BY <1>0, <3>1, <3>2
  <2>6. payload' \in [1..frame.payload_length_ -> Char] /\ memory' = Unmask(payload')
    BY <1>3 DEF Unmasks
  <2>7. Len(payload') = frame.payload_length_
    BY <1>0, <2>6
  <2>8. ~ (i < frame.pos_ + Len(payload'))
    BY <1>0, <1>1, <2>3, <2>5, <2>7
  <2> QED BY <1>8, <2>4, <2>6, <2>8 DEF Unmask, Memory
<1>4. CASE Dispatch
  BY <1>1, <1>4 DEF Dispatch, vars, KeptBehind, OnePerRead, SentFrame
<1>5. CASE Loop
  <2>1. UNCHANGED vars
    BY <1>5 DEF Loop
  <2>2. memory[i] \in {Zero, before[i]}
    BY <1>1, <2>1 DEF vars, KeptBehind, OnePerRead, SentFrame
  <2> QED BY <1>5, <1>8, <2>2 DEF Loop, Memory
<1>6. CASE Handled
  <2>1. FrameOk /\ memory' = memory /\ phase = "framedata_ok"
    BY <1>6 DEF Handled, FrameOk
  <2>2. OnePerRead
    BY <1>0, <1>1, <2>1, OnePerReadBefore DEF Next
  <2>3. /\ Received \in Message /\ dispatched' = Append(dispatched, Received)
        /\ Len(dispatched) \in Nat /\ dispatched \in Seq(Message)
    BY <1>0, <2>1, HandedOn DEF TypeOK
  <2>4. Received.data_pos_ + Received.payload_length_ <= i
    <3>1. Len(dispatched) + 1 \in 1..Len(dispatched')
          /\ dispatched'[Len(dispatched) + 1] = Received
      BY <2>3
    <3> QED BY <1>1, <3>1
  <2>5. \A k \in 1..Len(dispatched) :
          dispatched[k].data_pos_ + dispatched[k].payload_length_ <= i
    <3>1. \A k \in 1..Len(dispatched) :
            k \in 1..Len(dispatched') /\ dispatched'[k] = dispatched[k]
      BY <2>3
    <3> QED BY <1>1, <3>1
  <2>6. frame.length = Received.data_pos_ + Received.payload_length_
    <3>1. HoldsFrame(Len(dispatched) + 1) /\ ParsedOf(Len(dispatched) + 1)
      BY <2>1, <2>2 DEF FrameByFrame
    <3>2. frame.state_ = "payload_data_ok"
      BY <1>0, <2>1 DEF Positions
    <3> QED BY <3>1, <3>2 DEF HoldsFrame, ParsedOf, Received
  <2> QED BY <1>1, <2>1, <2>2, <2>4, <2>5, <2>6, <1>8 DEF KeptBehind
<1>7. CASE Receiving
  <2>1. Next /\ UNCHANGED memory
    BY <1>7 DEF Receiving, Next, line_vars
  <2>2. OnePerRead
    BY <1>0, <1>1, <2>1, OnePerReadBefore
  <2>3. phase # "ended" /\ UNCHANGED dispatched
    BY <1>7 DEF Receiving, FetchFin, FetchLength, FetchMaskingKey, Indeterminate, Return,
                ParseError, FrameTooLong, FrameIncomplete, FrameError, ReadFailed, Parse
  <2>4. frame'.length = frame.length
    <3>1. CASE FetchFin \/ FetchLength \/ FetchMaskingKey \/ Indeterminate \/ ParseError
      BY <1>0, <3>1, ParserStep
    <3>2. CASE FrameTooLong \/ FrameIncomplete \/ FrameError \/ ReadFailed
      BY <2>2, <3>2, <1>1 DEF FrameByFrame, FrameTooLong, FrameIncomplete, FrameError,
                              ReadFailed
    <3> QED BY <1>7, <3>1, <3>2 DEF Receiving
  <2> QED BY <1>1, <2>1, <2>2, <2>3, <2>4, <1>8 DEF KeptBehind
<1> QED BY <1>2, <1>3, <1>4, <1>5, <1>6, <1>7 DEF ReceiveNext

\* What the command is given.
LEMMA LineStep ==
  ASSUME FrameInv, FrameByFrame, LineInv, OneCommand', ReceiveNext
  PROVE  LineIsPayload'
<1>0. TypeOK /\ BufferIsTail /\ Positions /\ OneCommand /\ memory \in Memory
  BY DEF FrameInv, LineInv
<1>1. CASE Dispatch
  <2>2. /\ phase = "framedata_ok" /\ ~ handled /\ UNCHANGED <<vars, memory, before, payload>>
        /\ \E behind \in Behind : line' = CString(frame.data_pos_, behind)
    BY <1>1 DEF Dispatch, CommandReset
  <2>4. /\ frame.data_pos_ \in Nat /\ frame.payload_length_ \in Nat /\ BUFFER_SIZE \in Nat
        /\ frame.pos_ = frame.data_pos_ + frame.payload_length_
        /\ frame.pos_ <= BUFFER_SIZE /\ frame.state_ = "payload_data_ok"
        /\ dispatched \in Seq(Message) /\ Len(dispatched) \in Nat
    BY <1>0, <2>2, ConstantTypes DEF TypeOK, FrameData, Positions
  <2>9. /\ payload \in [1..frame.payload_length_ -> Char]
        /\ \A j \in 1..frame.payload_length_ : memory[frame.data_pos_ + j - 1] = payload[j]
    BY <2>2 DEF LineInv, PayloadLies
  <2> DEFINE own == UpToZero(payload)
  <2>10. /\ Len(own) <= Len(line') /\ \A k \in 1..Len(own) : line'[k] = own[k]
         /\ own # payload => line' = own
         /\ own = payload => Len(own) = frame.payload_length_
         /\ \A k \in 1..Len(line') :
              frame.data_pos_ + k - 1 < BUFFER_SIZE =>
                line'[k] = memory[frame.data_pos_ + k - 1] /\ line'[k] # Zero
    <3>1. PICK behind \in Behind : line' = CString(frame.data_pos_, behind)
      BY <2>2
    <3>2. behind \in Seq({Blank, "c"})
      BY ReceiveAssumption
    <3>3. frame.data_pos_ + frame.payload_length_ <= BUFFER_SIZE
      BY <2>4
    <3>4. LET s == CString(frame.data_pos_, behind)
          IN /\ Len(own) <= Len(s) /\ \A k \in 1..Len(own) : s[k] = own[k]
             /\ own # payload => s = own
             /\ own = payload => Len(own) = frame.payload_length_
             /\ \A k \in 1..Len(s) :
                  frame.data_pos_ + k - 1 < BUFFER_SIZE =>
                    s[k] = memory[frame.data_pos_ + k - 1] /\ s[k] # Zero
      BY <1>0, <2>4, <2>9, <3>2, <3>3, LineOfPayload
    <3> HIDE DEF own
    <3> QED BY <3>1, <3>4
  <2> HIDE DEF own
  <2>1. SUFFICES ASSUME FramesGrow', NEW k \in Len(own) + 1..Len(line'),
                        frame.data_pos_ + k - 1 < BUFFER_SIZE
                 PROVE  line'[k] = before[frame.data_pos_ + k - 1]
    <3>1. UNCHANGED <<frame, payload, before>>
      BY <2>2 DEF vars
    <3>2. UpToZero(payload)' = own
      BY <3>1 DEF own, UpToZero
    <3> QED BY <2>10, <3>1, <3>2 DEF LineIsPayload
  <2>3. FramesGrow
    BY <2>1, <2>2 DEF FramesGrow, Ends, vars, SentFrame
  <2>5. OnePerRead
    BY <2>3 DEF FramesGrow, OnePerRead
  <2>6. frame.pos_ >= frame.length
    <3>1. HoldsFrame(Len(dispatched) + 1) /\ ParsedOf(Len(dispatched) + 1)
      BY <2>2, <2>5 DEF FrameByFrame
    <3>2. frame.length = frame.pos_
      BY <2>4, <3>1 DEF HoldsFrame, ParsedOf
    <3> QED BY <2>4, <3>2
  <2>7. ASSUME NEW m \in 1..Len(dispatched)
        PROVE  dispatched[m].data_pos_ + dispatched[m].payload_length_ <= frame.pos_
    <3> DEFINE e == [j \in 1..Len(dispatched) |->
                       dispatched[j].data_pos_ + dispatched[j].payload_length_]
    <3>1. \A j \in 1..Len(dispatched) : e[j] \in Nat
      <4>1. \A j \in 1..Len(dispatched) : dispatched[j] \in Message
        BY <2>4
      <4> QED BY <4>1 DEF Message
    <3>2. e \in Seq(Nat) /\ Len(e) = Len(dispatched)
      BY <2>4, <3>1
    <3>3. Ends = e \o <<frame.pos_>>
      BY DEF Ends
    <3> HIDE DEF e
    <3>4. /\ Len(Ends) = Len(dispatched) + 1 /\ Ends[Len(dispatched) + 1] = frame.pos_
          /\ Ends[m] = e[m]
      <4>1. frame.pos_ \in Nat /\ <<frame.pos_>> \in Seq(Nat)
        BY <2>4
      <4>2. /\ Len(e \o <<frame.pos_>>) = Len(e) + 1
            /\ (e \o <<frame.pos_>>)[Len(e) + 1] = frame.pos_
            /\ \A j \in 1..Len(e) : (e \o <<frame.pos_>>)[j] = e[j]
        BY ONLY <3>2, <4>1, SMTT(30)
      <4> QED BY <3>2, <3>3, <4>2
    <3>5. m \in 1..Len(Ends) /\ Len(dispatched) + 1 \in 1..Len(Ends)
          /\ m < Len(dispatched) + 1
      BY <2>4, <3>4
    <3>6. Ends[m] <= Ends[Len(dispatched) + 1]
      BY <2>3, <3>5 DEF FramesGrow
    <3>7. e[m] <= frame.pos_
      BY <3>4, <3>6
    <3> QED BY <3>7 DEF e
  <2>8. own = payload /\ k >= frame.payload_length_ + 1 /\ k \in 1..Len(line')
    <3>1. own = payload
      <4> SUFFICES ASSUME own # payload PROVE FALSE
        OBVIOUS
      <4>1. line' = own
        BY <2>10
      <4> QED BY <2>1, <4>1
    <3>2. Len(own) = frame.payload_length_
      BY <2>10, <3>1
    <3> QED BY <2>1, <2>4, <3>1, <3>2
  <2>11. memory[frame.data_pos_ + k - 1] \in {Zero, before[frame.data_pos_ + k - 1]}
    <3> DEFINE i == frame.data_pos_ + k - 1
    <3>1. i \in 0..BUFFER_SIZE - 1 /\ i >= frame.pos_
      BY <2>1, <2>4, <2>8
    <3>2. i >= frame.length
      BY <1>0, <2>4, <2>6, <3>1 DEF TypeOK, FrameData
    <3>3. \A m \in 1..Len(dispatched) :
            dispatched[m].data_pos_ + dispatched[m].payload_length_ <= i
      <4>1. \A m \in 1..Len(dispatched) : dispatched[m] \in Message
        BY <2>4
      <4> HIDE DEF i
      <4>2. \A m \in 1..Len(dispatched) :
              dispatched[m].data_pos_ + dispatched[m].payload_length_ \in Nat
        BY <4>1 DEF Message
      <4>3. \A m \in 1..Len(dispatched) :
              dispatched[m].data_pos_ + dispatched[m].payload_length_ <= frame.pos_
        BY <2>7
      <4>4. i \in Nat /\ frame.pos_ \in Nat /\ frame.pos_ <= i
        BY <2>4, <3>1
      <4>5. \A a, b, c \in Nat : a <= b /\ b <= c => a <= c
        OBVIOUS
      <4> QED BY <4>2, <4>3, <4>4, <4>5
    <3> HIDE DEF i
    <3>4. memory[i] \in {Zero, before[i]}
      BY <2>2, <2>5, <3>1, <3>2, <3>3 DEF LineInv, KeptBehind
    <3> QED BY <3>4 DEF i
  <2> QED BY <2>1, <2>8, <2>10, <2>11
<1>2. CASE Loop
  <2>1. handled /\ UNCHANGED <<line, before, payload>> /\ UNCHANGED vars
    BY <1>0, <1>2 DEF Loop, SkipBlank, EndWord, SkipChar, LastWord, EndInit, Looping,
                      OneCommand
  <2>2. FramesGrow' => FramesGrow
    BY <2>1 DEF vars, FramesGrow, Ends, SentFrame
  <2>3. frame' = frame /\ UpToZero(payload)' = UpToZero(payload)
    BY <2>1 DEF vars, UpToZero
  <2>4. /\ handled /\ line' = line /\ payload' = payload /\ before' = before
        /\ frame'.data_pos_ = frame.data_pos_
    BY <2>1, <2>3
  <2>5. LineIsPayload
    BY DEF LineInv
  <2> QED BY <2>2, <2>3, <2>4, <2>5 DEF LineIsPayload
<1>3. CASE ~ (Dispatch \/ Loop)
  <2>1. ~ handled'
    <3>1. CASE Handled
      BY <3>1 DEF Handled
    <3>2. CASE ~ Handled
      <4>1. phase # "framedata_ok" /\ UNCHANGED handled
        BY <1>3, <3>2 DEF ReceiveNext, Arrives, Read, Unmasks, FetchPayload, Receiving,
             FetchFin, FetchLength, FetchMaskingKey, Indeterminate, ParseError,
             FrameTooLong, FrameIncomplete, FrameError, ReadFailed, Parse, line_vars
      <4> QED BY <1>0, <4>1 DEF OneCommand
    <3> QED BY <3>1, <3>2
  <2> QED BY <2>1 DEF LineIsPayload
<1> QED BY <1>1, <1>2, <1>3

\* Whatever was in the memory before the first frame, the handler is given what was
\* sent from its first character on, and no more than that if it has a zero; and if it
\* runs on behind it, then not into another frame, as long as frames come one by one
\* and do not become shorter.
THEOREM LinesArePayloads == ReceiveSpec => []LineIsPayload
<1>1. ReceiveInit => LineInv
  <2> SUFFICES ASSUME ReceiveInit PROVE LineInv
    OBVIOUS
  <2>1. /\ phase = "reading" /\ ~ handled /\ init_phase = "idle"
        /\ memory \in Upgraded /\ before = memory
    BY DEF ReceiveInit, Init, CommandInit
  <2>2. memory \in Memory
    BY <2>1, ReceiveAssumption
  <2>3. KeptBehind
    BY <2>1 DEF KeptBehind
  <2> QED BY <2>1, <2>2, <2>3 DEF LineInv, OneCommand, PayloadLies, LineIsPayload
<1>2. FrameInv /\ FrameByFrame /\ FrameByFrame' /\ LineInv /\ [ReceiveNext]_receive_vars
        => LineInv'
  <2> SUFFICES ASSUME FrameInv, FrameByFrame, FrameByFrame', LineInv,
                      [ReceiveNext]_receive_vars
               PROVE  LineInv'
    OBVIOUS
  <2>1. CASE ReceiveNext
    <3>1. TypeOK /\ Positions /\ BufferIsTail
      BY DEF FrameInv
    <3>2. memory' \in Memory /\ OneCommand'
      BY <2>1, <3>1, LineTypesStep DEF LineInv
    <3>3. PayloadLies'
      BY <2>1, <3>1, PayloadStep DEF LineInv
    <3>4. KeptBehind'
      BY <2>1, KeptStep DEF LineInv
    <3>5. LineIsPayload'
      BY <2>1, <3>2, LineStep
    <3> QED BY <3>2, <3>3, <3>4, <3>5 DEF LineInv
  <2>2. CASE UNCHANGED receive_vars
    <3>1. UNCHANGED vars /\ UNCHANGED command_vars /\ UNCHANGED line_vars
      BY <2>2 DEF receive_vars
    <3>2. /\ memory' \in Memory /\ OneCommand' /\ PayloadLies'
      BY <3>1 DEF vars, command_vars, line_vars, LineInv, OneCommand, PayloadLies
    <3>3. KeptBehind'
      BY <3>1 DEF vars, line_vars, LineInv, KeptBehind, OnePerRead, SentFrame
    <3>4. LineIsPayload'
      BY <3>1 DEF vars, line_vars, command_vars, LineInv, LineIsPayload, FramesGrow, Ends,
                  SentFrame, UpToZero
    <3> QED BY <3>2, <3>3, <3>4 DEF LineInv
  <2> QED BY <2>1, <2>2
<1>3. LineInv => LineIsPayload
  BY DEF LineInv
<1> QED
  BY <1>1, <1>2, <1>3, FrameInductive, FramesOneByOne, ReceiveImplementsParts, PTL
  DEF ReceiveSpec

\* What the receive chain promises of every frame and every line.
THEOREM ReceiveSafe ==
  ReceiveSpec => [](/\ PayloadArrived /\ BytesUsedOnce /\ ShortFrameIntact
                    /\ FramePerRead /\ WordsFound /\ LineIsPayload)
  BY ReceiveImplementsParts, PayloadsHaveArrived, BytesAreUsedOnce, ShortFramesIntact,
     OneFramePerRead, WordsAreFound, LinesArePayloads, PTL
=============================================================================
