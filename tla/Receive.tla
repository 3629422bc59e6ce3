------------------------------- MODULE Receive -------------------------------
(* How a line comes to a handler: FrameReceive, whose frames the dispatcher hands
   to the command of the client, and Command, which takes the payload apart
   where it lies.  The payload is handed on as a C string and nothing ends it, so
   that the line goes on to the next zero in the memory of the client.  The buffer
   is not empty before the first frame: the upgrade request was read into it.

   The frames that the peer sends are data frames, which the dispatcher treats
   alike.  What the parser takes for a frame may be one of any kind.

   A byte of a payload is a blank, a zero or another character once it has been
   unmasked; what was received and not unmasked is no blank and no zero.

   A definition whose name ends in _ and a word is its namesake with a slip a
   programmer could make; no other definition uses it.                       *)
EXTENDS FrameReceive, Command, FiniteSetsExt

CONSTANTS
  Upgraded, \* what the buffer can hold before the first frame: the end of the
            \* upgrade request, and what was in the memory of a new client
  Behind    \* what can lie behind the buffer, up to the first zero

Char == {Blank, Zero, "c"}
Memory == [0..BUFFER_SIZE - 1 -> Char]

ASSUME ReceiveAssumption ==
  /\ Upgraded \subseteq Memory
  /\ Behind \subseteq Seq({Blank, "c"})

VARIABLES
  memory,   \* frame_data_.data as characters
  before,   \* history: the memory before the first frame
  payload,  \* the payload of the frame that is handed on
  handled   \* whether the command has been given it

line_vars == <<memory, before, payload, handled>>

--------------------------------------------------------------------------
Arrives(n) ==
  /\ Read(n)
  /\ memory' = [i \in DOMAIN memory |->
                  IF i \in frame.length..frame.length + n - 1 THEN "c" ELSE memory[i]]
  /\ UNCHANGED <<command_vars, before, payload, handled>>

\* fetch_payload stops before the last byte.
Unmask_Short(chars) ==
  [i \in DOMAIN memory |->
     IF i - frame.pos_ + 1 \in 1..Len(chars) - 1 THEN chars[i - frame.pos_ + 1] ELSE memory[i]]

\* fetch_payload
Unmask(chars) ==
  [i \in DOMAIN memory |->
     IF i >= frame.pos_ /\ i < frame.pos_ + Len(chars)
     THEN chars[i - frame.pos_ + 1] ELSE memory[i]]

Unmasks ==
  /\ FetchPayload
  /\ payload' \in [1..frame.payload_length_ -> Char]
  /\ memory' = Unmask(payload')
  /\ UNCHANGED <<command_vars, before, handled>>

\* The C string at i.
CString(i, behind) ==
  LET zeros == {j \in i..BUFFER_SIZE - 1 : memory[j] = Zero}
      rest == [k \in 1..BUFFER_SIZE - i |-> memory[i + k - 1]]
  IN IF zeros = {} THEN rest \o behind ELSE SubSeq(rest, 1, Min(zeros) - i)

\* on_client_framedata, on_client_data: the command is reset.
Dispatch ==
  /\ phase = "framedata_ok"
  /\ ~handled
  /\ \E behind \in Behind :
       LET l == CString(frame.data_pos_, behind) IN l \in Line /\ CommandReset(l)
  /\ handled' = TRUE
  /\ UNCHANGED <<vars, memory, before, payload>>

\* init writes its zeros into the buffer.
Loop ==
  /\ \/ /\ SkipBlank \/ EndWord
        /\ LET i == frame.data_pos_ + curr_index - 1
           IN memory' = [j \in DOMAIN memory |-> IF i = j THEN Zero ELSE memory[j]]
     \/ (SkipChar \/ LastWord \/ EndInit) /\ UNCHANGED memory
  /\ UNCHANGED <<vars, before, payload, handled>>

\* The handler is done, or the frame was none for a handler: what the parser took
\* for a control frame, or any frame for a client that is not available any more
\* and is read from no more.
Handled ==
  /\ init_phase = "idle"
  /\ handled \/ ~Meant(data[0], 0) \/ phase' = "ended"
  /\ FrameOk
  /\ handled' = FALSE
  /\ UNCHANGED <<command_vars, memory, before, payload>>

\* The other steps, as in FrameReceive; nothing is ever moved in the buffer.
Receiving ==
  /\ \/ FetchFin \/ FetchLength \/ FetchMaskingKey \/ Indeterminate \/ ParseError
     \/ FrameTooLong \/ FrameIncomplete \/ FrameError \/ ReadFailed
  /\ UNCHANGED <<command_vars, line_vars>>

--------------------------------------------------------------------------
ReceiveInit ==
  /\ Init /\ CommandInit
  /\ memory \in Upgraded /\ before = memory
  /\ payload = <<>>
  /\ handled = FALSE

ReceiveNext ==
  \/ \E n \in 0..BUFFER_SIZE : Arrives(n)
  \/ Unmasks \/ Dispatch \/ Loop \/ Handled \/ Receiving

receive_vars == <<vars, command_vars, line_vars>>
ReceiveSpec == ReceiveInit /\ [][ReceiveNext]_receive_vars

--------------------------------------------------------------------------
(* Safety *)

UpToZero(s) ==
  LET zeros == {i \in 1..Len(s) : s[i] = Zero}
  IN IF zeros = {} THEN s ELSE SubSeq(s, 1, Min(zeros) - 1)

\* Every frame came in a read of its own and none ends further to the front of
\* the buffer than the one before.
Ends == [k \in 1..Len(dispatched) |-> dispatched[k].data_pos_ + dispatched[k].payload_length_]
             \o <<frame.pos_>>
FramesGrow ==
  /\ reads.atBorders /\ reads.everyBorder
  /\ \A i \in 1..arrived : SentFrame(i).extended # 8
  /\ \A j, k \in 1..Len(Ends) : j < k => Ends[j] <= Ends[k]

\* What the command takes apart begins with the payload of the frame, as it was
\* unmasked, and ends with it if there is a zero in it.  Otherwise it runs on: but
\* not into what an earlier frame has left there, as long as frames grow, only into
\* what was there before the first one.
LineIsPayload ==
  handled =>
    LET own == UpToZero(payload) IN
    /\ Len(own) <= Len(line) /\ \A k \in 1..Len(own) : line[k] = own[k]
    /\ own # payload => line = own
    /\ FramesGrow =>
         \A k \in Len(own) + 1..Len(line) :
           LET i == frame.data_pos_ + k - 1
           IN i < BUFFER_SIZE => line[k] = before[i]

=============================================================================
