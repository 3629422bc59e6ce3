----------------------------- MODULE SendQueue -----------------------------
(* The send queue of one ws_client: the buffers of send_buffer_sequence_, which
   write and write_frame fill and which send_handle empties, one async_write at
   a time.  Every action is one call under send_lock_.  The vector holds
   pointers, so that a buffer keeps its place in memory when it grows.

   A message is the number of the call that wrote it, which is the order in
   which the callers got send_lock_.  Payloads are shorter than 126 bytes: the
   frame header of longer ones is not modelled here.

   A definition whose name ends in _ and a word is its namesake with a slip a
   programmer could make; no other definition uses it.                       *)
EXTENDS Integers, Sequences, FiniteSets

CONSTANTS
  InitialSize,                \* buffers the constructor creates
  MAX_BUFFER_SEQUENCE_SIZE,   \* buffers at most
  MaxWrites                   \* bound: calls of write and write_frame

ASSUME SendQueueAssumption ==
  /\ InitialSize \in Nat \ {0}
  /\ MAX_BUFFER_SEQUENCE_SIZE \in Nat /\ InitialSize <= MAX_BUFFER_SEQUENCE_SIZE
  /\ MaxWrites \in Nat

VARIABLES
  size,         \* send_buffer_sequence_.size()
  buffers,      \* the message in each buffer
  write_pos, read_pos, is_data_sending,
  inflight,     \* the async_writes that have not completed
  available,    \* available_
  broken,       \* the socket does not send any more
  written,      \* calls of write and write_frame so far
  received,     \* what has reached the peer
  failed        \* history: a message could not be formatted

vars == <<size, buffers, write_pos, read_pos, is_data_sending, inflight,
          available, broken, written, received, failed>>

Index == 0..(MAX_BUFFER_SEQUENCE_SIZE - 1)
Blank == 0        \* a buffer nothing was written to: size_ = 0
Garbled == -1     \* bytes of one message, size_ of an earlier one
Content == -1..MaxWrites

TypeOK ==
  /\ size \in 0..MAX_BUFFER_SEQUENCE_SIZE
  /\ buffers \in [Index -> Content]
  /\ write_pos \in 0..size
  /\ read_pos \in -1..MAX_BUFFER_SEQUENCE_SIZE
  /\ is_data_sending \in BOOLEAN
  /\ inflight \subseteq [at: Index, content: Content]
  /\ available \in BOOLEAN /\ broken \in BOOLEAN
  /\ written \in 0..MaxWrites
  /\ received \in Seq(Content \ {Blank})
  /\ failed \in BOOLEAN

--------------------------------------------------------------------------
(* alloc_available_buffer *)

CanAlloc == write_pos < size \/ size < MAX_BUFFER_SEQUENCE_SIZE

\* The position is not advanced.
Alloc_InPlace ==
  /\ CanAlloc
  /\ size' = IF write_pos < size THEN size ELSE size + 1
  /\ UNCHANGED write_pos

\* The buffer at write_pos is handed out, a new one if it does not exist.
Alloc ==
  /\ CanAlloc
  /\ size' = IF write_pos < size THEN size ELSE size + 1
  /\ write_pos' = write_pos + 1

--------------------------------------------------------------------------
(* write and write_frame *)

WriteBuffer(i, m) ==
  /\ buffers' = [buffers EXCEPT ![i] = m]
  /\ written' = written + 1

\* The test of read_pos is missing.
SendFirst_Always(i, m) ==
  /\ read_pos' = IF read_pos = -1 THEN 0 ELSE read_pos
  /\ inflight' = inflight \cup {[at |-> i, content |-> m]}
  /\ is_data_sending' = TRUE

\* Only when nothing is being sent, the new buffer - not the one at read_pos -
\* is given to async_write.
SendFirst(i, m) ==
  IF read_pos = -1
  THEN /\ read_pos' = 0
       /\ inflight' = inflight \cup {[at |-> i, content |-> m]}
       /\ is_data_sending' = TRUE
  ELSE UNCHANGED <<read_pos, inflight, is_data_sending>>

Write ==
  /\ written < MaxWrites
  /\ Alloc
  /\ WriteBuffer(write_pos, written + 1)
  /\ SendFirst(write_pos, written + 1)
  /\ UNCHANGED <<available, broken, received, failed>>

\* Every buffer is in use: the call returns, and its caller learns nothing.
WriteRefused ==
  /\ written < MaxWrites
  /\ ~CanAlloc
  /\ written' = written + 1
  /\ UNCHANGED <<size, buffers, write_pos, read_pos, is_data_sending, inflight,
                 available, broken, received, failed>>

\* Formatting fails (write_frame: 65536 bytes or more) when the buffer has
\* been handed out: write_pos stays advanced, size_ what it was.
WriteFailed ==
  /\ written < MaxWrites
  /\ Alloc
  /\ WriteBuffer(write_pos, IF buffers[write_pos] = Blank THEN Blank ELSE Garbled)
  /\ failed' = TRUE
  /\ UNCHANGED <<read_pos, is_data_sending, inflight, available, broken, received>>

--------------------------------------------------------------------------
(* send_handle *)

Rest ==
  /\ read_pos' = -1
  /\ write_pos' = 0
  /\ is_data_sending' = FALSE

\* The next buffer is chosen but async_write is not called.
SendNext_Unstarted(w) ==
  IF read_pos + 1 >= write_pos
  THEN Rest /\ inflight' = inflight \ {w}
  ELSE /\ read_pos' = read_pos + 1
       /\ inflight' = inflight \ {w}
       /\ UNCHANGED <<write_pos, is_data_sending>>

\* The last buffer is left out.
SendNext_OneLess(w) ==
  IF read_pos + 2 >= write_pos
  THEN Rest /\ inflight' = inflight \ {w}
  ELSE /\ read_pos' = read_pos + 1
       /\ inflight' = (inflight \ {w}) \cup
            {[at |-> read_pos + 1, content |-> buffers[read_pos + 1]]}
       /\ UNCHANGED <<write_pos, is_data_sending>>

\* The completion of w: the queue is empty, or the buffer at ++read_pos_ is sent.
SendNext(w) ==
  IF read_pos + 1 >= write_pos
  THEN Rest /\ inflight' = inflight \ {w}
  ELSE /\ read_pos' = read_pos + 1
       /\ inflight' = (inflight \ {w}) \cup
            {[at |-> read_pos + 1, content |-> buffers[read_pos + 1]]}
       /\ UNCHANGED <<write_pos, is_data_sending>>

Sent(w) ==
  /\ w \in inflight
  /\ ~broken
  /\ received' = IF buffers[w.at] = Blank THEN received
                 ELSE Append(received, buffers[w.at])
  /\ SendNext(w)
  /\ UNCHANGED <<size, buffers, available, broken, written, failed>>

SendError(w) ==
  /\ w \in inflight
  /\ inflight' = inflight \ {w}
  /\ Rest
  /\ broken' = TRUE
  /\ UNCHANGED <<size, buffers, available, written, received, failed>>

SendHandle == \E w \in inflight : Sent(w) \/ SendError(w)

\* game_client::disconnect: async_shutdown, after which writes fail.
Disconnect ==
  /\ available
  /\ available' = FALSE
  /\ UNCHANGED <<size, buffers, write_pos, read_pos, is_data_sending, inflight,
                 broken, written, received, failed>>

--------------------------------------------------------------------------
Init ==
  /\ size = InitialSize
  /\ buffers = [i \in Index |-> Blank]
  /\ write_pos = 0 /\ read_pos = -1 /\ is_data_sending = FALSE
  /\ inflight = {}
  /\ available = TRUE /\ broken = FALSE
  /\ written = 0 /\ received = <<>> /\ failed = FALSE

Next == Write \/ WriteRefused \/ WriteFailed \/ SendHandle \/ Disconnect

Spec == Init /\ [][Next]_vars

\* asio completes every async_write, if with an error.
FairSpec == Spec /\ WF_vars(SendHandle)

--------------------------------------------------------------------------
(* Safety *)

\* "Never start a second async_write before the first has ended"
\* (ws_client.cpp:369), for all callers together and also when formatting fails
\* or a send breaks; and while one is pending read_pos_ says so, which keeps
\* the destroy list from freeing the buffer it reads.
OneWriteAtATime ==
  /\ Cardinality(inflight) <= 1
  /\ is_data_sending <=> inflight # {}
  /\ read_pos = -1 <=> inflight = {}

\* No caller is given the buffer that a pending async_write reads, however
\* often the queue starts again at its first buffer.
InFlightUntouched ==
  \A w \in inflight : /\ w.at < write_pos
                      /\ buffers[w.at] = w.content

--------------------------------------------------------------------------
(* MessageStream, until a message cannot be formatted *)

pending == IF read_pos = -1 THEN {}
           ELSE {buffers[i] : i \in read_pos..(write_pos - 1)}

Stream == INSTANCE MessageStream

\* The buffers that are used again and again, filled by many threads and
\* emptied by callbacks, are a first-in-first-out queue: what alloc accepts
\* reaches the peer once and in its turn, until the connection breaks.  After a
\* failure to format read_pos_ and write_pos_ may disagree, and nothing is said.
ImplementsStream == Stream!Init /\ [][failed' \/ Stream!Next]_(Stream!svars)

\* What was accepted is sent or the connection breaks: the chain of callbacks
\* does not stop while a buffer waits.
AcceptedIsSent ==
  \A m \in 1..MaxWrites :
    m \in pending ~> broken \/ failed \/ \E i \in DOMAIN received : received[i] = m

============================================================================
