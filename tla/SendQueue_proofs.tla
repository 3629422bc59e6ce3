-------------------------- MODULE SendQueue_proofs --------------------------
(* Theorems about SendQueue, for every size of the queue and any number of
   messages: its invariants also when formatting fails, and that it implements
   MessageStream when it does not.                                          *)
EXTENDS SendQueue, FiniteSetTheorems, TLAPS

\* Either nothing is being sent, or one async_write reads a buffer between the
\* read and the write position, with the content it started with.
AtRest == read_pos = -1 /\ inflight = {} /\ is_data_sending = FALSE
Sending == \E w \in inflight :
             /\ inflight = {w}
             /\ 0 <= read_pos /\ read_pos <= w.at /\ w.at < write_pos
             /\ w.content = buffers[w.at]
             /\ is_data_sending = TRUE

QueueInv == TypeOK /\ (AtRest \/ Sending)

\* The positions of a queue at rest are in their ranges.
LEMMA RestRange == /\ -1 \in -1..MAX_BUFFER_SEQUENCE_SIZE
                   /\ \A n \in Nat : 0 \in 0..n
  BY SendQueueAssumption

\* What one call of write does to the positions and the transmission.
LEMMA AllocAndSend ==
  ASSUME QueueInv, Alloc, NEW m \in Content,
         buffers' = [buffers EXCEPT ![write_pos] = m],
         written' = written + 1, written < MaxWrites,
         UNCHANGED <<available, broken, received>>, failed' \in BOOLEAN,
         SendFirst(write_pos, m) \/ UNCHANGED <<read_pos, inflight, is_data_sending>>
  PROVE  QueueInv'
<1> USE SendQueueAssumption
<1>1. write_pos \in Index /\ size' \in 0..MAX_BUFFER_SEQUENCE_SIZE /\ write_pos' \in 0..size'
  BY DEF QueueInv, TypeOK, Alloc, CanAlloc, Index
<1>2. buffers' \in [Index -> Content] /\ buffers'[write_pos] = m
  BY <1>1 DEF QueueInv, TypeOK
<1>3. \A i \in Index : i < write_pos => buffers'[i] = buffers[i]
  BY <1>1 DEF QueueInv, TypeOK, Index
<1>4. CASE UNCHANGED <<read_pos, inflight, is_data_sending>>
  <2>1. TypeOK'
    BY <1>1, <1>2, <1>4 DEF QueueInv, TypeOK
  <2>2. CASE AtRest
    BY <2>1, <2>2, <1>4 DEF QueueInv, AtRest
  <2>3. CASE Sending
    <3>1. PICK w \in inflight : Sending!(w)
      BY <2>3 DEF Sending
    <3>2. w.at \in Index
      BY DEF QueueInv, TypeOK
    <3>3. w.at < write_pos'
      BY <3>1, <3>2 DEF Alloc, QueueInv, TypeOK, Index
    <3>4. Sending'
      BY <3>1, <3>2, <3>3, <1>3, <1>4 DEF Sending
    <3> QED BY <3>4, <2>1 DEF QueueInv
  <2> QED BY <2>2, <2>3 DEF QueueInv
<1>5. CASE SendFirst(write_pos, m) /\ read_pos = -1
  <2> DEFINE v == [at |-> write_pos, content |-> m]
  <2>1. AtRest
    BY <1>5 DEF QueueInv, Sending
  <2>2. inflight' = {v} /\ read_pos' = 0 /\ is_data_sending' = TRUE
    BY <1>5, <2>1 DEF SendFirst, AtRest
  <2>3. v \in [at: Index, content: Content]
    BY <1>1
  <2>4. TypeOK'
    BY <1>1, <1>2, <2>2, <2>3 DEF QueueInv, TypeOK
  <2>5. Sending'
    BY <1>1, <1>2, <2>2 DEF Sending, Alloc, QueueInv, TypeOK, Index
  <2> QED BY <2>4, <2>5 DEF QueueInv
<1> QED BY <1>4, <1>5 DEF SendFirst

\* The end of a transmission: the queue rests, or goes on with the next buffer.
LEMMA SendNextStep ==
  ASSUME QueueInv, NEW w \in inflight, SendNext(w),
         UNCHANGED <<size, buffers, available, written, failed>>,
         received' \in Seq(Content \ {Blank}), broken' \in BOOLEAN
  PROVE  QueueInv'
<1> USE SendQueueAssumption
<1>1. inflight = {w} /\ 0 <= read_pos /\ is_data_sending = TRUE
  BY DEF QueueInv, AtRest, Sending
<1>2. CASE read_pos + 1 >= write_pos
  <2>1. Rest /\ inflight' = {}
    BY <1>1, <1>2 DEF SendNext
  <2>2. TypeOK'
    <3>1. read_pos' \in -1..MAX_BUFFER_SEQUENCE_SIZE /\ write_pos' \in 0..size'
      BY <2>1, RestRange DEF QueueInv, TypeOK, Rest
    <3> QED BY <2>1, <3>1 DEF QueueInv, TypeOK, Rest
  <2>3. AtRest'
    BY <2>1 DEF AtRest, Rest
  <2> QED BY <2>2, <2>3 DEF QueueInv
<1>3. CASE ~(read_pos + 1 >= write_pos)
  <2> DEFINE v == [at |-> read_pos + 1, content |-> buffers[read_pos + 1]]
  <2>1. /\ read_pos' = read_pos + 1 /\ inflight' = {v}
        /\ UNCHANGED <<write_pos, is_data_sending>>
    BY <1>1, <1>3 DEF SendNext
  <2>2. read_pos + 1 \in Index /\ read_pos + 1 < write_pos
    BY <1>1, <1>3 DEF QueueInv, TypeOK, Index
  <2>3. v \in [at: Index, content: Content]
    BY <2>2 DEF QueueInv, TypeOK
  <2>4. TypeOK'
    BY <2>1, <2>2, <2>3 DEF QueueInv, TypeOK, Index
  <2>5. Sending'
    BY <1>1, <2>1, <2>2 DEF Sending, Index
  <2> QED BY <2>4, <2>5 DEF QueueInv
<1> QED BY <1>2, <1>3

LEMMA QueueInvInit == Init => QueueInv
<1> SUFFICES ASSUME Init PROVE QueueInv
  OBVIOUS
<1> USE SendQueueAssumption
<1>1. TypeOK
  <2>1. buffers \in [Index -> Content]
    BY DEF Init, Content, Blank
  <2>2. size \in 0..MAX_BUFFER_SEQUENCE_SIZE /\ write_pos \in 0..size
    BY DEF Init
  <2>3. read_pos \in -1..MAX_BUFFER_SEQUENCE_SIZE
    BY RestRange DEF Init
  <2>4. received \in Seq(Content \ {Blank})
    BY DEF Init
  <2>5. written \in 0..MaxWrites
    BY RestRange DEF Init
  <2>6. inflight \subseteq [at: Index, content: Content]
    BY DEF Init
  <2> QED BY <2>1, <2>2, <2>3, <2>4, <2>5, <2>6 DEF Init, TypeOK
<1>2. AtRest
  BY DEF Init, AtRest
<1> QED BY <1>1, <1>2 DEF QueueInv

LEMMA QueueInvStep == QueueInv /\ [Next]_vars => QueueInv'
<1> SUFFICES ASSUME QueueInv, [Next]_vars PROVE QueueInv'
  OBVIOUS
<1> USE SendQueueAssumption
<1>1. CASE Write
  <2>1. written + 1 \in Content
    BY <1>1 DEF Write, QueueInv, TypeOK, Content
  <2>2. failed' \in BOOLEAN
    BY <1>1 DEF Write, QueueInv, TypeOK
  <2> QED BY <1>1, <2>1, <2>2, AllocAndSend DEF Write, WriteBuffer
<1>2. CASE WriteRefused
  <2>1. TypeOK'
    BY <1>2 DEF WriteRefused, QueueInv, TypeOK
  <2>2. (AtRest \/ Sending)'
    BY <1>2 DEF WriteRefused, QueueInv, AtRest, Sending
  <2> QED BY <2>1, <2>2 DEF QueueInv
<1>3. CASE WriteFailed
  <2> DEFINE m == IF buffers[write_pos] = Blank THEN Blank ELSE Garbled
  <2>1. m \in Content
    BY DEF Content, Blank, Garbled
  <2> QED BY <1>3, <2>1, AllocAndSend DEF WriteFailed, WriteBuffer
<1>4. CASE SendHandle
  <2>1. PICK w \in inflight : Sent(w) \/ SendError(w)
    BY <1>4 DEF SendHandle
  <2>2. CASE Sent(w)
    <3>1. buffers[w.at] \in Content
      BY DEF QueueInv, TypeOK
    <3>2. received' \in Seq(Content \ {Blank})
      BY <2>2, <3>1 DEF Sent, QueueInv, TypeOK
    <3>3. broken' \in BOOLEAN
      BY <2>2 DEF Sent, QueueInv, TypeOK
    <3> QED BY <2>2, <3>2, <3>3, SendNextStep DEF Sent
  <2>3. CASE SendError(w)
    <3>1. inflight' = {}
      BY <2>3 DEF SendError, QueueInv, AtRest, Sending
    <3>2. TypeOK'
      <4>1. read_pos' \in -1..MAX_BUFFER_SEQUENCE_SIZE /\ write_pos' \in 0..size'
        BY <2>3, RestRange DEF SendError, QueueInv, TypeOK, Rest
      <4> QED BY <2>3, <3>1, <4>1 DEF SendError, Rest, QueueInv, TypeOK
    <3>3. AtRest'
      BY <2>3, <3>1 DEF SendError, Rest, AtRest
    <3> QED BY <3>2, <3>3 DEF QueueInv
  <2> QED BY <2>1, <2>2, <2>3
<1>5. CASE Disconnect
  BY <1>5 DEF Disconnect, QueueInv, TypeOK, AtRest, Sending
<1>6. CASE UNCHANGED vars
  BY <1>6 DEF vars, QueueInv, TypeOK, AtRest, Sending
<1> QED BY <1>1, <1>2, <1>3, <1>4, <1>5, <1>6 DEF Next

THEOREM QueueInductive == Spec => []QueueInv
  BY QueueInvInit, QueueInvStep, PTL DEF Spec

\* Type correctness of the send queue: no position leaves the buffers.
THEOREM QueueTypeCorrect == Spec => []TypeOK
<1>1. QueueInv => TypeOK
  BY DEF QueueInv
<1> QED BY <1>1, QueueInductive, PTL

\* One async_write at a time, known to the destroy list, whatever fails.
THEOREM WritesOneAtATime == Spec => []OneWriteAtATime
<1>1. QueueInv => OneWriteAtATime
  <2> SUFFICES ASSUME QueueInv PROVE OneWriteAtATime
    OBVIOUS
  <2>1. CASE AtRest
    BY <2>1, FS_EmptySet DEF AtRest, OneWriteAtATime
  <2>2. CASE Sending
    <3>1. PICK w \in inflight : Sending!(w)
      BY <2>2 DEF Sending
    <3>2. Cardinality(inflight) = 1
      BY <3>1, FS_Singleton
    <3> QED BY <3>1, <3>2 DEF OneWriteAtATime
  <2> QED BY <2>1, <2>2 DEF QueueInv
<1> QED BY <1>1, QueueInductive, PTL

\* The buffer that is being sent is never handed out to be filled.
THEOREM BufferIsNotOverwritten == Spec => []InFlightUntouched
<1>1. QueueInv => InFlightUntouched
  BY DEF QueueInv, AtRest, Sending, InFlightUntouched
<1> QED BY <1>1, QueueInductive, PTL

--------------------------------------------------------------------------
(* MessageStream.  When formatting never fails the queue starts at buffer 0,
   the transmission is at the read position, and the buffers between the
   positions hold messages in the order in which they were written.        *)

InOrder ==
  /\ read_pos = -1 => write_pos = 0
  /\ \A w \in inflight : w.at = read_pos
  /\ read_pos # -1 =>
       /\ \A i \in read_pos..(write_pos - 1) : buffers[i] \in 1..written
       /\ \A i, j \in read_pos..(write_pos - 1) : i < j => buffers[i] < buffers[j]

StreamInv == QueueInv /\ (failed \/ InOrder)

LEMMA WriteAccepts ==
  ASSUME StreamInv, ~failed, Write
  PROVE  InOrder' /\ Stream!Accept
<1> USE SendQueueAssumption
<1>1. /\ write_pos' = write_pos + 1 /\ written' = written + 1
      /\ write_pos \in Index /\ write_pos \in Nat /\ written \in Nat
      /\ buffers' = [buffers EXCEPT ![write_pos] = written + 1]
      /\ buffers \in [Index -> Content]
  BY DEF Write, Alloc, CanAlloc, WriteBuffer, StreamInv, QueueInv, TypeOK, Index
<1>2. buffers'[write_pos] = written + 1 /\ \A i \in Index : i < write_pos => buffers'[i] = buffers[i]
  BY <1>1 DEF Index
<1>3. CASE read_pos = -1
  <2>1. write_pos = 0 /\ inflight = {}
    BY <1>3 DEF StreamInv, InOrder, QueueInv, AtRest, Sending
  <2>2. read_pos' = 0 /\ inflight' = {[at |-> 0, content |-> written + 1]}
    BY <1>3, <2>1 DEF Write, SendFirst
  <2>3. read_pos'..(write_pos' - 1) = {0}
    BY <1>1, <2>1, <2>2
  <2>4. InOrder'
    BY <1>1, <1>2, <2>1, <2>2, <2>3 DEF InOrder
  <2>5. pending = {} /\ pending' = {written + 1}
    BY <1>2, <1>3, <2>1, <2>2, <2>3 DEF pending
  <2> QED BY <1>1, <2>4, <2>5 DEF Stream!Accept, Write
<1>4. CASE read_pos # -1
  <2>1. /\ read_pos \in Nat /\ read_pos < write_pos
        /\ UNCHANGED <<read_pos, inflight>>
    BY <1>4 DEF Write, SendFirst, StreamInv, QueueInv, TypeOK, AtRest, Sending, Index
  <2>2. \A i \in read_pos..(write_pos - 1) :
          i \in Index /\ i < write_pos /\ buffers'[i] = buffers[i]
    BY <1>1, <1>2, <2>1 DEF Index
  <2>3. read_pos'..(write_pos' - 1) = read_pos..(write_pos - 1) \cup {write_pos}
    BY <1>1, <2>1
  <2>4. \A i \in read_pos..(write_pos - 1) : buffers[i] \in 1..written
    BY <1>4 DEF StreamInv, InOrder
  <2>5. \A i \in read_pos'..(write_pos' - 1) : buffers'[i] \in 1..written'
    BY <1>1, <1>2, <2>2, <2>3, <2>4
  <2>6. \A i, j \in read_pos'..(write_pos' - 1) : i < j => buffers'[i] < buffers'[j]
    <3> SUFFICES ASSUME NEW i \in read_pos'..(write_pos' - 1),
                        NEW j \in read_pos'..(write_pos' - 1), i < j
                 PROVE  buffers'[i] < buffers'[j]
      OBVIOUS
    <3>1. i \in read_pos..(write_pos - 1)
      BY <1>1, <2>1
    <3>2. CASE j = write_pos
      BY <3>1, <3>2, <2>2, <2>4, <1>1, <1>2
    <3>3. CASE j # write_pos
      BY <3>1, <3>3, <2>2, <2>3, <1>4 DEF StreamInv, InOrder
    <3> QED BY <3>2, <3>3
  <2>7. InOrder'
    BY <1>1, <1>4, <2>1, <2>5, <2>6 DEF StreamInv, InOrder
  <2>8. pending' = pending \cup {written + 1}
    BY <1>2, <1>4, <2>1, <2>2, <2>3 DEF pending
  <2> QED BY <1>1, <2>7, <2>8 DEF Stream!Accept, Write
<1> QED BY <1>3, <1>4

LEMMA SentDelivers ==
  ASSUME StreamInv, ~failed, NEW w \in inflight, Sent(w)
  PROVE  InOrder' /\ Stream!Deliver
<1> USE SendQueueAssumption
<1>1. /\ inflight = {w} /\ w.at = read_pos /\ read_pos \in Nat /\ write_pos \in Nat
      /\ read_pos < write_pos /\ written \in Nat
  BY DEF StreamInv, InOrder, QueueInv, TypeOK, AtRest, Sending, Index
<1>2. /\ \A i \in read_pos..(write_pos - 1) : buffers[i] \in 1..written
      /\ \A i, j \in read_pos..(write_pos - 1) : i < j => buffers[i] < buffers[j]
  BY <1>1 DEF StreamInv, InOrder
<1> DEFINE m == buffers[read_pos]
<1>3. m \in 1..written /\ \A i \in read_pos..(write_pos - 1) : i # read_pos => m < buffers[i]
  BY <1>1, <1>2
<1>4. pending = {buffers[i] : i \in read_pos..(write_pos - 1)}
  BY <1>1 DEF pending
<1>5. received' = Append(received, m)
  BY <1>1, <1>3 DEF Sent, Blank
<1>6. m \in pending /\ \A k \in pending : m <= k
  BY <1>1, <1>2, <1>3, <1>4
<1>7. InOrder' /\ pending' = pending \ {m}
  <2>1. CASE read_pos + 1 >= write_pos
    <3>1. read_pos' = -1 /\ write_pos' = 0 /\ inflight' = {}
      BY <1>1, <2>1 DEF Sent, SendNext, Rest
    <3>2. read_pos..(write_pos - 1) = {read_pos}
      BY <1>1, <2>1
    <3> QED BY <1>4, <3>1, <3>2 DEF InOrder, pending
  <2>2. CASE ~(read_pos + 1 >= write_pos)
    <3>1. /\ read_pos' = read_pos + 1 /\ write_pos' = write_pos
          /\ inflight' = {[at |-> read_pos + 1, content |-> buffers[read_pos + 1]]}
          /\ buffers' = buffers /\ written' = written
      BY <1>1, <2>2 DEF Sent, SendNext
    <3>2. read_pos..(write_pos - 1) = {read_pos} \cup (read_pos'..(write_pos' - 1))
      BY <1>1, <2>2, <3>1
    <3>3. read_pos \notin read_pos'..(write_pos' - 1)
      BY <1>1, <3>1
    <3>4. InOrder'
      BY <1>1, <1>2, <3>1, <3>2 DEF InOrder
    <3>5. pending' = {buffers[i] : i \in read_pos'..(write_pos' - 1)}
      BY <1>1, <3>1 DEF pending
    <3>6. m \notin pending'
      BY <1>1, <1>3, <3>2, <3>3, <3>5
    <3> QED BY <1>4, <3>2, <3>4, <3>5, <3>6
  <2> QED BY <2>1, <2>2
<1>8. written' = written
  BY DEF Sent
<1> QED BY <1>5, <1>6, <1>7, <1>8 DEF Stream!Deliver

LEMMA StreamInvInit == Init => StreamInv /\ Stream!Init
<1> SUFFICES ASSUME Init PROVE StreamInv /\ Stream!Init
  OBVIOUS
<1>1. QueueInv
  BY QueueInvInit
<1>2. InOrder
  BY DEF Init, InOrder
<1>3. Stream!Init
  BY DEF Init, Stream!Init, pending
<1> QED BY <1>1, <1>2, <1>3 DEF StreamInv

LEMMA StreamInvStep ==
  StreamInv /\ [Next]_vars => StreamInv' /\ [failed' \/ Stream!Next]_(Stream!svars)
<1> SUFFICES ASSUME StreamInv, [Next]_vars, ~failed'
             PROVE  InOrder' /\ [Stream!Next]_(Stream!svars)
  BY QueueInvStep DEF StreamInv
<1>0. ~failed
  BY DEF Next, Write, WriteRefused, WriteFailed, SendHandle, Sent, SendError,
         Disconnect, vars
<1>1. CASE Write
  BY <1>0, <1>1, WriteAccepts DEF Stream!Next
<1>2. CASE WriteRefused
  <2>1. InOrder'
    <3>1. written \in Nat /\ written' = written + 1
      BY <1>2, SendQueueAssumption DEF WriteRefused, StreamInv, QueueInv, TypeOK
    <3> QED BY <1>0, <1>2, <3>1 DEF WriteRefused, StreamInv, InOrder
  <2>2. Stream!Refuse
    BY <1>2 DEF WriteRefused, Stream!Refuse, pending
  <2> QED BY <2>1, <2>2 DEF Stream!Next
<1>3. CASE WriteFailed
  BY <1>3 DEF WriteFailed
<1>4. CASE SendHandle
  <2>1. PICK w \in inflight : Sent(w) \/ SendError(w)
    BY <1>4 DEF SendHandle
  <2>2. CASE Sent(w)
    BY <1>0, <2>2, SentDelivers DEF Stream!Next
  <2>3. CASE SendError(w)
    <3>1. inflight' = {} /\ read_pos' = -1 /\ write_pos' = 0
      BY <2>3 DEF SendError, Rest, StreamInv, QueueInv, AtRest, Sending
    <3>2. InOrder'
      BY <3>1 DEF InOrder
    <3>3. Stream!Break
      BY <2>3, <3>1 DEF SendError, Stream!Break, pending
    <3> QED BY <3>2, <3>3 DEF Stream!Next
  <2> QED BY <2>1, <2>2, <2>3
<1>5. CASE Disconnect
  BY <1>0, <1>5 DEF Disconnect, StreamInv, InOrder, Stream!svars, pending
<1>6. CASE UNCHANGED vars
  BY <1>0, <1>6 DEF vars, StreamInv, InOrder, Stream!svars, pending
<1> QED BY <1>1, <1>2, <1>3, <1>4, <1>5, <1>6 DEF Next

\* Until a message cannot be formatted the queue is a first-in-first-out
\* stream: every step of it is one of MessageStream or leaves it unchanged.
THEOREM StreamImplemented == Spec => ImplementsStream
<1>1. Init => StreamInv /\ Stream!Init
  BY StreamInvInit
<1>2. StreamInv /\ [Next]_vars =>
        StreamInv' /\ [failed' \/ Stream!Next]_(Stream!svars)
  BY StreamInvStep
<1> QED BY <1>1, <1>2, PTL DEF Spec, ImplementsStream

--------------------------------------------------------------------------
(* What follows for the peer, and for the message that waits.              *)

\* What has reached the peer, and what has been accepted and not, are messages
\* of callers; the peer has them in the order of the calls, and none twice.
PeerInOrder ==
  /\ received \in Seq(1..written)
  /\ pending \subseteq 1..written
  /\ \A i, j \in 1..Len(received) : i < j => received[i] < received[j]
  /\ \A i \in 1..Len(received), m \in pending : received[i] < m

\* Until a message cannot be formatted.
OnceInOrder == failed \/ PeerInOrder

\* While a message waits the oldest of them is what the pending async_write
\* sends.
SendsTheOldest ==
  \/ failed
  \/ pending = {}
  \/ \E w \in inflight : w.content \in pending /\ \A m \in pending : w.content <= m

LEMMA OrderInit == Stream!Init => PeerInOrder
<1> SUFFICES ASSUME Stream!Init PROVE PeerInOrder
  OBVIOUS
<1>1. received = <<>> /\ pending = {} /\ written = 0
  BY DEF Stream!Init
<1>2. Len(received) = 0 /\ 1..0 = {}
  BY <1>1
<1> QED BY <1>1, <1>2 DEF PeerInOrder

LEMMA OrderStep ==
  ASSUME PeerInOrder, written \in Nat, [Stream!Next]_(Stream!svars)
  PROVE  PeerInOrder'
<1>1. Len(received) \in Nat /\ \A i \in 1..Len(received) : received[i] \in 1..written
  BY DEF PeerInOrder
<1>2. CASE Stream!Accept
  <2>1. /\ written' = written + 1 /\ received' = received
        /\ pending' = pending \cup {written + 1}
    BY <1>2 DEF Stream!Accept
  <2>2. received \in Seq(1..(written + 1)) /\ 1..written \subseteq 1..(written + 1)
    BY <1>1 DEF PeerInOrder
  <2>3. \A i \in 1..Len(received) : received[i] < written + 1
    BY <1>1
  <2> QED BY <2>1, <2>2, <2>3 DEF PeerInOrder
<1>3. CASE Stream!Refuse
  <2>1. written' = written + 1 /\ received' = received /\ pending' = pending
    BY <1>3 DEF Stream!Refuse
  <2>2. received \in Seq(1..(written + 1)) /\ 1..written \subseteq 1..(written + 1)
    BY <1>1 DEF PeerInOrder
  <2> QED BY <2>1, <2>2 DEF PeerInOrder
<1>4. CASE Stream!Deliver
  <2>1. PICK m \in pending : /\ \A k \in pending : m <= k
                             /\ pending' = pending \ {m}
                             /\ received' = Append(received, m)
                             /\ written' = written
    BY <1>4 DEF Stream!Deliver
  <2>2. m \in 1..written /\ pending \subseteq 1..written
    BY DEF PeerInOrder
  <2>3. received' \in Seq(1..written) /\ Len(received') = Len(received) + 1
    BY <2>1, <2>2 DEF PeerInOrder
  <2>4. /\ \A i \in 1..Len(received) : received'[i] = received[i] /\ received[i] < m
        /\ received'[Len(received) + 1] = m
    BY <1>1, <2>1 DEF PeerInOrder
  <2>5. \A i, j \in 1..Len(received') : i < j => received'[i] < received'[j]
    <3> SUFFICES ASSUME NEW i \in 1..Len(received'), NEW j \in 1..Len(received'), i < j
                 PROVE  received'[i] < received'[j]
      OBVIOUS
    <3>1. i \in 1..Len(received)
      BY <1>1, <2>3
    <3>2. CASE j = Len(received) + 1
      BY <2>4, <3>1, <3>2
    <3>3. CASE j # Len(received) + 1
      <4>1. j \in 1..Len(received)
        <5>1. \A n \in Nat : \A k \in 1..(n + 1) : k # n + 1 => k \in 1..n
          OBVIOUS
        <5> QED BY <1>1, <2>3, <3>3, <5>1
      <4>2. received[i] < received[j]
        BY <3>1, <4>1 DEF PeerInOrder
      <4> QED BY <2>4, <3>1, <4>1, <4>2
    <3> QED BY <3>2, <3>3
  <2>6. \A i \in 1..Len(received'), k \in pending' : received'[i] < k
    <3> SUFFICES ASSUME NEW i \in 1..Len(received'), NEW k \in pending'
                 PROVE  received'[i] < k
      OBVIOUS
    <3>1. k \in pending /\ m < k
      BY <2>1, <2>2
    <3>2. CASE i = Len(received) + 1
      BY <2>4, <3>1, <3>2
    <3>3. CASE i # Len(received) + 1
      <4>1. i \in 1..Len(received)
        <5>1. \A n \in Nat : \A l \in 1..(n + 1) : l # n + 1 => l \in 1..n
          OBVIOUS
        <5> QED BY <1>1, <2>3, <3>3, <5>1
      <4>2. received[i] < k
        BY <3>1, <4>1 DEF PeerInOrder
      <4> QED BY <2>4, <4>1, <4>2
    <3> QED BY <3>2, <3>3
  <2> QED BY <2>1, <2>2, <2>3, <2>5, <2>6 DEF PeerInOrder
<1>5. CASE Stream!Break
  BY <1>5 DEF Stream!Break, PeerInOrder
<1>6. CASE UNCHANGED Stream!svars
  <2>1. written' = written /\ received' = received /\ pending' = pending
    BY <1>6 DEF Stream!svars
  <2> QED BY <2>1 DEF PeerInOrder
<1> QED BY <1>2, <1>3, <1>4, <1>5, <1>6 DEF Stream!Next

LEMMA FailedStays == [Next]_vars => (failed => failed')
BY DEF Next, Write, WriteRefused, WriteFailed, SendHandle, Sent, SendError,
       Disconnect, vars

\* The peer gets every message at most once and in the order in which the
\* callers of write got the lock, however often the buffers were used again;
\* and what still waits is later than all it has.
THEOREM DeliveredOnceInOrder == Spec => []OnceInOrder
<1>1. Init => StreamInv /\ OnceInOrder
  BY StreamInvInit, OrderInit DEF OnceInOrder
<1>2. StreamInv /\ OnceInOrder /\ [Next]_vars => StreamInv' /\ OnceInOrder'
  <2> SUFFICES ASSUME StreamInv, OnceInOrder, [Next]_vars, ~failed'
               PROVE  PeerInOrder'
    BY StreamInvStep DEF OnceInOrder
  <2>1. ~failed /\ PeerInOrder
    BY FailedStays DEF OnceInOrder
  <2>2. [Stream!Next]_(Stream!svars)
    BY StreamInvStep
  <2>3. written \in Nat
    BY SendQueueAssumption DEF StreamInv, QueueInv, TypeOK
  <2> QED BY <2>1, <2>2, <2>3, OrderStep
<1> QED BY <1>1, <1>2, PTL DEF Spec

\* The chain of callbacks never stops while a message waits: the async_write
\* that is pending is the one for the message that was accepted first.
THEOREM OldestIsBeingSent == Spec => []SendsTheOldest
<1>1. StreamInv => SendsTheOldest
  <2> SUFFICES ASSUME StreamInv, ~failed, pending # {}
               PROVE  \E w \in inflight : /\ w.content \in pending
                                          /\ \A m \in pending : w.content <= m
    BY DEF SendsTheOldest
  <2>1. read_pos # -1 /\ InOrder
    BY DEF pending, StreamInv
  <2>2. Sending
    BY <2>1 DEF StreamInv, QueueInv, AtRest
  <2>3. PICK w \in inflight : /\ w.at < write_pos /\ buffers[w.at] = w.content
                              /\ w.at = read_pos
    BY <2>1, <2>2 DEF Sending, InOrder
  <2>4. read_pos \in Int /\ write_pos \in Int
    BY SendQueueAssumption DEF StreamInv, QueueInv, TypeOK
  <2>5. pending = {buffers[i] : i \in read_pos..(write_pos - 1)}
    BY <2>1 DEF pending
  <2>6. read_pos \in read_pos..(write_pos - 1)
    BY <2>3, <2>4
  <2>7. \A i \in read_pos..(write_pos - 1) : i = read_pos \/ read_pos < i
    BY <2>4
  <2>8. \A i \in read_pos..(write_pos - 1) : buffers[i] \in Nat /\ buffers[read_pos] <= buffers[i]
    <3>1. \A i \in read_pos..(write_pos - 1) : buffers[i] \in 1..written
      BY <2>1 DEF InOrder
    <3>2. written \in Nat
      BY SendQueueAssumption DEF StreamInv, QueueInv, TypeOK
    <3>3. \A i, j \in read_pos..(write_pos - 1) : i < j => buffers[i] < buffers[j]
      BY <2>1 DEF InOrder
    <3> QED BY <2>6, <2>7, <3>1, <3>2, <3>3
  <2> QED BY <2>3, <2>5, <2>6, <2>8
<1>2. Spec => []StreamInv
  <2>1. Init => StreamInv
    BY StreamInvInit
  <2>2. StreamInv /\ [Next]_vars => StreamInv'
    BY StreamInvStep
  <2> QED BY <2>1, <2>2, PTL DEF Spec
<1> QED BY <1>1, <1>2, PTL
=============================================================================
