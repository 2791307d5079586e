------------------------------ MODULE Transfer ------------------------------
(***************************************************************************)
(* networks/partb: one message sent in numbered chunks over UDP, with      *)
(* acknowledgments and retransmission.  datasequencing.c is the sender,    *)
(* retransmissions.c the receiver.                                         *)
(*                                                                         *)
(* The two run on one host (127.0.0.1): datagrams arrive in order and      *)
(* once, but one may be dropped, and is when a socket buffer is full.      *)
(*                                                                         *)
(* A chunk's eight bytes are two halves.  The last chunk is short when the *)
(* length of the message is no multiple of CHUNK_SIZE: then only its first *)
(* half is sent.                                                           *)
(***************************************************************************)
EXTENDS Integers, Sequences

CONSTANTS
  MaxChunks,   \* bound: the longest message
  Buffer,      \* bound: datagrams the receiver's socket holds
  Lose         \* the kinds of datagram the network may drop

ASSUME SizeAssumption == MaxChunks \in Nat /\ Buffer \in Nat \ {0}
ASSUME NetAssumption == Lose \subseteq {"total", "chunk", "ack"}

Seqs   == 0..MaxChunks - 1
NoData == -1       \* bytes that are not there: NULs, or a null chunks[] entry
Junk   == -2       \* bytes of an uninitialized buffer
Bytes  == Seqs \cup {NoData, Junk}

VARIABLES
  n, short,       \* the message the user types: total_chunks, and is the last one short?
  spc, sseq,      \* the sender: where it is, and seq of its loops
  arr, clean,     \* chunks acknowledged; all_ack_received
  rpc, total,     \* the receiver: where it is, and its total_chunks
  packet,         \* the bytes of its packet buffer
  chunks, chunks_received, acked_chunks, flag,
  toR, toS        \* the datagrams on their way, oldest first

sender   == <<n, short, spc, sseq, arr, clean>>
receiver == <<rpc, total, packet, chunks, chunks_received, acked_chunks, flag>>
vars     == <<sender, receiver, toR, toS>>

TypeOK ==
  /\ n \in 0..MaxChunks /\ short \in BOOLEAN
  /\ spc \in {"wait", "send", "loop", "done", "failed"}
  /\ sseq \in 0..MaxChunks
  /\ arr \in [Seqs -> BOOLEAN] /\ clean \in BOOLEAN
  /\ rpc \in {"start", "connect", "total", "recv", "done", "failed"}
  /\ total \in 0..MaxChunks
  /\ packet \in Bytes \X Bytes
  /\ chunks \in [Seqs -> Bytes \X Bytes]
  /\ chunks_received \in 0..MaxChunks
  /\ acked_chunks \in [Seqs -> BOOLEAN] /\ flag \in BOOLEAN
  /\ Len(toR) <= Buffer

Init ==
  /\ n \in 0..MaxChunks
  /\ short \in BOOLEAN /\ (short => n > 0)
  /\ spc = "wait" /\ sseq = 0
  /\ arr = [i \in Seqs |-> FALSE] /\ clean = TRUE
  /\ rpc = "start" /\ total = 0
  /\ packet = <<Junk, Junk>>
  /\ chunks = [i \in Seqs |-> <<NoData, NoData>>]
  /\ chunks_received = 0
  /\ acked_chunks = [i \in Seqs |-> FALSE] /\ flag = FALSE
  /\ toR = <<>> /\ toS = <<>>

-----------------------------------------------------------------------------
(* The network.                                                            *)

\* The two halves of chunk i as the sender cuts them out of the message.
Data(i) == <<i, IF short /\ i = n - 1 THEN NoData ELSE i>>

Total    == [kind |-> "total", seq |-> n, data |-> <<NoData, NoData>>]
Chunk(i) == [kind |-> "chunk", seq |-> i, data |-> Data(i)]

Arrives(m) == Len(toR) < Buffer /\ toR' = Append(toR, m)
Dropped(m) == (m.kind \in Lose \/ Len(toR) = Buffer) /\ UNCHANGED toR

-----------------------------------------------------------------------------
(* The sender.                                                             *)

\* wait_for_receiver(): "CONNECT" arrives without its NUL in an uninitialized
\* buffer, so strcmp may find the two equal or not.
AcceptReceiver ==
  /\ spc = "wait" /\ toS # <<>>
  /\ toS' = Tail(toS)
  /\ \/ spc' = "send" /\ toR' = Append(toR, [kind |-> "accept", seq |-> 0, data |-> <<Junk, Junk>>])
     \/ spc' = "failed" /\ UNCHANGED toR
  /\ UNCHANGED <<n, short, sseq, arr, clean, receiver>>

\* The number of chunks goes out first; sseq counts it and then the chunks.
SendTotal ==
  /\ spc = "send" /\ sseq = 0
  /\ Arrives(Total) \/ Dropped(Total)
  /\ IF n = 0 THEN spc' = "loop" /\ UNCHANGED sseq ELSE sseq' = 1 /\ UNCHANGED spc
  /\ UNCHANGED <<n, short, arr, clean, receiver, toS>>

\* Step 1 of send_message(): every chunk, without waiting.
SendChunk ==
  /\ spc = "send" /\ sseq > 0
  /\ Arrives(Chunk(sseq - 1)) \/ Dropped(Chunk(sseq - 1))
  /\ IF sseq = n
     THEN spc' = "loop" /\ sseq' = 0
     ELSE sseq' = sseq + 1 /\ UNCHANGED spc
  /\ UNCHANGED <<n, short, arr, clean, receiver, toS>>

\* Mutant: an acknowledgment is taken for the chunk the loop stands at.
TakeAckInOrder(a) == arr' = [arr EXCEPT ![sseq] = TRUE]

\* The acknowledgment marks the chunk it names.
TakeAck(a) == arr' = [arr EXCEPT ![a] = TRUE]

\* Step 2: wait for an acknowledgment, or for the timeout.
AwaitAck ==
  \/ /\ toS # <<>> /\ toS' = Tail(toS)
     /\ TakeAck(Head(toS).seq)
  \/ /\ toS = <<>>
     /\ UNCHANGED <<arr, toS>>

\* Then send the chunk the loop stands at again, unless it is acknowledged now.
Resend(i) ==
  IF arr'[i] THEN UNCHANGED toR ELSE Arrives(Chunk(i)) \/ Dropped(Chunk(i))

\* One iteration of the loop over the chunks.
SenderStep ==
  /\ spc = "loop" /\ sseq < n
  /\ IF arr[sseq]
     THEN UNCHANGED <<arr, clean, toS, toR>>
     ELSE clean' = FALSE /\ AwaitAck /\ Resend(sseq)
  /\ sseq' = sseq + 1
  /\ UNCHANGED <<n, short, spc, receiver>>

\* A pass that met no unacknowledged chunk ends the program.
SenderPass ==
  /\ spc = "loop" /\ sseq = n
  /\ IF clean THEN spc' = "done" /\ UNCHANGED <<sseq, clean>>
              ELSE sseq' = 0 /\ clean' = TRUE /\ UNCHANGED spc
  /\ UNCHANGED <<n, short, arr, receiver, toR, toS>>

-----------------------------------------------------------------------------
(* The receiver.                                                           *)

Connect ==
  /\ rpc = "start"
  /\ toS' = Append(toS, [kind |-> "connect", seq |-> 0])
  /\ rpc' = "connect"
  /\ UNCHANGED <<sender, total, packet, chunks, chunks_received, acked_chunks, flag, toR>>

\* initiate_connection(): "ACK" arrives without its NUL too.
Connected ==
  /\ rpc = "connect" /\ toR # <<>>
  /\ toR' = Tail(toR)
  /\ rpc' \in {"total", "failed"}
  /\ UNCHANGED <<sender, total, packet, chunks, chunks_received, acked_chunks, flag, toS>>

\* The next datagram is taken for the number of chunks, whatever it is: its
\* first four bytes are total_chunks.
ReceiveTotal ==
  /\ rpc = "total" /\ toR # <<>>
  /\ toR' = Tail(toR)
  /\ total' = Head(toR).seq
  /\ rpc' = "recv"
  /\ UNCHANGED <<sender, packet, chunks, chunks_received, acked_chunks, flag, toS>>

\* Mutant: the loop ends when every chunk has come, acknowledged or not.
CompleteUnacked == chunks_received >= total

\* Mutant: the last chunk is not waited for.
CompleteEarly ==
  chunks_received + 1 >= total /\ \A i \in Seqs : i < total - 1 => acked_chunks[i]

\* The condition that ends the loop: all_chunks_acknowledged() and the count.
Complete ==
  chunks_received >= total /\ \A i \in Seqs : i < total => acked_chunks[i]

\* recvfrom overwrites as much of the packet buffer as the datagram has.
Overwrite(d) == <<d[1], IF d[2] = NoData THEN packet[2] ELSE d[2]>>

\* Keep the chunk if it is new: all CHUNK_SIZE bytes of the buffer.
Store(i) ==
  IF chunks[i][1] = NoData
  THEN /\ chunks' = [chunks EXCEPT ![i] = packet']
       /\ chunks_received' = chunks_received + 1
  ELSE UNCHANGED <<chunks, chunks_received>>

\* Every other acknowledgment is withheld, to simulate loss; the network may
\* lose the ones that are sent.
Acknowledge(i) ==
  /\ flag' = ~flag
  /\ IF flag
     THEN /\ acked_chunks' = [acked_chunks EXCEPT ![i] = TRUE]
          /\ \/ toS' = Append(toS, [kind |-> "ack", seq |-> i])
             \/ "ack" \in Lose /\ UNCHANGED toS
     ELSE UNCHANGED <<acked_chunks, toS>>

ReceiveChunk ==
  /\ rpc = "recv" /\ ~Complete /\ toR # <<>>
  /\ toR' = Tail(toR)
  /\ packet' = Overwrite(Head(toR).data)
  /\ Store(Head(toR).seq)
  /\ Acknowledge(Head(toR).seq)
  /\ UNCHANGED <<sender, rpc, total>>

\* The loop is over: the message is put together from chunks[0 .. total - 1].
Reconstruct ==
  /\ rpc = "recv" /\ Complete
  /\ rpc' = "done"
  /\ UNCHANGED <<sender, total, packet, chunks, chunks_received, acked_chunks, flag, toR, toS>>

-----------------------------------------------------------------------------

SenderNext   == AcceptReceiver \/ SendTotal \/ SendChunk \/ SenderStep \/ SenderPass
ReceiverNext == Connect \/ Connected \/ ReceiveTotal \/ ReceiveChunk \/ Reconstruct
Next == SenderNext \/ ReceiverNext

Spec == Init /\ [][Next]_vars

\* Both programs keep running, and a chunk that is sent again and again gets
\* through in the end.
FairSpec ==
  /\ Spec /\ WF_vars(SenderNext) /\ WF_vars(ReceiverNext)
  /\ \A i \in Seqs : SF_vars(SenderStep /\ sseq = i /\ Len(toR') > Len(toR))

-----------------------------------------------------------------------------
(* Properties.                                                             *)

\* The bytes that may stand behind a short last chunk: those of an uninitialized buffer,
\* or of a full chunk that came before it.
Padding == {Junk} \cup {i \in Seqs : i < n - 1}

\* What the receiver prints: as many chunks as the user typed, in order, and every byte
\* of them that was sent at its place, whatever was lost, withheld or sent twice.
\* Behind a short last chunk it prints what its packet buffer held.
Reassembled ==
  rpc = "done" =>
    /\ total = n
    /\ \A i \in Seqs :
         i < n => /\ chunks[i][1] = i
                  /\ chunks[i][2] \in IF Data(i)[2] = NoData THEN Padding ELSE {i}

\* "Reconstruct the message after all chunks are received" (retransmissions.c:109): what
\* is printed is the message and nothing else.  The code does not keep it when the last
\* chunk is short.
PrintsTheMessage ==
  rpc = "done" => total = n /\ \A i \in Seqs : i < n => chunks[i] = Data(i)

\* "All chunks acknowledged": the sender only ends when the receiver holds every
\* chunk, whatever was lost, withheld or sent twice on the way.
AcknowledgedIsStored ==
  /\ \A i \in Seqs : arr[i] => chunks[i][1] = i
  /\ spc = "done" => \A i \in Seqs : i < n => chunks[i][1] = i

\* Once they are connected, both programs end: no acknowledgment withheld, no
\* chunk dropped and no timeout too early leaves one of them waiting for ever.
Finishes == (rpc = "total") ~> (rpc = "done" /\ spc = "done")

=============================================================================
