--------------------------- MODULE TransferProofs ----------------------------
(***************************************************************************)
(* The chunked transfer of module Transfer, for any length of message, any *)
(* socket buffer and any loss.                                             *)
(***************************************************************************)
EXTENDS Transfer, FiniteSetTheorems, TLAPS

-----------------------------------------------------------------------------
(* The inductive invariant.                                                *)

\* The datagrams either way.
AcceptMsg  == [kind |-> "accept", seq |-> 0, data |-> <<Junk, Junk>>]
ConnectMsg == [kind |-> "connect", seq |-> 0]
Ack(i)     == [kind |-> "ack", seq |-> i]
Outgoing   == {AcceptMsg, Total} \cup {Chunk(i) : i \in 0..(n - 1)}
Incoming   == {ConnectMsg} \cup {Ack(i) : i \in 0..(n - 1)}

\* The chunks the receiver holds.
Stored == {i \in Seqs : chunks[i][1] # NoData}

\* TypeOK but for the count of chunks, and the types of the two queues.
TypeInv ==
  /\ n \in 0..MaxChunks /\ short \in BOOLEAN
  /\ spc \in {"wait", "send", "loop", "done", "failed"}
  /\ sseq \in 0..n
  /\ arr \in [Seqs -> BOOLEAN] /\ clean \in BOOLEAN
  /\ rpc \in {"start", "connect", "total", "recv", "done", "failed"}
  /\ total \in 0..MaxChunks
  /\ packet \in Bytes \X Bytes
  /\ chunks \in [Seqs -> Bytes \X Bytes]
  /\ acked_chunks \in [Seqs -> BOOLEAN] /\ flag \in BOOLEAN
  /\ toR \in Seq(Outgoing) /\ Len(toR) <= Buffer
  /\ toS \in Seq(Incoming)

\* Before the number of chunks has gone out.
BeforeTotal == spc = "send" /\ sseq = 0

\* The handshake orders the datagrams: first the acceptance, then the number of
\* chunks, then chunks; and the other way CONNECT, then acknowledgments.
OrderInv ==
  /\ spc = "wait" => /\ rpc \in {"start", "connect"} /\ toR = <<>>
                     /\ toS = IF rpc = "start" THEN <<>> ELSE <<ConnectMsg>>
  /\ spc # "wait" => /\ rpc # "start"
                     /\ \A k \in 1..Len(toS) : toS[k].kind = "ack"
  /\ spc = "failed" => rpc = "connect" /\ toR = <<>>
  /\ rpc = "connect" /\ spc \notin {"wait", "failed"} =>
       /\ Len(toR) >= 1
       /\ \A k \in 1..Len(toR) : k > 2 => toR[k].kind = "chunk"
       /\ BeforeTotal => Len(toR) = 1
  /\ rpc = "total" =>
       /\ \A k \in 1..Len(toR) : k > 1 => toR[k].kind = "chunk"
       /\ BeforeTotal => toR = <<>>
  /\ rpc \in {"recv", "done"} =>
       ~BeforeTotal /\ \A k \in 1..Len(toR) : toR[k].kind = "chunk"

\* What is stored under i is chunk i, once; what is acknowledged is stored, the
\* acknowledgments still on their way included.
StoreInv ==
  /\ \A i \in Seqs : /\ chunks[i][1] \in {NoData, i}
                     /\ acked_chunks[i] => chunks[i][1] = i
                     /\ arr[i] => chunks[i][1] = i
  /\ \A k \in 1..Len(toS) : toS[k].kind = "ack" => chunks[toS[k].seq][1] = toS[k].seq
  /\ chunks_received = Cardinality(Stored)

\* In a clean pass every chunk that has been passed is acknowledged.
PassInv ==
  /\ spc = "loop" /\ clean => \A i \in Seqs : i < sseq => arr[i]
  /\ spc = "done" => \A i \in Seqs : i < n => arr[i]

IInv == TypeInv /\ OrderInv /\ StoreInv /\ PassInv

\* When the number of chunks cannot be dropped, it is the datagram behind the
\* acceptance, and is taken for what it is.
PlaceInv ==
  /\ spc = "wait" => sseq = 0
  /\ rpc = "connect" /\ spc \in {"send", "loop", "done"} /\ ~BeforeTotal =>
       Len(toR) >= 2 /\ toR[2] = Total
  /\ rpc = "total" /\ ~BeforeTotal => Len(toR) >= 1 /\ toR[1] = Total
  /\ rpc \in {"recv", "done"} => total = n

\* The second half of a stored chunk is what was sent, or, behind a short one, what the
\* packet buffer held: never anything else as long as the short one is the last.
HalfInv ==
  /\ short => packet[2] \in Padding
  /\ \A i \in Seqs :
       chunks[i][1] = i => chunks[i][2] \in IF Data(i)[2] = NoData THEN Padding ELSE {i}

ExactInv == PlaceInv /\ HalfInv /\ (rpc = "done" => Complete)

-----------------------------------------------------------------------------
(* Queues and datagrams.                                                   *)

\* Taking the first datagram from a queue.
LEMMA Taken ==
  ASSUME NEW T, NEW q \in Seq(T), q # <<>>
  PROVE  /\ Len(q) \in Nat /\ Len(q) >= 1 /\ Head(q) = q[1] /\ Head(q) \in T
         /\ Tail(q) \in Seq(T) /\ Len(Tail(q)) = Len(q) - 1
         /\ \A k \in 1..(Len(q) - 1) : Tail(q)[k] = q[k + 1]
OBVIOUS

\* Putting a datagram at the end of a queue.
LEMMA Put ==
  ASSUME NEW T, NEW q \in Seq(T), NEW m \in T
  PROVE  /\ Append(q, m) \in Seq(T) /\ Len(q) \in Nat /\ Len(Append(q, m)) = Len(q) + 1
         /\ \A k \in 1..Len(q) : Append(q, m)[k] = q[k]
         /\ Append(q, m)[Len(q) + 1] = m
OBVIOUS

\* What the datagrams carry.
LEMMA Outgoings ==
  ASSUME n \in 0..MaxChunks
  PROVE  /\ AcceptMsg \in Outgoing /\ Total \in Outgoing
         /\ \A i \in 0..(n - 1) : Chunk(i) \in Outgoing /\ i \in Seqs
         /\ \A m \in Outgoing :
              /\ m.seq \in 0..MaxChunks
              /\ m.kind = "chunk" => m.seq \in Seqs /\ m.data = Data(m.seq)
         /\ AcceptMsg.kind = "accept" /\ Total.kind = "total" /\ Total.seq = n
         /\ \A i \in 0..(n - 1) : Chunk(i).kind = "chunk"
<1>1. \A i \in 0..(n - 1) : i \in Seqs
  BY SizeAssumption DEF Seqs
<1>2. \A i \in 0..(n - 1) : /\ Chunk(i).kind = "chunk" /\ Chunk(i).seq = i
                            /\ Chunk(i).data = Data(i)
  BY DEF Chunk
<1>3. /\ AcceptMsg.kind = "accept" /\ AcceptMsg.seq = 0
      /\ Total.kind = "total" /\ Total.seq = n
  BY DEF AcceptMsg, Total
<1>4. ASSUME NEW m \in Outgoing
      PROVE  /\ m.seq \in 0..MaxChunks
             /\ m.kind = "chunk" => m.seq \in Seqs /\ m.data = Data(m.seq)
  <2>1. CASE m = AcceptMsg \/ m = Total
    BY <1>3, <2>1, SizeAssumption
  <2>2. CASE \E i \in 0..(n - 1) : m = Chunk(i)
    BY <1>1, <1>2, <2>2, SizeAssumption
  <2>3. QED
    BY <2>1, <2>2 DEF Outgoing
<1>5. /\ AcceptMsg \in Outgoing /\ Total \in Outgoing
      /\ \A i \in 0..(n - 1) : Chunk(i) \in Outgoing
  BY DEF Outgoing
<1>6. QED
  BY <1>1, <1>2, <1>3, <1>4, <1>5

\* The kinds of datagram the receiver sends, with their sequence numbers.
LEMMA Incomings ==
  ASSUME n \in 0..MaxChunks
  PROVE  /\ ConnectMsg \in Incoming /\ ConnectMsg.kind = "connect"
         /\ \A i \in 0..(n - 1) : Ack(i) \in Incoming /\ Ack(i).kind = "ack" /\ Ack(i).seq = i
         /\ \A m \in Incoming : m.kind = "ack" => m.seq \in Seqs
<1>1. /\ ConnectMsg.kind = "connect"
      /\ \A i \in 0..(n - 1) : Ack(i).kind = "ack" /\ Ack(i).seq = i
  BY DEF ConnectMsg, Ack
<1>2. \A m \in Incoming : m.kind = "ack" => m.seq \in Seqs
  BY <1>1, SizeAssumption DEF Incoming, Seqs
<1>3. QED
  BY <1>1, <1>2 DEF Incoming

\* The datagrams of a run are those of its message.
LEMMA SameMessage ==
  ASSUME n' = n, short' = short
  PROVE  /\ Outgoing' = Outgoing /\ Incoming' = Incoming /\ Total' = Total
         /\ \A i : Data(i)' = Data(i)
<1>1. Total' = Total /\ (\A i : Data(i)' = Data(i)) /\ AcceptMsg' = AcceptMsg
  BY DEF Total, Data, AcceptMsg
<1>2. \A i : Chunk(i)' = Chunk(i)
  BY <1>1 DEF Chunk
<1>3. QED
  BY <1>1, <1>2 DEF Outgoing, Incoming

-----------------------------------------------------------------------------
(* Every step preserves the invariant.                                     *)

\* Initially no datagram has been sent and nothing is stored.
LEMMA InitInv ==
  ASSUME Init
  PROVE  IInv
<1>1. <<>> \in Seq(Outgoing) /\ <<>> \in Seq(Incoming) /\ Len(<<>>) = 0
  OBVIOUS
<1>2. packet \in Bytes \X Bytes /\ chunks \in [Seqs -> Bytes \X Bytes]
  BY DEF Init, Bytes
<1>3. TypeInv
  <2>1. /\ n \in 0..MaxChunks /\ short \in BOOLEAN
        /\ sseq \in 0..n /\ total \in 0..MaxChunks
    BY SizeAssumption DEF Init
  <2>2. arr \in [Seqs -> BOOLEAN] /\ acked_chunks \in [Seqs -> BOOLEAN]
    BY DEF Init
  <2>3. toR \in Seq(Outgoing) /\ toS \in Seq(Incoming) /\ Len(toR) <= Buffer
    BY <1>1, SizeAssumption DEF Init
  <2>4. /\ spc = "wait" /\ rpc = "start" /\ clean \in BOOLEAN /\ flag \in BOOLEAN
    BY DEF Init
  <2>5. QED
    BY <1>2, <2>1, <2>2, <2>3, <2>4 DEF TypeInv
<1>4. OrderInv /\ PassInv
  BY DEF Init, OrderInv, PassInv
<1>5. Stored = {}
  BY DEF Init, Stored
<1>6. StoreInv
  BY <1>5, FS_EmptySet DEF Init, StoreInv
<1>7. QED
  BY <1>3, <1>4, <1>6 DEF IInv

\* A step after which the receiver's store is what it was, and every
\* acknowledgment names a stored chunk as before.
LEMMA StoreFrame ==
  ASSUME StoreInv, UNCHANGED <<chunks, chunks_received, acked_chunks>>,
         \A i \in Seqs : arr'[i] => chunks[i][1] = i,
         \A k \in 1..Len(toS') : toS'[k].kind = "ack" => chunks[toS'[k].seq][1] = toS'[k].seq
  PROVE  StoreInv'
<1>1. Stored' = Stored
  BY DEF Stored
<1>2. QED
  BY <1>1 DEF StoreInv

\* The sender has the connection request, and answers it.
LEMMA AcceptStep ==
  ASSUME IInv, AcceptReceiver
  PROVE  IInv'
<1>1. /\ spc = "wait" /\ toS # <<>> /\ toS' = Tail(toS)
      /\ UNCHANGED <<n, short, sseq, arr, clean, rpc, total, packet, chunks, chunks_received,
                     acked_chunks, flag>>
      /\ \/ spc' = "send" /\ toR' = Append(toR, AcceptMsg)
         \/ spc' = "failed" /\ UNCHANGED toR
  BY DEF AcceptReceiver, receiver, AcceptMsg
<1>2. rpc = "connect" /\ toR = <<>> /\ toS = <<ConnectMsg>>
  BY <1>1 DEF IInv, OrderInv
<1>3. toS' = <<>> /\ (spc' = "send" => toR' = <<AcceptMsg>>)
  BY <1>1, <1>2
<1>4. TypeInv'
  <2>1. Outgoing' = Outgoing /\ Incoming' = Incoming
    BY <1>1, SameMessage
  <2>2. toS' \in Seq(Incoming)
    BY <1>3
  <2>3. toR' \in Seq(Outgoing) /\ Len(toR') <= Buffer
    <3>1. AcceptMsg \in Outgoing
      BY DEF Outgoing
    <3>2. CASE toR' = Append(toR, AcceptMsg)
      <4>1. Len(toR) = 0 /\ toR \in Seq(Outgoing)
        BY <1>2 DEF IInv, TypeInv
      <4>2. Append(toR, AcceptMsg) \in Seq(Outgoing) /\ Len(Append(toR, AcceptMsg)) = 1
        BY <3>1, <4>1, Put
      <4>3. QED
        BY <3>2, <4>2, SizeAssumption
    <3>3. CASE toR' = toR
      BY <3>3 DEF IInv, TypeInv
    <3>4. QED
      BY <1>1, <3>2, <3>3
  <2>5. spc' \in {"send", "failed"}
    BY <1>1
  <2>6. QED
    BY <1>1, <2>1, <2>2, <2>3, <2>5 DEF IInv, TypeInv
<1>5. OrderInv'
  BY <1>1, <1>2, <1>3 DEF OrderInv, BeforeTotal
<1>6. StoreInv'
  BY <1>1, <1>3, StoreFrame DEF IInv, StoreInv
<1>7. PassInv'
  BY <1>1 DEF PassInv
<1>8. QED
  BY <1>4, <1>5, <1>6, <1>7 DEF IInv

\* A datagram that the sender sends, from the number of chunks on, arrives behind
\* the others or not at all.
LEMMA SendFrame ==
  ASSUME IInv, n' = n, NEW m \in Outgoing, Arrives(m) \/ Dropped(m)
  PROVE  /\ toR' \in Seq(Outgoing) /\ Len(toR') <= Buffer
         /\ Len(toR') >= Len(toR) /\ Len(toR) \in Nat /\ Len(toR') \in Nat
         /\ Len(toR') <= Len(toR) + 1
         /\ \A k \in 1..Len(toR) : toR'[k] = toR[k]
         /\ \A k \in 1..Len(toR') : k > Len(toR) => toR'[k] = m
<1>1. toR \in Seq(Outgoing) /\ Len(toR) <= Buffer /\ Len(toR) \in Nat
  BY DEF IInv, TypeInv
<1>2. CASE Arrives(m)
  BY <1>1, <1>2, Put, SizeAssumption DEF Arrives
<1>3. CASE Dropped(m)
  BY <1>1, <1>3 DEF Dropped
<1>4. QED
  BY <1>2, <1>3

\* The number of chunks, and then the chunks, each once.
LEMMA SendStep ==
  ASSUME IInv, SendTotal \/ SendChunk
  PROVE  IInv'
<1>1. /\ spc = "send" /\ sseq' \in 0..n /\ spc' \in {"send", "loop"}
      /\ UNCHANGED <<n, short, arr, clean, rpc, total, packet, chunks, chunks_received,
                     acked_chunks, flag, toS>>
      /\ ~BeforeTotal' /\ (spc' = "loop" => sseq' = 0)
  BY DEF IInv, TypeInv, SendTotal, SendChunk, receiver, BeforeTotal
<1>2. PICK m \in Outgoing : /\ Arrives(m) \/ Dropped(m)
                            /\ IF BeforeTotal THEN m = Total ELSE m.kind = "chunk"
  <2>1. CASE SendTotal
    BY <2>1, Outgoings DEF SendTotal, BeforeTotal, IInv, TypeInv
  <2>2. CASE SendChunk
    <3>1. sseq - 1 \in 0..(n - 1)
      BY <2>2 DEF SendChunk, IInv, TypeInv
    <3>2. /\ Chunk(sseq - 1) \in Outgoing /\ Chunk(sseq - 1).kind = "chunk"
      BY <3>1, Outgoings DEF IInv, TypeInv
    <3>3. QED
      BY <2>2, <3>2 DEF SendChunk, BeforeTotal
  <2>3. QED
    BY <2>1, <2>2
<1>3. /\ toR' \in Seq(Outgoing) /\ Len(toR') <= Buffer
      /\ Len(toR') >= Len(toR) /\ Len(toR) \in Nat /\ Len(toR') \in Nat
      /\ Len(toR') <= Len(toR) + 1
      /\ \A k \in 1..Len(toR) : toR'[k] = toR[k]
      /\ \A k \in 1..Len(toR') : k > Len(toR) => toR'[k] = m
  BY <1>1, <1>2, SendFrame
<1>4. TypeInv'
  <2>1. Outgoing' = Outgoing /\ Incoming' = Incoming
    BY <1>1, SameMessage
  <2>2. QED
    BY <1>1, <1>3, <2>1 DEF IInv, TypeInv
<1>5. OrderInv'
  <2>1. rpc # "start"
    BY <1>1 DEF IInv, OrderInv
  <2>2. ASSUME rpc = "connect"
        PROVE  Len(toR') >= 1 /\ \A k \in 1..Len(toR') : k > 2 => toR'[k].kind = "chunk"
    BY <1>1, <1>2, <1>3, <2>2 DEF IInv, OrderInv
  <2>3. ASSUME rpc = "total"
        PROVE  \A k \in 1..Len(toR') : k > 1 => toR'[k].kind = "chunk"
    <3>1. BeforeTotal => Len(toR) = 0
      BY <2>3 DEF IInv, OrderInv
    <3>2. QED
      BY <1>1, <1>2, <1>3, <2>3, <3>1 DEF IInv, OrderInv
  <2>4. ASSUME rpc \in {"recv", "done"}
        PROVE  \A k \in 1..Len(toR') : toR'[k].kind = "chunk"
    BY <1>1, <1>2, <1>3, <2>4 DEF IInv, OrderInv
  <2>5. QED
    BY <1>1, <2>1, <2>2, <2>3, <2>4 DEF IInv, OrderInv
<1>6. StoreInv'
  BY <1>1, StoreFrame DEF IInv, StoreInv
<1>7. PassInv'
  BY <1>1 DEF PassInv, Seqs
<1>8. QED
  BY <1>4, <1>5, <1>6, <1>7 DEF IInv

\* One iteration over an unacknowledged chunk: perhaps an acknowledgment, perhaps
\* the chunk again.
LEMMA LoopStep ==
  ASSUME IInv, SenderStep
  PROVE  IInv'
<1>1. /\ spc = "loop" /\ sseq < n /\ sseq' = sseq + 1
      /\ UNCHANGED <<n, short, spc, rpc, total, packet, chunks, chunks_received, acked_chunks,
                     flag>>
  BY DEF SenderStep, receiver
<1>2. sseq \in 0..(n - 1) /\ sseq \in Seqs /\ sseq' \in 0..n /\ n \in 0..MaxChunks
  BY <1>1, Outgoings DEF IInv, TypeInv
<1>3. /\ rpc # "start" /\ (\A k \in 1..Len(toS) : toS[k].kind = "ack")
      /\ ~BeforeTotal /\ ~BeforeTotal'
  BY <1>1 DEF IInv, OrderInv, BeforeTotal
<1>4. Outgoing' = Outgoing /\ Incoming' = Incoming
  BY <1>1, SameMessage
<1>5. /\ toS' \in Seq(Incoming) /\ (\A k \in 1..Len(toS') : toS'[k].kind = "ack")
      /\ \A k \in 1..Len(toS') : chunks[toS'[k].seq][1] = toS'[k].seq
      /\ arr' \in [Seqs -> BOOLEAN] /\ \A i \in Seqs : arr[i] => arr'[i]
      /\ \A i \in Seqs : arr'[i] => chunks[i][1] = i
  <2>1. CASE arr' = arr /\ toS' = toS
    BY <1>3, <2>1 DEF IInv, TypeInv, StoreInv
  <2>2. CASE toS # <<>> /\ toS' = Tail(toS) /\ TakeAck(Head(toS).seq)
    <3>1. /\ toS' \in Seq(Incoming) /\ Len(toS') = Len(toS) - 1 /\ Len(toS) \in Nat
          /\ Head(toS) = toS[1] /\ Head(toS) \in Incoming /\ 1 \in 1..Len(toS)
          /\ \A k \in 1..Len(toS') : toS'[k] = toS[k + 1] /\ k + 1 \in 1..Len(toS)
      BY <2>2, Taken DEF IInv, TypeInv
    <3>2. Head(toS).seq \in Seqs /\ chunks[Head(toS).seq][1] = Head(toS).seq
      BY <1>2, <1>3, <3>1, Incomings DEF IInv, StoreInv
    <3>3. QED
      BY <1>3, <2>2, <3>1, <3>2 DEF IInv, TypeInv, StoreInv, TakeAck
  <2>3. QED
    BY <2>1, <2>2 DEF SenderStep, AwaitAck
<1>6. /\ toR' \in Seq(Outgoing) /\ Len(toR') <= Buffer
      /\ Len(toR') >= Len(toR) /\ Len(toR) \in Nat /\ Len(toR') \in Nat
      /\ \A k \in 1..Len(toR) : toR'[k] = toR[k]
      /\ \A k \in 1..Len(toR') : k > Len(toR) => toR'[k].kind = "chunk"
  <2>1. CASE toR' = toR
    BY <2>1 DEF IInv, TypeInv
  <2>2. CASE Arrives(Chunk(sseq)) \/ Dropped(Chunk(sseq))
    <3>1. Chunk(sseq) \in Outgoing /\ Chunk(sseq).kind = "chunk"
      BY <1>2, Outgoings
    <3>2. QED
      BY <1>1, <2>2, <3>1, SendFrame
  <2>3. QED
    BY <2>1, <2>2 DEF SenderStep, Resend
<1>7. clean' \in BOOLEAN /\ (clean' => clean /\ arr[sseq])
  BY DEF IInv, TypeInv, SenderStep
<1>8. TypeInv'
  BY <1>1, <1>2, <1>4, <1>5, <1>6, <1>7 DEF IInv, TypeInv
<1>9. OrderInv'
  BY <1>1, <1>3, <1>5, <1>6 DEF IInv, OrderInv
<1>10. StoreInv'
  BY <1>1, <1>5, StoreFrame DEF IInv
<1>11. PassInv'
  BY <1>1, <1>2, <1>5, <1>7 DEF IInv, PassInv, Seqs
<1>12. QED
  BY <1>8, <1>9, <1>10, <1>11 DEF IInv

\* The end of a pass, or of the program.
LEMMA PassStep ==
  ASSUME IInv, SenderPass
  PROVE  IInv'
<1>0. n \in 0..MaxChunks /\ sseq \in 0..n /\ 0 \in 0..n /\ clean \in BOOLEAN
  BY DEF IInv, TypeInv
<1>1. /\ spc = "loop" /\ sseq = n /\ spc' \in {"loop", "done"} /\ sseq' \in 0..n
      /\ clean' \in BOOLEAN /\ (spc' = "done" => clean) /\ (spc' = "loop" => sseq' = 0)
      /\ UNCHANGED <<n, short, arr, rpc, total, packet, chunks, chunks_received, acked_chunks,
                     flag, toR, toS>>
  <2>1. CASE clean
    BY <1>0, <2>1 DEF SenderPass, receiver
  <2>2. CASE ~clean
    BY <1>0, <2>2 DEF SenderPass, receiver
  <2>3. QED
    BY <2>1, <2>2
<1>2. TypeInv'
  BY <1>1, SameMessage DEF IInv, TypeInv
<1>3. OrderInv'
  BY <1>1 DEF IInv, OrderInv, BeforeTotal
<1>4. StoreInv'
  BY <1>1, StoreFrame DEF IInv, StoreInv
<1>5. PassInv'
  BY <1>1 DEF IInv, PassInv, Seqs
<1>6. QED
  BY <1>2, <1>3, <1>4, <1>5 DEF IInv

\* CONNECT.
LEMMA ConnectStep ==
  ASSUME IInv, Connect
  PROVE  IInv'
<1>1. /\ rpc = "start" /\ toS' = Append(toS, ConnectMsg) /\ rpc' = "connect"
      /\ UNCHANGED <<n, short, spc, sseq, arr, clean, total, packet, chunks, chunks_received,
                     acked_chunks, flag, toR>>
  BY DEF Connect, sender, ConnectMsg
<1>2. spc = "wait" /\ toS = <<>> /\ toR = <<>>
  BY <1>1 DEF IInv, OrderInv
<1>3. toS' = <<ConnectMsg>>
  BY <1>1, <1>2
<1>4. TypeInv'
  <2>1. ConnectMsg \in Incoming
    BY DEF Incoming
  <2>2. toS' \in Seq(Incoming)
    BY <1>3, <2>1
  <2>3. QED
    BY <1>1, <2>2, SameMessage DEF IInv, TypeInv
<1>5. OrderInv'
  BY <1>1, <1>2, <1>3 DEF OrderInv, BeforeTotal
<1>6. StoreInv'
  <2>1. \A k \in 1..Len(toS') : toS'[k].kind # "ack"
    BY <1>3 DEF ConnectMsg
  <2>2. QED
    BY <1>1, <2>1, StoreFrame DEF IInv, StoreInv
<1>7. PassInv'
  BY <1>1, <1>2 DEF PassInv
<1>8. QED
  BY <1>4, <1>5, <1>6, <1>7 DEF IInv

\* The first two datagrams: the acceptance and the number of chunks.
LEMMA HandshakeStep ==
  ASSUME IInv, Connected \/ ReceiveTotal
  PROVE  IInv'
<1>1. /\ toR # <<>> /\ toR' = Tail(toR)
      /\ UNCHANGED <<n, short, spc, sseq, arr, clean, packet, chunks, chunks_received,
                     acked_chunks, flag, toS>>
      /\ \/ rpc = "connect" /\ rpc' \in {"total", "failed"} /\ total' = total
         \/ rpc = "total" /\ rpc' = "recv" /\ total' = Head(toR).seq
  BY DEF Connected, ReceiveTotal, sender
<1>2. /\ toR' \in Seq(Outgoing) /\ Len(toR') = Len(toR) - 1 /\ Len(toR) \in Nat
      /\ Len(toR) >= 1 /\ Head(toR) \in Outgoing
      /\ \A k \in 1..Len(toR') : toR'[k] = toR[k + 1] /\ k + 1 \in 1..Len(toR)
  BY <1>1, Taken DEF IInv, TypeInv
<1>3. spc # "wait" /\ spc # "failed"
  BY <1>1 DEF IInv, OrderInv
<1>4. TypeInv'
  <2>1. Head(toR).seq \in 0..MaxChunks
    BY <1>2, Outgoings DEF IInv, TypeInv
  <2>2. Len(toR') <= Buffer
    BY <1>2, SizeAssumption DEF IInv, TypeInv
  <2>3. total' \in 0..MaxChunks /\ rpc' \in {"total", "failed", "recv"}
    BY <1>1, <2>1 DEF IInv, TypeInv
  <2>4. QED
    BY <1>1, <1>2, <2>2, <2>3, SameMessage DEF IInv, TypeInv
<1>5. OrderInv'
  <2>1. ASSUME rpc = "connect"
        PROVE  /\ \A k \in 1..Len(toR') : k > 1 => toR'[k].kind = "chunk"
               /\ BeforeTotal => Len(toR') = 0
    BY <1>2, <1>3, <2>1 DEF IInv, OrderInv
  <2>2. ASSUME rpc = "total"
        PROVE  ~BeforeTotal /\ \A k \in 1..Len(toR') : toR'[k].kind = "chunk"
    BY <1>1, <1>2, <2>2 DEF IInv, OrderInv
  <2>3. Len(toR') = 0 => toR' = <<>>
    BY <1>2
  <2>4. BeforeTotal' <=> BeforeTotal
    BY <1>1 DEF BeforeTotal
  <2>5. rpc' # "start" /\ \A k \in 1..Len(toS') : toS'[k].kind = "ack"
    BY <1>1, <1>3 DEF IInv, OrderInv
  <2>6. QED
    BY <1>1, <1>3, <2>1, <2>2, <2>3, <2>4, <2>5 DEF OrderInv
<1>6. StoreInv'
  BY <1>1, StoreFrame DEF IInv, StoreInv
<1>7. PassInv'
  BY <1>1 DEF IInv, PassInv
<1>8. QED
  BY <1>4, <1>5, <1>6, <1>7 DEF IInv

\* A chunk arrives: it is stored under its own number if it is new, and perhaps
\* acknowledged.
LEMMA ReceiveStep ==
  ASSUME IInv, ReceiveChunk
  PROVE  IInv'
<1> DEFINE i == Head(toR).seq
<1>1. /\ rpc = "recv" /\ toR # <<>> /\ toR' = Tail(toR)
      /\ packet' = Overwrite(Head(toR).data) /\ Store(i) /\ Acknowledge(i)
      /\ UNCHANGED <<n, short, spc, sseq, arr, clean, rpc, total>>
  BY DEF ReceiveChunk, sender
<1>2. /\ toR' \in Seq(Outgoing) /\ Len(toR') = Len(toR) - 1 /\ Len(toR) \in Nat
      /\ Len(toR) >= 1 /\ Head(toR) \in Outgoing /\ Head(toR) = toR[1] /\ 1 \in 1..Len(toR)
      /\ \A k \in 1..Len(toR') : toR'[k] = toR[k + 1] /\ k + 1 \in 1..Len(toR)
  BY <1>1, Taken DEF IInv, TypeInv
<1>3. Head(toR).kind = "chunk"
  BY <1>1, <1>2 DEF IInv, OrderInv
<1>4. i \in Seqs /\ Head(toR).data = Data(i) /\ n \in 0..MaxChunks
  BY <1>2, <1>3, Outgoings DEF IInv, TypeInv
<1>5. i \in 0..(n - 1)
  <2>1. \A m \in Outgoing : m.kind = "chunk" => m.seq \in 0..(n - 1)
    BY DEF Outgoing, AcceptMsg, Total, Chunk
  <2>2. QED
    BY <1>2, <1>3, <2>1
<1>6. packet' \in Bytes \X Bytes /\ packet'[1] = i /\ i # NoData
  <2>1. /\ Data(i)[1] = i /\ Data(i)[2] \in Bytes
    BY <1>4 DEF Data, Bytes
  <2>2. i # NoData
    BY <1>4, SizeAssumption DEF NoData, Seqs
  <2>3. packet[2] \in Bytes /\ i \in Bytes
    BY <1>4 DEF IInv, TypeInv, Bytes
  <2>4. packet' = <<i, IF Data(i)[2] = NoData THEN packet[2] ELSE Data(i)[2]>>
    BY <1>1, <1>4, <2>1 DEF Overwrite
  <2>5. QED
    BY <2>1, <2>2, <2>3, <2>4
<1>7. /\ chunks' \in [Seqs -> Bytes \X Bytes] /\ chunks'[i][1] = i
      /\ \A j \in Seqs : /\ j # i => chunks'[j] = chunks[j]
                         /\ chunks[j][1] = j => chunks'[j] = chunks[j]
                         /\ chunks'[j][1] \in {NoData, j}
  <2>1. \A j \in Seqs : j # NoData
    BY SizeAssumption DEF NoData, Seqs
  <2>2. CASE chunks[i][1] = NoData
    BY <1>1, <1>4, <1>6, <2>1, <2>2 DEF IInv, TypeInv, StoreInv, Store
  <2>3. CASE chunks[i][1] # NoData
    BY <1>1, <1>4, <2>3 DEF IInv, TypeInv, StoreInv, Store
  <2>4. QED
    BY <2>2, <2>3
<1>8. /\ acked_chunks' \in [Seqs -> BOOLEAN] /\ flag' \in BOOLEAN
      /\ \A j \in Seqs : acked_chunks'[j] => acked_chunks[j] \/ j = i
  BY <1>1, <1>4 DEF IInv, TypeInv, Acknowledge
<1>9. spc # "wait" /\ spc # "failed" /\ ~BeforeTotal /\ \A k \in 1..Len(toS) : toS[k].kind = "ack"
  BY <1>1 DEF IInv, OrderInv
<1>10. /\ toS' \in Seq(Incoming) /\ Len(toS) \in Nat
       /\ \A k \in 1..Len(toS') : /\ toS'[k].kind = "ack"
                                  /\ toS'[k].seq = i \/ \E l \in 1..Len(toS) : toS'[k] = toS[l]
  <2>1. toS \in Seq(Incoming)
    BY DEF IInv, TypeInv
  <2>2. CASE toS' = toS
    BY <1>9, <2>1, <2>2
  <2>3. CASE toS' = Append(toS, Ack(i))
    <3>1. Ack(i) \in Incoming /\ Ack(i).kind = "ack" /\ Ack(i).seq = i
      BY <1>4, <1>5, Incomings
    <3>2. /\ toS' \in Seq(Incoming) /\ Len(toS) \in Nat /\ Len(toS') = Len(toS) + 1
          /\ \A k \in 1..Len(toS) : toS'[k] = toS[k]
          /\ toS'[Len(toS) + 1] = Ack(i)
      BY <2>1, <2>3, <3>1, Put
    <3>3. \A k \in 1..Len(toS') : k \in 1..Len(toS) \/ k = Len(toS) + 1
      BY <3>2
    <3>4. QED
      BY <1>9, <3>1, <3>2, <3>3
  <2>4. QED
    BY <1>1, <2>2, <2>3 DEF Acknowledge, Ack
<1>11. TypeInv'
  <2>1. Len(toR') <= Buffer
    BY <1>2, SizeAssumption DEF IInv, TypeInv
  <2>2. UNCHANGED <<n, short, spc, sseq, arr, clean, rpc, total>>
    BY <1>1
  <2>3. QED
    BY <1>2, <1>6, <1>7, <1>8, <1>10, <2>1, <2>2, SameMessage DEF IInv, TypeInv
<1>12. OrderInv'
  <2>1. ~BeforeTotal'
    BY <1>1, <1>9 DEF BeforeTotal
  <2>2. \A k \in 1..Len(toR') : toR'[k].kind = "chunk"
    BY <1>1, <1>2 DEF IInv, OrderInv
  <2>3. QED
    BY <1>1, <1>9, <1>10, <2>1, <2>2 DEF OrderInv
<1>13. StoreInv'
  <2>1. \A j \in Seqs : /\ acked_chunks'[j] => chunks'[j][1] = j
                        /\ arr'[j] => chunks'[j][1] = j
    BY <1>1, <1>7, <1>8 DEF IInv, StoreInv
  <2>2. \A k \in 1..Len(toS') : chunks'[toS'[k].seq][1] = toS'[k].seq
    <3>1. SUFFICES ASSUME NEW k \in 1..Len(toS')
                   PROVE  chunks'[toS'[k].seq][1] = toS'[k].seq
      OBVIOUS
    <3>2. CASE toS'[k].seq = i
      BY <1>7, <3>2
    <3>3. ASSUME NEW l \in 1..Len(toS), toS'[k] = toS[l]
          PROVE  chunks'[toS'[k].seq][1] = toS'[k].seq
      <4>1. toS[l].seq \in Seqs
        BY <1>4, <1>9, Incomings DEF IInv, TypeInv
      <4>2. chunks[toS[l].seq][1] = toS[l].seq
        BY <1>9 DEF IInv, StoreInv
      <4>3. QED
        BY <1>7, <3>3, <4>1, <4>2
    <3>4. QED
      BY <1>10, <3>2, <3>3
  <2>3. chunks_received' = Cardinality(Stored')
    <3>1. IsFiniteSet(Stored)
      <4>1. IsFiniteSet(Seqs)
        BY SizeAssumption, FS_Interval DEF Seqs
      <4>2. Stored \in SUBSET Seqs
        BY DEF Stored
      <4>3. QED
        BY <4>1, <4>2, FS_Subset
    <3>2. CASE chunks[i][1] = NoData
      <4>1. chunks_received' = chunks_received + 1
        BY <1>1, <3>2 DEF Store
      <4>2. Stored' = Stored \cup {i} /\ i \notin Stored
        BY <1>4, <1>6, <1>7, <3>2 DEF Stored
      <4>3. QED
        BY <3>1, <4>1, <4>2, FS_AddElement DEF IInv, StoreInv
    <3>3. CASE chunks[i][1] # NoData
      BY <1>1, <3>3 DEF IInv, StoreInv, Store, Stored
    <3>4. QED
      BY <3>2, <3>3
  <2>4. QED
    BY <1>7, <2>1, <2>2, <2>3 DEF StoreInv
<1>14. PassInv'
  BY <1>1 DEF IInv, PassInv
<1>15. QED
  BY <1>11, <1>12, <1>13, <1>14 DEF IInv

\* The message is complete.
LEMMA ReconstructStep ==
  ASSUME IInv, Reconstruct
  PROVE  IInv'
<1>1. /\ rpc = "recv" /\ rpc' = "done"
      /\ UNCHANGED <<n, short, spc, sseq, arr, clean, total, packet, chunks, chunks_received,
                     acked_chunks, flag, toR, toS>>
  BY DEF Reconstruct, sender
<1>2. TypeInv' /\ PassInv'
  BY <1>1, SameMessage DEF IInv, TypeInv, PassInv
<1>3. OrderInv'
  BY <1>1 DEF IInv, OrderInv, BeforeTotal
<1>4. StoreInv'
  BY <1>1, StoreFrame DEF IInv, StoreInv
<1>5. QED
  BY <1>2, <1>3, <1>4 DEF IInv

\* IInv is inductive.
LEMMA NextInv ==
  ASSUME IInv, [Next]_vars
  PROVE  IInv'
<1>1. CASE UNCHANGED vars
  <2>1. UNCHANGED <<n, short, spc, sseq, arr, clean, rpc, total, packet, chunks, chunks_received,
                    acked_chunks, flag, toR, toS>>
    BY <1>1 DEF vars, sender, receiver
  <2>2. StoreInv'
    BY <2>1, StoreFrame DEF IInv, StoreInv
  <2>3. QED
    BY <2>1, <2>2, SameMessage DEF IInv, TypeInv, OrderInv, BeforeTotal, PassInv
<1>2. QED
  BY <1>1, AcceptStep, SendStep, LoopStep, PassStep, ConnectStep, HandshakeStep, ReceiveStep,
     ReconstructStep DEF Next, SenderNext, ReceiverNext

\* The invariant holds in every reachable state.
LEMMA Invariance == Spec => []IInv
<1>1. Init => IInv
  BY InitInv
<1>2. IInv /\ [Next]_vars => IInv'
  BY NextInv
<1>3. QED
  BY <1>1, <1>2, PTL DEF Spec

-----------------------------------------------------------------------------
(* What follows from it.                                                   *)

\* Both programs' variables keep their types; in particular chunks_received counts
\* every chunk once, however often it comes, and no index leaves the arrays.
THEOREM TypeCorrect == Spec => []TypeOK
<1>1. ASSUME IInv
      PROVE  chunks_received \in 0..MaxChunks
  <2>1. IsFiniteSet(Seqs) /\ Cardinality(Seqs) = MaxChunks
    BY SizeAssumption, FS_Interval DEF Seqs
  <2>2. Stored \in SUBSET Seqs
    BY DEF Stored
  <2>3. Cardinality(Stored) \in Nat /\ Cardinality(Stored) <= MaxChunks
    BY <2>1, <2>2, FS_Subset, FS_CardinalityType
  <2>4. QED
    BY <1>1, <2>3, SizeAssumption DEF IInv, StoreInv
<1>2. IInv => TypeOK
  <2>1. ASSUME IInv
        PROVE  sseq \in 0..MaxChunks
    BY <2>1, SizeAssumption DEF IInv, TypeInv
  <2>2. QED
    BY <1>1, <2>1 DEF IInv, TypeInv, TypeOK
<1>3. QED
  BY <1>2, Invariance, PTL

\* The sender only ends when the receiver holds every chunk, whatever the network
\* drops, however many acknowledgments are withheld, for messages of any length.
THEOREM AllAcknowledgedAreStored == Spec => []AcknowledgedIsStored
<1>1. IInv => AcknowledgedIsStored
  BY DEF IInv, StoreInv, PassInv, AcknowledgedIsStored
<1>2. QED
  BY <1>1, Invariance, PTL

-----------------------------------------------------------------------------
(* The message, where the number of chunks gets through.                   *)

\* The number of chunks keeps its place.
LEMMA PlaceNext ==
  ASSUME "total" \notin Lose, Buffer > 1, IInv, PlaceInv, Next
  PROVE  PlaceInv'
<1>1. /\ toR \in Seq(Outgoing) /\ Len(toR) \in Nat /\ n \in 0..MaxChunks
      /\ Buffer \in Nat
  BY SizeAssumption DEF IInv, TypeInv
<1>2. n' = n /\ Total' = Total
  <2>1. n' = n /\ short' = short
    BY DEF Next, SenderNext, ReceiverNext, AcceptReceiver, SendTotal, SendChunk, SenderStep,
      SenderPass, Connect, Connected, ReceiveTotal, ReceiveChunk, Reconstruct, sender
  <2>2. QED
    BY <2>1, SameMessage
<1>3. CASE AcceptReceiver
  <2>1. /\ rpc = "connect" /\ spc = "wait" /\ sseq' = sseq /\ spc' \in {"send", "failed"}
        /\ rpc' = rpc
    BY <1>3 DEF IInv, OrderInv, AcceptReceiver, receiver
  <2>2. QED
    BY <2>1 DEF PlaceInv, BeforeTotal
<1>4. CASE SendTotal
  <2>1. /\ spc = "send" /\ sseq = 0 /\ spc' \in {"send", "loop"} /\ UNCHANGED <<rpc, total>>
        /\ Arrives(Total) \/ Dropped(Total)
    BY <1>4 DEF SendTotal, receiver
  <2>2. rpc \notin {"recv", "done"}
    BY <2>1 DEF IInv, OrderInv, BeforeTotal
  <2>3. ASSUME rpc \in {"connect", "total"}
        PROVE  toR' = Append(toR, Total) /\ Len(toR) = IF rpc = "connect" THEN 1 ELSE 0
    <3>1. Len(toR) = IF rpc = "connect" THEN 1 ELSE 0
      BY <2>1, <2>3 DEF IInv, OrderInv, BeforeTotal
    <3>2. Len(toR) # Buffer /\ Total.kind = "total"
      BY <1>1, <3>1 DEF Total
    <3>3. QED
      BY <2>1, <3>1, <3>2 DEF Arrives, Dropped
  <2>4. ASSUME rpc \in {"connect", "total"}
        PROVE  Len(toR') = Len(toR) + 1 /\ toR'[Len(toR) + 1] = Total
    BY <1>1, <2>3, <2>4, Put, Outgoings
  <2>5. QED
    BY <1>2, <2>1, <2>2, <2>3, <2>4 DEF PlaceInv
<1>5. CASE SendChunk \/ SenderStep
  <2>1. /\ UNCHANGED <<rpc, total>> /\ ~BeforeTotal
        /\ spc \in {"send", "loop"} /\ spc' \in {"send", "loop"}
    BY <1>5 DEF SendChunk, SenderStep, receiver, BeforeTotal, IInv, TypeInv
  <2>2. Len(toR') >= Len(toR) /\ Len(toR') \in Nat /\ \A k \in 1..Len(toR) : toR'[k] = toR[k]
    <3>1. CASE toR' = toR
      BY <1>1, <3>1
    <3>2. ASSUME NEW j \in 0..(n - 1), Arrives(Chunk(j)) \/ Dropped(Chunk(j))
          PROVE  /\ Len(toR') >= Len(toR) /\ Len(toR') \in Nat
                 /\ \A k \in 1..Len(toR) : toR'[k] = toR[k]
      <4>1. Chunk(j) \in Outgoing
        BY <1>1, Outgoings
      <4>2. QED
        BY <1>2, <3>2, <4>1, SendFrame
    <3>3. CASE SendChunk
      <4>1. sseq - 1 \in 0..(n - 1)
        BY <3>3 DEF SendChunk, IInv, TypeInv
      <4>2. QED
        BY <3>2, <3>3, <4>1 DEF SendChunk
    <3>4. CASE SenderStep
      <4>1. sseq \in 0..(n - 1)
        BY <3>4 DEF SenderStep, IInv, TypeInv
      <4>2. QED
        BY <3>1, <3>2, <3>4, <4>1 DEF SenderStep, Resend
    <3>5. QED
      BY <1>5, <3>3, <3>4
  <2>3. QED
    BY <1>1, <1>2, <2>1, <2>2 DEF PlaceInv
<1>6. CASE SenderPass
  <2>1. /\ UNCHANGED <<rpc, total, toR>> /\ ~BeforeTotal
        /\ spc = "loop" /\ spc' \in {"loop", "done"}
    BY <1>6 DEF SenderPass, receiver, BeforeTotal
  <2>2. QED
    BY <1>2, <2>1 DEF PlaceInv
<1>7. CASE Connect
  <2>1. spc = "wait" /\ rpc' = "connect" /\ spc' = spc /\ sseq' = sseq
    BY <1>7 DEF Connect, IInv, OrderInv, sender
  <2>2. QED
    BY <2>1 DEF PlaceInv
<1>8. CASE Connected \/ ReceiveTotal
  <2>1. /\ toR # <<>> /\ toR' = Tail(toR) /\ spc' = spc /\ sseq' = sseq
        /\ \/ rpc = "connect" /\ rpc' \in {"total", "failed"}
           \/ rpc = "total" /\ rpc' = "recv" /\ total' = Head(toR).seq
    BY <1>8 DEF Connected, ReceiveTotal, sender
  <2>2. /\ Len(toR') = Len(toR) - 1 /\ Len(toR) >= 1 /\ Head(toR) = toR[1]
        /\ \A k \in 1..Len(toR') : toR'[k] = toR[k + 1]
    BY <1>1, <2>1, Taken
  <2>3. spc \in {"send", "loop", "done"}
    BY <2>1 DEF IInv, TypeInv, OrderInv
  <2>4. BeforeTotal' <=> BeforeTotal
    BY <2>1 DEF BeforeTotal
  <2>5. rpc = "total" => ~BeforeTotal
    BY <2>1 DEF IInv, OrderInv
  <2>6. ASSUME rpc = "connect", ~BeforeTotal
        PROVE  Len(toR') >= 1 /\ toR'[1] = Total
    BY <1>1, <2>2, <2>3, <2>6 DEF PlaceInv
  <2>7. rpc = "total" => total' = n
    BY <2>1, <2>2, <2>5, <1>1, Outgoings DEF PlaceInv
  <2>8. QED
    BY <1>2, <2>1, <2>3, <2>4, <2>6, <2>7 DEF PlaceInv
<1>9. CASE ReceiveChunk \/ Reconstruct
  <2>1. /\ rpc = "recv" /\ rpc' \in {"recv", "done"} /\ total' = total
        /\ spc' = spc /\ sseq' = sseq
    BY <1>9 DEF ReceiveChunk, Reconstruct, sender
  <2>2. QED
    BY <1>2, <2>1 DEF PlaceInv
<1>10. QED
  BY <1>3, <1>4, <1>5, <1>6, <1>7, <1>8, <1>9 DEF Next, SenderNext, ReceiverNext

\* A chunk overwrites as much of the packet buffer as it has.
LEMMA HalfStep ==
  ASSUME IInv, HalfInv, ReceiveChunk
  PROVE  HalfInv'
<1> DEFINE i == Head(toR).seq
<1>1. /\ toR \in Seq(Outgoing) /\ toR # <<>> /\ n \in 0..MaxChunks /\ rpc = "recv"
      /\ short \in BOOLEAN /\ packet \in Bytes \X Bytes
      /\ packet' = Overwrite(Head(toR).data) /\ Store(i) /\ n' = n /\ short' = short
  BY DEF IInv, TypeInv, ReceiveChunk, sender
<1>2. i \in 0..(n - 1) /\ i \in Seqs /\ Head(toR).data = Data(i) /\ i # NoData
  <2>1. Head(toR) \in Outgoing /\ Head(toR) = toR[1] /\ 1 \in 1..Len(toR)
    BY <1>1, Taken
  <2>2. Head(toR).kind = "chunk"
    BY <1>1, <2>1 DEF IInv, OrderInv
  <2>3. i \in Seqs /\ Head(toR).data = Data(i)
    BY <1>1, <2>1, <2>2, Outgoings
  <2>4. \A m \in Outgoing : m.kind = "chunk" => m.seq \in 0..(n - 1)
    BY DEF Outgoing, AcceptMsg, Total, Chunk
  <2>5. QED
    BY <2>1, <2>2, <2>3, <2>4, SizeAssumption DEF Seqs, NoData
<1>3. Padding' = Padding /\ \A j : Data(j)' = Data(j)
  BY <1>1, SameMessage DEF Padding
<1>4. Data(i)[1] = i /\ Data(i)[2] = IF short /\ i = n - 1 THEN NoData ELSE i
  BY DEF Data
<1>5. packet' = <<i, IF Data(i)[2] = NoData THEN packet[2] ELSE i>>
  BY <1>1, <1>2, <1>4 DEF Overwrite
<1>6. short' => packet'[2] \in Padding'
  <2>1. CASE short /\ i = n - 1
    <3>1. packet'[2] = packet[2]
      BY <1>4, <1>5, <2>1
    <3>2. QED
      BY <1>3, <2>1, <3>1 DEF HalfInv
  <2>2. CASE short /\ i # n - 1
    BY <1>1, <1>2, <1>3, <1>4, <1>5, <2>2 DEF Padding
  <2>3. QED
    BY <1>1, <2>1, <2>2
<1>7. packet'[2] \in IF Data(i)[2] = NoData THEN Padding ELSE {i}
  BY <1>1, <1>2, <1>4, <1>5 DEF HalfInv
<1>8. \A j \in Seqs : chunks'[j] = chunks[j] \/ (j = i /\ chunks'[j] = packet')
  BY <1>1, <1>2 DEF IInv, TypeInv, Store
<1>9. ASSUME NEW j \in Seqs, chunks'[j][1] = j
      PROVE  chunks'[j][2] \in IF Data(j)[2] = NoData THEN Padding ELSE {j}
  <2>1. CASE j = i /\ chunks'[j] = packet'
    BY <1>7, <2>1
  <2>2. CASE chunks'[j] = chunks[j]
    BY <1>9, <2>2 DEF HalfInv
  <2>3. QED
    BY <1>8, <2>1, <2>2
<1>10. QED
  BY <1>3, <1>6, <1>9 DEF HalfInv

\* With an announcement of the length that arrives, every chunk goes to its place.
LEMMA ExactInvariance ==
  ASSUME "total" \notin Lose, Buffer > 1
  PROVE  Spec => [](IInv /\ ExactInv)
<1>1. Init => ExactInv
  BY SizeAssumption DEF Init, ExactInv, PlaceInv, HalfInv, Padding, Seqs, NoData
<1>2. ASSUME IInv, ExactInv, [Next]_vars
      PROVE  ExactInv'
  <2>1. CASE UNCHANGED vars
    <3>1. UNCHANGED <<n, short, spc, sseq, rpc, total, packet, chunks, chunks_received,
                      acked_chunks, toR>>
      BY <2>1 DEF vars, sender, receiver
    <3>2. PlaceInv' /\ HalfInv'
      <4>1. /\ Total' = Total /\ Padding' = Padding /\ packet'[2] = packet[2]
            /\ \A j : Data(j)' = Data(j)
        BY <3>1, SameMessage DEF Padding
      <4>2. PlaceInv'
        BY <1>2, <3>1, <4>1 DEF ExactInv, PlaceInv, BeforeTotal
      <4>3. HalfInv'
        BY <1>2, <3>1, <4>1 DEF ExactInv, HalfInv
      <4>4. QED
        BY <4>2, <4>3
    <3>3. Complete' <=> Complete
      BY <3>1 DEF Complete
    <3>4. QED
      BY <1>2, <3>1, <3>2, <3>3 DEF ExactInv
  <2>2. CASE Next
    <3>1. PlaceInv'
      BY <1>2, <2>2, PlaceNext DEF ExactInv
    <3>2. HalfInv'
      <4>1. CASE ReceiveChunk
        BY <1>2, <4>1, HalfStep DEF ExactInv
      <4>2. CASE ~ReceiveChunk
        <5>1. UNCHANGED <<n, short, packet, chunks>>
          BY <2>2, <4>2 DEF Next, SenderNext, ReceiverNext, AcceptReceiver, SendTotal, SendChunk,
            SenderStep, SenderPass, Connect, Connected, ReceiveTotal, Reconstruct, sender, receiver
        <5>2. QED
          BY <1>2, <5>1, SameMessage DEF ExactInv, HalfInv, Padding
      <4>3. QED
        BY <4>1, <4>2
    <3>3. rpc' = "done" => Complete'
      <4>1. rpc' = "done" => /\ UNCHANGED <<chunks_received, acked_chunks, total>>
                             /\ rpc = "done" \/ Complete
        BY <2>2 DEF Next, SenderNext, ReceiverNext, AcceptReceiver, SendTotal, SendChunk,
          SenderStep, SenderPass, Connect, Connected, ReceiveTotal, ReceiveChunk, Reconstruct,
          receiver
      <4>2. QED
        BY <1>2, <4>1 DEF ExactInv, Complete
    <3>4. QED
      BY <3>1, <3>2, <3>3 DEF ExactInv
  <2>3. QED
    BY <1>2, <2>1, <2>2
<1>3. QED
  BY <1>1, <1>2, Invariance, PTL DEF Spec

\* Every byte the sender sent is printed at its place, for messages of any length and any
\* socket buffer, whatever chunks and acknowledgments are dropped, provided that the
\* number of chunks gets through; behind a short last chunk stand bytes of an earlier
\* chunk or of the uninitialized buffer.
THEOREM MessageReassembled ==
  ASSUME "total" \notin Lose, Buffer > 1
  PROVE  Spec => []Reassembled
<1>1. ASSUME IInv, ExactInv, rpc = "done"
      PROVE  /\ total = n
             /\ \A i \in Seqs :
                  i < n => /\ chunks[i][1] = i
                           /\ chunks[i][2] \in IF Data(i)[2] = NoData THEN Padding ELSE {i}
  <2>1. total = n /\ \A i \in Seqs : i < n => acked_chunks[i]
    BY <1>1 DEF ExactInv, PlaceInv, Complete
  <2>2. \A i \in Seqs : i < n => chunks[i][1] = i
    BY <1>1, <2>1 DEF IInv, StoreInv
  <2>3. QED
    BY <1>1, <2>1, <2>2 DEF ExactInv, HalfInv
<1>2. IInv /\ ExactInv => Reassembled
  BY <1>1 DEF Reassembled
<1>3. QED
  BY <1>2, ExactInvariance, PTL

=============================================================================
