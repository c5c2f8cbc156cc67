-------------------------- MODULE ConnectionProofs ---------------------------
(***************************************************************************)
(* Proofs about Connection, for any requests, sizes of messages and queues *)
(* of the kernel, however recv() and send() cut the streams.               *)
(***************************************************************************)
EXTENDS Connection, SequenceLemmas

\* The bytes the server has not parsed, and then the one that is sent next.
Total == Len(rbuf) + Len(inq)
Pending ==
  [k \in 1 .. Total + 1 |->
     IF k <= Len(rbuf) THEN rbuf[k]
     ELSE IF k <= Total THEN inq[k - Len(rbuf)] ELSE to_send]

\* Where a byte is in its frame.
IsByte(b) == b \in Request \X Nat /\ b[2] \in 1 .. Hdr + Body[b[1]]
Left(b) == Hdr + Body[b[1]] - b[2]

\* What has yet to be parsed begins with the first byte of a request, the
\* one after the last that was run, and each byte follows the one before it.
\* The last conjunct says the same for bytes of one frame at any distance.
StreamInv ==
  /\ executed \in Seq(Request) /\ \A i \in 1 .. Len(executed) : executed[i] = i
  /\ to_send = <<N + 1, 1>> \/ IsByte(to_send)
  /\ Pending[1] = <<Len(executed) + 1, 1>>
  /\ \A k \in 1 .. Total : IsByte(Pending[k]) /\ Pending[k + 1] = Succ(Pending[k])
  /\ \A k \in 1 .. Total, d \in Nat :
       k + d <= Total + 1 /\ d <= Left(Pending[k]) =>
         Pending[k + d] = <<Pending[k][1], Pending[k][2] + d>>

\* A reply is being flushed, or there is none.
ControlInv ==
  pc \notin {"closed", "dead"} =>
    \/ state = "REQ" /\ wbuf = <<>> /\ wbuf_sent = 0 /\ pc # "flush"
    \/ state = "RES" /\ wbuf_sent < Len(wbuf) /\ pc \in {"poll", "flush"}

\* rbuf is full only while requests are looked for in it.
RoomInv ==
  /\ Len(rbuf) <= BufSize /\ Len(wbuf) <= BufSize
  /\ pc \in {"poll", "fill", "flush"} => Len(rbuf) < BufSize

\* The inductive invariant.
CInv == TypeOK /\ StreamInv /\ ControlInv /\ RoomInv

LEMMA Sizes == BufSize \in Nat /\ BufSize > Hdr /\ Hdr \in Nat \ {0} /\ N \in Nat
  BY ConnectionAssumption DEF BufSize

\* The frames of the requests.
LEMMA Bytes ==
  ASSUME NEW b, IsByte(b)
  PROVE  /\ b[1] \in Request /\ b[2] \in Nat \ {0} /\ b = <<b[1], b[2]>>
         /\ Left(b) \in Nat /\ Hdr + Body[b[1]] \in Nat
         /\ Left(b) > 0 => Succ(b) = <<b[1], b[2] + 1>> /\ IsByte(Succ(b))
         /\ Left(b) = 0 => Succ(b) = <<b[1] + 1, 1>>
         /\ Succ(b) = <<N + 1, 1>> \/ IsByte(Succ(b))
<1>1. /\ b[1] \in Request /\ b[2] \in Nat \ {0} /\ b = <<b[1], b[2]>>
      /\ Hdr \in Nat /\ Body[b[1]] \in Nat /\ b[2] <= Hdr + Body[b[1]]
  BY ConnectionAssumption DEF IsByte
<1>2. Left(b) \in Nat
  BY <1>1 DEF Left
<1>3. CASE Left(b) > 0
  <2>1. b[2] < Hdr + Body[b[1]]
    BY <1>1, <1>3 DEF Left
  <2>2. Succ(b) = <<b[1], b[2] + 1>>
    BY <2>1 DEF Succ
  <2>3. IsByte(<<b[1], b[2] + 1>>)
    BY <2>1, <1>1 DEF IsByte
  <2> QED
    BY <1>1, <1>2, <1>3, <2>2, <2>3
<1>4. CASE Left(b) = 0
  <2>1. Succ(b) = <<b[1] + 1, 1>>
    BY <1>1, <1>4 DEF Left, Succ
  <2>2. b[1] + 1 = N + 1 \/ b[1] + 1 \in Request
    BY <1>1, Sizes DEF Request
  <2>3. b[1] + 1 \in Request => IsByte(<<b[1] + 1, 1>>)
    BY ConnectionAssumption DEF IsByte
  <2> QED
    BY <1>1, <1>2, <1>4, <2>1, <2>2, <2>3
<1> QED
  BY <1>2, <1>3, <1>4

LEMMA Lengths ==
  ASSUME TypeOK
  PROVE  /\ Len(rbuf) \in Nat /\ Len(inq) \in Nat /\ Len(wbuf) \in Nat /\ Total \in Nat
         /\ Len(outq) \in Nat /\ Len(executed) \in Nat
  BY DEF TypeOK, Total

LEMMA InitCInv == Init => CInv
<1> SUFFICES ASSUME Init PROVE CInv
  OBVIOUS
<1>1. TypeOK
  BY Sizes DEF Init, TypeOK
<1>2. Total = 0 /\ Pending[1] = <<1, 1>> /\ Len(executed) = 0
  BY DEF Init, Total, Pending
<1>3. to_send = <<N + 1, 1>> \/ IsByte(to_send)
  <2>1. N = 0 \/ 1 \in Request
    BY Sizes DEF Request
  <2>2. 1 \in Request => IsByte(<<1, 1>>)
    BY ConnectionAssumption DEF IsByte
  <2> QED
    BY <2>1, <2>2 DEF Init
<1>4. StreamInv
  BY <1>2, <1>3 DEF Init, StreamInv
<1>5. ControlInv /\ RoomInv
  BY Sizes DEF Init, ControlInv, RoomInv
<1> QED
  BY <1>1, <1>4, <1>5 DEF CInv

\* A step that moves bytes nearer to the parser, or none.
LEMMA SameStream ==
  ASSUME CInv, Total' = Total, \A k \in 1 .. Total + 1 : Pending'[k] = Pending[k],
         UNCHANGED <<executed, to_send>>
  PROVE  StreamInv'
<1>1. Total \in Nat
  BY Lengths DEF CInv
<1>2. \A k \in 1 .. Total' : IsByte(Pending'[k]) /\ Pending'[k + 1] = Succ(Pending'[k])
  BY <1>1 DEF CInv, StreamInv
<1>3. ASSUME NEW k \in 1 .. Total', NEW d \in Nat, k + d <= Total' + 1,
             d <= Left(Pending'[k])
      PROVE  Pending'[k + d] = <<Pending'[k][1], Pending'[k][2] + d>>
  BY <1>1, <1>3 DEF CInv, StreamInv
<1>4. Pending'[1] = <<Len(executed') + 1, 1>>
  BY <1>1 DEF CInv, StreamInv
<1>5. to_send' = <<N + 1, 1>> \/ IsByte(to_send')
  BY DEF CInv, StreamInv
<1>6. executed' \in Seq(Request) /\ \A i \in 1 .. Len(executed') : executed'[i] = i
  BY DEF CInv, StreamInv
<1> QED
  BY <1>2, <1>3, <1>4, <1>5, <1>6 DEF StreamInv, Left, IsByte, Succ

\* A step that does not touch the bytes on their way to the parser.
LEMMA OtherStream ==
  ASSUME CInv, UNCHANGED <<rbuf, inq, to_send, executed>>
  PROVE  StreamInv'
<1>1. Total' = Total /\ Pending' = Pending
  BY DEF Total, Pending
<1> QED
  BY <1>1, SameStream-----------------------------------------------------------------------------
\* The client appends the byte that comes next.
LEMMA ClientSendCInv == CInv /\ ClientSend => CInv'
<1> SUFFICES ASSUME CInv, ClientSend PROVE CInv'
  OBVIOUS
<1> DEFINE T == Total
<1>1. /\ inq' = Append(inq, to_send) /\ to_send' = Succ(to_send) /\ to_send[1] \in Request
      /\ UNCHANGED <<peer, got, outq, rbuf, wbuf, wbuf_sent, state, pc, caller, executed>>
  BY DEF ClientSend
<1>2. IsByte(to_send) /\ to_send \in Request \X Nat
  BY <1>1, Sizes DEF CInv, StreamInv, IsByte, Request
<1>3. T \in Nat /\ Len(rbuf) \in Nat /\ Len(inq) \in Nat /\ inq \in Seq(Request \X Nat)
  BY Lengths DEF CInv, TypeOK
<1>4. /\ inq' \in Seq(Request \X Nat) /\ Len(inq') = Len(inq) + 1
      /\ inq'[Len(inq) + 1] = to_send
      /\ \A i \in 1 .. Len(inq) : inq'[i] = inq[i]
  BY <1>1, <1>2, <1>3
<1>5. Total' = T + 1
  BY <1>1, <1>3, <1>4 DEF Total
<1>6. Pending[T + 1] = to_send
  BY <1>3 DEF Pending, Total
<1>7. \A k \in 1 .. T + 1 : Pending'[k] = Pending[k]
  <2>1. ASSUME NEW k \in 1 .. T + 1 PROVE Pending'[k] = Pending[k]
    <3>1. CASE k <= Len(rbuf)
      BY <3>1, <1>1, <1>3, <1>5 DEF Pending
    <3>2. CASE ~ (k <= Len(rbuf)) /\ k <= T
      <4>1. k - Len(rbuf) \in 1 .. Len(inq)
        BY <3>2, <1>3 DEF Total
      <4> QED
        BY <3>2, <4>1, <1>1, <1>3, <1>4, <1>5 DEF Pending
    <3>3. CASE k = T + 1
      <4>1. k - Len(rbuf) = Len(inq) + 1 /\ ~ (k <= Len(rbuf)) /\ k <= Total'
        BY <3>3, <1>3, <1>5 DEF Total
      <4> QED
        BY <3>3, <4>1, <1>1, <1>3, <1>4, <1>5, <1>6 DEF Pending
    <3> QED
      BY <3>1, <3>2, <3>3, <1>3
  <2> QED
    BY <2>1
<1>8. Pending'[T + 2] = Succ(to_send)
  <2>1. ~ (T + 2 <= Len(rbuf')) /\ ~ (T + 2 <= Total') /\ T + 2 \in 1 .. Total' + 1
    BY <1>1, <1>3, <1>5 DEF Total
  <2> QED
    BY <2>1, <1>1 DEF Pending
<1> HIDE DEF T
<1>9. \A k \in 1 .. T + 1 : IsByte(Pending[k]) /\ Pending'[k + 1] = Succ(Pending[k])
  <2>1. ASSUME NEW k \in 1 .. T
        PROVE  IsByte(Pending[k]) /\ Pending'[k + 1] = Succ(Pending[k])
    BY <1>3, <1>7 DEF CInv, StreamInv, T
  <2>2. IsByte(Pending[T + 1]) /\ Pending'[T + 2] = Succ(Pending[T + 1])
    BY <1>2, <1>6, <1>8
  <2> QED
    BY <2>1, <2>2, <1>3
<1>10. ASSUME NEW k \in 1 .. T + 1, NEW d \in Nat, k + d <= T + 2,
              d <= Left(Pending[k])
       PROVE  Pending'[k + d] = <<Pending[k][1], Pending[k][2] + d>>
  <2>1. IsByte(Pending[k]) /\ Pending[k] = <<Pending[k][1], Pending[k][2]>>
        /\ Pending[k][1] \in Request /\ Pending[k][2] \in Nat
        /\ Body[Pending[k][1]] \in Nat /\ Hdr \in Nat
    BY <1>9, Bytes, ConnectionAssumption
  <2>2. CASE k + d <= T + 1 /\ k <= T
    <3>1. Pending[k + d] = <<Pending[k][1], Pending[k][2] + d>>
      BY <2>2, <1>3, <1>10 DEF CInv, StreamInv, T
    <3>2. k + d \in 1 .. T + 1
      BY <2>2, <1>3, <1>10
    <3> QED
      BY <3>1, <3>2, <1>7
  <2>3. CASE k = T + 1 /\ d = 0
    BY <2>1, <2>3, <1>3, <1>7
  <2>4. CASE k + d = T + 2
    <3> DEFINE b == Pending[T + 1]
    <3>1. d - 1 \in Nat /\ k + (d - 1) = T + 1 /\ d - 1 <= Left(Pending[k])
      <4>1. Left(Pending[k]) \in Nat
        BY <2>1, Bytes
      <4>2. d \in Nat /\ k \in Nat /\ k <= T + 1 /\ d <= Left(Pending[k])
        BY <1>3, <1>10
      <4> QED
        BY <4>1, <4>2, <2>4, <1>3
    <3>2. b = <<Pending[k][1], Pending[k][2] + (d - 1)>>
      <4>1. CASE k = T + 1
        BY <2>1, <3>1, <4>1, <1>3
      <4>2. CASE k \in 1 .. T
        BY <3>1, <4>2, <1>3 DEF CInv, StreamInv, T
      <4> QED
        BY <4>1, <4>2, <1>3
    <3>3. b[1] = Pending[k][1] /\ b[2] = Pending[k][2] + (d - 1) /\ IsByte(b)
      BY <3>2, <1>9, <1>3
    <3>4. Left(b) > 0
      BY <2>1, <3>1, <3>3, <1>10 DEF Left
    <3>5. Succ(b) = <<b[1], b[2] + 1>>
      BY <3>3, <3>4, Bytes
    <3> QED
      BY <2>1, <2>4, <3>1, <3>3, <3>5, <1>6, <1>8
  <2> QED
    BY <2>2, <2>3, <2>4, <1>3, <1>10
<1>11. StreamInv'
  <2>1. executed' \in Seq(Request) /\ \A i \in 1 .. Len(executed') : executed'[i] = i
    BY <1>1 DEF CInv, StreamInv
  <2>2. to_send' = <<N + 1, 1>> \/ IsByte(to_send')
    BY <1>1, <1>2, Bytes
  <2>3. Pending'[1] = <<Len(executed') + 1, 1>>
    BY <1>1, <1>3, <1>7 DEF CInv, StreamInv
  <2>4. \A k \in 1 .. Total' : IsByte(Pending'[k]) /\ Pending'[k + 1] = Succ(Pending'[k])
    BY <1>5, <1>7, <1>9 DEF T
  <2>5. \A k \in 1 .. Total', d \in Nat :
          k + d <= Total' + 1 /\ d <= Left(Pending'[k]) =>
            Pending'[k + d] = <<Pending'[k][1], Pending'[k][2] + d>>
    BY <1>3, <1>5, <1>7, <1>10 DEF T
  <2> QED
    BY <2>1, <2>2, <2>3, <2>4, <2>5 DEF StreamInv, Left, IsByte, Succ
<1>12. TypeOK'
  <2>1. to_send' \in (1 .. N + 1) \X Nat
    BY <1>1, <1>2, Bytes, Sizes DEF Request, IsByte
  <2> QED
    BY <2>1, <1>1, <1>4 DEF CInv, TypeOK
<1> QED
  BY <1>1, <1>11, <1>12 DEF CInv, ControlInv, RoomInv
\* recv() moves bytes from the front of the queue to the end of rbuf.
LEMMA RecvDataCInv ==
  ASSUME CInv, NEW n \in Nat, RecvData(n)
  PROVE  CInv'
<1>1. /\ n \in 1 .. Len(inq) /\ n <= BufSize - Len(rbuf) /\ pc = "fill" /\ pc' = "parse"
      /\ rbuf' = rbuf \o SubSeq(inq, 1, n) /\ inq' = SubSeq(inq, n + 1, Len(inq))
      /\ UNCHANGED <<to_send, peer, got, outq, wbuf, wbuf_sent, state, caller, executed>>
  BY DEF RecvData, From, client
<1>2. /\ Total \in Nat /\ Len(rbuf) \in Nat /\ Len(inq) \in Nat
      /\ rbuf \in Seq(Request \X Nat) /\ inq \in Seq(Request \X Nat)
      /\ n \in 1 .. Len(inq) /\ Total = Len(rbuf) + Len(inq)
  BY <1>1, Lengths DEF CInv, TypeOK, Total
<1>3. /\ inq' \in Seq(Request \X Nat) /\ Len(inq') = Len(inq) - n
      /\ \A i \in 1 .. Len(inq) - n : inq'[i] = inq[n + i]
  <2>1. /\ inq' = Rest(inq, n) /\ inq \in Seq(Request \X Nat) /\ n \in 0 .. Len(inq)
    BY <1>1, <1>2 DEF Rest
  <2> QED
    BY ONLY <2>1, RestIs
<1>4. /\ rbuf' \in Seq(Request \X Nat) /\ Len(rbuf') = Len(rbuf) + n
      /\ \A i \in 1 .. Len(rbuf) : rbuf'[i] = rbuf[i]
      /\ \A i \in Len(rbuf) + 1 .. Len(rbuf) + n : rbuf'[i] = inq[i - Len(rbuf)]
  <2>1. rbuf \in Seq(Request \X Nat) /\ inq \in Seq(Request \X Nat) /\ n \in 0 .. Len(inq)
    BY <1>1, <1>2
  <2> DEFINE t == Cat(rbuf, Upto(inq, n))
  <2>2. /\ rbuf' \in Seq(Request \X Nat) /\ Len(rbuf') = Len(rbuf) + n
        /\ \A i \in 1 .. Len(rbuf) : rbuf'[i] = rbuf[i]
        /\ \A i \in 1 .. n : rbuf'[Len(rbuf) + i] = inq[i]
    <3>1. t \in Seq(Request \X Nat)
      BY ONLY <2>1, CatUpto
    <3>2. Len(t) = Len(rbuf) + n
      BY ONLY <2>1, CatUpto
    <3>3. \A i \in 1 .. Len(rbuf) : t[i] = rbuf[i]
      BY ONLY <2>1, CatUpto
    <3>4. \A i \in 1 .. n : t[Len(rbuf) + i] = inq[i]
      BY ONLY <2>1, CatUpto
    <3>5. rbuf' = t
      BY <1>1 DEF Cat, Upto
    <3> QED
      BY ONLY <3>1, <3>2, <3>3, <3>4, <3>5
  <2>3. ASSUME NEW i \in Len(rbuf) + 1 .. Len(rbuf) + n
        PROVE  rbuf'[i] = inq[i - Len(rbuf)]
    <3>1. i - Len(rbuf) \in 1 .. n /\ Len(rbuf) + (i - Len(rbuf)) = i
      BY ONLY <1>2, i \in Len(rbuf) + 1 .. Len(rbuf) + n
    <3> QED
      BY ONLY <2>2, <3>1
  <2> QED
    BY <2>2, <2>3
<1>5. Total' = Total
  <2>1. Len(rbuf') + Len(inq') = Len(rbuf) + Len(inq)
    BY <1>2, <1>3, <1>4
  <2> QED
    BY <2>1 DEF Total
<1>6. ASSUME NEW k \in 1 .. Total + 1
      PROVE  Pending'[k] = Pending[k]
  <2>0. /\ Len(rbuf) \in Nat /\ Len(inq) \in Nat /\ n \in 1 .. Len(inq) /\ Total = Len(rbuf) + Len(inq)
        /\ Len(rbuf') = Len(rbuf) + n /\ Len(inq') = Len(inq) - n /\ k \in 1 .. Total + 1
    BY <1>2, <1>3, <1>4
  <2>1. CASE k <= Len(rbuf)
    BY <2>1, <1>1, <1>2, <1>4, <1>5 DEF Pending
  <2>2. CASE k \in Len(rbuf) + 1 .. Len(rbuf) + n
    <3>1. k <= Len(rbuf') /\ ~ (k <= Len(rbuf)) /\ k <= Total
      BY ONLY <2>0, <2>2
    <3>2. rbuf'[k] = inq[k - Len(rbuf)]
      BY <2>2, <1>4
    <3> QED
      BY <3>1, <3>2, <1>2, <1>5 DEF Pending
  <2>3. CASE k \in Len(rbuf) + n + 1 .. Total
    <3>1. /\ ~ (k <= Len(rbuf')) /\ ~ (k <= Len(rbuf)) /\ k <= Total
          /\ k - Len(rbuf') \in 1 .. Len(inq) - n
          /\ n + (k - Len(rbuf')) = k - Len(rbuf)
      BY ONLY <2>0, <2>3
    <3>2. inq'[k - Len(rbuf')] = inq[k - Len(rbuf)]
      BY <3>1, <1>3
    <3> QED
      BY <3>1, <3>2, <1>2, <1>5 DEF Pending
  <2>4. CASE k = Total + 1
    <3>1. ~ (k <= Len(rbuf')) /\ ~ (k <= Len(rbuf)) /\ ~ (k <= Total)
      BY ONLY <2>0, <2>4
    <3> QED
      BY <3>1, <1>1, <1>2, <1>5 DEF Pending
  <2> QED
    <3>1. k \in Int /\ Len(rbuf) \in Int /\ n \in Int /\ Total \in Int /\ k <= Total + 1
      BY <1>2
    <3>2. ~ (k <= Len(rbuf)) /\ k <= Len(rbuf) + n => k \in Len(rbuf) + 1 .. Len(rbuf) + n
      BY <3>1
    <3>3. ~ (k <= Len(rbuf) + n) /\ k <= Total => k \in Len(rbuf) + n + 1 .. Total
      BY <3>1
    <3>4. ~ (k <= Total) => k = Total + 1
      BY <3>1
    <3> QED
      BY <3>2, <3>3, <3>4, <2>1, <2>2, <2>3, <2>4
<1>7. StreamInv'
  BY <1>1, <1>5, <1>6, SameStream
<1>8. TypeOK'
  BY <1>1, <1>3, <1>4 DEF CInv, TypeOK
<1>9. ControlInv' /\ RoomInv'
  BY <1>1, <1>2, <1>4, Sizes DEF CInv, ControlInv, RoomInv, BufSize
<1> QED
  BY <1>7, <1>8, <1>9 DEF CInv

\* A request whose bytes are all in rbuf.
LEMMA WholeRequest ==
  ASSUME CInv, Len(rbuf) >= Hdr, Len(rbuf) >= FrameLen
  PROVE  /\ Next_req = Len(executed) + 1 /\ Next_req \in Request
         /\ FrameLen \in 1 .. Len(rbuf) /\ FrameLen \in 1 .. Total
         /\ Pending[FrameLen + 1] = <<Next_req + 1, 1>>
<1>1. /\ Len(rbuf) \in Nat /\ Len(inq) \in Nat /\ Len(executed) \in Nat
      /\ 1 \in 1 .. Len(rbuf) /\ 1 \in 1 .. Total /\ Total = Len(rbuf) + Len(inq)
  BY Lengths, Sizes DEF CInv, Total
<1>2. rbuf[1] = <<Len(executed) + 1, 1>> /\ Pending[1] = rbuf[1]
  <2>1. 1 \in 1 .. Total + 1 /\ 1 <= Len(rbuf)
    BY <1>1
  <2>2. Pending[1] = rbuf[1]
    BY <2>1 DEF Pending
  <2> QED
    BY <2>2 DEF CInv, StreamInv
<1>3. Next_req = Len(executed) + 1 /\ IsByte(Pending[1])
  <2>1. Next_req = Len(executed) + 1
    BY <1>2 DEF Next_req
  <2>2. IsByte(Pending[1])
    BY <1>1 DEF CInv, StreamInv
  <2> QED
    BY <2>1, <2>2
<1>4. /\ Next_req \in Request /\ Body[Next_req] \in Nat /\ Hdr \in Nat \ {0}
      /\ FrameLen = Hdr + Body[Next_req] /\ Pending[1][1] = Next_req /\ Pending[1][2] = 1
  BY <1>2, <1>3, Bytes, ConnectionAssumption DEF FrameLen
<1> DEFINE f == FrameLen
<1>5. f \in 1 .. Len(rbuf) /\ f \in 1 .. Total
  BY <1>1, <1>4
<1>6. /\ Left(Pending[1]) = f - 1 /\ f - 1 \in Nat
      /\ 1 + (f - 1) = f /\ f <= Total + 1 /\ f - 1 <= f - 1
  BY <1>1, <1>4, <1>5 DEF Left
<1> HIDE DEF f
<1>7. Pending[1 + (f - 1)] = <<Pending[1][1], Pending[1][2] + (f - 1)>>
  BY <1>1, <1>6 DEF CInv, StreamInv
<1>8. Pending[f] = <<Next_req, f>>
  BY <1>4, <1>5, <1>6, <1>7
<1>9. Left(Pending[f]) = 0
  BY <1>4, <1>8 DEF Left, f
<1>10. IsByte(Pending[f]) /\ Pending[f + 1] = Succ(Pending[f])
  BY <1>5 DEF CInv, StreamInv
<1>11. Pending[f + 1] = <<Next_req + 1, 1>>
  BY <1>8, <1>9, <1>10, Bytes
<1> QED
  BY <1>3, <1>4, <1>5, <1>11 DEF f
\* A reply fits wbuf, and is not empty.
LEMMA ReplyFits ==
  ASSUME NEW i \in Request
  PROVE  /\ Reply(i) \in Seq(Request \X Nat)
         /\ Len(Reply(i)) \in Nat \ {0} /\ Len(Reply(i)) <= BufSize
<1>1. ReplySize(i) \in Nat /\ Hdr + ReplySize(i) <= MaxMsg
  BY ConnectionAssumption DEF ReplySize
<1> DEFINE n == Hdr + ReplySize(i)
<1>2. n \in Nat \ {0} /\ n <= BufSize
  BY <1>1, ConnectionAssumption DEF BufSize
<1>3. Reply(i) = [j \in 1 .. n |-> <<i, j>>]
  BY DEF Reply
<1> HIDE DEF n
<1>4. Reply(i) \in Seq(Request \X Nat) /\ Len(Reply(i)) = n
  BY <1>2, <1>3
<1> QED
  BY <1>2, <1>4

\* A request leaves rbuf, and its reply is in wbuf.
LEMMA ParseRequestCInv == CInv /\ ParseRequest => CInv'
<1> SUFFICES ASSUME CInv, ParseRequest PROVE CInv'
  OBVIOUS
<1> DEFINE f == FrameLen
           r == Next_req
<1>1. /\ pc = "parse" /\ Len(rbuf) >= Hdr /\ Len(rbuf) >= f
      /\ executed' = Append(executed, r) /\ wbuf' = Reply(r)
      /\ rbuf' = SubSeq(rbuf, f + 1, Len(rbuf))
      /\ state' = "RES" /\ pc' = "flush" /\ caller' = "try_one_request"
      /\ UNCHANGED <<to_send, peer, got, inq, outq, wbuf_sent>>
  BY DEF ParseRequest, From, client
<1>2. /\ r = Len(executed) + 1 /\ r \in Request /\ f \in 1 .. Len(rbuf)
      /\ f \in 1 .. Total /\ Pending[f + 1] = <<r + 1, 1>>
  BY <1>1, WholeRequest
<1> HIDE DEF f, r
<1>3. /\ Total \in Nat /\ Len(rbuf) \in Nat /\ Len(inq) \in Nat /\ Len(executed) \in Nat
      /\ rbuf \in Seq(Request \X Nat) /\ Total = Len(rbuf) + Len(inq)
      /\ executed \in Seq(Request) /\ f \in Nat
  BY <1>2, Lengths DEF CInv, TypeOK, Total
<1>4. /\ rbuf' \in Seq(Request \X Nat) /\ Len(rbuf') = Len(rbuf) - f
      /\ \A i \in 1 .. Len(rbuf) - f : rbuf'[i] = rbuf[f + i]
  <2>1. rbuf' = Rest(rbuf, f) /\ f \in 0 .. Len(rbuf)
    BY <1>1, <1>2 DEF Rest
  <2> QED
    BY <2>1, <1>3, RestIs
<1>5. /\ executed' \in Seq(Request) /\ Len(executed') = r
      /\ \A i \in 1 .. r : executed'[i] = i
  <2>1. /\ executed' \in Seq(Request) /\ Len(executed') = Len(executed) + 1
        /\ executed'[Len(executed) + 1] = r
        /\ \A i \in 1 .. Len(executed) : executed'[i] = executed[i]
    BY <1>1, <1>2, <1>3
  <2>2. \A i \in 1 .. Len(executed) : executed[i] = i
    BY DEF CInv, StreamInv
  <2>3. \A i \in 1 .. r : i \in 1 .. Len(executed) \/ i = Len(executed) + 1
    BY <1>2, <1>3
  <2> QED
    BY <2>1, <2>2, <2>3, <1>2
<1>6. Total' = Total - f
  <2>1. Len(rbuf') + Len(inq') = Len(rbuf) + Len(inq) - f
    <3>1. Len(inq') = Len(inq)
      BY <1>1
    <3> QED
      BY <3>1, <1>3, <1>4
  <2> QED
    BY <2>1, <1>3 DEF Total
<1>7. ASSUME NEW k \in 1 .. Total' + 1
      PROVE  Pending'[k] = Pending[k + f]
  <2>1. k \in Nat /\ k + f \in 1 .. Total + 1
    BY <1>2, <1>3, <1>6
  <2>2. CASE k <= Len(rbuf')
    <3>1. k \in 1 .. Len(rbuf) - f /\ k + f <= Len(rbuf) /\ f + k = k + f
      BY <2>1, <2>2, <1>3, <1>4
    <3>2. rbuf'[k] = rbuf[k + f]
      BY <3>1, <1>4
    <3> QED
      BY <2>1, <2>2, <3>1, <3>2 DEF Pending
  <2>3. CASE ~ (k <= Len(rbuf')) /\ k <= Total'
    <3>1. /\ k - Len(rbuf') = (k + f) - Len(rbuf)
          /\ ~ (k + f <= Len(rbuf)) /\ k + f <= Total
      BY <2>1, <2>3, <1>3, <1>4, <1>6
    <3> QED
      BY <2>1, <2>3, <3>1, <1>1 DEF Pending
  <2>4. CASE ~ (k <= Total')
    <3>1. ~ (k <= Len(rbuf')) /\ ~ (k + f <= Len(rbuf)) /\ ~ (k + f <= Total)
      BY <2>1, <2>4, <1>3, <1>4, <1>6
    <3> QED
      BY <2>1, <2>4, <3>1, <1>1 DEF Pending
  <2> QED
    BY <2>2, <2>3, <2>4
<1>8. ASSUME NEW k \in 1 .. Total'
      PROVE  /\ k \in 1 .. Total' + 1 /\ k + 1 \in 1 .. Total' + 1 /\ k + f \in 1 .. Total
             /\ IsByte(Pending'[k]) /\ Pending'[k + 1] = Succ(Pending'[k])
  <2>1. /\ k \in 1 .. Total' + 1 /\ k + 1 \in 1 .. Total' + 1 /\ k + f \in 1 .. Total
        /\ (k + 1) + f = (k + f) + 1
    BY <1>3, <1>6
  <2>2. Pending'[k] = Pending[k + f] /\ Pending'[k + 1] = Pending[(k + f) + 1]
    BY <2>1, <1>7
  <2>3. IsByte(Pending[k + f]) /\ Pending[(k + f) + 1] = Succ(Pending[k + f])
    BY <2>1 DEF CInv, StreamInv
  <2> QED
    BY <2>1, <2>2, <2>3
<1>9. ASSUME NEW k \in 1 .. Total', NEW d \in Nat, k + d <= Total' + 1,
             d <= Left(Pending'[k])
      PROVE  Pending'[k + d] = <<Pending'[k][1], Pending'[k][2] + d>>
  <2>1. /\ k \in 1 .. Total' + 1 /\ k + d \in 1 .. Total' + 1 /\ k + f \in 1 .. Total
        /\ (k + d) + f = (k + f) + d /\ (k + f) + d <= Total + 1
    BY <1>3, <1>6, <1>9
  <2>2. Pending'[k] = Pending[k + f] /\ Pending'[k + d] = Pending[(k + f) + d]
    BY <2>1, <1>7
  <2>3. Pending[(k + f) + d] = <<Pending[k + f][1], Pending[k + f][2] + d>>
    BY <2>1, <2>2, <1>9 DEF CInv, StreamInv
  <2> QED
    BY <2>2, <2>3
<1>10. Pending'[1] = <<Len(executed') + 1, 1>>
  <2>1. 1 \in 1 .. Total' + 1 /\ 1 + f = f + 1
    BY <1>2, <1>3, <1>6
  <2> QED
    BY <2>1, <1>2, <1>5, <1>7
<1>11. StreamInv'
  <2>1. to_send' = <<N + 1, 1>> \/ IsByte(to_send')
    BY <1>1 DEF CInv, StreamInv
  <2> QED
    BY <2>1, <1>5, <1>8, <1>9, <1>10 DEF StreamInv, IsByte, Left, Succ
<1>12. /\ wbuf' \in Seq(Request \X Nat) /\ Len(wbuf') \in Nat \ {0}
       /\ Len(wbuf') <= BufSize
  BY <1>1, <1>2, ReplyFits
<1>13. wbuf_sent = 0 /\ wbuf_sent' \in 0 .. Len(wbuf') /\ wbuf_sent' < Len(wbuf')
  BY <1>1, <1>12 DEF CInv, ControlInv
<1>14. TypeOK'
  BY <1>1, <1>4, <1>5, <1>12, <1>13 DEF CInv, TypeOK
<1>15. ControlInv' /\ RoomInv'
  <2>1. Len(rbuf') < BufSize
    BY <1>2, <1>3, <1>4, Sizes DEF CInv, RoomInv
  <2>2. ControlInv'
    BY <1>1, <1>13 DEF ControlInv
  <2>3. Len(rbuf') <= BufSize
    BY <2>1, <1>3, <1>4, Sizes
  <2> QED
    BY <2>1, <2>2, <2>3, <1>12 DEF RoomInv
<1> QED
  BY <1>11, <1>14, <1>15 DEF CInv

\* send() takes some of the reply.
LEMMA SendDataCInv ==
  ASSUME CInv, NEW n \in Nat, SendData(n)
  PROVE  CInv'
<1>1. /\ pc = "flush" /\ n \in 1 .. Len(wbuf) - wbuf_sent
      /\ outq' = outq \o SubSeq(wbuf, wbuf_sent + 1, wbuf_sent + n)
      /\ UNCHANGED <<to_send, peer, got, inq, rbuf, caller, executed>>
  BY DEF SendData, client
<1>2. /\ Len(wbuf) \in Nat /\ wbuf_sent \in 0 .. Len(wbuf) /\ Len(rbuf) \in Nat
      /\ wbuf \in Seq(Request \X Nat) /\ outq \in Seq(Request \X Nat)
  BY Lengths DEF CInv, TypeOK
<1>3. outq' \in Seq(Request \X Nat)
  <2>1. SubSeq(wbuf, wbuf_sent + 1, wbuf_sent + n) \in Seq(Request \X Nat)
    BY <1>1, <1>2
  <2> QED
    BY <2>1, <1>1, <1>2
<1>4. StreamInv'
  BY <1>1, OtherStream
<1>5. state = "RES" /\ Len(rbuf) < BufSize
  BY <1>1 DEF CInv, ControlInv, RoomInv
<1>6. CASE /\ wbuf' = <<>> /\ wbuf_sent' = 0 /\ state' = "REQ" /\ Leave
  <2>1. pc' \in {"parse", "poll"}
    BY <1>6 DEF Leave
  <2>2. TypeOK'
    <3>1. TypeOK /\ UNCHANGED <<to_send, peer, got, inq, rbuf, caller, executed>>
      BY <1>1 DEF CInv
    <3>2. /\ wbuf' \in Seq(Request \X Nat) /\ wbuf_sent' \in 0 .. Len(wbuf')
          /\ state' \in {"REQ", "RES", "END"}
      BY <1>6
    <3>3. pc' \in {"poll", "fill", "parse", "flush", "closed", "dead"}
      BY <2>1
    <3> QED
      BY ONLY <3>1, <3>2, <3>3, <1>3 DEF TypeOK
  <2>3. ControlInv' /\ RoomInv'
    BY <2>1, <1>1, <1>2, <1>5, <1>6, Sizes DEF CInv, ControlInv, RoomInv
  <2> QED
    BY <2>2, <2>3, <1>4 DEF CInv
<1>7. CASE /\ wbuf_sent + n # Len(wbuf) /\ wbuf_sent' = wbuf_sent + n
           /\ UNCHANGED <<wbuf, state, pc>>
  <2>1. wbuf_sent' \in 0 .. Len(wbuf) /\ wbuf_sent' < Len(wbuf)
    BY <1>1, <1>2, <1>7
  <2>2. TypeOK'
    <3>1. /\ TypeOK /\ UNCHANGED <<to_send, peer, got, inq, rbuf, caller, executed>>
          /\ UNCHANGED <<wbuf, state, pc>>
      BY <1>1, <1>7 DEF CInv
    <3> QED
      BY ONLY <3>1, <2>1, <1>3 DEF TypeOK
  <2>3. ControlInv' /\ RoomInv'
    BY <2>1, <1>1, <1>5, <1>7 DEF CInv, ControlInv, RoomInv
  <2> QED
    BY <2>2, <2>3, <1>4 DEF CInv
<1> QED
  BY <1>6, <1>7 DEF SendData
\* The client reads, or leaves.
LEMMA ClientOtherCInv == CInv /\ (ClientRead \/ ClientLeave) => CInv'
<1> SUFFICES ASSUME CInv, ClientRead \/ ClientLeave PROVE CInv'
  OBVIOUS
<1>1. /\ UNCHANGED <<to_send, inq, rbuf, wbuf, wbuf_sent, state, pc, caller, executed>>
      /\ \/ got' = got \o outq /\ outq' = <<>> /\ UNCHANGED peer
         \/ peer' \in {"closed", "reset"} /\ UNCHANGED <<got, outq>>
  BY DEF ClientRead, ClientLeave
<1>2. got' \in Seq(Request \X Nat) /\ outq' \in Seq(Request \X Nat)
  <2>1. got \in Seq(Request \X Nat) /\ outq \in Seq(Request \X Nat)
    BY DEF CInv, TypeOK
  <2>2. got \o outq \in Seq(Request \X Nat) /\ <<>> \in Seq(Request \X Nat)
    BY <2>1
  <2> QED
    BY <2>1, <2>2, <1>1
<1>3. TypeOK' /\ ControlInv' /\ RoomInv'
  BY <1>1, <1>2 DEF CInv, TypeOK, ControlInv, RoomInv
<1> QED
  BY <1>1, <1>3, OtherStream DEF CInv

\* A step that only decides what is done next.
LEMMA DecisionCInv ==
  ASSUME CInv,
         Wake \/ RecvAgain \/ RecvEnd \/ ParseNothing \/ ParseReject
           \/ ParsePartial \/ SendAgain \/ SendFail
  PROVE  CInv'
<1>1. UNCHANGED <<to_send, peer, got, inq, outq, rbuf, wbuf, wbuf_sent, executed>>
  BY DEF Wake, RecvAgain, RecvEnd, ParseNothing, ParseReject, ParsePartial, SendAgain,
         SendFail, End, Die, client
<1>2. CASE End \/ Die
  <2>1. pc' \in {"closed", "dead"} /\ state' \in {"END", state} /\ caller' = caller
    BY <1>2 DEF End, Die
  <2>2. TypeOK' /\ ControlInv' /\ RoomInv'
    BY <1>1, <2>1 DEF CInv, TypeOK, ControlInv, RoomInv
  <2> QED
    BY <1>1, <2>2, OtherStream DEF CInv
<1>3. CASE Wake
  <2>1. /\ pc = "poll" /\ pc' = IF state = "REQ" THEN "fill" ELSE "flush"
        /\ caller' = "connection_io" /\ state' = state
    BY <1>3 DEF Wake
  <2>2. TypeOK' /\ ControlInv' /\ RoomInv'
    BY <1>1, <2>1 DEF CInv, TypeOK, ControlInv, RoomInv
  <2> QED
    BY <1>1, <2>2, OtherStream DEF CInv
<1>4. CASE RecvAgain \/ ParseNothing \/ SendAgain
  <2>1. pc' = "poll" /\ caller' = caller /\ state' = state
    BY <1>4 DEF RecvAgain, ParseNothing, SendAgain
  <2>2. pc \in {"fill", "parse", "flush"} /\ Len(rbuf) < BufSize
    BY <1>4, Sizes, Lengths DEF RecvAgain, ParseNothing, SendAgain, CInv, RoomInv
  <2>3. TypeOK' /\ ControlInv' /\ RoomInv'
    BY <1>1, <2>1, <2>2 DEF CInv, TypeOK, ControlInv, RoomInv
  <2> QED
    BY <1>1, <2>3, OtherStream DEF CInv
<1> QED
  BY <1>2, <1>3, <1>4 DEF RecvEnd, ParseReject, ParsePartial, SendFail

LEMMA NextCInv == CInv /\ [Next]_vars => CInv'
<1> SUFFICES ASSUME CInv, [Next]_vars PROVE CInv'
  OBVIOUS
<1>1. CASE ClientSend \/ ClientRead \/ ClientLeave
  BY <1>1, ClientSendCInv, ClientOtherCInv
<1>2. CASE \E n \in 1 .. BufSize : RecvData(n) \/ SendData(n)
  <2>1. \A n \in 1 .. BufSize : n \in Nat
    BY Sizes
  <2> QED
    BY <1>2, <2>1, RecvDataCInv, SendDataCInv
<1>3. CASE ParseRequest
  BY <1>3, ParseRequestCInv
<1>4. CASE Wake \/ RecvAgain \/ RecvEnd \/ ParseNothing \/ ParseReject
             \/ ParsePartial \/ SendAgain \/ SendFail
  BY <1>4, DecisionCInv
<1>5. CASE UNCHANGED vars
  <2>1. UNCHANGED <<to_send, peer, got, inq, outq, rbuf, wbuf, wbuf_sent, executed,
                    state, pc, caller>>
    BY <1>5 DEF vars
  <2>2. TypeOK' /\ ControlInv' /\ RoomInv'
    BY <2>1 DEF CInv, TypeOK, ControlInv, RoomInv
  <2> QED
    BY <2>1, <2>2, OtherStream DEF CInv
<1> QED
  BY <1>1, <1>2, <1>3, <1>4, <1>5 DEF Next, Server

\* The invariant of a connection.
THEOREM CInvHolds == SafeSpec => []CInv
  BY InitCInv, NextCInv, PTL DEF SafeSpec

\* The variables keep their types.
THEOREM TypeCorrect == SafeSpec => []TypeOK
<1>1. CInv => TypeOK
  BY DEF CInv
<1> QED
  BY <1>1, CInvHolds, PTL

\* However recv() cuts the stream of requests, in a length or in a body,
\* each is run once and in the order sent, and rbuf begins with the next
\* (server.cpp:635-764).
THEOREM RequestsStayInOrder == SafeSpec => []RequestsInOrder
<1>1. CInv => RequestsInOrder
  <2> SUFFICES ASSUME CInv PROVE RequestsInOrder
    OBVIOUS
  <2>1. executed = [i \in 1 .. Len(executed) |-> i]
    BY DEF CInv, StreamInv
  <2>2. ASSUME rbuf # <<>> PROVE rbuf[1] = <<Len(executed) + 1, 1>>
    <3>1. /\ Len(rbuf) \in Nat \ {0} /\ Len(inq) \in Nat
          /\ 1 <= Len(rbuf) /\ 1 \in 1 .. Total + 1
      BY <2>2 DEF CInv, TypeOK, Total
    <3>2. Pending[1] = rbuf[1]
      BY <3>1 DEF Pending
    <3> QED
      BY <3>2 DEF CInv, StreamInv
  <2> QED
    BY <2>1, <2>2 DEF RequestsInOrder
<1> QED
  BY <1>1, CInvHolds, PTL

\* try_fill_buffer's assertion never fails, although requests may stay in
\* rbuf while a reply is flushed (server.cpp:694).
THEOREM RbufKeepsRoom == SafeSpec => []RbufHasRoom
<1>1. CInv => RbufHasRoom
  BY DEF CInv, RoomInv, RbufHasRoom
<1> QED
  BY <1>1, CInvHolds, PTL

\* Neither buffer is overrun, whatever size a reply has (server.cpp:665-675).
THEOREM BuffersAlwaysFit == SafeSpec => []BuffersFit
<1>1. CInv => BuffersFit
  BY DEF CInv, RoomInv, BuffersFit
<1> QED
  BY <1>1, CInvHolds, PTL

\* The state of a connection says what it waits for (server.cpp:938).
THEOREM StateIsWhatIsAwaited == SafeSpec => []PolledForTheRightEvent
<1>1. CInv => PolledForTheRightEvent
  BY DEF CInv, ControlInv, PolledForTheRightEvent
<1> QED
  BY <1>1, CInvHolds, PTL
-----------------------------------------------------------------------------
\* The replies of the requests run.
Replies == [i \in 1 .. Len(executed) |-> Reply(executed[i])]

LEMMA RepliesTyped ==
  ASSUME TypeOK
  PROVE  Replies \in Seq(Seq(Request \X Nat)) /\ Len(Replies) = Len(executed)
<1>1. Len(executed) \in Nat /\ \A i \in 1 .. Len(executed) : executed[i] \in Request
  BY DEF TypeOK
<1>2. \A i \in 1 .. Len(executed) : Reply(executed[i]) \in Seq(Request \X Nat)
  BY <1>1, ReplyFits
<1> QED
  BY <1>1, <1>2 DEF Replies

\* A reply is put in wbuf, which is empty.
LEMMA ParseRequestReplies ==
  ASSUME CInv, RepliesInOrder, ParseRequest
  PROVE  RepliesInOrder'
<1> DEFINE r == Next_req
           sent == got \o outq
<1>1. /\ pc = "parse" /\ executed' = Append(executed, r) /\ wbuf' = Reply(r)
      /\ UNCHANGED <<got, outq, wbuf_sent>>
  BY DEF ParseRequest, client
<1>2. r \in Request
  BY WholeRequest DEF ParseRequest
<1> HIDE DEF r
<1>3. wbuf = <<>> /\ wbuf_sent = 0
  BY <1>1 DEF CInv, ControlInv
<1>4. /\ executed \in Seq(Request) /\ got \in Seq(Request \X Nat)
      /\ outq \in Seq(Request \X Nat) /\ Reply(r) \in Seq(Request \X Nat)
  BY <1>2, ReplyFits DEF CInv, TypeOK
<1>5. From(wbuf, wbuf_sent + 1) = <<>> /\ From(wbuf', wbuf_sent' + 1) = Reply(r)
  BY <1>1, <1>3, <1>4 DEF From
<1>6. sent \in Seq(Request \X Nat) /\ sent \o <<>> = sent
  BY <1>4, ConcatProperties, ConcatEmptySeq
<1>7. sent = FlattenSeq(Replies)
  BY <1>5, <1>6 DEF RepliesInOrder, Replies
<1>8. Replies' = Append(Replies, Reply(r))
  <2> DEFINE n == Len(executed)
  <2>1. n \in Nat /\ Len(executed') = n + 1 /\ executed'[n + 1] = r
        /\ \A i \in 1 .. n : executed'[i] = executed[i]
    BY <1>1, <1>2, <1>4
  <2>2. Replies' = [i \in 1 .. n + 1 |-> Reply(executed'[i])]
    BY <2>1 DEF Replies
  <2>3. Replies = [i \in 1 .. n |-> Reply(executed[i])]
    BY DEF Replies
  <2> HIDE DEF n
  <2> QED
    BY <2>1, <2>2, <2>3
<1>9. FlattenSeq(Replies') = sent \o Reply(r)
  BY <1>4, <1>7, <1>8, RepliesTyped, FlattenAppend DEF CInv
<1> QED
  BY <1>1, <1>5, <1>9 DEF RepliesInOrder, Replies

\* Bytes leave wbuf for the kernel's queue.
LEMMA SendDataReplies ==
  ASSUME CInv, RepliesInOrder, NEW n \in Nat, SendData(n)
  PROVE  RepliesInOrder'
<1> DEFINE i == wbuf_sent
<1>1. /\ n \in 1 .. Len(wbuf) - i
      /\ outq' = outq \o SubSeq(wbuf, i + 1, i + n)
      /\ UNCHANGED <<got, executed>>
  BY DEF SendData, client
<1>2. /\ got \in Seq(Request \X Nat) /\ outq \in Seq(Request \X Nat)
      /\ wbuf \in Seq(Request \X Nat) /\ i \in 0 .. Len(wbuf) /\ Len(wbuf) \in Nat
  BY DEF CInv, TypeOK
<1>3. From(wbuf', wbuf_sent' + 1) = SubSeq(wbuf, i + n + 1, Len(wbuf))
  <2>1. CASE i + n = Len(wbuf) /\ wbuf' = <<>> /\ wbuf_sent' = 0
    BY <2>1, <1>1, <1>2 DEF From
  <2>2. CASE wbuf_sent' = i + n /\ wbuf' = wbuf
    BY <2>2 DEF From
  <2> QED
    BY <2>1, <2>2 DEF SendData
<1>4. i + n <= Len(wbuf)
  BY <1>1, <1>2
<1> HIDE DEF i
<1>5. outq' = Cat(outq, Part(wbuf, i, n))
  BY <1>1 DEF Cat, Part
<1>6. Cat(Cat(got, outq'), Rest(wbuf, i + n)) = Cat(Cat(got, outq), Rest(wbuf, i))
  BY <1>2, <1>4, <1>5, TakeNext
<1>7. (got \o outq') \o SubSeq(wbuf, i + n + 1, Len(wbuf))
        = (got \o outq) \o SubSeq(wbuf, i + 1, Len(wbuf))
  BY <1>6 DEF Cat, Rest
<1> QED
  BY <1>1, <1>3, <1>7 DEF RepliesInOrder, From, i

LEMMA ClientReadReplies ==
  ASSUME CInv, RepliesInOrder, ClientRead
  PROVE  RepliesInOrder'
<1>1. /\ got' = got \o outq /\ outq' = <<>>
      /\ UNCHANGED <<wbuf, wbuf_sent, executed>>
  BY DEF ClientRead
<1>2. got \o outq \in Seq(Request \X Nat)
  BY ConcatProperties DEF CInv, TypeOK
<1>3. got' \o outq' = got \o outq
  BY <1>1, <1>2, ConcatEmptySeq
<1> QED
  BY <1>1, <1>3 DEF RepliesInOrder, From

LEMMA NextReplies ==
  ASSUME CInv, RepliesInOrder, [Next]_vars
  PROVE  RepliesInOrder'
<1>1. CASE UNCHANGED <<got, outq, wbuf, wbuf_sent, executed>>
  BY <1>1 DEF RepliesInOrder, From
<1>2. CASE ParseRequest \/ ClientRead \/ \E n \in 1 .. BufSize : SendData(n)
  <2>1. \A n \in 1 .. BufSize : n \in Nat
    BY Sizes
  <2> QED
    BY <1>2, <2>1, ParseRequestReplies, ClientReadReplies, SendDataReplies
<1>3. [Next]_vars =>
        \/ UNCHANGED <<got, outq, wbuf, wbuf_sent, executed>>
        \/ ParseRequest \/ ClientRead \/ \E n \in 1 .. BufSize : SendData(n)
  BY DEF Next, Server, ClientSend, ClientLeave, Wake, RecvData, RecvAgain, RecvEnd,
         ParseNothing, ParseReject, ParsePartial, SendAgain, SendFail, End, Die,
         client, vars
<1> QED
  BY <1>1, <1>2, <1>3

\* What the client gets is the replies, byte for byte and in order, however
\* often send() took a part of one and left the rest for another round of
\* the loop (server.cpp:251-279).
THEOREM RepliesStayInOrder == SafeSpec => []RepliesInOrder
<1>1. Init => RepliesInOrder
  <2> SUFFICES ASSUME Init PROVE RepliesInOrder
    OBVIOUS
  <2>1. got = <<>> /\ outq = <<>> /\ From(wbuf, wbuf_sent + 1) = <<>> /\ executed = <<>>
    BY DEF Init, From
  <2>2. got \o outq \o From(wbuf, wbuf_sent + 1) = <<>>
    BY <2>1
  <2>3. [i \in 1 .. Len(executed) |-> Reply(executed[i])] = <<>>
    BY <2>1
  <2> QED
    BY <2>2, <2>3, FlattenEmpty DEF RepliesInOrder
<1>2. CInv /\ RepliesInOrder /\ [Next]_vars => RepliesInOrder'
  BY NextReplies
<1> QED
  BY <1>1, <1>2, CInvHolds, PTL DEF SafeSpec
=============================================================================
