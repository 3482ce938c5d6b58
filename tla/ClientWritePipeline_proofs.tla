---------------------- MODULE ClientWritePipeline_proofs ----------------------
(***************************************************************************)
(* What holds of writes for every ring and any number and length of        *)
(* writes.  The order of the data is the application thread's own doing    *)
(* and holds whatever the coder does; that a stripe has its own parity     *)
(* needs the two threads' positions in the ring to agree, which is the     *)
(* second inductive invariant.                                             *)
(***************************************************************************)
EXTENDS ClientWritePipeline, TLAPS

\* How far buffer b lies ahead of the one that is sent next.
Ahead(b) == IF b >= sendIdx THEN b - sendIdx ELSE b - sendIdx + NumBufs

Filled(b) == input[b] # NoData

\* The sizes a write has passed through: written <= handled <= sizes[write].
Progress ==
  /\ written <= handled
  /\ write = 0 => handled = 0 /\ appPc = "idle"
  /\ write > 0 => handled <= sizes[write]
  /\ appPc \in {"idle", "ending", "ended"} /\ write > 0 => written = sizes[write]
  /\ appPc = "starting" => handled = 0

\* The filled buffers hold what has been handled and not yet sent, in the order
\* in which they will be sent.
RingInOrder ==
  /\ \A b \in Bufs : Filled(b) => inUse[b] /\ input[b][1] = write
                                  /\ written < input[b][2] /\ input[b][2] <= handled
  /\ \A n \in written + 1 .. handled : \E b \in Bufs : input[b] = <<write, n>>
  /\ \A b, c \in Bufs : Filled(b) /\ Filled(c) /\ Ahead(b) < Ahead(c) => input[b][2] < input[c][2]

\* While there is data to come, what is free is behind what is filled: a round
\* over the buffers goes from the first buffer on, and either nothing has been
\* sent before it or just one buffer is free.
FreeBehind ==
  /\ appPc = "fill" => \A b \in Bufs : b < fillIdx => inUse[b]
  /\ appPc = "fill" /\ handled < sizes[write] =>
       /\ sendIdx = 0 \/ \A b, c \in Bufs : ~inUse[b] /\ ~inUse[c] => b = c
       /\ \A b, c \in Bufs : ~inUse[b] /\ Filled(c) => Ahead(c) < Ahead(b)
  /\ appPc = "waitCoding" => fillIdx = 0
  /\ appPc = "waitCoding" /\ handled < sizes[write] => \A b \in Bufs : inUse[b]

\* What was sent goes on without a gap, up to bufWritedSize.
Last == sent[Len(sent)].data
SentInOrder ==
  /\ \A i \in 1 .. Len(sent) : sent[i].data[1] \in 1 .. write
  /\ \A i \in 1 .. Len(sent) - 1 :
       LET now == sent[i].data
           next == sent[i + 1].data
       IN \/ next = <<now[1], now[2] + 1>>
          \/ now[2] = sizes[now[1]] /\ next = <<now[1] + 1, 1>>
  /\ sent # <<>> => sent[1].data = <<1, 1>>
  /\ written > 0 => sent # <<>> /\ Last = <<write, written>>
  /\ written = 0 /\ write > 1 => sent # <<>> /\ Last = <<write - 1, sizes[write - 1]>>
  /\ written = 0 /\ write <= 1 => sent = <<>>

OrderInv == TypeOK /\ Progress /\ RingInOrder /\ FreeBehind /\ SentInOrder

-----------------------------------------------------------------------------
(* Lemmas about the ring. *)

\* The ring's arithmetic: every buffer has a distance of its own from the one
\* sent next, which is the one at distance 0.
LEMMA AheadInRing ==
  ASSUME sendIdx \in Bufs
  PROVE  /\ \A b \in Bufs : Ahead(b) \in Bufs
         /\ \A b, c \in Bufs : Ahead(b) = Ahead(c) => b = c
         /\ Ahead(sendIdx) = 0
         /\ sendIdx = 0 => \A b \in Bufs : Ahead(b) = b
BY NumBufsAssumption DEF Ahead, Bufs

LEMMA NextBufInRing ==
  ASSUME NEW b \in Bufs
  PROVE  NextBuf(b) \in Bufs
BY NumBufsAssumption DEF NextBuf, Bufs

\* When the send position moves on, its old buffer becomes the last one and
\* all others come one closer.
LEMMA AheadMoves ==
  ASSUME sendIdx \in Bufs, sendIdx' = NextBuf(sendIdx), NEW b \in Bufs
  PROVE  Ahead(b)' = IF b = sendIdx THEN NumBufs - 1 ELSE Ahead(b) - 1
BY NumBufsAssumption DEF Ahead, NextBuf, Bufs

-----------------------------------------------------------------------------
(* Type correctness. *)

LEMMA InitType == Init => TypeOK
<1> SUFFICES ASSUME Init PROVE TypeOK
  OBVIOUS
<1>1. 0 \in Bufs /\ NoData \in Data
  BY NumBufsAssumption DEF Bufs, NoData, Data
<1>2. sizes \in Seq(1 .. MaxSize) /\ sent \in Seq([data : Data, parity : Data])
  BY DEF Init
<1> QED
  BY <1>1, <1>2 DEF Init, TypeOK

LEMMA WriteCallType ==
  ASSUME TypeOK, Progress, WriteCall \/ \E n \in 1 .. MaxSize : PerformWriteJob(n)
  PROVE  TypeOK'
<1> USE DEF TypeOK, jobVars, appVars, bufVars, flagVars, semVars, coderVars
<1>0. 0 \in Bufs /\ NextBuf(fillIdx) \in Bufs /\ NextBuf(sendIdx) \in Bufs
  BY NextBufInRing, NumBufsAssumption DEF Bufs
<1>n. NoData \in Data
  BY DEF NoData, Data
<1>w. write \in Nat
  BY DEF write
<1>1. ASSUME NEW n \in 1 .. MaxSize, PerformWriteJob(n) PROVE TypeOK'
  <2>1. sizes' \in Seq(1 .. MaxSize)
    BY <1>1 DEF PerformWriteJob
  <2> QED
    BY <1>1, <2>1 DEF PerformWriteJob
<1>2. CASE StartCoder
  BY <1>0, <1>2 DEF StartCoder
<1>3. CASE FillBuf
  <2>1. <<write, handled + 1>> \in Data
    <3>1. handled + 1 \in Nat
      OBVIOUS
    <3> QED
      BY ONLY <1>w, <3>1 DEF Data
  <2>2. /\ input' \in [Bufs -> Data] /\ output' \in [Bufs -> Data] /\ handled' \in Nat
        /\ inUse' \in [Bufs -> BOOLEAN]
    <3>1. CASE handled < sizes[write]
      <4>1. /\ input' = [input EXCEPT ![fillIdx] = <<write, handled + 1>>]
            /\ output' = [output EXCEPT ![fillIdx] = NoData] /\ handled' = handled + 1
            /\ inUse' = [inUse EXCEPT ![fillIdx] = TRUE]
        BY <1>3, <3>1 DEF FillBuf
      <4> HIDE DEF jobVars, appVars, bufVars, flagVars, semVars, coderVars
      <4>2. input' \in [Bufs -> Data]
        BY <2>1, <4>1
      <4>3. output' \in [Bufs -> Data]
        BY <1>n, <4>1
      <4> QED
        BY <4>1, <4>2, <4>3
    <3>2. CASE ~(handled < sizes[write])
      BY <1>3, <3>2 DEF FillBuf
    <3> QED
      BY <3>1, <3>2
  <2> QED
    BY <1>0, <1>3, <2>2 DEF FillBuf
<1>4. CASE SkipBufInUse
  BY <1>0, <1>4 DEF SkipBufInUse
<1>5. CASE NothingToFill
  BY <1>5 DEF NothingToFill
<1>6. CASE WriteBufToServers
  <2>1. sent' \in Seq([data : Data, parity : Data]) /\ written' \in Nat
    <3> DEFINE stripe == [data |-> input[sendIdx], parity |-> output[sendIdx]]
               Stripes == [data : Data, parity : Data]
    <3>1. stripe \in Stripes
      OBVIOUS
    <3>2. \/ sent' = Append(sent, stripe) /\ written' = written + 1
          \/ UNCHANGED <<sent, written>>
      BY <1>6 DEF WriteBufToServers
    <3>3. sent \in Seq(Stripes) /\ written \in Nat
      OBVIOUS
    <3>4. sent' \in Seq(Stripes) /\ written' \in Nat
      <4> HIDE DEF stripe, Stripes, TypeOK
      <4> QED
        BY <3>1, <3>2, <3>3
    <3> QED
      BY <3>4
  <2>2. input' \in [Bufs -> Data] /\ inUse' \in [Bufs -> BOOLEAN] /\ jobFinishedSem' \in Nat
    BY <1>6, <1>n DEF WriteBufToServers, FreeBuf, CodingFinished
  <2> QED
    BY <1>0, <1>6, <2>1, <2>2 DEF WriteBufToServers
<1>7. CASE RaiseJobDone
  BY <1>7 DEF RaiseJobDone
<1>8. CASE ReturnFromWrite
  BY <1>8 DEF ReturnFromWrite
<1> QED
  BY <1>1, <1>2, <1>3, <1>4, <1>5, <1>6, <1>7, <1>8 DEF WriteCall

LEMMA CoderType ==
  ASSUME TypeOK, Coder
  PROVE  TypeOK'
<1> USE DEF TypeOK, jobVars, appVars, bufVars, flagVars, semVars, coderVars
<1>0. 0 \in Bufs /\ NextBuf(coderIdx) \in Bufs
  BY NextBufInRing, NumBufsAssumption DEF Bufs
<1>1. CASE WaitJobStart
  BY <1>1 DEF WaitJobStart
<1>2. CASE PerformCodingJob
  BY <1>0, <1>2 DEF PerformCodingJob
<1>3. CASE PerformEncodingJob
  BY <1>3 DEF PerformEncodingJob
<1>4. CASE WaitJob
  BY <1>4 DEF WaitJob
<1>5. CASE WokenForEnd
  BY <1>5 DEF WokenForEnd
<1>6. CASE Encode
  BY <1>0, <1>6 DEF Encode
<1> QED
  BY <1>1, <1>2, <1>3, <1>4, <1>5, <1>6 DEF Coder

-----------------------------------------------------------------------------
(* The order of the data. *)

\* What the order is about: the coder leaves all of it alone.
OrderVars == <<sizes, handled, written, appPc, fillIdx, sendIdx, inUse, input, sent>>

LEMMA CoderLeavesOrder ==
  ASSUME Coder
  PROVE  UNCHANGED OrderVars
BY DEF Coder, WaitJobStart, PerformCodingJob, PerformEncodingJob, WaitJob, WokenForEnd, Encode,
       OrderVars, jobVars, appVars, bufVars

LEMMA OrderUnchanged ==
  ASSUME Progress, RingInOrder, FreeBehind, SentInOrder, UNCHANGED OrderVars
  PROVE  Progress' /\ RingInOrder' /\ FreeBehind' /\ SentInOrder'
<1>1. Progress'
  BY DEF Progress, OrderVars, write
<1>2. RingInOrder'
  BY DEF RingInOrder, OrderVars, write, Filled, Ahead
<1>3. FreeBehind'
  BY DEF FreeBehind, OrderVars, write, Filled, Ahead
<1>4. SentInOrder'
  BY DEF SentInOrder, OrderVars, write, Last
<1> QED
  BY <1>1, <1>2, <1>3, <1>4

\* The end of a write finds the ring without data.
LEMMA NothingFilled ==
  ASSUME TypeOK, RingInOrder, written = handled
  PROVE  \A b \in Bufs : ~Filled(b)
<1>1. ASSUME NEW b \in Bufs, Filled(b) PROVE FALSE
  <2>1. input[b][2] \in Nat
    BY DEF TypeOK, Data
  <2>2. written < input[b][2] /\ input[b][2] <= handled
    BY <1>1 DEF RingInOrder
  <2> QED
    BY <2>1, <2>2 DEF TypeOK
<1> QED
  BY <1>1

\* A write is called: the data of the one before has all been sent.
LEMMA PerformWriteJobOrder ==
  ASSUME OrderInv, NEW n \in 1 .. MaxSize, PerformWriteJob(n)
  PROVE  Progress' /\ RingInOrder' /\ FreeBehind' /\ SentInOrder'
<1> USE DEF OrderInv
<1>1. /\ appPc = "idle" /\ sizes' = Append(sizes, n) /\ handled' = 0 /\ written' = 0
      /\ appPc' = "starting" /\ UNCHANGED <<fillIdx, sendIdx, inUse, input, sent>>
  BY DEF PerformWriteJob, bufVars
<1>2. /\ write \in Nat /\ write' = write + 1 /\ sizes'[write'] = n /\ n \in Nat \ {0}
      /\ \A w \in 1 .. write : sizes'[w] = sizes[w] /\ sizes[w] \in Nat \ {0}
  <2>1. sizes \in Seq(1 .. MaxSize) /\ n \in 1 .. MaxSize /\ sizes' = Append(sizes, n)
    BY <1>1 DEF TypeOK
  <2>2. \A w \in 1 .. Len(sizes) : sizes'[w] = sizes[w] /\ sizes[w] \in Nat \ {0}
    BY <2>1, BoundsAssumption
  <2>3. Len(sizes) \in Nat /\ Len(sizes') = Len(sizes) + 1 /\ sizes'[Len(sizes) + 1] = n
    BY <2>1
  <2> QED
    BY <2>2, <2>3 DEF write
<1>3. written = handled
  BY <1>1, <1>2 DEF Progress, TypeOK
<1>4. \A b \in Bufs : ~Filled(b)
  BY <1>3, NothingFilled
<1>5. Progress'
  BY <1>1, <1>2 DEF Progress
<1>6. RingInOrder'
  BY <1>1, <1>4 DEF RingInOrder, Filled
<1>7. FreeBehind'
  BY <1>1 DEF FreeBehind
<1>8. SentInOrder'
  <2> USE DEF SentInOrder, Last
  <2>1. \A i \in 1 .. Len(sent) : sent[i].data[1] \in 1 .. write
    OBVIOUS
  <2>2. Len(sent) \in Nat
    BY DEF TypeOK
  <2>3. written = 0 => write = 0
    BY <1>1, <1>2 DEF Progress
  <2>4. write > 0 => sent # <<>> /\ sent[Len(sent)].data = <<write, sizes[write]>>
    BY <1>1, <1>2, <2>3 DEF Progress, TypeOK
  <2>5. write = 0 => sent = <<>>
    BY <1>2 DEF Progress, TypeOK
  <2>6. \A i \in 1 .. Len(sent) : sent[i].data[1] \in 1 .. write' /\ sizes'[sent[i].data[1]] = sizes[sent[i].data[1]]
    BY <1>2, <2>1
  <2>7. \A i \in 1 .. Len(sent) - 1 :
          \/ sent[i + 1].data = <<sent[i].data[1], sent[i].data[2] + 1>>
          \/ /\ sent[i].data[2] = sizes'[sent[i].data[1]]
             /\ sent[i + 1].data = <<sent[i].data[1] + 1, 1>>
    BY <2>2, <2>6
  <2>8. write' > 1 => sent # <<>> /\ Last = <<write' - 1, sizes'[write' - 1]>>
    BY <1>2, <2>4
  <2>9. write' <= 1 => sent = <<>>
    BY <1>2, <2>5
  <2>10. sent # <<>> => sent[1].data = <<1, 1>>
    OBVIOUS
  <2>11. \A i \in 1 .. Len(sent) : sent[i].data[1] \in 1 .. write'
    BY <2>6
  <2> HIDE DEF OrderInv
  <2>12. sent' = sent /\ written' = 0 /\ ~(written' > 0)
    BY <1>1
  <2> QED
    BY <2>7, <2>8, <2>9, <2>10, <2>11, <2>12
<1> QED
  BY <1>5, <1>6, <1>7, <1>8

\* The coder is started: the round over the buffers begins at the first.
LEMMA StartCoderOrder ==
  ASSUME OrderInv, StartCoder
  PROVE  Progress' /\ RingInOrder' /\ FreeBehind' /\ SentInOrder'
<1> USE DEF OrderInv
<1>1. /\ appPc = "starting" /\ appPc' = "fill" /\ fillIdx' = 0 /\ sendIdx' = 0
      /\ UNCHANGED <<sizes, handled, written, inUse, input, sent>>
  BY DEF StartCoder, bufVars, jobVars
<1>2. handled = 0 /\ written = 0 /\ write \in Nat
  BY <1>1 DEF Progress, TypeOK, write
<1>3. \A b \in Bufs : ~Filled(b) /\ b >= 0
  BY <1>2, NothingFilled DEF Bufs
<1>4. Progress'
  BY <1>1 DEF Progress, write
<1>5. RingInOrder'
  BY <1>1, <1>2, <1>3 DEF RingInOrder, Filled
<1>6. FreeBehind'
  BY <1>1, <1>3 DEF FreeBehind, Filled, write, Bufs
<1>7. SentInOrder'
  BY <1>1 DEF SentInOrder, Last, write
<1> QED
  BY <1>4, <1>5, <1>6, <1>7

\* The buffer that is filled next is behind all that are filled.
LEMMA FillBufOrder ==
  ASSUME OrderInv, FillBuf
  PROVE  Progress' /\ RingInOrder' /\ FreeBehind' /\ SentInOrder'
<1> DEFINE f == fillIdx
           more == handled < sizes[write]
<1>1. /\ appPc = "fill" /\ ~inUse[f] /\ inUse' = [inUse EXCEPT ![f] = TRUE]
      /\ fillIdx' = NextBuf(f) /\ appPc' = IF f = NumBufs - 1 THEN "waitCoding" ELSE "fill"
      /\ UNCHANGED <<sizes, written, sendIdx, sent>>
  BY DEF FillBuf
<1>2. CASE more
  <2>1. input' = [input EXCEPT ![f] = <<write, handled + 1>>] /\ handled' = handled + 1
    BY <1>2 DEF FillBuf
  <2>t. /\ f \in Bufs /\ sendIdx \in Bufs /\ input \in [Bufs -> Nat \X Nat] /\ NumBufs \in Nat \ {0}
        /\ inUse \in [Bufs -> BOOLEAN] /\ handled \in Nat /\ written \in Nat /\ write \in Nat
    BY NumBufsAssumption DEF OrderInv, TypeOK, Data, write
  <2>w. write > 0 /\ sizes[write] \in Nat /\ written <= handled
    <3>1. write # 0 /\ written <= handled
      BY <1>1 DEF OrderInv, Progress
    <3>2. sizes \in Seq(1 .. MaxSize)
      BY DEF OrderInv, TypeOK
    <3> QED
      BY <2>t, <3>1, <3>2, BoundsAssumption DEF write
  <2>2. Progress'
    BY <1>1, <1>2, <2>1, <2>t, <2>w DEF Progress, write
  <2>3. ~Filled(f)
    BY <1>1, <2>t DEF OrderInv, RingInOrder
  <2>4. \A c \in Bufs : Filled(c) => Ahead(c) < Ahead(f)
    BY <1>1, <1>2, <2>t DEF OrderInv, FreeBehind
  <2>5. /\ \A b \in Bufs : b # f => input'[b] = input[b] /\ inUse'[b] = inUse[b]
        /\ input'[f] = <<write, handled + 1>> /\ inUse'[f] = TRUE /\ input'[f] # NoData
    BY <1>1, <2>1, <2>t DEF NoData
  <2>6. \A b \in Bufs : Ahead(b)' = Ahead(b) /\ Ahead(b) \in Nat
    BY <1>1, <2>t, AheadInRing DEF Ahead, Bufs
  <2>7. RingInOrder'
    <3>1. \A b \in Bufs : Filled(b)' => b = f \/ Filled(b)
      BY <2>5 DEF Filled
    <3>2. \A b \in Bufs : Filled(b)' => inUse'[b] /\ input'[b][1] = write
                                        /\ written < input'[b][2] /\ input'[b][2] <= handled'
      BY <2>1, <2>5, <2>t, <2>w, <3>1 DEF OrderInv, RingInOrder
    <3>3. \A n \in written + 1 .. handled' : \E b \in Bufs : input'[b] = <<write, n>>
      <4> SUFFICES ASSUME NEW n \in written + 1 .. handled'
                   PROVE  \E b \in Bufs : input'[b] = <<write, n>>
        OBVIOUS
      <4>1. CASE n = handled + 1
        BY <2>5, <2>t, <4>1
      <4>2. CASE n # handled + 1
        <5>1. n \in written + 1 .. handled
          BY <2>1, <2>t, <4>2
        <5>2. PICK b \in Bufs : input[b] = <<write, n>>
          BY <5>1 DEF OrderInv, RingInOrder
        <5>3. Filled(b)
          BY <2>t, <2>w, <5>2 DEF Filled, NoData
        <5> QED
          BY <2>3, <2>5, <5>2, <5>3
      <4> QED
        BY <4>1, <4>2
    <3>4. \A b, c \in Bufs : Filled(b)' /\ Filled(c)' /\ Ahead(b)' < Ahead(c)'
                               => input'[b][2] < input'[c][2]
      <4> SUFFICES ASSUME NEW b \in Bufs, NEW c \in Bufs, Filled(b)', Filled(c)', Ahead(b) < Ahead(c)
                   PROVE  input'[b][2] < input'[c][2]
        BY <2>6
      <4>1. CASE c = f
        <5>1. b # f /\ Filled(b)
          BY <2>6, <3>1, <4>1
        <5>2. input[b][2] \in Nat /\ input[b][2] <= handled
          BY <2>t, <5>1 DEF OrderInv, RingInOrder
        <5> QED
          BY <2>5, <2>t, <4>1, <5>1, <5>2
      <4>2. CASE c # f
        <5>1. Filled(c) /\ b # f
          BY <2>4, <2>6, <3>1, <4>2
        <5> QED
          BY <2>5, <3>1, <4>2, <5>1 DEF OrderInv, RingInOrder
      <4> QED
        BY <4>1, <4>2
    <3> HIDE DEF f
    <3> QED
      BY <1>1, <3>2, <3>3, <3>4 DEF RingInOrder, write
  <2>8. FreeBehind'
    <3>1. \A b \in Bufs : b < f => inUse[b]
      BY <1>1 DEF OrderInv, FreeBehind
    <3>2. ASSUME NEW b \in Bufs, b <= f PROVE inUse'[b]
      <4> b \in Nat /\ f \in Nat
        BY <2>t DEF Bufs
      <4>1. CASE b = f
        BY <2>5, <2>t, <4>1
      <4>2. CASE b # f
        <5>1. b < f
          BY <3>2, <4>2
        <5>2. inUse[b]
          BY <3>1, <5>1
        <5> QED
          BY <2>5, <2>t, <4>2, <5>2
      <4> QED
        BY <4>1, <4>2
    <3>3. CASE f = NumBufs - 1
      BY <1>1, <2>t, <3>2, <3>3 DEF FreeBehind, Bufs, NextBuf
    <3>4. CASE f # NumBufs - 1
      <4>1. appPc' = "fill" /\ fillIdx' = f + 1
        BY <1>1, <3>4 DEF NextBuf
      <4>2. \A b \in Bufs : b < fillIdx' => inUse'[b]
        BY <2>t, <3>2, <4>1 DEF Bufs
      <4>3. sendIdx = 0 \/ \A b, c \in Bufs : ~inUse[b] /\ ~inUse[c] => b = c
        BY <1>1, <1>2 DEF OrderInv, FreeBehind
      <4>4. \A b \in Bufs : ~inUse'[b] => ~inUse[b] /\ b # f /\ f < b
        BY <2>5, <2>t, <3>2 DEF Bufs
      <4>5. \A b, c \in Bufs : ~inUse'[b] /\ Filled(c)' => Ahead(c) < Ahead(b)
        <5> SUFFICES ASSUME NEW b \in Bufs, NEW c \in Bufs, ~inUse'[b], Filled(c)'
                     PROVE  Ahead(c) < Ahead(b)
          OBVIOUS
        <5>1. CASE c = f
          <6>1. sendIdx = 0
            BY <1>1, <4>3, <4>4, <2>t
          <6> QED
            BY <2>t, <4>4, <5>1, <6>1, AheadInRing
        <5>2. CASE c # f
          BY <1>1, <1>2, <2>5, <4>4, <5>2 DEF OrderInv, FreeBehind, Filled
        <5> QED
          BY <5>1, <5>2
      <4>6. sendIdx' = 0 \/ \A b, c \in Bufs : ~inUse'[b] /\ ~inUse'[c] => b = c
        BY <1>1, <4>3, <4>4
      <4> HIDE DEF f
      <4> QED
        BY <2>6, <4>1, <4>2, <4>5, <4>6 DEF FreeBehind
    <3> QED
      BY <3>3, <3>4
  <2>9. SentInOrder'
    BY <1>1 DEF OrderInv, SentInOrder, Last, write
  <2> QED
    BY <2>2, <2>7, <2>8, <2>9
<1>3. CASE ~more
  <2>1. UNCHANGED <<input, handled>>
    BY <1>3 DEF FillBuf
  <2>t. f \in Bufs /\ sendIdx \in Bufs /\ inUse \in [Bufs -> BOOLEAN] /\ NumBufs \in Nat \ {0}
    BY NumBufsAssumption DEF OrderInv, TypeOK
  <2>2. \A b \in Bufs : inUse[b] => inUse'[b]
    BY <1>1, <2>t
  <2>3. Progress'
    BY <1>1, <2>1 DEF OrderInv, Progress, write
  <2>4. RingInOrder'
    BY <1>1, <2>1, <2>2 DEF OrderInv, RingInOrder, Filled, Ahead, write
  <2>5. FreeBehind'
    <3>1. \A b \in Bufs : b <= f => inUse'[b]
      BY <1>1, <2>t, <2>2 DEF OrderInv, FreeBehind, Bufs
    <3>2. appPc' = "fill" => fillIdx' = f + 1
      BY <1>1 DEF NextBuf
    <3>3. \A b \in Bufs : appPc' = "fill" /\ b < fillIdx' => inUse'[b]
      BY <2>t, <3>1, <3>2 DEF Bufs
    <3>4. appPc' = "waitCoding" => fillIdx' = 0
      BY <1>1 DEF NextBuf
    <3> QED
      BY <1>1, <1>3, <2>1, <3>3, <3>4 DEF FreeBehind, write
  <2>6. SentInOrder'
    BY <1>1 DEF OrderInv, SentInOrder, Last, write
  <2> QED
    BY <2>3, <2>4, <2>5, <2>6
<1> QED
  BY <1>2, <1>3

\* The steps of a round that fill nothing.
LEMMA SkipOrder ==
  ASSUME OrderInv, SkipBufInUse \/ NothingToFill
  PROVE  Progress' /\ RingInOrder' /\ FreeBehind' /\ SentInOrder'
<1>1. UNCHANGED <<sizes, handled, written, sendIdx, inUse, input, sent>> /\ appPc = "fill"
  BY DEF SkipBufInUse, NothingToFill, jobVars, bufVars
<1>t. /\ fillIdx \in Bufs /\ NumBufs \in Nat \ {0} /\ handled \in Nat
      /\ \A b \in Bufs : b < fillIdx => inUse[b]
  BY <1>1, NumBufsAssumption DEF OrderInv, TypeOK, FreeBehind
<1>2. appPc' \in {"fill", "waitCoding"}
  BY DEF SkipBufInUse, NothingToFill
<1>3. Progress'
  BY <1>1, <1>2 DEF OrderInv, Progress, write
<1>4. RingInOrder'
  BY <1>1 DEF OrderInv, RingInOrder, Filled, Ahead, write
<1>5. FreeBehind'
  <2>1. CASE SkipBufInUse
    <3>1. inUse[fillIdx] /\ fillIdx' = NextBuf(fillIdx)
          /\ appPc' = IF fillIdx = NumBufs - 1 THEN "waitCoding" ELSE "fill"
      BY <2>1 DEF SkipBufInUse
    <3>2. \A b \in Bufs : b <= fillIdx => inUse[b]
      BY <1>t, <3>1 DEF Bufs
    <3>3. CASE fillIdx = NumBufs - 1
      BY <1>1, <1>t, <3>1, <3>2, <3>3 DEF FreeBehind, Bufs, NextBuf
    <3>4. CASE fillIdx # NumBufs - 1
      <4>1. fillIdx' = fillIdx + 1 /\ appPc' = "fill"
        BY <3>1, <3>4 DEF NextBuf
      <4>2. \A b \in Bufs : b < fillIdx' => inUse[b]
        BY <1>t, <3>2, <4>1 DEF Bufs
      <4> QED
        BY <1>1, <4>1, <4>2 DEF OrderInv, FreeBehind, Filled, Ahead, write
    <3> QED
      BY <3>3, <3>4
  <2>2. CASE NothingToFill
    <3>1. handled >= sizes[write] /\ appPc' = "waitCoding" /\ fillIdx' = 0
      BY <2>2 DEF NothingToFill
    <3>2. handled <= sizes[write] /\ sizes[write] \in Nat
      <4>1. write # 0 /\ sizes \in Seq(1 .. MaxSize) /\ (write > 0 => handled <= sizes[write])
        BY <1>1 DEF OrderInv, Progress, TypeOK
      <4> QED
        BY <4>1, BoundsAssumption DEF write
    <3> QED
      BY <1>1, <1>t, <3>1, <3>2 DEF FreeBehind, write
  <2> QED
    BY <2>1, <2>2
<1>6. SentInOrder'
  BY <1>1 DEF OrderInv, SentInOrder, Last, write
<1> QED
  BY <1>3, <1>4, <1>5, <1>6

\* The buffer that is sent holds the next of the data, if any.
LEMMA WriteBufOrder ==
  ASSUME OrderInv, WriteBufToServers
  PROVE  Progress' /\ RingInOrder' /\ FreeBehind' /\ SentInOrder'
<1> DEFINE s == sendIdx
           stripe == [data |-> input[s], parity |-> output[s]]
<1>1. /\ appPc = "waitCoding" /\ sendIdx' = NextBuf(sendIdx)
      /\ input' = [input EXCEPT ![s] = NoData] /\ inUse' = [inUse EXCEPT ![s] = FALSE]
      /\ appPc' = IF written' < sizes[write] THEN "fill" ELSE "ending"
      /\ UNCHANGED <<sizes, handled, fillIdx>>
  BY DEF WriteBufToServers, FreeBuf
<1>2. IF Filled(s) THEN sent' = Append(sent, stripe) /\ written' = written + 1
                   ELSE UNCHANGED <<sent, written>>
  BY DEF WriteBufToServers, Filled
<1>t. /\ s \in Bufs /\ sendIdx' \in Bufs /\ input \in [Bufs -> Nat \X Nat] /\ NumBufs \in Nat \ {0}
      /\ inUse \in [Bufs -> BOOLEAN] /\ handled \in Nat /\ written \in Nat /\ write \in Nat
      /\ sent \in Seq([data : Data, parity : Data]) /\ fillIdx = 0
  <2>1. TypeOK
    BY DEF OrderInv
  <2>2. fillIdx = 0
    BY <1>1 DEF OrderInv, FreeBehind
  <2>3. sendIdx' \in Bufs
    BY <1>1, <2>1, NextBufInRing DEF TypeOK
  <2>4. s \in Bufs /\ inUse \in [Bufs -> BOOLEAN] /\ handled \in Nat /\ written \in Nat
    BY <2>1 DEF TypeOK
  <2>5. input \in [Bufs -> Nat \X Nat] /\ write \in Nat
    BY <2>1 DEF TypeOK, Data, write
  <2>6. sent \in Seq([data : Data, parity : Data])
    BY <2>1 DEF TypeOK
  <2> QED
    BY <2>2, <2>3, <2>4, <2>5, <2>6, NumBufsAssumption
<1>w. write > 0 /\ sizes[write] \in Nat /\ written <= handled /\ handled <= sizes[write]
  <2>1. write # 0 /\ written <= handled /\ (write > 0 => handled <= sizes[write])
    BY <1>1 DEF OrderInv, Progress
  <2>2. sizes \in Seq(1 .. MaxSize)
    BY DEF OrderInv, TypeOK
  <2> QED
    BY <1>t, <2>1, <2>2, BoundsAssumption DEF write
<1>3. /\ \A b \in Bufs : b # s => input'[b] = input[b] /\ inUse'[b] = inUse[b]
      /\ input'[s] = NoData /\ inUse'[s] = FALSE
  BY <1>1, <1>t
<1>4. /\ \A b \in Bufs : Ahead(b)' = IF b = s THEN NumBufs - 1 ELSE Ahead(b) - 1
      /\ \A b \in Bufs : Ahead(b) \in Bufs /\ (b # s => Ahead(b) > 0)
      /\ Ahead(s) = 0
  <2>1. \A b \in Bufs : Ahead(b)' = IF b = s THEN NumBufs - 1 ELSE Ahead(b) - 1
    BY <1>1, <1>t, AheadMoves
  <2>2. \A b \in Bufs : Ahead(b) \in Bufs /\ (Ahead(b) = Ahead(s) => b = s)
    BY <1>t, AheadInRing
  <2>3. Ahead(s) = 0
    BY <1>t, AheadInRing
  <2>4. \A b \in Bufs : b # s => Ahead(b) > 0
    BY <2>2, <2>3 DEF Bufs
  <2> QED
    BY <2>1, <2>2, <2>3, <2>4
<1>5. \A b \in Bufs : Filled(b)' <=> Filled(b) /\ b # s
  BY <1>3 DEF Filled
<1>6. Filled(s) => input[s] = <<write, written + 1>> /\ written + 1 <= handled
  <2> SUFFICES ASSUME Filled(s) PROVE input[s] = <<write, written + 1>> /\ written + 1 <= handled
    OBVIOUS
  <2>1. input[s][1] = write /\ written < input[s][2] /\ input[s][2] <= handled
    BY <1>t DEF OrderInv, RingInOrder
  <2>2. written + 1 <= handled /\ input[s][2] \in Nat
    BY <1>t, <2>1
  <2>3. PICK c \in Bufs : input[c] = <<write, written + 1>>
    <3>1. written + 1 \in written + 1 .. handled
      BY <1>t, <2>2
    <3> QED
      BY <3>1 DEF OrderInv, RingInOrder
  <2>4. c = s
    <3> SUFFICES ASSUME c # s PROVE FALSE
      OBVIOUS
    <3>1. Filled(c)
      BY <1>w, <2>3 DEF Filled, NoData
    <3>2. Ahead(s) < Ahead(c)
      BY <1>4
    <3>3. input[s][2] < input[c][2]
      BY <1>t, <3>1, <3>2 DEF OrderInv, RingInOrder
    <3> QED
      BY <1>t, <2>1, <2>2, <2>3, <3>3
  <2> QED
    BY <2>2, <2>3, <2>4
<1>7. written' \in Nat /\ written <= written' /\ written' <= handled /\ written' = IF Filled(s) THEN written + 1 ELSE written
  BY <1>2, <1>t, <1>w, <1>6
<1>8. Progress'
  <2>1. appPc' = "ending" => written' = sizes[write]
    BY <1>1, <1>7, <1>t, <1>w
  <2> QED
    BY <1>1, <1>7, <1>t, <1>w, <2>1 DEF Progress, write
<1>9. RingInOrder'
  <2>1. \A b \in Bufs : Filled(b)' => inUse'[b] /\ input'[b][1] = write
                                      /\ written' < input'[b][2] /\ input'[b][2] <= handled
    <3> SUFFICES ASSUME NEW b \in Bufs, Filled(b), b # s
                 PROVE  /\ inUse[b] /\ input[b][1] = write
                        /\ written' < input[b][2] /\ input[b][2] <= handled
      BY <1>3, <1>5
    <3>1. inUse[b] /\ input[b][1] = write /\ written < input[b][2] /\ input[b][2] <= handled
      BY DEF OrderInv, RingInOrder
    <3>2. Filled(s) => input[s][2] < input[b][2]
      BY <1>4, <1>t DEF OrderInv, RingInOrder
    <3>3. input[b][2] \in Nat
      BY <1>t
    <3> QED
      BY <1>2, <1>6, <1>7, <1>t, <3>1, <3>2, <3>3
  <2>2. \A n \in written' + 1 .. handled : \E b \in Bufs : input'[b] = <<write, n>>
    <3> SUFFICES ASSUME NEW n \in written' + 1 .. handled
                 PROVE  \E b \in Bufs : input'[b] = <<write, n>>
      OBVIOUS
    <3>1. n \in written + 1 .. handled /\ (Filled(s) => n # written + 1)
      BY <1>7, <1>t
    <3>2. PICK b \in Bufs : input[b] = <<write, n>>
      BY <3>1 DEF OrderInv, RingInOrder
    <3>3. Filled(b) /\ input[b][2] = n
      BY <1>w, <3>2 DEF Filled, NoData
    <3>4. b # s
      BY <1>6, <3>1, <3>3
    <3> QED
      BY <1>3, <3>2, <3>4
  <2>3. \A b, c \in Bufs : Filled(b)' /\ Filled(c)' /\ Ahead(b)' < Ahead(c)' => input'[b][2] < input'[c][2]
    <3> SUFFICES ASSUME NEW b \in Bufs, NEW c \in Bufs, Filled(b), Filled(c), b # s, c # s,
                        Ahead(b)' < Ahead(c)'
                 PROVE  input[b][2] < input[c][2]
      BY <1>3, <1>5
    <3>1. Ahead(b) \in Nat /\ Ahead(c) \in Nat
      BY <1>4, <1>t DEF Bufs
    <3>2. Ahead(b) < Ahead(c)
      BY <1>4, <3>1
    <3> QED
      BY <3>2 DEF OrderInv, RingInOrder
  <2> HIDE DEF s
  <2> QED
    BY <1>1, <2>1, <2>2, <2>3 DEF RingInOrder, write
<1>10. FreeBehind'
  <2>1. \A b \in Bufs : ~(b < fillIdx')
    BY <1>1, <1>t DEF Bufs
  <2>2. handled < sizes[write] => \A b \in Bufs : ~inUse'[b] => b = s
    BY <1>1, <1>3 DEF OrderInv, FreeBehind
  <2>3. \A b, c \in Bufs : b = s /\ Filled(c)' => Ahead(c)' < Ahead(b)'
    <3> SUFFICES ASSUME NEW b \in Bufs, NEW c \in Bufs, b = s, c # s PROVE Ahead(c)' < Ahead(b)'
      BY <1>5
    <3>1. Ahead(c)' = Ahead(c) - 1 /\ Ahead(b)' = NumBufs - 1 /\ Ahead(c) \in 0 .. NumBufs - 1
      BY <1>4, <1>t DEF Bufs
    <3> QED
      BY <1>t, <3>1
  <2>4. appPc' # "waitCoding"
    BY <1>1
  <2>5. handled' = handled /\ sizes' = sizes
    BY <1>1
  <2>6. handled < sizes[write] => \A b, c \in Bufs : ~inUse'[b] /\ Filled(c)' => Ahead(c)' < Ahead(b)'
    BY <2>2, <2>3
  <2> HIDE DEF s
  <2> QED
    BY <2>1, <2>2, <2>4, <2>5, <2>6 DEF FreeBehind, write
<1>11. SentInOrder'
  <2>1. CASE ~Filled(s)
    <3>1. UNCHANGED <<sizes, sent, written>>
      BY <1>1, <1>2, <2>1
    <3> QED
      BY <3>1 DEF OrderInv, SentInOrder, Last, write
  <2>2. CASE Filled(s)
    <3> DEFINE L == Len(sent)
               T == [data : Data, parity : Data]
    <3>1. stripe.data = <<write, written + 1>> /\ stripe \in T
      BY <1>6, <1>t, <2>2 DEF Data, OrderInv, TypeOK
    <3>2. /\ L \in Nat /\ Len(sent') = L + 1 /\ sent'[L + 1] = stripe
          /\ \A i \in 1 .. L : sent'[i] = sent[i]
      <4>1. sent \in Seq(T) /\ sent' = Append(sent, stripe)
        BY <1>2, <1>t, <2>2
      <4> HIDE DEF stripe, T
      <4> QED
        BY <3>1, <4>1
    <3> HIDE DEF stripe, L
    <3>3. \A i \in 1 .. L + 1 : sent'[i].data[1] \in 1 .. write
      <4>1. \A i \in 1 .. L : sent[i].data[1] \in 1 .. write
        BY DEF OrderInv, SentInOrder, L
      <4>2. sent'[L + 1].data[1] = write /\ write \in 1 .. write
        BY <1>t, <1>w, <3>1, <3>2
      <4>3. \A i \in 1 .. L + 1 : i \in 1 .. L \/ i = L + 1
        BY <3>2
      <4> QED
        BY <3>2, <4>1, <4>2, <4>3
    <3>4. written > 0 => sent # <<>> /\ sent[L].data = <<write, written>>
      BY DEF OrderInv, SentInOrder, Last, L
    <3>5. written = 0 /\ write > 1 => sent # <<>> /\ sent[L].data = <<write - 1, sizes[write - 1]>>
      BY DEF OrderInv, SentInOrder, Last, L
    <3>6. written = 0 /\ write <= 1 => L = 0
      BY DEF OrderInv, SentInOrder, L
    <3>7. L > 0 => \/ sent'[L + 1].data = <<sent[L].data[1], sent[L].data[2] + 1>>
                   \/ /\ sent[L].data[2] = sizes[sent[L].data[1]]
                      /\ sent'[L + 1].data = <<sent[L].data[1] + 1, 1>>
      <4>1. sent'[L + 1].data = <<write, written + 1>> /\ write \in Nat /\ written \in Nat
        BY <1>t, <1>w, <3>1, <3>2
      <4>2. CASE written > 0
        BY <3>4, <4>1, <4>2
      <4>3. CASE written = 0 /\ write > 1
        <5>1. sent[L].data[1] = write - 1 /\ sent[L].data[2] = sizes[write - 1]
          BY <3>5, <4>3
        <5>2. write - 1 + 1 = write /\ written + 1 = 1
          BY <4>1, <4>3
        <5> QED
          BY <4>1, <5>1, <5>2
      <4>4. CASE written = 0 /\ write <= 1
        BY <3>6, <4>4
      <4> QED
        BY <4>1, <4>2, <4>3, <4>4
    <3>8. \A i \in 1 .. L - 1 :
            \/ sent[i + 1].data = <<sent[i].data[1], sent[i].data[2] + 1>>
            \/ /\ sent[i].data[2] = sizes[sent[i].data[1]]
               /\ sent[i + 1].data = <<sent[i].data[1] + 1, 1>>
      BY DEF OrderInv, SentInOrder, L
    <3>9. \A i \in 1 .. L :
            \/ sent'[i + 1].data = <<sent'[i].data[1], sent'[i].data[2] + 1>>
            \/ /\ sent'[i].data[2] = sizes[sent'[i].data[1]]
               /\ sent'[i + 1].data = <<sent'[i].data[1] + 1, 1>>
      <4> SUFFICES ASSUME NEW i \in 1 .. L
                   PROVE  \/ sent'[i + 1].data = <<sent'[i].data[1], sent'[i].data[2] + 1>>
                          \/ /\ sent'[i].data[2] = sizes[sent'[i].data[1]]
                             /\ sent'[i + 1].data = <<sent'[i].data[1] + 1, 1>>
        OBVIOUS
      <4>1. sent'[i] = sent[i]
        BY <3>2
      <4>2. CASE i = L
        <5>1. L > 0
          BY <3>2
        <5> QED
          BY <3>7, <4>1, <4>2, <5>1
      <4>3. CASE i # L
        <5>1. i \in 1 .. L - 1 /\ i + 1 \in 1 .. L
          BY <3>2, <4>3
        <5>2. sent'[i + 1] = sent[i + 1]
          BY <3>2, <5>1
        <5> QED
          BY <3>8, <4>1, <5>1, <5>2
      <4> QED
        BY <4>2, <4>3
    <3>10. sent'[1].data = <<1, 1>>
      <4>1. L > 0 => sent[1].data = <<1, 1>>
        BY <3>2 DEF OrderInv, SentInOrder, L
      <4>2. L = 0 => written = 0 /\ write = 1
        <5>1. L = 0 => sent = <<>>
          BY <1>t DEF L
        <5> QED
          BY <1>t, <1>w, <3>4, <3>5, <5>1
      <4> QED
        BY <3>1, <3>2, <4>1, <4>2
    <3>11. sent' # <<>> /\ written' = written + 1 /\ written' > 0
      BY <1>2, <1>t, <2>2, <3>2
    <3> QED
      BY <1>1, <3>1, <3>2, <3>3, <3>9, <3>10, <3>11 DEF SentInOrder, Last, write
  <2> QED
    BY <2>1, <2>2
<1> QED
  BY <1>8, <1>9, <1>10, <1>11

\* The end of a call.
LEMMA EndOrder ==
  ASSUME OrderInv, RaiseJobDone \/ ReturnFromWrite
  PROVE  Progress' /\ RingInOrder' /\ FreeBehind' /\ SentInOrder'
<1>1. /\ UNCHANGED <<sizes, handled, written, fillIdx, sendIdx, inUse, input, sent>>
      /\ appPc \in {"ending", "ended"} /\ appPc' \in {"ended", "idle"}
  BY DEF RaiseJobDone, ReturnFromWrite, jobVars, bufVars
<1>2. Progress'
  BY <1>1 DEF OrderInv, Progress, write
<1>3. RingInOrder'
  BY <1>1 DEF OrderInv, RingInOrder, Filled, Ahead, write
<1>4. FreeBehind'
  BY <1>1 DEF FreeBehind
<1>5. SentInOrder'
  BY <1>1 DEF OrderInv, SentInOrder, Last, write
<1> QED
  BY <1>2, <1>3, <1>4, <1>5

LEMMA OrderStep ==
  ASSUME OrderInv, [Next]_vars
  PROVE  OrderInv'
<1>1. ASSUME NEW n \in 1 .. MaxSize, PerformWriteJob(n) PROVE OrderInv'
  BY <1>1, PerformWriteJobOrder, WriteCallType DEF OrderInv
<1>2. CASE WriteCall
  <2>1. TypeOK'
    BY <1>2, WriteCallType DEF OrderInv
  <2>2. Progress' /\ RingInOrder' /\ FreeBehind' /\ SentInOrder'
    BY <1>2, StartCoderOrder, FillBufOrder, SkipOrder, WriteBufOrder, EndOrder DEF WriteCall
  <2> QED
    BY <2>1, <2>2 DEF OrderInv
<1>3. CASE Coder
  BY <1>3, CoderType, CoderLeavesOrder, OrderUnchanged DEF OrderInv
<1>4. CASE UNCHANGED vars
  <2>1. TypeOK'
    BY <1>4 DEF OrderInv, TypeOK, vars, jobVars, appVars, bufVars, flagVars, semVars, coderVars
  <2>2. UNCHANGED OrderVars
    BY <1>4 DEF OrderVars, vars, jobVars, appVars, bufVars
  <2> QED
    BY <2>1, <2>2, OrderUnchanged DEF OrderInv
<1> QED
  BY <1>1, <1>2, <1>3, <1>4 DEF Next, AllWritten

LEMMA OrderInit == Init => OrderInv
<1> SUFFICES ASSUME Init PROVE OrderInv
  OBVIOUS
<1>1. write = 0 /\ handled = 0 /\ written = 0 /\ appPc = "idle" /\ sent = <<>>
  BY DEF Init, write
<1>2. \A b \in Bufs : ~Filled(b)
  BY DEF Init, Filled
<1>3. Progress /\ FreeBehind
  BY <1>1 DEF Progress, FreeBehind
<1>4. RingInOrder
  BY <1>1, <1>2 DEF RingInOrder
<1>5. SentInOrder
  BY <1>1 DEF SentInOrder
<1> QED
  BY <1>3, <1>4, <1>5, InitType DEF OrderInv

THEOREM OrderInvariant == Spec => []OrderInv
<1>1. OrderInv /\ [Next]_vars => OrderInv'
  BY OrderStep
<1> QED
  BY <1>1, OrderInit, PTL DEF Spec

\* The data blocks hold the file: for every ring, whatever the number and the
\* lengths of the writes and the speed of the coder, the stripes are sent in the
\* order of the data, without a gap and without one sent twice, also across
\* writes that leave the ring half used.
THEOREM DataStaysInOrder == Spec => []DataInOrder
<1>1. OrderInv => DataInOrder
  BY DEF OrderInv, SentInOrder, DataInOrder, Last
<1> QED
  BY <1>1, OrderInvariant, PTL

-----------------------------------------------------------------------------
(* The two threads in step. *)

\* The buffers handed to the coder and not yet sent.
Pending == handled - written

\* When every write fills the ring, the buffers in use are the pending ones, the
\* next to be sent first: no buffer is handed over empty.
RingFull ==
  /\ Pending <= NumBufs
  /\ \A b \in Bufs :
       /\ Ahead(b) < Pending => inUse[b] /\ input[b] = <<write, written + 1 + Ahead(b)>>
       /\ Ahead(b) >= Pending => ~inUse[b] /\ ~Filled(b)
  /\ appPc = "fill" =>
       /\ handled < sizes[write] => written = 0 \/ Pending >= NumBufs - 1
       /\ handled = sizes[write] /\ fillIdx > 0 => Pending = NumBufs

\* The tokens of the two semaphores count the pending buffers, coded or not, and
\* the coder stands as many buffers ahead of the sender as it has coded.
TokensCountBuffers ==
  appPc \in {"fill", "waitCoding", "ending"} =>
    /\ ~jobDoneFlag /\ ~jobFinishedFlag
    /\ jobStartSem = IF coderPc = "idle" THEN 1 ELSE 0
    /\ waitJobSem + jobFinishedSem + (IF coderPc = "woken" THEN 1 ELSE 0) = Pending
    /\ coderPc \in {"idle", "coding"} => jobFinishedSem = 0 /\ sendIdx = 0
    /\ coderPc \notin {"idle", "coding"} =>
         Ahead(coderIdx) = IF jobFinishedSem = NumBufs THEN 0 ELSE jobFinishedSem
    /\ \A b \in Bufs : Ahead(b) < jobFinishedSem => output[b] = input[b]

\* Outside a write the only token is the one that sends the coder to rest.
NoTokenLeft ==
  appPc \in {"idle", "starting", "ended"} =>
    /\ jobStartSem = 0 /\ jobFinishedSem = 0
    /\ waitJobSem = IF appPc = "idle" /\ coderPc = "waitJob" THEN 1 ELSE 0
    /\ appPc = "starting" => coderPc = "idle" /\ ~jobDoneFlag
    /\ appPc = "ended" => coderPc = "waitJob" /\ jobDoneFlag /\ ~jobFinishedFlag
    /\ appPc = "idle" => coderPc # "encodeLoop"
    /\ appPc = "idle" /\ coderPc # "idle" => jobDoneFlag /\ jobFinishedFlag

InStep == RingFull /\ TokensCountBuffers /\ NoTokenLeft /\ StripesConsistent
LockStepInv == OrderInv /\ (LongWritesPromptCoder => InStep)

\* The ring's arithmetic, going forward: every distance is some buffer's, and
\* the next buffer is one further ahead.
LEMMA AheadOnto ==
  ASSUME sendIdx \in Bufs, NEW n \in Bufs
  PROVE  \E b \in Bufs : Ahead(b) = n
<1> DEFINE b == IF sendIdx + n < NumBufs THEN sendIdx + n ELSE sendIdx + n - NumBufs
<1>1. b \in Bufs /\ Ahead(b) = n
  BY NumBufsAssumption DEF Ahead, Bufs
<1> QED
  BY <1>1

LEMMA AheadOfNext ==
  ASSUME sendIdx \in Bufs, NEW b \in Bufs
  PROVE  Ahead(NextBuf(b)) = IF Ahead(b) = NumBufs - 1 THEN 0 ELSE Ahead(b) + 1
BY NumBufsAssumption DEF Ahead, NextBuf, Bufs

\* Once a write was too short or the coder late, that stays so.
LEMMA LongWritesStep ==
  ASSUME OrderInv, [Next]_vars, LongWritesPromptCoder'
  PROVE  LongWritesPromptCoder /\ ~late'
<1>1. ~late' /\ (late => late')
  <2>1. ~late'
    BY DEF LongWritesPromptCoder
  <2>2. (\E n \in 1 .. MaxSize : PerformWriteJob(n)) \/ RaiseJobDone => (late => late')
    BY DEF PerformWriteJob, RaiseJobDone
  <2>3. StartCoder \/ FillBuf \/ SkipBufInUse \/ NothingToFill \/ WriteBufToServers
        \/ ReturnFromWrite => (late => late')
    BY DEF StartCoder, FillBuf, SkipBufInUse, NothingToFill, WriteBufToServers, ReturnFromWrite
  <2>4. Coder => (late => late')
    BY DEF Coder, WaitJobStart, PerformCodingJob, PerformEncodingJob, WaitJob, WokenForEnd, Encode
  <2>5. UNCHANGED vars => (late => late')
    BY DEF vars
  <2> QED
    BY <2>1, <2>2, <2>3, <2>4, <2>5 DEF Next, WriteCall, AllWritten
<1>2. \A w \in 1 .. write' : sizes'[w] >= NumBufs
  BY DEF LongWritesPromptCoder
<1>3. \/ UNCHANGED sizes
      \/ \E n \in 1 .. MaxSize : sizes' = Append(sizes, n)
  BY DEF Next, WriteCall, StartCoder, FillBuf, SkipBufInUse, NothingToFill,
         WriteBufToServers, RaiseJobDone, ReturnFromWrite, Coder, WaitJobStart, PerformCodingJob,
         PerformEncodingJob, WaitJob, WokenForEnd, Encode, PerformWriteJob, AllWritten, vars, jobVars
<1>4. CASE UNCHANGED sizes
  BY <1>1, <1>2, <1>4 DEF LongWritesPromptCoder, write
<1>5. CASE \E n \in 1 .. MaxSize : sizes' = Append(sizes, n)
  <2>1. PICK n \in 1 .. MaxSize : sizes' = Append(sizes, n)
    BY <1>5
  <2>2. sizes \in Seq(1 .. MaxSize)
    BY DEF OrderInv, TypeOK
  <2>3. write \in Nat /\ write' = write + 1 /\ \A w \in 1 .. write : sizes'[w] = sizes[w]
    BY <2>1, <2>2 DEF write
  <2>4. \A w \in 1 .. write : sizes[w] >= NumBufs
    BY <1>2, <2>3
  <2> QED
    BY <1>1, <2>4 DEF LongWritesPromptCoder
<1> QED
  BY <1>3, <1>4, <1>5

LEMMA InStepInit == Init => InStep
<1> SUFFICES ASSUME Init PROVE InStep
  OBVIOUS
<1>1. \A b \in Bufs : Ahead(b) \in Bufs
  BY AheadInRing, InitType DEF TypeOK
<1>2. RingFull
  BY <1>1, NumBufsAssumption DEF Init, RingFull, Pending, Filled, Bufs
<1>3. TokensCountBuffers /\ NoTokenLeft
  BY DEF Init, TokensCountBuffers, NoTokenLeft
<1>4. StripesConsistent
  BY DEF Init, StripesConsistent
<1> QED
  BY <1>2, <1>3, <1>4 DEF InStep

\* A write is called with the coder at rest.
LEMMA PerformWriteJobInStep ==
  ASSUME OrderInv, InStep, NEW n \in 1 .. MaxSize, PerformWriteJob(n), ~late'
  PROVE  InStep'
<1>1. /\ appPc = "idle" /\ handled' = 0 /\ written' = 0 /\ ~jobDoneFlag' /\ appPc' = "starting"
      /\ coderPc = "idle"
      /\ UNCHANGED <<sendIdx, inUse, input, output, jobFinishedFlag, jobStartSem, waitJobSem,
                     jobFinishedSem, coderPc, coderIdx, sent>>
  BY DEF PerformWriteJob, bufVars, semVars, coderVars
<1>2. handled = written /\ handled \in Nat /\ sendIdx \in Bufs
  <2>1. write > 0 => written = handled
    BY <1>1 DEF OrderInv, Progress, TypeOK, write
  <2>2. write = 0 => written = handled
    BY DEF OrderInv, Progress, TypeOK
  <2> QED
    BY <2>1, <2>2 DEF OrderInv, TypeOK, write
<1>3. \A b \in Bufs : Ahead(b) \in Bufs /\ Ahead(b)' = Ahead(b)
  BY <1>1, <1>2, AheadInRing DEF Ahead
<1>4. \A b \in Bufs : ~inUse[b] /\ ~Filled(b)
  BY <1>2, <1>3 DEF InStep, RingFull, Pending, Bufs
<1>5. RingFull'
  BY <1>1, <1>3, <1>4, NumBufsAssumption DEF RingFull, Pending, Filled, Bufs
<1>6. TokensCountBuffers' /\ NoTokenLeft'
  BY <1>1 DEF InStep, TokensCountBuffers, NoTokenLeft
<1>7. StripesConsistent'
  BY <1>1 DEF InStep, StripesConsistent
<1> QED
  BY <1>5, <1>6, <1>7 DEF InStep

LEMMA StartCoderInStep ==
  ASSUME OrderInv, InStep, LongWritesPromptCoder, StartCoder
  PROVE  InStep'
<1>1. /\ appPc = "starting" /\ appPc' = "fill" /\ fillIdx' = 0 /\ sendIdx' = 0 /\ ~jobFinishedFlag'
      /\ jobStartSem' = jobStartSem + 1
      /\ UNCHANGED <<sizes, handled, written, inUse, input, output, jobDoneFlag, waitJobSem,
                     jobFinishedSem, coderPc, coderIdx, sent>>
  BY DEF StartCoder, jobVars, bufVars, coderVars
<1>2. handled = 0 /\ written = 0 /\ sendIdx \in Bufs /\ sendIdx' \in Bufs
  BY <1>1, NumBufsAssumption DEF OrderInv, Progress, TypeOK, Bufs
<1>3. \A b \in Bufs : Ahead(b) \in Bufs /\ Ahead(b)' \in Bufs
  <2>1. \A b \in Bufs : Ahead(b) \in Bufs
    BY <1>2, AheadInRing
  <2>2. \A b \in Bufs : Ahead(b)' = b
    BY <1>1 DEF Ahead, Bufs
  <2> QED
    BY <2>1, <2>2
<1>4. \A b \in Bufs : ~inUse[b] /\ ~Filled(b)
  BY <1>2, <1>3 DEF InStep, RingFull, Pending, Bufs
<1>5. RingFull'
  <2>1. Pending' = 0 /\ written' = 0 /\ ~(fillIdx' > 0)
    BY <1>1, <1>2 DEF Pending
  <2>2. \A b \in Bufs : ~inUse'[b] /\ ~Filled(b)' /\ ~(Ahead(b)' < 0)
    BY <1>1, <1>3, <1>4 DEF Filled, Bufs
  <2> QED
    BY <2>1, <2>2, NumBufsAssumption DEF RingFull
<1>6. /\ jobStartSem = 0 /\ jobFinishedSem = 0 /\ waitJobSem = 0
      /\ coderPc = "idle" /\ ~jobDoneFlag
  BY <1>1 DEF InStep, NoTokenLeft
<1>7. TokensCountBuffers'
  BY <1>1, <1>2, <1>3, <1>6 DEF TokensCountBuffers, Pending, Bufs
<1>8. NoTokenLeft'
  BY <1>1 DEF NoTokenLeft
<1>9. StripesConsistent'
  BY <1>1 DEF InStep, StripesConsistent
<1> QED
  BY <1>5, <1>7, <1>8, <1>9 DEF InStep

\* The buffer filled is the first behind those pending.
LEMMA FillBufInStep ==
  ASSUME OrderInv, InStep, LongWritesPromptCoder, FillBuf
  PROVE  InStep'
<1> DEFINE f == fillIdx
<1>1. /\ appPc = "fill" /\ ~inUse[f] /\ inUse' = [inUse EXCEPT ![f] = TRUE]
      /\ fillIdx' = NextBuf(f) /\ appPc' = IF f = NumBufs - 1 THEN "waitCoding" ELSE "fill"
      /\ waitJobSem' = waitJobSem + 1 /\ (handled < sizes[write] \/ f > 0)
      /\ UNCHANGED <<sizes, written, sendIdx, jobDoneFlag, jobFinishedFlag, jobStartSem,
                     jobFinishedSem, coderPc, coderIdx, sent>>
  BY DEF FillBuf, flagVars, coderVars
<1>t. /\ f \in Bufs /\ sendIdx \in Bufs /\ input \in [Bufs -> Data] /\ inUse \in [Bufs -> BOOLEAN]
      /\ output \in [Bufs -> Data]
      /\ handled \in Nat /\ written \in Nat /\ written <= handled /\ NumBufs \in Nat \ {0}
      /\ waitJobSem \in Nat /\ jobFinishedSem \in Nat
  BY NumBufsAssumption DEF OrderInv, TypeOK, Progress
<1>w. write > 0 /\ sizes[write] \in Nat /\ handled <= sizes[write] /\ sizes[write] >= NumBufs
  <2>1. write # 0 /\ (write > 0 => handled <= sizes[write]) /\ sizes \in Seq(1 .. MaxSize)
    BY <1>1 DEF OrderInv, Progress, TypeOK
  <2>2. write > 0 /\ write \in 1 .. write /\ sizes[write] \in Nat
    BY <2>1, BoundsAssumption DEF write
  <2> QED
    BY <2>1, <2>2 DEF LongWritesPromptCoder
<1>p. Pending = handled - written /\ Pending \in Nat /\ Pending <= NumBufs
  BY <1>t DEF InStep, RingFull, Pending
<1>a. \A b \in Bufs : Ahead(b) \in Bufs /\ Ahead(b)' = Ahead(b)
  BY <1>1, <1>t, AheadInRing DEF Ahead
<1>2. \A b \in Bufs : inUse[b] <=> Ahead(b) < Pending
  <2> SUFFICES ASSUME NEW b \in Bufs PROVE inUse[b] <=> Ahead(b) < Pending
    OBVIOUS
  <2>1. Ahead(b) \in Nat
    BY <1>a, <1>t DEF Bufs
  <2>2. (Ahead(b) < Pending => inUse[b]) /\ (Ahead(b) >= Pending => ~inUse[b])
    BY DEF InStep, RingFull
  <2>3. Ahead(b) < Pending \/ Ahead(b) >= Pending
    BY <2>1, <1>p
  <2> QED
    BY <2>2, <2>3
<1>3. Pending < NumBufs /\ Pending \in Bufs
  BY <1>1, <1>2, <1>a, <1>p, <1>t DEF Bufs
<1>4. handled < sizes[write]
  <2>1. handled = sizes[write] /\ f > 0 => Pending = NumBufs
    BY <1>1 DEF InStep, RingFull
  <2> QED
    BY <1>1, <1>3, <1>t, <1>w, <2>1
<1>5. Ahead(f) = Pending
  <2>1. PICK b \in Bufs : Ahead(b) = Pending
    BY <1>3, <1>t, AheadOnto
  <2>2. ~inUse[b] /\ ~inUse[f]
    BY <1>1, <1>2, <1>p, <2>1
  <2>3. CASE sendIdx = 0
    <3>1. \A c \in Bufs : Ahead(c) = c
      BY <1>t, <2>3, AheadInRing
    <3>2. \A c \in Bufs : c < f => inUse[c]
      BY <1>1 DEF OrderInv, FreeBehind
    <3>3. ~(b < f) /\ ~(f < Pending)
      BY <1>2, <1>t, <2>2, <3>1, <3>2
    <3> QED
      BY <1>t, <2>1, <3>1, <3>3, <1>p DEF Bufs
  <2>4. CASE sendIdx # 0
    BY <1>1, <1>4, <1>t, <2>1, <2>2, <2>4 DEF OrderInv, FreeBehind
  <2> QED
    BY <2>3, <2>4
<1>6. /\ input' = [input EXCEPT ![f] = <<write, handled + 1>>] /\ handled' = handled + 1
      /\ output' = [output EXCEPT ![f] = NoData]
  BY <1>4 DEF FillBuf
<1>7. /\ \A b \in Bufs : b # f => input'[b] = input[b] /\ inUse'[b] = inUse[b] /\ output'[b] = output[b]
      /\ inUse'[f] /\ input'[f] = <<write, handled + 1>>
  <2> HIDE DEF f
  <2> QED
    BY <1>1, <1>6, <1>t
<1>8. Pending' = Pending + 1
  BY <1>1, <1>6, <1>t DEF Pending
<1>9. \A b \in Bufs : b # f => Ahead(b) # Pending
  BY <1>5, <1>t, AheadInRing
<1>10. RingFull'
  <2>1. ASSUME NEW b \in Bufs, Ahead(b) < Pending + 1
        PROVE  inUse'[b] /\ input'[b] = <<write, written + 1 + Ahead(b)>>
    <3>1. CASE b = f
      BY <1>5, <1>7, <1>p, <1>t, <3>1
    <3>2. CASE b # f
      <4>1. Ahead(b) < Pending
        BY <1>9, <1>a, <1>p, <2>1, <3>2 DEF Bufs
      <4> QED
        BY <1>7, <3>2, <4>1 DEF InStep, RingFull
    <3> QED
      BY <3>1, <3>2
  <2>2. ASSUME NEW b \in Bufs, Ahead(b) >= Pending + 1
        PROVE  ~inUse'[b] /\ ~Filled(b)'
    <3>1. b # f /\ Ahead(b) >= Pending
      BY <1>5, <1>a, <1>p, <2>2 DEF Bufs
    <3> QED
      BY <1>7, <3>1 DEF InStep, RingFull, Filled
  <2>3. handled < sizes[write] => written = 0 \/ Pending >= NumBufs - 1
    BY <1>1 DEF InStep, RingFull
  <2>4. handled' = sizes[write] => Pending' = NumBufs
    BY <1>3, <1>4, <1>6, <1>8, <1>p, <1>t, <1>w, <2>3 DEF Bufs
  <2>5. handled' < sizes[write] => written = 0 \/ Pending' >= NumBufs - 1
    BY <1>4, <1>8, <1>p, <1>t, <2>3
  <2>6. Pending' <= NumBufs
    BY <1>3, <1>8, <1>t, <1>p
  <2> QED
    BY <1>1, <1>8, <1>a, <2>1, <2>2, <2>4, <2>5, <2>6 DEF RingFull, write
<1>11. TokensCountBuffers'
  <2>1. /\ ~jobDoneFlag /\ ~jobFinishedFlag
        /\ jobStartSem = IF coderPc = "idle" THEN 1 ELSE 0
        /\ waitJobSem + jobFinishedSem + (IF coderPc = "woken" THEN 1 ELSE 0) = Pending
        /\ coderPc \in {"idle", "coding"} => jobFinishedSem = 0 /\ sendIdx = 0
        /\ coderPc \notin {"idle", "coding"} =>
             Ahead(coderIdx) = IF jobFinishedSem = NumBufs THEN 0 ELSE jobFinishedSem
        /\ \A b \in Bufs : Ahead(b) < jobFinishedSem => output[b] = input[b]
    BY <1>1 DEF InStep, TokensCountBuffers
  <2>2. jobFinishedSem <= Pending
    BY <1>t, <1>p, <2>1
  <2>3. ASSUME NEW b \in Bufs, Ahead(b)' < jobFinishedSem'
        PROVE  output'[b] = input'[b]
    <3>1. Ahead(b) < jobFinishedSem
      BY <1>1, <1>a, <2>3
    <3>2. b # f
      BY <1>5, <1>p, <1>t, <2>2, <3>1
    <3> QED
      BY <1>7, <2>1, <3>1, <3>2
  <2>4. Ahead(coderIdx)' = Ahead(coderIdx)
    BY <1>1 DEF Ahead
  <2>5. waitJobSem' + jobFinishedSem' + (IF coderPc' = "woken" THEN 1 ELSE 0) = Pending'
    BY <1>1, <1>8, <1>t, <2>1
  <2> QED
    BY <1>1, <2>1, <2>3, <2>4, <2>5 DEF TokensCountBuffers
<1>12. NoTokenLeft'
  BY <1>1 DEF NoTokenLeft
<1>13. StripesConsistent'
  BY <1>1 DEF InStep, StripesConsistent
<1> QED
  BY <1>10, <1>11, <1>12, <1>13 DEF InStep

LEMMA SkipInStep ==
  ASSUME OrderInv, InStep, LongWritesPromptCoder, SkipBufInUse \/ NothingToFill
  PROVE  InStep'
<1>1. /\ appPc = "fill" /\ appPc' \in {"fill", "waitCoding"}
      /\ UNCHANGED <<sizes, handled, written, sendIdx, inUse, input, output, jobDoneFlag,
                     jobFinishedFlag, jobStartSem, waitJobSem, jobFinishedSem, coderPc, coderIdx, sent>>
  BY DEF SkipBufInUse, NothingToFill, jobVars, bufVars, flagVars, semVars, coderVars
<1>2. appPc' = "fill" => (handled = sizes[write] /\ fillIdx' > 0 => Pending = NumBufs)
  <2> SUFFICES ASSUME appPc' = "fill", handled = sizes[write] PROVE Pending = NumBufs
    OBVIOUS
  <2>1. SkipBufInUse
    BY DEF NothingToFill
  <2>2. sizes[write] \in Nat
    <3>1. write # 0 /\ sizes \in Seq(1 .. MaxSize)
      BY <1>1 DEF OrderInv, Progress, TypeOK
    <3> QED
      BY <3>1, BoundsAssumption DEF write
  <2>3. fillIdx > 0
    BY <2>1, <2>2 DEF SkipBufInUse
  <2> QED
    BY <1>1, <2>3 DEF InStep, RingFull
<1>3. RingFull'
  <2>1. \A b \in Bufs : Ahead(b)' = Ahead(b) /\ (Filled(b)' <=> Filled(b))
    BY <1>1 DEF Ahead, Filled
  <2>2. Pending' = Pending /\ write' = write
    BY <1>1 DEF Pending, write
  <2> QED
    BY <1>1, <1>2, <2>1, <2>2 DEF InStep, RingFull
<1>4. TokensCountBuffers'
  BY <1>1 DEF InStep, TokensCountBuffers, Ahead, Pending
<1>5. NoTokenLeft'
  BY <1>1 DEF NoTokenLeft
<1>6. StripesConsistent'
  BY <1>1 DEF InStep, StripesConsistent
<1> QED
  BY <1>3, <1>4, <1>5, <1>6 DEF InStep

\* The buffer sent is the pending one the coder was through with first.
LEMMA WriteBufInStep ==
  ASSUME OrderInv, InStep, LongWritesPromptCoder, WriteBufToServers
  PROVE  InStep'
<1> DEFINE s == sendIdx
           stripe == [data |-> input[s], parity |-> output[s]]
           T == [data : Data, parity : Data]
<1>1. /\ appPc = "waitCoding" /\ sendIdx' = NextBuf(sendIdx)
      /\ input' = [input EXCEPT ![s] = NoData] /\ inUse' = [inUse EXCEPT ![s] = FALSE]
      /\ appPc' = IF written' < sizes[write] THEN "fill" ELSE "ending"
      /\ jobFinishedSem > 0 /\ jobFinishedSem' = jobFinishedSem - 1
      /\ UNCHANGED <<sizes, handled, fillIdx, output, jobDoneFlag, jobFinishedFlag, jobStartSem,
                     waitJobSem, coderPc, coderIdx>>
  BY DEF WriteBufToServers, FreeBuf, CodingFinished, flagVars, coderVars
<1>t. /\ s \in Bufs /\ sendIdx' \in Bufs /\ input \in [Bufs -> Data] /\ inUse \in [Bufs -> BOOLEAN]
      /\ handled \in Nat /\ written \in Nat /\ NumBufs \in Nat \ {0} /\ coderIdx \in Bufs
      /\ waitJobSem \in Nat /\ jobFinishedSem \in Nat /\ fillIdx = 0
  BY <1>1, NextBufInRing, NumBufsAssumption DEF OrderInv, TypeOK, FreeBehind
<1>s. stripe \in T /\ sent \in Seq(T)
  BY <1>t DEF OrderInv, TypeOK
<1>w. /\ sizes[write] \in Nat /\ handled <= sizes[write]
      /\ handled < sizes[write] => \A b \in Bufs : inUse[b]
  <2>1. write # 0 /\ (write > 0 => handled <= sizes[write]) /\ sizes \in Seq(1 .. MaxSize)
    BY <1>1 DEF OrderInv, Progress, TypeOK
  <2> QED
    BY <1>1, <2>1, BoundsAssumption DEF write, OrderInv, FreeBehind
<1>2. /\ ~jobDoneFlag /\ ~jobFinishedFlag
      /\ jobStartSem = IF coderPc = "idle" THEN 1 ELSE 0
      /\ waitJobSem + jobFinishedSem + (IF coderPc = "woken" THEN 1 ELSE 0) = Pending
      /\ coderPc \in {"idle", "coding"} => jobFinishedSem = 0
      /\ coderPc \notin {"idle", "coding"} =>
           Ahead(coderIdx) = IF jobFinishedSem = NumBufs THEN 0 ELSE jobFinishedSem
      /\ \A b \in Bufs : Ahead(b) < jobFinishedSem => output[b] = input[b]
  BY <1>1 DEF InStep, TokensCountBuffers
<1>3. Pending = handled - written /\ Pending <= NumBufs /\ 0 < Pending /\ jobFinishedSem <= Pending
  BY <1>1, <1>2, <1>t DEF InStep, RingFull, Pending
<1>4. /\ \A b \in Bufs : Ahead(b)' = IF b = s THEN NumBufs - 1 ELSE Ahead(b) - 1
      /\ \A b \in Bufs : Ahead(b) \in Bufs
      /\ \A b \in Bufs : b # s => Ahead(b) > 0
      /\ Ahead(s) = 0
  <2>1. \A b \in Bufs : Ahead(b)' = IF b = s THEN NumBufs - 1 ELSE Ahead(b) - 1
    BY <1>1, <1>t, AheadMoves
  <2>2. \A b \in Bufs : Ahead(b) \in Bufs /\ (Ahead(b) = Ahead(s) => b = s)
    BY <1>t, AheadInRing
  <2>3. Ahead(s) = 0
    BY <1>t, AheadInRing
  <2>4. \A b \in Bufs : b # s => Ahead(b) > 0
    BY <2>2, <2>3 DEF Bufs
  <2> QED
    BY <2>1, <2>2, <2>3, <2>4
<1>5. input[s] = <<write, written + 1>> /\ output[s] = input[s]
  <2>1. Ahead(s) < Pending /\ Ahead(s) < jobFinishedSem /\ written + 1 + Ahead(s) = written + 1
    BY <1>1, <1>3, <1>4, <1>t
  <2> QED
    BY <1>2, <1>t, <2>1 DEF InStep, RingFull
<1>6. sent' = Append(sent, stripe) /\ written' = written + 1
  <2>1. input[s] # NoData
    BY <1>5, <1>t DEF NoData
  <2> QED
    BY <2>1 DEF WriteBufToServers
<1>7. Pending' = Pending - 1
  BY <1>1, <1>3, <1>6, <1>t DEF Pending
<1>8. /\ \A b \in Bufs : b # s => input'[b] = input[b] /\ inUse'[b] = inUse[b]
      /\ input'[s] = NoData /\ ~inUse'[s]
  BY <1>1, <1>t
<1>9. RingFull'
  <2>1. ASSUME NEW b \in Bufs, Ahead(b)' < Pending'
        PROVE  inUse'[b] /\ input'[b] = <<write, written' + 1 + Ahead(b)'>>
    <3>1. b # s
      BY <1>3, <1>4, <1>7, <1>t, <2>1
    <3>2. Ahead(b)' = Ahead(b) - 1 /\ Ahead(b) \in Nat
      <4>1. Ahead(b)' = Ahead(b) - 1 /\ Ahead(b) \in Bufs
        BY <1>4, <3>1
      <4> QED
        BY <1>t, <4>1 DEF Bufs
    <3>3. Ahead(b) < Pending /\ written' + 1 + Ahead(b)' = written + 1 + Ahead(b)
      BY <1>3, <1>6, <1>7, <1>t, <2>1, <3>2
    <3> QED
      BY <1>8, <3>1, <3>3 DEF InStep, RingFull
  <2>2. ASSUME NEW b \in Bufs, Ahead(b)' >= Pending'
        PROVE  ~inUse'[b] /\ ~Filled(b)'
    <3>1. CASE b = s
      BY <1>8, <3>1 DEF Filled
    <3>2. CASE b # s
      <4>1. Ahead(b) >= Pending
        BY <1>3, <1>4, <1>7, <1>t, <2>2, <3>2 DEF Bufs
      <4> QED
        BY <1>8, <3>2, <4>1 DEF InStep, RingFull, Filled
    <3> QED
      BY <3>1, <3>2
  <2>3. handled < sizes[write] => Pending' >= NumBufs - 1
    <3> SUFFICES ASSUME handled < sizes[write], Pending < NumBufs PROVE FALSE
      BY <1>3, <1>7, <1>t
    <3>1. PICK b \in Bufs : Ahead(b) = Pending
      BY <1>3, <1>t, AheadOnto DEF Bufs
    <3> QED
      BY <1>3, <1>t, <1>w, <3>1 DEF InStep, RingFull
  <2>4. Pending' <= NumBufs /\ ~(fillIdx' > 0) /\ write' = write
    BY <1>1, <1>3, <1>7, <1>t DEF write
  <2> HIDE DEF s
  <2> QED
    BY <1>1, <2>1, <2>2, <2>3, <2>4 DEF RingFull
<1>10. TokensCountBuffers'
  <2>1. \A b \in Bufs : Ahead(b)' < jobFinishedSem' => output'[b] = input'[b]
    <3> SUFFICES ASSUME NEW b \in Bufs, Ahead(b)' < jobFinishedSem' PROVE output'[b] = input'[b]
      OBVIOUS
    <3>1. b # s
      BY <1>1, <1>3, <1>4, <1>t
    <3>2. Ahead(b) < jobFinishedSem
      BY <1>1, <1>4, <1>t, <3>1 DEF Bufs
    <3> QED
      BY <1>1, <1>2, <1>8, <3>1, <3>2
  <2>2. coderPc \notin {"idle", "coding"}
    BY <1>1, <1>2, <1>t
  <2>3. Ahead(coderIdx)' = IF jobFinishedSem' = NumBufs THEN 0 ELSE jobFinishedSem'
    <3>0. Ahead(coderIdx)' = IF coderIdx = s THEN NumBufs - 1 ELSE Ahead(coderIdx) - 1
      <4>1. coderIdx' = coderIdx
        BY <1>1
      <4> QED
        BY <1>4, <1>t, <4>1 DEF Ahead
    <3>1. jobFinishedSem' # NumBufs /\ jobFinishedSem' = jobFinishedSem - 1
      BY <1>1, <1>3, <1>t
    <3>2. CASE jobFinishedSem = NumBufs
      <4>1. Ahead(coderIdx) = 0
        BY <1>2, <2>2, <3>2
      <4>2. coderIdx = s
        BY <1>4, <1>t, <4>1
      <4> QED
        BY <3>0, <3>1, <3>2, <4>2
    <3>3. CASE jobFinishedSem # NumBufs
      <4>1. Ahead(coderIdx) = jobFinishedSem /\ coderIdx # s
        BY <1>1, <1>2, <1>4, <1>t, <2>2, <3>3
      <4> QED
        BY <3>0, <3>1, <4>1
    <3> QED
      BY <3>2, <3>3
  <2>4. waitJobSem' + jobFinishedSem' + (IF coderPc' = "woken" THEN 1 ELSE 0) = Pending'
    BY <1>1, <1>2, <1>3, <1>7, <1>t
  <2> HIDE DEF s
  <2> QED
    BY <1>1, <1>2, <2>1, <2>2, <2>3, <2>4 DEF TokensCountBuffers
<1>11. NoTokenLeft'
  BY <1>1 DEF NoTokenLeft
<1>12. StripesConsistent'
  <2>1. stripe.parity = stripe.data
    BY <1>5
  <2> HIDE DEF stripe, T
  <2>2. /\ Len(sent) \in Nat /\ Len(sent') = Len(sent) + 1 /\ sent'[Len(sent) + 1] = stripe
        /\ \A i \in 1 .. Len(sent) : sent'[i] = sent[i]
    BY <1>6, <1>s
  <2>3. \A i \in 1 .. Len(sent) : sent[i].parity = sent[i].data
    BY DEF InStep, StripesConsistent
  <2>4. \A i \in 1 .. Len(sent') : i \in 1 .. Len(sent) \/ i = Len(sent) + 1
    BY <2>2
  <2> QED
    BY <2>1, <2>2, <2>3, <2>4 DEF StripesConsistent
<1> QED
  BY <1>9, <1>10, <1>11, <1>12 DEF InStep

\* The end of a call: everything is sent, and the coder waits for a buffer.
LEMMA EndInStep ==
  ASSUME OrderInv, InStep, LongWritesPromptCoder, ~late', RaiseJobDone \/ ReturnFromWrite
  PROVE  InStep'
<1>1. /\ appPc \in {"ending", "ended"}
      /\ UNCHANGED <<sizes, handled, written, fillIdx, sendIdx, inUse, input, output, jobStartSem,
                     jobFinishedSem, coderPc, coderIdx, sent>>
  BY DEF RaiseJobDone, ReturnFromWrite, jobVars, bufVars, semVars, coderVars
<1>2. appPc' \in {"ended", "idle"}
  BY DEF RaiseJobDone, ReturnFromWrite
<1>3. RingFull'
  <2>1. \A b \in Bufs : Ahead(b)' = Ahead(b) /\ (Filled(b)' <=> Filled(b))
    BY <1>1 DEF Ahead, Filled
  <2>2. Pending' = Pending
    BY <1>1 DEF Pending
  <2>3. Pending <= NumBufs
        /\ \A b \in Bufs :
             /\ Ahead(b) < Pending => inUse[b] /\ input[b] = <<write, written + 1 + Ahead(b)>>
             /\ Ahead(b) >= Pending => ~inUse[b] /\ ~Filled(b)
    BY DEF InStep, RingFull
  <2>4. appPc' # "fill" /\ inUse' = inUse /\ input' = input /\ written' = written /\ write' = write
    BY <1>1, <1>2 DEF write
  <2> QED
    BY <2>1, <2>2, <2>3, <2>4 DEF RingFull
<1>4. TokensCountBuffers'
  BY <1>2 DEF TokensCountBuffers
<1>5. NoTokenLeft'
  <2>1. CASE RaiseJobDone
    <3>1. /\ appPc = "ending" /\ appPc' = "ended" /\ jobDoneFlag' = TRUE /\ waitJobSem' = waitJobSem
          /\ jobFinishedFlag' = jobFinishedFlag /\ coderPc = "waitJob" /\ ~(waitJobSem > 0)
      BY <2>1 DEF RaiseJobDone, semVars
    <3>2. Pending = 0 /\ waitJobSem \in Nat /\ jobFinishedSem \in Nat
      <4>1. written = handled /\ waitJobSem \in Nat /\ jobFinishedSem \in Nat
        BY <3>1 DEF OrderInv, Progress, TypeOK, write
      <4> QED
        BY <4>1 DEF OrderInv, TypeOK, Pending
    <3>3. ~jobFinishedFlag /\ jobStartSem = 0 /\ waitJobSem + jobFinishedSem = 0
      BY <3>1, <3>2 DEF InStep, TokensCountBuffers
    <3> QED
      BY <1>1, <3>1, <3>2, <3>3 DEF NoTokenLeft
  <2>2. CASE ReturnFromWrite
    <3>1. /\ appPc = "ended" /\ appPc' = "idle" /\ jobDoneFlag' = jobDoneFlag
          /\ waitJobSem' = waitJobSem + 1 /\ jobFinishedFlag' = TRUE
      BY <2>2 DEF ReturnFromWrite
    <3>2. /\ jobStartSem = 0 /\ jobFinishedSem = 0 /\ waitJobSem = 0
          /\ coderPc = "waitJob" /\ jobDoneFlag
      BY <3>1 DEF InStep, NoTokenLeft
    <3> QED
      BY <1>1, <3>1, <3>2 DEF NoTokenLeft
  <2> QED
    BY <2>1, <2>2
<1>6. StripesConsistent'
  BY <1>1 DEF InStep, StripesConsistent
<1> QED
  BY <1>3, <1>4, <1>5, <1>6 DEF InStep

\* The coder's steps: it leaves the ring alone and keeps its distance.
LEMMA CoderInStep ==
  ASSUME OrderInv, InStep, Coder
  PROVE  InStep'
<1>1. UNCHANGED <<sizes, handled, written, appPc, fillIdx, sendIdx, inUse, input, sent>>
      /\ UNCHANGED <<jobDoneFlag, jobFinishedFlag>>
  BY DEF Coder, WaitJobStart, PerformCodingJob, PerformEncodingJob, WaitJob, WokenForEnd, Encode,
         jobVars, appVars, bufVars, flagVars
<1>2. RingFull'
  <2>1. \A b \in Bufs : Ahead(b)' = Ahead(b) /\ (Filled(b)' <=> Filled(b))
    BY <1>1 DEF Ahead, Filled
  <2>2. Pending' = Pending /\ write' = write
    BY <1>1 DEF Pending, write
  <2> QED
    BY <1>1, <2>1, <2>2 DEF InStep, RingFull
<1>3. StripesConsistent'
  BY <1>1 DEF InStep, StripesConsistent
<1>t. /\ sendIdx \in Bufs /\ coderIdx \in Bufs /\ NumBufs \in Nat \ {0}
      /\ jobStartSem \in Nat /\ waitJobSem \in Nat /\ jobFinishedSem \in Nat
      /\ appPc \in {"idle", "starting", "fill", "waitCoding", "ending", "ended"}
      /\ output \in [Bufs -> Data]
  BY NumBufsAssumption DEF OrderInv, TypeOK
<1>a. /\ \A b \in Bufs : Ahead(b) \in Bufs /\ Ahead(b)' = Ahead(b)
      /\ Ahead(0) = 0 \/ sendIdx # 0
      /\ Pending' = Pending /\ Pending <= NumBufs
  BY <1>1, <1>t, AheadInRing DEF Ahead, Pending, InStep, RingFull
<1>b. /\ appPc \in {"fill", "waitCoding", "ending"} =>
           /\ ~jobDoneFlag /\ ~jobFinishedFlag
           /\ jobStartSem = IF coderPc = "idle" THEN 1 ELSE 0
           /\ waitJobSem + jobFinishedSem + (IF coderPc = "woken" THEN 1 ELSE 0) = Pending
           /\ coderPc \in {"idle", "coding"} => jobFinishedSem = 0 /\ sendIdx = 0
           /\ coderPc \notin {"idle", "coding"} =>
                Ahead(coderIdx) = IF jobFinishedSem = NumBufs THEN 0 ELSE jobFinishedSem
           /\ \A b \in Bufs : Ahead(b) < jobFinishedSem => output[b] = input[b]
  BY DEF InStep, TokensCountBuffers
<1>c. appPc \in {"idle", "starting", "ended"} =>
           /\ jobStartSem = 0 /\ jobFinishedSem = 0
           /\ waitJobSem = IF appPc = "idle" /\ coderPc = "waitJob" THEN 1 ELSE 0
           /\ appPc = "starting" => coderPc = "idle" /\ ~jobDoneFlag
           /\ appPc = "ended" => coderPc = "waitJob" /\ jobDoneFlag /\ ~jobFinishedFlag
           /\ appPc = "idle" => coderPc # "encodeLoop"
           /\ appPc = "idle" /\ coderPc # "idle" => jobDoneFlag /\ jobFinishedFlag
  BY DEF InStep, NoTokenLeft
<1>4. CASE WaitJobStart
  <2>1. /\ coderPc = "idle" /\ jobStartSem > 0 /\ jobStartSem' = jobStartSem - 1 /\ coderPc' = "coding"
        /\ UNCHANGED <<waitJobSem, jobFinishedSem, coderIdx, output>>
    BY <1>4 DEF WaitJobStart, bufVars
  <2>2. appPc \in {"fill", "waitCoding", "ending"}
    BY <1>c, <1>t, <2>1
  <2>3. TokensCountBuffers'
    BY <1>1, <1>a, <1>b, <2>1, <2>2 DEF TokensCountBuffers
  <2>4. NoTokenLeft'
    BY <1>1, <2>2 DEF NoTokenLeft
  <2> QED
    BY <1>2, <1>3, <2>3, <2>4 DEF InStep
<1>5. CASE PerformCodingJob
  <2>1. /\ coderPc = "coding" /\ coderPc' = IF jobFinishedFlag THEN "idle" ELSE "encodeLoop"
        /\ coderIdx' = IF jobFinishedFlag THEN coderIdx ELSE 0
        /\ UNCHANGED <<jobStartSem, waitJobSem, jobFinishedSem, output>>
    BY <1>5 DEF PerformCodingJob, semVars, bufVars
  <2>2. CASE appPc \in {"fill", "waitCoding", "ending"}
    <3>1. coderPc' = "encodeLoop" /\ coderIdx' = 0 /\ jobFinishedSem = 0 /\ sendIdx = 0
      BY <1>b, <2>1, <2>2
    <3>2. Ahead(coderIdx)' = 0
      BY <1>1, <3>1 DEF Ahead
    <3>3. TokensCountBuffers'
      BY <1>1, <1>a, <1>b, <1>t, <2>1, <2>2, <3>1, <3>2 DEF TokensCountBuffers
    <3>4. NoTokenLeft'
      BY <1>1, <2>2 DEF NoTokenLeft
    <3> QED
      BY <1>2, <1>3, <3>3, <3>4 DEF InStep
  <2>3. CASE appPc \in {"idle", "starting", "ended"}
    <3>1. appPc = "idle" /\ jobFinishedFlag
      BY <1>c, <2>1, <2>3
    <3>2. NoTokenLeft'
      BY <1>1, <1>c, <2>1, <3>1 DEF NoTokenLeft
    <3>3. TokensCountBuffers'
      BY <1>1, <2>3 DEF TokensCountBuffers
    <3> QED
      BY <1>2, <1>3, <3>2, <3>3 DEF InStep
  <2> QED
    BY <1>t, <2>2, <2>3
<1>6. CASE PerformEncodingJob
  <2>1. /\ coderPc = "encodeLoop" /\ coderPc' = IF jobDoneFlag THEN "coding" ELSE "waitJob"
        /\ UNCHANGED <<jobStartSem, waitJobSem, jobFinishedSem, coderIdx, output>>
    BY <1>6 DEF PerformEncodingJob, semVars, bufVars
  <2>2. appPc \in {"fill", "waitCoding", "ending"}
    BY <1>c, <1>t, <2>1
  <2>3. coderPc' = "waitJob"
    BY <1>b, <2>1, <2>2
  <2>4. Ahead(coderIdx)' = Ahead(coderIdx)
    BY <1>1, <2>1 DEF Ahead
  <2>5. TokensCountBuffers'
    BY <1>1, <1>a, <1>b, <2>1, <2>2, <2>3, <2>4 DEF TokensCountBuffers
  <2>6. NoTokenLeft'
    BY <1>1, <2>2 DEF NoTokenLeft
  <2> QED
    BY <1>2, <1>3, <2>5, <2>6 DEF InStep
<1>7. CASE WaitJob
  <2>1. /\ coderPc = "waitJob" /\ waitJobSem > 0 /\ waitJobSem' = waitJobSem - 1 /\ coderPc' = "woken"
        /\ UNCHANGED <<jobStartSem, jobFinishedSem, coderIdx, output>>
    BY <1>7 DEF WaitJob, bufVars
  <2>2. CASE appPc \in {"fill", "waitCoding", "ending"}
    <3>1. Ahead(coderIdx)' = Ahead(coderIdx)
      BY <1>1, <2>1 DEF Ahead
    <3>2. waitJobSem' + jobFinishedSem + 1 = Pending
      BY <1>b, <1>t, <2>1, <2>2
    <3>3. TokensCountBuffers'
      BY <1>1, <1>a, <1>b, <2>1, <2>2, <3>1, <3>2 DEF TokensCountBuffers
    <3>4. NoTokenLeft'
      BY <1>1, <2>2 DEF NoTokenLeft
    <3> QED
      BY <1>2, <1>3, <3>3, <3>4 DEF InStep
  <2>3. CASE appPc \in {"idle", "starting", "ended"}
    <3>1. appPc = "idle" /\ waitJobSem = 1 /\ jobDoneFlag /\ jobFinishedFlag
      BY <1>c, <2>1, <2>3
    <3>2. NoTokenLeft'
      BY <1>1, <1>c, <2>1, <3>1 DEF NoTokenLeft
    <3>3. TokensCountBuffers'
      BY <1>1, <2>3 DEF TokensCountBuffers
    <3> QED
      BY <1>2, <1>3, <3>2, <3>3 DEF InStep
  <2> QED
    BY <1>t, <2>2, <2>3
<1>8. CASE WokenForEnd
  <2>1. /\ coderPc = "woken" /\ jobDoneFlag /\ coderPc' = "coding"
        /\ UNCHANGED <<jobStartSem, waitJobSem, jobFinishedSem, coderIdx, output>>
    BY <1>8 DEF WokenForEnd, semVars, bufVars
  <2>2. appPc = "idle"
    BY <1>b, <1>c, <1>t, <2>1
  <2>3. NoTokenLeft'
    BY <1>1, <1>c, <2>1, <2>2 DEF NoTokenLeft
  <2>4. TokensCountBuffers'
    BY <1>1, <2>2 DEF TokensCountBuffers
  <2> QED
    BY <1>2, <1>3, <2>3, <2>4 DEF InStep
<1>9. CASE Encode
  <2>1. /\ coderPc = "woken" /\ ~jobDoneFlag /\ output' = [output EXCEPT ![coderIdx] = input[coderIdx]]
        /\ jobFinishedSem' = jobFinishedSem + 1 /\ coderIdx' = NextBuf(coderIdx)
        /\ coderPc' = "encodeLoop"
        /\ UNCHANGED <<jobStartSem, waitJobSem>>
    BY <1>9 DEF Encode
  <2>2. appPc \in {"fill", "waitCoding", "ending"}
    BY <1>c, <1>t, <2>1
  <2>3. waitJobSem + jobFinishedSem + 1 = Pending /\ jobFinishedSem < NumBufs
    BY <1>a, <1>b, <1>t, <2>1, <2>2 DEF Pending
  <2>4. Ahead(coderIdx) = jobFinishedSem
    BY <1>b, <1>t, <2>1, <2>2, <2>3
  <2>5. Ahead(coderIdx)' = IF jobFinishedSem' = NumBufs THEN 0 ELSE jobFinishedSem'
    <3>1. Ahead(coderIdx)' = Ahead(NextBuf(coderIdx))
      BY <1>1, <2>1 DEF Ahead
    <3>2. Ahead(NextBuf(coderIdx)) = IF Ahead(coderIdx) = NumBufs - 1 THEN 0 ELSE Ahead(coderIdx) + 1
      BY <1>t, AheadOfNext
    <3> QED
      BY <1>t, <2>1, <2>4, <3>1, <3>2
  <2>6. \A b \in Bufs : Ahead(b)' < jobFinishedSem' => output'[b] = input'[b]
    <3> SUFFICES ASSUME NEW b \in Bufs, Ahead(b)' < jobFinishedSem' PROVE output'[b] = input[b]
      BY <1>1
    <3>1. CASE b = coderIdx
      BY <1>t, <2>1, <3>1
    <3>2. CASE b # coderIdx
      <4>1. Ahead(b) # jobFinishedSem
        BY <1>t, <2>4, <3>2, AheadInRing
      <4>2. Ahead(b) < jobFinishedSem + 1 /\ Ahead(b) \in Nat
        BY <1>a, <1>t, <2>1 DEF Bufs
      <4>3. Ahead(b) < jobFinishedSem
        BY <1>t, <4>1, <4>2
      <4> QED
        BY <1>b, <1>t, <2>1, <2>2, <3>2, <4>3
    <3> QED
      BY <3>1, <3>2
  <2>7. waitJobSem' + jobFinishedSem' + (IF coderPc' = "woken" THEN 1 ELSE 0) = Pending'
    BY <1>a, <1>t, <2>1, <2>3
  <2>8. TokensCountBuffers'
    BY <1>1, <1>b, <2>1, <2>2, <2>5, <2>6, <2>7 DEF TokensCountBuffers
  <2>9. NoTokenLeft'
    BY <1>1, <2>2 DEF NoTokenLeft
  <2> QED
    BY <1>2, <1>3, <2>8, <2>9 DEF InStep
<1> QED
  BY <1>4, <1>5, <1>6, <1>7, <1>8, <1>9 DEF Coder

LEMMA LockStepStep ==
  ASSUME LockStepInv, [Next]_vars
  PROVE  LockStepInv'
<1>1. OrderInv'
  BY OrderStep DEF LockStepInv
<1>2. ASSUME LongWritesPromptCoder' PROVE InStep'
  <2>1. OrderInv /\ LongWritesPromptCoder /\ InStep /\ ~late'
    BY <1>2, LongWritesStep DEF LockStepInv
  <2>2. ASSUME NEW n \in 1 .. MaxSize, PerformWriteJob(n) PROVE InStep'
    BY <2>1, <2>2, PerformWriteJobInStep
  <2>3. CASE WriteCall
    BY <2>1, <2>3, StartCoderInStep, FillBufInStep, SkipInStep, WriteBufInStep, EndInStep DEF WriteCall
  <2>4. CASE Coder
    BY <2>1, <2>4, CoderInStep
  <2>5. CASE UNCHANGED vars
    BY <2>1, <2>5 DEF InStep, RingFull, TokensCountBuffers, NoTokenLeft, StripesConsistent, Pending,
       Ahead, Filled, write, vars, jobVars, appVars, bufVars, flagVars, semVars, coderVars
  <2> QED
    BY <2>2, <2>3, <2>4, <2>5 DEF Next, AllWritten
<1> QED
  BY <1>1, <1>2 DEF LockStepInv

THEOREM LockStepInvariant == Spec => []LockStepInv
<1>1. Init => LockStepInv
  BY OrderInit, InStepInit DEF LockStepInv
<1>2. LockStepInv /\ [Next]_vars => LockStepInv'
  BY LockStepStep
<1> QED
  BY <1>1, <1>2, PTL DEF Spec

\* Every stripe goes out with the parity of its own data, for every ring, as long
\* as every write fills the ring and the coder is prompt.
THEOREM ParityOfItsData == Spec => []ParityMatchesData
<1>1. LockStepInv => ParityMatchesData
  BY DEF LockStepInv, InStep, ParityMatchesData
<1> QED
  BY <1>1, LockStepInvariant, PTL

\* A write leaves no token and no buffer in use for the next one.
THEOREM NothingLeftBetweenWrites == Spec => []CleanBetweenWrites
<1>1. LockStepInv => CleanBetweenWrites
  <2> SUFFICES ASSUME OrderInv, InStep, appPc = "idle", coderPc = "idle"
               PROVE  waitJobSem = 0 /\ jobFinishedSem = 0 /\ \A b \in Bufs : ~inUse[b]
    BY DEF LockStepInv, CleanBetweenWrites
  <2>1. waitJobSem = 0 /\ jobFinishedSem = 0
    BY DEF InStep, NoTokenLeft
  <2>2. Pending = 0
    BY DEF OrderInv, Progress, TypeOK, write, Pending
  <2>3. \A b \in Bufs : Ahead(b) >= 0
    BY AheadInRing DEF OrderInv, TypeOK, Bufs
  <2> QED
    BY <2>1, <2>2, <2>3 DEF InStep, RingFull
<1> QED
  BY <1>1, LockStepInvariant, PTL

=============================================================================
