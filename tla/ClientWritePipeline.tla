------------------------- MODULE ClientWritePipeline -------------------------
(***************************************************************************)
(* Writing to an open file with ECClientLib: the application thread in     *)
(* performWriteJob and workerPerformWrite (ECBlockWorker.c,                *)
(* ECBlockWorkerIO.c) and the coder thread (ECStoreCoder.c).               *)
(*                                                                         *)
(* The application thread splits every write over a ring of worker         *)
(* buffers, hands each to the coder through waitJobSem, waits for          *)
(* jobFinishedSem and sends data and parity to the block servers.  The two *)
(* threads keep separate positions in the ring and never compare them.     *)
(*                                                                         *)
(* Sizes are counted in worker buffers: sizes[w] is the length of the w-th *)
(* write to the file.  The data of a buffer is named <<w, position>>.      *)
(***************************************************************************)
EXTENDS Integers, Sequences

CONSTANTS
  NumBufs,      \* workerBufsNum
  MaxWrites,    \* bound: writes to the file
  MaxSize       \* bound: length of a write, in worker buffers

ASSUME NumBufsAssumption == NumBufs \in Nat \ {0}
ASSUME BoundsAssumption == MaxWrites \in Nat /\ MaxSize \in Nat

Bufs == 0 .. NumBufs - 1
NoData == <<0, 0>>
Data == Nat \X Nat

VARIABLES
  sizes,            \* length of each write called so far
  handled, written, \* bufHandledSize, bufWritedSize
  appPc, fillIdx, sendIdx,
  inUse,            \* bufInUseFlag
  input,            \* inputBufs, NoData when inputWritedSize is 0
  output,           \* outputBufs: the data the parity was computed from
  jobDoneFlag, jobFinishedFlag,
  jobStartSem, waitJobSem, jobFinishedSem,
  coderPc, coderIdx,
  sent,             \* stripes sent: the data, and the data of their parity
  late              \* history: the coder was once so slow that a write ended
                    \* or began before it was through with the one before

jobVars   == <<sizes, handled, written>>
appVars   == <<appPc, fillIdx, sendIdx>>
bufVars   == <<inUse, input, output>>
flagVars  == <<jobDoneFlag, jobFinishedFlag>>
semVars   == <<jobStartSem, waitJobSem, jobFinishedSem>>
coderVars == <<coderPc, coderIdx>>
vars == <<jobVars, appVars, bufVars, flagVars, semVars, coderVars, sent, late>>

write == Len(sizes)  \* the current write, or the last

NextBuf(b) == IF b = NumBufs - 1 THEN 0 ELSE b + 1

Init ==
  /\ sizes = <<>> /\ handled = 0 /\ written = 0
  /\ appPc = "idle" /\ fillIdx = 0 /\ sendIdx = 0
  /\ inUse = [b \in Bufs |-> FALSE]
  /\ input = [b \in Bufs |-> NoData] /\ output = [b \in Bufs |-> NoData]
  /\ jobDoneFlag = FALSE /\ jobFinishedFlag = FALSE
  /\ jobStartSem = 0 /\ waitJobSem = 0 /\ jobFinishedSem = 0
  /\ coderPc = "idle" /\ coderIdx = 0
  /\ sent = <<>> /\ late = FALSE

-----------------------------------------------------------------------------
(* The application thread *)

\* performWriteJob clears jobDoneFlag first ...
PerformWriteJob(n) ==
  /\ appPc = "idle" /\ write < MaxWrites
  /\ sizes' = Append(sizes, n)
  /\ handled' = 0 /\ written' = 0
  /\ jobDoneFlag' = FALSE
  /\ appPc' = "starting"
  /\ late' = (late \/ coderPc # "idle")
  /\ UNCHANGED <<fillIdx, sendIdx, bufVars, jobFinishedFlag, semVars, coderVars, sent>>

StartCoder_KeepsSendIdx ==
  /\ appPc = "starting"
  /\ jobFinishedFlag' = FALSE
  /\ jobStartSem' = jobStartSem + 1
  /\ appPc' = "fill" /\ fillIdx' = 0
  /\ UNCHANGED <<jobVars, sendIdx, bufVars, jobDoneFlag, waitJobSem, jobFinishedSem, coderVars, sent, late>>

\* ... and wakes the coder when the block workers are ready.
StartCoder ==
  /\ appPc = "starting"
  /\ jobFinishedFlag' = FALSE
  /\ jobStartSem' = jobStartSem + 1
  /\ appPc' = "fill" /\ fillIdx' = 0 /\ sendIdx' = 0
  /\ UNCHANGED <<jobVars, bufVars, jobDoneFlag, waitJobSem, jobFinishedSem, coderVars, sent, late>>

\* copyDataToInputBufs into a free buffer.  Nothing is copied once the data is
\* used up, yet the buffer is marked in use and handed to the coder.
FillBuf ==
  /\ appPc = "fill" /\ ~inUse[fillIdx]
  /\ handled < sizes[write] \/ fillIdx > 0
  /\ inUse' = [inUse EXCEPT ![fillIdx] = TRUE]
  /\ IF handled < sizes[write]
       THEN /\ input' = [input EXCEPT ![fillIdx] = <<write, handled + 1>>]
            /\ output' = [output EXCEPT ![fillIdx] = NoData]
            /\ handled' = handled + 1
       ELSE UNCHANGED <<input, output, handled>>
  /\ waitJobSem' = waitJobSem + 1
  /\ fillIdx' = NextBuf(fillIdx)
  /\ appPc' = IF fillIdx = NumBufs - 1 THEN "waitCoding" ELSE "fill"
  /\ UNCHANGED <<sizes, written, sendIdx, flagVars, jobStartSem, jobFinishedSem, coderVars, sent, late>>

SkipBufInUse ==
  /\ appPc = "fill" /\ inUse[fillIdx]
  /\ handled < sizes[write] \/ fillIdx > 0
  /\ fillIdx' = NextBuf(fillIdx)
  /\ appPc' = IF fillIdx = NumBufs - 1 THEN "waitCoding" ELSE "fill"
  /\ UNCHANGED <<jobVars, sendIdx, bufVars, flagVars, semVars, coderVars, sent, late>>

\* All data handled: no round over the buffers.
NothingToFill ==
  /\ appPc = "fill" /\ fillIdx = 0 /\ handled >= sizes[write]
  /\ appPc' = "waitCoding"
  /\ UNCHANGED <<jobVars, fillIdx, sendIdx, bufVars, flagVars, semVars, coderVars, sent, late>>

\* sem_wait(&coderWorker->jobFinishedSem)
CodingFinished == jobFinishedSem > 0 /\ jobFinishedSem' = jobFinishedSem - 1

FreeBuf_KeepsInUse(b) ==
  input' = [input EXCEPT ![b] = NoData] /\ UNCHANGED inUse

\* inputWritedSize and bufInUseFlag of a buffer that has been sent.
FreeBuf(b) ==
  /\ input' = [input EXCEPT ![b] = NoData]
  /\ inUse' = [inUse EXCEPT ![b] = FALSE]

\* Send buffer sendIdx when the coder says it is coded (an empty one sends
\* nothing) and free it.
WriteBufToServers ==
  /\ appPc = "waitCoding" /\ CodingFinished
  /\ IF input[sendIdx] # NoData
       THEN /\ sent' = Append(sent, [data |-> input[sendIdx], parity |-> output[sendIdx]])
            /\ written' = written + 1
       ELSE UNCHANGED <<sent, written>>
  /\ FreeBuf(sendIdx)
  /\ sendIdx' = NextBuf(sendIdx)
  /\ appPc' = IF written' < sizes[write] THEN "fill" ELSE "ending"
  /\ UNCHANGED <<sizes, handled, fillIdx, output, flagVars, jobStartSem, waitJobSem,
                 coderVars, late>>

\* The end of workerPerformWrite: jobDoneFlag, then jobFinishedFlag and a last
\* token for the coder, and the call returns.
RaiseJobDone ==
  /\ appPc = "ending"
  /\ jobDoneFlag' = TRUE
  /\ appPc' = "ended"
  /\ late' = (late \/ coderPc # "waitJob" \/ waitJobSem > 0)
  /\ UNCHANGED <<jobVars, fillIdx, sendIdx, bufVars, jobFinishedFlag, semVars, coderVars, sent>>

ReturnFromWrite ==
  /\ appPc = "ended"
  /\ jobFinishedFlag' = TRUE
  /\ waitJobSem' = waitJobSem + 1
  /\ appPc' = "idle"
  /\ UNCHANGED <<sizes, handled, written, fillIdx, sendIdx, bufVars, jobDoneFlag, jobStartSem,
                 jobFinishedSem, coderVars, sent, late>>

-----------------------------------------------------------------------------
(* The coder thread *)

WaitJobStart ==
  /\ coderPc = "idle" /\ jobStartSem > 0
  /\ jobStartSem' = jobStartSem - 1
  /\ coderPc' = "coding"
  /\ UNCHANGED <<jobVars, appVars, bufVars, flagVars, waitJobSem, jobFinishedSem, coderIdx, sent, late>>

PerformCodingJob_KeepsIdx ==
  /\ coderPc = "coding"
  /\ coderPc' = IF jobFinishedFlag THEN "idle" ELSE "encodeLoop"
  /\ UNCHANGED <<jobVars, appVars, bufVars, flagVars, semVars, coderIdx, sent, late>>

\* The loop of performCodingJob: performEncodingJob starts at buffer 0.
PerformCodingJob ==
  /\ coderPc = "coding"
  /\ coderPc' = IF jobFinishedFlag THEN "idle" ELSE "encodeLoop"
  /\ coderIdx' = IF jobFinishedFlag THEN coderIdx ELSE 0
  /\ UNCHANGED <<jobVars, appVars, bufVars, flagVars, semVars, sent, late>>

\* The head of the loop of performEncodingJob.
PerformEncodingJob ==
  /\ coderPc = "encodeLoop"
  /\ coderPc' = IF jobDoneFlag THEN "coding" ELSE "waitJob"
  /\ UNCHANGED <<jobVars, appVars, bufVars, flagVars, semVars, coderIdx, sent, late>>

WaitJob ==
  /\ coderPc = "waitJob" /\ waitJobSem > 0
  /\ waitJobSem' = waitJobSem - 1
  /\ coderPc' = "woken"
  /\ UNCHANGED <<jobVars, appVars, bufVars, flagVars, jobStartSem, jobFinishedSem, coderIdx, sent, late>>

WokenForEnd ==
  /\ coderPc = "woken" /\ jobDoneFlag
  /\ coderPc' = "coding"
  /\ UNCHANGED <<jobVars, appVars, bufVars, flagVars, semVars, coderIdx, sent, late>>

Encode ==
  /\ coderPc = "woken" /\ ~jobDoneFlag
  /\ output' = [output EXCEPT ![coderIdx] = input[coderIdx]]
  /\ jobFinishedSem' = jobFinishedSem + 1
  /\ coderIdx' = NextBuf(coderIdx)
  /\ coderPc' = "encodeLoop"
  /\ UNCHANGED <<jobVars, appVars, inUse, input, flagVars, jobStartSem, waitJobSem, sent, late>>

-----------------------------------------------------------------------------
WriteCall == \/ StartCoder \/ FillBuf \/ SkipBufInUse \/ NothingToFill
             \/ WriteBufToServers \/ RaiseJobDone \/ ReturnFromWrite
Coder == \/ WaitJobStart \/ PerformCodingJob \/ PerformEncodingJob
         \/ WaitJob \/ WokenForEnd \/ Encode

\* No further write: the coder may wait for one for ever.
AllWritten == appPc = "idle" /\ write = MaxWrites /\ UNCHANGED vars

Next == WriteCall \/ Coder \/ AllWritten \/ \E n \in 1 .. MaxSize : PerformWriteJob(n)

Spec == Init /\ [][Next]_vars

\* Both threads run; nothing makes the application write.
FairSpec == Spec /\ WF_vars(WriteCall) /\ WF_vars(Coder)

-----------------------------------------------------------------------------
(* Properties *)

\* Every variable holds a value of its kind; checked with DataInOrder.
TypeOK ==
  /\ sizes \in Seq(1 .. MaxSize) /\ handled \in Nat /\ written \in Nat
  /\ appPc \in {"idle", "starting", "fill", "waitCoding", "ending", "ended"}
  /\ fillIdx \in Bufs /\ sendIdx \in Bufs /\ coderIdx \in Bufs
  /\ inUse \in [Bufs -> BOOLEAN] /\ input \in [Bufs -> Data] /\ output \in [Bufs -> Data]
  /\ jobDoneFlag \in BOOLEAN /\ jobFinishedFlag \in BOOLEAN
  /\ jobStartSem \in Nat /\ waitJobSem \in Nat /\ jobFinishedSem \in Nat
  /\ coderPc \in {"idle", "coding", "encodeLoop", "waitJob", "woken"}
  /\ sent \in Seq([data : Data, parity : Data]) /\ late \in BOOLEAN

\* The circumstances in which the handshake works: every write fills the ring,
\* and the coder goes from one semaphore to the next faster than a buffer is
\* sent and the next write is called.
LongWritesPromptCoder == ~late /\ \A w \in 1 .. write : sizes[w] >= NumBufs

StripesConsistent == \A i \in 1 .. Len(sent) : sent[i].parity = sent[i].data

\* "coding is finished, start writing": a stripe goes out with the parity of
\* its own data, so the block servers can rebuild any of its blocks.
ParityMatchesData == LongWritesPromptCoder => StripesConsistent

\* The same of every write, which does not hold (ClientWriteShort.cfg): a write
\* shorter than the ring leaves tokens for the next.
ParityAlwaysMatches == ~late => StripesConsistent

\* The data blocks hold the file, whatever the sizes of the writes and the speed
\* of the coder: within a write the stripes follow each other without a gap, a
\* write starts where the one before it ended, and the stripes sent of the
\* current write are as many as bufWritedSize says.
DataInOrder ==
  /\ TypeOK
  /\ \A i \in 1 .. Len(sent) - 1 :
       LET now == sent[i].data
           next == sent[i + 1].data
       IN \/ next = <<now[1], now[2] + 1>>
          \/ now[2] = sizes[now[1]] /\ next = <<now[1] + 1, 1>>
  /\ sent # <<>> => sent[1].data = <<1, 1>>
  /\ written > 0 => sent[Len(sent)].data = <<write, written>>

\* Nothing of a write is left for the next: with both threads at rest no token
\* is pending and every buffer is free.
CleanBetweenWrites ==
  LongWritesPromptCoder /\ appPc = "idle" /\ coderPc = "idle" /\ jobStartSem = 0
    => waitJobSem = 0 /\ jobFinishedSem = 0 /\ \A b \in Bufs : ~inUse[b]

\* Every write call returns, whatever its size and the speed of the coder.
WritesReturn == appPc = "starting" ~> appPc = "idle"
=============================================================================
