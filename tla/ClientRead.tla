------------------------------ MODULE ClientRead ------------------------------
(***************************************************************************)
(* Reading an open file with ECClientLib (ECBlockWorker.c,                 *)
(* ECBlockWorkerIO.c, ECStoreCoder.c, ECFileHandle.c).                     *)
(*                                                                         *)
(* With all data blocks alive workerPerformRead reads block after block,   *)
(* keeping up to MaxInFlight requests under way, and stores the pieces a   *)
(* stripe apart.  With a data block dead workerPerformDegradedRead fills a *)
(* ring of buffers from K survivors, lets the coder decode each and copies *)
(* it out: the handshake of ClientWritePipeline in the other direction.    *)
(*                                                                         *)
(* A piece is streamingSize bytes, named <<block, row>>; a buffer holds    *)
(* one row.  A degraded read is a whole number of rows, as the tests of    *)
(* the code for equality require.  The caller and threadBlockWorker, who   *)
(* runs a degraded read, take turns by two semaphores and are one thread.  *)
(***************************************************************************)
EXTENDS Integers, Sequences, FiniteSets, SequencesExt

CONSTANTS
  StripeK, StripeM,
  NumBufs,        \* workerBufsNum
  MaxInFlight,    \* maxInFlightReq
  MaxReads,       \* bound: read calls
  MaxSize         \* bound: rows of a read

ASSUME StripeAssumption == StripeK \in Nat \ {0} /\ StripeM \in Nat \ {0}
ASSUME WindowAssumption == NumBufs \in Nat \ {0} /\ MaxInFlight \in Nat \ {0}
ASSUME BoundsAssumption == MaxReads \in Nat /\ MaxSize \in Nat \ {0}

DataBlocks == 0 .. StripeK - 1
Blocks == 0 .. StripeK + StripeM - 1
Bufs == 0 .. NumBufs - 1
Nothing == <<-1, -1>>
Pieces == (Blocks \X Nat) \cup {Nothing}

VARIABLES
  dead,             \* data blocks whose server does not work (serverStatus 0)
  asked, arrived,   \* per block: requests unanswered, rows in the socket
  blockPos,         \* per block: offset of the open file at its server
  sizes, buf,       \* pieces of every call; the caller's buffer of the last
  handled, written, \* bufHandledSize, bufWritedSize
  pc, worker,       \* worker: position in the list of block workers
  reqOffset, startOffset, inFlight,
  fillIdx, copyIdx,
  inUse,            \* bufInUseFlag
  input,            \* inputBufs
  output,           \* outputBufs: the input they were computed from
  jobDoneFlag, jobFinishedFlag,
  jobStartSem, waitJobSem, jobFinishedSem,  \* of the coder
  coderPc, coderIdx,
  late              \* history: a read once ended or began before the coder was
                    \* through with the one before

serverVars == <<asked, arrived, blockPos>>
callVars   == <<sizes, buf, handled, written>>
reqVars    == <<worker, reqOffset, startOffset, inFlight>>
bufVars    == <<inUse, input, output>>
flagVars   == <<jobDoneFlag, jobFinishedFlag>>
semVars    == <<jobStartSem, waitJobSem, jobFinishedSem>>
coderVars  == <<coderPc, coderIdx>>
vars == <<dead, serverVars, callVars, pc, reqVars, fillIdx, copyIdx, bufVars, flagVars,
          semVars, coderVars, late>>

bufSize == Last(sizes)
degraded == dead # {}  \* degradedReadFlag

\* grs_create_decoding_data_matrix: dm_ids, the first K blocks not erased, in
\* order.  Only data blocks are ever erased.
DmIds == SubSeq(SetToSortSeq(Blocks \ dead, <), 1, StripeK)

\* The block the i-th worker of the file reads.
BlockOf(i) == IF degraded THEN DmIds[i + 1] ELSE i

NextBuf(b) == (b + 1) % NumBufs
EmptyInput == [i \in DataBlocks |-> Nothing]

Init ==
  /\ dead \in {d \in SUBSET DataBlocks : Cardinality(d) <= StripeM}
  /\ asked = [b \in Blocks |-> 0] /\ arrived = [b \in Blocks |-> <<>>]
  /\ blockPos = [b \in Blocks |-> 0]
  /\ sizes = <<>> /\ buf = <<>> /\ handled = 0 /\ written = 0
  /\ pc = "idle"
  /\ worker = 0 /\ reqOffset = 0 /\ startOffset = 0 /\ inFlight = 0
  /\ fillIdx = 0 /\ copyIdx = 0
  /\ inUse = [b \in Bufs |-> FALSE]
  /\ input = [b \in Bufs |-> EmptyInput] /\ output = [b \in Bufs |-> EmptyInput]
  /\ jobDoneFlag = FALSE /\ jobFinishedFlag = FALSE
  /\ jobStartSem = 0 /\ waitJobSem = 0 /\ jobFinishedSem = 0
  /\ coderPc = "idle" /\ coderIdx = 0
  /\ late = FALSE

-----------------------------------------------------------------------------
(* Block servers and sockets *)

\* reqECBlockRead: one more request to the server of block b.
ReqECBlockRead(b) ==
  /\ inFlight < MaxInFlight
  /\ asked' = [asked EXCEPT ![b] = @ + 1]
  /\ inFlight' = inFlight + 1
  /\ UNCHANGED <<arrived, blockPos>>

\* The server answers the requests for an open block in order, each with the
\* piece at its offset.
Answer(b) ==
  /\ asked[b] > 0
  /\ asked' = [asked EXCEPT ![b] = @ - 1]
  /\ arrived' = [arrived EXCEPT ![b] = Append(@, blockPos[b])]
  /\ blockPos' = [blockPos EXCEPT ![b] = @ + 1]
  /\ UNCHANGED <<dead, callVars, pc, reqVars, fillIdx, copyIdx, bufVars, flagVars, semVars,
                 coderVars, late>>

\* The recv calls for one piece, over as many events as it takes.
RecvPiece(b) ==
  /\ arrived[b] # <<>>
  /\ arrived' = [arrived EXCEPT ![b] = Tail(@)]
  /\ inFlight' = inFlight - 1
  /\ UNCHANGED <<asked, blockPos>>

-----------------------------------------------------------------------------
(* readECFile with all blocks alive *)

BeginRead(n) ==
  /\ pc = "idle" /\ Len(sizes) < MaxReads
  /\ sizes' = Append(sizes, n)
  /\ buf' = [i \in 1 .. n |-> Nothing]
  /\ handled' = 0 /\ written' = 0
  /\ jobDoneFlag' = FALSE

\* performReadJob: the first worker again, whatever block the last call ended in.
PerformReadJob(n) ==
  /\ ~degraded /\ BeginRead(n)
  /\ worker' = 0 /\ reqOffset' = 0 /\ startOffset' = 0 /\ inFlight' = 0
  /\ pc' = "block"
  /\ UNCHANGED <<dead, serverVars, fillIdx, copyIdx, bufVars, jobFinishedFlag, semVars,
                 coderVars, late>>

CanRequest == inFlight < MaxInFlight /\ reqOffset < bufSize

RequestPiece ==
  /\ pc = "block" /\ CanRequest
  /\ ReqECBlockRead(BlockOf(worker))
  /\ handled' = handled + 1
  /\ reqOffset' = reqOffset + StripeK
  /\ UNCHANGED <<dead, sizes, buf, written, pc, worker, startOffset, fillIdx, copyIdx, bufVars,
                 flagVars, semVars, coderVars, late>>

\* readDataFromBlockServer; the block is through when all it was asked for is
\* there, and the file when bufWritedSize is bufSize.
ReadPiece ==
  /\ pc = "block" /\ ~CanRequest
  /\ RecvPiece(BlockOf(worker))
  /\ buf' = [buf EXCEPT ![startOffset + 1] = <<BlockOf(worker), Head(arrived[BlockOf(worker)])>>]
  /\ written' = written + 1
  /\ IF handled # written'
       THEN /\ startOffset' = startOffset + StripeK
            /\ UNCHANGED <<worker, reqOffset, pc>>
       ELSE /\ worker' = (worker + 1) % StripeK
            /\ startOffset' = worker + 1 /\ reqOffset' = worker + 1
            /\ pc' = IF written' < bufSize THEN "block" ELSE "blocksRead"
  /\ UNCHANGED <<dead, sizes, handled, fillIdx, copyIdx, bufVars, flagVars, semVars, coderVars, late>>

ReturnFromRead ==
  /\ pc = "blocksRead"
  /\ jobDoneFlag' = TRUE
  /\ pc' = "idle"
  /\ UNCHANGED <<dead, serverVars, callVars, reqVars, fillIdx, copyIdx, bufVars, jobFinishedFlag,
                 semVars, coderVars, late>>

-----------------------------------------------------------------------------
(* readECFile with a data block dead *)

PerformDegradedReadJob(n) ==
  /\ degraded /\ BeginRead(n * StripeK)
  /\ pc' = "submitted"
  /\ late' = (late \/ coderPc # "idle")
  /\ UNCHANGED <<dead, serverVars, reqVars, fillIdx, copyIdx, bufVars, jobFinishedFlag, semVars,
                 coderVars>>

\* performThreadWorkerJob wakes the coder and begins.
PerformThreadWorkerJob ==
  /\ pc = "submitted"
  /\ jobFinishedFlag' = FALSE
  /\ jobStartSem' = jobStartSem + 1
  /\ fillIdx' = 0 /\ copyIdx' = 0
  /\ pc' = "fill"
  /\ UNCHANGED <<dead, serverVars, callVars, reqVars, bufVars, jobDoneFlag, waitJobSem,
                 jobFinishedSem, coderVars, late>>

\* A free buffer: workersReqDegradedBlocksRead begins with the first survivor.
TakeBuf ==
  /\ pc = "fill" /\ ~inUse[fillIdx]
  /\ inUse' = [inUse EXCEPT ![fillIdx] = TRUE]
  /\ worker' = 0 /\ inFlight' = 0
  /\ pc' = "request"
  /\ UNCHANGED <<dead, serverVars, callVars, reqOffset, startOffset, fillIdx, copyIdx, input, output,
                 flagVars, semVars, coderVars, late>>

RequestRow ==
  /\ pc = "request"
  /\ ReqECBlockRead(BlockOf(worker))
  /\ pc' = "receive"
  /\ UNCHANGED <<dead, callVars, worker, reqOffset, startOffset, fillIdx, copyIdx, bufVars, flagVars,
                 semVars, coderVars, late>>

\* On to the next buffer, unless it was the last or everything is asked for.
\* The test comes after the attempt to fill a buffer, never before.
AfterBuf ==
  /\ fillIdx' = NextBuf(fillIdx)
  /\ pc' = IF handled' = bufSize \/ fillIdx = NumBufs - 1 THEN "waitDecoding" ELSE "fill"

\* The row of one survivor; with that of the last the coder gets the buffer.
ReceiveRow ==
  /\ pc = "receive"
  /\ RecvPiece(BlockOf(worker))
  /\ input' = [input EXCEPT ![fillIdx][worker] = <<BlockOf(worker), Head(arrived[BlockOf(worker)])>>]
  /\ IF worker < StripeK - 1
       THEN /\ worker' = worker + 1 /\ pc' = "request"
            /\ UNCHANGED <<handled, output, waitJobSem, fillIdx>>
       ELSE /\ handled' = handled + StripeK
            /\ output' = [output EXCEPT ![fillIdx] = EmptyInput]
            /\ waitJobSem' = waitJobSem + 1
            /\ AfterBuf
            /\ UNCHANGED worker
  /\ UNCHANGED <<dead, sizes, buf, written, reqOffset, startOffset, copyIdx, inUse, flagVars,
                 jobStartSem, jobFinishedSem, coderVars, late>>

SkipBufInUse ==
  /\ pc = "fill" /\ inUse[fillIdx]
  /\ handled' = handled
  /\ AfterBuf
  /\ UNCHANGED <<dead, serverVars, sizes, buf, written, reqVars, copyIdx, bufVars, flagVars, semVars,
                 coderVars, late>>

\* What decoding makes of a row of survivors for the dead block b.
Decoded(in, b) ==
  IF \E r \in {in[i][2] : i \in DataBlocks} : \A i \in DataBlocks : in[i] = <<DmIds[i + 1], r>>
    THEN <<b, in[0][2]>> ELSE Nothing

\* copyCodedToMainBuf: a dead block from the output, a living one from the
\* input of its own number.
Copied(b) ==
  [i \in DataBlocks |-> IF i \in dead THEN Decoded(output[b], i) ELSE input[b][i]]

FreeBuf_KeepsInUse(b) == UNCHANGED inUse
FreeBuf(b) == inUse' = [inUse EXCEPT ![b] = FALSE]

CopyCodedToMainBuf ==
  /\ pc = "waitDecoding" /\ jobFinishedSem > 0
  /\ jobFinishedSem' = jobFinishedSem - 1
  /\ buf' = [i \in 1 .. bufSize |->
               IF i \in written + 1 .. written + StripeK
                 THEN Copied(copyIdx)[i - written - 1] ELSE buf[i]]
  /\ written' = written + StripeK
  /\ FreeBuf(copyIdx)
  /\ copyIdx' = NextBuf(copyIdx)
  /\ fillIdx' = 0
  /\ pc' = IF written' < bufSize THEN "fill" ELSE "ending"
  /\ UNCHANGED <<dead, serverVars, sizes, handled, reqVars, input, output, flagVars, jobStartSem,
                 waitJobSem, coderVars, late>>

\* jobDoneFlag, then jobFinishedFlag and a last token, and the call returns.
RaiseJobDone ==
  /\ pc = "ending"
  /\ jobDoneFlag' = TRUE
  /\ pc' = "ended"
  /\ late' = (late \/ coderPc # "waitJob" \/ waitJobSem > 0)
  /\ UNCHANGED <<dead, serverVars, callVars, reqVars, fillIdx, copyIdx, bufVars, jobFinishedFlag,
                 semVars, coderVars>>

ReturnFromDegradedRead ==
  /\ pc = "ended"
  /\ jobFinishedFlag' = TRUE
  /\ waitJobSem' = waitJobSem + 1
  /\ pc' = "idle"
  /\ UNCHANGED <<dead, serverVars, callVars, reqVars, fillIdx, copyIdx, bufVars, jobDoneFlag,
                 jobStartSem, jobFinishedSem, coderVars, late>>

-----------------------------------------------------------------------------
(* The coder thread *)

others == <<dead, serverVars, callVars, pc, reqVars, fillIdx, copyIdx, inUse, input, flagVars, late>>

WaitJobStart ==
  /\ coderPc = "idle" /\ jobStartSem > 0
  /\ jobStartSem' = jobStartSem - 1
  /\ coderPc' = "coding"
  /\ UNCHANGED <<others, output, waitJobSem, jobFinishedSem, coderIdx>>

PerformCodingJob_KeepsIdx ==
  /\ coderPc = "coding"
  /\ coderPc' = IF jobFinishedFlag THEN "idle" ELSE "decodeLoop"
  /\ UNCHANGED <<others, output, semVars, coderIdx>>

\* performCodingJob: performDecodingJob starts at buffer 0.
PerformCodingJob ==
  /\ coderPc = "coding"
  /\ coderPc' = IF jobFinishedFlag THEN "idle" ELSE "decodeLoop"
  /\ coderIdx' = IF jobFinishedFlag THEN coderIdx ELSE 0
  /\ UNCHANGED <<others, output, semVars>>

\* The head of the loop of performDecodingJob.
PerformDecodingJob ==
  /\ coderPc = "decodeLoop"
  /\ coderPc' = IF jobDoneFlag THEN "coding" ELSE "waitJob"
  /\ UNCHANGED <<others, output, semVars, coderIdx>>

WaitJob ==
  /\ coderPc = "waitJob" /\ waitJobSem > 0
  /\ waitJobSem' = waitJobSem - 1
  /\ coderPc' = "woken"
  /\ UNCHANGED <<others, output, jobStartSem, jobFinishedSem, coderIdx>>

WokenForEnd ==
  /\ coderPc = "woken" /\ jobDoneFlag
  /\ coderPc' = "coding"
  /\ UNCHANGED <<others, output, semVars, coderIdx>>

Decode ==
  /\ coderPc = "woken" /\ ~jobDoneFlag
  /\ output' = [output EXCEPT ![coderIdx] = input[coderIdx]]
  /\ jobFinishedSem' = jobFinishedSem + 1
  /\ coderIdx' = NextBuf(coderIdx)
  /\ coderPc' = "decodeLoop"
  /\ UNCHANGED <<others, jobStartSem, waitJobSem>>

-----------------------------------------------------------------------------
ReadCall == \/ RequestPiece \/ ReadPiece \/ ReturnFromRead
            \/ PerformThreadWorkerJob \/ TakeBuf \/ RequestRow \/ ReceiveRow \/ SkipBufInUse
            \/ CopyCodedToMainBuf \/ RaiseJobDone \/ ReturnFromDegradedRead
Coder == \/ WaitJobStart \/ PerformCodingJob \/ PerformDecodingJob
         \/ WaitJob \/ WokenForEnd \/ Decode
Servers == \E b \in Blocks : Answer(b)

\* No further read: the coder may wait for one for ever.
AllRead == pc = "idle" /\ Len(sizes) = MaxReads /\ UNCHANGED vars

Next == ReadCall \/ Coder \/ Servers \/ AllRead
        \/ (\E n \in 1 .. MaxSize * StripeK : PerformReadJob(n))
        \/ \E rows \in 1 .. MaxSize : PerformDegradedReadJob(rows)

Spec == Init /\ [][Next]_vars

\* Both threads run and block servers answer; nothing makes the caller read.
FairSpec == Spec /\ WF_vars(ReadCall) /\ WF_vars(Coder) /\ WF_vars(Servers)

-----------------------------------------------------------------------------
(* Properties *)

\* Every variable holds a value of its kind; checked with ReadsReturnTheFile.
TypeOK ==
  /\ dead \subseteq DataBlocks
  /\ asked \in [Blocks -> Nat] /\ arrived \in [Blocks -> Seq(Nat)] /\ blockPos \in [Blocks -> Nat]
  /\ sizes \in Seq(Nat) /\ buf \in Seq(Pieces) /\ handled \in Nat /\ written \in Nat
  /\ pc \in {"idle", "block", "blocksRead", "submitted", "fill", "request", "receive",
             "waitDecoding", "ending", "ended"}
  /\ worker \in DataBlocks /\ reqOffset \in Nat /\ startOffset \in Nat
  /\ inFlight \in 0 .. MaxInFlight
  /\ fillIdx \in Bufs /\ copyIdx \in Bufs /\ coderIdx \in Bufs
  /\ inUse \in [Bufs -> BOOLEAN]
  /\ input \in [Bufs -> [DataBlocks -> Pieces]] /\ output \in [Bufs -> [DataBlocks -> Pieces]]
  /\ jobDoneFlag \in BOOLEAN /\ jobFinishedFlag \in BOOLEAN
  /\ jobStartSem \in Nat /\ waitJobSem \in Nat /\ jobFinishedSem \in Nat
  /\ coderPc \in {"idle", "coding", "decodeLoop", "waitJob", "woken"}
  /\ late \in BOOLEAN

\* Sizes after which the next call finds what it needs: whole stripes, or, in a
\* degraded read, as many rows as leave the ring empty.
Fits(n) == IF degraded THEN (n \div StripeK) % NumBufs = 1 % NumBufs ELSE n % StripeK = 0
EarlierReadsFit == \A i \in 1 .. Len(sizes) - 1 : Fits(sizes[i])

\* The living data blocks read by a degraded read are in the place of their
\* number: the dead ones come after them.
SurvivorsInPlace == \A b \in dead, c \in DataBlocks \ dead : c < b

Before == FoldLeft(LAMBDA a, n : a + n, 0, Front(sizes))
FilePiece(i) == <<i % StripeK, i \div StripeK>>

\* A call returned what follows in the file.
FileRead == pc = "idle" /\ sizes # <<>> =>
              \A i \in 1 .. Len(buf) : buf[i] = FilePiece(Before + i - 1)

\* readFile returns the file: the n-th byte of all calls together is the n-th
\* byte of the file, read or decoded.  For reads of fitting size, a coder that
\* keeps up and, with data blocks dead, the last ones.
ReadsReturnTheFile == TypeOK /\ (~late /\ EarlierReadsFit /\ SurvivorsInPlace => FileRead)

\* The same with any data block dead, which does not hold (ClientReadDegraded.cfg).
DegradedReadsReturnTheFile == ~late /\ EarlierReadsFit => FileRead

\* The same for reads of any size, which does not hold (ClientReadAnySize.cfg).
AnyReadsReturnTheFile == ~late /\ SurvivorsInPlace => FileRead

\* Nothing of a read is left for the next: no request is unanswered and no data
\* in a socket; after reads of fitting size, with the coder at rest, no token is
\* pending and all buffers are free.
CleanBetweenReads ==
  pc = "idle" =>
    /\ \A b \in Blocks : asked[b] = 0 /\ arrived[b] = <<>>
    /\ ~late /\ coderPc = "idle" /\ (\A i \in 1 .. Len(sizes) : Fits(sizes[i])) /\ jobStartSem = 0
         => waitJobSem = 0 /\ jobFinishedSem = 0 /\ \A b \in Bufs : ~inUse[b]

\* Every read call returns, whatever its size and the speed of the coder.
ReadsReturn == pc \in {"block", "submitted"} ~> pc = "idle"
=============================================================================
