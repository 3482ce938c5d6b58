-------------------------- MODULE RecoveryPipeline --------------------------
(***************************************************************************)
(* The recovery threads of one ECServer (RecoveryThreadWorker.c,           *)
(* NetIOWorker.c, DiskIOWorker.c, CodingWorker.c) and the part of its meta *)
(* thread that feeds them (ECMetaServerHandle.c), over one recovery        *)
(* session: from the RecoveryNodesOK reply to EndRecoveryNodes.            *)
(*                                                                         *)
(* A block group is recovered in Tasks pieces.  The manager thread deals   *)
(* the pieces to a ring of NumBufs buffers; four workers pass every piece  *)
(* on, each one waking on its own semaphore and keeping its own private    *)
(* position in the ring: the network reader, the local disk reader, the    *)
(* coder and the writer.  All remote sources are read serially by the      *)
(* network reader and stand here as one.                                   *)
(*                                                                         *)
(* The pieces of a block are named <<group, position>>.  All blocks of a   *)
(* group have the same length.  Reads, writes and opens succeed.           *)
(***************************************************************************)
EXTENDS Integers, Sequences

CONSTANTS
  NumBufs,      \* recoveryBufNum
  Tasks,        \* buffers of data in one block
  NumGroups,    \* block groups of the ESet to recover
  FollowLate    \* bound: whether behaviours go on after a task that came too early,
                \* of which little more than the types and the session is claimed

ASSUME NumBufsAssumption == NumBufs \in Nat \ {0}
ASSUME TasksAssumption == Tasks \in Nat \ {0}
ASSUME NumGroupsAssumption == NumGroups \in Nat
ASSUME FollowLateAssumption == FollowLate \in BOOLEAN

Bufs == 0 .. NumBufs - 1
Groups == 1 .. NumGroups
Workers == {"net", "disk", "coder", "writer"}
Pieces == Groups \X (1 .. Tasks)

VARIABLES
  toServer,     \* command in flight from ECMeta
  toMeta,       \* reply in flight to ECMeta
  recovered,    \* ECMeta: groups whose mapping has recoveredFlag = 1
  metaPc,       \* the server's meta thread: serving, or joining the workers
  pipe,         \* serverRecoveryPipes holds a byte
  group,        \* blockGroupIdx, 0 when no task is open
  curBlock,     \* blockInfo_t.blockId: the group of the last task
  curBlockDone, \* the flag of that name
  over,         \* recoveryOverFlag
  pending,      \* totalPendingHandleSize, in buffers
  mgrPc, mgrIdx,
  inUse,        \* recoveryBufsInUseFlag
  waitingJobSem,
  sem,          \* ioReadSem, diskIOReadSem, codingSem, ioWriteSem by worker
  finishedSem,  \* writingFinishedSems
  pc, bufIdx,   \* of the workers
  buf,          \* recoveryBufs
  netFd, diskFd,\* open source blocks: <<group, pieces read>>, or Closed
  outFd,        \* open target block, 0 when none
  files,        \* target blocks on disk
  late          \* history, for the properties: a task was set up, and curBlockDone
                \* cleared, before a worker had consumed its close token

metaVars == <<toServer, toMeta, recovered, metaPc, pipe>>
taskVars == <<group, curBlock, curBlockDone, over, late>>
mgrVars  == <<pending, mgrPc, mgrIdx, inUse, waitingJobSem>>
semVars  == <<sem, finishedSem>>
workVars == <<pc, bufIdx>>
dataVars == <<buf, netFd, diskFd, outFd, files>>
vars == <<metaVars, taskVars, mgrVars, semVars, workVars, dataVars>>

Closed  == <<0, 0>>
NoPiece == <<0, 0>>

\* A buffer: taskSize (0 or 1), what each reader put in it since the manager
\* dealt it (NoPiece: bufWritedSize = 0), and the coder's output.
Blank(size, out) == [size |-> size, net |-> NoPiece, disk |-> NoPiece, out |-> out]

NextBuf_NotWrapped(b) == b + 1

NextBuf(b) == IF b = NumBufs - 1 THEN 0 ELSE b + 1

\* Every worker has consumed its tokens and is back at its semaphore.
Quiet == \A w \in Workers : sem[w] = 0 /\ pc[w] = "wait"

Init ==
  /\ toServer = "none" /\ toMeta = "RecoveryNodesOK" /\ recovered = 0
  /\ metaPc = "serving" /\ pipe = FALSE
  /\ group = 0 /\ curBlock = 0 /\ curBlockDone = FALSE /\ over = FALSE /\ late = FALSE
  /\ pending = 0 /\ mgrPc = "wait" /\ mgrIdx = 0
  /\ inUse = [b \in Bufs |-> FALSE] /\ waitingJobSem = 0
  /\ sem = [w \in Workers |-> 0] /\ finishedSem = [b \in Bufs |-> 0]
  /\ pc = [w \in Workers |-> "wait"] /\ bufIdx = [w \in Workers |-> 0]
  /\ buf = [b \in Bufs |-> Blank(0, NoPiece)]
  /\ netFd = Closed /\ diskFd = Closed /\ outFd = 0
  /\ files = [g \in Groups |-> <<>>]

-----------------------------------------------------------------------------
(* ECMeta: recoverESet marks the reported group and asks for the next one. *)

RecoverESet ==
  /\ toMeta # "none"
  /\ toMeta' = "none"
  /\ recovered' = IF toMeta = "RecoveredBlockGroup" THEN recovered + 1 ELSE recovered
  /\ toServer' = IF recovered' < NumGroups THEN "RecoveryBlockGroup" ELSE "EndRecoveryNodes"
  /\ UNCHANGED <<metaPc, pipe, taskVars, mgrVars, semVars, workVars, dataVars>>

-----------------------------------------------------------------------------
(* The server's meta thread. *)

\* RecoverBlock: a new task is refused while blockGroupIdx is still set.  Nobody
\* asks whether the close tokens of the last one have been consumed.
InitRecoveryTask ==
  /\ metaPc = "serving" /\ toServer = "RecoveryBlockGroup"
  /\ toServer' = "none"
  /\ IF group # 0
       THEN UNCHANGED <<group, curBlock, curBlockDone, pending, waitingJobSem, late>>
       ELSE /\ group' = recovered + 1
            /\ late' = (late \/ ~Quiet)
            /\ curBlock' = recovered + 1
            /\ curBlockDone' = FALSE
            /\ pending' = Tasks
            /\ waitingJobSem' = waitingJobSem + 1
  /\ UNCHANGED <<toMeta, recovered, metaPc, pipe, over, mgrPc, mgrIdx, inUse,
                 semVars, workVars, dataVars>>

ReportBlockDone_KeepsTaskOpen ==
  /\ metaPc = "serving" /\ pipe
  /\ pipe' = FALSE
  /\ toMeta' = IF group # 0 /\ curBlockDone THEN "RecoveredBlockGroup" ELSE toMeta
  /\ UNCHANGED <<toServer, recovered, metaPc, taskVars, mgrVars, semVars, workVars,
                 dataVars>>

\* The manager's 'D' byte: report the group and close the task.
ReportBlockDone ==
  /\ metaPc = "serving" /\ pipe
  /\ pipe' = FALSE
  /\ IF group # 0 /\ curBlockDone
       THEN toMeta' = "RecoveredBlockGroup" /\ group' = 0
       ELSE UNCHANGED <<toMeta, group>>
  /\ UNCHANGED <<toServer, recovered, metaPc, curBlock, curBlockDone, over, late, mgrVars,
                 semVars, workVars, dataVars>>

\* EndRecoveryNodes: raise recoveryOverFlag, wake every worker, join them.
\* waitingJobSem is not posted: the manager thread is left behind.
DeallocRecoveryThreadMgr ==
  /\ metaPc = "serving" /\ toServer = "EndRecoveryNodes"
  /\ toServer' = "none"
  /\ over' = TRUE
  /\ sem' = [w \in Workers |-> sem[w] + 1]
  /\ metaPc' = "joining"
  /\ UNCHANGED <<toMeta, recovered, pipe, group, curBlock, curBlockDone, late, mgrVars,
                 finishedSem, workVars, dataVars>>

JoinWorkers ==
  /\ metaPc = "joining"
  /\ \A w \in Workers : pc[w] = "exit"
  /\ metaPc' = "joined"
  /\ UNCHANGED <<toServer, toMeta, recovered, pipe, taskVars, mgrVars, semVars,
                 workVars, dataVars>>

-----------------------------------------------------------------------------
(* recoveryMgrThread *)

MgrWake ==
  /\ mgrPc = "wait" /\ waitingJobSem > 0
  /\ waitingJobSem' = waitingJobSem - 1
  /\ mgrPc' = "fill" /\ mgrIdx' = 0
  /\ UNCHANGED <<metaVars, taskVars, pending, inUse, semVars, workVars, dataVars>>

Reclaim_WithoutWaiting(b) ==
  finishedSem' = [finishedSem EXCEPT ![b] = IF @ > 0 THEN @ - 1 ELSE @]

\* A buffer still in use is reclaimed only when the writer has finished it.
Reclaim(b) ==
  /\ inUse[b] => finishedSem[b] > 0
  /\ finishedSem' = [finishedSem EXCEPT ![b] = IF inUse[b] THEN @ - 1 ELSE @]

\* Deal the next piece to buffer mgrIdx and wake the network reader.
AssignTask ==
  /\ mgrPc = "fill" /\ pending > 0
  /\ Reclaim(mgrIdx)
  /\ pending' = pending - 1
  /\ buf' = [buf EXCEPT ![mgrIdx] = Blank(1, @.out)]
  /\ inUse' = [inUse EXCEPT ![mgrIdx] = TRUE]
  /\ sem' = [sem EXCEPT !["net"] = @ + 1]
  /\ mgrIdx' = NextBuf(mgrIdx)
  /\ UNCHANGED <<metaVars, taskVars, mgrPc, waitingJobSem, workVars, netFd, diskFd,
                 outFd, files>>

\* No more task: leave the dealing loop.
NoMoreTask ==
  /\ mgrPc = "fill" /\ pending = 0
  /\ Reclaim(mgrIdx)
  /\ inUse' = [inUse EXCEPT ![mgrIdx] = FALSE]
  /\ mgrPc' = "drain" /\ mgrIdx' = 0
  /\ UNCHANGED <<metaVars, taskVars, pending, waitingJobSem, sem, workVars, dataVars>>

\* "Wait all task finished"
DrainBuf ==
  /\ mgrPc = "drain"
  /\ Reclaim(mgrIdx)
  /\ inUse' = [inUse EXCEPT ![mgrIdx] = FALSE]
  /\ mgrIdx' = NextBuf(mgrIdx)
  /\ mgrPc' = IF mgrIdx = NumBufs - 1 THEN "finish" ELSE "drain"
  /\ UNCHANGED <<metaVars, taskVars, pending, waitingJobSem, sem, workVars, dataVars>>

\* curBlockDone = 1, resetRecoveryBufs, and one close token to the network
\* reader (which passes it on to the disk reader) and one to the writer.
FinishBlock ==
  /\ mgrPc = "finish"
  /\ curBlockDone' = TRUE
  /\ buf' = [b \in Bufs |-> Blank(0, buf[b].out)]
  /\ sem' = [sem EXCEPT !["net"] = @ + 1, !["writer"] = @ + 1]
  /\ mgrPc' = "notify"
  /\ UNCHANGED <<metaVars, group, curBlock, over, late, pending, mgrIdx, inUse, waitingJobSem,
                 finishedSem, workVars, netFd, diskFd, outFd, files>>

NotifyMeta ==
  /\ mgrPc = "notify"
  /\ pipe' = TRUE
  /\ mgrPc' = IF over THEN "exit" ELSE "wait"
  /\ UNCHANGED <<toServer, toMeta, recovered, metaPc, taskVars, pending, mgrIdx, inUse,
                 waitingJobSem, semVars, workVars, dataVars>>

-----------------------------------------------------------------------------
(* The workers.  A woken worker looks at recoveryOverFlag at once and, in a  *)
(* later step, at curBlockDone: the token itself does not say what it means. *)

Wake(w) ==
  /\ pc[w] = "wait" /\ sem[w] > 0
  /\ pc' = [pc EXCEPT ![w] = IF over THEN "exit" ELSE "woken"]
  /\ sem' = IF w = "net" /\ ~over THEN [sem EXCEPT !["net"] = @ - 1, !["disk"] = @ + 1]
                                  ELSE [sem EXCEPT ![w] = @ - 1]
  /\ UNCHANGED <<metaVars, taskVars, mgrVars, finishedSem, bufIdx, dataVars>>

Advance(w) ==
  /\ pc' = [pc EXCEPT ![w] = "wait"]
  /\ bufIdx' = [bufIdx EXCEPT ![w] = NextBuf(@)]

\* The block a reader reads from: one left open is not opened again.
OpenedFd(fd) == IF fd = Closed THEN <<curBlock, 0>> ELSE fd
NextPiece(fd) == <<OpenedFd(fd)[1], OpenedFd(fd)[2] + 1>>
AtEnd(fd) == OpenedFd(fd)[2] >= Tasks

CloseRemoteBlocksFd ==
  /\ pc["net"] = "woken" /\ curBlockDone
  /\ netFd' = Closed
  /\ pc' = [pc EXCEPT !["net"] = "wait"]
  /\ UNCHANGED <<metaVars, taskVars, mgrVars, semVars, bufIdx, buf, diskFd, outFd, files>>

\* First part of performNetDiskIOJob: fetch the remote sources.  At the end of
\* a block the read never completes.
ReadRemoteBlocks ==
  /\ pc["net"] = "woken" /\ ~curBlockDone
  /\ LET b == bufIdx["net"]
         wanted == buf[b].size = 1 /\ buf[b].net = NoPiece
     IN /\ pc' = [pc EXCEPT !["net"] = IF wanted /\ AtEnd(netFd) THEN "stuck" ELSE "waitDisk"]
        /\ IF wanted /\ ~AtEnd(netFd)
             THEN /\ buf' = [buf EXCEPT ![b].net = NextPiece(netFd)]
                  /\ netFd' = NextPiece(netFd)
             ELSE UNCHANGED <<buf, netFd>>
  /\ UNCHANGED <<metaVars, taskVars, mgrVars, semVars, bufIdx, diskFd, outFd, files>>

WaitDiskData_NotAwaited ==
  /\ pc["net"] = "waitDisk"
  /\ sem' = [sem EXCEPT !["coder"] = @ + 1]
  /\ Advance("net")
  /\ UNCHANGED <<metaVars, taskVars, mgrVars, finishedSem, dataVars>>

\* Second part: waitDiskData, then wake the coder.
WaitDiskData ==
  /\ pc["net"] = "waitDisk"
  /\ LET b == bufIdx["net"]
     IN buf[b].size = 1 => buf[b].net # NoPiece /\ buf[b].disk # NoPiece
  /\ sem' = [sem EXCEPT !["coder"] = @ + 1]
  /\ Advance("net")
  /\ UNCHANGED <<metaVars, taskVars, mgrVars, finishedSem, dataVars>>

CloseReadedBlocksFds ==
  /\ pc["disk"] = "woken" /\ curBlockDone
  /\ diskFd' = Closed
  /\ pc' = [pc EXCEPT !["disk"] = "wait"]
  /\ UNCHANGED <<metaVars, taskVars, mgrVars, semVars, bufIdx, buf, netFd, outFd, files>>

\* Opening the block is part of the job, even of an empty one.
PerformDiskReadJob ==
  /\ pc["disk"] = "woken" /\ ~curBlockDone
  /\ LET b == bufIdx["disk"]
         wanted == buf[b].size = 1 /\ buf[b].disk = NoPiece
     IN IF wanted /\ AtEnd(diskFd)
          THEN pc' = [pc EXCEPT !["disk"] = "stuck"] /\ UNCHANGED <<bufIdx, buf, diskFd>>
          ELSE /\ Advance("disk")
               /\ diskFd' = IF wanted THEN NextPiece(diskFd) ELSE OpenedFd(diskFd)
               /\ buf' = IF wanted THEN [buf EXCEPT ![b].disk = NextPiece(diskFd)] ELSE buf
  /\ UNCHANGED <<metaVars, taskVars, mgrVars, semVars, netFd, outFd, files>>

\* What the decoding matrix makes of one piece of every source.
Decoded(b) == IF b.net = b.disk THEN b.net ELSE NoPiece

StartCoding ==
  /\ pc["coder"] = "woken"
  /\ LET b == bufIdx["coder"]
     IN buf' = IF buf[b].size = 1 THEN [buf EXCEPT ![b].out = Decoded(buf[b])] ELSE buf
  /\ sem' = [sem EXCEPT !["writer"] = @ + 1]
  /\ Advance("coder")
  /\ UNCHANGED <<metaVars, taskVars, mgrVars, finishedSem, netFd, diskFd, outFd, files>>

CloseWritedBlocksFds_LeftOpen ==
  /\ pc["writer"] = "woken" /\ curBlockDone
  /\ pc' = [pc EXCEPT !["writer"] = "wait"]
  /\ UNCHANGED <<metaVars, taskVars, mgrVars, semVars, bufIdx, dataVars>>

CloseWritedBlocksFds ==
  /\ pc["writer"] = "woken" /\ curBlockDone
  /\ outFd' = 0
  /\ pc' = [pc EXCEPT !["writer"] = "wait"]
  /\ UNCHANGED <<metaVars, taskVars, mgrVars, semVars, bufIdx, buf, netFd, diskFd, files>>

\* startWriteFile creates the target block and truncates it.
PerformWriteDiskJob ==
  /\ pc["writer"] = "woken" /\ ~curBlockDone
  /\ LET b == bufIdx["writer"]
         target == IF outFd = 0 THEN curBlock ELSE outFd
         before == IF outFd = 0 THEN <<>> ELSE files[target]
     IN /\ outFd' = target
        /\ files' = [files EXCEPT ![target] =
                       IF buf[b].size = 1 THEN Append(before, buf[b].out) ELSE before]
        /\ finishedSem' = [finishedSem EXCEPT ![b] = @ + 1]
  /\ Advance("writer")
  /\ UNCHANGED <<metaVars, taskVars, mgrVars, sem, buf, netFd, diskFd>>

-----------------------------------------------------------------------------
MetaThread == InitRecoveryTask \/ ReportBlockDone \/ DeallocRecoveryThreadMgr \/ JoinWorkers
MgrThread == MgrWake \/ AssignTask \/ NoMoreTask \/ DrainBuf \/ FinishBlock \/ NotifyMeta
NetThread == Wake("net") \/ CloseRemoteBlocksFd \/ ReadRemoteBlocks \/ WaitDiskData
DiskThread == Wake("disk") \/ CloseReadedBlocksFds \/ PerformDiskReadJob
CoderThread == Wake("coder") \/ StartCoding
WriterThread == Wake("writer") \/ CloseWritedBlocksFds \/ PerformWriteDiskJob

\* The session has ended and the meta thread is back in its loop.  After a late
\* token the threads may wait for each other for ever.
SessionOver == (metaPc = "joined" \/ late) /\ UNCHANGED vars

Followed == late => FollowLate

Next == \/ /\ Followed
           /\ \/ RecoverESet \/ MetaThread \/ MgrThread
              \/ NetThread \/ DiskThread \/ CoderThread \/ WriterThread
        \/ SessionOver

\* Every thread that can take a step is scheduled; messages arrive.
Fairness ==
  /\ WF_vars(Followed /\ RecoverESet) /\ WF_vars(Followed /\ MetaThread)
  /\ WF_vars(Followed /\ MgrThread) /\ WF_vars(Followed /\ NetThread)
  /\ WF_vars(Followed /\ DiskThread) /\ WF_vars(Followed /\ CoderThread)
  /\ WF_vars(Followed /\ WriterThread)

Spec == Init /\ [][Next]_vars
FairSpec == Spec /\ Fairness

-----------------------------------------------------------------------------
(* Properties *)

\* Every variable holds a value of its kind.
TypeOK ==
  /\ toServer \in {"none", "RecoveryBlockGroup", "EndRecoveryNodes"}
  /\ toMeta \in {"none", "RecoveryNodesOK", "RecoveredBlockGroup"}
  /\ recovered \in 0 .. NumGroups /\ metaPc \in {"serving", "joining", "joined"}
  /\ pipe \in BOOLEAN /\ group \in 0 .. NumGroups /\ curBlock \in 0 .. NumGroups
  /\ curBlockDone \in BOOLEAN /\ over \in BOOLEAN /\ late \in BOOLEAN
  /\ pending \in 0 .. Tasks
  /\ mgrPc \in {"wait", "fill", "drain", "finish", "notify", "exit"} /\ mgrIdx \in Bufs
  /\ inUse \in [Bufs -> BOOLEAN] /\ waitingJobSem \in Nat
  /\ sem \in [Workers -> Nat] /\ finishedSem \in [Bufs -> Nat]
  /\ pc \in [Workers -> {"wait", "woken", "waitDisk", "stuck", "exit"}]
  /\ bufIdx \in [Workers -> Bufs]
  /\ buf \in [Bufs -> [size : {0, 1}, net : Pieces \cup {NoPiece},
                       disk : Pieces \cup {NoPiece}, out : Pieces \cup {NoPiece}]]
  /\ {netFd, diskFd} \subseteq (Groups \X (0 .. Tasks)) \cup {Closed}
  /\ outFd \in 0 .. NumGroups
  /\ files \in [Groups -> Seq(Pieces \cup {NoPiece})]

\* A command for a group finds the task before it wholly finished, whatever the
\* sizes and the timing: it is never refused ("Error: our recovery doesn't finish
\* yet while new task coming"), and never overwrites pieces the manager still
\* has to deal or buffers it still has to get back.
TaskNeverRefused ==
  toServer = "RecoveryBlockGroup"
    => group = 0 /\ pending = 0 /\ mgrPc = "wait" /\ ~pipe /\ \A b \in Bufs : ~inUse[b]

\* RecoveredBlockGroup is only ever said of a group whose target file is whole:
\* its pieces are there, each decoded from that piece of every source, in order,
\* and the writer, three threads downstream, really is done.  It holds until a
\* close token is late.
ReportedIsComplete ==
  ~late =>
    \A g \in Groups : /\ \A i \in 1 .. Len(files[g]) : files[g][i] = <<g, i>>
                      /\ g <= recovered \/ (toMeta = "RecoveredBlockGroup" /\ g = curBlock)
                           => Len(files[g]) = Tasks

\* No two of network reader, coder and writer work on one buffer at a time,
\* until a close token is late.
BufferExclusive ==
  ~late =>
    \A v, w \in {"net", "coder", "writer"} :
      v # w /\ ~curBlockDone /\ {pc[v], pc[w]} \cap {"wait", "exit"} = {} => bufIdx[v] # bufIdx[w]

\* A piece is read from, and written to, the block of the current task only.
InCurrentBlock ==
  /\ \A b \in Bufs : \A piece \in {buf'[b].net, buf'[b].disk} :
       piece \in {NoPiece, buf[b].net, buf[b].disk} \/ piece[1] = curBlock
  /\ \A g \in Groups : files'[g] # files[g] => g = curBlock

\* "Recovery done for current blocks, notify pertinent threads to close
\* relvevant blocks or fds": workers that run on for any time after their block
\* was reported, up to and into the end of the session, use no block left open
\* by a task before.  What can make one do so is a single event: the next task
\* clears curBlockDone when a close token has not been consumed.
JobsStayInCurrentBlock == [][~late => InCurrentBlock]_vars

\* Without the last condition; RecoveryLateToken.cfg shows the worker that takes
\* its close token for a job, and goes on with the block before.
JobsAlwaysStayInCurrentBlock == [][InCurrentBlock]_vars

\* Every group is recovered and the session ends, unless a close token is late.
RecoveryCompletes == <>((metaPc = "joined" /\ recovered = NumGroups) \/ late)

\* Seen from ECMeta the threads are one task at a time: no step of theirs shows
\* in the session but to take the asked task on, to report it, and to end.
Session == INSTANCE RecoverySession WITH task <- group
ImplementsSession == Session!Spec

\* "Wait all task finished": the wait comes to an end.
DrainEnds == mgrPc = "drain" ~> mgrPc = "finish"
=============================================================================
