------------------------ MODULE RecoveryPipeline_proofs ------------------------
(***************************************************************************)
(* What holds of the recovery threads for every ring, block length, number *)
(* of groups and timing.  The inductive invariant is the protocol that the *)
(* meta server, the meta thread and the manager thread follow without any  *)
(* lock: a task is a token that exactly one of them holds.  The second     *)
(* part is about the data: every thread keeps its own place in the ring,   *)
(* and the invariant counts the pieces each is through with.               *)
(***************************************************************************)
EXTENDS RecoveryPipeline, TLAPS

\* Where the token is: with ECMeta or on the wire to or from it ...
InFlight ==
  /\ toMeta # "none" => toServer = "none" /\ group = 0
  /\ toServer # "none" => group = 0 /\ ~over
  /\ toMeta = "RecoveredBlockGroup" \/ toServer = "RecoveryBlockGroup" => recovered < NumGroups
  /\ toServer = "EndRecoveryNodes" => recovered = NumGroups
  /\ over => group = 0 /\ toMeta = "none"

\* ... or in an open task, which is the manager's to take up, to deal, or
\* dealt and to be reported.
TaskOpen ==
  group # 0 =>
    /\ group = recovered + 1 /\ group = curBlock /\ ~over
    /\ \/ mgrPc = "wait" /\ waitingJobSem = 1 /\ ~pipe /\ ~curBlockDone
       \/ mgrPc \in {"fill", "drain", "finish"} /\ waitingJobSem = 0 /\ ~pipe /\ ~curBlockDone
       \/ mgrPc = "notify" /\ waitingJobSem = 0 /\ ~pipe /\ curBlockDone
       \/ mgrPc = "wait" /\ waitingJobSem = 0 /\ pipe /\ curBlockDone /\ pending = 0

NoTask ==
  group = 0 => mgrPc = "wait" /\ waitingJobSem = 0 /\ ~pipe /\ pending = 0

\* The manager deals everything before it drains, and drains every buffer: a
\* piece or a buffer in use belongs to the open task of curBlock.
Dealing ==
  /\ mgrPc \in {"drain", "finish", "notify"} => pending = 0
  /\ pending > 0 => curBlock # 0
  /\ mgrPc = "drain" => \A b \in Bufs : b < mgrIdx => ~inUse[b]
  /\ mgrPc \in {"wait", "finish", "notify"} => \A b \in Bufs : ~inUse[b]
  /\ \A b \in Bufs : buf[b].size = 1 => curBlock # 0

IInv == TypeOK /\ InFlight /\ TaskOpen /\ NoTask /\ Dealing

-----------------------------------------------------------------------------
(* Lemmas about the operators of the pipeline. *)

\* The next buffer is one of the ring, and differs from every buffer before
\* this one except at the wrap.
LEMMA NextBufInRing ==
  ASSUME NEW b \in Bufs
  PROVE  /\ NextBuf(b) \in Bufs
         /\ b # NumBufs - 1 => NextBuf(b) = b + 1
         /\ b = NumBufs - 1 => NextBuf(b) = 0
BY NumBufsAssumption DEF NextBuf, Bufs

\* What a reader fetches next is a piece of a group, when its block has one left.
LEMMA NextPieceIsPiece ==
  ASSUME NEW fd \in (Groups \X (0 .. Tasks)) \cup {Closed},
         curBlock \in 0 .. NumGroups, curBlock # 0, ~AtEnd(fd)
  PROVE  NextPiece(fd) \in Pieces /\ NextPiece(fd) \in Groups \X (0 .. Tasks)
<1>1. OpenedFd(fd) \in Groups \X (0 .. Tasks)
  BY NumGroupsAssumption, TasksAssumption DEF OpenedFd, Groups, Closed
<1>2. OpenedFd(fd)[1] \in Groups /\ OpenedFd(fd)[2] \in 0 .. Tasks
  BY <1>1
<1>3. OpenedFd(fd)[2] + 1 \in 1 .. Tasks
  BY <1>2, TasksAssumption DEF AtEnd
<1> QED
  BY <1>2, <1>3 DEF NextPiece, Pieces

\* Opening the source of the current task gives an open block, or none when
\* there has been no task.
LEMMA OpenedFdType ==
  ASSUME NEW fd \in (Groups \X (0 .. Tasks)) \cup {Closed}, curBlock \in 0 .. NumGroups
  PROVE  OpenedFd(fd) \in (Groups \X (0 .. Tasks)) \cup {Closed}
BY NumGroupsAssumption, TasksAssumption DEF OpenedFd, Groups, Closed

\* The decoded piece is one of those read.
LEMMA DecodedType ==
  ASSUME NEW S, NoPiece \in S, NEW b, b.net \in S
  PROVE  Decoded(b) \in S
BY DEF Decoded

-----------------------------------------------------------------------------
(* Type correctness. *)

LEMMA InitType == Init => TypeOK
<1> SUFFICES ASSUME Init PROVE TypeOK
  OBVIOUS
<1>1. 0 \in Bufs /\ 0 \in 0 .. NumGroups /\ 0 \in 0 .. Tasks
  BY NumBufsAssumption, TasksAssumption, NumGroupsAssumption DEF Bufs
<1>2. buf \in [Bufs -> [size : {0, 1}, net : Pieces \cup {NoPiece},
                        disk : Pieces \cup {NoPiece}, out : Pieces \cup {NoPiece}]]
  BY DEF Init, Blank
<1>3. files \in [Groups -> Seq(Pieces \cup {NoPiece})]
  BY DEF Init
<1>4. {netFd, diskFd} \subseteq (Groups \X (0 .. Tasks)) \cup {Closed}
  BY DEF Init
<1> QED
  BY <1>1, <1>2, <1>3, <1>4 DEF Init, TypeOK

\* The meta server and the meta thread.
LEMMA MetaType ==
  ASSUME TypeOK, InFlight, RecoverESet \/ MetaThread
  PROVE  TypeOK'
<1> USE NumGroupsAssumption, TasksAssumption
<1>1. CASE RecoverESet
  <2>1. recovered' \in 0 .. NumGroups
    BY <1>1 DEF RecoverESet, TypeOK, InFlight
  <2> QED
    BY <1>1, <2>1 DEF RecoverESet, TypeOK, metaVars, taskVars, mgrVars, semVars, workVars, dataVars
<1>2. CASE InitRecoveryTask
  <2>1. group' \in 0 .. NumGroups /\ curBlock' \in 0 .. NumGroups
    BY <1>2 DEF InitRecoveryTask, TypeOK, InFlight
  <2>2. pending' \in 0 .. Tasks /\ waitingJobSem' \in Nat
    BY <1>2 DEF InitRecoveryTask, TypeOK
  <2> QED
    BY <1>2, <2>1, <2>2 DEF InitRecoveryTask, TypeOK, semVars, workVars, dataVars
<1>3. CASE ReportBlockDone
  <2>1. toMeta' \in {"none", "RecoveryNodesOK", "RecoveredBlockGroup"} /\ group' \in 0 .. NumGroups
    BY <1>3 DEF ReportBlockDone, TypeOK
  <2>2. pipe' \in BOOLEAN
    BY <1>3 DEF ReportBlockDone
  <2> QED
    BY <1>3, <2>1, <2>2 DEF ReportBlockDone, TypeOK, mgrVars, semVars, workVars, dataVars
<1>4. CASE DeallocRecoveryThreadMgr
  BY <1>4 DEF DeallocRecoveryThreadMgr, TypeOK, mgrVars, workVars, dataVars
<1>5. CASE JoinWorkers
  BY <1>5 DEF JoinWorkers, TypeOK, taskVars, mgrVars, semVars, workVars, dataVars
<1> QED
  BY <1>1, <1>2, <1>3, <1>4, <1>5 DEF MetaThread

\* The manager.
LEMMA ReclaimType ==
  ASSUME TypeOK, NEW b \in Bufs, Reclaim(b)
  PROVE  finishedSem' \in [Bufs -> Nat]
BY DEF TypeOK, Reclaim

LEMMA MgrType ==
  ASSUME TypeOK, MgrThread
  PROVE  TypeOK'
<1>0. mgrIdx \in Bufs /\ NextBuf(mgrIdx) \in Bufs /\ 0 \in Bufs
  BY NextBufInRing, NumBufsAssumption DEF TypeOK, Bufs
<1>1. CASE MgrWake
  BY <1>0, <1>1 DEF MgrWake, TypeOK, metaVars, taskVars, semVars, workVars, dataVars
<1>2. CASE AssignTask
  <2>1. finishedSem' \in [Bufs -> Nat]
    BY <1>0, <1>2, ReclaimType DEF AssignTask
  <2>2. pending' \in 0 .. Tasks
    BY <1>2, TasksAssumption DEF AssignTask, TypeOK
  <2>3. buf' \in [Bufs -> [size : {0, 1}, net : Pieces \cup {NoPiece},
                          disk : Pieces \cup {NoPiece}, out : Pieces \cup {NoPiece}]]
    BY <1>2 DEF AssignTask, TypeOK, Blank
  <2>4. sem' \in [Workers -> Nat] /\ inUse' \in [Bufs -> BOOLEAN]
    BY <1>2 DEF AssignTask, TypeOK, Workers
  <2> QED
    BY <1>0, <1>2, <2>1, <2>2, <2>3, <2>4 DEF AssignTask, TypeOK, metaVars, taskVars, workVars
<1>3. CASE NoMoreTask
  <2>1. finishedSem' \in [Bufs -> Nat]
    BY <1>0, <1>3, ReclaimType DEF NoMoreTask
  <2>2. inUse' \in [Bufs -> BOOLEAN]
    BY <1>3 DEF NoMoreTask, TypeOK
  <2> QED
    BY <1>0, <1>3, <2>1, <2>2 DEF NoMoreTask, TypeOK, metaVars, taskVars, workVars, dataVars
<1>4. CASE DrainBuf
  <2>1. finishedSem' \in [Bufs -> Nat]
    BY <1>0, <1>4, ReclaimType DEF DrainBuf
  <2>2. inUse' \in [Bufs -> BOOLEAN]
    BY <1>4 DEF DrainBuf, TypeOK
  <2> QED
    BY <1>0, <1>4, <2>1, <2>2 DEF DrainBuf, TypeOK, metaVars, taskVars, workVars, dataVars
<1>5. CASE FinishBlock
  <2>1. buf' \in [Bufs -> [size : {0, 1}, net : Pieces \cup {NoPiece},
                          disk : Pieces \cup {NoPiece}, out : Pieces \cup {NoPiece}]]
    BY <1>5 DEF FinishBlock, TypeOK, Blank
  <2>2. sem' \in [Workers -> Nat]
    <3>1. sem' = [sem EXCEPT !["net"] = @ + 1, !["writer"] = @ + 1]
      BY <1>5 DEF FinishBlock
    <3>2. sem \in [Workers -> Nat]
      BY DEF TypeOK
    <3> QED
      BY <3>1, <3>2 DEF Workers
  <2> QED
    BY <1>5, <2>1, <2>2 DEF FinishBlock, TypeOK, metaVars, workVars
<1>6. CASE NotifyMeta
  BY <1>6 DEF NotifyMeta, TypeOK, taskVars, semVars, workVars, dataVars
<1> QED
  BY <1>1, <1>2, <1>3, <1>4, <1>5, <1>6 DEF MgrThread

\* The workers.
LEMMA AdvanceType ==
  ASSUME TypeOK, NEW w \in Workers, Advance(w)
  PROVE  /\ pc' \in [Workers -> {"wait", "woken", "waitDisk", "stuck", "exit"}]
         /\ bufIdx' \in [Workers -> Bufs]
BY NextBufInRing DEF TypeOK, Advance

LEMMA WakeType ==
  ASSUME TypeOK, NEW w \in Workers, Wake(w)
  PROVE  TypeOK'
<1>1. sem \in [Workers -> Nat] /\ "net" \in Workers /\ "disk" \in Workers
  BY DEF TypeOK, Workers
<1>2. sem' \in [Workers -> Nat]
  <2>1. CASE w = "net" /\ ~over
    <3>1. sem' = [sem EXCEPT !["net"] = @ - 1, !["disk"] = @ + 1] /\ sem["net"] > 0
      BY <2>1 DEF Wake
    <3> QED
      BY <1>1, <3>1
  <2>2. CASE ~(w = "net" /\ ~over)
    <3>1. sem' = [sem EXCEPT ![w] = @ - 1] /\ sem[w] > 0
      BY <2>2 DEF Wake
    <3> QED
      BY <1>1, <3>1
  <2> QED
    BY <2>1, <2>2
<1>3. pc' \in [Workers -> {"wait", "woken", "waitDisk", "stuck", "exit"}]
  BY DEF Wake, TypeOK
<1>4. /\ UNCHANGED <<toServer, toMeta, recovered, metaPc, pipe, group, curBlock, curBlockDone, over, late>>
      /\ UNCHANGED <<pending, mgrPc, mgrIdx, inUse, waitingJobSem, finishedSem, bufIdx>>
      /\ UNCHANGED <<buf, netFd, diskFd, outFd, files>>
  BY DEF Wake, metaVars, taskVars, mgrVars, dataVars
<1> QED
  BY <1>2, <1>3, <1>4 DEF TypeOK

BufTypes == [size : {0, 1}, net : Pieces \cup {NoPiece},
             disk : Pieces \cup {NoPiece}, out : Pieces \cup {NoPiece}]

LEMMA WorkerType ==
  ASSUME TypeOK, Dealing, NetThread \/ DiskThread \/ CoderThread \/ WriterThread
  PROVE  TypeOK'
<1> USE DEF BufTypes
<1>w. Workers = {"net", "disk", "coder", "writer"}
  BY DEF Workers
<1>b. /\ buf \in [Bufs -> BufTypes] /\ bufIdx \in [Workers -> Bufs] /\ sem \in [Workers -> Nat]
      /\ pc \in [Workers -> {"wait", "woken", "waitDisk", "stuck", "exit"}]
      /\ netFd \in (Groups \X (0 .. Tasks)) \cup {Closed} /\ curBlock \in 0 .. NumGroups
      /\ diskFd \in (Groups \X (0 .. Tasks)) \cup {Closed}
  BY DEF TypeOK
<1>1. ASSUME NEW w \in Workers, Wake(w) PROVE TypeOK'
  BY <1>1, WakeType
<1>2. CASE CloseRemoteBlocksFd
  BY <1>2 DEF CloseRemoteBlocksFd, TypeOK, metaVars, taskVars, mgrVars, semVars
<1>3. CASE CloseReadedBlocksFds
  BY <1>3 DEF CloseReadedBlocksFds, TypeOK, metaVars, taskVars, mgrVars, semVars
<1>4. CASE CloseWritedBlocksFds
  <2>1. pc' \in [Workers -> {"wait", "woken", "waitDisk", "stuck", "exit"}]
    BY <1>4, <1>b DEF CloseWritedBlocksFds
  <2>2. outFd' \in 0 .. NumGroups
    BY <1>4, NumGroupsAssumption DEF CloseWritedBlocksFds
  <2> QED
    BY <1>4, <2>1, <2>2 DEF CloseWritedBlocksFds, TypeOK, metaVars, taskVars, mgrVars, semVars
<1>5. CASE ReadRemoteBlocks
  <2>1. pc' \in [Workers -> {"wait", "woken", "waitDisk", "stuck", "exit"}]
    BY <1>5, <1>b DEF ReadRemoteBlocks
  <2> DEFINE b == bufIdx["net"]
             wanted == buf[b].size = 1 /\ buf[b].net = NoPiece /\ ~AtEnd(netFd)
  <2>2. b \in Bufs
    BY <1>b, <1>w
  <2>3. CASE wanted
    <3>1. NextPiece(netFd) \in Pieces /\ NextPiece(netFd) \in Groups \X (0 .. Tasks)
      BY <1>b, <2>2, <2>3, NextPieceIsPiece DEF Dealing
    <3>2. buf' = [buf EXCEPT ![b].net = NextPiece(netFd)] /\ netFd' = NextPiece(netFd)
      BY <1>5, <2>3 DEF ReadRemoteBlocks
    <3>3. buf' \in [Bufs -> BufTypes]
      BY <1>b, <3>1, <3>2
    <3> QED
      BY <1>5, <2>1, <3>1, <3>2, <3>3
      DEF ReadRemoteBlocks, TypeOK, metaVars, taskVars, mgrVars, semVars
  <2>4. CASE ~wanted
    <3>1. UNCHANGED <<buf, netFd>>
      BY <1>5, <2>4 DEF ReadRemoteBlocks
    <3> QED
      BY <1>5, <2>1, <3>1 DEF ReadRemoteBlocks, TypeOK, metaVars, taskVars, mgrVars, semVars
  <2> QED
    BY <2>3, <2>4
<1>6. CASE WaitDiskData
  <2>1. sem' \in [Workers -> Nat]
    BY <1>6, <1>b, <1>w DEF WaitDiskData
  <2>2. /\ pc' \in [Workers -> {"wait", "woken", "waitDisk", "stuck", "exit"}]
        /\ bufIdx' \in [Workers -> Bufs]
    BY <1>6, <1>w, AdvanceType DEF WaitDiskData
  <2> QED
    BY <1>6, <2>1, <2>2 DEF WaitDiskData, TypeOK, metaVars, taskVars, mgrVars, dataVars
<1>7. CASE PerformDiskReadJob
  <2> DEFINE b == bufIdx["disk"]
             wanted == buf[b].size = 1 /\ buf[b].disk = NoPiece
  <2>2. b \in Bufs
    BY <1>b, <1>w
  <2>3. CASE wanted /\ AtEnd(diskFd)
    <3>1. pc' = [pc EXCEPT !["disk"] = "stuck"] /\ UNCHANGED <<bufIdx, buf, diskFd>>
      BY <1>7, <2>3 DEF PerformDiskReadJob
    <3>2. pc' \in [Workers -> {"wait", "woken", "waitDisk", "stuck", "exit"}]
      BY <1>b, <3>1
    <3> QED
      BY <1>7, <3>1, <3>2 DEF PerformDiskReadJob, TypeOK, metaVars, taskVars, mgrVars, semVars
  <2>4. CASE ~(wanted /\ AtEnd(diskFd))
    <3>1. Advance("disk")
      BY <1>7, <2>4 DEF PerformDiskReadJob
    <3>2. /\ pc' \in [Workers -> {"wait", "woken", "waitDisk", "stuck", "exit"}]
          /\ bufIdx' \in [Workers -> Bufs]
      BY <1>w, <3>1, AdvanceType
    <3>3. /\ diskFd' \in (Groups \X (0 .. Tasks)) \cup {Closed}
          /\ buf' \in [Bufs -> BufTypes]
      <4>1. CASE wanted
        <5>1. NextPiece(diskFd) \in Pieces /\ NextPiece(diskFd) \in Groups \X (0 .. Tasks)
          BY <1>b, <2>2, <2>4, <4>1, NextPieceIsPiece DEF Dealing
        <5>2. buf' = [buf EXCEPT ![b].disk = NextPiece(diskFd)] /\ diskFd' = NextPiece(diskFd)
          BY <1>7, <2>4, <4>1 DEF PerformDiskReadJob
        <5> QED
          BY <1>b, <5>1, <5>2
      <4>2. CASE ~wanted
        <5>1. buf' = buf /\ diskFd' = OpenedFd(diskFd)
          BY <1>7, <4>2 DEF PerformDiskReadJob
        <5> QED
          BY <1>b, <5>1, OpenedFdType
      <4> QED
        BY <4>1, <4>2
    <3> QED
      BY <1>7, <3>2, <3>3 DEF PerformDiskReadJob, TypeOK, metaVars, taskVars, mgrVars, semVars
  <2> QED
    BY <2>3, <2>4
<1>8. CASE StartCoding
  <2> DEFINE b == bufIdx["coder"]
  <2>1. sem' \in [Workers -> Nat]
    BY <1>8, <1>b, <1>w DEF StartCoding
  <2>2. /\ pc' \in [Workers -> {"wait", "woken", "waitDisk", "stuck", "exit"}]
        /\ bufIdx' \in [Workers -> Bufs]
    BY <1>8, <1>w, AdvanceType DEF StartCoding
  <2>3. buf' \in [Bufs -> BufTypes]
    <3>1. b \in Bufs /\ buf[b].net \in Pieces \cup {NoPiece}
      BY <1>b, <1>w
    <3>2. Decoded(buf[b]) \in Pieces \cup {NoPiece}
      BY <3>1, DecodedType
    <3>3. buf' = buf \/ buf' = [buf EXCEPT ![b].out = Decoded(buf[b])]
      BY <1>8 DEF StartCoding
    <3> QED
      BY <1>b, <3>1, <3>2, <3>3
  <2> QED
    <3>1. /\ UNCHANGED <<toServer, toMeta, recovered, metaPc, pipe, group, curBlock, curBlockDone, over, late>>
          /\ UNCHANGED <<pending, mgrPc, mgrIdx, inUse, waitingJobSem, finishedSem>>
          /\ UNCHANGED <<netFd, diskFd, outFd, files>>
      BY <1>8 DEF StartCoding, metaVars, taskVars, mgrVars
    <3> QED
      BY <2>1, <2>2, <2>3, <3>1 DEF TypeOK
<1>9. CASE PerformWriteDiskJob
  <2> DEFINE b == bufIdx["writer"]
             target == IF outFd = 0 THEN curBlock ELSE outFd
             before == IF outFd = 0 THEN <<>> ELSE files[target]
             after == IF buf[b].size = 1 THEN Append(before, buf[b].out) ELSE before
  <2>1. /\ pc' \in [Workers -> {"wait", "woken", "waitDisk", "stuck", "exit"}]
        /\ bufIdx' \in [Workers -> Bufs]
    BY <1>9, <1>w, AdvanceType DEF PerformWriteDiskJob
  <2>2. finishedSem' \in [Bufs -> Nat]
    <3>1. finishedSem' = [finishedSem EXCEPT ![b] = @ + 1]
      BY <1>9 DEF PerformWriteDiskJob
    <3>2. finishedSem \in [Bufs -> Nat]
      BY DEF TypeOK
    <3>3. b \in Bufs
      BY <1>b, <1>w
    <3> QED
      BY <3>1, <3>2, <3>3
  <2>3. outFd' \in 0 .. NumGroups
    BY <1>9 DEF PerformWriteDiskJob, TypeOK
  <2>4. files' \in [Groups -> Seq(Pieces \cup {NoPiece})]
    <3>1. outFd \in 0 .. NumGroups /\ files \in [Groups -> Seq(Pieces \cup {NoPiece})]
      BY DEF TypeOK
    <3>2. before \in Seq(Pieces \cup {NoPiece})
      BY <3>1, NumGroupsAssumption DEF Groups
    <3>3. buf[b].out \in Pieces \cup {NoPiece}
      BY <1>b, <1>w
    <3>4. after \in Seq(Pieces \cup {NoPiece})
      BY <3>2, <3>3
    <3>5. files' = [files EXCEPT ![target] = after]
      BY <1>9 DEF PerformWriteDiskJob
    <3> HIDE DEF target, after
    <3> QED
      BY <3>1, <3>4, <3>5
  <2> QED
    BY <1>9, <2>1, <2>2, <2>3, <2>4 DEF PerformWriteDiskJob, TypeOK, metaVars, taskVars, mgrVars
<1> QED
  BY <1>w, <1>1, <1>2, <1>3, <1>4, <1>5, <1>6, <1>7, <1>8, <1>9
  DEF NetThread, DiskThread, CoderThread, WriterThread

LEMMA TypeStep ==
  ASSUME TypeOK, InFlight, Dealing, [Next]_vars
  PROVE  TypeOK'
<1>1. CASE RecoverESet \/ MetaThread
  BY <1>1, MetaType
<1>2. CASE MgrThread
  BY <1>2, MgrType
<1>3. CASE NetThread \/ DiskThread \/ CoderThread \/ WriterThread
  BY <1>3, WorkerType
<1>4. CASE SessionOver \/ UNCHANGED vars
  <2>1. UNCHANGED vars
    BY <1>4 DEF SessionOver
  <2>2. UNCHANGED <<toServer, toMeta, recovered, metaPc, pipe, group, curBlock, curBlockDone, over, late>>
    BY <2>1 DEF vars, metaVars, taskVars
  <2>3. UNCHANGED <<pending, mgrPc, mgrIdx, inUse, waitingJobSem, sem, finishedSem, pc, bufIdx>>
    BY <2>1 DEF vars, mgrVars, semVars, workVars
  <2>4. UNCHANGED <<buf, netFd, diskFd, outFd, files>>
    BY <2>1 DEF vars, dataVars
  <2> QED
    BY <2>2, <2>3, <2>4 DEF TypeOK
<1> QED
  BY <1>1, <1>2, <1>3, <1>4 DEF Next

-----------------------------------------------------------------------------
(* The token. *)

\* What the token's invariant is about: the workers leave all of it alone.
TokenVars == <<toServer, toMeta, recovered, pipe, group, curBlock, curBlockDone, over,
               pending, mgrPc, mgrIdx, inUse, waitingJobSem>>

LEMMA WorkersLeaveToken ==
  ASSUME NetThread \/ DiskThread \/ CoderThread \/ WriterThread
  PROVE  UNCHANGED TokenVars
<1> USE DEF TokenVars, metaVars, taskVars, mgrVars
<1>1. ASSUME NEW w, Wake(w) PROVE UNCHANGED TokenVars
  BY <1>1 DEF Wake
<1>2. CASE CloseRemoteBlocksFd \/ ReadRemoteBlocks \/ WaitDiskData
  BY <1>2 DEF CloseRemoteBlocksFd, ReadRemoteBlocks, WaitDiskData
<1>3. CASE CloseReadedBlocksFds \/ PerformDiskReadJob
  BY <1>3 DEF CloseReadedBlocksFds, PerformDiskReadJob
<1>4. CASE StartCoding
  BY <1>4 DEF StartCoding
<1>5. CASE CloseWritedBlocksFds \/ PerformWriteDiskJob
  BY <1>5 DEF CloseWritedBlocksFds, PerformWriteDiskJob
<1> QED
  BY <1>1, <1>2, <1>3, <1>4, <1>5 DEF NetThread, DiskThread, CoderThread, WriterThread

\* No worker changes how much a buffer is to hold.
LEMMA WorkersKeepSize ==
  ASSUME TypeOK, NetThread \/ DiskThread \/ CoderThread \/ WriterThread
  PROVE  \A b \in Bufs : buf'[b].size = buf[b].size
<1> USE DEF dataVars
<1>t. buf \in [Bufs -> BufTypes]
  BY DEF TypeOK, BufTypes
<1>1. ASSUME NEW w, Wake(w) PROVE buf' = buf
  BY <1>1 DEF Wake
<1>2. CASE CloseRemoteBlocksFd \/ WaitDiskData \/ CloseReadedBlocksFds
           \/ CloseWritedBlocksFds \/ PerformWriteDiskJob
  BY <1>2 DEF CloseRemoteBlocksFd, WaitDiskData, CloseReadedBlocksFds, CloseWritedBlocksFds,
              PerformWriteDiskJob
<1>3. CASE ReadRemoteBlocks
  <2>1. buf' = buf \/ buf' = [buf EXCEPT ![bufIdx["net"]].net = NextPiece(netFd)]
    BY <1>3 DEF ReadRemoteBlocks
  <2> QED
    BY <1>t, <2>1 DEF BufTypes
<1>4. CASE PerformDiskReadJob
  <2>1. buf' = buf \/ buf' = [buf EXCEPT ![bufIdx["disk"]].disk = NextPiece(diskFd)]
    BY <1>4 DEF PerformDiskReadJob
  <2> QED
    BY <1>t, <2>1 DEF BufTypes
<1>5. CASE StartCoding
  <2>1. buf' = buf \/ buf' = [buf EXCEPT ![bufIdx["coder"]].out = Decoded(buf[bufIdx["coder"]])]
    BY <1>5 DEF StartCoding
  <2> QED
    BY <1>t, <2>1 DEF BufTypes
<1> QED
  BY <1>1, <1>2, <1>3, <1>4, <1>5 DEF NetThread, DiskThread, CoderThread, WriterThread

LEMMA TokenStep ==
  ASSUME IInv, [Next]_vars
  PROVE  InFlight' /\ TaskOpen' /\ NoTask'
<1> USE DEF IInv, InFlight, TaskOpen, NoTask
<1>t. /\ recovered \in Nat /\ pending \in Nat /\ NumGroups \in Nat /\ waitingJobSem \in Nat
      /\ group \in 0 .. NumGroups
  BY NumGroupsAssumption, TasksAssumption DEF TypeOK
<1>1. CASE RecoverESet
  BY <1>1, <1>t DEF RecoverESet, taskVars, mgrVars, TypeOK
<1>2. CASE InitRecoveryTask
  BY <1>2, <1>t DEF InitRecoveryTask
<1>3. CASE ReportBlockDone
  <2>1. group # 0 /\ curBlockDone
    BY <1>3 DEF ReportBlockDone
  <2>2. /\ toMeta' = "RecoveredBlockGroup" /\ group' = 0 /\ pipe' = FALSE
        /\ UNCHANGED <<toServer, recovered, over, mgrPc, waitingJobSem, pending>>
    BY <1>3, <2>1 DEF ReportBlockDone, mgrVars
  <2> QED
    BY <1>3, <1>t, <2>1, <2>2 DEF ReportBlockDone
<1>4. CASE DeallocRecoveryThreadMgr
  BY <1>4, <1>t DEF DeallocRecoveryThreadMgr, mgrVars
<1>5. CASE JoinWorkers
  BY <1>5, <1>t DEF JoinWorkers, taskVars, mgrVars
<1>6. CASE MgrWake
  BY <1>6, <1>t DEF MgrWake, metaVars, taskVars
<1>7. CASE AssignTask
  BY <1>7, <1>t DEF AssignTask, metaVars, taskVars
<1>8. CASE NoMoreTask
  BY <1>8, <1>t DEF NoMoreTask, metaVars, taskVars
<1>9. CASE DrainBuf
  BY <1>9, <1>t DEF DrainBuf, metaVars, taskVars
<1>10. CASE FinishBlock
  BY <1>10, <1>t DEF FinishBlock, metaVars
<1>11. CASE NotifyMeta
  BY <1>11, <1>t DEF NotifyMeta, taskVars, Dealing
<1>12. CASE NetThread \/ DiskThread \/ CoderThread \/ WriterThread
  BY <1>12, WorkersLeaveToken DEF TokenVars
<1>13. CASE SessionOver \/ UNCHANGED vars
  BY <1>13 DEF SessionOver, vars, metaVars, taskVars, mgrVars
<1> QED
  BY <1>1, <1>2, <1>3, <1>4, <1>5, <1>6, <1>7, <1>8, <1>9, <1>10, <1>11, <1>12, <1>13
  DEF Next, MetaThread, MgrThread

\* No buffer is in use outside the manager's dealing and draining.
LEMMA DealingStep ==
  ASSUME IInv, [Next]_vars
  PROVE  Dealing'
<1> USE DEF IInv, Dealing
<1>t. /\ recovered \in Nat /\ pending \in Nat /\ NumBufs \in Nat \ {0} /\ mgrIdx \in Bufs
      /\ inUse \in [Bufs -> BOOLEAN] /\ NextBuf(mgrIdx) \in Bufs
  BY NumBufsAssumption, TasksAssumption, NumGroupsAssumption, NextBufInRing DEF TypeOK
<1>1. CASE RecoverESet
  BY <1>1 DEF RecoverESet, taskVars, mgrVars, dataVars
<1>2. CASE InitRecoveryTask
  <2>1. group = 0
    BY <1>2 DEF InitRecoveryTask, InFlight
  <2>2. curBlock' = recovered + 1 /\ UNCHANGED <<mgrPc, mgrIdx, inUse, buf>>
    BY <1>2, <2>1 DEF InitRecoveryTask, dataVars
  <2>3. mgrPc = "wait"
    BY <2>1 DEF NoTask
  <2> QED
    BY <1>t, <2>2, <2>3
<1>3. CASE ReportBlockDone
  BY <1>3 DEF ReportBlockDone, mgrVars, dataVars
<1>4. CASE DeallocRecoveryThreadMgr
  BY <1>4 DEF DeallocRecoveryThreadMgr, mgrVars, dataVars
<1>5. CASE JoinWorkers
  BY <1>5 DEF JoinWorkers, taskVars, mgrVars, dataVars
<1>6. CASE MgrWake
  BY <1>6 DEF MgrWake, metaVars, taskVars, dataVars
<1>7. CASE AssignTask
  <2>1. curBlock # 0 /\ curBlock' = curBlock
    BY <1>7, <1>t DEF AssignTask, taskVars
  <2> QED
    BY <1>7, <1>t, <2>1 DEF AssignTask
<1>8. CASE NoMoreTask
  BY <1>8, <1>t DEF NoMoreTask, metaVars, taskVars, dataVars, Bufs
<1>9. CASE DrainBuf
  <2>1. inUse' = [inUse EXCEPT ![mgrIdx] = FALSE] /\ mgrIdx' = NextBuf(mgrIdx)
    BY <1>9 DEF DrainBuf
  <2>2. \A b \in Bufs : b <= mgrIdx => ~inUse'[b]
    BY <1>9, <1>t, <2>1 DEF DrainBuf, Bufs
  <2>3. CASE mgrIdx = NumBufs - 1
    <3>1. \A b \in Bufs : ~inUse'[b]
      BY <1>t, <2>2, <2>3 DEF Bufs
    <3> QED
      BY <1>9, <2>3, <3>1 DEF DrainBuf, taskVars, dataVars
  <2>4. CASE mgrIdx # NumBufs - 1
    <3>1. mgrIdx' = mgrIdx + 1
      BY <1>t, <2>1, <2>4, NextBufInRing
    <3>2. \A b \in Bufs : b < mgrIdx' => ~inUse'[b]
      BY <1>t, <2>2, <3>1 DEF Bufs
    <3> QED
      BY <1>9, <2>4, <3>2 DEF DrainBuf, taskVars, dataVars
  <2> QED
    BY <2>3, <2>4
<1>10. CASE FinishBlock
  <2>1. \A b \in Bufs : buf'[b].size = 0
    BY <1>10 DEF FinishBlock, Blank
  <2> QED
    BY <1>10, <2>1 DEF FinishBlock, metaVars
<1>11. CASE NotifyMeta
  BY <1>11 DEF NotifyMeta, taskVars, dataVars
<1>12. CASE NetThread \/ DiskThread \/ CoderThread \/ WriterThread
  <2>1. UNCHANGED TokenVars
    BY <1>12, WorkersLeaveToken
  <2>2. \A b \in Bufs : buf'[b].size = buf[b].size
    BY <1>12, WorkersKeepSize
  <2> QED
    BY <2>1, <2>2 DEF TokenVars
<1>13. CASE SessionOver \/ UNCHANGED vars
  BY <1>13 DEF SessionOver, vars, metaVars, taskVars, mgrVars, dataVars
<1> QED
  BY <1>1, <1>2, <1>3, <1>4, <1>5, <1>6, <1>7, <1>8, <1>9, <1>10, <1>11, <1>12, <1>13
  DEF Next, MetaThread, MgrThread

THEOREM Invariant == Spec => []IInv
<1>1. Init => IInv
  <2>1. Init => TypeOK
    BY InitType
  <2>2. Init => Dealing
    BY DEF Init, Dealing, Blank
  <2> QED
    BY <2>1, <2>2, NumGroupsAssumption DEF Init, IInv, InFlight, TaskOpen, NoTask
<1>2. IInv /\ [Next]_vars => IInv'
  BY TypeStep, TokenStep, DealingStep DEF IInv
<1> QED
  BY <1>1, <1>2, PTL DEF Spec

\* Every variable of the recovery threads keeps its kind, for every ring, block
\* length, number of groups and timing.
THEOREM TypeCorrect == Spec => []TypeOK
<1>1. IInv => TypeOK
  BY DEF IInv
<1> QED
  BY <1>1, Invariant, PTL

\* A server never refuses a task and never loses one half dealt: when the meta
\* server's next command arrives, the manager thread is back at its semaphore
\* with every piece dealt and every buffer reclaimed.
THEOREM TasksNeverRefused == Spec => []TaskNeverRefused
<1>1. IInv => TaskNeverRefused
  BY DEF IInv, InFlight, NoTask, Dealing, TaskNeverRefused
<1> QED
  BY <1>1, Invariant, PTL

-----------------------------------------------------------------------------
(* The threads implement the session. *)

\* Each step is one step of the session or shows nothing there.
LEMMA SessionStep ==
  ASSUME IInv, [Next]_vars
  PROVE  [Session!Next]_(Session!sessionVars)
<1> USE DEF Session!sessionVars
<1>1. CASE RecoverESet
  BY <1>1 DEF RecoverESet, taskVars, IInv, InFlight, Session!Next, Session!Ask
<1>2. CASE InitRecoveryTask
  BY <1>2 DEF InitRecoveryTask, IInv, InFlight, Session!Next, Session!Accept
<1>3. CASE ReportBlockDone
  <2>1. group # 0 /\ curBlockDone
    BY <1>3 DEF ReportBlockDone, IInv, TaskOpen, NoTask
  <2>2. toMeta = "none"
    BY <2>1 DEF IInv, InFlight
  <2> QED
    BY <1>3, <2>1, <2>2 DEF ReportBlockDone, Session!Next, Session!Report
<1>4. CASE DeallocRecoveryThreadMgr
  BY <1>4 DEF DeallocRecoveryThreadMgr, IInv, InFlight, Session!Next, Session!End
<1>5. CASE JoinWorkers
  BY <1>5 DEF JoinWorkers, taskVars
<1>6. CASE MgrWake \/ NoMoreTask \/ AssignTask \/ DrainBuf
  BY <1>6 DEF MgrWake, NoMoreTask, AssignTask, DrainBuf, metaVars, taskVars
<1>7. CASE FinishBlock \/ NotifyMeta
  BY <1>7 DEF FinishBlock, NotifyMeta, metaVars, taskVars
<1>8. CASE NetThread \/ DiskThread \/ CoderThread \/ WriterThread
  BY <1>8, WorkersLeaveToken DEF TokenVars
<1>9. CASE SessionOver \/ UNCHANGED vars
  BY <1>9 DEF SessionOver, vars, metaVars, taskVars
<1> QED
  BY <1>1, <1>2, <1>3, <1>4, <1>5, <1>6, <1>7, <1>8, <1>9
  DEF Next, MetaThread, MgrThread

\* Whatever the five threads do, ECMeta sees the session of the abstract
\* specification: the groups in order, one task at a time, each one reported
\* once, and the end only when all of them are recovered.
THEOREM SessionImplemented == Spec => ImplementsSession
<1>1. Init => Session!Init
  BY DEF Init, Session!Init
<1>2. IInv /\ [Next]_vars => [Session!Next]_(Session!sessionVars)
  BY SessionStep
<1> QED
  BY <1>1, <1>2, Invariant, PTL DEF Spec, ImplementsSession, Session!Spec

-----------------------------------------------------------------------------
(***************************************************************************)
(* The data of the recovery threads: that a reported block is whole, that  *)
(* no two threads work on one buffer, and that no block left open is used  *)
(* by the next task.  The private positions of the threads are never       *)
(* compared by the code.  What keeps them apart is counted here: how many  *)
(* pieces of the current block each thread is through with.                *)
(*                                                                         *)
(* It holds until a task is set up before a close token of the last one    *)
(* was consumed (late), which takes the token for a job and the worker to  *)
(* another place than the rest, and it needs the circumstance that is the  *)
(* theorems' hypothesis: a block is a whole number of rings (the manager   *)
(* starts each block at buffer 0, the workers go on from where the last    *)
(* block left them).                                                       *)
(***************************************************************************)

\* The number of buffers of a block is a multiple of the ring's.
Aligned == \E k \in Nat : Tasks = k * NumBufs

Working == curBlock # 0 /\ ~curBlockDone

Busy(w) == IF pc[w] \in {"woken", "waitDisk"} THEN 1 ELSE 0

\* The pieces of the current block that were dealt, and those that the writer,
\* the coder, the network reader and the disk reader are through with.  A token
\* of a worker, or its being awake, is a piece the worker before it is ahead.
Dealt    == Tasks - pending
Written  == Len(files[curBlock])
Coded    == Written + sem["writer"] + Busy("writer")
Fetched  == Coded + sem["coder"] + Busy("coder")
DiskRead == Fetched + Busy("net") - sem["disk"] - Busy("disk")
NetRead  == IF pc["net"] = "waitDisk" THEN Fetched + 1 ELSE Fetched

\* The ring: how far a buffer lies behind the one dealt next, and the piece of
\* the current block it was last dealt (below 1: none).
Base    == IF mgrPc = "fill" THEN mgrIdx ELSE 0
Back(b) == IF b < Base THEN Base - b ELSE Base - b + NumBufs
PieceIn(b) == Dealt - Back(b) + 1

\* The place of a worker that is through with n pieces.
PlaceAfter(b, n) == Back(b) = IF n = Dealt THEN NumBufs ELSE Dealt - n

\* The manager goes round the ring.
Turns ==
  /\ mgrPc \in {"wait", "fill", "drain", "finish"}
  /\ mgrPc = "wait" => pending = Tasks
  /\ mgrPc = "fill" => \E k \in Nat : Dealt = k * NumBufs + mgrIdx

\* The pieces are passed on from worker to worker, at most a ring apart.
Counts ==
  /\ Fetched + sem["net"] + Busy("net") = Dealt
  /\ Dealt - Written <= NumBufs
  /\ sem["disk"] + Busy("disk") <= Busy("net")
  /\ pc["net"] \in {"wait", "woken", "waitDisk"}
  /\ \A w \in {"disk", "coder", "writer"} : pc[w] \in {"wait", "woken"}

Places ==
  /\ PlaceAfter(bufIdx["writer"], Written) /\ PlaceAfter(bufIdx["coder"], Coded)
  /\ PlaceAfter(bufIdx["net"], Fetched) /\ PlaceAfter(bufIdx["disk"], DiskRead)

\* How far the blocks read and written are open.
Files ==
  /\ netFd = IF NetRead = 0 THEN Closed ELSE <<curBlock, NetRead>>
  /\ diskFd = IF DiskRead = 0 THEN Closed ELSE <<curBlock, DiskRead>>
  /\ outFd = IF Written = 0 THEN 0 ELSE curBlock

\* What each buffer holds of its piece, and whether it may be dealt again.
Contents ==
  \A b \in Bufs :
    IF PieceIn(b) < 1
    THEN ~inUse[b] /\ finishedSem[b] = 0
    ELSE /\ buf[b].size = 1
         /\ buf[b].net = IF PieceIn(b) <= NetRead THEN <<curBlock, PieceIn(b)>> ELSE NoPiece
         /\ buf[b].disk = IF PieceIn(b) <= DiskRead THEN <<curBlock, PieceIn(b)>> ELSE NoPiece
         /\ PieceIn(b) <= Coded => buf[b].out = <<curBlock, PieceIn(b)>>
         /\ finishedSem[b] = IF inUse[b] /\ PieceIn(b) <= Written THEN 1 ELSE 0
         /\ ~inUse[b] => PieceIn(b) <= Written
         /\ mgrPc \in {"wait", "fill"} => inUse[b]

AtWork == Working => Turns /\ Counts /\ Places /\ Files /\ Contents

\* Between two blocks every thread is back at buffer 0, and a block is open only
\* while the token that has it closed is on its way.  When the session ends on
\* top of that, a worker may still close its block before it leaves.
AtRest ==
  ~Working =>
    /\ \A w \in Workers : bufIdx[w] = 0
    /\ \A b \in Bufs : finishedSem[b] = 0
    /\ over => \A w \in Workers :
                 pc[w] # "wait" /\ pc[w] # "exit" => pc[w] = "woken" /\ w # "coder" /\ curBlock # 0
    /\ ~over =>
         /\ \A w \in Workers : pc[w] \in {"wait", "woken"}
         /\ sem["coder"] = 0 /\ pc["coder"] = "wait"
         /\ sem["net"] + Busy("net") <= 1 /\ sem["net"] + sem["disk"] + Busy("disk") <= 1
         /\ sem["writer"] + Busy("writer") <= 1
         /\ netFd # Closed => sem["net"] + Busy("net") = 1
         /\ diskFd # Closed => sem["net"] + sem["disk"] + Busy("disk") = 1
         /\ outFd # 0 => sem["writer"] + Busy("writer") = 1
         /\ curBlock = 0 => Quiet

\* The files: whole for the blocks before the current one, and for it when done.
Whole(g) == Len(files[g]) = Tasks
Targets ==
  /\ \A g \in Groups : \A i \in 1 .. Len(files[g]) : files[g][i] = <<g, i>>
  /\ \A g \in Groups : g > curBlock => files[g] = <<>>
  /\ \A g \in Groups : g < curBlock \/ (g = curBlock /\ curBlockDone) => Whole(g)

\* Which block is the current one.
Current ==
  /\ Working => group = curBlock
  /\ group = 0 => curBlock = IF toMeta = "RecoveredBlockGroup" THEN recovered + 1 ELSE recovered

DataInv == IInv /\ Current /\ Targets /\ AtWork /\ AtRest

-----------------------------------------------------------------------------
(* Lemmas about the ring. *)

\* Every buffer has a distance of its own behind the one dealt next.
LEMMA BackInRing ==
  ASSUME Base \in Bufs
  PROVE  /\ \A b \in Bufs : Back(b) \in 1 .. NumBufs
         /\ \A b, c \in Bufs : Back(b) = Back(c) => b = c
         /\ Back(Base) = NumBufs
BY NumBufsAssumption DEF Back, Bufs

\* The next buffer of the ring is one nearer to it.
LEMMA BackOfNext ==
  ASSUME Base \in Bufs, NEW b \in Bufs
  PROVE  Back(NextBuf(b)) = IF Back(b) = 1 THEN NumBufs ELSE Back(b) - 1
BY NumBufsAssumption DEF Back, NextBuf, Bufs

LEMMA PieceInt ==
  ASSUME Base \in Bufs, Dealt \in Nat
  PROVE  \A b \in Bufs : PieceIn(b) \in Int /\ PieceIn(b) <= Dealt
BY BackInRing, NumBufsAssumption DEF PieceIn

LEMMA BaseInRing ==
  ASSUME TypeOK
  PROVE  Base \in Bufs
BY NumBufsAssumption DEF TypeOK, Base, Bufs

\* A worker that is behind the manager stands at the piece it has to do next,
\* and moves on to the place after it.
LEMMA PlaceMoves ==
  ASSUME Base \in Bufs, NEW b \in Bufs, NEW n \in Nat, Dealt \in Nat,
         n < Dealt, PlaceAfter(b, n)
  PROVE  /\ PieceIn(b) = n + 1
         /\ PlaceAfter(NextBuf(b), n + 1)
         /\ \A c \in Bufs : c # b => PieceIn(c) # n + 1
<1>1. Back(b) = Dealt - n
  BY DEF PlaceAfter
<1>2. \A c \in Bufs : Back(c) \in 1 .. NumBufs /\ (Back(c) = Back(b) => c = b)
  BY BackInRing
<1>3. Back(NextBuf(b)) = IF Back(b) = 1 THEN NumBufs ELSE Back(b) - 1
  BY BackOfNext
<1>4. PlaceAfter(NextBuf(b), n + 1)
  BY <1>1, <1>3 DEF PlaceAfter
<1>5. \A c \in Bufs : PieceIn(c) = n + 1 => Back(c) = Back(b)
  BY <1>1, <1>2, NumBufsAssumption DEF PieceIn
<1> QED
  BY <1>1, <1>2, <1>4, <1>5 DEF PieceIn

\* A block is a whole number of rings: when all is dealt the manager is back
\* at the first buffer.
LEMMA WholeRings ==
  ASSUME NEW n \in Nat \ {0}, NEW m \in 0 .. n - 1, NEW j \in Nat, NEW k \in Nat,
         j * n = k * n + m
  PROVE  m = 0
<1>1. (j - k) * n = m
  OBVIOUS
<1>2. CASE j <= k
  <2>1. (k - j) * n >= 0
    BY <1>2
  <2> QED
    BY <1>1, <2>1
<1>3. CASE j > k
  <2>1. j - k - 1 \in Nat
    BY <1>3
  <2>2. (j - k - 1) * n >= 0
    BY <2>1
  <2> QED
    BY <1>1, <2>2
<1> QED
  BY <1>2, <1>3

-----------------------------------------------------------------------------
(* What the counts say of each other. *)

LEMMA WorkTypes ==
  ASSUME IInv, Working
  PROVE  /\ Workers = {"net", "disk", "coder", "writer"}
         /\ sem \in [Workers -> Nat]
         /\ pc \in [Workers -> {"wait", "woken", "waitDisk", "stuck", "exit"}]
         /\ bufIdx \in [Workers -> Bufs] /\ buf \in [Bufs -> BufTypes]
         /\ finishedSem \in [Bufs -> Nat] /\ inUse \in [Bufs -> BOOLEAN]
         /\ files \in [Groups -> Seq(Pieces \cup {NoPiece})]
         /\ curBlock \in Groups /\ curBlock \in Nat /\ curBlock # 0
         /\ NumBufs \in Nat \ {0} /\ Tasks \in Nat \ {0} /\ pending \in 0 .. Tasks
         /\ Base \in Bufs
<1>1. TypeOK /\ Base \in Bufs /\ curBlock # 0
  BY BaseInRing DEF IInv, Working
<1>2. /\ sem \in [Workers -> Nat] /\ bufIdx \in [Workers -> Bufs]
      /\ pc \in [Workers -> {"wait", "woken", "waitDisk", "stuck", "exit"}]
      /\ buf \in [Bufs -> BufTypes] /\ files \in [Groups -> Seq(Pieces \cup {NoPiece})]
  BY <1>1 DEF TypeOK, BufTypes
<1>3. finishedSem \in [Bufs -> Nat] /\ inUse \in [Bufs -> BOOLEAN] /\ pending \in 0 .. Tasks
  BY <1>1 DEF TypeOK
<1>4. curBlock \in Groups /\ curBlock \in Nat
  BY <1>1, NumGroupsAssumption DEF TypeOK, Groups
<1> QED
  BY <1>1, <1>2, <1>3, <1>4, NumBufsAssumption, TasksAssumption DEF Workers

LEMMA CountFacts ==
  ASSUME IInv, Working, Counts
  PROVE  /\ sem["net"] \in Nat /\ sem["disk"] \in Nat /\ sem["coder"] \in Nat /\ sem["writer"] \in Nat
         /\ Busy("net") \in {0, 1} /\ Busy("disk") \in {0, 1}
         /\ Busy("coder") \in {0, 1} /\ Busy("writer") \in {0, 1}
         /\ Dealt \in Nat /\ Dealt <= Tasks
         /\ Written \in Nat /\ Coded \in Nat /\ Fetched \in Nat /\ DiskRead \in Nat /\ NetRead \in Nat
         /\ Written <= Coded /\ Coded <= Fetched /\ Fetched + Busy("net") <= Dealt
         /\ Fetched <= DiskRead /\ DiskRead <= Fetched + Busy("net")
         /\ Fetched <= NetRead /\ NetRead <= Fetched + Busy("net")
<1>1. sem["net"] \in Nat /\ sem["disk"] \in Nat /\ sem["coder"] \in Nat /\ sem["writer"] \in Nat
  BY WorkTypes
<1>2. /\ Busy("net") \in {0, 1} /\ Busy("disk") \in {0, 1}
      /\ Busy("coder") \in {0, 1} /\ Busy("writer") \in {0, 1}
  BY DEF Busy
<1>3. Written \in Nat
  <2>1. files[curBlock] \in Seq(Pieces \cup {NoPiece})
    BY WorkTypes
  <2> QED
    BY <2>1 DEF Written
<1>4. Dealt \in Nat /\ Dealt <= Tasks
  BY WorkTypes DEF Dealt
<1>5. Coded \in Nat /\ Written <= Coded
  BY <1>1, <1>2, <1>3 DEF Coded
<1>6. Fetched \in Nat /\ Coded <= Fetched
  BY <1>1, <1>2, <1>5 DEF Fetched
<1>7. Fetched + Busy("net") <= Dealt
  BY <1>1, <1>2, <1>4, <1>6 DEF Counts
<1>8. DiskRead \in Nat /\ Fetched <= DiskRead /\ DiskRead <= Fetched + Busy("net")
  BY <1>1, <1>2, <1>6 DEF Counts, DiskRead
<1>9. NetRead \in Nat /\ Fetched <= NetRead /\ NetRead <= Fetched + Busy("net")
  BY <1>2, <1>6 DEF NetRead, Busy
<1> QED
  BY <1>1, <1>2, <1>3, <1>4, <1>5, <1>6, <1>7, <1>8, <1>9

\* What a worker's step leaves alone of all this.
LEMMA WorkerFrame ==
  ASSUME NetThread \/ DiskThread \/ CoderThread \/ WriterThread
  PROVE  /\ UNCHANGED <<toMeta, recovered, group, curBlock, curBlockDone, over, pending, mgrPc, mgrIdx, inUse>>
         /\ Working' = Working /\ Dealt' = Dealt /\ Base' = Base
         /\ \A b : Back(b)' = Back(b) /\ PieceIn(b)' = PieceIn(b)
<1>1. UNCHANGED TokenVars
  BY WorkersLeaveToken
<1> QED
  BY <1>1 DEF TokenVars, Working, Dealt, Base, Back, PieceIn

-----------------------------------------------------------------------------
(* The workers, at work on a block. *)

WorkInv == IInv /\ Working /\ Turns /\ Counts /\ Places /\ Files /\ Contents

\* A token taken is a piece begun: it changes no count.
LEMMA WakeAtWork ==
  ASSUME WorkInv, ~over, NEW w \in Workers, Wake(w)
  PROVE  Counts' /\ Places' /\ Files' /\ Contents'
<1>1. /\ IInv /\ Working /\ Counts /\ Places /\ Files /\ Contents
      /\ Workers = {"net", "disk", "coder", "writer"}
      /\ sem \in [Workers -> Nat] /\ pc \in [Workers -> {"wait", "woken", "waitDisk", "stuck", "exit"}]
  BY WorkTypes DEF WorkInv
<1>2. /\ pc[w] = "wait" /\ sem[w] > 0 /\ pc' = [pc EXCEPT ![w] = "woken"]
      /\ sem' = IF w = "net" THEN [sem EXCEPT !["net"] = @ - 1, !["disk"] = @ + 1]
                             ELSE [sem EXCEPT ![w] = @ - 1]
      /\ UNCHANGED <<finishedSem, bufIdx, buf, netFd, diskFd, outFd, files>>
  BY DEF Wake, dataVars
<1>f. NetThread \/ DiskThread \/ CoderThread \/ WriterThread
  BY <1>1 DEF NetThread, DiskThread, CoderThread, WriterThread
<1>3. /\ Dealt' = Dealt /\ Written' = Written /\ curBlock' = curBlock /\ inUse' = inUse /\ mgrPc' = mgrPc
      /\ \A b : Back(b)' = Back(b) /\ PieceIn(b)' = PieceIn(b)
  BY <1>2, <1>f, WorkerFrame DEF Written
<1>4. /\ \A v \in Workers : v # w => pc'[v] = pc[v] /\ Busy(v)' = Busy(v)
      /\ pc'[w] = "woken" /\ Busy(w) = 0 /\ Busy(w)' = 1
  BY <1>1, <1>2 DEF Busy
<1>5. /\ sem'["net"] = IF w = "net" THEN sem["net"] - 1 ELSE sem["net"]
      /\ sem'["disk"] = IF w = "net" THEN sem["disk"] + 1 ELSE IF w = "disk" THEN sem["disk"] - 1 ELSE sem["disk"]
      /\ sem'["coder"] = IF w = "coder" THEN sem["coder"] - 1 ELSE sem["coder"]
      /\ sem'["writer"] = IF w = "writer" THEN sem["writer"] - 1 ELSE sem["writer"]
  BY <1>1, <1>2
<1>6. /\ Coded' = Coded /\ Fetched' = Fetched /\ DiskRead' = DiskRead /\ NetRead' = NetRead
      /\ sem'["net"] + Busy("net")' = sem["net"] + Busy("net")
      /\ sem'["disk"] + Busy("disk")' <= Busy("net")'
  <2>t. /\ sem["net"] \in Nat /\ sem["disk"] \in Nat /\ sem["coder"] \in Nat /\ sem["writer"] \in Nat
        /\ Busy("net") \in {0, 1} /\ Busy("disk") \in {0, 1} /\ Busy("coder") \in {0, 1}
        /\ Busy("writer") \in {0, 1} /\ Written \in Nat /\ Coded \in Nat /\ Fetched \in Nat
        /\ sem["disk"] + Busy("disk") <= Busy("net")
    BY <1>1, CountFacts DEF Counts
  <2>1. Coded' = Coded
    BY <1>1, <1>3, <1>4, <1>5, <2>t DEF Coded
  <2>2. Fetched' = Fetched
    BY <1>1, <1>4, <1>5, <2>t, <2>1 DEF Fetched
  <2>3. DiskRead' = DiskRead /\ sem'["disk"] + Busy("disk")' <= Busy("net")'
    BY <1>1, <1>4, <1>5, <2>t, <2>2 DEF DiskRead
  <2>4. NetRead' = NetRead
    BY <1>1, <1>2, <1>4, <2>2 DEF NetRead
  <2>5. sem'["net"] + Busy("net")' = sem["net"] + Busy("net")
    BY <1>1, <1>4, <1>5, <2>t
  <2> QED
    BY <2>1, <2>2, <2>3, <2>4, <2>5
<1>7. Counts'
  <2>1. /\ pc'["net"] \in {"wait", "woken", "waitDisk"}
        /\ \A v \in {"disk", "coder", "writer"} : pc'[v] \in {"wait", "woken"}
    BY <1>1, <1>4 DEF Counts
  <2>2. Fetched' + sem'["net"] + Busy("net")' = Dealt'
    <3>1. Fetched + sem["net"] + Busy("net") = Dealt /\ Fetched \in Nat /\ sem["net"] \in Nat
      BY <1>1, CountFacts DEF Counts
    <3>2. sem'["net"] \in Int /\ Busy("net")' \in Int
      BY <1>1, <1>4, <1>5, <3>1 DEF Busy
    <3> QED
      BY <1>1, <1>3, <1>6, <3>1, <3>2, CountFacts
  <2> QED
    BY <1>1, <1>3, <1>6, <2>1, <2>2 DEF Counts
<1>8. Places'
  BY <1>1, <1>2, <1>3, <1>6 DEF Places, PlaceAfter
<1>9. Files'
  BY <1>1, <1>2, <1>3, <1>6 DEF Files
<1>10. Contents'
  BY <1>1, <1>2, <1>3, <1>6 DEF Contents
<1> QED
  BY <1>7, <1>8, <1>9, <1>10

\* The readers never come to the end of a block before its last piece.
LEMMA NextOfOpen ==
  ASSUME NEW fd, NEW n \in Nat, n < Tasks, curBlock \in Nat, curBlock # 0,
         fd = IF n = 0 THEN Closed ELSE <<curBlock, n>>
  PROVE  ~AtEnd(fd) /\ NextPiece(fd) = <<curBlock, n + 1>>
<1>1. OpenedFd(fd) = <<curBlock, n>>
  BY DEF OpenedFd, Closed
<1> QED
  BY <1>1, TasksAssumption DEF AtEnd, NextPiece

LEMMA ReadRemoteAtWork ==
  ASSUME WorkInv, ReadRemoteBlocks
  PROVE  Counts' /\ Places' /\ Files' /\ Contents'
<1> DEFINE b == bufIdx["net"]
<1>1. /\ IInv /\ Working /\ Counts /\ Places /\ Files /\ Contents
      /\ Workers = {"net", "disk", "coder", "writer"}
      /\ pc \in [Workers -> {"wait", "woken", "waitDisk", "stuck", "exit"}]
      /\ bufIdx \in [Workers -> Bufs] /\ buf \in [Bufs -> BufTypes] /\ Base \in Bufs
      /\ curBlock \in Nat /\ curBlock # 0
  BY WorkTypes DEF WorkInv
<1>f. /\ Dealt' = Dealt /\ curBlock' = curBlock /\ inUse' = inUse /\ mgrPc' = mgrPc
      /\ \A c : Back(c)' = Back(c) /\ PieceIn(c)' = PieceIn(c)
  <2>1. NetThread
    BY DEF NetThread
  <2> QED
    BY <2>1, WorkerFrame
<1>2. pc["net"] = "woken" /\ Busy("net") = 1 /\ b \in Bufs
  BY <1>1 DEF ReadRemoteBlocks, Busy
<1>3. /\ Fetched \in Nat /\ Fetched < Dealt /\ Dealt \in Nat /\ Dealt <= Tasks
      /\ NetRead = Fetched /\ DiskRead \in Nat /\ Tasks \in Nat
  BY <1>1, <1>2, CountFacts, TasksAssumption DEF NetRead
<1>4. PieceIn(b) = Fetched + 1 /\ \A c \in Bufs : c # b => PieceIn(c) # Fetched + 1
  BY <1>1, <1>2, <1>3, PlaceMoves DEF Places
<1>5. buf[b].size = 1 /\ buf[b].net = NoPiece
  <2>1. ~(PieceIn(b) < 1) /\ ~(PieceIn(b) <= NetRead)
    BY <1>3, <1>4
  <2> QED
    BY <1>1, <1>2, <2>1 DEF Contents
<1>6. ~AtEnd(netFd) /\ NextPiece(netFd) = <<curBlock, Fetched + 1>>
  <2>1. netFd = IF Fetched = 0 THEN Closed ELSE <<curBlock, Fetched>>
    BY <1>1, <1>3 DEF Files
  <2> QED
    BY <1>1, <1>3, <2>1, NextOfOpen
<1>7. /\ pc' = [pc EXCEPT !["net"] = "waitDisk"]
      /\ buf' = [buf EXCEPT ![b].net = <<curBlock, Fetched + 1>>]
      /\ netFd' = <<curBlock, Fetched + 1>>
      /\ UNCHANGED <<sem, finishedSem, bufIdx, diskFd, outFd, files>>
  BY <1>5, <1>6 DEF ReadRemoteBlocks, semVars
<1>8. /\ pc'["net"] = "waitDisk" /\ \A v \in Workers : v # "net" => pc'[v] = pc[v]
      /\ \A v \in Workers : Busy(v)' = Busy(v)
  BY <1>1, <1>2, <1>7 DEF Busy
<1>9. /\ Written' = Written /\ Coded' = Coded /\ Fetched' = Fetched /\ DiskRead' = DiskRead
      /\ NetRead' = Fetched + 1
  <2>1. Written' = Written
    BY <1>7, <1>f DEF Written
  <2>2. Coded' = Coded
    BY <1>1, <1>7, <1>8, <2>1 DEF Coded
  <2>3. Fetched' = Fetched
    BY <1>1, <1>7, <1>8, <2>2 DEF Fetched
  <2>4. DiskRead' = DiskRead
    BY <1>1, <1>7, <1>8, <2>3 DEF DiskRead
  <2> QED
    BY <1>8, <2>1, <2>2, <2>3, <2>4 DEF NetRead
<1>10. Counts'
  BY <1>1, <1>7, <1>8, <1>9, <1>f DEF Counts
<1>11. Places'
  BY <1>1, <1>7, <1>9, <1>f DEF Places, PlaceAfter
<1>12. Files'
  <2>1. NetRead' # 0
    BY <1>3, <1>9
  <2> QED
    BY <1>1, <1>7, <1>9, <1>f, <2>1 DEF Files
<1>13. Contents'
  <2> SUFFICES ASSUME NEW c \in Bufs, PieceIn(c) >= 1
               PROVE  /\ buf'[c].size = 1
                      /\ buf'[c].net = IF PieceIn(c) <= Fetched + 1 THEN <<curBlock, PieceIn(c)>> ELSE NoPiece
                      /\ buf'[c].disk = buf[c].disk /\ buf'[c].out = buf[c].out
    <3>1. \A c \in Bufs : PieceIn(c) \in Int
      BY <1>1, <1>3, BackInRing, NumBufsAssumption DEF PieceIn
    <3> QED
      BY <1>1, <1>7, <1>9, <1>f, <3>1 DEF Contents
  <2>1. PieceIn(c) \in Int /\ ~(PieceIn(c) < 1)
    BY <1>1, <1>3, BackInRing, NumBufsAssumption DEF PieceIn
  <2>2. buf[c].size = 1 /\ buf[c].net = IF PieceIn(c) <= Fetched THEN <<curBlock, PieceIn(c)>> ELSE NoPiece
    BY <1>1, <1>3, <2>1 DEF Contents
  <2>3. CASE c = b
    <3> HIDE DEF b
    <3>1. /\ buf'[c].net = <<curBlock, Fetched + 1>> /\ buf'[c].size = buf[c].size
          /\ buf'[c].disk = buf[c].disk /\ buf'[c].out = buf[c].out
      BY <1>1, <1>2, <1>7, <2>3 DEF BufTypes
    <3> QED
      BY <1>3, <1>4, <2>2, <2>3, <3>1
  <2>4. CASE c # b
    <3> HIDE DEF b
    <3>1. buf'[c] = buf[c]
      BY <1>1, <1>2, <1>7, <2>4
    <3> QED
      BY <1>3, <1>4, <2>1, <2>2, <2>4, <3>1
  <2> QED
    BY <2>3, <2>4
<1> QED
  BY <1>10, <1>11, <1>12, <1>13

LEMMA WaitDiskAtWork ==
  ASSUME WorkInv, WaitDiskData
  PROVE  Counts' /\ Places' /\ Files' /\ Contents'
<1> DEFINE b == bufIdx["net"]
<1>1. /\ IInv /\ Working /\ Counts /\ Places /\ Files /\ Contents
      /\ Workers = {"net", "disk", "coder", "writer"} /\ sem \in [Workers -> Nat]
      /\ pc \in [Workers -> {"wait", "woken", "waitDisk", "stuck", "exit"}]
      /\ bufIdx \in [Workers -> Bufs] /\ Base \in Bufs
  BY WorkTypes DEF WorkInv
<1>f. /\ Dealt' = Dealt /\ curBlock' = curBlock /\ inUse' = inUse /\ mgrPc' = mgrPc
      /\ \A c : Back(c)' = Back(c) /\ PieceIn(c)' = PieceIn(c)
  <2>1. NetThread
    BY DEF NetThread
  <2> QED
    BY <2>1, WorkerFrame
<1>2. /\ pc["net"] = "waitDisk" /\ Busy("net") = 1 /\ b \in Bufs
      /\ buf[b].size = 1 => buf[b].disk # NoPiece
      /\ pc' = [pc EXCEPT !["net"] = "wait"] /\ bufIdx' = [bufIdx EXCEPT !["net"] = NextBuf(@)]
      /\ sem' = [sem EXCEPT !["coder"] = @ + 1]
      /\ UNCHANGED <<finishedSem, buf, netFd, diskFd, outFd, files>>
  BY <1>1 DEF WaitDiskData, Advance, Busy, dataVars
<1>3. /\ Fetched \in Nat /\ Fetched < Dealt /\ Dealt \in Nat /\ NetRead = Fetched + 1
      /\ DiskRead \in Nat /\ DiskRead <= Fetched + 1
      /\ sem["disk"] \in Nat /\ Busy("disk") \in {0, 1} /\ Coded \in Nat
      /\ sem["coder"] \in Nat /\ Busy("coder") \in {0, 1} /\ sem["net"] \in Nat
  BY <1>1, <1>2, CountFacts DEF NetRead
<1>4. PieceIn(b) = Fetched + 1 /\ PlaceAfter(NextBuf(b), Fetched + 1)
  BY <1>1, <1>2, <1>3, PlaceMoves DEF Places
<1>5. DiskRead = Fetched + 1 /\ sem["disk"] = 0 /\ Busy("disk") = 0
  <2>1. ~(PieceIn(b) < 1)
    BY <1>3, <1>4
  <2>2. Fetched + 1 <= DiskRead
    BY <1>1, <1>2, <1>4, <2>1 DEF Contents
  <2> QED
    BY <1>2, <1>3, <2>2 DEF DiskRead
<1>6. /\ \A v \in Workers : v # "net" => Busy(v)' = Busy(v) /\ pc'[v] = pc[v] /\ bufIdx'[v] = bufIdx[v]
      /\ Busy("net")' = 0 /\ pc'["net"] = "wait" /\ bufIdx'["net"] = NextBuf(b)
      /\ \A v \in Workers : v # "coder" => sem'[v] = sem[v]
      /\ sem'["coder"] = sem["coder"] + 1
  BY <1>1, <1>2 DEF Busy
<1>7. /\ Written' = Written /\ Coded' = Coded /\ Fetched' = Fetched + 1 /\ DiskRead' = DiskRead
      /\ NetRead' = NetRead
  <2>1. Written' = Written
    BY <1>2, <1>f DEF Written
  <2>2. Coded' = Coded
    BY <1>1, <1>6, <2>1 DEF Coded
  <2>3. Fetched' = Fetched + 1
    BY <1>1, <1>3, <1>6, <2>2 DEF Fetched
  <2>4. DiskRead' = DiskRead
    BY <1>1, <1>3, <1>5, <1>6, <2>3 DEF DiskRead
  <2> QED
    BY <1>3, <1>6, <2>1, <2>2, <2>3, <2>4 DEF NetRead
<1>8. Counts'
  <2>1. Fetched' + sem'["net"] + Busy("net")' = Dealt'
    BY <1>1, <1>2, <1>3, <1>6, <1>7, <1>f DEF Counts
  <2>2. sem'["disk"] + Busy("disk")' <= Busy("net")'
    BY <1>1, <1>5, <1>6
  <2> QED
    BY <1>1, <1>6, <1>7, <1>f, <2>1, <2>2 DEF Counts
<1>9. Places'
  BY <1>1, <1>4, <1>6, <1>7, <1>f DEF Places, PlaceAfter
<1>10. Files'
  BY <1>1, <1>2, <1>7, <1>f DEF Files
<1>11. Contents'
  BY <1>1, <1>2, <1>7, <1>f DEF Contents
<1> QED
  BY <1>8, <1>9, <1>10, <1>11

LEMMA DiskReadAtWork ==
  ASSUME WorkInv, PerformDiskReadJob
  PROVE  Counts' /\ Places' /\ Files' /\ Contents'
<1> DEFINE b == bufIdx["disk"]
<1>1. /\ IInv /\ Working /\ Counts /\ Places /\ Files /\ Contents
      /\ Workers = {"net", "disk", "coder", "writer"} /\ sem \in [Workers -> Nat]
      /\ pc \in [Workers -> {"wait", "woken", "waitDisk", "stuck", "exit"}]
      /\ bufIdx \in [Workers -> Bufs] /\ buf \in [Bufs -> BufTypes] /\ Base \in Bufs
      /\ curBlock \in Nat /\ curBlock # 0
  BY WorkTypes DEF WorkInv
<1>f. /\ Dealt' = Dealt /\ curBlock' = curBlock /\ inUse' = inUse /\ mgrPc' = mgrPc
      /\ \A c : Back(c)' = Back(c) /\ PieceIn(c)' = PieceIn(c)
  <2>1. DiskThread
    BY DEF DiskThread
  <2> QED
    BY <2>1, WorkerFrame
<1>2. pc["disk"] = "woken" /\ Busy("disk") = 1 /\ b \in Bufs
  BY <1>1 DEF PerformDiskReadJob, Busy
<1>3. /\ Fetched \in Nat /\ Dealt \in Nat /\ Dealt <= Tasks /\ Busy("net") = 1 /\ sem["disk"] = 0
      /\ DiskRead = Fetched /\ DiskRead < Dealt /\ Tasks \in Nat
  <2>1. /\ sem["disk"] \in Nat /\ Busy("net") \in {0, 1} /\ sem["disk"] + Busy("disk") <= Busy("net")
        /\ Fetched \in Nat /\ Fetched + Busy("net") <= Dealt /\ Dealt \in Nat /\ Dealt <= Tasks
    BY <1>1, CountFacts DEF Counts
  <2>2. Busy("net") = 1 /\ sem["disk"] = 0
    BY <1>2, <2>1
  <2> QED
    BY <1>2, <2>1, <2>2, TasksAssumption DEF DiskRead
<1>4. /\ PieceIn(b) = DiskRead + 1 /\ PlaceAfter(NextBuf(b), DiskRead + 1)
      /\ \A c \in Bufs : c # b => PieceIn(c) # DiskRead + 1
  BY <1>1, <1>2, <1>3, PlaceMoves DEF Places
<1>5. buf[b].size = 1 /\ buf[b].disk = NoPiece
  <2>1. ~(PieceIn(b) < 1) /\ ~(PieceIn(b) <= DiskRead)
    BY <1>3, <1>4
  <2> QED
    BY <1>1, <1>2, <2>1 DEF Contents
<1>6. ~AtEnd(diskFd) /\ NextPiece(diskFd) = <<curBlock, DiskRead + 1>>
  <2>1. diskFd = IF DiskRead = 0 THEN Closed ELSE <<curBlock, DiskRead>>
    BY <1>1 DEF Files
  <2> QED
    BY <1>1, <1>3, <2>1, NextOfOpen
<1>7. /\ pc' = [pc EXCEPT !["disk"] = "wait"] /\ bufIdx' = [bufIdx EXCEPT !["disk"] = NextBuf(@)]
      /\ buf' = [buf EXCEPT ![b].disk = <<curBlock, DiskRead + 1>>]
      /\ diskFd' = <<curBlock, DiskRead + 1>>
      /\ UNCHANGED <<sem, finishedSem, netFd, outFd, files>>
  BY <1>5, <1>6 DEF PerformDiskReadJob, Advance, semVars
<1>8. /\ \A v \in Workers : v # "disk" => Busy(v)' = Busy(v) /\ pc'[v] = pc[v] /\ bufIdx'[v] = bufIdx[v]
      /\ Busy("disk")' = 0 /\ pc'["disk"] = "wait" /\ bufIdx'["disk"] = NextBuf(b)
  BY <1>1, <1>2, <1>7 DEF Busy
<1>9. /\ Written' = Written /\ Coded' = Coded /\ Fetched' = Fetched /\ DiskRead' = DiskRead + 1
      /\ NetRead' = NetRead
  <2>1. Written' = Written
    BY <1>7, <1>f DEF Written
  <2>2. Coded' = Coded
    BY <1>1, <1>7, <1>8, <2>1 DEF Coded
  <2>3. Fetched' = Fetched
    BY <1>1, <1>7, <1>8, <2>2 DEF Fetched
  <2>4. DiskRead' = DiskRead + 1
    <3>1. Busy("net")' = 1 /\ sem'["disk"] = 0
      BY <1>1, <1>3, <1>7, <1>8
    <3> QED
      BY <1>3, <1>8, <2>3, <3>1 DEF DiskRead
  <2>5. NetRead' = NetRead
    BY <1>1, <1>8, <2>3 DEF NetRead
  <2> QED
    BY <2>1, <2>2, <2>3, <2>4, <2>5
<1>10. Counts'
  <2>1. sem'["disk"] + Busy("disk")' <= Busy("net")'
    BY <1>1, <1>3, <1>7, <1>8
  <2>2. Fetched' + sem'["net"] + Busy("net")' = Dealt'
    BY <1>1, <1>7, <1>8, <1>9, <1>f DEF Counts
  <2> QED
    BY <1>1, <1>7, <1>8, <1>9, <1>f, <2>1, <2>2 DEF Counts
<1>11. Places'
  BY <1>1, <1>4, <1>8, <1>9, <1>f DEF Places, PlaceAfter
<1>12. Files'
  <2>1. DiskRead' # 0
    BY <1>3, <1>9
  <2> QED
    BY <1>1, <1>7, <1>9, <1>f, <2>1 DEF Files
<1>13. Contents'
  <2> SUFFICES ASSUME NEW c \in Bufs, PieceIn(c) >= 1
               PROVE  /\ buf'[c].size = 1
                      /\ buf'[c].disk = IF PieceIn(c) <= DiskRead + 1 THEN <<curBlock, PieceIn(c)>> ELSE NoPiece
                      /\ buf'[c].net = buf[c].net /\ buf'[c].out = buf[c].out
    <3>1. \A c \in Bufs : PieceIn(c) \in Int
      BY <1>1, <1>3, BackInRing, NumBufsAssumption DEF PieceIn
    <3> QED
      BY <1>1, <1>7, <1>9, <1>f, <3>1 DEF Contents
  <2>1. PieceIn(c) \in Int /\ ~(PieceIn(c) < 1)
    BY <1>1, <1>3, BackInRing, NumBufsAssumption DEF PieceIn
  <2>2. buf[c].size = 1 /\ buf[c].disk = IF PieceIn(c) <= DiskRead THEN <<curBlock, PieceIn(c)>> ELSE NoPiece
    BY <1>1, <2>1 DEF Contents
  <2>3. CASE c = b
    <3> HIDE DEF b
    <3>1. /\ buf'[c].disk = <<curBlock, DiskRead + 1>> /\ buf'[c].size = buf[c].size
          /\ buf'[c].net = buf[c].net /\ buf'[c].out = buf[c].out
      BY <1>1, <1>2, <1>7, <2>3 DEF BufTypes
    <3> QED
      BY <1>3, <1>4, <2>2, <2>3, <3>1
  <2>4. CASE c # b
    <3> HIDE DEF b
    <3>1. buf'[c] = buf[c]
      BY <1>1, <1>2, <1>7, <2>4
    <3> QED
      BY <1>3, <1>4, <2>1, <2>2, <2>4, <3>1
  <2> QED
    BY <2>3, <2>4
<1> QED
  BY <1>10, <1>11, <1>12, <1>13

\* The coder decodes a piece both readers are through with.
LEMMA StartCodingAtWork ==
  ASSUME WorkInv, StartCoding
  PROVE  Counts' /\ Places' /\ Files' /\ Contents'
<1> DEFINE b == bufIdx["coder"]
<1>1. /\ IInv /\ Working /\ Counts /\ Places /\ Files /\ Contents
      /\ Workers = {"net", "disk", "coder", "writer"} /\ sem \in [Workers -> Nat]
      /\ pc \in [Workers -> {"wait", "woken", "waitDisk", "stuck", "exit"}]
      /\ bufIdx \in [Workers -> Bufs] /\ buf \in [Bufs -> BufTypes] /\ Base \in Bufs
  BY WorkTypes DEF WorkInv
<1>f. /\ Dealt' = Dealt /\ curBlock' = curBlock /\ inUse' = inUse /\ mgrPc' = mgrPc
      /\ \A c : Back(c)' = Back(c) /\ PieceIn(c)' = PieceIn(c)
  <2>1. CoderThread
    BY DEF CoderThread
  <2> QED
    BY <2>1, WorkerFrame
<1>2. pc["coder"] = "woken" /\ Busy("coder") = 1 /\ b \in Bufs
  BY <1>1 DEF StartCoding, Busy
<1>3. /\ Coded \in Nat /\ Written \in Nat /\ Coded < Fetched /\ Coded < Dealt /\ Dealt \in Nat
      /\ Coded + 1 <= NetRead /\ Coded + 1 <= DiskRead
      /\ sem["coder"] \in Nat /\ sem["writer"] \in Nat /\ Busy("writer") \in {0, 1}
      /\ Fetched \in Nat
  <2>1. /\ Coded \in Nat /\ Written \in Nat /\ sem["coder"] \in Nat /\ sem["writer"] \in Nat
        /\ Fetched \in Nat /\ Dealt \in Nat /\ Fetched + Busy("net") <= Dealt /\ Busy("net") \in {0, 1}
        /\ Fetched <= NetRead /\ Fetched <= DiskRead /\ NetRead \in Nat /\ DiskRead \in Nat
        /\ Busy("writer") \in {0, 1}
    BY <1>1, CountFacts
  <2>2. Coded + 1 <= Fetched
    BY <1>2, <2>1 DEF Fetched
  <2> QED
    BY <2>1, <2>2
<1>4. /\ PieceIn(b) = Coded + 1 /\ PlaceAfter(NextBuf(b), Coded + 1)
      /\ \A c \in Bufs : c # b => PieceIn(c) # Coded + 1
  BY <1>1, <1>2, <1>3, PlaceMoves DEF Places
<1>5. buf[b].size = 1 /\ Decoded(buf[b]) = <<curBlock, Coded + 1>>
  <2>1. ~(PieceIn(b) < 1) /\ PieceIn(b) <= NetRead /\ PieceIn(b) <= DiskRead
    BY <1>3, <1>4
  <2>2. buf[b].size = 1 /\ buf[b].net = <<curBlock, Coded + 1>> /\ buf[b].disk = <<curBlock, Coded + 1>>
    BY <1>1, <1>2, <1>4, <2>1 DEF Contents
  <2> QED
    BY <2>2 DEF Decoded
<1>6. /\ pc' = [pc EXCEPT !["coder"] = "wait"] /\ bufIdx' = [bufIdx EXCEPT !["coder"] = NextBuf(@)]
      /\ buf' = [buf EXCEPT ![b].out = <<curBlock, Coded + 1>>]
      /\ sem' = [sem EXCEPT !["writer"] = @ + 1]
      /\ UNCHANGED <<finishedSem, netFd, diskFd, outFd, files>>
  BY <1>5 DEF StartCoding, Advance
<1>7. /\ \A v \in Workers : v # "coder" => Busy(v)' = Busy(v) /\ pc'[v] = pc[v] /\ bufIdx'[v] = bufIdx[v]
      /\ Busy("coder")' = 0 /\ pc'["coder"] = "wait" /\ bufIdx'["coder"] = NextBuf(b)
      /\ \A v \in Workers : v # "writer" => sem'[v] = sem[v]
      /\ sem'["writer"] = sem["writer"] + 1
  BY <1>1, <1>2, <1>6 DEF Busy
<1>8. /\ Written' = Written /\ Coded' = Coded + 1 /\ Fetched' = Fetched /\ DiskRead' = DiskRead
      /\ NetRead' = NetRead
  <2>1. Written' = Written
    BY <1>6, <1>f DEF Written
  <2>2. Coded' = Coded + 1
    BY <1>1, <1>3, <1>7, <2>1 DEF Coded
  <2>3. Fetched' = Fetched
    BY <1>1, <1>2, <1>3, <1>7, <2>2 DEF Fetched
  <2>4. DiskRead' = DiskRead
    BY <1>1, <1>7, <2>3 DEF DiskRead
  <2>5. NetRead' = NetRead
    BY <1>1, <1>7, <2>3 DEF NetRead
  <2> QED
    BY <2>1, <2>2, <2>3, <2>4, <2>5
<1>9. Counts'
  BY <1>1, <1>7, <1>8, <1>f DEF Counts
<1>10. Places'
  BY <1>1, <1>4, <1>7, <1>8, <1>f DEF Places, PlaceAfter
<1>11. Files'
  BY <1>1, <1>6, <1>8, <1>f DEF Files
<1>12. Contents'
  <2>0. \A c \in Bufs : PieceIn(c) \in Int
    BY <1>1, <1>3, BackInRing, NumBufsAssumption DEF PieceIn
  <2>1. \A c \in Bufs : /\ buf'[c].size = buf[c].size /\ buf'[c].net = buf[c].net
                        /\ buf'[c].disk = buf[c].disk
                        /\ c # b => buf'[c].out = buf[c].out
                        /\ c = b => buf'[c].out = <<curBlock, Coded + 1>>
    <3> HIDE DEF b
    <3> QED
      BY <1>1, <1>2, <1>6 DEF BufTypes
  <2>2. ASSUME NEW c \in Bufs, PieceIn(c) >= 1, PieceIn(c) <= Coded + 1
        PROVE  buf'[c].out = <<curBlock, PieceIn(c)>>
    <3>1. CASE c = b
      BY <1>4, <2>1, <3>1
    <3>2. CASE c # b
      <4>1. ~(PieceIn(c) < 1) /\ PieceIn(c) <= Coded
        BY <1>3, <1>4, <2>0, <2>2, <3>2
      <4>2. buf[c].out = <<curBlock, PieceIn(c)>>
        BY <1>1, <4>1 DEF Contents
      <4> QED
        BY <2>1, <3>2, <4>2
    <3> QED
      BY <3>1, <3>2
  <2> QED
    BY <1>1, <1>6, <1>8, <1>f, <2>0, <2>1, <2>2 DEF Contents
<1> QED
  BY <1>9, <1>10, <1>11, <1>12

\* The writer appends the next piece of the block, decoded.
LEMMA WriteDiskAtWork ==
  ASSUME WorkInv, Targets, PerformWriteDiskJob
  PROVE  Counts' /\ Places' /\ Files' /\ Contents' /\ Targets'
<1> DEFINE b == bufIdx["writer"]
           out == <<curBlock, Written + 1>>
           S == Pieces \cup {NoPiece}
<1>1. /\ IInv /\ Working /\ Counts /\ Places /\ Files /\ Contents
      /\ Workers = {"net", "disk", "coder", "writer"} /\ sem \in [Workers -> Nat]
      /\ pc \in [Workers -> {"wait", "woken", "waitDisk", "stuck", "exit"}]
      /\ bufIdx \in [Workers -> Bufs] /\ buf \in [Bufs -> BufTypes] /\ Base \in Bufs
      /\ curBlock \in Groups /\ curBlock \in Nat /\ curBlock # 0
      /\ files \in [Groups -> Seq(S)] /\ finishedSem \in [Bufs -> Nat]
  BY WorkTypes DEF WorkInv
<1>f. /\ Dealt' = Dealt /\ curBlock' = curBlock /\ inUse' = inUse /\ mgrPc' = mgrPc
      /\ curBlockDone' = curBlockDone
      /\ \A c : Back(c)' = Back(c) /\ PieceIn(c)' = PieceIn(c)
  <2>1. WriterThread
    BY DEF WriterThread
  <2> QED
    BY <2>1, WorkerFrame
<1>2. pc["writer"] = "woken" /\ Busy("writer") = 1 /\ b \in Bufs
  BY <1>1 DEF PerformWriteDiskJob, Busy
<1>3. /\ Coded \in Nat /\ Written \in Nat /\ Written < Coded /\ Written < Dealt /\ Dealt \in Nat
      /\ sem["writer"] \in Nat /\ Dealt <= Tasks /\ Tasks \in Nat
  <2>1. /\ Coded \in Nat /\ Written \in Nat /\ Coded <= Fetched /\ sem["writer"] \in Nat
        /\ Fetched \in Nat /\ Dealt \in Nat /\ Fetched + Busy("net") <= Dealt /\ Busy("net") \in {0, 1}
        /\ Dealt <= Tasks
    BY <1>1, CountFacts
  <2>2. Written + 1 <= Coded
    BY <1>2, <2>1 DEF Coded
  <2> QED
    BY <2>1, <2>2, TasksAssumption
<1>4. /\ PieceIn(b) = Written + 1 /\ PlaceAfter(NextBuf(b), Written + 1)
      /\ \A c \in Bufs : c # b => PieceIn(c) # Written + 1
  BY <1>1, <1>2, <1>3, PlaceMoves DEF Places
<1>5. buf[b].size = 1 /\ buf[b].out = out /\ inUse[b] /\ finishedSem[b] = 0
  <2>1. ~(PieceIn(b) < 1) /\ PieceIn(b) <= Coded /\ ~(PieceIn(b) <= Written)
    BY <1>3, <1>4
  <2> QED
    BY <1>1, <1>2, <1>4, <2>1 DEF Contents
<1>6. /\ outFd' = curBlock /\ files' = [files EXCEPT ![curBlock] = Append(files[curBlock], out)]
  <2>1. CASE Written = 0
    <3>1. outFd = 0 /\ files[curBlock] = <<>>
      BY <1>1, <2>1 DEF Files, Written
    <3> QED
      BY <1>5, <3>1 DEF PerformWriteDiskJob
  <2>2. CASE Written # 0
    <3>1. outFd = curBlock /\ outFd # 0
      BY <1>1, <2>2 DEF Files
    <3> QED
      BY <1>5, <3>1 DEF PerformWriteDiskJob
  <2> QED
    BY <2>1, <2>2
<1>7. /\ pc' = [pc EXCEPT !["writer"] = "wait"] /\ bufIdx' = [bufIdx EXCEPT !["writer"] = NextBuf(@)]
      /\ finishedSem' = [finishedSem EXCEPT ![b] = @ + 1]
      /\ UNCHANGED <<sem, buf, netFd, diskFd>>
  BY DEF PerformWriteDiskJob, Advance
<1>8. /\ \A v \in Workers : v # "writer" => Busy(v)' = Busy(v) /\ pc'[v] = pc[v] /\ bufIdx'[v] = bufIdx[v]
      /\ Busy("writer")' = 0 /\ pc'["writer"] = "wait" /\ bufIdx'["writer"] = NextBuf(b)
  BY <1>1, <1>2, <1>7 DEF Busy
<1>9. /\ \A g \in Groups : g # curBlock => files'[g] = files[g]
      /\ Len(files'[curBlock]) = Written + 1 /\ files'[curBlock][Written + 1] = out
      /\ \A i \in 1 .. Written : files'[curBlock][i] = files[curBlock][i]
  <2>1. files[curBlock] \in Seq(S) /\ out \in S
    <3>1. Written + 1 \in 1 .. Tasks
      BY <1>3
    <3> QED
      BY <1>1, <3>1 DEF Pieces
  <2>2. files'[curBlock] = Append(files[curBlock], out)
    BY <1>1, <1>6
  <2>3. \A g \in Groups : g # curBlock => files'[g] = files[g]
    BY <1>1, <1>6
  <2> HIDE DEF out, S
  <2> QED
    BY <2>1, <2>2, <2>3 DEF Written
<1>10. /\ Written' = Written + 1 /\ Coded' = Coded /\ Fetched' = Fetched /\ DiskRead' = DiskRead
       /\ NetRead' = NetRead
  <2>1. Written' = Written + 1
    BY <1>9, <1>f DEF Written
  <2>2. Coded' = Coded
    BY <1>1, <1>2, <1>3, <1>7, <1>8, <2>1 DEF Coded
  <2>3. Fetched' = Fetched
    BY <1>1, <1>7, <1>8, <2>2 DEF Fetched
  <2>4. DiskRead' = DiskRead
    BY <1>1, <1>7, <1>8, <2>3 DEF DiskRead
  <2>5. NetRead' = NetRead
    BY <1>1, <1>8, <2>3 DEF NetRead
  <2> QED
    BY <2>1, <2>2, <2>3, <2>4, <2>5
<1>11. Counts'
  <2>1. Dealt - (Written + 1) <= NumBufs
    BY <1>1, <1>3, NumBufsAssumption DEF Counts
  <2> QED
    BY <1>1, <1>7, <1>8, <1>10, <1>f, <2>1 DEF Counts
<1>12. Places'
  BY <1>1, <1>4, <1>7, <1>8, <1>10, <1>f DEF Places, PlaceAfter
<1>13. Files'
  BY <1>1, <1>3, <1>6, <1>7, <1>10, <1>f DEF Files
<1>14. Contents'
  <2>0. \A c \in Bufs : PieceIn(c) \in Int
    BY <1>1, <1>3, PieceInt
  <2>1. /\ \A c \in Bufs : c # b => finishedSem'[c] = finishedSem[c]
        /\ finishedSem'[b] = 1
    <3> HIDE DEF b
    <3> QED
      BY <1>1, <1>2, <1>5, <1>7
  <2>2. ASSUME NEW c \in Bufs, PieceIn(c) < 1
        PROVE  ~inUse[c] /\ finishedSem'[c] = 0
    <3>1. c # b
      BY <1>3, <1>4, <2>2
    <3> QED
      BY <1>1, <2>1, <2>2, <3>1 DEF Contents
  <2>3. ASSUME NEW c \in Bufs, ~(PieceIn(c) < 1)
        PROVE  /\ finishedSem'[c] = IF inUse[c] /\ PieceIn(c) <= Written + 1 THEN 1 ELSE 0
               /\ ~inUse[c] => PieceIn(c) <= Written + 1
    <3>1. CASE c = b
      BY <1>3, <1>4, <1>5, <2>1, <3>1
    <3>2. CASE c # b
      <4>1. finishedSem[c] = IF inUse[c] /\ PieceIn(c) <= Written THEN 1 ELSE 0
        BY <1>1, <2>3 DEF Contents
      <4>2. ~inUse[c] => PieceIn(c) <= Written
        BY <1>1, <2>3 DEF Contents
      <4>3. PieceIn(c) <= Written + 1 <=> PieceIn(c) <= Written
        BY <1>3, <1>4, <2>0, <3>2
      <4> QED
        BY <2>1, <3>2, <4>1, <4>2, <4>3
    <3> QED
      BY <3>1, <3>2
  <2>4. \A c \in Bufs : ~(PieceIn(c) < 1) =>
           /\ buf[c].size = 1
           /\ buf[c].net = IF PieceIn(c) <= NetRead THEN <<curBlock, PieceIn(c)>> ELSE NoPiece
           /\ buf[c].disk = IF PieceIn(c) <= DiskRead THEN <<curBlock, PieceIn(c)>> ELSE NoPiece
           /\ PieceIn(c) <= Coded => buf[c].out = <<curBlock, PieceIn(c)>>
           /\ mgrPc \in {"wait", "fill"} => inUse[c]
    BY <1>1 DEF Contents
  <2> HIDE DEF b
  <2> QED
    BY <1>7, <1>10, <1>f, <2>2, <2>3, <2>4 DEF Contents
<1>15. Targets'
  <2>1. ASSUME NEW g \in Groups, NEW i \in 1 .. Len(files'[g]) PROVE files'[g][i] = <<g, i>>
    <3>1. CASE g = curBlock
      <4>1. i \in 1 .. Written \/ i = Written + 1
        BY <1>3, <1>9, <2>1, <3>1
      <4>2. \A j \in 1 .. Written : files[curBlock][j] = <<curBlock, j>>
        BY <1>1 DEF Targets, Written
      <4> QED
        BY <1>9, <3>1, <4>1, <4>2
    <3>2. CASE g # curBlock
      BY <1>9, <2>1, <3>2 DEF Targets
    <3> QED
      BY <3>1, <3>2
  <2>2. ~curBlockDone
    BY <1>1 DEF Working
  <2>3. \A g \in Groups : g > curBlock \/ g < curBlock => files'[g] = files[g]
    BY <1>1, <1>9
  <2> QED
    BY <1>f, <2>1, <2>2, <2>3 DEF Targets, Whole
<1> QED
  BY <1>11, <1>12, <1>13, <1>14, <1>15

-----------------------------------------------------------------------------
(* The manager, at work on a block. *)

\* What the manager leaves alone of a block: the workers and their files.
WorkerVars == <<group, curBlock, curBlockDone, over, pc, bufIdx, netFd, diskFd, outFd, files>>

LEMMA ManagerFrame ==
  ASSUME UNCHANGED WorkerVars, sem'["disk"] = sem["disk"], sem'["coder"] = sem["coder"],
         sem'["writer"] = sem["writer"]
  PROVE  /\ Written' = Written /\ Coded' = Coded /\ Fetched' = Fetched /\ DiskRead' = DiskRead
         /\ NetRead' = NetRead /\ Working' = Working
         /\ \A w : Busy(w)' = Busy(w)
BY DEF WorkerVars, Written, Coded, Fetched, DiskRead, NetRead, Working, Busy

LEMMA MgrWakeAtWork ==
  ASSUME WorkInv, MgrWake
  PROVE  Turns' /\ Counts' /\ Places' /\ Files' /\ Contents'
<1>1. /\ mgrPc = "wait" /\ mgrPc' = "fill" /\ mgrIdx' = 0 /\ pending = Tasks /\ pending' = pending
      /\ UNCHANGED <<inUse, sem, finishedSem, buf>> /\ UNCHANGED WorkerVars
  BY DEF MgrWake, WorkerVars, taskVars, semVars, workVars, dataVars, WorkInv, Turns
<1>2. /\ Written' = Written /\ Coded' = Coded /\ Fetched' = Fetched /\ DiskRead' = DiskRead
      /\ NetRead' = NetRead /\ \A w : Busy(w)' = Busy(w)
  BY <1>1, ManagerFrame
<1>3. Dealt = 0 /\ Dealt' = Dealt /\ Base = 0 /\ Base' = 0
  BY <1>1, TasksAssumption DEF Dealt, Base
<1>4. \A b : Back(b)' = Back(b) /\ PieceIn(b)' = PieceIn(b)
  BY <1>3 DEF Back, PieceIn
<1>5. Turns'
  <2>1. Dealt' = 0 * NumBufs + mgrIdx'
    BY <1>1, <1>3, NumBufsAssumption
  <2> QED
    BY <1>1, <2>1 DEF Turns
<1>6. Counts'
  BY <1>1, <1>2, <1>3 DEF WorkInv, Counts, WorkerVars
<1>7. Places'
  BY <1>1, <1>2, <1>3, <1>4 DEF WorkInv, Places, PlaceAfter, WorkerVars
<1>8. Files'
  BY <1>1, <1>2 DEF WorkInv, Files, WorkerVars
<1>9. Contents'
  BY <1>1, <1>2, <1>4 DEF WorkInv, Contents, WorkerVars
<1> QED
  BY <1>5, <1>6, <1>7, <1>8, <1>9

\* A buffer is dealt again only after the writer is through with its piece: the
\* manager never runs more than a ring ahead of the writer.
LEMMA AssignTaskAtWork ==
  ASSUME WorkInv, AssignTask
  PROVE  Turns' /\ Counts' /\ Places' /\ Files' /\ Contents'
<1> DEFINE m == mgrIdx
<1>1. /\ IInv /\ Working /\ Turns /\ Counts /\ Places /\ Files /\ Contents
      /\ Workers = {"net", "disk", "coder", "writer"} /\ sem \in [Workers -> Nat]
      /\ bufIdx \in [Workers -> Bufs] /\ buf \in [Bufs -> BufTypes] /\ Base \in Bufs
      /\ finishedSem \in [Bufs -> Nat] /\ inUse \in [Bufs -> BOOLEAN]
      /\ pending \in 0 .. Tasks /\ NumBufs \in Nat \ {0} /\ Tasks \in Nat
  BY WorkTypes DEF WorkInv
<1>2. /\ mgrPc = "fill" /\ mgrPc' = "fill" /\ pending > 0 /\ pending' = pending - 1
      /\ mgrIdx' = NextBuf(m) /\ Reclaim(m)
      /\ buf' = [buf EXCEPT ![m] = Blank(1, @.out)] /\ inUse' = [inUse EXCEPT ![m] = TRUE]
      /\ sem' = [sem EXCEPT !["net"] = @ + 1] /\ UNCHANGED WorkerVars
  BY DEF AssignTask, taskVars, workVars, WorkerVars
<1>3. Base = m /\ m \in Bufs /\ Base' = NextBuf(m) /\ Base' \in Bufs
  BY <1>1, <1>2, NextBufInRing DEF Base
<1>4. /\ sem'["disk"] = sem["disk"] /\ sem'["coder"] = sem["coder"] /\ sem'["writer"] = sem["writer"]
      /\ sem'["net"] = sem["net"] + 1
  BY <1>1, <1>2
<1>5. /\ Written' = Written /\ Coded' = Coded /\ Fetched' = Fetched /\ DiskRead' = DiskRead
      /\ NetRead' = NetRead /\ \A w : Busy(w)' = Busy(w)
  BY <1>2, <1>4, ManagerFrame
<1>6. Dealt \in Nat /\ Dealt' = Dealt + 1
  BY <1>1, <1>2 DEF Dealt
<1>7. /\ Written \in Nat /\ Coded \in Nat /\ Fetched \in Nat /\ DiskRead \in Nat /\ NetRead \in Nat
      /\ Written <= Coded /\ Coded <= Fetched /\ Fetched <= DiskRead /\ Written <= NetRead
      /\ Coded <= Dealt /\ Fetched <= Dealt /\ DiskRead <= Dealt /\ NetRead <= Dealt
      /\ sem["net"] \in Nat /\ Busy("net") \in {0, 1}
  BY <1>1, <1>6, CountFacts
<1>8. Back(m) = NumBufs /\ \A b \in Bufs : Back(b) \in 1 .. NumBufs /\ (b # m => Back(b) < NumBufs)
  <2>1. \A b \in Bufs : Back(b) \in 1 .. NumBufs /\ (Back(b) = Back(m) => b = m)
    BY <1>1, <1>3, BackInRing
  <2>2. Back(m) = NumBufs
    BY <1>1, <1>3, BackInRing
  <2> QED
    BY <1>1, <2>1, <2>2
<1>9. \A b \in Bufs : Back(b)' = IF b = m THEN 1 ELSE Back(b) + 1
  <2>1. \A b \in Bufs : Back(b)' = IF b < Base' THEN Base' - b ELSE Base' - b + NumBufs
    BY DEF Back
  <2>2. \A b \in Bufs : Back(b) = IF b < m THEN m - b ELSE m - b + NumBufs
    BY <1>3 DEF Back
  <2>3. m \in 0 .. NumBufs - 1 /\ Base' = IF m = NumBufs - 1 THEN 0 ELSE m + 1
    BY <1>3 DEF NextBuf, Bufs
  <2> HIDE DEF m
  <2> SUFFICES ASSUME NEW b \in Bufs PROVE Back(b)' = IF b = m THEN 1 ELSE Back(b) + 1
    OBVIOUS
  <2>4. /\ Back(b)' = IF b < Base' THEN Base' - b ELSE Base' - b + NumBufs
        /\ Back(b) = IF b < m THEN m - b ELSE m - b + NumBufs
    BY <2>1, <2>2
  <2>5. b \in 0 .. NumBufs - 1 /\ NumBufs \in Nat \ {0}
    BY <1>1 DEF Bufs
  <2>6. CASE m = NumBufs - 1
    BY <2>3, <2>4, <2>5, <2>6
  <2>7. CASE m # NumBufs - 1
    BY <2>3, <2>4, <2>5, <2>7
  <2> QED
    BY <2>6, <2>7
<1>10. Dealt - Written < NumBufs
  <2>1. PieceIn(m) = Dealt - NumBufs + 1
    BY <1>8 DEF PieceIn
  <2>2. CASE PieceIn(m) < 1
    BY <1>1, <1>6, <1>7, <2>1, <2>2
  <2>3. CASE ~(PieceIn(m) < 1)
    <3>1. inUse[m] /\ finishedSem[m] = IF inUse[m] /\ PieceIn(m) <= Written THEN 1 ELSE 0
      BY <1>1, <1>2, <1>3, <2>3 DEF Contents
    <3>2. PieceIn(m) <= Written
      BY <1>2, <3>1 DEF Reclaim
    <3> QED
      BY <1>1, <1>6, <1>7, <2>1, <3>2
  <2> QED
    BY <2>2, <2>3
<1>11. Turns'
  <2>1. PICK k \in Nat : Dealt = k * NumBufs + m
    BY <1>1, <1>2 DEF Turns
  <2>2. CASE m = NumBufs - 1
    <3>1. mgrIdx' = 0 /\ Dealt' = k * NumBufs + NumBufs
      BY <1>1, <1>2, <1>6, <2>1, <2>2 DEF NextBuf
    <3>2. k * NumBufs + NumBufs = (k + 1) * NumBufs + 0
      BY <1>1
    <3> QED
      BY <1>2, <2>1, <3>1, <3>2 DEF Turns
  <2>3. CASE m # NumBufs - 1
    <3>1. mgrIdx' = m + 1
      BY <1>2, <2>3 DEF NextBuf
    <3>2. k * NumBufs \in Nat
      BY <1>1
    <3>3. Dealt' = k * NumBufs + mgrIdx'
      BY <1>1, <1>3, <1>6, <2>1, <3>1, <3>2 DEF Bufs
    <3> QED
      BY <1>2, <3>3 DEF Turns
  <2> QED
    BY <2>2, <2>3
<1>12. Counts'
  <2>1. Fetched' + sem'["net"] + Busy("net")' = Dealt'
    BY <1>1, <1>4, <1>5, <1>6, <1>7 DEF Counts
  <2>2. Dealt' - Written' <= NumBufs
    BY <1>1, <1>5, <1>6, <1>7, <1>10
  <2>3. UNCHANGED pc
    BY <1>2 DEF WorkerVars
  <2> QED
    BY <1>1, <1>4, <1>5, <2>1, <2>2, <2>3 DEF Counts
<1>13. ASSUME NEW b \in Bufs, NEW n \in Nat, n <= Dealt, Written <= n, PlaceAfter(b, n)
       PROVE  Back(b)' = IF n = Dealt' THEN NumBufs ELSE Dealt' - n
  <2>1. n # Dealt'
    BY <1>6, <1>13
  <2>2. CASE n = Dealt
    <3>1. Back(b) = NumBufs
      BY <1>13, <2>2 DEF PlaceAfter
    <3>2. b = m
      BY <1>1, <1>8, <3>1
    <3> QED
      BY <1>6, <1>9, <2>1, <2>2, <3>2
  <2>3. CASE n # Dealt
    <3>1. Back(b) = Dealt - n
      BY <1>13, <2>3 DEF PlaceAfter
    <3>2. b # m
      BY <1>1, <1>6, <1>7, <1>8, <1>10, <1>13, <3>1
    <3> QED
      BY <1>6, <1>9, <2>1, <3>1, <3>2
  <2> QED
    BY <2>2, <2>3
<1>14. Places'
  <2>1. /\ bufIdx["writer"] \in Bufs /\ bufIdx["coder"] \in Bufs /\ bufIdx["net"] \in Bufs
        /\ bufIdx["disk"] \in Bufs /\ bufIdx' = bufIdx
        /\ Written <= Dealt /\ Written <= Fetched /\ Written <= DiskRead /\ Written <= Written
    BY <1>1, <1>2, <1>6, <1>7 DEF WorkerVars
  <2>2. /\ Back(bufIdx["writer"])' = IF Written = Dealt' THEN NumBufs ELSE Dealt' - Written
        /\ Back(bufIdx["coder"])' = IF Coded = Dealt' THEN NumBufs ELSE Dealt' - Coded
        /\ Back(bufIdx["net"])' = IF Fetched = Dealt' THEN NumBufs ELSE Dealt' - Fetched
        /\ Back(bufIdx["disk"])' = IF DiskRead = Dealt' THEN NumBufs ELSE Dealt' - DiskRead
    <3>1. \A b \in Bufs : Back(b)' = IF b < Base' THEN Base' - b ELSE Base' - b + NumBufs
      BY DEF Back
    <3>2. \A b \in Bufs : \A n \in Nat : n <= Dealt /\ Written <= n /\ PlaceAfter(b, n) =>
             (IF b < Base' THEN Base' - b ELSE Base' - b + NumBufs) = IF n = Dealt' THEN NumBufs ELSE Dealt' - n
      BY <1>13, <3>1
    <3>3. Back(bufIdx["writer"])' = IF bufIdx["writer"] < Base' THEN Base' - bufIdx["writer"] ELSE Base' - bufIdx["writer"] + NumBufs
      BY <2>1 DEF Back
    <3>4. Back(bufIdx["coder"])' = IF bufIdx["coder"] < Base' THEN Base' - bufIdx["coder"] ELSE Base' - bufIdx["coder"] + NumBufs
      BY <2>1 DEF Back
    <3>5. Back(bufIdx["net"])' = IF bufIdx["net"] < Base' THEN Base' - bufIdx["net"] ELSE Base' - bufIdx["net"] + NumBufs
      BY <2>1 DEF Back
    <3>6. Back(bufIdx["disk"])' = IF bufIdx["disk"] < Base' THEN Base' - bufIdx["disk"] ELSE Base' - bufIdx["disk"] + NumBufs
      BY <2>1 DEF Back
    <3>7. /\ PlaceAfter(bufIdx["writer"], Written) /\ PlaceAfter(bufIdx["coder"], Coded)
          /\ PlaceAfter(bufIdx["net"], Fetched) /\ PlaceAfter(bufIdx["disk"], DiskRead)
      BY <1>1 DEF Places
    <3> QED
      BY <1>7, <2>1, <3>2, <3>3, <3>4, <3>5, <3>6, <3>7
  <2> QED
    BY <1>5, <2>2 DEF Places, PlaceAfter
<1>15. Files'
  BY <1>1, <1>2, <1>5 DEF Files, WorkerVars
<1>16. Contents'
  <2>1. \A b \in Bufs : PieceIn(b)' = IF b = m THEN Dealt + 1 ELSE PieceIn(b)
    <3>1. \A b \in Bufs : PieceIn(b)' = Dealt' - (IF b = m THEN 1 ELSE Back(b) + 1) + 1
      BY <1>9 DEF PieceIn
    <3> QED
      BY <1>6, <1>8, <3>1 DEF PieceIn
  <2>2. \A b \in Bufs : b # m => buf'[b] = buf[b] /\ inUse'[b] = inUse[b] /\ finishedSem'[b] = finishedSem[b]
    <3> HIDE DEF m
    <3>1. \A b \in Bufs : b # m => buf'[b] = buf[b] /\ inUse'[b] = inUse[b]
      BY <1>1, <1>2
    <3>2. \A b \in Bufs : b # m => finishedSem'[b] = finishedSem[b]
      BY <1>1, <1>2 DEF Reclaim
    <3> QED
      BY <3>1, <3>2
  <2>3. /\ buf'[m].size = 1 /\ buf'[m].net = NoPiece /\ buf'[m].disk = NoPiece
        /\ inUse'[m]
    <3> HIDE DEF m
    <3> QED
      BY <1>1, <1>2, <1>3 DEF Blank
  <2>4. finishedSem'[m] = 0
    <3>1. finishedSem'[m] = IF inUse[m] THEN finishedSem[m] - 1 ELSE finishedSem[m]
      <4> HIDE DEF m
      <4> QED
        BY <1>1, <1>2, <1>3 DEF Reclaim
    <3>2. (inUse[m] => finishedSem[m] > 0)
      BY <1>2 DEF Reclaim
    <3>3. IF PieceIn(m) < 1 THEN finishedSem[m] = 0
                            ELSE finishedSem[m] = IF inUse[m] /\ PieceIn(m) <= Written THEN 1 ELSE 0
      BY <1>1, <1>3 DEF Contents
    <3> QED
      BY <3>1, <3>2, <3>3
  <2>5. ASSUME NEW b \in Bufs
        PROVE  IF PieceIn(b)' < 1
               THEN ~inUse'[b] /\ finishedSem'[b] = 0
               ELSE /\ buf'[b].size = 1
                    /\ buf'[b].net = IF PieceIn(b)' <= NetRead THEN <<curBlock, PieceIn(b)'>> ELSE NoPiece
                    /\ buf'[b].disk = IF PieceIn(b)' <= DiskRead THEN <<curBlock, PieceIn(b)'>> ELSE NoPiece
                    /\ PieceIn(b)' <= Coded => buf'[b].out = <<curBlock, PieceIn(b)'>>
                    /\ finishedSem'[b] = IF inUse'[b] /\ PieceIn(b)' <= Written THEN 1 ELSE 0
                    /\ ~inUse'[b] => PieceIn(b)' <= Written
                    /\ inUse'[b]
    <3>1. CASE b = m
      <4>1. /\ PieceIn(b)' = Dealt + 1 /\ ~(Dealt + 1 < 1) /\ ~(Dealt + 1 <= NetRead)
            /\ ~(Dealt + 1 <= DiskRead) /\ ~(Dealt + 1 <= Coded) /\ ~(Dealt + 1 <= Written)
        BY <1>6, <1>7, <2>1, <3>1
      <4> QED
        BY <2>3, <2>4, <3>1, <4>1
    <3>2. CASE b # m
      <4>1. PieceIn(b)' = PieceIn(b)
        BY <2>1, <3>2
      <4> QED
        BY <1>1, <1>2, <2>2, <3>2, <4>1 DEF Contents
    <3> QED
      BY <3>1, <3>2
  <2>6. curBlock' = curBlock
    BY <1>2 DEF WorkerVars
  <2> HIDE DEF m
  <2> QED
    BY <1>5, <2>5, <2>6 DEF Contents
<1> QED
  BY <1>11, <1>12, <1>14, <1>15, <1>16

\* With everything dealt the manager is back at the first buffer, and takes the
\* buffers back in the order of their pieces.
LEMMA DrainAtWork ==
  ASSUME WorkInv, Aligned, NoMoreTask \/ DrainBuf
  PROVE  Turns' /\ Counts' /\ Places' /\ Files' /\ Contents'
<1> DEFINE m == mgrIdx
<1>1. /\ IInv /\ Working /\ Turns /\ Counts /\ Places /\ Files /\ Contents
      /\ finishedSem \in [Bufs -> Nat] /\ inUse \in [Bufs -> BOOLEAN] /\ m \in Bufs
      /\ NumBufs \in Nat \ {0} /\ Tasks \in Nat
  BY WorkTypes DEF WorkInv, IInv, TypeOK
<1>2. /\ mgrPc' \in {"drain", "finish"} /\ Reclaim(m) /\ inUse' = [inUse EXCEPT ![m] = FALSE]
      /\ UNCHANGED <<pending, sem, buf>> /\ UNCHANGED WorkerVars
  BY DEF NoMoreTask, DrainBuf, taskVars, workVars, dataVars, WorkerVars
<1>3. Base = 0 /\ Base' = 0
  <2>1. CASE NoMoreTask
    <3>1. mgrPc = "fill" /\ pending = 0
      BY <2>1 DEF NoMoreTask
    <3>2. PICK k \in Nat : Dealt = k * NumBufs + m
      BY <1>1, <3>1 DEF Turns
    <3>3. PICK j \in Nat : Tasks = j * NumBufs
      BY DEF Aligned
    <3>4. j * NumBufs = k * NumBufs + m
      BY <1>1, <3>1, <3>2, <3>3 DEF Dealt
    <3>5. m \in 0 .. NumBufs - 1
      BY <1>1 DEF Bufs
    <3>6. m = 0
      BY <1>1, <3>4, <3>5, WholeRings
    <3> QED
      BY <1>2, <3>1, <3>6 DEF Base
  <2>2. CASE DrainBuf
    BY <1>2, <2>2 DEF DrainBuf, Base
  <2> QED
    BY <2>1, <2>2
<1>4. /\ Written' = Written /\ Coded' = Coded /\ Fetched' = Fetched /\ DiskRead' = DiskRead
      /\ NetRead' = NetRead /\ Dealt' = Dealt /\ \A w : Busy(w)' = Busy(w)
  BY <1>2, ManagerFrame DEF Dealt
<1>5. \A b : Back(b)' = Back(b) /\ PieceIn(b)' = PieceIn(b)
  BY <1>3, <1>4 DEF Back, PieceIn
<1>6. Turns'
  BY <1>2 DEF Turns
<1>7. Counts'
  BY <1>1, <1>2, <1>4 DEF Counts, WorkerVars
<1>8. Places'
  BY <1>1, <1>2, <1>4, <1>5 DEF Places, PlaceAfter, WorkerVars
<1>9. Files'
  BY <1>1, <1>2, <1>4 DEF Files, WorkerVars
<1>10. Contents'
  <2>1. /\ \A b \in Bufs : b # m => inUse'[b] = inUse[b] /\ finishedSem'[b] = finishedSem[b]
        /\ ~inUse'[m] /\ (inUse[m] => finishedSem[m] > 0)
        /\ finishedSem'[m] = IF inUse[m] THEN finishedSem[m] - 1 ELSE finishedSem[m]
    <3> HIDE DEF m
    <3> QED
      BY <1>1, <1>2 DEF Reclaim
  <2>2. IF PieceIn(m) < 1
        THEN ~inUse[m] /\ finishedSem[m] = 0
        ELSE /\ finishedSem[m] = IF inUse[m] /\ PieceIn(m) <= Written THEN 1 ELSE 0
             /\ ~inUse[m] => PieceIn(m) <= Written
    BY <1>1 DEF Contents
  <2>3. finishedSem'[m] = 0 /\ (~(PieceIn(m) < 1) => PieceIn(m) <= Written)
    BY <2>1, <2>2
  <2>4. ASSUME NEW b \in Bufs
        PROVE  IF PieceIn(b) < 1
               THEN ~inUse'[b] /\ finishedSem'[b] = 0
               ELSE /\ finishedSem'[b] = IF inUse'[b] /\ PieceIn(b) <= Written THEN 1 ELSE 0
                    /\ ~inUse'[b] => PieceIn(b) <= Written
    <3>1. CASE b = m
      BY <2>1, <2>3, <3>1
    <3>2. CASE b # m
      BY <1>1, <2>1, <3>2 DEF Contents
    <3> QED
      BY <3>1, <3>2
  <2>5. \A b \in Bufs : ~(PieceIn(b) < 1) =>
           /\ buf[b].size = 1
           /\ buf[b].net = IF PieceIn(b) <= NetRead THEN <<curBlock, PieceIn(b)>> ELSE NoPiece
           /\ buf[b].disk = IF PieceIn(b) <= DiskRead THEN <<curBlock, PieceIn(b)>> ELSE NoPiece
           /\ PieceIn(b) <= Coded => buf[b].out = <<curBlock, PieceIn(b)>>
    BY <1>1 DEF Contents
  <2>6. curBlock' = curBlock /\ buf' = buf /\ mgrPc' \notin {"wait", "fill"}
    BY <1>2 DEF WorkerVars
  <2> HIDE DEF m
  <2> QED
    BY <1>4, <1>5, <2>4, <2>5, <2>6 DEF Contents
<1> QED
  BY <1>6, <1>7, <1>8, <1>9, <1>10

\* All buffers taken back, all pieces written: every thread is at rest at the
\* first buffer, and the close tokens go out.
LEMMA FinishAtWork ==
  ASSUME WorkInv, Targets, FinishBlock
  PROVE  AtRest' /\ Targets'
<1>1. /\ IInv /\ Working /\ Counts /\ Places /\ Contents
      /\ Workers = {"net", "disk", "coder", "writer"} /\ sem \in [Workers -> Nat]
      /\ bufIdx \in [Workers -> Bufs] /\ Base \in Bufs /\ curBlock \in Groups
      /\ NumBufs \in Nat \ {0} /\ Tasks \in Nat \ {0} /\ group # 0
  BY WorkTypes DEF WorkInv, FinishBlock, IInv, NoTask
<1>2. /\ mgrPc = "finish" /\ curBlockDone' = TRUE
      /\ sem' = [sem EXCEPT !["net"] = @ + 1, !["writer"] = @ + 1]
      /\ UNCHANGED <<group, curBlock, over, finishedSem, pc, bufIdx, netFd, diskFd, outFd, files>>
  BY DEF FinishBlock, workVars
<1>3. Base = 0 /\ Dealt = Tasks /\ \A b \in Bufs : ~inUse[b]
  BY <1>1, <1>2, TasksAssumption DEF Base, Dealt, IInv, Dealing
<1>4. Written = Tasks
  <2>1. PICK b \in Bufs : Back(b) = 1
    <3>1. NumBufs - 1 \in Bufs /\ Back(NumBufs - 1) = 1
      BY <1>1, <1>3 DEF Back, Bufs
    <3> QED
      BY <3>1
  <2>2. PieceIn(b) = Tasks
    BY <1>1, <1>3, <2>1 DEF PieceIn
  <2>3. ~(PieceIn(b) < 1)
    BY <1>1, <2>2
  <2>4. Tasks <= Written
    BY <1>1, <1>3, <2>2, <2>3 DEF Contents
  <2> QED
    BY <1>1, <1>3, <2>4, CountFacts
<1>5. /\ Written = Dealt /\ Coded = Dealt /\ Fetched = Dealt /\ DiskRead = Dealt
      /\ \A w \in Workers : sem[w] = 0 /\ Busy(w) = 0
  <2>1. /\ sem["net"] \in Nat /\ sem["disk"] \in Nat /\ sem["coder"] \in Nat /\ sem["writer"] \in Nat
        /\ Busy("net") \in {0, 1} /\ Busy("disk") \in {0, 1}
        /\ Busy("coder") \in {0, 1} /\ Busy("writer") \in {0, 1}
        /\ Written \in Nat /\ Coded \in Nat /\ Fetched \in Nat /\ Dealt \in Nat
        /\ Written <= Coded /\ Coded <= Fetched /\ Fetched + Busy("net") <= Dealt
        /\ Fetched + sem["net"] + Busy("net") = Dealt /\ sem["disk"] + Busy("disk") <= Busy("net")
    BY <1>1, CountFacts DEF Counts
  <2>2. Coded = Dealt /\ Fetched = Dealt /\ Written = Dealt
    BY <1>3, <1>4, <2>1
  <2>3. sem["writer"] = 0 /\ Busy("writer") = 0
    BY <2>1, <2>2 DEF Coded
  <2>4. sem["coder"] = 0 /\ Busy("coder") = 0
    BY <2>1, <2>2 DEF Fetched
  <2>5. sem["net"] = 0 /\ Busy("net") = 0 /\ sem["disk"] = 0 /\ Busy("disk") = 0
    BY <2>1, <2>2
  <2>6. DiskRead = Dealt
    BY <2>1, <2>2, <2>5 DEF DiskRead
  <2> QED
    BY <1>1, <2>2, <2>3, <2>4, <2>5, <2>6
<1>6. \A w \in Workers : bufIdx[w] = 0
  <2>1. \A w \in Workers : Back(bufIdx[w]) = NumBufs
    BY <1>1, <1>5 DEF Places, PlaceAfter
  <2>2. Back(0) = NumBufs /\ \A b \in Bufs : Back(b) = Back(0) => b = 0
    BY <1>1, <1>3, BackInRing
  <2> QED
    BY <1>1, <2>1, <2>2
<1>7. \A b \in Bufs : finishedSem[b] = 0
  BY <1>1, <1>3 DEF Contents
<1>8. \A w \in Workers : pc[w] = "wait"
  BY <1>1, <1>5 DEF Counts, Busy
<1>9. ~over /\ curBlock # 0
  BY <1>1 DEF IInv, TaskOpen, Working
<1>10. sem'["net"] = 1 /\ sem'["disk"] = 0 /\ sem'["coder"] = 0 /\ sem'["writer"] = 1
  BY <1>1, <1>2, <1>5
<1>11. Busy("net")' = 0 /\ Busy("disk")' = 0 /\ Busy("writer")' = 0
  BY <1>1, <1>2, <1>8 DEF Busy
<1>12. AtRest'
  BY <1>1, <1>2, <1>6, <1>7, <1>8, <1>9, <1>10, <1>11 DEF AtRest
<1>13. Targets'
  BY <1>1, <1>2, <1>4 DEF Targets, Whole, Written
<1> QED
  BY <1>12, <1>13

-----------------------------------------------------------------------------
(* Between two blocks. *)

\* The meta server's reply sets a task up.  It is not too early if every close
\* token has been consumed.
LEMMA InitTaskAtRest ==
  ASSUME DataInv, ~late', InitRecoveryTask
  PROVE  Current' /\ Targets' /\ Working' /\ Turns' /\ Counts' /\ Places' /\ Files' /\ Contents'
<1>1. /\ TypeOK /\ toServer = "RecoveryBlockGroup" /\ Quiet /\ group = 0 /\ ~over /\ toMeta = "none"
      /\ mgrPc = "wait" /\ \A b \in Bufs : ~inUse[b]
  <2>1. toServer = "RecoveryBlockGroup" /\ group = 0
    BY DEF DataInv, IInv, InitRecoveryTask, InFlight
  <2>2. Quiet
    BY <2>1 DEF InitRecoveryTask
  <2> QED
    BY <2>1, <2>2 DEF DataInv, IInv, InFlight, NoTask, Dealing
<1>2. /\ group' = recovered + 1 /\ curBlock' = recovered + 1 /\ ~curBlockDone' /\ pending' = Tasks
      /\ UNCHANGED <<toMeta, recovered, over, mgrPc, mgrIdx, inUse, sem, finishedSem, pc, bufIdx,
                     buf, netFd, diskFd, outFd, files>>
  BY <1>1 DEF InitRecoveryTask, semVars, workVars, dataVars
<1>3. ~Working /\ curBlock = recovered /\ recovered \in Nat /\ recovered < NumGroups
  <2>1. curBlock = recovered
    BY <1>1 DEF DataInv, Current
  <2>2. ~Working
    BY <1>1 DEF DataInv, Current, Working
  <2> QED
    BY <1>1, <2>1, <2>2, NumGroupsAssumption DEF DataInv, IInv, InFlight, TypeOK
<1>4. /\ \A w \in Workers : bufIdx[w] = 0 /\ sem[w] = 0 /\ pc[w] = "wait"
      /\ \A b \in Bufs : finishedSem[b] = 0
      /\ netFd = Closed /\ diskFd = Closed /\ outFd = 0
  <2>1. /\ \A w \in Workers : bufIdx[w] = 0
        /\ \A b \in Bufs : finishedSem[b] = 0
        /\ netFd # Closed => sem["net"] + Busy("net") = 1
        /\ diskFd # Closed => sem["net"] + sem["disk"] + Busy("disk") = 1
        /\ outFd # 0 => sem["writer"] + Busy("writer") = 1
    BY <1>1, <1>3 DEF DataInv, AtRest
  <2>2. \A w \in Workers : sem[w] = 0 /\ pc[w] = "wait" /\ Busy(w) = 0
    BY <1>1 DEF Quiet, Busy
  <2>3. {"net", "disk", "writer"} \subseteq Workers
    BY DEF Workers
  <2> QED
    BY <2>1, <2>2, <2>3
<1>5. Working'
  BY <1>2, <1>3 DEF Working
<1>6. Current'
  BY <1>2, <1>3 DEF Current
<1>7. curBlock' = curBlock + 1 /\ curBlock' \in Groups /\ curBlock \in Nat
  BY <1>2, <1>3, NumGroupsAssumption DEF Groups
<1>8. files[curBlock'] = <<>>
  BY <1>7 DEF DataInv, Targets
<1>9. Targets'
  <2>1. \A g \in Groups : g \in Nat
    BY DEF Groups
  <2>2. curBlock \in Groups => curBlockDone
    BY <1>3, NumGroupsAssumption DEF Working, Groups
  <2>3. \A g \in Groups : g < curBlock' => g < curBlock \/ (g = curBlock /\ curBlockDone)
    BY <1>7, <2>1, <2>2
  <2>4. \A g \in Groups : g > curBlock' => g > curBlock
    BY <1>7, <2>1
  <2>5. \A g \in Groups : g < curBlock' => Whole(g)
    BY <2>3 DEF DataInv, Targets
  <2> QED
    BY <1>2, <2>4, <2>5 DEF DataInv, Targets, Whole
<1>10. /\ Written' = 0 /\ Coded' = 0 /\ Fetched' = 0 /\ DiskRead' = 0 /\ NetRead' = 0 /\ Dealt' = 0
       /\ \A w \in Workers : Busy(w)' = 0
  <2>1. \A w \in Workers : Busy(w)' = 0 /\ sem'[w] = 0 /\ pc'[w] = "wait"
    BY <1>2, <1>4 DEF Busy
  <2>2. Written' = 0
    BY <1>2, <1>8 DEF Written
  <2>3. {"net", "disk", "coder", "writer"} = Workers
    BY DEF Workers
  <2>4. Coded' = 0
    BY <2>1, <2>2, <2>3 DEF Coded
  <2>5. Fetched' = 0
    BY <2>1, <2>3, <2>4 DEF Fetched
  <2>6. DiskRead' = 0 /\ NetRead' = 0
    BY <2>1, <2>3, <2>5 DEF DiskRead, NetRead
  <2>7. Dealt' = 0
    BY <1>2, TasksAssumption DEF Dealt
  <2> QED
    BY <2>1, <2>2, <2>4, <2>5, <2>6, <2>7
<1>11. Base' = 0 /\ Back(0)' = NumBufs /\ \A b \in Bufs : PieceIn(b)' < 1
  <2>1. Base' = 0
    BY <1>1, <1>2 DEF Base
  <2>2. \A b \in Bufs : Back(b)' = 0 - b + NumBufs
    BY <2>1 DEF Back, Bufs
  <2>3. 0 \in Bufs /\ Back(0)' = NumBufs
    BY <2>1, <2>2, NumBufsAssumption DEF Bufs
  <2>4. \A b \in Bufs : PieceIn(b)' < 1
    BY <1>10, <2>2, NumBufsAssumption DEF PieceIn, Bufs
  <2> QED
    BY <2>1, <2>3, <2>4
<1>12. Turns'
  BY <1>1, <1>2 DEF Turns
<1>13. Counts'
  BY <1>2, <1>4, <1>10, NumBufsAssumption DEF Counts, Workers
<1>14. Places'
  BY <1>2, <1>4, <1>10, <1>11 DEF Places, PlaceAfter, Workers
<1>15. Files'
  BY <1>2, <1>4, <1>10 DEF Files
<1>16. Contents'
  BY <1>1, <1>2, <1>4, <1>11 DEF Contents
<1> QED
  BY <1>5, <1>6, <1>9, <1>12, <1>13, <1>14, <1>15, <1>16

\* The meta thread and the meta server otherwise: no worker is asked anything,
\* except that the end of the session wakes them all.
LEMMA MetaAtRest ==
  ASSUME DataInv,
         RecoverESet \/ ReportBlockDone \/ DeallocRecoveryThreadMgr \/ JoinWorkers
  PROVE  Current' /\ Targets' /\ AtWork' /\ AtRest'
<1>1. /\ UNCHANGED <<curBlock, curBlockDone, pending, mgrPc, mgrIdx, inUse, finishedSem, pc, bufIdx,
                     buf, netFd, diskFd, outFd, files>>
  BY DEF RecoverESet, ReportBlockDone, DeallocRecoveryThreadMgr, JoinWorkers,
         taskVars, mgrVars, semVars, workVars, dataVars
<1>2. Targets'
  BY <1>1 DEF DataInv, Targets, Whole
<1>3. Working' = Working
  BY <1>1 DEF Working
<1>4. Current'
  <2>1. CASE RecoverESet
    <3>1. /\ toMeta # "none" /\ toMeta' = "none" /\ group' = group /\ group = 0
          /\ recovered' = IF toMeta = "RecoveredBlockGroup" THEN recovered + 1 ELSE recovered
      BY <2>1 DEF RecoverESet, taskVars, DataInv, IInv, InFlight
    <3> QED
      BY <1>1, <1>3, <3>1 DEF DataInv, Current
  <2>2. CASE ReportBlockDone
    <3>1. group # 0 /\ curBlockDone /\ group' = 0 /\ toMeta' = "RecoveredBlockGroup"
          /\ recovered' = recovered /\ group = curBlock /\ group = recovered + 1
      BY <2>2 DEF ReportBlockDone, DataInv, IInv, NoTask, TaskOpen
    <3> QED
      BY <1>1, <1>3, <3>1 DEF Current, Working
  <2>3. CASE DeallocRecoveryThreadMgr \/ JoinWorkers
    <3>1. UNCHANGED <<toMeta, recovered, group>>
      BY <2>3 DEF DeallocRecoveryThreadMgr, JoinWorkers, taskVars
    <3> QED
      BY <1>1, <1>3, <3>1 DEF DataInv, Current
  <2> QED
    BY <2>1, <2>2, <2>3
<1>5. CASE DeallocRecoveryThreadMgr
  <2>1. over' /\ ~over /\ group = 0
    BY <1>5 DEF DeallocRecoveryThreadMgr, DataInv, IInv, InFlight
  <2>2. ~Working
    BY <2>1 DEF DataInv, Current, Working
  <2>3. AtWork'
    BY <1>3, <2>2 DEF AtWork
  <2>4. \A w \in Workers : pc[w] # "wait" => pc[w] = "woken" /\ w # "coder" /\ curBlock # 0
    BY <2>1, <2>2 DEF DataInv, AtRest, Quiet
  <2>5. AtRest'
    BY <1>1, <2>1, <2>2, <2>4 DEF DataInv, AtRest
  <2> QED
    BY <1>2, <1>4, <2>3, <2>5
<1>6. CASE RecoverESet \/ ReportBlockDone \/ JoinWorkers
  <2>1. UNCHANGED <<over, sem>>
    BY <1>6 DEF RecoverESet, ReportBlockDone, JoinWorkers, taskVars, semVars
  <2>2. /\ Written' = Written /\ Coded' = Coded /\ Fetched' = Fetched /\ DiskRead' = DiskRead
        /\ NetRead' = NetRead /\ Dealt' = Dealt /\ Base' = Base /\ \A w : Busy(w)' = Busy(w)
    BY <1>1, <2>1 DEF Written, Coded, Fetched, DiskRead, NetRead, Dealt, Base, Busy
  <2>3. \A b : Back(b)' = Back(b) /\ PieceIn(b)' = PieceIn(b)
    BY <2>2 DEF Back, PieceIn
  <2>4. AtWork'
    <3> SUFFICES ASSUME Working PROVE Turns' /\ Counts' /\ Places' /\ Files' /\ Contents'
      BY <1>3 DEF AtWork
    <3>1. Turns /\ Counts /\ Places /\ Files /\ Contents
      BY DEF DataInv, AtWork
    <3>2. Turns' /\ Counts'
      BY <1>1, <2>1, <2>2, <3>1 DEF Turns, Counts
    <3>3. Places' /\ Files'
      BY <1>1, <2>2, <2>3, <3>1 DEF Places, PlaceAfter, Files
    <3>4. Contents'
      BY <1>1, <2>2, <2>3, <3>1 DEF Contents
    <3> QED
      BY <3>2, <3>3, <3>4
  <2>5. AtRest'
    BY <1>1, <1>3, <2>1, <2>2 DEF DataInv, AtRest, Quiet
  <2> QED
    BY <1>2, <1>4, <2>4, <2>5
<1> QED
  BY <1>5, <1>6

LEMMA NotifyAtRest ==
  ASSUME DataInv, NotifyMeta
  PROVE  Current' /\ Targets' /\ AtWork' /\ AtRest'
<1>1. /\ UNCHANGED <<toMeta, recovered, group, curBlock, curBlockDone, over, sem, finishedSem, pc,
                     bufIdx, netFd, diskFd, outFd, files>>
      /\ mgrPc = "notify"
  BY DEF NotifyMeta, taskVars, semVars, workVars, dataVars
<1>2. curBlockDone
  <2>1. group # 0
    BY <1>1 DEF DataInv, IInv, NoTask
  <2> QED
    BY <1>1, <2>1 DEF DataInv, IInv, TaskOpen
<1>3. ~Working /\ ~Working'
  BY <1>1, <1>2 DEF Working
<1>4. Targets'
  BY <1>1 DEF DataInv, Targets, Whole
<1>5. Current'
  BY <1>1, <1>3 DEF DataInv, Current
<1>6. AtRest'
  BY <1>1, <1>3 DEF DataInv, AtRest, Quiet, Busy
<1> QED
  BY <1>3, <1>4, <1>5, <1>6 DEF AtWork

\* The workers between two blocks: woken by a close token they close their block
\* and wait again, woken by the end they leave.
LEMMA WorkerAtRest ==
  ASSUME DataInv, ~Working, NetThread \/ DiskThread \/ CoderThread \/ WriterThread
  PROVE  Current' /\ Targets' /\ AtWork' /\ AtRest'
<1>1. /\ TypeOK /\ Workers = {"net", "disk", "coder", "writer"} /\ sem \in [Workers -> Nat]
      /\ pc \in [Workers -> {"wait", "woken", "waitDisk", "stuck", "exit"}] /\ over \in BOOLEAN
  BY DEF DataInv, IInv, TypeOK, Workers
<1>2. /\ UNCHANGED <<toMeta, recovered, group, curBlock, curBlockDone, over, pending, mgrPc, mgrIdx, inUse>>
      /\ ~Working'
  BY WorkerFrame
<1>3. /\ \A w \in Workers : bufIdx[w] = 0
      /\ \A b \in Bufs : finishedSem[b] = 0
      /\ over => \A w \in Workers :
                   pc[w] # "wait" /\ pc[w] # "exit" => pc[w] = "woken" /\ w # "coder" /\ curBlock # 0
      /\ ~over =>
           /\ \A w \in Workers : pc[w] \in {"wait", "woken"}
           /\ sem["coder"] = 0 /\ pc["coder"] = "wait"
           /\ sem["net"] + Busy("net") <= 1 /\ sem["net"] + sem["disk"] + Busy("disk") <= 1
           /\ sem["writer"] + Busy("writer") <= 1
           /\ netFd # Closed => sem["net"] + Busy("net") = 1
           /\ diskFd # Closed => sem["net"] + sem["disk"] + Busy("disk") = 1
           /\ outFd # 0 => sem["writer"] + Busy("writer") = 1
           /\ curBlock = 0 => Quiet
  BY DEF DataInv, AtRest
<1>4. Current'
  BY <1>2 DEF DataInv, Current
<1>5. AtWork'
  BY <1>2 DEF AtWork
<1>6. ASSUME NEW w \in Workers, pc[w] \in {"woken", "waitDisk"}
      PROVE  pc[w] = "woken" /\ curBlockDone /\ curBlock # 0 /\ w # "coder"
  <2>1. pc[w] = "woken" /\ w # "coder"
    BY <1>1, <1>3, <1>6
  <2>2. curBlock # 0
    BY <1>1, <1>3, <1>6, <2>1 DEF Quiet
  <2> QED
    BY <2>1, <2>2 DEF Working
<1>7. ASSUME NEW w \in Workers, Wake(w) PROVE Targets' /\ AtRest'
  <2>1. /\ pc[w] = "wait" /\ sem[w] > 0 /\ pc' = [pc EXCEPT ![w] = IF over THEN "exit" ELSE "woken"]
        /\ sem' = IF w = "net" /\ ~over THEN [sem EXCEPT !["net"] = @ - 1, !["disk"] = @ + 1]
                                        ELSE [sem EXCEPT ![w] = @ - 1]
        /\ UNCHANGED <<finishedSem, bufIdx, netFd, diskFd, outFd, files>>
    BY <1>7 DEF Wake, dataVars
  <2>2. Targets'
    BY <1>2, <2>1 DEF DataInv, Targets, Whole
  <2>3. CASE over
    <3>1. \A v \in Workers :
            pc'[v] # "wait" /\ pc'[v] # "exit" => pc'[v] = "woken" /\ v # "coder" /\ curBlock # 0
      BY <1>1, <1>3, <2>1, <2>3
    <3> QED
      BY <1>2, <1>3, <2>1, <2>2, <2>3, <3>1 DEF AtRest
  <2>4. CASE ~over
    <3>1. /\ w # "coder" /\ curBlock # 0
      BY <1>3, <2>1, <2>4 DEF Quiet
    <3>2. /\ \A v \in Workers : v # w => pc'[v] = pc[v] /\ Busy(v)' = Busy(v)
          /\ pc'[w] = "woken" /\ Busy(w) = 0 /\ Busy(w)' = 1
      BY <1>1, <2>1, <2>4 DEF Busy
    <3>3. /\ sem'["net"] = IF w = "net" THEN sem["net"] - 1 ELSE sem["net"]
          /\ sem'["disk"] = IF w = "net" THEN sem["disk"] + 1 ELSE IF w = "disk" THEN sem["disk"] - 1 ELSE sem["disk"]
          /\ sem'["coder"] = sem["coder"]
          /\ sem'["writer"] = IF w = "writer" THEN sem["writer"] - 1 ELSE sem["writer"]
      BY <1>1, <2>1, <2>4, <3>1
    <3>4. /\ sem["net"] \in Nat /\ sem["disk"] \in Nat /\ sem["writer"] \in Nat
          /\ Busy("net") \in {0, 1} /\ Busy("disk") \in {0, 1} /\ Busy("writer") \in {0, 1}
      BY <1>1 DEF Busy
    <3>5. /\ sem'["net"] + Busy("net")' = sem["net"] + Busy("net")
          /\ sem'["net"] + sem'["disk"] + Busy("disk")' = sem["net"] + sem["disk"] + Busy("disk")
          /\ sem'["writer"] + Busy("writer")' = sem["writer"] + Busy("writer")
      BY <1>1, <3>1, <3>2, <3>3, <3>4
    <3>6. \A v \in Workers : pc'[v] \in {"wait", "woken"}
      BY <1>3, <2>4, <3>2
    <3>7. pc'["coder"] = "wait" /\ sem'["coder"] = 0
      BY <1>1, <1>3, <2>4, <3>1, <3>2, <3>3
    <3> QED
      BY <1>2, <1>3, <2>1, <2>2, <2>4, <3>1, <3>5, <3>6, <3>7 DEF AtRest
  <2> QED
    BY <1>1, <2>3, <2>4
<1>8. CASE CloseRemoteBlocksFd
  <2>1. /\ pc["net"] = "woken" /\ netFd' = Closed /\ pc' = [pc EXCEPT !["net"] = "wait"]
        /\ UNCHANGED <<sem, finishedSem, bufIdx, diskFd, outFd, files>>
    BY <1>8 DEF CloseRemoteBlocksFd, semVars
  <2>2. /\ pc'["net"] = "wait" /\ Busy("net") = 1 /\ Busy("net")' = 0
        /\ \A v \in Workers : v # "net" => pc'[v] = pc[v] /\ Busy(v)' = Busy(v)
    BY <1>1, <2>1 DEF Busy
  <2>3. Targets'
    BY <1>2, <2>1 DEF DataInv, Targets, Whole
  <2>4. CASE over
    <3>1. \A v \in Workers :
            pc'[v] # "wait" /\ pc'[v] # "exit" => pc'[v] = "woken" /\ v # "coder" /\ curBlock # 0
      BY <1>1, <1>3, <2>2, <2>4
    <3>2. AtRest'
      BY <1>2, <1>3, <2>1, <2>4, <3>1 DEF AtRest
    <3> QED
      BY <1>4, <1>5, <2>3, <3>2
  <2>5. CASE ~over
    <3>1. curBlock # 0 /\ sem["net"] = 0
      BY <1>1, <1>3, <2>5, <2>1, <2>2 DEF Quiet
    <3>2. (\A v \in Workers : pc'[v] \in {"wait", "woken"}) /\ pc'["coder"] = "wait"
      BY <1>1, <1>3, <2>5, <2>2, <3>1
    <3>3. /\ sem["net"] \in Nat /\ sem["disk"] \in Nat /\ sem["writer"] \in Nat
          /\ Busy("net") \in {0, 1} /\ Busy("disk") \in {0, 1} /\ Busy("writer") \in {0, 1}
      BY <1>1 DEF Busy
    <3>4. /\ sem["net"] + Busy("net")' <= 1 /\ sem["net"] + sem["disk"] + Busy("disk")' <= 1
          /\ sem["writer"] + Busy("writer")' <= 1
          /\ netFd' # Closed => sem["net"] + Busy("net")' = 1
          /\ diskFd' # Closed => sem["net"] + sem["disk"] + Busy("disk")' = 1
          /\ outFd' # 0 => sem["writer"] + Busy("writer")' = 1
      BY <1>1, <1>3, <2>5, <2>1, <2>2, <3>1, <3>3
    <3>5. sem["coder"] = 0
      BY <1>3, <2>5, <3>1
    <3>6. AtRest'
      BY <1>2, <1>3, <2>5, <2>1, <3>1, <3>2, <3>4, <3>5 DEF AtRest
    <3> QED
      BY <1>4, <1>5, <2>3, <3>6
  <2> QED
    BY <1>1, <2>4, <2>5
<1>9. CASE CloseReadedBlocksFds
  <2>1. /\ pc["disk"] = "woken" /\ diskFd' = Closed /\ pc' = [pc EXCEPT !["disk"] = "wait"]
        /\ UNCHANGED <<sem, finishedSem, bufIdx, netFd, outFd, files>>
    BY <1>9 DEF CloseReadedBlocksFds, semVars
  <2>2. /\ pc'["disk"] = "wait" /\ Busy("disk") = 1 /\ Busy("disk")' = 0
        /\ \A v \in Workers : v # "disk" => pc'[v] = pc[v] /\ Busy(v)' = Busy(v)
    BY <1>1, <2>1 DEF Busy
  <2>3. Targets'
    BY <1>2, <2>1 DEF DataInv, Targets, Whole
  <2>4. CASE over
    <3>1. \A v \in Workers :
            pc'[v] # "wait" /\ pc'[v] # "exit" => pc'[v] = "woken" /\ v # "coder" /\ curBlock # 0
      BY <1>1, <1>3, <2>2, <2>4
    <3>2. AtRest'
      BY <1>2, <1>3, <2>1, <2>4, <3>1 DEF AtRest
    <3> QED
      BY <1>4, <1>5, <2>3, <3>2
  <2>5. CASE ~over
    <3>1. curBlock # 0 /\ sem["net"] = 0 /\ sem["disk"] = 0
      BY <1>1, <1>3, <2>5, <2>1, <2>2 DEF Quiet
    <3>2. (\A v \in Workers : pc'[v] \in {"wait", "woken"}) /\ pc'["coder"] = "wait"
      BY <1>1, <1>3, <2>5, <2>2, <3>1
    <3>3. /\ sem["net"] \in Nat /\ sem["disk"] \in Nat /\ sem["writer"] \in Nat
          /\ Busy("net") \in {0, 1} /\ Busy("disk") \in {0, 1} /\ Busy("writer") \in {0, 1}
      BY <1>1 DEF Busy
    <3>4. /\ sem["net"] + Busy("net")' <= 1 /\ sem["net"] + sem["disk"] + Busy("disk")' <= 1
          /\ sem["writer"] + Busy("writer")' <= 1
          /\ netFd' # Closed => sem["net"] + Busy("net")' = 1
          /\ diskFd' # Closed => sem["net"] + sem["disk"] + Busy("disk")' = 1
          /\ outFd' # 0 => sem["writer"] + Busy("writer")' = 1
      BY <1>1, <1>3, <2>5, <2>1, <2>2, <3>1, <3>3
    <3>5. sem["coder"] = 0
      BY <1>3, <2>5, <3>1
    <3>6. AtRest'
      BY <1>2, <1>3, <2>5, <2>1, <3>1, <3>2, <3>4, <3>5 DEF AtRest
    <3> QED
      BY <1>4, <1>5, <2>3, <3>6
  <2> QED
    BY <1>1, <2>4, <2>5
<1>10. CASE CloseWritedBlocksFds
  <2>1. /\ pc["writer"] = "woken" /\ outFd' = 0 /\ pc' = [pc EXCEPT !["writer"] = "wait"]
        /\ UNCHANGED <<sem, finishedSem, bufIdx, netFd, diskFd, files>>
    BY <1>10 DEF CloseWritedBlocksFds, semVars
  <2>2. /\ pc'["writer"] = "wait" /\ Busy("writer") = 1 /\ Busy("writer")' = 0
        /\ \A v \in Workers : v # "writer" => pc'[v] = pc[v] /\ Busy(v)' = Busy(v)
    BY <1>1, <2>1 DEF Busy
  <2>3. Targets'
    BY <1>2, <2>1 DEF DataInv, Targets, Whole
  <2>4. CASE over
    <3>1. \A v \in Workers :
            pc'[v] # "wait" /\ pc'[v] # "exit" => pc'[v] = "woken" /\ v # "coder" /\ curBlock # 0
      BY <1>1, <1>3, <2>2, <2>4
    <3>2. AtRest'
      BY <1>2, <1>3, <2>1, <2>4, <3>1 DEF AtRest
    <3> QED
      BY <1>4, <1>5, <2>3, <3>2
  <2>5. CASE ~over
    <3>1. curBlock # 0 /\ sem["writer"] = 0
      BY <1>1, <1>3, <2>5, <2>1, <2>2 DEF Quiet
    <3>2. (\A v \in Workers : pc'[v] \in {"wait", "woken"}) /\ pc'["coder"] = "wait"
      BY <1>1, <1>3, <2>5, <2>2, <3>1
    <3>3. /\ sem["net"] \in Nat /\ sem["disk"] \in Nat /\ sem["writer"] \in Nat
          /\ Busy("net") \in {0, 1} /\ Busy("disk") \in {0, 1} /\ Busy("writer") \in {0, 1}
      BY <1>1 DEF Busy
    <3>4. /\ sem["net"] + Busy("net")' <= 1 /\ sem["net"] + sem["disk"] + Busy("disk")' <= 1
          /\ sem["writer"] + Busy("writer")' <= 1
          /\ netFd' # Closed => sem["net"] + Busy("net")' = 1
          /\ diskFd' # Closed => sem["net"] + sem["disk"] + Busy("disk")' = 1
          /\ outFd' # 0 => sem["writer"] + Busy("writer")' = 1
      BY <1>1, <1>3, <2>5, <2>1, <2>2, <3>1, <3>3
    <3>5. sem["coder"] = 0
      BY <1>3, <2>5, <3>1
    <3>6. AtRest'
      BY <1>2, <1>3, <2>5, <2>1, <3>1, <3>2, <3>4, <3>5 DEF AtRest
    <3> QED
      BY <1>4, <1>5, <2>3, <3>6
  <2> QED
    BY <1>1, <2>4, <2>5
<1>11. ~ReadRemoteBlocks /\ ~WaitDiskData /\ ~PerformDiskReadJob /\ ~StartCoding /\ ~PerformWriteDiskJob
  BY <1>1, <1>6 DEF ReadRemoteBlocks, WaitDiskData, PerformDiskReadJob, StartCoding, PerformWriteDiskJob
<1> QED
  BY <1>1, <1>4, <1>5, <1>7, <1>8, <1>9, <1>10, <1>11
  DEF NetThread, DiskThread, CoderThread, WriterThread

-----------------------------------------------------------------------------
(* The theorems. *)

\* A token that was late stays one.
LEMMA LateStays ==
  ASSUME TypeOK, late, [Next]_vars
  PROVE  late'
<1>1. CASE InitRecoveryTask
  BY <1>1 DEF InitRecoveryTask
<1>2. CASE RecoverESet \/ ReportBlockDone \/ DeallocRecoveryThreadMgr \/ JoinWorkers
  BY <1>2 DEF RecoverESet, ReportBlockDone, DeallocRecoveryThreadMgr, JoinWorkers, taskVars
<1>3. CASE MgrThread
  BY <1>3 DEF MgrThread, MgrWake, AssignTask, NoMoreTask, DrainBuf, FinishBlock, NotifyMeta, taskVars
<1>4. CASE NetThread \/ DiskThread \/ CoderThread \/ WriterThread
  BY <1>4 DEF NetThread, DiskThread, CoderThread, WriterThread, Wake, CloseRemoteBlocksFd,
     ReadRemoteBlocks, WaitDiskData, CloseReadedBlocksFds, PerformDiskReadJob, StartCoding,
     CloseWritedBlocksFds, PerformWriteDiskJob, taskVars
<1>5. CASE UNCHANGED vars
  BY <1>5 DEF vars, taskVars
<1> QED
  BY <1>1, <1>2, <1>3, <1>4, <1>5 DEF Next, MetaThread, SessionOver

LEMMA DataStep ==
  ASSUME DataInv, ~late', Aligned, [Next]_vars
  PROVE  DataInv'
<1>1. IInv'
  BY TypeStep, TokenStep, DealingStep DEF DataInv, IInv
<1>2. CASE RecoverESet \/ ReportBlockDone \/ DeallocRecoveryThreadMgr \/ JoinWorkers
  BY <1>1, <1>2, MetaAtRest DEF DataInv
<1>3. CASE InitRecoveryTask
  <2>1. Current' /\ Targets' /\ Working' /\ Turns' /\ Counts' /\ Places' /\ Files' /\ Contents'
    BY <1>3, InitTaskAtRest
  <2> QED
    BY <1>1, <2>1 DEF DataInv, AtWork, AtRest
<1>4. CASE MgrThread
  <2>1. CASE NotifyMeta
    BY <1>1, <2>1, NotifyAtRest DEF DataInv
  <2>2. CASE MgrWake \/ AssignTask \/ NoMoreTask \/ DrainBuf \/ FinishBlock
    <3>1. Working
      <4>1. group # 0
        <5>1. mgrPc # "wait" \/ waitingJobSem > 0
          BY <2>2 DEF MgrWake, AssignTask, NoMoreTask, DrainBuf, FinishBlock
        <5> QED
          BY <5>1 DEF DataInv, IInv, NoTask
      <4>2. ~curBlockDone /\ group = curBlock
        BY <2>2, <4>1 DEF MgrWake, AssignTask, NoMoreTask, DrainBuf, FinishBlock, DataInv, IInv, TaskOpen
      <4> QED
        BY <4>1, <4>2 DEF Working
    <3>2. WorkInv /\ Targets /\ Current
      BY <3>1 DEF DataInv, AtWork, WorkInv
    <3>3. UNCHANGED <<toMeta, recovered, group, curBlock>>
      BY <2>2 DEF MgrWake, AssignTask, NoMoreTask, DrainBuf, FinishBlock, metaVars, taskVars
    <3>4. Current'
      BY <3>1, <3>2, <3>3 DEF Current, Working
    <3>5. CASE MgrWake \/ AssignTask \/ NoMoreTask \/ DrainBuf
      <4>1. Turns' /\ Counts' /\ Places' /\ Files' /\ Contents'
        BY <3>2, <3>5, MgrWakeAtWork, AssignTaskAtWork, DrainAtWork
      <4>2. UNCHANGED <<curBlockDone, files>>
        BY <3>5 DEF MgrWake, AssignTask, NoMoreTask, DrainBuf, taskVars, dataVars
      <4>3. Targets' /\ Working'
        BY <3>1, <3>2, <3>3, <4>2 DEF Targets, Whole, Working
      <4> QED
        BY <1>1, <3>4, <4>1, <4>3 DEF DataInv, AtWork, AtRest
    <3>6. CASE FinishBlock
      <4>1. AtRest' /\ Targets'
        BY <3>2, <3>6, FinishAtWork
      <4>2. ~Working'
        BY <3>6 DEF FinishBlock, Working
      <4> QED
        BY <1>1, <3>4, <4>1, <4>2 DEF DataInv, AtWork
    <3> QED
      BY <2>2, <3>5, <3>6
  <2> QED
    BY <1>4, <2>1, <2>2 DEF MgrThread
<1>5. CASE NetThread \/ DiskThread \/ CoderThread \/ WriterThread
  <2>1. CASE ~Working
    BY <1>1, <1>5, <2>1, WorkerAtRest DEF DataInv
  <2>2. CASE Working
    <3>1. WorkInv /\ Targets /\ Current /\ ~curBlockDone
      BY <2>2 DEF DataInv, AtWork, WorkInv, Working
    <3>2. ~over /\ Workers = {"net", "disk", "coder", "writer"}
      BY <2>2, <3>1 DEF WorkInv, IInv, TaskOpen, Current, Working, Workers
    <3>3. UNCHANGED <<toMeta, recovered, group, curBlock, curBlockDone, mgrPc, pending, mgrIdx>> /\ Working'
          /\ Dealt' = Dealt
      <4>1. UNCHANGED <<toMeta, recovered, group, curBlock, curBlockDone, mgrPc, pending, mgrIdx>>
        BY <1>5, WorkerFrame
      <4>2. Working'
        BY <2>2, <4>1 DEF Working
      <4>3. Dealt' = Dealt
        BY <4>1 DEF Dealt
      <4> QED
        BY <4>1, <4>2, <4>3
    <3>4. Current' /\ Turns'
      BY <3>1, <3>3 DEF Current, WorkInv, Turns
    <3>5. Counts' /\ Places' /\ Files' /\ Contents' /\ Targets'
      <4>1. CASE PerformWriteDiskJob
        BY <3>1, <4>1, WriteDiskAtWork
      <4>2. ASSUME NEW w \in Workers, Wake(w) PROVE Counts' /\ Places' /\ Files' /\ Contents' /\ files' = files
        BY <3>1, <3>2, <4>2, WakeAtWork DEF Wake, dataVars
      <4>3. CASE ReadRemoteBlocks \/ WaitDiskData \/ PerformDiskReadJob \/ StartCoding
        <5>1. Counts' /\ Places' /\ Files' /\ Contents'
          BY <3>1, <4>3, ReadRemoteAtWork, WaitDiskAtWork, DiskReadAtWork, StartCodingAtWork
        <5>2. files' = files
          BY <4>3 DEF ReadRemoteBlocks, WaitDiskData, PerformDiskReadJob, StartCoding, dataVars
        <5> QED
          BY <3>1, <3>3, <5>1, <5>2 DEF Targets, Whole
      <4>4. ~CloseRemoteBlocksFd /\ ~CloseReadedBlocksFds /\ ~CloseWritedBlocksFds
        BY <3>1 DEF CloseRemoteBlocksFd, CloseReadedBlocksFds, CloseWritedBlocksFds
      <4>5. files' = files => Targets'
        BY <3>1, <3>3 DEF Targets, Whole
      <4> QED
        BY <1>5, <3>2, <4>1, <4>2, <4>3, <4>4, <4>5
        DEF NetThread, DiskThread, CoderThread, WriterThread
    <3> QED
      BY <1>1, <3>3, <3>4, <3>5 DEF DataInv, AtWork, AtRest
  <2> QED
    BY <2>1, <2>2
<1>6. CASE UNCHANGED vars
  <2>1. /\ UNCHANGED <<toMeta, recovered, group, curBlock, curBlockDone, over, pending, mgrPc, mgrIdx, inUse>>
        /\ UNCHANGED <<sem, finishedSem, pc, bufIdx, buf, netFd, diskFd, outFd, files>>
    BY <1>6 DEF vars, metaVars, taskVars, mgrVars, semVars, workVars, dataVars
  <2>2. Current' /\ Targets'
    BY <2>1 DEF DataInv, Current, Working, Targets, Whole
  <2>3. /\ Written' = Written /\ Coded' = Coded /\ Fetched' = Fetched /\ DiskRead' = DiskRead
        /\ NetRead' = NetRead /\ Dealt' = Dealt /\ Base' = Base /\ Working' = Working
        /\ \A w : Busy(w)' = Busy(w)
    BY <2>1 DEF Written, Coded, Fetched, DiskRead, NetRead, Dealt, Base, Busy, Working
  <2>4. \A b : Back(b)' = Back(b) /\ PieceIn(b)' = PieceIn(b)
    BY <2>3 DEF Back, PieceIn
  <2>5. AtRest'
    BY <2>1, <2>3 DEF DataInv, AtRest, Quiet
  <2>6. AtWork'
    <3> SUFFICES ASSUME Working PROVE Turns' /\ Counts' /\ Places' /\ Files' /\ Contents'
      BY <2>3 DEF AtWork
    <3>1. Turns /\ Counts /\ Places /\ Files /\ Contents
      BY DEF DataInv, AtWork
    <3>2. Turns' /\ Counts'
      BY <2>1, <2>3, <3>1 DEF Turns, Counts
    <3>3. Places' /\ Files'
      BY <2>1, <2>3, <2>4, <3>1 DEF Places, PlaceAfter, Files
    <3>4. Contents'
      BY <2>1, <2>3, <2>4, <3>1 DEF Contents
    <3> QED
      BY <3>2, <3>3, <3>4
  <2> QED
    BY <1>1, <2>2, <2>5, <2>6 DEF DataInv
<1> QED
  BY <1>2, <1>3, <1>4, <1>5, <1>6 DEF Next, MetaThread, SessionOver

LEMMA DataInit == Init => DataInv
<1> SUFFICES ASSUME Init PROVE DataInv
  OBVIOUS
<1>1. IInv
  <2>1. TypeOK
    BY InitType
  <2> QED
    BY <2>1, NumGroupsAssumption DEF Init, IInv, InFlight, TaskOpen, NoTask, Dealing, Blank
<1>2. ~Working /\ Current
  BY DEF Init, Current, Working
<1>3. Targets
  BY DEF Init, Targets, Groups
<1>4. AtRest
  BY DEF Init, AtRest, Quiet, Busy, Workers
<1> QED
  BY <1>1, <1>2, <1>3, <1>4 DEF DataInv, AtWork

\* The protocol of the data holds for every block of a whole number of rings, until
\* a task is set up before a worker has consumed its close token.
THEOREM DataInvariant ==
  ASSUME Aligned
  PROVE  Spec => [](~late => DataInv)
<1>1. Init => (~late => DataInv)
  BY DataInit
<1>2. TypeOK /\ (~late => DataInv) /\ [Next]_vars => (~late => DataInv)'
  <2> SUFFICES ASSUME TypeOK, ~late => DataInv, [Next]_vars, ~late' PROVE DataInv'
    OBVIOUS
  <2>1. ~late
    BY LateStays
  <2> QED
    BY <2>1, DataStep
<1> QED
  BY <1>1, <1>2, TypeCorrect, PTL DEF Spec

\* A block is reported only when its target file is whole, each piece decoded
\* from that piece of every source and in its place, for every ring, number of
\* groups, speed of the threads and block of a whole number of rings, until a
\* task is set up before a worker has consumed its close token.
THEOREM ReportedBlocksAreWhole ==
  ASSUME Aligned
  PROVE  Spec => []ReportedIsComplete
<1>1. (~late => DataInv) => ReportedIsComplete
  <2> SUFFICES ASSUME DataInv, NEW g \in Groups,
                      g <= recovered \/ (toMeta = "RecoveredBlockGroup" /\ g = curBlock)
               PROVE  Len(files[g]) = Tasks
    BY DEF DataInv, Targets, ReportedIsComplete
  <2>1. recovered \in Nat /\ g \in Nat /\ curBlock \in Nat
    BY NumGroupsAssumption DEF DataInv, IInv, TypeOK, Groups
  <2>2. CASE toMeta = "RecoveredBlockGroup"
    <3>1. group = 0 /\ curBlock = recovered + 1
      BY <2>2 DEF DataInv, IInv, InFlight, Current
    <3>2. curBlockDone
      BY <2>1, <3>1 DEF DataInv, Current, Working
    <3>3. g < curBlock \/ (g = curBlock /\ curBlockDone)
      BY <2>1, <3>1, <3>2
    <3> QED
      BY <3>3 DEF DataInv, Targets, Whole
  <2>3. CASE toMeta # "RecoveredBlockGroup"
    <3>1. g <= recovered
      BY <2>3
    <3>2. CASE group = 0
      <4>1. curBlock = recovered /\ curBlock # 0
        BY <2>1, <2>3, <3>1, <3>2, NumGroupsAssumption DEF DataInv, Current, Groups
      <4>2. curBlockDone
        BY <3>2, <4>1 DEF DataInv, Current, Working
      <4>3. g < curBlock \/ (g = curBlock /\ curBlockDone)
        BY <2>1, <3>1, <4>1, <4>2
      <4> QED
        BY <4>3 DEF DataInv, Targets, Whole
    <3>3. CASE group # 0
      <4>1. curBlock = recovered + 1
        BY <3>3 DEF DataInv, IInv, TaskOpen
      <4>2. g < curBlock
        BY <2>1, <3>1, <4>1
      <4> QED
        BY <4>2 DEF DataInv, Targets, Whole
    <3> QED
      BY <3>2, <3>3
  <2> QED
    BY <2>2, <2>3
<1>2. Spec => [](~late => DataInv)
  BY DataInvariant
<1> QED
  BY <1>1, <1>2, PTL

\* Network reader, coder and writer never work on one buffer: the pieces they
\* are at differ, and so do the places of these pieces in the ring.  So it is for
\* blocks of a whole number of rings, until a task is set up before a worker has
\* consumed its close token.
THEOREM BuffersExclusive ==
  ASSUME Aligned
  PROVE  Spec => []BufferExclusive
<1>1. (~late => DataInv) => BufferExclusive
  <2> SUFFICES ASSUME DataInv, ~curBlockDone,
                      NEW v \in {"net", "coder", "writer"}, NEW w \in {"net", "coder", "writer"},
                      v # w, {pc[v], pc[w]} \cap {"wait", "exit"} = {}
               PROVE  bufIdx[v] # bufIdx[w]
    BY DEF BufferExclusive
  <2>1. v \in Workers /\ w \in Workers
    BY DEF Workers
  <2>2. Working
    <3> SUFFICES ASSUME ~Working PROVE FALSE
      OBVIOUS
    <3>1. curBlock = 0
      BY DEF Working
    <3>2. AtRest /\ over \in BOOLEAN
      BY DEF DataInv, IInv, TypeOK
    <3>3. pc[v] \in {"wait", "exit"}
      BY <2>1, <3>1, <3>2 DEF AtRest, Working, Quiet
    <3> QED
      BY <3>3
  <2>3. IInv /\ Counts /\ Places
    BY <2>2 DEF DataInv, AtWork
  <2>4. Busy(v) = 1 /\ Busy(w) = 1
    BY <2>3 DEF Counts, Busy
  <2>5. /\ sem["coder"] \in Nat /\ sem["writer"] \in Nat /\ Busy("net") \in {0, 1}
        /\ Busy("coder") \in {0, 1} /\ Busy("writer") \in {0, 1}
        /\ Written \in Nat /\ Coded \in Nat /\ Fetched \in Nat /\ Dealt \in Nat
        /\ Written <= Coded /\ Coded <= Fetched /\ Fetched + Busy("net") <= Dealt
    BY <2>2, <2>3, CountFacts
  <2>6. /\ Busy("writer") = 1 => Written < Coded
        /\ Busy("coder") = 1 => Coded < Fetched
        /\ Busy("net") = 1 => Fetched < Dealt
    BY <2>5 DEF Coded, Fetched
  <2>7. /\ Back(bufIdx["writer"]) = IF Written = Dealt THEN NumBufs ELSE Dealt - Written
        /\ Back(bufIdx["coder"]) = IF Coded = Dealt THEN NumBufs ELSE Dealt - Coded
        /\ Back(bufIdx["net"]) = IF Fetched = Dealt THEN NumBufs ELSE Dealt - Fetched
    BY <2>3 DEF Places, PlaceAfter
  <2>8. Back(bufIdx[v]) # Back(bufIdx[w])
    BY <2>4, <2>5, <2>6, <2>7
  <2> QED
    BY <2>8
<1>2. Spec => [](~late => DataInv)
  BY DataInvariant
<1> QED
  BY <1>1, <1>2, PTL

\* No worker reads from, or writes to, a block that a task before left open, for
\* every ring, block of a whole number of rings and timing, be the close tokens
\* consumed long after the report or at the very end of the session.  The one
\* thing that can undo it is a task that is set up, clearing curBlockDone, while
\* a worker has its close token still to consume.
THEOREM JobsInCurrentBlock ==
  ASSUME Aligned
  PROVE  Spec => JobsStayInCurrentBlock
<1> DEFINE Reads == \A b \in Bufs : \A piece \in {buf'[b].net, buf'[b].disk} :
                       piece \in {NoPiece, buf[b].net, buf[b].disk} \/ piece[1] = curBlock
           Writes == \A g \in Groups : files'[g] # files[g] => g = curBlock
<1>1. (~late => DataInv) /\ [Next]_vars => (~late => InCurrentBlock)
  <2> SUFFICES ASSUME DataInv, [Next]_vars PROVE Reads /\ Writes
    BY DEF InCurrentBlock
  <2>1. buf \in [Bufs -> BufTypes] /\ files \in [Groups -> Seq(Pieces \cup {NoPiece})]
    BY DEF DataInv, IInv, TypeOK, BufTypes
  <2>2. ASSUME Working, NEW fd \in {netFd, diskFd}, ~AtEnd(fd) PROVE NextPiece(fd)[1] = curBlock
    <3>1. fd = Closed \/ fd[1] = curBlock
      BY <2>2 DEF DataInv, AtWork, Files
    <3>2. OpenedFd(fd)[1] = curBlock
      BY <3>1 DEF OpenedFd
    <3> QED
      BY <3>2 DEF NextPiece
  <2>3. UNCHANGED buf \/ AssignTask \/ FinishBlock \/ ReadRemoteBlocks \/ PerformDiskReadJob \/ StartCoding
    <3>1. CASE RecoverESet \/ MetaThread
      BY <3>1 DEF MetaThread, RecoverESet, InitRecoveryTask, ReportBlockDone,
         DeallocRecoveryThreadMgr, JoinWorkers, dataVars
    <3>2. CASE MgrThread
      BY <3>2 DEF MgrThread, MgrWake, NoMoreTask, DrainBuf, NotifyMeta, dataVars
    <3>3. CASE NetThread \/ DiskThread \/ CoderThread \/ WriterThread
      BY <3>3 DEF NetThread, DiskThread, CoderThread, WriterThread, Wake, CloseRemoteBlocksFd,
         WaitDiskData, CloseReadedBlocksFds, CloseWritedBlocksFds, PerformWriteDiskJob, dataVars
    <3>4. CASE SessionOver \/ UNCHANGED vars
      BY <3>4 DEF SessionOver, vars, dataVars
    <3> QED
      BY <3>1, <3>2, <3>3, <3>4 DEF Next
  <2>4. UNCHANGED files \/ PerformWriteDiskJob
    <3>1. CASE RecoverESet \/ MetaThread
      BY <3>1 DEF MetaThread, RecoverESet, InitRecoveryTask, ReportBlockDone,
         DeallocRecoveryThreadMgr, JoinWorkers, dataVars
    <3>2. CASE MgrThread
      BY <3>2 DEF MgrThread, MgrWake, AssignTask, NoMoreTask, DrainBuf, FinishBlock, NotifyMeta, dataVars
    <3>3. CASE NetThread \/ DiskThread \/ CoderThread \/ WriterThread
      BY <3>3 DEF NetThread, DiskThread, CoderThread, WriterThread, Wake, CloseRemoteBlocksFd,
         ReadRemoteBlocks, WaitDiskData, CloseReadedBlocksFds, PerformDiskReadJob, StartCoding,
         CloseWritedBlocksFds, dataVars
    <3>4. CASE SessionOver \/ UNCHANGED vars
      BY <3>4 DEF SessionOver, vars, dataVars
    <3> QED
      BY <3>1, <3>2, <3>3, <3>4 DEF Next
  <2>5. ReadRemoteBlocks \/ PerformDiskReadJob \/ PerformWriteDiskJob => Working
    <3> SUFFICES ASSUME ~Working, ReadRemoteBlocks \/ PerformDiskReadJob \/ PerformWriteDiskJob PROVE FALSE
      OBVIOUS
    <3>1. ~curBlockDone /\ \E w \in Workers : pc[w] = "woken"
      BY DEF ReadRemoteBlocks, PerformDiskReadJob, PerformWriteDiskJob, Workers
    <3>2. curBlock = 0
      BY <3>1 DEF Working
    <3>3. AtRest /\ over \in BOOLEAN
      BY DEF DataInv, IInv, TypeOK
    <3> QED
      BY <3>1, <3>2, <3>3 DEF AtRest, Working, Quiet
  <2>6. Reads
    <3>1. CASE UNCHANGED buf
      BY <3>1
    <3>2. CASE AssignTask \/ FinishBlock
      <4>1. \A b \in Bufs : buf'[b] = buf[b] \/ (buf'[b].net = NoPiece /\ buf'[b].disk = NoPiece)
        BY <2>1, <3>2 DEF AssignTask, FinishBlock, Blank
      <4> QED
        BY <4>1
    <3>3. CASE ReadRemoteBlocks
      <4>1. \/ UNCHANGED buf
            \/ ~AtEnd(netFd) /\ buf' = [buf EXCEPT ![bufIdx["net"]].net = NextPiece(netFd)]
        BY <3>3 DEF ReadRemoteBlocks
      <4>2. ~AtEnd(netFd) => NextPiece(netFd)[1] = curBlock
        BY <2>2, <2>5, <3>3
      <4>3. \A b \in Bufs : /\ buf'[b].disk = buf[b].disk
                            /\ buf'[b].net = buf[b].net \/ buf'[b].net[1] = curBlock
        BY <2>1, <4>1, <4>2 DEF BufTypes
      <4> QED
        BY <4>3
    <3>4. CASE PerformDiskReadJob
      <4>1. \/ UNCHANGED buf
            \/ ~AtEnd(diskFd) /\ buf' = [buf EXCEPT ![bufIdx["disk"]].disk = NextPiece(diskFd)]
        BY <3>4 DEF PerformDiskReadJob
      <4>2. ~AtEnd(diskFd) => NextPiece(diskFd)[1] = curBlock
        BY <2>2, <2>5, <3>4
      <4>3. \A b \in Bufs : /\ buf'[b].net = buf[b].net
                            /\ buf'[b].disk = buf[b].disk \/ buf'[b].disk[1] = curBlock
        BY <2>1, <4>1, <4>2 DEF BufTypes
      <4> QED
        BY <4>3
    <3>5. CASE StartCoding
      <4>1. \/ UNCHANGED buf
            \/ buf' = [buf EXCEPT ![bufIdx["coder"]].out = Decoded(buf[bufIdx["coder"]])]
        BY <3>5 DEF StartCoding
      <4>2. \A b \in Bufs : buf'[b].net = buf[b].net /\ buf'[b].disk = buf[b].disk
        BY <2>1, <4>1 DEF BufTypes
      <4> QED
        BY <4>2
    <3> QED
      BY <2>3, <3>1, <3>2, <3>3, <3>4, <3>5
  <2>7. Writes
    <3>1. CASE UNCHANGED files
      BY <3>1
    <3>2. CASE PerformWriteDiskJob
      <4>1. outFd = 0 \/ outFd = curBlock
        BY <2>5, <3>2 DEF DataInv, AtWork, Files
      <4>2. \E new : files' = [files EXCEPT ![curBlock] = new]
        BY <3>2, <4>1 DEF PerformWriteDiskJob
      <4> QED
        BY <2>1, <4>2
    <3> QED
      BY <2>4, <3>1, <3>2
  <2> QED
    BY <2>6, <2>7
<1>2. Spec => [](~late => DataInv)
  BY DataInvariant
<1> QED
  BY <1>1, <1>2, PTL DEF Spec, JobsStayInCurrentBlock

=============================================================================
