------------------------------- MODULE PPRChain -------------------------------
(***************************************************************************)
(* Partial parallel repair (ECServerPPR): the servers of a failed block    *)
(* form a chain.  Every slave adds its own block to what its successor     *)
(* sends it and passes the sum on; the master, server 0, writes the lost   *)
(* block (PPRMasterWorker.c, PPRSlaveWorker.c and their IOHandle files;    *)
(* the meta thread in ECMetaServerHandle.c).                               *)
(*                                                                         *)
(* Every server has a manager that deals the pieces of a block to a ring   *)
(* of buffers, and four workers, each with a semaphore and a position in   *)
(* the ring of its own: the disk reader, the net reader, the coder, and    *)
(* the writer, which sends the result up the chain or, at the master,      *)
(* writes it to disk.  At the end of a block the manager raises            *)
(* curBlockDone and wakes the workers, who go back to buffer 0.            *)
(*                                                                         *)
(* A piece of a block is named <<task, position>>; the result of coding is *)
(* the sequence of the pieces added up, one of every server from here on.  *)
(* A worker's wait and the job it wakes for are one step: nobody else      *)
(* takes its tokens.  Reads, writes and connections succeed, and a socket  *)
(* takes all that is sent.                                                 *)
(***************************************************************************)
EXTENDS Integers, Sequences

CONSTANTS
  MaxServers,   \* bound: length of the chain, the master included
  NumBufs,      \* recoveryBufNum
  MaxTasks,     \* bound: block groups
  LongChainTasks, \* bound: block groups of a chain of more than two servers
  MaxPieces,    \* bound: buffers of data in a block
  PromptClose   \* TRUE: a server's next task takes longer than its workers need
                \* to consume the close tokens of the last one

ASSUME MaxServersAssumption == MaxServers \in Nat /\ MaxServers >= 2
ASSUME NumBufsAssumption == NumBufs \in Nat \ {0}
ASSUME BoundsAssumption ==
  MaxTasks \in Nat /\ LongChainTasks \in 0 .. MaxTasks /\ MaxPieces \in Nat \ {0}
ASSUME PromptCloseAssumption == PromptClose \in BOOLEAN

AllServers == 0 .. MaxServers - 1
Bufs == 0 .. NumBufs - 1
Workers == {"disk", "net", "coder", "writer"}
Sems == {"diskRead", "netRead", "diskReadDone", "netReadDone", "codingDone"}
Piece == Nat \X Nat
Closed == <<0, 0>>

VARIABLES
  chain,        \* sourceNodesSize
  pieces,       \* per task: buffers of data in its blocks
  group,        \* the master's blockGroupIdx, 0 when no task is open
  waitingJobSem,
  pipe,         \* serverRecoveryPipes holds a byte
  reported,     \* tasks ECMeta was told are done
  cmds,         \* per slave: commands in its socket, Start or a task
  stream,       \* per slave: results it sent, not received yet
  slaveState,   \* pprSlaveState
  task,         \* the block group a server works on
  curBlockDone,
  pending,      \* totalPendingHandleSize, pendingBlockSize in buffers
  mgrPc, mgrIdx,
  inUse,        \* recoveryBufsInUseFlag, pprWorkerBufsInUseFlag
  finishedSem,  \* writingFinishedSems
  sem,
  bufIdx,       \* of the workers
  buf,          \* localIOBuf, netIOBuf, resultBuf
  readFd,       \* open source block: <<task, pieces read>>, or Closed
  writeFd,      \* the master's open target block, or 0
  files         \* target blocks on disk

metaVars == <<chain, pieces, group, waitingJobSem, pipe, reported>>
linkVars == <<cmds, stream>>
mgrVars  == <<slaveState, task, curBlockDone, pending, mgrPc, mgrIdx, inUse>>
semVars  == <<finishedSem, sem>>
dataVars == <<bufIdx, buf, readFd, writeFd, files>>
vars == <<metaVars, linkVars, mgrVars, semVars, dataVars>>

Start == 0  \* the command of formPPRCmd
Servers == 0 .. chain - 1
TasksOf(c) == IF c = 2 THEN MaxTasks ELSE LongChainTasks  \* bound
IsLast(s) == s = chain - 1  \* sizeValue = 1
NextBuf(b) == (b + 1) % NumBufs

Init ==
  /\ chain \in 2 .. MaxServers
  /\ pieces = <<>> /\ group = 0 /\ waitingJobSem = 0 /\ pipe = FALSE /\ reported = 0
  /\ cmds = [s \in AllServers |-> IF s = 1 THEN <<Start>> ELSE <<>>]
  /\ stream = [s \in AllServers |-> <<>>]
  /\ slaveState = [s \in AllServers |-> "uninit"]
  /\ task = [s \in AllServers |-> 0]
  /\ curBlockDone = [s \in AllServers |-> FALSE]
  /\ pending = [s \in AllServers |-> 0]
  /\ mgrPc = [s \in AllServers |-> "wait"] /\ mgrIdx = [s \in AllServers |-> 0]
  /\ inUse = [s \in AllServers |-> [b \in Bufs |-> FALSE]]
  /\ finishedSem = [s \in AllServers |-> [b \in Bufs |-> 0]]
  /\ sem = [s \in AllServers |-> [x \in Sems |-> 0]]
  /\ bufIdx = [s \in AllServers |-> [w \in Workers |-> 0]]
  /\ buf = [s \in AllServers |->
              [b \in Bufs |-> [local |-> Closed, net |-> <<>>, result |-> <<>>]]]
  /\ readFd = [s \in AllServers |-> Closed] /\ writeFd = 0
  /\ files = [t \in 1 .. MaxTasks |-> <<>>]

\* The workers of server s have consumed the close tokens (the coder of a slave
\* never will).
Quiet(s) == \A x \in IF s = 0 THEN Sems ELSE {"diskRead", "netRead", "codingDone"} :
              sem[s][x] = 0

-----------------------------------------------------------------------------
(* ECMeta and the master's meta thread *)

\* RecoverBlock: ECMeta sends a task after the reply to the last; initPPRTask.
InitPPRTask(n) ==
  /\ Len(pieces) = reported /\ reported < TasksOf(chain)
  /\ PromptClose => Quiet(0)
  /\ pieces' = Append(pieces, n)
  /\ IF group # 0
       THEN UNCHANGED <<group, task, pending, curBlockDone, waitingJobSem>>
       ELSE /\ group' = Len(pieces')
            /\ task' = [task EXCEPT ![0] = Len(pieces')]
            /\ pending' = [pending EXCEPT ![0] = n]
            /\ curBlockDone' = [curBlockDone EXCEPT ![0] = FALSE]
            /\ waitingJobSem' = waitingJobSem + 1
  /\ UNCHANGED <<chain, pipe, reported, linkVars, slaveState, mgrPc, mgrIdx, inUse, semVars,
                 dataVars>>

\* The 'D' byte: the task is reported and closed.
ReportBlockOver ==
  /\ pipe
  /\ pipe' = FALSE
  /\ IF group # 0 /\ curBlockDone[0]
       THEN reported' = group /\ group' = 0
       ELSE UNCHANGED <<reported, group>>
  /\ UNCHANGED <<chain, pieces, waitingJobSem, linkVars, mgrVars, semVars, dataVars>>

-----------------------------------------------------------------------------
(* Managers *)

\* startPPRMasterWorker: the first slave is told, then the pieces are dealt.
StartMasterTask ==
  /\ mgrPc[0] = "wait" /\ waitingJobSem > 0
  /\ waitingJobSem' = waitingJobSem - 1
  /\ cmds' = [cmds EXCEPT ![1] = Append(@, group)]
  /\ mgrPc' = [mgrPc EXCEPT ![0] = "deal"] /\ mgrIdx' = [mgrIdx EXCEPT ![0] = 0]
  /\ UNCHANGED <<chain, pieces, group, pipe, reported, stream, slaveState, task, curBlockDone,
                 pending, inUse, semVars, dataVars>>

\* The command at the head of the slave's socket, passed on down the chain.
TakeCommand(s) ==
  cmds' = [c \in AllServers |->
             IF c = s THEN Tail(cmds[s])
             ELSE IF c = s + 1 /\ ~IsLast(s) THEN Append(cmds[c], Head(cmds[s])) ELSE cmds[c]]

\* initPPRSlaveTask
InitPPRSlaveTask(s) ==
  /\ slaveState[s] = "uninit" /\ cmds[s] # <<>>
  /\ TakeCommand(s)
  /\ slaveState' = [slaveState EXCEPT ![s] = "waiting"]
  /\ UNCHANGED <<metaVars, stream, task, curBlockDone, pending, mgrPc, mgrIdx, inUse, semVars,
                 dataVars>>

\* getPPRBlockTask
GetPPRBlockTask(s) ==
  /\ slaveState[s] = "waiting" /\ cmds[s] # <<>>
  /\ PromptClose => Quiet(s)
  /\ TakeCommand(s)
  /\ slaveState' = [slaveState EXCEPT ![s] = "handling"]
  /\ task' = [task EXCEPT ![s] = Head(cmds[s])]
  /\ pending' = [pending EXCEPT ![s] = pieces[Head(cmds[s])]]
  /\ curBlockDone' = [curBlockDone EXCEPT ![s] = FALSE]
  /\ mgrPc' = [mgrPc EXCEPT ![s] = "deal"] /\ mgrIdx' = [mgrIdx EXCEPT ![s] = 0]
  /\ UNCHANGED <<metaVars, stream, inUse, semVars, dataVars>>

\* sem_post of each semaphore in xs at server s.
Post(s, xs) == sem' = [sem EXCEPT ![s] = [x \in Sems |-> IF x \in xs THEN @[x] + 1 ELSE @[x]]]

Reclaim_WithoutWaiting(s, b) == UNCHANGED finishedSem

\* A buffer in use is dealt again only when its last piece is written.
Reclaim(s, b) ==
  IF inUse[s][b]
    THEN finishedSem[s][b] > 0 /\ finishedSem' = [finishedSem EXCEPT ![s][b] = @ - 1]
    ELSE UNCHANGED finishedSem

\* One round of the dealing loop of startPPRMasterWorker and performPPRTask.
Deal(s) ==
  /\ mgrPc[s] = "deal"
  /\ Reclaim(s, mgrIdx[s])
  /\ inUse' = [inUse EXCEPT ![s][mgrIdx[s]] = pending[s] > 0]
  /\ IF pending[s] > 0
       THEN /\ pending' = [pending EXCEPT ![s] = @ - 1]
            /\ Post(s, IF IsLast(s) THEN {"diskRead"} ELSE {"diskRead", "netRead"})
            /\ mgrIdx' = [mgrIdx EXCEPT ![s] = NextBuf(@)]
            /\ UNCHANGED mgrPc
       ELSE /\ mgrPc' = [mgrPc EXCEPT ![s] = "drain"]
            /\ UNCHANGED <<pending, mgrIdx, sem>>
  /\ UNCHANGED <<metaVars, linkVars, slaveState, task, curBlockDone, dataVars>>

\* The close tokens.  The master wakes its coder by both its semaphores; a slave
\* does not post diskReadDone, so its coder sleeps on and keeps its position.
CloseTokens(s) ==
  IF s = 0 THEN Sems
  ELSE IF IsLast(s) THEN {"diskRead", "codingDone"}
  ELSE {"diskRead", "netRead", "netReadDone", "codingDone"}

\* All buffers written: curBlockDone, the close tokens, and the master's 'D'.
FinishBlock(s) ==
  /\ mgrPc[s] = "drain"
  /\ \A b \in Bufs : inUse[s][b] => finishedSem[s][b] > 0
  /\ finishedSem' = [finishedSem EXCEPT ![s] =
                       [b \in Bufs |-> IF inUse[s][b] THEN @[b] - 1 ELSE @[b]]]
  /\ inUse' = [inUse EXCEPT ![s] = [b \in Bufs |-> FALSE]]
  /\ curBlockDone' = [curBlockDone EXCEPT ![s] = TRUE]
  /\ Post(s, CloseTokens(s))
  /\ mgrPc' = [mgrPc EXCEPT ![s] = "wait"]
  /\ IF s = 0 THEN pipe' = TRUE /\ UNCHANGED slaveState
              ELSE slaveState' = [slaveState EXCEPT ![s] = "waiting"] /\ UNCHANGED pipe
  /\ UNCHANGED <<chain, pieces, group, waitingJobSem, reported, linkVars, task, pending, mgrIdx,
                 dataVars>>

-----------------------------------------------------------------------------
(* Workers *)

\* sem_wait on each of xs, sem_post of each of ys.
WaitPost(s, xs, ys) ==
  /\ \A x \in xs : sem[s][x] > 0
  /\ sem' = [sem EXCEPT ![s] = [x \in Sems |-> @[x] - (IF x \in xs THEN 1 ELSE 0)
                                                  + (IF x \in ys THEN 1 ELSE 0)]]

Advance(s, w) == bufIdx' = [bufIdx EXCEPT ![s][w] = NextBuf(@)]

\* What a worker waits for: the coder for the data of both readers.
WaitsFor(s, w) ==
  CASE w = "disk" -> {"diskRead"}
    [] w = "net" -> {"netRead"}
    [] w = "coder" -> IF IsLast(s) THEN {"diskReadDone"} ELSE {"diskReadDone", "netReadDone"}
    [] w = "writer" -> {"codingDone"}

CloseBlock_KeepsIdx(s, w) ==
  /\ curBlockDone[s]
  /\ WaitPost(s, WaitsFor(s, w), {})
  /\ readFd' = IF w = "disk" THEN [readFd EXCEPT ![s] = Closed] ELSE readFd
  /\ writeFd' = IF w = "writer" /\ s = 0 THEN 0 ELSE writeFd
  /\ UNCHANGED <<metaVars, linkVars, mgrVars, finishedSem, bufIdx, buf, files>>

\* A token taken when the block is done.
CloseBlock(s, w) ==
  /\ curBlockDone[s]
  /\ WaitPost(s, WaitsFor(s, w), {})
  /\ bufIdx' = [bufIdx EXCEPT ![s][w] = 0]
  /\ readFd' = IF w = "disk" THEN [readFd EXCEPT ![s] = Closed] ELSE readFd
  /\ writeFd' = IF w = "writer" /\ s = 0 THEN 0 ELSE writeFd
  /\ UNCHANGED <<metaVars, linkVars, mgrVars, finishedSem, buf, files>>

\* diskReadWorker, slaveDiskReadWorker
DiskRead(s) ==
  LET fd == IF readFd[s] = Closed THEN <<task[s], 0>> ELSE readFd[s]
      next == <<fd[1], fd[2] + 1>>
  IN /\ ~curBlockDone[s]
     /\ WaitPost(s, WaitsFor(s, "disk"), {"diskReadDone"})
     /\ readFd' = [readFd EXCEPT ![s] = next]
     /\ buf' = [buf EXCEPT ![s][bufIdx[s]["disk"]].local = next]
     /\ Advance(s, "disk")
     /\ UNCHANGED <<metaVars, linkVars, mgrVars, finishedSem, writeFd, files>>

\* netReadWorker, slaveNetReadWorker
NetRead(s) ==
  /\ ~curBlockDone[s] /\ ~IsLast(s) /\ stream[s + 1] # <<>>
  /\ WaitPost(s, WaitsFor(s, "net"), {"netReadDone"})
  /\ stream' = [stream EXCEPT ![s + 1] = Tail(@)]
  /\ buf' = [buf EXCEPT ![s][bufIdx[s]["net"]].net = Head(stream[s + 1])]
  /\ Advance(s, "net")
  /\ UNCHANGED <<metaVars, cmds, mgrVars, finishedSem, readFd, writeFd, files>>

\* codingWorker, slaveCodingWorker
Code(s) ==
  LET b == bufIdx[s]["coder"]
  IN /\ ~curBlockDone[s]
     /\ WaitPost(s, WaitsFor(s, "coder"), {"codingDone"})
     /\ buf' = [buf EXCEPT ![s][b].result =
                  <<buf[s][b].local>> \o (IF IsLast(s) THEN <<>> ELSE buf[s][b].net)]
     /\ Advance(s, "coder")
     /\ UNCHANGED <<metaVars, linkVars, mgrVars, finishedSem, readFd, writeFd, files>>

\* What the writer has written is free for the manager.
Written(s) ==
  /\ ~curBlockDone[s]
  /\ WaitPost(s, WaitsFor(s, "writer"), {})
  /\ finishedSem' = [finishedSem EXCEPT ![s][bufIdx[s]["writer"]] = @ + 1]
  /\ Advance(s, "writer")

\* slaveNetWriteWorker
NetWrite(s) ==
  /\ s > 0 /\ Written(s)
  /\ stream' = [stream EXCEPT ![s] = Append(@, buf[s][bufIdx[s]["writer"]].result)]
  /\ UNCHANGED <<metaVars, cmds, mgrVars, buf, readFd, writeFd, files>>

\* diskWriteWorker
DiskWrite ==
  LET fd == IF writeFd = 0 THEN task[0] ELSE writeFd
  IN /\ Written(0)
     /\ writeFd' = fd
     /\ files' = [files EXCEPT ![fd] = Append(@, buf[0][bufIdx[0]["writer"]].result)]
     /\ UNCHANGED <<metaVars, linkVars, mgrVars, buf, readFd>>

-----------------------------------------------------------------------------
Manager(s) == \/ s = 0 /\ StartMasterTask
              \/ s > 0 /\ (InitPPRSlaveTask(s) \/ GetPPRBlockTask(s))
              \/ Deal(s) \/ FinishBlock(s)
Work(s) == \/ \E w \in Workers : CloseBlock(s, w)
           \/ DiskRead(s) \/ NetRead(s) \/ Code(s) \/ NetWrite(s)
Chain == ReportBlockOver \/ DiskWrite \/ \E s \in Servers : Manager(s) \/ Work(s)

\* The session: the slaves wait for a TaskOver that nothing sends.
AllDone == reported = TasksOf(chain) /\ UNCHANGED vars

Next == Chain \/ AllDone \/ \E n \in 1 .. MaxPieces : InitPPRTask(n)

Spec == Init /\ [][Next]_vars

\* The threads run; ECMeta need not have another task.
FairSpec == Spec /\ WF_vars(Chain)

-----------------------------------------------------------------------------
(* Properties *)

\* Every variable holds a value of its kind; checked with PiecesRebuilt.
TypeOK ==
  /\ chain \in 2 .. MaxServers /\ pieces \in Seq(1 .. MaxPieces)
  /\ group \in Nat /\ reported \in Nat /\ waitingJobSem \in Nat /\ pipe \in BOOLEAN
  /\ cmds \in [AllServers -> Seq(Nat)] /\ stream \in [AllServers -> Seq(Seq(Piece))]
  /\ slaveState \in [AllServers -> {"uninit", "waiting", "handling"}]
  /\ task \in [AllServers -> Nat] /\ curBlockDone \in [AllServers -> BOOLEAN]
  /\ pending \in [AllServers -> Nat] /\ mgrIdx \in [AllServers -> Bufs]
  /\ mgrPc \in [AllServers -> {"wait", "deal", "drain"}]
  /\ inUse \in [AllServers -> [Bufs -> BOOLEAN]]
  /\ finishedSem \in [AllServers -> [Bufs -> Nat]] /\ sem \in [AllServers -> [Sems -> Nat]]
  /\ bufIdx \in [AllServers -> [Workers -> Bufs]]
  /\ buf \in [AllServers -> [Bufs -> [local : Piece, net : Seq(Piece), result : Seq(Piece)]]]
  /\ readFd \in [AllServers -> Piece] /\ writeFd \in Nat
  /\ files \in [1 .. MaxTasks -> Seq(Seq(Piece))]

\* What a rebuilt piece must be: the sum of that piece of every source block.
Rebuilt(t, i) == [k \in 1 .. chain |-> <<t, i>>]

\* The tasks whose pieces meet at all servers.  The coders of the slaves keep
\* their position from block to block, and those in the middle a token too.
Aligned(t) ==
  t <= 1 \/ (chain = 2 /\ \A u \in 1 .. t - 1 : pieces[u] % NumBufs = 0)

\* The lost block is rebuilt piece by piece from the same pieces of every source,
\* however far the servers of the chain are ahead of each other: for the first
\* block, and in the circumstances of Aligned for the others.  The master's own
\* share is right in every block.
PiecesRebuilt ==
  /\ TypeOK
  /\ \A t \in 1 .. MaxTasks : \A i \in 1 .. Len(files[t]) :
       /\ files[t][i][1] = <<t, i>>
       /\ Aligned(t) => files[t][i] = Rebuilt(t, i)

\* The same of every block, which does not hold (PPRSecondBlock.cfg).
AllPiecesRebuilt ==
  \A t \in 1 .. MaxTasks : \A i \in 1 .. Len(files[t]) : files[t][i] = Rebuilt(t, i)

\* The file of a task reported to ECMeta is complete.  An aligned one is over in
\* the whole chain: no result is left in a socket for the next task to take for
\* its own, and no buffer of any server is waiting to be written.
ReportedIsOver ==
  /\ \A t \in 1 .. reported : Len(files[t]) = pieces[t]
  /\ group = 0 /\ Aligned(reported) => \A s \in Servers :
       /\ stream[s] = <<>>
       /\ \A b \in Bufs : inUse[s][b] => finishedSem[s][b] > 0

\* Every task ECMeta sends is reported in the end, aligned or not.
TasksReported == \A t \in 1 .. MaxTasks : Len(pieces) = t ~> reported = t
=============================================================================
