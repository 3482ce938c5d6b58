--------------------------- MODULE BlockServerDisk ---------------------------
(***************************************************************************)
(* The clients of a block server and their blocks (ECServer:               *)
(* ClientHandle.c, ECClientHandle.c, DiskJobQueue.c, DiskJobWorker.c,      *)
(* DiskIOHandler.c).                                                       *)
(*                                                                         *)
(* Four threads share the table of open files and the disk jobs: one       *)
(* accepts connections, the client manager carries out requests and sends  *)
(* answers, the disk worker reads, and the meta thread deletes blocks.     *)
(* Writing is done by the client manager itself; a read becomes disk jobs  *)
(* that travel manager -> worker -> manager and point to their client, to  *)
(* a row of the table and, through it, to a file descriptor.               *)
(*                                                                         *)
(* Sizes are counted in disk job buffers.  Piece i of block b is <<b, i>>. *)
(* Requests arrive whole; ECClientLib's side is in BlockWorkerPool.         *)
(***************************************************************************)
EXTENDS Integers, Sequences, FiniteSets

CONSTANTS
  Conns,        \* ECClient_t objects, one per accepted connection
  Socks,        \* socket numbers; accept reuses the closed ones
  Blocks,
  BlockLen,     \* pieces of a complete block
  Stored,       \* blocks that are complete on disk at the start
  Rows,         \* rows of the table of open files, DISK_IO_PTR_SIZE
  Fds,          \* descriptors the operating system hands out
  Window,       \* pieces a client has asked for and not received, at most
  ReadSizes,    \* sizes of read requests
  JobStep,      \* disk jobs allocated at once
  PipeCap,      \* bytes the worker's pipe holds, 65536 on Linux
  MaxJobs,      \* bound: disk jobs of a behaviour
  MishapJobs,   \* bound: disk jobs of a behaviour with a mishap, which is of one
                \* kind; nothing is claimed of reads after it
  Stale         \* what a buffer holds that was not read into

ASSUME SizesAssumption ==
  /\ BlockLen \in Nat /\ Window \in Nat /\ PipeCap \in Nat /\ {MaxJobs, MishapJobs} \subseteq Nat
  /\ JobStep \in Nat \ {0}
  /\ ReadSizes \subseteq 1 .. BlockLen
ASSUME SetsAssumption == Stored \subseteq Blocks /\ Rows \subseteq Nat /\ Fds \subseteq Nat \ {0}

VARIABLES
  conn, sock,    \* state of each ECClient_t, its sockFd
  hungUp,        \* the other side has closed the connection
  file,          \* the block and the BlockFd the client was given
  asked, got,    \* pieces asked for, pieces received from the open block
  table,         \* diskIOPtrs where diskIOIndicators is 1
  fds,           \* open files of the process: block and offset
  disk, stored,  \* which blocks have a name on disk, pieces in each
  doomed,        \* blocks that ECMeta has asked to delete
  workQ, handleQ,       \* comingJobQueue, handlingJobQueue of the worker
  doneQ, mgrQ,          \* comingJobQueue, handlingJobQueue of the manager
  jobNum, allocNum,     \* jobs in use, diskJobAllocNum
  moved,         \* realloc has moved the memory of the jobs: all pointers to
                 \* jobs in use dangle, and behaviours end
  mgrPipe, workerPipe,  \* a byte waits for the manager; bytes in the worker's
  mgr,           \* the manager: "runs", "inPut" (in write() to the worker's full
                 \* pipe, workerLock held) or "inWrite" (repeats a failing writeFile)
  worker,        \* the disk worker: what it does, its job, its descriptor
  mishaps        \* history, for the properties: "hasty", a client closed or hung
                 \* up before it had received all it asked for, as ECClientLib
                 \* never does; "openDeleted", ECMeta deleted a block in use

connVars == <<conn, sock, hungUp>>
useVars  == <<file, asked, got>>
fileVars == <<table, fds, disk, stored, doomed>>
poolVars == <<jobNum, allocNum, moved>>
pipeVars == <<mgrPipe, workerPipe, mgr>>
mgrVars  == <<doneQ, mgrQ>>
workVars == <<workQ, handleQ, worker>>
vars == <<connVars, useVars, fileVars, poolVars, pipeVars, mgrVars, workVars, mishaps>>

Closed == [block |-> "none"]
Free   == [block |-> "none"]
NoFile == [mode |-> "none"]
Idle   == [pc |-> "idle"]

Init ==
  /\ conn = [c \in Conns |-> "unborn"] /\ sock = [c \in Conns |-> 0]
  /\ hungUp = [c \in Conns |-> FALSE]
  /\ file = [c \in Conns |-> NoFile]
  /\ asked = [c \in Conns |-> 0] /\ got = [c \in Conns |-> <<>>]
  /\ table = [r \in Rows |-> Free] /\ fds = [f \in Fds |-> Closed]
  /\ disk = Stored
  /\ stored = [b \in Blocks |-> IF b \in Stored THEN BlockLen ELSE 0]
  /\ doomed = {}
  /\ workQ = <<>> /\ handleQ = <<>> /\ doneQ = <<>> /\ mgrQ = <<>>
  /\ jobNum = 0 /\ allocNum = JobStep /\ moved = FALSE
  /\ mgrPipe = FALSE /\ workerPipe = 0 /\ mgr = "runs"
  /\ worker = Idle
  /\ mishaps = {}

Alive(c) == conn[c] \in {"coming", "monitored"}

\* The rows that are not in use, as startWriteFile and startReadFile look for them.
FreeRows == {r \in Rows : table[r] = Free}

Lowest(S) == CHOOSE x \in S : \A y \in S : x <= y

-----------------------------------------------------------------------------
(* Connections *)

\* accept_client_conn and addComingECClient.
Accept(c) ==
  /\ conn[c] = "unborn"
  /\ \E s \in Socks : /\ \A d \in Conns : Alive(d) => sock[d] # s
                      /\ sock' = [sock EXCEPT ![c] = s]
  /\ conn' = [conn EXCEPT ![c] = "coming"]
  /\ mgrPipe' = TRUE
  /\ UNCHANGED <<hungUp, useVars, fileVars, poolVars, workerPipe, mgr, mgrVars, workVars, mishaps>>

Note(m, happens) ==
  /\ happens => workerPipe <= MishapJobs /\ mishaps \subseteq {m}
  /\ mishaps' = IF happens THEN mishaps \cup {m} ELSE mishaps

HangUp(c) ==
  /\ Alive(c) /\ ~hungUp[c]
  /\ hungUp' = [hungUp EXCEPT ![c] = TRUE]
  /\ Note("hasty", asked[c] # Len(got[c]))
  /\ UNCHANGED <<conn, sock, useVars, fileVars, poolVars, pipeVars, mgrVars, workVars>>

\* The manager is in epoll_wait: no answer left to send, not held up.
MgrReady == mgrQ = <<>> /\ mgr = "runs"
Requests(c) == MgrReady /\ conn[c] = "monitored" /\ ~hungUp[c]

\* An event on the manager's pipe: addNewClients and handleDiskIOResponse.
PipeEvent ==
  /\ MgrReady /\ mgrPipe
  /\ mgrPipe' = FALSE
  /\ conn' = [c \in Conns |-> IF conn[c] = "coming" THEN "monitored" ELSE conn[c]]
  /\ mgrQ' = doneQ /\ doneQ' = <<>>
  /\ UNCHANGED <<sock, hungUp, useVars, fileVars, poolVars, workerPipe, mgr, workVars, mishaps>>

\* The rows and descriptors after closing the rows R.
CloseRows(R) ==
  /\ table' = [r \in Rows |-> IF r \in R THEN Free ELSE table[r]]
  /\ fds' = [f \in Fds |-> IF \E r \in R : table[r] # Free /\ table[r].fd = f
                             THEN Closed ELSE fds[f]]

RowsOfSock_None(s) == {}

\* closeFileBySockFd
RowsOfSock(s) == {r \in Rows : table[r] # Free /\ table[r].sock = s}

\* recv returns 0: removeClient closes the client's files and its socket and
\* frees the client.  Jobs of the client stay where they are.
RemoveClient(c) ==
  /\ MgrReady /\ conn[c] = "monitored" /\ hungUp[c]
  /\ CloseRows(RowsOfSock(sock[c]))
  /\ conn' = [conn EXCEPT ![c] = "freed"]
  /\ file' = [file EXCEPT ![c] = NoFile]
  /\ UNCHANGED <<sock, hungUp, asked, got, disk, stored, doomed, poolVars, pipeVars, mgrVars, workVars, mishaps>>

-----------------------------------------------------------------------------
(* Requests, carried out by the client manager *)

\* A row and a descriptor for block b, given to client c.
TakeRow(c, b, mode) ==
  LET r == Lowest(FreeRows)
      f == Lowest({g \in Fds : fds[g] = Closed})
  IN /\ table' = [table EXCEPT ![r] = [block |-> b, sock |-> sock[c], fd |-> f]]
     /\ fds' = [fds EXCEPT ![f] = [block |-> b, off |-> 0]]
     /\ file' = [file EXCEPT ![c] = [mode |-> mode, block |-> b, row |-> r]]
     /\ asked' = [asked EXCEPT ![c] = 0] /\ got' = [got EXCEPT ![c] = <<>>]

\* BlockCreate: startWriteFile.  A client creates a block that is new to the
\* server, and gets CreateFailed when the table is full.
CreateBlock(c, b) ==
  /\ Requests(c) /\ file[c] = NoFile
  /\ b \notin disk /\ stored[b] = 0 /\ b \notin doomed
  /\ FreeRows # {} /\ TakeRow(c, b, "w")
  /\ disk' = disk \cup {b}
  /\ UNCHANGED <<connVars, stored, doomed, poolVars, pipeVars, mgrVars, workVars, mishaps>>

\* BlockOpen: startReadFile, for a block with a name on disk.
OpenBlock(c, b) ==
  /\ Requests(c) /\ file[c] = NoFile
  /\ b \in disk /\ b \notin doomed
  /\ stored[b] = BlockLen
  /\ FreeRows # {} /\ TakeRow(c, b, "r")
  /\ UNCHANGED <<connVars, disk, stored, doomed, poolVars, pipeVars, mgrVars, workVars, mishaps>>

OwnsRow(c, r) == table[r] # Free /\ table[r].sock = sock[c]

\* BlockWrite and its data: writeDataToDisk repeats writeFile until all is
\* written, for ever when the row is no longer the client's.
WritePiece(c) ==
  /\ Requests(c) /\ file[c].mode = "w" /\ stored[file[c].block] < BlockLen
  /\ IF OwnsRow(c, file[c].row)
       THEN stored' = [stored EXCEPT ![file[c].block] = @ + 1] /\ UNCHANGED mgr
       ELSE mgr' = "inWrite" /\ UNCHANGED stored
  /\ UNCHANGED <<connVars, useVars, table, fds, disk, doomed, poolVars, mgrPipe, workerPipe, mgrVars, workVars, mishaps>>

\* requestDiskJob, until n jobs are in use: when no job is idle the memory of
\* all jobs grows by JobStep jobs, and realloc may move it.
Grown(n) == IF n <= allocNum THEN allocNum
            ELSE allocNum + JobStep * ((n - allocNum + JobStep - 1) \div JobStep)

JobsOf_OneMore(c, n) == [i \in 1 .. n + 1 |-> [conn |-> c, row |-> file[c].row, data |-> Stale]]

\* A disk job per job buffer of a request.
JobsOf(c, n) == [i \in 1 .. n |-> [conn |-> c, row |-> file[c].row, data |-> Stale]]

\* putDiskIOJob: the job, then a byte for the worker.  The worker never takes
\* bytes out of its pipe, and write() waits while the pipe is full.
PutDiskIOJob(js) == workQ' = workQ \o js

\* BlockRead: submitReadJobToDiskWorker makes a job per job buffer.
ReadBlock(c, n) ==
  /\ Requests(c) /\ file[c].mode = "r"
  /\ asked[c] + n - Len(got[c]) <= Window
  /\ asked[c] + n <= BlockLen
  /\ workerPipe + n <= IF mishaps = {} THEN MaxJobs ELSE MishapJobs
  /\ asked' = [asked EXCEPT ![c] = @ + n]
  /\ LET full == workerPipe + n > PipeCap
         k == IF full THEN PipeCap - workerPipe + 1 ELSE n
     IN /\ PutDiskIOJob(JobsOf(c, k))
        /\ jobNum' = jobNum + k /\ allocNum' = Grown(jobNum + k)
        /\ moved' \in IF Grown(jobNum + k) = allocNum THEN {FALSE} ELSE {FALSE, TRUE}
        /\ mgr' = IF full THEN "inPut" ELSE mgr
        /\ workerPipe' = IF full THEN PipeCap ELSE workerPipe + n
  /\ UNCHANGED <<connVars, file, got, fileVars, mgrPipe, mgrVars, handleQ, worker, mishaps>>

RowsToClose_OfBlock(c) ==
  {r \in Rows : table[r] # Free /\ table[r].block = file[c].block}

\* closeFile(BlockFd): whoever holds the row.
RowsToClose(c) == {file[c].row}

\* BlockClose
CloseBlock(c) ==
  /\ Requests(c) /\ file[c] # NoFile
  /\ Note("hasty", asked[c] # Len(got[c]))
  /\ CloseRows(RowsToClose(c))
  /\ file' = [file EXCEPT ![c] = NoFile]
  /\ asked' = [asked EXCEPT ![c] = 0] /\ got' = [got EXCEPT ![c] = <<>>]
  /\ UNCHANGED <<connVars, disk, stored, doomed, poolVars, pipeVars, mgrVars, workVars>>

\* revokeDiskJob
JobDone == jobNum' = jobNum - 1

\* writeClientReadContent sends what the job's buffer holds.  The memory of a
\* client that was freed is used all the same; no client receives the data.
AnswerClient ==
  /\ mgrQ # <<>> /\ mgr = "runs"
  /\ LET j == Head(mgrQ) IN
       got' = IF Alive(j.conn) /\ file[j.conn] # NoFile
                THEN [got EXCEPT ![j.conn] = Append(@, j.data)] ELSE got
  /\ mgrQ' = Tail(mgrQ) /\ JobDone
  /\ UNCHANGED <<connVars, file, asked, fileVars, allocNum, moved, pipeVars, doneQ, workVars, mishaps>>

-----------------------------------------------------------------------------
(* The disk worker *)

\* performComingDiskIOJobs, under workerLock
TakeJobs ==
  /\ worker = Idle /\ handleQ = <<>> /\ workQ # <<>>
  /\ workerPipe > 0 /\ mgr # "inPut"
  /\ handleQ' = workQ /\ workQ' = <<>>
  /\ UNCHANGED <<connVars, useVars, fileVars, poolVars, pipeVars, mgrVars, worker, mishaps>>

StartJob ==
  /\ worker = Idle /\ handleQ # <<>>
  /\ worker' = [pc |-> "look", job |-> Head(handleQ)]
  /\ handleQ' = Tail(handleQ)
  /\ UNCHANGED <<connVars, useVars, fileVars, poolVars, pipeVars, mgrVars, workQ, mishaps>>

\* The sockFd of the job's client; of a freed client, what its memory holds now.
SockFdOf(j) == IF conn[j.conn] = "freed" THEN Socks ELSE {sock[j.conn]}

\* readFile without a lock: first the checks and the row's descriptor.  When
\* they fail, the file's size and offset fail alike, both are -1, and the job
\* counts as having read the whole file.
LookUpRow ==
  /\ worker.pc = "look"
  /\ \E s \in SockFdOf(worker.job) :
       LET row == table[worker.job.row] IN
         worker' = IF row # Free /\ row.sock = s
                     THEN [pc |-> "read", job |-> worker.job, fd |-> row.fd]
                     ELSE [worker EXCEPT !.pc = "done"]
  /\ UNCHANGED <<connVars, useVars, fileVars, poolVars, pipeVars, mgrVars, workQ, handleQ, mishaps>>

\* What read() puts into the buffer.
ReadAt(f) == <<fds[f].block, fds[f].off + 1>>

\* ... then read() from the descriptor, whatever it stands for by then.  A
\* failed read starts over: the checks may pass now or fail.
ReadFile ==
  /\ worker.pc = "read"
  /\ LET f == worker.fd IN
       IF fds[f] # Closed /\ fds[f].off < stored[fds[f].block]
         THEN /\ worker' = [pc |-> "done", job |-> [worker.job EXCEPT !.data = ReadAt(f)]]
              /\ fds' = [fds EXCEPT ![f].off = @ + 1]
         ELSE /\ worker' = [pc |-> "look", job |-> worker.job]
              /\ UNCHANGED fds
  /\ UNCHANGED <<connVars, useVars, table, disk, stored, doomed, poolVars, pipeVars, mgrVars, workQ, handleQ, mishaps>>

EnqueueDone_AtHead(j) == doneQ' = <<j>> \o doneQ

\* enqueueDiskJob(ecClientMgr->comingJobQueue, ...)
EnqueueDone(j) == doneQ' = Append(doneQ, j)

WakeMgr_NotWritten == UNCHANGED mgrPipe
WakeMgr == mgrPipe' = TRUE

\* submitReadDoneJob
SubmitReadDoneJob ==
  /\ worker.pc = "done"
  /\ EnqueueDone(worker.job)
  /\ WakeMgr
  /\ worker' = Idle
  /\ UNCHANGED <<connVars, useVars, fileVars, poolVars, workerPipe, mgr, mgrQ, workQ, handleQ, mishaps>>

-----------------------------------------------------------------------------
(* deleteFile, on behalf of ECMeta *)

RowsOfBlock(b) == {r \in Rows : table[r] # Free /\ table[r].block = b}

\* Under the lock, every open file of the block is closed ...
DeleteCloses(b) ==
  /\ b \in disk \ doomed
  /\ CloseRows(RowsOfBlock(b))
  /\ Note("openDeleted", RowsOfBlock(b) # {})
  /\ doomed' = doomed \cup {b}
  /\ UNCHANGED <<connVars, useVars, disk, stored, poolVars, pipeVars, mgrVars, workVars>>

\* ... and after it the file is removed.
DeleteRemoves(b) ==
  /\ b \in doomed \cap disk
  /\ disk' = disk \ {b}
  /\ UNCHANGED <<connVars, useVars, table, fds, stored, doomed, poolVars, pipeVars, mgrVars, workVars, mishaps>>

-----------------------------------------------------------------------------
Client(c) ==
  \/ Accept(c) \/ HangUp(c) \/ CloseBlock(c)
  \/ \E b \in Blocks : CreateBlock(c, b) \/ OpenBlock(c, b)
  \/ \E n \in ReadSizes : ReadBlock(c, n)
  \/ WritePiece(c) \/ RemoveClient(c)

Worker == TakeJobs \/ StartJob \/ LookUpRow \/ ReadFile \/ SubmitReadDoneJob

Next ==
  /\ ~moved
  /\ \/ \E c \in Conns : Client(c)
     \/ PipeEvent \/ AnswerClient \/ Worker
     \/ \E b \in Blocks : DeleteCloses(b) \/ DeleteRemoves(b)

Spec == Init /\ [][Next]_vars

\* As long as the manager or the worker has something to do, one of them does
\* it; nothing is asked of clients and of ECMeta.
FairSpec == Spec /\ WF_vars(~moved /\ (PipeEvent \/ AnswerClient \/ Worker))

-----------------------------------------------------------------------------
(* Properties *)

Pieces == Blocks \X (1 .. BlockLen) \cup {Stale}
Jobs == [conn : Conns, row : Rows, data : Pieces]

\* Every variable holds a value of its kind; checked with RowsHaveOwners.
TypeOK ==
  /\ conn \in [Conns -> {"unborn", "coming", "monitored", "freed"}]
  /\ sock \in [Conns -> Socks \cup {0}] /\ hungUp \in [Conns -> BOOLEAN]
  /\ file \in [Conns -> {NoFile} \cup [mode : {"r", "w"}, block : Blocks, row : Rows]]
  /\ asked \in [Conns -> 0 .. BlockLen] /\ got \in [Conns -> Seq(Pieces)]
  /\ table \in [Rows -> {Free} \cup [block : Blocks, sock : Socks, fd : Fds]]
  /\ fds \in [Fds -> {Closed} \cup [block : Blocks, off : 0 .. BlockLen]]
  /\ disk \in SUBSET Blocks /\ stored \in [Blocks -> 0 .. BlockLen] /\ doomed \in SUBSET Blocks
  /\ workQ \in Seq(Jobs) /\ handleQ \in Seq(Jobs)
  /\ doneQ \in Seq(Jobs) /\ mgrQ \in Seq(Jobs)
  /\ jobNum \in Nat /\ allocNum \in Nat /\ moved \in BOOLEAN
  /\ mgrPipe \in BOOLEAN /\ workerPipe \in 0 .. PipeCap
  /\ mgr \in {"runs", "inPut", "inWrite"}
  /\ mishaps \subseteq {"hasty", "openDeleted"}
  /\ worker \in {Idle} \cup [pc : {"look", "done"}, job : Jobs]
                \cup [pc : {"read"}, job : Jobs, fd : Fds]

\* The jobs in use, wherever they are.
JobsIn(q) == {q[i] : i \in 1 .. Len(q)}
JobsInUse == JobsIn(workQ \o handleQ \o doneQ \o mgrQ)
               \cup (IF worker = Idle THEN {} ELSE {worker.job})

\* What a reader receives is the block from its first piece on, in order and
\* with nothing left out, though its reads pass two threads and four queues
\* and share rows, descriptors and job buffers with everybody else's: the
\* lookup without a lock finds the file the job was made for.
ServedInOrder ==
  mishaps = {} =>
    \A c \in Conns : file[c] # NoFile =>
      \A i \in 1 .. Len(got[c]) : got[c][i] = <<file[c].block, i>>

\* Clients that have a block open for reading.
Readers == {c \in Conns : file[c] # NoFile /\ file[c].mode = "r"}

\* A job points to a client that is still there and still has the file open
\* that the job is for: sourcePtr and diskFd are not stale.  removeClient and
\* closeFile do not look for jobs; clients that wait for their answers, and
\* ECMeta, which deletes blocks nobody has open, make it so.  And the pointers to
\* jobs dangle only while the readers connected together may have more pieces
\* outstanding than there were jobs at the start: every job comes back, from
\* readers that closed or left too, and none is taken in vain.
JobsHaveTheirClient ==
  mishaps = {} =>
    /\ ~moved =>
         \A j \in JobsInUse : Alive(j.conn) /\ file[j.conn] # NoFile /\ file[j.conn].row = j.row
    /\ moved => Cardinality(Readers) * Window > JobStep

\* BlockFd stands for the file the client opened as long as it has it open:
\* nobody else closes or gets the row, or its descriptor.  closeFile does not
\* ask whose row it closes.
HoldsItsFile ==
  "openDeleted" \notin mishaps =>
    \A c \in Conns : file[c] # NoFile =>
      LET r == file[c].row IN
        /\ OwnsRow(c, r) /\ table[r].block = file[c].block
        /\ fds[table[r].fd] # Closed /\ fds[table[r].fd].block = file[c].block
        /\ \A d \in Conns \ {c} : file[d] # NoFile => file[d].row # r

\* No row of the table is lost, whatever clients and ECMeta do: each in use was
\* given to a connected client that still has its file, and descriptors are
\* open for rows only.
RowsHaveOwners ==
  /\ TypeOK
  /\ \A r \in Rows : table[r] # Free =>
       \E c \in Conns : /\ Alive(c) /\ sock[c] = table[r].sock
                        /\ file[c] # NoFile /\ file[c].row = r
  /\ \A f \in Fds : fds[f] # Closed => \E r \in Rows : table[r] # Free /\ table[r].fd = f

\* Every piece a client asked for arrives unless the client hangs up or the
\* memory of the jobs moves.
ReadsAnswered ==
  \A c \in Conns : asked[c] > 0 ~> (asked[c] = Len(got[c]) \/ hungUp[c] \/ moved \/ mishaps # {})

\* A job is answered only with what was read for it: not so when ECMeta deletes
\* the block in between (BlockServerDelete.cfg).
AnsweredWithData == \A j \in JobsIn(doneQ \o mgrQ) : j.data # Stale

=============================================================================
