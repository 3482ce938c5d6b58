--------------------------- MODULE MetaNamespace ---------------------------
(***************************************************************************)
(* The name service of ECMeta: the client thread that owns the connections *)
(* (ECClientManagement.c, ECClientCmdHandle.c), the key-value worker that  *)
(* owns the names (KeyValueWorker.c, KeyValueEngine.c, ECJob.c,            *)
(* BlockManagement.c) and the block-server manager that carries out        *)
(* deletions (BlockServer.c, BlockServersManagement.c).                    *)
(*                                                                         *)
(* The threads share nothing but job queues.  A job goes client thread ->  *)
(* worker -> client thread; that of a file being deleted makes a detour    *)
(* worker -> block manager -> servers -> block manager -> worker.  Each    *)
(* pending queue is a LIFO list emptied into a second LIFO list and is a   *)
(* FIFO here.  One client thread and one worker stand for the eight of     *)
(* each: their connections and names are disjoint.                         *)
(*                                                                         *)
(* An item (one file) is named by its only block group.  Block b of every  *)
(* group is on server b; its size is kept as zero or not.                  *)
(***************************************************************************)
EXTENDS Integers, Sequences, FiniteSets, SequencesExt

CONSTANTS
  Sessions,        \* connections made by clients, over time
  FilesOf,         \* the names each session works on
  NumSlots,        \* CLIENT_CONN_SIZE - 1
  StripeK, StripeM,
  MaxCmds          \* bound: commands of each session

ASSUME FilesOfAssumption == DOMAIN FilesOf = Sessions
ASSUME StripeAssumption == StripeK \in Nat \ {0} /\ StripeM \in Nat
ASSUME BoundsAssumption == NumSlots \in Nat \ {0} /\ MaxCmds \in [Sessions -> Nat]

Files == UNION {FilesOf[s] : s \in Sessions}
Slots == 1 .. NumSlots
Blocks == 0 .. StripeK + StripeM - 1
Mishaps == {"slotReused", "wildItem", "deleteLost", "wrongJob"}
Kinds == {"Create", "Open", "WriteOver", "Delete", "DeleteDone"}
NoGroup == 0
NoConn == "none"

VARIABLES
  conn,       \* clientConn by slot: its session, NoConn when the slot is free
  session,    \* per session: state, number of commands sent, commands not
              \* yet answered, files it has open
  replies,    \* per session: the replies it received, as <<session, command>>
  clientQ,    \* incomingJobQueue, writeJobQueue
  workerQ,    \* the worker's pendingJobQueue, handlingJobQueue
  mgrQ,       \* the block manager's pendingJobQueue, handlingJobQueue
  inProcess,  \* inProcessingJobQueue, head first
  groupOf,    \* the names: file to group, NoGroup when there is no such file
  filled,     \* per group ever used: blocks with blockSize > 0
  freeGroups, \* blockGroups[thIdx], head first
  active,     \* activeServers
  deleting,   \* per server: DeleteBlock commands not answered, oldest first
  leftItems,  \* items named by job memory that has been freed
  crashed,    \* the server has followed a wild pointer
  mishaps     \* history, for the properties: a slot was taken again with a job
              \* of its former connection under way; a deletion took the item
              \* that was left in its memory; a server failed with DeleteBlock
              \* commands unanswered; a deletion was taken for another one of
              \* a file of the same name

clientVars == <<conn, session, replies>>
nameVars == <<groupOf, filled, freeGroups>>
mgrVars == <<mgrQ, inProcess, active, deleting>>
vars == <<clientVars, clientQ, workerQ, nameVars, mgrVars, leftItems, crashed, mishaps>>

Jobs == [by : Sessions, no : Nat, kind : Kinds, file : Files, slot : Slots,
         item : Nat, num : Int, ok : BOOLEAN]

Init ==
  /\ conn = [i \in Slots |-> NoConn]
  /\ session = [s \in Sessions |-> [state |-> "new", sent |-> 0, waiting |-> {}, opened |-> {}]]
  /\ replies = [s \in Sessions |-> <<>>]
  /\ clientQ = <<>> /\ workerQ = <<>> /\ mgrQ = <<>> /\ inProcess = <<>>
  /\ groupOf = [f \in Files |-> NoGroup] /\ filled = <<>> /\ freeGroups = <<>>
  /\ active = Blocks /\ deleting = [b \in Blocks |-> <<>>]
  /\ leftItems = {} /\ crashed = FALSE /\ mishaps = {}

InFlight == ToSet(clientQ) \cup ToSet(workerQ) \cup ToSet(mgrQ) \cup ToSet(inProcess)

-----------------------------------------------------------------------------
(* Clients and the client thread *)

\* threadMonitorNewConnection takes the first free slot.
FreeSlot(i) == conn[i] = NoConn /\ \A j \in 1 .. i - 1 : conn[j] # NoConn

ThreadMonitorNewConnection(s) ==
  /\ ~crashed /\ session[s].state = "new"
  /\ \E i \in Slots :
       /\ FreeSlot(i)
       /\ conn' = [conn EXCEPT ![i] = s]
       /\ mishaps' = mishaps \cup {m \in {"slotReused"} : \E job \in InFlight : job.slot = i}
  /\ session' = [session EXCEPT ![s].state = "open"]
  /\ UNCHANGED <<replies, clientQ, workerQ, nameVars, mgrVars, leftItems, crashed>>

\* removeConnection: the client has hung up, perhaps before it was answered.
RemoveConnection(i) ==
  /\ ~crashed /\ conn[i] # NoConn
  /\ session' = [session EXCEPT ![conn[i]].state = "closed"]
  /\ conn' = [conn EXCEPT ![i] = NoConn]
  /\ UNCHANGED <<replies, clientQ, workerQ, nameVars, mgrVars, leftItems, crashed, mishaps>>

\* ECClientLib waits for the answer to each command, but deleteFiles sends all
\* its commands first, and WriteOver, sent when a written file is closed, has
\* no answer.
MaySend(s, kind, f) ==
  \/ kind \in {"Create", "Open"} /\ session[s].waiting = {}
  \/ kind = "WriteOver" /\ session[s].waiting = {} /\ f \in session[s].opened
  \/ /\ kind = "Delete"
     /\ \A cmd \in session[s].waiting : cmd.kind = "Delete" /\ cmd.file # f

\* processRecvdCmd, recvWriteOverCmd: make a job for the worker.
ProcessRecvdCmd(i, kind, f) ==
  LET s == conn[i]
      no == session[s].sent + 1
  IN /\ ~crashed /\ s # NoConn
     /\ no <= MaxCmds[s] /\ f \in FilesOf[s] /\ MaySend(s, kind, f)
     /\ session' = [session EXCEPT
          ![s].sent = no,
          ![s].waiting = IF kind = "WriteOver" THEN @
                         ELSE @ \cup {[no |-> no, kind |-> kind, file |-> f]},
          ![s].opened = IF kind \in {"WriteOver", "Delete"} THEN @ \ {f} ELSE @]
     /\ workerQ' = Append(workerQ, [by |-> s, no |-> no, kind |-> kind, file |-> f, slot |-> i,
                                    item |-> NoGroup, num |-> 0, ok |-> FALSE])
     /\ UNCHANGED <<conn, replies, clientQ, nameVars, mgrVars, leftItems, crashed, mishaps>>

Recipient_FirstConn(job) == conn[1]

Recipient(job) == conn[job.slot]

\* startWriteJob: the answer goes to whoever holds the slot now; "dump job
\* since conn is dealloced".  The job's memory is freed as it is.
StartWriteJob ==
  /\ ~crashed /\ clientQ # <<>>
  /\ clientQ' = Tail(clientQ)
  /\ LET job == Head(clientQ)
         s == Recipient(job)
     IN /\ leftItems' = leftItems \cup ({job.item} \ {NoGroup})
        /\ IF s = NoConn \/ job.kind = "WriteOver"
             THEN UNCHANGED <<session, replies>>
             ELSE /\ replies' = [replies EXCEPT ![s] = Append(@, <<job.by, job.no>>)]
                  /\ session' = [session EXCEPT
                       ![s].waiting = {cmd \in @ : cmd.no # job.no},
                       ![s].opened = IF job.ok THEN @ \cup {job.file} ELSE @]
  /\ UNCHANGED <<conn, workerQ, nameVars, mgrVars, crashed, mishaps>>

-----------------------------------------------------------------------------
(* The key-value worker: performWorkerJob *)

WorkerTakes(kind) ==
  /\ ~crashed /\ workerQ # <<>> /\ Head(workerQ).kind = kind
  /\ workerQ' = Tail(workerQ)

\* writeJobFeedBack
Answer(job) == clientQ' = Append(clientQ, job)

NewGroup == Len(filled) + 1

\* insertKeyItem: requestBlockGroup reuses the last revoked group as it is,
\* its block sizes included.
PerformCreateJob ==
  /\ WorkerTakes("Create")
  /\ LET job == Head(workerQ)
     IN IF groupOf[job.file] # NoGroup
          THEN Answer(job) /\ UNCHANGED nameVars
          ELSE /\ Answer([job EXCEPT !.ok = TRUE])
               /\ IF freeGroups # <<>>
                    THEN /\ groupOf' = [groupOf EXCEPT ![job.file] = Head(freeGroups)]
                         /\ freeGroups' = Tail(freeGroups) /\ UNCHANGED filled
                    ELSE /\ groupOf' = [groupOf EXCEPT ![job.file] = NewGroup]
                         /\ filled' = Append(filled, {}) /\ UNCHANGED freeGroups
  /\ UNCHANGED <<clientVars, mgrVars, leftItems, crashed, mishaps>>

PerformOpenJob ==
  /\ WorkerTakes("Open")
  /\ LET job == Head(workerQ)
     IN Answer([job EXCEPT !.ok = groupOf[job.file] # NoGroup])
  /\ UNCHANGED <<clientVars, nameVars, mgrVars, leftItems, crashed, mishaps>>

\* itemIncreFileSize: data goes to the first blocks, parity to all of its own.
PerformWriteOverJob ==
  /\ WorkerTakes("WriteOver")
  /\ LET g == groupOf[Head(workerQ).file]
     IN IF g = NoGroup
          THEN UNCHANGED filled
          ELSE \E k \in 1 .. StripeK :
                 filled' = [filled EXCEPT ![g] = @ \cup {b \in Blocks : b < k \/ b >= StripeK}]
  /\ Answer(Head(workerQ))
  /\ UNCHANGED <<clientVars, groupOf, freeGroups, mgrVars, leftItems, crashed, mishaps>>

PerformDeleteJob_RevokesAtOnce ==
  /\ WorkerTakes("Delete")
  /\ LET job == Head(workerQ)
         item == groupOf[job.file]
     IN /\ groupOf' = [groupOf EXCEPT ![job.file] = NoGroup]
        /\ IF item = NoGroup
             THEN Answer(job) /\ UNCHANGED <<mgrQ, freeGroups>>
             ELSE /\ mgrQ' = Append(mgrQ, [job EXCEPT !.item = item]) /\ UNCHANGED clientQ
                  /\ freeGroups' = <<item>> \o freeGroups
  /\ UNCHANGED <<clientVars, filled, inProcess, active, deleting, leftItems, crashed, mishaps>>

\* deleteKeyValueItem and submitJobToBlockMgr.  When there is no such file
\* itemPtr is what malloc left in the job: nothing, or an item of a job before.
PerformDeleteJob ==
  /\ WorkerTakes("Delete")
  /\ LET job == Head(workerQ)
     IN \E item \in IF groupOf[job.file] # NoGroup THEN {groupOf[job.file]}
                                                   ELSE {NoGroup} \cup leftItems :
          /\ groupOf' = [groupOf EXCEPT ![job.file] = NoGroup]
          /\ IF item = NoGroup
               THEN Answer(job) /\ UNCHANGED mgrQ
               ELSE mgrQ' = Append(mgrQ, [job EXCEPT !.item = item]) /\ UNCHANGED clientQ
          /\ mishaps' = mishaps \cup {m \in {"wildItem"} : item # groupOf[job.file]}
  /\ UNCHANGED <<clientVars, filled, freeGroups, inProcess, active, deleting, leftItems, crashed>>

\* revokeItem, revokeBlockGroup
PerformDeleteDoneJob ==
  /\ WorkerTakes("DeleteDone")
  /\ Answer(Head(workerQ))
  /\ freeGroups' = <<Head(workerQ).item>> \o freeGroups
  /\ UNCHANGED <<clientVars, groupOf, filled, mgrVars, leftItems, crashed, mishaps>>

-----------------------------------------------------------------------------
(* The block-server manager *)

\* deleteBlockGroup: blocks that hold data, on active servers ...
BlocksToDelete(g) == filled[g] \cap active

NumToDelete_AllActive(g) == Cardinality(active)

\* ... each of which counts in inProcessingNum.
NumToDelete(g) == Cardinality(BlocksToDelete(g))

\* reportServersDeleteJobDone
ReturnToWorker(job) == workerQ' = Append(workerQ, [job EXCEPT !.kind = "DeleteDone"])

PerformDeleteBlocksJob ==
  /\ ~crashed /\ mgrQ # <<>>
  /\ mgrQ' = Tail(mgrQ)
  /\ LET job == Head(mgrQ)
     IN /\ deleting' = [b \in Blocks |-> IF b \in BlocksToDelete(job.item)
                                           THEN Append(deleting[b], job.item)
                                           ELSE deleting[b]]
        /\ IF NumToDelete(job.item) > 0
             THEN /\ inProcess' = <<[job EXCEPT !.num = NumToDelete(job.item)]>> \o inProcess
                  /\ UNCHANGED workerQ
             ELSE ReturnToWorker(job) /\ UNCHANGED inProcess
  /\ UNCHANGED <<clientVars, clientQ, nameVars, active, leftItems, crashed, mishaps>>

RemoveTheJobFromQueue_Head(queue, job) == Tail(queue)

\* jobHasTheBlock: the first job in process of a deletion of group g.
JobOf(g) == SelectInSeq(inProcess, LAMBDA job : job.item = g)

FirstOfTheName(queue, job) == SelectInSeq(queue, LAMBDA other : other.file = job.file)
PlaceOf(queue, job) == SelectInSeq(queue, LAMBDA other : other = job)

\* removeTheJobFromQueue goes by the key: it takes out the head if that has the
\* name, and else makes the job before the first of the name point behind the
\* given job.  With two deletions of one name neither need be the given job.
RemoveTheJobFromQueue(queue, job) ==
  LET first == FirstOfTheName(queue, job)
  IN IF first = 1
       THEN Tail(queue)
       ELSE SubSeq(queue, 1, first - 1) \o SubSeq(queue, PlaceOf(queue, job) + 1, Len(queue))

\* reportBlockDeletion: the answer of server b, DeleteOK or DeleteFailed, for
\* its oldest command.  With no job for the group the code goes on with the
\* pointer behind the last job.
ReportBlockDeletion(b) ==
  /\ ~crashed /\ deleting[b] # <<>>
  /\ deleting' = [deleting EXCEPT ![b] = Tail(@)]
  /\ LET pos == JobOf(Head(deleting[b]))
         job == [inProcess[pos] EXCEPT !.num = @ - 1]
         queue == [inProcess EXCEPT ![pos] = job]
     IN IF pos = 0
          THEN crashed' = TRUE /\ UNCHANGED <<inProcess, workerQ, mishaps>>
          ELSE /\ IF job.num = 0
                    THEN /\ inProcess' = RemoveTheJobFromQueue(queue, job)
                         /\ ReturnToWorker(job)
                         /\ mishaps' = mishaps \cup
                              {m \in {"wrongJob"} : FirstOfTheName(queue, job) # pos}
                    ELSE inProcess' = queue /\ UNCHANGED <<workerQ, mishaps>>
               /\ UNCHANGED crashed
  /\ UNCHANGED <<clientVars, clientQ, nameVars, mgrQ, active, leftItems>>

\* reportFailedBlockServer: the commands to the server and its answers are lost.
ReportFailedBlockServer(b) ==
  /\ ~crashed /\ b \in active
  /\ active' = active \ {b}
  /\ deleting' = [deleting EXCEPT ![b] = <<>>]
  /\ mishaps' = mishaps \cup {m \in {"deleteLost"} : deleting[b] # <<>>}
  /\ UNCHANGED <<clientVars, clientQ, workerQ, nameVars, mgrQ, inProcess, leftItems, crashed>>

-----------------------------------------------------------------------------
Clients ==
  \/ \E s \in Sessions : ThreadMonitorNewConnection(s)
  \/ \E i \in Slots : RemoveConnection(i)
  \/ \E i \in Slots, kind \in Kinds, f \in Files : ProcessRecvdCmd(i, kind, f)
Worker == \/ PerformCreateJob \/ PerformOpenJob \/ PerformWriteOverJob
          \/ PerformDeleteJob \/ PerformDeleteDoneJob
BlockMgr == PerformDeleteBlocksJob \/ \E b \in Blocks : ReportBlockDeletion(b)

Threads == StartWriteJob \/ Worker \/ BlockMgr

Next == Clients \/ Threads \/ \E b \in Blocks : ReportFailedBlockServer(b)

Spec == Init /\ [][Next]_vars

\* As long as there is work for a thread or an active server, some of it is
\* done; every thread running, and every server answering, implies it.
FairSpec == Spec /\ WF_vars(Threads)

-----------------------------------------------------------------------------
(* Properties *)

\* Every variable holds a value of its kind; checked with GroupHasOneOwner.
TypeOK ==
  /\ conn \in [Slots -> Sessions \cup {NoConn}]
  /\ session \in [Sessions -> [state : {"new", "open", "closed"}, sent : Nat,
       waiting : SUBSET [no : Nat, kind : Kinds, file : Files], opened : SUBSET Files]]
  /\ replies \in [Sessions -> Seq(Sessions \X Nat)]
  /\ {clientQ, workerQ, mgrQ, inProcess} \subseteq Seq(Jobs)
  /\ filled \in Seq(SUBSET Blocks)
  /\ groupOf \in [Files -> {NoGroup} \cup DOMAIN filled]
  /\ freeGroups \in Seq(DOMAIN filled)
  /\ active \subseteq Blocks /\ deleting \in [Blocks -> Seq(DOMAIN filled)]
  /\ leftItems \subseteq DOMAIN filled /\ crashed \in BOOLEAN
  /\ mishaps \subseteq Mishaps

\* The places where jobs are, and those of the deletions that have not yet given
\* their group back.
Queues == [clientQ |-> clientQ, workerQ |-> workerQ, mgrQ |-> mgrQ, inProcess |-> inProcess]
Places == UNION {{<<q, i>> : i \in DOMAIN Queues[q]} : q \in DOMAIN Queues}
JobAt(p) == Queues[p[1]][p[2]]
DeletionPlaces ==
  {p \in Places : p[1] # "clientQ" /\ (p[1] = "workerQ" => JobAt(p).kind = "DeleteDone")}

EachGroupHasOneOwner ==
  LET named == {f \in Files : groupOf[f] # NoGroup}
  IN /\ \A p, q \in DeletionPlaces : p # q => JobAt(p).item # JobAt(q).item
     /\ \A e, f \in named : e # f => groupOf[e] # groupOf[f]
     /\ IsInjective(freeGroups)
     /\ \A p \in DeletionPlaces, f \in named : JobAt(p).item # groupOf[f]
     /\ \A g \in ToSet(freeGroups) :
          /\ \A p \in DeletionPlaces : JobAt(p).item # g
          /\ \A f \in named : groupOf[f] # g

\* The promises about groups and their deletion end with a deletion of a
\* missing file that takes an item from the job's memory, and with one that is
\* taken for another.
JobsIntact == mishaps \cap {"wildItem", "wrongJob"} = {}

\* "Req block ID, alloc new block group": the group a new file gets is nobody
\* else's.  Every group belongs to one file, or to one deletion, or is free, and
\* no DeleteBlock command is on its way for a group that belongs to a file: it
\* would destroy that file's data.  Servers may fail at any time.
GroupHasOneOwner ==
  /\ TypeOK
  /\ JobsIntact =>
       /\ EachGroupHasOneOwner
       /\ \A f \in Files, b \in Blocks :
            groupOf[f] # NoGroup => groupOf[f] \notin ToSet(deleting[b])

\* The servers that have not answered the commands for group g.
Unanswered(g) == {b \in Blocks : g \in ToSet(deleting[b])}

EachJobCounts ==
  \A job \in ToSet(inProcess) : job.num = Cardinality(Unanswered(job.item)) /\ job.num > 0

\* "Remove the jobPtr with The blockgroup": a job stays in the queue until its
\* last block is deleted, so that the answer of a server finds it there.
EachAnswerFindsItsJob ==
  \A b \in Blocks : \A g \in ToSet(deleting[b]) : \E job \in ToSet(inProcess) : job.item = g

\* "Marks the number of blocks to be deleted by servers": inProcessingNum is
\* the number of commands for the job's group that are not answered, though
\* answers of several servers to several deletions come in any order; and none
\* is without a job, for which reportBlockDeletion would follow a null pointer.
CountsOutstanding ==
  /\ JobsIntact => EachAnswerFindsItsJob /\ ~crashed
  /\ JobsIntact /\ "deleteLost" \notin mishaps => EachJobCounts

\* The same of names that several clients use, where it does not hold: the job
\* that leaves the queue need not be the one whose last block was deleted.
SharedNamesFindTheirJob == "wildItem" \notin mishaps => EachAnswerFindsItsJob

\* A client gets the answers to its own commands, each of them once; the
\* answer for a connection that is gone is dumped.
RepliesReachTheirSender ==
  mishaps \cap {"slotReused", "wrongJob"} = {} =>
    \A s \in Sessions : /\ IsInjective(replies[s])
                        /\ \A reply \in ToSet(replies[s]) : reply[1] = s

\* Every command of a client that stays connected is answered, unless a mishap
\* of one of these kinds befalls the server.
CommandsAnswered ==
  \A s \in Sessions :
    session[s].waiting # {}
      ~> session[s].waiting = {} \/ session[s].state = "closed" \/ mishaps # {}

\* The claims without these conditions, which do not hold: a job of a failed
\* server (MetaLostDelete.cfg), a deletion of a missing file
\* (MetaDeleteMissing.cfg) and a slot taken again (MetaSlotReused.cfg).
RepliesAlwaysReachTheirSender ==
  \A s \in Sessions : \A reply \in ToSet(replies[s]) : reply[1] = s
=============================================================================
