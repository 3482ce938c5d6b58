--------------------------- MODULE BlockWorkerPool ---------------------------
(***************************************************************************)
(* The connections of ECClientLib to block servers (ECBlockWorker.c,       *)
(* ECBlockWorkerIO.c).  A file takes a block worker, that is a connection, *)
(* for each of its blocks, creates or opens the blocks over them and gives *)
(* the workers back when it is closed.  Connections stay and serve the     *)
(* next file; what a worker remembers of its last block stays too.         *)
(*                                                                         *)
(* One thread does all this with non-blocking sockets and an edge-         *)
(* triggered epoll, in phases: connect all, send all requests, collect all *)
(* answers.  As the comment in connectBlockWorkersForWrite says,           *)
(* connections are assumed to succeed.                                     *)
(***************************************************************************)
EXTENDS Integers, Sequences, FiniteSets

CONSTANTS
  Servers,
  Blocks,      \* Blocks[f]: the servers of the blocks of file f
  Writes,      \* the files that are written; the others are read
  StripeK,     \* data blocks of a file
  PoolSize,    \* blockWorkerNum
  MaxTimeOuts, \* bound: answers that take longer than CONNECTING_TIME_OUT_IN_MS
  None         \* no server, no BlockFd

Files == DOMAIN Blocks

ASSUME BlocksAssumption == \A f \in Files : Blocks[f] \in Seq(Servers) /\ Len(Blocks[f]) > 0
ASSUME StripeAssumption == StripeK \in Nat /\ \A f \in Files : StripeK <= Len(Blocks[f])
ASSUME PoolAssumption == PoolSize \in Nat \ {0} /\ Writes \subseteq Files
ASSUME BoundAssumption == MaxTimeOuts \in Nat

\* The pool, and the first worker of the memory that realloc adds to it.
\* blockWorkerNum is not raised: the added workers are not looked at again.
Pool    == 1 .. PoolSize
Workers == 1 .. PoolSize + 1

BlockIds == UNION {{<<f, i>> : i \in 1 .. Len(Blocks[f])} : f \in Files}

VARIABLES
  worker,   \* [use, state, srv, block, fd, mon] of each block worker
  inMon,    \* inMonitoringSockNum
  pc, cur, idx,  \* phase, curFilePtr, position in the file's list of workers
  held,     \* workers of each file, in the order of its blocks
  out,      \* request in writeMsgBuf that send did not take whole
  reqs, reps,    \* requests and answers on each connection
  open,     \* blocks a server has open for each connection
  timeOuts  \* history: how often epoll_wait returned nothing

vars == <<worker, inMon, pc, cur, idx, held, out, reqs, reps, open, timeOuts>>
netVars == <<reqs, reps, open>>

NewWorker == [use |-> FALSE, state |-> "UNINIT", srv |-> None, block |-> None,
              fd |-> None, mon |-> "none"]

Init ==
  /\ worker = [w \in Workers |-> NewWorker]
  /\ inMon = 0 /\ pc = "idle" /\ idx = 0
  /\ cur \in Files
  /\ held = [f \in Files |-> <<>>]
  /\ out = [w \in Workers |-> <<>>]
  /\ reqs = [w \in Workers |-> <<>>] /\ reps = [w \in Workers |-> <<>>]
  /\ open = [w \in Workers |-> {}] /\ timeOuts = 0

Mine == held[cur]
W == Mine[idx]                     \* the worker a phase has come to
DataWorkers == {Mine[i] : i \in 1 .. StripeK}
Lowest(S) == CHOOSE x \in S : \A y \in S : x <= y

\* The next phase when the last worker has had its turn.
Advance(n, next) ==
  IF idx = n THEN pc' = next /\ idx' = 1 ELSE UNCHANGED pc /\ idx' = idx + 1

Forward(state) ==
  CASE state = "REQUEST_WRITE" -> "WRITE_REQUESTING"
    [] state = "REQUEST_READ" -> "READ_REQUESTING"
    [] state = "WRITE_REQUESTING" -> "WRITE"
    [] state = "READ_REQUESTING" -> "READ"
    [] state = "WRITE_OVER" -> "CONNECTED"
    [] OTHER -> state              \* "Unknow state transition"

-----------------------------------------------------------------------------
(* Taking workers *)

\* The first read or write of a file.  Bound: after a time-out only the file used
\* last is used again.
UseFile(f) ==
  /\ pc = "idle" /\ held[f] = <<>>
  /\ timeOuts = 0 \/ f = cur
  /\ cur' = f /\ pc' = "alloc" /\ idx' = 1
  /\ UNCHANGED <<worker, inMon, held, out, netVars, timeOuts>>

ConnectedTo_Anyone(s) == {w \in Pool : ~worker[w].use /\ worker[w].state = "CONNECTED"}

\* Idle workers that are connected to server s.
ConnectedTo(s) == {w \in Pool : /\ ~worker[w].use
                                /\ worker[w].state = "CONNECTED" /\ worker[w].srv = s}
UnConnected == {w \in Pool : ~worker[w].use /\ worker[w].state # "CONNECTED"}

TakeWorker_Unmarked(w) == worker[w]
TakeWorker(w) == [worker[w] EXCEPT !.use = TRUE]

\* allocABlockWorker: a connection to the server, else a worker without a
\* connection, else the first worker of newly added, initialised memory.
AllocABlockWorker ==
  /\ pc = "alloc"
  /\ LET s == Blocks[cur][idx]
         fresh == ConnectedTo(s) = {} /\ UnConnected = {}
         w == IF fresh THEN PoolSize + 1
              ELSE Lowest(IF ConnectedTo(s) # {} THEN ConnectedTo(s) ELSE UnConnected)
         taken == IF fresh THEN [NewWorker EXCEPT !.use = TRUE] ELSE TakeWorker(w)
     IN /\ worker' = [worker EXCEPT ![w] = [taken EXCEPT
             !.srv = IF taken.state = "CONNECTED" THEN @ ELSE s, !.block = <<cur, idx>>]]
        /\ held' = [held EXCEPT ![cur] = Append(@, w)]
        /\ out' = IF fresh THEN [out EXCEPT ![w] = <<>>] ELSE out
  /\ Advance(Len(Blocks[cur]), "connect")
  /\ UNCHANGED <<inMon, cur, netVars, timeOuts>>

\* connectABlockWorker; curSockState is INIT in the end, also while EPOLLOUT
\* is awaited.
ConnectABlockWorker ==
  /\ pc = "connect"
  /\ IF worker[W].state = "CONNECTED" THEN UNCHANGED <<worker, inMon>>
     ELSE \/ /\ worker' = [worker EXCEPT ![W].state = "CONNECTED"]
             /\ UNCHANGED inMon
          \/ /\ worker' = [worker EXCEPT ![W].state = "CONNECTING"]
             /\ inMon' = inMon + 1
  /\ Advance(Len(Mine), "connecting")
  /\ UNCHANGED <<cur, held, out, netVars, timeOuts>>

\* waitConnections: EPOLLOUT of a connecting worker.
Connected(w) ==
  /\ pc = "connecting" /\ worker[w].state = "CONNECTING"
  /\ worker' = [worker EXCEPT ![w].state = "CONNECTED"]
  /\ inMon' = inMon - 1
  /\ UNCHANGED <<pc, cur, idx, held, out, netVars, timeOuts>>

-----------------------------------------------------------------------------
(* Sending requests: sendRequestToBlockServer *)

\* Worker w, in state st, sends r: at once, or the rest when epoll says so.
SendOrMonitor(w, st, r) ==
  \/ /\ worker' = [worker EXCEPT ![w].state = Forward(st)]
     /\ reqs' = [reqs EXCEPT ![w] = Append(@, r)]
     /\ UNCHANGED <<inMon, out>>
  \/ /\ worker' = [worker EXCEPT ![w].state = st, ![w].mon = "out"]
     /\ out' = [out EXCEPT ![w] = <<r>>]
     /\ inMon' = inMon + 1
     /\ UNCHANGED reqs

\* openBlockForWrite, openBlockForRead
OpenBlock ==
  /\ pc = "open"
  /\ IF worker[W].state = "CONNECTED"
       THEN IF cur \in Writes
              THEN SendOrMonitor(W, "REQUEST_WRITE", [type |-> "create", block |-> worker[W].block])
              ELSE SendOrMonitor(W, "REQUEST_READ", [type |-> "open", block |-> worker[W].block])
       ELSE UNCHANGED <<worker, inMon, out, reqs>>
  /\ Advance(Len(Mine), "flush")
  /\ UNCHANGED <<cur, held, reps, open, timeOuts>>

\* Worker w becomes rec and its socket leaves epoll.
RemoveSock(w, rec) ==
  worker' = [worker EXCEPT ![w] = [rec EXCEPT !.mon = "none"]] /\ inMon' = inMon - 1

RequestSent(w) == RemoveSock(w, [worker[w] EXCEPT !.state = Forward(@)])

\* EPOLLOUT in processingMonitoringRq.
SockWritable(w) ==
  /\ pc \in {"flush", "collect", "closeFlush"} /\ worker[w].mon = "out"
  /\ reqs' = [reqs EXCEPT ![w] = @ \o out[w]] /\ out' = [out EXCEPT ![w] = <<>>]
  /\ RequestSent(w)
  /\ UNCHANGED <<pc, cur, idx, held, reps, open, timeOuts>>

-----------------------------------------------------------------------------
(* Collecting answers: recvReplyFromBlockServer *)

\* getBlockFd from the answer that the state calls for; nothing from any other.
FdOf(w, r) ==
  IF \/ worker[w].state = "WRITE_REQUESTING" /\ r.type = "create"
     \/ worker[w].state = "READ_REQUESTING" /\ r.type = "open"
    THEN r.fd ELSE worker[w].fd

Answered(w) == [worker[w] EXCEPT !.fd = FdOf(w, Head(reps[w])), !.state = Forward(@)]

\* monitoringSockRead
AwaitReply(w) ==
  worker' = [worker EXCEPT ![w].mon = "in"] /\ inMon' = inMon + 1

RecvReply ==
  /\ pc = "reply"
  /\ IF worker[W].state = "CONNECTED" THEN UNCHANGED <<worker, inMon, reps>>
     ELSE IF reps[W] # <<>>
       THEN /\ worker' = [worker EXCEPT ![W] = Answered(W)]
            /\ reps' = [reps EXCEPT ![W] = Tail(@)]
            /\ UNCHANGED inMon
       ELSE AwaitReply(W) /\ UNCHANGED reps
  /\ Advance(Len(Mine), "collect")
  /\ UNCHANGED <<cur, held, out, reqs, open, timeOuts>>

\* EPOLLIN in processingMonitoringRq.
SockReadable(w) ==
  /\ pc \in {"flush", "collect", "closeFlush"} /\ worker[w].mon = "in" /\ reps[w] # <<>>
  /\ RemoveSock(w, Answered(w))
  /\ reps' = [reps EXCEPT ![w] = Tail(@)]
  /\ UNCHANGED <<pc, cur, idx, held, out, reqs, open, timeOuts>>

\* epoll_wait returns nothing: iterateUnFinishedBlockworker assigns to curState
\* of the first StripeK workers where it means to compare.  Bound: while no other
\* file is open.
TimeOut ==
  /\ \A f \in Files \ {cur} : held[f] = <<>>
  /\ timeOuts < MaxTimeOuts /\ timeOuts' = timeOuts + 1
  /\ pc \in {"flush", "collect"} /\ inMon > 0
  /\ worker' = [w \in Workers |-> IF w \in DataWorkers
                  THEN [worker[w] EXCEPT !.state = "REQUEST_READ"] ELSE worker[w]]
  /\ UNCHANGED <<inMon, pc, cur, idx, held, out, netVars>>

\* processingMonitoringRq and waitConnections end when nothing is monitored.
PhaseOver ==
  /\ inMon = 0
  /\ \/ pc = "connecting" /\ pc' = "open"
     \/ pc = "flush" /\ pc' = "reply"
     \/ pc = "collect" /\ pc' = "idle"
  /\ idx' = 1
  /\ UNCHANGED <<worker, inMon, cur, held, out, netVars, timeOuts>>

-----------------------------------------------------------------------------
(* Giving workers back: revokeBlockWorkers *)

CloseFile(f) ==
  /\ pc = "idle" /\ held[f] # <<>>
  /\ cur' = f /\ pc' = "close" /\ idx' = 1
  /\ UNCHANGED <<worker, inMon, held, out, netVars, timeOuts>>

\* The states in which closeBlockInServer tells the server.
ClosesIn_WriteOnly == {"WRITE"}
ClosesIn == {"WRITE", "READ"}

CloseBlockInServer ==
  /\ pc = "close"
  /\ IF worker[W].state \in ClosesIn
       THEN LET r == [type |-> "close", block |-> worker[W].fd] IN
         \/ /\ worker' = [worker EXCEPT ![W].state = "CONNECTED", ![W].use = FALSE]
            /\ reqs' = [reqs EXCEPT ![W] = Append(@, r)] /\ UNCHANGED <<inMon, out>>
         \/ /\ worker' = [worker EXCEPT ![W].state = "WRITE_OVER", ![W].use = FALSE, ![W].mon = "out"]
            /\ out' = [out EXCEPT ![W] = <<r>>] /\ inMon' = inMon + 1 /\ UNCHANGED reqs
       ELSE /\ worker' = [worker EXCEPT ![W].use = FALSE]
            /\ UNCHANGED <<inMon, out, reqs>>
  /\ Advance(Len(Mine), "closeFlush")
  /\ UNCHANGED <<cur, held, reps, open, timeOuts>>

FileClosed ==
  /\ pc = "closeFlush" /\ inMon = 0
  /\ held' = [held EXCEPT ![cur] = <<>>]
  /\ pc' = "idle"
  /\ UNCHANGED <<worker, inMon, cur, idx, out, netVars, timeOuts>>

-----------------------------------------------------------------------------
\* A block server takes the next request of a connection (BlockServerDisk).
ServerAnswers(w) ==
  /\ reqs[w] # <<>>
  /\ LET r == Head(reqs[w]) IN
       IF r.type = "close"
         THEN open' = [open EXCEPT ![w] = @ \ {r.block}] /\ UNCHANGED reps
         ELSE /\ open' = [open EXCEPT ![w] = @ \cup {r.block}]
              /\ reps' = [reps EXCEPT ![w] = Append(@, [type |-> r.type, fd |-> r.block])]
  /\ reqs' = [reqs EXCEPT ![w] = Tail(@)]
  /\ UNCHANGED <<worker, inMon, pc, cur, idx, held, out, timeOuts>>

Library ==
  \/ AllocABlockWorker \/ ConnectABlockWorker \/ OpenBlock \/ RecvReply
  \/ CloseBlockInServer \/ PhaseOver \/ FileClosed
  \/ \E w \in Workers : Connected(w) \/ SockWritable(w) \/ SockReadable(w)

Next ==
  \/ \E f \in Files : UseFile(f) \/ CloseFile(f)
  \/ Library \/ TimeOut
  \/ \E w \in Workers : ServerAnswers(w)

Spec == Init /\ [][Next]_vars

\* As long as the library, a socket or a server can go on, one of them does; the
\* application may do nothing.
FairSpec == Spec /\ WF_vars(Library \/ \E w \in Workers : ServerAnswers(w))

-----------------------------------------------------------------------------
(* Properties *)

States == {"UNINIT", "CONNECTING", "CONNECTED", "REQUEST_WRITE", "WRITE_REQUESTING", "WRITE",
           "WRITE_OVER", "REQUEST_READ", "READ_REQUESTING", "READ"}

\* Every variable holds a value of its kind; checked with OneBlockPerWorker.
TypeOK ==
  /\ worker \in [Workers -> [use : BOOLEAN, state : States, srv : Servers \cup {None},
                             block : BlockIds \cup {None}, fd : BlockIds \cup {None},
                             mon : {"none", "in", "out"}]]
  /\ inMon \in Nat /\ cur \in Files /\ idx \in Nat /\ timeOuts \in 0 .. MaxTimeOuts
  /\ pc \in {"idle", "alloc", "connect", "connecting", "open", "flush", "reply", "collect",
             "close", "closeFlush"}
  /\ held \in [Files -> Seq(Workers)]
  /\ out \in [Workers -> Seq([type : {"create", "open", "close"}, block : BlockIds \cup {None}])]
  /\ reqs \in [Workers -> Seq([type : {"create", "open", "close"}, block : BlockIds \cup {None}])]
  /\ reps \in [Workers -> Seq([type : {"create", "open"}, fd : BlockIds])]
  /\ open \in [Workers -> SUBSET (BlockIds \cup {None})]

Busy(f) == cur = f /\ pc # "idle"

\* While a file is open between calls, each of its workers is connected to the
\* server of its block, and the BlockFd it will write or read with is the one
\* that server gave for that block, not what an earlier file left behind.
EachFdOfItsBlock ==
  \A f \in Files : held[f] # <<>> /\ ~Busy(f) =>
    \A i \in 1 .. Len(held[f]) :
      LET w == worker[held[f][i]] IN
        /\ w.srv = Blocks[f][i] /\ w.block = <<f, i>> /\ w.fd = <<f, i>>
        /\ w.state = IF f \in Writes THEN "WRITE" ELSE "READ"
        /\ <<f, i>> \in open[held[f][i]]

\* It is so as long as every answer is in time; BlockWorkerTimeout.cfg shows
\* what a late answer does.
FdOfItsBlock == timeOuts = 0 => EachFdOfItsBlock

\* A connection carries one block at a time: no two blocks, of one file or of
\* two, have the same worker, and a worker in use belongs to a file.  The
\* number of sockets in epoll, which ends every wait, is right, also after a
\* time-out.
OneBlockPerWorker ==
  /\ TypeOK
  /\ \A f, g \in Files : \A i \in 1 .. Len(held[f]), j \in 1 .. Len(held[g]) :
       held[f][i] = held[g][j] => f = g /\ i = j
  /\ \A w \in Workers : worker[w].use => \E f \in Files : \E i \in 1 .. Len(held[f]) : held[f][i] = w
  /\ inMon = Cardinality({w \in Workers : worker[w].state = "CONNECTING" \/ worker[w].mon # "none"})

\* A worker that is given back has told the server to close its block: once a
\* connection has nothing under way, the server holds for it only the block of
\* the file that has the worker.  And answers are collected before the call that
\* asked for them returns, so that the next file on the connection does not take
\* them for its own.
NothingLeftOpen ==
  timeOuts = 0 =>
    \A w \in Workers : ~worker[w].use =>
      /\ reqs[w] = <<>> /\ out[w] = <<>> => open[w] = {}
      /\ reps[w] = <<>>


=============================================================================
