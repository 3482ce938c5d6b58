------------------------ MODULE BlockWorkerPool_proofs ------------------------
(***************************************************************************)
(* What holds of the block workers for any files, servers and stripes, as  *)
(* long as the pool has a worker for every block of the files: a worker    *)
(* has one block, a connection carries one conversation, and a BlockFd is  *)
(* the one of its block.                                                   *)
(***************************************************************************)
EXTENDS BlockWorkerPool, FiniteSetTheorems, SequenceTheorems, TLAPS

\* The pool need not grow: it has a worker for each block that can be open.
\* (BlockWorkerOverflow.cfg shows what happens to smaller pools.)
PoolIsLargeEnough == IsFiniteSet(BlockIds) /\ Cardinality(BlockIds) <= PoolSize

N(f) == Len(Blocks[f])

\* The list of a file's workers is complete, except while it is made, or empty.
ListsComplete ==
  /\ pc = "alloc" => idx \in 1 .. N(cur) /\ Len(held[cur]) = idx - 1
  /\ pc \notin {"alloc", "idle"} => idx \in 1 .. N(cur) /\ Len(held[cur]) = N(cur)
  /\ \A f \in Files : f # cur \/ pc = "idle" => Len(held[f]) \in {0, N(f)}

\* Workers that closeBlockInServer has given back, though the list has them.
Released(f, i) == f = cur /\ ((pc = "close" /\ i < idx) \/ pc = "closeFlush")

\* The lists and the workers agree.
WorkersOfBlocks ==
  /\ \A f, g \in Files : \A i \in 1 .. Len(held[f]), j \in 1 .. Len(held[g]) :
       held[f][i] = held[g][j] => f = g /\ i = j
  /\ \A w \in Workers : worker[w].use => \E f \in Files : \E i \in 1 .. Len(held[f]) : held[f][i] = w
  /\ \A f \in Files : \A i \in 1 .. Len(held[f]) :
       LET w == worker[held[f][i]] IN
         /\ held[f][i] \in Pool
         /\ w.srv = Blocks[f][i] /\ w.block = <<f, i>>
         /\ w.use <=> ~Released(f, i)

\* The sockets in epoll are some of those the phase has come to.
Monitored == {w \in Workers : worker[w].state = "CONNECTING" \/ worker[w].mon # "none"}

InTurn(w) == \E j \in 1 .. Len(Mine) : Mine[j] = w /\ (pc \in {"connect", "open", "reply", "close"} => j < idx)

\* What a worker's socket is in epoll for, by the phase.
MonitoredFor(w) ==
  /\ worker[w].state = "CONNECTING" => pc \in {"connect", "connecting"} /\ worker[w].mon = "none"
  /\ pc \in {"connect", "connecting"} => worker[w].mon = "none"
  /\ pc \in {"close", "closeFlush"} /\ worker[w].mon # "none" =>
       worker[w].mon = "out" /\ worker[w].state = "WRITE_OVER"
  /\ worker[w].state = "WRITE_OVER" => pc \in {"close", "closeFlush"} /\ worker[w].mon = "out"

Sockets ==
  /\ inMon = Cardinality(Monitored)
  /\ \A w \in Monitored : pc \notin {"idle", "alloc"} /\ InTurn(w)
  /\ \A w \in Workers : MonitoredFor(w)

\* Workers in use or with a connection that stays: each can be given a block of
\* its server that no other one has, so there are no more of them than blocks.
Kept == {w \in Workers : worker[w].use \/ worker[w].state \in {"CONNECTED", "WRITE_OVER"}}

Assignment(g) ==
  /\ g \in [Kept -> BlockIds]
  /\ \A w \in Kept : worker[w].srv = Blocks[g[w][1]][g[w][2]]
  /\ \A v, w \in Kept : g[v] = g[w] => v = w

PoolSuffices == Kept \subseteq Pool /\ \E g \in [Kept -> BlockIds] : Assignment(g)

Requests == [type : {"create", "open"}, block : BlockIds]
            \cup [type : {"close"}, block : BlockIds \cup {None}]

Typed == TypeOK /\ out \in [Workers -> Seq(Requests)] /\ reqs \in [Workers -> Seq(Requests)]

PoolInv == Typed /\ ListsComplete /\ WorkersOfBlocks /\ Sockets /\ PoolSuffices

-----------------------------------------------------------------------------
(* The conversation on a connection. *)

Rq(w) == [type |-> IF worker[w].state \in {"REQUEST_WRITE", "WRITE_REQUESTING"} THEN "create" ELSE "open",
          block |-> worker[w].block]
Close(b) == [type |-> "close", block |-> b]

\* Nothing is asked for; the server may not yet have closed the last block.
Settled(w) ==
  /\ reps[w] = <<>>
  /\ \/ reqs[w] = <<>> /\ open[w] = {}
     \/ \E b \in BlockIds : reqs[w] = <<Close(b)>> /\ open[w] = {b}

Asked(w) ==
  /\ reps[w] = <<>>
  /\ \/ reqs[w] = <<Rq(w)>> /\ open[w] = {}
     \/ \E b \in BlockIds : reqs[w] = <<Close(b), Rq(w)>> /\ open[w] = {b}

Given(w) ==
  /\ reps[w] = <<[type |-> Rq(w).type, fd |-> worker[w].block]>>
  /\ reqs[w] = <<>> /\ open[w] = {worker[w].block}

Conversation(w) ==
  LET st == worker[w].state  mon == worker[w].mon IN
    /\ st \in {"UNINIT", "CONNECTING", "CONNECTED"} => Settled(w) /\ out[w] = <<>> /\ mon = "none"
    /\ st \in {"REQUEST_WRITE", "REQUEST_READ"} => Settled(w) /\ out[w] = <<Rq(w)>> /\ mon = "out"
    /\ st \in {"WRITE_REQUESTING", "READ_REQUESTING"} =>
         (Asked(w) \/ Given(w)) /\ out[w] = <<>> /\ mon # "out"
    /\ st \in {"WRITE", "READ"} =>
         /\ reqs[w] = <<>> /\ reps[w] = <<>> /\ out[w] = <<>> /\ mon = "none"
         /\ worker[w].fd = worker[w].block /\ open[w] = {worker[w].block}
    /\ st = "WRITE_OVER" =>
         /\ reqs[w] = <<>> /\ reps[w] = <<>> /\ out[w] = <<Close(worker[w].fd)>> /\ mon = "out"
         /\ worker[w].fd \in BlockIds /\ open[w] = {worker[w].fd}

Opened(f)     == IF f \in Writes THEN "WRITE" ELSE "READ"
Requesting(f) == IF f \in Writes THEN "WRITE_REQUESTING" ELSE "READ_REQUESTING"
Request(f)    == IF f \in Writes THEN "REQUEST_WRITE" ELSE "REQUEST_READ"

\* The states that worker i of file f can be in, by the phase.
StatesOf(f, i) ==
  IF f # cur \/ pc = "idle" THEN {Opened(f)}
  ELSE CASE pc = "alloc" -> {"UNINIT", "CONNECTED"}
         [] pc = "connect" -> {"CONNECTED", IF i < idx THEN "CONNECTING" ELSE "UNINIT"}
         [] pc = "connecting" -> {"CONNECTED", "CONNECTING"}
         [] pc = "open" -> IF i < idx THEN {Request(f), Requesting(f)} ELSE {"CONNECTED"}
         [] pc = "flush" -> {Request(f), Requesting(f)}
         [] pc = "reply" -> IF i < idx THEN {Requesting(f), Opened(f)} ELSE {Requesting(f)}
         [] pc = "collect" -> {Requesting(f), Opened(f)}
         [] pc = "close" -> IF i < idx THEN {"CONNECTED", "WRITE_OVER"} ELSE {Opened(f)}
         [] OTHER -> {"CONNECTED", "WRITE_OVER"}

\* A worker whose answer has not come when its turn is over is watched for it,
\* and none is before.
AnswerAwaited(f, i) ==
  worker[held[f][i]].mon = "in" <=>
    /\ f = cur
    /\ (pc = "reply" /\ i < idx) \/ pc = "collect"
    /\ worker[held[f][i]].state = Requesting(f)

Phases ==
  /\ \A w \in Workers : Conversation(w)
  /\ \A f \in Files : \A i \in 1 .. Len(held[f]) :
       worker[held[f][i]].state \in StatesOf(f, i) /\ AnswerAwaited(f, i)
  /\ \A w \in Workers : (\A f \in Files : \A i \in 1 .. Len(held[f]) : held[f][i] # w) =>
       worker[w].state \in {"UNINIT", "CONNECTED"}

IInv == PoolInv /\ (timeOuts = 0 => Phases)

-----------------------------------------------------------------------------
(* Lemmas about the operators. *)

Record == [use : BOOLEAN, state : States, srv : Servers \cup {None},
           block : BlockIds \cup {None}, fd : BlockIds \cup {None}, mon : {"none", "in", "out"}]

LEMMA LowestIsMember ==
  ASSUME NEW S \in SUBSET Nat, S # {}
  PROVE  Lowest(S) \in S
<1> DEFINE R == {ss \in Nat \X Nat : ss[1] < ss[2]}
<1>1. IsWellFoundedOn(R, Nat)
  <2>1. OpToRel(<, Nat) = R
    BY Zenon DEF OpToRel
  <2> QED
    BY <2>1, NatLessThanWellFounded
<1>2. PICK m \in S : \A y \in S : ~(<<y, m>> \in R)
  BY <1>1, WFMin
<1>3. ASSUME NEW y \in S PROVE m <= y
  <2>1. ~(<<y, m>> \in R) /\ y \in Nat /\ m \in Nat
    BY <1>2
  <2>2. ~(y < m)
    BY <2>1
  <2> HIDE DEF R
  <2> QED
    BY <2>1, <2>2
<1> QED
  BY <1>2, <1>3 DEF Lowest

LEMMA BlockIdsAre ==
  /\ \A f \in Files : N(f) \in Nat \ {0}
  /\ \A f \in Files : \A i \in 1 .. N(f) : <<f, i>> \in BlockIds /\ Blocks[f][i] \in Servers
  /\ \A b \in BlockIds : b[1] \in Files /\ b[2] \in 1 .. N(b[1]) /\ b = <<b[1], b[2]>>
<1>1. \A f \in Files : Blocks[f] \in Seq(Servers) /\ Len(Blocks[f]) > 0
  BY BlocksAssumption
<1>2. \A f \in Files : N(f) \in Nat \ {0}
  BY <1>1 DEF N
<1>3. \A f \in Files : \A i \in 1 .. N(f) : <<f, i>> \in BlockIds /\ Blocks[f][i] \in Servers
  BY <1>1 DEF N, BlockIds
<1>4. \A b \in BlockIds : b[1] \in Files /\ b[2] \in 1 .. N(b[1]) /\ b = <<b[1], b[2]>>
  BY DEF BlockIds, N
<1> QED
  BY <1>2, <1>3, <1>4

\* The state that a request or an answer leads to.
LEMMA ForwardStates ==
  /\ \A st \in States : Forward(st) \in States
  /\ \A st \in States : Forward(st) # "WRITE_OVER"
  /\ \A st \in States : Forward(st) = "CONNECTED" => st \in {"CONNECTED", "WRITE_OVER"}
  /\ \A st \in States : Forward(st) = "CONNECTING" => st = "CONNECTING"
  /\ Forward("REQUEST_WRITE") = "WRITE_REQUESTING" /\ Forward("REQUEST_READ") = "READ_REQUESTING"
  /\ Forward("WRITE_REQUESTING") = "WRITE" /\ Forward("READ_REQUESTING") = "READ"
  /\ Forward("WRITE_OVER") = "CONNECTED"
BY DEF Forward, States

\* What the phases are about.
LEMMA TypeFacts ==
  ASSUME Typed
  PROVE  /\ worker \in [Workers -> Record] /\ cur \in Files /\ idx \in Nat /\ PoolSize \in Nat
         /\ held \in [Files -> Seq(Workers)] /\ inMon \in Nat /\ timeOuts \in Nat
         /\ Pool \subseteq Workers /\ Workers \subseteq Nat /\ PoolSize + 1 \notin Pool /\ PoolSize + 1 \in Workers
         /\ \A f \in Files : Len(held[f]) \in Nat /\ \A i \in 1 .. Len(held[f]) : held[f][i] \in Workers
BY PoolAssumption, BoundAssumption DEF Typed, TypeOK, Record, Pool, Workers

\* The worker that a phase has come to.
LEMMA WorkerInTurn ==
  ASSUME Typed, ListsComplete, WorkersOfBlocks, pc \notin {"idle", "alloc"}
  PROVE  /\ idx \in 1 .. N(cur) /\ Len(Mine) = N(cur) /\ Len(Mine) = Len(held[cur])
         /\ W \in Pool /\ W \in Workers /\ W = held[cur][idx]
         /\ worker[W].srv = Blocks[cur][idx] /\ worker[W].block = <<cur, idx>>
         /\ <<cur, idx>> \in BlockIds
         /\ pc \notin {"close", "closeFlush"} => worker[W].use
         /\ pc = "close" => worker[W].use
         /\ \A j \in 1 .. Len(Mine) : Mine[j] = W => j = idx
<1>1. idx \in 1 .. N(cur) /\ Len(Mine) = N(cur) /\ Len(Mine) = Len(held[cur]) /\ W = held[cur][idx]
  BY DEF ListsComplete, Mine, W
<1>2. cur \in Files /\ idx \in Nat /\ Pool \subseteq Workers
  BY TypeFacts
<1>3. W \in Pool /\ worker[W].srv = Blocks[cur][idx] /\ worker[W].block = <<cur, idx>>
      /\ (worker[W].use <=> ~Released(cur, idx))
  BY <1>1, <1>2 DEF WorkersOfBlocks
<1>4. pc # "closeFlush" => ~Released(cur, idx)
  BY <1>2 DEF Released
<1>5. \A j \in 1 .. Len(Mine) : Mine[j] = W => j = idx
  BY <1>1, <1>2 DEF WorkersOfBlocks, Mine
<1> QED
  BY <1>1, <1>2, <1>3, <1>4, <1>5, BlockIdsAre

\* The pool suffices still, when no worker is added to the kept ones and none of
\* them changes its server.
LEMMA KeptShrinks ==
  ASSUME PoolSuffices, Kept' \subseteq Kept, \A w \in Kept' : worker'[w].srv = worker[w].srv
  PROVE  PoolSuffices'
<1>1. PICK g \in [Kept -> BlockIds] : Assignment(g)
  BY DEF PoolSuffices
<1> DEFINE h == [w \in Kept' |-> g[w]]
<1>2. h \in [Kept' -> BlockIds]
  OBVIOUS
<1>3. \A w \in Kept' : worker'[w].srv = Blocks[h[w][1]][h[w][2]]
  BY <1>1 DEF Assignment
<1>4. \A v, w \in Kept' : h[v] = h[w] => v = w
  BY <1>1 DEF Assignment
<1> QED
  BY <1>2, <1>3, <1>4 DEF PoolSuffices, Assignment

\* inMonitoringSockNum counts the sockets in epoll.
LEMMA MonitoredCount ==
  ASSUME Typed, Sockets
  PROVE  /\ IsFiniteSet(Monitored)
         /\ inMon = 0 <=> Monitored = {}
         /\ \A w \in Monitored : inMon - 1 \in Nat /\ Cardinality(Monitored \ {w}) = inMon - 1
         /\ \A w : w \notin Monitored => Cardinality(Monitored \cup {w}) = inMon + 1
<1>1. IsFiniteSet(Workers) /\ Monitored \in SUBSET Workers
  BY PoolAssumption, FS_Interval DEF Workers, Monitored
<1>2. IsFiniteSet(Monitored) /\ inMon = Cardinality(Monitored) /\ inMon \in Nat
  BY <1>1, FS_Subset, TypeFacts DEF Sockets
<1>3. inMon = 0 <=> Monitored = {}
  BY <1>2, FS_EmptySet
<1>4. ASSUME NEW w \in Monitored PROVE inMon - 1 \in Nat /\ Cardinality(Monitored \ {w}) = inMon - 1
  <2>1. Cardinality(Monitored \ {w}) = inMon - 1
    BY <1>2, <1>4, FS_RemoveElement
  <2>2. inMon # 0
    BY <1>3, <1>4
  <2> QED
    BY <1>2, <2>1, <2>2
<1>5. \A w : w \notin Monitored => Cardinality(Monitored \cup {w}) = inMon + 1
  BY <1>2, FS_AddElement
<1> QED
  BY <1>2, <1>3, <1>4, <1>5

\* The turn goes to the next worker, or the phase to the next one.
LEMMA Turn ==
  ASSUME NEW n \in Nat \ {0}, NEW next, Advance(n, next), idx \in 1 .. n
  PROVE  /\ pc' \in {pc, next} /\ idx' \in 1 .. n /\ idx' \in Nat
         /\ (pc' = pc /\ idx' = idx + 1 /\ idx # n) \/ (pc' = next /\ idx' = 1 /\ idx = n)
<1>1. CASE idx = n
  BY <1>1 DEF Advance
<1>2. CASE idx # n
  <2>1. pc' = pc /\ idx' = idx + 1
    BY <1>2 DEF Advance
  <2> QED
    BY <1>2, <2>1
<1> QED
  BY <1>1, <1>2

-----------------------------------------------------------------------------
(* What each action does to the workers, on which the invariant's parts rest. *)

\* One worker changes its state, its place in epoll, its BlockFd.
Changes(w, st, fd, mon) ==
  /\ worker' \in [Workers -> Record]
  /\ \A v \in Workers : v # w => worker'[v] = worker[v]
  /\ worker'[w].use = worker[w].use /\ worker'[w].srv = worker[w].srv
  /\ worker'[w].block = worker[w].block
  /\ worker'[w].state = st /\ worker'[w].fd = fd /\ worker'[w].mon = mon

LEMMA ConnectDoes ==
  ASSUME Typed, ListsComplete, WorkersOfBlocks, ConnectABlockWorker
  PROVE  /\ pc = "connect" /\ Advance(Len(Mine), "connecting")
         /\ UNCHANGED <<cur, held, out, netVars, timeOuts>>
         /\ \/ worker[W].state = "CONNECTED" /\ UNCHANGED <<worker, inMon>>
            \/ /\ worker[W].state # "CONNECTED"
               /\ Changes(W, "CONNECTED", worker[W].fd, worker[W].mon) /\ inMon' = inMon
            \/ /\ worker[W].state # "CONNECTED"
               /\ Changes(W, "CONNECTING", worker[W].fd, worker[W].mon) /\ inMon' = inMon + 1
<1>1. pc = "connect" /\ Advance(Len(Mine), "connecting") /\ UNCHANGED <<cur, held, out, netVars, timeOuts>>
  BY DEF ConnectABlockWorker
<1>2. worker \in [Workers -> Record] /\ W \in Workers
  BY <1>1, TypeFacts, WorkerInTurn
<1>3. ASSUME NEW st \in {"CONNECTED", "CONNECTING"}, worker' = [worker EXCEPT ![W].state = st]
      PROVE  Changes(W, st, worker[W].fd, worker[W].mon)
  BY <1>2, <1>3 DEF Changes, Record, States
<1>4. CASE worker[W].state = "CONNECTED"
  BY <1>1, <1>4 DEF ConnectABlockWorker
<1>5. CASE worker[W].state # "CONNECTED"
  BY <1>1, <1>3, <1>5 DEF ConnectABlockWorker
<1> QED
  BY <1>4, <1>5

LEMMA ConnectedDoes ==
  ASSUME Typed, NEW w \in Workers, Connected(w)
  PROVE  /\ pc = "connecting" /\ worker[w].state = "CONNECTING" /\ inMon' = inMon - 1
         /\ UNCHANGED <<pc, cur, idx, held, out, netVars, timeOuts>>
         /\ Changes(w, "CONNECTED", worker[w].fd, worker[w].mon)
<1>1. worker \in [Workers -> Record]
  BY TypeFacts
<1>2. worker' = [worker EXCEPT ![w].state = "CONNECTED"]
  BY DEF Connected
<1>3. Changes(w, "CONNECTED", worker[w].fd, worker[w].mon)
  BY <1>1, <1>2 DEF Changes, Record, States
<1> QED
  BY <1>3 DEF Connected

\* The request that openBlockForWrite or openBlockForRead sends.
OpenRq == [type |-> IF cur \in Writes THEN "create" ELSE "open", block |-> <<cur, idx>>]

LEMMA OpenDoes ==
  ASSUME Typed, ListsComplete, WorkersOfBlocks, OpenBlock
  PROVE  /\ pc = "open" /\ Advance(Len(Mine), "flush") /\ UNCHANGED <<cur, held, reps, open, timeOuts>>
         /\ \/ worker[W].state # "CONNECTED" /\ UNCHANGED <<worker, inMon, out, reqs>>
            \/ /\ worker[W].state = "CONNECTED"
               /\ Changes(W, Requesting(cur), worker[W].fd, worker[W].mon)
               /\ reqs' = [reqs EXCEPT ![W] = Append(@, OpenRq)] /\ UNCHANGED <<inMon, out>>
            \/ /\ worker[W].state = "CONNECTED"
               /\ Changes(W, Request(cur), worker[W].fd, "out")
               /\ out' = [out EXCEPT ![W] = <<OpenRq>>] /\ inMon' = inMon + 1 /\ UNCHANGED reqs
<1>1. pc = "open" /\ Advance(Len(Mine), "flush") /\ UNCHANGED <<cur, held, reps, open, timeOuts>>
  BY DEF OpenBlock
<1>2. worker \in [Workers -> Record] /\ W \in Workers /\ worker[W].block = <<cur, idx>>
  BY <1>1, TypeFacts, WorkerInTurn
<1>3. ASSUME worker[W].state = "CONNECTED" PROVE SendOrMonitor(W, Request(cur), OpenRq)
  BY <1>2, <1>3 DEF OpenBlock, Request, OpenRq
<1>4. CASE worker[W].state # "CONNECTED"
  BY <1>1, <1>4 DEF OpenBlock
<1>5. CASE worker[W].state = "CONNECTED" /\ reqs' = reqs /\ inMon' = inMon + 1 /\ out' = [out EXCEPT ![W] = <<OpenRq>>]
           /\ worker' = [worker EXCEPT ![W].state = Request(cur), ![W].mon = "out"]
  <2>1. Changes(W, Request(cur), worker[W].fd, "out")
    BY <1>2, <1>5 DEF Changes, Record, States, Request
  <2> QED
    BY <1>1, <1>5, <2>1
<1>6. CASE worker[W].state = "CONNECTED" /\ UNCHANGED <<inMon, out>> /\ reqs' = [reqs EXCEPT ![W] = Append(@, OpenRq)]
           /\ worker' = [worker EXCEPT ![W].state = Forward(Request(cur))]
  <2>1. Forward(Request(cur)) = Requesting(cur)
    BY ForwardStates DEF Request, Requesting
  <2>2. Changes(W, Requesting(cur), worker[W].fd, worker[W].mon)
    BY <1>2, <1>6, <2>1 DEF Changes, Record, States, Requesting
  <2> QED
    BY <1>1, <1>6, <2>2
<1> QED
  BY <1>3, <1>4, <1>5, <1>6 DEF SendOrMonitor

LEMMA WritableDoes ==
  ASSUME Typed, NEW w \in Workers, SockWritable(w)
  PROVE  /\ pc \in {"flush", "collect", "closeFlush"} /\ worker[w].mon = "out" /\ inMon' = inMon - 1
         /\ reqs' = [reqs EXCEPT ![w] = @ \o out[w]] /\ out' = [out EXCEPT ![w] = <<>>]
         /\ UNCHANGED <<pc, cur, idx, held, reps, open, timeOuts>>
         /\ Changes(w, Forward(worker[w].state), worker[w].fd, "none")
<1>1. worker \in [Workers -> Record]
  BY TypeFacts
<1>2. worker' = [worker EXCEPT ![w] = [[worker[w] EXCEPT !.state = Forward(@)] EXCEPT !.mon = "none"]]
  BY DEF SockWritable, RequestSent, RemoveSock
<1>3. Forward(worker[w].state) \in States
  BY <1>1, ForwardStates DEF Record
<1>4. Changes(w, Forward(worker[w].state), worker[w].fd, "none")
  BY <1>1, <1>2, <1>3 DEF Changes, Record
<1> QED
  BY <1>4 DEF SockWritable, RequestSent, RemoveSock

LEMMA AnswerDoes ==
  ASSUME Typed, NEW w \in Workers, reps[w] # <<>>
  PROVE  /\ FdOf(w, Head(reps[w])) \in BlockIds \cup {None}
         /\ Tail(reps[w]) \in Seq([type : {"create", "open"}, fd : BlockIds])
         /\ Forward(worker[w].state) \in States
<1>1. reps[w] \in Seq([type : {"create", "open"}, fd : BlockIds]) /\ worker[w] \in Record
  BY TypeFacts DEF Typed, TypeOK
<1> DEFINE R == [type : {"create", "open"}, fd : BlockIds]
<1>2. Head(reps[w]) \in R
  <2> HIDE DEF R
  <2>1. reps[w] \in Seq(R) /\ reps[w] # <<>>
    BY <1>1 DEF R
  <2> QED
    BY <2>1
<1>3. FdOf(w, Head(reps[w])) \in BlockIds \cup {None}
  BY <1>1, <1>2 DEF FdOf, Record
<1> QED
  BY <1>1, <1>3, ForwardStates DEF Record

LEMMA RecvDoes ==
  ASSUME Typed, ListsComplete, WorkersOfBlocks, RecvReply
  PROVE  /\ pc = "reply" /\ Advance(Len(Mine), "collect") /\ UNCHANGED <<cur, held, out, reqs, open, timeOuts>>
         /\ \/ worker[W].state = "CONNECTED" /\ UNCHANGED <<worker, inMon, reps>>
            \/ /\ reps[W] # <<>> /\ reps' = [reps EXCEPT ![W] = Tail(@)] /\ inMon' = inMon
               /\ Changes(W, Forward(worker[W].state), FdOf(W, Head(reps[W])), worker[W].mon)
               /\ worker[W].state # "CONNECTED"
            \/ /\ reps[W] = <<>> /\ UNCHANGED reps /\ inMon' = inMon + 1
               /\ Changes(W, worker[W].state, worker[W].fd, "in")
               /\ worker[W].state # "CONNECTED"
<1>1. pc = "reply" /\ Advance(Len(Mine), "collect") /\ UNCHANGED <<cur, held, out, reqs, open, timeOuts>>
  BY DEF RecvReply
<1>2. worker \in [Workers -> Record] /\ W \in Workers
  BY <1>1, TypeFacts, WorkerInTurn
<1>3. CASE worker[W].state = "CONNECTED"
  BY <1>1, <1>3 DEF RecvReply
<1>4. CASE worker[W].state # "CONNECTED" /\ reps[W] # <<>>
  <2>1. worker' = [worker EXCEPT ![W] = Answered(W)] /\ reps' = [reps EXCEPT ![W] = Tail(@)] /\ inMon' = inMon
    BY <1>4 DEF RecvReply
  <2>2. FdOf(W, Head(reps[W])) \in BlockIds \cup {None} /\ Forward(worker[W].state) \in States
    BY <1>2, <1>4, AnswerDoes
  <2>3. Changes(W, Forward(worker[W].state), FdOf(W, Head(reps[W])), worker[W].mon)
    BY <1>2, <2>1, <2>2 DEF Changes, Record, Answered
  <2> QED
    BY <1>1, <1>4, <2>1, <2>3
<1>5. CASE worker[W].state # "CONNECTED" /\ reps[W] = <<>>
  <2>1. worker' = [worker EXCEPT ![W].mon = "in"] /\ reps' = reps /\ inMon' = inMon + 1
    BY <1>5 DEF RecvReply, AwaitReply
  <2>2. Changes(W, worker[W].state, worker[W].fd, "in")
    BY <1>2, <2>1 DEF Changes, Record
  <2> QED
    BY <1>1, <1>5, <2>1, <2>2
<1> QED
  BY <1>3, <1>4, <1>5

LEMMA ReadableDoes ==
  ASSUME Typed, NEW w \in Workers, SockReadable(w)
  PROVE  /\ pc \in {"flush", "collect", "closeFlush"} /\ worker[w].mon = "in" /\ reps[w] # <<>>
         /\ inMon' = inMon - 1 /\ reps' = [reps EXCEPT ![w] = Tail(@)]
         /\ UNCHANGED <<pc, cur, idx, held, out, reqs, open, timeOuts>>
         /\ Changes(w, Forward(worker[w].state), FdOf(w, Head(reps[w])), "none")
<1>1. worker \in [Workers -> Record] /\ reps[w] # <<>>
  BY TypeFacts DEF SockReadable
<1>2. worker' = [worker EXCEPT ![w] = [Answered(w) EXCEPT !.mon = "none"]]
  BY DEF SockReadable, RemoveSock
<1>3. FdOf(w, Head(reps[w])) \in BlockIds \cup {None} /\ Forward(worker[w].state) \in States
  BY <1>1, AnswerDoes
<1>4. Changes(w, Forward(worker[w].state), FdOf(w, Head(reps[w])), "none")
  BY <1>1, <1>2, <1>3 DEF Changes, Record, Answered
<1> QED
  BY <1>4 DEF SockReadable, RemoveSock

LEMMA CloseDoes ==
  ASSUME Typed, ListsComplete, WorkersOfBlocks, CloseBlockInServer
  PROVE  /\ pc = "close" /\ Advance(Len(Mine), "closeFlush") /\ UNCHANGED <<cur, held, reps, open, timeOuts>>
         /\ worker' \in [Workers -> Record] /\ \A v \in Workers : v # W => worker'[v] = worker[v]
         /\ worker'[W].use = FALSE /\ worker'[W].srv = worker[W].srv
         /\ worker'[W].block = worker[W].block /\ worker'[W].fd = worker[W].fd
         /\ \/ /\ worker[W].state \in {"WRITE", "READ"} /\ worker'[W].state = "CONNECTED"
               /\ worker'[W].mon = worker[W].mon /\ UNCHANGED <<inMon, out>>
               /\ reqs' = [reqs EXCEPT ![W] = Append(@, Close(worker[W].fd))]
            \/ /\ worker[W].state \in {"WRITE", "READ"} /\ worker'[W].state = "WRITE_OVER"
               /\ worker'[W].mon = "out" /\ inMon' = inMon + 1 /\ UNCHANGED reqs
               /\ out' = [out EXCEPT ![W] = <<Close(worker[W].fd)>>]
            \/ /\ worker[W].state \notin {"WRITE", "READ"} /\ worker'[W].state = worker[W].state
               /\ worker'[W].mon = worker[W].mon /\ UNCHANGED <<inMon, out, reqs>>
<1>1. pc = "close" /\ Advance(Len(Mine), "closeFlush") /\ UNCHANGED <<cur, held, reps, open, timeOuts>>
  BY DEF CloseBlockInServer
<1>2. worker \in [Workers -> Record] /\ W \in Workers
  BY <1>1, TypeFacts, WorkerInTurn
<1>3. CASE /\ worker[W].state \in {"WRITE", "READ"} /\ UNCHANGED <<inMon, out>>
           /\ worker' = [worker EXCEPT ![W].state = "CONNECTED", ![W].use = FALSE]
           /\ reqs' = [reqs EXCEPT ![W] = Append(@, Close(worker[W].fd))]
  BY <1>1, <1>2, <1>3 DEF Record, States
<1>4. CASE /\ worker[W].state \in {"WRITE", "READ"} /\ inMon' = inMon + 1 /\ UNCHANGED reqs
           /\ worker' = [worker EXCEPT ![W].state = "WRITE_OVER", ![W].use = FALSE, ![W].mon = "out"]
           /\ out' = [out EXCEPT ![W] = <<Close(worker[W].fd)>>]
  <2> DEFINE new == [worker[W] EXCEPT !.state = "WRITE_OVER", !.use = FALSE, !.mon = "out"]
  <2>a. new \in Record
    BY <1>2 DEF Record, States
  <2>2. worker'[W] = new /\ worker' = [worker EXCEPT ![W] = new]
    BY <1>2, <1>4
  <2>1. worker' \in [Workers -> Record] /\ \A v \in Workers : v # W => worker'[v] = worker[v]
    <3> HIDE DEF new
    <3> QED
      BY <1>2, <2>a, <2>2
  <2>3. /\ worker'[W].use = FALSE /\ worker'[W].srv = worker[W].srv
        /\ worker'[W].block = worker[W].block /\ worker'[W].fd = worker[W].fd
        /\ worker'[W].state = "WRITE_OVER" /\ worker'[W].mon = "out"
    BY <1>2, <2>2 DEF Record
  <2> QED
    BY <1>1, <1>4, <2>1, <2>3
<1>5. CASE /\ worker[W].state \notin {"WRITE", "READ"} /\ UNCHANGED <<inMon, out, reqs>>
           /\ worker' = [worker EXCEPT ![W].use = FALSE]
  BY <1>1, <1>2, <1>5 DEF Record
<1> QED
  BY <1>3, <1>4, <1>5 DEF CloseBlockInServer, ClosesIn, Close

\* While no idle worker is connected to the server of the next block, every kept
\* worker can have a block that is not this one.
LEMMA Reassigned ==
  ASSUME Typed, ListsComplete, WorkersOfBlocks, Sockets, PoolSuffices,
         pc = "alloc", ConnectedTo(Blocks[cur][idx]) = {}
  PROVE  \E h \in [Kept -> BlockIds] : Assignment(h) /\ \A w \in Kept : h[w] # <<cur, idx>>
<1> DEFINE s == Blocks[cur][idx]
           Holds(w, b) == b[2] \in 1 .. Len(held[b[1]]) /\ held[b[1]][b[2]] = w
           Of(w) == CHOOSE b \in BlockIds : Holds(w, b)
<1>1. PICK g \in [Kept -> BlockIds] : Assignment(g)
  BY DEF PoolSuffices
<1>2. ASSUME NEW w \in Kept, worker[w].srv = s
      PROVE  Of(w) \in BlockIds /\ Holds(w, Of(w))
  <2>1. w \in Pool /\ w \in Workers
    BY DEF PoolSuffices, Kept
  <2>2. worker[w].use
    BY <1>2, <2>1 DEF Kept, ConnectedTo, Sockets, MonitoredFor
  <2>3. PICK f \in Files : \E i \in 1 .. Len(held[f]) : held[f][i] = w
    BY <2>1, <2>2 DEF WorkersOfBlocks
  <2>4. PICK i \in 1 .. Len(held[f]) : held[f][i] = w
    BY <2>3
  <2>5. Len(held[f]) <= N(f) /\ N(f) \in Nat /\ Len(held[f]) \in Nat
    BY TypeFacts, BlockIdsAre DEF ListsComplete
  <2>6. <<f, i>> \in BlockIds
    BY <2>4, <2>5, BlockIdsAre
  <2>7. Holds(w, <<f, i>>)
    BY <2>4
  <2> HIDE DEF Holds
  <2> QED
    BY <2>6, <2>7
<1> DEFINE h == [w \in Kept |-> IF worker[w].srv = s THEN Of(w) ELSE g[w]]
<1>3. ASSUME NEW w \in Kept, worker[w].srv = s
      PROVE  /\ h[w] \in BlockIds /\ Holds(w, h[w]) /\ h[w] # <<cur, idx>>
             /\ Blocks[h[w][1]][h[w][2]] = s
  <2>1. h[w] = Of(w)
    BY <1>3
  <2>2. h[w] \in BlockIds /\ Holds(w, h[w])
    BY <1>2, <1>3, <2>1
  <2> HIDE DEF h, Of
  <2>3. h[w][1] \in Files
    BY <2>2, BlockIdsAre
  <2>4. Blocks[h[w][1]][h[w][2]] = s
    BY <1>3, <2>2, <2>3 DEF WorkersOfBlocks
  <2>5. h[w] # <<cur, idx>>
    <3> SUFFICES ASSUME h[w] = <<cur, idx>> PROVE FALSE
      OBVIOUS
    <3>1. idx \in 1 .. Len(held[cur]) /\ Len(held[cur]) = idx - 1 /\ idx \in Nat
      BY <2>2, TypeFacts DEF ListsComplete
    <3> QED
      BY <3>1
  <2> QED
    BY <2>2, <2>4, <2>5
<1>4. ASSUME NEW w \in Kept, worker[w].srv # s
      PROVE  h[w] = g[w] /\ h[w] \in BlockIds /\ Blocks[h[w][1]][h[w][2]] = worker[w].srv
  BY <1>1, <1>4 DEF Assignment
<1> HIDE DEF h, Of, s
<1>5. h \in [Kept -> BlockIds]
  <2>1. \A w \in Kept : h[w] \in BlockIds
    BY <1>3, <1>4
  <2> QED
    BY <2>1 DEF h
<1>6. ASSUME NEW v \in Kept, NEW w \in Kept, h[v] = h[w] PROVE v = w
  <2>1. CASE worker[v].srv = s /\ worker[w].srv = s
    BY <1>3, <1>6, <2>1
  <2>2. CASE worker[v].srv # s /\ worker[w].srv # s
    BY <1>1, <1>4, <1>6, <2>2 DEF Assignment
  <2>3. CASE worker[v].srv = s /\ worker[w].srv # s
    BY <1>3, <1>4, <1>6, <2>3
  <2>4. CASE worker[v].srv # s /\ worker[w].srv = s
    BY <1>3, <1>4, <1>6, <2>4
  <2> QED
    BY <2>1, <2>2, <2>3, <2>4
<1>7. \A w \in Kept : worker[w].srv = Blocks[h[w][1]][h[w][2]]
  BY <1>3, <1>4
<1>8. \A w \in Kept : h[w] # <<cur, idx>>
  <2> SUFFICES ASSUME NEW w \in Kept PROVE h[w] # <<cur, idx>>
    OBVIOUS
  <2>1. CASE worker[w].srv = s
    BY <1>3, <2>1
  <2>2. CASE worker[w].srv # s
    BY <1>4, <2>2 DEF s
  <2> QED
    BY <2>1, <2>2
<1> QED
  BY <1>5, <1>6, <1>7, <1>8 DEF Assignment

\* The pool has a worker for the next block.
LEMMA NeverFresh ==
  ASSUME PoolIsLargeEnough, Typed, ListsComplete, WorkersOfBlocks, Sockets, PoolSuffices, pc = "alloc"
  PROVE  ~(ConnectedTo(Blocks[cur][idx]) = {} /\ UnConnected = {})
<1> SUFFICES ASSUME ConnectedTo(Blocks[cur][idx]) = {}, UnConnected = {} PROVE FALSE
  OBVIOUS
<1> DEFINE b == <<cur, idx>>
           Others == BlockIds \ {b}
<1>1. PICK h \in [Kept -> BlockIds] : Assignment(h) /\ \A w \in Kept : h[w] # b
  BY Reassigned
<1>2. Pool = Kept
  BY TypeFacts DEF UnConnected, Kept, PoolSuffices
<1>3. b \in BlockIds
  BY TypeFacts, BlockIdsAre DEF ListsComplete
<1>4. h \in Injection(Pool, Others)
  <2>1. \A w \in Pool : h[w] \in Others
    BY <1>1, <1>2
  <2>2. h \in [Pool -> Others]
    BY <1>2, <2>1
  <2>3. \A v, w \in Pool : h[v] = h[w] => v = w
    BY <1>1, <1>2 DEF Assignment
  <2> QED
    BY <2>2, <2>3 DEF Injection, IsInjective
<1> HIDE DEF b
<1>5. IsFiniteSet(BlockIds) /\ Cardinality(BlockIds) \in Nat
  BY FS_CardinalityType DEF PoolIsLargeEnough
<1>6. IsFiniteSet(Others) /\ Cardinality(Others) = Cardinality(BlockIds) - 1
  BY <1>3, <1>5, FS_RemoveElement
<1> HIDE DEF Others
<1>7. Cardinality(Pool) <= Cardinality(Others)
  BY <1>4, <1>6, FS_Injection
<1>8. Cardinality(Pool) = PoolSize /\ PoolSize \in Nat
  BY PoolAssumption, FS_Interval DEF Pool
<1> QED
  BY <1>5, <1>6, <1>7, <1>8 DEF PoolIsLargeEnough

\* The worker that a block gets is one of the pool that no block has.
LEMMA AllocDoes ==
  ASSUME PoolIsLargeEnough, Typed, ListsComplete, WorkersOfBlocks, Sockets, PoolSuffices, AllocABlockWorker
  PROVE  \E w \in Pool :
           /\ pc = "alloc" /\ Advance(Len(Blocks[cur]), "connect")
           /\ UNCHANGED <<inMon, cur, netVars, timeOuts, out>>
           /\ ~worker[w].use
           /\ \/ worker[w].state = "CONNECTED" /\ worker[w].srv = Blocks[cur][idx]
              \/ worker[w].state # "CONNECTED" /\ ConnectedTo(Blocks[cur][idx]) = {}
           /\ held' = [held EXCEPT ![cur] = Append(@, w)]
           /\ worker' \in [Workers -> Record] /\ \A v \in Workers : v # w => worker'[v] = worker[v]
           /\ worker'[w].use = TRUE /\ worker'[w].srv = Blocks[cur][idx] /\ worker'[w].block = <<cur, idx>>
           /\ worker'[w].state = worker[w].state /\ worker'[w].fd = worker[w].fd
           /\ worker'[w].mon = worker[w].mon
<1> DEFINE s == Blocks[cur][idx]
           S == IF ConnectedTo(s) # {} THEN ConnectedTo(s) ELSE UnConnected
           w == Lowest(S)
<1>1. pc = "alloc" /\ Advance(Len(Blocks[cur]), "connect") /\ UNCHANGED <<inMon, cur, netVars, timeOuts>>
  BY DEF AllocABlockWorker
<1>2. ~(ConnectedTo(s) = {} /\ UnConnected = {})
  BY <1>1, NeverFresh
<1>3. S # {} /\ S \in SUBSET Pool /\ Pool \in SUBSET Nat
  BY <1>2 DEF ConnectedTo, UnConnected, Pool
<1>4. w \in S /\ w \in Pool
  BY <1>3, LowestIsMember
<1> HIDE DEF w
<1>5. /\ worker' = [worker EXCEPT ![w] = [[worker[w] EXCEPT !.use = TRUE] EXCEPT
             !.srv = IF [worker[w] EXCEPT !.use = TRUE].state = "CONNECTED" THEN @ ELSE s,
             !.block = <<cur, idx>>]]
      /\ held' = [held EXCEPT ![cur] = Append(@, w)] /\ out' = out
  BY <1>2 DEF AllocABlockWorker, TakeWorker, w
<1>6. /\ ~worker[w].use
      /\ \/ worker[w].state = "CONNECTED" /\ worker[w].srv = s
         \/ worker[w].state # "CONNECTED" /\ ConnectedTo(s) = {}
  BY <1>4 DEF ConnectedTo, UnConnected
<1>7. worker \in [Workers -> Record] /\ w \in Workers /\ <<cur, idx>> \in BlockIds /\ s \in Servers
  BY <1>1, <1>4, TypeFacts, BlockIdsAre DEF ListsComplete
<1> HIDE DEF S, s
<1>8. /\ worker' \in [Workers -> Record] /\ \A v \in Workers : v # w => worker'[v] = worker[v]
      /\ worker'[w].use = TRUE /\ worker'[w].srv = s /\ worker'[w].block = <<cur, idx>>
      /\ worker'[w].state = worker[w].state /\ worker'[w].fd = worker[w].fd
      /\ worker'[w].mon = worker[w].mon
  BY <1>5, <1>6, <1>7 DEF Record
<1> QED
  BY <1>1, <1>4, <1>5, <1>6, <1>8 DEF s

LEMMA TimeOutDoes ==
  ASSUME Typed, ListsComplete, WorkersOfBlocks, TimeOut
  PROVE  /\ pc \in {"flush", "collect"} /\ timeOuts' \in 1 .. MaxTimeOuts
         /\ UNCHANGED <<inMon, pc, cur, idx, held, out, netVars>>
         /\ worker' \in [Workers -> Record]
         /\ \A v \in Workers :
              /\ worker'[v].use = worker[v].use /\ worker'[v].srv = worker[v].srv
              /\ worker'[v].block = worker[v].block /\ worker'[v].mon = worker[v].mon
              /\ worker'[v].state \in {worker[v].state, "REQUEST_READ"}
              /\ worker'[v].state # worker[v].state => worker[v].use
<1>1. worker \in [Workers -> Record] /\ pc \in {"flush", "collect"} /\ timeOuts \in Nat
  BY TypeFacts DEF TimeOut
<1>2. worker' = [v \in Workers |-> IF v \in DataWorkers
                   THEN [worker[v] EXCEPT !.state = "REQUEST_READ"] ELSE worker[v]]
  BY DEF TimeOut
<1>3. ASSUME NEW v \in DataWorkers PROVE worker[v].use
  <2>1. PICK i \in 1 .. StripeK : Mine[i] = v
    BY <1>3 DEF DataWorkers
  <2>2. cur \in Files /\ Len(held[cur]) = N(cur) /\ StripeK <= N(cur) /\ StripeK \in Nat /\ N(cur) \in Nat
    BY <1>1, TypeFacts, StripeAssumption, BlockIdsAre DEF ListsComplete, N
  <2>3. i \in 1 .. Len(held[cur]) /\ held[cur][i] = v
    BY <2>1, <2>2 DEF Mine
  <2> QED
    BY <1>1, <2>2, <2>3 DEF WorkersOfBlocks, Released
<1>4. /\ worker' \in [Workers -> Record]
      /\ \A v \in Workers :
              /\ worker'[v].use = worker[v].use /\ worker'[v].srv = worker[v].srv
              /\ worker'[v].block = worker[v].block /\ worker'[v].mon = worker[v].mon
              /\ worker'[v].state \in {worker[v].state, "REQUEST_READ"}
              /\ worker'[v].state # worker[v].state => v \in DataWorkers
  BY <1>1, <1>2 DEF Record, States
<1>5. timeOuts' \in 1 .. MaxTimeOuts
  BY <1>1, BoundAssumption DEF TimeOut
<1> QED
  BY <1>1, <1>3, <1>4, <1>5 DEF TimeOut

-----------------------------------------------------------------------------
(* Every variable keeps its kind. *)

LEMMA TypedFrom ==
  ASSUME Typed, worker' \in [Workers -> Record], inMon' \in Nat, cur' \in Files, idx' \in Nat,
         timeOuts' \in 0 .. MaxTimeOuts,
         pc' \in {"idle", "alloc", "connect", "connecting", "open", "flush", "reply", "collect",
                  "close", "closeFlush"},
         held' \in [Files -> Seq(Workers)],
         out' \in [Workers -> Seq(Requests)], reqs' \in [Workers -> Seq(Requests)],
         reps' \in [Workers -> Seq([type : {"create", "open"}, fd : BlockIds])],
         open' \in [Workers -> SUBSET (BlockIds \cup {None})]
  PROVE  Typed'
<1> DEFINE R == [type : {"create", "open", "close"}, block : BlockIds \cup {None}]
<1>1. Requests \subseteq R
  BY DEF Requests
<1>2. Seq(Requests) \subseteq Seq(R)
  <2> HIDE DEF R
  <2> QED
    BY <1>1
<1>3. out' \in [Workers -> Seq(R)] /\ reqs' \in [Workers -> Seq(R)]
  BY <1>2
<1> QED
  BY <1>3 DEF Typed, TypeOK, Record

LEMMA TypedStep ==
  ASSUME PoolIsLargeEnough, PoolInv, [Next]_vars
  PROVE  Typed'
<1>1. Typed /\ ListsComplete /\ WorkersOfBlocks /\ Sockets /\ PoolSuffices
  BY DEF PoolInv
<1>2. /\ worker \in [Workers -> Record] /\ inMon \in Nat /\ cur \in Files /\ idx \in Nat
      /\ timeOuts \in 0 .. MaxTimeOuts
      /\ pc \in {"idle", "alloc", "connect", "connecting", "open", "flush", "reply", "collect",
                 "close", "closeFlush"}
      /\ held \in [Files -> Seq(Workers)]
  BY <1>1, TypeFacts DEF Typed, TypeOK
<1>3. /\ out \in [Workers -> Seq(Requests)] /\ reqs \in [Workers -> Seq(Requests)]
      /\ reps \in [Workers -> Seq([type : {"create", "open"}, fd : BlockIds])]
      /\ open \in [Workers -> SUBSET (BlockIds \cup {None})]
  BY <1>1 DEF Typed, TypeOK
<1>4. inMon + 1 \in Nat /\ \A w \in Monitored : inMon - 1 \in Nat
  BY <1>1, <1>2, MonitoredCount
<1>5. \A f \in Files : N(f) \in Nat \ {0}
  BY BlockIdsAre
<1>6. pc \notin {"idle", "alloc"} => W \in Workers /\ idx \in 1 .. Len(Mine) /\ Len(Mine) \in Nat \ {0}
  BY <1>1, <1>2, <1>5, WorkerInTurn
<1>7. \A q \in Seq(Requests), r \in Requests : <<r>> \in Seq(Requests) /\ Append(q, r) \in Seq(Requests)
  OBVIOUS
<1>8. CASE \E f \in Files : UseFile(f) \/ CloseFile(f)
  <2>1. PICK f \in Files : UseFile(f) \/ CloseFile(f)
    BY <1>8
  <2>2. cur' = f /\ pc' \in {"alloc", "close"} /\ idx' = 1
        /\ UNCHANGED <<worker, inMon, held, out, reqs, reps, open, timeOuts>>
    BY <2>1 DEF UseFile, CloseFile, netVars
  <2> QED
    BY <1>1, <1>2, <1>3, <2>2, TypedFrom
<1>9. CASE AllocABlockWorker
  <2>1. PICK w \in Pool :
           /\ pc = "alloc" /\ Advance(Len(Blocks[cur]), "connect")
           /\ UNCHANGED <<inMon, cur, netVars, timeOuts, out>>
           /\ held' = [held EXCEPT ![cur] = Append(@, w)]
           /\ worker' \in [Workers -> Record]
    BY <1>1, <1>9, AllocDoes
  <2>2. w \in Workers
    BY <1>1, TypeFacts
  <2>3. held' \in [Files -> Seq(Workers)]
    BY <1>2, <2>1, <2>2
  <2>4. idx \in 1 .. N(cur)
    BY <1>1, <2>1 DEF ListsComplete
  <2>5. pc' \in {pc, "connect"} /\ idx' \in Nat
    BY <1>2, <1>5, <2>1, <2>4, Turn DEF N
  <2> QED
    BY <1>1, <1>2, <1>3, <2>1, <2>3, <2>5, TypedFrom DEF netVars
<1>10. CASE ConnectABlockWorker
  <2>1. pc = "connect" /\ Advance(Len(Mine), "connecting") /\ UNCHANGED <<cur, held, out, netVars, timeOuts>>
        /\ worker' \in [Workers -> Record] /\ inMon' \in {inMon, inMon + 1}
    BY <1>1, <1>2, <1>10, ConnectDoes DEF Changes
  <2>2. pc' \in {pc, "connecting"} /\ idx' \in Nat
    BY <1>6, <2>1, Turn
  <2> QED
    BY <1>1, <1>2, <1>3, <1>4, <2>1, <2>2, TypedFrom DEF netVars
<1>11. CASE \E w \in Workers : Connected(w)
  <2>1. PICK w \in Workers : Connected(w)
    BY <1>11
  <2>2. w \in Monitored
    BY <2>1 DEF Connected, Monitored
  <2>3. inMon' \in Nat /\ UNCHANGED <<pc, cur, idx, held, out, netVars, timeOuts>>
        /\ worker' \in [Workers -> Record]
    BY <1>1, <1>4, <2>1, <2>2, ConnectedDoes DEF Changes
  <2> QED
    BY <1>1, <1>2, <1>3, <2>3, TypedFrom DEF netVars
<1>12. CASE OpenBlock
  <2>1. pc = "open" /\ Advance(Len(Mine), "flush") /\ UNCHANGED <<cur, held, reps, open, timeOuts>>
        /\ worker' \in [Workers -> Record] /\ inMon' \in {inMon, inMon + 1}
        /\ out' \in {out, [out EXCEPT ![W] = <<OpenRq>>]}
        /\ reqs' \in {reqs, [reqs EXCEPT ![W] = Append(@, OpenRq)]}
    BY <1>1, <1>2, <1>12, OpenDoes DEF Changes
  <2>2. pc' \in {pc, "flush"} /\ idx' \in Nat
    BY <1>6, <2>1, Turn
  <2>3. OpenRq \in Requests
    BY <1>1, <2>1, WorkerInTurn DEF OpenRq, Requests
  <2>4. ASSUME NEW q, q \in {out, reqs}, NEW q1, q1 \in {q, [q EXCEPT ![W] = <<OpenRq>>],
                                                    [q EXCEPT ![W] = Append(@, OpenRq)]}
        PROVE  q1 \in [Workers -> Seq(Requests)]
    <3>1. q \in [Workers -> Seq(Requests)] /\ W \in Workers
      BY <1>3, <1>6, <2>1, <2>4
    <3>2. <<OpenRq>> \in Seq(Requests) /\ Append(q[W], OpenRq) \in Seq(Requests)
      BY <1>7, <2>3, <3>1
    <3> QED
      BY <2>4, <3>1, <3>2
  <2>5. out' \in [Workers -> Seq(Requests)] /\ reqs' \in [Workers -> Seq(Requests)]
    BY <2>1, <2>4
  <2> QED
    BY <1>1, <1>2, <1>3, <1>4, <2>1, <2>2, <2>4, TypedFrom
<1>13. CASE \E w \in Workers : SockWritable(w)
  <2>1. PICK w \in Workers : SockWritable(w)
    BY <1>13
  <2>2. w \in Monitored
    BY <2>1 DEF SockWritable, Monitored
  <2>3. inMon' \in Nat /\ UNCHANGED <<pc, cur, idx, held, reps, open, timeOuts>> /\ worker' \in [Workers -> Record]
        /\ reqs' = [reqs EXCEPT ![w] = @ \o out[w]] /\ out' = [out EXCEPT ![w] = <<>>]
    BY <1>1, <1>4, <2>1, <2>2, WritableDoes DEF Changes
  <2>4. reqs[w] \o out[w] \in Seq(Requests) /\ <<>> \in Seq(Requests)
    BY <1>3
  <2>5. out' \in [Workers -> Seq(Requests)] /\ reqs' \in [Workers -> Seq(Requests)]
    BY <1>3, <2>3, <2>4
  <2> QED
    BY <1>1, <1>2, <1>3, <2>3, <2>5, TypedFrom
<1>14. CASE RecvReply
  <2>1. pc = "reply" /\ Advance(Len(Mine), "collect") /\ UNCHANGED <<cur, held, out, reqs, open, timeOuts>>
        /\ worker' \in [Workers -> Record] /\ inMon' \in {inMon, inMon + 1}
        /\ (reps' = reps \/ (reps[W] # <<>> /\ reps' = [reps EXCEPT ![W] = Tail(@)]))
    BY <1>1, <1>2, <1>14, RecvDoes DEF Changes
  <2>2. pc' \in {pc, "collect"} /\ idx' \in Nat
    BY <1>6, <2>1, Turn
  <2>3. reps' \in [Workers -> Seq([type : {"create", "open"}, fd : BlockIds])]
    BY <1>1, <1>3, <1>6, <2>1, AnswerDoes
  <2> QED
    BY <1>1, <1>2, <1>3, <1>4, <2>1, <2>2, <2>3, TypedFrom
<1>15. CASE \E w \in Workers : SockReadable(w)
  <2>1. PICK w \in Workers : SockReadable(w)
    BY <1>15
  <2>2. w \in Monitored
    BY <2>1 DEF SockReadable, Monitored
  <2>3. inMon' \in Nat /\ UNCHANGED <<pc, cur, idx, held, out, reqs, open, timeOuts>>
        /\ worker' \in [Workers -> Record] /\ reps[w] # <<>> /\ reps' = [reps EXCEPT ![w] = Tail(@)]
    BY <1>1, <1>4, <2>1, <2>2, ReadableDoes DEF Changes
  <2>4. reps' \in [Workers -> Seq([type : {"create", "open"}, fd : BlockIds])]
    BY <1>1, <1>3, <2>3, AnswerDoes
  <2> QED
    BY <1>1, <1>2, <1>3, <2>3, <2>4, TypedFrom
<1>16. CASE TimeOut
  <2>1. timeOuts' \in 0 .. MaxTimeOuts /\ worker' \in [Workers -> Record]
        /\ UNCHANGED <<inMon, pc, cur, idx, held, out, netVars>>
    BY <1>1, <1>16, TimeOutDoes, BoundAssumption
  <2> QED
    BY <1>1, <1>2, <1>3, <2>1, TypedFrom DEF netVars
<1>17. CASE PhaseOver \/ FileClosed
  <2>1. idx' \in Nat /\ UNCHANGED <<worker, inMon, cur, out, netVars, timeOuts>>
    BY <1>2, <1>17 DEF PhaseOver, FileClosed
  <2>2. held' \in [Files -> Seq(Workers)]
    <3>1. <<>> \in Seq(Workers) /\ held' \in {held, [held EXCEPT ![cur] = <<>>]}
      BY <1>17 DEF PhaseOver, FileClosed
    <3> QED
      BY <1>2, <3>1
  <2>3. pc' \in {"open", "reply", "idle"}
    BY <1>17 DEF PhaseOver, FileClosed
  <2> QED
    BY <1>1, <1>2, <1>3, <2>1, <2>2, <2>3, TypedFrom DEF netVars
<1>18. CASE CloseBlockInServer
  <2>1. pc = "close" /\ Advance(Len(Mine), "closeFlush") /\ UNCHANGED <<cur, held, reps, open, timeOuts>>
        /\ worker' \in [Workers -> Record] /\ inMon' \in {inMon, inMon + 1}
        /\ out' \in {out, [out EXCEPT ![W] = <<Close(worker[W].fd)>>]}
        /\ reqs' \in {reqs, [reqs EXCEPT ![W] = Append(@, Close(worker[W].fd))]}
    BY <1>1, <1>18, CloseDoes
  <2>2. pc' \in {pc, "closeFlush"} /\ idx' \in Nat
    BY <1>6, <2>1, Turn
  <2>3. Close(worker[W].fd) \in Requests
    BY <1>2, <1>6, <2>1 DEF Close, Requests, Record
  <2>4. ASSUME NEW q, q \in {out, reqs}, NEW q1, q1 \in {q, [q EXCEPT ![W] = <<Close(worker[W].fd)>>],
                                                    [q EXCEPT ![W] = Append(@, Close(worker[W].fd))]}
        PROVE  q1 \in [Workers -> Seq(Requests)]
    <3>1. q \in [Workers -> Seq(Requests)] /\ W \in Workers
      BY <1>3, <1>6, <2>1, <2>4
    <3>2. <<Close(worker[W].fd)>> \in Seq(Requests) /\ Append(q[W], Close(worker[W].fd)) \in Seq(Requests)
      BY <1>7, <2>3, <3>1
    <3> QED
      BY <2>4, <3>1, <3>2
  <2>5. out' \in [Workers -> Seq(Requests)] /\ reqs' \in [Workers -> Seq(Requests)]
    BY <2>1, <2>4
  <2> QED
    BY <1>1, <1>2, <1>3, <1>4, <2>1, <2>2, <2>4, TypedFrom
<1>19. CASE \E w \in Workers : ServerAnswers(w)
  <2>1. PICK w \in Workers : ServerAnswers(w)
    BY <1>19
  <2> DEFINE r == Head(reqs[w])
  <2>2. reqs[w] \in Seq(Requests) /\ reqs[w] # <<>>
    BY <1>3, <2>1 DEF ServerAnswers
  <2>3. r \in Requests /\ Tail(reqs[w]) \in Seq(Requests)
    BY <2>2
  <2> HIDE DEF r
  <2>4. /\ reqs' = [reqs EXCEPT ![w] = Tail(@)] /\ UNCHANGED <<worker, inMon, pc, cur, idx, held, out, timeOuts>>
        /\ \/ r.type = "close" /\ open' = [open EXCEPT ![w] = @ \ {r.block}] /\ UNCHANGED reps
           \/ /\ r.type # "close" /\ open' = [open EXCEPT ![w] = @ \cup {r.block}]
              /\ reps' = [reps EXCEPT ![w] = Append(@, [type |-> r.type, fd |-> r.block])]
    BY <2>1 DEF ServerAnswers, r
  <2>5. r.block \in BlockIds \cup {None} /\ (r.type # "close" => [type |-> r.type, fd |-> r.block]
                                               \in [type : {"create", "open"}, fd : BlockIds])
    BY <2>3 DEF Requests
  <2>6. open' \in [Workers -> SUBSET (BlockIds \cup {None})]
    <3>1. open[w] \ {r.block} \in SUBSET (BlockIds \cup {None})
          /\ open[w] \cup {r.block} \in SUBSET (BlockIds \cup {None})
      BY <1>3, <2>5
    <3>2. CASE open' = [open EXCEPT ![w] = @ \ {r.block}]
      BY <1>3, <3>1, <3>2
    <3>3. CASE open' = [open EXCEPT ![w] = @ \cup {r.block}]
      BY <1>3, <3>1, <3>3
    <3> QED
      BY <2>4, <3>2, <3>3
  <2> DEFINE R == [type : {"create", "open"}, fd : BlockIds]
  <2>7. reps' \in [Workers -> Seq(R)]
    <3>1. CASE reps' = reps
      BY <1>3, <3>1
    <3>2. CASE r.type # "close" /\ reps' = [reps EXCEPT ![w] = Append(@, [type |-> r.type, fd |-> r.block])]
      <4> DEFINE a == [type |-> r.type, fd |-> r.block]
      <4>1. a \in R /\ reps \in [Workers -> Seq(R)]
        BY <1>3, <2>5, <3>2
      <4>2. reps' = [reps EXCEPT ![w] = Append(@, a)]
        BY <3>2
      <4> HIDE DEF a, R
      <4> QED
        BY <4>1, <4>2
    <3> QED
      BY <2>4, <3>1, <3>2
  <2>8. reqs' \in [Workers -> Seq(Requests)]
    BY <1>3, <2>3, <2>4
  <2> QED
    BY <1>1, <1>2, <1>3, <2>4, <2>6, <2>7, <2>8, TypedFrom
<1>20. CASE UNCHANGED vars
  BY <1>1, <1>2, <1>3, <1>20, TypedFrom DEF vars, netVars
<1> QED
  BY <1>8, <1>9, <1>10, <1>11, <1>12, <1>13, <1>14, <1>15, <1>16, <1>17, <1>18, <1>19, <1>20
  DEF Next, Library

-----------------------------------------------------------------------------
(* The lists of workers. *)

\* No worker is taken, given back or given to another block.
SameBlocks ==
  /\ held' = held
  /\ \A v \in Workers : worker'[v].use = worker[v].use /\ worker'[v].srv = worker[v].srv
                        /\ worker'[v].block = worker[v].block

LEMMA SameBlocksStep ==
  ASSUME Typed, WorkersOfBlocks, SameBlocks,
         \A f \in Files : \A i \in 1 .. Len(held[f]) : Released(f, i)' <=> Released(f, i)
  PROVE  WorkersOfBlocks'
<1>1. \A f \in Files : \A i \in 1 .. Len(held[f]) : held[f][i] \in Workers
  BY TypeFacts
<1>2. \A f, g \in Files : \A i \in 1 .. Len(held'[f]), j \in 1 .. Len(held'[g]) :
        held'[f][i] = held'[g][j] => f = g /\ i = j
  BY DEF WorkersOfBlocks, SameBlocks
<1>3. \A w \in Workers : worker'[w].use => \E f \in Files : \E i \in 1 .. Len(held'[f]) : held'[f][i] = w
  BY DEF WorkersOfBlocks, SameBlocks
<1>4. ASSUME NEW f \in Files, NEW i \in 1 .. Len(held[f])
      PROVE  LET w == worker'[held[f][i]] IN
               /\ held[f][i] \in Pool
               /\ w.srv = Blocks[f][i] /\ w.block = <<f, i>>
               /\ w.use <=> ~Released(f, i)'
  <2>1. /\ held[f][i] \in Pool /\ worker[held[f][i]].srv = Blocks[f][i]
        /\ worker[held[f][i]].block = <<f, i>> /\ (worker[held[f][i]].use <=> ~Released(f, i))
    BY DEF WorkersOfBlocks
  <2>2. Released(f, i)' <=> Released(f, i)
    OBVIOUS
  <2> QED
    BY <1>1, <2>1, <2>2 DEF SameBlocks
<1> QED
  BY <1>2, <1>3, <1>4 DEF WorkersOfBlocks, SameBlocks

\* A phase that takes nothing and gives nothing back.
LEMMA TurnKeepsLists ==
  ASSUME Typed, ListsComplete, WorkersOfBlocks, SameBlocks, NEW next,
         Advance(Len(Mine), next), cur' = cur,
         <<pc, next>> \in {<<"connect", "connecting">>, <<"open", "flush">>, <<"reply", "collect">>}
  PROVE  ListsComplete' /\ WorkersOfBlocks'
<1>1. pc \in {"connect", "open", "reply"} /\ next \in {"connecting", "flush", "collect"}
  OBVIOUS
<1>2. idx \in 1 .. N(cur) /\ Len(Mine) = N(cur) /\ Len(held[cur]) = N(cur) /\ cur \in Files
  BY <1>1, WorkerInTurn, TypeFacts
<1>3. N(cur) \in Nat \ {0}
  BY <1>2, BlockIdsAre
<1>4. pc' \in {pc, next} /\ idx' \in 1 .. N(cur)
  BY <1>2, <1>3, Turn
<1>5. ListsComplete'
  BY <1>1, <1>2, <1>4 DEF ListsComplete, SameBlocks, N
<1>6. \A f \in Files : \A i \in 1 .. Len(held[f]) : Released(f, i)' <=> Released(f, i)
  BY <1>1, <1>4 DEF Released
<1> QED
  BY <1>5, <1>6, SameBlocksStep

\* Between two turns nothing happens to the lists.
LEMMA QuietKeepsLists ==
  ASSUME Typed, ListsComplete, WorkersOfBlocks, SameBlocks, UNCHANGED <<pc, cur, idx>>
  PROVE  ListsComplete' /\ WorkersOfBlocks'
<1>1. ListsComplete'
  BY DEF ListsComplete, SameBlocks, N
<1>2. \A f \in Files : \A i \in 1 .. Len(held[f]) : Released(f, i)' <=> Released(f, i)
  BY DEF Released
<1> QED
  BY <1>1, <1>2, SameBlocksStep

LEMMA ChangesKeepsBlocks ==
  ASSUME NEW w \in Workers, NEW st, NEW fd, NEW mon, Changes(w, st, fd, mon), held' = held
  PROVE  SameBlocks
BY DEF Changes, SameBlocks

\* A file is chosen, a phase ends, a file has been closed.
LEMMA FileStepKeepsLists ==
  ASSUME Typed, ListsComplete, WorkersOfBlocks,
         (\E f \in Files : UseFile(f) \/ CloseFile(f)) \/ PhaseOver \/ FileClosed
  PROVE  ListsComplete' /\ WorkersOfBlocks'
<1>1. /\ cur \in Files /\ \A f \in Files : Len(held[f]) \in Nat /\ N(f) \in Nat \ {0}
      /\ held \in [Files -> Seq(Workers)]
  BY TypeFacts, BlockIdsAre
<1>2. ASSUME NEW f \in Files, UseFile(f) \/ CloseFile(f) PROVE ListsComplete' /\ WorkersOfBlocks'
  <2>1. pc = "idle" /\ cur' = f /\ idx' = 1 /\ UNCHANGED <<worker, held>>
        /\ \/ pc' = "alloc" /\ held[f] = <<>>
           \/ pc' = "close" /\ held[f] # <<>>
    BY <1>2 DEF UseFile, CloseFile
  <2>2. Len(held[f]) = IF pc' = "alloc" THEN 0 ELSE N(f)
    BY <1>1, <2>1 DEF ListsComplete
  <2>3. ListsComplete'
    BY <1>1, <2>1, <2>2 DEF ListsComplete, N
  <2>4. \A g \in Files : \A i \in 1 .. Len(held[g]) : Released(g, i)' <=> Released(g, i)
    BY <1>1, <2>1 DEF Released
  <2>5. SameBlocks
    BY <2>1 DEF SameBlocks
  <2> QED
    BY <2>3, <2>4, <2>5, SameBlocksStep
<1>3. CASE PhaseOver
  <2>1. idx' = 1 /\ UNCHANGED <<worker, held, cur>> /\ pc \in {"connecting", "flush", "collect"}
        /\ pc' \in {"open", "reply", "idle"}
    BY <1>3 DEF PhaseOver
  <2>2. ListsComplete'
    BY <1>1, <2>1 DEF ListsComplete, N
  <2>3. \A g \in Files : \A i \in 1 .. Len(held[g]) : Released(g, i)' <=> Released(g, i)
    BY <2>1 DEF Released
  <2>4. SameBlocks
    BY <2>1 DEF SameBlocks
  <2> QED
    BY <2>2, <2>3, <2>4, SameBlocksStep
<1>4. CASE FileClosed
  <2>1. pc = "closeFlush" /\ pc' = "idle" /\ UNCHANGED <<worker, cur, idx>>
        /\ held' = [held EXCEPT ![cur] = <<>>]
    BY <1>4 DEF FileClosed
  <2>2. held'[cur] = <<>> /\ \A f \in Files : f # cur => held'[f] = held[f]
    BY <1>1, <2>1
  <2>3. ListsComplete'
    BY <1>1, <2>1, <2>2 DEF ListsComplete, N
  <2>4. \A f, g \in Files : \A i \in 1 .. Len(held'[f]), j \in 1 .. Len(held'[g]) :
          held'[f][i] = held'[g][j] => f = g /\ i = j
    <3>1. \A f \in Files : \A i \in 1 .. Len(held'[f]) : i \in 1 .. Len(held[f]) /\ held'[f] = held[f]
      <4> SUFFICES ASSUME NEW f \in Files, NEW i \in 1 .. Len(held'[f])
                   PROVE  i \in 1 .. Len(held[f]) /\ held'[f] = held[f]
        OBVIOUS
      <4>1. f # cur
        BY <2>2
      <4> QED
        BY <2>2, <4>1
    <3>2. \A f, g \in Files : \A i \in 1 .. Len(held[f]), j \in 1 .. Len(held[g]) :
            held[f][i] = held[g][j] => f = g /\ i = j
      BY DEF WorkersOfBlocks
    <3> SUFFICES ASSUME NEW f \in Files, NEW g \in Files, NEW i \in 1 .. Len(held'[f]), NEW j \in 1 .. Len(held'[g]),
                        held'[f][i] = held'[g][j]
                 PROVE  f = g /\ i = j
      OBVIOUS
    <3> QED
      BY <3>1, <3>2
  <2>5. ASSUME NEW w \in Workers, worker'[w].use
        PROVE  \E f \in Files : \E i \in 1 .. Len(held'[f]) : held'[f][i] = w
    <3>1. PICK f \in Files : \E i \in 1 .. Len(held[f]) : held[f][i] = w
      BY <2>1, <2>5 DEF WorkersOfBlocks
    <3>2. PICK i \in 1 .. Len(held[f]) : held[f][i] = w
      BY <3>1
    <3>3. f # cur
      BY <2>1, <2>5, <3>2 DEF WorkersOfBlocks, Released
    <3> QED
      BY <2>2, <3>2, <3>3
  <2>6. ASSUME NEW f \in Files, NEW i \in 1 .. Len(held'[f])
        PROVE  LET w == worker'[held'[f][i]] IN
                 /\ held'[f][i] \in Pool
                 /\ w.srv = Blocks[f][i] /\ w.block = <<f, i>>
                 /\ w.use <=> ~Released(f, i)'
    <3>1. f # cur /\ held'[f] = held[f]
      BY <2>2
    <3>2. ~Released(f, i) /\ ~Released(f, i)'
      BY <2>1, <3>1 DEF Released
    <3>3. /\ held[f][i] \in Pool /\ worker[held[f][i]].srv = Blocks[f][i]
          /\ worker[held[f][i]].block = <<f, i>> /\ (worker[held[f][i]].use <=> ~Released(f, i))
      BY <3>1 DEF WorkersOfBlocks
    <3> QED
      BY <2>1, <3>1, <3>2, <3>3
  <2> QED
    BY <2>3, <2>4, <2>5, <2>6 DEF WorkersOfBlocks
<1> QED
  BY <1>2, <1>3, <1>4

\* allocABlockWorker appends a worker that no list has.
LEMMA AllocKeepsLists ==
  ASSUME PoolIsLargeEnough, Typed, ListsComplete, WorkersOfBlocks, Sockets, PoolSuffices, AllocABlockWorker
  PROVE  ListsComplete' /\ WorkersOfBlocks'
<1>1. PICK w \in Pool :
           /\ pc = "alloc" /\ Advance(Len(Blocks[cur]), "connect") /\ cur' = cur
           /\ ~worker[w].use /\ held' = [held EXCEPT ![cur] = Append(@, w)]
           /\ \A v \in Workers : v # w => worker'[v] = worker[v]
           /\ worker'[w].use = TRUE /\ worker'[w].srv = Blocks[cur][idx] /\ worker'[w].block = <<cur, idx>>
  BY AllocDoes
<1>2. /\ cur \in Files /\ \A f \in Files : Len(held[f]) \in Nat /\ N(f) \in Nat \ {0}
      /\ held \in [Files -> Seq(Workers)] /\ w \in Workers
      /\ \A f \in Files : \A i \in 1 .. Len(held[f]) : held[f][i] \in Workers
  BY TypeFacts, BlockIdsAre
<1>3. idx \in 1 .. N(cur) /\ Len(held[cur]) = idx - 1
  BY <1>1 DEF ListsComplete
<1>4. (pc' = pc /\ idx' = idx + 1 /\ idx # N(cur)) \/ (pc' = "connect" /\ idx' = 1 /\ idx = N(cur))
  BY <1>1, <1>2, <1>3, Turn DEF N
<1>5. /\ Len(held'[cur]) = idx /\ held'[cur][idx] = w
      /\ \A i \in 1 .. Len(held'[cur]) : i # idx => i \in 1 .. Len(held[cur]) /\ held'[cur][i] = held[cur][i]
      /\ \A f \in Files : f # cur => held'[f] = held[f]
  BY <1>1, <1>2, <1>3
<1>6. ListsComplete'
  BY <1>1, <1>2, <1>3, <1>4, <1>5 DEF ListsComplete, N
<1>7. \A f \in Files : \A i \in 1 .. Len(held[f]) : ~Released(f, i)
  BY <1>1 DEF Released
<1>8. \A f \in Files : \A i \in 1 .. Len(held[f]) : held[f][i] # w
  BY <1>1, <1>7 DEF WorkersOfBlocks
<1>9. ASSUME NEW f \in Files, NEW i \in 1 .. Len(held'[f])
      PROVE  \/ f = cur /\ i = idx /\ held'[f][i] = w
             \/ i \in 1 .. Len(held[f]) /\ held'[f][i] = held[f][i] /\ held[f][i] # w /\ ~(f = cur /\ i = idx)
  BY <1>2, <1>3, <1>5, <1>8
<1>10. \A f, g \in Files : \A i \in 1 .. Len(held'[f]), j \in 1 .. Len(held'[g]) :
          held'[f][i] = held'[g][j] => f = g /\ i = j
  <2> SUFFICES ASSUME NEW f \in Files, NEW g \in Files, NEW i \in 1 .. Len(held'[f]), NEW j \in 1 .. Len(held'[g]),
                      held'[f][i] = held'[g][j]
               PROVE  f = g /\ i = j
    OBVIOUS
  <2>1. CASE f = cur /\ i = idx
    BY <1>9, <2>1
  <2>2. CASE g = cur /\ j = idx
    BY <1>9, <2>2
  <2>3. CASE ~(f = cur /\ i = idx) /\ ~(g = cur /\ j = idx)
    <3>1. i \in 1 .. Len(held[f]) /\ j \in 1 .. Len(held[g]) /\ held[f][i] = held[g][j]
      BY <1>9, <2>3
    <3> QED
      BY <3>1 DEF WorkersOfBlocks
  <2> QED
    BY <2>1, <2>2, <2>3
<1>11. ASSUME NEW v \in Workers, worker'[v].use
       PROVE  \E f \in Files : \E i \in 1 .. Len(held'[f]) : held'[f][i] = v
  <2>1. CASE v = w
    <3>1. idx \in 1 .. Len(held'[cur])
      BY <1>2, <1>3, <1>5
    <3> QED
      BY <1>2, <1>5, <2>1, <3>1
  <2>2. CASE v # w
    <3>1. PICK f \in Files : \E i \in 1 .. Len(held[f]) : held[f][i] = v
      BY <1>1, <1>11, <2>2 DEF WorkersOfBlocks
    <3>2. PICK i \in 1 .. Len(held[f]) : held[f][i] = v
      BY <3>1
    <3>3. i \in 1 .. Len(held'[f]) /\ held'[f][i] = held[f][i]
      BY <1>1, <1>2, <1>3, <1>5, <3>2
    <3> QED
      BY <3>2, <3>3
  <2> QED
    BY <2>1, <2>2
<1>12. ASSUME NEW f \in Files, NEW i \in 1 .. Len(held'[f])
       PROVE  LET v == worker'[held'[f][i]] IN
                /\ held'[f][i] \in Pool
                /\ v.srv = Blocks[f][i] /\ v.block = <<f, i>>
                /\ v.use <=> ~Released(f, i)'
  <2>1. ~Released(f, i)'
    <3>1. pc' \notin {"close", "closeFlush"}
      BY <1>1, <1>4
    <3> QED
      BY <3>1 DEF Released
  <2>2. CASE f = cur /\ i = idx
    BY <1>1, <1>9, <2>1, <2>2
  <2>3. CASE ~(f = cur /\ i = idx)
    <3>1. i \in 1 .. Len(held[f]) /\ held'[f][i] = held[f][i] /\ held[f][i] # w /\ held[f][i] \in Workers
      BY <1>2, <1>9, <2>3
    <3>2. held[f][i] \in Pool /\ worker[held[f][i]].srv = Blocks[f][i]
          /\ worker[held[f][i]].block = <<f, i>> /\ worker[held[f][i]].use
      BY <1>7, <3>1 DEF WorkersOfBlocks
    <3>3. worker'[held'[f][i]] = worker[held[f][i]]
      BY <1>1, <3>1
    <3> QED
      BY <2>1, <3>1, <3>2, <3>3
  <2> QED
    BY <2>2, <2>3
<1> QED
  BY <1>6, <1>10, <1>11, <1>12 DEF WorkersOfBlocks

\* closeBlockInServer gives one worker back, revokeBlockWorkers clears the list
\* when all are.
LEMMA CloseKeepsLists ==
  ASSUME Typed, ListsComplete, WorkersOfBlocks, CloseBlockInServer
  PROVE  ListsComplete' /\ WorkersOfBlocks'
<1>1. /\ pc = "close" /\ Advance(Len(Mine), "closeFlush") /\ UNCHANGED <<cur, held>>
      /\ \A v \in Workers : v # W => worker'[v] = worker[v]
      /\ worker'[W].use = FALSE /\ worker'[W].srv = worker[W].srv /\ worker'[W].block = worker[W].block
  BY CloseDoes
<1>2. /\ idx \in 1 .. N(cur) /\ Len(Mine) = N(cur) /\ Len(held[cur]) = N(cur) /\ W \in Workers
      /\ W = held[cur][idx]
  BY <1>1, WorkerInTurn
<1>3. cur \in Files /\ N(cur) \in Nat \ {0} /\ \A f \in Files : \A i \in 1 .. Len(held[f]) : held[f][i] \in Workers
  BY TypeFacts, BlockIdsAre
<1>4. (pc' = pc /\ idx' = idx + 1 /\ idx # N(cur)) \/ (pc' = "closeFlush" /\ idx' = 1 /\ idx = N(cur))
  BY <1>1, <1>2, <1>3, Turn
<1>5. ListsComplete'
  BY <1>1, <1>2, <1>3, <1>4 DEF ListsComplete, N
<1>6. \A f \in Files : \A i \in 1 .. Len(held[f]) : Released(f, i)' <=> Released(f, i) \/ (f = cur /\ i = idx)
  BY <1>1, <1>2, <1>3, <1>4 DEF Released
<1>7. \A f \in Files : \A i \in 1 .. Len(held[f]) : held[f][i] = W <=> f = cur /\ i = idx
  BY <1>2, <1>3 DEF WorkersOfBlocks
<1>8. ASSUME NEW f \in Files, NEW i \in 1 .. Len(held[f])
      PROVE  LET w == worker'[held[f][i]] IN
               /\ held[f][i] \in Pool
               /\ w.srv = Blocks[f][i] /\ w.block = <<f, i>>
               /\ w.use <=> ~Released(f, i)'
  <2>1. /\ held[f][i] \in Pool /\ worker[held[f][i]].srv = Blocks[f][i] /\ held[f][i] \in Workers
        /\ worker[held[f][i]].block = <<f, i>> /\ (worker[held[f][i]].use <=> ~Released(f, i))
    BY <1>3 DEF WorkersOfBlocks
  <2>2. CASE held[f][i] = W
    BY <1>1, <1>6, <1>7, <2>1, <2>2
  <2>3. CASE held[f][i] # W
    BY <1>1, <1>6, <1>7, <2>1, <2>3
  <2> QED
    BY <2>2, <2>3
<1>9. \A w \in Workers : worker'[w].use => \E f \in Files : \E i \in 1 .. Len(held[f]) : held[f][i] = w
  BY <1>1 DEF WorkersOfBlocks
<1>10. WorkersOfBlocks'
  BY <1>1, <1>8, <1>9 DEF WorkersOfBlocks
<1> QED
  BY <1>5, <1>10

LEMMA ListsStep ==
  ASSUME PoolIsLargeEnough, PoolInv, [Next]_vars
  PROVE  ListsComplete' /\ WorkersOfBlocks'
<1>1. Typed /\ ListsComplete /\ WorkersOfBlocks /\ Sockets /\ PoolSuffices
  BY DEF PoolInv
<1>2. CASE (\E f \in Files : UseFile(f) \/ CloseFile(f)) \/ PhaseOver \/ FileClosed
  BY <1>1, <1>2, FileStepKeepsLists
<1>3. CASE AllocABlockWorker
  BY <1>1, <1>3, AllocKeepsLists
<1>4. CASE CloseBlockInServer
  BY <1>1, <1>4, CloseKeepsLists
<1>5. CASE ConnectABlockWorker
  <2>1. pc = "connect" /\ Advance(Len(Mine), "connecting") /\ UNCHANGED <<cur, held>> /\ W \in Workers
    BY <1>1, <1>5, ConnectDoes, WorkerInTurn
  <2>2. SameBlocks
    BY <1>1, <1>5, <2>1, ConnectDoes, ChangesKeepsBlocks DEF SameBlocks
  <2> QED
    BY <1>1, <2>1, <2>2, TurnKeepsLists
<1>6. CASE OpenBlock
  <2>1. pc = "open" /\ Advance(Len(Mine), "flush") /\ UNCHANGED <<cur, held>> /\ W \in Workers
    BY <1>1, <1>6, OpenDoes, WorkerInTurn
  <2>2. SameBlocks
    BY <1>1, <1>6, <2>1, OpenDoes, ChangesKeepsBlocks DEF SameBlocks
  <2> QED
    BY <1>1, <2>1, <2>2, TurnKeepsLists
<1>7. CASE RecvReply
  <2>1. pc = "reply" /\ Advance(Len(Mine), "collect") /\ UNCHANGED <<cur, held>> /\ W \in Workers
    BY <1>1, <1>7, RecvDoes, WorkerInTurn
  <2>2. SameBlocks
    BY <1>1, <1>7, <2>1, RecvDoes, ChangesKeepsBlocks DEF SameBlocks
  <2> QED
    BY <1>1, <2>1, <2>2, TurnKeepsLists
<1>8. CASE \E w \in Workers : Connected(w) \/ SockWritable(w) \/ SockReadable(w)
  <2>1. PICK w \in Workers : Connected(w) \/ SockWritable(w) \/ SockReadable(w)
    BY <1>8
  <2>2. UNCHANGED <<pc, cur, idx, held>> /\ \E st, fd, mon : Changes(w, st, fd, mon)
    BY <1>1, <2>1, ConnectedDoes, WritableDoes, ReadableDoes
  <2> QED
    BY <1>1, <2>2, ChangesKeepsBlocks, QuietKeepsLists
<1>9. CASE TimeOut
  <2>1. SameBlocks /\ UNCHANGED <<pc, cur, idx>>
    BY <1>1, <1>9, TimeOutDoes DEF SameBlocks
  <2> QED
    BY <1>1, <2>1, QuietKeepsLists
<1>10. CASE (\E w \in Workers : ServerAnswers(w)) \/ UNCHANGED vars
  <2>1. SameBlocks /\ UNCHANGED <<pc, cur, idx>>
    BY <1>10 DEF SameBlocks, ServerAnswers, vars
  <2> QED
    BY <1>1, <2>1, QuietKeepsLists
<1> QED
  BY <1>2, <1>3, <1>4, <1>5, <1>6, <1>7, <1>8, <1>9, <1>10 DEF Next, Library

-----------------------------------------------------------------------------
(* The sockets in epoll. *)

\* When no socket is in epoll, the phase may change.
LEMMA NoneMonitored ==
  ASSUME Sockets, Monitored = {}, inMon' = inMon,
         \A v \in Workers : worker'[v].state = worker[v].state /\ worker'[v].mon = worker[v].mon
  PROVE  Sockets'
<1>1. Monitored' = Monitored
  BY DEF Monitored
<1>2. ASSUME NEW v \in Workers PROVE MonitoredFor(v)'
  <2>1. worker[v].state # "CONNECTING" /\ worker[v].mon = "none"
    BY DEF Monitored
  <2>2. worker[v].state # "WRITE_OVER"
    BY <2>1 DEF Sockets, MonitoredFor
  <2> QED
    BY <2>1, <2>2 DEF MonitoredFor
<1>3. inMon' = Cardinality(Monitored')
  BY <1>1 DEF Sockets
<1> QED
  BY <1>1, <1>2, <1>3 DEF Sockets

\* One socket comes or goes.
LEMMA CountStep ==
  ASSUME Typed, Sockets, NEW w \in Workers, \A v \in Workers : v # w => worker'[v] = worker[v],
         \/ w \notin Monitored /\ w \notin Monitored' /\ inMon' = inMon
         \/ w \notin Monitored /\ w \in Monitored' /\ inMon' = inMon + 1
         \/ w \in Monitored /\ w \notin Monitored' /\ inMon' = inMon - 1
  PROVE  inMon' = Cardinality(Monitored')
<1>1. \A v \in Workers : v # w => (v \in Monitored' <=> v \in Monitored)
  BY DEF Monitored
<1>2. Monitored \subseteq Workers /\ Monitored' \subseteq Workers
  BY DEF Monitored
<1>3. CASE w \notin Monitored /\ w \notin Monitored' /\ inMon' = inMon
  <2>1. Monitored' = Monitored
    BY <1>1, <1>2, <1>3
  <2> QED
    BY <1>3, <2>1 DEF Sockets
<1>4. CASE w \notin Monitored /\ w \in Monitored' /\ inMon' = inMon + 1
  <2>1. Monitored' = Monitored \cup {w}
    BY <1>1, <1>2, <1>4
  <2> QED
    BY <1>4, <2>1, MonitoredCount
<1>5. CASE w \in Monitored /\ w \notin Monitored' /\ inMon' = inMon - 1
  <2>1. Monitored' = Monitored \ {w}
    BY <1>1, <1>2, <1>5
  <2> QED
    BY <1>5, <2>1, MonitoredCount
<1> QED
  BY <1>3, <1>4, <1>5

\* A phase that goes through the workers has only those in epoll whose turn was.
LEMMA TurnStep ==
  ASSUME Typed, ListsComplete, WorkersOfBlocks, Sockets, NEW next, Advance(Len(Mine), next),
         <<pc, next>> \in {<<"connect", "connecting">>, <<"open", "flush">>, <<"reply", "collect">>,
                           <<"close", "closeFlush">>},
         cur' = cur, held' = held, \A v \in Workers : v # W => worker'[v] = worker[v]
  PROVE  /\ W \notin Monitored
         /\ pc' \in {pc, next}
         /\ \A v \in Monitored' : pc' \notin {"idle", "alloc"} /\ InTurn(v)'
<1>1. pc \in {"connect", "open", "reply", "close"} /\ next \in {"connecting", "flush", "collect", "closeFlush"}
  OBVIOUS
<1>2. /\ idx \in 1 .. Len(Mine) /\ Len(Mine) \in Nat \ {0} /\ Mine[idx] = W
      /\ \A j \in 1 .. Len(Mine) : Mine[j] = W => j = idx
  BY <1>1, WorkerInTurn, TypeFacts, BlockIdsAre DEF W
<1>3. W \notin Monitored
  BY <1>1, <1>2 DEF Sockets, InTurn
<1>4. (pc' = pc /\ idx' = idx + 1 /\ idx # Len(Mine)) \/ (pc' = next /\ idx' = 1 /\ idx = Len(Mine))
  BY <1>2, Turn
<1>5. ASSUME NEW v \in Monitored' PROVE pc' \notin {"idle", "alloc"} /\ InTurn(v)'
  <2>1. Mine' = Mine
    BY DEF Mine
  <2>2. PICK j \in 1 .. Len(Mine) : Mine[j] = v /\ j <= idx
    <3>1. CASE v = W
      BY <1>2, <3>1
    <3>2. CASE v # W
      <4>1. v \in Monitored
        BY <1>5, <3>2 DEF Monitored
      <4>2. PICK j \in 1 .. Len(Mine) : Mine[j] = v /\ j < idx
        BY <1>1, <4>1 DEF Sockets, InTurn
      <4> QED
        BY <1>2, <4>2
    <3> QED
      BY <3>1, <3>2
  <2>3. pc' \in {"connect", "open", "reply", "close"} => j < idx'
    BY <1>1, <1>2, <1>4, <2>2
  <2> QED
    BY <1>1, <1>4, <2>1, <2>2, <2>3 DEF InTurn
<1> QED
  BY <1>3, <1>4, <1>5

\* A socket leaves epoll.
LEMMA LeavesEpoll ==
  ASSUME Typed, Sockets, NEW w \in Monitored, \A v \in Workers : v # w => worker'[v] = worker[v],
         worker'[w].state \notin {"CONNECTING", "WRITE_OVER"}, worker'[w].mon = "none", inMon' = inMon - 1,
         UNCHANGED <<pc, cur, idx, held>>
  PROVE  Sockets'
<1>1. w \in Workers /\ w \notin Monitored'
  BY DEF Monitored
<1>2. inMon' = Cardinality(Monitored')
  BY <1>1, CountStep
<1>3. \A v \in Monitored' : v \in Monitored
  BY <1>1 DEF Monitored
<1>4. \A v \in Monitored' : pc' \notin {"idle", "alloc"} /\ InTurn(v)'
  BY <1>3 DEF Sockets, InTurn, Mine
<1>5. ASSUME NEW v \in Workers PROVE MonitoredFor(v)'
  BY <1>5 DEF Sockets, MonitoredFor
<1> QED
  BY <1>2, <1>4, <1>5 DEF Sockets

LEMMA SocketsStep ==
  ASSUME PoolIsLargeEnough, PoolInv, [Next]_vars
  PROVE  Sockets'
<1>1. Typed /\ ListsComplete /\ WorkersOfBlocks /\ Sockets /\ PoolSuffices
  BY DEF PoolInv
<1>2. \A v \in Workers : MonitoredFor(v)
  BY <1>1 DEF Sockets
<1>3. pc \in {"idle", "alloc"} => Monitored = {}
  BY <1>1 DEF Sockets
<1>4. CASE \E f \in Files : UseFile(f) \/ CloseFile(f)
  <2>1. pc = "idle" /\ UNCHANGED <<worker, inMon>>
    BY <1>4 DEF UseFile, CloseFile
  <2> QED
    BY <1>1, <1>3, <2>1, NoneMonitored
<1>5. CASE AllocABlockWorker
  <2>1. pc = "alloc" /\ inMon' = inMon
        /\ \A v \in Workers : worker'[v].state = worker[v].state /\ worker'[v].mon = worker[v].mon
    BY <1>1, <1>5, AllocDoes
  <2> QED
    BY <1>1, <1>3, <2>1, NoneMonitored
<1>6. CASE PhaseOver \/ FileClosed
  <2>1. inMon = 0 /\ UNCHANGED <<worker, inMon>>
    BY <1>6 DEF PhaseOver, FileClosed
  <2>2. Monitored = {}
    BY <1>1, <2>1, MonitoredCount
  <2> QED
    BY <1>1, <2>1, <2>2, NoneMonitored
<1>7. CASE ConnectABlockWorker
  <2>1. pc = "connect" /\ Advance(Len(Mine), "connecting") /\ UNCHANGED <<cur, held>> /\ W \in Workers
    BY <1>1, <1>7, ConnectDoes, WorkerInTurn
  <2>2. /\ \A v \in Workers : v # W => worker'[v] = worker[v]
        /\ worker'[W].mon = worker[W].mon
        /\ \/ worker'[W].state = "CONNECTED" /\ inMon' = inMon
           \/ worker'[W].state = "CONNECTING" /\ inMon' = inMon + 1
    BY <1>1, <1>7, ConnectDoes DEF Changes
  <2>3. W \notin Monitored /\ pc' \in {"connect", "connecting"}
        /\ \A v \in Monitored' : pc' \notin {"idle", "alloc"} /\ InTurn(v)'
    BY <1>1, <2>1, <2>2, TurnStep
  <2>4. inMon' = Cardinality(Monitored')
    BY <1>1, <2>1, <2>2, <2>3, CountStep DEF Monitored
  <2>5. ASSUME NEW v \in Workers PROVE MonitoredFor(v)'
    BY <1>2, <2>1, <2>2, <2>3 DEF MonitoredFor
  <2> QED
    BY <2>3, <2>4, <2>5 DEF Sockets
<1>8. CASE OpenBlock
  <2>1. pc = "open" /\ Advance(Len(Mine), "flush") /\ UNCHANGED <<cur, held>> /\ W \in Workers
    BY <1>1, <1>8, OpenDoes, WorkerInTurn
  <2>2. /\ \A v \in Workers : v # W => worker'[v] = worker[v]
        /\ \/ worker'[W] = worker[W] /\ inMon' = inMon
           \/ worker'[W].state = Requesting(cur) /\ worker'[W].mon = worker[W].mon /\ inMon' = inMon
           \/ worker'[W].state = Request(cur) /\ worker'[W].mon = "out" /\ inMon' = inMon + 1
    BY <1>1, <1>8, OpenDoes DEF Changes
  <2>3. W \notin Monitored /\ pc' \in {"open", "flush"}
        /\ \A v \in Monitored' : pc' \notin {"idle", "alloc"} /\ InTurn(v)'
    BY <1>1, <2>1, <2>2, TurnStep
  <2>4. Requesting(cur) \notin {"CONNECTING", "WRITE_OVER"} /\ Request(cur) \notin {"CONNECTING", "WRITE_OVER"}
    BY DEF Requesting, Request
  <2>5. inMon' = Cardinality(Monitored')
    BY <1>1, <2>1, <2>2, <2>3, <2>4, CountStep DEF Monitored
  <2>6. ASSUME NEW v \in Workers PROVE MonitoredFor(v)'
    BY <1>2, <2>1, <2>2, <2>3, <2>4 DEF MonitoredFor
  <2> QED
    BY <2>3, <2>5, <2>6 DEF Sockets
<1>9. CASE RecvReply
  <2>1. pc = "reply" /\ Advance(Len(Mine), "collect") /\ UNCHANGED <<cur, held>> /\ W \in Workers
    BY <1>1, <1>9, RecvDoes, WorkerInTurn
  <2>2. /\ \A v \in Workers : v # W => worker'[v] = worker[v]
        /\ \/ worker'[W] = worker[W] /\ inMon' = inMon
           \/ worker'[W].state = Forward(worker[W].state) /\ worker'[W].mon = worker[W].mon /\ inMon' = inMon
           \/ worker'[W].state = worker[W].state /\ worker'[W].mon = "in" /\ inMon' = inMon + 1
    BY <1>1, <1>9, RecvDoes DEF Changes
  <2>3. W \notin Monitored /\ pc' \in {"reply", "collect"}
        /\ \A v \in Monitored' : pc' \notin {"idle", "alloc"} /\ InTurn(v)'
    BY <1>1, <2>1, <2>2, TurnStep
  <2>4. worker[W].state \in States /\ worker[W].state # "CONNECTING"
    BY <1>1, <1>2, <2>1, TypeFacts DEF Record, MonitoredFor
  <2>5. Forward(worker[W].state) \notin {"CONNECTING", "WRITE_OVER"}
    BY <2>4, ForwardStates
  <2>6. inMon' = Cardinality(Monitored')
    BY <1>1, <2>1, <2>2, <2>3, <2>4, <2>5, CountStep DEF Monitored
  <2>7. ASSUME NEW v \in Workers PROVE MonitoredFor(v)'
    BY <1>2, <2>1, <2>2, <2>3, <2>4, <2>5 DEF MonitoredFor
  <2> QED
    BY <2>3, <2>6, <2>7 DEF Sockets
<1>10. CASE CloseBlockInServer
  <2>1. pc = "close" /\ Advance(Len(Mine), "closeFlush") /\ UNCHANGED <<cur, held>> /\ W \in Workers
    BY <1>1, <1>10, CloseDoes, WorkerInTurn
  <2>2. /\ \A v \in Workers : v # W => worker'[v] = worker[v]
        /\ \/ worker'[W].state = "CONNECTED" /\ worker'[W].mon = worker[W].mon /\ inMon' = inMon
           \/ worker'[W].state = worker[W].state /\ worker'[W].mon = worker[W].mon /\ inMon' = inMon
           \/ worker'[W].state = "WRITE_OVER" /\ worker'[W].mon = "out" /\ inMon' = inMon + 1
    BY <1>1, <1>10, CloseDoes
  <2>3. W \notin Monitored /\ pc' \in {"close", "closeFlush"}
        /\ \A v \in Monitored' : pc' \notin {"idle", "alloc"} /\ InTurn(v)'
    BY <1>1, <2>1, <2>2, TurnStep
  <2>4. inMon' = Cardinality(Monitored')
    BY <1>1, <2>1, <2>2, <2>3, CountStep DEF Monitored
  <2>5. worker[W].mon = "none" /\ worker[W].state # "CONNECTING"
    BY <2>1, <2>3 DEF Monitored
  <2>6. ASSUME NEW v \in Workers PROVE MonitoredFor(v)'
    BY <1>2, <2>1, <2>2, <2>3, <2>5 DEF MonitoredFor
  <2> QED
    BY <2>3, <2>4, <2>6 DEF Sockets
<1>11. CASE \E w \in Workers : Connected(w)
  <2>1. PICK w \in Workers : Connected(w)
    BY <1>11
  <2>2. /\ pc = "connecting" /\ worker[w].state = "CONNECTING" /\ inMon' = inMon - 1
        /\ UNCHANGED <<pc, cur, idx, held>> /\ \A v \in Workers : v # w => worker'[v] = worker[v]
        /\ worker'[w].state = "CONNECTED" /\ worker'[w].mon = worker[w].mon
    BY <1>1, <2>1, ConnectedDoes DEF Changes
  <2>3. w \in Monitored /\ worker[w].mon = "none"
    BY <1>2, <2>2 DEF Monitored, MonitoredFor
  <2> QED
    BY <1>1, <2>2, <2>3, LeavesEpoll
<1>12. CASE \E w \in Workers : SockWritable(w) \/ SockReadable(w)
  <2>1. PICK w \in Workers : SockWritable(w) \/ SockReadable(w)
    BY <1>12
  <2>2. /\ pc \in {"flush", "collect", "closeFlush"} /\ worker[w].mon # "none" /\ inMon' = inMon - 1
        /\ UNCHANGED <<pc, cur, idx, held>> /\ \A v \in Workers : v # w => worker'[v] = worker[v]
        /\ worker'[w].state = Forward(worker[w].state) /\ worker'[w].mon = "none"
    BY <1>1, <2>1, WritableDoes, ReadableDoes DEF Changes
  <2>3. w \in Monitored /\ worker[w].state \in States /\ worker[w].state # "CONNECTING"
    BY <1>1, <1>2, <2>2, TypeFacts DEF Monitored, MonitoredFor, Record
  <2>4. worker'[w].state \notin {"CONNECTING", "WRITE_OVER"}
    BY <2>2, <2>3, ForwardStates
  <2> QED
    BY <1>1, <2>2, <2>3, <2>4, LeavesEpoll
<1>13. CASE TimeOut
  <2>1. pc \in {"flush", "collect"} /\ UNCHANGED <<inMon, pc, cur, idx, held>>
        /\ \A v \in Workers : worker'[v].mon = worker[v].mon
                              /\ worker'[v].state \in {worker[v].state, "REQUEST_READ"}
    BY <1>1, <1>13, TimeOutDoes
  <2>2. Monitored' = Monitored
    BY <1>2, <2>1 DEF Monitored, MonitoredFor
  <2>3. \A v \in Monitored' : pc' \notin {"idle", "alloc"} /\ InTurn(v)'
    BY <1>1, <2>1, <2>2 DEF Sockets, InTurn, Mine
  <2>4. inMon' = Cardinality(Monitored')
    BY <1>1, <2>1, <2>2 DEF Sockets
  <2>5. ASSUME NEW v \in Workers PROVE MonitoredFor(v)'
    BY <1>2, <2>1 DEF MonitoredFor
  <2> QED
    BY <2>3, <2>4, <2>5 DEF Sockets
<1>14. CASE (\E w \in Workers : ServerAnswers(w)) \/ UNCHANGED vars
  <2>1. UNCHANGED <<worker, inMon, pc, cur, idx, held>>
    BY <1>14 DEF ServerAnswers, vars
  <2> QED
    BY <1>1, <2>1 DEF Sockets, Monitored, MonitoredFor, InTurn, Mine
<1> QED
  BY <1>4, <1>5, <1>6, <1>7, <1>8, <1>9, <1>10, <1>11, <1>12, <1>13, <1>14 DEF Next, Library

-----------------------------------------------------------------------------
(* The pool suffices. *)

LEMMA AllocKeepsPool ==
  ASSUME PoolIsLargeEnough, Typed, ListsComplete, WorkersOfBlocks, Sockets, PoolSuffices, AllocABlockWorker
  PROVE  PoolSuffices'
<1>1. PICK w \in Pool :
           /\ pc = "alloc" /\ ~worker[w].use
           /\ \/ worker[w].state = "CONNECTED" /\ worker[w].srv = Blocks[cur][idx]
              \/ worker[w].state # "CONNECTED" /\ ConnectedTo(Blocks[cur][idx]) = {}
           /\ \A v \in Workers : v # w => worker'[v] = worker[v]
           /\ worker'[w].use = TRUE /\ worker'[w].srv = Blocks[cur][idx]
           /\ worker'[w].state = worker[w].state
  BY AllocDoes
<1>2. w \in Workers /\ idx \in 1 .. N(cur) /\ cur \in Files /\ <<cur, idx>> \in BlockIds
  BY <1>1, TypeFacts, BlockIdsAre DEF ListsComplete
<1>3. CASE worker[w].state = "CONNECTED" /\ worker[w].srv = Blocks[cur][idx]
  <2>1. Kept' \subseteq Kept /\ \A v \in Kept' : worker'[v].srv = worker[v].srv
    BY <1>1, <1>2, <1>3 DEF Kept
  <2> QED
    BY <2>1, KeptShrinks
<1>4. CASE worker[w].state # "CONNECTED" /\ ConnectedTo(Blocks[cur][idx]) = {}
  <2>1. PICK g \in [Kept -> BlockIds] : Assignment(g) /\ \A v \in Kept : g[v] # <<cur, idx>>
    BY <1>1, <1>4, Reassigned
  <2>2. worker[w].state # "WRITE_OVER"
    BY <1>1, <1>2 DEF Sockets, MonitoredFor
  <2>3. Kept' = Kept \cup {w} /\ w \notin Kept
    BY <1>1, <1>2, <1>4, <2>2 DEF Kept
  <2> DEFINE h == [v \in Kept' |-> IF v = w THEN <<cur, idx>> ELSE g[v]]
  <2>4. h[w] = <<cur, idx>> /\ \A v \in Kept : v \in Kept' /\ v # w /\ h[v] = g[v]
    BY <2>3
  <2>5. h \in [Kept' -> BlockIds]
    BY <1>2, <2>1, <2>3
  <2> HIDE DEF h
  <2>6. \A v \in Kept' : worker'[v].srv = Blocks[h[v][1]][h[v][2]]
    <3> SUFFICES ASSUME NEW v \in Kept' PROVE worker'[v].srv = Blocks[h[v][1]][h[v][2]]
      OBVIOUS
    <3>1. CASE v = w
      BY <1>1, <2>4, <3>1
    <3>2. CASE v # w
      <4>1. v \in Kept /\ v \in Workers /\ h[v] = g[v]
        BY <2>3, <2>4, <3>2 DEF Kept
      <4> QED
        BY <1>1, <2>1, <3>2, <4>1 DEF Assignment
    <3> QED
      BY <3>1, <3>2
  <2>7. \A u, v \in Kept' : h[u] = h[v] => u = v
    <3> SUFFICES ASSUME NEW u \in Kept', NEW v \in Kept', h[u] = h[v] PROVE u = v
      OBVIOUS
    <3>1. CASE u \in Kept /\ v \in Kept
      BY <2>1, <2>4, <3>1 DEF Assignment
    <3>2. CASE u = w \/ v = w
      BY <2>1, <2>3, <2>4, <3>2
    <3> QED
      BY <2>3, <3>1, <3>2
  <2>8. Kept' \subseteq Pool' /\ Pool' = Pool
    BY <1>1, <2>3 DEF PoolSuffices, Pool
  <2> QED
    BY <2>5, <2>6, <2>7, <2>8 DEF PoolSuffices, Assignment
<1> QED
  BY <1>1, <1>3, <1>4

LEMMA PoolSufficesStep ==
  ASSUME PoolIsLargeEnough, PoolInv, [Next]_vars
  PROVE  PoolSuffices'
<1>1. Typed /\ ListsComplete /\ WorkersOfBlocks /\ Sockets /\ PoolSuffices
  BY DEF PoolInv
<1>2. CASE AllocABlockWorker
  BY <1>1, <1>2, AllocKeepsPool
  \* In every other step a worker that becomes one of the kept was one.
<1>3. ASSUME NEW w \in Workers, \A v \in Workers : v # w => worker'[v] = worker[v],
             worker'[w].srv = worker[w].srv,
             worker[w].use \/ worker[w].state \in {"CONNECTED", "WRITE_OVER"}
      PROVE  PoolSuffices'
  <2>1. Kept' \subseteq Kept /\ \A v \in Kept' : worker'[v].srv = worker[v].srv
    BY <1>3 DEF Kept
  <2> QED
    BY <1>1, <2>1, KeptShrinks
<1>4. CASE ConnectABlockWorker \/ OpenBlock \/ RecvReply
  <2>1. pc \in {"connect", "open", "reply"}
        /\ (worker' = worker \/ \E st, fd, mon : Changes(W, st, fd, mon))
    BY <1>1, <1>4, ConnectDoes, OpenDoes, RecvDoes
  <2>2. W \in Workers /\ worker[W].use
    BY <1>1, <2>1, WorkerInTurn
  <2> QED
    BY <1>3, <2>1, <2>2 DEF Changes
<1>5. CASE CloseBlockInServer
  <2>1. pc = "close" /\ worker'[W].srv = worker[W].srv /\ \A v \in Workers : v # W => worker'[v] = worker[v]
    BY <1>1, <1>5, CloseDoes
  <2>2. W \in Workers /\ worker[W].use
    BY <1>1, <2>1, WorkerInTurn
  <2> QED
    BY <1>3, <2>1, <2>2
<1>6. CASE \E w \in Workers : Connected(w) \/ SockWritable(w) \/ SockReadable(w)
  <2>1. PICK w \in Workers : Connected(w) \/ SockWritable(w) \/ SockReadable(w)
    BY <1>6
  <2>2. /\ pc \in {"connecting", "flush", "collect", "closeFlush"} /\ w \in Monitored
        /\ \E st, fd, mon : Changes(w, st, fd, mon)
    BY <1>1, <2>1, ConnectedDoes, WritableDoes, ReadableDoes DEF Monitored
  <2>3. worker[w].use \/ worker[w].state = "WRITE_OVER"
    <3>1. CASE pc = "closeFlush"
      BY <1>1, <2>2, <3>1 DEF Sockets, Monitored, MonitoredFor
    <3>2. CASE pc # "closeFlush"
      <4>1. PICK j \in 1 .. Len(held[cur]) : held[cur][j] = w
        BY <1>1, <2>2 DEF Sockets, InTurn, Mine
      <4>2. ~Released(cur, j) /\ cur \in Files
        BY <1>1, <2>2, <3>2, TypeFacts DEF Released
      <4> QED
        BY <1>1, <4>1, <4>2 DEF WorkersOfBlocks
    <3> QED
      BY <3>1, <3>2
  <2> QED
    BY <1>3, <2>2, <2>3 DEF Changes
<1>7. CASE TimeOut
  <2>1. \A v \in Workers :
              /\ worker'[v].use = worker[v].use /\ worker'[v].srv = worker[v].srv
              /\ worker'[v].state # worker[v].state => worker[v].use
    BY <1>1, <1>7, TimeOutDoes
  <2>2. Kept' \subseteq Kept /\ \A v \in Kept' : worker'[v].srv = worker[v].srv
    BY <2>1 DEF Kept
  <2> QED
    BY <1>1, <2>2, KeptShrinks
<1>8. CASE \/ \E f \in Files : UseFile(f) \/ CloseFile(f)
           \/ PhaseOver \/ FileClosed \/ (\E w \in Workers : ServerAnswers(w)) \/ UNCHANGED vars
  <2>1. worker' = worker
    BY <1>8 DEF UseFile, CloseFile, PhaseOver, FileClosed, ServerAnswers, vars
  <2>2. Kept' \subseteq Kept /\ \A v \in Kept' : worker'[v].srv = worker[v].srv
    BY <2>1 DEF Kept
  <2> QED
    BY <1>1, <2>2, KeptShrinks
<1> QED
  BY <1>2, <1>4, <1>5, <1>6, <1>7, <1>8 DEF Next, Library

LEMMA PoolInvStep ==
  ASSUME PoolIsLargeEnough, PoolInv, [Next]_vars
  PROVE  PoolInv'
BY TypedStep, ListsStep, SocketsStep, PoolSufficesStep DEF PoolInv

LEMMA PoolInvInit ==
  ASSUME Init
  PROVE  PoolInv
<1>1. cur \in Files /\ \A f \in Files : held[f] = <<>> /\ Len(held[f]) = 0
  BY DEF Init
<1>2. NewWorker \in Record
  BY DEF NewWorker, Record, States
<1>3. \A w \in Workers : worker[w] = NewWorker
  BY DEF Init
<1>4. Typed
  <2>1. worker \in [Workers -> Record] /\ timeOuts \in 0 .. MaxTimeOuts
    BY <1>2, BoundAssumption DEF Init
  <2>2. /\ out \in [Workers -> Seq(Requests)] /\ reqs \in [Workers -> Seq(Requests)]
        /\ out \in [Workers -> Seq([type : {"create", "open", "close"}, block : BlockIds \cup {None}])]
        /\ reqs \in [Workers -> Seq([type : {"create", "open", "close"}, block : BlockIds \cup {None}])]
        /\ reps \in [Workers -> Seq([type : {"create", "open"}, fd : BlockIds])]
        /\ open \in [Workers -> SUBSET (BlockIds \cup {None})]
        /\ held \in [Files -> Seq(Workers)]
    <3>1. \A S : <<>> \in Seq(S)
      OBVIOUS
    <3> QED
      BY <3>1 DEF Init
  <2> QED
    BY <1>1, <2>1, <2>2 DEF Init, Typed, TypeOK, Record
<1>5. ListsComplete
  BY <1>1 DEF Init, ListsComplete
<1>6. WorkersOfBlocks
  BY <1>1, <1>3 DEF WorkersOfBlocks, NewWorker
<1>7. Monitored = {} /\ Kept = {}
  BY <1>3 DEF Monitored, Kept, NewWorker
<1>8. Sockets
  BY <1>3, <1>7, FS_EmptySet DEF Init, Sockets, MonitoredFor, NewWorker
<1>9. PoolSuffices
  <2>1. [w \in {} |-> w] \in [Kept -> BlockIds] /\ Assignment([w \in {} |-> w])
    BY <1>7 DEF Assignment
  <2> QED
    BY <1>7, <2>1 DEF PoolSuffices
<1> QED
  BY <1>4, <1>5, <1>6, <1>8, <1>9 DEF PoolInv

-----------------------------------------------------------------------------
(* The conversations, while every answer is in time. *)

Unchanged(v) ==
  /\ worker'[v] = worker[v] /\ reqs'[v] = reqs[v] /\ reps'[v] = reps[v]
  /\ out'[v] = out[v] /\ open'[v] = open[v]

\* One connection changes.
Only(w) == \A v \in Workers : v # w => Unchanged(v)

NotHeld(w) == \A f \in Files : \A i \in 1 .. Len(held[f]) : held[f][i] # w

\* Messages are at most two at a time.
LEMMA FewMessages ==
  ASSUME NEW S, NEW a \in S, NEW b \in S
  PROVE  /\ <<>> \o <<a>> = <<a>> /\ <<b>> \o <<a>> = <<b, a>>
         /\ Append(<<>>, a) = <<a>> /\ Append(<<b>>, a) = <<b, a>>
         /\ Head(<<a>>) = a /\ Tail(<<a>>) = <<>> /\ Head(<<a, b>>) = a /\ Tail(<<a, b>>) = <<b>>
<1>1. <<>> \o <<a>> = <<a>> /\ Append(<<>>, a) = <<a>>
  OBVIOUS
<1>2. /\ <<b>> \in Seq(S) /\ <<a>> \in Seq(S) /\ Len(<<b>>) = 1 /\ Len(<<a>>) = 1
      /\ <<b, a>> \in Seq(S) /\ Len(<<b, a>>) = 2 /\ <<b, a>>[1] = b /\ <<b, a>>[2] = a
  OBVIOUS
<1>3. <<b>> \o <<a>> = <<b, a>>
  <2>1. <<b>> \o <<a>> \in Seq(S) /\ Len(<<b>> \o <<a>>) = 2
    BY <1>2
  <2>2. (<<b>> \o <<a>>)[1] = b /\ (<<b>> \o <<a>>)[2] = a
    BY <1>2
  <2>3. \A i \in 1 .. Len(<<b>> \o <<a>>) : (<<b>> \o <<a>>)[i] = <<b, a>>[i]
    BY <1>2, <2>1, <2>2
  <2> QED
    BY <1>2, <2>1, <2>3, SeqEqual
<1>5. Append(<<b>>, a) = <<b, a>>
  BY <1>2, <1>3, AppendIsConcat
<1>4. Head(<<a>>) = a /\ Tail(<<a>>) = <<>> /\ Head(<<a, b>>) = a /\ Tail(<<a, b>>) = <<b>>
  OBVIOUS
<1> QED
  BY <1>1, <1>3, <1>4, <1>5

LEMMA UnchangedConversation ==
  ASSUME NEW v, Conversation(v), Unchanged(v)
  PROVE  Conversation(v)'
BY DEF Unchanged, Conversation, Settled, Asked, Given, Rq, Close

\* The states of the other workers when the turn passes on.
AfterTurn(f) ==
  CASE pc = "connect" -> {"CONNECTED", "CONNECTING"}
    [] pc = "open" -> {Request(f), Requesting(f)}
    [] pc = "reply" -> {Requesting(f), Opened(f)}
    [] OTHER -> {"CONNECTED", "WRITE_OVER"}

LEMMA TurnStates ==
  ASSUME NEW n \in Nat \ {0}, NEW next, Advance(n, next), idx \in 1 .. n,
         <<pc, next>> \in {<<"connect", "connecting">>, <<"open", "flush">>, <<"reply", "collect">>,
                           <<"close", "closeFlush">>},
         cur' = cur
  PROVE  /\ \A f, i : f # cur => StatesOf(f, i)' = StatesOf(f, i)
         /\ \A f, i : f = cur /\ i \in 1 .. n /\ i # idx => StatesOf(f, i)' = StatesOf(f, i)
         /\ \A f, i : f = cur /\ i = idx => StatesOf(f, i)' = AfterTurn(f)
         /\ \A i \in 1 .. n : /\ i # idx => (((pc' = "reply" /\ i < idx') \/ pc' = "collect")
                                              <=> ((pc = "reply" /\ i < idx) \/ pc = "collect"))
                              /\ i = idx => (((pc' = "reply" /\ i < idx') \/ pc' = "collect") <=> pc = "reply")
<1>1. pc \in {"connect", "open", "reply", "close"} /\ next \in {"connecting", "flush", "collect", "closeFlush"}
  OBVIOUS
<1>2. (pc' = pc /\ idx' = idx + 1 /\ idx # n) \/ (pc' = next /\ idx' = 1 /\ idx = n)
  BY Turn
<1>3. \A f, i : f # cur => StatesOf(f, i)' = StatesOf(f, i)
  BY DEF StatesOf, Opened
<1>4. ASSUME NEW f, NEW i, f = cur, i \in 1 .. n, i # idx PROVE StatesOf(f, i)' = StatesOf(f, i)
  <2>1. CASE pc' = pc /\ idx' = idx + 1
    <3>1. i < idx' <=> i < idx
      BY <1>4, <2>1
    <3> QED
      BY <1>1, <1>4, <2>1, <3>1 DEF StatesOf, Opened, Request, Requesting
  <2>2. CASE pc' = next /\ idx = n
    <3>1. i < idx
      BY <1>4, <2>2
    <3> QED
      BY <1>1, <1>4, <2>2, <3>1 DEF StatesOf, Opened, Request, Requesting
  <2> QED
    BY <1>2, <2>1, <2>2
<1>5. ASSUME NEW f, NEW i, f = cur, i = idx PROVE StatesOf(f, i)' = AfterTurn(f)
  <2>1. CASE pc' = pc /\ idx' = idx + 1
    <3>1. i < idx'
      BY <1>5, <2>1
    <3> QED
      BY <1>1, <1>5, <2>1, <3>1 DEF StatesOf, Opened, Request, Requesting, AfterTurn
  <2>2. CASE pc' = next /\ idx = n
    BY <1>1, <1>5, <2>2 DEF StatesOf, Opened, Request, Requesting, AfterTurn
  <2> QED
    BY <1>2, <2>1, <2>2
<1>6. \A i \in 1 .. n : /\ i # idx => (((pc' = "reply" /\ i < idx') \/ pc' = "collect")
                                              <=> ((pc = "reply" /\ i < idx) \/ pc = "collect"))
                        /\ i = idx => (((pc' = "reply" /\ i < idx') \/ pc' = "collect") <=> pc = "reply")
  BY <1>1, <1>2
<1> QED
  BY <1>3, <1>4, <1>5, <1>6

\* A phase goes on to the next worker.
LEMMA TurnPhases ==
  ASSUME Typed, ListsComplete, WorkersOfBlocks, Phases, NEW w \in Workers, w = W, NEW next, Advance(Len(Mine), next),
         <<pc, next>> \in {<<"connect", "connecting">>, <<"open", "flush">>, <<"reply", "collect">>,
                           <<"close", "closeFlush">>},
         cur' = cur, held' = held, Only(w), Conversation(w)',
         worker'[w].state \in AfterTurn(cur),
         worker'[w].mon = "in" <=> pc = "reply" /\ worker'[w].state = Requesting(cur)
  PROVE  Phases'
<1>1. pc \in {"connect", "open", "reply", "close"}
  OBVIOUS
<1>2. /\ idx \in 1 .. Len(held[cur]) /\ Len(Mine) = Len(held[cur]) /\ Len(Mine) \in Nat \ {0}
      /\ w = held[cur][idx] /\ cur \in Files
  BY <1>1, WorkerInTurn, TypeFacts, BlockIdsAre
<1>3. \A v \in Workers : Conversation(v)'
  BY UnchangedConversation DEF Phases, Only
<1>4. ASSUME NEW f \in Files, NEW i \in 1 .. Len(held[f])
      PROVE  worker'[held[f][i]].state \in StatesOf(f, i)' /\ AnswerAwaited(f, i)'
  <2>1. held[f][i] \in Workers /\ worker[held[f][i]].state \in StatesOf(f, i) /\ AnswerAwaited(f, i)
    BY TypeFacts DEF Phases
  <2>2. CASE f = cur /\ i = idx
    <3>1. StatesOf(f, i)' = AfterTurn(cur)
          /\ (((pc' = "reply" /\ i < idx') \/ pc' = "collect") <=> pc = "reply")
      BY <1>1, <1>2, <2>2, TurnStates
    <3> QED
      BY <1>2, <2>2, <3>1 DEF AnswerAwaited, Requesting
  <2>3. CASE ~(f = cur /\ i = idx)
    <3>1. held[f][i] # w
      BY <1>2, <2>3 DEF WorkersOfBlocks
    <3>2. worker'[held[f][i]] = worker[held[f][i]]
      BY <2>1, <3>1 DEF Only, Unchanged
    <3>3. StatesOf(f, i)' = StatesOf(f, i)
      BY <1>2, <2>3, TurnStates
    <3>4. f = cur => (((pc' = "reply" /\ i < idx') \/ pc' = "collect") <=> ((pc = "reply" /\ i < idx) \/ pc = "collect"))
      BY <1>2, <2>3, TurnStates
    <3>5. AnswerAwaited(f, i)'
      BY <2>1, <3>2, <3>4 DEF AnswerAwaited, Requesting
    <3> QED
      BY <2>1, <3>2, <3>3, <3>5
  <2> QED
    BY <2>2, <2>3
<1>5. ASSUME NEW v \in Workers, NotHeld(v) PROVE worker'[v].state \in {"UNINIT", "CONNECTED"}
  <2>1. v # w
    BY <1>2, <1>5 DEF NotHeld
  <2> QED
    BY <1>5, <2>1 DEF Phases, Only, Unchanged, NotHeld
<1> QED
  BY <1>3, <1>4, <1>5 DEF Phases, NotHeld

\* One connection goes on within a phase.
LEMMA OnePhases ==
  ASSUME Typed, Phases, NEW w \in Workers, Only(w), UNCHANGED <<pc, cur, idx, held>>, Conversation(w)',
         \A f \in Files : \A i \in 1 .. Len(held[f]) :
           held[f][i] = w => worker'[w].state \in StatesOf(f, i) /\ AnswerAwaited(f, i)',
         NotHeld(w) => worker'[w].state \in {"UNINIT", "CONNECTED"}
  PROVE  Phases'
<1>1. \A v \in Workers : Conversation(v)'
  BY UnchangedConversation DEF Phases, Only
<1>2. ASSUME NEW f \in Files, NEW i \in 1 .. Len(held[f])
      PROVE  worker'[held[f][i]].state \in StatesOf(f, i)' /\ AnswerAwaited(f, i)'
  <2>1. held[f][i] \in Workers /\ worker[held[f][i]].state \in StatesOf(f, i) /\ AnswerAwaited(f, i)
    BY TypeFacts DEF Phases
  <2>2. StatesOf(f, i)' = StatesOf(f, i)
    BY DEF StatesOf, Opened, Request, Requesting
  <2>3. CASE held[f][i] = w
    BY <2>2, <2>3
  <2>4. CASE held[f][i] # w
    <3>1. worker'[held[f][i]] = worker[held[f][i]]
      BY <2>1, <2>4 DEF Only, Unchanged
    <3>2. AnswerAwaited(f, i)'
      BY <2>1, <3>1 DEF AnswerAwaited, Requesting
    <3> QED
      BY <2>1, <2>2, <3>1, <3>2
  <2> QED
    BY <2>3, <2>4
<1>3. ASSUME NEW v \in Workers, NotHeld(v) PROVE worker'[v].state \in {"UNINIT", "CONNECTED"}
  BY <1>3 DEF Phases, Only, Unchanged, NotHeld
<1> QED
  BY <1>1, <1>2, <1>3 DEF Phases, NotHeld

LEMMA ConnectPhases ==
  ASSUME Typed, ListsComplete, WorkersOfBlocks, Sockets, Phases, NEW w \in Workers, w = W, ConnectABlockWorker
  PROVE  Phases'
<1>1. pc = "connect" /\ Advance(Len(Mine), "connecting") /\ UNCHANGED <<cur, held, out, reqs, reps, open>>
  BY ConnectDoes DEF netVars
<1>2. /\ \A v \in Workers : v # w => worker'[v] = worker[v]
      /\ worker'[w].mon = worker[w].mon
      /\ worker'[w].state \in {"CONNECTED", "CONNECTING"}
  BY ConnectDoes DEF Changes
<1>3. idx \in 1 .. Len(held[cur]) /\ w = held[cur][idx] /\ w \in Workers /\ cur \in Files
  BY <1>1, WorkerInTurn, TypeFacts
<1>4. worker[w].state \in {"CONNECTED", "UNINIT"}
  <2>1. worker[w].state \in StatesOf(cur, idx) /\ idx \in Nat
    BY <1>3, TypeFacts DEF Phases
  <2> QED
    BY <1>1, <2>1 DEF StatesOf
<1>5. Settled(w) /\ out[w] = <<>> /\ worker[w].mon = "none"
  BY <1>3, <1>4 DEF Phases, Conversation
<1>6. Conversation(w)'
  BY <1>1, <1>2, <1>5 DEF Conversation, Settled
<1> QED
  BY <1>1, <1>2, <1>5, <1>6, TurnPhases DEF Only, Unchanged, AfterTurn

LEMMA OpenPhases ==
  ASSUME Typed, ListsComplete, WorkersOfBlocks, Sockets, Phases, NEW w \in Workers, w = W, OpenBlock
  PROVE  Phases'
<1>1. pc = "open" /\ Advance(Len(Mine), "flush") /\ UNCHANGED <<cur, held, reps, open>>
  BY OpenDoes
<1>2. /\ idx \in 1 .. Len(held[cur]) /\ w = held[cur][idx] /\ w \in Workers /\ cur \in Files
      /\ worker[w].block = <<cur, idx>>
  BY <1>1, WorkerInTurn, TypeFacts
<1>3. worker[w].state = "CONNECTED"
  <2>1. worker[w].state \in StatesOf(cur, idx) /\ idx \in Nat
    BY <1>2, TypeFacts DEF Phases
  <2> QED
    BY <1>1, <2>1 DEF StatesOf
<1>4. Settled(w) /\ out[w] = <<>> /\ worker[w].mon = "none"
  BY <1>2, <1>3 DEF Phases, Conversation
<1>5. reqs \in [Workers -> Seq(Requests)] /\ out \in [Workers -> Seq(Requests)]
  BY DEF Typed
<1>6. /\ \A v \in Workers : v # w => worker'[v] = worker[v]
      /\ worker'[w].block = <<cur, idx>>
      /\ \/ /\ worker'[w].state = Requesting(cur) /\ worker'[w].mon = "none" /\ out' = out
            /\ reqs' = [reqs EXCEPT ![w] = Append(@, OpenRq)]
         \/ /\ worker'[w].state = Request(cur) /\ worker'[w].mon = "out" /\ reqs' = reqs
            /\ out' = [out EXCEPT ![w] = <<OpenRq>>]
  BY <1>2, <1>3, <1>4, OpenDoes DEF Changes
<1>7. Only(w)
  BY <1>1, <1>5, <1>6 DEF Only, Unchanged
<1>8. worker'[w].state \in {Request(cur), Requesting(cur)} => Rq(w)' = OpenRq
  BY <1>6 DEF Rq, OpenRq, Request, Requesting
<1>9. Conversation(w)'
  <2>1. CASE /\ worker'[w].state = Requesting(cur) /\ worker'[w].mon = "none" /\ out' = out
             /\ reqs' = [reqs EXCEPT ![w] = Append(@, OpenRq)]
    <3>1. reps'[w] = <<>> /\ open' = open /\ reqs'[w] = Append(reqs[w], Rq(w)')
      BY <1>1, <1>2, <1>4, <1>5, <1>8, <2>1 DEF Settled
    <3>2. Asked(w)'
      <4>2. CASE reqs[w] = <<>> /\ open[w] = {}
        <5>1. reqs'[w] = <<Rq(w)'>>
          BY <3>1, <4>2, FewMessages
        <5>2. reps'[w] = <<>> /\ open'[w] = {}
          BY <1>1, <1>4, <4>2 DEF Settled
        <5> QED
          BY <5>1, <5>2 DEF Asked, Rq
      <4>3. CASE \E b \in BlockIds : reqs[w] = <<Close(b)>> /\ open[w] = {b}
        <5>1. PICK b \in BlockIds : reqs[w] = <<Close(b)>> /\ open[w] = {b}
          BY <4>3
        <5>2. reqs'[w] = <<Close(b), Rq(w)'>>
          <6>1. reqs'[w] = Append(<<Close(b)>>, Rq(w)')
            BY <3>1, <5>1
          <6>2. Append(<<Close(b)>>, Rq(w)') = <<Close(b), Rq(w)'>>
            <7> HIDE DEF Close
            <7>1. Close(b) \in {Close(b), Rq(w)'} /\ Rq(w)' \in {Close(b), Rq(w)'}
              OBVIOUS
            <7> QED
              BY <7>1, FewMessages
          <6> QED
            BY <6>1, <6>2
        <5>3. reps'[w] = <<>> /\ open'[w] = {b}
          BY <1>1, <1>4, <5>1 DEF Settled
        <5> QED
          BY <5>1, <5>2, <5>3 DEF Asked, Rq, Close
      <4> QED
        BY <1>4, <4>2, <4>3 DEF Settled
    <3> QED
      BY <1>4, <2>1, <3>2 DEF Conversation, Requesting
  <2>2. CASE /\ worker'[w].state = Request(cur) /\ worker'[w].mon = "out" /\ reqs' = reqs
             /\ out' = [out EXCEPT ![w] = <<OpenRq>>]
    <3>1. out'[w] = <<Rq(w)'>>
      BY <1>2, <1>5, <1>8, <2>2
    <3>2. Settled(w)'
      BY <1>1, <1>4, <2>2 DEF Settled
    <3> QED
      BY <2>2, <3>1, <3>2 DEF Conversation, Request
  <2> QED
    BY <1>6, <2>1, <2>2
<1>10. worker'[w].state \in AfterTurn(cur) /\ worker'[w].mon # "in"
  BY <1>1, <1>6 DEF AfterTurn
<1> QED
  BY <1>1, <1>7, <1>9, <1>10, TurnPhases

\* The answer for its block is what a worker that asked takes.
LEMMA TakesAnswer ==
  ASSUME Typed, Phases, NEW w \in Workers, NEW f \in Files, worker[w].state = Requesting(f), reps[w] # <<>>,
         worker'[w].state = Forward(worker[w].state), worker'[w].fd = FdOf(w, Head(reps[w])),
         worker'[w].block = worker[w].block, worker'[w].mon = "none",
         reps' = [reps EXCEPT ![w] = Tail(@)], UNCHANGED <<reqs, out, open>>
  PROVE  Conversation(w)' /\ worker'[w].state = Opened(f)
<1>1. Conversation(w)
  BY DEF Phases
<1>2. Given(w) /\ out[w] = <<>>
  BY <1>1 DEF Conversation, Requesting, Asked
<1>3. Head(reps[w]) = [type |-> Rq(w).type, fd |-> worker[w].block] /\ Tail(reps[w]) = <<>>
  BY <1>2, FewMessages DEF Given
<1>4. worker'[w].state = Opened(f)
  BY ForwardStates DEF Requesting, Opened
<1>5. worker'[w].fd = worker[w].block
  BY <1>3 DEF FdOf, Requesting, Rq
<1>6. reps'[w] = <<>>
  BY <1>3 DEF Typed, TypeOK
<1> QED
  BY <1>2, <1>4, <1>5, <1>6 DEF Conversation, Given, Opened

LEMMA RecvPhases ==
  ASSUME Typed, ListsComplete, WorkersOfBlocks, Sockets, Phases, NEW w \in Workers, w = W, RecvReply
  PROVE  Phases'
<1>1. pc = "reply" /\ Advance(Len(Mine), "collect") /\ UNCHANGED <<cur, held, out, reqs, open>>
  BY RecvDoes
<1>2. idx \in 1 .. Len(held[cur]) /\ w = held[cur][idx] /\ w \in Workers /\ cur \in Files
  BY <1>1, WorkerInTurn, TypeFacts
<1>3. worker[w].state = Requesting(cur)
  <2>1. worker[w].state \in StatesOf(cur, idx) /\ idx \in Nat
    BY <1>2, TypeFacts DEF Phases
  <2> QED
    BY <1>1, <2>1 DEF StatesOf
<1>4. /\ \A v \in Workers : v # w => worker'[v] = worker[v]
      /\ worker'[w].block = worker[w].block
      /\ \/ /\ reps[w] # <<>> /\ reps' = [reps EXCEPT ![w] = Tail(@)]
            /\ worker'[w].state = Forward(worker[w].state) /\ worker'[w].fd = FdOf(w, Head(reps[w]))
            /\ worker'[w].mon = worker[w].mon
         \/ /\ reps[w] = <<>> /\ UNCHANGED reps
            /\ worker'[w].state = worker[w].state /\ worker'[w].fd = worker[w].fd /\ worker'[w].mon = "in"
  BY <1>3, RecvDoes DEF Changes, Requesting
<1>5. w \notin Monitored
  BY <1>1, <1>4, TurnStep
<1>6. worker[w].mon = "none"
  BY <1>2, <1>5, TypeFacts DEF Monitored, Record
<1>7. reps \in [Workers -> Seq([type : {"create", "open"}, fd : BlockIds])]
  BY DEF Typed, TypeOK
<1>8. Only(w)
  BY <1>1, <1>4, <1>7 DEF Only, Unchanged
<1>9. CASE /\ reps[w] # <<>> /\ reps' = [reps EXCEPT ![w] = Tail(@)]
           /\ worker'[w].state = Forward(worker[w].state) /\ worker'[w].fd = FdOf(w, Head(reps[w]))
           /\ worker'[w].mon = worker[w].mon
  <2>1. Conversation(w)' /\ worker'[w].state = Opened(cur) /\ worker'[w].mon = "none"
    BY <1>1, <1>2, <1>3, <1>4, <1>6, <1>9, TakesAnswer
  <2>2. worker'[w].state \in AfterTurn(cur) /\ worker'[w].state # Requesting(cur)
    BY <1>1, <2>1 DEF AfterTurn, Opened, Requesting
  <2> QED
    BY <1>1, <1>8, <2>1, <2>2, TurnPhases
<1>10. CASE /\ reps[w] = <<>> /\ UNCHANGED reps
            /\ worker'[w].state = worker[w].state /\ worker'[w].fd = worker[w].fd /\ worker'[w].mon = "in"
  <2>1. Asked(w) /\ out[w] = <<>>
    <3>1. (Asked(w) \/ Given(w)) /\ out[w] = <<>>
      BY <1>2, <1>3 DEF Phases, Conversation, Requesting
    <3>2. ~Given(w)
      BY <1>10 DEF Given
    <3> QED
      BY <3>1, <3>2
  <2>2. Asked(w)'
    BY <1>1, <1>4, <1>10, <2>1 DEF Asked, Rq
  <2>3. Conversation(w)'
    BY <1>1, <1>3, <1>10, <2>1, <2>2 DEF Conversation, Requesting
  <2>4. worker'[w].state \in AfterTurn(cur)
    BY <1>1, <1>3, <1>10 DEF AfterTurn
  <2> QED
    BY <1>1, <1>3, <1>8, <1>10, <2>3, <2>4, TurnPhases
<1> QED
  BY <1>4, <1>9, <1>10

LEMMA ClosePhases ==
  ASSUME Typed, ListsComplete, WorkersOfBlocks, Sockets, Phases, NEW w \in Workers, w = W, CloseBlockInServer
  PROVE  Phases'
<1>1. pc = "close" /\ Advance(Len(Mine), "closeFlush") /\ UNCHANGED <<cur, held, reps, open>>
  BY CloseDoes
<1>2. /\ idx \in 1 .. Len(held[cur]) /\ w = held[cur][idx] /\ w \in Workers /\ cur \in Files
      /\ worker[w].block = <<cur, idx>> /\ <<cur, idx>> \in BlockIds
  BY <1>1, WorkerInTurn, TypeFacts
<1>3. worker[w].state \in {"WRITE", "READ"}
  <2>1. worker[w].state \in StatesOf(cur, idx) /\ idx \in Nat
    BY <1>2, TypeFacts DEF Phases
  <2> QED
    BY <1>1, <2>1 DEF StatesOf, Opened
<1>4. /\ reqs[w] = <<>> /\ reps[w] = <<>> /\ out[w] = <<>> /\ worker[w].mon = "none"
      /\ worker[w].fd \in BlockIds /\ open[w] = {worker[w].fd}
  BY <1>2, <1>3 DEF Phases, Conversation
<1>5. reqs \in [Workers -> Seq(Requests)] /\ out \in [Workers -> Seq(Requests)]
  BY DEF Typed
<1>6. /\ \A v \in Workers : v # w => worker'[v] = worker[v]
      /\ worker'[w].fd = worker[w].fd
      /\ \/ /\ worker'[w].state = "CONNECTED" /\ worker'[w].mon = "none" /\ out' = out
            /\ reqs' = [reqs EXCEPT ![w] = Append(@, Close(worker[w].fd))]
         \/ /\ worker'[w].state = "WRITE_OVER" /\ worker'[w].mon = "out" /\ reqs' = reqs
            /\ out' = [out EXCEPT ![w] = <<Close(worker[w].fd)>>]
  BY <1>3, <1>4, CloseDoes
<1>7. Only(w)
  BY <1>1, <1>5, <1>6 DEF Only, Unchanged
<1>8. Conversation(w)'
  <2>1. CASE /\ worker'[w].state = "CONNECTED" /\ worker'[w].mon = "none" /\ out' = out
             /\ reqs' = [reqs EXCEPT ![w] = Append(@, Close(worker[w].fd))]
    <3>1. reqs'[w] = <<Close(worker[w].fd)>> /\ open'[w] = {worker[w].fd} /\ reps'[w] = <<>>
      BY <1>1, <1>2, <1>4, <1>5, <2>1, FewMessages
    <3>2. Settled(w)'
      BY <1>4, <3>1 DEF Settled, Close
    <3> QED
      BY <1>4, <2>1, <3>2 DEF Conversation
  <2>2. CASE /\ worker'[w].state = "WRITE_OVER" /\ worker'[w].mon = "out" /\ reqs' = reqs
             /\ out' = [out EXCEPT ![w] = <<Close(worker[w].fd)>>]
    <3>1. out'[w] = <<Close(worker'[w].fd)>>
      BY <1>2, <1>5, <1>6, <2>2
    <3> QED
      BY <1>1, <1>4, <1>6, <2>2, <3>1 DEF Conversation, Close
  <2> QED
    BY <1>6, <2>1, <2>2
<1>9. worker'[w].state \in AfterTurn(cur) /\ worker'[w].mon # "in"
  BY <1>1, <1>6 DEF AfterTurn
<1> QED
  BY <1>1, <1>7, <1>8, <1>9, TurnPhases

\* epoll has the writable socket of a worker that was to send, or to close.
LEMMA SocketPhases ==
  ASSUME Typed, WorkersOfBlocks, Sockets, Phases, NEW w \in Workers,
         Connected(w) \/ SockWritable(w) \/ SockReadable(w)
  PROVE  Phases'
<1>1. /\ Conversation(w) /\ (NotHeld(w) => worker[w].state \in {"UNINIT", "CONNECTED"})
      /\ \A f \in Files : \A i \in 1 .. Len(held[f]) :
           held[f][i] = w => worker[w].state \in StatesOf(f, i) /\ AnswerAwaited(f, i)
  BY DEF Phases, NotHeld
<1>2. /\ reqs \in [Workers -> Seq(Requests)] /\ out \in [Workers -> Seq(Requests)]
      /\ reps \in [Workers -> Seq([type : {"create", "open"}, fd : BlockIds])]
  BY DEF Typed, TypeOK
<1>3. worker[w].state \in States /\ worker[w].mon \in {"none", "in", "out"}
  BY TypeFacts DEF Record
<1>4. CASE Connected(w)
  <2>1. /\ pc = "connecting" /\ worker[w].state = "CONNECTING"
        /\ UNCHANGED <<pc, cur, idx, held, out, reqs, reps, open>>
        /\ \A v \in Workers : v # w => worker'[v] = worker[v]
        /\ worker'[w].state = "CONNECTED" /\ worker'[w].mon = worker[w].mon
    BY <1>4, ConnectedDoes DEF Changes, netVars
  <2>2. Settled(w) /\ out[w] = <<>> /\ worker[w].mon = "none"
    BY <1>1, <2>1 DEF Conversation
  <2>3. Conversation(w)'
    BY <2>1, <2>2 DEF Conversation, Settled
  <2>4. ASSUME NEW f \in Files, NEW i \in 1 .. Len(held[f]), held[f][i] = w
        PROVE  worker'[w].state \in StatesOf(f, i) /\ AnswerAwaited(f, i)'
    <3>1. "CONNECTING" \in StatesOf(f, i)
      BY <1>1, <2>1, <2>4
    <3>2. f = cur
      BY <3>1 DEF StatesOf, Opened
    <3>3. worker'[w].state \in StatesOf(f, i)
      BY <2>1, <3>2 DEF StatesOf
    <3> QED
      BY <2>1, <2>2, <2>4, <3>3 DEF AnswerAwaited
  <2> QED
    BY <2>1, <2>3, <2>4, OnePhases DEF Only, Unchanged
<1>5. CASE SockWritable(w)
  <2>1. /\ pc \in {"flush", "collect", "closeFlush"} /\ worker[w].mon = "out"
        /\ reqs' = [reqs EXCEPT ![w] = @ \o out[w]] /\ out' = [out EXCEPT ![w] = <<>>]
        /\ UNCHANGED <<pc, cur, idx, held, reps, open>>
        /\ \A v \in Workers : v # w => worker'[v] = worker[v]
        /\ worker'[w].state = Forward(worker[w].state) /\ worker'[w].mon = "none"
        /\ worker'[w].fd = worker[w].fd /\ worker'[w].block = worker[w].block
    BY <1>5, WritableDoes DEF Changes
  <2>2. Only(w) /\ reqs'[w] = reqs[w] \o out[w] /\ out'[w] = <<>> /\ reps'[w] = reps[w] /\ open'[w] = open[w]
    BY <1>2, <2>1 DEF Only, Unchanged
  <2>3. worker[w].state \in {"REQUEST_WRITE", "REQUEST_READ", "WRITE_OVER"}
    BY <1>1, <1>3, <2>1 DEF Conversation, States
  <2>4. CASE worker[w].state \in {"REQUEST_WRITE", "REQUEST_READ"}
    <3>1. worker'[w].state = IF worker[w].state = "REQUEST_WRITE" THEN "WRITE_REQUESTING" ELSE "READ_REQUESTING"
      BY <2>1, <2>4, ForwardStates
    <3>2. Settled(w) /\ out[w] = <<Rq(w)>>
      BY <1>1, <2>4 DEF Conversation
    <3>3. Rq(w)' = Rq(w)
      BY <2>1, <2>4, <3>1 DEF Rq
    <3>4. Asked(w)'
      <4>1. reps'[w] = <<>>
        BY <2>2, <3>2 DEF Settled
      <4>2. CASE reqs[w] = <<>> /\ open[w] = {}
        <5>1. reqs'[w] = <<Rq(w)'>> /\ open'[w] = {}
          BY <2>2, <3>2, <3>3, <4>2, FewMessages
        <5> QED
          BY <4>1, <5>1 DEF Asked, Rq
      <4>3. CASE \E b \in BlockIds : reqs[w] = <<Close(b)>> /\ open[w] = {b}
        <5>1. PICK b \in BlockIds : reqs[w] = <<Close(b)>> /\ open[w] = {b}
          BY <4>3
        <5>2. reqs'[w] = <<Close(b), Rq(w)'>>
          <6>1. reqs'[w] = <<Close(b)>> \o <<Rq(w)'>>
            BY <2>2, <3>2, <3>3, <5>1
          <6>2. <<Close(b)>> \o <<Rq(w)'>> = <<Close(b), Rq(w)'>>
            <7> HIDE DEF Close
            <7>1. Close(b) \in {Close(b), Rq(w)'} /\ Rq(w)' \in {Close(b), Rq(w)'}
              OBVIOUS
            <7> QED
              BY <7>1, FewMessages
          <6> QED
            BY <6>1, <6>2
        <5>3. open'[w] = {b}
          BY <2>2, <5>1
        <5> QED
          BY <4>1, <5>1, <5>2, <5>3 DEF Asked, Rq, Close
      <4> QED
        BY <3>2, <4>2, <4>3 DEF Settled
    <3>5. Conversation(w)'
      BY <2>1, <2>2, <3>1, <3>4 DEF Conversation
    <3>6. ASSUME NEW f \in Files, NEW i \in 1 .. Len(held[f]), held[f][i] = w
          PROVE  worker'[w].state \in StatesOf(f, i) /\ AnswerAwaited(f, i)'
      <4>1. worker[w].state \in StatesOf(f, i)
        BY <1>1, <3>6
      <4>2. f = cur /\ pc = "flush" /\ worker[w].state = Request(f)
        BY <2>1, <2>4, <4>1 DEF StatesOf, Opened, Request, Requesting
      <4>3. worker'[w].state = Requesting(f)
        BY <3>1, <4>2 DEF Request, Requesting
      <4>4. worker'[w].state \in StatesOf(f, i)
        BY <4>2, <4>3 DEF StatesOf
      <4>5. AnswerAwaited(f, i)'
        BY <2>1, <3>6, <4>2 DEF AnswerAwaited
      <4> QED
        BY <4>4, <4>5
    <3> QED
      BY <1>1, <2>1, <2>2, <2>4, <3>5, <3>6, OnePhases
  <2>5. CASE worker[w].state = "WRITE_OVER"
    <3>1. worker'[w].state = "CONNECTED"
      BY <2>1, <2>5, ForwardStates
    <3>2. /\ reqs[w] = <<>> /\ reps[w] = <<>> /\ out[w] = <<Close(worker[w].fd)>>
          /\ worker[w].fd \in BlockIds /\ open[w] = {worker[w].fd}
      BY <1>1, <2>5 DEF Conversation
    <3>3. reqs'[w] = <<Close(worker[w].fd)>> /\ reps'[w] = <<>> /\ open'[w] = {worker[w].fd}
      BY <2>2, <3>2, FewMessages
    <3>4. Settled(w)'
      BY <3>2, <3>3 DEF Settled, Close
    <3>5. Conversation(w)'
      BY <2>1, <2>2, <3>1, <3>4 DEF Conversation
    <3>6. ASSUME NEW f \in Files, NEW i \in 1 .. Len(held[f]), held[f][i] = w
          PROVE  worker'[w].state \in StatesOf(f, i) /\ AnswerAwaited(f, i)'
      <4>1. worker[w].state \in StatesOf(f, i)
        BY <1>1, <3>6
      <4>2. f = cur /\ pc = "closeFlush"
        BY <2>1, <2>5, <4>1 DEF StatesOf, Opened, Request, Requesting
      <4>3. worker'[w].state \in StatesOf(f, i)
        BY <3>1, <4>2 DEF StatesOf
      <4>4. AnswerAwaited(f, i)'
        BY <2>1, <3>6, <4>2 DEF AnswerAwaited
      <4> QED
        BY <4>3, <4>4
    <3> QED
      BY <2>1, <2>2, <3>1, <3>5, <3>6, OnePhases
  <2> QED
    BY <2>3, <2>4, <2>5
<1>6. CASE SockReadable(w)
  <2>1. /\ pc \in {"flush", "collect", "closeFlush"} /\ worker[w].mon = "in" /\ reps[w] # <<>>
        /\ reps' = [reps EXCEPT ![w] = Tail(@)]
        /\ UNCHANGED <<pc, cur, idx, held, out, reqs, open>>
        /\ \A v \in Workers : v # w => worker'[v] = worker[v]
        /\ worker'[w].state = Forward(worker[w].state) /\ worker'[w].mon = "none"
        /\ worker'[w].fd = FdOf(w, Head(reps[w])) /\ worker'[w].block = worker[w].block
    BY <1>6, ReadableDoes DEF Changes
  <2>2. Only(w)
    BY <1>2, <2>1 DEF Only, Unchanged
  <2>3. worker[w].state \in {"WRITE_REQUESTING", "READ_REQUESTING"}
    BY <1>1, <1>3, <2>1 DEF Conversation, States
  <2>4. PICK f \in Files : \E i \in 1 .. Len(held[f]) : held[f][i] = w
    BY <1>1, <2>3 DEF NotHeld
  <2>5. PICK i \in 1 .. Len(held[f]) : held[f][i] = w
    BY <2>4
  <2>6. f = cur /\ pc = "collect" /\ worker[w].state = Requesting(f)
    BY <1>1, <2>1, <2>5 DEF AnswerAwaited
  <2>7. Conversation(w)' /\ worker'[w].state = Opened(f)
    BY <2>1, <2>6, TakesAnswer
  <2>8. ASSUME NEW g \in Files, NEW j \in 1 .. Len(held[g]), held[g][j] = w
        PROVE  worker'[w].state \in StatesOf(g, j) /\ AnswerAwaited(g, j)'
    <3>1. g = f /\ j = i
      BY <2>5, <2>8 DEF WorkersOfBlocks
    <3>2. worker'[w].state \in StatesOf(g, j)
      BY <2>6, <2>7, <3>1 DEF StatesOf
    <3>3. Opened(g) # Requesting(g)
      BY DEF Opened, Requesting
    <3>4. AnswerAwaited(g, j)'
      BY <2>1, <2>7, <2>8, <3>1, <3>3 DEF AnswerAwaited, Requesting
    <3> QED
      BY <3>2, <3>4
  <2> QED
    BY <2>1, <2>2, <2>5, <2>7, <2>8, OnePhases DEF NotHeld
<1> QED
  BY <1>4, <1>5, <1>6

\* A block server closes the last block, or opens the one that is asked for.
LEMMA ServerPhases ==
  ASSUME Typed, Phases, NEW w \in Workers, ServerAnswers(w)
  PROVE  Phases'
<1>1. Conversation(w) /\ worker[w].state \in States
  BY TypeFacts DEF Phases, Record
<1>2. reqs[w] # <<>> /\ UNCHANGED <<worker, pc, cur, idx, held, out>>
  BY DEF ServerAnswers
<1>3. /\ reqs \in [Workers -> Seq(Requests)] /\ open \in [Workers -> SUBSET (BlockIds \cup {None})]
      /\ reps \in [Workers -> Seq([type : {"create", "open"}, fd : BlockIds])]
  BY DEF Typed, TypeOK
<1>4. /\ reqs'[w] = Tail(reqs[w])
      /\ Head(reqs[w]).type = "close" =>
           open'[w] = open[w] \ {Head(reqs[w]).block} /\ reps'[w] = reps[w]
      /\ Head(reqs[w]).type # "close" =>
           /\ open'[w] = open[w] \cup {Head(reqs[w]).block}
           /\ reps'[w] = Append(reps[w], [type |-> Head(reqs[w]).type, fd |-> Head(reqs[w]).block])
  BY <1>3 DEF ServerAnswers
<1>5. Only(w)
  BY <1>2, <1>3 DEF Only, Unchanged, ServerAnswers
<1>6. ASSUME worker[w].state \in {"UNINIT", "CONNECTING", "CONNECTED", "REQUEST_WRITE", "REQUEST_READ"}
      PROVE  Conversation(w)'
  <2>1. Settled(w)
    BY <1>1, <1>6 DEF Conversation
  <2>2. PICK b \in BlockIds : reqs[w] = <<Close(b)>> /\ open[w] = {b}
    BY <1>2, <2>1 DEF Settled
  <2>3. Head(reqs[w]) = Close(b) /\ Tail(reqs[w]) = <<>>
    BY <2>2, FewMessages
  <2>4. reqs'[w] = <<>> /\ open'[w] = {} /\ reps'[w] = <<>>
    BY <1>4, <2>1, <2>2, <2>3 DEF Close, Settled
  <2>5. Settled(w)'
    BY <2>4 DEF Settled
  <2> QED
    BY <1>1, <1>2, <1>6, <2>5 DEF Conversation, Rq
<1>7. ASSUME worker[w].state \in {"WRITE_REQUESTING", "READ_REQUESTING"}
      PROVE  Conversation(w)'
  <2>1. Asked(w)
    BY <1>1, <1>2, <1>7 DEF Conversation, Given
  <2>2. Rq(w)' = Rq(w) /\ Rq(w).type # "close" /\ Rq(w).block = worker[w].block
    BY <1>2 DEF Rq
  <2>3. CASE reqs[w] = <<Rq(w)>> /\ open[w] = {}
    <3>1. Head(reqs[w]) = Rq(w) /\ Tail(reqs[w]) = <<>>
      BY <2>3, FewMessages
    <3>2. reqs'[w] = <<>> /\ open'[w] = {worker[w].block}
          /\ reps'[w] = <<[type |-> Rq(w).type, fd |-> worker[w].block]>>
      BY <1>4, <2>1, <2>2, <2>3, <3>1, FewMessages DEF Asked
    <3>3. Given(w)'
      BY <1>2, <2>2, <3>2 DEF Given, Rq
    <3> QED
      BY <1>1, <1>2, <1>7, <3>3 DEF Conversation
  <2>4. CASE \E b \in BlockIds : reqs[w] = <<Close(b), Rq(w)>> /\ open[w] = {b}
    <3>1. PICK b \in BlockIds : reqs[w] = <<Close(b), Rq(w)>> /\ open[w] = {b}
      BY <2>4
    <3>2. Head(reqs[w]) = Close(b) /\ Tail(reqs[w]) = <<Rq(w)>>
      BY <3>1, FewMessages
    <3>3. reqs'[w] = <<Rq(w)'>> /\ open'[w] = {} /\ reps'[w] = <<>>
      BY <1>4, <2>1, <2>2, <3>1, <3>2 DEF Close, Asked
    <3>4. Asked(w)'
      BY <3>3 DEF Asked, Rq
    <3> QED
      BY <1>1, <1>2, <1>7, <3>4 DEF Conversation
  <2> QED
    BY <2>1, <2>3, <2>4 DEF Asked
<1>8. Conversation(w)'
  BY <1>1, <1>2, <1>6, <1>7 DEF Conversation, States
<1>9. \A f \in Files : \A i \in 1 .. Len(held[f]) :
        held[f][i] = w => worker'[w].state \in StatesOf(f, i) /\ AnswerAwaited(f, i)'
  BY <1>2 DEF Phases, AnswerAwaited
<1>10. NotHeld(w) => worker'[w].state \in {"UNINIT", "CONNECTED"}
  BY <1>2 DEF Phases, NotHeld
<1> QED
  BY <1>2, <1>5, <1>8, <1>9, <1>10, OnePhases

\* Connections that no action touches go on as they are.
LEMMA SameConversations ==
  ASSUME Phases, UNCHANGED <<worker, reqs, reps, out, open>>
  PROVE  \A v \in Workers : Conversation(v)'
BY UnchangedConversation DEF Phases, Unchanged

LEMMA AllocPhases ==
  ASSUME PoolIsLargeEnough, Typed, ListsComplete, WorkersOfBlocks, Sockets, PoolSuffices, Phases,
         AllocABlockWorker
  PROVE  Phases'
<1>1. PICK w \in Pool :
           /\ pc = "alloc" /\ Advance(Len(Blocks[cur]), "connect") /\ UNCHANGED <<cur, reqs, reps, open, out>>
           /\ ~worker[w].use /\ held' = [held EXCEPT ![cur] = Append(@, w)]
           /\ \A v \in Workers : v # w => worker'[v] = worker[v]
           /\ worker'[w].state = worker[w].state /\ worker'[w].mon = worker[w].mon
  BY AllocDoes DEF netVars
<1>2. /\ cur \in Files /\ \A f \in Files : Len(held[f]) \in Nat /\ N(f) \in Nat \ {0}
      /\ held \in [Files -> Seq(Workers)] /\ w \in Workers
      /\ \A f \in Files : \A i \in 1 .. Len(held[f]) : held[f][i] \in Workers
  BY <1>1, TypeFacts, BlockIdsAre
<1>3. idx \in 1 .. N(cur) /\ Len(held[cur]) = idx - 1
  BY <1>1 DEF ListsComplete
<1>4. (pc' = pc /\ idx' = idx + 1 /\ idx # N(cur)) \/ (pc' = "connect" /\ idx' = 1 /\ idx = N(cur))
  BY <1>1, <1>2, <1>3, Turn DEF N
<1>5. NotHeld(w)
  BY <1>1 DEF NotHeld, WorkersOfBlocks, Released
<1>6. worker[w].state \in {"UNINIT", "CONNECTED"}
  BY <1>2, <1>5 DEF Phases, NotHeld
<1>7. Settled(w) /\ out[w] = <<>> /\ worker[w].mon = "none"
  BY <1>2, <1>6 DEF Phases, Conversation
<1>8. Conversation(w)'
  BY <1>1, <1>6, <1>7 DEF Conversation, Settled
<1>9. ASSUME NEW v \in Workers PROVE Conversation(v)'
  <2>1. CASE v = w
    BY <1>8, <2>1
  <2>2. CASE v # w
    BY <1>1, <2>2, UnchangedConversation DEF Phases, Unchanged
  <2> QED
    BY <2>1, <2>2
<1>10. ASSUME NEW f \in Files, NEW i \in 1 .. Len(held'[f])
       PROVE  worker'[held'[f][i]].state \in StatesOf(f, i)' /\ AnswerAwaited(f, i)'
  <2>1. pc' \in {"alloc", "connect"} /\ (pc' = "connect" => ~(i < idx'))
    BY <1>1, <1>4
  <2>2. f = cur => StatesOf(f, i)' = {"UNINIT", "CONNECTED"}
    BY <1>1, <2>1 DEF StatesOf
  <2>3. CASE f = cur /\ i = idx
    <3>1. held'[f][i] = w
      BY <1>1, <1>2, <1>3, <2>3
    <3> QED
      BY <1>1, <1>6, <1>7, <2>1, <2>2, <2>3, <3>1 DEF AnswerAwaited
  <2>4. CASE ~(f = cur /\ i = idx)
    <3>1. i \in 1 .. Len(held[f]) /\ held'[f][i] = held[f][i]
      <4>1. CASE f # cur
        BY <1>1, <1>2, <4>1
      <4>2. CASE f = cur
        BY <1>1, <1>2, <1>3, <2>4, <4>2
      <4> QED
        BY <4>1, <4>2
    <3>2. held[f][i] # w
      BY <1>5, <3>1 DEF NotHeld
    <3>3. worker[held[f][i]].state \in StatesOf(f, i) /\ AnswerAwaited(f, i)
      BY <3>1 DEF Phases
    <3>4. worker'[held'[f][i]] = worker[held[f][i]]
      BY <1>1, <1>2, <3>1, <3>2
    <3>5. StatesOf(f, i) \subseteq StatesOf(f, i)'
      <4>1. CASE f = cur
        <5>1. StatesOf(f, i) = {"UNINIT", "CONNECTED"}
          BY <1>1, <4>1 DEF StatesOf
        <5> QED
          BY <2>2, <4>1, <5>1
      <4>2. CASE f # cur
        BY <1>1, <4>2 DEF StatesOf, Opened
      <4> QED
        BY <4>1, <4>2
    <3>6. AnswerAwaited(f, i)'
      BY <1>1, <2>1, <3>3, <3>4 DEF AnswerAwaited
    <3> QED
      BY <3>3, <3>4, <3>5, <3>6
  <2> QED
    BY <2>3, <2>4
<1>11. ASSUME NEW v \in Workers, \A f \in Files : \A i \in 1 .. Len(held'[f]) : held'[f][i] # v
       PROVE  worker'[v].state \in {"UNINIT", "CONNECTED"}
  <2>1. CASE v = w
    BY <1>1, <1>6, <2>1
  <2>2. CASE v # w
    <3>1. ASSUME NEW f \in Files, NEW i \in 1 .. Len(held[f]) PROVE held[f][i] # v
      <4>1. i \in 1 .. Len(held'[f]) /\ held'[f][i] = held[f][i]
        BY <1>1, <1>2, <1>3
      <4> QED
        BY <1>11, <4>1
    <3> QED
      BY <1>1, <2>2, <3>1 DEF Phases
  <2> QED
    BY <2>1, <2>2
<1> QED
  BY <1>9, <1>10, <1>11 DEF Phases

\* A phase is over when nothing is awaited: then every worker has come through it.
LEMMA PhaseOverPhases ==
  ASSUME Typed, ListsComplete, WorkersOfBlocks, Sockets, Phases, PhaseOver
  PROVE  Phases'
<1>1. /\ inMon = 0 /\ UNCHANGED <<worker, cur, held, out, reqs, reps, open>> /\ idx' = 1
      /\ \/ pc = "connecting" /\ pc' = "open"
         \/ pc = "flush" /\ pc' = "reply"
         \/ pc = "collect" /\ pc' = "idle"
  BY DEF PhaseOver, netVars
<1>2. \A w \in Workers : worker[w].state # "CONNECTING" /\ worker[w].mon = "none"
  BY <1>1, MonitoredCount DEF Monitored
<1>3. \A v \in Workers : Conversation(v)'
  BY <1>1, SameConversations
<1>4. ASSUME NEW f \in Files, NEW i \in 1 .. Len(held[f])
      PROVE  worker'[held[f][i]].state \in StatesOf(f, i)' /\ AnswerAwaited(f, i)'
  <2> DEFINE w == held[f][i]
  <2>1. w \in Workers /\ worker[w].state \in StatesOf(f, i) /\ AnswerAwaited(f, i) /\ Conversation(w)
        /\ worker[w].mon = "none" /\ worker[w].state # "CONNECTING"
    BY <1>2, TypeFacts DEF Phases
  <2>2. worker[w].state # Request(f)
    BY <2>1 DEF Conversation, Request
  <2>3. pc = "collect" /\ f = cur => worker[w].state # Requesting(f)
    BY <2>1 DEF AnswerAwaited
  <2>4. ~(i < idx')
    BY <1>1
  <2>5. worker[w].state \in StatesOf(f, i)'
    <3>1. CASE f # cur
      BY <1>1, <2>1, <3>1 DEF StatesOf, Opened
    <3>2. CASE f = cur /\ pc = "connecting"
      BY <1>1, <2>1, <2>4, <3>2 DEF StatesOf
    <3>3. CASE f = cur /\ pc = "flush"
      BY <1>1, <2>1, <2>2, <2>4, <3>3 DEF StatesOf, Requesting
    <3>4. CASE f = cur /\ pc = "collect"
      BY <1>1, <2>1, <2>3, <3>4 DEF StatesOf, Opened
    <3> QED
      BY <1>1, <3>1, <3>2, <3>3, <3>4
  <2>6. AnswerAwaited(f, i)'
    BY <1>1, <2>1, <2>4 DEF AnswerAwaited
  <2> QED
    BY <1>1, <2>5, <2>6
<1> QED
  BY <1>1, <1>3, <1>4 DEF Phases

LEMMA FilePhases ==
  ASSUME Typed, ListsComplete, WorkersOfBlocks, Sockets, Phases,
         NEW f \in Files, UseFile(f) \/ CloseFile(f)
  PROVE  Phases'
<1>1. /\ pc = "idle" /\ cur' = f /\ idx' = 1 /\ UNCHANGED <<worker, held, out, reqs, reps, open>>
      /\ \/ pc' = "alloc" /\ held[f] = <<>>
         \/ pc' = "close"
  BY DEF UseFile, CloseFile, netVars
<1>2. \A v \in Workers : Conversation(v)'
  BY <1>1, SameConversations
<1>3. ASSUME NEW g \in Files, NEW i \in 1 .. Len(held[g])
      PROVE  worker'[held[g][i]].state \in StatesOf(g, i)' /\ AnswerAwaited(g, i)'
  <2>1. worker[held[g][i]].state \in StatesOf(g, i) /\ AnswerAwaited(g, i)
    BY DEF Phases
  <2>2. ~(i < idx') /\ (pc' = "alloc" => g # f)
    BY <1>1
  <2>3. StatesOf(g, i) = {Opened(g)} /\ StatesOf(g, i)' = {Opened(g)}
    BY <1>1, <2>2 DEF StatesOf, Opened
  <2>4. AnswerAwaited(g, i)'
    BY <1>1, <2>1, <2>2 DEF AnswerAwaited
  <2> QED
    BY <1>1, <2>1, <2>3, <2>4
<1> QED
  BY <1>1, <1>2, <1>3 DEF Phases

LEMMA FileClosedPhases ==
  ASSUME Typed, ListsComplete, WorkersOfBlocks, Sockets, Phases, FileClosed
  PROVE  Phases'
<1>1. /\ pc = "closeFlush" /\ inMon = 0 /\ pc' = "idle" /\ UNCHANGED <<worker, cur, idx, out, reqs, reps, open>>
      /\ held' = [held EXCEPT ![cur] = <<>>]
  BY DEF FileClosed, netVars
<1>2. \A w \in Workers : worker[w].mon = "none"
  BY <1>1, MonitoredCount DEF Monitored
<1>3. \A v \in Workers : Conversation(v)'
  BY <1>1, SameConversations
<1>4. cur \in Files /\ held \in [Files -> Seq(Workers)]
      /\ \A f \in Files : \A i \in 1 .. Len(held[f]) : held[f][i] \in Workers
  BY TypeFacts
<1>5. held'[cur] = <<>> /\ \A f \in Files : f # cur => held'[f] = held[f]
  BY <1>1, <1>4
<1>6. ASSUME NEW f \in Files, NEW i \in 1 .. Len(held'[f])
      PROVE  worker'[held'[f][i]].state \in StatesOf(f, i)' /\ AnswerAwaited(f, i)'
  <2>1. f # cur /\ held'[f] = held[f]
    BY <1>5
  <2>2. worker[held[f][i]].state \in StatesOf(f, i) /\ AnswerAwaited(f, i)
    BY <2>1 DEF Phases
  <2>3. StatesOf(f, i)' = StatesOf(f, i)
    BY <1>1, <2>1 DEF StatesOf, Opened
  <2>4. AnswerAwaited(f, i)'
    BY <1>1, <2>1, <2>2 DEF AnswerAwaited
  <2> QED
    BY <1>1, <2>1, <2>2, <2>3, <2>4
<1>7. ASSUME NEW w \in Workers, \A f \in Files : \A i \in 1 .. Len(held'[f]) : held'[f][i] # w
      PROVE  worker'[w].state \in {"UNINIT", "CONNECTED"}
  <2>1. CASE \E i \in 1 .. Len(held[cur]) : held[cur][i] = w
    <3>1. PICK i \in 1 .. Len(held[cur]) : held[cur][i] = w
      BY <2>1
    <3>2. worker[w].state \in StatesOf(cur, i)
      BY <1>4, <3>1 DEF Phases
    <3>3. worker[w].state \in {"CONNECTED", "WRITE_OVER"}
      BY <1>1, <3>2 DEF StatesOf
    <3>4. worker[w].state # "WRITE_OVER"
      BY <1>2 DEF Phases, Conversation
    <3> QED
      BY <1>1, <3>3, <3>4
  <2>2. CASE ~ \E i \in 1 .. Len(held[cur]) : held[cur][i] = w
    <3>1. ASSUME NEW f \in Files, NEW i \in 1 .. Len(held[f]) PROVE held[f][i] # w
      BY <1>5, <1>7, <2>2
    <3> QED
      BY <1>1, <3>1 DEF Phases
  <2> QED
    BY <2>1, <2>2
<1> QED
  BY <1>3, <1>6, <1>7 DEF Phases

LEMMA PhasesStep ==
  ASSUME PoolIsLargeEnough, PoolInv, Phases, [Next]_vars, ~TimeOut
  PROVE  Phases'
<1>1. Typed /\ ListsComplete /\ WorkersOfBlocks /\ Sockets /\ PoolSuffices
  BY DEF PoolInv
<1>2. pc \notin {"idle", "alloc"} => W \in Workers
  BY <1>1, WorkerInTurn
<1>3. CASE \E f \in Files : UseFile(f) \/ CloseFile(f)
  BY <1>1, <1>3, FilePhases
<1>4. CASE AllocABlockWorker
  BY <1>1, <1>4, AllocPhases
<1>5. CASE ConnectABlockWorker
  <2>1. W \in Workers
    BY <1>2, <1>5 DEF ConnectABlockWorker
  <2> QED
    BY <1>1, <1>5, <2>1, ConnectPhases
<1>6. CASE OpenBlock
  <2>1. W \in Workers
    BY <1>2, <1>6 DEF OpenBlock
  <2> QED
    BY <1>1, <1>6, <2>1, OpenPhases
<1>7. CASE RecvReply
  <2>1. W \in Workers
    BY <1>2, <1>7 DEF RecvReply
  <2> QED
    BY <1>1, <1>7, <2>1, RecvPhases
<1>8. CASE CloseBlockInServer
  <2>1. W \in Workers
    BY <1>2, <1>8 DEF CloseBlockInServer
  <2> QED
    BY <1>1, <1>8, <2>1, ClosePhases
<1>9. CASE \E w \in Workers : Connected(w) \/ SockWritable(w) \/ SockReadable(w)
  BY <1>1, <1>9, SocketPhases
<1>10. CASE \E w \in Workers : ServerAnswers(w)
  BY <1>1, <1>10, ServerPhases
<1>11. CASE PhaseOver
  BY <1>1, <1>11, PhaseOverPhases
<1>12. CASE FileClosed
  BY <1>1, <1>12, FileClosedPhases
<1>13. CASE UNCHANGED vars
  <2>1. \A v \in Workers : Conversation(v)'
    BY <1>13, SameConversations DEF vars
  <2>2. \A f \in Files : \A i \in 1 .. Len(held'[f]) :
          worker'[held'[f][i]].state \in StatesOf(f, i)' /\ AnswerAwaited(f, i)'
    <3> SUFFICES ASSUME NEW f \in Files, NEW i \in 1 .. Len(held'[f])
                 PROVE  worker'[held'[f][i]].state \in StatesOf(f, i)' /\ AnswerAwaited(f, i)'
      OBVIOUS
    <3>1. UNCHANGED <<worker, held, pc, cur, idx>>
      BY <1>13 DEF vars
    <3>2. worker[held[f][i]].state \in StatesOf(f, i) /\ AnswerAwaited(f, i)
      BY <3>1 DEF Phases
    <3>3. StatesOf(f, i)' = StatesOf(f, i)
      BY <3>1 DEF StatesOf, Opened, Request, Requesting
    <3>4. AnswerAwaited(f, i)'
      BY <3>1, <3>2 DEF AnswerAwaited, Requesting
    <3> QED
      BY <3>1, <3>2, <3>3, <3>4
  <2> QED
    BY <1>13, <2>1, <2>2 DEF Phases, vars
<1> QED
  BY <1>3, <1>4, <1>5, <1>6, <1>7, <1>8, <1>9, <1>10, <1>11, <1>12, <1>13 DEF Next, Library

LEMMA PhasesInit ==
  ASSUME Init
  PROVE  Phases
<1>1. \A w \in Workers : worker[w] = NewWorker /\ reqs[w] = <<>> /\ reps[w] = <<>> /\ out[w] = <<>> /\ open[w] = {}
  BY DEF Init
<1>2. \A f \in Files : Len(held[f]) = 0
  BY DEF Init
<1>3. \A w \in Workers : Conversation(w)
  BY <1>1 DEF Conversation, Settled, NewWorker
<1> QED
  BY <1>1, <1>2, <1>3 DEF Phases, NewWorker

-----------------------------------------------------------------------------
(* The theorems. *)

\* The lists, the workers, the sockets in epoll and, while every answer is in
\* time, the conversations with the servers agree.
THEOREM Invariant == PoolIsLargeEnough /\ Spec => []IInv
<1> SUFFICES ASSUME PoolIsLargeEnough PROVE Spec => []IInv
  OBVIOUS
<1>1. Init => IInv
  BY PoolInvInit, PhasesInit DEF IInv
<1>2. IInv /\ [Next]_vars => IInv'
  <2> SUFFICES ASSUME IInv, [Next]_vars PROVE IInv'
    OBVIOUS
  <2>1. PoolInv /\ (timeOuts = 0 => Phases)
    BY DEF IInv
  <2>2. PoolInv'
    BY <2>1, PoolInvStep
  <2>3. ASSUME timeOuts' = 0 PROVE Phases'
    <3>1. ~TimeOut
      BY <2>1, <2>3, TimeOutDoes DEF PoolInv
    <3>2. timeOuts = 0
      BY <2>3, <3>1 DEF Next, Library, UseFile, CloseFile, AllocABlockWorker, ConnectABlockWorker, OpenBlock,
                        RecvReply, CloseBlockInServer, PhaseOver, FileClosed, Connected, SockWritable,
                        SockReadable, ServerAnswers, vars
    <3> QED
      BY <2>1, <3>1, <3>2, PhasesStep
  <2> QED
    BY <2>2, <2>3 DEF IInv
<1> QED
  BY <1>1, <1>2, PTL DEF Spec

\* No two blocks have the same worker, allocABlockWorker's workers in use belong
\* to files, and inMonitoringSockNum is the number of sockets in epoll.
THEOREM WorkersCarryOneBlock == PoolIsLargeEnough /\ Spec => []OneBlockPerWorker
<1>1. IInv => OneBlockPerWorker
  BY DEF IInv, PoolInv, Typed, WorkersOfBlocks, Sockets, Monitored, OneBlockPerWorker
<1> QED
  BY <1>1, Invariant, PTL

\* Between calls each block of an open file has a connection to its server and
\* the BlockFd that the server gave for it (getBlockFd), if no answer was late.
THEOREM FdsAreOfTheirBlocks == PoolIsLargeEnough /\ Spec => []FdOfItsBlock
<1>1. IInv => FdOfItsBlock
  <2> SUFFICES ASSUME PoolInv, Phases, NEW f \in Files, held[f] # <<>>, ~Busy(f), NEW i \in 1 .. Len(held[f])
               PROVE  LET w == worker[held[f][i]] IN
                        /\ w.srv = Blocks[f][i] /\ w.block = <<f, i>> /\ w.fd = <<f, i>>
                        /\ w.state = IF f \in Writes THEN "WRITE" ELSE "READ"
                        /\ <<f, i>> \in open[held[f][i]]
    BY DEF IInv, FdOfItsBlock, EachFdOfItsBlock
  <2>1. held[f][i] \in Workers /\ worker[held[f][i]].srv = Blocks[f][i] /\ worker[held[f][i]].block = <<f, i>>
    BY TypeFacts DEF PoolInv, WorkersOfBlocks
  <2>2. worker[held[f][i]].state = Opened(f)
    BY DEF Phases, StatesOf, Busy
  <2>3. worker[held[f][i]].fd = worker[held[f][i]].block /\ open[held[f][i]] = {worker[held[f][i]].block}
    BY <2>1, <2>2 DEF Phases, Conversation, Opened
  <2> QED
    BY <2>1, <2>2, <2>3 DEF Opened
<1> QED
  BY <1>1, Invariant, PTL

\* A worker that revokeBlockWorkers has given back has had its block closed, or
\* has the request for it on its way, and no answer waits for its next block.
THEOREM NothingIsLeftOpen == PoolIsLargeEnough /\ Spec => []NothingLeftOpen
<1>1. IInv => NothingLeftOpen
  <2> SUFFICES ASSUME PoolInv, Phases, NEW w \in Workers, ~worker[w].use
               PROVE  (reqs[w] = <<>> /\ out[w] = <<>> => open[w] = {}) /\ reps[w] = <<>>
    BY DEF IInv, NothingLeftOpen
  <2>1. worker[w].state \in {"UNINIT", "CONNECTED", "WRITE_OVER"}
    <3>1. CASE NotHeld(w)
      BY <3>1 DEF Phases, NotHeld
    <3>2. CASE ~NotHeld(w)
      <4>1. PICK f \in Files : \E i \in 1 .. Len(held[f]) : held[f][i] = w
        BY <3>2 DEF NotHeld
      <4>2. PICK i \in 1 .. Len(held[f]) : held[f][i] = w
        BY <4>1
      <4>3. Released(f, i)
        BY <4>2 DEF PoolInv, WorkersOfBlocks
      <4>4. worker[w].state \in StatesOf(f, i)
        BY <4>2 DEF Phases
      <4> QED
        BY <4>3, <4>4 DEF Released, StatesOf
    <3> QED
      BY <3>1, <3>2
  <2>2. CASE worker[w].state \in {"UNINIT", "CONNECTED"}
    <3>1. Settled(w)
      BY <2>2 DEF Phases, Conversation
    <3>2. ASSUME NEW b, reqs[w] = <<Close(b)>> PROVE reqs[w] # <<>>
      BY <3>2
    <3> QED
      BY <3>1, <3>2 DEF Settled
  <2>3. CASE worker[w].state = "WRITE_OVER"
    <3>1. reps[w] = <<>> /\ out[w] = <<Close(worker[w].fd)>>
      BY <2>3 DEF Phases, Conversation
    <3> QED
      BY <3>1
  <2> QED
    BY <2>1, <2>2, <2>3
<1> QED
  BY <1>1, Invariant, PTL

=============================================================================
