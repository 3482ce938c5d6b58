--------------------------- MODULE BlockServerConns ---------------------------
(***************************************************************************)
(* How the metadata server keeps its block servers (ECMeta: ecNetHandle.c, *)
(* BlockServer.c, BlockServersManagement.c).  The main thread accepts      *)
(* their connections and hands them to the block server thread, which      *)
(* watches them with epoll, writes the delete commands of the key value    *)
(* workers, sends heartbeats and reports a server that fails.              *)
(*                                                                         *)
(* Time passes in ticks, while the thread sits in epoll_wait; a server     *)
(* that works answers within one.                                          *)
(***************************************************************************)
EXTENDS Integers, Sequences, FiniteSets, SequencesExt

CONSTANTS
  Servers,
  HeartBeatEvery, \* blockServerHeartBeatTimeInterval, in ticks
  MarkAfter,      \* serverMarkFailedInterval, in ticks
  Jobs,           \* delete jobs of the key value workers
  EndlessJobs,    \* TRUE: they never run out
  MaxUnderWay,    \* bound on the commands for a server when a job is submitted
  MaxStopped,     \* bound on the servers that stop in a behaviour with jobs
  Nobody

ASSUME IntervalsAssumption ==
  HeartBeatEvery \in Nat \ {0} /\ MarkAfter \in Nat /\ MarkAfter > HeartBeatEvery
ASSUME JobsAssumption == Jobs \in Nat /\ EndlessJobs \in BOOLEAN /\ {MaxUnderWay, MaxStopped} \subseteq Nat
ASSUME NobodyAssumption == Nobody \notin Servers

VARIABLES
  curState,  \* Server_t.curState
  accepted,  \* server whose record the main thread has made but not yet added
  newAdded, newNum, active, activeNum,  \* lists, head first, and their counters
  mgrPc, waiting,   \* the block server thread, waitForConnections
  rec,       \* BlockServer_t: [sock, hb (heartBeatRecvd), quiet, hbAge]
  toSend,    \* writeMsgBuf
  batch,     \* events epoll_wait returned and not yet handled
  job, jobsLeft,    \* a job in pendingJobQueue; jobs to come
  knock, stray,     \* connection waiting for accept; accepted and left alone
  link, wire, replies  \* connection of the record; messages under way

listVars == <<newAdded, newNum, active, activeNum>>
netVars  == <<link, wire, replies>>
hostVars == <<knock, stray>>
vars == <<curState, accepted, listVars, mgrPc, waiting, rec, toSend, batch, job, jobsLeft,
          hostVars, netVars>>

NewRecord == [sock |-> "UNREGISTERED", hb |-> 0, quiet |-> 0, hbAge |-> 0]

Init ==
  /\ curState = [s \in Servers |-> "UNCONNECTED"]
  /\ accepted = Nobody
  /\ newAdded = <<>> /\ newNum = 0 /\ active = <<>> /\ activeNum = 0
  /\ mgrPc = "look" /\ waiting = FALSE
  /\ rec = [s \in Servers |-> NewRecord]
  /\ toSend = [s \in Servers |-> <<>>]
  /\ batch = {} /\ job = FALSE /\ jobsLeft = Jobs
  /\ knock = [s \in Servers |-> FALSE] /\ stray = [s \in Servers |-> FALSE]
  /\ link = [s \in Servers |-> "none"]
  /\ wire = [s \in Servers |-> <<>>] /\ replies = [s \in Servers |-> <<>>]

Actives == ToSet(active)

-----------------------------------------------------------------------------
(* The main thread *)

\* accept_server_conn, up to the record; a server that is known as connected
\* or down keeps its connection and gets no record.
Accept(s) ==
  /\ accepted = Nobody /\ knock[s]
  /\ knock' = [knock EXCEPT ![s] = FALSE]
  /\ IF curState[s] = "UNCONNECTED"
       THEN /\ curState' = [curState EXCEPT ![s] = "CONNECTED"]
            /\ accepted' = s
            /\ link' = [link EXCEPT ![s] = "up"]
            /\ UNCHANGED stray
       ELSE /\ stray' = [stray EXCEPT ![s] = TRUE]
            /\ UNCHANGED <<curState, accepted, link>>
  /\ UNCHANGED <<listVars, mgrPc, waiting, rec, toSend, batch, job, jobsLeft, wire, replies>>

\* addNewBlockServer, under waitMutex
AddNewBlockServer ==
  /\ accepted # Nobody
  /\ newAdded' = <<accepted>> \o newAdded /\ newNum' = newNum + 1
  /\ accepted' = Nobody
  /\ mgrPc' = IF waiting /\ mgrPc = "waiting" THEN "woken" ELSE mgrPc
  /\ UNCHANGED <<curState, active, activeNum, waiting, rec, toSend, batch, job, jobsLeft,
                 hostVars, netVars>>

-----------------------------------------------------------------------------
(* The block server thread: waiting for the first server *)

\* The counters are read without waitMutex.
Look ==
  /\ mgrPc = "look"
  /\ mgrPc' = IF newNum = 0 /\ activeNum = 0 THEN "lock" ELSE "round"
  /\ UNCHANGED <<curState, accepted, listVars, waiting, rec, toSend, batch, job, jobsLeft,
                 hostVars, netVars>>

\* waitMutex is taken and given up again by pthread_cond_wait.
Wait ==
  /\ mgrPc = "lock"
  /\ waiting' = TRUE /\ mgrPc' = "waiting"
  /\ UNCHANGED <<curState, accepted, listVars, rec, toSend, batch, job, jobsLeft, hostVars, netVars>>

WakeUp ==
  /\ mgrPc = "woken"
  /\ waiting' = FALSE /\ mgrPc' = "look"
  /\ UNCHANGED <<curState, accepted, listVars, rec, toSend, batch, job, jobsLeft, hostVars, netVars>>

-----------------------------------------------------------------------------
(* The block server thread: a round of startManagingBlockServers *)

NewlyActive_AllButLast == IF newAdded = <<>> THEN active ELSE Reverse(Front(newAdded)) \o active
NewlyActive == Reverse(newAdded) \o active

ToRegister(as) == {s \in ToSet(as) : rec[s].sock = "UNREGISTERED"}

\* addActiveBlockServers under waitMutex, then addEventsToBlockServerSock.
StartRound ==
  /\ mgrPc = "round"
  /\ active' = NewlyActive /\ activeNum' = activeNum + newNum
  /\ newAdded' = <<>> /\ newNum' = 0
  /\ rec' = [s \in Servers |->
       IF s \in ToRegister(active')
         THEN [rec[s] EXCEPT !.sock = "READ", !.quiet = 0] ELSE rec[s]]
  /\ mgrPc' = "epoll"
  /\ UNCHANGED <<curState, accepted, waiting, toSend, batch, job, jobsLeft, hostVars, netVars>>

Event(s) ==
  CASE link[s] = "reset" -> {"err"}
    [] link[s] = "closed" \/ replies[s] # <<>> -> {"in"}
    [] link[s] = "up" /\ rec[s].sock = "READ_WRITE" -> {"out"}
    [] OTHER -> {}

Ready == {e \in [srv : Actives, kind : {"in", "out", "err"}] : e.kind \in Event(e.srv)}
         \cup IF job THEN {[srv |-> Nobody, kind |-> "pipe"]} ELSE {}

\* epoll_wait, with events or after its timeout.
EpollWait ==
  /\ mgrPc = "epoll"
  /\ batch' = Ready /\ mgrPc' = "events"
  /\ UNCHANGED <<curState, accepted, listVars, waiting, rec, toSend, job, jobsLeft,
                 hostVars, netVars>>

\* addWriteMsgToBlockserver: behind what is still unsent.
Queued(q, msg) == q \o msg

\* writeToConn for the servers in W, after msg has been put into their
\* writeMsgBuf: the sockets in took take all of it, the others nothing.  Sending
\* to a host whose process is gone resets the connection.
WriteToConn(W, took, msg, r) ==
  /\ rec' = [s \in Servers |->
       IF s \notin W THEN r[s]
       ELSE [r[s] EXCEPT !.quiet = 0,
                         !.hbAge = IF s \in took \/ msg = <<"hb">> THEN 0 ELSE @,
                         !.sock = IF s \in took THEN "READ" ELSE "READ_WRITE"]]
  /\ toSend' = [s \in Servers |->
       IF s \notin W THEN toSend[s] ELSE IF s \in took THEN <<>> ELSE Queued(toSend[s], msg)]
  /\ wire' = [s \in Servers |->
       IF s \in took /\ link[s] = "up" THEN wire[s] \o Queued(toSend[s], msg) ELSE wire[s]]

\* What send may do: the socket of a working or hung server may be full.
Takes(W) == {T \in SUBSET W : \A s \in W : /\ link[s] = "closed" => s \in T
                                           /\ link[s] = "reset" => s \notin T}

\* The connections after the sends in took.
AfterSend(took) ==
  link' = [s \in Servers |-> IF s \in took /\ link[s] = "closed" THEN "reset" ELSE link[s]]

Others == UNCHANGED <<accepted, waiting, jobsLeft, hostVars, newAdded, newNum>>

Handled(e) == batch' = batch \ {e}

\* A delete job: a command to each active server (the file has a block on
\* each).
PerformServerJobs(e) ==
  /\ mgrPc = "events" /\ e \in batch /\ e.kind = "pipe"
  /\ \E took \in Takes(Actives) :
       WriteToConn(Actives, took, <<"del">>, rec) /\ AfterSend(took)
  /\ job' = FALSE
  /\ Handled(e)
  /\ Others /\ UNCHANGED <<curState, active, activeNum, mgrPc, replies>>

RecvdRecord_StillDue(r, msgs) == [r EXCEPT !.quiet = 0]

\* recvBlockServerData and processServerCmd for all that has come.
RecvdRecord(r, msgs) ==
  IF msgs = <<>> THEN r
  ELSE [r EXCEPT !.quiet = 0, !.hb = IF "hbOK" \in ToSet(msgs) THEN 1 ELSE @]

RecvBlockServerData(e) ==
  /\ mgrPc = "events" /\ e \in batch /\ e.kind = "in"
  /\ rec' = [rec EXCEPT ![e.srv] = RecvdRecord(@, replies[e.srv])]
  /\ replies' = [replies EXCEPT ![e.srv] = <<>>]
  /\ Handled(e)
  /\ Others /\ UNCHANGED <<curState, active, activeNum, mgrPc, toSend, job, link, wire>>

\* EPOLLOUT
WriteRest(e) ==
  /\ mgrPc = "events" /\ e \in batch /\ e.kind = "out"
  /\ WriteToConn({e.srv}, {e.srv}, <<>>, rec) /\ AfterSend({e.srv})
  /\ Handled(e)
  /\ Others /\ UNCHANGED <<curState, active, activeNum, mgrPc, job, replies>>

Position(s) == CHOOSE i \in DOMAIN active : active[i] = s

\* reportFailedBlockServer: the server leaves the list, its state is DOWN, its
\* socket is closed.
ReportFailed(s) ==
  /\ active' = RemoveAt(active, Position(s)) /\ activeNum' = activeNum - 1
  /\ curState' = [curState EXCEPT ![s] = "DOWN"]
  /\ link' = [link EXCEPT ![s] = "gone"]

\* EPOLLERR, EPOLLHUP
ErrorEvent(e) ==
  /\ mgrPc = "events" /\ e \in batch /\ e.kind = "err"
  /\ ReportFailed(e.srv)
  /\ Handled(e)
  /\ Others /\ UNCHANGED <<mgrPc, rec, toSend, job, wire, replies>>

\* Servers that checkHeartBeat finds failed, and those it sends a heartbeat.
Failed == {s \in Actives : rec[s].hb = -1 /\ rec[s].quiet >= MarkAfter}

Due_WhileUnanswered == {s \in Actives \ Failed : rec[s].hb = 0 \/ rec[s].hbAge >= HeartBeatEvery}
Due == {s \in Actives : rec[s].hb = 0 \/ (rec[s].hb = 1 /\ rec[s].hbAge >= HeartBeatEvery)}

\* The records of the servers in D after sendHeartBeat.
HeartBeatSent(D) == [s \in Servers |-> IF s \in D THEN [rec[s] EXCEPT !.hb = -1] ELSE rec[s]]

\* checkHeartBeat, when the events of the round are handled: the servers that
\* have failed, one by one, and the heartbeats.
ReportSilent ==
  /\ mgrPc = "events" /\ batch = {}
  /\ \E s \in Failed : ReportFailed(s)
  /\ Others /\ UNCHANGED <<mgrPc, rec, toSend, batch, job, wire, replies>>

CheckHeartBeat ==
  /\ mgrPc = "events" /\ batch = {} /\ Failed = {}
  /\ \E took \in Takes(Due) :
       WriteToConn(Due, took, <<"hb">>, HeartBeatSent(Due)) /\ AfterSend(took)
  /\ mgrPc' = "round"
  /\ Others /\ UNCHANGED <<curState, active, activeNum, batch, job, replies>>

-----------------------------------------------------------------------------
(* The key value workers, the servers and time *)

Stopped == {s \in Servers : link[s] \notin {"none", "up"}}

\* submitJobToBlockMgr
SubmitJob ==
  /\ ~job /\ jobsLeft > 0 /\ Cardinality(Stopped) <= MaxStopped
  /\ \A s \in Servers : Len(toSend[s]) + Len(wire[s]) <= MaxUnderWay
  /\ job' = TRUE
  /\ jobsLeft' = IF EndlessJobs THEN jobsLeft ELSE jobsLeft - 1
  /\ UNCHANGED <<curState, accepted, listVars, mgrPc, waiting, rec, toSend, batch, hostVars, netVars>>

\* A server is started, or started again after its process died or hung.
Connect(s) ==
  /\ ~knock[s] /\ ~stray[s] /\ link[s] # "up"
  /\ knock' = [knock EXCEPT ![s] = TRUE]
  /\ UNCHANGED <<curState, accepted, listVars, mgrPc, waiting, rec, toSend, batch, job, jobsLeft,
                 stray, netVars>>

\* The server handles the next command (ECServer, ECMetaServerHandle.c).
Answer(s) ==
  /\ link[s] = "up" /\ wire[s] # <<>>
  /\ wire' = [wire EXCEPT ![s] = Tail(@)]
  /\ replies' = [replies EXCEPT ![s] = Append(@, IF Head(wire[s]) = "hb" THEN "hbOK" ELSE "delOK")]
  /\ UNCHANGED <<curState, accepted, listVars, mgrPc, waiting, rec, toSend, batch, job, jobsLeft,
                 hostVars, link>>

\* The host stops or is cut off; the process ends; the connection is reset.
Dies(s) ==
  /\ jobsLeft < Jobs => Cardinality(Stopped \cup {s}) <= MaxStopped
  /\ \E how \in {"hung", "closed", "reset"} :
       /\ link[s] = "up" \/ (link[s] = "hung" /\ how = "reset")
       /\ link' = [link EXCEPT ![s] = how]
  /\ UNCHANGED <<curState, accepted, listVars, mgrPc, waiting, rec, toSend, batch, job, jobsLeft,
                 hostVars, wire, replies>>

OneMore(n, bound) == IF n < bound THEN n + 1 ELSE n

\* A working server has taken and answered all before the tick, and what it
\* answered has been read.
Tick ==
  /\ mgrPc = "epoll"
  /\ \A s \in Actives : link[s] = "up" => toSend[s] = <<>> /\ wire[s] = <<>> /\ replies[s] = <<>>
  /\ rec' = [s \in Servers |-> IF s \in Actives
                THEN [rec[s] EXCEPT !.quiet = OneMore(@, MarkAfter), !.hbAge = OneMore(@, HeartBeatEvery)]
                ELSE rec[s]]
  /\ UNCHANGED <<curState, accepted, listVars, mgrPc, waiting, toSend, batch, job, jobsLeft, hostVars, netVars>>

MainThread == AddNewBlockServer \/ \E s \in Servers : Accept(s)

BlockServerThread ==
  \/ Look \/ Wait \/ WakeUp \/ StartRound \/ EpollWait \/ ReportSilent \/ CheckHeartBeat
  \/ \E e \in batch : PerformServerJobs(e) \/ RecvBlockServerData(e) \/ WriteRest(e) \/ ErrorEvent(e)

Next ==
  \/ MainThread \/ BlockServerThread \/ SubmitJob \/ Tick
  \/ \E s \in Servers : Connect(s) \/ Answer(s) \/ Dies(s)

Spec == Init /\ [][Next]_vars

\* Both threads run, and the block server thread finds that time has passed
\* again and again; a server that works answers.  Servers need not connect or
\* fail.
FairSpec ==
  /\ Spec
  /\ WF_vars(MainThread) /\ WF_vars(BlockServerThread) /\ SF_vars(Tick)
  /\ \A s \in Servers : WF_vars(Answer(s))

-----------------------------------------------------------------------------
(* Properties *)

Messages == {"hb", "del"}

\* Every variable holds a value of its kind; checked with ListsAgree.
TypeOK ==
  /\ curState \in [Servers -> {"UNCONNECTED", "CONNECTED", "DOWN"}]
  /\ accepted \in Servers \cup {Nobody}
  /\ newAdded \in Seq(Servers) /\ newNum \in Nat /\ active \in Seq(Servers) /\ activeNum \in Nat
  /\ mgrPc \in {"look", "lock", "waiting", "woken", "round", "epoll", "events"}
  /\ waiting \in BOOLEAN /\ job \in BOOLEAN /\ jobsLeft \in 0 .. Jobs
  /\ rec \in [Servers -> [sock : {"UNREGISTERED", "READ", "READ_WRITE"}, hb : {-1, 0, 1},
                           quiet : 0 .. MarkAfter, hbAge : 0 .. HeartBeatEvery]]
  /\ toSend \in [Servers -> Seq(Messages)] /\ wire \in [Servers -> Seq(Messages)]
  /\ replies \in [Servers -> Seq({"hbOK", "delOK"})]
  /\ batch \subseteq [srv : Servers \cup {Nobody}, kind : {"in", "out", "err", "pipe"}]
  /\ knock \in [Servers -> BOOLEAN] /\ stray \in [Servers -> BOOLEAN]
  /\ link \in [Servers -> {"none", "up", "hung", "closed", "reset", "gone"}]

\* The server states that placement and the clients' answers are made from
\* agree with the lists: a server is CONNECTED exactly while its record is being
\* added, waits to be taken over or is watched, in one place only, and the
\* counters that decide what the thread does are the lengths of the lists.  No
\* event in hand is for a server that has been reported, nor does the thread sit
\* in epoll_wait with a server unregistered.
ListsAgree ==
  LET all == newAdded \o active \o (IF accepted = Nobody THEN <<>> ELSE <<accepted>>) IN
    /\ TypeOK
    /\ \A i, j \in 1 .. Len(all) : all[i] = all[j] => i = j
    /\ \A s \in Servers : curState[s] = "CONNECTED" <=> s \in ToSet(all)
    /\ newNum = Len(newAdded) /\ activeNum = Len(active)
    /\ \A e \in batch : e.srv # Nobody => e.srv \in Actives
    /\ mgrPc \in {"epoll", "events"} => \A s \in Actives : rec[s].sock # "UNREGISTERED"

\* A server that works is not given up: recovery is started for servers that
\* have stopped only.
NoFalseFailure ==
  [][\A s \in Servers : curState[s] # "DOWN" /\ curState'[s] = "DOWN" => link[s] # "up"]_vars

\* A server that has stopped, in whatever way, is reported in the end.
DeadIsReported ==
  \A s \in Servers : s \in Actives /\ link[s] # "up" ~> curState[s] = "DOWN"

\* A server that has connected is taken over by the block server thread.
ConnectedIsServed == \A s \in Servers : curState[s] = "CONNECTED" ~> s \in Actives \/ link[s] # "up"

=============================================================================
