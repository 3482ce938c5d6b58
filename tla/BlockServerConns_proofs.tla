------------------------ MODULE BlockServerConns_proofs ------------------------
(***************************************************************************)
(* What holds of the metadata server's lists of block servers for any      *)
(* number of servers, any intervals and any stream of delete jobs: the     *)
(* lists, their counters and the states of the servers agree, and a server *)
(* that works is never reported as failed.  Both rest on a record being in *)
(* one list only, and on a heartbeat that is out being somewhere: unsent,  *)
(* on the wire, or answered and unread.                                    *)
(***************************************************************************)
EXTENDS BlockServerConns, TLAPS

\* A record is in one list, once, or about to be added.
ListInv ==
  /\ newNum = Len(newAdded) /\ activeNum = Len(active)
  /\ \A i, j \in DOMAIN newAdded : newAdded[i] = newAdded[j] => i = j
  /\ \A i, j \in DOMAIN active : active[i] = active[j] => i = j
  /\ \A i \in DOMAIN newAdded, j \in DOMAIN active : newAdded[i] # active[j]
  /\ accepted \notin ToSet(newAdded) \cup Actives
  /\ \A s \in Servers : curState[s] = "CONNECTED" <=>
                          s \in ToSet(newAdded) \/ s \in Actives \/ s = accepted

\* One event at most for a server, and only for a server that is watched; an
\* error is one of a connection that has failed.
BatchInv ==
  /\ \A e \in batch : e.kind # "pipe" => e.srv \in Actives
  /\ \A e \in batch : e.kind = "pipe" => e.srv = Nobody
  /\ \A e, f \in batch : e.srv = f.srv => e = f
  /\ \A e \in batch : e.kind = "err" => link[e.srv] # "up"
  /\ mgrPc \in {"epoll", "events"} => \A s \in Actives : rec[s].sock # "UNREGISTERED"

\* Where the heartbeat of a server is.
Outstanding(s) ==
  "hb" \in ToSet(toSend[s]) \/ "hb" \in ToSet(wire[s]) \/ "hbOK" \in ToSet(replies[s])

\* A heartbeat that a working server has not answered is under way, and the
\* server has been quiet for no tick.
HeartInv ==
  \A s \in Servers :
    /\ curState[s] = "UNCONNECTED" => rec[s].hb = 0
    /\ link[s] = "up" /\ rec[s].hb = -1 => rec[s].quiet = 0 /\ Outstanding(s)

IInv == TypeOK /\ ListInv /\ BatchInv /\ HeartInv

-----------------------------------------------------------------------------
(* Lemmas about the operators. *)

LEMMA JoinedElements ==
  ASSUME NEW S, NEW a \in Seq(S), NEW b \in Seq(S)
  PROVE  /\ a \o b \in Seq(S) /\ Len(a \o b) = Len(a) + Len(b)
         /\ \A i \in 1 .. Len(a) : (a \o b)[i] = a[i]
         /\ \A i \in 1 .. Len(b) : (a \o b)[Len(a) + i] = b[i]
OBVIOUS

LEMMA JoinedRange ==
  ASSUME NEW S, NEW a \in Seq(S), NEW b \in Seq(S)
  PROVE  ToSet(a \o b) = ToSet(a) \cup ToSet(b)
<1>1. Len(a \o b) = Len(a) + Len(b) /\ Len(a) \in Nat /\ Len(b) \in Nat
  OBVIOUS
<1>2. /\ \A i \in 1 .. Len(a) : (a \o b)[i] = a[i]
      /\ \A i \in 1 .. Len(b) : (a \o b)[Len(a) + i] = b[i]
  OBVIOUS
<1>3. ASSUME NEW x \in ToSet(a \o b) PROVE x \in ToSet(a) \cup ToSet(b)
  <2>1. PICK i \in 1 .. Len(a) + Len(b) : (a \o b)[i] = x
    BY <1>1, <1>3 DEF ToSet
  <2>2. CASE i <= Len(a)
    BY <1>1, <1>2, <2>1, <2>2 DEF ToSet
  <2>3. CASE i > Len(a)
    <3>1. i - Len(a) \in 1 .. Len(b) /\ Len(a) + (i - Len(a)) = i
      BY <1>1, <2>1, <2>3
    <3> QED
      BY <1>2, <2>1, <3>1 DEF ToSet
  <2> QED
    BY <1>1, <2>1, <2>2, <2>3
<1>4. ASSUME NEW x \in ToSet(a) PROVE x \in ToSet(a \o b)
  <2>1. PICK i \in 1 .. Len(a) : a[i] = x
    BY <1>4 DEF ToSet
  <2>2. i \in 1 .. Len(a) + Len(b) /\ (a \o b)[i] = x
    BY <1>1, <1>2, <2>1
  <2> QED
    BY <1>1, <2>2 DEF ToSet
<1>5. ASSUME NEW x \in ToSet(b) PROVE x \in ToSet(a \o b)
  <2>1. PICK i \in 1 .. Len(b) : b[i] = x
    BY <1>5 DEF ToSet
  <2>2. Len(a) + i \in 1 .. Len(a) + Len(b) /\ (a \o b)[Len(a) + i] = x
    BY <1>1, <1>2, <2>1
  <2> QED
    BY <1>1, <2>2 DEF ToSet
<1> QED
  BY <1>3, <1>4, <1>5

Record == [sock : {"UNREGISTERED", "READ", "READ_WRITE"}, hb : {-1, 0, 1},
           quiet : 0 .. MarkAfter, hbAge : 0 .. HeartBeatEvery]

\* A send leaves every record, buffer and connection of its kind, whichever
\* sockets take it.
LEMMA SendTypes ==
  ASSUME TypeOK, NEW W \in SUBSET Servers, NEW took \in SUBSET Servers,
         NEW msg \in Seq(Messages), NEW STATE r, r \in [Servers -> Record],
         WriteToConn(W, took, msg, r)
  PROVE  /\ rec' \in [Servers -> Record]
         /\ toSend' \in [Servers -> Seq(Messages)] /\ wire' \in [Servers -> Seq(Messages)]
<1>1. toSend \in [Servers -> Seq(Messages)] /\ wire \in [Servers -> Seq(Messages)]
  BY DEF TypeOK
<1>2. 0 \in 0 .. MarkAfter /\ 0 \in 0 .. HeartBeatEvery
  BY IntervalsAssumption
<1>3. \A s \in Servers : Queued(toSend[s], msg) \in Seq(Messages) /\ <<>> \in Seq(Messages)
  BY <1>1 DEF Queued
<1>4. \A s \in Servers : wire[s] \o Queued(toSend[s], msg) \in Seq(Messages)
  BY <1>1, <1>3
<1>5. rec' \in [Servers -> Record]
  BY <1>2 DEF WriteToConn, Record
<1>6. toSend' \in [Servers -> Seq(Messages)]
  BY <1>1, <1>3 DEF WriteToConn
<1>7. wire' \in [Servers -> Seq(Messages)]
  BY <1>1, <1>4 DEF WriteToConn
<1> QED
  BY <1>5, <1>6, <1>7

\* Of a heartbeat that is under way before a send to a server, or part of it,
\* a connection that works keeps hold.
LEMMA SendKeepsHeartBeat ==
  ASSUME TypeOK, NEW W \in SUBSET Servers, NEW took \in SUBSET W,
         NEW msg \in Seq(Messages), NEW STATE r,
         WriteToConn(W, took, msg, r), UNCHANGED replies,
         NEW s \in Servers, link[s] = "up",
         Outstanding(s) \/ (s \in W /\ "hb" \in ToSet(msg))
  PROVE  Outstanding(s)'
<1>1. toSend[s] \in Seq(Messages) /\ wire[s] \in Seq(Messages)
  BY DEF TypeOK
<1>2. Queued(toSend[s], msg) \in Seq(Messages)
  BY <1>1 DEF Queued
<1>3. "hb" \in ToSet(toSend[s]) \/ "hb" \in ToSet(msg) => "hb" \in ToSet(Queued(toSend[s], msg))
  BY <1>1, JoinedRange DEF Queued
<1>4. "hb" \in ToSet(wire[s]) \/ "hb" \in ToSet(Queued(toSend[s], msg))
        => "hb" \in ToSet(wire[s] \o Queued(toSend[s], msg))
  BY <1>1, <1>2, JoinedRange
<1>5. CASE s \in took
  <2>1. wire'[s] = wire[s] \o Queued(toSend[s], msg)
    BY <1>5 DEF WriteToConn
  <2> QED
    BY <1>3, <1>4, <2>1 DEF Outstanding
<1>6. CASE s \in W /\ s \notin took
  <2>1. wire'[s] = wire[s] /\ toSend'[s] = Queued(toSend[s], msg)
    BY <1>6 DEF WriteToConn
  <2> QED
    BY <1>3, <2>1 DEF Outstanding
<1>7. CASE s \notin W
  <2>1. wire'[s] = wire[s] /\ toSend'[s] = toSend[s]
    BY <1>7 DEF WriteToConn
  <2> QED
    BY <1>7, <2>1 DEF Outstanding
<1> QED
  BY <1>5, <1>6, <1>7

\* reportFailedBlockServer takes out the server it is given and no other.
LEMMA RemovedFromList ==
  ASSUME active \in Seq(Servers), NEW s \in Actives,
         \A i, j \in DOMAIN active : active[i] = active[j] => i = j,
         active' = RemoveAt(active, Position(s))
  PROVE  /\ active' \in Seq(Servers) /\ Len(active') = Len(active) - 1
         /\ \A i, j \in DOMAIN active' : active'[i] = active'[j] => i = j
         /\ ToSet(active') = Actives \ {s}
<1> DEFINE p == Position(s)
<1>1. p \in DOMAIN active /\ active[p] = s
  BY DEF Position, Actives, ToSet
<1> HIDE DEF p
<1>2. p \in 1 .. Len(active)
  BY <1>1
<1>3. active' = SubSeq(active, 1, p - 1) \o SubSeq(active, p + 1, Len(active))
  BY DEF RemoveAt, p
<1> DEFINE l == SubSeq(active, 1, p - 1)
           r == SubSeq(active, p + 1, Len(active))
<1>a. /\ l \in Seq(Servers) /\ Len(l) = p - 1
      /\ \A i \in 1 .. p - 1 : l[i] = active[i]
  BY <1>2
<1>b. /\ r \in Seq(Servers) /\ Len(r) = Len(active) - p
      /\ \A i \in 1 .. Len(active) - p : r[i] = active[i + p]
  BY <1>2
<1>c. active' = l \o r
  BY <1>3
<1> HIDE DEF l, r
<1>d. /\ active' \in Seq(Servers) /\ Len(active') = Len(l) + Len(r)
      /\ \A i \in 1 .. Len(l) : active'[i] = l[i]
      /\ \A k \in 1 .. Len(r) : active'[Len(l) + k] = r[k]
  <2>1. l \in Seq(Servers) /\ r \in Seq(Servers)
    BY <1>a, <1>b
  <2>2. /\ l \o r \in Seq(Servers) /\ Len(l \o r) = Len(l) + Len(r)
        /\ \A i \in 1 .. Len(l) : (l \o r)[i] = l[i]
        /\ \A k \in 1 .. Len(r) : (l \o r)[Len(l) + k] = r[k]
    BY <2>1, JoinedElements
  <2> QED
    BY <1>c, <2>2
<1>e. Len(active) \in Nat
  OBVIOUS
<1>4. active' \in Seq(Servers) /\ Len(active') = Len(active) - 1
  BY <1>2, <1>a, <1>b, <1>d, <1>e
<1>5. \A i \in DOMAIN active' : active'[i] = IF i < p THEN active[i] ELSE active[i + 1]
  <2> SUFFICES ASSUME NEW i \in 1 .. Len(active) - 1
               PROVE  active'[i] = IF i < p THEN active[i] ELSE active[i + 1]
    BY <1>4
  <2>1. CASE i < p
    BY <1>2, <1>a, <1>d, <1>e, <2>1
  <2>2. CASE ~(i < p)
    <3>1. i - (p - 1) \in 1 .. Len(active) - p /\ i - (p - 1) + p = i + 1
      BY <1>2, <2>2
    <3>2. active'[Len(l) + (i - (p - 1))] = r[i - (p - 1)]
      BY <1>b, <1>d, <3>1
    <3>3. Len(l) + (i - (p - 1)) = i
      BY <1>2, <1>a
    <3> QED
      BY <1>b, <2>2, <3>1, <3>2, <3>3
  <2> QED
    BY <2>1, <2>2
<1>6. \A i, j \in DOMAIN active' : active'[i] = active'[j] => i = j
  <2> SUFFICES ASSUME NEW i \in DOMAIN active', NEW j \in DOMAIN active', active'[i] = active'[j]
               PROVE  i = j
    OBVIOUS
  <2> DEFINE at(k) == IF k < p THEN k ELSE k + 1
  <2>1. i \in 1 .. Len(active) - 1 /\ j \in 1 .. Len(active) - 1
    BY <1>4
  <2>2. at(i) \in DOMAIN active /\ at(j) \in DOMAIN active
    BY <1>2, <2>1
  <2>3. active[at(i)] = active[at(j)]
    BY <1>5
  <2>4. at(i) = at(j)
    <3> HIDE DEF at
    <3> QED
      BY <1>2, <2>2, <2>3
  <2> QED
    BY <1>2, <2>1, <2>4
<1>7. \A i \in DOMAIN active' : active'[i] \in Actives \ {s}
  BY <1>1, <1>2, <1>4, <1>5 DEF Actives, ToSet
<1>8. ASSUME NEW x \in Actives, x # s PROVE x \in ToSet(active')
  <2>1. PICK i \in DOMAIN active : active[i] = x
    BY <1>8 DEF Actives, ToSet
  <2>2. i # p
    BY <1>1, <1>8, <2>1
  <2>3. CASE i < p
    BY <1>2, <1>4, <1>5, <2>1, <2>3 DEF ToSet
  <2>4. CASE i > p
    <3>1. i - 1 \in DOMAIN active' /\ active'[i - 1] = active[i]
      BY <1>2, <1>4, <1>5, <2>1, <2>4
    <3> QED
      BY <2>1, <3>1 DEF ToSet
  <2> QED
    BY <1>2, <2>1, <2>2, <2>3, <2>4
<1> QED
  BY <1>4, <1>6, <1>7, <1>8 DEF ToSet

\* addActiveBlockServers moves the new records and keeps the others.
LEMMA ListsJoined ==
  ASSUME ListInv, TypeOK
  PROVE  /\ NewlyActive \in Seq(Servers) /\ Len(NewlyActive) = newNum + activeNum
         /\ \A i, j \in DOMAIN NewlyActive : NewlyActive[i] = NewlyActive[j] => i = j
         /\ ToSet(NewlyActive) = ToSet(newAdded) \cup Actives
<1> DEFINE n == Len(newAdded)
<1>1. newAdded \in Seq(Servers) /\ active \in Seq(Servers) /\ n \in Nat
  BY DEF TypeOK
<1>2. Reverse(newAdded) \in Seq(Servers) /\ Len(Reverse(newAdded)) = n
      /\ \A i \in 1 .. n : Reverse(newAdded)[i] = newAdded[n - i + 1]
  BY <1>1 DEF Reverse
<1>3. NewlyActive \in Seq(Servers) /\ Len(NewlyActive) = n + Len(active)
  BY <1>1, <1>2 DEF NewlyActive
<1>4. /\ \A i \in 1 .. n : NewlyActive[i] = newAdded[n - i + 1]
      /\ \A i \in n + 1 .. n + Len(active) : NewlyActive[i] = active[i - n]
  BY <1>1, <1>2 DEF NewlyActive
<1> HIDE DEF n
<1>5. ASSUME NEW i \in DOMAIN NewlyActive, NEW j \in DOMAIN NewlyActive, NewlyActive[i] = NewlyActive[j]
      PROVE  i = j
  <2>1. i \in 1 .. n + Len(active) /\ j \in 1 .. n + Len(active)
    BY <1>3, <1>5
  <2>2. CASE i <= n /\ j <= n
    <3>1. i \in 1 .. n /\ j \in 1 .. n
      BY <1>1, <2>1, <2>2
    <3>2. n - i + 1 \in DOMAIN newAdded /\ n - j + 1 \in DOMAIN newAdded
      BY <1>1, <3>1 DEF n
    <3>3. newAdded[n - i + 1] = newAdded[n - j + 1]
      BY <1>4, <1>5, <3>1
    <3>4. n - i + 1 = n - j + 1
      BY <3>2, <3>3 DEF ListInv
    <3> QED
      BY <1>1, <3>1, <3>4
  <2>3. CASE i > n /\ j > n
    <3>1. i - n \in DOMAIN active /\ j - n \in DOMAIN active
      BY <1>1, <2>1, <2>3
    <3>2. i \in n + 1 .. n + Len(active) /\ j \in n + 1 .. n + Len(active)
      BY <1>1, <2>1, <2>3
    <3>3. NewlyActive[i] = active[i - n] /\ NewlyActive[j] = active[j - n]
      BY <1>4, <3>2
    <3>4. i - n = j - n
      BY <1>5, <3>1, <3>3 DEF ListInv
    <3> QED
      BY <1>1, <2>1, <3>4
  <2>4. CASE i <= n /\ j > n
    <3>1. n - i + 1 \in DOMAIN newAdded /\ j - n \in DOMAIN active
      BY <1>1, <2>1, <2>4 DEF n
    <3> QED
      BY <1>4, <1>5, <2>1, <2>4, <3>1, <1>1 DEF ListInv
  <2>5. CASE i > n /\ j <= n
    <3>1. n - j + 1 \in DOMAIN newAdded /\ i - n \in DOMAIN active
      BY <1>1, <2>1, <2>5 DEF n
    <3> QED
      BY <1>4, <1>5, <2>1, <2>5, <3>1, <1>1 DEF ListInv
  <2> QED
    BY <1>1, <2>1, <2>2, <2>3, <2>4, <2>5
<1>6. ASSUME NEW i \in DOMAIN NewlyActive PROVE NewlyActive[i] \in ToSet(newAdded) \cup Actives
  <2>1. i \in 1 .. n + Len(active)
    BY <1>3, <1>6
  <2>2. CASE i <= n
    BY <1>1, <1>4, <2>1, <2>2 DEF n, ToSet
  <2>3. CASE i > n
    <3>1. i - n \in DOMAIN active /\ NewlyActive[i] = active[i - n]
      BY <1>1, <1>4, <2>1, <2>3
    <3> QED
      BY <3>1 DEF ToSet, Actives
  <2> QED
    BY <1>1, <2>1, <2>2, <2>3
<1>7. ASSUME NEW x \in ToSet(newAdded) PROVE x \in ToSet(NewlyActive)
  <2>1. PICK i \in 1 .. n : newAdded[i] = x
    BY <1>1, <1>7 DEF ToSet, n
  <2>2. n - i + 1 \in DOMAIN NewlyActive /\ NewlyActive[n - i + 1] = x
    BY <1>1, <1>3, <1>4, <2>1
  <2> QED
    BY <2>2 DEF ToSet
<1>8. ASSUME NEW x \in Actives PROVE x \in ToSet(NewlyActive)
  <2>1. PICK i \in 1 .. Len(active) : active[i] = x
    BY <1>1, <1>8 DEF ToSet, Actives
  <2>2. n + i \in n + 1 .. n + Len(active) /\ (n + i) - n = i
    BY <1>1, <2>1
  <2>3. n + i \in DOMAIN NewlyActive /\ NewlyActive[n + i] = x
    BY <1>1, <1>3, <1>4, <2>1, <2>2
  <2> QED
    BY <2>3 DEF ToSet
<1>9. Len(NewlyActive) = newNum + activeNum
  BY <1>3 DEF ListInv, n
<1> QED
  BY <1>3, <1>5, <1>6, <1>7, <1>8, <1>9 DEF ToSet

-----------------------------------------------------------------------------
(* Every variable keeps its kind. *)

LEMMA TypeStep ==
  ASSUME IInv, [Next]_vars
  PROVE  TypeOK'
<1>1. TypeOK
  BY DEF IInv
<1>2. rec \in [Servers -> Record]
  BY <1>1 DEF TypeOK, Record
<1>3. Actives \subseteq Servers /\ Due \subseteq Servers
  BY <1>1 DEF TypeOK, Actives, Due, ToSet
<1>4. <<>> \in Seq(Messages) /\ <<"hb">> \in Seq(Messages) /\ <<"del">> \in Seq(Messages)
  BY DEF Messages
<1>5. ASSUME NEW took \in SUBSET Servers, AfterSend(took)
      PROVE  link' \in [Servers -> {"none", "up", "hung", "closed", "reset", "gone"}]
  BY <1>1, <1>5 DEF AfterSend, TypeOK
<1>6. CASE \E s \in Servers : Accept(s)
  <2>1. PICK s \in Servers : Accept(s)
    BY <1>6
  <2> QED
    BY <1>1, <2>1 DEF Accept, TypeOK, listVars
<1>7. CASE AddNewBlockServer
  <2>1. <<accepted>> \o newAdded \in Seq(Servers)
    BY <1>1, <1>7 DEF AddNewBlockServer, TypeOK
  <2>2. newNum' \in Nat /\ accepted' \in Servers \cup {Nobody} /\ newAdded' \in Seq(Servers)
    BY <1>1, <1>7, <2>1 DEF AddNewBlockServer, TypeOK
  <2>3. mgrPc' \in {"look", "lock", "waiting", "woken", "round", "epoll", "events"}
    BY <1>1, <1>7 DEF AddNewBlockServer, TypeOK
  <2>4. UNCHANGED <<curState, active, activeNum, waiting, rec, toSend, batch, job, jobsLeft, knock,
                    stray, link, wire, replies>>
    BY <1>7 DEF AddNewBlockServer, hostVars, netVars
  <2> QED
    BY <1>1, <2>2, <2>3, <2>4 DEF TypeOK
<1>8. CASE Look \/ Wait \/ WakeUp \/ SubmitJob
  <2>1. CASE Look \/ Wait \/ WakeUp
    BY <1>1, <2>1 DEF Look, Wait, WakeUp, TypeOK, listVars, hostVars, netVars
  <2>2. CASE SubmitJob
    <3>1. jobsLeft' \in 0 .. Jobs
      BY <1>1, <2>2, JobsAssumption DEF SubmitJob, TypeOK
    <3> QED
      BY <1>1, <2>2, <3>1 DEF SubmitJob, TypeOK, listVars, hostVars, netVars
  <2> QED
    BY <1>8, <2>1, <2>2
<1>9. CASE StartRound
  <2>1. NewlyActive \in Seq(Servers) /\ Len(NewlyActive) = newNum + activeNum
    BY ListsJoined DEF IInv
  <2>2. 0 \in 0 .. MarkAfter
    BY IntervalsAssumption
  <2>3. rec' \in [Servers -> Record]
    BY <1>2, <1>9, <2>2 DEF StartRound, Record
  <2>4. active' \in Seq(Servers) /\ newAdded' \in Seq(Servers) /\ newNum' \in Nat /\ activeNum' \in Nat
    <3>1. newNum \in Nat /\ activeNum \in Nat /\ <<>> \in Seq(Servers)
      BY <1>1 DEF TypeOK
    <3>2. active' = NewlyActive /\ activeNum' = activeNum + newNum /\ newAdded' = <<>> /\ newNum' = 0
      BY <1>9 DEF StartRound
    <3> QED
      BY <2>1, <3>1, <3>2
  <2> QED
    BY <1>1, <1>9, <2>3, <2>4 DEF StartRound, TypeOK, hostVars, netVars, Record
<1>10. CASE EpollWait
  <2>1. Ready \subseteq [srv : Servers \cup {Nobody}, kind : {"in", "out", "err", "pipe"}]
    BY <1>3 DEF Ready
  <2> QED
    BY <1>1, <1>10, <2>1 DEF EpollWait, TypeOK, listVars, hostVars, netVars
<1>11. CASE \E e \in batch : PerformServerJobs(e)
  <2>1. PICK e \in batch : PerformServerJobs(e)
    BY <1>11
  <2>2. PICK took \in Takes(Actives) : WriteToConn(Actives, took, <<"del">>, rec) /\ AfterSend(took)
    BY <2>1 DEF PerformServerJobs
  <2>3. took \in SUBSET Servers
    BY <1>3 DEF Takes
  <2>4. /\ rec' \in [Servers -> Record]
        /\ toSend' \in [Servers -> Seq(Messages)] /\ wire' \in [Servers -> Seq(Messages)]
    BY <1>1, <1>2, <1>3, <1>4, <2>2, <2>3, SendTypes
  <2> QED
    BY <1>1, <1>5, <2>1, <2>2, <2>3, <2>4 DEF PerformServerJobs, TypeOK, Others, Handled, hostVars, Record
<1>12. CASE \E e \in batch : RecvBlockServerData(e)
  <2>1. PICK e \in batch : RecvBlockServerData(e)
    BY <1>12
  <2>2. 0 \in 0 .. MarkAfter
    BY IntervalsAssumption
  <2>3. \A r \in Record : \A q : RecvdRecord(r, q) \in Record
    BY <2>2 DEF Record, RecvdRecord
  <2>4. rec' \in [Servers -> Record]
    BY <1>2, <2>1, <2>3 DEF RecvBlockServerData
  <2>5. replies' \in [Servers -> Seq({"hbOK", "delOK"})]
    <3>1. <<>> \in Seq({"hbOK", "delOK"})
      OBVIOUS
    <3> QED
      BY <1>1, <2>1, <3>1 DEF RecvBlockServerData, TypeOK
  <2> QED
    BY <1>1, <2>1, <2>4, <2>5 DEF RecvBlockServerData, TypeOK, Others, Handled, hostVars, Record
<1>13. CASE \E e \in batch : WriteRest(e)
  <2>1. PICK e \in batch : WriteRest(e)
    BY <1>13
  <2>2. {e.srv} \in SUBSET Servers
    <3>1. e.kind # "pipe"
      BY <2>1 DEF WriteRest
    <3> QED
      BY <1>3, <3>1 DEF IInv, BatchInv
  <2>3. WriteToConn({e.srv}, {e.srv}, <<>>, rec) /\ AfterSend({e.srv})
    BY <2>1 DEF WriteRest
  <2>4. /\ rec' \in [Servers -> Record]
        /\ toSend' \in [Servers -> Seq(Messages)] /\ wire' \in [Servers -> Seq(Messages)]
    BY <1>1, <1>2, <1>4, <2>2, <2>3, SendTypes
  <2> QED
    BY <1>1, <1>5, <2>1, <2>2, <2>3, <2>4 DEF WriteRest, TypeOK, Others, Handled, hostVars, Record
<1>14. ASSUME NEW s \in Actives, ReportFailed(s)
       PROVE  /\ active' \in Seq(Servers) /\ activeNum' \in Nat
              /\ curState' \in [Servers -> {"UNCONNECTED", "CONNECTED", "DOWN"}]
              /\ link' \in [Servers -> {"none", "up", "hung", "closed", "reset", "gone"}]
  <2>1. active' \in Seq(Servers) /\ Len(active') = Len(active) - 1 /\ activeNum' = Len(active) - 1
    BY <1>1, <1>14, RemovedFromList DEF IInv, ListInv, TypeOK, ReportFailed
  <2>2. activeNum' \in Nat
    BY <2>1
  <2> QED
    BY <1>1, <1>14, <2>1, <2>2 DEF ReportFailed, TypeOK
<1>15. CASE \E e \in batch : ErrorEvent(e)
  <2>1. PICK e \in batch : ErrorEvent(e)
    BY <1>15
  <2>2. e.srv \in Actives
    BY <2>1 DEF ErrorEvent, IInv, BatchInv
  <2> QED
    BY <1>1, <1>14, <2>1, <2>2 DEF ErrorEvent, TypeOK, Others, Handled, hostVars
<1>16. CASE ReportSilent
  <2>1. PICK s \in Failed : ReportFailed(s)
    BY <1>16 DEF ReportSilent
  <2>2. s \in Actives
    BY DEF Failed
  <2> QED
    BY <1>1, <1>14, <1>16, <2>1, <2>2 DEF ReportSilent, TypeOK, Others, hostVars
<1>17. CASE CheckHeartBeat
  <2>1. PICK took \in Takes(Due) : WriteToConn(Due, took, <<"hb">>, HeartBeatSent(Due)) /\ AfterSend(took)
    BY <1>17 DEF CheckHeartBeat
  <2>2. took \in SUBSET Servers
    BY <1>3 DEF Takes
  <2>3. HeartBeatSent(Due) \in [Servers -> Record]
    BY <1>2 DEF HeartBeatSent, Record
  <2>4. /\ rec' \in [Servers -> Record]
        /\ toSend' \in [Servers -> Seq(Messages)] /\ wire' \in [Servers -> Seq(Messages)]
    BY <1>1, <1>3, <1>4, <2>1, <2>2, <2>3, SendTypes
  <2> QED
    BY <1>1, <1>5, <1>17, <2>1, <2>2, <2>4 DEF CheckHeartBeat, TypeOK, Others, hostVars, Record
<1>18. CASE Tick
  <2>1. /\ \A n \in 0 .. MarkAfter : OneMore(n, MarkAfter) \in 0 .. MarkAfter
        /\ \A n \in 0 .. HeartBeatEvery : OneMore(n, HeartBeatEvery) \in 0 .. HeartBeatEvery
    BY IntervalsAssumption DEF OneMore
  <2>2. rec' \in [Servers -> Record]
    BY <1>2, <1>18, <2>1 DEF Tick, Record
  <2> QED
    BY <1>1, <1>18, <2>2 DEF Tick, TypeOK, listVars, hostVars, netVars, Record
<1>19. CASE \E s \in Servers : Connect(s) \/ Answer(s) \/ Dies(s)
  <2>1. PICK s \in Servers : Connect(s) \/ Answer(s) \/ Dies(s)
    BY <1>19
  <2>2. CASE Connect(s)
    BY <1>1, <2>2 DEF Connect, TypeOK, listVars, netVars
  <2>3. CASE Answer(s)
    <3>1. Tail(wire[s]) \in Seq(Messages)
      BY <1>1, <2>3 DEF Answer, TypeOK
    <3>2. wire' \in [Servers -> Seq(Messages)]
      BY <1>1, <2>3, <3>1 DEF Answer, TypeOK
    <3>3. \A x \in {"hbOK", "delOK"} : Append(replies[s], x) \in Seq({"hbOK", "delOK"})
      BY <1>1 DEF TypeOK
    <3>4. replies' \in [Servers -> Seq({"hbOK", "delOK"})]
      BY <1>1, <2>3, <3>3 DEF Answer, TypeOK
    <3> QED
      BY <1>1, <2>3, <3>2, <3>4 DEF Answer, TypeOK, listVars, hostVars
  <2>4. CASE Dies(s)
    <3>1. PICK how \in {"hung", "closed", "reset"} : link' = [link EXCEPT ![s] = how]
      BY <2>4 DEF Dies
    <3>2. link' \in [Servers -> {"none", "up", "hung", "closed", "reset", "gone"}]
      BY <1>1, <3>1 DEF TypeOK
    <3> QED
      BY <1>1, <2>4, <3>2 DEF Dies, TypeOK, listVars, hostVars
  <2> QED
    BY <2>1, <2>2, <2>3, <2>4
<1>20. CASE UNCHANGED vars
  BY <1>1, <1>20 DEF vars, listVars, hostVars, netVars, TypeOK
<1> QED
  BY <1>6, <1>7, <1>8, <1>9, <1>10, <1>11, <1>12, <1>13, <1>15, <1>16, <1>17, <1>18, <1>19, <1>20
  DEF Next, MainThread, BlockServerThread

-----------------------------------------------------------------------------
(* The lists. *)

\* Only these change the lists or a server's state.
LEMMA ListFrame ==
  ASSUME [Next]_vars,
         ~AddNewBlockServer, ~StartRound, ~ReportSilent,
         \A s \in Servers : ~Accept(s), \A e \in batch : ~ErrorEvent(e)
  PROVE  UNCHANGED <<curState, accepted, newAdded, newNum, active, activeNum>>
<1> USE DEF listVars, Others
<1>1. CASE Look \/ Wait \/ WakeUp \/ EpollWait \/ SubmitJob \/ Tick
  BY <1>1 DEF Look, Wait, WakeUp, EpollWait, SubmitJob, Tick
<1>2. CASE CheckHeartBeat
  BY <1>2 DEF CheckHeartBeat
<1>3. CASE \E e \in batch : PerformServerJobs(e) \/ RecvBlockServerData(e) \/ WriteRest(e)
  BY <1>3 DEF PerformServerJobs, RecvBlockServerData, WriteRest
<1>4. CASE \E s \in Servers : Connect(s) \/ Answer(s) \/ Dies(s)
  BY <1>4 DEF Connect, Answer, Dies
<1>5. CASE UNCHANGED vars
  BY <1>5 DEF vars
<1> QED
  BY <1>1, <1>2, <1>3, <1>4, <1>5 DEF Next, MainThread, BlockServerThread

LEMMA ReportKeepsLists ==
  ASSUME TypeOK, ListInv, NEW s \in Actives, ReportFailed(s), UNCHANGED <<accepted, newAdded, newNum>>
  PROVE  ListInv' /\ Actives' = Actives \ {s}
<1>1. /\ active' \in Seq(Servers) /\ Len(active') = Len(active) - 1
      /\ \A i, j \in DOMAIN active' : active'[i] = active'[j] => i = j
      /\ Actives' = Actives \ {s}
  BY RemovedFromList DEF TypeOK, ListInv, ReportFailed, Actives
<1>2. newNum' = Len(newAdded') /\ activeNum' = Len(active')
  BY <1>1 DEF ListInv, ReportFailed
<1>3. \A i \in DOMAIN newAdded : newAdded[i] \notin Actives
  BY DEF ListInv, Actives, ToSet
<1>4. \A i \in DOMAIN newAdded', j \in DOMAIN active' : newAdded'[i] # active'[j]
  BY <1>1, <1>3 DEF Actives, ToSet
<1>5. s \notin ToSet(newAdded) /\ s # accepted
  BY <1>3 DEF ListInv, ToSet
<1>6. s \in Servers
  BY DEF Actives, ToSet, TypeOK
<1>7. \A x \in Servers : curState'[x] = "CONNECTED" <=>
                           x \in ToSet(newAdded') \/ x \in Actives' \/ x = accepted'
  BY <1>1, <1>5, <1>6 DEF ReportFailed, ListInv, TypeOK
<1> QED
  BY <1>1, <1>2, <1>4, <1>7 DEF ListInv

LEMMA ListStep ==
  ASSUME IInv, [Next]_vars
  PROVE  ListInv'
<1>1. TypeOK /\ ListInv
  BY DEF IInv
<1>2. CASE AddNewBlockServer
  <2>1. /\ newAdded' = <<accepted>> \o newAdded /\ newNum' = newNum + 1 /\ accepted' = Nobody
        /\ accepted # Nobody /\ UNCHANGED <<curState, active, activeNum>>
    BY <1>2 DEF AddNewBlockServer
  <2>2. newAdded \in Seq(Servers) /\ accepted \in Servers
    BY <1>1, <2>1 DEF TypeOK
  <2>3. /\ Len(newAdded') = Len(newAdded) + 1
        /\ \A i \in 1 .. Len(newAdded) + 1 : newAdded'[i] = IF i = 1 THEN accepted ELSE newAdded[i - 1]
    BY <2>1, <2>2
  <2>4. ToSet(newAdded') = {accepted} \cup ToSet(newAdded)
    <3>1. ToSet(<<accepted>>) = {accepted}
      BY DEF ToSet
    <3>2. <<accepted>> \in Seq(Servers)
      BY <2>2
    <3>3. ToSet(<<accepted>> \o newAdded) = ToSet(<<accepted>>) \cup ToSet(newAdded)
      BY <2>2, <3>2, JoinedRange
    <3> QED
      BY <2>1, <2>2, <3>1, <3>3
  <2>5. \A i \in DOMAIN newAdded : newAdded[i] # accepted
    BY <1>1 DEF ListInv, ToSet
  <2>6. \A i, j \in DOMAIN newAdded' : newAdded'[i] = newAdded'[j] => i = j
    <3> SUFFICES ASSUME NEW i \in 1 .. Len(newAdded) + 1, NEW j \in 1 .. Len(newAdded) + 1,
                        newAdded'[i] = newAdded'[j]
                 PROVE  i = j
      BY <2>1, <2>2, <2>3
    <3>1. CASE i = 1 \/ j = 1
      BY <2>2, <2>3, <2>5, <3>1
    <3>2. CASE i # 1 /\ j # 1
      <4>1. i - 1 \in DOMAIN newAdded /\ j - 1 \in DOMAIN newAdded
        BY <2>2, <3>2
      <4>2. newAdded[i - 1] = newAdded[j - 1]
        BY <2>3, <3>2
      <4>3. i - 1 = j - 1
        BY <1>1, <4>1, <4>2 DEF ListInv
      <4> QED
        BY <4>3
    <3> QED
      BY <3>1, <3>2
  <2>7. \A i \in DOMAIN newAdded', j \in DOMAIN active' : newAdded'[i] # active'[j]
    <3>1. \A x \in ToSet(newAdded) : x \notin Actives
      BY <1>1 DEF ListInv, ToSet, Actives
    <3>2. \A x \in ToSet(newAdded') : x \notin Actives
      BY <1>1, <2>4, <3>1 DEF ListInv
    <3> QED
      BY <2>1, <3>2 DEF ToSet, Actives
  <2>8. accepted' \notin ToSet(newAdded') \cup Actives'
    <3>1. ToSet(newAdded') \cup Actives' \subseteq Servers
      <4>1. ToSet(newAdded) \subseteq Servers
        BY <2>2 DEF ToSet
      <4>2. Actives' = Actives /\ Actives \subseteq Servers
        BY <1>1, <2>1 DEF TypeOK, Actives, ToSet
      <4> QED
        BY <2>2, <2>4, <4>1, <4>2
    <3> QED
      BY <2>1, <3>1, NobodyAssumption
  <2>9. \A s \in Servers : curState'[s] = "CONNECTED" <=>
                             s \in ToSet(newAdded') \/ s \in Actives' \/ s = accepted'
    BY <1>1, <2>1, <2>4, NobodyAssumption DEF ListInv, Actives
  <2>10. newNum' = Len(newAdded') /\ activeNum' = Len(active')
    BY <1>1, <2>1, <2>3 DEF ListInv
  <2>11. \A i, j \in DOMAIN active' : active'[i] = active'[j] => i = j
    BY <1>1, <2>1 DEF ListInv
  <2> QED
    BY <2>6, <2>7, <2>8, <2>9, <2>10, <2>11 DEF ListInv
<1>3. CASE StartRound
  <2>1. /\ NewlyActive \in Seq(Servers) /\ Len(NewlyActive) = newNum + activeNum
        /\ \A i, j \in DOMAIN NewlyActive : NewlyActive[i] = NewlyActive[j] => i = j
        /\ ToSet(NewlyActive) = ToSet(newAdded) \cup Actives
    BY <1>1, ListsJoined
  <2>2. /\ active' = NewlyActive /\ activeNum' = activeNum + newNum
        /\ newAdded' = <<>> /\ newNum' = 0 /\ UNCHANGED <<curState, accepted>>
    BY <1>3 DEF StartRound
  <2>3. ToSet(newAdded') = {} /\ Actives' = ToSet(newAdded) \cup Actives
    <3>1. ToSet(<<>>) = {}
      BY DEF ToSet
    <3> QED
      BY <2>1, <2>2, <3>1 DEF Actives
  <2>4. newNum' = Len(newAdded') /\ activeNum' = Len(active')
    BY <1>1, <2>1, <2>2 DEF TypeOK
  <2>5. accepted' \notin ToSet(newAdded') \cup Actives'
    BY <1>1, <2>2, <2>3 DEF ListInv
  <2>6. \A s \in Servers : curState'[s] = "CONNECTED" <=>
                             s \in ToSet(newAdded') \/ s \in Actives' \/ s = accepted'
    BY <1>1, <2>2, <2>3 DEF ListInv
  <2>7. /\ \A i, j \in DOMAIN newAdded' : newAdded'[i] = newAdded'[j] => i = j
        /\ \A i \in DOMAIN newAdded', j \in DOMAIN active' : newAdded'[i] # active'[j]
    BY <2>2
  <2>8. \A i, j \in DOMAIN active' : active'[i] = active'[j] => i = j
    BY <2>1, <2>2
  <2> QED
    BY <2>4, <2>5, <2>6, <2>7, <2>8 DEF ListInv
<1>4. CASE ReportSilent
  <2>1. PICK s \in Failed : ReportFailed(s)
    BY <1>4 DEF ReportSilent
  <2> QED
    BY <1>1, <1>4, <2>1, ReportKeepsLists DEF ReportSilent, Others, Failed
<1>5. CASE \E e \in batch : ErrorEvent(e)
  <2>1. PICK e \in batch : ErrorEvent(e)
    BY <1>5
  <2>2. e.srv \in Actives
    BY <2>1 DEF ErrorEvent, IInv, BatchInv
  <2> QED
    BY <1>1, <2>1, <2>2, ReportKeepsLists DEF ErrorEvent, Others
<1>6. CASE \E s \in Servers : Accept(s)
  <2>1. PICK s \in Servers : Accept(s)
    BY <1>6
  <2>2. UNCHANGED <<newAdded, newNum, active, activeNum>> /\ accepted = Nobody
    BY <2>1 DEF Accept, listVars
  <2>3. CASE curState[s] = "UNCONNECTED"
    <3>1. accepted' = s /\ curState' = [curState EXCEPT ![s] = "CONNECTED"]
      BY <2>1, <2>3 DEF Accept
    <3>2. s \notin ToSet(newAdded) \cup Actives
      BY <1>1, <2>3 DEF ListInv
    <3>3. \A x \in Servers : curState'[x] = "CONNECTED" <=>
                               x \in ToSet(newAdded') \/ x \in Actives' \/ x = accepted'
      BY <1>1, <2>2, <3>1, NobodyAssumption DEF ListInv, TypeOK, Actives
    <3> QED
      BY <1>1, <2>2, <3>1, <3>2, <3>3 DEF ListInv, Actives
  <2>4. CASE curState[s] # "UNCONNECTED"
    BY <1>1, <2>1, <2>2, <2>4 DEF Accept, ListInv, Actives
  <2> QED
    BY <2>3, <2>4
<1>7. CASE UNCHANGED <<curState, accepted, newAdded, newNum, active, activeNum>>
  BY <1>1, <1>7 DEF ListInv, Actives
<1> QED
  BY <1>2, <1>3, <1>4, <1>5, <1>6, <1>7, ListFrame

-----------------------------------------------------------------------------
(* The events in hand. *)

\* A connection comes up only with a new record.
LEMMA UpIsNew ==
  ASSUME TypeOK, [Next]_vars, NEW s \in Servers, link[s] # "up", curState[s] # "UNCONNECTED"
  PROVE  link'[s] # "up"
<1>1. CASE UNCHANGED link
  BY <1>1
<1>2. ASSUME NEW took, AfterSend(took) PROVE link'[s] # "up"
  BY <1>2 DEF AfterSend
<1>3. ASSUME NEW x, ReportFailed(x) PROVE link'[s] # "up"
  BY <1>3 DEF ReportFailed, TypeOK
<1>4. CASE \E x \in Servers : Accept(x)
  BY <1>4 DEF Accept, TypeOK
<1>5. CASE \E x \in Servers : Connect(x) \/ Answer(x) \/ Dies(x)
  <2>1. PICK x \in Servers : Connect(x) \/ Answer(x) \/ Dies(x)
    BY <1>5
  <2>2. CASE Connect(x) \/ Answer(x)
    BY <1>1, <2>2 DEF Connect, Answer, netVars
  <2>3. CASE Dies(x)
    <3>1. PICK how \in {"hung", "closed", "reset"} : link' = [link EXCEPT ![x] = how]
      BY <2>3 DEF Dies
    <3> QED
      BY <3>1 DEF TypeOK
  <2> QED
    BY <2>1, <2>2, <2>3
<1>6. CASE \E e \in batch : PerformServerJobs(e) \/ WriteRest(e)
  BY <1>2, <1>6 DEF PerformServerJobs, WriteRest
<1>7. CASE CheckHeartBeat
  BY <1>2, <1>7 DEF CheckHeartBeat
<1>8. CASE ReportSilent \/ \E e \in batch : ErrorEvent(e)
  BY <1>3, <1>8 DEF ReportSilent, ErrorEvent
<1>9. CASE \E e \in batch : RecvBlockServerData(e)
  BY <1>1, <1>9 DEF RecvBlockServerData
<1>10. CASE AddNewBlockServer \/ Look \/ Wait \/ WakeUp \/ StartRound \/ EpollWait \/ SubmitJob \/ Tick
  BY <1>1, <1>10 DEF AddNewBlockServer, Look, Wait, WakeUp, StartRound, EpollWait, SubmitJob, Tick, netVars
<1>11. CASE UNCHANGED vars
  BY <1>1, <1>11 DEF vars, netVars
<1> QED
  BY <1>4, <1>5, <1>6, <1>7, <1>8, <1>9, <1>10, <1>11 DEF Next, MainThread, BlockServerThread

\* No send takes a record back to a socket that is not registered.
LEMMA SendKeepsSock ==
  ASSUME NEW W, NEW took, NEW msg, NEW STATE r, WriteToConn(W, took, msg, r),
         NEW s \in Servers, r[s].sock # "UNREGISTERED", r[s] \in Record
  PROVE  rec'[s].sock # "UNREGISTERED"
BY DEF WriteToConn, Record

\* What is ready is one event for each active server at most.
LEMMA ReadyEvents ==
  ASSUME TypeOK
  PROVE  /\ \A e \in Ready : e.kind # "pipe" => e.srv \in Actives
         /\ \A e \in Ready : e.kind = "pipe" => e.srv = Nobody
         /\ \A e, f \in Ready : e.srv = f.srv => e = f
         /\ \A e \in Ready : e.kind = "err" => link[e.srv] # "up"
<1>1. Nobody \notin Actives
  BY NobodyAssumption DEF TypeOK, Actives, ToSet
<1>2. \A s, a, b : a \in Event(s) /\ b \in Event(s) => a = b
  BY DEF Event
<1>3. \A s : "err" \in Event(s) => link[s] # "up"
  BY DEF Event
<1>4. \A e \in Ready : \/ /\ e = [srv |-> e.srv, kind |-> e.kind] /\ e.srv \in Actives
                          /\ e.kind \in {"in", "out", "err"} /\ e.kind \in Event(e.srv)
                       \/ e = [srv |-> Nobody, kind |-> "pipe"]
  BY DEF Ready
<1>5. ASSUME NEW e \in Ready, NEW f \in Ready, e.srv = f.srv PROVE e = f
  <2>1. CASE e.srv \in Actives
    BY <1>1, <1>2, <1>4, <1>5, <2>1
  <2>2. CASE e.srv \notin Actives
    BY <1>4, <1>5, <2>2
  <2> QED
    BY <2>1, <2>2
<1>6. \A e \in Ready : e.kind # "pipe" => e.srv \in Actives
  BY <1>4
<1>7. \A e \in Ready : e.kind = "pipe" => e.srv = Nobody
  BY <1>4
<1>8. \A e \in Ready : e.kind = "err" => link[e.srv] # "up"
  BY <1>3, <1>4
<1> QED
  BY <1>5, <1>6, <1>7, <1>8

LEMMA BatchStep ==
  ASSUME IInv, [Next]_vars
  PROVE  BatchInv'
<1>1. TypeOK /\ ListInv /\ BatchInv
  BY DEF IInv
<1>2. rec \in [Servers -> Record] /\ Actives \subseteq Servers
  <2>1. rec \in [Servers -> Record]
    BY <1>1 DEF TypeOK, Record
  <2>2. Actives \subseteq Servers
    BY <1>1 DEF TypeOK, Actives, ToSet
  <2> QED
    BY <2>1, <2>2
<1>3. \A s \in Actives : curState[s] = "CONNECTED"
  BY <1>1, <1>2 DEF ListInv
<1>4. \A s \in Actives : link[s] # "up" => link'[s] # "up"
  BY <1>1, <1>2, <1>3, UpIsNew
\* Events leave the batch; the servers of the others stay, and stay registered.
<1>5. ASSUME batch' \subseteq batch,
             \A e \in batch' : e.kind # "pipe" => e.srv \in Actives',
             mgrPc' \in {"epoll", "events"} =>
               mgrPc \in {"epoll", "events"} /\ Actives' \subseteq Actives,
             \A s \in Actives : rec[s].sock # "UNREGISTERED" => rec'[s].sock # "UNREGISTERED"
      PROVE  BatchInv'
  <2>1. \A e \in batch' : e.kind = "err" => link'[e.srv] # "up"
    BY <1>1, <1>4, <1>5 DEF BatchInv
  <2> QED
    BY <1>1, <1>5, <2>1 DEF BatchInv
<1>6. CASE Look \/ Wait \/ WakeUp \/ SubmitJob \/ AddNewBlockServer \/ UNCHANGED vars
  <2>1. UNCHANGED <<batch, active, rec>>
    BY <1>6 DEF Look, Wait, WakeUp, SubmitJob, AddNewBlockServer, vars, listVars
  <2>2. mgrPc' \in {"epoll", "events"} => mgrPc \in {"epoll", "events"}
    BY <1>6 DEF Look, Wait, WakeUp, SubmitJob, AddNewBlockServer, vars
  <2> QED
    BY <1>1, <1>5, <2>1, <2>2 DEF BatchInv, Actives
<1>7. CASE \E s \in Servers : Accept(s) \/ Connect(s) \/ Answer(s) \/ Dies(s)
  <2>1. UNCHANGED <<batch, active, rec, mgrPc>>
    BY <1>7 DEF Accept, Connect, Answer, Dies, listVars
  <2> QED
    BY <1>1, <1>5, <2>1 DEF BatchInv, Actives
<1>8. CASE Tick
  <2>1. UNCHANGED <<batch, active, mgrPc>>
    BY <1>8 DEF Tick, listVars
  <2>2. \A s \in Actives : rec[s].sock # "UNREGISTERED" => rec'[s].sock # "UNREGISTERED"
    BY <1>2, <1>8 DEF Tick, Record
  <2> QED
    BY <1>1, <1>5, <2>1, <2>2 DEF BatchInv, Actives
<1>9. CASE StartRound
  <2>1. active' = NewlyActive /\ mgrPc' = "epoll" /\ batch' = batch
    BY <1>9 DEF StartRound
  <2>2. Actives' = ToSet(newAdded) \cup Actives /\ active' \in Seq(Servers)
    BY <1>1, <2>1, ListsJoined DEF Actives
  <2>3. Actives' \subseteq Servers
    BY <2>2 DEF Actives, ToSet
  <2>4. \A s \in Actives' : rec'[s].sock # "UNREGISTERED"
    <3>1. rec' = [s \in Servers |-> IF s \in ToRegister(active')
                    THEN [rec[s] EXCEPT !.sock = "READ", !.quiet = 0] ELSE rec[s]]
      BY <1>9 DEF StartRound
    <3>2. \A s \in Actives' : rec[s].sock = "UNREGISTERED" => s \in ToRegister(active')
      BY DEF ToRegister, Actives
    <3> QED
      BY <1>2, <2>3, <3>1, <3>2 DEF Record
  <2>5. \A e \in batch : e.kind = "err" => link'[e.srv] # "up"
    BY <1>1, <1>4 DEF BatchInv
  <2> QED
    BY <1>1, <2>1, <2>2, <2>4, <2>5 DEF BatchInv
<1>10. CASE EpollWait
  <2>1. batch' = Ready /\ mgrPc = "epoll" /\ UNCHANGED <<active, rec, link>>
    BY <1>10 DEF EpollWait, listVars, netVars
  <2> QED
    BY <1>1, <2>1, ReadyEvents DEF BatchInv, Actives
<1>11. CASE \E e \in batch : PerformServerJobs(e) \/ RecvBlockServerData(e) \/ WriteRest(e)
  <2>1. PICK e \in batch : PerformServerJobs(e) \/ RecvBlockServerData(e) \/ WriteRest(e)
    BY <1>11
  <2>2. batch' = batch \ {e} /\ UNCHANGED <<active, mgrPc>>
    BY <2>1 DEF PerformServerJobs, RecvBlockServerData, WriteRest, Handled
  <2>3. \A s \in Actives : rec[s].sock # "UNREGISTERED" => rec'[s].sock # "UNREGISTERED"
    <3>1. CASE PerformServerJobs(e) \/ WriteRest(e)
      BY <1>2, <3>1, SendKeepsSock DEF PerformServerJobs, WriteRest
    <3>2. CASE RecvBlockServerData(e)
      BY <1>2, <3>2 DEF RecvBlockServerData, RecvdRecord, Record
    <3> QED
      BY <2>1, <3>1, <3>2
  <2> QED
    BY <1>1, <1>5, <2>2, <2>3 DEF BatchInv, Actives
<1>12. CASE \E e \in batch : ErrorEvent(e)
  <2>1. PICK e \in batch : ErrorEvent(e)
    BY <1>12
  <2>2. e.srv \in Actives
    BY <1>1, <2>1 DEF ErrorEvent, BatchInv
  <2>3. Actives' = Actives \ {e.srv} /\ batch' = batch \ {e} /\ UNCHANGED <<rec, mgrPc>>
    BY <1>1, <2>1, <2>2, ReportKeepsLists DEF ErrorEvent, Others, Handled
  <2>4. \A f \in batch' : f.kind # "pipe" => f.srv \in Actives'
    BY <1>1, <2>3 DEF BatchInv
  <2> QED
    BY <1>5, <2>3, <2>4
<1>13. CASE ReportSilent
  <2>1. PICK s \in Failed : ReportFailed(s)
    BY <1>13 DEF ReportSilent
  <2>2. Actives' = Actives \ {s} /\ batch = {} /\ UNCHANGED <<rec, mgrPc, batch>>
    BY <1>1, <1>13, <2>1, ReportKeepsLists DEF ReportSilent, Others, Failed
  <2> QED
    BY <1>5, <2>2
<1>14. CASE CheckHeartBeat
  BY <1>14 DEF CheckHeartBeat, BatchInv
<1> QED
  BY <1>6, <1>7, <1>8, <1>9, <1>10, <1>11, <1>12, <1>13, <1>14 DEF Next, MainThread, BlockServerThread

-----------------------------------------------------------------------------
(* The heartbeats. *)

LEMMA HeartStep ==
  ASSUME IInv, [Next]_vars
  PROVE  HeartInv'
<1>1. TypeOK /\ ListInv /\ BatchInv /\ HeartInv
  BY DEF IInv
<1>2. rec \in [Servers -> Record]
  BY <1>1 DEF TypeOK, Record
<1>3. Actives \subseteq Servers
  BY <1>1 DEF TypeOK, Actives, ToSet
<1> SUFFICES ASSUME NEW s \in Servers
             PROVE  /\ curState'[s] = "UNCONNECTED" => rec'[s].hb = 0
                    /\ link'[s] = "up" /\ rec'[s].hb = -1 => rec'[s].quiet = 0 /\ Outstanding(s)'
  BY DEF HeartInv
<1>4. /\ curState[s] = "UNCONNECTED" => rec[s].hb = 0
      /\ link[s] = "up" /\ rec[s].hb = -1 => rec[s].quiet = 0 /\ Outstanding(s)
  BY <1>1 DEF HeartInv
<1>5. rec[s] \in Record
  BY <1>2
<1>6. s \in Actives => curState[s] = "CONNECTED"
  BY <1>1 DEF ListInv
<1>7. link'[s] = "up" => link[s] = "up" \/ curState[s] = "UNCONNECTED"
  BY <1>1, UpIsNew
\* Nothing of the server changes.
<1>8. ASSUME rec'[s].hb = rec[s].hb, rec'[s].quiet = rec[s].quiet, UNCHANGED <<toSend, wire, replies>>,
             curState'[s] = "UNCONNECTED" => curState[s] = "UNCONNECTED"
      PROVE  /\ curState'[s] = "UNCONNECTED" => rec'[s].hb = 0
             /\ link'[s] = "up" /\ rec'[s].hb = -1 => rec'[s].quiet = 0 /\ Outstanding(s)'
  <2>1. Outstanding(s)' = Outstanding(s)
    BY <1>8 DEF Outstanding
  <2> QED
    BY <1>4, <1>7, <1>8, <2>1
\* A send to active servers, with or without a heartbeat.
<1>9. ASSUME NEW W \in SUBSET Actives, NEW took \in SUBSET W, NEW msg \in Seq(Messages),
             NEW STATE r, r \in [Servers -> Record], WriteToConn(W, took, msg, r), AfterSend(took),
             \/ r[s].hb = rec[s].hb
             \/ s \in W /\ "hb" \in ToSet(msg),
             s \notin W => r[s] = rec[s],
             UNCHANGED <<curState, replies>>
      PROVE  /\ curState'[s] = "UNCONNECTED" => rec'[s].hb = 0
             /\ link'[s] = "up" /\ rec'[s].hb = -1 => rec'[s].quiet = 0 /\ Outstanding(s)'
  <2>1. link'[s] = "up" => link[s] = "up"
    BY <1>9 DEF AfterSend
  <2>2. W \in SUBSET Servers
    BY <1>3
  <2>3. link[s] = "up" /\ (Outstanding(s) \/ (s \in W /\ "hb" \in ToSet(msg))) => Outstanding(s)'
    BY <1>1, <1>9, <2>2, SendKeepsHeartBeat
  <2>4. CASE s \in W
    <3>1. rec'[s].hb = r[s].hb /\ rec'[s].quiet = 0
      BY <1>9, <2>4 DEF WriteToConn, Record
    <3>2. curState'[s] # "UNCONNECTED"
      BY <1>6, <1>9, <2>4
    <3> QED
      BY <1>4, <1>9, <2>1, <2>3, <3>1, <3>2
  <2>5. CASE s \notin W
    <3>1. rec'[s] = rec[s]
      BY <1>9, <2>5 DEF WriteToConn
    <3> QED
      BY <1>4, <1>9, <2>1, <2>3, <3>1
  <2> QED
    BY <2>4, <2>5
<1>10. CASE Look \/ Wait \/ WakeUp \/ SubmitJob \/ EpollWait \/ AddNewBlockServer \/ UNCHANGED vars
  BY <1>8, <1>10 DEF Look, Wait, WakeUp, SubmitJob, EpollWait, AddNewBlockServer, vars, netVars
<1>11. CASE \E x \in Servers : Accept(x)
  <2>1. PICK x \in Servers : Accept(x)
    BY <1>11
  <2>2. curState'[s] = "UNCONNECTED" => curState[s] = "UNCONNECTED"
    BY <1>1, <2>1 DEF Accept, TypeOK
  <2>3. UNCHANGED <<rec, toSend, wire, replies>>
    BY <2>1 DEF Accept
  <2> QED
    BY <1>8, <2>2, <2>3
<1>12. CASE StartRound
  <2>1. UNCHANGED <<curState, toSend, wire, replies, link>>
    BY <1>12 DEF StartRound, netVars
  <2>2. rec'[s].hb = rec[s].hb /\ (rec'[s].quiet = rec[s].quiet \/ rec'[s].quiet = 0)
    BY <1>5, <1>12 DEF StartRound, Record
  <2>3. Outstanding(s)' = Outstanding(s)
    BY <2>1 DEF Outstanding
  <2> QED
    BY <1>4, <2>1, <2>2, <2>3
<1>13. CASE \E e \in batch : PerformServerJobs(e)
  <2>1. PICK e \in batch : PerformServerJobs(e)
    BY <1>13
  <2>2. PICK took \in Takes(Actives) : WriteToConn(Actives, took, <<"del">>, rec) /\ AfterSend(took)
    BY <2>1 DEF PerformServerJobs
  <2>3. took \in SUBSET Actives /\ <<"del">> \in Seq(Messages) /\ UNCHANGED <<curState, replies>>
    BY <2>1, <2>2 DEF Takes, Messages, PerformServerJobs
  <2> QED
    BY <1>2, <1>9, <2>2, <2>3
<1>14. CASE \E e \in batch : WriteRest(e)
  <2>1. PICK e \in batch : WriteRest(e)
    BY <1>14
  <2>2. e.srv \in Actives
    <3>1. e.kind # "pipe"
      BY <2>1 DEF WriteRest
    <3> QED
      BY <1>1, <3>1 DEF BatchInv
  <2>3. WriteToConn({e.srv}, {e.srv}, <<>>, rec) /\ AfterSend({e.srv}) /\ UNCHANGED <<curState, replies>>
    BY <2>1 DEF WriteRest
  <2>4. {e.srv} \in SUBSET Actives /\ <<>> \in Seq(Messages) /\ {e.srv} \in SUBSET {e.srv}
    BY <2>2
  <2> QED
    BY <1>2, <1>9, <2>3, <2>4
<1>15. CASE \E e \in batch : RecvBlockServerData(e)
  <2>1. PICK e \in batch : RecvBlockServerData(e)
    BY <1>15
  <2>2. /\ rec' = [rec EXCEPT ![e.srv] = RecvdRecord(@, replies[e.srv])]
        /\ replies' = [replies EXCEPT ![e.srv] = <<>>]
        /\ UNCHANGED <<curState, toSend, wire, link>>
    BY <2>1 DEF RecvBlockServerData
  <2>3. CASE s = e.srv
    <3>1. s \in Actives
      BY <1>1, <2>1, <2>3 DEF RecvBlockServerData, BatchInv
    <3>2. rec'[s] = RecvdRecord(rec[s], replies[s]) /\ replies'[s] = <<>>
      BY <1>1, <1>2, <2>2, <2>3 DEF TypeOK
    <3>3. CASE replies[s] = <<>>
      <4>1. rec'[s] = rec[s] /\ Outstanding(s)' = Outstanding(s)
        BY <2>2, <3>2, <3>3 DEF RecvdRecord, Outstanding
      <4> QED
        BY <1>4, <2>2, <4>1
    <3>4. CASE replies[s] # <<>>
      <4>1. rec'[s].quiet = 0 /\ rec'[s].hb = IF "hbOK" \in ToSet(replies[s]) THEN 1 ELSE rec[s].hb
        BY <1>5, <3>2, <3>4 DEF RecvdRecord, Record
      <4>2. Outstanding(s) /\ "hbOK" \notin ToSet(replies[s]) => Outstanding(s)'
        BY <2>2 DEF Outstanding
      <4> QED
        BY <1>4, <1>6, <2>2, <3>1, <4>1, <4>2
    <3> QED
      BY <3>3, <3>4
  <2>4. CASE s # e.srv
    <3>1. rec'[s] = rec[s] /\ replies'[s] = replies[s]
      BY <1>1, <1>2, <2>2, <2>4 DEF TypeOK
    <3>2. Outstanding(s)' = Outstanding(s)
      BY <2>2, <3>1 DEF Outstanding
    <3> QED
      BY <1>4, <2>2, <3>1, <3>2
  <2> QED
    BY <2>3, <2>4
<1>16. CASE ReportSilent \/ \E e \in batch : ErrorEvent(e)
  <2>1. UNCHANGED <<rec, toSend, wire, replies>>
    BY <1>16 DEF ReportSilent, ErrorEvent
  <2>2. \E x : ReportFailed(x)
    BY <1>16 DEF ReportSilent, ErrorEvent
  <2>3. curState'[s] = "UNCONNECTED" => curState[s] = "UNCONNECTED"
    BY <1>1, <2>2 DEF ReportFailed, TypeOK
  <2> QED
    BY <1>8, <2>1, <2>3
<1>17. CASE CheckHeartBeat
  <2>1. PICK took \in Takes(Due) : WriteToConn(Due, took, <<"hb">>, HeartBeatSent(Due)) /\ AfterSend(took)
    BY <1>17 DEF CheckHeartBeat
  <2>2. /\ took \in SUBSET Due /\ Due \in SUBSET Actives /\ <<"hb">> \in Seq(Messages)
        /\ UNCHANGED <<curState, replies>>
    BY <1>17, <2>1 DEF Takes, Due, Messages, CheckHeartBeat
  <2>3. HeartBeatSent(Due) \in [Servers -> Record]
    BY <1>2 DEF HeartBeatSent, Record
  <2>4. s \notin Due => HeartBeatSent(Due)[s] = rec[s]
    BY DEF HeartBeatSent
  <2>5. "hb" \in ToSet(<<"hb">>)
    BY DEF ToSet
  <2> QED
    BY <1>9, <2>1, <2>2, <2>3, <2>4, <2>5
<1>18. CASE Tick
  <2>1. UNCHANGED <<curState, toSend, wire, replies, link>>
    BY <1>18 DEF Tick, netVars
  <2>2. rec'[s].hb = rec[s].hb /\ (s \notin Actives => rec'[s] = rec[s])
    BY <1>5, <1>18 DEF Tick, Record
  <2>3. Outstanding(s)' = Outstanding(s)
    BY <2>1 DEF Outstanding
  <2>4. s \in Actives /\ link[s] = "up" => ~Outstanding(s)
    <3>1. s \in Actives /\ link[s] = "up" => toSend[s] = <<>> /\ wire[s] = <<>> /\ replies[s] = <<>>
      BY <1>18 DEF Tick
    <3>2. ToSet(<<>>) = {}
      BY DEF ToSet
    <3> QED
      BY <3>1, <3>2 DEF Outstanding
  <2> QED
    BY <1>4, <2>1, <2>2, <2>3, <2>4
<1>19. CASE \E x \in Servers : Connect(x) \/ Dies(x)
  <2>1. UNCHANGED <<curState, rec, toSend, wire, replies>>
    BY <1>19 DEF Connect, Dies, netVars
  <2> QED
    BY <1>8, <2>1
<1>20. CASE \E x \in Servers : Answer(x)
  <2>1. PICK x \in Servers : Answer(x)
    BY <1>20
  <2>2. UNCHANGED <<curState, rec, toSend, link>>
    BY <2>1 DEF Answer
  <2>3. CASE x = s
    <3>1. /\ wire[s] \in Seq(Messages) /\ wire[s] # <<>> /\ replies[s] \in Seq({"hbOK", "delOK"})
          /\ wire'[s] = Tail(wire[s])
          /\ replies'[s] = Append(replies[s], IF Head(wire[s]) = "hb" THEN "hbOK" ELSE "delOK")
      BY <1>1, <2>1, <2>3 DEF Answer, TypeOK
    <3>2. "hb" \in ToSet(wire[s]) => Head(wire[s]) = "hb" \/ "hb" \in ToSet(wire'[s])
      <4> SUFFICES ASSUME NEW i \in 1 .. Len(wire[s]), wire[s][i] = "hb", i # 1
                   PROVE  "hb" \in ToSet(Tail(wire[s]))
        BY <3>1 DEF ToSet
      <4>1. Tail(wire[s]) \in Seq(Messages) /\ i - 1 \in 1 .. Len(Tail(wire[s]))
            /\ Tail(wire[s])[i - 1] = wire[s][i]
        BY <3>1
      <4>2. i - 1 \in DOMAIN Tail(wire[s])
        BY <4>1
      <4> QED
        BY <4>1, <4>2 DEF ToSet
    <3>3. "hbOK" \in ToSet(replies[s]) \/ Head(wire[s]) = "hb" => "hbOK" \in ToSet(replies'[s])
      <4>1. ASSUME NEW q \in Seq({"hbOK", "delOK"}), NEW y \in {"hbOK", "delOK"}
            PROVE  ToSet(Append(q, y)) = ToSet(q) \cup {y}
        <5>1. /\ DOMAIN Append(q, y) = 1 .. Len(q) + 1 /\ DOMAIN q = 1 .. Len(q) /\ Len(q) \in Nat
              /\ Append(q, y)[Len(q) + 1] = y
              /\ \A i \in 1 .. Len(q) : Append(q, y)[i] = q[i]
          OBVIOUS
        <5>2. 1 .. Len(q) + 1 = (1 .. Len(q)) \cup {Len(q) + 1}
          BY <5>1
        <5> QED
          BY <5>1, <5>2 DEF ToSet
      <4> QED
        BY <3>1, <4>1
    <3>4. Outstanding(s) => Outstanding(s)'
      BY <2>2, <3>2, <3>3 DEF Outstanding
    <3> QED
      BY <1>4, <2>2, <3>4
  <2>4. CASE x # s
    <3>1. wire'[s] = wire[s] /\ replies'[s] = replies[s]
      BY <1>1, <2>1, <2>4 DEF Answer, TypeOK
    <3>2. Outstanding(s)' = Outstanding(s)
      BY <2>2, <3>1 DEF Outstanding
    <3> QED
      BY <1>4, <2>2, <3>2
  <2> QED
    BY <2>3, <2>4
<1> QED
  BY <1>10, <1>11, <1>12, <1>13, <1>14, <1>15, <1>16, <1>17, <1>18, <1>19, <1>20
  DEF Next, MainThread, BlockServerThread

-----------------------------------------------------------------------------
(* What follows. *)

LEMMA Initially == Init => IInv
<1> SUFFICES ASSUME Init PROVE IInv
  OBVIOUS
<1>1. TypeOK
  <2>1. 0 \in 0 .. MarkAfter /\ 0 \in 0 .. HeartBeatEvery /\ Jobs \in 0 .. Jobs
    BY IntervalsAssumption, JobsAssumption
  <2>2. <<>> \in Seq(Servers) /\ <<>> \in Seq(Messages) /\ <<>> \in Seq({"hbOK", "delOK"})
    OBVIOUS
  <2>3. rec \in [Servers -> Record]
    BY <2>1 DEF Init, NewRecord, Record
  <2>4. /\ toSend \in [Servers -> Seq(Messages)] /\ wire \in [Servers -> Seq(Messages)]
        /\ replies \in [Servers -> Seq({"hbOK", "delOK"})]
    BY <2>2 DEF Init
  <2> QED
    BY <2>1, <2>2, <2>3, <2>4 DEF Init, TypeOK, Record
<1>2. ToSet(newAdded) = {} /\ Actives = {}
  BY DEF Init, ToSet, Actives
<1>3. ListInv
  BY <1>2, NobodyAssumption DEF Init, ListInv
<1>4. BatchInv
  BY <1>2 DEF Init, BatchInv
<1>5. HeartInv
  BY DEF Init, HeartInv, NewRecord
<1> QED
  BY <1>1, <1>3, <1>4, <1>5 DEF IInv

\* The invariant that the agreement of the lists and the absence of false
\* failures rest on holds in every state.
THEOREM Invariant == Spec => []IInv
<1>1. IInv /\ [Next]_vars => IInv'
  BY TypeStep, ListStep, BatchStep, HeartStep DEF IInv
<1> QED
  BY <1>1, Initially, PTL DEF Spec

LEMMA InvariantAgrees == IInv => ListsAgree
<1> SUFFICES ASSUME IInv PROVE ListsAgree
  OBVIOUS
<1>1. TypeOK /\ ListInv /\ BatchInv
  BY DEF IInv
<1> DEFINE last == IF accepted = Nobody THEN <<>> ELSE <<accepted>>
           a == newAdded \o active
           all == a \o last
           m == Len(newAdded)
           n == Len(active)
<1>2. newAdded \in Seq(Servers) /\ active \in Seq(Servers) /\ last \in Seq(Servers)
      /\ m \in Nat /\ n \in Nat
  BY <1>1 DEF TypeOK
<1>3. /\ Len(a) = m + n /\ a \in Seq(Servers)
      /\ \A i \in 1 .. m : a[i] = newAdded[i]
      /\ \A i \in 1 .. n : a[m + i] = active[i]
  BY <1>2, JoinedElements
<1>4. /\ Len(all) = m + n + Len(last)
      /\ \A i \in 1 .. m + n : all[i] = a[i]
      /\ \A i \in 1 .. Len(last) : all[m + n + i] = last[i]
  BY <1>2, <1>3, JoinedElements
<1>5. ToSet(all) = ToSet(newAdded) \cup Actives \cup ToSet(last)
  <2>1. ToSet(a) = ToSet(newAdded) \cup ToSet(active)
    BY <1>2, JoinedRange
  <2>2. ToSet(all) = ToSet(a) \cup ToSet(last)
    <3> HIDE DEF a, last
    <3> QED
      BY <1>2, <1>3, JoinedRange
  <2> QED
    BY <2>1, <2>2 DEF Actives
<1>6. ToSet(last) = {accepted} \ {Nobody} /\ Len(last) \in {0, 1}
      /\ (Len(last) = 1 => last[1] = accepted) /\ Len(last) \in Nat
  BY DEF ToSet
<1>7. Nobody \notin ToSet(newAdded) \cup Actives
  BY <1>2, NobodyAssumption DEF ToSet, Actives
<1> HIDE DEF last, all, a, m, n
<1>8. ASSUME NEW i \in 1 .. Len(all), NEW j \in 1 .. Len(all), all[i] = all[j], i < j
      PROVE  FALSE
  <2>1. CASE j <= m
    <3>1. i \in 1 .. m /\ j \in 1 .. m /\ i \in 1 .. m + n /\ j \in 1 .. m + n
      BY <1>2, <1>4, <1>6, <1>8, <2>1
    <3>2. newAdded[i] = newAdded[j]
      BY <1>3, <1>4, <1>8, <3>1
    <3>3. i \in DOMAIN newAdded /\ j \in DOMAIN newAdded
      BY <1>2, <3>1 DEF m
    <3>4. i = j
      BY <1>1, <3>2, <3>3 DEF ListInv
    <3> QED
      BY <1>8, <3>1, <3>4
  <2>2. CASE i <= m /\ j > m /\ j <= m + n
    <3>1. i \in DOMAIN newAdded /\ newAdded[i] = all[i]
      BY <1>2, <1>3, <1>4, <1>6, <1>8, <2>2 DEF m
    <3>2. j - m \in DOMAIN active
      BY <1>2, <1>6, <1>8, <2>2 DEF n
    <3>3. j - m \in 1 .. n /\ m + (j - m) = j
      BY <1>2, <1>6, <1>8, <2>2
    <3>4. active[j - m] = all[j]
      BY <1>2, <1>3, <1>4, <1>6, <1>8, <2>2, <3>3
    <3> QED
      BY <1>1, <1>8, <3>1, <3>2, <3>4 DEF ListInv
  <2>3. CASE i > m /\ j <= m + n
    <3>1. i - m \in 1 .. n /\ j - m \in 1 .. n /\ m + (i - m) = i /\ m + (j - m) = j
      BY <1>2, <1>6, <1>8, <2>3
    <3>2. active[i - m] = all[i] /\ active[j - m] = all[j]
      BY <1>2, <1>3, <1>4, <1>6, <1>8, <2>3, <3>1
    <3>3. i - m \in DOMAIN active /\ j - m \in DOMAIN active
      BY <1>2, <3>1 DEF n
    <3>4. i - m = j - m
      BY <1>1, <1>8, <3>2, <3>3 DEF ListInv
    <3> QED
      BY <1>2, <1>8, <3>4
  <2>4. CASE j > m + n
    <3>1. j = m + n + 1 /\ Len(last) = 1 /\ i \in 1 .. m + n
      <4>1. CASE Len(last) = 0
        BY <1>2, <1>4, <1>8, <2>4, <4>1
      <4>2. CASE Len(last) = 1
        <5>1. i \in Int /\ j \in Int /\ 1 <= i /\ i < j /\ j <= m + n + 1
          BY <1>4, <1>8, <4>2
        <5> QED
          BY <1>2, <2>4, <4>2, <5>1
      <4> QED
        BY <1>6, <4>1, <4>2
    <3>2. all[j] = accepted
      BY <1>4, <1>6, <3>1
    <3>3. all[i] \in ToSet(newAdded) \cup Actives
      <4>1. CASE i <= m
        BY <1>2, <1>3, <1>4, <3>1, <4>1 DEF m, ToSet
      <4>2. CASE i > m
        <5>1. i - m \in 1 .. n /\ m + (i - m) = i
          BY <1>2, <3>1, <4>2
        <5>2. all[i] = active[i - m]
          BY <1>3, <1>4, <3>1, <5>1
        <5> QED
          BY <1>2, <5>1, <5>2 DEF n, ToSet, Actives
      <4> QED
        BY <1>2, <3>1, <4>1, <4>2
    <3> QED
      BY <1>1, <1>8, <3>2, <3>3 DEF ListInv
  <2> QED
    BY <1>2, <1>6, <1>8, <2>1, <2>2, <2>3, <2>4
<1>9. \A i, j \in 1 .. Len(all) : all[i] = all[j] => i = j
  <2> SUFFICES ASSUME NEW i \in 1 .. Len(all), NEW j \in 1 .. Len(all), all[i] = all[j] PROVE i = j
    OBVIOUS
  <2>1. ~(i < j) /\ ~(j < i)
    BY <1>8
  <2> QED
    BY <1>2, <1>4, <1>6, <2>1
<1>10. \A s \in Servers : curState[s] = "CONNECTED" <=> s \in ToSet(all)
  BY <1>1, <1>5, <1>6, NobodyAssumption DEF ListInv
<1>11. /\ newNum = Len(newAdded) /\ activeNum = Len(active)
       /\ \A e \in batch : e.srv # Nobody => e.srv \in Actives
       /\ mgrPc \in {"epoll", "events"} => \A s \in Actives : rec[s].sock # "UNREGISTERED"
  BY <1>1 DEF ListInv, BatchInv
<1> QED
  BY <1>1, <1>9, <1>10, <1>11 DEF ListsAgree, all, a, last

\* However many servers connect, fail and come back, and however the two threads
\* interleave, the states of the servers, the two lists and their counters
\* agree, and no event in hand is for a record that has been freed.
THEOREM ListsAlwaysAgree == Spec => []ListsAgree
BY Invariant, InvariantAgrees, PTL

LEMMA OnlyFailedAreDown ==
  ASSUME IInv, [Next]_vars, NEW s \in Servers, curState[s] # "DOWN", curState'[s] = "DOWN"
  PROVE  link[s] # "up"
<1>1. TypeOK /\ ListInv /\ BatchInv /\ HeartInv
  BY DEF IInv
<1>2. curState' # curState
  OBVIOUS
<1>3. CASE AddNewBlockServer \/ StartRound
  BY <1>2, <1>3 DEF AddNewBlockServer, StartRound
<1>4. CASE \E x \in Servers : Accept(x)
  BY <1>1, <1>4 DEF Accept, TypeOK
<1>5. CASE \E e \in batch : ErrorEvent(e)
  BY <1>1, <1>5 DEF ErrorEvent, ReportFailed, BatchInv, TypeOK
<1>6. CASE ReportSilent
  <2>1. PICK x \in Failed : ReportFailed(x)
    BY <1>6 DEF ReportSilent
  <2>2. x = s
    BY <1>1, <2>1 DEF ReportFailed, TypeOK
  <2>3. rec[s].hb = -1 /\ rec[s].quiet >= MarkAfter
    BY <2>2 DEF Failed
  <2>4. rec[s].quiet # 0
    BY <2>3, IntervalsAssumption
  <2> QED
    BY <1>1, <2>3, <2>4 DEF HeartInv
<1> QED
  BY <1>2, <1>3, <1>4, <1>5, <1>6, ListFrame

\* A server that answers its heartbeats is never reported, whatever load of
\* delete commands is queued before them and whenever its socket is full:
\* recovery starts for servers that have stopped only.
THEOREM NoServerFalselyFailed == Spec => NoFalseFailure
<1>1. IInv /\ [Next]_vars =>
        [\A s \in Servers : curState[s] # "DOWN" /\ curState'[s] = "DOWN" => link[s] # "up"]_vars
  BY OnlyFailedAreDown
<1> QED
  BY <1>1, Invariant, PTL DEF Spec, NoFalseFailure
=============================================================================
