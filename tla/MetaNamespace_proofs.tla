------------------------ MODULE MetaNamespace_proofs ------------------------
(***************************************************************************)
(* The groups, counts and answers of the name service, for any number of   *)
(* clients, names, slots, blocks and commands.                             *)
(*                                                                         *)
(* A job is always in one queue, and a step of a thread takes one job from *)
(* one place to another, where the jobs behind it move up.  The proofs go  *)
(* by places: a step has a map from each place to where its job was before *)
(* (Takes), and what holds of all jobs, or of any two, is carried along it.*)
(*                                                                         *)
(* Of jobs there are three things to know: whose command each is and that  *)
(* no other is of the same one (Tickets), that its slot still is its       *)
(* sender's (Addressed), and that the group it deletes is nobody else's    *)
(* (EachGroupHasOneOwner), so that the answers of the servers find it and  *)
(* its count is theirs (Counts).                                           *)
(***************************************************************************)
EXTENDS MetaNamespace, FiniteSetTheorems, SequenceTheorems, WellFoundedInduction, TLAPS

\* The items jobs name: a deletion that is on its way names a group.
Naming == {job \in Jobs : /\ job.item \in {NoGroup} \cup DOMAIN filled
                          /\ job.kind = "DeleteDone" => job.item # NoGroup}
Deleting == {job \in Jobs : job.item \in DOMAIN filled}

ItemsExist ==
  /\ clientQ \in Seq(Naming) /\ workerQ \in Seq(Naming)
  /\ mgrQ \in Seq(Deleting) /\ inProcess \in Seq(Deleting)

\* A command is named by its session and number.  It is at one place, or it is
\* answered, or it has no answer.
Ticket(job) == <<job.by, job.no>>

Tickets ==
  /\ \A p \in Places : JobAt(p).no <= session[JobAt(p).by].sent
  /\ \A p, q \in Places : p # q => Ticket(JobAt(p)) # Ticket(JobAt(q))
  /\ \A s \in Sessions :
       /\ IsInjective(replies[s])
       /\ \A reply \in ToSet(replies[s]) :
            /\ reply[2] <= session[reply[1]].sent
            /\ \A p \in Places : reply # Ticket(JobAt(p))

Addressed ==
  /\ \A p \in Places : conn[JobAt(p).slot] \in {JobAt(p).by, NoConn}
  /\ \A s \in Sessions : \A reply \in ToSet(replies[s]) : reply[1] = s

\* A job in process counts at least the commands on their way for its group; a
\* failed server may have taken some with it.
Counts ==
  /\ ~crashed
  /\ EachAnswerFindsItsJob
  /\ \A b \in Blocks : IsInjective(deleting[b])
  /\ \A job \in ToSet(inProcess) :
       /\ job.num > 0 /\ job.num >= Cardinality(Unanswered(job.item))
       /\ "deleteLost" \notin mishaps => job.num = Cardinality(Unanswered(job.item))

IInv ==
  /\ TypeOK /\ ItemsExist
  /\ "wrongJob" \notin mishaps => Tickets
  /\ mishaps \cap {"wrongJob", "slotReused"} = {} => Addressed
  /\ JobsIntact => EachGroupHasOneOwner /\ Counts

-----------------------------------------------------------------------------
(* Lemmas about the searches in a queue. *)

LEMMA MinIsLeast ==
  ASSUME NEW I \in SUBSET Nat, I # {}
  PROVE  Min(I) \in I /\ \A i \in I : Min(I) <= i
<1> DEFINE R == {ss \in Nat \X Nat : ss[1] < ss[2]}
<1>1. OpToRel(<, Nat) = R
  BY Zenon DEF OpToRel
<1>2. PICK x \in I : \A y \in I : <<y, x>> \notin R
  BY <1>1, WFMin, NatLessThanWellFounded
<1>3. ASSUME NEW y \in I PROVE x <= y
  <2>1. <<y, x>> \notin R /\ y \in Nat /\ x \in Nat
    BY <1>2
  <2>2. ~(y < x)
    BY <2>1
  <2> QED
    BY <2>1, <2>2
<1> QED
  BY <1>3 DEF Min

LEMMA JobOfIsFirst ==
  ASSUME NEW S, inProcess \in Seq(S), NEW g
  PROVE  IF \E i \in DOMAIN inProcess : inProcess[i].item = g
           THEN JobOf(g) \in DOMAIN inProcess /\ inProcess[JobOf(g)].item = g
           ELSE JobOf(g) = 0
<1> DEFINE I == {i \in 1 .. Len(inProcess) : inProcess[i].item = g}
<1>1. JobOf(g) = IF I # {} THEN Min(I) ELSE 0
  BY DEF JobOf, SelectInSeq
<1>2. I \in SUBSET Nat /\ DOMAIN inProcess = 1 .. Len(inProcess)
  OBVIOUS
<1>3. I # {} => Min(I) \in I
  BY <1>2, MinIsLeast
<1> QED
  BY <1>1, <1>2, <1>3

LEMMA FirstIsFirst ==
  ASSUME NEW S, NEW queue \in Seq(S), NEW job
  PROVE  LET first == FirstOfTheName(queue, job)
         IN IF \E i \in DOMAIN queue : queue[i].file = job.file
              THEN first \in DOMAIN queue
              ELSE first = 0
<1> DEFINE I == {i \in 1 .. Len(queue) : queue[i].file = job.file}
<1>1. FirstOfTheName(queue, job) = IF I # {} THEN Min(I) ELSE 0
  BY DEF FirstOfTheName, SelectInSeq
<1>2. I \in SUBSET Nat /\ DOMAIN queue = 1 .. Len(queue)
  OBVIOUS
<1>3. I # {} => Min(I) \in I
  BY <1>2, MinIsLeast
<1> QED
  BY <1>1, <1>2, <1>3

LEMMA PlaceIsPlace ==
  ASSUME NEW S, NEW queue \in Seq(S), NEW job, \E i \in DOMAIN queue : queue[i] = job
  PROVE  PlaceOf(queue, job) \in DOMAIN queue /\ queue[PlaceOf(queue, job)] = job
<1> DEFINE I == {i \in 1 .. Len(queue) : queue[i] = job}
<1>1. PlaceOf(queue, job) = IF I # {} THEN Min(I) ELSE 0
  BY DEF PlaceOf, SelectInSeq
<1>2. I \in SUBSET Nat /\ DOMAIN queue = 1 .. Len(queue) /\ I # {}
  OBVIOUS
<1>3. Min(I) \in I
  BY <1>2, MinIsLeast
<1> QED
  BY <1>1, <1>2, <1>3

-----------------------------------------------------------------------------
(* Types. *)

LEMMA Elements ==
  ASSUME NEW S, NEW T, NEW queue \in Seq(S), NEW job \in S, S \subseteq T
  PROVE  /\ queue \in Seq(T)
         /\ Append(queue, job) \in Seq(S)
         /\ <<job>> \o queue \in Seq(S)
         /\ queue # <<>> => Head(queue) \in S /\ Tail(queue) \in Seq(S)
         /\ ToSet(queue) \subseteq S
<1>1. <<job>> \in Seq(S)
  OBVIOUS
<1> QED
  BY <1>1, SeqMonotonic, HeadTailProperties, AppendProperties, ConcatProperties DEF ToSet

\* What happens to a job leaves it a job.
LEMMA JobNames ==
  ASSUME NEW job \in Jobs
  PROVE  /\ \A g \in Nat : [job EXCEPT !.item = g] \in Jobs
         /\ \A n \in Int : [job EXCEPT !.num = n] \in Jobs
         /\ [job EXCEPT !.ok = TRUE] \in Jobs
         /\ [job EXCEPT !.kind = "DeleteDone"] \in Jobs
BY DEF Jobs, Kinds

LEMMA NamesStay ==
  ASSUME TypeOK, ItemsExist, filled' \in Seq(SUBSET Blocks), Len(filled) <= Len(filled')
  PROVE  /\ Naming \subseteq Naming' /\ Deleting \subseteq Deleting'
         /\ clientQ \in Seq(Naming') /\ workerQ \in Seq(Naming')
         /\ mgrQ \in Seq(Deleting') /\ inProcess \in Seq(Deleting')
         /\ Deleting' \subseteq Naming'
<1>1. DOMAIN filled = 1 .. Len(filled) /\ DOMAIN filled' = 1 .. Len(filled')
  BY DEF TypeOK
<1>2. DOMAIN filled \subseteq DOMAIN filled'
  BY <1>1 DEF TypeOK
<1>3. Naming \subseteq Naming' /\ Deleting \subseteq Deleting'
  BY <1>2 DEF Naming, Deleting, Jobs
<1>4. Deleting' \subseteq Naming'
  BY <1>1 DEF Naming, Deleting, Jobs, NoGroup
<1> QED
  BY <1>3, <1>4, SeqMonotonic DEF ItemsExist

LEMMA QueuesTyped ==
  ASSUME ItemsExist
  PROVE  {clientQ, workerQ, mgrQ, inProcess} \subseteq Seq(Jobs)
<1>1. Naming \subseteq Jobs /\ Deleting \subseteq Jobs
  BY DEF Naming, Deleting
<1> QED
  BY <1>1, SeqMonotonic DEF ItemsExist

LEMMA RemovalTyped ==
  ASSUME NEW S, NEW queue \in Seq(S), NEW job, \E i \in DOMAIN queue : queue[i] = job
  PROVE  RemoveTheJobFromQueue(queue, job) \in Seq(S)
<1> DEFINE first == FirstOfTheName(queue, job)
           at == PlaceOf(queue, job)
<1>1. first \in 1 .. Len(queue) /\ at \in 1 .. Len(queue)
  BY FirstIsFirst, PlaceIsPlace
<1> HIDE DEF first, at
<1>2. RemoveTheJobFromQueue(queue, job) =
        IF first = 1 THEN Tail(queue)
        ELSE SubSeq(queue, 1, first - 1) \o SubSeq(queue, at + 1, Len(queue))
  BY DEF RemoveTheJobFromQueue, first, at
<1>3. queue # <<>>
  BY <1>1
<1>4. SubSeq(queue, 1, first - 1) \in Seq(S)
  BY <1>1, SubSeqProperties
<1>5. SubSeq(queue, at + 1, Len(queue)) \in Seq(S)
  BY <1>1, SubSeqProperties
<1> QED
  BY <1>2, <1>3, <1>4, <1>5, HeadTailProperties, ConcatProperties

LEMMA InitTyped == Init => TypeOK /\ ItemsExist
<1> SUFFICES ASSUME Init PROVE TypeOK /\ ItemsExist
  OBVIOUS
<1>1. ItemsExist
  BY DEF Init, ItemsExist
<1>2. \A S : <<>> \in Seq(S)
  OBVIOUS
<1>3. [s \in Sessions |-> [state |-> "new", sent |-> 0, waiting |-> {}, opened |-> {}]]
        \in [Sessions -> [state : {"new", "open", "closed"}, sent : Nat,
             waiting : SUBSET [no : Nat, kind : Kinds, file : Files], opened : SUBSET Files]]
  OBVIOUS
<1> QED
  BY <1>1, <1>2, <1>3, QueuesTyped DEF Init, TypeOK, Mishaps

\* Of the worker's jobs that have a group, and of their ways.
LEMMA WorkerTyped ==
  ASSUME TypeOK, ItemsExist, NEW kind, WorkerTakes(kind),
         filled' \in Seq(SUBSET Blocks), Len(filled) <= Len(filled')
  PROVE  /\ Head(workerQ) \in Naming /\ Head(workerQ) \in Naming'
         /\ Head(workerQ) \in Jobs /\ Head(workerQ).kind = kind
         /\ workerQ' \in Seq(Naming')
<1>1. workerQ \in Seq(Naming) /\ workerQ # <<>>
  BY DEF ItemsExist, WorkerTakes
<1>2. Head(workerQ) \in Naming /\ Tail(workerQ) \in Seq(Naming)
  BY <1>1, HeadTailProperties
<1> QED
  BY <1>2, NamesStay, SeqMonotonic DEF WorkerTakes, Naming

LEMMA Answered ==
  ASSUME TypeOK, ItemsExist, NEW job \in Naming', Answer(job),
         filled' \in Seq(SUBSET Blocks), Len(filled) <= Len(filled')
  PROVE  clientQ' \in Seq(Naming')
BY NamesStay, AppendProperties DEF Answer

Cmds == [no : Nat, kind : Kinds, file : Files]

SessionRec ==
  [state : {"new", "open", "closed"}, sent : Nat, waiting : SUBSET Cmds, opened : SUBSET Files]

LEMMA SessionFields ==
  ASSUME NEW x \in SessionRec
  PROVE  /\ \A v \in {"new", "open", "closed"} : [x EXCEPT !.state = v] \in SessionRec
         /\ \A n \in Nat, w \in SUBSET Cmds, o \in SUBSET Files :
              /\ [x EXCEPT !.sent = n, !.waiting = w, !.opened = o] \in SessionRec
              /\ [x EXCEPT !.waiting = w, !.opened = o] \in SessionRec
BY DEF SessionRec

LEMMA BlocksFinite ==
  ASSUME NEW B, B \subseteq Blocks
  PROVE  IsFiniteSet(B) /\ Cardinality(B) \in Nat
<1>1. StripeK + StripeM - 1 \in Int
  BY StripeAssumption
<1>2. IsFiniteSet(Blocks)
  BY <1>1, FS_Interval DEF Blocks
<1> QED
  BY <1>2, FS_Subset, FS_CardinalityType

\* A job that has been through the servers goes back as what it is.
LEMMA ReturnTyped ==
  ASSUME TypeOK, ItemsExist, NEW job \in Deleting, ReturnToWorker(job)
  PROVE  workerQ' \in Seq(Naming)
<1>1. job \in Jobs /\ job.item # NoGroup /\ job.item \in DOMAIN filled
  BY DEF Deleting, NoGroup, TypeOK
<1>2. [job EXCEPT !.kind = "DeleteDone"] \in Naming
  BY <1>1, JobNames DEF Naming, Jobs
<1> QED
  BY <1>2, AppendProperties DEF ReturnToWorker, ItemsExist

\* The step of reportBlockDeletion that finds its job.
LEMMA ReportFinds ==
  ASSUME TypeOK, ItemsExist, NEW b \in Blocks, ReportBlockDeletion(b),
         JobOf(Head(deleting[b])) # 0
  PROVE  LET g == Head(deleting[b])
             pos == JobOf(g)
             job == [inProcess[pos] EXCEPT !.num = @ - 1]
             queue == [inProcess EXCEPT ![pos] = job]
         IN /\ g \in DOMAIN filled /\ pos \in DOMAIN inProcess /\ inProcess[pos].item = g
            /\ inProcess[pos] \in Deleting /\ job \in Deleting /\ job.num = inProcess[pos].num - 1
            /\ queue \in Seq(Deleting) /\ Len(queue) = Len(inProcess)
            /\ \A i \in DOMAIN inProcess : queue[i] = IF i = pos THEN job ELSE inProcess[i]
            /\ \/ /\ job.num = 0 /\ inProcess' = RemoveTheJobFromQueue(queue, job)
                  /\ ReturnToWorker(job)
                  /\ mishaps' = mishaps \cup {m \in {"wrongJob"} : FirstOfTheName(queue, job) # pos}
               \/ job.num # 0 /\ inProcess' = queue /\ UNCHANGED <<workerQ, mishaps>>
            /\ crashed' = crashed
<1> DEFINE g == Head(deleting[b])
           pos == JobOf(g)
           job == [inProcess[pos] EXCEPT !.num = @ - 1]
           queue == [inProcess EXCEPT ![pos] = job]
<1>1. g \in DOMAIN filled
  BY HeadTailProperties DEF ReportBlockDeletion, TypeOK
<1>2. inProcess \in Seq(Deleting) /\ pos # 0
  BY DEF ItemsExist
<1>3. pos \in DOMAIN inProcess /\ inProcess[pos].item = g
  BY <1>2, JobOfIsFirst
<1>4. inProcess[pos] \in Deleting
  BY <1>2, <1>3, ElementOfSeq
<1>5. inProcess[pos].num - 1 \in Int /\ inProcess[pos] \in Jobs
  BY <1>4 DEF Deleting, Jobs
<1>6. job \in Deleting /\ job.num = inProcess[pos].num - 1
  BY <1>4, <1>5 DEF Deleting, Jobs
<1>7. /\ \/ /\ job.num = 0 /\ inProcess' = RemoveTheJobFromQueue(queue, job)
            /\ ReturnToWorker(job)
            /\ mishaps' = mishaps \cup {m \in {"wrongJob"} : FirstOfTheName(queue, job) # pos}
         \/ job.num # 0 /\ inProcess' = queue /\ UNCHANGED <<workerQ, mishaps>>
      /\ crashed' = crashed
  BY <1>2 DEF ReportBlockDeletion
<1> HIDE DEF pos, job
<1>8. /\ queue \in Seq(Deleting) /\ Len(queue) = Len(inProcess)
      /\ \A i \in DOMAIN inProcess : queue[i] = IF i = pos THEN job ELSE inProcess[i]
  BY <1>2, <1>3, <1>6, ExceptSeq, LenProperties
<1> QED
  BY <1>1, <1>3, <1>4, <1>6, <1>7, <1>8 DEF pos, job

LEMMA TypesKept ==
  ASSUME TypeOK, ItemsExist, Next
  PROVE  TypeOK' /\ ItemsExist'
<1>0. ItemsExist' => {clientQ', workerQ', mgrQ', inProcess'} \subseteq Seq(Jobs)
  <2>1. Naming' \subseteq Jobs /\ Deleting' \subseteq Jobs
    BY DEF Naming, Deleting
  <2> QED
    BY <2>1, SeqMonotonic DEF ItemsExist
<1>s. session \in [Sessions -> SessionRec] /\ \A s \in Sessions : session[s] \in SessionRec
  BY DEF TypeOK, SessionRec, Cmds
<1>q. ASSUME filled' = filled
      PROVE  /\ clientQ \in Seq(Naming') /\ workerQ \in Seq(Naming')
             /\ mgrQ \in Seq(Deleting') /\ inProcess \in Seq(Deleting')
             /\ Deleting' \subseteq Naming'
             /\ filled' \in Seq(SUBSET Blocks) /\ Len(filled) <= Len(filled')
             /\ Naming' = Naming /\ Deleting' = Deleting
  BY <1>q, NamesStay DEF TypeOK, Naming, Deleting
<1>1. ASSUME NEW s \in Sessions, ThreadMonitorNewConnection(s) PROVE TypeOK' /\ ItemsExist'
  <2>1. ItemsExist'
    BY <1>1, <1>q DEF ThreadMonitorNewConnection, ItemsExist, nameVars, mgrVars
  <2>2. conn' \in [Slots -> Sessions \cup {NoConn}]
    BY <1>1 DEF ThreadMonitorNewConnection, TypeOK
  <2>3. session' \in [Sessions -> SessionRec]
    <3>1. [session[s] EXCEPT !.state = "open"] \in SessionRec
      BY <1>s, SessionFields
    <3> QED
      BY <1>1, <1>s, <3>1 DEF ThreadMonitorNewConnection
  <2>4. mishaps' \subseteq Mishaps
    BY <1>1 DEF ThreadMonitorNewConnection, TypeOK, Mishaps
  <2> QED
    BY <1>0, <1>1, <2>1, <2>2, <2>3, <2>4
    DEF ThreadMonitorNewConnection, TypeOK, SessionRec, Cmds, nameVars, mgrVars
<1>2. ASSUME NEW i \in Slots, RemoveConnection(i) PROVE TypeOK' /\ ItemsExist'
  <2>1. ItemsExist'
    BY <1>2, <1>q DEF RemoveConnection, ItemsExist, nameVars, mgrVars
  <2>2. conn' \in [Slots -> Sessions \cup {NoConn}]
    BY <1>2 DEF RemoveConnection, TypeOK
  <2>3. session' \in [Sessions -> SessionRec]
    <3>1. conn[i] \in Sessions
      BY <1>2 DEF RemoveConnection, TypeOK
    <3>2. [session[conn[i]] EXCEPT !.state = "closed"] \in SessionRec
      BY <1>s, <3>1, SessionFields
    <3> QED
      BY <1>2, <1>s, <3>1, <3>2 DEF RemoveConnection
  <2> QED
    BY <1>0, <1>2, <2>1, <2>2, <2>3 DEF RemoveConnection, TypeOK, SessionRec, Cmds, nameVars, mgrVars
<1>3. ASSUME NEW i \in Slots, NEW kind \in Kinds, NEW f \in Files, ProcessRecvdCmd(i, kind, f)
      PROVE  TypeOK' /\ ItemsExist'
  <2> DEFINE s == conn[i]
             no == session[s].sent + 1
             job == [by |-> s, no |-> no, kind |-> kind, file |-> f, slot |-> i,
                     item |-> NoGroup, num |-> 0, ok |-> FALSE]
  <2>1. s \in Sessions /\ no \in Nat /\ kind # "DeleteDone"
    BY <1>3 DEF ProcessRecvdCmd, TypeOK, MaySend
  <2>2. job \in Naming'
    BY <2>1 DEF Naming, Jobs, NoGroup
  <2>3. ItemsExist'
    BY <1>3, <1>q, <2>2, AppendProperties DEF ProcessRecvdCmd, ItemsExist, nameVars, mgrVars
  <2>4. session' \in [Sessions -> SessionRec]
    <3> DEFINE waiting == IF kind = "WriteOver" THEN session[s].waiting
                          ELSE session[s].waiting \cup {[no |-> no, kind |-> kind, file |-> f]}
               opened == IF kind \in {"WriteOver", "Delete"} THEN session[s].opened \ {f}
                         ELSE session[s].opened
    <3>1. session[s] \in SessionRec
      BY <1>s, <2>1
    <3>2. waiting \in SUBSET Cmds /\ opened \in SUBSET Files
      BY <2>1, <3>1 DEF SessionRec, Cmds
    <3>3. session' = [session EXCEPT ![s].sent = no, ![s].waiting = waiting, ![s].opened = opened]
      BY <1>3 DEF ProcessRecvdCmd
    <3> HIDE DEF waiting, opened, no
    <3>4. [session[s] EXCEPT !.sent = no, !.waiting = waiting, !.opened = opened] \in SessionRec
      BY <2>1, <3>1, <3>2, SessionFields
    <3> QED
      BY <1>s, <2>1, <3>3, <3>4
  <2> QED
    BY <1>0, <1>3, <2>3, <2>4 DEF ProcessRecvdCmd, TypeOK, SessionRec, Cmds, nameVars, mgrVars
<1>4. ASSUME StartWriteJob PROVE TypeOK' /\ ItemsExist'
  <2> DEFINE job == Head(clientQ)
             s == conn[job.slot]
  <2>1. job \in Naming /\ Tail(clientQ) \in Seq(Naming)
    BY <1>4, HeadTailProperties DEF StartWriteJob, ItemsExist
  <2>2. ItemsExist'
    BY <1>4, <1>q, <2>1 DEF StartWriteJob, ItemsExist, nameVars, mgrVars
  <2>3. leftItems' \subseteq DOMAIN filled'
    BY <1>4, <2>1 DEF StartWriteJob, TypeOK, Naming, nameVars
  <2>4. job \in Jobs
    BY <2>1 DEF Naming
  <2>5. replies' \in [Sessions -> Seq(Sessions \X Nat)]
    <3>1. CASE s = NoConn \/ job.kind = "WriteOver"
      BY <1>4, <3>1 DEF StartWriteJob, Recipient, TypeOK
    <3>2. CASE ~(s = NoConn \/ job.kind = "WriteOver")
      <4>1. s \in Sessions
        BY <2>4, <3>2 DEF TypeOK, Jobs
      <4>2. replies' = [replies EXCEPT ![s] = Append(@, <<job.by, job.no>>)]
        BY <1>4, <3>2 DEF StartWriteJob, Recipient
      <4>3. <<job.by, job.no>> \in Sessions \X Nat
        BY <2>4 DEF Jobs
      <4> QED
        BY <4>1, <4>2, <4>3, AppendProperties DEF TypeOK
    <3> QED
      BY <3>1, <3>2
  <2>6. session' \in [Sessions -> SessionRec]
    <3>1. CASE s = NoConn \/ job.kind = "WriteOver"
      BY <1>4, <1>s, <3>1 DEF StartWriteJob, Recipient
    <3>2. CASE ~(s = NoConn \/ job.kind = "WriteOver")
      <4>1. s \in Sessions /\ job.file \in Files
        BY <2>4, <3>2 DEF TypeOK, Jobs
      <4> DEFINE waiting == {cmd \in session[s].waiting : cmd.no # job.no}
                 opened == IF job.ok THEN session[s].opened \cup {job.file} ELSE session[s].opened
      <4>2. session' = [session EXCEPT ![s].waiting = waiting, ![s].opened = opened]
        BY <1>4, <3>2 DEF StartWriteJob, Recipient
      <4>3. session[s] \in SessionRec
        BY <1>s, <4>1
      <4>4. waiting \in SUBSET Cmds /\ opened \in SUBSET Files
        BY <4>1, <4>3 DEF SessionRec
      <4> HIDE DEF waiting, opened
      <4>5. [session[s] EXCEPT !.waiting = waiting, !.opened = opened] \in SessionRec
        BY <4>3, <4>4, SessionFields
      <4> QED
        BY <1>s, <4>1, <4>2, <4>5
    <3> QED
      BY <3>1, <3>2
  <2> QED
    BY <1>0, <1>4, <2>2, <2>3, <2>5, <2>6 DEF StartWriteJob, TypeOK, SessionRec, Cmds, nameVars, mgrVars
<1>5. ASSUME PerformCreateJob PROVE TypeOK' /\ ItemsExist'
  <2> DEFINE job == Head(workerQ)
  <2>1. WorkerTakes("Create")
    BY <1>5 DEF PerformCreateJob
  <2>2. CASE groupOf[job.file] # NoGroup
    <3>1. Answer(job) /\ UNCHANGED nameVars
      BY <1>5, <2>2 DEF PerformCreateJob
    <3>2. filled' = filled
      BY <3>1 DEF nameVars
    <3>3. job \in Naming' /\ workerQ' \in Seq(Naming')
      BY <1>q, <2>1, <3>2, WorkerTyped
    <3>4. clientQ' \in Seq(Naming')
      BY <1>q, <3>1, <3>2, <3>3, Answered
    <3>5. ItemsExist'
      BY <1>5, <1>q, <3>2, <3>3, <3>4 DEF PerformCreateJob, ItemsExist, mgrVars
    <3> QED
      BY <1>0, <1>5, <3>1, <3>5 DEF PerformCreateJob, TypeOK, clientVars, nameVars, mgrVars
  <2>3. CASE groupOf[job.file] = NoGroup /\ freeGroups # <<>>
    <3>1. /\ Answer([job EXCEPT !.ok = TRUE])
          /\ groupOf' = [groupOf EXCEPT ![job.file] = Head(freeGroups)]
          /\ freeGroups' = Tail(freeGroups) /\ filled' = filled
      BY <1>5, <2>3 DEF PerformCreateJob
    <3>2. job \in Naming /\ workerQ' \in Seq(Naming') /\ job.kind = "Create" /\ job \in Jobs
      BY <1>q, <2>1, <3>1, WorkerTyped
    <3>3. [job EXCEPT !.ok = TRUE] \in Naming'
      BY <1>q, <3>1, <3>2, JobNames DEF Naming, Jobs
    <3>4. clientQ' \in Seq(Naming')
      BY <1>q, <3>1, <3>3, Answered
    <3>5. ItemsExist'
      BY <1>5, <1>q, <3>1, <3>2, <3>4 DEF PerformCreateJob, ItemsExist, mgrVars
    <3>6. Head(freeGroups) \in DOMAIN filled /\ freeGroups' \in Seq(DOMAIN filled)
      BY <2>3, <3>1, HeadTailProperties DEF TypeOK
    <3>7. groupOf' \in [Files -> {NoGroup} \cup DOMAIN filled]
      BY <3>1, <3>6 DEF TypeOK
    <3> QED
      BY <1>0, <1>5, <3>1, <3>5, <3>6, <3>7 DEF PerformCreateJob, TypeOK, clientVars, mgrVars
  <2>4. CASE groupOf[job.file] = NoGroup /\ freeGroups = <<>>
    <3>1. /\ Answer([job EXCEPT !.ok = TRUE])
          /\ groupOf' = [groupOf EXCEPT ![job.file] = NewGroup]
          /\ filled' = Append(filled, {}) /\ freeGroups' = freeGroups
      BY <1>5, <2>4 DEF PerformCreateJob
    <3>2. filled' \in Seq(SUBSET Blocks) /\ Len(filled') = Len(filled) + 1 /\ Len(filled) \in Nat
      BY <3>1 DEF TypeOK
    <3>3. DOMAIN filled' = DOMAIN filled \cup {NewGroup} /\ DOMAIN filled \subseteq Nat
      BY <3>2 DEF NewGroup, TypeOK
    <3>4. job \in Naming /\ workerQ' \in Seq(Naming') /\ job.kind = "Create" /\ job \in Jobs
      BY <2>1, <3>2, WorkerTyped
    <3>5. [job EXCEPT !.ok = TRUE] \in Naming'
      BY <3>3, <3>4, JobNames DEF Naming, Jobs
    <3>6. clientQ' \in Seq(Naming')
      BY <3>1, <3>2, <3>5, Answered
    <3>7. ItemsExist'
      <4>1. mgrQ \in Seq(Deleting') /\ inProcess \in Seq(Deleting')
        BY <3>2, NamesStay
      <4> QED
        BY <1>5, <3>4, <3>6, <4>1 DEF PerformCreateJob, ItemsExist, mgrVars
    <3>8. groupOf' \in [Files -> {NoGroup} \cup DOMAIN filled']
      BY <3>1, <3>3 DEF TypeOK
    <3>9. /\ freeGroups \in Seq(DOMAIN filled') /\ leftItems \subseteq DOMAIN filled'
          /\ deleting \in [Blocks -> Seq(DOMAIN filled')]
      BY <3>3, SeqMonotonic DEF TypeOK
    <3> QED
      BY <1>0, <1>5, <3>1, <3>2, <3>7, <3>8, <3>9 DEF PerformCreateJob, TypeOK, clientVars, mgrVars
  <2> QED
    BY <2>2, <2>3, <2>4
<1>6. ASSUME PerformOpenJob PROVE TypeOK' /\ ItemsExist'
  <2> DEFINE job == Head(workerQ)
             found == groupOf[job.file] # NoGroup
  <2>1. WorkerTakes("Open") /\ Answer([job EXCEPT !.ok = found]) /\ filled' = filled
    BY <1>6 DEF PerformOpenJob, nameVars
  <2>2. job \in Naming /\ workerQ' \in Seq(Naming') /\ job.kind = "Open" /\ found \in BOOLEAN
    BY <1>q, <2>1, WorkerTyped
  <2>3. [job EXCEPT !.ok = found] \in Naming'
    <3> HIDE DEF found
    <3> QED
      BY <1>q, <2>1, <2>2 DEF Naming, Jobs
  <2>4. clientQ' \in Seq(Naming')
    BY <1>q, <2>1, <2>3, Answered
  <2>5. ItemsExist'
    BY <1>6, <1>q, <2>1, <2>2, <2>4 DEF PerformOpenJob, ItemsExist, mgrVars
  <2> QED
    BY <1>0, <1>6, <2>5 DEF PerformOpenJob, TypeOK, clientVars, nameVars, mgrVars
<1>7. ASSUME PerformWriteOverJob PROVE TypeOK' /\ ItemsExist'
  <2> DEFINE job == Head(workerQ)
             g == groupOf[job.file]
  <2>0. WorkerTakes("WriteOver") /\ Answer(job)
    BY <1>7 DEF PerformWriteOverJob
  <2>1. job \in Jobs
    BY <2>0, HeadTailProperties DEF WorkerTakes, ItemsExist, Naming
  <2>2. g \in {NoGroup} \cup DOMAIN filled
    BY <2>1 DEF TypeOK, Jobs
  <2>3. filled' \in Seq(SUBSET Blocks) /\ Len(filled') = Len(filled) /\ DOMAIN filled' = DOMAIN filled
    <3>1. CASE g = NoGroup
      BY <1>7, <3>1 DEF PerformWriteOverJob, TypeOK
    <3>2. CASE g # NoGroup
      <4>1. PICK k \in 1 .. StripeK :
              filled' = [filled EXCEPT ![g] = @ \cup {b \in Blocks : b < k \/ b >= StripeK}]
        BY <1>7, <3>2 DEF PerformWriteOverJob
      <4>2. filled \in Seq(SUBSET Blocks) /\ g \in 1 .. Len(filled)
        BY <2>2, <3>2 DEF TypeOK
      <4>3. filled[g] \cup {b \in Blocks : b < k \/ b >= StripeK} \in SUBSET Blocks
        BY <4>2, ElementOfSeq
      <4> QED
        BY <4>1, <4>2, <4>3, ExceptSeq, LenProperties
    <3> QED
      BY <3>1, <3>2
  <2>4. Len(filled) <= Len(filled')
    BY <2>3 DEF TypeOK
  <2>5. job \in Naming' /\ workerQ' \in Seq(Naming')
    BY <2>0, <2>3, <2>4, WorkerTyped
  <2>6. clientQ' \in Seq(Naming')
    BY <2>0, <2>3, <2>4, <2>5, Answered
  <2>7. mgrQ \in Seq(Deleting') /\ inProcess \in Seq(Deleting')
    BY <2>3, <2>4, NamesStay
  <2>8. ItemsExist'
    BY <1>7, <2>5, <2>6, <2>7 DEF PerformWriteOverJob, ItemsExist, mgrVars
  <2> QED
    BY <1>0, <1>7, <2>3, <2>8 DEF PerformWriteOverJob, TypeOK, clientVars, mgrVars
<1>8. ASSUME PerformDeleteJob PROVE TypeOK' /\ ItemsExist'
  <2> DEFINE job == Head(workerQ)
  <2>1. WorkerTakes("Delete") /\ filled' = filled
    BY <1>8 DEF PerformDeleteJob
  <2>2. job \in Naming /\ job \in Naming' /\ workerQ' \in Seq(Naming') /\ job \in Jobs
    BY <1>q, <2>1, WorkerTyped
  <2>3. PICK item \in IF groupOf[job.file] # NoGroup THEN {groupOf[job.file]}
                                                   ELSE {NoGroup} \cup leftItems :
          /\ groupOf' = [groupOf EXCEPT ![job.file] = NoGroup]
          /\ IF item = NoGroup
               THEN Answer(job) /\ UNCHANGED mgrQ
               ELSE mgrQ' = Append(mgrQ, [job EXCEPT !.item = item]) /\ UNCHANGED clientQ
          /\ mishaps' = mishaps \cup {m \in {"wildItem"} : item # groupOf[job.file]}
    BY <1>8 DEF PerformDeleteJob
  <2>4. item \in {NoGroup} \cup DOMAIN filled /\ DOMAIN filled \subseteq Nat
    <3>1. job.file \in Files
      BY <2>2 DEF Jobs
    <3>2. groupOf[job.file] \in {NoGroup} \cup DOMAIN filled /\ leftItems \subseteq DOMAIN filled
      BY <3>1 DEF TypeOK
    <3>3. DOMAIN filled \subseteq Nat
      BY DEF TypeOK
    <3> QED
      BY <2>3, <3>2, <3>3
  <2>5. clientQ' \in Seq(Naming') /\ mgrQ' \in Seq(Deleting')
    <3>1. CASE item = NoGroup
      BY <1>q, <2>1, <2>2, <2>3, <3>1, Answered
    <3>2. CASE item # NoGroup
      <4>1. [job EXCEPT !.item = item] \in Deleting'
        BY <2>1, <2>2, <2>4, <3>2, JobNames DEF Deleting, Jobs
      <4>2. mgrQ' = Append(mgrQ, [job EXCEPT !.item = item]) /\ clientQ' = clientQ
        BY <2>3, <3>2
      <4>3. clientQ \in Seq(Naming') /\ mgrQ \in Seq(Deleting')
        BY <1>q, <2>1
      <4> QED
        BY <4>1, <4>2, <4>3, AppendProperties
    <3> QED
      BY <3>1, <3>2
  <2>6. ItemsExist'
    BY <1>8, <1>q, <2>1, <2>2, <2>5 DEF PerformDeleteJob, ItemsExist
  <2>7. groupOf' \in [Files -> {NoGroup} \cup DOMAIN filled]
    BY <2>3 DEF TypeOK
  <2>8. mishaps' \subseteq Mishaps
    BY <2>3 DEF TypeOK, Mishaps
  <2> QED
    BY <1>0, <1>8, <2>6, <2>7, <2>8 DEF PerformDeleteJob, TypeOK, clientVars
<1>9. ASSUME PerformDeleteDoneJob PROVE TypeOK' /\ ItemsExist'
  <2> DEFINE job == Head(workerQ)
  <2>1. WorkerTakes("DeleteDone") /\ Answer(job) /\ filled' = filled
    BY <1>9 DEF PerformDeleteDoneJob
  <2>2. job \in Naming /\ job \in Naming' /\ workerQ' \in Seq(Naming') /\ job.kind = "DeleteDone"
    BY <1>q, <2>1, WorkerTyped
  <2>3. clientQ' \in Seq(Naming')
    BY <1>q, <2>1, <2>2, Answered
  <2>4. ItemsExist'
    BY <1>9, <1>q, <2>1, <2>2, <2>3 DEF PerformDeleteDoneJob, ItemsExist, mgrVars
  <2>5. job.item \in DOMAIN filled
    BY <2>2 DEF Naming
  <2>6. freeGroups' \in Seq(DOMAIN filled)
    BY <1>9, <2>5, ConcatProperties DEF PerformDeleteDoneJob, TypeOK
  <2> QED
    BY <1>0, <1>9, <2>4, <2>6 DEF PerformDeleteDoneJob, TypeOK, clientVars, mgrVars
<1>10. ASSUME PerformDeleteBlocksJob PROVE TypeOK' /\ ItemsExist'
  <2> DEFINE job == Head(mgrQ)
             n == NumToDelete(job.item)
  <2>1. job \in Deleting /\ Tail(mgrQ) \in Seq(Deleting) /\ mgrQ' = Tail(mgrQ) /\ filled' = filled
    BY <1>10, HeadTailProperties DEF PerformDeleteBlocksJob, ItemsExist, nameVars
  <2>2. job.item \in DOMAIN filled /\ job \in Jobs
    BY <2>1 DEF Deleting
  <2>3. n \in Nat
    <3>1. BlocksToDelete(job.item) \subseteq Blocks
      BY DEF BlocksToDelete, TypeOK
    <3> QED
      BY <3>1, BlocksFinite DEF NumToDelete
  <2>4. deleting' \in [Blocks -> Seq(DOMAIN filled)]
    <3>1. deleting' = [b \in Blocks |-> IF b \in BlocksToDelete(job.item)
                                          THEN Append(deleting[b], job.item) ELSE deleting[b]]
      BY <1>10 DEF PerformDeleteBlocksJob
    <3>2. \A b \in Blocks : /\ deleting[b] \in Seq(DOMAIN filled)
                            /\ Append(deleting[b], job.item) \in Seq(DOMAIN filled)
      BY <2>2, AppendProperties DEF TypeOK
    <3> QED
      BY <3>1, <3>2
  <2>5. inProcess' \in Seq(Deleting) /\ workerQ' \in Seq(Naming)
    <3>1. CASE n > 0
      <4>1. inProcess' = <<[job EXCEPT !.num = n]>> \o inProcess /\ workerQ' = workerQ
        BY <1>10, <3>1 DEF PerformDeleteBlocksJob
      <4> HIDE DEF n
      <4>2. [job EXCEPT !.num = n] \in Deleting
        <5>1. n \in Int
          BY <2>3
        <5> QED
          BY <2>1, <2>2, <5>1, JobNames DEF Deleting, Jobs
      <4> QED
        BY <4>1, <4>2, ConcatProperties DEF ItemsExist
    <3>2. CASE ~(n > 0)
      <4>1. ReturnToWorker(job) /\ inProcess' = inProcess
        BY <1>10, <3>2 DEF PerformDeleteBlocksJob
      <4> QED
        BY <2>1, <4>1, ReturnTyped DEF ItemsExist
    <3> QED
      BY <3>1, <3>2
  <2>6. ItemsExist'
    BY <1>10, <1>q, <2>1, <2>5 DEF PerformDeleteBlocksJob, ItemsExist
  <2> QED
    BY <1>0, <1>10, <2>4, <2>6 DEF PerformDeleteBlocksJob, TypeOK, clientVars, nameVars
<1>11. ASSUME NEW b \in Blocks, ReportBlockDeletion(b) PROVE TypeOK' /\ ItemsExist'
  <2>1. deleting' \in [Blocks -> Seq(DOMAIN filled)]
    <3>1. deleting[b] \in Seq(DOMAIN filled) /\ deleting[b] # <<>>
      BY <1>11 DEF ReportBlockDeletion, TypeOK
    <3>2. Tail(deleting[b]) \in Seq(DOMAIN filled)
      BY <3>1, HeadTailProperties
    <3>3. deleting' = [deleting EXCEPT ![b] = Tail(@)]
      BY <1>11 DEF ReportBlockDeletion
    <3> QED
      BY <3>2, <3>3 DEF TypeOK
  <2>2. filled' = filled
    BY <1>11 DEF ReportBlockDeletion, nameVars
  <2>3. CASE JobOf(Head(deleting[b])) = 0
    <3>1. crashed' = TRUE /\ UNCHANGED <<inProcess, workerQ, mishaps>>
      BY <1>11, <2>3 DEF ReportBlockDeletion
    <3>2. ItemsExist'
      BY <1>11, <1>q, <2>2, <3>1 DEF ReportBlockDeletion, ItemsExist
    <3> QED
      BY <1>0, <1>11, <2>1, <3>1, <3>2 DEF ReportBlockDeletion, TypeOK, clientVars, nameVars
  <2>4. CASE JobOf(Head(deleting[b])) # 0
    <3> DEFINE pos == JobOf(Head(deleting[b]))
               job == [inProcess[pos] EXCEPT !.num = @ - 1]
               queue == [inProcess EXCEPT ![pos] = job]
    <3>1. /\ job \in Deleting /\ queue \in Seq(Deleting) /\ pos \in DOMAIN queue /\ queue[pos] = job
          /\ \/ /\ inProcess' = RemoveTheJobFromQueue(queue, job) /\ ReturnToWorker(job)
                /\ mishaps' = mishaps \cup {m \in {"wrongJob"} : FirstOfTheName(queue, job) # pos}
             \/ inProcess' = queue /\ UNCHANGED <<workerQ, mishaps>>
          /\ crashed' = crashed
      BY <1>11, <2>4, ReportFinds
    <3> HIDE DEF pos, job, queue
    <3>2. inProcess' \in Seq(Deleting) /\ workerQ' \in Seq(Naming)
      BY <3>1, RemovalTyped, ReturnTyped DEF ItemsExist
    <3>3. mishaps' \subseteq Mishaps
      BY <3>1 DEF TypeOK, Mishaps
    <3>4. ItemsExist'
      BY <1>11, <1>q, <2>2, <3>2 DEF ReportBlockDeletion, ItemsExist
    <3> QED
      BY <1>0, <1>11, <2>1, <3>1, <3>3, <3>4 DEF ReportBlockDeletion, TypeOK, clientVars, nameVars
  <2> QED
    BY <2>3, <2>4
<1>12. ASSUME NEW b \in Blocks, ReportFailedBlockServer(b) PROVE TypeOK' /\ ItemsExist'
  <2>1. ItemsExist'
    BY <1>12, <1>q DEF ReportFailedBlockServer, ItemsExist, nameVars
  <2>2. deleting' \in [Blocks -> Seq(DOMAIN filled)] /\ active' \subseteq Blocks
    BY <1>12 DEF ReportFailedBlockServer, TypeOK
  <2>3. mishaps' \subseteq Mishaps
    BY <1>12 DEF ReportFailedBlockServer, TypeOK, Mishaps
  <2> QED
    BY <1>0, <1>12, <2>1, <2>2, <2>3 DEF ReportFailedBlockServer, TypeOK, clientVars, nameVars
<1> QED
  BY <1>1, <1>2, <1>3, <1>4, <1>5, <1>6, <1>7, <1>8, <1>9, <1>10, <1>11, <1>12
  DEF Next, Clients, Threads, Worker, BlockMgr

-----------------------------------------------------------------------------
(* Jobs on the move.  A step takes one job from one place to another and shifts *)
(* those behind it; o gives the place where each job was before.               *)

QueueNames == {"clientQ", "workerQ", "mgrQ", "inProcess"}

PlacesOf(Q) == UNION {{<<q, i>> : i \in DOMAIN Q[q]} : q \in QueueNames}

Carry(Q, R, o, dst, src, job) ==
  /\ o \in [PlacesOf(R) -> PlacesOf(Q)]
  /\ \A p, q \in PlacesOf(R) : o[p] = o[q] => p = q
  /\ \A p \in PlacesOf(R) : p # dst =>
       o[p] # src /\ o[p][1] = p[1] /\ R[p[1]][p[2]] = Q[o[p][1]][o[p][2]]
  /\ dst \in PlacesOf(R) => o[dst] = src /\ R[dst[1]][dst[2]] = job

QueuesOf(S) == [QueueNames -> Seq(S)]

LEMMA PlaceNames ==
  ASSUME NEW S, NEW Q \in QueuesOf(S)
  PROVE  /\ \A p \in PlacesOf(Q) : /\ p = <<p[1], p[2]>> /\ p[1] \in QueueNames
                                   /\ p[2] \in 1 .. Len(Q[p[1]]) /\ Q[p[1]][p[2]] \in S
         /\ \A q \in QueueNames : /\ Len(Q[q]) \in Nat
                                  /\ \A i \in 1 .. Len(Q[q]) : <<q, i>> \in PlacesOf(Q)
<1>1. \A q \in QueueNames : /\ Q[q] \in Seq(S) /\ Len(Q[q]) \in Nat /\ DOMAIN Q[q] = 1 .. Len(Q[q])
                            /\ \A i \in 1 .. Len(Q[q]) : Q[q][i] \in S
  BY DEF QueuesOf
<1>2. ASSUME NEW p \in PlacesOf(Q)
      PROVE  /\ p = <<p[1], p[2]>> /\ p[1] \in QueueNames
             /\ p[2] \in 1 .. Len(Q[p[1]]) /\ Q[p[1]][p[2]] \in S
  <2>1. PICK q \in QueueNames : \E i \in DOMAIN Q[q] : p = <<q, i>>
    BY DEF PlacesOf
  <2> QED
    BY <1>1, <2>1
<1> QED
  BY <1>1, <1>2 DEF PlacesOf

\* The job at pos leaves queue.
Loses(queue, rest, pos) ==
  /\ Len(rest) = Len(queue) - 1
  /\ \A i \in 1 .. Len(queue) - 1 : rest[i] = IF i < pos THEN queue[i] ELSE queue[i + 1]

LEMMA TailLoses ==
  ASSUME NEW S, NEW queue \in Seq(S), queue # <<>>
  PROVE  1 \in 1 .. Len(queue) /\ Head(queue) = queue[1] /\ Loses(queue, Tail(queue), 1)
BY DEF Loses

LEMMA CutLoses ==
  ASSUME NEW S, NEW queue \in Seq(S), NEW pos \in 1 .. Len(queue)
  PROVE  Loses(queue, SubSeq(queue, 1, pos - 1) \o SubSeq(queue, pos + 1, Len(queue)), pos)
<1> DEFINE l == SubSeq(queue, 1, pos - 1)
           r == SubSeq(queue, pos + 1, Len(queue))
<1>1. l \in Seq(S) /\ Len(l) = pos - 1 /\ \A i \in 1 .. pos - 1 : l[i] = queue[i]
  OBVIOUS
<1>2. r \in Seq(S) /\ Len(r) = Len(queue) - pos /\ \A i \in 1 .. Len(queue) - pos : r[i] = queue[i + pos]
  OBVIOUS
<1> HIDE DEF l, r
<1>3. /\ Len(l \o r) = Len(queue) - 1
      /\ \A i \in 1 .. Len(queue) - 1 : (l \o r)[i] = IF i <= pos - 1 THEN l[i] ELSE r[i - (pos - 1)]
  <2>1. Len(l) + Len(r) = Len(queue) - 1
    BY <1>1, <1>2
  <2>2. /\ Len(l \o r) = Len(l) + Len(r)
        /\ \A i \in 1 .. Len(l) + Len(r) :
             (l \o r)[i] = IF i <= Len(l) THEN l[i] ELSE r[i - Len(l)]
    BY <1>1, <1>2, ConcatProperties
  <2> QED
    BY <1>1, <2>1, <2>2
<1>4. ASSUME NEW i \in 1 .. Len(queue) - 1
      PROVE  (l \o r)[i] = IF i < pos THEN queue[i] ELSE queue[i + 1]
  <2>1. CASE i < pos
    BY <1>1, <1>3, <2>1
  <2>2. CASE ~(i < pos)
    <3>1. i - (pos - 1) \in 1 .. Len(queue) - pos /\ (i - (pos - 1)) + pos = i + 1
      BY <2>2
    <3>2. (l \o r)[i] = r[i - (pos - 1)]
      BY <1>3, <2>2
    <3> QED
      BY <1>2, <2>2, <3>1, <3>2
  <2> QED
    BY <2>1, <2>2
<1> QED
  BY <1>3, <1>4 DEF Loses, l, r

\* To the end of another queue.
LEMMA Moves ==
  ASSUME NEW S, NEW Q \in QueuesOf(S), NEW R \in QueuesOf(S),
         NEW a \in QueueNames, NEW b \in QueueNames, a # b, NEW pos \in 1 .. Len(Q[a]),
         NEW job \in S, Loses(Q[a], R[a], pos), R[b] = Append(Q[b], job),
         \A q \in QueueNames \ {a, b} : R[q] = Q[q]
  PROVE  /\ \E o : Carry(Q, R, o, <<b, Len(Q[b]) + 1>>, <<a, pos>>, job)
         /\ <<b, Len(Q[b]) + 1>> \in PlacesOf(R) /\ <<a, pos>> \in PlacesOf(Q)
<1> DEFINE dst == <<b, Len(Q[b]) + 1>>
           src == <<a, pos>>
           old(p) == IF p = dst THEN src
                     ELSE IF p[1] = a /\ p[2] >= pos THEN <<a, p[2] + 1>> ELSE p
           o == [p \in PlacesOf(R) |-> old(p)]
<1>1. /\ \A p \in PlacesOf(R) : p = <<p[1], p[2]>> /\ p[1] \in QueueNames /\ p[2] \in 1 .. Len(R[p[1]])
      /\ \A q \in QueueNames : /\ Len(Q[q]) \in Nat
                               /\ \A i \in 1 .. Len(Q[q]) : <<q, i>> \in PlacesOf(Q)
  BY PlaceNames
<1>2. /\ Len(R[a]) = Len(Q[a]) - 1 /\ Len(R[b]) = Len(Q[b]) + 1 /\ R[b][Len(Q[b]) + 1] = job
      /\ \A i \in 1 .. Len(Q[b]) : R[b][i] = Q[b][i]
  BY AppendProperties DEF Loses, QueuesOf
<1>3. ASSUME NEW p \in PlacesOf(R), p # dst
      PROVE  /\ old(p) \in PlacesOf(Q) /\ old(p) # src /\ old(p)[1] = p[1]
             /\ R[p[1]][p[2]] = Q[old(p)[1]][old(p)[2]]
  <2>1. CASE p[1] = a
    <3>1. p[2] \in 1 .. Len(Q[a]) - 1
      BY <1>1, <1>2, <2>1
    <3>2. R[a][p[2]] = IF p[2] < pos THEN Q[a][p[2]] ELSE Q[a][p[2] + 1]
      BY <3>1 DEF Loses
    <3>3. old(p) = IF p[2] < pos THEN p ELSE <<a, p[2] + 1>>
      BY <1>3, <2>1, <3>1
    <3>4. CASE p[2] < pos
      BY <1>1, <2>1, <3>1, <3>2, <3>3, <3>4
    <3>5. CASE ~(p[2] < pos)
      <4>1. p[2] + 1 \in 1 .. Len(Q[a]) /\ p[2] + 1 # pos
        BY <1>1, <3>1, <3>5
      <4>2. old(p) = <<a, p[2] + 1>>
        BY <3>3, <3>5
      <4>3. old(p) \in PlacesOf(Q) /\ old(p) # src
        BY <1>1, <4>1, <4>2
      <4> QED
        BY <2>1, <3>2, <3>5, <4>2, <4>3
    <3> QED
      BY <3>4, <3>5
  <2>2. CASE p[1] = b
    <3>1. p = <<b, p[2]>> /\ p[2] \in 1 .. Len(R[b])
      BY <1>1, <2>2
    <3>2. p[2] \in 1 .. Len(Q[b])
      BY <1>1, <1>2, <1>3, <3>1
    <3>3. old(p) = p
      BY <1>3, <2>2
    <3> QED
      BY <1>1, <1>2, <2>2, <3>1, <3>2, <3>3
  <2>3. CASE p[1] \notin {a, b}
    BY <1>1, <1>3, <2>3
  <2> QED
    BY <2>1, <2>2, <2>3
<1>4. dst \in PlacesOf(R) /\ src \in PlacesOf(Q) /\ R[dst[1]][dst[2]] = job
  BY <1>1, <1>2, PlaceNames
<1>5. ASSUME NEW p \in PlacesOf(R), NEW q \in PlacesOf(R), old(p) = old(q) PROVE p = q
  <2>1. CASE p = dst \/ q = dst
    BY <1>3, <1>5, <2>1
  <2>2. CASE p # dst /\ q # dst
    <3>1. p[1] = q[1]
      BY <1>3, <1>5, <2>2
    <3>2. /\ p = <<p[1], p[2]>> /\ q = <<q[1], q[2]>> /\ p[2] \in Nat /\ q[2] \in Nat
      BY <1>1
    <3>3. p[2] = q[2]
      <4>1. CASE p[1] = a
        BY <1>5, <2>2, <3>1, <3>2, <4>1
      <4>2. CASE p[1] # a
        BY <1>5, <2>2, <3>1, <3>2, <4>2
      <4> QED
        BY <4>1, <4>2
    <3> QED
      BY <3>1, <3>2, <3>3
  <2> QED
    BY <2>1, <2>2
<1> HIDE DEF old, dst, src
<1>6. old(dst) = src
  BY DEF old
<1>7. Carry(Q, R, o, dst, src, job)
  BY <1>3, <1>4, <1>5, <1>6 DEF Carry
<1> QED
  BY <1>4, <1>7 DEF dst, src

\* To the front of another queue.
LEMMA MovesToFront ==
  ASSUME NEW S, NEW Q \in QueuesOf(S), NEW R \in QueuesOf(S),
         NEW a \in QueueNames, NEW b \in QueueNames, a # b, Q[a] # <<>>,
         NEW job \in S, R[a] = Tail(Q[a]), R[b] = <<job>> \o Q[b],
         \A q \in QueueNames \ {a, b} : R[q] = Q[q]
  PROVE  /\ \E o : Carry(Q, R, o, <<b, 1>>, <<a, 1>>, job)
         /\ <<b, 1>> \in PlacesOf(R) /\ <<a, 1>> \in PlacesOf(Q)
<1> DEFINE dst == <<b, 1>>
           src == <<a, 1>>
           old(p) == IF p = dst THEN src
                     ELSE IF p[1] = a THEN <<a, p[2] + 1>>
                     ELSE IF p[1] = b THEN <<b, p[2] - 1>> ELSE p
           o == [p \in PlacesOf(R) |-> old(p)]
<1>1. /\ \A p \in PlacesOf(R) : p = <<p[1], p[2]>> /\ p[1] \in QueueNames /\ p[2] \in 1 .. Len(R[p[1]])
      /\ \A q \in QueueNames : /\ Len(Q[q]) \in Nat
                               /\ \A i \in 1 .. Len(Q[q]) : <<q, i>> \in PlacesOf(Q)
  BY PlaceNames
<1>2. Len(R[a]) = Len(Q[a]) - 1 /\ 1 \in 1 .. Len(Q[a]) /\ \A i \in 1 .. Len(R[a]) : R[a][i] = Q[a][i + 1]
  BY DEF QueuesOf
<1>3. /\ Len(R[b]) = Len(Q[b]) + 1 /\ R[b][1] = job
      /\ \A i \in 1 .. Len(Q[b]) + 1 : i # 1 => R[b][i] = Q[b][i - 1]
  <2>1. <<job>> \in Seq(S) /\ Q[b] \in Seq(S) /\ Len(<<job>>) = 1
    BY DEF QueuesOf
  <2> QED
    BY <1>1, <2>1, ConcatProperties
<1>4. ASSUME NEW p \in PlacesOf(R), p # dst
      PROVE  /\ old(p) \in PlacesOf(Q) /\ old(p) # src /\ old(p)[1] = p[1]
             /\ R[p[1]][p[2]] = Q[old(p)[1]][old(p)[2]]
  <2>1. CASE p[1] = a
    <3>1. p = <<a, p[2]>> /\ p[2] \in 1 .. Len(R[a]) /\ p[2] + 1 \in 2 .. Len(Q[a])
      <4>1. p = <<a, p[2]>>
        BY <1>1, <2>1
      <4>2. p[2] \in 1 .. Len(R[a])
        BY <1>1, <2>1
      <4>3. Len(Q[a]) \in Nat /\ Len(R[a]) = Len(Q[a]) - 1
        BY <1>1, <1>2
      <4>4. p[2] + 1 \in 2 .. Len(Q[a])
        BY <4>2, <4>3
      <4> QED
        BY <4>1, <4>2, <4>4
    <3>2. R[a][p[2]] = Q[a][p[2] + 1] /\ <<a, p[2] + 1>> \in PlacesOf(Q)
      BY <1>1, <1>2, <3>1
    <3>3. old(p) = <<a, p[2] + 1>> /\ <<a, p[2] + 1>> # src
      BY <1>4, <2>1, <3>1
    <3> QED
      BY <2>1, <3>2, <3>3
  <2>2. CASE p[1] = b
    <3>1. p[2] \in 2 .. Len(Q[b]) + 1
      BY <1>1, <1>3, <1>4, <2>2
    <3>2. p[2] - 1 \in 1 .. Len(Q[b]) /\ R[b][p[2]] = Q[b][p[2] - 1]
      BY <1>1, <1>3, <3>1
    <3> QED
      BY <1>1, <1>4, <2>2, <3>2
  <2>3. CASE p[1] \notin {a, b}
    BY <1>1, <1>4, <2>3
  <2> QED
    BY <2>1, <2>2, <2>3
<1>5. dst \in PlacesOf(R) /\ src \in PlacesOf(Q) /\ R[dst[1]][dst[2]] = job
  BY <1>1, <1>2, <1>3, PlaceNames
<1>6. ASSUME NEW p \in PlacesOf(R), NEW q \in PlacesOf(R), old(p) = old(q) PROVE p = q
  <2>1. CASE p = dst \/ q = dst
    BY <1>4, <1>6, <2>1
  <2>2. CASE p # dst /\ q # dst
    <3>1. p[1] = q[1]
      BY <1>4, <1>6, <2>2
    <3>2. /\ p = <<p[1], p[2]>> /\ q = <<q[1], q[2]>> /\ p[2] \in Nat /\ q[2] \in Nat
      BY <1>1
    <3>3. p[2] = q[2]
      BY <1>6, <2>2, <3>1, <3>2
    <3> QED
      BY <3>1, <3>2, <3>3
  <2> QED
    BY <2>1, <2>2
<1> HIDE DEF old, dst, src
<1>7. old(dst) = src
  BY DEF old
<1>8. Carry(Q, R, o, dst, src, job)
  BY <1>4, <1>5, <1>6, <1>7 DEF Carry
<1> QED
  BY <1>5, <1>8 DEF dst, src

\* Out of the queues.  There is no place 0.
LEMMA Leaves ==
  ASSUME NEW S, NEW Q \in QueuesOf(S), NEW R \in QueuesOf(S),
         NEW a \in QueueNames, Q[a] # <<>>, R[a] = Tail(Q[a]),
         \A q \in QueueNames \ {a} : R[q] = Q[q]
  PROVE  /\ \E o : Carry(Q, R, o, <<a, 0>>, <<a, 1>>, Head(Q[a]))
         /\ <<a, 0>> \notin PlacesOf(R) /\ <<a, 1>> \in PlacesOf(Q)
<1> DEFINE old(p) == IF p[1] = a THEN <<a, p[2] + 1>> ELSE p
           o == [p \in PlacesOf(R) |-> old(p)]
<1>1. /\ \A p \in PlacesOf(R) : p = <<p[1], p[2]>> /\ p[1] \in QueueNames /\ p[2] \in 1 .. Len(R[p[1]])
      /\ \A q \in QueueNames : /\ Len(Q[q]) \in Nat
                               /\ \A i \in 1 .. Len(Q[q]) : <<q, i>> \in PlacesOf(Q)
  BY PlaceNames
<1>2. Len(R[a]) = Len(Q[a]) - 1 /\ 1 \in 1 .. Len(Q[a]) /\ \A i \in 1 .. Len(R[a]) : R[a][i] = Q[a][i + 1]
  BY DEF QueuesOf
<1>3. ASSUME NEW p \in PlacesOf(R)
      PROVE  /\ p # <<a, 0>> /\ old(p) \in PlacesOf(Q) /\ old(p) # <<a, 1>> /\ old(p)[1] = p[1]
             /\ R[p[1]][p[2]] = Q[old(p)[1]][old(p)[2]]
  <2>1. CASE p[1] = a
    <3>1. p = <<a, p[2]>> /\ p[2] \in 1 .. Len(R[a]) /\ p[2] + 1 \in 2 .. Len(Q[a])
      <4>1. p = <<a, p[2]>>
        BY <1>1, <2>1
      <4>2. p[2] \in 1 .. Len(R[a])
        BY <1>1, <2>1
      <4>3. Len(Q[a]) \in Nat /\ Len(R[a]) = Len(Q[a]) - 1
        BY <1>1, <1>2
      <4>4. p[2] + 1 \in 2 .. Len(Q[a])
        BY <4>2, <4>3
      <4> QED
        BY <4>1, <4>2, <4>4
    <3>2. R[a][p[2]] = Q[a][p[2] + 1] /\ <<a, p[2] + 1>> \in PlacesOf(Q)
      BY <1>1, <1>2, <3>1
    <3>3. old(p) = <<a, p[2] + 1>> /\ <<a, p[2] + 1>> # <<a, 1>> /\ p # <<a, 0>>
      BY <2>1, <3>1
    <3> QED
      BY <2>1, <3>2, <3>3
  <2>2. CASE p[1] # a
    BY <1>1, <2>2
  <2> QED
    BY <2>1, <2>2
<1>4. ASSUME NEW p \in PlacesOf(R), NEW q \in PlacesOf(R), old(p) = old(q) PROVE p = q
  <2>1. p[1] = q[1]
    BY <1>3, <1>4
  <2>2. /\ p = <<p[1], p[2]>> /\ q = <<q[1], q[2]>> /\ p[2] \in Nat /\ q[2] \in Nat
    BY <1>1
  <2>3. p[2] = q[2]
    BY <1>4, <2>1, <2>2
  <2> QED
    BY <2>1, <2>2, <2>3
<1>5. <<a, 1>> \in PlacesOf(Q) /\ <<a, 0>> \notin PlacesOf(R)
  BY <1>1, <1>2, <1>3
<1> HIDE DEF old
<1>6. Carry(Q, R, o, <<a, 0>>, <<a, 1>>, Head(Q[a]))
  BY <1>3, <1>4, <1>5 DEF Carry
<1> QED
  BY <1>5, <1>6

\* Changed where it is.
LEMMA Stays ==
  ASSUME NEW S, NEW Q \in QueuesOf(S), NEW R \in QueuesOf(S),
         NEW a \in QueueNames, NEW pos \in 1 .. Len(Q[a]), NEW job \in S, Len(R[a]) = Len(Q[a]),
         \A i \in 1 .. Len(Q[a]) : R[a][i] = IF i = pos THEN job ELSE Q[a][i],
         \A q \in QueueNames \ {a} : R[q] = Q[q]
  PROVE  /\ \E o : Carry(Q, R, o, <<a, pos>>, <<a, pos>>, job)
         /\ <<a, pos>> \in PlacesOf(R) /\ <<a, pos>> \in PlacesOf(Q)
<1> DEFINE src == <<a, pos>>
           o == [p \in PlacesOf(R) |-> p]
<1>1. /\ \A p \in PlacesOf(R) : p = <<p[1], p[2]>> /\ p[1] \in QueueNames /\ p[2] \in 1 .. Len(R[p[1]])
      /\ \A q \in QueueNames : \A i \in 1 .. Len(Q[q]) : <<q, i>> \in PlacesOf(Q)
      /\ \A q \in QueueNames : \A i \in 1 .. Len(R[q]) : <<q, i>> \in PlacesOf(R)
  BY PlaceNames
<1>2. ASSUME NEW p \in PlacesOf(R)
      PROVE  /\ p \in PlacesOf(Q)
             /\ R[p[1]][p[2]] = IF p = src THEN job ELSE Q[p[1]][p[2]]
  <2>1. CASE p[1] = a
    BY <1>1, <2>1
  <2>2. CASE p[1] # a
    BY <1>1, <2>2
  <2> QED
    BY <2>1, <2>2
<1>3. src \in PlacesOf(R) /\ src \in PlacesOf(Q)
  BY <1>1
<1> HIDE DEF src
<1>4. Carry(Q, R, o, src, src, job)
  BY <1>2, <1>3 DEF Carry
<1> QED
  BY <1>3, <1>4 DEF src

LEMMA QueueTypes ==
  /\ ItemsExist => /\ Queues \in QueuesOf(Jobs) /\ Places = PlacesOf(Queues)
                   /\ \A p \in Places : JobAt(p) \in Jobs
  /\ ItemsExist' => /\ Queues' \in QueuesOf(Jobs) /\ Places' = PlacesOf(Queues')
                    /\ \A p \in Places' : JobAt(p)' \in Jobs
<1>1. ASSUME ItemsExist
      PROVE  /\ Queues \in QueuesOf(Jobs) /\ Places = PlacesOf(Queues)
             /\ \A p \in Places : JobAt(p) \in Jobs
  <2>1. Queues \in QueuesOf(Jobs) /\ DOMAIN Queues = QueueNames
    BY <1>1, QueuesTyped DEF Queues, QueuesOf, QueueNames
  <2>2. Places = PlacesOf(Queues)
    BY <2>1 DEF Places, PlacesOf
  <2> QED
    BY <2>1, <2>2, PlaceNames DEF JobAt
<1>2. ASSUME ItemsExist'
      PROVE  /\ Queues' \in QueuesOf(Jobs) /\ Places' = PlacesOf(Queues')
             /\ \A p \in Places' : JobAt(p)' \in Jobs
  <2>1. {clientQ', workerQ', mgrQ', inProcess'} \subseteq Seq(Jobs)
    <3>1. Naming' \subseteq Jobs /\ Deleting' \subseteq Jobs
      BY DEF Naming, Deleting
    <3> QED
      BY <1>2, <3>1, SeqMonotonic DEF ItemsExist
  <2>2. Queues' \in QueuesOf(Jobs) /\ DOMAIN Queues' = QueueNames
    BY <2>1 DEF Queues, QueuesOf, QueueNames
  <2>3. Places' = PlacesOf(Queues')
    BY <2>2 DEF Places, PlacesOf
  <2> QED
    BY <2>2, <2>3, PlaceNames DEF JobAt
<1> QED
  BY <1>1, <1>2

\* The job is the one that was at src, though perhaps not as it was.
Takes(o, dst, src, job) ==
  /\ Carry(Queues, Queues', o, dst, src, job) /\ src \in Places
  /\ job.by = JobAt(src).by /\ job.no = JobAt(src).no /\ job.slot = JobAt(src).slot

\* The job at place p of the queues R.
At(R, p) == R[p[1]][p[2]]

LEMMA Carried ==
  ASSUME ItemsExist, ItemsExist', NEW o, NEW dst, NEW src, NEW job, Takes(o, dst, src, job)
  PROVE  /\ \A p \in Places' :
              /\ o[p] \in Places
              /\ At(Queues', p).by = JobAt(o[p]).by /\ At(Queues', p).no = JobAt(o[p]).no
              /\ At(Queues', p).slot = JobAt(o[p]).slot
              /\ p # dst => o[p] # src /\ o[p][1] = p[1] /\ At(Queues', p) = JobAt(o[p])
              /\ p = dst => o[p] = src /\ At(Queues', p) = job
         /\ \A p, q \in Places' : p # q => o[p] # o[q]
<1>1. Places = PlacesOf(Queues) /\ Places' = PlacesOf(Queues')
  BY QueueTypes
<1>2. /\ o \in [Places' -> Places]
      /\ \A p, q \in Places' : o[p] = o[q] => p = q
      /\ \A p \in Places' : p # dst => o[p] # src /\ o[p][1] = p[1] /\ At(Queues', p) = JobAt(o[p])
      /\ dst \in Places' => o[dst] = src /\ At(Queues', dst) = job
  BY <1>1 DEF Takes, Carry, JobAt, At
<1> QED
  BY <1>2 DEF Takes

LEMMA TicketsCarried ==
  ASSUME ItemsExist, ItemsExist', NEW o, NEW dst, NEW src, NEW job, Takes(o, dst, src, job),
         \A s \in Sessions : session'[s].sent = session[s].sent, Tickets
  PROVE  /\ \A p \in Places' : At(Queues', p).no <= session'[At(Queues', p).by].sent
         /\ \A p, q \in Places' : p # q => Ticket(At(Queues', p)) # Ticket(At(Queues', q))
         /\ \A s \in Sessions : \A reply \in ToSet(replies[s]) :
              \A p \in Places' : reply # Ticket(At(Queues', p))
         /\ dst \notin Places' => \A p \in Places' : Ticket(At(Queues', p)) # Ticket(JobAt(src))
<1>1. \A p \in Places' : /\ o[p] \in Places /\ Ticket(At(Queues', p)) = Ticket(JobAt(o[p]))
                         /\ At(Queues', p).by = JobAt(o[p]).by /\ At(Queues', p).no = JobAt(o[p]).no
                         /\ p # dst => o[p] # src
  BY Carried DEF Ticket
<1>2. \A p, q \in Places' : p # q => o[p] # o[q]
  BY Carried
<1>3. \A p \in Places : JobAt(p).by \in Sessions
  BY QueueTypes DEF Jobs
<1>4. src \in Places
  BY DEF Takes
<1>5. /\ \A p \in Places : JobAt(p).no <= session[JobAt(p).by].sent
      /\ \A p, q \in Places : p # q => Ticket(JobAt(p)) # Ticket(JobAt(q))
      /\ \A s \in Sessions : \A reply \in ToSet(replies[s]) :
           \A p \in Places : reply # Ticket(JobAt(p))
  BY DEF Tickets
<1>6. \A p \in Places' : At(Queues', p).no <= session'[At(Queues', p).by].sent
  BY <1>1, <1>3, <1>5
<1>7. \A p, q \in Places' : p # q => Ticket(At(Queues', p)) # Ticket(At(Queues', q))
  BY <1>1, <1>2, <1>5
<1>8. dst \notin Places' => \A p \in Places' : Ticket(At(Queues', p)) # Ticket(JobAt(src))
  BY <1>1, <1>4, <1>5
<1> QED
  BY <1>1, <1>5, <1>6, <1>7, <1>8

\* When no reply is sent the tickets stay apart ...
LEMMA TicketsStay ==
  ASSUME TypeOK, ItemsExist, ItemsExist', NEW o, NEW dst, NEW src, NEW job, Takes(o, dst, src, job),
         \A s \in Sessions : session'[s].sent = session[s].sent, replies' = replies, Tickets
  PROVE  Tickets'
<1>1. \A s \in Sessions : \A reply \in ToSet(replies[s]) : reply[1] \in Sessions
  BY ElementOfSeq DEF TypeOK, ToSet
<1>2. /\ \A p \in Places' : At(Queues', p).no <= session'[At(Queues', p).by].sent
      /\ \A p, q \in Places' : p # q => Ticket(At(Queues', p)) # Ticket(At(Queues', q))
      /\ \A s \in Sessions : \A reply \in ToSet(replies[s]) :
           \A p \in Places' : reply # Ticket(At(Queues', p))
  BY TicketsCarried
<1> QED
  BY <1>1, <1>2 DEF Tickets, JobAt, At

\* ... and when the connections stay, so do the addresses.
LEMMA AddressesStay ==
  ASSUME ItemsExist, ItemsExist', NEW o, NEW dst, NEW src, NEW job, Takes(o, dst, src, job),
         UNCHANGED clientVars, Addressed
  PROVE  Addressed'
<1>1. \A p \in Places' : /\ o[p] \in Places /\ At(Queues', p).by = JobAt(o[p]).by
                         /\ At(Queues', p).slot = JobAt(o[p]).slot
  BY Carried
<1>2. \A p \in Places' : conn[At(Queues', p).slot] \in {At(Queues', p).by, NoConn}
  BY <1>1 DEF Addressed
<1> QED
  BY <1>2 DEF Addressed, clientVars, JobAt, At

LEMMA DeletionsCarried ==
  ASSUME ItemsExist, ItemsExist', NEW o, NEW dst, NEW src, NEW job, Takes(o, dst, src, job)
  PROVE  /\ \A p \in DeletionPlaces' : p # dst =>
              o[p] \in DeletionPlaces /\ o[p] # src /\ At(Queues', p) = JobAt(o[p])
         /\ \A p, q \in DeletionPlaces' : p # q => o[p] # o[q]
         /\ \A p \in DeletionPlaces' : p = dst => At(Queues', p) = job /\ o[p] = src
<1>1. DeletionPlaces' = {p \in Places' : /\ p[1] # "clientQ"
                                         /\ p[1] = "workerQ" => At(Queues', p).kind = "DeleteDone"}
  BY DEF DeletionPlaces, JobAt, At
<1> QED
  BY <1>1, Carried DEF DeletionPlaces

\* A deletion that moves on keeps its group.
LEMMA OwnersStay ==
  ASSUME ItemsExist, ItemsExist', NEW o, NEW dst, NEW src, NEW job, Takes(o, dst, src, job),
         dst \in DeletionPlaces' => src \in DeletionPlaces /\ job.item = JobAt(src).item,
         groupOf' = groupOf, freeGroups' = freeGroups, EachGroupHasOneOwner
  PROVE  EachGroupHasOneOwner'
<1>1. \A p \in DeletionPlaces' : o[p] \in DeletionPlaces /\ At(Queues', p).item = JobAt(o[p]).item
  BY DeletionsCarried
<1>2. \A p, q \in DeletionPlaces' : p # q => o[p] # o[q]
  BY DeletionsCarried
<1>3. /\ \A p, q \in DeletionPlaces' : p # q => At(Queues', p).item # At(Queues', q).item
      /\ \A p \in DeletionPlaces', f \in {e \in Files : groupOf[e] # NoGroup} :
           At(Queues', p).item # groupOf[f]
      /\ \A g \in ToSet(freeGroups) : \A p \in DeletionPlaces' : At(Queues', p).item # g
  BY <1>1, <1>2 DEF EachGroupHasOneOwner
<1> QED
  BY <1>3 DEF EachGroupHasOneOwner, JobAt, At

LEMMA QueueFields ==
  /\ Queues["clientQ"] = clientQ /\ Queues["workerQ"] = workerQ
  /\ Queues["mgrQ"] = mgrQ /\ Queues["inProcess"] = inProcess
  /\ Queues'["clientQ"] = clientQ' /\ Queues'["workerQ"] = workerQ'
  /\ Queues'["mgrQ"] = mgrQ' /\ Queues'["inProcess"] = inProcess'
BY DEF Queues

SameSender(job, other) == job.by = other.by /\ job.no = other.no /\ job.slot = other.slot

LEMMA TakesByMoving ==
  ASSUME ItemsExist, ItemsExist', NEW a \in QueueNames, NEW b \in QueueNames, a # b,
         NEW pos \in 1 .. Len(Queues[a]), NEW job \in Jobs, SameSender(job, Queues[a][pos]),
         Loses(Queues[a], Queues'[a], pos), Queues'[b] = Append(Queues[b], job),
         \A q \in QueueNames \ {a, b} : Queues'[q] = Queues[q]
  PROVE  /\ \E o : Takes(o, <<b, Len(Queues[b]) + 1>>, <<a, pos>>, job)
         /\ <<b, Len(Queues[b]) + 1>> \in Places'
<1>1. /\ Queues \in QueuesOf(Jobs) /\ Queues' \in QueuesOf(Jobs)
      /\ Places = PlacesOf(Queues) /\ Places' = PlacesOf(Queues')
  BY QueueTypes
<1>2. /\ \E o : Carry(Queues, Queues', o, <<b, Len(Queues[b]) + 1>>, <<a, pos>>, job)
      /\ <<b, Len(Queues[b]) + 1>> \in Places' /\ <<a, pos>> \in Places
  BY <1>1, Moves
<1>3. JobAt(<<a, pos>>) = Queues[a][pos]
  BY DEF JobAt
<1> QED
  BY <1>2, <1>3 DEF Takes, SameSender

\* writeJobFeedBack
LEMMA AnswerTakes ==
  ASSUME ItemsExist, ItemsExist', NEW kind, WorkerTakes(kind), NEW job \in Jobs, Answer(job),
         SameSender(job, Head(workerQ)), UNCHANGED <<mgrQ, inProcess>>
  PROVE  \E o : Takes(o, <<"clientQ", Len(clientQ) + 1>>, <<"workerQ", 1>>, job)
<1>1. workerQ \in Seq(Naming) /\ workerQ # <<>> /\ workerQ' = Tail(workerQ)
  BY DEF ItemsExist, WorkerTakes
<1>2. 1 \in 1 .. Len(workerQ) /\ Head(workerQ) = workerQ[1] /\ Loses(workerQ, workerQ', 1)
  BY <1>1, TailLoses
<1>3. \A q \in QueueNames \ {"workerQ", "clientQ"} : Queues'[q] = Queues[q]
  BY QueueFields DEF QueueNames
<1> QED
  BY <1>2, <1>3, QueueFields, TakesByMoving DEF Answer, QueueNames

\* submitJobToBlockMgr
LEMMA DeletionTakes ==
  ASSUME ItemsExist, ItemsExist', NEW kind, WorkerTakes(kind), NEW job \in Jobs,
         mgrQ' = Append(mgrQ, job),
         SameSender(job, Head(workerQ)), UNCHANGED <<clientQ, inProcess>>
  PROVE  \E o : Takes(o, <<"mgrQ", Len(mgrQ) + 1>>, <<"workerQ", 1>>, job)
<1>1. workerQ \in Seq(Naming) /\ workerQ # <<>> /\ workerQ' = Tail(workerQ)
  BY DEF ItemsExist, WorkerTakes
<1>2. 1 \in 1 .. Len(workerQ) /\ Head(workerQ) = workerQ[1] /\ Loses(workerQ, workerQ', 1)
  BY <1>1, TailLoses
<1>3. \A q \in QueueNames \ {"workerQ", "mgrQ"} : Queues'[q] = Queues[q]
  BY QueueFields DEF QueueNames
<1> QED
  BY <1>2, <1>3, QueueFields, TakesByMoving DEF QueueNames

\* performDeleteBlocksJob, whether there is a block to delete or not.
LEMMA DeleteBlocksTakes ==
  ASSUME TypeOK, ItemsExist, ItemsExist', PerformDeleteBlocksJob
  PROVE  \/ /\ NumToDelete(Head(mgrQ).item) > 0
            /\ \E o : Takes(o, <<"inProcess", 1>>, <<"mgrQ", 1>>,
                            [Head(mgrQ) EXCEPT !.num = NumToDelete(Head(mgrQ).item)])
         \/ /\ ~(NumToDelete(Head(mgrQ).item) > 0)
            /\ \E o : Takes(o, <<"workerQ", Len(workerQ) + 1>>, <<"mgrQ", 1>>,
                            [Head(mgrQ) EXCEPT !.kind = "DeleteDone"])
<1> DEFINE job == Head(mgrQ)
           n == NumToDelete(job.item)
<1>1. mgrQ \in Seq(Deleting) /\ mgrQ # <<>> /\ mgrQ' = Tail(mgrQ) /\ clientQ' = clientQ
  BY DEF PerformDeleteBlocksJob, ItemsExist
<1>2. 1 \in 1 .. Len(mgrQ) /\ job = mgrQ[1] /\ Loses(mgrQ, mgrQ', 1)
  BY <1>1, TailLoses
<1>3. job \in Jobs
  BY <1>1, HeadTailProperties DEF Deleting
<1>4. n \in Int
  <2>1. BlocksToDelete(job.item) \subseteq Blocks
    BY DEF BlocksToDelete, TypeOK
  <2> QED
    BY <2>1, BlocksFinite DEF NumToDelete
<1>5. CASE n > 0
  <2> DEFINE new == [job EXCEPT !.num = n]
  <2>1. inProcess' = <<new>> \o inProcess /\ workerQ' = workerQ
    BY <1>5 DEF PerformDeleteBlocksJob
  <2> HIDE DEF n
  <2>2. new \in Jobs
    BY <1>3, <1>4, JobNames
  <2>3. SameSender(new, job)
    BY <1>3 DEF SameSender, Jobs
  <2> HIDE DEF new, job
  <2>4. \A q \in QueueNames \ {"mgrQ", "inProcess"} : Queues'[q] = Queues[q]
    BY <1>1, <2>1, QueueFields DEF QueueNames
  <2>5. /\ Queues \in QueuesOf(Jobs) /\ Queues' \in QueuesOf(Jobs)
        /\ Places = PlacesOf(Queues) /\ Places' = PlacesOf(Queues')
    BY QueueTypes
  <2>6. /\ \E o : Carry(Queues, Queues', o, <<"inProcess", 1>>, <<"mgrQ", 1>>, new)
        /\ <<"mgrQ", 1>> \in Places
    BY <1>1, <2>1, <2>2, <2>4, <2>5, QueueFields, MovesToFront DEF QueueNames
  <2>7. JobAt(<<"mgrQ", 1>>) = job
    BY <1>2, QueueFields DEF JobAt
  <2>8. \E o : Takes(o, <<"inProcess", 1>>, <<"mgrQ", 1>>, new)
    BY <2>3, <2>6, <2>7 DEF Takes, SameSender
  <2> QED
    BY <1>5, <2>8 DEF new, job, n
<1>6. CASE ~(n > 0)
  <2> DEFINE new == [job EXCEPT !.kind = "DeleteDone"]
  <2>1. inProcess' = inProcess /\ workerQ' = Append(workerQ, new)
    BY <1>6 DEF PerformDeleteBlocksJob, ReturnToWorker
  <2>2. new \in Jobs
    BY <1>3, JobNames
  <2>3. SameSender(new, job)
    BY <1>3 DEF SameSender, Jobs
  <2> HIDE DEF new, job
  <2>4. \A q \in QueueNames \ {"mgrQ", "workerQ"} : Queues'[q] = Queues[q]
    BY <1>1, <2>1, QueueFields DEF QueueNames
  <2>5. \E o : Takes(o, <<"workerQ", Len(workerQ) + 1>>, <<"mgrQ", 1>>, new)
    BY <1>2, <2>1, <2>2, <2>3, <2>4, QueueFields, TakesByMoving DEF QueueNames
  <2> QED
    BY <1>6, <2>5 DEF new, job, n
<1> QED
  BY <1>5, <1>6

\* The key finds the job whose last block is deleted.
LEMMA RemovalTakesIt ==
  ASSUME ItemsExist, Tickets, NEW pos \in DOMAIN inProcess, NEW job \in Deleting,
         SameSender(job, inProcess[pos]), NEW queue \in Seq(Deleting), Len(queue) = Len(inProcess),
         \A i \in DOMAIN inProcess : queue[i] = IF i = pos THEN job ELSE inProcess[i],
         FirstOfTheName(queue, job) = pos
  PROVE  Loses(inProcess, RemoveTheJobFromQueue(queue, job), pos)
<1>1. inProcess \in Seq(Deleting) /\ DOMAIN inProcess = 1 .. Len(inProcess) /\ Len(inProcess) \in Nat
  BY DEF ItemsExist
<1>2. pos \in 1 .. Len(queue) /\ queue[pos] = job /\ DOMAIN queue = 1 .. Len(queue)
  BY <1>1
<1> DEFINE at == PlaceOf(queue, job)
           rest == RemoveTheJobFromQueue(queue, job)
<1>3. at \in DOMAIN queue /\ queue[at] = job
  BY <1>2, PlaceIsPlace
<1> HIDE DEF at
<1>4. at = pos
  <2> SUFFICES ASSUME at # pos PROVE FALSE
    OBVIOUS
  <2>1. inProcess[at] = job /\ at \in DOMAIN inProcess
    BY <1>1, <1>2, <1>3
  <2>2. <<"inProcess", at>> \in Places /\ <<"inProcess", pos>> \in Places
    BY <1>1, <2>1, QueueTypes, PlaceNames, QueueFields DEF QueueNames
  <2>3. /\ JobAt(<<"inProcess", at>>) = inProcess[at] /\ JobAt(<<"inProcess", pos>>) = inProcess[pos]
        /\ <<"inProcess", at>> # <<"inProcess", pos>>
    BY QueueFields DEF JobAt
  <2>4. Ticket(inProcess[at]) # Ticket(inProcess[pos])
    BY <2>2, <2>3 DEF Tickets
  <2> QED
    BY <2>1, <2>4 DEF Ticket, SameSender
<1>5. rest = IF pos = 1 THEN Tail(queue)
             ELSE SubSeq(queue, 1, pos - 1) \o SubSeq(queue, pos + 1, Len(queue))
  BY <1>4 DEF RemoveTheJobFromQueue, at
<1>6. queue # <<>>
  BY <1>2
<1>7. Loses(queue, rest, pos)
  <2>1. CASE pos = 1
    BY <1>5, <1>6, <2>1, TailLoses
  <2>2. CASE pos # 1
    BY <1>2, <1>5, <2>2, CutLoses
  <2> QED
    BY <2>1, <2>2
<1> HIDE DEF rest
<1>8. Loses(inProcess, rest, pos)
  BY <1>1, <1>2, <1>7 DEF Loses
<1> QED
  BY <1>8 DEF rest

LEMMA ReportTakes ==
  ASSUME TypeOK, ItemsExist, ItemsExist', Tickets, NEW b \in Blocks, ReportBlockDeletion(b),
         JobOf(Head(deleting[b])) # 0, "wrongJob" \notin mishaps'
  PROVE  LET pos == JobOf(Head(deleting[b]))
             job == [inProcess[pos] EXCEPT !.num = @ - 1]
         IN \/ /\ job.num = 0 /\ Loses(inProcess, inProcess', pos)
               /\ \E o : Takes(o, <<"workerQ", Len(workerQ) + 1>>, <<"inProcess", pos>>,
                               [job EXCEPT !.kind = "DeleteDone"])
            \/ /\ job.num # 0 /\ Len(inProcess') = Len(inProcess)
               /\ \A i \in DOMAIN inProcess : inProcess'[i] = IF i = pos THEN job ELSE inProcess[i]
               /\ \E o : Takes(o, <<"inProcess", pos>>, <<"inProcess", pos>>, job)
<1> DEFINE g == Head(deleting[b])
           pos == JobOf(g)
           old == inProcess[pos]
           job == [old EXCEPT !.num = @ - 1]
           queue == [inProcess EXCEPT ![pos] = job]
<1>1. /\ pos \in DOMAIN inProcess /\ old \in Deleting /\ job \in Deleting
      /\ queue \in Seq(Deleting) /\ Len(queue) = Len(inProcess)
      /\ \A i \in DOMAIN inProcess : queue[i] = IF i = pos THEN job ELSE inProcess[i]
      /\ \/ /\ job.num = 0 /\ inProcess' = RemoveTheJobFromQueue(queue, job)
            /\ ReturnToWorker(job)
            /\ mishaps' = mishaps \cup {m \in {"wrongJob"} : FirstOfTheName(queue, job) # pos}
         \/ job.num # 0 /\ inProcess' = queue /\ UNCHANGED <<workerQ, mishaps>>
  BY ReportFinds
<1>2. SameSender(job, old) /\ job \in Jobs /\ old \in Jobs
  BY <1>1 DEF Deleting, Jobs, SameSender
<1>3. clientQ' = clientQ /\ mgrQ' = mgrQ
  BY DEF ReportBlockDeletion
<1>4. pos \in 1 .. Len(inProcess) /\ DOMAIN inProcess = 1 .. Len(inProcess)
  BY <1>1 DEF ItemsExist
<1>5. CASE job.num = 0
  <2> DEFINE new == [job EXCEPT !.kind = "DeleteDone"]
  <2> HIDE DEF job
  <2>1. new \in Jobs /\ SameSender(new, old)
    BY <1>2, JobNames DEF SameSender, Jobs
  <2>2. workerQ' = Append(workerQ, new)
    BY <1>1, <1>5 DEF ReturnToWorker
  <2> HIDE DEF new, old, pos, queue
  <2>3. FirstOfTheName(queue, job) = pos
    BY <1>1, <1>5
  <2>4. SameSender(job, inProcess[pos])
    BY <1>2 DEF old
  <2>5. Loses(inProcess, inProcess', pos)
    BY <1>1, <1>5, <2>3, <2>4, RemovalTakesIt
  <2>6. \A q \in QueueNames \ {"inProcess", "workerQ"} : Queues'[q] = Queues[q]
    BY <1>3, QueueFields DEF QueueNames
  <2>7. SameSender(new, Queues["inProcess"][pos])
    BY <2>1, QueueFields DEF old
  <2>8. \E o : Takes(o, <<"workerQ", Len(workerQ) + 1>>, <<"inProcess", pos>>, new)
    BY <1>4, <2>1, <2>2, <2>5, <2>6, <2>7, QueueFields, TakesByMoving DEF QueueNames
  <2> QED
    BY <1>5, <2>5, <2>8 DEF new, pos, old, job
<1>6. CASE job.num # 0
  <2> HIDE DEF pos, old, job
  <2>1. inProcess' = queue /\ workerQ' = workerQ
    BY <1>1, <1>6
  <2> HIDE DEF queue
  <2>2. \A q \in QueueNames \ {"inProcess"} : Queues'[q] = Queues[q]
    BY <1>3, <2>1, QueueFields DEF QueueNames
  <2>3. /\ Queues \in QueuesOf(Jobs) /\ Queues' \in QueuesOf(Jobs)
        /\ Places = PlacesOf(Queues) /\ Places' = PlacesOf(Queues')
    BY QueueTypes
  <2>4. /\ \E o : Carry(Queues, Queues', o, <<"inProcess", pos>>, <<"inProcess", pos>>, job)
        /\ <<"inProcess", pos>> \in Places
    <3>1. pos \in 1 .. Len(Queues["inProcess"]) /\ "inProcess" \in QueueNames
      BY <1>4, QueueFields DEF QueueNames
    <3>2. Queues'["inProcess"] = queue
      BY <2>1, QueueFields
    <3>3. /\ Len(Queues'["inProcess"]) = Len(Queues["inProcess"])
          /\ \A i \in 1 .. Len(Queues["inProcess"]) :
               Queues'["inProcess"][i] = IF i = pos THEN job ELSE Queues["inProcess"][i]
      BY <1>1, <1>4, <3>2, QueueFields
    <3> QED
      BY <1>2, <2>2, <2>3, <3>1, <3>3, Stays
  <2>5. JobAt(<<"inProcess", pos>>) = old
    BY QueueFields DEF JobAt, old
  <2>6. \E o : Takes(o, <<"inProcess", pos>>, <<"inProcess", pos>>, job)
    BY <1>2, <2>4, <2>5 DEF Takes, SameSender
  <2> QED
    BY <1>1, <1>6, <2>1, <2>6 DEF pos, old, job
<1> QED
  BY <1>5, <1>6

LEMMA Unmoved ==
  ASSUME UNCHANGED <<clientQ, workerQ, mgrQ, inProcess>>
  PROVE  /\ Queues' = Queues /\ Places' = Places /\ DeletionPlaces' = DeletionPlaces
         /\ \A p \in Places : At(Queues', p) = JobAt(p)
<1>1. Queues' = Queues
  BY DEF Queues
<1>2. Places' = Places
  BY <1>1 DEF Places
<1>3. \A p \in Places : At(Queues', p) = JobAt(p)
  BY <1>1 DEF JobAt, At
<1>4. DeletionPlaces' = DeletionPlaces
  BY <1>1, <1>2 DEF DeletionPlaces, JobAt
<1> QED
  BY <1>1, <1>2, <1>3, <1>4

\* A new job.
LEMMA Joins ==
  ASSUME ItemsExist, ItemsExist', NEW job, workerQ' = Append(workerQ, job),
         UNCHANGED <<clientQ, mgrQ, inProcess>>
  PROVE  \A p \in Places' : \/ p \in Places /\ At(Queues', p) = JobAt(p)
                            \/ /\ p = <<"workerQ", Len(workerQ) + 1>>
                               /\ At(Queues', p) = job /\ p \notin Places
<1>0. ASSUME NEW p \in Places'
      PROVE  \/ p \in Places /\ At(Queues', p) = JobAt(p)
             \/ p = <<"workerQ", Len(workerQ) + 1>> /\ At(Queues', p) = job /\ p \notin Places
  <2>1. /\ Queues \in QueuesOf(Jobs) /\ Queues' \in QueuesOf(Jobs)
        /\ Places = PlacesOf(Queues) /\ Places' = PlacesOf(Queues')
    BY QueueTypes
  <2>2. /\ p = <<p[1], p[2]>> /\ p[1] \in QueueNames /\ p[2] \in 1 .. Len(Queues'[p[1]])
        /\ \A i \in 1 .. Len(Queues[p[1]]) : <<p[1], i>> \in Places
        /\ p \in Places => p[2] \in 1 .. Len(Queues[p[1]])
    BY <2>1, PlaceNames
  <2>3. /\ Len(workerQ') = Len(workerQ) + 1 /\ Len(workerQ) \in Nat /\ workerQ'[Len(workerQ) + 1] = job
        /\ \A i \in 1 .. Len(workerQ) : workerQ'[i] = workerQ[i]
    BY AppendProperties DEF ItemsExist
  <2>4. CASE p[1] = "workerQ"
    <3>1. CASE p[2] = Len(workerQ) + 1
      BY <2>2, <2>3, <2>4, <3>1, QueueFields DEF At
    <3>2. CASE p[2] # Len(workerQ) + 1
      <4>1. p[2] \in 1 .. Len(workerQ)
        BY <2>2, <2>3, <2>4, <3>2, QueueFields
      <4> QED
        BY <2>2, <2>3, <2>4, <4>1, QueueFields DEF At, JobAt
    <3> QED
      BY <3>1, <3>2
  <2>5. CASE p[1] # "workerQ"
    BY <2>2, <2>5, QueueFields DEF At, JobAt, QueueNames
  <2> QED
    BY <2>4, <2>5
<1> QED
  BY <1>0

-----------------------------------------------------------------------------
(* The steps that carry a job. *)

\* The worker answers ...
LEMMA AnswerSteps ==
  ASSUME TypeOK, ItemsExist, ItemsExist',
         PerformCreateJob \/ PerformOpenJob \/ PerformWriteOverJob \/ PerformDeleteDoneJob
  PROVE  \E o, job : Takes(o, <<"clientQ", Len(clientQ) + 1>>, <<"workerQ", 1>>, job)
<1> DEFINE head == Head(workerQ)
<1>1. PICK kind : WorkerTakes(kind)
  BY DEF PerformCreateJob, PerformOpenJob, PerformWriteOverJob, PerformDeleteDoneJob
<1>2. head \in Jobs
  <2>1. workerQ \in Seq(Naming) /\ workerQ # <<>>
    BY <1>1 DEF ItemsExist, WorkerTakes
  <2> QED
    BY <2>1, HeadTailProperties DEF Naming
<1>3. UNCHANGED <<mgrQ, inProcess>>
  BY DEF PerformCreateJob, PerformOpenJob, PerformWriteOverJob, PerformDeleteDoneJob, mgrVars
<1>4. \/ Answer(head)
      \/ Answer([head EXCEPT !.ok = TRUE])
      \/ Answer([head EXCEPT !.ok = groupOf[head.file] # NoGroup])
  BY DEF PerformCreateJob, PerformOpenJob, PerformWriteOverJob, PerformDeleteDoneJob
<1> HIDE DEF head
<1>5. \A v \in BOOLEAN : /\ [head EXCEPT !.ok = v] \in Jobs
                         /\ SameSender([head EXCEPT !.ok = v], head)
  BY <1>2 DEF Jobs, SameSender
<1>6. SameSender(head, head) /\ (groupOf[head.file] # NoGroup) \in BOOLEAN
  BY DEF SameSender
<1>7. PICK job \in Jobs : Answer(job) /\ SameSender(job, head)
  BY <1>2, <1>4, <1>5, <1>6
<1>8. \E o : Takes(o, <<"clientQ", Len(clientQ) + 1>>, <<"workerQ", 1>>, job)
  BY <1>1, <1>3, <1>7, AnswerTakes DEF head
<1> QED
  BY <1>8

\* ... or sends a deletion to the block manager.
LEMMA DeleteStep ==
  ASSUME TypeOK, ItemsExist, ItemsExist', PerformDeleteJob
  PROVE  LET job == Head(workerQ)
         IN \E item \in Nat :
              /\ "wildItem" \notin mishaps' => item = groupOf[job.file]
              /\ \/ /\ item = NoGroup
                    /\ \E o : Takes(o, <<"clientQ", Len(clientQ) + 1>>, <<"workerQ", 1>>, job)
                 \/ /\ item # NoGroup
                    /\ \E o : Takes(o, <<"mgrQ", Len(mgrQ) + 1>>, <<"workerQ", 1>>,
                                    [job EXCEPT !.item = item])
<1> DEFINE job == Head(workerQ)
<1>1. WorkerTakes("Delete") /\ inProcess' = inProcess
  BY DEF PerformDeleteJob
<1>2. job \in Jobs
  <2>1. workerQ \in Seq(Naming) /\ workerQ # <<>>
    BY <1>1 DEF ItemsExist, WorkerTakes
  <2> QED
    BY <2>1, HeadTailProperties DEF Naming
<1>3. PICK item \in (IF groupOf[job.file] # NoGroup THEN {groupOf[job.file]} ELSE {NoGroup} \cup leftItems) :
        /\ IF item = NoGroup THEN Answer(job) /\ UNCHANGED mgrQ
           ELSE mgrQ' = Append(mgrQ, [job EXCEPT !.item = item]) /\ UNCHANGED clientQ
        /\ mishaps' = mishaps \cup {m \in {"wildItem"} : item # groupOf[job.file]}
  BY DEF PerformDeleteJob
<1>4. item \in Nat
  <2>1. DOMAIN filled \subseteq Nat
    BY DEF TypeOK
  <2>4. job.file \in Files
    BY <1>2 DEF Jobs
  <2>3. groupOf[job.file] \in Nat
    BY <2>1, <2>4 DEF TypeOK, NoGroup
  <2>2. leftItems \subseteq Nat
    BY DEF TypeOK
  <2> QED
    BY <1>3, <2>2, <2>3 DEF NoGroup
<1>5. "wildItem" \notin mishaps' => item = groupOf[job.file]
  BY <1>3
<1> DEFINE new == [job EXCEPT !.item = item]
<1> HIDE DEF job
<1>6. SameSender(job, job) /\ new \in Jobs /\ SameSender(new, job)
  BY <1>2, <1>4 DEF SameSender, Jobs
<1>7. CASE item = NoGroup
  <2>1. Answer(job) /\ UNCHANGED <<mgrQ, inProcess>>
    BY <1>1, <1>3, <1>7
  <2>2. \E o : Takes(o, <<"clientQ", Len(clientQ) + 1>>, <<"workerQ", 1>>, job)
    BY <1>1, <1>2, <1>6, <2>1, AnswerTakes DEF job
  <2> QED
    BY <1>4, <1>5, <1>7, <2>2 DEF job
<1>8. CASE item # NoGroup
  <2>1. mgrQ' = Append(mgrQ, new) /\ UNCHANGED <<clientQ, inProcess>>
    BY <1>1, <1>3, <1>8
  <2> HIDE DEF new
  <2>2. \E o : Takes(o, <<"mgrQ", Len(mgrQ) + 1>>, <<"workerQ", 1>>, new)
    BY <1>1, <1>6, <2>1, DeletionTakes DEF job
  <2> QED
    BY <1>4, <1>5, <1>8, <2>2 DEF job, new
<1> QED
  BY <1>7, <1>8

\* The client thread takes the job out.
LEMMA StartWriteTakes ==
  ASSUME ItemsExist, ItemsExist', StartWriteJob
  PROVE  /\ \E o : Takes(o, <<"clientQ", 0>>, <<"clientQ", 1>>, Head(clientQ))
         /\ <<"clientQ", 0>> \notin Places' /\ <<"clientQ", 1>> \in Places
         /\ JobAt(<<"clientQ", 1>>) = Head(clientQ)
<1>1. clientQ' = Tail(clientQ) /\ clientQ # <<>> /\ UNCHANGED <<workerQ, mgrQ, inProcess>>
  BY DEF StartWriteJob, mgrVars
<1>2. /\ Queues \in QueuesOf(Jobs) /\ Queues' \in QueuesOf(Jobs)
      /\ Places = PlacesOf(Queues) /\ Places' = PlacesOf(Queues')
  BY QueueTypes
<1>3. \A q \in QueueNames \ {"clientQ"} : Queues'[q] = Queues[q]
  BY <1>1, QueueFields DEF QueueNames
<1>4. /\ \E o : Carry(Queues, Queues', o, <<"clientQ", 0>>, <<"clientQ", 1>>, Head(clientQ))
      /\ <<"clientQ", 0>> \notin Places' /\ <<"clientQ", 1>> \in Places
  BY <1>1, <1>2, <1>3, QueueFields, Leaves DEF QueueNames
<1>5. JobAt(<<"clientQ", 1>>) = Head(clientQ)
  BY <1>1, QueueFields, TailLoses DEF JobAt, ItemsExist
<1> QED
  BY <1>4, <1>5 DEF Takes

-----------------------------------------------------------------------------
(* Lists without repetition. *)

LEMMA AppendsNew ==
  ASSUME NEW S, NEW list \in Seq(S), NEW x \in S
  PROVE  /\ ToSet(Append(list, x)) = ToSet(list) \cup {x}
         /\ IsInjective(list) /\ x \notin ToSet(list) => IsInjective(Append(list, x))
<1>1. /\ DOMAIN Append(list, x) = 1 .. Len(list) + 1 /\ DOMAIN list = 1 .. Len(list)
      /\ Append(list, x)[Len(list) + 1] = x /\ Len(list) \in Nat
      /\ \A i \in 1 .. Len(list) : Append(list, x)[i] = list[i]
  BY AppendProperties
<1>2. \A i \in 1 .. Len(list) + 1 : i \in 1 .. Len(list) \/ i = Len(list) + 1
  BY <1>1
<1>3. ToSet(Append(list, x)) = ToSet(list) \cup {x}
  BY <1>1, <1>2 DEF ToSet
<1>4. ASSUME IsInjective(list), x \notin ToSet(list) PROVE IsInjective(Append(list, x))
  BY <1>1, <1>2, <1>4 DEF ToSet, IsInjective
<1> QED
  BY <1>3, <1>4

LEMMA PrependsNew ==
  ASSUME NEW S, NEW list \in Seq(S), NEW x \in S
  PROVE  /\ ToSet(<<x>> \o list) = ToSet(list) \cup {x}
         /\ IsInjective(list) /\ x \notin ToSet(list) => IsInjective(<<x>> \o list)
<1> DEFINE longer == <<x>> \o list
<1>1. /\ Len(longer) = Len(list) + 1 /\ longer[1] = x /\ Len(list) \in Nat
      /\ \A i \in 1 .. Len(list) + 1 : i # 1 => longer[i] = list[i - 1]
      /\ longer \in Seq(S)
  <2>1. <<x>> \in Seq(S) /\ Len(<<x>>) = 1
    OBVIOUS
  <2> QED
    BY <2>1, ConcatProperties
<1> HIDE DEF longer
<1>2. DOMAIN longer = 1 .. Len(list) + 1 /\ DOMAIN list = 1 .. Len(list)
  BY <1>1
<1>3. \A i \in 1 .. Len(list) : i + 1 \in DOMAIN longer /\ longer[i + 1] = list[i]
  BY <1>1, <1>2
<1>4. \A i \in DOMAIN longer : i # 1 => i - 1 \in DOMAIN list /\ longer[i] = list[i - 1]
  BY <1>1, <1>2
<1>5. ToSet(longer) = ToSet(list) \cup {x}
  <2>1. 1 \in DOMAIN longer
    BY <1>1, <1>2
  <2>2. ASSUME NEW y \in ToSet(longer) PROVE y \in ToSet(list) \cup {x}
    <3>1. PICK i \in DOMAIN longer : y = longer[i]
      BY DEF ToSet
    <3> QED
      BY <1>1, <1>4, <3>1 DEF ToSet
  <2>3. ASSUME NEW y \in ToSet(list) PROVE y \in ToSet(longer)
    <3>1. PICK i \in DOMAIN list : y = list[i]
      BY DEF ToSet
    <3> QED
      BY <1>2, <1>3, <3>1 DEF ToSet
  <2> QED
    BY <1>1, <2>1, <2>2, <2>3 DEF ToSet
<1>6. ASSUME IsInjective(list), x \notin ToSet(list) PROVE IsInjective(longer)
  <2> SUFFICES ASSUME NEW i \in DOMAIN longer, NEW j \in DOMAIN longer, longer[i] = longer[j], i # j
               PROVE  FALSE
    BY DEF IsInjective
  <2>1. CASE i = 1 \/ j = 1
    BY <1>1, <1>4, <1>6, <2>1 DEF ToSet
  <2>2. CASE i # 1 /\ j # 1
    <3>1. i - 1 \in DOMAIN list /\ j - 1 \in DOMAIN list /\ list[i - 1] = list[j - 1]
      BY <1>4, <2>2
    <3>2. i - 1 = j - 1
      BY <1>6, <3>1 DEF IsInjective
    <3> QED
      BY <1>2, <3>2
  <2> QED
    BY <2>1, <2>2
<1> QED
  BY <1>5, <1>6 DEF longer

LEMMA TailOfNew ==
  ASSUME NEW S, NEW list \in Seq(S), list # <<>>
  PROVE  /\ ToSet(list) = ToSet(Tail(list)) \cup {Head(list)} /\ Head(list) \in S
         /\ IsInjective(list) => IsInjective(Tail(list)) /\ Head(list) \notin ToSet(Tail(list))
<1>1. /\ 1 \in DOMAIN list /\ Head(list) = list[1] /\ Head(list) \in S
      /\ \A i \in DOMAIN Tail(list) : i + 1 \in DOMAIN list /\ Tail(list)[i] = list[i + 1] /\ i \in Nat \ {0}
      /\ \A i \in DOMAIN list : i # 1 => i - 1 \in DOMAIN Tail(list) /\ Tail(list)[i - 1] = list[i]
  OBVIOUS
<1>2. ASSUME NEW x \in ToSet(list) PROVE x \in ToSet(Tail(list)) \cup {Head(list)}
  <2>1. PICK i \in DOMAIN list : x = list[i]
    BY DEF ToSet
  <2> QED
    BY <1>1, <2>1 DEF ToSet
<1>3. ASSUME NEW x \in ToSet(Tail(list)) PROVE x \in ToSet(list)
  <2>1. PICK i \in DOMAIN Tail(list) : x = Tail(list)[i]
    BY DEF ToSet
  <2> QED
    BY <1>1, <2>1 DEF ToSet
<1>4. ASSUME IsInjective(list) PROVE IsInjective(Tail(list)) /\ Head(list) \notin ToSet(Tail(list))
  <2>1. ASSUME NEW i \in DOMAIN Tail(list), NEW j \in DOMAIN Tail(list), Tail(list)[i] = Tail(list)[j]
        PROVE  i = j
    <3>1. i + 1 = j + 1
      BY <1>1, <1>4, <2>1 DEF IsInjective
    <3> QED
      BY <1>1, <3>1
  <2>2. ASSUME NEW i \in DOMAIN Tail(list), Tail(list)[i] = Head(list) PROVE FALSE
    <3>1. i + 1 = 1
      BY <1>1, <1>4, <2>2 DEF IsInjective
    <3> QED
      BY <1>1, <3>1
  <2> QED
    BY <2>1, <2>2 DEF IsInjective, ToSet
<1>5. Head(list) \in ToSet(list)
  BY <1>1 DEF ToSet
<1>6. ToSet(list) = ToSet(Tail(list)) \cup {Head(list)}
  BY <1>2, <1>3, <1>5
<1> QED
  BY <1>1, <1>4, <1>6

-----------------------------------------------------------------------------
(* Tickets and addresses. *)

LEMMA MishapsStay ==
  ASSUME TypeOK, ItemsExist, Next
  PROVE  mishaps \subseteq mishaps'
<1>1. ASSUME NEW b \in Blocks, ReportBlockDeletion(b) PROVE mishaps \subseteq mishaps'
  <2>1. CASE JobOf(Head(deleting[b])) = 0
    BY <1>1, <2>1 DEF ReportBlockDeletion
  <2>2. CASE JobOf(Head(deleting[b])) # 0
    BY <1>1, <2>2, ReportFinds
  <2> QED
    BY <2>1, <2>2
<1>2. ASSUME PerformDeleteJob PROVE mishaps \subseteq mishaps'
  BY <1>2 DEF PerformDeleteJob
<1>3. ASSUME NEW s \in Sessions, ThreadMonitorNewConnection(s) PROVE mishaps \subseteq mishaps'
  BY <1>3 DEF ThreadMonitorNewConnection
<1>4. ASSUME NEW b \in Blocks, ReportFailedBlockServer(b) PROVE mishaps \subseteq mishaps'
  BY <1>4 DEF ReportFailedBlockServer
<1>5. CASE \E i \in Slots : RemoveConnection(i)
  BY <1>5 DEF RemoveConnection
<1>6. CASE \E i \in Slots, kind \in Kinds, f \in Files : ProcessRecvdCmd(i, kind, f)
  BY <1>6 DEF ProcessRecvdCmd
<1>7. CASE \/ StartWriteJob \/ PerformCreateJob \/ PerformOpenJob \/ PerformWriteOverJob
           \/ PerformDeleteDoneJob \/ PerformDeleteBlocksJob
  BY <1>7 DEF StartWriteJob, PerformCreateJob, PerformOpenJob, PerformWriteOverJob,
              PerformDeleteDoneJob, PerformDeleteBlocksJob
<1> QED
  BY <1>1, <1>2, <1>3, <1>4, <1>5, <1>6, <1>7 DEF Next, Clients, Threads, Worker, BlockMgr

LEMMA RepliesTyped ==
  ASSUME TypeOK
  PROVE  \A s \in Sessions : /\ replies[s] \in Seq(Sessions \X Nat)
                             /\ \A reply \in ToSet(replies[s]) :
                                   reply = <<reply[1], reply[2]>> /\ reply[1] \in Sessions
<1> SUFFICES ASSUME NEW s \in Sessions
             PROVE  /\ replies[s] \in Seq(Sessions \X Nat)
                    /\ \A reply \in ToSet(replies[s]) :
                         reply = <<reply[1], reply[2]>> /\ reply[1] \in Sessions
  OBVIOUS
<1>1. replies[s] \in Seq(Sessions \X Nat)
  BY DEF TypeOK
<1>2. ToSet(replies[s]) \subseteq Sessions \X Nat
  BY <1>1, ElementOfSeq DEF ToSet
<1> QED
  BY <1>1, <1>2

\* The sends of the client thread and of the client.
LEMMA SessionSent ==
  ASSUME TypeOK, Next, ~\E i \in Slots, kind \in Kinds, f \in Files : ProcessRecvdCmd(i, kind, f)
  PROVE  \A s \in Sessions : session'[s].sent = session[s].sent
<1>0. session \in [Sessions -> SessionRec]
  BY DEF TypeOK, SessionRec, Cmds
<1>1. CASE \E s \in Sessions : ThreadMonitorNewConnection(s)
  BY <1>0, <1>1 DEF ThreadMonitorNewConnection, SessionRec
<1>2. CASE \E i \in Slots : RemoveConnection(i)
  BY <1>0, <1>2 DEF RemoveConnection, SessionRec
<1>3. CASE StartWriteJob
  <2> DEFINE s == Recipient(Head(clientQ))
  <2>1. CASE session' = session
    BY <2>1
  <2>2. CASE session' = [session EXCEPT
                  ![s].waiting = {cmd \in @ : cmd.no # Head(clientQ).no},
                  ![s].opened = IF Head(clientQ).ok THEN @ \cup {Head(clientQ).file} ELSE @]
    BY <1>0, <2>2 DEF SessionRec
  <2> QED
    BY <1>3, <2>1, <2>2 DEF StartWriteJob
<1>4. CASE Worker
  <2>1. session' = session
    <3>1. CASE PerformCreateJob
      BY <3>1 DEF PerformCreateJob, clientVars
    <3>2. CASE PerformOpenJob
      BY <3>2 DEF PerformOpenJob, clientVars
    <3>3. CASE PerformWriteOverJob
      BY <3>3 DEF PerformWriteOverJob, clientVars
    <3>4. CASE PerformDeleteJob
      BY <3>4 DEF PerformDeleteJob, clientVars
    <3>5. CASE PerformDeleteDoneJob
      BY <3>5 DEF PerformDeleteDoneJob, clientVars
    <3> QED
      BY <1>4, <3>1, <3>2, <3>3, <3>4, <3>5 DEF Worker
  <2> QED
    BY <2>1
<1>5. CASE BlockMgr \/ \E b \in Blocks : ReportFailedBlockServer(b)
  <2>1. session' = session
    <3>1. CASE PerformDeleteBlocksJob
      BY <3>1 DEF PerformDeleteBlocksJob, clientVars
    <3>2. CASE \E b \in Blocks : ReportBlockDeletion(b)
      BY <3>2 DEF ReportBlockDeletion, clientVars
    <3>3. CASE \E b \in Blocks : ReportFailedBlockServer(b)
      BY <3>3 DEF ReportFailedBlockServer, clientVars
    <3> QED
      BY <1>5, <3>1, <3>2, <3>3 DEF BlockMgr
  <2> QED
    BY <2>1
<1> QED
  BY <1>1, <1>2, <1>3, <1>4, <1>5 DEF Next, Clients, Threads

\* What the worker and the block manager do to the jobs as a whole.
LEMMA WorkCarries ==
  ASSUME TypeOK, ItemsExist, ItemsExist', Tickets, "wrongJob" \notin mishaps', Worker \/ BlockMgr
  PROVE  /\ UNCHANGED clientVars
         /\ \/ UNCHANGED <<clientQ, workerQ, mgrQ, inProcess>>
            \/ \E o, dst, src, job : Takes(o, dst, src, job)
<1>1. CASE PerformCreateJob \/ PerformOpenJob \/ PerformWriteOverJob \/ PerformDeleteDoneJob
  <2>1. UNCHANGED clientVars
    BY <1>1 DEF PerformCreateJob, PerformOpenJob, PerformWriteOverJob, PerformDeleteDoneJob
  <2>2. \E o, job : Takes(o, <<"clientQ", Len(clientQ) + 1>>, <<"workerQ", 1>>, job)
    BY <1>1, AnswerSteps
  <2> QED
    BY <2>1, <2>2
<1>2. CASE PerformDeleteJob
  <2>1. UNCHANGED clientVars
    BY <1>2 DEF PerformDeleteJob
  <2>2. \E o, dst, src, job : Takes(o, dst, src, job)
    BY <1>2, DeleteStep
  <2> QED
    BY <2>1, <2>2
<1>3. CASE PerformDeleteBlocksJob
  <2>1. UNCHANGED clientVars
    BY <1>3 DEF PerformDeleteBlocksJob
  <2>2. \E o, dst, src, job : Takes(o, dst, src, job)
    BY <1>3, DeleteBlocksTakes
  <2> QED
    BY <2>1, <2>2
<1>4. ASSUME NEW b \in Blocks, ReportBlockDeletion(b)
      PROVE  /\ UNCHANGED clientVars
             /\ \/ UNCHANGED <<clientQ, workerQ, mgrQ, inProcess>>
                \/ \E o, dst, src, job : Takes(o, dst, src, job)
  <2>1. UNCHANGED clientVars /\ UNCHANGED <<clientQ, mgrQ>>
    BY <1>4 DEF ReportBlockDeletion
  <2>2. CASE JobOf(Head(deleting[b])) = 0
    <3>1. UNCHANGED <<inProcess, workerQ>>
      BY <1>4, <2>2 DEF ReportBlockDeletion
    <3> QED
      BY <2>1, <3>1
  <2>3. CASE JobOf(Head(deleting[b])) # 0
    <3> DEFINE pos == JobOf(Head(deleting[b]))
               job == [inProcess[pos] EXCEPT !.num = @ - 1]
    <3>2. \/ \E o : Takes(o, <<"workerQ", Len(workerQ) + 1>>, <<"inProcess", pos>>,
                          [job EXCEPT !.kind = "DeleteDone"])
          \/ \E o : Takes(o, <<"inProcess", pos>>, <<"inProcess", pos>>, job)
      BY <1>4, <2>3, ReportTakes, Zenon
    <3> HIDE DEF pos, job
    <3>1. \E o, dst, src, new : Takes(o, dst, src, new)
      BY <3>2
    <3> QED
      BY <2>1, <3>1
  <2> QED
    BY <2>2, <2>3
<1> QED
  BY <1>1, <1>2, <1>3, <1>4 DEF Worker, BlockMgr

\* The job processRecvdCmd makes.
LEMMA CommandJob ==
  ASSUME TypeOK, NEW i \in Slots, NEW kind, NEW f, ProcessRecvdCmd(i, kind, f)
  PROVE  LET s == conn[i]
         IN /\ s \in Sessions /\ s # NoConn /\ session[s].sent \in Nat
            /\ session'[s].sent = session[s].sent + 1
            /\ \A r \in Sessions : r # s => session'[r].sent = session[r].sent
            /\ \E job : /\ workerQ' = Append(workerQ, job)
                        /\ job.by = s /\ job.no = session[s].sent + 1 /\ job.slot = i
                        /\ job.kind = kind /\ kind # "DeleteDone"
            /\ UNCHANGED <<conn, replies, clientQ, mgrQ, inProcess, groupOf, filled, freeGroups,
                           deleting, crashed, mishaps>>
<1>1. session \in [Sessions -> SessionRec] /\ conn[i] \in Sessions \cup {NoConn}
  BY DEF TypeOK, SessionRec, Cmds
<1>2. conn[i] \in Sessions /\ conn[i] # NoConn
  BY <1>1 DEF ProcessRecvdCmd
<1> DEFINE s == conn[i]
           no == session[s].sent + 1
           new == [by |-> s, no |-> no, kind |-> kind, file |-> f, slot |-> i,
                   item |-> NoGroup, num |-> 0, ok |-> FALSE]
<1>3. session[s].sent \in Nat
  BY <1>1, <1>2 DEF SessionRec
<1>4. session' = [session EXCEPT
        ![s].sent = no,
        ![s].waiting = IF kind = "WriteOver" THEN @ ELSE @ \cup {[no |-> no, kind |-> kind, file |-> f]},
        ![s].opened = IF kind \in {"WriteOver", "Delete"} THEN @ \ {f} ELSE @]
  BY DEF ProcessRecvdCmd
<1> HIDE DEF s, no
<1>5. session'[s].sent = no /\ \A r \in Sessions : r # s => session'[r].sent = session[r].sent
  BY <1>1, <1>2, <1>4 DEF SessionRec, s
<1>6. workerQ' = Append(workerQ, new)
  BY DEF ProcessRecvdCmd, s, no
<1>7. UNCHANGED <<conn, replies, clientQ, mgrQ, inProcess, groupOf, filled, freeGroups,
                  deleting, crashed, mishaps>>
  BY DEF ProcessRecvdCmd, nameVars, mgrVars
<1>8. new.by = s /\ new.no = no /\ new.slot = i /\ new.kind = kind
  OBVIOUS
<1>9. kind # "DeleteDone"
  BY DEF ProcessRecvdCmd, MaySend
<1> QED
  BY <1>2, <1>3, <1>5, <1>6, <1>7, <1>8, <1>9 DEF s, no

LEMMA TicketsKept ==
  ASSUME TypeOK, TypeOK', ItemsExist, ItemsExist', Next, "wrongJob" \notin mishaps', Tickets
  PROVE  Tickets'
<1>1. CASE Worker \/ BlockMgr
  <2>1. \A s \in Sessions : session'[s].sent = session[s].sent
    BY <1>1, WorkCarries DEF clientVars
  <2>2. replies' = replies
    BY <1>1, WorkCarries DEF clientVars
  <2>3. CASE UNCHANGED <<clientQ, workerQ, mgrQ, inProcess>>
    <3>1. Places' = Places /\ \A p \in Places : At(Queues', p) = JobAt(p)
      BY <2>3, Unmoved
    <3>2. session' = session
      BY <1>1, WorkCarries DEF clientVars
    <3>3. /\ \A p \in Places' : At(Queues', p).no <= session'[At(Queues', p).by].sent
          /\ \A p, q \in Places' : p # q => Ticket(At(Queues', p)) # Ticket(At(Queues', q))
          /\ \A s \in Sessions : \A reply \in ToSet(replies[s]) :
               \A p \in Places' : reply # Ticket(At(Queues', p))
      BY <3>1, <3>2 DEF Tickets
    <3> QED
      BY <2>2, <3>2, <3>3 DEF Tickets, JobAt, At
  <2>4. CASE \E o, dst, src, job : Takes(o, dst, src, job)
    BY <2>1, <2>2, <2>4, TicketsStay
  <2> QED
    BY <1>1, <2>3, <2>4, WorkCarries
<1>2. CASE StartWriteJob
  <2> DEFINE job == Head(clientQ)
             src == <<"clientQ", 1>>
             dst == <<"clientQ", 0>>
             s == Recipient(job)
  <2>1. ~\E i \in Slots, kind \in Kinds, f \in Files : ProcessRecvdCmd(i, kind, f)
    <3>1. clientQ' = Tail(clientQ) /\ clientQ \in Seq(Naming) /\ clientQ # <<>>
      BY <1>2 DEF StartWriteJob, ItemsExist
    <3>2. clientQ' # clientQ
      BY <3>1
    <3>3. ASSUME NEW i \in Slots, NEW kind, NEW f, ProcessRecvdCmd(i, kind, f) PROVE FALSE
      BY <3>2, <3>3, CommandJob
    <3> QED
      BY <3>3
  <2>2. \A r \in Sessions : session'[r].sent = session[r].sent
    BY <2>1, SessionSent
  <2>3. PICK o : Takes(o, dst, src, job)
    BY <1>2, StartWriteTakes
  <2>4. dst \notin Places' /\ src \in Places /\ JobAt(src) = job /\ job \in Jobs
    BY <1>2, StartWriteTakes, QueueTypes
  <2>5. /\ \A p \in Places' : At(Queues', p).no <= session'[At(Queues', p).by].sent
        /\ \A p, q \in Places' : p # q => Ticket(At(Queues', p)) # Ticket(At(Queues', q))
        /\ \A r \in Sessions : \A reply \in ToSet(replies[r]) :
             \A p \in Places' : reply # Ticket(At(Queues', p))
        /\ \A p \in Places' : Ticket(At(Queues', p)) # Ticket(job)
    BY <2>2, <2>3, <2>4, TicketsCarried
  <2>6. \/ replies' = replies
        \/ s \in Sessions /\ replies' = [replies EXCEPT ![s] = Append(@, Ticket(job))]
    <3>1. s \in Sessions \cup {NoConn}
      BY <2>4 DEF Recipient, TypeOK, Jobs
    <3>2. \/ replies' = replies
          \/ s # NoConn /\ replies' = [replies EXCEPT ![s] = Append(@, <<job.by, job.no>>)]
      BY <1>2 DEF StartWriteJob
    <3> HIDE DEF s, job
    <3>3. Ticket(job) = <<job.by, job.no>>
      BY DEF Ticket
    <3> QED
      BY <3>1, <3>2, <3>3
  <2>7. Ticket(job) \in Sessions \X Nat /\ Ticket(job)[1] = job.by /\ Ticket(job)[2] = job.no
    BY <2>4 DEF Ticket, Jobs
  <2>8. job.no <= session[job.by].sent /\ job.by \in Sessions
    BY <2>4 DEF Tickets, Jobs
  <2> HIDE DEF s, job, src, dst
  <2>9. ASSUME NEW r \in Sessions
        PROVE  /\ IsInjective(replies'[r])
               /\ \A reply \in ToSet(replies'[r]) :
                    /\ reply[2] <= session'[reply[1]].sent
                    /\ \A p \in Places' : reply # Ticket(At(Queues', p))
    <3>1. /\ IsInjective(replies[r]) /\ Ticket(job) \notin ToSet(replies[r])
          /\ \A reply \in ToSet(replies[r]) : reply[2] <= session[reply[1]].sent
      BY <2>4 DEF Tickets
    <3>2. /\ replies[r] \in Seq(Sessions \X Nat)
          /\ \A reply \in ToSet(replies[r]) : reply[1] \in Sessions
      BY RepliesTyped
    <3>3. \/ replies'[r] = replies[r]
          \/ replies'[r] = Append(replies[r], Ticket(job))
      BY <2>6 DEF TypeOK
    <3>4. /\ IsInjective(replies'[r])
          /\ ToSet(replies'[r]) \subseteq ToSet(replies[r]) \cup {Ticket(job)}
      <4>1. CASE replies'[r] = replies[r]
        BY <3>1, <4>1
      <4>2. CASE replies'[r] = Append(replies[r], Ticket(job))
        <5>1. /\ IsInjective(Append(replies[r], Ticket(job)))
              /\ ToSet(Append(replies[r], Ticket(job))) = ToSet(replies[r]) \cup {Ticket(job)}
          BY <2>7, <3>1, <3>2, AppendsNew
        <5> QED
          BY <4>2, <5>1
      <4> QED
        BY <3>3, <4>1, <4>2
    <3>5. ASSUME NEW reply \in ToSet(replies'[r])
          PROVE  /\ reply[2] <= session'[reply[1]].sent
                 /\ \A p \in Places' : reply # Ticket(At(Queues', p))
      <4>1. CASE reply \in ToSet(replies[r])
        BY <2>2, <2>5, <3>1, <3>2, <4>1
      <4>2. CASE reply = Ticket(job)
        BY <2>2, <2>5, <2>7, <2>8, <4>2
      <4> QED
        BY <3>4, <3>5, <4>1, <4>2
    <3> QED
      BY <3>4, <3>5
  <2> QED
    BY <2>5, <2>9 DEF Tickets, JobAt, At
<1>3. ASSUME NEW i \in Slots, NEW kind, NEW f, ProcessRecvdCmd(i, kind, f) PROVE Tickets'
  <2> DEFINE s == conn[i]
  <2>1. /\ s \in Sessions /\ session[s].sent \in Nat
        /\ session'[s].sent = session[s].sent + 1
        /\ \A r \in Sessions : r # s => session'[r].sent = session[r].sent
        /\ UNCHANGED <<replies, clientQ, mgrQ, inProcess>>
    BY <1>3, CommandJob
  <2>2. PICK job : workerQ' = Append(workerQ, job) /\ job.by = s /\ job.no = session[s].sent + 1
    BY <1>3, CommandJob
  <2> HIDE DEF s
  <2>3. \A p \in Places' : \/ p \in Places /\ At(Queues', p) = JobAt(p)
                           \/ /\ p = <<"workerQ", Len(workerQ) + 1>>
                              /\ At(Queues', p) = job /\ p \notin Places
    BY <2>1, <2>2, Joins
  <2>4. \A p \in Places : JobAt(p).by \in Sessions /\ JobAt(p).no \in Nat
    BY QueueTypes DEF Jobs
  <2>5. \A r \in Sessions : session[r].sent \in Nat /\ session'[r].sent \in Nat
                            /\ session[r].sent <= session'[r].sent
    <3>1. \A r \in Sessions : session[r].sent \in Nat
      BY DEF TypeOK
    <3> QED
      BY <2>1, <3>1
  <2>6. \A p \in Places : JobAt(p).by = s => JobAt(p).no < job.no
    BY <2>1, <2>2, <2>4 DEF Tickets
  <2>7. \A p \in Places : Ticket(JobAt(p)) # Ticket(job)
    BY <2>1, <2>2, <2>4, <2>6 DEF Ticket
  <2>8. \A p \in Places' : At(Queues', p).no <= session'[At(Queues', p).by].sent
    <3>1. \A p \in Places : JobAt(p).no <= session'[JobAt(p).by].sent
      BY <2>4, <2>5 DEF Tickets
    <3>2. job.no <= session'[job.by].sent
      BY <2>1, <2>2
    <3> QED
      BY <2>3, <3>1, <3>2
  <2>9. \A p, q \in Places' : p # q => Ticket(At(Queues', p)) # Ticket(At(Queues', q))
    BY <2>3, <2>7 DEF Tickets
  <2>10. \A r \in Sessions : \A reply \in ToSet(replies[r]) :
           /\ reply[2] <= session'[reply[1]].sent
           /\ \A p \in Places' : reply # Ticket(At(Queues', p))
    <3> SUFFICES ASSUME NEW r \in Sessions, NEW reply \in ToSet(replies[r])
                 PROVE  /\ reply[2] <= session'[reply[1]].sent
                        /\ \A p \in Places' : reply # Ticket(At(Queues', p))
      OBVIOUS
    <3>1. reply[1] \in Sessions /\ reply[2] \in Nat /\ reply[2] <= session[reply[1]].sent
      <4>1. ToSet(replies[r]) \subseteq Sessions \X Nat
        BY RepliesTyped, ElementOfSeq DEF ToSet
      <4> QED
        BY <4>1 DEF Tickets
    <3>2. reply[2] <= session'[reply[1]].sent
      BY <2>5, <3>1
    <3>3. reply # Ticket(job)
      BY <2>1, <2>2, <3>1 DEF Ticket
    <3> QED
      BY <2>3, <3>2, <3>3 DEF Tickets
  <2>11. \A r \in Sessions : IsInjective(replies[r])
    BY DEF Tickets
  <2> QED
    BY <2>1, <2>8, <2>9, <2>10, <2>11 DEF Tickets, JobAt, At
<1>4. CASE \/ \E s \in Sessions : ThreadMonitorNewConnection(s)
           \/ \E i \in Slots : RemoveConnection(i)
           \/ \E b \in Blocks : ReportFailedBlockServer(b)
  <2>1. UNCHANGED <<replies, clientQ, workerQ, mgrQ, inProcess>>
    BY <1>4 DEF ThreadMonitorNewConnection, RemoveConnection, ReportFailedBlockServer, mgrVars, clientVars
  <2>2. ~\E i \in Slots, kind \in Kinds, f \in Files : ProcessRecvdCmd(i, kind, f)
    <3>1. workerQ \in Seq(Naming)
      BY DEF ItemsExist
    <3>2. ASSUME NEW i \in Slots, NEW kind, NEW f, ProcessRecvdCmd(i, kind, f) PROVE FALSE
      <4>1. PICK job : workerQ' = Append(workerQ, job)
        BY <3>2, CommandJob
      <4>2. Len(workerQ') = Len(workerQ) + 1 /\ Len(workerQ) \in Nat
        BY <3>1, <4>1, AppendProperties
      <4> QED
        BY <2>1, <4>2
    <3> QED
      BY <3>2
  <2>3. \A r \in Sessions : session'[r].sent = session[r].sent
    BY <2>2, SessionSent
  <2>4. Places' = Places /\ \A p \in Places : At(Queues', p) = JobAt(p) /\ JobAt(p).by \in Sessions
    BY <2>1, Unmoved, QueueTypes DEF Jobs
  <2>5. \A s \in Sessions : \A reply \in ToSet(replies[s]) : reply[1] \in Sessions
    BY RepliesTyped
  <2>6. /\ \A p \in Places' : At(Queues', p).no <= session'[At(Queues', p).by].sent
        /\ \A p, q \in Places' : p # q => Ticket(At(Queues', p)) # Ticket(At(Queues', q))
        /\ \A s \in Sessions : /\ IsInjective(replies[s])
                               /\ \A reply \in ToSet(replies[s]) :
                                    /\ reply[2] <= session'[reply[1]].sent
                                    /\ \A p \in Places' : reply # Ticket(At(Queues', p))
    BY <2>3, <2>4, <2>5 DEF Tickets
  <2> QED
    BY <2>1, <2>6 DEF Tickets, JobAt, At
<1> QED
  BY <1>1, <1>2, <1>3, <1>4 DEF Next, Clients, Threads

LEMMA EachInFlight ==
  ASSUME ItemsExist
  PROVE  \A p \in Places : JobAt(p) \in InFlight
<1> SUFFICES ASSUME NEW p \in Places PROVE JobAt(p) \in InFlight
  OBVIOUS
<1>1. Queues \in QueuesOf(Jobs) /\ Places = PlacesOf(Queues)
  BY QueueTypes
<1>2. p[1] \in QueueNames /\ p[2] \in 1 .. Len(Queues[p[1]])
  BY <1>1, PlaceNames
<1>3. p[2] \in DOMAIN Queues[p[1]]
  BY <1>1, <1>2 DEF QueuesOf
<1>4. JobAt(p) \in ToSet(Queues[p[1]])
  BY <1>3 DEF JobAt, ToSet
<1> QED
  BY <1>2, <1>4, QueueFields DEF InFlight, QueueNames

LEMMA AddressedKept ==
  ASSUME TypeOK, TypeOK', ItemsExist, ItemsExist', Next, Tickets,
         mishaps' \cap {"wrongJob", "slotReused"} = {}, Addressed
  PROVE  Addressed'
<1>0. "wrongJob" \notin mishaps' /\ "slotReused" \notin mishaps'
  OBVIOUS
<1>j. \A p \in Places : JobAt(p) \in Jobs /\ JobAt(p).slot \in Slots /\ JobAt(p).by \in Sessions
  BY QueueTypes DEF Jobs
<1>1. CASE Worker \/ BlockMgr
  <2>1. UNCHANGED clientVars
    BY <1>0, <1>1, WorkCarries
  <2>2. CASE UNCHANGED <<clientQ, workerQ, mgrQ, inProcess>>
    <3>1. \A p \in Places' : conn[At(Queues', p).slot] \in {At(Queues', p).by, NoConn}
      BY <2>2, Unmoved DEF Addressed
    <3> QED
      BY <2>1, <3>1 DEF Addressed, JobAt, At, clientVars
  <2>3. CASE \E o, dst, src, job : Takes(o, dst, src, job)
    BY <2>1, <2>3, AddressesStay
  <2> QED
    BY <1>0, <1>1, <2>2, <2>3, WorkCarries
<1>2. CASE StartWriteJob
  <2> DEFINE job == Head(clientQ)
             src == <<"clientQ", 1>>
             s == Recipient(job)
  <2>1. PICK o : Takes(o, <<"clientQ", 0>>, src, job)
    BY <1>2, StartWriteTakes
  <2>2. src \in Places /\ JobAt(src) = job
    BY <1>2, StartWriteTakes
  <2>3. conn' = conn
    BY <1>2 DEF StartWriteJob
  <2>4. \A p \in Places' : conn'[At(Queues', p).slot] \in {At(Queues', p).by, NoConn}
    <3>1. \A p \in Places' : /\ o[p] \in Places /\ At(Queues', p).by = JobAt(o[p]).by
                             /\ At(Queues', p).slot = JobAt(o[p]).slot
      BY <2>1, Carried
    <3> QED
      BY <2>3, <3>1 DEF Addressed
  <2>5. s \in {job.by, NoConn} /\ job.by \in Sessions
    BY <1>j, <2>2 DEF Addressed, Recipient
  <2>6. \/ replies' = replies
        \/ s # NoConn /\ replies' = [replies EXCEPT ![s] = Append(@, <<job.by, job.no>>)]
    BY <1>2 DEF StartWriteJob
  <2>7. <<job.by, job.no>> \in Sessions \X Nat
    BY <1>j, <2>2 DEF Jobs
  <2> HIDE DEF s, job
  <2>8. ASSUME NEW r \in Sessions, NEW reply \in ToSet(replies'[r]) PROVE reply[1] = r
    <3>1. CASE replies'[r] = replies[r]
      BY <2>8, <3>1 DEF Addressed
    <3>2. CASE replies'[r] # replies[r]
      <4>1. s = r /\ replies'[r] = Append(replies[r], <<job.by, job.no>>) /\ job.by = r
        BY <2>5, <2>6, <3>2 DEF TypeOK
      <4>2. ToSet(replies'[r]) = ToSet(replies[r]) \cup {<<job.by, job.no>>}
        BY <2>7, <4>1, RepliesTyped, AppendsNew
      <4> QED
        BY <2>8, <4>1, <4>2 DEF Addressed
    <3> QED
      BY <3>1, <3>2
  <2> QED
    BY <2>4, <2>8 DEF Addressed, JobAt, At
<1>3. ASSUME NEW i \in Slots, NEW kind, NEW f, ProcessRecvdCmd(i, kind, f) PROVE Addressed'
  <2>1. UNCHANGED <<conn, replies, clientQ, mgrQ, inProcess>>
    BY <1>3, CommandJob
  <2>2. PICK job : workerQ' = Append(workerQ, job) /\ job.by = conn[i] /\ job.slot = i
    BY <1>3, CommandJob
  <2>3. \A p \in Places' : \/ p \in Places /\ At(Queues', p) = JobAt(p)
                           \/ At(Queues', p) = job
    BY <2>1, <2>2, Joins
  <2>4. \A p \in Places' : conn[At(Queues', p).slot] \in {At(Queues', p).by, NoConn}
    BY <2>2, <2>3 DEF Addressed
  <2> QED
    BY <2>1, <2>4 DEF Addressed, JobAt, At
<1>4. ASSUME NEW s \in Sessions, ThreadMonitorNewConnection(s) PROVE Addressed'
  <2>1. UNCHANGED <<replies, clientQ, workerQ, mgrQ, inProcess>>
    BY <1>4 DEF ThreadMonitorNewConnection, mgrVars
  <2>2. PICK i \in Slots : /\ conn' = [conn EXCEPT ![i] = s]
                           /\ mishaps' = mishaps \cup
                                {m \in {"slotReused"} : \E job \in InFlight : job.slot = i}
    BY <1>4 DEF ThreadMonitorNewConnection
  <2>3. \A job \in InFlight : job.slot # i
    BY <1>0, <2>2
  <2>4. \A p \in Places : conn'[JobAt(p).slot] = conn[JobAt(p).slot]
    BY <1>j, <2>2, <2>3, EachInFlight DEF TypeOK
  <2>5. \A p \in Places' : conn'[At(Queues', p).slot] \in {At(Queues', p).by, NoConn}
    BY <2>1, <2>4, Unmoved DEF Addressed
  <2> QED
    BY <2>1, <2>5 DEF Addressed, JobAt, At
<1>5. ASSUME NEW i \in Slots, RemoveConnection(i) PROVE Addressed'
  <2>1. UNCHANGED <<replies, clientQ, workerQ, mgrQ, inProcess>> /\ conn' = [conn EXCEPT ![i] = NoConn]
    BY <1>5 DEF RemoveConnection, mgrVars
  <2>2. \A p \in Places : conn'[JobAt(p).slot] \in {conn[JobAt(p).slot], NoConn}
    BY <1>j, <2>1 DEF TypeOK
  <2>3. \A p \in Places' : conn'[At(Queues', p).slot] \in {At(Queues', p).by, NoConn}
    BY <2>1, <2>2, Unmoved DEF Addressed
  <2> QED
    BY <2>1, <2>3 DEF Addressed, JobAt, At
<1>6. ASSUME NEW b \in Blocks, ReportFailedBlockServer(b) PROVE Addressed'
  <2>1. UNCHANGED <<conn, replies, clientQ, workerQ, mgrQ, inProcess>>
    BY <1>6 DEF ReportFailedBlockServer, clientVars
  <2>2. \A p \in Places' : conn'[At(Queues', p).slot] \in {At(Queues', p).by, NoConn}
    BY <2>1, Unmoved DEF Addressed
  <2> QED
    BY <2>1, <2>2 DEF Addressed, JobAt, At
<1> QED
  BY <1>1, <1>2, <1>3, <1>4, <1>5, <1>6 DEF Next, Clients, Threads

-----------------------------------------------------------------------------
(* Each group has one owner. *)

Named == {f \in Files : groupOf[f] # NoGroup}

LEMMA DeletionItems ==
  ASSUME TypeOK, ItemsExist
  PROVE  /\ \A p \in DeletionPlaces : p \in Places /\ JobAt(p).item \in DOMAIN filled
         /\ \A f \in Named : groupOf[f] \in DOMAIN filled
         /\ ToSet(freeGroups) \subseteq DOMAIN filled
         /\ freeGroups \in Seq(DOMAIN filled) /\ NoGroup \notin DOMAIN filled
<1>1. ASSUME NEW p \in DeletionPlaces PROVE p \in Places /\ JobAt(p).item \in DOMAIN filled
  <2>1. p \in Places /\ p[1] # "clientQ" /\ (p[1] = "workerQ" => JobAt(p).kind = "DeleteDone")
    BY DEF DeletionPlaces
  <2>2. p[1] \in QueueNames /\ p[2] \in 1 .. Len(Queues[p[1]])
    BY <2>1, QueueTypes, PlaceNames
  <2>3. CASE p[1] = "workerQ"
    <3>1. JobAt(p) \in Naming
      BY <2>2, <2>3, QueueFields, ElementOfSeq DEF JobAt, ItemsExist
    <3> QED
      BY <2>1, <2>3, <3>1 DEF Naming
  <2>4. CASE p[1] = "mgrQ"
    <3>1. JobAt(p) \in Deleting
      BY <2>2, <2>4, QueueFields, ElementOfSeq DEF JobAt, ItemsExist
    <3> QED
      BY <2>1, <3>1 DEF Deleting
  <2>5. CASE p[1] = "inProcess"
    <3>1. JobAt(p) \in Deleting
      BY <2>2, <2>5, QueueFields, ElementOfSeq DEF JobAt, ItemsExist
    <3> QED
      BY <2>1, <3>1 DEF Deleting
  <2> QED
    BY <2>1, <2>2, <2>3, <2>4, <2>5 DEF QueueNames
<1>2. \A f \in Named : groupOf[f] \in DOMAIN filled
  BY DEF Named, TypeOK
<1>3. freeGroups \in Seq(DOMAIN filled) /\ ToSet(freeGroups) \subseteq DOMAIN filled
  BY ElementOfSeq DEF TypeOK, ToSet
<1>4. NoGroup \notin DOMAIN filled
  BY DEF TypeOK, NoGroup
<1> QED
  BY <1>1, <1>2, <1>3, <1>4

\* The invariant after a step, of what was carried.
LEMMA OwnersAfter ==
  ASSUME \A p, q \in DeletionPlaces' : p # q => At(Queues', p).item # At(Queues', q).item,
         \A e, f \in Named' : e # f => groupOf'[e] # groupOf'[f],
         IsInjective(freeGroups'),
         \A p \in DeletionPlaces', f \in Named' : At(Queues', p).item # groupOf'[f],
         \A p \in DeletionPlaces', g \in ToSet(freeGroups') : At(Queues', p).item # g,
         \A f \in Named', g \in ToSet(freeGroups') : groupOf'[f] # g
  PROVE  EachGroupHasOneOwner'
BY DEF EachGroupHasOneOwner, Named, JobAt, At

\* A job that goes to the client thread leaves the deletions as they were.
LEMMA OthersStay ==
  ASSUME ItemsExist, ItemsExist', NEW o, NEW dst, NEW src, NEW job, Takes(o, dst, src, job),
         dst[1] = "clientQ", EachGroupHasOneOwner
  PROVE  /\ \A p \in DeletionPlaces' :
              o[p] \in DeletionPlaces /\ o[p] # src /\ At(Queues', p).item = JobAt(o[p]).item
         /\ \A p, q \in DeletionPlaces' : p # q => At(Queues', p).item # At(Queues', q).item
         /\ \A p \in DeletionPlaces', f \in Named : At(Queues', p).item # groupOf[f]
         /\ \A p \in DeletionPlaces', g \in ToSet(freeGroups) : At(Queues', p).item # g
<1>1. dst \notin DeletionPlaces'
  BY DEF DeletionPlaces
<1>2. \A p \in DeletionPlaces' :
        o[p] \in DeletionPlaces /\ o[p] # src /\ At(Queues', p).item = JobAt(o[p]).item
  BY <1>1, DeletionsCarried
<1>3. \A p, q \in DeletionPlaces' : p # q => o[p] # o[q]
  BY DeletionsCarried
<1>4. \A p, q \in DeletionPlaces' : p # q => At(Queues', p).item # At(Queues', q).item
  BY <1>2, <1>3 DEF EachGroupHasOneOwner
<1>5. \A p \in DeletionPlaces', f \in Named : At(Queues', p).item # groupOf[f]
  BY <1>2 DEF EachGroupHasOneOwner, Named
<1>6. \A p \in DeletionPlaces', g \in ToSet(freeGroups) : At(Queues', p).item # g
  BY <1>2 DEF EachGroupHasOneOwner
<1> QED
  BY <1>2, <1>4, <1>5, <1>6

LEMMA CreateOwners ==
  ASSUME TypeOK, TypeOK', ItemsExist, ItemsExist', PerformCreateJob, EachGroupHasOneOwner
  PROVE  EachGroupHasOneOwner'
<1> DEFINE name == Head(workerQ).file
<1>1. PICK o : \E job : Takes(o, <<"clientQ", Len(clientQ) + 1>>, <<"workerQ", 1>>, job)
  BY AnswerSteps
<1>2. /\ \A p, q \in DeletionPlaces' : p # q => At(Queues', p).item # At(Queues', q).item
      /\ \A p \in DeletionPlaces', f \in Named : At(Queues', p).item # groupOf[f]
      /\ \A p \in DeletionPlaces', g \in ToSet(freeGroups) : At(Queues', p).item # g
      /\ \A p \in DeletionPlaces' : \E q \in DeletionPlaces : At(Queues', p).item = JobAt(q).item
  BY <1>1, OthersStay
<1>3. /\ \A e, f \in Named : e # f => groupOf[e] # groupOf[f]
      /\ IsInjective(freeGroups)
      /\ \A f \in Named, g \in ToSet(freeGroups) : groupOf[f] # g
  BY DEF EachGroupHasOneOwner, Named
<1>4. name \in Files
  <2>1. workerQ \in Seq(Naming) /\ workerQ # <<>>
    BY DEF PerformCreateJob, WorkerTakes, ItemsExist
  <2> QED
    BY <2>1, HeadTailProperties DEF Naming, Jobs
<1>5. CASE groupOf[name] # NoGroup
  <2>1. groupOf' = groupOf /\ freeGroups' = freeGroups
    BY <1>5 DEF PerformCreateJob, nameVars
  <2> QED
    BY <1>2, <1>3, <2>1, OwnersAfter DEF Named
<1>6. CASE groupOf[name] = NoGroup /\ freeGroups # <<>>
  <2> DEFINE g == Head(freeGroups)
  <2>1. groupOf' = [groupOf EXCEPT ![name] = g] /\ freeGroups' = Tail(freeGroups)
    BY <1>6 DEF PerformCreateJob
  <2>2. /\ ToSet(freeGroups) = ToSet(freeGroups') \cup {g}
        /\ IsInjective(freeGroups') /\ g \notin ToSet(freeGroups')
    BY <1>3, <1>6, <2>1, DeletionItems, TailOfNew
  <2> HIDE DEF name, g
  <2>3. /\ Named' \subseteq Named \cup {name}
        /\ \A f \in Named' : groupOf'[f] = IF f = name THEN g ELSE groupOf[f]
    BY <2>1 DEF Named, TypeOK
  <2>4. \A e, f \in Named' : e # f => groupOf'[e] # groupOf'[f]
    BY <1>3, <2>2, <2>3
  <2>5. \A p \in DeletionPlaces', f \in Named' : At(Queues', p).item # groupOf'[f]
    BY <1>2, <2>2, <2>3
  <2>6. \A p \in DeletionPlaces', h \in ToSet(freeGroups') : At(Queues', p).item # h
    BY <1>2, <2>2
  <2>7. \A f \in Named', h \in ToSet(freeGroups') : groupOf'[f] # h
    BY <1>3, <2>2, <2>3
  <2> QED
    BY <1>2, <2>2, <2>4, <2>5, <2>6, <2>7, OwnersAfter
<1>7. CASE groupOf[name] = NoGroup /\ freeGroups = <<>>
  <2>1. groupOf' = [groupOf EXCEPT ![name] = NewGroup] /\ freeGroups' = freeGroups
    BY <1>7 DEF PerformCreateJob
  <2>2. NewGroup \notin DOMAIN filled
    BY DEF NewGroup, TypeOK
  <2> HIDE DEF name
  <2>3. /\ Named' \subseteq Named \cup {name}
        /\ \A f \in Named' : groupOf'[f] = IF f = name THEN NewGroup ELSE groupOf[f]
    BY <2>1 DEF Named, TypeOK
  <2>4. \A e, f \in Named' : e # f => groupOf'[e] # groupOf'[f]
    BY <1>3, <2>2, <2>3, DeletionItems
  <2>5. \A p \in DeletionPlaces', f \in Named' : At(Queues', p).item # groupOf'[f]
    BY <1>2, <2>2, <2>3, DeletionItems
  <2>6. \A f \in Named', h \in ToSet(freeGroups') : groupOf'[f] # h
    BY <1>3, <2>1, <2>2, <2>3, DeletionItems
  <2> QED
    BY <1>2, <1>3, <2>1, <2>4, <2>5, <2>6, OwnersAfter
<1> QED
  BY <1>5, <1>6, <1>7

LEMMA DeleteOwners ==
  ASSUME TypeOK, TypeOK', ItemsExist, ItemsExist', PerformDeleteJob, "wildItem" \notin mishaps',
         EachGroupHasOneOwner
  PROVE  EachGroupHasOneOwner'
<1> DEFINE job == Head(workerQ)
           item == groupOf[job.file]
           new == [job EXCEPT !.item = item]
<1>1. /\ groupOf' = [groupOf EXCEPT ![job.file] = NoGroup] /\ freeGroups' = freeGroups
      /\ workerQ \in Seq(Naming) /\ workerQ # <<>>
  BY DEF PerformDeleteJob, WorkerTakes, ItemsExist
<1>2. job \in Jobs /\ job.file \in Files
  BY <1>1, HeadTailProperties DEF Naming, Jobs
<1>3. /\ \A e, f \in Named : e # f => groupOf[e] # groupOf[f]
      /\ IsInjective(freeGroups)
      /\ \A f \in Named, g \in ToSet(freeGroups) : groupOf[f] # g
  BY DEF EachGroupHasOneOwner, Named
<1>4. \/ /\ item = NoGroup
         /\ \E o : Takes(o, <<"clientQ", Len(clientQ) + 1>>, <<"workerQ", 1>>, job)
      \/ /\ item # NoGroup
         /\ \E o : Takes(o, <<"mgrQ", Len(mgrQ) + 1>>, <<"workerQ", 1>>, new)
  BY DeleteStep
<1>5. new.item = item
  BY <1>2 DEF Jobs
<1> HIDE DEF job, item, new
<1>6. CASE item = NoGroup
  <2>1. groupOf' = groupOf
    BY <1>1, <1>6 DEF TypeOK, item
  <2>2. PICK o : Takes(o, <<"clientQ", Len(clientQ) + 1>>, <<"workerQ", 1>>, job)
    BY <1>4, <1>6
  <2>3. <<"clientQ", Len(clientQ) + 1>> \notin DeletionPlaces'
    BY DEF DeletionPlaces
  <2> QED
    BY <1>1, <2>1, <2>2, <2>3, OwnersStay
<1>7. CASE item # NoGroup
  <2> DEFINE dst == <<"mgrQ", Len(mgrQ) + 1>>
  <2>1. PICK o : Takes(o, dst, <<"workerQ", 1>>, new)
    BY <1>4, <1>7
  <2> HIDE DEF dst
  <2>2. /\ \A p \in DeletionPlaces' : p # dst =>
             o[p] \in DeletionPlaces /\ At(Queues', p).item = JobAt(o[p]).item
        /\ \A p, q \in DeletionPlaces' : p # q => o[p] # o[q]
        /\ \A p \in DeletionPlaces' : p = dst => At(Queues', p).item = item
    BY <1>5, <2>1, DeletionsCarried
  <2>3. /\ job.file \in Named /\ item = groupOf[job.file]
        /\ \A f \in Named' : f \in Named /\ f # job.file /\ groupOf'[f] = groupOf[f]
    BY <1>1, <1>2, <1>7 DEF Named, TypeOK, item
  <2>4. /\ \A p, q \in DeletionPlaces : p # q => JobAt(p).item # JobAt(q).item
        /\ \A p \in DeletionPlaces, f \in Named : JobAt(p).item # groupOf[f]
        /\ \A p \in DeletionPlaces, g \in ToSet(freeGroups) : JobAt(p).item # g
    BY DEF EachGroupHasOneOwner, Named
  <2>5. \A p, q \in DeletionPlaces' : p # q => At(Queues', p).item # At(Queues', q).item
    BY <2>2, <2>3, <2>4
  <2>6. \A p \in DeletionPlaces', f \in Named' : At(Queues', p).item # groupOf'[f]
    BY <1>3, <2>2, <2>3, <2>4
  <2>7. \A p \in DeletionPlaces', g \in ToSet(freeGroups) : At(Queues', p).item # g
    BY <1>3, <2>2, <2>3, <2>4
  <2>8. /\ \A e, f \in Named' : e # f => groupOf'[e] # groupOf'[f]
        /\ \A f \in Named', g \in ToSet(freeGroups) : groupOf'[f] # g
    BY <1>3, <2>3
  <2> QED
    BY <1>1, <1>3, <2>5, <2>6, <2>7, <2>8, OwnersAfter
<1> QED
  BY <1>6, <1>7

LEMMA DeleteDoneOwners ==
  ASSUME TypeOK, TypeOK', ItemsExist, ItemsExist', PerformDeleteDoneJob, EachGroupHasOneOwner
  PROVE  EachGroupHasOneOwner'
<1> DEFINE job == Head(workerQ)
           src == <<"workerQ", 1>>
<1>1. PICK o : \E new : Takes(o, <<"clientQ", Len(clientQ) + 1>>, src, new)
  BY AnswerSteps
<1>2. /\ freeGroups' = <<job.item>> \o freeGroups /\ groupOf' = groupOf
      /\ workerQ \in Seq(Naming) /\ workerQ # <<>> /\ job.kind = "DeleteDone"
  BY DEF PerformDeleteDoneJob, WorkerTakes, ItemsExist
<1>3. src \in DeletionPlaces /\ JobAt(src) = job
  <2>1. src \in Places
    BY <1>1 DEF Takes
  <2>2. JobAt(src) = job
    BY <1>2, QueueFields, TailLoses DEF JobAt
  <2> QED
    BY <1>2, <2>1, <2>2 DEF DeletionPlaces
<1>4. /\ \A p \in DeletionPlaces' :
           o[p] \in DeletionPlaces /\ o[p] # src /\ At(Queues', p).item = JobAt(o[p]).item
      /\ \A p, q \in DeletionPlaces' : p # q => At(Queues', p).item # At(Queues', q).item
      /\ \A p \in DeletionPlaces', f \in Named : At(Queues', p).item # groupOf[f]
      /\ \A p \in DeletionPlaces', g \in ToSet(freeGroups) : At(Queues', p).item # g
  BY <1>1, OthersStay
<1>5. /\ job.item \in DOMAIN filled /\ freeGroups \in Seq(DOMAIN filled)
  BY <1>3, DeletionItems
<1>6. /\ \A f \in Named : groupOf[f] # job.item
      /\ \A g \in ToSet(freeGroups) : g # job.item
      /\ \A p \in DeletionPlaces : p # src => JobAt(p).item # job.item
      /\ \A e, f \in Named : e # f => groupOf[e] # groupOf[f]
      /\ \A f \in Named, g \in ToSet(freeGroups) : groupOf[f] # g
      /\ IsInjective(freeGroups)
  BY <1>3 DEF EachGroupHasOneOwner, Named
<1> HIDE DEF job, src
<1>7. ToSet(freeGroups') = ToSet(freeGroups) \cup {job.item} /\ IsInjective(freeGroups')
  BY <1>2, <1>5, <1>6, PrependsNew
<1>8. \A p \in DeletionPlaces', g \in ToSet(freeGroups') : At(Queues', p).item # g
  BY <1>4, <1>6, <1>7
<1>9. Named' = Named
  BY <1>2 DEF Named
<1>10. \A f \in Named', g \in ToSet(freeGroups') : groupOf'[f] # g
  BY <1>2, <1>6, <1>7, <1>9
<1> QED
  BY <1>2, <1>4, <1>6, <1>7, <1>8, <1>9, <1>10, OwnersAfter

LEMMA OwnersKept ==
  ASSUME TypeOK, TypeOK', ItemsExist, ItemsExist', Next, JobsIntact', Tickets, EachGroupHasOneOwner
  PROVE  EachGroupHasOneOwner'
<1>0. "wildItem" \notin mishaps' /\ "wrongJob" \notin mishaps'
  BY DEF JobsIntact
<1>u. ASSUME UNCHANGED <<clientQ, workerQ, mgrQ, inProcess, groupOf, freeGroups>>
      PROVE  EachGroupHasOneOwner'
  <2>1. DeletionPlaces' = DeletionPlaces /\ \A p \in DeletionPlaces : At(Queues', p) = JobAt(p)
    <3>1. DeletionPlaces \subseteq Places
      BY DEF DeletionPlaces
    <3> QED
      BY <1>u, <3>1, Unmoved
  <2>2. Named' = Named
    BY <1>u DEF Named
  <2>3. /\ \A p, q \in DeletionPlaces' : p # q => At(Queues', p).item # At(Queues', q).item
        /\ \A e, f \in Named' : e # f => groupOf'[e] # groupOf'[f]
        /\ IsInjective(freeGroups')
        /\ \A p \in DeletionPlaces', f \in Named' : At(Queues', p).item # groupOf'[f]
        /\ \A p \in DeletionPlaces', g \in ToSet(freeGroups') : At(Queues', p).item # g
        /\ \A f \in Named', g \in ToSet(freeGroups') : groupOf'[f] # g
    BY <1>u, <2>1, <2>2 DEF EachGroupHasOneOwner, Named
  <2> QED
    BY <2>3, OwnersAfter
<1>c. \A n : <<"clientQ", n>> \notin DeletionPlaces'
  BY DEF DeletionPlaces
<1>1. CASE PerformCreateJob
  BY <1>1, CreateOwners
<1>2. CASE PerformDeleteJob
  BY <1>0, <1>2, DeleteOwners
<1>3. CASE PerformDeleteDoneJob
  BY <1>3, DeleteDoneOwners
<1>4. CASE PerformOpenJob \/ PerformWriteOverJob
  <2>1. groupOf' = groupOf /\ freeGroups' = freeGroups
    BY <1>4 DEF PerformOpenJob, PerformWriteOverJob, nameVars
  <2>2. \E o, job : Takes(o, <<"clientQ", Len(clientQ) + 1>>, <<"workerQ", 1>>, job)
    BY <1>4, AnswerSteps
  <2> QED
    BY <1>c, <2>1, <2>2, OwnersStay
<1>5. CASE StartWriteJob
  <2>1. groupOf' = groupOf /\ freeGroups' = freeGroups
    BY <1>5 DEF StartWriteJob, nameVars
  <2>2. \E o : Takes(o, <<"clientQ", 0>>, <<"clientQ", 1>>, Head(clientQ))
    BY <1>5, StartWriteTakes
  <2> QED
    BY <1>c, <2>1, <2>2, OwnersStay
<1>6. CASE PerformDeleteBlocksJob
  <2> DEFINE job == Head(mgrQ)
             n == NumToDelete(job.item)
             src == <<"mgrQ", 1>>
  <2>1. groupOf' = groupOf /\ freeGroups' = freeGroups
    BY <1>6 DEF PerformDeleteBlocksJob, nameVars
  <2>2. mgrQ \in Seq(Deleting) /\ mgrQ # <<>>
    BY <1>6 DEF PerformDeleteBlocksJob, ItemsExist
  <2>3. job \in Jobs /\ JobAt(src) = job
    BY <2>2, HeadTailProperties, QueueFields, TailLoses DEF Deleting, JobAt
  <2>4. /\ [job EXCEPT !.num = n].item = job.item
        /\ [job EXCEPT !.kind = "DeleteDone"].item = job.item
    BY <2>3 DEF Jobs
  <2>5. \/ \E o : Takes(o, <<"inProcess", 1>>, src, [job EXCEPT !.num = n])
        \/ \E o : Takes(o, <<"workerQ", Len(workerQ) + 1>>, src, [job EXCEPT !.kind = "DeleteDone"])
    BY <1>6, DeleteBlocksTakes
  <2> HIDE DEF job, n
  <2>6. PICK o, dst, new : Takes(o, dst, src, new) /\ new.item = job.item
    BY <2>4, <2>5
  <2>7. src \in DeletionPlaces
    BY <2>6 DEF Takes, DeletionPlaces
  <2> QED
    BY <2>1, <2>3, <2>6, <2>7, OwnersStay
<1>7. ASSUME NEW b \in Blocks, ReportBlockDeletion(b) PROVE EachGroupHasOneOwner'
  <2>1. groupOf' = groupOf /\ freeGroups' = freeGroups /\ clientQ' = clientQ /\ mgrQ' = mgrQ
    BY <1>7 DEF ReportBlockDeletion, nameVars
  <2> DEFINE pos == JobOf(Head(deleting[b]))
             job == [inProcess[pos] EXCEPT !.num = @ - 1]
             done == [job EXCEPT !.kind = "DeleteDone"]
             src == <<"inProcess", pos>>
  <2>2. CASE pos = 0
    <3>1. UNCHANGED <<inProcess, workerQ>>
      BY <1>7, <2>2 DEF ReportBlockDeletion
    <3> QED
      BY <1>u, <2>1, <3>1
  <2>3. CASE pos # 0
    <3>1. \/ \E o : Takes(o, <<"workerQ", Len(workerQ) + 1>>, src, done)
          \/ \E o : Takes(o, src, src, job)
      BY <1>0, <1>7, <2>3, ReportTakes, Zenon
    <3>2. inProcess[pos] \in Deleting
      BY <1>7, <2>3, ReportFinds
    <3>3. job.item = inProcess[pos].item /\ done.item = inProcess[pos].item
      BY <3>2 DEF Deleting, Jobs
    <3>4. JobAt(src) = inProcess[pos]
      BY QueueFields DEF JobAt
    <3> HIDE DEF pos, job, done
    <3>5. PICK o, dst, new : Takes(o, dst, src, new) /\ new.item = JobAt(src).item
      BY <3>1, <3>3, <3>4
    <3>6. src \in DeletionPlaces
      BY <3>5 DEF Takes, DeletionPlaces
    <3> QED
      BY <2>1, <3>5, <3>6, OwnersStay
  <2> QED
    BY <2>2, <2>3
<1>8. ASSUME NEW i \in Slots, NEW kind, NEW name, ProcessRecvdCmd(i, kind, name) PROVE EachGroupHasOneOwner'
  <2>1. UNCHANGED <<clientQ, mgrQ, inProcess, groupOf, freeGroups>>
    BY <1>8, CommandJob
  <2>2. PICK job : workerQ' = Append(workerQ, job) /\ job.kind # "DeleteDone"
    BY <1>8, CommandJob
  <2>3. \A p \in Places' : \/ p \in Places /\ At(Queues', p) = JobAt(p)
                           \/ p[1] = "workerQ" /\ At(Queues', p) = job
    BY <2>1, <2>2, Joins
  <2>4. DeletionPlaces' = {p \in Places' : /\ p[1] # "clientQ"
                                           /\ p[1] = "workerQ" => At(Queues', p).kind = "DeleteDone"}
    BY DEF DeletionPlaces, JobAt, At
  <2>5. \A p \in DeletionPlaces' : p \in DeletionPlaces /\ At(Queues', p) = JobAt(p)
    BY <2>2, <2>3, <2>4 DEF DeletionPlaces
  <2>6. Named' = Named
    BY <2>1 DEF Named
  <2>7. /\ \A p, q \in DeletionPlaces' : p # q => At(Queues', p).item # At(Queues', q).item
        /\ \A e, f \in Named' : e # f => groupOf'[e] # groupOf'[f]
        /\ IsInjective(freeGroups')
        /\ \A p \in DeletionPlaces', e \in Named' : At(Queues', p).item # groupOf'[e]
        /\ \A p \in DeletionPlaces', g \in ToSet(freeGroups') : At(Queues', p).item # g
        /\ \A e \in Named', g \in ToSet(freeGroups') : groupOf'[e] # g
    BY <2>1, <2>5, <2>6 DEF EachGroupHasOneOwner, Named
  <2> QED
    BY <2>7, OwnersAfter
<1>9. CASE \/ \E s \in Sessions : ThreadMonitorNewConnection(s)
           \/ \E i \in Slots : RemoveConnection(i)
           \/ \E b \in Blocks : ReportFailedBlockServer(b)
  <2>1. UNCHANGED <<clientQ, workerQ, mgrQ, inProcess, groupOf, freeGroups>>
    BY <1>9 DEF ThreadMonitorNewConnection, RemoveConnection, ReportFailedBlockServer, mgrVars, nameVars
  <2> QED
    BY <1>u, <2>1
<1> QED
  BY <1>1, <1>2, <1>3, <1>4, <1>5, <1>6, <1>7, <1>8, <1>9 DEF Next, Clients, Threads, Worker, BlockMgr

-----------------------------------------------------------------------------
(* Each job counts the answers that are due. *)

LEMMA PlacesInProcess ==
  ASSUME ItemsExist
  PROVE  \A i \in DOMAIN inProcess :
           <<"inProcess", i>> \in DeletionPlaces /\ JobAt(<<"inProcess", i>>) = inProcess[i]
<1>1. DOMAIN inProcess = 1 .. Len(inProcess)
  BY DEF ItemsExist
<1>2. Queues \in QueuesOf(Jobs) /\ Places = PlacesOf(Queues)
  BY QueueTypes
<1>3. ASSUME NEW i \in DOMAIN inProcess
      PROVE  <<"inProcess", i>> \in DeletionPlaces /\ JobAt(<<"inProcess", i>>) = inProcess[i]
  <2>1. Queues["inProcess"] = inProcess /\ "inProcess" \in QueueNames /\ i \in 1 .. Len(inProcess)
    BY <1>1, QueueFields DEF QueueNames
  <2>2. <<"inProcess", i>> \in Places
    BY <1>2, <2>1, PlaceNames
  <2> QED
    BY <2>1, <2>2 DEF DeletionPlaces, JobAt
<1> QED
  BY <1>3

LEMMA ItemsInProcess ==
  ASSUME ItemsExist, EachGroupHasOneOwner
  PROVE  /\ inProcess \in Seq(Deleting) /\ DOMAIN inProcess = 1 .. Len(inProcess) /\ Len(inProcess) \in Nat
         /\ \A i, j \in DOMAIN inProcess : i # j => inProcess[i].item # inProcess[j].item
         /\ mgrQ # <<>> => \A i \in DOMAIN inProcess : inProcess[i].item # Head(mgrQ).item
<1>1. inProcess \in Seq(Deleting) /\ DOMAIN inProcess = 1 .. Len(inProcess) /\ Len(inProcess) \in Nat
  BY DEF ItemsExist
<1>2. Queues \in QueuesOf(Jobs) /\ Places = PlacesOf(Queues)
  BY QueueTypes
<1>3. \A i \in DOMAIN inProcess :
        <<"inProcess", i>> \in DeletionPlaces /\ JobAt(<<"inProcess", i>>) = inProcess[i]
  BY PlacesInProcess
<1>4. \A i, j \in DOMAIN inProcess : i # j => inProcess[i].item # inProcess[j].item
  <2>1. \A i, j \in DOMAIN inProcess : i # j => <<"inProcess", i>> # <<"inProcess", j>>
    OBVIOUS
  <2> QED
    BY <1>3, <2>1 DEF EachGroupHasOneOwner
<1>5. ASSUME mgrQ # <<>>
      PROVE  \A i \in DOMAIN inProcess : inProcess[i].item # Head(mgrQ).item
  <2>1. 1 \in 1 .. Len(mgrQ) /\ Head(mgrQ) = mgrQ[1]
    BY <1>5, TailLoses DEF ItemsExist
  <2>2. <<"mgrQ", 1>> \in Places
    BY <1>2, <2>1, PlaceNames, QueueFields DEF QueueNames
  <2>3. <<"mgrQ", 1>> \in DeletionPlaces /\ JobAt(<<"mgrQ", 1>>) = Head(mgrQ)
    BY <2>1, <2>2, QueueFields DEF DeletionPlaces, JobAt
  <2>4. \A i : <<"inProcess", i>> # <<"mgrQ", 1>>
    OBVIOUS
  <2> QED
    BY <1>3, <2>3, <2>4 DEF EachGroupHasOneOwner
<1> QED
  BY <1>1, <1>4, <1>5

LEMMA CountsStay ==
  ASSUME UNCHANGED <<inProcess, deleting, crashed>>, mishaps \subseteq mishaps', Counts
  PROVE  Counts'
<1>1. \A g : Unanswered(g)' = Unanswered(g)
  BY DEF Unanswered
<1>2. "deleteLost" \notin mishaps' => "deleteLost" \notin mishaps
  OBVIOUS
<1> QED
  BY <1>1, <1>2 DEF Counts, EachAnswerFindsItsJob, Unanswered

LEMMA CountsAfter ==
  ASSUME ~crashed',
         \A b \in Blocks : \A g \in ToSet(deleting'[b]) : \E job \in ToSet(inProcess') : job.item = g,
         \A b \in Blocks : IsInjective(deleting'[b]),
         \A job \in ToSet(inProcess') :
           LET due == {b \in Blocks : job.item \in ToSet(deleting'[b])}
           IN /\ job.num > 0 /\ job.num >= Cardinality(due)
              /\ "deleteLost" \notin mishaps' => job.num = Cardinality(due)
  PROVE  Counts'
BY DEF Counts, EachAnswerFindsItsJob, Unanswered

\* Commands for a group that had none ...
LEMMA DeleteBlocksCounts ==
  ASSUME TypeOK, TypeOK', ItemsExist, PerformDeleteBlocksJob, EachGroupHasOneOwner, Counts
  PROVE  Counts'
<1> DEFINE job == Head(mgrQ)
           g == job.item
           all == BlocksToDelete(g)
           n == NumToDelete(g)
           new == [job EXCEPT !.num = n]
<1>1. /\ mgrQ \in Seq(Deleting) /\ mgrQ # <<>> /\ UNCHANGED <<crashed, mishaps>>
      /\ deleting' = [b \in Blocks |-> IF b \in all THEN Append(deleting[b], g) ELSE deleting[b]]
      /\ IF n > 0 THEN inProcess' = <<new>> \o inProcess ELSE UNCHANGED inProcess
  BY DEF PerformDeleteBlocksJob, ItemsExist
<1>2. job \in Deleting /\ g \in DOMAIN filled
  BY <1>1, HeadTailProperties DEF Deleting
<1>3. all \subseteq Blocks /\ IsFiniteSet(all) /\ n = Cardinality(all) /\ n \in Nat
  BY BlocksFinite DEF BlocksToDelete, NumToDelete, TypeOK
<1>4. new.item = g /\ new.num = n /\ new \in Deleting
  BY <1>2, <1>3 DEF Deleting, Jobs
<1>5. /\ inProcess \in Seq(Deleting)
      /\ \A other \in ToSet(inProcess) : other.item # g
  BY <1>1, ItemsInProcess DEF ToSet
<1>6. \A b \in Blocks : g \notin ToSet(deleting[b])
  BY <1>5 DEF Counts, EachAnswerFindsItsJob
<1>7. \A b \in Blocks : IsInjective(deleting[b]) /\ deleting[b] \in Seq(DOMAIN filled)
  BY DEF Counts, TypeOK
<1> HIDE DEF g, all, n, new, job
<1>8. \A b \in Blocks :
        /\ IsInjective(deleting'[b])
        /\ ToSet(deleting'[b]) = IF b \in all THEN ToSet(deleting[b]) \cup {g} ELSE ToSet(deleting[b])
  <2> SUFFICES ASSUME NEW b \in Blocks
               PROVE  /\ IsInjective(deleting'[b])
                      /\ ToSet(deleting'[b]) = IF b \in all THEN ToSet(deleting[b]) \cup {g}
                                                            ELSE ToSet(deleting[b])
    OBVIOUS
  <2>1. CASE b \in all
    <3>1. /\ IsInjective(Append(deleting[b], g))
          /\ ToSet(Append(deleting[b], g)) = ToSet(deleting[b]) \cup {g}
      BY <1>2, <1>6, <1>7, AppendsNew
    <3> QED
      BY <1>1, <2>1, <3>1
  <2>2. CASE b \notin all
    BY <1>1, <1>7, <2>2
  <2> QED
    BY <2>1, <2>2
<1>9. CASE n > 0
  <2>1. ToSet(inProcess') = ToSet(inProcess) \cup {new}
    <3>1. inProcess' = <<new>> \o inProcess
      BY <1>1, <1>9
    <3>2. ToSet(<<new>> \o inProcess) = ToSet(inProcess) \cup {new}
      BY <1>4, <1>5, PrependsNew
    <3> QED
      BY <3>1, <3>2
  <2>2. \A b \in Blocks : \A h \in ToSet(deleting'[b]) : \E other \in ToSet(inProcess') : other.item = h
    <3> SUFFICES ASSUME NEW b \in Blocks, NEW h \in ToSet(deleting'[b])
                 PROVE  \E other \in ToSet(inProcess') : other.item = h
      OBVIOUS
    <3>1. h \in ToSet(deleting[b]) \/ h = g
      BY <1>8
    <3>2. CASE h = g
      BY <1>4, <2>1, <3>2
    <3>3. CASE h \in ToSet(deleting[b])
      BY <2>1, <3>3 DEF Counts, EachAnswerFindsItsJob
    <3> QED
      BY <3>1, <3>2, <3>3
  <2>3. ASSUME NEW other \in ToSet(inProcess')
        PROVE  LET due == {b \in Blocks : other.item \in ToSet(deleting'[b])}
               IN /\ other.num > 0 /\ other.num >= Cardinality(due)
                  /\ "deleteLost" \notin mishaps' => other.num = Cardinality(due)
    <3> DEFINE due == {b \in Blocks : other.item \in ToSet(deleting'[b])}
    <3>1. CASE other = new
      <4>1. due = all
        BY <1>3, <1>4, <1>6, <1>8, <3>1
      <4> HIDE DEF due
      <4>2. other.num > 0 /\ other.num >= Cardinality(due) /\ other.num = Cardinality(due)
        BY <1>3, <1>4, <1>9, <3>1, <4>1
      <4> QED
        BY <4>2 DEF due
    <3>2. CASE other # new
      <4>1. other \in ToSet(inProcess) /\ other.item # g
        BY <1>5, <2>1, <2>3, <3>2
      <4>2. due = Unanswered(other.item)
        BY <1>8, <4>1 DEF Unanswered
      <4> QED
        BY <1>1, <4>1, <4>2 DEF Counts
    <3> QED
      BY <3>1, <3>2
  <2> QED
    BY <1>1, <1>8, <2>2, <2>3, CountsAfter DEF Counts
<1>10. CASE ~(n > 0)
  <2>1. all = {}
    BY <1>3, <1>10, FS_EmptySet
  <2>2. deleting' = deleting
    <3>1. deleting = [b \in Blocks |-> deleting[b]]
      BY DEF TypeOK
    <3> QED
      BY <1>1, <2>1, <3>1
  <2> QED
    BY <1>1, <1>10, <2>2, CountsStay
<1> QED
  BY <1>9, <1>10

\* ... the answer of a server to one of them ...
LEMMA ReportCounts ==
  ASSUME TypeOK, TypeOK', ItemsExist, ItemsExist', NEW b \in Blocks, ReportBlockDeletion(b),
         "wrongJob" \notin mishaps', Tickets, EachGroupHasOneOwner, Counts,
         mishaps \subseteq mishaps'
  PROVE  Counts'
<1> DEFINE g == Head(deleting[b])
           pos == JobOf(g)
           old == inProcess[pos]
           job == [old EXCEPT !.num = @ - 1]
           due == Unanswered(g)
<1>1. /\ deleting[b] # <<>> /\ deleting[b] \in Seq(DOMAIN filled)
      /\ deleting' = [deleting EXCEPT ![b] = Tail(@)]
  BY DEF ReportBlockDeletion, TypeOK
<1>2. /\ ToSet(deleting[b]) = ToSet(Tail(deleting[b])) \cup {g}
      /\ IsInjective(Tail(deleting[b])) /\ g \notin ToSet(Tail(deleting[b]))
  BY <1>1, TailOfNew DEF Counts
<1>3. /\ inProcess \in Seq(Deleting) /\ DOMAIN inProcess = 1 .. Len(inProcess) /\ Len(inProcess) \in Nat
      /\ \A i, j \in DOMAIN inProcess : i # j => inProcess[i].item # inProcess[j].item
  BY ItemsInProcess
<1>4. pos # 0
  <2>1. \E other \in ToSet(inProcess) : other.item = g
    BY <1>2 DEF Counts, EachAnswerFindsItsJob
  <2>2. \E i \in DOMAIN inProcess : inProcess[i].item = g
    BY <2>1 DEF ToSet
  <2>3. pos \in DOMAIN inProcess
    BY <1>3, <2>2, JobOfIsFirst
  <2> QED
    BY <1>3, <2>3
<1>5. pos \in DOMAIN inProcess /\ old.item = g /\ old \in Deleting /\ job.num = old.num - 1 /\ crashed' = crashed
  BY <1>4, ReportFinds
<1>6. job.item = g /\ old.num \in Int /\ old \in ToSet(inProcess)
  BY <1>5 DEF Deleting, Jobs, ToSet
<1>7. \/ job.num = 0 /\ Loses(inProcess, inProcess', pos)
      \/ /\ job.num # 0 /\ Len(inProcess') = Len(inProcess)
         /\ \A i \in DOMAIN inProcess : inProcess'[i] = IF i = pos THEN job ELSE inProcess[i]
  BY <1>4, ReportTakes, Zenon
<1>8. inProcess' \in Seq(Deleting') /\ DOMAIN inProcess' = 1 .. Len(inProcess')
  BY DEF ItemsExist
<1> HIDE DEF g, pos, old, job, due
<1>9. \A c \in Blocks :
        /\ IsInjective(deleting'[c])
        /\ ToSet(deleting'[c]) = IF c = b THEN ToSet(deleting[c]) \ {g} ELSE ToSet(deleting[c])
  <2> SUFFICES ASSUME NEW c \in Blocks
               PROVE  /\ IsInjective(deleting'[c])
                      /\ ToSet(deleting'[c]) = IF c = b THEN ToSet(deleting[c]) \ {g}
                                                       ELSE ToSet(deleting[c])
    OBVIOUS
  <2>1. CASE c = b
    <3>1. deleting'[c] = Tail(deleting[b])
      BY <1>1, <2>1 DEF TypeOK
    <3> QED
      BY <1>2, <2>1, <3>1
  <2>2. CASE c # b
    <3>1. deleting'[c] = deleting[c]
      BY <1>1, <2>2 DEF TypeOK
    <3> QED
      BY <2>2, <3>1 DEF Counts
  <2> QED
    BY <2>1, <2>2
<1>10. /\ {c \in Blocks : g \in ToSet(deleting'[c])} = due \ {b}
       /\ b \in due /\ due \subseteq Blocks
       /\ \A h : h # g => {c \in Blocks : h \in ToSet(deleting'[c])} = Unanswered(h)
  BY <1>2, <1>9 DEF Unanswered, due
<1>11. /\ IsFiniteSet(due) /\ Cardinality(due) \in Nat
       /\ Cardinality(due \ {b}) = Cardinality(due) - 1 /\ Cardinality(due \ {b}) \in Nat
  BY <1>10, BlocksFinite, FS_RemoveElement, FS_CardinalityType
<1>12. /\ old.num > 0 /\ old.num >= Cardinality(due)
       /\ "deleteLost" \notin mishaps => old.num = Cardinality(due)
  BY <1>5, <1>6 DEF Counts, due
<1>13. \A i \in DOMAIN inProcess : i # pos => inProcess[i].item # g
  BY <1>3, <1>5 DEF old
\* What is in process then: the other jobs, and this one as long as it waits.
<1>14. \A i \in DOMAIN inProcess : i # pos => inProcess[i] \in ToSet(inProcess')
  <2> SUFFICES ASSUME NEW i \in DOMAIN inProcess, i # pos
               PROVE  \E j \in DOMAIN inProcess' : inProcess'[j] = inProcess[i]
    BY DEF ToSet
  <2>1. CASE Loses(inProcess, inProcess', pos)
    <3>1. CASE i < pos
      <4>1. i \in 1 .. Len(inProcess) - 1
        BY <1>3, <1>5, <3>1
      <4> QED
        BY <1>3, <1>8, <2>1, <3>1, <4>1 DEF Loses
    <3>2. CASE ~(i < pos)
      <4>1. i - 1 \in 1 .. Len(inProcess) - 1 /\ ~(i - 1 < pos) /\ (i - 1) + 1 = i
        BY <1>3, <1>5, <3>2
      <4> QED
        BY <1>3, <1>8, <2>1, <4>1 DEF Loses
    <3> QED
      BY <3>1, <3>2
  <2>2. CASE /\ Len(inProcess') = Len(inProcess)
             /\ \A k \in DOMAIN inProcess : inProcess'[k] = IF k = pos THEN job ELSE inProcess[k]
    BY <1>3, <1>8, <2>2
  <2> QED
    BY <1>7, <2>1, <2>2
<1>15. \A other \in ToSet(inProcess') : \/ job.num # 0 /\ other = job
                                        \/ \E i \in DOMAIN inProcess : i # pos /\ other = inProcess[i]
  <2> SUFFICES ASSUME NEW j \in DOMAIN inProcess'
               PROVE  \/ job.num # 0 /\ inProcess'[j] = job
                      \/ \E i \in DOMAIN inProcess : i # pos /\ inProcess'[j] = inProcess[i]
    BY DEF ToSet
  <2>1. CASE job.num = 0 /\ Loses(inProcess, inProcess', pos)
    <3>1. j \in 1 .. Len(inProcess) - 1
      BY <1>8, <2>1 DEF Loses
    <3>2. CASE j < pos
      <4>1. inProcess'[j] = inProcess[j] /\ j \in DOMAIN inProcess /\ j # pos
        BY <1>3, <1>5, <2>1, <3>1, <3>2 DEF Loses
      <4> QED
        BY <4>1
    <3>3. CASE ~(j < pos)
      <4>1. inProcess'[j] = inProcess[j + 1] /\ j + 1 \in DOMAIN inProcess /\ j + 1 # pos
        BY <1>3, <1>5, <2>1, <3>1, <3>3 DEF Loses
      <4> QED
        BY <4>1
    <3> QED
      BY <3>2, <3>3
  <2>2. CASE /\ job.num # 0 /\ Len(inProcess') = Len(inProcess)
             /\ \A k \in DOMAIN inProcess : inProcess'[k] = IF k = pos THEN job ELSE inProcess[k]
    BY <1>3, <1>8, <2>2
  <2> QED
    BY <1>7, <2>1, <2>2
<1>16. job.num # 0 => job \in ToSet(inProcess')
  <2> SUFFICES ASSUME job.num # 0 PROVE pos \in DOMAIN inProcess' /\ inProcess'[pos] = job
    BY DEF ToSet
  <2> QED
    BY <1>3, <1>5, <1>7, <1>8
<1>17. \A c \in Blocks : \A h \in ToSet(deleting'[c]) : \E other \in ToSet(inProcess') : other.item = h
  <2> SUFFICES ASSUME NEW c \in Blocks, NEW h \in ToSet(deleting'[c])
               PROVE  \E other \in ToSet(inProcess') : other.item = h
    OBVIOUS
  <2>1. CASE h = g
    <3>1. c \in due \ {b}
      BY <1>10, <2>1
    <3>2. due \ {b} # {} /\ IsFiniteSet(due \ {b})
      BY <1>11, <3>1, FS_RemoveElement
    <3>3. Cardinality(due \ {b}) # 0
      BY <3>2, FS_EmptySet
    <3>4. job.num # 0
      BY <1>5, <1>6, <1>11, <1>12, <3>3 DEF job
    <3> QED
      BY <1>6, <1>16, <2>1, <3>4
  <2>2. CASE h # g
    <3>1. h \in ToSet(deleting[c])
      BY <1>9
    <3>2. PICK other \in ToSet(inProcess) : other.item = h
      BY <3>1 DEF Counts, EachAnswerFindsItsJob
    <3>3. PICK i \in DOMAIN inProcess : inProcess[i] = other
      BY <3>2 DEF ToSet
    <3>4. i # pos
      BY <1>5, <2>2, <3>2, <3>3 DEF old
    <3> QED
      BY <1>14, <3>2, <3>3, <3>4
  <2> QED
    BY <2>1, <2>2
<1>18. ASSUME NEW other \in ToSet(inProcess')
       PROVE  LET left == {c \in Blocks : other.item \in ToSet(deleting'[c])}
              IN /\ other.num > 0 /\ other.num >= Cardinality(left)
                 /\ "deleteLost" \notin mishaps' => other.num = Cardinality(left)
  <2> DEFINE left == {c \in Blocks : other.item \in ToSet(deleting'[c])}
  <2>1. CASE job.num # 0 /\ other = job
    <3>1. left = due \ {b}
      BY <1>6, <1>10, <2>1
    <3> HIDE DEF left
    <3>2. other.num > 0 /\ other.num >= Cardinality(left)
      BY <1>5, <1>6, <1>11, <1>12, <2>1, <3>1 DEF job
    <3>3. "deleteLost" \notin mishaps' => other.num = Cardinality(left)
      BY <1>5, <1>6, <1>11, <1>12, <2>1, <3>1 DEF job
    <3> QED
      BY <3>2, <3>3 DEF left
  <2>2. CASE \E i \in DOMAIN inProcess : i # pos /\ other = inProcess[i]
    <3>1. other \in ToSet(inProcess) /\ other.item # g
      BY <1>13, <2>2 DEF ToSet
    <3>2. left = Unanswered(other.item)
      BY <1>10, <3>1
    <3> HIDE DEF left
    <3>3. /\ other.num > 0 /\ other.num >= Cardinality(left)
          /\ "deleteLost" \notin mishaps' => other.num = Cardinality(left)
      BY <3>1, <3>2 DEF Counts
    <3> QED
      BY <3>3 DEF left
  <2> QED
    BY <1>15, <1>18, <2>1, <2>2
<1> QED
  BY <1>5, <1>9, <1>17, <1>18, CountsAfter DEF Counts

\* ... and the loss of all that were on their way to a server.
LEMMA FailedCounts ==
  ASSUME TypeOK, NEW b \in Blocks, ReportFailedBlockServer(b), ItemsExist, Counts
  PROVE  Counts'
<1>1. /\ deleting' = [deleting EXCEPT ![b] = <<>>] /\ UNCHANGED <<inProcess, crashed>>
      /\ mishaps' = mishaps \cup {m \in {"deleteLost"} : deleting[b] # <<>>}
  BY DEF ReportFailedBlockServer
<1>2. \A c \in Blocks : /\ IsInjective(deleting'[c])
                        /\ ToSet(deleting'[c]) \subseteq ToSet(deleting[c])
  <2> SUFFICES ASSUME NEW c \in Blocks
               PROVE  IsInjective(deleting'[c]) /\ ToSet(deleting'[c]) \subseteq ToSet(deleting[c])
    OBVIOUS
  <2>1. CASE c = b
    <3>1. deleting'[c] = <<>>
      BY <1>1, <2>1 DEF TypeOK
    <3> QED
      BY <3>1 DEF IsInjective, ToSet
  <2>2. CASE c # b
    <3>1. deleting'[c] = deleting[c]
      BY <1>1, <2>2 DEF TypeOK
    <3> QED
      BY <3>1 DEF Counts
  <2> QED
    BY <2>1, <2>2
<1>3. "deleteLost" \notin mishaps' => deleting' = deleting /\ "deleteLost" \notin mishaps
  BY <1>1 DEF TypeOK
<1>4. ASSUME NEW job \in ToSet(inProcess)
      PROVE  LET due == {c \in Blocks : job.item \in ToSet(deleting'[c])}
             IN /\ job.num > 0 /\ job.num >= Cardinality(due)
                /\ "deleteLost" \notin mishaps' => job.num = Cardinality(due)
  <2> DEFINE due == {c \in Blocks : job.item \in ToSet(deleting'[c])}
             before == Unanswered(job.item)
  <2>1. due \subseteq before /\ before \subseteq Blocks
    BY <1>2 DEF Unanswered
  <2>2. "deleteLost" \notin mishaps' => due = before
    BY <1>3 DEF Unanswered
  <2>3. job \in Jobs
    BY ElementOfSeq DEF ItemsExist, Deleting, ToSet
  <2>4. /\ job.num > 0 /\ job.num >= Cardinality(before) /\ job.num \in Int
        /\ "deleteLost" \notin mishaps => job.num = Cardinality(before)
    BY <2>3 DEF Counts, Jobs
  <2> HIDE DEF due, before
  <2>5. Cardinality(due) <= Cardinality(before) /\ Cardinality(due) \in Nat /\ Cardinality(before) \in Nat
    <3>1. IsFiniteSet(before) /\ Cardinality(before) \in Nat
      BY <2>1, BlocksFinite
    <3> QED
      BY <2>1, <3>1, FS_Subset, FS_CardinalityType
  <2>6. /\ job.num > 0 /\ job.num >= Cardinality(due)
        /\ "deleteLost" \notin mishaps' => job.num = Cardinality(due)
    BY <1>3, <2>2, <2>4, <2>5
  <2> QED
    BY <2>6 DEF due
<1>5. \A c \in Blocks : \A g \in ToSet(deleting'[c]) : \E job \in ToSet(inProcess) : job.item = g
  BY <1>2 DEF Counts, EachAnswerFindsItsJob
<1> QED
  BY <1>1, <1>2, <1>4, <1>5, CountsAfter DEF Counts

LEMMA CountsKept ==
  ASSUME TypeOK, TypeOK', ItemsExist, ItemsExist', Next, JobsIntact', Tickets,
         EachGroupHasOneOwner, Counts
  PROVE  Counts'
<1>0. "wrongJob" \notin mishaps' /\ mishaps \subseteq mishaps'
  BY MishapsStay DEF JobsIntact
<1>1. CASE PerformDeleteBlocksJob
  BY <1>1, DeleteBlocksCounts
<1>2. CASE \E b \in Blocks : ReportBlockDeletion(b)
  BY <1>0, <1>2, ReportCounts
<1>3. CASE \E b \in Blocks : ReportFailedBlockServer(b)
  BY <1>3, FailedCounts
<1>4. CASE Clients \/ StartWriteJob \/ Worker
  <2>1. UNCHANGED <<inProcess, deleting, crashed>>
    <3>1. CASE \E s \in Sessions : ThreadMonitorNewConnection(s)
      BY <3>1 DEF ThreadMonitorNewConnection, mgrVars
    <3>2. CASE \E i \in Slots : RemoveConnection(i)
      BY <3>2 DEF RemoveConnection, mgrVars
    <3>3. CASE \E i \in Slots, kind \in Kinds, f \in Files : ProcessRecvdCmd(i, kind, f)
      BY <3>3, CommandJob
    <3>4. CASE StartWriteJob
      BY <3>4 DEF StartWriteJob, mgrVars
    <3>5. CASE PerformCreateJob
      BY <3>5 DEF PerformCreateJob, mgrVars
    <3>6. CASE PerformOpenJob
      BY <3>6 DEF PerformOpenJob, mgrVars
    <3>7. CASE PerformWriteOverJob
      BY <3>7 DEF PerformWriteOverJob, mgrVars
    <3>8. CASE PerformDeleteJob
      BY <3>8 DEF PerformDeleteJob, WorkerTakes
    <3>9. CASE PerformDeleteDoneJob
      BY <3>9 DEF PerformDeleteDoneJob, mgrVars
    <3> QED
      BY <1>4, <3>1, <3>2, <3>3, <3>4, <3>5, <3>6, <3>7, <3>8, <3>9 DEF Clients, Worker
  <2> QED
    BY <1>0, <2>1, CountsStay
<1> QED
  BY <1>1, <1>2, <1>3, <1>4 DEF Next, Threads, BlockMgr

-----------------------------------------------------------------------------
(* The inductive invariant and what follows from it. *)

LEMMA InitHolds == Init => IInv
<1> SUFFICES ASSUME Init PROVE IInv
  OBVIOUS
<1>1. TypeOK /\ ItemsExist
  BY InitTyped
<1>2. Places = {}
  <2>1. \A q \in QueueNames : DOMAIN Queues[q] = {}
    BY QueueFields DEF Init, QueueNames
  <2> QED
    BY <1>1, <2>1, QueueTypes DEF PlacesOf
<1>3. \A s \in Sessions : ToSet(replies[s]) = {} /\ IsInjective(replies[s])
  BY DEF Init, ToSet, IsInjective
<1>4. Tickets /\ Addressed
  BY <1>2, <1>3 DEF Tickets, Addressed
<1>5. DeletionPlaces = {} /\ Named = {}
  BY <1>2 DEF DeletionPlaces, Init, Named
<1>6. EachGroupHasOneOwner
  <2>1. ToSet(freeGroups) = {} /\ IsInjective(freeGroups)
    BY DEF Init, ToSet, IsInjective
  <2> QED
    BY <1>5, <2>1 DEF EachGroupHasOneOwner, Named
<1>7. Counts
  <2>1. \A b \in Blocks : ToSet(deleting[b]) = {} /\ IsInjective(deleting[b])
    BY DEF Init, ToSet, IsInjective
  <2>2. ToSet(inProcess) = {} /\ ~crashed
    BY DEF Init, ToSet
  <2> QED
    BY <2>1, <2>2 DEF Counts, EachAnswerFindsItsJob
<1> QED
  BY <1>1, <1>4, <1>6, <1>7 DEF IInv

LEMMA Inductive == IInv /\ [Next]_vars => IInv'
<1> SUFFICES ASSUME IInv, [Next]_vars PROVE IInv'
  OBVIOUS
<1>1. CASE Next
  <2>1. TypeOK' /\ ItemsExist'
    BY <1>1, TypesKept DEF IInv
  <2>2. mishaps \subseteq mishaps'
    BY <1>1, MishapsStay DEF IInv
  <2>3. ASSUME "wrongJob" \notin mishaps' PROVE Tickets /\ Tickets'
    BY <1>1, <2>1, <2>2, <2>3, TicketsKept DEF IInv
  <2>4. ASSUME mishaps' \cap {"wrongJob", "slotReused"} = {} PROVE Addressed'
    BY <1>1, <2>1, <2>2, <2>3, <2>4, AddressedKept DEF IInv
  <2>5. ASSUME JobsIntact' PROVE EachGroupHasOneOwner' /\ Counts'
    <3>1. JobsIntact /\ "wrongJob" \notin mishaps'
      BY <2>2, <2>5 DEF JobsIntact
    <3> QED
      BY <1>1, <2>1, <2>3, <2>5, <3>1, OwnersKept, CountsKept DEF IInv
  <2> QED
    BY <2>1, <2>3, <2>4, <2>5 DEF IInv
<1>2. CASE UNCHANGED vars
  <2>1. /\ UNCHANGED <<conn, session, replies, clientQ, workerQ, groupOf, filled, freeGroups, mgrQ,
                        inProcess, active, deleting, leftItems, crashed, mishaps>>
    BY <1>2 DEF vars, clientVars, nameVars, mgrVars
  <2>2. TypeOK' /\ ItemsExist'
    BY <2>1 DEF IInv, TypeOK, ItemsExist, Naming, Deleting
  <2>3. Queues' = Queues /\ Places' = Places /\ DeletionPlaces' = DeletionPlaces
    BY <2>1, Unmoved
  <2>4. Tickets' = Tickets
    BY <2>1, <2>3 DEF Tickets, JobAt
  <2>5. Addressed' = Addressed
    BY <2>1, <2>3 DEF Addressed, JobAt
  <2>6. EachGroupHasOneOwner' = EachGroupHasOneOwner
    BY <2>1, <2>3 DEF EachGroupHasOneOwner, JobAt
  <2>7. Counts => Counts'
    BY <2>1, CountsStay
  <2> QED
    BY <2>1, <2>2, <2>4, <2>5, <2>6, <2>7 DEF IInv, JobsIntact
<1> QED
  BY <1>1, <1>2

LEMMA Invariant == Spec => []IInv
BY InitHolds, Inductive, PTL DEF Spec

\* The group a new file gets is nobody else's ("Req block ID, alloc new block
\* group"), and no server still has to delete the blocks of a group that a file
\* has: insertKeyItem, revokeItem and deleteBlockGroup never let two files, or a
\* file and a deletion, share one, whatever servers fail.
THEOREM GroupsHaveOneOwner == Spec => []GroupHasOneOwner
<1>1. ASSUME IInv PROVE GroupHasOneOwner
  <2> SUFFICES ASSUME JobsIntact
               PROVE  \A f \in Files, b \in Blocks :
                        groupOf[f] # NoGroup => groupOf[f] \notin ToSet(deleting[b])
    BY <1>1 DEF IInv, GroupHasOneOwner
  <2> SUFFICES ASSUME NEW f \in Files, NEW b \in Blocks, groupOf[f] # NoGroup,
                      groupOf[f] \in ToSet(deleting[b])
               PROVE  FALSE
    OBVIOUS
  <2>1. EachGroupHasOneOwner /\ EachAnswerFindsItsJob /\ TypeOK /\ ItemsExist
    BY <1>1 DEF IInv, Counts
  <2>2. PICK i \in DOMAIN inProcess : inProcess[i].item = groupOf[f]
    BY <2>1 DEF EachAnswerFindsItsJob, ToSet
  <2>3. <<"inProcess", i>> \in DeletionPlaces /\ JobAt(<<"inProcess", i>>) = inProcess[i]
    BY <2>1, PlacesInProcess
  <2> QED
    BY <2>1, <2>2, <2>3 DEF EachGroupHasOneOwner
<1> QED
  BY <1>1, Invariant, PTL

\* While a deletion waits for its servers its job is in inProcessingJobQueue,
\* inProcessingNum is the number of DeleteBlock commands for its group that are
\* not answered, and reportBlockDeletion never follows a null pointer: in
\* whatever order the answers to several deletions come.
THEOREM AnswersCounted == Spec => []CountsOutstanding
<1>1. IInv => CountsOutstanding
  BY DEF IInv, Counts, CountsOutstanding, EachJobCounts
<1> QED
  BY <1>1, Invariant, PTL

\* startWriteJob sends every answer to the connection whose command it answers,
\* and no answer twice, though connections close with jobs under way; only a
\* slot that is taken again with such a job, or a job taken for another one of
\* its name, changes that.
THEOREM RepliesArrive == Spec => []RepliesReachTheirSender
<1>1. IInv => RepliesReachTheirSender
  BY DEF IInv, Tickets, Addressed, RepliesReachTheirSender
<1> QED
  BY <1>1, Invariant, PTL
=============================================================================
