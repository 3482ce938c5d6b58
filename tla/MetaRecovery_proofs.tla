-------------------------- MODULE MetaRecovery_proofs --------------------------
(***************************************************************************)
(* Failures, placement and the recovery of ESets, for every code, every    *)
(* overlapping factor and any number of groups and failures.               *)
(*                                                                         *)
(* ECMeta and a head node talk in turns about the one ESet the head node   *)
(* serves: a command, the task it starts, or the reply to it, and never    *)
(* two of them at once (Conversation).  This holds for every code, because *)
(* an ESet that has been given a head node has no node to spare, so that   *)
(* it is not hit again and would get the same head node if it were listed  *)
(* again (HeadsChosen).                                                    *)
(*                                                                         *)
(* With one parity block (SingleParity) an ESet is listed once in its      *)
(* life, so that a reply is about the group the ESet waits for             *)
(* (OneAtATime), and the flags of its groups say what was repaired         *)
(* (FlagsAgree).  With two parity blocks an ESet can be in the lists twice *)
(* and both properties fail.                                               *)
(***************************************************************************)
EXTENDS MetaRecovery, FiniteSetTheorems, SequenceTheorems, WellFoundedInduction, TLAPS

\* A number lies in the col-th run of OFactor numbers exactly when dividing it
\* by OFactor gives col.
LEMMA RunOfColumn ==
  ASSUME NEW e \in Nat, NEW col \in Nat
  PROVE  (col * OFactor <= e /\ e < col * OFactor + OFactor) <=> e \div OFactor = col
<1> DEFINE q == e \div OFactor
           r == e % OFactor
<1>0. OFactor \in Nat /\ OFactor > 0
  BY OFactorAssumption
<1>1. q \in Nat /\ r \in Nat /\ r < OFactor /\ e = OFactor * q + r
  BY <1>0
<1> QED
  BY <1>0, <1>1

\* The ESets that addFailedESets computes for a server are the ESets that
\* createGroupESets put it in.
LEMMA FailedESetsHoldServer ==
  ASSUME NEW e \in ESets, NEW s \in Servers
  PROVE  e \in FailedESets(s[1], s[2]) <=> Node(e, s[1]) = s
<1>1. e \in Nat /\ s[1] \in Rows /\ s[2] \in Nat /\ s = <<s[1], s[2]>>
  BY OFactorAssumption, StripeAssumption DEF ESets, ESetsSize, Servers, Cols
<1>2. CASE s[1] = 0
  BY <1>1, <1>2, RunOfColumn DEF FailedESets, Node, Col
<1>3. CASE s[1] # 0
  BY <1>1, <1>3 DEF FailedESets, Node, Col
<1> QED
  BY <1>2, <1>3

FailuresOK ==
  failed \in [ESets -> SUBSET Rows] /\ down \in SUBSET Servers /\ SetsKnowTheirFailures

\* A reported failure adds the server's row to the ESets that hold it, only.
LEMMA ReportKeepsFailuresOK ==
  ASSUME FailuresOK, NEW s \in Servers, ReportFailedBlockServer(s)
  PROVE  FailuresOK'
<1> DEFINE lost == FailedESets(s[1], s[2])
<1>1. /\ s[1] \in Rows /\ down' = down \cup {s}
      /\ failed' = [e \in ESets |-> IF e \in lost THEN failed[e] \cup {s[1]} ELSE failed[e]]
  BY DEF ReportFailedBlockServer, Servers
<1>2. failed' \in [ESets -> SUBSET Rows] /\ down' \in SUBSET Servers
  BY <1>1 DEF FailuresOK
<1>3. ASSUME NEW e \in ESets
      PROVE  failed'[e] = {r \in Rows : Node(e, r) \in down'}
  <2>1. failed[e] = {r \in Rows : Node(e, r) \in down}
    BY DEF FailuresOK, SetsKnowTheirFailures
  <2>2. \A r \in Rows : Node(e, r) = s => r = s[1]
    BY DEF Node
  <2>3. e \in lost <=> Node(e, s[1]) = s
    BY FailedESetsHoldServer
  <2>4. failed'[e] = IF e \in lost THEN failed[e] \cup {s[1]} ELSE failed[e]
    BY <1>1
  <2> HIDE DEF lost
  <2> QED
    BY <1>1, <2>1, <2>2, <2>3, <2>4
<1> QED
  BY <1>2, <1>3 DEF FailuresOK, SetsKnowTheirFailures

\* Every other step leaves both sides alone.
LEMMA FailuresStep ==
  ASSUME FailuresOK, [Next]_vars
  PROVE  FailuresOK'
<1>1. ASSUME NEW g \in Groups, RequestPlacement(g) PROVE FailuresOK'
  BY <1>1 DEF RequestPlacement, failVars, FailuresOK, SetsKnowTheirFailures
<1>2. ASSUME NEW s \in Servers, ReportFailedBlockServer(s) PROVE FailuresOK'
  BY <1>2, ReportKeepsFailuresOK
<1>3. CASE StartRecoveryESets
  BY <1>3 DEF StartRecoveryESets, FailuresOK, SetsKnowTheirFailures
<1>4. ASSUME NEW s \in Servers, RecoverESet(s) \/ ProcessMetaCmd(s) \/ ReportBlockDone(s)
      PROVE  FailuresOK'
  BY <1>4 DEF RecoverESet, ProcessMetaCmd, ReportBlockDone, failVars, FailuresOK,
              SetsKnowTheirFailures
<1>5. CASE UNCHANGED vars
  BY <1>5 DEF vars, failVars, FailuresOK, SetsKnowTheirFailures
<1> QED
  BY <1>1, <1>2, <1>3, <1>4, <1>5 DEF Next

\* Whatever the code, the overlapping factor and the order of events, the rows
\* an ESet counts as failed are those of its servers that are down: recovery
\* never misses an ESet of a failed server and never starts one without cause.
THEOREM FailuresKnown == Spec => []SetsKnowTheirFailures
<1>1. Init => FailuresOK
  BY DEF Init, FailuresOK, SetsKnowTheirFailures
<1>2. FailuresOK /\ [Next]_vars => FailuresOK'
  BY FailuresStep
<1>3. FailuresOK => SetsKnowTheirFailures
  BY DEF FailuresOK
<1> QED
  BY <1>1, <1>2, <1>3, PTL DEF Spec
-----------------------------------------------------------------------------
(* Numbers, searches and folds. *)

LEMMA MinIsLeast ==
  ASSUME NEW I \in SUBSET Nat, I # {}
  PROVE  Min(I) \in I /\ \A i \in I : Min(I) <= i
<1> DEFINE R == {ss \in Nat \X Nat : ss[1] < ss[2]}
<1>1. OpToRel(<, Nat) = R
  BY Zenon DEF OpToRel
<1>2. PICK x \in I : \A y \in I : <<y, x>> \notin R
  BY <1>1, WFMin, NatLessThanWellFounded
<1>3. ASSUME NEW y \in I PROVE x <= y
  <2>1. <<y, x>> \notin R /\ y \in Nat /\ x \in Nat
    BY <1>2
  <2>2. ~(y < x)
    BY <2>1
  <2> QED
    BY <2>1, <2>2
<1> QED
  BY <1>3 DEF Min

LEMMA SetInduction ==
  ASSUME NEW n \in Nat, NEW S, 0 \in S, \A i \in 0 .. n - 1 : i \in S => i + 1 \in S
  PROVE  0 .. n \subseteq S
<1> DEFINE Bad == {i \in Nat : i <= n /\ i \notin S}
<1>1. ASSUME Bad # {} PROVE FALSE
  <2>1. Bad \in SUBSET Nat
    OBVIOUS
  <2>2. Min(Bad) \in Bad /\ \A i \in Bad : Min(Bad) <= i
    BY <1>1, <2>1, MinIsLeast
  <2>3. PICK x \in Bad : \A i \in Bad : x <= i
    BY <2>2
  <2>4. x # 0 /\ x \in Nat /\ x <= n
    OBVIOUS
  <2>5. x - 1 \in S
    BY <2>3, <2>4
  <2> QED
    BY <2>4, <2>5
<1> QED
  BY <1>1

LEMMA MaxOfRun ==
  ASSUME NEW n \in Nat, NEW t \in SUBSET (1 .. n), n \in t
  PROVE  Max(t) = n
<1>1. \A y \in t : y \in Int /\ n >= y
  OBVIOUS
<1>2. Max(t) \in t /\ \A y \in t : Max(t) >= y
  BY <1>1, Zenon DEF Max
<1>3. Max(t) \in Int /\ n >= Max(t) /\ Max(t) >= n
  BY <1>1, <1>2
<1> QED
  BY <1>3

\* The function that FoldLeft chooses for a step given as a function.
FoldsBy(n, base, step, f) ==
  f = [t \in SUBSET (1 .. n) |->
         IF t = {} THEN base ELSE step[<<f[t \ {Max(t)}], Max(t)>>]]

\* A fold over a sequence of length n exists as the function that FoldLeft
\* chooses: it folds any set of the positions, the last one at the end.
LEMMA FoldExists ==
  ASSUME NEW n \in Nat, NEW V, NEW base \in V, NEW step \in [V \X (1 .. n) -> V]
  PROVE  \E f \in [SUBSET (1 .. n) -> V] : FoldsBy(n, base, step, f)
<1> USE DEF FoldsBy
<1> DEFINE Folds(k, f) == FoldsBy(k, base, step, f)
           S == {k \in 0 .. n : \E f \in [SUBSET (1 .. k) -> V] : Folds(k, f)}
<1>1. 0 \in S
  <2> DEFINE f == [t \in SUBSET (1 .. 0) |-> base]
  <2>1. \A t \in SUBSET (1 .. 0) : t = {}
    OBVIOUS
  <2>2. f \in [SUBSET (1 .. 0) -> V]
    OBVIOUS
  <2>3. Folds(0, f)
    <3>1. f = [t \in SUBSET (1 .. 0) |->
                 IF t = {} THEN base ELSE step[<<f[t \ {Max(t)}], Max(t)>>]]
      BY <2>1
    <3> QED
      BY <3>1
  <2>4. \E any \in [SUBSET (1 .. 0) -> V] : Folds(0, any)
    <3> HIDE DEF Folds
    <3> WITNESS f \in [SUBSET (1 .. 0) -> V]
    <3> QED
      BY <2>3
  <2>5. 0 \in 0 .. n
    OBVIOUS
  <2> HIDE DEF f, Folds
  <2> QED
    BY <2>4, <2>5, Zenon
<1>2. ASSUME NEW k \in 0 .. n - 1, k \in S PROVE k + 1 \in S
  <2>1. PICK f \in [SUBSET (1 .. k) -> V] : Folds(k, f)
    BY <1>2
  <2> DEFINE h == [t \in SUBSET (1 .. k + 1) |->
                     IF k + 1 \in t THEN step[<<f[t \ {k + 1}], k + 1>>] ELSE f[t]]
  <2>2. ASSUME NEW t \in SUBSET (1 .. k + 1)
        PROVE  h[t] = (IF t = {} THEN base ELSE step[<<h[t \ {Max(t)}], Max(t)>>]) /\ h[t] \in V
    <3>1. CASE k + 1 \in t
      <4>1. Max(t) = k + 1
        BY <3>1, MaxOfRun
      <4>2. t \ {k + 1} \in SUBSET (1 .. k) /\ k + 1 \in 1 .. n
        OBVIOUS
      <4>3. h[t] = step[<<f[t \ {k + 1}], k + 1>>] /\ h[t \ {k + 1}] = f[t \ {k + 1}]
        BY <3>1, <4>2
      <4>4. f[t \ {k + 1}] \in V
        BY <4>2
      <4> QED
        BY <3>1, <4>1, <4>2, <4>3, <4>4
    <3>2. CASE k + 1 \notin t
      <4>1. t \in SUBSET (1 .. k) /\ t \ {Max(t)} \in SUBSET (1 .. k) /\ k + 1 \notin t \ {Max(t)}
        <5>1. t \in SUBSET (1 .. k)
          BY <3>2
        <5> QED
          BY <3>2, <5>1
      <4>2. h[t] = f[t] /\ h[t \ {Max(t)}] = f[t \ {Max(t)}]
        BY <4>1
      <4>3. f[t] = IF t = {} THEN base ELSE step[<<f[t \ {Max(t)}], Max(t)>>]
        BY <2>1, <4>1
      <4> QED
        BY <4>1, <4>2, <4>3
    <3> QED
      BY <3>1, <3>2
  <2>3. h \in [SUBSET (1 .. k + 1) -> V] /\ Folds(k + 1, h)
    <3> HIDE DEF h
    <3>1. h = [t \in SUBSET (1 .. k + 1) |-> h[t]]
      BY DEF h
    <3> QED
      BY <2>2, <3>1
  <2> HIDE DEF h, Folds
  <2> QED
    BY <2>3
<1>3. n \in S
  <2> HIDE DEF S
  <2> QED
    BY <1>1, <1>2, SetInduction
<1> QED
  BY <1>3

-----------------------------------------------------------------------------
(* The invariant. *)

\* With one parity block an ESet fails once, and is listed once.
SingleParity == StripeM = 1

\* A list that has a head node has the one that would be selected now: an ESet
\* with as few nodes left as it needs is not hit again.
HeadsChosen ==
  \A i \in DOMAIN recovering :
    recovering[i].head # NoServer => recovering[i].head = SelectRecoveryNodes(recovering[i].eset)

\* The ESet e is recovered by the head node s.
HeadOf(e, s) == ListOf(e) # 0 /\ recovering[ListOf(e)].head = s

\* The commands and replies that belong to the recovery a server carries out.
Tasks(s)   == {j \in DOMAIN toServer[s] : toServer[s][j].type # "RecoveryNodes"}
Answers(s) == {j \in DOMAIN toMeta[s] : toMeta[s][j].type # "RecoveryNodesFailed"}

AtMostOne(S) == \A x, y \in S : x = y

\* ECMeta and a head node take turns: what is to be done next is one command, the
\* task or one reply.
Turn(s) ==
  /\ AtMostOne(Tasks(s)) /\ AtMostOne(Answers(s))
  /\ Tasks(s) # {} => Answers(s) = {} /\ task[s] = NoGroup
  /\ Answers(s) # {} => task[s] = NoGroup

Conversation(s) ==
  /\ s \in down => toServer[s] = << >> /\ toMeta[s] = << >>
  /\ \A j \in DOMAIN toServer[s] :
       toServer[s][j].type \in {"RecoveryNodes", "RecoveryBlockGroup", "EndRecoveryNodes"}
         /\ (toServer[s][j].type = "RecoveryNodes" => HeadOf(toServer[s][j].eset, s))
  /\ \A j \in DOMAIN toMeta[s] :
       toMeta[s][j].type \in {"RecoveryNodesOK", "RecoveryNodesFailed", "RecoveryBlockOK"}
  /\ serving[s] = NoESet => Tasks(s) = {} /\ Answers(s) = {} /\ task[s] = NoGroup
  /\ serving[s] # NoESet => Turn(s)
  /\ serving[s] # NoESet /\ s \notin down => HeadOf(serving[s], s)
  /\ \A j \in Tasks(s) : toServer[s][j].eset = serving[s]
  /\ \A j \in Answers(s) : toMeta[s][j].eset = serving[s]

Conversations == \A s \in Servers : Conversation(s)

\* The lists with one parity block.
ListedOnce ==
  /\ \A i, j \in DOMAIN pending : i # j => pending[i].eset # pending[j].eset
  /\ \A i, j \in DOMAIN recovering : i # j => recovering[i].eset # recovering[j].eset
  /\ \A i \in DOMAIN pending, j \in DOMAIN recovering : pending[i].eset # recovering[j].eset
  /\ \A i \in DOMAIN pending : failed[pending[i].eset] = {pending[i].row}
  /\ \A i \in DOMAIN recovering : failed[recovering[i].eset] = {recovering[i].row}

\* The group an ESet waits for.
Cur(e) == recovering[ListOf(e)].cur

Expected(s) ==
  /\ \A j \in Answers(s) : toMeta[s][j].group = Cur(serving[s])
  /\ \A j \in Tasks(s) : toServer[s][j].type = "RecoveryBlockGroup" =>
                           toServer[s][j].group = Cur(serving[s])
  /\ task[s] # NoGroup => task[s] = Cur(serving[s])

\* An ESet that a head node is still asked to take has not been begun.
Unbegun(s) ==
  \A j \in DOMAIN toServer[s] : toServer[s][j].type = "RecoveryNodes" =>
    /\ Cur(toServer[s][j].eset) = NoGroup /\ serving[s] # toServer[s][j].eset
    /\ \A k \in DOMAIN toServer[s] :
         toServer[s][k].type = "RecoveryNodes" /\ toServer[s][k].eset = toServer[s][j].eset => j = k

OneAtATime == \A s \in Servers \ down : Expected(s) /\ Unbegun(s)

\* A group is mapped to one ESet, once, when it is placed, and loses blocks
\* only then.
MappedOnce ==
  /\ \A e \in ESets : \A i \in DOMAIN blockGroupMap[e] : blockGroupMap[e][i].group \in Placed
  /\ \A e, f \in ESets : \A i \in DOMAIN blockGroupMap[e], j \in DOMAIN blockGroupMap[f] :
       blockGroupMap[e][i].group = blockGroupMap[f][j].group => e = f /\ i = j
  /\ \A g \in Groups \ Placed : missing[g] = {}

\* A mapping is flagged recovered only in an ESet that failed, and what is
\* missing of its group is missing because of that ESet.
FlagsAgree ==
  /\ \A e \in ESets : \A i \in DOMAIN blockGroupMap[e] :
       /\ failed[e] = {} => ~blockGroupMap[e][i].recovered
       /\ missing[blockGroupMap[e][i].group] \subseteq failed[e]
  /\ RecoveredMeansRepaired

IInv == TypeOK /\ SetsKnowTheirFailures /\ HeadsChosen /\ Conversations /\ MappedOnce

\* What holds besides with one parity block.
OneParityInv == ListedOnce /\ OneAtATime /\ FlagsAgree
LEMMA MaxInSet ==
  ASSUME NEW n \in Nat, NEW t \in SUBSET (1 .. n), t # {}
  PROVE  Max(t) \in t
<1> DEFINE S == {n - i : i \in t}
<1>1. S \in SUBSET Nat /\ S # {}
  <2>1. \A i \in t : n - i \in Nat
    OBVIOUS
  <2>2. PICK i \in t : TRUE
    OBVIOUS
  <2>3. n - i \in S
    BY <2>2
  <2> QED
    BY <2>1, <2>3
<1>2. PICK m \in S : \A i \in S : m <= i
  <2> HIDE DEF S
  <2> QED
    BY <1>1, MinIsLeast
<1>3. PICK x \in t : m = n - x
  OBVIOUS
<1>4. ASSUME NEW y \in t PROVE x >= y
  <2>1. m <= n - y
    BY <1>2
  <2> QED
    BY <1>3, <2>1
<1> QED
  BY <1>4 DEF Max

-----------------------------------------------------------------------------
(* The folds of the model, as runs over their lists. *)

SendSteps(base, lists, acc) ==
  /\ acc[0] = base /\ acc[Len(lists)] = FoldLeft(SendRecoveryNodes, base, lists)
  /\ \A i \in 1 .. Len(lists) : acc[i] = SendRecoveryNodes(acc[i - 1], lists[i])

LEMMA SendRun ==
  ASSUME NEW V, NEW E, NEW base \in V, NEW lists \in Seq(E),
         \A net \in V : \A list \in E : SendRecoveryNodes(net, list) \in V
  PROVE  \E acc \in [0 .. Len(lists) -> V] : SendSteps(base, lists, acc)
<1> DEFINE n == Len(lists)
           step == [p \in V \X (1 .. n) |-> SendRecoveryNodes(p[1], lists[p[2]])]
           Folds(f) == f = [t \in SUBSET (1 .. n) |->
                              IF t = {} THEN base ELSE SendRecoveryNodes(f[t \ {Max(t)}], lists[Max(t)])]
           iter == CHOOSE f : Folds(f)
<1>0. n \in Nat /\ DOMAIN lists = 1 .. n /\ \A i \in 1 .. n : lists[i] \in E
  OBVIOUS
<1>a. base \in V /\ n \in Nat
  OBVIOUS
<1>1. step \in [V \X (1 .. n) -> V]
  BY <1>0
<1>2. PICK f \in [SUBSET (1 .. n) -> V] : FoldsBy(n, base, step, f)
  <2> HIDE DEF n, step
  <2> QED
    BY <1>a, <1>1, FoldExists
<1>3. Folds(f)
  <2>1. ASSUME NEW t \in SUBSET (1 .. n), t # {}
        PROVE  step[<<f[t \ {Max(t)}], Max(t)>>] = SendRecoveryNodes(f[t \ {Max(t)}], lists[Max(t)])
    <3>1. Max(t) \in 1 .. n
      BY <1>0, <2>1, MaxInSet
    <3>2. f[t \ {Max(t)}] \in V
      OBVIOUS
    <3> QED
      BY <3>1, <3>2
  <2> HIDE DEF n, step
  <2> QED
    BY <1>2, <2>1 DEF FoldsBy
<1>4. Folds(iter)
  <2> HIDE DEF Folds
  <2> QED
    BY <1>3
<1>5. FoldLeft(SendRecoveryNodes, base, lists) = iter[1 .. n]
  BY <1>0 DEF FoldLeft, MapThenFoldSet
<1>6. iter[{}] = base
  BY <1>4
<1>7. ASSUME NEW i \in 1 .. n
      PROVE  iter[1 .. i] = SendRecoveryNodes(iter[1 .. i - 1], lists[i])
  <2> HIDE DEF iter, n
  <2>1. i \in Nat /\ i \in 1 .. i /\ 1 .. i \in SUBSET (1 .. n)
    <3>1. i \in Nat /\ i <= n /\ 1 <= i
      BY <1>0
    <3> QED
      BY <1>0, <3>1
  <2>2. Max(1 .. i) = i /\ (1 .. i) \ {i} = 1 .. i - 1
    BY <2>1, MaxOfRun
  <2> QED
    <3>1. 1 .. i # {}
      BY <2>1
    <3>2. iter[1 .. i] = SendRecoveryNodes(iter[(1 .. i) \ {Max(1 .. i)}], lists[Max(1 .. i)])
      BY <1>4, <2>1, <3>1
    <3> QED
      BY <2>2, <3>2
<1> DEFINE Ok == {i \in 0 .. n : iter[1 .. i] \in V}
           acc == [i \in 0 .. n |-> iter[1 .. i]]
<1>8. 0 .. n \subseteq Ok
  <2> HIDE DEF iter, n
  <2>1. 0 \in Ok
    <3>1. 1 .. 0 = {} /\ 0 \in 0 .. n
      BY <1>0
    <3>2. iter[1 .. 0] \in V
      BY <1>a, <1>6, <3>1
    <3> QED
      BY <3>1, <3>2
  <2>2. ASSUME NEW i \in 0 .. n - 1, i \in Ok PROVE i + 1 \in Ok
    <3>1. i + 1 \in 1 .. n /\ i = (i + 1) - 1
      BY <1>0
    <3>2. iter[1 .. i + 1] = SendRecoveryNodes(iter[1 .. i], lists[i + 1])
      BY <1>7, <3>1
    <3>3. iter[1 .. i] \in V /\ lists[i + 1] \in E /\ i + 1 \in 0 .. n
      BY <1>0, <2>2, <3>1
    <3>4. iter[1 .. i + 1] \in V
      BY <3>2, <3>3
    <3> QED
      BY <3>3, <3>4
  <2> HIDE DEF Ok
  <2> QED
    BY <1>0, <2>1, <2>2, SetInduction
<1>9. acc \in [0 .. n -> V] /\ acc[0] = base /\ acc[n] = FoldLeft(SendRecoveryNodes, base, lists)
      /\ \A i \in 1 .. n : acc[i] = SendRecoveryNodes(acc[i - 1], lists[i])
  <2> HIDE DEF iter, n
  <2>1. 1 .. 0 = {}
    OBVIOUS
  <2> QED
    BY <1>0, <1>5, <1>6, <1>7, <1>8, <2>1
<1>10. SendSteps(base, lists, acc)
  BY <1>9 DEF SendSteps
<1> HIDE DEF acc, iter
<1> QED
  BY <1>9, <1>10

PickSteps(list, In, acc) ==
  /\ acc[0] = << >> /\ acc[Len(list)] = Picked(list, In)
  /\ \A i \in 1 .. Len(list) : acc[i] = (IF list[i] \in In THEN Append(acc[i - 1], list[i]) ELSE acc[i - 1])

LEMMA PickRun ==
  ASSUME NEW E, NEW list \in Seq(E), NEW In
  PROVE  \E acc \in [0 .. Len(list) -> Seq(E)] : PickSteps(list, In, acc)
<1> DEFINE n == Len(list)
           step == [p \in Seq(E) \X (1 .. n) |-> (IF list[p[2]] \in In THEN Append(p[1], list[p[2]]) ELSE p[1])]
           Folds(f) == f = [t \in SUBSET (1 .. n) |->
                              IF t = {} THEN << >> ELSE (IF list[Max(t)] \in In THEN Append(f[t \ {Max(t)}], list[Max(t)]) ELSE f[t \ {Max(t)}])]
           iter == CHOOSE f : Folds(f)
<1>0. n \in Nat /\ DOMAIN list = 1 .. n /\ \A i \in 1 .. n : list[i] \in E
  OBVIOUS
<1>a. << >> \in Seq(E) /\ n \in Nat
  OBVIOUS
<1>1. step \in [Seq(E) \X (1 .. n) -> Seq(E)]
  BY <1>0
<1>2. PICK f \in [SUBSET (1 .. n) -> Seq(E)] : FoldsBy(n, << >>, step, f)
  <2> HIDE DEF n, step
  <2> QED
    BY <1>a, <1>1, FoldExists
<1>3. Folds(f)
  <2>1. ASSUME NEW t \in SUBSET (1 .. n), t # {}
        PROVE  step[<<f[t \ {Max(t)}], Max(t)>>] = (IF list[Max(t)] \in In THEN Append(f[t \ {Max(t)}], list[Max(t)]) ELSE f[t \ {Max(t)}])
    <3>1. Max(t) \in 1 .. n
      BY <1>0, <2>1, MaxInSet
    <3>2. f[t \ {Max(t)}] \in Seq(E)
      OBVIOUS
    <3> QED
      BY <3>1, <3>2
  <2> HIDE DEF n, step
  <2> QED
    BY <1>2, <2>1 DEF FoldsBy
<1>4. Folds(iter)
  <2> HIDE DEF Folds
  <2> QED
    BY <1>3
<1>5. Picked(list, In) = iter[1 .. n]
  BY <1>0 DEF FoldLeft, MapThenFoldSet, Picked
<1>6. iter[{}] = << >>
  BY <1>4
<1>7. ASSUME NEW i \in 1 .. n
      PROVE  iter[1 .. i] = (IF list[i] \in In THEN Append(iter[1 .. i - 1], list[i]) ELSE iter[1 .. i - 1])
  <2> HIDE DEF iter, n
  <2>1. i \in Nat /\ i \in 1 .. i /\ 1 .. i \in SUBSET (1 .. n)
    <3>1. i \in Nat /\ i <= n /\ 1 <= i
      BY <1>0
    <3> QED
      BY <1>0, <3>1
  <2>2. Max(1 .. i) = i /\ (1 .. i) \ {i} = 1 .. i - 1
    BY <2>1, MaxOfRun
  <2> QED
    <3>1. 1 .. i # {}
      BY <2>1
    <3>2. iter[1 .. i] = (IF list[Max(1 .. i)] \in In THEN Append(iter[(1 .. i) \ {Max(1 .. i)}], list[Max(1 .. i)]) ELSE iter[(1 .. i) \ {Max(1 .. i)}])
      BY <1>4, <2>1, <3>1
    <3> QED
      BY <2>2, <3>2
<1> DEFINE Ok == {i \in 0 .. n : iter[1 .. i] \in Seq(E)}
           acc == [i \in 0 .. n |-> iter[1 .. i]]
<1>8. 0 .. n \subseteq Ok
  <2> HIDE DEF iter, n
  <2>1. 0 \in Ok
    <3>1. 1 .. 0 = {} /\ 0 \in 0 .. n
      BY <1>0
    <3>2. iter[1 .. 0] \in Seq(E)
      BY <1>a, <1>6, <3>1
    <3> QED
      BY <3>1, <3>2
  <2>2. ASSUME NEW i \in 0 .. n - 1, i \in Ok PROVE i + 1 \in Ok
    <3>1. i + 1 \in 1 .. n /\ i = (i + 1) - 1
      BY <1>0
    <3>2. iter[1 .. i + 1] = (IF list[i + 1] \in In THEN Append(iter[1 .. i], list[i + 1]) ELSE iter[1 .. i])
      BY <1>7, <3>1
    <3>3. iter[1 .. i] \in Seq(E) /\ list[i + 1] \in E /\ i + 1 \in 0 .. n
      BY <1>0, <2>2, <3>1
    <3>4. iter[1 .. i + 1] \in Seq(E)
      BY <3>2, <3>3
    <3> QED
      BY <3>3, <3>4
  <2> HIDE DEF Ok
  <2> QED
    BY <1>0, <2>1, <2>2, SetInduction
<1>9. acc \in [0 .. n -> Seq(E)] /\ acc[0] = << >> /\ acc[n] = Picked(list, In)
      /\ \A i \in 1 .. n : acc[i] = (IF list[i] \in In THEN Append(acc[i - 1], list[i]) ELSE acc[i - 1])
  <2> HIDE DEF iter, n
  <2>1. 1 .. 0 = {}
    OBVIOUS
  <2> QED
    BY <1>0, <1>5, <1>6, <1>7, <1>8, <2>1
<1>10. PickSteps(list, In, acc)
  BY <1>9 DEF PickSteps
<1> HIDE DEF acc, iter
<1> QED
  BY <1>9, <1>10

AddSteps(list, lost, row, failure, acc) ==
  /\ acc[0] = list /\ acc[ESetsSize] = AddAllPending(list, lost, row, failure)
  /\ \A i \in 1 .. ESetsSize : acc[i] = (IF ESetsSize - i \in lost THEN AddPending(acc[i - 1], [eset |-> ESetsSize - i, row |-> row, failure |-> failure]) ELSE acc[i - 1])

LEMMA AddRun ==
  ASSUME NEW E, NEW list \in Seq(E), NEW lost, NEW row, NEW failure,
         \A l \in Seq(E) : \A e \in lost : AddPending(l, [eset |-> e, row |-> row, failure |-> failure]) \in Seq(E)
  PROVE  \E acc \in [0 .. ESetsSize -> Seq(E)] : AddSteps(list, lost, row, failure, acc)
<1> DEFINE D == [i \in 1 .. ESetsSize |-> ESetsSize - i]
           n == ESetsSize
           step == [p \in Seq(E) \X (1 .. n) |-> (IF D[p[2]] \in lost THEN AddPending(p[1], [eset |-> D[p[2]], row |-> row, failure |-> failure]) ELSE p[1])]
           Folds(f) == f = [t \in SUBSET (1 .. n) |->
                              IF t = {} THEN list ELSE (IF D[Max(t)] \in lost THEN AddPending(f[t \ {Max(t)}], [eset |-> D[Max(t)], row |-> row, failure |-> failure]) ELSE f[t \ {Max(t)}])]
           iter == CHOOSE f : Folds(f)
<1>0. n \in Nat /\ DOMAIN D = 1 .. n /\ \A i \in 1 .. n : D[i] \in Int
  BY OFactorAssumption DEF ESetsSize
<1>a. list \in Seq(E) /\ n \in Nat
  BY OFactorAssumption DEF ESetsSize
<1>b. \A i \in 1 .. n : D[i] = ESetsSize - i
  OBVIOUS
<1> HIDE DEF D
<1>1. step \in [Seq(E) \X (1 .. n) -> Seq(E)]
  BY <1>0
<1>2. PICK f \in [SUBSET (1 .. n) -> Seq(E)] : FoldsBy(n, list, step, f)
  <2> HIDE DEF n, step
  <2> QED
    BY <1>a, <1>1, FoldExists
<1>3. Folds(f)
  <2>1. ASSUME NEW t \in SUBSET (1 .. n), t # {}
        PROVE  step[<<f[t \ {Max(t)}], Max(t)>>] = (IF D[Max(t)] \in lost THEN AddPending(f[t \ {Max(t)}], [eset |-> D[Max(t)], row |-> row, failure |-> failure]) ELSE f[t \ {Max(t)}])
    <3>1. Max(t) \in 1 .. n
      BY <1>0, <2>1, MaxInSet
    <3>2. f[t \ {Max(t)}] \in Seq(E)
      OBVIOUS
    <3> QED
      BY <3>1, <3>2
  <2> HIDE DEF n, step
  <2> QED
    BY <1>2, <2>1 DEF FoldsBy
<1>4. Folds(iter)
  <2> HIDE DEF Folds
  <2> QED
    BY <1>3
<1>5. AddAllPending(list, lost, row, failure) = iter[1 .. n]
  BY <1>0 DEF D, FoldLeft, MapThenFoldSet, AddAllPending
<1>6. iter[{}] = list
  BY <1>4
<1>7. ASSUME NEW i \in 1 .. n
      PROVE  iter[1 .. i] = (IF D[i] \in lost THEN AddPending(iter[1 .. i - 1], [eset |-> D[i], row |-> row, failure |-> failure]) ELSE iter[1 .. i - 1])
  <2> HIDE DEF iter, n
  <2>1. i \in Nat /\ i \in 1 .. i /\ 1 .. i \in SUBSET (1 .. n)
    <3>1. i \in Nat /\ i <= n /\ 1 <= i
      BY <1>0
    <3> QED
      BY <1>0, <3>1
  <2>2. Max(1 .. i) = i /\ (1 .. i) \ {i} = 1 .. i - 1
    BY <2>1, MaxOfRun
  <2> QED
    <3>1. 1 .. i # {}
      BY <2>1
    <3>2. iter[1 .. i] = (IF D[Max(1 .. i)] \in lost THEN AddPending(iter[(1 .. i) \ {Max(1 .. i)}], [eset |-> D[Max(1 .. i)], row |-> row, failure |-> failure]) ELSE iter[(1 .. i) \ {Max(1 .. i)}])
      BY <1>4, <2>1, <3>1
    <3> QED
      BY <2>2, <3>2
<1> DEFINE Ok == {i \in 0 .. n : iter[1 .. i] \in Seq(E)}
           acc == [i \in 0 .. n |-> iter[1 .. i]]
<1>8. 0 .. n \subseteq Ok
  <2> HIDE DEF iter, n
  <2>1. 0 \in Ok
    <3>1. 1 .. 0 = {} /\ 0 \in 0 .. n
      BY <1>0
    <3>2. iter[1 .. 0] \in Seq(E)
      BY <1>a, <1>6, <3>1
    <3> QED
      BY <3>1, <3>2
  <2>2. ASSUME NEW i \in 0 .. n - 1, i \in Ok PROVE i + 1 \in Ok
    <3>1. i + 1 \in 1 .. n /\ i = (i + 1) - 1
      BY <1>0
    <3>2. iter[1 .. i + 1] = (IF D[i + 1] \in lost THEN AddPending(iter[1 .. i], [eset |-> D[i + 1], row |-> row, failure |-> failure]) ELSE iter[1 .. i])
      BY <1>7, <3>1
    <3>3. iter[1 .. i] \in Seq(E) /\ D[i + 1] \in Int /\ i + 1 \in 0 .. n
      BY <1>0, <2>2, <3>1
    <3>4. iter[1 .. i + 1] \in Seq(E)
      BY <3>2, <3>3
    <3> QED
      BY <3>3, <3>4
  <2> HIDE DEF Ok
  <2> QED
    BY <1>0, <2>1, <2>2, SetInduction
<1>9. acc \in [0 .. n -> Seq(E)] /\ acc[0] = list /\ acc[n] = AddAllPending(list, lost, row, failure)
      /\ \A i \in 1 .. n : acc[i] = (IF D[i] \in lost THEN AddPending(acc[i - 1], [eset |-> D[i], row |-> row, failure |-> failure]) ELSE acc[i - 1])
  <2> HIDE DEF iter, n
  <2>1. 1 .. 0 = {}
    OBVIOUS
  <2> QED
    BY <1>0, <1>5, <1>6, <1>7, <1>8, <2>1
<1>10. AddSteps(list, lost, row, failure, acc)
  <2> HIDE DEF acc, iter
  <2>1. \A i \in 1 .. ESetsSize : acc[i] = IF ESetsSize - i \in lost
               THEN AddPending(acc[i - 1], [eset |-> ESetsSize - i, row |-> row, failure |-> failure])
               ELSE acc[i - 1]
    <3> TAKE i \in 1 .. ESetsSize
    <3>1. D[i] = ESetsSize - i
      BY <1>b
    <3>2. acc[i] = IF D[i] \in lost
               THEN AddPending(acc[i - 1], [eset |-> D[i], row |-> row, failure |-> failure])
               ELSE acc[i - 1]
      BY <1>9
    <3> QED
      BY <3>1, <3>2
  <2> QED
    BY <1>9, <2>1 DEF AddSteps
<1> HIDE DEF acc, iter
<1> QED
  BY <1>9, <1>10

\* What is picked from a list stands in it, in the same order.
LEMMA PickedIsSublist ==
  ASSUME NEW E, NEW list \in Seq(E), NEW In
  PROVE  /\ Picked(list, In) \in Seq(E)
         /\ \E at \in [DOMAIN Picked(list, In) -> DOMAIN list] :
              /\ \A j \in DOMAIN Picked(list, In) :
                   Picked(list, In)[j] = list[at[j]] /\ list[at[j]] \in In
              /\ \A j, k \in DOMAIN Picked(list, In) : j < k => at[j] < at[k]
<1> DEFINE n == Len(list)
<1>1. PICK acc \in [0 .. n -> Seq(E)] :
           /\ acc[0] = << >> /\ acc[n] = Picked(list, In)
           /\ \A i \in 1 .. n : acc[i] = (IF list[i] \in In THEN Append(acc[i - 1], list[i])
                                                            ELSE acc[i - 1])
  <2>1. \E acc \in [0 .. n -> Seq(E)] : PickSteps(list, In, acc)
    BY PickRun
  <2> QED
    BY <2>1 DEF PickSteps
<1>0. n \in Nat /\ DOMAIN list = 1 .. n /\ \A i \in 1 .. n : list[i] \in E
  OBVIOUS
<1> HIDE DEF n
<1> DEFINE Sub(i, at) == /\ \A j \in 1 .. Len(acc[i]) : acc[i][j] = list[at[j]] /\ list[at[j]] \in In
                         /\ \A j, k \in 1 .. Len(acc[i]) : j < k => at[j] < at[k]
           Ok == {i \in 0 .. n : \E at \in [1 .. Len(acc[i]) -> 1 .. i] : Sub(i, at)}
<1>2. 0 \in Ok
  <2>1. Len(acc[0]) = 0 /\ 1 .. 0 = {} /\ 0 \in 0 .. n
    BY <1>0, <1>1
  <2>2. [j \in {} |-> 0] \in [1 .. Len(acc[0]) -> 1 .. 0] /\ Sub(0, [j \in {} |-> 0])
    BY <2>1
  <2> QED
    BY <2>1, <2>2
<1>3. ASSUME NEW i \in 0 .. n - 1, i \in Ok PROVE i + 1 \in Ok
  <2>0. i + 1 \in 1 .. n /\ i \in 0 .. n /\ i + 1 \in 0 .. n /\ (i + 1) - 1 = i /\ i \in Nat
    BY <1>0
  <2>1. PICK at \in [1 .. Len(acc[i]) -> 1 .. i] : Sub(i, at)
    BY <1>3
  <2>2. acc[i] \in Seq(E) /\ acc[i + 1] \in Seq(E) /\ list[i + 1] \in E
    BY <1>0, <1>1, <2>0
  <2>3. acc[i + 1] = IF list[i + 1] \in In THEN Append(acc[i], list[i + 1]) ELSE acc[i]
    BY <1>1, <2>0
  <2>4. CASE list[i + 1] \in In
    <3> DEFINE m == Len(acc[i])
               to == [j \in 1 .. m + 1 |-> IF j = m + 1 THEN i + 1 ELSE at[j]]
    <3>1. m \in Nat /\ Len(acc[i + 1]) = m + 1 /\ acc[i + 1][m + 1] = list[i + 1]
          /\ \A j \in 1 .. m : acc[i + 1][j] = acc[i][j]
      BY <2>2, <2>3, <2>4
    <3> HIDE DEF m
    <3>2. to \in [1 .. m + 1 -> 1 .. i + 1] /\ to[m + 1] = i + 1 /\ \A j \in 1 .. m : to[j] = at[j]
      BY <2>0, <3>1 DEF m
    <3>3. \A j \in 1 .. m + 1 : j = m + 1 \/ j \in 1 .. m
      BY <3>1
    <3> HIDE DEF to
    <3>4. \A j \in 1 .. m + 1 : acc[i + 1][j] = list[to[j]] /\ list[to[j]] \in In
      BY <2>1, <2>4, <3>1, <3>2, <3>3 DEF m
    <3>5. \A j, k \in 1 .. m + 1 : j < k => to[j] < to[k]
      <4> TAKE j, k \in 1 .. m + 1
      <4>1. HAVE j < k
      <4>2. j \in 1 .. m
        BY <3>1, <4>1
      <4>3. at[j] \in 1 .. i
        BY <2>1, <4>2 DEF m
      <4> QED
        BY <2>0, <2>1, <3>1, <3>2, <3>3, <4>1, <4>2, <4>3 DEF m
    <3>6. to \in [1 .. Len(acc[i + 1]) -> 1 .. i + 1] /\ Sub(i + 1, to)
      BY <3>1, <3>2, <3>4, <3>5
    <3> HIDE DEF Sub
    <3> QED
      BY <2>0, <3>6
  <2>5. CASE list[i + 1] \notin In
    <3>1. acc[i + 1] = acc[i]
      BY <2>3, <2>5
    <3>2. at \in [1 .. Len(acc[i + 1]) -> 1 .. i + 1] /\ Sub(i + 1, at)
      BY <2>0, <2>1, <3>1
    <3> HIDE DEF Sub
    <3> QED
      BY <2>0, <3>2
  <2> QED
    BY <2>4, <2>5
<1>4. n \in Ok
  <2> HIDE DEF Ok
  <2>1. 0 .. n \subseteq Ok
    BY <1>0, <1>2, <1>3, SetInduction
  <2> QED
    BY <1>0, <2>1
<1>5. acc[n] \in Seq(E)
  BY <1>0, <1>1
<1>6. DOMAIN acc[n] = 1 .. Len(acc[n])
  BY <1>5
<1> QED
  <2>1. PICK at \in [1 .. Len(acc[n]) -> 1 .. n] : Sub(n, at)
    BY <1>4
  <2>2. at \in [DOMAIN acc[n] -> DOMAIN list]
    BY <1>0, <1>6, <2>1
  <2>3. /\ \A j \in DOMAIN acc[n] : acc[n][j] = list[at[j]] /\ list[at[j]] \in In
        /\ \A j, k \in DOMAIN acc[n] : j < k => at[j] < at[k]
    BY <1>6, <2>1
  <2>4. acc[n] = Picked(list, In)
    BY <1>1
  <2> HIDE DEF Sub
  <2> QED
    BY <1>5, <2>2, <2>3, <2>4, Zenon

Lists == [eset : ESets, row : Rows, head : Servers \cup {NoServer}, cur : Groups \cup {NoGroup}]

\* What is sent for a sequence of lists: to each head node, after all that it
\* has not received yet, one command for each of its lists, in their order.
SentTo(s, queue, new, lists) ==
  /\ Len(new) >= Len(queue)
  /\ \A j \in 1 .. Len(queue) : new[j] = queue[j]
  /\ \E at \in [Len(queue) + 1 .. Len(new) -> DOMAIN lists] :
       /\ \A j \in Len(queue) + 1 .. Len(new) :
            /\ new[j] = Cmd("RecoveryNodes", lists[at[j]].eset, NoGroup)
            /\ lists[at[j]].head = s
       /\ \A j, k \in Len(queue) + 1 .. Len(new) : j < k => at[j] < at[k]

LEMMA SentForLists ==
  ASSUME NEW base \in [Servers -> Seq(Cmds)], NEW lists \in Seq(Lists), NEW s \in Servers
  PROVE  LET net == FoldLeft(SendRecoveryNodes, base, lists)
         IN net \in [Servers -> Seq(Cmds)] /\ SentTo(s, base[s], net[s], lists)
<1> DEFINE n == Len(lists)
           b == Len(base[s])
           V == [Servers -> Seq(Cmds)]
<1>1. \A net \in V : \A list \in Lists : SendRecoveryNodes(net, list) \in V
  <2> SUFFICES ASSUME NEW net \in V, NEW list \in Lists
               PROVE  SendRecoveryNodes(net, list) \in V
    OBVIOUS
  <2>1. Cmd("RecoveryNodes", list.eset, NoGroup) \in Cmds
    BY DEF Cmd, Cmds, CmdTypes, Lists
  <2>2. \A x \in Servers : Append(net[x], Cmd("RecoveryNodes", list.eset, NoGroup)) \in Seq(Cmds)
    BY <2>1
  <2> QED
    BY <2>2 DEF SendRecoveryNodes
<1>2. PICK acc \in [0 .. n -> V] :
        /\ acc[0] = base /\ acc[n] = FoldLeft(SendRecoveryNodes, base, lists)
        /\ \A i \in 1 .. n : acc[i] = SendRecoveryNodes(acc[i - 1], lists[i])
  <2>1. \E acc \in [0 .. n -> V] : SendSteps(base, lists, acc)
    <3>1. base \in V
      OBVIOUS
    <3> HIDE DEF V
    <3> QED
      BY <1>1, <3>1, SendRun
  <2> HIDE DEF V
  <2> QED
    BY <2>1 DEF SendSteps
<1>0. n \in Nat /\ DOMAIN lists = 1 .. n /\ (\A i \in 1 .. n : lists[i] \in Lists)
      /\ b \in Nat /\ (\A i \in 0 .. n : acc[i] \in V /\ acc[i][s] \in Seq(Cmds))
  <2>1. n \in Nat /\ DOMAIN lists = 1 .. n /\ (\A i \in 1 .. n : lists[i] \in Lists) /\ b \in Nat
    OBVIOUS
  <2>2. \A net \in V : net[s] \in Seq(Cmds)
    OBVIOUS
  <2> HIDE DEF V, n
  <2> QED
    BY <1>2, <2>1, <2>2
<1> HIDE DEF n, b, V
<1> DEFINE Sub(i, at) == 
             /\ \A j \in b + 1 .. Len(acc[i][s]) :
                  acc[i][s][j] = Cmd("RecoveryNodes", lists[at[j]].eset, NoGroup)
                  /\ lists[at[j]].head = s
             /\ \A j, k \in b + 1 .. Len(acc[i][s]) : j < k => at[j] < at[k]
           Ok == {i \in 0 .. n :
                    /\ Len(acc[i][s]) >= b
                    /\ \A j \in 1 .. b : acc[i][s][j] = base[s][j]
                    /\ \E at \in [b + 1 .. Len(acc[i][s]) -> 1 .. i] : Sub(i, at)}
<1>3. 0 \in Ok
  <2>1. Len(acc[0][s]) = b /\ b + 1 .. b = {} /\ 0 \in 0 .. n /\ acc[0][s] = base[s]
    BY <1>0, <1>2 DEF b
  <2>2. [j \in {} |-> 0] \in [b + 1 .. Len(acc[0][s]) -> 1 .. 0] /\ Sub(0, [j \in {} |-> 0])
    BY <2>1
  <2>3. \A j \in 1 .. b : acc[0][s][j] = base[s][j]
    BY <2>1
  <2>4. \E at \in [b + 1 .. Len(acc[0][s]) -> 1 .. 0] : Sub(0, at)
    <3> HIDE DEF Sub
    <3> QED
      BY <2>2
  <2>5. Len(acc[0][s]) >= b
    BY <1>0, <2>1
  <2> HIDE DEF Sub
  <2> QED
    BY <2>1, <2>3, <2>4, <2>5
<1>4. ASSUME NEW i \in 0 .. n - 1, i \in Ok PROVE i + 1 \in Ok
  <2>0. i + 1 \in 1 .. n /\ i \in 0 .. n /\ i + 1 \in 0 .. n /\ (i + 1) - 1 = i /\ i \in Nat
    BY <1>0
  <2> DEFINE m == Len(acc[i][s])
  <2>1. PICK at \in [b + 1 .. m -> 1 .. i] : Sub(i, at)
    BY <1>4
  <2>2. /\ acc[i] \in V /\ acc[i][s] \in Seq(Cmds) /\ acc[i + 1][s] \in Seq(Cmds)
        /\ lists[i + 1] \in Lists
        /\ m \in Nat /\ m >= b /\ \A j \in 1 .. b : acc[i][s][j] = base[s][j]
    BY <1>0, <1>4, <2>0
  <2>3. acc[i + 1] = SendRecoveryNodes(acc[i], lists[i + 1])
    BY <1>2, <2>0
  <2>4. CASE lists[i + 1].head = s
    <3> DEFINE cmd == Cmd("RecoveryNodes", lists[i + 1].eset, NoGroup)
               to == [j \in b + 1 .. m + 1 |-> IF j = m + 1 THEN i + 1 ELSE at[j]]
    <3>0. s # NoServer
      BY DEF Servers, NoServer, Rows
    <3>1. acc[i + 1][s] = Append(acc[i][s], cmd)
      <4> HIDE DEF cmd
      <4> QED
        BY <2>2, <2>3, <2>4, <3>0 DEF SendRecoveryNodes, V, cmd
    <3>2. Len(acc[i + 1][s]) = m + 1 /\ acc[i + 1][s][m + 1] = cmd
          /\ \A j \in 1 .. m : acc[i + 1][s][j] = acc[i][s][j]
      <4> HIDE DEF cmd
      <4> QED
        BY <2>2, <3>1
    <3> HIDE DEF m, cmd
    <3>3. to \in [b + 1 .. m + 1 -> 1 .. i + 1] /\ to[m + 1] = i + 1 /\ \A j \in b + 1 .. m : to[j] = at[j]
      BY <1>0, <2>0, <2>2
    <3>4. \A j \in b + 1 .. m + 1 : j = m + 1 \/ (j \in b + 1 .. m /\ j \in 1 .. m)
      BY <1>0, <2>2
    <3> HIDE DEF to
    <3>5. \A j \in b + 1 .. m + 1 :
            acc[i + 1][s][j] = Cmd("RecoveryNodes", lists[to[j]].eset, NoGroup)
            /\ lists[to[j]].head = s
      BY <2>1, <2>4, <3>2, <3>3, <3>4 DEF m, cmd
    <3>6. \A j, k \in b + 1 .. m + 1 : j < k => to[j] < to[k]
      <4> TAKE j, k \in b + 1 .. m + 1
      <4>1. HAVE j < k
      <4>2. j \in b + 1 .. m /\ at[j] \in 1 .. i
        BY <1>0, <2>2, <4>1
      <4> QED
        BY <2>0, <2>1, <3>3, <3>4, <4>1, <4>2 DEF m
    <3>7. /\ to \in [b + 1 .. Len(acc[i + 1][s]) -> 1 .. i + 1] /\ Sub(i + 1, to)
          /\ Len(acc[i + 1][s]) >= b /\ \A j \in 1 .. b : acc[i + 1][s][j] = base[s][j]
      BY <1>0, <2>2, <3>2, <3>3, <3>5, <3>6
    <3> HIDE DEF Sub
    <3> QED
      BY <2>0, <3>7
  <2>5. CASE lists[i + 1].head # s
    <3>1. acc[i + 1][s] = acc[i][s]
      BY <2>2, <2>3, <2>5 DEF SendRecoveryNodes, V
    <3>2. /\ at \in [b + 1 .. Len(acc[i + 1][s]) -> 1 .. i + 1] /\ Sub(i + 1, at)
          /\ Len(acc[i + 1][s]) >= b /\ \A j \in 1 .. b : acc[i + 1][s][j] = base[s][j]
      BY <1>0, <2>0, <2>1, <2>2, <3>1
    <3> HIDE DEF Sub
    <3> QED
      BY <2>0, <3>2
  <2> QED
    BY <2>4, <2>5
<1>5. n \in Ok
  <2> HIDE DEF Ok
  <2>1. 0 .. n \subseteq Ok
    BY <1>0, <1>3, <1>4, SetInduction
  <2> QED
    BY <1>0, <2>1
<1> QED
  <2>1. SentTo(s, base[s], acc[n][s], lists)
    BY <1>0, <1>5 DEF b, SentTo
  <2> QED
    BY <1>0, <1>2, <2>1 DEF V

-----------------------------------------------------------------------------
(* The shape of the state. *)

LEMMA Sizes ==
  /\ StripeK \in Nat /\ StripeK > 0 /\ StripeM \in Nat /\ StripeM > 0
  /\ OFactor \in Nat /\ OFactor > 0 /\ ESetsSize \in Nat /\ ESetsSize > 0
  /\ Rows \subseteq Nat /\ 0 \in Rows /\ 0 \in ESets /\ ESets \subseteq Nat
  /\ IsFiniteSet(Rows) /\ Cardinality(Rows) = StripeK + StripeM
<1>1. /\ StripeK \in Nat /\ StripeK > 0 /\ StripeM \in Nat /\ StripeM > 0
      /\ OFactor \in Nat /\ OFactor > 0
  BY StripeAssumption, OFactorAssumption
<1>2. ESetsSize \in Nat /\ ESetsSize > 0
  BY <1>1 DEF ESetsSize
<1>3. IsFiniteSet(Rows) /\ Cardinality(Rows) = StripeK + StripeM
  <2>1. 0 \in Int /\ StripeK + StripeM - 1 \in Int /\ 0 <= StripeK + StripeM - 1
    BY <1>1
  <2>2. /\ IsFiniteSet(0 .. StripeK + StripeM - 1)
        /\ Cardinality(0 .. StripeK + StripeM - 1) = (StripeK + StripeM - 1) - 0 + 1
    BY <2>1, FS_Interval
  <2> QED
    BY <1>1, <2>2 DEF Rows
<1> QED
  BY <1>1, <1>2, <1>3 DEF Rows, ESets

LEMMA NodeIsServer ==
  ASSUME NEW e \in ESets, NEW r \in Rows
  PROVE  Node(e, r) \in Servers /\ Node(e, r) # NoServer
<1>1. e \in Nat /\ e < OFactor * OFactor /\ OFactor \in Nat /\ OFactor > 0 /\ r \in Nat
  BY Sizes DEF ESets, ESetsSize
<1>2. CASE r = 0
  <2> DEFINE q == e \div OFactor
  <2>1. q \in Nat /\ OFactor * q <= e
    BY <1>1
  <2>2. q < OFactor
    <3>1. SUFFICES ASSUME q >= OFactor PROVE FALSE
      BY <1>1, <2>1
    <3>2. OFactor * q >= OFactor * OFactor
      BY <1>1, <2>1, <3>1
    <3> QED
      BY <1>1, <2>1, <3>2
  <2>3. q \in Cols
    BY <1>1, <2>1, <2>2 DEF Cols
  <2> QED
    BY <1>2, <2>3 DEF Node, Col, Servers, NoServer, Cols
<1>3. CASE r # 0
  <2>1. (e \div OFactor) * (r - 1) + e \in Int
    BY <1>1
  <2>2. ((e \div OFactor) * (r - 1) + e) % OFactor \in Cols
    BY <1>1, <2>1 DEF Cols
  <2> QED
    BY <1>1, <1>3, <2>2 DEF Node, Col, Servers, NoServer, Cols
<1> QED
  BY <1>2, <1>3

\* The node that recovers an ESet is one of its surviving nodes.
LEMMA SelectedSurvives ==
  ASSUME failed \in [ESets -> SUBSET Rows], NEW e \in ESets
  PROVE  /\ SelectRecoveryNodes(e) \in Servers \cup {NoServer}
         /\ SelectRecoveryNodes(e) # NoServer =>
              /\ Cardinality(Survivors(e)) = StripeK
              /\ \E r \in Survivors(e) : SelectRecoveryNodes(e) = Node(e, r)
<1> DEFINE first == CHOOSE r \in Survivors(e) : \A r2 \in Survivors(e) : r <= r2
<1>1. ASSUME Cardinality(Survivors(e)) = StripeK PROVE first \in Survivors(e)
  <2>1. Survivors(e) \in SUBSET Nat
    BY Sizes DEF Survivors
  <2>2. Survivors(e) # {}
    <3>1. Survivors(e) = {} => Cardinality(Survivors(e)) = 0
      BY FS_EmptySet
    <3> QED
      BY <1>1, <3>1, Sizes
  <2>3. PICK r \in Survivors(e) : \A r2 \in Survivors(e) : r <= r2
    BY <2>1, <2>2, MinIsLeast
  <2> QED
    BY <2>3
<1>2. \A r \in Survivors(e) : Node(e, r) \in Servers
  BY NodeIsServer DEF Survivors
<1> HIDE DEF first
<1> QED
  BY <1>1, <1>2 DEF SelectRecoveryNodes, first

\* A group is placed on an ESet without a failure, if there is one.
LEMMA ChosenIsWhole ==
  ASSUME TypeOK
  PROVE  Choose \in ESets /\ ((\E e \in ESets : failed[e] = {}) => failed[Choose] = {})
<1> DEFINE After(d) == (placeIdx + d) % ESetsSize
           Whole == {d \in ESets : failed[After(d)] = {}}
           Good(d) == (Whole # {}) => d \in Whole /\ \A d2 \in Whole : d <= d2
           best == CHOOSE d \in Whole \cup {0} : Good(d)
<1>1. Choose = After(best)
  BY DEF Choose
<1>2. Whole \in SUBSET Nat /\ Whole \subseteq ESets
  BY Sizes
<1>3. \E d \in Whole \cup {0} : Good(d)
  <2>1. CASE Whole = {}
    BY <2>1
  <2>2. CASE Whole # {}
    <3> HIDE DEF Whole
    <3> QED
      BY <1>2, <2>2, MinIsLeast
  <2> QED
    BY <2>1, <2>2
<1>4. best \in Whole \cup {0} /\ Good(best)
  <2> HIDE DEF Whole, Good
  <2> QED
    BY <1>3
<1>5. best \in ESets /\ (Whole # {} => best \in Whole)
  <2> HIDE DEF Whole, best
  <2> QED
    BY <1>2, <1>4, Sizes
<1> HIDE DEF best
<1>6. \A d \in ESets : After(d) \in ESets
  BY Sizes DEF TypeOK, ESets
<1>7. ASSUME NEW e \in ESets PROVE \E d \in ESets : After(d) = e
  <2>1. e \in Nat /\ placeIdx \in Nat /\ e < ESetsSize /\ placeIdx < ESetsSize /\ ESetsSize \in Nat
    BY Sizes DEF TypeOK, ESets
  <2>2. CASE e >= placeIdx
    <3>1. e - placeIdx \in ESets /\ placeIdx + (e - placeIdx) = e
      BY <2>1, <2>2 DEF ESets
    <3>2. e % ESetsSize = e
      BY <2>1
    <3> QED
      BY <3>1, <3>2
  <2>3. CASE e < placeIdx
    <3>1. (e - placeIdx) + ESetsSize \in ESets /\ placeIdx + ((e - placeIdx) + ESetsSize) = e + ESetsSize
      BY <2>1, <2>3 DEF ESets
    <3>2. (e + ESetsSize) % ESetsSize = e
      BY <2>1
    <3> QED
      BY <3>1, <3>2
  <2> QED
    BY <2>1, <2>2, <2>3
<1>8. ASSUME NEW e \in ESets, failed[e] = {} PROVE failed[Choose] = {}
  <2>1. PICK d \in ESets : After(d) = e
    BY <1>7
  <2>2. d \in Whole
    BY <1>8, <2>1
  <2> QED
    BY <1>1, <1>5, <2>2
<1> QED
  BY <1>1, <1>5, <1>6, <1>8

\* The list of an ESet is the first that names it.
FirstOf(lists, e) == SelectInSeq(lists, LAMBDA l : l.eset = e)

LEMMA FirstIsFirst ==
  ASSUME NEW S, NEW lists \in Seq(S), NEW e
  PROVE  LET first == FirstOf(lists, e)
         IN /\ \A i \in DOMAIN lists : lists[i].eset = e => first # 0 /\ first <= i
            /\ first # 0 => first \in DOMAIN lists /\ lists[first].eset = e
<1> DEFINE I == {i \in 1 .. Len(lists) : lists[i].eset = e}
<1>1. FirstOf(lists, e) = IF I # {} THEN Min(I) ELSE 0
  BY DEF FirstOf, SelectInSeq
<1>2. I \in SUBSET Nat /\ DOMAIN lists = 1 .. Len(lists)
  OBVIOUS
<1>3. I # {} => Min(I) \in I /\ \A i \in I : Min(I) <= i
  BY <1>2, MinIsLeast
<1>4. /\ \A i \in DOMAIN lists : lists[i].eset = e => i \in I
      /\ \A i \in I : i # 0 /\ i \in DOMAIN lists /\ lists[i].eset = e
  BY <1>2
<1> HIDE DEF I
<1> QED
  BY <1>1, <1>3, <1>4

LEMMA ListOfIsFirst ==
  ASSUME NEW S, recovering \in Seq(S), NEW e
  PROVE  /\ \A i \in DOMAIN recovering : recovering[i].eset = e => ListOf(e) # 0
         /\ ListOf(e) # 0 => ListOf(e) \in DOMAIN recovering /\ recovering[ListOf(e)].eset = e
<1>1. ListOf(e) = FirstOf(recovering, e)
  BY DEF ListOf, FirstOf
<1> QED
  BY <1>1, FirstIsFirst

Entries == [eset : ESets, row : Rows, failure : 1 .. MaxFailures]

\* What a failure adds to the list of the ESets that wait: entries of its own,
\* and no second one of an ESet if none was there.
LEMMA AddedToPending ==
  ASSUME NEW list \in Seq(Entries), NEW lost \in SUBSET ESets, NEW row \in Rows,
         NEW failure \in 1 .. MaxFailures
  PROVE  LET new == AddAllPending(list, lost, row, failure)
         IN /\ new \in Seq(Entries)
            /\ (/\ \A i, j \in DOMAIN list : i # j => list[i].eset # list[j].eset
                /\ \A i \in DOMAIN list : list[i].eset \notin lost)
               => /\ \A i, j \in DOMAIN new : i # j => new[i].eset # new[j].eset
                  /\ \A i \in DOMAIN new : \/ \E j \in DOMAIN list : new[i] = list[j]
                                           \/ new[i].eset \in lost /\ new[i].row = row
<1> DEFINE Entry(e) == [eset |-> e, row |-> row, failure |-> failure]
<1>0. \A e \in lost : Entry(e) \in Entries /\ Entry(e).eset = e /\ Entry(e).row = row
  BY DEF Entries
<1>e. \A x \in Entries : x.eset \in Nat
  BY Sizes DEF Entries
<1>1. \A l \in Seq(Entries) : \A e \in lost : AddPending(l, Entry(e)) \in Seq(Entries)
  <2> SUFFICES ASSUME NEW l \in Seq(Entries), NEW e \in lost
               PROVE  AddPending(l, Entry(e)) \in Seq(Entries)
    OBVIOUS
  <2>1. Entry(e) \in Entries
    BY <1>0
  <2> HIDE DEF Entry
  <2>2. l # << >> => Tail(l) \in Seq(Entries)
    OBVIOUS
  <2> QED
    BY <2>1, <2>2 DEF AddPending
<1>2. PICK acc \in [0 .. ESetsSize -> Seq(Entries)] : AddSteps(list, lost, row, failure, acc)
  BY <1>1, AddRun
<1>3. /\ acc[0] = list /\ acc[ESetsSize] = AddAllPending(list, lost, row, failure)
      /\ \A i \in 1 .. ESetsSize :
           acc[i] = IF ESetsSize - i \in lost THEN AddPending(acc[i - 1], Entry(ESetsSize - i))
                                              ELSE acc[i - 1]
  BY <1>2 DEF AddSteps
<1>4. acc[ESetsSize] \in Seq(Entries)
  BY Sizes
<1>5. ASSUME /\ \A i, j \in DOMAIN list : i # j => list[i].eset # list[j].eset
             /\ \A i \in DOMAIN list : list[i].eset \notin lost
      PROVE  /\ \A i, j \in DOMAIN acc[ESetsSize] :
                  i # j => acc[ESetsSize][i].eset # acc[ESetsSize][j].eset
             /\ \A i \in DOMAIN acc[ESetsSize] :
                  \/ \E j \in DOMAIN list : acc[ESetsSize][i] = list[j]
                  \/ acc[ESetsSize][i].eset \in lost /\ acc[ESetsSize][i].row = row
  <2> DEFINE New(x, k) == x.eset \in lost /\ x.row = row /\ x.eset >= ESetsSize - k
             Fine(l, k) == /\ \A i, j \in DOMAIN l : i # j => l[i].eset # l[j].eset
                           /\ \A i \in DOMAIN l : (\E j \in DOMAIN list : l[i] = list[j]) \/ New(l[i], k)
             Ok == {k \in 0 .. ESetsSize : Fine(acc[k], k)}
  <2>1. 0 \in Ok
    BY <1>3, <1>5, Sizes
  <2>2. ASSUME NEW k \in 0 .. ESetsSize - 1, k \in Ok PROVE k + 1 \in Ok
    <3> DEFINE e == ESetsSize - (k + 1)
    <3>0. /\ k \in Nat /\ k + 1 \in 1 .. ESetsSize /\ k + 1 \in 0 .. ESetsSize /\ (k + 1) - 1 = k
          /\ k \in 0 .. ESetsSize /\ acc[k] \in Seq(Entries) /\ e \in Int
      BY Sizes
    <3>1. acc[k + 1] = IF e \in lost THEN AddPending(acc[k], Entry(e)) ELSE acc[k]
      BY <1>3, <3>0
    <3>2. Fine(acc[k], k)
      BY <2>2
    <3>3. \A x \in Entries : New(x, k) => New(x, k + 1)
      BY <1>e, <3>0, Sizes
    <3>4. \A i \in DOMAIN acc[k] : acc[k][i] \in Entries /\ acc[k][i].eset \in Nat
      <4>1. \A i \in DOMAIN acc[k] : acc[k][i] \in Entries
        BY <3>0
      <4> QED
        BY <1>e, <4>1
    <3>5. CASE e \notin lost
      BY <3>0, <3>1, <3>2, <3>3, <3>4, <3>5
    <3>6. CASE e \in lost
      <4> DEFINE rest == IF acc[k] # << >> /\ Head(acc[k]).eset = Entry(e).eset
                           THEN Tail(acc[k]) ELSE acc[k]
                 at == IF acc[k] # << >> /\ Head(acc[k]).eset = Entry(e).eset THEN 1 ELSE 0
      <4>1. acc[k + 1] = <<Entry(e)>> \o rest
        BY <3>1, <3>6 DEF AddPending
      <4>2. rest \in Seq(Entries) /\ \A i \in DOMAIN rest : i + at \in DOMAIN acc[k] /\ rest[i] = acc[k][i + at]
        <5> HIDE DEF Entry
        <5> QED
          BY <3>0
      <4>3. \A i \in DOMAIN acc[k] : acc[k][i].eset # e
        <5> SUFFICES ASSUME NEW i \in DOMAIN acc[k], acc[k][i].eset = e PROVE FALSE
          OBVIOUS
        <5>1. ~New(acc[k][i], k)
          <6>1. ~(e >= ESetsSize - k)
            BY <3>0, Sizes
          <6> QED
            BY <6>1
        <5>2. PICK j \in DOMAIN list : acc[k][i] = list[j]
          BY <3>2, <5>1
        <5> QED
          BY <1>5, <3>6, <5>2
      <4>4. New(Entry(e), k + 1) /\ Entry(e) \in Entries /\ Entry(e).eset = e
        BY <1>0, <3>0, <3>6
      <4>5. at \in {0, 1}
        OBVIOUS
      <4> HIDE DEF Entry, rest, at, e
      <4>6. /\ DOMAIN acc[k + 1] = 1 .. Len(rest) + 1 /\ DOMAIN rest = 1 .. Len(rest)
            /\ acc[k + 1][1] = Entry(e)
            /\ \A i \in 2 .. Len(rest) + 1 : acc[k + 1][i] = rest[i - 1] /\ i - 1 \in DOMAIN rest
            /\ Len(rest) \in Nat
        BY <4>1, <4>2, <4>4
      <4> HIDE DEF New
      <4>7. \A i, j \in DOMAIN acc[k + 1] : i # j => acc[k + 1][i].eset # acc[k + 1][j].eset
        <5> SUFFICES ASSUME NEW i \in DOMAIN acc[k + 1], NEW j \in DOMAIN acc[k + 1], i < j
                     PROVE  acc[k + 1][i].eset # acc[k + 1][j].eset
          BY <4>6
        <5>1. j \in 2 .. Len(rest) + 1 /\ (i = 1 \/ i \in 2 .. Len(rest) + 1) /\ i \in Int
          BY <4>6
        <5>2. acc[k + 1][j] = acc[k][(j - 1) + at] /\ (j - 1) + at \in DOMAIN acc[k]
          BY <4>2, <4>6, <5>1
        <5>3. CASE i = 1
          BY <4>3, <4>4, <4>6, <5>2, <5>3
        <5>4. CASE i \in 2 .. Len(rest) + 1
          <6>1. acc[k + 1][i] = acc[k][(i - 1) + at] /\ (i - 1) + at \in DOMAIN acc[k]
            BY <4>2, <4>6, <5>4
          <6>2. (i - 1) + at # (j - 1) + at
            BY <4>5, <5>1
          <6> QED
            BY <3>2, <5>2, <6>1, <6>2
        <5> QED
          BY <5>1, <5>3, <5>4
      <4>8. \A i \in DOMAIN acc[k + 1] :
              (\E j \in DOMAIN list : acc[k + 1][i] = list[j]) \/ New(acc[k + 1][i], k + 1)
        <5> SUFFICES ASSUME NEW i \in DOMAIN acc[k + 1]
                     PROVE  (\E j \in DOMAIN list : acc[k + 1][i] = list[j]) \/ New(acc[k + 1][i], k + 1)
          OBVIOUS
        <5>1. CASE i = 1
          BY <4>4, <4>6, <5>1
        <5>2. CASE i \in 2 .. Len(rest) + 1
          <6>1. acc[k + 1][i] = acc[k][(i - 1) + at] /\ (i - 1) + at \in DOMAIN acc[k]
            BY <4>2, <4>6, <5>2
          <6> QED
            BY <3>2, <3>3, <3>4, <6>1
        <5> QED
          BY <4>6, <5>1, <5>2
      <4> QED
        BY <3>0, <4>7, <4>8
    <3> QED
      BY <3>5, <3>6
  <2>3. ESetsSize \in Ok
    <3> HIDE DEF Ok
    <3>1. 0 .. ESetsSize \subseteq Ok
      BY <2>1, <2>2, Sizes, SetInduction
    <3> QED
      BY <3>1, Sizes
  <2> QED
    BY <2>3
<1> QED
  BY <1>3, <1>4, <1>5

\* What a pass of startRecoveryESets does to the lists: those that are due move
\* to the front of the lists in recovery, last one first.
Started(lists, at, to) ==
  /\ recovering' = Reverse(lists) \o recovering
  /\ toServer' = FoldLeft(SendRecoveryNodes, toServer, lists)
  /\ \A i \in DOMAIN lists :
       lists[i] = [eset |-> pending[at[i]].eset, row |-> pending[at[i]].row,
                   head |-> SelectRecoveryNodes(pending[at[i]].eset), cur |-> NoGroup]
  /\ \A i, j \in DOMAIN lists : i < j => at[i] < at[j]
  /\ \A i \in DOMAIN pending' : pending'[i] = pending[to[i]]
  /\ \A i, j \in DOMAIN pending' : i < j => to[i] < to[j]
  /\ \A i \in DOMAIN lists, j \in DOMAIN pending' : at[i] # to[j]

LEMMA StartMovesLists ==
  ASSUME TypeOK, StartRecoveryESets
  PROVE  /\ pending' \in Seq(Entries)
         /\ \E lists \in Seq(Lists) :
              \E at \in [DOMAIN lists -> DOMAIN pending], to \in [DOMAIN pending' -> DOMAIN pending] :
                Started(lists, at, to)
<1>0. pending \in Seq(Entries)
  BY DEF TypeOK, Entries
<1>1. PICK last \in ToSet(pending) :
        LET due == {p \in ToSet(pending) :
                      \/ p.failure < last.failure
                      \/ p.failure = last.failure /\ p.eset <= last.eset}
            moved == Picked(pending, due)
            lists == [i \in DOMAIN moved |->
                        [eset |-> moved[i].eset, row |-> moved[i].row,
                         head |-> SelectRecoveryNodes(moved[i].eset),
                         cur |-> NoGroup]]
        IN /\ pending' = Picked(pending, ToSet(pending) \ due)
           /\ recovering' = Reverse(lists) \o recovering
           /\ toServer' = FoldLeft(SendRecoveryNodes, toServer, lists)
  BY DEF StartRecoveryESets
<1> DEFINE due == {p \in ToSet(pending) :
                     \/ p.failure < last.failure
                     \/ p.failure = last.failure /\ p.eset <= last.eset}
           moved == Picked(pending, due)
           lists == [i \in DOMAIN moved |->
                       [eset |-> moved[i].eset, row |-> moved[i].row,
                        head |-> SelectRecoveryNodes(moved[i].eset),
                        cur |-> NoGroup]]
<1>2. /\ pending' = Picked(pending, ToSet(pending) \ due)
      /\ recovering' = Reverse(lists) \o recovering
      /\ toServer' = FoldLeft(SendRecoveryNodes, toServer, lists)
  BY <1>1
<1> HIDE DEF due
<1>3. /\ moved \in Seq(Entries)
      /\ \E at \in [DOMAIN moved -> DOMAIN pending] :
           /\ \A j \in DOMAIN moved : moved[j] = pending[at[j]] /\ pending[at[j]] \in due
           /\ \A j, k \in DOMAIN moved : j < k => at[j] < at[k]
  BY <1>0, PickedIsSublist
<1>4. /\ pending' \in Seq(Entries)
      /\ \E to \in [DOMAIN pending' -> DOMAIN pending] :
           /\ \A j \in DOMAIN pending' : pending'[j] = pending[to[j]] /\ pending[to[j]] \in ToSet(pending) \ due
           /\ \A j, k \in DOMAIN pending' : j < k => to[j] < to[k]
  <2> DEFINE kept == Picked(pending, ToSet(pending) \ due)
  <2>1. /\ kept \in Seq(Entries)
        /\ \E to \in [DOMAIN kept -> DOMAIN pending] :
             /\ \A j \in DOMAIN kept : kept[j] = pending[to[j]] /\ pending[to[j]] \in ToSet(pending) \ due
             /\ \A j, k \in DOMAIN kept : j < k => to[j] < to[k]
    BY <1>0, PickedIsSublist
  <2>2. pending' = kept
    BY <1>2
  <2> HIDE DEF kept
  <2> QED
    BY <2>1, <2>2
<1> HIDE DEF moved
<1>5. PICK at \in [DOMAIN moved -> DOMAIN pending] :
           /\ \A j \in DOMAIN moved : moved[j] = pending[at[j]] /\ pending[at[j]] \in due
           /\ \A j, k \in DOMAIN moved : j < k => at[j] < at[k]
  BY <1>3
<1>6. PICK to \in [DOMAIN pending' -> DOMAIN pending] :
           /\ \A j \in DOMAIN pending' : pending'[j] = pending[to[j]] /\ pending[to[j]] \in ToSet(pending) \ due
           /\ \A j, k \in DOMAIN pending' : j < k => to[j] < to[k]
  BY <1>4
<1>7. DOMAIN lists = DOMAIN moved /\ lists \in Seq(Lists)
  <2>1. \A i \in DOMAIN moved : lists[i] \in Lists
    <3> SUFFICES ASSUME NEW i \in DOMAIN moved PROVE lists[i] \in Lists
      OBVIOUS
    <3>1. moved[i] \in Entries
      BY <1>3
    <3>2. moved[i].eset \in ESets /\ moved[i].row \in Rows
      BY <3>1 DEF Entries
    <3>3. SelectRecoveryNodes(moved[i].eset) \in Servers \cup {NoServer}
      BY <3>2, SelectedSurvives DEF TypeOK
    <3> QED
      BY <3>2, <3>3 DEF Lists
  <2>2. DOMAIN moved = 1 .. Len(moved) /\ Len(moved) \in Nat
    BY <1>3
  <2>3. lists \in [1 .. Len(moved) -> Lists]
    BY <2>1, <2>2
  <2> HIDE DEF lists
  <2> QED
    BY <2>2, <2>3
<1>8. Started(lists, at, to)
  <2>1. \A i \in DOMAIN lists :
          lists[i] = [eset |-> pending[at[i]].eset, row |-> pending[at[i]].row,
                      head |-> SelectRecoveryNodes(pending[at[i]].eset), cur |-> NoGroup]
    BY <1>5, <1>7
  <2> HIDE DEF lists
  <2> QED
    BY <1>2, <1>5, <1>6, <1>7, <2>1 DEF Started
<1> HIDE DEF lists
<1> QED
  BY <1>4, <1>5, <1>6, <1>7, <1>8

MapEntries == [group : Groups, recovered : BOOLEAN]

LEMMA RecoveredKeepsGroups ==
  ASSUME NEW map \in Seq(MapEntries), NEW g
  PROVE  LET new == Recovered(map, g)
         IN /\ new \in Seq(MapEntries)
            /\ DOMAIN new = DOMAIN map
            /\ \A i \in DOMAIN map :
                 /\ new[i].group = map[i].group
                 /\ new[i].recovered # map[i].recovered => new[i].recovered /\ map[i].group = g
<1> DEFINE I == {i \in 1 .. Len(map) : map[i].group = g}
           k == IF I # {} THEN Min(I) ELSE 0
<1>1. Recovered(map, g) = IF k = 0 THEN map ELSE [map EXCEPT ![k].recovered = TRUE]
  BY DEF Recovered, SelectInSeq
<1>2. I \in SUBSET Nat /\ DOMAIN map = 1 .. Len(map) /\ Len(map) \in Nat
  OBVIOUS
<1>3. k # 0 => k \in I
  <2> HIDE DEF I
  <2> QED
    BY <1>2, MinIsLeast
<1>4. k # 0 => k \in DOMAIN map /\ map[k].group = g
  BY <1>2, <1>3
<1> HIDE DEF k, I
<1>5. \A i \in DOMAIN map : map[i] \in MapEntries
  BY <1>2
<1>6. CASE k # 0
  <2> DEFINE new == [map EXCEPT ![k].recovered = TRUE]
  <2>1. DOMAIN new = DOMAIN map /\ new[k] = [map[k] EXCEPT !.recovered = TRUE]
        /\ \A i \in DOMAIN map : i # k => new[i] = map[i]
    BY <1>4, <1>6
  <2>2. new[k] \in MapEntries /\ new[k].group = g /\ new[k].recovered
    BY <1>4, <1>5, <1>6, <2>1 DEF MapEntries
  <2>3. \A i \in DOMAIN map : new[i] \in MapEntries
    BY <1>5, <2>1, <2>2
  <2>4. new = [i \in 1 .. Len(map) |-> new[i]]
    BY <1>2
  <2> HIDE DEF new
  <2>5. new \in Seq(MapEntries)
    BY <1>2, <2>3, <2>4
  <2>6. Recovered(map, g) = new
    BY <1>1, <1>6 DEF new
  <2> QED
    BY <1>4, <1>6, <2>1, <2>2, <2>5, <2>6
<1>7. CASE k = 0
  BY <1>1, <1>7
<1> QED
  BY <1>6, <1>7

\* The bounds of a failure's number.
LEMMA FailuresCount ==
  ASSUME TypeOK, NEW s \in Servers, ReportFailedBlockServer(s)
  PROVE  Cardinality(down) + 1 \in 1 .. MaxFailures
<1>1. IsFiniteSet(Cols)
  BY Sizes, FS_Interval DEF Cols
<1>2. IsFiniteSet(Servers)
  BY <1>1, Sizes, FS_Product DEF Servers
<1>3. Cardinality(down) \in Nat
  BY <1>2, FS_Subset, FS_CardinalityType DEF TypeOK
<1> QED
  BY <1>3, BoundsAssumption DEF ReportFailedBlockServer

LEMMA TypeRequest ==
  ASSUME TypeOK, NEW g \in Groups, RequestPlacement(g)
  PROVE  TypeOK'
<1> DEFINE e == Choose
           at == (e + 1) % ESetsSize
           entry == [group |-> g, recovered |-> failed[e] # {}]
<1>1. /\ placeIdx' = at
      /\ blockGroupMap' = [blockGroupMap EXCEPT ![at] = <<entry>> \o @]
      /\ site' = [site EXCEPT ![g] = [r \in Rows |-> Node(e, r)]]
      /\ UNCHANGED <<flagVars, failVars, recovering, netVars, headVars>>
  BY DEF RequestPlacement
<1>2. e \in ESets /\ at \in ESets
  <2>1. e \in ESets
    BY ChosenIsWhole
  <2> HIDE DEF e
  <2> QED
    BY <2>1, Sizes DEF ESets
<1>3. entry \in MapEntries
  BY DEF MapEntries
<1>4. [r \in Rows |-> Node(e, r)] \in [Rows -> Servers \cup {NoServer}]
  BY <1>2, NodeIsServer
<1> HIDE DEF e, at, entry
<1>5. blockGroupMap' \in [ESets -> Seq(MapEntries)]
  <2>1. <<entry>> \o blockGroupMap[at] \in Seq(MapEntries)
    <3>1. blockGroupMap[at] \in Seq(MapEntries)
      BY <1>2 DEF TypeOK, MapEntries
    <3> QED
      BY <1>3, <3>1
  <2> QED
    BY <1>1, <2>1 DEF TypeOK, MapEntries
<1>6. site' \in [Groups -> [Rows -> Servers \cup {NoServer}]]
  BY <1>1, <1>4 DEF TypeOK
<1> QED
  BY <1>1, <1>2, <1>5, <1>6 DEF TypeOK, MapEntries, flagVars, failVars, netVars, headVars

LEMMA TypeReport ==
  ASSUME TypeOK, NEW s \in Servers, ReportFailedBlockServer(s)
  PROVE  TypeOK'
<1> DEFINE row == s[1]
           lost == FailedESets(row, s[2])
           number == Cardinality(down) + 1
<1>1. /\ down' = down \cup {s}
      /\ failed' = [e \in ESets |-> IF e \in lost THEN failed[e] \cup {row} ELSE failed[e]]
      /\ missing' = [g \in Groups |-> IF g \in Marked(lost, row)
                                      THEN missing[g] \cup {row} ELSE missing[g]]
      /\ repaired' = [g \in Groups |-> IF g \in Marked(lost, row)
                                       THEN repaired[g] \ {row} ELSE repaired[g]]
      /\ pending' = AddAllPending(pending, lost, row, number)
      /\ toServer' = [toServer EXCEPT ![s] = << >>]
      /\ toMeta' = [toMeta EXCEPT ![s] = << >>]
      /\ UNCHANGED <<placeVars, recovering, headVars>>
  BY DEF ReportFailedBlockServer
<1>2. row \in Rows /\ lost \in SUBSET ESets /\ number \in 1 .. MaxFailures
  BY FailuresCount DEF Servers, FailedESets
<1>3. pending' \in Seq(Entries)
  <2>1. pending \in Seq(Entries)
    BY DEF TypeOK, Entries
  <2> HIDE DEF row, lost, number
  <2> QED
    BY <1>1, <1>2, <2>1, AddedToPending
<1> HIDE DEF row, lost, number
<1>4. failed' \in [ESets -> SUBSET Rows] /\ missing' \in [Groups -> SUBSET Rows]
      /\ repaired' \in [Groups -> SUBSET Rows]
  BY <1>1, <1>2 DEF TypeOK
<1>5. << >> \in Seq(Cmds)
  OBVIOUS
<1>6. toServer' \in [Servers -> Seq(Cmds)] /\ toMeta' \in [Servers -> Seq(Cmds)]
  BY <1>1, <1>5 DEF TypeOK
<1>7. down' \in SUBSET Servers
  BY <1>1 DEF TypeOK
<1> QED
  BY <1>1, <1>3, <1>4, <1>6, <1>7 DEF TypeOK, Entries, placeVars, headVars

LEMMA ReverseIsSeq ==
  ASSUME NEW S, NEW list \in Seq(S)
  PROVE  /\ Reverse(list) \in Seq(S) /\ Len(Reverse(list)) = Len(list)
         /\ \A i \in 1 .. Len(list) : Reverse(list)[i] = list[(Len(list) - i) + 1]
BY DEF Reverse

LEMMA TypeStart ==
  ASSUME TypeOK, StartRecoveryESets
  PROVE  TypeOK'
<1>1. pending' \in Seq(Entries)
  BY StartMovesLists
<1>2. PICK lists \in Seq(Lists) :
             /\ recovering' = Reverse(lists) \o recovering
             /\ toServer' = FoldLeft(SendRecoveryNodes, toServer, lists)
  BY StartMovesLists DEF Started
<1>3. recovering' \in Seq(Lists)
  <2>1. recovering \in Seq(Lists) /\ Reverse(lists) \in Seq(Lists)
    BY ReverseIsSeq DEF TypeOK, Lists
  <2> QED
    BY <1>2, <2>1
<1>4. toServer' \in [Servers -> Seq(Cmds)]
  <2>1. toServer \in [Servers -> Seq(Cmds)] /\ <<0, 0>> \in Servers
    BY Sizes DEF TypeOK, Servers, Cols
  <2> QED
    BY <1>2, <2>1, SentForLists
<1>5. UNCHANGED <<placeVars, flagVars, failed, down, toMeta, headVars>>
  BY DEF StartRecoveryESets
<1> QED
  BY <1>1, <1>3, <1>4, <1>5 DEF TypeOK, Entries, Lists, placeVars, flagVars, headVars

\* What recoverESet does with a reply m about the list at i: the flags of the
\* group, and the next command to the head node.
Handled(m, i, cmd) ==
  LET list == recovering[i]
      ok == m.type = "RecoveryBlockOK" /\ list.cur = m.group
      lost == list.row \in missing[m.group] \ repaired[m.group]
  IN /\ m.type # "RecoveryNodesFailed" /\ i \in DOMAIN recovering /\ list.eset = m.eset
     /\ blockGroupMap' = IF ~ok THEN blockGroupMap
               ELSE [blockGroupMap EXCEPT ![m.eset] = Recovered(@, m.group)]
     /\ repaired' = IF ~(ok /\ lost) THEN repaired
               ELSE [repaired EXCEPT ![m.group] = @ \cup {list.row}]
     /\ site' = IF ~(ok /\ lost) THEN site
               ELSE [site EXCEPT ![m.group] = [@ EXCEPT ![list.row] = list.head]]
     /\ cmd \in Cmds /\ cmd.eset = m.eset
     /\ toServer' = [toServer EXCEPT ![list.head] = Append(@, cmd)]
     /\ \/ cmd.type = "EndRecoveryNodes" /\ recovering' = recovering
        \/ /\ cmd.type = "RecoveryBlockGroup" /\ cmd.group \in Groups
           /\ recovering' = [recovering EXCEPT ![i].cur = cmd.group]
     /\ UNCHANGED <<placeIdx, missing>>

LEMMA RecoverHandles ==
  ASSUME TypeOK, NEW s \in Servers, RecoverESet(s)
  PROVE  LET m == Head(toMeta[s])
         IN /\ toMeta[s] # << >> /\ toMeta' = [toMeta EXCEPT ![s] = Tail(@)]
            /\ m \in Cmds
            /\ UNCHANGED <<failVars, headVars>>
            /\ \/ UNCHANGED <<placeVars, flagVars, recovering, toServer>>
               \/ \E cmd \in Cmds : Handled(m, ListOf(m.eset), cmd)
<1> DEFINE m == Head(toMeta[s])
           i == ListOf(m.eset)
           head == recovering[i].head
<1>1. toMeta[s] # << >> /\ toMeta' = [toMeta EXCEPT ![s] = Tail(@)] /\ UNCHANGED <<failVars, headVars>>
  BY DEF RecoverESet
<1>2. m \in Cmds
  <2>1. toMeta[s] \in Seq(Cmds)
    BY DEF TypeOK
  <2> QED
    BY <1>1, <2>1
<1>3. CASE m.type = "RecoveryNodesFailed" \/ i = 0
  BY <1>1, <1>2, <1>3 DEF RecoverESet
<1>4. CASE ~(m.type = "RecoveryNodesFailed" \/ i = 0)
  <2>1. RecoveredBlock(recovering[i], m) /\ RecoveryingABlock(i, m) /\ UNCHANGED <<placeIdx, missing>>
    BY <1>4 DEF RecoverESet
  <2>2. i \in DOMAIN recovering /\ recovering[i].eset = m.eset
    <3> HIDE DEF m
    <3> QED
      BY <1>4, ListOfIsFirst DEF TypeOK
  <2>3. m.eset \in ESets /\ m.group \in Groups \cup {NoGroup}
    BY <1>2 DEF Cmds
  <2> HIDE DEF m, i
  <2> DEFINE map == blockGroupMap'[m.eset]
             I == {x \in 1 .. Len(map) : ~map[x].recovered}
             next == IF I # {} THEN Min(I) ELSE 0
  <2>4. map \in Seq(MapEntries)
    <3>1. blockGroupMap[m.eset] \in Seq(MapEntries)
      BY <2>3 DEF TypeOK, MapEntries
    <3>2. Recovered(blockGroupMap[m.eset], m.group) \in Seq(MapEntries)
      BY <3>1, RecoveredKeepsGroups
    <3> QED
      BY <2>1, <2>3, <3>1, <3>2 DEF RecoveredBlock, TypeOK
  <2> HIDE DEF map
  <2>5. I \in SUBSET Nat /\ DOMAIN map = 1 .. Len(map)
    BY <2>4
  <2>6. next # 0 => next \in DOMAIN map
    <3>1. I # {} => Min(I) \in I
      <4> HIDE DEF I
      <4> QED
        BY <2>5, MinIsLeast
    <3> QED
      BY <2>5, <3>1
  <2>7. next # 0 => map[next].group \in Groups
    <3> HIDE DEF next
    <3>1. next # 0 => map[next] \in MapEntries
      BY <2>4, <2>6
    <3> QED
      BY <3>1 DEF MapEntries
  <2>8. IF next = 0
        THEN toServer' = [toServer EXCEPT ![head] = Append(@, Cmd("EndRecoveryNodes", m.eset, NoGroup))]
             /\ UNCHANGED recovering
        ELSE toServer' = [toServer EXCEPT ![head] = Append(@, Cmd("RecoveryBlockGroup", m.eset, map[next].group))]
             /\ recovering' = [recovering EXCEPT ![i].cur = map[next].group]
    <3>1. SelectInSeq(map, LAMBDA x : ~x.recovered) = next
      BY DEF SelectInSeq
    <3> HIDE DEF next
    <3> QED
      BY <2>1, <3>1 DEF RecoveryingABlock, map
  <2> HIDE DEF next
  <2>9. CASE next = 0
    <3> DEFINE cmd == Cmd("EndRecoveryNodes", m.eset, NoGroup)
    <3>1. cmd \in Cmds /\ cmd.eset = m.eset /\ cmd.type = "EndRecoveryNodes"
      BY <2>3 DEF Cmd, Cmds, CmdTypes
    <3>2. toServer' = [toServer EXCEPT ![head] = Append(@, cmd)] /\ recovering' = recovering
      BY <2>8, <2>9
    <3> HIDE DEF cmd
    <3>3. Handled(m, i, cmd)
      BY <1>4, <2>1, <2>2, <3>1, <3>2 DEF Handled, RecoveredBlock
    <3> QED
      BY <1>1, <1>2, <3>1, <3>3 DEF m, i
  <2>10. CASE next # 0
    <3> DEFINE cmd == Cmd("RecoveryBlockGroup", m.eset, map[next].group)
    <3>1. cmd \in Cmds /\ cmd.eset = m.eset /\ cmd.type = "RecoveryBlockGroup"
          /\ cmd.group = map[next].group /\ cmd.group \in Groups
      BY <2>3, <2>7, <2>10 DEF Cmd, Cmds, CmdTypes
    <3>2. toServer' = [toServer EXCEPT ![head] = Append(@, cmd)]
          /\ recovering' = [recovering EXCEPT ![i].cur = cmd.group]
      <4> HIDE DEF cmd
      <4> QED
        BY <2>8, <2>10, <3>1 DEF cmd
    <3> HIDE DEF cmd
    <3>3. Handled(m, i, cmd)
      BY <1>4, <2>1, <2>2, <3>1, <3>2 DEF Handled, RecoveredBlock
    <3> QED
      BY <1>1, <1>2, <3>1, <3>3 DEF m, i
  <2> QED
    BY <2>9, <2>10
<1> QED
  BY <1>3, <1>4

LEMMA TypeRecover ==
  ASSUME TypeOK, NEW s \in Servers, RecoverESet(s)
  PROVE  TypeOK'
<1> DEFINE m == Head(toMeta[s])
           i == ListOf(m.eset)
<1>1. /\ toMeta[s] # << >> /\ toMeta' = [toMeta EXCEPT ![s] = Tail(@)] /\ m \in Cmds
      /\ UNCHANGED <<failVars, headVars>>
      /\ \/ UNCHANGED <<placeVars, flagVars, recovering, toServer>>
         \/ \E cmd \in Cmds : Handled(m, i, cmd)
  BY RecoverHandles
<1>2. toMeta' \in [Servers -> Seq(Cmds)]
  <2>1. toMeta[s] \in Seq(Cmds)
    BY DEF TypeOK
  <2>2. Tail(toMeta[s]) \in Seq(Cmds)
    BY <1>1, <2>1
  <2> QED
    BY <1>1, <2>2 DEF TypeOK
<1> HIDE DEF m, i
<1>3. CASE UNCHANGED <<placeVars, flagVars, recovering, toServer>>
  BY <1>1, <1>2, <1>3 DEF TypeOK, failVars, headVars, placeVars, flagVars
<1>4. ASSUME NEW cmd \in Cmds, Handled(m, i, cmd) PROVE TypeOK'
  <2>0. recovering \in Seq(Lists) /\ recovering[i] \in Lists /\ i \in DOMAIN recovering
    <3>1. recovering \in Seq(Lists) /\ i \in DOMAIN recovering
      BY <1>4 DEF Handled, TypeOK, Lists
    <3> QED
      BY <3>1
  <2>1. m.eset \in ESets /\ m.group \in Groups \cup {NoGroup}
    BY <1>1 DEF Cmds
  <2>2. blockGroupMap' \in [ESets -> Seq(MapEntries)]
    <3>1. blockGroupMap \in [ESets -> Seq(MapEntries)]
      BY DEF TypeOK, MapEntries
    <3>2. Recovered(blockGroupMap[m.eset], m.group) \in Seq(MapEntries)
      BY <2>1, <3>1, RecoveredKeepsGroups
    <3> QED
      BY <1>4, <3>1, <3>2 DEF Handled
  <2>3. recovering[i].row \in Rows /\ recovering[i].head \in Servers \cup {NoServer}
    BY <2>0 DEF Lists
  <2>4. repaired' \in [Groups -> SUBSET Rows]
    <3>1. repaired' = repaired \/ repaired' = [repaired EXCEPT ![m.group] = @ \cup {recovering[i].row}]
      BY <1>4 DEF Handled
    <3>2. m.group \in Groups => repaired[m.group] \cup {recovering[i].row} \in SUBSET Rows
      BY <2>3 DEF TypeOK
    <3>3. repaired \in [Groups -> SUBSET Rows]
      BY DEF TypeOK
    <3> QED
      BY <3>1, <3>2, <3>3
  <2>5. site' \in [Groups -> [Rows -> Servers \cup {NoServer}]]
    <3>1. site' = site \/ site' = [site EXCEPT ![m.group] = [@ EXCEPT ![recovering[i].row] = recovering[i].head]]
      BY <1>4 DEF Handled
    <3>2. m.group \in Groups =>
            [site[m.group] EXCEPT ![recovering[i].row] = recovering[i].head] \in [Rows -> Servers \cup {NoServer}]
      <4>1. m.group \in Groups => site[m.group] \in [Rows -> Servers \cup {NoServer}]
        BY DEF TypeOK
      <4> QED
        BY <2>3, <4>1
    <3> QED
      BY <3>1, <3>2 DEF TypeOK
  <2>6. toServer' \in [Servers -> Seq(Cmds)]
    <3>1. toServer' = [toServer EXCEPT ![recovering[i].head] = Append(@, cmd)]
      BY <1>4 DEF Handled
    <3>2. \A x \in Servers : Append(toServer[x], cmd) \in Seq(Cmds)
      BY DEF TypeOK
    <3> QED
      BY <3>1, <3>2 DEF TypeOK
  <2>7. recovering' \in Seq(Lists)
    <3>1. CASE recovering' = recovering
      BY <2>0, <3>1
    <3>2. CASE cmd.group \in Groups /\ recovering' = [recovering EXCEPT ![i].cur = cmd.group]
      <4>1. [recovering[i] EXCEPT !.cur = cmd.group] \in Lists
        BY <2>0, <3>2 DEF Lists
      <4>2. recovering' = [recovering EXCEPT ![i] = [recovering[i] EXCEPT !.cur = cmd.group]]
        BY <3>2
      <4> QED
        BY <2>0, <4>1, <4>2
    <3> QED
      BY <1>4, <3>1, <3>2 DEF Handled
  <2>8. UNCHANGED <<placeIdx, missing, failed, down, pending, serving, task>>
    BY <1>1, <1>4 DEF Handled, failVars, headVars
  <2> QED
    BY <1>2, <2>2, <2>4, <2>5, <2>6, <2>7, <2>8 DEF TypeOK, Lists, MapEntries
<1> QED
  BY <1>1, <1>3, <1>4

LEMMA TypeHead ==
  ASSUME TypeOK, Conversations, NEW s \in Servers, ProcessMetaCmd(s) \/ ReportBlockDone(s)
  PROVE  TypeOK'
<1>0. /\ toServer[s] \in Seq(Cmds) /\ toMeta[s] \in Seq(Cmds)
      /\ serving[s] \in ESets \cup {NoESet} /\ task[s] \in Groups \cup {NoGroup}
  BY DEF TypeOK
<1>1. CASE ProcessMetaCmd(s)
  <2> DEFINE m == Head(toServer[s])
  <2>1. /\ toServer[s] # << >> /\ toServer' = [toServer EXCEPT ![s] = Tail(@)]
        /\ UNCHANGED <<placeVars, flagVars, failVars, recovering>>
        /\ \/ ProcessRecoveryNodes(s, m) \/ InitRecoveryTask(s, m) \/ ProcessRecoveryNodesOver(s, m)
    BY <1>1 DEF ProcessMetaCmd
  <2>2. m \in Cmds /\ Tail(toServer[s]) \in Seq(Cmds)
    BY <1>0, <2>1
  <2>3. m.eset \in ESets /\ m.group \in Groups \cup {NoGroup}
    BY <2>2 DEF Cmds
  <2> HIDE DEF m
  <2>4. toServer' \in [Servers -> Seq(Cmds)]
    BY <2>1, <2>2 DEF TypeOK
  <2>5. serving' \in [Servers -> ESets \cup {NoESet}] /\ task' \in [Servers -> Groups \cup {NoGroup}]
    BY <2>1, <2>3 DEF ProcessRecoveryNodes, InitRecoveryTask, ProcessRecoveryNodesOver, TypeOK
  <2>6. toMeta' \in [Servers -> Seq(Cmds)]
    <3>1. CASE toMeta' = toMeta
      BY <3>1 DEF TypeOK
    <3>2. ASSUME NEW t \in CmdTypes, Reply(s, t, m.eset, NoGroup) PROVE toMeta' \in [Servers -> Seq(Cmds)]
      <4>1. Cmd(t, m.eset, NoGroup) \in Cmds
        BY <2>3 DEF Cmd, Cmds
      <4>2. Append(toMeta[s], Cmd(t, m.eset, NoGroup)) \in Seq(Cmds)
        BY <1>0, <4>1
      <4> QED
        BY <3>2, <4>2 DEF Reply, TypeOK
    <3>3. toMeta' = toMeta \/ \E t \in CmdTypes : Reply(s, t, m.eset, NoGroup)
      <4>1. "RecoveryNodesOK" \in CmdTypes /\ "RecoveryNodesFailed" \in CmdTypes
        BY DEF CmdTypes
      <4> QED
        BY <2>1, <4>1 DEF ProcessRecoveryNodes, InitRecoveryTask, ProcessRecoveryNodesOver
    <3> QED
      BY <3>1, <3>2, <3>3
  <2> QED
    BY <2>1, <2>4, <2>5, <2>6 DEF TypeOK, placeVars, flagVars, failVars
<1>2. CASE ReportBlockDone(s)
  <2>1. /\ task[s] # NoGroup /\ Reply(s, "RecoveryBlockOK", serving[s], task[s])
        /\ task' = [task EXCEPT ![s] = NoGroup]
        /\ UNCHANGED <<placeVars, flagVars, failVars, recovering, toServer, serving>>
    BY <1>2 DEF ReportBlockDone
  <2>2. serving[s] \in ESets
    BY <1>0, <2>1 DEF Conversations, Conversation
  <2>3. Cmd("RecoveryBlockOK", serving[s], task[s]) \in Cmds
    BY <1>0, <2>2 DEF Cmd, Cmds, CmdTypes
  <2>4. Append(toMeta[s], Cmd("RecoveryBlockOK", serving[s], task[s])) \in Seq(Cmds)
    BY <1>0, <2>3
  <2>5. toMeta' \in [Servers -> Seq(Cmds)]
    BY <2>1, <2>4 DEF Reply, TypeOK
  <2>6. task' \in [Servers -> Groups \cup {NoGroup}]
    BY <2>1 DEF TypeOK
  <2> QED
    BY <2>1, <2>5, <2>6 DEF TypeOK, placeVars, flagVars, failVars
<1> QED
  BY <1>1, <1>2

LEMMA TypeStep ==
  ASSUME TypeOK, Conversations, [Next]_vars
  PROVE  TypeOK'
<1>1. CASE UNCHANGED vars
  BY <1>1 DEF TypeOK, vars, placeVars, flagVars, failVars, headVars, netVars
<1> QED
  BY <1>1, TypeRequest, TypeReport, TypeStart, TypeRecover, TypeHead DEF Next

-----------------------------------------------------------------------------
(* The head node of an ESet. *)

\* Changing what a list waits for leaves every ESet its list.
LEMMA ListOfStays ==
  ASSUME recovering \in Seq(Lists), recovering' \in Seq(Lists), NEW e,
         DOMAIN recovering' = DOMAIN recovering,
         \A i \in DOMAIN recovering : recovering'[i].eset = recovering[i].eset
  PROVE  ListOf(e)' = ListOf(e)
<1>1. Len(recovering') = Len(recovering)
  OBVIOUS
<1>2. {i \in 1 .. Len(recovering') : recovering'[i].eset = e}
        = {i \in 1 .. Len(recovering) : recovering[i].eset = e}
  BY <1>1
<1> QED
  BY <1>2 DEF ListOf, SelectInSeq

\* Lists put in front are found first.
LEMMA ListOfInFront ==
  ASSUME recovering \in Seq(Lists), NEW new \in Seq(Lists), recovering' = new \o recovering,
         NEW e
  PROVE  /\ \A i \in DOMAIN new : new[i].eset = e =>
              /\ ListOf(e)' \in DOMAIN new /\ ListOf(e)' # 0
              /\ recovering'[ListOf(e)'] = new[ListOf(e)'] /\ new[ListOf(e)'].eset = e
         /\ (\A i \in DOMAIN new : new[i].eset # e) /\ ListOf(e) # 0 =>
              /\ ListOf(e)' # 0
              /\ recovering'[ListOf(e)'] = recovering[ListOf(e)]
<1> DEFINE all == new \o recovering
           n == Len(new)
           first == FirstOf(all, e)
<1>0. ListOf(e)' = first /\ ListOf(e) = FirstOf(recovering, e)
  <2>1. ListOf(e)' = FirstOf(recovering', e) /\ ListOf(e) = FirstOf(recovering, e)
    BY DEF ListOf, FirstOf, SelectInSeq
  <2> QED
    BY <2>1
<1>1. /\ all \in Seq(Lists) /\ n \in Nat /\ DOMAIN new = 1 .. n
      /\ Len(recovering) \in Nat /\ DOMAIN recovering = 1 .. Len(recovering)
      /\ DOMAIN all = 1 .. n + Len(recovering)
      /\ \A i \in 1 .. n : all[i] = new[i]
      /\ \A i \in DOMAIN recovering : all[n + i] = recovering[i]
  OBVIOUS
<1>2. recovering' = all
  OBVIOUS
<1> HIDE DEF all, n
<1>3. CASE \E i \in DOMAIN new : new[i].eset = e
  <2>1. PICK i \in DOMAIN new : new[i].eset = e
    BY <1>3
  <2>2. i \in DOMAIN all /\ all[i].eset = e
    BY <1>1, <2>1
  <2>3. first \in DOMAIN all /\ all[first].eset = e /\ first <= i
    BY <1>1, <2>2, FirstIsFirst
  <2> HIDE DEF first
  <2>4. first \in 1 .. n
    BY <1>1, <2>1, <2>3
  <2> QED
    BY <1>0, <1>1, <1>2, <1>3, <2>3, <2>4
<1>4. CASE ~(\E i \in DOMAIN new : new[i].eset = e) /\ ListOf(e) # 0
  <2> DEFINE old == FirstOf(recovering, e)
  <2>1. old \in DOMAIN recovering /\ recovering[old].eset = e
        /\ \A i \in DOMAIN recovering : recovering[i].eset = e => old <= i
    BY <1>0, <1>1, <1>4, FirstIsFirst
  <2> HIDE DEF old
  <2>2. n + old \in DOMAIN all /\ all[n + old].eset = e
    BY <1>1, <2>1
  <2>3. first \in DOMAIN all /\ all[first].eset = e /\ first <= n + old
    BY <1>1, <2>2, FirstIsFirst
  <2> HIDE DEF first
  <2>4. first \notin 1 .. n
    BY <1>1, <1>4, <2>3
  <2>5. first - n \in DOMAIN recovering /\ all[n + (first - n)] = recovering[first - n] /\ n + (first - n) = first
    BY <1>1, <2>3, <2>4
  <2>6. old <= first - n
    BY <2>1, <2>3, <2>5
  <2>7. first = n + old
    BY <1>1, <2>1, <2>3, <2>6
  <2>8. recovering[first - n] = recovering[old] /\ first # 0
    BY <1>1, <2>1, <2>7
  <2> QED
    BY <1>0, <1>2, <1>4, <2>5, <2>8 DEF old
<1> QED
  BY <1>3, <1>4

\* An ESet with exactly as many nodes as it needs is not hit by a failure.
LEMMA ChosenIsNotHit ==
  ASSUME TypeOK, NEW s \in Servers, ReportFailedBlockServer(s), NEW e \in ESets,
         SelectRecoveryNodes(e) # NoServer
  PROVE  failed'[e] = failed[e]
<1>1. Cardinality(Survivors(e)) = StripeK
  BY SelectedSurvives DEF TypeOK
<1>2. failed[e] \in SUBSET Rows
  BY DEF TypeOK
<1>3. Cardinality(Rows \ failed[e]) = Cardinality(Rows) - Cardinality(Rows \cap failed[e])
  BY Sizes, FS_Difference
<1>4. Rows \cap failed[e] = failed[e]
  BY <1>2
<1>5. Cardinality(failed[e]) \in Nat
  BY <1>2, Sizes, FS_Subset, FS_CardinalityType
<1>6. Cardinality(failed[e]) = StripeM
  <2>1. StripeK = (StripeK + StripeM) - Cardinality(failed[e])
    BY <1>1, <1>3, <1>4, Sizes DEF Survivors
  <2> QED
    BY <1>5, <2>1, Sizes
<1>7. e \notin FailedESets(s[1], s[2])
  <2>1. \A x \in FailedESets(s[1], s[2]) : Cardinality(failed[x]) < StripeM
    BY DEF ReportFailedBlockServer, WithinTolerance
  <2> QED
    BY <1>6, <2>1, Sizes
<1>8. failed' = [x \in ESets |-> IF x \in FailedESets(s[1], s[2]) THEN failed[x] \cup {s[1]} ELSE failed[x]]
  BY DEF ReportFailedBlockServer
<1> QED
  BY <1>7, <1>8

LEMMA SelectStays ==
  ASSUME NEW e, failed'[e] = failed[e]
  PROVE  SelectRecoveryNodes(e)' = SelectRecoveryNodes(e)
BY DEF SelectRecoveryNodes, Survivors

\* What recovering may become: the lists stand as they are, or one waits for
\* something else, or new ones are put in front, with the heads they must have.
Relisted ==
  \/ recovering' = recovering
  \/ /\ DOMAIN recovering' = DOMAIN recovering
     /\ \A i \in DOMAIN recovering : /\ recovering'[i].eset = recovering[i].eset
                                     /\ recovering'[i].head = recovering[i].head
                                     /\ recovering'[i].row = recovering[i].row
  \/ \E new \in Seq(Lists) :
       /\ recovering' = new \o recovering
       /\ \A i \in DOMAIN new : new[i].head = SelectRecoveryNodes(new[i].eset)

LEMMA ListsStep ==
  ASSUME TypeOK, [Next]_vars
  PROVE  Relisted
<1>1. CASE StartRecoveryESets
  <2>1. PICK lists \in Seq(Lists) :
          /\ recovering' = Reverse(lists) \o recovering
          /\ \A i \in DOMAIN lists : lists[i].head = SelectRecoveryNodes(lists[i].eset)
    <3>1. PICK lists \in Seq(Lists) :
            \E at \in [DOMAIN lists -> DOMAIN pending], to \in [DOMAIN pending' -> DOMAIN pending] :
              Started(lists, at, to)
      BY <1>1, StartMovesLists
    <3>2. recovering' = Reverse(lists) \o recovering
          /\ \A i \in DOMAIN lists : lists[i].head = SelectRecoveryNodes(lists[i].eset)
      BY <3>1 DEF Started
    <3> QED
      BY <3>2
  <2>2. Reverse(lists) \in Seq(Lists) /\ Len(Reverse(lists)) = Len(lists)
        /\ \A i \in 1 .. Len(lists) : Reverse(lists)[i] = lists[(Len(lists) - i) + 1]
    BY ReverseIsSeq
  <2>3. \A i \in DOMAIN Reverse(lists) :
           Reverse(lists)[i].head = SelectRecoveryNodes(Reverse(lists)[i].eset)
    <3> TAKE i \in DOMAIN Reverse(lists)
    <3>1. i \in 1 .. Len(lists) /\ (Len(lists) - i) + 1 \in DOMAIN lists
      BY <2>2
    <3> QED
      BY <2>1, <2>2, <3>1
  <2> QED
    BY <2>1, <2>2, <2>3 DEF Relisted
<1>2. ASSUME NEW s \in Servers, RecoverESet(s) PROVE Relisted
  <2>1. recovering' = recovering \/ \E cmd \in Cmds : Handled(Head(toMeta[s]), ListOf(Head(toMeta[s]).eset), cmd)
    BY <1>2, RecoverHandles
  <2>2. ASSUME NEW cmd \in Cmds, NEW i \in DOMAIN recovering,
               recovering' = [recovering EXCEPT ![i].cur = cmd.group]
        PROVE  Relisted
    <3>1. \A j \in DOMAIN recovering : recovering[j] \in Lists
      <4>1. recovering \in Seq(Lists)
        BY DEF TypeOK, Lists
      <4> QED
        BY <4>1
    <3>2. DOMAIN recovering' = DOMAIN recovering
          /\ \A j \in DOMAIN recovering : recovering'[j] = IF j = i THEN [recovering[j] EXCEPT !.cur = cmd.group]
                                                                    ELSE recovering[j]
      BY <2>2
    <3> QED
      BY <3>1, <3>2 DEF Lists, Relisted
  <2> QED
    BY <2>1, <2>2 DEF Handled, Relisted
<1>3. ASSUME NEW s \in Servers, ProcessMetaCmd(s) \/ ReportBlockDone(s) \/ ReportFailedBlockServer(s)
      PROVE  Relisted
  BY <1>3 DEF ProcessMetaCmd, ReportBlockDone, ReportFailedBlockServer, Relisted
<1>4. ASSUME NEW g \in Groups, RequestPlacement(g) PROVE Relisted
  BY <1>4 DEF RequestPlacement, Relisted
<1>5. CASE UNCHANGED vars
  BY <1>5 DEF vars, Relisted
<1> QED
  BY <1>1, <1>2, <1>3, <1>4, <1>5 DEF Next

LEMMA HeadsStep ==
  ASSUME TypeOK, TypeOK', HeadsChosen, [Next]_vars
  PROVE  HeadsChosen'
<1>0. recovering \in Seq(Lists) /\ recovering' \in Seq(Lists)
  BY DEF TypeOK, Lists
<1>1. \A e \in ESets : SelectRecoveryNodes(e) # NoServer => SelectRecoveryNodes(e)' = SelectRecoveryNodes(e)
  <2> SUFFICES ASSUME NEW e \in ESets, SelectRecoveryNodes(e) # NoServer
               PROVE  failed'[e] = failed[e]
    BY SelectStays
  <2>1. ASSUME NEW s \in Servers, ReportFailedBlockServer(s) PROVE failed'[e] = failed[e]
    BY <2>1, ChosenIsNotHit
  <2>2. CASE StartRecoveryESets
    BY <2>2 DEF StartRecoveryESets
  <2>3. ASSUME NEW s \in Servers, RecoverESet(s) \/ ProcessMetaCmd(s) \/ ReportBlockDone(s)
        PROVE  failed'[e] = failed[e]
    BY <2>3 DEF RecoverESet, ProcessMetaCmd, ReportBlockDone, failVars
  <2>4. ASSUME NEW g \in Groups, RequestPlacement(g) PROVE failed'[e] = failed[e]
    BY <2>4 DEF RequestPlacement, failVars
  <2>5. CASE UNCHANGED vars
    BY <2>5 DEF vars, failVars
  <2> QED
    BY <2>1, <2>2, <2>3, <2>4, <2>5 DEF Next
<1>2. Relisted
  BY ListsStep
<1>3. SUFFICES ASSUME NEW i \in DOMAIN recovering', recovering'[i].head # NoServer
               PROVE  (recovering[i].head = SelectRecoveryNodes(recovering[i].eset))'
  BY DEF HeadsChosen
<1>4. recovering'[i].eset \in ESets
  <2>1. recovering'[i] \in Lists
    BY <1>0
  <2> QED
    BY <2>1 DEF Lists
<1>5. recovering'[i].head = SelectRecoveryNodes(recovering'[i].eset)
  <2>1. \A j \in DOMAIN recovering : recovering[j].head # NoServer
           => recovering[j].head = SelectRecoveryNodes(recovering[j].eset)
    BY DEF HeadsChosen
  <2>2. ASSUME NEW new \in Seq(Lists), recovering' = new \o recovering,
               \A j \in DOMAIN new : new[j].head = SelectRecoveryNodes(new[j].eset)
        PROVE  recovering'[i].head = SelectRecoveryNodes(recovering'[i].eset)
    <3>1. \/ i \in DOMAIN new /\ recovering'[i] = new[i]
          \/ i - Len(new) \in DOMAIN recovering /\ recovering'[i] = recovering[i - Len(new)]
      BY <1>0, <2>2
    <3> QED
      BY <1>3, <2>1, <2>2, <3>1
  <2> QED
    BY <1>2, <1>3, <2>1, <2>2 DEF Relisted
<1>6. PICK e \in ESets : e = recovering'[i].eset
  BY <1>4
<1>7. recovering'[i].head = SelectRecoveryNodes(e)'
  BY <1>1, <1>3, <1>5, <1>6
<1> QED
  BY <1>6, <1>7 DEF SelectRecoveryNodes, Survivors

\* A head node keeps its ESets.
LEMMA HeadOfStays ==
  ASSUME TypeOK, TypeOK', HeadsChosen, [Next]_vars, NEW e \in ESets, NEW s \in Servers, HeadOf(e, s)
  PROVE  HeadOf(e, s)'
<1>0. recovering \in Seq(Lists) /\ recovering' \in Seq(Lists) /\ s # NoServer
  BY DEF TypeOK, Lists, Servers, NoServer, Rows
<1>1. /\ ListOf(e) \in DOMAIN recovering /\ recovering[ListOf(e)].eset = e
      /\ recovering[ListOf(e)].head = s /\ ListOf(e) # 0
  BY <1>0, ListOfIsFirst DEF HeadOf
<1>2. s = SelectRecoveryNodes(e)
  BY <1>0, <1>1 DEF HeadsChosen
<1>3. recovering' = recovering =>
        /\ DOMAIN recovering' = DOMAIN recovering
        /\ \A i \in DOMAIN recovering : /\ recovering'[i].eset = recovering[i].eset
                                        /\ recovering'[i].head = recovering[i].head
  OBVIOUS
<1>4. CASE /\ DOMAIN recovering' = DOMAIN recovering
           /\ \A i \in DOMAIN recovering : /\ recovering'[i].eset = recovering[i].eset
                                           /\ recovering'[i].head = recovering[i].head
  <2>1. ListOf(e)' = ListOf(e)
    BY <1>0, <1>4, ListOfStays
  <2> QED
    BY <1>1, <1>4, <2>1 DEF HeadOf
<1>5. ASSUME NEW new \in Seq(Lists), recovering' = new \o recovering,
             \A i \in DOMAIN new : new[i].head = SelectRecoveryNodes(new[i].eset)
      PROVE  HeadOf(e, s)'
  <2>1. /\ \A i \in DOMAIN new : new[i].eset = e =>
             /\ ListOf(e)' \in DOMAIN new /\ ListOf(e)' # 0
             /\ recovering'[ListOf(e)'] = new[ListOf(e)'] /\ new[ListOf(e)'].eset = e
        /\ (\A i \in DOMAIN new : new[i].eset # e) /\ ListOf(e) # 0 =>
             /\ ListOf(e)' # 0
             /\ recovering'[ListOf(e)'] = recovering[ListOf(e)]
    BY <1>0, <1>5, ListOfInFront
  <2> QED
    BY <1>1, <1>2, <1>5, <2>1 DEF HeadOf
<1> QED
  BY <1>3, <1>4, <1>5, ListsStep DEF Relisted

-----------------------------------------------------------------------------
(* The conversations. *)

LEMMA AfterTail ==
  ASSUME NEW S, NEW q \in Seq(S), q # << >>
  PROVE  /\ Tail(q) \in Seq(S) /\ DOMAIN Tail(q) = 1 .. Len(q) - 1
         /\ \A j \in DOMAIN Tail(q) : j + 1 \in DOMAIN q /\ j + 1 # 1 /\ Tail(q)[j] = q[j + 1]
         /\ Head(q) = q[1] /\ 1 \in DOMAIN q /\ DOMAIN q = 1 .. Len(q) /\ Len(q) \in Nat
OBVIOUS

LEMMA AfterAppend ==
  ASSUME NEW S, NEW q \in Seq(S), NEW c \in S
  PROVE  /\ Append(q, c) \in Seq(S) /\ DOMAIN Append(q, c) = 1 .. Len(q) + 1
         /\ DOMAIN q = 1 .. Len(q) /\ Len(q) \in Nat
         /\ \A j \in DOMAIN q : j \in DOMAIN Append(q, c) /\ Append(q, c)[j] = q[j]
         /\ Append(q, c)[Len(q) + 1] = c
         /\ \A j \in DOMAIN Append(q, c) : j \in DOMAIN q \/ j = Len(q) + 1
OBVIOUS

\* A server whose connection and tasks are left alone.
LEMMA ConversationStays ==
  ASSUME TypeOK, NEW s \in Servers, Conversation(s),
         toServer'[s] = toServer[s], toMeta'[s] = toMeta[s],
         serving'[s] = serving[s], task'[s] = task[s], s \in down' <=> s \in down,
         \A e \in ESets : HeadOf(e, s) => HeadOf(e, s)'
  PROVE  Conversation(s)'
<1>1. /\ \A j \in DOMAIN toServer[s] : toServer[s][j].eset \in ESets
      /\ serving[s] # NoESet => serving[s] \in ESets
  <2>1. toServer[s] \in Seq(Cmds) /\ serving[s] \in ESets \cup {NoESet}
    BY DEF TypeOK
  <2>2. \A j \in DOMAIN toServer[s] : toServer[s][j] \in Cmds
    BY <2>1
  <2> QED
    BY <2>1, <2>2 DEF Cmds
<1>2. Tasks(s)' = Tasks(s) /\ Answers(s)' = Answers(s)
  BY DEF Tasks, Answers
<1> QED
  BY <1>1, <1>2 DEF Conversation, Turn

LEMMA ReportConverses ==
  ASSUME TypeOK, Conversations, NEW x \in Servers, ReportFailedBlockServer(x), NEW s \in Servers,
         \A e \in ESets : HeadOf(e, s) => HeadOf(e, s)'
  PROVE  Conversation(s)'
<1>1. /\ down' = down \cup {x}
      /\ toServer' = [toServer EXCEPT ![x] = << >>] /\ toMeta' = [toMeta EXCEPT ![x] = << >>]
      /\ UNCHANGED headVars
  BY DEF ReportFailedBlockServer
<1>2. Conversation(s)
  BY DEF Conversations
<1>3. CASE s # x
  <2>1. toServer'[s] = toServer[s] /\ toMeta'[s] = toMeta[s] /\ (s \in down' <=> s \in down)
        /\ serving'[s] = serving[s] /\ task'[s] = task[s]
    BY <1>1, <1>3 DEF TypeOK, headVars
  <2> QED
    BY <1>2, <2>1, ConversationStays
<1>4. CASE s = x
  <2>1. toServer'[s] = << >> /\ toMeta'[s] = << >> /\ s \in down'
        /\ serving'[s] = serving[s] /\ task'[s] = task[s]
    BY <1>1, <1>4 DEF TypeOK, headVars
  <2>2. Tasks(s)' = {} /\ Answers(s)' = {}
    BY <2>1 DEF Tasks, Answers
  <2> QED
    BY <1>2, <2>1, <2>2 DEF Conversation, Turn, AtMostOne
<1> QED
  BY <1>3, <1>4

\* What a pass of startRecoveryESets sends: to servers that are up, after what
\* they have not received yet, and only the ESets they are the head of.
LEMMA StartSends ==
  ASSUME TypeOK, TypeOK', HeadsChosen, SetsKnowTheirFailures, StartRecoveryESets,
         NEW s \in Servers
  PROVE  /\ \A j \in DOMAIN toServer[s] : j \in DOMAIN toServer'[s] /\ toServer'[s][j] = toServer[s][j]
         /\ \A j \in DOMAIN toServer'[s] : j \notin DOMAIN toServer[s] =>
              toServer'[s][j].type = "RecoveryNodes" /\ HeadOf(toServer[s][j].eset, s)'
         /\ s \in down => DOMAIN toServer'[s] = DOMAIN toServer[s]
<1>0. toServer \in [Servers -> Seq(Cmds)] /\ toServer' \in [Servers -> Seq(Cmds)] /\ s # NoServer
      /\ recovering \in Seq(Lists)
  BY DEF TypeOK, Lists, Servers, NoServer, Rows
<1>1. PICK lists \in Seq(Lists) :
        \E at \in [DOMAIN lists -> DOMAIN pending], to \in [DOMAIN pending' -> DOMAIN pending] :
          Started(lists, at, to)
  BY StartMovesLists
<1>2. /\ recovering' = Reverse(lists) \o recovering
      /\ toServer' = FoldLeft(SendRecoveryNodes, toServer, lists)
      /\ \A i \in DOMAIN lists : lists[i].head = SelectRecoveryNodes(lists[i].eset)
  BY <1>1 DEF Started
<1> DEFINE b == Len(toServer[s])
           n == Len(toServer'[s])
<1>3. /\ n >= b /\ \A j \in 1 .. b : toServer'[s][j] = toServer[s][j]
      /\ \E sent \in [b + 1 .. n -> DOMAIN lists] :
           \A j \in b + 1 .. n :
              /\ toServer'[s][j] = Cmd("RecoveryNodes", lists[sent[j]].eset, NoGroup)
              /\ lists[sent[j]].head = s
  <2>1. SentTo(s, toServer[s], toServer'[s], lists)
    BY <1>0, <1>2, SentForLists
  <2> QED
    BY <2>1 DEF SentTo
<1>4. b \in Nat /\ n \in Nat /\ DOMAIN toServer[s] = 1 .. b /\ DOMAIN toServer'[s] = 1 .. n
  BY <1>0
<1> HIDE DEF b, n
<1>5. PICK sent \in [b + 1 .. n -> DOMAIN lists] :
           \A j \in b + 1 .. n :
              /\ toServer'[s][j] = Cmd("RecoveryNodes", lists[sent[j]].eset, NoGroup)
              /\ lists[sent[j]].head = s
  BY <1>3
<1>6. \A j \in 1 .. n : j \notin 1 .. b => j \in b + 1 .. n
  BY <1>3, <1>4
<1>7. \A l \in DOMAIN lists : lists[l].eset \in ESets
  <2>1. \A l \in DOMAIN lists : lists[l] \in Lists
    OBVIOUS
  <2> QED
    BY <2>1 DEF Lists
<1>8. ASSUME NEW l \in DOMAIN lists, lists[l].head = s PROVE HeadOf(lists[l].eset, s)'
  <2> DEFINE e == lists[l].eset
             k == (Len(lists) - l) + 1
             new == Reverse(lists)
  <2>1. new \in Seq(Lists) /\ DOMAIN new = 1 .. Len(lists)
        /\ \A i \in 1 .. Len(lists) : new[i] = lists[(Len(lists) - i) + 1]
    BY ReverseIsSeq
  <2>2. k \in DOMAIN new /\ new[k] = lists[l]
    <3>1. l \in 1 .. Len(lists) /\ Len(lists) \in Nat
      OBVIOUS
    <3>2. k \in 1 .. Len(lists) /\ (Len(lists) - k) + 1 = l
      BY <3>1
    <3> HIDE DEF k, new
    <3> QED
      BY <2>1, <3>2
  <2>3. \A i \in DOMAIN new : new[i].head = SelectRecoveryNodes(new[i].eset)
    <3> TAKE i \in DOMAIN new
    <3>1. i \in 1 .. Len(lists) /\ (Len(lists) - i) + 1 \in DOMAIN lists
      BY <2>1
    <3> HIDE DEF new
    <3> QED
      BY <1>2, <2>1, <3>1
  <2> HIDE DEF k
  <2>4. recovering' = new \o recovering
    BY <1>2
  <2> HIDE DEF new
  <2>5. /\ ListOf(e)' \in DOMAIN new /\ ListOf(e)' # 0
        /\ recovering'[ListOf(e)'] = new[ListOf(e)'] /\ new[ListOf(e)'].eset = e
    BY <1>0, <2>1, <2>2, <2>4, ListOfInFront
  <2>6. recovering'[ListOf(e)'].head = s
    BY <1>2, <1>8, <2>3, <2>5
  <2> QED
    BY <2>5, <2>6 DEF HeadOf
<1>9. ASSUME NEW j \in 1 .. n, j \notin 1 .. b
      PROVE  toServer'[s][j].type = "RecoveryNodes" /\ HeadOf(toServer[s][j].eset, s)' /\ s \notin down
  <2>1. j \in b + 1 .. n
    BY <1>6, <1>9
  <2>2. /\ sent[j] \in DOMAIN lists /\ lists[sent[j]].head = s
        /\ toServer'[s][j] = Cmd("RecoveryNodes", lists[sent[j]].eset, NoGroup)
    BY <1>5, <2>1
  <2>3. PICK e \in ESets : e = lists[sent[j]].eset
    BY <1>7, <2>2
  <2>4. HeadOf(e, s)'
    BY <1>8, <2>2, <2>3
  <2>5. toServer'[s][j].type = "RecoveryNodes" /\ toServer'[s][j].eset = e
    BY <2>2, <2>3 DEF Cmd
  <2>6. HeadOf(toServer[s][j].eset, s)'
    BY <2>4, <2>5 DEF HeadOf, ListOf
  <2>7. s = SelectRecoveryNodes(e)
    BY <1>2, <2>2, <2>3
  <2>8. PICK r \in Survivors(e) : s = Node(e, r)
    BY <1>0, <2>7, SelectedSurvives DEF TypeOK
  <2>9. s \notin down
    BY <2>8 DEF SetsKnowTheirFailures, Survivors
  <2> QED
    BY <2>5, <2>6, <2>9
<1>10. s \in down => n = b
  <2>1. n # b => n \in 1 .. n /\ n \notin 1 .. b
    BY <1>3, <1>4
  <2> QED
    BY <1>9, <2>1
<1> QED
  BY <1>3, <1>4, <1>9, <1>10

LEMMA StartConverses ==
  ASSUME TypeOK, TypeOK', HeadsChosen, SetsKnowTheirFailures, Conversations, StartRecoveryESets,
         NEW s \in Servers, \A e \in ESets : HeadOf(e, s) => HeadOf(e, s)'
  PROVE  Conversation(s)'
<1>0. /\ \A j \in DOMAIN toServer[s] : toServer[s][j].eset \in ESets
      /\ serving[s] # NoESet => serving[s] \in ESets
  <2>1. toServer[s] \in Seq(Cmds) /\ serving[s] \in ESets \cup {NoESet}
    BY DEF TypeOK
  <2>2. \A j \in DOMAIN toServer[s] : toServer[s][j] \in Cmds
    BY <2>1
  <2> QED
    BY <2>1, <2>2 DEF Cmds
<1>1. UNCHANGED <<down, toMeta, serving, task>>
  BY DEF StartRecoveryESets, headVars
<1>2. /\ \A j \in DOMAIN toServer[s] : j \in DOMAIN toServer'[s] /\ toServer'[s][j] = toServer[s][j]
      /\ \A j \in DOMAIN toServer'[s] : j \notin DOMAIN toServer[s] =>
           toServer'[s][j].type = "RecoveryNodes" /\ HeadOf(toServer[s][j].eset, s)'
      /\ s \in down => DOMAIN toServer'[s] = DOMAIN toServer[s]
  BY StartSends
<1>3. Tasks(s)' = Tasks(s) /\ Answers(s)' = Answers(s)
  <2>1. \A j \in DOMAIN toServer'[s] : toServer'[s][j].type # "RecoveryNodes" => j \in DOMAIN toServer[s]
    BY <1>2
  <2> QED
    BY <1>1, <1>2, <2>1 DEF Tasks, Answers
<1>4. Conversation(s)
  BY DEF Conversations
<1>5. s \in down => toServer'[s] = << >>
  <2>1. s \in down => DOMAIN toServer[s] = {}
    BY <1>4 DEF Conversation
  <2>2. toServer'[s] \in Seq(Cmds)
    BY DEF TypeOK
  <2>3. s \in down => Len(toServer'[s]) = 0
    <3>1. DOMAIN toServer'[s] = 1 .. Len(toServer'[s]) /\ Len(toServer'[s]) \in Nat
      BY <2>2
    <3>2. Len(toServer'[s]) # 0 => 1 \in DOMAIN toServer'[s]
      BY <3>1
    <3> QED
      BY <1>2, <2>1, <3>1, <3>2
  <2> QED
    BY <2>2, <2>3
<1>6. (\A j \in DOMAIN toServer[s] :
         toServer[s][j].type \in {"RecoveryNodes", "RecoveryBlockGroup", "EndRecoveryNodes"}
           /\ (toServer[s][j].type = "RecoveryNodes" => HeadOf(toServer[s][j].eset, s)))'
  <2>1. SUFFICES ASSUME NEW j \in DOMAIN toServer'[s]
                 PROVE  (toServer[s][j].type \in {"RecoveryNodes", "RecoveryBlockGroup", "EndRecoveryNodes"}
                          /\ (toServer[s][j].type = "RecoveryNodes" => HeadOf(toServer[s][j].eset, s)))'
    OBVIOUS
  <2>2. CASE j \notin DOMAIN toServer[s]
    BY <1>2, <2>2
  <2>3. CASE j \in DOMAIN toServer[s]
    <3>1. toServer'[s][j] = toServer[s][j]
      BY <1>2, <2>3
    <3>2. PICK e \in ESets : e = toServer[s][j].eset
      BY <1>0, <2>3
    <3>3. toServer[s][j].type = "RecoveryNodes" => HeadOf(e, s)'
      BY <1>4, <2>3, <3>2 DEF Conversation
    <3>4. HeadOf(e, s)' => HeadOf(toServer[s][j].eset, s)'
      BY <3>1, <3>2 DEF HeadOf, ListOf
    <3> QED
      BY <1>4, <2>3, <3>1, <3>3, <3>4 DEF Conversation
  <2> QED
    BY <2>2, <2>3
<1>7. (serving[s] # NoESet /\ s \notin down => HeadOf(serving[s], s))'
  <2>1. SUFFICES ASSUME serving[s] # NoESet, s \notin down PROVE HeadOf(serving[s], s)'
    BY <1>1
  <2>2. PICK e \in ESets : e = serving[s]
    BY <1>0, <2>1
  <2>3. HeadOf(e, s)'
    BY <1>4, <2>1, <2>2 DEF Conversation
  <2> QED
    BY <1>1, <2>2, <2>3 DEF HeadOf, ListOf
<1>8. Turn(s)' <=> Turn(s)
  BY <1>1, <1>3 DEF Turn
<1>9. (\A j \in Tasks(s) : toServer[s][j].eset = serving[s])'
  <2>1. \A j \in Tasks(s) : toServer'[s][j] = toServer[s][j]
    BY <1>2 DEF Tasks
  <2> QED
    BY <1>1, <1>3, <1>4, <2>1 DEF Conversation
<1> QED
  BY <1>1, <1>3, <1>4, <1>5, <1>6, <1>7, <1>8, <1>9 DEF Conversation

\* The reply that recoverESet goes on from is the one thing in the server's
\* conversation, and the next command goes back to the server.
LEMMA ReplyInTurn ==
  ASSUME TypeOK, Conversations, NEW s \in Servers, toMeta[s] # << >>,
         NEW cmd \in Cmds, Handled(Head(toMeta[s]), ListOf(Head(toMeta[s]).eset), cmd)
  PROVE  /\ s \notin down /\ serving[s] \in ESets /\ Head(toMeta[s]).eset = serving[s]
         /\ Tasks(s) = {} /\ Answers(s) = {1} /\ task[s] = NoGroup
         /\ HeadOf(serving[s], s) /\ recovering[ListOf(serving[s])].head = s
         /\ toServer' = [toServer EXCEPT ![s] = Append(@, cmd)]
         /\ cmd.eset = serving[s]
<1> DEFINE m == Head(toMeta[s])
<1>1. toMeta[s] \in Seq(Cmds) /\ serving[s] \in ESets \cup {NoESet}
  BY DEF TypeOK
<1>2. m = toMeta[s][1] /\ 1 \in DOMAIN toMeta[s]
  BY <1>1, AfterTail
<1>3. m.type # "RecoveryNodesFailed" /\ cmd.eset = m.eset
      /\ toServer' = [toServer EXCEPT ![recovering[ListOf(m.eset)].head] = Append(@, cmd)]
  BY DEF Handled
<1> HIDE DEF m
<1>4. 1 \in Answers(s)
  BY <1>2, <1>3 DEF Answers
<1>5. Conversation(s)
  BY DEF Conversations
<1>6. serving[s] # NoESet /\ s \notin down
  BY <1>4, <1>5 DEF Conversation
<1>7. Turn(s) /\ HeadOf(serving[s], s) /\ m.eset = serving[s]
  BY <1>2, <1>4, <1>5, <1>6 DEF Conversation
<1>8. Answers(s) = {1} /\ Tasks(s) = {} /\ task[s] = NoGroup
  BY <1>4, <1>7 DEF Turn, AtMostOne
<1>9. recovering[ListOf(serving[s])].head = s
  BY <1>7 DEF HeadOf
<1> QED
  BY <1>1, <1>3, <1>6, <1>7, <1>8, <1>9 DEF m

LEMMA RecoverConverses ==
  ASSUME TypeOK, TypeOK', Conversations, NEW x \in Servers, RecoverESet(x), NEW s \in Servers,
         \A e \in ESets : HeadOf(e, s) => HeadOf(e, s)'
  PROVE  Conversation(s)'
<1> DEFINE m == Head(toMeta[x])
<1>1. /\ toMeta[x] # << >> /\ toMeta' = [toMeta EXCEPT ![x] = Tail(@)] /\ m \in Cmds
      /\ UNCHANGED <<failVars, headVars>>
      /\ \/ UNCHANGED <<placeVars, flagVars, recovering, toServer>>
         \/ \E cmd \in Cmds : Handled(m, ListOf(m.eset), cmd)
  BY RecoverHandles
<1>2. Conversation(s) /\ down' = down /\ serving' = serving /\ task' = task
  BY <1>1 DEF Conversations, failVars, headVars
<1>3. toServer' = toServer
      \/ \E cmd \in Cmds : toServer' = [toServer EXCEPT ![x] = Append(@, cmd)]
  <2>1. ASSUME NEW cmd \in Cmds, Handled(m, ListOf(m.eset), cmd)
        PROVE  toServer' = [toServer EXCEPT ![x] = Append(@, cmd)]
    BY <1>1, <2>1, ReplyInTurn
  <2> QED
    BY <1>1, <2>1
<1>4. CASE s # x
  <2>1. toServer'[s] = toServer[s] /\ toMeta'[s] = toMeta[s]
    BY <1>1, <1>3, <1>4 DEF TypeOK
  <2> QED
    BY <1>2, <2>1, ConversationStays
<1>5. CASE s = x
  <2>1. /\ toMeta'[s] = Tail(toMeta[s]) /\ toMeta[s] \in Seq(Cmds) /\ toServer[s] \in Seq(Cmds)
        /\ serving[s] \in ESets \cup {NoESet}
    BY <1>1, <1>5 DEF TypeOK
  <2>2. /\ \A j \in DOMAIN toMeta'[s] : j + 1 \in DOMAIN toMeta[s] /\ j + 1 # 1 /\ toMeta'[s][j] = toMeta[s][j + 1]
        /\ DOMAIN toMeta'[s] \subseteq Nat
    <3>1. /\ \A j \in DOMAIN toMeta'[s] : j + 1 \in DOMAIN toMeta[s] /\ j + 1 # 1 /\ toMeta'[s][j] = toMeta[s][j + 1]
          /\ DOMAIN toMeta'[s] = 1 .. Len(toMeta[s]) - 1
      <4>1. toMeta[s] # << >>
        BY <1>1, <1>5
      <4> QED
        BY <2>1, <4>1, AfterTail
    <3> QED
      BY <3>1
  <2>3. \A j \in Answers(s)' : j + 1 \in Answers(s) /\ j + 1 # 1 /\ toMeta'[s][j] = toMeta[s][j + 1]
    BY <2>2 DEF Answers
  <2>4. AtMostOne(Answers(s)) => AtMostOne(Answers(s)')
    <3>1. \A j \in Answers(s)' : j \in Nat
      BY <2>2 DEF Answers
    <3>2. ASSUME AtMostOne(Answers(s)), NEW j \in Answers(s)', NEW k \in Answers(s)' PROVE j = k
      <4>1. j + 1 = k + 1 /\ j \in Nat /\ k \in Nat
        BY <2>3, <3>1, <3>2 DEF AtMostOne
      <4> QED
        BY <4>1
    <3> QED
      BY <3>2 DEF AtMostOne
  <2>5. s \notin down
    <3>1. s \in down => toMeta[s] = << >>
      BY <1>2 DEF Conversation
    <3> QED
      BY <1>1, <1>5, <3>1
  <2>6. \A j \in DOMAIN toMeta'[s] :
          toMeta'[s][j].type \in {"RecoveryNodesOK", "RecoveryNodesFailed", "RecoveryBlockOK"}
    BY <1>2, <2>2 DEF Conversation
  <2>7. \A j \in Answers(s)' : toMeta'[s][j].eset = serving[s]
    BY <1>2, <2>3 DEF Conversation
  <2>8. serving[s] # NoESet => HeadOf(serving[s], s)'
    <3>1. SUFFICES ASSUME serving[s] # NoESet PROVE HeadOf(serving[s], s)'
      OBVIOUS
    <3>2. PICK e \in ESets : e = serving[s]
      BY <2>1, <3>1
    <3>3. HeadOf(e, s)'
      BY <1>2, <2>5, <3>1, <3>2 DEF Conversation
    <3> QED
      BY <1>2, <3>2, <3>3 DEF HeadOf, ListOf
  <2>9. \A j \in DOMAIN toServer[s] : toServer[s][j].eset \in ESets
    <3>1. \A j \in DOMAIN toServer[s] : toServer[s][j] \in Cmds
      BY <2>1
    <3> QED
      BY <3>1 DEF Cmds
  <2>10. CASE toServer' = toServer
    <3>1. Tasks(s)' = Tasks(s)
      BY <2>10 DEF Tasks
    <3>2. serving[s] # NoESet => Turn(s)'
      BY <1>2, <2>3, <2>4, <3>1 DEF Conversation, Turn
    <3>3. serving[s] = NoESet => Tasks(s)' = {} /\ Answers(s)' = {} /\ task[s] = NoGroup
      BY <1>2, <2>3, <3>1 DEF Conversation
    <3>4. \A j \in DOMAIN toServer[s] : toServer[s][j].type = "RecoveryNodes" => HeadOf(toServer[s][j].eset, s)'
      <4> SUFFICES ASSUME NEW j \in DOMAIN toServer[s], toServer[s][j].type = "RecoveryNodes"
                   PROVE  HeadOf(toServer[s][j].eset, s)'
        OBVIOUS
      <4>1. PICK e \in ESets : e = toServer[s][j].eset
        BY <2>9
      <4>2. HeadOf(e, s)'
        BY <1>2, <4>1 DEF Conversation
      <4> QED
        BY <2>10, <4>1, <4>2 DEF HeadOf, ListOf
    <3> QED
      BY <1>2, <2>5, <2>6, <2>7, <2>8, <2>10, <3>1, <3>2, <3>3, <3>4 DEF Conversation
  <2>11. ASSUME NEW cmd \in Cmds, Handled(m, ListOf(m.eset), cmd) PROVE Conversation(s)'
    <3>1. /\ serving[s] \in ESets /\ Tasks(s) = {} /\ Answers(s) = {1} /\ task[s] = NoGroup
          /\ toServer' = [toServer EXCEPT ![s] = Append(@, cmd)] /\ cmd.eset = serving[s]
      BY <1>1, <1>5, <2>11, ReplyInTurn
    <3>2. cmd.type \in {"RecoveryBlockGroup", "EndRecoveryNodes"}
      BY <2>11 DEF Handled
    <3>3. toServer'[s] = Append(toServer[s], cmd)
      BY <3>1 DEF TypeOK
    <3> DEFINE n == Len(toServer[s]) + 1
    <3>4. /\ \A j \in DOMAIN toServer[s] : j \in DOMAIN toServer'[s] /\ toServer'[s][j] = toServer[s][j]
          /\ toServer'[s][n] = cmd /\ \A j \in DOMAIN toServer'[s] : j \in DOMAIN toServer[s] \/ j = n
      BY <2>1, <3>3, AfterAppend
    <3> HIDE DEF n
    <3>5. \A j \in Tasks(s)' : j = n
      BY <3>1, <3>4 DEF Tasks
    <3>6. Answers(s)' = {}
      BY <2>3, <3>1
    <3>7. Turn(s)'
      BY <1>2, <3>1, <3>5, <3>6 DEF Turn, AtMostOne
    <3>8. \A j \in Tasks(s)' : toServer'[s][j].eset = serving[s]
      BY <3>1, <3>4, <3>5
    <3>9. \A j \in DOMAIN toServer'[s] :
           toServer'[s][j].type \in {"RecoveryNodes", "RecoveryBlockGroup", "EndRecoveryNodes"}
           /\ (toServer'[s][j].type = "RecoveryNodes" => HeadOf(toServer[s][j].eset, s)')
      <4> SUFFICES ASSUME NEW j \in DOMAIN toServer'[s]
                   PROVE  toServer'[s][j].type \in {"RecoveryNodes", "RecoveryBlockGroup", "EndRecoveryNodes"}
                          /\ (toServer'[s][j].type = "RecoveryNodes" => HeadOf(toServer[s][j].eset, s)')
        OBVIOUS
      <4>1. CASE j = n
        BY <3>2, <3>4, <4>1
      <4>2. CASE j \in DOMAIN toServer[s]
        <5>1. toServer'[s][j] = toServer[s][j]
          BY <3>4, <4>2
        <5>2. PICK e \in ESets : e = toServer[s][j].eset
          BY <2>9, <4>2
        <5>3. toServer[s][j].type = "RecoveryNodes" => HeadOf(e, s)'
          BY <1>2, <4>2, <5>2 DEF Conversation
        <5>4. HeadOf(e, s)' => HeadOf(toServer[s][j].eset, s)'
          BY <5>1, <5>2 DEF HeadOf, ListOf
        <5> QED
          BY <1>2, <4>2, <5>1, <5>3, <5>4 DEF Conversation
      <4> QED
        BY <3>4, <4>1, <4>2
    <3>10. serving[s] # NoESet
      BY <3>1 DEF NoESet, ESets
    <3> QED
      BY <1>2, <2>5, <2>6, <2>7, <2>8, <3>7, <3>8, <3>9, <3>10 DEF Conversation
  <2> QED
    BY <1>1, <2>10, <2>11
<1> QED
  BY <1>4, <1>5

\* A head node that reads a command or reports a block.
LEMMA HeadConverses ==
  ASSUME TypeOK, TypeOK', Conversations, NEW x \in Servers, ProcessMetaCmd(x) \/ ReportBlockDone(x),
         NEW s \in Servers, \A e \in ESets : HeadOf(e, s) => HeadOf(e, s)'
  PROVE  Conversation(s)'
<1>0. /\ toServer[s] \in Seq(Cmds) /\ toMeta[s] \in Seq(Cmds) /\ toMeta'[s] \in Seq(Cmds)
      /\ serving[s] \in ESets \cup {NoESet} /\ task[s] \in Groups \cup {NoGroup}
      /\ recovering' = recovering /\ down' = down
  BY DEF TypeOK, ProcessMetaCmd, ReportBlockDone, failVars
<1>1. \A j \in DOMAIN toServer[s] : toServer[s][j].eset \in ESets
  <2>1. \A j \in DOMAIN toServer[s] : toServer[s][j] \in Cmds
    BY <1>0
  <2> QED
    BY <2>1 DEF Cmds
<1>2. Conversation(s) /\ \A e : HeadOf(e, s)' <=> HeadOf(e, s)
  <2>1. \A e : ListOf(e)' = ListOf(e)
    BY <1>0 DEF ListOf, SelectInSeq
  <2> QED
    BY <1>0, <2>1 DEF Conversations, HeadOf
<1>3. CASE s # x
  <2>1. toServer'[s] = toServer[s] /\ toMeta'[s] = toMeta[s] /\ serving'[s] = serving[s] /\ task'[s] = task[s]
    BY <1>3 DEF TypeOK, ProcessMetaCmd, ProcessRecoveryNodes, InitRecoveryTask, ProcessRecoveryNodesOver,
                ReportBlockDone, Reply
  <2> QED
    BY <1>0, <1>2, <2>1, ConversationStays
<1>4. CASE s = x /\ ReportBlockDone(x)
  <2>1. /\ s \notin down /\ task[s] # NoGroup /\ toServer'[s] = toServer[s] /\ serving'[s] = serving[s]
        /\ task'[s] = NoGroup
        /\ toMeta'[s] = Append(toMeta[s], Cmd("RecoveryBlockOK", serving[s], task[s]))
    BY <1>4 DEF TypeOK, ReportBlockDone, Reply
  <2> DEFINE reply == Cmd("RecoveryBlockOK", serving[s], task[s])
             n == Len(toMeta[s]) + 1
  <2>2. serving[s] # NoESet /\ serving[s] \in ESets
    BY <1>0, <1>2, <2>1 DEF Conversation
  <2>3. reply \in Cmds /\ reply.type = "RecoveryBlockOK" /\ reply.eset = serving[s]
    BY <1>0, <2>2 DEF Cmd, Cmds, CmdTypes
  <2>4. Tasks(s) = {} /\ Answers(s) = {}
    BY <1>2, <2>1, <2>2 DEF Conversation, Turn
  <2> HIDE DEF reply
  <2>5. /\ \A j \in DOMAIN toMeta[s] : j \in DOMAIN toMeta'[s] /\ toMeta'[s][j] = toMeta[s][j]
        /\ toMeta'[s][n] = reply /\ \A j \in DOMAIN toMeta'[s] : j \in DOMAIN toMeta[s] \/ j = n
    BY <1>0, <2>1, <2>3, AfterAppend DEF reply
  <2> HIDE DEF n
  <2>6. \A j \in Answers(s)' : j = n
    BY <2>4, <2>5 DEF Answers
  <2>7. Tasks(s)' = {}
    BY <2>1, <2>4 DEF Tasks
  <2>8. Turn(s)'
    BY <2>1, <2>6, <2>7 DEF Turn, AtMostOne
  <2>9. \A j \in DOMAIN toMeta'[s] :
          toMeta'[s][j].type \in {"RecoveryNodesOK", "RecoveryNodesFailed", "RecoveryBlockOK"}
    BY <1>2, <2>3, <2>5 DEF Conversation
  <2>10. \A j \in DOMAIN toServer[s] : HeadOf(toServer[s][j].eset, s)' <=> HeadOf(toServer[s][j].eset, s)
    <3>1. ASSUME NEW e PROVE HeadOf(e, s)' <=> HeadOf(e, s)
      BY <1>2
    <3>2. \A j \in DOMAIN toServer[s] : toServer'[s][j].eset = toServer[s][j].eset
      BY <2>1
    <3>3. ASSUME NEW j \in DOMAIN toServer[s], NEW e, e = toServer[s][j].eset
          PROVE  HeadOf(toServer[s][j].eset, s)' <=> HeadOf(e, s)
      BY <1>0, <2>1, <3>3 DEF HeadOf, ListOf, SelectInSeq
    <3> QED
      BY <3>3
  <2>11. HeadOf(serving[s], s)' <=> HeadOf(serving[s], s)
    BY <1>0, <2>1 DEF HeadOf, ListOf, SelectInSeq
  <2> QED
    BY <1>0, <1>2, <2>1, <2>2, <2>3, <2>5, <2>6, <2>7, <2>8, <2>9, <2>10, <2>11 DEF Conversation
<1>5. CASE s = x /\ ProcessMetaCmd(x)
  <2> DEFINE m == Head(toServer[s])
  <2>1. /\ s \notin down /\ toServer[s] # << >> /\ toServer'[s] = Tail(toServer[s])
        /\ \/ ProcessRecoveryNodes(s, m) \/ InitRecoveryTask(s, m) \/ ProcessRecoveryNodesOver(s, m)
    BY <1>5 DEF TypeOK, ProcessMetaCmd
  <2>2. /\ m = toServer[s][1] /\ 1 \in DOMAIN toServer[s] /\ m.eset \in ESets
        /\ \A j \in DOMAIN toServer'[s] : j + 1 \in DOMAIN toServer[s] /\ j + 1 # 1 /\ toServer'[s][j] = toServer[s][j + 1]
        /\ DOMAIN toServer'[s] \subseteq Nat
    <3>1. /\ m = toServer[s][1] /\ 1 \in DOMAIN toServer[s]
          /\ \A j \in DOMAIN toServer'[s] : j + 1 \in DOMAIN toServer[s] /\ j + 1 # 1 /\ toServer'[s][j] = toServer[s][j + 1]
          /\ DOMAIN toServer'[s] = 1 .. Len(toServer[s]) - 1
      BY <1>0, <2>1, AfterTail
    <3> HIDE DEF m
    <3> QED
      BY <1>1, <3>1
  <2> HIDE DEF m
  <2>3. \A j \in Tasks(s)' : j + 1 \in Tasks(s) /\ j + 1 # 1 /\ toServer'[s][j] = toServer[s][j + 1] /\ j \in Nat
    BY <2>2 DEF Tasks
  <2>4. AtMostOne(Tasks(s)) => AtMostOne(Tasks(s)')
    <3>1. ASSUME AtMostOne(Tasks(s)), NEW j \in Tasks(s)', NEW k \in Tasks(s)' PROVE j = k
      <4>1. j + 1 = k + 1 /\ j \in Nat /\ k \in Nat
        BY <2>3, <3>1 DEF AtMostOne
      <4> QED
        BY <4>1
    <3> QED
      BY <3>1 DEF AtMostOne
  <2>5. \A j \in DOMAIN toServer'[s] :
           toServer'[s][j].type \in {"RecoveryNodes", "RecoveryBlockGroup", "EndRecoveryNodes"}
           /\ (toServer'[s][j].type = "RecoveryNodes" => HeadOf(toServer[s][j].eset, s)')
    <3> SUFFICES ASSUME NEW j \in DOMAIN toServer'[s]
                 PROVE  toServer'[s][j].type \in {"RecoveryNodes", "RecoveryBlockGroup", "EndRecoveryNodes"}
                        /\ (toServer'[s][j].type = "RecoveryNodes" => HeadOf(toServer[s][j].eset, s)')
      OBVIOUS
    <3>1. toServer'[s][j] = toServer[s][j + 1] /\ j + 1 \in DOMAIN toServer[s]
      BY <2>2
    <3>2. HeadOf(toServer[s][j + 1].eset, s) => HeadOf(toServer[s][j].eset, s)'
      BY <1>0, <3>1 DEF HeadOf, ListOf, SelectInSeq
    <3> QED
      BY <1>2, <3>1, <3>2 DEF Conversation
  <2>6. m.type # "RecoveryNodes" => 1 \in Tasks(s)
    BY <2>2 DEF Tasks
  <2>7. serving'[s] = serving[s] => (HeadOf(serving[s], s)' <=> HeadOf(serving[s], s))
    BY <1>0 DEF HeadOf, ListOf, SelectInSeq
  <2>8. (\A j \in DOMAIN toMeta[s] : toMeta[s][j].type \in {"RecoveryNodesOK", "RecoveryNodesFailed", "RecoveryBlockOK"})
    BY <1>2 DEF Conversation
  <2>9. CASE InitRecoveryTask(s, m)
    <3>1. m.type = "RecoveryBlockGroup" /\ serving'[s] = serving[s] /\ toMeta' = toMeta /\ serving[s] # NoESet
      BY <2>9 DEF InitRecoveryTask
    <3>2. Turn(s) /\ 1 \in Tasks(s)
      BY <1>2, <2>6, <3>1 DEF Conversation
    <3>3. Tasks(s)' = {}
      BY <2>3, <3>2 DEF Turn, AtMostOne
    <3>4. Answers(s)' = {} /\ Answers(s) = {}
      BY <3>1, <3>2 DEF Answers, Turn
    <3>5. Turn(s)'
      BY <3>3, <3>4 DEF Turn, AtMostOne
    <3> QED
      BY <1>0, <1>2, <2>1, <2>5, <2>7, <2>8, <3>1, <3>3, <3>4, <3>5 DEF Conversation
  <2>10. CASE ProcessRecoveryNodesOver(s, m)
    <3>1. /\ m.type = "EndRecoveryNodes" /\ toMeta' = toMeta
          /\ serving'[s] = (IF serving[s] = m.eset THEN NoESet ELSE serving[s])
          /\ task'[s] = (IF serving[s] = m.eset THEN NoGroup ELSE task[s])
      BY <2>10 DEF ProcessRecoveryNodesOver, TypeOK
    <3>2. serving[s] # NoESet /\ serving[s] = m.eset
      BY <1>2, <2>2, <2>6, <3>1 DEF Conversation
    <3>3. Turn(s) /\ 1 \in Tasks(s)
      BY <1>2, <2>6, <3>1, <3>2 DEF Conversation
    <3>4. Tasks(s)' = {}
      BY <2>3, <3>3 DEF Turn, AtMostOne
    <3>5. Answers(s)' = {}
      BY <3>1, <3>3 DEF Answers, Turn
    <3>6. serving'[s] = NoESet /\ task'[s] = NoGroup
      BY <3>1, <3>2
    <3> QED
      BY <1>0, <1>2, <2>1, <2>5, <2>8, <3>1, <3>4, <3>5, <3>6 DEF Conversation
  <2>11. CASE ProcessRecoveryNodes(s, m)
    <3> DEFINE free == serving[s] = NoESet
               reply == Cmd(IF free THEN "RecoveryNodesOK" ELSE "RecoveryNodesFailed", m.eset, NoGroup)
               n == Len(toMeta[s]) + 1
    <3>1. /\ m.type = "RecoveryNodes" /\ serving'[s] = (IF free THEN m.eset ELSE serving[s])
          /\ task'[s] = task[s] /\ toMeta'[s] = Append(toMeta[s], reply)
      BY <2>11 DEF ProcessRecoveryNodes, TypeOK, Reply
    <3>2. reply \in Cmds /\ reply.type = (IF free THEN "RecoveryNodesOK" ELSE "RecoveryNodesFailed")
          /\ reply.eset = m.eset
      BY <2>2 DEF Cmd, Cmds, CmdTypes
    <3> HIDE DEF reply
    <3>3. /\ \A j \in DOMAIN toMeta[s] : j \in DOMAIN toMeta'[s] /\ toMeta'[s][j] = toMeta[s][j]
          /\ toMeta'[s][n] = reply /\ n \in DOMAIN toMeta'[s]
          /\ \A j \in DOMAIN toMeta'[s] : j \in DOMAIN toMeta[s] \/ j = n
      BY <1>0, <3>1, <3>2, AfterAppend
    <3> HIDE DEF n
    <3>4. \A j \in DOMAIN toMeta'[s] :
            toMeta'[s][j].type \in {"RecoveryNodesOK", "RecoveryNodesFailed", "RecoveryBlockOK"}
      BY <2>8, <3>2, <3>3
    <3>5. m.eset # NoESet
      BY <2>2 DEF NoESet, ESets
    <3>6. CASE free
      <4>1. Tasks(s) = {} /\ Answers(s) = {} /\ task[s] = NoGroup
        BY <1>2, <3>6 DEF Conversation
      <4>2. Tasks(s)' = {}
        BY <2>3, <4>1
      <4>3. \A j \in Answers(s)' : j = n
        BY <3>3, <4>1 DEF Answers
      <4>4. Turn(s)'
        BY <3>1, <4>1, <4>2, <4>3 DEF Turn, AtMostOne
      <4>5. HeadOf(m.eset, s)
        BY <1>2, <2>2, <3>1 DEF Conversation
      <4>6. HeadOf(serving[s], s)'
        BY <1>0, <3>1, <3>6, <4>5 DEF HeadOf, ListOf, SelectInSeq
      <4> QED
        BY <1>0, <1>2, <2>1, <2>5, <3>1, <3>2, <3>3, <3>4, <3>5, <3>6, <4>2, <4>3, <4>4, <4>6 DEF Conversation
    <3>7. CASE ~free
      <4>1. Turn(s)
        BY <1>2, <3>7 DEF Conversation
      <4>2. Answers(s)' = Answers(s) /\ \A j \in Answers(s) : toMeta'[s][j] = toMeta[s][j]
        BY <3>2, <3>3, <3>7 DEF Answers
      <4>3. serving'[s] = serving[s]
        BY <3>1, <3>7
      <4>4. Turn(s)'
        BY <2>3, <2>4, <3>1, <4>1, <4>2 DEF Turn
      <4>5. /\ \A j \in Tasks(s)' : toServer'[s][j].eset = serving'[s]
            /\ \A j \in Answers(s)' : toMeta'[s][j].eset = serving'[s]
        BY <1>2, <2>3, <4>2, <4>3 DEF Conversation
      <4>6. serving'[s] # NoESet => HeadOf(serving[s], s)'
        BY <1>2, <2>1, <2>7, <4>3 DEF Conversation
      <4> QED
        BY <1>0, <2>1, <2>5, <3>4, <3>7, <4>3, <4>4, <4>5, <4>6 DEF Conversation
    <3> QED
      BY <3>6, <3>7
  <2> QED
    BY <2>1, <2>9, <2>10, <2>11
<1> QED
  BY <1>3, <1>4, <1>5

LEMMA ConversationsStep ==
  ASSUME TypeOK, TypeOK', HeadsChosen, SetsKnowTheirFailures, Conversations, [Next]_vars
  PROVE  Conversations'
<1> SUFFICES ASSUME NEW s \in Servers PROVE Conversation(s)'
  BY DEF Conversations
<1>1. \A e \in ESets : HeadOf(e, s) => HeadOf(e, s)'
  BY HeadOfStays
<1>2. ASSUME NEW x \in Servers, ReportFailedBlockServer(x) PROVE Conversation(s)'
  BY <1>1, <1>2, ReportConverses
<1>3. CASE StartRecoveryESets
  BY <1>1, <1>3, StartConverses
<1>4. ASSUME NEW x \in Servers, RecoverESet(x) PROVE Conversation(s)'
  BY <1>1, <1>4, RecoverConverses
<1>5. ASSUME NEW x \in Servers, ProcessMetaCmd(x) \/ ReportBlockDone(x) PROVE Conversation(s)'
  BY <1>1, <1>5, HeadConverses
<1>6. CASE UNCHANGED vars \/ \E g \in Groups : RequestPlacement(g)
  <2>1. UNCHANGED <<toServer, toMeta, serving, task, down>>
    BY <1>6 DEF vars, netVars, headVars, failVars, RequestPlacement
  <2> QED
    BY <1>1, <2>1, ConversationStays DEF Conversations
<1> QED
  BY <1>2, <1>3, <1>4, <1>5, <1>6 DEF Next

-----------------------------------------------------------------------------
(* The mappings. *)

MapsTyped == \A e \in ESets : /\ blockGroupMap[e] \in Seq(MapEntries)
                              /\ \A i \in DOMAIN blockGroupMap[e] : blockGroupMap[e][i] \in MapEntries

LEMMA MapTypes ==
  ASSUME TypeOK
  PROVE  MapsTyped
<1> SUFFICES ASSUME NEW e \in ESets
             PROVE  /\ blockGroupMap[e] \in Seq(MapEntries)
                    /\ \A i \in DOMAIN blockGroupMap[e] : blockGroupMap[e][i] \in MapEntries
  BY DEF MapsTyped
<1>1. blockGroupMap[e] \in Seq(MapEntries)
  BY DEF TypeOK, MapEntries
<1> QED
  BY <1>1

LEMMA FirstOrLater ==
  ASSUME NEW n \in Nat, NEW i \in 1 .. n + 1
  PROVE  i = 1 \/ (i \in 2 .. n + 1 /\ i - 1 \in 1 .. n)
  OBVIOUS

\* A new group is mapped in front; the others stand where they were or one on.
LEMMA RequestMaps ==
  ASSUME TypeOK, NEW g \in Groups, RequestPlacement(g)
  PROVE  \E at \in ESets :
           /\ failed[at] = {} => failed[Choose] = {}
           /\ \A e \in ESets : \A i \in DOMAIN blockGroupMap'[e] :
                \/ /\ e = at /\ i = 1
                   /\ blockGroupMap'[e][i] = [group |-> g, recovered |-> failed[Choose] # {}]
                \/ \E k \in DOMAIN blockGroupMap[e] :
                     /\ k = IF e = at THEN i - 1 ELSE i
                     /\ blockGroupMap'[e][i] = blockGroupMap[e][k]
           /\ g \notin Placed /\ g \in Placed' /\ Placed \subseteq Placed'
           /\ Groups \ Placed' \subseteq Groups \ Placed
<1> DEFINE e0 == Choose
           at == (e0 + 1) % ESetsSize
           entry == [group |-> g, recovered |-> failed[e0] # {}]
<1>1. /\ blockGroupMap' = [blockGroupMap EXCEPT ![at] = <<entry>> \o @]
      /\ site' = [site EXCEPT ![g] = [r \in Rows |-> Node(e0, r)]]
      /\ \A g2 \in Groups : g2 \in Placed <=> g2 < g
  BY DEF RequestPlacement
<1>2. e0 \in ESets /\ ((\E e \in ESets : failed[e] = {}) => failed[e0] = {})
  BY ChosenIsWhole
<1>3. at \in ESets
  <2> HIDE DEF e0
  <2> QED
    BY <1>2, Sizes DEF ESets
<1>4. entry \in MapEntries
  BY DEF MapEntries
<1> HIDE DEF entry, at, e0
<1>5. ASSUME NEW e \in ESets, NEW i \in DOMAIN blockGroupMap'[e]
      PROVE  \/ e = at /\ i = 1 /\ blockGroupMap'[e][i] = entry
             \/ \E k \in DOMAIN blockGroupMap[e] :
                  /\ k = IF e = at THEN i - 1 ELSE i
                  /\ blockGroupMap'[e][i] = blockGroupMap[e][k]
  <2>1. CASE e # at
    <3>1. blockGroupMap'[e] = blockGroupMap[e]
      BY <1>1, <2>1 DEF TypeOK
    <3> QED
      BY <1>5, <2>1, <3>1
  <2>2. CASE e = at
    <3> DEFINE q == blockGroupMap[e]
               p == blockGroupMap'[e]
    <3>1. q \in Seq(MapEntries) /\ p = <<entry>> \o q /\ i \in DOMAIN p
      BY <1>1, <1>3, <2>2, MapTypes DEF MapsTyped, TypeOK
    <3> HIDE DEF p, q
    <3>2. (i = 1 /\ p[i] = entry) \/ (i - 1 \in DOMAIN q /\ p[i] = q[i - 1])
      <4>1. /\ DOMAIN p = 1 .. Len(q) + 1 /\ DOMAIN q = 1 .. Len(q) /\ Len(q) \in Nat
            /\ p[1] = entry /\ \A j \in 2 .. Len(q) + 1 : p[j] = q[j - 1]
        BY <1>4, <3>1
      <4>2. i = 1 \/ (i \in 2 .. Len(q) + 1 /\ i - 1 \in 1 .. Len(q))
        <5>1. i \in 1 .. Len(q) + 1 /\ Len(q) \in Nat
          BY <3>1, <4>1, Zenon
        <5> QED
          BY <5>1, FirstOrLater
      <4> QED
        BY <4>1, <4>2
    <3> QED
      BY <2>2, <3>2 DEF p, q
  <2> QED
    BY <2>1, <2>2
<1>6. [r \in Rows |-> Node(e0, r)] # [r \in Rows |-> NoServer]
  <2>1. Node(e0, 0) # NoServer /\ 0 \in Rows
    BY <1>2, Sizes, NodeIsServer
  <2>2. [r \in Rows |-> Node(e0, r)][0] # [r \in Rows |-> NoServer][0]
    BY <2>1
  <2> QED
    BY <2>2
<1>7. g \notin Placed /\ g \in Placed' /\ \A x \in Groups : x # g => site'[x] = site[x]
  <2>1. g \notin Placed
    BY <1>1 DEF Groups
  <2>2. site'[g] = [r \in Rows |-> Node(e0, r)] /\ \A x \in Groups : x # g => site'[x] = site[x]
    BY <1>1 DEF TypeOK
  <2> QED
    BY <1>6, <2>1, <2>2 DEF Placed
<1>8. Placed \subseteq Placed'
  BY <1>7 DEF Placed
<1>9. failed[at] = {} => failed[Choose] = {}
  BY <1>2, <1>3 DEF e0
<1> QED
  BY <1>3, <1>5, <1>7, <1>8, <1>9 DEF entry, e0

\* The groups of the mappings stand as they were; a flag that changes is set,
\* for the group of the reply, in the ESet of the reply.
LEMMA HandledMaps ==
  ASSUME TypeOK, NEW m \in Cmds, NEW i, NEW cmd \in Cmds, Handled(m, i, cmd)
  PROVE  \A e \in ESets :
           /\ DOMAIN blockGroupMap'[e] = DOMAIN blockGroupMap[e]
           /\ \A k \in DOMAIN blockGroupMap[e] :
                /\ blockGroupMap'[e][k].group = blockGroupMap[e][k].group
                /\ blockGroupMap'[e][k].recovered # blockGroupMap[e][k].recovered =>
                     /\ blockGroupMap'[e][k].recovered /\ blockGroupMap[e][k].group = m.group
                     /\ e = m.eset /\ m.type = "RecoveryBlockOK" /\ recovering[i].cur = m.group
<1> SUFFICES ASSUME NEW e \in ESets
             PROVE  /\ DOMAIN blockGroupMap'[e] = DOMAIN blockGroupMap[e]
                    /\ \A k \in DOMAIN blockGroupMap[e] :
                         /\ blockGroupMap'[e][k].group = blockGroupMap[e][k].group
                         /\ blockGroupMap'[e][k].recovered # blockGroupMap[e][k].recovered =>
                              /\ blockGroupMap'[e][k].recovered /\ blockGroupMap[e][k].group = m.group
                              /\ e = m.eset /\ m.type = "RecoveryBlockOK" /\ recovering[i].cur = m.group
  OBVIOUS
<1>1. blockGroupMap[e] \in Seq(MapEntries)
  BY MapTypes DEF MapsTyped
<1>2. CASE blockGroupMap'[e] = blockGroupMap[e]
  BY <1>2
<1>3. CASE /\ e = m.eset /\ m.type = "RecoveryBlockOK" /\ recovering[i].cur = m.group
           /\ blockGroupMap'[e] = Recovered(blockGroupMap[e], m.group)
  BY <1>1, <1>3, RecoveredKeepsGroups
<1> QED
  BY <1>2, <1>3 DEF Handled, TypeOK

LEMMA MappedStep ==
  ASSUME TypeOK, TypeOK', Conversations, MappedOnce, [Next]_vars
  PROVE  MappedOnce'
<1>1. ASSUME NEW g \in Groups, RequestPlacement(g) PROVE MappedOnce'
  <2>1. PICK at \in ESets :
           /\ \A e \in ESets : \A i \in DOMAIN blockGroupMap'[e] :
                \/ /\ e = at /\ i = 1
                   /\ blockGroupMap'[e][i] = [group |-> g, recovered |-> failed[Choose] # {}]
                \/ \E k \in DOMAIN blockGroupMap[e] :
                     /\ k = IF e = at THEN i - 1 ELSE i
                     /\ blockGroupMap'[e][i] = blockGroupMap[e][k]
           /\ g \notin Placed /\ g \in Placed' /\ Placed \subseteq Placed'
           /\ Groups \ Placed' \subseteq Groups \ Placed
    BY <1>1, RequestMaps
  <2>2. missing' = missing
    BY <1>1 DEF RequestPlacement, flagVars
  <2>3. ASSUME NEW e \in ESets, NEW i \in DOMAIN blockGroupMap'[e]
        PROVE  \/ e = at /\ i = 1 /\ blockGroupMap'[e][i].group = g
               \/ \E k \in DOMAIN blockGroupMap[e] :
                    /\ k = IF e = at THEN i - 1 ELSE i
                    /\ blockGroupMap'[e][i].group = blockGroupMap[e][k].group
                    /\ blockGroupMap'[e][i].group \in Placed
    <3>1. CASE e = at /\ i = 1 /\ blockGroupMap'[e][i] = [group |-> g, recovered |-> failed[Choose] # {}]
      BY <3>1
    <3>2. ASSUME NEW k \in DOMAIN blockGroupMap[e], k = IF e = at THEN i - 1 ELSE i,
                 blockGroupMap'[e][i] = blockGroupMap[e][k]
          PROVE  /\ k = IF e = at THEN i - 1 ELSE i
                 /\ blockGroupMap'[e][i].group = blockGroupMap[e][k].group
                 /\ blockGroupMap'[e][i].group \in Placed
      BY <3>2 DEF MappedOnce
    <3> QED
      BY <2>1, <3>1, <3>2
  <2>4. ASSUME NEW e \in ESets, NEW f \in ESets,
               NEW i \in DOMAIN blockGroupMap'[e], NEW j \in DOMAIN blockGroupMap'[f],
               blockGroupMap'[e][i].group = blockGroupMap'[f][j].group
        PROVE  e = f /\ i = j
    <3>0. i \in Int /\ j \in Int
      <4>1. blockGroupMap'[e] \in Seq(MapEntries) /\ blockGroupMap'[f] \in Seq(MapEntries)
        BY DEF TypeOK, MapEntries
      <4> QED
        BY <4>1
    <3>1. CASE e = at /\ i = 1 /\ blockGroupMap'[e][i].group = g
      BY <2>1, <2>3, <2>4, <3>1
    <3>2. CASE f = at /\ j = 1 /\ blockGroupMap'[f][j].group = g
      BY <2>1, <2>3, <2>4, <3>2
    <3>3. ASSUME NEW k \in DOMAIN blockGroupMap[e], k = IF e = at THEN i - 1 ELSE i,
                 blockGroupMap'[e][i].group = blockGroupMap[e][k].group,
                 NEW l \in DOMAIN blockGroupMap[f], l = IF f = at THEN j - 1 ELSE j,
                 blockGroupMap'[f][j].group = blockGroupMap[f][l].group
          PROVE  e = f /\ i = j
      <4>1. e = f /\ k = l
        <5>1. blockGroupMap[e][k].group = blockGroupMap[f][l].group
          BY <2>4, <3>3
        <5>2. \A k1 \in DOMAIN blockGroupMap[e], l1 \in DOMAIN blockGroupMap[f] :
                blockGroupMap[e][k1].group = blockGroupMap[f][l1].group => e = f /\ k1 = l1
          BY DEF MappedOnce
        <5> QED
          BY <3>3, <5>1, <5>2
      <4> QED
        BY <3>0, <3>3, <4>1
    <3> QED
      BY <2>3, <3>1, <3>2, <3>3
  <2> QED
    BY <2>1, <2>2, <2>3, <2>4 DEF MappedOnce
<1>2. ASSUME NEW s \in Servers, ReportFailedBlockServer(s) PROVE MappedOnce'
  <2>1. /\ blockGroupMap' = blockGroupMap /\ site' = site
        /\ missing' = [g \in Groups |-> IF g \in Marked(FailedESets(s[1], s[2]), s[1])
                                        THEN missing[g] \cup {s[1]} ELSE missing[g]]
    BY <1>2 DEF ReportFailedBlockServer, placeVars
  <2>2. Placed' = Placed
    BY <2>1 DEF Placed
  <2>3. \A g \in Marked(FailedESets(s[1], s[2]), s[1]) : g \in Placed
    BY DEF Marked, MappedOnce, FailedESets
  <2> QED
    BY <2>1, <2>2, <2>3 DEF MappedOnce
<1>3. ASSUME NEW s \in Servers, RecoverESet(s) PROVE MappedOnce'
  <2> DEFINE m == Head(toMeta[s])
             i == ListOf(m.eset)
  <2>1. /\ toMeta[s] # << >> /\ m \in Cmds
        /\ \/ UNCHANGED <<placeVars, flagVars, recovering, toServer>>
           \/ \E cmd \in Cmds : Handled(m, i, cmd)
    BY <1>3, RecoverHandles
  <2>2. CASE UNCHANGED <<placeVars, flagVars, recovering, toServer>>
    BY <2>2 DEF MappedOnce, placeVars, flagVars, Placed
  <2>3. ASSUME NEW cmd \in Cmds, Handled(m, i, cmd) PROVE MappedOnce'
    <3>1. recovering[i].head = s /\ s # NoServer
      <4>1. recovering[ListOf(serving[s])].head = s /\ m.eset = serving[s]
        BY <2>1, <2>3, ReplyInTurn
      <4> QED
        BY <4>1 DEF Servers, NoServer, Rows
    <3> HIDE DEF m, i
    <3>2. recovering[i].row \in Rows
      <4>1. recovering \in Seq(Lists) /\ i \in DOMAIN recovering
        BY <2>3 DEF Handled, TypeOK, Lists
      <4>2. recovering[i] \in Lists
        BY <4>1
      <4> QED
        BY <4>2 DEF Lists
    <3>3. missing' = missing /\ DOMAIN site' = DOMAIN site
      BY <2>3 DEF Handled
    <3>4. ASSUME NEW g \in Placed PROVE g \in Placed'
      <4>1. site'[g] = site[g] \/ site'[g] = [site[g] EXCEPT ![recovering[i].row] = s]
        BY <2>3, <3>1 DEF Handled, TypeOK, Placed
      <4>2. CASE site'[g] = [site[g] EXCEPT ![recovering[i].row] = s]
        <5>1. site[g] \in [Rows -> Servers \cup {NoServer}]
          BY DEF TypeOK, Placed
        <5>2. site'[g][recovering[i].row] = s
          BY <3>2, <4>2, <5>1
        <5>3. site'[g] # [r \in Rows |-> NoServer]
          BY <3>1, <3>2, <5>2
        <5> QED
          BY <5>3 DEF Placed
      <4> QED
        BY <4>1, <4>2 DEF Placed
    <3>5. \A e \in ESets :
           /\ DOMAIN blockGroupMap'[e] = DOMAIN blockGroupMap[e]
           /\ \A k \in DOMAIN blockGroupMap[e] : blockGroupMap'[e][k].group = blockGroupMap[e][k].group
      BY <2>1, <2>3, HandledMaps
    <3> QED
      BY <3>3, <3>4, <3>5 DEF MappedOnce
  <2> QED
    BY <2>1, <2>2, <2>3
<1>4. ASSUME NEW s \in Servers, ProcessMetaCmd(s) \/ ReportBlockDone(s) PROVE MappedOnce'
  BY <1>4 DEF ProcessMetaCmd, ReportBlockDone, MappedOnce, placeVars, flagVars, Placed
<1>5. CASE StartRecoveryESets
  <2>1. UNCHANGED <<placeVars, flagVars>>
    BY <1>5 DEF StartRecoveryESets
  <2> QED
    BY <2>1 DEF MappedOnce, placeVars, flagVars, Placed
<1>6. CASE UNCHANGED vars
  BY <1>6 DEF vars, MappedOnce, placeVars, flagVars, Placed
<1> QED
  BY <1>1, <1>2, <1>3, <1>4, <1>5, <1>6 DEF Next


-----------------------------------------------------------------------------
(* The lists, with one parity block. *)

\* An ESet that loses a node had lost none.
LEMMA LostWereWhole ==
  ASSUME SingleParity, TypeOK, NEW s \in Servers, ReportFailedBlockServer(s),
         NEW e \in FailedESets(s[1], s[2])
  PROVE  e \in ESets /\ failed[e] = {}
<1>1. e \in ESets
  BY DEF FailedESets
<1>2. failed[e] \in SUBSET Rows
  BY <1>1 DEF TypeOK
<1>3. IsFiniteSet(failed[e])
  BY <1>2, Sizes, FS_Subset
<1>4. Cardinality(failed[e]) < 1
  BY DEF ReportFailedBlockServer, WithinTolerance, SingleParity
<1>5. Cardinality(failed[e]) = 0
  BY <1>3, <1>4, FS_CardinalityType
<1> QED
  BY <1>1, <1>3, <1>5, FS_EmptySet

LEMMA ListedReport ==
  ASSUME SingleParity, TypeOK, ListedOnce, NEW s \in Servers, ReportFailedBlockServer(s)
  PROVE  ListedOnce'
<1> DEFINE lost == FailedESets(s[1], s[2])
           number == Cardinality(down) + 1
<1>1. /\ pending \in Seq(Entries) /\ lost \in SUBSET ESets /\ s[1] \in Rows
      /\ recovering \in Seq(Lists)
  BY DEF TypeOK, Entries, Lists, FailedESets, Servers
<1>2. number \in 1 .. MaxFailures
  BY FailuresCount DEF ReportFailedBlockServer, TypeOK
<1>3. /\ pending' = AddAllPending(pending, lost, s[1], number) /\ recovering' = recovering
      /\ failed' = [e \in ESets |-> IF e \in lost THEN failed[e] \cup {s[1]} ELSE failed[e]]
  BY DEF ReportFailedBlockServer
<1>4. \A e \in lost : e \in ESets /\ failed[e] = {}
  BY LostWereWhole
<1> HIDE DEF lost, number
<1>5. /\ \A i \in DOMAIN pending : pending[i].eset \notin lost
      /\ \A i \in DOMAIN recovering : recovering[i].eset \notin lost
  BY <1>4 DEF ListedOnce
<1>6. /\ \A i, j \in DOMAIN pending' : i # j => pending'[i].eset # pending'[j].eset
      /\ \A i \in DOMAIN pending' : \/ \E j \in DOMAIN pending : pending'[i] = pending[j]
                                    \/ pending'[i].eset \in lost /\ pending'[i].row = s[1]
  BY <1>1, <1>2, <1>3, <1>5, AddedToPending DEF ListedOnce
<1>7. /\ \A j \in DOMAIN pending : pending[j].eset \in ESets
      /\ \A j \in DOMAIN recovering : recovering[j].eset \in ESets
  <2>1. /\ \A j \in DOMAIN pending : pending[j] \in Entries
        /\ \A j \in DOMAIN recovering : recovering[j] \in Lists
    BY <1>1
  <2> QED
    BY <2>1 DEF Entries, Lists
<1>8. \A i \in DOMAIN pending' : failed'[pending'[i].eset] = {pending'[i].row}
  BY <1>3, <1>4, <1>5, <1>6, <1>7 DEF ListedOnce
<1>9. \A i \in DOMAIN pending', j \in DOMAIN recovering : pending'[i].eset # recovering[j].eset
  BY <1>5, <1>6 DEF ListedOnce
<1>10. \A i \in DOMAIN recovering : failed'[recovering[i].eset] = {recovering[i].row}
  BY <1>3, <1>5, <1>7 DEF ListedOnce
<1>11. /\ \A i, j \in DOMAIN recovering' : i # j => recovering'[i].eset # recovering'[j].eset
       /\ \A i \in DOMAIN pending', j \in DOMAIN recovering' : pending'[i].eset # recovering'[j].eset
       /\ \A i \in DOMAIN recovering' : failed'[recovering'[i].eset] = {recovering'[i].row}
  <2>1. \A i, j \in DOMAIN recovering : i # j => recovering[i].eset # recovering[j].eset
    BY DEF ListedOnce
  <2> QED
    BY <1>3, <1>9, <1>10, <2>1
<1>12. \A i, j \in DOMAIN pending' : i # j => pending'[i].eset # pending'[j].eset
  BY <1>6
<1> QED
  BY <1>8, <1>11, <1>12 DEF ListedOnce

\* Where the lists in recovery come from after a pass of startRecoveryESets.
LEMMA MovedInFront ==
  ASSUME recovering \in Seq(Lists), NEW lists \in Seq(Lists),
         recovering' = Reverse(lists) \o recovering
  PROVE  \A i \in DOMAIN recovering' :
           \/ \E k \in DOMAIN lists : k + i = Len(lists) + 1 /\ i <= Len(lists) /\ recovering'[i] = lists[k]
           \/ \E k \in DOMAIN recovering : i = Len(lists) + k /\ recovering'[i] = recovering[k]
<1> SUFFICES ASSUME NEW i \in DOMAIN recovering'
             PROVE  \/ \E k \in DOMAIN lists : k + i = Len(lists) + 1 /\ i <= Len(lists) /\ recovering'[i] = lists[k]
                    \/ \E k \in DOMAIN recovering : i = Len(lists) + k /\ recovering'[i] = recovering[k]
  OBVIOUS
<1> DEFINE new == Reverse(lists)
           n == Len(lists)
<1>1. new \in Seq(Lists) /\ Len(new) = n /\ \A j \in 1 .. n : new[j] = lists[(n - j) + 1]
  BY ReverseIsSeq
<1>2. recovering' = new \o recovering /\ n \in Nat /\ DOMAIN lists = 1 .. n
  OBVIOUS
<1> HIDE DEF new, n
<1>3. /\ DOMAIN recovering' = 1 .. n + Len(recovering) /\ Len(recovering) \in Nat
      /\ DOMAIN recovering = 1 .. Len(recovering)
      /\ \A j \in 1 .. n : recovering'[j] = new[j]
      /\ \A j \in 1 .. Len(recovering) : recovering'[n + j] = recovering[j]
  <2>1. new \in Seq(Lists) /\ recovering' = new \o recovering /\ n = Len(new)
    BY <1>1, <1>2
  <2>2. recovering \in Seq(Lists)
    OBVIOUS
  <2>3. /\ DOMAIN recovering' = 1 .. Len(new) + Len(recovering) /\ Len(recovering) \in Nat
        /\ DOMAIN recovering = 1 .. Len(recovering) /\ Len(new) \in Nat
    BY <2>1, <2>2
  <2>4. \A j \in 1 .. Len(new) : recovering'[j] = new[j]
    BY <2>1, <2>2
  <2>5. \A j \in 1 .. Len(recovering) : recovering'[Len(new) + j] = recovering[j]
    BY <2>1, <2>2
  <2> QED
    BY <2>1, <2>3, <2>4, <2>5
<1>4. CASE i <= n
  <2>1. i \in 1 .. n /\ (n - i) + 1 \in 1 .. n /\ ((n - i) + 1) + i = n + 1
    BY <1>2, <1>3, <1>4
  <2>2. recovering'[i] = lists[(n - i) + 1]
    BY <1>1, <1>3, <2>1
  <2> QED
    BY <1>2, <1>4, <2>1, <2>2 DEF n
<1>5. CASE ~(i <= n)
  <2>1. i - n \in 1 .. Len(recovering) /\ i = n + (i - n)
    BY <1>2, <1>3, <1>5
  <2> QED
    BY <1>3, <2>1 DEF n
<1> QED
  BY <1>4, <1>5

LEMMA ListedStart ==
  ASSUME TypeOK, ListedOnce, StartRecoveryESets
  PROVE  ListedOnce'
<1>0. /\ recovering \in Seq(Lists) /\ pending \in Seq(Entries) /\ failed' = failed
  BY DEF TypeOK, Lists, Entries, StartRecoveryESets
<1>1. pending' \in Seq(Entries) /\ \E lists \in Seq(Lists) :
        \E at \in [DOMAIN lists -> DOMAIN pending], to \in [DOMAIN pending' -> DOMAIN pending] :
          Started(lists, at, to)
  BY StartMovesLists
<1>2. PICK lists \in Seq(Lists) :
        \E at \in [DOMAIN lists -> DOMAIN pending], to \in [DOMAIN pending' -> DOMAIN pending] :
          Started(lists, at, to)
  BY <1>1
<1>3. PICK at \in [DOMAIN lists -> DOMAIN pending], to \in [DOMAIN pending' -> DOMAIN pending] :
        Started(lists, at, to)
  BY <1>2
<1>4. /\ recovering' = Reverse(lists) \o recovering
      /\ \A i \in DOMAIN lists : lists[i].eset = pending[at[i]].eset /\ lists[i].row = pending[at[i]].row
      /\ \A i, j \in DOMAIN lists : i < j => at[i] < at[j]
      /\ \A i \in DOMAIN pending' : pending'[i] = pending[to[i]]
      /\ \A i, j \in DOMAIN pending' : i < j => to[i] < to[j]
      /\ \A i \in DOMAIN lists, j \in DOMAIN pending' : at[i] # to[j]
  BY <1>3 DEF Started
<1>5. /\ DOMAIN pending \subseteq Int /\ DOMAIN pending' \subseteq Int /\ DOMAIN lists \subseteq Int
      /\ Len(lists) \in Nat /\ DOMAIN recovering \subseteq Int
  <2>1. /\ DOMAIN pending = 1 .. Len(pending) /\ DOMAIN pending' = 1 .. Len(pending')
        /\ DOMAIN lists = 1 .. Len(lists) /\ DOMAIN recovering = 1 .. Len(recovering)
        /\ Len(lists) \in Nat
    BY <1>0, <1>1
  <2> QED
    BY <2>1
<1>6. \A i, j \in DOMAIN lists : i # j => at[i] # at[j]
  <2> SUFFICES ASSUME NEW i \in DOMAIN lists, NEW j \in DOMAIN lists, i # j PROVE at[i] # at[j]
    OBVIOUS
  <2>1. i \in Int /\ j \in Int /\ at[i] \in Int /\ at[j] \in Int
    BY <1>5
  <2>2. (i < j => at[i] < at[j]) /\ (j < i => at[j] < at[i])
    BY <1>4
  <2> QED
    BY <2>1, <2>2
<1>7. \A i, j \in DOMAIN pending' : i # j => to[i] # to[j]
  <2> SUFFICES ASSUME NEW i \in DOMAIN pending', NEW j \in DOMAIN pending', i # j PROVE to[i] # to[j]
    OBVIOUS
  <2>1. i \in Int /\ j \in Int /\ to[i] \in Int /\ to[j] \in Int
    BY <1>5
  <2>2. (i < j => to[i] < to[j]) /\ (j < i => to[j] < to[i])
    BY <1>4
  <2> QED
    BY <2>1, <2>2
<1>8. \A i \in DOMAIN recovering' :
        \/ \E k \in DOMAIN lists : k + i = Len(lists) + 1 /\ i <= Len(lists) /\ recovering'[i] = lists[k]
        \/ \E k \in DOMAIN recovering : i = Len(lists) + k /\ recovering'[i] = recovering[k]
  BY <1>0, <1>4, MovedInFront
<1>9. DOMAIN recovering' \subseteq Int
  <2>1. Reverse(lists) \in Seq(Lists)
    BY ReverseIsSeq
  <2>2. recovering' \in Seq(Lists)
    BY <1>0, <1>4, <2>1
  <2> QED
    BY <2>2
<1>10. \A i, j \in DOMAIN pending' : i # j => pending'[i].eset # pending'[j].eset
  BY <1>4, <1>7 DEF ListedOnce
<1>11. \A i, j \in DOMAIN recovering' : i # j => recovering'[i].eset # recovering'[j].eset
  <2> SUFFICES ASSUME NEW i \in DOMAIN recovering', NEW j \in DOMAIN recovering', i # j
               PROVE  recovering'[i].eset # recovering'[j].eset
    OBVIOUS
  <2>1. i \in Int /\ j \in Int
    BY <1>9
  <2>2. \A k, l \in DOMAIN lists : k # l => lists[k].eset # lists[l].eset
    BY <1>4, <1>6 DEF ListedOnce
  <2>3. \A k \in DOMAIN lists, l \in DOMAIN recovering : lists[k].eset # recovering[l].eset
    BY <1>4 DEF ListedOnce
  <2>4. \A k, l \in DOMAIN recovering : k # l => recovering[k].eset # recovering[l].eset
    BY DEF ListedOnce
  <2>5. ASSUME NEW k \in DOMAIN lists, k + i = Len(lists) + 1, recovering'[i] = lists[k],
               NEW l \in DOMAIN lists, l + j = Len(lists) + 1, recovering'[j] = lists[l]
        PROVE  recovering'[i].eset # recovering'[j].eset
    <3>1. k # l
      BY <1>5, <2>1, <2>5
    <3> QED
      BY <2>2, <2>5, <3>1
  <2>6. ASSUME NEW k \in DOMAIN recovering, i = Len(lists) + k, recovering'[i] = recovering[k],
               NEW l \in DOMAIN recovering, j = Len(lists) + l, recovering'[j] = recovering[l]
        PROVE  recovering'[i].eset # recovering'[j].eset
    BY <2>4, <2>6
  <2> QED
    BY <1>8, <2>3, <2>5, <2>6
<1>12. \A i \in DOMAIN pending', j \in DOMAIN recovering' : pending'[i].eset # recovering'[j].eset
  BY <1>4, <1>8 DEF ListedOnce
<1>13. /\ \A i \in DOMAIN pending' : failed[pending'[i].eset] = {pending'[i].row}
       /\ \A i \in DOMAIN recovering' : failed[recovering'[i].eset] = {recovering'[i].row}
  <2>1. /\ \A i \in DOMAIN pending : failed[pending[i].eset] = {pending[i].row}
        /\ \A i \in DOMAIN recovering : failed[recovering[i].eset] = {recovering[i].row}
    BY DEF ListedOnce
  <2>2. \A i \in DOMAIN lists : failed[lists[i].eset] = {lists[i].row}
    BY <1>4, <2>1
  <2>3. \A i \in DOMAIN pending' : failed[pending'[i].eset] = {pending'[i].row}
    <3> TAKE i \in DOMAIN pending'
    <3>1. to[i] \in DOMAIN pending /\ pending'[i] = pending[to[i]]
      BY <1>4
    <3> QED
      BY <2>1, <3>1
  <2>4. \A i \in DOMAIN recovering' : failed[recovering'[i].eset] = {recovering'[i].row}
    <3> TAKE i \in DOMAIN recovering'
    <3>1. \/ \E k \in DOMAIN lists : recovering'[i] = lists[k]
          \/ \E k \in DOMAIN recovering : recovering'[i] = recovering[k]
      BY <1>8
    <3> QED
      BY <2>1, <2>2, <3>1
  <2> QED
    BY <2>3, <2>4
<1> QED
  BY <1>0, <1>10, <1>11, <1>12, <1>13 DEF ListedOnce

LEMMA ListedStep ==
  ASSUME SingleParity, TypeOK, ListedOnce, [Next]_vars
  PROVE  ListedOnce'
<1>1. ASSUME NEW s \in Servers, ReportFailedBlockServer(s) PROVE ListedOnce'
  BY <1>1, ListedReport
<1>2. CASE StartRecoveryESets
  BY <1>2, ListedStart
<1>3. ASSUME NEW s \in Servers, RecoverESet(s) PROVE ListedOnce'
  <2>1. UNCHANGED <<failed, pending>>
    BY <1>3 DEF RecoverESet, failVars
  <2>2. /\ DOMAIN recovering' = DOMAIN recovering
        /\ \A i \in DOMAIN recovering : /\ recovering'[i].eset = recovering[i].eset
                                        /\ recovering'[i].row = recovering[i].row
    <3>1. recovering' = recovering
          \/ \E cmd \in Cmds : Handled(Head(toMeta[s]), ListOf(Head(toMeta[s]).eset), cmd)
      BY <1>3, RecoverHandles
    <3>2. ASSUME NEW cmd \in Cmds, NEW i \in DOMAIN recovering,
                 recovering' = [recovering EXCEPT ![i].cur = cmd.group]
          PROVE  /\ DOMAIN recovering' = DOMAIN recovering
                 /\ \A j \in DOMAIN recovering : /\ recovering'[j].eset = recovering[j].eset
                                                 /\ recovering'[j].row = recovering[j].row
      <4>1. recovering \in Seq(Lists)
        BY DEF TypeOK, Lists
      <4>2. \A j \in DOMAIN recovering : recovering[j] \in Lists
        BY <4>1
      <4>3. DOMAIN recovering' = DOMAIN recovering
            /\ \A j \in DOMAIN recovering : recovering'[j] = IF j = i THEN [recovering[j] EXCEPT !.cur = cmd.group]
                                                                      ELSE recovering[j]
        BY <3>2
      <4> QED
        BY <4>2, <4>3 DEF Lists
    <3> QED
      BY <3>1, <3>2 DEF Handled
  <2> QED
    BY <2>1, <2>2 DEF ListedOnce
<1>4. ASSUME NEW s \in Servers, ProcessMetaCmd(s) \/ ReportBlockDone(s) PROVE ListedOnce'
  <2>1. UNCHANGED <<failed, pending, recovering>>
    BY <1>4 DEF ProcessMetaCmd, ReportBlockDone, failVars
  <2> QED
    BY <2>1 DEF ListedOnce
<1>5. ASSUME NEW g \in Groups, RequestPlacement(g) PROVE ListedOnce'
  BY <1>5 DEF RequestPlacement, failVars, ListedOnce
<1>6. CASE UNCHANGED vars
  BY <1>6 DEF vars, failVars, ListedOnce
<1> QED
  BY <1>1, <1>2, <1>3, <1>4, <1>5, <1>6 DEF Next

-----------------------------------------------------------------------------
(* What an ESet waits for, with one parity block. *)

\* The list of an ESet that has a head node.
LEMMA HeadHasList ==
  ASSUME TypeOK, NEW e, NEW s, HeadOf(e, s)
  PROVE  ListOf(e) \in DOMAIN recovering /\ recovering[ListOf(e)].eset = e
         /\ recovering[ListOf(e)].head = s
<1>1. recovering \in Seq(Lists)
  BY DEF TypeOK, Lists
<1> QED
  BY <1>1, ListOfIsFirst DEF HeadOf

\* A server whose connection and tasks are left alone, and whose ESets wait for
\* what they waited for.
LEMMA ExpectationStays ==
  ASSUME TypeOK, NEW s \in Servers, s \notin down, Conversation(s), Expected(s), Unbegun(s),
         toServer'[s] = toServer[s], toMeta'[s] = toMeta[s],
         serving'[s] = serving[s], task'[s] = task[s],
         \A e \in ESets : HeadOf(e, s) => Cur(e)' = Cur(e)
  PROVE  Expected(s)' /\ Unbegun(s)'
<1>1. /\ toServer[s] \in Seq(Cmds) /\ serving[s] \in ESets \cup {NoESet}
      /\ \A j \in DOMAIN toServer[s] : toServer[s][j].eset \in ESets
  <2>1. toServer[s] \in Seq(Cmds) /\ serving[s] \in ESets \cup {NoESet}
    BY DEF TypeOK
  <2>2. \A j \in DOMAIN toServer[s] : toServer[s][j] \in Cmds
    BY <2>1
  <2> QED
    BY <2>1, <2>2 DEF Cmds
<1>2. Tasks(s)' = Tasks(s) /\ Answers(s)' = Answers(s)
  BY DEF Tasks, Answers
<1>3. Expected(s)'
  <2>1. CASE serving[s] = NoESet
    <3>1. Tasks(s)' = {} /\ Answers(s)' = {} /\ task'[s] = NoGroup
      BY <1>2, <2>1 DEF Conversation
    <3> QED
      BY <3>1 DEF Expected
  <2>2. CASE serving[s] # NoESet
    <3>1. PICK e \in ESets : e = serving[s]
      BY <1>1, <2>2
    <3>2. HeadOf(e, s)
      BY <2>2, <3>1 DEF Conversation
    <3>3. Cur(e)' = Cur(e)
      BY <3>2
    <3>4. Cur(serving[s])' = Cur(serving[s])
      <4>1. Cur(serving[s])' = Cur(e)' /\ Cur(serving[s]) = Cur(e)
        BY <3>1 DEF Cur, ListOf, SelectInSeq
      <4> QED
        BY <3>3, <4>1
    <3> QED
      BY <1>2, <3>4 DEF Expected, Tasks, Answers
  <2> QED
    BY <2>1, <2>2
<1>4. Unbegun(s)'
  <2>1. ASSUME NEW j \in DOMAIN toServer[s], toServer[s][j].type = "RecoveryNodes"
        PROVE  Cur(toServer[s][j].eset)' = NoGroup
    <3>1. PICK e \in ESets : e = toServer[s][j].eset
      BY <1>1
    <3>2. HeadOf(e, s) /\ Cur(e) = NoGroup
      BY <2>1, <3>1 DEF Conversation, Unbegun
    <3>3. Cur(e)' = NoGroup
      BY <3>2
    <3> QED
      BY <3>1, <3>3 DEF Cur, ListOf, SelectInSeq
  <2> QED
    BY <2>1 DEF Unbegun
<1> QED
  BY <1>3, <1>4

\* A pass of startRecoveryESets begins ESets that nobody works on.
LEMMA StartBegins ==
  ASSUME TypeOK, TypeOK', ListedOnce, StartRecoveryESets, NEW s \in Servers
  PROVE  /\ \A e \in ESets : ListOf(e) # 0 => Cur(e)' = Cur(e)
         /\ \A j \in DOMAIN toServer[s] : j \in DOMAIN toServer'[s] /\ toServer'[s][j] = toServer[s][j]
         /\ \A j \in DOMAIN toServer'[s] : j \notin DOMAIN toServer[s] =>
              /\ toServer'[s][j].type = "RecoveryNodes" /\ Cur(toServer[s][j].eset)' = NoGroup
              /\ ListOf(toServer'[s][j].eset) = 0
         /\ \A j, k \in DOMAIN toServer'[s] : j \notin DOMAIN toServer[s] /\ k \notin DOMAIN toServer[s]
              /\ toServer'[s][j].eset = toServer'[s][k].eset => j = k
<1>0. toServer \in [Servers -> Seq(Cmds)] /\ toServer' \in [Servers -> Seq(Cmds)]
      /\ recovering \in Seq(Lists) /\ pending \in Seq(Entries)
  BY DEF TypeOK, Lists, Entries
<1>1. PICK lists \in Seq(Lists) :
        \E at \in [DOMAIN lists -> DOMAIN pending], to \in [DOMAIN pending' -> DOMAIN pending] :
          Started(lists, at, to)
  BY StartMovesLists
<1>2. PICK at \in [DOMAIN lists -> DOMAIN pending] :
        \E to \in [DOMAIN pending' -> DOMAIN pending] : Started(lists, at, to)
  BY <1>1
<1>3. recovering' = Reverse(lists) \o recovering /\ toServer' = FoldLeft(SendRecoveryNodes, toServer, lists)
  BY <1>2 DEF Started
<1>4. \A i \in DOMAIN lists : lists[i].eset = pending[at[i]].eset /\ lists[i].cur = NoGroup
  BY <1>2 DEF Started
<1>5. \A i, j \in DOMAIN lists : i < j => at[i] < at[j]
  BY <1>2 DEF Started
<1>6. \A i, j \in DOMAIN lists : i # j => lists[i].eset # lists[j].eset
  <2> SUFFICES ASSUME NEW i \in DOMAIN lists, NEW j \in DOMAIN lists, i # j
               PROVE  lists[i].eset # lists[j].eset
    OBVIOUS
  <2>1. i \in Int /\ j \in Int /\ at[i] \in Int /\ at[j] \in Int
    <3>1. DOMAIN lists = 1 .. Len(lists) /\ DOMAIN pending = 1 .. Len(pending)
      BY <1>0
    <3> QED
      BY <3>1
  <2>2. (i < j => at[i] < at[j]) /\ (j < i => at[j] < at[i])
    BY <1>5
  <2>3. at[i] # at[j]
    BY <2>1, <2>2
  <2> QED
    BY <1>4, <2>3 DEF ListedOnce
<1>7. \A i \in DOMAIN lists : lists[i].eset \in ESets /\ ListOf(lists[i].eset) = 0
  <2> TAKE i \in DOMAIN lists
  <2>1. lists[i] \in Lists
    OBVIOUS
  <2>2. \A k \in DOMAIN recovering : recovering[k].eset # lists[i].eset
    BY <1>4 DEF ListedOnce
  <2>3. ListOf(lists[i].eset) = 0
    BY <1>0, <2>2, ListOfIsFirst
  <2> QED
    BY <2>1, <2>3 DEF Lists
<1> DEFINE new == Reverse(lists)
<1>8. /\ new \in Seq(Lists) /\ DOMAIN new = 1 .. Len(lists)
      /\ \A i \in DOMAIN new : \E k \in DOMAIN lists : new[i] = lists[k]
      /\ \A k \in DOMAIN lists : \E i \in DOMAIN new : new[i] = lists[k]
  <2>1. new \in Seq(Lists) /\ DOMAIN new = 1 .. Len(lists)
        /\ \A i \in 1 .. Len(lists) : new[i] = lists[(Len(lists) - i) + 1]
    BY ReverseIsSeq
  <2>2. DOMAIN lists = 1 .. Len(lists) /\ Len(lists) \in Nat
    OBVIOUS
  <2> HIDE DEF new
  <2>3. \A k \in 1 .. Len(lists) : (Len(lists) - k) + 1 \in 1 .. Len(lists)
                                   /\ (Len(lists) - ((Len(lists) - k) + 1)) + 1 = k
    BY <2>2
  <2> QED
    BY <2>1, <2>2, <2>3
<1>9. recovering' = new \o recovering
  BY <1>3
<1> HIDE DEF new
<1>10. ASSUME NEW e \in ESets, ListOf(e) # 0 PROVE Cur(e)' = Cur(e)
  <2>1. \A i \in DOMAIN new : new[i].eset # e
    BY <1>7, <1>8, <1>10
  <2>2. recovering'[ListOf(e)'] = recovering[ListOf(e)]
    BY <1>0, <1>8, <1>9, <1>10, <2>1, ListOfInFront
  <2> QED
    BY <2>2 DEF Cur
<1>11. ASSUME NEW k \in DOMAIN lists, NEW e \in ESets, e = lists[k].eset PROVE Cur(e)' = NoGroup
  <2>1. PICK i \in DOMAIN new : new[i].eset = e
    BY <1>8, <1>11
  <2>0. new \in Seq(Lists) /\ recovering \in Seq(Lists)
    BY <1>0, <1>8
  <2>2. ListOf(e)' \in DOMAIN new /\ recovering'[ListOf(e)'] = new[ListOf(e)']
    BY <1>9, <2>0, <2>1, ListOfInFront
  <2>4. \A l \in DOMAIN new : new[l].cur = NoGroup
    <3> TAKE l \in DOMAIN new
    <3>1. PICK o \in DOMAIN lists : new[l] = lists[o]
      BY <1>8
    <3> QED
      BY <1>4, <3>1
  <2>3. recovering'[ListOf(e)'].cur = NoGroup
    BY <2>2, <2>4
  <2> QED
    BY <2>3 DEF Cur
<1> DEFINE b == Len(toServer[s])
           n == Len(toServer'[s])
<1>12. /\ n >= b /\ \A j \in 1 .. b : toServer'[s][j] = toServer[s][j]
       /\ \E sent \in [b + 1 .. n -> DOMAIN lists] :
            /\ \A j \in b + 1 .. n : toServer'[s][j] = Cmd("RecoveryNodes", lists[sent[j]].eset, NoGroup)
            /\ \A j, k \in b + 1 .. n : j < k => sent[j] < sent[k]
  <2>1. SentTo(s, toServer[s], toServer'[s], lists)
    BY <1>0, <1>3, SentForLists
  <2> QED
    BY <2>1 DEF SentTo
<1>13. b \in Nat /\ n \in Nat /\ DOMAIN toServer[s] = 1 .. b /\ DOMAIN toServer'[s] = 1 .. n
  BY <1>0
<1> HIDE DEF b, n
<1>14. PICK sent \in [b + 1 .. n -> DOMAIN lists] :
            /\ \A j \in b + 1 .. n : toServer'[s][j] = Cmd("RecoveryNodes", lists[sent[j]].eset, NoGroup)
            /\ \A j, k \in b + 1 .. n : j < k => sent[j] < sent[k]
  BY <1>12
<1>15. \A j \in 1 .. n : j \notin 1 .. b => j \in b + 1 .. n
  BY <1>12, <1>13
<1>16. ASSUME NEW j \in 1 .. n, j \notin 1 .. b
       PROVE  /\ toServer'[s][j].type = "RecoveryNodes" /\ Cur(toServer[s][j].eset)' = NoGroup
              /\ ListOf(toServer'[s][j].eset) = 0 /\ toServer'[s][j].eset = lists[sent[j]].eset
  <2>1. j \in b + 1 .. n
    BY <1>15, <1>16
  <2>2. sent[j] \in DOMAIN lists /\ toServer'[s][j] = Cmd("RecoveryNodes", lists[sent[j]].eset, NoGroup)
    BY <1>14, <2>1
  <2>3. toServer'[s][j].type = "RecoveryNodes" /\ toServer'[s][j].eset = lists[sent[j]].eset
    BY <2>2 DEF Cmd
  <2>4. PICK e \in ESets : e = lists[sent[j]].eset
    BY <1>7, <2>2
  <2>5. Cur(e)' = NoGroup
    BY <1>11, <2>2, <2>4
  <2>6. Cur(toServer[s][j].eset)' = NoGroup
    BY <2>3, <2>4, <2>5 DEF Cur, ListOf
  <2> QED
    BY <1>7, <2>2, <2>3, <2>6
<1>17. ASSUME NEW j \in 1 .. n, NEW k \in 1 .. n, j \notin 1 .. b, k \notin 1 .. b,
              toServer'[s][j].eset = toServer'[s][k].eset
       PROVE  j = k
  <2>1. j \in b + 1 .. n /\ k \in b + 1 .. n /\ j \in Int /\ k \in Int
    BY <1>13, <1>15, <1>17
  <2>2. sent[j] \in DOMAIN lists /\ sent[k] \in DOMAIN lists
    BY <2>1
  <2>3. sent[j] = sent[k]
    BY <1>6, <1>16, <1>17, <2>2
  <2>4. sent[j] \in Int
    BY <2>2
  <2>5. (j < k => sent[j] < sent[k]) /\ (k < j => sent[k] < sent[j])
    BY <1>14, <2>1
  <2> QED
    BY <2>1, <2>3, <2>4, <2>5
<1>18. \A j \in DOMAIN toServer[s] : j \in DOMAIN toServer'[s]
  BY <1>12, <1>13
<1> QED
  BY <1>10, <1>12, <1>13, <1>16, <1>17, <1>18

LEMMA ExpectedStart ==
  ASSUME TypeOK, TypeOK', Conversations, ListedOnce, StartRecoveryESets,
         NEW s \in Servers, s \notin down, Expected(s), Unbegun(s)
  PROVE  Expected(s)' /\ Unbegun(s)'
<1>1. /\ \A e \in ESets : ListOf(e) # 0 => Cur(e)' = Cur(e)
      /\ \A j \in DOMAIN toServer[s] : j \in DOMAIN toServer'[s] /\ toServer'[s][j] = toServer[s][j]
  BY StartBegins
<1>2. \A j \in DOMAIN toServer'[s] : j \notin DOMAIN toServer[s] =>
         /\ toServer'[s][j].type = "RecoveryNodes" /\ Cur(toServer[s][j].eset)' = NoGroup
         /\ ListOf(toServer'[s][j].eset) = 0
  BY StartBegins
<1>3. \A j, k \in DOMAIN toServer'[s] : j \notin DOMAIN toServer[s] /\ k \notin DOMAIN toServer[s]
         /\ toServer'[s][j].eset = toServer'[s][k].eset => j = k
  BY StartBegins
<1>4. UNCHANGED <<toMeta, serving, task>> /\ Conversation(s)
  BY DEF StartRecoveryESets, headVars, Conversations
<1>5. Tasks(s)' = Tasks(s) /\ Answers(s)' = Answers(s)
  <2>1. \A j \in DOMAIN toServer'[s] : toServer'[s][j].type # "RecoveryNodes" => j \in DOMAIN toServer[s]
    BY <1>2
  <2> QED
    BY <1>1, <1>4, <2>1 DEF Tasks, Answers
<1>6. /\ serving[s] \in ESets \cup {NoESet}
      /\ \A j \in DOMAIN toServer[s] : toServer[s][j].eset \in ESets
      /\ \A j \in DOMAIN toServer'[s] : toServer'[s][j].eset \in ESets
  <2>1. /\ toServer[s] \in Seq(Cmds) /\ toServer'[s] \in Seq(Cmds) /\ serving[s] \in ESets \cup {NoESet}
    BY DEF TypeOK
  <2>2. /\ \A j \in DOMAIN toServer[s] : toServer[s][j] \in Cmds
        /\ \A j \in DOMAIN toServer'[s] : toServer'[s][j] \in Cmds
    BY <2>1
  <2> QED
    BY <2>1, <2>2 DEF Cmds
<1>7. serving[s] # NoESet => ListOf(serving[s]) # 0
  BY <1>4 DEF Conversation, HeadOf
<1>8. Expected(s)'
  <2>1. CASE serving[s] = NoESet
    <3>1. Tasks(s)' = {} /\ Answers(s)' = {} /\ task'[s] = NoGroup
      BY <1>4, <1>5, <2>1 DEF Conversation
    <3> QED
      BY <3>1 DEF Expected
  <2>2. CASE serving[s] # NoESet
    <3>1. PICK e \in ESets : e = serving[s]
      BY <1>6, <2>2
    <3>2. Cur(e)' = Cur(e)
      BY <1>1, <1>7, <2>2, <3>1
    <3>3. Cur(serving[s])' = Cur(serving[s])
      <4>1. Cur(serving[s])' = Cur(e)' /\ Cur(serving[s]) = Cur(e)
        BY <1>4, <3>1 DEF Cur, ListOf, SelectInSeq
      <4> QED
        BY <3>2, <4>1
    <3>4. /\ \A j \in Tasks(s) : toServer'[s][j] = toServer[s][j]
          /\ \A j \in Answers(s) : toMeta'[s][j] = toMeta[s][j]
      BY <1>1, <1>4 DEF Tasks
    <3> QED
      BY <1>4, <1>5, <3>3, <3>4 DEF Expected
  <2> QED
    BY <2>1, <2>2
<1>9. Unbegun(s)'
  <2> SUFFICES ASSUME NEW j \in DOMAIN toServer'[s], toServer'[s][j].type = "RecoveryNodes"
               PROVE  /\ Cur(toServer[s][j].eset)' = NoGroup /\ serving'[s] # toServer'[s][j].eset
                      /\ \A k \in DOMAIN toServer'[s] :
                           toServer'[s][k].type = "RecoveryNodes"
                             /\ toServer'[s][k].eset = toServer'[s][j].eset => j = k
    BY DEF Unbegun
  <2>1. \A k \in DOMAIN toServer[s] : toServer[s][k].type = "RecoveryNodes" =>
            ListOf(toServer[s][k].eset) # 0
    BY <1>4 DEF Conversation, HeadOf
  <2>2. CASE j \in DOMAIN toServer[s]
    <3>1. toServer'[s][j] = toServer[s][j]
      BY <1>1, <2>2
    <3>2. PICK e \in ESets : e = toServer[s][j].eset
      BY <1>6, <2>2
    <3>3. Cur(e) = NoGroup /\ serving[s] # e
          /\ \A k \in DOMAIN toServer[s] :
               toServer[s][k].type = "RecoveryNodes" /\ toServer[s][k].eset = e => j = k
      BY <2>2, <3>1, <3>2 DEF Unbegun
    <3>4. ListOf(e) # 0
      BY <2>1, <2>2, <3>1, <3>2
    <3>5. Cur(e)' = NoGroup
      BY <1>1, <3>3, <3>4
    <3>6. Cur(toServer[s][j].eset)' = NoGroup
      BY <3>1, <3>2, <3>5 DEF Cur, ListOf, SelectInSeq
    <3>7. ASSUME NEW k \in DOMAIN toServer'[s], toServer'[s][k].type = "RecoveryNodes",
                 toServer'[s][k].eset = e
          PROVE  j = k
      <4>1. k \in DOMAIN toServer[s]
        BY <1>2, <3>4, <3>7
      <4> QED
        BY <1>1, <3>3, <3>7, <4>1
    <3> QED
      BY <1>4, <3>1, <3>2, <3>3, <3>6, <3>7
  <2>3. CASE j \notin DOMAIN toServer[s]
    <3>1. Cur(toServer[s][j].eset)' = NoGroup /\ ListOf(toServer'[s][j].eset) = 0
      BY <1>2, <2>3
    <3>2. serving'[s] # toServer'[s][j].eset
      BY <1>4, <1>6, <1>7, <3>1 DEF NoESet, ESets
    <3>3. ASSUME NEW k \in DOMAIN toServer'[s], toServer'[s][k].type = "RecoveryNodes",
                 toServer'[s][k].eset = toServer'[s][j].eset
          PROVE  j = k
      <4>1. k \notin DOMAIN toServer[s]
        BY <1>1, <2>1, <3>1, <3>3
      <4> QED
        BY <1>3, <2>3, <3>3, <4>1
    <3> QED
      BY <3>1, <3>2, <3>3
  <2> QED
    BY <2>2, <2>3
<1> QED
  BY <1>8, <1>9

\* recoverESet goes on with another ESet.
LEMMA OtherRecovers ==
  ASSUME TypeOK, TypeOK', Conversations, NEW x \in Servers, RecoverESet(x), NEW s \in Servers, s # x,
         NEW e \in ESets, HeadOf(e, s)
  PROVE  Cur(e)' = Cur(e)
<1> DEFINE m == Head(toMeta[x])
<1>0. recovering \in Seq(Lists) /\ recovering' \in Seq(Lists)
  BY DEF TypeOK, Lists
<1>1. toMeta[x] # << >> /\ (recovering' = recovering \/ \E cmd \in Cmds : Handled(m, ListOf(m.eset), cmd))
  BY RecoverHandles
<1>2. CASE recovering' = recovering
  BY <1>2 DEF Cur, ListOf, SelectInSeq
<1>3. ASSUME NEW cmd \in Cmds, Handled(m, ListOf(m.eset), cmd), recovering' # recovering
      PROVE  Cur(e)' = Cur(e)
  <2> DEFINE i == ListOf(m.eset)
  <2>1. recovering[ListOf(serving[x])].head = x /\ m.eset = serving[x]
    BY <1>1, <1>3, ReplyInTurn
  <2>2. i \in DOMAIN recovering /\ recovering' = [recovering EXCEPT ![i].cur = cmd.group]
    BY <1>3 DEF Handled
  <2>3. recovering[i].head = x
    BY <2>1
  <2> HIDE DEF i, m
  <2>4. /\ DOMAIN recovering' = DOMAIN recovering
        /\ \A j \in DOMAIN recovering : recovering'[j] = IF j = i THEN [recovering[j] EXCEPT !.cur = cmd.group]
                                                                  ELSE recovering[j]
    BY <2>2
  <2>5. \A j \in DOMAIN recovering : recovering[j] \in Lists
    BY <1>0
  <2>6. \A j \in DOMAIN recovering : recovering'[j].eset = recovering[j].eset
    BY <2>4, <2>5 DEF Lists
  <2>7. ListOf(e)' = ListOf(e)
    BY <1>0, <2>4, <2>6, ListOfStays
  <2>8. ListOf(e) \in DOMAIN recovering /\ recovering[ListOf(e)].head = s
    BY HeadHasList
  <2> QED
    BY <2>3, <2>4, <2>7, <2>8 DEF Cur
<1> QED
  BY <1>1, <1>2, <1>3

LEMMA ExpectedRecover ==
  ASSUME TypeOK, TypeOK', Conversations, NEW s \in Servers, RecoverESet(s),
         s \notin down, Expected(s), Unbegun(s)
  PROVE  Expected(s)' /\ Unbegun(s)'
<1> DEFINE m == Head(toMeta[s])
<1>1. /\ toMeta[s] # << >> /\ toMeta' = [toMeta EXCEPT ![s] = Tail(@)] /\ m \in Cmds
      /\ UNCHANGED headVars
      /\ \/ UNCHANGED <<placeVars, flagVars, recovering, toServer>>
         \/ \E cmd \in Cmds : Handled(m, ListOf(m.eset), cmd)
  BY RecoverHandles
<1>2. Conversation(s) /\ serving' = serving /\ task' = task
  BY <1>1 DEF Conversations, headVars
<1>3. /\ toMeta'[s] = Tail(toMeta[s]) /\ toMeta[s] \in Seq(Cmds) /\ toServer[s] \in Seq(Cmds)
      /\ recovering \in Seq(Lists) /\ recovering' \in Seq(Lists)
  BY <1>1 DEF TypeOK, Lists
<1>4. \A j \in Answers(s)' : j + 1 \in Answers(s) /\ j + 1 # 1 /\ toMeta'[s][j] = toMeta[s][j + 1]
  <2>1. \A j \in DOMAIN toMeta'[s] : j + 1 \in DOMAIN toMeta[s] /\ j + 1 # 1 /\ toMeta'[s][j] = toMeta[s][j + 1]
    BY <1>1, <1>3, AfterTail
  <2> QED
    BY <2>1 DEF Answers
<1>5. CASE UNCHANGED <<placeVars, flagVars, recovering, toServer>>
  <2>1. Tasks(s)' = Tasks(s) /\ \A e : Cur(e)' = Cur(e)
    BY <1>5 DEF Tasks, Cur, ListOf, SelectInSeq
  <2>2. Cur(serving[s])' = Cur(serving[s])
    BY <1>2, <1>5 DEF Cur, ListOf, SelectInSeq
  <2>3. Expected(s)'
    BY <1>2, <1>4, <1>5, <2>1, <2>2 DEF Expected
  <2>4. \A j \in DOMAIN toServer[s] : Cur(toServer[s][j].eset)' = Cur(toServer[s][j].eset)
    BY <1>5 DEF Cur, ListOf, SelectInSeq
  <2>5. Unbegun(s)'
    BY <1>2, <1>5, <2>4 DEF Unbegun
  <2> QED
    BY <2>3, <2>5
<1>6. ASSUME NEW cmd \in Cmds, Handled(m, ListOf(m.eset), cmd) PROVE Expected(s)' /\ Unbegun(s)'
  <2> DEFINE i == ListOf(m.eset)
             n == Len(toServer[s]) + 1
  <2>1. /\ serving[s] \in ESets /\ m.eset = serving[s] /\ Tasks(s) = {} /\ Answers(s) = {1}
        /\ task[s] = NoGroup /\ toServer' = [toServer EXCEPT ![s] = Append(@, cmd)]
        /\ cmd.eset = serving[s]
    BY <1>1, <1>6, ReplyInTurn
  <2>2. /\ i \in DOMAIN recovering /\ recovering[i].eset = m.eset
        /\ cmd.type \in {"EndRecoveryNodes", "RecoveryBlockGroup"}
        /\ \/ cmd.type = "EndRecoveryNodes" /\ recovering' = recovering
           \/ /\ cmd.type = "RecoveryBlockGroup"
              /\ recovering' = [recovering EXCEPT ![i].cur = cmd.group]
    BY <1>6 DEF Handled
  <2>3. i = ListOf(serving[s]) /\ recovering[i].eset = serving[s]
    BY <2>1, <2>2
  <2> HIDE DEF i, m
  <2>4. toServer'[s] = Append(toServer[s], cmd)
    BY <2>1 DEF TypeOK
  <2>5. /\ \A j \in DOMAIN toServer[s] : j \in DOMAIN toServer'[s] /\ toServer'[s][j] = toServer[s][j]
        /\ toServer'[s][n] = cmd /\ \A j \in DOMAIN toServer'[s] : j \in DOMAIN toServer[s] \/ j = n
    BY <1>3, <2>4, AfterAppend
  <2> HIDE DEF n
  <2>6. Answers(s)' = {} /\ \A j \in Tasks(s)' : j = n
    BY <1>4, <2>1, <2>5 DEF Tasks
  <2>7. \A j \in DOMAIN recovering : recovering[j] \in Lists
    BY <1>3
  <2>8. /\ DOMAIN recovering' = DOMAIN recovering
        /\ \A j \in DOMAIN recovering : /\ recovering'[j].eset = recovering[j].eset
                                        /\ j # i => recovering'[j] = recovering[j]
        /\ cmd.type = "RecoveryBlockGroup" => recovering'[i].cur = cmd.group
    BY <2>2, <2>7 DEF Lists
  <2>9. ASSUME NEW e \in ESets PROVE ListOf(e)' = ListOf(e)
    BY <1>3, <2>8, ListOfStays
  <2>10. cmd.type = "RecoveryBlockGroup" => cmd.group = Cur(serving[s])'
    <3>1. PICK e \in ESets : e = serving[s]
      BY <2>1
    <3>2. ListOf(e)' = i
      BY <2>3, <2>9, <3>1
    <3>3. cmd.type = "RecoveryBlockGroup" => Cur(e)' = cmd.group
      BY <2>8, <3>2 DEF Cur
    <3> QED
      BY <1>2, <3>1, <3>3 DEF Cur, ListOf
  <2>11. Expected(s)'
    BY <1>2, <2>1, <2>5, <2>6, <2>10 DEF Expected
  <2>12. Unbegun(s)'
    <3> SUFFICES ASSUME NEW j \in DOMAIN toServer'[s], toServer'[s][j].type = "RecoveryNodes"
                 PROVE  /\ Cur(toServer[s][j].eset)' = NoGroup /\ serving'[s] # toServer'[s][j].eset
                        /\ \A k \in DOMAIN toServer'[s] :
                             toServer'[s][k].type = "RecoveryNodes"
                               /\ toServer'[s][k].eset = toServer'[s][j].eset => j = k
      BY DEF Unbegun
    <3>1. \A k \in DOMAIN toServer'[s] : toServer'[s][k].type = "RecoveryNodes" =>
             k \in DOMAIN toServer[s] /\ toServer'[s][k] = toServer[s][k]
      BY <2>2, <2>5
    <3>2. toServer[s][j] \in Cmds
      BY <1>3, <3>1
    <3>3. PICK e \in ESets : e = toServer[s][j].eset
      BY <3>2 DEF Cmds
    <3>4. Cur(e) = NoGroup /\ serving[s] # e
          /\ \A k \in DOMAIN toServer[s] :
               toServer[s][k].type = "RecoveryNodes" /\ toServer[s][k].eset = e => j = k
      BY <3>1, <3>3 DEF Unbegun
    <3>5. HeadOf(e, s)
      BY <1>2, <3>1, <3>3 DEF Conversation
    <3>6. ListOf(e) \in DOMAIN recovering /\ recovering[ListOf(e)].eset = e
      BY <3>5, HeadHasList
    <3>7. ListOf(e) # i
      BY <2>3, <3>4, <3>6
    <3>8. Cur(e)' = NoGroup
      BY <2>8, <2>9, <3>4, <3>6, <3>7 DEF Cur
    <3>9. Cur(toServer[s][j].eset)' = NoGroup
      <4>1. toServer'[s][j].eset = e
        BY <3>1, <3>3
      <4> QED
        BY <3>8, <4>1 DEF Cur, ListOf, SelectInSeq
    <3> QED
      BY <1>2, <3>1, <3>3, <3>4, <3>9
  <2> QED
    BY <2>11, <2>12
<1> QED
  BY <1>1, <1>5, <1>6

\* The head node itself: the lists stay, and it goes on with what it is told.
LEMMA ExpectedHead ==
  ASSUME TypeOK, TypeOK', Conversations, NEW s \in Servers, ProcessMetaCmd(s) \/ ReportBlockDone(s),
         Expected(s), Unbegun(s)
  PROVE  Expected(s)' /\ Unbegun(s)'
<1>0. /\ toServer[s] \in Seq(Cmds) /\ toMeta[s] \in Seq(Cmds)
      /\ serving[s] \in ESets \cup {NoESet} /\ task[s] \in Groups \cup {NoGroup}
      /\ recovering' = recovering
  BY DEF TypeOK, ProcessMetaCmd, ReportBlockDone
<1>1. Conversation(s)
  BY DEF Conversations
<1>2. serving'[s] = serving[s] => Cur(serving[s])' = Cur(serving[s])
  BY <1>0 DEF Cur, ListOf, SelectInSeq
<1>3. CASE ReportBlockDone(s)
  <2>1. /\ task[s] # NoGroup /\ toServer'[s] = toServer[s] /\ serving'[s] = serving[s]
        /\ task'[s] = NoGroup
        /\ toMeta'[s] = Append(toMeta[s], Cmd("RecoveryBlockOK", serving[s], task[s]))
    BY <1>3 DEF TypeOK, ReportBlockDone, Reply
  <2> DEFINE reply == Cmd("RecoveryBlockOK", serving[s], task[s])
             n == Len(toMeta[s]) + 1
  <2>2. serving[s] # NoESet /\ serving[s] \in ESets
    BY <1>0, <1>1, <2>1 DEF Conversation
  <2>3. reply \in Cmds /\ reply.group = Cur(serving[s])
    <3>1. reply \in Cmds /\ reply.group = task[s]
      BY <1>0, <2>2 DEF Cmd, Cmds, CmdTypes
    <3>2. task[s] = Cur(serving[s])
      BY <2>1 DEF Expected
    <3> QED
      BY <3>1, <3>2
  <2>4. Tasks(s) = {} /\ Answers(s) = {}
    BY <1>1, <2>1, <2>2 DEF Conversation, Turn
  <2> HIDE DEF reply
  <2>5. /\ \A j \in DOMAIN toMeta[s] : toMeta'[s][j] = toMeta[s][j]
        /\ toMeta'[s][n] = reply /\ \A j \in DOMAIN toMeta'[s] : j \in DOMAIN toMeta[s] \/ j = n
    BY <1>0, <2>1, <2>3, AfterAppend DEF reply
  <2> HIDE DEF n
  <2>6. \A j \in Answers(s)' : j = n
    BY <2>4, <2>5 DEF Answers
  <2>7. Tasks(s)' = {}
    BY <2>1, <2>4 DEF Tasks
  <2>8. Expected(s)'
    BY <1>2, <2>1, <2>3, <2>5, <2>6, <2>7 DEF Expected
  <2>9. \A j \in DOMAIN toServer[s] : Cur(toServer[s][j].eset)' = Cur(toServer[s][j].eset)
    BY <1>0, <2>1 DEF Cur, ListOf, SelectInSeq
  <2>10. Unbegun(s)'
    BY <2>1, <2>9 DEF Unbegun
  <2> QED
    BY <2>8, <2>10
<1>4. CASE ProcessMetaCmd(s)
  <2> DEFINE m == Head(toServer[s])
  <2>1. /\ toServer[s] # << >> /\ toServer'[s] = Tail(toServer[s])
        /\ \/ ProcessRecoveryNodes(s, m) \/ InitRecoveryTask(s, m) \/ ProcessRecoveryNodesOver(s, m)
    BY <1>4 DEF TypeOK, ProcessMetaCmd
  <2>2. /\ m = toServer[s][1] /\ 1 \in DOMAIN toServer[s] /\ m.eset \in ESets
        /\ \A j \in DOMAIN toServer'[s] : j + 1 \in DOMAIN toServer[s] /\ j + 1 # 1 /\ toServer'[s][j] = toServer[s][j + 1]
        /\ DOMAIN toServer'[s] \subseteq Nat
        /\ \A j \in DOMAIN toServer[s] : toServer[s][j].eset \in ESets
    <3>1. /\ m = toServer[s][1] /\ 1 \in DOMAIN toServer[s]
          /\ \A j \in DOMAIN toServer'[s] : j + 1 \in DOMAIN toServer[s] /\ j + 1 # 1 /\ toServer'[s][j] = toServer[s][j + 1]
          /\ DOMAIN toServer'[s] = 1 .. Len(toServer[s]) - 1
      BY <1>0, <2>1, AfterTail
    <3>2. \A j \in DOMAIN toServer[s] : toServer[s][j] \in Cmds
      BY <1>0
    <3> HIDE DEF m
    <3> QED
      BY <3>1, <3>2 DEF Cmds
  <2> HIDE DEF m
  <2>3. \A j \in Tasks(s)' : j + 1 \in Tasks(s) /\ j + 1 # 1 /\ toServer'[s][j] = toServer[s][j + 1]
    BY <2>2 DEF Tasks
  <2>4. m.type # "RecoveryNodes" => 1 \in Tasks(s)
    BY <2>2 DEF Tasks
  <2>5. ASSUME \A j \in DOMAIN toServer[s] :
                 j # 1 /\ toServer[s][j].type = "RecoveryNodes" => serving'[s] # toServer[s][j].eset
        PROVE  Unbegun(s)'
    <3> SUFFICES ASSUME NEW j \in DOMAIN toServer'[s], toServer'[s][j].type = "RecoveryNodes"
                 PROVE  /\ Cur(toServer[s][j].eset)' = NoGroup /\ serving'[s] # toServer'[s][j].eset
                        /\ \A k \in DOMAIN toServer'[s] :
                             toServer'[s][k].type = "RecoveryNodes"
                               /\ toServer'[s][k].eset = toServer'[s][j].eset => j = k
      BY DEF Unbegun
    <3>1. /\ j + 1 \in DOMAIN toServer[s] /\ j + 1 # 1 /\ toServer'[s][j] = toServer[s][j + 1]
      BY <2>2
    <3>2. Cur(toServer[s][j + 1].eset) = NoGroup
          /\ \A k \in DOMAIN toServer[s] :
               toServer[s][k].type = "RecoveryNodes"
                 /\ toServer[s][k].eset = toServer[s][j + 1].eset => j + 1 = k
      BY <3>1 DEF Unbegun
    <3>3. Cur(toServer[s][j].eset)' = Cur(toServer[s][j + 1].eset)
      BY <1>0, <3>1 DEF Cur, ListOf, SelectInSeq
    <3>4. ASSUME NEW k \in DOMAIN toServer'[s], toServer'[s][k].type = "RecoveryNodes",
                 toServer'[s][k].eset = toServer'[s][j].eset
          PROVE  j = k
      <4>1. k + 1 \in DOMAIN toServer[s] /\ toServer'[s][k] = toServer[s][k + 1] /\ k \in Nat /\ j \in Nat
        BY <2>2
      <4>2. j + 1 = k + 1
        BY <3>1, <3>2, <3>4, <4>1
      <4> QED
        BY <4>1, <4>2
    <3> QED
      BY <2>5, <3>1, <3>2, <3>3, <3>4
  <2>6. serving'[s] = serving[s] => Unbegun(s)'
    BY <2>5 DEF Unbegun
  <2>7. CASE InitRecoveryTask(s, m)
    <3>1. /\ m.type = "RecoveryBlockGroup" /\ serving'[s] = serving[s] /\ toMeta' = toMeta /\ serving[s] # NoESet
          /\ task'[s] = IF task[s] = NoGroup THEN m.group ELSE task[s]
      BY <2>7 DEF InitRecoveryTask, TypeOK
    <3>2. Turn(s) /\ 1 \in Tasks(s)
      BY <1>1, <2>4, <3>1 DEF Conversation
    <3>3. Tasks(s)' = {}
      BY <2>3, <3>2 DEF Turn, AtMostOne
    <3>4. Answers(s)' = {}
      BY <3>1, <3>2 DEF Answers, Turn
    <3>5. m.group = Cur(serving[s])
      BY <2>2, <3>1, <3>2 DEF Expected
    <3>6. task'[s] = m.group
      BY <3>1, <3>2 DEF Turn
    <3> QED
      BY <1>2, <2>6, <3>1, <3>3, <3>4, <3>5, <3>6 DEF Expected
  <2>8. CASE ProcessRecoveryNodesOver(s, m)
    <3>1. /\ m.type = "EndRecoveryNodes" /\ toMeta' = toMeta
          /\ serving'[s] = (IF serving[s] = m.eset THEN NoESet ELSE serving[s])
          /\ task'[s] = (IF serving[s] = m.eset THEN NoGroup ELSE task[s])
      BY <2>8 DEF ProcessRecoveryNodesOver, TypeOK
    <3>2. serving[s] # NoESet /\ serving[s] = m.eset
      BY <1>1, <2>2, <2>4, <3>1 DEF Conversation
    <3>3. Turn(s) /\ 1 \in Tasks(s)
      BY <1>1, <2>4, <3>1, <3>2 DEF Conversation
    <3>4. Tasks(s)' = {}
      BY <2>3, <3>3 DEF Turn, AtMostOne
    <3>5. Answers(s)' = {}
      BY <3>1, <3>3 DEF Answers, Turn
    <3>6. serving'[s] = NoESet /\ task'[s] = NoGroup
      BY <3>1, <3>2
    <3>7. Unbegun(s)'
      BY <2>2, <2>5, <3>6 DEF NoESet, ESets
    <3> QED
      BY <3>4, <3>5, <3>6, <3>7 DEF Expected
  <2>9. CASE ProcessRecoveryNodes(s, m)
    <3> DEFINE free == serving[s] = NoESet
               reply == Cmd(IF free THEN "RecoveryNodesOK" ELSE "RecoveryNodesFailed", m.eset, NoGroup)
               n == Len(toMeta[s]) + 1
    <3>1. /\ m.type = "RecoveryNodes" /\ serving'[s] = (IF free THEN m.eset ELSE serving[s])
          /\ task'[s] = task[s] /\ toMeta'[s] = Append(toMeta[s], reply)
      BY <2>9 DEF ProcessRecoveryNodes, TypeOK, Reply
    <3>2. reply \in Cmds /\ reply.type = (IF free THEN "RecoveryNodesOK" ELSE "RecoveryNodesFailed")
          /\ reply.group = NoGroup
      BY <2>2 DEF Cmd, Cmds, CmdTypes
    <3> HIDE DEF reply
    <3>3. /\ \A j \in DOMAIN toMeta[s] : j \in DOMAIN toMeta'[s] /\ toMeta'[s][j] = toMeta[s][j]
          /\ toMeta'[s][n] = reply /\ n \in DOMAIN toMeta'[s]
          /\ \A j \in DOMAIN toMeta'[s] : j \in DOMAIN toMeta[s] \/ j = n
      BY <1>0, <3>1, <3>2, AfterAppend
    <3> HIDE DEF n
    <3>4. /\ Cur(m.eset) = NoGroup
          /\ \A j \in DOMAIN toServer[s] :
               j # 1 /\ toServer[s][j].type = "RecoveryNodes" => toServer[s][j].eset # m.eset
      BY <2>2, <3>1 DEF Unbegun
    <3>5. CASE free
      <4>1. Tasks(s) = {} /\ Answers(s) = {} /\ task[s] = NoGroup /\ serving'[s] = m.eset
        BY <1>1, <3>1, <3>5 DEF Conversation
      <4>2. Tasks(s)' = {}
        BY <2>3, <4>1
      <4>3. \A j \in Answers(s)' : j = n
        BY <3>3, <4>1 DEF Answers
      <4>4. Cur(serving[s])' = NoGroup
        BY <1>0, <3>4, <4>1 DEF Cur, ListOf, SelectInSeq
      <4>5. Expected(s)'
        BY <3>1, <3>2, <3>3, <4>1, <4>2, <4>3, <4>4 DEF Expected
      <4>6. Unbegun(s)'
        BY <2>5, <3>4, <4>1
      <4> QED
        BY <4>5, <4>6
    <3>6. CASE ~free
      <4>1. Answers(s)' = Answers(s) /\ \A j \in Answers(s) : toMeta'[s][j] = toMeta[s][j]
        BY <3>2, <3>3, <3>6 DEF Answers
      <4>2. serving'[s] = serving[s]
        BY <3>1, <3>6
      <4>3. Expected(s)'
        BY <1>2, <2>3, <3>1, <4>1, <4>2 DEF Expected
      <4> QED
        BY <2>6, <4>2, <4>3
    <3> QED
      BY <3>5, <3>6
  <2> QED
    BY <2>1, <2>7, <2>8, <2>9
<1> QED
  BY <1>3, <1>4

LEMMA OneAtATimeStep ==
  ASSUME TypeOK, TypeOK', Conversations, ListedOnce, OneAtATime, [Next]_vars
  PROVE  OneAtATime'
<1> SUFFICES ASSUME NEW s \in Servers, s \notin down' PROVE Expected(s)' /\ Unbegun(s)'
  BY DEF OneAtATime
<1>1. down \subseteq down'
  BY DEF Next, vars, failVars, RequestPlacement, ReportFailedBlockServer, StartRecoveryESets, RecoverESet,
         ProcessMetaCmd, ReportBlockDone
<1>2. s \notin down /\ Conversation(s) /\ Expected(s) /\ Unbegun(s)
  BY <1>1 DEF OneAtATime, Conversations
<1>3. recovering' = recovering => \A e : Cur(e)' = Cur(e)
  BY DEF Cur, ListOf, SelectInSeq
<1>4. ASSUME NEW x \in Servers, ReportFailedBlockServer(x) PROVE Expected(s)' /\ Unbegun(s)'
  <2>1. /\ down' = down \cup {x} /\ recovering' = recovering
        /\ toServer' = [toServer EXCEPT ![x] = << >>] /\ toMeta' = [toMeta EXCEPT ![x] = << >>]
        /\ UNCHANGED headVars
    BY <1>4 DEF ReportFailedBlockServer
  <2>2. toServer'[s] = toServer[s] /\ toMeta'[s] = toMeta[s] /\ serving'[s] = serving[s] /\ task'[s] = task[s]
    BY <2>1 DEF TypeOK, headVars
  <2> QED
    BY <1>2, <1>3, <2>1, <2>2, ExpectationStays
<1>5. CASE StartRecoveryESets
  BY <1>2, <1>5, ExpectedStart
<1>6. ASSUME NEW x \in Servers, RecoverESet(x) PROVE Expected(s)' /\ Unbegun(s)'
  <2>1. CASE s = x
    BY <1>2, <1>6, <2>1, ExpectedRecover
  <2>2. CASE s # x
    <3>1. \A e \in ESets : HeadOf(e, s) => Cur(e)' = Cur(e)
      BY <1>6, <2>2, OtherRecovers
    <3>2. /\ toMeta[x] # << >> /\ toMeta' = [toMeta EXCEPT ![x] = Tail(@)] /\ UNCHANGED headVars
          /\ (toServer' = toServer \/ \E cmd \in Cmds : Handled(Head(toMeta[x]), ListOf(Head(toMeta[x]).eset), cmd))
      BY <1>6, RecoverHandles
    <3>3. ASSUME NEW cmd \in Cmds, Handled(Head(toMeta[x]), ListOf(Head(toMeta[x]).eset), cmd)
          PROVE  toServer'[s] = toServer[s]
      <4>1. toServer' = [toServer EXCEPT ![x] = Append(@, cmd)]
        BY <3>2, <3>3, ReplyInTurn
      <4> QED
        BY <2>2, <4>1 DEF TypeOK
    <3>4. toServer'[s] = toServer[s]
      BY <3>2, <3>3
    <3>5. toMeta'[s] = toMeta[s] /\ serving'[s] = serving[s] /\ task'[s] = task[s]
      BY <2>2, <3>2 DEF TypeOK, headVars
    <3> QED
      BY <1>2, <3>1, <3>4, <3>5, ExpectationStays
  <2> QED
    BY <2>1, <2>2
<1>7. ASSUME NEW x \in Servers, ProcessMetaCmd(x) \/ ReportBlockDone(x) PROVE Expected(s)' /\ Unbegun(s)'
  <2>1. CASE s = x
    BY <1>2, <1>7, <2>1, ExpectedHead
  <2>2. CASE s # x
    <3>1. toServer'[s] = toServer[s] /\ toMeta'[s] = toMeta[s] /\ serving'[s] = serving[s] /\ task'[s] = task[s]
      BY <1>7, <2>2 DEF TypeOK, ProcessMetaCmd, ProcessRecoveryNodes, InitRecoveryTask, ProcessRecoveryNodesOver,
                  ReportBlockDone, Reply
    <3>2. recovering' = recovering
      BY <1>7 DEF ProcessMetaCmd, ReportBlockDone
    <3> QED
      BY <1>2, <1>3, <3>1, <3>2, ExpectationStays
  <2> QED
    BY <2>1, <2>2
<1>8. CASE UNCHANGED vars \/ \E g \in Groups : RequestPlacement(g)
  <2>1. UNCHANGED <<toServer, toMeta, serving, task, recovering>>
    BY <1>8 DEF vars, netVars, headVars, failVars, RequestPlacement
  <2> QED
    BY <1>2, <1>3, <2>1, ExpectationStays
<1> QED
  BY <1>4, <1>5, <1>6, <1>7, <1>8 DEF Next

-----------------------------------------------------------------------------
(* The flags of a group, with one parity block. *)

LEMMA FlagsRequest ==
  ASSUME TypeOK, MappedOnce, FlagsAgree, NEW g \in Groups, RequestPlacement(g)
  PROVE  FlagsAgree'
<1>1. PICK at \in ESets :
         /\ failed[at] = {} => failed[Choose] = {}
         /\ \A e \in ESets : \A i \in DOMAIN blockGroupMap'[e] :
              \/ /\ e = at /\ i = 1
                 /\ blockGroupMap'[e][i] = [group |-> g, recovered |-> failed[Choose] # {}]
              \/ \E k \in DOMAIN blockGroupMap[e] :
                   /\ k = IF e = at THEN i - 1 ELSE i
                   /\ blockGroupMap'[e][i] = blockGroupMap[e][k]
         /\ g \notin Placed
  BY RequestMaps
<1>2. UNCHANGED <<failed, missing, repaired>>
  BY DEF RequestPlacement, failVars, flagVars
<1>3. missing[g] = {}
  BY <1>1 DEF MappedOnce
<1>4. ASSUME NEW e \in ESets, NEW i \in DOMAIN blockGroupMap'[e]
      PROVE  /\ failed[e] = {} => ~blockGroupMap'[e][i].recovered
             /\ missing[blockGroupMap'[e][i].group] \subseteq failed[e]
             /\ blockGroupMap'[e][i].recovered =>
                  missing[blockGroupMap'[e][i].group] \subseteq repaired[blockGroupMap'[e][i].group]
  <2>1. CASE /\ e = at /\ i = 1
             /\ blockGroupMap'[e][i] = [group |-> g, recovered |-> failed[Choose] # {}]
    <3>1. blockGroupMap'[e][i].group = g /\ blockGroupMap'[e][i].recovered = (failed[Choose] # {})
      BY <2>1
    <3> QED
      BY <1>1, <1>3, <2>1, <3>1
  <2>2. ASSUME NEW k \in DOMAIN blockGroupMap[e], blockGroupMap'[e][i] = blockGroupMap[e][k]
        PROVE  /\ failed[e] = {} => ~blockGroupMap'[e][i].recovered
               /\ missing[blockGroupMap'[e][i].group] \subseteq failed[e]
               /\ blockGroupMap'[e][i].recovered =>
                    missing[blockGroupMap'[e][i].group] \subseteq repaired[blockGroupMap'[e][i].group]
    BY <2>2 DEF FlagsAgree, RecoveredMeansRepaired
  <2> QED
    BY <1>1, <2>1, <2>2
<1> QED
  BY <1>2, <1>4 DEF FlagsAgree, RecoveredMeansRepaired

LEMMA FlagsReport ==
  ASSUME SingleParity, TypeOK, MappedOnce, FlagsAgree, NEW s \in Servers, ReportFailedBlockServer(s)
  PROVE  FlagsAgree'
<1> DEFINE lost == FailedESets(s[1], s[2])
<1>1. /\ blockGroupMap' = blockGroupMap
      /\ failed' = [e \in ESets |-> IF e \in lost THEN failed[e] \cup {s[1]} ELSE failed[e]]
      /\ missing' = [g \in Groups |-> IF g \in Marked(lost, s[1])
                                      THEN missing[g] \cup {s[1]} ELSE missing[g]]
      /\ repaired' = [g \in Groups |-> IF g \in Marked(lost, s[1])
                                       THEN repaired[g] \ {s[1]} ELSE repaired[g]]
  BY DEF ReportFailedBlockServer, placeVars
<1>2. \A e \in lost : e \in ESets /\ failed[e] = {}
  BY LostWereWhole
<1> HIDE DEF lost
<1>3. SUFFICES ASSUME NEW e \in ESets, NEW i \in DOMAIN blockGroupMap[e]
               PROVE  /\ failed'[e] = {} => ~blockGroupMap[e][i].recovered
                      /\ missing'[blockGroupMap[e][i].group] \subseteq failed'[e]
                      /\ blockGroupMap[e][i].recovered =>
                           missing'[blockGroupMap[e][i].group] \subseteq repaired'[blockGroupMap[e][i].group]
  BY <1>1 DEF FlagsAgree, RecoveredMeansRepaired
<1>4. /\ failed[e] = {} => ~blockGroupMap[e][i].recovered
      /\ missing[blockGroupMap[e][i].group] \subseteq failed[e]
      /\ blockGroupMap[e][i].recovered =>
           missing[blockGroupMap[e][i].group] \subseteq repaired[blockGroupMap[e][i].group]
  BY DEF FlagsAgree, RecoveredMeansRepaired
<1>5. blockGroupMap[e][i].group \in Groups
  BY MapTypes DEF MapsTyped, MapEntries
<1>6. blockGroupMap[e][i].group \in Marked(lost, s[1]) => e \in lost
  <2> SUFFICES ASSUME blockGroupMap[e][i].group \in Marked(lost, s[1]) PROVE e \in lost
    OBVIOUS
  <2>1. PICK f \in lost : \E j \in DOMAIN blockGroupMap[f] : blockGroupMap[f][j].group = blockGroupMap[e][i].group
    BY DEF Marked
  <2>2. f \in ESets
    BY <1>2
  <2> QED
    BY <2>1, <2>2 DEF MappedOnce
<1>7. CASE e \in lost
  <2>1. failed'[e] = {s[1]} /\ failed[e] = {}
    BY <1>1, <1>2, <1>7
  <2>2. ~blockGroupMap[e][i].recovered /\ missing[blockGroupMap[e][i].group] = {}
    BY <1>4, <2>1
  <2>3. missing'[blockGroupMap[e][i].group] \subseteq {s[1]}
    BY <1>1, <1>5, <2>2
  <2> QED
    BY <2>1, <2>2, <2>3
<1>8. CASE e \notin lost
  <2>1. /\ failed'[e] = failed[e]
        /\ missing'[blockGroupMap[e][i].group] = missing[blockGroupMap[e][i].group]
        /\ repaired'[blockGroupMap[e][i].group] = repaired[blockGroupMap[e][i].group]
    BY <1>1, <1>5, <1>6, <1>8
  <2> QED
    BY <1>4, <2>1
<1> QED
  BY <1>7, <1>8

LEMMA FlagsHandled ==
  ASSUME TypeOK, ListedOnce, FlagsAgree, UNCHANGED failed,
         NEW m \in Cmds, NEW i, NEW cmd \in Cmds, Handled(m, i, cmd)
  PROVE  FlagsAgree'
<1> DEFINE row == recovering[i].row
<1>1. \A e \in ESets :
         /\ DOMAIN blockGroupMap'[e] = DOMAIN blockGroupMap[e]
         /\ \A k \in DOMAIN blockGroupMap[e] :
              /\ blockGroupMap'[e][k].group = blockGroupMap[e][k].group
              /\ blockGroupMap'[e][k].recovered # blockGroupMap[e][k].recovered =>
                   /\ blockGroupMap'[e][k].recovered /\ blockGroupMap[e][k].group = m.group
                   /\ e = m.eset /\ m.type = "RecoveryBlockOK" /\ recovering[i].cur = m.group
  BY HandledMaps
<1>2. /\ i \in DOMAIN recovering /\ recovering[i].eset = m.eset /\ missing' = missing
      /\ repaired' = repaired
         \/ repaired' = [repaired EXCEPT ![m.group] = @ \cup {row}]
      /\ m.type = "RecoveryBlockOK" /\ recovering[i].cur = m.group /\ row \in missing[m.group] \ repaired[m.group]
           => repaired' = [repaired EXCEPT ![m.group] = @ \cup {row}]
  BY DEF Handled
<1>3. failed[m.eset] = {row}
  BY <1>2 DEF ListedOnce
<1> HIDE DEF row
<1>4. \A g \in Groups : repaired[g] \subseteq repaired'[g]
  BY <1>2 DEF TypeOK
<1>5. SUFFICES ASSUME NEW e \in ESets, NEW k \in DOMAIN blockGroupMap'[e]
               PROVE  /\ failed[e] = {} => ~blockGroupMap'[e][k].recovered
                      /\ missing[blockGroupMap'[e][k].group] \subseteq failed[e]
                      /\ blockGroupMap'[e][k].recovered =>
                           missing[blockGroupMap'[e][k].group] \subseteq repaired'[blockGroupMap'[e][k].group]
  BY <1>2 DEF FlagsAgree, RecoveredMeansRepaired
<1>6. /\ k \in DOMAIN blockGroupMap[e] /\ blockGroupMap'[e][k].group = blockGroupMap[e][k].group
      /\ blockGroupMap'[e][k].recovered # blockGroupMap[e][k].recovered =>
           /\ blockGroupMap'[e][k].recovered /\ blockGroupMap[e][k].group = m.group
           /\ e = m.eset /\ m.type = "RecoveryBlockOK" /\ recovering[i].cur = m.group
  BY <1>1
<1>7. /\ failed[e] = {} => ~blockGroupMap[e][k].recovered
      /\ missing[blockGroupMap[e][k].group] \subseteq failed[e]
      /\ blockGroupMap[e][k].recovered =>
           missing[blockGroupMap[e][k].group] \subseteq repaired[blockGroupMap[e][k].group]
  BY <1>6 DEF FlagsAgree, RecoveredMeansRepaired
<1>8. blockGroupMap[e][k].group \in Groups
  BY <1>6, MapTypes DEF MapsTyped, MapEntries
<1>9. CASE blockGroupMap'[e][k].recovered = blockGroupMap[e][k].recovered
  BY <1>4, <1>6, <1>7, <1>8, <1>9
<1>10. CASE blockGroupMap'[e][k].recovered # blockGroupMap[e][k].recovered
  <2>1. /\ e = m.eset /\ blockGroupMap[e][k].group = m.group /\ m.group \in Groups
        /\ m.type = "RecoveryBlockOK" /\ recovering[i].cur = m.group
    BY <1>6, <1>8, <1>10
  <2>2. failed[e] = {row} /\ missing[m.group] \subseteq {row}
    BY <1>3, <1>7, <2>1
  <2>3. missing[m.group] \subseteq repaired'[m.group]
    <3>1. CASE row \in missing[m.group] \ repaired[m.group]
      <4>1. repaired'[m.group] = repaired[m.group] \cup {row}
        BY <1>2, <2>1, <3>1 DEF TypeOK
      <4> QED
        BY <2>2, <4>1
    <3>2. CASE row \notin missing[m.group] \ repaired[m.group]
      <4>1. missing[m.group] \subseteq repaired[m.group]
        BY <2>2, <3>2
      <4> QED
        BY <1>4, <2>1, <4>1
    <3> QED
      BY <3>1, <3>2
  <2> QED
    BY <1>6, <2>1, <2>2, <2>3
<1> QED
  BY <1>9, <1>10

LEMMA FlagsStep ==
  ASSUME SingleParity, TypeOK, MappedOnce, ListedOnce, FlagsAgree, [Next]_vars
  PROVE  FlagsAgree'
<1>1. ASSUME NEW g \in Groups, RequestPlacement(g) PROVE FlagsAgree'
  BY <1>1, FlagsRequest
<1>2. ASSUME NEW s \in Servers, ReportFailedBlockServer(s) PROVE FlagsAgree'
  BY <1>2, FlagsReport
<1>3. UNCHANGED <<blockGroupMap, failed, missing, repaired>> => FlagsAgree'
  BY DEF FlagsAgree, RecoveredMeansRepaired
<1>4. ASSUME NEW s \in Servers, RecoverESet(s) PROVE FlagsAgree'
  <2> DEFINE m == Head(toMeta[s])
  <2>1. /\ m \in Cmds /\ UNCHANGED failVars
        /\ \/ UNCHANGED <<placeVars, flagVars, recovering, toServer>>
           \/ \E cmd \in Cmds : Handled(m, ListOf(m.eset), cmd)
    BY <1>4, RecoverHandles
  <2>2. UNCHANGED failed
    BY <2>1 DEF failVars
  <2>3. CASE UNCHANGED <<placeVars, flagVars, recovering, toServer>>
    BY <1>3, <2>2, <2>3 DEF placeVars, flagVars
  <2>4. ASSUME NEW cmd \in Cmds, Handled(m, ListOf(m.eset), cmd) PROVE FlagsAgree'
    BY <2>1, <2>2, <2>4, FlagsHandled
  <2> QED
    BY <2>1, <2>3, <2>4
<1>5. ASSUME NEW s \in Servers, ProcessMetaCmd(s) \/ ReportBlockDone(s) PROVE FlagsAgree'
  BY <1>3, <1>5 DEF ProcessMetaCmd, ReportBlockDone, placeVars, flagVars, failVars
<1>6. CASE StartRecoveryESets
  BY <1>3, <1>6 DEF StartRecoveryESets, placeVars, flagVars
<1>7. CASE UNCHANGED vars
  BY <1>3, <1>7 DEF vars, placeVars, flagVars, failVars
<1> QED
  BY <1>1, <1>2, <1>4, <1>5, <1>6, <1>7 DEF Next

-----------------------------------------------------------------------------
(* The theorems for every code. *)

LEMMA InitInv == Init => IInv
<1> SUFFICES ASSUME Init PROVE IInv
  OBVIOUS
<1>1. TypeOK
  <2>1. placeIdx \in ESets
    BY Sizes DEF Init
  <2>2. [r \in Rows |-> NoServer] \in [Rows -> Servers \cup {NoServer}]
    OBVIOUS
  <2> QED
    BY <2>1, <2>2 DEF Init, TypeOK
<1>2. SetsKnowTheirFailures /\ HeadsChosen
  BY DEF Init, SetsKnowTheirFailures, HeadsChosen
<1>3. Conversations
  <2>1. \A s \in Servers : Tasks(s) = {} /\ Answers(s) = {}
    BY DEF Init, Tasks, Answers
  <2> QED
    BY <2>1 DEF Init, Conversations, Conversation
<1>4. MappedOnce
  BY DEF Init, MappedOnce, Placed
<1> QED
  BY <1>1, <1>2, <1>3, <1>4 DEF IInv

LEMMA StepInv == IInv /\ [Next]_vars => IInv'
<1> SUFFICES ASSUME IInv, [Next]_vars PROVE IInv'
  OBVIOUS
<1>1. TypeOK'
  BY TypeStep DEF IInv
<1>2. SetsKnowTheirFailures'
  BY FailuresStep DEF IInv, FailuresOK, TypeOK
<1>3. HeadsChosen'
  BY <1>1, HeadsStep DEF IInv
<1>4. Conversations'
  BY <1>1, ConversationsStep DEF IInv
<1>5. MappedOnce'
  BY <1>1, MappedStep DEF IInv
<1> QED
  BY <1>1, <1>2, <1>3, <1>4, <1>5 DEF IInv

\* Every list, map and connection holds what the code puts there, the ESets that
\* a pass of startRecoveryESets moves and the commands it sends included.
THEOREM StateShape == Spec => []TypeOK
<1>1. IInv => TypeOK
  BY DEF IInv
<1> QED
  BY <1>1, InitInv, StepInv, PTL DEF Spec

LEMMA InvHeadIsFree == IInv => GroupMeetsFreeHead
<1> SUFFICES ASSUME IInv, NEW s \in Servers, toServer[s] # << >>,
                    Head(toServer[s]).type = "RecoveryBlockGroup"
             PROVE  serving[s] = Head(toServer[s]).eset /\ task[s] = NoGroup
  BY DEF GroupMeetsFreeHead
<1>1. toServer[s] \in Seq(Cmds)
  BY DEF IInv, TypeOK
<1>2. Head(toServer[s]) = toServer[s][1] /\ 1 \in DOMAIN toServer[s]
  BY <1>1, AfterTail
<1>3. 1 \in Tasks(s)
  BY <1>2 DEF Tasks
<1>4. Conversation(s)
  BY DEF IInv, Conversations
<1> QED
  BY <1>2, <1>3, <1>4 DEF Conversation, Turn

\* A RecoveryBlockGroup command always reaches a head node that has a recovery
\* manager for the ESet of the command and has finished its last task: neither
\* is checked by processMetaCmd.
THEOREM HeadIsFree == Spec => []GroupMeetsFreeHead
BY InvHeadIsFree, InitInv, StepInv, PTL DEF Spec

-----------------------------------------------------------------------------
(* The theorems for one parity block. *)

LEMMA InitOneParity == Init => OneParityInv
<1> SUFFICES ASSUME Init PROVE OneParityInv
  OBVIOUS
<1>1. ListedOnce /\ FlagsAgree
  BY DEF Init, ListedOnce, FlagsAgree, RecoveredMeansRepaired
<1>2. \A s \in Servers : Tasks(s) = {} /\ Answers(s) = {}
  BY DEF Init, Tasks, Answers
<1>3. OneAtATime
  BY <1>2 DEF Init, OneAtATime, Expected, Unbegun
<1> QED
  BY <1>1, <1>3 DEF OneParityInv

LEMMA StepOneParity ==
  ASSUME SingleParity
  PROVE  IInv /\ OneParityInv /\ [Next]_vars => OneParityInv'
<1> SUFFICES ASSUME IInv, OneParityInv, [Next]_vars PROVE OneParityInv'
  OBVIOUS
<1>1. TypeOK'
  BY StepInv DEF IInv
<1>2. ListedOnce'
  BY ListedStep DEF IInv, OneParityInv
<1>3. OneAtATime'
  BY <1>1, OneAtATimeStep DEF IInv, OneParityInv
<1>4. FlagsAgree'
  BY FlagsStep DEF IInv, OneParityInv
<1> QED
  BY <1>2, <1>3, <1>4 DEF OneParityInv

LEMMA InvReplyIsExpected == IInv /\ OneParityInv => ReplyIsExpected
<1> SUFFICES ASSUME IInv, OneParityInv, NEW s \in Servers, NEW j \in DOMAIN toMeta[s],
                    toMeta[s][j].type \in {"RecoveryNodesOK", "RecoveryBlockOK"}
             PROVE  LET m == toMeta[s][j]
                        i == ListOf(m.eset)
                    IN i # 0 /\ recovering[i].head = s /\ s \notin down /\ recovering[i].cur = m.group
  BY DEF ReplyIsExpected, IInv
<1>1. j \in Answers(s)
  BY DEF Answers
<1>2. Conversation(s)
  BY DEF IInv, Conversations
<1>3. s \notin down
  <2>1. toMeta[s] # << >>
    OBVIOUS
  <2> QED
    BY <1>2, <2>1 DEF Conversation
<1>4. serving[s] # NoESet /\ toMeta[s][j].eset = serving[s] /\ HeadOf(serving[s], s)
  BY <1>1, <1>2, <1>3 DEF Conversation
<1>5. toMeta[s][j].group = Cur(serving[s])
  BY <1>1, <1>3 DEF OneParityInv, OneAtATime, Expected
<1> QED
  BY <1>3, <1>4, <1>5 DEF HeadOf, Cur

\* With one parity block every block reported recovered is the one its ESet
\* waits for, and comes from the head node of the ESet, which is connected:
\* no report is dropped, and getHeadNode finds the node of the next command.
THEOREM RepliesExpected ==
  ASSUME SingleParity
  PROVE  Spec => []ReplyIsExpected
<1>1. Init => IInv /\ OneParityInv
  BY InitInv, InitOneParity
<1>2. (IInv /\ OneParityInv) /\ [Next]_vars => (IInv /\ OneParityInv)'
  BY StepInv, StepOneParity
<1> QED
  BY <1>1, <1>2, InvReplyIsExpected, PTL DEF Spec

\* With one parity block no group whose mapping is flagged recovered, which
\* recoveringABlock therefore passes over for ever, has a block still missing.
THEOREM FlaggedIsRepaired ==
  ASSUME SingleParity
  PROVE  Spec => []RecoveredMeansRepaired
<1>1. Init => IInv /\ OneParityInv
  BY InitInv, InitOneParity
<1>2. (IInv /\ OneParityInv) /\ [Next]_vars => (IInv /\ OneParityInv)'
  BY StepInv, StepOneParity
<1>3. OneParityInv => RecoveredMeansRepaired
  BY DEF OneParityInv, FlagsAgree
<1> QED
  BY <1>1, <1>2, <1>3, PTL DEF Spec
=============================================================================
