----------------------------- MODULE MetaRecovery -----------------------------
(***************************************************************************)
(* Placement and recovery in ECMeta (ESetPlacement.c,                      *)
(* ECRecoveryManagement.c, BlockServersManagement.c): where block groups   *)
(* are placed, which ESets a failed block server takes with it, and how    *)
(* their block groups are recovered by the head nodes, one after another.  *)
(*                                                                         *)
(* One placement group: a server is a <<row, column>> of it, and block r   *)
(* of a block group belongs on a server of row r.  The recovery threads of *)
(* a head node are the module RecoveryPipeline; here the head node holds   *)
(* an ESet and a task.  Files are not deleted.  The ESets of one failure   *)
(* become due for recovery together or in the order they were listed.      *)
(***************************************************************************)
EXTENDS Integers, Sequences, FiniteSets, SequencesExt

CONSTANTS
  StripeK, StripeM,  \* nodes of an ESet that hold data, and parity
  OFactor,           \* overlappingFactor: the columns of a placement group
  MaxGroups,         \* bound: block groups placed
  MaxFailures        \* bound: block servers reported failed

ASSUME StripeAssumption == StripeK \in Nat \ {0} /\ StripeM \in Nat \ {0}
ASSUME OFactorAssumption == OFactor \in Nat \ {0}
ASSUME BoundsAssumption == MaxGroups \in Nat /\ MaxFailures \in Nat

Rows == 0 .. StripeK + StripeM - 1
Cols == 0 .. OFactor - 1
Servers == Rows \X Cols
ESetsSize == OFactor * OFactor
ESets == 0 .. ESetsSize - 1
Groups == 1 .. MaxGroups
NoESet == -1
NoServer == <<-1, -1>>
NoGroup == 0

VARIABLES
  placeIdx,
  blockGroupMap,  \* ESet -> the groups mapped to it, newest first
  failed,         \* ESet -> rows whose node has failedFlag = 1
  site,           \* group -> row -> server that holds the block
  missing,        \* group -> rows with missingFlag = 1
  repaired,       \* group -> rows with recoveredFlag = 1
  down,           \* servers in state SERVER_DOWN
  pending,        \* pendingRecoverESetsLists
  recovering,     \* recoveringESetsLists, newest first; nothing leaves it
  toServer,       \* commands on the connection of a server
  toMeta,         \* replies on it
  serving,        \* server -> eSetIdx of its recoveryThMgr
  task            \* server -> blockGroupIdx of its recoveryThMgr

placeVars == <<placeIdx, blockGroupMap, site>>
flagVars == <<missing, repaired>>
failVars == <<failed, down, pending>>
headVars == <<serving, task>>
netVars == <<toServer, toMeta>>
vars == <<placeVars, flagVars, failVars, recovering, netVars, headVars>>

(* createGroupESets: the column of an ESet's node in each row *)
Col(e, r) ==
  IF r = 0 THEN e \div OFactor
           ELSE ((e \div OFactor) * (r - 1) + e) % OFactor

Node(e, r) == <<r, Col(e, r)>>

Placed == {g \in Groups : site[g] # [r \in Rows |-> NoServer]}

Init ==
  /\ placeIdx = 0
  /\ blockGroupMap = [e \in ESets |-> << >>]
  /\ failed = [e \in ESets |-> {}]
  /\ site = [g \in Groups |-> [r \in Rows |-> NoServer]]
  /\ missing = [g \in Groups |-> {}] /\ repaired = [g \in Groups |-> {}]
  /\ down = {} /\ pending = << >> /\ recovering = << >>
  /\ toServer = [s \in Servers |-> << >>] /\ toMeta = [s \in Servers |-> << >>]
  /\ serving = [s \in Servers |-> NoESet] /\ task = [s \in Servers |-> NoGroup]

-----------------------------------------------------------------------------
(* Placement, by the key-value workers. *)

(* The first ESet from placeIdx on without a failed server, or placeIdx. *)
Choose ==
  LET After(d) == (placeIdx + d) % ESetsSize
      Whole == {d \in ESets : failed[After(d)] = {}}
  IN After(CHOOSE d \in Whole \cup {0} :
             (Whole # {}) => d \in Whole /\ \A d2 \in Whole : d <= d2)

(* insertKeyItem: requestPlacement advances placeIdx before it uses it to
   enter the group in the map; assignESetsToGroup *)
RequestPlacement(g) ==
  LET e == Choose
      at == (e + 1) % ESetsSize
  IN /\ \A g2 \in Groups : g2 \in Placed <=> g2 < g
     /\ placeIdx' = at
     /\ blockGroupMap' = [blockGroupMap EXCEPT ![at] =
          <<[group |-> g, recovered |-> failed[e] # {}]>> \o @]
     /\ site' = [site EXCEPT ![g] = [r \in Rows |-> Node(e, r)]]
     /\ UNCHANGED <<flagVars, failVars, recovering, netVars, headVars>>

-----------------------------------------------------------------------------
(* A failed block server. *)

FailedESets_NotOffset(row, col) ==
  IF row = 0
  THEN {e \in ESets : col <= e /\ e < col + OFactor}
  ELSE {e \in ESets : ((e \div OFactor) * (row - 1) + e) % OFactor = col}

(* The ESets that addFailedESets computes for the server at <<row, col>>. *)
FailedESets(row, col) ==
  IF row = 0
  THEN {e \in ESets : col * OFactor <= e /\ e < col * OFactor + OFactor}
  ELSE {e \in ESets : ((e \div OFactor) * (row - 1) + e) % OFactor = col}

(* addPendingRecoveryESets for one ESet: an older entry is dropped only if
   it is the head of the list *)
AddPending(list, entry) ==
  LET dup == list # << >> /\ Head(list).eset = entry.eset
  IN <<entry>> \o (IF dup THEN Tail(list) ELSE list)

(* The ESets of a failure, by descending number. *)
AddAllPending(list, lost, row, failure) ==
  LET descending == [i \in 1 .. ESetsSize |-> ESetsSize - i]
      AddIfLost(l, e) ==
        IF e \in lost THEN AddPending(l, [eset |-> e, row |-> row, failure |-> failure])
                      ELSE l
  IN FoldLeft(AddIfLost, list, descending)

(* markFailedBlocks *)
Marked(lost, row) ==
  {g \in Groups : \E e \in lost : \E i \in DOMAIN blockGroupMap[e] :
                    blockGroupMap[e][i].group = g}

(* Bound on what fails: no ESet loses more nodes than its code repairs. *)
WithinTolerance(s) ==
  \A e \in FailedESets(s[1], s[2]) : Cardinality(failed[e]) < StripeM

(* reportFailedBlockServer, by an error of the socket or by checkHeartBeat *)
ReportFailedBlockServer(s) ==
  LET row == s[1]
      lost == FailedESets(row, s[2])
      number == Cardinality(down) + 1
  IN /\ s \notin down /\ number <= MaxFailures /\ WithinTolerance(s)
     /\ down' = down \cup {s}
     /\ failed' = [e \in ESets |-> IF e \in lost THEN failed[e] \cup {row}
                                                 ELSE failed[e]]
     /\ missing' = [g \in Groups |-> IF g \in Marked(lost, row)
                                     THEN missing[g] \cup {row} ELSE missing[g]]
     /\ repaired' = [g \in Groups |-> IF g \in Marked(lost, row)
                                      THEN repaired[g] \ {row} ELSE repaired[g]]
     /\ pending' = AddAllPending(pending, lost, row, number)
     /\ toServer' = [toServer EXCEPT ![s] = << >>]
     /\ toMeta' = [toMeta EXCEPT ![s] = << >>]
     /\ UNCHANGED <<placeVars, recovering, headVars>>

-----------------------------------------------------------------------------
(* The recovery of ESets, by the block server thread of ECMeta. *)

Survivors(e) == Rows \ failed[e]

(* selectRecoveryNodes: checkIOCollision compares rows modulo the ESet's size
   and so never excludes a node; every surviving node is selected, and the
   selection is used only if that is exactly StripeK nodes. *)
SelectRecoveryNodes(e) ==
  IF Cardinality(Survivors(e)) = StripeK
  THEN Node(e, CHOOSE r \in Survivors(e) : \A r2 \in Survivors(e) : r <= r2)
  ELSE NoServer

Cmd(t, e, g) == [type |-> t, eset |-> e, group |-> g]

(* The commands of selectRecoveryNodes, in the order of the lists moved. *)
SendRecoveryNodes(net, list) ==
  IF list.head = NoServer THEN net
  ELSE [net EXCEPT ![list.head] =
          Append(@, Cmd("RecoveryNodes", list.eset, NoGroup))]

(* The entries of a list that are in S, in their order. *)
Picked(list, S) ==
  FoldLeft(LAMBDA picked, x : IF x \in S THEN Append(picked, x) ELSE picked, << >>, list)

(* One pass of startRecoveryESets.  Older failures are due first, the ESets of
   one failure in the order they were listed, by ascending number. *)
StartRecoveryESets ==
  \E last \in ToSet(pending) :
    LET due == {p \in ToSet(pending) :
                  \/ p.failure < last.failure
                  \/ p.failure = last.failure /\ p.eset <= last.eset}
        moved == Picked(pending, due)
        lists == [i \in DOMAIN moved |->
                    [eset |-> moved[i].eset, row |-> moved[i].row,
                     head |-> SelectRecoveryNodes(moved[i].eset),
                     cur |-> NoGroup]]
    IN /\ pending' = Picked(pending, ToSet(pending) \ due)
       /\ recovering' = Reverse(lists) \o recovering
       /\ toServer' = FoldLeft(SendRecoveryNodes, toServer, lists)
       /\ UNCHANGED <<placeVars, flagVars, failed, down, toMeta, headVars>>

(* The list recoverESet finds: the first one of the ESet. *)
ListOf(e) == SelectInSeq(recovering, LAMBDA l : l.eset = e)

Recovered_Newest(map, g) ==
  IF map = << >> THEN map ELSE [map EXCEPT ![1].recovered = TRUE]

Recovered_WholeESet(map, g) ==
  [i \in DOMAIN map |-> [map[i] EXCEPT !.recovered = TRUE]]

(* recoveredBlock: the first mapping of the group, and the failed block *)
Recovered(map, g) ==
  LET i == SelectInSeq(map, LAMBDA m : m.group = g)
  IN IF i = 0 THEN map ELSE [map EXCEPT ![i].recovered = TRUE]

RecoveredBlock(list, m) ==
  LET ok == m.type = "RecoveryBlockOK" /\ list.cur = m.group
      lost == list.row \in missing[m.group] \ repaired[m.group]
  IN /\ blockGroupMap' = IF ~ok THEN blockGroupMap
           ELSE [blockGroupMap EXCEPT ![m.eset] = Recovered(@, m.group)]
     /\ repaired' = IF ~(ok /\ lost) THEN repaired
           ELSE [repaired EXCEPT ![m.group] = @ \cup {list.row}]
     /\ site' = IF ~(ok /\ lost) THEN site
           ELSE [site EXCEPT ![m.group] = [@ EXCEPT ![list.row] = list.head]]

(* recoveryingABlock: the next group of the ESet, or EndRecoveryNodes *)
RecoveryingABlock(i, m) ==
  LET map == blockGroupMap'[m.eset]
      next == SelectInSeq(map, LAMBDA x : ~x.recovered)
      head == recovering[i].head
  IN IF next = 0
     THEN /\ toServer' = [toServer EXCEPT ![head] =
               Append(@, Cmd("EndRecoveryNodes", m.eset, NoGroup))]
          /\ UNCHANGED recovering
     ELSE /\ toServer' = [toServer EXCEPT ![head] =
               Append(@, Cmd("RecoveryBlockGroup", m.eset, map[next].group))]
          /\ recovering' = [recovering EXCEPT ![i].cur = map[next].group]

(* processServerCmd for the replies of a head node, with recoverESet *)
RecoverESet(s) ==
  /\ toMeta[s] # << >>
  /\ toMeta' = [toMeta EXCEPT ![s] = Tail(@)]
  /\ LET m == Head(toMeta[s])
         i == ListOf(m.eset)
     IN IF m.type = "RecoveryNodesFailed" \/ i = 0
        THEN UNCHANGED <<placeVars, flagVars, recovering, toServer>>
        ELSE /\ RecoveredBlock(recovering[i], m)
             /\ RecoveryingABlock(i, m)
             /\ UNCHANGED <<placeIdx, missing>>
  /\ UNCHANGED <<failVars, headVars>>

-----------------------------------------------------------------------------
(* A head node. *)

Reply(s, t, e, g) == toMeta' = [toMeta EXCEPT ![s] = Append(@, Cmd(t, e, g))]

ProcessRecoveryNodes_Unconditional(s, m) ==
  /\ m.type = "RecoveryNodes"
  /\ serving' = [serving EXCEPT ![s] = m.eset]
  /\ UNCHANGED task
  /\ Reply(s, "RecoveryNodesOK", m.eset, NoGroup)

(* processRecoveryNodes *)
ProcessRecoveryNodes(s, m) ==
  /\ m.type = "RecoveryNodes"
  /\ serving' = [serving EXCEPT ![s] = IF @ = NoESet THEN m.eset ELSE @]
  /\ UNCHANGED task
  /\ Reply(s, IF serving[s] = NoESet THEN "RecoveryNodesOK"
                                     ELSE "RecoveryNodesFailed", m.eset, NoGroup)

(* initRecoveryTask; without a recoveryThMgr the server would crash *)
InitRecoveryTask(s, m) ==
  /\ m.type = "RecoveryBlockGroup" /\ serving[s] # NoESet
  /\ task' = [task EXCEPT ![s] = IF @ = NoGroup THEN m.group ELSE @]
  /\ UNCHANGED <<serving, toMeta>>

(* processRecoveryNodesOver *)
ProcessRecoveryNodesOver(s, m) ==
  /\ m.type = "EndRecoveryNodes"
  /\ serving' = [serving EXCEPT ![s] = IF @ = m.eset THEN NoESet ELSE @]
  /\ task' = [task EXCEPT ![s] = IF serving[s] = m.eset THEN NoGroup ELSE @]
  /\ UNCHANGED toMeta

(* processMetaCmd *)
ProcessMetaCmd(s) ==
  /\ s \notin down /\ toServer[s] # << >>
  /\ LET m == Head(toServer[s])
     IN \/ ProcessRecoveryNodes(s, m)
        \/ InitRecoveryTask(s, m)
        \/ ProcessRecoveryNodesOver(s, m)
  /\ toServer' = [toServer EXCEPT ![s] = Tail(@)]
  /\ UNCHANGED <<placeVars, flagVars, failVars, recovering>>

ReportBlockDone_KeepsTask(s) ==
  /\ s \notin down /\ task[s] # NoGroup
  /\ Reply(s, "RecoveryBlockOK", serving[s], task[s])
  /\ UNCHANGED <<placeVars, flagVars, failVars, recovering, toServer, headVars>>

(* The recovery threads have written the block and the meta thread reports it. *)
ReportBlockDone(s) ==
  /\ s \notin down /\ task[s] # NoGroup
  /\ Reply(s, "RecoveryBlockOK", serving[s], task[s])
  /\ task' = [task EXCEPT ![s] = NoGroup]
  /\ UNCHANGED <<placeVars, flagVars, failVars, recovering, toServer, serving>>

Next ==
  \/ \E g \in Groups : RequestPlacement(g)
  \/ \E s \in Servers : ReportFailedBlockServer(s)
  \/ StartRecoveryESets
  \/ \E s \in Servers : RecoverESet(s) \/ ProcessMetaCmd(s) \/ ReportBlockDone(s)

(* The event loops of ECMeta and of the servers keep turning, and a block
   server completes the block it recovers (RecoveryCompletes of the module
   RecoveryPipeline). *)
Fairness ==
  /\ WF_vars(StartRecoveryESets)
  /\ \A s \in Servers : /\ WF_vars(RecoverESet(s))
                        /\ WF_vars(ProcessMetaCmd(s))
                        /\ WF_vars(ReportBlockDone(s))

Spec == Init /\ [][Next]_vars
FairSpec == Spec /\ Fairness

-----------------------------------------------------------------------------
(* Properties. *)

CmdTypes == {"RecoveryNodes", "RecoveryBlockGroup", "EndRecoveryNodes",
             "RecoveryNodesOK", "RecoveryNodesFailed", "RecoveryBlockOK"}
Cmds == [type : CmdTypes, eset : ESets, group : Groups \cup {NoGroup}]

(* The shape of the state: every list, map and connection holds what the code
   puts there.  Checked with ReplyIsExpected. *)
TypeOK ==
  /\ placeIdx \in ESets
  /\ blockGroupMap \in [ESets -> Seq([group : Groups, recovered : BOOLEAN])]
  /\ failed \in [ESets -> SUBSET Rows]
  /\ site \in [Groups -> [Rows -> Servers \cup {NoServer}]]
  /\ missing \in [Groups -> SUBSET Rows] /\ repaired \in [Groups -> SUBSET Rows]
  /\ down \in SUBSET Servers
  /\ pending \in Seq([eset : ESets, row : Rows, failure : 1 .. MaxFailures])
  /\ recovering \in Seq([eset : ESets, row : Rows,
                         head : Servers \cup {NoServer},
                         cur : Groups \cup {NoGroup}])
  /\ toServer \in [Servers -> Seq(Cmds)] /\ toMeta \in [Servers -> Seq(Cmds)]
  /\ serving \in [Servers -> ESets \cup {NoESet}]
  /\ task \in [Servers -> Groups \cup {NoGroup}]

(* The ESets addFailedESets computes for the servers that are down are the
   ESets createGroupESets put them in: an ESet's failed nodes are its servers
   that are down. *)
SetsKnowTheirFailures ==
  \A e \in ESets : failed[e] = {r \in Rows : Node(e, r) \in down}

(* A RecoveryBlockGroup command reaches a head node that has a recovery manager
   for that ESet and no open task: processMetaCmd uses recoveryThMgr although
   it may be NULL, and initRecoveryTask refuses a second task. *)
GroupMeetsFreeHead ==
  \A s \in Servers :
    (toServer[s] # << >> /\ Head(toServer[s]).type = "RecoveryBlockGroup")
      => serving[s] = Head(toServer[s]).eset /\ task[s] = NoGroup

(* A block reported recovered is the one its ESet waits for, and the head node
   the next command goes to is connected: recoveredBlock would drop the report
   and getHeadNode would return NULL. *)
ReplyIsExpected ==
  TypeOK /\ \A s \in Servers : \A j \in DOMAIN toMeta[s] :
    LET m == toMeta[s][j]
        i == ListOf(m.eset)
    IN m.type \in {"RecoveryNodesOK", "RecoveryBlockOK"}
         => i # 0 /\ recovering[i].head = s /\ s \notin down
            /\ recovering[i].cur = m.group

(* A group whose mapping is flagged recovered, and which is never looked at
   again, has no block that is still missing. *)
RecoveredMeansRepaired ==
  \A e \in ESets : \A i \in DOMAIN blockGroupMap[e] :
    LET m == blockGroupMap[e][i]
    IN m.recovered => missing[m.group] \subseteq repaired[m.group]

(* A head node that takes on an ESet finishes it: again and again there is a
   moment when no connected server is busy with an ESet.  EndRecoveryNodes is
   sent only when every mapping is flagged, so with RecoveredMeansRepaired all
   that a failure marked missing in that ESet is then recovered. *)
HeadsReleased == []<>(\A s \in Servers : s \in down \/ serving[s] = NoESet)

(* What recoveredBlock asserts of every reported block: it was in failed state
   ("Error: block not in failed state" otherwise). *)
OnlyFailedBlocksRecovered ==
  \A s \in Servers :
    (toMeta[s] # << >> /\ Head(toMeta[s]).type = "RecoveryBlockOK")
      => LET m == Head(toMeta[s]) IN
         recovering[ListOf(m.eset)].row \in missing[m.group] \ repaired[m.group]

(* An ESet is given up ("Unable to recover this eset ... only %d nodes
   available") only when fewer than StripeK of its nodes are left. *)
GivenUpForLackOfNodes ==
  \A i \in DOMAIN recovering :
    recovering[i].head = NoServer
      => Cardinality(Survivors(recovering[i].eset)) < StripeK
=============================================================================
