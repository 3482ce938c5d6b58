--------------------------- MODULE RecoverySession ---------------------------
(***************************************************************************)
(* What a block server promises ECMeta while it is the head node of one    *)
(* ESet, without its threads: one task at a time, in the order the groups  *)
(* are asked for, each one reported once and only after it was taken on.   *)
(* RecoveryPipeline is shown to implement it with task <- group.           *)
(***************************************************************************)
EXTENDS Integers

CONSTANT NumGroups   \* block groups of the ESet to recover

VARIABLES toServer, toMeta, recovered, task

sessionVars == <<toServer, toMeta, recovered, task>>

Init ==
  toServer = "none" /\ toMeta = "RecoveryNodesOK" /\ recovered = 0 /\ task = 0

(* recoverESet: ECMeta notes what was recovered and asks for the next group. *)
Ask ==
  /\ toMeta # "none" /\ toServer = "none" /\ task = 0
  /\ toMeta' = "none" /\ UNCHANGED task
  /\ recovered' = IF toMeta = "RecoveredBlockGroup" THEN recovered + 1 ELSE recovered
  /\ toServer' = IF recovered' < NumGroups THEN "RecoveryBlockGroup" ELSE "EndRecoveryNodes"

(* The task is never refused: it is the next group. *)
Accept ==
  /\ toServer = "RecoveryBlockGroup" /\ task = 0
  /\ toServer' = "none" /\ task' = recovered + 1
  /\ UNCHANGED <<toMeta, recovered>>

Report ==
  /\ task # 0 /\ toMeta = "none"
  /\ toMeta' = "RecoveredBlockGroup" /\ task' = 0
  /\ UNCHANGED <<toServer, recovered>>

End ==
  /\ toServer = "EndRecoveryNodes" /\ task = 0 /\ recovered = NumGroups
  /\ toServer' = "none"
  /\ UNCHANGED <<toMeta, recovered, task>>

Next == Ask \/ Accept \/ Report \/ End

Spec == Init /\ [][Next]_sessionVars
=============================================================================
