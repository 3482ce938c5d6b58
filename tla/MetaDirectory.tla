---------------------------- MODULE MetaDirectory ----------------------------
(***************************************************************************)
(* What the key value workers of the metadata server promise: a set of     *)
(* file names.  Creating a name that exists and opening or deleting one    *)
(* that does not are refused.                                              *)
(***************************************************************************)
CONSTANT Keys

VARIABLES
  dir,     \* the names that exist
  answer   \* what was said of the last command: its kind, its name, OK or not

Init == dir = {} /\ answer = <<>>

Create(k) == dir' = dir \cup {k} /\ answer' = <<"create", k, k \notin dir>>
Open(k)   == dir' = dir          /\ answer' = <<"open", k, k \in dir>>
Delete(k) == dir' = dir \ {k}    /\ answer' = <<"delete", k, k \in dir>>

Next == \E k \in Keys : Create(k) \/ Open(k) \/ Delete(k)

Spec == Init /\ [][Next]_<<dir, answer>>
=============================================================================
