---------------------------- MODULE KeyValueChain ----------------------------
(***************************************************************************)
(* The name table of the metadata server (ECMeta: KeyValueEngine.c,        *)
(* KeyValueWorker.c, KeyValueSlab.c).  File names hash to chains of items, *)
(* linked with next and pre; each worker thread has a range of the chains  *)
(* to itself and takes the memory of its items from free lists that it     *)
(* fills from its own piece of one large allocation.                       *)
(*                                                                         *)
(* Items are of one size; an address counts items.  A job runs from its    *)
(* start to its end: no other thread touches the worker's chains.          *)
(***************************************************************************)
EXTENDS Integers, Sequences, FiniteSets, SequencesExt

CONSTANTS
  NumWorkers,  \* DEFAULT_KEY_WORKER_THREAD_NUM
  Keys,
  Chain,       \* Chain[k]: hashValue % keyChainSize
  WorkerOf,    \* WorkerOf[c]: the worker with chain c in its range
  PieceSize,   \* ECSTORE_ITEM_SIZE_REQ_SIZE, in items
  AllocSize,   \* ITEM_ALLOC_SIZE
  MaxCreates   \* bound on the items created

Chains == DOMAIN WorkerOf
Workers == 1 .. NumWorkers

ASSUME WorkersAssumption == NumWorkers \in Nat \ {0}
ASSUME ChainAssumption ==
  Keys # {} /\ Chain \in [Keys -> Chains] /\ WorkerOf \in [Chains -> Workers]
ASSUME SizesAssumption == PieceSize \in Nat \ {0} /\ AllocSize \in 1 .. PieceSize /\ MaxCreates \in Nat

NULL == 0
Addr == 1 .. NumWorkers * PieceSize + MaxCreates + AllocSize

VARIABLES
  head, key, next, pre,  \* keyValueChain; the fields of the items
  memCur, slabItems,     \* mem_cur and the free list of each worker
  slab0,       \* slab_items[0] of all workers, which nothing is taken from
  deleting,    \* items whose blocks are being deleted at the block servers
  creates,     \* items created so far
  answer

chainVars == <<head, next, pre, key>>
slabVars  == <<memCur, slabItems, slab0>>
vars == <<chainVars, slabVars, deleting, creates, answer>>

Worker(k) == WorkerOf[Chain[k]]

Init ==
  /\ head = [c \in Chains |-> NULL]
  /\ key = [a \in Addr |-> CHOOSE k \in Keys : TRUE]
  /\ next = [a \in Addr |-> NULL] /\ pre = [a \in Addr |-> NULL]
  /\ memCur = [w \in Workers |-> (w - 1) * PieceSize + 1]
  /\ slabItems = [w \in Workers |-> <<>>] /\ slab0 = {}
  /\ deleting = {} /\ creates = 0 /\ answer = <<>>

\* The items from h on, one next after another, NULL past the end.
Walk(h, nx) ==
  LET nth[i \in Nat] == IF i = 0 THEN h
                        ELSE IF nth[i - 1] = NULL THEN NULL ELSE nx[nth[i - 1]]
  IN nth

\* The chain from its head: Nth(c)[i] is its item i.
Nth(c) == Walk(head[c], next)

Items(c) == {Nth(c)[i] : i \in 0 .. MaxCreates} \ {NULL}

Locate_HeadOnly(k) ==
  IF head[Chain[k]] # NULL /\ key[head[Chain[k]]] = k THEN head[Chain[k]] ELSE NULL

\* locateKeyValueItem
Locate(k) ==
  LET found == {a \in Items(Chain[k]) : key[a] = k}
  IN IF found = {} THEN NULL ELSE CHOOSE a \in found : TRUE

-----------------------------------------------------------------------------
(* Memory *)

\* distributeThreadSlab for an empty list.  availableMem is compared with what
\* is needed but never reduced: the worker keeps the piece it began with.
Refilled(w) ==
  IF slabItems[w] = <<>>
    THEN [list |-> Reverse([i \in 1 .. AllocSize |-> memCur[w] + i - 1]), cur |-> memCur[w] + AllocSize]
    ELSE [list |-> slabItems[w], cur |-> memCur[w]]

\* getSlabMemByID: the item that worker w gets.
SlabMem(w) == Head(Refilled(w).list)

TakeSlabMem(w) ==
  /\ slabItems' = [slabItems EXCEPT ![w] = Tail(Refilled(w).list)]
  /\ memCur' = [memCur EXCEPT ![w] = Refilled(w).cur]
  /\ UNCHANGED slab0

-----------------------------------------------------------------------------
(* Jobs *)

\* The pre of the old head; the new head's is whatever the memory held.
NewPre(a, c, p) ==
  [x \in Addr |-> IF x = a THEN p ELSE IF x = head[c] THEN a ELSE pre[x]]

\* insertKeyItem for a name that is not there.
Insert(k) ==
  LET a == SlabMem(Worker(k))
      c == Chain[k]
  IN /\ TakeSlabMem(Worker(k))
     /\ key' = [key EXCEPT ![a] = k]
     /\ next' = [next EXCEPT ![a] = head[c]]
     /\ \E p \in {NULL} \cup Items(c) : pre' = NewPre(a, c, p)
     /\ head' = [head EXCEPT ![c] = a]

PerformCreateJob(k) ==
  /\ IF Locate(k) # NULL THEN UNCHANGED <<chainVars, slabVars, creates>>
     ELSE /\ creates < MaxCreates
          /\ creates' = creates + 1
          /\ Insert(k)
  /\ answer' = <<"create", k, Locate(k) = NULL>>
  /\ UNCHANGED deleting

PerformOpenJob(k) ==
  /\ answer' = <<"open", k, Locate(k) # NULL>>
  /\ UNCHANGED <<chainVars, slabVars, deleting, creates>>

Unlinked_NextKept(a) ==
  /\ next' = [next EXCEPT ![pre[a]] = next[a]]
  /\ UNCHANGED pre

\* deleteKeyValueItem of an item that is not the head of its chain.
Unlinked(a) ==
  /\ next' = [next EXCEPT ![pre[a]] = next[a]]
  /\ pre' = IF next[a] = NULL THEN pre ELSE [pre EXCEPT ![next[a]] = pre[a]]

\* deleteKeyValueItem; the job goes on to the block server thread.
PerformDeleteJob(k) ==
  /\ LET a == Locate(k)
         c == Chain[k]
     IN IF a = NULL THEN UNCHANGED <<chainVars, deleting>>
        ELSE /\ IF head[c] = a
                  THEN head' = [head EXCEPT ![c] = next[a]] /\ UNCHANGED <<next, pre>>
                  ELSE Unlinked(a) /\ UNCHANGED head
             /\ deleting' = deleting \cup {a}
             /\ UNCHANGED key
  /\ answer' = <<"delete", k, Locate(k) # NULL>>
  /\ UNCHANGED <<slabVars, creates>>

\* performDeleteDoneJob: revokeItem goes by item->slabId, which insertKeyItem
\* leaves as it finds it: 0 in memory fresh from the system.
PerformDeleteDoneJob(a) ==
  /\ a \in deleting
  /\ slab0' = slab0 \cup {a}
  /\ deleting' = deleting \ {a}
  /\ UNCHANGED <<chainVars, memCur, slabItems, creates, answer>>

Next ==
  \/ \E k \in Keys : PerformCreateJob(k) \/ PerformOpenJob(k) \/ PerformDeleteJob(k)
  \/ \E a \in deleting : PerformDeleteDoneJob(a)

Spec == Init /\ [][Next]_vars

-----------------------------------------------------------------------------
(* Properties *)

\* Every variable holds a value of its kind; checked with ChainsLinked.
TypeOK ==
  /\ head \in [Chains -> Addr \cup {NULL}] /\ key \in [Addr -> Keys]
  /\ next \in [Addr -> Addr \cup {NULL}] /\ pre \in [Addr -> Addr \cup {NULL}]
  /\ memCur \in [Workers -> Addr]
  /\ slabItems \in [Workers -> Seq(Addr)] /\ slab0 \subseteq Addr
  /\ \A w \in Workers : Len(slabItems[w]) < AllocSize
  /\ deleting \subseteq Addr /\ creates \in 0 .. MaxCreates

\* No item is in two chains, or in a chain and being deleted, free in any list
\* or twice in one: deletion at the block servers reads the item's block groups
\* long after it has left its chain.
ItemsApart ==
  LET linked == UNION {Items(c) : c \in Chains} IN
    /\ \A c, d \in Chains : c # d => Items(c) \cap Items(d) = {}
    /\ linked \cap deleting = {}
    /\ \A w \in Workers :
         /\ ToSet(slabItems[w]) \cap (deleting \cup slab0 \cup linked) = {}
         /\ Cardinality(ToSet(slabItems[w])) = Len(slabItems[w])
    /\ slab0 \cap (deleting \cup linked) = {}

\* Deleting trusts pre of every item but the head, and nothing resets it when
\* an item becomes the head: still, every other item's pre is the item before
\* it, the chain ends, and all items are apart.
ChainsLinked ==
  /\ TypeOK /\ ItemsApart
  /\ \A c \in Chains :
       /\ \A i \in 0 .. MaxCreates :
            LET a == Nth(c)[i] IN a # NULL /\ next[a] # NULL => pre[next[a]] = a
       /\ Nth(c)[Cardinality(Items(c))] = NULL

\* Each worker allocates from its own piece of memory: what one takes is never
\* part of another's.
PiecesApart == \A w \in Workers : memCur[w] - 1 <= w * PieceSize

\* The chains keep the promise of a set of names.
Directory == INSTANCE MetaDirectory
  WITH dir <- {key[a] : a \in UNION {Items(c) : c \in Chains}}, answer <- answer

DirectorySpec == Directory!Spec
=============================================================================
