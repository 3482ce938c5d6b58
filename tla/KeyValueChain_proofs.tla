------------------------- MODULE KeyValueChain_proofs -------------------------
(***************************************************************************)
(* Proofs about the name table: while each worker stays within its own     *)
(* piece of memory, the chains are whole, no item is in two places, and    *)
(* the chains keep the promise of a set of names (MetaDirectory).          *)
(*                                                                         *)
(* A chain is compared with a sequence of its items.  The first half are   *)
(* lemmas about one chain, given by its head and the fields next and pre   *)
(* of the items, and about the free list of one worker; the second half is *)
(* the inductive invariant of the table.                                   *)
(***************************************************************************)
EXTENDS KeyValueChain, FiniteSetTheorems, WellFoundedInduction, TLAPS

Ref == Addr \cup {NULL}

\* Addresses are numbers, and none of them is NULL.
LEMMA AddrIsNat == Addr \subseteq Nat /\ NULL \notin Addr /\ Ref \subseteq Nat
BY DEF Addr, NULL, Ref

\* What holds of 0 and passes from each number to the next holds of them all.
LEMMA AllOfNat ==
  ASSUME NEW S, 0 \in S, \A i \in Nat : i \in S => i + 1 \in S
  PROVE  Nat \subseteq S
<1> DEFINE Bad == Nat \ S
           R == {ss \in Nat \X Nat : ss[1] < ss[2]}
<1>1. ASSUME Bad # {} PROVE FALSE
  <2>1. OpToRel(<, Nat) = R
    BY Zenon DEF OpToRel
  <2>2. Bad \subseteq Nat
    OBVIOUS
  <2>3. PICK x \in Bad : \A y \in Bad : <<y, x>> \notin R
    BY <1>1, <2>1, <2>2, WFMin, NatLessThanWellFounded
  <2>4. x \in Nat /\ x # 0
    OBVIOUS
  <2>5. x - 1 \in Nat /\ x - 1 < x /\ (x - 1) + 1 = x
    BY <2>4
  <2>6. x - 1 \notin Bad
    BY <2>3, <2>4, <2>5
  <2> QED
    BY <2>4, <2>5, <2>6
<1> QED
  BY <1>1

-----------------------------------------------------------------------------
(* One chain. *)

Injective(q) == \A i, j \in 1 .. Len(q) : q[i] = q[j] => i = j
Elems(q) == {q[i] : i \in 1 .. Len(q)}

\* The items of q, in this order, are linked from h on: every next is the item
\* after it, every pre but the first is the item before it.
Linked(q, h, nx, pr) ==
  /\ q \in Seq(Addr) /\ Injective(q)
  /\ h = IF q = << >> THEN NULL ELSE q[1]
  /\ \A i \in 1 .. Len(q) : nx[q[i]] = IF i = Len(q) THEN NULL ELSE q[i + 1]
  /\ \A i \in 2 .. Len(q) : pr[q[i]] = q[i - 1]

\* A chain of at most n items.
IsChain(h, nx, pr, n) == \E q : Linked(q, h, nx, pr) /\ Len(q) <= n

ItemsIn(h, nx) == {Walk(h, nx)[i] : i \in 0 .. MaxCreates} \ {NULL}

\* The recursion of locateKeyValueItem over a chain that is linked.
LEMMA WalkSteps ==
  ASSUME NEW h, NEW nx, NEW pr, NEW q, Linked(q, h, nx, pr)
  PROVE  /\ Walk(h, nx)[0] = h
         /\ \A i \in Nat : Walk(h, nx)[i + 1] =
              IF Walk(h, nx)[i] = NULL THEN NULL ELSE nx[Walk(h, nx)[i]]
<1> DEFINE F == [i \in Nat |-> IF i < Len(q) THEN q[i + 1] ELSE NULL]
           Rec(f) == f = [i \in Nat |-> IF i = 0 THEN h
                            ELSE IF f[i - 1] = NULL THEN NULL ELSE nx[f[i - 1]]]
<1>1. Len(q) \in Nat /\ \A i \in 1 .. Len(q) : q[i] \in Addr /\ q[i] # NULL
  BY AddrIsNat DEF Linked
<1>2. F[0] = h
  <2>1. CASE q = << >>
    BY <2>1 DEF Linked
  <2>2. CASE q # << >>
    <3>1. Len(q) > 0
      BY <2>2 DEF Linked
    <3> QED
      BY <2>2, <3>1 DEF Linked
  <2> QED
    BY <2>1, <2>2
<1>3. ASSUME NEW i \in Nat, i # 0
      PROVE  F[i] = IF F[i - 1] = NULL THEN NULL ELSE nx[F[i - 1]]
  <2>1. CASE i - 1 < Len(q)
    <3>1. i \in 1 .. Len(q) /\ F[i - 1] = q[i] /\ F[i - 1] # NULL
      BY <1>1, <1>3, <2>1
    <3>2. nx[q[i]] = IF i = Len(q) THEN NULL ELSE q[i + 1]
      BY <3>1 DEF Linked
    <3> QED
      BY <1>1, <3>1, <3>2
  <2>2. CASE ~(i - 1 < Len(q))
    BY <1>1, <1>3, <2>2
  <2> QED
    BY <2>1, <2>2
<1>4. Rec(F)
  <2> DEFINE G == [i \in Nat |-> IF i = 0 THEN h
                            ELSE IF F[i - 1] = NULL THEN NULL ELSE nx[F[i - 1]]]
  <2>1. ASSUME NEW i \in Nat PROVE F[i] = G[i]
    BY <1>2, <1>3
  <2>2. F = [i \in Nat |-> F[i]] /\ G = [i \in Nat |-> G[i]]
    OBVIOUS
  <2> HIDE DEF F, G
  <2>3. F = G
    BY <2>1, <2>2
  <2> QED
    BY <2>3 DEF G
<1> HIDE DEF F
<1> DEFINE W == CHOOSE f : Rec(f)
<1>5. Walk(h, nx) = W
  BY Zenon DEF Walk
<1>6. Rec(W)
  BY <1>4, Zenon
<1> HIDE DEF W
<1>7. W[0] = h
  BY <1>6
<1>8. ASSUME NEW i \in Nat PROVE W[i + 1] = IF W[i] = NULL THEN NULL ELSE nx[W[i]]
  <2>1. i + 1 \in Nat /\ i + 1 # 0 /\ (i + 1) - 1 = i
    OBVIOUS
  <2>2. W[i + 1] = IF i + 1 = 0 THEN h
                     ELSE IF W[(i + 1) - 1] = NULL THEN NULL ELSE nx[W[(i + 1) - 1]]
    BY <1>6, <2>1
  <2> QED
    BY <2>1, <2>2
<1> QED
  BY <1>5, <1>7, <1>8

\* The walk visits the items of a linked chain in their order, then NULL.
LEMMA WalkIs ==
  ASSUME NEW h, NEW nx, NEW pr, NEW q, Linked(q, h, nx, pr)
  PROVE  \A i \in Nat : Walk(h, nx)[i] = IF i < Len(q) THEN q[i + 1] ELSE NULL
<1> DEFINE W == Walk(h, nx)
           S == {i \in Nat : W[i] = IF i < Len(q) THEN q[i + 1] ELSE NULL}
<1>1. W[0] = h /\ \A i \in Nat : W[i + 1] = IF W[i] = NULL THEN NULL ELSE nx[W[i]]
  BY WalkSteps
<1> HIDE DEF W
<1>2. Len(q) \in Nat /\ \A i \in 1 .. Len(q) : q[i] \in Addr /\ q[i] # NULL
  BY AddrIsNat DEF Linked
<1>3. 0 \in S
  <2>1. CASE q = << >>
    BY <1>1, <2>1 DEF Linked
  <2>2. CASE q # << >>
    <3>1. Len(q) > 0
      BY <2>2 DEF Linked
    <3> QED
      BY <1>1, <2>2, <3>1 DEF Linked
  <2> QED
    BY <2>1, <2>2
<1>4. ASSUME NEW i \in Nat, i \in S PROVE i + 1 \in S
  <2>1. W[i] = IF i < Len(q) THEN q[i + 1] ELSE NULL
    BY <1>4
  <2>2. W[i + 1] = IF W[i] = NULL THEN NULL ELSE nx[W[i]]
    BY <1>1
  <2>3. CASE i < Len(q)
    <3>1. i + 1 \in 1 .. Len(q)
      BY <1>2, <2>3
    <3>2. nx[q[i + 1]] = IF i + 1 = Len(q) THEN NULL ELSE q[(i + 1) + 1]
      BY <3>1 DEF Linked
    <3> QED
      BY <1>2, <2>1, <2>2, <2>3, <3>1, <3>2
  <2>4. CASE ~(i < Len(q))
    BY <1>2, <2>1, <2>2, <2>4
  <2> QED
    BY <2>3, <2>4
<1>5. Nat \subseteq S
  <2> HIDE DEF S
  <2> QED
    BY <1>3, <1>4, AllOfNat
<1> QED
  BY <1>5 DEF W

LEMMA ItemsAre ==
  ASSUME NEW h, NEW nx, NEW pr, NEW q, Linked(q, h, nx, pr), Len(q) <= MaxCreates
  PROVE  ItemsIn(h, nx) = Elems(q)
<1> DEFINE W == Walk(h, nx)
<1>1. \A i \in Nat : W[i] = IF i < Len(q) THEN q[i + 1] ELSE NULL
  BY WalkIs
<1> HIDE DEF W
<1>2. Len(q) \in Nat /\ \A i \in 1 .. Len(q) : q[i] \in Addr /\ q[i] # NULL
  BY AddrIsNat DEF Linked
<1>3. ASSUME NEW a \in ItemsIn(h, nx) PROVE a \in Elems(q)
  <2>1. PICK i \in 0 .. MaxCreates : a = W[i]
    BY <1>3 DEF ItemsIn, W
  <2>2. a # NULL /\ i \in Nat
    BY <1>3, <2>1 DEF ItemsIn
  <2>3. i < Len(q) /\ a = q[i + 1]
    BY <1>1, <2>1, <2>2
  <2>4. i + 1 \in 1 .. Len(q)
    BY <1>2, <2>2, <2>3
  <2> QED
    BY <2>3, <2>4 DEF Elems
<1>4. ASSUME NEW a \in Elems(q) PROVE a \in ItemsIn(h, nx)
  <2>1. PICK i \in 1 .. Len(q) : a = q[i]
    BY <1>4 DEF Elems
  <2>2. i - 1 \in Nat /\ i - 1 < Len(q) /\ (i - 1) + 1 = i /\ i - 1 \in 0 .. MaxCreates
    BY <1>2, SizesAssumption
  <2>3. W[i - 1] = a /\ a # NULL
    BY <1>1, <1>2, <2>1, <2>2
  <2> QED
    BY <2>2, <2>3 DEF ItemsIn, W
<1> QED
  BY <1>3, <1>4

LEMMA ChainItems ==
  ASSUME NEW h, NEW nx, NEW pr, NEW n \in 0 .. MaxCreates, IsChain(h, nx, pr, n)
  PROVE  /\ ItemsIn(h, nx) \subseteq Addr
         /\ h # NULL => h \in ItemsIn(h, nx)
<1>1. PICK q : Linked(q, h, nx, pr) /\ Len(q) <= n
  BY DEF IsChain
<1>2. Len(q) \in Nat /\ Len(q) <= MaxCreates /\ \A i \in 1 .. Len(q) : q[i] \in Addr
  BY <1>1, SizesAssumption DEF Linked
<1>3. ItemsIn(h, nx) = Elems(q)
  BY <1>1, <1>2, ItemsAre
<1>4. Elems(q) \subseteq Addr
  BY <1>2 DEF Elems
<1>5. ASSUME h # NULL PROVE h \in Elems(q)
  <2>1. q # << >> /\ h = q[1] /\ q \in Seq(Addr)
    BY <1>1, <1>5 DEF Linked
  <2>2. 1 \in 1 .. Len(q)
    BY <2>1
  <2> QED
    BY <2>1, <2>2 DEF Elems
<1> QED
  BY <1>3, <1>4, <1>5

\* What ChainsLinked says of a chain.
LEMMA ChainLinks ==
  ASSUME NEW h, NEW nx, NEW pr, NEW n \in 0 .. MaxCreates, IsChain(h, nx, pr, n)
  PROVE  /\ \A i \in 0 .. MaxCreates :
              LET a == Walk(h, nx)[i] IN a # NULL /\ nx[a] # NULL => pr[nx[a]] = a
         /\ Walk(h, nx)[Cardinality(ItemsIn(h, nx))] = NULL
<1>1. PICK q : Linked(q, h, nx, pr) /\ Len(q) <= n
  BY DEF IsChain
<1>2. Len(q) \in Nat /\ Len(q) <= MaxCreates /\ \A i \in 1 .. Len(q) : q[i] \in Addr
  BY <1>1, SizesAssumption DEF Linked
<1>3. ItemsIn(h, nx) = Elems(q)
  BY <1>1, <1>2, ItemsAre
<1>4. \A i \in Nat : Walk(h, nx)[i] = IF i < Len(q) THEN q[i + 1] ELSE NULL
  BY <1>1, WalkIs
<1>5. ASSUME NEW i \in 0 .. MaxCreates, NEW a, a = Walk(h, nx)[i], a # NULL, nx[a] # NULL
      PROVE  pr[nx[a]] = a
  <2>1. i \in Nat /\ Walk(h, nx)[i] = IF i < Len(q) THEN q[i + 1] ELSE NULL
    BY <1>4
  <2>2. i < Len(q) /\ a = q[i + 1]
    BY <1>5, <2>1
  <2>3. i + 1 \in 1 .. Len(q)
    BY <1>2, <2>1, <2>2
  <2>4. nx[q[i + 1]] = IF i + 1 = Len(q) THEN NULL ELSE q[(i + 1) + 1]
    BY <1>1, <2>3 DEF Linked
  <2>5. i + 1 # Len(q) /\ nx[a] = q[i + 2] /\ i + 2 \in 2 .. Len(q)
    BY <1>2, <1>5, <2>1, <2>2, <2>3, <2>4
  <2>6. pr[q[i + 2]] = q[(i + 2) - 1]
    BY <1>1, <2>5 DEF Linked
  <2>7. (i + 2) - 1 = i + 1
    BY <2>1
  <2> QED
    BY <2>2, <2>5, <2>6, <2>7
<1>6. Cardinality(Elems(q)) = Len(q)
  <2> DEFINE F == [i \in 1 .. Len(q) |-> q[i]]
  <2>1. F \in Bijection(1 .. Len(q), Elems(q))
    BY <1>1, Zenon DEF Elems, Bijection, Injection, Surjection, IsInjective, Linked, Injective
  <2>2. ExistsBijection(1 .. Len(q), Elems(q))
    BY <2>1, Zenon DEF ExistsBijection
  <2> QED
    BY <1>2, <2>2, FS_CountingElements
<1>7. Walk(h, nx)[Len(q)] = NULL
  BY <1>2, <1>4
<1> QED
  BY <1>3, <1>5, <1>6, <1>7

\* A chain none of whose items is touched.
LEMMA ChainKept ==
  ASSUME NEW h, NEW nx, NEW pr, NEW nx2, NEW pr2, NEW n \in 0 .. MaxCreates,
         NEW m \in 0 .. MaxCreates, n <= m,
         IsChain(h, nx, pr, n),
         \A a \in ItemsIn(h, nx) : nx2[a] = nx[a] /\ pr2[a] = pr[a]
  PROVE  IsChain(h, nx2, pr2, m) /\ ItemsIn(h, nx2) = ItemsIn(h, nx)
<1>1. PICK q : Linked(q, h, nx, pr) /\ Len(q) <= n
  BY DEF IsChain
<1>2. Len(q) \in Nat /\ Len(q) <= MaxCreates /\ Len(q) <= m
  BY <1>1, SizesAssumption DEF Linked
<1>3. ItemsIn(h, nx) = Elems(q)
  BY <1>1, <1>2, ItemsAre
<1>4. \A i \in 1 .. Len(q) : nx2[q[i]] = nx[q[i]] /\ pr2[q[i]] = pr[q[i]]
  BY <1>3 DEF Elems
<1>5. Linked(q, h, nx2, pr2)
  BY <1>1, <1>2, <1>4 DEF Linked
<1>6. ItemsIn(h, nx2) = Elems(q)
  BY <1>2, <1>5, ItemsAre
<1> QED
  BY <1>2, <1>3, <1>5, <1>6 DEF IsChain

\* insertKeyItem: a new item before the old head.
LEMMA ChainPushed ==
  ASSUME NEW h, NEW nx, NEW pr, NEW nx2, NEW pr2, NEW n \in 0 .. MaxCreates, n < MaxCreates,
         IsChain(h, nx, pr, n), NEW a \in Addr, a \notin ItemsIn(h, nx),
         nx2[a] = h, \A x \in Addr \ {a} : nx2[x] = nx[x],
         h # NULL => pr2[h] = a, \A x \in Addr \ {a, h} : pr2[x] = pr[x]
  PROVE  /\ IsChain(a, nx2, pr2, n + 1)
         /\ ItemsIn(a, nx2) = ItemsIn(h, nx) \cup {a}
<1>1. PICK q : Linked(q, h, nx, pr) /\ Len(q) <= n
  BY DEF IsChain
<1>2. q \in Seq(Addr) /\ Len(q) \in Nat /\ Len(q) < MaxCreates
      /\ \A i \in 1 .. Len(q) : q[i] \in Addr
  BY <1>1, SizesAssumption DEF Linked
<1>3. ItemsIn(h, nx) = Elems(q)
  BY <1>1, <1>2, SizesAssumption, ItemsAre
<1>4. \A i \in 1 .. Len(q) : q[i] # a
  BY <1>3 DEF Elems
<1> DEFINE p == [i \in 1 .. Len(q) + 1 |-> IF i = 1 THEN a ELSE q[i - 1]]
<1>5. p \in Seq(Addr) /\ Len(p) = Len(q) + 1 /\ p # << >> /\ p[1] = a
  <2>1. \A i \in 1 .. Len(q) + 1 : (IF i = 1 THEN a ELSE q[i - 1]) \in Addr
    BY <1>2
  <2>2. p \in [1 .. Len(q) + 1 -> Addr]
    BY <2>1
  <2>3. p \in Seq(Addr) /\ Len(p) = Len(q) + 1
    BY <1>2, <2>2
  <2>4. p[1] = a
    BY <1>2
  <2> QED
    BY <1>2, <2>3, <2>4
<1>6. \A i \in 2 .. Len(q) + 1 : p[i] = q[i - 1] /\ i - 1 \in 1 .. Len(q)
  BY <1>2
<1> HIDE DEF p
<1>7. Injective(p)
  <2> SUFFICES ASSUME NEW i \in 1 .. Len(q) + 1, NEW j \in 1 .. Len(q) + 1, p[i] = p[j]
               PROVE  i = j
    BY <1>5 DEF Injective
  <2>1. CASE i = 1 \/ j = 1
    <3>1. i # 1 => p[i] # a
      BY <1>2, <1>4, <1>6
    <3>2. j # 1 => p[j] # a
      BY <1>2, <1>4, <1>6
    <3> QED
      BY <1>5, <2>1, <3>1, <3>2
  <2>2. CASE i # 1 /\ j # 1
    <3>1. p[i] = q[i - 1] /\ i - 1 \in 1 .. Len(q)
      BY <1>2, <1>6, <2>2
    <3>2. p[j] = q[j - 1] /\ j - 1 \in 1 .. Len(q)
      BY <1>2, <1>6, <2>2
    <3>3. q[i - 1] = q[j - 1]
      BY <3>1, <3>2
    <3>4. i - 1 = j - 1
      BY <1>1, <3>1, <3>2, <3>3 DEF Linked, Injective
    <3> QED
      BY <3>4
  <2> QED
    BY <2>1, <2>2
<1>8. ASSUME NEW i \in 1 .. Len(p)
      PROVE  nx2[p[i]] = IF i = Len(p) THEN NULL ELSE p[i + 1]
  <2>1. CASE i = 1
    <3>1. nx2[p[i]] = h
      BY <1>5, <2>1
    <3>2. CASE q = << >>
      BY <1>1, <1>5, <2>1, <3>1, <3>2 DEF Linked
    <3>3. CASE q # << >>
      <4>1. Len(q) > 0 /\ h = q[1]
        BY <1>1, <3>3 DEF Linked
      <4>2. 2 \in 2 .. Len(q) + 1 /\ p[2] = q[1]
        BY <1>2, <1>6, <4>1
      <4> QED
        BY <1>2, <1>5, <2>1, <3>1, <4>1, <4>2
    <3> QED
      BY <3>2, <3>3
  <2>2. CASE i # 1
    <3>1. i \in 2 .. Len(q) + 1
      BY <1>2, <1>5, <2>2
    <3>2. p[i] = q[i - 1] /\ i - 1 \in 1 .. Len(q)
      BY <1>6, <3>1
    <3>3. nx2[p[i]] = nx[q[i - 1]]
      BY <1>2, <1>4, <3>2
    <3>4. nx[q[i - 1]] = IF i - 1 = Len(q) THEN NULL ELSE q[(i - 1) + 1]
      BY <1>1, <3>2 DEF Linked
    <3>5. i # Len(p) => p[i + 1] = q[i]
      BY <1>2, <1>5, <1>6, <3>1
    <3> QED
      BY <1>2, <1>5, <3>1, <3>3, <3>4, <3>5
  <2> QED
    BY <2>1, <2>2
<1>9. ASSUME NEW i \in 2 .. Len(p) PROVE pr2[p[i]] = p[i - 1]
  <2>1. i \in 2 .. Len(q) + 1 /\ p[i] = q[i - 1] /\ i - 1 \in 1 .. Len(q)
    BY <1>5, <1>6
  <2>2. q # << >> /\ h = q[1] /\ h \in Addr /\ h # NULL
    <3>1. q # << >>
      BY <1>2, <2>1
    <3>2. h = q[1] /\ 1 \in 1 .. Len(q)
      BY <1>1, <1>2, <2>1, <3>1 DEF Linked
    <3> QED
      BY <1>2, <3>1, <3>2, AddrIsNat
  <2>3. CASE i = 2
    BY <1>5, <2>1, <2>2, <2>3
  <2>4. CASE i # 2
    <3>1. i - 1 \in 2 .. Len(q) /\ 1 \in 1 .. Len(q) /\ i - 1 # 1
      BY <2>1, <2>4, <1>2
    <3>2. q[i - 1] # q[1]
      BY <1>1, <2>1, <3>1 DEF Linked, Injective
    <3>3. q[i - 1] \in Addr \ {a, h}
      BY <1>2, <1>4, <2>1, <2>2, <3>2
    <3>4. pr[q[i - 1]] = q[(i - 1) - 1]
      BY <1>1, <3>1 DEF Linked
    <3>5. i - 1 \in 2 .. Len(q) + 1 /\ p[i - 1] = q[(i - 1) - 1]
      BY <1>2, <1>6, <3>1
    <3> QED
      BY <2>1, <3>3, <3>4, <3>5
  <2> QED
    BY <2>3, <2>4
<1>10. Linked(p, a, nx2, pr2)
  BY <1>5, <1>7, <1>8, <1>9 DEF Linked
<1>11. IsChain(a, nx2, pr2, n + 1)
  BY <1>1, <1>2, <1>5, <1>10 DEF IsChain
<1>12. ItemsIn(a, nx2) = Elems(p)
  BY <1>2, <1>5, <1>10, SizesAssumption, ItemsAre
<1>13. Elems(p) = Elems(q) \cup {a}
  <2>1. \A i \in 1 .. Len(q) : q[i] = p[i + 1] /\ i + 1 \in 1 .. Len(p)
    BY <1>2, <1>5, <1>6
  <2>2. \A i \in 1 .. Len(p) : i = 1 \/ (p[i] = q[i - 1] /\ i - 1 \in 1 .. Len(q))
    BY <1>2, <1>5, <1>6
  <2>3. 1 \in 1 .. Len(p)
    BY <1>2, <1>5
  <2>4. Elems(p) \subseteq Elems(q) \cup {a}
    BY <1>5, <2>2 DEF Elems
  <2>5. Elems(q) \cup {a} \subseteq Elems(p)
    BY <1>5, <2>1, <2>3 DEF Elems
  <2> QED
    BY <2>4, <2>5
<1> QED
  BY <1>3, <1>11, <1>12, <1>13

\* The links lead past item number j of the chain.
Skips(q, j, h, nx, pr, h2, nx2, pr2) ==
  /\ h2 = IF j = 1 THEN nx[q[1]] ELSE h
  /\ j # 1 => nx2[q[j - 1]] = nx[q[j]]
  /\ \A i \in 1 .. Len(q) : i # j - 1 => nx2[q[i]] = nx[q[i]]
  /\ (j # 1 /\ j # Len(q)) => pr2[q[j + 1]] = pr[q[j]]
  /\ \A i \in 1 .. Len(q) : i # j + 1 => pr2[q[i]] = pr[q[i]]

LEMMA ChainWithout ==
  ASSUME NEW h, NEW nx, NEW pr, NEW q, NEW n \in 0 .. MaxCreates,
         Linked(q, h, nx, pr), Len(q) <= n,
         NEW h2, NEW nx2, NEW pr2, NEW j \in 1 .. Len(q),
         Skips(q, j, h, nx, pr, h2, nx2, pr2)
  PROVE  /\ IsChain(h2, nx2, pr2, n)
         /\ ItemsIn(h2, nx2) = ItemsIn(h, nx) \ {q[j]}
<1>1. q \in Seq(Addr) /\ Len(q) \in Nat /\ Len(q) <= MaxCreates
      /\ \A i \in 1 .. Len(q) : q[i] \in Addr
  BY SizesAssumption DEF Linked
<1> DEFINE p == [i \in 1 .. Len(q) - 1 |-> IF i < j THEN q[i] ELSE q[i + 1]]
<1>2. p \in Seq(Addr) /\ Len(p) = Len(q) - 1 /\ Len(q) - 1 \in Nat
  <2>1. Len(q) - 1 \in Nat
    BY <1>1
  <2>2. \A i \in 1 .. Len(q) - 1 : (IF i < j THEN q[i] ELSE q[i + 1]) \in Addr
    BY <1>1
  <2>3. p \in [1 .. Len(q) - 1 -> Addr]
    BY <2>2
  <2>4. p \in Seq(Addr)
    <3> HIDE DEF p
    <3> QED
      BY <2>1, <2>3
  <2>5. Len(p) = Len(q) - 1
    <3> HIDE DEF p
    <3>1. DOMAIN p = 1 .. Len(q) - 1
      BY <2>3
    <3> QED
      BY <2>1, <2>4, <3>1
  <2> QED
    BY <2>1, <2>4, <2>5
\* Item i of the shorter chain is item At[i] of the longer one.
<1> DEFINE At(i) == IF i < j THEN i ELSE i + 1
<1>3. \A i \in 1 .. Len(p) : p[i] = q[At(i)] /\ At(i) \in 1 .. Len(q) /\ At(i) # j
  <2> SUFFICES ASSUME NEW i \in 1 .. Len(p)
               PROVE  p[i] = q[At(i)] /\ At(i) \in 1 .. Len(q) /\ At(i) # j
    OBVIOUS
  <2>1. i \in 1 .. Len(q) - 1 /\ i \in Nat
    <3> HIDE DEF p
    <3> QED
      BY <1>2
  <2>2. p[i] = IF i < j THEN q[i] ELSE q[i + 1]
    BY <2>1
  <2> HIDE DEF p
  <2>3. j \in Nat
    BY <1>1
  <2>4. CASE i < j
    BY <1>1, <2>1, <2>2, <2>3, <2>4
  <2>5. CASE ~(i < j)
    BY <1>1, <2>1, <2>2, <2>3, <2>5
  <2> QED
    BY <2>4, <2>5
<1> HIDE DEF p
<1>4. Injective(p)
  <2> SUFFICES ASSUME NEW i \in 1 .. Len(p), NEW k \in 1 .. Len(p), p[i] = p[k]
               PROVE  i = k
    BY DEF Injective
  <2>1. q[At(i)] = q[At(k)] /\ At(i) \in 1 .. Len(q) /\ At(k) \in 1 .. Len(q)
    BY <1>3
  <2>2. At(i) = At(k)
    BY <2>1 DEF Linked, Injective
  <2> QED
    BY <2>2
<1>5. h2 = IF p = << >> THEN NULL ELSE p[1]
  <2>1. q # << >> /\ h = q[1] /\ 1 \in 1 .. Len(q)
    BY <1>1 DEF Linked
  <2>2. nx[q[1]] = IF 1 = Len(q) THEN NULL ELSE q[2]
    <3>1. nx[q[1]] = IF 1 = Len(q) THEN NULL ELSE q[1 + 1]
      BY <2>1 DEF Linked
    <3> QED
      BY <3>1
  <2>6. h2 = IF j = 1 THEN nx[q[1]] ELSE h
    BY DEF Skips
  <2>3. p = << >> <=> Len(p) = 0
    BY <1>2
  <2>4. CASE j = 1
    <3>1. p # << >> => p[1] = q[2]
      BY <1>1, <1>2, <1>3, <2>3, <2>4
    <3> QED
      BY <1>1, <1>2, <2>2, <2>3, <2>4, <2>6, <3>1
  <2>5. CASE j # 1
    <3>1. Len(p) # 0 /\ p[1] = q[1]
      BY <1>1, <1>2, <1>3, <2>5
    <3> QED
      BY <2>1, <2>3, <2>5, <2>6, <3>1
  <2> QED
    BY <2>4, <2>5
<1>6. ASSUME NEW i \in 1 .. Len(p)
      PROVE  nx2[p[i]] = IF i = Len(p) THEN NULL ELSE p[i + 1]
  <2>1. p[i] = q[At(i)] /\ At(i) \in 1 .. Len(q)
    BY <1>3
  <2>2. nx[q[At(i)]] = IF At(i) = Len(q) THEN NULL ELSE q[At(i) + 1]
    BY <2>1 DEF Linked
  <2>3. i # Len(p) => p[i + 1] = q[At(i + 1)]
    <3>1. i # Len(p) => i + 1 \in 1 .. Len(p)
      BY <1>2
    <3> HIDE DEF At
    <3> QED
      BY <1>3, <3>1
  <2>4. CASE i = j - 1
    <3>1. j # 1 /\ At(i) = j - 1 /\ p[i] = q[j - 1] /\ i \in Nat
      BY <2>1, <2>4
    <3>2. nx2[p[i]] = nx[q[j]]
      BY <3>1 DEF Skips
    <3>3. nx[q[j]] = IF j = Len(q) THEN NULL ELSE q[j + 1]
      BY DEF Linked
    <3>4. i = Len(p) <=> j = Len(q)
      BY <1>1, <1>2, <2>4
    <3>5. i # Len(p) => p[i + 1] = q[j + 1]
      BY <1>1, <2>3, <2>4
    <3> QED
      BY <3>2, <3>3, <3>4, <3>5
  <2>5. CASE i # j - 1
    <3>1. At(i) # j - 1
      BY <1>2, <2>5
    <3>2. nx2[p[i]] = nx[q[At(i)]]
      BY <2>1, <3>1 DEF Skips
    <3>3. At(i) = Len(q) <=> i = Len(p)
      BY <1>1, <1>2, <2>5
    <3>4. At(i + 1) = At(i) + 1
      BY <2>5
    <3> QED
      BY <2>2, <2>3, <3>2, <3>3, <3>4
  <2> QED
    BY <2>4, <2>5
<1>7. ASSUME NEW i \in 2 .. Len(p) PROVE pr2[p[i]] = p[i - 1]
  <2>1. i \in 1 .. Len(p) /\ i - 1 \in 1 .. Len(p)
    BY <1>2
  <2>2. p[i] = q[At(i)] /\ At(i) \in 1 .. Len(q) /\ p[i - 1] = q[At(i - 1)]
    BY <1>3, <2>1
  <2>3. At(i) \in 2 .. Len(q)
    BY <1>1, <1>2, <2>1, <2>2
  <2>4. CASE i = j
    <3>1. At(i) = j + 1 /\ At(i - 1) = j - 1 /\ j # 1 /\ j # Len(q) /\ j \in 2 .. Len(q)
      BY <1>1, <1>2, <2>4
    <3>2. pr2[q[j + 1]] = pr[q[j]]
      BY <3>1 DEF Skips
    <3>3. pr[q[j]] = q[j - 1]
      BY <3>1 DEF Linked
    <3> QED
      BY <2>2, <3>1, <3>2, <3>3
  <2>5. CASE i # j
    <3>1. At(i) # j + 1 /\ At(i - 1) = At(i) - 1
      <4>1. i \in Nat /\ j \in Nat
        BY <1>1, <1>2
      <4>2. CASE i < j
        BY <2>5, <4>1, <4>2
      <4>3. CASE i > j
        BY <2>5, <4>1, <4>3
      <4> QED
        BY <2>5, <4>1, <4>2, <4>3
    <3>2. pr2[q[At(i)]] = pr[q[At(i)]]
      BY <2>2, <3>1 DEF Skips
    <3>3. pr[q[At(i)]] = q[At(i) - 1]
      BY <2>3 DEF Linked
    <3> QED
      BY <2>2, <3>1, <3>2, <3>3
  <2> QED
    BY <2>4, <2>5
<1>8. Linked(p, h2, nx2, pr2)
  BY <1>2, <1>4, <1>5, <1>6, <1>7 DEF Linked
<1>9. Len(p) <= n /\ Len(p) <= MaxCreates
  BY <1>1, <1>2, SizesAssumption
<1>10. ItemsIn(h, nx) = Elems(q) /\ ItemsIn(h2, nx2) = Elems(p)
  <2>1. ItemsIn(h, nx) = Elems(q)
    BY <1>1, ItemsAre
  <2>2. ItemsIn(h2, nx2) = Elems(p)
    BY <1>8, <1>9, ItemsAre
  <2> QED
    BY <2>1, <2>2
<1>11. Elems(p) = Elems(q) \ {q[j]}
  <2>1. ASSUME NEW i \in 1 .. Len(p) PROVE p[i] \in Elems(q) \ {q[j]}
    <3>1. p[i] = q[At(i)] /\ At(i) \in 1 .. Len(q) /\ At(i) # j
      BY <1>3
    <3>2. q[At(i)] # q[j]
      BY <3>1 DEF Linked, Injective
    <3> QED
      BY <3>1, <3>2 DEF Elems
  <2>2. ASSUME NEW i \in 1 .. Len(q), q[i] # q[j] PROVE q[i] \in Elems(p)
    <3>1. CASE i < j
      <4>1. i \in 1 .. Len(p) /\ At(i) = i
        BY <1>1, <1>2, <3>1
      <4>2. p[i] = q[At(i)]
        BY <1>3, <4>1
      <4> QED
        BY <4>1, <4>2 DEF Elems
    <3>2. CASE i > j
      <4>1. i - 1 \in 1 .. Len(p) /\ At(i - 1) = i
        BY <1>1, <1>2, <3>2
      <4>2. p[i - 1] = q[At(i - 1)]
        BY <1>3, <4>1
      <4> QED
        BY <4>1, <4>2 DEF Elems
    <3> QED
      BY <1>1, <2>2, <3>1, <3>2
  <2>3. Elems(p) \subseteq Elems(q) \ {q[j]}
    BY <2>1 DEF Elems
  <2>4. Elems(q) \ {q[j]} \subseteq Elems(p)
    BY <2>2 DEF Elems
  <2> QED
    BY <2>3, <2>4
<1> QED
  BY <1>8, <1>9, <1>10, <1>11 DEF IsChain

\* deleteKeyValueItem of the head.
LEMMA HeadRemoved ==
  ASSUME NEW h, NEW nx, NEW pr, NEW n \in 0 .. MaxCreates, IsChain(h, nx, pr, n), h # NULL
  PROVE  /\ IsChain(nx[h], nx, pr, n)
         /\ ItemsIn(nx[h], nx) = ItemsIn(h, nx) \ {h}
         /\ nx[h] \in Ref
<1>1. PICK q : Linked(q, h, nx, pr) /\ Len(q) <= n
  BY DEF IsChain
<1>2. Len(q) \in Nat /\ 1 \in 1 .. Len(q) /\ h = q[1] /\ \A i \in 1 .. Len(q) : q[i] \in Addr
  BY <1>1 DEF Linked
<1>3. nx[h] \in Ref
  <2>1. nx[q[1]] = IF 1 = Len(q) THEN NULL ELSE q[1 + 1]
    BY <1>1, <1>2 DEF Linked
  <2>2. 1 # Len(q) => 1 + 1 \in 1 .. Len(q)
    <3> DEFINE L == Len(q)
    <3>1. L \in Nat /\ 1 \in 1 .. L
      BY <1>2
    <3> HIDE DEF L
    <3>2. 1 # L => 1 + 1 \in 1 .. L
      BY <3>1
    <3> QED
      BY <3>2 DEF L
  <2> QED
    BY <1>2, <2>1, <2>2 DEF Ref
<1>4. IsChain(nx[h], nx, pr, n) /\ ItemsIn(nx[h], nx) = ItemsIn(h, nx) \ {q[1]}
  <2>1. Skips(q, 1, h, nx, pr, nx[h], nx, pr)
    BY <1>2 DEF Skips
  <2> QED
    BY <1>1, <1>2, <2>1, ChainWithout
<1> QED
  BY <1>2, <1>3, <1>4

\* deleteKeyValueItem of another item: what it touches, and what it leaves.
Unlinks(nx, pr, a, nx2, pr2) ==
  /\ nx \in [Addr -> Ref] /\ pr \in [Addr -> Ref]
  /\ nx2 = [nx EXCEPT ![pr[a]] = nx[a]]
  /\ pr2 = IF nx[a] = NULL THEN pr ELSE [pr EXCEPT ![nx[a]] = pr[a]]

LEMMA InnerRemoved ==
  ASSUME NEW h, NEW nx, NEW pr, NEW nx2, NEW pr2,
         NEW n \in 0 .. MaxCreates, IsChain(h, nx, pr, n),
         NEW a \in ItemsIn(h, nx), a # h, Unlinks(nx, pr, a, nx2, pr2)
  PROVE  /\ pr[a] \in ItemsIn(h, nx)
         /\ nx[a] = NULL \/ nx[a] \in ItemsIn(h, nx)
         /\ IsChain(h, nx2, pr2, n)
         /\ ItemsIn(h, nx2) = ItemsIn(h, nx) \ {a}
<1>1. PICK q : Linked(q, h, nx, pr) /\ Len(q) <= n
  BY DEF IsChain
<1>2. Len(q) \in Nat /\ Len(q) <= MaxCreates /\ \A i \in 1 .. Len(q) : q[i] \in Addr
  BY <1>1, SizesAssumption DEF Linked
<1>3. ItemsIn(h, nx) = Elems(q)
  BY <1>1, <1>2, ItemsAre
<1>4. PICK j \in 1 .. Len(q) : a = q[j]
  BY <1>3 DEF Elems
<1>5. j # 1 /\ j \in 2 .. Len(q) /\ j - 1 \in 1 .. Len(q)
  <2>1. 1 \in 1 .. Len(q) /\ q # << >>
    BY <1>1, <1>2 DEF Linked
  <2>2. h = q[1]
    BY <1>1, <2>1 DEF Linked
  <2> QED
    BY <1>2, <1>4, <2>2
<1>6. pr[a] = q[j - 1]
  BY <1>1, <1>4, <1>5 DEF Linked
<1>7. nx[a] = IF j = Len(q) THEN NULL ELSE q[j + 1]
  BY <1>1, <1>4 DEF Linked
<1>8. j # Len(q) => j + 1 \in 1 .. Len(q) /\ q[j + 1] \in Addr /\ q[j + 1] # NULL
  BY <1>2, AddrIsNat
<1>9. pr[a] \in ItemsIn(h, nx) /\ (nx[a] = NULL \/ nx[a] \in ItemsIn(h, nx))
  BY <1>3, <1>5, <1>6, <1>7, <1>8 DEF Elems
<1>10. j # 1 => nx2[q[j - 1]] = nx[q[j]]
  BY <1>2, <1>4, <1>5, <1>6 DEF Unlinks
<1>11. ASSUME NEW i \in 1 .. Len(q), i # j - 1 PROVE nx2[q[i]] = nx[q[i]]
  <2>1. q[i] # q[j - 1]
    BY <1>1, <1>5, <1>11 DEF Linked, Injective
  <2> QED
    BY <1>2, <1>6, <2>1 DEF Unlinks
<1>12. (j # 1 /\ j # Len(q)) => pr2[q[j + 1]] = pr[q[j]]
  BY <1>4, <1>7, <1>8 DEF Unlinks
<1>13. ASSUME NEW i \in 1 .. Len(q), i # j + 1 PROVE pr2[q[i]] = pr[q[i]]
  <2>1. CASE j = Len(q)
    BY <1>7, <2>1 DEF Unlinks
  <2>2. CASE j # Len(q)
    <3>1. q[i] # q[j + 1]
      BY <1>1, <1>8, <1>13, <2>2 DEF Linked, Injective
    <3> QED
      BY <1>2, <1>7, <1>8, <2>2, <3>1 DEF Unlinks
  <2> QED
    BY <2>1, <2>2
<1>14. IsChain(h, nx2, pr2, n) /\ ItemsIn(h, nx2) = ItemsIn(h, nx) \ {q[j]}
  <2>1. \A i \in 1 .. Len(q) : i # j - 1 => nx2[q[i]] = nx[q[i]]
    BY <1>11
  <2>2. \A i \in 1 .. Len(q) : i # j + 1 => pr2[q[i]] = pr[q[i]]
    BY <1>13
  <2>3. h = IF j = 1 THEN nx[q[1]] ELSE h
    BY <1>5
  <2> QED
    <3>1. Skips(q, j, h, nx, pr, h, nx2, pr2)
      BY <1>10, <1>12, <2>1, <2>2, <2>3 DEF Skips
    <3> QED
      BY <1>1, <3>1, ChainWithout
<1> QED
  BY <1>4, <1>9, <1>14

-----------------------------------------------------------------------------
(* The free list of one worker. *)

\* The first item of worker w's piece of memory, and what w has taken of it.
Base(w) == (w - 1) * PieceSize + 1
Used(w) == Base(w) .. memCur[w] - 1

\* The pieces lie one behind the other.
LEMMA Pieces ==
  ASSUME NEW w \in Workers
  PROVE  /\ Base(w) \in Nat /\ Base(w) >= 1
         /\ w * PieceSize = Base(w) + PieceSize - 1
         /\ Base(w) + PieceSize - 1 <= NumWorkers * PieceSize
         /\ \A v \in Workers : v < w => v * PieceSize < Base(w)
<1>1. NumWorkers \in Nat /\ PieceSize \in Nat /\ w \in Nat /\ w >= 1 /\ w <= NumWorkers
  BY WorkersAssumption, SizesAssumption DEF Workers
<1>2. \A x, y \in Nat : x <= y => x * PieceSize <= y * PieceSize
  BY <1>1
<1>3. (w - 1) * PieceSize \in Nat /\ w * PieceSize = (w - 1) * PieceSize + PieceSize
  <2>1. w - 1 \in Nat
    BY <1>1
  <2>2. \A x \in Nat : x * PieceSize \in Nat /\ (x + 1) * PieceSize = x * PieceSize + PieceSize
    BY <1>1
  <2>3. (w - 1) + 1 = w
    BY <1>1
  <2> QED
    BY <2>1, <2>2, <2>3
<1>4. w * PieceSize <= NumWorkers * PieceSize
  BY <1>1, <1>2
<1>5. ASSUME NEW v \in Workers, v < w PROVE v * PieceSize < Base(w)
  <2>1. v \in Nat /\ w - 1 \in Nat /\ v <= w - 1
    BY <1>1, <1>5 DEF Workers
  <2>2. v * PieceSize <= (w - 1) * PieceSize /\ v * PieceSize \in Nat
    BY <1>1, <1>2, <2>1
  <2> QED
    BY <1>3, <2>2 DEF Base
<1> QED
  BY <1>1, <1>3, <1>4, <1>5 DEF Base

LEMMA PiecesDisjoint ==
  ASSUME NEW v \in Workers, NEW w \in Workers, v # w,
         NEW x \in Base(v) .. v * PieceSize
  PROVE  x \notin Base(w) .. w * PieceSize
<1>1. Base(v) \in Nat /\ Base(w) \in Nat /\ v \in Nat /\ w \in Nat
  BY Pieces DEF Workers
<1>2. v * PieceSize \in Int /\ w * PieceSize \in Int
  BY <1>1, Pieces, SizesAssumption
<1>3. CASE v < w
  <2>1. v * PieceSize < Base(w)
    BY <1>3, Pieces
  <2> QED
    BY <1>1, <1>2, <2>1
<1>4. CASE w < v
  <2>1. w * PieceSize < Base(v)
    BY <1>4, Pieces
  <2> QED
    BY <1>1, <1>2, <2>1
<1> QED
  BY <1>1, <1>3, <1>4

\* A list without its first item.
LEMMA TailOf ==
  ASSUME NEW s \in Seq(Nat), s # << >>, Injective(s)
  PROVE  /\ Head(s) \in ToSet(s) /\ Head(s) \in Nat
         /\ Tail(s) \in Seq(Nat) /\ Len(Tail(s)) = Len(s) - 1
         /\ Injective(Tail(s)) /\ ToSet(Tail(s)) \subseteq ToSet(s) \ {Head(s)}
<1>1. Len(s) \in Nat /\ Len(s) # 0 /\ Head(s) = s[1] /\ 1 \in 1 .. Len(s) /\ s[1] \in Nat
      /\ DOMAIN s = 1 .. Len(s)
  OBVIOUS
<1>2. Tail(s) \in Seq(Nat) /\ Len(Tail(s)) = Len(s) - 1 /\ DOMAIN Tail(s) = 1 .. Len(s) - 1
  OBVIOUS
<1>3. \A i \in 1 .. Len(s) - 1 : Tail(s)[i] = s[i + 1] /\ i + 1 \in 1 .. Len(s) /\ i + 1 # 1
  BY <1>1
<1>4. Injective(Tail(s))
  <2> SUFFICES ASSUME NEW i \in 1 .. Len(s) - 1, NEW j \in 1 .. Len(s) - 1,
                      Tail(s)[i] = Tail(s)[j]
               PROVE  i = j
    BY <1>2 DEF Injective
  <2>1. s[i + 1] = s[j + 1] /\ i + 1 \in 1 .. Len(s) /\ j + 1 \in 1 .. Len(s)
    BY <1>3
  <2>2. i + 1 = j + 1
    BY <2>1 DEF Injective
  <2> QED
    BY <2>2
<1>5. ASSUME NEW x \in ToSet(Tail(s)) PROVE x \in ToSet(s) \ {Head(s)}
  <2>1. PICK i \in 1 .. Len(s) - 1 : x = Tail(s)[i]
    BY <1>2 DEF ToSet
  <2>2. x = s[i + 1] /\ i + 1 \in 1 .. Len(s) /\ i + 1 # 1
    BY <1>3, <2>1
  <2>3. s[i + 1] # s[1]
    BY <1>1, <2>2 DEF Injective
  <2> QED
    BY <1>1, <2>2, <2>3 DEF ToSet
<1>6. Head(s) \in ToSet(s)
  BY <1>1 DEF ToSet
<1> QED
  BY <1>1, <1>2, <1>4, <1>5, <1>6

\* The memory that a worker has taken: mem_cur starts at the worker's piece and
\* passes an item only when the free list is filled again, so it is ahead by no
\* more than the items created and the ones in the list.
Counted ==
  /\ memCur \in [Workers -> Nat] /\ slabItems \in [Workers -> Seq(Nat)]
  /\ creates \in 0 .. MaxCreates
  /\ \A w \in Workers :
       /\ Base(w) <= memCur[w] /\ memCur[w] <= Base(w) + creates + Len(slabItems[w])
       /\ Len(slabItems[w]) < AllocSize
       /\ Injective(slabItems[w]) /\ ToSet(slabItems[w]) \subseteq Used(w)

\* distributeThreadSlab: the list that an item is taken from.
LEMMA Refill ==
  ASSUME Counted, NEW w \in Workers
  PROVE  LET s == Refilled(w).list
             m == Refilled(w).cur
         IN /\ s \in Seq(Nat) /\ s # << >> /\ Injective(s) /\ Len(s) <= AllocSize
            /\ m \in Nat /\ memCur[w] <= m /\ m <= Base(w) + creates + Len(s)
            /\ \A x \in ToSet(s) : /\ x \in Base(w) .. m - 1
                                   /\ x \in ToSet(slabItems[w]) \/ x >= memCur[w]
<1>1. /\ memCur[w] \in Nat /\ slabItems[w] \in Seq(Nat) /\ creates \in Nat
      /\ Base(w) <= memCur[w] /\ memCur[w] <= Base(w) + creates + Len(slabItems[w])
      /\ Len(slabItems[w]) < AllocSize /\ Injective(slabItems[w])
      /\ ToSet(slabItems[w]) \subseteq Used(w) /\ Base(w) \in Nat
      /\ AllocSize \in Nat /\ AllocSize >= 1
  BY Pieces, SizesAssumption DEF Counted
<1>2. CASE slabItems[w] = << >>
  <2> DEFINE r == [i \in 1 .. AllocSize |-> memCur[w] + i - 1]
             s == Reverse(r)
  <2>1. Refilled(w).list = s /\ Refilled(w).cur = memCur[w] + AllocSize
    BY <1>2 DEF Refilled
  <2>2. r \in [1 .. AllocSize -> Nat] /\ Len(r) = AllocSize
    BY <1>1
  <2>3. s = [i \in 1 .. AllocSize |-> r[(AllocSize - i) + 1]]
    <3> HIDE DEF r
    <3>1. Len(r) = AllocSize
      BY <2>2
    <3>2. s = [i \in 1 .. Len(r) |-> r[(Len(r) - i) + 1]]
      BY Zenon DEF Reverse
    <3> QED
      BY <3>1, <3>2
  <2>4. \A i \in 1 .. AllocSize : s[i] = memCur[w] + AllocSize - i
    <3> SUFFICES ASSUME NEW i \in 1 .. AllocSize
                 PROVE  s[i] = memCur[w] + AllocSize - i
      OBVIOUS
    <3>1. (AllocSize - i) + 1 \in 1 .. AllocSize
      BY <1>1
    <3>2. r[(AllocSize - i) + 1] = memCur[w] + ((AllocSize - i) + 1) - 1
      BY <3>1
    <3>3. s[i] = r[(AllocSize - i) + 1]
      <4> HIDE DEF r, s
      <4> QED
        BY <2>3
    <3> QED
      BY <1>1, <3>2, <3>3
  <2>5. s \in [1 .. AllocSize -> Nat]
    <3> HIDE DEF r
    <3> QED
      BY <1>1, <2>2, <2>3
  <2> HIDE DEF r, s
  <2>6. s \in Seq(Nat) /\ Len(s) = AllocSize /\ s # << >> /\ DOMAIN s = 1 .. AllocSize
    BY <1>1, <2>5
  <2>7. Injective(s)
    <3> SUFFICES ASSUME NEW i \in 1 .. AllocSize, NEW j \in 1 .. AllocSize, s[i] = s[j]
                 PROVE  i = j
      BY <2>6 DEF Injective
    <3>1. memCur[w] + AllocSize - i = memCur[w] + AllocSize - j
      BY <2>4
    <3> QED
      BY <1>1, <3>1
  <2>8. ASSUME NEW x \in ToSet(s)
        PROVE  x \in Base(w) .. (memCur[w] + AllocSize) - 1 /\ x >= memCur[w]
    <3>1. PICK i \in 1 .. AllocSize : x = memCur[w] + AllocSize - i
      BY <2>4, <2>6 DEF ToSet
    <3> QED
      BY <1>1, <3>1
  <2>9. Len(slabItems[w]) = 0
    BY <1>2
  <2>10. memCur[w] + AllocSize \in Nat /\ memCur[w] <= memCur[w] + AllocSize
         /\ memCur[w] + AllocSize <= Base(w) + creates + Len(s)
    BY <1>1, <2>6, <2>9
  <2>11. Len(s) <= AllocSize
    BY <1>1, <2>6
  <2> QED
    BY <2>1, <2>6, <2>7, <2>8, <2>10, <2>11
<1>3. CASE slabItems[w] # << >>
  <2>1. Refilled(w).list = slabItems[w] /\ Refilled(w).cur = memCur[w]
    BY <1>3 DEF Refilled
  <2>2. Len(slabItems[w]) <= AllocSize
    BY <1>1
  <2>3. \A x \in ToSet(slabItems[w]) : x \in Base(w) .. memCur[w] - 1
    BY <1>1 DEF Used
  <2> QED
    BY <1>1, <1>3, <2>1, <2>2, <2>3
<1> QED
  BY <1>2, <1>3

\* getSlabMemByID for a new item.
LEMMA Taken ==
  ASSUME Counted, NEW w \in Workers, TakeSlabMem(w),
         creates < MaxCreates, creates' = creates + 1
  PROVE  /\ Counted'
         /\ \A v \in Workers : memCur[v] <= memCur'[v] /\ memCur[v] \in Nat /\ memCur'[v] \in Nat
         /\ \A v \in Workers \ {w} : slabItems'[v] = slabItems[v]
         /\ SlabMem(w) \notin ToSet(slabItems'[w])
         /\ \A x \in ToSet(slabItems'[w]) \cup {SlabMem(w)} :
              /\ x \in Base(w) .. memCur'[w] - 1
              /\ x \in ToSet(slabItems[w]) \/ x >= memCur[w]
<1> DEFINE s == Refilled(w).list
           m == Refilled(w).cur
<1>1. /\ s \in Seq(Nat) /\ s # << >> /\ Injective(s) /\ Len(s) <= AllocSize
      /\ m \in Nat /\ memCur[w] <= m /\ m <= Base(w) + creates + Len(s)
      /\ \A x \in ToSet(s) : /\ x \in Base(w) .. m - 1
                             /\ x \in ToSet(slabItems[w]) \/ x >= memCur[w]
  BY Refill
<1>2. SlabMem(w) = Head(s)
  BY DEF SlabMem
<1>3. slabItems' = [slabItems EXCEPT ![w] = Tail(s)] /\ memCur' = [memCur EXCEPT ![w] = m]
  BY DEF TakeSlabMem
<1> HIDE DEF s, m
<1>4. memCur \in [Workers -> Nat] /\ slabItems \in [Workers -> Seq(Nat)]
      /\ creates \in 0 .. MaxCreates /\ MaxCreates \in Nat /\ AllocSize \in Nat /\ Base(w) \in Nat
  BY Pieces, SizesAssumption DEF Counted
<1>5. /\ Head(s) \in ToSet(s)
      /\ Tail(s) \in Seq(Nat) /\ Len(Tail(s)) = Len(s) - 1 /\ Injective(Tail(s))
      /\ ToSet(Tail(s)) \subseteq ToSet(s) \ {Head(s)}
  BY <1>1, TailOf
<1>6. slabItems'[w] = Tail(s) /\ memCur'[w] = m
  BY <1>3, <1>4
<1>7. \A v \in Workers \ {w} : slabItems'[v] = slabItems[v] /\ memCur'[v] = memCur[v]
  BY <1>3, <1>4
<1>8. memCur' \in [Workers -> Nat] /\ slabItems' \in [Workers -> Seq(Nat)]
  BY <1>1, <1>3, <1>4, <1>5
<1>9. \A v \in Workers : memCur[v] <= memCur'[v] /\ memCur[v] \in Nat /\ memCur'[v] \in Nat
  <2> SUFFICES ASSUME NEW v \in Workers
               PROVE  memCur[v] <= memCur'[v] /\ memCur[v] \in Nat /\ memCur'[v] \in Nat
    OBVIOUS
  <2>1. memCur[v] \in Nat /\ memCur'[v] \in Nat
    BY <1>4, <1>8
  <2>2. CASE v = w
    BY <1>1, <1>6, <2>1, <2>2
  <2>3. CASE v # w
    BY <1>7, <2>1, <2>3
  <2> QED
    BY <2>1, <2>2, <2>3
<1>10. creates' \in 0 .. MaxCreates
  BY <1>4
<1>11. ASSUME NEW v \in Workers
       PROVE  /\ Base(v) <= memCur'[v] /\ memCur'[v] <= Base(v) + creates' + Len(slabItems'[v])
              /\ Len(slabItems'[v]) < AllocSize
              /\ Injective(slabItems'[v])
              /\ ToSet(slabItems'[v]) \subseteq Base(v) .. memCur'[v] - 1
  <2>1. CASE v = w
    <3>1. Base(w) <= memCur[w]
      BY DEF Counted
    <3>2. Base(w) <= m /\ m <= Base(w) + (creates + 1) + Len(Tail(s)) /\ Len(Tail(s)) < AllocSize
      <4>1. Len(s) \in Nat /\ creates \in Nat /\ memCur[w] \in Nat
        BY <1>1, <1>4
      <4> QED
        BY <1>1, <1>4, <1>5, <3>1, <4>1
    <3>3. ToSet(Tail(s)) \subseteq Base(w) .. m - 1
      BY <1>1, <1>5
    <3> QED
      BY <1>5, <1>6, <2>1, <3>2, <3>3
  <2>2. CASE v # w
    <3>1. /\ Base(v) <= memCur[v] /\ memCur[v] <= Base(v) + creates + Len(slabItems[v])
          /\ Len(slabItems[v]) < AllocSize /\ Injective(slabItems[v])
          /\ ToSet(slabItems[v]) \subseteq Base(v) .. memCur[v] - 1
      BY DEF Counted, Used
    <3>2. Base(v) \in Nat /\ memCur[v] \in Nat /\ Len(slabItems[v]) \in Nat /\ creates \in Nat
      BY <1>4, Pieces
    <3>3. memCur[v] <= Base(v) + (creates + 1) + Len(slabItems[v])
      BY <3>1, <3>2
    <3> QED
      BY <1>7, <2>2, <3>1, <3>3
  <2> QED
    BY <2>1, <2>2
<1>12. Counted'
  BY <1>8, <1>10, <1>11 DEF Counted, Used, Base
<1>13. \A x \in ToSet(slabItems'[w]) \cup {SlabMem(w)} : x \in ToSet(s)
  BY <1>2, <1>5, <1>6
<1>14. SlabMem(w) \notin ToSet(slabItems'[w])
  BY <1>2, <1>5, <1>6
<1>15. \A x \in ToSet(slabItems'[w]) \cup {SlabMem(w)} :
         /\ x \in Base(w) .. memCur'[w] - 1
         /\ x \in ToSet(slabItems[w]) \/ x >= memCur[w]
  BY <1>1, <1>6, <1>13
<1> QED
  BY <1>7, <1>9, <1>12, <1>14, <1>15

-----------------------------------------------------------------------------
(* The table. *)

Fields ==
  /\ head \in [Chains -> Ref] /\ key \in [Addr -> Keys]
  /\ next \in [Addr -> Ref] /\ pre \in [Addr -> Ref]

Whole == \A c \in Chains : IsChain(head[c], next, pre, creates)

\* An item lies in memory of its chain's worker, and under a name of its chain.
Placed ==
  \A c \in Chains : \A a \in ItemsIn(head[c], next) :
    a \in Used(WorkerOf[c]) /\ Chain[key[a]] = c

Unique ==
  \A c \in Chains : \A a, b \in ItemsIn(head[c], next) : key[a] = key[b] => a = b

\* An item of a chain is nowhere else, and one that left its chain in no list.
Busy ==
  \A c \in Chains : \A a \in ItemsIn(head[c], next) :
    a \notin deleting /\ a \notin slab0 /\ \A w \in Workers : a \notin ToSet(slabItems[w])

Gone ==
  /\ deleting \cap slab0 = {}
  /\ \A a \in deleting \cup slab0 :
       /\ \E w \in Workers : a \in Used(w)
       /\ \A w \in Workers : a \notin ToSet(slabItems[w])

Table == Fields /\ Whole /\ Placed /\ Unique /\ Busy /\ Gone

\* What was taken never leaves a worker's piece again once it has, so the table
\* need be right only as long as it has not.
IInv == Counted /\ (PiecesApart => Table)

LEMMA ItemsOf == \A c : Items(c) = ItemsIn(head[c], next)
BY DEF Items, Nth, ItemsIn

LEMMA OneChain ==
  ASSUME Placed, NEW c \in Chains, NEW d \in Chains, c # d,
         NEW a \in ItemsIn(head[c], next)
  PROVE  a \notin ItemsIn(head[d], next)
BY DEF Placed

\* While the pieces are apart, what a worker has taken lies in its piece.
LEMMA UsedInPiece ==
  ASSUME Counted, PiecesApart, NEW w \in Workers, NEW x \in Used(w)
  PROVE  x \in Base(w) .. w * PieceSize /\ x \in Addr
<1>1. /\ Base(w) \in Nat /\ Base(w) >= 1 /\ w * PieceSize = Base(w) + PieceSize - 1
      /\ Base(w) + PieceSize - 1 <= NumWorkers * PieceSize
  BY Pieces
<1>2. memCur[w] - 1 <= w * PieceSize /\ memCur[w] \in Nat
  BY DEF PiecesApart, Counted
<1>3. MaxCreates \in Nat /\ AllocSize \in Nat /\ PieceSize \in Nat
      /\ NumWorkers * PieceSize \in Int
  BY SizesAssumption, WorkersAssumption
<1>4. x \in Base(w) .. memCur[w] - 1
  BY DEF Used
<1> QED
  BY <1>1, <1>2, <1>3, <1>4 DEF Addr

\* What a worker takes next from its piece is in no use.
LEMMA Fresh ==
  ASSUME Counted, PiecesApart, Table, NEW w \in Workers,
         NEW x \in Base(w) .. w * PieceSize,
         x \in ToSet(slabItems[w]) \/ x >= memCur[w]
  PROVE  /\ \A c \in Chains : x \notin ItemsIn(head[c], next)
         /\ x \notin deleting /\ x \notin slab0
         /\ \A v \in Workers \ {w} : x \notin ToSet(slabItems[v])
<1>1. ASSUME NEW v \in Workers, v # w PROVE x \notin Used(v)
  <2>1. x \notin Base(v) .. v * PieceSize
    BY <1>1, PiecesDisjoint
  <2> QED
    BY <1>1, <2>1, UsedInPiece
<1>2. x \in Used(w) => x \in ToSet(slabItems[w])
  <2>1. memCur[w] \in Nat
    BY DEF Counted
  <2> QED
    BY <2>1 DEF Used
<1>3. \A c \in Chains : WorkerOf[c] \in Workers
  BY ChainAssumption
<1>4. ASSUME NEW c \in Chains, x \in ItemsIn(head[c], next) PROVE FALSE
  <2>1. x \in Used(WorkerOf[c]) /\ x \notin ToSet(slabItems[w])
    BY <1>4 DEF Table, Placed, Busy
  <2> QED
    BY <1>1, <1>2, <1>3, <2>1
<1>5. ASSUME x \in deleting \cup slab0 PROVE FALSE
  <2>1. PICK v \in Workers : x \in Used(v)
    BY <1>5 DEF Table, Gone
  <2>2. x \notin ToSet(slabItems[w])
    BY <1>5 DEF Table, Gone
  <2> QED
    BY <1>1, <1>2, <2>1, <2>2
<1>6. ASSUME NEW v \in Workers \ {w}, x \in ToSet(slabItems[v]) PROVE FALSE
  <2>1. x \in Used(v)
    BY <1>6 DEF Counted
  <2> QED
    BY <1>1, <2>1
<1> QED
  BY <1>4, <1>5, <1>6

\* A name is there if and only if its chain has an item with it.
LEMMA Located ==
  ASSUME Table, NEW k \in Keys
  PROVE  /\ Locate(k) # NULL => Locate(k) \in ItemsIn(head[Chain[k]], next) /\ key[Locate(k)] = k
         /\ Locate(k) = NULL => \A a \in ItemsIn(head[Chain[k]], next) : key[a] # k
<1> DEFINE found == {a \in Items(Chain[k]) : key[a] = k}
<1>1. Items(Chain[k]) = ItemsIn(head[Chain[k]], next)
  BY ItemsOf
<1>2. \A a \in found : a # NULL
  BY DEF Items
<1>3. Locate(k) = IF found = {} THEN NULL ELSE CHOOSE a \in found : TRUE
  BY Zenon DEF Locate
<1>4. CASE found = {}
  BY <1>1, <1>3, <1>4
<1>5. CASE found # {}
  <2>1. Locate(k) = CHOOSE a \in found : TRUE
    BY <1>3, <1>5
  <2>2. Locate(k) \in found
    <3> HIDE DEF found
    <3> QED
      BY <1>5, <2>1
  <2> QED
    BY <1>1, <1>2, <2>2
<1> QED
  BY <1>4, <1>5

\* insertKeyItem.
LEMMA InsertChains ==
  ASSUME Counted, PiecesApart, Table, NEW k \in Keys, Insert(k),
         creates < MaxCreates, creates' = creates + 1,
         SlabMem(Worker(k)) \in Addr,
         \A c \in Chains : SlabMem(Worker(k)) \notin ItemsIn(head[c], next)
  PROVE  /\ Fields' /\ Whole'
         /\ \A d \in Chains : ItemsIn(head'[d], next') =
              ItemsIn(head[d], next) \cup (IF d = Chain[k] THEN {SlabMem(Worker(k))} ELSE {})
<1> DEFINE a == SlabMem(Worker(k))
           c == Chain[k]
<1>1. c \in Chains /\ a \in Addr /\ a # NULL
  BY ChainAssumption, AddrIsNat
<1>2. PICK p \in {NULL} \cup Items(c) : pre' = NewPre(a, c, p)
  BY DEF Insert
<1>3. /\ key' = [key EXCEPT ![a] = k] /\ next' = [next EXCEPT ![a] = head[c]]
      /\ head' = [head EXCEPT ![c] = a]
  BY DEF Insert
<1>4. \A d \in Chains : a \notin ItemsIn(head[d], next)
  OBVIOUS
<1> HIDE DEF a, c
<1>5. Fields
  BY DEF Table
<1>6. creates \in 0 .. MaxCreates /\ creates' \in 0 .. MaxCreates /\ creates <= creates'
  BY SizesAssumption DEF Counted
<1>7. \A d \in Chains : IsChain(head[d], next, pre, creates)
  BY DEF Table, Whole
<1>8. p \in Ref
  <2>1. ItemsIn(head[c], next) \subseteq Addr
    BY <1>1, <1>6, <1>7, ChainItems
  <2> QED
    BY <1>2, <2>1, ItemsOf DEF Ref
<1>9. pre' = [x \in Addr |-> IF x = a THEN p ELSE IF x = head[c] THEN a ELSE pre[x]]
  BY <1>2 DEF NewPre
<1>10. Fields'
  <2>1. head' \in [Chains -> Ref]
    BY <1>1, <1>3, <1>5 DEF Fields, Ref
  <2>2. key' \in [Addr -> Keys]
    BY <1>3, <1>5 DEF Fields
  <2>3. next' \in [Addr -> Ref]
    BY <1>1, <1>3, <1>5 DEF Fields
  <2>4. pre' \in [Addr -> Ref]
    <3>1. \A x \in Addr : (IF x = a THEN p ELSE IF x = head[c] THEN a ELSE pre[x]) \in Ref
      BY <1>1, <1>5, <1>8 DEF Fields, Ref
    <3> QED
      BY <1>9, <3>1
  <2> QED
    BY <2>1, <2>2, <2>3, <2>4 DEF Fields
<1>11. ASSUME NEW d \in Chains
       PROVE  /\ IsChain(head'[d], next', pre', creates')
              /\ ItemsIn(head'[d], next') =
                   ItemsIn(head[d], next) \cup (IF d = c THEN {a} ELSE {})
  <2>1. CASE d = c
    <3>1. head'[c] = a /\ next'[a] = head[c]
      BY <1>1, <1>3, <1>5 DEF Fields
    <3>2. \A x \in Addr \ {a} : next'[x] = next[x]
      BY <1>3, <1>5 DEF Fields
    <3>3. head[c] # NULL => head[c] \in ItemsIn(head[c], next)
            /\ ItemsIn(head[c], next) \subseteq Addr
      BY <1>1, <1>6, <1>7, ChainItems
    <3>4. head[c] # NULL => pre'[head[c]] = a
      BY <1>1, <1>4, <1>9, <3>3
    <3>5. \A x \in Addr \ {a, head[c]} : pre'[x] = pre[x]
      BY <1>9
    <3>6. IsChain(head[c], next, pre, creates) /\ a \notin ItemsIn(head[c], next)
      BY <1>1, <1>4, <1>7
    <3>7. /\ IsChain(a, next', pre', creates + 1)
          /\ ItemsIn(a, next') = ItemsIn(head[c], next) \cup {a}
      BY <1>1, <1>6, <3>1, <3>2, <3>4, <3>5, <3>6, ChainPushed
    <3> QED
      BY <2>1, <3>1, <3>7
  <2>2. CASE d # c
    <3>1. head'[d] = head[d]
      BY <1>1, <1>3, <1>5, <2>2 DEF Fields
    <3>2. ItemsIn(head[d], next) \subseteq Addr
      BY <1>6, <1>7, ChainItems
    <3>3. ASSUME NEW x \in ItemsIn(head[d], next) PROVE next'[x] = next[x] /\ pre'[x] = pre[x]
      <4>1. x \in Addr /\ x # a /\ x # NULL
        BY <1>4, <3>2, <3>3, AddrIsNat
      <4>2. x # head[c]
        <5>1. head[c] # NULL => head[c] \in ItemsIn(head[c], next)
          BY <1>1, <1>6, <1>7, ChainItems
        <5>2. x \notin ItemsIn(head[c], next)
          BY <1>1, <2>2, <3>3, OneChain DEF Table
        <5> QED
          BY <4>1, <5>1, <5>2
      <4> QED
        BY <1>3, <1>5, <1>9, <4>1, <4>2 DEF Fields
    <3>4. /\ IsChain(head[d], next', pre', creates')
          /\ ItemsIn(head[d], next') = ItemsIn(head[d], next)
      BY <1>6, <1>7, <3>3, ChainKept
    <3> QED
      BY <2>2, <3>1, <3>4
  <2> QED
    BY <2>1, <2>2
<1>12. Whole'
  BY <1>11 DEF Whole
<1> QED
  BY <1>10, <1>11, <1>12 DEF a, c

LEMMA InsertStep ==
  ASSUME Counted, PiecesApart => Table, PiecesApart', NEW k \in Keys, Insert(k),
         Locate(k) = NULL, creates < MaxCreates, creates' = creates + 1, deleting' = deleting
  PROVE  /\ PiecesApart /\ Counted' /\ Table'
         /\ \E a \in Addr : 
              /\ key' = [key EXCEPT ![a] = k]
              /\ \A d \in Chains : a \notin ItemsIn(head[d], next)
              /\ \A d \in Chains : ItemsIn(head'[d], next') =
                   ItemsIn(head[d], next) \cup (IF d = Chain[k] THEN {a} ELSE {})
<1> DEFINE a == SlabMem(Worker(k))
           w == Worker(k)
           c == Chain[k]
<1>1. w \in Workers /\ c \in Chains /\ w = WorkerOf[c]
  BY ChainAssumption DEF Worker
<1>2. TakeSlabMem(w) /\ key' = [key EXCEPT ![a] = k] /\ slab0' = slab0
  BY DEF Insert, TakeSlabMem
<1> HIDE DEF c, w
<1>3. /\ Counted'
      /\ \A v \in Workers : memCur[v] <= memCur'[v] /\ memCur[v] \in Nat /\ memCur'[v] \in Nat
      /\ \A v \in Workers \ {w} : slabItems'[v] = slabItems[v]
      /\ SlabMem(w) \notin ToSet(slabItems'[w])
      /\ \A x \in ToSet(slabItems'[w]) \cup {SlabMem(w)} :
           /\ x \in Base(w) .. memCur'[w] - 1
           /\ x \in ToSet(slabItems[w]) \/ x >= memCur[w]
  BY <1>1, <1>2, Taken
<1>4. SlabMem(w) = a
  BY DEF w
<1> HIDE DEF a
<1>5. \A v \in Workers : v * PieceSize \in Int
  BY SizesAssumption DEF Workers
<1>6. PiecesApart
  BY <1>3, <1>5 DEF PiecesApart
<1>7. Table
  BY <1>6
<1>8. \A x \in ToSet(slabItems'[w]) \cup {a} : x \in Base(w) .. w * PieceSize
  <2>1. memCur'[w] - 1 <= w * PieceSize
    BY <1>1 DEF PiecesApart
  <2> QED
    BY <1>1, <1>3, <1>4, <1>5, <2>1
<1>9. ASSUME NEW x \in ToSet(slabItems'[w]) \cup {a}
      PROVE  /\ \A d \in Chains : x \notin ItemsIn(head[d], next)
             /\ x \notin deleting /\ x \notin slab0
             /\ \A v \in Workers \ {w} : x \notin ToSet(slabItems[v])
  <2>1. x \in Base(w) .. w * PieceSize
    BY <1>8
  <2>2. x \in ToSet(slabItems[w]) \/ x >= memCur[w]
    BY <1>3, <1>4
  <2> QED
    BY <1>1, <1>6, <1>7, <2>1, <2>2, Fresh
<1>10. a \in Addr
  <2>1. a \in Base(w) .. w * PieceSize
    BY <1>8
  <2>2. Base(w) \in Nat /\ Base(w) >= 1 /\ w * PieceSize <= NumWorkers * PieceSize
    BY <1>1, Pieces
  <2>3. MaxCreates \in Nat /\ AllocSize \in Nat /\ NumWorkers * PieceSize \in Int
    BY SizesAssumption, WorkersAssumption
  <2>4. w * PieceSize \in Int
    BY <1>1, <1>5
  <2> QED
    BY <2>1, <2>2, <2>3, <2>4 DEF Addr
<1>11. /\ Fields' /\ Whole'
       /\ \A d \in Chains : ItemsIn(head'[d], next') =
            ItemsIn(head[d], next) \cup (IF d = c THEN {a} ELSE {})
  BY <1>6, <1>7, <1>9, <1>10, InsertChains DEF a, c
<1>12. \A v \in Workers : \A x \in Used(v) : x \in Base(v) .. memCur'[v] - 1
  <2> SUFFICES ASSUME NEW v \in Workers, NEW x \in Used(v)
               PROVE  x \in Base(v) .. memCur'[v] - 1
    OBVIOUS
  <2>1. memCur[v] <= memCur'[v] /\ memCur[v] \in Nat /\ memCur'[v] \in Nat /\ Base(v) \in Nat
    BY <1>3, Pieces
  <2> QED
    BY <2>1 DEF Used
<1>13. ASSUME NEW d \in Chains, NEW x \in ItemsIn(head[d], next)
       PROVE  x \in Addr /\ x # a /\ key'[x] = key[x]
  <2>1. ItemsIn(head[d], next) \subseteq Addr
    <3>1. IsChain(head[d], next, pre, creates) /\ creates \in 0 .. MaxCreates
      BY <1>7 DEF Table, Whole, Counted
    <3> QED
      BY <3>1, ChainItems
  <2>2. x # a
    BY <1>9, <1>13
  <2> QED
    BY <1>2, <1>7, <1>13, <2>1, <2>2 DEF Table, Fields
<1>14. key'[a] = k
  BY <1>2, <1>7, <1>10 DEF Table, Fields
<1>15. ASSUME NEW d \in Chains, NEW x \in ItemsIn(head'[d], next')
       PROVE  x \in ItemsIn(head[d], next) \/ (x = a /\ d = c)
  BY <1>11, <1>15
<1>16. Placed'
  <2> SUFFICES ASSUME NEW d \in Chains, NEW x \in ItemsIn(head'[d], next')
               PROVE  x \in Base(WorkerOf[d]) .. memCur'[WorkerOf[d]] - 1 /\ Chain[key'[x]] = d
    BY DEF Placed, Used, Base
  <2>1. CASE x \in ItemsIn(head[d], next)
    <3>1. x \in Used(WorkerOf[d]) /\ Chain[key[x]] = d /\ WorkerOf[d] \in Workers
      BY <1>7, <2>1, ChainAssumption DEF Table, Placed
    <3> QED
      BY <1>12, <1>13, <2>1, <3>1
  <2>2. CASE x = a /\ d = c
    BY <1>1, <1>3, <1>4, <1>14, <2>2 DEF c
  <2> QED
    BY <1>15, <2>1, <2>2
<1>17. Unique'
  <2> SUFFICES ASSUME NEW d \in Chains, NEW x \in ItemsIn(head'[d], next'),
                      NEW y \in ItemsIn(head'[d], next'), key'[x] = key'[y]
               PROVE  x = y
    BY DEF Unique
  <2>1. \A z \in ItemsIn(head[c], next) : key'[z] # k
    <3>1. \A z \in ItemsIn(head[c], next) : key[z] # k
      BY <1>7, Located DEF c
    <3> QED
      BY <1>1, <1>13, <3>1
  <2>2. CASE x \in ItemsIn(head[d], next) /\ y \in ItemsIn(head[d], next)
    <3>1. key[x] = key[y]
      BY <1>13, <2>2
    <3> QED
      BY <1>7, <2>2, <3>1 DEF Table, Unique
  <2>3. CASE x = a /\ d = c
    BY <1>14, <1>15, <2>1, <2>3
  <2>4. CASE y = a /\ d = c
    BY <1>14, <1>15, <2>1, <2>4
  <2> QED
    BY <1>15, <2>2, <2>3, <2>4
<1>18. Busy'
  <2> SUFFICES ASSUME NEW d \in Chains, NEW x \in ItemsIn(head'[d], next')
               PROVE  /\ x \notin deleting /\ x \notin slab0
                      /\ \A v \in Workers : x \notin ToSet(slabItems'[v])
    BY <1>2 DEF Busy
  <2>1. CASE x \in ItemsIn(head[d], next)
    <3>1. /\ x \notin deleting /\ x \notin slab0
          /\ \A v \in Workers : x \notin ToSet(slabItems[v])
      BY <1>7, <2>1 DEF Table, Busy
    <3>2. x \notin ToSet(slabItems'[w])
      BY <1>9, <2>1
    <3> QED
      BY <1>3, <3>1, <3>2
  <2>2. CASE x = a
    BY <1>3, <1>4, <1>9, <2>2
  <2> QED
    BY <1>15, <2>1, <2>2
<1>19. Gone'
  <2>1. deleting' \cap slab0' = {} /\ deleting' \cup slab0' = deleting \cup slab0
    BY <1>2, <1>7 DEF Table, Gone
  <2>2. ASSUME NEW x \in deleting \cup slab0
        PROVE  /\ \E v \in Workers : x \in Base(v) .. memCur'[v] - 1
               /\ \A v \in Workers : x \notin ToSet(slabItems'[v])
    <3>1. PICK v \in Workers : x \in Used(v)
      BY <1>7, <2>2 DEF Table, Gone
    <3>2. \A u \in Workers : x \notin ToSet(slabItems[u])
      BY <1>7, <2>2 DEF Table, Gone
    <3>3. x \notin ToSet(slabItems'[w])
      BY <1>9, <2>2
    <3>4. x \in Base(v) .. memCur'[v] - 1
      BY <1>12, <3>1
    <3>5. \A u \in Workers : x \notin ToSet(slabItems'[u])
      BY <1>3, <3>2, <3>3
    <3> QED
      BY <3>4, <3>5
  <2> QED
    BY <2>1, <2>2 DEF Gone, Used, Base
<1>20. Table'
  BY <1>11, <1>16, <1>17, <1>18, <1>19 DEF Table
<1> QED
  BY <1>2, <1>3, <1>6, <1>9, <1>10, <1>11, <1>20 DEF c

\* deleteKeyValueItem.
LEMMA DeleteStep ==
  ASSUME Counted, PiecesApart, Table, NEW k \in Keys, PerformDeleteJob(k), Locate(k) # NULL
  PROVE  /\ Table'
         /\ \E a \in ItemsIn(head[Chain[k]], next) :
              /\ key[a] = k /\ key' = key
              /\ \A d \in Chains : ItemsIn(head'[d], next') = ItemsIn(head[d], next) \ {a}
<1> DEFINE a == Locate(k)
           c == Chain[k]
<1>1. /\ IF head[c] = a
           THEN head' = [head EXCEPT ![c] = next[a]] /\ UNCHANGED <<next, pre>>
           ELSE Unlinked(a) /\ UNCHANGED head
      /\ deleting' = deleting \cup {a} /\ UNCHANGED key
      /\ UNCHANGED <<slabVars, creates>>
  BY DEF PerformDeleteJob
<1>2. a \in ItemsIn(head[c], next) /\ key[a] = k
  BY Located
<1>3. c \in Chains
  BY ChainAssumption
<1>4. a # NULL
  OBVIOUS
<1> HIDE DEF a, c
<1>5. Fields /\ creates \in 0 .. MaxCreates /\ creates' = creates
  BY <1>1 DEF Table, Counted
<1>6. \A d \in Chains : IsChain(head[d], next, pre, creates)
  BY DEF Table, Whole
<1>7. \A d \in Chains : ItemsIn(head[d], next) \subseteq Addr
  BY <1>5, <1>6, ChainItems
<1>8. a \in Addr
  BY <1>2, <1>3, <1>7
<1>9. ASSUME NEW d \in Chains, d # c PROVE a \notin ItemsIn(head[d], next)
  BY <1>2, <1>3, <1>9, OneChain DEF Table
<1>10. /\ Fields' /\ Whole'
       /\ \A d \in Chains : ItemsIn(head'[d], next') = ItemsIn(head[d], next) \ {a}
  <2>1. CASE head[c] = a
    <3>1. head' = [head EXCEPT ![c] = next[a]] /\ next' = next /\ pre' = pre /\ key' = key
      BY <1>1, <2>1
    <3>2. head'[c] = next[a] /\ \A d \in Chains \ {c} : head'[d] = head[d]
      BY <1>3, <1>5, <3>1 DEF Fields
    <3>3. /\ IsChain(next[a], next, pre, creates)
          /\ ItemsIn(next[a], next) = ItemsIn(head[c], next) \ {a}
          /\ next[a] \in Ref
      BY <1>3, <1>4, <1>5, <1>6, <2>1, HeadRemoved
    <3>4. Fields'
      BY <1>5, <3>1, <3>3 DEF Fields
    <3>5. ASSUME NEW d \in Chains
          PROVE  /\ IsChain(head'[d], next', pre', creates')
                 /\ ItemsIn(head'[d], next') = ItemsIn(head[d], next) \ {a}
      <4>1. CASE d = c
        BY <1>5, <3>1, <3>2, <3>3, <4>1
      <4>2. CASE d # c
        BY <1>5, <1>6, <1>9, <3>1, <3>2, <4>2
      <4> QED
        BY <4>1, <4>2
    <3> QED
      BY <3>4, <3>5 DEF Whole
  <2>2. CASE head[c] # a
    <3>1. /\ next' = [next EXCEPT ![pre[a]] = next[a]]
          /\ pre' = IF next[a] = NULL THEN pre ELSE [pre EXCEPT ![next[a]] = pre[a]]
          /\ head' = head /\ key' = key
      BY <1>1, <2>2 DEF Unlinked
    <3>2. next \in [Addr -> Ref] /\ pre \in [Addr -> Ref]
      BY <1>5 DEF Fields
    <3>3. /\ pre[a] \in ItemsIn(head[c], next)
          /\ next[a] = NULL \/ next[a] \in ItemsIn(head[c], next)
          /\ IsChain(head[c], next', pre', creates)
          /\ ItemsIn(head[c], next') = ItemsIn(head[c], next) \ {a}
      <4>1. IsChain(head[c], next, pre, creates) /\ a # head[c]
        BY <1>3, <1>6, <2>2
      <4>2. Unlinks(next, pre, a, next', pre')
        BY <3>1, <3>2 DEF Unlinks
      <4> QED
        BY <1>2, <1>5, <4>1, <4>2, InnerRemoved
    <3>4. pre[a] \in Addr /\ (next[a] = NULL \/ next[a] \in Addr) /\ next[a] \in Ref
          /\ pre[a] \in Ref
      BY <1>3, <1>7, <3>3 DEF Ref
    <3>5. next' \in [Addr -> Ref]
      BY <3>1, <3>2, <3>4
    <3>6. pre' \in [Addr -> Ref]
      BY <3>1, <3>2, <3>4
    <3>7. Fields'
      BY <1>5, <3>1, <3>5, <3>6 DEF Fields
    <3>8. ASSUME NEW d \in Chains
          PROVE  /\ IsChain(head'[d], next', pre', creates')
                 /\ ItemsIn(head'[d], next') = ItemsIn(head[d], next) \ {a}
      <4>1. CASE d = c
        BY <1>5, <3>1, <3>3, <4>1
      <4>2. CASE d # c
        <5>1. ASSUME NEW x \in ItemsIn(head[d], next)
              PROVE  next'[x] = next[x] /\ pre'[x] = pre[x]
          <6>1. x \in Addr /\ x # NULL
            BY <1>7, <5>1, AddrIsNat
          <6>2. x \notin ItemsIn(head[c], next)
            BY <1>3, <4>2, <5>1, OneChain DEF Table
          <6>3. x # pre[a] /\ x # next[a]
            BY <3>3, <6>1, <6>2
          <6>4. next'[x] = next[x]
            BY <3>1, <3>2, <6>1, <6>3
          <6>5. pre'[x] = pre[x]
            BY <3>1, <3>2, <6>1, <6>3
          <6> QED
            BY <6>4, <6>5
        <5>2. /\ IsChain(head[d], next', pre', creates)
              /\ ItemsIn(head[d], next') = ItemsIn(head[d], next)
          BY <1>5, <1>6, <5>1, ChainKept
        <5> QED
          BY <1>5, <1>9, <3>1, <4>2, <5>2
      <4> QED
        BY <4>1, <4>2
    <3> QED
      BY <3>7, <3>8 DEF Whole
  <2> QED
    BY <2>1, <2>2
<1>11. memCur' = memCur /\ slabItems' = slabItems /\ slab0' = slab0 /\ key' = key
       /\ deleting' = deleting \cup {a}
  BY <1>1 DEF slabVars
<1>12. \A d \in Chains : \A x \in ItemsIn(head'[d], next') :
         x \in ItemsIn(head[d], next) /\ x # a
  BY <1>10
<1>13. Placed'
  <2>1. \A d \in Chains : \A x \in ItemsIn(head'[d], next') :
          x \in Used(WorkerOf[d]) /\ Chain[key[x]] = d
    BY <1>12 DEF Table, Placed
  <2> QED
    BY <1>11, <2>1 DEF Placed, Used, Base
<1>14. Unique'
  <2>1. \A d \in Chains : \A x, y \in ItemsIn(head'[d], next') : key[x] = key[y] => x = y
    BY <1>12 DEF Table, Unique
  <2> QED
    BY <1>11, <2>1 DEF Unique
<1>15. /\ a \notin slab0 /\ \A w \in Workers : a \notin ToSet(slabItems[w])
       /\ a \in Used(WorkerOf[c]) /\ WorkerOf[c] \in Workers
  BY <1>2, <1>3, ChainAssumption DEF Table, Busy, Placed
<1>16. Busy'
  <2>1. \A d \in Chains : \A x \in ItemsIn(head'[d], next') :
          x \notin deleting \cup {a} /\ x \notin slab0
            /\ \A w \in Workers : x \notin ToSet(slabItems[w])
    BY <1>12 DEF Table, Busy
  <2> QED
    BY <1>11, <2>1 DEF Busy
<1>17. Gone'
  <2>1. (deleting \cup {a}) \cap slab0 = {}
    BY <1>15 DEF Table, Gone
  <2>2. \A x \in (deleting \cup {a}) \cup slab0 :
          /\ \E w \in Workers : x \in Used(w)
          /\ \A w \in Workers : x \notin ToSet(slabItems[w])
    BY <1>15 DEF Table, Gone
  <2> QED
    BY <1>11, <2>1, <2>2 DEF Gone, Used, Base
<1>18. Table'
  BY <1>10, <1>13, <1>14, <1>16, <1>17 DEF Table
<1> QED
  BY <1>2, <1>10, <1>11, <1>18 DEF c

\* revokeSlabMemByID: from the items being deleted to the list of no worker.
LEMMA DoneStep ==
  ASSUME Table, NEW a \in deleting, PerformDeleteDoneJob(a)
  PROVE  Table'
<1>1. /\ slab0' = slab0 \cup {a} /\ deleting' = deleting \ {a}
      /\ head' = head /\ next' = next /\ pre' = pre /\ key' = key
      /\ memCur' = memCur /\ slabItems' = slabItems /\ creates' = creates
  BY DEF PerformDeleteDoneJob, chainVars
<1>2. Fields' /\ Whole' /\ Placed' /\ Unique'
  BY <1>1 DEF Table, Fields, Whole, Placed, Unique, Used, Base
<1>3. Busy'
  <2>1. \A d \in Chains : \A x \in ItemsIn(head[d], next) :
          x \notin deleting \ {a} /\ x \notin slab0 \cup {a}
            /\ \A w \in Workers : x \notin ToSet(slabItems[w])
    BY DEF Table, Busy
  <2> QED
    BY <1>1, <2>1 DEF Busy
<1>4. Gone'
  <2>1. (deleting \ {a}) \cap (slab0 \cup {a}) = {}
    BY DEF Table, Gone
  <2>2. \A x \in (deleting \ {a}) \cup (slab0 \cup {a}) :
          /\ \E w \in Workers : x \in Used(w)
          /\ \A w \in Workers : x \notin ToSet(slabItems[w])
    BY DEF Table, Gone
  <2> QED
    BY <1>1, <2>1, <2>2 DEF Gone, Used, Base
<1> QED
  BY <1>2, <1>3, <1>4 DEF Table

LEMMA CountedKept ==
  ASSUME Counted, UNCHANGED <<slabVars, creates>>
  PROVE  Counted' /\ (PiecesApart' <=> PiecesApart)
BY DEF Counted, PiecesApart, slabVars, Used, Base

LEMMA TableKept ==
  ASSUME Table, UNCHANGED <<chainVars, slabVars, creates, deleting>>
  PROVE  Table'
<1>1. /\ slab0' = slab0 /\ deleting' = deleting
      /\ head' = head /\ next' = next /\ pre' = pre /\ key' = key
      /\ memCur' = memCur /\ slabItems' = slabItems /\ creates' = creates
  BY DEF chainVars, slabVars
<1> QED
  BY <1>1 DEF Table, Fields, Whole, Placed, Unique, Busy, Gone, Used, Base

LEMMA InitHolds == Init => IInv
<1> SUFFICES ASSUME Init PROVE IInv
  OBVIOUS
<1>1. Counted
  <2>1. \A w \in Workers : Base(w) \in Nat /\ memCur[w] = Base(w) /\ slabItems[w] = << >>
    BY Pieces DEF Init, Base
  <2>2. memCur \in [Workers -> Nat] /\ slabItems \in [Workers -> Seq(Nat)]
    BY <2>1 DEF Init
  <2>3. ToSet(<< >>) = {} /\ Injective(<< >>) /\ Len(<< >>) = 0
    BY DEF ToSet, Injective
  <2>4. creates = 0 /\ MaxCreates \in Nat /\ AllocSize \in Nat /\ AllocSize >= 1
    BY SizesAssumption DEF Init
  <2> QED
    BY <2>1, <2>2, <2>3, <2>4 DEF Counted
<1>2. Fields
  <2>1. \A k \in {CHOOSE k \in Keys : TRUE} : k \in Keys
    BY ChainAssumption
  <2> QED
    BY <2>1 DEF Init, Fields, Ref
<1>3. \A c \in Chains : IsChain(head[c], next, pre, creates) /\ ItemsIn(head[c], next) = {}
  <2> SUFFICES ASSUME NEW c \in Chains
               PROVE  IsChain(head[c], next, pre, creates) /\ ItemsIn(head[c], next) = {}
    OBVIOUS
  <2>1. head[c] = NULL /\ creates = 0 /\ MaxCreates \in Nat
    BY SizesAssumption DEF Init
  <2>2. Linked(<< >>, head[c], next, pre)
    BY <2>1 DEF Linked, Injective
  <2>3. Len(<< >>) = 0 /\ Elems(<< >>) = {}
    BY DEF Elems
  <2>4. ItemsIn(head[c], next) = Elems(<< >>)
    BY <2>1, <2>2, <2>3, ItemsAre
  <2> QED
    BY <2>1, <2>2, <2>3, <2>4 DEF IsChain
<1>4. Table
  <2>1. deleting = {} /\ slab0 = {}
    BY DEF Init
  <2> QED
    BY <1>2, <1>3, <2>1 DEF Table, Whole, Placed, Unique, Busy, Gone
<1> QED
  BY <1>1, <1>4 DEF IInv

LEMMA StepHolds == IInv /\ [Next]_vars => IInv'
<1> SUFFICES ASSUME IInv, [Next]_vars PROVE IInv'
  OBVIOUS
<1>1. Counted /\ (PiecesApart => Table)
  BY DEF IInv
<1>2. ASSUME UNCHANGED <<chainVars, slabVars, creates, deleting>> PROVE IInv'
  <2>1. Counted' /\ (PiecesApart' <=> PiecesApart)
    BY <1>1, <1>2, CountedKept
  <2>2. PiecesApart => Table'
    BY <1>1, <1>2, TableKept
  <2> QED
    BY <2>1, <2>2 DEF IInv
<1>3. ASSUME NEW k \in Keys, PerformCreateJob(k) PROVE IInv'
  <2>1. CASE Locate(k) # NULL
    <3>1. UNCHANGED <<chainVars, slabVars, creates, deleting>>
      BY <1>3, <2>1 DEF PerformCreateJob
    <3> QED
      BY <1>2, <3>1
  <2>2. CASE Locate(k) = NULL
    <3>1. Insert(k) /\ creates < MaxCreates /\ creates' = creates + 1 /\ deleting' = deleting
      BY <1>3, <2>2 DEF PerformCreateJob
    <3>2. PiecesApart' => Table'
      BY <1>1, <2>2, <3>1, InsertStep
    <3>3. Counted'
      <4>1. Worker(k) \in Workers
        BY ChainAssumption DEF Worker
      <4>2. TakeSlabMem(Worker(k))
        BY <3>1 DEF Insert
      <4> QED
        BY <1>1, <3>1, <4>1, <4>2, Taken
    <3> QED
      BY <3>2, <3>3 DEF IInv
  <2> QED
    BY <2>1, <2>2
<1>4. ASSUME NEW k \in Keys, PerformOpenJob(k) PROVE IInv'
  BY <1>2, <1>4 DEF PerformOpenJob
<1>5. ASSUME NEW k \in Keys, PerformDeleteJob(k) PROVE IInv'
  <2>1. CASE Locate(k) = NULL
    <3>1. UNCHANGED <<chainVars, slabVars, creates, deleting>>
      BY <1>5, <2>1 DEF PerformDeleteJob
    <3> QED
      BY <1>2, <3>1
  <2>2. CASE Locate(k) # NULL
    <3>1. UNCHANGED <<slabVars, creates>>
      BY <1>5 DEF PerformDeleteJob
    <3>2. Counted' /\ (PiecesApart' <=> PiecesApart)
      BY <1>1, <3>1, CountedKept
    <3>3. PiecesApart => Table'
      BY <1>1, <1>5, <2>2, DeleteStep
    <3> QED
      BY <3>2, <3>3 DEF IInv
  <2> QED
    BY <2>1, <2>2
<1>6. ASSUME NEW a \in deleting, PerformDeleteDoneJob(a) PROVE IInv'
  <2>1. memCur' = memCur /\ slabItems' = slabItems /\ creates' = creates
    BY <1>6 DEF PerformDeleteDoneJob
  <2>2. Counted' /\ (PiecesApart' <=> PiecesApart)
    BY <1>1, <2>1 DEF Counted, PiecesApart, slabVars, Used, Base
  <2>3. PiecesApart => Table'
    BY <1>1, <1>6, DoneStep
  <2> QED
    BY <2>2, <2>3 DEF IInv
<1>7. CASE UNCHANGED vars
  BY <1>2, <1>7 DEF vars
<1> QED
  BY <1>3, <1>4, <1>5, <1>6, <1>7 DEF Next

LEMMA Invariant == Spec => []IInv
<1>1. Init => IInv
  BY InitHolds
<1>2. IInv /\ [Next]_vars => IInv'
  BY StepHolds
<1> QED
  BY <1>1, <1>2, PTL DEF Spec

-----------------------------------------------------------------------------
(* What follows. *)

LEMMA TypesHold == IInv /\ PiecesApart => TypeOK
<1> SUFFICES ASSUME IInv, PiecesApart PROVE TypeOK
  OBVIOUS
<1>1. Counted /\ Table
  BY DEF IInv
<1>2. MaxCreates \in Nat /\ AllocSize \in Nat /\ PieceSize \in Nat
      /\ NumWorkers * PieceSize \in Int /\ creates \in 0 .. MaxCreates
  BY <1>1, SizesAssumption, WorkersAssumption DEF Counted
<1>3. ASSUME NEW w \in Workers PROVE memCur[w] \in Addr /\ slabItems[w] \in Seq(Addr)
  <2>1. /\ memCur[w] \in Nat /\ slabItems[w] \in Seq(Nat)
        /\ Base(w) <= memCur[w] /\ memCur[w] - 1 <= w * PieceSize
        /\ ToSet(slabItems[w]) \subseteq Used(w)
    BY <1>1 DEF Counted, PiecesApart
  <2>2. /\ Base(w) \in Nat /\ Base(w) >= 1
        /\ w * PieceSize = Base(w) + PieceSize - 1
        /\ Base(w) + PieceSize - 1 <= NumWorkers * PieceSize
    BY Pieces
  <2>3. AllocSize >= 1
    BY SizesAssumption
  <2>4. memCur[w] \in Addr
    BY <1>2, <2>1, <2>2, <2>3 DEF Addr
  <2>5. ToSet(slabItems[w]) \subseteq Addr
    BY <1>1, <2>1, UsedInPiece
  <2>6. \A i \in 1 .. Len(slabItems[w]) : slabItems[w][i] \in Addr
    BY <2>1, <2>5 DEF ToSet
  <2>7. slabItems[w] \in Seq(Addr)
    BY <2>1, <2>6
  <2> QED
    BY <2>4, <2>7
<1>4. memCur \in [Workers -> Addr]
  BY <1>1, <1>3 DEF Counted
<1>5. slabItems \in [Workers -> Seq(Addr)]
  BY <1>1, <1>3 DEF Counted
<1>6. deleting \subseteq Addr /\ slab0 \subseteq Addr
  <2>1. ASSUME NEW a \in deleting \cup slab0 PROVE a \in Addr
    <3>1. PICK w \in Workers : a \in Used(w)
      BY <1>1, <2>1 DEF Table, Gone
    <3> QED
      BY <1>1, <3>1, UsedInPiece
  <2> QED
    BY <2>1
<1>7. \A w \in Workers : Len(slabItems[w]) < AllocSize
  BY <1>1 DEF Counted
<1>8. /\ head \in [Chains -> Addr \cup {NULL}] /\ key \in [Addr -> Keys]
      /\ next \in [Addr -> Addr \cup {NULL}] /\ pre \in [Addr -> Addr \cup {NULL}]
  BY <1>1 DEF Table, Fields, Ref
<1> QED
  BY <1>2, <1>4, <1>5, <1>6, <1>7, <1>8 DEF TypeOK

LEMMA ApartHolds == IInv /\ PiecesApart => ItemsApart
<1> SUFFICES ASSUME IInv, PiecesApart PROVE ItemsApart
  OBVIOUS
<1>1. Counted /\ Placed /\ Busy /\ Gone
  BY DEF IInv, Table
<1> DEFINE linked == UNION {Items(c) : c \in Chains}
<1>2. ASSUME NEW c \in Chains, NEW d \in Chains, c # d PROVE Items(c) \cap Items(d) = {}
  BY <1>1, <1>2, OneChain, ItemsOf
<1>3. ASSUME NEW a \in linked
      PROVE  a \notin deleting /\ a \notin slab0 /\ \A w \in Workers : a \notin ToSet(slabItems[w])
  <2>1. PICK c \in Chains : a \in Items(c)
    BY <1>3
  <2> QED
    BY <1>1, <2>1, ItemsOf DEF Busy
<1> HIDE DEF linked
<1>4. linked \cap deleting = {} /\ slab0 \cap (deleting \cup linked) = {}
  BY <1>1, <1>3 DEF Gone
<1>5. ASSUME NEW w \in Workers
      PROVE  /\ ToSet(slabItems[w]) \cap (deleting \cup slab0 \cup linked) = {}
             /\ Cardinality(ToSet(slabItems[w])) = Len(slabItems[w])
  <2>1. ToSet(slabItems[w]) \cap (deleting \cup slab0 \cup linked) = {}
    BY <1>1, <1>3 DEF Gone
  <2>2. slabItems[w] \in Seq(Nat) /\ Injective(slabItems[w])
    BY <1>1 DEF Counted
  <2> DEFINE s == slabItems[w]
             F == [i \in 1 .. Len(s) |-> s[i]]
  <2>3. ToSet(s) = Elems(s) /\ Len(s) \in Nat
    BY <2>2 DEF ToSet, Elems
  <2> HIDE DEF s
  <2>4. F \in Bijection(1 .. Len(s), Elems(s))
    BY <2>2, Zenon DEF s, Elems, Bijection, Injection, Surjection, IsInjective, Injective
  <2>5. ExistsBijection(1 .. Len(s), Elems(s))
    BY <2>4, Zenon DEF ExistsBijection
  <2>6. Cardinality(ToSet(s)) = Len(s)
    BY <2>3, <2>5, FS_CountingElements
  <2> QED
    BY <2>1, <2>6 DEF s
<1> QED
  BY <1>2, <1>4, <1>5 DEF ItemsApart, linked

LEMMA LinksHold == IInv /\ PiecesApart => ChainsLinked
<1> SUFFICES ASSUME IInv, PiecesApart PROVE ChainsLinked
  OBVIOUS
<1>1. ASSUME NEW c \in Chains
      PROVE  /\ \A i \in 0 .. MaxCreates :
                  LET a == Nth(c)[i] IN a # NULL /\ next[a] # NULL => pre[next[a]] = a
             /\ Nth(c)[Cardinality(Items(c))] = NULL
  <2>1. IsChain(head[c], next, pre, creates) /\ creates \in 0 .. MaxCreates
    BY DEF IInv, Table, Whole, Counted
  <2> QED
    BY <2>1, ChainLinks, ItemsOf DEF Nth
<1> QED
  BY <1>1, TypesHold, ApartHolds DEF ChainsLinked

\* As long as no worker has left its piece of memory, which the code does not
\* check, every chain is whole and no item is in two places.
THEOREM LinkedWhileApart == Spec => [](PiecesApart => ChainsLinked)
BY Invariant, LinksHold, PTL

\* A piece holds the items of all names ever created, and what one filling of the
\* free list leaves over.
PiecesSuffice == MaxCreates + AllocSize <= PieceSize + 1

\* No worker takes memory of another's piece, if the pieces are large enough for
\* the names ever created: memory of deleted ones is not used again.
THEOREM PiecesHold ==
  ASSUME PiecesSuffice
  PROVE  Spec => []PiecesApart
<1>1. IInv => PiecesApart
  <2> SUFFICES ASSUME IInv, NEW w \in Workers PROVE memCur[w] - 1 <= w * PieceSize
    BY DEF PiecesApart
  <2>1. /\ memCur[w] \in Nat /\ slabItems[w] \in Seq(Nat) /\ creates \in 0 .. MaxCreates
        /\ memCur[w] <= Base(w) + creates + Len(slabItems[w])
        /\ Len(slabItems[w]) < AllocSize
    BY DEF IInv, Counted
  <2>2. Base(w) \in Nat /\ w * PieceSize = Base(w) + PieceSize - 1
    BY Pieces
  <2>3. MaxCreates \in Nat /\ AllocSize \in Nat /\ PieceSize \in Nat /\ Len(slabItems[w]) \in Nat
    BY <2>1, SizesAssumption
  <2> QED
    BY <2>1, <2>2, <2>3 DEF PiecesSuffice
<1> QED
  BY <1>1, Invariant, PTL

\* With pieces that large every chain is whole and all items are apart in every
\* state.
COROLLARY LinkedAlways ==
  ASSUME PiecesSuffice
  PROVE  Spec => []ChainsLinked
<1>1. Spec => []PiecesApart
  BY PiecesHold
<1> QED
  BY <1>1, LinkedWhileApart, PTL

-----------------------------------------------------------------------------
(* The chains implement a set of names. *)

NamesIn(ky, hd, nx) == {ky[a] : a \in UNION {ItemsIn(hd[c], nx) : c \in Chains}}

LEMMA NamesAre ==
  ASSUME NEW ky, NEW hd, NEW nx,
         \A c \in Chains : \A a \in ItemsIn(hd[c], nx) : ky[a] \in Keys /\ Chain[ky[a]] = c
  PROVE  /\ NamesIn(ky, hd, nx) \subseteq Keys
         /\ \A k \in Keys : k \in NamesIn(ky, hd, nx) <=>
              \E a \in ItemsIn(hd[Chain[k]], nx) : ky[a] = k
<1>1. ASSUME NEW k \in NamesIn(ky, hd, nx)
      PROVE  k \in Keys /\ \E a \in ItemsIn(hd[Chain[k]], nx) : ky[a] = k
  <2>1. PICK c \in Chains : \E a \in ItemsIn(hd[c], nx) : k = ky[a]
    BY <1>1 DEF NamesIn
  <2>2. PICK a \in ItemsIn(hd[c], nx) : k = ky[a]
    BY <2>1
  <2>3. k \in Keys /\ Chain[k] = c
    BY <2>2
  <2> QED
    BY <2>2, <2>3
<1>2. ASSUME NEW k \in Keys, NEW a \in ItemsIn(hd[Chain[k]], nx), ky[a] = k
      PROVE  k \in NamesIn(ky, hd, nx)
  <2>1. Chain[k] \in Chains
    BY ChainAssumption
  <2> QED
    BY <1>2, <2>1 DEF NamesIn
<1> QED
  BY <1>1, <1>2

\* The set of names, as the refinement mapping of Directory has it.
Names == {key[a] : a \in UNION {Items(c) : c \in Chains}}

LEMMA NamesOf == Names = NamesIn(key, head, next)
BY ItemsOf DEF Names, NamesIn

LEMMA NamesNext == Names' = NamesIn(key', head', next')
BY DEF Names, NamesIn, Items, Nth, ItemsIn

LEMMA TableNames ==
  ASSUME Counted, Table
  PROVE  /\ Names \subseteq Keys
         /\ \A k \in Keys : k \in Names <=> Locate(k) # NULL
         /\ \A k \in Keys : k \in Names <=> \E a \in ItemsIn(head[Chain[k]], next) : key[a] = k
         /\ \A c \in Chains : \A a \in ItemsIn(head[c], next) :
              a \in Addr /\ key[a] \in Keys /\ Chain[key[a]] = c
<1>1. ASSUME NEW c \in Chains, NEW a \in ItemsIn(head[c], next)
      PROVE  a \in Addr /\ key[a] \in Keys /\ Chain[key[a]] = c
  <2>1. IsChain(head[c], next, pre, creates) /\ creates \in 0 .. MaxCreates
    BY DEF Table, Whole, Counted
  <2>2. a \in Addr
    BY <1>1, <2>1, ChainItems
  <2> QED
    BY <2>2 DEF Table, Fields, Placed
<1>2. /\ NamesIn(key, head, next) \subseteq Keys
      /\ \A k \in Keys : k \in NamesIn(key, head, next) <=>
           \E a \in ItemsIn(head[Chain[k]], next) : key[a] = k
  BY <1>1, NamesAre
<1>3. ASSUME NEW k \in Keys
      PROVE  (\E a \in ItemsIn(head[Chain[k]], next) : key[a] = k) <=> Locate(k) # NULL
  BY Located
<1> QED
  BY <1>1, <1>2, <1>3, NamesOf

LEMMA CreateNames ==
  ASSUME Counted, PiecesApart => Table, PiecesApart', NEW k \in Keys, Insert(k),
         Locate(k) = NULL, creates < MaxCreates, creates' = creates + 1, deleting' = deleting
  PROVE  Names' = Names \cup {k}
<1>1. PiecesApart
  BY InsertStep
<1>2. PICK a \in Addr :
        /\ key' = [key EXCEPT ![a] = k]
        /\ \A d \in Chains : a \notin ItemsIn(head[d], next)
        /\ \A d \in Chains : ItemsIn(head'[d], next') =
             ItemsIn(head[d], next) \cup (IF d = Chain[k] THEN {a} ELSE {})
  BY InsertStep
<1>3. Chain[k] \in Chains
  BY ChainAssumption
<1>4. \A d \in Chains : \A x \in ItemsIn(head[d], next) :
        x \in Addr /\ key[x] \in Keys /\ Chain[key[x]] = d
  BY <1>1, TableNames
<1>5. key'[a] = k
  BY <1>1, <1>2 DEF Table, Fields
<1>6. \A d \in Chains : \A x \in ItemsIn(head[d], next) : key'[x] = key[x] /\ x # a
  <2> SUFFICES ASSUME NEW d \in Chains, NEW x \in ItemsIn(head[d], next)
               PROVE  key'[x] = key[x] /\ x # a
    OBVIOUS
  <2>1. x \in Addr /\ x # a
    BY <1>2, <1>4
  <2> QED
    BY <1>1, <1>2, <2>1 DEF Table, Fields
<1>7. ASSUME NEW n \in NamesIn(key', head', next') PROVE n \in NamesIn(key, head, next) \cup {k}
  <2>1. PICK d \in Chains : \E x \in ItemsIn(head'[d], next') : n = key'[x]
    BY <1>7 DEF NamesIn
  <2>2. PICK x \in ItemsIn(head'[d], next') : n = key'[x]
    BY <2>1
  <2>3. x \in ItemsIn(head[d], next) \/ x = a
    BY <1>2, <2>2
  <2>4. x \in ItemsIn(head[d], next) => n = key[x]
    BY <1>6, <2>2
  <2> QED
    BY <1>5, <2>2, <2>3, <2>4 DEF NamesIn
<1>8. ASSUME NEW n \in NamesIn(key, head, next) PROVE n \in NamesIn(key', head', next')
  <2>1. PICK d \in Chains : \E x \in ItemsIn(head[d], next) : n = key[x]
    BY <1>8 DEF NamesIn
  <2>2. PICK x \in ItemsIn(head[d], next) : n = key[x]
    BY <2>1
  <2>3. x \in ItemsIn(head'[d], next') /\ n = key'[x]
    BY <1>2, <1>6, <2>2
  <2> QED
    BY <2>3 DEF NamesIn
<1>9. k \in NamesIn(key', head', next')
  <2>1. a \in ItemsIn(head'[Chain[k]], next')
    BY <1>2, <1>3
  <2> QED
    BY <1>3, <1>5, <2>1 DEF NamesIn
<1> QED
  BY <1>7, <1>8, <1>9, NamesOf, NamesNext

LEMMA DeleteNames ==
  ASSUME Counted, PiecesApart, Table, NEW k \in Keys, PerformDeleteJob(k), Locate(k) # NULL
  PROVE  Names' = Names \ {k}
<1>1. PICK a \in ItemsIn(head[Chain[k]], next) :
        /\ key[a] = k /\ key' = key
        /\ \A d \in Chains : ItemsIn(head'[d], next') = ItemsIn(head[d], next) \ {a}
  BY DeleteStep
<1>2. Chain[k] \in Chains
  BY ChainAssumption
<1>3. \A d \in Chains : \A x \in ItemsIn(head[d], next) :
        x \in Addr /\ key[x] \in Keys /\ Chain[key[x]] = d
  BY TableNames
<1>4. \A d \in Chains : \A x \in ItemsIn(head[d], next) : key[x] = k => x = a
  <2> SUFFICES ASSUME NEW d \in Chains, NEW x \in ItemsIn(head[d], next), key[x] = k
               PROVE  x = a
    OBVIOUS
  <2>1. d = Chain[k]
    BY <1>3
  <2> QED
    BY <1>1, <1>2, <2>1 DEF Table, Unique
<1>5. ASSUME NEW n \in NamesIn(key', head', next') PROVE n \in NamesIn(key, head, next) \ {k}
  <2>1. PICK d \in Chains : \E x \in ItemsIn(head'[d], next') : n = key'[x]
    BY <1>5 DEF NamesIn
  <2>2. PICK x \in ItemsIn(head'[d], next') : n = key'[x]
    BY <2>1
  <2>3. x \in ItemsIn(head[d], next) /\ x # a /\ n = key[x]
    BY <1>1, <2>2
  <2>4. n # k
    BY <1>4, <2>3
  <2> QED
    BY <2>3, <2>4 DEF NamesIn
<1>6. ASSUME NEW n \in NamesIn(key, head, next), n # k PROVE n \in NamesIn(key', head', next')
  <2>1. PICK d \in Chains : \E x \in ItemsIn(head[d], next) : n = key[x]
    BY <1>6 DEF NamesIn
  <2>2. PICK x \in ItemsIn(head[d], next) : n = key[x]
    BY <2>1
  <2>3. x \in ItemsIn(head'[d], next') /\ n = key'[x]
    BY <1>1, <1>6, <2>2
  <2> QED
    BY <2>3 DEF NamesIn
<1> QED
  BY <1>5, <1>6, NamesOf, NamesNext

LEMMA NamesKept == UNCHANGED chainVars => Names' = Names
BY NamesOf, NamesNext DEF chainVars

LEMMA DirectoryStep ==
  ASSUME IInv, PiecesApart', [Next]_vars
  PROVE  \/ \E k \in Keys :
              \/ Names' = Names \cup {k} /\ answer' = <<"create", k, k \notin Names>>
              \/ Names' = Names /\ answer' = <<"open", k, k \in Names>>
              \/ Names' = Names \ {k} /\ answer' = <<"delete", k, k \in Names>>
         \/ UNCHANGED <<Names, answer>>
<1>1. Counted /\ (PiecesApart => Table)
  BY DEF IInv
<1>2. ASSUME PiecesApart
      PROVE  /\ \A k \in Keys : (k \in Names) = (Locate(k) # NULL)
             /\ \A k \in Keys : (k \notin Names) = (Locate(k) = NULL)
  <2>1. \A k \in Keys : k \in Names <=> Locate(k) # NULL
    BY <1>1, <1>2, TableNames
  <2> QED
    BY <2>1
<1>3. ASSUME NEW k \in Keys, PerformCreateJob(k)
      PROVE  Names' = Names \cup {k} /\ answer' = <<"create", k, k \notin Names>>
  <2>1. answer' = <<"create", k, Locate(k) = NULL>>
    BY <1>3 DEF PerformCreateJob
  <2>2. CASE Locate(k) # NULL
    <3>1. UNCHANGED <<chainVars, slabVars, creates>>
      BY <1>3, <2>2 DEF PerformCreateJob
    <3>2. PiecesApart
      BY <1>1, <3>1, CountedKept
    <3>3. Names' = Names
      BY <3>1, NamesKept
    <3> QED
      BY <1>2, <2>1, <2>2, <3>2, <3>3
  <2>3. CASE Locate(k) = NULL
    <3>1. Insert(k) /\ creates < MaxCreates /\ creates' = creates + 1 /\ deleting' = deleting
      BY <1>3, <2>3 DEF PerformCreateJob
    <3>2. PiecesApart
      BY <1>1, <2>3, <3>1, InsertStep
    <3>3. Names' = Names \cup {k}
      BY <1>1, <2>3, <3>1, CreateNames
    <3> QED
      BY <1>2, <2>1, <3>2, <3>3
  <2> QED
    BY <2>2, <2>3
<1>4. ASSUME NEW k \in Keys, PerformOpenJob(k)
      PROVE  Names' = Names /\ answer' = <<"open", k, k \in Names>>
  <2>1. UNCHANGED <<chainVars, slabVars, creates>> /\ answer' = <<"open", k, Locate(k) # NULL>>
    BY <1>4 DEF PerformOpenJob
  <2>2. PiecesApart
    BY <1>1, <2>1, CountedKept
  <2>3. Names' = Names
    BY <2>1, NamesKept
  <2> QED
    BY <1>2, <2>1, <2>2, <2>3
<1>5. ASSUME NEW k \in Keys, PerformDeleteJob(k)
      PROVE  Names' = Names \ {k} /\ answer' = <<"delete", k, k \in Names>>
  <2>1. UNCHANGED <<slabVars, creates>> /\ answer' = <<"delete", k, Locate(k) # NULL>>
    BY <1>5 DEF PerformDeleteJob
  <2>2. PiecesApart
    BY <1>1, <2>1, CountedKept
  <2>3. CASE Locate(k) = NULL
    <3>1. UNCHANGED chainVars
      BY <1>5, <2>3 DEF PerformDeleteJob
    <3>2. Names' = Names
      BY <3>1, NamesKept
    <3> QED
      BY <1>2, <2>1, <2>2, <2>3, <3>2
  <2>4. CASE Locate(k) # NULL
    <3>1. Names' = Names \ {k}
      BY <1>1, <1>5, <2>2, <2>4, DeleteNames
    <3> QED
      BY <1>2, <2>1, <2>2, <3>1
  <2> QED
    BY <2>3, <2>4
<1>6. ASSUME NEW a \in deleting, PerformDeleteDoneJob(a) PROVE UNCHANGED <<Names, answer>>
  BY <1>6, NamesKept DEF PerformDeleteDoneJob
<1>7. ASSUME UNCHANGED vars PROVE UNCHANGED <<Names, answer>>
  BY <1>7, NamesKept DEF vars
<1> QED
  BY <1>3, <1>4, <1>5, <1>6, <1>7 DEF Next

\* While no worker leaves its piece of memory, the chains keep the promise of a set
\* of names: every name created, opened or deleted in them is answered, and changes
\* the names, as MetaDirectory says.
THEOREM DirectoryWhileApart == Spec /\ []PiecesApart => DirectorySpec
<1>1. Init => Directory!Init
  <2> SUFFICES ASSUME Init PROVE Names = {} /\ answer = << >>
    BY DEF Directory!Init, Names
  <2>1. Counted /\ PiecesApart /\ Table
    <3>1. IInv
      BY InitHolds
    <3>2. PiecesApart
      <4> SUFFICES ASSUME NEW w \in Workers PROVE memCur[w] - 1 <= w * PieceSize
        BY DEF PiecesApart
      <4>1. memCur[w] = Base(w)
        BY DEF Init, Base
      <4>2. Base(w) \in Nat /\ w * PieceSize = Base(w) + PieceSize - 1
        BY Pieces
      <4> QED
        BY <4>1, <4>2, SizesAssumption
    <3> QED
      BY <3>1, <3>2 DEF IInv
  <2>2. \A k \in Keys : Locate(k) = NULL
    <3>1. ASSUME NEW k \in Keys, Locate(k) # NULL PROVE FALSE
      <4>1. Chain[k] \in Chains /\ head[Chain[k]] = NULL
        BY ChainAssumption DEF Init
      <4>2. PICK q : Linked(q, head[Chain[k]], next, pre) /\ Len(q) <= 0
        BY <2>1, <4>1 DEF Table, Whole, IsChain, Init
      <4>3. Len(q) \in Nat /\ MaxCreates \in Nat
        BY <4>2, SizesAssumption DEF Linked
      <4>4. ItemsIn(head[Chain[k]], next) = Elems(q)
        BY <4>2, <4>3, ItemsAre
      <4>5. Elems(q) = {}
        BY <4>2, <4>3 DEF Elems
      <4> QED
        BY <2>1, <3>1, <4>4, <4>5, Located
    <3> QED
      BY <3>1
  <2>3. Names = {}
    BY <2>1, <2>2, TableNames
  <2> QED
    BY <2>3 DEF Init
<1>2. IInv /\ PiecesApart' /\ [Next]_vars
        => [Directory!Next]_<<{key[a] : a \in UNION {Items(c) : c \in Chains}}, answer>>
  <2> SUFFICES ASSUME IInv, PiecesApart', [Next]_vars
               PROVE  [Directory!Next]_<<{key[a] : a \in UNION {Items(c) : c \in Chains}}, answer>>
    OBVIOUS
  <2> QED
    BY DirectoryStep DEF Names, Directory!Next, Directory!Create, Directory!Open, Directory!Delete
<1> QED
  BY <1>1, <1>2, Invariant, PTL DEF Spec, DirectorySpec, Directory!Spec

\* The same for every behaviour, with pieces large enough for all names created.
COROLLARY DirectoryKept ==
  ASSUME PiecesSuffice
  PROVE  Spec => DirectorySpec
<1>1. Spec => []PiecesApart
  BY PiecesHold
<1> QED
  BY <1>1, DirectoryWhileApart, PTL

=============================================================================
