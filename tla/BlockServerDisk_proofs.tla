------------------------- MODULE BlockServerDisk_proofs -------------------------
(***************************************************************************)
(* What holds of the open files and the disk jobs of a block server for    *)
(* any number of clients, blocks, rows and descriptors.                    *)
(*                                                                         *)
(* The two invariants build on each other.  Rows and descriptors have one  *)
(* owner each, which does not depend on the jobs.  The jobs, put end to    *)
(* end from the manager's queue back to the worker's, are numbered: those  *)
(* of a client bear the numbers of the pieces it asked for and did not     *)
(* receive, and the offset of its descriptor separates the jobs that have  *)
(* been read from those that have not.                                     *)
(***************************************************************************)
EXTENDS BlockServerDisk, FiniteSetTheorems, SequenceTheorems, TLAPS

\* A socket number belongs to one live client, and a file to a client that is
\* being served.
Sockets ==
  \A c \in Conns :
    /\ Alive(c) => sock[c] \in Socks
    /\ file[c] # NoFile => conn[c] = "monitored"
    /\ \A d \in Conns \ {c} : Alive(c) /\ Alive(d) => sock[c] # sock[d]

\* A row in use has a client that holds it, and a descriptor of its own that is
\* open for the row's block.
RowsOwned ==
  \A r \in Rows : table[r] # Free =>
    \E c \in Conns : /\ Alive(c) /\ sock[c] = table[r].sock
                     /\ file[c] # NoFile /\ file[c].row = r

RowsOpen ==
  \A r \in Rows : table[r] # Free =>
    /\ fds[table[r].fd] # Closed /\ fds[table[r].fd].block = table[r].block
    /\ \A q \in Rows \ {r} : table[q] # Free => table[q].fd # table[r].fd

FdsHaveRows ==
  \A f \in Fds : fds[f] # Closed => \E r \in Rows : table[r] # Free /\ table[r].fd = f

RowsHeld ==
  "openDeleted" \notin mishaps =>
    \A c \in Conns : file[c] # NoFile =>
      OwnsRow(c, file[c].row) /\ table[file[c].row].block = file[c].block

\* The jobs in use, in the order in which they will be answered.
Working == IF worker = Idle THEN <<>> ELSE <<worker.job>>
Pipeline == mgrQ \o (doneQ \o (Working \o (handleQ \o workQ)))

JobsCounted ==
  jobNum = Len(mgrQ) + Len(doneQ) + Len(Working) + Len(handleQ) + Len(workQ)

FilesInv == Sockets /\ RowsOwned /\ RowsOpen /\ FdsHaveRows /\ RowsHeld

OwnersInv == TypeOK /\ FilesInv /\ JobsCounted

\* The first so many of them have been read.
NumRead == Len(mgrQ) + Len(doneQ) + IF worker # Idle /\ worker.pc = "done" THEN 1 ELSE 0

FdOf(c) == table[file[c].row].fd
Offset(c) == fds[FdOf(c)].off

\* num gives each job the number of its piece: the jobs of a client bear, in
\* ascending order, those it asked for and has not received.  Only a manager
\* that is held up at the worker's pipe has not made all of its jobs.
Numbering(num, made) ==
  /\ num \in [1 .. Len(Pipeline) -> Nat] /\ made \in [Conns -> Nat]
  /\ \A c \in Conns : /\ Len(got[c]) <= made[c] /\ made[c] <= asked[c]
                      /\ mgr # "inPut" => made[c] = asked[c]
  /\ \A i \in 1 .. Len(Pipeline) :
       Len(got[Pipeline[i].conn]) < num[i] /\ num[i] <= made[Pipeline[i].conn]
  /\ \A i, j \in 1 .. Len(Pipeline) :
       i < j /\ Pipeline[i].conn = Pipeline[j].conn => num[i] < num[j]
  /\ \A c \in Conns : \A n \in Len(got[c]) + 1 .. made[c] :
       \E i \in 1 .. Len(Pipeline) : Pipeline[i].conn = c /\ num[i] = n

\* A job is for the file its client reads, and it has been read exactly if the
\* descriptor is past its piece.
JobFits(i, n) ==
  LET j == Pipeline[i]
      c == j.conn
  IN /\ file[c] # NoFile /\ file[c].mode = "r" /\ j.row = file[c].row
     /\ i <= NumRead => n <= Offset(c) /\ j.data = <<file[c].block, n>>
     /\ i > NumRead => n > Offset(c)

\* A client has received its block from the start, and its descriptor stands
\* between what it received and what it asked for.
ClientFits(c) ==
  /\ asked[c] <= Len(got[c]) + Window
  /\ hungUp[c] \/ file[c] = NoFile => asked[c] = Len(got[c])
  /\ file[c] # NoFile => \A i \in 1 .. Len(got[c]) : got[c][i] = <<file[c].block, i>>
  /\ file[c] # NoFile /\ file[c].mode = "w" => asked[c] = Len(got[c])
  /\ file[c] # NoFile /\ file[c].mode = "r" => stored[file[c].block] = BlockLen

OffsetFits(c, n) ==
  file[c] # NoFile /\ file[c].mode = "r" => Len(got[c]) <= Offset(c) /\ Offset(c) <= n

WorkerFits ==
  worker # Idle /\ worker.pc = "read" => worker.fd = FdOf(worker.job.conn)

ReadsInv ==
  mishaps = {} =>
    /\ \E num, made : /\ Numbering(num, made)
                      /\ \A i \in 1 .. Len(Pipeline) : JobFits(i, num[i])
                      /\ \A c \in Conns : OffsetFits(c, made[c])
    /\ \A c \in Conns : ClientFits(c)
    /\ WorkerFits

\* The memory of the jobs moves only for more jobs than there were at the start.
JobMemory ==
  /\ allocNum \in Nat /\ JobStep <= allocNum
  /\ moved => JobStep < jobNum

IInv == OwnersInv /\ ReadsInv /\ JobMemory

\* The process may have as many files open as the table has rows.
FdsSuffice ==
  IsFiniteSet(Rows) /\ IsFiniteSet(Fds) /\ Cardinality(Rows) <= Cardinality(Fds)

-----------------------------------------------------------------------------
(* Lemmas about the records and the table. *)

FileRec == [mode : {"r", "w"}, block : Blocks, row : Rows]
RowRec == [block : Blocks, sock : Socks, fd : Fds]
FdRec == [block : Blocks, off : 0 .. BlockLen]
Looks == [pc : {"look", "done"}, job : Jobs]
Reads == [pc : {"read"}, job : Jobs, fd : Fds]

LEMMA RecordKinds ==
  /\ \A x \in RowRec : x # Free
  /\ \A x \in FdRec : x # Closed
  /\ \A x \in FileRec : x # NoFile
  /\ \A x \in Looks \cup Reads : x # Idle
<1>1. ASSUME NEW x \in RowRec PROVE x # Free
  <2>1. "sock" \in DOMAIN x
    BY DEF RowRec
  <2>2. "sock" \notin DOMAIN Free
    BY DEF Free
  <2> QED
    BY <2>1, <2>2
<1>2. ASSUME NEW x \in FdRec PROVE x # Closed
  <2>1. "off" \in DOMAIN x
    BY DEF FdRec
  <2>2. "off" \notin DOMAIN Closed
    BY DEF Closed
  <2> QED
    BY <2>1, <2>2
<1>3. ASSUME NEW x \in FileRec PROVE x # NoFile
  <2>1. x.mode \in {"r", "w"}
    BY DEF FileRec
  <2>2. NoFile.mode = "none"
    BY DEF NoFile
  <2> QED
    BY <2>1, <2>2
<1>4. ASSUME NEW x \in Looks \cup Reads PROVE x # Idle
  <2>1. x.pc \in {"look", "done", "read"}
    BY DEF Looks, Reads
  <2>2. Idle.pc = "idle"
    BY DEF Idle
  <2> QED
    BY <2>1, <2>2
<1> QED
  BY <1>1, <1>2, <1>3, <1>4

LEMMA LowestIsIn ==
  ASSUME NEW S \in SUBSET Nat, S # {}
  PROVE  Lowest(S) \in S
<1> DEFINE R == {ss \in Nat \X Nat : ss[1] < ss[2]}
<1>1. OpToRel(<, Nat) = R
  BY Zenon DEF OpToRel
<1>2. PICK x \in S : \A y \in S : <<y, x>> \notin R
  BY <1>1, WFMin, NatLessThanWellFounded
<1>3. ASSUME NEW y \in S PROVE x <= y
  <2>1. <<y, x>> \notin R /\ y \in Nat /\ x \in Nat
    BY <1>2
  <2>2. ~(y < x)
    BY <2>1
  <2> QED
    BY <2>1, <2>2
<1> QED
  BY <1>3 DEF Lowest

LEMMA TableTypes ==
  ASSUME TypeOK
  PROVE  /\ table \in [Rows -> {Free} \cup RowRec] /\ fds \in [Fds -> {Closed} \cup FdRec]
         /\ file \in [Conns -> {NoFile} \cup FileRec]
         /\ \A r \in Rows : table[r] # Free => table[r] \in RowRec /\ table[r].fd \in Fds
                                              /\ table[r].block \in Blocks /\ table[r].sock \in Socks
         /\ \A f \in Fds : fds[f] # Closed => fds[f] \in FdRec
                                              /\ fds[f].block \in Blocks /\ fds[f].off \in 0 .. BlockLen
         /\ \A c \in Conns : file[c] # NoFile => file[c] \in FileRec
                                /\ file[c].row \in Rows /\ file[c].block \in Blocks
                                /\ file[c].mode \in {"r", "w"}
<1>1. /\ table \in [Rows -> {Free} \cup RowRec] /\ fds \in [Fds -> {Closed} \cup FdRec]
      /\ file \in [Conns -> {NoFile} \cup FileRec]
  BY DEF TypeOK, RowRec, FdRec, FileRec
<1>2. \A x \in RowRec : x.fd \in Fds /\ x.block \in Blocks /\ x.sock \in Socks
  BY DEF RowRec
<1>3. \A x \in FdRec : x.block \in Blocks /\ x.off \in 0 .. BlockLen
  BY DEF FdRec
<1>4. \A x \in FileRec : x.row \in Rows /\ x.block \in Blocks /\ x.mode \in {"r", "w"}
  BY DEF FileRec
<1> QED
  BY <1>1, <1>2, <1>3, <1>4

\* As long as a row is free, so is a descriptor: those in use have different rows.
LEMMA FdIsFree ==
  ASSUME FdsSuffice, TypeOK, FdsHaveRows, FreeRows # {}
  PROVE  \E f \in Fds : fds[f] = Closed
<1> SUFFICES ASSUME \A f \in Fds : fds[f] # Closed PROVE FALSE
  OBVIOUS
<1>1. PICK r \in Rows : table[r] = Free
  BY DEF FreeRows
<1> DEFINE RowOf(f) == CHOOSE q \in Rows : table[q] # Free /\ table[q].fd = f
           rows == [f \in Fds |-> RowOf(f)]
<1>2. \A f \in Fds : RowOf(f) \in Rows /\ table[RowOf(f)] # Free /\ table[RowOf(f)].fd = f
  BY DEF FdsHaveRows
<1> HIDE DEF RowOf
<1>3. \A f \in Fds : rows[f] \in Rows \ {r} /\ table[rows[f]].fd = f
  BY <1>1, <1>2
<1>4. rows \in Injection(Fds, Rows \ {r})
  BY <1>3 DEF Injection, IsInjective
<1>5. IsFiniteSet(Rows \ {r}) /\ Cardinality(Rows \ {r}) = Cardinality(Rows) - 1
  BY FS_RemoveElement DEF FdsSuffice
<1>6. Cardinality(Fds) <= Cardinality(Rows \ {r})
  BY <1>4, <1>5, FS_Injection
<1>7. Cardinality(Rows) \in Nat /\ Cardinality(Fds) \in Nat
  BY FS_CardinalityType DEF FdsSuffice
<1> QED
  BY <1>5, <1>6, <1>7 DEF FdsSuffice

\* After rows are closed, the others keep what they had and no descriptor is left.
LEMMA ClosedRows ==
  ASSUME TypeOK, RowsOpen, FdsHaveRows, NEW R \in SUBSET Rows, CloseRows(R)
  PROVE  /\ table' \in [Rows -> {Free} \cup RowRec] /\ fds' \in [Fds -> {Closed} \cup FdRec]
         /\ \A r \in Rows : table'[r] = IF r \in R THEN Free ELSE table[r]
         /\ \A r \in Rows \ R : table[r] # Free => fds'[table[r].fd] = fds[table[r].fd]
         /\ RowsOpen' /\ FdsHaveRows'
<1>1. /\ table \in [Rows -> {Free} \cup RowRec] /\ fds \in [Fds -> {Closed} \cup FdRec]
      /\ \A r \in Rows : table[r] # Free => table[r].fd \in Fds
  BY TableTypes
<1>2. \A r \in Rows : table'[r] = IF r \in R THEN Free ELSE table[r]
  BY DEF CloseRows
<1>3. \A f \in Fds : fds'[f] = IF \E r \in R : table[r] # Free /\ table[r].fd = f
                                 THEN Closed ELSE fds[f]
  BY DEF CloseRows
<1>4. table' \in [Rows -> {Free} \cup RowRec]
  BY <1>1 DEF CloseRows
<1>5. fds' \in [Fds -> {Closed} \cup FdRec]
  BY <1>1 DEF CloseRows
<1>6. ASSUME NEW r \in Rows \ R, table[r] # Free PROVE fds'[table[r].fd] = fds[table[r].fd]
  <2>1. \A q \in R : table[q] # Free => table[q].fd # table[r].fd
    BY <1>6 DEF RowsOpen
  <2> QED
    BY <1>1, <1>3, <1>6, <2>1
<1>7. RowsOpen'
  <2> SUFFICES ASSUME NEW r \in Rows, table'[r] # Free
               PROVE  /\ fds'[table'[r].fd] # Closed /\ fds'[table'[r].fd].block = table'[r].block
                      /\ \A q \in Rows \ {r} : table'[q] # Free => table'[q].fd # table'[r].fd
    BY DEF RowsOpen
  <2>1. r \in Rows \ R /\ table'[r] = table[r] /\ table[r] # Free
    BY <1>2
  <2>2. fds[table[r].fd] # Closed /\ fds[table[r].fd].block = table[r].block
    BY <2>1 DEF RowsOpen
  <2>3. \A q \in Rows \ {r} : table[q] # Free => table[q].fd # table[r].fd
    BY <2>1 DEF RowsOpen
  <2>4. \A q \in Rows : table'[q] # Free => table[q] # Free /\ table'[q] = table[q]
    BY <1>2
  <2> QED
    BY <1>6, <2>1, <2>2, <2>3, <2>4
<1>8. FdsHaveRows'
  <2> SUFFICES ASSUME NEW f \in Fds, fds'[f] # Closed
               PROVE  \E r \in Rows : table'[r] # Free /\ table'[r].fd = f
    BY DEF FdsHaveRows
  <2>1. fds[f] # Closed /\ ~\E r \in R : table[r] # Free /\ table[r].fd = f
    BY <1>3
  <2>2. PICK r \in Rows : table[r] # Free /\ table[r].fd = f
    BY <2>1 DEF FdsHaveRows
  <2>3. table'[r] = table[r]
    BY <1>2, <2>1, <2>2
  <2> QED
    BY <2>2, <2>3
<1> QED
  BY <1>2, <1>4, <1>5, <1>6, <1>7, <1>8

\* A client is given a row that nobody had, and a descriptor likewise.
LEMMA TakenRow ==
  ASSUME FdsSuffice, TypeOK, RowsOpen, FdsHaveRows, FreeRows # {},
         NEW c \in Conns, NEW b \in Blocks, NEW mode \in {"r", "w"},
         sock[c] \in Socks, TakeRow(c, b, mode)
  PROVE  /\ table' \in [Rows -> {Free} \cup RowRec] /\ fds' \in [Fds -> {Closed} \cup FdRec]
         /\ file' \in [Conns -> {NoFile} \cup FileRec]
         /\ \E r \in Rows, f \in Fds :
              /\ table[r] = Free /\ fds[f] = Closed
              /\ table' = [table EXCEPT ![r] = [block |-> b, sock |-> sock[c], fd |-> f]]
              /\ fds' = [fds EXCEPT ![f] = [block |-> b, off |-> 0]]
              /\ file' = [file EXCEPT ![c] = [mode |-> mode, block |-> b, row |-> r]]
         /\ RowsOpen' /\ FdsHaveRows'
<1> DEFINE r == Lowest(FreeRows)
           f == Lowest({g \in Fds : fds[g] = Closed})
           row == [block |-> b, sock |-> sock[c], fd |-> f]
           fd == [block |-> b, off |-> 0]
<1>1. r \in Rows /\ table[r] = Free
  <2>1. FreeRows \in SUBSET Nat
    BY SetsAssumption DEF FreeRows
  <2>2. Lowest(FreeRows) \in FreeRows
    BY <2>1, LowestIsIn
  <2> QED
    BY <2>2 DEF FreeRows
<1>2. f \in Fds /\ fds[f] = Closed
  <2>1. {g \in Fds : fds[g] = Closed} \in SUBSET Nat /\ {g \in Fds : fds[g] = Closed} # {}
    BY SetsAssumption, FdIsFree
  <2>2. f \in {g \in Fds : fds[g] = Closed}
    BY <2>1, LowestIsIn
  <2> QED
    BY <2>2
<1>3. /\ table' = [table EXCEPT ![r] = row] /\ fds' = [fds EXCEPT ![f] = fd]
      /\ file' = [file EXCEPT ![c] = [mode |-> mode, block |-> b, row |-> r]]
  BY DEF TakeRow
<1> HIDE DEF r, f
<1>4. row \in RowRec /\ row.fd = f /\ row.block = b /\ row # Free
  BY <1>2, RecordKinds DEF RowRec
<1>5. fd \in FdRec /\ fd.block = b /\ fd # Closed
  <2>1. 0 \in 0 .. BlockLen
    BY SizesAssumption
  <2> QED
    BY <2>1, RecordKinds DEF FdRec
<1>6. [mode |-> mode, block |-> b, row |-> r] \in FileRec
  BY <1>1 DEF FileRec
<1> HIDE DEF row, fd
<1>7. /\ table \in [Rows -> {Free} \cup RowRec] /\ fds \in [Fds -> {Closed} \cup FdRec]
      /\ file \in [Conns -> {NoFile} \cup FileRec]
      /\ \A q \in Rows : table[q] # Free => table[q].fd \in Fds
  BY TableTypes
<1>8. /\ table'[r] = row /\ \A q \in Rows \ {r} : table'[q] = table[q]
      /\ fds'[f] = fd /\ \A g \in Fds \ {f} : fds'[g] = fds[g]
  BY <1>1, <1>2, <1>3, <1>7
<1>9. /\ table' \in [Rows -> {Free} \cup RowRec] /\ fds' \in [Fds -> {Closed} \cup FdRec]
      /\ file' \in [Conns -> {NoFile} \cup FileRec]
  BY <1>1, <1>2, <1>3, <1>4, <1>5, <1>6, <1>7
<1>10. \A q \in Rows : table[q] # Free => table[q].fd # f
  BY <1>2 DEF RowsOpen
<1>11. RowsOpen'
  <2> SUFFICES ASSUME NEW q \in Rows, table'[q] # Free
               PROVE  /\ fds'[table'[q].fd] # Closed /\ fds'[table'[q].fd].block = table'[q].block
                      /\ \A p \in Rows \ {q} : table'[p] # Free => table'[p].fd # table'[q].fd
    BY DEF RowsOpen
  <2>1. CASE q = r
    BY <1>4, <1>5, <1>8, <1>10, <2>1
  <2>2. CASE q # r
    <3>1. table'[q] = table[q] /\ table[q] # Free /\ table[q].fd \in Fds \ {f}
      BY <1>7, <1>8, <1>10, <2>2
    <3>2. fds[table[q].fd] # Closed /\ fds[table[q].fd].block = table[q].block
      BY <3>1 DEF RowsOpen
    <3>3. \A p \in Rows \ {q} : table[p] # Free => table[p].fd # table[q].fd
      BY <3>1 DEF RowsOpen
    <3>4. ASSUME NEW p \in Rows \ {q}, table'[p] # Free PROVE table'[p].fd # table[q].fd
      <4>1. CASE p = r
        BY <1>4, <1>8, <3>1, <4>1
      <4>2. CASE p # r
        BY <1>8, <3>3, <3>4, <4>2
      <4> QED
        BY <4>1, <4>2
    <3> QED
      BY <1>8, <3>1, <3>2, <3>4
  <2> QED
    BY <2>1, <2>2
<1>12. FdsHaveRows'
  <2> SUFFICES ASSUME NEW g \in Fds, fds'[g] # Closed
               PROVE  \E q \in Rows : table'[q] # Free /\ table'[q].fd = g
    BY DEF FdsHaveRows
  <2>1. CASE g = f
    BY <1>1, <1>4, <1>8, <2>1
  <2>2. CASE g # f
    <3>1. PICK q \in Rows : table[q] # Free /\ table[q].fd = g
      BY <1>8, <2>2 DEF FdsHaveRows
    <3>2. q # r
      BY <1>1, <3>1
    <3> QED
      BY <1>8, <3>1, <3>2
  <2> QED
    BY <2>1, <2>2
<1> QED
  BY <1>1, <1>2, <1>3, <1>9, <1>11, <1>12 DEF row, fd

-----------------------------------------------------------------------------
(* Every variable keeps its kind, and the jobs in use are counted. *)

LEMMA WorkerKinds ==
  ASSUME TypeOK
  PROVE  /\ Working \in Seq(Jobs)
         /\ worker = Idle => Working = <<>> /\ Len(Working) = 0 /\ worker.pc = "idle"
         /\ worker # Idle => /\ worker.job \in Jobs /\ worker.pc \in {"look", "done", "read"}
                             /\ Working = <<worker.job>> /\ Len(Working) = 1
                             /\ worker.job.conn \in Conns /\ worker.job.row \in Rows
                             /\ worker.job.data \in Pieces
         /\ worker.pc = "read" => worker \in Reads /\ worker.fd \in Fds
         /\ worker.pc \in {"look", "done"} => worker \in Looks
         /\ worker.pc # "idle" => worker # Idle
<1>1. worker \in {Idle} \cup Looks \cup Reads
  BY DEF TypeOK, Looks, Reads
<1>2. Idle.pc = "idle"
  BY DEF Idle
<1>3. \A x \in Looks : x.job \in Jobs /\ x.pc \in {"look", "done"}
  BY DEF Looks
<1>4. \A x \in Reads : x.job \in Jobs /\ x.pc = "read" /\ x.fd \in Fds
  BY DEF Reads
<1>5. worker # Idle => worker.job \in Jobs /\ worker.pc \in {"look", "done", "read"}
  BY <1>1, <1>3, <1>4
<1>6. worker = Idle => Working = <<>>
  BY DEF Working
<1>7. worker # Idle => Working = <<worker.job>>
  BY DEF Working
<1>8. \A j \in Jobs : j.conn \in Conns /\ j.row \in Rows /\ j.data \in Pieces
  BY DEF Jobs
<1>9. Working \in Seq(Jobs) /\ Len(<<>>) = 0 /\ (worker # Idle => Len(Working) = 1)
  <2>1. CASE worker = Idle
    BY <1>6, <2>1
  <2>2. CASE worker # Idle
    <3>1. <<worker.job>> \in Seq(Jobs) /\ Len(<<worker.job>>) = 1
      BY <1>5, <2>2
    <3> QED
      BY <1>7, <2>2, <3>1
  <2> QED
    BY <2>1, <2>2
<1> QED
  BY <1>1, <1>2, <1>3, <1>4, <1>5, <1>6, <1>7, <1>8, <1>9

LEMMA JobsMade ==
  ASSUME NEW c \in Conns, NEW n \in Nat, file[c].row \in Rows
  PROVE  /\ JobsOf(c, n) \in Seq(Jobs) /\ Len(JobsOf(c, n)) = n
         /\ \A i \in 1 .. n : JobsOf(c, n)[i] = [conn |-> c, row |-> file[c].row, data |-> Stale]
<1>1. [conn |-> c, row |-> file[c].row, data |-> Stale] \in Jobs
  BY DEF Jobs, Pieces
<1> DEFINE job == [conn |-> c, row |-> file[c].row, data |-> Stale]
<1>2. JobsOf(c, n) = [i \in 1 .. n |-> job]
  BY DEF JobsOf
<1> HIDE DEF job
<1>3. [i \in 1 .. n |-> job] \in Seq(Jobs) /\ Len([i \in 1 .. n |-> job]) = n
  BY <1>1 DEF job
<1>4. \A i \in 1 .. n : [k \in 1 .. n |-> job][i] = job
  OBVIOUS
<1> QED
  BY <1>2, <1>3, <1>4 DEF job

LEMMA DivIsNat ==
  ASSUME NEW a \in Nat, NEW b \in Nat \ {0}
  PROVE  a \div b \in Nat
OBVIOUS

LEMMA GrownIsNat ==
  ASSUME TypeOK, NEW n \in Nat
  PROVE  Grown(n) \in Nat
<1>1. allocNum \in Nat /\ JobStep \in Nat \ {0}
  BY SizesAssumption DEF TypeOK
<1>2. CASE n <= allocNum
  BY <1>1, <1>2 DEF Grown
<1>3. CASE n > allocNum
  <2> DEFINE m == n - allocNum + JobStep - 1
  <2>1. m \in Nat
    BY <1>1, <1>3
  <2>2. m \div JobStep \in Nat
    BY <1>1, <2>1, DivIsNat
  <2>3. Grown(n) = allocNum + JobStep * (m \div JobStep)
    BY <1>1, <1>3 DEF Grown
  <2> HIDE DEF m
  <2> QED
    BY <1>1, <2>2, <2>3
<1> QED
  BY <1>1, <1>2, <1>3

\* What is allocated grows exactly when more jobs are in use than there are.
LEMMA GrownOnDemand ==
  ASSUME TypeOK, NEW n \in Nat
  PROVE  allocNum <= Grown(n) /\ (Grown(n) # allocNum => allocNum < n)
<1>1. allocNum \in Nat /\ JobStep \in Nat \ {0}
  BY SizesAssumption DEF TypeOK
<1>2. CASE n <= allocNum
  BY <1>1, <1>2 DEF Grown
<1>3. CASE allocNum < n
  <2> DEFINE m == (n - allocNum + JobStep - 1) \div JobStep
  <2>1. n - allocNum + JobStep - 1 \in Nat
    BY <1>1, <1>3
  <2>2. m \in Nat
    BY <1>1, <2>1, DivIsNat
  <2>3. Grown(n) = allocNum + JobStep * m
    BY <1>1, <1>3 DEF Grown
  <2> HIDE DEF m
  <2>4. JobStep * m \in Nat
    BY <1>1, <2>2
  <2> QED
    BY <1>1, <1>3, <2>3, <2>4
<1> QED
  BY <1>1, <1>2, <1>3

LEMMA TypesKept ==
  ASSUME FdsSuffice, OwnersInv, Next
  PROVE  TypeOK' /\ JobsCounted'
<1> USE SizesAssumption
<1>1. TypeOK /\ RowsOpen /\ FdsHaveRows /\ JobsCounted /\ Sockets
  BY DEF OwnersInv, FilesInv
<1>2. /\ table \in [Rows -> {Free} \cup RowRec] /\ fds \in [Fds -> {Closed} \cup FdRec]
      /\ file \in [Conns -> {NoFile} \cup FileRec]
  BY <1>1, TableTypes
<1>3. ASSUME NEW c \in Conns, Accept(c) PROVE TypeOK' /\ JobsCounted'
  <2>1. conn' \in [Conns -> {"unborn", "coming", "monitored", "freed"}] /\ sock' \in [Conns -> Socks \cup {0}]
    BY <1>1, <1>3 DEF Accept, TypeOK
  <2> QED
    BY <1>1, <1>3, <2>1
    DEF Accept, TypeOK, JobsCounted, Working, useVars, fileVars, poolVars, mgrVars, workVars
<1>4. ASSUME NEW c \in Conns, HangUp(c) PROVE TypeOK' /\ JobsCounted'
  BY <1>1, <1>4
  DEF HangUp, Note, TypeOK, JobsCounted, Working, useVars, fileVars, poolVars, pipeVars, mgrVars, workVars
<1>5. ASSUME NEW c \in Conns, CloseBlock(c) PROVE TypeOK' /\ JobsCounted'
  <2>1. /\ file[c] # NoFile /\ CloseRows(RowsToClose(c)) /\ file' = [file EXCEPT ![c] = NoFile]
        /\ asked' = [asked EXCEPT ![c] = 0] /\ got' = [got EXCEPT ![c] = <<>>]
        /\ mishaps' \subseteq {"hasty", "openDeleted"}
        /\ UNCHANGED <<connVars, disk, stored, doomed, poolVars, pipeVars, mgrVars, workVars>>
    BY <1>1, <1>5 DEF CloseBlock, Note, TypeOK
  <2>2. RowsToClose(c) \in SUBSET Rows
    BY <1>1, <2>1, TableTypes DEF RowsToClose
  <2>3. table' \in [Rows -> {Free} \cup RowRec] /\ fds' \in [Fds -> {Closed} \cup FdRec]
    BY <1>1, <2>1, <2>2, ClosedRows
  <2>4. file' \in [Conns -> {NoFile} \cup FileRec]
    BY <1>2, <2>1
  <2>5. asked' \in [Conns -> 0 .. BlockLen] /\ got' \in [Conns -> Seq(Pieces)]
    BY <1>1, <2>1 DEF TypeOK
  <2> QED
    BY <1>1, <2>1, <2>3, <2>4, <2>5
    DEF TypeOK, JobsCounted, Working, connVars, poolVars, pipeVars, mgrVars, workVars, RowRec, FdRec, FileRec
<1>6. ASSUME NEW c \in Conns, NEW b \in Blocks, CreateBlock(c, b) PROVE TypeOK' /\ JobsCounted'
  <2>1. /\ TakeRow(c, b, "w") /\ FreeRows # {} /\ disk' \subseteq Blocks /\ conn[c] = "monitored"
        /\ UNCHANGED <<connVars, stored, doomed, poolVars, pipeVars, mgrVars, workVars, mishaps>>
    BY <1>1, <1>6 DEF CreateBlock, Requests, TypeOK
  <2>2. sock[c] \in Socks
    BY <1>1, <2>1 DEF Sockets, Alive
  <2>3. /\ table' \in [Rows -> {Free} \cup RowRec] /\ fds' \in [Fds -> {Closed} \cup FdRec]
        /\ file' \in [Conns -> {NoFile} \cup FileRec]
    BY <1>1, <2>1, <2>2, TakenRow
  <2>4. asked' \in [Conns -> 0 .. BlockLen] /\ got' \in [Conns -> Seq(Pieces)]
    BY <1>1, <2>1 DEF TypeOK, TakeRow
  <2> QED
    BY <1>1, <2>1, <2>3, <2>4
    DEF TypeOK, JobsCounted, Working, connVars, poolVars, pipeVars, mgrVars, workVars, RowRec, FdRec, FileRec
<1>7. ASSUME NEW c \in Conns, NEW b \in Blocks, OpenBlock(c, b) PROVE TypeOK' /\ JobsCounted'
  <2>1. /\ TakeRow(c, b, "r") /\ FreeRows # {} /\ conn[c] = "monitored"
        /\ UNCHANGED <<connVars, disk, stored, doomed, poolVars, pipeVars, mgrVars, workVars, mishaps>>
    BY <1>7 DEF OpenBlock, Requests
  <2>2. sock[c] \in Socks
    BY <1>1, <2>1 DEF Sockets, Alive
  <2>3. /\ table' \in [Rows -> {Free} \cup RowRec] /\ fds' \in [Fds -> {Closed} \cup FdRec]
        /\ file' \in [Conns -> {NoFile} \cup FileRec]
    BY <1>1, <2>1, <2>2, TakenRow
  <2>4. asked' \in [Conns -> 0 .. BlockLen] /\ got' \in [Conns -> Seq(Pieces)]
    BY <1>1, <2>1 DEF TypeOK, TakeRow
  <2> QED
    BY <1>1, <2>1, <2>3, <2>4
    DEF TypeOK, JobsCounted, Working, connVars, poolVars, pipeVars, mgrVars, workVars, RowRec, FdRec, FileRec
<1>8. ASSUME NEW c \in Conns, NEW n \in ReadSizes, ReadBlock(c, n) PROVE TypeOK' /\ JobsCounted'
  <2> DEFINE full == workerPipe + n > PipeCap
             k == IF full THEN PipeCap - workerPipe + 1 ELSE n
  <2>1. /\ file[c].mode = "r" /\ asked[c] + n <= BlockLen /\ asked' = [asked EXCEPT ![c] = @ + n]
        /\ workQ' = workQ \o JobsOf(c, k) /\ jobNum' = jobNum + k /\ allocNum' = Grown(jobNum + k)
        /\ mgr' = (IF full THEN "inPut" ELSE mgr)
        /\ workerPipe' = (IF full THEN PipeCap ELSE workerPipe + n)
        /\ UNCHANGED <<connVars, file, got, fileVars, mgrPipe, mgrVars, handleQ, worker, mishaps>>
    BY <1>8 DEF ReadBlock, PutDiskIOJob
  <2>2. /\ n \in Nat /\ workerPipe \in 0 .. PipeCap /\ asked \in [Conns -> 0 .. BlockLen]
        /\ jobNum \in Nat /\ workQ \in Seq(Jobs)
    BY <1>1 DEF TypeOK
  <2>3. k \in Nat
    BY <2>2
  <2>4. file[c].row \in Rows
    <3>1. file[c] # NoFile
      BY <2>1 DEF NoFile
    <3> QED
      BY <1>1, <3>1, TableTypes
  <2>5. JobsOf(c, k) \in Seq(Jobs) /\ Len(JobsOf(c, k)) = k
    BY <2>3, <2>4, JobsMade
  <2>6. workerPipe' \in 0 .. PipeCap
    BY <2>1, <2>2
  <2> HIDE DEF k, full
  <2>7. workQ' \in Seq(Jobs) /\ Len(workQ') = Len(workQ) + k
    BY <2>1, <2>2, <2>5, ConcatProperties
  <2>8. allocNum' \in Nat /\ jobNum' \in Nat /\ moved' \in BOOLEAN
    <3>1. jobNum + k \in Nat
      BY <2>2, <2>3
    <3>2. moved' \in BOOLEAN
      BY <1>8 DEF ReadBlock
    <3> QED
      BY <1>1, <2>1, <3>1, <3>2, GrownIsNat
  <2>9. asked' \in [Conns -> 0 .. BlockLen]
    BY <2>1, <2>2
  <2>10. mgr' \in {"runs", "inPut", "inWrite"}
    BY <1>1, <2>1 DEF TypeOK
  <2>11. TypeOK'
    BY <1>1, <2>1, <2>6, <2>7, <2>8, <2>9, <2>10 DEF TypeOK, connVars, fileVars, mgrVars
  <2>12. Working \in Seq(Jobs) /\ mgrQ \in Seq(Jobs) /\ doneQ \in Seq(Jobs) /\ handleQ \in Seq(Jobs)
    BY <1>1, WorkerKinds DEF TypeOK
  <2>13. Len(mgrQ) \in Nat /\ Len(doneQ) \in Nat /\ Len(Working) \in Nat /\ Len(handleQ) \in Nat /\ Len(workQ) \in Nat
    BY <2>2, <2>12
  <2>14. Working' = Working /\ UNCHANGED <<mgrQ, doneQ, handleQ>>
    BY <2>1 DEF Working, mgrVars
  <2> QED
    BY <1>1, <2>1, <2>2, <2>3, <2>7, <2>11, <2>13, <2>14 DEF JobsCounted
<1>9. ASSUME NEW c \in Conns, WritePiece(c) PROVE TypeOK' /\ JobsCounted'
  <2>1. stored' \in [Blocks -> 0 .. BlockLen] /\ mgr' \in {"runs", "inPut", "inWrite"}
    <3>1. file[c] # NoFile /\ stored[file[c].block] < BlockLen
      BY <1>9 DEF WritePiece, NoFile
    <3>2. file[c].block \in Blocks
      BY <1>1, <3>1, TableTypes
    <3>3. stored \in [Blocks -> 0 .. BlockLen] /\ mgr \in {"runs", "inPut", "inWrite"}
      BY <1>1 DEF TypeOK
    <3>4. CASE OwnsRow(c, file[c].row)
      BY <1>9, <3>1, <3>2, <3>3, <3>4 DEF WritePiece
    <3>5. CASE ~OwnsRow(c, file[c].row)
      BY <1>9, <3>3, <3>5 DEF WritePiece
    <3> QED
      BY <3>4, <3>5
  <2> QED
    BY <1>1, <1>9, <2>1
    DEF WritePiece, TypeOK, JobsCounted, Working, connVars, useVars, poolVars, mgrVars, workVars
<1>10. ASSUME NEW c \in Conns, RemoveClient(c) PROVE TypeOK' /\ JobsCounted'
  <2>1. /\ CloseRows(RowsOfSock(sock[c])) /\ file' = [file EXCEPT ![c] = NoFile]
        /\ conn' = [conn EXCEPT ![c] = "freed"]
        /\ UNCHANGED <<sock, hungUp, asked, got, disk, stored, doomed, poolVars, pipeVars, mgrVars, workVars, mishaps>>
    BY <1>10 DEF RemoveClient
  <2>2. RowsOfSock(sock[c]) \in SUBSET Rows
    BY DEF RowsOfSock
  <2>3. table' \in [Rows -> {Free} \cup RowRec] /\ fds' \in [Fds -> {Closed} \cup FdRec]
    BY <1>1, <2>1, <2>2, ClosedRows
  <2>4. file' \in [Conns -> {NoFile} \cup FileRec] /\ conn' \in [Conns -> {"unborn", "coming", "monitored", "freed"}]
    BY <1>1, <1>2, <2>1 DEF TypeOK
  <2> QED
    BY <1>1, <2>1, <2>3, <2>4
    DEF TypeOK, JobsCounted, Working, poolVars, pipeVars, mgrVars, workVars, RowRec, FdRec, FileRec
<1>11. ASSUME PipeEvent PROVE TypeOK' /\ JobsCounted'
  <2>1. /\ mgrQ = <<>> /\ mgrPipe' = FALSE /\ mgrQ' = doneQ /\ doneQ' = <<>>
        /\ conn' = [c \in Conns |-> IF conn[c] = "coming" THEN "monitored" ELSE conn[c]]
        /\ UNCHANGED <<sock, hungUp, useVars, fileVars, poolVars, workerPipe, mgr, workVars, mishaps>>
    BY <1>11 DEF PipeEvent, MgrReady
  <2>2. conn' \in [Conns -> {"unborn", "coming", "monitored", "freed"}]
    BY <1>1, <2>1 DEF TypeOK
  <2>3. TypeOK'
    BY <1>1, <2>1, <2>2 DEF TypeOK, useVars, fileVars, poolVars, workVars
  <2>4. Working' = Working /\ Len(<<>>) = 0 /\ Len(doneQ) \in Nat
    BY <1>1, <2>1 DEF Working, workVars, TypeOK
  <2> QED
    BY <1>1, <2>1, <2>3, <2>4 DEF JobsCounted, poolVars, workVars
<1>12. ASSUME AnswerClient PROVE TypeOK' /\ JobsCounted'
  <2>1. /\ mgrQ # <<>> /\ mgrQ' = Tail(mgrQ) /\ jobNum' = jobNum - 1
        /\ UNCHANGED <<connVars, file, asked, fileVars, allocNum, moved, pipeVars, doneQ, workVars, mishaps>>
        /\ got' = IF Alive(Head(mgrQ).conn) /\ file[Head(mgrQ).conn] # NoFile
                    THEN [got EXCEPT ![Head(mgrQ).conn] = Append(@, Head(mgrQ).data)] ELSE got
    BY <1>12 DEF AnswerClient, JobDone
  <2>2. mgrQ \in Seq(Jobs) /\ got \in [Conns -> Seq(Pieces)] /\ jobNum \in Nat
    BY <1>1 DEF TypeOK
  <2>3. Head(mgrQ) \in Jobs /\ Tail(mgrQ) \in Seq(Jobs) /\ Len(Tail(mgrQ)) = Len(mgrQ) - 1 /\ Len(mgrQ) \in Nat \ {0}
    BY <2>1, <2>2, HeadTailProperties, EmptySeq
  <2>4. Head(mgrQ).conn \in Conns /\ Head(mgrQ).data \in Pieces
    BY <2>3 DEF Jobs
  <2>5. got' \in [Conns -> Seq(Pieces)]
    <3>1. Append(got[Head(mgrQ).conn], Head(mgrQ).data) \in Seq(Pieces)
      BY <2>2, <2>4
    <3> QED
      BY <2>1, <2>2, <3>1
  <2>6. Len(doneQ) \in Nat /\ Len(Working) \in Nat /\ Len(handleQ) \in Nat /\ Len(workQ) \in Nat
    BY <1>1, WorkerKinds DEF TypeOK
  <2>7. jobNum' \in Nat
    BY <1>1, <2>1, <2>2, <2>3, <2>6 DEF JobsCounted
  <2>8. TypeOK'
    BY <1>1, <2>1, <2>3, <2>5, <2>7 DEF TypeOK, connVars, fileVars, pipeVars, workVars
  <2>9. Working' = Working
    BY <2>1 DEF Working, workVars
  <2> QED
    BY <1>1, <2>1, <2>2, <2>3, <2>6, <2>8, <2>9 DEF JobsCounted, workVars
<1>13. ASSUME TakeJobs PROVE TypeOK' /\ JobsCounted'
  <2>1. /\ handleQ = <<>> /\ handleQ' = workQ /\ workQ' = <<>>
        /\ UNCHANGED <<connVars, useVars, fileVars, poolVars, pipeVars, mgrVars, worker, mishaps>>
    BY <1>13 DEF TakeJobs
  <2>2. TypeOK'
    BY <1>1, <2>1 DEF TypeOK, connVars, useVars, fileVars, poolVars, pipeVars, mgrVars
  <2>3. Working' = Working /\ Len(<<>>) = 0 /\ Len(workQ) \in Nat
    BY <1>1, <2>1 DEF Working, TypeOK
  <2>4. Len(mgrQ) \in Nat /\ Len(doneQ) \in Nat /\ Len(Working) \in Nat
    BY <1>1, WorkerKinds DEF TypeOK
  <2> QED
    BY <1>1, <2>1, <2>2, <2>3, <2>4 DEF JobsCounted, poolVars, mgrVars
<1>14. ASSUME StartJob PROVE TypeOK' /\ JobsCounted'
  <2>1. /\ worker = Idle /\ handleQ # <<>> /\ worker' = [pc |-> "look", job |-> Head(handleQ)]
        /\ handleQ' = Tail(handleQ)
        /\ UNCHANGED <<connVars, useVars, fileVars, poolVars, pipeVars, mgrVars, workQ, mishaps>>
    BY <1>14 DEF StartJob
  <2>2. handleQ \in Seq(Jobs)
    BY <1>1 DEF TypeOK
  <2>3. Head(handleQ) \in Jobs /\ Tail(handleQ) \in Seq(Jobs) /\ Len(Tail(handleQ)) = Len(handleQ) - 1 /\ Len(handleQ) \in Nat
    BY <2>1, <2>2, HeadTailProperties, LenProperties
  <2>4. worker' \in Looks
    BY <2>1, <2>3 DEF Looks
  <2>5. TypeOK'
    BY <1>1, <2>1, <2>3, <2>4 DEF TypeOK, Looks, connVars, useVars, fileVars, poolVars, pipeVars, mgrVars
  <2>6. worker' # Idle
    BY <2>4, RecordKinds
  <2>7. Len(Working) = 0 /\ Len(Working') = 1
    BY <2>1, <2>6 DEF Working
  <2>8. Len(mgrQ) \in Nat /\ Len(doneQ) \in Nat /\ Len(workQ) \in Nat
    BY <1>1 DEF TypeOK
  <2> QED
    BY <1>1, <2>1, <2>3, <2>5, <2>7, <2>8 DEF JobsCounted, poolVars, mgrVars
<1>15. ASSUME LookUpRow PROVE TypeOK' /\ JobsCounted'
  <2>1. worker \in Looks /\ worker # Idle /\ worker.job \in Jobs /\ worker.job.row \in Rows
    BY <1>1, <1>15, WorkerKinds DEF LookUpRow
  <2>2. worker' \in Looks \cup Reads
    <3>1. PICK s \in SockFdOf(worker.job) :
            worker' = IF table[worker.job.row] # Free /\ table[worker.job.row].sock = s
                        THEN [pc |-> "read", job |-> worker.job, fd |-> table[worker.job.row].fd]
                        ELSE [worker EXCEPT !.pc = "done"]
      BY <1>15 DEF LookUpRow
    <3>2. table[worker.job.row] # Free => table[worker.job.row].fd \in Fds
      BY <1>1, <2>1, TableTypes
    <3>3. [worker EXCEPT !.pc = "done"] \in Looks
      BY <2>1 DEF Looks
    <3> QED
      BY <2>1, <3>1, <3>2, <3>3 DEF Reads
  <2>3. UNCHANGED <<connVars, useVars, fileVars, poolVars, pipeVars, mgrVars, workQ, handleQ, mishaps>>
    BY <1>15 DEF LookUpRow
  <2>4. TypeOK'
    BY <1>1, <2>2, <2>3 DEF TypeOK, Looks, Reads, connVars, useVars, fileVars, poolVars, pipeVars, mgrVars
  <2>5. Len(Working) = 1 /\ Len(Working') = 1
    BY <2>1, <2>2, RecordKinds DEF Working
  <2> QED
    BY <1>1, <2>3, <2>4, <2>5 DEF JobsCounted, poolVars, mgrVars
<1>16. ASSUME ReadFile PROVE TypeOK' /\ JobsCounted'
  <2>1. worker \in Reads /\ worker # Idle /\ worker.job \in Jobs /\ worker.fd \in Fds
    BY <1>1, <1>16, WorkerKinds DEF ReadFile
  <2>2. UNCHANGED <<connVars, useVars, table, disk, stored, doomed, poolVars, pipeVars, mgrVars, workQ, handleQ, mishaps>>
    BY <1>16 DEF ReadFile
  <2>3. worker' \in Looks /\ fds' \in [Fds -> {Closed} \cup FdRec]
    <3>1. CASE fds[worker.fd] # Closed /\ fds[worker.fd].off < stored[fds[worker.fd].block]
      <4>1. /\ worker' = [pc |-> "done", job |-> [worker.job EXCEPT !.data = ReadAt(worker.fd)]]
            /\ fds' = [fds EXCEPT ![worker.fd].off = @ + 1]
        BY <1>16, <3>1 DEF ReadFile
      <4>2. fds[worker.fd] \in FdRec /\ fds[worker.fd].block \in Blocks /\ fds[worker.fd].off \in 0 .. BlockLen
        BY <1>1, <2>1, <3>1, TableTypes
      <4>3. stored[fds[worker.fd].block] \in 0 .. BlockLen
        BY <1>1, <4>2 DEF TypeOK
      <4>4. fds[worker.fd].off + 1 \in 1 .. BlockLen
        BY <3>1, <4>2, <4>3
      <4>5. ReadAt(worker.fd) \in Pieces
        BY <4>2, <4>4 DEF ReadAt, Pieces
      <4>6. [worker.job EXCEPT !.data = ReadAt(worker.fd)] \in Jobs
        BY <2>1, <4>5 DEF Jobs
      <4>7. [fds[worker.fd] EXCEPT !.off = @ + 1] \in FdRec
        BY <4>2, <4>4 DEF FdRec
      <4>8. fds' = [fds EXCEPT ![worker.fd] = [fds[worker.fd] EXCEPT !.off = @ + 1]]
        BY <4>1
      <4> QED
        BY <1>2, <4>1, <4>6, <4>7, <4>8 DEF Looks
    <3>2. CASE ~(fds[worker.fd] # Closed /\ fds[worker.fd].off < stored[fds[worker.fd].block])
      <4>1. worker' = [pc |-> "look", job |-> worker.job] /\ fds' = fds
        BY <1>16, <3>2 DEF ReadFile
      <4> QED
        BY <1>2, <2>1, <4>1 DEF Looks
    <3> QED
      BY <3>1, <3>2
  <2>4. TypeOK'
    BY <1>1, <2>2, <2>3 DEF TypeOK, Looks, FdRec, connVars, useVars, poolVars, pipeVars, mgrVars
  <2>5. Len(Working) = 1 /\ Len(Working') = 1
    BY <2>1, <2>3, RecordKinds DEF Working
  <2> QED
    BY <1>1, <2>2, <2>4, <2>5 DEF JobsCounted, poolVars, mgrVars
<1>17. ASSUME SubmitReadDoneJob PROVE TypeOK' /\ JobsCounted'
  <2>1. /\ worker.pc = "done" /\ doneQ' = Append(doneQ, worker.job) /\ mgrPipe' = TRUE /\ worker' = Idle
        /\ UNCHANGED <<connVars, useVars, fileVars, poolVars, workerPipe, mgr, mgrQ, workQ, handleQ, mishaps>>
    BY <1>17 DEF SubmitReadDoneJob, EnqueueDone, WakeMgr
  <2>2. worker # Idle /\ worker.job \in Jobs /\ doneQ \in Seq(Jobs)
    BY <1>1, <2>1, WorkerKinds DEF TypeOK
  <2>3. doneQ' \in Seq(Jobs) /\ Len(doneQ') = Len(doneQ) + 1 /\ Len(doneQ) \in Nat
    BY <2>1, <2>2
  <2>4. TypeOK'
    BY <1>1, <2>1, <2>3 DEF TypeOK, connVars, useVars, fileVars, poolVars
  <2>5. Len(Working) = 1 /\ Len(Working') = 0
    BY <2>1, <2>2 DEF Working
  <2>6. Len(mgrQ) \in Nat /\ Len(workQ) \in Nat /\ Len(handleQ) \in Nat
    BY <1>1 DEF TypeOK
  <2> QED
    BY <1>1, <2>1, <2>3, <2>4, <2>5, <2>6 DEF JobsCounted, poolVars
<1>18. ASSUME NEW b \in Blocks, DeleteCloses(b) PROVE TypeOK' /\ JobsCounted'
  <2>1. /\ CloseRows(RowsOfBlock(b)) /\ doomed' \in SUBSET Blocks
        /\ mishaps' \subseteq {"hasty", "openDeleted"}
        /\ UNCHANGED <<connVars, useVars, disk, stored, poolVars, pipeVars, mgrVars, workVars>>
    BY <1>1, <1>18 DEF DeleteCloses, Note, TypeOK
  <2>2. RowsOfBlock(b) \in SUBSET Rows
    BY DEF RowsOfBlock
  <2>3. table' \in [Rows -> {Free} \cup RowRec] /\ fds' \in [Fds -> {Closed} \cup FdRec]
    BY <1>1, <2>1, <2>2, ClosedRows
  <2> QED
    BY <1>1, <2>1, <2>3
    DEF TypeOK, JobsCounted, Working, connVars, useVars, poolVars, pipeVars, mgrVars, workVars, RowRec, FdRec
<1>19. ASSUME NEW b \in Blocks, DeleteRemoves(b) PROVE TypeOK' /\ JobsCounted'
  BY <1>1, <1>19
  DEF DeleteRemoves, TypeOK, JobsCounted, Working, connVars, useVars, poolVars, pipeVars, mgrVars, workVars
<1> QED
  BY <1>3, <1>4, <1>5, <1>6, <1>7, <1>8, <1>9, <1>10, <1>11, <1>12, <1>13, <1>14, <1>15,
     <1>16, <1>17, <1>18, <1>19 DEF Next, Client, Worker

-----------------------------------------------------------------------------
(* Rows, descriptors and sockets keep their owners. *)

\* Most of what goes on leaves the table alone.
LEMMA OthersKeepFiles ==
  ASSUME FilesInv, UNCHANGED <<conn, sock, file, table, fds>>,
         "openDeleted" \in mishaps => "openDeleted" \in mishaps'
  PROVE  FilesInv'
<1>1. UNCHANGED <<Sockets, RowsOwned, RowsOpen, FdsHaveRows>>
  BY DEF Sockets, RowsOwned, RowsOpen, FdsHaveRows, Alive
<1>2. RowsHeld'
  BY DEF FilesInv, RowsHeld, OwnsRow
<1> QED
  BY <1>1, <1>2 DEF FilesInv

\* A client that gets a row for a block.
LEMMA NewFileKeepsFiles ==
  ASSUME FdsSuffice, TypeOK, FilesInv, FreeRows # {},
         NEW c \in Conns, NEW b \in Blocks, NEW mode \in {"r", "w"},
         conn[c] = "monitored", file[c] = NoFile, TakeRow(c, b, mode),
         UNCHANGED <<conn, sock, mishaps>>
  PROVE  FilesInv'
<1>1. Sockets /\ RowsOwned /\ RowsOpen /\ FdsHaveRows /\ RowsHeld
  BY DEF FilesInv
<1>2. sock[c] \in Socks /\ Alive(c)
  BY <1>1 DEF Sockets, Alive
<1>3. RowsOpen' /\ FdsHaveRows'
  BY <1>1, <1>2, TakenRow
<1>4. PICK r \in Rows, f \in Fds :
        /\ table[r] = Free /\ fds[f] = Closed
        /\ table' = [table EXCEPT ![r] = [block |-> b, sock |-> sock[c], fd |-> f]]
        /\ fds' = [fds EXCEPT ![f] = [block |-> b, off |-> 0]]
        /\ file' = [file EXCEPT ![c] = [mode |-> mode, block |-> b, row |-> r]]
  BY <1>1, <1>2, TakenRow
<1> DEFINE row == [block |-> b, sock |-> sock[c], fd |-> f]
           new == [mode |-> mode, block |-> b, row |-> r]
<1>5. row # Free /\ row.sock = sock[c] /\ row.block = b /\ new # NoFile /\ new.row = r /\ new.block = b
  <2>1. row \in RowRec /\ new \in FileRec
    BY <1>2 DEF RowRec, FileRec
  <2> QED
    BY <2>1, RecordKinds
<1>6. /\ table'[r] = row /\ \A q \in Rows \ {r} : table'[q] = table[q]
      /\ file'[c] = new /\ \A d \in Conns \ {c} : file'[d] = file[d]
  BY <1>4, TableTypes
<1> HIDE DEF row, new
<1>7. Sockets'
  BY <1>1, <1>6 DEF Sockets, Alive
<1>8. RowsOwned'
  <2> SUFFICES ASSUME NEW q \in Rows, table'[q] # Free
               PROVE  \E d \in Conns : /\ Alive(d) /\ sock[d] = table'[q].sock
                                       /\ file'[d] # NoFile /\ file'[d].row = q
    BY DEF RowsOwned, Alive
  <2>1. CASE q = r
    BY <1>2, <1>5, <1>6, <2>1
  <2>2. CASE q # r
    <3>1. PICK d \in Conns : Alive(d) /\ sock[d] = table[q].sock /\ file[d] # NoFile /\ file[d].row = q
      BY <1>1, <1>6, <2>2 DEF RowsOwned
    <3>2. d # c
      BY <3>1
    <3> QED
      BY <1>6, <2>2, <3>1, <3>2
  <2> QED
    BY <2>1, <2>2
<1>9. RowsHeld'
  <2> SUFFICES ASSUME "openDeleted" \notin mishaps, NEW d \in Conns, file'[d] # NoFile
               PROVE  /\ table'[file'[d].row] # Free /\ table'[file'[d].row].sock = sock[d]
                      /\ table'[file'[d].row].block = file'[d].block
    BY DEF RowsHeld, OwnsRow
  <2>1. CASE d = c
    BY <1>5, <1>6, <2>1
  <2>2. CASE d # c
    <3>1. file'[d] = file[d] /\ file[d] # NoFile
      BY <1>6, <2>2
    <3>2. OwnsRow(d, file[d].row) /\ table[file[d].row].block = file[d].block
      BY <1>1, <3>1 DEF RowsHeld
    <3>3. file[d].row \in Rows \ {r}
      BY <1>4, <3>1, <3>2, TableTypes DEF OwnsRow
    <3> QED
      BY <1>6, <3>1, <3>2, <3>3 DEF OwnsRow
  <2> QED
    BY <2>1, <2>2
<1> QED
  BY <1>3, <1>7, <1>8, <1>9 DEF FilesInv

LEMMA FilesKept ==
  ASSUME FdsSuffice, TypeOK, FilesInv, Next
  PROVE  FilesInv'
<1>1. Sockets /\ RowsOwned /\ RowsOpen /\ FdsHaveRows /\ RowsHeld
  BY DEF FilesInv
<1>2. ASSUME NEW c \in Conns, Accept(c) PROVE FilesInv'
  <2>1. PICK s \in Socks : /\ \A d \in Conns : Alive(d) => sock[d] # s
                           /\ sock' = [sock EXCEPT ![c] = s]
    BY <1>2 DEF Accept
  <2>2. /\ conn[c] = "unborn" /\ conn' = [conn EXCEPT ![c] = "coming"]
        /\ UNCHANGED <<file, table, fds, mishaps>>
    BY <1>2 DEF Accept, useVars, fileVars
  <2>3. conn \in [Conns -> {"unborn", "coming", "monitored", "freed"}] /\ sock \in [Conns -> Socks \cup {0}]
    BY DEF TypeOK
  <2>4. /\ sock'[c] = s /\ conn'[c] = "coming" /\ ~Alive(c)
        /\ \A d \in Conns \ {c} : sock'[d] = sock[d] /\ conn'[d] = conn[d]
    BY <2>1, <2>2, <2>3 DEF Alive
  <2>5. file[c] = NoFile
    BY <1>1, <2>2 DEF Sockets
  <2>6. Sockets'
    BY <1>1, <2>1, <2>2, <2>4, <2>5 DEF Sockets, Alive
  <2>7. RowsOwned'
    BY <1>1, <2>2, <2>4, <2>5 DEF RowsOwned, Alive
  <2>8. RowsOpen' /\ FdsHaveRows'
    BY <1>1, <2>2 DEF RowsOpen, FdsHaveRows
  <2>9. RowsHeld'
    BY <1>1, <2>2, <2>4, <2>5 DEF RowsHeld, OwnsRow
  <2> QED
    BY <2>6, <2>7, <2>8, <2>9 DEF FilesInv
<1>3. ASSUME NEW c \in Conns, HangUp(c) PROVE FilesInv'
  BY <1>3, OthersKeepFiles DEF HangUp, Note, useVars, fileVars
<1>4. ASSUME NEW c \in Conns, CloseBlock(c) PROVE FilesInv'
  <2>1. /\ file[c] # NoFile /\ CloseRows({file[c].row}) /\ file' = [file EXCEPT ![c] = NoFile]
        /\ "openDeleted" \in mishaps => "openDeleted" \in mishaps'
        /\ UNCHANGED <<conn, sock>>
    BY <1>4 DEF CloseBlock, RowsToClose, Note, connVars
  <2>2. file[c].row \in Rows /\ \A d \in Conns : file[d] # NoFile => file[d].row \in Rows
    BY <2>1, TableTypes
  <2> DEFINE R == {file[c].row}
  <2>3. /\ \A r \in Rows : table'[r] = IF r \in R THEN Free ELSE table[r]
        /\ RowsOpen' /\ FdsHaveRows'
    BY <1>1, <2>1, <2>2, ClosedRows
  <2>4. file'[c] = NoFile /\ \A d \in Conns \ {c} : file'[d] = file[d]
    BY <2>1, TableTypes
  <2>5. Sockets'
    BY <1>1, <2>1, <2>4 DEF Sockets, Alive
  <2>6. RowsOwned'
    <3> SUFFICES ASSUME NEW r \in Rows, table'[r] # Free
                 PROVE  \E d \in Conns : /\ Alive(d) /\ sock[d] = table'[r].sock
                                         /\ file'[d] # NoFile /\ file'[d].row = r
      BY <2>1 DEF RowsOwned, Alive
    <3>1. r # file[c].row /\ table'[r] = table[r] /\ table[r] # Free
      BY <2>3
    <3>2. PICK d \in Conns : Alive(d) /\ sock[d] = table[r].sock /\ file[d] # NoFile /\ file[d].row = r
      BY <1>1, <3>1 DEF RowsOwned
    <3> QED
      BY <2>4, <3>1, <3>2
  <2>7. RowsHeld'
    <3> SUFFICES ASSUME "openDeleted" \notin mishaps, NEW d \in Conns, file'[d] # NoFile
                 PROVE  /\ table'[file'[d].row] # Free /\ table'[file'[d].row].sock = sock[d]
                        /\ table'[file'[d].row].block = file'[d].block
      BY <2>1 DEF RowsHeld, OwnsRow
    <3>1. d # c /\ file'[d] = file[d] /\ file[d] # NoFile
      BY <2>4
    <3>2. /\ OwnsRow(d, file[d].row) /\ table[file[d].row].block = file[d].block
          /\ OwnsRow(c, file[c].row)
      BY <1>1, <2>1, <3>1 DEF RowsHeld
    <3>3. sock[c] # sock[d]
      BY <1>1, <2>1, <3>1 DEF Sockets, Alive
    <3>4. file[d].row # file[c].row
      BY <3>2, <3>3 DEF OwnsRow
    <3> QED
      BY <2>2, <2>3, <3>1, <3>2, <3>4 DEF OwnsRow
  <2> QED
    BY <2>3, <2>5, <2>6, <2>7 DEF FilesInv
<1>5. ASSUME NEW c \in Conns, NEW b \in Blocks, CreateBlock(c, b) \/ OpenBlock(c, b) PROVE FilesInv'
  <2>1. \E mode \in {"r", "w"} : TakeRow(c, b, mode)
    BY <1>5 DEF CreateBlock, OpenBlock
  <2>2. /\ FreeRows # {} /\ conn[c] = "monitored" /\ file[c] = NoFile
        /\ UNCHANGED <<conn, sock, mishaps>>
    BY <1>5 DEF CreateBlock, OpenBlock, Requests, connVars
  <2> QED
    BY <2>1, <2>2, NewFileKeepsFiles
<1>6. ASSUME NEW c \in Conns, NEW n \in ReadSizes, ReadBlock(c, n) PROVE FilesInv'
  BY <1>6, OthersKeepFiles DEF ReadBlock, connVars, fileVars
<1>7. ASSUME NEW c \in Conns, WritePiece(c) PROVE FilesInv'
  BY <1>7, OthersKeepFiles DEF WritePiece, connVars, useVars
<1>8. ASSUME NEW c \in Conns, RemoveClient(c) PROVE FilesInv'
  <2> DEFINE R == RowsOfSock(sock[c])
  <2>1. /\ conn[c] = "monitored" /\ CloseRows(R) /\ file' = [file EXCEPT ![c] = NoFile]
        /\ conn' = [conn EXCEPT ![c] = "freed"] /\ UNCHANGED <<sock, mishaps>>
    BY <1>8 DEF RemoveClient
  <2>2. R \in SUBSET Rows
    BY DEF RowsOfSock
  <2>3. /\ \A r \in Rows : table'[r] = IF r \in R THEN Free ELSE table[r]
        /\ RowsOpen' /\ FdsHaveRows'
    BY <1>1, <2>1, <2>2, ClosedRows
  <2>4. /\ file'[c] = NoFile /\ \A d \in Conns \ {c} : file'[d] = file[d]
        /\ conn'[c] = "freed" /\ \A d \in Conns \ {c} : conn'[d] = conn[d]
    BY <2>1, TableTypes DEF TypeOK
  <2>5. Sockets'
    BY <1>1, <2>1, <2>4 DEF Sockets, Alive
  <2>6. RowsOwned'
    <3> SUFFICES ASSUME NEW r \in Rows, table'[r] # Free
                 PROVE  \E d \in Conns : /\ Alive(d)' /\ sock[d] = table'[r].sock
                                         /\ file'[d] # NoFile /\ file'[d].row = r
      BY <2>1 DEF RowsOwned, Alive
    <3>1. r \notin R /\ table'[r] = table[r] /\ table[r] # Free
      BY <2>3
    <3>2. PICK d \in Conns : Alive(d) /\ sock[d] = table[r].sock /\ file[d] # NoFile /\ file[d].row = r
      BY <1>1, <3>1 DEF RowsOwned
    <3>3. d # c
      BY <3>1, <3>2 DEF RowsOfSock
    <3> QED
      BY <2>4, <3>1, <3>2, <3>3 DEF Alive
  <2>7. RowsHeld'
    <3> SUFFICES ASSUME "openDeleted" \notin mishaps, NEW d \in Conns, file'[d] # NoFile
                 PROVE  /\ table'[file'[d].row] # Free /\ table'[file'[d].row].sock = sock[d]
                        /\ table'[file'[d].row].block = file'[d].block
      BY <2>1 DEF RowsHeld, OwnsRow
    <3>1. d # c /\ file'[d] = file[d] /\ file[d] # NoFile
      BY <2>4
    <3>2. OwnsRow(d, file[d].row) /\ table[file[d].row].block = file[d].block
      BY <1>1, <3>1 DEF RowsHeld
    <3>3. sock[c] # sock[d]
      BY <1>1, <2>1, <3>1 DEF Sockets, Alive
    <3>4. file[d].row \in Rows \ R
      BY <3>1, <3>2, <3>3, TableTypes DEF OwnsRow, RowsOfSock
    <3> QED
      BY <2>3, <3>1, <3>2, <3>4 DEF OwnsRow
  <2> QED
    BY <2>3, <2>5, <2>6, <2>7 DEF FilesInv
<1>9. ASSUME PipeEvent PROVE FilesInv'
  <2>1. /\ conn' = [d \in Conns |-> IF conn[d] = "coming" THEN "monitored" ELSE conn[d]]
        /\ UNCHANGED <<sock, file, table, fds, mishaps>>
    BY <1>9 DEF PipeEvent, useVars, fileVars
  <2>2. \A d \in Conns : (Alive(d)' <=> Alive(d)) /\ (conn[d] = "monitored" => conn'[d] = "monitored")
    BY <2>1 DEF Alive
  <2>3. Sockets'
    BY <1>1, <2>1, <2>2 DEF Sockets
  <2>4. RowsOwned'
    BY <1>1, <2>1, <2>2 DEF RowsOwned
  <2>5. UNCHANGED <<RowsOpen, FdsHaveRows, RowsHeld>>
    BY <2>1 DEF RowsOpen, FdsHaveRows, RowsHeld, OwnsRow
  <2> QED
    BY <1>1, <2>3, <2>4, <2>5 DEF FilesInv
<1>10. ASSUME AnswerClient PROVE FilesInv'
  BY <1>10, OthersKeepFiles DEF AnswerClient, connVars, fileVars
<1>11. ASSUME TakeJobs \/ StartJob \/ SubmitReadDoneJob PROVE FilesInv'
  BY <1>11, OthersKeepFiles DEF TakeJobs, StartJob, SubmitReadDoneJob, connVars, useVars, fileVars
<1>12. ASSUME LookUpRow PROVE FilesInv'
  BY <1>12, OthersKeepFiles DEF LookUpRow, connVars, useVars, fileVars
<1>13. ASSUME ReadFile PROVE FilesInv'
  <2>1. UNCHANGED <<conn, sock, file, table, mishaps>>
    BY <1>13 DEF ReadFile, connVars, useVars
  <2>2. worker.fd \in Fds
    BY <1>13, WorkerKinds DEF ReadFile
  <2>3. \A f \in Fds : (fds'[f] # Closed <=> fds[f] # Closed) /\ (fds[f] # Closed => fds'[f].block = fds[f].block)
    <3>1. CASE fds[worker.fd] # Closed /\ fds[worker.fd].off < stored[fds[worker.fd].block]
      <4>1. fds' = [fds EXCEPT ![worker.fd].off = @ + 1]
        BY <1>13, <3>1 DEF ReadFile
      <4>2. fds'[worker.fd] = [fds[worker.fd] EXCEPT !.off = @ + 1] /\ \A f \in Fds \ {worker.fd} : fds'[f] = fds[f]
        BY <2>2, <4>1, TableTypes
      <4>3. fds[worker.fd] \in FdRec
        BY <2>2, <3>1, TableTypes
      <4>4. fds'[worker.fd].block = fds[worker.fd].block /\ "off" \in DOMAIN fds'[worker.fd]
        BY <4>2, <4>3 DEF FdRec
      <4>5. fds'[worker.fd] # Closed
        BY <4>4 DEF Closed
      <4> QED
        BY <3>1, <4>2, <4>4, <4>5
    <3>2. CASE ~(fds[worker.fd] # Closed /\ fds[worker.fd].off < stored[fds[worker.fd].block])
      BY <1>13, <3>2 DEF ReadFile
    <3> QED
      BY <3>1, <3>2
  <2>4. \A r \in Rows : table[r] # Free => table[r].fd \in Fds
    BY TableTypes
  <2>5. UNCHANGED <<Sockets, RowsOwned, RowsHeld>>
    BY <2>1 DEF Sockets, RowsOwned, RowsHeld, OwnsRow, Alive
  <2>6. RowsOpen'
    BY <1>1, <2>1, <2>3, <2>4 DEF RowsOpen
  <2>7. FdsHaveRows'
    BY <1>1, <2>1, <2>3 DEF FdsHaveRows
  <2> QED
    BY <1>1, <2>5, <2>6, <2>7 DEF FilesInv
<1>14. ASSUME NEW b \in Blocks, DeleteCloses(b) PROVE FilesInv'
  <2> DEFINE R == RowsOfBlock(b)
  <2>1. /\ CloseRows(R) /\ UNCHANGED <<conn, sock, file>>
        /\ mishaps' = IF R # {} THEN mishaps \cup {"openDeleted"} ELSE mishaps
    BY <1>14 DEF DeleteCloses, Note, connVars, useVars
  <2>2. R \in SUBSET Rows
    BY DEF RowsOfBlock
  <2>3. /\ \A r \in Rows : table'[r] = IF r \in R THEN Free ELSE table[r]
        /\ RowsOpen' /\ FdsHaveRows'
    BY <1>1, <2>1, <2>2, ClosedRows
  <2>4. UNCHANGED Sockets
    BY <2>1 DEF Sockets, Alive
  <2>5. RowsOwned'
    BY <1>1, <2>1, <2>3 DEF RowsOwned, Alive
  <2>6. RowsHeld'
    <3>1. CASE R = {}
      <4>1. \A d \in Conns : file[d] # NoFile => file[d].row \in Rows
        BY TableTypes
      <4>2. \A r \in Rows : table'[r] = table[r]
        BY <2>3, <3>1
      <4> QED
        BY <1>1, <2>1, <3>1, <4>1, <4>2 DEF RowsHeld, OwnsRow
    <3>2. CASE R # {}
      BY <2>1, <3>2 DEF RowsHeld
    <3> QED
      BY <3>1, <3>2
  <2> QED
    BY <1>1, <2>3, <2>4, <2>5, <2>6 DEF FilesInv
<1>15. ASSUME NEW b \in Blocks, DeleteRemoves(b) PROVE FilesInv'
  BY <1>15, OthersKeepFiles DEF DeleteRemoves, connVars, useVars
<1> QED
  BY <1>2, <1>3, <1>4, <1>5, <1>6, <1>7, <1>8, <1>9, <1>10, <1>11, <1>12, <1>13, <1>14, <1>15
  DEF Next, Client, Worker

-----------------------------------------------------------------------------
(* The jobs end to end. *)

LEMMA InitOwners ==
  ASSUME Init
  PROVE  OwnersInv
<1>1. Len(<<>>) = 0 /\ <<>> \in Seq(Jobs) /\ <<>> \in Seq(Pieces)
  OBVIOUS
<1>2. stored \in [Blocks -> 0 .. BlockLen] /\ disk \in SUBSET Blocks /\ workerPipe \in 0 .. PipeCap
  BY SizesAssumption, SetsAssumption DEF Init
<1>3. asked \in [Conns -> 0 .. BlockLen] /\ allocNum \in Nat
  BY SizesAssumption DEF Init
<1>4. TypeOK
  BY <1>1, <1>2, <1>3 DEF Init, TypeOK
<1>5. Working = <<>>
  BY DEF Init, Working
<1>6. JobsCounted
  BY <1>1, <1>5 DEF Init, JobsCounted
<1>7. FilesInv
  BY DEF Init, FilesInv, Sockets, RowsOwned, RowsOpen, FdsHaveRows, RowsHeld, Alive
<1> QED
  BY <1>4, <1>6, <1>7 DEF OwnersInv

LEMMA JoinedElements ==
  ASSUME NEW S, NEW a \in Seq(S), NEW b \in Seq(S)
  PROVE  /\ a \o b \in Seq(S) /\ Len(a \o b) = Len(a) + Len(b)
         /\ Len(a) \in Nat /\ Len(b) \in Nat
         /\ \A i \in 1 .. Len(a) : (a \o b)[i] = a[i]
         /\ \A i \in 1 .. Len(b) : (a \o b)[Len(a) + i] = b[i]
OBVIOUS

\* Where the jobs of the queues and of the worker are among all jobs.
LEMMA PipelineShape ==
  ASSUME TypeOK
  PROVE  /\ Pipeline \in Seq(Jobs)
         /\ Len(Pipeline) = Len(mgrQ) + Len(doneQ) + Len(Working) + Len(handleQ) + Len(workQ)
         /\ {Len(mgrQ), Len(doneQ), Len(Working), Len(handleQ), Len(workQ), Len(Pipeline)} \subseteq Nat
         /\ \A i \in 1 .. Len(mgrQ) : Pipeline[i] = mgrQ[i]
         /\ \A i \in 1 .. Len(doneQ) : Pipeline[Len(mgrQ) + i] = doneQ[i]
         /\ \A i \in 1 .. Len(Working) : Pipeline[Len(mgrQ) + (Len(doneQ) + i)] = Working[i]
         /\ \A i \in 1 .. Len(handleQ) :
              Pipeline[Len(mgrQ) + (Len(doneQ) + (Len(Working) + i))] = handleQ[i]
         /\ \A i \in 1 .. Len(workQ) :
              Pipeline[Len(mgrQ) + (Len(doneQ) + (Len(Working) + (Len(handleQ) + i)))] = workQ[i]
<1>1. mgrQ \in Seq(Jobs) /\ doneQ \in Seq(Jobs) /\ Working \in Seq(Jobs) /\ handleQ \in Seq(Jobs) /\ workQ \in Seq(Jobs)
  BY WorkerKinds DEF TypeOK
<1> DEFINE A == handleQ \o workQ
           B == Working \o A
           C == doneQ \o B
<1>2. /\ A \in Seq(Jobs) /\ Len(A) = Len(handleQ) + Len(workQ)
      /\ {Len(handleQ), Len(workQ), Len(A)} \subseteq Nat
      /\ \A i \in 1 .. Len(handleQ) : A[i] = handleQ[i]
      /\ \A i \in 1 .. Len(workQ) : A[Len(handleQ) + i] = workQ[i]
  BY <1>1, JoinedElements
<1> HIDE DEF A
<1>3. /\ B \in Seq(Jobs) /\ Len(B) = Len(Working) + Len(A)
      /\ {Len(Working), Len(B)} \subseteq Nat
      /\ \A i \in 1 .. Len(Working) : B[i] = Working[i]
      /\ \A i \in 1 .. Len(A) : B[Len(Working) + i] = A[i]
  <2>1. Working \in Seq(Jobs) /\ A \in Seq(Jobs)
    BY <1>1, <1>2
  <2> HIDE DEF B
  <2>2. B = Working \o A
    BY DEF B
  <2>3. /\ Working \o A \in Seq(Jobs) /\ Len(Working \o A) = Len(Working) + Len(A)
        /\ Len(Working) \in Nat /\ Len(A) \in Nat
        /\ \A i \in 1 .. Len(Working) : (Working \o A)[i] = Working[i]
        /\ \A i \in 1 .. Len(A) : (Working \o A)[Len(Working) + i] = A[i]
    BY ONLY <2>1, JoinedElements
  <2> QED
    BY <2>1, <2>2, <2>3
<1> HIDE DEF B
<1>4. /\ C \in Seq(Jobs) /\ Len(C) = Len(doneQ) + Len(B)
      /\ {Len(doneQ), Len(C)} \subseteq Nat
      /\ \A i \in 1 .. Len(doneQ) : C[i] = doneQ[i]
      /\ \A i \in 1 .. Len(B) : C[Len(doneQ) + i] = B[i]
  <2>1. doneQ \in Seq(Jobs) /\ B \in Seq(Jobs)
    BY <1>1, <1>3
  <2> HIDE DEF C
  <2>2. C = doneQ \o B
    BY DEF C
  <2>3. /\ doneQ \o B \in Seq(Jobs) /\ Len(doneQ \o B) = Len(doneQ) + Len(B)
        /\ Len(doneQ) \in Nat /\ Len(B) \in Nat
        /\ \A i \in 1 .. Len(doneQ) : (doneQ \o B)[i] = doneQ[i]
        /\ \A i \in 1 .. Len(B) : (doneQ \o B)[Len(doneQ) + i] = B[i]
    BY ONLY <2>1, JoinedElements
  <2> QED
    BY <2>1, <2>2, <2>3
<1> HIDE DEF C
<1>5. /\ mgrQ \o C \in Seq(Jobs) /\ Len(mgrQ \o C) = Len(mgrQ) + Len(C)
      /\ {Len(mgrQ), Len(mgrQ \o C)} \subseteq Nat
      /\ \A i \in 1 .. Len(mgrQ) : (mgrQ \o C)[i] = mgrQ[i]
      /\ \A i \in 1 .. Len(C) : (mgrQ \o C)[Len(mgrQ) + i] = C[i]
  BY <1>1, <1>4, JoinedElements
<1>6. Pipeline = mgrQ \o C
  BY DEF Pipeline, C, B, A
<1> HIDE DEF Pipeline
<1>7. \A i \in 1 .. Len(doneQ) : Pipeline[Len(mgrQ) + i] = doneQ[i]
  BY <1>3, <1>4, <1>5, <1>6
<1>8. \A i \in 1 .. Len(B) : Pipeline[Len(mgrQ) + (Len(doneQ) + i)] = B[i]
  BY <1>3, <1>4, <1>5, <1>6
<1>9. \A i \in 1 .. Len(Working) : Pipeline[Len(mgrQ) + (Len(doneQ) + i)] = Working[i]
  BY <1>2, <1>3, <1>8
<1>10. \A i \in 1 .. Len(A) : Pipeline[Len(mgrQ) + (Len(doneQ) + (Len(Working) + i))] = A[i]
  BY <1>2, <1>3, <1>8
<1>11. \A i \in 1 .. Len(handleQ) : Pipeline[Len(mgrQ) + (Len(doneQ) + (Len(Working) + i))] = handleQ[i]
  BY <1>2, <1>10
<1>12. \A i \in 1 .. Len(workQ) :
         Pipeline[Len(mgrQ) + (Len(doneQ) + (Len(Working) + (Len(handleQ) + i)))] = workQ[i]
  BY <1>2, <1>10
<1>13. Len(Pipeline) = Len(mgrQ) + Len(doneQ) + Len(Working) + Len(handleQ) + Len(workQ)
  BY <1>2, <1>3, <1>4, <1>5, <1>6
<1> QED
  BY <1>2, <1>3, <1>4, <1>5, <1>6, <1>7, <1>9, <1>11, <1>12, <1>13

LEMMA HeadFirst ==
  ASSUME NEW S, NEW q \in Seq(S), q # <<>>
  PROVE  <<Head(q)>> \o Tail(q) = q
<1>1. Head(q) \in S /\ Tail(q) \in Seq(S) /\ Len(Tail(q)) = Len(q) - 1 /\ Len(q) \in Nat
      /\ \A i \in 1 .. Len(Tail(q)) : Tail(q)[i] = q[i + 1]
  BY HeadTailProperties, LenProperties
<1> DEFINE p == <<Head(q)>>
           t == Tail(q)
<1>2. p \in Seq(S) /\ Len(p) = 1 /\ p[1] = q[1]
  BY <1>1
<1>3. t \in Seq(S) /\ Len(t) = Len(q) - 1 /\ \A i \in 1 .. Len(t) : t[i] = q[i + 1]
  BY <1>1
<1> HIDE DEF p, t
<1>4. /\ p \o t \in Seq(S) /\ Len(p \o t) = Len(q)
      /\ \A i \in 1 .. Len(p) + Len(t) : (p \o t)[i] = IF i <= Len(p) THEN p[i] ELSE t[i - Len(p)]
  <2>1. p \in Seq(S) /\ t \in Seq(S)
    BY <1>2, <1>3
  <2>2. /\ p \o t \in Seq(S) /\ Len(p \o t) = Len(p) + Len(t)
        /\ \A i \in 1 .. Len(p) + Len(t) : (p \o t)[i] = IF i <= Len(p) THEN p[i] ELSE t[i - Len(p)]
    BY <2>1, ConcatProperties
  <2>3. Len(p) + Len(t) = Len(q)
    BY <1>1, <1>2, <1>3
  <2> QED
    BY <2>2, <2>3
<1>5. ASSUME NEW i \in 1 .. Len(q) PROVE (p \o t)[i] = q[i]
  <2>1. CASE i = 1
    BY <1>1, <1>2, <1>3, <1>4, <2>1
  <2>2. CASE i > 1
    <3>1. i - 1 \in 1 .. Len(t) /\ i - 1 + 1 = i
      BY <1>1, <1>3, <2>2
    <3>2. t[i - 1] = q[i]
      BY <1>3, <3>1
    <3> QED
      BY <1>1, <1>2, <1>3, <1>4, <2>2, <3>2
  <2>3. Len(q) \in Nat
    BY <1>1
  <2>4. i = 1 \/ i > 1
    BY <2>3
  <2> QED
    BY <2>1, <2>2, <2>4
<1>6. p \o t = q
  BY <1>1, <1>4, <1>5, SeqEqual
<1> QED
  BY <1>6 DEF p, t

\* The jobs move from queue to queue without changing places.
LEMMA JobsMoveOn ==
  ASSUME TypeOK,
         \/ PipeEvent \/ TakeJobs \/ StartJob \/ SubmitReadDoneJob
         \/ UNCHANGED <<mgrQ, doneQ, worker, handleQ, workQ>>
  PROVE  Pipeline' = Pipeline /\ NumRead' = NumRead
<1>1. mgrQ \in Seq(Jobs) /\ doneQ \in Seq(Jobs) /\ handleQ \in Seq(Jobs) /\ workQ \in Seq(Jobs)
  BY DEF TypeOK
<1>2. /\ Working \in Seq(Jobs) /\ handleQ \o workQ \in Seq(Jobs)
      /\ Working \o (handleQ \o workQ) \in Seq(Jobs) /\ doneQ \o (Working \o (handleQ \o workQ)) \in Seq(Jobs)
      /\ Len(<<>>) = 0 /\ Len(mgrQ) \in Nat /\ Len(doneQ) \in Nat
  BY <1>1, WorkerKinds, ConcatProperties
<1>3. CASE PipeEvent
  <2>1. mgrQ = <<>> /\ mgrQ' = doneQ /\ doneQ' = <<>> /\ UNCHANGED <<worker, handleQ, workQ>>
    BY <1>3 DEF PipeEvent, MgrReady, workVars
  <2>2. Working' = Working
    BY <2>1 DEF Working
  <2>3. Pipeline = doneQ \o (Working \o (handleQ \o workQ))
    BY <1>2, <2>1, ConcatEmptySeq DEF Pipeline
  <2>4. Pipeline' = doneQ \o (<<>> \o (Working \o (handleQ \o workQ)))
    BY <2>1, <2>2 DEF Pipeline
  <2>5. Pipeline' = Pipeline
    BY <1>2, <2>3, <2>4, ConcatEmptySeq
  <2> QED
    BY <1>2, <2>1, <2>5 DEF NumRead
<1>4. CASE TakeJobs
  <2>1. handleQ = <<>> /\ handleQ' = workQ /\ workQ' = <<>> /\ UNCHANGED <<worker, mgrQ, doneQ>>
    BY <1>4 DEF TakeJobs, mgrVars
  <2>2. Working' = Working
    BY <2>1 DEF Working
  <2>3. (handleQ \o workQ)' = handleQ \o workQ
    BY <1>1, <2>1, ConcatEmptySeq
  <2> QED
    BY <2>1, <2>2, <2>3 DEF NumRead, Pipeline
<1>5. CASE StartJob
  <2>1. /\ worker = Idle /\ handleQ # <<>> /\ worker' = [pc |-> "look", job |-> Head(handleQ)]
        /\ handleQ' = Tail(handleQ) /\ UNCHANGED <<workQ, mgrQ, doneQ>>
    BY <1>5 DEF StartJob, mgrVars
  <2>2. worker'.pc = "look" /\ worker'.job = Head(handleQ) /\ worker' # Idle
    BY <2>1 DEF Idle
  <2>3. Working = <<>> /\ Working' = <<Head(handleQ)>>
    BY <2>1, <2>2 DEF Working
  <2>4. <<Head(handleQ)>> \in Seq(Jobs) /\ Tail(handleQ) \in Seq(Jobs)
    BY <1>1, <2>1, HeadTailProperties
  <2>5. (<<Head(handleQ)>> \o Tail(handleQ)) \o workQ = <<Head(handleQ)>> \o (Tail(handleQ) \o workQ)
    BY <1>1, <2>4, ConcatAssociative
  <2>6. <<Head(handleQ)>> \o (Tail(handleQ) \o workQ) = handleQ \o workQ
    BY <1>1, <2>1, <2>5, HeadFirst
  <2>7. Working \o (handleQ \o workQ) = handleQ \o workQ
    BY <1>2, <2>3, ConcatEmptySeq
  <2>8. Pipeline' = Pipeline
    BY <2>1, <2>3, <2>6, <2>7 DEF Pipeline
  <2> QED
    BY <2>1, <2>2, <2>8 DEF NumRead
<1>6. CASE SubmitReadDoneJob
  <2>1. /\ worker.pc = "done" /\ doneQ' = Append(doneQ, worker.job) /\ worker' = Idle
        /\ UNCHANGED <<mgrQ, workQ, handleQ>>
    BY <1>6 DEF SubmitReadDoneJob, EnqueueDone
  <2>2. worker # Idle /\ worker.job \in Jobs
    BY <2>1, WorkerKinds
  <2>3. Working = <<worker.job>> /\ Working' = <<>>
    BY <2>1, <2>2 DEF Working
  <2>4. doneQ' = doneQ \o <<worker.job>> /\ Len(doneQ') = Len(doneQ) + 1 /\ <<worker.job>> \in Seq(Jobs)
    BY <1>1, <2>1, <2>2, AppendIsConcat, AppendProperties
  <2>5. (doneQ \o <<worker.job>>) \o (handleQ \o workQ) = doneQ \o (<<worker.job>> \o (handleQ \o workQ))
    <3>1. handleQ \o workQ \in Seq(Jobs)
      BY <1>1, ConcatProperties
    <3> QED
      BY <1>1, <2>4, <3>1, ConcatAssociative
  <2>6. (Working \o (handleQ \o workQ))' = handleQ \o workQ
    BY <1>2, <2>1, <2>3, ConcatEmptySeq
  <2>7. Pipeline' = Pipeline
    BY <2>1, <2>3, <2>4, <2>5, <2>6 DEF Pipeline
  <2> QED
    BY <1>2, <2>1, <2>2, <2>4, <2>7 DEF NumRead
<1>7. CASE UNCHANGED <<mgrQ, doneQ, worker, handleQ, workQ>>
  BY <1>7 DEF NumRead, Pipeline, Working
<1> QED
  BY <1>3, <1>4, <1>5, <1>6, <1>7

-----------------------------------------------------------------------------
(* Readers are served in order. *)

\* As long as ECMeta deletes no open block, a client holds its row and its
\* descriptor, and no other client has either.
LEMMA HeldFile ==
  ASSUME TypeOK, FilesInv, "openDeleted" \notin mishaps, NEW c \in Conns, file[c] # NoFile
  PROVE  /\ file[c].row \in Rows /\ table[file[c].row] # Free /\ table[file[c].row].sock = sock[c]
         /\ FdOf(c) \in Fds /\ fds[FdOf(c)] # Closed /\ fds[FdOf(c)].block = file[c].block
         /\ fds[FdOf(c)] \in FdRec /\ Offset(c) \in 0 .. BlockLen
         /\ \A d \in Conns \ {c} : file[d] # NoFile => file[d].row # file[c].row /\ FdOf(d) # FdOf(c)
         /\ Alive(c) /\ conn[c] = "monitored" /\ sock[c] \in Socks
<1>1. Sockets /\ RowsOpen /\ RowsHeld
  BY DEF FilesInv
<1>2. \A d \in Conns : file[d] # NoFile =>
         file[d].row \in Rows /\ table[file[d].row] # Free /\ table[file[d].row].sock = sock[d]
  BY <1>1, TableTypes DEF RowsHeld, OwnsRow
<1>3. FdOf(c) \in Fds
  BY <1>2, TableTypes DEF FdOf
<1>4. table[file[c].row].block = file[c].block
  BY <1>1 DEF RowsHeld
<1>5. fds[FdOf(c)] # Closed /\ fds[FdOf(c)].block = file[c].block
  BY <1>1, <1>2, <1>4 DEF RowsOpen, FdOf
<1>6. fds[FdOf(c)] \in FdRec /\ Offset(c) \in 0 .. BlockLen
  BY <1>3, <1>5, TableTypes DEF Offset
<1>7. conn[c] = "monitored" /\ Alive(c) /\ sock[c] \in Socks
  BY <1>1 DEF Sockets, Alive
<1>8. ASSUME NEW d \in Conns \ {c}, file[d] # NoFile
      PROVE  file[d].row # file[c].row /\ FdOf(d) # FdOf(c)
  <2>1. sock[c] # sock[d]
    BY <1>1, <1>7, <1>8 DEF Sockets, Alive
  <2>2. file[d].row # file[c].row
    BY <1>2, <1>8, <2>1
  <2> QED
    BY <1>1, <1>2, <1>8, <2>2 DEF RowsOpen, FdOf
<1> QED
  BY <1>2, <1>3, <1>5, <1>6, <1>7, <1>8

\* A step that moves no job and makes none serves whom it served before: D are
\* the clients without jobs whose file it may change.
LEMMA OthersRead ==
  ASSUME TypeOK, ReadsInv, mishaps = {}, NEW D \in SUBSET Conns,
         Pipeline' = Pipeline, NumRead' = NumRead, mgr' # "inPut" => mgr # "inPut",
         \A c \in D : /\ asked[c] = Len(got[c])
                      /\ asked'[c] \in Nat /\ asked'[c] = Len(got'[c]) /\ ClientFits(c)'
                      /\ file'[c] # NoFile /\ file'[c].mode = "r" => Offset(c)' = asked'[c],
         \A c \in Conns \ D :
           /\ got'[c] = got[c] /\ asked'[c] = asked[c] /\ file'[c] = file[c]
           /\ hungUp'[c] => hungUp[c] \/ asked[c] = Len(got[c])
           /\ file[c] # NoFile =>
                /\ FdOf(c)' = FdOf(c) /\ Offset(c)' = Offset(c)
                /\ stored[file[c].block] = BlockLen => stored'[file[c].block] = BlockLen,
         \/ worker' = worker
         \/ worker'.pc # "read"
         \/ worker'.fd = FdOf(worker.job.conn) /\ worker'.job = worker.job /\ worker # Idle
  PROVE  ReadsInv'
<1>1. PICK num, made : /\ Numbering(num, made)
                       /\ \A i \in 1 .. Len(Pipeline) : JobFits(i, num[i])
                       /\ \A c \in Conns : OffsetFits(c, made[c])
  BY DEF ReadsInv
<1>2. (\A c \in Conns : ClientFits(c)) /\ WorkerFits
  BY DEF ReadsInv
<1>3. PICK left : left = [c \in Conns |-> IF c \in D THEN asked'[c] ELSE made[c]]
  OBVIOUS
<1>4. /\ num \in [1 .. Len(Pipeline) -> Nat] /\ made \in [Conns -> Nat]
      /\ \A c \in Conns : /\ Len(got[c]) <= made[c] /\ made[c] <= asked[c]
                          /\ mgr # "inPut" => made[c] = asked[c]
      /\ \A i \in 1 .. Len(Pipeline) :
           Len(got[Pipeline[i].conn]) < num[i] /\ num[i] <= made[Pipeline[i].conn]
      /\ \A i, j \in 1 .. Len(Pipeline) :
           i < j /\ Pipeline[i].conn = Pipeline[j].conn => num[i] < num[j]
      /\ \A c \in Conns : \A n \in Len(got[c]) + 1 .. made[c] :
           \E i \in 1 .. Len(Pipeline) : Pipeline[i].conn = c /\ num[i] = n
  BY <1>1 DEF Numbering
<1>made. /\ made \in [Conns -> Nat]
         /\ \A c \in Conns : Len(got[c]) <= made[c]
         /\ \A c \in Conns : made[c] <= asked[c]
         /\ \A c \in Conns : mgr # "inPut" => made[c] = asked[c]
  BY <1>1 DEF Numbering
<1>5. /\ \A c \in Conns : asked[c] \in Nat /\ Len(got[c]) \in Nat
      /\ \A i \in 1 .. Len(Pipeline) : Pipeline[i] \in Jobs /\ Pipeline[i].conn \in Conns /\ num[i] \in Nat
  <2>1. \A i \in 1 .. Len(Pipeline) : Pipeline[i] \in Jobs
    BY PipelineShape
  <2>2. asked \in [Conns -> 0 .. BlockLen] /\ got \in [Conns -> Seq(Pieces)]
    BY DEF TypeOK
  <2>3. \A c \in Conns : asked[c] \in Nat /\ Len(got[c]) \in Nat
    BY <2>2
  <2>4. \A j \in Jobs : j.conn \in Conns
    BY DEF Jobs
  <2> QED
    BY <1>4, <2>1, <2>3, <2>4
<1>6. \A i \in 1 .. Len(Pipeline) : Pipeline[i].conn \in Conns \ D
  <2> SUFFICES ASSUME NEW i \in 1 .. Len(Pipeline), Pipeline[i].conn \in D PROVE FALSE
    BY <1>5
  <2>1. PICK c \in D : c = Pipeline[i].conn
    OBVIOUS
  <2>2. Len(got[c]) < num[i] /\ num[i] <= made[c]
    BY <1>4, <2>1
  <2>3. made[c] <= asked[c] /\ made[c] \in Nat /\ asked[c] = Len(got[c])
    BY <1>made
  <2>4. num[i] \in Nat /\ asked[c] \in Nat
    BY <1>5
  <2> QED
    BY <2>2, <2>3, <2>4
<1>7. /\ left \in [Conns -> Nat] /\ \A c \in D : left[c] = asked'[c]
      /\ \A c \in Conns \ D : left[c] = made[c]
  BY <1>3, <1>4
<1>8. Numbering(num, left)'
  <2>1. \A c \in Conns : /\ Len(got'[c]) <= left[c] /\ left[c] <= asked'[c]
                         /\ mgr' # "inPut" => left[c] = asked'[c]
    <3> SUFFICES ASSUME NEW c \in Conns
                 PROVE  /\ Len(got'[c]) <= left[c] /\ left[c] <= asked'[c]
                        /\ mgr' # "inPut" => left[c] = asked'[c]
      OBVIOUS
    <3>1. CASE c \in D
      BY <1>7, <3>1
    <3>2. CASE c \notin D
      <4>1. got'[c] = got[c] /\ asked'[c] = asked[c] /\ left[c] = made[c]
        BY <1>7, <3>2
      <4>2. Len(got[c]) <= made[c] /\ made[c] <= asked[c] /\ (mgr # "inPut" => made[c] = asked[c])
        BY <1>made
      <4> QED
        BY <4>1, <4>2
    <3> QED
      BY <3>1, <3>2
  <2>2. \A i \in 1 .. Len(Pipeline) :
          Len(got'[Pipeline[i].conn]) < num[i] /\ num[i] <= left[Pipeline[i].conn]
    BY <1>4, <1>6, <1>7
  <2>3. ASSUME NEW c \in Conns, NEW n \in Len(got'[c]) + 1 .. left[c]
        PROVE  \E i \in 1 .. Len(Pipeline) : Pipeline[i].conn = c /\ num[i] = n
    <3>1. CASE c \in D
      BY <1>5, <1>7, <2>3, <3>1
    <3>2. CASE c \notin D
      <4>1. n \in Len(got[c]) + 1 .. made[c]
        BY <1>7, <2>3, <3>2
      <4>2. \A d \in Conns : \A m \in Len(got[d]) + 1 .. made[d] :
              \E i \in 1 .. Len(Pipeline) : Pipeline[i].conn = d /\ num[i] = m
        BY <1>4
      <4> QED
        BY <4>1, <4>2
    <3> QED
      BY <3>1, <3>2
  <2> QED
    BY <1>4, <1>7, <2>1, <2>2, <2>3 DEF Numbering
<1>9. ASSUME NEW i \in 1 .. Len(Pipeline) PROVE JobFits(i, num[i])'
  <2>1. JobFits(i, num[i])
    BY <1>1
  <2>2. PICK c \in Conns \ D : c = Pipeline[i].conn
    BY <1>6
  <2>3. file'[c] = file[c] /\ file[c] # NoFile /\ Offset(c)' = Offset(c)
    BY <2>1, <2>2 DEF JobFits
  <2> QED
    BY <2>1, <2>2, <2>3 DEF JobFits
<1>10. ASSUME NEW c \in Conns PROVE OffsetFits(c, left[c])'
  <2>1. CASE c \in D
    BY <1>7, <2>1 DEF OffsetFits
  <2>2. CASE c \notin D
    <3>1. OffsetFits(c, made[c]) /\ left[c] = made[c]
      BY <1>1, <1>7, <2>2
    <3> QED
      BY <2>2, <3>1 DEF OffsetFits
  <2> QED
    BY <2>1, <2>2
<1>11. ASSUME NEW c \in Conns PROVE ClientFits(c)'
  <2>1. CASE c \in D
    BY <2>1
  <2>2. CASE c \notin D
    BY <1>2, <2>2 DEF ClientFits
  <2> QED
    BY <2>1, <2>2
<1>12. WorkerFits'
  <2>1. CASE worker' = worker
    <3> SUFFICES ASSUME worker # Idle, worker.pc = "read" PROVE worker.fd = FdOf(worker.job.conn)'
      BY <2>1 DEF WorkerFits
    <3>1. PICK i \in 1 .. Len(Pipeline) : Pipeline[i] = worker.job
      <4>1. Len(Working) = 1 /\ Working[1] = worker.job
        BY WorkerKinds
      <4>2. Pipeline[Len(mgrQ) + (Len(doneQ) + 1)] = worker.job
        BY <4>1, PipelineShape
      <4>3. Len(mgrQ) + (Len(doneQ) + 1) \in 1 .. Len(Pipeline)
        BY <4>1, PipelineShape
      <4> QED
        BY <4>2, <4>3
    <3>2. PICK c \in Conns \ D : c = worker.job.conn
      BY <1>6, <3>1
    <3>3. JobFits(i, num[i])
      BY <1>1
    <3>4. file[c] # NoFile
      BY <3>1, <3>2, <3>3 DEF JobFits
    <3>5. FdOf(c)' = FdOf(c)
      BY <3>4
    <3>6. worker.fd = FdOf(c)
      BY <1>2, <3>2 DEF WorkerFits
    <3> QED
      BY <2>1, <3>2, <3>5, <3>6
  <2>2. CASE worker'.pc # "read"
    BY <2>2 DEF WorkerFits
  <2>3. CASE worker'.fd = FdOf(worker.job.conn) /\ worker'.job = worker.job /\ worker # Idle
    <3>1. PICK i \in 1 .. Len(Pipeline) : Pipeline[i] = worker.job
      <4>1. Len(Working) = 1 /\ Working[1] = worker.job
        BY <2>3, WorkerKinds
      <4>2. Pipeline[Len(mgrQ) + (Len(doneQ) + 1)] = worker.job
        BY <4>1, PipelineShape
      <4>3. Len(mgrQ) + (Len(doneQ) + 1) \in 1 .. Len(Pipeline)
        BY <4>1, PipelineShape
      <4> QED
        BY <4>2, <4>3
    <3>2. PICK c \in Conns \ D : c = worker.job.conn
      BY <1>6, <3>1
    <3>3. JobFits(i, num[i])
      BY <1>1
    <3>4. file[c] # NoFile
      BY <3>1, <3>2, <3>3 DEF JobFits
    <3>5. FdOf(c)' = FdOf(c)
      BY <3>4
    <3>6. FdOf(worker.job.conn)' = FdOf(c)'
      BY <2>3, <3>2 DEF FdOf
    <3> QED
      BY <2>3, <3>2, <3>5, <3>6 DEF WorkerFits
  <2> QED
    BY <2>1, <2>2, <2>3
<1>13. \E n, m : /\ Numbering(n, m)'
                 /\ \A i \in 1 .. Len(Pipeline') : JobFits(i, n[i])'
                 /\ \A c \in Conns : OffsetFits(c, m[c])'
  BY <1>8, <1>9, <1>10
<1> QED
  BY <1>11, <1>12, <1>13 DEF ReadsInv

\* ... and so does one that leaves all files alone.
LEMMA NobodysFile ==
  ASSUME TypeOK, ReadsInv, mishaps = {}, UNCHANGED <<got, asked, file, table, fds>>,
         Pipeline' = Pipeline, NumRead' = NumRead, mgr' # "inPut" => mgr # "inPut",
         \A c \in Conns : hungUp'[c] => hungUp[c] \/ asked[c] = Len(got[c]),
         \A b \in Blocks : stored[b] = BlockLen => stored'[b] = BlockLen,
         \/ worker' = worker
         \/ worker'.pc # "read"
         \/ worker'.fd = FdOf(worker.job.conn) /\ worker'.job = worker.job /\ worker # Idle
  PROVE  ReadsInv'
<1>1. \A c \in Conns : file[c] # NoFile => file[c].block \in Blocks
  BY TableTypes
<1>2. \A c \in Conns : FdOf(c)' = FdOf(c) /\ Offset(c)' = Offset(c)
  BY DEF FdOf, Offset
<1>3. \A c \in Conns \ {} :
        /\ got'[c] = got[c] /\ asked'[c] = asked[c] /\ file'[c] = file[c]
        /\ hungUp'[c] => hungUp[c] \/ asked[c] = Len(got[c])
        /\ file[c] # NoFile =>
             /\ FdOf(c)' = FdOf(c) /\ Offset(c)' = Offset(c)
             /\ stored[file[c].block] = BlockLen => stored'[file[c].block] = BlockLen
  BY <1>1, <1>2
<1>4. {} \in SUBSET Conns
  OBVIOUS
<1> QED
  BY <1>3, <1>4, OthersRead

\* The files of clients other than c, after rows are closed that are not theirs.
LEMMA OthersKeepRows ==
  ASSUME TypeOK, FilesInv, mishaps = {}, NEW R \in SUBSET Rows, CloseRows(R), NEW d \in Conns,
         file[d] # NoFile, file[d].row \notin R, file'[d] = file[d]
  PROVE  FdOf(d)' = FdOf(d) /\ Offset(d)' = Offset(d)
<1>1. file[d].row \in Rows /\ table[file[d].row] # Free
  BY HeldFile
<1>2. RowsOpen /\ FdsHaveRows
  BY DEF FilesInv
<1>3. table'[file[d].row] = table[file[d].row] /\ fds'[table[file[d].row].fd] = fds[table[file[d].row].fd]
  BY <1>1, <1>2, ClosedRows
<1> QED
  BY <1>3 DEF FdOf, Offset

LEMMA ConnectionsRead ==
  ASSUME TypeOK, FilesInv, ReadsInv, mishaps = {}, mishaps' = {},
         NEW c \in Conns, Accept(c) \/ HangUp(c) \/ RemoveClient(c)
  PROVE  ReadsInv'
<1>1. CASE Accept(c)
  <2>1. /\ UNCHANGED <<got, asked, file, table, fds, hungUp, stored, mgr, worker>>
        /\ UNCHANGED <<mgrQ, doneQ, worker, handleQ, workQ>>
    BY <1>1 DEF Accept, useVars, fileVars, mgrVars, workVars
  <2>2. Pipeline' = Pipeline /\ NumRead' = NumRead
    BY <2>1, JobsMoveOn
  <2> QED
    BY <2>1, <2>2, NobodysFile
<1>2. CASE HangUp(c)
  <2>1. /\ UNCHANGED <<got, asked, file, table, fds, stored, mgr, worker>>
        /\ UNCHANGED <<mgrQ, doneQ, worker, handleQ, workQ>>
        /\ hungUp' = [hungUp EXCEPT ![c] = TRUE] /\ asked[c] = Len(got[c])
    BY <1>2 DEF HangUp, Note, useVars, fileVars, pipeVars, mgrVars, workVars
  <2>2. Pipeline' = Pipeline /\ NumRead' = NumRead
    BY <2>1, JobsMoveOn
  <2>3. \A d \in Conns : hungUp'[d] => hungUp[d] \/ asked[d] = Len(got[d])
    BY <2>1 DEF TypeOK
  <2> QED
    BY <2>1, <2>2, <2>3, NobodysFile
<1>3. CASE RemoveClient(c)
  <2> DEFINE R == RowsOfSock(sock[c])
  <2>1. /\ UNCHANGED <<got, asked, stored, mgr, worker, hungUp>>
        /\ UNCHANGED <<mgrQ, doneQ, worker, handleQ, workQ>>
        /\ file' = [file EXCEPT ![c] = NoFile] /\ CloseRows(R) /\ hungUp[c] /\ conn[c] = "monitored"
    BY <1>3 DEF RemoveClient, pipeVars, mgrVars, workVars
  <2>2. Pipeline' = Pipeline /\ NumRead' = NumRead
    BY <2>1, JobsMoveOn
  <2>3. R \in SUBSET Rows
    BY DEF RowsOfSock
  <2>4. file'[c] = NoFile /\ \A d \in Conns \ {c} : file'[d] = file[d]
    BY <2>1, TableTypes
  <2>5. \A d \in {c} : /\ asked[d] = Len(got[d])
                       /\ asked'[d] \in Nat /\ asked'[d] = Len(got'[d]) /\ ClientFits(d)'
                       /\ file'[d] # NoFile /\ file'[d].mode = "r" => Offset(d)' = asked'[d]
    <3>1. asked[c] = Len(got[c]) /\ asked[c] <= Len(got[c]) + Window
      BY <2>1 DEF ReadsInv, ClientFits
    <3>2. asked[c] \in Nat
      BY DEF TypeOK
    <3> QED
      BY <2>1, <2>4, <3>1, <3>2 DEF ClientFits
  <2>6. ASSUME NEW d \in Conns \ {c}, file[d] # NoFile
        PROVE  FdOf(d)' = FdOf(d) /\ Offset(d)' = Offset(d)
    <3>1. sock[d] # sock[c] /\ table[file[d].row].sock = sock[d]
      BY <2>1, <2>6, HeldFile DEF FilesInv, Sockets, Alive
    <3>2. file[d].row \notin R
      BY <3>1 DEF RowsOfSock
    <3> QED
      BY <2>1, <2>3, <2>4, <2>6, <3>2, OthersKeepRows
  <2> HIDE DEF R
  <2>7. \A d \in Conns \ {c} :
          /\ got'[d] = got[d] /\ asked'[d] = asked[d] /\ file'[d] = file[d]
          /\ hungUp'[d] => hungUp[d] \/ asked[d] = Len(got[d])
          /\ file[d] # NoFile =>
               /\ FdOf(d)' = FdOf(d) /\ Offset(d)' = Offset(d)
               /\ stored[file[d].block] = BlockLen => stored'[file[d].block] = BlockLen
    BY <2>1, <2>4, <2>6
  <2>8. {c} \in SUBSET Conns /\ (mgr' # "inPut" => mgr # "inPut") /\ worker' = worker
    BY <2>1
  <2> QED
    BY <2>2, <2>5, <2>7, <2>8, OthersRead
<1> QED
  BY <1>1, <1>2, <1>3

LEMMA OpenAndCloseRead ==
  ASSUME FdsSuffice, TypeOK, FilesInv, ReadsInv, mishaps = {}, mishaps' = {}, NEW c \in Conns,
         CloseBlock(c) \/ \E b \in Blocks : CreateBlock(c, b) \/ OpenBlock(c, b)
  PROVE  ReadsInv'
<1>1. /\ UNCHANGED <<stored, mgr, worker, hungUp>>
      /\ UNCHANGED <<mgrQ, doneQ, worker, handleQ, workQ>>
  BY DEF CloseBlock, CreateBlock, OpenBlock, connVars, pipeVars, mgrVars, workVars
<1>2. Pipeline' = Pipeline /\ NumRead' = NumRead
  BY <1>1, JobsMoveOn
<1>3. asked[c] = Len(got[c]) /\ ~hungUp[c]
  <2>1. CASE CloseBlock(c)
    BY <2>1 DEF CloseBlock, Note, Requests
  <2>2. CASE \E b \in Blocks : CreateBlock(c, b) \/ OpenBlock(c, b)
    BY <2>2 DEF CreateBlock, OpenBlock, Requests, ReadsInv, ClientFits
  <2> QED
    BY <2>1, <2>2
<1>4. /\ asked' = [asked EXCEPT ![c] = 0] /\ got' = [got EXCEPT ![c] = <<>>]
  BY DEF CloseBlock, CreateBlock, OpenBlock, TakeRow
<1>5. /\ asked'[c] = 0 /\ got'[c] = <<>> /\ Len(got'[c]) = 0
      /\ \A d \in Conns \ {c} : asked'[d] = asked[d] /\ got'[d] = got[d]
  BY <1>4 DEF TypeOK
<1>6. CASE CloseBlock(c)
  <2>1. file[c] # NoFile /\ CloseRows({file[c].row}) /\ file' = [file EXCEPT ![c] = NoFile]
    BY <1>6 DEF CloseBlock, RowsToClose
  <2>2. file'[c] = NoFile /\ \A d \in Conns \ {c} : file'[d] = file[d]
    BY <2>1, TableTypes
  <2>3. {file[c].row} \in SUBSET Rows
    BY <2>1, TableTypes
  <2>4. \A d \in {c} : /\ asked[d] = Len(got[d])
                       /\ asked'[d] \in Nat /\ asked'[d] = Len(got'[d]) /\ ClientFits(d)'
                       /\ file'[d] # NoFile /\ file'[d].mode = "r" => Offset(d)' = asked'[d]
    BY <1>1, <1>3, <1>5, <2>2, SizesAssumption DEF ClientFits
  <2>5. ASSUME NEW d \in Conns \ {c}, file[d] # NoFile
        PROVE  FdOf(d)' = FdOf(d) /\ Offset(d)' = Offset(d)
    <3>1. file[d].row \notin {file[c].row}
      BY <2>1, <2>5, HeldFile
    <3> QED
      BY <2>1, <2>2, <2>3, <2>5, <3>1, OthersKeepRows
  <2>6. \A d \in Conns \ {c} :
          /\ got'[d] = got[d] /\ asked'[d] = asked[d] /\ file'[d] = file[d]
          /\ hungUp'[d] => hungUp[d] \/ asked[d] = Len(got[d])
          /\ file[d] # NoFile =>
               /\ FdOf(d)' = FdOf(d) /\ Offset(d)' = Offset(d)
               /\ stored[file[d].block] = BlockLen => stored'[file[d].block] = BlockLen
    BY <1>1, <1>5, <2>2, <2>5
  <2>7. {c} \in SUBSET Conns /\ (mgr' # "inPut" => mgr # "inPut") /\ worker' = worker
    BY <1>1
  <2> QED
    BY <1>2, <2>4, <2>6, <2>7, OthersRead
<1>7. CASE \E b \in Blocks : CreateBlock(c, b) \/ OpenBlock(c, b)
  <2>1. PICK b \in Blocks, mode \in {"r", "w"} :
          /\ TakeRow(c, b, mode) /\ FreeRows # {} /\ conn[c] = "monitored" /\ file[c] = NoFile
          /\ mode = "r" => stored[b] = BlockLen
    BY <1>7 DEF CreateBlock, OpenBlock, Requests
  <2>2. sock[c] \in Socks /\ RowsOpen /\ FdsHaveRows
    BY <2>1 DEF FilesInv, Sockets, Alive
  <2>3. PICK r \in Rows, f \in Fds :
          /\ table[r] = Free /\ fds[f] = Closed
          /\ table' = [table EXCEPT ![r] = [block |-> b, sock |-> sock[c], fd |-> f]]
          /\ fds' = [fds EXCEPT ![f] = [block |-> b, off |-> 0]]
          /\ file' = [file EXCEPT ![c] = [mode |-> mode, block |-> b, row |-> r]]
    BY <2>1, <2>2, TakenRow
  <2>4. /\ table'[r].fd = f /\ \A q \in Rows \ {r} : table'[q] = table[q]
        /\ fds'[f].off = 0 /\ \A g \in Fds \ {f} : fds'[g] = fds[g]
        /\ file'[c] = [mode |-> mode, block |-> b, row |-> r] /\ \A d \in Conns \ {c} : file'[d] = file[d]
    BY <2>3, TableTypes
  <2>5. Offset(c)' = 0
    BY <2>4 DEF Offset, FdOf
  <2>6. \A d \in {c} : /\ asked[d] = Len(got[d])
                       /\ asked'[d] \in Nat /\ asked'[d] = Len(got'[d]) /\ ClientFits(d)'
                       /\ file'[d] # NoFile /\ file'[d].mode = "r" => Offset(d)' = asked'[d]
    BY <1>1, <1>3, <1>5, <2>1, <2>4, <2>5, SizesAssumption DEF ClientFits
  <2>7. ASSUME NEW d \in Conns \ {c}, file[d] # NoFile
        PROVE  FdOf(d)' = FdOf(d) /\ Offset(d)' = Offset(d)
    <3>1. file[d].row \in Rows \ {r} /\ FdOf(d) \in Fds \ {f}
      BY <2>3, <2>7, HeldFile
    <3> QED
      BY <2>4, <3>1 DEF FdOf, Offset
  <2>8. \A d \in Conns \ {c} :
          /\ got'[d] = got[d] /\ asked'[d] = asked[d] /\ file'[d] = file[d]
          /\ hungUp'[d] => hungUp[d] \/ asked[d] = Len(got[d])
          /\ file[d] # NoFile =>
               /\ FdOf(d)' = FdOf(d) /\ Offset(d)' = Offset(d)
               /\ stored[file[d].block] = BlockLen => stored'[file[d].block] = BlockLen
    BY <1>1, <1>5, <2>4, <2>7
  <2>9. {c} \in SUBSET Conns /\ (mgr' # "inPut" => mgr # "inPut") /\ worker' = worker
    BY <1>1
  <2> QED
    BY <1>2, <2>6, <2>8, <2>9, OthersRead
<1> QED
  BY <1>6, <1>7

\* The job at hand has its place among the jobs, and finds its client's file.
LEMMA JobAtHand ==
  ASSUME TypeOK, FilesInv, ReadsInv, mishaps = {}, worker # Idle
  PROVE  /\ Len(mgrQ) + (Len(doneQ) + 1) \in 1 .. Len(Pipeline)
         /\ Pipeline[Len(mgrQ) + (Len(doneQ) + 1)] = worker.job
         /\ worker.job.conn \in Conns /\ file[worker.job.conn] # NoFile
         /\ file[worker.job.conn].mode = "r" /\ worker.job.row = file[worker.job.conn].row
<1> DEFINE w == Len(mgrQ) + (Len(doneQ) + 1)
<1>1. Len(Working) = 1 /\ Working[1] = worker.job /\ worker.job.conn \in Conns
  BY WorkerKinds
<1>2. w \in 1 .. Len(Pipeline) /\ Pipeline[w] = worker.job
  BY <1>1, PipelineShape
<1>3. PICK num, made : \A i \in 1 .. Len(Pipeline) : JobFits(i, num[i])
  BY DEF ReadsInv
<1> HIDE DEF w
<1>4. JobFits(w, num[w])
  BY <1>2, <1>3
<1> QED
  BY <1>1, <1>2, <1>4 DEF JobFits, w

LEMMA QueuesRead ==
  ASSUME TypeOK, FilesInv, ReadsInv, mishaps = {}, mishaps' = {},
         \/ PipeEvent \/ TakeJobs \/ StartJob \/ SubmitReadDoneJob \/ LookUpRow
         \/ \E c \in Conns : WritePiece(c)
         \/ \E b \in Blocks : DeleteCloses(b) \/ DeleteRemoves(b)
  PROVE  ReadsInv'
<1>1. CASE PipeEvent \/ TakeJobs \/ StartJob \/ SubmitReadDoneJob
  <2>1. UNCHANGED <<got, asked, file, table, fds, hungUp, stored, mgr>>
    BY <1>1 DEF PipeEvent, TakeJobs, StartJob, SubmitReadDoneJob, connVars, useVars, fileVars, pipeVars
  <2>2. worker' = worker \/ worker'.pc # "read"
    BY <1>1 DEF PipeEvent, TakeJobs, StartJob, SubmitReadDoneJob, workVars, Idle
  <2>3. Pipeline' = Pipeline /\ NumRead' = NumRead
    BY <1>1, JobsMoveOn
  <2> QED
    BY <2>1, <2>2, <2>3, NobodysFile
<1>2. CASE LookUpRow
  <2>1. /\ UNCHANGED <<got, asked, file, table, fds, hungUp, stored, mgr>>
        /\ UNCHANGED <<mgrQ, doneQ, handleQ, workQ>> /\ worker.pc = "look"
    BY <1>2 DEF LookUpRow, connVars, useVars, fileVars, pipeVars, mgrVars
  <2> DEFINE c == worker.job.conn
  <2>2. /\ worker # Idle /\ c \in Conns /\ file[c] # NoFile /\ worker.job.row = file[c].row
    BY <2>1, WorkerKinds, JobAtHand
  <2>3. /\ table[file[c].row] # Free /\ table[file[c].row].sock = sock[c] /\ conn[c] = "monitored"
    BY <2>2, HeldFile
  <2>4. SockFdOf(worker.job) = {sock[c]}
    BY <2>3 DEF SockFdOf
  <2>5. worker' = [pc |-> "read", job |-> worker.job, fd |-> table[worker.job.row].fd]
    BY <1>2, <2>2, <2>3, <2>4 DEF LookUpRow
  <2>6. worker'.pc = "read" /\ worker'.fd = FdOf(c) /\ worker'.job = worker.job /\ worker' # Idle
    BY <2>2, <2>5 DEF FdOf, Idle
  <2>7. Pipeline' = Pipeline /\ NumRead' = NumRead
    <3>1. Working' = Working
      BY <2>2, <2>6 DEF Working
    <3> QED
      BY <2>1, <2>6, <3>1 DEF Pipeline, NumRead
  <2> QED
    BY <2>1, <2>2, <2>6, <2>7, NobodysFile
<1>3. ASSUME NEW c \in Conns, WritePiece(c) PROVE ReadsInv'
  <2>1. /\ UNCHANGED <<got, asked, file, table, fds, hungUp, worker>>
        /\ UNCHANGED <<mgrQ, doneQ, worker, handleQ, workQ>>
        /\ mgr' # "inPut" => mgr # "inPut"
    BY <1>3 DEF WritePiece, Requests, MgrReady, connVars, useVars, mgrVars, workVars
  <2>2. \A b \in Blocks : stored[b] = BlockLen => stored'[b] = BlockLen
    BY <1>3, SizesAssumption DEF WritePiece, TypeOK
  <2>3. Pipeline' = Pipeline /\ NumRead' = NumRead
    BY <2>1, JobsMoveOn
  <2> QED
    BY <2>1, <2>2, <2>3, NobodysFile
<1>4. ASSUME NEW b \in Blocks, DeleteCloses(b) PROVE ReadsInv'
  <2>1. /\ UNCHANGED <<got, asked, file, hungUp, stored, mgr, worker>>
        /\ UNCHANGED <<mgrQ, doneQ, worker, handleQ, workQ>>
        /\ CloseRows({})
    BY <1>4 DEF DeleteCloses, Note, connVars, useVars, pipeVars, mgrVars, workVars
  <2>2. Pipeline' = Pipeline /\ NumRead' = NumRead
    BY <2>1, JobsMoveOn
  <2>3. UNCHANGED <<table, fds>>
    BY <2>1, TableTypes DEF CloseRows
  <2> QED
    BY <2>1, <2>2, <2>3, NobodysFile
<1>5. ASSUME NEW b \in Blocks, DeleteRemoves(b) PROVE ReadsInv'
  <2>1. /\ UNCHANGED <<got, asked, file, table, fds, hungUp, stored, mgr, worker>>
        /\ UNCHANGED <<mgrQ, doneQ, worker, handleQ, workQ>>
    BY <1>5 DEF DeleteRemoves, connVars, useVars, pipeVars, mgrVars, workVars
  <2>2. Pipeline' = Pipeline /\ NumRead' = NumRead
    BY <2>1, JobsMoveOn
  <2> QED
    BY <2>1, <2>2, NobodysFile
<1> QED
  BY <1>1, <1>2, <1>3, <1>4, <1>5

LEMMA JoinOnce ==
  ASSUME NEW S, NEW x \in Seq(S), NEW y \in Seq(S), NEW z \in Seq(S)
  PROVE  x \o y \in Seq(S) /\ x \o (y \o z) = (x \o y) \o z
<1>1. x \o y \in Seq(S)
  BY ConcatProperties
<1>2. (x \o y) \o z = x \o (y \o z)
  BY ConcatAssociative
<1> QED
  BY <1>1, <1>2

LEMMA JoinedAtTheEnd ==
  ASSUME TypeOK, NEW js, js \in Seq(Jobs)
  PROVE  Pipeline \o js = mgrQ \o (doneQ \o (Working \o (handleQ \o (workQ \o js))))
<1> DEFINE p == handleQ \o workQ
           q == Working \o p
           r == doneQ \o q
<1>1. /\ mgrQ \in Seq(Jobs) /\ doneQ \in Seq(Jobs) /\ Working \in Seq(Jobs)
      /\ handleQ \in Seq(Jobs) /\ workQ \in Seq(Jobs) /\ js \in Seq(Jobs)
  BY WorkerKinds DEF TypeOK
<1>2. p \in Seq(Jobs) /\ handleQ \o (workQ \o js) = p \o js
  <2>1. handleQ \in Seq(Jobs) /\ workQ \in Seq(Jobs) /\ js \in Seq(Jobs)
    BY ONLY <1>1
  <2> QED
    BY ONLY <2>1, JoinOnce
<1> HIDE DEF p
<1>3. q \in Seq(Jobs) /\ Working \o (p \o js) = q \o js
  <2>1. Working \in Seq(Jobs) /\ p \in Seq(Jobs) /\ js \in Seq(Jobs)
    BY ONLY <1>1, <1>2
  <2> QED
    BY ONLY <2>1, JoinOnce
<1> HIDE DEF q
<1>4. r \in Seq(Jobs) /\ doneQ \o (q \o js) = r \o js
  <2>1. doneQ \in Seq(Jobs) /\ q \in Seq(Jobs) /\ js \in Seq(Jobs)
    BY ONLY <1>1, <1>3
  <2> QED
    BY ONLY <2>1, JoinOnce
<1> HIDE DEF r
<1>5. mgrQ \o (r \o js) = (mgrQ \o r) \o js
  <2>1. mgrQ \in Seq(Jobs) /\ r \in Seq(Jobs) /\ js \in Seq(Jobs)
    BY ONLY <1>1, <1>4
  <2> QED
    BY ONLY <2>1, JoinOnce
<1> QED
  BY ONLY <1>2, <1>3, <1>4, <1>5 DEF Pipeline, r, q, p

\* The manager makes the jobs for a read, all of them unless the worker's pipe is
\* full, and puts them behind the others.
LEMMA JobsAdded ==
  ASSUME TypeOK, NEW c \in Conns, NEW n \in ReadSizes, ReadBlock(c, n)
  PROVE  \E k \in Nat :
           /\ n \in Nat \ {0} /\ k <= n
           /\ mgr' # "inPut" => k = n
           /\ Len(Pipeline) \in Nat /\ Len(Pipeline') = Len(Pipeline) + k /\ NumRead' = NumRead
           /\ \A i \in 1 .. Len(Pipeline) : Pipeline'[i] = Pipeline[i] /\ Pipeline[i].conn \in Conns
           /\ \A i \in Len(Pipeline) + 1 .. Len(Pipeline) + k :
                Pipeline'[i] = [conn |-> c, row |-> file[c].row, data |-> Stale]
<1> DEFINE full == workerPipe + n > PipeCap
           k == IF full THEN PipeCap - workerPipe + 1 ELSE n
           L == Len(Pipeline)
<1>1. /\ mgr = "runs" /\ file[c].mode = "r" /\ ~hungUp[c] /\ asked[c] + n - Len(got[c]) <= Window
      /\ asked' = [asked EXCEPT ![c] = @ + n] /\ workQ' = workQ \o JobsOf(c, k)
      /\ mgr' = (IF full THEN "inPut" ELSE mgr)
      /\ UNCHANGED <<hungUp, file, got, table, fds, stored, mgrQ, doneQ, handleQ, worker>>
  BY DEF ReadBlock, PutDiskIOJob, Requests, MgrReady, connVars, fileVars, mgrVars
<1>2. n \in Nat \ {0} /\ k \in Nat /\ k <= n /\ (mgr' # "inPut" => k = n)
  <2>1. n \in Nat \ {0} /\ workerPipe \in 0 .. PipeCap /\ PipeCap \in Nat
    BY SizesAssumption DEF TypeOK
  <2> QED
    BY <1>1, <2>1
<1> HIDE DEF k, full
<1>3. file[c] # NoFile /\ file[c].row \in Rows
  BY <1>1, TableTypes DEF NoFile
<1>4. /\ JobsOf(c, k) \in Seq(Jobs) /\ Len(JobsOf(c, k)) = k
      /\ \A i \in 1 .. k : JobsOf(c, k)[i] = [conn |-> c, row |-> file[c].row, data |-> Stale]
  BY <1>2, <1>3, JobsMade
<1>5. /\ Pipeline \in Seq(Jobs) /\ L \in Nat /\ Pipeline' = Pipeline \o JobsOf(c, k)
      /\ NumRead' = NumRead
  <2>1. Working' = Working /\ NumRead' = NumRead
    BY <1>1 DEF Working, NumRead
  <2>2. /\ mgrQ \in Seq(Jobs) /\ doneQ \in Seq(Jobs) /\ Working \in Seq(Jobs)
        /\ handleQ \in Seq(Jobs) /\ workQ \in Seq(Jobs)
    BY WorkerKinds DEF TypeOK
  <2> DEFINE J == JobsOf(c, k)
  <2>3. J \in Seq(Jobs)
    BY <1>4
  <2> HIDE DEF J
  <2>4. workQ' = workQ \o J /\ UNCHANGED <<mgrQ, doneQ, handleQ>>
    BY <1>1 DEF J
  <2>5. Pipeline' = mgrQ \o (doneQ \o (Working \o (handleQ \o (workQ \o J))))
    BY <2>1, <2>4 DEF Pipeline
  <2>6. Pipeline' = Pipeline \o J
    <3>1. Pipeline \o J = mgrQ \o (doneQ \o (Working \o (handleQ \o (workQ \o J))))
      BY <2>3, JoinedAtTheEnd
    <3> QED
      BY ONLY <2>5, <3>1
  <2> QED
    BY <2>1, <2>6, PipelineShape DEF J
<1>6. /\ Len(Pipeline') = L + k
      /\ \A i \in 1 .. L : Pipeline'[i] = Pipeline[i] /\ Pipeline[i].conn \in Conns
      /\ \A i \in L + 1 .. L + k : Pipeline'[i] = [conn |-> c, row |-> file[c].row, data |-> Stale]
  <2> DEFINE J == JobsOf(c, k)
  <2>1. J \in Seq(Jobs) /\ Len(J) = k /\ Pipeline' = Pipeline \o J
        /\ \A i \in 1 .. k : J[i] = [conn |-> c, row |-> file[c].row, data |-> Stale]
    BY <1>4, <1>5
  <2> HIDE DEF J
  <2>2. /\ Len(Pipeline \o J) = L + Len(J)
        /\ \A i \in 1 .. L : (Pipeline \o J)[i] = Pipeline[i]
        /\ \A i \in 1 .. Len(J) : (Pipeline \o J)[L + i] = J[i]
    <3>1. Pipeline \in Seq(Jobs) /\ J \in Seq(Jobs)
      BY <1>5, <2>1
    <3>2. /\ Len(Pipeline \o J) = Len(Pipeline) + Len(J)
          /\ \A i \in 1 .. Len(Pipeline) : (Pipeline \o J)[i] = Pipeline[i]
          /\ \A i \in 1 .. Len(J) : (Pipeline \o J)[Len(Pipeline) + i] = J[i]
      BY ONLY <3>1, JoinedElements
    <3> QED
      BY <3>2
  <2>3. \A i \in 1 .. L : Pipeline[i].conn \in Conns
    <3>1. \A i \in 1 .. L : Pipeline[i] \in Jobs
      BY <1>5
    <3> QED
      BY <3>1 DEF Jobs
  <2>4. ASSUME NEW i \in L + 1 .. L + k PROVE Pipeline'[i] = [conn |-> c, row |-> file[c].row, data |-> Stale]
    <3>1. i - L \in 1 .. k /\ L + (i - L) = i
      BY <1>2, <1>5
    <3> QED
      BY <2>1, <2>2, <3>1
  <2> QED
    BY <2>1, <2>2, <2>3, <2>4
<1> QED
  BY <1>1, <1>2, <1>5, <1>6

\* They get the next numbers.
LEMMA NewJobsRead ==
  ASSUME TypeOK, FilesInv, ReadsInv, mishaps = {}, mishaps' = {},
         NEW c \in Conns, NEW n \in ReadSizes, ReadBlock(c, n)
  PROVE  ReadsInv'
<1> DEFINE L == Len(Pipeline)
<1>1. /\ mgr = "runs" /\ file[c].mode = "r" /\ ~hungUp[c] /\ asked[c] + n - Len(got[c]) <= Window
      /\ asked' = [asked EXCEPT ![c] = @ + n]
      /\ UNCHANGED <<hungUp, file, got, table, fds, stored, mgrQ, doneQ, handleQ, worker>>
  BY DEF ReadBlock, Requests, MgrReady, connVars, fileVars, mgrVars
<1>3. file[c] # NoFile /\ file[c].row \in Rows
  BY <1>1, TableTypes DEF NoFile
<1>5. PICK k \in Nat :
        /\ n \in Nat \ {0} /\ k <= n /\ (mgr' # "inPut" => k = n)
        /\ L \in Nat /\ Len(Pipeline') = L + k /\ NumRead' = NumRead
        /\ \A i \in 1 .. L : Pipeline'[i] = Pipeline[i] /\ Pipeline[i].conn \in Conns
        /\ \A i \in L + 1 .. L + k : Pipeline'[i] = [conn |-> c, row |-> file[c].row, data |-> Stale]
  BY JobsAdded
<1>2. n \in Nat \ {0} /\ k \in Nat /\ k <= n /\ (mgr' # "inPut" => k = n)
  BY <1>5
<1>6. /\ Len(Pipeline') = L + k
      /\ \A i \in 1 .. L : Pipeline'[i] = Pipeline[i] /\ Pipeline[i].conn \in Conns
      /\ \A i \in L + 1 .. L + k : Pipeline'[i] = [conn |-> c, row |-> file[c].row, data |-> Stale]
  BY <1>5
<1>7. PICK num, made : /\ Numbering(num, made)
                       /\ \A i \in 1 .. L : JobFits(i, num[i])
                       /\ \A d \in Conns : OffsetFits(d, made[d])
  BY DEF ReadsInv
<1>8. /\ num \in [1 .. L -> Nat] /\ made \in [Conns -> Nat]
      /\ \A d \in Conns : Len(got[d]) <= made[d] /\ made[d] = asked[d]
      /\ \A i \in 1 .. L : Len(got[Pipeline[i].conn]) < num[i] /\ num[i] <= made[Pipeline[i].conn]
      /\ \A i, j \in 1 .. L : i < j /\ Pipeline[i].conn = Pipeline[j].conn => num[i] < num[j]
      /\ \A d \in Conns : \A m \in Len(got[d]) + 1 .. made[d] :
           \E i \in 1 .. L : Pipeline[i].conn = d /\ num[i] = m
  BY <1>1, <1>7 DEF Numbering
<1>9. \A d \in Conns : asked[d] \in Nat /\ Len(got[d]) \in Nat
  BY DEF TypeOK
<1>10. PICK more : more = [i \in 1 .. L + k |-> IF i <= L THEN num[i] ELSE made[c] + (i - L)]
  OBVIOUS
<1>11. PICK left : left = [made EXCEPT ![c] = @ + k]
  OBVIOUS
<1> HIDE DEF L
<1>12. /\ more \in [1 .. L + k -> Nat] /\ \A i \in 1 .. L : more[i] = num[i]
       /\ \A i \in L + 1 .. L + k : more[i] = made[c] + (i - L) /\ more[i] > made[c] /\ more[i] <= made[c] + k
  <2>1. made[c] \in Nat /\ L \in Nat /\ k \in Nat
    BY <1>2, <1>5, <1>8
  <2>2. \A i \in 1 .. L : more[i] = num[i] /\ more[i] \in Nat
    BY <1>8, <1>10, <2>1
  <2>3. \A i \in L + 1 .. L + k : more[i] = made[c] + (i - L) /\ more[i] > made[c] /\ more[i] <= made[c] + k
                                /\ more[i] \in Nat
    BY <1>10, <2>1
  <2>4. \A i \in 1 .. L + k : more[i] \in Nat
    BY <2>1, <2>2, <2>3
  <2> QED
    BY <1>10, <2>2, <2>3, <2>4
<1>13. /\ left \in [Conns -> Nat] /\ left[c] = made[c] + k
       /\ \A d \in Conns \ {c} : left[d] = made[d]
       /\ \A d \in Conns : made[d] <= left[d]
  BY <1>2, <1>8, <1>11
<1>14. /\ asked'[c] = asked[c] + n /\ \A d \in Conns \ {c} : asked'[d] = asked[d]
  BY <1>1 DEF TypeOK
<1>15. Numbering(more, left)'
  <2>1. \A d \in Conns : /\ Len(got[d]) <= left[d] /\ left[d] <= asked'[d]
                         /\ mgr' # "inPut" => left[d] = asked'[d]
    <3> SUFFICES ASSUME NEW d \in Conns
                 PROVE  /\ Len(got[d]) <= left[d] /\ left[d] <= asked'[d]
                        /\ mgr' # "inPut" => left[d] = asked'[d]
      OBVIOUS
    <3>1. Len(got[d]) <= made[d] /\ made[d] = asked[d] /\ made[d] \in Nat /\ Len(got[d]) \in Nat
      BY <1>8, <1>9
    <3>2. CASE d = c
      BY <1>2, <1>13, <1>14, <3>1, <3>2
    <3>3. CASE d # c
      BY <1>13, <1>14, <3>1, <3>3
    <3> QED
      BY <3>2, <3>3
  <2>2. ASSUME NEW i \in 1 .. L + k
        PROVE  Len(got[Pipeline'[i].conn]) < more[i] /\ more[i] <= left[Pipeline'[i].conn]
    <3>1. CASE i \in 1 .. L
      <4>1. PICK d \in Conns : d = Pipeline[i].conn
        BY <1>6, <3>1
      <4>2. Len(got[d]) < num[i] /\ num[i] <= made[d] /\ num[i] \in Nat /\ made[d] \in Nat /\ left[d] \in Nat
            /\ made[d] <= left[d]
        BY <1>8, <1>13, <3>1, <4>1
      <4>3. more[i] = num[i] /\ Pipeline'[i].conn = d
        BY <1>6, <1>12, <3>1, <4>1
      <4> QED
        BY <4>2, <4>3
    <3>2. CASE i \in L + 1 .. L + k
      <4>1. Pipeline'[i].conn = c
        BY <1>6, <3>2
      <4>2. more[i] > made[c] /\ more[i] <= made[c] + k /\ more[i] \in Nat
        BY <1>12, <3>2
      <4>3. Len(got[c]) <= made[c] /\ Len(got[c]) \in Nat /\ made[c] \in Nat
        BY <1>8, <1>9
      <4> QED
        BY <1>13, <4>1, <4>2, <4>3
    <3>3. L \in Nat /\ k \in Nat
      BY <1>2, <1>5 DEF L
    <3> QED
      BY <3>1, <3>2, <3>3
  <2>3. ASSUME NEW i \in 1 .. L + k, NEW j \in 1 .. L + k, i < j, Pipeline'[i].conn = Pipeline'[j].conn
        PROVE  more[i] < more[j]
    <3>0. L \in Nat
      BY <1>5 DEF L
    <3>1. CASE j \in 1 .. L
      <4>1. i \in 1 .. L
        BY <2>3, <3>0, <3>1
      <4> QED
        BY <1>6, <1>8, <1>12, <2>3, <3>1, <4>1 DEF L
    <3>2. CASE j \notin 1 .. L /\ i \in 1 .. L
      <4>1. j \in L + 1 .. L + k
        BY <1>2, <3>0, <3>2
      <4>2. Pipeline[i].conn = c
        BY <1>6, <2>3, <3>2, <4>1 DEF L
      <4>3. more[i] = num[i] /\ num[i] <= made[c] /\ more[j] > made[c]
        BY <1>8, <1>12, <3>2, <4>1, <4>2
      <4>4. num[i] \in Nat /\ made[c] \in Nat /\ more[j] \in Nat
        BY <1>8, <1>12, <3>2
      <4> QED
        BY <4>3, <4>4
    <3>3. CASE i \notin 1 .. L
      <4>1. i \in L + 1 .. L + k /\ j \in L + 1 .. L + k
        BY <1>2, <2>3, <3>0, <3>3
      <4>2. more[i] = made[c] + (i - L) /\ more[j] = made[c] + (j - L) /\ made[c] \in Nat
        BY <1>8, <1>12, <4>1
      <4> QED
        BY <2>3, <3>0, <4>1, <4>2
    <3> QED
      BY <3>1, <3>2, <3>3
  <2>4. ASSUME NEW d \in Conns, NEW m \in Len(got[d]) + 1 .. left[d]
        PROVE  \E i \in 1 .. L + k : Pipeline'[i].conn = d /\ more[i] = m
    <3>0. L \in Nat /\ made[d] \in Nat /\ Len(got[d]) \in Nat /\ left[d] \in Nat
      BY <1>5, <1>8, <1>9, <1>13 DEF L
    <3>1. CASE m <= made[d]
      <4>1. m \in Len(got[d]) + 1 .. made[d]
        BY <2>4, <3>0, <3>1
      <4>2. PICK i \in 1 .. L : Pipeline[i].conn = d /\ num[i] = m
        BY <1>8, <4>1
      <4>3. i \in 1 .. L + k
        BY <1>2, <3>0
      <4> QED
        BY <1>6, <1>12, <4>2, <4>3 DEF L
    <3>2. CASE m > made[d]
      <4>1. d = c
        BY <1>13, <2>4, <3>0, <3>2
      <4>2. m \in Nat /\ made[c] \in Nat /\ m > made[c] /\ m <= made[c] + k
        BY <1>13, <3>0, <3>2, <4>1
      <4>3. PICK x \in Nat, y \in Nat : x = made[c] /\ y = L
        BY <3>0, <4>2
      <4>4. PICK i \in L + 1 .. L + k : i \in 1 .. L + k /\ made[c] + (i - L) = m
        <5>1. m \in Nat /\ m > x /\ m <= x + k
          BY <4>2, <4>3
        <5>2. PICK i \in y + 1 .. y + k : i = y + (m - x)
          BY <5>1
        <5>3. i \in 1 .. y + k /\ x + (i - y) = m
          BY <5>1, <5>2
        <5> QED
          BY <4>3, <5>3
      <4>5. more[i] = m
        BY <1>12, <4>4
      <4>6. Pipeline'[i].conn = c
        BY <1>6 DEF L
      <4> QED
        BY <4>1, <4>4, <4>5, <4>6
    <3> QED
      BY <2>4, <3>0, <3>1, <3>2
  <2>5. /\ more \in [1 .. Len(Pipeline') -> Nat] /\ left \in [Conns -> Nat]
        /\ Len(Pipeline') = L + k /\ got' = got
    BY <1>1, <1>6, <1>12, <1>13
  <2>6. \A i \in 1 .. Len(Pipeline') :
          Len(got'[Pipeline'[i].conn]) < more[i] /\ more[i] <= left[Pipeline'[i].conn]
    BY <2>2, <2>5
  <2>7. \A i, j \in 1 .. Len(Pipeline') :
          i < j /\ Pipeline'[i].conn = Pipeline'[j].conn => more[i] < more[j]
    BY <2>3, <2>5
  <2>8. \A d \in Conns : \A m \in Len(got'[d]) + 1 .. left[d] :
          \E i \in 1 .. Len(Pipeline') : Pipeline'[i].conn = d /\ more[i] = m
    BY <2>4, <2>5
  <2> QED
    BY <2>1, <2>5, <2>6, <2>7, <2>8 DEF Numbering
<1>16. \A d \in Conns : FdOf(d)' = FdOf(d) /\ Offset(d)' = Offset(d)
  BY <1>1 DEF FdOf, Offset
<1>17. ASSUME NEW i \in 1 .. L + k PROVE JobFits(i, more[i])'
  <2>0. L \in Nat /\ NumRead \in Nat /\ NumRead <= L
    <3>1. NumRead \in Nat /\ NumRead <= Len(mgrQ) + Len(doneQ) + Len(Working)
      <4>1. Len(mgrQ) \in Nat /\ Len(doneQ) \in Nat
        BY PipelineShape
      <4>2. CASE worker = Idle
        BY <4>1, <4>2, WorkerKinds DEF NumRead
      <4>3. CASE worker # Idle
        <5>1. Len(Working) = 1
          BY <4>3, WorkerKinds
        <5>2. CASE worker.pc = "done"
          BY <4>1, <4>3, <5>1, <5>2 DEF NumRead
        <5>3. CASE worker.pc # "done"
          BY <4>1, <4>3, <5>1, <5>3 DEF NumRead
        <5> QED
          BY <5>2, <5>3
      <4> QED
        BY <4>2, <4>3
    <3>2. Len(mgrQ) \in Nat /\ Len(doneQ) \in Nat /\ Len(Working) \in Nat /\ Len(handleQ) \in Nat /\ Len(workQ) \in Nat
          /\ L = Len(mgrQ) + Len(doneQ) + Len(Working) + Len(handleQ) + Len(workQ)
      BY PipelineShape DEF L
    <3>3. \A a, b, d, e, g, m \in Nat : m <= a + b + d => m <= a + b + d + e + g
      OBVIOUS
    <3> QED
      BY ONLY <3>1, <3>2, <3>3
  <2>1. CASE i \in 1 .. L
    <3>1. JobFits(i, num[i]) /\ more[i] = num[i] /\ Pipeline'[i] = Pipeline[i] /\ Pipeline[i].conn \in Conns
      BY <1>6, <1>7, <1>12, <2>1 DEF L
    <3> QED
      BY <1>1, <1>5, <1>16, <3>1 DEF JobFits
  <2>2. CASE i \in L + 1 .. L + k
    <3>1. Pipeline'[i].conn = c /\ Pipeline'[i].row = file[c].row
      BY <1>6, <2>2 DEF L
    <3>2. more[i] > made[c] /\ more[i] \in Nat /\ made[c] \in Nat
      BY <1>8, <1>12, <2>2
    <3>3. Offset(c) <= made[c] /\ Offset(c) \in Nat
      <4>1. OffsetFits(c, made[c])
        BY <1>7
      <4>2. Offset(c) \in 0 .. BlockLen
        BY <1>3, HeldFile
      <4> QED
        BY <1>1, <1>3, <4>1, <4>2, SizesAssumption DEF OffsetFits
    <3>4. ~(i <= NumRead)
      BY <2>0, <2>2
    <3>5. Offset(c)' < more[i]
      BY <1>16, <3>2, <3>3
    <3> QED
      BY <1>1, <1>3, <1>5, <3>1, <3>4, <3>5 DEF JobFits
  <2> QED
    BY <1>2, <2>0, <2>1, <2>2
<1>18. ASSUME NEW d \in Conns PROVE OffsetFits(d, left[d])'
  <2>1. OffsetFits(d, made[d]) /\ made[d] <= left[d] /\ made[d] \in Nat /\ left[d] \in Nat
    BY <1>7, <1>8, <1>13
  <2>2. file[d] # NoFile => Offset(d) \in Nat
    BY HeldFile, SizesAssumption
  <2> QED
    BY <1>1, <1>16, <2>1, <2>2 DEF OffsetFits
<1>19. ASSUME NEW d \in Conns PROVE ClientFits(d)'
  <2>1. ClientFits(d)
    BY DEF ReadsInv
  <2>2. CASE d = c
    <3>1. asked'[c] <= Len(got[c]) + Window
      BY <1>1, <1>2, <1>9, <1>14, SizesAssumption
    <3> QED
      BY <1>1, <1>3, <2>1, <2>2, <3>1 DEF ClientFits
  <2>3. CASE d # c
    BY <1>1, <1>14, <2>1, <2>3 DEF ClientFits
  <2> QED
    BY <2>2, <2>3
<1>20. WorkerFits'
  BY <1>1 DEF ReadsInv, WorkerFits, FdOf
<1>21. Len(Pipeline') = L + k
  BY <1>6 DEF L
<1>22. \E a, m : /\ Numbering(a, m)'
                 /\ \A i \in 1 .. Len(Pipeline') : JobFits(i, a[i])'
                 /\ \A d \in Conns : OffsetFits(d, m[d])'
  BY <1>15, <1>17, <1>18, <1>21
<1> QED
  BY <1>19, <1>20, <1>22 DEF ReadsInv

\* Two sequences are alike but for element w, which is x in the second.
Replaced(w, x, b, c) ==
  /\ w \in 1 .. Len(b) /\ Len(c) = Len(b) /\ c[w] = x
  /\ \A i \in 1 .. Len(b) : i # w => c[i] = b[i]

LEMMA ReplacedBehind ==
  ASSUME NEW S, NEW a, NEW b, NEW c, NEW w, NEW x, a \in Seq(S), b \in Seq(S), c \in Seq(S),
         Replaced(w, x, b, c)
  PROVE  /\ a \o b \in Seq(S) /\ a \o c \in Seq(S)
         /\ Replaced(Len(a) + w, x, a \o b, a \o c)
<1>1. /\ a \o b \in Seq(S) /\ Len(a \o b) = Len(a) + Len(b)
      /\ \A i \in 1 .. Len(a) + Len(b) : (a \o b)[i] = IF i <= Len(a) THEN a[i] ELSE b[i - Len(a)]
  BY ConcatProperties
<1>2. /\ a \o c \in Seq(S) /\ Len(a \o c) = Len(a) + Len(c)
      /\ \A i \in 1 .. Len(a) + Len(c) : (a \o c)[i] = IF i <= Len(a) THEN a[i] ELSE c[i - Len(a)]
  BY ConcatProperties
<1>3. /\ Len(a) \in Nat /\ Len(b) \in Nat /\ w \in 1 .. Len(b) /\ Len(c) = Len(b) /\ c[w] = x
      /\ \A i \in 1 .. Len(b) : i # w => c[i] = b[i]
  BY LenProperties DEF Replaced
<1>4. PICK m, n, v : m = Len(a) /\ n = Len(b) /\ v = m + w
  OBVIOUS
<1>5. m \in Nat /\ n \in Nat /\ w \in 1 .. n /\ v \in 1 .. m + n /\ v - m = w /\ ~(v <= m)
  BY <1>3, <1>4
<1>6. (a \o c)[v] = c[w]
  BY <1>2, <1>3, <1>4, <1>5
<1>7. ASSUME NEW i \in 1 .. m + n, i # v PROVE (a \o c)[i] = (a \o b)[i]
  <2>1. CASE i <= m
    BY <1>1, <1>2, <1>3, <1>4, <2>1
  <2>2. CASE ~(i <= m)
    <3>1. i - m \in 1 .. n /\ i - m # w
      BY <1>4, <1>5, <1>7, <2>2
    <3>2. c[i - m] = b[i - m]
      BY <1>3, <1>4, <3>1
    <3> QED
      BY <1>1, <1>2, <1>3, <1>4, <2>2, <3>2
  <2> QED
    BY <2>1, <2>2
<1> QED
  BY <1>1, <1>2, <1>3, <1>4, <1>5, <1>6, <1>7 DEF Replaced

\* The worker's job takes what was read; the jobs are otherwise as they were.
LEMMA JobIsRead ==
  ASSUME TypeOK, worker # Idle, worker' # Idle, worker'.job \in Jobs,
         UNCHANGED <<mgrQ, doneQ, handleQ, workQ>>
  PROVE  LET w == Len(mgrQ) + (Len(doneQ) + 1)
         IN /\ w \in 1 .. Len(Pipeline) /\ Len(Pipeline') = Len(Pipeline)
            /\ Pipeline'[w] = worker'.job
            /\ \A i \in 1 .. Len(Pipeline) : i # w => Pipeline'[i] = Pipeline[i]
<1> DEFINE z == handleQ \o workQ
           x == <<worker.job>>
           y == <<worker'.job>>
<1>1. mgrQ \in Seq(Jobs) /\ doneQ \in Seq(Jobs) /\ z \in Seq(Jobs)
  BY ConcatProperties DEF TypeOK
<1>2. x \in Seq(Jobs) /\ Len(x) = 1 /\ y \in Seq(Jobs) /\ Len(y) = 1 /\ y[1] = worker'.job
  BY WorkerKinds
<1>3. Pipeline = mgrQ \o (doneQ \o (x \o z)) /\ Pipeline' = mgrQ \o (doneQ \o (y \o z))
  <2>1. Working = x /\ Working' = y
    BY DEF Working
  <2> QED
    BY <2>1 DEF Pipeline
<1> HIDE DEF x, y, z
<1>4. PICK b, c : b = x \o z /\ c = y \o z
  OBVIOUS
<1>5. b \in Seq(Jobs) /\ c \in Seq(Jobs) /\ Replaced(1, worker'.job, b, c)
  <2>1. /\ b \in Seq(Jobs) /\ Len(b) = 1 + Len(z)
        /\ \A i \in 1 .. 1 + Len(z) : b[i] = IF i <= 1 THEN x[i] ELSE z[i - 1]
    <3>1. x \in Seq(Jobs) /\ z \in Seq(Jobs)
      BY <1>1, <1>2
    <3>2. /\ x \o z \in Seq(Jobs) /\ Len(x \o z) = Len(x) + Len(z)
          /\ \A i \in 1 .. Len(x) + Len(z) : (x \o z)[i] = IF i <= Len(x) THEN x[i] ELSE z[i - Len(x)]
      BY ONLY <3>1, ConcatProperties
    <3> QED
      BY <1>2, <1>4, <3>2
  <2>2. /\ c \in Seq(Jobs) /\ Len(c) = 1 + Len(z)
        /\ \A i \in 1 .. 1 + Len(z) : c[i] = IF i <= 1 THEN y[i] ELSE z[i - 1]
    <3>1. y \in Seq(Jobs) /\ z \in Seq(Jobs)
      BY <1>1, <1>2
    <3>2. /\ y \o z \in Seq(Jobs) /\ Len(y \o z) = Len(y) + Len(z)
          /\ \A i \in 1 .. Len(y) + Len(z) : (y \o z)[i] = IF i <= Len(y) THEN y[i] ELSE z[i - Len(y)]
      BY ONLY <3>1, ConcatProperties
    <3> QED
      BY <1>2, <1>4, <3>2
  <2>3. Len(z) \in Nat
    BY <1>1, LenProperties
  <2> QED
    BY <1>2, <2>1, <2>2, <2>3 DEF Replaced
<1>6. PICK d, e : d = doneQ \o b /\ e = doneQ \o c
  OBVIOUS
<1>7. /\ d \in Seq(Jobs) /\ e \in Seq(Jobs)
      /\ Replaced(Len(doneQ) + 1, worker'.job, d, e)
  <2>1. doneQ \in Seq(Jobs)
    BY <1>1
  <2>2. /\ doneQ \o b \in Seq(Jobs) /\ doneQ \o c \in Seq(Jobs)
        /\ Replaced(Len(doneQ) + 1, worker'.job, doneQ \o b, doneQ \o c)
    BY ONLY <1>5, <2>1, ReplacedBehind
  <2> QED
    BY <1>5, <1>6, <2>2
<1>8. PICK v : v = Len(doneQ) + 1
  OBVIOUS
<1>9. Replaced(Len(mgrQ) + v, worker'.job, mgrQ \o d, mgrQ \o e)
  <2>1. mgrQ \in Seq(Jobs) /\ d \in Seq(Jobs) /\ e \in Seq(Jobs) /\ Replaced(v, worker'.job, d, e)
    BY <1>1, <1>7, <1>8
  <2> QED
    BY ONLY <2>1, ReplacedBehind
<1>10. Pipeline = mgrQ \o d /\ Pipeline' = mgrQ \o e
  BY <1>3, <1>4, <1>6
<1> QED
  BY <1>7, <1>8, <1>9, <1>10 DEF Replaced

\* A read from the descriptor makes the job at hand one of those that have been
\* read: the piece at the descriptor's offset is the one the job is for.
LEMMA FileReadRead ==
  ASSUME TypeOK, FilesInv, ReadsInv, mishaps = {}, mishaps' = {}, ReadFile
  PROVE  ReadsInv'
<1>0. PICK c, f, L, w, o : /\ c = worker.job.conn /\ f = worker.fd /\ o = Offset(c)
                           /\ L = Len(Pipeline) /\ w = Len(mgrQ) + (Len(doneQ) + 1)
  OBVIOUS
<1>1. /\ worker.pc = "read" /\ worker # Idle /\ worker.job \in Jobs /\ c \in Conns /\ Idle.pc = "idle"
      /\ UNCHANGED <<got, asked, file, table, hungUp, stored, mgr, mgrQ, doneQ, handleQ, workQ>>
  BY <1>0, WorkerKinds DEF ReadFile, connVars, useVars, pipeVars, mgrVars, Idle
<1>2. file[c] # NoFile /\ f = FdOf(c) /\ f \in Fds /\ fds[f] # Closed /\ fds[f].block = file[c].block
      /\ fds[f].off = o /\ o \in 0 .. BlockLen /\ o \in Nat /\ file[c].block \in Blocks
  BY <1>0, <1>1, WorkerKinds, JobAtHand, HeldFile, TableTypes, SizesAssumption DEF ReadsInv, WorkerFits, Offset
<1>3. CASE UNCHANGED fds /\ worker' = [pc |-> "look", job |-> worker.job]
  <2>1. worker'.pc = "look" /\ worker'.job = worker.job /\ worker' # Idle
    BY <1>1, <1>3
  <2>2. Working' = Working
    BY <1>1, <2>1 DEF Working
  <2>3. Pipeline' = Pipeline /\ NumRead' = NumRead
    BY <1>1, <2>1, <2>2 DEF Pipeline, NumRead
  <2> QED
    BY <1>1, <1>3, <2>1, <2>3, NobodysFile
<1>4. CASE /\ worker' = [pc |-> "done", job |-> [worker.job EXCEPT !.data = ReadAt(f)]]
           /\ fds' = [fds EXCEPT ![f].off = @ + 1]
  <2>1. /\ worker'.pc = "done" /\ worker' # Idle /\ worker'.job = [worker.job EXCEPT !.data = ReadAt(f)]
    BY <1>1, <1>4
  <2>2. ReadAt(f) = <<file[c].block, o + 1>>
    BY <1>2 DEF ReadAt
  <2>3. o + 1 \in 1 .. BlockLen => worker'.job \in Jobs
    BY <1>1, <1>2, <2>1, <2>2 DEF Jobs, Pieces
  <2>4. worker'.job.conn = c /\ worker'.job.row = worker.job.row /\ worker'.job.data = <<file[c].block, o + 1>>
    BY <1>0, <1>1, <2>1, <2>2 DEF Jobs
  <2>5. fds'[f].off = o + 1 /\ \A g \in Fds \ {f} : fds'[g] = fds[g]
    <3>1. fds[f] \in FdRec
      BY <1>2, TableTypes
    <3>2. fds'[f] = [fds[f] EXCEPT !.off = @ + 1] /\ \A g \in Fds \ {f} : fds'[g] = fds[g]
      BY <1>2, <1>4, TableTypes
    <3> QED
      BY <1>2, <3>1, <3>2 DEF FdRec
  <2>6. PICK num, made : /\ Numbering(num, made)
                         /\ \A i \in 1 .. L : JobFits(i, num[i])
                         /\ \A d \in Conns : OffsetFits(d, made[d])
    BY <1>0 DEF ReadsInv
  <2>7. w \in 1 .. L /\ L \in Nat /\ Pipeline[w] = worker.job /\ Pipeline[w].conn = c
        /\ NumRead = w - 1 /\ NumRead' = w
    <3>1. Len(mgrQ) \in Nat /\ Len(doneQ) \in Nat /\ L \in Nat
      BY <1>0, PipelineShape
    <3> QED
      BY <1>0, <1>1, <2>1, <3>1, JobAtHand DEF NumRead
  <2>8. /\ num \in [1 .. L -> Nat] /\ made \in [Conns -> Nat]
        /\ \A d \in Conns : /\ Len(got[d]) <= made[d] /\ made[d] <= asked[d]
                            /\ mgr # "inPut" => made[d] = asked[d]
        /\ \A i \in 1 .. L : Len(got[Pipeline[i].conn]) < num[i] /\ num[i] <= made[Pipeline[i].conn]
        /\ \A i, j \in 1 .. L : i < j /\ Pipeline[i].conn = Pipeline[j].conn => num[i] < num[j]
        /\ \A d \in Conns : \A m \in Len(got[d]) + 1 .. made[d] :
             \E i \in 1 .. L : Pipeline[i].conn = d /\ num[i] = m
    BY <1>0, <2>6 DEF Numbering
  <2>9. /\ num[w] > o /\ num[w] <= made[c] /\ Len(got[c]) <= o /\ o <= made[c]
        /\ num[w] \in Nat /\ made[c] \in Nat /\ Len(got[c]) \in Nat
        /\ file[c].mode = "r" /\ asked[c] \in 0 .. BlockLen /\ made[c] <= asked[c]
    <3>1. JobFits(w, num[w]) /\ OffsetFits(c, made[c])
      BY <1>1, <2>6, <2>7
    <3>2. ~(w <= NumRead) /\ w > NumRead
      BY <2>7
    <3>3. num[w] > o /\ file[c].mode = "r"
      BY <1>0, <2>7, <3>1, <3>2 DEF JobFits
    <3>4. Len(got[c]) <= o /\ o <= made[c]
      BY <1>0, <1>2, <3>1, <3>3 DEF OffsetFits
    <3>5. num[w] <= made[c] /\ made[c] <= asked[c] /\ num[w] \in Nat /\ made[c] \in Nat
      BY <1>1, <2>7, <2>8
    <3>6. Len(got[c]) \in Nat /\ asked[c] \in 0 .. BlockLen
      BY <1>1 DEF TypeOK
    <3> QED
      BY <3>3, <3>4, <3>5, <3>6
  <2>10. num[w] = o + 1
    <3>1. o + 1 \in Len(got[c]) + 1 .. made[c]
      <4>1. \A x, y, m, n \in Nat : x > o /\ x <= m /\ n <= o => o + 1 \in n + 1 .. m
        BY <1>2
      <4> QED
        BY ONLY <2>9, <4>1
    <3>2. PICK i \in 1 .. L : Pipeline[i].conn = c /\ num[i] = o + 1
      BY <1>1, <2>8, <3>1
    <3>3. ~(i <= NumRead)
      <4>1. JobFits(i, num[i])
        BY <2>6
      <4>2. SUFFICES ASSUME i <= NumRead PROVE FALSE
        OBVIOUS
      <4>3. num[i] <= o
        BY <1>0, <3>2, <4>1, <4>2 DEF JobFits
      <4> QED
        BY <1>2, <3>2, <4>3
    <3>4. ~(w < i)
      <4>1. w < i => num[w] < num[i]
        BY <2>7, <2>8, <3>2
      <4> QED
        BY <1>2, <2>9, <3>2, <4>1
    <3>5. i = w
      BY <2>7, <3>3, <3>4
    <3> QED
      BY <3>2, <3>5
  <2>11. worker'.job \in Jobs /\ o + 1 <= made[c]
    <3>1. o + 1 <= made[c]
      BY <2>9, <2>10
    <3>2. \A m \in Nat : o + 1 <= m /\ m <= asked[c] => o + 1 \in 1 .. BlockLen
      BY <1>2, <2>9, SizesAssumption
    <3>3. o + 1 \in 1 .. BlockLen
      BY ONLY <2>9, <3>1, <3>2
    <3> QED
      BY <2>3, <3>1, <3>3
  <2>12. /\ Len(Pipeline') = L /\ Pipeline'[w] = worker'.job
         /\ \A i \in 1 .. L : i # w => Pipeline'[i] = Pipeline[i]
    BY <1>0, <1>1, <2>1, <2>11, JobIsRead
  <2>13. \A i \in 1 .. L : Pipeline'[i].conn = Pipeline[i].conn /\ Pipeline[i].conn \in Conns
    <3>1. \A i \in 1 .. L : Pipeline[i].conn \in Conns
      <4>1. \A i \in 1 .. L : Pipeline[i] \in Jobs
        BY <1>0, <2>7, PipelineShape
      <4> QED
        BY <4>1 DEF Jobs
    <3> QED
      BY <2>4, <2>7, <2>12, <3>1
  <2>14. Numbering(num, made)'
    <3>1. /\ num \in [1 .. Len(Pipeline') -> Nat] /\ Len(Pipeline') = L
          /\ UNCHANGED <<got, asked, mgr>>
      BY <1>1, <2>8, <2>12
    <3>2. \A i \in 1 .. L : Len(got[Pipeline'[i].conn]) < num[i] /\ num[i] <= made[Pipeline'[i].conn]
      BY <2>8, <2>13
    <3>3. \A i, j \in 1 .. L : i < j /\ Pipeline'[i].conn = Pipeline'[j].conn => num[i] < num[j]
      BY <2>8, <2>13
    <3>4. \A d \in Conns : \A m \in Len(got[d]) + 1 .. made[d] :
            \E i \in 1 .. L : Pipeline'[i].conn = d /\ num[i] = m
      <4> SUFFICES ASSUME NEW d \in Conns, NEW m \in Len(got[d]) + 1 .. made[d]
                   PROVE  \E i \in 1 .. L : Pipeline'[i].conn = d /\ num[i] = m
        OBVIOUS
      <4>1. PICK i \in 1 .. L : Pipeline[i].conn = d /\ num[i] = m
        BY <2>8
      <4> QED
        BY <2>13, <4>1
    <3> QED
      BY <2>8, <3>1, <3>2, <3>3, <3>4 DEF Numbering
  <2>15. /\ Offset(c)' = o + 1
         /\ \A d \in Conns \ {c} : file[d] # NoFile => Offset(d)' = Offset(d)
    <3>1. \A d \in Conns \ {c} : file[d] # NoFile => FdOf(d) \in Fds \ {f}
      BY <1>1, <1>2, HeldFile
    <3>2. Offset(c)' = fds'[f].off
      <4>1. FdOf(c)' = FdOf(c)
        BY <1>1 DEF FdOf
      <4> QED
        BY <1>2, <4>1 DEF Offset
    <3>3. \A d \in Conns \ {c} : file[d] # NoFile => Offset(d)' = Offset(d)
      BY <1>1, <2>5, <3>1 DEF Offset, FdOf
    <3> QED
      BY <2>5, <3>2, <3>3
  <2>16. ASSUME NEW i \in 1 .. L PROVE JobFits(i, num[i])'
    <3> PICK d \in Conns : d = Pipeline[i].conn
      BY <1>0, <2>13
    <3>1. JobFits(i, num[i]) /\ num[i] \in Nat
      BY <2>6, <2>8
    <3>2. file[d] # NoFile /\ file[d].mode = "r" /\ Pipeline[i].row = file[d].row
      BY <3>1 DEF JobFits
    <3>3. CASE i = w
      <4>1. i <= NumRead' /\ ~(i > NumRead')
        BY <2>7, <3>3
      <4>2. Pipeline'[i] = worker'.job /\ d = c
        BY <2>7, <2>12, <3>3
      <4>3. num[i] <= Offset(c)'
        BY <1>2, <2>10, <2>15, <3>3
      <4>4. Pipeline'[i].row = file[c].row
        BY <2>4, <2>7, <3>2, <3>3, <4>2
      <4> QED
        BY <1>1, <2>4, <2>10, <3>2, <3>3, <4>1, <4>2, <4>3, <4>4 DEF JobFits
    <3>4. CASE i # w /\ d # c
      <4>1. Offset(d)' = Offset(d) /\ Pipeline'[i] = Pipeline[i]
        BY <2>12, <2>15, <3>2, <3>4
      <4>2. (i <= NumRead' <=> i <= NumRead) /\ (i > NumRead' <=> i > NumRead)
        BY <2>7, <3>4
      <4> QED
        BY <1>1, <3>1, <4>1, <4>2 DEF JobFits
    <3>5. CASE i # w /\ d = c
      <4>1. Pipeline'[i] = Pipeline[i]
        BY <2>12, <3>5
      <4>2. (i <= NumRead' <=> i <= NumRead) /\ (i > NumRead' <=> i > NumRead)
        BY <2>7, <3>5
      <4>3. i <= NumRead => num[i] <= o /\ Pipeline[i].data = <<file[c].block, num[i]>>
        BY <1>0, <3>1, <3>5 DEF JobFits
      <4>4. i <= NumRead => num[i] <= Offset(c)'
        BY <1>2, <2>15, <3>1, <4>3
      <4>5. i > NumRead => num[i] > Offset(c)'
        <5>1. SUFFICES ASSUME i > NumRead PROVE num[i] > Offset(c)'
          OBVIOUS
        <5>2. w < i
          BY <2>7, <3>5, <5>1
        <5>3. num[w] < num[i]
          BY <2>7, <2>8, <3>5, <5>2
        <5> QED
          BY <2>10, <2>15, <5>3
      <4> QED
        <5>1. Pipeline'[i].conn = c /\ Pipeline'[i].row = file[c].row /\ Pipeline'[i].data = Pipeline[i].data
          BY <3>2, <3>5, <4>1
        <5>2. file'[c] # NoFile /\ file'[c].mode = "r" /\ file' = file
          BY <1>1, <3>2, <3>5
        <5> QED
          BY <4>2, <4>3, <4>4, <4>5, <5>1, <5>2 DEF JobFits
    <3> QED
      BY <3>3, <3>4, <3>5
  <2>17. ASSUME NEW d \in Conns PROVE OffsetFits(d, made[d])'
    <3>1. OffsetFits(d, made[d])
      BY <2>6
    <3>2. CASE d = c
      <4>1. Len(got'[c]) <= Offset(c)' /\ Offset(c)' <= made[c]
        <5>1. \A n \in Nat : n <= o => n <= o + 1
          BY <1>2
        <5> QED
          BY <1>1, <2>9, <2>11, <2>15, <5>1
      <4> QED
        BY <3>2, <4>1 DEF OffsetFits
    <3>3. CASE d # c
      BY <1>1, <2>15, <3>1, <3>3 DEF OffsetFits
    <3> QED
      BY <3>2, <3>3
  <2>18. \A d \in Conns : ClientFits(d)'
    BY <1>1 DEF ReadsInv, ClientFits
  <2>19. WorkerFits'
    BY <2>1 DEF WorkerFits
  <2>20. \E a, m : /\ Numbering(a, m)'
                   /\ \A i \in 1 .. Len(Pipeline') : JobFits(i, a[i])'
                   /\ \A d \in Conns : OffsetFits(d, m[d])'
    BY <1>0, <2>12, <2>14, <2>16, <2>17
  <2> QED
    BY <2>18, <2>19, <2>20 DEF ReadsInv
<1> QED
  BY <1>0, <1>3, <1>4 DEF ReadFile

LEMMA FirstAnswered ==
  ASSUME TypeOK, mgrQ # <<>>, mgrQ' = Tail(mgrQ), UNCHANGED <<doneQ, worker, handleQ, workQ>>
  PROVE  /\ Len(Pipeline) \in Nat /\ Len(Pipeline) >= 1 /\ Len(Pipeline') = Len(Pipeline) - 1
         /\ Pipeline[1] = Head(mgrQ) /\ Head(mgrQ) \in Jobs
         /\ \A i \in 1 .. Len(Pipeline) - 1 : Pipeline'[i] = Pipeline[i + 1]
         /\ NumRead \in Nat /\ NumRead >= 1 /\ NumRead' = NumRead - 1
<1>1. PICK z : z = doneQ \o (Working \o (handleQ \o workQ))
  OBVIOUS
<1>2. z \in Seq(Jobs) /\ mgrQ \in Seq(Jobs)
  BY <1>1, WorkerKinds, ConcatProperties DEF TypeOK
<1>3. Pipeline = mgrQ \o z /\ Pipeline' = Tail(mgrQ) \o z
  <2>1. Working' = Working
    BY DEF Working
  <2> QED
    BY <1>1, <2>1 DEF Pipeline
<1>4. PICK t : t = Tail(mgrQ)
  OBVIOUS
<1>5. /\ Head(mgrQ) \in Jobs /\ Head(mgrQ) = mgrQ[1] /\ t \in Seq(Jobs) /\ Len(t) = Len(mgrQ) - 1
      /\ Len(mgrQ) \in Nat /\ Len(mgrQ) >= 1 /\ Len(z) \in Nat
      /\ \A i \in 1 .. Len(t) : t[i] = mgrQ[i + 1]
  BY <1>2, <1>4, HeadTailProperties, LenProperties, EmptySeq
<1>6. /\ Len(Pipeline) = Len(mgrQ) + Len(z)
      /\ \A i \in 1 .. Len(mgrQ) + Len(z) : Pipeline[i] = IF i <= Len(mgrQ) THEN mgrQ[i] ELSE z[i - Len(mgrQ)]
  BY <1>2, <1>3, ConcatProperties
<1>7. /\ Len(Pipeline') = Len(t) + Len(z)
      /\ \A i \in 1 .. Len(t) + Len(z) : Pipeline'[i] = IF i <= Len(t) THEN t[i] ELSE z[i - Len(t)]
  <2>1. t \in Seq(Jobs) /\ z \in Seq(Jobs)
    BY <1>2, <1>5
  <2>2. /\ Len(t \o z) = Len(t) + Len(z)
        /\ \A i \in 1 .. Len(t) + Len(z) : (t \o z)[i] = IF i <= Len(t) THEN t[i] ELSE z[i - Len(t)]
    BY ONLY <2>1, ConcatProperties
  <2> QED
    BY <1>3, <1>4, <2>2
<1>8. ASSUME NEW i \in 1 .. Len(Pipeline) - 1 PROVE Pipeline'[i] = Pipeline[i + 1]
  <2>1. i \in 1 .. Len(t) + Len(z) /\ i + 1 \in 1 .. Len(mgrQ) + Len(z)
    BY <1>5, <1>6
  <2>2. CASE i <= Len(t)
    <3>1. i \in 1 .. Len(t) /\ i + 1 <= Len(mgrQ)
      BY <1>5, <2>1, <2>2
    <3>2. Pipeline'[i] = t[i] /\ Pipeline[i + 1] = mgrQ[i + 1]
      BY <1>6, <1>7, <2>1, <2>2, <3>1
    <3> QED
      BY <1>5, <3>1, <3>2
  <2>3. CASE ~(i <= Len(t))
    <3>1. ~(i + 1 <= Len(mgrQ)) /\ i + 1 - Len(mgrQ) = i - Len(t)
      BY <1>5, <2>1, <2>3
    <3>2. Pipeline'[i] = z[i - Len(t)] /\ Pipeline[i + 1] = z[i + 1 - Len(mgrQ)]
      BY <1>6, <1>7, <2>1, <2>3, <3>1
    <3> QED
      BY <3>1, <3>2
  <2> QED
    BY <2>2, <2>3
<1>9. NumRead \in Nat /\ NumRead >= 1 /\ NumRead' = NumRead - 1
  <2>1. Len(doneQ) \in Nat /\ Len(mgrQ') = Len(mgrQ) - 1
    BY <1>4, <1>5, PipelineShape
  <2>2. CASE worker # Idle /\ worker.pc = "done"
    BY <1>5, <2>1, <2>2 DEF NumRead
  <2>3. CASE ~(worker # Idle /\ worker.pc = "done")
    BY <1>5, <2>1, <2>3 DEF NumRead
  <2> QED
    BY <2>2, <2>3
<1> QED
  BY <1>5, <1>6, <1>7, <1>8, <1>9

\* The first job is answered: it bears the number of the piece its client
\* receives next.
LEMMA AnswerRead ==
  ASSUME TypeOK, FilesInv, ReadsInv, mishaps = {}, mishaps' = {}, AnswerClient
  PROVE  ReadsInv'
<1>1. /\ mgrQ # <<>> /\ mgrQ' = Tail(mgrQ)
      /\ UNCHANGED <<asked, file, table, fds, hungUp, stored, mgr, doneQ, worker, handleQ, workQ>>
  BY DEF AnswerClient, connVars, fileVars, pipeVars, workVars
<1>2. PICK L : L = Len(Pipeline)
  OBVIOUS
<1>3. /\ L \in Nat /\ L >= 1 /\ 1 \in 1 .. L /\ Len(Pipeline') = L - 1
      /\ Pipeline[1] = Head(mgrQ) /\ Head(mgrQ) \in Jobs
      /\ \A i \in 1 .. L - 1 : Pipeline'[i] = Pipeline[i + 1]
      /\ NumRead \in Nat /\ NumRead >= 1 /\ NumRead' = NumRead - 1
  BY <1>1, <1>2, FirstAnswered
<1>4. PICK c : c = Head(mgrQ).conn
  OBVIOUS
<1>5. c \in Conns /\ Pipeline[1].conn = c
  BY <1>3, <1>4 DEF Jobs
<1>6. PICK num, made : /\ Numbering(num, made)
                       /\ \A i \in 1 .. L : JobFits(i, num[i])
                       /\ \A d \in Conns : OffsetFits(d, made[d])
  BY <1>2 DEF ReadsInv
<1>7. /\ num \in [1 .. L -> Nat] /\ made \in [Conns -> Nat]
      /\ \A d \in Conns : /\ Len(got[d]) <= made[d] /\ made[d] <= asked[d]
                          /\ mgr # "inPut" => made[d] = asked[d]
      /\ \A i \in 1 .. L : Len(got[Pipeline[i].conn]) < num[i] /\ num[i] <= made[Pipeline[i].conn]
      /\ \A i, j \in 1 .. L : i < j /\ Pipeline[i].conn = Pipeline[j].conn => num[i] < num[j]
      /\ \A d \in Conns : \A m \in Len(got[d]) + 1 .. made[d] :
           \E i \in 1 .. L : Pipeline[i].conn = d /\ num[i] = m
  BY <1>2, <1>6 DEF Numbering
<1>8. PICK g : g = Len(got[c])
  OBVIOUS
<1>9. /\ g \in Nat /\ got \in [Conns -> Seq(Pieces)] /\ got[c] \in Seq(Pieces)
      /\ \A d \in Conns : Len(got[d]) \in Nat /\ asked[d] \in Nat
  <2>1. got \in [Conns -> Seq(Pieces)] /\ asked \in [Conns -> Nat]
    BY SizesAssumption DEF TypeOK
  <2> QED
    BY <1>5, <1>8, <2>1, LenProperties
<1>10. num[1] = g + 1 /\ g + 1 <= made[c]
  <2>1. g < num[1] /\ num[1] <= made[c] /\ num[1] \in Nat /\ made[c] \in Nat
    BY <1>3, <1>5, <1>7, <1>8
  <2>2. g + 1 \in Len(got[c]) + 1 .. made[c]
    BY <1>8, <1>9, <2>1
  <2>3. PICK i \in 1 .. L : Pipeline[i].conn = c /\ num[i] = g + 1
    BY <1>5, <1>7, <2>2
  <2>4. ~(1 < i)
    <3>1. 1 < i => num[1] < num[i]
      BY <1>3, <1>5, <1>7, <2>3
    <3> QED
      BY <1>9, <2>1, <2>3, <3>1
  <2>5. i = 1
    BY <1>3, <2>4
  <2> QED
    BY <1>9, <2>1, <2>3, <2>5
<1>11. /\ file[c] # NoFile /\ file[c].mode = "r" /\ Head(mgrQ).data = <<file[c].block, g + 1>>
       /\ g + 1 <= Offset(c) /\ Alive(c)
  <2>1. JobFits(1, num[1]) /\ 1 <= NumRead
    BY <1>3, <1>6
  <2>2. /\ file[c] # NoFile /\ file[c].mode = "r" /\ Head(mgrQ).data = <<file[c].block, g + 1>>
        /\ g + 1 <= Offset(c)
    BY <1>3, <1>5, <1>10, <2>1 DEF JobFits
  <2> QED
    BY <1>5, <2>2, HeldFile
<1>12. PICK piece : piece = <<file[c].block, g + 1>>
  OBVIOUS
<1>13. got' = [got EXCEPT ![c] = Append(@, piece)] /\ piece \in Pieces
  <2>1. got' = [got EXCEPT ![c] = Append(@, piece)]
    BY <1>4, <1>11, <1>12 DEF AnswerClient
  <2>2. piece \in Pieces
    BY <1>3, <1>11, <1>12 DEF Jobs
  <2> QED
    BY <2>1, <2>2
<1>14. /\ got'[c] = Append(got[c], piece) /\ Len(got'[c]) = g + 1
       /\ \A i \in 1 .. g : got'[c][i] = got[c][i]
       /\ got'[c][g + 1] = piece
       /\ \A d \in Conns \ {c} : got'[d] = got[d]
  <2>1. got'[c] = Append(got[c], piece) /\ \A d \in Conns \ {c} : got'[d] = got[d]
    BY <1>5, <1>9, <1>13
  <2> QED
    BY <1>8, <1>9, <1>13, <2>1, AppendProperties
<1>15. PICK less : less = [i \in 1 .. L - 1 |-> num[i + 1]]
  OBVIOUS
<1>16. less \in [1 .. L - 1 -> Nat] /\ \A i \in 1 .. L - 1 : less[i] = num[i + 1] /\ i + 1 \in 1 .. L
  BY <1>3, <1>7, <1>15
<1>17. \A i \in 1 .. L - 1 : Pipeline[i + 1].conn = c => g + 1 < num[i + 1]
  <2> SUFFICES ASSUME NEW i \in 1 .. L - 1, Pipeline[i + 1].conn = c PROVE g + 1 < num[i + 1]
    OBVIOUS
  <2>1. i + 1 \in 1 .. L /\ 1 < i + 1
    BY <1>3
  <2> QED
    BY <1>3, <1>5, <1>7, <1>10, <2>1
<1>18. Numbering(less, made)'
  <2>1. \A d \in Conns : /\ Len(got'[d]) <= made[d] /\ made[d] <= asked'[d]
                         /\ mgr' # "inPut" => made[d] = asked'[d]
    BY <1>1, <1>7, <1>10, <1>14
  <2>2. ASSUME NEW i \in 1 .. L - 1
        PROVE  Len(got'[Pipeline'[i].conn]) < less[i] /\ less[i] <= made[Pipeline'[i].conn]
    <3>1. Pipeline'[i] = Pipeline[i + 1] /\ i + 1 \in 1 .. L /\ less[i] = num[i + 1]
      BY <1>3, <1>16
    <3>2. Len(got[Pipeline[i + 1].conn]) < num[i + 1] /\ num[i + 1] <= made[Pipeline[i + 1].conn]
      BY <1>7, <3>1
    <3>3. Pipeline[i + 1].conn \in Conns
      <4>1. Pipeline[i + 1] \in Jobs
        BY <1>2, <3>1, PipelineShape
      <4> QED
        BY <4>1 DEF Jobs
    <3> QED
      BY <1>14, <1>17, <3>1, <3>2, <3>3
  <2>3. ASSUME NEW i \in 1 .. L - 1, NEW j \in 1 .. L - 1, i < j, Pipeline'[i].conn = Pipeline'[j].conn
        PROVE  less[i] < less[j]
    <3>1. i + 1 \in 1 .. L /\ j + 1 \in 1 .. L /\ i + 1 < j + 1
      BY <1>3, <2>3
    <3>2. Pipeline[i + 1].conn = Pipeline[j + 1].conn
      BY <1>3, <2>3
    <3> QED
      BY <1>7, <1>16, <3>1, <3>2
  <2>4. ASSUME NEW d \in Conns, NEW m \in Len(got'[d]) + 1 .. made[d]
        PROVE  \E i \in 1 .. L - 1 : Pipeline'[i].conn = d /\ less[i] = m
    <3>1. m \in Len(got[d]) + 1 .. made[d] /\ (d = c => m > g + 1)
      <4>1. Len(got[d]) \in Nat /\ made[d] \in Nat
        BY <1>7, <1>9
      <4>2. CASE d = c
        BY <1>8, <1>9, <1>14, <2>4, <4>1, <4>2
      <4>3. CASE d # c
        BY <1>14, <2>4, <4>3
      <4> QED
        BY <4>2, <4>3
    <3>2. PICK i \in 1 .. L : Pipeline[i].conn = d /\ num[i] = m
      BY <1>7, <3>1
    <3>3. i # 1
      BY <1>5, <1>9, <1>10, <3>1, <3>2
    <3>4. PICK j \in 1 .. L - 1 : j + 1 = i
      <4>1. i - 1 \in 1 .. L - 1 /\ i - 1 + 1 = i
        BY <1>3, <3>3
      <4> QED
        BY <4>1
    <3> QED
      BY <1>3, <1>16, <3>2, <3>4
  <2> QED
    <3>1. Len(Pipeline') = L - 1 /\ less \in [1 .. L - 1 -> Nat] /\ made \in [Conns -> Nat]
      BY <1>3, <1>7, <1>16
    <3>2. \A i \in 1 .. L - 1 :
            Len(got'[Pipeline'[i].conn]) < less[i] /\ less[i] <= made[Pipeline'[i].conn]
      BY <2>2
    <3>3. \A i, j \in 1 .. L - 1 : i < j /\ Pipeline'[i].conn = Pipeline'[j].conn => less[i] < less[j]
      BY <2>3
    <3>4. \A d \in Conns : \A m \in Len(got'[d]) + 1 .. made[d] :
            \E i \in 1 .. L - 1 : Pipeline'[i].conn = d /\ less[i] = m
      BY <2>4
    <3> QED
      BY ONLY <2>1, <3>1, <3>2, <3>3, <3>4 DEF Numbering
<1>19. \A d \in Conns : FdOf(d)' = FdOf(d) /\ Offset(d)' = Offset(d)
  BY <1>1 DEF FdOf, Offset
<1>20. ASSUME NEW i \in 1 .. L - 1 PROVE JobFits(i, less[i])'
  <2>1. JobFits(i + 1, num[i + 1]) /\ less[i] = num[i + 1] /\ Pipeline'[i] = Pipeline[i + 1]
    BY <1>3, <1>6, <1>16
  <2>2. (i <= NumRead' <=> i + 1 <= NumRead) /\ (i > NumRead' <=> i + 1 > NumRead)
    BY <1>3
  <2>3. PICK d : d = Pipeline[i + 1].conn
    OBVIOUS
  <2>4. d \in Conns
    <3>1. Pipeline[i + 1] \in Jobs
      BY <1>2, <1>16, PipelineShape
    <3> QED
      BY <2>3, <3>1 DEF Jobs
  <2> QED
    BY <1>1, <1>19, <2>1, <2>2, <2>3, <2>4 DEF JobFits
<1>21. ASSUME NEW d \in Conns PROVE OffsetFits(d, made[d])'
  <2>1. OffsetFits(d, made[d])
    BY <1>6
  <2>2. CASE d = c
    BY <1>1, <1>11, <1>14, <1>19, <2>1, <2>2 DEF OffsetFits
  <2>3. CASE d # c
    BY <1>1, <1>14, <1>19, <2>1, <2>3 DEF OffsetFits
  <2> QED
    BY <2>2, <2>3
<1>22. ASSUME NEW d \in Conns PROVE ClientFits(d)'
  <2>1. ClientFits(d)
    BY DEF ReadsInv
  <2>2. CASE d = c
    <3>0. asked[c] \in Nat /\ made[c] \in Nat /\ made[c] <= asked[c] /\ Window \in Nat
      BY <1>5, <1>7, <1>9, SizesAssumption
    <3>1. asked[c] # g
      BY <1>9, <1>10, <3>0
    <3>2. ~hungUp[c] /\ asked[c] <= g + Window /\ stored[file[c].block] = BlockLen
          /\ \A i \in 1 .. g : got[c][i] = <<file[c].block, i>>
      BY <1>8, <1>11, <2>1, <2>2, <3>1 DEF ClientFits
    <3>3. asked[c] <= (g + 1) + Window
      BY <1>9, <3>0, <3>2
    <3>4. \A i \in 1 .. g + 1 : got'[c][i] = <<file[c].block, i>>
      <4>1. \A i \in 1 .. g + 1 : i \in 1 .. g \/ i = g + 1
        BY <1>9
      <4> QED
        BY <1>12, <1>14, <3>2, <4>1
    <3> QED
      BY <1>1, <1>11, <1>14, <2>2, <3>2, <3>3, <3>4 DEF ClientFits
  <2>3. CASE d # c
    BY <1>1, <1>14, <2>1, <2>3 DEF ClientFits
  <2> QED
    BY <2>2, <2>3
<1>23. WorkerFits'
  BY <1>1 DEF ReadsInv, WorkerFits, FdOf
<1>24. \E a, m : /\ Numbering(a, m)'
                 /\ \A i \in 1 .. Len(Pipeline') : JobFits(i, a[i])'
                /\ \A d \in Conns : OffsetFits(d, m[d])'
  BY <1>3, <1>18, <1>20, <1>21
<1>25. \A d \in Conns : ClientFits(d)'
  BY <1>22
<1> QED
  BY <1>23, <1>24, <1>25 DEF ReadsInv

LEMMA ReadsKept ==
  ASSUME FdsSuffice, OwnersInv, ReadsInv, Next
  PROVE  ReadsInv'
<1>1. TypeOK /\ FilesInv
  BY DEF OwnersInv
<1>2. CASE mishaps' # {}
  BY <1>2 DEF ReadsInv
<1>3. CASE mishaps' = {}
  <2>1. mishaps = {}
    BY <1>3 DEF Next, Client, Worker, Accept, HangUp, CloseBlock, CreateBlock, OpenBlock, ReadBlock,
      WritePiece, RemoveClient, PipeEvent, AnswerClient, TakeJobs, StartJob, LookUpRow, ReadFile,
      SubmitReadDoneJob, DeleteCloses, DeleteRemoves, Note
  <2>2. ASSUME NEW c \in Conns, Client(c) PROVE ReadsInv'
    <3>1. CASE Accept(c) \/ HangUp(c) \/ RemoveClient(c)
      BY <1>1, <1>3, <2>1, <3>1, ConnectionsRead
    <3>2. CASE CloseBlock(c) \/ \E b \in Blocks : CreateBlock(c, b) \/ OpenBlock(c, b)
      BY <1>1, <1>3, <2>1, <3>2, OpenAndCloseRead
    <3>3. ASSUME NEW n \in ReadSizes, ReadBlock(c, n) PROVE ReadsInv'
      BY <1>1, <1>3, <2>1, <3>3, NewJobsRead
    <3>4. CASE WritePiece(c)
      BY <1>1, <1>3, <2>1, <3>4, QueuesRead
    <3> QED
      BY <2>2, <3>1, <3>2, <3>3, <3>4 DEF Client
  <2>3. CASE PipeEvent \/ TakeJobs \/ StartJob \/ SubmitReadDoneJob \/ LookUpRow
    BY <1>1, <1>3, <2>1, <2>3, QueuesRead
  <2>4. CASE ReadFile
    BY <1>1, <1>3, <2>1, <2>4, FileReadRead
  <2>5. CASE AnswerClient
    BY <1>1, <1>3, <2>1, <2>5, AnswerRead
  <2>6. CASE \E b \in Blocks : DeleteCloses(b) \/ DeleteRemoves(b)
    BY <1>1, <1>3, <2>1, <2>6, QueuesRead
  <2> QED
    BY <2>2, <2>3, <2>4, <2>5, <2>6 DEF Next, Worker
<1> QED
  BY <1>2, <1>3

-----------------------------------------------------------------------------
(* The memory of the jobs. *)

\* Jobs whose numbers ascend within a window are no more than the windows of
\* the clients that have some: each has a place of its own in its client's.
LEMMA JobsPerClient ==
  ASSUME NEW S \in SUBSET Conns, IsFiniteSet(S),
         NEW L \in Nat, NEW client \in [1 .. L -> S], NEW num \in [1 .. L -> Nat],
         NEW from \in [Conns -> Nat],
         \A i \in 1 .. L : from[client[i]] < num[i] /\ num[i] <= from[client[i]] + Window,
         \A i, j \in 1 .. L : i < j /\ client[i] = client[j] => num[i] < num[j]
  PROVE  L <= Cardinality(S) * Window
<1> DEFINE place == [i \in 1 .. L |-> <<client[i], num[i] - from[client[i]]>>]
<1>1. Window \in Nat
  BY SizesAssumption
<1>2. IsFiniteSet(1 .. Window) /\ Cardinality(1 .. Window) = Window
  BY <1>1, FS_Interval
<1>3. /\ IsFiniteSet(S \X (1 .. Window))
      /\ Cardinality(S \X (1 .. Window)) = Cardinality(S) * Window
  <2>1. Cardinality(S \X (1 .. Window)) = Cardinality(S) * Cardinality(1 .. Window)
        /\ IsFiniteSet(S \X (1 .. Window))
    BY <1>2, FS_Product
  <2> QED
    BY <1>2, <2>1
<1>4. IsFiniteSet(1 .. L) /\ Cardinality(1 .. L) = L
  BY FS_Interval
<1>5. ASSUME NEW i \in 1 .. L
      PROVE  /\ place[i] \in S \X (1 .. Window) /\ num[i] \in Nat
             /\ place[i][1] = client[i] /\ place[i][2] = num[i] - from[client[i]]
             /\ client[i] \in S /\ from[client[i]] \in Nat
  <2>1. client[i] \in S /\ num[i] \in Nat /\ from[client[i]] \in Nat
    OBVIOUS
  <2>2. num[i] - from[client[i]] \in 1 .. Window
    <3>1. from[client[i]] < num[i] /\ num[i] <= from[client[i]] + Window
      OBVIOUS
    <3>2. \A x, y \in Nat : x < y /\ y <= x + Window => y - x \in 1 .. Window
      BY <1>1
    <3> QED
      BY ONLY <2>1, <3>1, <3>2
  <2> QED
    BY <2>1, <2>2
<1>6. ASSUME NEW i \in 1 .. L, NEW j \in 1 .. L, place[i] = place[j] PROVE i = j
  <2>1. client[i] = client[j] /\ num[i] - from[client[i]] = num[j] - from[client[j]]
    BY <1>5, <1>6
  <2>2. num[i] = num[j] /\ num[i] \in Nat
    BY <1>5, <2>1
  <2> QED
    BY <2>1, <2>2
<1>7. place \in [1 .. L -> S \X (1 .. Window)] /\ DOMAIN place = 1 .. L
  BY <1>5
<1> HIDE DEF place
<1>8. place \in Injection(1 .. L, S \X (1 .. Window))
  BY <1>6, <1>7 DEF Injection, IsInjective
<1>9. Cardinality(1 .. L) <= Cardinality(S \X (1 .. Window))
  BY <1>3, <1>8, FS_Injection
<1> QED
  BY <1>3, <1>4, <1>9

\* Readers have a row each, of which there are finitely many.
LEMMA ReadersAreFinite ==
  ASSUME FdsSuffice, TypeOK, FilesInv, mishaps = {}
  PROVE  Readers \in SUBSET Conns /\ IsFiniteSet(Readers)
<1> DEFINE rowOf == [c \in Readers |-> file[c].row]
<1>1. Readers \in SUBSET Conns /\ \A c \in Readers : file[c] # NoFile
  BY DEF Readers
<1>2. ASSUME NEW c \in Readers
      PROVE  file[c].row \in Rows /\ \A d \in Readers \ {c} : file[d].row # file[c].row
  BY <1>1, HeldFile
<1>3. rowOf \in Injection(Readers, Rows)
  BY <1>2 DEF Injection, IsInjective
<1> HIDE DEF rowOf
<1> QED
  BY <1>1, <1>3, FS_Injection DEF FdsSuffice

\* Without a mishap there are no more jobs in use than the readers connected
\* together may have outstanding.
LEMMA JobsBounded ==
  ASSUME FdsSuffice, OwnersInv, ReadsInv, mishaps = {}
  PROVE  jobNum <= Cardinality(Readers) * Window
<1>1. PICK num, made : /\ Numbering(num, made)
                       /\ \A i \in 1 .. Len(Pipeline) : JobFits(i, num[i])
  BY DEF ReadsInv
<1>2. PICK L : L = Len(Pipeline)
  OBVIOUS
<1>3. TypeOK /\ FilesInv /\ JobsCounted /\ \A c \in Conns : ClientFits(c)
  BY DEF OwnersInv, ReadsInv
<1>4. L \in Nat /\ jobNum = L /\ Window \in Nat /\ \A i \in 1 .. L : Pipeline[i].conn \in Conns
  <2>1. L \in Nat /\ jobNum = L /\ \A i \in 1 .. L : Pipeline[i] \in Jobs
    BY <1>2, <1>3, PipelineShape DEF JobsCounted
  <2> QED
    BY <2>1, SizesAssumption DEF Jobs
<1>5. Readers \in SUBSET Conns /\ IsFiniteSet(Readers)
  BY <1>3, ReadersAreFinite
<1>6. \A i \in 1 .. L : Pipeline[i].conn \in Readers
  BY <1>1, <1>2, <1>4 DEF JobFits, Readers
<1>7. PICK client, from : /\ client = [i \in 1 .. L |-> Pipeline[i].conn]
                          /\ from = [c \in Conns |-> Len(got[c])]
  OBVIOUS
<1>8. ASSUME NEW c \in Conns
      PROVE  Len(got[c]) \in Nat /\ made[c] \in Nat /\ made[c] <= Len(got[c]) + Window
  <2>1. made[c] \in Nat /\ made[c] <= asked[c] /\ asked[c] <= Len(got[c]) + Window
    BY <1>1, <1>3 DEF Numbering, ClientFits
  <2>2. asked[c] \in Nat /\ Len(got[c]) \in Nat
    <3>1. got \in [Conns -> Seq(Pieces)] /\ asked \in [Conns -> Nat]
      BY <1>3, SizesAssumption DEF TypeOK
    <3> QED
      BY <3>1, LenProperties
  <2> QED
    BY <1>4, <2>1, <2>2
<1>9. client \in [1 .. L -> Readers] /\ from \in [Conns -> Nat] /\ num \in [1 .. L -> Nat]
  BY <1>1, <1>2, <1>6, <1>7, <1>8 DEF Numbering
<1>10. ASSUME NEW i \in 1 .. L
       PROVE  from[client[i]] < num[i] /\ num[i] <= from[client[i]] + Window
  <2>1. PICK c \in Conns : c = Pipeline[i].conn
    BY <1>4
  <2>2. Len(got[c]) < num[i] /\ num[i] <= made[c]
    BY <1>1, <1>2, <2>1 DEF Numbering
  <2>3. client[i] = c /\ from[c] = Len(got[c]) /\ num[i] \in Nat
    BY <1>7, <1>9, <2>1
  <2> QED
    BY <1>4, <1>8, <2>2, <2>3
<1>11. \A i, j \in 1 .. L : i < j /\ client[i] = client[j] => num[i] < num[j]
  BY <1>1, <1>2, <1>7 DEF Numbering
<1>12. L <= Cardinality(Readers) * Window
  BY <1>4, <1>5, <1>9, <1>10, <1>11, JobsPerClient
<1> QED
  BY <1>4, <1>12

LEMMA MemoryKept ==
  ASSUME OwnersInv, JobMemory, Next
  PROVE  JobMemory'
<1>1. TypeOK /\ ~moved
  BY DEF OwnersInv, Next
<1>2. jobNum \in Nat /\ JobStep \in Nat /\ allocNum \in Nat /\ JobStep <= allocNum
  BY <1>1, SizesAssumption DEF TypeOK, JobMemory
<1>3. ASSUME NEW c \in Conns, NEW n \in ReadSizes, ReadBlock(c, n) PROVE JobMemory'
  <2> DEFINE k == IF workerPipe + n > PipeCap THEN PipeCap - workerPipe + 1 ELSE n
  <2>1. /\ jobNum' = jobNum + k /\ allocNum' = Grown(jobNum + k)
        /\ moved' \in IF Grown(jobNum + k) = allocNum THEN {FALSE} ELSE {FALSE, TRUE}
    BY <1>3 DEF ReadBlock
  <2>2. k \in Nat
    <3>1. n \in Nat /\ workerPipe \in 0 .. PipeCap /\ PipeCap \in Nat
      BY <1>1, SizesAssumption DEF TypeOK
    <3> QED
      BY <3>1
  <2> HIDE DEF k
  <2>3. jobNum + k \in Nat
    BY <1>2, <2>2
  <2>4. Grown(jobNum + k) \in Nat
    BY <1>1, <2>3, GrownIsNat
  <2>5. /\ allocNum <= Grown(jobNum + k)
        /\ Grown(jobNum + k) # allocNum => allocNum < jobNum + k
    BY <1>1, <2>3, GrownOnDemand
  <2>6. moved' => Grown(jobNum + k) # allocNum
    BY <2>1
  <2> QED
    BY <1>2, <2>1, <2>3, <2>4, <2>5, <2>6 DEF JobMemory
<1>4. ASSUME UNCHANGED <<allocNum, moved>> PROVE JobMemory'
  BY <1>1, <1>2, <1>4 DEF JobMemory
<1>5. ASSUME NEW c \in Conns, Client(c) PROVE JobMemory'
  <2>1. CASE Accept(c) \/ HangUp(c) \/ CloseBlock(c) \/ RemoveClient(c)
    BY <1>4, <2>1 DEF Accept, HangUp, CloseBlock, RemoveClient, poolVars
  <2>2. CASE \E b \in Blocks : CreateBlock(c, b) \/ OpenBlock(c, b)
    BY <1>4, <2>2 DEF CreateBlock, OpenBlock, poolVars
  <2>3. CASE WritePiece(c)
    BY <1>4, <2>3 DEF WritePiece, poolVars
  <2> QED
    BY <1>3, <1>5, <2>1, <2>2, <2>3 DEF Client
<1>6. CASE PipeEvent \/ AnswerClient \/ Worker
  BY <1>4, <1>6 DEF PipeEvent, AnswerClient, Worker, TakeJobs, StartJob, LookUpRow, ReadFile,
    SubmitReadDoneJob, poolVars
<1>7. CASE \E b \in Blocks : DeleteCloses(b) \/ DeleteRemoves(b)
  BY <1>4, <1>7 DEF DeleteCloses, DeleteRemoves, poolVars
<1> QED
  BY <1>5, <1>6, <1>7 DEF Next

-----------------------------------------------------------------------------
(* The theorems. *)

LEMMA InitReads ==
  ASSUME Init
  PROVE  ReadsInv /\ JobMemory
<1>1. TypeOK
  BY InitOwners DEF OwnersInv
<1>2. /\ mgrQ = <<>> /\ doneQ = <<>> /\ handleQ = <<>> /\ workQ = <<>> /\ worker = Idle /\ Len(<<>>) = 0
      /\ jobNum = 0 /\ allocNum = JobStep /\ moved = FALSE
      /\ \A c \in Conns : file[c] = NoFile /\ asked[c] = 0 /\ got[c] = <<>> /\ hungUp[c] = FALSE
  BY DEF Init
<1>3. Len(Pipeline) = 0 /\ 1 .. 0 = {}
  BY <1>1, <1>2, PipelineShape, WorkerKinds
<1>4. PICK num, made : num = [i \in 1 .. Len(Pipeline) |-> 0] /\ made = [c \in Conns |-> 0]
  OBVIOUS
<1>5. Numbering(num, made)
  <2>1. num \in [1 .. Len(Pipeline) -> Nat] /\ made \in [Conns -> Nat] /\ \A c \in Conns : made[c] = 0
    BY <1>4
  <2> QED
    BY <1>2, <1>3, <2>1 DEF Numbering
<1>6. \A c \in Conns : OffsetFits(c, made[c])
  BY <1>2 DEF OffsetFits
<1>7. \A c \in Conns : ClientFits(c)
  BY <1>2, SizesAssumption DEF ClientFits
<1>8. WorkerFits
  BY <1>2 DEF WorkerFits
<1>9. ReadsInv
  BY <1>3, <1>5, <1>6, <1>7, <1>8 DEF ReadsInv
<1>10. JobMemory
  BY <1>2, SizesAssumption DEF JobMemory
<1> QED
  BY <1>9, <1>10

LEMMA JoinedJobs ==
  ASSUME NEW S, NEW a, NEW b, a \in Seq(S), b \in Seq(S)
  PROVE  a \o b \in Seq(S) /\ JobsIn(a \o b) \subseteq JobsIn(a) \cup JobsIn(b)
<1>1. /\ a \o b \in Seq(S) /\ Len(a \o b) = Len(a) + Len(b)
      /\ \A i \in 1 .. Len(a) + Len(b) : (a \o b)[i] = IF i <= Len(a) THEN a[i] ELSE b[i - Len(a)]
      /\ Len(a) \in Nat /\ Len(b) \in Nat
  BY ConcatProperties, LenProperties
<1>2. ASSUME NEW i \in 1 .. Len(a) + Len(b)
      PROVE  (a \o b)[i] \in JobsIn(a) \cup JobsIn(b)
  <2>1. CASE i <= Len(a)
    BY <1>1, <2>1 DEF JobsIn
  <2>2. CASE ~(i <= Len(a))
    <3>1. i - Len(a) \in 1 .. Len(b)
      BY <1>1, <2>2
    <3> QED
      BY <1>1, <2>2, <3>1 DEF JobsIn
  <2> QED
    BY <2>1, <2>2
<1> QED
  BY <1>1, <1>2 DEF JobsIn

\* Every job in use is one of those put end to end.
LEMMA JobsAreInPipeline ==
  ASSUME TypeOK
  PROVE  JobsInUse \subseteq JobsIn(Pipeline)
<1>1. workQ \in Seq(Jobs) /\ handleQ \in Seq(Jobs) /\ doneQ \in Seq(Jobs) /\ mgrQ \in Seq(Jobs)
  BY DEF TypeOK
<1>2. PICK a, b, d : a = workQ \o handleQ /\ b = a \o doneQ /\ d = b \o mgrQ
  OBVIOUS
<1>3. a \in Seq(Jobs) /\ JobsIn(a) \subseteq JobsIn(workQ) \cup JobsIn(handleQ)
  BY <1>1, <1>2, JoinedJobs
<1>4. b \in Seq(Jobs) /\ JobsIn(b) \subseteq JobsIn(a) \cup JobsIn(doneQ)
  BY <1>1, <1>2, <1>3, JoinedJobs
<1>5. JobsIn(d) \subseteq JobsIn(b) \cup JobsIn(mgrQ)
  BY <1>1, <1>2, <1>4, JoinedJobs
<1>6. JobsInUse = JobsIn(d) \cup (IF worker = Idle THEN {} ELSE {worker.job})
  BY <1>2 DEF JobsInUse
<1>7. /\ Len(Pipeline) = Len(mgrQ) + Len(doneQ) + Len(Working) + Len(handleQ) + Len(workQ)
       /\ Len(mgrQ) \in Nat /\ Len(doneQ) \in Nat /\ Len(Working) \in Nat
       /\ Len(handleQ) \in Nat /\ Len(workQ) \in Nat
  BY PipelineShape
<1>8. JobsIn(mgrQ) \subseteq JobsIn(Pipeline)
  BY PipelineShape DEF JobsIn
<1>9. JobsIn(doneQ) \subseteq JobsIn(Pipeline)
  <2> SUFFICES ASSUME NEW i \in 1 .. Len(doneQ) PROVE doneQ[i] \in JobsIn(Pipeline)
    BY DEF JobsIn
  <2>1. PICK w : w = Len(mgrQ) + i
    OBVIOUS
  <2>2. w \in 1 .. Len(Pipeline)
    BY <2>1, <1>7
  <2>3. Pipeline[w] = doneQ[i]
    BY <2>1, PipelineShape
  <2> QED
    BY <2>2, <2>3 DEF JobsIn
<1>10. JobsIn(handleQ) \subseteq JobsIn(Pipeline)
  <2> SUFFICES ASSUME NEW i \in 1 .. Len(handleQ) PROVE handleQ[i] \in JobsIn(Pipeline)
    BY DEF JobsIn
  <2>1. PICK w : w = Len(mgrQ) + (Len(doneQ) + (Len(Working) + i))
    OBVIOUS
  <2>2. w \in 1 .. Len(Pipeline)
    BY <2>1, <1>7
  <2>3. Pipeline[w] = handleQ[i]
    BY <2>1, PipelineShape
  <2> QED
    BY <2>2, <2>3 DEF JobsIn
<1>11. JobsIn(workQ) \subseteq JobsIn(Pipeline)
  <2> SUFFICES ASSUME NEW i \in 1 .. Len(workQ) PROVE workQ[i] \in JobsIn(Pipeline)
    BY DEF JobsIn
  <2>1. PICK w : w = Len(mgrQ) + (Len(doneQ) + (Len(Working) + (Len(handleQ) + i)))
    OBVIOUS
  <2>2. w \in 1 .. Len(Pipeline)
    BY <2>1, <1>7
  <2>3. Pipeline[w] = workQ[i]
    BY <2>1, PipelineShape
  <2> QED
    BY <2>2, <2>3 DEF JobsIn
<1>12. worker # Idle => worker.job \in JobsIn(Pipeline)
  <2> SUFFICES ASSUME worker # Idle PROVE worker.job \in JobsIn(Pipeline)
    OBVIOUS
  <2>1. PICK w : w = Len(mgrQ) + (Len(doneQ) + 1)
    OBVIOUS
  <2>2. Len(Working) = 1 /\ Working[1] = worker.job
    BY WorkerKinds
  <2>3. w \in 1 .. Len(Pipeline) /\ Pipeline[w] = worker.job
    BY <2>1, <2>2, PipelineShape
  <2> QED
    BY <2>3 DEF JobsIn
<1> QED
  BY <1>3, <1>4, <1>5, <1>6, <1>8, <1>9, <1>10, <1>11, <1>12

LEMMA OwnersKept ==
  ASSUME FdsSuffice, OwnersInv, [Next]_vars
  PROVE  OwnersInv'
<1>1. CASE Next
  <2>1. FilesInv'
    BY <1>1, FilesKept DEF OwnersInv
  <2> QED
    BY <1>1, <2>1, TypesKept DEF OwnersInv
<1>2. CASE UNCHANGED vars
  <2>1. UNCHANGED <<TypeOK, FilesInv, JobsCounted>>
    BY <1>2 DEF vars, connVars, useVars, fileVars, poolVars, pipeVars, mgrVars, workVars, TypeOK,
      FilesInv, Sockets, RowsOwned, RowsOpen, FdsHaveRows, RowsHeld, OwnsRow, Alive, JobsCounted, Working
  <2> QED
    BY <2>1 DEF OwnersInv
<1> QED
  BY <1>1, <1>2

\* Rows and descriptors have one owner each, whatever clients and ECMeta do.
THEOREM OwnersInvariant == FdsSuffice /\ Spec => []OwnersInv
<1> SUFFICES ASSUME FdsSuffice PROVE Spec => []OwnersInv
  OBVIOUS
<1>1. OwnersInv /\ [Next]_vars => OwnersInv'
  BY OwnersKept
<1> QED
  BY InitOwners, <1>1, PTL DEF Spec

\* startWriteFile, startReadFile, closeFile, closeFileBySockFd and deleteFile
\* lose no row of the table: each in use was given to a connected client that
\* still has its file, and descriptors are open for rows only.
THEOREM RowsAlwaysOwned == FdsSuffice /\ Spec => []RowsHaveOwners
<1>1. OwnersInv => RowsHaveOwners
  BY DEF OwnersInv, FilesInv, RowsOwned, FdsHaveRows, RowsHaveOwners
<1> QED
  BY OwnersInvariant, <1>1, PTL

\* A client's BlockFd stands for the file it opened for as long as it has it
\* open, though closeFile does not ask whose row it closes.
THEOREM FilesAreHeld == FdsSuffice /\ Spec => []HoldsItsFile
<1>1. OwnersInv => HoldsItsFile
  <2> SUFFICES ASSUME OwnersInv, "openDeleted" \notin mishaps, NEW c \in Conns, file[c] # NoFile
               PROVE  LET r == file[c].row IN
                        /\ OwnsRow(c, r) /\ table[r].block = file[c].block
                        /\ fds[table[r].fd] # Closed /\ fds[table[r].fd].block = file[c].block
                        /\ \A d \in Conns \ {c} : file[d] # NoFile => file[d].row # r
    BY DEF HoldsItsFile
  <2>1. TypeOK /\ FilesInv /\ RowsHeld
    BY DEF OwnersInv, FilesInv
  <2> QED
    BY <2>1, HeldFile DEF RowsHeld, FdOf
<1> QED
  BY OwnersInvariant, <1>1, PTL

LEMMA Kept ==
  ASSUME FdsSuffice, IInv, [Next]_vars
  PROVE  IInv'
<1>1. OwnersInv'
  BY OwnersKept DEF IInv
<1>2. CASE Next
  <2>1. ReadsInv'
    BY <1>2, ReadsKept DEF IInv
  <2> QED
    BY <1>1, <1>2, <2>1, MemoryKept DEF IInv, OwnersInv
<1>3. CASE UNCHANGED vars
  <2>1. Pipeline' = Pipeline /\ NumRead' = NumRead
    BY <1>3 DEF vars, mgrVars, workVars, Pipeline, NumRead, Working
  <2>2. UNCHANGED <<ReadsInv, JobMemory>>
    BY <1>3, <2>1 DEF vars, connVars, useVars, fileVars, poolVars, pipeVars, mgrVars, workVars,
      ReadsInv, Numbering, JobFits, ClientFits, OffsetFits, Offset, FdOf, WorkerFits, JobMemory
  <2> QED
    BY <1>1, <2>2 DEF IInv
<1> QED
  BY <1>2, <1>3

\* The jobs are numbered as their pieces are, and their memory moves only for more
\* of them than there were at the start.
THEOREM JobsInvariant == FdsSuffice /\ Spec => []IInv
<1> SUFFICES ASSUME FdsSuffice PROVE Spec => []IInv
  OBVIOUS
<1>1. Init => IInv
  BY InitOwners, InitReads DEF IInv
<1>2. IInv /\ [Next]_vars => IInv'
  BY Kept
<1> QED
  BY <1>1, <1>2, PTL DEF Spec

\* As long as no client is hasty and no open block is deleted, what
\* writeClientReadContent sends a reader is its block from the first piece on,
\* in order and with nothing left out, until the memory of the jobs moves.
THEOREM ReadersServedInOrder == FdsSuffice /\ Spec => []ServedInOrder
<1>1. IInv => ServedInOrder
  BY DEF IInv, ReadsInv, ClientFits, ServedInOrder
<1> QED
  BY JobsInvariant, <1>1, PTL

\* A disk job's sourcePtr and diskFd are not stale, and requestDiskJob moves the
\* jobs, whose pointers in the queues then dangle, only when the readers connected
\* may have more pieces outstanding than the JobStep jobs there were at the start:
\* no job is lost, whatever clients do between their reads.
THEOREM JobsKeepTheirClient == FdsSuffice /\ Spec => []JobsHaveTheirClient
<1>1. ASSUME FdsSuffice, IInv PROVE JobsHaveTheirClient
  <2>1. TypeOK /\ FilesInv /\ ReadsInv /\ OwnersInv
    BY <1>1 DEF IInv, OwnersInv
  <2>2. ASSUME mishaps = {}, NEW j \in JobsInUse
        PROVE  Alive(j.conn) /\ file[j.conn] # NoFile /\ file[j.conn].row = j.row
    <3>1. PICK i \in 1 .. Len(Pipeline) : Pipeline[i] = j
      BY <2>1, JobsAreInPipeline DEF JobsIn
    <3>2. j.conn \in Conns
      <4>1. j \in Jobs
        BY <2>1, <3>1, PipelineShape
      <4> QED
        BY <4>1 DEF Jobs
    <3>3. PICK num : JobFits(i, num[i])
      BY <2>1, <2>2 DEF ReadsInv
    <3>4. file[j.conn] # NoFile /\ file[j.conn].row = j.row
      BY <3>1, <3>3 DEF JobFits
    <3> QED
      BY <2>1, <2>2, <3>2, <3>4, HeldFile
  <2>3. ASSUME mishaps = {}, moved PROVE Cardinality(Readers) * Window > JobStep
    <3>1. jobNum <= Cardinality(Readers) * Window
      BY <1>1, <2>1, <2>3, JobsBounded
    <3>2. jobNum \in Nat /\ JobStep \in Nat /\ JobStep < jobNum
      BY <1>1, <2>1, <2>3, SizesAssumption DEF IInv, JobMemory, TypeOK
    <3>3. Cardinality(Readers) * Window \in Nat
      <4>1. Cardinality(Readers) \in Nat /\ Window \in Nat
        BY <1>1, <2>1, <2>3, ReadersAreFinite, FS_CardinalityType, SizesAssumption
      <4> QED
        BY <4>1
    <3> QED
      BY <3>1, <3>2, <3>3
  <2> QED
    BY <2>2, <2>3 DEF JobsHaveTheirClient
<1> SUFFICES ASSUME FdsSuffice PROVE Spec => []JobsHaveTheirClient
  OBVIOUS
<1>2. IInv => JobsHaveTheirClient
  BY <1>1
<1> QED
  BY JobsInvariant, <1>2, PTL

=============================================================================
