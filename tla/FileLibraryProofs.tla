-------------------------- MODULE FileLibraryProofs --------------------------
(***************************************************************************)
(* The file library keeps its books and its contents, for any number of    *)
(* connections, contents, files, uploads and failures.                     *)
(***************************************************************************)
EXTENDS FileLibrary, FiniteSetTheorems, WellFoundedInduction, TLAPS

-----------------------------------------------------------------------------
(* What every transaction knows about the rows                             *)

\* It is about to insert a file; it judges one; it takes one away, having
\* looked at the row under the lock.
Maker(t) == t.op \in {"create", "register"}
Judge(t) == t.op \in {"review", "delete"}
Taker(t) == Judge(t) /\ t.status # "approved" /\ t.at \in {"wipe", "commit"}

Beside(t) == LiveOf(t.hash) \ {t.row}

MakerOK(t) ==
  Maker(t) =>
    /\ t.at \in {"read", "number", "hash", "write", "drop", "commit"}
    /\ t.row \in Rows \ Stored /\ t.status = "pending"
    /\ t.at # "read" => t.hash \in Hashes /\ t.parent \in Stored \cup {None}
    /\ t.ver > 0 <=> t.at \in {"hash", "write", "drop", "commit"}
    /\ t.ver > 0 => t.code > 0
    /\ t.locked <=> t.at \in {"write", "drop", "commit"}
    /\ t.op = "create" => t.uploads = {} /\ t.at \notin {"read", "drop"}
    /\ t.op = "register" => \E u \in Uploads : t.uploads = {u} /\ sess[u] = "open"
    /\ t.at \in {"drop", "commit"} => t.refs = Cardinality(LiveOf(t.hash)) + 1

JudgeOK(t) ==
  Judge(t) =>
    /\ t.at \in {"hash", "decide", "wipe", "commit"} /\ t.ver = 0 /\ t.uploads = {}
    /\ t.row \in Stored /\ t.hash = file[t.row].hash
    /\ t.locked <=> t.at # "hash"
    /\ t.op = "review" => t.status \in {"approved", "rejected"}
    /\ t.op = "delete" => t.status = "deleted"
    /\ t.at = "wipe" => t.status # "approved"
    /\ t.at \in {"wipe", "commit"} /\ t.op = "review" => file[t.row].status = "pending"
    /\ t.at \in {"wipe", "commit"} /\ t.op = "delete" => file[t.row].status # "deleted"
    /\ Taker(t) => t.refs = Cardinality(Beside(t))

JobOK(t) ==
  /\ t.op = "idle" => t = Idle
  /\ t.op \in {"archive", "backup", "cleanup"} =>
       t.ver = 0 /\ t.status = "pending" /\ t.row = None
  /\ t.op = "archive" =>
       /\ t.at \in {"hash", "decide", "purge", "commit"} /\ t.uploads = {} /\ t.hash \in Hashes
       /\ t.locked <=> t.at # "hash"
  /\ t.op = "backup" =>
       t.at \in {"copy", "commit"} /\ t.uploads = {} /\ t.hash \in Hashes /\ ~t.locked
  /\ t.op = "cleanup" =>
       /\ t.at = "sweep" /\ ~t.locked /\ t.swept \subseteq t.uploads
       /\ \A u \in t.uploads : sess[u] = "open"

\* The number a transaction has taken is the next one of its document.
NumberOK(t) ==
  t.ver > 0 =>
    /\ t.parent = None =>
         /\ t.ver = 1 /\ \A r \in Stored : file[r].code < t.code
         /\ \A k \in 1 .. t.code - 1 : \E s \in Stored : file[s].code = k
    /\ t.parent # None =>
         /\ t.parent \in Stored /\ t.code = file[t.parent].code
         /\ \A r \in Stored : file[r].code = t.code => file[r].ver < t.ver
         /\ \A k \in 1 .. t.ver - 1 : \E s \in Stored : file[s].code = t.code /\ file[s].ver = k

Fine(t) == MakerOK(t) /\ JudgeOK(t) /\ JobOK(t) /\ NumberOK(t)

\* Two transactions do not hold the same content, row id, session or document.
Away(t, u) ==
  /\ ~ (t.locked /\ u.locked /\ t.hash = u.hash)
  /\ Maker(t) /\ Maker(u) => t.row # u.row
  /\ t.uploads \cap u.uploads = {}
  /\ t.ver > 0 /\ u.ver > 0 =>
       /\ ~ (t.parent = None /\ u.parent = None)
       /\ t.parent # None /\ u.parent # None => t.code # u.code

\* The numbers of the files have no gaps.
Dense ==
  \A r \in Stored :
    /\ \A k \in 1 .. file[r].code : \E s \in Stored : file[s].code = k
    /\ \A k \in 1 .. file[r].ver : \E s \in Stored : file[s].code = file[r].code /\ file[s].ver = k

Numbered == \A r, s \in Stored : r # s => file[r].code # file[s].code \/ file[r].ver # file[s].ver

\* The session a file came from is gone.
FromGone ==
  \A r \in Stored : file[r].from # None =>
    /\ sess[file[r].from] = "gone"
    /\ \A s \in Stored : r # s => file[s].from # file[r].from

RowsOK == RefsExact /\ Dense /\ Numbered /\ FromGone

ConnsOK ==
  /\ \A c \in Conns : Fine(tx[c])
  /\ \A c, d \in Conns : c # d => Away(tx[c], tx[d])

RInv == TypeOK /\ RowsOK /\ ConnsOK

-----------------------------------------------------------------------------
(* Sets and numbers                                                        *)

\* Induction, as the least element.
LEMMA LeastNumber ==
  ASSUME NEW B \in SUBSET Nat, B # {}
  PROVE  \E n \in B : \A k \in B : n <= k
<1> DEFINE R == OpToRel(<, Nat)
<1>1. IsWellFoundedOn(R, Nat)
  BY NatLessThanWellFounded
<1>2. PICK n \in B : \A y \in B : ~(<<y, n>> \in R)
  BY <1>1, WFMin
<1>3. \A a, b \in Nat : a < b => <<a, b>> \in R
  BY DEF OpToRel
<1> HIDE DEF R
<1>4. \A y \in B : ~(y < n)
  BY <1>2, <1>3
<1> QED
  BY <1>4

\* Max of a bounded set of numbers.
LEMMA MaxIs ==
  ASSUME NEW S \in SUBSET Nat, 0 \in S, NEW n \in Nat, \A x \in S : x <= n
  PROVE  Max(S) \in S /\ \A x \in S : x <= Max(S)
<1> DEFINE B == {k \in Nat : \A x \in S : x <= k}
<1>1. PICK m \in B : \A k \in B : m <= k
  BY LeastNumber
<1>2. m \in S
  <2> SUFFICES ASSUME m \notin S PROVE FALSE
    OBVIOUS
  <2>1. \A x \in S : x <= m - 1
    OBVIOUS
  <2>2. m - 1 \in B
    BY <2>1
  <2> QED
    BY <1>1, <2>2
<1>3. m \in S /\ \A y \in S : m >= y
  BY <1>2
<1>4. \E x \in S : \A y \in S : x >= y
  BY <1>3
<1> QED
  BY <1>4 DEF Max

\* If every number up to n belongs to an element, there are n of them.
LEMMA Pigeons ==
  ASSUME NEW S, IsFiniteSet(S), NEW n \in Nat, NEW g,
         \A k \in 1 .. n : \E s \in S : g[s] = k
  PROVE  n <= Cardinality(S)
<1> DEFINE f == [k \in 1 .. n |-> CHOOSE s \in S : g[s] = k]
<1>1. f \in [1 .. n -> S] /\ \A k \in 1 .. n : g[f[k]] = k
  OBVIOUS
<1>2. IsFiniteSet(1 .. n) /\ Cardinality(1 .. n) = n /\ Cardinality(S) \in Nat
  <2>1. IsFiniteSet(1 .. n) /\ Cardinality(1 .. n) = IF 1 > n THEN 0 ELSE n - 1 + 1
    BY FS_Interval
  <2> QED
    BY <2>1, FS_CardinalityType
<1> HIDE DEF f
<1> SUFFICES ASSUME Cardinality(S) < n PROVE FALSE
  BY <1>2
<1>3. PICK x, y \in 1 .. n : x # y /\ f[x] = f[y]
  BY <1>1, <1>2, FS_PigeonHole
<1> QED
  BY <1>1, <1>3

-----------------------------------------------------------------------------
(* The rows                                                                *)

\* The parts of a stored row.
LEMMA RowParts ==
  ASSUME TypeOK, NEW r \in Stored
  PROVE  /\ r \in Rows /\ file[r] \in File
         /\ file[r].hash \in Hashes /\ file[r].status \in Statuses
         /\ file[r].code \in 1 .. Cardinality(Rows) /\ file[r].ver \in 1 .. Cardinality(Rows)
         /\ file[r].refs \in 0 .. Cardinality(Rows)
         /\ file[r].archived \in BOOLEAN /\ file[r].backed \in BOOLEAN /\ file[r].cold \in BOOLEAN
         /\ file[r].from \in Uploads \cup {None}
BY DEF TypeOK, Stored, File

\* The parts of a transaction.
LEMMA TxParts ==
  ASSUME NEW t \in Tx
  PROVE  /\ t.row \in Rows \cup {None} /\ t.parent \in Parents /\ t.hash \in Hashes \cup {None}
         /\ t.locked \in BOOLEAN /\ t.uploads \in SUBSET Uploads /\ t.swept \in SUBSET Uploads
         /\ t.code \in 0 .. Cardinality(Rows) /\ t.ver \in 0 .. Cardinality(Rows)
         /\ t.status \in Statuses /\ t.refs \in 0 .. Cardinality(Rows)
BY DEF Tx

LEMMA RowsCount == IsFiniteSet(Rows) /\ Cardinality(Rows) \in Nat
BY LibraryAssumption, FS_CardinalityType

\* Sets of rows can be counted.
LEMMA Countable ==
  ASSUME NEW S \in SUBSET Rows
  PROVE  /\ IsFiniteSet(S) /\ Cardinality(S) \in Nat /\ Cardinality(S) <= Cardinality(Rows)
         /\ \A r \in Rows \ S : Cardinality(S) + 1 <= Cardinality(Rows)
<1>1. IsFiniteSet(S) /\ Cardinality(S) <= Cardinality(Rows)
  BY RowsCount, FS_Subset
<1>2. Cardinality(S) \in Nat
  BY <1>1, FS_CardinalityType
<1>3. ASSUME NEW r \in Rows \ S PROVE Cardinality(S) + 1 <= Cardinality(Rows)
  <2>1. Cardinality(S \cup {r}) = Cardinality(S) + 1
    BY <1>1, <1>3, FS_AddElement
  <2>2. S \cup {r} \in SUBSET Rows
    BY <1>3
  <2> QED
    BY <2>1, <2>2, RowsCount, FS_Subset
<1> QED
  BY <1>1, <1>2, <1>3

LEMMA LiveRows == Stored \subseteq Rows /\ \A h : LiveOf(h) \in SUBSET Rows /\ LiveOf(h) \subseteq Stored
BY DEF Stored, LiveOf

\* A step of one connection that leaves the rows alone, and what it needs
\* for the connections to stay apart.
Moves(c) ==
  \E t \in Tx :
    /\ tx' = [tx EXCEPT ![c] = t]
    /\ Fine(t)
    /\ \A d \in Conns \ {c} : Away(t, tx[d])
    /\ UNCHANGED db

LEMMA MovesKeeps ==
  ASSUME RInv, NEW c \in Conns, Moves(c)
  PROVE  RowsOK' /\ ConnsOK' /\ tx' \in [Conns -> Tx]
<1>1. PICK t \in Tx :
        /\ tx' = [tx EXCEPT ![c] = t]
        /\ Fine(t)
        /\ \A d \in Conns \ {c} : Away(t, tx[d])
        /\ UNCHANGED db
  BY DEF Moves
<1>2. tx \in [Conns -> Tx]
  BY DEF RInv, TypeOK
<1>3. file' = file /\ sess' = sess
  BY <1>1 DEF db
<1>4. tx' \in [Conns -> Tx] /\ tx'[c] = t /\ \A d \in Conns \ {c} : tx'[d] = tx[d]
  BY <1>1, <1>2
<1>5. RowsOK'
  BY <1>3 DEF RInv, RowsOK, RefsExact, Dense, Numbered, FromGone, Stored, LiveOf
<1>6. ASSUME NEW u, Fine(u) PROVE Fine(u)'
  BY <1>3, <1>6 DEF Fine, MakerOK, JudgeOK, JobOK, NumberOK, Stored, LiveOf, Beside
<1>7. ASSUME NEW d \in Conns PROVE Fine(tx[d])'
  <2>1. CASE d = c
    BY <1>1, <1>4, <1>6, <2>1
  <2>2. CASE d # c
    <3>1. Fine(tx[d])
      BY DEF RInv, ConnsOK
    <3> QED
      BY <1>4, <1>6, <2>2, <3>1
  <2> QED
    BY <2>1, <2>2
<1>8. ASSUME NEW d \in Conns, NEW e \in Conns, d # e PROVE Away(tx[d], tx[e])'
  <2>1. Away(tx[d], tx[e])
    BY <1>8 DEF RInv, ConnsOK
  <2>2. \A u, w : Away(u, w) => Away(w, u)
    BY DEF Away
  <2>3. Away(tx'[d], tx'[e])
    BY <1>1, <1>4, <1>8, <2>1, <2>2
  <2> QED
    BY <2>3
<1> QED
  BY <1>4, <1>5, <1>7, <1>8 DEF ConnsOK
-----------------------------------------------------------------------------
(* The steps that leave the rows alone                                     *)

\* A transaction at rest gets in nobody's way.
LEMMA IdleFine ==
  ASSUME RInv
  PROVE  Idle \in Tx /\ Fine(Idle) /\ \A u : Away(Idle, u)
<1>1. Idle \in Tx
  BY RowsCount DEF Idle, Tx, Parents, Statuses
<1>2. Fine(Idle)
  BY DEF Fine, MakerOK, JudgeOK, JobOK, NumberOK, Maker, Judge, Idle
<1>3. ASSUME NEW u PROVE Away(Idle, u)
  BY DEF Away, Maker, Idle
<1> QED
  BY <1>1, <1>2, <1>3

LEMMA RollbackMoves ==
  ASSUME RInv, NEW c \in Conns, Rollback(c), UNCHANGED db
  PROVE  Moves(c)
BY IdleFine DEF Moves, Rollback, Step

\* What the invariant says of the transaction that takes a step.
LEMMA Known ==
  ASSUME RInv, NEW c \in Conns
  PROVE  /\ tx[c] \in Tx /\ Fine(tx[c])
         /\ \A d \in Conns \ {c} : tx[d] \in Tx /\ Fine(tx[d]) /\ Away(tx[c], tx[d])
BY DEF RInv, TypeOK, ConnsOK

LEMMA CreateMoves ==
  ASSUME RInv, NEW c \in Conns, NEW r \in Rows, NEW h \in Hashes, NEW p \in Parents,
         Create(c, r, h, p)
  PROVE  Moves(c)
<1> DEFINE t == [Idle EXCEPT !.op = "create", !.at = "number", !.row = r, !.hash = h, !.parent = p]
<1>1. tx' = [tx EXCEPT ![c] = t] /\ UNCHANGED db /\ r \notin Stored /\ GoodParent(p)
      /\ \A d \in Conns : tx[d].row # r
  BY DEF Create, Begin, Step, Reserved
<1>2. t \in Tx
  BY IdleFine DEF Tx, Parents
<1>3. Fine(t)
  BY <1>1 DEF Fine, MakerOK, JudgeOK, JobOK, NumberOK, Maker, Judge, Idle, GoodParent
<1>4. ASSUME NEW d \in Conns \ {c} PROVE Away(t, tx[d])
  BY <1>1 DEF Away, Maker, Idle
<1> QED
  BY <1>1, <1>2, <1>3, <1>4 DEF Moves

LEMMA RegisterMoves ==
  ASSUME RInv, NEW c \in Conns, NEW u \in Uploads, NEW r \in Rows, NEW p \in Parents,
         Register(c, u, r, p)
  PROVE  Moves(c)
<1> DEFINE t == [Idle EXCEPT !.op = "register", !.at = "read", !.row = r,
                             !.uploads = {u}, !.parent = p]
<1>1. tx' = [tx EXCEPT ![c] = t] /\ UNCHANGED db /\ r \notin Stored
      /\ \A d \in Conns : tx[d].row # r
  BY DEF Register, Begin, Step, Reserved
<1>2. t \in Tx
  BY IdleFine DEF Tx, Parents
<1>3. sess[u] = "open" /\ \A d \in Conns : u \notin tx[d].uploads
  BY DEF Register, Claimable, Held
<1>4. Fine(t)
  BY <1>1, <1>3 DEF Fine, MakerOK, JudgeOK, JobOK, NumberOK, Maker, Judge, Idle
<1>5. ASSUME NEW d \in Conns \ {c} PROVE Away(t, tx[d])
  BY <1>1, <1>3 DEF Away, Maker, Idle
<1> QED
  BY <1>1, <1>2, <1>4, <1>5 DEF Moves

LEMMA ReadMoves ==
  ASSUME RInv, NEW c \in Conns, Read(c)
  PROVE  Moves(c)
<1> DEFINE x == up[UploadOf(c)]
<1>0. UNCHANGED db
  BY DEF Read
<1>1. CASE Rollback(c)
  BY <1>0, <1>1, RollbackMoves
<1>2. CASE x \in Hashes /\ GoodParent(tx[c].parent) /\ Step(c, [To(c, "number") EXCEPT !.hash = x])
  <2> DEFINE t == [To(c, "number") EXCEPT !.hash = x]
  <2>1. tx' = [tx EXCEPT ![c] = t] /\ tx[c].at = "read"
    BY <1>2 DEF Step, Read
  <2>2. tx[c].op = "register" /\ tx[c] \in Tx
    BY <2>1, Known DEF Fine, MakerOK, JudgeOK, JobOK, Maker, Judge, Idle, Tx
  <2>3. t \in Tx
    BY <1>2, <2>2 DEF To, Tx
  <2>4. /\ t.op = "register" /\ t.at = "number" /\ t.row = tx[c].row /\ t.parent = tx[c].parent
        /\ t.hash = x /\ t.locked = tx[c].locked /\ t.uploads = tx[c].uploads
        /\ t.ver = tx[c].ver /\ t.status = tx[c].status
    BY <2>2 DEF To, Tx
  <2> HIDE DEF t
  <2>5. Fine(t)
    <3>1. MakerOK(tx[c]) /\ tx[c].ver \in Nat
      BY <2>2, Known, TxParts DEF Fine
    <3>2. tx[c].ver = 0 /\ ~tx[c].locked
      BY <2>1, <2>2, <3>1 DEF MakerOK, Maker
    <3>3. t.parent \in Stored \cup {None} /\ t.hash \in Hashes
      BY <1>2, <2>4 DEF GoodParent
    <3>4. MakerOK(t)
      BY <2>1, <2>2, <2>4, <3>1, <3>2, <3>3 DEF MakerOK, Maker
    <3>5. JudgeOK(t) /\ JobOK(t)
      BY <2>4 DEF JudgeOK, JobOK, Judge
    <3>6. NumberOK(t)
      BY <2>4, <3>2 DEF NumberOK
    <3> QED
      BY <3>4, <3>5, <3>6 DEF Fine
  <2>6. ASSUME NEW d \in Conns \ {c} PROVE Away(t, tx[d])
    <3>1. ~t.locked /\ t.ver = 0 /\ Away(tx[c], tx[d])
      BY <2>1, <2>2, <2>4, Known, TxParts DEF Fine, MakerOK, Maker
    <3> QED
      BY <2>2, <2>4, <3>1 DEF Away, Maker
  <2> QED
    BY <1>0, <2>1, <2>3, <2>5, <2>6 DEF Moves
<1> QED
  BY <1>1, <1>2 DEF Read

\* next_document_code: one more than the codes of the stored files, all of
\* which are in use.
LEMMA NextCode ==
  ASSUME TypeOK, Dense, NEW row \in Rows \ Stored, NEW m,
         m = Max({0} \cup {file[r].code : r \in Stored})
  PROVE  /\ m \in Nat /\ m + 1 \in 1 .. Cardinality(Rows)
         /\ \A r \in Stored : file[r].code <= m
         /\ \A k \in 1 .. m : \E s \in Stored : file[s].code = k
<1> DEFINE C == {0} \cup {file[r].code : r \in Stored}
<1>1. /\ C \in SUBSET Nat /\ 0 \in C /\ \A x \in C : x <= Cardinality(Rows)
  BY RowParts, RowsCount
<1>2. m \in C /\ \A x \in C : x <= m
  BY <1>1, RowsCount, MaxIs
<1>3. m \in Nat /\ \A r \in Stored : file[r].code <= m
  BY <1>1, <1>2
<1>4. ASSUME NEW k \in 1 .. m PROVE \E s \in Stored : file[s].code = k
  <2>0. m # 0
    BY <1>3
  <2>1. PICK r \in Stored : m = file[r].code
    BY <1>2, <2>0
  <2> QED
    BY <2>1 DEF Dense
<1>5. m <= Cardinality(Stored)
  <2> DEFINE g == [r \in Stored |-> file[r].code]
  <2>1. \A k \in 1 .. m : \E s \in Stored : g[s] = k
    BY <1>4
  <2>2. IsFiniteSet(Stored)
    BY LiveRows, Countable
  <2> HIDE DEF g
  <2> QED
    BY <1>3, <2>1, <2>2, Pigeons
<1>6. Cardinality(Stored) \in Nat /\ Cardinality(Stored) + 1 <= Cardinality(Rows)
  BY LiveRows, Countable
<1> QED
  BY <1>3, <1>4, <1>5, <1>6, RowsCount

Versions(code) == {0} \cup {file[r].ver : r \in {s \in Stored : file[s].code = code}}

\* next_version, in the same way among the files of one document.
LEMMA NextVersion ==
  ASSUME TypeOK, Dense, NEW row \in Rows \ Stored, NEW code, NEW m,
         m = Max(Versions(code))
  PROVE  /\ m \in Nat /\ m + 1 \in 1 .. Cardinality(Rows)
         /\ \A r \in Stored : file[r].code = code => file[r].ver <= m
         /\ \A k \in 1 .. m : \E s \in Stored : file[s].code = code /\ file[s].ver = k
         /\ (\A r \in Stored : file[r].code # code) => m = 0
<1> DEFINE D == {s \in Stored : file[s].code = code}
           C == {0} \cup {file[r].ver : r \in D}
<1>0. m = Max(C)
  BY DEF Versions
<1>1. /\ C \in SUBSET Nat /\ 0 \in C /\ \A x \in C : x <= Cardinality(Rows)
  BY RowParts, RowsCount
<1>2. m \in C /\ \A x \in C : x <= m
  BY <1>0, <1>1, RowsCount, MaxIs
<1>3. m \in Nat /\ \A r \in Stored : file[r].code = code => file[r].ver <= m
  BY <1>1, <1>2
<1>4. ASSUME NEW k \in 1 .. m PROVE \E s \in Stored : file[s].code = code /\ file[s].ver = k
  <2>0. m # 0
    BY <1>3
  <2>1. PICK r \in D : m = file[r].ver
    BY <1>2, <2>0
  <2> QED
    BY <2>1 DEF Dense
<1>5. m <= Cardinality(D)
  <2> DEFINE g == [r \in Stored |-> file[r].ver]
  <2>1. \A k \in 1 .. m : \E s \in D : g[s] = k
    BY <1>4
  <2>2. IsFiniteSet(D)
    BY LiveRows, Countable
  <2> HIDE DEF g, D
  <2> QED
    BY <1>3, <2>1, <2>2, Pigeons
<1>6. Cardinality(D) \in Nat /\ Cardinality(D) + 1 <= Cardinality(Rows)
  <2>1. D \in SUBSET Rows /\ row \in Rows \ D
    BY LiveRows
  <2> HIDE DEF D
  <2> QED
    BY <2>1, Countable
<1>7. (\A r \in Stored : file[r].code # code) => m = 0
  BY <1>2
<1> QED
  BY <1>3, <1>4, <1>5, <1>6, <1>7, RowsCount

LEMMA TakeNumberMoves ==
  ASSUME RInv, NEW c \in Conns, TakeNumber(c)
  PROVE  Moves(c)
<1>1. tx[c].at = "number" /\ NumberFree(c) /\ UNCHANGED db
  BY DEF TakeNumber
<1>2. Maker(tx[c]) /\ tx[c] \in Tx
  BY <1>1, Known DEF Fine, JudgeOK, JobOK, Maker, Judge, Idle, Tx
<1>3. /\ tx[c].row \in Rows \ Stored /\ tx[c].parent \in Stored \cup {None}
      /\ tx[c].hash \in Hashes /\ tx[c].status = "pending" /\ ~tx[c].locked
      /\ tx[c].op = "create" => tx[c].uploads = {}
      /\ tx[c].op = "register" => \E u \in Uploads : tx[c].uploads = {u} /\ sess[u] = "open"
  BY <1>1, <1>2, Known DEF Fine, MakerOK
<1> DEFINE p == tx[c].parent
           code == IF p = None THEN 1 + Max({0} \cup {file[r].code : r \in Stored}) ELSE file[p].code
           ver == 1 + Max({0} \cup {file[r].ver : r \in {s \in Stored : file[s].code = code}})
           t == [To(c, "hash") EXCEPT !.code = code, !.ver = ver]
<1>4. tx' = [tx EXCEPT ![c] = t]
  BY DEF TakeNumber, Step
<1>5. /\ None \notin Stored /\ TypeOK /\ Dense
  BY LibraryAssumption DEF RInv, RowsOK, Stored
<1>6. /\ code \in 1 .. Cardinality(Rows)
      /\ p = None => /\ \A r \in Stored : file[r].code < code
                     /\ \A k \in 1 .. code - 1 : \E s \in Stored : file[s].code = k
  <2>1. CASE p = None
    <3> DEFINE m == Max({0} \cup {file[r].code : r \in Stored})
    <3>1. /\ m \in Nat /\ m + 1 \in 1 .. Cardinality(Rows)
          /\ \A r \in Stored : file[r].code <= m
          /\ \A k \in 1 .. m : \E s \in Stored : file[s].code = k
      BY <1>3, <1>5, NextCode
    <3>2. code = m + 1 /\ \A r \in Stored : file[r].code \in Nat
      BY <2>1, <3>1, <1>5, RowParts
    <3> HIDE DEF m, code
    <3> QED
      BY <3>1, <3>2
  <2>2. CASE p # None
    BY <1>3, <1>5, <2>2, RowParts
  <2> QED
    BY <2>1, <2>2
<1>7. p # None => code = file[p].code
  OBVIOUS
<1> HIDE DEF code
<1>8. /\ ver \in 1 .. Cardinality(Rows)
      /\ \A r \in Stored : file[r].code = code => file[r].ver < ver
      /\ \A k \in 1 .. ver - 1 : \E s \in Stored : file[s].code = code /\ file[s].ver = k
      /\ p = None => ver = 1
  <2> DEFINE m == Max({0} \cup {file[r].ver : r \in {s \in Stored : file[s].code = code}})
  <2>1. /\ m \in Nat /\ m + 1 \in 1 .. Cardinality(Rows)
        /\ \A r \in Stored : file[r].code = code => file[r].ver <= m
        /\ \A k \in 1 .. m : \E s \in Stored : file[s].code = code /\ file[s].ver = k
        /\ (\A r \in Stored : file[r].code # code) => m = 0
    <3>1. PICK n, b : n = m /\ b = code
      OBVIOUS
    <3>2. n = Max(Versions(b))
      BY <3>1 DEF Versions
    <3>3. /\ n \in Nat /\ n + 1 \in 1 .. Cardinality(Rows)
          /\ \A r \in Stored : file[r].code = b => file[r].ver <= n
          /\ \A k \in 1 .. n : \E s \in Stored : file[s].code = b /\ file[s].ver = k
          /\ (\A r \in Stored : file[r].code # b) => n = 0
      BY <1>3, <1>5, <3>2, NextVersion
    <3> HIDE DEF m
    <3> QED
      BY <3>1, <3>3
  <2>2. ver = m + 1 /\ \A r \in Stored : file[r].ver \in Nat /\ file[r].code \in Nat
    BY <2>1, <1>5, RowParts
  <2>3. p = None => \A r \in Stored : file[r].code # code
    BY <1>6, <2>2
  <2> HIDE DEF m, ver
  <2> QED
    BY <2>1, <2>2, <2>3
<1> HIDE DEF ver
<1>9. t \in Tx
  <2>1. code \in 0 .. Cardinality(Rows) /\ ver \in 0 .. Cardinality(Rows)
    BY <1>6, <1>8, RowsCount
  <2> QED
    BY <1>2, <2>1 DEF To, Tx
<1>10. /\ t.op = tx[c].op /\ t.at = "hash" /\ t.row = tx[c].row /\ t.parent = p
       /\ t.hash = tx[c].hash /\ t.locked = tx[c].locked /\ t.uploads = tx[c].uploads
       /\ t.ver = ver /\ t.code = code /\ t.status = tx[c].status
  BY <1>2 DEF To, Tx
<1> HIDE DEF t
<1>11. ver > 0 /\ code > 0 /\ code \in Nat /\ ver \in Nat
  BY <1>6, <1>8, RowsCount
<1>12. Fine(t)
  <2>1. MakerOK(t)
    BY <1>2, <1>3, <1>10, <1>11 DEF MakerOK, Maker
  <2>2. JudgeOK(t) /\ JobOK(t)
    BY <1>2, <1>10 DEF JudgeOK, JobOK, Maker, Judge
  <2>3. NumberOK(t)
    BY <1>3, <1>5, <1>6, <1>7, <1>8, <1>10 DEF NumberOK
  <2> QED
    BY <2>1, <2>2, <2>3 DEF Fine
<1>13. ASSUME NEW d \in Conns \ {c} PROVE Away(t, tx[d])
  <2>1. Away(tx[c], tx[d])
    BY Known
  <2>2. tx[d].ver > 0 => IF p = None THEN tx[d].parent # None
                         ELSE tx[d].parent = None \/ tx[d].code # file[p].code
    BY <1>1 DEF NumberFree
  <2> QED
    BY <1>3, <1>7, <1>10, <2>1, <2>2 DEF Away, Maker
<1> QED
  BY <1>1, <1>4, <1>9, <1>12, <1>13 DEF Moves

\* A step that changes no more than the stage, the lock and the count.
Same(t, u) ==
  /\ t.op = u.op /\ t.row = u.row /\ t.parent = u.parent /\ t.hash = u.hash
  /\ t.uploads = u.uploads /\ t.code = u.code /\ t.ver = u.ver /\ t.status = u.status
  /\ t.swept = u.swept

LEMMA SameAway ==
  ASSUME NEW t, NEW u, NEW w, Same(t, u), Away(u, w),
         t.locked = u.locked \/ ~(w.locked /\ w.hash = u.hash)
  PROVE  Away(t, w)
BY DEF Same, Away, Maker

LEMMA SameNumber ==
  ASSUME NEW t, NEW u, Same(t, u), NumberOK(u)
  PROVE  NumberOK(t)
BY DEF Same, NumberOK

LEMMA LockHashMoves ==
  ASSUME RInv, NEW c \in Conns, LockHash(c)
  PROVE  Moves(c)
<1> DEFINE t == [To(c, IF tx[c].ver > 0 THEN "write" ELSE "decide") EXCEPT !.locked = TRUE]
<1>1. tx[c].at = "hash" /\ HashFree(c) /\ UNCHANGED db /\ tx' = [tx EXCEPT ![c] = t]
  BY DEF LockHash, Step
<1>2. tx[c] \in Tx /\ Fine(tx[c])
  BY Known
<1>3. t \in Tx
  BY <1>2 DEF To, Tx
<1>4. /\ Same(t, tx[c]) /\ t.locked
      /\ t.at = IF tx[c].ver > 0 THEN "write" ELSE "decide"
  BY <1>2 DEF To, Tx, Same
<1> HIDE DEF t
<1>5. Fine(t)
  <2>1. MakerOK(t)
    BY <1>1, <1>2, <1>4 DEF Fine, MakerOK, Maker, Same
  <2>2. JudgeOK(t)
    BY <1>1, <1>2, <1>4 DEF Fine, JudgeOK, Judge, Taker, Same
  <2>3. JobOK(t)
    BY <1>1, <1>2, <1>4 DEF Fine, JobOK, Idle, Same
  <2> QED
    BY <1>2, <1>4, <2>1, <2>2, <2>3, SameNumber DEF Fine
<1>6. ASSUME NEW d \in Conns \ {c} PROVE Away(t, tx[d])
  <2>1. ~(tx[d].locked /\ tx[d].hash = tx[c].hash)
    BY <1>1 DEF HashFree
  <2> QED
    BY <1>4, <2>1, Known, SameAway
<1> QED
  BY <1>1, <1>3, <1>5, <1>6 DEF Moves

LEMMA WriteMoves ==
  ASSUME RInv, NEW c \in Conns, Write(c)
  PROVE  Moves(c)
<1> DEFINE n == Cardinality(LiveOf(tx[c].hash)) + 1
           t == [To(c, IF tx[c].op = "create" THEN "commit" ELSE "drop") EXCEPT !.refs = n]
<1>1. tx[c].at = "write" /\ UNCHANGED db /\ tx' = [tx EXCEPT ![c] = t]
  BY DEF Write, Step
<1>2. tx[c] \in Tx /\ Fine(tx[c])
  BY Known
<1>3. Maker(tx[c]) /\ tx[c].row \in Rows \ Stored
  BY <1>1, <1>2 DEF Fine, MakerOK, JudgeOK, JobOK, Maker, Judge, Idle, Tx
<1>4. n \in 0 .. Cardinality(Rows)
  <2>1. LiveOf(tx[c].hash) \in SUBSET Rows /\ tx[c].row \notin LiveOf(tx[c].hash)
    BY <1>3, LiveRows
  <2> QED
    BY <1>3, <2>1, Countable, RowsCount
<1> HIDE DEF n
<1>5. t \in Tx
  BY <1>2, <1>4 DEF To, Tx
<1>6. /\ Same(t, tx[c]) /\ t.locked = tx[c].locked /\ t.refs = n
      /\ t.at = IF tx[c].op = "create" THEN "commit" ELSE "drop"
  BY <1>2 DEF To, Tx, Same
<1> HIDE DEF t
<1>7. Fine(t)
  <2>1. MakerOK(t)
    BY <1>1, <1>2, <1>3, <1>6 DEF Fine, MakerOK, Maker, Same, n
  <2>2. JudgeOK(t) /\ JobOK(t)
    BY <1>3, <1>6 DEF JudgeOK, JobOK, Maker, Judge, Same
  <2> QED
    BY <1>2, <1>6, <2>1, <2>2, SameNumber DEF Fine
<1>8. ASSUME NEW d \in Conns \ {c} PROVE Away(t, tx[d])
  BY <1>6, Known, SameAway
<1> QED
  BY <1>1, <1>5, <1>7, <1>8 DEF Moves

LEMMA DropMoves ==
  ASSUME RInv, NEW c \in Conns, Drop(c)
  PROVE  Moves(c)
<1> DEFINE t == To(c, "commit")
<1>1. tx[c].at = "drop" /\ UNCHANGED db /\ tx' = [tx EXCEPT ![c] = t]
  BY DEF Drop, Step
<1>2. tx[c] \in Tx /\ Fine(tx[c])
  BY Known
<1>3. Maker(tx[c])
  BY <1>1, <1>2 DEF Fine, MakerOK, JudgeOK, JobOK, Maker, Judge, Idle, Tx
<1>4. t \in Tx
  BY <1>2 DEF To, Tx
<1>5. /\ Same(t, tx[c]) /\ t.locked = tx[c].locked /\ t.refs = tx[c].refs /\ t.at = "commit"
  BY <1>2 DEF To, Tx, Same
<1> HIDE DEF t
<1>6. Fine(t)
  <2>1. MakerOK(t)
    BY <1>1, <1>2, <1>3, <1>5 DEF Fine, MakerOK, Maker, Same
  <2>2. JudgeOK(t) /\ JobOK(t)
    BY <1>3, <1>5 DEF JudgeOK, JobOK, Maker, Judge, Same
  <2> QED
    BY <1>2, <1>5, <2>1, <2>2, SameNumber DEF Fine
<1>7. ASSUME NEW d \in Conns \ {c} PROVE Away(t, tx[d])
  BY <1>5, Known, SameAway
<1> QED
  BY <1>1, <1>4, <1>6, <1>7 DEF Moves

LEMMA ReviewMoves ==
  ASSUME RInv, NEW c \in Conns, NEW r \in Rows, NEW s \in Statuses,
         Review(c, r, s) \/ Delete(c, r)
  PROVE  Moves(c)
<1>1. PICK op \in {"review", "delete"}, st \in {"approved", "rejected", "deleted"} :
        /\ tx' = [tx EXCEPT ![c] = [Idle EXCEPT !.op = op, !.at = "hash", !.row = r,
                                                !.hash = file[r].hash, !.status = st]]
        /\ op = "review" => st # "deleted"
        /\ op = "delete" => st = "deleted"
  <2>1. CASE Review(c, r, s)
    <3>1. s \in {"approved", "rejected"}
          /\ tx' = [tx EXCEPT ![c] = [Idle EXCEPT !.op = "review", !.at = "hash", !.row = r,
                                                  !.hash = file[r].hash, !.status = s]]
      BY <2>1 DEF Review, Begin, Step
    <3> QED
      BY <3>1
  <2>2. CASE Delete(c, r)
    <3>1. tx' = [tx EXCEPT ![c] = [Idle EXCEPT !.op = "delete", !.at = "hash", !.row = r,
                                               !.hash = file[r].hash, !.status = "deleted"]]
      BY <2>2 DEF Delete, Begin, Step
    <3> QED
      BY <3>1
  <2> QED
    BY <2>1, <2>2
<1> DEFINE t == [Idle EXCEPT !.op = op, !.at = "hash", !.row = r,
                             !.hash = file[r].hash, !.status = st]
<1>2. r \in Stored /\ UNCHANGED db /\ file[r].hash \in Hashes
  BY RowParts DEF Review, Delete, RInv
<1>3. t \in Tx
  <2>1. st \in Statuses /\ Idle \in Tx
    BY IdleFine DEF Statuses
  <2> QED
    BY <1>2, <2>1 DEF Tx
<1>4. /\ t.op = op /\ t.at = "hash" /\ t.row = r /\ t.hash = file[r].hash /\ t.status = st
      /\ ~t.locked /\ t.ver = 0 /\ t.uploads = {}
  BY DEF Idle
<1> HIDE DEF t
<1>5. Fine(t)
  BY <1>1, <1>2, <1>4 DEF Fine, MakerOK, JudgeOK, JobOK, NumberOK, Maker, Judge, Taker
<1>6. ASSUME NEW d \in Conns \ {c} PROVE Away(t, tx[d])
  BY <1>4 DEF Away, Maker
<1> QED
  BY <1>1, <1>2, <1>3, <1>5, <1>6 DEF Moves, t

\* LetGo, once the row was looked at under the lock.
LEMMA LetGoMoves ==
  ASSUME RInv, NEW c \in Conns, LetGo(c), UNCHANGED db,
         Judge(tx[c]), tx[c].at = "decide", tx[c].status # "approved",
         tx[c].op = "review" => file[tx[c].row].status = "pending",
         tx[c].op = "delete" => file[tx[c].row].status # "deleted"
  PROVE  Moves(c)
<1> DEFINE n == Cardinality(Others(c))
           t == [To(c, IF Others(c) = {} THEN "wipe" ELSE "commit") EXCEPT !.refs = n]
<1>1. tx' = [tx EXCEPT ![c] = t]
  BY DEF LetGo, Step
<1>2. tx[c] \in Tx /\ Fine(tx[c])
  BY Known
<1>3. n \in 0 .. Cardinality(Rows)
  <2>1. Others(c) \in SUBSET Rows
    BY LiveRows DEF Others
  <2> QED
    BY <2>1, Countable, RowsCount
<1> HIDE DEF n
<1>4. t \in Tx
  BY <1>2, <1>3 DEF To, Tx
<1>5. /\ Same(t, tx[c]) /\ t.locked = tx[c].locked /\ t.refs = n /\ t.at \in {"wipe", "commit"}
  BY <1>2 DEF To, Tx, Same
<1> HIDE DEF t
<1>6. Fine(t)
  <2>1. MakerOK(t) /\ JobOK(t)
    BY <1>5 DEF MakerOK, JobOK, Maker, Judge, Same
  <2>2. JudgeOK(t)
    BY <1>2, <1>5 DEF Fine, JudgeOK, Judge, Taker, Same, n, Beside, Others
  <2> QED
    BY <1>2, <1>5, <2>1, <2>2, SameNumber DEF Fine
<1>7. ASSUME NEW d \in Conns \ {c} PROVE Away(t, tx[d])
  BY <1>5, Known, SameAway
<1> QED
  BY <1>1, <1>4, <1>6, <1>7 DEF Moves

\* The steps that only go on to the next stage.
LEMMA StageMoves ==
  ASSUME RInv, NEW c \in Conns, NEW stage, Step(c, To(c, stage)), UNCHANGED db,
         ~Maker(tx[c]), tx[c].op \notin {"idle", "cleanup"},
         Judge(tx[c]) => /\ stage = "commit" /\ tx[c].at \in {"decide", "wipe"}
                         /\ tx[c].at = "decide" =>
                              tx[c].status = "approved" /\ file[tx[c].row].status = "pending",
         tx[c].op = "archive" => tx[c].at \in {"decide", "purge"} /\ stage \in {"purge", "commit"},
         tx[c].op = "backup" => stage = "commit"
  PROVE  Moves(c)
<1> DEFINE t == To(c, stage)
<1>1. tx' = [tx EXCEPT ![c] = t]
  BY DEF Step
<1>2. tx[c] \in Tx /\ Fine(tx[c])
  BY Known
<1>3. stage \in {"purge", "commit"}
  BY <1>2 DEF Judge, Maker, Tx
<1>4. t \in Tx
  BY <1>2, <1>3 DEF To, Tx
<1>5. /\ Same(t, tx[c]) /\ t.locked = tx[c].locked /\ t.refs = tx[c].refs /\ t.at = stage
  BY <1>2 DEF To, Tx, Same
<1> HIDE DEF t
<1>6. Fine(t)
  <2>1. MakerOK(t)
    BY <1>5 DEF MakerOK, Maker, Same
  <2>2. JobOK(t)
    BY <1>2, <1>5 DEF Fine, JobOK, Same
  <2>3. JudgeOK(t)
    BY <1>2, <1>5 DEF Fine, JudgeOK, Judge, Taker, Same, Beside
  <2> QED
    BY <1>2, <1>5, <2>1, <2>2, <2>3, SameNumber DEF Fine
<1>7. ASSUME NEW d \in Conns \ {c} PROVE Away(t, tx[d])
  BY <1>5, Known, SameAway
<1> QED
  BY <1>1, <1>4, <1>6, <1>7 DEF Moves

LEMMA DecideMoves ==
  ASSUME RInv, NEW c \in Conns, DecideReview(c) \/ DecideDelete(c)
  PROVE  Moves(c)
<1>1. tx[c].at = "decide" /\ UNCHANGED db /\ Judge(tx[c])
  BY DEF DecideReview, DecideDelete, Judge
<1>2. tx[c] \in Tx /\ Fine(tx[c])
  BY Known
<1>3. CASE Rollback(c)
  BY <1>1, <1>3, RollbackMoves
<1>4. CASE DecideReview(c) /\ ~Rollback(c)
  <2>1. tx[c].op = "review" /\ file[tx[c].row].status = "pending"
    BY <1>4 DEF DecideReview
  <2>2. CASE tx[c].status = "rejected"
    <3>1. LetGo(c)
      BY <1>4, <2>1, <2>2 DEF DecideReview
    <3> QED
      BY <1>1, <2>1, <2>2, <3>1, LetGoMoves
  <2>3. CASE tx[c].status # "rejected"
    <3>1. Step(c, To(c, "commit"))
      BY <1>4, <2>1, <2>3 DEF DecideReview, Approve
    <3>2. tx[c].status = "approved"
      BY <1>2, <2>1, <2>3 DEF Fine, JudgeOK, Judge
    <3> QED
      BY <1>1, <2>1, <3>1, <3>2, StageMoves DEF Maker
  <2> QED
    BY <2>2, <2>3
<1>5. CASE DecideDelete(c) /\ ~Rollback(c)
  <2>1. tx[c].op = "delete" /\ file[tx[c].row].status # "deleted" /\ LetGo(c)
    BY <1>5 DEF DecideDelete
  <2>2. tx[c].status = "deleted"
    BY <1>2, <2>1 DEF Fine, JudgeOK, Judge
  <2> QED
    BY <1>1, <2>1, <2>2, LetGoMoves
<1> QED
  BY <1>3, <1>4, <1>5

LEMMA WipeMoves ==
  ASSUME RInv, NEW c \in Conns, Wipe(c)
  PROVE  Moves(c)
<1>1. tx[c].at = "wipe" /\ UNCHANGED db /\ Step(c, To(c, "commit"))
  BY DEF Wipe
<1>2. Judge(tx[c])
  BY <1>1, Known DEF Fine, MakerOK, JobOK, Maker, Judge, Idle, Tx
<1> QED
  BY <1>1, <1>2, StageMoves DEF Maker, Judge

LEMMA StartJobMoves ==
  ASSUME RInv, NEW c \in Conns, NEW h \in Hashes, Archive(c, h) \/ Backup(c, h)
  PROVE  Moves(c)
<1>1. PICK op \in {"archive", "backup"}, at \in {"hash", "copy"} :
        /\ tx' = [tx EXCEPT ![c] = [Idle EXCEPT !.op = op, !.at = at, !.hash = h]]
        /\ op = "archive" => at = "hash"
        /\ op = "backup" => at = "copy"
  <2>1. CASE Archive(c, h)
    <3>1. tx' = [tx EXCEPT ![c] = [Idle EXCEPT !.op = "archive", !.at = "hash", !.hash = h]]
      BY <2>1 DEF Archive, Begin, Step
    <3> QED
      BY <3>1
  <2>2. CASE Backup(c, h)
    <3>1. tx' = [tx EXCEPT ![c] = [Idle EXCEPT !.op = "backup", !.at = "copy", !.hash = h]]
      BY <2>2 DEF Backup, Begin, Step
    <3> QED
      BY <3>1
  <2> QED
    BY <2>1, <2>2
<1> DEFINE t == [Idle EXCEPT !.op = op, !.at = at, !.hash = h]
<1>2. UNCHANGED db
  BY DEF Archive, Backup
<1>3. t \in Tx
  BY IdleFine DEF Tx
<1>4. /\ t.op = op /\ t.at = at /\ t.row = None /\ t.hash = h /\ t.status = "pending"
      /\ ~t.locked /\ t.ver = 0 /\ t.uploads = {}
  BY DEF Idle
<1> HIDE DEF t
<1>5. Fine(t)
  BY <1>1, <1>4 DEF Fine, MakerOK, JudgeOK, JobOK, NumberOK, Maker, Judge
<1>6. ASSUME NEW d \in Conns \ {c} PROVE Away(t, tx[d])
  BY <1>1, <1>4 DEF Away, Maker
<1> QED
  BY <1>1, <1>2, <1>3, <1>5, <1>6 DEF Moves, t

LEMMA JobMoves ==
  ASSUME RInv, NEW c \in Conns, DecideArchive(c) \/ Purge(c) \/ Copy(c)
  PROVE  Moves(c)
<1>1. UNCHANGED db
  BY DEF DecideArchive, Purge, Copy
<1>2. tx[c] \in Tx /\ Fine(tx[c])
  BY Known
<1>3. CASE Rollback(c)
  BY <1>1, <1>3, RollbackMoves
<1>4. CASE DecideArchive(c) /\ ~Rollback(c)
  <2>1. tx[c].op = "archive" /\ tx[c].at = "decide" /\ Step(c, To(c, "purge"))
    BY <1>4 DEF DecideArchive
  <2> QED
    BY <1>1, <2>1, StageMoves DEF Maker, Judge
<1>5. CASE Purge(c)
  <2>1. tx[c].at = "purge" /\ Step(c, To(c, "commit"))
    BY <1>5 DEF Purge
  <2>2. tx[c].op = "archive"
    BY <1>2, <2>1 DEF Fine, MakerOK, JudgeOK, JobOK, Maker, Judge, Idle, Tx
  <2> QED
    BY <1>1, <2>1, <2>2, StageMoves DEF Maker, Judge
<1>6. CASE Copy(c) /\ ~Rollback(c)
  <2>1. tx[c].at = "copy" /\ Step(c, To(c, "commit"))
    BY <1>6 DEF Copy
  <2>2. tx[c].op = "backup"
    BY <1>2, <2>1 DEF Fine, MakerOK, JudgeOK, JobOK, Maker, Judge, Idle, Tx
  <2> QED
    BY <1>1, <2>1, <2>2, StageMoves DEF Maker, Judge
<1> QED
  BY <1>3, <1>4, <1>5, <1>6

LEMMA CleanupMoves ==
  ASSUME RInv, NEW c \in Conns, Cleanup(c)
  PROVE  Moves(c)
<1> DEFINE t == [Idle EXCEPT !.op = "cleanup", !.at = "sweep", !.uploads = Sweepable]
<1>1. tx' = [tx EXCEPT ![c] = t] /\ UNCHANGED db
  BY DEF Cleanup, Step
<1>2. Sweepable \in SUBSET Uploads
  BY DEF Sweepable, RInv, TypeOK
<1>3. t \in Tx
  BY <1>2, IdleFine DEF Tx
<1>4. /\ t.op = "cleanup" /\ t.at = "sweep" /\ t.row = None /\ t.status = "pending"
      /\ ~t.locked /\ t.ver = 0 /\ t.uploads = Sweepable /\ t.swept = {}
  BY DEF Idle
<1> HIDE DEF t
<1>5. Fine(t)
  BY <1>4 DEF Fine, MakerOK, JudgeOK, JobOK, NumberOK, Maker, Judge, Sweepable
<1>6. ASSUME NEW d \in Conns \ {c} PROVE Away(t, tx[d])
  BY <1>4 DEF Away, Maker, Sweepable, Held
<1> QED
  BY <1>1, <1>3, <1>5, <1>6 DEF Moves

LEMMA SweepMoves ==
  ASSUME RInv, NEW c \in Conns, NEW u \in Uploads, Sweep(c, u)
  PROVE  Moves(c)
<1>1. tx[c].at = "sweep" /\ u \in tx[c].uploads \ tx[c].swept /\ UNCHANGED db
  BY DEF Sweep
<1>2. tx[c] \in Tx /\ Fine(tx[c])
  BY Known
<1>3. tx[c].op = "cleanup"
  BY <1>1, <1>2 DEF Fine, MakerOK, JudgeOK, JobOK, Maker, Judge, Idle, Tx
<1>4. PICK ups, sw \in SUBSET tx[c].uploads :
        sw \subseteq ups /\ tx' = [tx EXCEPT ![c] = [tx[c] EXCEPT !.uploads = ups, !.swept = sw]]
  <2>0. tx[c].swept \subseteq tx[c].uploads
    BY <1>2, <1>3 DEF Fine, JobOK
  <2>1. CASE Step(c, [tx[c] EXCEPT !.swept = @ \cup {u}])
    <3>1. [tx[c] EXCEPT !.swept = @ \cup {u}]
            = [tx[c] EXCEPT !.uploads = tx[c].uploads, !.swept = tx[c].swept \cup {u}]
      BY <1>2 DEF Tx
    <3>2. tx[c].swept \cup {u} \in SUBSET tx[c].uploads
      BY <1>1, <2>0
    <3> QED
      BY <2>1, <3>1, <3>2 DEF Step
  <2>2. CASE Step(c, [tx[c] EXCEPT !.uploads = @ \ {u}])
    <3>1. [tx[c] EXCEPT !.uploads = @ \ {u}]
            = [tx[c] EXCEPT !.uploads = tx[c].uploads \ {u}, !.swept = tx[c].swept]
      BY <1>2 DEF Tx
    <3>2. tx[c].swept \in SUBSET (tx[c].uploads \ {u})
      BY <1>1, <2>0
    <3> QED
      BY <2>2, <3>1, <3>2 DEF Step
  <2> QED
    BY <2>1, <2>2 DEF Sweep
<1> DEFINE t == [tx[c] EXCEPT !.uploads = ups, !.swept = sw]
<1>5. t \in Tx
  BY <1>2, <1>4 DEF Tx
<1>6. /\ t.op = "cleanup" /\ t.at = "sweep" /\ t.row = tx[c].row /\ t.status = tx[c].status
      /\ t.locked = tx[c].locked /\ t.ver = tx[c].ver /\ t.uploads = ups /\ t.swept = sw
  BY <1>1, <1>2, <1>3 DEF Tx
<1> HIDE DEF t
<1>7. Fine(t) /\ t.ver = 0 /\ ~t.locked
  BY <1>2, <1>3, <1>4, <1>6 DEF Fine, MakerOK, JudgeOK, JobOK, NumberOK, Maker, Judge
<1>8. ASSUME NEW d \in Conns \ {c} PROVE Away(t, tx[d])
  <2>1. Away(tx[c], tx[d])
    BY Known
  <2> QED
    BY <1>4, <1>6, <1>7, <2>1 DEF Away, Maker
<1> QED
  BY <1>1, <1>4, <1>5, <1>7, <1>8 DEF Moves, t

-----------------------------------------------------------------------------
(* The steps that change the rows                                          *)

\* What the end of transaction u may change: it inserts its file, counts and
\* judges files of the content it has locked, and ends its upload sessions.
Kept(u) ==
  /\ \A r \in Stored :
       /\ r \in Stored'
       /\ file'[r].hash = file[r].hash /\ file'[r].code = file[r].code
       /\ file'[r].ver = file[r].ver /\ file'[r].from = file[r].from
       /\ ~u.locked \/ file[r].hash # u.hash => file'[r].status = file[r].status
  /\ \A r \in Stored' \ Stored :
       /\ Maker(u) /\ u.locked /\ u.ver > 0 /\ r = u.row
       /\ file'[r].hash = u.hash /\ file'[r].code = u.code /\ file'[r].ver = u.ver
  /\ \A s \in Uploads :
       \/ sess'[s] = sess[s]
       \/ s \in u.uploads /\ sess'[s] = "gone"
       \/ sess[s] = "none"

LEMMA LiveKept ==
  ASSUME NEW u, Kept(u), NEW h, ~u.locked \/ h # u.hash
  PROVE  LiveOf(h)' = LiveOf(h)
<1>1. ASSUME NEW r \in LiveOf(h) PROVE r \in LiveOf(h)'
  BY <1>1 DEF Kept, LiveOf
<1>2. ASSUME NEW r \in LiveOf(h)' PROVE r \in LiveOf(h)
  BY <1>2 DEF Kept, LiveOf
<1> QED
  BY <1>1, <1>2

\* The other transactions still know what they knew.
LEMMA OthersFine ==
  ASSUME TypeOK, NEW u \in Tx, NEW t \in Tx, Fine(u), Fine(t), Away(u, t), Kept(u)
  PROVE  Fine(t)'
<1>1. t.locked => LiveOf(t.hash)' = LiveOf(t.hash)
  BY LiveKept DEF Away
<1>2. MakerOK(t)'
  <2> SUFFICES ASSUME Maker(t) PROVE MakerOK(t)'
    BY DEF MakerOK
  <2>1. t.row \in Rows \ Stored'
    BY DEF Fine, MakerOK, Kept, Away
  <2>2. t.at # "read" => t.parent \in Stored' \cup {None}
    BY DEF Fine, MakerOK, Kept
  <2>3. t.op = "register" => \E s \in Uploads : t.uploads = {s} /\ sess'[s] = "open"
    <3> SUFFICES ASSUME t.op = "register" PROVE \E s \in Uploads : t.uploads = {s} /\ sess'[s] = "open"
      OBVIOUS
    <3>1. PICK s \in Uploads : t.uploads = {s} /\ sess[s] = "open"
      BY DEF Fine, MakerOK
    <3>2. s \notin u.uploads
      BY <3>1 DEF Away
    <3> QED
      BY <3>1, <3>2 DEF Kept
  <2>4. t.at \in {"drop", "commit"} => t.refs = Cardinality(LiveOf(t.hash)') + 1
    BY <1>1 DEF Fine, MakerOK
  <2> QED
    BY <2>1, <2>2, <2>3, <2>4 DEF Fine, MakerOK
<1>3. JudgeOK(t)'
  <2> SUFFICES ASSUME Judge(t) PROVE JudgeOK(t)'
    BY DEF JudgeOK
  <2>1. t.row \in Stored /\ t.hash = file[t.row].hash /\ (t.at \in {"wipe", "commit"} => t.locked)
    BY DEF Fine, JudgeOK
  <2>2. t.row \in Stored' /\ t.hash = file'[t.row].hash
    BY <2>1 DEF Kept
  <2>3. t.at \in {"wipe", "commit"} => file'[t.row].status = file[t.row].status
    BY <2>1 DEF Kept, Away
  <2>4. Taker(t) => t.refs = Cardinality(Beside(t)')
    BY <1>1, <2>1 DEF Fine, JudgeOK, Taker, Beside
  <2> QED
    BY <2>2, <2>3, <2>4 DEF Fine, JudgeOK
<1>4. JobOK(t)'
  <2>1. t.op = "cleanup" => \A s \in t.uploads : sess'[s] = "open"
    <3> SUFFICES ASSUME t.op = "cleanup", NEW s \in t.uploads PROVE sess'[s] = "open"
      OBVIOUS
    <3>1. s \in Uploads /\ sess[s] = "open" /\ s \notin u.uploads
      BY TxParts DEF Fine, JobOK, Away
    <3> QED
      BY <3>1 DEF Kept
  <2> QED
    BY <2>1 DEF Fine, JobOK
<1>5. NumberOK(t)'
  <2> SUFFICES ASSUME t.ver > 0 PROVE NumberOK(t)'
    BY DEF NumberOK
  <2>0. Maker(t)
    BY DEF Fine, JudgeOK, JobOK, Judge, Maker, Tx, Idle
  <2>1. ASSUME NEW r \in Stored' \ Stored
        PROVE  /\ u.ver > 0 /\ file'[r].code = u.code /\ file'[r].ver = u.ver
               /\ Maker(u) /\ NumberOK(u)
               /\ u.parent = None => t.parent # None
               /\ u.parent # None /\ t.parent # None => u.code # t.code
    BY <2>1 DEF Kept, Away, Fine
  <2>2. CASE t.parent = None
    <3>1. /\ t.ver = 1 /\ \A r \in Stored : file[r].code < t.code
          /\ \A k \in 1 .. t.code - 1 : \E s \in Stored : file[s].code = k
      BY <2>2 DEF Fine, NumberOK
    <3>2. ASSUME NEW r \in Stored' PROVE file'[r].code < t.code
      <4>1. CASE r \in Stored
        BY <3>1, <4>1 DEF Kept
      <4>2. CASE r \notin Stored
        <5>1. u.parent # None /\ u.parent \in Stored /\ u.code = file[u.parent].code
          BY <2>1, <2>2, <3>2, <4>2 DEF NumberOK
        <5> QED
          BY <2>1, <3>1, <3>2, <4>2, <5>1
      <4> QED
        BY <4>1, <4>2
    <3>3. \A k \in 1 .. t.code - 1 : \E s \in Stored' : file'[s].code = k
      BY <3>1 DEF Kept
    <3> QED
      BY <2>2, <3>1, <3>2, <3>3 DEF NumberOK
  <2>3. CASE t.parent # None
    <3>1. /\ t.parent \in Stored /\ t.code = file[t.parent].code
          /\ \A r \in Stored : file[r].code = t.code => file[r].ver < t.ver
          /\ \A k \in 1 .. t.ver - 1 : \E s \in Stored : file[s].code = t.code /\ file[s].ver = k
      BY <2>3 DEF Fine, NumberOK
    <3>2. t.parent \in Stored' /\ t.code = file'[t.parent].code
      BY <3>1 DEF Kept
    <3>3. ASSUME NEW r \in Stored', file'[r].code = t.code PROVE file'[r].ver < t.ver
      <4>1. CASE r \in Stored
        BY <3>1, <3>3, <4>1 DEF Kept
      <4>2. CASE r \notin Stored
        <5>1. u.parent = None /\ u.code = t.code
          BY <2>1, <2>3, <3>3, <4>2
        <5>2. file[t.parent].code < u.code
          BY <2>1, <3>1, <3>3, <4>2, <5>1 DEF NumberOK
        <5>3. file[t.parent].code \in Nat
          BY <3>1, RowParts
        <5> QED
          BY <3>1, <5>1, <5>2, <5>3
      <4> QED
        BY <4>1, <4>2
    <3>4. \A k \in 1 .. t.ver - 1 : \E s \in Stored' : file'[s].code = t.code /\ file'[s].ver = k
      BY <3>1 DEF Kept
    <3> QED
      BY <2>3, <3>2, <3>3, <3>4 DEF NumberOK
  <2> QED
    BY <2>2, <2>3
<1> QED
  BY <1>2, <1>3, <1>4, <1>5 DEF Fine

LEMMA ConnsKept ==
  ASSUME RInv, NEW c \in Conns, tx' = [tx EXCEPT ![c] = Idle], Kept(tx[c])
  PROVE  ConnsOK' /\ tx' \in [Conns -> Tx]
<1>1. tx \in [Conns -> Tx] /\ TypeOK
  BY DEF RInv, TypeOK
<1>2. tx' \in [Conns -> Tx] /\ tx'[c] = Idle /\ \A d \in Conns \ {c} : tx'[d] = tx[d]
  BY <1>1, IdleFine
<1>3. ASSUME NEW d \in Conns PROVE Fine(tx[d])'
  <2>1. CASE d = c
    <3>1. Fine(Idle)'
      BY DEF Fine, MakerOK, JudgeOK, JobOK, NumberOK, Maker, Judge, Idle
    <3> QED
      BY <1>2, <2>1, <3>1
  <2>2. CASE d # c
    <3>1. PICK t, u \in Tx : t = tx[d] /\ u = tx[c]
      BY <1>1
    <3>2. Fine(u) /\ Fine(t) /\ Away(u, t) /\ Kept(u)
      BY <2>2, <3>1, Known
    <3>3. Fine(t)'
      BY <1>1, <3>2, OthersFine
    <3> QED
      BY <1>2, <2>2, <3>1, <3>3
  <2> QED
    BY <2>1, <2>2
<1>4. ASSUME NEW d \in Conns, NEW e \in Conns, d # e PROVE Away(tx[d], tx[e])'
  <2>1. Away(tx[d], tx[e])
    BY <1>4 DEF RInv, ConnsOK
  <2>2. \A w : Away(Idle, w) /\ Away(w, Idle)
    BY DEF Away, Maker, Idle
  <2>3. Away(tx'[d], tx'[e])
    BY <1>2, <1>4, <2>1, <2>2
  <2> QED
    BY <2>3
<1> QED
  BY <1>2, <1>3, <1>4 DEF ConnsOK

LEMMA ConnsStay ==
  ASSUME RInv, tx' = tx, Kept(Idle)
  PROVE  ConnsOK'
<1>1. ASSUME NEW d \in Conns PROVE Fine(tx[d])'
  <2>1. PICK t \in Tx : t = tx[d]
    BY DEF RInv, TypeOK
  <2>2. Fine(t) /\ TypeOK
    BY <2>1 DEF RInv, ConnsOK
  <2>3. Fine(t)'
    BY <2>2, IdleFine, OthersFine
  <2> QED
    BY <2>1, <2>3
<1>2. ASSUME NEW d \in Conns, NEW e \in Conns, d # e PROVE Away(tx[d], tx[e])'
  <2>1. Away(tx[d], tx[e])
    BY <1>2 DEF RInv, ConnsOK
  <2> QED
    BY <2>1
<1> QED
  BY <1>1, <1>2 DEF ConnsOK

\* The numbers stay dense and distinct.
LEMMA NumbersKept ==
  ASSUME TypeOK, Dense, Numbered, NEW u \in Tx, Fine(u), Kept(u)
  PROVE  Dense' /\ Numbered'
<1>1. ASSUME NEW r \in Stored' \ Stored
      PROVE  /\ r = u.row /\ u.ver > 0 /\ file'[r].code = u.code /\ file'[r].ver = u.ver
             /\ NumberOK(u) /\ u.code \in Nat /\ u.ver \in Nat
  BY <1>1, TxParts, RowsCount DEF Kept, Fine
<1>2. ASSUME NEW r \in Stored
      PROVE  r \in Stored' /\ file'[r].code = file[r].code /\ file'[r].ver = file[r].ver
  BY <1>2 DEF Kept
<1>3. ASSUME NEW r \in Stored'
      PROVE  /\ \A k \in 1 .. file'[r].code : \E s \in Stored' : file'[s].code = k
             /\ \A k \in 1 .. file'[r].ver :
                  \E s \in Stored' : file'[s].code = file'[r].code /\ file'[s].ver = k
  <2>1. CASE r \in Stored
    <3>1. /\ \A k \in 1 .. file[r].code : \E s \in Stored : file[s].code = k
          /\ \A k \in 1 .. file[r].ver : \E s \in Stored : file[s].code = file[r].code /\ file[s].ver = k
      BY <2>1 DEF Dense
    <3> QED
      BY <1>2, <2>1, <3>1
  <2>2. CASE r \notin Stored /\ u.parent = None
    <3>1. /\ u.ver = 1 /\ \A k \in 1 .. u.code - 1 : \E s \in Stored : file[s].code = k
          /\ file'[r].code = u.code /\ file'[r].ver = u.ver /\ u.code \in Nat
      BY <1>1, <1>3, <2>2 DEF NumberOK
    <3>2. ASSUME NEW k \in 1 .. u.code PROVE \E s \in Stored' : file'[s].code = k
      <4>1. CASE k = u.code
        BY <1>3, <3>1, <4>1
      <4>2. CASE k # u.code
        <5>1. k \in 1 .. u.code - 1
          BY <3>1, <4>2
        <5> QED
          BY <1>2, <3>1, <5>1
      <4> QED
        BY <4>1, <4>2
    <3>3. ASSUME NEW k \in 1 .. u.ver
          PROVE  \E s \in Stored' : file'[s].code = u.code /\ file'[s].ver = k
      <4>1. k = u.ver
        BY <3>1
      <4> QED
        BY <1>3, <3>1, <4>1
    <3> QED
      BY <3>1, <3>2, <3>3
  <2>3. CASE r \notin Stored /\ u.parent # None
    <3>1. /\ u.parent \in Stored /\ u.code = file[u.parent].code
          /\ \A k \in 1 .. u.ver - 1 : \E s \in Stored : file[s].code = u.code /\ file[s].ver = k
          /\ file'[r].code = u.code /\ file'[r].ver = u.ver /\ u.ver \in Nat
      BY <1>1, <1>3, <2>3 DEF NumberOK
    <3>2. \A k \in 1 .. u.code : \E s \in Stored : file[s].code = k
      BY <3>1 DEF Dense
    <3>3. ASSUME NEW k \in 1 .. u.ver
          PROVE  \E s \in Stored' : file'[s].code = u.code /\ file'[s].ver = k
      <4>1. CASE k = u.ver
        BY <1>3, <3>1, <4>1
      <4>2. CASE k # u.ver
        <5>1. k \in 1 .. u.ver - 1
          BY <3>1, <4>2
        <5> QED
          BY <1>2, <3>1, <5>1
      <4> QED
        BY <4>1, <4>2
    <3> QED
      BY <1>2, <3>1, <3>2, <3>3
  <2> QED
    BY <2>1, <2>2, <2>3
<1>4. ASSUME NEW r \in Stored, NEW s \in Stored' \ Stored
      PROVE  file'[r].code # file'[s].code \/ file'[r].ver # file'[s].ver
  <2>1. file[r].code \in Nat /\ file[r].ver \in Nat
    BY RowParts
  <2> QED
    BY <1>1, <1>2, <2>1 DEF NumberOK
<1>5. ASSUME NEW r \in Stored', NEW s \in Stored', r # s
      PROVE  file'[r].code # file'[s].code \/ file'[r].ver # file'[s].ver
  BY <1>1, <1>2, <1>4, <1>5 DEF Numbered
<1> QED
  BY <1>3, <1>5 DEF Dense, Numbered

\* Every file still has its own session, which is gone.
LEMMA FromKept ==
  ASSUME TypeOK, FromGone, NEW u \in Tx, Kept(u),
         \A r \in Stored' \ Stored : file'[r].from # None =>
           \E s \in Uploads : file'[r].from = s /\ sess[s] = "open" /\ sess'[s] = "gone"
  PROVE  FromGone'
<1>1. ASSUME NEW r \in Stored
      PROVE  /\ r \in Stored' /\ file'[r].from = file[r].from
             /\ file[r].from # None => sess[file[r].from] = "gone" /\ sess'[file[r].from] = "gone"
  <2>1. file[r].from \in Uploads \cup {None} /\ r \in Stored' /\ file'[r].from = file[r].from
    BY RowParts DEF Kept
  <2> QED
    BY <2>1 DEF Kept, FromGone
<1>2. ASSUME NEW r \in Stored' \ Stored, file'[r].from # None
      PROVE  sess[file'[r].from] = "open" /\ sess'[file'[r].from] = "gone"
  BY <1>2
<1>3. \A r, s \in Stored' \ Stored : r = s
  BY DEF Kept
<1>4. ASSUME NEW r \in Stored', file'[r].from # None, NEW s \in Stored', r # s
      PROVE  file'[s].from # file'[r].from
  BY <1>1, <1>2, <1>3, <1>4 DEF FromGone
<1> QED
  BY <1>1, <1>2, <1>4 DEF FromGone

\* The counts of the other contents stay right.
LEMMA RefsKept ==
  ASSUME RefsExact, NEW u \in Tx, Kept(u),
         \A r \in Stored : ~u.locked \/ file[r].hash # u.hash => file'[r].refs = file[r].refs,
         u.locked => \A r \in Stored' : file'[r].hash = u.hash =>
                       file'[r].refs = Cardinality(LiveOf(u.hash)')
  PROVE  RefsExact'
<1> SUFFICES ASSUME NEW r \in Stored' PROVE file'[r].refs = Cardinality(LiveOf(file[r].hash)')
  BY DEF RefsExact
<1>1. PICK h : h = file'[r].hash
  OBVIOUS
<1>2. CASE u.locked /\ h = u.hash
  BY <1>1, <1>2
<1>3. CASE ~u.locked \/ h # u.hash
  <2>1. LiveOf(h)' = LiveOf(h)
    BY <1>3, LiveKept
  <2>2. r \in Stored /\ file[r].hash = h
    BY <1>1, <1>3 DEF Kept
  <2>3. file[r].refs = Cardinality(LiveOf(h))
    BY <2>2 DEF RefsExact
  <2> QED
    BY <1>1, <1>3, <2>1, <2>2, <2>3
<1> QED
  BY <1>2, <1>3

\* sync_ref_count on one row.
LEMMA CountedRow ==
  ASSUME TypeOK, NEW u \in Tx, NEW r \in Rows
  PROVE  /\ r \notin Stored => Counted(file[r], u) = None
         /\ r \in Stored =>
              /\ Counted(file[r], u) \in File
              /\ Counted(file[r], u).hash = file[r].hash /\ Counted(file[r], u).status = file[r].status
              /\ Counted(file[r], u).code = file[r].code /\ Counted(file[r], u).ver = file[r].ver
              /\ Counted(file[r], u).from = file[r].from
              /\ Counted(file[r], u).refs = IF file[r].hash = u.hash THEN u.refs ELSE file[r].refs
<1>1. r \notin Stored => file[r] = None
  BY DEF Stored
<1>2. r \in Stored => file[r] \in File /\ file[r] # None /\ u.refs \in 0 .. Cardinality(Rows)
  BY RowParts, TxParts DEF Stored
<1>3. ASSUME r \in Stored, file[r].hash = u.hash PROVE Counted(file[r], u) = [file[r] EXCEPT !.refs = u.refs]
  BY <1>2, <1>3 DEF Counted
<1>4. ASSUME r \in Stored, file[r].hash # u.hash PROVE Counted(file[r], u) = file[r]
  BY <1>4 DEF Counted
<1>5. ASSUME r \in Stored, file[r].hash = u.hash
      PROVE  /\ [file[r] EXCEPT !.refs = u.refs] \in File
             /\ LET f == [file[r] EXCEPT !.refs = u.refs] IN
                f.hash = file[r].hash /\ f.status = file[r].status /\ f.code = file[r].code
                  /\ f.ver = file[r].ver /\ f.from = file[r].from /\ f.refs = u.refs
  BY <1>2, <1>5 DEF File
<1> QED
  BY <1>1, <1>2, <1>3, <1>4, <1>5 DEF Counted

\* The sessions a transaction holds are open, and gone once it commits.
LEMMA SessionsEnd ==
  ASSUME RInv, NEW c \in Conns, Commit(c)
  PROVE  /\ sess' \in [Uploads -> {"none", "open", "gone"}]
         /\ \A s \in Uploads : sess'[s] = IF s \in tx[c].uploads THEN "gone" ELSE sess[s]
BY DEF Commit, RInv, TypeOK

\* A commit is one of these.
LEMMA CommitKinds ==
  ASSUME RInv, NEW c \in Conns, Commit(c)
  PROVE  \/ /\ Maker(tx[c]) /\ tx[c].at = "commit"
            /\ file' = [r \in Rows |-> IF r = tx[c].row THEN NewFile(tx[c]) ELSE Counted(file[r], tx[c])]
         \/ /\ Taker(tx[c]) /\ tx[c].at = "commit" /\ tx[c].status \in {"rejected", "deleted"}
            /\ file' = [r \in Rows |-> IF r = tx[c].row
                                         THEN [Counted(file[r], tx[c]) EXCEPT !.status = tx[c].status]
                                         ELSE Counted(file[r], tx[c])]
         \/ /\ tx[c].op = "review" /\ tx[c].status = "approved" /\ tx[c].at = "commit"
            /\ file' = [file EXCEPT ![tx[c].row].status = "approved", ![tx[c].row].backed = TRUE]
         \/ /\ tx[c].op = "archive" /\ tx[c].at = "commit"
            /\ file' = [r \in Rows |-> IF r \in LiveOf(tx[c].hash) THEN [file[r] EXCEPT !.archived = TRUE]
                                                                 ELSE file[r]]
         \/ /\ tx[c].op = "backup" /\ tx[c].at = "commit"
            /\ file' = [r \in Rows |-> IF r \in LiveOf(tx[c].hash) /\ file[r].status = "approved"
                                         THEN [file[r] EXCEPT !.backed = TRUE] ELSE file[r]]
         \/ tx[c].op = "cleanup" /\ file' = file
<1>1. PICK u \in Tx : u = tx[c]
  BY Known
<1>2. Fine(u) /\ file' = Committed(u) /\ u.at \in {"commit", "sweep"}
  BY <1>1, Known DEF Commit
<1>3. u.op \in {"create", "register", "review", "delete", "archive", "backup", "cleanup"}
  BY <1>2 DEF Fine, JobOK, Idle, Tx
<1>4. CASE Maker(u)
  <2>1. u.at = "commit" /\ u.status = "pending"
    BY <1>2, <1>4 DEF Fine, MakerOK
  <2>2. Committed(u) = [r \in Rows |-> IF r = u.row THEN NewFile(u) ELSE Counted(file[r], u)]
    BY <1>4, <2>1 DEF Committed, Maker
  <2> QED
    BY <1>1, <1>2, <1>4, <2>1, <2>2
<1>5. CASE Judge(u)
  <2>1. u.at = "commit" /\ (u.status \in {"rejected", "deleted"} \/ (u.op = "review" /\ u.status = "approved"))
    BY <1>2, <1>5 DEF Fine, JudgeOK, Judge
  <2>2. CASE u.status \in {"rejected", "deleted"}
    <3>1. Committed(u) = [r \in Rows |-> IF r = u.row
                                           THEN [Counted(file[r], u) EXCEPT !.status = u.status]
                                           ELSE Counted(file[r], u)]
      BY <1>5, <2>2 DEF Committed, Judge
    <3> QED
      BY <1>1, <1>2, <1>5, <2>1, <2>2, <3>1 DEF Taker
  <2>3. CASE u.op = "review" /\ u.status = "approved"
    <3>1. Committed(u) = [file EXCEPT ![u.row].status = "approved", ![u.row].backed = TRUE]
      BY <2>3 DEF Committed
    <3> QED
      BY <1>1, <1>2, <2>1, <2>3, <3>1
  <2> QED
    BY <2>1, <2>2, <2>3
<1>6. CASE u.op \in {"archive", "backup", "cleanup"}
  <2>1. u.status = "pending" /\ (u.op # "cleanup" => u.at = "commit")
    BY <1>2, <1>6 DEF Fine, JobOK
  <2>2. CASE u.op = "archive"
    <3>1. Committed(u) = [r \in Rows |-> IF r \in LiveOf(u.hash) THEN [file[r] EXCEPT !.archived = TRUE]
                                                               ELSE file[r]]
      BY <2>1, <2>2 DEF Committed
    <3> QED
      BY <1>1, <1>2, <2>1, <2>2, <3>1
  <2>3. CASE u.op = "backup"
    <3>1. Committed(u) = [r \in Rows |-> IF r \in LiveOf(u.hash) /\ file[r].status = "approved"
                                           THEN [file[r] EXCEPT !.backed = TRUE] ELSE file[r]]
      BY <2>1, <2>3 DEF Committed
    <3> QED
      BY <1>1, <1>2, <2>1, <2>3, <3>1
  <2>4. CASE u.op = "cleanup"
    <3>1. Committed(u) = file
      BY <2>1, <2>4 DEF Committed
    <3> QED
      BY <1>1, <1>2, <2>4, <3>1
  <2> QED
    BY <1>6, <2>2, <2>3, <2>4
<1> QED
  BY <1>3, <1>4, <1>5, <1>6 DEF Maker, Judge

\* A new file, after create_file or _register_from_upload.
LEMMA MakerCommit ==
  ASSUME RInv, NEW c \in Conns, Commit(c), Maker(tx[c]), tx[c].at = "commit",
         file' = [r \in Rows |-> IF r = tx[c].row THEN NewFile(tx[c]) ELSE Counted(file[r], tx[c])]
  PROVE  /\ file' \in [Rows -> File \cup {None}] /\ Kept(tx[c]) /\ RowsOK'
         /\ \E r \in Stored' : file'[r].hash = tx[c].hash /\ file'[r].status = "pending"
<1>1. PICK u \in Tx : u = tx[c]
  BY Known
<1>2. /\ Fine(u) /\ TypeOK /\ RefsExact /\ Dense /\ Numbered /\ FromGone
  BY <1>1, Known DEF RInv, RowsOK
<1>3. /\ u.row \in Rows \ Stored /\ u.hash \in Hashes /\ u.ver > 0 /\ u.code > 0 /\ u.locked
      /\ u.refs = Cardinality(LiveOf(u.hash)) + 1
      /\ u.op = "create" => u.uploads = {}
      /\ u.op = "register" => \E s \in Uploads : u.uploads = {s} /\ sess[s] = "open"
  BY <1>1, <1>2 DEF Fine, MakerOK
<1>4. PICK from \in Uploads \cup {None} :
        /\ from = IF u.op = "create" THEN None ELSE CHOOSE s \in Uploads : s \in u.uploads
        /\ from # None => \E s \in Uploads : u.uploads = {s} /\ sess[s] = "open" /\ from = s
  <2>1. CASE u.op = "create"
    BY <2>1
  <2>2. CASE u.op # "create"
    <3>1. PICK s \in Uploads : u.uploads = {s} /\ sess[s] = "open"
      BY <1>1, <1>3, <2>2 DEF Maker
    <3>2. (CHOOSE x \in Uploads : x \in u.uploads) = s
      BY <3>1
    <3> QED
      BY <2>2, <3>1, <3>2
  <2> QED
    BY <2>1, <2>2
<1>5. PICK new : new = NewFile(u)
  OBVIOUS
<1>6. /\ new \in File /\ new.hash = u.hash /\ new.status = "pending" /\ new.code = u.code
      /\ new.ver = u.ver /\ new.refs = u.refs /\ new.from = from
  <2>1. u.code \in 1 .. Cardinality(Rows) /\ u.ver \in 1 .. Cardinality(Rows) /\ u.refs \in 0 .. Cardinality(Rows)
    BY <1>3, TxParts, RowsCount
  <2>2. new = [hash |-> u.hash, status |-> "pending", code |-> u.code, ver |-> u.ver,
               refs |-> u.refs, archived |-> FALSE, backed |-> FALSE, cold |-> FALSE, from |-> from]
    BY <1>4, <1>5 DEF NewFile
  <2> QED
    BY <1>3, <2>1, <2>2 DEF File, Statuses
<1>7. new # None
  BY <1>6, LibraryAssumption
<1>8. ASSUME NEW r \in Rows
      PROVE  /\ file'[r] = IF r = u.row THEN new ELSE Counted(file[r], u)
             /\ file'[r] \in File \cup {None}
  BY <1>1, <1>2, <1>5, <1>6, CountedRow
<1>9. file' \in [Rows -> File \cup {None}]
  <2>1. file' = [r \in Rows |-> file'[r]]
    OBVIOUS
  <2> QED
    BY <1>8, <2>1
<1>10. ASSUME NEW r \in Stored
       PROVE  /\ r \in Stored' /\ r \in Rows /\ r # u.row
              /\ file'[r].hash = file[r].hash /\ file'[r].code = file[r].code
              /\ file'[r].ver = file[r].ver /\ file'[r].from = file[r].from
              /\ file'[r].status = file[r].status
              /\ file'[r].refs = IF file[r].hash = u.hash THEN u.refs ELSE file[r].refs
  <2>1. r \in Rows /\ r # u.row
    BY <1>3 DEF Stored
  <2>2. file'[r] = Counted(file[r], u) /\ Counted(file[r], u) \in File
    BY <1>2, <1>8, <2>1, CountedRow
  <2>3. file'[r] # None
    BY <2>2, LibraryAssumption
  <2> QED
    BY <1>2, <2>1, <2>2, <2>3, CountedRow DEF Stored
<1>11. Stored' = Stored \cup {u.row} /\ file'[u.row] = new
  <2>1. ASSUME NEW r \in Rows \ Stored, r # u.row PROVE file'[r] = None
    BY <1>2, <1>8, <2>1, CountedRow
  <2> QED
    BY <1>3, <1>7, <1>8, <1>10, <2>1 DEF Stored
<1>12. Kept(u)
  BY <1>1, <1>3, <1>6, <1>10, <1>11, SessionsEnd DEF Kept
<1>13. Dense' /\ Numbered'
  BY <1>2, <1>12, NumbersKept
<1>14. FromGone'
  <2>1. ASSUME NEW r \in Stored' \ Stored, file'[r].from # None
        PROVE  \E s \in Uploads : file'[r].from = s /\ sess[s] = "open" /\ sess'[s] = "gone"
    <3>1. r = u.row /\ file'[r].from = from
      BY <1>6, <1>11, <2>1
    <3>2. PICK s \in Uploads : u.uploads = {s} /\ sess[s] = "open" /\ from = s
      BY <1>4, <2>1, <3>1
    <3>3. sess'[s] = "gone"
      BY <1>1, <3>2, SessionsEnd
    <3> QED
      BY <3>1, <3>2, <3>3
  <2> QED
    BY <1>2, <1>12, <2>1, FromKept
<1>15. RefsExact'
  <2>1. LiveOf(u.hash)' = LiveOf(u.hash) \cup {u.row} /\ u.row \notin LiveOf(u.hash)
    <3>1. ASSUME NEW r \in LiveOf(u.hash) PROVE r \in LiveOf(u.hash)' /\ r # u.row
      BY <1>10, <3>1 DEF LiveOf
    <3>2. u.row \in LiveOf(u.hash)'
      BY <1>6, <1>11 DEF LiveOf, Live
    <3>3. ASSUME NEW r \in LiveOf(u.hash)', r # u.row PROVE r \in LiveOf(u.hash)
      BY <1>10, <1>11, <3>3 DEF LiveOf
    <3> QED
      BY <3>1, <3>2, <3>3
  <2>2. Cardinality(LiveOf(u.hash)') = u.refs
    <3>1. PICK L : L = LiveOf(u.hash)
      OBVIOUS
    <3>2. IsFiniteSet(L)
      BY <3>1, LiveRows, Countable
    <3>3. Cardinality(L \cup {u.row}) = IF u.row \in L THEN Cardinality(L) ELSE Cardinality(L) + 1
      BY <3>2, FS_AddElement
    <3> QED
      BY <1>3, <2>1, <3>1, <3>3
  <2>3. \A r \in Stored' : file'[r].hash = u.hash => file'[r].refs = Cardinality(LiveOf(u.hash)')
    BY <1>6, <1>10, <1>11, <2>2
  <2>4. \A r \in Stored : ~u.locked \/ file[r].hash # u.hash => file'[r].refs = file[r].refs
    BY <1>3, <1>10
  <2> QED
    BY <1>2, <1>12, <2>3, <2>4, RefsKept
<1>16. u.row \in Stored' /\ file'[u.row].hash = u.hash /\ file'[u.row].status = "pending"
  BY <1>6, <1>11
<1> QED
  BY <1>1, <1>9, <1>12, <1>13, <1>14, <1>15, <1>16 DEF RowsOK

\* The rows after a file was rejected or deleted.
Taken(u) ==
  /\ Stored' = Stored
  /\ \A r \in Stored :
       /\ file'[r].hash = file[r].hash /\ file'[r].code = file[r].code
       /\ file'[r].ver = file[r].ver /\ file'[r].from = file[r].from
       /\ r = u.row => file'[r].status = u.status
       /\ r # u.row => file'[r].status = file[r].status
       /\ file[r].hash = u.hash => file'[r].refs = u.refs
       /\ file[r].hash # u.hash => file'[r].refs = file[r].refs

LEMMA TakenRows ==
  ASSUME TypeOK, NEW u \in Tx, u.row \in Stored,
         file' = [r \in Rows |-> IF r = u.row THEN [Counted(file[r], u) EXCEPT !.status = u.status]
                                              ELSE Counted(file[r], u)]
  PROVE  file' \in [Rows -> File \cup {None}] /\ Taken(u)
<1>1. ASSUME NEW r \in Stored
      PROVE  /\ r \in Stored' /\ file'[r] \in File
             /\ file'[r].hash = file[r].hash /\ file'[r].code = file[r].code
             /\ file'[r].ver = file[r].ver /\ file'[r].from = file[r].from
             /\ file'[r].status = IF r = u.row THEN u.status ELSE file[r].status
             /\ file'[r].refs = IF file[r].hash = u.hash THEN u.refs ELSE file[r].refs
  <2>1. PICK f : f = Counted(file[r], u)
    OBVIOUS
  <2>2. /\ f \in File /\ r \in Rows
        /\ f.hash = file[r].hash /\ f.status = file[r].status
        /\ f.code = file[r].code /\ f.ver = file[r].ver
        /\ f.from = file[r].from
        /\ f.refs = IF file[r].hash = u.hash THEN u.refs ELSE file[r].refs
    <3>1. r \in Rows
      BY DEF Stored
    <3> QED
      BY <2>1, <3>1, CountedRow
  <2>3. file'[r] = IF r = u.row THEN [f EXCEPT !.status = u.status] ELSE f
    BY <2>1, <2>2
  <2>4. /\ file'[r] \in File
        /\ file'[r].hash = f.hash /\ file'[r].code = f.code
        /\ file'[r].ver = f.ver /\ file'[r].from = f.from
        /\ file'[r].status = IF r = u.row THEN u.status ELSE f.status
        /\ file'[r].refs = f.refs
    BY <2>2, <2>3, TxParts DEF File
  <2>5. r \in Stored'
    BY <2>2, <2>4, LibraryAssumption DEF Stored
  <2> QED
    BY <2>2, <2>4, <2>5
<1>2. ASSUME NEW r \in Rows \ Stored PROVE file'[r] = None
  <2>1. r # u.row
    OBVIOUS
  <2> QED
    BY <2>1, CountedRow
<1>3. Stored' = Stored
  <2>1. ASSUME NEW r \in Stored' PROVE r \in Rows /\ file'[r] # None
    BY <2>1 DEF Stored
  <2> QED
    BY <1>1, <1>2, <2>1
<1>4. file' \in [Rows -> File \cup {None}]
  <2>1. file' = [r \in Rows |-> file'[r]]
    OBVIOUS
  <2> QED
    BY <1>1, <1>2, <2>1
<1>5. ASSUME NEW r \in Stored
      PROVE  /\ file'[r].hash = file[r].hash /\ file'[r].code = file[r].code
             /\ file'[r].ver = file[r].ver /\ file'[r].from = file[r].from
             /\ r = u.row => file'[r].status = u.status
             /\ r # u.row => file'[r].status = file[r].status
             /\ file[r].hash = u.hash => file'[r].refs = u.refs
             /\ file[r].hash # u.hash => file'[r].refs = file[r].refs
  BY <1>1
<1> QED
  BY <1>3, <1>4, <1>5, Zenon DEF Taken

\* A file rejected or deleted.
LEMMA TakerCommit ==
  ASSUME RInv, NEW c \in Conns, Commit(c), Taker(tx[c]),
         tx[c].status \in {"rejected", "deleted"}, Taken(tx[c])
  PROVE  Kept(tx[c]) /\ RowsOK'
<1>1. PICK u \in Tx : u = tx[c]
  BY Known
<1>2. /\ Fine(u) /\ TypeOK /\ RefsExact /\ Dense /\ Numbered /\ FromGone
  BY <1>1, Known DEF RInv, RowsOK
<1>3. /\ u.row \in Stored /\ u.hash = file[u.row].hash /\ u.locked /\ u.uploads = {}
      /\ u.refs = Cardinality(Beside(u)) /\ u.status \notin Live
  <2>1. Taker(u) /\ JudgeOK(u) /\ u.status \in {"rejected", "deleted"}
    BY <1>1, <1>2 DEF Fine
  <2>2. u.status \notin Live
    BY <2>1 DEF Live
  <2> QED
    BY <2>1, <2>2 DEF JudgeOK, Taker
<1>4. Taken(u)
  BY <1>1
<1>5. Stored' = Stored
  BY <1>4 DEF Taken
<1>6. Kept(u)
  <2>1. \A s \in Uploads : sess'[s] = sess[s]
    BY <1>1, <1>3, SessionsEnd
  <2> QED
    BY <1>3, <1>4, <2>1 DEF Kept, Taken
<1>7. Dense' /\ Numbered'
  BY <1>2, <1>6, NumbersKept
<1>8. FromGone'
  BY <1>2, <1>5, <1>6, FromKept
<1>9. RefsExact'
  <2>1. LiveOf(u.hash)' = Beside(u)
    <3>1. ASSUME NEW r \in Beside(u) PROVE r \in LiveOf(u.hash)'
      BY <1>4, <3>1 DEF LiveOf, Beside, Taken
    <3>2. ASSUME NEW r \in LiveOf(u.hash)' PROVE r \in Beside(u)
      <4>1. r \in Stored /\ file'[r].hash = u.hash /\ file'[r].status \in Live
        BY <1>5, <3>2 DEF LiveOf
      <4> QED
        BY <1>3, <1>4, <4>1 DEF LiveOf, Beside, Taken
    <3> QED
      BY <3>1, <3>2
  <2>2. \A r \in Stored' : file'[r].hash = u.hash => file'[r].refs = Cardinality(LiveOf(u.hash)')
    BY <1>3, <1>4, <2>1 DEF Taken
  <2>3. \A r \in Stored : ~u.locked \/ file[r].hash # u.hash => file'[r].refs = file[r].refs
    BY <1>3, <1>4 DEF Taken
  <2> QED
    BY <1>2, <1>6, <2>2, <2>3, RefsKept
<1> QED
  BY <1>1, <1>6, <1>7, <1>8, <1>9 DEF RowsOK

\* The rows after a step that counts nothing: approval, the marks the jobs
\* and time leave, and the life of a session.
Touched(u) ==
  /\ Stored' = Stored
  /\ \A r \in Stored :
       /\ file'[r].hash = file[r].hash /\ file'[r].code = file[r].code
       /\ file'[r].ver = file[r].ver /\ file'[r].from = file[r].from
       /\ file'[r].refs = file[r].refs
       /\ file'[r].status \in Live <=> file[r].status \in Live
       /\ ~u.locked \/ file[r].hash # u.hash => file'[r].status = file[r].status
  /\ \A s \in Uploads :
       \/ sess'[s] = sess[s]
       \/ s \in u.uploads /\ sess'[s] = "gone"
       \/ sess[s] = "none"

LEMMA TouchedKept ==
  ASSUME RInv, NEW u \in Tx, Fine(u), Touched(u)
  PROVE  Kept(u) /\ RowsOK' /\ \A h : LiveOf(h)' = LiveOf(h)
<1>1. TypeOK /\ RefsExact /\ Dense /\ Numbered /\ FromGone
  BY DEF RInv, RowsOK
<1>2. Kept(u)
  BY DEF Touched, Kept
<1>3. Dense' /\ Numbered'
  BY <1>1, <1>2, NumbersKept
<1>4. Stored' = Stored
  BY DEF Touched
<1>5. FromGone'
  BY <1>1, <1>2, <1>4, FromKept
<1>6. ASSUME NEW h PROVE LiveOf(h)' = LiveOf(h)
  BY DEF Touched, LiveOf
<1>7. RefsExact'
  <2>1. ASSUME NEW r \in Stored', file'[r].hash = u.hash
        PROVE  file'[r].refs = Cardinality(LiveOf(u.hash)')
    <3>1. r \in Stored /\ file[r].hash = u.hash /\ file'[r].refs = file[r].refs
      BY <1>4, <2>1 DEF Touched
    <3> QED
      BY <1>1, <1>6, <3>1 DEF RefsExact
  <2>2. \A r \in Stored : file'[r].refs = file[r].refs
    BY DEF Touched
  <2> QED
    BY <1>1, <1>2, <2>1, <2>2, RefsKept
<1> QED
  BY <1>2, <1>3, <1>5, <1>6, <1>7 DEF RowsOK

LEMMA ApproveTouched ==
  ASSUME TypeOK, NEW u \in Tx, u.row \in Stored, u.locked, u.hash = file[u.row].hash,
         file[u.row].status = "pending", \A s \in Uploads : sess'[s] = sess[s],
         file' = [file EXCEPT ![u.row].status = "approved", ![u.row].backed = TRUE]
  PROVE  file' \in [Rows -> File \cup {None}] /\ Touched(u)
<1>1. PICK f : f = [file[u.row] EXCEPT !.status = "approved", !.backed = TRUE]
  OBVIOUS
<1>2. u.row \in Rows /\ file[u.row] \in File /\ file \in [Rows -> File \cup {None}]
  BY RowParts DEF TypeOK
<1>3. /\ f \in File /\ f.hash = file[u.row].hash /\ f.code = file[u.row].code
      /\ f.ver = file[u.row].ver /\ f.from = file[u.row].from /\ f.refs = file[u.row].refs
      /\ f.status = "approved"
  BY <1>1, <1>2 DEF File, Statuses
<1>4. f # None
  BY <1>3, LibraryAssumption
<1>5. file' = [file EXCEPT ![u.row] = f]
  BY <1>1, <1>2
<1>6. file' \in [Rows -> File \cup {None}] /\ Stored' = Stored
  <2>1. file' \in [Rows -> File \cup {None}]
    BY <1>2, <1>3, <1>5
  <2>2. \A r \in Rows : file'[r] = IF r = u.row THEN f ELSE file[r]
    BY <1>2, <1>5
  <2>3. ASSUME NEW r \in Stored PROVE r \in Stored'
    BY <1>4, <2>2, <2>3 DEF Stored
  <2>4. ASSUME NEW r \in Stored' PROVE r \in Stored
    BY <2>2, <2>4 DEF Stored
  <2> QED
    BY <2>1, <2>3, <2>4
<1>7. \A r \in Stored : r # u.row => file'[r] = file[r]
  BY <1>2, <1>5 DEF Stored
<1>8. file'[u.row] = f /\ f.status \in Live /\ file[u.row].status \in Live
  BY <1>2, <1>3, <1>5 DEF Live
<1>9. ASSUME NEW r \in Stored
      PROVE  /\ file'[r].hash = file[r].hash /\ file'[r].code = file[r].code
             /\ file'[r].ver = file[r].ver /\ file'[r].from = file[r].from
             /\ file'[r].refs = file[r].refs
             /\ file'[r].status \in Live <=> file[r].status \in Live
             /\ ~u.locked \/ file[r].hash # u.hash => file'[r].status = file[r].status
  <2>1. CASE r = u.row
    BY <1>3, <1>8, <2>1
  <2>2. CASE r # u.row
    BY <1>7, <2>2
  <2> QED
    BY <2>1, <2>2
<1> QED
  BY <1>6, <1>9, Zenon DEF Touched

\* A job or time marks some of the rows.
LEMMA MarkTouched ==
  ASSUME TypeOK, NEW u \in Tx, file' \in [Rows -> File \cup {None}],
         \A r \in Rows : \/ file'[r] = file[r]
                         \/ /\ r \in Stored
                            /\ \/ file'[r] = [file[r] EXCEPT !.archived = TRUE]
                               \/ file'[r] = [file[r] EXCEPT !.backed = TRUE]
                               \/ file'[r] = [file[r] EXCEPT !.cold = TRUE],
         \A s \in Uploads : \/ sess'[s] = sess[s]
                            \/ s \in u.uploads /\ sess'[s] = "gone"
                            \/ sess[s] = "none"
  PROVE  Touched(u)
<1>1. ASSUME NEW r \in Stored
      PROVE  /\ file'[r] \in File
             /\ file'[r].hash = file[r].hash /\ file'[r].code = file[r].code
             /\ file'[r].ver = file[r].ver /\ file'[r].from = file[r].from
             /\ file'[r].refs = file[r].refs /\ file'[r].status = file[r].status
  <2>1. r \in Rows /\ file[r] \in File
    BY RowParts
  <2>2. CASE file'[r] = file[r]
    BY <2>1, <2>2
  <2>3. CASE file'[r] = [file[r] EXCEPT !.archived = TRUE]
    BY <2>1, <2>3 DEF File
  <2>4. CASE file'[r] = [file[r] EXCEPT !.backed = TRUE]
    BY <2>1, <2>4 DEF File
  <2>5. CASE file'[r] = [file[r] EXCEPT !.cold = TRUE]
    BY <2>1, <2>5 DEF File
  <2> QED
    BY <2>1, <2>2, <2>3, <2>4, <2>5
<1>2. ASSUME NEW r \in Rows \ Stored PROVE file'[r] = None
  BY DEF Stored
<1>3. Stored' = Stored
  <2>1. ASSUME NEW r \in Stored PROVE r \in Stored'
    BY <1>1, <2>1, LibraryAssumption DEF Stored
  <2>2. ASSUME NEW r \in Stored' PROVE r \in Stored
    BY <1>2, <2>2 DEF Stored
  <2> QED
    BY <2>1, <2>2
<1> QED
  BY <1>1, <1>3 DEF Touched

LEMMA CommitKeeps ==
  ASSUME RInv, NEW c \in Conns, Commit(c)
  PROVE  /\ file' \in [Rows -> File \cup {None}] /\ sess' \in [Uploads -> {"none", "open", "gone"}]
         /\ RowsOK' /\ ConnsOK' /\ tx' \in [Conns -> Tx] /\ Kept(tx[c])
<1>1. PICK u \in Tx : u = tx[c]
  BY Known
<1>2. Fine(u) /\ TypeOK /\ tx' = [tx EXCEPT ![c] = Idle]
  BY <1>1, Known DEF RInv, Commit, Step
<1>3. \A s \in Uploads : sess'[s] = IF s \in u.uploads THEN "gone" ELSE sess[s]
  BY <1>1, SessionsEnd
<1>4. /\ file \in [Rows -> File \cup {None}]
      /\ \A r \in Stored : file[r] \in File /\ r \in Rows
  BY <1>2, RowParts DEF TypeOK
<1> SUFFICES file' \in [Rows -> File \cup {None}] /\ Kept(u) /\ RowsOK'
  BY <1>1, <1>2, ConnsKept, SessionsEnd
<1>5. CASE /\ Maker(u) /\ u.at = "commit"
           /\ file' = [r \in Rows |-> IF r = u.row THEN NewFile(u) ELSE Counted(file[r], u)]
  BY <1>1, <1>5, MakerCommit
<1>6. CASE /\ Taker(u) /\ u.status \in {"rejected", "deleted"}
           /\ file' = [r \in Rows |-> IF r = u.row THEN [Counted(file[r], u) EXCEPT !.status = u.status]
                                                   ELSE Counted(file[r], u)]
  <2>1. u.row \in Stored
    BY <1>2, <1>6 DEF Fine, JudgeOK, Taker
  <2>2. file' \in [Rows -> File \cup {None}] /\ Taken(u)
    BY <1>2, <1>6, <2>1, TakenRows
  <2> QED
    BY <1>1, <1>6, <2>2, TakerCommit
<1>7. CASE /\ u.op = "review" /\ u.status = "approved" /\ u.at = "commit"
           /\ file' = [file EXCEPT ![u.row].status = "approved", ![u.row].backed = TRUE]
  <2>1. /\ u.row \in Stored /\ u.locked /\ u.hash = file[u.row].hash
        /\ file[u.row].status = "pending" /\ u.uploads = {}
    BY <1>2, <1>7 DEF Fine, JudgeOK, Judge
  <2>2. \A s \in Uploads : sess'[s] = sess[s]
    BY <1>3, <2>1
  <2>3. file' \in [Rows -> File \cup {None}] /\ Touched(u)
    BY <1>2, <1>7, <2>1, <2>2, ApproveTouched
  <2> QED
    BY <1>2, <2>3, TouchedKept
<1>8. CASE file' = [r \in Rows |-> IF r \in LiveOf(u.hash) THEN [file[r] EXCEPT !.archived = TRUE] ELSE file[r]]
  <2>1. \A r \in Rows : \/ file'[r] = file[r]
                        \/ r \in Stored /\ file'[r] = [file[r] EXCEPT !.archived = TRUE]
    BY <1>8, LiveRows
  <2>2. \A r \in Stored : [file[r] EXCEPT !.archived = TRUE] \in File
    BY <1>4 DEF File
  <2>3. file' \in [Rows -> File \cup {None}]
    <3>1. \A r \in Rows : file'[r] \in File \cup {None}
      BY <1>4, <2>1, <2>2
    <3>2. file' = [r \in Rows |-> file'[r]]
      BY <1>8
    <3> QED
      BY <3>1, <3>2
  <2>4. Touched(u)
    BY <1>2, <1>3, <2>1, <2>3, MarkTouched
  <2> QED
    BY <1>2, <2>3, <2>4, TouchedKept
<1>9. CASE file' = [r \in Rows |-> IF r \in LiveOf(u.hash) /\ file[r].status = "approved"
                                     THEN [file[r] EXCEPT !.backed = TRUE] ELSE file[r]]
  <2>1. \A r \in Rows : \/ file'[r] = file[r]
                        \/ r \in Stored /\ file'[r] = [file[r] EXCEPT !.backed = TRUE]
    BY <1>9, LiveRows
  <2>2. \A r \in Stored : [file[r] EXCEPT !.backed = TRUE] \in File
    BY <1>4 DEF File
  <2>3. file' \in [Rows -> File \cup {None}]
    <3>1. \A r \in Rows : file'[r] \in File \cup {None}
      BY <1>4, <2>1, <2>2
    <3>2. file' = [r \in Rows |-> file'[r]]
      BY <1>9
    <3> QED
      BY <3>1, <3>2
  <2>4. Touched(u)
    BY <1>2, <1>3, <2>1, <2>3, MarkTouched
  <2> QED
    BY <1>2, <2>3, <2>4, TouchedKept
<1>10. CASE file' = file
  <2>1. file' \in [Rows -> File \cup {None}] /\ \A r \in Rows : file'[r] = file[r]
    BY <1>4, <1>10
  <2>2. Touched(u)
    BY <1>2, <1>3, <2>1, MarkTouched
  <2> QED
    BY <1>2, <2>1, <2>2, TouchedKept
<1> QED
  BY <1>1, <1>5, <1>6, <1>7, <1>8, <1>9, <1>10, CommitKinds

LEMMA CoolKeeps ==
  ASSUME RInv, NEW r \in Rows, Cool(r)
  PROVE  file' \in [Rows -> File \cup {None}] /\ RowsOK' /\ ConnsOK' /\ Touched(Idle)
<1>1. /\ file' = [file EXCEPT ![r].cold = TRUE] /\ sess' = sess /\ tx' = tx /\ r \in Stored
  BY DEF Cool
<1>2. TypeOK /\ file \in [Rows -> File \cup {None}] /\ file[r] \in File
  BY <1>1, RowParts DEF RInv, TypeOK
<1>3. [file[r] EXCEPT !.cold = TRUE] \in File
  BY <1>2 DEF File
<1>4. \A s \in Rows : file'[s] = IF s = r THEN [file[r] EXCEPT !.cold = TRUE] ELSE file[s]
  BY <1>1, <1>2
<1>5. file' \in [Rows -> File \cup {None}]
  BY <1>1, <1>2, <1>3
<1>6. Touched(Idle)
  BY <1>1, <1>2, <1>4, <1>5, IdleFine, MarkTouched
<1> QED
  BY <1>1, <1>5, <1>6, IdleFine, TouchedKept, ConnsStay

LEMMA UploadInitKeeps ==
  ASSUME RInv, NEW s \in Uploads, UploadInit(s)
  PROVE  sess' \in [Uploads -> {"none", "open", "gone"}] /\ RowsOK' /\ ConnsOK' /\ Touched(Idle)
<1>1. /\ sess[s] = "none" /\ sess' = [sess EXCEPT ![s] = "open"] /\ file' = file /\ tx' = tx
      /\ sess \in [Uploads -> {"none", "open", "gone"}]
  BY DEF UploadInit, RInv, TypeOK
<1>2. TypeOK /\ file' \in [Rows -> File \cup {None}] /\ \A r \in Rows : file'[r] = file[r]
  BY <1>1 DEF RInv, TypeOK
<1>3. sess' \in [Uploads -> {"none", "open", "gone"}]
  BY <1>1
<1>4. \A x \in Uploads : sess'[x] = sess[x] \/ sess[x] = "none"
  BY <1>1
<1>5. Touched(Idle)
  BY <1>2, <1>4, IdleFine, MarkTouched
<1> QED
  BY <1>1, <1>3, <1>5, IdleFine, TouchedKept, ConnsStay

-----------------------------------------------------------------------------
(* The invariant of the rows                                               *)

\* What connection c may do next, except to commit.
Works(c) ==
  \/ \E r \in Rows, h \in Hashes, p \in Parents : Create(c, r, h, p)
  \/ \E u \in Uploads, r \in Rows, p \in Parents : Register(c, u, r, p)
  \/ \E r \in Rows : Delete(c, r) \/ \E s \in Statuses : Review(c, r, s)
  \/ \E h \in Hashes : Archive(c, h) \/ Backup(c, h)
  \/ Cleanup(c) \/ Fail(c)
  \/ Read(c) \/ TakeNumber(c) \/ LockHash(c) \/ Write(c) \/ Drop(c)
  \/ DecideReview(c) \/ DecideDelete(c) \/ Wipe(c)
  \/ DecideArchive(c) \/ Purge(c) \/ Copy(c)
  \/ \E u \in Uploads : Sweep(c, u)

LEMMA NextKinds ==
  ASSUME Next
  PROVE  \/ \E c \in Conns : Works(c)
         \/ \E c \in Conns : Commit(c)
         \/ \E u \in Uploads :
              UploadInit(u) \/ Expire(u) \/ \E x \in Hashes \cup {TooBig} : Put(u, x)
         \/ \E r \in Rows : Cool(r)
BY DEF Next, Progress, Works

LEMMA WorksMoves ==
  ASSUME RInv, NEW c \in Conns, Works(c)
  PROVE  Moves(c)
<1>1. CASE \E r \in Rows : Delete(c, r) \/ \E s \in Statuses : Review(c, r, s)
  <2>1. "approved" \in Statuses
    BY DEF Statuses
  <2> QED
    BY <1>1, <2>1, ReviewMoves
<1>2. CASE Fail(c)
  BY <1>2, RollbackMoves DEF Fail
<1> QED
  BY <1>1, <1>2, CreateMoves, RegisterMoves, StartJobMoves, CleanupMoves, ReadMoves,
     TakeNumberMoves, LockHashMoves, WriteMoves, DropMoves, DecideMoves, WipeMoves, JobMoves,
     SweepMoves DEF Works

\* The types of what is not in the tables.
StoreType ==
  /\ old \subseteq Uploads
  /\ put \in [Uploads -> Hashes \cup {TooBig, None}]
  /\ up \in [Uploads -> Hashes \cup {TooBig, None}]
  /\ hot \subseteq Hashes /\ archive \subseteq Hashes /\ backup \subseteq Hashes
  /\ starts \in 0 .. MaxStarts /\ fails \in 0 .. MaxFails

LEMMA WorksStores ==
  ASSUME RInv, NEW c \in Conns, Works(c)
  PROVE  StoreType'
<1>1. StoreType
  BY DEF RInv, TypeOK, StoreType
<1>2. CASE UNCHANGED <<store, clock, fails>> /\ (starts' = starts \/ (starts < MaxStarts /\ starts' = starts + 1))
  BY <1>1, <1>2, LibraryAssumption DEF StoreType, store, clock
<1>3. CASE UNCHANGED <<store, clock, starts>> /\ fails < MaxFails /\ fails' = fails + 1
  BY <1>1, <1>3, LibraryAssumption DEF StoreType, store, clock
<1>4. CASE Read(c)
  BY <1>1, <1>4 DEF StoreType, Read, clock
<1>5. CASE Write(c)
  <2>1. tx[c].hash \in Hashes
    BY <1>5, Known DEF Fine, MakerOK, JudgeOK, JobOK, Maker, Judge, Idle, Tx, Write
  <2> QED
    BY <1>1, <1>5, <2>1 DEF StoreType, Write, clock
<1>6. CASE Drop(c) \/ Wipe(c) \/ Purge(c)
  BY <1>1, <1>6 DEF StoreType, Drop, Wipe, Purge, clock
<1>7. CASE DecideReview(c) \/ DecideDelete(c)
  BY <1>1, <1>7 DEF StoreType, DecideReview, DecideDelete, LetGo, Approve, clock
<1>8. CASE DecideArchive(c) \/ Copy(c)
  BY <1>1, <1>8 DEF StoreType, DecideArchive, Copy, clock
<1>9. ASSUME NEW u \in Uploads, Sweep(c, u) PROVE StoreType'
  BY <1>1, <1>9, LibraryAssumption DEF StoreType, Sweep, clock
<1>10. CASE TakeNumber(c) \/ LockHash(c) \/ Cleanup(c)
  BY <1>2, <1>10 DEF TakeNumber, LockHash, Cleanup
<1>11. CASE Fail(c)
  BY <1>3, <1>11 DEF Fail
<1>12. ASSUME NEW r \in Rows, NEW h \in Hashes, NEW p \in Parents, Create(c, r, h, p) PROVE StoreType'
  BY <1>2, <1>12 DEF Create, Begin
<1>13. ASSUME NEW u \in Uploads, NEW r \in Rows, NEW p \in Parents, Register(c, u, r, p) PROVE StoreType'
  BY <1>2, <1>13 DEF Register, Begin
<1>14. ASSUME NEW r \in Rows, NEW s, Delete(c, r) \/ Review(c, r, s) PROVE StoreType'
  BY <1>2, <1>14 DEF Delete, Review, Begin
<1>15. ASSUME NEW h \in Hashes, Archive(c, h) \/ Backup(c, h) PROVE StoreType'
  BY <1>2, <1>15 DEF Archive, Backup, Begin
<1> QED
  BY <1>4, <1>5, <1>6, <1>7, <1>8, <1>9, <1>10, <1>11, <1>12, <1>13, <1>14, <1>15 DEF Works

\* Init has at most one file, number 1, of one content.
LEMMA InitRInv == Init => RInv
<1> SUFFICES ASSUME Init PROVE RInv
  OBVIOUS
<1>1. \A c \in Conns : tx[c] = Idle
  BY DEF Init
<1>2. Idle \in Tx
  BY RowsCount DEF Idle, Tx, Parents, Statuses
<1>3. Fine(Idle) /\ \A u : Away(Idle, u)
  BY DEF Fine, MakerOK, JudgeOK, JobOK, NumberOK, Maker, Judge, Idle, Away
<1>4. ConnsOK
  BY <1>1, <1>3 DEF ConnsOK
<1>5. StoreType /\ sess \in [Uploads -> {"none", "open", "gone"}] /\ tx \in [Conns -> Tx]
  BY <1>2, LibraryAssumption DEF Init, StoreType
<1>6. CASE file = [r \in Rows |-> None]
  <2>1. Stored = {}
    BY <1>6 DEF Stored
  <2>2. RowsOK
    BY <2>1 DEF RowsOK, RefsExact, Dense, Numbered, FromGone
  <2>3. file \in [Rows -> File \cup {None}]
    BY <1>6
  <2> QED
    BY <1>4, <1>5, <2>2, <2>3 DEF RInv, TypeOK, StoreType
<1>7. ASSUME NEW h \in Hashes,
             file = [r \in Rows |-> IF r = CHOOSE x \in Rows : TRUE THEN Early(h) ELSE None]
      PROVE  RInv
  <2>1. PICK x \in Rows : x = CHOOSE y \in Rows : TRUE
    BY LibraryAssumption
  <2>2. 1 \in 1 .. Cardinality(Rows) /\ 1 \in 0 .. Cardinality(Rows)
    BY LibraryAssumption, RowsCount, FS_EmptySet
  <2>3. /\ Early(h) \in File /\ Early(h).hash = h /\ Early(h).code = 1 /\ Early(h).ver = 1
        /\ Early(h).refs = 1 /\ Early(h).from = None /\ Early(h).status = "approved"
    BY <2>2 DEF Early, File, Statuses
  <2>4. Early(h) # None
    BY <2>3, LibraryAssumption
  <2>5. \A r \in Rows : file[r] = IF r = x THEN Early(h) ELSE None
    BY <1>7, <2>1
  <2>6. Stored = {x} /\ file[x] = Early(h)
    BY <2>1, <2>4, <2>5 DEF Stored
  <2>7. file \in [Rows -> File \cup {None}]
    BY <1>7, <2>3
  <2>8. LiveOf(h) = {x}
    BY <2>3, <2>6 DEF LiveOf, Live
  <2>9. RefsExact
    BY <2>3, <2>6, <2>8, FS_Singleton DEF RefsExact
  <2>10. Dense /\ Numbered /\ FromGone
    BY <2>3, <2>6 DEF Dense, Numbered, FromGone
  <2> QED
    BY <1>4, <1>5, <2>7, <2>9, <2>10 DEF RInv, RowsOK, TypeOK, StoreType
<1> QED
  BY <1>6, <1>7 DEF Init

LEMMA TablesStay ==
  ASSUME RInv, UNCHANGED <<file, sess, tx>>
  PROVE  RowsOK' /\ ConnsOK'
<1>1. RowsOK'
  BY DEF RInv, RowsOK, RefsExact, Dense, Numbered, FromGone, Stored, LiveOf
<1>2. ASSUME NEW t, Fine(t) PROVE Fine(t)'
  BY <1>2 DEF Fine, MakerOK, JudgeOK, JobOK, NumberOK, Stored, LiveOf, Beside
<1>3. ASSUME NEW c \in Conns PROVE Fine(tx[c])'
  <2>1. PICK t : t = tx[c]
    OBVIOUS
  <2>2. Fine(t)
    BY <2>1 DEF RInv, ConnsOK
  <2> QED
    BY <1>2, <2>1, <2>2
<1>4. ASSUME NEW c \in Conns, NEW d \in Conns, c # d PROVE Away(tx[c], tx[d])'
  <2>1. Away(tx[c], tx[d])
    BY <1>4 DEF RInv, ConnsOK
  <2> QED
    BY <2>1
<1> QED
  BY <1>1, <1>3, <1>4 DEF ConnsOK

LEMMA StepRInv == RInv /\ [Next]_vars => RInv'
<1> SUFFICES ASSUME RInv, [Next]_vars PROVE RInv'
  OBVIOUS
<1>0. /\ StoreType /\ file \in [Rows -> File \cup {None}]
      /\ sess \in [Uploads -> {"none", "open", "gone"}] /\ tx \in [Conns -> Tx]
  BY DEF RInv, TypeOK, StoreType
<1>1. CASE UNCHANGED vars
  <2>1. file' = file /\ tx' = tx /\ sess' = sess
    BY <1>1 DEF vars
  <2>2. TypeOK'
    BY <1>1 DEF RInv, TypeOK, vars
  <2> QED
    BY <2>1, <2>2, TablesStay DEF RInv
<1>2. ASSUME NEW c \in Conns, Works(c) PROVE RInv'
  <2>1. Moves(c) /\ StoreType'
    BY <1>2, WorksMoves, WorksStores
  <2>2. RowsOK' /\ ConnsOK' /\ tx' \in [Conns -> Tx]
    BY <2>1, MovesKeeps
  <2>3. file' = file /\ sess' = sess
    BY <2>1 DEF Moves, db
  <2> QED
    BY <1>0, <2>1, <2>2, <2>3 DEF RInv, TypeOK, StoreType
<1>3. ASSUME NEW c \in Conns, Commit(c) PROVE RInv'
  <2>1. StoreType'
    BY <1>0, <1>3 DEF Commit, StoreType, store, clock
  <2> QED
    BY <1>3, <2>1, CommitKeeps DEF RInv, TypeOK, StoreType
<1>4. ASSUME NEW u \in Uploads, UploadInit(u) PROVE RInv'
  <2>1. StoreType' /\ file' = file /\ tx' = tx
    BY <1>0, <1>4, LibraryAssumption DEF UploadInit, StoreType, store, clock
  <2> QED
    BY <1>0, <1>4, <2>1, UploadInitKeeps DEF RInv, TypeOK, StoreType
<1>5. ASSUME NEW u \in Uploads, NEW x \in Hashes \cup {TooBig}, Expire(u) \/ Put(u, x) PROVE RInv'
  <2>1. StoreType' /\ file' = file /\ tx' = tx /\ sess' = sess
    BY <1>0, <1>5 DEF Expire, Put, StoreType, store, db
  <2>2. RowsOK' /\ ConnsOK'
    BY <2>1, TablesStay
  <2> QED
    BY <1>0, <2>1, <2>2 DEF RInv, TypeOK, StoreType
<1>6. ASSUME NEW r \in Rows, Cool(r) PROVE RInv'
  <2>1. StoreType' /\ sess' = sess /\ tx' = tx
    BY <1>0, <1>6 DEF Cool, StoreType, store, clock
  <2> QED
    BY <1>0, <1>6, <2>1, CoolKeeps DEF RInv, TypeOK, StoreType
<1>7. TooBig \in Hashes \cup {TooBig}
  OBVIOUS
<1> QED
  BY <1>1, <1>2, <1>3, <1>4, <1>5, <1>6, <1>7, NextKinds

LEMMA RowsInvariant == Spec => []RInv
BY InitRInv, StepRInv, PTL DEF Spec

-----------------------------------------------------------------------------
(* What every transaction knows about the contents                         *)

\* The object is there for the file to come; the last live file of a content
\* that goes takes it along; what was archived is approved.
Byte(t) ==
  /\ Maker(t) /\ t.at \in {"drop", "commit"} => t.hash \in hot
  /\ Judge(t) /\ t.at = "wipe" => Beside(t) = {}
  /\ Taker(t) /\ t.at = "commit" /\ Beside(t) = {} => t.hash \notin hot \cup archive
  /\ t.op = "archive" /\ t.at \in {"purge", "commit"} =>
       /\ t.hash \in archive /\ LiveOf(t.hash) # {}
       /\ \A r \in LiveOf(t.hash) : file[r].status = "approved"
  /\ t.op = "cleanup" => t.uploads \subseteq old

Bringing(c, h) == Maker(tx[c]) /\ tx[c].hash = h /\ tx[c].at \in {"drop", "commit"}

\* A stored content has a live file, or one that is about to be committed,
\* and a live file that is not about to go has its content.
Content(h) ==
  /\ h \in hot \cup archive => LiveOf(h) # {} \/ \E c \in Conns : Bringing(c, h)
  /\ \A r \in Stored : file[r].hash = h /\ ~Leaving(r) =>
       /\ file[r].status = "pending" => h \in hot
       /\ file[r].status = "approved" => h \in hot \cup archive

Committing(u) == \E c \in Conns : u \in tx[c].uploads /\ tx[c].at = "commit"

\* The uploaded object is there until its session is about to end.
UploadOK(u) ==
  /\ up[u] \in {put[u], None}
  /\ sess[u] = "none" => put[u] = None
  /\ sess[u] = "open" /\ u \notin old /\ put[u] \in Hashes /\ ~Committing(u) => up[u] = put[u]

CInv ==
  /\ \A h \in Hashes : Content(h)
  /\ \A c \in Conns : Byte(tx[c])
  /\ \A u \in Uploads : UploadOK(u)

\* Transaction u touches only the content it has locked.
Stores(u) ==
  /\ \A h \in Hashes : ~u.locked \/ h # u.hash =>
       (h \in hot' <=> h \in hot) /\ (h \in archive' <=> h \in archive)
  /\ old \subseteq old'

LEMMA OthersBytes ==
  ASSUME TypeOK, NEW u \in Tx, NEW t \in Tx, Fine(t), Away(u, t), Kept(u), Stores(u), Byte(t)
  PROVE  Byte(t)'
<1>1. ASSUME t.locked, t.hash \in Hashes
      PROVE  /\ LiveOf(t.hash)' = LiveOf(t.hash)
             /\ t.hash \in hot' <=> t.hash \in hot
             /\ t.hash \in archive' <=> t.hash \in archive
             /\ \A r \in LiveOf(t.hash) : file'[r].status = file[r].status
  <2>1. ~u.locked \/ t.hash # u.hash
    BY <1>1 DEF Away
  <2>2. LiveOf(t.hash)' = LiveOf(t.hash)
    BY <2>1, LiveKept
  <2>3. \A r \in LiveOf(t.hash) : file'[r].status = file[r].status
    BY <2>1 DEF Kept, LiveOf
  <2> QED
    BY <1>1, <2>1, <2>2, <2>3 DEF Stores
<1>2. Maker(t) /\ t.at \in {"drop", "commit"} => t.hash \in hot'
  BY <1>1 DEF Fine, MakerOK, Byte
<1>3. ASSUME Judge(t), t.at \in {"wipe", "commit"}
      PROVE  t.locked /\ t.hash \in Hashes /\ Beside(t)' = Beside(t)
  <2>1. t.locked /\ t.row \in Stored /\ t.hash = file[t.row].hash
    BY <1>3 DEF Fine, JudgeOK
  <2>2. t.hash \in Hashes
    BY <2>1, RowParts
  <2> QED
    BY <1>1, <2>1, <2>2 DEF Beside
<1>4. Judge(t) /\ t.at = "wipe" => Beside(t)' = {}
  BY <1>3 DEF Byte
<1>5. Taker(t) /\ t.at = "commit" /\ Beside(t)' = {} => t.hash \notin hot' \cup archive'
  BY <1>1, <1>3 DEF Byte, Taker
<1>6. ASSUME t.op = "archive", t.at \in {"purge", "commit"}
      PROVE  /\ t.hash \in archive' /\ LiveOf(t.hash)' # {}
             /\ \A r \in LiveOf(t.hash)' : file'[r].status = "approved"
  <2>1. t.locked /\ t.hash \in Hashes
    BY <1>6 DEF Fine, JobOK
  <2> QED
    BY <1>1, <1>6, <2>1 DEF Byte
<1>7. t.op = "cleanup" => t.uploads \subseteq old'
  BY DEF Byte, Stores
<1> QED
  BY <1>2, <1>4, <1>5, <1>6, <1>7 DEF Byte

\* A content that u has not locked stays as it is.
LEMMA OtherContent ==
  ASSUME RInv, NEW u \in Tx, Fine(u), Kept(u), Stores(u),
         \A d \in Conns : tx'[d] = tx[d] \/ tx[d] = u,
         NEW h \in Hashes, ~u.locked \/ h # u.hash, Content(h)
  PROVE  Content(h)'
<1>1. /\ LiveOf(h)' = LiveOf(h) /\ (h \in hot' <=> h \in hot) /\ (h \in archive' <=> h \in archive)
  BY LiveKept DEF Stores
<1>2. ASSUME NEW c \in Conns, Bringing(c, h) PROVE Bringing(c, h)'
  <2>1. tx[c] # u
    BY <1>2 DEF Bringing, Fine, MakerOK
  <2> QED
    BY <1>2, <2>1 DEF Bringing
<1>3. h \in hot' \cup archive' => LiveOf(h)' # {} \/ \E c \in Conns : Bringing(c, h)'
  BY <1>1, <1>2 DEF Content
<1>4. ASSUME NEW r \in Stored', file'[r].hash = h, ~Leaving(r)'
      PROVE  /\ file'[r].status = "pending" => h \in hot'
             /\ file'[r].status = "approved" => h \in hot' \cup archive'
  <2>1. r \in Stored /\ file[r].hash = h /\ file'[r].status = file[r].status
    BY <1>4 DEF Kept
  <2>2. ~Leaving(r)
    <3> SUFFICES ASSUME Leaving(r) PROVE FALSE
      OBVIOUS
    <3>1. PICK c \in Conns : tx[c].row = r /\ tx[c].at = "commit" /\ tx[c].status \in {"rejected", "deleted"}
      BY DEF Leaving
    <3>2. tx'[c] # tx[c]
      BY <1>4, <3>1 DEF Leaving
    <3>3. tx[c] = u /\ u.op # "idle"
      BY <3>1, <3>2 DEF Idle, Fine, JobOK
    <3>4. Judge(u)
      BY <3>1, <3>3 DEF Fine, MakerOK, JobOK, Maker, Judge, Tx
    <3>5. u.locked /\ u.hash = h
      BY <2>1, <3>1, <3>3, <3>4 DEF Fine, JudgeOK
    <3> QED
      BY <3>5
  <2> QED
    BY <1>1, <2>1, <2>2 DEF Content
<1> QED
  BY <1>3, <1>4 DEF Content

\* The contents and what is known of them, before the uploads.
Contents == (\A h \in Hashes : Content(h)) /\ (\A c \in Conns : Byte(tx[c]))

LEMMA ContentsKept ==
  ASSUME RInv, Contents, NEW c \in Conns, NEW t, tx' = [tx EXCEPT ![c] = t],
         NEW u, u = tx[c], Kept(u), Stores(u), Byte(t)',
         u.locked => Content(u.hash)'
  PROVE  Contents'
<1>1. u \in Tx /\ u = tx[c]
  BY Known
<1>2. TypeOK /\ tx \in [Conns -> Tx] /\ Fine(u)
  BY <1>1, Known DEF RInv, TypeOK
<1>3. tx'[c] = t /\ \A d \in Conns \ {c} : tx'[d] = tx[d]
  BY <1>2
<1>4. ASSUME NEW h \in Hashes PROVE Content(h)'
  <2>1. CASE u.locked /\ h = u.hash
    BY <1>1, <2>1
  <2>2. CASE ~u.locked \/ h # u.hash
    <3>1. \A d \in Conns : tx'[d] = tx[d] \/ tx[d] = u
      BY <1>1, <1>3
    <3>2. Content(h) /\ Kept(u) /\ Stores(u)
      BY <1>1 DEF Contents
    <3> QED
      BY <1>2, <2>2, <3>1, <3>2, OtherContent
  <2> QED
    BY <2>1, <2>2
<1>5. ASSUME NEW d \in Conns PROVE Byte(tx[d])'
  <2>1. CASE d = c
    BY <1>3, <2>1
  <2>2. CASE d # c
    <3>1. PICK w \in Tx : w = tx[d]
      BY <1>2
    <3>2. Fine(w) /\ Away(u, w) /\ Byte(w) /\ Kept(u) /\ Stores(u)
      BY <1>1, <2>2, <3>1, Known DEF Contents
    <3>3. Byte(w)'
      BY <1>2, <3>2, OthersBytes
    <3> QED
      BY <1>3, <2>2, <3>1, <3>3
  <2> QED
    BY <2>1, <2>2
<1> QED
  BY <1>4, <1>5 DEF Contents

\* A step that leaves the tables alone keeps them.
LEMMA KeptSame ==
  ASSUME NEW u, UNCHANGED db
  PROVE  Kept(u) /\ Stored' = Stored /\ \A h : LiveOf(h)' = LiveOf(h)
<1>1. file' = file /\ sess' = sess
  BY DEF db
<1> QED
  BY <1>1 DEF Kept, Stored, LiveOf

\* The content of a transaction that neither brings nor takes a file is not
\* touched when the transaction goes on or rolls back.
LEMMA SameContent ==
  ASSUME RInv, NEW c \in Conns, UNCHANGED <<file, hot, archive>>,
         \A d \in Conns \ {c} : tx'[d] = tx[d],
         NEW h, Content(h), ~Bringing(c, h) \/ Bringing(c, h)',
         ~ (tx[c].at = "commit" /\ tx[c].status \in {"rejected", "deleted"})
  PROVE  Content(h)'
<1>1. Stored' = Stored /\ LiveOf(h)' = LiveOf(h)
  BY DEF Stored, LiveOf
<1>2. ASSUME NEW d \in Conns, Bringing(d, h) PROVE Bringing(d, h)'
  BY <1>2 DEF Bringing
<1>3. ASSUME NEW r, Leaving(r) PROVE Leaving(r)'
  BY <1>3 DEF Leaving
<1> QED
  BY <1>1, <1>2, <1>3 DEF Content

LEMMA WriteContents ==
  ASSUME RInv, Contents, NEW c \in Conns, Write(c)
  PROVE  Contents'
<1>1. PICK t : tx' = [tx EXCEPT ![c] = t] /\
               t = [To(c, IF tx[c].op = "create" THEN "commit" ELSE "drop")
                      EXCEPT !.refs = Cardinality(LiveOf(tx[c].hash)) + 1]
  BY DEF Write, Step
<1>2. PICK u \in Tx : u = tx[c]
  BY Known
<1>3. Fine(u) /\ Maker(u) /\ u.at = "write" /\ u.locked /\ u.hash \in Hashes
  BY <1>2, Known DEF Write, Fine, MakerOK, JudgeOK, JobOK, Maker, Judge, Idle, Tx
<1>4. t.op = u.op /\ t.at \in {"commit", "drop"} /\ t.hash = u.hash
  BY <1>1, <1>2 DEF To, Tx
<1>5. hot' = hot \cup {u.hash} /\ archive' = archive /\ old' = old /\ UNCHANGED db
  BY <1>2 DEF Write, clock
<1>6. Kept(u) /\ Stores(u)
  BY <1>3, <1>5, KeptSame DEF Stores
<1>7. Byte(t)'
  BY <1>3, <1>4, <1>5 DEF Byte, Maker, Judge, Taker
<1>8. Content(u.hash)'
  <2>1. tx'[c] = t
    BY <1>1 DEF RInv, TypeOK
  <2>2. Bringing(c, u.hash)'
    BY <1>3, <1>4, <2>1 DEF Bringing, Maker
  <2> QED
    BY <1>5, <2>2 DEF Content
<1> QED
  BY <1>1, <1>2, <1>6, <1>7, <1>8, ContentsKept

LEMMA DropContents ==
  ASSUME RInv, Contents, NEW c \in Conns, Drop(c)
  PROVE  Contents'
<1>1. PICK t : tx' = [tx EXCEPT ![c] = t] /\ t = To(c, "commit")
  BY DEF Drop, Step
<1>2. PICK u \in Tx : u = tx[c]
  BY Known
<1>3. Fine(u) /\ Byte(u) /\ Maker(u) /\ u.at = "drop" /\ u.locked /\ u.hash \in Hashes
  BY <1>2, Known DEF Contents, Drop, Fine, MakerOK, JudgeOK, JobOK, Maker, Judge, Idle, Tx
<1>4. t.op = u.op /\ t.at = "commit" /\ t.hash = u.hash
  BY <1>1, <1>2 DEF To, Tx
<1>5. hot' = hot /\ archive' = archive /\ old' = old /\ UNCHANGED db /\ file' = file
  BY DEF Drop, clock, db
<1>6. Kept(u) /\ Stores(u)
  BY <1>5, KeptSame DEF Stores
<1>7. Byte(t)'
  BY <1>3, <1>4, <1>5 DEF Byte, Maker, Judge, Taker
<1>8. tx'[c] = t /\ \A d \in Conns \ {c} : tx'[d] = tx[d]
  BY <1>1 DEF RInv, TypeOK
<1>9. Bringing(c, u.hash)'
  BY <1>3, <1>4, <1>8 DEF Bringing, Maker
<1>10. Content(u.hash)'
  BY <1>2, <1>3, <1>5, <1>8, <1>9, SameContent DEF Contents
<1> QED
  BY <1>1, <1>2, <1>6, <1>7, <1>10, ContentsKept

\* A transaction that has nothing to bring or to take rolls back, or goes on.
LEMMA PlainContents ==
  ASSUME RInv, Contents, NEW c \in Conns, NEW t, tx' = [tx EXCEPT ![c] = t],
         UNCHANGED <<db, hot, archive>>, old \subseteq old', Byte(t)',
         tx[c].locked => ~Maker(tx[c]) \/ tx[c].at \notin {"drop", "commit"},
         ~Judge(tx[c]) \/ tx[c].at # "commit"
  PROVE  Contents'
<1>1. PICK u \in Tx : u = tx[c]
  BY Known
<1>2. Fine(u)
  BY <1>1, Known
<1>3. Kept(u) /\ Stores(u) /\ file' = file
  BY KeptSame DEF Stores, db
<1>4. \A d \in Conns \ {c} : tx'[d] = tx[d]
  BY DEF RInv, TypeOK
<1>5. ~ (u.at = "commit" /\ u.status \in {"rejected", "deleted"})
  BY <1>1, <1>2 DEF Fine, MakerOK, JobOK, Maker, Judge, Idle, Tx
<1>6. ASSUME u.locked PROVE Content(u.hash)'
  <2>1. u.hash \in Hashes
    <3>1. TypeOK
      BY DEF RInv
    <3> QED
      BY <1>2, <1>6, <3>1, RowParts DEF Fine, MakerOK, JudgeOK, JobOK, Maker, Judge, Idle, Tx
  <2>2. ~Bringing(c, u.hash)
    BY <1>1, <1>6 DEF Bringing
  <2> QED
    BY <1>1, <1>3, <1>4, <1>5, <2>1, <2>2, SameContent DEF Contents
<1> QED
  BY <1>1, <1>3, <1>6, ContentsKept

\* Nothing is known in the early stages.
LEMMA EarlyByte ==
  ASSUME NEW t, t.op # "cleanup", t.at \notin {"drop", "commit", "wipe", "purge"} \/ t.op = "backup"
  PROVE  Byte(t)'
BY DEF Byte, Maker, Judge, Taker

LEMMA IdleByte == Byte(Idle)'
BY EarlyByte DEF Idle

\* The steps of a transaction before it has decided anything.
LEMMA EarlyContents ==
  ASSUME RInv, Contents, NEW c \in Conns,
         \/ \E r \in Rows, h \in Hashes, p \in Parents : Create(c, r, h, p)
         \/ \E u \in Uploads, r \in Rows, p \in Parents : Register(c, u, r, p)
         \/ \E r \in Rows : Delete(c, r) \/ \E s \in Statuses : Review(c, r, s)
         \/ \E h \in Hashes : Archive(c, h) \/ Backup(c, h)
         \/ Read(c) \/ TakeNumber(c) \/ LockHash(c) \/ Copy(c)
  PROVE  Contents'
<1>1. tx[c] \in Tx /\ Fine(tx[c])
  BY Known
<1>2. /\ UNCHANGED <<db, hot, archive>> /\ old' = old
      /\ tx[c] = Idle \/ tx[c].at \in {"read", "number", "hash", "copy"}
  BY DEF Create, Register, Delete, Review, Archive, Backup, Begin, Read, TakeNumber, LockHash, Copy,
     clock, store
<1>3. \E t : tx' = [tx EXCEPT ![c] = t] /\ Byte(t)'
  <2>1. ASSUME NEW r \in Rows, NEW h \in Hashes, NEW p \in Parents, Create(c, r, h, p)
        PROVE  \E t : tx' = [tx EXCEPT ![c] = t] /\ Byte(t)'
    <3> DEFINE t == [Idle EXCEPT !.op = "create", !.at = "number", !.row = r, !.hash = h, !.parent = p]
    <3>1. t.op = "create" /\ t.at = "number" /\ tx' = [tx EXCEPT ![c] = t]
      BY <2>1 DEF Create, Begin, Step, Idle
    <3> HIDE DEF t
    <3> QED
      BY <3>1, EarlyByte
  <2>2. ASSUME NEW u \in Uploads, NEW r \in Rows, NEW p \in Parents, Register(c, u, r, p)
        PROVE  \E t : tx' = [tx EXCEPT ![c] = t] /\ Byte(t)'
    <3> DEFINE t == [Idle EXCEPT !.op = "register", !.at = "read", !.row = r,
                                 !.uploads = {u}, !.parent = p]
    <3>1. t.op = "register" /\ t.at = "read" /\ tx' = [tx EXCEPT ![c] = t]
      BY <2>2 DEF Register, Begin, Step, Idle
    <3> HIDE DEF t
    <3> QED
      BY <3>1, EarlyByte
  <2>3. ASSUME NEW r \in Rows, Delete(c, r)
        PROVE  \E t : tx' = [tx EXCEPT ![c] = t] /\ Byte(t)'
    <3> DEFINE t == [Idle EXCEPT !.op = "delete", !.at = "hash", !.row = r,
                                 !.hash = file[r].hash, !.status = "deleted"]
    <3>1. t.op = "delete" /\ t.at = "hash" /\ tx' = [tx EXCEPT ![c] = t]
      BY <2>3 DEF Delete, Begin, Step, Idle
    <3> HIDE DEF t
    <3> QED
      BY <3>1, EarlyByte
  <2>4. ASSUME NEW r \in Rows, NEW s \in Statuses, Review(c, r, s)
        PROVE  \E t : tx' = [tx EXCEPT ![c] = t] /\ Byte(t)'
    <3> DEFINE t == [Idle EXCEPT !.op = "review", !.at = "hash", !.row = r,
                                 !.hash = file[r].hash, !.status = s]
    <3>1. t.op = "review" /\ t.at = "hash" /\ tx' = [tx EXCEPT ![c] = t]
      BY <2>4 DEF Review, Begin, Step, Idle
    <3> HIDE DEF t
    <3> QED
      BY <3>1, EarlyByte
  <2>5. ASSUME NEW h \in Hashes, Archive(c, h)
        PROVE  \E t : tx' = [tx EXCEPT ![c] = t] /\ Byte(t)'
    <3> DEFINE t == [Idle EXCEPT !.op = "archive", !.at = "hash", !.hash = h]
    <3>1. t.op = "archive" /\ t.at = "hash" /\ tx' = [tx EXCEPT ![c] = t]
      BY <2>5 DEF Archive, Begin, Step, Idle
    <3> HIDE DEF t
    <3> QED
      BY <3>1, EarlyByte
  <2>6. ASSUME NEW h \in Hashes, Backup(c, h)
        PROVE  \E t : tx' = [tx EXCEPT ![c] = t] /\ Byte(t)'
    <3> DEFINE t == [Idle EXCEPT !.op = "backup", !.at = "copy", !.hash = h]
    <3>1. t.op = "backup" /\ t.at = "copy" /\ tx' = [tx EXCEPT ![c] = t]
      BY <2>6 DEF Backup, Begin, Step, Idle
    <3> HIDE DEF t
    <3> QED
      BY <3>1, EarlyByte
  <2>7. CASE Rollback(c)
    BY <2>7, IdleByte DEF Rollback, Step
  <2>8. CASE Read(c) /\ ~Rollback(c)
    <3> DEFINE t == [To(c, "number") EXCEPT !.hash = up[UploadOf(c)]]
    <3>1. tx' = [tx EXCEPT ![c] = t] /\ tx[c].at = "read"
      BY <2>8 DEF Read, Step
    <3>2. t.at = "number" /\ t.op # "cleanup"
      BY <1>1, <3>1 DEF To, Tx, Fine, JobOK
    <3> HIDE DEF t
    <3> QED
      BY <3>1, <3>2, EarlyByte
  <2>9. CASE TakeNumber(c)
    <3>1. PICK a, b : tx' = [tx EXCEPT ![c] = [To(c, "hash") EXCEPT !.code = a, !.ver = b]]
      BY <2>9 DEF TakeNumber, Step
    <3> DEFINE t == [To(c, "hash") EXCEPT !.code = a, !.ver = b]
    <3>2. t.at = "hash" /\ t.op # "cleanup"
      BY <1>1, <2>9 DEF To, Tx, Fine, JobOK, TakeNumber
    <3> HIDE DEF t
    <3> QED
      BY <3>1, <3>2, EarlyByte DEF t
  <2>10. CASE LockHash(c)
    <3> DEFINE t == [To(c, IF tx[c].ver > 0 THEN "write" ELSE "decide") EXCEPT !.locked = TRUE]
    <3>1. tx' = [tx EXCEPT ![c] = t] /\ tx[c].at = "hash"
      BY <2>10 DEF LockHash, Step
    <3>2. t.at \in {"write", "decide"} /\ t.op # "cleanup"
      BY <1>1, <3>1 DEF To, Tx, Fine, JobOK
    <3> HIDE DEF t
    <3> QED
      BY <3>1, <3>2, EarlyByte
  <2>11. CASE Copy(c) /\ ~Rollback(c)
    <3> DEFINE t == To(c, "commit")
    <3>1. tx' = [tx EXCEPT ![c] = t] /\ tx[c].at = "copy"
      BY <2>11 DEF Copy, Step
    <3>2. t.op = "backup"
      BY <1>1, <3>1 DEF To, Tx, Fine, MakerOK, JudgeOK, JobOK, Maker, Judge, Idle
    <3> HIDE DEF t
    <3> QED
      BY <3>1, <3>2, EarlyByte
  <2> QED
    BY <2>1, <2>2, <2>3, <2>4, <2>5, <2>6, <2>7, <2>8, <2>9, <2>10, <2>11
<1>4. PICK t : tx' = [tx EXCEPT ![c] = t] /\ Byte(t)'
  BY <1>3
<1>5. tx[c].at \notin {"drop", "commit"}
  BY <1>2 DEF Idle
<1> QED
  BY <1>2, <1>4, <1>5, PlainContents

LEMMA CleanupContents ==
  ASSUME RInv, Contents, NEW c \in Conns, Cleanup(c) \/ \E u \in Uploads : Sweep(c, u)
  PROVE  Contents'
<1>1. UNCHANGED <<db, hot, archive>> /\ old' = old
  BY DEF Cleanup, Sweep, clock, store
<1>2. CASE Cleanup(c)
  <2>0. PICK t : t = [Idle EXCEPT !.op = "cleanup", !.at = "sweep", !.uploads = Sweepable]
    OBVIOUS
  <2>1. /\ tx' = [tx EXCEPT ![c] = t] /\ t.op = "cleanup" /\ t.uploads \subseteq old /\ tx[c] = Idle
    BY <1>2, <2>0 DEF Cleanup, Step, Idle, Sweepable
  <2>2. Byte(t)'
    BY <1>1, <2>1 DEF Byte, Maker, Judge, Taker
  <2>3. tx[c].at # "commit" /\ tx[c].at # "drop"
    BY <2>1 DEF Idle
  <2> QED
    BY <1>1, <2>1, <2>2, <2>3, PlainContents
<1>3. ASSUME NEW u \in Uploads, Sweep(c, u) PROVE Contents'
  <2>1. tx[c].at = "sweep" /\ tx[c] \in Tx /\ Fine(tx[c]) /\ Byte(tx[c])
    BY <1>3, Known DEF Sweep, Contents
  <2>2. tx[c].op = "cleanup"
    BY <2>1 DEF Fine, MakerOK, JudgeOK, JobOK, Maker, Judge, Idle, Tx
  <2>3. PICK t : tx' = [tx EXCEPT ![c] = t] /\ t.op = "cleanup" /\ t.uploads \subseteq tx[c].uploads
    <3>1. CASE Step(c, [tx[c] EXCEPT !.swept = @ \cup {u}])
      <4>1. PICK t : t = [tx[c] EXCEPT !.swept = @ \cup {u}]
        OBVIOUS
      <4>2. t.op = "cleanup" /\ t.uploads = tx[c].uploads
        BY <2>1, <2>2, <4>1 DEF Tx
      <4> QED
        BY <3>1, <4>1, <4>2 DEF Step
    <3>2. CASE Step(c, [tx[c] EXCEPT !.uploads = @ \ {u}])
      <4>1. PICK t : t = [tx[c] EXCEPT !.uploads = @ \ {u}]
        OBVIOUS
      <4>2. t.op = "cleanup" /\ t.uploads = tx[c].uploads \ {u}
        BY <2>1, <2>2, <4>1 DEF Tx
      <4> QED
        BY <3>2, <4>1, <4>2 DEF Step
    <3> QED
      BY <1>3, <3>1, <3>2 DEF Sweep
  <2>4. Byte(t)'
    BY <1>1, <2>1, <2>2, <2>3 DEF Byte, Maker, Judge, Taker
  <2> QED
    BY <1>1, <2>1, <2>3, <2>4, PlainContents
<1> QED
  BY <1>2, <1>3

\* review_file and delete_file decide.
LEMMA DecideContents ==
  ASSUME RInv, Contents, NEW c \in Conns, DecideReview(c) \/ DecideDelete(c)
  PROVE  Contents'
<1>1. /\ tx[c].at = "decide" /\ UNCHANGED <<db, hot, archive>> /\ old' = old /\ file' = file
      /\ tx[c] \in Tx
  BY Known DEF DecideReview, DecideDelete, clock, db
<1> SUFFICES \E t : tx' = [tx EXCEPT ![c] = t] /\ Byte(t)'
  BY <1>1, PlainContents
<1>2. CASE Rollback(c)
  BY <1>2, IdleByte DEF Rollback, Step
<1>3. CASE Step(c, To(c, "commit")) /\ tx[c].op = "review" /\ tx[c].status # "rejected"
  <2>1. PICK t : t = To(c, "commit")
    OBVIOUS
  <2>2. t.op = "review" /\ t.at = "commit" /\ t.status = "approved"
    BY <1>1, <1>3, <2>1, Known DEF To, Tx, Fine, JudgeOK, Judge
  <2>3. Byte(t)'
    BY <2>2 DEF Byte, Maker, Judge, Taker
  <2> QED
    BY <1>3, <2>1, <2>3 DEF Step
<1>4. CASE LetGo(c) /\ tx[c].op \in {"review", "delete"}
  <2>1. PICK t : t = [To(c, IF Others(c) = {} THEN "wipe" ELSE "commit") EXCEPT !.refs = Cardinality(Others(c))]
    OBVIOUS
  <2>2. /\ t.op \in {"review", "delete"} /\ t.hash = tx[c].hash /\ t.row = tx[c].row
        /\ t.at = IF Others(c) = {} THEN "wipe" ELSE "commit"
    BY <1>1, <1>4, <2>1 DEF To, Tx
  <2>3. Beside(t) = Others(c)
    BY <2>2 DEF Beside, Others
  <2>4. Beside(t)' = Beside(t)
    BY <1>1 DEF Beside, LiveOf, Stored
  <2>5. Byte(t)'
    BY <2>2, <2>3, <2>4 DEF Byte, Maker, Judge, Taker
  <2> QED
    BY <1>4, <2>1, <2>5 DEF LetGo, Step
<1> QED
  BY <1>2, <1>3, <1>4 DEF DecideReview, DecideDelete, Approve

\* The last live file of a content takes it along.
LEMMA WipeContents ==
  ASSUME RInv, Contents, NEW c \in Conns, Wipe(c)
  PROVE  Contents'
<1>1. PICK t : t = To(c, "commit")
  OBVIOUS
<1>2. PICK u \in Tx : u = tx[c]
  BY Known
<1>3. /\ tx' = [tx EXCEPT ![c] = t] /\ u.at = "wipe" /\ UNCHANGED db /\ file' = file /\ old' = old
      /\ hot' = hot \ {u.hash} /\ archive' = archive \ {u.hash} /\ Fine(u) /\ Byte(u)
  BY <1>1, <1>2, Known DEF Wipe, Step, clock, db, Contents
<1>4. Judge(u)
  BY <1>3 DEF Fine, MakerOK, JobOK, Maker, Judge, Idle, Tx
<1>5. /\ u.locked /\ u.row \in Stored /\ u.hash = file[u.row].hash /\ Beside(u) = {}
      /\ u.status \in {"rejected", "deleted"}
  BY <1>3, <1>4 DEF Fine, JudgeOK, Judge, Byte
<1>6. t.op = u.op /\ t.at = "commit" /\ t.hash = u.hash /\ t.row = u.row /\ t.status = u.status
  BY <1>1, <1>2 DEF To, Tx
<1>7. Kept(u) /\ Stores(u)
  BY <1>3, <1>5, KeptSame DEF Stores
<1>8. Byte(t)'
  BY <1>3, <1>4, <1>6 DEF Byte, Maker, Judge
<1>9. Content(u.hash)'
  <2>1. tx'[c] = t
    BY <1>3 DEF RInv, TypeOK
  <2>2. Leaving(u.row)'
    BY <1>5, <1>6, <2>1 DEF Leaving
  <2>3. ASSUME NEW r \in Stored, file[r].hash = u.hash, r # u.row PROVE file[r].status \notin Live
    BY <1>5, <2>3 DEF Beside, LiveOf
  <2>4. Stored' = Stored
    BY <1>3 DEF Stored
  <2>5. ASSUME NEW r \in Stored', file'[r].hash = u.hash, ~Leaving(r)'
        PROVE  file'[r].status \notin {"pending", "approved"}
    <3>1. r # u.row
      BY <2>2, <2>5
    <3> QED
      BY <1>3, <2>3, <2>4, <2>5, <3>1 DEF Live
  <2> QED
    BY <1>3, <2>5 DEF Content
<1> QED
  BY <1>2, <1>3, <1>7, <1>8, <1>9, ContentsKept

\* Archiving copies the content, then removes it from the object store.
LEMMA ArchiveContents ==
  ASSUME RInv, Contents, NEW c \in Conns, DecideArchive(c)
  PROVE  Contents'
<1>1. PICK u \in Tx : u = tx[c]
  BY Known
<1>2. /\ u.op = "archive" /\ u.at = "decide" /\ UNCHANGED db /\ file' = file /\ old' = old
      /\ hot' = hot /\ Fine(u)
  BY <1>1, Known DEF DecideArchive, clock, db
<1>3. u.locked /\ u.hash \in Hashes
  BY <1>2 DEF Fine, JobOK
<1>4. CASE Rollback(c) /\ archive' = archive
  BY <1>1, <1>2, <1>4, IdleByte, PlainContents DEF Rollback, Step, Judge
<1>5. CASE /\ StillCold(u.hash) /\ u.hash \in hot
           /\ Step(c, To(c, "purge")) /\ archive' = archive \cup {u.hash}
  <2>1. PICK t : t = To(c, "purge")
    OBVIOUS
  <2>2. /\ tx' = [tx EXCEPT ![c] = t] /\ t.op = "archive" /\ t.at = "purge" /\ t.hash = u.hash
    BY <1>1, <1>2, <1>5, <2>1 DEF Step, To, Tx
  <2>3. Kept(u) /\ Stores(u) /\ Stored' = Stored /\ LiveOf(u.hash)' = LiveOf(u.hash)
    BY <1>2, <1>3, <1>5, KeptSame DEF Stores
  <2>4. LiveOf(u.hash) # {} /\ \A r \in LiveOf(u.hash) : file[r].status = "approved"
    BY <1>5 DEF StillCold, AllCold
  <2>5. Byte(t)'
    BY <1>2, <1>5, <2>2, <2>3, <2>4 DEF Byte, Maker, Judge, Taker
  <2>6. Content(u.hash)'
    BY <1>2, <1>5, <2>3, <2>4 DEF Content
  <2> QED
    BY <1>1, <2>2, <2>3, <2>5, <2>6, ContentsKept
<1> QED
  BY <1>1, <1>4, <1>5 DEF DecideArchive

LEMMA PurgeContents ==
  ASSUME RInv, Contents, NEW c \in Conns, Purge(c)
  PROVE  Contents'
<1>1. PICK t : t = To(c, "commit")
  OBVIOUS
<1>2. PICK u \in Tx : u = tx[c]
  BY Known
<1>3. /\ tx' = [tx EXCEPT ![c] = t] /\ u.at = "purge" /\ UNCHANGED db /\ file' = file /\ old' = old
      /\ hot' = hot \ {u.hash} /\ archive' = archive /\ Fine(u) /\ Byte(u)
  BY <1>1, <1>2, Known DEF Purge, Step, clock, db, Contents
<1>4. u.op = "archive"
  BY <1>3 DEF Fine, MakerOK, JudgeOK, JobOK, Maker, Judge, Idle, Tx
<1>5. /\ u.locked /\ u.hash \in Hashes /\ u.hash \in archive /\ LiveOf(u.hash) # {}
      /\ \A r \in LiveOf(u.hash) : file[r].status = "approved"
  BY <1>3, <1>4 DEF Fine, JobOK, Byte
<1>6. t.op = "archive" /\ t.at = "commit" /\ t.hash = u.hash
  BY <1>1, <1>2, <1>4 DEF To, Tx
<1>7. Kept(u) /\ Stores(u) /\ Stored' = Stored /\ LiveOf(u.hash)' = LiveOf(u.hash)
  BY <1>3, <1>5, KeptSame DEF Stores
<1>8. Byte(t)'
  BY <1>3, <1>5, <1>6, <1>7 DEF Byte, Maker, Judge, Taker
<1>9. Content(u.hash)'
  <2>1. ASSUME NEW r \in Stored, file[r].hash = u.hash PROVE file[r].status # "pending"
    <3>1. file[r].status = "pending" => r \in LiveOf(u.hash)
      BY <2>1 DEF LiveOf, Live
    <3> QED
      BY <1>5, <3>1
  <2> QED
    BY <1>3, <1>5, <1>7, <2>1 DEF Content
<1> QED
  BY <1>2, <1>3, <1>7, <1>8, <1>9, ContentsKept

\* Only the jobs may fail without leaving a content behind or losing one.
LEMMA FailContents ==
  ASSUME RInv, Contents, NEW c \in Conns, Fail(c), Failing \subseteq {"archive", "backup", "cleanup"}
  PROVE  Contents'
<1>1. /\ tx[c].op \in {"archive", "backup", "cleanup"} /\ tx' = [tx EXCEPT ![c] = Idle]
      /\ UNCHANGED <<db, hot, archive>> /\ old' = old
  BY DEF Fail, Rollback, Step, store, clock
<1> QED
  BY <1>1, IdleByte, PlainContents DEF Maker, Judge

LEMMA CommitContents ==
  ASSUME RInv, Contents, NEW c \in Conns, Commit(c)
  PROVE  Contents'
<1>1. PICK u \in Tx : u = tx[c]
  BY Known
<1>2. /\ tx' = [tx EXCEPT ![c] = Idle] /\ hot' = hot /\ archive' = archive /\ old' = old
      /\ Fine(u) /\ Byte(u) /\ Kept(u) /\ TypeOK
  BY <1>1, Known, CommitKeeps DEF Commit, Step, store, clock, Contents, RInv
<1>3. Stores(u)
  BY <1>2 DEF Stores
<1>4. tx'[c] = Idle /\ \A d \in Conns \ {c} : tx'[d] = tx[d]
  BY <1>2 DEF RInv, TypeOK
<1> SUFFICES ASSUME u.locked PROVE Content(u.hash)'
  BY <1>1, <1>2, <1>3, IdleByte, ContentsKept
<1>5. u.hash \in Hashes /\ Content(u.hash)
  <2>1. u.hash \in Hashes
    BY <1>2, RowParts DEF Fine, MakerOK, JudgeOK, JobOK, Maker, Judge, Idle, Tx
  <2> QED
    BY <2>1 DEF Contents
\* Who was leaving and is not the committing one still is.
<1>6. ASSUME NEW r, ~Leaving(r)', r # u.row \/ u.status \notin {"rejected", "deleted"} PROVE ~Leaving(r)
  BY <1>1, <1>4, <1>6 DEF Leaving
<1>7. ~Maker(u) => \A d \in Conns : Bringing(d, u.hash) => Bringing(d, u.hash)'
  BY <1>1, <1>4 DEF Bringing
<1>8. CASE Maker(u)
  <2>1. u.at = "commit" /\ file' = [r \in Rows |-> IF r = u.row THEN NewFile(u) ELSE Counted(file[r], u)]
    BY <1>1, <1>8, CommitKinds DEF Maker, Judge, Taker
  <2>2. \E r \in Stored' : file'[r].hash = u.hash /\ file'[r].status = "pending"
    BY <1>1, <1>8, <2>1, MakerCommit
  <2>3. LiveOf(u.hash)' # {}
    BY <2>2 DEF LiveOf, Live
  <2>4. u.hash \in hot'
    BY <1>2, <1>8, <2>1 DEF Byte
  <2> QED
    BY <2>3, <2>4 DEF Content
<1>9. CASE Taker(u) /\ u.at = "commit" /\ u.status \in {"rejected", "deleted"} /\ Taken(u)
  <2>1. ASSUME NEW r \in Beside(u) PROVE r \in LiveOf(u.hash)'
    BY <1>9, <2>1 DEF Taken, Beside, LiveOf
  <2>2. u.hash \in hot' \cup archive' => LiveOf(u.hash)' # {}
    BY <1>2, <1>9, <2>1 DEF Byte
  <2>3. ASSUME NEW r \in Stored', file'[r].hash = u.hash, ~Leaving(r)'
        PROVE  /\ file'[r].status = "pending" => u.hash \in hot'
               /\ file'[r].status = "approved" => u.hash \in hot' \cup archive'
    <3>1. r \in Stored /\ file[r].hash = u.hash
      BY <1>9, <2>3 DEF Taken
    <3>2. CASE r = u.row
      BY <1>9, <3>1, <3>2 DEF Taken
    <3>3. CASE r # u.row
      <4>1. file'[r].status = file[r].status /\ ~Leaving(r)
        BY <1>6, <1>9, <2>3, <3>1, <3>3 DEF Taken
      <4> QED
        BY <1>2, <1>5, <3>1, <4>1 DEF Content
    <3> QED
      BY <3>2, <3>3
  <2> QED
    BY <2>2, <2>3 DEF Content
<1>10. CASE /\ u.op = "review" /\ u.status = "approved" /\ u.at = "commit"
            /\ file' = [file EXCEPT ![u.row].status = "approved", ![u.row].backed = TRUE]
  <2>1. /\ u.row \in Stored /\ u.hash = file[u.row].hash /\ file[u.row].status = "pending" /\ u.uploads = {}
    BY <1>2, <1>10 DEF Fine, JudgeOK, Judge
  <2>2. \A s \in Uploads : sess'[s] = sess[s]
    BY <1>1, <2>1, SessionsEnd
  <2>3. Touched(u)
    BY <1>2, <1>10, <2>1, <2>2, ApproveTouched
  <2>4. LiveOf(u.hash)' = LiveOf(u.hash) /\ Stored' = Stored
    BY <1>2, <2>3, TouchedKept DEF Touched
  <2>6. ~Leaving(u.row)
    <3> SUFFICES ASSUME NEW d \in Conns, tx[d].row = u.row, tx[d].at = "commit",
                        tx[d].status \in {"rejected", "deleted"}
                 PROVE  FALSE
      BY DEF Leaving
    <3>1. d # c
      BY <1>1, <1>10
    <3>2. PICK w \in Tx : w = tx[d]
      BY <3>1, Known
    <3>3. Fine(w) /\ Away(u, w)
      BY <1>1, <3>1, <3>2, Known
    <3>4. Judge(w)
      BY <3>2, <3>3 DEF Fine, MakerOK, JobOK, Maker, Judge, Idle, Tx
    <3>5. w.locked /\ w.hash = u.hash
      BY <2>1, <3>2, <3>3, <3>4 DEF Fine, JudgeOK
    <3> QED
      BY <3>3, <3>5 DEF Away
  <2>7. u.hash \in hot
    BY <1>5, <2>1, <2>6 DEF Content
  <2>8. ~Maker(u)
    BY <1>10 DEF Maker
  <2>9. u.hash \in hot' \cup archive' => LiveOf(u.hash)' # {} \/ \E d \in Conns : Bringing(d, u.hash)'
    BY <1>2, <1>5, <1>7, <2>4, <2>8 DEF Content
  <2> QED
    BY <1>2, <2>7, <2>9 DEF Content
<1>11. CASE /\ u.op = "archive" /\ u.at = "commit"
            /\ file' = [r \in Rows |-> IF r \in LiveOf(u.hash) THEN [file[r] EXCEPT !.archived = TRUE]
                                                               ELSE file[r]]
  <2>1. /\ u.hash \in archive /\ LiveOf(u.hash) # {} /\ u.status = "pending"
        /\ \A r \in LiveOf(u.hash) : file[r].status = "approved"
    BY <1>2, <1>11 DEF Fine, JobOK, Byte
  <2>2. ASSUME NEW r \in Stored
        PROVE  r \in Stored' /\ file'[r].hash = file[r].hash /\ file'[r].status = file[r].status
    <3>1. r \in Stored' /\ file'[r].hash = file[r].hash /\ r \in Rows /\ file[r] \in File
      BY <1>2, RowParts DEF Kept
    <3>2. CASE r \in LiveOf(u.hash)
      BY <1>11, <3>1, <3>2 DEF File
    <3>3. CASE r \notin LiveOf(u.hash)
      BY <1>11, <3>1, <3>3
    <3> QED
      BY <3>1, <3>2, <3>3
  <2>3. ASSUME NEW r \in LiveOf(u.hash) PROVE r \in LiveOf(u.hash)'
    BY <2>2, <2>3 DEF LiveOf
  <2>4. ASSUME NEW r \in Stored', file'[r].hash = u.hash PROVE file'[r].status # "pending"
    <3>1. r \in Stored
      BY <1>2, <1>11 DEF Kept, Maker
    <3>2. file[r].status = "pending" => r \in LiveOf(u.hash)
      BY <2>2, <2>4, <3>1 DEF LiveOf, Live
    <3> QED
      BY <2>1, <2>2, <3>1, <3>2
  <2> QED
    BY <1>2, <2>1, <2>3, <2>4 DEF Content
<1>12. u.op # "backup" /\ u.op # "cleanup"
  BY <1>2 DEF Fine, JobOK
<1>13. ASSUME Taker(u),
              file' = [r \in Rows |-> IF r = u.row THEN [Counted(file[r], u) EXCEPT !.status = u.status]
                                                   ELSE Counted(file[r], u)]
       PROVE  Taken(u)
  <2>1. u.row \in Stored
    BY <1>2, <1>13 DEF Fine, JudgeOK, Taker
  <2> QED
    BY <1>2, <1>13, <2>1, TakenRows
<1> QED
  BY <1>1, <1>8, <1>9, <1>10, <1>11, <1>12, <1>13, CommitKinds

-----------------------------------------------------------------------------
(* The invariant of the contents                                           *)

\* Steps of time and of clients.
LEMMA QuietContents ==
  ASSUME RInv, Contents, tx' = tx, hot' = hot, archive' = archive, old \subseteq old', Kept(Idle)
  PROVE  Contents'
<1>1. Idle \in Tx /\ Fine(Idle) /\ \A w : Away(Idle, w)
  BY IdleFine
<1>2. Stores(Idle) /\ ~Idle.locked
  BY DEF Stores, Idle
<1>3. ASSUME NEW h \in Hashes PROVE Content(h)'
  BY <1>1, <1>2, OtherContent DEF Contents
<1>4. ASSUME NEW c \in Conns PROVE Byte(tx[c])'
  <2>1. PICK w \in Tx : w = tx[c]
    BY Known
  <2>2. Fine(w) /\ Byte(w) /\ TypeOK
    BY <2>1, Known DEF Contents, RInv
  <2>3. Byte(w)'
    BY <1>1, <1>2, <2>2, OthersBytes
  <2> QED
    BY <2>1, <2>3
<1> QED
  BY <1>3, <1>4 DEF Contents

LEMMA WorksContents ==
  ASSUME RInv, Contents, NEW c \in Conns, Works(c), Failing \subseteq {"archive", "backup", "cleanup"}
  PROVE  Contents'
BY EarlyContents, CleanupContents, WriteContents, DropContents, DecideContents, WipeContents,
   ArchiveContents, PurgeContents, FailContents DEF Works

\* The session of an upload that a step of c does not end.
LEMMA UploadsWork ==
  ASSUME RInv, Contents, NEW c \in Conns, Works(c), NEW u \in Uploads, UploadOK(u),
         Failing \subseteq {"archive", "backup", "cleanup"}
  PROVE  UploadOK(u)'
<1>1. sess' = sess /\ put' = put /\ old' = old
  <2>1. Moves(c)
    BY WorksMoves
  <2>2. sess' = sess
    BY <2>1 DEF Moves, db
  <2>3. put' = put /\ old' = old
    BY DEF Works, Create, Register, Delete, Review, Archive, Backup, Cleanup, Fail, Read, TakeNumber,
       LockHash, Write, Drop, DecideReview, DecideDelete, Wipe, DecideArchive, Purge, Copy, Sweep, clock
  <2> QED
    BY <2>2, <2>3
<1>2. TypeOK /\ tx \in [Conns -> Tx] /\ tx[c] \in Tx /\ Fine(tx[c]) /\ Byte(tx[c])
  BY Known DEF RInv, TypeOK, Contents
\* No upload is given up by a transaction at its commit.
<1>3. Committing(u) => Committing(u)'
  <2> SUFFICES ASSUME NEW d \in Conns, u \in tx[d].uploads, tx[d].at = "commit"
               PROVE  u \in tx'[d].uploads /\ tx'[d].at = "commit"
    BY DEF Committing
  <2>1. CASE d # c
    <3>1. PICK t : tx' = [tx EXCEPT ![c] = t]
      BY WorksMoves DEF Moves
    <3> QED
      BY <1>2, <2>1, <3>1
  <2>2. CASE d = c
    <3>1. tx[c].op = "register"
      BY <1>2, <2>2 DEF Fine, MakerOK, JudgeOK, JobOK, Maker, Judge, Idle, Tx
    <3>2. tx[c] # Idle /\ ~Fail(c)
      BY <3>1 DEF Idle, Fail
    <3> QED
      BY <2>2, <3>1, <3>2 DEF Works, Create, Register, Delete, Review, Archive, Backup, Begin, Cleanup,
         Read, TakeNumber, LockHash, Write, Drop, DecideReview, DecideDelete, Wipe, DecideArchive,
         Purge, Copy, Sweep
  <2> QED
    BY <2>1, <2>2
<1>4. CASE up' = up
  BY <1>1, <1>3, <1>4 DEF UploadOK
<1>5. CASE Read(c) /\ up' # up
  <2>1. up[UploadOf(c)] = TooBig /\ up' = [up EXCEPT ![UploadOf(c)] = None]
    BY <1>5 DEF Read
  <2>2. up' \in [Uploads -> Hashes \cup {TooBig, None}] /\ up \in [Uploads -> Hashes \cup {TooBig, None}]
    BY <1>2, <2>1 DEF TypeOK
  <2>3. CASE u = UploadOf(c)
    <3>1. put[u] = TooBig
      BY <2>1, <2>3, LibraryAssumption DEF UploadOK
    <3>2. put[u] \notin Hashes /\ up'[u] = None /\ put[u] # None
      BY <2>1, <2>2, <2>3, <3>1, LibraryAssumption
    <3> QED
      BY <1>1, <3>2 DEF UploadOK
  <2>4. CASE u # UploadOf(c)
    BY <1>1, <1>3, <2>1, <2>2, <2>4 DEF UploadOK
  <2> QED
    BY <2>3, <2>4
<1>6. CASE Drop(c)
  <2>1. tx[c].at = "drop" /\ up' = [up EXCEPT ![UploadOf(c)] = None] /\ tx' = [tx EXCEPT ![c] = To(c, "commit")]
    BY <1>6 DEF Drop, Step
  <2>2. up' \in [Uploads -> Hashes \cup {TooBig, None}] /\ up \in [Uploads -> Hashes \cup {TooBig, None}]
    BY <1>2, <2>1 DEF TypeOK
  <2>3. CASE u = UploadOf(c)
    <3>1. tx[c].op = "register"
      BY <1>2, <2>1 DEF Fine, MakerOK, JudgeOK, JobOK, Maker, Judge, Idle, Tx
    <3>2. PICK s \in Uploads : tx[c].uploads = {s} /\ sess[s] = "open"
      BY <1>2, <3>1 DEF Fine, MakerOK, Maker
    <3>3. u \in tx[c].uploads
      BY <2>3, <3>2 DEF UploadOf
    <3>4. tx'[c].uploads = tx[c].uploads /\ tx'[c].at = "commit"
      BY <1>2, <2>1 DEF To, Tx
    <3>5. Committing(u)' /\ sess'[u] # "none"
      BY <1>1, <3>2, <3>3, <3>4 DEF Committing
    <3> QED
      BY <2>1, <2>2, <2>3, <3>5 DEF UploadOK
  <2>4. CASE u # UploadOf(c)
    BY <1>1, <1>3, <2>1, <2>2, <2>4 DEF UploadOK
  <2> QED
    BY <2>3, <2>4
<1>7. ASSUME NEW s \in Uploads, Sweep(c, s), up' # up PROVE UploadOK(u)'
  <2>1. s \in tx[c].uploads /\ tx[c].at = "sweep" /\ up' = [up EXCEPT ![s] = None]
    BY <1>7 DEF Sweep
  <2>2. tx[c].op = "cleanup"
    BY <1>2, <2>1 DEF Fine, MakerOK, JudgeOK, JobOK, Maker, Judge, Idle, Tx
  <2>3. s \in old /\ sess[s] = "open"
    BY <1>2, <2>1, <2>2 DEF Byte, Fine, JobOK
  <2>4. up' \in [Uploads -> Hashes \cup {TooBig, None}] /\ up \in [Uploads -> Hashes \cup {TooBig, None}]
    BY <1>2, <2>1 DEF TypeOK
  <2>5. CASE u = s
    BY <1>1, <2>1, <2>3, <2>4, <2>5 DEF UploadOK
  <2>6. CASE u # s
    BY <1>1, <1>3, <2>1, <2>4, <2>6 DEF UploadOK
  <2> QED
    BY <2>5, <2>6
<1> QED
  BY <1>4, <1>5, <1>6, <1>7 DEF Works, Create, Register, Delete, Review, Archive, Backup, Cleanup, Fail,
     TakeNumber, LockHash, Write, DecideReview, DecideDelete, Wipe, DecideArchive, Purge, Copy, store

\* A commit ends the sessions it holds and no other.
LEMMA UploadsCommit ==
  ASSUME RInv, NEW c \in Conns, Commit(c), NEW u \in Uploads, UploadOK(u)
  PROVE  UploadOK(u)'
<1>1. put' = put /\ old' = old /\ up' = up /\ tx' = [tx EXCEPT ![c] = Idle] /\ tx \in [Conns -> Tx]
  BY DEF Commit, store, clock, Step, RInv, TypeOK
<1>2. sess'[u] = IF u \in tx[c].uploads THEN "gone" ELSE sess[u]
  BY SessionsEnd
<1>3. CASE u \in tx[c].uploads
  BY <1>1, <1>2, <1>3 DEF UploadOK
<1>4. CASE u \notin tx[c].uploads
  <2>1. Committing(u) => Committing(u)'
    BY <1>1, <1>4 DEF Committing
  <2> QED
    BY <1>1, <1>2, <1>4, <2>1 DEF UploadOK
<1> QED
  BY <1>3, <1>4

LEMMA InitCInv == Init => CInv
<1> SUFFICES ASSUME Init PROVE CInv
  OBVIOUS
<1>1. \A c \in Conns : tx[c] = Idle
  BY DEF Init
<1>2. \A c \in Conns : Byte(tx[c])
  BY <1>1 DEF Byte, Maker, Judge, Taker, Idle
<1>3. \A u \in Uploads : UploadOK(u)
  BY LibraryAssumption DEF Init, UploadOK
<1>4. CASE hot = {} /\ file = [r \in Rows |-> None]
  <2>1. Stored = {} /\ archive = {}
    BY <1>4 DEF Stored, Init
  <2>2. \A h \in Hashes : Content(h)
    BY <1>4, <2>1 DEF Content
  <2> QED
    BY <1>2, <1>3, <2>2 DEF CInv
<1>5. ASSUME NEW g \in Hashes, hot = {g},
             file = [r \in Rows |-> IF r = CHOOSE x \in Rows : TRUE THEN Early(g) ELSE None]
      PROVE  CInv
  <2>1. PICK x \in Rows : x = CHOOSE y \in Rows : TRUE
    BY LibraryAssumption
  <2>2. Early(g).hash = g /\ Early(g).status = "approved"
    BY DEF Early
  <2>3. \A r \in Rows : file[r] = IF r = x THEN Early(g) ELSE None
    BY <1>5, <2>1
  <2>4. Early(g) # None
    <3>1. 1 \in 1 .. Cardinality(Rows) /\ 1 \in 0 .. Cardinality(Rows)
      BY LibraryAssumption, RowsCount, FS_EmptySet
    <3>2. Early(g) \in File
      BY <3>1 DEF Early, File, Statuses
    <3> QED
      BY <3>2, LibraryAssumption
  <2>5. Stored = {x} /\ file[x] = Early(g) /\ archive = {}
    BY <2>1, <2>3, <2>4 DEF Stored, Init
  <2>6. x \in LiveOf(g)
    BY <2>2, <2>5 DEF LiveOf, Live
  <2>7. \A h \in Hashes : Content(h)
    BY <1>5, <2>2, <2>5, <2>6 DEF Content
  <2> QED
    BY <1>2, <1>3, <2>7 DEF CInv
<1> QED
  BY <1>4, <1>5 DEF Init

LEMMA StepCInv ==
  ASSUME Failing \subseteq {"archive", "backup", "cleanup"}
  PROVE  RInv /\ CInv /\ [Next]_vars => CInv'
<1> SUFFICES ASSUME RInv, CInv, [Next]_vars PROVE CInv'
  OBVIOUS
<1>0. Contents /\ \A u \in Uploads : UploadOK(u)
  BY DEF CInv, Contents
<1> SUFFICES Contents' /\ \A u \in Uploads : UploadOK(u)'
  BY DEF CInv, Contents
<1>1. ASSUME UNCHANGED <<file, sess>> PROVE Kept(Idle)
  BY <1>1, KeptSame DEF db
<1>2. ASSUME UNCHANGED <<tx, put, up, sess>>, old \subseteq old' PROVE \A u \in Uploads : UploadOK(u)'
  <2> SUFFICES ASSUME NEW u \in Uploads PROVE UploadOK(u)'
    OBVIOUS
  <2>1. Committing(u)' <=> Committing(u)
    BY <1>2 DEF Committing
  <2> QED
    BY <1>0, <1>2, <2>1 DEF UploadOK
<1>3. CASE UNCHANGED vars
  BY <1>0, <1>1, <1>2, <1>3, QuietContents DEF vars
<1>4. ASSUME NEW c \in Conns, Works(c) PROVE Contents' /\ \A u \in Uploads : UploadOK(u)'
  BY <1>0, <1>4, WorksContents, UploadsWork
<1>5. ASSUME NEW c \in Conns, Commit(c) PROVE Contents' /\ \A u \in Uploads : UploadOK(u)'
  BY <1>0, <1>5, CommitContents, UploadsCommit
<1>6. ASSUME NEW s \in Uploads, UploadInit(s) PROVE Contents' /\ \A u \in Uploads : UploadOK(u)'
  <2>1. /\ UNCHANGED <<tx, put, up, old, hot, archive>> /\ sess[s] = "none"
        /\ sess' = [sess EXCEPT ![s] = "open"] /\ sess \in [Uploads -> {"none", "open", "gone"}]
    BY <1>6 DEF UploadInit, store, clock, RInv, TypeOK
  <2>2. Kept(Idle)
    BY <1>6, UploadInitKeeps, TouchedKept, IdleFine
  <2>3. ASSUME NEW u \in Uploads PROVE UploadOK(u)'
    <3>1. Committing(u)' <=> Committing(u)
      BY <2>1 DEF Committing
    <3>2. CASE u = s
      BY <1>0, <2>1, <3>2, LibraryAssumption DEF UploadOK
    <3>3. CASE u # s
      BY <1>0, <2>1, <3>1, <3>3 DEF UploadOK
    <3> QED
      BY <3>2, <3>3
  <2> QED
    BY <1>0, <2>1, <2>2, <2>3, QuietContents
<1>7. ASSUME NEW s \in Uploads, Expire(s) PROVE Contents' /\ \A u \in Uploads : UploadOK(u)'
  <2>1. UNCHANGED <<tx, put, up, file, sess, hot, archive>> /\ old \subseteq old'
    BY <1>7 DEF Expire, store, db
  <2> QED
    BY <1>0, <1>1, <1>2, <2>1, QuietContents
<1>8. ASSUME NEW s \in Uploads, NEW x \in Hashes \cup {TooBig}, Put(s, x)
      PROVE  Contents' /\ \A u \in Uploads : UploadOK(u)'
  <2>1. /\ UNCHANGED <<tx, old, file, sess, hot, archive>> /\ sess[s] # "none"
        /\ put' = [put EXCEPT ![s] = x] /\ up' = [up EXCEPT ![s] = x]
        /\ put \in [Uploads -> Hashes \cup {TooBig, None}] /\ up \in [Uploads -> Hashes \cup {TooBig, None}]
    BY <1>8 DEF Put, db, RInv, TypeOK
  <2>2. ASSUME NEW u \in Uploads PROVE UploadOK(u)'
    <3>1. Committing(u)' <=> Committing(u)
      BY <2>1 DEF Committing
    <3>2. CASE u = s
      BY <2>1, <3>2 DEF UploadOK
    <3>3. CASE u # s
      BY <1>0, <2>1, <3>1, <3>3 DEF UploadOK
    <3> QED
      BY <3>2, <3>3
  <2> QED
    BY <1>0, <1>1, <2>1, <2>2, QuietContents
<1>9. ASSUME NEW r \in Rows, Cool(r) PROVE Contents' /\ \A u \in Uploads : UploadOK(u)'
  <2>1. UNCHANGED <<tx, put, up, old, sess, hot, archive>>
    BY <1>9 DEF Cool, store, clock
  <2>2. Kept(Idle)
    BY <1>9, CoolKeeps, TouchedKept, IdleFine
  <2> QED
    BY <1>0, <1>2, <2>1, <2>2, QuietContents
<1> QED
  BY <1>3, <1>4, <1>5, <1>6, <1>7, <1>8, <1>9, NextKinds

-----------------------------------------------------------------------------
(* What the invariants say                                                 *)

LEMMA RInvBooks == RInv => RefsExact /\ RegisteredOnce /\ DocumentsDistinct
<1> SUFFICES ASSUME RInv PROVE RefsExact /\ RegisteredOnce /\ DocumentsDistinct
  OBVIOUS
<1>1. RefsExact
  BY DEF RInv, RowsOK
<1>2. RegisteredOnce
  BY DEF RInv, RowsOK, FromGone, RegisteredOnce
<1>3. ASSUME NEW r \in Stored, NEW s \in Stored, r # s
      PROVE  <<file[r].code, file[r].ver>> # <<file[s].code, file[s].ver>>
  BY <1>3 DEF RInv, RowsOK, Numbered
<1>4. ASSUME NEW c \in Conns, tx[c].ver > 0, NEW r \in Stored
      PROVE  <<file[r].code, file[r].ver>> # <<tx[c].code, tx[c].ver>>
  <2>1. NumberOK(tx[c]) /\ TypeOK
    BY Known DEF RInv, Fine
  <2>2. file[r].code \in Nat /\ file[r].ver \in Nat
    BY <2>1, RowParts
  <2> QED
    BY <1>4, <2>1, <2>2 DEF NumberOK
<1>5. ASSUME NEW c \in Conns, NEW d \in Conns \ {c}, tx[c].ver > 0, tx[d].ver > 0
      PROVE  tx[d].code # tx[c].code
  <2>1. NumberOK(tx[c]) /\ NumberOK(tx[d]) /\ Away(tx[c], tx[d]) /\ TypeOK
    BY Known DEF RInv, Fine
  <2>2. \A r \in Stored : file[r].code \in Nat
    BY <2>1, RowParts
  <2> QED
    BY <1>5, <2>1, <2>2 DEF NumberOK, Away
<1>6. DocumentsDistinct
  BY <1>3, <1>4, <1>5 DEF DocumentsDistinct
<1> QED
  BY <1>1, <1>2, <1>6

LEMMA CInvContents == RInv /\ CInv => LiveHasBytes /\ NothingLeft /\ UploadKept
<1> SUFFICES ASSUME RInv, CInv PROVE LiveHasBytes /\ NothingLeft /\ UploadKept
  OBVIOUS
<1>1. LiveHasBytes
  <2> SUFFICES ASSUME NEW r \in Stored, ~Leaving(r)
               PROVE  /\ file[r].status = "pending" => file[r].hash \in hot
                      /\ file[r].status = "approved" => file[r].hash \in hot \cup archive
    BY DEF LiveHasBytes
  <2>1. file[r].hash \in Hashes
    BY RowParts DEF RInv
  <2> QED
    BY <2>1 DEF CInv, Content
<1>2. NothingLeft
  <2> SUFFICES ASSUME NEW h \in hot \cup archive, \A c \in Conns : tx[c].hash # h PROVE LiveOf(h) # {}
    BY DEF NothingLeft
  <2>1. h \in Hashes
    BY DEF RInv, TypeOK
  <2> QED
    BY <2>1 DEF CInv, Content, Bringing
<1>3. UploadKept
  BY DEF CInv, UploadOK, UploadKept, Committing, Held
<1> QED
  BY <1>1, <1>2, <1>3

\* The tables of the library have their types, whatever fails.
THEOREM TypeCorrect == Spec => []TypeOK
BY RowsInvariant, PTL DEF RInv

\* Whatever fails or crashes, and whoever else reviews, deletes or uploads:
\* ref_count is exact, document numbers are never given out twice and an
\* upload is registered once.
THEOREM BooksCorrect == Spec => [](RefsExact /\ RegisteredOnce /\ DocumentsDistinct)
BY RowsInvariant, RInvBooks, PTL

\* When requests end and only the jobs fail, every live file also has its
\* content, and no content or upload is left behind or lost too early.
THEOREM LibraryCorrect ==
  ASSUME Failing \subseteq {"archive", "backup", "cleanup"}
  PROVE  Spec => []LibrarySound
<1>1. RInv /\ CInv /\ [Next]_vars => CInv'
  BY StepCInv
<1>2. RInv /\ CInv => LibrarySound
  BY RInvBooks, CInvContents DEF LibrarySound
<1> QED
  BY <1>1, <1>2, InitCInv, RowsInvariant, PTL DEF Spec
==============================================================================
