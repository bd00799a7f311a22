--------------------------- MODULE QABountyProofs ---------------------------
(***************************************************************************)
(* The points ledger explains every balance and every escrow is given away *)
(* once, for any number of users, questions, answers, events, connections  *)
(* and failures.                                                           *)
(***************************************************************************)
EXTENDS QABounty, FiniteSetTheorems, WellFoundedInduction, SequenceTheorems, TLAPS

-----------------------------------------------------------------------------
(* Sums of ledger rows                                                     *)

\* The recursion of MapThenSumSet, and the functions that satisfy it.
Body(g, s) == IF s = {} THEN 0
              ELSE LET x == CHOOSE x \in s : TRUE IN x.delta + g[s \ {x}]

Adds(g, T) == g = [s \in SUBSET T |-> Body(g, s)]

\* A sum is a value of such a function.
LEMMA Unfold ==
  ASSUME NEW S
  PROVE  Deltas(S) = (CHOOSE g : Adds(g, S))[S]
BY DEF Deltas, MapThenSumSet, MapThenFoldSet, Adds, Body

\* Induction, as the least counterexample.
LEMMA Least ==
  ASSUME NEW B \in SUBSET Nat, B # {}
  PROVE  \E n \in B : \A k \in B : n <= k
<1> DEFINE R == OpToRel(<, Nat)
<1>1. IsWellFoundedOn(R, Nat)
  BY NatLessThanWellFounded
<1>2. PICK n \in B : \A y \in B : ~(<<y, n>> \in R)
  BY <1>1, WFMin
<1>3. \A a, b \in Nat : a < b => <<a, b>> \in R
  BY DEF OpToRel
<1> HIDE DEF R
<1>4. \A y \in B : ~(y < n)
  BY <1>2, <1>3
<1>5. \A y \in B : y \in Nat /\ n \in Nat
  OBVIOUS
<1> QED
  BY <1>4, <1>5

\* Finitely many rows with integers as amounts.
Typed(T) == IsFiniteSet(T) /\ \A e \in T : e.delta \in Int

\* A finite set has fewer elements without one of them.
LEMMA Smaller ==
  ASSUME NEW s, IsFiniteSet(s), NEW x \in s
  PROVE  /\ IsFiniteSet(s \ {x}) /\ Cardinality(s \ {x}) \in Nat /\ Cardinality(s) \in Nat
         /\ Cardinality(s \ {x}) < Cardinality(s)
<1>1. IsFiniteSet(s \ {x}) /\ Cardinality(s \ {x}) = Cardinality(s) - 1
  BY FS_RemoveElement
<1>2. Cardinality(s) \in Nat /\ Cardinality(s \ {x}) \in Nat
  BY <1>1, FS_CardinalityType
<1> QED
  BY <1>1, <1>2

\* There is such a function.
LEMMA AddsExists ==
  ASSUME NEW T, Typed(T)
  PROVE  \E g : Adds(g, T)
<1> DEFINE Upto(n) == {s \in SUBSET T : Cardinality(s) <= n}
           Good(n) == \E g \in [Upto(n) -> Int] : \A s \in Upto(n) : g[s] = Body(g, s)
           B == {n \in Nat : ~Good(n)}
<1>0. \A s \in SUBSET T : IsFiniteSet(s) /\ Cardinality(s) \in Nat /\ Cardinality(s) <= Cardinality(T)
  BY FS_Subset, FS_CardinalityType DEF Typed
<1>1. B = {}
  <2> SUFFICES ASSUME B # {} PROVE FALSE
    OBVIOUS
  <2>1. PICK n \in B : \A k \in B : n <= k
    BY Least
  <2>2. n # 0
    <3> SUFFICES ASSUME n = 0 PROVE Good(n)
      BY <2>1
    <3>1. \A s \in Upto(n) : s = {}
      BY <1>0, FS_EmptySet, FS_CardinalityType
    <3>2. [s \in Upto(n) |-> 0] \in [Upto(n) -> Int]
      OBVIOUS
    <3>3. \A s \in Upto(n) : [r \in Upto(n) |-> 0][s] = Body([r \in Upto(n) |-> 0], s)
      BY <3>1 DEF Body
    <3> QED
      BY <3>2, <3>3
  <2>3. n - 1 \in Nat /\ n \in Nat /\ n - 1 \notin B
    <3>1. B \subseteq Nat
      OBVIOUS
    <3> HIDE DEF B
    <3> QED
      BY <2>1, <2>2, <3>1
  <2>4. PICK g \in [Upto(n - 1) -> Int] : \A s \in Upto(n - 1) : g[s] = Body(g, s)
    BY <2>3
  <2> DEFINE h == [s \in Upto(n) |-> Body(g, s)]
  <2>5. ASSUME NEW s \in Upto(n), s # {}, NEW x, x = CHOOSE y \in s : TRUE
        PROVE  s \ {x} \in Upto(n - 1) /\ s \ {x} \in Upto(n) /\ x \in T /\ x.delta \in Int
    <3>1. x \in s /\ IsFiniteSet(s)
      BY <1>0, <2>5
    <3>2. Cardinality(s \ {x}) \in Nat /\ Cardinality(s) \in Nat /\ Cardinality(s \ {x}) < Cardinality(s)
      BY <3>1, Smaller
    <3>3. Cardinality(s) <= n
      BY <2>5
    <3>4. Cardinality(s \ {x}) <= n - 1 /\ Cardinality(s \ {x}) <= n
      BY <3>2, <3>3, <2>3
    <3> QED
      BY <3>1, <3>4 DEF Typed
  <2>6. ASSUME NEW s \in Upto(n) PROVE Body(g, s) \in Int
    <3>1. CASE s = {}
      BY <3>1 DEF Body
    <3>2. CASE s # {}
      <4> DEFINE x == CHOOSE y \in s : TRUE
      <4>1. s \ {x} \in Upto(n - 1) /\ x.delta \in Int
        BY <2>5, <3>2
      <4>2. g[s \ {x}] \in Int
        BY <4>1, <2>4
      <4>3. Body(g, s) = x.delta + g[s \ {x}]
        BY <3>2 DEF Body
      <4> QED
        BY <4>1, <4>2, <4>3
    <3> QED
      BY <3>1, <3>2
  <2>7. ASSUME NEW s \in Upto(n) PROVE h[s] = Body(h, s)
    <3>1. CASE s = {}
      BY <3>1 DEF Body
    <3>2. CASE s # {}
      <4> DEFINE x == CHOOSE y \in s : TRUE
      <4>1. s \ {x} \in Upto(n - 1) /\ s \ {x} \in Upto(n)
        BY <2>5, <3>2
      <4>2. h[s \ {x}] = g[s \ {x}]
        BY <4>1, <2>4
      <4>3. Body(h, s) = x.delta + h[s \ {x}] /\ Body(g, s) = x.delta + g[s \ {x}]
        BY <3>2 DEF Body
      <4> QED
        BY <4>2, <4>3
    <3> QED
      BY <3>1, <3>2
  <2>8. h \in [Upto(n) -> Int]
    BY <2>6
  <2>9. Good(n)
    BY <2>7, <2>8
  <2> QED
    BY <2>1, <2>9
<1>2. Cardinality(T) \in Nat
  BY <1>0
<1>3. Good(Cardinality(T))
  BY <1>1, <1>2
<1>4. Upto(Cardinality(T)) = SUBSET T
  BY <1>0
<1> HIDE DEF Upto
<1>5. PICK g \in [SUBSET T -> Int] : \A s \in SUBSET T : g[s] = Body(g, s)
  BY <1>3, <1>4
<1>6. g = [s \in SUBSET T |-> Body(g, s)]
  BY <1>5
<1> QED
  BY <1>6 DEF Adds

\* Any such function gives the sum of every subset, an integer.
LEMMA AddsUnique ==
  ASSUME NEW T, Typed(T), NEW S \in SUBSET T, NEW g, Adds(g, T), NEW h, Adds(h, S)
  PROVE  \A s \in SUBSET S : g[s] \in Int /\ g[s] = h[s]
<1> DEFINE Bad == {s \in SUBSET S : ~(g[s] \in Int /\ g[s] = h[s])}
           B == {Cardinality(s) : s \in Bad}
<1>0. \A s \in SUBSET S : IsFiniteSet(s) /\ Cardinality(s) \in Nat
  <2>1. \A s \in SUBSET S : s \in SUBSET T
    OBVIOUS
  <2> QED
    BY <2>1, FS_Subset, FS_CardinalityType DEF Typed
<1> SUFFICES ASSUME Bad # {} PROVE FALSE
  OBVIOUS
<1>1. B \in SUBSET Nat /\ B # {}
  BY <1>0
<1>2. PICK n \in B : \A k \in B : n <= k
  BY <1>1, Least
<1>3. PICK s \in Bad : Cardinality(s) = n
  BY <1>2
<1>4. s \in SUBSET S /\ s \in SUBSET T
  BY <1>3
<1>5. g[s] = Body(g, s) /\ h[s] = Body(h, s)
  BY <1>4 DEF Adds
<1>6. s # {}
  BY <1>3, <1>5 DEF Body
<1> DEFINE x == CHOOSE y \in s : TRUE
<1>7. x \in s /\ x.delta \in Int
  BY <1>4, <1>6 DEF Typed
<1>8. s \ {x} \in SUBSET S /\ Cardinality(s \ {x}) < Cardinality(s) /\ Cardinality(s \ {x}) \in Nat
      /\ Cardinality(s) \in Nat
  BY <1>0, <1>4, <1>7, Smaller
<1>9. s \ {x} \notin Bad
  <2> SUFFICES ASSUME s \ {x} \in Bad PROVE FALSE
    OBVIOUS
  <2>1. Cardinality(s \ {x}) \in B
    OBVIOUS
  <2> QED
    BY <2>1, <1>2, <1>3, <1>8
<1>10. g[s \ {x}] \in Int /\ g[s \ {x}] = h[s \ {x}]
  BY <1>8, <1>9
<1>11. g[s] = x.delta + g[s \ {x}] /\ h[s] = x.delta + h[s \ {x}]
  BY <1>5, <1>6 DEF Body
<1>12. g[s] \in Int /\ g[s] = h[s]
  BY <1>7, <1>10, <1>11
<1> QED
  BY <1>3, <1>12

\* So the sum of a subset is what the function of the whole set says.
LEMMA SumIs ==
  ASSUME NEW T, Typed(T), NEW S \in SUBSET T, NEW g, Adds(g, T)
  PROVE  Deltas(S) = g[S] /\ Deltas(S) \in Int
<1>1. Typed(S)
  BY FS_Subset DEF Typed
<1>2. PICK k : Adds(k, S)
  BY <1>1, AddsExists
<1> DEFINE h == CHOOSE f : Adds(f, S)
<1>3. Adds(h, S)
  BY <1>2
<1>4. Deltas(S) = h[S]
  BY Unfold
<1> HIDE DEF h
<1>5. g[S] \in Int /\ g[S] = h[S]
  BY <1>3, AddsUnique
<1> QED
  BY <1>4, <1>5

\* The sum over a set is an integer, and that of the empty set is 0.
LEMMA SumType ==
  ASSUME NEW T, Typed(T)
  PROVE  Deltas(T) \in Int /\ Deltas({}) = 0
<1>1. PICK g : Adds(g, T)
  BY AddsExists
<1>2. Deltas(T) \in Int
  BY <1>1, SumIs
<1>3. {} \in SUBSET T
  OBVIOUS
<1>4. Deltas({}) = g[{}]
  BY <1>1, <1>3, SumIs
<1>5. g[{}] = Body(g, {})
  BY <1>1, <1>3 DEF Adds
<1> QED
  BY <1>2, <1>4, <1>5 DEF Body

\* The sum can be taken in any order: one element after the rest.
LEMMA SumWithout ==
  ASSUME NEW T, Typed(T), NEW y \in T
  PROVE  /\ Deltas(T) = y.delta + Deltas(T \ {y})
         /\ Deltas(T) \in Int /\ Deltas(T \ {y}) \in Int
<1>1. PICK g : Adds(g, T)
  BY AddsExists
<1> DEFINE Bad == {s \in SUBSET T : \E z \in s : g[s] # z.delta + g[s \ {z}]}
           B == {Cardinality(s) : s \in Bad}
<1>0. \A s \in SUBSET T : IsFiniteSet(s) /\ Cardinality(s) \in Nat
  BY FS_Subset, FS_CardinalityType DEF Typed
<1>2. \A s \in SUBSET T : g[s] \in Int
  BY <1>1, SumIs
<1>3. Bad = {}
  <2> SUFFICES ASSUME Bad # {} PROVE FALSE
    OBVIOUS
  <2>1. B \in SUBSET Nat /\ B # {}
    BY <1>0
  <2>2. PICK n \in B : \A k \in B : n <= k
    BY <2>1, Least
  <2>3. PICK s \in Bad : Cardinality(s) = n
    BY <2>2
  <2>4. s \in SUBSET T
    BY <2>3
  <2>5. PICK z \in s : g[s] # z.delta + g[s \ {z}]
    BY <2>3
  <2> DEFINE x == CHOOSE w \in s : TRUE
  <2>6. x \in s /\ x.delta \in Int /\ z.delta \in Int
    BY <2>4, <2>5 DEF Typed
  <2>7. g[s] = x.delta + g[s \ {x}]
    BY <1>1, <2>4, <2>5 DEF Adds, Body
  <2> HIDE DEF x
  <2>8. x # z
    BY <2>5, <2>7
  <2>9. ASSUME NEW w \in s PROVE s \ {w} \in SUBSET T /\ s \ {w} \notin Bad
    <3>1. s \ {w} \in SUBSET T /\ Cardinality(s \ {w}) < Cardinality(s)
          /\ Cardinality(s \ {w}) \in Nat /\ Cardinality(s) \in Nat
      BY <1>0, <2>4, Smaller
    <3>2. s \ {w} \in Bad => Cardinality(s \ {w}) \in B
      OBVIOUS
    <3> QED
      BY <3>1, <3>2, <2>2, <2>3
  <2>10. z \in s \ {x} /\ x \in s \ {z}
    BY <2>5, <2>6, <2>8
  <2>11. g[s \ {x}] = z.delta + g[(s \ {x}) \ {z}]
    BY <2>6, <2>9, <2>10
  <2>12. g[s \ {z}] = x.delta + g[(s \ {z}) \ {x}]
    BY <2>5, <2>9, <2>10
  <2>13. (s \ {x}) \ {z} = (s \ {z}) \ {x} /\ (s \ {x}) \ {z} \in SUBSET T
    BY <2>4
  <2>14. g[(s \ {x}) \ {z}] \in Int
    BY <1>2, <2>13
  <2>15. \A a, b, c \in Int : a + (b + c) = b + (a + c)
    OBVIOUS
  <2>16. x.delta + (z.delta + g[(s \ {x}) \ {z}]) = z.delta + (x.delta + g[(s \ {x}) \ {z}])
    BY <2>6, <2>14, <2>15
  <2> QED
    BY <2>5, <2>7, <2>11, <2>12, <2>13, <2>16
<1>4. g[T] = y.delta + g[T \ {y}]
  BY <1>3
<1>5. T \in SUBSET T /\ T \ {y} \in SUBSET T
  OBVIOUS
<1> QED
  BY <1>1, <1>4, <1>5, SumIs

\* One more row.
LEMMA SumWith ==
  ASSUME NEW T, Typed(T), NEW y, y \notin T, y.delta \in Int
  PROVE  Typed(T \cup {y}) /\ Deltas(T \cup {y}) = Deltas(T) + y.delta
<1>1. Typed(T \cup {y})
  BY FS_AddElement DEF Typed
<1>2. (T \cup {y}) \ {y} = T /\ y \in T \cup {y}
  OBVIOUS
<1>3. Deltas(T \cup {y}) = y.delta + Deltas(T) /\ Deltas(T) \in Int
  BY <1>1, <1>2, SumWithout
<1> QED
  BY <1>1, <1>3

\* Two sets of rows without a common one.
LEMMA SumUnion ==
  ASSUME NEW S, Typed(S), NEW T, Typed(T), S \cap T = {}
  PROVE  Typed(S \cup T) /\ Deltas(S \cup T) = Deltas(S) + Deltas(T)
<1>1. Typed(S \cup T)
  BY FS_Union DEF Typed
<1> DEFINE Bad == {s \in SUBSET T : Deltas(S \cup s) # Deltas(S) + Deltas(s)}
           B == {Cardinality(s) : s \in Bad}
<1>0. \A s \in SUBSET T : IsFiniteSet(s) /\ Cardinality(s) \in Nat /\ Typed(s)
  BY FS_Subset, FS_CardinalityType DEF Typed
<1>2. Bad = {}
  <2> SUFFICES ASSUME Bad # {} PROVE FALSE
    OBVIOUS
  <2>1. B \in SUBSET Nat /\ B # {}
    BY <1>0
  <2>2. PICK n \in B : \A k \in B : n <= k
    BY <2>1, Least
  <2>3. PICK s \in Bad : Cardinality(s) = n
    BY <2>2
  <2>4. s \in SUBSET T /\ Typed(s) /\ Deltas(S \cup s) # Deltas(S) + Deltas(s)
    BY <1>0, <2>3
  <2>5. s # {}
    <3> SUFFICES ASSUME s = {} PROVE FALSE
      OBVIOUS
    <3>1. S \cup s = S /\ Deltas(s) = 0 /\ Deltas(S) \in Int
      BY SumType
    <3> QED
      BY <2>4, <3>1
  <2>6. PICK x \in s : TRUE
    BY <2>5
  <2>7. s \ {x} \in SUBSET T /\ Cardinality(s \ {x}) < Cardinality(s)
        /\ Cardinality(s \ {x}) \in Nat /\ Cardinality(s) \in Nat
    BY <1>0, <2>4, <2>6, Smaller
  <2>8. s \ {x} \notin Bad
    <3> SUFFICES ASSUME s \ {x} \in Bad PROVE FALSE
      OBVIOUS
    <3>1. Cardinality(s \ {x}) \in B
      OBVIOUS
    <3> HIDE DEF B, Bad
    <3> QED
      BY <2>2, <2>3, <2>7, <3>1
  <2>9. Deltas(S \cup (s \ {x})) = Deltas(S) + Deltas(s \ {x})
    BY <2>7, <2>8
  <2>10. Deltas(s) = x.delta + Deltas(s \ {x}) /\ Deltas(s \ {x}) \in Int
    BY <2>4, <2>6, SumWithout
  <2>11. Typed(S \cup s) /\ x \in S \cup s /\ (S \cup s) \ {x} = S \cup (s \ {x})
    <3>1. x \notin S
      BY <2>4, <2>6
    <3>2. (S \cup s) \ {x} = S \cup (s \ {x})
      BY <3>1
    <3>3. Typed(S \cup s)
      BY <2>4, FS_Union DEF Typed
    <3> QED
      BY <2>6, <3>2, <3>3
  <2>12. Deltas(S \cup s) = x.delta + Deltas(S \cup (s \ {x}))
    BY <2>11, SumWithout
  <2>13. Deltas(S) \in Int /\ x.delta \in Int
    BY <2>4, <2>6, SumType DEF Typed
  <2> QED
    BY <2>4, <2>9, <2>10, <2>12, <2>13
<1> QED
  BY <1>1, <1>2

\* Rows of one amount.
LEMMA SumEqual ==
  ASSUME NEW T, Typed(T), NEW k \in Int, \A e \in T : e.delta = k
  PROVE  Deltas(T) = Cardinality(T) * k
<1> DEFINE Bad == {s \in SUBSET T : Deltas(s) # Cardinality(s) * k}
           B == {Cardinality(s) : s \in Bad}
<1>0. \A s \in SUBSET T : IsFiniteSet(s) /\ Cardinality(s) \in Nat /\ Typed(s)
  BY FS_Subset, FS_CardinalityType DEF Typed
<1>2. Bad = {}
  <2> SUFFICES ASSUME Bad # {} PROVE FALSE
    OBVIOUS
  <2>1. B \in SUBSET Nat /\ B # {}
    BY <1>0
  <2>2. PICK n \in B : \A j \in B : n <= j
    BY <2>1, Least
  <2>3. PICK s \in Bad : Cardinality(s) = n
    BY <2>2
  <2>4. s \in SUBSET T /\ Typed(s) /\ Deltas(s) # Cardinality(s) * k
    BY <1>0, <2>3
  <2>5. s # {}
    <3> SUFFICES ASSUME s = {} PROVE FALSE
      OBVIOUS
    <3>1. Cardinality(s) = 0 /\ Deltas(s) = 0
      BY SumType, FS_EmptySet
    <3> QED
      BY <2>4, <3>1
  <2>6. PICK x \in s : x.delta = k
    BY <2>4, <2>5
  <2>7. s \ {x} \in SUBSET T /\ Cardinality(s \ {x}) < Cardinality(s)
        /\ Cardinality(s \ {x}) \in Nat /\ Cardinality(s) \in Nat
    BY <1>0, <2>4, <2>6, Smaller
  <2>8. s \ {x} \notin Bad
    <3> SUFFICES ASSUME s \ {x} \in Bad PROVE FALSE
      OBVIOUS
    <3>1. Cardinality(s \ {x}) \in B
      OBVIOUS
    <3> HIDE DEF B, Bad
    <3> QED
      BY <2>2, <2>3, <2>7, <3>1
  <2>9. Deltas(s \ {x}) = Cardinality(s \ {x}) * k
    BY <2>7, <2>8
  <2>10. Deltas(s) = x.delta + Deltas(s \ {x}) /\ Deltas(s \ {x}) \in Int
    BY <2>4, <2>6, SumWithout
  <2>11. Cardinality(s \ {x}) = Cardinality(s) - 1
    BY <1>0, <2>4, <2>6, FS_RemoveElement
  <2>12. \A c \in Nat : k + (c - 1) * k = c * k
    OBVIOUS
  <2> QED
    BY <2>4, <2>6, <2>7, <2>9, <2>10, <2>11, <2>12
<1> QED
  BY <1>2

-----------------------------------------------------------------------------
(* The inductive invariant                                                 *)

\* Ledger rows of a sequence, and all that a transaction has booked or is
\* going to book.
Listed(s) == {s[i] : i \in 1 .. Len(s)}
Owing(t) == tx[t].done \cup Listed(tx[t].pay)

\* The rows of an escrow, a share and an event.
EscrowRow(q) == Row(Author[q], EscrowRef(q), - Total(q))
ShareRow(a) == Row(AnswerBy[a], AcceptRef(a), PerPerson[QuestionOf[a]])
EventRow(v) == Row(EventUser[v], EventRef(v), EventDelta[v])

\* What a settled question had paid when it was settled by t.
PaidBy(t, q) == question[q].paid + Cardinality(Taken(t, q)) * PerPerson[q]

\* The rows of a transaction, by what it decided.
Escrows(t) == {EscrowRow(q) : q \in {r \in Questions : tx[t].op = "ask" /\ tx[t].q = r /\ Total(r) > 0}}
Shares(t) == {ShareRow(a) : a \in {b \in tx[t].take : PerPerson[QuestionOf[b]] > 0}}
Refunds(t) == {RefundRow(q, PaidBy(t, q)) : q \in {r \in tx[t].batch : Total(r) > PaidBy(t, r)}}

\* An event books at most its own row; every other request books, in whatever order
\* and however far it has come, exactly what it decided.
PlanOK(t) ==
  /\ tx[t].op = "event" => \E v \in Events : Owing(t) \subseteq {EventRow(v)}
  /\ tx[t].op # "event" => Owing(t) = Escrows(t) \cup Shares(t) \cup Refunds(t)

\* What a request is about.
Shape(t) ==
  /\ tx[t].op = "free" => tx[t] = Free
  /\ tx[t].op # "free" /\ tx[t].at \in {"lock", "decide"} =>
       /\ tx[t].op \in {"answer", "accept", "close"}
       /\ tx[t].pay = <<>> /\ tx[t].done = {} /\ tx[t].batch = {} /\ tx[t].take = {}
       /\ tx[t].at = "decide" => holder[tx[t].q] = t
  /\ tx[t].op \in {"ask", "answer", "accept", "close"} => tx[t].q \in Questions
  /\ tx[t].op \in {"answer", "accept"} => tx[t].a \in Answers
  /\ tx[t].op \in {"answer", "accept", "close"} /\ tx[t].a # None => QuestionOf[tx[t].a] = tx[t].q
  /\ tx[t].op \in {"ask", "answer", "event"} => tx[t].batch = {} /\ tx[t].take = {}

\* A question that is being asked is not there, and nobody else asks it.
AskOK(t) ==
  tx[t].op = "ask" =>
    /\ question[tx[t].q].status = "absent"
    /\ \A s \in Slots : tx[s].op = "ask" /\ tx[s].q = tx[t].q => s = t

\* Answers to be accepted and questions to be settled are held, and what was
\* read under the lock is still so.
HeldOK(t) ==
  /\ \A a, b \in tx[t].take : a = b
  /\ \A a \in tx[t].take :
       /\ holder[QuestionOf[a]] = t /\ question[QuestionOf[a]].status = "open"
       /\ a \in posted \ accepted
       /\ Cardinality(AcceptedOf(QuestionOf[a])) < People[QuestionOf[a]]
  /\ \A q \in tx[t].batch : holder[q] = t /\ question[q].status = "open"

\* A balance is held from the look-up of the key on; a row that was not
\* booked then is not booked by anybody else, and the balance covers it.
BookOK(t) ==
  /\ IsFiniteSet(tx[t].done)
  /\ \A e \in tx[t].done : holder[e.user] = t /\ Booked(e.user, e.ref) = {}
  /\ tx[t].at \in {"look", "book"} => tx[t].pay # <<>> /\ holder[Due(t).user] = t
  /\ tx[t].at = "book" => Booked(Due(t).user, Due(t).ref) = {}
  /\ \A u \in Users : balance[u] + OwnDelta(t, u) >= 0

\* The rows under a key.
Of(ref) == {e \in ledger : e.ref = ref}

\* Under every key at most the row that the tables explain.
LedgerIs ==
  /\ \A q \in Questions :
       Of(EscrowRef(q)) = IF question[q].status # "absent" /\ Total(q) > 0 THEN {EscrowRow(q)} ELSE {}
  /\ \A a \in Answers :
       Of(AcceptRef(a)) = IF a \in accepted /\ PerPerson[QuestionOf[a]] > 0 THEN {ShareRow(a)} ELSE {}
  /\ \A q \in Questions :
       Of(RefundRef(q)) = IF question[q].status \in {"accepted", "closed"} /\ Total(q) > question[q].paid
                            THEN {RefundRow(q, question[q].paid)} ELSE {}

\* bounty_distributed is what the accepted answers cost.
QuestionOK(q) ==
  /\ question[q].paid = Cardinality(AcceptedOf(q)) * PerPerson[q]
  /\ Cardinality(AcceptedOf(q)) <= People[q]
  /\ question[q].status = "absent" => AcceptedOf(q) = {}

SlotOK(t) == Shape(t) /\ PlanOK(t) /\ AskOK(t) /\ HeldOK(t) /\ BookOK(t)

\* The inductive invariant.
IInv ==
  /\ TypeOK /\ IsFiniteSet(ledger) /\ LedgerIs /\ LedgerSound
  /\ \A q \in Questions : QuestionOK(q)
  /\ \A t \in Slots : SlotOK(t)

-----------------------------------------------------------------------------
(* Rows, keys and sequences                                                *)

\* The idempotency keys of different things are different.
LEMMA RefsApart ==
  /\ \A x, y : EscrowRef(x) = EscrowRef(y) => x = y
  /\ \A x, y : RefundRef(x) = RefundRef(y) => x = y
  /\ \A x, y : AcceptRef(x) = AcceptRef(y) => x = y
  /\ \A x, y : /\ EscrowRef(x) # RefundRef(y) /\ EscrowRef(x) # AcceptRef(y) /\ EscrowRef(x) # EventRef(y)
               /\ RefundRef(x) # AcceptRef(y) /\ RefundRef(x) # EventRef(y)
               /\ AcceptRef(x) # EventRef(y)
BY DEF EscrowRef, RefundRef, AcceptRef, EventRef

\* Amounts are natural numbers.
LEMMA TotalType ==
  ASSUME NEW q \in Questions
  PROVE  Total(q) \in Nat /\ People[q] \in Nat \ {0} /\ PerPerson[q] \in Nat
         /\ Total(q) = People[q] * PerPerson[q]
<1>1. People[q] \in Nat \ {0} /\ PerPerson[q] \in Nat
  BY BountyAssumption
<1>2. \A m, n \in Nat : m * n \in Nat
  OBVIOUS
<1> QED
  BY <1>1, <1>2 DEF Total

\* The fields of a ledger row.
LEMMA RowFields ==
  ASSUME NEW u, NEW ref, NEW d
  PROVE  Row(u, ref, d).user = u /\ Row(u, ref, d).ref = ref /\ Row(u, ref, d).delta = d
BY DEF Row

\* The rows that are booked are rows of the ledger.
LEMMA RowTypes ==
  /\ \A q \in Questions : EscrowRow(q) \in Entries
  /\ \A a \in Answers : ShareRow(a) \in Entries
  /\ \A q \in Questions, n \in Int : RefundRow(q, n) \in Entries
  /\ \A v \in Events : EventRow(v) \in Entries
<1>1. ASSUME NEW q \in Questions
      PROVE  EscrowRow(q) \in Entries /\ \A n \in Int : RefundRow(q, n) \in Entries
  <2>1. Author[q] \in Users /\ EscrowRef(q) \in Refs /\ RefundRef(q) \in Refs
    BY BountyAssumption DEF Refs
  <2>2. Total(q) \in Nat
    BY TotalType
  <2>3. - Total(q) \in Int /\ \A n \in Int : Total(q) - n \in Int
    BY <2>2
  <2> QED
    BY <2>1, <2>3 DEF EscrowRow, RefundRow, Row, Entries, LedgerRows
<1>2. ASSUME NEW a \in Answers PROVE ShareRow(a) \in Entries
  <2>1. AnswerBy[a] \in Users /\ AcceptRef(a) \in Refs /\ QuestionOf[a] \in Questions
    BY BountyAssumption DEF Refs
  <2>2. PerPerson[QuestionOf[a]] \in Int
    BY <2>1, TotalType
  <2> QED
    BY <2>1, <2>2 DEF ShareRow, Row, Entries, LedgerRows
<1>3. ASSUME NEW v \in Events PROVE EventRow(v) \in Entries
  BY BountyAssumption DEF EventRow, Row, Entries, LedgerRows, Refs
<1> QED
  BY <1>1, <1>2, <1>3

\* Lists of rows.
LEMMA ListedFacts ==
  /\ Listed(<<>>) = {} /\ <<>> \in Seq(Entries)
  /\ \A x \in Entries : <<x>> \in Seq(Entries) /\ Listed(<<x>>) = {x} /\ <<x>> # <<>>
BY DEF Listed

\* The first row of a list, and the others.
LEMMA ListedTail ==
  ASSUME NEW s \in Seq(Entries), s # <<>>
  PROVE  /\ Head(s) \in Entries /\ Tail(s) \in Seq(Entries)
         /\ Listed(s) = {Head(s)} \cup Listed(Tail(s))
<1>1. /\ Len(s) \in Nat /\ Len(s) >= 1 /\ Head(s) = s[1] /\ s[1] \in Entries
      /\ Tail(s) \in Seq(Entries) /\ Len(Tail(s)) = Len(s) - 1
      /\ \A i \in 1 .. Len(s) - 1 : Tail(s)[i] = s[i + 1]
  OBVIOUS
<1>2. ASSUME NEW x \in Listed(s) PROVE x \in {Head(s)} \cup Listed(Tail(s))
  <2>1. PICK i \in 1 .. Len(s) : x = s[i]
    BY DEF Listed
  <2>2. CASE i = 1
    BY <1>1, <2>1, <2>2
  <2>3. CASE i # 1
    <3>1. i - 1 \in 1 .. Len(s) - 1 /\ (i - 1) + 1 = i
      BY <1>1, <2>1, <2>3
    <3>2. x = Tail(s)[i - 1] /\ i - 1 \in 1 .. Len(Tail(s))
      BY <1>1, <2>1, <3>1
    <3> QED
      BY <3>2 DEF Listed
  <2> QED
    BY <2>2, <2>3
<1>3. ASSUME NEW x \in {Head(s)} \cup Listed(Tail(s)) PROVE x \in Listed(s)
  <2>1. CASE x = Head(s)
    BY <1>1, <2>1 DEF Listed
  <2>2. CASE x \in Listed(Tail(s))
    <3>1. PICK i \in 1 .. Len(Tail(s)) : x = Tail(s)[i]
      BY <2>2 DEF Listed
    <3>2. i + 1 \in 1 .. Len(s) /\ x = s[i + 1]
      BY <1>1, <3>1
    <3> QED
      BY <3>2 DEF Listed
  <2> QED
    BY <2>1, <2>2
<1> QED
  BY <1>1, <1>2, <1>3

\* A list of two.
LEMMA ListedTwo ==
  ASSUME NEW x \in Entries, NEW y \in Entries
  PROVE  /\ <<>> \o <<>> = <<>> /\ <<x>> \o <<>> = <<x>> /\ <<>> \o <<y>> = <<y>>
         /\ <<x>> \o <<y>> \in Seq(Entries) /\ Listed(<<x>> \o <<y>>) = {x, y}
<1>1. <<>> \o <<>> = <<>> /\ <<x>> \o <<>> = <<x>> /\ <<>> \o <<y>> = <<y>>
  BY <<x>> \in Seq(Entries), <<y>> \in Seq(Entries), ConcatEmptySeq
<1>2. <<x>> \o <<y>> \in Seq(Entries) /\ Len(<<x>> \o <<y>>) = 2
  BY ListedFacts
<1>3. (<<x>> \o <<y>>)[1] = x /\ (<<x>> \o <<y>>)[2] = y
  BY ListedFacts
<1>4. 1 .. 2 = {1, 2}
  OBVIOUS
<1> DEFINE z == <<x>> \o <<y>>
<1>5. Len(z) = 2 /\ z[1] = x /\ z[2] = y
  BY <1>2, <1>3
<1> HIDE DEF z
<1>6. Listed(z) = {x, y}
  BY <1>4, <1>5 DEF Listed
<1> QED
  BY <1>1, <1>2, <1>6 DEF z

\* A connection without a request.
LEMMA FreeFacts ==
  /\ Free \in Txs /\ Free.op = "free" /\ Free.pay = <<>> /\ Free.done = {} /\ Free.take = {}
  /\ Free.batch = {} /\ Free.at = "decide" /\ Free.q = None /\ Free.a = None
<1>1. <<>> \in Seq(Entries)
  OBVIOUS
<1> QED
  BY <1>1 DEF Free, Txs

\* Nothing booked, nothing added.
LEMMA SumNone == Deltas({}) = 0
<1>1. Typed({})
  BY FS_EmptySet DEF Typed
<1> QED
  BY <1>1, SumType

-----------------------------------------------------------------------------
(* Steps of one connection that leave the tables alone                     *)

\* A connection without a request keeps its promises.
LEMMA FreeSlot ==
  (\A u \in Users : balance[u] \in Int /\ balance[u] >= 0)
    => \A t \in Slots : tx[t] = Free => SlotOK(t)
<1> SUFFICES ASSUME \A u \in Users : balance[u] \in Int /\ balance[u] >= 0,
                    NEW t \in Slots, tx[t] = Free
             PROVE  SlotOK(t)
  OBVIOUS
<1>1. /\ tx[t].op = "free" /\ tx[t].pay = <<>> /\ tx[t].done = {} /\ tx[t].take = {}
      /\ tx[t].batch = {} /\ tx[t].at = "decide"
  BY FreeFacts
<1>2. Shape(t)
  BY <1>1 DEF Shape
<1>3. PlanOK(t)
  <2>1. Owing(t) = {}
    BY <1>1, ListedFacts DEF Owing
  <2>2. Escrows(t) = {} /\ Shares(t) = {} /\ Refunds(t) = {}
    BY <1>1 DEF Escrows, Shares, Refunds
  <2> QED
    BY <1>1, <2>1, <2>2 DEF PlanOK
<1>4. AskOK(t)
  BY <1>1 DEF AskOK
<1>5. HeldOK(t)
  BY <1>1 DEF HeldOK
<1>6. BookOK(t)
  <2>1. \A u \in Users : OwnDelta(t, u) = 0
    <3> SUFFICES ASSUME NEW u \in Users PROVE OwnDelta(t, u) = 0
      OBVIOUS
    <3>1. {e \in tx[t].done : e.user = u} = {}
      BY <1>1
    <3> QED
      BY <3>1, SumNone DEF OwnDelta
  <2>2. IsFiniteSet(tx[t].done)
    BY <1>1, FS_EmptySet
  <2> QED
    BY <1>1, <2>1, <2>2 DEF BookOK
<1> QED
  BY <1>2, <1>3, <1>4, <1>5, <1>6 DEF SlotOK

\* The same in the next state.
LEMMA FreeSlotNext ==
  ((\A u \in Users : balance[u] \in Int /\ balance[u] >= 0)
     => \A t \in Slots : tx[t] = Free => SlotOK(t))'
BY FreeSlot, PTL

\* Nothing is asked, booked or held in the beginning.
LEMMA InitIInv == Init => IInv
<1> SUFFICES ASSUME Init PROVE IInv
  OBVIOUS
<1>1. TypeOK
  <2>1. /\ balance \in [Users -> Int] /\ ledger \subseteq LedgerRows
        /\ due \subseteq Questions /\ accepted \subseteq posted /\ posted \subseteq Answers
        /\ aborts \in 0 .. MaxAborts
    BY BountyAssumption DEF Init
  <2>2. question \in [Questions -> [status : Statuses, paid : Nat, answer : Answers \cup {None}]]
    BY DEF Init, Statuses
  <2>3. tx \in [Slots -> Txs]
    BY FreeFacts DEF Init
  <2>4. /\ holder \in [Questions \cup Users -> Slots \cup {None}]
        /\ \A x \in DOMAIN holder : holder[x] # None => tx[holder[x]].op # "free"
    BY DEF Init
  <2> QED
    BY <2>1, <2>2, <2>3, <2>4 DEF TypeOK
<1>2. IsFiniteSet(ledger)
  BY FS_EmptySet DEF Init
<1>3. LedgerIs
  BY DEF Init, LedgerIs, Of
<1>4. LedgerSound
  <2>1. \A u \in Users : {e \in ledger : e.user = u} = {} /\ balance[u] = 0
    BY DEF Init
  <2>2. LedgerExplains /\ NoOverdraft
    BY <2>1, SumNone DEF LedgerExplains, NoOverdraft
  <2>3. BookedOnce
    BY DEF Init, BookedOnce
  <2> QED
    BY <2>2, <2>3 DEF LedgerSound
<1>5. ASSUME NEW q \in Questions PROVE QuestionOK(q)
  <2>1. AcceptedOf(q) = {} /\ question[q].paid = 0
    BY DEF Init, AcceptedOf
  <2>2. Cardinality(AcceptedOf(q)) = 0
    BY <2>1, FS_EmptySet
  <2>3. People[q] \in Nat /\ PerPerson[q] \in Nat
    BY TotalType
  <2> QED
    BY <2>1, <2>2, <2>3 DEF QuestionOK
<1>6. \A t \in Slots : SlotOK(t)
  BY FreeSlot DEF Init
<1> QED
  BY <1>1, <1>2, <1>3, <1>4, <1>5, <1>6 DEF IInv

\* What another connection has read under its locks stays so when t works on
\* its own transaction.
LEMMA SlotStep ==
  ASSUME IInv, NEW t \in Slots,
         UNCHANGED rows, aborts' \in 0 .. MaxAborts,
         tx' \in [Slots -> Txs], \A s \in Slots \ {t} : tx'[s] = tx[s],
         holder' \in [Questions \cup Users -> Slots \cup {None}],
         \A x \in Questions \cup Users, s \in Slots \ {t} : holder'[x] = s <=> holder[x] = s,
         \A x \in Questions \cup Users : holder'[x] = t => tx'[t].op # "free",
         \A s \in Slots : tx[s].op = "ask" /\ tx'[t].op = "ask" /\ tx[s].q = tx'[t].q => s = t,
         SlotOK(t)'
  PROVE  IInv'
<1>1. TypeOK /\ IsFiniteSet(ledger) /\ LedgerIs /\ LedgerSound
  BY DEF IInv
<1>2. TypeOK'
  <2>1. \A x \in DOMAIN holder' : holder'[x] # None => tx'[holder'[x]].op # "free"
    <3> SUFFICES ASSUME NEW x \in Questions \cup Users, holder'[x] # None
                 PROVE  tx'[holder'[x]].op # "free"
      OBVIOUS
    <3>1. CASE holder'[x] = t
      BY <3>1
    <3>2. CASE holder'[x] # t
      <4>1. holder'[x] \in Slots \ {t}
        BY <3>2
      <4>2. holder[x] = holder'[x] /\ holder[x] # None
        BY <4>1, BountyAssumption
      <4>3. x \in DOMAIN holder
        BY <1>1 DEF TypeOK
      <4> QED
        BY <1>1, <4>1, <4>2, <4>3 DEF TypeOK
    <3> QED
      BY <3>1, <3>2
  <2> QED
    BY <1>1, <2>1 DEF TypeOK, rows
<1>3. IsFiniteSet(ledger)' /\ LedgerIs' /\ LedgerSound'
  BY <1>1 DEF rows, LedgerIs, Of, LedgerSound, BookedOnce, LedgerExplains, NoOverdraft, EscrowRow, ShareRow
<1>4. ASSUME NEW q \in Questions PROVE QuestionOK(q)'
  <2>1. QuestionOK(q)
    BY DEF IInv
  <2> QED
    BY <2>1 DEF QuestionOK, AcceptedOf, rows
<1>5. ASSUME NEW s \in Slots, s # t PROVE SlotOK(s)'
  <2>1. SlotOK(s) /\ tx'[s] = tx[s]
    BY <1>5 DEF IInv
  <2>2. \A x \in Questions \cup Users : holder[x] = s => holder'[x] = s
    BY <1>5
  <2>3. /\ \A q \in tx[s].batch : q \in Questions
        /\ \A a \in tx[s].take : QuestionOf[a] \in Questions
        /\ \A e \in tx[s].done : e.user \in Users
    <3>1. tx[s] \in Txs
      BY <1>1 DEF TypeOK
    <3>2. tx[s].batch \subseteq Questions /\ tx[s].take \subseteq Answers /\ tx[s].done \subseteq Entries
      BY <3>1 DEF Txs
    <3> QED
      BY <3>2, BountyAssumption DEF Entries, LedgerRows
  <2>4. Shape(s)'
    <3>1. Shape(s)
      BY <2>1 DEF SlotOK
    <3>2. tx[s].op \in {"answer", "accept", "close"} => tx[s].q \in Questions
      BY <3>1 DEF Shape
    <3>3. (tx[s].op # "free" /\ tx[s].at = "decide") => holder'[tx[s].q] = s
      BY <2>2, <3>1, <3>2 DEF Shape
    <3> QED
      BY <2>1, <3>1, <3>3 DEF Shape
  <2>5. PlanOK(s)'
    <3>1. PlanOK(s)
      BY <2>1 DEF SlotOK
    <3>2. /\ Owing(s)' = Owing(s) /\ Escrows(s)' = Escrows(s) /\ Shares(s)' = Shares(s)
          /\ Refunds(s)' = Refunds(s)
      BY <2>1 DEF Owing, Escrows, Shares, Refunds, PaidBy, Taken, rows
    <3> QED
      BY <2>1, <3>1, <3>2 DEF PlanOK
  <2>6. AskOK(s)'
    <3> SUFFICES ASSUME tx[s].op = "ask", NEW r \in Slots
                 PROVE  /\ question[tx[s].q].status = "absent"
                        /\ tx'[r].op = "ask" /\ tx'[r].q = tx[s].q => r = s
      BY <2>1 DEF AskOK, rows
    <3>1. AskOK(s)
      BY <2>1 DEF SlotOK
    <3>2. CASE r = t
      BY <3>1, <3>2 DEF AskOK
    <3>3. CASE r # t
      BY <3>1, <3>3 DEF AskOK
    <3> QED
      BY <3>2, <3>3
  <2>7. HeldOK(s)'
    <3>1. HeldOK(s)
      BY <2>1 DEF SlotOK
    <3> QED
      BY <2>1, <2>2, <2>3, <3>1 DEF HeldOK, AcceptedOf, rows
  <2>8. BookOK(s)'
    <3>1. BookOK(s)
      BY <2>1 DEF SlotOK
    <3>2. tx[s].pay # <<>> => Due(s).user \in Users
      <4>1. tx[s].pay \in Seq(Entries)
        BY <1>1 DEF TypeOK, Txs
      <4> QED
        BY <4>1, ListedTail DEF Due, Entries, LedgerRows
    <3>3. Due(s)' = Due(s) /\ \A u, ref : Booked(u, ref)' = Booked(u, ref)
      BY <2>1 DEF Due, Booked, rows
    <3>4. \A u : OwnDelta(s, u)' = OwnDelta(s, u)
      BY <2>1 DEF OwnDelta
    <3>5. IsFiniteSet(tx[s].done)' /\ \A e \in tx'[s].done : holder'[e.user] = s /\ Booked(e.user, e.ref)' = {}
      BY <2>1, <2>2, <2>3, <3>1, <3>3 DEF BookOK
    <3>6. tx'[s].at \in {"look", "book"} => tx'[s].pay # <<>> /\ holder'[Due(s)'.user] = s
      BY <2>1, <2>2, <3>1, <3>2, <3>3 DEF BookOK
    <3>7. tx'[s].at = "book" => Booked(Due(s).user, Due(s).ref)' = {}
      BY <2>1, <3>1, <3>3 DEF BookOK
    <3>8. \A u \in Users : balance'[u] + OwnDelta(s, u)' >= 0
      BY <3>1, <3>4 DEF BookOK, rows
    <3> QED
      BY <3>5, <3>6, <3>7, <3>8 DEF BookOK
  <2> QED
    BY <2>4, <2>5, <2>6, <2>7, <2>8 DEF SlotOK
<1> QED
  BY <1>2, <1>3, <1>4, <1>5 DEF IInv

\* What IInv says of the connection that moves.
LEMMA SlotTypes ==
  ASSUME IInv, NEW t \in Slots
  PROVE  /\ TypeOK /\ SlotOK(t) /\ tx[t] \in Txs
         /\ Shape(t) /\ PlanOK(t) /\ AskOK(t) /\ HeldOK(t) /\ BookOK(t)
         /\ tx[t].pay \in Seq(Entries) /\ tx[t].done \in SUBSET Entries
         /\ tx[t].take \in SUBSET Answers /\ tx[t].batch \in SUBSET Questions
         /\ holder \in [Questions \cup Users -> Slots \cup {None}]
         /\ tx \in [Slots -> Txs] /\ aborts \in 0 .. MaxAborts
         /\ \A u \in Users : balance[u] \in Int /\ balance[u] >= 0
         /\ Typed(tx[t].done)
         /\ \A u \in Users : Typed({e \in tx[t].done : e.user = u}) /\ OwnDelta(t, u) \in Int
<1>1. TypeOK /\ SlotOK(t) /\ NoOverdraft
  BY DEF IInv, LedgerSound
<1>2. tx[t] \in Txs /\ tx \in [Slots -> Txs] /\ aborts \in 0 .. MaxAborts
      /\ holder \in [Questions \cup Users -> Slots \cup {None}]
  BY <1>1 DEF TypeOK
<1>3. /\ tx[t].pay \in Seq(Entries) /\ tx[t].done \in SUBSET Entries
      /\ tx[t].take \in SUBSET Answers /\ tx[t].batch \in SUBSET Questions
  BY <1>2 DEF Txs
<1>4. Shape(t) /\ PlanOK(t) /\ AskOK(t) /\ HeldOK(t) /\ BookOK(t)
  BY <1>1 DEF SlotOK
<1>5. \A u \in Users : balance[u] \in Int /\ balance[u] >= 0
  BY <1>1 DEF TypeOK, NoOverdraft
<1>6. \A e \in tx[t].done : e.delta \in Int
  BY <1>3 DEF Entries, LedgerRows
<1>7. Typed(tx[t].done)
  BY <1>4, <1>6 DEF Typed, BookOK
<1>8. ASSUME NEW u \in Users
      PROVE  Typed({e \in tx[t].done : e.user = u}) /\ OwnDelta(t, u) \in Int
  <2>1. {e \in tx[t].done : e.user = u} \subseteq tx[t].done
    OBVIOUS
  <2>2. Typed({e \in tx[t].done : e.user = u})
    BY <1>7, <2>1, FS_Subset DEF Typed
  <2> QED
    BY <2>2, SumType DEF OwnDelta
<1> QED
  BY <1>1, <1>2, <1>3, <1>4, <1>5, <1>7, <1>8

\* Rollback, for whatever reason.
LEMMA ReleaseKeeps ==
  ASSUME IInv, NEW t \in Slots, UNCHANGED rows, aborts' \in 0 .. MaxAborts,
         tx' = [tx EXCEPT ![t] = Free], holder' = Released(t)
  PROVE  IInv'
<1>1. /\ tx \in [Slots -> Txs] /\ holder \in [Questions \cup Users -> Slots \cup {None}]
      /\ \A u \in Users : balance[u] \in Int /\ balance[u] >= 0
  BY SlotTypes
<1>2. tx' \in [Slots -> Txs] /\ (\A s \in Slots \ {t} : tx'[s] = tx[s]) /\ tx'[t] = Free
  BY <1>1, FreeFacts
<1>3. holder' = [x \in Questions \cup Users |-> IF holder[x] = t THEN None ELSE holder[x]]
  BY <1>1 DEF Released
<1>4. /\ holder' \in [Questions \cup Users -> Slots \cup {None}]
      /\ \A x \in Questions \cup Users, s \in Slots \ {t} : holder'[x] = s <=> holder[x] = s
      /\ \A x \in Questions \cup Users : holder'[x] # t
  BY <1>1, <1>3, BountyAssumption
<1>5. SlotOK(t)'
  <2>1. \A u \in Users : balance'[u] \in Int /\ balance'[u] >= 0
    BY <1>1 DEF rows
  <2> QED
    BY <1>2, <2>1, FreeSlotNext
<1>6. tx'[t].op # "ask"
  BY <1>2, FreeFacts
<1> QED
  BY <1>2, <1>4, <1>5, <1>6, SlotStep

\* An error of a request; the database breaks a deadlock.
LEMMA RollbackKeeps ==
  ASSUME IInv, NEW t \in Slots, Rollback(t)
  PROVE  IInv'
<1>1. UNCHANGED rows /\ aborts' \in 0 .. MaxAborts
  BY SlotTypes DEF Rollback
<1> QED
  BY <1>1, ReleaseKeeps DEF Rollback

\* A crash, a timeout or a lost connection.
LEMMA AbortKeeps ==
  ASSUME IInv, NEW t \in Slots, Abort(t)
  PROVE  IInv'
<1>1. UNCHANGED rows
  BY DEF Abort
<1>2. aborts' \in 0 .. MaxAborts
  <2>1. aborts \in 0 .. MaxAborts /\ MaxAborts \in Nat
    BY SlotTypes, BountyAssumption
  <2>2. aborts < MaxAborts /\ aborts' = aborts + 1
    BY DEF Abort
  <2> QED
    BY <2>1, <2>2
<1> QED
  BY <1>1, <1>2, ReleaseKeeps DEF Abort

\* A request of a connection that was free.  It has not booked anything.
LEMMA StartKeeps ==
  ASSUME IInv, NEW t \in Slots, NEW req \in Txs, Start(t, req),
         req.op # "free", req.done = {}, req.take = {}, req.batch = {},
         req.at \in {"lock", "pay"},
         req.at = "lock" => req.op \in {"answer", "accept", "close"} /\ req.pay = <<>>,
         req.op \in {"ask", "answer", "accept", "close"} => req.q \in Questions,
         req.op \in {"answer", "accept"} => req.a \in Answers,
         req.op \in {"answer", "accept", "close"} /\ req.a # None => QuestionOf[req.a] = req.q,
         req.op = "event" => \E v \in Events : Listed(req.pay) \subseteq {EventRow(v)},
         req.op # "event" =>
           Listed(req.pay) = {EscrowRow(q) : q \in {r \in Questions : req.op = "ask" /\ req.q = r /\ Total(r) > 0}},
         req.op = "ask" => /\ question[req.q].status = "absent"
                           /\ \A s \in Slots : ~ (tx[s].op = "ask" /\ tx[s].q = req.q)
  PROVE  IInv'
<1>1. /\ tx \in [Slots -> Txs] /\ holder \in [Questions \cup Users -> Slots \cup {None}]
      /\ \A u \in Users : balance[u] \in Int /\ balance[u] >= 0
      /\ aborts \in 0 .. MaxAborts
  BY SlotTypes
<1>2. UNCHANGED rows /\ UNCHANGED <<holder, aborts>> /\ tx' = [tx EXCEPT ![t] = req]
  BY DEF Start
<1>3. tx' \in [Slots -> Txs] /\ (\A s \in Slots \ {t} : tx'[s] = tx[s]) /\ tx'[t] = req
  BY <1>1, <1>2
<1>4. SlotOK(t)'
  <2>1. Shape(t)'
    BY <1>3 DEF Shape
  <2>2. PlanOK(t)'
    <3>1. Owing(t)' = Listed(req.pay)
      BY <1>3 DEF Owing
    <3>2. Shares(t)' = {} /\ Refunds(t)' = {}
      BY <1>3 DEF Shares, Refunds
    <3>3. Escrows(t)' = {EscrowRow(q) : q \in {r \in Questions : req.op = "ask" /\ req.q = r /\ Total(r) > 0}}
      BY <1>3 DEF Escrows
    <3> QED
      BY <1>3, <3>1, <3>2, <3>3 DEF PlanOK
  <2>3. AskOK(t)'
    BY <1>2, <1>3 DEF AskOK, rows
  <2>4. HeldOK(t)'
    BY <1>3 DEF HeldOK
  <2>5. BookOK(t)'
    <3>1. IsFiniteSet(tx'[t].done)
      BY <1>3, FS_EmptySet
    <3>2. \A u \in Users : OwnDelta(t, u)' = 0
      <4> SUFFICES ASSUME NEW u \in Users PROVE OwnDelta(t, u)' = 0
        OBVIOUS
      <4>1. {e \in tx'[t].done : e.user = u} = {}
        BY <1>3
      <4> QED
        BY <4>1, SumNone DEF OwnDelta
    <3>3. \A u \in Users : balance'[u] + OwnDelta(t, u)' >= 0
      BY <1>1, <1>2, <3>2 DEF rows
    <3> QED
      BY <1>3, <3>1, <3>3 DEF BookOK
  <2> QED
    BY <2>1, <2>2, <2>3, <2>4, <2>5 DEF SlotOK
<1>5. \A x \in Questions \cup Users : holder'[x] = t => tx'[t].op # "free"
  BY <1>3
<1>6. \A s \in Slots : tx[s].op = "ask" /\ tx'[t].op = "ask" /\ tx[s].q = tx'[t].q => s = t
  BY <1>3
<1> QED
  BY <1>1, <1>2, <1>3, <1>4, <1>5, <1>6, SlotStep

\* create_question.
LEMMA AskKeeps ==
  ASSUME IInv, NEW t \in Slots, NEW q \in Questions, Ask(t, q)
  PROVE  IInv'
<1> DEFINE pay == IF Total(q) > 0 THEN <<Row(Author[q], EscrowRef(q), - Total(q))>> ELSE <<>>
           req == [Free EXCEPT !.op = "ask", !.q = q, !.at = "pay", !.pay = pay]
<1>1. pay \in Seq(Entries) /\ Listed(pay) = {EscrowRow(r) : r \in {r \in Questions : q = r /\ Total(r) > 0}}
  <2>1. EscrowRow(q) \in Entries /\ EscrowRow(q) = Row(Author[q], EscrowRef(q), - Total(q))
    BY RowTypes DEF EscrowRow
  <2>2. CASE Total(q) > 0
    <3>1. pay = <<EscrowRow(q)>>
      BY <2>1, <2>2
    <3>2. {r \in Questions : q = r /\ Total(r) > 0} = {q}
      BY <2>2
    <3> HIDE DEF pay
    <3> QED
      BY <2>1, <3>1, <3>2, ListedFacts
  <2>3. CASE ~ (Total(q) > 0)
    <3>1. pay = <<>> /\ {r \in Questions : q = r /\ Total(r) > 0} = {}
      BY <2>3
    <3> HIDE DEF pay
    <3> QED
      BY <3>1, ListedFacts
  <2> QED
    BY <2>2, <2>3
<1>2. Start(t, req) /\ question[q].status = "absent" /\ \A s \in Slots : ~ (tx[s].op = "ask" /\ tx[s].q = q)
  BY DEF Ask
<1> HIDE DEF pay
<1>3. /\ req \in Txs /\ req.op = "ask" /\ req.q = q /\ req.at = "pay" /\ req.pay = pay
      /\ req.done = {} /\ req.take = {} /\ req.batch = {}
  BY <1>1 DEF Free, Txs
<1> HIDE DEF req
<1> QED
  BY <1>1, <1>2, <1>3, StartKeeps

\* PostAnswer, Accept and Close only name their question and answer.
LEMMA NamedKeeps ==
  ASSUME IInv, NEW t \in Slots, NEW op \in {"answer", "accept", "close"},
         NEW q \in Questions, NEW a \in Answers \cup {None},
         op # "close" => a \in Answers, a # None => QuestionOf[a] = q,
         Start(t, [Free EXCEPT !.op = op, !.q = q, !.a = a, !.at = "lock"])
  PROVE  IInv'
<1> DEFINE req == [Free EXCEPT !.op = op, !.q = q, !.a = a, !.at = "lock"]
<1>1. /\ req \in Txs /\ req.op = op /\ req.q = q /\ req.a = a /\ req.at = "lock"
      /\ req.pay = <<>> /\ req.done = {} /\ req.take = {} /\ req.batch = {}
  BY ListedFacts DEF Free, Txs
<1>2. Start(t, req)
  OBVIOUS
<1> HIDE DEF req
<1>3. Listed(req.pay) = {}
  BY <1>1, ListedFacts
<1>4. {EscrowRow(p) : p \in {r \in Questions : req.op = "ask" /\ req.q = r /\ Total(r) > 0}} = {}
  BY <1>1
<1> QED
  BY <1>1, <1>2, <1>3, <1>4, StartKeeps

\* apply_point_reward.
LEMMA ConsumeKeeps ==
  ASSUME IInv, NEW t \in Slots, NEW v \in Events, Consume(t, v)
  PROVE  IInv'
<1> DEFINE row == EventRow(v)
           req == [Free EXCEPT !.op = "event", !.at = "pay", !.pay = <<row>>]
<1>1. row \in Entries /\ row = EventRow(v)
  BY RowTypes
<1>2. Start(t, req)
  BY DEF Consume, EventRow
<1> HIDE DEF row
<1>3. <<row>> \in Seq(Entries) /\ Listed(<<row>>) = {row}
  BY <1>1, ListedFacts
<1>4. /\ req \in Txs /\ req.op = "event" /\ req.at = "pay" /\ req.pay = <<row>>
      /\ req.done = {} /\ req.take = {} /\ req.batch = {}
  BY <1>3 DEF Free, Txs
<1> HIDE DEF req
<1> QED
  BY <1>1, <1>2, <1>3, <1>4, StartKeeps

\* get_locked.
LEMMA LockQuestionKeeps ==
  ASSUME IInv, NEW t \in Slots, LockQuestion(t)
  PROVE  IInv'
<1>1. /\ tx \in [Slots -> Txs] /\ holder \in [Questions \cup Users -> Slots \cup {None}]
      /\ aborts \in 0 .. MaxAborts /\ SlotOK(t) /\ Shape(t) /\ AskOK(t) /\ tx[t] \in Txs
  BY SlotTypes
<1>2. /\ UNCHANGED rows /\ aborts' = aborts /\ tx[t].at = "lock"
      /\ holder' = [holder EXCEPT ![tx[t].q] = t] /\ tx' = [tx EXCEPT ![t].at = "decide"]
      /\ holder[tx[t].q] \in {None, t}
  BY DEF LockQuestion, Available
<1>3. /\ tx' \in [Slots -> Txs] /\ (\A s \in Slots \ {t} : tx'[s] = tx[s])
      /\ tx'[t] = [tx[t] EXCEPT !.at = "decide"]
  BY <1>1, <1>2 DEF Txs
<1>4. /\ tx'[t].op = tx[t].op /\ tx'[t].q = tx[t].q /\ tx'[t].a = tx[t].a /\ tx'[t].at = "decide"
      /\ tx'[t].batch = tx[t].batch /\ tx'[t].pay = tx[t].pay /\ tx'[t].done = tx[t].done
      /\ tx'[t].take = tx[t].take
  BY <1>1, <1>3 DEF Txs
<1>5. /\ tx[t].op \in {"answer", "accept", "close"} /\ tx[t].q \in Questions
      /\ tx[t].pay = <<>> /\ tx[t].done = {} /\ tx[t].batch = {} /\ tx[t].take = {}
  <2>1. tx[t].op # "free"
    BY <1>1, <1>2, FreeFacts DEF Shape
  <2> QED
    BY <1>1, <1>2, <2>1 DEF Shape
<1>6. /\ holder' \in [Questions \cup Users -> Slots \cup {None}]
      /\ \A x \in Questions \cup Users, s \in Slots \ {t} : holder'[x] = s <=> holder[x] = s
      /\ holder'[tx[t].q] = t
  BY <1>1, <1>2, <1>5, BountyAssumption
<1>7. SlotOK(t)'
  <2>1. Shape(t)'
    BY <1>1, <1>4, <1>5, <1>6 DEF Shape
  <2>2. PlanOK(t)'
    <3>1. PlanOK(t)
      BY SlotTypes
    <3>2. /\ Owing(t)' = Owing(t) /\ Escrows(t)' = Escrows(t) /\ Shares(t)' = Shares(t)
          /\ Refunds(t)' = Refunds(t)
      BY <1>2, <1>4 DEF Owing, Escrows, Shares, Refunds, PaidBy, Taken, rows
    <3> QED
      BY <1>4, <3>1, <3>2 DEF PlanOK
  <2>3. AskOK(t)'
    BY <1>4, <1>5 DEF AskOK
  <2>4. HeldOK(t)'
    BY <1>4, <1>5 DEF HeldOK
  <2>5. BookOK(t)'
    <3>1. BookOK(t)
      BY SlotTypes
    <3>2. \A u : OwnDelta(t, u)' = OwnDelta(t, u)
      BY <1>4 DEF OwnDelta
    <3> QED
      BY <1>2, <1>4, <1>5, <3>1, <3>2 DEF BookOK, rows
  <2> QED
    BY <2>1, <2>2, <2>3, <2>4, <2>5 DEF SlotOK
<1>8. /\ \A x \in Questions \cup Users : holder'[x] = t => tx'[t].op # "free"
      /\ tx'[t].op # "ask"
  BY <1>4, <1>5
<1> QED
  BY <1>1, <1>2, <1>3, <1>6, <1>7, <1>8, SlotStep

\* What was decided under the lock of the question: the answers to accept and
\* the questions to settle may be accepted and settled, and the list of rows
\* is what they cost.
LEMMA DecideKeeps ==
  ASSUME IInv, NEW t \in Slots, NEW new \in Txs,
         tx[t].op \in {"answer", "accept", "close"}, tx[t].at = "decide",
         UNCHANGED <<rows, holder, aborts>>, tx' = [tx EXCEPT ![t] = new],
         new.op = tx[t].op, new.q = tx[t].q, new.a = tx[t].a, new.at = "pay", new.done = {},
         new.op = "answer" => new.batch = {} /\ new.take = {},
         \A a \in new.take :
           /\ a = tx[t].a /\ a # None /\ a \in posted \ accepted /\ question[tx[t].q].status = "open"
           /\ Cardinality(AcceptedOf(tx[t].q)) < People[tx[t].q],
         \A q \in new.batch : q = tx[t].q /\ question[q].status = "open",
         Listed(new.pay) = Shares(t)' \cup Refunds(t)'
  PROVE  IInv'
<1>1. /\ tx \in [Slots -> Txs] /\ holder \in [Questions \cup Users -> Slots \cup {None}]
      /\ aborts \in 0 .. MaxAborts /\ Shape(t)
      /\ \A u \in Users : balance[u] \in Int /\ balance[u] >= 0
  BY SlotTypes
<1>2. /\ UNCHANGED rows /\ holder' = holder /\ aborts' = aborts
  OBVIOUS
<1>3. tx' \in [Slots -> Txs] /\ (\A s \in Slots \ {t} : tx'[s] = tx[s]) /\ tx'[t] = new
  BY <1>1
<1>4. /\ tx[t].q \in Questions /\ holder[tx[t].q] = t
      /\ (tx[t].op \in {"answer", "accept"} => tx[t].a \in Answers)
      /\ (tx[t].a # None => QuestionOf[tx[t].a] = tx[t].q)
  BY <1>1 DEF Shape
<1>5. SlotOK(t)'
  <2>1. Shape(t)'
    BY <1>3, <1>4 DEF Shape
  <2>2. PlanOK(t)'
    <3>1. Owing(t)' = Listed(new.pay)
      BY <1>3 DEF Owing
    <3>2. Escrows(t)' = {}
      BY <1>3 DEF Escrows
    <3> QED
      BY <1>3, <3>1, <3>2 DEF PlanOK
  <2>3. AskOK(t)'
    BY <1>3 DEF AskOK
  <2>4. HeldOK(t)'
    <3>1. \A q : AcceptedOf(q)' = AcceptedOf(q)
      BY <1>2 DEF AcceptedOf, rows
    <3> QED
      BY <1>2, <1>3, <1>4, <3>1 DEF HeldOK, rows
  <2>5. BookOK(t)'
    <3>1. IsFiniteSet(tx'[t].done)
      BY <1>3, FS_EmptySet
    <3>2. \A u \in Users : OwnDelta(t, u)' = 0
      <4> SUFFICES ASSUME NEW u \in Users PROVE OwnDelta(t, u)' = 0
        OBVIOUS
      <4>1. {e \in tx'[t].done : e.user = u} = {}
        BY <1>3
      <4> QED
        BY <4>1, SumNone DEF OwnDelta
    <3>3. \A u \in Users : balance'[u] + OwnDelta(t, u)' >= 0
      BY <1>1, <1>2, <3>2 DEF rows
    <3> QED
      BY <1>3, <3>1, <3>3 DEF BookOK
  <2> QED
    BY <2>1, <2>2, <2>3, <2>4, <2>5 DEF SlotOK
<1>6. /\ \A x \in Questions \cup Users : holder'[x] = t => tx'[t].op # "free"
      /\ tx'[t].op # "ask"
  BY <1>3
<1> QED
  BY <1>1, <1>2, <1>3, <1>5, <1>6, SlotStep

\* Where a decision starts.
LEMMA Deciding ==
  ASSUME IInv, NEW t \in Slots, tx[t].op \in {"answer", "accept", "close"}, tx[t].at = "decide"
  PROVE  /\ tx[t].pay = <<>> /\ tx[t].done = {} /\ tx[t].batch = {} /\ tx[t].take = {}
         /\ tx[t].q \in Questions
         /\ (tx[t].op \in {"answer", "accept"} => tx[t].a \in Answers)
         /\ (tx[t].a # None => tx[t].a \in Answers /\ QuestionOf[tx[t].a] = tx[t].q)
         /\ tx[t] \in Txs /\ tx \in [Slots -> Txs]
<1>1. Shape(t) /\ tx[t] \in Txs /\ tx \in [Slots -> Txs]
  BY SlotTypes
<1>2. tx[t].a \in Answers \cup {None}
  BY <1>1 DEF Txs
<1> QED
  BY <1>1, <1>2 DEF Shape

\* The share of an answer that is accepted.
LEMMA ShareListed ==
  ASSUME NEW a \in Answers
  PROVE  LET q == QuestionOf[a] IN
         /\ Share(q, a) \in Seq(Entries)
         /\ Listed(Share(q, a)) = {ShareRow(b) : b \in {c \in {a} \ accepted : PerPerson[QuestionOf[c]] > 0}}
         /\ (Share(q, a) = <<>> \/ Share(q, a) = <<ShareRow(a)>>)
         /\ (Share(q, a) = <<>>) <=> (a \in accepted \/ PerPerson[q] = 0)
<1> DEFINE q == QuestionOf[a]
           T == {c \in {a} \ accepted : PerPerson[QuestionOf[c]] > 0}
<1>1. q \in Questions /\ PerPerson[q] \in Nat
  BY BountyAssumption, TotalType
<1>2. ShareRow(a) \in Entries /\ ShareRow(a) = Row(AnswerBy[a], AcceptRef(a), PerPerson[q])
  BY RowTypes DEF ShareRow
<1>3. CASE a \in accepted \/ PerPerson[q] = 0
  <2>1. Share(q, a) = <<>>
    BY <1>3 DEF Share
  <2>2. T = {}
    BY <1>1, <1>3
  <2> QED
    BY <1>3, <2>1, <2>2, ListedFacts
<1>4. CASE ~ (a \in accepted \/ PerPerson[q] = 0)
  <2>1. Share(q, a) = <<ShareRow(a)>>
    BY <1>2, <1>4 DEF Share
  <2>2. T = {a}
    BY <1>1, <1>4
  <2> HIDE DEF T
  <2>3. {ShareRow(b) : b \in T} = {ShareRow(a)}
    BY <2>2
  <2>4. <<ShareRow(a)>> \in Seq(Entries) /\ Listed(<<ShareRow(a)>>) = {ShareRow(a)} /\ <<ShareRow(a)>> # <<>>
    BY <1>2, ListedFacts
  <2> QED
    BY <1>4, <2>1, <2>3, <2>4 DEF T
<1> QED
  BY <1>3, <1>4

\* create_answer has its question.
LEMMA DecideAnswerKeeps ==
  ASSUME IInv, NEW t \in Slots, DecideAnswer(t)
  PROVE  IInv'
<1>1. tx[t].op = "answer" /\ tx[t].at = "decide"
  BY DEF DecideAnswer
<1>2. CASE Rollback(t)
  BY <1>2, RollbackKeeps
<1>3. CASE ~ Rollback(t)
  <2>1. tx' = [tx EXCEPT ![t].at = "pay"] /\ UNCHANGED <<rows, holder, aborts>>
    BY <1>3 DEF DecideAnswer
  <2> DEFINE new == [tx[t] EXCEPT !.at = "pay"]
  <2>2. /\ tx[t].pay = <<>> /\ tx[t].done = {} /\ tx[t].batch = {} /\ tx[t].take = {}
        /\ tx[t] \in Txs /\ tx \in [Slots -> Txs]
    BY <1>1, Deciding
  <2>3. /\ new \in Txs /\ new.op = tx[t].op /\ new.q = tx[t].q /\ new.a = tx[t].a /\ new.at = "pay"
        /\ new.done = {} /\ new.batch = {} /\ new.take = {} /\ new.pay = <<>>
    BY <2>2 DEF Txs
  <2>4. tx' = [tx EXCEPT ![t] = new] /\ tx'[t] = new
    BY <2>1, <2>2
  <2> HIDE DEF new
  <2>5. Shares(t)' = {} /\ Refunds(t)' = {}
    BY <2>3, <2>4 DEF Shares, Refunds
  <2>6. Listed(new.pay) = {}
    BY <2>3, ListedFacts
  <2> QED
    BY <1>1, <2>1, <2>3, <2>4, <2>5, <2>6, DecideKeeps
<1> QED
  BY <1>2, <1>3

\* What accept_answer has found out when it accepts.
LEMMA NotRefused ==
  ASSUME IInv, NEW q \in Questions, NEW a \in Answers, QuestionOf[a] = q, ~ AcceptRefused(q, a)
  PROVE  /\ question[q].status = "open" /\ a \in posted
         /\ (a \notin accepted => Cardinality(AcceptedOf(q)) < People[q])
<1>1. question[q].status = "open" /\ a \in posted
  BY DEF AcceptRefused, NotOpen
<1>2. a \notin accepted => ~ (Cardinality(AcceptedOf(q)) >= People[q])
  BY DEF AcceptRefused
<1>3. Cardinality(AcceptedOf(q)) \in Nat /\ People[q] \in Nat
  <2>1. AcceptedOf(q) \subseteq Answers
    BY DEF IInv, TypeOK, AcceptedOf
  <2> QED
    BY <2>1, TotalType, BountyAssumption, FS_Subset, FS_CardinalityType
<1> QED
  BY <1>1, <1>2, <1>3

\* accept_answer has its question.
LEMMA DecideAcceptKeeps ==
  ASSUME IInv, NEW t \in Slots, DecideAccept(t)
  PROVE  IInv'
<1> DEFINE q == tx[t].q
           a == tx[t].a
<1>1. tx[t].op = "accept" /\ tx[t].at = "decide"
  BY DEF DecideAccept
<1>2. CASE Rollback(t)
  BY <1>2, RollbackKeeps
<1>3. CASE ~ Rollback(t)
  <2>1. /\ ~ AcceptRefused(q, a)
        /\ tx' = [tx EXCEPT ![t].at = "pay", ![t].take = {a} \ accepted, ![t].pay = Share(q, a)]
        /\ UNCHANGED <<rows, holder, aborts>>
    BY <1>3 DEF DecideAccept
  <2>2. /\ tx[t].pay = <<>> /\ tx[t].done = {} /\ tx[t].batch = {} /\ tx[t].take = {}
        /\ tx[t] \in Txs /\ tx \in [Slots -> Txs] /\ q \in Questions /\ a \in Answers /\ QuestionOf[a] = q
        /\ a # None
    BY <1>1, Deciding, BountyAssumption
  <2>3. /\ Share(q, a) \in Seq(Entries)
        /\ Listed(Share(q, a)) = {ShareRow(b) : b \in {c \in {a} \ accepted : PerPerson[QuestionOf[c]] > 0}}
    BY <2>2, ShareListed
  <2> DEFINE new == [tx[t] EXCEPT !.at = "pay", !.take = {a} \ accepted, !.pay = Share(q, a)]
  <2>4. /\ new \in Txs /\ new.op = tx[t].op /\ new.q = tx[t].q /\ new.a = tx[t].a /\ new.at = "pay"
        /\ new.done = {} /\ new.batch = {} /\ new.take = {a} \ accepted /\ new.pay = Share(q, a)
    BY <2>2, <2>3 DEF Txs
  <2>5. tx' = [tx EXCEPT ![t] = new] /\ tx'[t] = new
    BY <2>1, <2>2
  <2> HIDE DEF new
  <2>6. Refunds(t)' = {}
    BY <2>4, <2>5 DEF Refunds
  <2>7. Shares(t)' = {ShareRow(b) : b \in {c \in {a} \ accepted : PerPerson[QuestionOf[c]] > 0}}
    BY <2>4, <2>5 DEF Shares
  <2>8. /\ question[q].status = "open" /\ a \in posted
        /\ (a \notin accepted => Cardinality(AcceptedOf(q)) < People[q])
    BY <2>1, <2>2, NotRefused
  <2>9. \A b \in new.take :
           /\ b = tx[t].a /\ b # None /\ b \in posted \ accepted /\ question[tx[t].q].status = "open"
           /\ Cardinality(AcceptedOf(tx[t].q)) < People[tx[t].q]
    BY <2>2, <2>4, <2>8
  <2> QED
    BY <1>1, <2>1, <2>3, <2>4, <2>5, <2>6, <2>7, <2>9, DecideKeeps
<1> QED
  BY <1>2, <1>3

\* The list of close_question: a share if an answer is accepted with it, and
\* what is left after that.
LEMMA CloseListed ==
  ASSUME NEW q \in Questions, NEW share \in Seq(Entries), NEW paid \in Nat,
         share = <<>> \/ \E a \in Answers : share = <<ShareRow(a)>>
  PROVE  /\ share \o Refund(q, paid) \in Seq(Entries)
         /\ Listed(share \o Refund(q, paid)) =
              Listed(share) \cup (IF Total(q) > paid THEN {RefundRow(q, paid)} ELSE {})
<1>1. RefundRow(q, paid) \in Entries
  BY RowTypes
<1>2. CASE Total(q) > paid
  <2>1. Refund(q, paid) = <<RefundRow(q, paid)>>
    BY <1>2 DEF Refund
  <2>2. CASE share = <<>>
    <3>1. share \o Refund(q, paid) = <<RefundRow(q, paid)>>
      BY <1>1, <2>1, <2>2, ListedTwo
    <3> QED
      BY <1>1, <1>2, <2>2, <3>1, ListedFacts
  <2>3. CASE \E a \in Answers : share = <<ShareRow(a)>>
    <3>1. PICK a \in Answers : share = <<ShareRow(a)>>
      BY <2>3
    <3>2. ShareRow(a) \in Entries
      BY RowTypes
    <3>3. /\ share \o Refund(q, paid) \in Seq(Entries)
          /\ Listed(share \o Refund(q, paid)) = {ShareRow(a), RefundRow(q, paid)}
      BY <1>1, <2>1, <3>1, <3>2, ListedTwo
    <3>4. Listed(share) = {ShareRow(a)}
      BY <3>1, <3>2, ListedFacts
    <3> QED
      BY <1>2, <3>3, <3>4
  <2> QED
    BY <2>2, <2>3
<1>3. CASE ~ (Total(q) > paid)
  <2>1. Refund(q, paid) = <<>>
    BY <1>3 DEF Refund
  <2>2. share \o <<>> = share
    BY ConcatEmptySeq
  <2> QED
    BY <1>3, <2>1, <2>2
<1> QED
  BY <1>2, <1>3

\* close_question has its question.
LEMMA DecideCloseKeeps ==
  ASSUME IInv, NEW t \in Slots, DecideClose(t)
  PROVE  IInv'
<1>0. PICK q : q = tx[t].q
  OBVIOUS
<1> DEFINE a     == tx[t].a
           with  == a # None /\ a # question[q].answer
           share == IF with THEN Share(q, a) ELSE <<>>
           paid  == question[q].paid + (IF share = <<>> THEN 0 ELSE PerPerson[q])
           take  == IF with THEN {a} \ accepted ELSE {}
           pay   == share \o Refund(q, paid)
<1>1. tx[t].op = "close" /\ tx[t].at = "decide"
  BY DEF DecideClose
<1>2. CASE Rollback(t)
  BY <1>2, RollbackKeeps
<1>3. CASE ~ Rollback(t)
  <2>1. /\ question[q].status = "open" /\ (with => ~ AcceptRefused(q, a))
        /\ tx' = [tx EXCEPT ![t].at = "pay", ![t].batch = {q}, ![t].take = take, ![t].pay = pay]
        /\ UNCHANGED <<rows, holder, aborts>>
    BY <1>0, <1>3 DEF DecideClose, NotOpen
  <2>2. /\ tx[t].pay = <<>> /\ tx[t].done = {} /\ tx[t].batch = {} /\ tx[t].take = {}
        /\ tx[t] \in Txs /\ tx \in [Slots -> Txs] /\ q \in Questions
        /\ (a # None => a \in Answers /\ QuestionOf[a] = q)
    BY <1>0, <1>1, Deciding
  <2>3. /\ share \in Seq(Entries) /\ take \in SUBSET Answers
        /\ Listed(share) = {ShareRow(b) : b \in {c \in take : PerPerson[QuestionOf[c]] > 0}}
        /\ (share = <<>> \/ \E b \in Answers : share = <<ShareRow(b)>>)
        /\ (share = <<>>) <=> (take = {} \/ PerPerson[q] = 0)
    <3>1. CASE with
      <4>1. a \in Answers /\ QuestionOf[a] = q /\ share = Share(q, a) /\ take = {a} \ accepted
        BY <2>2, <3>1
      <4> HIDE DEF share, take, a
      <4>2. take = {} <=> a \in accepted
        BY <4>1
      <4> QED
        BY <4>1, <4>2, ShareListed
    <3>2. CASE ~ with
      <4>1. share = <<>> /\ take = {}
        BY <3>2
      <4> HIDE DEF share, take
      <4>2. {c \in take : PerPerson[QuestionOf[c]] > 0} = {}
        BY <4>1
      <4> QED
        BY <4>1, <4>2, ListedFacts
    <3> QED
      BY <3>1, <3>2
  <2>4. question[q].paid \in Nat /\ PerPerson[q] \in Nat
    BY <2>2, TotalType DEF IInv, TypeOK
  <2>5. \A b \in take : b = a /\ b # None /\ QuestionOf[b] = q
    BY <2>2
  <2>6. paid \in Nat /\ paid = question[q].paid + Cardinality({b \in take : QuestionOf[b] = q}) * PerPerson[q]
    <3>1. {b \in take : QuestionOf[b] = q} = take
      BY <2>5
    <3>2. CASE take = {}
      <4>1. Cardinality(take) = 0 /\ share = <<>>
        BY <2>3, <3>2, FS_EmptySet
      <4>2. paid = question[q].paid + 0
        BY <4>1
      <4>3. Cardinality({b \in take : QuestionOf[b] = q}) = 0
        BY <3>1, <4>1
      <4>4. \A m, k \in Nat : m + 0 \in Nat /\ m + 0 = m + 0 * k
        OBVIOUS
      <4> HIDE DEF paid
      <4> QED
        BY <2>4, <4>2, <4>3, <4>4
    <3>3. CASE take # {}
      <4>1. take = {a}
        BY <2>5, <3>3
      <4>2. Cardinality(take) = 1
        BY <4>1, FS_Singleton
      <4>3. share = <<>> <=> PerPerson[q] = 0
        BY <2>3, <3>3
      <4>4. paid = question[q].paid + PerPerson[q]
        BY <2>4, <4>3
      <4>5. Cardinality({b \in take : QuestionOf[b] = q}) = 1
        BY <3>1, <4>2
      <4>6. \A m, k \in Nat : m + k \in Nat /\ m + k = m + 1 * k
        OBVIOUS
      <4> HIDE DEF paid
      <4> QED
        BY <2>4, <4>4, <4>5, <4>6
    <3> QED
      BY <3>2, <3>3
  <2> HIDE DEF share, take, paid
  <2>7. /\ pay \in Seq(Entries)
        /\ Listed(pay) = Listed(share) \cup (IF Total(q) > paid THEN {RefundRow(q, paid)} ELSE {})
    BY <2>2, <2>3, <2>6, CloseListed
  <2> HIDE DEF pay
  <2> DEFINE new == [tx[t] EXCEPT !.at = "pay", !.batch = {q}, !.take = take, !.pay = pay]
  <2>8. /\ new \in Txs /\ new.op = tx[t].op /\ new.q = tx[t].q /\ new.a = tx[t].a /\ new.at = "pay"
        /\ new.done = {} /\ new.batch = {q} /\ new.take = take /\ new.pay = pay
    BY <2>2, <2>3, <2>7 DEF Txs
  <2>9. tx' = [tx EXCEPT ![t] = new] /\ tx'[t] = new
    BY <2>1, <2>2
  <2> HIDE DEF new
  <2>10. Shares(t)' = Listed(share)
    BY <2>3, <2>8, <2>9 DEF Shares
  <2>11. Refunds(t)' = IF Total(q) > paid THEN {RefundRow(q, paid)} ELSE {}
    <3>1. PaidBy(t, q)' = paid
      BY <2>1, <2>6, <2>8, <2>9 DEF PaidBy, Taken, rows
    <3>2. tx'[t].batch = {q}
      BY <2>8, <2>9
    <3>3. Refunds(t)' = {RefundRow(r, PaidBy(t, r)') : r \in {r \in {q} : Total(r) > PaidBy(t, r)'}}
      BY <3>2 DEF Refunds
    <3>4. {r \in {q} : Total(r) > PaidBy(t, r)'} = IF Total(q) > paid THEN {q} ELSE {}
      BY <3>1
    <3> QED
      BY <3>1, <3>3, <3>4
  <2>12. \A b \in new.take :
           /\ b = tx[t].a /\ b # None /\ b \in posted \ accepted /\ question[tx[t].q].status = "open"
           /\ Cardinality(AcceptedOf(tx[t].q)) < People[tx[t].q]
    <3> SUFFICES ASSUME NEW b \in take
                 PROVE  /\ b = a /\ b # None /\ b \in posted \ accepted /\ question[q].status = "open"
                        /\ Cardinality(AcceptedOf(q)) < People[q]
      BY <1>0, <2>8
    <3>1. with /\ b = a /\ b # None /\ b \notin accepted
      BY DEF take
    <3>2. a \in Answers /\ QuestionOf[a] = q /\ ~ AcceptRefused(q, a)
      BY <2>1, <2>2, <3>1
    <3>3. a \in posted /\ Cardinality(AcceptedOf(q)) < People[q]
      BY <2>2, <3>1, <3>2, NotRefused
    <3> QED
      BY <2>1, <3>1, <3>3
  <2>13. \A p \in new.batch : p = tx[t].q /\ question[p].status = "open"
    BY <1>0, <2>1, <2>8
  <2>14. Listed(new.pay) = Shares(t)' \cup Refunds(t)'
    BY <2>7, <2>8, <2>10, <2>11
  <2>15. UNCHANGED <<rows, holder, aborts>>
    BY <2>1
  <2> QED
    BY <1>1, <2>8, <2>9, <2>12, <2>13, <2>14, <2>15, DecideKeeps
<1> QED
  BY <1>2, <1>3

\* A step of reward: only the list, the booked rows and the locks change.
LEMMA PayStep ==
  ASSUME IInv, NEW t \in Slots, NEW new \in Txs,
         tx[t].at \in {"pay", "look", "book"}, new.at \in {"pay", "look", "book"},
         UNCHANGED rows, aborts' = aborts, tx' = [tx EXCEPT ![t] = new],
         new.op = tx[t].op, new.q = tx[t].q, new.a = tx[t].a,
         new.batch = tx[t].batch, new.take = tx[t].take,
         holder' \in [Questions \cup Users -> Slots \cup {None}],
         \A x \in Questions \cup Users, s \in Slots \ {t} : holder'[x] = s <=> holder[x] = s,
         \A x \in Questions \cup Users : holder[x] = t => holder'[x] = t,
         new.op = "event" => \E v \in Events : new.done \cup Listed(new.pay) \subseteq {EventRow(v)},
         new.op # "event" => new.done \cup Listed(new.pay) = Owing(t),
         BookOK(t)'
  PROVE  IInv'
<1>1. /\ tx \in [Slots -> Txs] /\ holder \in [Questions \cup Users -> Slots \cup {None}]
      /\ aborts \in 0 .. MaxAborts /\ Shape(t) /\ PlanOK(t) /\ AskOK(t) /\ HeldOK(t)
      /\ tx[t].take \in SUBSET Answers /\ tx[t].batch \in SUBSET Questions
  BY SlotTypes
<1>2. tx' \in [Slots -> Txs] /\ (\A s \in Slots \ {t} : tx'[s] = tx[s]) /\ tx'[t] = new
  BY <1>1
<1>3. tx[t].op # "free"
  BY <1>1, FreeFacts DEF Shape
<1>4. Shape(t)'
  BY <1>1, <1>2, <1>3 DEF Shape
<1>5. PlanOK(t)'
  <2>1. Owing(t)' = new.done \cup Listed(new.pay)
    BY <1>2 DEF Owing
  <2>2. Escrows(t)' = Escrows(t) /\ Shares(t)' = Shares(t) /\ Refunds(t)' = Refunds(t)
    <3>1. /\ tx'[t].op = tx[t].op /\ tx'[t].q = tx[t].q /\ tx'[t].take = tx[t].take
          /\ tx'[t].batch = tx[t].batch /\ question' = question
      BY <1>2 DEF rows
    <3>2. Escrows(t)' = Escrows(t)
      BY <3>1 DEF Escrows
    <3>3. Shares(t)' = Shares(t)
      BY <3>1 DEF Shares
    <3>4. \A q : PaidBy(t, q)' = PaidBy(t, q)
      BY <3>1 DEF PaidBy, Taken
    <3>5. Refunds(t)' = Refunds(t)
      BY <3>1, <3>4 DEF Refunds
    <3> QED
      BY <3>2, <3>3, <3>5
  <2> QED
    BY <1>1, <1>2, <2>1, <2>2 DEF PlanOK
<1>6. \A s \in Slots : tx[s].op = "ask" /\ tx'[t].op = "ask" /\ tx[s].q = tx'[t].q => s = t
  BY <1>1, <1>2 DEF AskOK
<1>7. AskOK(t)'
  <2> SUFFICES ASSUME tx[t].op = "ask", NEW s \in Slots
               PROVE  /\ question[tx[t].q].status = "absent"
                      /\ tx'[s].op = "ask" /\ tx'[s].q = tx[t].q => s = t
    BY <1>2 DEF AskOK, rows
  <2> QED
    BY <1>1, <1>2 DEF AskOK
<1>8. HeldOK(t)'
  <2>1. \A a \in tx[t].take : QuestionOf[a] \in Questions
    BY <1>1, BountyAssumption
  <2>2. \A q : AcceptedOf(q)' = AcceptedOf(q)
    BY DEF AcceptedOf, rows
  <2> QED
    BY <1>1, <1>2, <2>1, <2>2 DEF HeldOK, rows
<1>9. SlotOK(t)'
  BY <1>4, <1>5, <1>7, <1>8 DEF SlotOK
<1>10. \A x \in Questions \cup Users : holder'[x] = t => tx'[t].op # "free"
  BY <1>2, <1>3
<1> QED
  BY <1>1, <1>2, <1>6, <1>9, <1>10, SlotStep

\* The row to be booked next.
LEMMA DueFacts ==
  ASSUME IInv, NEW t \in Slots, tx[t].pay # <<>>
  PROVE  /\ Due(t) \in Entries /\ Due(t).user \in Users /\ Due(t).delta \in Int
         /\ Tail(tx[t].pay) \in Seq(Entries)
         /\ Listed(tx[t].pay) = {Due(t)} \cup Listed(Tail(tx[t].pay))
         /\ Due(t) \in Owing(t)
<1>1. tx[t].pay \in Seq(Entries)
  BY SlotTypes
<1>2. /\ Due(t) \in Entries /\ Tail(tx[t].pay) \in Seq(Entries)
      /\ Listed(tx[t].pay) = {Due(t)} \cup Listed(Tail(tx[t].pay))
  BY <1>1, ListedTail DEF Due
<1>3. Due(t).user \in Users /\ Due(t).delta \in Int
  BY <1>2 DEF Entries, LedgerRows
<1> QED
  BY <1>2, <1>3 DEF Owing

\* reward waits for the balance.
LEMMA LockBalanceKeeps ==
  ASSUME IInv, NEW t \in Slots, LockBalance(t)
  PROVE  IInv'
<1>1. /\ tx \in [Slots -> Txs] /\ holder \in [Questions \cup Users -> Slots \cup {None}]
      /\ tx[t] \in Txs /\ PlanOK(t) /\ BookOK(t) /\ tx[t].done \in SUBSET Entries
  BY SlotTypes
<1>2. /\ UNCHANGED rows /\ aborts' = aborts /\ tx[t].at = "pay" /\ tx[t].pay # <<>>
      /\ holder' = [holder EXCEPT ![Due(t).user] = t] /\ tx' = [tx EXCEPT ![t].at = "look"]
      /\ holder[Due(t).user] \in {None, t}
  BY DEF LockBalance, Paying, Available
<1>3. Due(t).user \in Users
  BY <1>2, DueFacts
<1> DEFINE new == [tx[t] EXCEPT !.at = "look"]
<1>4. /\ new \in Txs /\ new.at = "look" /\ new.op = tx[t].op /\ new.q = tx[t].q /\ new.a = tx[t].a
      /\ new.batch = tx[t].batch /\ new.take = tx[t].take /\ new.pay = tx[t].pay /\ new.done = tx[t].done
  BY <1>1 DEF Txs
<1>5. tx' = [tx EXCEPT ![t] = new] /\ tx'[t] = new
  BY <1>1, <1>2
<1> HIDE DEF new
<1>6. /\ holder' \in [Questions \cup Users -> Slots \cup {None}]
      /\ \A x \in Questions \cup Users, s \in Slots \ {t} : holder'[x] = s <=> holder[x] = s
      /\ \A x \in Questions \cup Users : holder[x] = t => holder'[x] = t
      /\ holder'[Due(t).user] = t
  BY <1>1, <1>2, <1>3, BountyAssumption
<1>7. BookOK(t)'
  <2>1. Due(t)' = Due(t) /\ \A u, ref : Booked(u, ref)' = Booked(u, ref)
    BY <1>2, <1>4, <1>5 DEF Due, Booked, rows
  <2>2. \A u : OwnDelta(t, u)' = OwnDelta(t, u)
    BY <1>4, <1>5 DEF OwnDelta
  <2>3. \A e \in tx[t].done : e.user \in Users
    BY <1>1 DEF Entries, LedgerRows
  <2>4. IsFiniteSet(tx[t].done)' /\ \A e \in tx'[t].done : holder'[e.user] = t /\ Booked(e.user, e.ref)' = {}
    BY <1>1, <1>4, <1>5, <1>6, <2>1, <2>3 DEF BookOK
  <2>5. \A u \in Users : balance'[u] + OwnDelta(t, u)' >= 0
    BY <1>1, <1>2, <2>2 DEF BookOK, rows
  <2>6. tx'[t].pay # <<>> /\ holder'[Due(t)'.user] = t /\ tx'[t].at = "look"
    BY <1>2, <1>4, <1>5, <1>6, <2>1
  <2> QED
    BY <2>4, <2>5, <2>6 DEF BookOK
<1>8. new.done \cup Listed(new.pay) = Owing(t)
  BY <1>4 DEF Owing
<1>9. new.op = "event" => \E v \in Events : new.done \cup Listed(new.pay) \subseteq {EventRow(v)}
  BY <1>1, <1>4, <1>8 DEF PlanOK
<1> QED
  BY <1>2, <1>4, <1>5, <1>6, <1>7, <1>8, <1>9, PayStep

\* The key of an escrow, a share or a refund that is still to be booked is
\* not in the ledger: only the events of the consumer may meet their row.
LEMMA PlanUnbooked ==
  ASSUME IInv, NEW t \in Slots, tx[t].op # "event", NEW e \in Owing(t)
  PROVE  Of(e.ref) = {}
<1>1. PlanOK(t) /\ AskOK(t) /\ HeldOK(t) /\ LedgerIs
      /\ tx[t].take \in SUBSET Answers /\ tx[t].batch \in SUBSET Questions
  BY SlotTypes DEF IInv
<1>2. e \in Escrows(t) \cup Shares(t) \cup Refunds(t)
  BY <1>1 DEF PlanOK
<1>3. CASE e \in Escrows(t)
  <2>1. PICK q \in Questions : tx[t].op = "ask" /\ tx[t].q = q /\ e = EscrowRow(q)
    BY <1>3 DEF Escrows
  <2>2. e.ref = EscrowRef(q) /\ question[q].status = "absent"
    BY <1>1, <2>1, RowFields DEF EscrowRow, AskOK
  <2> QED
    BY <1>1, <2>2 DEF LedgerIs
<1>4. CASE e \in Shares(t)
  <2>1. PICK a \in tx[t].take : e = ShareRow(a)
    BY <1>4 DEF Shares
  <2>2. e.ref = AcceptRef(a) /\ a \notin accepted /\ a \in Answers
    BY <1>1, <2>1, RowFields DEF ShareRow, HeldOK
  <2> QED
    BY <1>1, <2>2 DEF LedgerIs
<1>5. CASE e \in Refunds(t)
  <2>1. PICK q \in tx[t].batch : e = RefundRow(q, PaidBy(t, q))
    BY <1>5 DEF Refunds
  <2>2. e.ref = RefundRef(q) /\ question[q].status = "open" /\ q \in Questions
    BY <1>1, <2>1, RowFields DEF RefundRow, HeldOK
  <2> QED
    BY <1>1, <2>2 DEF LedgerIs
<1> QED
  BY <1>2, <1>3, <1>4, <1>5

\* get_by_ref: only an event finds its row, and is done with it.
LEMMA LookUpKeeps ==
  ASSUME IInv, NEW t \in Slots, LookUp(t)
  PROVE  IInv'
<1>1. CASE Rollback(t)
  BY <1>1, RollbackKeeps
<1>2. CASE ~ Rollback(t)
  <2> DEFINE old == Booked(Due(t).user, Due(t).ref)
             at  == IF old = {} THEN "book" ELSE "pay"
             pay == IF old = {} THEN tx[t].pay ELSE Tail(tx[t].pay)
  <2>1. tx[t].at = "look" /\ tx[t].pay # <<>>
    BY DEF LookUp, Paying
  <2>2. /\ tx \in [Slots -> Txs] /\ holder \in [Questions \cup Users -> Slots \cup {None}]
        /\ tx[t] \in Txs /\ PlanOK(t) /\ BookOK(t) /\ tx[t].pay \in Seq(Entries)
    BY SlotTypes
  <2>3. /\ tx' = [tx EXCEPT ![t].at = at, ![t].pay = pay]
        /\ UNCHANGED <<rows, holder, aborts>>
    BY <1>2, <2>2 DEF LookUp, Txs
  <2>4. /\ Due(t) \in Entries /\ Due(t).user \in Users /\ Due(t) \in Owing(t)
        /\ Tail(tx[t].pay) \in Seq(Entries)
        /\ Listed(tx[t].pay) = {Due(t)} \cup Listed(Tail(tx[t].pay))
    BY <2>1, DueFacts
  <2>5. at \in {"pay", "book"} /\ pay \in Seq(Entries) /\ Listed(pay) \subseteq Listed(tx[t].pay)
    BY <2>2, <2>4
  <2>6. (at = "book") <=> (old = {})
    OBVIOUS
  <2>7. at = "book" => pay = tx[t].pay
    OBVIOUS
  <2> HIDE DEF at, pay
  <2> DEFINE new == [tx[t] EXCEPT !.at = at, !.pay = pay]
  <2>8. /\ new \in Txs /\ new.at = at /\ new.op = tx[t].op /\ new.q = tx[t].q /\ new.a = tx[t].a
        /\ new.batch = tx[t].batch /\ new.take = tx[t].take /\ new.pay = pay /\ new.done = tx[t].done
    BY <2>2, <2>5 DEF Txs
  <2>9. tx' = [tx EXCEPT ![t] = new] /\ tx'[t] = new
    BY <2>2, <2>3
  <2> HIDE DEF new
  <2>10. new.op # "event" => old = {}
    <3> SUFFICES ASSUME tx[t].op # "event" PROVE old = {}
      BY <2>8
    <3>1. Of(Due(t).ref) = {}
      BY <2>4, PlanUnbooked
    <3> QED
      BY <3>1 DEF Of, Booked
  <2>11. new.op # "event" => new.done \cup Listed(new.pay) = Owing(t)
    BY <2>6, <2>7, <2>8, <2>10 DEF Owing
  <2>12. new.op = "event" => \E v \in Events : new.done \cup Listed(new.pay) \subseteq {EventRow(v)}
    <3>1. new.done \cup Listed(new.pay) \subseteq Owing(t)
      BY <2>5, <2>8 DEF Owing
    <3> QED
      BY <2>2, <2>8, <3>1 DEF PlanOK
  <2>13. BookOK(t)'
    <3>1. \A u, ref : Booked(u, ref)' = Booked(u, ref)
      BY <2>3 DEF Booked, rows
    <3>2. \A u : OwnDelta(t, u)' = OwnDelta(t, u)
      BY <2>8, <2>9 DEF OwnDelta
    <3>3. IsFiniteSet(tx[t].done)' /\ \A e \in tx'[t].done : holder'[e.user] = t /\ Booked(e.user, e.ref)' = {}
      BY <2>2, <2>3, <2>8, <2>9, <3>1 DEF BookOK
    <3>4. \A u \in Users : balance'[u] + OwnDelta(t, u)' >= 0
      BY <2>2, <2>3, <3>2 DEF BookOK, rows
    <3>5. CASE at = "book"
      <4>1. Due(t)' = Due(t) /\ tx'[t].pay # <<>>
        BY <2>1, <2>7, <2>8, <2>9, <3>5 DEF Due
      <4>2. holder'[Due(t).user] = t /\ Booked(Due(t).user, Due(t).ref)' = {}
        <5>1. holder[Due(t).user] = t
          BY <2>1, <2>2 DEF BookOK
        <5>2. old = {}
          BY <2>6, <3>5
        <5> QED
          BY <2>3, <3>1, <4>1, <5>1, <5>2
      <4> QED
        BY <2>3, <3>3, <3>4, <4>1, <4>2 DEF BookOK
    <3>6. CASE at = "pay"
      <4>1. tx'[t].at = "pay"
        BY <2>8, <2>9, <3>6
      <4> QED
        BY <3>3, <3>4, <4>1 DEF BookOK
    <3> QED
      BY <2>5, <3>5, <3>6
  <2> QED
    BY <2>1, <2>2, <2>3, <2>5, <2>8, <2>9, <2>11, <2>12, <2>13, PayStep
<1> QED
  BY <1>1, <1>2

\* The balance is changed and the ledger row inserted.
LEMMA BookKeeps ==
  ASSUME IInv, NEW t \in Slots, Book(t)
  PROVE  IInv'
<1>1. CASE Rollback(t)
  BY <1>1, RollbackKeeps
<1>2. CASE ~ Rollback(t)
  <2>1. tx[t].at = "book" /\ tx[t].pay # <<>>
    BY DEF Book, Paying
  <2>2. /\ ~ Overdrawn(t) /\ UNCHANGED rows /\ aborts' = aborts
        /\ tx' = [tx EXCEPT ![t].at = "pay", ![t].pay = Tail(@), ![t].done = @ \cup {Due(t)}]
        /\ holder' = [holder EXCEPT ![Due(t).user] = t]
    BY <1>2 DEF Book
  <2>3. /\ tx \in [Slots -> Txs] /\ holder \in [Questions \cup Users -> Slots \cup {None}]
        /\ tx[t] \in Txs /\ PlanOK(t) /\ BookOK(t) /\ tx[t].done \in SUBSET Entries
        /\ Typed(tx[t].done)
        /\ \A u \in Users : Typed({e \in tx[t].done : e.user = u}) /\ OwnDelta(t, u) \in Int
        /\ \A u \in Users : balance[u] \in Int /\ balance[u] >= 0
    BY SlotTypes
  <2>4. /\ Due(t) \in Entries /\ Due(t).user \in Users /\ Due(t).delta \in Int
        /\ Tail(tx[t].pay) \in Seq(Entries)
        /\ Listed(tx[t].pay) = {Due(t)} \cup Listed(Tail(tx[t].pay))
    BY <2>1, DueFacts
  <2>5. holder[Due(t).user] = t /\ Booked(Due(t).user, Due(t).ref) = {}
    BY <2>1, <2>3 DEF BookOK
  <2>6. holder' = holder
    BY <2>2, <2>3, <2>4, <2>5
  <2>7. PICK row : row = Due(t)
    OBVIOUS
  <2>8. PICK done : done = tx[t].done
    OBVIOUS
  <2> DEFINE new == [tx[t] EXCEPT !.at = "pay", !.pay = Tail(tx[t].pay), !.done = done \cup {row}]
  <2>9. /\ new \in Txs /\ new.at = "pay" /\ new.op = tx[t].op /\ new.q = tx[t].q /\ new.a = tx[t].a
        /\ new.batch = tx[t].batch /\ new.take = tx[t].take /\ new.pay = Tail(tx[t].pay)
        /\ new.done = done \cup {row}
    BY <2>3, <2>4, <2>7, <2>8 DEF Txs
  <2>10. tx' = [tx EXCEPT ![t] = new] /\ tx'[t] = new
    BY <2>2, <2>3, <2>7, <2>8
  <2> HIDE DEF new
  <2>11. new.done \cup Listed(new.pay) = Owing(t)
    BY <2>4, <2>7, <2>8, <2>9 DEF Owing
  <2>12. new.op = "event" => \E v \in Events : new.done \cup Listed(new.pay) \subseteq {EventRow(v)}
    BY <2>3, <2>9, <2>11 DEF PlanOK
  <2>13. BookOK(t)'
    <3>1. \A u, ref : Booked(u, ref)' = Booked(u, ref)
      BY <2>2 DEF Booked, rows
    <3>2. IsFiniteSet(tx'[t].done)
      BY <2>3, <2>8, <2>9, <2>10, FS_AddElement DEF Typed
    <3>3. ASSUME NEW e \in done \cup {row} PROVE holder'[e.user] = t /\ Booked(e.user, e.ref)' = {}
      BY <2>3, <2>5, <2>6, <2>7, <2>8, <3>1 DEF BookOK
    <3>4. ASSUME NEW u \in Users PROVE balance'[u] + OwnDelta(t, u)' >= 0
      <4>1. OwnDelta(t, u)' = Deltas({e \in done \cup {row} : e.user = u})
        BY <2>9, <2>10 DEF OwnDelta
      <4>2. OwnDelta(t, u) = Deltas({e \in done : e.user = u})
        BY <2>8 DEF OwnDelta
      <4>3. balance'[u] = balance[u] /\ balance[u] + OwnDelta(t, u) >= 0
        BY <2>2, <2>3 DEF rows, BookOK
      <4>4. CASE row \in done \/ row.user # u
        <5>1. {e \in done \cup {row} : e.user = u} = {e \in done : e.user = u}
          BY <4>4
        <5> QED
          BY <4>1, <4>2, <4>3, <5>1
      <4>5. CASE row \notin done /\ row.user = u
        <5> DEFINE own == {e \in done : e.user = u}
        <5>1. {e \in done \cup {row} : e.user = u} = own \cup {row}
          BY <4>5
        <5>2. Typed(own) /\ row \notin own /\ row.delta \in Int
          BY <2>3, <2>4, <2>7, <2>8, <4>5
        <5> HIDE DEF own
        <5>3. Deltas(own \cup {row}) = Deltas(own) + row.delta
          BY <5>2, SumWith
        <5>4. OwnDelta(t, u)' = OwnDelta(t, u) + row.delta
          BY <4>1, <4>2, <5>1, <5>3 DEF own
        <5>5. ~ (balance[u] + OwnDelta(t, u) + row.delta < 0)
          BY <2>2, <2>7, <4>5 DEF Overdrawn
        <5>6. balance[u] \in Int /\ OwnDelta(t, u) \in Int
          BY <2>3
        <5> QED
          BY <4>3, <5>2, <5>4, <5>5, <5>6
      <4> QED
        BY <4>4, <4>5
    <3> QED
      BY <2>9, <2>10, <3>2, <3>3, <3>4 DEF BookOK
  <2>14. /\ holder' \in [Questions \cup Users -> Slots \cup {None}]
         /\ \A x \in Questions \cup Users, s \in Slots \ {t} : holder'[x] = s <=> holder[x] = s
         /\ \A x \in Questions \cup Users : holder[x] = t => holder'[x] = t
    BY <2>3, <2>6
  <2> QED
    BY <2>1, <2>2, <2>9, <2>10, <2>11, <2>12, <2>13, <2>14, PayStep
<1> QED
  BY <1>1, <1>2

\* expire_due_questions.
LEMMA ExpireKeeps ==
  ASSUME IInv, NEW t \in Slots, Expire(t)
  PROVE  IInv'
<1>1. /\ TypeOK /\ tx \in [Slots -> Txs] /\ holder \in [Questions \cup Users -> Slots \cup {None}]
      /\ aborts \in 0 .. MaxAborts
      /\ \A u \in Users : balance[u] \in Int /\ balance[u] >= 0
  BY SlotTypes
<1>2. PICK E : E = Expirable
  OBVIOUS
<1>3. PICK S : S = {q \in E : Total(q) > question[q].paid}
  OBVIOUS
<1>4. PICK order \in InSomeOrder(S) :
        tx' = [tx EXCEPT ![t] = [Free EXCEPT !.op = "expire", !.at = "pay", !.batch = E,
                 !.pay = [i \in DOMAIN order |-> RefundRow(order[i], question[order[i]].paid)]]]
  BY <1>2, <1>3 DEF Expire
<1>5. /\ UNCHANGED rows /\ aborts' = aborts
      /\ holder' = [x \in DOMAIN holder |-> IF x \in E THEN t ELSE holder[x]]
  BY <1>2 DEF Expire
<1>6. /\ E \in SUBSET Questions /\ S \in SUBSET E
      /\ \A q \in E : question[q].status = "open" /\ holder[q] = None /\ question[q].paid \in Nat
  BY <1>1, <1>2, <1>3 DEF Expirable, TypeOK
<1>7. IsFiniteSet(S) /\ Cardinality(S) \in Nat
  BY <1>6, BountyAssumption, FS_Subset, FS_CardinalityType
<1>8. /\ DOMAIN order = 1 .. Cardinality(S) /\ \A i \in 1 .. Cardinality(S) : order[i] \in S
      /\ \A q \in S : \E i \in 1 .. Cardinality(S) : order[i] = q
  BY DEF InSomeOrder
<1> DEFINE row(q) == RefundRow(q, question[q].paid)
           pay == [i \in 1 .. Cardinality(S) |-> row(order[i])]
<1>9. \A q \in S : row(q) \in Entries
  BY <1>6, RowTypes
<1>10. pay \in Seq(Entries) /\ Len(pay) = Cardinality(S)
  <2>1. pay \in [1 .. Cardinality(S) -> Entries]
    BY <1>8, <1>9
  <2> HIDE DEF pay
  <2>2. pay \in Seq(Entries)
    BY <1>7, <2>1
  <2> QED
    BY <1>7, <2>1, <2>2
<1>11. Listed(pay) = {row(q) : q \in S}
  <2>1. \A i \in 1 .. Cardinality(S) : pay[i] = row(order[i])
    OBVIOUS
  <2> HIDE DEF pay, row
  <2>2. Listed(pay) = {row(order[i]) : i \in 1 .. Cardinality(S)}
    BY <1>10, <2>1 DEF Listed
  <2> QED
    BY <1>8, <2>2
<1> DEFINE new == [Free EXCEPT !.op = "expire", !.at = "pay", !.batch = E, !.pay = pay]
<1>12. tx' = [tx EXCEPT ![t] = new]
  BY <1>4, <1>8
<1> HIDE DEF pay
<1>13. /\ new \in Txs /\ new.op = "expire" /\ new.at = "pay" /\ new.batch = E /\ new.pay = pay
       /\ new.done = {} /\ new.take = {}
  BY <1>6, <1>10 DEF Free, Txs
<1> HIDE DEF new
<1>14. tx' \in [Slots -> Txs] /\ (\A s \in Slots \ {t} : tx'[s] = tx[s]) /\ tx'[t] = new
  BY <1>1, <1>12, <1>13
<1>15. /\ holder' \in [Questions \cup Users -> Slots \cup {None}]
       /\ \A x \in Questions \cup Users, s \in Slots \ {t} : holder'[x] = s <=> holder[x] = s
       /\ \A q \in E : holder'[q] = t
  BY <1>1, <1>5, <1>6, BountyAssumption
<1>16. Shape(t)' /\ AskOK(t)'
  BY <1>13, <1>14 DEF Shape, AskOK
<1>17. PlanOK(t)'
  <2>1. Owing(t)' = {row(q) : q \in S}
    BY <1>11, <1>13, <1>14 DEF Owing
  <2>2. Escrows(t)' = {} /\ Shares(t)' = {}
    BY <1>13, <1>14 DEF Escrows, Shares
  <2>3. \A q \in E : PaidBy(t, q)' = question[q].paid
    <3> SUFFICES ASSUME NEW q \in E PROVE PaidBy(t, q)' = question[q].paid
      OBVIOUS
    <3>1. Taken(t, q)' = {}
      BY <1>13, <1>14 DEF Taken
    <3>2. Cardinality(Taken(t, q)') = 0
      BY <3>1, FS_EmptySet
    <3>3. PaidBy(t, q)' = question[q].paid + 0 * PerPerson[q]
      BY <1>5, <3>2 DEF PaidBy, rows
    <3>4. question[q].paid \in Nat /\ PerPerson[q] \in Nat
      BY <1>6, TotalType
    <3> QED
      BY <3>3, <3>4
  <2>4. Refunds(t)' = {RefundRow(q, PaidBy(t, q)') : q \in {r \in E : Total(r) > PaidBy(t, r)'}}
    BY <1>13, <1>14 DEF Refunds
  <2>5. {r \in E : Total(r) > PaidBy(t, r)'} = S
    BY <1>3, <2>3
  <2>6. Refunds(t)' = {row(q) : q \in S}
    BY <1>6, <2>3, <2>4, <2>5
  <2> HIDE DEF row
  <2> QED
    BY <1>13, <1>14, <2>1, <2>2, <2>6 DEF PlanOK
<1>18. HeldOK(t)'
  BY <1>5, <1>6, <1>13, <1>14, <1>15 DEF HeldOK, rows
<1>19. BookOK(t)'
  <2>1. IsFiniteSet(tx'[t].done)
    BY <1>13, <1>14, FS_EmptySet
  <2>2. \A u \in Users : OwnDelta(t, u)' = 0
    <3> SUFFICES ASSUME NEW u \in Users PROVE OwnDelta(t, u)' = 0
      OBVIOUS
    <3>1. {e \in tx'[t].done : e.user = u} = {}
      BY <1>13, <1>14
    <3> QED
      BY <3>1, SumNone DEF OwnDelta
  <2>3. \A u \in Users : balance'[u] + OwnDelta(t, u)' >= 0
    BY <1>1, <1>5, <2>2 DEF rows
  <2> QED
    BY <1>13, <1>14, <2>1, <2>3 DEF BookOK
<1>20. SlotOK(t)'
  BY <1>16, <1>17, <1>18, <1>19 DEF SlotOK
<1>21. tx'[t].op # "free" /\ tx'[t].op # "ask"
  BY <1>13, <1>14
<1> QED
  BY <1>1, <1>5, <1>14, <1>15, <1>20, <1>21, SlotStep

\* The clock.
LEMMA BecomeDueKeeps ==
  ASSUME IInv, NEW q \in Questions, BecomeDue(q)
  PROVE  IInv'
<1>1. /\ UNCHANGED <<balance, ledger, question, posted, accepted, holder, tx, aborts>>
      /\ due' = due \cup {q}
  BY DEF BecomeDue
<1>2. TypeOK'
  BY <1>1 DEF IInv, TypeOK
<1>3. IsFiniteSet(ledger)' /\ LedgerIs' /\ LedgerSound'
  BY <1>1 DEF IInv, LedgerIs, Of, LedgerSound, BookedOnce, LedgerExplains, NoOverdraft
<1>4. ASSUME NEW p \in Questions PROVE QuestionOK(p)'
  BY <1>1 DEF IInv, QuestionOK, AcceptedOf
<1>5. ASSUME NEW t \in Slots PROVE SlotOK(t)'
  <2>1. Shape(t) /\ PlanOK(t) /\ AskOK(t) /\ HeldOK(t) /\ BookOK(t)
    BY SlotTypes
  <2>2. Shape(t)' /\ AskOK(t)' /\ HeldOK(t)'
    BY <1>1, <2>1 DEF Shape, AskOK, HeldOK, AcceptedOf
  <2>3. PlanOK(t)'
    BY <1>1, <2>1 DEF PlanOK, Owing, Escrows, Shares, Refunds, PaidBy, Taken
  <2>4. BookOK(t)'
    BY <1>1, <2>1 DEF BookOK, OwnDelta, Booked, Due
  <2> QED
    BY <2>2, <2>3, <2>4 DEF SlotOK
<1> QED
  BY <1>2, <1>3, <1>4, <1>5 DEF IInv

-----------------------------------------------------------------------------
(* Commit                                                                  *)

\* The answers that t accepts.
LEMMA TakenFacts ==
  ASSUME IInv, NEW t \in Slots, NEW q \in Questions
  PROVE  /\ Taken(t, q) \in SUBSET Answers /\ IsFiniteSet(Taken(t, q))
         /\ (Taken(t, q) = {} \/ \E a \in Answers : Taken(t, q) = {a})
         /\ AcceptedOf(q) \in SUBSET Answers /\ IsFiniteSet(AcceptedOf(q))
         /\ Cardinality(AcceptedOf(q)) \in Nat /\ Cardinality(Taken(t, q)) \in Nat
         /\ (Taken(t, q) = {} => Cardinality(Taken(t, q)) = 0)
         /\ (Taken(t, q) # {} => /\ Cardinality(Taken(t, q)) = 1 /\ question[q].status = "open"
                                 /\ holder[q] = t /\ Cardinality(AcceptedOf(q)) < People[q])
         /\ AcceptedOf(q) \cap Taken(t, q) = {}
         /\ question[q].paid \in Nat /\ PerPerson[q] \in Nat /\ People[q] \in Nat /\ Total(q) \in Nat
<1>1. TypeOK /\ HeldOK(t) /\ tx[t].take \in SUBSET Answers
  BY SlotTypes
<1>2. Taken(t, q) \in SUBSET Answers /\ AcceptedOf(q) \in SUBSET Answers
  BY <1>1 DEF Taken, AcceptedOf, TypeOK
<1>3. IsFiniteSet(Taken(t, q)) /\ IsFiniteSet(AcceptedOf(q))
  BY <1>2, BountyAssumption, FS_Subset
<1>4. Cardinality(AcceptedOf(q)) \in Nat /\ Cardinality(Taken(t, q)) \in Nat
  BY <1>3, FS_CardinalityType
<1>5. \A a, b \in Taken(t, q) : a = b
  BY <1>1 DEF Taken, HeldOK
<1>6. Taken(t, q) = {} \/ \E a \in Answers : Taken(t, q) = {a}
  <2> SUFFICES ASSUME NEW a \in Taken(t, q) PROVE Taken(t, q) = {a} /\ a \in Answers
    OBVIOUS
  <2> QED
    BY <1>2, <1>5
<1>7. Taken(t, q) = {} => Cardinality(Taken(t, q)) = 0
  BY FS_EmptySet
<1>8. Taken(t, q) # {} => Cardinality(Taken(t, q)) = 1
  BY <1>6, FS_Singleton
<1>9. ASSUME NEW a \in Taken(t, q)
      PROVE  /\ question[q].status = "open" /\ holder[q] = t /\ Cardinality(AcceptedOf(q)) < People[q]
             /\ a \notin accepted
  <2>1. a \in tx[t].take /\ QuestionOf[a] = q
    BY DEF Taken
  <2> QED
    BY <1>1, <2>1 DEF HeldOK
<1>10. AcceptedOf(q) \cap Taken(t, q) = {}
  BY <1>9 DEF AcceptedOf
<1>11. question[q].paid \in Nat /\ PerPerson[q] \in Nat /\ People[q] \in Nat /\ Total(q) \in Nat
  BY <1>1, TotalType DEF TypeOK
<1> QED
  BY <1>2, <1>3, <1>4, <1>6, <1>7, <1>8, <1>9, <1>10, <1>11

\* The row of a question after t has committed.
LEMMA CommitQuestion ==
  ASSUME IInv, NEW t \in Slots, Commit(t), NEW q \in Questions
  PROVE  /\ question'[q] \in [status : Statuses, paid : Nat, answer : Answers \cup {None}]
         /\ question'[q].paid = PaidBy(t, q)
         /\ (tx[t].op = "ask" /\ tx[t].q = q =>
               question[q].status = "absent" /\ question'[q].status = "open" /\ q \notin tx[t].batch)
         /\ (q \in tx[t].batch =>
               question[q].status = "open" /\ question'[q].status \in {"accepted", "closed"} /\ holder[q] = t)
         /\ (~ (tx[t].op = "ask" /\ tx[t].q = q) /\ q \notin tx[t].batch
               => question'[q].status = question[q].status)
         /\ (Taken(t, q) = {} => PaidBy(t, q) = question[q].paid)
         /\ AcceptedOf(q)' = AcceptedOf(q) \cup Taken(t, q)
<1>1. /\ TypeOK /\ Shape(t) /\ AskOK(t) /\ HeldOK(t)
  BY SlotTypes
<1>2. /\ question[q] \in [status : Statuses, paid : Nat, answer : Answers \cup {None}]
      /\ question'[q] = IF tx[t].op = "ask" /\ tx[t].q = q
                          THEN [question[q] EXCEPT !.status = "open"] ELSE AfterSettle(t, q)
      /\ accepted' = accepted \cup tx[t].take
  BY <1>1 DEF Commit, TypeOK
<1>3. /\ Taken(t, q) \in SUBSET Answers /\ Cardinality(Taken(t, q)) \in Nat
      /\ (Taken(t, q) = {} => Cardinality(Taken(t, q)) = 0)
      /\ question[q].paid \in Nat /\ PerPerson[q] \in Nat
  BY TakenFacts
<1>4. Taken(t, q) = {} => PaidBy(t, q) = question[q].paid
  BY <1>3 DEF PaidBy
<1>5. PaidBy(t, q) \in Nat
  <2>1. \A l, m, n \in Nat : l + m * n \in Nat
    OBVIOUS
  <2> QED
    BY <1>3, <2>1 DEF PaidBy
<1>6. AcceptedOf(q)' = AcceptedOf(q) \cup Taken(t, q)
  BY <1>2 DEF AcceptedOf, Taken
<1>7. q \in tx[t].batch => question[q].status = "open" /\ holder[q] = t
  BY <1>1 DEF HeldOK
<1>8. CASE tx[t].op = "ask" /\ tx[t].q = q
  <2>1. question[q].status = "absent" /\ tx[t].batch = {} /\ Taken(t, q) = {}
    BY <1>1, <1>8 DEF AskOK, Shape, Taken
  <2>2. /\ question'[q] \in [status : Statuses, paid : Nat, answer : Answers \cup {None}]
        /\ question'[q].paid = question[q].paid /\ question'[q].status = "open"
    BY <1>2, <1>8 DEF Statuses
  <2> QED
    BY <1>4, <1>6, <1>8, <2>1, <2>2
<1>9. CASE ~ (tx[t].op = "ask" /\ tx[t].q = q)
  <2> DEFINE row == AfterAccept(t, q)
             ans == IF Taken(t, q) = {} THEN question[q].answer ELSE CHOOSE a \in Taken(t, q) : TRUE
  <2>1. ans \in Answers \cup {None}
    BY <1>2, <1>3
  <2>2. row = [question[q] EXCEPT !.paid = PaidBy(t, q), !.answer = ans]
    BY <1>2 DEF AfterAccept, PaidBy
  <2> HIDE DEF ans, row
  <2>3. /\ row \in [status : Statuses, paid : Nat, answer : Answers \cup {None}]
        /\ row.paid = PaidBy(t, q) /\ row.status = question[q].status
    BY <1>2, <1>5, <2>1, <2>2
  <2>4. question'[q] = IF q \in tx[t].batch
                         THEN [row EXCEPT !.status = IF row.answer # None THEN "accepted" ELSE "closed"]
                         ELSE row
    BY <1>2, <1>9 DEF AfterSettle, row
  <2>5. CASE q \in tx[t].batch
    <3> DEFINE st == IF row.answer # None THEN "accepted" ELSE "closed"
    <3>1. st \in {"accepted", "closed"} /\ st \in Statuses
      BY DEF Statuses
    <3>2. question'[q] = [row EXCEPT !.status = st]
      BY <2>4, <2>5
    <3> HIDE DEF st
    <3>3. /\ question'[q] \in [status : Statuses, paid : Nat, answer : Answers \cup {None}]
          /\ question'[q].paid = PaidBy(t, q) /\ question'[q].status = st
      BY <2>3, <3>1, <3>2
    <3> QED
      BY <1>4, <1>6, <1>7, <1>9, <2>5, <3>1, <3>3
  <2>6. CASE q \notin tx[t].batch
    BY <1>4, <1>6, <1>9, <2>3, <2>4, <2>6
  <2> QED
    BY <2>5, <2>6
<1> QED
  BY <1>8, <1>9

\* What t leaves alone.
LEMMA CommitElsewhere ==
  ASSUME IInv, NEW t \in Slots, Commit(t), NEW q \in Questions, holder[q] # t,
         ~ (tx[t].op = "ask" /\ tx[t].q = q)
  PROVE  /\ question'[q].status = question[q].status /\ question'[q].paid = question[q].paid
         /\ AcceptedOf(q)' = AcceptedOf(q)
<1>1. Taken(t, q) = {}
  BY TakenFacts
<1>2. q \notin tx[t].batch
  BY SlotTypes DEF HeldOK
<1>3. /\ question'[q].paid = PaidBy(t, q)
      /\ (~ (tx[t].op = "ask" /\ tx[t].q = q) /\ q \notin tx[t].batch
            => question'[q].status = question[q].status)
      /\ (Taken(t, q) = {} => PaidBy(t, q) = question[q].paid)
  BY CommitQuestion
<1>4. AcceptedOf(q)' = AcceptedOf(q) \cup Taken(t, q)
  BY CommitQuestion
<1> QED
  BY <1>1, <1>2, <1>3, <1>4

\* The rows that t has booked, by their key.
LEMMA DoneOf ==
  ASSUME IInv, NEW t \in Slots, tx[t].pay = <<>>
  PROVE  /\ \A q \in Questions : {e \in tx[t].done : e.ref = EscrowRef(q)} =
              IF tx[t].op = "ask" /\ tx[t].q = q /\ Total(q) > 0 THEN {EscrowRow(q)} ELSE {}
         /\ \A a \in Answers : {e \in tx[t].done : e.ref = AcceptRef(a)} =
              IF a \in tx[t].take /\ PerPerson[QuestionOf[a]] > 0 THEN {ShareRow(a)} ELSE {}
         /\ \A q \in Questions : {e \in tx[t].done : e.ref = RefundRef(q)} =
              IF q \in tx[t].batch /\ Total(q) > PaidBy(t, q) THEN {RefundRow(q, PaidBy(t, q))} ELSE {}
<1>1. PlanOK(t) /\ Shape(t)
  BY SlotTypes
<1>2. tx[t].done = Owing(t)
  BY ListedFacts DEF Owing
<1>3. CASE tx[t].op = "event"
  <2>1. tx[t].batch = {} /\ tx[t].take = {}
    BY <1>1, <1>3 DEF Shape
  <2>2. \A e \in tx[t].done : \E v \in Events : e.ref = EventRef(v)
    BY <1>1, <1>2, <1>3, RowFields DEF PlanOK, EventRow
  <2>3. \A e \in tx[t].done : \A x : e.ref # EscrowRef(x) /\ e.ref # AcceptRef(x) /\ e.ref # RefundRef(x)
    BY <2>2, RefsApart
  <2> QED
    BY <1>3, <2>1, <2>3
<1>4. CASE tx[t].op # "event"
  <2>1. tx[t].done = Escrows(t) \cup Shares(t) \cup Refunds(t)
    BY <1>1, <1>2, <1>4 DEF PlanOK
  <2>2. \A e \in Escrows(t) : \E q \in Questions :
          e = EscrowRow(q) /\ e.ref = EscrowRef(q) /\ tx[t].op = "ask" /\ tx[t].q = q /\ Total(q) > 0
    BY RowFields DEF Escrows, EscrowRow
  <2>3. \A e \in Shares(t) : \E a \in tx[t].take :
          e = ShareRow(a) /\ e.ref = AcceptRef(a) /\ PerPerson[QuestionOf[a]] > 0
    BY RowFields DEF Shares, ShareRow
  <2>4. \A e \in Refunds(t) : \E q \in tx[t].batch :
          e = RefundRow(q, PaidBy(t, q)) /\ e.ref = RefundRef(q) /\ Total(q) > PaidBy(t, q)
    BY RowFields DEF Refunds, RefundRow
  <2>5. ASSUME NEW q \in Questions
        PROVE  {e \in tx[t].done : e.ref = EscrowRef(q)} =
                 IF tx[t].op = "ask" /\ tx[t].q = q /\ Total(q) > 0 THEN {EscrowRow(q)} ELSE {}
    <3>1. \A e \in tx[t].done : e.ref = EscrowRef(q) =>
            e = EscrowRow(q) /\ tx[t].op = "ask" /\ tx[t].q = q /\ Total(q) > 0
      BY <2>1, <2>2, <2>3, <2>4, RefsApart
    <3>2. tx[t].op = "ask" /\ tx[t].q = q /\ Total(q) > 0 => EscrowRow(q) \in Escrows(t)
      BY DEF Escrows
    <3>3. EscrowRow(q).ref = EscrowRef(q)
      BY RowFields DEF EscrowRow
    <3> QED
      BY <2>1, <3>1, <3>2, <3>3
  <2>6. ASSUME NEW a \in Answers
        PROVE  {e \in tx[t].done : e.ref = AcceptRef(a)} =
                 IF a \in tx[t].take /\ PerPerson[QuestionOf[a]] > 0 THEN {ShareRow(a)} ELSE {}
    <3>1. \A e \in tx[t].done : e.ref = AcceptRef(a) =>
            e = ShareRow(a) /\ a \in tx[t].take /\ PerPerson[QuestionOf[a]] > 0
      BY <2>1, <2>2, <2>3, <2>4, RefsApart
    <3>2. a \in tx[t].take /\ PerPerson[QuestionOf[a]] > 0 => ShareRow(a) \in Shares(t)
      BY DEF Shares
    <3>3. ShareRow(a).ref = AcceptRef(a)
      BY RowFields DEF ShareRow
    <3> QED
      BY <2>1, <3>1, <3>2, <3>3
  <2>7. ASSUME NEW q \in Questions
        PROVE  {e \in tx[t].done : e.ref = RefundRef(q)} =
                 IF q \in tx[t].batch /\ Total(q) > PaidBy(t, q) THEN {RefundRow(q, PaidBy(t, q))} ELSE {}
    <3>1. \A e \in tx[t].done : e.ref = RefundRef(q) =>
            e = RefundRow(q, PaidBy(t, q)) /\ q \in tx[t].batch /\ Total(q) > PaidBy(t, q)
      BY <2>1, <2>2, <2>3, <2>4, RefsApart
    <3>2. q \in tx[t].batch /\ Total(q) > PaidBy(t, q) => RefundRow(q, PaidBy(t, q)) \in Refunds(t)
      BY DEF Refunds
    <3>3. RefundRow(q, PaidBy(t, q)).ref = RefundRef(q)
      BY RowFields DEF RefundRow
    <3> QED
      BY <2>1, <3>1, <3>2, <3>3
  <2> QED
    BY <2>5, <2>6, <2>7
<1> QED
  BY <1>3, <1>4

\* No key of t is in the ledger, so all of its rows are inserted.
LEMMA CommitLedger ==
  ASSUME IInv, NEW t \in Slots, Commit(t)
  PROVE  ledger' = ledger \cup tx[t].done /\ ledger \cap tx[t].done = {}
<1>1. \A e \in tx[t].done : Booked(e.user, e.ref) = {}
  BY SlotTypes DEF BookOK
<1>2. \A e \in tx[t].done : Inserted(e) = e
  <2> SUFFICES ASSUME NEW e \in tx[t].done PROVE Inserted(e) = e
    OBVIOUS
  <2>1. e \in LedgerRows /\ e.copy = 0
    BY SlotTypes DEF Entries
  <2>2. Cardinality(Booked(e.user, e.ref)) = 0
    BY <1>1, FS_EmptySet
  <2>3. Inserted(e) = [e EXCEPT !.copy = 0]
    BY <2>2 DEF Inserted
  <2> QED
    BY <2>1, <2>3 DEF LedgerRows
<1>3. ledger' = ledger \cup {Inserted(e) : e \in tx[t].done}
  BY DEF Commit
<1>4. ledger' = ledger \cup tx[t].done
  BY <1>2, <1>3
<1>5. ledger \cap tx[t].done = {}
  BY <1>1 DEF Booked
<1> QED
  BY <1>4, <1>5

\* A transaction books every key once, and none that is booked already.
LEMMA CommitBooksOnce ==
  ASSUME IInv, NEW t \in Slots, Commit(t)
  PROVE  BookedOnce'
<1>1. ledger' = ledger \cup tx[t].done /\ BookedOnce
  BY CommitLedger DEF IInv, LedgerSound
<1>2. \A e \in tx[t].done : Booked(e.user, e.ref) = {}
  BY SlotTypes DEF BookOK
<1>3. ASSUME NEW e \in tx[t].done, NEW f \in tx[t].done, e.ref = f.ref PROVE e = f
  <2>1. tx[t].pay = <<>> /\ tx[t].done = Owing(t) /\ PlanOK(t)
    BY SlotTypes, ListedFacts DEF Commit, Owing
  <2>2. CASE tx[t].op = "event"
    BY <2>1, <2>2, <1>3 DEF PlanOK
  <2>3. CASE tx[t].op # "event"
    <3>1. e \in Escrows(t) \cup Shares(t) \cup Refunds(t)
      BY <2>1, <2>3 DEF PlanOK
    <3>2. CASE e \in Escrows(t)
      <4>1. PICK q \in Questions : e = EscrowRow(q)
        BY <3>2 DEF Escrows
      <4>2. {d \in tx[t].done : d.ref = EscrowRef(q)} \subseteq {EscrowRow(q)}
        BY <2>1, DoneOf
      <4>3. e.ref = EscrowRef(q)
        BY <4>1, RowFields DEF EscrowRow
      <4> QED
        BY <1>3, <4>1, <4>2, <4>3
    <3>3. CASE e \in Shares(t)
      <4>1. PICK a \in Answers : e = ShareRow(a)
        BY <3>3, SlotTypes DEF Shares
      <4>2. {d \in tx[t].done : d.ref = AcceptRef(a)} \subseteq {ShareRow(a)}
        BY <2>1, DoneOf
      <4>3. e.ref = AcceptRef(a)
        BY <4>1, RowFields DEF ShareRow
      <4> QED
        BY <1>3, <4>1, <4>2, <4>3
    <3>4. CASE e \in Refunds(t)
      <4>1. PICK q \in Questions : e = RefundRow(q, PaidBy(t, q))
        BY <3>4, SlotTypes DEF Refunds
      <4>2. {d \in tx[t].done : d.ref = RefundRef(q)} \subseteq {RefundRow(q, PaidBy(t, q))}
        BY <2>1, DoneOf
      <4>3. e.ref = RefundRef(q)
        BY <4>1, RowFields DEF RefundRow
      <4> QED
        BY <1>3, <4>1, <4>2, <4>3
    <3> QED
      BY <3>1, <3>2, <3>3, <3>4
  <2> QED
    BY <2>2, <2>3
<1>4. ASSUME NEW e \in ledger, NEW f \in tx[t].done PROVE ~ (e.user = f.user /\ e.ref = f.ref)
  BY <1>2 DEF Booked
<1> QED
  BY <1>1, <1>3, <1>4 DEF BookedOnce

\* The ledger explains every balance after the commit, and none is overdrawn.
LEMMA CommitBalances ==
  ASSUME IInv, NEW t \in Slots, Commit(t), NEW u \in Users
  PROVE  /\ balance'[u] = balance[u] + OwnDelta(t, u) /\ balance'[u] \in Int /\ balance'[u] >= 0
         /\ balance'[u] = Deltas({e \in ledger' : e.user = u})
<1>1. /\ balance[u] \in Int /\ BookOK(t)
      /\ Typed({e \in tx[t].done : e.user = u}) /\ OwnDelta(t, u) \in Int
  BY SlotTypes
<1>2. balance'[u] = balance[u] + OwnDelta(t, u) /\ balance[u] + OwnDelta(t, u) >= 0
  BY <1>1 DEF Commit, BookOK
<1> DEFINE old == {e \in ledger : e.user = u}
           new == {e \in tx[t].done : e.user = u}
<1>3. balance[u] = Deltas(old) /\ OwnDelta(t, u) = Deltas(new)
  BY DEF IInv, LedgerSound, LedgerExplains, OwnDelta
<1>4. Typed(old)
  <2>1. IsFiniteSet(ledger) /\ old \subseteq ledger
    BY DEF IInv
  <2>2. \A e \in old : e.delta \in Int
    BY DEF IInv, TypeOK, Entries, LedgerRows
  <2> HIDE DEF old
  <2> QED
    BY <2>1, <2>2, FS_Subset DEF Typed
<1>5. old \cap new = {} /\ {e \in ledger' : e.user = u} = old \cup new
  BY CommitLedger
<1> HIDE DEF old, new
<1>6. Typed(new)
  BY <1>1 DEF new
<1>7. Deltas(old \cup new) = Deltas(old) + Deltas(new)
  BY <1>4, <1>5, <1>6, SumUnion
<1>8. Deltas({e \in ledger' : e.user = u}) = Deltas(old \cup new)
  BY <1>5
<1>9. balance'[u] \in Int /\ balance'[u] >= 0
  BY <1>1, <1>2
<1> QED
  BY <1>2, <1>3, <1>7, <1>8, <1>9

\* The tables keep their types, and the ledger explains the balances.
LEMMA CommitTypes ==
  ASSUME IInv, NEW t \in Slots, Commit(t)
  PROVE  TypeOK' /\ IsFiniteSet(ledger)' /\ LedgerSound'
<1>1. /\ TypeOK /\ tx \in [Slots -> Txs] /\ holder \in [Questions \cup Users -> Slots \cup {None}]
      /\ Shape(t) /\ HeldOK(t) /\ BookOK(t) /\ tx[t].done \in SUBSET Entries
  BY SlotTypes
<1>2. ledger' = ledger \cup tx[t].done
  BY CommitLedger
<1>3. IsFiniteSet(ledger)' /\ ledger' \subseteq LedgerRows
  BY <1>1, <1>2, FS_Union DEF IInv, TypeOK, BookOK, Entries
<1>4. balance' \in [Users -> Int]
  <2>1. balance' = [u \in Users |-> balance[u] + OwnDelta(t, u)]
    BY DEF Commit
  <2>2. \A u \in Users : balance[u] \in Int /\ OwnDelta(t, u) \in Int
    BY SlotTypes
  <2> QED
    BY <2>1, <2>2
<1>5. question' \in [Questions -> [status : Statuses, paid : Nat, answer : Answers \cup {None}]]
  <2>1. question' = [q \in Questions |-> question'[q]]
    BY DEF Commit
  <2>2. \A q \in Questions : question'[q] \in [status : Statuses, paid : Nat, answer : Answers \cup {None}]
    BY CommitQuestion
  <2> QED
    BY <2>1, <2>2
<1>6. due' \subseteq Questions /\ accepted' \subseteq posted' /\ posted' \subseteq Answers
  <2>1. due' = due /\ accepted' = accepted \cup tx[t].take
        /\ posted' = IF tx[t].op = "answer" THEN posted \cup {tx[t].a} ELSE posted
    BY DEF Commit
  <2>2. tx[t].take \subseteq posted /\ (tx[t].op = "answer" => tx[t].a \in Answers)
    BY <1>1 DEF HeldOK, Shape
  <2> QED
    BY <1>1, <2>1, <2>2 DEF TypeOK
<1>7. tx' \in [Slots -> Txs] /\ aborts' \in 0 .. MaxAborts
  BY <1>1, FreeFacts DEF Commit, TypeOK
<1>8. holder' = [x \in Questions \cup Users |-> IF holder[x] = t THEN None ELSE holder[x]]
  BY <1>1 DEF Commit, Released
<1>9. holder' \in [Questions \cup Users -> Slots \cup {None}]
  BY <1>1, <1>8
<1>10. ASSUME NEW x \in Questions \cup Users, holder'[x] # None PROVE tx'[holder'[x]].op # "free"
  <2>1. holder'[x] = holder[x] /\ holder[x] \in Slots \ {t}
    BY <1>1, <1>8, <1>10
  <2>2. tx'[holder[x]] = tx[holder[x]]
    BY <1>1, <2>1 DEF Commit
  <2>3. tx[holder[x]].op # "free"
    BY <1>1, <1>10, <2>1 DEF TypeOK
  <2> QED
    BY <2>1, <2>2, <2>3
<1>11. TypeOK'
  BY <1>3, <1>4, <1>5, <1>6, <1>7, <1>9, <1>10 DEF TypeOK
<1>12. LedgerSound'
  BY CommitBalances, CommitBooksOnce DEF LedgerSound, BookedOnce, LedgerExplains, NoOverdraft
<1> QED
  BY <1>3, <1>11, <1>12

\* A question pays for what it has accepted, and never more than offered.
LEMMA CommitQuestionOK ==
  ASSUME IInv, NEW t \in Slots, Commit(t), NEW q \in Questions
  PROVE  QuestionOK(q)'
<1>1. QuestionOK(q)
  BY DEF IInv
<1>2. /\ IsFiniteSet(Taken(t, q)) /\ IsFiniteSet(AcceptedOf(q))
      /\ Cardinality(AcceptedOf(q)) \in Nat /\ Cardinality(Taken(t, q)) \in Nat
      /\ (Taken(t, q) = {} => Cardinality(Taken(t, q)) = 0)
      /\ (Taken(t, q) # {} => /\ Cardinality(Taken(t, q)) = 1 /\ question[q].status = "open"
                              /\ Cardinality(AcceptedOf(q)) < People[q])
      /\ AcceptedOf(q) \cap Taken(t, q) = {}
      /\ question[q].paid \in Nat /\ PerPerson[q] \in Nat /\ People[q] \in Nat
  BY TakenFacts
<1>3. PICK acc : acc = Cardinality(AcceptedOf(q))
  OBVIOUS
<1>4. PICK tak : tak = Cardinality(Taken(t, q))
  OBVIOUS
<1>5. Cardinality(AcceptedOf(q) \cup Taken(t, q)) = acc + tak
  <2>1. Cardinality(AcceptedOf(q) \cup Taken(t, q)) =
          Cardinality(AcceptedOf(q)) + Cardinality(Taken(t, q)) - Cardinality(AcceptedOf(q) \cap Taken(t, q))
    BY <1>2, FS_Union
  <2>2. Cardinality(AcceptedOf(q) \cap Taken(t, q)) = 0
    BY <1>2, FS_EmptySet
  <2> QED
    BY <1>2, <1>3, <1>4, <2>1, <2>2
<1>6. AcceptedOf(q)' = AcceptedOf(q) \cup Taken(t, q)
  BY CommitQuestion
<1>7. question'[q].paid = question[q].paid + tak * PerPerson[q]
  BY <1>4, CommitQuestion DEF PaidBy
<1>8. question[q].paid = acc * PerPerson[q] /\ acc <= People[q]
  BY <1>1, <1>3 DEF QuestionOK
<1>9. \A m, n, k \in Nat : m * k + n * k = (m + n) * k
  OBVIOUS
<1>10. Cardinality(AcceptedOf(q)') = acc + tak
  BY <1>5, <1>6
<1>11. acc \in Nat /\ tak \in Nat /\ PerPerson[q] \in Nat /\ People[q] \in Nat
  BY <1>2, <1>3, <1>4
<1>12. question'[q].paid = (acc + tak) * PerPerson[q]
  BY <1>7, <1>8, <1>9, <1>11
<1>13. acc + tak <= People[q]
  <2>1. tak = 0 \/ (tak = 1 /\ acc < People[q])
    BY <1>2, <1>3, <1>4
  <2> QED
    BY <1>8, <1>11, <2>1
<1>14. question'[q].status = "absent" => AcceptedOf(q)' = {}
  <2> SUFFICES ASSUME question'[q].status = "absent" PROVE AcceptedOf(q)' = {}
    OBVIOUS
  <2>1. question[q].status = "absent"
    BY CommitQuestion
  <2>2. AcceptedOf(q) = {} /\ Taken(t, q) = {}
    BY <1>1, <1>2, <2>1 DEF QuestionOK
  <2> QED
    BY <1>6, <2>2
<1> QED
  BY <1>10, <1>12, <1>13, <1>14 DEF QuestionOK

\* The ledger has the rows of what was asked, accepted and settled.
LEMMA CommitLedgerIs ==
  ASSUME IInv, NEW t \in Slots, Commit(t)
  PROVE  LedgerIs'
<1>1. /\ LedgerIs /\ tx[t].pay = <<>> /\ accepted' = accepted \cup tx[t].take
  BY DEF IInv, Commit
<1>2. \A ref : Of(ref)' = Of(ref) \cup {e \in tx[t].done : e.ref = ref}
  BY CommitLedger DEF Of
<1>3. ASSUME NEW q \in Questions
      PROVE  Of(EscrowRef(q))' = IF question'[q].status # "absent" /\ Total(q) > 0 THEN {EscrowRow(q)} ELSE {}
  <2>1. Of(EscrowRef(q)) = IF question[q].status # "absent" /\ Total(q) > 0 THEN {EscrowRow(q)} ELSE {}
    BY <1>1 DEF LedgerIs
  <2>2. {e \in tx[t].done : e.ref = EscrowRef(q)} =
          IF tx[t].op = "ask" /\ tx[t].q = q /\ Total(q) > 0 THEN {EscrowRow(q)} ELSE {}
    BY <1>1, DoneOf
  <2>3. (question'[q].status # "absent") <=> (question[q].status # "absent" \/ (tx[t].op = "ask" /\ tx[t].q = q))
    BY CommitQuestion
  <2>4. Of(EscrowRef(q))' = Of(EscrowRef(q)) \cup {e \in tx[t].done : e.ref = EscrowRef(q)}
    BY <1>2 DEF EscrowRef
  <2> QED
    BY <2>1, <2>2, <2>3, <2>4
<1>4. ASSUME NEW a \in Answers
      PROVE  Of(AcceptRef(a))' = IF a \in accepted' /\ PerPerson[QuestionOf[a]] > 0 THEN {ShareRow(a)} ELSE {}
  <2>1. Of(AcceptRef(a)) = IF a \in accepted /\ PerPerson[QuestionOf[a]] > 0 THEN {ShareRow(a)} ELSE {}
    BY <1>1 DEF LedgerIs
  <2>2. {e \in tx[t].done : e.ref = AcceptRef(a)} =
          IF a \in tx[t].take /\ PerPerson[QuestionOf[a]] > 0 THEN {ShareRow(a)} ELSE {}
    BY <1>1, DoneOf
  <2>3. Of(AcceptRef(a))' = Of(AcceptRef(a)) \cup {e \in tx[t].done : e.ref = AcceptRef(a)}
    BY <1>2 DEF AcceptRef
  <2> QED
    BY <1>1, <2>1, <2>2, <2>3
<1>5. ASSUME NEW q \in Questions
      PROVE  Of(RefundRef(q))' =
               IF question'[q].status \in {"accepted", "closed"} /\ Total(q) > question'[q].paid
                 THEN {RefundRow(q, question'[q].paid)} ELSE {}
  <2>1. Of(RefundRef(q)) = IF question[q].status \in {"accepted", "closed"} /\ Total(q) > question[q].paid
                             THEN {RefundRow(q, question[q].paid)} ELSE {}
    BY <1>1 DEF LedgerIs
  <2>2. {e \in tx[t].done : e.ref = RefundRef(q)} =
          IF q \in tx[t].batch /\ Total(q) > PaidBy(t, q) THEN {RefundRow(q, PaidBy(t, q))} ELSE {}
    BY <1>1, DoneOf
  <2>3. Of(RefundRef(q))' = Of(RefundRef(q)) \cup {e \in tx[t].done : e.ref = RefundRef(q)}
    BY <1>2 DEF RefundRef
  <2>4. /\ question'[q].paid = PaidBy(t, q)
        /\ (Taken(t, q) = {} => PaidBy(t, q) = question[q].paid)
    BY CommitQuestion
  <2>5. CASE q \in tx[t].batch
    <3>1. question[q].status = "open" /\ question'[q].status \in {"accepted", "closed"}
      BY <2>5, CommitQuestion
    <3> QED
      BY <2>1, <2>2, <2>3, <2>4, <2>5, <3>1
  <2>6. CASE q \notin tx[t].batch
    <3>1. Of(RefundRef(q))' = Of(RefundRef(q))
      BY <2>2, <2>3, <2>6
    <3>2. CASE question[q].status \in {"accepted", "closed"}
      <4>1. Taken(t, q) = {}
        BY <3>2, TakenFacts
      <4>2. question'[q].status = question[q].status
        BY <2>6, <3>2, CommitQuestion
      <4> QED
        BY <2>1, <2>4, <3>1, <4>1, <4>2
    <3>3. CASE question[q].status \notin {"accepted", "closed"}
      <4>1. question'[q].status \notin {"accepted", "closed"}
        BY <2>6, <3>3, CommitQuestion
      <4> QED
        BY <2>1, <3>1, <3>3, <4>1
    <3> QED
      BY <3>2, <3>3
  <2> QED
    BY <2>5, <2>6
<1> QED
  BY <1>3, <1>4, <1>5 DEF LedgerIs, EscrowRef, AcceptRef, RefundRef, EscrowRow, ShareRow, RefundRow

\* What another connection has read under its locks survives the commit of t.
LEMMA CommitOthers ==
  ASSUME IInv, NEW t \in Slots, Commit(t), NEW s \in Slots, s # t
  PROVE  SlotOK(s)'
<1>1. /\ TypeOK /\ Shape(s) /\ PlanOK(s) /\ AskOK(s) /\ HeldOK(s) /\ BookOK(s)
      /\ tx[s].take \in SUBSET Answers /\ tx[s].batch \in SUBSET Questions
      /\ tx[s].done \in SUBSET Entries /\ tx[s].pay \in Seq(Entries)
      /\ tx \in [Slots -> Txs] /\ holder \in [Questions \cup Users -> Slots \cup {None}]
      /\ \A u \in Users : OwnDelta(s, u) \in Int
  BY SlotTypes
<1>2. tx'[s] = tx[s] /\ tx'[t].op = "free" /\ \A r \in Slots \ {t} : tx'[r] = tx[r]
  BY <1>1, FreeFacts DEF Commit
<1>3. \A x \in Questions \cup Users : holder[x] = s => holder'[x] = s
  BY <1>1 DEF Commit, Released
<1>4. ASSUME NEW q \in Questions, holder[q] = s, question[q].status = "open"
      PROVE  /\ question'[q].status = "open" /\ question'[q].paid = question[q].paid
             /\ AcceptedOf(q)' = AcceptedOf(q)
  <2>1. AskOK(t)
    BY SlotTypes
  <2>2. ~ (tx[t].op = "ask" /\ tx[t].q = q)
    BY <1>4, <2>1 DEF AskOK
  <2> QED
    BY <1>4, <2>2, CommitElsewhere
<1>5. \A a \in tx[s].take : QuestionOf[a] \in Questions
  BY <1>1, BountyAssumption
<1>6. Shape(s)'
  <2>1. tx[s].op \in {"answer", "accept", "close"} => tx[s].q \in Questions
    BY <1>1 DEF Shape
  <2>2. (tx[s].op # "free" /\ tx[s].at = "decide") => holder'[tx[s].q] = s
    BY <1>1, <1>3, <2>1 DEF Shape
  <2> QED
    BY <1>1, <1>2, <2>2 DEF Shape
<1>7. PlanOK(s)'
  <2>1. Owing(s)' = Owing(s) /\ Escrows(s)' = Escrows(s) /\ Shares(s)' = Shares(s)
    BY <1>2 DEF Owing, Escrows, Shares
  <2>2. \A q \in tx[s].batch : PaidBy(s, q)' = PaidBy(s, q)
    <3> SUFFICES ASSUME NEW q \in tx[s].batch PROVE PaidBy(s, q)' = PaidBy(s, q)
      OBVIOUS
    <3>1. q \in Questions /\ holder[q] = s /\ question[q].status = "open"
      BY <1>1 DEF HeldOK
    <3>2. question'[q].paid = question[q].paid
      BY <1>4, <3>1
    <3>3. Taken(s, q)' = Taken(s, q)
      BY <1>2 DEF Taken
    <3> QED
      BY <3>2, <3>3 DEF PaidBy
  <2>3. Refunds(s)' = Refunds(s)
    <3>1. {r \in tx[s].batch : Total(r) > PaidBy(s, r)'} = {r \in tx[s].batch : Total(r) > PaidBy(s, r)}
      BY <2>2
    <3>2. Refunds(s)' = {RefundRow(q, PaidBy(s, q)') : q \in {r \in tx[s].batch : Total(r) > PaidBy(s, r)'}}
      BY <1>2 DEF Refunds
    <3>3. Refunds(s)' = {RefundRow(q, PaidBy(s, q)) : q \in {r \in tx[s].batch : Total(r) > PaidBy(s, r)}}
      BY <2>2, <3>1, <3>2
    <3> QED
      BY <3>3 DEF Refunds
  <2> QED
    BY <1>1, <1>2, <2>1, <2>3 DEF PlanOK
<1>8. AskOK(s)'
  <2> SUFFICES ASSUME tx[s].op = "ask"
               PROVE  /\ question'[tx[s].q].status = "absent"
                      /\ \A r \in Slots : tx'[r].op = "ask" /\ tx'[r].q = tx[s].q => r = s
    BY <1>2 DEF AskOK
  <2>1. tx[s].q \in Questions /\ question[tx[s].q].status = "absent"
        /\ \A r \in Slots : tx[r].op = "ask" /\ tx[r].q = tx[s].q => r = s
    BY <1>1 DEF Shape, AskOK
  <2>2. PICK q \in Questions : q = tx[s].q
    BY <2>1
  <2>3. ~ (tx[t].op = "ask" /\ tx[t].q = q)
    BY <2>1, <2>2
  <2>4. question'[q].status = "absent"
    BY <2>1, <2>2, <2>3, CommitQuestion
  <2>5. \A r \in Slots : tx'[r].op = "ask" /\ tx'[r].q = tx[s].q => r = s
    BY <1>2, <2>1
  <2> QED
    BY <2>2, <2>4, <2>5
<1>9. HeldOK(s)'
  <2>1. ASSUME NEW a \in tx[s].take
        PROVE  /\ holder'[QuestionOf[a]] = s /\ question'[QuestionOf[a]].status = "open"
               /\ a \in posted' \ accepted'
               /\ Cardinality(AcceptedOf(QuestionOf[a])') < People[QuestionOf[a]]
    <3>1. PICK q \in Questions : q = QuestionOf[a]
      BY <1>5
    <3>2. /\ holder[q] = s /\ question[q].status = "open" /\ a \in posted \ accepted
          /\ Cardinality(AcceptedOf(q)) < People[q]
      BY <1>1, <3>1 DEF HeldOK
    <3>3. /\ question'[q].status = "open" /\ AcceptedOf(q)' = AcceptedOf(q)
      BY <1>4, <3>2
    <3>4. a \notin tx[t].take
      <4>1. HeldOK(t)
        BY SlotTypes
      <4> QED
        BY <3>1, <3>2, <4>1 DEF HeldOK
    <3>5. a \in posted' \ accepted'
      BY <3>2, <3>4 DEF Commit
    <3>6. AcceptedOf(QuestionOf[a])' = AcceptedOf(q)
      BY <3>1, <3>3
    <3> QED
      BY <1>3, <3>1, <3>2, <3>3, <3>5, <3>6
  <2>2. ASSUME NEW q \in tx[s].batch PROVE holder'[q] = s /\ question'[q].status = "open"
    <3>1. q \in Questions /\ holder[q] = s /\ question[q].status = "open"
      BY <1>1 DEF HeldOK
    <3> QED
      BY <1>3, <1>4, <3>1
  <2>3. \A a, b \in tx[s].take : a = b
    BY <1>1 DEF HeldOK
  <2> QED
    BY <1>2, <2>1, <2>2, <2>3 DEF HeldOK
<1>10. BookOK(s)'
  <2>1. BookOK(t) /\ tx[t].done \in SUBSET Entries
    BY SlotTypes
  <2>2. ASSUME NEW u \in Users, holder[u] = s, NEW ref, Booked(u, ref) = {}
        PROVE  Booked(u, ref)' = {}
    <3>1. \A e \in tx[t].done : e.user # u
      BY <2>1, <2>2 DEF BookOK
    <3>2. Booked(u, ref)' = Booked(u, ref)
      BY <3>1, CommitLedger DEF Booked
    <3> QED
      BY <2>2, <3>2
  <2>3. ASSUME NEW e \in tx[s].done PROVE holder'[e.user] = s /\ Booked(e.user, e.ref)' = {}
    <3>1. e.user \in Users /\ holder[e.user] = s /\ Booked(e.user, e.ref) = {}
      BY <1>1 DEF BookOK, Entries, LedgerRows
    <3> QED
      BY <1>3, <2>2, <3>1
  <2>4. Due(s)' = Due(s)
    BY <1>2 DEF Due
  <2>5. tx[s].at \in {"look", "book"} => tx[s].pay # <<>> /\ holder'[Due(s).user] = s
    <3> SUFFICES ASSUME tx[s].at \in {"look", "book"}
                 PROVE  tx[s].pay # <<>> /\ holder'[Due(s).user] = s
      OBVIOUS
    <3>1. tx[s].pay # <<>> /\ holder[Due(s).user] = s
      BY <1>1 DEF BookOK
    <3> QED
      BY <1>3, <3>1, DueFacts
  <2>6. tx[s].at = "book" => Booked(Due(s).user, Due(s).ref)' = {}
    <3> SUFFICES ASSUME tx[s].at = "book" PROVE Booked(Due(s).user, Due(s).ref)' = {}
      OBVIOUS
    <3>1. tx[s].pay # <<>> /\ holder[Due(s).user] = s /\ Booked(Due(s).user, Due(s).ref) = {}
      BY <1>1 DEF BookOK
    <3>2. PICK u \in Users, ref \in {Due(s).ref} : u = Due(s).user
      BY <3>1, DueFacts
    <3>3. Booked(u, ref)' = {}
      BY <2>2, <3>1, <3>2
    <3> QED
      BY <2>4, <3>2, <3>3
  <2>7. ASSUME NEW u \in Users PROVE balance'[u] + OwnDelta(s, u)' >= 0
    <3>1. OwnDelta(s, u)' = OwnDelta(s, u) /\ OwnDelta(s, u) \in Int
      BY <1>1, <1>2 DEF OwnDelta
    <3>2. balance'[u] = balance[u] + OwnDelta(t, u) /\ balance'[u] \in Int /\ balance'[u] >= 0
      BY CommitBalances
    <3>3. CASE holder[u] = s
      <4>1. {e \in tx[t].done : e.user = u} = {}
        BY <2>1, <3>3 DEF BookOK
      <4>2. OwnDelta(t, u) = 0
        BY <4>1, SumNone DEF OwnDelta
      <4>3. balance[u] \in Int /\ balance[u] + OwnDelta(s, u) >= 0
        BY <1>1 DEF TypeOK, BookOK
      <4> QED
        BY <3>1, <3>2, <4>2, <4>3
    <3>4. CASE holder[u] # s
      <4>1. {e \in tx[s].done : e.user = u} = {}
        BY <1>1, <3>4 DEF BookOK
      <4>2. OwnDelta(s, u) = 0
        BY <4>1, SumNone DEF OwnDelta
      <4> QED
        BY <3>1, <3>2, <4>2
    <3> QED
      BY <3>3, <3>4
  <2>8. IsFiniteSet(tx[s].done)
    BY <1>1 DEF BookOK
  <2> QED
    BY <1>2, <2>3, <2>4, <2>5, <2>6, <2>7, <2>8 DEF BookOK
<1> QED
  BY <1>6, <1>7, <1>8, <1>9, <1>10 DEF SlotOK

\* The whole commit.
LEMMA CommitKeeps ==
  ASSUME IInv, NEW t \in Slots, Commit(t)
  PROVE  IInv'
<1>1. TypeOK' /\ IsFiniteSet(ledger)' /\ LedgerSound'
  BY CommitTypes
<1>2. LedgerIs'
  BY CommitLedgerIs
<1>3. \A q \in Questions : QuestionOK(q)'
  BY CommitQuestionOK
<1>4. SlotOK(t)'
  <2>1. tx'[t] = Free
    BY SlotTypes DEF Commit
  <2>2. \A u \in Users : balance'[u] \in Int /\ balance'[u] >= 0
    BY CommitBalances
  <2> QED
    BY <2>1, <2>2, FreeSlotNext
<1>5. \A s \in Slots : SlotOK(s)'
  BY <1>4, CommitOthers
<1> QED
  BY <1>1, <1>2, <1>3, <1>5 DEF IInv

-----------------------------------------------------------------------------
(* The theorems                                                            *)

\* Nothing happens.
LEMMA StutterKeeps ==
  ASSUME IInv, UNCHANGED vars
  PROVE  IInv'
<1>1. UNCHANGED <<balance, ledger, question, due, posted, accepted, holder, tx, aborts>>
  BY DEF vars
<1>2. TypeOK' /\ IsFiniteSet(ledger)' /\ LedgerIs' /\ LedgerSound'
  BY <1>1 DEF IInv, TypeOK, LedgerIs, Of, LedgerSound, BookedOnce, LedgerExplains, NoOverdraft
<1>3. ASSUME NEW p \in Questions PROVE QuestionOK(p)'
  BY <1>1 DEF IInv, QuestionOK, AcceptedOf
<1>4. ASSUME NEW t \in Slots PROVE SlotOK(t)'
  <2>1. Shape(t) /\ PlanOK(t) /\ AskOK(t) /\ HeldOK(t) /\ BookOK(t)
    BY SlotTypes
  <2>2. Shape(t)' /\ AskOK(t)' /\ HeldOK(t)'
    BY <1>1, <2>1 DEF Shape, AskOK, HeldOK, AcceptedOf
  <2>3. PlanOK(t)'
    BY <1>1, <2>1 DEF PlanOK, Owing, Escrows, Shares, Refunds, PaidBy, Taken
  <2>4. BookOK(t)'
    BY <1>1, <2>1 DEF BookOK, OwnDelta, Booked, Due
  <2> QED
    BY <2>2, <2>3, <2>4 DEF SlotOK
<1> QED
  BY <1>2, <1>3, <1>4 DEF IInv

\* Every step.
LEMMA NextKeeps == IInv /\ [Next]_vars => IInv'
<1> SUFFICES ASSUME IInv, [Next]_vars PROVE IInv'
  OBVIOUS
<1>1. CASE UNCHANGED vars
  BY <1>1, StutterKeeps
<1>2. CASE \E q \in Questions : BecomeDue(q)
  BY <1>2, BecomeDueKeeps
<1>3. ASSUME NEW t \in Slots, Working(t) PROVE IInv'
  <2>1. CASE LockQuestion(t)
    BY <2>1, LockQuestionKeeps
  <2>2. CASE DecideAnswer(t)
    BY <2>2, DecideAnswerKeeps
  <2>3. CASE DecideAccept(t)
    BY <2>3, DecideAcceptKeeps
  <2>4. CASE DecideClose(t)
    BY <2>4, DecideCloseKeeps
  <2>5. CASE LockBalance(t)
    BY <2>5, LockBalanceKeeps
  <2>6. CASE LookUp(t)
    BY <2>6, LookUpKeeps
  <2>7. CASE Book(t)
    BY <2>7, BookKeeps
  <2>8. CASE Commit(t)
    BY <2>8, CommitKeeps
  <2>9. CASE BreakDeadlock(t)
    BY <2>9, RollbackKeeps DEF BreakDeadlock
  <2> QED
    BY <1>3, <2>1, <2>2, <2>3, <2>4, <2>5, <2>6, <2>7, <2>8, <2>9 DEF Working
<1>4. ASSUME NEW t \in Slots, Abort(t) PROVE IInv'
  BY <1>4, AbortKeeps
<1>5. ASSUME NEW t \in Slots, Expire(t) PROVE IInv'
  BY <1>5, ExpireKeeps
<1>6. ASSUME NEW t \in Slots, NEW q \in Questions, Ask(t, q) PROVE IInv'
  BY <1>6, AskKeeps
<1>7. ASSUME NEW t \in Slots, NEW q \in Questions,
             NEW a \in {b \in Answers : QuestionOf[b] = q} \cup {None}, Close(t, q, a)
      PROVE  IInv'
  <2>1. a \in Answers \cup {None} /\ (a # None => QuestionOf[a] = q)
    OBVIOUS
  <2>2. "close" \in {"answer", "accept", "close"}
    OBVIOUS
  <2> QED
    BY <1>7, <2>1, <2>2, NamedKeeps DEF Close
<1>8. ASSUME NEW t \in Slots, NEW a \in Answers, PostAnswer(t, a) PROVE IInv'
  <2>1. QuestionOf[a] \in Questions /\ a \in Answers \cup {None}
    BY BountyAssumption
  <2> QED
    BY <1>8, <2>1, NamedKeeps DEF PostAnswer
<1>9. ASSUME NEW t \in Slots, NEW a \in Answers, Accept(t, a) PROVE IInv'
  <2>1. QuestionOf[a] \in Questions /\ a \in Answers \cup {None}
    BY BountyAssumption
  <2> QED
    BY <1>9, <2>1, NamedKeeps DEF Accept
<1>10. ASSUME NEW t \in Slots, NEW v \in Events, Consume(t, v) PROVE IInv'
  BY <1>10, ConsumeKeeps
<1> QED
  BY <1>1, <1>2, <1>3, <1>4, <1>5, <1>6, <1>7, <1>8, <1>9, <1>10 DEF Next

\* What the locks protect and what the ledger contains, at every moment.
THEOREM Invariance == Spec => []IInv
BY InitIInv, NextKeeps, PTL DEF Spec

\* Every variable keeps its type, and only a running transaction has locks.
THEOREM TypeCorrect == Spec => []TypeOK
<1>1. IInv => TypeOK
  BY DEF IInv
<1> QED
  BY <1>1, Invariance, PTL

\* reward and spend: no key is booked twice, although the table would take the
\* second row, every balance is the sum of its ledger rows and none is ever
\* overdrawn, for any number of connections, events delivered again, failures
\* and deadlocks.
THEOREM LedgerCorrect == Spec => []LedgerSound
<1>1. IInv => LedgerSound
  BY DEF IInv
<1> QED
  BY <1>1, Invariance, PTL

\* The shares of a question are the rows of its accepted answers.
LEMMA PaidOutIs ==
  ASSUME IInv, NEW q \in Questions
  PROVE  PaidOut(q) = Cardinality(AcceptedOf(q)) * PerPerson[q]
<1>1. TypeOK /\ LedgerIs /\ PerPerson[q] \in Nat
  BY TotalType DEF IInv
<1>2. AcceptedOf(q) \in SUBSET Answers /\ IsFiniteSet(AcceptedOf(q)) /\ Cardinality(AcceptedOf(q)) \in Nat
  <2>1. AcceptedOf(q) \in SUBSET Answers
    BY <1>1 DEF TypeOK, AcceptedOf
  <2> QED
    BY <2>1, BountyAssumption, FS_Subset, FS_CardinalityType
<1> DEFINE R == {e \in ledger : \E a \in Answers : QuestionOf[a] = q /\ e.ref = AcceptRef(a)}
           A == AcceptedOf(q)
<1>3. ASSUME NEW a \in Answers, QuestionOf[a] = q
      PROVE  {e \in ledger : e.ref = AcceptRef(a)} =
               IF a \in accepted /\ PerPerson[q] > 0 THEN {ShareRow(a)} ELSE {}
  BY <1>1, <1>3 DEF LedgerIs, Of
<1>4. CASE PerPerson[q] = 0
  <2>1. R = {}
    BY <1>3, <1>4
  <2>2. PaidOut(q) = 0
    BY <2>1, SumNone DEF PaidOut
  <2> QED
    BY <1>2, <1>4, <2>2
<1>5. CASE PerPerson[q] > 0
  <2>1. \A a \in A : a \in Answers /\ QuestionOf[a] = q /\ a \in accepted
    BY <1>2 DEF AcceptedOf
  <2>2. R = {ShareRow(a) : a \in A}
    <3>1. ASSUME NEW e \in R PROVE e \in {ShareRow(a) : a \in A}
      <4>1. PICK a \in Answers : QuestionOf[a] = q /\ e.ref = AcceptRef(a)
        OBVIOUS
      <4>2. a \in accepted /\ e = ShareRow(a)
        BY <1>3, <4>1
      <4> QED
        BY <4>1, <4>2 DEF AcceptedOf
    <3>2. ASSUME NEW a \in A PROVE ShareRow(a) \in R
      <4>1. ShareRow(a) \in ledger /\ ShareRow(a).ref = AcceptRef(a)
        BY <1>3, <1>5, <2>1
      <4> QED
        BY <2>1, <4>1
    <3> QED
      BY <3>1, <3>2
  <2> DEFINE f == [a \in A |-> ShareRow(a)]
  <2> HIDE DEF R, A
  <2>3. \A a, b \in A : ShareRow(a) = ShareRow(b) => a = b
    <3>1. \A a : ShareRow(a).ref = AcceptRef(a)
      BY RowFields DEF ShareRow
    <3> QED
      BY <3>1, RefsApart
  <2>4. f \in Bijection(A, R)
    <3>1. f \in [A -> R]
      BY <2>2
    <3>2. \A a, b \in A : f[a] = f[b] => a = b
      BY <2>3
    <3>3. \A e \in R : \E a \in A : f[a] = e
      BY <2>2
    <3> HIDE DEF f
    <3> QED
      BY <3>1, <3>2, <3>3 DEF Bijection, Injection, Surjection, IsInjective
  <2>5. IsFiniteSet(R) /\ Cardinality(R) = Cardinality(A)
    <3>1. ExistsBijection(A, R)
      BY <2>4 DEF ExistsBijection
    <3> QED
      BY <1>2, <3>1, FS_Bijection DEF A
  <2>6. \A e \in R : e.delta = PerPerson[q]
    <3>1. \A a \in A : ShareRow(a).delta = PerPerson[q]
      BY <2>1, RowFields DEF ShareRow
    <3> QED
      BY <2>2, <3>1
  <2>7. Typed(R)
    BY <1>1, <2>5, <2>6 DEF Typed
  <2>8. Deltas(R) = Cardinality(R) * PerPerson[q]
    BY <1>1, <2>6, <2>7, SumEqual
  <2> QED
    BY <2>5, <2>8 DEF PaidOut, R, A
<1> QED
  BY <1>1, <1>4, <1>5

\* The sum of one row.
LEMMA SumOne ==
  ASSUME NEW e, e.delta \in Int
  PROVE  Deltas({e}) = e.delta
<1>1. Typed({}) /\ e \notin {}
  BY FS_EmptySet DEF Typed
<1>2. Deltas({} \cup {e}) = Deltas({}) + e.delta
  BY <1>1, SumWith
<1>3. {} \cup {e} = {e}
  OBVIOUS
<1> QED
  BY <1>2, <1>3, SumNone

\* The escrow and the refund of a question are one row each, or none.
LEMMA EscrowIs ==
  ASSUME IInv, NEW q \in Questions
  PROVE  /\ question[q].status # "absent" => Escrowed(q) = Total(q)
         /\ question[q].status = "open" => Refunded(q) = 0
         /\ question[q].status \in {"accepted", "closed"} =>
              Refunded(q) = IF Total(q) > question[q].paid THEN Total(q) - question[q].paid ELSE 0
<1>1. LedgerIs /\ Total(q) \in Nat /\ question[q].paid \in Nat
  BY TotalType DEF IInv, TypeOK
<1>2. EscrowRow(q).delta = - Total(q) /\ RefundRow(q, question[q].paid).delta = Total(q) - question[q].paid
  BY RowFields DEF EscrowRow, RefundRow
<1>3. question[q].status # "absent" => Escrowed(q) = Total(q)
  <2> SUFFICES ASSUME question[q].status # "absent" PROVE Escrowed(q) = Total(q)
    OBVIOUS
  <2>1. Escrowed(q) = - Deltas(IF Total(q) > 0 THEN {EscrowRow(q)} ELSE {})
    BY <1>1 DEF Escrowed, LedgerIs, Of
  <2>2. CASE Total(q) > 0
    <3>1. Deltas({EscrowRow(q)}) = - Total(q)
      BY <1>1, <1>2, SumOne
    <3> QED
      BY <1>1, <2>1, <2>2, <3>1
  <2>3. CASE ~ (Total(q) > 0)
    BY <1>1, <2>1, <2>3, SumNone
  <2> QED
    BY <2>2, <2>3
<1>4. question[q].status = "open" => Refunded(q) = 0
  BY <1>1, SumNone DEF Refunded, LedgerIs, Of
<1>5. ASSUME question[q].status \in {"accepted", "closed"}
      PROVE  Refunded(q) = IF Total(q) > question[q].paid THEN Total(q) - question[q].paid ELSE 0
  <2>1. Refunded(q) = Deltas(IF Total(q) > question[q].paid THEN {RefundRow(q, question[q].paid)} ELSE {})
    BY <1>1, <1>5 DEF Refunded, LedgerIs, Of
  <2>2. CASE Total(q) > question[q].paid
    <3>1. Deltas({RefundRow(q, question[q].paid)}) = Total(q) - question[q].paid
      BY <1>1, <1>2, SumOne
    <3> QED
      BY <2>1, <2>2, <3>1
  <2>3. CASE ~ (Total(q) > question[q].paid)
    BY <2>1, <2>3, SumNone
  <2> QED
    BY <2>2, <2>3
<1> QED
  BY <1>3, <1>4, <1>5

\* create_question, accept_answer, close_question and expire_due_questions
\* give the escrow of a question away exactly once: shares only for accepted
\* answers, never more of them than offered, and the rest as one refund, for
\* any number of connections, answers and failures.
THEOREM BountyCorrect == Spec => []BountyFair
<1>1. IInv => BountyFair
  <2> SUFFICES ASSUME IInv, NEW q \in Questions
               PROVE  /\ question[q].status # "absent" => Escrowed(q) = Total(q)
                      /\ question[q].status = "open" => PaidOut(q) = question[q].paid /\ Refunded(q) = 0
                      /\ question[q].status \in {"accepted", "closed"} => PaidOut(q) + Refunded(q) = Total(q)
                      /\ Cardinality(AcceptedOf(q)) <= People[q]
                      /\ PaidOut(q) = Cardinality(AcceptedOf(q)) * PerPerson[q]
    BY DEF BountyFair, EscrowExact, SharesEarned
  <2>1. PaidOut(q) = Cardinality(AcceptedOf(q)) * PerPerson[q]
    BY PaidOutIs
  <2>2. question[q].paid = Cardinality(AcceptedOf(q)) * PerPerson[q] /\ Cardinality(AcceptedOf(q)) <= People[q]
    BY DEF IInv, QuestionOK
  <2>3. /\ question[q].status # "absent" => Escrowed(q) = Total(q)
        /\ question[q].status = "open" => Refunded(q) = 0
        /\ question[q].status \in {"accepted", "closed"} =>
             Refunded(q) = IF Total(q) > question[q].paid THEN Total(q) - question[q].paid ELSE 0
    BY EscrowIs
  <2>4. question[q].paid \in Nat /\ Total(q) \in Nat /\ question[q].paid <= Total(q)
    <3>1. People[q] \in Nat /\ PerPerson[q] \in Nat /\ Total(q) = People[q] * PerPerson[q] /\ Total(q) \in Nat
      BY TotalType
    <3>2. question[q].paid \in Nat /\ Cardinality(AcceptedOf(q)) \in Nat
      <4>1. AcceptedOf(q) \subseteq Answers
        BY DEF IInv, TypeOK, AcceptedOf
      <4> QED
        BY <4>1, BountyAssumption, FS_Subset, FS_CardinalityType DEF IInv, TypeOK
    <3>3. \A m, n, k \in Nat : m <= n => m * k <= n * k
      <4> SUFFICES ASSUME NEW m \in Nat, NEW n \in Nat, NEW k \in Nat, m <= n PROVE m * k <= n * k
        OBVIOUS
      <4>1. PICK d \in Nat : n = m + d
        <5>1. n - m \in Nat /\ n = m + (n - m)
          OBVIOUS
        <5> QED
          BY <5>1
      <4>2. n * k = m * k + d * k /\ d * k \in Nat /\ m * k \in Nat
        BY <4>1
      <4> QED
        BY <4>2
    <3> QED
      BY <2>2, <3>1, <3>2, <3>3
  <2> QED
    BY <2>1, <2>2, <2>3, <2>4
<1> QED
  BY <1>1, Invariance, PTL

-----------------------------------------------------------------------------
(* What is settled stays                                                   *)

\* Ledger rows and acceptances are never taken back, and a question that was
\* accepted or closed is never changed again.
NothingTakenBack ==
  /\ ledger \subseteq ledger' /\ accepted \subseteq accepted'
  /\ \A q \in Questions :
       question[q].status \in {"accepted", "closed"} => question'[q] = question[q]

\* Only a commit and the clock change the tables.
LEMMA TablesChange ==
  ASSUME [Next]_vars
  PROVE  UNCHANGED <<ledger, accepted, question>> \/ \E t \in Slots : Commit(t)
<1>1. CASE UNCHANGED vars
  BY <1>1 DEF vars
<1>2. CASE \E q \in Questions : BecomeDue(q)
  BY <1>2 DEF BecomeDue
<1>3. ASSUME NEW t \in Slots, Working(t)
      PROVE  UNCHANGED <<ledger, accepted, question>> \/ Commit(t)
  <2>1. CASE LockQuestion(t)
    BY <2>1 DEF LockQuestion, rows
  <2>2. CASE DecideAnswer(t)
    BY <2>2 DEF DecideAnswer, Rollback, rows
  <2>3. CASE DecideAccept(t)
    BY <2>3 DEF DecideAccept, Rollback, rows
  <2>4. CASE DecideClose(t)
    BY <2>4 DEF DecideClose, Rollback, rows
  <2>5. CASE LockBalance(t)
    BY <2>5 DEF LockBalance, rows
  <2>6. CASE LookUp(t)
    BY <2>6 DEF LookUp, Rollback, rows
  <2>7. CASE Book(t)
    BY <2>7 DEF Book, Rollback, rows
  <2>8. CASE BreakDeadlock(t)
    BY <2>8 DEF BreakDeadlock, Rollback, rows
  <2> QED
    BY <1>3, <2>1, <2>2, <2>3, <2>4, <2>5, <2>6, <2>7, <2>8 DEF Working
<1>4. ASSUME NEW t \in Slots, Abort(t) \/ Expire(t)
      PROVE  UNCHANGED <<ledger, accepted, question>>
  BY <1>4 DEF Abort, Expire, rows
<1>5. ASSUME NEW t \in Slots, NEW q \in Questions, Ask(t, q)
      PROVE  UNCHANGED <<ledger, accepted, question>>
  BY <1>5 DEF Ask, Start, rows
<1>6. ASSUME NEW t \in Slots, NEW q, NEW a, Close(t, q, a) \/ PostAnswer(t, a) \/ Accept(t, a)
      PROVE  UNCHANGED <<ledger, accepted, question>>
  BY <1>6 DEF Close, PostAnswer, Accept, Start, rows
<1>7. ASSUME NEW t \in Slots, NEW v \in Events, Consume(t, v)
      PROVE  UNCHANGED <<ledger, accepted, question>>
  BY <1>7 DEF Consume, Start, rows
<1> QED
  BY <1>1, <1>2, <1>3, <1>4, <1>5, <1>6, <1>7 DEF Next

\* accept_answer, close_question and expire_due_questions after the question
\* was settled by another connection change nothing, wherever they waited.
THEOREM SettledFinal == Spec => [][NothingTakenBack]_vars
<1>1. IInv /\ [Next]_vars => NothingTakenBack
  <2> SUFFICES ASSUME IInv, [Next]_vars PROVE NothingTakenBack
    OBVIOUS
  <2>1. CASE UNCHANGED <<ledger, accepted, question>>
    BY <2>1 DEF NothingTakenBack
  <2>2. ASSUME NEW t \in Slots, Commit(t) PROVE NothingTakenBack
    <3>1. ledger \subseteq ledger' /\ accepted \subseteq accepted'
      BY <2>2 DEF Commit
    <3>2. ASSUME NEW q \in Questions, question[q].status \in {"accepted", "closed"}
          PROVE  question'[q] = question[q]
      <4>1. /\ question[q] \in [status : Statuses, paid : Nat, answer : Answers \cup {None}]
            /\ AskOK(t) /\ HeldOK(t)
        BY SlotTypes DEF TypeOK
      <4>2. ~ (tx[t].op = "ask" /\ tx[t].q = q) /\ q \notin tx[t].batch
        BY <3>2, <4>1 DEF AskOK, HeldOK
      <4>3. Taken(t, q) = {} /\ PaidBy(t, q) = question[q].paid
        <5>1. Taken(t, q) = {}
          BY <3>2, TakenFacts
        <5> QED
          BY <2>2, <5>1, CommitQuestion
      <4>4. question'[q] = AfterAccept(t, q)
        BY <2>2, <4>2 DEF Commit, AfterSettle
      <4>5. AfterAccept(t, q) = [question[q] EXCEPT !.paid = question[q].paid, !.answer = question[q].answer]
        BY <4>1, <4>3 DEF AfterAccept, PaidBy
      <4> QED
        BY <4>1, <4>4, <4>5
    <3> QED
      BY <3>1, <3>2 DEF NothingTakenBack
  <2> QED
    BY <2>1, <2>2, TablesChange
<1> QED
  BY <1>1, Invariance, PTL DEF Spec
=============================================================================
