------------------------- MODULE WalletService_proofs --------------------------
(***************************************************************************)
(* What TLAPS proves of the operators of WalletService, for every set of   *)
(* amounts, and of totals over finite sets of whatever has an amount:      *)
(* lemmas for the modules whose sessions use them.                         *)
(***************************************************************************)
EXTENDS WalletService, FiniteSetsExt, FiniteSetTheorems, WellFoundedInduction, TLAPS

\* A call that is accepted takes a row to a row: the guards of the operations
\* are enough to keep both columns non-negative.
LEMMA ApplyRow ==
    ASSUME NEW r \in Row, NEW c \in Call, Accepts(r, c)
    PROVE  Apply(r, c) \in Row
<1> USE AmountsAssumption DEF Row, Call, Ops, Accepts, Sufficient, Apply
<1>1. c.amount \in Nat  OBVIOUS
<1>2. CASE c.op = "credit"  BY <1>1, <1>2 DEF CreditBalance
<1>3. CASE c.op = "debit"  BY <1>1, <1>3 DEF DebitBalance
<1>4. CASE c.op = "lock"  BY <1>1, <1>4 DEF LockBalance
<1>5. CASE c.op = "unlock"  BY <1>1, <1>5 DEF UnlockBalance
<1>6. CASE c.op = "deduct"  BY <1>1, <1>6 DEF DeductReservedBalance
<1> QED  BY <1>2, <1>3, <1>4, <1>5, <1>6

LEMMA CreditRow ==
    ASSUME NEW r \in Row, NEW a \in Nat
    PROVE  CreditBalance(r, a) \in Row /\ CreditBalance(r, a).reserved = r.reserved
BY DEF CreditBalance, Row

\* Its ledger entry is one.
LEMMA EntryOfEntry ==
    ASSUME NEW r \in Row, NEW c \in Call, Accepts(r, c)
    PROVE  /\ EntryOf(r, c) \in Entry
           /\ EntryOf(r, c).before = r
           /\ EntryOf(r, c).after = Apply(r, c)
<1>1. Apply(r, c) \in Row  BY ApplyRow
<1>2. EntryType(c.op) \in EntryTypes  BY DEF EntryType, EntryTypes
<1>3. c.amount \in Amounts  BY DEF Call
<1> QED  BY <1>1, <1>2, <1>3 DEF EntryOf, Entry

\* An operation changes no column but those its UPDATE names.
LEMMA ApplyColumns ==
    ASSUME NEW r \in Row, NEW c \in Call
    PROVE  /\ "balance" \notin Columns(c.op) => Apply(r, c).balance = r.balance
           /\ "reserved" \notin Columns(c.op) => Apply(r, c).reserved = r.reserved
<1> USE DEF Row, Call, Ops, Apply, Columns
<1>2. CASE c.op = "credit"  BY <1>2 DEF CreditBalance
<1>3. CASE c.op = "debit"  BY <1>3 DEF DebitBalance
<1>4. CASE c.op = "lock"  BY <1>4 DEF LockBalance
<1>5. CASE c.op = "unlock"  BY <1>5 DEF UnlockBalance
<1>6. CASE c.op = "deduct"  BY <1>6 DEF DeductReservedBalance
<1> QED  BY <1>2, <1>3, <1>4, <1>5, <1>6

\* The two shapes of a plan.
LEMMA PlanCases ==
    ASSUME NEW plan \in Plans
    PROVE  \/ \E c \in Call : plan = <<c>>
           \/ \E c, d \in Call : plan = <<c, d>>
BY DEF Plans

\* What an accepted plan leaves is a row, its entries are entries, start from
\* the row that was read, follow one another and end with the new row.
LEMMA PlanFacts ==
    ASSUME NEW r \in Row, NEW plan \in Plans, PlanAccepted(r, plan)
    PROVE  /\ AfterPlan(r, plan) \in Row
           /\ PlanEntries(r, plan) \in Seq(Entry)
           /\ Len(PlanEntries(r, plan)) = Len(plan)
           /\ Len(plan) \in {1, 2}
           /\ PlanEntries(r, plan)[1].before = r
           /\ Len(plan) = 2 => PlanEntries(r, plan)[2].before = PlanEntries(r, plan)[1].after
           /\ PlanEntries(r, plan)[Len(plan)].after = AfterPlan(r, plan)
<1>1. CASE \E c \in Call : plan = <<c>>
  <2>1. PICK c \in Call : plan = <<c>>  BY <1>1
  <2>2. Accepts(r, c)  BY <2>1 DEF PlanAccepted
  <2>3. PICK e \in Entry : e = EntryOf(r, c) /\ e.before = r /\ e.after = Apply(r, c)
    BY <2>2, EntryOfEntry
  <2>4. PICK q \in Row : q = Apply(r, c)  BY <2>2, ApplyRow
  <2>5. AfterPlan(r, plan) = q /\ PlanEntries(r, plan) = <<e>>
    BY <2>1, <2>3, <2>4 DEF AfterPlan, PlanEntries
  <2>6. Len(plan) = 1 /\ <<e>> \in Seq(Entry) /\ Len(<<e>>) = 1 /\ <<e>>[1] = e
    BY <2>1
  <2> QED  BY <2>3, <2>4, <2>5, <2>6
<1>2. CASE \E c, d \in Call : plan = <<c, d>>
  <2>1. PICK c \in Call, d \in Call : plan = <<c, d>>  BY <1>2
  <2>2. Accepts(r, c) /\ Accepts(Apply(r, c), d)  BY <2>1 DEF PlanAccepted
  <2>3. PICK q \in Row : q = Apply(r, c)  BY <2>2, ApplyRow
  <2>4. PICK q2 \in Row : q2 = Apply(q, d)  BY <2>2, <2>3, ApplyRow
  <2>5. PICK e \in Entry : e = EntryOf(r, c) /\ e.before = r /\ e.after = q
    BY <2>2, <2>3, EntryOfEntry
  <2>6. PICK f \in Entry : f = EntryOf(q, d) /\ f.before = q /\ f.after = q2
    BY <2>2, <2>3, <2>4, EntryOfEntry
  <2>7. AfterPlan(r, plan) = q2 /\ PlanEntries(r, plan) = <<e, f>>
    BY <2>1, <2>3, <2>4, <2>5, <2>6 DEF AfterPlan, PlanEntries
  <2>8. /\ Len(plan) = 2 /\ <<e, f>> \in Seq(Entry) /\ Len(<<e, f>>) = 2
        /\ <<e, f>>[1] = e /\ <<e, f>>[2] = f
    BY <2>1
  <2> QED  BY <2>4, <2>5, <2>6, <2>7, <2>8
<1> QED  BY <1>1, <1>2, PlanCases

\* Whatever the row holds, what the UPDATEs of an accepted plan leave is a row.
LEMMA WrittenRow ==
    ASSUME NEW old \in Row, NEW seen \in Row, NEW plan \in Plans, PlanAccepted(seen, plan)
    PROVE  Written(old, seen, plan) \in Row
BY PlanFacts DEF Written, WriteColumns, Row

\* On the row that was read, the UPDATEs of a plan leave its result.
LEMMA WrittenFresh ==
    ASSUME NEW r \in Row, NEW plan \in Plans, PlanAccepted(r, plan)
    PROVE  Written(r, r, plan) = AfterPlan(r, plan)
<1>1. PICK q \in Row : q = AfterPlan(r, plan)  BY PlanFacts
<1>2. SUFFICES /\ "balance" \notin PlanColumns(plan) => q.balance = r.balance
               /\ "reserved" \notin PlanColumns(plan) => q.reserved = r.reserved
  BY <1>1 DEF Written, WriteColumns, Row
<1>3. CASE \E c \in Call : plan = <<c>>
  <2>1. PICK c \in Call : plan = <<c>>  BY <1>3
  <2>2. q = Apply(r, c)  BY <1>1, <2>1 DEF AfterPlan
  <2>3. Columns(c.op) \subseteq PlanColumns(plan)  BY <2>1 DEF PlanColumns
  <2> QED  BY <2>2, <2>3, ApplyColumns
<1>4. CASE \E c, d \in Call : plan = <<c, d>>
  <2>1. PICK c \in Call, d \in Call : plan = <<c, d>>  BY <1>4
  <2>2. PICK m \in Row : m = Apply(r, c)  BY <2>1, ApplyRow DEF PlanAccepted
  <2>3. q = Apply(m, d)  BY <1>1, <2>1, <2>2 DEF AfterPlan
  <2>4. Columns(c.op) \subseteq PlanColumns(plan)  BY <2>1 DEF PlanColumns
  <2>5. Columns(d.op) \subseteq PlanColumns(plan)  BY <2>1 DEF PlanColumns
  <2>6. /\ "balance" \notin Columns(c.op) => m.balance = r.balance
        /\ "reserved" \notin Columns(c.op) => m.reserved = r.reserved
    BY <2>2, ApplyColumns
  <2>7. /\ "balance" \notin Columns(d.op) => q.balance = m.balance
        /\ "reserved" \notin Columns(d.op) => q.reserved = m.reserved
    BY <2>3, ApplyColumns
  <2> QED  BY <2>4, <2>5, <2>6, <2>7
<1> QED  BY <1>3, <1>4, PlanCases

-----------------------------------------------------------------------------
(* Totals.  The fold of the community modules chooses the elements one by  *)
(* one; what it adds up does not depend on the choice.                     *)

\* Induction over a finite set: of the subsets of a kind, one has no smaller one.
LEMMA SmallestSubset ==
    ASSUME NEW S, IsFiniteSet(S), NEW B \in SUBSET (SUBSET S), B # {}
    PROVE  \E T \in B : \A U \in B : U \subseteq T => U = T
<1> DEFINE R == StrictSubsetOrdering(S)
<1>1. IsWellFoundedOn(R, SUBSET S)
  BY FS_StrictSubsetOrderingWellFounded, FS_FiniteSubsetsOfFinite
<1>2. \A T, U \in SUBSET S : U \subseteq T /\ U # T => <<U, T>> \in R
  BY DEF StrictSubsetOrdering
<1> HIDE DEF R
<1>3. \E T \in B : \A U \in B : ~(<<U, T>> \in R)  BY <1>1, WFMin
<1> QED  BY <1>2, <1>3

\* f adds up w[x] over the elements x of each subset of S.
IsTotal(f, S, w) ==
    /\ f \in [SUBSET S -> Int]
    /\ f[{}] = 0
    /\ \A U \in SUBSET S, x \in S : x \notin U => f[U \cup {x}] = f[U] + w[x]

LEMMA TotalExists ==
    ASSUME NEW S, IsFiniteSet(S), NEW w, \A x \in S : w[x] \in Int
    PROVE  \E f : IsTotal(f, S, w)
<1> DEFINE B == {T \in SUBSET S : ~\E f : IsTotal(f, T, w)}
<1>1. SUFFICES ASSUME B # {} PROVE FALSE  OBVIOUS
<1>2. B \in SUBSET (SUBSET S)  OBVIOUS
<1> HIDE DEF B
<1>3. PICK T \in B : \A U \in B : U \subseteq T => U = T  BY <1>1, <1>2, SmallestSubset
<1> USE DEF B
<1>4. CASE T = {}
  <2> DEFINE f == [U \in SUBSET {} |-> 0]
  <2>1. IsTotal(f, {}, w)  BY DEF IsTotal
  <2> QED  BY <1>3, <1>4, <2>1
<1>5. CASE T # {}
  <2>1. PICK x : x \in T  BY <1>5
  <2>2. T \ {x} \notin B /\ T \ {x} \in SUBSET S  BY <1>3, <2>1
  <2>3. PICK f : IsTotal(f, T \ {x}, w)  BY <2>2
  <2> DEFINE g == [U \in SUBSET T |-> IF x \in U THEN f[U \ {x}] + w[x] ELSE f[U]]
  <2>4. IsTotal(g, T, w)
    <3>0. w[x] \in Int /\ T \subseteq S  BY <2>1
    <3>1. g \in [SUBSET T -> Int]  BY <2>1, <2>3, <3>0 DEF IsTotal
    <3>2. g[{}] = 0  BY <2>3 DEF IsTotal
    <3>3. ASSUME NEW U \in SUBSET T, NEW y \in T, y \notin U
          PROVE  g[U \cup {y}] = g[U] + w[y]
      <4>0. g[U] = (IF x \in U THEN f[U \ {x}] + w[x] ELSE f[U])
            /\ g[U \cup {y}] = (IF x \in U \cup {y} THEN f[(U \cup {y}) \ {x}] + w[x] ELSE f[U \cup {y}])
        OBVIOUS
      <4> HIDE DEF g
      <4>1. CASE y = x
        <5>1. (U \cup {y}) \ {x} = U  BY <3>3, <4>1
        <5> QED  BY <3>3, <4>0, <4>1, <5>1
      <4>2. CASE y # x /\ x \in U
        <5>1. (U \cup {y}) \ {x} = (U \ {x}) \cup {y}  BY <4>2
        <5>2. U \ {x} \in SUBSET (T \ {x}) /\ y \in T \ {x} /\ y \notin U \ {x}  BY <3>3, <4>2
        <5>3. f[(U \ {x}) \cup {y}] = f[U \ {x}] + w[y]  BY <2>3, <5>2 DEF IsTotal
        <5>4. f[U \ {x}] \in Int /\ w[y] \in Int  BY <2>3, <5>2, <3>0 DEF IsTotal
        <5>5. PICK m \in Int : m = f[U \ {x}]  BY <5>4
        <5>6. PICK a \in Int, b \in Int : a = w[x] /\ b = w[y]  BY <3>0, <5>4
        <5>7. g[U] = m + a /\ g[U \cup {y}] = (m + b) + a
          BY <4>0, <4>2, <5>1, <5>3, <5>5, <5>6
        <5> QED  BY <5>5, <5>6, <5>7
      <4>3. CASE y # x /\ x \notin U
        <5>1. U \in SUBSET (T \ {x}) /\ y \in T \ {x}  BY <4>3
        <5> QED  BY <2>3, <3>3, <4>0, <4>3, <5>1 DEF IsTotal
      <4> QED  BY <4>1, <4>2, <4>3
    <3> HIDE DEF g
    <3> QED  BY <3>1, <3>2, <3>3 DEF IsTotal
  <2> HIDE DEF g
  <2> QED  BY <1>3, <2>4
<1> QED  BY <1>4, <1>5

\* The sum of w over a subset of S is the total of it.
LEMMA SumIsTotal ==
    ASSUME NEW S, IsFiniteSet(S), NEW w, \A x \in S : w[x] \in Int,
           NEW f, IsTotal(f, S, w), NEW V \in SUBSET S
    PROVE  SumFunctionOnSet(w, V) = f[V]
<1>0. PICK h : h = [U \in SUBSET V |-> f[U]] /\ IsTotal(h, V, w) /\ h[V] = f[V]
  <2> DEFINE h == [U \in SUBSET V |-> f[U]]
  <2>1. \A U \in SUBSET V : U \in SUBSET S /\ h[U] = f[U]  OBVIOUS
  <2>2. \A U \in SUBSET V, x \in V : U \cup {x} \in SUBSET V  OBVIOUS
  <2>3. h \in [SUBSET V -> Int]  BY DEF IsTotal
  <2> HIDE DEF h
  <2>4. IsTotal(h, V, w)  BY <2>1, <2>2, <2>3 DEF IsTotal
  <2>5. h[V] = f[V]  BY <2>1
  <2> QED  BY <2>4, <2>5 DEF h
<1> DEFINE Recurs(g) == g = [s \in SUBSET V |-> IF s = {} THEN 0
                              ELSE w[CHOOSE x \in s : TRUE] + g[s \ {CHOOSE x \in s : TRUE}]]
<1>1. SumFunctionOnSet(w, V) = (CHOOSE g : Recurs(g))[V]
  BY DEF SumFunctionOnSet, FoldFunctionOnSet, MapThenFoldSet
<1> DEFINE Elem(s) == CHOOSE x \in s : TRUE
<1>2. \A s \in SUBSET V : s # {} => Elem(s) \in s  OBVIOUS
<1> HIDE DEF Elem
<1>3. \A s \in SUBSET V : s # {} => h[s] = w[Elem(s)] + h[s \ {Elem(s)}]
  <2> TAKE s \in SUBSET V
  <2> HAVE s # {}
  <2>1. PICK x \in s : x = Elem(s)  BY <1>2
  <2>2. s \ {x} \in SUBSET V /\ x \in V /\ x \in S /\ (s \ {x}) \cup {x} = s  OBVIOUS
  <2>3. h[s] = h[s \ {x}] + w[x]  BY <1>0, <2>2 DEF IsTotal
  <2>4. h[s \ {x}] \in Int /\ w[x] \in Int  BY <1>0, <2>2 DEF IsTotal
  <2> QED  BY <2>1, <2>3, <2>4
<1> USE DEF Elem
<1>4. Recurs(h)
  <2>1. DOMAIN h = SUBSET V /\ h = [s \in SUBSET V |-> h[s]] /\ h[{}] = 0  BY <1>0 DEF IsTotal
  <2> QED  BY <1>3, <2>1
<1>5. PICK g : g = (CHOOSE k : Recurs(k)) /\ Recurs(g)
  <2> HIDE DEF Recurs
  <2>1. Recurs(CHOOSE k : Recurs(k))  BY <1>4, Zenon
  <2> QED  BY <2>1
<1> DEFINE B == {s \in SUBSET V : g[s] # h[s]}
<1>6. B = {}
  <2> SUFFICES ASSUME B # {} PROVE FALSE  OBVIOUS
  <2>1. PICK T \in B : \A U \in B : U \subseteq T => U = T
    <3>1. B \in SUBSET (SUBSET V) /\ IsFiniteSet(V)  BY FS_Subset
    <3> HIDE DEF B
    <3> QED  BY <3>1, SmallestSubset
  <2>2. g[{}] = 0 /\ h[{}] = 0
    <3>1. {} \in SUBSET V  OBVIOUS
    <3>2. g[{}] = 0  BY <1>5, <3>1
    <3> QED  BY <1>0, <3>2 DEF IsTotal
  <2>3. T # {} /\ T \in SUBSET V  BY <2>2
  <2>4. g[T] = w[Elem(T)] + g[T \ {Elem(T)}]  BY <1>5, <2>3
  <2> HIDE DEF Elem
  <2>5. T \ {Elem(T)} \notin B  BY <1>2, <2>1, <2>3
  <2>6. g[T \ {Elem(T)}] = h[T \ {Elem(T)}]  BY <2>3, <2>5
  <2> QED  BY <1>3, <2>3, <2>4, <2>6
<1>7. V \in SUBSET V  OBVIOUS
<1>8. g[V] = h[V]  BY <1>6, <1>7
<1> HIDE DEF Recurs
<1> QED  BY <1>0, <1>1, <1>5, <1>8

\* A sum of integers is an integer, the empty one is zero.
LEMMA SumType ==
    ASSUME NEW S, IsFiniteSet(S), NEW w, \A x \in S : w[x] \in Int
    PROVE  SumFunctionOnSet(w, S) \in Int /\ SumFunctionOnSet(w, {}) = 0
<1>1. PICK f : IsTotal(f, S, w)  BY TotalExists
<1>2. S \in SUBSET S /\ {} \in SUBSET S  OBVIOUS
<1>3. SumFunctionOnSet(w, S) = f[S] /\ SumFunctionOnSet(w, {}) = f[{}]
  BY <1>1, <1>2, SumIsTotal
<1> QED  BY <1>1, <1>2, <1>3 DEF IsTotal

\* One element more adds what it has.
LEMMA SumAdd ==
    ASSUME NEW S, IsFiniteSet(S), NEW w, \A x \in S : w[x] \in Int,
           NEW U \in SUBSET S, NEW x \in S, x \notin U
    PROVE  SumFunctionOnSet(w, U \cup {x}) = SumFunctionOnSet(w, U) + w[x]
<1>1. PICK f : IsTotal(f, S, w)  BY TotalExists
<1>2. U \cup {x} \in SUBSET S  OBVIOUS
<1>3. SumFunctionOnSet(w, U \cup {x}) = f[U \cup {x}] /\ SumFunctionOnSet(w, U) = f[U]
  BY <1>1, <1>2, SumIsTotal
<1> QED  BY <1>1, <1>3 DEF IsTotal

\* ... and one element less takes what it had.
LEMMA SumRemove ==
    ASSUME NEW S, IsFiniteSet(S), NEW w, \A y \in S : w[y] \in Int,
           NEW U \in SUBSET S, NEW x \in U
    PROVE  SumFunctionOnSet(w, U \ {x}) = SumFunctionOnSet(w, U) - w[x]
<1>1. U \ {x} \in SUBSET S /\ x \in S /\ x \notin U \ {x} /\ (U \ {x}) \cup {x} = U  OBVIOUS
<1>2. SumFunctionOnSet(w, U) = SumFunctionOnSet(w, U \ {x}) + w[x]
  <2>1. SumFunctionOnSet(w, (U \ {x}) \cup {x}) = SumFunctionOnSet(w, U \ {x}) + w[x]
    BY <1>1, SumAdd
  <2> QED  BY <1>1, <2>1
<1>3. SumFunctionOnSet(w, U \ {x}) \in Int /\ w[x] \in Int
  BY <1>1, SumType, FS_Subset
<1> QED  BY <1>2, <1>3

\* A sum of natural numbers is one, and no less than any of its terms.
LEMMA SumNat ==
    ASSUME NEW S, IsFiniteSet(S), NEW w, \A x \in S : w[x] \in Nat
    PROVE  /\ SumFunctionOnSet(w, S) \in Nat
           /\ \A x \in S : SumFunctionOnSet(w, S) >= w[x]
<1> DEFINE B == {T \in SUBSET S : SumFunctionOnSet(w, T) \notin Nat}
<1>0. \A x \in S : w[x] \in Int  OBVIOUS
<1>1. B = {}
  <2> SUFFICES ASSUME B # {} PROVE FALSE  OBVIOUS
  <2>1. PICK T \in B : \A U \in B : U \subseteq T => U = T
    <3>1. B \in SUBSET (SUBSET S)  OBVIOUS
    <3> HIDE DEF B
    <3> QED  BY <3>1, SmallestSubset
  <2>2. T \in SUBSET S /\ SumFunctionOnSet(w, T) \notin Nat  OBVIOUS
  <2>3. T # {}  BY <1>0, <2>2, SumType
  <2>4. PICK x : x \in T  BY <2>3
  <2>5. T \ {x} \notin B /\ T \ {x} \in SUBSET S  BY <2>1, <2>2, <2>4
  <2>6. PICK n \in Nat : n = SumFunctionOnSet(w, T \ {x})  BY <2>5
  <2>7. PICK i \in Int : i = SumFunctionOnSet(w, T)
    BY <1>0, <2>2, SumType, FS_Subset
  <2>8. n = i - w[x]  BY <1>0, <2>2, <2>4, <2>6, <2>7, SumRemove
  <2>9. w[x] \in Nat  BY <2>2, <2>4
  <2> HIDE DEF B
  <2> QED  BY <2>2, <2>7, <2>8, <2>9
<1>2. \A T \in SUBSET S : SumFunctionOnSet(w, T) \in Nat  BY <1>1
<1> HIDE DEF B
<1>3. ASSUME NEW x \in S PROVE SumFunctionOnSet(w, S) >= w[x]
  <2>1. PICK n \in Nat : n = SumFunctionOnSet(w, S)  BY <1>2
  <2>2. PICK m \in Nat : m = SumFunctionOnSet(w, S \ {x})  BY <1>2
  <2>3. w[x] \in Nat  OBVIOUS
  <2>4. m = n - w[x]
    <3>1. S \in SUBSET S  OBVIOUS
    <3> QED  BY <1>0, <2>1, <2>2, <3>1, SumRemove
  <2> QED  BY <2>1, <2>2, <2>3, <2>4
<1> QED  BY <1>2, <1>3

\* Functions that agree on a set have the same sum over it.
LEMMA SumSame ==
    ASSUME NEW S, IsFiniteSet(S), NEW v, NEW w, \A x \in S : w[x] \in Int /\ v[x] = w[x]
    PROVE  SumFunctionOnSet(v, S) = SumFunctionOnSet(w, S)
<1>1. PICK f : IsTotal(f, S, w)  BY TotalExists
<1>2. IsTotal(f, S, v)  BY <1>1 DEF IsTotal
<1>3. S \in SUBSET S /\ \A x \in S : v[x] \in Int  OBVIOUS
<1>4. SumFunctionOnSet(w, S) = f[S]  BY <1>1, <1>3, SumIsTotal
<1>5. SumFunctionOnSet(v, S) = f[S]  BY <1>2, <1>3, SumIsTotal
<1> QED  BY <1>4, <1>5

\* When one term changes, the sum of all changes by the difference.
LEMMA SumChange ==
    ASSUME NEW S, IsFiniteSet(S), NEW w \in [S -> Int], NEW v \in [S -> Int],
           NEW x \in S, \A y \in S : y # x => v[y] = w[y]
    PROVE  /\ SumFunction(w) \in Int
           /\ SumFunction(v) = SumFunction(w) + (v[x] - w[x])
<1> DEFINE R == S \ {x}
<1>1. /\ R \in SUBSET S /\ IsFiniteSet(R) /\ x \notin R /\ R \cup {x} = S
      /\ \A y \in R : w[y] \in Int /\ v[y] = w[y]
  BY FS_Subset
<1>2. (\A y \in S : w[y] \in Int) /\ (\A y \in S : v[y] \in Int)  OBVIOUS
<1>3. SumFunction(w) = SumFunctionOnSet(w, S) /\ SumFunction(v) = SumFunctionOnSet(v, S)
  BY DEF SumFunction
<1> HIDE DEF R
<1>4. SumFunctionOnSet(v, R) = SumFunctionOnSet(w, R)  BY <1>1, SumSame
<1>5. SumFunctionOnSet(w, R \cup {x}) = SumFunctionOnSet(w, R) + w[x]
  BY <1>1, <1>2, SumAdd
<1>6. SumFunctionOnSet(v, R \cup {x}) = SumFunctionOnSet(v, R) + v[x]
  BY <1>1, <1>2, SumAdd
<1>7. PICK n \in Int : n = SumFunctionOnSet(w, R)  BY <1>1, SumType
<1>8. PICK a \in Int, b \in Int : a = w[x] /\ b = v[x]  BY <1>2
<1>9. SumFunction(w) = n + a /\ SumFunction(v) = n + b
  BY <1>1, <1>3, <1>4, <1>5, <1>6, <1>7, <1>8
<1> QED  BY <1>7, <1>8, <1>9

\* The sum of natural numbers is one.
LEMMA SumOfNats ==
    ASSUME NEW S, IsFiniteSet(S), NEW w \in [S -> Nat]
    PROVE  SumFunction(w) \in Nat
BY SumNat DEF SumFunction

\* The sum of nothing but zeros is zero.
LEMMA SumOfZeros ==
    ASSUME NEW S, IsFiniteSet(S), NEW w \in [S -> Nat], \A x \in S : w[x] = 0
    PROVE  SumFunction(w) = 0
<1> DEFINE f == [U \in SUBSET S |-> 0]
<1>1. IsTotal(f, S, w)  BY DEF IsTotal
<1>2. f[S] = 0 /\ S \in SUBSET S  OBVIOUS
<1> HIDE DEF f
<1>3. SumFunctionOnSet(w, S) = f[S]  BY <1>1, <1>2, SumIsTotal
<1> QED  BY <1>2, <1>3 DEF SumFunction

\* A function that adds up w over the subsets of S gives their sums.
LEMMA TotalIsSum ==
    ASSUME NEW S, IsFiniteSet(S), NEW w, \A x \in S : w[x] \in Int, NEW f, IsTotal(f, S, w)
    PROVE  SumFunctionOnSet(w, S) = f[S]
<1>1. S \in SUBSET S  OBVIOUS
<1> QED  BY <1>1, SumIsTotal

\* The sum over two sets that share nothing.
LEMMA SumUnion ==
    ASSUME NEW S, IsFiniteSet(S), NEW w, \A x \in S : w[x] \in Int,
           NEW X \in SUBSET S, NEW Y \in SUBSET S, X \cap Y = {}
    PROVE  SumFunctionOnSet(w, X \cup Y) = SumFunctionOnSet(w, X) + SumFunctionOnSet(w, Y)
<1>1. PICK f : IsTotal(f, S, w)  BY TotalExists
<1> DEFINE h == [V \in SUBSET Y |-> f[X \cup V] - f[X]]
<1>2. f[X] \in Int /\ \A V \in SUBSET Y : f[X \cup V] \in Int /\ X \cup V \in SUBSET S
  BY <1>1 DEF IsTotal
<1>3. h[Y] = f[X \cup Y] - f[X] /\ h \in [SUBSET Y -> Int] /\ h[{}] = 0
  <2>1. X \cup {} = X  OBVIOUS
  <2> QED  BY <1>2, <2>1
<1>4. ASSUME NEW V \in SUBSET Y, NEW y \in Y, y \notin V
      PROVE  h[V \cup {y}] = h[V] + w[y]
  <2>1. X \cup (V \cup {y}) = (X \cup V) \cup {y} /\ y \notin X \cup V /\ y \in S  BY <1>4
  <2>2. f[(X \cup V) \cup {y}] = f[X \cup V] + w[y]  BY <1>1, <1>2, <2>1 DEF IsTotal
  <2>3. V \cup {y} \in SUBSET Y /\ w[y] \in Int  BY <2>1
  <2>4. h[V \cup {y}] = f[(X \cup V) \cup {y}] - f[X] /\ h[V] = f[X \cup V] - f[X]  BY <2>1, <2>3
  <2>5. PICK i \in Int, j \in Int, a \in Int : i = f[X] /\ j = f[X \cup V] /\ a = w[y]
    BY <1>2, <2>3
  <2> HIDE DEF h
  <2> QED  BY <2>2, <2>4, <2>5
<1> HIDE DEF h
<1>5. IsTotal(h, Y, w)  BY <1>3, <1>4 DEF IsTotal
<1>6. SumFunctionOnSet(w, Y) = h[Y]  BY <1>5, TotalIsSum, FS_Subset
<1>7. SumFunctionOnSet(w, X) = f[X] /\ SumFunctionOnSet(w, X \cup Y) = f[X \cup Y]
  BY <1>1, <1>2, SumIsTotal
<1>8. PICK i \in Int, j \in Int : i = f[X] /\ j = f[X \cup Y]
  BY <1>2
<1> QED  BY <1>3, <1>6, <1>7, <1>8

\* The sum over what stands, one for one, for the members of a set.
LEMMA SumOneForOne ==
    ASSUME NEW S, IsFiniteSet(S), NEW w, \A x \in S : w[x] \in Int,
           NEW P, IsFiniteSet(P), NEW v,
           NEW of, \A e \in P : of[e] \in S /\ v[e] = w[of[e]],
           \A x \in S : \E e \in P : of[e] = x,
           \A e, d \in P : of[e] = of[d] => e = d
    PROVE  SumFunctionOnSet(v, P) = SumFunctionOnSet(w, S)
<1>1. PICK f : IsTotal(f, S, w)  BY TotalExists
<1> DEFINE Of(U) == {of[e] : e \in U}
           h == [U \in SUBSET P |-> f[Of(U)]]
<1>2. \A U \in SUBSET P : Of(U) \in SUBSET S  OBVIOUS
<1>3. h \in [SUBSET P -> Int]  BY <1>1, <1>2 DEF IsTotal
<1>4. h[{}] = 0
  <2>1. Of({}) = {} /\ {} \in SUBSET P  OBVIOUS
  <2> QED  BY <1>1, <2>1 DEF IsTotal
<1>5. ASSUME NEW U \in SUBSET P, NEW e \in P, e \notin U
      PROVE  h[U \cup {e}] = h[U] + v[e]
  <2>1. Of(U \cup {e}) = Of(U) \cup {of[e]}  OBVIOUS
  <2>2. of[e] \notin Of(U)  BY <1>5
  <2>3. f[Of(U) \cup {of[e]}] = f[Of(U)] + w[of[e]]
    BY <1>1, <1>2, <2>2 DEF IsTotal
  <2>4. U \cup {e} \in SUBSET P  OBVIOUS
  <2> HIDE DEF Of
  <2> QED  BY <2>1, <2>3, <2>4
<1>6. Of(P) = S /\ P \in SUBSET P  OBVIOUS
<1>7. h[P] = f[S]
  <2> HIDE DEF Of
  <2> QED  BY <1>6
<1> HIDE DEF h
<1>8. IsTotal(h, P, v)  BY <1>3, <1>4, <1>5 DEF IsTotal
<1>9. SumFunctionOnSet(v, P) = h[P]  BY <1>8, TotalIsSum
<1>10. SumFunctionOnSet(w, S) = f[S]  BY <1>1, TotalIsSum
<1> QED  BY <1>7, <1>9, <1>10

\* The parts that the keys in D cut S into, and the sum of the weights of each.
SplitByKey(part, S, key, D) ==
    /\ \A x \in S : key[x] \in D
    /\ \A d \in D : part[d] \in SUBSET S /\ \A x \in S : x \in part[d] <=> key[x] = d
SumsOfParts(g, w, part, D) == \A d \in D : g[d] = SumFunctionOnSet(w, part[d])

\* The sum of the sums over the parts of a set, by a key.
LEMMA SumByKey ==
    ASSUME NEW S, IsFiniteSet(S), NEW w, \A x \in S : w[x] \in Int,
           NEW D, IsFiniteSet(D), NEW key, NEW part, SplitByKey(part, S, key, D),
           NEW g, SumsOfParts(g, w, part, D)
    PROVE  SumFunctionOnSet(g, D) = SumFunctionOnSet(w, S)
<1> USE DEF SplitByKey, SumsOfParts
<1> DEFINE Of(E) == {x \in S : key[x] \in E}
           h == [E \in SUBSET D |-> SumFunctionOnSet(w, Of(E))]
<1>1. \A E \in SUBSET D : SumFunctionOnSet(w, Of(E)) \in Int
  <2> TAKE E \in SUBSET D
  <2>1. Of(E) \in SUBSET S /\ IsFiniteSet(Of(E)) /\ \A x \in Of(E) : w[x] \in Int
    BY FS_Subset
  <2> HIDE DEF Of
  <2> QED  BY <2>1, SumType
<1>2. h \in [SUBSET D -> Int]  BY <1>1
<1>3. h[{}] = 0
  <2>1. Of({}) = {} /\ {} \in SUBSET D  OBVIOUS
  <2>2. SumFunctionOnSet(w, {}) = 0  BY SumType
  <2> HIDE DEF Of
  <2> QED  BY <2>1, <2>2
<1>4. ASSUME NEW E \in SUBSET D, NEW d \in D, d \notin E
      PROVE  h[E \cup {d}] = h[E] + g[d]
  <2>1. Of(E \cup {d}) = Of(E) \cup Of({d}) /\ Of(E) \cap Of({d}) = {}  BY <1>4
  <2>2. Of(E) \in SUBSET S /\ Of({d}) \in SUBSET S /\ Of({d}) = part[d]
    OBVIOUS
  <2>6. g[d] = SumFunctionOnSet(w, Of({d}))  BY <2>2
  <2>3. E \cup {d} \in SUBSET D  OBVIOUS
  <2>4. h[E \cup {d}] = SumFunctionOnSet(w, Of(E \cup {d})) /\ h[E] = SumFunctionOnSet(w, Of(E))
    BY <2>3
  <2> HIDE DEF Of, h
  <2>5. SumFunctionOnSet(w, Of(E) \cup Of({d})) = SumFunctionOnSet(w, Of(E)) + SumFunctionOnSet(w, Of({d}))
    <3>1. PICK X, Y : X = Of(E) /\ Y = Of({d})  OBVIOUS
    <3>2. X \in SUBSET S /\ Y \in SUBSET S /\ X \cap Y = {}  BY <2>1, <2>2, <3>1
    <3>3. SumFunctionOnSet(w, X \cup Y) = SumFunctionOnSet(w, X) + SumFunctionOnSet(w, Y)
      BY <3>2, SumUnion
    <3> QED  BY <3>1, <3>3
  <2> QED  BY <2>1, <2>4, <2>5, <2>6
<1>5. Of(D) = S /\ D \in SUBSET D  OBVIOUS
<1>6. h[D] = SumFunctionOnSet(w, S)  BY <1>5
<1>7. \A d \in D : g[d] \in Int
  <2> TAKE d \in D
  <2>1. {d} \in SUBSET D /\ Of({d}) = part[d]  OBVIOUS
  <2> HIDE DEF Of
  <2> QED  BY <1>1, <2>1
<1> HIDE DEF h
<1>8. IsTotal(h, D, g)  BY <1>2, <1>3, <1>4 DEF IsTotal
<1> QED  BY <1>6, <1>7, <1>8, TotalIsSum

\* The sum of differences is the difference of the sums.
LEMMA SumMinus ==
    ASSUME NEW S, IsFiniteSet(S), NEW v, NEW w, \A x \in S : v[x] \in Int /\ w[x] \in Int,
           NEW u, \A x \in S : u[x] = w[x] - v[x]
    PROVE  SumFunctionOnSet(u, S) = SumFunctionOnSet(w, S) - SumFunctionOnSet(v, S)
<1>1. PICK f : IsTotal(f, S, v)  BY TotalExists
<1>2. PICK g : IsTotal(g, S, w)  BY TotalExists
<1> DEFINE h == [U \in SUBSET S |-> g[U] - f[U]]
<1>4. S \in SUBSET S /\ {} \in SUBSET S  OBVIOUS
<1>5. \A U \in SUBSET S : f[U] \in Int /\ g[U] \in Int /\ h[U] = g[U] - f[U]
  BY <1>1, <1>2 DEF IsTotal
<1>6. h \in [SUBSET S -> Int]
  <2>1. ASSUME NEW U \in SUBSET S PROVE g[U] - f[U] \in Int
    <3>1. PICK i \in Int, j \in Int : i = f[U] /\ j = g[U]  BY <1>5
    <3> QED  BY <3>1
  <2> QED  BY <2>1
<1>7. h[{}] = 0  BY <1>1, <1>2, <1>4 DEF IsTotal
<1> HIDE DEF h
<1>8. ASSUME NEW U \in SUBSET S, NEW x \in S, x \notin U
      PROVE  h[U \cup {x}] = h[U] + u[x]
  <2>1. U \cup {x} \in SUBSET S  OBVIOUS
  <2>2. f[U \cup {x}] = f[U] + v[x] /\ g[U \cup {x}] = g[U] + w[x]  BY <1>1, <1>2, <1>8 DEF IsTotal
  <2>3. PICK i \in Int, j \in Int, a \in Int, b \in Int :
           i = f[U] /\ j = g[U] /\ a = v[x] /\ b = w[x]
    BY <1>5
  <2> QED  BY <1>5, <2>1, <2>2, <2>3
<1>9. IsTotal(h, S, u)  BY <1>6, <1>7, <1>8 DEF IsTotal
<1>10. SumFunctionOnSet(u, S) = h[S]
  <2>1. \A x \in S : u[x] \in Int  OBVIOUS
  <2> QED  BY <1>9, <2>1, TotalIsSum
<1>12. SumFunctionOnSet(v, S) = f[S] /\ SumFunctionOnSet(w, S) = g[S]
  BY <1>1, <1>2, TotalIsSum
<1> QED  BY <1>4, <1>5, <1>10, <1>12

\* Sums of greater terms are greater.
LEMMA SumMonotone ==
    ASSUME NEW S, IsFiniteSet(S), NEW v, NEW w,
           \A x \in S : v[x] \in Int /\ w[x] \in Int /\ v[x] <= w[x]
    PROVE  SumFunctionOnSet(v, S) <= SumFunctionOnSet(w, S)
<1>1. PICK u : u = [x \in S |-> w[x] - v[x]]  OBVIOUS
<1>2. \A x \in S : u[x] = w[x] - v[x] /\ u[x] \in Nat  BY <1>1
<1>3. SumFunctionOnSet(u, S) = SumFunctionOnSet(w, S) - SumFunctionOnSet(v, S)
  BY <1>2, SumMinus
<1>4. SumFunctionOnSet(u, S) \in Nat  BY <1>2, SumNat
<1>5. PICK i \in Int, j \in Int : i = SumFunctionOnSet(v, S) /\ j = SumFunctionOnSet(w, S)
  BY SumType
<1> QED  BY <1>3, <1>4, <1>5

=============================================================================
