--------------------------- MODULE HandGraphProofs ---------------------------
(***************************************************************************)
(* Proofs about module HandGraph, for any number of images, hands and      *)
(* rectangles, any relation of overlapping, and whatever is found in the   *)
(* images.                                                                 *)
(*                                                                         *)
(* The folds of the community modules (FoldLeft, over a CHOOSE of a        *)
(* recursive function) are brought down to their runs, step by step, by    *)
(* FoldExists and FoldRuns.  The loop is right because the ends of the     *)
(* vectors and the packets of the body share one clock that BeginLoop      *)
(* alone moves: every item belongs to the first end at or after it, and    *)
(* EndLoop sees an end only after everything before it.                    *)
(***************************************************************************)
EXTENDS HandGraph, FiniteSetTheorems, FunctionTheorems, SequenceTheorems, TLAPS

(* A set of naturals with an element has a least one.                      *)
LEMMA LeastElement ==
  ASSUME NEW S \in SUBSET Nat, S # {}
  PROVE  \E x \in S : \A y \in S : x <= y
<1>1. PICK x \in S : \A y \in S : ~(<<y, x>> \in OpToRel(<, Nat))
  BY NatLessThanWellFounded, WFMin, Zenon
<1>2. \A y \in S : ~(y < x)
  BY <1>1 DEF OpToRel
<1>3. QED
  BY <1>2

(* The largest element of a set of numbers up to k + 1 that has k + 1.     *)
LEMMA MaxOfPrefix ==
  ASSUME NEW k \in Nat, NEW s \in SUBSET (1 .. k + 1), k + 1 \in s
  PROVE  Max(s) = k + 1
<1>1. k + 1 \in s /\ \A y \in s : k + 1 >= y
  OBVIOUS
<1>2. \A m \in s : (\A y \in s : m >= y) => m = k + 1
  OBVIOUS
<1>3. QED
  BY <1>1, <1>2 DEF Max

(* A set of numbers up to n has a greatest one.                            *)
LEMMA MaxIn ==
  ASSUME NEW n \in Nat, NEW s \in SUBSET (1 .. n), s # {}
  PROVE  Max(s) \in s /\ \A y \in s : y <= Max(s)
<1> DEFINE S == {i \in Nat : \A y \in s : y <= i}
<1>1. n \in S
  OBVIOUS
<1>2. PICK m \in S : \A i \in S : m <= i
  BY <1>1, LeastElement
<1>3. m \in s
  <2>1. SUFFICES ASSUME m \notin s PROVE FALSE
    OBVIOUS
  <2>2. \A y \in s : y \in Int /\ y <= m /\ y # m
    BY <2>1
  <2>3. m # 0
    <3>1. PICK y \in s : TRUE
      OBVIOUS
    <3>2. y \in 1 .. n /\ y <= m
      BY <2>2
    <3>3. QED
      BY <3>2
  <2>4. m - 1 \in Nat /\ \A y \in s : y <= m - 1
    BY <2>2, <2>3
  <2>5. QED
    BY <1>2, <2>4
<1>4. m \in s /\ \A y \in s : m >= y
  BY <1>3
<1>5. QED
  BY <1>4 DEF Max

(* The recursive function behind a fold of n steps, and the fold as a run  *)
(* from step to step.                                                      *)
IsFold(h, base, n, step) ==
  \A s \in SUBSET (1 .. n) :
    h[s] = IF s = {} THEN base ELSE step[Max(s)][h[s \ {Max(s)}]]
SolvesFold(h, base, n, step, X) ==
  /\ h[{}] = base
  /\ \A s \in SUBSET (1 .. n) :
       s # {} /\ h[s \ {Max(s)}] \in X => h[s] = step[Max(s)][h[s \ {Max(s)}]]
IsRun(run, base, n, step) ==
  run[0] = base /\ \A k \in 1 .. n : run[k] = step[k][run[k - 1]]
HasRun(h, base, n, step, X) ==
  \E run \in [0 .. n -> X] : IsRun(run, base, n, step) /\ h[1 .. n] = run[n]

(* Induction over the prefixes 1 .. k: there is a function on the sets of  *)
(* indices that folds a finite list of steps, which is what the folds of   *)
(* the community modules choose.                                           *)
LEMMA FoldExists ==
  ASSUME NEW X, NEW base \in X, NEW n \in Nat, NEW step \in [1 .. n -> [X -> X]]
  PROVE  \E h \in [SUBSET (1 .. n) -> X] : IsFold(h, base, n, step)
<1> DEFINE Folds(h, k) == \A s \in SUBSET (1 .. k) :
             h[s] = IF s = {} THEN base ELSE step[Max(s)][h[s \ {Max(s)}]]
           Good(k) == \E h \in [SUBSET (1 .. k) -> X] : Folds(h, k)
           Bad == {k \in Nat : k <= n /\ ~Good(k)}
<1> HIDE DEF Good
<1>1. SUFFICES ASSUME Bad # {} PROVE FALSE
  <2>1. n \notin Bad => Good(n)
    OBVIOUS
  <2>2. Good(n) => \E h \in [SUBSET (1 .. n) -> X] : Folds(h, n)
    BY Zenon DEF Good
  <2> USE DEF IsFold
  <2>3. QED
    BY <2>1, <2>2, Zenon
<1>2. PICK m \in Bad : \A j \in Bad : m <= j
  BY <1>1, LeastElement
<1>3. m # 0
  <2>1. SUFFICES ASSUME m = 0 PROVE FALSE
    OBVIOUS
  <2> DEFINE h == [s \in SUBSET (1 .. 0) |-> base]
  <2>2. Folds(h, 0) /\ h \in [SUBSET (1 .. 0) -> X]
    OBVIOUS
  <2>3. Good(0)
    BY <2>2 DEF Good
  <2>4. QED
    BY <2>1, <2>3
<1> DEFINE k == m - 1
<1>4. k \in Nat /\ m = k + 1 /\ k + 1 <= n /\ k \notin Bad
  BY <1>2, <1>3
<1> HIDE DEF k
<1>5. PICK g \in [SUBSET (1 .. k) -> X] : Folds(g, k)
  <2>1. Good(k)
    BY <1>4
  <2>2. QED
    BY <2>1, Zenon DEF Good
<1> DEFINE h == [s \in SUBSET (1 .. k + 1) |->
                   IF k + 1 \in s THEN step[k + 1][g[s \ {k + 1}]] ELSE g[s]]
<1>6. \A s \in SUBSET (1 .. k + 1) :
        /\ k + 1 \in s => s \ {k + 1} \in SUBSET (1 .. k)
        /\ k + 1 \notin s => s \in SUBSET (1 .. k)
  BY <1>4
<1>7. h \in [SUBSET (1 .. k + 1) -> X]
  <2>1. step[k + 1] \in [X -> X]
    BY <1>4
  <2>2. QED
    BY <1>6, <2>1
<1>8. ASSUME NEW s \in SUBSET (1 .. k + 1)
      PROVE  h[s] = IF s = {} THEN base ELSE step[Max(s)][h[s \ {Max(s)}]]
  <2>1. CASE k + 1 \in s
    <3>1. Max(s) = k + 1
      BY <1>4, <2>1, MaxOfPrefix
    <3>2. h[s \ {k + 1}] = g[s \ {k + 1}] /\ h[s] = step[k + 1][g[s \ {k + 1}]] /\ s # {}
      BY <2>1
    <3>3. QED
      BY <3>1, <3>2
  <2>2. CASE k + 1 \notin s
    <3>1. s \in SUBSET (1 .. k) /\ h[s] = g[s]
      BY <1>6, <2>2
    <3>2. s \ {Max(s)} \in SUBSET (1 .. k + 1) /\ k + 1 \notin s \ {Max(s)}
      BY <2>2
    <3>3. h[s \ {Max(s)}] = g[s \ {Max(s)}]
      BY <3>2
    <3>4. g[s] = IF s = {} THEN base ELSE step[Max(s)][g[s \ {Max(s)}]]
      BY <1>5, <3>1
    <3>5. QED
      BY <3>1, <3>3, <3>4
  <2>3. QED
    BY <2>1, <2>2
<1>9. Good(k + 1)
  BY <1>7, <1>8 DEF Good
<1>10. QED
  BY <1>4, <1>9

(* A fold over a list as a run from element to element.                    *)
LEMMA FoldRuns ==
  ASSUME NEW X, NEW base \in X, NEW n \in Nat, NEW step \in [1 .. n -> [X -> X]],
         NEW h, SolvesFold(h, base, n, step, X)
  PROVE  HasRun(h, base, n, step, X)
<1> DEFINE run == [k \in 0 .. n |-> h[1 .. k]]
           Bad == {k \in Nat : k <= n /\ h[1 .. k] \notin X}
<1>1. 1 .. 0 = {}
  OBVIOUS
<1>2. run[0] = base
  BY <1>1 DEF SolvesFold
<1>3. ASSUME NEW k \in 1 .. n, h[1 .. (k - 1)] \in X
      PROVE  h[1 .. k] = step[k][h[1 .. (k - 1)]]
  <2>1. k - 1 \in Nat /\ (k - 1) + 1 = k /\ k \in 1 .. k /\ 1 .. k \in SUBSET (1 .. n)
    OBVIOUS
  <2>2. Max(1 .. k) = k
    BY <2>1, MaxOfPrefix
  <2>3. (1 .. k) \ {k} = 1 .. (k - 1) /\ 1 .. k # {}
    <3>1. \A i \in Int : i \in (1 .. k) \ {k} <=> i \in 1 .. (k - 1)
      OBVIOUS
    <3>2. (1 .. k) \ {k} \subseteq Int /\ 1 .. (k - 1) \subseteq Int
      OBVIOUS
    <3>3. QED
      BY <2>1, <3>1, <3>2
  <2>4. QED
    BY <1>3, <2>1, <2>2, <2>3 DEF SolvesFold
<1>4. Bad = {}
  <2>1. SUFFICES ASSUME Bad # {} PROVE FALSE
    OBVIOUS
  <2>2. PICK k \in Bad : \A j \in Bad : k <= j
    BY <2>1, LeastElement
  <2>3. k \in Nat /\ k <= n /\ h[1 .. k] \notin X
    OBVIOUS
  <2>4. k # 0
    BY <1>1, <2>3 DEF SolvesFold
  <2>5. k \in 1 .. n /\ k - 1 \in Nat /\ k - 1 <= n /\ ~(k <= k - 1)
    BY <2>3, <2>4
  <2>6. h[1 .. (k - 1)] \in X
    BY <2>2, <2>5
  <2>7. h[1 .. k] = step[k][h[1 .. (k - 1)]] /\ step[k] \in [X -> X]
    BY <1>3, <2>5, <2>6
  <2>8. QED
    BY <2>3, <2>6, <2>7
<1>5. \A k \in 0 .. n : h[1 .. k] \in X
  BY <1>4
<1>6. run \in [0 .. n -> X]
  BY <1>5
<1>7. ASSUME NEW k \in 1 .. n PROVE run[k] = step[k][run[k - 1]]
  <2>1. k - 1 \in 0 .. n /\ k \in 0 .. n
    OBVIOUS
  <2>2. QED
    BY <1>3, <1>5, <2>1
<1>8. h[1 .. n] = run[n]
  OBVIOUS
<1> HIDE DEF run
<1>9. QED
  BY <1>2, <1>6, <1>7, <1>8 DEF IsRun, HasRun

-----------------------------------------------------------------------------
(* The fold of Apart goes through the list, element by element.            *)
LEMMA ApartRuns ==
  ASSUME NEW c \in Seq(Rects), NEW e
  PROVE  \E run \in [0 .. Len(c) -> Seq(Rects)] :
           /\ run[0] = << >> /\ Apart(c, e) = run[Len(c)]
           /\ \A k \in 1 .. Len(c) :
                run[k] = IF Overlap(c[k], e) THEN run[k - 1] ELSE Append(run[k - 1], c[k])
<1> DEFINE X == Seq(Rects)
           n == Len(c)
           base == << >>
           op(x, r) == IF Overlap(r, e) THEN x ELSE Append(x, r)
           step == [i \in 1 .. n |-> [x \in X |-> op(x, c[i])]]
           Solves(f) == f = [t \in SUBSET DOMAIN c |->
                               IF t = {} THEN base ELSE op(f[t \ {Max(t)}], c[Max(t)])]
<1>1. DOMAIN c = 1 .. n /\ n \in Nat /\ base \in X
  OBVIOUS
<1>2. step \in [1 .. n -> [X -> X]]
  OBVIOUS
<1>3. ASSUME NEW i \in 1 .. n, NEW x \in X PROVE step[i][x] = op(x, c[i])
  OBVIOUS
<1> HIDE DEF X, n, step, base
<1>4. PICK h \in [SUBSET (1 .. n) -> X] : IsFold(h, base, n, step)
  BY <1>1, <1>2, FoldExists, Zenon
<1>5. \A s \in SUBSET (1 .. n) : s # {} => Max(s) \in s
  BY <1>1, MaxIn
<1>6. \E f : Solves(f)
  <2>1. Solves(h)
    <3>1. h = [t \in SUBSET (1 .. n) |-> h[t]]
      OBVIOUS
    <3>2. ASSUME NEW t \in SUBSET (1 .. n), t # {} PROVE h[t] = op(h[t \ {Max(t)}], c[Max(t)])
      <4>1. Max(t) \in 1 .. n /\ h[t \ {Max(t)}] \in X
        BY <1>5, <3>2
      <4> HIDE DEF op
      <4>2. QED
        BY <1>3, <1>4, <3>2, <4>1 DEF IsFold
    <3>3. \A t \in SUBSET (1 .. n) :
            h[t] = IF t = {} THEN base ELSE op(h[t \ {Max(t)}], c[Max(t)])
      BY <1>4, <3>2 DEF IsFold
    <3> HIDE DEF op
    <3>4. QED
      BY <1>1, <3>1, <3>3
  <2>2. QED
    BY <2>1
<1>7. PICK f : Solves(f) /\ Apart(c, e) = f[DOMAIN c]
  BY <1>6, Zenon DEF base, Apart, FoldLeft, MapThenFoldSet
<1>8. f[{}] = base
  BY <1>7
<1>9. ASSUME NEW s \in SUBSET (1 .. n), s # {}, f[s \ {Max(s)}] \in X
      PROVE  f[s] = step[Max(s)][f[s \ {Max(s)}]]
  <2> HIDE DEF op
  <2>1. f[s] = op(f[s \ {Max(s)}], c[Max(s)])
    BY <1>1, <1>7, <1>9
  <2>2. QED
    BY <1>3, <1>5, <1>9, <2>1
<1> HIDE DEF op, Solves
<1>10. SolvesFold(f, base, n, step, X)
  BY <1>8, <1>9 DEF SolvesFold
<1>11. PICK run \in [0 .. n -> X] : IsRun(run, base, n, step) /\ f[1 .. n] = run[n]
  <2>1. n \in Nat /\ base \in X
    BY <1>1
  <2>2. HasRun(f, base, n, step, X)
    BY <1>2, <1>10, <2>1, FoldRuns, Zenon
  <2>3. QED
    BY <2>2 DEF HasRun
<1>12. \A k \in 1 .. n : run[k] = op(run[k - 1], c[k])
  BY <1>1, <1>3, <1>11 DEF IsRun
<1>13. QED
  BY <1>1, <1>7, <1>11, <1>12 DEF IsRun, op, X, n, base

(* Induction up to n, for a set of numbers.                                *)
LEMMA UpTo ==
  ASSUME NEW n \in Nat, NEW G, 0 \in G, \A k \in 1 .. n : k - 1 \in G => k \in G
  PROVE  \A k \in 0 .. n : k \in G
<1> DEFINE Bad == {k \in Nat : k <= n /\ k \notin G}
<1>1. SUFFICES ASSUME Bad # {} PROVE FALSE
  OBVIOUS
<1>2. PICK k \in Bad : \A j \in Bad : k <= j
  BY <1>1, LeastElement
<1>3. k \in 1 .. n /\ k - 1 \in Nat /\ k - 1 <= n /\ ~(k <= k - 1)
  OBVIOUS
<1>4. k - 1 \in G
  BY <1>2, <1>3
<1>5. QED
  BY <1>3, <1>4

(* Overlap does not depend on the order of its arguments.                  *)
LEMMA OverlapSymmetric == ASSUME NEW a, NEW b, Overlap(a, b) PROVE Overlap(b, a)
<1>1. {a, b} = {b, a}
  OBVIOUS
<1>2. QED
  BY <1>1 DEF Overlap

(* What is left over are elements that do not overlap with e, in their     *)
(* order.                                                                  *)
Sifted(a, c, k, e) ==
  /\ \A i \in 1 .. Len(a) : ~Overlap(a[i], e) /\ \E p \in 1 .. k : a[i] = c[p]
  /\ \A i, j \in 1 .. Len(a) :
       i < j => \E p, q \in 1 .. k : p < q /\ a[i] = c[p] /\ a[j] = c[q]

(* Apart keeps exactly what does not overlap with e.                       *)
LEMMA ApartSifts ==
  ASSUME NEW c \in Seq(Rects), NEW e
  PROVE  Apart(c, e) \in Seq(Rects) /\ Sifted(Apart(c, e), c, Len(c), e)
<1> DEFINE n == Len(c)
<1>1. PICK run \in [0 .. n -> Seq(Rects)] :
        /\ run[0] = << >> /\ Apart(c, e) = run[n]
        /\ \A k \in 1 .. n :
             run[k] = IF Overlap(c[k], e) THEN run[k - 1] ELSE Append(run[k - 1], c[k])
  BY ApartRuns
<1>2. n \in Nat /\ \A k \in 1 .. n : c[k] \in Rects
  OBVIOUS
<1> HIDE DEF n
<1> DEFINE G == {k \in 0 .. n : Sifted(run[k], c, k, e)}
<1>3. 0 \in G
  <2>1. Len(run[0]) = 0
    BY <1>1
  <2>2. Sifted(run[0], c, 0, e)
    BY <2>1 DEF Sifted
  <2>3. QED
    BY <1>2, <2>2
<1>4. ASSUME NEW k \in 1 .. n, k - 1 \in G PROVE k \in G
  <2>1. Sifted(run[k - 1], c, k - 1, e) /\ run[k - 1] \in Seq(Rects)
    BY <1>1, <1>4
  <2>2. CASE Overlap(c[k], e)
    <3>1. run[k] = run[k - 1]
      BY <1>1, <2>2
    <3>2. \A p \in 1 .. k - 1 : p \in 1 .. k
      OBVIOUS
    <3>3. Sifted(run[k], c, k, e)
      BY <2>1, <3>1, <3>2 DEF Sifted
    <3>4. QED
      BY <3>3
  <2>3. CASE ~Overlap(c[k], e)
    <3> DEFINE old == run[k - 1]
               new == run[k]
    <3>1. new = Append(old, c[k])
      BY <1>1, <2>3
    <3>2. Len(new) = Len(old) + 1 /\ Len(old) \in Nat
      BY <1>2, <2>1, <3>1
    <3>3. \A i \in 1 .. Len(old) : new[i] = old[i]
      BY <1>2, <2>1, <3>1
    <3>4. new[Len(old) + 1] = c[k]
      BY <1>2, <2>1, <3>1
    <3>5. \A i \in 1 .. Len(new) : i \in 1 .. Len(old) \/ i = Len(old) + 1
      BY <3>2
    <3>6. \A i \in 1 .. Len(old) :
            ~Overlap(old[i], e) /\ \E p \in 1 .. k : p < k /\ old[i] = c[p]
      <4>1. \A p \in 1 .. k - 1 : p \in 1 .. k /\ p < k
        OBVIOUS
      <4>2. \A i \in 1 .. Len(old) : ~Overlap(old[i], e) /\ \E p \in 1 .. k - 1 : old[i] = c[p]
        BY <2>1 DEF Sifted
      <4> HIDE DEF old
      <4>3. QED
        BY <4>1, <4>2
    <3>7. \A i, j \in 1 .. Len(old) :
            i < j => \E p, q \in 1 .. k : p < q /\ old[i] = c[p] /\ old[j] = c[q]
      BY <2>1 DEF Sifted
    <3> HIDE DEF old, new
    <3>8. ASSUME NEW i \in 1 .. Len(new)
          PROVE  ~Overlap(new[i], e) /\ \E p \in 1 .. k : new[i] = c[p]
      <4>1. CASE i \in 1 .. Len(old)
        BY <3>3, <3>6, <4>1
      <4>2. CASE i = Len(old) + 1
        BY <2>3, <3>4, <4>2
      <4>3. QED
        BY <3>5, <4>1, <4>2
    <3>9. ASSUME NEW i \in 1 .. Len(new), NEW j \in 1 .. Len(new), i < j
          PROVE  \E p, q \in 1 .. k : p < q /\ new[i] = c[p] /\ new[j] = c[q]
      <4>1. i \in 1 .. Len(old)
        BY <3>2, <3>9
      <4>2. CASE j \in 1 .. Len(old)
        BY <3>3, <3>7, <3>9, <4>1, <4>2
      <4>3. CASE j = Len(old) + 1
        <5>1. PICK p \in 1 .. k : p < k /\ old[i] = c[p]
          BY <3>6, <4>1
        <5>2. k \in 1 .. k
          OBVIOUS
        <5>3. QED
          BY <3>3, <3>4, <4>1, <4>3, <5>1, <5>2
      <4>4. QED
        BY <3>5, <4>2, <4>3
    <3>10. Sifted(new, c, k, e)
      BY <3>8, <3>9 DEF Sifted
    <3>11. QED
      BY <3>10 DEF new
  <2>4. QED
    BY <2>2, <2>3
<1>5. n \in G
  <2>1. \A k \in 0 .. n : k \in G
    <3> HIDE DEF G
    <3>1. QED
      BY <1>2, <1>3, <1>4, UpTo
  <2>2. QED
    BY <1>2, <2>1
<1>6. QED
  BY <1>1, <1>2, <1>5 DEF n

NoTwoOverlap(v) == \A i, j \in DOMAIN v : i # j => ~Overlap(v[i], v[j])

(* Adding an element to a list without overlaps gives another one.         *)
LEMMA AddKeepsApart ==
  ASSUME NEW c \in Seq(Rects), NEW e \in Rects, NoTwoOverlap(c)
  PROVE  AddElementToList(c, e) \in Seq(Rects) /\ NoTwoOverlap(AddElementToList(c, e))
<1> DEFINE a == Apart(c, e)
           new == Append(a, e)
<1>1. a \in Seq(Rects) /\ Sifted(a, c, Len(c), e)
  BY ApartSifts
<1>2. new = AddElementToList(c, e)
  BY DEF AddElementToList
<1> HIDE DEF a
<1>3. new \in Seq(Rects) /\ Len(a) \in Nat /\ DOMAIN new = 1 .. Len(a) + 1
  BY <1>1
<1>4. (\A i \in 1 .. Len(a) : new[i] = a[i]) /\ new[Len(a) + 1] = e
  BY <1>1
<1> HIDE DEF new
<1>5. ASSUME NEW i \in DOMAIN new, NEW j \in DOMAIN new, i < j
      PROVE  ~Overlap(new[i], new[j]) /\ ~Overlap(new[j], new[i])
  <2>1. i \in 1 .. Len(a)
    BY <1>3, <1>5
  <2>2. CASE j \in 1 .. Len(a)
    <3>1. PICK p, q \in 1 .. Len(c) : p < q /\ a[i] = c[p] /\ a[j] = c[q]
      BY <1>1, <1>5, <2>1, <2>2 DEF Sifted
    <3>2. p \in DOMAIN c /\ q \in DOMAIN c /\ p # q
      BY <3>1
    <3>3. ~Overlap(c[p], c[q]) /\ ~Overlap(c[q], c[p])
      BY <3>2 DEF NoTwoOverlap
    <3>4. QED
      BY <1>4, <2>1, <2>2, <3>1, <3>3
  <2>3. CASE j = Len(a) + 1
    <3>1. ~Overlap(a[i], e)
      BY <1>1, <2>1 DEF Sifted
    <3>2. ~Overlap(e, a[i])
      BY <3>1, OverlapSymmetric
    <3>3. QED
      BY <1>4, <2>1, <2>3, <3>1, <3>2
  <2>4. QED
    BY <1>3, <2>2, <2>3
<1>6. NoTwoOverlap(new)
  <2>1. ASSUME NEW i \in DOMAIN new, NEW j \in DOMAIN new, i # j PROVE ~Overlap(new[i], new[j])
    <3>1. i < j \/ j < i
      BY <1>3, <2>1
    <3>2. QED
      BY <1>5, <3>1
  <2>2. QED
    BY <2>1 DEF NoTwoOverlap
<1>7. QED
  BY <1>2, <1>3, <1>6

(* FlattenSeq of two lists is their concatenation.                         *)
LEMMA FlattenTwo ==
  ASSUME NEW a \in Seq(Rects), NEW b \in Seq(Rects)
  PROVE  FlattenSeq(<<a, b>>) = a \o b
<1> DEFINE s == <<a, b>>
           Solves(f) == f = [i \in 1 .. Len(s) |-> IF i = 1 THEN s[i] ELSE f[i - 1] \o s[i]]
           g == [i \in 1 .. 2 |-> IF i = 1 THEN a ELSE a \o b]
<1>1. Len(s) = 2 /\ s[1] = a /\ s[2] = b
  OBVIOUS
<1> HIDE DEF s
<1>2. Solves(g)
  <2>1. g[1] = a /\ g[2] = a \o b
    OBVIOUS
  <2>2. \A i \in 1 .. 2 : i = 1 \/ i = 2
    OBVIOUS
  <2>3. \A i \in 1 .. 2 : g[i] = IF i = 1 THEN s[i] ELSE g[i - 1] \o s[i]
    BY <1>1, <2>1, <2>2
  <2>4. g = [i \in 1 .. 2 |-> g[i]]
    OBVIOUS
  <2> HIDE DEF g
  <2>5. QED
    BY <1>1, <2>3, <2>4
<1>3. \E f : Solves(f)
  BY <1>2
<1>4. Len(s) # 0
  BY <1>1
<1>5. PICK f : Solves(f) /\ FlattenSeq(s) = f[Len(s)]
  BY <1>3, <1>4, Zenon DEF FlattenSeq
<1>6. f[1] = a /\ f[2] = f[1] \o s[2]
  <2>1. 1 \in 1 .. Len(s) /\ 2 \in 1 .. Len(s) /\ 2 # 1 /\ 2 - 1 = 1
    BY <1>1
  <2>2. QED
    BY <1>1, <1>5, <2>1
<1>7. QED
  BY <1>1, <1>5, <1>6 DEF s

(* The fold that associates.                                               *)
LEMMA AssociationRuns ==
  ASSUME NEW c \in Seq(Rects)
  PROVE  \E run \in [0 .. Len(c) -> Seq(Rects)] :
           /\ run[0] = << >> /\ FoldLeft(AddElementToList, << >>, c) = run[Len(c)]
           /\ \A k \in 1 .. Len(c) : run[k] = AddElementToList(run[k - 1], c[k])
<1> DEFINE X == Seq(Rects)
           n == Len(c)
           base == << >>
           step == [i \in 1 .. n |-> [x \in X |-> AddElementToList(x, c[i])]]
           Solves(f) == f = [t \in SUBSET DOMAIN c |->
                               IF t = {} THEN base
                               ELSE AddElementToList(f[t \ {Max(t)}], c[Max(t)])]
<1>1. DOMAIN c = 1 .. n /\ n \in Nat /\ base \in X /\ \A i \in 1 .. n : c[i] \in Rects
  OBVIOUS
<1>2. step \in [1 .. n -> [X -> X]]
  <2>1. \A i \in 1 .. n : \A x \in X : AddElementToList(x, c[i]) \in X
    <3>1. ASSUME NEW i \in 1 .. n, NEW x \in X PROVE AddElementToList(x, c[i]) \in X
      <4>1. Apart(x, c[i]) \in Seq(Rects)
        BY ApartSifts
      <4>2. QED
        BY <1>1, <4>1 DEF AddElementToList
    <3>2. QED
      BY <3>1
  <2>2. QED
    BY <2>1
<1>3. ASSUME NEW i \in 1 .. n, NEW x \in X PROVE step[i][x] = AddElementToList(x, c[i])
  OBVIOUS
<1> HIDE DEF X, n, step, base
<1>4. PICK h \in [SUBSET (1 .. n) -> X] : IsFold(h, base, n, step)
  BY <1>1, <1>2, FoldExists, Zenon
<1>5. \A s \in SUBSET (1 .. n) : s # {} => Max(s) \in s
  BY <1>1, MaxIn
<1>6. \E f : Solves(f)
  <2>1. Solves(h)
    <3>1. h = [t \in SUBSET (1 .. n) |-> h[t]]
      OBVIOUS
    <3>2. ASSUME NEW t \in SUBSET (1 .. n), t # {}
          PROVE  h[t] = AddElementToList(h[t \ {Max(t)}], c[Max(t)])
      <4>1. Max(t) \in 1 .. n /\ h[t \ {Max(t)}] \in X
        BY <1>5, <3>2
      <4>2. QED
        BY <1>3, <1>4, <3>2, <4>1 DEF IsFold
    <3>3. \A t \in SUBSET (1 .. n) :
            h[t] = IF t = {} THEN base ELSE AddElementToList(h[t \ {Max(t)}], c[Max(t)])
      BY <1>4, <3>2 DEF IsFold
    <3>4. QED
      BY <1>1, <3>1, <3>3
  <2>2. QED
    BY <2>1
<1>7. PICK f : Solves(f) /\ FoldLeft(AddElementToList, << >>, c) = f[DOMAIN c]
  BY <1>6, Zenon DEF base, FoldLeft, MapThenFoldSet
<1>8. f[{}] = base
  BY <1>7
<1>9. ASSUME NEW s \in SUBSET (1 .. n), s # {}, f[s \ {Max(s)}] \in X
      PROVE  f[s] = step[Max(s)][f[s \ {Max(s)}]]
  <2>1. f[s] = AddElementToList(f[s \ {Max(s)}], c[Max(s)])
    BY <1>1, <1>7, <1>9
  <2>2. QED
    BY <1>3, <1>5, <1>9, <2>1
<1> HIDE DEF Solves
<1>10. SolvesFold(f, base, n, step, X)
  BY <1>8, <1>9 DEF SolvesFold
<1>11. PICK run \in [0 .. n -> X] : IsRun(run, base, n, step) /\ f[1 .. n] = run[n]
  <2>1. n \in Nat /\ base \in X
    BY <1>1
  <2>2. HasRun(f, base, n, step, X)
    BY <1>2, <1>10, <2>1, FoldRuns, Zenon
  <2>3. QED
    BY <2>2 DEF HasRun
<1>12. \A k \in 1 .. n : run[k] = AddElementToList(run[k - 1], c[k])
  BY <1>1, <1>3, <1>11 DEF IsRun
<1>13. QED
  BY <1>1, <1>7, <1>11, <1>12 DEF IsRun, X, n, base

(* No two of the rectangles that the association gives overlap.            *)
LEMMA AssociationApart ==
  ASSUME NEW a \in Seq(Rects), NEW b \in Seq(Rects)
  PROVE  LET v == GetNonOverlappingElements(<<a, b>>)
         IN  v \in Seq(Rects) /\ NoTwoOverlap(v)
<1> DEFINE c == a \o b
           n == Len(c)
<1>1. c \in Seq(Rects)
  OBVIOUS
<1>2. GetNonOverlappingElements(<<a, b>>) = FoldLeft(AddElementToList, << >>, c)
  BY FlattenTwo, Zenon DEF GetNonOverlappingElements
<1> HIDE DEF c
<1>3. PICK run \in [0 .. n -> Seq(Rects)] :
        /\ run[0] = << >> /\ FoldLeft(AddElementToList, << >>, c) = run[n]
        /\ \A k \in 1 .. n : run[k] = AddElementToList(run[k - 1], c[k])
  BY <1>1, AssociationRuns
<1>4. n \in Nat /\ \A k \in 1 .. n : c[k] \in Rects
  BY <1>1
<1> HIDE DEF n
<1> DEFINE G == {k \in 0 .. n : NoTwoOverlap(run[k])}
<1>5. 0 \in G
  <2>1. DOMAIN run[0] = {}
    BY <1>3
  <2>2. QED
    BY <1>4, <2>1 DEF NoTwoOverlap
<1>6. ASSUME NEW k \in 1 .. n, k - 1 \in G PROVE k \in G
  <2>1. run[k - 1] \in Seq(Rects) /\ NoTwoOverlap(run[k - 1])
    BY <1>3, <1>6
  <2>2. NoTwoOverlap(AddElementToList(run[k - 1], c[k]))
    BY <1>4, <2>1, AddKeepsApart
  <2>3. QED
    BY <1>3, <2>2
<1>7. \A k \in 0 .. n : k \in G
  <2> HIDE DEF G
  <2>1. QED
    BY <1>4, <1>5, <1>6, UpTo
<1>8. run[n] \in Seq(Rects) /\ NoTwoOverlap(run[n])
  BY <1>3, <1>4, <1>7
<1>9. QED
  BY <1>2, <1>3, <1>8

-----------------------------------------------------------------------------
(* Types.                                                                  *)

Times == 1 .. MaxTime
Vector == Seq(Rects)
Packets(T, V) == UNION {[D -> V] : D \in SUBSET T}
StreamType == [at : Packets(Times, Vector), bound : 1 .. DoneTime]
InnerType(V) == [at : Packets(Nat, V), bound : Nat]
ItemType == [of : Times, rect : Rects]

SpecType == [ts : Times, loop : Unset .. MaxTime]
GivenType == [ts : 0 .. MaxTime, value : Vector \cup {NoPacket}]
CalcType ==
  [specs : Seq(SpecType), prevMain : 0 .. MaxTime, prevNonEmpty : 0 .. MaxTime,
   loops : Seq(GivenType), prevLoop : Unset .. MaxTime]

TypeOK ==
  /\ setting \in Settings
  /\ image \in StreamType /\ prev \in StreamType /\ palm \in StreamType
  /\ hand \in StreamType /\ loop \in StreamType
  /\ item \in InnerType(ItemType) /\ batch \in InnerType(Times) /\ body \in InnerType(Rects)
  /\ pos \in [Nodes -> 0 .. MaxTime]
  /\ loopTs \in Nat /\ coll \in Vector /\ kept \in [Times -> Vector]
  /\ calc \in CalcType
  /\ ready \in [Sides -> {Unset} \cup 1 .. DoneTime]
  /\ last \in [Sides -> {Unset} \cup Times]

(* What the constants are, as the proofs need them.                        *)
LEMMA TimeFacts ==
  /\ MaxFrames \in Nat /\ MaxTime \in Nat /\ MaxTime >= 2 /\ DoneTime = MaxTime + 1
  /\ MaxTime = 2 * MaxFrames + 2
  /\ Unset = -1 /\ Unstarted = 0
  /\ IsFiniteSet(Rects) /\ NoPacket \notin Rects
BY HandGraphAssumption DEF MaxTime, DoneTime, Unset, Unstarted

(* The fields of the chosen setting.                                       *)
LEMMA SettingFacts ==
  ASSUME setting \in Settings
  PROVE  /\ setting.numHands \in Nat \ {0} /\ setting.rects \subseteq Rects
         /\ setting.palms \in Nat /\ setting.frames \in 0 .. MaxFrames
BY HandGraphAssumption

(* What is known of the packets of a stream ...                            *)
LEMMA PacketsOut ==
  ASSUME NEW T, NEW V, NEW f \in Packets(T, V)
  PROVE  DOMAIN f \subseteq T /\ f \in [DOMAIN f -> V] /\ \A x \in DOMAIN f : f[x] \in V
BY DEF Packets

(* ... and what has to be shown of them.                                   *)
LEMMA PacketsIn ==
  ASSUME NEW T, NEW V, NEW D \in SUBSET T, NEW f \in [D -> V]
  PROVE  f \in Packets(T, V)
BY DEF Packets

(* A stream may be empty.                                                  *)
LEMMA NoPackets == ASSUME NEW T, NEW V PROVE << >> \in Packets(T, V)
<1>1. << >> \in [{} -> V] /\ {} \in SUBSET T
  OBVIOUS
<1>2. QED
  BY <1>1, PacketsIn

(* A stream without packets has << >>.                                     *)
LEMMA EmptyPackets ==
  ASSUME NEW T, NEW V, NEW f \in Packets(T, V)
  PROVE  f = << >> <=> DOMAIN f = {}
<1>1. f \in [DOMAIN f -> V]
  BY PacketsOut
<1>2. << >> \in [{} -> V] /\ DOMAIN << >> = {}
  OBVIOUS
<1>3. QED
  BY <1>1, <1>2

(* Min of FiniteSetsExt is the least element.                              *)
LEMMA MinIn ==
  ASSUME NEW S \in SUBSET Nat, S # {}
  PROVE  Min(S) \in S /\ Min(S) \in Nat /\ \A y \in S : Min(S) <= y
<1>1. PICK x \in S : \A y \in S : x <= y
  BY LeastElement
<1>2. QED
  BY <1>1 DEF Min

(* Min of two numbers.                                                     *)
LEMMA MinTwo ==
  ASSUME NEW a \in Nat, NEW b \in Nat
  PROVE  Min({a, b}) = IF a <= b THEN a ELSE b
<1>1. Min({a, b}) \in {a, b} /\ Min({a, b}) <= a /\ Min({a, b}) <= b
  BY MinIn
<1>2. QED
  BY <1>1

(* The fields of a stream between the nodes.                               *)
LEMMA StreamFacts ==
  ASSUME NEW s \in StreamType
  PROVE  /\ DOMAIN s.at \subseteq Times /\ s.at \in [DOMAIN s.at -> Vector]
         /\ \A t \in DOMAIN s.at : s.at[t] \in Vector
         /\ s.bound \in 1 .. DoneTime /\ s.bound \in Nat
         /\ s = [at |-> s.at, bound |-> s.bound]
<1>1. s.at \in Packets(Times, Vector) /\ s.bound \in 1 .. DoneTime
      /\ s = [at |-> s.at, bound |-> s.bound]
  BY DEF StreamType
<1>2. QED
  BY <1>1, PacketsOut, TimeFacts

(* The fields of a stream in the loop.                                     *)
LEMMA InnerFacts ==
  ASSUME NEW V, NEW s \in InnerType(V)
  PROVE  /\ DOMAIN s.at \subseteq Nat /\ s.at \in [DOMAIN s.at -> V]
         /\ \A t \in DOMAIN s.at : s.at[t] \in V
         /\ s.bound \in Nat /\ s.at \in Packets(Nat, V)
         /\ s = [at |-> s.at, bound |-> s.bound]
<1>1. s.at \in Packets(Nat, V) /\ s.bound \in Nat /\ s = [at |-> s.at, bound |-> s.bound]
  BY DEF InnerType
<1>2. QED
  BY <1>1, PacketsOut

IsSent(new, s, t, v) ==
  /\ new \in StreamType
  /\ DOMAIN new.at = DOMAIN s.at \cup (IF v = NoPacket THEN {} ELSE {t})
  /\ \A u \in DOMAIN s.at : new.at[u] = s.at[u]
  /\ t \notin DOMAIN s.at /\ v # NoPacket => new.at[t] = v
  /\ new.bound = IF s.bound > t THEN s.bound ELSE IF t < MaxTime THEN t + 1 ELSE MaxTime

(* Send adds its packet, if it is one, and moves the bound.                *)
LEMMA SendFacts ==
  ASSUME NEW s \in StreamType, NEW t \in Times, NEW v \in Vector \cup {NoPacket}
  PROVE  IsSent(Send(s, t, v), s, t, v)
<1> DEFINE D == DOMAIN s.at \cup (IF v = NoPacket THEN {} ELSE {t})
           f == [u \in D |-> IF Has(s, u) THEN s.at[u] ELSE v]
           b == IF s.bound > t THEN s.bound ELSE Min({t + 1, MaxTime})
<1>1. Send(s, t, v) = [at |-> f, bound |-> b]
  BY DEF Send
<1>2. D \in SUBSET Times /\ \A u \in D : ~Has(s, u) => v \in Vector
  BY StreamFacts DEF Has
<1>3. f \in [D -> Vector]
  BY <1>2, StreamFacts DEF Has
<1>4. b = IF s.bound > t THEN s.bound ELSE IF t < MaxTime THEN t + 1 ELSE MaxTime
  <2>1. t + 1 \in Nat /\ MaxTime \in Nat
    BY TimeFacts DEF Times
  <2>2. Min({t + 1, MaxTime}) = IF t + 1 <= MaxTime THEN t + 1 ELSE MaxTime
    BY <2>1, MinTwo
  <2>3. QED
    BY <2>1, <2>2, TimeFacts DEF Times
<1>5. b \in 1 .. DoneTime
  BY <1>4, StreamFacts, TimeFacts DEF Times
<1>6. f \in Packets(Times, Vector)
  BY <1>2, <1>3, PacketsIn
<1>7. \A u \in DOMAIN s.at : f[u] = s.at[u]
  BY DEF Has
<1>8. t \notin DOMAIN s.at /\ v # NoPacket => f[t] = v
  BY DEF Has
<1> HIDE DEF f, b
<1>9. DOMAIN f = D
  BY <1>3
<1>10. QED
  BY <1>1, <1>4, <1>5, <1>6, <1>7, <1>8, <1>9 DEF StreamType, IsSent

(* SetBound raises the bound and leaves the packets alone.                 *)
LEMMA SetBoundFacts ==
  ASSUME NEW s \in StreamType, NEW b \in 1 .. DoneTime
  PROVE  /\ SetBound(s, b) \in StreamType /\ SetBound(s, b).at = s.at
         /\ SetBound(s, b).bound = IF b > s.bound THEN b ELSE s.bound
<1>1. s.at \in Packets(Times, Vector) /\ s.bound \in 1 .. DoneTime
      /\ s = [at |-> s.at, bound |-> s.bound]
  BY DEF StreamType
<1>2. SetBound(s, b) = [at |-> s.at, bound |-> IF b > s.bound THEN b ELSE s.bound]
  BY <1>1 DEF SetBound
<1>3. QED
  BY <1>1, <1>2 DEF StreamType

(* The same for a stream in the loop.                                      *)
LEMMA InnerBoundFacts ==
  ASSUME NEW V, NEW s \in InnerType(V), NEW b \in Nat
  PROVE  /\ SetBound(s, b) \in InnerType(V) /\ SetBound(s, b).at = s.at
         /\ SetBound(s, b).bound = IF b > s.bound THEN b ELSE s.bound
<1>1. s.at \in Packets(Nat, V) /\ s.bound \in Nat /\ s = [at |-> s.at, bound |-> s.bound]
  BY DEF InnerType
<1>2. SetBound(s, b) = [at |-> s.at, bound |-> IF b > s.bound THEN b ELSE s.bound]
  BY <1>1 DEF SetBound
<1>3. QED
  BY <1>1, <1>2 DEF InnerType

IsPut(new, V, s, D, f, b) ==
  /\ new \in InnerType(V) /\ new.bound = b
  /\ DOMAIN new.at = DOMAIN s.at \cup D
  /\ \A u \in DOMAIN s.at : new.at[u] = s.at[u]
  /\ \A u \in D \ DOMAIN s.at : new.at[u] = f[u]

(* PutAll adds packets at several times.                                   *)
LEMMA PutAllFacts ==
  ASSUME NEW V, NEW s \in InnerType(V), NEW D \in SUBSET Nat, NEW f \in [D -> V], NEW b \in Nat
  PROVE  IsPut(PutAll(s, f, b), V, s, D, f, b)
<1> DEFINE E == DOMAIN s.at \cup D
           g == [u \in E |-> IF Has(s, u) THEN s.at[u] ELSE f[u]]
<1>1. PutAll(s, f, b) = [at |-> g, bound |-> b]
  BY DEF PutAll
<1>2. E \in SUBSET Nat
  BY InnerFacts
<1>3. g \in [E -> V]
  BY InnerFacts DEF Has
<1>4. g \in Packets(Nat, V)
  BY <1>2, <1>3, PacketsIn
<1>5. \A u \in DOMAIN s.at : g[u] = s.at[u]
  BY DEF Has
<1>6. \A u \in D \ DOMAIN s.at : g[u] = f[u]
  BY DEF Has
<1> HIDE DEF g
<1>7. QED
  BY <1>1, <1>3, <1>4, <1>5, <1>6 DEF InnerType, IsPut

(* Put adds one packet.                                                    *)
LEMMA PutFacts ==
  ASSUME NEW V, NEW s \in InnerType(V), NEW t \in Nat, NEW v \in V
  PROVE  LET new == Put(s, t, v)
         IN  /\ new \in InnerType(V) /\ new.bound = t + 1
             /\ DOMAIN new.at = DOMAIN s.at \cup {t}
             /\ \A u \in DOMAIN s.at : new.at[u] = s.at[u]
             /\ t \notin DOMAIN s.at => new.at[t] = v
<1>1. PICK D \in SUBSET Nat : D = {t}
  OBVIOUS
<1>2. PICK f \in [D -> V] : f = [u \in D |-> v] /\ \A u \in D : f[u] = v
  <2> DEFINE g == [u \in D |-> v]
  <2>1. g \in [D -> V] /\ \A u \in D : g[u] = v
    OBVIOUS
  <2>2. QED
    BY <2>1
<1>3. PICK b \in Nat : b = t + 1
  OBVIOUS
<1>4. Put(s, t, v) = PutAll(s, f, b)
  BY <1>1, <1>2, <1>3 DEF Put
<1>5. IsPut(PutAll(s, f, b), V, s, D, f, b)
  BY PutAllFacts
<1>6. QED
  BY <1>1, <1>2, <1>3, <1>4, <1>5 DEF IsPut

(* Without takes one packet away.                                          *)
LEMMA WithoutFacts ==
  ASSUME NEW V, NEW s \in InnerType(V), NEW t
  PROVE  LET new == Without(s, t)
         IN  /\ new \in InnerType(V) /\ new.bound = s.bound
             /\ DOMAIN new.at = DOMAIN s.at \ {t}
             /\ \A u \in DOMAIN new.at : new.at[u] = s.at[u]
<1> DEFINE D == DOMAIN s.at \ {t}
           g == [u \in D |-> s.at[u]]
<1>1. s = [at |-> s.at, bound |-> s.bound] /\ s.bound \in Nat
  BY InnerFacts
<1>2. Without(s, t) = [at |-> g, bound |-> s.bound]
  BY <1>1 DEF Without
<1>3. D \in SUBSET Nat /\ g \in [D -> V]
  BY InnerFacts
<1>4. g \in Packets(Nat, V)
  BY <1>3, PacketsIn
<1>5. QED
  BY <1>1, <1>2, <1>3, <1>4 DEF InnerType

-----------------------------------------------------------------------------
(* The folds of PreviousLoopback and of its outputs.                       *)

SentType == [ts : Times, value : Vector \cup {NoPacket}]
RoundType == [calc : CalcType, sent : Seq(SentType), closed : BOOLEAN]

(* The fields of PreviousLoopbackCalculator.                               *)
LEMMA CalcFacts ==
  ASSUME NEW c \in CalcType
  PROVE  /\ c.specs \in Seq(SpecType) /\ c.prevMain \in 0 .. MaxTime
         /\ c.prevNonEmpty \in 0 .. MaxTime /\ c.loops \in Seq(GivenType)
         /\ c.prevLoop \in Unset .. MaxTime
BY DEF CalcType

(* A new MAIN packet is queued with the time of the LOOP packet that it    *)
(* waits for; an old one changes nothing.                                  *)
LEMMA NoteMainFacts ==
  ASSUME NEW c \in CalcType, NEW m \in GivenType
  PROVE  /\ NoteMain(c, m) \in CalcType
         /\ NoteMain(c, m).loops = c.loops /\ NoteMain(c, m).prevLoop = c.prevLoop
         /\ m.ts <= c.prevMain => NoteMain(c, m) = c
         /\ m.ts > c.prevMain =>
              /\ NoteMain(c, m).specs =
                   Append(c.specs, [ts |-> m.ts, loop |-> IF m.value = NoPacket THEN Unset
                                                          ELSE c.prevNonEmpty])
              /\ NoteMain(c, m).prevMain = m.ts
              /\ NoteMain(c, m).prevNonEmpty = IF m.value = NoPacket THEN c.prevNonEmpty ELSE m.ts
<1> DEFINE new == NoteMain(c, m)
           spec == [ts |-> m.ts, loop |-> IF m.value = NoPacket THEN Unset ELSE c.prevNonEmpty]
<1>1. m.ts \in 0 .. MaxTime
  BY DEF GivenType
<1>2. CASE m.ts <= c.prevMain
  <2>1. new = c
    BY <1>2 DEF NoteMain
  <2>2. QED
    BY <1>1, <1>2, <2>1, CalcFacts, TimeFacts
<1>3. CASE m.ts > c.prevMain
  <2>1. ~(m.ts <= c.prevMain)
    BY <1>1, <1>3, CalcFacts, TimeFacts
  <2> DEFINE specs == Append(c.specs, spec)
             nonEmpty == IF m.value = NoPacket THEN c.prevNonEmpty ELSE m.ts
  <2>2. new = [c EXCEPT !.specs = specs, !.prevNonEmpty = nonEmpty, !.prevMain = m.ts]
    BY <2>1 DEF NoteMain
  <2>3. spec \in SpecType
    BY <1>1, <1>3, CalcFacts, TimeFacts DEF SpecType, Times
  <2> HIDE DEF spec
  <2>4. specs \in Seq(SpecType) /\ nonEmpty \in 0 .. MaxTime
    BY <1>1, <2>3, CalcFacts
  <2> HIDE DEF specs, nonEmpty, new
  <2>5. /\ new \in CalcType /\ new.specs = specs /\ new.prevMain = m.ts
        /\ new.prevNonEmpty = nonEmpty /\ new.loops = c.loops /\ new.prevLoop = c.prevLoop
    BY <1>1, <2>2, <2>4 DEF CalcType
  <2>6. QED
    BY <2>1, <2>5 DEF spec, specs, nonEmpty, new
<1>4. QED
  BY <1>1, <1>2, <1>3, CalcFacts, TimeFacts

(* A new LOOP packet is queued; an old one changes nothing.                *)
LEMMA NoteLoopFacts ==
  ASSUME NEW c \in CalcType, NEW l \in GivenType
  PROVE  /\ NoteLoop(c, l) \in CalcType
         /\ NoteLoop(c, l).specs = c.specs /\ NoteLoop(c, l).prevMain = c.prevMain
         /\ NoteLoop(c, l).prevNonEmpty = c.prevNonEmpty
         /\ l.ts <= c.prevLoop => NoteLoop(c, l) = c
         /\ l.ts > c.prevLoop => /\ NoteLoop(c, l).loops = Append(c.loops, l)
                                 /\ NoteLoop(c, l).prevLoop = l.ts
<1> DEFINE new == NoteLoop(c, l)
<1>1. l.ts \in 0 .. MaxTime
  BY DEF GivenType
<1>2. CASE l.ts <= c.prevLoop
  <2>1. new = c
    BY <1>2 DEF NoteLoop
  <2>2. QED
    BY <1>1, <1>2, <2>1, CalcFacts, TimeFacts
<1>3. CASE l.ts > c.prevLoop
  <2>1. ~(l.ts <= c.prevLoop)
    BY <1>1, <1>3, CalcFacts, TimeFacts
  <2> DEFINE loops == Append(c.loops, l)
  <2>2. new = [c EXCEPT !.loops = loops, !.prevLoop = l.ts]
    BY <2>1 DEF NoteLoop
  <2>3. loops \in Seq(GivenType)
    BY CalcFacts
  <2>4. l.ts \in Unset .. MaxTime
    BY <1>1, TimeFacts
  <2> HIDE DEF loops, new
  <2>5. /\ new \in CalcType /\ new.loops = loops /\ new.prevLoop = l.ts
        /\ new.specs = c.specs /\ new.prevMain = c.prevMain
        /\ new.prevNonEmpty = c.prevNonEmpty
    BY <2>2, <2>3, <2>4 DEF CalcType
  <2>6. QED
    BY <2>1, <2>5 DEF loops, new
<1>4. QED
  BY <1>1, <1>2, <1>3, CalcFacts, TimeFacts

(* One round of the matching takes the head of one queue or of both.       *)
Matches(new, r, spec, cand) ==
  /\ new.calc.specs = IF spec.loop <= cand.ts THEN Tail(r.calc.specs) ELSE r.calc.specs
  /\ new.calc.loops = IF spec.loop >= cand.ts THEN Tail(r.calc.loops) ELSE r.calc.loops
  /\ new.calc.prevMain = r.calc.prevMain /\ new.calc.prevLoop = r.calc.prevLoop
  /\ new.calc.prevNonEmpty = r.calc.prevNonEmpty
  /\ new.sent = IF spec.loop <= cand.ts
                  THEN Append(r.sent, [ts |-> spec.ts,
                         value |-> IF spec.loop = cand.ts THEN cand.value ELSE NoPacket])
                  ELSE r.sent
  /\ new.closed = (r.closed \/ spec.ts = MaxTime)

LEMMA MatchFacts ==
  ASSUME NEW r \in RoundType, NEW i
  PROVE  /\ Match(r, i) \in RoundType
         /\ r.calc.specs = << >> \/ r.calc.loops = << >> => Match(r, i) = r
         /\ r.calc.specs # << >> /\ r.calc.loops # << >> =>
              Matches(Match(r, i), r, Head(r.calc.specs), Head(r.calc.loops))
<1> DEFINE c == r.calc
           spec == Head(c.specs)
           cand == Head(c.loops)
           value == IF spec.loop = cand.ts THEN cand.value ELSE NoPacket
           packet == [ts |-> spec.ts, value |-> value]
           specs == IF spec.loop <= cand.ts THEN Tail(c.specs) ELSE c.specs
           loops == IF spec.loop >= cand.ts THEN Tail(c.loops) ELSE c.loops
           sent == IF spec.loop <= cand.ts THEN Append(r.sent, packet) ELSE r.sent
           closed == r.closed \/ spec.ts = MaxTime
           new == Match(r, i)
<1>1. c \in CalcType /\ r.sent \in Seq(SentType) /\ r.closed \in BOOLEAN
      /\ r = [calc |-> c, sent |-> r.sent, closed |-> r.closed]
  BY DEF RoundType
<1>2. CASE c.specs = << >> \/ c.loops = << >>
  <2>1. new = r
    BY <1>2 DEF Match
  <2>2. QED
    BY <1>2, <2>1
<1>3. CASE c.specs # << >> /\ c.loops # << >>
  <2>1. c.specs \in Seq(SpecType) /\ c.loops \in Seq(GivenType)
    BY <1>1, CalcFacts
  <2>2. spec \in SpecType /\ Tail(c.specs) \in Seq(SpecType)
    BY <1>3, <2>1
  <2>3. cand \in GivenType /\ Tail(c.loops) \in Seq(GivenType)
    BY <1>3, <2>1
  <2>4. value \in Vector \cup {NoPacket} /\ spec.ts \in Times
    BY <2>2, <2>3 DEF SpecType, GivenType
  <2>5. packet \in SentType
    BY <2>4 DEF SentType
  <2> DEFINE calc2 == [c EXCEPT !.specs = specs, !.loops = loops]
  <2>6. new = [calc |-> calc2, sent |-> sent, closed |-> closed]
    <3>1. ClosesAt(spec.ts) <=> spec.ts = MaxTime
      BY DEF ClosesAt
    <3>2. new = [calc |-> calc2, sent |-> sent, closed |-> r.closed \/ ClosesAt(spec.ts)]
      BY <1>3, Zenon DEF Match
    <3> HIDE DEF calc2, sent, spec, c
    <3>3. QED
      BY <3>1, <3>2
  <2>7. specs \in Seq(SpecType) /\ loops \in Seq(GivenType)
    BY <2>1, <2>2, <2>3
  <2>8. sent \in Seq(SentType) /\ closed \in BOOLEAN
    BY <1>1, <2>5
  <2> HIDE DEF specs, loops, sent, closed
  <2>9. /\ calc2 \in CalcType /\ calc2.specs = specs /\ calc2.loops = loops
        /\ calc2.prevMain = c.prevMain /\ calc2.prevLoop = c.prevLoop
        /\ calc2.prevNonEmpty = c.prevNonEmpty
    <3> HIDE DEF c
    <3>1. QED
      BY <1>1, <2>7 DEF CalcType
  <2> HIDE DEF calc2
  <2>10. new \in RoundType /\ new.calc = calc2 /\ new.sent = sent /\ new.closed = closed
    <3> HIDE DEF new
    <3>1. QED
      BY <2>6, <2>8, <2>9 DEF RoundType
  <2> HIDE DEF new
  <2>11. QED
    BY <1>3, <2>9, <2>10 DEF specs, loops, sent, closed, new, Matches
<1>4. QED
  BY <1>2, <1>3

Noted(c, m, l) == NoteLoop(NoteMain(c, m), l)
FirstRound(c, m, l) == [calc |-> Noted(c, m, l), sent |-> << >>, closed |-> FALSE]

(* A Process starts with a calculator of the right type.                   *)
LEMMA NotedType ==
  ASSUME NEW c \in CalcType, NEW m \in GivenType, NEW l \in GivenType
  PROVE  Noted(c, m, l) \in CalcType /\ FirstRound(c, m, l) \in RoundType
<1>1. Noted(c, m, l) \in CalcType
  BY NoteMainFacts, NoteLoopFacts DEF Noted
<1>2. << >> \in Seq(SentType) /\ FALSE \in BOOLEAN
  OBVIOUS
<1>3. QED
  BY <1>1, <1>2 DEF FirstRound, RoundType

(* The rounds of one Process.                                              *)
HasRounds(n, c, m, l) ==
  \E run \in [0 .. n -> RoundType] :
    /\ run[0] = FirstRound(c, m, l) /\ Process(c, m, l) = run[n]
    /\ \A k \in 1 .. n : run[k] = Match(run[k - 1], k)

LEMMA ProcessRuns ==
  ASSUME NEW c \in CalcType, NEW m \in GivenType, NEW l \in GivenType
  PROVE  \E n \in Nat : HasRounds(n, c, m, l)
<1> DEFINE X == RoundType
           n == Len(Noted(c, m, l).specs) + Len(Noted(c, m, l).loops)
           base == FirstRound(c, m, l)
           rounds == [i \in 1 .. n |-> i]
           step == [i \in 1 .. n |-> [x \in X |-> Match(x, i)]]
           Solves(f) == f = [t \in SUBSET DOMAIN rounds |->
                               IF t = {} THEN base
                               ELSE Match(f[t \ {Max(t)}], rounds[Max(t)])]
<1>1. n \in Nat
  <2>1. Noted(c, m, l) \in CalcType
    BY NotedType
  <2>2. Noted(c, m, l).specs \in Seq(SpecType) /\ Noted(c, m, l).loops \in Seq(GivenType)
    BY <2>1, CalcFacts
  <2>3. PICK a \in Nat : a = Len(Noted(c, m, l).specs)
    BY <2>2
  <2>4. PICK b \in Nat : b = Len(Noted(c, m, l).loops)
    BY <2>2
  <2>5. n = a + b
    BY <2>3, <2>4
  <2> HIDE DEF n
  <2>6. QED
    BY <2>5
<1>2. DOMAIN rounds = 1 .. n /\ base \in X /\ \A i \in 1 .. n : rounds[i] = i
  BY NotedType
<1>3. step \in [1 .. n -> [X -> X]]
  <2>1. \A i \in 1 .. n : \A x \in X : Match(x, i) \in X
    BY MatchFacts
  <2>2. QED
    BY <2>1
<1>4. ASSUME NEW i \in 1 .. n, NEW x \in X PROVE step[i][x] = Match(x, i)
  OBVIOUS
<1>5. Process(c, m, l) = FoldLeft(Match, base, rounds)
  BY Zenon DEF Process, FirstRound, Noted
<1> HIDE DEF X, n, step, base, rounds
<1>6. PICK h \in [SUBSET (1 .. n) -> X] : IsFold(h, base, n, step)
  BY <1>1, <1>2, <1>3, FoldExists, Zenon
<1>7. \A s \in SUBSET (1 .. n) : s # {} => Max(s) \in s
  BY <1>1, MaxIn
<1>8. \E f : Solves(f)
  <2>1. Solves(h)
    <3>1. h = [t \in SUBSET (1 .. n) |-> h[t]]
      OBVIOUS
    <3>2. ASSUME NEW t \in SUBSET (1 .. n), t # {}
          PROVE  h[t] = Match(h[t \ {Max(t)}], rounds[Max(t)])
      <4>1. Max(t) \in 1 .. n /\ h[t \ {Max(t)}] \in X
        BY <1>7, <3>2
      <4>2. QED
        BY <1>2, <1>4, <1>6, <3>2, <4>1 DEF IsFold
    <3>3. \A t \in SUBSET (1 .. n) :
            h[t] = IF t = {} THEN base ELSE Match(h[t \ {Max(t)}], rounds[Max(t)])
      BY <1>6, <3>2 DEF IsFold
    <3>4. QED
      BY <1>2, <3>1, <3>3
  <2>2. QED
    BY <2>1
<1>9. PICK f : Solves(f) /\ FoldLeft(Match, base, rounds) = f[DOMAIN rounds]
  BY <1>8, Zenon DEF FoldLeft, MapThenFoldSet
<1>10. f[{}] = base
  BY <1>9
<1>11. ASSUME NEW s \in SUBSET (1 .. n), s # {}, f[s \ {Max(s)}] \in X
       PROVE  f[s] = step[Max(s)][f[s \ {Max(s)}]]
  <2>1. f[s] = Match(f[s \ {Max(s)}], rounds[Max(s)])
    BY <1>2, <1>9, <1>11
  <2>2. QED
    BY <1>2, <1>4, <1>7, <1>11, <2>1
<1> HIDE DEF Solves
<1>12. SolvesFold(f, base, n, step, X)
  BY <1>10, <1>11 DEF SolvesFold
<1>13. PICK run \in [0 .. n -> X] : IsRun(run, base, n, step) /\ f[1 .. n] = run[n]
  <2>1. n \in Nat /\ base \in X /\ step \in [1 .. n -> [X -> X]]
    BY <1>1, <1>2, <1>3
  <2>2. HasRun(f, base, n, step, X)
    BY <1>12, <2>1, FoldRuns, Zenon
  <2>3. QED
    BY <2>2 DEF HasRun
<1>14. \A k \in 1 .. n : run[k] = Match(run[k - 1], k)
  BY <1>1, <1>4, <1>13 DEF IsRun
<1>15. run[0] = FirstRound(c, m, l) /\ Process(c, m, l) = run[n]
  BY <1>2, <1>5, <1>9, <1>13 DEF IsRun, base
<1>16. HasRounds(n, c, m, l)
  BY <1>13, <1>14, <1>15 DEF HasRounds, X
<1>17. QED
  BY <1>1, <1>16

(* So the result of a Process has its type.                                *)
LEMMA ProcessType ==
  ASSUME NEW c \in CalcType, NEW m \in GivenType, NEW l \in GivenType
  PROVE  Process(c, m, l) \in RoundType
<1>1. PICK n \in Nat : HasRounds(n, c, m, l)
  BY ProcessRuns, Zenon
<1>2. PICK run \in [0 .. n -> RoundType] : Process(c, m, l) = run[n]
  BY <1>1 DEF HasRounds
<1>3. QED
  BY <1>2

(* What a Process sends is a packet or the promise of none.                *)
LEMMA SentFacts ==
  ASSUME NEW x \in SentType
  PROVE  x.ts \in Times /\ x.value \in Vector \cup {NoPacket}
BY DEF SentType

(* One packet after the other.                                             *)
LEMMA SendAllRuns ==
  ASSUME NEW s \in StreamType, NEW c \in Seq(SentType)
  PROVE  \E run \in [0 .. Len(c) -> StreamType] :
           /\ run[0] = s /\ SendAll(s, c) = run[Len(c)]
           /\ \A k \in 1 .. Len(c) : run[k] = Send(run[k - 1], c[k].ts, c[k].value)
<1> DEFINE X == StreamType
           n == Len(c)
           op(x, p) == Send(x, p.ts, p.value)
           step == [i \in 1 .. n |-> [x \in X |-> op(x, c[i])]]
           Solves(f) == f = [t \in SUBSET DOMAIN c |->
                               IF t = {} THEN s ELSE op(f[t \ {Max(t)}], c[Max(t)])]
<1>1. DOMAIN c = 1 .. n /\ n \in Nat /\ \A i \in 1 .. n : c[i] \in SentType
  OBVIOUS
<1>2. step \in [1 .. n -> [X -> X]]
  <2>1. \A i \in 1 .. n : \A x \in X : op(x, c[i]) \in X
    BY <1>1, SentFacts, SendFacts DEF IsSent
  <2> HIDE DEF op
  <2>2. QED
    BY <2>1
<1>3. ASSUME NEW i \in 1 .. n, NEW x \in X PROVE step[i][x] = op(x, c[i])
  OBVIOUS
<1> HIDE DEF X, n, step
<1>4. PICK h \in [SUBSET (1 .. n) -> X] : IsFold(h, s, n, step)
  BY <1>1, <1>2, FoldExists, Zenon DEF X
<1>5. \A u \in SUBSET (1 .. n) : u # {} => Max(u) \in u
  BY <1>1, MaxIn
<1>6. \E f : Solves(f)
  <2>1. Solves(h)
    <3>1. h = [t \in SUBSET (1 .. n) |-> h[t]]
      OBVIOUS
    <3> HIDE DEF op
    <3>2. ASSUME NEW t \in SUBSET (1 .. n), t # {}
          PROVE  h[t] = op(h[t \ {Max(t)}], c[Max(t)])
      <4>1. Max(t) \in 1 .. n /\ h[t \ {Max(t)}] \in X
        BY <1>5, <3>2
      <4>2. QED
        BY <1>3, <1>4, <3>2, <4>1 DEF IsFold
    <3>3. \A t \in SUBSET (1 .. n) :
            h[t] = IF t = {} THEN s ELSE op(h[t \ {Max(t)}], c[Max(t)])
      BY <1>4, <3>2 DEF IsFold
    <3>4. QED
      BY <1>1, <3>1, <3>3
  <2>2. QED
    BY <2>1
<1>7. PICK f : Solves(f) /\ SendAll(s, c) = f[DOMAIN c]
  BY <1>6, Zenon DEF SendAll, FoldLeft, MapThenFoldSet
<1>8. f[{}] = s
  BY <1>7
<1>9. ASSUME NEW u \in SUBSET (1 .. n), u # {}, f[u \ {Max(u)}] \in X
      PROVE  f[u] = step[Max(u)][f[u \ {Max(u)}]]
  <2> HIDE DEF op
  <2>1. f[u] = op(f[u \ {Max(u)}], c[Max(u)])
    BY <1>1, <1>7, <1>9
  <2>2. QED
    BY <1>3, <1>5, <1>9, <2>1
<1> HIDE DEF op, Solves
<1>10. SolvesFold(f, s, n, step, X)
  BY <1>8, <1>9 DEF SolvesFold
<1>11. s \in X
  BY DEF X
<1>12. PICK run \in [0 .. n -> X] : IsRun(run, s, n, step) /\ f[1 .. n] = run[n]
  <2>1. n \in Nat /\ step \in [1 .. n -> [X -> X]]
    BY <1>1, <1>2
  <2>2. HasRun(f, s, n, step, X)
    BY <1>10, <1>11, <2>1, FoldRuns, Zenon
  <2>3. QED
    BY <2>2 DEF HasRun
<1>13. \A k \in 1 .. n : run[k] = op(run[k - 1], c[k])
  BY <1>1, <1>3, <1>12 DEF IsRun
<1>14. QED
  BY <1>1, <1>7, <1>12, <1>13 DEF IsRun, op, X, n

(* So the stream keeps its type.                                           *)
LEMMA SendAllType ==
  ASSUME NEW s \in StreamType, NEW c \in Seq(SentType)
  PROVE  SendAll(s, c) \in StreamType
<1>1. Len(c) \in Nat /\ \E run \in [0 .. Len(c) -> StreamType] : SendAll(s, c) = run[Len(c)]
  BY SendAllRuns
<1>2. Len(c) \in 0 .. Len(c)
  BY <1>1
<1>3. QED
  BY <1>1, <1>2

-----------------------------------------------------------------------------
(* Times that the handlers compute.                                        *)

(* What a consumer has not processed yet, and the least time that it may   *)
(* still see.                                                              *)
LEMMA QueueFacts ==
  ASSUME NEW s \in StreamType, NEW p \in Int
  PROVE  /\ Queue(s, p) \subseteq Times
         /\ MinTimestampOrBound(s, p) \in 1 .. DoneTime
         /\ MinTimestampOrBound(s, p) \in Queue(s, p) \cup {s.bound}
         /\ MinTimestampOrBound(s, p) <= s.bound
         /\ \A t \in DOMAIN s.at : t > p => MinTimestampOrBound(s, p) <= t
<1>1. Queue(s, p) \subseteq Times /\ s.bound \in 1 .. DoneTime
  BY StreamFacts DEF Queue
<1>2. Queue(s, p) \cup {s.bound} \subseteq 1 .. DoneTime /\ 1 .. DoneTime \subseteq Nat
  BY <1>1, TimeFacts DEF Times
<1> DEFINE S == Queue(s, p) \cup {s.bound}
<1>3. S \in SUBSET Nat /\ S # {}
  BY <1>2
<1>4. Min(S) \in S /\ \A y \in S : Min(S) <= y
  <2> HIDE DEF S
  <2>1. QED
    BY <1>3, MinIn
<1>5. \A t \in DOMAIN s.at : t > p => t \in S
  BY DEF Queue
<1>6. MinTimestampOrBound(s, p) = Min(S)
  BY DEF MinTimestampOrBound
<1>7. s.bound \in S /\ S \subseteq 1 .. DoneTime
  BY <1>2
<1> HIDE DEF S
<1>8. QED
  BY <1>1, <1>4, <1>5, <1>6, <1>7 DEF S

(* The earliest packet of several inputs.                                  *)
LEMMA EarliestFacts ==
  ASSUME NEW ins \in SUBSET StreamType, NEW p \in Int
  PROVE  /\ Earliest(ins, p) \in 1 .. DoneTime
         /\ Earliest(ins, p) < DoneTime =>
              /\ Earliest(ins, p) \in Times /\ Earliest(ins, p) > p
              /\ \E s \in ins : Has(s, Earliest(ins, p))
         /\ \A s \in ins : \A t \in DOMAIN s.at : t > p => Earliest(ins, p) <= t
<1> DEFINE S == (UNION {Queue(s, p) : s \in ins}) \cup {DoneTime}
<1>1. \A s \in ins : Queue(s, p) \subseteq Times
  BY QueueFacts
<1>2. S \subseteq 1 .. DoneTime /\ DoneTime \in Nat /\ DoneTime \in S
  BY <1>1, TimeFacts DEF Times
<1>3. \A x \in S : x # DoneTime => \E s \in ins : x \in Queue(s, p)
  OBVIOUS
<1>4. \A s \in ins : \A t \in DOMAIN s.at : t > p => t \in S
  BY DEF Queue
<1>5. Earliest(ins, p) = Min(S)
  BY DEF Earliest
<1> HIDE DEF S
<1>6. Min(S) \in S /\ \A y \in S : Min(S) <= y
  <2>1. S \in SUBSET Nat /\ S # {}
    BY <1>2
  <2>2. QED
    BY <2>1, MinIn
<1>7. \A s \in ins : \A x \in Queue(s, p) : x \in Times /\ x > p /\ Has(s, x)
  BY <1>1 DEF Queue, Has
<1> DEFINE e == Earliest(ins, p)
<1>8. e \in S /\ \A y \in S : e <= y
  BY <1>5, <1>6
<1> HIDE DEF e
<1>9. e \in 1 .. DoneTime
  BY <1>2, <1>8
<1>10. ASSUME e < DoneTime
       PROVE  e \in Times /\ e > p /\ \E s \in ins : Has(s, e)
  <2>1. e # DoneTime
    BY <1>9, <1>10, TimeFacts
  <2>2. PICK s \in ins : e \in Queue(s, p)
    BY <1>3, <1>8, <2>1
  <2>3. QED
    BY <1>7, <2>2
<1>11. \A s \in ins : \A t \in DOMAIN s.at : t > p => e <= t
  BY <1>4, <1>8
<1>12. QED
  BY <1>9, <1>10, <1>11 DEF e

(* What two inputs have settled is before the bounds of both.              *)
LEMMA SettledFacts ==
  ASSUME NEW a \in StreamType, NEW b \in StreamType, NEW p \in Int
  PROVE  /\ Settled({a, b}, p) \in 1 .. DoneTime
         /\ Settled({a, b}, p) <= MinTimestampOrBound(a, p)
         /\ Settled({a, b}, p) <= MinTimestampOrBound(b, p)
         /\ Settled({a, b}, p) <= a.bound /\ Settled({a, b}, p) <= b.bound
<1>1. /\ MinTimestampOrBound(a, p) \in 1 .. DoneTime /\ MinTimestampOrBound(b, p) \in 1 .. DoneTime
      /\ MinTimestampOrBound(a, p) <= a.bound /\ MinTimestampOrBound(b, p) <= b.bound
  BY QueueFacts
<1>2. a.bound \in Nat /\ b.bound \in Nat
  BY StreamFacts
<1>3. Settled({a, b}, p) = Min({MinTimestampOrBound(a, p), MinTimestampOrBound(b, p)})
  <2>1. {MinTimestampOrBound(s, p) : s \in {a, b}}
          = {MinTimestampOrBound(a, p), MinTimestampOrBound(b, p)}
    OBVIOUS
  <2>2. QED
    BY <2>1 DEF Settled
<1>4. MinTimestampOrBound(a, p) \in Nat /\ MinTimestampOrBound(b, p) \in Nat
  BY <1>1, TimeFacts
<1>5. QED
  BY <1>1, <1>2, <1>3, <1>4, MinTwo

(* A node that runs goes on to a later time, of which all its inputs know. *)
LEMMA RunsFacts ==
  ASSUME TypeOK, NEW n \in Nodes, NEW ins \in SUBSET StreamType, Runs(n, ins)
  PROVE  /\ pos' \in [Nodes -> 0 .. MaxTime]
         /\ pos'[n] = Earliest(ins, pos[n]) /\ pos'[n] \in Times /\ pos'[n] > pos[n]
         /\ \A m \in Nodes \ {n} : pos'[m] = pos[m]
         /\ \A s \in ins : Has(s, pos'[n]) \/ s.bound > pos'[n]
<1> DEFINE t == Earliest(ins, pos[n])
<1>1. /\ t < DoneTime /\ pos' = [pos EXCEPT ![n] = t]
      /\ \A s \in ins : Has(s, t) \/ s.bound > t
  BY DEF Runs
<1>2. pos \in [Nodes -> 0 .. MaxTime] /\ pos[n] \in Int
  BY TimeFacts DEF TypeOK
<1>3. t \in Times /\ t > pos[n]
  BY <1>1, <1>2, EarliestFacts
<1> HIDE DEF t
<1>4. t \in 0 .. MaxTime
  BY <1>3, TimeFacts DEF Times
<1>5. QED
  BY <1>1, <1>2, <1>3, <1>4 DEF t

(* A palm vector is a vector after it was clipped.                         *)
LEMMA ClipFacts ==
  ASSUME setting \in Settings, NEW v \in Vectors(setting.palms)
  PROVE  Collected(Clip(v)) \in Vector \cup {NoPacket}
<1>1. PICK m \in 0 .. setting.palms : v \in [1 .. m -> setting.rects]
  BY DEF Vectors
<1>2. m \in Nat /\ setting.rects \subseteq Rects /\ setting.numHands \in Nat
  BY SettingFacts
<1>3. v \in Seq(Rects) /\ Len(v) = m
  BY <1>1, <1>2
<1>4. Min({Len(v), setting.numHands}) \in 0 .. Len(v)
  BY <1>2, <1>3, MinTwo
<1>5. Clip(v) \in Seq(Rects)
  <2> DEFINE k == Min({Len(v), setting.numHands})
  <2>1. k \in 0 .. Len(v)
    BY <1>4
  <2> HIDE DEF k
  <2>2. 1 \in Int /\ k \in Int /\ \A i \in 1 .. k : v[i] \in Rects
    BY <1>2, <1>3, <2>1
  <2>3. SubSeq(v, 1, k) \in Seq(Rects)
    BY <2>2, SubSeqProperties
  <2>4. QED
    BY <2>3 DEF Clip, k
<1>6. QED
  BY <1>5 DEF Collected, Vector

-----------------------------------------------------------------------------
(* Types, action by action.                                                *)

(* The palm detection keeps the types.                                     *)
LEMMA DetectTypes ==
  ASSUME TypeOK, Detect, UNCHANGED setting
  PROVE  TypeOK'
<1>1. setting \in Settings /\ image \in StreamType /\ prev \in StreamType /\ palm \in StreamType
  BY DEF TypeOK
<1>2. palm' \in StreamType /\ pos' \in [Nodes -> 0 .. MaxTime]
  <2>1. CASE Runs("Detect", {image, prev})
             /\ \E found \in Vectors(setting.palms) :
                  palm' = IF EnoughHands(Value(prev, pos'["Detect"]))
                            THEN Send(palm, pos'["Detect"], NoPacket)
                            ELSE Send(palm, pos'["Detect"], Collected(Clip(found)))
    <3>1. pos' \in [Nodes -> 0 .. MaxTime] /\ pos'["Detect"] \in Times
      BY <1>1, <2>1, RunsFacts DEF Nodes
    <3>2. PICK found \in Vectors(setting.palms) :
            palm' = IF EnoughHands(Value(prev, pos'["Detect"]))
                      THEN Send(palm, pos'["Detect"], NoPacket)
                      ELSE Send(palm, pos'["Detect"], Collected(Clip(found)))
      BY <2>1
    <3>3. Collected(Clip(found)) \in Vector \cup {NoPacket}
      BY <1>1, ClipFacts
    <3>4. /\ Send(palm, pos'["Detect"], NoPacket) \in StreamType
          /\ Send(palm, pos'["Detect"], Collected(Clip(found))) \in StreamType
      BY <1>1, <3>1, <3>3, SendFacts DEF IsSent
    <3>5. QED
      BY <3>1, <3>2, <3>4
  <2>2. CASE /\ Passes("Detect", {image, prev}, palm)
             /\ palm' = SetBound(palm, Settled({image, prev}, pos["Detect"]))
    <3>1. pos["Detect"] \in Int /\ pos' = pos
      BY <2>2, TimeFacts DEF TypeOK, Passes, Nodes
    <3>2. Settled({image, prev}, pos["Detect"]) \in 1 .. DoneTime
      BY <1>1, <3>1, SettledFacts
    <3>3. palm' \in StreamType
      BY <1>1, <2>2, <3>2, SetBoundFacts
    <3>4. QED
      BY <3>1, <3>3 DEF TypeOK
  <2>3. QED
    BY <2>1, <2>2 DEF Detect
<1>3. QED
  BY <1>2 DEF TypeOK, Detect, inner, loopback

(* AssociationNormRect keeps the types, and sends no vector with overlaps. *)
LEMMA AssociateTypes ==
  ASSUME TypeOK, NoOverlaps, Associate, UNCHANGED setting
  PROVE  TypeOK' /\ NoOverlaps'
<1>1. /\ palm \in StreamType /\ prev \in StreamType /\ hand \in StreamType
  BY DEF TypeOK
<1>2. hand' \in StreamType /\ pos' \in [Nodes -> 0 .. MaxTime] /\ NoOverlaps'
  <2>1. CASE /\ Runs("Associate", {palm, prev})
             /\ LET t == pos'["Associate"]
                    given(s) == IF Has(s, t) THEN s.at[t] ELSE << >>
                IN  hand' = Send(hand, t, GetNonOverlappingElements(<<given(palm), given(prev)>>))
    <3> DEFINE t == pos'["Associate"]
               given(s) == IF Has(s, t) THEN s.at[t] ELSE << >>
               v == GetNonOverlappingElements(<<given(palm), given(prev)>>)
    <3>1. pos' \in [Nodes -> 0 .. MaxTime] /\ t \in Times
      BY <1>1, <2>1, RunsFacts DEF Nodes
    <3>2. given(palm) \in Seq(Rects) /\ given(prev) \in Seq(Rects)
      BY <1>1, StreamFacts DEF Has, Vector
    <3>3. v \in Seq(Rects) /\ NoTwoOverlap(v)
      <4> HIDE DEF given
      <4>1. QED
        BY <3>2, AssociationApart
    <3>4. hand' = Send(hand, t, v)
      BY <2>1
    <3> HIDE DEF t, v
    <3>5. v \in Vector \cup {NoPacket}
      BY <3>3 DEF Vector
    <3>6. Send(hand, t, v) \in StreamType
      BY <1>1, <3>1, <3>5, SendFacts DEF IsSent
    <3>7. DOMAIN Send(hand, t, v).at = DOMAIN hand.at \cup (IF v = NoPacket THEN {} ELSE {t})
      BY <1>1, <3>1, <3>5, SendFacts DEF IsSent
    <3>8. \A u \in DOMAIN hand.at : Send(hand, t, v).at[u] = hand.at[u]
      BY <1>1, <3>1, <3>5, SendFacts DEF IsSent
    <3>9. t \notin DOMAIN hand.at /\ v # NoPacket => Send(hand, t, v).at[t] = v
      BY <1>1, <3>1, <3>5, SendFacts DEF IsSent
    <3>10. ASSUME NEW u \in DOMAIN hand'.at, NEW i \in DOMAIN hand'.at[u],
                  NEW j \in DOMAIN hand'.at[u], i # j
           PROVE  ~Overlap(hand'.at[u][i], hand'.at[u][j])
      <4>1. CASE u \in DOMAIN hand.at
        BY <3>4, <3>8, <3>10, <4>1 DEF NoOverlaps
      <4>2. CASE u \notin DOMAIN hand.at
        <5>1. u = t /\ v # NoPacket /\ t \notin DOMAIN hand.at
          BY <3>4, <3>7, <4>2
        <5>2. hand'.at[u] = v
          BY <3>4, <3>9, <5>1
        <5>3. QED
          BY <3>3, <3>10, <5>2 DEF NoTwoOverlap
      <4>3. QED
        BY <4>1, <4>2
    <3>11. QED
      BY <3>1, <3>4, <3>6, <3>10 DEF NoOverlaps
  <2>2. CASE /\ Passes("Associate", {palm, prev}, hand)
             /\ hand' = SetBound(hand, Settled({palm, prev}, pos["Associate"]))
    <3>1. pos["Associate"] \in Int /\ pos' = pos
      BY <2>2, TimeFacts DEF TypeOK, Passes, Nodes
    <3>2. Settled({palm, prev}, pos["Associate"]) \in 1 .. DoneTime
      BY <1>1, <3>1, SettledFacts
    <3>3. hand' \in StreamType /\ hand'.at = hand.at
      BY <1>1, <2>2, <3>2, SetBoundFacts
    <3>4. QED
      BY <3>1, <3>3 DEF TypeOK, NoOverlaps
  <2>3. QED
    BY <2>1, <2>2 DEF Associate
<1>3. TypeOK'
  BY <1>2 DEF TypeOK, Associate, inner, loopback
<1>4. QED
  BY <1>2, <1>3

(* BeginLoop takes the earliest packet, or a time that its inputs have     *)
(* settled.                                                                *)
LEMMA BeginTimeFacts ==
  ASSUME TypeOK, Settled({image, hand}, pos["Begin"]) < DoneTime, pos["Begin"] < BeginTime
  PROVE  BeginTime \in Times
<1> DEFINE p == pos["Begin"]
           ins == {image, hand}
           bounds == {s.bound : s \in {u \in ins : Queue(u, p) = {}}}
           S == {Earliest(ins, p)} \cup {b - 1 : b \in bounds}
<1>1. image \in StreamType /\ hand \in StreamType /\ p \in 0 .. MaxTime
  BY DEF TypeOK, Nodes
<1>2. Earliest(ins, p) \in 1 .. DoneTime
  BY <1>1, EarliestFacts
<1>3. \A s \in ins : s.bound \in 1 .. DoneTime
  BY <1>1, StreamFacts
<1>4. S \subseteq 0 .. DoneTime
  BY <1>2, <1>3, TimeFacts
<1>5. BeginTime = Min(S)
  BY DEF BeginTime
<1>6. Min(S) \in S /\ \A y \in S : Min(S) <= y
  <2>1. S \in SUBSET Nat /\ S # {}
    BY <1>4
  <2> HIDE DEF S
  <2>2. QED
    BY <2>1, MinIn
<1>7. BeginTime \in 0 .. DoneTime /\ BeginTime > 0
  <2> HIDE DEF S
  <2>1. BeginTime \in 0 .. DoneTime
    BY <1>4, <1>5, <1>6
  <2>2. QED
    BY <1>1, <2>1, TimeFacts
<1>8. ASSUME BeginTime = DoneTime PROVE FALSE
  <2> DEFINE e == Earliest(ins, p)
  <2>1. e \in S
    OBVIOUS
  <2> HIDE DEF S, e
  <2>2. e = DoneTime
    <3>1. BeginTime <= e /\ e \in 1 .. DoneTime
      BY <1>2, <1>5, <1>6, <2>1 DEF e
    <3>2. QED
      BY <1>8, <3>1, TimeFacts
  <2>3. Queue(image, p) = {}
    <3>1. Queue(image, p) \subseteq Times
      BY <1>1, QueueFacts
    <3>2. \A t \in Queue(image, p) : t \in DOMAIN image.at /\ t > p
      BY DEF Queue
    <3>3. ins \in SUBSET StreamType /\ p \in Int /\ image \in ins
      BY <1>1
    <3> HIDE DEF ins, p
    <3>4. \A t \in Queue(image, p) : e <= t
      BY <3>2, <3>3, EarliestFacts DEF e
    <3>5. QED
      BY <2>2, <3>1, <3>4, TimeFacts DEF Times
  <2>4. image.bound - 1 \in S
    BY <2>3 DEF S
  <2>5. BeginTime <= image.bound - 1
    BY <1>5, <1>6, <2>4
  <2>6. QED
    BY <1>3, <1>8, <2>5, TimeFacts
<1>9. QED
  BY <1>7, <1>8, TimeFacts DEF Times

(* The end of time of the loop.                                            *)
LEMMA LoopDoneNat ==
  LoopDone \in Nat /\ Cardinality(Rects) \in Nat /\ LoopDone > MaxTime * (Cardinality(Rects) + 1)
<1>1. Cardinality(Rects) \in Nat /\ MaxTime \in Nat
  BY FS_CardinalityType, TimeFacts
<1>2. PICK c \in Nat : c = Cardinality(Rects)
  BY <1>1
<1>3. MaxTime * (c + 1) \in Nat
  BY <1>1
<1>4. QED
  BY <1>2, <1>3 DEF LoopDone

(* The vector at t, its items and their times.                             *)
Given(t) == IF Has(hand, t) THEN hand.at[t] ELSE << >>
Tagged(t) == [i \in DOMAIN Given(t) |-> [of |-> t, rect |-> Given(t)[i]]]

(* The items of a vector know the time of the vector.                      *)
LEMMA TaggedFacts ==
  ASSUME TypeOK, NEW t \in Times
  PROVE  /\ Given(t) \in Seq(Rects) /\ Tagged(t) \in Seq(ItemType)
         /\ Len(Tagged(t)) = Len(Given(t)) /\ DOMAIN Tagged(t) = 1 .. Len(Given(t))
         /\ Len(Given(t)) \in Nat
         /\ \A i \in 1 .. Len(Given(t)) : Tagged(t)[i].of = t
<1>1. Given(t) \in Seq(Rects)
  BY StreamFacts DEF TypeOK, Given, Has, Vector
<1>2. DOMAIN Given(t) = 1 .. Len(Given(t)) /\ Len(Given(t)) \in Nat
  BY <1>1
<1>3. \A i \in DOMAIN Given(t) : [of |-> t, rect |-> Given(t)[i]] \in ItemType
  BY <1>1 DEF ItemType
<1>4. Tagged(t) \in [1 .. Len(Given(t)) -> ItemType]
  BY <1>2, <1>3 DEF Tagged
<1>5. Tagged(t) \in Seq(ItemType) /\ Len(Tagged(t)) = Len(Given(t))
  BY <1>2, <1>4
<1>6. \A i \in 1 .. Len(Given(t)) : Tagged(t)[i].of = t
  BY <1>2 DEF Tagged
<1>7. QED
  BY <1>1, <1>2, <1>4, <1>5, <1>6

(* The items of a vector take consecutive times of the loop, and an empty  *)
(* vector takes one.                                                       *)
LEMMA ItemsFacts ==
  ASSUME NEW V, NEW ts \in Nat, NEW v \in Seq(V)
  PROVE  /\ Items(ts, v) \in [ts .. ts + Len(v) - 1 -> V]
         /\ \A u \in ts .. ts + Len(v) - 1 : Items(ts, v)[u] = v[u - ts + 1]
         /\ ts .. ts + Len(v) - 1 \in SUBSET Nat
         /\ NextTs(ts, v) \in Nat /\ NextTs(ts, v) > ts
         /\ NextTs(ts, v) = ts + (IF v = << >> THEN 1 ELSE Len(v))
<1>1. Len(v) \in Nat /\ (v # << >> => Len(v) > 0)
  OBVIOUS
<1>2. \A u \in ts .. ts + Len(v) - 1 : v[u - ts + 1] \in V
  BY <1>1
<1>3. QED
  BY <1>1, <1>2 DEF Items, NextTs

(* A vector and its items take equally long.                               *)
LEMMA SameNext ==
  ASSUME TypeOK, NEW t \in Times
  PROVE  NextTs(loopTs, Given(t)) = NextTs(loopTs, Tagged(t))
<1>1. Given(t) = << >> <=> Tagged(t) = << >>
  BY TaggedFacts
<1>2. QED
  BY <1>1, TaggedFacts DEF NextTs

(* BeginLoop keeps the types.                                              *)
LEMMA BeginLoopTypes ==
  ASSUME TypeOK, BeginLoop, UNCHANGED setting
  PROVE  TypeOK'
<1>1. /\ item \in InnerType(ItemType) /\ batch \in InnerType(Times) /\ loopTs \in Nat
      /\ pos \in [Nodes -> 0 .. MaxTime]
  BY DEF TypeOK
<1>2. /\ item' \in InnerType(ItemType) /\ batch' \in InnerType(Times) /\ loopTs' \in Nat
      /\ pos' \in [Nodes -> 0 .. MaxTime]
  <2>1. CASE /\ pos["Begin"] < BeginTime /\ Settled({image, hand}, pos["Begin"]) < DoneTime
             /\ LET t == BeginTime
                    v == IF Has(hand, t) THEN hand.at[t] ELSE << >>
                    tagged == [i \in DOMAIN v |-> [of |-> t, rect |-> v[i]]]
                IN  /\ pos' = [pos EXCEPT !["Begin"] = t]
                    /\ loopTs' = NextTs(loopTs, v)
                    /\ item' = PutAll(item, Items(loopTs, tagged), loopTs')
                    /\ batch' = Put(batch, loopTs' - 1, t)
    <3>1. PICK t \in Times : t = BeginTime
      BY <2>1, BeginTimeFacts
    <3>2. /\ pos' = [pos EXCEPT !["Begin"] = t]
          /\ loopTs' = NextTs(loopTs, Given(t))
          /\ item' = PutAll(item, Items(loopTs, Tagged(t)), loopTs')
          /\ batch' = Put(batch, loopTs' - 1, t)
      BY <2>1, <3>1 DEF Given, Tagged
    <3>3. Tagged(t) \in Seq(ItemType) /\ loopTs' = NextTs(loopTs, Tagged(t))
      BY <3>2, TaggedFacts, SameNext
    <3>4. loopTs' \in Nat /\ loopTs' - 1 \in Nat
      <4>1. NextTs(loopTs, Tagged(t)) \in Nat /\ NextTs(loopTs, Tagged(t)) > loopTs
        BY <1>1, <3>3, ItemsFacts
      <4>2. QED
        BY <1>1, <3>3, <4>1
    <3> DEFINE D == loopTs .. loopTs + Len(Tagged(t)) - 1
    <3>5. Items(loopTs, Tagged(t)) \in [D -> ItemType] /\ D \in SUBSET Nat
      BY <1>1, <3>3, ItemsFacts
    <3> HIDE DEF D
    <3>6. item' \in InnerType(ItemType)
      <4>1. PICK m \in Nat : m = loopTs'
        BY <3>4
      <4>2. IsPut(PutAll(item, Items(loopTs, Tagged(t)), m), ItemType, item, D,
                  Items(loopTs, Tagged(t)), m)
        BY <1>1, <3>5, PutAllFacts
      <4>3. QED
        BY <3>2, <4>1, <4>2 DEF IsPut
    <3>7. batch' \in InnerType(Times)
      BY <1>1, <3>2, <3>4, PutFacts
    <3>8. pos' \in [Nodes -> 0 .. MaxTime]
      <4>1. t \in 0 .. MaxTime
        BY TimeFacts DEF Times
      <4>2. QED
        BY <1>1, <3>2, <4>1
    <3>9. QED
      BY <3>4, <3>6, <3>7, <3>8
  <2>2. CASE /\ item' = [item EXCEPT !.bound = LoopDone]
             /\ batch' = [batch EXCEPT !.bound = LoopDone]
             /\ UNCHANGED <<pos, loopTs>>
    <3>1. LoopDone \in Nat
      BY LoopDoneNat
    <3>2. QED
      BY <1>1, <2>2, <3>1 DEF InnerType
  <2>3. QED
    BY <2>1, <2>2 DEF BeginLoop
<1>3. QED
  BY <1>2 DEF TypeOK, BeginLoop, inner, loopback

(* The body keeps the types.                                               *)
LEMMA BodyTypes ==
  ASSUME TypeOK, Body, UNCHANGED setting
  PROVE  TypeOK'
<1> DEFINE t == Min(DOMAIN item.at)
           x == item.at[t]
<1>1. /\ item \in InnerType(ItemType) /\ body \in InnerType(Rects)
      /\ kept \in [Times -> Vector] /\ setting.rects \subseteq Rects
  BY SettingFacts DEF TypeOK
<1>2. item' \in InnerType(ItemType) /\ body' \in InnerType(Rects) /\ kept' \in [Times -> Vector]
  <2>1. CASE item.at # << >>
             /\ item' = Without(item, t)
             /\ \/ body' = SetBound(body, t + 1) /\ UNCHANGED kept
                \/ \E r \in setting.rects :
                     body' = Put(body, t, r) /\ kept' = [kept EXCEPT ![x.of] = Append(@, r)]
    <3>1. DOMAIN item.at # {} /\ DOMAIN item.at \in SUBSET Nat
      <4>1. item.at \in Packets(Nat, ItemType) /\ DOMAIN item.at \subseteq Nat
        BY <1>1, InnerFacts
      <4>2. DOMAIN item.at # {}
        BY <2>1, <4>1, EmptyPackets
      <4>3. QED
        BY <4>1, <4>2
    <3>2. t \in Nat /\ t \in DOMAIN item.at
      BY <3>1, MinIn
    <3>3. x \in ItemType /\ x.of \in Times
      <4>1. x \in ItemType
        BY <1>1, <3>2, InnerFacts
      <4>2. QED
        BY <4>1 DEF ItemType
    <3> HIDE DEF t, x
    <3>4. item' \in InnerType(ItemType)
      BY <1>1, <2>1, WithoutFacts
    <3>5. CASE body' = SetBound(body, t + 1) /\ UNCHANGED kept
      <4>1. t + 1 \in Nat
        BY <3>2
      <4>2. body' \in InnerType(Rects)
        BY <1>1, <3>5, <4>1, InnerBoundFacts
      <4>3. QED
        BY <1>1, <3>4, <3>5, <4>2
    <3>6. ASSUME NEW r \in setting.rects, body' = Put(body, t, r),
                 kept' = [kept EXCEPT ![x.of] = Append(@, r)]
          PROVE  body' \in InnerType(Rects) /\ kept' \in [Times -> Vector]
      <4>1. r \in Rects
        BY <1>1
      <4>2. Append(kept[x.of], r) \in Vector
        BY <1>1, <3>3, <4>1 DEF Vector
      <4>3. body' \in InnerType(Rects)
        BY <1>1, <3>2, <3>6, <4>1, PutFacts
      <4>4. QED
        BY <1>1, <3>6, <4>2, <4>3
    <3>7. QED
      BY <2>1, <3>4, <3>5, <3>6
  <2>2. CASE body' = SetBound(body, item.bound) /\ UNCHANGED <<item, kept>>
    <3>1. item.bound \in Nat
      BY <1>1, InnerFacts
    <3>2. body' \in InnerType(Rects)
      BY <1>1, <2>2, <3>1, InnerBoundFacts
    <3>3. QED
      BY <1>1, <2>2, <3>2
  <2>3. QED
    BY <2>1, <2>2, Zenon DEF Body
<1>3. QED
  BY <1>2 DEF TypeOK, Body, loopback

(* EndLoop keeps the types.                                                *)
LEMMA EndLoopTypes ==
  ASSUME TypeOK, EndLoop, UNCHANGED setting
  PROVE  TypeOK'
<1> DEFINE t == Min(DOMAIN body.at \cup DOMAIN batch.at)
           got == Collect(coll, Value(body, t))
<1>1. /\ body \in InnerType(Rects) /\ batch \in InnerType(Times) /\ loop \in StreamType
      /\ coll \in Vector
  BY DEF TypeOK
<1>2. /\ body' \in InnerType(Rects) /\ batch' \in InnerType(Times) /\ loop' \in StreamType
      /\ coll' \in Vector
  <2>1. CASE /\ IF Has(batch, t)
                  THEN loop' = Send(loop, batch.at[t], Collected(got)) /\ coll' = Released(got)
                  ELSE coll' = got /\ UNCHANGED loop
             /\ body' = Without(body, t) /\ batch' = Without(batch, t)
    <3> HIDE DEF t
    <3>1. got \in Vector
      BY <1>1, InnerFacts DEF Collect, Value, Has, Vector
    <3> HIDE DEF got
    <3>2. body' \in InnerType(Rects) /\ batch' \in InnerType(Times)
      BY <1>1, <2>1, WithoutFacts
    <3>3. Collected(got) \in Vector \cup {NoPacket} /\ Released(got) \in Vector
      BY <3>1 DEF Collected, Released, Vector
    <3>4. Has(batch, t) => batch.at[t] \in Times
      BY <1>1, InnerFacts DEF Has
    <3>5. CASE Has(batch, t)
      <4>1. Send(loop, batch.at[t], Collected(got)) \in StreamType
        BY <1>1, <3>3, <3>4, <3>5, SendFacts DEF IsSent
      <4>2. QED
        BY <2>1, <3>2, <3>3, <3>5, <4>1
    <3>6. CASE ~Has(batch, t)
      BY <1>1, <2>1, <3>1, <3>2, <3>6
    <3>7. QED
      BY <3>5, <3>6
  <2>2. CASE loop' = SetBound(loop, DoneTime) /\ UNCHANGED <<body, batch, coll>>
    <3>1. DoneTime \in 1 .. DoneTime
      BY TimeFacts
    <3>2. loop' \in StreamType
      BY <1>1, <2>2, <3>1, SetBoundFacts
    <3>3. QED
      BY <1>1, <2>2, <3>2
  <2>3. QED
    BY <2>1, <2>2, Zenon DEF EndLoop
<1>3. QED
  BY <1>2 DEF TypeOK, EndLoop, loopback

-----------------------------------------------------------------------------
(* The handler of PreviousLoopback.                                        *)

(* The timestamp for which one stream of the handler is ready.             *)
LEMMA ReadyFacts ==
  ASSUME TypeOK, NEW s \in Sides
  PROVE  /\ Side(s) \in StreamType /\ last[s] \in {Unset} \cup Times
         /\ ReadyTime(s) \in {Unset} \cup 1 .. DoneTime
         /\ Latched[s] = ReadyTime(s)
<1>1. /\ Side(s) \in StreamType /\ last[s] \in {Unset} \cup Times
      /\ ready[s] \in {Unset} \cup 1 .. DoneTime
  BY DEF TypeOK, Side
<1> DEFINE m == MinTimestampOrBound(Side(s), last[s])
           t == IF Has(Side(s), m) THEN m ELSE m - 1
           after == IF last[s] > Unstarted THEN last[s] ELSE Unstarted
<1>2. last[s] \in Int
  BY <1>1, TimeFacts DEF Times
<1>3. m \in 1 .. DoneTime
  BY <1>1, <1>2, QueueFacts
<1> HIDE DEF m
<1>4. t \in 0 .. DoneTime
  BY <1>3, TimeFacts
<1>5. after \in Nat
  BY <1>1, TimeFacts DEF Times
<1> HIDE DEF t, after
<1>6. ReadyTime(s) = IF ready[s] # Unset THEN ready[s]
                     ELSE IF m = DoneTime /\ last[s] >= MaxTime THEN DoneTime
                     ELSE IF t > after THEN t ELSE Unset
  BY DEF ReadyTime, m, t, after
<1>7. ReadyTime(s) \in {Unset} \cup 1 .. DoneTime
  BY <1>1, <1>4, <1>5, <1>6, TimeFacts
<1>8. Latched[s] = ReadyTime(s)
  BY DEF Latched
<1>9. QED
  BY <1>1, <1>7, <1>8

(* The timestamp that the handler runs for is the earliest of them.        *)
LEMMA SelectedFacts ==
  ASSUME TypeOK
  PROVE  /\ Selected \in 1 .. DoneTime
         /\ \A s \in Sides : Latched[s] # Unset => Selected <= Latched[s]
         /\ Selected < DoneTime => \E s \in Sides : Latched[s] = Selected
<1> DEFINE S == ({Latched[s] : s \in Sides} \cup {DoneTime}) \ {Unset}
<1>1. \A s \in Sides : Latched[s] \in {Unset} \cup 1 .. DoneTime
  BY ReadyFacts
<1>2. S \subseteq 1 .. DoneTime /\ DoneTime \in S
  BY <1>1, TimeFacts
<1>3. \A s \in Sides : Latched[s] # Unset => Latched[s] \in S
  OBVIOUS
<1>4. \A x \in S : x # DoneTime => \E s \in Sides : Latched[s] = x
  OBVIOUS
<1>5. Selected = Min(S)
  BY DEF Selected
<1> HIDE DEF S
<1>6. Min(S) \in S /\ \A y \in S : Min(S) <= y
  <2>1. S \in SUBSET Nat /\ S # {}
    BY <1>2
  <2>2. QED
    BY <2>1, MinIn
<1>7. Selected \in S /\ \A y \in S : Selected <= y
  BY <1>5, <1>6
<1>8. Selected \in 1 .. DoneTime
  BY <1>2, <1>7
<1>9. \A s \in Sides : Latched[s] # Unset => Selected <= Latched[s]
  BY <1>3, <1>7
<1>10. Selected < DoneTime => \E s \in Sides : Latched[s] = Selected
  BY <1>4, <1>7, <1>8, TimeFacts
<1>11. QED
  BY <1>8, <1>9, <1>10

(* What the handler gives to Process.                                      *)
LEMMA FilledTypes ==
  ASSUME TypeOK, Selected < DoneTime, NEW s \in Sides
  PROVE  Filled(s) \in GivenType
<1> DEFINE t == Selected
           due == Latched[s] = t
           p == IF due THEN t ELSE IF Latched[s] # Unset THEN Latched[s] - 1 ELSE last[s]
           m == MinTimestampOrBound(Side(s), p)
<1>1. Selected \in Times
  BY SelectedFacts, TimeFacts DEF Times
<1>2. /\ Side(s) \in StreamType /\ last[s] \in {Unset} \cup Times
      /\ Latched[s] \in {Unset} \cup 1 .. DoneTime
  BY ReadyFacts
<1>3. p \in Int
  BY <1>1, <1>2, TimeFacts DEF Times
<1> HIDE DEF p
<1>4. m \in 1 .. DoneTime
  BY <1>2, <1>3, QueueFacts
<1> HIDE DEF m
<1>5. Filled(s) = IF due /\ Has(Side(s), t) THEN [ts |-> t, value |-> Side(s).at[t]]
                  ELSE [ts |-> m - 1, value |-> NoPacket]
  BY DEF Filled, m, p
<1>6. Has(Side(s), t) => Side(s).at[t] \in Vector /\ t \in 0 .. MaxTime
  BY <1>1, <1>2, StreamFacts, TimeFacts DEF Has, Times
<1>7. m - 1 \in 0 .. MaxTime
  BY <1>4, TimeFacts
<1>8. QED
  BY <1>5, <1>6, <1>7 DEF GivenType

(* The fields of what Process gives back.                                  *)
LEMMA RoundFacts ==
  ASSUME NEW r \in RoundType
  PROVE  r.calc \in CalcType /\ r.sent \in Seq(SentType) /\ r.closed \in BOOLEAN
BY DEF RoundType

(* PreviousLoopback keeps the types.                                       *)
LEMMA RunLoopbackTypes ==
  ASSUME TypeOK, RunLoopback, UNCHANGED setting
  PROVE  TypeOK'
<1> DEFINE r == Process(calc, Filled("main"), Filled("loop"))
           sent == SendAll(prev, r.sent)
<1>1. /\ Selected < DoneTime /\ calc' = r.calc
      /\ prev' = IF r.closed THEN [sent EXCEPT !.bound = DoneTime] ELSE sent
      /\ last' = [s \in Sides |-> IF Latched[s] \in {Unset, DoneTime} THEN last[s] ELSE Latched[s]]
      /\ ready' = [s \in Sides |-> IF Latched[s] = Selected THEN Unset ELSE Latched[s]]
  BY Zenon DEF RunLoopback
<1>2. Filled("main") \in GivenType /\ Filled("loop") \in GivenType
  BY <1>1, FilledTypes DEF Sides
<1>3. r \in RoundType
  BY <1>2, ProcessType DEF TypeOK
<1> HIDE DEF r
<1>4. sent \in StreamType
  BY <1>3, RoundFacts, SendAllType DEF TypeOK
<1> HIDE DEF sent
<1>5. calc' \in CalcType
  BY <1>1, <1>3, RoundFacts
<1>6. prev' \in StreamType
  BY <1>1, <1>4, TimeFacts DEF StreamType
<1>7. last' \in [Sides -> {Unset} \cup Times]
  <2>1. \A s \in Sides : Latched[s] \in {Unset} \cup 1 .. DoneTime /\ last[s] \in {Unset} \cup Times
    BY ReadyFacts
  <2>2. \A s \in Sides : Latched[s] \notin {Unset, DoneTime} => Latched[s] \in Times
    BY <2>1, TimeFacts DEF Times
  <2>3. QED
    BY <1>1, <2>1, <2>2
<1>8. ready' \in [Sides -> {Unset} \cup 1 .. DoneTime]
  <2>1. \A s \in Sides : Latched[s] \in {Unset} \cup 1 .. DoneTime
    BY ReadyFacts
  <2>2. QED
    BY <1>1, <2>1
<1>9. QED
  BY <1>5, <1>6, <1>7, <1>8 DEF TypeOK, RunLoopback, inner

-----------------------------------------------------------------------------

(* There is a time for the next image.                                     *)
LEMMA AddImageFacts ==
  ASSUME TypeOK, AddImage
  PROVE  Cardinality(DOMAIN image.at) \in Nat /\ Ts(Cardinality(DOMAIN image.at) + 1) \in Times
<1>1. image \in StreamType /\ setting.frames \in 0 .. MaxFrames
  BY SettingFacts DEF TypeOK
<1>2. DOMAIN image.at \subseteq 1 .. MaxTime
  BY <1>1, StreamFacts DEF Times
<1>3. IsFiniteSet(DOMAIN image.at)
  <2>1. 1 \in Int /\ MaxTime \in Int
    BY TimeFacts
  <2>2. IsFiniteSet(1 .. MaxTime)
    BY <2>1, FS_Interval
  <2>3. QED
    BY <1>2, <2>2, FS_Subset
<1>4. Cardinality(DOMAIN image.at) \in Nat
  BY <1>3, FS_CardinalityType
<1>5. Cardinality(DOMAIN image.at) < setting.frames
  BY DEF AddImage
<1>6. QED
  BY <1>1, <1>4, <1>5, TimeFacts DEF Ts, Times

(* The application keeps the types.                                        *)
LEMMA InputTypes ==
  ASSUME TypeOK, AddImage \/ CloseInput, UNCHANGED setting
  PROVE  TypeOK'
<1>1. image \in StreamType
  BY DEF TypeOK
<1>2. CASE AddImage
  <2>1. << >> \in Vector \cup {NoPacket}
    BY DEF Vector
  <2>2. image' \in StreamType
    BY <1>1, <1>2, <2>1, AddImageFacts, SendFacts DEF AddImage, IsSent
  <2>3. QED
    BY <1>2, <2>2 DEF TypeOK, AddImage, inner, loopback
<1>3. CASE CloseInput
  <2>1. DoneTime \in 1 .. DoneTime
    BY TimeFacts
  <2>2. image' \in StreamType
    BY <1>1, <1>3, <2>1, SetBoundFacts DEF CloseInput
  <2>3. QED
    BY <1>3, <2>2 DEF TypeOK, CloseInput, inner, loopback
<1>4. QED
  BY <1>2, <1>3

(* The graph starts with the right types.                                  *)
LEMMA InitTypes == Init => TypeOK
<1> SUFFICES ASSUME Init PROVE TypeOK
  OBVIOUS
<1>1. NewStream \in StreamType
  BY NoPackets, TimeFacts DEF NewStream, StreamType
<1>2. NewInner \in InnerType(ItemType) /\ NewInner \in InnerType(Times) /\ NewInner \in InnerType(Rects)
  BY NoPackets DEF NewInner, InnerType
<1>3. NewLoopback \in CalcType
  BY TimeFacts DEF NewLoopback, CalcType
<1>4. pos \in [Nodes -> 0 .. MaxTime]
  BY TimeFacts DEF Init
<1>5. coll \in Vector /\ kept \in [Times -> Vector]
  BY DEF Init, Vector, Times
<1>6. QED
  BY <1>1, <1>2, <1>3, <1>4, <1>5 DEF Init, TypeOK

(* Every step keeps the types, and the hand vectors free of overlaps.      *)
LEMMA StepTypes ==
  ASSUME TypeOK, NoOverlaps, [Next /\ UNCHANGED setting]_<<vars, setting>>
  PROVE  TypeOK' /\ NoOverlaps'
<1>1. CASE Detect /\ UNCHANGED setting
  <2>1. TypeOK'
    BY <1>1, DetectTypes
  <2>2. QED
    BY <1>1, <2>1 DEF Detect, NoOverlaps
<1>2. CASE Associate /\ UNCHANGED setting
  BY <1>2, AssociateTypes
<1>3. CASE BeginLoop /\ UNCHANGED setting
  <2>1. TypeOK'
    BY <1>3, BeginLoopTypes
  <2>2. QED
    BY <1>3, <2>1 DEF BeginLoop, NoOverlaps
<1>4. CASE Body /\ UNCHANGED setting
  <2>1. TypeOK'
    BY <1>4, BodyTypes
  <2>2. QED
    BY <1>4, <2>1 DEF Body, NoOverlaps
<1>5. CASE EndLoop /\ UNCHANGED setting
  <2>1. TypeOK'
    BY <1>5, EndLoopTypes
  <2>2. QED
    BY <1>5, <2>1 DEF EndLoop, NoOverlaps
<1>6. CASE RunLoopback /\ UNCHANGED setting
  <2>1. TypeOK'
    BY <1>6, RunLoopbackTypes
  <2>2. QED
    BY <1>6, <2>1 DEF RunLoopback, NoOverlaps
<1>7. CASE (AddImage \/ CloseInput) /\ UNCHANGED setting
  <2>1. TypeOK'
    BY <1>7, InputTypes
  <2>2. QED
    BY <1>7, <2>1 DEF AddImage, CloseInput, NoOverlaps
<1>8. CASE UNCHANGED <<vars, setting>>
  BY <1>8 DEF TypeOK, NoOverlaps, vars, inner, loopback
<1>9. QED
  BY <1>1, <1>2, <1>3, <1>4, <1>5, <1>6, <1>7, <1>8 DEF Next

(* Type correctness: every stream of the graph carries what its consumers  *)
(* expect, at times that exist, whatever is seen in the images.            *)
THEOREM HandGraphTypeCorrect == Spec => []TypeOK
<1>1. Init => NoOverlaps
  BY DEF Init, NewStream, NoOverlaps
<1>2. TypeOK /\ NoOverlaps /\ [Next /\ UNCHANGED setting]_<<vars, setting>> => TypeOK' /\ NoOverlaps'
  BY StepTypes
<1>3. QED
  BY <1>1, <1>2, InitTypes, PTL DEF Spec

(* What hand_landmark_tracking_cpu.pbtxt promises of AssociationNormRect:  *)
(* no hand_rects vector has two rectangles that overlap, for every         *)
(* relation of overlapping, every number of rectangles and every           *)
(* interleaving of the nodes.                                              *)
THEOREM HandsNeverOverlap == Spec => []NoOverlaps
<1>1. Init => NoOverlaps
  BY DEF Init, NewStream, NoOverlaps
<1>2. TypeOK /\ NoOverlaps /\ [Next /\ UNCHANGED setting]_<<vars, setting>> => TypeOK' /\ NoOverlaps'
  BY StepTypes
<1>3. QED
  BY <1>1, <1>2, InitTypes, PTL DEF Spec

-----------------------------------------------------------------------------
(* The loop over the rectangles.                                           *)

(* What the body kept for a vector, k, is what EndLoop has collected, c,   *)
(* followed by the packets at the times W on their way to it, each at the  *)
(* place that rank gives it.                                               *)
Fits(k, c, W, at, rank) ==
  /\ Len(c) <= Len(k) /\ \A i \in 1 .. Len(c) : k[i] = c[i]
  /\ \A u \in W : rank[u] \in Len(c) + 1 .. Len(k) /\ k[rank[u]] = at[u]
  /\ \A i \in Len(c) + 1 .. Len(k) : \E u \in W : rank[u] = i
  /\ \A u, w \in W : u < w => rank[u] < rank[w]

(* An empty vector in an empty loop.                                       *)
LEMMA FitsNothing == ASSUME NEW at, NEW rank PROVE Fits(<< >>, << >>, {}, at, rank)
BY DEF Fits

(* Only the packets of a vector matter to it.                              *)
LEMMA FitsFrame ==
  ASSUME NEW k, NEW c, NEW W, NEW at, NEW rank, NEW at2, NEW rank2, Fits(k, c, W, at, rank),
         \A u \in W : at2[u] = at[u] /\ rank2[u] = rank[u]
  PROVE  Fits(k, c, W, at2, rank2)
BY DEF Fits

(* A vector without packets on their way has been collected.               *)
LEMMA FitsAll ==
  ASSUME NEW k \in Vector, NEW c \in Vector, NEW at, NEW rank, Fits(k, c, {}, at, rank)
  PROVE  k = c
<1>1. Len(c) \in Nat /\ Len(k) \in Nat
  BY DEF Vector
<1>2. Len(k) = Len(c)
  BY <1>1 DEF Fits
<1>3. \A i \in 1 .. Len(c) : k[i] = c[i]
  BY DEF Fits
<1>4. QED
  BY <1>2, <1>3, SeqEqual DEF Vector

(* The body adds a packet behind all others.                               *)
LEMMA FitsMore ==
  ASSUME NEW k \in Vector, NEW c \in Vector, NEW W \in SUBSET Nat, NEW at, NEW rank,
         Fits(k, c, W, at, rank),
         NEW t \in Nat, \A u \in W : u < t, NEW r \in Rects, NEW at2, NEW rank2,
         \A u \in W : at2[u] = at[u] /\ rank2[u] = rank[u],
         at2[t] = r, rank2[t] = Len(k) + 1
  PROVE  Fits(Append(k, r), c, W \cup {t}, at2, rank2)
<1> DEFINE k2 == Append(k, r)
           W2 == W \cup {t}
<1>1. Len(c) \in Nat /\ Len(k) \in Nat /\ Len(c) <= Len(k)
  BY DEF Vector, Fits
<1>2. Len(k2) = Len(k) + 1 /\ k2[Len(k) + 1] = r /\ \A i \in 1 .. Len(k) : k2[i] = k[i]
  BY DEF Vector
<1>3. \A u \in W : rank[u] \in Len(c) + 1 .. Len(k) /\ k[rank[u]] = at[u]
  BY DEF Fits
<1> HIDE DEF k2
<1>4. Len(c) <= Len(k2) /\ \A i \in 1 .. Len(c) : k2[i] = c[i]
  <2>1. \A i \in 1 .. Len(c) : k[i] = c[i] /\ i \in 1 .. Len(k)
    BY <1>1 DEF Fits
  <2>2. QED
    BY <1>1, <1>2, <2>1
<1>5. ASSUME NEW u \in W2
      PROVE  rank2[u] \in Len(c) + 1 .. Len(k2) /\ k2[rank2[u]] = at2[u]
  <2>1. CASE u \in W
    <3>1. rank[u] \in 1 .. Len(k) /\ rank2[u] = rank[u] /\ at2[u] = at[u]
      BY <1>1, <1>3, <2>1
    <3>2. QED
      BY <1>1, <1>2, <1>3, <2>1, <3>1
  <2>2. CASE u = t
    BY <1>1, <1>2, <2>2
  <2>3. QED
    BY <2>1, <2>2
<1>6. ASSUME NEW i \in Len(c) + 1 .. Len(k2)
      PROVE  \E u \in W2 : rank2[u] = i
  <2>1. CASE i = Len(k) + 1
    BY <2>1
  <2>2. CASE i # Len(k) + 1
    <3>1. i \in Len(c) + 1 .. Len(k)
      BY <1>1, <1>2, <2>2
    <3>2. PICK u \in W : rank[u] = i
      BY <3>1 DEF Fits
    <3>3. QED
      BY <3>2
  <2>3. QED
    BY <2>1, <2>2
<1>7. ASSUME NEW u \in W2, NEW w \in W2, u < w
      PROVE  rank2[u] < rank2[w]
  <2>1. CASE u \in W /\ w \in W
    BY <1>7, <2>1 DEF Fits
  <2>2. CASE u \in W /\ w = t
    BY <1>1, <1>3, <2>2
  <2>3. CASE u = t
    <3>1. w <= t
      BY DEF W2
    <3>2. w \in Nat
      OBVIOUS
    <3>3. QED
      BY <1>7, <2>3, <3>1, <3>2
  <2>4. QED
    BY <2>1, <2>2, <2>3
<1>8. QED
  BY <1>4, <1>5, <1>6, <1>7 DEF Fits, k2

(* EndLoop collects the first packet.                                      *)
LEMMA FitsNext ==
  ASSUME NEW k \in Vector, NEW c \in Vector, NEW W \in SUBSET Nat, NEW at, NEW rank,
         Fits(k, c, W, at, rank), NEW t \in W, \A u \in W : t <= u, at[t] \in Rects
  PROVE  Fits(k, Append(c, at[t]), W \ {t}, at, rank)
<1> DEFINE c2 == Append(c, at[t])
           n == Len(c)
<1>1. n \in Nat /\ Len(k) \in Nat
  BY DEF Vector
<1>2. Len(c2) = n + 1 /\ c2[n + 1] = at[t] /\ \A i \in 1 .. n : c2[i] = c[i]
  BY DEF Vector
<1> HIDE DEF c2
<1>3. rank[t] \in n + 1 .. Len(k) /\ k[rank[t]] = at[t]
  BY DEF Fits
<1>4. rank[t] = n + 1
  <2>1. n + 1 \in n + 1 .. Len(k)
    BY <1>1, <1>3
  <2>2. PICK u \in W : rank[u] = n + 1
    BY <2>1 DEF Fits
  <2>3. CASE u = t
    BY <2>2, <2>3
  <2>4. CASE u # t
    <3>1. t < u
      <4>1. t <= u /\ t \in Nat /\ u \in Nat
        OBVIOUS
      <4>2. QED
        BY <2>4, <4>1
    <3>2. rank[t] < rank[u]
      BY <3>1 DEF Fits
    <3>3. QED
      BY <1>1, <1>3, <2>2, <3>2
  <2>5. QED
    BY <2>3, <2>4
<1>5. Len(c2) <= Len(k) /\ \A i \in 1 .. Len(c2) : k[i] = c2[i]
  <2>1. \A i \in 1 .. n : k[i] = c[i]
    BY DEF Fits
  <2>2. ASSUME NEW i \in 1 .. Len(c2) PROVE k[i] = c2[i]
    <3>1. i \in 1 .. n \/ i = n + 1
      BY <1>1, <1>2
    <3>2. QED
      BY <1>2, <1>3, <1>4, <2>1, <3>1
  <2>3. QED
    BY <1>1, <1>2, <1>3, <1>4, <2>2
<1>6. ASSUME NEW u \in W \ {t}
      PROVE  rank[u] \in Len(c2) + 1 .. Len(k) /\ k[rank[u]] = at[u]
  <2>1. t < u
    <3>1. t <= u /\ t # u /\ t \in Nat /\ u \in Nat
      OBVIOUS
    <3>2. QED
      BY <3>1
  <2>2. rank[t] < rank[u] /\ rank[u] \in n + 1 .. Len(k) /\ k[rank[u]] = at[u]
    BY <2>1 DEF Fits
  <2>3. QED
    BY <1>1, <1>2, <1>4, <2>2
<1>7. ASSUME NEW i \in Len(c2) + 1 .. Len(k)
      PROVE  \E u \in W \ {t} : rank[u] = i
  <2>1. i \in n + 1 .. Len(k) /\ i # n + 1
    BY <1>1, <1>2
  <2>2. PICK u \in W : rank[u] = i
    BY <2>1 DEF Fits
  <2>3. u # t
    BY <1>4, <2>1, <2>2
  <2>4. QED
    BY <2>2, <2>3
<1>8. \A u, w \in W \ {t} : u < w => rank[u] < rank[w]
  BY DEF Fits
<1>9. QED
  BY <1>5, <1>6, <1>7, <1>8 DEF Fits, c2

-----------------------------------------------------------------------------

(* b is the first end of a vector at or after u.                           *)
Ends(b, u) == b \in DOMAIN batch.at /\ u <= b /\ \A c \in DOMAIN batch.at : u <= c => b <= c
IsFirst(b) == b \in DOMAIN batch.at /\ \A c \in DOMAIN batch.at : b <= c
Pending(t) == \E b \in DOMAIN batch.at : batch.at[b] = t
Before(b) == IF IsFirst(b) THEN coll ELSE << >>
Window(b) == {u \in DOMAIN body.at : Ends(b, u)}

(* Nothing is later than the clock of BeginLoop, which never reaches the   *)
(* end of time, and the body is behind it.                                 *)
ClocksRight ==
  /\ loopTs <= pos["Begin"] * (Cardinality(Rects) + 1)
  /\ item.bound \in {loopTs, LoopDone} /\ batch.bound = item.bound
  /\ body.bound <= item.bound
  /\ \A u \in DOMAIN item.at : body.bound <= u /\ u < loopTs
  /\ \A u \in DOMAIN body.at : u < body.bound /\ u < loopTs
  /\ \A b \in DOMAIN batch.at : b < loopTs /\ batch.at[b] <= pos["Begin"]
  /\ \A b, c \in DOMAIN batch.at : b < c => batch.at[b] < batch.at[c]

(* Every item in the loop belongs to the vector whose end comes next.      *)
Owned ==
  /\ \A u \in DOMAIN item.at \cup DOMAIN body.at : \E b \in DOMAIN batch.at : u <= b
  /\ \A u \in DOMAIN item.at : \A b : Ends(b, u) => item.at[u].of = batch.at[b]
  /\ DOMAIN batch.at = {} => coll = << >>

Ranked(rank) ==
  \A b \in DOMAIN batch.at : Fits(kept[batch.at[b]], Before(b), Window(b), body.at, rank)
InOrder == \E rank \in [DOMAIN body.at -> Nat] : Ranked(rank)

(* A vector that is through the loop has its answer; one that has not got  *)
(* its end yet has none, and no bound that denies it.                      *)
Answers ==
  /\ \A t \in Times : t <= pos["Begin"] /\ ~Pending(t) => Value(loop, t) = Collected(kept[t])
  /\ \A t \in Times : pos["Begin"] < t => kept[t] = << >> /\ ~Has(loop, t)
  /\ \A b \in DOMAIN batch.at : ~Has(loop, batch.at[b]) /\ loop.bound <= batch.at[b]
  /\ item.bound = loopTs => loop.bound <= pos["Begin"] + 1

LoopInv == ClocksRight /\ Owned /\ InOrder /\ Answers

(* The types of what the loop consists of.                                 *)
LEMMA LoopTypes ==
  ASSUME TypeOK
  PROVE  /\ item \in InnerType(ItemType) /\ batch \in InnerType(Times) /\ body \in InnerType(Rects)
         /\ loop \in StreamType /\ coll \in Vector /\ kept \in [Times -> Vector]
         /\ loopTs \in Nat /\ pos["Begin"] \in 0 .. MaxTime
         /\ DOMAIN item.at \in SUBSET Nat /\ DOMAIN batch.at \in SUBSET Nat
         /\ DOMAIN body.at \in SUBSET Nat
         /\ item.bound \in Nat /\ batch.bound \in Nat /\ body.bound \in Nat
         /\ loop.bound \in 1 .. DoneTime
         /\ \A b \in DOMAIN batch.at : batch.at[b] \in Times
<1>1. /\ item \in InnerType(ItemType) /\ batch \in InnerType(Times) /\ body \in InnerType(Rects)
      /\ loop \in StreamType /\ coll \in Vector /\ kept \in [Times -> Vector]
      /\ loopTs \in Nat /\ pos["Begin"] \in 0 .. MaxTime
  BY DEF TypeOK, Nodes
<1>2. DOMAIN item.at \in SUBSET Nat /\ item.bound \in Nat
  BY <1>1, InnerFacts
<1>3. DOMAIN batch.at \in SUBSET Nat /\ batch.bound \in Nat
      /\ \A b \in DOMAIN batch.at : batch.at[b] \in Times
  BY <1>1, InnerFacts
<1>4. DOMAIN body.at \in SUBSET Nat /\ body.bound \in Nat
  BY <1>1, InnerFacts
<1>5. loop.bound \in 1 .. DoneTime
  BY <1>1, StreamFacts
<1>6. QED
  BY <1>1, <1>2, <1>3, <1>4, <1>5

(* The first end after an item.                                            *)
LEMMA EndsExists ==
  ASSUME TypeOK, NEW u \in Nat, \E b \in DOMAIN batch.at : u <= b
  PROVE  \E b \in DOMAIN batch.at : Ends(b, u)
<1> DEFINE S == {b \in DOMAIN batch.at : u <= b}
<1>1. S \in SUBSET Nat /\ S # {}
  BY LoopTypes
<1>2. PICK b \in S : \A c \in S : b <= c
  <2> HIDE DEF S
  <2>1. QED
    BY <1>1, LeastElement
<1>3. QED
  BY <1>2 DEF Ends

(* BatchesComplete follows.                                                *)
LEMMA AnswersComplete == ASSUME TypeOK, Answers PROVE BatchesComplete
<1> SUFFICES ASSUME NEW t \in Times, loop.bound > t
             PROVE  Value(loop, t) = Collected(kept[t])
  BY DEF BatchesComplete, Times
<1>1. t \in Nat /\ pos["Begin"] \in Nat /\ loop.bound \in Nat
  BY LoopTypes, TimeFacts DEF Times
<1>2. ~Pending(t)
  <2>1. \A b \in DOMAIN batch.at : loop.bound <= batch.at[b]
    BY DEF Answers
  <2>2. QED
    BY <1>1, <2>1 DEF Pending
<1>3. CASE t <= pos["Begin"]
  BY <1>2, <1>3 DEF Answers
<1>4. CASE pos["Begin"] < t
  <2>1. kept[t] = << >> /\ ~Has(loop, t)
    BY <1>4 DEF Answers
  <2>2. QED
    BY <2>1 DEF Value, Collected
<1>5. QED
  BY <1>1, <1>3, <1>4

(* The vectors have no overlaps, so none is longer than there are          *)
(* rectangles.                                                             *)
LEMMA ShortVectors ==
  ASSUME TypeOK, NoOverlaps, NEW t \in Times
  PROVE  Len(Given(t)) <= Cardinality(Rects)
<1>1. Given(t) \in Seq(Rects) /\ Len(Given(t)) \in Nat
  BY TaggedFacts
<1> DEFINE n == Len(Given(t))
           v == Given(t)
<1>2. v \in [1 .. n -> Rects]
  BY <1>1
<1>3. \A i, j \in 1 .. n : i # j => v[i] # v[j]
  <2>1. CASE Has(hand, t)
    <3>1. t \in DOMAIN hand.at /\ v = hand.at[t]
      BY <2>1 DEF Has, Given
    <3>2. \A i, j \in DOMAIN v : i # j => ~Overlap(v[i], v[j])
      BY <3>1 DEF NoOverlaps
    <3>3. \A r \in Rects : Overlap(r, r)
      BY DEF Overlap
    <3> HIDE DEF v
    <3>4. QED
      BY <1>2, <3>2, <3>3
  <2>2. CASE ~Has(hand, t)
    <3>1. v = << >>
      BY <2>2 DEF Given
    <3>2. n = 0
      BY <3>1
    <3>3. QED
      BY <3>2
  <2>3. QED
    BY <2>1, <2>2
<1> HIDE DEF n, v
<1>4. IsInjective(v) /\ v \in [1 .. n -> Rects]
  BY <1>2, <1>3 DEF IsInjective
<1>5. v \in Injection(1 .. n, Rects)
  BY <1>4 DEF Injection
<1>6. n \in Nat
  BY <1>1 DEF n
<1>7. Cardinality(1 .. n) = n
  <2>1. Cardinality(1 .. n) = IF 1 > n THEN 0 ELSE n - 1 + 1
    BY <1>6, FS_Interval
  <2>2. QED
    BY <1>6, <2>1
<1>8. Cardinality(1 .. n) <= Cardinality(Rects)
  BY <1>5, TimeFacts, FS_Injection
<1>9. QED
  BY <1>7, <1>8 DEF n

(* Multiplication is monotonic.                                            *)
LEMMA Multiples ==
  ASSUME NEW a \in Nat, NEW b \in Nat, NEW c \in Nat, a <= b
  PROVE  a * c <= b * c /\ a * c \in Nat /\ b * c \in Nat
<1>1. PICK d \in Nat : b = a + d
  <2>1. b - a \in Nat /\ b = a + (b - a)
    OBVIOUS
  <2>2. QED
    BY <2>1
<1>2. b * c = a * c + d * c
  BY <1>1
<1>3. d * c \in Nat /\ a * c \in Nat
  OBVIOUS
<1>4. QED
  BY <1>2, <1>3

(* loopTs is before the end of time.                                       *)
LEMMA ClockBelowDone ==
  ASSUME TypeOK, ClocksRight
  PROVE  loopTs < LoopDone
<1>1. LoopDone \in Nat /\ Cardinality(Rects) \in Nat
      /\ LoopDone > MaxTime * (Cardinality(Rects) + 1)
  BY LoopDoneNat
<1>2. PICK c \in Nat : c = Cardinality(Rects) + 1
  BY <1>1
<1>3. pos["Begin"] \in Nat /\ MaxTime \in Nat /\ pos["Begin"] <= MaxTime /\ loopTs \in Nat
  BY LoopTypes, TimeFacts
<1>4. loopTs <= pos["Begin"] * c
  BY <1>2 DEF ClocksRight
<1>5. pos["Begin"] * c <= MaxTime * c /\ pos["Begin"] * c \in Nat /\ MaxTime * c \in Nat
  BY <1>3, Multiples
<1>6. QED
  BY <1>1, <1>2, <1>3, <1>4, <1>5

(* A vector enters the loop.                                               *)
Enters(t, tagged) ==
  /\ item.bound < LoopDone
  /\ pos["Begin"] < t /\ pos'["Begin"] = t
  /\ loopTs' = NextTs(loopTs, tagged)
  /\ item' = PutAll(item, Items(loopTs, tagged), loopTs')
  /\ batch' = Put(batch, loopTs' - 1, t)
  /\ UNCHANGED <<body, coll, kept, loop>>

(* What BeginLoop does to the streams in the loop.                         *)
LEMMA EnterFacts ==
  ASSUME TypeOK, NoOverlaps, LoopInv, NEW t \in Times, Enters(t, Tagged(t))
  PROVE  /\ loopTs' \in Nat /\ loopTs' > loopTs /\ loopTs' <= loopTs + Cardinality(Rects) + 1
         /\ DOMAIN item'.at = DOMAIN item.at \cup (loopTs .. loopTs + Len(Given(t)) - 1)
         /\ loopTs + Len(Given(t)) - 1 < loopTs'
         /\ \A u \in DOMAIN item.at : item'.at[u] = item.at[u]
         /\ \A u \in DOMAIN item'.at \ DOMAIN item.at : item'.at[u].of = t
         /\ DOMAIN batch'.at = DOMAIN batch.at \cup {loopTs' - 1}
         /\ \A b \in DOMAIN batch.at : batch'.at[b] = batch.at[b]
         /\ loopTs' - 1 \notin DOMAIN batch.at /\ batch'.at[loopTs' - 1] = t
         /\ item'.bound = loopTs' /\ batch'.bound = loopTs'
<1>1. /\ loopTs' = NextTs(loopTs, Tagged(t))
      /\ item' = PutAll(item, Items(loopTs, Tagged(t)), loopTs')
      /\ batch' = Put(batch, loopTs' - 1, t)
  BY DEF Enters
<1>2. /\ item \in InnerType(ItemType) /\ batch \in InnerType(Times) /\ loopTs \in Nat
      /\ DOMAIN item.at \in SUBSET Nat /\ DOMAIN batch.at \in SUBSET Nat
  BY LoopTypes
<1>3. /\ Tagged(t) \in Seq(ItemType) /\ Len(Tagged(t)) = Len(Given(t)) /\ Len(Given(t)) \in Nat
      /\ \A i \in 1 .. Len(Given(t)) : Tagged(t)[i].of = t
  BY TaggedFacts
<1>4. PICK n \in Nat : n = Len(Given(t)) /\ n = Len(Tagged(t)) /\ n <= Cardinality(Rects)
  BY <1>3, ShortVectors
<1>5. Cardinality(Rects) \in Nat
  BY LoopDoneNat
<1>6. loopTs' = loopTs + (IF Tagged(t) = << >> THEN 1 ELSE n)
  <2>1. PICK v \in Seq(ItemType) : v = Tagged(t)
    BY <1>3
  <2>2. NextTs(loopTs, v) = loopTs + (IF v = << >> THEN 1 ELSE Len(v))
    BY DEF NextTs
  <2>3. QED
    BY <1>1, <1>4, <2>1, <2>2
<1>7. Tagged(t) = << >> <=> n = 0
  BY <1>3, <1>4
<1>8. /\ loopTs' \in Nat /\ loopTs' > loopTs /\ loopTs' <= loopTs + Cardinality(Rects) + 1
      /\ loopTs' - 1 \in Nat /\ loopTs + n - 1 < loopTs'
  BY <1>2, <1>4, <1>5, <1>6, <1>7
<1>9. item \in InnerType(ItemType)
  BY LoopTypes
<1>10. batch \in InnerType(Times)
  BY LoopTypes
<1>11. PICK m \in Nat : m = loopTs'
  BY <1>8
<1>12. PICK e \in Nat : e = loopTs' - 1
  BY <1>8
<1> DEFINE D == loopTs .. loopTs + Len(Tagged(t)) - 1
           its == Items(loopTs, Tagged(t))
<1>13. its \in [D -> ItemType] /\ D \in SUBSET Nat
  BY <1>2, <1>3, ItemsFacts
<1>14. \A u \in D : its[u] = Tagged(t)[u - loopTs + 1]
  BY <1>2, <1>3, ItemsFacts
<1>15. \A u \in D : its[u].of = t
  <2>1. \A u \in D : u - loopTs + 1 \in 1 .. Len(Given(t))
    BY <1>2, <1>3
  <2>2. QED
    BY <1>3, <1>14, <2>1
<1>16. D = loopTs .. loopTs + Len(Given(t)) - 1
  BY <1>3
<1> HIDE DEF D, its
<1> DEFINE new == PutAll(item, its, m)
<1>17. IsPut(new, ItemType, item, D, its, m)
  BY <1>9, <1>13, PutAllFacts
<1>18. new.bound = m
  BY <1>17 DEF IsPut
<1>19. DOMAIN new.at = DOMAIN item.at \cup D
  BY <1>17 DEF IsPut
<1>20. \A u \in DOMAIN item.at : new.at[u] = item.at[u]
  BY <1>17 DEF IsPut
<1>21. \A u \in D \ DOMAIN item.at : new.at[u] = its[u]
  BY <1>17 DEF IsPut
<1>22. item' = new
  BY <1>1, <1>11 DEF its
<1> HIDE DEF new
<1>23. \A u \in DOMAIN item'.at \ DOMAIN item.at : item'.at[u].of = t
  BY <1>15, <1>19, <1>21, <1>22
<1>24. loopTs' - 1 \notin DOMAIN batch.at
  <2>1. \A b \in DOMAIN batch.at : b < loopTs
    BY DEF LoopInv, ClocksRight
  <2>2. QED
    BY <1>2, <1>8, <2>1
<1> DEFINE ends == Put(batch, e, t)
<1>25. ends.bound = e + 1 /\ DOMAIN ends.at = DOMAIN batch.at \cup {e}
  <2>1. ends.bound = e + 1
    BY <1>10, PutFacts
  <2>2. DOMAIN ends.at = DOMAIN batch.at \cup {e}
    BY <1>10, PutFacts
  <2>3. QED
    BY <2>1, <2>2
<1>26. \A b \in DOMAIN batch.at : ends.at[b] = batch.at[b]
  BY <1>10, PutFacts
<1>27. ends.at[e] = t
  BY <1>10, <1>24, <1>12, PutFacts
<1>28. batch' = ends
  BY <1>1, <1>12
<1> HIDE DEF ends
<1>29. batch'.bound = loopTs'
  BY <1>8, <1>25, <1>28, <1>12
<1>30. DOMAIN item'.at = DOMAIN item.at \cup (loopTs .. loopTs + Len(Given(t)) - 1)
  BY <1>16, <1>19, <1>22
<1>31. loopTs + Len(Given(t)) - 1 < loopTs'
  BY <1>4, <1>8
<1>32. QED
  BY <1>11, <1>12, <1>8, <1>18, <1>20, <1>22, <1>23, <1>24, <1>25, <1>26, <1>27, <1>28, <1>29, <1>30, <1>31

(* A vector enters behind all others, before the end of time.              *)
LEMMA EnterClocks ==
  ASSUME TypeOK, NoOverlaps, LoopInv, NEW t \in Times, Enters(t, Tagged(t))
  PROVE  ClocksRight'
<1> DEFINE e == loopTs' - 1
<1>1. /\ loopTs' \in Nat /\ loopTs' > loopTs /\ loopTs' <= loopTs + Cardinality(Rects) + 1
      /\ loopTs + Len(Given(t)) - 1 < loopTs'
      /\ item'.bound = loopTs' /\ batch'.bound = loopTs'
  BY EnterFacts
<1>2. DOMAIN item'.at = DOMAIN item.at \cup (loopTs .. loopTs + Len(Given(t)) - 1)
  BY EnterFacts
<1>3. /\ DOMAIN batch'.at = DOMAIN batch.at \cup {e} /\ batch'.at[e] = t
      /\ \A b \in DOMAIN batch.at : batch'.at[b] = batch.at[b]
  BY EnterFacts
<1>4. /\ pos["Begin"] < t /\ pos'["Begin"] = t /\ UNCHANGED body
  BY DEF Enters
<1>5. /\ loopTs \in Nat /\ pos["Begin"] \in Nat /\ t \in Nat /\ body.bound \in Nat
      /\ DOMAIN item.at \in SUBSET Nat /\ DOMAIN batch.at \in SUBSET Nat
      /\ DOMAIN body.at \in SUBSET Nat /\ Len(Given(t)) \in Nat
      /\ \A b \in DOMAIN batch.at : batch.at[b] \in Nat
  <2>1. \A b \in DOMAIN batch.at : batch.at[b] \in Times
    BY LoopTypes
  <2>2. QED
    BY <2>1, LoopTypes, TaggedFacts, TimeFacts DEF Times
<1>6. body.bound <= loopTs
  <2>1. item.bound < LoopDone /\ item.bound \in Nat /\ LoopDone \in Nat
    BY LoopTypes, LoopDoneNat DEF Enters
  <2>2. item.bound # LoopDone
    BY <2>1
  <2>3. body.bound <= item.bound /\ item.bound = loopTs
    BY <2>2 DEF LoopInv, ClocksRight
  <2>4. QED
    BY <2>3
<1>7. loopTs' <= pos'["Begin"] * (Cardinality(Rects) + 1)
  <2>1. PICK c \in Nat : c = Cardinality(Rects) + 1
    BY LoopDoneNat
  <2>2. loopTs <= pos["Begin"] * c
    BY <2>1 DEF LoopInv, ClocksRight
  <2>3. (pos["Begin"] + 1) * c <= t * c /\ t * c \in Nat
    <3>1. PICK a \in Nat : a = pos["Begin"] + 1 /\ a <= t
      BY <1>4, <1>5
    <3>2. a * c <= t * c /\ t * c \in Nat
      BY <1>5, <3>1, Multiples
    <3>3. QED
      BY <3>1, <3>2
  <2>4. (pos["Begin"] + 1) * c = pos["Begin"] * c + c /\ pos["Begin"] * c \in Nat
    BY <1>5
  <2>5. loopTs' <= loopTs + c
    <3>1. PICK d \in Nat : d = Cardinality(Rects)
      BY LoopDoneNat
    <3>2. loopTs' <= loopTs + d + 1 /\ c = d + 1
      BY <1>1, <2>1, <3>1
    <3>3. QED
      BY <1>1, <1>5, <3>2
  <2>6. QED
    BY <1>1, <1>4, <1>5, <2>1, <2>2, <2>3, <2>4, <2>5
<1>8. ASSUME NEW u \in DOMAIN item'.at PROVE body'.bound <= u /\ u < loopTs'
  <2>1. CASE u \in DOMAIN item.at
    <3>1. body.bound <= u /\ u < loopTs
      BY <2>1 DEF LoopInv, ClocksRight
    <3>2. u \in Nat
      BY <1>5, <2>1
    <3>3. QED
      BY <1>1, <1>4, <1>5, <3>1, <3>2
  <2>2. CASE u \in loopTs .. loopTs + Len(Given(t)) - 1
    BY <1>1, <1>4, <1>5, <1>6, <2>2
  <2>3. QED
    BY <1>2, <2>1, <2>2
<1>9. \A u \in DOMAIN body'.at : u < body'.bound /\ u < loopTs'
  <2>1. \A u \in DOMAIN body.at : u < body.bound /\ u < loopTs
    BY DEF LoopInv, ClocksRight
  <2>2. QED
    BY <1>1, <1>4, <1>5, <2>1
<1>10. ASSUME NEW b \in DOMAIN batch'.at PROVE b < loopTs' /\ batch'.at[b] <= pos'["Begin"]
  <2>1. CASE b \in DOMAIN batch.at
    <3>1. b < loopTs /\ batch.at[b] <= pos["Begin"]
      BY <2>1 DEF LoopInv, ClocksRight
    <3>2. b \in Nat /\ batch.at[b] \in Nat /\ batch'.at[b] = batch.at[b]
      BY <1>3, <1>5, <2>1
    <3>3. QED
      BY <1>1, <1>4, <1>5, <3>1, <3>2
  <2>2. CASE b = e
    <3>1. b < loopTs'
      <4>1. \A n \in Nat : n - 1 < n
        OBVIOUS
      <4>2. PICK n \in Nat : n = loopTs'
        BY <1>1
      <4>3. b = n - 1
        BY <2>2, <4>2
      <4>4. QED
        BY <4>1, <4>2, <4>3
    <3>2. batch'.at[b] = t /\ pos'["Begin"] = t
      BY <1>3, <1>4, <2>2
    <3>3. QED
      BY <1>5, <3>1, <3>2
  <2>3. QED
    BY <1>3, <2>1, <2>2
<1>11. ASSUME NEW b \in DOMAIN batch'.at, NEW c \in DOMAIN batch'.at, b < c
       PROVE  batch'.at[b] < batch'.at[c]
  <2>1. \A d \in DOMAIN batch.at : d < loopTs /\ batch.at[d] <= pos["Begin"]
    BY DEF LoopInv, ClocksRight
  <2>2. \A d \in DOMAIN batch.at : d < e
    BY <1>1, <1>5, <2>1
  <2>3. b \in DOMAIN batch.at
    BY <1>1, <1>3, <1>5, <1>11, <2>2
  <2>4. CASE c \in DOMAIN batch.at
    <3>1. batch.at[b] < batch.at[c]
      BY <1>11, <2>3, <2>4 DEF LoopInv, ClocksRight
    <3>2. QED
      BY <1>3, <2>3, <2>4, <3>1
  <2>5. CASE c = e
    <3>1. batch'.at[b] <= pos["Begin"] /\ batch'.at[b] \in Nat /\ batch'.at[c] = t
      BY <1>3, <1>5, <2>1, <2>3, <2>5
    <3>2. QED
      BY <1>4, <1>5, <3>1
  <2>6. QED
    BY <1>3, <2>4, <2>5
<1>12. item'.bound \in {loopTs', LoopDone} /\ batch'.bound = item'.bound /\ body'.bound <= item'.bound
  BY <1>1, <1>4, <1>5, <1>6
<1>13. QED
  BY <1>7, <1>8, <1>9, <1>10, <1>11, <1>12 DEF ClocksRight

(* A new end comes after all others.                                       *)
LEMMA LaterEnd ==
  ASSUME TypeOK, LoopInv, NEW t \in Times, NEW e \in Nat,
         \A b \in DOMAIN batch.at : b < e,
         DOMAIN batch'.at = DOMAIN batch.at \cup {e}, batch'.at[e] = t,
         \A b \in DOMAIN batch.at : batch'.at[b] = batch.at[b]
  PROVE  /\ \A b \in DOMAIN batch.at, u \in Nat : Ends(b, u)' <=> Ends(b, u)
         /\ \A b \in DOMAIN batch.at : IsFirst(b)' <=> IsFirst(b)
         /\ DOMAIN batch.at # {} => ~IsFirst(e)'
         /\ \A u \in Nat : (\E b \in DOMAIN batch.at : u <= b) => ~Ends(e, u)'
         /\ \A s : Pending(s)' <=> Pending(s) \/ s = t
<1>1. DOMAIN batch.at \in SUBSET Nat
  BY LoopTypes
<1>2. ASSUME NEW b \in DOMAIN batch.at, NEW u \in Nat PROVE Ends(b, u)' <=> Ends(b, u)
  <2>1. b < e /\ b \in Nat
    BY <1>1
  <2>2. QED
    BY <2>1 DEF Ends
<1>3. ASSUME NEW b \in DOMAIN batch.at PROVE IsFirst(b)' <=> IsFirst(b)
  <2>1. b < e /\ b \in Nat
    BY <1>1
  <2>2. QED
    BY <2>1 DEF IsFirst
<1>4. DOMAIN batch.at # {} => ~IsFirst(e)'
  <2>1. \A b \in DOMAIN batch.at : ~(e <= b)
    BY <1>1
  <2>2. QED
    BY <2>1 DEF IsFirst
<1>5. ASSUME NEW u \in Nat, \E b \in DOMAIN batch.at : u <= b PROVE ~Ends(e, u)'
  <2>1. PICK b \in DOMAIN batch.at : u <= b /\ ~(e <= b)
    BY <1>1, <1>5
  <2>2. QED
    BY <2>1 DEF Ends
<1>6. \A s : Pending(s)' <=> Pending(s) \/ s = t
  BY DEF Pending
<1>7. QED
  BY <1>2, <1>3, <1>4, <1>5, <1>6

(* It owns its items, has nothing collected yet, and no answer was given   *)
(* for it.                                                                 *)
LEMMA EnterOthers ==
  ASSUME TypeOK, NoOverlaps, LoopInv, NEW t \in Times, Enters(t, Tagged(t))
  PROVE  Owned' /\ InOrder' /\ Answers'
<1>1. PICK e \in Nat : e = loopTs' - 1
  <2>1. PICK l \in Nat : l = loopTs
    BY LoopTypes
  <2>2. PICK m \in Nat : m = loopTs'
    BY EnterFacts
  <2>3. m > l
    BY <2>1, <2>2, EnterFacts
  <2>4. m - 1 \in Nat
    BY <2>3
  <2>5. QED
    BY <2>2, <2>4
<1>2. /\ DOMAIN batch'.at = DOMAIN batch.at \cup {e} /\ batch'.at[e] = t
      /\ \A b \in DOMAIN batch.at : batch'.at[b] = batch.at[b]
      /\ e \notin DOMAIN batch.at
  BY <1>1, EnterFacts
<1>3. /\ DOMAIN item'.at = DOMAIN item.at \cup (loopTs .. loopTs + Len(Given(t)) - 1)
      /\ \A u \in DOMAIN item.at : item'.at[u] = item.at[u]
      /\ \A u \in DOMAIN item'.at \ DOMAIN item.at : item'.at[u].of = t
  BY EnterFacts
<1>4. /\ loopTs \in Nat /\ DOMAIN item.at \in SUBSET Nat /\ DOMAIN body.at \in SUBSET Nat
      /\ DOMAIN batch.at \in SUBSET Nat /\ Len(Given(t)) \in Nat
      /\ \A b \in DOMAIN batch.at : batch.at[b] \in Times
  BY LoopTypes, TaggedFacts
<1>5. loopTs <= e /\ loopTs + Len(Given(t)) - 1 <= e
  <2>1. loopTs' \in Nat /\ loopTs' > loopTs /\ loopTs + Len(Given(t)) - 1 < loopTs'
    BY EnterFacts
  <2>2. PICK n \in Nat : n = Len(Given(t))
    BY <1>4
  <2>3. PICK l \in Nat : l = loopTs
    BY <1>4
  <2>4. PICK m \in Nat : m = loopTs'
    BY <2>1
  <2>5. m > l /\ l + n - 1 < m /\ e = m - 1
    BY <1>1, <2>1, <2>2, <2>3, <2>4
  <2>6. l <= e /\ l + n - 1 <= e
    BY <2>5
  <2>7. QED
    BY <2>2, <2>3, <2>6
<1>6. \A b \in DOMAIN batch.at : b < e /\ b < loopTs
  <2>1. \A b \in DOMAIN batch.at : b < loopTs
    BY DEF LoopInv, ClocksRight
  <2>2. QED
    BY <1>4, <1>5, <2>1
<1>7. UNCHANGED <<body, coll, kept, loop>> /\ pos["Begin"] < t /\ pos'["Begin"] = t
  BY DEF Enters
<1>8. \A b \in DOMAIN batch.at, u \in Nat : Ends(b, u)' <=> Ends(b, u)
  BY <1>2, <1>6, LaterEnd
<1>9. \A b \in DOMAIN batch.at : IsFirst(b)' <=> IsFirst(b)
  BY <1>2, <1>6, LaterEnd
<1>10. DOMAIN batch.at # {} => ~IsFirst(e)'
  BY <1>2, <1>6, LaterEnd
<1>11. \A u \in Nat : (\E b \in DOMAIN batch.at : u <= b) => ~Ends(e, u)'
  BY <1>2, <1>6, LaterEnd
<1>12. \A s : Pending(s)' <=> Pending(s) \/ s = t
  BY <1>2, <1>6, LaterEnd
<1>13. Owned'
  <2>1. ASSUME NEW u \in DOMAIN item'.at \cup DOMAIN body'.at PROVE \E b \in DOMAIN batch'.at : u <= b
    <3>1. CASE u \in DOMAIN item.at \cup DOMAIN body.at
      BY <1>2, <3>1 DEF LoopInv, Owned
    <3>2. CASE u \in loopTs .. loopTs + Len(Given(t)) - 1
      <4>1. u <= e
        BY <1>4, <1>5, <3>2
      <4>2. QED
        BY <1>2, <4>1
    <3>3. QED
      BY <1>3, <1>7, <3>1, <3>2
  <2>2. ASSUME NEW u \in DOMAIN item'.at, NEW b, Ends(b, u)'
        PROVE  item'.at[u].of = batch'.at[b]
    <3>1. b \in DOMAIN batch.at \cup {e} /\ u <= b
      BY <1>2, <2>2 DEF Ends
    <3>2. CASE u \in DOMAIN item.at
      <4>1. \E c \in DOMAIN batch.at : u <= c
        BY <3>2 DEF LoopInv, Owned
      <4>2. b # e
        BY <1>4, <1>11, <2>2, <3>2, <4>1
      <4>3. b \in DOMAIN batch.at /\ Ends(b, u)
        BY <1>4, <1>8, <2>2, <3>1, <3>2, <4>2
      <4>4. item.at[u].of = batch.at[b]
        BY <3>2, <4>3 DEF LoopInv, Owned
      <4>5. QED
        BY <1>2, <1>3, <3>2, <4>3, <4>4
    <3>3. CASE u \notin DOMAIN item.at
      <4>1. u \in loopTs .. loopTs + Len(Given(t)) - 1
        BY <1>3, <3>3
      <4>2. b \notin DOMAIN batch.at
        <5>1. loopTs <= u
          BY <1>4, <4>1
        <5>2. ASSUME b \in DOMAIN batch.at PROVE FALSE
          <6>1. b < loopTs /\ b \in Nat /\ u \in Nat
            BY <1>4, <1>6, <4>1, <5>2
          <6>2. QED
            BY <1>4, <3>1, <5>1, <6>1
        <5>3. QED
          BY <5>2
      <4>3. b = e
        BY <3>1, <4>2
      <4>4. QED
        BY <1>2, <1>3, <3>3, <4>3
    <3>4. QED
      BY <3>2, <3>3
  <2>3. DOMAIN batch'.at # {}
    BY <1>2
  <2>4. QED
    BY <2>1, <2>2, <2>3 DEF Owned
<1>14. InOrder'
  <2>1. PICK rank \in [DOMAIN body.at -> Nat] : Ranked(rank)
    BY DEF LoopInv, InOrder
  <2>2. ASSUME NEW b \in DOMAIN batch'.at
        PROVE  Fits(kept'[batch'.at[b]], Before(b)', Window(b)', body'.at, rank)
    <3>1. CASE b \in DOMAIN batch.at
      <4>1. Window(b)' = Window(b)
        BY <1>4, <1>7, <1>8, <3>1 DEF Window
      <4>2. Before(b)' = Before(b)
        BY <1>7, <1>9, <3>1 DEF Before
      <4>3. QED
        BY <1>2, <1>7, <2>1, <3>1, <4>1, <4>2 DEF Ranked
    <3>2. CASE b = e
      <4>1. Window(b)' = {}
        <5>1. \A u \in DOMAIN body.at : u \in Nat /\ \E c \in DOMAIN batch.at : u <= c
          BY <1>4 DEF LoopInv, Owned
        <5>2. QED
          BY <1>7, <1>11, <3>2, <5>1 DEF Window
      <4>2. Before(b)' = << >>
        <5>1. CASE DOMAIN batch.at = {}
          BY <1>7, <5>1 DEF Before, LoopInv, Owned
        <5>2. CASE DOMAIN batch.at # {}
          BY <1>10, <3>2, <5>2 DEF Before
        <5>3. QED
          BY <5>1, <5>2
      <4>3. kept'[batch'.at[b]] = << >>
        <5>1. kept[t] = << >>
          BY <1>7 DEF LoopInv, Answers
        <5>2. QED
          BY <1>2, <1>7, <3>2, <5>1
      <4>4. QED
        BY <4>1, <4>2, <4>3, FitsNothing
    <3>3. QED
      BY <1>2, <3>1, <3>2
  <2>3. rank \in [DOMAIN body'.at -> Nat]
    BY <1>7, <2>1
  <2>4. QED
    BY <2>2, <2>3 DEF InOrder, Ranked
<1>15. Answers'
  <2>1. pos["Begin"] \in Nat /\ t \in Nat /\ loop.bound \in Nat
    BY LoopTypes, TimeFacts DEF Times
  <2>2. ASSUME NEW s \in Times, s <= t, ~Pending(s)' PROVE Value(loop, s) = Collected(kept[s])
    <3>1. s # t /\ ~Pending(s)
      BY <1>12, <2>2
    <3>2. CASE s <= pos["Begin"]
      BY <3>1, <3>2 DEF LoopInv, Answers
    <3>3. CASE pos["Begin"] < s
      <4>1. kept[s] = << >> /\ ~Has(loop, s)
        BY <3>3 DEF LoopInv, Answers
      <4>2. QED
        BY <4>1 DEF Value, Collected
    <3>4. QED
      BY <2>1, <3>2, <3>3 DEF Times
  <2>3. ASSUME NEW s \in Times, t < s PROVE kept[s] = << >> /\ ~Has(loop, s)
    <3>1. pos["Begin"] < s
      BY <1>7, <2>1, <2>3 DEF Times
    <3>2. QED
      BY <3>1 DEF LoopInv, Answers
  <2>4. loop.bound <= pos["Begin"] + 1
    <3>1. item.bound < LoopDone /\ item.bound \in Nat /\ LoopDone \in Nat
      BY LoopTypes, LoopDoneNat DEF Enters
    <3>2. item.bound = loopTs
      BY <3>1 DEF LoopInv, ClocksRight
    <3>3. QED
      BY <3>2 DEF LoopInv, Answers
  <2>5. loop.bound <= t /\ ~Has(loop, t)
    BY <1>7, <2>1, <2>4 DEF LoopInv, Answers
  <2>6. ASSUME NEW b \in DOMAIN batch'.at
        PROVE  ~Has(loop, batch'.at[b]) /\ loop.bound <= batch'.at[b]
    <3>1. CASE b \in DOMAIN batch.at
      BY <1>2, <3>1 DEF LoopInv, Answers
    <3>2. CASE b = e
      BY <1>2, <2>5, <3>2
    <3>3. QED
      BY <1>2, <3>1, <3>2
  <2>7. loop.bound <= t + 1
    BY <2>1, <2>5
  <2>8. loop' = loop /\ kept' = kept /\ pos'["Begin"] = t
    BY <1>7
  <2>9. \A s : Has(loop, s)' <=> Has(loop, s)
    BY <2>8 DEF Has
  <2>10. \A s : Value(loop, s)' = Value(loop, s)
    BY <2>8 DEF Value, Has
  <2>11. (\A s \in Times : s <= pos["Begin"] /\ ~Pending(s) => Value(loop, s) = Collected(kept[s]))'
    <3>1. ASSUME NEW s \in Times, s <= t, ~Pending(s)' PROVE Value(loop', s) = Collected(kept'[s])
      BY <2>2, <2>8, <3>1
    <3>2. QED
      BY <2>8, <3>1
  <2>12. (\A s \in Times : pos["Begin"] < s => kept[s] = << >> /\ ~Has(loop, s))'
    BY <2>3, <2>8
  <2>13. QED
    BY <2>6, <2>7, <2>8, <2>11, <2>12 DEF Answers
<1>16. QED
  BY <1>13, <1>14, <1>15

(* BeginLoop keeps the invariant, also when it closes.                     *)
LEMMA BeginLoopKeeps ==
  ASSUME TypeOK, NoOverlaps, LoopInv, BeginLoop
  PROVE  LoopInv'
<1>1. CASE /\ pos["Begin"] < BeginTime /\ item.bound < LoopDone
           /\ Settled({image, hand}, pos["Begin"]) < DoneTime
           /\ LET t == BeginTime
                  v == IF Has(hand, t) THEN hand.at[t] ELSE << >>
                  tagged == [i \in DOMAIN v |-> [of |-> t, rect |-> v[i]]]
              IN  /\ pos' = [pos EXCEPT !["Begin"] = t]
                  /\ loopTs' = NextTs(loopTs, v)
                  /\ item' = PutAll(item, Items(loopTs, tagged), loopTs')
                  /\ batch' = Put(batch, loopTs' - 1, t)
  <2>1. PICK t \in Times : t = BeginTime
    BY <1>1, BeginTimeFacts
  <2>2. /\ pos' = [pos EXCEPT !["Begin"] = t]
        /\ loopTs' = NextTs(loopTs, Given(t))
        /\ item' = PutAll(item, Items(loopTs, Tagged(t)), loopTs')
        /\ batch' = Put(batch, loopTs' - 1, t)
    BY <1>1, <2>1 DEF Given, Tagged
  <2>3. pos'["Begin"] = t
    BY <2>2 DEF TypeOK, Nodes
  <2>4. UNCHANGED <<body, coll, kept, loop>>
    BY DEF BeginLoop
  <2>5. Enters(t, Tagged(t))
    BY <1>1, <2>1, <2>2, <2>3, <2>4, SameNext DEF Enters
  <2>6. QED
    BY <2>5, EnterClocks, EnterOthers DEF LoopInv
<1>2. CASE /\ item.bound < LoopDone
           /\ item' = [item EXCEPT !.bound = LoopDone]
           /\ batch' = [batch EXCEPT !.bound = LoopDone]
           /\ UNCHANGED <<pos, loopTs>>
  <2>1. /\ item \in InnerType(ItemType) /\ batch \in InnerType(Times) /\ LoopDone \in Nat
        /\ item.bound \in Nat /\ body.bound \in Nat /\ loopTs \in Nat
    BY LoopTypes, LoopDoneNat
  <2>2. item'.at = item.at /\ item'.bound = LoopDone
    BY <1>2, <2>1 DEF InnerType
  <2>3. batch'.at = batch.at /\ batch'.bound = LoopDone
    BY <1>2, <2>1 DEF InnerType
  <2>4. UNCHANGED <<body, coll, kept, loop, pos, loopTs>>
    BY <1>2 DEF BeginLoop
  <2>5. ClocksRight'
    <3>1. body.bound <= LoopDone
      BY <1>2, <2>1 DEF LoopInv, ClocksRight
    <3>2. LoopDone' = LoopDone
      BY DEF LoopDone
    <3>3. QED
      BY <2>2, <2>3, <2>4, <3>1, <3>2 DEF LoopInv, ClocksRight
  <2>6. Owned'
    BY <2>2, <2>3, <2>4 DEF LoopInv, Owned, Ends
  <2>7. InOrder'
    <3>1. \A b : Window(b)' = Window(b) /\ Before(b)' = Before(b)
      BY <2>3, <2>4 DEF Window, Before, Ends, IsFirst
    <3>2. QED
      BY <2>3, <2>4, <3>1 DEF LoopInv, InOrder, Ranked
  <2>8. Answers'
    <3>1. item'.bound # loopTs'
      BY <2>1, <2>2, <2>4, ClockBelowDone DEF LoopInv
    <3>2. QED
      BY <2>3, <2>4, <3>1 DEF LoopInv, Answers, Pending
  <2>9. QED
    BY <2>5, <2>6, <2>7, <2>8 DEF LoopInv
<1>3. QED
  BY <1>1, <1>2 DEF BeginLoop

(* The first end at or after u is only one, and every time is of one end.  *)
LEMMA OneEnd ==
  ASSUME TypeOK, ClocksRight
  PROVE  /\ \A b, c, u : Ends(b, u) /\ Ends(c, u) => b = c
         /\ \A b, c \in DOMAIN batch.at : batch.at[b] = batch.at[c] => b = c
<1>1. DOMAIN batch.at \in SUBSET Nat /\ \A b \in DOMAIN batch.at : batch.at[b] \in Nat
  BY LoopTypes DEF Times
<1>2. ASSUME NEW b, NEW c, NEW u, Ends(b, u), Ends(c, u) PROVE b = c
  <2>1. b \in Nat /\ c \in Nat /\ b <= c /\ c <= b
    BY <1>1, <1>2 DEF Ends
  <2>2. QED
    BY <2>1
<1>3. ASSUME NEW b \in DOMAIN batch.at, NEW c \in DOMAIN batch.at, batch.at[b] = batch.at[c]
      PROVE  b = c
  <2>1. ~(batch.at[b] < batch.at[c]) /\ ~(batch.at[c] < batch.at[b])
    BY <1>1, <1>3
  <2>2. ~(b < c) /\ ~(c < b)
    BY <2>1 DEF ClocksRight
  <2>3. b \in Nat /\ c \in Nat
    BY <1>1
  <2>4. QED
    BY <2>2, <2>3
<1>4. QED
  BY <1>2, <1>3

(* An item comes out of the body, as a packet or not.                      *)
LEMMA BodyTakes ==
  ASSUME TypeOK, LoopInv, item.at # << >>, item' = Without(item, Min(DOMAIN item.at))
  PROVE  LET t == Min(DOMAIN item.at)
         IN  /\ t \in DOMAIN item.at /\ t \in Nat /\ body.bound <= t /\ t < loopTs
             /\ DOMAIN item'.at = DOMAIN item.at \ {t} /\ item'.bound = item.bound
             /\ \A u \in DOMAIN item'.at : item'.at[u] = item.at[u] /\ t + 1 <= u
             /\ t + 1 <= item.bound /\ t \notin DOMAIN body.at
             /\ \A u \in DOMAIN body.at : u < t
             /\ item.at[t].of \in Times
<1>1. item.at \in Packets(Nat, ItemType) /\ DOMAIN item.at \in SUBSET Nat
  BY LoopTypes, InnerFacts
<1>2. DOMAIN item.at # {}
  <2>1. PICK V : V = ItemType
    OBVIOUS
  <2>2. PICK f \in Packets(Nat, V) : f = item.at
    BY <1>1, <2>1
  <2>3. f = << >> <=> DOMAIN f = {}
    BY EmptyPackets
  <2>4. QED
    BY <2>2, <2>3
<1>3. PICK t \in Nat : t = Min(DOMAIN item.at)
  BY <1>1, <1>2, MinIn
<1>4. t \in DOMAIN item.at /\ \A u \in DOMAIN item.at : t <= u
  BY <1>1, <1>2, <1>3, MinIn
<1>5. item' = Without(item, t) /\ item \in InnerType(ItemType)
  BY <1>3, LoopTypes
<1>6. DOMAIN item'.at = DOMAIN item.at \ {t} /\ item'.bound = item.bound
  BY <1>5, WithoutFacts
<1>7. \A u \in DOMAIN item'.at : item'.at[u] = item.at[u]
  BY <1>5, WithoutFacts
<1>8. /\ loopTs \in Nat /\ item.bound \in Nat /\ body.bound \in Nat /\ LoopDone \in Nat
      /\ loopTs < LoopDone /\ DOMAIN body.at \in SUBSET Nat
  BY LoopTypes, LoopDoneNat, ClockBelowDone DEF LoopInv
<1>9. body.bound <= t /\ t < loopTs
  BY <1>4 DEF LoopInv, ClocksRight
<1>10. \A u \in DOMAIN item'.at : t + 1 <= u
  <2>1. \A u \in DOMAIN item'.at : u \in Nat /\ t <= u /\ t # u
    BY <1>1, <1>4, <1>6
  <2>2. QED
    BY <2>1
<1>11. t + 1 <= item.bound
  <2>1. item.bound = loopTs \/ item.bound = LoopDone
    BY DEF LoopInv, ClocksRight
  <2>2. QED
    BY <1>8, <1>9, <2>1
<1>12. \A u \in DOMAIN body.at : u < t
  <2>1. \A u \in DOMAIN body.at : u < body.bound /\ u \in Nat
    BY <1>8 DEF LoopInv, ClocksRight
  <2>2. QED
    BY <1>8, <1>9, <2>1
<1>13. t \notin DOMAIN body.at
  BY <1>12
<1>14. item.at[t].of \in Times
  <2>1. item.at[t] \in ItemType
    BY <1>4, <1>5, InnerFacts
  <2>2. QED
    BY <2>1 DEF ItemType
<1>15. QED
  BY <1>3, <1>4, <1>6, <1>7, <1>9, <1>10, <1>11, <1>12, <1>13, <1>14

(* What the clocks and the owners need of the body.                        *)
LEMMA BodyClocks ==
  ASSUME TypeOK, LoopInv, NEW t \in DOMAIN item.at, t \in Nat, t < loopTs,
         DOMAIN item'.at = DOMAIN item.at \ {t}, item'.bound = item.bound,
         \A u \in DOMAIN item'.at : item'.at[u] = item.at[u] /\ t + 1 <= u,
         t + 1 <= item.bound, \A u \in DOMAIN body.at : u < t,
         body'.bound = t + 1, DOMAIN body'.at \subseteq DOMAIN body.at \cup {t},
         UNCHANGED <<batch, loopTs, coll, loop, pos>>
  PROVE  ClocksRight' /\ Owned'
<1>1. DOMAIN body.at \in SUBSET Nat
  BY LoopTypes
<1>2. \A u \in DOMAIN body'.at : u < t + 1 /\ u < loopTs
  <2>1. \A u \in DOMAIN body.at : u \in Nat /\ u < t /\ u < loopTs
    BY <1>1 DEF LoopInv, ClocksRight
  <2>2. QED
    BY <2>1
<1>3. \A u \in DOMAIN item'.at : t + 1 <= u /\ u < loopTs
  BY DEF LoopInv, ClocksRight
<1>4. ClocksRight'
  BY <1>2, <1>3 DEF LoopInv, ClocksRight, LoopDone
<1>5. Owned'
  BY DEF LoopInv, Owned, Ends
<1>6. QED
  BY <1>4, <1>5

(* The body keeps the invariant, whether it finds a hand or not.           *)
LEMMA BodyKeeps ==
  ASSUME TypeOK, LoopInv, Body
  PROVE  LoopInv'
<1> DEFINE t == Min(DOMAIN item.at)
           x == item.at[t]
<1>1. UNCHANGED <<batch, loopTs, coll, loop, pos>>
  BY DEF Body
<1>2. CASE item.at # << >>
           /\ item' = Without(item, t)
           /\ \/ body' = SetBound(body, t + 1) /\ UNCHANGED kept
              \/ \E r \in setting.rects :
                   body' = Put(body, t, r) /\ kept' = [kept EXCEPT ![x.of] = Append(@, r)]
  <2>1. /\ t \in DOMAIN item.at /\ t \in Nat /\ body.bound <= t /\ t < loopTs
        /\ DOMAIN item'.at = DOMAIN item.at \ {t} /\ item'.bound = item.bound
        /\ \A u \in DOMAIN item'.at : item'.at[u] = item.at[u] /\ t + 1 <= u
        /\ t + 1 <= item.bound /\ t \notin DOMAIN body.at
        /\ \A u \in DOMAIN body.at : u < t
        /\ x.of \in Times
    BY <1>2, BodyTakes
  <2>2. /\ body \in InnerType(Rects) /\ setting.rects \subseteq Rects
        /\ kept \in [Times -> Vector] /\ DOMAIN body.at \in SUBSET Nat /\ body.bound \in Nat
        /\ DOMAIN batch.at \in SUBSET Nat /\ \A b \in DOMAIN batch.at : batch.at[b] \in Times
        /\ coll \in Vector
    BY LoopTypes, SettingFacts DEF TypeOK
  <2> HIDE DEF t, x
  <2>3. \A b : Before(b)' = Before(b)
    BY <1>1 DEF Before, IsFirst
  <2>4. \A b, u : Ends(b, u)' <=> Ends(b, u)
    BY <1>1 DEF Ends
  <2>5. CASE body' = SetBound(body, t + 1) /\ UNCHANGED kept
    <3>1. PICK b \in Nat : b = t + 1
      BY <2>1
    <3>2. /\ SetBound(body, b).at = body.at
          /\ SetBound(body, b).bound = IF b > body.bound THEN b ELSE body.bound
      BY <2>2, InnerBoundFacts
    <3>3. body'.at = body.at /\ body'.bound = t + 1
      BY <2>1, <2>2, <2>5, <3>1, <3>2
    <3>4. ClocksRight' /\ Owned'
      BY <1>1, <2>1, <3>3, BodyClocks
    <3>5. InOrder'
      <4>1. \A first \in DOMAIN batch.at : Window(first)' = Window(first)
        BY <2>4, <3>3 DEF Window
      <4>2. QED
        BY <1>1, <2>3, <2>5, <3>3, <4>1 DEF LoopInv, InOrder, Ranked
    <3>6. Answers'
      BY <1>1, <2>1, <2>5 DEF LoopInv, Answers, Pending, Has, Value
    <3>7. QED
      BY <3>4, <3>5, <3>6 DEF LoopInv
  <2>6. ASSUME NEW r \in setting.rects, body' = Put(body, t, r),
               kept' = [kept EXCEPT ![x.of] = Append(@, r)]
        PROVE  LoopInv'
    <3>1. r \in Rects /\ body \in InnerType(Rects) /\ t \in Nat
      BY <2>1, <2>2
    <3>2. body'.bound = t + 1 /\ DOMAIN body'.at = DOMAIN body.at \cup {t}
      <4>1. Put(body, t, r).bound = t + 1
        BY <3>1, PutFacts
      <4>2. DOMAIN Put(body, t, r).at = DOMAIN body.at \cup {t}
        BY <3>1, PutFacts
      <4>3. QED
        BY <2>6, <4>1, <4>2
    <3>3. \A u \in DOMAIN body.at : body'.at[u] = body.at[u]
      BY <2>6, <3>1, PutFacts
    <3>4. body'.at[t] = r
      BY <2>1, <2>6, <3>1, PutFacts
    <3>5. ClocksRight' /\ Owned'
      BY <1>1, <2>1, <3>2, BodyClocks
    <3>6. PICK e \in DOMAIN batch.at : Ends(e, t)
      <4>1. \E b \in DOMAIN batch.at : t <= b
        BY <2>1 DEF LoopInv, Owned
      <4>2. QED
        BY <2>1, <4>1, EndsExists
    <3>7. x.of = batch.at[e]
      BY <2>1, <3>6 DEF LoopInv, Owned, x
    <3>8. \A b \in DOMAIN batch.at : b # e => batch.at[b] # x.of /\ ~Ends(b, t)
      BY <3>6, <3>7, OneEnd DEF LoopInv
    <3>9. InOrder'
      <4>1. PICK rank \in [DOMAIN body.at -> Nat] : Ranked(rank)
        BY DEF LoopInv, InOrder
      <4> DEFINE n == Len(kept[x.of]) + 1
                 rank2 == [u \in DOMAIN body'.at |-> IF u = t THEN n ELSE rank[u]]
      <4>2. n \in Nat /\ kept[x.of] \in Vector
        BY <2>1, <2>2 DEF Vector
      <4>3. rank2 \in [DOMAIN body'.at -> Nat] /\ rank2[t] = n
        BY <3>2, <4>1, <4>2
      <4>4. \A u \in DOMAIN body.at : rank2[u] = rank[u]
        BY <2>1, <3>2
      <4> HIDE DEF rank2
      <4>5. ASSUME NEW b \in DOMAIN batch.at
            PROVE  Fits(kept'[batch.at[b]], Before(b), Window(b)', body'.at, rank2)
        <5>1. Fits(kept[batch.at[b]], Before(b), Window(b), body.at, rank)
          BY <4>1 DEF Ranked
        <5>2. Window(b) \in SUBSET Nat /\ Window(b) \subseteq DOMAIN body.at
          BY <2>2 DEF Window
        <5>3. \A u \in Window(b) : body'.at[u] = body.at[u] /\ rank2[u] = rank[u]
          BY <3>3, <4>4, <5>2
        <5>4. CASE b = e
          <6>1. Window(b)' = Window(b) \cup {t}
            BY <2>4, <3>2, <3>6, <5>4 DEF Window
          <6>2. kept'[batch.at[b]] = Append(kept[batch.at[b]], r)
            BY <2>1, <2>2, <2>6, <3>7, <5>4
          <6>3. kept[batch.at[b]] \in Vector /\ Before(b) \in Vector
            BY <2>2 DEF Before, Vector
          <6>4. \A u \in Window(b) : u < t
            BY <2>1, <5>2
          <6>5. rank2[t] = Len(kept[batch.at[b]]) + 1
            BY <3>7, <4>3, <5>4
          <6>6. Fits(Append(kept[batch.at[b]], r), Before(b), Window(b) \cup {t}, body'.at, rank2)
            <7>1. PICK k \in Vector : k = kept[batch.at[b]]
              BY <6>3
            <7>2. PICK c \in Vector : c = Before(b)
              BY <6>3
            <7>3. PICK W \in SUBSET Nat : W = Window(b)
              BY <5>2
            <7>4. PICK at2 : at2 = body'.at
              OBVIOUS
            <7>5. Fits(k, c, W, body.at, rank)
              BY <5>1, <7>1, <7>2, <7>3
            <7>6. \A u \in W : u < t
              BY <6>4, <7>3
            <7>7. \A u \in W : at2[u] = body.at[u] /\ rank2[u] = rank[u]
              BY <5>3, <7>3, <7>4
            <7>8. at2[t] = r /\ rank2[t] = Len(k) + 1
              BY <3>4, <6>5, <7>1, <7>4
            <7>9. r \in Rects
              BY <3>1
            <7>10. PICK u \in Nat : u = t
              BY <3>1
            <7>11. PICK f : f = rank2
              OBVIOUS
            <7>12. \A v \in W : v < u
              BY <7>6, <7>10
            <7>13. \A v \in W : at2[v] = body.at[v] /\ f[v] = rank[v]
              BY <7>7, <7>11
            <7>14. at2[u] = r /\ f[u] = Len(k) + 1
              BY <7>8, <7>10, <7>11
            <7>15. Fits(Append(k, r), c, W \cup {u}, at2, f)
              BY <7>5, <7>9, <7>12, <7>13, <7>14, FitsMore, ZenonT(30)
            <7>16. QED
              BY <7>1, <7>2, <7>3, <7>4, <7>10, <7>11, <7>15
          <6>7. QED
            BY <6>1, <6>2, <6>6
        <5>5. CASE b # e
          <6>1. Window(b)' = Window(b)
            BY <2>4, <3>2, <3>8, <5>5 DEF Window
          <6>2. kept'[batch.at[b]] = kept[batch.at[b]]
            BY <2>1, <2>2, <2>6, <3>8, <5>5
          <6>3. QED
            BY <5>1, <5>3, <6>1, <6>2, FitsFrame
        <5>6. QED
          BY <5>4, <5>5
      <4>6. QED
        BY <1>1, <2>3, <4>3, <4>5 DEF InOrder, Ranked
    <3>10. Answers'
      <4>1. Pending(x.of) /\ x.of <= pos["Begin"]
        BY <3>6, <3>7 DEF Pending, LoopInv, ClocksRight
      <4>2. x.of \in Nat /\ pos["Begin"] \in Nat
        BY <2>1, LoopTypes, TimeFacts DEF Times
      <4>3. \A s \in Times : s # x.of => kept'[s] = kept[s]
        BY <2>2, <2>6
      <4>4. \A s \in Times : s <= pos["Begin"] /\ ~Pending(s) => Value(loop, s) = Collected(kept'[s])
        BY <4>1, <4>3 DEF LoopInv, Answers
      <4>5. \A s \in Times : pos["Begin"] < s => kept'[s] = << >> /\ ~Has(loop, s)
        BY <4>1, <4>2, <4>3 DEF LoopInv, Answers
      <4>6. (\A s : Pending(s)' <=> Pending(s)) /\ (\A s : Value(loop, s)' = Value(loop, s))
            /\ \A s : Has(loop, s)' <=> Has(loop, s)
        BY <1>1 DEF Pending, Value, Has
      <4>7. \A b \in DOMAIN batch.at : ~Has(loop, batch.at[b]) /\ loop.bound <= batch.at[b]
        BY DEF LoopInv, Answers
      <4>8. item'.bound = loopTs' => loop.bound <= pos["Begin"] + 1
        BY <1>1, <2>1 DEF LoopInv, Answers
      <4>9. (\A s \in Times : s <= pos["Begin"] /\ ~Pending(s) => Value(loop, s) = Collected(kept[s]))'
        BY <1>1, <4>4, <4>6
      <4>10. (\A s \in Times : pos["Begin"] < s => kept[s] = << >> /\ ~Has(loop, s))'
        BY <1>1, <4>5, <4>6
      <4>11. QED
        BY <1>1, <4>6, <4>7, <4>8, <4>9, <4>10 DEF Answers
    <3>11. QED
      BY <3>5, <3>9, <3>10 DEF LoopInv
  <2>7. QED
    BY <1>2, <2>5, <2>6
<1>3. CASE item.at = << >> /\ item.bound > body.bound
           /\ body' = SetBound(body, item.bound) /\ UNCHANGED <<item, kept>>
  <2>1. /\ body \in InnerType(Rects) /\ item.bound \in Nat /\ body.bound \in Nat
        /\ DOMAIN body.at \in SUBSET Nat
    BY LoopTypes
  <2>2. PICK b \in Nat : b = item.bound
    BY <2>1
  <2>3. /\ SetBound(body, b).at = body.at
        /\ SetBound(body, b).bound = IF b > body.bound THEN b ELSE body.bound
    BY <2>1, InnerBoundFacts
  <2>4. body'.at = body.at /\ body'.bound = item.bound
    BY <1>3, <2>1, <2>2, <2>3
  <2>5. DOMAIN item.at = {}
    BY <1>3
  <2>6. ClocksRight'
    <3>1. \A u \in DOMAIN body.at : u < item.bound
      <4>1. \A u \in DOMAIN body.at : u \in Nat /\ u < body.bound
        BY <2>1 DEF LoopInv, ClocksRight
      <4>2. QED
        BY <1>3, <2>1, <4>1
    <3>2. item.bound <= item.bound
      BY <2>1
    <3>3. LoopDone' = LoopDone
      BY DEF LoopDone
    <3>4. QED
      BY <1>1, <1>3, <2>4, <2>5, <3>1, <3>2, <3>3 DEF LoopInv, ClocksRight
  <2>7. Owned'
    BY <1>1, <1>3, <2>4 DEF LoopInv, Owned, Ends
  <2>8. InOrder'
    <3>1. \A c : Window(c)' = Window(c) /\ Before(c)' = Before(c)
      BY <1>1, <2>4 DEF Window, Before, Ends, IsFirst
    <3>2. QED
      BY <1>1, <1>3, <2>4, <3>1 DEF LoopInv, InOrder, Ranked
  <2>9. Answers'
    BY <1>1, <1>3 DEF LoopInv, Answers, Pending, Has, Value
  <2>10. QED
    BY <2>6, <2>7, <2>8, <2>9 DEF LoopInv
<1>4. QED
  BY <1>2, <1>3, Zenon DEF Body

(* EndLoop takes what is at the earliest time of its two inputs.           *)
Earliest2 == Min(DOMAIN body.at \cup DOMAIN batch.at)

(* What EndLoop takes away.                                                *)
LEMMA EndTakes ==
  ASSUME TypeOK, LoopInv, NEW t \in Nat, t = Earliest2, DOMAIN body.at \cup DOMAIN batch.at # {},
         body' = Without(body, t), batch' = Without(batch, t)
  PROVE  /\ t \in DOMAIN body.at \cup DOMAIN batch.at
         /\ \A u \in DOMAIN body.at \cup DOMAIN batch.at : t <= u
         /\ DOMAIN body'.at = DOMAIN body.at \ {t} /\ body'.bound = body.bound
         /\ \A u \in DOMAIN body'.at : body'.at[u] = body.at[u]
         /\ DOMAIN batch'.at = DOMAIN batch.at \ {t} /\ batch'.bound = batch.bound
         /\ \A b \in DOMAIN batch'.at : batch'.at[b] = batch.at[b]
<1>1. DOMAIN body.at \cup DOMAIN batch.at \in SUBSET Nat
  BY LoopTypes
<1>2. t \in DOMAIN body.at \cup DOMAIN batch.at /\ \A u \in DOMAIN body.at \cup DOMAIN batch.at : t <= u
  BY <1>1, MinIn DEF Earliest2
<1>3. body \in InnerType(Rects)
  BY LoopTypes
<1>4. batch \in InnerType(Times)
  BY LoopTypes
<1>5. DOMAIN body'.at = DOMAIN body.at \ {t} /\ body'.bound = body.bound
  BY <1>3, WithoutFacts
<1>6. \A u \in DOMAIN body'.at : body'.at[u] = body.at[u]
  BY <1>3, WithoutFacts
<1>7. DOMAIN batch'.at = DOMAIN batch.at \ {t} /\ batch'.bound = batch.bound
  BY <1>4, WithoutFacts
<1>8. \A b \in DOMAIN batch'.at : batch'.at[b] = batch.at[b]
  BY <1>4, WithoutFacts
<1>9. QED
  BY <1>2, <1>5, <1>6, <1>7, <1>8

(* Taking packets away does not disturb the clocks.                        *)
LEMMA EndClocks ==
  ASSUME TypeOK, LoopInv,
         DOMAIN body'.at \subseteq DOMAIN body.at, body'.bound = body.bound,
         DOMAIN batch'.at \subseteq DOMAIN batch.at, batch'.bound = batch.bound,
         \A b \in DOMAIN batch'.at : batch'.at[b] = batch.at[b],
         UNCHANGED <<item, loopTs, pos>>
  PROVE  ClocksRight'
<1>1. \A u \in DOMAIN body'.at : u < body'.bound /\ u < loopTs'
  BY DEF LoopInv, ClocksRight
<1>2. \A b \in DOMAIN batch'.at : b < loopTs' /\ batch'.at[b] <= pos'["Begin"]
  BY DEF LoopInv, ClocksRight
<1>3. \A b, c \in DOMAIN batch'.at : b < c => batch'.at[b] < batch'.at[c]
  BY DEF LoopInv, ClocksRight
<1>4. \A u \in DOMAIN item'.at : body'.bound <= u /\ u < loopTs'
  BY DEF LoopInv, ClocksRight
<1>5. LoopDone' = LoopDone
  BY DEF LoopDone
<1>6. QED
  BY <1>1, <1>2, <1>3, <1>4, <1>5 DEF LoopInv, ClocksRight

(* Where the end of a vector comes first, its items have all arrived.      *)
LEMMA WholeVector ==
  ASSUME TypeOK, LoopInv, NEW t \in DOMAIN batch.at, t \in Nat,
         \A u \in DOMAIN body.at \cup DOMAIN batch.at : t <= u
  PROVE  Collect(coll, Value(body, t)) = kept[batch.at[t]]
<1>1. /\ DOMAIN body.at \in SUBSET Nat /\ coll \in Vector /\ kept[batch.at[t]] \in Vector
      /\ body \in InnerType(Rects)
  BY LoopTypes
<1>2. Before(t) = coll
  BY DEF Before, IsFirst
<1>3. Window(t) = DOMAIN body.at \cap {t}
  <2>1. ASSUME NEW u \in DOMAIN body.at PROVE Ends(t, u) <=> u = t
    <3>1. t <= u /\ u \in Nat
      BY <1>1
    <3>2. \A c \in DOMAIN batch.at : t <= c
      OBVIOUS
    <3>3. QED
      BY <3>1, <3>2 DEF Ends
  <2>2. QED
    BY <2>1 DEF Window
<1>4. PICK rank \in [DOMAIN body.at -> Nat] : Ranked(rank)
  BY DEF LoopInv, InOrder
<1>5. Fits(kept[batch.at[t]], coll, Window(t), body.at, rank)
  BY <1>2, <1>4 DEF Ranked
<1>6. PICK k \in Vector : k = kept[batch.at[t]]
  BY <1>1
<1>7. CASE Has(body, t)
  <2>1. Window(t) = {t} /\ t \in DOMAIN body.at
    BY <1>3, <1>7 DEF Has
  <2>2. body.at[t] \in Rects
    BY <1>1, <2>1, InnerFacts
  <2>3. PICK W \in SUBSET Nat : W = {t}
    OBVIOUS
  <2>4. Fits(k, coll, W, body.at, rank) /\ t \in W /\ \A u \in W : t <= u
    BY <1>5, <1>6, <2>1, <2>3
  <2>5. Fits(k, Append(coll, body.at[t]), W \ {t}, body.at, rank)
    BY <1>1, <2>2, <2>4, FitsNext
  <2>6. Append(coll, body.at[t]) \in Vector
    BY <1>1, <2>2 DEF Vector
  <2>7. PICK c \in Vector : c = Append(coll, body.at[t])
    BY <2>6
  <2>8. Fits(k, c, {}, body.at, rank)
    BY <2>3, <2>5, <2>7
  <2>9. k = c
    BY <2>8, FitsAll
  <2>10. k = Append(coll, body.at[t])
    BY <2>7, <2>9
  <2>11. Collect(coll, Value(body, t)) = Append(coll, body.at[t])
    BY <1>7, <2>2, TimeFacts DEF Collect, Value
  <2>12. QED
    BY <1>6, <2>10, <2>11
<1>8. CASE ~Has(body, t)
  <2>1. Window(t) = {}
    BY <1>3, <1>8 DEF Has
  <2>2. k = coll
    BY <1>1, <1>5, <1>6, <2>1, FitsAll
  <2>3. Collect(coll, Value(body, t)) = coll
    BY <1>8 DEF Collect, Value
  <2>4. QED
    BY <1>6, <2>2, <2>3
<1>9. QED
  BY <1>7, <1>8

(* The end of a vector: its answer is sent.                                *)
LEMMA EndOfVector ==
  ASSUME TypeOK, LoopInv, NEW t \in DOMAIN batch.at, t \in Nat,
         \A u \in DOMAIN body.at \cup DOMAIN batch.at : t <= u,
         DOMAIN body'.at = DOMAIN body.at \ {t}, body'.bound = body.bound,
         \A u \in DOMAIN body'.at : body'.at[u] = body.at[u],
         DOMAIN batch'.at = DOMAIN batch.at \ {t}, batch'.bound = batch.bound,
         \A b \in DOMAIN batch'.at : batch'.at[b] = batch.at[b],
         body.bound > t,
         loop' = Send(loop, batch.at[t], Collected(Collect(coll, Value(body, t)))),
         coll' = << >>, UNCHANGED <<item, loopTs, kept, pos>>
  PROVE  LoopInv'
<1>1. /\ DOMAIN body.at \in SUBSET Nat /\ DOMAIN batch.at \in SUBSET Nat
      /\ DOMAIN item.at \in SUBSET Nat
      /\ \A b \in DOMAIN batch.at : batch.at[b] \in Times
      /\ loop \in StreamType /\ kept \in [Times -> Vector] /\ body.bound \in Nat
  BY LoopTypes
<1>2. ClocksRight'
  BY EndClocks
<1>3. \A b \in DOMAIN batch'.at : b \in Nat /\ t < b
  <2>1. \A b \in DOMAIN batch'.at : b \in Nat /\ t <= b /\ t # b
    BY <1>1
  <2>2. QED
    BY <2>1
<1>4. \A u \in DOMAIN body'.at : u \in Nat /\ t < u
  <2>1. \A u \in DOMAIN body'.at : u \in Nat /\ t <= u /\ t # u
    BY <1>1
  <2>2. QED
    BY <2>1
<1>5. \A u \in DOMAIN item.at : u \in Nat /\ t < u
  <2>1. \A u \in DOMAIN item.at : u \in Nat /\ body.bound <= u
    BY <1>1 DEF LoopInv, ClocksRight
  <2>2. QED
    BY <1>1, <2>1
<1>6. \A u \in Nat, b \in DOMAIN batch'.at : t < u => (Ends(b, u)' <=> Ends(b, u))
  <2>1. ASSUME NEW u \in Nat, NEW b \in DOMAIN batch'.at, t < u PROVE Ends(b, u)' <=> Ends(b, u)
    <3>1. ~(u <= t)
      BY <2>1
    <3>2. QED
      BY <3>1 DEF Ends
  <2>2. QED
    BY <2>1
<1>7. Owned'
  <2>1. ASSUME NEW u \in DOMAIN item.at \cup DOMAIN body'.at PROVE \E b \in DOMAIN batch'.at : u <= b
    <3>1. u \in Nat /\ t < u /\ u \in DOMAIN item.at \cup DOMAIN body.at
      BY <1>4, <1>5
    <3>2. PICK b \in DOMAIN batch.at : u <= b
      BY <3>1 DEF LoopInv, Owned
    <3>3. b # t
      BY <3>1, <3>2
    <3>4. QED
      BY <3>2, <3>3
  <2>2. ASSUME NEW u \in DOMAIN item.at, NEW b, Ends(b, u)' PROVE item.at[u].of = batch'.at[b]
    <3>1. b \in DOMAIN batch'.at /\ b \in DOMAIN batch.at
      BY <2>2 DEF Ends
    <3>2. Ends(b, u)
      BY <1>5, <1>6, <2>2, <3>1
    <3>3. QED
      BY <3>1, <3>2 DEF LoopInv, Owned
  <2>3. QED
    BY <2>1, <2>2 DEF Owned
<1>8. InOrder'
  <2>1. PICK rank \in [DOMAIN body.at -> Nat] : Ranked(rank)
    BY DEF LoopInv, InOrder
  <2> DEFINE rank2 == [u \in DOMAIN body'.at |-> rank[u]]
  <2>2. rank2 \in [DOMAIN body'.at -> Nat] /\ \A u \in DOMAIN body'.at : rank2[u] = rank[u]
    BY <2>1
  <2> HIDE DEF rank2
  <2>3. ASSUME NEW b \in DOMAIN batch'.at
        PROVE  Fits(kept[batch'.at[b]], Before(b)', Window(b)', body'.at, rank2)
    <3>1. b \in DOMAIN batch.at /\ b \in Nat /\ t < b
      BY <1>3
    <3>2. Window(b)' = Window(b) /\ Window(b) \subseteq DOMAIN body'.at
      <4>1. ~Ends(b, t)
        <5>1. t <= t /\ ~(b <= t)
          BY <3>1
        <5>2. QED
          BY <5>1 DEF Ends
      <4>2. t \notin Window(b)
        BY <4>1 DEF Window
      <4>3. Window(b) \subseteq DOMAIN body'.at
        BY <4>2 DEF Window
      <4>4. QED
        BY <1>4, <1>6, <4>3 DEF Window
    <3>3. Before(b) = << >> /\ Before(b)' = << >>
      <4>1. ~(b <= t)
        BY <3>1
      <4>2. ~IsFirst(b)
        BY <4>1 DEF IsFirst
      <4>3. QED
        BY <4>2 DEF Before
    <3>4. Fits(kept[batch.at[b]], Before(b), Window(b), body.at, rank)
      BY <2>1, <3>1 DEF Ranked
    <3>5. \A u \in Window(b) : body'.at[u] = body.at[u] /\ rank2[u] = rank[u]
      BY <2>2, <3>2
    <3>6. Fits(kept[batch.at[b]], Before(b), Window(b), body'.at, rank2)
      BY <3>4, <3>5, FitsFrame
    <3>7. QED
      BY <3>2, <3>3, <3>6
  <2>4. QED
    BY <2>2, <2>3 DEF InOrder, Ranked
<1>9. Answers'
  <2>1. PICK s \in Times : s = batch.at[t]
    BY <1>1
  <2>2. PICK v : v = Collected(kept[s])
    OBVIOUS
  <2>3. loop' = Send(loop, s, v)
    BY <2>1, <2>2, WholeVector
  <2>4. v \in Vector \cup {NoPacket}
    BY <1>1, <2>2 DEF Collected
  <2>5. s \notin DOMAIN loop.at /\ loop.bound <= s /\ s <= pos["Begin"] /\ Pending(s)
    BY <2>1 DEF LoopInv, Answers, ClocksRight, Has, Pending
  <2>6. s \in Nat /\ loop.bound \in Nat /\ pos["Begin"] \in Nat /\ MaxTime \in Nat /\ s <= MaxTime
    BY LoopTypes, TimeFacts DEF Times
  <2>7. IsSent(loop', loop, s, v)
    BY <1>1, <2>3, <2>4, SendFacts
  <2>8. DOMAIN loop'.at = DOMAIN loop.at \cup (IF v = NoPacket THEN {} ELSE {s})
    BY <2>7 DEF IsSent
  <2>9. \A u \in DOMAIN loop.at : loop'.at[u] = loop.at[u]
    BY <2>7 DEF IsSent
  <2>10. v # NoPacket => loop'.at[s] = v
    BY <2>5, <2>7 DEF IsSent
  <2>11. loop'.bound = IF loop.bound > s THEN loop.bound ELSE IF s < MaxTime THEN s + 1 ELSE MaxTime
    BY <2>7 DEF IsSent
  <2>12. loop'.bound \in Nat /\ loop'.bound <= s + 1 /\ loop'.bound <= MaxTime
    BY <2>5, <2>6, <2>11
  <2>13. \A u : u # s => (Has(loop', u) <=> Has(loop, u)) /\ Value(loop', u) = Value(loop, u)
    BY <2>8, <2>9 DEF Has, Value
  <2>14. Value(loop', s) = Collected(kept[s])
    BY <2>2, <2>5, <2>8, <2>10 DEF Has, Value
  <2>15. \A u : Pending(u)' => Pending(u) /\ u # s
    <3>1. \A b \in DOMAIN batch'.at : b \in DOMAIN batch.at /\ b # t /\ batch'.at[b] = batch.at[b]
      OBVIOUS
    <3>2. \A b \in DOMAIN batch.at : b # t => batch.at[b] # s
      BY <2>1, OneEnd DEF LoopInv
    <3>3. QED
      BY <3>1, <3>2 DEF Pending
  <2>16. \A u : Pending(u) /\ u # s => Pending(u)'
    BY <2>1 DEF Pending
  <2>17. ASSUME NEW u \in Times, u <= pos["Begin"], ~Pending(u)'
         PROVE  Value(loop', u) = Collected(kept[u])
    <3>1. CASE u = s
      BY <2>14, <3>1
    <3>2. CASE u # s
      <4>1. Value(loop, u) = Collected(kept[u])
        BY <2>16, <2>17, <3>2 DEF LoopInv, Answers
      <4>2. QED
        BY <2>13, <3>2, <4>1
    <3>3. QED
      BY <3>1, <3>2
  <2>18. ASSUME NEW u \in Times, pos["Begin"] < u PROVE kept[u] = << >> /\ ~Has(loop', u)
    <3>1. u # s
      BY <2>5, <2>6, <2>18
    <3>2. QED
      BY <2>13, <2>18, <3>1 DEF LoopInv, Answers
  <2>19. ASSUME NEW b \in DOMAIN batch'.at
         PROVE  ~Has(loop', batch'.at[b]) /\ loop'.bound <= batch'.at[b]
    <3>1. b \in DOMAIN batch.at /\ t < b /\ batch'.at[b] = batch.at[b]
      BY <1>3
    <3>2. batch.at[t] < batch.at[b]
      BY <3>1 DEF LoopInv, ClocksRight
    <3>3. PICK w \in Times : w = batch.at[b]
      BY <1>1, <3>1
    <3>4. s < w /\ w \in Nat /\ s + 1 <= w /\ s # w
      <4>1. s < w /\ w \in Nat
        BY <2>1, <3>2, <3>3 DEF Times
      <4>2. QED
        BY <2>6, <4>1
    <3>5. ~Has(loop, w)
      BY <3>1, <3>3 DEF LoopInv, Answers
    <3>6. ~Has(loop', w)
      BY <2>13, <3>4, <3>5
    <3>7. loop'.bound <= w
      BY <2>6, <2>12, <3>4
    <3>8. QED
      BY <3>1, <3>3, <3>6, <3>7
  <2>20. loop'.bound <= pos["Begin"] + 1
    BY <2>5, <2>6, <2>12
  <2>21. (\A u \in Times : u <= pos["Begin"] /\ ~Pending(u) => Value(loop, u) = Collected(kept[u]))'
    <3>1. ASSUME NEW u \in Times, u <= pos'["Begin"], ~Pending(u)'
          PROVE  Value(loop', u) = Collected(kept'[u])
      BY <2>17, <3>1
    <3>2. QED
      BY <3>1
  <2>22. (\A u \in Times : pos["Begin"] < u => kept[u] = << >> /\ ~Has(loop, u))'
    BY <2>18
  <2>23. QED
    BY <2>19, <2>20, <2>21, <2>22 DEF Answers
<1>10. QED
  BY <1>2, <1>7, <1>8, <1>9 DEF LoopInv

(* A packet before the end of its vector is collected.                     *)
LEMMA MiddleOfVector ==
  ASSUME TypeOK, LoopInv, NEW t \in DOMAIN body.at, t \notin DOMAIN batch.at, t \in Nat,
         \A u \in DOMAIN body.at \cup DOMAIN batch.at : t <= u,
         DOMAIN body'.at = DOMAIN body.at \ {t}, body'.bound = body.bound,
         \A u \in DOMAIN body'.at : body'.at[u] = body.at[u],
         batch'.at = batch.at, batch'.bound = batch.bound,
         coll' = Append(coll, body.at[t]), UNCHANGED <<item, loopTs, kept, pos, loop>>
  PROVE  LoopInv'
<1>1. /\ DOMAIN body.at \in SUBSET Nat /\ DOMAIN batch.at \in SUBSET Nat
      /\ coll \in Vector /\ kept \in [Times -> Vector] /\ body \in InnerType(Rects)
      /\ \A b \in DOMAIN batch.at : batch.at[b] \in Times
  BY LoopTypes
<1>2. ClocksRight'
  BY EndClocks
<1>3. DOMAIN batch.at # {}
  BY DEF LoopInv, Owned
<1>4. Owned'
  BY <1>3 DEF LoopInv, Owned, Ends
<1>5. PICK e \in DOMAIN batch.at : \A c \in DOMAIN batch.at : e <= c
  BY <1>1, <1>3, LeastElement
<1>6. IsFirst(e) /\ \A b \in DOMAIN batch.at : b # e => ~IsFirst(b)
  <2>1. ASSUME NEW b \in DOMAIN batch.at, b # e PROVE ~(b <= e)
    <3>1. e <= b /\ e \in Nat /\ b \in Nat
      BY <1>1, <1>5
    <3>2. QED
      BY <2>1, <3>1
  <2>2. QED
    BY <1>5, <2>1 DEF IsFirst
<1>7. \A b : IsFirst(b)' <=> IsFirst(b)
  BY DEF IsFirst
<1>8. \A b, u : Ends(b, u)' <=> Ends(b, u)
  BY DEF Ends
<1>9. Ends(e, t) /\ \A b \in DOMAIN batch.at : b # e => ~Ends(b, t)
  <2>1. Ends(e, t)
    BY <1>5 DEF Ends
  <2>2. QED
    BY <2>1, OneEnd DEF LoopInv
<1>10. \A b : Window(b)' = Window(b) \ {t}
  BY <1>8 DEF Window
<1>11. body.at[t] \in Rects
  BY <1>1, InnerFacts
<1>12. InOrder'
  <2>1. PICK rank \in [DOMAIN body.at -> Nat] : Ranked(rank)
    BY DEF LoopInv, InOrder
  <2> DEFINE rank2 == [u \in DOMAIN body'.at |-> rank[u]]
  <2>2. rank2 \in [DOMAIN body'.at -> Nat] /\ \A u \in DOMAIN body'.at : rank2[u] = rank[u]
    BY <2>1
  <2> HIDE DEF rank2
  <2>3. ASSUME NEW b \in DOMAIN batch.at
        PROVE  Fits(kept[batch.at[b]], Before(b)', Window(b)', body'.at, rank2)
    <3>1. Fits(kept[batch.at[b]], Before(b), Window(b), body.at, rank)
      BY <2>1 DEF Ranked
    <3>2. Window(b) \in SUBSET Nat /\ Window(b)' \subseteq DOMAIN body'.at
      BY <1>1 DEF Window
    <3>3. Fits(kept[batch.at[b]], Before(b)', Window(b)', body.at, rank)
      <4>1. CASE b = e
        <5>1. Before(b) = coll /\ Before(b)' = Append(coll, body.at[t])
          BY <1>6, <1>7, <4>1 DEF Before
        <5>2. t \in Window(b) /\ \A u \in Window(b) : t <= u
          BY <1>9, <4>1 DEF Window
        <5>3. PICK k \in Vector : k = kept[batch.at[b]]
          BY <1>1
        <5>4. PICK W \in SUBSET Nat : W = Window(b)
          BY <3>2
        <5>5. Fits(k, coll, W, body.at, rank) /\ t \in W /\ \A u \in W : t <= u
          BY <3>1, <5>1, <5>2, <5>3, <5>4
        <5>6. Fits(k, Append(coll, body.at[t]), W \ {t}, body.at, rank)
          BY <1>1, <1>11, <5>5, FitsNext
        <5>7. QED
          BY <1>10, <5>1, <5>3, <5>4, <5>6
      <4>2. CASE b # e
        <5>1. Before(b)' = Before(b)
          BY <1>6, <1>7, <4>2 DEF Before
        <5>2. Window(b)' = Window(b)
          BY <1>9, <1>10, <4>2 DEF Window
        <5>3. QED
          BY <3>1, <5>1, <5>2
      <4>3. QED
        BY <4>1, <4>2
    <3>4. \A u \in Window(b)' : body'.at[u] = body.at[u] /\ rank2[u] = rank[u]
      BY <2>2, <3>2
    <3>5. QED
      BY <3>3, <3>4, FitsFrame
  <2>4. QED
    BY <2>2, <2>3 DEF InOrder, Ranked
<1>13. Answers'
  BY DEF LoopInv, Answers, Pending, Has, Value
<1>14. QED
  BY <1>2, <1>4, <1>12, <1>13 DEF LoopInv

(* EndLoop keeps the invariant.                                            *)
LEMMA EndLoopKeeps ==
  ASSUME TypeOK, LoopInv, EndLoop
  PROVE  LoopInv'
<1>1. UNCHANGED <<item, loopTs, kept, pos>>
  BY DEF EndLoop
<1> DEFINE t == Earliest2
           got == Collect(coll, Value(body, t))
<1>2. CASE /\ DOMAIN body.at \cup DOMAIN batch.at # {}
           /\ body.bound > t /\ batch.bound > t
           /\ IF Has(batch, t)
                THEN loop' = Send(loop, batch.at[t], Collected(got)) /\ coll' = Released(got)
                ELSE coll' = got /\ UNCHANGED loop
           /\ body' = Without(body, t) /\ batch' = Without(batch, t)
  <2>1. PICK s \in Nat : s = Earliest2
    <3>1. DOMAIN body.at \cup DOMAIN batch.at \in SUBSET Nat
      BY LoopTypes
    <3>2. QED
      BY <1>2, <3>1, MinIn DEF Earliest2
  <2>2. /\ s \in DOMAIN body.at \cup DOMAIN batch.at
        /\ \A u \in DOMAIN body.at \cup DOMAIN batch.at : s <= u
        /\ DOMAIN body'.at = DOMAIN body.at \ {s} /\ body'.bound = body.bound
        /\ \A u \in DOMAIN body'.at : body'.at[u] = body.at[u]
        /\ DOMAIN batch'.at = DOMAIN batch.at \ {s} /\ batch'.bound = batch.bound
        /\ \A b \in DOMAIN batch'.at : batch'.at[b] = batch.at[b]
    BY <1>2, <2>1, EndTakes
  <2>3. CASE s \in DOMAIN batch.at
    <3>1. /\ loop' = Send(loop, batch.at[s], Collected(Collect(coll, Value(body, s))))
          /\ coll' = << >> /\ body.bound > s
      BY <1>2, <2>1, <2>3 DEF Has, Released
    <3>2. QED
      BY <1>1, <2>2, <2>3, <3>1, EndOfVector
  <2>4. CASE s \notin DOMAIN batch.at
    <3>1. s \in DOMAIN body.at
      BY <2>2, <2>4
    <3>2. body.at[s] \in Rects
      <4>1. body \in InnerType(Rects)
        BY LoopTypes
      <4>2. QED
        BY <3>1, <4>1, InnerFacts
    <3>3. coll' = Append(coll, body.at[s]) /\ loop' = loop
      <4>1. coll' = Collect(coll, Value(body, s)) /\ loop' = loop
        BY <1>2, <2>1, <2>4 DEF Has
      <4>2. body.at[s] # NoPacket
        BY <3>2, TimeFacts
      <4>3. QED
        BY <3>1, <4>1, <4>2 DEF Collect, Value, Has
    <3>4. batch'.at = batch.at
      <4>1. batch \in InnerType(Times)
        BY LoopTypes
      <4>2. batch' = Without(batch, s) /\ batch.at \in [DOMAIN batch.at -> Times]
        BY <1>2, <2>1, <4>1, InnerFacts
      <4>3. batch'.at = [u \in DOMAIN batch.at \ {s} |-> batch.at[u]]
        BY <4>1, <4>2 DEF Without, InnerType
      <4>4. QED
        BY <2>4, <4>2, <4>3
    <3>5. QED
      BY <1>1, <2>2, <2>4, <3>1, <3>3, <3>4, MiddleOfVector
  <2>5. QED
    BY <2>3, <2>4
<1>3. CASE /\ Ended(body) /\ Ended(batch)
           /\ loop' = SetBound(loop, DoneTime) /\ UNCHANGED <<body, batch, coll>>
  <2>1. loop \in StreamType /\ DoneTime \in 1 .. DoneTime
    BY LoopTypes, TimeFacts
  <2>2. loop'.at = loop.at
    BY <1>3, <2>1, SetBoundFacts
  <2>3. item.bound # loopTs /\ batch.at = << >>
    <3>1. /\ body.bound = LoopDone /\ loopTs < LoopDone /\ body.bound <= item.bound
          /\ LoopDone \in Nat /\ loopTs \in Nat /\ item.bound \in Nat
      BY <1>3, ClockBelowDone, LoopTypes, LoopDoneNat DEF Ended, LoopInv, ClocksRight
    <3>2. QED
      BY <1>3, <3>1 DEF Ended
  <2>4. DOMAIN batch.at = {}
    BY <2>3
  <2>5. ClocksRight' /\ Owned'
    BY <1>1, <1>3 DEF LoopInv, ClocksRight, Owned, Ends, LoopDone
  <2>6. InOrder'
    <3>1. PICK rank \in [DOMAIN body.at -> Nat] : Ranked(rank)
      BY DEF LoopInv, InOrder
    <3>2. rank \in [DOMAIN body'.at -> Nat] /\ DOMAIN batch'.at = {}
      BY <1>3, <2>4
    <3>3. QED
      BY <3>2 DEF InOrder, Ranked
  <2>7. Answers'
    BY <1>1, <1>3, <2>2, <2>3, <2>4 DEF LoopInv, Answers, Pending, Has, Value
  <2>8. QED
    BY <2>5, <2>6, <2>7 DEF LoopInv
<1>4. QED
  BY <1>2, <1>3, Zenon DEF EndLoop, Earliest2

-----------------------------------------------------------------------------

(* The loop starts empty.                                                  *)
LEMMA LoopInit == Init => LoopInv
<1> SUFFICES ASSUME Init PROVE LoopInv
  OBVIOUS
<1>1. /\ item.at = << >> /\ item.bound = 0 /\ batch.at = << >> /\ batch.bound = 0
      /\ body.at = << >> /\ body.bound = 0 /\ loopTs = 0 /\ coll = << >>
      /\ loop.at = << >> /\ loop.bound = 1 /\ pos["Begin"] = 0
      /\ \A t \in Times : kept[t] = << >>
  BY TimeFacts DEF Init, NewInner, NewStream, Nodes, Times
<1>2. ClocksRight
  <2>1. PICK c \in Nat : c = Cardinality(Rects) + 1
    BY LoopDoneNat
  <2>2. 0 <= 0 * c
    OBVIOUS
  <2>3. QED
    BY <1>1, <2>1, <2>2 DEF ClocksRight
<1>3. Owned
  BY <1>1 DEF Owned, Ends
<1>4. InOrder
  <2>1. body.at \in [DOMAIN body.at -> Nat]
    BY <1>1
  <2>2. Ranked(body.at)
    BY <1>1 DEF Ranked
  <2>3. QED
    BY <2>1, <2>2 DEF InOrder
<1>5. Answers
  <2>1. \A t \in Times : Value(loop, t) = NoPacket /\ ~Has(loop, t) /\ Collected(kept[t]) = NoPacket
    BY <1>1 DEF Value, Has, Collected
  <2>2. QED
    BY <1>1, <2>1 DEF Answers
<1>6. QED
  BY <1>2, <1>3, <1>4, <1>5 DEF LoopInv

(* The other nodes leave the loop alone.                                   *)
LEMMA LoopFrame ==
  ASSUME LoopInv, UNCHANGED <<item, batch, body, loopTs, coll, kept, loop>>,
         pos'["Begin"] = pos["Begin"]
  PROVE  LoopInv'
<1>1. ClocksRight' /\ Owned'
  BY DEF LoopInv, ClocksRight, Owned, Ends, LoopDone
<1>2. InOrder'
  BY DEF LoopInv, InOrder, Ranked, Before, Window, Ends, IsFirst
<1>3. Answers'
  BY DEF LoopInv, Answers, Pending, Has, Value
<1>4. QED
  BY <1>1, <1>2, <1>3 DEF LoopInv

(* Every step keeps the invariant of the loop.                             *)
LEMMA StepLoop ==
  ASSUME TypeOK, NoOverlaps, LoopInv, [Next /\ UNCHANGED setting]_<<vars, setting>>
  PROVE  LoopInv'
<1>1. pos \in [Nodes -> 0 .. MaxTime]
  BY DEF TypeOK
<1>2. CASE Detect
  <2>1. pos'["Begin"] = pos["Begin"]
    BY <1>1, <1>2 DEF Detect, Runs, Passes, Nodes
  <2>2. QED
    BY <1>2, <2>1, LoopFrame DEF Detect, inner
<1>3. CASE Associate
  <2>1. pos'["Begin"] = pos["Begin"]
    BY <1>1, <1>3 DEF Associate, Runs, Passes, Nodes
  <2>2. QED
    BY <1>3, <2>1, LoopFrame DEF Associate, inner
<1>4. CASE BeginLoop
  BY <1>4, BeginLoopKeeps
<1>5. CASE Body
  BY <1>5, BodyKeeps
<1>6. CASE EndLoop
  BY <1>6, EndLoopKeeps
<1>7. CASE RunLoopback
  BY <1>7, LoopFrame DEF RunLoopback, inner
<1>8. CASE AddImage
  BY <1>8, LoopFrame DEF AddImage, inner
<1>9. CASE CloseInput
  BY <1>9, LoopFrame DEF CloseInput, inner
<1>10. CASE UNCHANGED <<vars, setting>>
  BY <1>10, LoopFrame DEF vars, inner
<1>11. QED
  BY <1>2, <1>3, <1>4, <1>5, <1>6, <1>7, <1>8, <1>9, <1>10 DEF Next

(* The vectors that come out of the loop are complete: what the graph      *)
(* gives for an image is exactly what the body found in that image, in its *)
(* order, although BeginLoop and EndLoop meet by a time of their own and   *)
(* the body drops what it likes.                                           *)
THEOREM BatchesStayComplete == Spec => []BatchesComplete
<1> DEFINE Inv == TypeOK /\ NoOverlaps /\ LoopInv
<1>1. Init => Inv
  BY InitTypes, LoopInit DEF Init, NewStream, NoOverlaps
<1>2. Inv /\ [Next /\ UNCHANGED setting]_<<vars, setting>> => Inv'
  BY StepTypes, StepLoop
<1>3. Inv => BatchesComplete
  BY AnswersComplete DEF LoopInv
<1>4. QED
  BY <1>1, <1>2, <1>3, PTL DEF Spec

-----------------------------------------------------------------------------
(* PreviousLoopback.                                                       *)

(* What a stream says of the time u is final.                              *)
Fixed(s, u) == u < s.bound \/ (u = MaxTime /\ Has(s, u))
Regular(s) == \A u \in DOMAIN s.at : Fixed(s, u) /\ u <= s.bound

(* Nothing that is final changes.                                          *)
Grows(s, new) ==
  /\ s \in StreamType /\ new \in StreamType
  /\ DOMAIN s.at \subseteq DOMAIN new.at /\ s.bound <= new.bound
  /\ \A u \in DOMAIN s.at : new.at[u] = s.at[u]
  /\ \A u \in DOMAIN new.at : u \in DOMAIN s.at \/ s.bound <= u

(* n images came, at every other time.                                     *)
ImageTimes(im, n) ==
  /\ IsFiniteSet(DOMAIN im.at) /\ Cardinality(DOMAIN im.at) = n
  /\ DOMAIN im.at = {Ts(k) : k \in 1 .. n}
  /\ im.bound = 2 * n + 1 \/ im.bound = DoneTime
ImagesRight(im) == \E n \in 0 .. MaxFrames : ImageTimes(im, n)

(* Up to where the handler has given a stream to the calculator, from the  *)
(* time that it is ready for and the one that it processed last.           *)
Read(r, l) == IF r # Unset THEN r - 1 ELSE l

HandlerRight(s, r, l) ==
  /\ Fixed(s, Read(r, l))
  /\ r \in Times => Fixed(s, r)
  /\ r = DoneTime => s.bound = DoneTime

(* Every image that was read is the last one that c noted or earlier.      *)
MainRead(im, c, read) ==
  /\ c.prevNonEmpty = 0 \/ c.prevNonEmpty <= read
  /\ \A u \in DOMAIN im.at : u > c.prevNonEmpty => u > read

MainNoted(im, c) ==
  /\ c.prevNonEmpty \in {0} \cup DOMAIN im.at /\ c.prevNonEmpty <= c.prevMain
  /\ c.prevMain < im.bound
  /\ \A u \in DOMAIN im.at : u > c.prevNonEmpty => u > c.prevMain

(* A spec waits for the image before its own, or for nothing.              *)
SpecRight(im, c, x) ==
  /\ x.ts <= c.prevMain
  /\ \/ x.loop = Unset /\ x.ts \notin DOMAIN im.at
     \/ x.ts \in DOMAIN im.at /\ x.loop = x.ts - 2 /\ x.ts <= c.prevNonEmpty

(* What was sent is for earlier specs.                                     *)
SpecsRight(im, c, p) ==
  /\ \A i \in 1 .. Len(c.specs) :
       /\ SpecRight(im, c, c.specs[i])
       /\ p.bound <= c.specs[i].ts /\ \A u \in DOMAIN p.at : u < c.specs[i].ts
  /\ \A i, j \in 1 .. Len(c.specs) : i < j => c.specs[i].ts < c.specs[j].ts
  /\ p.bound <= c.prevMain + 1
  /\ \A u \in DOMAIN p.at : u <= c.prevMain /\ p.at[u] # NoPacket

(* A candidate is what LOOP says of its time.                              *)
CandsRight(lp, c) ==
  /\ \A i \in 1 .. Len(c.loops) :
       /\ c.loops[i].ts <= c.prevLoop /\ Fixed(lp, c.loops[i].ts)
       /\ c.loops[i].value = Value(lp, c.loops[i].ts)
  /\ \A i, j \in 1 .. Len(c.loops) : i < j => c.loops[i].ts < c.loops[j].ts
  /\ Fixed(lp, c.prevLoop)

(* A packet of LOOP that was dropped is too old for every spec.            *)
Dropped(c, u) ==
  /\ u < c.prevNonEmpty
  /\ \A i \in 1 .. Len(c.specs) : c.specs[i].loop # Unset => u < c.specs[i].loop
PacketsKept(lp, c) ==
  \A u \in DOMAIN lp.at : u <= c.prevLoop =>
    (\E i \in 1 .. Len(c.loops) : c.loops[i].ts = u) \/ Dropped(c, u)

(* The specs that are gone were answered with the hands of the image       *)
(* before.                                                                 *)
Matched(im, lp, c, p) ==
  \A u \in DOMAIN im.at : u <= c.prevNonEmpty /\ (\A i \in 1 .. Len(c.specs) : c.specs[i].ts # u) =>
    Fixed(lp, u - 2) /\ Value(p, u) = Value(lp, u - 2)

CalcRight(im, lp, c, p) ==
  /\ MainNoted(im, c) /\ SpecsRight(im, c, p)
  /\ CandsRight(lp, c) /\ PacketsKept(lp, c) /\ Matched(im, lp, c, p)

LoopbackInv ==
  /\ ImagesRight(image) /\ Regular(loop)
  /\ HandlerRight(image, ready["main"], last["main"])
  /\ HandlerRight(loop, ready["loop"], last["loop"])
  /\ MainRead(image, calc, Read(ready["main"], last["main"]))
  /\ Read(ready["loop"], last["loop"]) <= calc.prevLoop
  /\ CalcRight(image, loop, calc, prev)

(* The images are not at the end of time.                                  *)
LEMMA ImageFacts ==
  ASSUME NEW im \in StreamType, ImagesRight(im)
  PROVE  /\ \A u \in DOMAIN im.at : u \in Nat /\ u < MaxTime /\ u < im.bound
         /\ Regular(im)
<1>1. PICK n \in 0 .. MaxFrames : ImageTimes(im, n)
  BY DEF ImagesRight
<1>2. im.bound \in 1 .. DoneTime
  BY StreamFacts
<1>3. ASSUME NEW u \in DOMAIN im.at
      PROVE  u \in Nat /\ u < MaxTime /\ u < im.bound
  <2>1. PICK k \in 1 .. n : u = Ts(k)
    BY <1>1 DEF ImageTimes
  <2>2. u = 2 * k
    BY <2>1 DEF Ts
  <2>3. im.bound = 2 * n + 1 \/ im.bound = DoneTime
    BY <1>1 DEF ImageTimes
  <2>4. QED
    BY <2>2, <2>3, TimeFacts
<1>4. QED
  BY <1>2, <1>3 DEF Regular, Fixed

(* Before a time that is final, all are.                                   *)
LEMMA FixedDown ==
  ASSUME NEW s \in StreamType, Regular(s), NEW u \in Int, Fixed(s, u), NEW w \in Int, w <= u
  PROVE  Fixed(s, w)
<1>1. s.bound \in Nat
  BY StreamFacts
<1>2. CASE u < s.bound
  BY <1>1, <1>2 DEF Fixed
<1>3. CASE u \in DOMAIN s.at
  <2>1. u <= s.bound
    BY <1>3 DEF Regular
  <2>2. w = u \/ w < s.bound
    BY <1>1, <2>1
  <2>3. QED
    BY <2>2 DEF Fixed
<1>4. QED
  BY <1>2, <1>3 DEF Fixed, Has

(* What is final stays so, and so does the packet, or that there is none.  *)
LEMMA GrowsFixed ==
  ASSUME NEW s, NEW new, Grows(s, new), NEW u \in Int, Fixed(s, u)
  PROVE  Fixed(new, u) /\ Value(new, u) = Value(s, u) /\ (u \in DOMAIN new.at <=> u \in DOMAIN s.at)
<1>1. s.bound \in Nat /\ new.bound \in Nat /\ s.bound <= new.bound
  BY StreamFacts DEF Grows
<1>2. Fixed(new, u)
  BY <1>1 DEF Fixed, Has, Grows
<1>3. u \in DOMAIN new.at <=> u \in DOMAIN s.at
  BY <1>1 DEF Grows, Fixed, Has
<1>4. Value(new, u) = Value(s, u)
  BY <1>3 DEF Grows, Value, Has
<1>5. QED
  BY <1>2, <1>3, <1>4

(* The handler stays right.                                                *)
LEMMA GrowsHandler ==
  ASSUME NEW s, NEW new, Grows(s, new), NEW r \in {Unset} \cup 1 .. DoneTime,
         NEW l \in {Unset} \cup Times, HandlerRight(s, r, l)
  PROVE  HandlerRight(new, r, l)
<1>1. Read(r, l) \in Int /\ (r \in Times => r \in Int)
  BY TimeFacts DEF Read, Times
<1>2. Fixed(new, Read(r, l)) /\ (r \in Times => Fixed(new, r))
  BY <1>1, GrowsFixed DEF HandlerRight
<1>3. r = DoneTime => new.bound = DoneTime
  <2>1. s.bound <= new.bound /\ new.bound \in 1 .. DoneTime /\ s.bound \in Nat
    BY StreamFacts DEF Grows
  <2>2. QED
    BY <2>1, TimeFacts DEF HandlerRight
<1>4. QED
  BY <1>2, <1>3 DEF HandlerRight

(* The numbers that the calculator keeps.                                  *)
LEMMA CalcNumbers ==
  ASSUME NEW c \in CalcType
  PROVE  /\ c.prevMain \in Nat /\ c.prevNonEmpty \in Nat /\ c.prevLoop \in Int
         /\ Len(c.specs) \in Nat /\ Len(c.loops) \in Nat
         /\ \A i \in 1 .. Len(c.specs) :
              /\ c.specs[i] \in SpecType /\ c.specs[i].ts \in Times
              /\ c.specs[i].ts \in Nat /\ c.specs[i].loop \in Int
         /\ \A i \in 1 .. Len(c.loops) :
              /\ c.loops[i] \in GivenType /\ c.loops[i].ts \in Nat
              /\ c.loops[i].value \in Vector \cup {NoPacket}
<1>1. /\ c.specs \in Seq(SpecType) /\ c.loops \in Seq(GivenType)
      /\ c.prevMain \in Nat /\ c.prevNonEmpty \in Nat /\ c.prevLoop \in Int
  BY CalcFacts, TimeFacts
<1>2. PICK specs \in Seq(SpecType) : specs = c.specs
  BY <1>1
<1>3. PICK loops \in Seq(GivenType) : loops = c.loops
  BY <1>1
<1>4. Len(specs) \in Nat /\ \A i \in 1 .. Len(specs) : specs[i] \in SpecType
  OBVIOUS
<1>5. Len(loops) \in Nat /\ \A i \in 1 .. Len(loops) : loops[i] \in GivenType
  OBVIOUS
<1>6. \A x \in SpecType : x.ts \in Times /\ x.ts \in Nat /\ x.loop \in Int
  BY TimeFacts DEF SpecType, Times
<1>7. \A x \in GivenType : x.ts \in Nat /\ x.value \in Vector \cup {NoPacket}
  BY TimeFacts DEF GivenType
<1>8. QED
  BY <1>1, <1>2, <1>3, <1>4, <1>5, <1>6, <1>7

(* What comes for MAIN is later than anything the calculator knows.        *)
LEMMA ImageGrows ==
  ASSUME NEW im, NEW new, Grows(im, new), ImagesRight(im), ImagesRight(new),
         NEW lp, NEW c \in CalcType, NEW p, NEW read \in Int,
         Fixed(im, read), MainRead(im, c, read), CalcRight(im, lp, c, p)
  PROVE  MainRead(new, c, read) /\ CalcRight(new, lp, c, p)
<1>1. /\ im \in StreamType /\ new \in StreamType /\ DOMAIN im.at \subseteq DOMAIN new.at
      /\ \A u \in DOMAIN new.at : u \in DOMAIN im.at \/ im.bound <= u
  BY DEF Grows
<1>2. im.bound \in Nat /\ new.bound \in Nat /\ im.bound <= new.bound
  BY <1>1, StreamFacts DEF Grows
<1>3. c.prevMain \in Nat /\ c.prevNonEmpty \in Nat /\ \A i \in 1 .. Len(c.specs) : c.specs[i].ts \in Nat
  BY CalcNumbers
<1>4. \A u \in DOMAIN new.at : u \in Nat
  BY <1>1, ImageFacts
<1>5. c.prevMain < im.bound /\ c.prevNonEmpty <= c.prevMain
  BY DEF CalcRight, MainNoted
<1>6. read < im.bound
  <2>1. ~Has(im, MaxTime)
    BY <1>1, ImageFacts, TimeFacts DEF Has
  <2>2. QED
    BY <2>1 DEF Fixed
<1>7. MainRead(new, c, read)
  BY <1>1, <1>2, <1>4, <1>6 DEF MainRead
<1>8. MainNoted(new, c)
  BY <1>1, <1>2, <1>3, <1>4, <1>5 DEF MainNoted, CalcRight
<1>9. \A i \in 1 .. Len(c.specs) : SpecRight(new, c, c.specs[i])
  <2> TAKE i \in 1 .. Len(c.specs)
  <2>1. SpecRight(im, c, c.specs[i])
    BY DEF CalcRight, SpecsRight
  <2>2. c.specs[i].ts \in DOMAIN new.at => c.specs[i].ts \in DOMAIN im.at
    <3>1. c.specs[i].ts <= c.prevMain
      BY <2>1 DEF SpecRight
    <3>2. QED
      BY <1>1, <1>2, <1>3, <1>5, <3>1
  <2>3. QED
    BY <1>1, <2>1, <2>2 DEF SpecRight
<1>10. SpecsRight(new, c, p)
  BY <1>9 DEF SpecsRight, CalcRight
<1>11. Matched(new, lp, c, p)
  <2>1. \A u \in DOMAIN new.at : u <= c.prevNonEmpty => u \in DOMAIN im.at
    BY <1>1, <1>2, <1>3, <1>4, <1>5
  <2>2. QED
    BY <2>1 DEF Matched, CalcRight
<1>12. QED
  BY <1>7, <1>8, <1>10, <1>11 DEF CalcRight

(* So is what comes for LOOP.                                              *)
LEMMA LoopGrows ==
  ASSUME NEW lp, NEW new, Grows(lp, new), Regular(lp), NEW im \in StreamType,
         NEW c \in CalcType, NEW p, CalcRight(im, lp, c, p)
  PROVE  CalcRight(im, new, c, p)
<1>1. /\ lp \in StreamType /\ new \in StreamType /\ DOMAIN lp.at \subseteq DOMAIN new.at
      /\ \A u \in DOMAIN new.at : u \in Nat
  BY StreamFacts DEF Grows, Times
<1>2. c.prevLoop \in Int /\ \A i \in 1 .. Len(c.loops) : c.loops[i].ts \in Int
  BY CalcNumbers
<1>3. CandsRight(new, c)
  <2>1. CandsRight(lp, c)
    BY DEF CalcRight
  <2>2. Fixed(new, c.prevLoop)
    BY <1>2, <2>1, GrowsFixed DEF CandsRight
  <2>3. \A i \in 1 .. Len(c.loops) :
          /\ Fixed(new, c.loops[i].ts) /\ c.loops[i].value = Value(new, c.loops[i].ts)
    BY <1>2, <2>1, GrowsFixed DEF CandsRight
  <2>4. QED
    BY <2>1, <2>2, <2>3 DEF CandsRight
<1>4. PacketsKept(new, c)
  <2>1. Fixed(lp, c.prevLoop) /\ PacketsKept(lp, c)
    BY DEF CalcRight, CandsRight
  <2>2. ASSUME NEW u \in DOMAIN new.at, u <= c.prevLoop PROVE u \in DOMAIN lp.at
    <3>1. Fixed(lp, u)
      BY <1>1, <1>2, <2>1, <2>2, FixedDown
    <3>2. QED
      BY <1>1, <3>1, GrowsFixed
  <2>3. QED
    BY <2>1, <2>2 DEF PacketsKept
<1>5. Matched(im, new, c, p)
  <2>1. \A u \in DOMAIN im.at : u - 2 \in Int
    BY StreamFacts DEF Times
  <2>2. Matched(im, lp, c, p)
    BY DEF CalcRight
  <2>3. QED
    BY <2>1, <2>2, GrowsFixed DEF Matched
<1>6. QED
  BY <1>3, <1>4, <1>5 DEF CalcRight

(* A packet or a bound that comes after the bound.                         *)
LEMMA SendGrows ==
  ASSUME NEW s \in StreamType, NEW t \in Times, NEW v \in Vector \cup {NoPacket}, s.bound <= t
  PROVE  Grows(s, Send(s, t, v)) /\ (Regular(s) => Regular(Send(s, t, v)))
<1>1. PICK new : new = Send(s, t, v) /\ IsSent(new, s, t, v)
  BY SendFacts
<1>2. s.bound \in Nat /\ t \in Nat /\ DOMAIN s.at \subseteq Times
  BY StreamFacts DEF Times
<1>3. new \in StreamType /\ new.bound \in Nat
  BY <1>1, StreamFacts DEF IsSent
<1>4. DOMAIN s.at \subseteq DOMAIN new.at /\ \A u \in DOMAIN new.at : u \in DOMAIN s.at \/ u = t
  BY <1>1 DEF IsSent
<1>5. new.bound = IF t < MaxTime THEN t + 1 ELSE MaxTime
  BY <1>1, <1>2 DEF IsSent
<1>6. s.bound <= new.bound
  BY <1>2, <1>5, TimeFacts DEF Times
<1>7. Grows(s, new)
  BY <1>1, <1>2, <1>3, <1>4, <1>6 DEF Grows, IsSent
<1>8. ASSUME Regular(s) PROVE Regular(new)
  <2> SUFFICES ASSUME NEW u \in DOMAIN new.at PROVE Fixed(new, u) /\ u <= new.bound
    BY DEF Regular
  <2>1. CASE u \in DOMAIN s.at
    <3>1. u \in Nat /\ u \in Int /\ Fixed(s, u) /\ u <= s.bound
      BY <1>2, <1>8, <2>1 DEF Regular, Times
    <3>2. Fixed(new, u)
      BY <1>7, <3>1, GrowsFixed
    <3>3. QED
      BY <1>2, <1>3, <1>6, <3>1, <3>2
  <2>2. CASE u = t
    BY <1>2, <1>5, <2>2, TimeFacts DEF Fixed, Has, Times
  <2>3. QED
    BY <1>4, <2>1, <2>2
<1>9. QED
  BY <1>1, <1>7, <1>8

(* A bound.                                                                *)
LEMMA SetBoundGrows ==
  ASSUME NEW s \in StreamType, NEW b \in 1 .. DoneTime
  PROVE  Grows(s, SetBound(s, b)) /\ (Regular(s) => Regular(SetBound(s, b)))
<1>1. PICK new : new = SetBound(s, b)
  OBVIOUS
<1>2. new \in StreamType /\ new.at = s.at /\ new.bound = IF b > s.bound THEN b ELSE s.bound
  BY <1>1, SetBoundFacts
<1>3. s.bound \in Nat /\ DOMAIN s.at \subseteq Times /\ b \in Nat
  BY StreamFacts
<1>4. s.bound <= new.bound /\ new.bound \in Nat
  BY <1>2, <1>3
<1>5. Grows(s, new)
  BY <1>2, <1>4 DEF Grows
<1>6. ASSUME Regular(s) PROVE Regular(new)
  <2>1. \A u \in DOMAIN s.at : u \in Int /\ u \in Nat
    BY <1>3 DEF Times
  <2>2. \A u \in DOMAIN s.at : Fixed(new, u)
    BY <1>5, <1>6, <2>1, GrowsFixed DEF Regular
  <2>3. \A u \in DOMAIN s.at : u <= new.bound
    BY <1>3, <1>4, <1>6, <2>1 DEF Regular
  <2>4. QED
    BY <1>2, <2>2, <2>3 DEF Regular
<1>7. QED
  BY <1>1, <1>5, <1>6

(* PreviousHands follows.                                                  *)
LEMMA LoopbackAnswers == ASSUME TypeOK, LoopbackInv PROVE PreviousHands
<1>1. image \in StreamType /\ loop \in StreamType /\ prev \in StreamType /\ calc \in CalcType
  BY DEF TypeOK
<1>2. CalcRight(image, loop, calc, prev) /\ ImagesRight(image) /\ Regular(loop)
  BY DEF LoopbackInv
<1> SUFFICES ASSUME NEW k \in Frames, prev.bound > Ts(k), Has(image, Ts(k))
             PROVE  /\ k = 1 => ~Has(prev, Ts(k))
                    /\ k > 1 => loop.bound > Ts(k - 1) /\ Value(prev, Ts(k)) = Value(loop, Ts(k - 1))
  BY DEF PreviousHands
<1>3. PICK u \in Nat : u = Ts(k) /\ u = 2 * k
  BY TimeFacts DEF Ts, Frames
<1>4. k \in Nat /\ k <= MaxFrames /\ u \in DOMAIN image.at /\ prev.bound > u
  BY <1>3, TimeFacts DEF Frames, Has
<1>5. prev.bound \in Nat /\ loop.bound \in Nat /\ DOMAIN loop.at \subseteq Times
  BY <1>1, StreamFacts
<1>6. calc.prevMain \in Nat /\ calc.prevNonEmpty \in Nat /\ \A i \in 1 .. Len(calc.specs) : calc.specs[i].ts \in Nat
  BY <1>1, CalcNumbers
<1>7. u <= calc.prevMain
  <2>1. prev.bound <= calc.prevMain + 1
    BY <1>2 DEF CalcRight, SpecsRight
  <2>2. QED
    BY <1>4, <1>5, <1>6, <2>1
<1>8. u <= calc.prevNonEmpty
  BY <1>2, <1>4, <1>6, <1>7 DEF CalcRight, MainNoted
<1>9. \A i \in 1 .. Len(calc.specs) : calc.specs[i].ts # u
  <2>1. \A i \in 1 .. Len(calc.specs) : prev.bound <= calc.specs[i].ts
    BY <1>2 DEF CalcRight, SpecsRight
  <2>2. QED
    BY <1>4, <1>5, <1>6, <2>1
<1>10. Fixed(loop, u - 2) /\ Value(prev, u) = Value(loop, u - 2)
  BY <1>2, <1>4, <1>8, <1>9 DEF CalcRight, Matched
<1>11. ASSUME k = 1 PROVE ~Has(prev, u)
  <2>1. u - 2 = 0 /\ 0 \notin Times
    BY <1>3, <1>11 DEF Times
  <2>2. Value(prev, u) = NoPacket
    BY <1>5, <1>10, <2>1 DEF Value, Has
  <2>3. \A w \in DOMAIN prev.at : prev.at[w] # NoPacket
    BY <1>2 DEF CalcRight, SpecsRight
  <2>4. QED
    BY <2>2, <2>3 DEF Value, Has
<1>12. ASSUME k > 1 PROVE loop.bound > Ts(k - 1) /\ Value(prev, u) = Value(loop, Ts(k - 1))
  <2>1. u - 2 = Ts(k - 1)
    BY <1>3, <1>4 DEF Ts
  <2>2. u - 2 < MaxTime
    BY <1>3, <1>4, TimeFacts
  <2>3. loop.bound > u - 2
    BY <1>3, <1>5, <1>10, <2>2, TimeFacts DEF Fixed
  <2>4. QED
    BY <1>10, <2>1, <2>3
<1>13. QED
  BY <1>3, <1>11, <1>12

(* A stream that becomes ready has no packet before that time.             *)
IsLatched(st, r, l, new) ==
  /\ HandlerRight(st, new, l)
  /\ Read(r, l) <= Read(new, l)
  /\ Read(new, l) = Read(r, l) \/ Read(new, l) < MaxTime
  /\ \A u \in DOMAIN st.at : u > Read(r, l) => u > Read(new, l)

(* What ReadyTime does to one stream.                                      *)
LEMMA LatchFacts ==
  ASSUME TypeOK, NEW s \in Sides, Regular(Side(s)), HandlerRight(Side(s), ready[s], last[s])
  PROVE  IsLatched(Side(s), ready[s], last[s], Latched[s])
<1>1. /\ Side(s) \in StreamType /\ last[s] \in {Unset} \cup Times
      /\ ready[s] \in {Unset} \cup 1 .. DoneTime
  BY DEF TypeOK, Side
<1>2. PICK st \in StreamType : st = Side(s)
  BY <1>1
<1>3. PICK l \in {Unset} \cup Times : l = last[s]
  BY <1>1
<1>4. PICK r \in {Unset} \cup 1 .. DoneTime : r = ready[s]
  BY <1>1
<1>5. l \in Int /\ r \in Int /\ l <= MaxTime
  BY TimeFacts DEF Times
<1>6. PICK m \in 1 .. DoneTime :
        /\ m = MinTimestampOrBound(st, l) /\ m \in Queue(st, l) \cup {st.bound}
        /\ \A u \in DOMAIN st.at : u > l => m <= u
  BY <1>5, QueueFacts
<1> DEFINE t == IF Has(st, m) THEN m ELSE m - 1
           after == IF l > Unstarted THEN l ELSE Unstarted
           new == IF r # Unset THEN r
                  ELSE IF m = DoneTime /\ l >= MaxTime THEN DoneTime
                  ELSE IF t > after THEN t ELSE Unset
<1>7. Latched[s] = new
  BY <1>2, <1>3, <1>4, <1>6, ReadyFacts DEF ReadyTime
<1>8. /\ DOMAIN st.at \subseteq Times /\ st.bound \in Nat
      /\ \A u \in DOMAIN st.at : u \in Nat /\ u <= MaxTime
  BY StreamFacts DEF Times
<1>9. Regular(st) /\ HandlerRight(st, r, l)
  BY <1>2, <1>3, <1>4
<1>10. m \in DOMAIN st.at \/ m = st.bound
  BY <1>6 DEF Queue
<1>11. PICK w \in Int : w = new
  BY <1>5, TimeFacts
<1>12. CASE r # Unset
  <2>1. w = r
    BY <1>11, <1>12
  <2>2. IsLatched(st, r, l, w)
    BY <1>5, <1>9, <2>1, TimeFacts DEF IsLatched, Read
  <2>3. QED
    BY <1>2, <1>3, <1>4, <1>7, <1>11, <2>2
<1>13. CASE r = Unset /\ m = DoneTime /\ l >= MaxTime
  <2>1. w = DoneTime /\ l = MaxTime
    BY <1>5, <1>11, <1>13, TimeFacts
  <2>2. st.bound = DoneTime
    BY <1>8, <1>10, <1>13, TimeFacts
  <2>3. Read(w, l) = MaxTime /\ Read(r, l) = MaxTime
    BY <1>13, <2>1, TimeFacts DEF Read
  <2>4. HandlerRight(st, w, l)
    BY <2>1, <2>2, <2>3, TimeFacts DEF HandlerRight, Fixed, Times
  <2>5. IsLatched(st, r, l, w)
    BY <2>3, <2>4, TimeFacts DEF IsLatched
  <2>6. QED
    BY <1>2, <1>3, <1>4, <1>7, <1>11, <2>5
<1>14. CASE r = Unset /\ ~(m = DoneTime /\ l >= MaxTime) /\ t > after
  <2>1. w = t /\ w > l /\ w > 0 /\ w <= m
    BY <1>5, <1>6, <1>11, <1>14, TimeFacts
  <2>2. Fixed(st, w) /\ w <= st.bound
    <3>1. CASE m \in DOMAIN st.at
      BY <1>9, <2>1, <3>1 DEF Regular, Has
    <3>2. CASE m \notin DOMAIN st.at
      BY <1>8, <1>10, <2>1, <3>2 DEF Has, Fixed
    <3>3. QED
      BY <3>1, <3>2
  <2>3. w # DoneTime
    <3>1. CASE m \in DOMAIN st.at
      BY <1>8, <2>1, <3>1, TimeFacts
    <3>2. CASE m \notin DOMAIN st.at
      BY <1>6, <2>1, <3>2, TimeFacts DEF Has
    <3>3. QED
      BY <3>1, <3>2
  <2>4. Read(w, l) = w - 1 /\ Read(r, l) = l
    BY <1>14, <2>1, TimeFacts DEF Read
  <2>5. Fixed(st, w - 1)
    BY <1>8, <2>2 DEF Fixed
  <2>6. HandlerRight(st, w, l)
    BY <2>2, <2>3, <2>4, <2>5 DEF HandlerRight
  <2>7. \A u \in DOMAIN st.at : u > l => u > w - 1
    BY <1>6, <1>8, <2>1
  <2>8. w - 1 < MaxTime
    BY <1>6, <2>1, <2>3, TimeFacts
  <2>9. l <= w - 1
    BY <1>5, <2>1
  <2>10. IsLatched(st, r, l, w)
    BY <2>4, <2>6, <2>7, <2>8, <2>9 DEF IsLatched
  <2>11. QED
    BY <1>2, <1>3, <1>4, <1>7, <1>11, <2>10
<1>15. CASE r = Unset /\ ~(m = DoneTime /\ l >= MaxTime) /\ ~(t > after)
  <2>1. w = Unset
    BY <1>11, <1>15
  <2>2. IsLatched(st, r, l, w)
    BY <1>5, <1>9, <1>15, <2>1 DEF IsLatched, Read
  <2>3. QED
    BY <1>2, <1>3, <1>4, <1>7, <1>11, <2>2
<1>16. QED
  BY <1>12, <1>13, <1>14, <1>15

(* What the handler gives of one stream to the calculator: the next packet *)
(* after what has been read, or that there is none up to some time.        *)
IsFilled(st, read, new, g) ==
  /\ g \in GivenType
  /\ read \in Int /\ new \in Int /\ read <= new
  /\ new <= g.ts \/ (new = read /\ read = MaxTime)
  /\ Fixed(st, g.ts)
  /\ g.value = NoPacket =>
       /\ g.ts < st.bound
       /\ \A u \in DOMAIN st.at : ~(read < u /\ u <= g.ts)
  /\ g.value # NoPacket =>
       /\ g.ts \in DOMAIN st.at /\ st.at[g.ts] = g.value
       /\ read < g.ts /\ new = g.ts
       /\ \A u \in DOMAIN st.at : ~(read < u /\ u < g.ts)

NewReady(s) == IF Latched[s] = Selected THEN Unset ELSE Latched[s]
NewLast(s) == IF Latched[s] \in {Unset, DoneTime} THEN last[s] ELSE Latched[s]

(* What FillInputSet does to one stream.                                   *)
LEMMA FillFacts ==
  ASSUME TypeOK, Selected < DoneTime, NEW s \in Sides, Regular(Side(s)),
         HandlerRight(Side(s), Latched[s], last[s])
  PROVE  /\ IsFilled(Side(s), Read(Latched[s], last[s]), Read(NewReady(s), NewLast(s)), Filled(s))
         /\ HandlerRight(Side(s), NewReady(s), NewLast(s))
<1>1. /\ Side(s) \in StreamType /\ last[s] \in {Unset} \cup Times
      /\ Latched[s] \in {Unset} \cup 1 .. DoneTime
  BY ReadyFacts
<1>2. PICK st \in StreamType : st = Side(s)
  BY <1>1
<1>3. PICK l \in {Unset} \cup Times : l = last[s]
  BY <1>1
<1>4. PICK r \in {Unset} \cup 1 .. DoneTime : r = Latched[s]
  BY <1>1
<1>5. PICK x \in Times : x = Selected
  BY SelectedFacts, TimeFacts DEF Times
<1>6. l \in Int /\ r \in Int /\ x \in Nat /\ 1 <= x /\ x <= MaxTime /\ x # Unset
  BY TimeFacts DEF Times
<1>7. Regular(st) /\ HandlerRight(st, r, l)
  BY <1>2, <1>3, <1>4
<1>8. PICK g : g = Filled(s)
  OBVIOUS
<1>9. g \in GivenType
  BY <1>8, FilledTypes
<1> DEFINE p == IF r = x THEN x ELSE Read(r, l)
<1>10. p \in Int
  BY <1>6, TimeFacts DEF Read
<1>11. PICK m \in 1 .. DoneTime :
        /\ m = MinTimestampOrBound(st, p) /\ m \in Queue(st, p) \cup {st.bound} /\ m <= st.bound
        /\ \A u \in DOMAIN st.at : u > p => m <= u
  BY <1>10, QueueFacts
<1>12. g = IF r = x /\ Has(st, x) THEN [ts |-> x, value |-> st.at[x]]
           ELSE [ts |-> m - 1, value |-> NoPacket]
  BY <1>2, <1>3, <1>4, <1>5, <1>8, <1>11 DEF Filled, Read
<1>13. /\ st.bound \in Nat /\ \A u \in DOMAIN st.at : u \in Nat /\ u <= MaxTime /\ st.at[u] \in Vector
       /\ st.bound <= DoneTime
  BY StreamFacts, TimeFacts DEF Times
<1>14. NoPacket \notin Vector
  BY HandGraphAssumption DEF Vector
<1>15. NewReady(s) = (IF r = x THEN Unset ELSE r) /\ NewLast(s) = IF r \in {Unset, DoneTime} THEN l ELSE r
  BY <1>3, <1>4, <1>5 DEF NewReady, NewLast
<1>16. PICK nr \in {Unset} \cup 1 .. DoneTime : nr = IF r = x THEN Unset ELSE r
  OBVIOUS
<1>17. PICK nl \in {Unset} \cup Times : nl = IF r \in {Unset, DoneTime} THEN l ELSE r
  BY TimeFacts DEF Times
<1>18. Read(nr, nl) = p
  <2>1. CASE r = x
    BY <1>6, <1>16, <1>17, <2>1, TimeFacts DEF Read
  <2>2. CASE r # x
    BY <1>16, <1>17, <2>2 DEF Read
  <2>3. QED
    BY <2>1, <2>2
<1>19. Read(r, l) \in Int /\ Read(r, l) <= p /\ (r = x => Read(r, l) = x - 1)
  BY <1>6, TimeFacts DEF Read
<1>20. HandlerRight(st, nr, nl)
  <2>1. CASE r = x
    BY <1>7, <1>16, <1>18, <2>1, TimeFacts DEF HandlerRight, Times
  <2>2. CASE r # x
    BY <1>7, <1>16, <1>18, <2>2 DEF HandlerRight
  <2>3. QED
    BY <2>1, <2>2
<1>21. IsFilled(st, Read(r, l), p, g)
  <2>1. CASE r = x /\ x \in DOMAIN st.at
    <3>1. g.ts = x /\ g.value = st.at[x] /\ g.value # NoPacket
      BY <1>12, <1>13, <1>14, <2>1 DEF Has
    <3>2. Read(r, l) = x - 1 /\ p = x
      BY <1>19, <2>1
    <3>3. Fixed(st, x)
      BY <1>7, <2>1 DEF HandlerRight
    <3>4. \A u \in DOMAIN st.at : ~(x - 1 < u /\ u < x)
      BY <1>6, <1>13
    <3>5. QED
      BY <1>6, <1>9, <2>1, <3>1, <3>2, <3>3, <3>4 DEF IsFilled
  <2>2. CASE ~(r = x /\ x \in DOMAIN st.at)
    <3>1. g.ts = m - 1 /\ g.value = NoPacket
      BY <1>12, <2>2 DEF Has
    <3>2. m - 1 \in Nat /\ m - 1 < st.bound
      BY <1>11, <1>13
    <3>3. Fixed(st, m - 1)
      BY <3>2 DEF Fixed
    <3>4. ASSUME NEW u \in DOMAIN st.at, Read(r, l) < u, u <= m - 1 PROVE FALSE
      <4>1. u \in Nat /\ ~(u > p)
        BY <1>11, <1>13, <3>4
      <4>2. CASE r = x
        <5>1. u = x
          BY <1>6, <1>19, <3>4, <4>1, <4>2
        <5>2. QED
          BY <2>2, <4>2, <5>1
      <4>3. CASE r # x
        BY <1>10, <3>4, <4>1, <4>3
      <4>4. QED
        BY <4>2, <4>3
    <3>5. p <= m - 1 \/ (p = Read(r, l) /\ p = MaxTime)
      <4>1. CASE r = x
        <5>1. Fixed(st, x) /\ ~Has(st, x)
          BY <1>7, <2>2, <4>1 DEF HandlerRight, Has
        <5>2. x < st.bound
          BY <5>1 DEF Fixed
        <5>3. x < m
          BY <1>6, <1>11, <4>1, <5>2 DEF Queue
        <5>4. QED
          BY <1>6, <4>1, <5>3
      <4>2. CASE r # x
        <5>1. p = Read(r, l)
          BY <4>2
        <5>2. Fixed(st, p)
          BY <1>7, <5>1 DEF HandlerRight
        <5>3. p < st.bound \/ p = MaxTime
          BY <5>2 DEF Fixed
        <5>4. p < st.bound => p < m
          BY <1>10, <1>11 DEF Queue
        <5>5. QED
          BY <1>10, <5>1, <5>3, <5>4
      <4>3. QED
        BY <4>1, <4>2
    <3>6. QED
      BY <1>9, <1>10, <1>19, <3>1, <3>2, <3>3, <3>4, <3>5 DEF IsFilled
  <2>3. QED
    BY <2>1, <2>2
<1> HIDE DEF p
<1>22. QED
  BY <1>2, <1>3, <1>4, <1>8, <1>15, <1>16, <1>17, <1>18, <1>20, <1>21

(* The spec of a MAIN packet.                                              *)
SpecOf(c, m) == [ts |-> m.ts, loop |-> IF m.value = NoPacket THEN Unset ELSE c.prevNonEmpty]

(* The elements of a queue after one more.                                 *)
LEMMA Appended ==
  ASSUME NEW T, NEW q \in Seq(T), NEW x \in T
  PROVE  /\ Len(Append(q, x)) = Len(q) + 1
         /\ \A i \in 1 .. Len(q) + 1 :
              Append(q, x)[i] = IF i = Len(q) + 1 THEN x ELSE q[i]
OBVIOUS

(* An image that is new waits for the one before it.                       *)
LEMMA ImageBefore ==
  ASSUME NEW im \in StreamType, ImagesRight(im), NEW t \in DOMAIN im.at,
         NEW w \in {0} \cup DOMAIN im.at, w < t,
         \A u \in DOMAIN im.at : u > w => u >= t
  PROVE  w = t - 2
<1>1. PICK n \in 0 .. MaxFrames : DOMAIN im.at = {Ts(k) : k \in 1 .. n}
  BY DEF ImagesRight, ImageTimes
<1>2. PICK k \in 1 .. n : t = 2 * k
  BY <1>1 DEF Ts
<1>3. n \in Nat /\ k \in Nat
  BY TimeFacts
<1>4. CASE k = 1
  <2>1. w = 0
    <3>1. ASSUME w \in DOMAIN im.at PROVE FALSE
      <4>1. PICK j \in 1 .. n : w = 2 * j
        BY <1>1, <3>1 DEF Ts
      <4>2. QED
        BY <1>2, <1>4, <4>1
    <3>2. QED
      BY <3>1
  <2>2. QED
    BY <1>2, <1>4, <2>1
<1>5. CASE k > 1
  <2>1. k - 1 \in 1 .. n /\ Ts(k - 1) = 2 * k - 2
    BY <1>3, <1>5 DEF Ts
  <2>2. 2 * k - 2 \in DOMAIN im.at
    BY <1>1, <2>1
  <2>3. ~(2 * k - 2 > w)
    BY <1>2, <1>3, <2>2
  <2>4. w \in DOMAIN im.at
    BY <1>3, <1>5, <2>3
  <2>5. PICK j \in 1 .. n : w = 2 * j
    BY <1>1, <2>4 DEF Ts
  <2>6. QED
    BY <1>2, <1>3, <2>3, <2>5
<1>6. QED
  BY <1>3, <1>4, <1>5

(* A MAIN packet, or a bound, is noted after all before it.                *)
LEMMA NoteMainKeeps ==
  ASSUME NEW im \in StreamType, ImagesRight(im), NEW lp \in StreamType,
         NEW c \in CalcType, NEW p \in StreamType,
         NEW read, NEW new, NEW m, IsFilled(im, read, new, m),
         MainRead(im, c, read), CalcRight(im, lp, c, p)
  PROVE  MainRead(im, NoteMain(c, m), new) /\ CalcRight(im, lp, NoteMain(c, m), p)
<1>1. /\ m \in GivenType /\ m.ts \in 0 .. MaxTime /\ m.ts \in Nat
      /\ read \in Int /\ new \in Int /\ read <= new
      /\ new <= m.ts \/ new = read
  BY TimeFacts DEF IsFilled, GivenType
<1>2. \A u \in DOMAIN im.at : u \in Nat /\ u < MaxTime /\ u < im.bound
  BY ImageFacts
<1>3. /\ c.prevMain \in Nat /\ c.prevNonEmpty \in Nat /\ Len(c.specs) \in Nat
      /\ \A i \in 1 .. Len(c.specs) : c.specs[i].ts \in Nat /\ c.specs[i].loop \in Int
  BY CalcNumbers
<1>4. p.bound \in Nat /\ (\A u \in DOMAIN p.at : u \in Nat) /\ im.bound \in Nat
  BY StreamFacts DEF Times
<1>5. MainNoted(im, c) /\ SpecsRight(im, c, p) /\ CandsRight(lp, c)
      /\ PacketsKept(lp, c) /\ Matched(im, lp, c, p)
  BY DEF CalcRight
<1>6. CASE m.ts <= c.prevMain
  <2>1. NoteMain(c, m) = c
    BY <1>1, <1>6, NoteMainFacts
  <2>2. ASSUME NEW u \in DOMAIN im.at, u > c.prevNonEmpty PROVE u > new
    <3>1. u > read /\ u > c.prevMain /\ u \in Nat
      BY <1>2, <1>5, <2>2 DEF MainRead, MainNoted
    <3>2. QED
      BY <1>1, <1>3, <1>6, <3>1
  <2>3. MainRead(im, c, new)
    BY <1>1, <1>3, <2>2 DEF MainRead
  <2>4. QED
    BY <2>1, <2>3
<1>7. CASE m.ts > c.prevMain
  <2>1. PICK d \in CalcType : d = NoteMain(c, m)
    BY <1>1, NoteMainFacts
  <2>2. PICK x \in SpecType : x = SpecOf(c, m)
    <3>1. m.ts \in Times
      BY <1>1, <1>3, <1>7, TimeFacts DEF Times
    <3>2. c.prevNonEmpty \in Unset .. MaxTime /\ Unset \in Unset .. MaxTime
      BY CalcFacts, TimeFacts
    <3>3. (IF m.value = NoPacket THEN Unset ELSE c.prevNonEmpty) \in Unset .. MaxTime
      BY <3>2
    <3>4. SpecOf(c, m) \in SpecType
      BY <3>1, <3>3 DEF SpecOf, SpecType
    <3>5. QED
      BY <3>4
  <2>3. x.ts = m.ts /\ x.loop = IF m.value = NoPacket THEN Unset ELSE c.prevNonEmpty
    BY <2>2 DEF SpecOf
  <2>4. /\ d.loops = c.loops /\ d.prevLoop = c.prevLoop /\ d.specs = Append(c.specs, x)
        /\ d.prevMain = m.ts
        /\ d.prevNonEmpty = IF m.value = NoPacket THEN c.prevNonEmpty ELSE m.ts
    BY <1>1, <1>7, <2>1, <2>2, NoteMainFacts DEF SpecOf
  <2>5. PICK n \in Nat : n = Len(c.specs)
    BY <1>3
  <2>6. /\ Len(d.specs) = n + 1
        /\ d.specs[n + 1] = x /\ \A i \in 1 .. n : d.specs[i] = c.specs[i]
    <3>1. c.specs \in Seq(SpecType)
      BY CalcFacts
    <3>2. QED
      BY <2>2, <2>4, <2>5, <3>1, Appended
  <2>7. \A i \in 1 .. n + 1 : i \in 1 .. n \/ i = n + 1
    BY <2>5
  <2>8. \A u \in DOMAIN im.at : u > c.prevNonEmpty => u >= m.ts /\ (m.value = NoPacket => u > m.ts)
    <3> SUFFICES ASSUME NEW u \in DOMAIN im.at, u > c.prevNonEmpty
                 PROVE  u >= m.ts /\ (m.value = NoPacket => u > m.ts)
      OBVIOUS
    <3>1. u \in Nat /\ u > read
      BY <1>2 DEF MainRead
    <3>2. CASE m.value = NoPacket
      BY <1>1, <3>1, <3>2 DEF IsFilled
    <3>3. CASE m.value # NoPacket
      BY <1>1, <3>1, <3>3 DEF IsFilled
    <3>4. QED
      BY <3>2, <3>3
  <2>9. c.prevNonEmpty <= c.prevMain /\ c.prevNonEmpty < m.ts
    BY <1>1, <1>3, <1>5, <1>7 DEF MainNoted
  <2>10. m.ts < im.bound /\ (m.value # NoPacket => m.ts \in DOMAIN im.at)
    <3>1. CASE m.value = NoPacket
      BY <3>1 DEF IsFilled
    <3>2. CASE m.value # NoPacket
      BY <1>2, <3>2 DEF IsFilled
    <3>3. QED
      BY <3>1, <3>2
  <2>11. MainRead(im, d, new)
    <3>1. CASE m.value = NoPacket
      <4>1. \A u \in DOMAIN im.at : u > c.prevNonEmpty => u > new
        BY <1>1, <1>2, <2>8, <3>1 DEF MainRead
      <4>2. QED
        BY <1>1, <1>3, <2>4, <3>1, <4>1 DEF MainRead
    <3>2. CASE m.value # NoPacket
      <4>1. new = m.ts
        BY <3>2 DEF IsFilled
      <4>2. QED
        BY <1>1, <2>4, <3>2, <4>1 DEF MainRead
    <3>3. QED
      BY <3>1, <3>2
  <2>12. MainNoted(im, d)
    <3>1. CASE m.value = NoPacket
      <4>1. c.prevNonEmpty \in {0} \cup DOMAIN im.at
        BY <1>5 DEF MainNoted
      <4>2. c.prevNonEmpty <= m.ts
        BY <1>1, <1>3, <2>9
      <4>3. QED
        BY <2>4, <2>8, <2>10, <3>1, <4>1, <4>2 DEF MainNoted
    <3>2. CASE m.value # NoPacket
      BY <1>1, <2>4, <2>10, <3>2 DEF MainNoted
    <3>3. QED
      BY <3>1, <3>2
  <2>13. SpecsRight(im, d, p)
    <3>1. ASSUME NEW i \in 1 .. n
          PROVE  /\ SpecRight(im, d, c.specs[i]) /\ c.specs[i].ts < m.ts
                 /\ p.bound <= c.specs[i].ts /\ \A u \in DOMAIN p.at : u < c.specs[i].ts
      <4>1. /\ SpecRight(im, c, c.specs[i])
            /\ p.bound <= c.specs[i].ts /\ \A u \in DOMAIN p.at : u < c.specs[i].ts
        BY <1>5, <2>5 DEF SpecsRight
      <4>2. c.specs[i].ts <= c.prevMain /\ c.specs[i].ts \in Nat
        BY <1>3, <2>5, <4>1 DEF SpecRight
      <4>3. c.specs[i].ts < m.ts /\ c.specs[i].ts <= d.prevMain
        BY <1>1, <1>3, <1>7, <2>4, <4>2
      <4>4. c.specs[i].ts <= c.prevNonEmpty => c.specs[i].ts <= d.prevNonEmpty
        BY <1>1, <1>3, <2>4, <4>2, <4>3
      <4>5. QED
        BY <4>1, <4>3, <4>4 DEF SpecRight
    <3>2. p.bound <= m.ts /\ \A u \in DOMAIN p.at : u < m.ts /\ p.at[u] # NoPacket
      <4>1. p.bound <= c.prevMain + 1 /\ \A u \in DOMAIN p.at : u <= c.prevMain /\ p.at[u] # NoPacket
        BY <1>5 DEF SpecsRight
      <4>2. QED
        BY <1>1, <1>3, <1>4, <1>7, <4>1
    <3>3. SpecRight(im, d, x)
      <4>1. CASE m.value = NoPacket
        <5>1. m.ts \notin DOMAIN im.at
          BY <1>1, <2>8, <2>9, <4>1
        <5>2. QED
          BY <1>1, <2>3, <2>4, <4>1, <5>1 DEF SpecRight
      <4>2. CASE m.value # NoPacket
        <5>1. c.prevNonEmpty = m.ts - 2
          <6>1. c.prevNonEmpty \in {0} \cup DOMAIN im.at
            BY <1>5 DEF MainNoted
          <6>2. QED
            BY <2>8, <2>9, <2>10, <4>2, <6>1, ImageBefore
        <5>2. QED
          BY <1>1, <2>3, <2>4, <2>10, <4>2, <5>1 DEF SpecRight
      <4>3. QED
        BY <4>1, <4>2
    <3>4. \A i \in 1 .. n + 1 :
            /\ SpecRight(im, d, d.specs[i])
            /\ p.bound <= d.specs[i].ts /\ \A u \in DOMAIN p.at : u < d.specs[i].ts
      BY <2>3, <2>6, <2>7, <3>1, <3>2, <3>3
    <3>5. \A i, j \in 1 .. n + 1 : i < j => d.specs[i].ts < d.specs[j].ts
      <4> SUFFICES ASSUME NEW i \in 1 .. n + 1, NEW j \in 1 .. n + 1, i < j
                   PROVE  d.specs[i].ts < d.specs[j].ts
        OBVIOUS
      <4>1. i \in 1 .. n
        BY <2>5
      <4>2. CASE j \in 1 .. n
        BY <1>5, <2>5, <2>6, <4>1, <4>2 DEF SpecsRight
      <4>3. CASE j = n + 1
        BY <2>3, <2>6, <3>1, <4>1, <4>3
      <4>4. QED
        BY <2>7, <4>2, <4>3
    <3>6. p.bound <= d.prevMain + 1 /\ \A u \in DOMAIN p.at : u <= d.prevMain /\ p.at[u] # NoPacket
      BY <1>1, <1>4, <2>4, <3>2
    <3>7. QED
      BY <2>6, <3>4, <3>5, <3>6 DEF SpecsRight
  <2>14. CandsRight(lp, d)
    BY <1>5, <2>4 DEF CandsRight
  <2>15. PacketsKept(lp, d)
    <3> SUFFICES ASSUME NEW u \in DOMAIN lp.at, u <= c.prevLoop
                 PROVE  (\E i \in 1 .. Len(c.loops) : c.loops[i].ts = u) \/ Dropped(d, u)
      BY <2>4 DEF PacketsKept
    <3>1. CASE \E i \in 1 .. Len(c.loops) : c.loops[i].ts = u
      BY <3>1
    <3>2. CASE Dropped(c, u)
      <4>1. u < c.prevNonEmpty /\ \A i \in 1 .. n : c.specs[i].loop # Unset => u < c.specs[i].loop
        BY <2>5, <3>2 DEF Dropped
      <4>2. u < d.prevNonEmpty
        <5>1. CASE m.value = NoPacket
          BY <2>4, <4>1, <5>1
        <5>2. CASE m.value # NoPacket
          <6>1. d.prevNonEmpty = m.ts /\ c.prevNonEmpty < m.ts /\ m.ts \in Nat
            BY <1>1, <2>4, <2>9, <5>2
          <6>2. u \in Int
            BY StreamFacts DEF Times
          <6>3. QED
            BY <1>3, <4>1, <6>1, <6>2
        <5>3. QED
          BY <5>1, <5>2
      <4>3. x.loop # Unset => u < x.loop
        BY <2>3, <4>1
      <4>4. QED
        BY <2>6, <2>7, <4>1, <4>2, <4>3 DEF Dropped
    <3>3. QED
      BY <1>5, <3>1, <3>2 DEF PacketsKept
  <2>16. Matched(im, lp, d, p)
    <3> SUFFICES ASSUME NEW u \in DOMAIN im.at, u <= d.prevNonEmpty,
                        \A i \in 1 .. n + 1 : d.specs[i].ts # u
                 PROVE  Fixed(lp, u - 2) /\ Value(p, u) = Value(lp, u - 2)
      BY <2>6 DEF Matched
    <3>1. \A i \in 1 .. n : c.specs[i].ts # u
      BY <2>5, <2>6
    <3>2. u # m.ts
      BY <2>3, <2>5, <2>6
    <3>3. u <= c.prevNonEmpty
      BY <1>1, <1>2, <1>3, <2>4, <2>8, <3>2
    <3>4. QED
      BY <1>5, <2>5, <3>1, <3>3 DEF Matched
  <2>17. QED
    BY <2>1, <2>11, <2>12, <2>13, <2>14, <2>15, <2>16 DEF CalcRight
<1>8. QED
  BY <1>1, <1>3, <1>6, <1>7

(* A LOOP packet, or a bound, too.                                         *)
LEMMA NoteLoopKeeps ==
  ASSUME NEW im, NEW lp \in StreamType, NEW c \in CalcType, NEW p,
         NEW read, NEW new, NEW l, IsFilled(lp, read, new, l),
         \A u \in DOMAIN lp.at : u > c.prevLoop => u > read,
         read = MaxTime => read <= c.prevLoop, CalcRight(im, lp, c, p)
  PROVE  new <= NoteLoop(c, l).prevLoop /\ CalcRight(im, lp, NoteLoop(c, l), p)
<1>1. /\ l \in GivenType /\ l.ts \in Nat
      /\ read \in Int /\ new \in Int /\ read <= new
      /\ new <= l.ts \/ (new = read /\ read = MaxTime)
  BY TimeFacts DEF IsFilled, GivenType
<1>2. c.prevLoop \in Int /\ Len(c.loops) \in Nat
      /\ \A i \in 1 .. Len(c.loops) : c.loops[i].ts \in Nat
  BY CalcNumbers
<1>3. MainNoted(im, c) /\ SpecsRight(im, c, p) /\ CandsRight(lp, c)
      /\ PacketsKept(lp, c) /\ Matched(im, lp, c, p)
  BY DEF CalcRight
<1>4. CASE l.ts <= c.prevLoop
  <2>1. NoteLoop(c, l) = c
    BY <1>1, <1>4, NoteLoopFacts
  <2>2. new <= c.prevLoop
    BY <1>1, <1>2, <1>4
  <2>3. QED
    BY <2>1, <2>2
<1>5. CASE l.ts > c.prevLoop
  <2>1. PICK d \in CalcType : d = NoteLoop(c, l)
    BY <1>1, NoteLoopFacts
  <2>2. /\ d.specs = c.specs /\ d.prevMain = c.prevMain /\ d.prevNonEmpty = c.prevNonEmpty
        /\ d.loops = Append(c.loops, l) /\ d.prevLoop = l.ts
    BY <1>1, <1>5, <2>1, NoteLoopFacts
  <2>3. PICK n \in Nat : n = Len(c.loops)
    BY <1>2
  <2>4. /\ Len(d.loops) = n + 1
        /\ d.loops[n + 1] = l /\ \A i \in 1 .. n : d.loops[i] = c.loops[i]
    <3>1. c.loops \in Seq(GivenType)
      BY CalcFacts
    <3>2. QED
      BY <1>1, <2>2, <2>3, <3>1, Appended
  <2>5. \A i \in 1 .. n + 1 : i \in 1 .. n \/ i = n + 1
    BY <2>3
  <2>6. \A u \in DOMAIN lp.at : u \in Nat
    BY StreamFacts DEF Times
  <2>7. \A u \in DOMAIN lp.at : u <= l.ts /\ u > c.prevLoop => u = l.ts
    <3> SUFFICES ASSUME NEW u \in DOMAIN lp.at, u <= l.ts, u > c.prevLoop PROVE u = l.ts
      OBVIOUS
    <3>1. u \in Nat /\ u > read
      BY <2>6
    <3>2. CASE l.value = NoPacket
      BY <3>1, <3>2 DEF IsFilled
    <3>3. CASE l.value # NoPacket
      BY <1>1, <3>1, <3>3 DEF IsFilled
    <3>4. QED
      BY <3>2, <3>3
  <2>8. l.value = Value(lp, l.ts)
    <3>1. CASE l.value = NoPacket
      <4>1. l.ts \notin DOMAIN lp.at
        BY <1>1, <1>2, <1>5, <3>1 DEF IsFilled
      <4>2. QED
        BY <3>1, <4>1 DEF Value, Has
    <3>2. CASE l.value # NoPacket
      BY <3>2 DEF Value, Has, IsFilled
    <3>3. QED
      BY <3>1, <3>2
  <2>9. CandsRight(lp, d)
    <3>1. ASSUME NEW i \in 1 .. n
          PROVE  /\ c.loops[i].ts < l.ts /\ Fixed(lp, c.loops[i].ts)
                 /\ c.loops[i].value = Value(lp, c.loops[i].ts)
      <4>1. /\ c.loops[i].ts <= c.prevLoop /\ Fixed(lp, c.loops[i].ts)
            /\ c.loops[i].value = Value(lp, c.loops[i].ts)
        BY <1>3, <2>3 DEF CandsRight
      <4>2. c.loops[i].ts \in Nat
        BY <1>2, <2>3
      <4>3. QED
        BY <1>1, <1>2, <1>5, <4>1, <4>2
    <3>2. Fixed(lp, l.ts)
      BY DEF IsFilled
    <3>3. \A i \in 1 .. n + 1 :
            /\ d.loops[i].ts <= l.ts /\ Fixed(lp, d.loops[i].ts)
            /\ d.loops[i].value = Value(lp, d.loops[i].ts)
      <4> SUFFICES ASSUME NEW i \in 1 .. n + 1
                   PROVE  /\ d.loops[i].ts <= l.ts /\ Fixed(lp, d.loops[i].ts)
                          /\ d.loops[i].value = Value(lp, d.loops[i].ts)
        OBVIOUS
      <4>1. CASE i \in 1 .. n
        <5>1. c.loops[i].ts \in Nat /\ c.loops[i].ts < l.ts
          BY <1>2, <2>3, <3>1, <4>1
        <5>2. c.loops[i].ts <= l.ts
          BY <1>1, <5>1
        <5>3. QED
          BY <2>4, <3>1, <4>1, <5>2
      <4>2. CASE i = n + 1
        BY <1>1, <2>4, <2>8, <3>2, <4>2
      <4>3. QED
        BY <2>5, <4>1, <4>2
    <3>4. \A i, j \in 1 .. n + 1 : i < j => d.loops[i].ts < d.loops[j].ts
      <4> SUFFICES ASSUME NEW i \in 1 .. n + 1, NEW j \in 1 .. n + 1, i < j
                   PROVE  d.loops[i].ts < d.loops[j].ts
        OBVIOUS
      <4>1. i \in 1 .. n
        BY <2>3
      <4>2. CASE j \in 1 .. n
        BY <1>3, <2>3, <2>4, <4>1, <4>2 DEF CandsRight
      <4>3. CASE j = n + 1
        BY <2>4, <3>1, <4>1, <4>3
      <4>4. QED
        BY <2>5, <4>2, <4>3
    <3>5. QED
      BY <2>2, <2>4, <3>2, <3>3, <3>4 DEF CandsRight
  <2>10. PacketsKept(lp, d)
    <3> SUFFICES ASSUME NEW u \in DOMAIN lp.at, u <= l.ts
                 PROVE  (\E i \in 1 .. n + 1 : d.loops[i].ts = u) \/ Dropped(d, u)
      BY <2>2, <2>4 DEF PacketsKept
    <3>1. CASE u > c.prevLoop
      <4>1. u = l.ts /\ n + 1 \in 1 .. n + 1
        BY <2>3, <2>7, <3>1
      <4>2. QED
        BY <2>4, <4>1
    <3>2. CASE u <= c.prevLoop
      <4>1. (\E i \in 1 .. n : c.loops[i].ts = u) \/ Dropped(c, u)
        BY <1>3, <2>3, <3>2 DEF PacketsKept
      <4>2. Dropped(c, u) => Dropped(d, u)
        BY <2>2 DEF Dropped
      <4>3. (\E i \in 1 .. n : c.loops[i].ts = u) => \E i \in 1 .. n + 1 : d.loops[i].ts = u
        BY <2>3, <2>4
      <4>4. QED
        BY <4>1, <4>2, <4>3
    <3>3. QED
      BY <1>2, <2>6, <3>1, <3>2
  <2>11. MainNoted(im, d) /\ SpecsRight(im, d, p) /\ Matched(im, lp, d, p)
    BY <1>3, <2>2 DEF MainNoted, SpecsRight, SpecRight, Matched
  <2>12. new <= d.prevLoop
    BY <1>1, <1>2, <1>5, <2>2
  <2>13. QED
    BY <2>1, <2>9, <2>10, <2>11, <2>12 DEF CalcRight
<1>6. QED
  BY <1>1, <1>2, <1>4, <1>5

(* new is what is left of q when k elements have been taken.               *)
IsRest(new, q, k) ==
  /\ Len(new) = Len(q) - k
  /\ \A i \in 1 .. Len(q) - k : new[i] = q[i + k]

(* The elements of a queue without the first.                              *)
LEMMA TailRest ==
  ASSUME NEW T, NEW q \in Seq(T), q # << >>
  PROVE  Len(q) \in Nat /\ Len(q) >= 1 /\ Head(q) = q[1] /\ Head(q) \in T /\ IsRest(Tail(q), q, 1)
BY DEF IsRest

(* All of them.                                                            *)
LEMMA AllRest == ASSUME NEW T, NEW q \in Seq(T) PROVE IsRest(q, q, 0)
BY DEF IsRest

SameTimes(c, d) ==
  d.prevMain = c.prevMain /\ d.prevNonEmpty = c.prevNonEmpty /\ d.prevLoop = c.prevLoop

(* What is left of the candidates is right.                                *)
LEMMA CandsRest ==
  ASSUME NEW lp, NEW c \in CalcType, NEW d, NEW k \in {0, 1}, SameTimes(c, d),
         IsRest(d.loops, c.loops, k), CandsRight(lp, c)
  PROVE  CandsRight(lp, d)
<1>1. PICK n \in Nat : n = Len(c.loops)
  BY CalcNumbers
<1>2. Len(d.loops) = n - k /\ \A i \in 1 .. n - k : i + k \in 1 .. n /\ d.loops[i] = c.loops[i + k]
  BY <1>1 DEF IsRest
<1>3. \A i, j \in 1 .. n - k : i < j => i + k < j + k
  OBVIOUS
<1>4. QED
  BY <1>1, <1>2, <1>3 DEF CandsRight, SameTimes

(* A candidate that is older than the first spec is too old for all.       *)
LEMMA DropCand ==
  ASSUME NEW im, NEW lp \in StreamType, NEW c \in CalcType, NEW d \in CalcType, NEW p \in StreamType,
         CalcRight(im, lp, c, p), c.specs # << >>, c.loops # << >>,
         c.specs[1].loop > c.loops[1].ts,
         SameTimes(c, d), d.specs = c.specs, IsRest(d.loops, c.loops, 1)
  PROVE  CalcRight(im, lp, d, p)
<1>1. MainNoted(im, c) /\ SpecsRight(im, c, p) /\ CandsRight(lp, c)
      /\ PacketsKept(lp, c) /\ Matched(im, lp, c, p)
  BY DEF CalcRight
<1>2. MainNoted(im, d) /\ SpecsRight(im, d, p) /\ Matched(im, lp, d, p)
  BY <1>1 DEF SameTimes, MainNoted, SpecsRight, SpecRight, Matched
<1>3. CandsRight(lp, d)
  BY <1>1, CandsRest
<1>4. PICK n \in Nat : n = Len(c.loops)
  BY CalcNumbers
<1>5. Len(d.loops) = n - 1 /\ \A i \in 1 .. n - 1 : d.loops[i] = c.loops[i + 1]
  BY <1>4 DEF IsRest
<1>6. PICK k \in Nat : k = Len(c.specs) /\ k >= 1
  <2>1. c.specs \in Seq(SpecType)
    BY CalcFacts
  <2>2. QED
    BY <2>1, TailRest
<1>7. \A i \in 1 .. k : c.specs[i].ts \in Nat /\ c.specs[i].loop \in Int
  BY <1>6, CalcNumbers
<1>8. PICK t \in Int : t = c.loops[1].ts
  <2>1. c.loops \in Seq(GivenType)
    BY CalcFacts
  <2>2. n >= 1
    BY <1>4, <2>1, TailRest
  <2>3. c.loops[1].ts \in Nat
    BY <1>4, <2>2, CalcNumbers
  <2>4. QED
    BY <2>3
<1>9. ASSUME t \in DOMAIN lp.at PROVE Dropped(c, t)
  <2>1. t >= 1
    BY <1>9, StreamFacts DEF Times
  <2>2. c.specs[1].loop # Unset
    BY <1>8, <2>1, TimeFacts
  <2>3. SpecRight(im, c, c.specs[1])
    BY <1>1, <1>6 DEF SpecsRight
  <2>4. c.specs[1].loop = c.specs[1].ts - 2 /\ c.specs[1].ts <= c.prevNonEmpty
    BY <2>2, <2>3 DEF SpecRight
  <2>5. c.specs[1].ts \in Nat /\ c.prevNonEmpty \in Nat
    BY <1>6, <1>7, CalcNumbers
  <2>6. t < c.prevNonEmpty /\ t < c.specs[1].ts - 2
    BY <1>8, <2>4, <2>5
  <2>7. ASSUME NEW i \in 1 .. k, c.specs[i].loop # Unset PROVE t < c.specs[i].loop
    <3>1. SpecRight(im, c, c.specs[i])
      BY <1>1, <1>6 DEF SpecsRight
    <3>2. c.specs[i].loop = c.specs[i].ts - 2 /\ c.specs[i].ts \in Nat
      BY <1>7, <2>7, <3>1 DEF SpecRight
    <3>3. i = 1 \/ c.specs[1].ts < c.specs[i].ts
      BY <1>1, <1>6 DEF SpecsRight
    <3>4. QED
      BY <2>5, <2>6, <3>2, <3>3
  <2>8. QED
    BY <1>6, <2>6, <2>7 DEF Dropped
<1>10. PacketsKept(lp, d)
  <2> SUFFICES ASSUME NEW u \in DOMAIN lp.at, u <= c.prevLoop
               PROVE  (\E i \in 1 .. n - 1 : d.loops[i].ts = u) \/ Dropped(d, u)
    BY <1>5 DEF PacketsKept, SameTimes
  <2>1. Dropped(c, u) => Dropped(d, u)
    BY DEF Dropped, SameTimes
  <2>2. CASE u = t
    BY <1>9, <2>1, <2>2
  <2>3. CASE u # t
    <3>1. (\E i \in 1 .. n : c.loops[i].ts = u) \/ Dropped(c, u)
      BY <1>1, <1>4 DEF PacketsKept
    <3>2. ASSUME NEW i \in 1 .. n, c.loops[i].ts = u PROVE \E j \in 1 .. n - 1 : d.loops[j].ts = u
      <4>1. i # 1
        BY <1>8, <2>3, <3>2
      <4>2. i - 1 \in 1 .. n - 1 /\ (i - 1) + 1 = i
        BY <4>1
      <4>3. d.loops[i - 1] = c.loops[i]
        BY <1>5, <4>2
      <4>4. QED
        BY <3>2, <4>2, <4>3
    <3>3. QED
      BY <2>1, <3>1, <3>2
  <2>4. QED
    BY <2>2, <2>3
<1>11. QED
  BY <1>2, <1>3, <1>10 DEF CalcRight

(* A spec that is answered.                                                *)
LEMMA TakeSpec ==
  ASSUME NEW im \in StreamType, ImagesRight(im), NEW lp \in StreamType, Regular(lp),
         NEW c \in CalcType, NEW d \in CalcType, NEW p \in StreamType,
         CalcRight(im, lp, c, p), c.specs # << >>, c.loops # << >>,
         SameTimes(c, d), IsRest(d.specs, c.specs, 1),
         NEW t \in Times, t = c.specs[1].ts, NEW w \in Int, w = c.specs[1].loop,
         NEW cand \in Nat, cand = c.loops[1].ts, w <= cand,
         NEW k \in {0, 1}, k = (IF w = cand THEN 1 ELSE 0), IsRest(d.loops, c.loops, k),
         NEW v \in Vector \cup {NoPacket}, v = (IF w = cand THEN c.loops[1].value ELSE NoPacket),
         NEW q, IsSent(q, p, t, v)
  PROVE  CalcRight(im, lp, d, q)
<1>1. MainNoted(im, c) /\ SpecsRight(im, c, p) /\ CandsRight(lp, c)
      /\ PacketsKept(lp, c) /\ Matched(im, lp, c, p)
  BY DEF CalcRight
<1>2. PICK n \in Nat : n = Len(c.specs) /\ n >= 1
  <2>1. c.specs \in Seq(SpecType)
    BY CalcFacts
  <2>2. QED
    BY <2>1, TailRest
<1>3. PICK m \in Nat : m = Len(c.loops) /\ m >= 1
  <2>1. c.loops \in Seq(GivenType)
    BY CalcFacts
  <2>2. QED
    BY <2>1, TailRest
<1>4. Len(d.specs) = n - 1 /\ \A i \in 1 .. n - 1 : i + 1 \in 1 .. n /\ d.specs[i] = c.specs[i + 1]
  BY <1>2 DEF IsRest
<1>5. Len(d.loops) = m - k /\ \A i \in 1 .. m - k : d.loops[i] = c.loops[i + k]
  BY <1>3 DEF IsRest
<1>6. /\ \A i \in 1 .. n : c.specs[i].ts \in Nat /\ c.specs[i].ts <= MaxTime
      /\ c.prevMain \in Nat /\ c.prevNonEmpty \in Nat /\ c.prevLoop \in Int
      /\ t \in Nat /\ t <= MaxTime
  BY <1>2, CalcNumbers, TimeFacts DEF Times
<1>7. \A i \in 1 .. m : c.loops[i].ts \in Nat
  BY <1>3, CalcNumbers
<1>8. MaxTime \in Nat /\ Unset = -1
  BY TimeFacts
<1>9. SpecRight(im, c, c.specs[1]) /\ p.bound <= t /\ \A u \in DOMAIN p.at : u < t
  BY <1>1, <1>2 DEF SpecsRight
<1>10. t <= c.prevMain
  BY <1>9 DEF SpecRight
<1>11. t \in DOMAIN im.at => w = t - 2 /\ t <= c.prevNonEmpty
  BY <1>9 DEF SpecRight
<1>12. ASSUME w # Unset PROVE t \in DOMAIN im.at
  BY <1>9, <1>12 DEF SpecRight
<1>13. \A i \in 2 .. n : t < c.specs[i].ts
  <2> TAKE i \in 2 .. n
  <2>1. i \in 1 .. n /\ 1 \in 1 .. n /\ 1 < i
    BY <1>2
  <2>2. QED
    BY <1>1, <1>2, <2>1 DEF SpecsRight
<1>14. p.bound \in Nat /\ \A u \in DOMAIN p.at : u \in Nat
  BY StreamFacts DEF Times
<1>15. /\ DOMAIN q.at = DOMAIN p.at \cup (IF v = NoPacket THEN {} ELSE {t})
       /\ \A u \in DOMAIN p.at : q.at[u] = p.at[u]
       /\ v # NoPacket => q.at[t] = v
       /\ t \notin DOMAIN p.at
  <2>1. t \notin DOMAIN p.at
    BY <1>6, <1>9, <1>14
  <2>2. QED
    BY <2>1 DEF IsSent
<1>16. PICK b \in Nat : b = q.bound /\ b <= t + 1
  <2>1. q.bound = IF p.bound > t THEN p.bound ELSE IF t < MaxTime THEN t + 1 ELSE MaxTime
    BY DEF IsSent
  <2>2. ~(p.bound > t)
    BY <1>6, <1>9, <1>14
  <2>3. q.bound = IF t < MaxTime THEN t + 1 ELSE MaxTime
    BY <2>1, <2>2
  <2>4. QED
    BY <1>6, <1>8, <2>3
<1>17. SpecsRight(im, d, q)
  <2>1. ASSUME NEW i \in 1 .. n - 1
        PROVE  /\ SpecRight(im, d, d.specs[i])
               /\ b <= d.specs[i].ts /\ \A u \in DOMAIN q.at : u < d.specs[i].ts
    <3>1. i + 1 \in 2 .. n /\ i + 1 \in 1 .. n
      BY <1>2
    <3>2. PICK s \in Nat : s = d.specs[i].ts /\ t < s /\ d.specs[i] = c.specs[i + 1]
      BY <1>4, <1>6, <1>13, <3>1
    <3>3. SpecRight(im, d, c.specs[i + 1])
      BY <1>1, <1>2, <3>1 DEF SpecsRight, SpecRight, SameTimes
    <3>4. \A u \in DOMAIN p.at : u < s
      BY <1>6, <1>9, <1>14, <3>2
    <3>5. \A u \in DOMAIN q.at : u < s
      BY <1>15, <3>2, <3>4
    <3>6. b <= s
      <4>1. \A x \in Nat : t < x => t + 1 <= x
        BY <1>6
      <4>2. t + 1 <= s /\ t + 1 \in Nat
        BY <1>6, <3>2, <4>1
      <4>3. QED
        BY <1>16, <4>2
    <3>7. QED
      BY <3>2, <3>3, <3>5, <3>6
  <2>2. \A i, j \in 1 .. n - 1 : i < j => d.specs[i].ts < d.specs[j].ts
    <3> SUFFICES ASSUME NEW i \in 1 .. n - 1, NEW j \in 1 .. n - 1, i < j
                 PROVE  d.specs[i].ts < d.specs[j].ts
      OBVIOUS
    <3>1. i + 1 \in 1 .. n /\ j + 1 \in 1 .. n /\ i + 1 < j + 1
      BY <1>2
    <3>2. c.specs[i + 1].ts < c.specs[j + 1].ts
      BY <1>1, <1>2, <3>1 DEF SpecsRight
    <3>3. QED
      BY <1>4, <3>2
  <2>3. \A u \in DOMAIN q.at : u <= c.prevMain /\ q.at[u] # NoPacket
    <3>1. \A u \in DOMAIN p.at : u <= c.prevMain /\ p.at[u] # NoPacket
      BY <1>1 DEF SpecsRight
    <3>2. QED
      BY <1>10, <1>15, <3>1
  <2>4. b <= c.prevMain + 1
    BY <1>6, <1>10, <1>16
  <2>5. QED
    BY <1>4, <1>16, <2>1, <2>2, <2>3, <2>4 DEF SpecsRight, SameTimes
<1>18. CandsRight(lp, d)
  BY <1>1, CandsRest
<1>19. \A u : Dropped(c, u) => Dropped(d, u)
  <2>1. \A i \in 1 .. n - 1 : i + 1 \in 1 .. n /\ d.specs[i] = c.specs[i + 1]
    BY <1>4
  <2>2. QED
    BY <1>2, <1>4, <2>1 DEF Dropped, SameTimes
<1>20. ASSUME k = 1, cand \in DOMAIN lp.at PROVE Dropped(d, cand)
  <2>1. w = cand /\ w # Unset
    BY <1>8, <1>20
  <2>2. cand = t - 2 /\ t <= c.prevNonEmpty
    BY <1>11, <1>12, <2>1
  <2>3. cand < c.prevNonEmpty
    BY <1>6, <2>2
  <2>4. ASSUME NEW i \in 1 .. n - 1, d.specs[i].loop # Unset PROVE cand < d.specs[i].loop
    <3>1. i + 1 \in 2 .. n /\ i + 1 \in 1 .. n
      BY <1>2
    <3>2. PICK x : x = d.specs[i] /\ x = c.specs[i + 1]
      BY <1>4
    <3>3. SpecRight(im, c, x) /\ t < x.ts /\ x.ts \in Nat
      BY <1>1, <1>2, <1>6, <1>13, <3>1, <3>2 DEF SpecsRight
    <3>4. x.loop = x.ts - 2
      BY <2>4, <3>2, <3>3 DEF SpecRight
    <3>5. PICK a \in Nat : a = x.ts /\ t < a
      BY <3>3
    <3>6. cand < a - 2
      BY <1>6, <2>2, <3>5
    <3>7. QED
      BY <3>2, <3>4, <3>5, <3>6
  <2>5. QED
    BY <1>4, <2>3, <2>4 DEF Dropped, SameTimes
<1>21. PacketsKept(lp, d)
  <2> SUFFICES ASSUME NEW u \in DOMAIN lp.at, u <= c.prevLoop
               PROVE  (\E i \in 1 .. m - k : d.loops[i].ts = u) \/ Dropped(d, u)
    BY <1>5 DEF PacketsKept, SameTimes
  <2>1. (\E i \in 1 .. m : c.loops[i].ts = u) \/ Dropped(c, u)
    BY <1>1, <1>3 DEF PacketsKept
  <2>2. ASSUME NEW i \in 1 .. m, c.loops[i].ts = u
        PROVE  (\E j \in 1 .. m - k : d.loops[j].ts = u) \/ Dropped(d, u)
    <3>1. CASE k = 1 /\ i = 1
      BY <1>20, <2>2, <3>1
    <3>2. CASE ~(k = 1 /\ i = 1)
      <4>1. i - k \in 1 .. m - k /\ (i - k) + k = i
        BY <3>2
      <4>2. d.loops[i - k] = c.loops[i]
        BY <1>5, <4>1
      <4>3. QED
        BY <2>2, <4>1, <4>2
    <3>3. QED
      BY <3>1, <3>2
  <2>3. QED
    BY <1>19, <2>1, <2>2
<1>22. Matched(im, lp, d, q)
  <2> SUFFICES ASSUME NEW u \in DOMAIN im.at, u <= c.prevNonEmpty,
                      \A i \in 1 .. n - 1 : d.specs[i].ts # u
               PROVE  Fixed(lp, u - 2) /\ Value(q, u) = Value(lp, u - 2)
    BY <1>4 DEF Matched, SameTimes
  <2>1. CASE u # t
    <3>1. \A i \in 1 .. n : c.specs[i].ts # u
      <4> TAKE i \in 1 .. n
      <4>1. CASE i = 1
        BY <2>1, <4>1
      <4>2. CASE i # 1
        <5>1. i - 1 \in 1 .. n - 1 /\ (i - 1) + 1 = i
          BY <4>2
        <5>2. d.specs[i - 1] = c.specs[i]
          BY <1>4, <5>1
        <5>3. QED
          BY <5>1, <5>2
      <4>3. QED
        BY <4>1, <4>2
    <3>2. Fixed(lp, u - 2) /\ Value(p, u) = Value(lp, u - 2)
      BY <1>1, <1>2, <3>1 DEF Matched
    <3>3. Value(q, u) = Value(p, u)
      BY <1>15, <2>1 DEF Value, Has
    <3>4. QED
      BY <3>2, <3>3
  <2>2. CASE u = t
    <3>1. w = t - 2
      BY <1>11, <2>2
    <3>2. Fixed(lp, cand) /\ c.loops[1].value = Value(lp, cand) /\ cand <= c.prevLoop
      BY <1>1, <1>3 DEF CandsRight
    <3>3. Fixed(lp, w)
      BY <3>2, FixedDown
    <3>4. Value(q, t) = v
      BY <1>15 DEF Value, Has
    <3>5. CASE w = cand
      BY <2>2, <3>1, <3>2, <3>3, <3>4, <3>5
    <3>6. CASE w # cand
      <4>1. w < cand /\ w <= c.prevLoop
        BY <1>6, <3>2, <3>6
      <4>2. ASSUME w \in DOMAIN lp.at PROVE FALSE
        <5>1. \A i \in 1 .. m : c.loops[i].ts # w
          <6> TAKE i \in 1 .. m
          <6>1. CASE i = 1
            BY <3>6, <6>1
          <6>2. CASE i # 1
            <7>1. 1 \in 1 .. m /\ 1 < i
              BY <1>3, <6>2
            <7>2. cand < c.loops[i].ts
              BY <1>1, <1>3, <7>1 DEF CandsRight
            <7>3. QED
              BY <1>7, <4>1, <7>2
          <6>3. QED
            BY <6>1, <6>2
        <5>2. Dropped(c, w)
          BY <1>1, <1>3, <4>1, <4>2, <5>1 DEF PacketsKept
        <5>3. w # Unset
          BY <4>2, <1>8, StreamFacts DEF Times
        <5>4. w < c.specs[1].loop
          BY <1>2, <5>2, <5>3 DEF Dropped
        <5>5. QED
          BY <5>4
      <4>3. Value(lp, w) = NoPacket
        BY <4>2 DEF Value, Has
      <4>4. QED
        BY <2>2, <3>1, <3>3, <3>4, <3>6, <4>3
    <3>7. QED
      BY <3>5, <3>6
  <2>3. QED
    BY <2>1, <2>2
<1>23. MainNoted(im, d)
  BY <1>1 DEF MainNoted, SameTimes
<1>24. QED
  BY <1>17, <1>18, <1>21, <1>22, <1>23 DEF CalcRight

(* SendAll sends one packet after the other.                               *)
LEMMA SendAllMore ==
  ASSUME NEW s \in StreamType, NEW c \in Seq(SentType), NEW x \in SentType
  PROVE  SendAll(s, Append(c, x)) = Send(SendAll(s, c), x.ts, x.value)
<1>1. PICK n \in Nat : n = Len(c)
  OBVIOUS
<1>2. PICK d \in Seq(SentType) : d = Append(c, x)
  <2>1. Append(c, x) \in Seq(SentType)
    OBVIOUS
  <2>2. QED
    BY <2>1
<1>3. Len(d) = n + 1 /\ d[n + 1] = x /\ \A i \in 1 .. n : d[i] = c[i]
  BY <1>1, <1>2, Appended
<1>4. PICK run \in [0 .. n -> StreamType] :
        /\ run[0] = s /\ SendAll(s, c) = run[n]
        /\ \A k \in 1 .. n : run[k] = Send(run[k - 1], c[k].ts, c[k].value)
  <2>1. \E run \in [0 .. Len(c) -> StreamType] :
          /\ run[0] = s /\ SendAll(s, c) = run[Len(c)]
          /\ \A k \in 1 .. Len(c) : run[k] = Send(run[k - 1], c[k].ts, c[k].value)
    BY SendAllRuns, Zenon
  <2>2. QED
    BY <1>1, <2>1
<1>5. PICK more \in [0 .. n + 1 -> StreamType] :
        /\ more[0] = s /\ SendAll(s, d) = more[n + 1]
        /\ \A k \in 1 .. n + 1 : more[k] = Send(more[k - 1], d[k].ts, d[k].value)
  <2>1. \E r \in [0 .. Len(d) -> StreamType] :
          /\ r[0] = s /\ SendAll(s, d) = r[Len(d)]
          /\ \A k \in 1 .. Len(d) : r[k] = Send(r[k - 1], d[k].ts, d[k].value)
    BY SendAllRuns, Zenon
  <2>2. QED
    BY <1>3, <2>1
<1> DEFINE G == {k \in 0 .. n : more[k] = run[k]}
<1>6. 0 \in G
  BY <1>4, <1>5
<1>7. ASSUME NEW k \in 1 .. n, k - 1 \in G PROVE k \in G
  <2>1. k \in 1 .. n + 1 /\ k \in 0 .. n
    OBVIOUS
  <2>2. more[k] = Send(run[k - 1], c[k].ts, c[k].value)
    BY <1>3, <1>5, <1>7, <2>1
  <2>3. QED
    BY <1>4, <2>1, <2>2
<1>8. n \in G
  <2> HIDE DEF G
  <2>1. \A k \in 0 .. n : k \in G
    BY <1>6, <1>7, UpTo
  <2>2. QED
    BY <2>1
<1>9. more[n + 1] = Send(more[n], x.ts, x.value)
  <2>1. n + 1 \in 1 .. n + 1 /\ (n + 1) - 1 = n
    OBVIOUS
  <2>2. QED
    BY <1>3, <1>5, <2>1
<1>10. QED
  BY <1>2, <1>4, <1>5, <1>8, <1>9

(* Nothing to send.                                                        *)
LEMMA SendAllNothing == ASSUME NEW s \in StreamType PROVE SendAll(s, << >>) = s
<1>1. << >> \in Seq(SentType) /\ Len(<< >>) = 0
  OBVIOUS
<1>2. PICK none \in Seq(SentType) : none = << >> /\ Len(none) = 0
  BY <1>1
<1>3. \E run \in [0 .. Len(none) -> StreamType] :
        /\ run[0] = s /\ SendAll(s, none) = run[Len(none)]
        /\ \A k \in 1 .. Len(none) : run[k] = Send(run[k - 1], none[k].ts, none[k].value)
  BY SendAllRuns, Zenon
<1>4. SendAll(s, none) = s
  BY <1>2, <1>3
<1>5. QED
  BY <1>2, <1>4

(* The calculator in the middle of a Process.  It closes its output after  *)
(* its last packet.                                                        *)
RoundRight(im, lp, p, r) ==
  /\ CalcRight(im, lp, r.calc, SendAll(p, r.sent))
  /\ r.closed => r.calc.specs = << >> /\ r.calc.prevMain = MaxTime

(* One round keeps that.                                                   *)
LEMMA MatchKeeps ==
  ASSUME NEW im \in StreamType, ImagesRight(im), NEW lp \in StreamType, Regular(lp),
         NEW p \in StreamType, NEW r \in RoundType, RoundRight(im, lp, p, r), NEW i
  PROVE  RoundRight(im, lp, p, Match(r, i))
<1>1. CASE r.calc.specs = << >> \/ r.calc.loops = << >>
  <2>1. Match(r, i) = r
    BY <1>1, MatchFacts
  <2>2. QED
    BY <2>1
<1>2. CASE r.calc.specs # << >> /\ r.calc.loops # << >>
  <2>1. PICK c \in CalcType : c = r.calc
    BY RoundFacts
  <2>2. PICK sent \in Seq(SentType) : sent = r.sent
    BY RoundFacts
  <2>3. PICK new \in RoundType : new = Match(r, i)
    BY MatchFacts
  <2>4. PICK d \in CalcType : d = new.calc
    BY <2>3, RoundFacts
  <2>5. c.specs \in Seq(SpecType) /\ c.loops \in Seq(GivenType) /\ c.specs # << >> /\ c.loops # << >>
    BY <1>2, <2>1, CalcFacts
  <2>6. /\ Len(c.specs) \in Nat /\ Len(c.specs) >= 1 /\ Head(c.specs) = c.specs[1]
        /\ IsRest(Tail(c.specs), c.specs, 1)
    BY <2>5, TailRest
  <2>7. /\ Len(c.loops) \in Nat /\ Len(c.loops) >= 1 /\ Head(c.loops) = c.loops[1]
        /\ IsRest(Tail(c.loops), c.loops, 1) /\ IsRest(c.loops, c.loops, 0)
    BY <2>5, TailRest, AllRest
  <2>8. /\ c.specs[1] \in SpecType /\ c.specs[1].ts \in Times /\ c.specs[1].loop \in Int
        /\ c.loops[1].ts \in Nat /\ c.loops[1].value \in Vector \cup {NoPacket}
    BY <2>6, <2>7, CalcNumbers
  <2>9. PICK t \in Times : t = c.specs[1].ts
    BY <2>8
  <2>10. PICK w \in Int : w = c.specs[1].loop
    BY <2>8
  <2>11. PICK cand \in Nat : cand = c.loops[1].ts
    BY <2>8
  <2>12. PICK v \in Vector \cup {NoPacket} : v = IF w = cand THEN c.loops[1].value ELSE NoPacket
    BY <2>8
  <2>13. PICK x \in SentType : x = [ts |-> t, value |-> v] /\ x.ts = t /\ x.value = v
    <3>1. [ts |-> t, value |-> v] \in SentType
      BY DEF SentType
    <3>2. QED
      BY <3>1
  <2>14. /\ d.specs = IF w <= cand THEN Tail(c.specs) ELSE c.specs
         /\ d.loops = IF w >= cand THEN Tail(c.loops) ELSE c.loops
         /\ SameTimes(c, d)
         /\ new.sent = IF w <= cand THEN Append(sent, x) ELSE sent
         /\ new.closed = (r.closed \/ t = MaxTime)
    <3>1. Matches(new, r, Head(r.calc.specs), Head(r.calc.loops))
      BY <1>2, <2>3, MatchFacts, Zenon
    <3>2. PICK spec : spec = c.specs[1] /\ spec.ts = t /\ spec.loop = w
      BY <2>9, <2>10
    <3>3. PICK first : first = c.loops[1] /\ first.ts = cand
      BY <2>11
    <3>4. Matches(new, r, spec, first)
      BY <2>1, <2>6, <2>7, <3>1, <3>2, <3>3, Zenon
    <3>5. /\ new.calc.specs = IF w <= cand THEN Tail(c.specs) ELSE c.specs
          /\ new.calc.loops = IF w >= cand THEN Tail(c.loops) ELSE c.loops
      BY <2>1, <3>2, <3>3, <3>4 DEF Matches
    <3>6. SameTimes(c, d)
      BY <2>1, <2>4, <3>4 DEF SameTimes, Matches
    <3>7. new.sent = IF w <= cand THEN Append(sent, x) ELSE sent
      BY <2>2, <2>12, <2>13, <3>2, <3>3, <3>4 DEF Matches
    <3>8. new.closed = (r.closed \/ t = MaxTime)
      BY <3>2, <3>4 DEF Matches
    <3>9. QED
      BY <2>4, <3>5, <3>6, <3>7, <3>8
  <2>15. PICK q \in StreamType : q = SendAll(p, sent)
    BY SendAllType
  <2>16. CalcRight(im, lp, c, q)
    BY <2>1, <2>2, <2>15 DEF RoundRight
  <2>17. ~r.closed
    BY <1>2 DEF RoundRight
  <2>18. CASE w > cand
    <3>1. /\ d.specs = c.specs /\ IsRest(d.loops, c.loops, 1) /\ new.sent = sent
      BY <2>7, <2>14, <2>18
    <3>2. CalcRight(im, lp, d, q)
      BY <2>5, <2>10, <2>11, <2>14, <2>16, <2>18, <3>1, DropCand
    <3>3. t # MaxTime
      <4>1. SpecRight(im, c, c.specs[1])
        BY <2>6, <2>16 DEF CalcRight, SpecsRight
      <4>2. w # Unset
        BY <2>18, TimeFacts
      <4>3. t \in DOMAIN im.at
        BY <2>9, <2>10, <4>1, <4>2 DEF SpecRight
      <4>4. QED
        BY <4>3, ImageFacts, TimeFacts
    <3>4. QED
      BY <2>3, <2>4, <2>14, <2>15, <2>17, <3>1, <3>2, <3>3 DEF RoundRight
  <2>19. CASE w <= cand
    <3>1. PICK k \in {0, 1} : k = IF w = cand THEN 1 ELSE 0
      OBVIOUS
    <3>2. IsRest(d.specs, c.specs, 1) /\ new.sent = Append(sent, x)
      BY <2>6, <2>14, <2>19
    <3>3. IsRest(d.loops, c.loops, k)
      BY <2>7, <2>14, <2>19, <3>1
    <3>4. PICK s : s = Send(q, t, v) /\ IsSent(s, q, t, v)
      BY SendFacts
    <3>5. CalcRight(im, lp, d, s)
      <4>1. /\ CalcRight(im, lp, c, q) /\ c.specs # << >> /\ c.loops # << >>
            /\ SameTimes(c, d) /\ IsRest(d.specs, c.specs, 1) /\ IsRest(d.loops, c.loops, k)
        BY <2>5, <2>14, <2>16, <3>2, <3>3, Zenon
      <4>2. t = c.specs[1].ts /\ w = c.specs[1].loop /\ cand = c.loops[1].ts /\ IsSent(s, q, t, v)
        BY <2>9, <2>10, <2>11, <3>4, Zenon
      <4>3. QED
        BY ONLY <2>12, <2>19, <3>1, <4>1, <4>2, im \in StreamType, ImagesRight(im), lp \in StreamType, Regular(lp), TakeSpec
    <3>6. s = SendAll(p, new.sent)
      BY <2>13, <2>15, <3>2, <3>4, SendAllMore
    <3>7. t = MaxTime => d.specs = << >> /\ d.prevMain = MaxTime
      <4> SUFFICES ASSUME t = MaxTime PROVE d.specs = << >> /\ d.prevMain = MaxTime
        OBVIOUS
      <4>1. SpecsRight(im, c, q)
        BY <2>16 DEF CalcRight
      <4>2. t <= c.prevMain
        BY <2>6, <2>9, <4>1 DEF SpecsRight, SpecRight
      <4>3. d.prevMain = MaxTime
        <5>1. c.prevMain \in 0 .. MaxTime
          BY CalcFacts
        <5>2. QED
          BY <2>14, <4>2, <5>1, TimeFacts DEF SameTimes
      <4>4. ~(Len(c.specs) >= 2)
        <5>1. SUFFICES ASSUME Len(c.specs) >= 2 PROVE FALSE
          OBVIOUS
        <5>2. 1 \in 1 .. Len(c.specs) /\ 2 \in 1 .. Len(c.specs) /\ 1 < 2
          BY <2>6, <5>1
        <5>3. t < c.specs[2].ts
          BY <2>9, <4>1, <5>2 DEF SpecsRight
        <5>4. c.specs[2].ts \in Times
          BY <5>2, CalcNumbers
        <5>5. QED
          BY <5>3, <5>4, TimeFacts DEF Times
      <4>5. d.specs \in Seq(SpecType) /\ Len(d.specs) = Len(c.specs) - 1
        BY <3>2, CalcFacts DEF IsRest
      <4>6. Len(d.specs) = 0
        <5>1. PICK a \in Nat : a = Len(c.specs) /\ a >= 1 /\ ~(a >= 2)
          BY <2>6, <4>4
        <5>2. a >= 1 /\ ~(a >= 2)
          BY <5>1
        <5>3. a = 1
          BY <5>2
        <5>4. QED
          BY <4>5, <5>1, <5>3
      <4>7. d.specs = << >>
        BY <4>5, <4>6
      <4>8. QED
        BY <4>3, <4>7
    <3>8. QED
      BY <2>3, <2>4, <2>14, <2>17, <3>5, <3>6, <3>7 DEF RoundRight
  <2>20. QED
    BY <2>18, <2>19
<1>3. QED
  BY <1>1, <1>2

(* So does a whole Process.                                                *)
LEMMA ProcessKeeps ==
  ASSUME NEW im \in StreamType, ImagesRight(im), NEW lp \in StreamType, Regular(lp),
         NEW p \in StreamType, NEW c \in CalcType, NEW m \in GivenType, NEW l \in GivenType,
         CalcRight(im, lp, Noted(c, m, l), p)
  PROVE  /\ RoundRight(im, lp, p, Process(c, m, l))
         /\ SameTimes(Noted(c, m, l), Process(c, m, l).calc)
<1>1. PICK d \in CalcType : d = Noted(c, m, l)
  BY NotedType
<1>2. PICK n \in Nat : HasRounds(n, c, m, l)
  BY ProcessRuns, Zenon
<1>3. PICK run \in [0 .. n -> RoundType] :
        /\ run[0] = FirstRound(c, m, l) /\ Process(c, m, l) = run[n]
        /\ \A k \in 1 .. n : run[k] = Match(run[k - 1], k)
  BY <1>2 DEF HasRounds
<1> DEFINE G == {k \in 0 .. n : RoundRight(im, lp, p, run[k]) /\ SameTimes(d, run[k].calc)}
<1>4. 0 \in G
  <2>1. run[0].calc = d /\ run[0].sent = << >> /\ run[0].closed = FALSE
    BY <1>1, <1>3 DEF FirstRound
  <2>2. SendAll(p, << >>) = p
    BY SendAllNothing
  <2>3. RoundRight(im, lp, p, run[0])
    BY <1>1, <2>1, <2>2 DEF RoundRight
  <2>4. SameTimes(d, d)
    BY DEF SameTimes
  <2>5. QED
    BY <2>1, <2>3, <2>4
<1>5. ASSUME NEW k \in 1 .. n, k - 1 \in G PROVE k \in G
  <2>1. k - 1 \in 0 .. n /\ k \in 0 .. n
    OBVIOUS
  <2>2. PICK r \in RoundType : r = run[k - 1]
    BY <2>1
  <2>3. RoundRight(im, lp, p, r) /\ SameTimes(d, r.calc)
    BY <1>5, <2>2
  <2>4. PICK new \in RoundType : new = Match(r, k)
    BY MatchFacts
  <2>5. RoundRight(im, lp, p, new)
    BY <2>3, <2>4, MatchKeeps
  <2>6. SameTimes(r.calc, new.calc)
    <3>1. CASE r.calc.specs = << >> \/ r.calc.loops = << >>
      <4>1. new = r
        BY <2>4, <3>1, MatchFacts
      <4>2. QED
        BY <4>1 DEF SameTimes
    <3>2. CASE r.calc.specs # << >> /\ r.calc.loops # << >>
      <4>1. Matches(new, r, Head(r.calc.specs), Head(r.calc.loops))
        BY <2>4, <3>2, MatchFacts, Zenon
      <4>2. QED
        BY <4>1 DEF SameTimes, Matches
    <3>3. QED
      BY <3>1, <3>2
  <2>7. SameTimes(d, new.calc)
    BY <2>3, <2>6 DEF SameTimes
  <2>8. run[k] = new
    BY <1>3, <2>2, <2>4
  <2>9. QED
    BY <2>1, <2>5, <2>7, <2>8
<1>6. n \in G
  <2> HIDE DEF G
  <2>1. \A k \in 0 .. n : k \in G
    BY <1>4, <1>5, UpTo
  <2>2. QED
    BY <2>1
<1>7. QED
  BY <1>1, <1>3, <1>6

(* Both streams of the handler, before the calculator processes them.      *)
LEMMA HandlerFills ==
  ASSUME TypeOK, LoopbackInv, Selected < DoneTime
  PROVE  /\ IsFilled(image, Read(Latched["main"], last["main"]),
                     Read(NewReady("main"), NewLast("main")), Filled("main"))
         /\ HandlerRight(image, NewReady("main"), NewLast("main"))
         /\ MainRead(image, calc, Read(Latched["main"], last["main"]))
         /\ IsFilled(loop, Read(Latched["loop"], last["loop"]),
                     Read(NewReady("loop"), NewLast("loop")), Filled("loop"))
         /\ HandlerRight(loop, NewReady("loop"), NewLast("loop"))
         /\ \A u \in DOMAIN loop.at : u > calc.prevLoop => u > Read(Latched["loop"], last["loop"])
         /\ Read(Latched["loop"], last["loop"]) = MaxTime =>
              Read(Latched["loop"], last["loop"]) <= calc.prevLoop
<1>1. image \in StreamType /\ loop \in StreamType /\ calc \in CalcType
      /\ ready \in [Sides -> {Unset} \cup 1 .. DoneTime] /\ last \in [Sides -> {Unset} \cup Times]
  BY DEF TypeOK
<1>2. /\ "main" \in Sides /\ Side("main") = image /\ "loop" \in Sides /\ Side("loop") = loop
  BY DEF Sides, Side
<1>3. Regular(image) /\ Regular(loop)
  BY <1>1, ImageFacts DEF LoopbackInv
<1>4. IsLatched(image, ready["main"], last["main"], Latched["main"])
  <2>1. HandlerRight(Side("main"), ready["main"], last["main"]) /\ Regular(Side("main"))
    BY <1>2, <1>3 DEF LoopbackInv
  <2>2. QED
    BY <1>2, <2>1, LatchFacts
<1>5. IsLatched(loop, ready["loop"], last["loop"], Latched["loop"])
  <2>1. HandlerRight(Side("loop"), ready["loop"], last["loop"]) /\ Regular(Side("loop"))
    BY <1>2, <1>3 DEF LoopbackInv
  <2>2. QED
    BY <1>2, <2>1, LatchFacts
<1>6. /\ IsFilled(image, Read(Latched["main"], last["main"]),
                  Read(NewReady("main"), NewLast("main")), Filled("main"))
      /\ HandlerRight(image, NewReady("main"), NewLast("main"))
  <2>1. HandlerRight(Side("main"), Latched["main"], last["main"]) /\ Regular(Side("main"))
    BY <1>2, <1>3, <1>4 DEF IsLatched
  <2>2. QED
    BY <1>2, <2>1, FillFacts
<1>7. /\ IsFilled(loop, Read(Latched["loop"], last["loop"]),
                  Read(NewReady("loop"), NewLast("loop")), Filled("loop"))
      /\ HandlerRight(loop, NewReady("loop"), NewLast("loop"))
  <2>1. HandlerRight(Side("loop"), Latched["loop"], last["loop"]) /\ Regular(Side("loop"))
    BY <1>2, <1>3, <1>5 DEF IsLatched
  <2>2. QED
    BY <1>2, <2>1, FillFacts
<1>8. PICK a \in Int : a = Read(ready["main"], last["main"])
  BY <1>1, <1>2, TimeFacts DEF Read, Times
<1>9. PICK b \in Int : b = Read(Latched["main"], last["main"])
  BY <1>6 DEF IsFilled
<1>10. PICK f \in Int : f = Read(ready["loop"], last["loop"])
  BY <1>1, <1>2, TimeFacts DEF Read, Times
<1>11. PICK g \in Int : g = Read(Latched["loop"], last["loop"])
  BY <1>7 DEF IsFilled
<1>12. /\ calc.prevNonEmpty \in Nat /\ calc.prevLoop \in Int
       /\ \A u \in DOMAIN loop.at : u \in Nat
  BY <1>1, CalcNumbers, StreamFacts DEF Times
<1>13. MainRead(image, calc, b)
  <2>1. a <= b /\ \A u \in DOMAIN image.at : u > a => u > b
    BY <1>4, <1>8, <1>9 DEF IsLatched
  <2>2. MainRead(image, calc, a)
    BY <1>8 DEF LoopbackInv
  <2>3. QED
    BY <1>12, <2>1, <2>2 DEF MainRead
<1>14. f <= calc.prevLoop
  BY <1>10 DEF LoopbackInv
<1>15. \A u \in DOMAIN loop.at : u > f => u > g
  BY <1>5, <1>10, <1>11 DEF IsLatched
<1>16. \A u \in DOMAIN loop.at : u > calc.prevLoop => u > g
  <2> TAKE u \in DOMAIN loop.at
  <2>1. u \in Nat
    BY <1>12
  <2>2. u > calc.prevLoop => u > f
    BY <1>12, <1>14, <2>1
  <2>3. QED
    BY <1>15, <2>2
<1>17. g = f \/ g < MaxTime
  BY <1>5, <1>10, <1>11 DEF IsLatched
<1>18. g = MaxTime => g <= calc.prevLoop
  BY <1>14, <1>17, TimeFacts
<1>19. QED
  BY <1>6, <1>7, <1>9, <1>11, <1>13, <1>16, <1>18

(* Closing the output after the last spec.                                 *)
LEMMA CloseKeeps ==
  ASSUME NEW im, NEW lp, NEW c \in CalcType, NEW p, NEW q, CalcRight(im, lp, c, p),
         c.specs = << >>, c.prevMain = MaxTime, q.at = p.at, q.bound = DoneTime
  PROVE  CalcRight(im, lp, c, q)
<1>1. SpecsRight(im, c, q)
  BY TimeFacts DEF CalcRight, SpecsRight
<1>2. Matched(im, lp, c, q)
  BY DEF CalcRight, Matched, Value, Has
<1>3. QED
  BY <1>1, <1>2 DEF CalcRight

(* PreviousLoopback keeps the invariant.                                   *)
LEMMA RunLoopbackKeeps ==
  ASSUME TypeOK, LoopbackInv, RunLoopback
  PROVE  LoopbackInv'
<1>1. image \in StreamType /\ loop \in StreamType /\ calc \in CalcType /\ prev \in StreamType
  BY DEF TypeOK
<1>2. ImagesRight(image) /\ Regular(loop) /\ CalcRight(image, loop, calc, prev)
  BY DEF LoopbackInv
<1> DEFINE r == Process(calc, Filled("main"), Filled("loop"))
           sent == SendAll(prev, r.sent)
<1>3. /\ Selected < DoneTime /\ calc' = r.calc
      /\ prev' = IF r.closed THEN [sent EXCEPT !.bound = DoneTime] ELSE sent
      /\ last' = [s \in Sides |-> IF Latched[s] \in {Unset, DoneTime} THEN last[s] ELSE Latched[s]]
      /\ ready' = [s \in Sides |-> IF Latched[s] = Selected THEN Unset ELSE Latched[s]]
      /\ image' = image /\ loop' = loop
  BY Zenon DEF RunLoopback
<1> HIDE DEF r
<1>4. PICK m \in GivenType : m = Filled("main")
  BY <1>3, FilledTypes DEF Sides
<1>5. PICK l \in GivenType : l = Filled("loop")
  BY <1>3, FilledTypes DEF Sides
<1>6. PICK readMain \in Int : readMain = Read(Latched["main"], last["main"])
  BY <1>3, HandlerFills DEF IsFilled
<1>7. PICK readLoop \in Int : readLoop = Read(Latched["loop"], last["loop"])
  BY <1>3, HandlerFills DEF IsFilled
<1>8. PICK newMain \in Int : newMain = Read(NewReady("main"), NewLast("main"))
  BY <1>3, HandlerFills DEF IsFilled
<1>9. PICK newLoop \in Int : newLoop = Read(NewReady("loop"), NewLast("loop"))
  BY <1>3, HandlerFills DEF IsFilled
<1>10. /\ IsFilled(image, readMain, newMain, m) /\ MainRead(image, calc, readMain)
       /\ IsFilled(loop, readLoop, newLoop, l)
       /\ \A u \in DOMAIN loop.at : u > calc.prevLoop => u > readLoop
       /\ readLoop = MaxTime => readLoop <= calc.prevLoop
       /\ HandlerRight(image, NewReady("main"), NewLast("main"))
       /\ HandlerRight(loop, NewReady("loop"), NewLast("loop"))
  BY <1>3, <1>4, <1>5, <1>6, <1>7, <1>8, <1>9, HandlerFills
<1>11. PICK c \in CalcType : c = NoteMain(calc, m)
  BY <1>1, NoteMainFacts
<1>12. MainRead(image, c, newMain) /\ CalcRight(image, loop, c, prev)
  BY <1>1, <1>2, <1>10, <1>11, NoteMainKeeps
<1>13. c.prevLoop = calc.prevLoop
  BY <1>1, <1>11, NoteMainFacts
<1>14. PICK d \in CalcType : d = NoteLoop(c, l)
  BY NoteLoopFacts
<1>15. newLoop <= d.prevLoop /\ CalcRight(image, loop, d, prev)
  BY <1>1, <1>10, <1>12, <1>13, <1>14, NoteLoopKeeps
<1>16. d = Noted(calc, m, l) /\ d.prevNonEmpty = c.prevNonEmpty
  BY <1>11, <1>14, NoteLoopFacts DEF Noted
<1>17. PICK new \in RoundType : new = r
  BY <1>1, <1>4, <1>5, ProcessType DEF r
<1>18. RoundRight(image, loop, prev, new) /\ SameTimes(d, new.calc)
  BY <1>1, <1>2, <1>4, <1>5, <1>15, <1>16, <1>17, ProcessKeeps DEF r
<1>19. PICK e \in CalcType : e = new.calc
  BY RoundFacts
<1>20. PICK p \in StreamType : p = SendAll(prev, new.sent)
  BY <1>1, RoundFacts, SendAllType
<1>21. calc' = e /\ prev' = IF new.closed THEN [p EXCEPT !.bound = DoneTime] ELSE p
  BY <1>3, <1>17, <1>19, <1>20
<1>22. CalcRight(image, loop, e, p) /\ (new.closed => e.specs = << >> /\ e.prevMain = MaxTime)
  BY <1>18, <1>19, <1>20 DEF RoundRight
<1>23. CalcRight(image, loop, e, prev')
  <2>1. CASE new.closed
    <3>1. PICK q : q = [p EXCEPT !.bound = DoneTime] /\ q.at = p.at /\ q.bound = DoneTime
      <4>1. p = [at |-> p.at, bound |-> p.bound]
        BY StreamFacts
      <4>2. PICK q : q = [p EXCEPT !.bound = DoneTime]
        OBVIOUS
      <4>3. q = [at |-> p.at, bound |-> DoneTime]
        BY <4>1, <4>2
      <4>4. q.at = p.at /\ q.bound = DoneTime
        BY <4>3
      <4>5. QED
        BY <4>2, <4>4
    <3>2. CalcRight(image, loop, e, q)
      BY <1>22, <2>1, <3>1, CloseKeeps
    <3>3. QED
      BY <1>21, <2>1, <3>1, <3>2
  <2>2. CASE ~new.closed
    BY <1>21, <1>22, <2>2
  <2>3. QED
    BY <2>1, <2>2
<1>24. MainRead(image, e, newMain) /\ newLoop <= e.prevLoop
  BY <1>12, <1>15, <1>16, <1>18, <1>19 DEF MainRead, SameTimes
<1>25. /\ ready'["main"] = NewReady("main") /\ last'["main"] = NewLast("main")
       /\ ready'["loop"] = NewReady("loop") /\ last'["loop"] = NewLast("loop")
  BY <1>3 DEF NewReady, NewLast, Sides
<1>26. /\ HandlerRight(image, ready'["main"], last'["main"])
       /\ HandlerRight(loop, ready'["loop"], last'["loop"])
       /\ MainRead(image, calc', Read(ready'["main"], last'["main"]))
       /\ Read(ready'["loop"], last'["loop"]) <= calc'.prevLoop
  BY <1>8, <1>9, <1>10, <1>21, <1>24, <1>25
<1>27. ImagesRight(image') /\ Regular(loop') /\ CalcRight(image', loop', calc', prev')
  BY <1>2, <1>3, <1>21, <1>23
<1>28. QED
  BY <1>3, <1>26, <1>27 DEF LoopbackInv

(* The application keeps the invariant.                                    *)
LEMMA InputKeeps ==
  ASSUME TypeOK, LoopbackInv, AddImage \/ CloseInput
  PROVE  LoopbackInv'
<1>1. /\ image \in StreamType /\ calc \in CalcType
      /\ ready \in [Sides -> {Unset} \cup 1 .. DoneTime] /\ last \in [Sides -> {Unset} \cup Times]
  BY DEF TypeOK
<1>2. UNCHANGED <<loop, prev, calc, ready, last>>
  BY DEF AddImage, CloseInput, inner, loopback
<1>3. PICK n \in 0 .. MaxFrames : ImageTimes(image, n)
  BY DEF LoopbackInv, ImagesRight
<1>4. \E new \in StreamType : image' = new /\ Grows(image, new) /\ ImagesRight(new)
  <2>1. CASE AddImage
    <3>1. PICK t \in Times : t = Ts(Cardinality(DOMAIN image.at) + 1)
      BY <2>1, AddImageFacts
    <3>2. n \in Nat /\ n < MaxFrames /\ t = 2 * n + 2
      <4>1. n < setting.frames
        BY <1>3, <2>1 DEF AddImage, ImageTimes
      <4>2. setting.frames \in 0 .. MaxFrames
        BY SettingFacts DEF TypeOK
      <4>3. t = Ts(n + 1)
        BY <1>3, <3>1 DEF ImageTimes
      <4>4. QED
        BY <4>1, <4>2, <4>3, TimeFacts DEF Ts
    <3>3. image.bound = 2 * n + 1
      BY <1>3, <2>1 DEF AddImage, ImageTimes, IsDone
    <3>4. << >> \in Vector /\ << >> # NoPacket
      <4>1. << >> \in Seq(Rects) /\ NoPacket \notin Seq(Rects)
        BY HandGraphAssumption
      <4>2. QED
        BY <4>1 DEF Vector
    <3>5. PICK v \in Vector : v = << >> /\ v # NoPacket
      BY <3>4
    <3>6. PICK new : new = Send(image, t, v) /\ IsSent(new, image, t, v)
      BY <1>1, SendFacts
    <3>7. image' = new
      BY <2>1, <3>1, <3>5, <3>6 DEF AddImage
    <3>8. Grows(image, new)
      BY <1>1, <3>2, <3>3, <3>6, SendGrows
    <3>9. DOMAIN new.at = DOMAIN image.at \cup {t} /\ new.bound = 2 * (n + 1) + 1
      <4>1. DOMAIN new.at = DOMAIN image.at \cup {t}
        BY <3>5, <3>6 DEF IsSent
      <4>2. new.bound = IF image.bound > t THEN image.bound ELSE IF t < MaxTime THEN t + 1 ELSE MaxTime
        BY <3>6 DEF IsSent
      <4>3. ~(image.bound > t) /\ t < MaxTime
        BY <3>2, <3>3, TimeFacts
      <4>4. new.bound = t + 1
        BY <4>2, <4>3
      <4>5. QED
        BY <3>2, <4>1, <4>4
    <3>10. t \notin DOMAIN image.at
      <4>1. \A k \in 1 .. n : Ts(k) # t
        BY <3>2 DEF Ts
      <4>2. QED
        BY <1>3, <4>1 DEF ImageTimes
    <3>11. IsFiniteSet(DOMAIN new.at) /\ Cardinality(DOMAIN new.at) = n + 1
      <4>1. IsFiniteSet(DOMAIN image.at) /\ Cardinality(DOMAIN image.at) = n
        BY <1>3 DEF ImageTimes
      <4>2. PICK D : D = DOMAIN image.at
        OBVIOUS
      <4>3. IsFiniteSet(D \cup {t}) /\ Cardinality(D \cup {t}) = n + 1
        BY <3>10, <4>1, <4>2, FS_AddElement
      <4>4. QED
        BY <3>9, <4>2, <4>3
    <3>12. DOMAIN new.at = {Ts(k) : k \in 1 .. n + 1}
      <4>1. {Ts(k) : k \in 1 .. n + 1} = {Ts(k) : k \in 1 .. n} \cup {Ts(n + 1)}
        <5>1. 1 .. n + 1 = (1 .. n) \cup {n + 1}
          BY <3>2
        <5>2. QED
          BY <5>1
      <4>2. Ts(n + 1) = t
        BY <3>2 DEF Ts
      <4>3. QED
        BY <1>3, <3>9, <4>1, <4>2 DEF ImageTimes
    <3>13. n + 1 \in 0 .. MaxFrames /\ ImageTimes(new, n + 1)
      <4>1. n + 1 \in 0 .. MaxFrames
        BY <3>2, TimeFacts
      <4>2. PICK k : k = n + 1
        OBVIOUS
      <4>3. /\ IsFiniteSet(DOMAIN new.at) /\ Cardinality(DOMAIN new.at) = k
            /\ new.bound = 2 * k + 1
        BY <3>9, <3>11, <4>2
      <4>4. DOMAIN new.at = {Ts(j) : j \in 1 .. k}
        BY <3>12, <4>2
      <4>5. ImageTimes(new, k)
        BY <4>3, <4>4 DEF ImageTimes
      <4>6. QED
        BY <4>1, <4>2, <4>5
    <3>14. QED
      BY <3>6, <3>7, <3>8, <3>13 DEF ImagesRight, IsSent
  <2>2. CASE CloseInput
    <3>1. DoneTime \in 1 .. DoneTime
      BY TimeFacts
    <3>2. PICK new \in StreamType : new = SetBound(image, DoneTime)
      BY <1>1, <3>1, SetBoundFacts
    <3>3. new.at = image.at /\ new.bound = DoneTime
      <4>1. image.bound \in 1 .. DoneTime
        BY <1>1, StreamFacts
      <4>2. QED
        <5>1. new.at = image.at /\ new.bound = IF DoneTime > image.bound THEN DoneTime ELSE image.bound
          BY <1>1, <3>1, <3>2, SetBoundFacts
        <5>2. PICK b \in 1 .. DoneTime : b = image.bound
          BY <4>1
        <5>3. (IF DoneTime > b THEN DoneTime ELSE b) = DoneTime
          BY TimeFacts
        <5>4. QED
          BY <5>1, <5>2, <5>3
    <3>4. Grows(image, new)
      BY <1>1, <3>1, <3>2, SetBoundGrows
    <3>5. ImageTimes(new, n)
      BY <1>3, <3>3 DEF ImageTimes
    <3>6. QED
      BY <2>2, <3>2, <3>4, <3>5 DEF CloseInput, ImagesRight
  <2>3. QED
    BY <2>1, <2>2
<1>5. PICK new \in StreamType : image' = new /\ Grows(image, new) /\ ImagesRight(new)
  BY <1>4
<1>6. PICK r \in {Unset} \cup 1 .. DoneTime : r = ready["main"]
  BY <1>1 DEF Sides
<1>7. PICK l \in {Unset} \cup Times : l = last["main"]
  BY <1>1 DEF Sides
<1>8. HandlerRight(image, r, l) /\ MainRead(image, calc, Read(r, l))
  BY <1>6, <1>7 DEF LoopbackInv
<1>9. HandlerRight(new, r, l)
  BY <1>5, <1>8, GrowsHandler
<1>10. PICK read \in Int : read = Read(r, l) /\ Fixed(image, read)
  BY <1>8, TimeFacts DEF HandlerRight, Read, Times
<1>11. MainRead(new, calc, read) /\ CalcRight(new, loop, calc, prev)
  BY <1>1, <1>5, <1>8, <1>10, ImageGrows DEF LoopbackInv
<1>12. QED
  BY <1>2, <1>5, <1>6, <1>7, <1>9, <1>10, <1>11 DEF LoopbackInv

(* EndLoop keeps the invariant.                                            *)
LEMMA EndLoopFeeds ==
  ASSUME TypeOK, LoopInv, LoopbackInv, EndLoop
  PROVE  LoopbackInv'
<1>1. /\ loop \in StreamType /\ calc \in CalcType /\ image \in StreamType
      /\ ready \in [Sides -> {Unset} \cup 1 .. DoneTime] /\ last \in [Sides -> {Unset} \cup Times]
  BY DEF TypeOK
<1>2. UNCHANGED <<image, prev, calc, ready, last>>
  BY DEF EndLoop, loopback
<1>3. Regular(loop)
  BY DEF LoopbackInv
<1>4. \E new \in StreamType : loop' = new /\ Grows(loop, new) /\ Regular(new)
  <2> DEFINE t == Min(DOMAIN body.at \cup DOMAIN batch.at)
             got == Collect(coll, Value(body, t))
  <2>1. CASE loop' = loop
    <3>1. Grows(loop, loop)
      BY <1>1, StreamFacts DEF Grows
    <3>2. QED
      BY <1>1, <1>3, <2>1, <3>1
  <2>2. CASE Has(batch, t) /\ loop' = Send(loop, batch.at[t], Collected(got))
    <3>1. PICK b \in Times : b = batch.at[t] /\ loop.bound <= b
      BY <2>2, LoopTypes DEF LoopInv, Answers, Has
    <3>2. got \in Vector
      <4>1. Value(body, t) \in Rects \cup {NoPacket}
        BY LoopTypes, InnerFacts DEF Value, Has
      <4>2. QED
        BY <4>1, LoopTypes DEF Collect, Vector
    <3>3. PICK v \in Vector \cup {NoPacket} : v = Collected(got)
      BY <3>2 DEF Collected
    <3>4. PICK new : new = Send(loop, b, v) /\ IsSent(new, loop, b, v)
      BY <1>1, SendFacts
    <3>5. Grows(loop, new) /\ Regular(new)
      BY <1>1, <1>3, <3>1, <3>4, SendGrows
    <3>6. QED
      BY <2>2, <3>1, <3>3, <3>4, <3>5 DEF IsSent
  <2>3. CASE loop' = SetBound(loop, DoneTime)
    <3>1. DoneTime \in 1 .. DoneTime
      BY TimeFacts
    <3>2. PICK new \in StreamType : new = SetBound(loop, DoneTime)
      BY <1>1, <3>1, SetBoundFacts
    <3>3. Grows(loop, new) /\ Regular(new)
      BY <1>1, <1>3, <3>1, <3>2, SetBoundGrows
    <3>4. QED
      BY <2>3, <3>2, <3>3
  <2>4. QED
    BY <2>1, <2>2, <2>3 DEF EndLoop
<1>5. PICK new \in StreamType : loop' = new /\ Grows(loop, new) /\ Regular(new)
  BY <1>4
<1>6. PICK r \in {Unset} \cup 1 .. DoneTime : r = ready["loop"]
  BY <1>1 DEF Sides
<1>7. PICK l \in {Unset} \cup Times : l = last["loop"]
  BY <1>1 DEF Sides
<1>8. HandlerRight(loop, r, l)
  BY <1>6, <1>7 DEF LoopbackInv
<1>9. HandlerRight(new, r, l)
  BY <1>5, <1>8, GrowsHandler
<1>10. CalcRight(image, new, calc, prev)
  BY <1>1, <1>3, <1>5, LoopGrows DEF LoopbackInv
<1>11. QED
  BY <1>2, <1>5, <1>6, <1>7, <1>9, <1>10 DEF LoopbackInv

(* The loopback starts with nothing.                                       *)
LEMMA LoopbackInit == Init => LoopbackInv
<1> SUFFICES ASSUME Init PROVE LoopbackInv
  OBVIOUS
<1>1. /\ image.at = << >> /\ image.bound = 1 /\ loop.at = << >> /\ loop.bound = 1
      /\ prev.at = << >> /\ prev.bound = 1
      /\ calc.specs = << >> /\ calc.prevMain = 0 /\ calc.prevNonEmpty = 0
      /\ calc.loops = << >> /\ calc.prevLoop = Unset
      /\ ready["main"] = Unset /\ last["main"] = Unset
      /\ ready["loop"] = Unset /\ last["loop"] = Unset
  BY TimeFacts DEF Init, NewStream, NewLoopback, Sides
<1>2. ImagesRight(image)
  <2>1. DOMAIN image.at = {} /\ {Ts(k) : k \in 1 .. 0} = {}
    BY <1>1
  <2>2. ImageTimes(image, 0)
    BY <1>1, <2>1, FS_EmptySet DEF ImageTimes
  <2>3. QED
    BY <2>2, TimeFacts DEF ImagesRight
<1>3. Regular(loop)
  BY <1>1 DEF Regular
<1>4. Read(Unset, Unset) = -1 /\ Unset \notin Times /\ Unset # DoneTime
  BY TimeFacts DEF Read, Times
<1>5. HandlerRight(image, Unset, Unset) /\ HandlerRight(loop, Unset, Unset)
  BY <1>1, <1>4 DEF HandlerRight, Fixed
<1>6. MainRead(image, calc, -1) /\ -1 <= calc.prevLoop
  BY <1>1, TimeFacts DEF MainRead
<1>7. CalcRight(image, loop, calc, prev)
  <2>1. Len(calc.specs) = 0 /\ Len(calc.loops) = 0 /\ DOMAIN image.at = {} /\ DOMAIN loop.at = {}
        /\ DOMAIN prev.at = {}
    BY <1>1
  <2>2. MainNoted(image, calc) /\ SpecsRight(image, calc, prev)
    BY <1>1, <2>1 DEF MainNoted, SpecsRight
  <2>3. CandsRight(loop, calc) /\ PacketsKept(loop, calc)
    BY <1>1, <2>1, TimeFacts DEF CandsRight, PacketsKept, Fixed
  <2>4. Matched(image, loop, calc, prev)
    BY <2>1 DEF Matched
  <2>5. QED
    BY <2>2, <2>3, <2>4 DEF CalcRight
<1>8. QED
  BY <1>1, <1>2, <1>3, <1>4, <1>5, <1>6, <1>7 DEF LoopbackInv

(* Every step keeps the invariant.                                         *)
LEMMA StepLoopback ==
  ASSUME TypeOK, LoopInv, LoopbackInv, [Next /\ UNCHANGED setting]_<<vars, setting>>
  PROVE  LoopbackInv'
<1> DEFINE Same == UNCHANGED <<image, loop, prev, calc, ready, last>>
<1>1. ASSUME Same PROVE LoopbackInv'
  BY <1>1 DEF LoopbackInv
<1>2. CASE Detect \/ Associate \/ BeginLoop \/ Body \/ UNCHANGED <<vars, setting>>
  <2>1. Same
    BY <1>2 DEF Detect, Associate, BeginLoop, Body, vars, inner, loopback
  <2>2. QED
    BY <1>1, <2>1
<1>3. CASE EndLoop
  BY <1>3, EndLoopFeeds
<1>4. CASE RunLoopback
  BY <1>4, RunLoopbackKeeps
<1>5. CASE AddImage \/ CloseInput
  BY <1>5, InputKeeps
<1>6. QED
  BY <1>2, <1>3, <1>4, <1>5 DEF Next

(* The feedback of the graph is right: every image is processed with       *)
(* exactly the hands of the image before it, or with none if it showed     *)
(* none, however many images are on their way and in whatever order the    *)
(* two inputs of the loopback arrive.                                      *)
THEOREM PreviousHandsHold == Spec => []PreviousHands
<1> DEFINE Inv == TypeOK /\ NoOverlaps /\ LoopInv /\ LoopbackInv
<1>1. Init => Inv
  BY InitTypes, LoopInit, LoopbackInit DEF Init, NewStream, NoOverlaps
<1>2. Inv /\ [Next /\ UNCHANGED setting]_<<vars, setting>> => Inv'
  BY StepTypes, StepLoop, StepLoopback
<1>3. Inv => PreviousHands
  BY LoopbackAnswers
<1>4. QED
  BY <1>1, <1>2, <1>3, PTL DEF Spec

=============================================================================
