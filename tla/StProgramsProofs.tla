-------------------------- MODULE StProgramsProofs --------------------------
(***************************************************************************)
(* Proofs about StPrograms, for any number of program slots, any texts and *)
(* blocks, any sizes of the pools and any number of calls, with            *)
(* compilations that fail and power failures between and within the        *)
(* writes.  Induction over numbers is by the least counterexample.         *)
(***************************************************************************)
EXTENDS StPrograms, SequenceTheorems, FiniteSetTheorems, WellFoundedInduction, TLAPS

(***************************************************************************)
(* Induction and recursion over the slots.                                 *)
(***************************************************************************)
LEMMA LeastOf ==
  ASSUME NEW S \in SUBSET Nat, S # {}
  PROVE  \E m \in S : \A k \in S : m <= k
<1>. DEFINE R == OpToRel(<, Nat)
<1>1. IsWellFoundedOn(R, Nat)
  BY NatLessThanWellFounded, Zenon
<1>2. \A x, y \in Nat : x < y => <<x, y>> \in R
  BY DEF OpToRel
<1>. HIDE DEF R
<1>3. PICK m \in S : \A k \in S : ~ (<<k, m>> \in R)
  BY <1>1, WFMin
<1>4. \A k \in S : ~ (k < m)
  BY <1>2, <1>3
<1>. QED
  BY <1>4

\* Induction over 0 .. n.
LEMMA UpTo ==
  ASSUME NEW n \in Nat, NEW S, 0 \in S, \A i \in 1 .. n : i - 1 \in S => i \in S
  PROVE  \A i \in 0 .. n : i \in S
<1>. DEFINE Bad == {i \in 0 .. n : i \notin S}
<1>1. SUFFICES ASSUME Bad # {} PROVE FALSE
  OBVIOUS
<1>2. Bad \in SUBSET Nat
  OBVIOUS
<1>3. PICK m \in Bad : \A k \in Bad : m <= k
  <2>. HIDE DEF Bad
  <2>. QED
    BY <1>1, <1>2, LeastOf
<1>4. m \in 1 .. n /\ m - 1 \in 0 .. n /\ m - 1 \notin Bad
  BY <1>3
<1>. QED
  BY <1>3, <1>4

\* A function defined by recursion over 0 .. n exists.
Recurs(g, n, base, step) == g[0] = base /\ \A i \in 1 .. n : g[i] = step[i][g[i-1]]

LEMMA Recursion ==
  ASSUME NEW n \in Nat, NEW base, NEW step
  PROVE  \E g : Recurs(g, n, base, step)
<1>. DEFINE Has(m) ==
              \E g : g = [i \in 0 .. m |-> IF i = 0 THEN base ELSE step[i][g[i-1]]]
            T == {m \in 0 .. n : Has(m)}
<1>1. 0 \in T
  <2>. DEFINE h == [i \in 0 .. 0 |-> base]
  <2>1. h = [i \in 0 .. 0 |-> IF i = 0 THEN base ELSE step[i][h[i-1]]]
    OBVIOUS
  <2>. HIDE DEF h
  <2>2. Has(0)
    BY <2>1
  <2>. HIDE DEF Has
  <2>. QED
    BY <2>2
<1>2. ASSUME NEW m \in 1 .. n, m - 1 \in T
      PROVE  m \in T
  <2>1. PICK g : g = [i \in 0 .. m-1 |-> IF i = 0 THEN base ELSE step[i][g[i-1]]]
    BY <1>2
  <2>. DEFINE h == [i \in 0 .. m |-> IF i = m THEN step[m][g[m-1]] ELSE g[i]]
  <2>2. \A i \in 0 .. m-1 : g[i] = IF i = 0 THEN base ELSE step[i][g[i-1]]
    BY <2>1
  <2>3. \A i \in 0 .. m : h[i] = IF i = 0 THEN base ELSE step[i][h[i-1]]
    BY <2>2
  <2>4. h = [i \in 0 .. m |-> IF i = 0 THEN base ELSE step[i][h[i-1]]]
    BY <2>3
  <2>. HIDE DEF h
  <2>5. Has(m)
    BY <2>4
  <2>. HIDE DEF Has
  <2>. QED
    BY <2>5
<1>3. n \in T
  <2>. HIDE DEF T
  <2>1. \A i \in 1 .. n : i - 1 \in T => i \in T
    BY <1>2
  <2>2. \A i \in 0 .. n : i \in T
    BY <1>1, <2>1, UpTo, Zenon
  <2>. QED
    BY <2>2
<1>4. Has(n)
  <2>. HIDE DEF Has
  <2>. QED
    BY <1>3
<1>5. PICK g : g = [i \in 0 .. n |-> IF i = 0 THEN base ELSE step[i][g[i-1]]]
  BY <1>4
<1>6. \A i \in 0 .. n : g[i] = IF i = 0 THEN base ELSE step[i][g[i-1]]
  BY <1>5
<1>. QED
  BY <1>6 DEF Recurs

Count == Cardinality(Programs)

LEMMA Counted ==
  Count \in Nat \ {0} /\ Programs = 0 .. Count - 1
BY StAssumption, FS_CardinalityType DEF Count

(***************************************************************************)
(* Sums over the slots.                                                    *)
(***************************************************************************)
Upto(f) == CHOOSE g : g = [i \in 0 .. Count |-> IF i = 0 THEN 0 ELSE g[i-1] + f[i-1]]

LEMMA Sums ==
  ASSUME NEW f \in [Programs -> Nat]
  PROVE  /\ Total(f) = Upto(f)[Count]
         /\ Upto(f)[0] = 0
         /\ \A i \in 1 .. Count : Upto(f)[i] = Upto(f)[i-1] + f[i-1]
         /\ \A i \in 0 .. Count : Upto(f)[i] \in Nat
<1>. DEFINE step == [i \in 1 .. Count |-> [x \in Nat |-> x + f[i-1]]]
<1>1. Total(f) = Upto(f)[Count]
  BY DEF Total, Upto, Count
<1>2. /\ Count \in Nat /\ 0 \in 0 .. Count
      /\ \A i \in 1 .. Count : i - 1 \in 0 .. Count /\ i - 1 \in Programs /\ f[i-1] \in Nat
  BY Counted
<1>3. PICK g : Recurs(g, Count, 0, step)
  <2>. HIDE DEF step
  <2>. QED
    BY <1>2, Recursion, Zenon
<1>4. g[0] = 0 /\ \A i \in 1 .. Count : g[i] = step[i][g[i-1]]
  BY <1>3 DEF Recurs
<1>5. ASSUME NEW i \in 1 .. Count, g[i-1] \in Nat
      PROVE  g[i] = g[i-1] + f[i-1] /\ g[i] \in Nat
  <2>1. step[i] = [x \in Nat |-> x + f[i-1]]
    OBVIOUS
  <2>. HIDE DEF step
  <2>2. g[i] = g[i-1] + f[i-1]
    BY <1>4, <1>5, <2>1
  <2>. QED
    BY <1>2, <1>5, <2>2
<1>6. \A i \in 0 .. Count : g[i] \in Nat
  <2>. DEFINE T == {i \in 0 .. Count : g[i] \in Nat}
  <2>1. 0 \in T /\ \A i \in 1 .. Count : i - 1 \in T => i \in T
    BY <1>2, <1>4, <1>5
  <2>2. \A i \in 0 .. Count : i \in T
    <3>. HIDE DEF T
    <3>. QED
      BY <2>1, <1>2, UpTo
  <2>. QED
    BY <2>2
<1>7. \E h : h = [i \in 0 .. Count |-> IF i = 0 THEN 0 ELSE h[i-1] + f[i-1]]
  <2>. DEFINE h == [i \in 0 .. Count |-> g[i]]
  <2>1. \A i \in 0 .. Count : h[i] = IF i = 0 THEN 0 ELSE h[i-1] + f[i-1]
    BY <1>2, <1>4, <1>5, <1>6
  <2>2. h = [i \in 0 .. Count |-> IF i = 0 THEN 0 ELSE h[i-1] + f[i-1]]
    BY <2>1
  <2>. HIDE DEF h
  <2>. QED
    BY <2>2
<1>8. Upto(f) = [i \in 0 .. Count |-> IF i = 0 THEN 0 ELSE Upto(f)[i-1] + f[i-1]]
  BY <1>7 DEF Upto
<1>9. /\ Upto(f)[0] = 0
      /\ \A i \in 1 .. Count : Upto(f)[i] = Upto(f)[i-1] + f[i-1]
  BY <1>2, <1>8
<1>10. \A i \in 0 .. Count : Upto(f)[i] \in Nat
  <2>. DEFINE T == {i \in 0 .. Count : Upto(f)[i] \in Nat}
  <2>1. 0 \in T /\ \A i \in 1 .. Count : i - 1 \in T => i \in T
    BY <1>2, <1>9
  <2>2. \A i \in 0 .. Count : i \in T
    <3>. HIDE DEF T
    <3>. QED
      BY <2>1, <1>2, UpTo
  <2>. QED
    BY <2>2
<1>. QED
  BY <1>1, <1>9, <1>10

\* What one slot adds to the others.
LEMMA SumBeside ==
  ASSUME NEW f \in [Programs -> Nat], NEW g \in [Programs -> Nat],
         NEW p \in Programs, f[p] = 0, \A q \in Programs : q # p => f[q] <= g[q]
  PROVE  Total(f) + g[p] <= Total(g)
<1>. DEFINE F(i) == Upto(f)[i]
            G(i) == Upto(g)[i]
            T == {i \in 0 .. Count : F(i) + (IF i > p THEN g[p] ELSE 0) <= G(i)}
<1>1. /\ Total(f) = F(Count) /\ F(0) = 0
      /\ \A i \in 1 .. Count : F(i) = F(i-1) + f[i-1]
      /\ \A i \in 0 .. Count : F(i) \in Nat
  BY Sums
<1>2. /\ Total(g) = G(Count) /\ G(0) = 0
      /\ \A i \in 1 .. Count : G(i) = G(i-1) + g[i-1]
      /\ \A i \in 0 .. Count : G(i) \in Nat
  BY Sums
<1>3. p \in 0 .. Count - 1 /\ Count \in Nat /\ g[p] \in Nat
  BY Counted
<1>. HIDE DEF F, G
<1>4. 0 \in T
  BY <1>1, <1>2, <1>3
<1>5. ASSUME NEW i \in 1 .. Count, i - 1 \in T
      PROVE  i \in T
  <2>1. i - 1 \in Programs /\ f[i-1] \in Nat /\ g[i-1] \in Nat
    BY Counted
  <2>2. i - 1 \in 0 .. Count /\ F(i-1) \in Nat /\ G(i-1) \in Nat
    BY <1>1, <1>2, <1>3
  <2>3. F(i) = F(i-1) + f[i-1] /\ G(i) = G(i-1) + g[i-1]
    BY <1>1, <1>2
  <2>4. F(i-1) + (IF i-1 > p THEN g[p] ELSE 0) <= G(i-1)
    BY <1>5
  <2>5. IF i-1 = p THEN f[i-1] = 0 ELSE f[i-1] <= g[i-1]
    BY <2>1
  <2>6. F(i) + (IF i > p THEN g[p] ELSE 0) <= G(i)
    <3>1. CASE i-1 = p
      BY <3>1, <2>2, <2>3, <2>4, <2>5, <1>3, <2>1
    <3>2. CASE i-1 > p
      BY <3>2, <2>2, <2>3, <2>4, <2>5, <1>3, <2>1
    <3>3. CASE i-1 < p
      BY <3>3, <2>2, <2>3, <2>4, <2>5, <1>3, <2>1
    <3>. QED
      BY <3>1, <3>2, <3>3, <1>3
  <2>. QED
    BY <2>6
<1>6. Count \in T
  <2>. HIDE DEF T
  <2>. QED
    BY <1>3, <1>4, <1>5, UpTo
<1>. QED
  BY <1>1, <1>2, <1>3, <1>6

(***************************************************************************)
(* EXPORT registers.                                                       *)
(***************************************************************************)
Apart(f) == /\ \A p \in Programs : IrEnd(f[p]) <= IrPoolSize
            /\ \A p, q \in Programs :
                 p # q /\ f[p] # NoIr /\ f[q] # NoIr
                 => IrEnd(f[p]) <= f[q].off \/ IrEnd(f[q]) <= f[p].off

GoodIr == {f \in [Programs -> IrRanges] : Apart(f)}

LEMMA IrEnds ==
  ASSUME NEW r \in IrRanges
  PROVE  /\ IrEnd(r) \in Nat
         /\ r = NoIr => IrEnd(r) = 0
         /\ r # NoIr => r.off \in Nat /\ r.n \in Nat \ {0} /\ IrEnd(r) = r.off + r.n
BY StAssumption DEF IrRanges, IrEnd, NoIr

\* The first register behind all that are in use.
LEMMA IrTops ==
  ASSUME NEW f \in GoodIr
  PROVE  IrTop(f) \in Nat /\ \A p \in Programs : IrEnd(f[p]) <= IrTop(f)
<1>. DEFINE E == {0} \cup {IrEnd(f[p]) : p \in DOMAIN f}
            U == {u \in Nat : \A e \in E : e <= u}
<1>1. /\ f \in [Programs -> IrRanges]
      /\ \A p \in Programs : IrEnd(f[p]) \in Nat /\ IrEnd(f[p]) <= IrPoolSize
  BY IrEnds DEF GoodIr, Apart
<1>2. E \in SUBSET Nat /\ 0 \in E /\ \A e \in E : e <= IrPoolSize
  BY <1>1, StAssumption
<1>3. \A p \in Programs : IrEnd(f[p]) \in E
  BY <1>1
<1>. HIDE DEF E
<1>4. U \in SUBSET Nat /\ IrPoolSize \in U
  BY <1>2, StAssumption
<1>5. PICK u \in U : \A k \in U : u <= k
  <2>. HIDE DEF U
  <2>. QED
    BY <1>4, LeastOf
<1>6. u \in E
  <2>1. SUFFICES ASSUME u \notin E PROVE FALSE
    OBVIOUS
  <2>2. u \in Nat /\ \A e \in E : e <= u /\ e # u
    BY <2>1, <1>5
  <2>3. u - 1 \in U
    BY <2>2, <1>2
  <2>. QED
    BY <2>3, <1>5, <2>2
<1>7. \E x \in E : \A y \in E : x >= y
  BY <1>5, <1>6, <1>2
<1>8. Max(E) \in E /\ \A y \in E : Max(E) >= y
  BY <1>7 DEF Max
<1>9. IrTop(f) = Max(E)
  BY DEF IrTop, E
<1>. QED
  BY <1>2, <1>3, <1>8, <1>9

\* An allocation lies behind all others (ir_pool_allocate).
LEMMA AllocateApart ==
  ASSUME NEW f \in GoodIr, NEW p \in Programs, NEW n \in Nat
  PROVE  IrAllocate(f, p, n) \in GoodIr
<1>. DEFINE top == IrTop(f)
            r == [off |-> top, n |-> n]
            g == [f EXCEPT ![p] = r]
<1>1. top \in Nat /\ \A q \in Programs : IrEnd(f[q]) <= top
  BY IrTops
<1>2. f \in [Programs -> IrRanges] /\ Apart(f)
  BY DEF GoodIr
<1>. HIDE DEF top
<1>3. CASE n > 0 /\ n <= IrPoolSize /\ top + n <= IrPoolSize
  <2>1. IrAllocate(f, p, n) = g
    BY <1>3 DEF IrAllocate, top
  <2>2. r \in IrRanges /\ IrEnd(r) = top + n
    BY <1>1, <1>3, StAssumption DEF IrRanges, IrEnd, NoIr
  <2>. HIDE DEF r
  <2>3. g \in [Programs -> IrRanges]
    BY <1>2, <2>2
  <2>4. g[p] = r /\ \A q \in Programs : q # p => g[q] = f[q]
    BY <1>2
  <2>5. r.off = top
    BY DEF r
  <2>. HIDE DEF g
  <2>6. \A q \in Programs : IrEnd(g[q]) <= IrPoolSize
    BY <1>2, <1>3, <2>2, <2>4 DEF Apart
  <2>7. ASSUME NEW a \in Programs, NEW b \in Programs, a # b, g[a] # NoIr, g[b] # NoIr
        PROVE  IrEnd(g[a]) <= g[b].off \/ IrEnd(g[b]) <= g[a].off
    <3>1. CASE a = p
      BY <3>1, <2>7, <2>4, <2>5, <1>1
    <3>2. CASE b = p
      BY <3>2, <2>7, <2>4, <2>5, <1>1
    <3>3. CASE a # p /\ b # p
      BY <3>3, <2>7, <2>4, <1>2 DEF Apart
    <3>. QED
      BY <3>1, <3>2, <3>3
  <2>8. Apart(g)
    BY <2>6, <2>7 DEF Apart
  <2>. QED
    BY <2>1, <2>3, <2>8 DEF GoodIr
<1>4. CASE ~(n > 0 /\ n <= IrPoolSize /\ top + n <= IrPoolSize)
  BY <1>4 DEF IrAllocate, top
<1>. QED
  BY <1>3, <1>4

LEMMA FreeApart ==
  ASSUME NEW f \in GoodIr, NEW p \in Programs
  PROVE  IrFree(f, p) \in GoodIr
<1>1. f \in [Programs -> IrRanges] /\ Apart(f)
  BY DEF GoodIr
<1>2. IrFree(f, p) \in [Programs -> IrRanges]
  BY <1>1 DEF IrFree, IrRanges
<1>3. IrFree(f, p)[p] = NoIr /\ \A q \in Programs : q # p => IrFree(f, p)[q] = f[q]
  BY <1>1 DEF IrFree
<1>4. IrEnd(NoIr) = 0
  BY DEF IrEnd
<1>5. \A q \in Programs : IrEnd(IrFree(f, p)[q]) <= IrPoolSize
  BY <1>1, <1>3, <1>4, StAssumption DEF Apart
<1>6. \A a, b \in Programs :
        a # b /\ IrFree(f, p)[a] # NoIr /\ IrFree(f, p)[b] # NoIr
        => IrEnd(IrFree(f, p)[a]) <= IrFree(f, p)[b].off
           \/ IrEnd(IrFree(f, p)[b]) <= IrFree(f, p)[a].off
  BY <1>1, <1>3 DEF Apart
<1>. QED
  BY <1>2, <1>5, <1>6 DEF GoodIr, Apart

LEMMA NoneApart ==
  [p \in Programs |-> NoIr] \in GoodIr
BY StAssumption DEF GoodIr, Apart, IrRanges, IrEnd

\* So does everything that is handed out again (ir_pool_reallocate_all).
LEMMA ReallocateApart ==
  ASSUME NEW need \in [Programs -> Nat]
  PROVE  IrReallocateAll(need) \in GoodIr
<1>. DEFINE none == [p \in Programs |-> NoIr]
            step == [i \in 1 .. Count |-> [x \in GoodIr |-> IrAllocate(x, i-1, need[i-1])]]
            again == CHOOSE g : g = [i \in 0 .. Count |-> IF i = 0 THEN none
                                                   ELSE IrAllocate(g[i-1], i-1, need[i-1])]
<1>1. IrReallocateAll(need) = again[Count]
  BY DEF IrReallocateAll, Count
<1>2. /\ Count \in Nat /\ 0 \in 0 .. Count /\ Count \in 0 .. Count
      /\ \A i \in 1 .. Count : i - 1 \in 0 .. Count /\ i - 1 \in Programs /\ need[i-1] \in Nat
  BY Counted
<1>3. none \in GoodIr
  BY NoneApart
<1>. HIDE DEF none
<1>4. PICK g : Recurs(g, Count, none, step)
  <2>. HIDE DEF step
  <2>. QED
    BY <1>2, Recursion, Zenon
<1>5. g[0] = none /\ \A i \in 1 .. Count : g[i] = step[i][g[i-1]]
  BY <1>4 DEF Recurs
<1>6. ASSUME NEW i \in 1 .. Count, g[i-1] \in GoodIr
      PROVE  g[i] = IrAllocate(g[i-1], i-1, need[i-1]) /\ g[i] \in GoodIr
  <2>1. step[i] = [x \in GoodIr |-> IrAllocate(x, i-1, need[i-1])]
    OBVIOUS
  <2>. HIDE DEF step
  <2>2. g[i] = IrAllocate(g[i-1], i-1, need[i-1])
    BY <1>5, <1>6, <2>1
  <2>. QED
    BY <1>2, <1>6, <2>2, AllocateApart
<1>7. \A i \in 0 .. Count : g[i] \in GoodIr
  <2>. DEFINE T == {i \in 0 .. Count : g[i] \in GoodIr}
  <2>1. 0 \in T /\ \A i \in 1 .. Count : i - 1 \in T => i \in T
    BY <1>2, <1>3, <1>5, <1>6
  <2>2. \A i \in 0 .. Count : i \in T
    <3>. HIDE DEF T
    <3>. QED
      BY <2>1, <1>2, UpTo
  <2>. QED
    BY <2>2
<1>8. \E h : h = [i \in 0 .. Count |-> IF i = 0 THEN none
                                      ELSE IrAllocate(h[i-1], i-1, need[i-1])]
  <2>. DEFINE h == [i \in 0 .. Count |-> g[i]]
  <2>1. \A i \in 0 .. Count : h[i] = IF i = 0 THEN none
                                     ELSE IrAllocate(h[i-1], i-1, need[i-1])
    BY <1>2, <1>5, <1>6, <1>7
  <2>2. h = [i \in 0 .. Count |-> IF i = 0 THEN none
                                  ELSE IrAllocate(h[i-1], i-1, need[i-1])]
    BY <2>1
  <2>. HIDE DEF h
  <2>. QED
    BY <2>2
<1>9. again = [i \in 0 .. Count |-> IF i = 0 THEN none
                                    ELSE IrAllocate(again[i-1], i-1, need[i-1])]
  BY <1>8
<1>. HIDE DEF again
<1>10. /\ again[0] = none
       /\ \A i \in 1 .. Count : again[i] = IrAllocate(again[i-1], i-1, need[i-1])
  BY <1>2, <1>9
<1>11. \A i \in 0 .. Count : again[i] \in GoodIr
  <2>. DEFINE T == {i \in 0 .. Count : again[i] \in GoodIr}
  <2>1. 0 \in T
    BY <1>2, <1>3, <1>10
  <2>2. \A i \in 1 .. Count : i - 1 \in T => i \in T
    BY <1>2, <1>10, AllocateApart
  <2>3. \A i \in 0 .. Count : i \in T
    <3>. HIDE DEF T
    <3>. QED
      BY <2>1, <2>2, <1>2, UpTo
  <2>. QED
    BY <2>3
<1>. QED
  BY <1>1, <1>2, <1>11

(***************************************************************************)
(* What a handler has still to do.  The steps in a list come in an order,  *)
(* and no step comes twice.                                                *)
(***************************************************************************)
OfProgram == {"compile", "cache", "restored", "rebind", "load", "save"}
Steps == [do : OfProgram, p : Programs, t : {NoText}]
         \cup [do : {"replace"}, p : Programs, t : Texts \cup {NoText}]
         \cup [do : {"boot", "reallocate", "saveGlobals"}, p : {0}, t : {NoText}]
         \cup [do : {"interval"}, p : Nat, t : {NoText}]

\* The kinds of step that may come after one.
Follow(what) ==
  CASE what \in {"cache", "restored"} -> {"rebind", "replace", "load", "saveGlobals",
                                          "save", "reallocate"}
    [] what = "compile" -> {"saveGlobals", "save"}
    [] what = "rebind" -> {"replace", "saveGlobals", "save"}
    [] what = "replace" -> {"saveGlobals", "save"}
    [] what = "boot" -> {"load", "reallocate"}
    [] what = "load" -> {"reallocate"}
    [] what = "saveGlobals" -> {"save", "interval"}
    [] what = "save" -> {"interval"}
    [] OTHER -> {}

Before(s, u) == \/ u.do \in Follow(s.do)
                \/ s.do = u.do /\ s.do \in {"rebind", "replace", "load", "save"} /\ s.p < u.p

InOrder(l) == \A i, j \in DOMAIN l : i < j => Before(l[i], l[j])

ToDo(what, p) == Do(what, p) \in Range(todo)
AllSaves(l) == \A p \in Programs : Do("save", p) \in Range(l)
Booting == ToDo("reallocate", 0)

(***************************************************************************)
(* Sequences.                                                              *)
(***************************************************************************)
LEMMA TailRange ==
  ASSUME NEW S, NEW l \in Seq(S), l # <<>>
  PROVE  /\ Head(l) \in S /\ Tail(l) \in Seq(S)
         /\ Range(l) = {Head(l)} \cup Range(Tail(l))
<1>1. /\ Len(l) \in Nat \ {0} /\ DOMAIN l = 1 .. Len(l)
      /\ Head(l) = l[1] /\ Head(l) \in S
      /\ Tail(l) \in Seq(S) /\ Len(Tail(l)) = Len(l) - 1
      /\ \A i \in 1 .. Len(Tail(l)) : Tail(l)[i] = l[i+1]
  BY HeadTailProperties, EmptySeq, LenProperties
<1>2. DOMAIN Tail(l) = 1 .. Len(l) - 1
  BY <1>1, LenProperties
<1>3. \A x \in Range(l) : x = Head(l) \/ x \in Range(Tail(l))
  <2>1. ASSUME NEW i \in DOMAIN l, i # 1 PROVE l[i] \in Range(Tail(l))
    <3>1. i - 1 \in DOMAIN Tail(l) /\ Tail(l)[i-1] = l[i]
      BY <2>1, <1>1, <1>2
    <3>. QED
      BY <3>1 DEF Range
  <2>. QED
    BY <2>1, <1>1 DEF Range
<1>4. Head(l) \in Range(l)
  BY <1>1 DEF Range
<1>5. ASSUME NEW i \in DOMAIN Tail(l) PROVE Tail(l)[i] \in Range(l)
  <2>1. i + 1 \in DOMAIN l /\ Tail(l)[i] = l[i+1]
    BY <1>1, <1>2
  <2>. QED
    BY <2>1 DEF Range
<1>. QED
  BY <1>1, <1>3, <1>4, <1>5 DEF Range

LEMMA JoinRange ==
  ASSUME NEW S, NEW l \in Seq(S), NEW m \in Seq(S)
  PROVE  /\ l \o m \in Seq(S)
         /\ Range(l \o m) = Range(l) \cup Range(m)
<1>1. /\ l \o m \in Seq(S) /\ Len(l \o m) = Len(l) + Len(m)
      /\ Len(l) \in Nat /\ Len(m) \in Nat
      /\ DOMAIN l = 1 .. Len(l) /\ DOMAIN m = 1 .. Len(m)
      /\ \A i \in 1 .. Len(l) + Len(m) :
           (l \o m)[i] = IF i <= Len(l) THEN l[i] ELSE m[i - Len(l)]
  BY ConcatProperties, LenProperties
<1>2. DOMAIN (l \o m) = 1 .. Len(l) + Len(m)
  BY <1>1, LenProperties
<1>3. ASSUME NEW i \in DOMAIN (l \o m) PROVE (l \o m)[i] \in Range(l) \cup Range(m)
  <2>1. CASE i <= Len(l)
    BY <2>1, <1>1, <1>2 DEF Range
  <2>2. CASE i > Len(l)
    <3>1. i - Len(l) \in DOMAIN m /\ (l \o m)[i] = m[i - Len(l)]
      BY <2>2, <1>1, <1>2
    <3>. QED
      BY <3>1 DEF Range
  <2>. QED
    BY <2>1, <2>2, <1>1, <1>2
<1>4. ASSUME NEW i \in DOMAIN l PROVE l[i] \in Range(l \o m)
  <2>1. i \in DOMAIN (l \o m) /\ (l \o m)[i] = l[i]
    BY <1>1, <1>2
  <2>. QED
    BY <2>1 DEF Range
<1>5. ASSUME NEW i \in DOMAIN m PROVE m[i] \in Range(l \o m)
  <2>1. Len(l) + i \in DOMAIN (l \o m) /\ (l \o m)[Len(l) + i] = m[i]
    BY <1>1, <1>2
  <2>. QED
    BY <2>1 DEF Range
<1>6. \A x : x \in Range(l \o m) => x \in Range(l) \cup Range(m)
  BY <1>3 DEF Range
<1>7. \A x : x \in Range(l) \cup Range(m) => x \in Range(l \o m)
  BY <1>4, <1>5 DEF Range
<1>. QED
  BY <1>1, <1>6, <1>7

LEMMA PushRange ==
  ASSUME NEW S, NEW x \in S, NEW m \in Seq(S)
  PROVE  /\ <<x>> \o m \in Seq(S)
         /\ Range(<<x>> \o m) = {x} \cup Range(m)
<1>. DEFINE one == <<x>>
<1>1. one \in Seq(S)
  OBVIOUS
<1>2. Range(one) = {x}
  <2>1. DOMAIN one = {1} /\ one[1] = x
    OBVIOUS
  <2>. QED
    BY <2>1 DEF Range
<1>. HIDE DEF one
<1>3. one \o m \in Seq(S) /\ Range(one \o m) = {x} \cup Range(m)
  BY <1>1, <1>2, JoinRange
<1>. QED
  BY <1>3 DEF one

LEMMA TailOrder ==
  ASSUME NEW l \in Seq(Steps), l # <<>>, InOrder(l)
  PROVE  InOrder(Tail(l)) /\ \A u \in Range(Tail(l)) : Before(Head(l), u)
<1>1. /\ Len(l) \in Nat \ {0} /\ DOMAIN l = 1 .. Len(l)
      /\ Head(l) = l[1]
      /\ Tail(l) \in Seq(Steps) /\ Len(Tail(l)) = Len(l) - 1
      /\ \A i \in 1 .. Len(Tail(l)) : Tail(l)[i] = l[i+1]
  BY HeadTailProperties, EmptySeq, LenProperties
<1>2. DOMAIN Tail(l) = 1 .. Len(l) - 1
  BY <1>1, LenProperties
<1>3. \A i \in DOMAIN Tail(l) : i + 1 \in DOMAIN l /\ Tail(l)[i] = l[i+1] /\ 1 < i + 1
  BY <1>1, <1>2
<1>4. InOrder(Tail(l))
  BY <1>2, <1>3 DEF InOrder
<1>5. \A i \in DOMAIN Tail(l) : Before(Head(l), Tail(l)[i])
  BY <1>1, <1>3 DEF InOrder
<1>. QED
  BY <1>4, <1>5 DEF Range

LEMMA JoinOrder ==
  ASSUME NEW l \in Seq(Steps), NEW m \in Seq(Steps), InOrder(l), InOrder(m),
         \A u \in Range(l), v \in Range(m) : Before(u, v)
  PROVE  InOrder(l \o m)
<1>1. /\ l \o m \in Seq(Steps) /\ Len(l \o m) = Len(l) + Len(m)
      /\ Len(l) \in Nat /\ Len(m) \in Nat
      /\ DOMAIN l = 1 .. Len(l) /\ DOMAIN m = 1 .. Len(m)
      /\ \A i \in 1 .. Len(l) + Len(m) :
           (l \o m)[i] = IF i <= Len(l) THEN l[i] ELSE m[i - Len(l)]
  BY ConcatProperties, LenProperties
<1>2. DOMAIN (l \o m) = 1 .. Len(l) + Len(m)
  BY <1>1, LenProperties
<1>3. SUFFICES ASSUME NEW i \in DOMAIN (l \o m), NEW j \in DOMAIN (l \o m), i < j
               PROVE  Before((l \o m)[i], (l \o m)[j])
  BY DEF InOrder
<1>4. CASE j <= Len(l)
  <2>1. i \in DOMAIN l /\ j \in DOMAIN l /\ (l \o m)[i] = l[i] /\ (l \o m)[j] = l[j]
    BY <1>1, <1>2, <1>3, <1>4
  <2>. QED
    BY <2>1, <1>3 DEF InOrder
<1>5. CASE i > Len(l)
  <2>1. /\ i - Len(l) \in DOMAIN m /\ j - Len(l) \in DOMAIN m
        /\ i - Len(l) < j - Len(l)
        /\ (l \o m)[i] = m[i - Len(l)] /\ (l \o m)[j] = m[j - Len(l)]
    BY <1>1, <1>2, <1>3, <1>5
  <2>. QED
    BY <2>1 DEF InOrder
<1>6. CASE i <= Len(l) /\ j > Len(l)
  <2>1. /\ i \in DOMAIN l /\ j - Len(l) \in DOMAIN m
        /\ (l \o m)[i] = l[i] /\ (l \o m)[j] = m[j - Len(l)]
    BY <1>1, <1>2, <1>3, <1>6
  <2>2. (l \o m)[i] \in Range(l) /\ (l \o m)[j] \in Range(m)
    BY <2>1 DEF Range
  <2>. QED
    BY <2>2
<1>. QED
  BY <1>1, <1>2, <1>4, <1>5, <1>6

LEMMA PushOrder ==
  ASSUME NEW x \in Steps, NEW m \in Seq(Steps), InOrder(m),
         \A v \in Range(m) : Before(x, v)
  PROVE  InOrder(<<x>> \o m)
<1>1. <<x>> \in Seq(Steps) /\ DOMAIN <<x>> = {1} /\ <<x>>[1] = x
  OBVIOUS
<1>2. Range(<<x>>) = {x} /\ InOrder(<<x>>)
  BY <1>1 DEF Range, InOrder
<1>. QED
  BY <1>1, <1>2, JoinOrder

LEMMA NoStep ==
  <<>> \in Seq(Steps) /\ InOrder(<<>>) /\ Range(<<>>) = {}
<1>1. DOMAIN <<>> = {}
  OBVIOUS
<1>. QED
  BY <1>1 DEF InOrder, Range

(***************************************************************************)
(* The lists of steps.                                                     *)
(***************************************************************************)
LEMMA EachRange ==
  ASSUME NEW what \in {"rebind", "load", "save"}
  PROVE  /\ Each(what) \in Seq(Steps) /\ InOrder(Each(what))
         /\ Range(Each(what)) = {Do(what, p) : p \in Programs}
<1>1. /\ Count \in Nat /\ Slots = [i \in 1 .. Count |-> i - 1]
      /\ \A i \in 1 .. Count : i - 1 \in Programs
      /\ \A p \in Programs : p + 1 \in 1 .. Count /\ p = (p + 1) - 1
  BY Counted DEF Slots, Count
<1>2. Slots \in Seq(Programs) /\ Len(Slots) = Count
  BY <1>1
<1>3. Each(what) = [i \in 1 .. Count |-> Do(what, i - 1)]
  BY <1>1, <1>2 DEF Each
<1>4. \A p \in Programs : Do(what, p) \in Steps /\ Do(what, p).do = what /\ Do(what, p).p = p
  BY DEF Do, Steps, OfProgram
<1>5. Each(what) \in Seq(Steps)
  BY <1>1, <1>3, <1>4
<1>6. InOrder(Each(what))
  <2>1. SUFFICES ASSUME NEW i \in 1 .. Count, NEW j \in 1 .. Count, i < j
                 PROVE  Before(Each(what)[i], Each(what)[j])
    BY <1>3 DEF InOrder
  <2>2. /\ Each(what)[i] = Do(what, i - 1) /\ Each(what)[j] = Do(what, j - 1)
        /\ i - 1 \in Programs /\ j - 1 \in Programs /\ i - 1 < j - 1
    BY <1>1, <1>3, <2>1
  <2>. QED
    BY <2>2, <1>4 DEF Before
<1>7. \A x : x \in Range(Each(what)) => x \in {Do(what, p) : p \in Programs}
  BY <1>1, <1>3 DEF Range
<1>8. ASSUME NEW p \in Programs PROVE Do(what, p) \in Range(Each(what))
  <2>1. p + 1 \in DOMAIN Each(what) /\ Each(what)[p + 1] = Do(what, p)
    BY <1>1, <1>3
  <2>. QED
    BY <2>1 DEF Range
<1>. QED
  BY <1>5, <1>6, <1>7, <1>8

ScriptOK(l) ==
  /\ l \in Seq(Steps)
  /\ InOrder(l)
  /\ \A s \in Range(l) :
       /\ s.do \in {"compile", "rebind", "replace"} => AllSaves(l)
       /\ s.do \in {"boot", "load"} => Do("reallocate", 0) \in Range(l)

ScriptInv == ScriptOK(todo)

(***************************************************************************)
(* Texts, sizes and code.                                                  *)
(***************************************************************************)
GoodCode(c) == c \in Codes /\ c.text \in Texts /\ (UsesOf[c.text] # NoName => c.idx > 0)
Whole(p) == dat[p] \notin {NoFile, Torn}
Saved(p) == Whole(p) /\ dat[p].text = prog[p].text
Unsaved(p) == prog[p].compiled /\ prog[p].text \in Texts /\ ~Saved(p)

DataInv ==
  /\ globals.layout \in Seq(Range(globals.layout))
  /\ \A p \in Programs :
       /\ prog[p].text \in Texts => prog[p].size = SizeOf[prog[p].text]
       /\ prog[p].code = NoCode \/ GoodCode(prog[p].code)
       /\ Whole(p) => /\ dat[p].text # NoText
                      /\ dat[p].text \in Texts => dat[p].size = SizeOf[dat[p].text]
       /\ bc[p] \notin {NoFile, Torn} => GoodCode(bc[p])
       /\ ToDo("cache", p) => prog[p].code # NoCode

SaveInv == \A p \in Programs :
  /\ Unsaved(p) => ToDo("save", p)
  /\ ToDo("compile", p) => ~prog[p].compiled /\ \A q \in Programs : ~Unsaved(q)
  /\ ToDo("restored", p) => /\ ~prog[p].compiled
                            /\ AllSaves(todo) \/ (Booting /\ Saved(p))

(***************************************************************************)
(* A boot.                                                                 *)
(***************************************************************************)
InPool(p) == IF prog[p].text = NoText THEN 0 ELSE prog[p].size
Fit == Total([p \in Programs |-> FileSize(p)]) <= PoolSize
Runs(p) == \/ prog[p].compiled /\ prog[p].code.text = dat[p].text
           \/ HeapFails /\ prog[p].code = NoCode

BootInv ==
  /\ \A p \in Programs : ToDo("load", p) => prog[p] = Blank
  /\ ToDo("boot", 0) => \A p \in Programs : ToDo("load", p)
  /\ Booting => \A p \in Programs : /\ prog[p].compiled => GoodCode(prog[p].code)
                                    /\ InPool(p) <= FileSize(p)
  /\ Booting /\ Fit => \A p \in Programs :
       Whole(p) /\ ~ToDo("load", p)
       => /\ prog[p].text = dat[p].text
          /\ ToDo("restored", p) \/ (Compilable(dat[p].text) => Runs(p))

Inv == TypeOK /\ ScriptInv /\ DataInv /\ SaveInv /\ BootInv /\ RunsItsText /\ ir \in GoodIr

(***************************************************************************)
(* The lists of steps a handler starts with.                               *)
(***************************************************************************)
Saves == {Do("saveGlobals", 0)} \cup {Do("save", p) : p \in Programs}

LEMMA OneStep ==
  ASSUME NEW x \in Steps
  PROVE  <<x>> \in Seq(Steps) /\ InOrder(<<x>>) /\ Range(<<x>>) = {x}
<1>1. <<x>> \in Seq(Steps) /\ DOMAIN <<x>> = {1} /\ <<x>>[1] = x
  OBVIOUS
<1>. QED
  BY <1>1 DEF Range, InOrder

LEMMA SaveScript ==
  /\ ScriptOK(SaveAll) /\ Range(SaveAll) = Saves /\ AllSaves(SaveAll)
<1>. DEFINE x == Do("saveGlobals", 0)
            l == Each("save")
<1>1. x \in Steps /\ x.do = "saveGlobals"
  BY DEF Do, Steps
<1>2. l \in Seq(Steps) /\ InOrder(l) /\ Range(l) = {Do("save", p) : p \in Programs}
  BY EachRange
<1>3. \A v \in Range(l) : Before(x, v)
  BY <1>1, <1>2 DEF Before, Follow, Do
<1>. HIDE DEF x, l
<1>4. /\ <<x>> \o l \in Seq(Steps) /\ InOrder(<<x>> \o l)
      /\ Range(<<x>> \o l) = {x} \cup Range(l)
  BY <1>1, <1>2, <1>3, PushRange, PushOrder
<1>5. SaveAll = <<x>> \o l
  BY DEF SaveAll, x, l
<1>6. Range(SaveAll) = Saves
  BY <1>2, <1>4, <1>5 DEF Saves, x
<1>7. \A s \in Saves : s.do \in {"saveGlobals", "save"}
  BY DEF Saves, Do
<1>8. AllSaves(SaveAll)
  BY <1>6 DEF AllSaves, Saves
<1>. QED
  BY <1>4, <1>5, <1>6, <1>7, <1>8 DEF ScriptOK

\* Steps before the saves.
LEMMA ThenSave ==
  ASSUME NEW l \in Seq(Steps), InOrder(l),
         \A s \in Range(l) : s.do \in {"compile", "rebind", "replace"}
  PROVE  /\ ScriptOK(l \o SaveAll) /\ AllSaves(l \o SaveAll)
         /\ Range(l \o SaveAll) = Range(l) \cup Saves
<1>1. SaveAll \in Seq(Steps) /\ InOrder(SaveAll) /\ Range(SaveAll) = Saves
  BY SaveScript DEF ScriptOK
<1>2. \A s \in Saves : s.do \in {"saveGlobals", "save"}
  BY DEF Saves, Do
<1>3. \A s \in Range(l), u \in Saves : Before(s, u)
  BY <1>2 DEF Before, Follow
<1>4. /\ l \o SaveAll \in Seq(Steps) /\ InOrder(l \o SaveAll)
      /\ Range(l \o SaveAll) = Range(l) \cup Saves
  BY <1>1, <1>3, JoinRange, JoinOrder
<1>5. AllSaves(l \o SaveAll)
  BY <1>4 DEF AllSaves, Saves
<1>. QED
  BY <1>2, <1>4, <1>5 DEF ScriptOK

LEMMA CompileScript ==
  ASSUME NEW p \in Programs
  PROVE  /\ ScriptOK(<<Do("compile", p)>> \o SaveAll)
         /\ AllSaves(<<Do("compile", p)>> \o SaveAll)
         /\ Range(<<Do("compile", p)>> \o SaveAll) = {Do("compile", p)} \cup Saves
<1>. DEFINE x == Do("compile", p)
<1>1. x \in Steps /\ x.do = "compile"
  BY DEF Do, Steps, OfProgram
<1>. HIDE DEF x
<1>2. <<x>> \in Seq(Steps) /\ InOrder(<<x>>) /\ Range(<<x>>) = {x}
  BY <1>1, OneStep
<1>3. /\ ScriptOK(<<x>> \o SaveAll) /\ AllSaves(<<x>> \o SaveAll)
      /\ Range(<<x>> \o SaveAll) = {x} \cup Saves
  BY <1>1, <1>2, ThenSave
<1>. QED
  BY <1>3 DEF x

LEMMA RebindScript ==
  /\ ScriptOK(Recompiles \o SaveAll) /\ AllSaves(Recompiles \o SaveAll)
  /\ Range(Recompiles \o SaveAll) = {Do("rebind", p) : p \in Programs} \cup Saves
<1>. DEFINE l == Recompiles
<1>1. l \in Seq(Steps) /\ InOrder(l) /\ Range(l) = {Do("rebind", p) : p \in Programs}
  BY EachRange DEF Recompiles
<1>2. \A s \in Range(l) : s.do = "rebind"
  BY <1>1 DEF Do
<1>. HIDE DEF l
<1>3. /\ ScriptOK(l \o SaveAll) /\ AllSaves(l \o SaveAll)
      /\ Range(l \o SaveAll) = Range(l) \cup Saves
  BY <1>1, <1>2, ThenSave
<1>. QED
  BY <1>1, <1>3 DEF l

LEMMA IntervalScript ==
  ASSUME NEW i \in Nat
  PROVE  /\ ScriptOK(SaveAll \o <<Do("interval", i)>>)
         /\ Range(SaveAll \o <<Do("interval", i)>>) = Saves \cup {Do("interval", i)}
<1>. DEFINE x == Do("interval", i)
            m == <<x>>
<1>1. x \in Steps /\ x.do = "interval"
  BY DEF Do, Steps
<1>2. m \in Seq(Steps) /\ InOrder(m) /\ Range(m) = {x}
  <2>. HIDE DEF x
  <2>. QED
    BY <1>1, OneStep
<1>3. SaveAll \in Seq(Steps) /\ InOrder(SaveAll) /\ Range(SaveAll) = Saves
  BY SaveScript DEF ScriptOK
<1>4. \A s \in Saves : s.do \in {"saveGlobals", "save"}
  BY DEF Saves, Do
<1>. HIDE DEF x, m
<1>5. \A s \in Range(SaveAll), u \in Range(m) : Before(s, u)
  BY <1>1, <1>2, <1>3, <1>4 DEF Before, Follow
<1>6. /\ SaveAll \o m \in Seq(Steps) /\ InOrder(SaveAll \o m)
      /\ Range(SaveAll \o m) = Saves \cup {x}
  BY <1>2, <1>3, <1>5, JoinRange, JoinOrder
<1>7. ScriptOK(SaveAll \o m)
  BY <1>1, <1>4, <1>6 DEF ScriptOK
<1>. QED
  BY <1>6, <1>7 DEF m, x

Replacements(b) ==
  [i \in 1 .. Len(Slots) |-> [do |-> "replace", p |-> Slots[i], t |-> b.t[Slots[i]]]]

LEMMA RestoreScript ==
  ASSUME NEW b \in Backups, NEW l \in {<<>>, Recompiles}
  PROVE  /\ ScriptOK(l \o Replacements(b) \o SaveAll)
         /\ AllSaves(l \o Replacements(b) \o SaveAll)
         /\ Range(l) \subseteq Range(l \o Replacements(b) \o SaveAll)
         /\ \A s \in Range(l \o Replacements(b) \o SaveAll) :
              s.do \in {"rebind", "replace", "saveGlobals", "save"}
<1>. DEFINE r == Replacements(b)
<1>1. /\ Count \in Nat /\ Slots = [i \in 1 .. Count |-> i - 1]
      /\ \A i \in 1 .. Count : i - 1 \in Programs
  BY Counted DEF Slots, Count
<1>2. Slots \in Seq(Programs) /\ Len(Slots) = Count
  BY <1>1
<1>3. b.t \in [Programs -> Texts \cup {NoText}]
  BY StAssumption
<1>4. r = [i \in 1 .. Count |-> [do |-> "replace", p |-> i - 1, t |-> b.t[i - 1]]]
  BY <1>1, <1>2 DEF Replacements
<1>5. \A i \in 1 .. Count : r[i] \in Steps /\ r[i].do = "replace" /\ r[i].p = i - 1
  BY <1>1, <1>3, <1>4 DEF Steps
<1>6. r \in Seq(Steps) /\ DOMAIN r = 1 .. Count
  BY <1>1, <1>4, <1>5
<1>. HIDE DEF r
<1>7. InOrder(r)
  BY <1>1, <1>5, <1>6 DEF InOrder, Before
<1>8. \A s \in Range(r) : s.do = "replace"
  BY <1>5, <1>6 DEF Range
<1>9. l \in Seq(Steps) /\ InOrder(l) /\ \A s \in Range(l) : s.do = "rebind"
  <2>1. Recompiles \in Seq(Steps) /\ InOrder(Recompiles)
        /\ Range(Recompiles) = {Do("rebind", p) : p \in Programs}
    BY EachRange DEF Recompiles
  <2>2. \A s \in Range(Recompiles) : s.do = "rebind"
    BY <2>1 DEF Do
  <2>. HIDE DEF Recompiles
  <2>. QED
    BY <2>1, <2>2, NoStep
<1>10. \A s \in Range(l), u \in Range(r) : Before(s, u)
  BY <1>8, <1>9 DEF Before, Follow
<1>11. l \o r \in Seq(Steps) /\ InOrder(l \o r) /\ Range(l \o r) = Range(l) \cup Range(r)
  BY <1>6, <1>7, <1>9, <1>10, JoinRange, JoinOrder
<1>12. \A s \in Range(l \o r) : s.do \in {"rebind", "replace"}
  BY <1>8, <1>9, <1>11
<1>13. /\ ScriptOK((l \o r) \o SaveAll) /\ AllSaves((l \o r) \o SaveAll)
       /\ Range((l \o r) \o SaveAll) = Range(l \o r) \cup Saves
  BY <1>11, <1>12, ThenSave
<1>14. \A s \in Saves : s.do \in {"saveGlobals", "save"}
  BY DEF Saves, Do
<1>. QED
  BY <1>11, <1>12, <1>13, <1>14 DEF r

LEMMA BootScript ==
  /\ ScriptOK(Boot)
  /\ Range(Boot) = {Do("boot", 0), Do("reallocate", 0)} \cup {Do("load", p) : p \in Programs}
<1>. DEFINE x == Do("boot", 0)
            y == Do("reallocate", 0)
            l == Each("load")
            m == <<y>>
<1>1. x \in Steps /\ y \in Steps /\ x.do = "boot" /\ y.do = "reallocate"
  BY DEF Do, Steps
<1>2. l \in Seq(Steps) /\ InOrder(l) /\ Range(l) = {Do("load", p) : p \in Programs}
  BY EachRange
<1>3. \A s \in Range(l) : s.do = "load"
  BY <1>2 DEF Do
<1>. HIDE DEF x, y, l
<1>4. m \in Seq(Steps) /\ InOrder(m) /\ Range(m) = {y}
  BY <1>1, OneStep
<1>. HIDE DEF m
<1>5. \A v \in Range(l) : Before(x, v)
  BY <1>1, <1>3 DEF Before, Follow
<1>6. /\ <<x>> \o l \in Seq(Steps) /\ InOrder(<<x>> \o l)
      /\ Range(<<x>> \o l) = {x} \cup Range(l)
  BY <1>1, <1>2, <1>5, PushRange, PushOrder
<1>. DEFINE k == <<x>> \o l
<1>7. \A s \in Range(k), u \in Range(m) : Before(s, u)
  BY <1>1, <1>3, <1>4, <1>6 DEF Before, Follow
<1>12. k \in Seq(Steps) /\ InOrder(k) /\ Range(k) = {x} \cup Range(l)
  BY <1>6
<1>13. Boot = k \o m
  BY DEF Boot, x, y, l, m
<1>. HIDE DEF k
<1>8. k \o m \in Seq(Steps) /\ InOrder(k \o m) /\ Range(k \o m) = {x, y} \cup Range(l)
  BY <1>4, <1>12, <1>7, JoinRange, JoinOrder
<1>9. Boot = k \o m
  BY <1>13
<1>10. \A s \in Range(Boot) : s.do \in {"boot", "reallocate", "load"}
  BY <1>1, <1>3, <1>8, <1>9
<1>11. ScriptOK(Boot)
  BY <1>8, <1>9, <1>10 DEF ScriptOK, y
<1>. QED
  BY <1>2, <1>8, <1>9, <1>11 DEF x, y

(***************************************************************************)
(* What is left of a list.                                                 *)
(***************************************************************************)
Later == Range(Tail(todo))

LEMMA Heads ==
  ASSUME ScriptInv, todo # <<>>
  PROVE  /\ Head(todo) \in Steps
         /\ ScriptOK(Tail(todo))
         /\ Range(todo) = {Head(todo)} \cup Later
         /\ Head(todo) \notin Later
         /\ Later \subseteq Steps
         /\ \A u \in Later : /\ Before(Head(todo), u)
                             /\ u.do \notin {"compile", "cache", "restored", "boot"}
<1>. DEFINE h == Head(todo)
<1>1. /\ h \in Steps /\ Tail(todo) \in Seq(Steps)
      /\ Range(todo) = {h} \cup Later
  BY TailRange DEF ScriptInv, ScriptOK, Later
<1>2. InOrder(Tail(todo)) /\ \A u \in Later : Before(h, u)
  BY TailOrder DEF ScriptInv, ScriptOK, Later
<1>3. Later \subseteq Steps
  <2>1. \A i \in DOMAIN Tail(todo) : Tail(todo)[i] \in Steps
    BY <1>1, LenProperties, ElementOfSeq
  <2>. QED
    BY <2>1 DEF Later, Range
<1>. HIDE DEF h
<1>4. ~Before(h, h)
  <2>1. h.do \in {"compile", "cache", "restored", "rebind", "load", "save", "replace",
                  "boot", "reallocate", "saveGlobals", "interval"} /\ h.p \in Int
    BY <1>1, Counted DEF Steps, OfProgram
  <2>. QED
    BY <2>1 DEF Before, Follow
<1>5. \A u \in Later : u.do \notin {"compile", "cache", "restored", "boot"}
  BY <1>2 DEF Before, Follow
<1>6. ASSUME NEW s \in Later
      PROVE  /\ s.do \in {"compile", "rebind", "replace"} => AllSaves(Tail(todo))
             /\ s.do \in {"boot", "load"} => Do("reallocate", 0) \in Later
  <2>1. Before(h, s) /\ s \in Range(todo)
    BY <1>1, <1>2
  <2>2. CASE s.do \in {"compile", "rebind", "replace"}
    <3>1. AllSaves(todo)
      BY <2>1, <2>2 DEF ScriptInv, ScriptOK
    <3>2. h.do # "save"
      BY <2>1, <2>2 DEF Before, Follow
    <3>3. \A p \in Programs : Do("save", p) # h
      BY <3>2 DEF Do
    <3>4. \A p \in Programs : Do("save", p) \in Later
      BY <1>1, <3>1, <3>3 DEF AllSaves
    <3>. QED
      BY <2>2, <3>4 DEF AllSaves, Later
  <2>3. CASE s.do \in {"boot", "load"}
    <3>1. Do("reallocate", 0) \in Range(todo)
      BY <2>1, <2>3 DEF ScriptInv, ScriptOK
    <3>2. h.do # "reallocate"
      BY <2>1, <2>3 DEF Before, Follow
    <3>3. Do("reallocate", 0) # h
      BY <3>2 DEF Do
    <3>. QED
      BY <2>3, <1>1, <3>1, <3>3
  <2>. QED
    BY <2>2, <2>3
<1>7. ScriptOK(Tail(todo))
  BY <1>1, <1>2, <1>6 DEF ScriptOK, Later
<1>. QED
  BY <1>1, <1>2, <1>3, <1>4, <1>5, <1>7 DEF h

\* A step that comes at once.
LEMMA PushScript ==
  ASSUME ScriptInv, todo # <<>>, NEW x \in Steps, x.do \in {"cache", "restored"},
         Head(todo).do \in {"compile", "rebind", "restored", "replace", "load"}
  PROVE  /\ ScriptOK(<<x>> \o Tail(todo))
         /\ Range(<<x>> \o Tail(todo)) = {x} \cup Later
<1>1. /\ ScriptOK(Tail(todo)) /\ Later = Range(Tail(todo))
      /\ \A u \in Later : Before(Head(todo), u)
  BY Heads DEF Later
<1>2. \A u \in Later : Before(x, u)
  BY <1>1 DEF Before, Follow
<1>3. /\ <<x>> \o Tail(todo) \in Seq(Steps) /\ InOrder(<<x>> \o Tail(todo))
      /\ Range(<<x>> \o Tail(todo)) = {x} \cup Later
  BY <1>1, <1>2, PushRange, PushOrder DEF ScriptOK
<1>. QED
  BY <1>1, <1>3 DEF ScriptOK, AllSaves

LEMMA DoEq ==
  \A w, p, v, q : /\ Do(w, p) = Do(v, q) <=> w = v /\ p = q
                  /\ Do(w, p).do = w /\ Do(w, p).p = p
BY DEF Do

\* The step that is due.
LEMMA AtHead ==
  ASSUME ScriptInv, NEW k, At(k)
  PROVE  /\ todo # <<>> /\ Head(todo).do = k /\ Head(todo) \in Steps
         /\ k # "replace" => Head(todo) = Do(k, This)
         /\ k \in OfProgram \cup {"replace"} => This \in Programs
         /\ k \in {"boot", "reallocate", "saveGlobals"} => This = 0
         /\ This \in Nat
         /\ k = "replace" => Head(todo).t \in Texts \cup {NoText}
<1>1. todo # <<>> /\ Head(todo).do = k
  BY DEF At
<1>2. Head(todo) \in Steps
  BY <1>1, Heads
<1>. DEFINE h == Head(todo)
<1>. HIDE DEF h
<1>3. /\ h \in Steps /\ h.do = k
  BY <1>1, <1>2 DEF h
<1>4. /\ k # "replace" => h = Do(k, h.p)
      /\ k \in OfProgram \cup {"replace"} => h.p \in Programs
      /\ k \in {"boot", "reallocate", "saveGlobals"} => h.p = 0
      /\ h.p \in Nat
      /\ k = "replace" => h.t \in Texts \cup {NoText}
  BY <1>3, Counted DEF Steps, OfProgram, Do
<1>. QED
  BY <1>1, <1>2, <1>4 DEF h, This

LEMMA LaterKinds ==
  ASSUME ScriptInv, todo # <<>>, NEW w, NEW p, Do(w, p) \in Later
  PROVE  /\ w \in Follow(Head(todo).do)
            \/ (w = Head(todo).do /\ w \in {"rebind", "replace", "load", "save"})
         /\ Do(w, p) # Head(todo)
         /\ w \notin {"compile", "cache", "restored", "boot"}
<1>1. Before(Head(todo), Do(w, p)) /\ Do(w, p) # Head(todo)
      /\ Do(w, p).do \notin {"compile", "cache", "restored", "boot"}
  BY Heads
<1>. QED
  BY <1>1, DoEq DEF Before

\* What is still to do, before and after a step.
LEMMA Now ==
  ASSUME ScriptInv, todo # <<>>
  PROVE  \A w, p : ToDo(w, p) <=> Do(w, p) = Head(todo) \/ Do(w, p) \in Later
BY Heads DEF ToDo

LEMMA Consumed ==
  ASSUME ScriptInv, todo # <<>>, todo' = Tail(todo)
  PROVE  /\ ScriptInv'
         /\ \A w, p : ToDo(w, p)' <=> Do(w, p) \in Later
<1>1. ScriptOK(Tail(todo))
  BY Heads
<1>2. ScriptInv'
  BY <1>1 DEF ScriptInv
<1>3. Range(todo)' = Later
  BY DEF Later, Range
<1>. QED
  BY <1>2, <1>3 DEF ToDo

LEMMA Pushed ==
  ASSUME ScriptInv, todo # <<>>, NEW k \in {"cache", "restored"}, NEW p \in Programs,
         todo' = <<Do(k, p)>> \o Tail(todo),
         Head(todo).do \in {"compile", "rebind", "restored", "replace", "load"}
  PROVE  /\ ScriptInv'
         /\ \A w, q : ToDo(w, q)' <=> (w = k /\ q = p) \/ Do(w, q) \in Later
<1>. DEFINE x == Do(k, p)
<1>1. x \in Steps /\ x.do = k
  BY DEF Do, Steps, OfProgram
<1>. HIDE DEF x
<1>2. ScriptOK(<<x>> \o Tail(todo)) /\ Range(<<x>> \o Tail(todo)) = {x} \cup Later
  BY <1>1, PushScript
<1>3. todo' = <<x>> \o Tail(todo)
  BY DEF x
<1>4. ScriptInv'
  BY <1>2, <1>3 DEF ScriptInv
<1>5. Range(todo)' = {x} \cup Later
  BY <1>2, <1>3 DEF Range
<1>6. \A w, q : ToDo(w, q)' <=> Do(w, q) = x \/ Do(w, q) \in Later
  BY <1>5 DEF ToDo
<1>. QED
  BY <1>4, <1>6, DoEq DEF x

\* A handler that begins or ends.
LEMMA Started ==
  ASSUME NEW l, ScriptOK(l), todo' = l
  PROVE  /\ ScriptInv'
         /\ \A w, p : ToDo(w, p)' <=> Do(w, p) \in Range(l)
         /\ AllSaves(todo)' <=> AllSaves(l)
<1>1. Range(todo)' = Range(l)
  BY DEF Range
<1>. QED
  BY <1>1 DEF ToDo, ScriptInv, AllSaves

LEMMA SavesToDo ==
  AllSaves(todo) <=> \A p \in Programs : ToDo("save", p)
BY DEF AllSaves, ToDo

LEMMA SavesToDoNext ==
  AllSaves(todo)' <=> \A p \in Programs : ToDo("save", p)'
BY DEF AllSaves, ToDo, Range

LEMMA NothingToDo ==
  ASSUME todo = <<>>
  PROVE  \A w, p : ~ToDo(w, p)
BY NoStep DEF ToDo

(***************************************************************************)
(* Programs, code and layouts.                                             *)
(***************************************************************************)
Others(p) == \A q \in Programs : q # p => prog'[q] = prog[q]

LEMMA LayoutGood ==
  ASSUME NEW g \in GTexts \cup {NoGlobals}, LayoutOf[g] # Broken
  PROVE  LayoutOf[g] \in Seq(Range(LayoutOf[g]))
<1>1. CASE g \in GTexts
  BY <1>1, StAssumption
<1>2. CASE g = NoGlobals
  <2>1. LayoutOf[g] = <<>>
    BY <1>2, StAssumption
  <2>. QED
    BY <2>1
<1>. QED
  BY <1>1, <1>2

\* A block is committed, or refused as a whole (st_logic_globals_compile).
LEMMA Committed ==
  ASSUME DataInv, NEW g \in GTexts \cup {NoGlobals}, CommitGlobals(g)
  PROVE  /\ globals'.src = g
         /\ globals'.layout \in Seq(Range(globals'.layout))
         /\ LayoutOf[g] = Broken => globals'.layout = globals.layout
         /\ LayoutOf[g] # Broken => globals'.layout = LayoutOf[g]
<1>1. globals'.src = g /\ globals'.layout = IF LayoutOf[g] = Broken THEN globals.layout
                                             ELSE LayoutOf[g]
  BY DEF CommitGlobals
<1>2. CASE LayoutOf[g] = Broken
  <2>1. globals'.layout = globals.layout
    BY <1>1, <1>2
  <2>. QED
    BY <1>1, <1>2, <2>1 DEF DataInv
<1>3. CASE LayoutOf[g] # Broken
  <2>1. globals'.layout = LayoutOf[g]
    BY <1>1, <1>3
  <2>. QED
    BY <1>1, <1>3, <2>1, LayoutGood
<1>. QED
  BY <1>2, <1>3

\* New code is that of its text and bound to the name it uses.
LEMMA CodeForGood ==
  ASSUME DataInv, NEW t, Compilable(t)
  PROVE  /\ t \in Texts /\ GoodCode(CodeFor(t))
         /\ CodeFor(t).text = t /\ CodeFor(t) # NoCode
         /\ UsesOf[t] # NoName => globals.layout[CodeFor(t).idx] = UsesOf[t]
<1>. DEFINE l == globals.layout
            i == IndexOf(UsesOf[t], l)
<1>1. t \in Texts /\ t # NoText
  BY StAssumption DEF Compilable
<1>2. CodeFor(t) = [text |-> t, idx |-> i]
  BY DEF CodeFor
<1>3. CASE UsesOf[t] = NoName
  BY <1>1, <1>2, <1>3 DEF IndexOf, GoodCode, Codes, NoCode
<1>4. CASE UsesOf[t] # NoName
  <2>1. l \in Seq(Range(l))
    BY DEF DataInv
  <2>2. DOMAIN l = 1 .. Len(l) /\ Len(l) \in Nat
    BY <2>1, LenProperties
  <2>3. \E k \in DOMAIN l : l[k] = UsesOf[t]
    BY <1>4 DEF Compilable, Range
  <2>4. i = CHOOSE k \in DOMAIN l : l[k] = UsesOf[t]
    BY <1>4 DEF IndexOf
  <2>5. i \in DOMAIN l /\ l[i] = UsesOf[t]
    BY <2>3, <2>4
  <2>. HIDE DEF i
  <2>6. i \in Nat /\ i > 0
    BY <2>2, <2>5
  <2>7. CodeFor(t).idx = i /\ CodeFor(t).text = t
    BY <1>2
  <2>. QED
    BY <1>1, <1>2, <2>5, <2>6, <2>7 DEF GoodCode, Codes, NoCode
<1>. QED
  BY <1>3, <1>4

LEMMA NoCodeType ==
  NoCode \in Codes /\ Blank \in Program /\ Deleted \in Program
BY StAssumption DEF NoCode, Codes, Blank, Deleted, Program

LEMMA CompileEffect ==
  ASSUME TypeOK, DataInv, ir \in GoodIr, NEW p \in Programs, NEW good, NEW bad,
         Compile(p, good, bad)
  PROVE  /\ prog' \in [Programs -> Program] /\ Others(p)
         /\ prog'[p].text = prog[p].text /\ prog'[p].size = prog[p].size
         /\ ir' \in GoodIr
         /\ \/ /\ Compilable(prog[p].text)
               /\ prog'[p].code = CodeFor(prog[p].text) /\ prog'[p].compiled
               /\ todo' = <<Do("cache", p)>> \o good
            \/ /\ Compilable(prog[p].text) => HeapFails
               /\ prog'[p].code = NoCode /\ prog'[p].compiled = prog[p].compiled
               /\ ir' = ir
               /\ todo' = bad
<1>1. prog \in [Programs -> Program]
  BY DEF TypeOK
<1>2. CASE Compilable(prog[p].text) /\ Compiled(p) /\ todo' = <<Do("cache", p)>> \o good
  <2>1. GoodCode(CodeFor(prog[p].text)) /\ prog[p].text \in Texts
    BY <1>2, CodeForGood
  <2>2. CodeFor(prog[p].text) \in Codes
    BY <2>1 DEF GoodCode
  <2>. DEFINE c == CodeFor(prog[p].text)
  <2>. HIDE DEF c
  <2>3. prog' = [prog EXCEPT ![p].code = c, ![p].compiled = TRUE]
    BY <1>2 DEF Compiled, c
  <2>4. c \in Codes
    BY <2>2 DEF c
  <2>5. prog' \in [Programs -> Program]
    BY <1>1, <2>3, <2>4 DEF Program
  <2>6. /\ Others(p) /\ prog'[p].text = prog[p].text /\ prog'[p].size = prog[p].size
        /\ prog'[p].code = c /\ prog'[p].compiled
    BY <1>1, <2>3 DEF Others, Program
  <2>7. IrNeed[prog[p].text] \in Nat
    BY <2>1, StAssumption
  <2>8. ir' \in GoodIr
    BY <1>2, <2>7, FreeApart, AllocateApart DEF Compiled
  <2>. QED
    BY <1>2, <2>5, <2>6, <2>8 DEF c
<1>3. CASE /\ Compilable(prog[p].text) => HeapFails
           /\ CompileFailed(p) /\ todo' = bad
  <2>1. prog' = [prog EXCEPT ![p].code = NoCode] /\ ir' = ir
    BY <1>3 DEF CompileFailed
  <2>2. prog' \in [Programs -> Program]
    BY <1>1, <2>1, NoCodeType DEF Program
  <2>3. /\ Others(p) /\ prog'[p].text = prog[p].text /\ prog'[p].size = prog[p].size
        /\ prog'[p].code = NoCode /\ prog'[p].compiled = prog[p].compiled
    BY <1>1, <2>1 DEF Others, Program
  <2>. QED
    BY <1>3, <2>1, <2>2, <2>3
<1>4. \/ Compilable(prog[p].text) /\ Compiled(p) /\ todo' = <<Do("cache", p)>> \o good
      \/ (Compilable(prog[p].text) => HeapFails) /\ CompileFailed(p) /\ todo' = bad
  <2>1. PICK ok \in Outcomes(p) :
          IF ok THEN Compiled(p) /\ todo' = <<Do("cache", p)>> \o good
                ELSE CompileFailed(p) /\ todo' = bad
    BY DEF Compile
  <2>2. CASE ok = TRUE
    BY <2>1, <2>2 DEF Outcomes
  <2>3. CASE ok = FALSE
    BY <2>1, <2>3 DEF Outcomes
  <2>4. ok \in BOOLEAN
    BY DEF Outcomes
  <2>. QED
    BY <2>2, <2>3, <2>4
<1>. QED
  BY <1>2, <1>3, <1>4

(***************************************************************************)
(* A handler begins: nothing is unsaved, and what it changes is either as  *)
(* it was in all but the settings, or not compiled, or without a text.     *)
(***************************************************************************)
SameCode(p) == /\ prog'[p].text = prog[p].text /\ prog'[p].size = prog[p].size
               /\ prog'[p].compiled = prog[p].compiled /\ prog'[p].code = prog[p].code
Uncompiled(p) == /\ ~prog'[p].compiled
                 /\ prog'[p].text \in Texts => prog'[p].size = SizeOf[prog'[p].text]
                 /\ prog'[p].code \in {prog[p].code, NoCode}
Textless(p) == prog'[p].text = NoText /\ prog'[p].code = prog[p].code

LEMMA HandlerKeeps ==
  ASSUME Inv, Idle, ScriptInv',
         globals'.layout \in Seq(Range(globals'.layout)), dat' = dat,
         \A p \in Programs : SameCode(p) \/ Uncompiled(p) \/ Textless(p),
         \A p \in Programs : bc'[p] \in {bc[p], NoFile},
         \A w, p : ToDo(w, p)' => w \notin {"cache", "restored", "boot", "load", "reallocate"},
         \A p \in Programs : ToDo("compile", p)' => ~prog'[p].compiled
  PROVE  DataInv' /\ SaveInv' /\ BootInv' /\ RunsItsText'
<1>1. \A w, p : ~ToDo(w, p)
  BY NothingToDo DEF Idle
<1>2. \A p \in Programs : ~Unsaved(p)
  BY <1>1 DEF Inv, SaveInv
<1>3. DataInv /\ RunsItsText
  BY DEF Inv
<1>4. NoText \notin Texts
  BY StAssumption
<1>5. \A p \in Programs : Whole(p)' <=> Whole(p)
  BY DEF Whole
<1>6. ASSUME NEW p \in Programs PROVE ~Unsaved(p)'
  <2>1. ~Unsaved(p)
    BY <1>2
  <2>2. CASE SameCode(p)
    BY <2>1, <2>2, <1>5 DEF SameCode, Unsaved, Saved
  <2>3. CASE Uncompiled(p)
    BY <2>3 DEF Uncompiled, Unsaved
  <2>4. CASE Textless(p)
    BY <2>4, <1>4 DEF Textless, Unsaved
  <2>. QED
    BY <2>2, <2>3, <2>4
<1>7. ASSUME NEW p \in Programs
      PROVE  /\ prog'[p].text \in Texts => prog'[p].size = SizeOf[prog'[p].text]
             /\ prog'[p].code = NoCode \/ GoodCode(prog'[p].code)
             /\ bc'[p] \notin {NoFile, Torn} => GoodCode(bc'[p])
  <2>1. /\ prog[p].text \in Texts => prog[p].size = SizeOf[prog[p].text]
        /\ prog[p].code = NoCode \/ GoodCode(prog[p].code)
        /\ bc[p] \notin {NoFile, Torn} => GoodCode(bc[p])
    BY <1>3 DEF DataInv
  <2>2. bc'[p] \in {bc[p], NoFile}
    OBVIOUS
  <2>3. CASE SameCode(p)
    BY <2>1, <2>2, <2>3 DEF SameCode
  <2>4. CASE Uncompiled(p)
    BY <2>1, <2>2, <2>4 DEF Uncompiled
  <2>5. CASE Textless(p)
    BY <2>1, <2>2, <2>5, <1>4 DEF Textless
  <2>. QED
    BY <2>3, <2>4, <2>5
<1>8. \A p \in Programs : Whole(p)' => /\ dat'[p].text # NoText
                                       /\ dat'[p].text \in Texts => dat'[p].size = SizeOf[dat'[p].text]
  BY <1>3, <1>5 DEF DataInv
<1>9. \A p \in Programs : ~ToDo("cache", p)' /\ ~ToDo("restored", p)' /\ ~ToDo("load", p)'
  OBVIOUS
<1>10. ~ToDo("boot", 0)' /\ ~Booting'
  BY DEF Booting
<1>11. DataInv'
  BY <1>7, <1>8, <1>9 DEF DataInv, GoodCode, Codes, NoCode
<1>12. SaveInv'
  BY <1>6, <1>9 DEF SaveInv
<1>13. BootInv'
  BY <1>9, <1>10 DEF BootInv
<1>14. RunsItsText'
  <2>1. ASSUME NEW p \in Programs, HasCode(p)', prog'[p].text \in Texts
        PROVE  prog'[p].code.text = prog'[p].text
    <3>1. HasCode(p) /\ prog[p].text \in Texts => prog[p].code.text = prog[p].text
      BY <1>3 DEF RunsItsText
    <3>2. prog'[p].compiled /\ prog'[p].code # NoCode
      BY <2>1 DEF HasCode, NoCode
    <3>3. SameCode(p)
      BY <2>1, <3>2, <1>4 DEF Uncompiled, Textless
    <3>. QED
      BY <2>1, <3>1, <3>2, <3>3 DEF SameCode, HasCode
  <2>. QED
    BY <2>1 DEF RunsItsText
<1>. QED
  BY <1>11, <1>12, <1>13, <1>14

\* Which steps a handler leaves.
LEMMA NoScript ==
  ASSUME todo' = <<>>
  PROVE  ScriptInv' /\ \A w, p : ~ToDo(w, p)'
<1>1. ScriptOK(<<>>)
  BY NoStep DEF ScriptOK
<1>. QED
  BY <1>1, Started, NoStep

LEMMA Saving ==
  ASSUME todo' = SaveAll
  PROVE  /\ ScriptInv'
         /\ \A w, p : ToDo(w, p)' => w \in {"saveGlobals", "save"}
<1>1. \A w, p : Do(w, p) \in Saves => w \in {"saveGlobals", "save"}
  BY DoEq DEF Saves
<1>2. ScriptInv' /\ \A w, p : ToDo(w, p)' <=> Do(w, p) \in Range(SaveAll)
  BY SaveScript, Started
<1>. QED
  BY <1>1, <1>2, SaveScript

DatFiles == {NoFile, Torn} \cup DatFile
Caches == {NoFile, Torn} \cup Codes

LEMMA Called ==
  ASSUME TypeOK, Call
  PROVE  Idle /\ calls' \in 0 .. MaxCalls
BY StAssumption DEF TypeOK, Call

\* The rest of TypeOK after a handler begins.
LEMMA HandlerTypes ==
  ASSUME Inv, calls' \in 0 .. MaxCalls, prog' \in [Programs -> Program], ir' \in GoodIr,
         globals'.src \in GTexts \cup {NoGlobals}, dat' = dat, gdat' = gdat,
         bc' \in [Programs -> Caches]
  PROVE  TypeOK'
<1>1. TypeOK
  BY DEF Inv
<1>2. ir' \in [Programs -> IrRanges]
  BY DEF GoodIr
<1>3. dat' \in [Programs -> {NoFile, Torn} \cup DatFile]
  BY <1>1 DEF TypeOK
<1>4. bc' \in [Programs -> {NoFile, Torn} \cup Codes]
  BY DEF Caches
<1>5. gdat' \in GTexts \cup {NoGlobals}
  BY <1>1 DEF TypeOK
<1>. QED
  BY <1>2, <1>3, <1>4, <1>5 DEF TypeOK, IrRanges, Program, DatFile, Codes, NoIr

LEMMA UploadInv ==
  ASSUME Inv, NEW p \in Programs, NEW t \in Texts, Upload(p, t)
  PROVE  Inv'
<1>1. /\ TypeOK /\ DataInv /\ ir \in GoodIr
      /\ prog \in [Programs -> Program] /\ bc \in [Programs -> Caches]
      /\ globals.src \in GTexts \cup {NoGlobals}
      /\ globals.layout \in Seq(Range(globals.layout))
  BY DEF Inv, TypeOK, DataInv, Caches
<1>2. /\ Idle /\ calls' \in 0 .. MaxCalls
      /\ ir' = ir /\ globals' = globals /\ dat' = dat /\ gdat' = gdat
      /\ prog' = Uploaded(p, t)
      /\ bc' = IF Room(p, SizeOf[t]) THEN [bc EXCEPT ![p] = NoFile] ELSE bc
      /\ todo' = IF Room(p, SizeOf[t]) THEN <<Do("compile", p)>> \o SaveAll ELSE <<>>
  BY <1>1, Called DEF Upload
<1>3. SizeOf[t] \in Nat /\ NoText \notin Texts
  BY StAssumption
<1>4. CASE Room(p, SizeOf[t])
  <2>1. prog' = [prog EXCEPT ![p].text = t, ![p].size = SizeOf[t], ![p].compiled = FALSE]
    BY <1>2, <1>4 DEF Uploaded
  <2>2. prog' \in [Programs -> Program]
    <3>1. [prog[p] EXCEPT !.text = t, !.size = SizeOf[t], !.compiled = FALSE] \in Program
      BY <1>1, <1>3 DEF Program
    <3>2. prog' = [prog EXCEPT ![p] = [prog[p] EXCEPT !.text = t, !.size = SizeOf[t],
                                                      !.compiled = FALSE]]
      BY <1>1, <2>1
    <3>. QED
      BY <1>1, <3>1, <3>2
  <2>3. /\ \A q \in Programs : q # p => prog'[q] = prog[q]
        /\ prog'[p].text = t /\ prog'[p].size = SizeOf[t] /\ ~prog'[p].compiled
        /\ prog'[p].code = prog[p].code
    BY <1>1, <2>1 DEF Program
  <2>4. \A q \in Programs : SameCode(q) \/ Uncompiled(q)
    BY <2>3 DEF SameCode, Uncompiled
  <2>5. bc' \in [Programs -> Caches] /\ \A q \in Programs : bc'[q] \in {bc[q], NoFile}
    BY <1>1, <1>2, <1>4 DEF Caches
  <2>6. /\ ScriptInv'
        /\ \A w, q : ToDo(w, q)' <=> Do(w, q) \in {Do("compile", p)} \cup Saves
    BY <1>2, <1>4, CompileScript, Started
  <2>7. \A w, q : ToDo(w, q)' => w \in {"saveGlobals", "save"} \/ (w = "compile" /\ q = p)
    BY <2>6, DoEq DEF Saves
  <2>8. DataInv' /\ SaveInv' /\ BootInv' /\ RunsItsText'
    BY <1>1, <1>2, <2>3, <2>4, <2>5, <2>6, <2>7, HandlerKeeps
  <2>9. TypeOK'
    BY <1>1, <1>2, <2>2, <2>5, HandlerTypes
  <2>. QED
    BY <1>1, <1>2, <2>6, <2>8, <2>9 DEF Inv
<1>5. CASE ~Room(p, SizeOf[t])
  <2>1. prog' = [prog EXCEPT ![p].text = NoText, ![p].size = 0]
    BY <1>2, <1>5 DEF Uploaded
  <2>2. prog' \in [Programs -> Program]
    BY <1>1, <2>1 DEF Program
  <2>3. /\ \A q \in Programs : q # p => prog'[q] = prog[q]
        /\ prog'[p].text = NoText /\ prog'[p].code = prog[p].code
    BY <1>1, <2>1 DEF Program
  <2>4. \A q \in Programs : SameCode(q) \/ Textless(q)
    BY <2>3 DEF SameCode, Textless
  <2>5. bc' \in [Programs -> Caches] /\ \A q \in Programs : bc'[q] \in {bc[q], NoFile}
    BY <1>1, <1>2, <1>5
  <2>6. ScriptInv' /\ \A w, q : ~ToDo(w, q)'
    BY <1>2, <1>5, NoScript
  <2>8. DataInv' /\ SaveInv' /\ BootInv' /\ RunsItsText'
    BY <1>1, <1>2, <2>4, <2>5, <2>6, HandlerKeeps
  <2>9. TypeOK'
    BY <1>1, <1>2, <2>2, <2>5, HandlerTypes
  <2>. QED
    BY <1>1, <1>2, <2>6, <2>8, <2>9 DEF Inv
<1>. QED
  BY <1>4, <1>5

LEMMA DeleteInv ==
  ASSUME Inv, NEW p \in Programs, Delete(p)
  PROVE  Inv'
<1>1. /\ TypeOK /\ DataInv /\ ir \in GoodIr
      /\ prog \in [Programs -> Program] /\ bc \in [Programs -> Caches]
      /\ globals.src \in GTexts \cup {NoGlobals}
      /\ globals.layout \in Seq(Range(globals.layout))
  BY DEF Inv, TypeOK, DataInv, Caches
<1>2. /\ Idle /\ calls' \in 0 .. MaxCalls
      /\ ir' = IrFree(ir, p) /\ globals' = globals /\ dat' = dat /\ gdat' = gdat
      /\ prog' = [prog EXCEPT ![p] = Deleted]
      /\ bc' = [bc EXCEPT ![p] = NoFile]
      /\ todo' = SaveAll
  BY <1>1, Called DEF Delete
<1>3. prog' \in [Programs -> Program]
  BY <1>1, <1>2, NoCodeType
<1>4. prog'[p] = Deleted /\ \A q \in Programs : q # p => prog'[q] = prog[q]
  BY <1>1, <1>2
<1>5. ~Deleted.compiled /\ Deleted.text = NoText /\ Deleted.code = NoCode /\ NoText \notin Texts
  BY StAssumption DEF Deleted, Blank
<1>6. \A q \in Programs : SameCode(q) \/ Uncompiled(q)
  BY <1>4, <1>5 DEF SameCode, Uncompiled
<1>7. bc' \in [Programs -> Caches] /\ \A q \in Programs : bc'[q] \in {bc[q], NoFile}
  BY <1>1, <1>2 DEF Caches
<1>8. ir' \in GoodIr
  BY <1>1, <1>2, FreeApart
<1>9. ScriptInv' /\ \A w, q : ToDo(w, q)' => w \in {"saveGlobals", "save"}
  BY <1>2, Saving
<1>10. DataInv' /\ SaveInv' /\ BootInv' /\ RunsItsText'
  BY <1>1, <1>2, <1>6, <1>7, <1>9, HandlerKeeps
<1>11. TypeOK'
  BY <1>1, <1>2, <1>3, <1>7, <1>8, HandlerTypes
<1>. QED
  BY <1>8, <1>9, <1>10, <1>11 DEF Inv

\* The calls that change settings, or nothing.
LEMMA SettingsInv ==
  ASSUME Inv, Call, prog' \in [Programs -> Program], \A p \in Programs : SameCode(p),
         UNCHANGED <<ir, globals, dat, gdat, bc>>, ScriptInv',
         \A w, p : ToDo(w, p)' => w \in {"saveGlobals", "save", "interval"}
  PROVE  Inv'
<1>1. /\ TypeOK /\ DataInv /\ ir \in GoodIr /\ bc' \in [Programs -> Caches]
      /\ globals.src \in GTexts \cup {NoGlobals}
      /\ globals.layout \in Seq(Range(globals.layout))
  BY DEF Inv, TypeOK, DataInv, Caches
<1>2. Idle /\ calls' \in 0 .. MaxCalls
  BY <1>1, Called
<1>3. \A p \in Programs : bc'[p] \in {bc[p], NoFile}
  OBVIOUS
<1>4. DataInv' /\ SaveInv' /\ BootInv' /\ RunsItsText'
  BY <1>1, <1>2, <1>3, HandlerKeeps
<1>5. TypeOK'
  BY <1>1, <1>2, <1>3, HandlerTypes
<1>. QED
  BY <1>1, <1>4, <1>5 DEF Inv

Setting == \/ \E p \in Programs, b \in BOOLEAN : SetEnabled(p, b) \/ ModbusEnable(p, b)
           \/ \E p \in Programs, i \in Intervals : SetInterval(p, i)
           \/ \E i \in Intervals : CliInterval(i) \/ RestInterval(i) \/ ModbusInterval(i)
           \/ Save

LEMMA SettingsCode ==
  ASSUME prog \in [Programs -> Program], Setting
  PROVE  /\ Call /\ UNCHANGED <<ir, globals, dat, gdat, bc>>
         /\ prog' \in [Programs -> Program] /\ \A p \in Programs : SameCode(p)
<1>1. Intervals \subseteq Nat
  BY StAssumption
<1>2. /\ Call
      /\ UNCHANGED <<ir, globals, dat, gdat, bc>>
  BY DEF Setting, SetEnabled, ModbusEnable, SetInterval, CliInterval, RestInterval,
         ModbusInterval, Save, flash
<1>3. \/ \E p \in Programs, b \in BOOLEAN : prog' = [prog EXCEPT ![p].on = b]
      \/ \E p \in Programs, i \in Intervals : prog' = [prog EXCEPT ![p].ivl = i]
      \/ \E i \in Intervals : prog' = AllIntervals(i)
      \/ prog' = prog
  BY DEF Setting, SetEnabled, ModbusEnable, SetInterval, CliInterval, RestInterval,
         ModbusInterval, Save
<1>4. prog' \in [Programs -> Program] /\ \A p \in Programs : SameCode(p)
  <2>1. CASE \E p \in Programs, b \in BOOLEAN : prog' = [prog EXCEPT ![p].on = b]
    BY <2>1 DEF Program, SameCode
  <2>2. CASE \E p \in Programs, i \in Intervals : prog' = [prog EXCEPT ![p].ivl = i]
    BY <1>1, <2>2 DEF Program, SameCode
  <2>3. CASE \E i \in Intervals : prog' = AllIntervals(i)
    BY <1>1, <2>3 DEF Program, SameCode, AllIntervals
  <2>4. CASE prog' = prog
    BY <2>4 DEF SameCode
  <2>. QED
    BY <1>3, <2>1, <2>2, <2>3, <2>4
<1>. QED
  BY <1>2, <1>4

LEMMA SettingsSteps ==
  ASSUME Inv, Setting
  PROVE  Inv'
<1>1. prog \in [Programs -> Program] /\ Intervals \subseteq Nat
  BY StAssumption DEF Inv, TypeOK
<1>4. /\ Call /\ UNCHANGED <<ir, globals, dat, gdat, bc>>
      /\ prog' \in [Programs -> Program] /\ \A p \in Programs : SameCode(p)
  BY <1>1, SettingsCode
<1>5. \/ todo' = SaveAll
      \/ todo' = <<>>
      \/ \E i \in Intervals : todo' = SaveAll \o <<Do("interval", i)>>
  BY DEF Setting, SetEnabled, ModbusEnable, SetInterval, CliInterval, RestInterval,
         ModbusInterval, Save, Call, Idle
<1>6. ScriptInv' /\ \A w, p : ToDo(w, p)' => w \in {"saveGlobals", "save", "interval"}
  <2>1. CASE todo' = SaveAll
    BY <2>1, Saving
  <2>2. CASE todo' = <<>>
    BY <2>2, NoScript
  <2>3. CASE \E i \in Intervals : todo' = SaveAll \o <<Do("interval", i)>>
    <3>1. PICK i \in Intervals : todo' = SaveAll \o <<Do("interval", i)>>
      BY <2>3
    <3>. DEFINE l == SaveAll \o <<Do("interval", i)>>
    <3>2. ScriptOK(l) /\ Range(l) = Saves \cup {Do("interval", i)}
      BY <1>1, IntervalScript
    <3>3. \A w, p : Do(w, p) \in Saves \cup {Do("interval", i)}
                    => w \in {"saveGlobals", "save", "interval"}
      BY DoEq DEF Saves
    <3>. HIDE DEF l
    <3>4. ScriptInv' /\ \A w, p : ToDo(w, p)' <=> Do(w, p) \in Range(l)
      <4>1. todo' = l
        BY <3>1 DEF l
      <4>. QED
        BY <3>2, <4>1, Started
    <3>. QED
      BY <3>2, <3>3, <3>4
  <2>. QED
    BY <1>5, <2>1, <2>2, <2>3
<1>. QED
  BY <1>4, <1>6, SettingsInv

\* The calls that commit a GLOBAL_VAR block.
LEMMA GlobalsInv ==
  ASSUME Inv, Call, UNCHANGED <<prog, ir, flash>>,
         globals'.src \in GTexts \cup {NoGlobals},
         globals'.layout \in Seq(Range(globals'.layout)), ScriptInv',
         \A w, p : ToDo(w, p)' => w \in {"rebind", "replace", "saveGlobals", "save"}
  PROVE  Inv'
<1>1. /\ TypeOK /\ DataInv /\ ir \in GoodIr
      /\ prog \in [Programs -> Program] /\ bc' \in [Programs -> Caches]
      /\ prog' = prog /\ ir' = ir /\ dat' = dat /\ gdat' = gdat /\ bc' = bc
  BY DEF Inv, TypeOK, flash, Caches
<1>2. Idle /\ calls' \in 0 .. MaxCalls
  BY <1>1, Called
<1>3. \A p \in Programs : SameCode(p) /\ bc'[p] \in {bc[p], NoFile}
  BY <1>1 DEF SameCode
<1>4. DataInv' /\ SaveInv' /\ BootInv' /\ RunsItsText'
  BY <1>1, <1>2, <1>3, HandlerKeeps
<1>5. TypeOK'
  BY <1>1, <1>2, <1>3, HandlerTypes
<1>. QED
  BY <1>1, <1>4, <1>5 DEF Inv

LEMMA PostGlobalsInv ==
  ASSUME Inv, NEW g \in GTexts \cup {NoGlobals}, PostGlobals(g)
  PROVE  Inv'
<1>1. /\ Call /\ CommitGlobals(g) /\ UNCHANGED <<prog, ir, flash>> /\ DataInv
      /\ todo' = IF LayoutOf[g] = Broken THEN <<>> ELSE AfterGlobals(g) \o SaveAll
  BY DEF PostGlobals, Inv
<1>2. globals'.src = g /\ globals'.layout \in Seq(Range(globals'.layout))
  BY <1>1, Committed
<1>3. ScriptInv' /\ \A w, p : ToDo(w, p)' => w \in {"rebind", "saveGlobals", "save"}
  <2>1. CASE todo' = <<>>
    BY <2>1, NoScript
  <2>2. CASE todo' = <<>> \o SaveAll
    <3>1. SaveAll \in Seq(Steps)
      BY SaveScript DEF ScriptOK
    <3>2. <<>> \o SaveAll = SaveAll
      BY <3>1
    <3>. QED
      BY <2>2, <3>2, Saving
  <2>3. CASE todo' = Recompiles \o SaveAll
    <3>1. \A w, p : Do(w, p) \in {Do("rebind", q) : q \in Programs} \cup Saves
                    => w \in {"rebind", "saveGlobals", "save"}
      BY DoEq DEF Saves
    <3>. DEFINE l == Recompiles \o SaveAll
    <3>2. ScriptOK(l) /\ Range(l) = {Do("rebind", p) : p \in Programs} \cup Saves
      BY RebindScript
    <3>3. todo' = l
      BY <2>3
    <3>. HIDE DEF l
    <3>4. ScriptInv' /\ \A w, p : ToDo(w, p)' <=> Do(w, p) \in Range(l)
      BY <3>2, <3>3, Started
    <3>. QED
      BY <3>1, <3>2, <3>4
  <2>. QED
    BY <1>1, <2>1, <2>2, <2>3 DEF AfterGlobals
<1>. QED
  BY <1>1, <1>2, <1>3, GlobalsInv

LEMMA RestoreInv ==
  ASSUME Inv, NEW b \in Backups, Restore(b)
  PROVE  Inv'
<1>. DEFINE l == IF b.g = NoGlobals THEN <<>> ELSE AfterGlobals(b.g)
            m == l \o Replacements(b) \o SaveAll
<1>1. /\ Call /\ UNCHANGED <<prog, ir, flash>> /\ DataInv /\ TypeOK
      /\ IF b.g = NoGlobals THEN UNCHANGED globals ELSE CommitGlobals(b.g)
      /\ todo' = m
  BY DEF Restore, Replacements, Inv
<1>2. b.g \in GTexts \cup {NoGlobals}
  BY StAssumption
<1>3. /\ globals'.src \in GTexts \cup {NoGlobals}
      /\ globals'.layout \in Seq(Range(globals'.layout))
  <2>1. CASE b.g = NoGlobals
    BY <1>1, <2>1 DEF TypeOK, DataInv
  <2>2. CASE b.g # NoGlobals
    BY <1>1, <1>2, <2>2, Committed
  <2>. QED
    BY <2>1, <2>2
<1>4. l \in {<<>>, Recompiles}
  BY DEF AfterGlobals
<1>. HIDE DEF l
<1>5. ScriptOK(m) /\ \A s \in Range(m) : s.do \in {"rebind", "replace", "saveGlobals", "save"}
  BY <1>4, RestoreScript
<1>. HIDE DEF m
<1>6. ScriptInv' /\ \A w, p : ToDo(w, p)' <=> Do(w, p) \in Range(m)
  BY <1>1, <1>5, Started
<1>7. \A w, p : ToDo(w, p)' => w \in {"rebind", "replace", "saveGlobals", "save"}
  BY <1>5, <1>6, DoEq
<1>. QED
  BY <1>1, <1>3, <1>6, <1>7, GlobalsInv

LEMMA HandlerInv ==
  ASSUME Inv, Handler
  PROVE  Inv'
<1>1. CASE \E p \in Programs, t \in Texts : Upload(p, t)
  BY <1>1, UploadInv
<1>2. CASE \E p \in Programs : Delete(p)
  BY <1>2, DeleteInv
<1>3. CASE \E g \in GTexts \cup {NoGlobals} : PostGlobals(g)
  BY <1>3, PostGlobalsInv
<1>4. CASE \E b \in Backups : Restore(b)
  BY <1>4, RestoreInv
<1>5. CASE Setting
  BY <1>5, SettingsSteps
<1>. QED
  BY <1>1, <1>2, <1>3, <1>4, <1>5 DEF Handler, Setting

(***************************************************************************)
(* The steps of a handler.                                                 *)
(***************************************************************************)
LEMMA StepTypes ==
  ASSUME Inv, calls' = calls, prog' \in [Programs -> Program], ir' \in GoodIr,
         globals'.src \in GTexts \cup {NoGlobals}, gdat' \in GTexts \cup {NoGlobals},
         dat' \in [Programs -> DatFiles], bc' \in [Programs -> Caches]
  PROVE  TypeOK'
<1>1. calls' \in 0 .. MaxCalls
  BY DEF Inv, TypeOK
<1>2. ir' \in [Programs -> IrRanges]
  BY DEF GoodIr
<1>. QED
  BY <1>1, <1>2 DEF TypeOK, IrRanges, Program, DatFile, Codes, NoIr, DatFiles, Caches

\* What the invariant says, part by part.
LEMMA Parts ==
  ASSUME Inv
  PROVE  /\ TypeOK /\ ScriptInv /\ DataInv /\ SaveInv /\ BootInv /\ RunsItsText /\ ir \in GoodIr
         /\ prog \in [Programs -> Program]
         /\ globals.src \in GTexts \cup {NoGlobals}
         /\ gdat \in GTexts \cup {NoGlobals}
         /\ dat \in [Programs -> DatFiles] /\ bc \in [Programs -> Caches]
         /\ globals.layout \in Seq(Range(globals.layout))
BY DEF Inv, TypeOK, DataInv, DatFiles, Caches

\* What holds of one program.
ProgData(p) == /\ prog[p].text \in Texts => prog[p].size = SizeOf[prog[p].text]
               /\ prog[p].code = NoCode \/ GoodCode(prog[p].code)
               /\ Whole(p) => /\ dat[p].text # NoText
                              /\ dat[p].text \in Texts => dat[p].size = SizeOf[dat[p].text]
               /\ bc[p] \notin {NoFile, Torn} => GoodCode(bc[p])

LEMMA DataParts ==
  DataInv <=> /\ globals.layout \in Seq(Range(globals.layout))
              /\ \A p \in Programs : ProgData(p) /\ (ToDo("cache", p) => prog[p].code # NoCode)
BY DEF DataInv, ProgData

LEMMA DataPartsNext ==
  DataInv' <=> /\ globals'.layout \in Seq(Range(globals'.layout))
               /\ \A p \in Programs : ProgData(p)' /\ (ToDo("cache", p)' => prog'[p].code # NoCode)
BY DEF DataInv, ProgData, Range, NoCode

Booted(p) == Whole(p) /\ ~ToDo("load", p)
             => /\ prog[p].text = dat[p].text
                /\ ToDo("restored", p) \/ (Compilable(dat[p].text) => Runs(p))

LEMMA CompileInv ==
  ASSUME Inv, NEW p \in Programs, NEW bad, todo # <<>>,
         Head(todo) \in {Do("compile", p), Do("rebind", p), Do("restored", p)},
         Compile(p, Tail(todo), bad), UNCHANGED <<globals, flash, calls>>,
         bad = Tail(todo) \/ (bad = <<>> /\ ~prog[p].compiled /\ \A q \in Programs : ~Unsaved(q)),
         AllSaves(todo) \/ (Booting /\ Saved(p)),
         ~ToDo("load", p), Booting => ~prog[p].compiled
  PROVE  Inv'
<1>1. /\ TypeOK /\ ScriptInv /\ DataInv /\ SaveInv /\ BootInv /\ RunsItsText /\ ir \in GoodIr
      /\ globals' = globals /\ dat' = dat /\ gdat' = gdat /\ bc' = bc /\ calls' = calls
  BY Parts DEF flash
<1>2. /\ prog' \in [Programs -> Program]
      /\ \A q \in Programs : q # p => prog'[q] = prog[q]
      /\ prog'[p].text = prog[p].text /\ prog'[p].size = prog[p].size
      /\ ir' \in GoodIr
  BY <1>1, CompileEffect DEF Others
<1>3. \/ /\ Compilable(prog[p].text)
         /\ prog'[p].code = CodeFor(prog[p].text) /\ prog'[p].compiled
         /\ todo' = <<Do("cache", p)>> \o Tail(todo)
      \/ /\ Compilable(prog[p].text) => HeapFails
         /\ prog'[p].code = NoCode /\ prog'[p].compiled = prog[p].compiled
         /\ todo' = bad
  BY <1>1, CompileEffect
<1>4. Head(todo).do \in {"compile", "rebind", "restored"}
  BY DoEq
<1>5. \A w, q : Do(w, q) \in Later => w \notin {"compile", "cache", "restored", "boot"}
  BY <1>1, LaterKinds
<1>6. \A w, q : ToDo(w, q) <=> Do(w, q) = Head(todo) \/ Do(w, q) \in Later
  BY <1>1, Now
<1>7. \A w, q : w \notin {"compile", "rebind", "restored"} => (ToDo(w, q) <=> Do(w, q) \in Later)
  BY <1>6, DoEq
<1>8. CASE /\ Compilable(prog[p].text)
           /\ prog'[p].code = CodeFor(prog[p].text) /\ prog'[p].compiled
           /\ todo' = <<Do("cache", p)>> \o Tail(todo)
  <2>1. /\ ScriptInv'
        /\ \A w, q : ToDo(w, q)' <=> (w = "cache" /\ q = p) \/ Do(w, q) \in Later
    BY <1>1, <1>4, <1>8, Pushed
  <2>2. /\ GoodCode(prog'[p].code) /\ prog'[p].code # NoCode
        /\ prog'[p].code.text = prog[p].text
    BY <1>1, <1>8, CodeForGood
  <2>3. ~ToDo("compile", p)' /\ \A q \in Programs : ~ToDo("restored", q)'
    BY <1>5, <2>1
  <2>. QED
    <3>1. ASSUME NEW q \in Programs PROVE ProgData(q)' /\ (ToDo("cache", q)' => prog'[q].code # NoCode)
      <4>1. ProgData(q)
        BY <1>1, DataParts
      <4>2. CASE q # p
        BY <4>1, <4>2, <1>1, <1>2, <1>5, <2>1 DEF ProgData, Whole, GoodCode, Codes, NoCode
      <4>3. CASE q = p
        BY <4>1, <4>3, <1>1, <1>2, <2>2 DEF ProgData, Whole, GoodCode, Codes, NoCode
      <4>. QED
        BY <4>2, <4>3
    <3>2. DataInv'
      BY <3>1, <1>1, DataPartsNext, DataParts
    <3>3. SaveInv'
      <4>1. ASSUME NEW q \in Programs, Unsaved(q)' PROVE ToDo("save", q)'
        <5>1. CASE q # p
          <6>1. Unsaved(q)
            BY <4>1, <5>1, <1>1, <1>2 DEF Unsaved, Saved, Whole
          <6>2. ToDo("save", q)
            BY <6>1, <1>1 DEF SaveInv
          <6>. QED
            BY <6>2, <1>7, <2>1
        <5>2. CASE q = p
          <6>1. ~Saved(p)
            BY <4>1, <5>2, <1>1, <1>2 DEF Unsaved, Saved, Whole
          <6>2. ToDo("save", p)
            BY <6>1, SavesToDo
          <6>. QED
            BY <6>2, <5>2, <1>7, <2>1
        <5>. QED
          BY <5>1, <5>2
      <4>2. \A q \in Programs : ~ToDo("compile", q)' /\ ~ToDo("restored", q)'
        BY <1>5, <2>1
      <4>. QED
        BY <4>1, <4>2 DEF SaveInv
    <3>4. Booting' <=> Booting
      BY <1>7, <2>1 DEF Booting
    <3>5. BootInv'
      <4>1. ASSUME NEW q \in Programs, ToDo("load", q)' PROVE prog'[q] = Blank
        <5>1. ToDo("load", q)
          BY <4>1, <1>7, <2>1
        <5>. QED
          BY <5>1, <1>1, <1>2 DEF BootInv
      <4>2. ~ToDo("boot", 0)'
        BY <1>5, <2>1
      <4>3. ASSUME Booting', NEW q \in Programs
            PROVE  (prog'[q].compiled => GoodCode(prog'[q].code)) /\ InPool(q)' <= FileSize(q)'
        <5>1. (prog[q].compiled => GoodCode(prog[q].code)) /\ InPool(q) <= FileSize(q)
          BY <4>3, <3>4, <1>1 DEF BootInv
        <5>2. InPool(q)' = InPool(q) /\ FileSize(q)' = FileSize(q)
          BY <1>1, <1>2 DEF InPool, FileSize
        <5>. QED
          BY <5>1, <5>2, <1>2, <2>2
      <4>4. ASSUME Booting', Fit', NEW q \in Programs PROVE Booted(q)'
        <5>1. Fit
          BY <4>4, <1>1 DEF Fit, FileSize
        <5>2. Booted(q)
          BY <4>4, <3>4, <5>1, <1>1 DEF BootInv, Booted
        <5>3. ToDo("load", q)' <=> ToDo("load", q)
          BY <1>7, <2>1
        <5>4. CASE q # p
          <6>1. ~ToDo("restored", q)
            BY <5>4, <1>5, <1>6, DoEq
          <6>. QED
            BY <6>1, <5>2, <5>3, <5>4, <1>1, <1>2 DEF Booted, Whole, Runs, Compilable, NoCode
        <5>5. CASE q = p
          BY <5>5, <5>2, <5>3, <1>1, <1>2, <1>8, <2>2 DEF Booted, Whole, Runs
        <5>. QED
          BY <5>4, <5>5
      <4>. QED
        BY <4>1, <4>2, <4>3, <4>4 DEF BootInv, Booted, GoodCode, Codes
    <3>6. RunsItsText'
      BY <1>1, <1>2, <2>2 DEF RunsItsText, HasCode, NoCode
    <3>7. TypeOK'
      BY <1>1, <1>2, Parts, StepTypes
    <3>. QED
      BY <1>2, <2>1, <3>2, <3>3, <3>5, <3>6, <3>7 DEF Inv
<1>9. CASE /\ Compilable(prog[p].text) => HeapFails
           /\ prog'[p].code = NoCode /\ prog'[p].compiled = prog[p].compiled
           /\ todo' = bad
  <2>1. /\ ScriptInv' /\ \A w, q : ToDo(w, q)' => Do(w, q) \in Later
    <3>1. CASE bad = Tail(todo)
      BY <3>1, <1>1, <1>9, Consumed
    <3>2. CASE bad = <<>>
      BY <3>2, <1>9, NoScript
    <3>. QED
      BY <3>1, <3>2
  <2>2. bad = Tail(todo) => \A w, q : ToDo(w, q)' <=> Do(w, q) \in Later
    BY <1>1, <1>9, Consumed
  <2>3. \A q \in Programs : ~ToDo("compile", q)' /\ ~ToDo("restored", q)' /\ ~ToDo("cache", q)'
    BY <1>5, <2>1
  <2>. QED
    <3>1. ASSUME NEW q \in Programs PROVE ProgData(q)'
      <4>1. ProgData(q)
        BY <1>1, DataParts
      <4>2. CASE q # p
        BY <4>1, <4>2, <1>1, <1>2 DEF ProgData, Whole, GoodCode, Codes, NoCode
      <4>3. CASE q = p
        BY <4>1, <4>3, <1>1, <1>2, <1>9 DEF ProgData, Whole, GoodCode, Codes, NoCode
      <4>. QED
        BY <4>2, <4>3
    <3>2. DataInv'
      BY <3>1, <2>3, <1>1, DataPartsNext, DataParts
    <3>3. SaveInv'
      <4>1. ASSUME NEW q \in Programs, Unsaved(q)' PROVE ToDo("save", q)'
        <5>1. Unsaved(q)
          BY <4>1, <1>1, <1>2, <1>9 DEF Unsaved, Saved, Whole
        <5>2. ToDo("save", q) /\ bad = Tail(todo)
          <6>1. bad # <<>> \/ bad = Tail(todo)
            BY <5>1
          <6>. QED
            BY <6>1, <5>1, <1>1 DEF SaveInv
        <5>. QED
          BY <5>2, <1>7, <2>2
      <4>. QED
        BY <4>1, <2>3 DEF SaveInv
    <3>4. Booting' => Booting /\ bad = Tail(todo)
      <4>1. CASE bad = Tail(todo)
        BY <4>1, <1>7, <2>1 DEF Booting
      <4>2. CASE bad = <<>>
        BY <4>2, <1>9, NoScript DEF Booting
      <4>. QED
        BY <4>1, <4>2
    <3>5. BootInv'
      <4>1. ASSUME NEW q \in Programs, ToDo("load", q)' PROVE prog'[q] = Blank
        <5>1. ToDo("load", q)
          BY <4>1, <1>7, <2>1
        <5>. QED
          BY <5>1, <1>1, <1>2 DEF BootInv
      <4>2. ~ToDo("boot", 0)'
        BY <1>5, <2>1
      <4>3. ASSUME Booting', NEW q \in Programs
            PROVE  (prog'[q].compiled => GoodCode(prog'[q].code)) /\ InPool(q)' <= FileSize(q)'
        <5>1. (prog[q].compiled => GoodCode(prog[q].code)) /\ InPool(q) <= FileSize(q)
          BY <4>3, <3>4, <1>1 DEF BootInv
        <5>2. InPool(q)' = InPool(q) /\ FileSize(q)' = FileSize(q)
          BY <1>1, <1>2 DEF InPool, FileSize
        <5>3. q = p => ~prog'[q].compiled
          BY <4>3, <3>4, <1>9
        <5>. QED
          BY <5>1, <5>2, <5>3, <1>2
      <4>4. ASSUME Booting', Fit', NEW q \in Programs PROVE Booted(q)'
        <5>1. Fit
          BY <4>4, <1>1 DEF Fit, FileSize
        <5>2. Booted(q)
          BY <4>4, <3>4, <5>1, <1>1 DEF BootInv, Booted
        <5>3. ToDo("load", q)' <=> ToDo("load", q)
          BY <4>4, <3>4, <1>7, <2>2
        <5>4. CASE q # p
          <6>1. ~ToDo("restored", q)
            BY <5>4, <1>5, <1>6, DoEq
          <6>. QED
            BY <6>1, <5>2, <5>3, <5>4, <1>1, <1>2 DEF Booted, Whole, Runs, Compilable, NoCode
        <5>5. CASE q = p
          BY <5>5, <5>2, <5>3, <1>1, <1>2, <1>9 DEF Booted, Whole, Runs, NoCode, Compilable
        <5>. QED
          BY <5>4, <5>5
      <4>. QED
        BY <4>1, <4>2, <4>3, <4>4 DEF BootInv, Booted, GoodCode, Codes
    <3>6. RunsItsText'
      BY <1>1, <1>2, <1>9 DEF RunsItsText, HasCode, NoCode
    <3>7. TypeOK'
      BY <1>1, <1>2, Parts, StepTypes
    <3>. QED
      BY <1>2, <2>1, <3>2, <3>3, <3>5, <3>6, <3>7 DEF Inv
<1>. QED
  BY <1>3, <1>8, <1>9

LEMMA CompileStepInv ==
  ASSUME Inv, CompileStep
  PROVE  Inv'
<1>. DEFINE p == This
<1>1. ScriptInv /\ SaveInv /\ TypeOK
  BY Parts
<1>2. /\ todo # <<>> /\ Head(todo).do = "compile" /\ Head(todo) = Do("compile", p)
      /\ p \in Programs
  BY <1>1, AtHead DEF CompileStep, OfProgram
<1>3. Compile(p, Tail(todo), <<>>) /\ UNCHANGED <<globals, flash, calls>>
  BY DEF CompileStep
<1>. HIDE DEF p
<1>4. ToDo("compile", p)
  BY <1>1, <1>2, Now
<1>5. ~prog[p].compiled /\ \A q \in Programs : ~Unsaved(q)
  BY <1>1, <1>2, <1>4 DEF SaveInv
<1>6. AllSaves(todo)
  <2>1. Head(todo) \in Range(todo)
    BY <1>1, <1>2, Heads
  <2>. QED
    BY <1>1, <1>2, <2>1 DEF ScriptInv, ScriptOK
<1>7. ~ToDo("load", p)
  BY <1>1, <1>2, Now, LaterKinds, DoEq DEF Follow
<1>. QED
  BY <1>2, <1>3, <1>5, <1>6, <1>7, CompileInv

\* A step that only leaves the list.
LEMMA DropInv ==
  ASSUME Inv, todo # <<>>, todo' = Tail(todo),
         UNCHANGED <<prog, ir, globals, flash, calls>>,
         Head(todo).do \in {"rebind", "restored", "load"},
         NEW p \in Programs, Head(todo) = Do(Head(todo).do, p),
         Head(todo).do = "restored" => prog[p].text = NoText,
         Head(todo).do = "load" => ~Whole(p)
  PROVE  Inv'
<1>1. /\ TypeOK /\ ScriptInv /\ DataInv /\ SaveInv /\ BootInv /\ RunsItsText /\ ir \in GoodIr
      /\ prog' = prog /\ ir' = ir
      /\ globals' = globals /\ dat' = dat /\ gdat' = gdat /\ bc' = bc /\ calls' = calls
  BY Parts DEF flash
<1>2. ScriptInv' /\ \A w, q : ToDo(w, q)' <=> Do(w, q) \in Later
  BY <1>1, Consumed
<1>3. \A w, q : ToDo(w, q) <=> Do(w, q) = Head(todo) \/ Do(w, q) \in Later
  BY <1>1, Now
<1>4. \A w, q : w \notin {"rebind", "restored", "load"} => (ToDo(w, q)' <=> ToDo(w, q))
  BY <1>2, <1>3, DoEq
<1>5. \A w, q : ToDo(w, q)' => ToDo(w, q) /\ w \notin {"compile", "cache", "restored", "boot"}
  BY <1>1, <1>2, <1>3, LaterKinds
<1>6. DataInv'
  BY <1>1, <1>5, DataParts, DataPartsNext DEF ProgData, Whole, GoodCode, Codes
<1>7. SaveInv'
  BY <1>1, <1>4, <1>5 DEF SaveInv, Unsaved, Saved, Whole
<1>8. Booting' <=> Booting
  BY <1>4 DEF Booting
<1>9. BootInv'
  <2>1. \A q \in Programs : ToDo("load", q)' => prog'[q] = Blank
    BY <1>1, <1>5 DEF BootInv
  <2>2. ~ToDo("boot", 0)'
    BY <1>5
  <2>3. ASSUME Booting', NEW q \in Programs
        PROVE  (prog'[q].compiled => GoodCode(prog'[q].code)) /\ InPool(q)' <= FileSize(q)'
    BY <2>3, <1>1, <1>8 DEF BootInv, InPool, FileSize
  <2>4. ASSUME Booting', Fit', NEW q \in Programs PROVE Booted(q)'
    <3>1. Booted(q)
      BY <2>4, <1>1, <1>8 DEF BootInv, Booted, Fit, FileSize
    <3>2. CASE q # p
      <4>1. \A w : ToDo(w, q)' <=> ToDo(w, q)
        BY <3>2, <1>2, <1>3, DoEq
      <4>. QED
        BY <3>1, <4>1, <1>1 DEF Booted, Whole, Runs, Compilable, NoCode
    <3>3. CASE q = p /\ Head(todo).do = "load"
      BY <3>3, <1>1 DEF Booted, Whole
    <3>4. CASE q = p /\ Head(todo).do = "rebind"
      <4>1. \A w : w # "rebind" => (ToDo(w, q)' <=> ToDo(w, q))
        BY <3>4, <1>2, <1>3, DoEq
      <4>. QED
        BY <3>1, <4>1, <1>1 DEF Booted, Whole, Runs, Compilable, NoCode
    <3>5. CASE q = p /\ Head(todo).do = "restored"
      <4>1. ToDo("load", q)' <=> ToDo("load", q)
        BY <3>5, <1>2, <1>3, DoEq
      <4>2. ASSUME Whole(q), ~ToDo("load", q) PROVE ~Compilable(dat[q].text)
        <5>1. dat[q].text = NoText
          BY <3>1, <3>5, <4>2 DEF Booted
        <5>. QED
          BY <5>1, StAssumption DEF Compilable
      <4>. QED
        BY <3>1, <4>1, <4>2, <1>1 DEF Booted, Whole, Runs, Compilable, NoCode
    <3>. QED
      BY <3>2, <3>3, <3>4, <3>5
  <2>. QED
    BY <2>1, <2>2, <2>3, <2>4 DEF BootInv, Booted, GoodCode, Codes
<1>10. RunsItsText'
  BY <1>1 DEF RunsItsText, HasCode, NoCode
<1>11. TypeOK'
  BY <1>1, Parts, StepTypes
<1>. QED
  BY <1>1, <1>2, <1>6, <1>7, <1>9, <1>10, <1>11 DEF Inv

LEMMA RebindStepInv ==
  ASSUME Inv, RebindStep
  PROVE  Inv'
<1>. DEFINE p == This
<1>1. ScriptInv /\ BootInv /\ TypeOK
  BY Parts
<1>2. /\ todo # <<>> /\ Head(todo).do = "rebind" /\ Head(todo) = Do("rebind", p)
      /\ p \in Programs
  BY <1>1, AtHead DEF RebindStep, OfProgram
<1>3. CASE Rebinds(p)
  <2>1. Compile(p, Tail(todo), Tail(todo)) /\ UNCHANGED <<globals, flash, calls>>
    BY <1>3 DEF RebindStep
  <2>. HIDE DEF p
  <2>2. AllSaves(todo)
    <3>1. Head(todo) \in Range(todo)
      BY <1>1, <1>2, Heads
    <3>. QED
      BY <1>1, <1>2, <3>1 DEF ScriptInv, ScriptOK
  <2>3. ~ToDo("load", p) /\ ~Booting
    BY <1>1, <1>2, Now, LaterKinds, DoEq DEF Follow, Booting
  <2>. QED
    BY <1>2, <2>1, <2>2, <2>3, CompileInv
<1>4. CASE ~Rebinds(p)
  <2>1. todo' = Tail(todo) /\ UNCHANGED <<prog, ir, globals, flash, calls>>
    BY <1>4 DEF RebindStep
  <2>. QED
    BY <1>2, <2>1, DropInv
<1>. QED
  BY <1>3, <1>4

LEMMA RestoredStepInv ==
  ASSUME Inv, RestoredStep
  PROVE  Inv'
<1>. DEFINE p == This
<1>1. ScriptInv /\ BootInv /\ TypeOK /\ SaveInv
  BY Parts
<1>2. /\ todo # <<>> /\ Head(todo).do = "restored" /\ Head(todo) = Do("restored", p)
      /\ p \in Programs
  BY <1>1, AtHead DEF RestoredStep, OfProgram
<1>3. CASE prog[p].text # NoText
  <2>1. Compile(p, Tail(todo), Tail(todo)) /\ UNCHANGED <<globals, flash, calls>>
    BY <1>3 DEF RestoredStep
  <2>. HIDE DEF p
  <2>2. ToDo("restored", p)
    BY <1>1, <1>2, Now
  <2>3. /\ AllSaves(todo) \/ (Booting /\ Saved(p))
        /\ ~prog[p].compiled
    BY <1>1, <1>2, <2>2 DEF SaveInv
  <2>4. ~ToDo("load", p)
    <3>1. Blank.text = NoText
      BY DEF Blank
    <3>. QED
      BY <1>1, <1>2, <1>3, <3>1 DEF BootInv
  <2>. QED
    BY <1>2, <2>1, <2>3, <2>4, CompileInv
<1>4. CASE prog[p].text = NoText
  <2>1. todo' = Tail(todo) /\ UNCHANGED <<prog, ir, globals, flash, calls>>
    BY <1>4 DEF RestoredStep
  <2>. QED
    BY <1>2, <1>4, <2>1, DropInv
<1>. QED
  BY <1>3, <1>4

LEMMA LoadNothingInv ==
  ASSUME Inv, LoadNothing
  PROVE  Inv'
<1>1. ScriptInv
  BY Parts
<1>2. /\ todo # <<>> /\ Head(todo).do = "load" /\ Head(todo) = Do("load", This)
      /\ This \in Programs
  BY <1>1, AtHead DEF LoadNothing, OfProgram
<1>3. ~Whole(This)
  BY DEF LoadNothing, Whole
<1>4. todo' = Tail(todo) /\ UNCHANGED <<prog, ir, globals, flash, calls>>
  BY DEF LoadNothing
<1>. QED
  BY <1>2, <1>3, <1>4, DropInv

\* A step that changes no code and none of the program files.
LEMMA QuietInv ==
  ASSUME Inv, todo # <<>>, todo' = Tail(todo),
         prog' \in [Programs -> Program], \A p \in Programs : SameCode(p),
         prog' = prog \/ Head(todo).do = "interval",
         globals' = globals, dat' = dat, calls' = calls, ir' \in GoodIr,
         gdat' \in GTexts \cup {NoGlobals}, bc' \in [Programs -> Caches],
         \A p \in Programs : bc'[p] = bc[p] \/ (bc'[p] = prog[p].code /\ ToDo("cache", p)),
         Head(todo).do \in {"cache", "saveGlobals", "interval", "reallocate"}
  PROVE  Inv'
<1>1. TypeOK /\ ScriptInv /\ DataInv /\ SaveInv /\ BootInv /\ RunsItsText
  BY Parts
<1>2. ScriptInv' /\ \A w, q : ToDo(w, q)' <=> Do(w, q) \in Later
  BY <1>1, Consumed
<1>3. \A w, q : ToDo(w, q) <=> Do(w, q) = Head(todo) \/ Do(w, q) \in Later
  BY <1>1, Now
<1>4. \A w, q : w \notin {"cache", "saveGlobals", "interval", "reallocate"}
                => (ToDo(w, q)' <=> ToDo(w, q))
  BY <1>2, <1>3, DoEq
<1>5. \A w, q : ToDo(w, q)' => ToDo(w, q) /\ w \notin {"compile", "cache", "restored", "boot"}
  BY <1>1, <1>2, <1>3, LaterKinds
<1>6. ASSUME NEW q \in Programs
      PROVE  ProgData(q)' /\ (ToDo("cache", q)' => prog'[q].code # NoCode)
  <2>1. ProgData(q) /\ (ToDo("cache", q) => prog[q].code # NoCode)
    BY <1>1, DataParts
  <2>2. bc'[q] \notin {NoFile, Torn} => GoodCode(bc'[q])
    BY <2>1 DEF ProgData
  <2>3. SameCode(q)
    OBVIOUS
  <2>. QED
    BY <2>1, <2>2, <2>3, <1>5 DEF ProgData, SameCode, Whole, GoodCode, Codes, NoCode
<1>7. DataInv'
  BY <1>1, <1>6, DataParts, DataPartsNext
<1>8. SaveInv'
  <2>1. \A q \in Programs : Unsaved(q)' <=> Unsaved(q)
    BY DEF Unsaved, Saved, Whole, SameCode
  <2>. QED
    BY <2>1, <1>1, <1>4, <1>5 DEF SaveInv
<1>9. Booting' => Booting
  BY <1>5 DEF Booting
<1>10. BootInv'
  <2>1. ASSUME NEW q \in Programs, ToDo("load", q)' PROVE prog'[q] = Blank
    <3>1. ToDo("load", q) /\ Head(todo).do # "interval"
      BY <2>1, <1>1, <1>2, <1>5, LaterKinds DEF Follow
    <3>. QED
      BY <3>1, <1>1 DEF BootInv
  <2>2. ~ToDo("boot", 0)'
    BY <1>5
  <2>3. ASSUME Booting', NEW q \in Programs
        PROVE  (prog'[q].compiled => GoodCode(prog'[q].code)) /\ InPool(q)' <= FileSize(q)'
    <3>1. (prog[q].compiled => GoodCode(prog[q].code)) /\ InPool(q) <= FileSize(q)
      BY <2>3, <1>1, <1>9 DEF BootInv
    <3>. QED
      BY <3>1 DEF InPool, FileSize, SameCode
  <2>4. ASSUME Booting', Fit', NEW q \in Programs PROVE Booted(q)'
    <3>1. Fit
      BY <2>4 DEF Fit, FileSize
    <3>2. Booted(q)
      BY <2>4, <3>1, <1>1, <1>9 DEF BootInv, Booted
    <3>3. (ToDo("load", q)' <=> ToDo("load", q)) /\ (ToDo("restored", q)' <=> ToDo("restored", q))
      BY <1>4
    <3>4. SameCode(q)
      OBVIOUS
    <3>. QED
      BY <3>2, <3>3, <3>4 DEF Booted, Whole, Runs, Compilable, NoCode, SameCode
  <2>. QED
    BY <2>1, <2>2, <2>3, <2>4 DEF BootInv, Booted, GoodCode, Codes
<1>11. RunsItsText'
  <2>1. ASSUME NEW q \in Programs, HasCode(q)', prog'[q].text \in Texts
        PROVE  prog'[q].code.text = prog'[q].text
    <3>1. HasCode(q) /\ prog[q].text \in Texts => prog[q].code.text = prog[q].text
      BY <1>1 DEF RunsItsText
    <3>2. SameCode(q)
      OBVIOUS
    <3>. QED
      BY <2>1, <3>1, <3>2 DEF SameCode, HasCode, NoCode
  <2>. QED
    BY <2>1 DEF RunsItsText
<1>12. TypeOK'
  BY <1>1, Parts, StepTypes
<1>. QED
  BY <1>2, <1>7, <1>8, <1>10, <1>11, <1>12 DEF Inv

LEMMA CacheStepInv ==
  ASSUME Inv, CacheStep
  PROVE  Inv'
<1>1. ScriptInv /\ prog \in [Programs -> Program] /\ ir \in GoodIr
      /\ gdat \in GTexts \cup {NoGlobals}
  BY Parts
<1>2. /\ todo # <<>> /\ Head(todo).do = "cache" /\ Head(todo) = Do("cache", This)
      /\ This \in Programs
  BY <1>1, AtHead DEF CacheStep, OfProgram
<1>3. /\ bc' = [bc EXCEPT ![This] = prog[This].code] /\ todo' = Tail(todo)
      /\ UNCHANGED <<prog, ir, globals, dat, gdat, calls>>
  BY DEF CacheStep
<1>4. ToDo("cache", This)
  BY <1>1, <1>2, Now
<1>5. \A p \in Programs : bc'[p] = bc[p] \/ (bc'[p] = prog[p].code /\ ToDo("cache", p))
  <2>. DEFINE h == This
  <2>1. ToDo("cache", h) /\ bc' = [bc EXCEPT ![h] = prog[h].code]
    BY <1>3, <1>4
  <2>. HIDE DEF h
  <2>. QED
    BY <2>1
<1>6. \A p \in Programs : SameCode(p)
  BY <1>3 DEF SameCode
<1>7. bc' \in [Programs -> Caches]
  BY <1>1, <1>2, <1>3, Parts DEF Caches, Program
<1>. QED
  BY <1>1, <1>2, <1>3, <1>5, <1>6, <1>7, QuietInv

LEMMA SaveGlobalsStepInv ==
  ASSUME Inv, SaveGlobalsStep
  PROVE  Inv'
<1>1. ScriptInv /\ prog \in [Programs -> Program] /\ ir \in GoodIr
      /\ globals.src \in GTexts \cup {NoGlobals}
      /\ bc \in [Programs -> Caches]
  BY Parts
<1>2. todo # <<>> /\ Head(todo).do = "saveGlobals"
  BY <1>1, AtHead DEF SaveGlobalsStep
<1>3. /\ gdat' = globals.src /\ todo' = Tail(todo)
      /\ UNCHANGED <<prog, ir, globals, dat, bc, calls>>
  BY DEF SaveGlobalsStep
<1>4. \A p \in Programs : SameCode(p)
  BY <1>3 DEF SameCode
<1>. QED
  BY <1>1, <1>2, <1>3, <1>4, QuietInv

LEMMA IntervalStepInv ==
  ASSUME Inv, IntervalStep
  PROVE  Inv'
<1>1. ScriptInv /\ prog \in [Programs -> Program] /\ ir \in GoodIr
      /\ gdat \in GTexts \cup {NoGlobals}
      /\ bc \in [Programs -> Caches]
  BY Parts
<1>2. todo # <<>> /\ Head(todo).do = "interval" /\ This \in Nat
  BY <1>1, AtHead DEF IntervalStep
<1>3. /\ prog' = AllIntervals(This) /\ todo' = Tail(todo)
      /\ UNCHANGED <<ir, globals, dat, gdat, bc, calls>>
  BY DEF IntervalStep, flash
<1>4. prog' \in [Programs -> Program] /\ \A p \in Programs : SameCode(p)
  BY <1>1, <1>2, <1>3 DEF Program, SameCode, AllIntervals
<1>. QED
  BY <1>1, <1>2, <1>3, <1>4, QuietInv

LEMMA ReallocateStepInv ==
  ASSUME Inv, ReallocateStep
  PROVE  Inv'
<1>1. ScriptInv /\ BootInv /\ prog \in [Programs -> Program]
      /\ gdat \in GTexts \cup {NoGlobals}
      /\ bc \in [Programs -> Caches]
  BY Parts
<1>2. /\ todo # <<>> /\ Head(todo).do = "reallocate" /\ Head(todo) = Do("reallocate", 0)
  BY <1>1, AtHead DEF ReallocateStep
<1>. DEFINE need == [p \in Programs |->
                       IF prog[p].compiled THEN IrNeed[prog[p].code.text] ELSE 0]
<1>3. /\ ir' = IrReallocateAll(need) /\ todo' = Tail(todo)
      /\ UNCHANGED <<prog, globals, dat, gdat, bc, calls>>
  BY DEF ReallocateStep, flash
<1>4. Booting
  BY <1>1, <1>2, Now DEF Booting
<1>5. \A p \in Programs : prog[p].compiled => prog[p].code.text \in Texts
  BY <1>1, <1>4 DEF BootInv, GoodCode
<1>6. need \in [Programs -> Nat]
  BY <1>5, StAssumption
<1>. HIDE DEF need
<1>7. ir' \in GoodIr
  BY <1>3, <1>6, ReallocateApart
<1>8. \A p \in Programs : SameCode(p)
  BY <1>3 DEF SameCode
<1>. QED
  BY <1>1, <1>2, <1>3, <1>7, <1>8, QuietInv

\* What a save writes.
LEMMA ImageGood ==
  ASSUME Inv, NEW p \in Programs
  PROVE  /\ Image(p) \in {NoFile} \cup DatFile
         /\ Image(p) # NoFile => /\ Image(p) \notin {NoFile, Torn}
                                 /\ Image(p) \in DatFile
                                 /\ Image(p).text # NoText
                                 /\ Image(p).text \in Texts
                                    => Image(p).size = SizeOf[Image(p).text]
         /\ prog[p].text \in Texts => Image(p) # NoFile /\ Image(p).text = prog[p].text
<1>. DEFINE m == [text |-> IF prog[p].text = NoText THEN Noise ELSE prog[p].text,
                  size |-> prog[p].size, on |-> prog[p].on, ivl |-> prog[p].ivl]
<1>1. /\ prog[p] \in Program
      /\ prog[p].text \in Texts => prog[p].size = SizeOf[prog[p].text]
  BY Parts DEF DataInv
<1>2. /\ NoText \notin Texts /\ Noise \notin Texts /\ NoText # Noise
      /\ NoFile \notin DatFile /\ Torn \notin DatFile
      /\ \A t \in Texts : SizeOf[t] \in Nat \ {0}
  BY StAssumption
<1>3. m \in DatFile
  BY <1>1 DEF Program, DatFile
<1>4. Image(p) = IF prog[p].size = 0 THEN NoFile ELSE m
  BY DEF Image
<1>5. m.size = prog[p].size /\ m.text = IF prog[p].text = NoText THEN Noise ELSE prog[p].text
  OBVIOUS
<1>. HIDE DEF m
<1>6. m \notin {NoFile, Torn} /\ m.text # NoText
      /\ (m.text \in Texts => m.size = SizeOf[m.text])
  BY <1>1, <1>2, <1>3, <1>5
<1>7. prog[p].text \in Texts => prog[p].size # 0 /\ m.text = prog[p].text
  BY <1>1, <1>2, <1>5
<1>8. CASE prog[p].size = 0
  BY <1>4, <1>7, <1>8
<1>9. CASE prog[p].size # 0
  BY <1>3, <1>4, <1>6, <1>7, <1>9
<1>. QED
  BY <1>8, <1>9

LEMMA SaveStepInv ==
  ASSUME Inv, SaveStep
  PROVE  Inv'
<1>. DEFINE p == This
<1>1. TypeOK /\ ScriptInv /\ DataInv /\ SaveInv /\ BootInv /\ RunsItsText /\ ir \in GoodIr
  BY Parts
<1>2. /\ todo # <<>> /\ Head(todo).do = "save" /\ Head(todo) = Do("save", p)
      /\ p \in Programs
  BY <1>1, AtHead DEF SaveStep, OfProgram
<1>3. /\ dat' = [dat EXCEPT ![p] = Image(p)] /\ todo' = Tail(todo)
      /\ UNCHANGED <<prog, ir, globals, gdat, bc, calls>>
  BY DEF SaveStep
<1>. HIDE DEF p
<1>4. ScriptInv' /\ \A w, q : ToDo(w, q)' <=> Do(w, q) \in Later
  BY <1>1, <1>2, <1>3, Consumed
<1>5. \A w, q : ToDo(w, q) <=> Do(w, q) = Do("save", p) \/ Do(w, q) \in Later
  BY <1>1, <1>2, Now
<1>6. \A w, q : Do(w, q) \in Later => w \in {"save", "interval"}
  BY <1>1, <1>2, LaterKinds DEF Follow
<1>7. \A q \in Programs : q # p => dat'[q] = dat[q]
  BY <1>3
<1>8. dat'[p] = Image(p) /\ dat' \in [Programs -> DatFiles]
  BY <1>2, <1>3, Parts, ImageGood DEF DatFiles
<1>10. ASSUME NEW q \in Programs PROVE ProgData(q)'
  <2>1. ProgData(q)
    BY <1>1, DataParts
  <2>2. CASE q # p
    BY <2>1, <2>2, <1>3, <1>7 DEF ProgData, Whole, GoodCode, Codes, NoCode
  <2>3. CASE q = p
    <3>. DEFINE m == Image(p)
    <3>1. /\ dat'[q] = m /\ prog' = prog /\ bc' = bc
          /\ m # NoFile => m.text # NoText /\ (m.text \in Texts => m.size = SizeOf[m.text])
      BY <2>3, <1>2, <1>3, <1>8, ImageGood
    <3>. HIDE DEF m
    <3>2. Whole(q)' => dat'[q] # NoFile
      BY DEF Whole
    <3>3. Whole(q)' => /\ dat'[q].text # NoText
                       /\ dat'[q].text \in Texts => dat'[q].size = SizeOf[dat'[q].text]
      BY <3>1, <3>2
    <3>. QED
      BY <2>1, <3>1, <3>3 DEF ProgData, GoodCode, Codes, NoCode
  <2>. QED
    BY <2>2, <2>3
<1>11. DataInv'
  BY <1>1, <1>3, <1>4, <1>6, <1>10, DataParts, DataPartsNext
<1>12. ASSUME NEW q \in Programs, Unsaved(q)' PROVE ToDo("save", q)'
  <2>1. CASE q # p
    <3>1. Unsaved(q)
      BY <1>12, <2>1, <1>3, <1>7 DEF Unsaved, Saved, Whole
    <3>2. ToDo("save", q)
      BY <3>1, <1>1 DEF SaveInv
    <3>. QED
      BY <3>2, <2>1, <1>4, <1>5, DoEq
  <2>2. CASE q = p /\ dat'[p] = Image(p)
    <3>1. prog[p].text \in Texts
      BY <1>12, <2>2, <1>3 DEF Unsaved
    <3>2. Image(p) \notin {NoFile, Torn} /\ Image(p).text = prog[p].text
      BY <3>1, <1>2, ImageGood
    <3>. QED
      BY <1>12, <2>2, <3>2, <1>3 DEF Unsaved, Saved, Whole
  <2>. QED
    BY <1>8, <2>1, <2>2
<1>13. SaveInv'
  BY <1>4, <1>6, <1>12 DEF SaveInv
<1>14. BootInv'
  BY <1>4, <1>6 DEF BootInv, Booting
<1>15. RunsItsText'
  BY <1>1, <1>3 DEF RunsItsText, HasCode, NoCode
<1>16. TypeOK'
  BY <1>3, <1>8, Parts, StepTypes
<1>. QED
  BY <1>1, <1>3, <1>4, <1>11, <1>13, <1>14, <1>15, <1>16 DEF Inv

LEMMA ReplaceStepInv ==
  ASSUME Inv, ReplaceStep
  PROVE  Inv'
<1>. DEFINE p == This
            t == Head(todo).t
<1>1. TypeOK /\ ScriptInv /\ DataInv /\ SaveInv /\ BootInv /\ RunsItsText /\ ir \in GoodIr
      /\ prog \in [Programs -> Program]
  BY Parts
<1>2. /\ todo # <<>> /\ Head(todo).do = "replace" /\ Head(todo) \in Steps
      /\ p \in Programs /\ t \in Texts \cup {NoText}
  BY <1>1, AtHead DEF ReplaceStep
<1>3. /\ prog' = IF t # NoText /\ Room(p, SizeOf[t])
                 THEN [prog EXCEPT ![p] = [Blank EXCEPT !.text = t, !.size = SizeOf[t]]]
                 ELSE [prog EXCEPT ![p] = Blank]
      /\ ir' = IrFree(ir, p)
      /\ bc' = [bc EXCEPT ![p] = NoFile]
      /\ todo' = <<Do("restored", p)>> \o Tail(todo)
      /\ UNCHANGED <<globals, dat, gdat, calls>>
  BY DEF ReplaceStep
<1>. HIDE DEF p, t
<1>4. /\ ScriptInv'
      /\ \A w, q : ToDo(w, q)' <=> (w = "restored" /\ q = p) \/ Do(w, q) \in Later
  BY <1>1, <1>2, <1>3, Pushed
<1>5. \A w, q : Do(w, q) \in Later => w \in {"replace", "saveGlobals", "save"}
  BY <1>1, <1>2, LaterKinds DEF Follow
<1>6. \A w, q : w # "replace" => (ToDo(w, q) <=> Do(w, q) \in Later)
  BY <1>1, <1>2, Now, DoEq
<1>7. /\ \A q \in Programs : q # p => prog'[q] = prog[q]
      /\ prog' \in [Programs -> Program]
      /\ ~prog'[p].compiled /\ prog'[p].code = NoCode
      /\ prog'[p].text \in Texts => prog'[p].size = SizeOf[prog'[p].text]
  <2>1. CASE t # NoText /\ Room(p, SizeOf[t])
    <3>. DEFINE r == [Blank EXCEPT !.text = t, !.size = SizeOf[t]]
    <3>1. r \in Program
      BY <2>1, <1>2, NoCodeType, StAssumption DEF Program, Blank
    <3>2. ~r.compiled /\ r.code = NoCode /\ r.text = t /\ r.size = SizeOf[t]
      BY DEF Blank
    <3>. HIDE DEF r
    <3>3. prog' = [prog EXCEPT ![p] = r]
      BY <2>1, <1>3 DEF r
    <3>. QED
      BY <3>1, <3>2, <3>3, <1>1, <1>2
  <2>2. CASE ~(t # NoText /\ Room(p, SizeOf[t]))
    <3>1. prog' = [prog EXCEPT ![p] = Blank]
      BY <2>2, <1>3
    <3>2. ~Blank.compiled /\ Blank.code = NoCode /\ Blank.text = NoText /\ NoText \notin Texts
      BY StAssumption DEF Blank
    <3>. QED
      BY <3>1, <3>2, <1>1, <1>2, NoCodeType
  <2>. QED
    BY <2>1, <2>2
<1>8. /\ bc' \in [Programs -> Caches] /\ bc'[p] = NoFile
      /\ \A q \in Programs : q # p => bc'[q] = bc[q]
  BY <1>2, <1>3, Parts DEF Caches
<1>9. ASSUME NEW q \in Programs PROVE ProgData(q)'
  <2>1. ProgData(q)
    BY <1>1, DataParts
  <2>2. CASE q # p
    BY <2>1, <2>2, <1>3, <1>7, <1>8 DEF ProgData, Whole, GoodCode, Codes, NoCode
  <2>3. CASE q = p
    BY <2>1, <2>3, <1>3, <1>7, <1>8 DEF ProgData, Whole, GoodCode, Codes, NoCode
  <2>. QED
    BY <2>2, <2>3
<1>10. DataInv'
  BY <1>1, <1>3, <1>4, <1>5, <1>9, DataParts, DataPartsNext
<1>11. AllSaves(todo)'
  <2>1. Head(todo) \in Range(todo)
    BY <1>1, <1>2, Heads
  <2>2. AllSaves(todo)
    BY <1>1, <1>2, <2>1 DEF ScriptInv, ScriptOK
  <2>. QED
    BY <2>2, <1>4, <1>6, SavesToDo, SavesToDoNext
<1>12. SaveInv'
  <2>1. ASSUME NEW q \in Programs, Unsaved(q)' PROVE ToDo("save", q)'
    BY <1>11, SavesToDoNext
  <2>2. \A q \in Programs : ~ToDo("compile", q)' /\ (ToDo("restored", q)' => q = p)
    BY <1>4, <1>5
  <2>. QED
    BY <2>1, <2>2, <1>7, <1>11 DEF SaveInv
<1>13. BootInv'
  BY <1>4, <1>5 DEF BootInv, Booting
<1>14. RunsItsText'
  BY <1>1, <1>3, <1>7 DEF RunsItsText, HasCode, NoCode
<1>15. ir' \in GoodIr
  BY <1>1, <1>2, <1>3, FreeApart
<1>16. TypeOK'
  BY <1>3, <1>7, <1>8, <1>15, Parts, StepTypes
<1>. QED
  BY <1>4, <1>10, <1>12, <1>13, <1>14, <1>15, <1>16 DEF Inv

LEMMA BootGlobalsInv ==
  ASSUME Inv, BootGlobals
  PROVE  Inv'
<1>1. TypeOK /\ ScriptInv /\ DataInv /\ SaveInv /\ BootInv /\ RunsItsText /\ ir \in GoodIr
      /\ gdat \in GTexts \cup {NoGlobals}
  BY Parts
<1>2. todo # <<>> /\ Head(todo).do = "boot" /\ Head(todo) = Do("boot", 0)
  BY <1>1, AtHead DEF BootGlobals
<1>3. /\ CommitGlobals(gdat) /\ todo' = Tail(todo)
      /\ prog' = prog /\ ir' = ir /\ dat' = dat /\ gdat' = gdat /\ bc' = bc /\ calls' = calls
  BY DEF BootGlobals, flash
<1>4. ScriptInv' /\ \A w, q : ToDo(w, q)' <=> Do(w, q) \in Later
  BY <1>1, <1>2, <1>3, Consumed
<1>5. \A w, q : Do(w, q) \in Later => w \in {"load", "reallocate"}
  BY <1>1, <1>2, LaterKinds DEF Follow
<1>6. \A w, q : w # "boot" => (ToDo(w, q)' <=> ToDo(w, q))
  BY <1>1, <1>2, <1>4, Now, DoEq
<1>7. ToDo("boot", 0)
  BY <1>1, <1>2, Now
<1>8. \A p \in Programs : ToDo("load", p) /\ prog[p] = Blank
  BY <1>1, <1>7 DEF BootInv
<1>9. globals'.src \in GTexts \cup {NoGlobals} /\ globals'.layout \in Seq(Range(globals'.layout))
  BY <1>1, <1>3, Committed
<1>10. DataInv'
  <2>1. \A p \in Programs : ProgData(p) /\ (ToDo("cache", p) => prog[p].code # NoCode)
    BY <1>1, DataParts
  <2>2. \A p \in Programs : ProgData(p)'
    BY <1>3, <2>1 DEF ProgData, Whole, GoodCode, Codes
  <2>3. \A p \in Programs : ~ToDo("cache", p)'
    BY <1>4, <1>5
  <2>. QED
    BY <1>9, <2>2, <2>3, DataPartsNext
<1>11. \A p \in Programs : ~prog'[p].compiled
  BY <1>3, <1>8 DEF Blank
<1>12. SaveInv'
  BY <1>4, <1>5, <1>11 DEF SaveInv, Unsaved
<1>13. BootInv'
  <2>1. \A p \in Programs : ToDo("load", p)' /\ prog'[p] = Blank
    BY <1>3, <1>6, <1>8
  <2>2. ~ToDo("boot", 0)'
    BY <1>4, <1>5
  <2>3. ASSUME Booting', NEW p \in Programs PROVE InPool(p)' <= FileSize(p)'
    <3>1. Booting
      BY <2>3, <1>6 DEF Booting
    <3>2. InPool(p) <= FileSize(p)
      BY <3>1, <1>1 DEF BootInv
    <3>. QED
      BY <3>2, <1>3 DEF InPool, FileSize
  <2>. QED
    BY <2>1, <2>2, <2>3, <1>11 DEF BootInv
<1>14. RunsItsText'
  BY <1>11 DEF RunsItsText, HasCode, NoCode
<1>15. TypeOK'
  BY <1>1, <1>3, <1>9, Parts, StepTypes
<1>. QED
  BY <1>1, <1>3, <1>4, <1>10, <1>12, <1>13, <1>14, <1>15 DEF Inv

(***************************************************************************)
(* Loading a file.  While a boot goes on every program takes at most its   *)
(* file's size in the pool; so if the files fit together there is room.    *)
(***************************************************************************)
LEMMA RoomToLoad ==
  ASSUME Inv, Booting, Fit, NEW p \in Programs
  PROVE  Room(p, FileSize(p))
<1>. DEFINE f == [q \in Programs |-> IF q = p \/ prog[q].text = NoText THEN 0 ELSE prog[q].size]
            g == [q \in Programs |-> FileSize(q)]
<1>1. prog \in [Programs -> Program] /\ dat \in [Programs -> DatFiles] /\ BootInv
  BY Parts
<1>2. f \in [Programs -> Nat]
  BY <1>1 DEF Program
<1>3. \A q \in Programs : FileSize(q) \in Nat
  BY <1>1 DEF FileSize, DatFiles, DatFile
<1>4. g \in [Programs -> Nat] /\ f[p] = 0
  BY <1>3
<1>5. \A q \in Programs : q # p => f[q] <= g[q]
  BY <1>1 DEF BootInv, InPool
<1>6. g[p] = FileSize(p) /\ PoolUsedBeside(p) = Total(f) /\ Total(g) <= PoolSize
  BY DEF PoolUsedBeside, Fit
<1>7. Total(f) \in Nat
  BY <1>2, Sums, Counted
<1>8. Total(g) \in Nat
  BY <1>4, Sums, Counted
<1>. HIDE DEF f, g
<1>9. Total(f) + g[p] <= Total(g)
  BY <1>2, <1>4, <1>5, SumBeside
<1>10. Total(f) + FileSize(p) <= PoolSize
  BY <1>3, <1>6, <1>7, <1>8, <1>9, StAssumption
<1>. QED
  BY <1>6, <1>10 DEF Room

LEMMA HeaderGood ==
  ASSUME Inv, NEW p \in Programs, Whole(p)
  PROVE  /\ dat[p] \in DatFile /\ Header(p, dat[p]) \in Program
         /\ Header(p, dat[p]).text = prog[p].text /\ Header(p, dat[p]).size = dat[p].size
         /\ Header(p, dat[p]).compiled = prog[p].compiled
         /\ Header(p, dat[p]).code = prog[p].code
<1>1. prog[p] \in Program /\ dat[p] \in DatFile
  BY Parts DEF Whole, DatFiles
<1>. DEFINE i == IF dat[p].ivl < MinInterval THEN DefaultInterval ELSE dat[p].ivl
<1>2. i \in Nat /\ dat[p].on \in BOOLEAN /\ dat[p].size \in Nat
  BY <1>1, StAssumption DEF DatFile
<1>3. Header(p, dat[p]) = [prog[p] EXCEPT !.on = dat[p].on, !.size = dat[p].size, !.ivl = i]
  BY DEF Header
<1>. HIDE DEF i
<1>. QED
  BY <1>1, <1>2, <1>3 DEF Program

\* A file is taken from the list: the program gets its size, perhaps its text,
\* and perhaps the code from the cache.
LEMMA LoadInv ==
  ASSUME Inv, NEW p \in Programs, At("load"), This = p, Whole(p),
         prog' \in [Programs -> Program], Others(p), ir' \in GoodIr,
         prog'[p].size = dat[p].size,
         UNCHANGED <<globals, flash, calls>>,
         \/ /\ ~Room(p, dat[p].size) /\ todo' = Tail(todo)
            /\ prog'[p].text = NoText /\ ~prog'[p].compiled /\ prog'[p].code = NoCode
         \/ /\ todo' = Tail(todo)
            /\ prog'[p].text = dat[p].text /\ prog'[p].compiled
            /\ GoodCode(prog'[p].code) /\ prog'[p].code.text = dat[p].text
         \/ /\ todo' = <<Do("restored", p)>> \o Tail(todo)
            /\ prog'[p].text = dat[p].text /\ ~prog'[p].compiled /\ prog'[p].code = NoCode
  PROVE  Inv'
<1>1. /\ TypeOK /\ ScriptInv /\ DataInv /\ SaveInv /\ BootInv /\ RunsItsText
      /\ globals' = globals /\ dat' = dat /\ gdat' = gdat /\ bc' = bc /\ calls' = calls
      /\ \A q \in Programs : q # p => prog'[q] = prog[q]
  BY Parts DEF flash, Others
<1>2. /\ todo # <<>> /\ Head(todo).do = "load" /\ Head(todo) = Do("load", p)
  BY <1>1, AtHead DEF OfProgram
<1>3. \/ todo' = Tail(todo)
      \/ todo' = <<Do("restored", p)>> \o Tail(todo) /\ prog'[p].text = dat[p].text
         /\ ~prog'[p].compiled
  OBVIOUS
<1>4. /\ ScriptInv'
      /\ \A w, q : w # "restored" => (ToDo(w, q)' <=> Do(w, q) \in Later)
      /\ \A w, q : ToDo(w, q)' => Do(w, q) \in Later \/ (w = "restored" /\ q = p)
      /\ todo' # Tail(todo) => ToDo("restored", p)'
  <2>1. CASE todo' = Tail(todo)
    BY <2>1, <1>1, <1>2, Consumed
  <2>2. CASE todo' = <<Do("restored", p)>> \o Tail(todo)
    BY <2>2, <1>1, <1>2, Pushed
  <2>. QED
    BY <1>3, <2>1, <2>2
<1>5. \A w, q : Do(w, q) \in Later => w \in {"load", "reallocate"} /\ Do(w, q) # Do("load", p)
  BY <1>1, <1>2, LaterKinds DEF Follow
<1>6. \A w, q : ToDo(w, q) <=> (w = "load" /\ q = p) \/ Do(w, q) \in Later
  BY <1>1, <1>2, Now, DoEq
<1>7. Booting /\ Booting'
  <2>1. Head(todo) \in Range(todo)
    BY <1>1, <1>2, Heads
  <2>2. Booting
    BY <1>1, <1>2, <2>1 DEF ScriptInv, ScriptOK, Booting, ToDo
  <2>. QED
    BY <2>2, <1>4, <1>6 DEF Booting
<1>8. dat[p].text # NoText /\ (dat[p].text \in Texts => dat[p].size = SizeOf[dat[p].text])
  BY <1>1 DEF DataInv
<1>9. NoText \notin Texts
  BY StAssumption
<1>10. ASSUME NEW q \in Programs PROVE ProgData(q)'
  <2>1. ProgData(q)
    BY <1>1, DataParts
  <2>2. CASE q # p
    BY <2>1, <2>2, <1>1 DEF ProgData, Whole, GoodCode, Codes, NoCode
  <2>3. CASE q = p
    BY <2>1, <2>3, <1>1, <1>8, <1>9 DEF ProgData, Whole, GoodCode, Codes, NoCode
  <2>. QED
    BY <2>2, <2>3
<1>11. DataInv'
  BY <1>1, <1>4, <1>5, <1>10, DataParts, DataPartsNext
<1>12. SaveInv'
  <2>1. ASSUME NEW q \in Programs PROVE ~Unsaved(q)'
    <3>1. CASE q # p
      <4>1. ~ToDo("save", q)
        BY <1>5, <1>6
      <4>2. ~Unsaved(q)
        BY <4>1, <1>1 DEF SaveInv
      <4>. QED
        BY <4>2, <3>1, <1>1 DEF Unsaved, Saved, Whole
    <3>2. CASE q = p
      BY <3>2, <1>1, <1>9 DEF Unsaved, Saved, Whole
    <3>. QED
      BY <3>1, <3>2
  <2>2. \A q \in Programs : ~ToDo("compile", q)' /\ (ToDo("restored", q)' => q = p)
    BY <1>4, <1>5
  <2>3. ToDo("restored", p)' => ~prog'[p].compiled /\ Saved(p)'
    <3>1. CASE todo' = Tail(todo)
      <4>1. ~ToDo("restored", p)'
        BY <3>1, <1>1, <1>2, <1>5, Consumed
      <4>. QED
        BY <4>1
    <3>2. CASE prog'[p].text = dat[p].text /\ ~prog'[p].compiled
      BY <3>2, <1>1 DEF Saved, Whole
    <3>. QED
      BY <1>3, <3>1, <3>2
  <2>. QED
    BY <2>1, <2>2, <2>3, <1>7 DEF SaveInv
<1>13. BootInv'
  <2>1. ASSUME NEW q \in Programs, ToDo("load", q)' PROVE prog'[q] = Blank
    <3>1. q # p /\ ToDo("load", q)
      BY <2>1, <1>4, <1>5, <1>6
    <3>. QED
      BY <3>1, <1>1 DEF BootInv
  <2>2. ~ToDo("boot", 0)'
    BY <1>4, <1>5
  <2>3. ASSUME NEW q \in Programs
        PROVE  (prog'[q].compiled => GoodCode(prog'[q].code)) /\ InPool(q)' <= FileSize(q)'
    <3>1. CASE q # p
      <4>1. (prog[q].compiled => GoodCode(prog[q].code)) /\ InPool(q) <= FileSize(q)
        BY <1>1, <1>7 DEF BootInv
      <4>. QED
        BY <4>1, <3>1, <1>1 DEF InPool, FileSize
    <3>2. CASE q = p
      <4>1. prog'[p].compiled => GoodCode(prog'[p].code)
        OBVIOUS
      <4>2. FileSize(p)' = dat[p].size /\ dat[p].size \in Nat
        BY <1>1, HeaderGood DEF FileSize, Whole, DatFile
      <4>3. InPool(p)' \in {0, dat[p].size}
        BY DEF InPool
      <4>. QED
        BY <4>1, <4>2, <4>3, <3>2
    <3>. QED
      BY <3>1, <3>2
  <2>4. ASSUME Fit', NEW q \in Programs PROVE Booted(q)'
    <3>1. Fit
      BY <2>4, <1>1 DEF Fit, FileSize
    <3>2. Booted(q)
      BY <3>1, <1>1, <1>7 DEF BootInv, Booted
    <3>3. CASE q # p
      <4>1. ToDo("load", q)' <=> ToDo("load", q)
        BY <3>3, <1>4, <1>6
      <4>2. ~ToDo("restored", q)
        BY <1>5, <1>6
      <4>. QED
        BY <4>1, <4>2, <3>2, <3>3, <1>1 DEF Booted, Whole, Runs, Compilable, NoCode
    <3>4. CASE q = p
      <4>1. Room(p, dat[p].size)
        <5>1. FileSize(p) = dat[p].size
          BY DEF FileSize, Whole
        <5>. QED
          BY <5>1, <3>1, <1>7, RoomToLoad
      <4>2. prog'[p].text = dat[p].text
        BY <4>1
      <4>3. CASE todo' = Tail(todo)
        BY <4>1, <4>2, <4>3, <3>4, <1>1, <1>5, <1>2 DEF Booted, Whole, Runs
      <4>4. CASE todo' # Tail(todo)
        BY <4>2, <4>4, <3>4, <1>1, <1>4 DEF Booted, Whole
      <4>. QED
        BY <4>3, <4>4
    <3>. QED
      BY <3>3, <3>4
  <2>. QED
    BY <2>1, <2>2, <2>3, <2>4 DEF BootInv, Booted, GoodCode, Codes
<1>14. RunsItsText'
  <2>1. ASSUME NEW q \in Programs, HasCode(q)', prog'[q].text \in Texts
        PROVE  prog'[q].code.text = prog'[q].text
    <3>1. CASE q # p
      BY <2>1, <3>1, <1>1 DEF RunsItsText, HasCode, NoCode
    <3>2. CASE q = p
      BY <2>1, <3>2 DEF HasCode, NoCode
    <3>. QED
      BY <3>1, <3>2
  <2>. QED
    BY <2>1 DEF RunsItsText
<1>15. TypeOK'
  BY <1>1, Parts, StepTypes
<1>. QED
  BY <1>4, <1>11, <1>12, <1>13, <1>14, <1>15 DEF Inv

LEMMA LoadNoRoomInv ==
  ASSUME Inv, LoadNoRoom
  PROVE  Inv'
<1>. DEFINE p == This
            r == Header(p, dat[p])
<1>1. ScriptInv /\ BootInv /\ ir \in GoodIr /\ prog \in [Programs -> Program]
  BY Parts
<1>2. /\ At("load") /\ todo # <<>> /\ Head(todo) = Do("load", p) /\ p \in Programs
  BY <1>1, AtHead DEF LoadNoRoom, OfProgram
<1>3. /\ Whole(p) /\ ~Room(p, dat[p].size)
      /\ prog' = [prog EXCEPT ![p] = r]
      /\ todo' = Tail(todo) /\ UNCHANGED <<ir, globals, flash, calls>>
  BY DEF LoadNoRoom, Whole
<1>. HIDE DEF p
<1>4. prog[p] = Blank
  BY <1>1, <1>2, Now DEF BootInv
<1>5. /\ r \in Program /\ r.size = dat[p].size
      /\ r.text = NoText /\ ~r.compiled /\ r.code = NoCode
  BY <1>2, <1>3, <1>4, HeaderGood DEF Blank
<1>. HIDE DEF r
<1>6. prog' \in [Programs -> Program] /\ prog'[p] = r /\ Others(p)
  BY <1>1, <1>2, <1>3, <1>5 DEF Others
<1>7. This = p
  BY DEF p
<1>. QED
  BY <1>1, <1>2, <1>3, <1>5, <1>6, <1>7, LoadInv

LEMMA LoadStepInv ==
  ASSUME Inv, LoadStep
  PROVE  Inv'
<1>. DEFINE p == This
            h == Header(p, dat[p])
            t == dat[p].text
            r == [h EXCEPT !.text = t]
            c == [r EXCEPT !.compiled = TRUE, !.code = bc[p]]
<1>1. ScriptInv /\ BootInv /\ DataInv /\ ir \in GoodIr /\ prog \in [Programs -> Program]
  BY Parts
<1>2. /\ At("load") /\ todo # <<>> /\ Head(todo) = Do("load", p) /\ p \in Programs
  BY <1>1, AtHead DEF LoadStep, OfProgram
<1>3. /\ Whole(p) /\ UNCHANGED <<globals, flash, calls>>
      /\ IF Cached(p, t)
         THEN prog' = [prog EXCEPT ![p] = c] /\ ir' = IrAllocate(ir, p, IrNeed[t])
              /\ todo' = Tail(todo)
         ELSE prog' = [prog EXCEPT ![p] = r] /\ todo' = <<Do("restored", p)>> \o Tail(todo)
              /\ UNCHANGED ir
  BY DEF LoadStep, Whole
<1>4. This = p
  BY DEF p
<1>. HIDE DEF p
<1>5. prog[p] = Blank
  BY <1>1, <1>2, Now DEF BootInv
<1>6. /\ h \in Program /\ h.size = dat[p].size /\ dat[p] \in DatFile
      /\ ~h.compiled /\ h.code = NoCode
  BY <1>2, <1>3, <1>5, HeaderGood DEF Blank
<1>. HIDE DEF h
<1>7. /\ r \in Program /\ r.size = dat[p].size /\ r.text = t
      /\ ~r.compiled /\ r.code = NoCode
  BY <1>6 DEF Program, DatFile
<1>. HIDE DEF r
<1>8. CASE Cached(p, t)
  <2>1. GoodCode(bc[p]) /\ bc[p].text = t
    BY <1>1, <1>2, <1>8 DEF Cached, DataInv
  <2>2. t \in Texts /\ IrNeed[t] \in Nat /\ bc[p] \in Codes
    BY <2>1, StAssumption DEF GoodCode
  <2>3. /\ c \in Program /\ c.size = dat[p].size /\ c.text = t
        /\ c.compiled /\ c.code = bc[p]
    BY <1>7, <2>2 DEF Program
  <2>. HIDE DEF c
  <2>4. /\ prog' \in [Programs -> Program] /\ prog'[p] = c /\ Others(p)
        /\ todo' = Tail(todo)
    BY <1>1, <1>2, <1>3, <1>8, <2>3 DEF Others
  <2>5. ir' \in GoodIr
    BY <1>1, <1>2, <1>3, <1>8, <2>2, AllocateApart
  <2>. QED
    BY <1>2, <1>3, <1>4, <2>1, <2>3, <2>4, <2>5, LoadInv
<1>9. CASE ~Cached(p, t)
  <2>1. /\ prog' \in [Programs -> Program] /\ prog'[p] = r /\ Others(p)
        /\ todo' = <<Do("restored", p)>> \o Tail(todo) /\ ir' = ir
    BY <1>1, <1>2, <1>3, <1>7, <1>9 DEF Others
  <2>. QED
    BY <1>1, <1>2, <1>3, <1>4, <1>7, <2>1, LoadInv
<1>. QED
  BY <1>8, <1>9

LEMMA PowerFailInv ==
  ASSUME Inv, PowerFail
  PROVE  Inv'
<1>1. TypeOK /\ ScriptInv /\ DataInv /\ gdat \in GTexts \cup {NoGlobals}
      /\ dat \in [Programs -> DatFiles] /\ bc \in [Programs -> Caches]
  BY Parts
<1>2. /\ calls' \in 0 .. MaxCalls
      /\ prog' = [p \in Programs |-> Blank] /\ ir' = [p \in Programs |-> NoIr]
      /\ globals' = NoBlock /\ todo' = Boot /\ Tears
  <2>1. calls \in 0 .. MaxCalls /\ MaxCalls \in Nat
    BY <1>1, StAssumption DEF TypeOK
  <2>2. calls < MaxCalls /\ calls' = calls + 1
    BY DEF PowerFail
  <2>3. calls' \in 0 .. MaxCalls
    BY <2>1, <2>2
  <2>. QED
    BY <2>3 DEF PowerFail
<1>3. NoText # Noise /\ Noise \notin Texts
  BY StAssumption
<1>4. dat' = dat \/ \E p \in Programs : \/ dat' = [dat EXCEPT ![p] = Torn]
                                       \/ /\ Image(p) # NoFile
                                          /\ dat' = [dat EXCEPT ![p] = [Image(p) EXCEPT !.text = Noise]]
  <2>1. At("save") => This \in Programs
    BY <1>1, AtHead DEF OfProgram
  <2>. QED
    BY <1>2, <2>1 DEF Tears
<1>5. \/ bc' = bc
      \/ \E p \in Programs : bc' = [bc EXCEPT ![p] = Torn]
  <2>1. At("cache") => This \in Programs
    BY <1>1, AtHead DEF OfProgram
  <2>. QED
    BY <1>2, <2>1 DEF Tears
<1>6. gdat' \in GTexts \cup {NoGlobals}
  BY <1>1, <1>2 DEF Tears
<1>7. /\ dat' \in [Programs -> DatFiles]
      /\ \A p \in Programs : dat'[p] \notin {NoFile, Torn} =>
           /\ dat'[p].text # NoText
           /\ dat'[p].text \in Texts => dat'[p].size = SizeOf[dat'[p].text]
  <2>1. \A p \in Programs : dat[p] \notin {NoFile, Torn} =>
           /\ dat[p].text # NoText
           /\ dat[p].text \in Texts => dat[p].size = SizeOf[dat[p].text]
    BY <1>1 DEF DataInv, Whole
  <2>2. CASE dat' = dat
    BY <2>1, <2>2, <1>1
  <2>3. ASSUME NEW p \in Programs, dat' = [dat EXCEPT ![p] = Torn]
        PROVE  /\ dat' \in [Programs -> DatFiles] /\ dat'[p] = Torn
               /\ \A q \in Programs : q # p => dat'[q] = dat[q]
    BY <2>3, <1>1 DEF DatFiles
  <2>4. ASSUME NEW p \in Programs, Image(p) # NoFile,
               dat' = [dat EXCEPT ![p] = [Image(p) EXCEPT !.text = Noise]]
        PROVE  /\ dat' \in [Programs -> DatFiles] /\ dat'[p].text = Noise
               /\ \A q \in Programs : q # p => dat'[q] = dat[q]
    <3>. DEFINE m == Image(p)
                n == [m EXCEPT !.text = Noise]
    <3>1. m \in DatFile
      BY <2>4, ImageGood
    <3>. HIDE DEF m
    <3>2. n \in DatFile /\ n.text = Noise
      BY <3>1 DEF DatFile
    <3>3. dat' = [dat EXCEPT ![p] = n]
      BY <2>4 DEF m
    <3>. HIDE DEF n
    <3>. QED
      BY <3>2, <3>3, <1>1 DEF DatFiles
  <2>. QED
    BY <1>3, <1>4, <2>1, <2>2, <2>3, <2>4
<1>8. /\ bc' \in [Programs -> Caches]
      /\ \A p \in Programs : bc'[p] \notin {NoFile, Torn} => GoodCode(bc'[p])
  <2>1. \A p \in Programs : bc[p] \notin {NoFile, Torn} => GoodCode(bc[p])
    BY <1>1 DEF DataInv
  <2>. QED
    BY <1>1, <1>5, <2>1 DEF Caches
<1>9. /\ ScriptInv'
      /\ \A w, p : ToDo(w, p)' <=> Do(w, p) \in Range(Boot)
  BY <1>2, BootScript, Started
<1>10. \A w, p : Do(w, p) \in Range(Boot) <=>
         \/ w \in {"boot", "reallocate"} /\ p = 0
         \/ w = "load" /\ p \in Programs
  BY BootScript, DoEq
<1>11. \A p \in Programs : /\ prog'[p] = Blank /\ Blank.text = NoText /\ ~Blank.compiled
                           /\ Blank.code = NoCode
  BY <1>2 DEF Blank
<1>12. /\ NoText \notin Texts /\ prog' \in [Programs -> Program] /\ ir' \in GoodIr
       /\ NoBlock.layout = <<>> /\ NoBlock.src = NoGlobals /\ <<>> \in Seq(Range(<<>>))
  BY <1>2, StAssumption, NoCodeType, NoneApart DEF NoBlock
<1>13. DataInv'
  <2>1. globals'.layout \in Seq(Range(globals'.layout))
    BY <1>2, <1>12
  <2>2. \A p \in Programs : ProgData(p)'
    BY <1>7, <1>8, <1>11, <1>12 DEF ProgData, Whole, GoodCode, Codes, NoCode
  <2>3. \A p \in Programs : ~ToDo("cache", p)'
    BY <1>9, <1>10
  <2>. QED
    BY <2>1, <2>2, <2>3, DataPartsNext
<1>14. SaveInv'
  BY <1>9, <1>10, <1>11 DEF SaveInv, Unsaved
<1>15. BootInv'
  <2>1. \A p \in Programs : ToDo("load", p)'
    BY <1>9, <1>10
  <2>2. \A p \in Programs : InPool(p)' <= FileSize(p)'
    BY <1>7, <1>11 DEF InPool, FileSize, DatFiles, DatFile
  <2>3. \A p \in Programs : prog'[p] = Blank /\ ~prog'[p].compiled
    BY <1>11
  <2>. QED
    BY <2>1, <2>2, <2>3 DEF BootInv, Blank, NoCode
<1>16. RunsItsText'
  BY <1>11 DEF RunsItsText, HasCode
<1>17. TypeOK'
  <2>1. globals'.src \in GTexts \cup {NoGlobals}
    BY <1>2, <1>12
  <2>2. ir' \in [Programs -> IrRanges]
    BY <1>12 DEF GoodIr
  <2>. QED
    BY <1>2, <1>6, <1>7, <1>8, <1>12, <2>1, <2>2
       DEF TypeOK, IrRanges, Program, DatFile, Codes, NoIr, DatFiles, Caches
<1>. QED
  BY <1>9, <1>12, <1>13, <1>14, <1>15, <1>16, <1>17 DEF Inv


(***************************************************************************)
(* The invariant holds in every state.                                     *)
(***************************************************************************)
LEMMA StepInv ==
  ASSUME Inv, Step
  PROVE  Inv'
BY CompileStepInv, RebindStepInv, ReplaceStepInv, RestoredStepInv, CacheStepInv,
   SaveGlobalsStepInv, SaveStepInv, IntervalStepInv, BootGlobalsInv, LoadNothingInv,
   LoadNoRoomInv, LoadStepInv, ReallocateStepInv DEF Step

LEMMA InitInv ==
  Init => Inv
<1>. SUFFICES ASSUME Init PROVE Inv
  OBVIOUS
<1>1. /\ prog = [p \in Programs |-> Blank] /\ ir = [p \in Programs |-> NoIr]
      /\ globals = NoBlock /\ dat = [p \in Programs |-> NoFile] /\ gdat = NoGlobals
      /\ bc = [p \in Programs |-> NoFile] /\ todo = <<>> /\ calls = 0
  BY DEF Init
<1>2. /\ NoText \notin Texts /\ MaxCalls \in Nat /\ Blank \in Program /\ ir \in GoodIr
      /\ NoBlock.layout = <<>> /\ NoBlock.src = NoGlobals /\ <<>> \in Seq(Range(<<>>))
  BY <1>1, StAssumption, NoCodeType, NoneApart DEF NoBlock
<1>3. \A p \in Programs : /\ prog[p] = Blank /\ prog[p].text = NoText /\ ~prog[p].compiled
                          /\ prog[p].code = NoCode
                          /\ dat[p] = NoFile /\ bc[p] = NoFile /\ ~Whole(p)
  BY <1>1 DEF Blank, Whole
<1>4. \A w, p : ~ToDo(w, p)
  BY <1>1, NothingToDo
<1>5. ScriptInv
  BY <1>1, NoStep DEF ScriptInv, ScriptOK
<1>6. TypeOK
  <2>1. ir \in [Programs -> IrRanges]
    BY <1>2 DEF GoodIr
  <2>2. prog \in [Programs -> Program]
    BY <1>1, <1>2
  <2>. QED
    BY <1>1, <1>2, <2>1, <2>2 DEF TypeOK
<1>7. DataInv
  <2>1. globals.layout \in Seq(Range(globals.layout))
    BY <1>1, <1>2
  <2>. QED
    BY <1>2, <1>3, <1>4, <2>1 DEF DataInv
<1>8. SaveInv
  BY <1>3, <1>4 DEF SaveInv, Unsaved
<1>9. BootInv
  BY <1>4 DEF BootInv, Booting
<1>10. RunsItsText
  BY <1>3 DEF RunsItsText, HasCode
<1>. QED
  BY <1>2, <1>5, <1>6, <1>7, <1>8, <1>9, <1>10 DEF Inv

LEMMA StillInv ==
  ASSUME Inv, UNCHANGED vars
  PROVE  Inv'
<1>1. /\ prog' = prog /\ ir' = ir /\ globals' = globals /\ dat' = dat /\ gdat' = gdat
      /\ bc' = bc /\ todo' = todo /\ calls' = calls
  BY DEF vars
<1>2. TypeOK' /\ RunsItsText' /\ (ir \in GoodIr)' /\ ScriptInv'
  BY <1>1 DEF Inv, TypeOK, RunsItsText, HasCode, ScriptInv
<1>3. DataInv'
  BY <1>1 DEF Inv, DataInv, Whole, ToDo
<1>4. SaveInv'
  BY <1>1 DEF Inv, SaveInv, Unsaved, Saved, Whole, ToDo, Booting
<1>5. BootInv'
  BY <1>1 DEF Inv, BootInv, Booting, ToDo, InPool, FileSize, Fit, Whole, Runs, Compilable
<1>. QED
  BY <1>2, <1>3, <1>4, <1>5 DEF Inv

LEMMA NextInv ==
  ASSUME Inv, [Next]_vars
  PROVE  Inv'
BY HandlerInv, StepInv, PowerFailInv, StillInv DEF Next

LEMMA AlwaysInv ==
  Spec => []Inv
<1>1. Init => Inv
  BY InitInv
<1>2. Inv /\ [Next]_vars => Inv'
  BY NextInv
<1>. QED
  BY <1>1, <1>2, PTL DEF Spec

\* Sources, code, settings and files keep the types the flash images give them.
THEOREM TypeCorrect ==
  Spec => []TypeOK
<1>1. Inv => TypeOK
  BY DEF Inv
<1>. QED
  BY <1>1, AlwaysInv, PTL

\* A program never runs code of another text than the one shown as its source.
THEOREM RunsWhatIsShown ==
  Spec => []RunsItsText
<1>1. Inv => RunsItsText
  BY DEF Inv
<1>. QED
  BY <1>1, AlwaysInv, PTL

\* The EXPORT registers of two programs never overlap and lie in their pool.
THEOREM RegistersAreApart ==
  Spec => []IrDisjoint
<1>1. Inv => IrDisjoint
  BY DEF Inv, GoodIr, Apart, IrDisjoint
<1>. QED
  BY <1>1, AlwaysInv, PTL

\* Between calls, the text a compiled program was compiled from is on flash,
\* whatever failed to compile and wherever the power failed.
THEOREM SavedWhenCompiled ==
  Spec => []CompiledIsSaved
<1>1. Inv => CompiledIsSaved
  BY NothingToDo DEF Inv, SaveInv, Unsaved, Saved, Whole, CompiledIsSaved, Idle
<1>. QED
  BY <1>1, AlwaysInv, PTL

\* When the boot has loaded the files and they have room together, every program
\* with a whole, compilable file runs that file's text, from the cache or
\* compiled, or has no code for want of memory.
THEOREM BootRunsTheFiles ==
  Spec => []BootRunsSaved
<1>1. Inv => BootRunsSaved
  <2>. SUFFICES ASSUME Inv, At("reallocate"), Fit,
                       NEW p \in Programs, Whole(p), Compilable(dat[p].text)
                PROVE  prog[p].text = dat[p].text /\ Runs(p)
    BY Zenon DEF BootRunsSaved, Fit, Whole, Runs
  <2>1. ScriptInv /\ BootInv
    BY DEF Inv
  <2>2. todo # <<>> /\ Head(todo) = Do("reallocate", 0)
    BY <2>1, AtHead
  <2>3. Booting
    BY <2>1, <2>2, Now DEF Booting
  <2>4. \A w \in {"load", "restored"} : \A q : ~ToDo(w, q)
    BY <2>1, <2>2, Now, LaterKinds, DoEq DEF Follow
  <2>. QED
    BY <2>1, <2>3, <2>4 DEF BootInv
<1>. QED
  BY <1>1, AlwaysInv, PTL


(***************************************************************************)
(* Code and the globals it was compiled against.                           *)
(***************************************************************************)
LEMMA SameBound ==
  ASSUME NEW p \in Programs, Bound(p),
         prog'[p].compiled = prog[p].compiled, prog'[p].code = prog[p].code,
         globals'.layout = globals.layout,
         ToDo("rebind", p) => ToDo("rebind", p)'
  PROVE  Bound(p)'
BY DEF Bound, HasCode, Using, ToDo

LEMMA NoCodeBound ==
  ASSUME NEW p \in Programs, ~HasCode(p)'
  PROVE  Bound(p)'
BY DEF Bound

LEMMA RebindBound ==
  ASSUME NEW p \in Programs, ToDo("rebind", p)'
  PROVE  Bound(p)'
BY DEF Bound, ToDo

\* A handler that leaves the globals alone.
LEMMA HandlerBound ==
  ASSUME Idle, globals' = globals,
         NEW p \in Programs, Bound(p),
         ~prog'[p].compiled \/ (prog'[p].compiled = prog[p].compiled
                                /\ prog'[p].code = prog[p].code)
  PROVE  Bound(p)'
<1>1. ~ToDo("rebind", p)
  BY NothingToDo DEF Idle
<1>. QED
  BY <1>1, SameBound, NoCodeBound DEF HasCode

\* A handler that commits a block: every program is to be compiled again, or the
\* layout is the old one, or there are no globals at all.
LEMMA CommitBound ==
  ASSUME Inv, Idle, prog' = prog, NEW g \in GTexts \cup {NoGlobals}, CommitGlobals(g),
         NEW p \in Programs, Bound(p),
         g # NoGlobals /\ LayoutOf[g] # Broken => ToDo("rebind", p)'
  PROVE  Bound(p)'
<1>1. DataInv /\ ~ToDo("rebind", p)
  BY NothingToDo DEF Idle, Inv
<1>2. CASE LayoutOf[g] = Broken
  <2>1. globals'.layout = globals.layout
    BY <1>1, <1>2, Committed
  <2>. QED
    BY <1>1, <2>1, SameBound
<1>3. CASE g = NoGlobals
  <2>1. LayoutOf[g] = <<>> /\ LayoutOf[g] # Broken
    BY <1>3, StAssumption
  <2>2. globals'.layout = <<>>
    BY <1>1, <2>1, Committed
  <2>3. prog[p].code = NoCode \/ GoodCode(prog[p].code)
    BY <1>1 DEF DataInv
  <2>4. CASE prog[p].code = NoCode
    BY <2>4, NoCodeBound DEF HasCode
  <2>5. CASE GoodCode(prog[p].code) /\ Using(p) # NoName
    <3>1. prog[p].code.idx \in Nat /\ prog[p].code.idx > 0
      BY <2>5 DEF GoodCode, Using, Codes
    <3>2. Len(globals'.layout) = 0
      BY <2>2
    <3>3. ~(prog'[p].code.idx <= Len(globals'.layout))
      BY <3>1, <3>2
    <3>. QED
      BY <3>3 DEF Bound
  <2>6. CASE Using(p) = NoName
    BY <2>6 DEF Bound, Using
  <2>. QED
    BY <2>3, <2>4, <2>5, <2>6
<1>. QED
  BY <1>2, <1>3, RebindBound

LEMMA PostGlobalsBound ==
  ASSUME Inv, NEW g \in GTexts \cup {NoGlobals}, PostGlobals(g),
         NEW p \in Programs, Bound(p)
  PROVE  Bound(p)'
<1>1. Idle /\ prog' = prog /\ CommitGlobals(g)
  BY DEF PostGlobals, Call
<1>2. ASSUME g # NoGlobals, LayoutOf[g] # Broken
      PROVE  ToDo("rebind", p)'
  <2>1. todo' = Recompiles \o SaveAll
    BY <1>2 DEF PostGlobals, AfterGlobals
  <2>2. Do("rebind", p) \in Range(Recompiles \o SaveAll)
    BY RebindScript
  <2>. QED
    BY <2>1, <2>2 DEF ToDo
<1>. QED
  BY <1>1, <1>2, CommitBound

LEMMA RestoreBound ==
  ASSUME Inv, NEW b \in Backups, Restore(b), NEW p \in Programs, Bound(p)
  PROVE  Bound(p)'
<1>1. Idle /\ prog' = prog /\ b.g \in GTexts \cup {NoGlobals}
  BY StAssumption DEF Restore, Call
<1>2. CASE b.g = NoGlobals
  BY <1>1, <1>2, HandlerBound DEF Restore
<1>3. CASE b.g # NoGlobals
  <2>1. CommitGlobals(b.g)
    BY <1>3 DEF Restore
  <2>2. ASSUME LayoutOf[b.g] # Broken
        PROVE  ToDo("rebind", p)'
    <3>1. todo' = Recompiles \o Replacements(b) \o SaveAll
      BY <1>3, <2>2 DEF Restore, AfterGlobals, Replacements
    <3>2. Range(Recompiles) \subseteq Range(Recompiles \o Replacements(b) \o SaveAll)
      BY RestoreScript
    <3>3. Do("rebind", p) \in Range(Recompiles)
      BY EachRange DEF Recompiles
    <3>. QED
      BY <3>1, <3>2, <3>3 DEF ToDo
  <2>. QED
    BY <1>1, <2>1, <2>2, CommitBound
<1>. QED
  BY <1>2, <1>3

LEMMA HandlersBound ==
  ASSUME Inv, Handler, NEW p \in Programs, Bound(p)
  PROVE  Bound(p)'
<1>1. prog \in [Programs -> Program]
  BY Parts
<1>2. ASSUME NEW q \in Programs, NEW t \in Texts, Upload(q, t)
      PROVE  Bound(p)'
  <2>1. Idle /\ globals' = globals /\ prog' = Uploaded(q, t)
    BY <1>2 DEF Upload, Call
  <2>2. ~prog'[p].compiled \/ (prog'[p].compiled = prog[p].compiled
                               /\ prog'[p].code = prog[p].code)
    <3>1. CASE prog' = [prog EXCEPT ![q].text = t, ![q].size = SizeOf[t], ![q].compiled = FALSE]
      BY <1>1, <3>1 DEF Program
    <3>2. CASE prog' = [prog EXCEPT ![q].text = NoText, ![q].size = 0]
      BY <1>1, <3>2 DEF Program
    <3>. QED
      BY <2>1, <3>1, <3>2 DEF Uploaded
  <2>. QED
    BY <2>1, <2>2, HandlerBound
<1>3. ASSUME NEW q \in Programs, Delete(q)
      PROVE  Bound(p)'
  <2>1. Idle /\ globals' = globals /\ prog' = [prog EXCEPT ![q] = Deleted]
    BY <1>3 DEF Delete, Call
  <2>2. ~Deleted.compiled
    BY DEF Deleted, Blank
  <2>3. prog'[p] \in {prog[p], Deleted}
    BY <1>1, <2>1
  <2>. QED
    BY <2>1, <2>2, <2>3, HandlerBound
<1>4. CASE Setting
  BY <1>1, <1>4, SettingsCode, HandlerBound DEF SameCode, Call
<1>. QED
  BY <1>2, <1>3, <1>4, PostGlobalsBound, RestoreBound DEF Handler, Setting

\* A step of a program that compiles it, and one that does not.
LEMMA CompileBound ==
  ASSUME Inv, NEW p \in Programs, NEW bad, todo # <<>>,
         Head(todo) \in {Do("compile", p), Do("rebind", p), Do("restored", p)},
         Compile(p, Tail(todo), bad), globals' = globals,
         bad = Tail(todo) \/ (bad = <<>> /\ Head(todo).do = "compile"),
         NEW q \in Programs, Bound(q)
  PROVE  Bound(q)'
<1>1. TypeOK /\ ScriptInv /\ DataInv /\ ir \in GoodIr
  BY Parts
<1>2. /\ Others(p)
      /\ \/ /\ Compilable(prog[p].text)
            /\ prog'[p].code = CodeFor(prog[p].text)
            /\ todo' = <<Do("cache", p)>> \o Tail(todo)
         \/ /\ prog'[p].code = NoCode
            /\ todo' = bad
  BY <1>1, CompileEffect
<1>3. CASE q = p
  <2>1. CASE prog'[p].code = NoCode
    BY <1>3, <2>1, NoCodeBound DEF HasCode
  <2>2. CASE Compilable(prog[p].text) /\ prog'[p].code = CodeFor(prog[p].text)
    <3>. DEFINE t == prog[p].text
                c == CodeFor(t)
    <3>1. /\ c.text = t
          /\ UsesOf[t] # NoName => globals.layout[c.idx] = UsesOf[t]
      BY <1>1, <2>2, CodeForGood
    <3>2. prog'[p].code = c
      BY <2>2
    <3>. HIDE DEF c, t
    <3>. QED
      BY <1>3, <3>1, <3>2 DEF Bound, Using
  <2>. QED
    BY <1>2, <2>1, <2>2
<1>4. CASE q # p
  <2>1. prog'[q] = prog[q]
    BY <1>2, <1>4 DEF Others
  <2>2. ToDo("rebind", q) => Do("rebind", q) \in Later
    BY <1>1, <1>4, Now, DoEq
  <2>3. ASSUME ToDo("rebind", q)
        PROVE  ToDo("rebind", q)'
    <3>1. CASE todo' = Tail(todo)
      BY <1>1, <2>2, <2>3, <3>1, Consumed
    <3>2. CASE todo' = <<Do("cache", p)>> \o Tail(todo)
      <4>1. Head(todo).do \in {"compile", "rebind", "restored"}
        BY DoEq
      <4>. QED
        BY <1>1, <2>2, <2>3, <3>2, <4>1, Pushed
    <3>3. Head(todo).do # "compile"
      BY <1>1, <2>2, <2>3, LaterKinds DEF Follow
    <3>. QED
      BY <1>2, <3>1, <3>2, <3>3
  <2>. QED
    BY <2>1, <2>3, SameBound
<1>. QED
  BY <1>3, <1>4

LEMMA QuietBound ==
  ASSUME Inv, todo # <<>>, globals' = globals, NEW q \in Programs, Bound(q),
         todo' = Tail(todo) \/ \E p \in Programs : /\ todo' = <<Do("restored", p)>> \o Tail(todo)
                                                   /\ Head(todo).do = "replace",
         Head(todo) # Do("rebind", q),
         ~prog'[q].compiled \/ (prog'[q].compiled = prog[q].compiled
                                /\ prog'[q].code = prog[q].code)
  PROVE  Bound(q)'
<1>1. ScriptInv
  BY Parts
<1>2. ToDo("rebind", q) => ToDo("rebind", q)'
  <2>1. ToDo("rebind", q) => Do("rebind", q) \in Later
    BY <1>1, Now
  <2>2. CASE todo' = Tail(todo)
    BY <1>1, <2>1, <2>2, Consumed
  <2>3. ASSUME NEW p \in Programs, todo' = <<Do("restored", p)>> \o Tail(todo),
               Head(todo).do = "replace"
        PROVE  ToDo("rebind", q) => ToDo("rebind", q)'
    BY <1>1, <2>1, <2>3, Pushed
  <2>. QED
    BY <2>2, <2>3
<1>. QED
  BY <1>2, SameBound, NoCodeBound DEF HasCode

LEMMA StepsBound ==
  ASSUME Inv, Step, ~At("load"), NEW q \in Programs, Bound(q)
  PROVE  Bound(q)'
<1>1. ScriptInv /\ BootInv /\ prog \in [Programs -> Program]
  BY Parts
<1>2. CASE CompileStep
  <2>1. todo # <<>> /\ Head(todo) = Do("compile", This) /\ This \in Programs
    BY <1>1, <1>2, AtHead DEF CompileStep, OfProgram
  <2>2. Compile(This, Tail(todo), <<>>) /\ globals' = globals
    BY <1>2 DEF CompileStep
  <2>. QED
    BY <2>1, <2>2, CompileBound, DoEq
<1>3. CASE RebindStep
  <2>1. todo # <<>> /\ Head(todo) = Do("rebind", This) /\ This \in Programs
    BY <1>1, <1>3, AtHead DEF RebindStep, OfProgram
  <2>2. globals' = globals
    BY <1>3 DEF RebindStep
  <2>3. CASE Rebinds(This)
    <3>1. Compile(This, Tail(todo), Tail(todo))
      BY <1>3, <2>3 DEF RebindStep
    <3>. QED
      BY <2>1, <2>2, <3>1, CompileBound
  <2>4. CASE ~Rebinds(This)
    <3>1. todo' = Tail(todo) /\ prog' = prog
      BY <1>3, <2>4 DEF RebindStep
    <3>2. CASE q = This
      BY <2>4, <3>1, <3>2 DEF Rebinds, Bound, HasCode, Using
    <3>3. CASE q # This
      BY <2>1, <2>2, <3>1, <3>3, QuietBound, DoEq
    <3>. QED
      BY <3>2, <3>3
  <2>. QED
    BY <2>3, <2>4
<1>4. CASE RestoredStep
  <2>1. todo # <<>> /\ Head(todo) = Do("restored", This) /\ This \in Programs
    BY <1>1, <1>4, AtHead DEF RestoredStep, OfProgram
  <2>2. globals' = globals
    BY <1>4 DEF RestoredStep
  <2>3. CASE prog[This].text = NoText
    BY <1>4, <2>1, <2>2, <2>3, QuietBound, DoEq DEF RestoredStep
  <2>4. CASE prog[This].text # NoText
    BY <1>4, <2>1, <2>2, <2>4, CompileBound DEF RestoredStep
  <2>. QED
    BY <2>3, <2>4
<1>5. CASE ReplaceStep
  <2>1. todo # <<>> /\ Head(todo).do = "replace" /\ This \in Programs
    BY <1>1, <1>5, AtHead DEF ReplaceStep
  <2>2. globals' = globals /\ todo' = <<Do("restored", This)>> \o Tail(todo)
    BY <1>5 DEF ReplaceStep
  <2>3. \/ \E t : prog' = [prog EXCEPT ![This] = [Blank EXCEPT !.text = t, !.size = SizeOf[t]]]
        \/ prog' = [prog EXCEPT ![This] = Blank]
    BY <1>5 DEF ReplaceStep
  <2>4. prog'[q] = prog[q] \/ ~prog'[q].compiled
    <3>1. ASSUME NEW c, ~c.compiled, prog' = [prog EXCEPT ![This] = c]
          PROVE  prog'[q] = prog[q] \/ ~prog'[q].compiled
      BY <1>1, <2>1, <3>1
    <3>2. ~Blank.compiled /\ \A t : ~[Blank EXCEPT !.text = t, !.size = SizeOf[t]].compiled
      BY DEF Blank
    <3>. QED
      BY <2>3, <3>1, <3>2
  <2>5. Head(todo) # Do("rebind", q)
    BY <2>1, DoEq
  <2>. QED
    BY <2>1, <2>2, <2>4, <2>5, QuietBound
<1>6. CASE CacheStep \/ SaveGlobalsStep \/ SaveStep \/ ReallocateStep \/ IntervalStep
  <2>1. /\ todo # <<>> /\ Head(todo).do # "rebind" /\ globals' = globals
        /\ todo' = Tail(todo)
    BY <1>6 DEF CacheStep, SaveGlobalsStep, SaveStep, ReallocateStep, IntervalStep, At
  <2>2. prog'[q] = prog[q] \/ (\E i : prog'[q] = [prog[q] EXCEPT !.ivl = i])
    BY <1>6 DEF CacheStep, SaveGlobalsStep, SaveStep, ReallocateStep, IntervalStep, AllIntervals
  <2>3. prog'[q].compiled = prog[q].compiled /\ prog'[q].code = prog[q].code
    BY <1>1, <2>2 DEF Program
  <2>4. Head(todo) # Do("rebind", q)
    BY <2>1, DoEq
  <2>. QED
    BY <2>1, <2>3, <2>4, QuietBound
<1>7. CASE BootGlobals
  <2>1. todo # <<>> /\ Head(todo) = Do("boot", 0) /\ prog' = prog
    BY <1>1, <1>7, AtHead DEF BootGlobals
  <2>2. prog[q] = Blank
    BY <1>1, <2>1, Now DEF BootInv
  <2>. QED
    BY <2>1, <2>2, NoCodeBound DEF HasCode, Blank
<1>. QED
  BY <1>2, <1>3, <1>4, <1>5, <1>6, <1>7 DEF Step, LoadNothing, LoadNoRoom, LoadStep

\* Only loading a program at boot binds it to a global it does not name: no
\* upload, failed compilation, restore or lost power does.
THEOREM NothingElseMisbinds ==
  Spec => OnlyBootMisbinds
<1>1. ASSUME Inv, [Next]_vars
      PROVE  [At("load") \/ \A p \in Programs : Bound(p) => Bound(p)']_vars
  <2>. SUFFICES ASSUME Next, ~At("load"), NEW p \in Programs, Bound(p)
                PROVE  Bound(p)'
    BY <1>1
  <2>1. CASE PowerFail
    <3>1. ~prog'[p].compiled
      BY <2>1 DEF PowerFail, Blank
    <3>. QED
      BY <3>1, NoCodeBound DEF HasCode
  <2>. QED
    BY <1>1, <2>1, HandlersBound, StepsBound DEF Next
<1>. QED
  BY <1>1, AlwaysInv, PTL DEF Spec, OnlyBootMisbinds
=============================================================================
