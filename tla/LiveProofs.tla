----------------------------- MODULE LiveProofs -----------------------------
(***************************************************************************)
(* Proofs about access control and the update, as the parts of MCLiveParts *)
(* have them: for any addresses, rules, saved lists, callers, length of    *)
(* the lists and number of calls, and any clock and delay.                 *)
(***************************************************************************)
EXTENDS MCLiveParts, SequenceTheorems, TLAPS

(***************************************************************************)
(* Lists with an element taken out, put in or moved.                       *)
(***************************************************************************)
LEMMA Removed ==
  ASSUME NEW S, NEW l \in Seq(S), NEW i \in 1 .. Len(l)
  PROVE  /\ RemoveAt(l, i) \in Seq(S)
         /\ Len(RemoveAt(l, i)) = Len(l) - 1
         /\ \A k \in 1 .. Len(l) - 1 : RemoveAt(l, i)[k] = IF k < i THEN l[k] ELSE l[k + 1]
<1>. DEFINE a == SubSeq(l, 1, i - 1)
            b == SubSeq(l, i + 1, Len(l))
<1>1. a \in Seq(S) /\ Len(a) = i - 1 /\ \A k \in 1 .. i - 1 : a[k] = l[k]
  OBVIOUS
<1>2. b \in Seq(S) /\ Len(b) = Len(l) - i /\ \A k \in 1 .. Len(l) - i : b[k] = l[k + i]
  OBVIOUS
<1>. HIDE DEF a, b
<1>3. /\ a \o b \in Seq(S) /\ Len(a \o b) = Len(l) - 1
      /\ \A k \in 1 .. Len(l) - 1 : (a \o b)[k] = IF k <= i - 1 THEN a[k] ELSE b[k - (i - 1)]
  <2>1. /\ a \o b \in Seq(S) /\ Len(a \o b) = Len(a) + Len(b)
        /\ \A k \in 1 .. Len(a) + Len(b) :
             (a \o b)[k] = IF k <= Len(a) THEN a[k] ELSE b[k - Len(a)]
    BY <1>1, <1>2, ConcatProperties
  <2>2. Len(l) \in Nat /\ Len(a) = i - 1 /\ Len(a) + Len(b) = Len(l) - 1
    BY <1>1, <1>2
  <2>. QED
    BY <2>1, <2>2
<1>4. \A k \in 1 .. Len(l) - 1 : (a \o b)[k] = IF k < i THEN l[k] ELSE l[k + 1]
  <2>. TAKE k \in 1 .. Len(l) - 1
  <2>1. CASE k < i
    BY <1>1, <1>3, <2>1
  <2>2. CASE ~(k < i)
    <3>1. (a \o b)[k] = b[k - (i - 1)]
      BY <1>3, <2>2
    <3>2. k - (i - 1) \in 1 .. Len(l) - i /\ (k - (i - 1)) + i = k + 1
      BY <2>2
    <3>3. b[k - (i - 1)] = l[k + 1]
      BY <1>2, <3>2
    <3>. QED
      BY <2>2, <3>1, <3>3
  <2>. QED
    BY <2>1, <2>2
<1>. QED
  BY <1>3, <1>4 DEF RemoveAt, a, b

LEMMA Inserted ==
  ASSUME NEW S, NEW l \in Seq(S), NEW i \in 1 .. Len(l) + 1, NEW x \in S
  PROVE  /\ InsertAt(l, i, x) \in Seq(S)
         /\ Len(InsertAt(l, i, x)) = Len(l) + 1
         /\ InsertAt(l, i, x)[i] = x
         /\ \A k \in 1 .. Len(l) + 1 : k # i => InsertAt(l, i, x)[k] = IF k < i THEN l[k] ELSE l[k - 1]
<1>. DEFINE a == SubSeq(l, 1, i - 1)
            b == SubSeq(l, i, Len(l))
            m == a \o <<x>>
<1>1. a \in Seq(S) /\ Len(a) = i - 1 /\ \A k \in 1 .. i - 1 : a[k] = l[k]
  OBVIOUS
<1>2. b \in Seq(S) /\ Len(b) = Len(l) - (i - 1) /\ \A k \in 1 .. Len(l) - (i - 1) : b[k] = l[k + (i - 1)]
  OBVIOUS
<1>. HIDE DEF a, b
<1>3. m \in Seq(S) /\ Len(m) = i /\ m[i] = x /\ \A k \in 1 .. i - 1 : m[k] = l[k]
  BY <1>1
<1>. HIDE DEF m
<1>4. /\ m \o b \in Seq(S) /\ Len(m \o b) = Len(l) + 1
      /\ \A k \in 1 .. Len(l) + 1 : (m \o b)[k] = IF k <= i THEN m[k] ELSE b[k - i]
  BY <1>2, <1>3, ConcatProperties
<1>5. (m \o b)[i] = x
  BY <1>3, <1>4
<1>6. \A k \in 1 .. Len(l) + 1 : k # i => (m \o b)[k] = IF k < i THEN l[k] ELSE l[k - 1]
  <2>. SUFFICES ASSUME NEW k \in 1 .. Len(l) + 1, k # i
                PROVE  (m \o b)[k] = IF k < i THEN l[k] ELSE l[k - 1]
    OBVIOUS
  <2>1. CASE k < i
    BY <1>3, <1>4, <2>1
  <2>2. CASE ~(k < i)
    <3>1. (m \o b)[k] = b[k - i]
      BY <1>4, <2>2
    <3>2. k - i \in 1 .. Len(l) - (i - 1) /\ (k - i) + (i - 1) = k - 1
      BY <2>2
    <3>3. b[k - i] = l[k - 1]
      BY <1>2, <3>2
    <3>. QED
      BY <2>2, <3>1, <3>3
  <2>. QED
    BY <2>1, <2>2
<1>. QED
  BY <1>4, <1>5, <1>6 DEF InsertAt, a, b, m


LEMMA MovedList ==
  ASSUME NEW S, NEW l \in Seq(S), NEW i \in 1 .. Len(l), NEW j \in 1 .. Len(l)
  PROVE  /\ Acl!Moved(l, i, j) \in Seq(S) /\ Len(Acl!Moved(l, i, j)) = Len(l)
         /\ Acl!Moved(l, i, j)[j] = l[i]
         /\ \A k \in 1 .. Len(l) : k # j =>
              Acl!Moved(l, i, j)[k] = LET h == IF k < j THEN k ELSE k - 1
                                      IN  IF h < i THEN l[h] ELSE l[h + 1]
<1>. DEFINE r == RemoveAt(l, i)
            m == InsertAt(r, j, l[i])
<1>1. /\ Len(l) \in Nat /\ l[i] \in S /\ r \in Seq(S) /\ Len(r) = Len(l) - 1
      /\ \A k \in 1 .. Len(l) - 1 : r[k] = IF k < i THEN l[k] ELSE l[k + 1]
  <2>1. Len(l) \in Nat /\ l[i] \in S
    OBVIOUS
  <2>. HIDE DEF r
  <2>2. /\ r \in Seq(S) /\ Len(r) = Len(l) - 1
        /\ \A k \in 1 .. Len(l) - 1 : r[k] = IF k < i THEN l[k] ELSE l[k + 1]
    BY ONLY l \in Seq(S), i \in 1 .. Len(l), Removed DEF r
  <2>. QED
    BY <2>1, <2>2
<1>. HIDE DEF r
<1>2. j \in 1 .. Len(r) + 1
  BY <1>1
<1>3. /\ m \in Seq(S) /\ Len(m) = Len(r) + 1 /\ m[j] = l[i]
      /\ \A k \in 1 .. Len(r) + 1 : k # j => m[k] = IF k < j THEN r[k] ELSE r[k - 1]
  <2>1. l[i] \in S /\ r \in Seq(S)
    BY <1>1
  <2>. HIDE DEF m
  <2>2. \A T, q, h, x : q \in Seq(T) /\ h \in 1 .. Len(q) + 1 /\ x \in T =>
          InsertAt(q, h, x) \in Seq(T)
    BY Inserted
  <2>3. \A T, q, h, x : q \in Seq(T) /\ h \in 1 .. Len(q) + 1 /\ x \in T =>
          Len(InsertAt(q, h, x)) = Len(q) + 1
    BY Inserted
  <2>4. \A T, q, h, x : q \in Seq(T) /\ h \in 1 .. Len(q) + 1 /\ x \in T =>
          InsertAt(q, h, x)[h] = x
    BY Inserted
  <2>5. \A T, q, h, x : q \in Seq(T) /\ h \in 1 .. Len(q) + 1 /\ x \in T =>
          \A k \in 1 .. Len(q) + 1 : k # h =>
            InsertAt(q, h, x)[k] = IF k < h THEN q[k] ELSE q[k - 1]
    BY Inserted
  <2>6. InsertAt(r, j, l[i]) \in Seq(S)
    BY <1>2, <2>1, <2>2
  <2>7. Len(InsertAt(r, j, l[i])) = Len(r) + 1
    BY <1>2, <2>1, <2>3
  <2>8. InsertAt(r, j, l[i])[j] = l[i]
    BY <1>2, <2>1, <2>4
  <2>9. \A k \in 1 .. Len(r) + 1 : k # j =>
          InsertAt(r, j, l[i])[k] = IF k < j THEN r[k] ELSE r[k - 1]
    BY <1>2, <2>1, <2>5
  <2>. QED
    BY <2>6, <2>7, <2>8, <2>9 DEF m
<1>4. m = Acl!Moved(l, i, j)
  BY DEF Acl!Moved, Acl!InsertAt, Acl!RemoveAt, InsertAt, RemoveAt, r
<1>. HIDE DEF m
<1>5. ASSUME NEW k \in 1 .. Len(l), k # j
      PROVE  m[k] = LET h == IF k < j THEN k ELSE k - 1 IN IF h < i THEN l[h] ELSE l[h + 1]
  <2>. DEFINE h == IF k < j THEN k ELSE k - 1
  <2>1. h \in 1 .. Len(l) - 1
    BY <1>1, <1>5
  <2>2. m[k] = r[h]
    BY <1>1, <1>3, <1>5
  <2>. HIDE DEF h
  <2>3. m[k] = IF h < i THEN l[h] ELSE l[h + 1]
    BY <1>1, <2>1, <2>2
  <2>. QED
    BY <2>3 DEF h
<1>. QED
  BY <1>1, <1>3, <1>4, <1>5

(***************************************************************************)
(* Access control: what a list of rules admits.                            *)
(***************************************************************************)
\* A list admits what another does if each rule of it that refuses stands in the
\* other too, behind no rule that allows and is not before it here.
LEMMA AdmitsToo ==
  ASSUME NEW l \in Seq(Rules), NEW m \in Seq(Rules), NEW a, NEW s, Acl!Admits(l, a, s),
         \A k \in 1 .. Len(m) : Acl!Matches(m[k], a, s) /\ ~m[k].allow =>
           \E i \in 1 .. Len(l) :
             /\ m[k] = l[i]
             /\ \A j \in 1 .. i - 1 : Acl!Matches(l[j], a, s) /\ l[j].allow
                                      => \E h \in 1 .. k - 1 : m[h] = l[j]
  PROVE  Acl!Admits(m, a, s)
<1>. SUFFICES ASSUME NEW k \in 1 .. Len(m), Acl!Matches(m[k], a, s), ~m[k].allow
              PROVE  \E h \in 1 .. k - 1 : Acl!Matches(m[h], a, s) /\ m[h].allow
  BY DEF Acl!Admits
<1>1. PICK i \in 1 .. Len(l) :
        /\ m[k] = l[i]
        /\ \A j \in 1 .. i - 1 : Acl!Matches(l[j], a, s) /\ l[j].allow
                                 => \E h \in 1 .. k - 1 : m[h] = l[j]
  OBVIOUS
<1>2. PICK j \in 1 .. i - 1 : Acl!Matches(l[j], a, s) /\ l[j].allow
  BY <1>1 DEF Acl!Admits
<1>3. PICK h \in 1 .. k - 1 : m[h] = l[j]
  BY <1>1, <1>2
<1>. QED
  BY <1>2, <1>3

LEMMA MgmtMatches ==
  ASSUME NEW r, NEW a, NEW s \in Acl!Mgmt, Acl!Matches(r, a, s)
  PROVE  Acl!Active(r)
BY DEF Acl!Matches, Acl!Active, Acl!Affects, Acl!Mgmt

LEMMA NoneActive ==
  ASSUME NEW l \in Seq(Rules), NEW a, NEW s \in Acl!Mgmt,
         \A i \in 1 .. Len(l) : ~Acl!Active(l[i])
  PROVE  Acl!Admits(l, a, s)
BY MgmtMatches DEF Acl!Admits

LEMMA AppendAdmits ==
  ASSUME NEW l \in Seq(Rules), NEW r \in Rules, NEW a, NEW s \in Acl!Mgmt,
         Acl!Admits(l, a, s), ~Acl!Active(r)
  PROVE  Acl!Admits(Append(l, r), a, s)
<1>. DEFINE m == Append(l, r)
<1>1. /\ m \in Seq(Rules) /\ Len(l) \in Nat /\ Len(m) = Len(l) + 1 /\ m[Len(l) + 1] = r
      /\ \A i \in 1 .. Len(l) : m[i] = l[i]
  OBVIOUS
<1>2. ~Acl!Matches(r, a, s)
  BY MgmtMatches
<1>. HIDE DEF m
<1>3. ASSUME NEW k \in 1 .. Len(m), Acl!Matches(m[k], a, s)
      PROVE  k \in 1 .. Len(l) /\ m[k] = l[k]
  BY <1>1, <1>2, <1>3
<1>4. \A k \in 1 .. Len(l) : \A j \in 1 .. k - 1 : j \in 1 .. Len(l) /\ m[j] = l[j]
  BY <1>1
<1>. QED
  <2>1. Acl!Admits(m, a, s)
    BY <1>1, <1>3, <1>4, AdmitsToo
  <2>. QED
    BY <2>1 DEF m

\* A rule that shields nobody is replaced by one that refuses no one.
LEMMA ReplaceAdmits ==
  ASSUME NEW l \in Seq(Rules), NEW r \in Rules, NEW i \in 1 .. Len(l),
         NEW a, NEW s \in Acl!Mgmt, Acl!Admits(l, a, s),
         ~Acl!Shields(l[i]), ~Acl!Active(r)
  PROVE  Acl!Admits([l EXCEPT ![i] = r], a, s)
<1>. DEFINE m == [l EXCEPT ![i] = r]
<1>1. /\ m \in Seq(Rules) /\ Len(l) \in Nat /\ Len(m) = Len(l) /\ m[i] = r
      /\ \A k \in 1 .. Len(l) : k # i => m[k] = l[k]
  OBVIOUS
<1>2. ~Acl!Matches(r, a, s)
  BY MgmtMatches
<1>. HIDE DEF m
<1>3. \A k \in 1 .. Len(l) : Acl!Matches(l[k], a, s) /\ l[k].allow => k # i
  BY MgmtMatches DEF Acl!Shields
<1>4. \A k \in 1 .. Len(m) : Acl!Matches(m[k], a, s) => k \in 1 .. Len(l) /\ k # i /\ m[k] = l[k]
  BY <1>1, <1>2
<1>5. \A k \in 1 .. Len(l) : \A j \in 1 .. k - 1 :
        Acl!Matches(l[j], a, s) /\ l[j].allow => j \in 1 .. k - 1 /\ m[j] = l[j]
  BY <1>1, <1>3
<1>. QED
  <2>1. Acl!Admits(m, a, s)
    BY <1>1, <1>4, <1>5, AdmitsToo
  <2>. QED
    BY <2>1 DEF m

LEMMA RemoveAdmits ==
  ASSUME NEW l \in Seq(Rules), NEW i \in 1 .. Len(l), NEW a, NEW s \in Acl!Mgmt,
         Acl!Admits(l, a, s), ~Acl!Shields(l[i])
  PROVE  Acl!Admits(RemoveAt(l, i), a, s)
<1>. DEFINE m == RemoveAt(l, i)
            From(k) == IF k < i THEN k ELSE k + 1
<1>1. /\ m \in Seq(Rules) /\ Len(l) \in Nat /\ Len(m) = Len(l) - 1
      /\ \A k \in 1 .. Len(l) - 1 : m[k] = IF k < i THEN l[k] ELSE l[k + 1]
  BY Removed
<1>. HIDE DEF m
<1>2. ~(Acl!Matches(l[i], a, s) /\ l[i].allow)
  BY MgmtMatches DEF Acl!Shields
<1>3. \A k \in 1 .. Len(m) : From(k) \in 1 .. Len(l) /\ m[k] = l[From(k)]
  BY <1>1
<1>4. ASSUME NEW k \in 1 .. Len(m), NEW j \in 1 .. From(k) - 1, Acl!Matches(l[j], a, s), l[j].allow
      PROVE  \E h \in 1 .. k - 1 : m[h] = l[j]
  <2>1. j # i
    BY <1>2, <1>4
  <2>2. CASE j < i
    BY <1>1, <2>2
  <2>3. CASE ~(j < i)
    <3>1. j - 1 \in 1 .. k - 1 /\ ~(j - 1 < i) /\ j - 1 \in 1 .. Len(l) - 1
      BY <1>1, <2>1, <2>3
    <3>2. m[j - 1] = l[(j - 1) + 1] /\ (j - 1) + 1 = j
      BY <1>1, <3>1
    <3>. QED
      BY <3>1, <3>2
  <2>. QED
    BY <2>2, <2>3
<1>. HIDE DEF From
<1>5. \A k \in 1 .. Len(m) : \E n \in 1 .. Len(l) :
        /\ m[k] = l[n]
        /\ \A j \in 1 .. n - 1 : Acl!Matches(l[j], a, s) /\ l[j].allow
                                 => \E h \in 1 .. k - 1 : m[h] = l[j]
  BY <1>3, <1>4
<1>6. Acl!Admits(m, a, s)
  BY <1>1, <1>5, AdmitsToo
<1>. QED
  BY <1>6 DEF m

LEMMA MoveAdmits ==
  ASSUME NEW l \in Seq(Rules), NEW i \in 1 .. Len(l), NEW j \in 1 .. Len(l),
         NEW a, NEW s \in Acl!Mgmt, Acl!Admits(l, a, s), ~Acl!Active(l[i])
  PROVE  Acl!Admits(Acl!Moved(l, i, j), a, s)
<1>. DEFINE m == Acl!Moved(l, i, j)
            Left(k) == IF k < j THEN k ELSE k - 1
            From(k) == IF Left(k) < i THEN Left(k) ELSE Left(k) + 1
            To(n) == LET h == IF n < i THEN n ELSE n - 1 IN IF h < j THEN h ELSE h + 1
<1>1. /\ m \in Seq(Rules) /\ Len(l) \in Nat /\ Len(m) = Len(l) /\ m[j] = l[i]
      /\ \A k \in 1 .. Len(l) : k # j => m[k] = l[From(k)]
  <2>1. \A k \in 1 .. Len(l) : k # j => m[k] = IF Left(k) < i THEN l[Left(k)] ELSE l[Left(k) + 1]
    BY MovedList
  <2>. QED
    BY <2>1, MovedList
<1>. HIDE DEF m
<1>2. ~Acl!Matches(l[i], a, s)
  BY MgmtMatches
<1>3. \A k \in 1 .. Len(l) : k # j => From(k) \in 1 .. Len(l)
  BY <1>1
<1>4. \A k \in 1 .. Len(l) : \A n \in 1 .. From(k) - 1 : k # j /\ n # i =>
        To(n) \in 1 .. k - 1 /\ To(n) # j /\ From(To(n)) = n
  BY <1>1
<1>. HIDE DEF Left, From, To
<1>5. ASSUME NEW k \in 1 .. Len(m), Acl!Matches(m[k], a, s)
      PROVE  \E n \in 1 .. Len(l) :
               /\ m[k] = l[n]
               /\ \A q \in 1 .. n - 1 : Acl!Matches(l[q], a, s) /\ l[q].allow
                                        => \E h \in 1 .. k - 1 : m[h] = l[q]
  <2>1. k # j /\ k \in 1 .. Len(l)
    BY <1>1, <1>2, <1>5
  <2>2. From(k) \in 1 .. Len(l) /\ m[k] = l[From(k)]
    BY <1>1, <1>3, <2>1
  <2>3. ASSUME NEW q \in 1 .. From(k) - 1, Acl!Matches(l[q], a, s)
        PROVE  \E h \in 1 .. k - 1 : m[h] = l[q]
    <3>1. q # i
      BY <1>2, <2>3
    <3>2. To(q) \in 1 .. k - 1 /\ To(q) # j /\ From(To(q)) = q
      BY <1>4, <2>1, <3>1
    <3>3. To(q) \in 1 .. Len(l)
      BY <1>1, <2>1, <3>2
    <3>. QED
      BY <1>1, <3>2, <3>3
  <2>. QED
    BY <2>2, <2>3
<1>6. Acl!Admits(m, a, s)
  BY <1>1, <1>5, AdmitsToo
<1>. QED
  BY <1>6 DEF m

\* The same management rules in the same order admit the same.
LEMMA SameAdmits ==
  ASSUME NEW l \in Seq(Rules), NEW m \in Seq(Rules), NEW a, NEW s \in Acl!Mgmt,
         Acl!Admits(l, a, s), Acl!SameMgmt(m, l)
  PROVE  Acl!Admits(m, a, s)
<1>. DEFINE M == Acl!MgmtIn(m)
            L == Acl!MgmtIn(l)
<1>1. PICK f \in Bijection(M, L) :
        \A i \in M : m[i] = l[f[i]] /\ \A j \in M : j < i => f[j] < f[i]
  BY DEF Acl!SameMgmt, Acl!Bijection, Acl!Injection, Acl!Surjection, Acl!IsInjective,
         Bijection, Injection, Surjection, IsInjective
<1>2. f \in [M -> L] /\ \A n \in L : \E k \in M : f[k] = n
  BY DEF Bijection, Injection, Surjection
<1>3. /\ Len(l) \in Nat /\ Len(m) \in Nat /\ M \subseteq 1 .. Len(m) /\ L \subseteq 1 .. Len(l)
      /\ \A k \in 1 .. Len(m) : Acl!Affects(m[k]) => k \in M
      /\ \A k \in 1 .. Len(l) : Acl!Affects(l[k]) => k \in L
  BY DEF Acl!MgmtIn
<1>. HIDE DEF M, L
<1>4. ASSUME NEW k \in 1 .. Len(m), Acl!Matches(m[k], a, s)
      PROVE  \E n \in 1 .. Len(l) :
               /\ m[k] = l[n]
               /\ \A q \in 1 .. n - 1 : Acl!Matches(l[q], a, s) /\ l[q].allow
                                        => \E h \in 1 .. k - 1 : m[h] = l[q]
  <2>1. k \in M
    BY <1>3, <1>4, MgmtMatches DEF Acl!Active
  <2>2. f[k] \in 1 .. Len(l) /\ m[k] = l[f[k]]
    BY <1>1, <1>2, <1>3, <2>1
  <2>3. ASSUME NEW q \in 1 .. f[k] - 1, Acl!Matches(l[q], a, s)
        PROVE  \E h \in 1 .. k - 1 : m[h] = l[q]
    <3>1. q \in 1 .. Len(l)
      BY <1>3, <2>2
    <3>2. q \in L
      BY <1>3, <2>3, <3>1, MgmtMatches DEF Acl!Active
    <3>3. PICK h \in M : f[h] = q
      BY <1>2, <3>2
    <3>4. f[h] < f[k] /\ h \in 1 .. Len(m)
      BY <1>3, <2>2, <3>3
    <3>5. ~(k < h) /\ h # k
      BY <1>1, <2>1, <2>2, <3>1, <3>3, <3>4
    <3>6. h \in 1 .. k - 1
      BY <3>4, <3>5
    <3>. QED
      BY <1>1, <3>3, <3>6
  <2>. QED
    BY <2>2, <2>3
<1>. QED
  BY <1>4, AdmitsToo


(***************************************************************************)
(* Access control: types, and a list that is never longer than it may be.  *)
(***************************************************************************)
LEMMA ListsAre ==
  ASSUME MaxRules \in Nat, NEW l
  PROVE  l \in Acl!Lists <=> l \in Seq(Rules) /\ Len(l) <= MaxRules
<1>1. Acl!Lists = UNION {[1 .. n -> Rules] : n \in 0 .. MaxRules}
  BY DEF Acl!Lists, Acl!BoundedSeq, Acl!SeqOf
<1>2. ASSUME l \in Acl!Lists PROVE l \in Seq(Rules) /\ Len(l) <= MaxRules
  <2>1. PICK n \in 0 .. MaxRules : l \in [1 .. n -> Rules]
    BY <1>1, <1>2
  <2>2. l \in Seq(Rules) /\ Len(l) = n
    BY <2>1
  <2>. QED
    BY <2>2
<1>3. ASSUME l \in Seq(Rules), Len(l) <= MaxRules PROVE l \in Acl!Lists
  <2>1. Len(l) \in 0 .. MaxRules /\ l \in [1 .. Len(l) -> Rules]
    BY <1>3
  <2>. QED
    BY <1>1, <2>1
<1>. QED
  BY <1>2, <1>3

LEMMA AclAssumed ==
  /\ MaxRules \in Nat /\ AclCalls \in Nat /\ Timeout \in Nat
  /\ \A r \in Rules, on \in BOOLEAN : [r EXCEPT !.on = on] \in Rules
  /\ \A r \in Rules : r.on \in BOOLEAN /\ r.allow \in BOOLEAN
  /\ Backups \subseteq Acl!Acls
BY LiveAssumption DEF Acl!AclAssumption, Acl!Acls, Acl!Lists

LEMMA AclOf ==
  ASSUME NEW acl \in Acl!Acls
  PROVE  /\ acl.on \in BOOLEAN /\ acl.rules \in Seq(Rules) /\ Len(acl.rules) <= MaxRules
         /\ \A on \in BOOLEAN : [acl EXCEPT !.on = on] \in Acl!Acls
         /\ \A l \in Seq(Rules) : Len(l) <= MaxRules => [acl EXCEPT !.rules = l] \in Acl!Acls
<1>1. acl \in [on : BOOLEAN, rules : Acl!Lists]
  BY DEF Acl!Acls
<1>2. acl.on \in BOOLEAN /\ acl.rules \in Seq(Rules) /\ Len(acl.rules) <= MaxRules
  BY <1>1, ListsAre, AclAssumed
<1>3. \A l \in Seq(Rules) : Len(l) <= MaxRules => l \in Acl!Lists
  BY ListsAre, AclAssumed
<1>. QED
  BY <1>1, <1>2, <1>3 DEF Acl!Acls

\* What a call makes of a list of rules.
LEMMA Changed ==
  ASSUME NEW acl \in Acl!Acls, NEW i \in 1 .. Len(acl.rules)
  PROVE  /\ acl.rules[i] \in Rules
         /\ \A r \in Rules : [acl EXCEPT !.rules = [acl.rules EXCEPT ![i] = r]] \in Acl!Acls
         /\ [acl EXCEPT !.rules = RemoveAt(acl.rules, i)] \in Acl!Acls
         /\ \A j \in 1 .. Len(acl.rules) :
              [acl EXCEPT !.rules = Acl!Moved(acl.rules, i, j)] \in Acl!Acls
<1>. DEFINE l == acl.rules
<1>1. l \in Seq(Rules) /\ Len(l) \in Nat /\ Len(l) <= MaxRules /\ MaxRules \in Nat
  BY AclOf, AclAssumed
<1>2. l[i] \in Rules
  BY <1>1
<1>3. \A r \in Rules : [l EXCEPT ![i] = r] \in Seq(Rules) /\ Len([l EXCEPT ![i] = r]) = Len(l)
  BY <1>1
<1>4. RemoveAt(l, i) \in Seq(Rules) /\ Len(RemoveAt(l, i)) = Len(l) - 1
  BY <1>1, Removed
<1>5. \A j \in 1 .. Len(l) : /\ Acl!Moved(l, i, j) \in Seq(Rules)
                             /\ Len(Acl!Moved(l, i, j)) = Len(l)
  BY <1>1, MovedList
<1>. HIDE DEF l
<1>6. \A m \in Seq(Rules) : Len(m) <= MaxRules => [acl EXCEPT !.rules = m] \in Acl!Acls
  BY AclOf
<1>7. \A r \in Rules : [acl EXCEPT !.rules = [l EXCEPT ![i] = r]] \in Acl!Acls
  BY <1>1, <1>3, <1>6
<1>8. [acl EXCEPT !.rules = RemoveAt(l, i)] \in Acl!Acls
  BY <1>1, <1>4, <1>6
<1>9. \A j \in 1 .. Len(l) : [acl EXCEPT !.rules = Acl!Moved(l, i, j)] \in Acl!Acls
  BY <1>1, <1>5, <1>6
<1>. QED
  BY <1>2, <1>7, <1>8, <1>9 DEF l

\* The change a call asks for is one of a list of rules or of the switch.
LEMMA Calls ==
  ASSUME Acl!TypeOK, NEW t \in Tasks, Acl!RuleCall(t)
  PROVE  \E acl \in Acl!Acls, gates \in BOOLEAN :
           /\ Acl!Change(t, acl, gates)
           /\ ~gates => \A a \in Addresses, s \in Acl!Mgmt :
                          Acl!Allowed(confirmed, a, s) => Acl!Allowed(acl, a, s)
<1>. DEFINE l == confirmed.rules
            Keeps(acl) == \A a \in Addresses, s \in Acl!Mgmt :
                            Acl!Allowed(confirmed, a, s) => Acl!Allowed(acl, a, s)
<1>1. /\ confirmed \in Acl!Acls /\ confirmed.on \in BOOLEAN
      /\ l \in Seq(Rules) /\ Len(l) \in Nat /\ Len(l) <= MaxRules /\ MaxRules \in Nat
  BY AclOf, AclAssumed DEF Acl!TypeOK
<1>2. ASSUME NEW m
      PROVE  /\ [confirmed EXCEPT !.rules = m].on = confirmed.on
             /\ [confirmed EXCEPT !.rules = m].rules = m
  BY <1>1 DEF Acl!Acls
<1>3. ASSUME NEW on \in BOOLEAN, Acl!SetEnabled(t, on)
      PROVE  \E acl \in Acl!Acls, gates \in BOOLEAN :
               Acl!Change(t, acl, gates) /\ (~gates => Keeps(acl))
  <2>. DEFINE acl == [confirmed EXCEPT !.on = on]
              gates == on /\ \E i \in 1 .. Len(l) : Acl!Active(l[i])
  <2>1. acl \in Acl!Acls /\ gates \in BOOLEAN
    BY <1>1, AclOf
  <2>2. acl.on = on /\ acl.rules = l
    BY <1>1 DEF Acl!Acls
  <2>3. ~gates => Keeps(acl)
    BY <1>1, <2>2, NoneActive DEF Acl!Allowed
  <2>4. Acl!Change(t, acl, gates)
    BY <1>3 DEF Acl!SetEnabled, Acl!Places, Acl!Old
  <2>. QED
    BY <2>1, <2>3, <2>4
<1>4. ASSUME NEW r \in Rules, Acl!RuleAdd(t, r)
      PROVE  \E acl \in Acl!Acls, gates \in BOOLEAN :
               Acl!Change(t, acl, gates) /\ (~gates => Keeps(acl))
  <2>. DEFINE acl == [confirmed EXCEPT !.rules = Append(l, r)]
  <2>1. Append(l, r) \in Seq(Rules) /\ Len(Append(l, r)) <= MaxRules
    BY <1>1, <1>4 DEF Acl!RuleAdd
  <2>2. acl \in Acl!Acls
    BY <1>1, <2>1, AclOf
  <2>3. ~Acl!Active(r) => Keeps(acl)
    BY <1>1, <1>2, AppendAdmits DEF Acl!Allowed
  <2>4. Acl!Change(t, acl, Acl!Active(r))
    BY <1>4 DEF Acl!RuleAdd, Acl!WithRules
  <2>5. Acl!Active(r) \in BOOLEAN
    BY AclAssumed DEF Acl!Active, Acl!Affects
  <2>. QED
    BY <2>2, <2>3, <2>4, <2>5
<1>5. ASSUME NEW i \in 1 .. Len(l), NEW on \in BOOLEAN, Acl!RuleSetEnabled(t, i, on)
      PROVE  \E acl \in Acl!Acls, gates \in BOOLEAN :
               Acl!Change(t, acl, gates) /\ (~gates => Keeps(acl))
  <2>. DEFINE r == [l[i] EXCEPT !.on = on]
              m == [l EXCEPT ![i] = r]
              acl == [confirmed EXCEPT !.rules = m]
              gates == Acl!SetGates(l[i], on)
  <2>1. l[i] \in Rules /\ r \in Rules
    BY <1>1, AclAssumed
  <2>2. acl \in Acl!Acls
    BY <1>1, <2>1, Changed
  <2>3. /\ r.service = l[i].service /\ r.allow = l[i].allow /\ r.on = on
        /\ l[i].on \in BOOLEAN /\ l[i].allow \in BOOLEAN
        /\ l[i].on = on => r = l[i]
    <3>1. l[i] \in [net : SUBSET Addresses, service : Acl!Services \cup {"all"},
                    allow : BOOLEAN, on : BOOLEAN]
      BY <2>1, LiveAssumption DEF Acl!AclAssumption
    <3>. QED
      BY <3>1
  <2>4. m = [l EXCEPT ![i].on = on]
    OBVIOUS
  <2>5. Acl!Change(t, acl, gates)
    BY <1>5, <2>4 DEF Acl!RuleSetEnabled, Acl!WithRules, Acl!Old
  <2>6. ~gates => r = l[i] \/ (~Acl!Shields(l[i]) /\ ~Acl!Active(r))
    BY <2>3 DEF Acl!SetGates, Acl!Shields, Acl!Active, Acl!Affects
  <2>7. r = l[i] => m = l
    BY <1>1
  <2>. HIDE DEF r
  <2>8. ~gates => Keeps(acl)
    BY <1>1, <1>2, <2>1, <2>6, <2>7, ReplaceAdmits DEF Acl!Allowed
  <2>9. gates \in BOOLEAN
    BY <2>3 DEF Acl!SetGates, Acl!Affects
  <2>. QED
    BY <2>2, <2>5, <2>8, <2>9
<1>6. ASSUME NEW i \in 1 .. Len(l), NEW r \in Rules, Acl!RuleEdit(t, i, r)
      PROVE  \E acl \in Acl!Acls, gates \in BOOLEAN :
               Acl!Change(t, acl, gates) /\ (~gates => Keeps(acl))
  <2>. DEFINE m == [l EXCEPT ![i] = r]
              acl == [confirmed EXCEPT !.rules = m]
              gates == Acl!Shields(l[i]) \/ Acl!Active(r)
  <2>1. acl \in Acl!Acls
    BY <1>1, Changed
  <2>2. ~gates => Keeps(acl)
    BY <1>1, <1>2, ReplaceAdmits DEF Acl!Allowed
  <2>3. Acl!Change(t, acl, gates)
    BY <1>6 DEF Acl!RuleEdit, Acl!WithRules, Acl!Old, Acl!ReplaceAt
  <2>4. gates \in BOOLEAN
    BY <1>1, AclAssumed DEF Acl!Shields, Acl!Active, Acl!Affects
  <2>. QED
    BY <2>1, <2>2, <2>3, <2>4
<1>7. ASSUME NEW i \in 1 .. Len(l), NEW j \in 1 .. Len(l), Acl!RuleMove(t, i, j)
      PROVE  \E acl \in Acl!Acls, gates \in BOOLEAN :
               Acl!Change(t, acl, gates) /\ (~gates => Keeps(acl))
  <2>. DEFINE m == Acl!Moved(l, i, j)
              acl == [confirmed EXCEPT !.rules = m]
              gates == Acl!Active(l[i])
  <2>1. acl \in Acl!Acls
    BY <1>1, Changed
  <2>2. ~gates => Keeps(acl)
    BY <1>1, <1>2, MoveAdmits DEF Acl!Allowed
  <2>3. Acl!Change(t, acl, gates)
    BY <1>7 DEF Acl!RuleMove, Acl!WithRules, Acl!Old
  <2>4. gates \in BOOLEAN
    BY <1>1, AclAssumed DEF Acl!Active, Acl!Affects
  <2>. QED
    BY <2>1, <2>2, <2>3, <2>4
<1>8. ASSUME NEW i \in 1 .. Len(l), Acl!RuleDelete(t, i)
      PROVE  \E acl \in Acl!Acls, gates \in BOOLEAN :
               Acl!Change(t, acl, gates) /\ (~gates => Keeps(acl))
  <2>. DEFINE m == RemoveAt(l, i)
              acl == [confirmed EXCEPT !.rules = m]
              gates == Acl!Shields(l[i])
  <2>1. acl \in Acl!Acls
    BY <1>1, Changed
  <2>2. ~gates => Keeps(acl)
    BY <1>1, <1>2, RemoveAdmits DEF Acl!Allowed
  <2>3. Acl!RemoveAt(l, i) = RemoveAt(l, i)
    BY DEF Acl!RemoveAt, RemoveAt
  <2>4. Acl!Change(t, acl, gates)
    BY <1>8, <2>3 DEF Acl!RuleDelete, Acl!WithRules, Acl!Old
  <2>5. gates \in BOOLEAN
    BY <1>1, AclAssumed DEF Acl!Shields, Acl!Active, Acl!Affects
  <2>. QED
    BY <2>1, <2>2, <2>4, <2>5
<1>. HIDE DEF Keeps
<1>9. \E acl \in Acl!Acls, gates \in BOOLEAN :
        Acl!Change(t, acl, gates) /\ (~gates => Keeps(acl))
  BY <1>3, <1>4, <1>5, <1>6, <1>7, <1>8 DEF Acl!RuleCall, Acl!Places
<1>. QED
  BY <1>9 DEF Keeps


LEMMA AppliedDraft ==
  ASSUME Acl!TypeOK, draft \in Acl!Acls, ~Acl!DraftGates, NEW a, NEW s \in Acl!Mgmt,
         Acl!Allowed(confirmed, a, s)
  PROVE  Acl!Allowed(draft, a, s)
<1>1. /\ confirmed.rules \in Seq(Rules) /\ draft.rules \in Seq(Rules)
      /\ confirmed.on \in BOOLEAN /\ draft.on \in BOOLEAN
  BY AclOf DEF Acl!TypeOK
<1>2. CASE ~draft.on
  BY <1>2 DEF Acl!Allowed
<1>3. CASE draft.on /\ confirmed.on
  <2>1. Acl!SameMgmt(draft.rules, confirmed.rules)
    BY <1>3 DEF Acl!DraftGates
  <2>2. Acl!Admits(confirmed.rules, a, s)
    BY <1>3 DEF Acl!Allowed
  <2>. QED
    BY <1>1, <2>1, <2>2, SameAdmits DEF Acl!Allowed
<1>4. CASE draft.on /\ ~confirmed.on
  <2>1. \A i \in 1 .. Len(draft.rules) : ~Acl!Active(draft.rules[i])
    BY <1>4 DEF Acl!DraftGates, Acl!Places
  <2>. QED
    BY <1>1, <2>1, NoneActive DEF Acl!Allowed
<1>. QED
  BY <1>1, <1>2, <1>3, <1>4

\* The confirmed list closes HTTP or Telnet to nobody.
LEMMA AclOpen ==
  ASSUME Acl!TypeOK, Acl!Next, ~Acl!Deliberate, NEW a \in Addresses, NEW s \in Acl!Mgmt,
         Acl!Allowed(confirmed, a, s)
  PROVE  Acl!Allowed(confirmed', a, s)
<1>1. ASSUME NEW t \in Tasks, Acl!RuleCall(t)
      PROVE  Acl!Allowed(confirmed', a, s)
  <2>1. PICK acl \in Acl!Acls, gates \in BOOLEAN :
          /\ Acl!Change(t, acl, gates)
          /\ ~gates => \A b \in Addresses, r \in Acl!Mgmt :
                         Acl!Allowed(confirmed, b, r) => Acl!Allowed(acl, b, r)
    BY <1>1, Calls
  <2>2. confirmed' = confirmed \/ (~gates /\ confirmed' = acl)
    BY <2>1 DEF Acl!Change, Acl!Adopt
  <2>. QED
    BY <2>1, <2>2
<1>2. ASSUME NEW t \in Tasks, Acl!DraftApply(t)
      PROVE  Acl!Allowed(confirmed', a, s)
  <2>1. draft \in Acl!Acls
    BY <1>2 DEF Acl!DraftApply, Acl!TypeOK
  <2>2. confirmed' = confirmed \/ (~Acl!DraftGates /\ confirmed' = draft)
    BY <1>2 DEF Acl!DraftApply, Acl!Adopt
  <2>. QED
    BY <2>1, <2>2, AppliedDraft
<1>3. ASSUME NEW t \in Tasks, \/ Acl!DraftBegin(t) \/ Acl!DraftDiscard(t) \/ Acl!DraftChange(t)
                              \/ Acl!Save(t) \/ Acl!SaveElsewhere(t)
      PROVE  confirmed' = confirmed
  BY <1>3 DEF Acl!DraftBegin, Acl!DraftDiscard, Acl!DraftChange, Acl!Save, Acl!SaveElsewhere
<1>4. CASE Acl!TimePasses \/ Acl!Tick
  BY <1>4 DEF Acl!TimePasses, Acl!Tick
<1>. QED
  BY <1>1, <1>2, <1>3, <1>4 DEF Acl!Next, Acl!DraftCall, Acl!Deliberate

LEMMA Redrafted ==
  ASSUME draft \in Acl!Acls, NEW d \in Acl!Redrafts
  PROVE  d \in Acl!Acls
<1>. DEFINE r == draft.rules
<1>1. /\ r \in Seq(Rules) /\ Len(r) \in Nat /\ Len(r) <= MaxRules /\ MaxRules \in Nat
      /\ \A l \in Seq(Rules) : Len(l) <= MaxRules => [draft EXCEPT !.rules = l] \in Acl!Acls
  BY AclOf, AclAssumed
<1>2. ASSUME NEW on \in BOOLEAN, d = [draft EXCEPT !.on = on]
      PROVE  d \in Acl!Acls
  BY <1>2, AclOf
<1>3. ASSUME NEW x \in Rules, Len(r) < MaxRules, d = [draft EXCEPT !.rules = Append(r, x)]
      PROVE  d \in Acl!Acls
  <2>1. Append(r, x) \in Seq(Rules) /\ Len(Append(r, x)) <= MaxRules
    BY <1>1, <1>3
  <2>. QED
    BY <1>1, <1>3, <2>1
<1>4. ASSUME NEW i \in 1 .. Len(r),
             \/ \E x \in Rules : d = [draft EXCEPT !.rules = Acl!ReplaceAt(r, i, x)]
             \/ \E j \in 1 .. Len(r) : d = [draft EXCEPT !.rules = Acl!Moved(r, i, j)]
             \/ d = [draft EXCEPT !.rules = Acl!RemoveAt(r, i)]
      PROVE  d \in Acl!Acls
  <2>1. /\ \A x \in Rules : [draft EXCEPT !.rules = [r EXCEPT ![i] = x]] \in Acl!Acls
        /\ [draft EXCEPT !.rules = RemoveAt(r, i)] \in Acl!Acls
        /\ \A j \in 1 .. Len(r) : [draft EXCEPT !.rules = Acl!Moved(r, i, j)] \in Acl!Acls
    BY Changed
  <2>2. Acl!RemoveAt(r, i) = RemoveAt(r, i)
    BY DEF Acl!RemoveAt, RemoveAt
  <2>. QED
    BY <1>4, <2>1, <2>2 DEF Acl!ReplaceAt
<1>5. \/ \E on \in BOOLEAN : d = [draft EXCEPT !.on = on]
      \/ \E x \in Rules : Len(r) < MaxRules /\ d = [draft EXCEPT !.rules = Append(r, x)]
      \/ \E i \in 1 .. Len(r) :
           \/ \E x \in Rules : d = [draft EXCEPT !.rules = Acl!ReplaceAt(r, i, x)]
           \/ \E j \in 1 .. Len(r) : d = [draft EXCEPT !.rules = Acl!Moved(r, i, j)]
           \/ d = [draft EXCEPT !.rules = Acl!RemoveAt(r, i)]
  BY DEF Acl!Redrafts
<1>. QED
  BY <1>2, <1>3, <1>4, <1>5

LEMMA OffIsAList ==
  Acl!Off \in Acl!Acls
<1>1. <<>> \in Seq(Rules) /\ Len(<<>>) = 0 /\ MaxRules \in Nat
  BY AclAssumed
<1>2. Len(<<>>) <= MaxRules
  BY <1>1
<1>3. <<>> \in Acl!Lists
  BY <1>1, <1>2, ListsAre
<1>. QED
  BY <1>3 DEF Acl!Off, Acl!Acls

LEMMA AclTypes ==
  ASSUME Acl!TypeOK, Acl!Next
  PROVE  Acl!TypeOK'
<1>1. /\ confirmed \in Acl!Acls /\ staged \in Acl!Acls /\ flash \in Acl!Acls
      /\ draft \in Acl!Acls \cup {Acl!NoDraft}
      /\ pending \in BOOLEAN /\ left \in 0 .. Timeout
      /\ todo \subseteq Tasks /\ calls \in 0 .. AclCalls
      /\ AclCalls \in Nat /\ Timeout \in Nat /\ Backups \subseteq Acl!Acls
  BY AclAssumed DEF Acl!TypeOK
<1>2. Acl!Off \in Acl!Acls
  BY OffIsAList
<1>3. \A t \in Tasks : Acl!Called(t) => calls' \in 0 .. AclCalls
  BY <1>1 DEF Acl!Called
<1>4. ASSUME NEW t \in Tasks, Acl!RuleCall(t)
      PROVE  Acl!TypeOK'
  <2>1. PICK acl \in Acl!Acls, gates \in BOOLEAN : Acl!Change(t, acl, gates)
    BY <1>4, Calls
  <2>2. CASE gates
    BY <1>1, <1>3, <2>1, <2>2 DEF Acl!Change, Acl!Try, Acl!TypeOK
  <2>3. CASE ~gates
    BY <1>1, <1>3, <2>1, <2>3 DEF Acl!Change, Acl!Adopt, Acl!TypeOK
  <2>. QED
    BY <2>2, <2>3
<1>5. ASSUME NEW t \in Tasks, Acl!DraftApply(t)
      PROVE  Acl!TypeOK'
  <2>1. draft \in Acl!Acls
    BY <1>5 DEF Acl!DraftApply, Acl!TypeOK
  <2>2. CASE Acl!DraftGates
    BY <1>1, <1>3, <1>5, <2>1, <2>2 DEF Acl!DraftApply, Acl!Try, Acl!TypeOK
  <2>3. CASE ~Acl!DraftGates
    BY <1>1, <1>3, <1>5, <2>1, <2>3 DEF Acl!DraftApply, Acl!Adopt, Acl!TypeOK
  <2>. QED
    BY <2>2, <2>3
<1>6. ASSUME NEW t \in Tasks, Acl!DraftChange(t)
      PROVE  Acl!TypeOK'
  <2>1. draft' \in Acl!Acls
    BY <1>1, <1>6, Redrafted DEF Acl!DraftChange
  <2>. QED
    BY <1>1, <1>3, <1>6, <2>1 DEF Acl!DraftChange, Acl!TypeOK
<1>7. ASSUME NEW t \in Tasks, Acl!DraftBegin(t) \/ Acl!DraftDiscard(t)
      PROVE  Acl!TypeOK'
  BY <1>1, <1>3, <1>7 DEF Acl!DraftBegin, Acl!DraftDiscard, Acl!TypeOK
<1>8. ASSUME NEW t \in Tasks, Acl!Confirm(t) \/ Acl!Save(t) \/ Acl!SaveElsewhere(t)
      PROVE  Acl!TypeOK'
  BY <1>1, <1>3, <1>8 DEF Acl!Confirm, Acl!Save, Acl!SaveElsewhere, Acl!TypeOK
<1>9. ASSUME NEW t \in Tasks, NEW acl \in Backups, Acl!Restore(t, acl)
      PROVE  Acl!TypeOK'
  BY <1>1, <1>3, <1>9 DEF Acl!Restore, Acl!TypeOK
<1>10. CASE Acl!TimePasses
  <2>1. left' \in 0 .. Timeout
    BY <1>1, <1>10 DEF Acl!TimePasses
  <2>. QED
    BY <1>1, <1>10, <2>1 DEF Acl!TimePasses, Acl!TypeOK
<1>11. CASE Acl!Tick
  BY <1>1, <1>11 DEF Acl!Tick, Acl!TypeOK
<1>12. CASE Acl!Reboot
  <2>1. calls' \in 0 .. AclCalls /\ left' \in 0 .. Timeout
    BY <1>1, <1>12 DEF Acl!Reboot
  <2>. QED
    BY <1>1, <1>2, <1>12, <2>1 DEF Acl!Reboot, Acl!TypeOK
<1>. QED
  BY <1>4, <1>5, <1>6, <1>7, <1>8, <1>9, <1>10, <1>11, <1>12 DEF Acl!Next, Acl!DraftCall

LEMMA AclInit ==
  Acl!Init => Acl!TypeOK
<1>1. MaxRules \in Nat /\ AclCalls \in Nat /\ Timeout \in Nat /\ Backups \subseteq Acl!Acls
  BY AclAssumed
<1>2. 0 \in 0 .. Timeout /\ 0 \in 0 .. AclCalls
  BY <1>1
<1>. QED
  BY <1>1, <1>2, OffIsAList DEF Acl!Init, Acl!TypeOK

(***************************************************************************)
(* The update: an image that was accepted is chosen, whole and left alone. *)
(***************************************************************************)
OtaInv == /\ Ota!Busy => inProgress
          /\ state = "done" => inProgress /\ boot = Ota!Other /\ Ota!Whole(Ota!Other)

LEMMA OtaInit ==
  Ota!Init => Ota!TypeOK /\ OtaInv
<1>. SUFFICES ASSUME Ota!Init PROVE Ota!TypeOK /\ OtaInv
  OBVIOUS
<1>1. ClockMod \in Nat /\ ClockMod > 1 /\ MaxUploads \in Nat
  BY LiveAssumption DEF Ota!OtaAssumption
<1>2. 0 \in 0 .. MaxUploads /\ 0 \in 0 .. ClockMod - 1
  BY <1>1
<1>3. content \in [0 .. 1 -> {Ota!Torn} \cup 0 .. MaxUploads]
  BY <1>2 DEF Ota!Init
<1>4. Ota!TypeOK
  <2>1. running \in 0 .. 1 /\ boot \in 0 .. 1 /\ now \in 0 .. ClockMod - 1
    BY DEF Ota!Init
  <2>2. rebootAt \in 0 .. ClockMod - 1 /\ uploads \in 0 .. MaxUploads
    BY <1>2 DEF Ota!Init
  <2>3. /\ state \in {"idle", "receiving", "verifying", "done", "error"}
        /\ inProgress \in BOOLEAN
    BY DEF Ota!Init
  <2>. QED
    BY <1>3, <2>1, <2>2, <2>3 DEF Ota!TypeOK
<1>. QED
  BY <1>4 DEF Ota!Init, OtaInv, Ota!Busy

LEMMA OtaTypes ==
  ASSUME Ota!TypeOK, Ota!Next
  PROVE  Ota!TypeOK'
<1>1. /\ content \in [0 .. 1 -> {Ota!Torn} \cup 0 .. MaxUploads]
      /\ running \in 0 .. 1 /\ boot \in 0 .. 1 /\ Ota!Other \in 0 .. 1
      /\ state \in {"idle", "receiving", "verifying", "done", "error"}
      /\ inProgress \in BOOLEAN /\ rebootAt \in 0 .. ClockMod - 1 /\ now \in 0 .. ClockMod - 1
      /\ uploads \in 0 .. MaxUploads
  BY DEF Ota!TypeOK, Ota!Other
<1>2. ClockMod \in Nat /\ ClockMod > 1 /\ Delay \in Nat /\ MaxUploads \in Nat
  BY LiveAssumption DEF Ota!OtaAssumption
<1>3. /\ ClockMod > 0 /\ \A n \in Nat : n % ClockMod \in 0 .. ClockMod - 1
  BY <1>1, <1>2
<1>4. Ota!ScheduleReboot => rebootAt' \in 0 .. ClockMod - 1
  <2>1. (now + Delay) % ClockMod \in 0 .. ClockMod - 1
    BY <1>1, <1>2, <1>3
  <2>. QED
    BY <1>2, <2>1 DEF Ota!ScheduleReboot, Ota!RebootTime
<1>5. Ota!Called => uploads' \in 0 .. MaxUploads
  BY <1>1, <1>2 DEF Ota!Called
<1>6. CASE Ota!UploadStart
  BY <1>1, <1>5, <1>6 DEF Ota!UploadStart, Ota!TypeOK
<1>7. CASE Ota!Received
  <2>1. PICK c \in {uploads, Ota!Torn} : content' = [content EXCEPT ![Ota!Other] = c]
    BY <1>7 DEF Ota!Received
  <2>2. content' \in [0 .. 1 -> {Ota!Torn} \cup 0 .. MaxUploads]
    BY <1>1, <2>1
  <2>. QED
    BY <1>1, <1>7, <2>2 DEF Ota!Received, Ota!TypeOK
<1>8. CASE Ota!UploadFails
  BY <1>1, <1>8 DEF Ota!UploadFails, Ota!TypeOK
<1>9. CASE Ota!Verified
  BY <1>1, <1>4, <1>9 DEF Ota!Verified, Ota!TypeOK
<1>10. CASE Ota!Rollback
  BY <1>1, <1>4, <1>5, <1>10 DEF Ota!Rollback, Ota!TypeOK
<1>11. CASE Ota!Restart
  <2>1. running' \in 0 .. 1 /\ 0 \in 0 .. ClockMod - 1
    BY <1>1, <1>2, <1>11 DEF Ota!Restart, Ota!Started
  <2>. QED
    BY <1>1, <1>11, <2>1 DEF Ota!Restart, Ota!TypeOK
<1>12. CASE Ota!Clock
  BY <1>1, <1>3, <1>12 DEF Ota!Clock, Ota!TypeOK
<1>. QED
  BY <1>6, <1>7, <1>8, <1>9, <1>10, <1>11, <1>12
     DEF Ota!Next, Ota!RebootPoll, Ota!RestartElsewhere

LEMMA OtaStep ==
  ASSUME Ota!TypeOK, OtaInv, Ota!Next
  PROVE  /\ OtaInv'
         /\ state = "done" => /\ content'[Ota!Other] = content[Ota!Other]
                              /\ running' # running \/ state' = "idle" => running' = Ota!Other
<1>1. running \in 0 .. 1 /\ boot \in 0 .. 1 /\ inProgress \in BOOLEAN
  BY DEF Ota!TypeOK
<1>2. CASE Ota!UploadStart \/ Ota!Received \/ Ota!UploadFails \/ Ota!Verified
  BY <1>2 DEF Ota!UploadStart, Ota!Received, Ota!UploadFails, Ota!Verified, Ota!Called,
              Ota!Busy, Ota!Other, Ota!Whole, OtaInv
<1>3. CASE Ota!Rollback \/ Ota!Clock
  BY <1>3 DEF Ota!Rollback, Ota!Clock, Ota!Called, Ota!Busy, Ota!Other, Ota!Whole, OtaInv
<1>4. CASE Ota!Restart
  BY <1>1, <1>4 DEF Ota!Restart, Ota!Started, Ota!Busy, Ota!Other, Ota!Whole, OtaInv
<1>. QED
  BY <1>2, <1>3, <1>4 DEF Ota!Next, Ota!RebootPoll, Ota!RestartElsewhere

(***************************************************************************)
(* The parts together.                                                     *)
(***************************************************************************)
LiveInv == Acl!TypeOK /\ Ota!TypeOK /\ OtaInv

LEMMA LiveSteps ==
  ASSUME [LiveNext]_liveVars
  PROVE  /\ Acl!Next \/ UNCHANGED aclVars
         /\ Ota!Next \/ UNCHANGED otaVars
BY DEF LiveNext, liveVars, InPool, InAcl, InOta, InStream, InNet

LEMMA LiveInvAlways ==
  LiveSpec => []LiveInv
<1>1. LiveInit => LiveInv
  BY AclInit, OtaInit DEF LiveInit, LiveInv
<1>2. ASSUME LiveInv, [LiveNext]_liveVars
      PROVE  LiveInv'
  <2>2. Acl!TypeOK'
    <3>1. ASSUME UNCHANGED aclVars PROVE Acl!TypeOK'
      BY <1>2, <3>1 DEF aclVars, LiveInv, Acl!TypeOK
    <3>. QED
      BY <1>2, <3>1, LiveSteps, AclTypes DEF LiveInv
  <2>3. Ota!TypeOK' /\ OtaInv'
    <3>1. ASSUME UNCHANGED otaVars PROVE Ota!TypeOK' /\ OtaInv'
      BY <1>2, <3>1 DEF otaVars, LiveInv, Ota!TypeOK, OtaInv, Ota!Busy, Ota!Other, Ota!Whole
    <3>. QED
      BY <1>2, <3>1, LiveSteps, OtaTypes, OtaStep DEF LiveInv
  <2>. QED
    BY <2>2, <2>3 DEF LiveInv
<1>3. LiveSpec => LiveInit /\ [][LiveNext]_liveVars
  BY PTL DEF LiveSpec
<1>. QED
  BY <1>1, <1>2, <1>3, PTL

\* The lists of access control are lists of at most so many rules, and the
\* update's partitions, state and times are what they may be.
THEOREM TypesOfTheParts ==
  LiveSpec => [](Acl!TypeOK /\ Ota!TypeOK)
<1>1. LiveInv => Acl!TypeOK /\ Ota!TypeOK
  BY DEF LiveInv
<1>. QED
  BY <1>1, LiveInvAlways, PTL

\* Whoever can reach HTTP or Telnet by the confirmed list goes on to, whatever
\* is changed without a trial.
THEOREM ManagementStaysOpen ==
  LiveSpec => MgmtNeverCloses
<1>1. ASSUME LiveInv, [LiveNext]_liveVars
      PROVE  [~Acl!Deliberate => \A a \in Addresses, s \in Acl!Mgmt :
                Acl!Allowed(confirmed, a, s) => Acl!Allowed(confirmed', a, s)]_(Acl!vars)
  BY <1>1, LiveSteps, AclOpen DEF LiveInv, aclVars, Acl!vars
<1>2. LiveSpec => [][LiveNext]_liveVars
  BY PTL DEF LiveSpec
<1>. QED
  BY <1>1, <1>2, LiveInvAlways, PTL DEF MgmtNeverCloses, Acl!MgmtNeverCloses

\* Once the upload is answered, the next start is that of the new firmware.
THEOREM UpdatesAreStarted ==
  LiveSpec => DoneMeansStarted
<1>1. ASSUME LiveInv, [LiveNext]_liveVars
      PROVE  [state = "done" =>
                /\ content'[Ota!Other] = content[Ota!Other]
                /\ running' # running \/ state' = "idle" => running' = Ota!Other]_(Ota!vars)
  BY <1>1, LiveSteps, OtaStep DEF LiveInv, otaVars, Ota!vars
<1>2. LiveSpec => [][LiveNext]_liveVars
  BY PTL DEF LiveSpec
<1>. QED
  BY <1>1, <1>2, LiveInvAlways, PTL DEF DoneMeansStarted, Ota!DoneMeansStarted
=============================================================================
