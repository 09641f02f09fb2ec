----------------------------- MODULE TableProofs ----------------------------
(***************************************************************************)
(* Proofs about Sorting, PlayerTable, Tables and Panels: what the tables   *)
(* and the panels of the UI show, for rows and lines of any number.        *)
(***************************************************************************)
EXTENDS PlayerTable, Tables, Panels, Loops, SequenceTheorems, FiniteSetTheorems, TLAPS

-----------------------------------------------------------------------------
(* The insertion sort.                                                     *)

(* The place of an element is behind the last one that it is not less      *)
(* than.                                                                   *)
LEMMA PlaceOK ==
  ASSUME NEW S, NEW t \in Seq(S), NEW x, NEW less
  PROVE  LET p == Place(t, x, less) IN
         /\ p \in 0 .. Len(t)
         /\ p > 0 => <<x, t[p]>> \notin less
         /\ \A i \in 1 .. Len(t) : i > p => <<x, t[i]>> \in less
<1> DEFINE A == {0} \cup {i \in DOMAIN t : <<x, t[i]>> \notin less}
           Left == {Len(t) - i : i \in A}
<1>1. A \subseteq 0 .. Len(t) /\ 0 \in A /\ Len(t) \in Nat
  OBVIOUS
<1>2. Left \in SUBSET Nat /\ Left # {}
  <2>1. ASSUME NEW i \in A PROVE Len(t) - i \in Nat
    <3>1. i \in 0 .. Len(t)
      BY <1>1
    <3> QED BY <1>1, <3>1
  <2>2. Len(t) - 0 \in Left
    BY <1>1
  <2> QED BY <2>1, <2>2
<1>3. \E a \in A : \A b \in A : a >= b
  <2>1. PICK l \in Left : \A k \in Left : l <= k
    <3> HIDE DEF Left
    <3> QED BY <1>2, LeastNatural
  <2>2. PICK a \in A : l = Len(t) - a
    OBVIOUS
  <2>3. ASSUME NEW b \in A PROVE a >= b
    <3>1. Len(t) - b \in Left
      OBVIOUS
    <3>2. Len(t) - a <= Len(t) - b
      BY <2>1, <2>2, <3>1
    <3>3. a \in Nat /\ b \in Nat
      BY <1>1
    <3> QED BY <1>1, <3>2, <3>3
  <2> QED BY <2>3
<1>4. Place(t, x, less) \in A /\ \A b \in A : Place(t, x, less) >= b
  BY <1>3 DEF Place, Max
<1> QED BY <1>1, <1>4

LEMMA InsertAtOK ==
  ASSUME NEW S, NEW t \in Seq(S), NEW x \in S, NEW p \in 1 .. Len(t) + 1
  PROVE  InsertAt(t, p, x) = [i \in 1 .. Len(t) + 1 |->
                                IF i < p THEN t[i] ELSE IF i = p THEN x ELSE t[i - 1]]
<1> DEFINE a == SubSeq(t, 1, p - 1)
           b == SubSeq(t, p, Len(t))
           ax == a \o <<x>>
           r == ax \o b
           e == [i \in 1 .. Len(t) + 1 |-> IF i < p THEN t[i] ELSE IF i = p THEN x ELSE t[i - 1]]
<1>0. p \in Nat /\ Len(t) \in Nat
  OBVIOUS
<1>1. a \in Seq(S) /\ Len(a) = p - 1 /\ \A i \in 1 .. (p - 1) : a[i] = t[i]
  OBVIOUS
<1>2. b \in Seq(S) /\ Len(b) = Len(t) - p + 1 /\ \A i \in 1 .. Len(b) : b[i] = t[p + i - 1]
  OBVIOUS
<1> HIDE DEF a, b
<1>3. ax \in Seq(S) /\ Len(ax) = p /\ ax[p] = x /\ \A i \in 1 .. (p - 1) : ax[i] = t[i]
  BY <1>0, <1>1
<1> HIDE DEF ax
<1>4. r \in Seq(S) /\ Len(r) = Len(t) + 1
  BY <1>0, <1>2, <1>3
<1>5. ASSUME NEW i \in 1 .. Len(t) + 1
      PROVE  r[i] = e[i]
  <2>1. CASE i <= p
    <3>1. r[i] = ax[i]
      BY <1>0, <1>2, <1>3, <2>1
    <3> QED BY <1>0, <1>3, <2>1, <3>1
  <2>2. CASE i > p
    <3>1. i - p \in 1 .. Len(b)
      BY <1>0, <1>2, <2>2
    <3>2. r[i] = b[i - p]
      BY <1>0, <1>2, <1>3, <2>2
    <3>3. b[i - p] = t[p + (i - p) - 1] /\ p + (i - p) - 1 = i - 1
      BY <1>0, <1>2, <3>1
    <3>4. e[i] = t[i - 1]
      BY <1>0, <2>2
    <3> HIDE DEF e, r
    <3> QED BY <3>2, <3>3, <3>4
  <2> HIDE DEF e, r
  <2>3. i <= p \/ i > p
    BY <1>0
  <2> QED BY <2>1, <2>2, <2>3
<1>6. r = e
  <2>1. e = [i \in 1 .. Len(t) + 1 |-> e[i]]
    OBVIOUS
  <2> HIDE DEF r, e
  <2>2. r = [i \in 1 .. Len(t) + 1 |-> r[i]]
    BY <1>4
  <2> QED BY <2>1, <2>2, <1>5
<1> QED BY <1>6 DEF InsertAt, a, b, ax

(* A comparison of the elements of s, each with the others, that sorts:    *)
(* "less" goes one way, and "not less" is transitive.                      *)
Sortable(s, less) ==
  /\ \A i, j \in DOMAIN s : i # j /\ <<s[i], s[j]>> \in less => <<s[j], s[i]>> \notin less
  /\ \A i, j, k \in DOMAIN s :
       /\ i # j /\ j # k /\ i # k
       /\ <<s[i], s[j]>> \notin less /\ <<s[j], s[k]>> \notin less
       => <<s[i], s[k]>> \notin less

(* t is a sort of the first n elements of s: each of them is there once,   *)
(* and if the comparison sorts, none is less than one before it, and of    *)
(* two the later one is first only if it is less.                          *)
SortOf(t, s, n, less) ==
  \E f \in [1 .. n -> 1 .. n] :
    /\ \A i, j \in 1 .. n : f[i] = f[j] => i = j
    /\ \A k \in 1 .. n : \E i \in 1 .. n : f[i] = k
    /\ t = [i \in 1 .. n |-> s[f[i]]]
    /\ Sortable(s, less) => \A i, j \in 1 .. n : i < j =>
         /\ <<s[f[j]], s[f[i]]>> \notin less
         /\ f[j] < f[i] => <<s[f[i]], s[f[j]]>> \in less

(* One more element is inserted.                                           *)
LEMMA InsertSorts ==
  ASSUME NEW S, NEW s \in Seq(S), NEW less,
         NEW n \in 1 .. Len(s), NEW t, SortOf(t, s, n - 1, less)
  PROVE  SortOf(Insert(t, s[n], less), s, n, less)
<1>0. n \in Nat /\ n - 1 \in Nat /\ Len(s) \in Nat /\ 1 .. n \subseteq DOMAIN s
  OBVIOUS
<1>n. n \in Nat
  OBVIOUS
<1>1. PICK f \in [1 .. (n - 1) -> 1 .. (n - 1)] :
        /\ \A i, j \in 1 .. (n - 1) : f[i] = f[j] => i = j
        /\ \A k \in 1 .. (n - 1) : \E i \in 1 .. (n - 1) : f[i] = k
        /\ t = [i \in 1 .. (n - 1) |-> s[f[i]]]
        /\ Sortable(s, less) => \A i, j \in 1 .. (n - 1) : i < j =>
             /\ <<s[f[j]], s[f[i]]>> \notin less
             /\ f[j] < f[i] => <<s[f[i]], s[f[j]]>> \in less
  BY DEF SortOf
<1>2. ASSUME NEW i \in 1 .. (n - 1)
      PROVE  f[i] \in 1 .. (n - 1) /\ f[i] # n /\ f[i] < n /\ f[i] \in DOMAIN s /\ f[i] \in 1 .. n
  <2>1. f[i] \in 1 .. (n - 1)
    OBVIOUS
  <2>2. PICK k : k = f[i]
    OBVIOUS
  <2>3. k \in 1 .. (n - 1)
    BY <2>1, <2>2
  <2>4. k \in Nat /\ k # n /\ k < n /\ k \in 1 .. n
    BY <1>n, <2>3
  <2> QED BY <1>0, <2>2, <2>3, <2>4
<1>i. \A i, j \in 1 .. (n - 1) : f[i] = f[j] => i = j
  BY <1>1
<1>o. ASSUME Sortable(s, less), NEW i \in 1 .. (n - 1), NEW j \in 1 .. (n - 1), i < j
      PROVE  /\ <<s[f[j]], s[f[i]]>> \notin less
             /\ f[j] < f[i] => <<s[f[i]], s[f[j]]>> \in less
  BY <1>1, <1>o
<1>3. t \in Seq(S) /\ Len(t) = n - 1 /\ \A i \in 1 .. (n - 1) : t[i] = s[f[i]]
  BY <1>0, <1>1, <1>2
<1>4. PICK p : p = Place(t, s[n], less)
  OBVIOUS
<1>5. /\ p \in 0 .. (n - 1)
      /\ p > 0 => <<s[n], t[p]>> \notin less
      /\ \A i \in 1 .. (n - 1) : i > p => <<s[n], t[i]>> \in less
  BY <1>3, <1>4, PlaceOK
<1> DEFINE g == [i \in 1 .. n |-> IF i < p + 1 THEN f[i] ELSE IF i = p + 1 THEN n ELSE f[i - 1]]
<1>6. Insert(t, s[n], less) = [i \in 1 .. n |-> IF i < p + 1 THEN t[i] ELSE IF i = p + 1 THEN s[n] ELSE t[i - 1]]
  <2>1. p + 1 \in 1 .. Len(t) + 1 /\ Len(t) + 1 = n
    BY <1>0, <1>3, <1>5
  <2>2. s[n] \in S
    OBVIOUS
  <2>3. Insert(t, s[n], less) = InsertAt(t, p + 1, s[n])
    BY <1>4 DEF Insert
  <2>4. PICK x : x = s[n]
    OBVIOUS
  <2>5. PICK q : q = p + 1
    OBVIOUS
  <2>7. q \in 1 .. Len(t) + 1 /\ x \in S
    BY <2>1, <2>2, <2>4, <2>5
  <2>6. InsertAt(t, q, x) = [i \in 1 .. Len(t) + 1 |-> IF i < q THEN t[i] ELSE IF i = q THEN x ELSE t[i - 1]]
    <3>1. t \in Seq(S)
      BY <1>3
    <3>2. q \in 1 .. Len(t) + 1
      BY <2>7
    <3>3. x \in S
      BY <2>7
    <3> QED BY <3>1, <3>2, <3>3, InsertAtOK
  <2> QED BY <2>1, <2>3, <2>4, <2>5, <2>6
(* Where an element of the new sequence comes from.                        *)
<1>7. ASSUME NEW i \in 1 .. n
      PROVE  /\ i \in Nat
             /\ i <= p \/ i = p + 1 \/ i > p + 1
             /\ i <= p => i \in 1 .. (n - 1) /\ i < p + 1
             /\ i = p + 1 => ~(i < p + 1)
             /\ i > p + 1 => i - 1 \in 1 .. (n - 1) /\ i - 1 > p /\ ~(i < p + 1) /\ i # p + 1
  BY <1>0, <1>5
<1>g. ASSUME NEW i \in 1 .. n
      PROVE  /\ i <= p => g[i] = f[i]
             /\ i = p + 1 => g[i] = n
             /\ i > p + 1 => \E k \in 1 .. (n - 1) : k = i - 1 /\ k > p /\ g[i] = f[k]
  BY <1>7
<1>8. g \in [1 .. n -> 1 .. n]
  <2> SUFFICES ASSUME NEW i \in 1 .. n PROVE g[i] \in 1 .. n
    OBVIOUS
  <2> HIDE DEF g
  <2>1. CASE i <= p
    BY <1>2, <1>7, <1>g, <2>1
  <2>2. CASE i = p + 1
    BY <1>0, <1>g, <2>2
  <2>3. CASE i > p + 1
    <3>1. PICK k \in 1 .. (n - 1) : g[i] = f[k]
      BY <1>g, <2>3
    <3> QED BY <1>2, <3>1
  <2> QED BY <1>7, <2>1, <2>2, <2>3
<1>9. Insert(t, s[n], less) = [i \in 1 .. n |-> s[g[i]]]
  <2> SUFFICES ASSUME NEW i \in 1 .. n
               PROVE  (IF i < p + 1 THEN t[i] ELSE IF i = p + 1 THEN s[n] ELSE t[i - 1]) = s[g[i]]
    BY <1>6
  <2> HIDE DEF g
  <2>1. CASE i <= p
    BY <1>3, <1>7, <1>g, <2>1
  <2>2. CASE i = p + 1
    BY <1>7, <1>g, <2>2
  <2>3. CASE i > p + 1
    <3>1. PICK k \in 1 .. (n - 1) : k = i - 1 /\ g[i] = f[k]
      BY <1>g, <2>3
    <3> QED BY <1>3, <1>7, <2>3, <3>1
  <2> QED BY <1>7, <2>1, <2>2, <2>3
<1> HIDE DEF g
<1>10. ASSUME NEW i \in 1 .. n, NEW j \in 1 .. n, g[i] = g[j]
       PROVE  i = j
  <2>1. CASE i <= p
    <3>1. i \in 1 .. (n - 1) /\ g[i] = f[i] /\ f[i] # n
      BY <1>2, <1>7, <1>g, <2>1
    <3>2. CASE j <= p
      <4>1. j \in 1 .. (n - 1) /\ g[j] = f[j]
        BY <1>7, <1>g, <3>2
      <4> QED BY <1>10, <1>i, <3>1, <4>1
    <3>3. CASE j = p + 1
      BY <1>10, <1>g, <3>1, <3>3
    <3>4. CASE j > p + 1
      <4>1. PICK k \in 1 .. (n - 1) : k > p /\ g[j] = f[k]
        BY <1>g, <3>4
      <4>2. i = k
        BY <1>10, <1>i, <3>1, <4>1
      <4> QED BY <1>5, <1>7, <2>1, <4>1, <4>2
    <3> QED BY <1>7, <3>2, <3>3, <3>4
  <2>2. CASE i = p + 1
    <3>1. g[i] = n
      BY <1>g, <2>2
    <3>2. CASE j <= p
      BY <1>2, <1>7, <1>10, <1>g, <3>1, <3>2
    <3>3. CASE j > p + 1
      <4>1. PICK k \in 1 .. (n - 1) : g[j] = f[k]
        BY <1>g, <3>3
      <4> QED BY <1>2, <1>10, <3>1, <4>1
    <3> QED BY <1>7, <2>2, <3>2, <3>3
  <2>3. CASE i > p + 1
    <3>1. PICK k \in 1 .. (n - 1) : k = i - 1 /\ k > p /\ g[i] = f[k]
      BY <1>g, <2>3
    <3>2. CASE j <= p
      <4>1. j \in 1 .. (n - 1) /\ g[j] = f[j]
        BY <1>7, <1>g, <3>2
      <4>2. j = k
        BY <1>10, <1>i, <3>1, <4>1
      <4> QED BY <1>5, <1>7, <3>1, <3>2, <4>2
    <3>3. CASE j = p + 1
      BY <1>2, <1>10, <1>g, <3>1, <3>3
    <3>4. CASE j > p + 1
      <4>1. PICK l \in 1 .. (n - 1) : l = j - 1 /\ g[j] = f[l]
        BY <1>g, <3>4
      <4>2. k = l
        BY <1>10, <1>i, <3>1, <4>1
      <4>3. i \in Nat /\ j \in Nat
        OBVIOUS
      <4>4. k = i - 1 /\ l = j - 1
        BY <3>1, <4>1
      <4>5. i - 1 = j - 1
        BY <4>2, <4>4
      <4> QED BY <4>3, <4>5
    <3> QED BY <1>7, <3>2, <3>3, <3>4
  <2> QED BY <1>7, <2>1, <2>2, <2>3
<1>11. ASSUME NEW k \in 1 .. n
       PROVE  \E i \in 1 .. n : g[i] = k
  <2>1. CASE k = n
    <3>1. p + 1 \in 1 .. n
      BY <1>0, <1>5
    <3>2. g[p + 1] = n
      BY <3>1 DEF g
    <3> QED BY <2>1, <3>1, <3>2
  <2>2. CASE k # n
    <3>1. k \in 1 .. (n - 1)
      BY <1>0, <2>2
    <3>2. PICK i \in 1 .. (n - 1) : f[i] = k
      BY <1>1, <3>1
    <3>3. CASE i <= p
      <4>1. i \in 1 .. n /\ i < p + 1
        BY <1>0, <1>5, <3>3
      <4>2. g[i] = f[i]
        BY <4>1 DEF g
      <4> QED BY <3>2, <4>1, <4>2
    <3>4. CASE i > p
      <4>1. i + 1 \in 1 .. n /\ ~(i + 1 < p + 1) /\ i + 1 # p + 1 /\ (i + 1) - 1 = i
        BY <1>0, <1>5, <3>4
      <4>2. g[i + 1] = f[(i + 1) - 1]
        BY <4>1 DEF g
      <4> QED BY <3>2, <4>1, <4>2
    <3> QED BY <1>5, <3>3, <3>4
  <2> QED BY <2>1, <2>2
(* The new element is not less than any before it, and less than those     *)
(* behind.                                                                 *)
<1>12. ASSUME Sortable(s, less), NEW i \in 1 .. (n - 1), i <= p
       PROVE  <<s[n], s[f[i]]>> \notin less
  <2>1. p \in 1 .. (n - 1) /\ p > 0
    BY <1>0, <1>5, <1>12
  <2>2. <<s[n], s[f[p]]>> \notin less
    BY <1>3, <1>5, <2>1
  <2>3. CASE i = p
    BY <2>2, <2>3
  <2>4. CASE i # p
    <3>1. i < p
      BY <1>5, <1>12, <2>1, <2>4
    <3>2. <<s[f[p]], s[f[i]]>> \notin less
      BY <1>12, <1>o, <2>1, <3>1
    <3>3. f[p] # f[i]
      BY <1>1, <2>1, <2>4
    <3>4. n # f[p] /\ n # f[i] /\ n \in DOMAIN s /\ f[p] \in DOMAIN s /\ f[i] \in DOMAIN s
      BY <1>0, <1>2, <2>1
    <3> QED BY <2>2, <3>2, <3>3, <3>4, <1>12 DEF Sortable
  <2> QED BY <2>3, <2>4
<1>13. ASSUME Sortable(s, less), NEW i \in 1 .. (n - 1), i > p
       PROVE  <<s[n], s[f[i]]>> \in less /\ <<s[f[i]], s[n]>> \notin less
  <2>1. <<s[n], s[f[i]]>> \in less
    BY <1>3, <1>5, <1>13
  <2>2. n \in DOMAIN s /\ f[i] \in DOMAIN s /\ n # f[i]
    BY <1>0, <1>2
  <2> QED BY <2>1, <2>2, <1>13 DEF Sortable
<1>14. ASSUME Sortable(s, less), NEW i \in 1 .. n, NEW j \in 1 .. n, i < j
       PROVE  /\ <<s[g[j]], s[g[i]]>> \notin less
              /\ g[j] < g[i] => <<s[g[i]], s[g[j]]>> \in less
  <2>1. CASE j <= p
    <3>1. i <= p
      BY <1>5, <1>7, <1>14, <2>1
    <3>2. /\ i \in 1 .. (n - 1) /\ g[i] = f[i]
          /\ j \in 1 .. (n - 1) /\ g[j] = f[j]
      BY <1>7, <1>g, <2>1, <3>1
    <3> QED BY <1>14, <1>o, <3>2
  <2>2. CASE j = p + 1
    <3>1. i <= p
      BY <1>5, <1>7, <1>14, <2>2
    <3>2. i \in 1 .. (n - 1) /\ g[i] = f[i] /\ g[j] = n
      BY <1>7, <1>g, <2>2, <3>1
    <3>3. f[i] \in Nat /\ f[i] < n
      BY <1>2, <3>2
    <3>4. ~(g[j] < g[i])
      BY <1>0, <3>2, <3>3
    <3> QED BY <1>12, <1>14, <3>1, <3>2, <3>4
  <2>3. CASE j > p + 1
    <3>1. PICK l \in 1 .. (n - 1) : l = j - 1 /\ l > p /\ g[j] = f[l]
      BY <1>g, <2>3
    <3>2. CASE i <= p
      <4>1. i \in 1 .. (n - 1) /\ g[i] = f[i]
        BY <1>7, <1>g, <3>2
      <4>2. i < l
        BY <1>5, <1>7, <3>1, <3>2
      <4> QED BY <1>14, <1>o, <3>1, <4>1, <4>2
    <3>3. CASE i = p + 1
      <4>1. g[i] = n
        BY <1>g, <3>3
      <4> QED BY <1>13, <1>14, <3>1, <4>1
    <3>4. CASE i > p + 1
      <4>1. PICK k \in 1 .. (n - 1) : k = i - 1 /\ g[i] = f[k]
        BY <1>g, <3>4
      <4>2. k < l
        BY <1>7, <1>14, <3>1, <4>1
      <4>3. /\ <<s[f[l]], s[f[k]]>> \notin less
            /\ f[l] < f[k] => <<s[f[k]], s[f[l]]>> \in less
        BY <1>14, <1>o, <4>2
      <4>4. g[i] = f[k] /\ g[j] = f[l]
        BY <3>1, <4>1
      <4> QED BY <4>3, <4>4
    <3> QED BY <1>7, <3>2, <3>3, <3>4
  <2> QED BY <1>7, <2>1, <2>2, <2>3
<1> QED BY <1>8, <1>9, <1>10, <1>11, <1>14 DEF SortOf

LEMMA InsertType ==
  ASSUME NEW S, NEW t \in Seq(S), NEW x \in S, NEW less
  PROVE  Insert(t, x, less) \in Seq(S)
<1>1. Place(t, x, less) \in 0 .. Len(t)
  BY PlaceOK
<1>2. PICK p : p = Place(t, x, less) + 1
  OBVIOUS
<1>3. p \in 1 .. Len(t) + 1
  BY <1>1, <1>2
<1>4. Insert(t, x, less) = SubSeq(t, 1, p - 1) \o <<x>> \o SubSeq(t, p, Len(t))
  BY <1>2 DEF Insert, InsertAt
<1>5. SubSeq(t, 1, p - 1) \in Seq(S) /\ SubSeq(t, p, Len(t)) \in Seq(S) /\ <<x>> \in Seq(S)
  BY <1>3
<1>6. PICK a, b : a = SubSeq(t, 1, p - 1) /\ b = SubSeq(t, p, Len(t))
  OBVIOUS
<1>7. a \o <<x>> \o b \in Seq(S)
  BY <1>5, <1>6
<1> QED BY <1>4, <1>6, <1>7

(* The recursion of StableSort has a solution.                             *)
LEMMA StableSortStages ==
  ASSUME NEW S, NEW s \in Seq(S), NEW less
  PROVE  \E h : /\ h[0] = <<>>
                /\ \A n \in 1 .. Len(s) : h[n] = Insert(h[n - 1], s[n], less)
                /\ StableSort(s, less) = h[Len(s)]
<1> DEFINE N == Len(s)
           Step(g) == [n \in 0 .. N |-> IF n = 0 THEN <<>> ELSE Insert(g[n - 1], s[n], less)]
           F == [q \in (1 .. N) \X Seq(S) |-> Insert(q[2], s[q[1]], less)]
<1>0. N \in Nat /\ \A n \in 1 .. N : s[n] \in S
  OBVIOUS
<1>1. F \in [(1 .. N) \X Seq(S) -> Seq(S)]
  <2> SUFFICES ASSUME NEW n \in 1 .. N, NEW t \in Seq(S) PROVE Insert(t, s[n], less) \in Seq(S)
    OBVIOUS
  <2> QED BY <1>0, InsertType
<1>2. <<>> \in Seq(S)
  OBVIOUS
<1>3. \A n \in 1 .. N, t \in Seq(S) : F[<<n, t>>] = Insert(t, s[n], less)
  OBVIOUS
<1> HIDE DEF F, N
<1>4. PICK g \in [0 .. N -> Seq(S)] : g[0] = <<>> /\ \A n \in 1 .. N : g[n] = F[<<n, g[n - 1]>>]
  <2>1. PICK T, e : T = Seq(S) /\ e = <<>>
    OBVIOUS
  <2>2. N \in Nat
    BY <1>0
  <2>3. e \in T
    BY <1>2, <2>1
  <2>4. F \in [(1 .. N) \X T -> T]
    BY <1>1, <2>1
  <2>5. \E g : Runs(g, N, T, e, F)
    BY <2>2, <2>3, <2>4, Recursion
  <2> QED BY <2>1, <2>5 DEF Runs
<1>5. g = Step(g)
  <2> SUFFICES ASSUME NEW n \in 0 .. N
               PROVE  g[n] = IF n = 0 THEN <<>> ELSE Insert(g[n - 1], s[n], less)
    OBVIOUS
  <2>1. CASE n = 0
    BY <1>4, <2>1
  <2>2. CASE n # 0
    <3>1. n \in 1 .. N /\ n - 1 \in 0 .. N
      BY <1>0, <2>2
    <3>2. g[n - 1] \in Seq(S)
      BY <3>1
    <3>3. g[n] = F[<<n, g[n - 1]>>]
      BY <1>4, <3>1
    <3>4. F[<<n, g[n - 1]>>] = Insert(g[n - 1], s[n], less)
      BY <1>3, <3>1, <3>2
    <3> QED BY <2>2, <3>3, <3>4
  <2> QED BY <2>1, <2>2
<1>6. PICK h : h = CHOOSE d : d = Step(d)
  OBVIOUS
<1> HIDE DEF Step
<1>7. h = Step(h)
  BY <1>5, <1>6
<1>8. h[0] = <<>> /\ \A n \in 1 .. N : h[n] = Insert(h[n - 1], s[n], less)
  BY <1>0, <1>7 DEF Step
<1>9. StableSort(s, less) = h[N]
  BY <1>6 DEF StableSort, Step, N
<1> QED BY <1>8, <1>9 DEF N

(* Whatever the comparison, the result is a permutation of the sequence,   *)
(* and if it is an order of the elements, the result is in order, and      *)
(* stable.                                                                 *)
THEOREM StableSortSorts ==
  ASSUME NEW S, NEW s \in Seq(S), NEW less
  PROVE  SortOf(StableSort(s, less), s, Len(s), less)
<1>1. PICK h : /\ h[0] = <<>>
               /\ \A n \in 1 .. Len(s) : h[n] = Insert(h[n - 1], s[n], less)
               /\ StableSort(s, less) = h[Len(s)]
  BY StableSortStages
<1> DEFINE Bad == {n \in 0 .. Len(s) : ~SortOf(h[n], s, n, less)}
<1>0. Len(s) \in Nat
  OBVIOUS
<1> SUFFICES ASSUME Len(s) \in Bad PROVE FALSE
  BY <1>0, <1>1
<1>2. PICK n \in Bad : \A m \in Bad : n <= m
  <2>1. Bad \in SUBSET Nat /\ Bad # {}
    OBVIOUS
  <2> HIDE DEF Bad
  <2> QED BY <2>1, LeastNatural
<1>3. CASE n = 0
  <2> DEFINE f == [i \in 1 .. 0 |-> i]
  <2>1. 1 .. 0 = {}
    OBVIOUS
  <2>2. f \in [1 .. 0 -> 1 .. 0]
    OBVIOUS
  <2>3. <<>> = [i \in 1 .. 0 |-> s[f[i]]]
    BY <2>1
  <2>4. SortOf(<<>>, s, 0, less)
    BY <2>1, <2>2, <2>3 DEF SortOf
  <2> QED BY <1>1, <1>3, <2>4
<1>4. CASE n # 0
  <2>1. n \in 1 .. Len(s) /\ n - 1 \in 0 .. Len(s) /\ n \in Nat
    BY <1>0, <1>4
  <2>2. SortOf(h[n - 1], s, n - 1, less)
    <3>1. n - 1 \notin Bad
      BY <1>2, <2>1
    <3> QED BY <2>1, <3>1
  <2>3. SortOf(Insert(h[n - 1], s[n], less), s, n, less)
    BY <2>1, <2>2, InsertSorts
  <2>4. SortOf(h[n], s, n, less)
    BY <1>1, <2>1, <2>3
  <2> QED BY <2>4
<1> QED BY <1>3, <1>4

(* r has the elements of s, each as often.                                 *)
Shuffles(r, s, n) ==
  \E f \in [1 .. n -> 1 .. n] :
    /\ \A i, j \in 1 .. n : f[i] = f[j] => i = j
    /\ \A k \in 1 .. n : \E i \in 1 .. n : f[i] = k
    /\ r = [i \in 1 .. n |-> s[f[i]]]

Permutes(r, s) == Shuffles(r, s, Len(s))

(* r is in order, from the last to the first if it goes up: a table that   *)
(* is sorted upwards is reversed.                                          *)
Ordered(r, less, up) ==
  \A i, j \in DOMAIN r : i < j =>
    IF up THEN <<r[i], r[j]>> \notin less ELSE <<r[j], r[i]>> \notin less

Arrange(s, less, up) == IF up THEN Reverse(StableSort(s, less)) ELSE StableSort(s, less)

LEMMA ArrangeOK ==
  ASSUME NEW S, NEW s \in Seq(S), NEW less, NEW up \in BOOLEAN
  PROVE  LET r == Arrange(s, less, up) IN
         /\ Permutes(r, s)
         /\ Sortable(s, less) => Ordered(r, less, up)
<1>0. PICK n : n = Len(s)
  OBVIOUS
<1>n. n \in Nat
  BY <1>0
<1>1. PICK t : t = StableSort(s, less)
  OBVIOUS
<1>2. SortOf(t, s, n, less)
  BY <1>0, <1>1, StableSortSorts
<1>3. PICK f \in [1 .. n -> 1 .. n] :
        /\ \A i, j \in 1 .. n : f[i] = f[j] => i = j
        /\ \A k \in 1 .. n : \E i \in 1 .. n : f[i] = k
        /\ t = [i \in 1 .. n |-> s[f[i]]]
        /\ Sortable(s, less) => \A i, j \in 1 .. n : i < j =>
             /\ <<s[f[j]], s[f[i]]>> \notin less
             /\ f[j] < f[i] => <<s[f[i]], s[f[j]]>> \in less
  BY <1>2 DEF SortOf
<1>i. \A i, j \in 1 .. n : f[i] = f[j] => i = j
  BY <1>3
<1>4. CASE ~up
  <2>1. Arrange(s, less, up) = t
    BY <1>1, <1>4 DEF Arrange
  <2>2. Permutes(t, s)
    <3>1. Shuffles(t, s, n)
      BY <1>3 DEF Shuffles
    <3> QED BY <1>0, <3>1 DEF Permutes
  <2>3. Sortable(s, less) => Ordered(t, less, up)
    BY <1>3, <1>4 DEF Ordered
  <2> QED BY <2>1, <2>2, <2>3
<1>5. CASE up
  <2> DEFINE b == [i \in 1 .. n |-> (n - i) + 1]
             g == [i \in 1 .. n |-> f[b[i]]]
  <2>1. \A i \in 1 .. n : b[i] \in 1 .. n /\ b[i] = (n - i) + 1 /\ b[b[i]] = i
    BY <1>n
  <2>2. \A i, j \in 1 .. n : i < j => b[j] < b[i]
    BY <1>n
  <2>3. \A i, j \in 1 .. n : b[i] = b[j] => i = j
    BY <1>n
  <2> HIDE DEF b
  <2>4. /\ g \in [1 .. n -> 1 .. n]
        /\ \A i \in 1 .. n : g[i] = f[b[i]]
    BY <2>1
  <2> HIDE DEF g
  <2>5. ASSUME NEW i \in 1 .. n, NEW j \in 1 .. n, g[i] = g[j] PROVE i = j
    <3>1. f[b[i]] = f[b[j]] /\ b[i] \in 1 .. n /\ b[j] \in 1 .. n
      BY <2>1, <2>4, <2>5
    <3>2. b[i] = b[j]
      BY <1>i, <3>1
    <3> QED BY <2>3, <3>2
  <2>6. ASSUME NEW k \in 1 .. n PROVE \E i \in 1 .. n : g[i] = k
    <3>1. PICK i \in 1 .. n : f[i] = k
      BY <1>3
    <3>2. b[i] \in 1 .. n /\ g[b[i]] = k
      BY <2>1, <2>4, <3>1
    <3> QED BY <3>2
  <2>7. PICK r : r = Arrange(s, less, up)
    OBVIOUS
  <2>8. r = [i \in 1 .. n |-> s[g[i]]]
    <3>1. Len(t) = n
      BY <1>n, <1>3
    <3>2. r = [i \in 1 .. n |-> t[(n - i) + 1]]
      BY <1>1, <1>5, <2>7, <3>1 DEF Arrange, Reverse
    <3>3. ASSUME NEW i \in 1 .. n PROVE t[(n - i) + 1] = s[g[i]]
      <4>1. t[b[i]] = s[f[b[i]]]
        BY <1>3, <2>1
      <4> QED BY <2>1, <2>4, <4>1
    <3> QED BY <3>2, <3>3
  <2>9. Permutes(r, s)
    <3>1. Shuffles(r, s, n)
      BY <2>4, <2>5, <2>6, <2>8 DEF Shuffles
    <3> QED BY <1>0, <3>1 DEF Permutes
  <2>10. ASSUME Sortable(s, less) PROVE Ordered(r, less, up)
    <3> SUFFICES ASSUME NEW i \in 1 .. n, NEW j \in 1 .. n, i < j
                 PROVE  <<s[g[i]], s[g[j]]>> \notin less
      BY <1>5, <2>8 DEF Ordered
    <3>1. b[j] < b[i] /\ b[i] \in 1 .. n /\ b[j] \in 1 .. n
      BY <2>1, <2>2
    <3>2. <<s[f[b[i]]], s[f[b[j]]]>> \notin less
      BY <1>3, <2>10, <3>1
    <3> QED BY <2>4, <3>2
  <2> QED BY <2>7, <2>9, <2>10
<1> QED BY <1>4, <1>5

(* r is a sequence of members of S, and the i-th was in s at f[i].         *)
Moves(f, r, s, S) ==
  /\ f \in [DOMAIN s -> DOMAIN s]
  /\ r \in Seq(S) /\ Len(r) = Len(s) /\ DOMAIN r = DOMAIN s
  /\ \A i, j \in DOMAIN s : f[i] = f[j] => i = j
  /\ \A k \in DOMAIN s : \E i \in DOMAIN s : f[i] = k
  /\ \A i \in DOMAIN s : r[i] = s[f[i]]

LEMMA PermutesMoves ==
  ASSUME NEW S, NEW s \in Seq(S), NEW r, Permutes(r, s)
  PROVE  \E f : Moves(f, r, s, S)
<1>1. PICK n : n = Len(s)
  OBVIOUS
<1>2. n \in Nat /\ DOMAIN s = 1 .. n
  BY <1>1
<1>3. Shuffles(r, s, n)
  BY <1>1 DEF Permutes
<1>4. PICK f \in [1 .. n -> 1 .. n] :
        /\ \A i, j \in 1 .. n : f[i] = f[j] => i = j
        /\ \A k \in 1 .. n : \E i \in 1 .. n : f[i] = k
        /\ r = [i \in 1 .. n |-> s[f[i]]]
  BY <1>3 DEF Shuffles
<1>5. \A i \in 1 .. n : s[f[i]] \in S
  BY <1>2
<1>6. r \in Seq(S) /\ Len(r) = n /\ DOMAIN r = 1 .. n
  BY <1>2, <1>4, <1>5
<1> QED BY <1>1, <1>2, <1>4, <1>6 DEF Moves

-----------------------------------------------------------------------------
(* Tables: the league history.                                             *)

StintOK(t) ==
  /\ t.joined \in Nat /\ t.left \in Nat
  /\ t.left # 0 => t.joined < t.left

CareerInv ==
  /\ career \in Seq(Stints)
  /\ LatestTeamFirst

LEMMA StintsOK == \A t \in Stints : StintOK(t)
BY TablesAssumption DEF Stints, StintOK

LEMMA StintsSortable ==
  ASSUME NEW s \in Seq(Stints), OneAfterTheOther(s)
  PROVE  Sortable(s, {p \in Pairs(s) : EarlierStint(p[1], p[2])})
<1> DEFINE less == {p \in Pairs(s) : EarlierStint(p[1], p[2])}
<1>1. ASSUME NEW i \in DOMAIN s, NEW j \in DOMAIN s
      PROVE  <<s[i], s[j]>> \in less <=> s[i].joined < s[j].left
  BY DEF Pairs, ToSet, EarlierStint
<1> HIDE DEF less
<1>2. ASSUME NEW i \in DOMAIN s
      PROVE  /\ s[i].joined \in Nat /\ s[i].left \in Nat
             /\ s[i].joined < s[i].left
  BY StintsOK DEF StintOK, OneAfterTheOther
<1>3. ASSUME NEW i \in DOMAIN s, NEW j \in DOMAIN s, i # j
      PROVE  s[i].left <= s[j].joined \/ s[j].left <= s[i].joined
  BY <1>3 DEF OneAfterTheOther
<1>4. ASSUME NEW i \in DOMAIN s, NEW j \in DOMAIN s, i # j, <<s[i], s[j]>> \in less
      PROVE  <<s[j], s[i]>> \notin less
  BY <1>1, <1>2, <1>3, <1>4
<1>5. ASSUME NEW i \in DOMAIN s, NEW j \in DOMAIN s, NEW k \in DOMAIN s,
             <<s[i], s[j]>> \notin less, <<s[j], s[k]>> \notin less
      PROVE  <<s[i], s[k]>> \notin less
  BY <1>1, <1>2, <1>5
<1> QED BY <1>4, <1>5 DEF Sortable, less

LEMMA SelectPlayerKeepsCareer ==
  ASSUME CareerInv, SelectPlayer
  PROVE  CareerInv'
<1> DEFINE less == {p \in Pairs(career) : EarlierStint(p[1], p[2])}
<1>1. PICK s : s = career
  OBVIOUS
<1>2. s \in Seq(Stints)
  BY <1>1 DEF CareerInv
<1>3. PICK r : r = career'
  OBVIOUS
<1>4. r = Arrange(s, less, TRUE)
  BY <1>1, <1>3 DEF SelectPlayer, Arrange
<1>5. Permutes(r, s) /\ (Sortable(s, less) => Ordered(r, less, TRUE))
  BY <1>2, <1>4, ArrangeOK
<1>6. PICK f : Moves(f, r, s, Stints)
  BY <1>2, <1>5, PermutesMoves
<1>m. /\ f \in [DOMAIN s -> DOMAIN s] /\ r \in Seq(Stints) /\ DOMAIN r = DOMAIN s
      /\ \A k \in DOMAIN s : \E i \in DOMAIN s : f[i] = k
      /\ \A i \in DOMAIN s : r[i] = s[f[i]]
  BY <1>6 DEF Moves
<1>7. ASSUME OneAfterTheOther(r), NEW i \in DOMAIN r, NEW j \in DOMAIN r, i < j
      PROVE  r[j].joined <= r[i].joined
  <2>1. OneAfterTheOther(s)
    <3>1. ASSUME NEW k \in DOMAIN s PROVE s[k].left # 0
      <4>1. PICK a \in DOMAIN s : f[a] = k
        BY <1>m
      <4>2. r[a] = s[k] /\ a \in DOMAIN r
        BY <1>m, <4>1
      <4> QED BY <1>7, <4>2 DEF OneAfterTheOther
    <3>2. ASSUME NEW k \in DOMAIN s, NEW l \in DOMAIN s, k # l
          PROVE  s[k].left <= s[l].joined \/ s[l].left <= s[k].joined
      <4>1. PICK a \in DOMAIN s : f[a] = k
        BY <1>m
      <4>2. PICK b \in DOMAIN s : f[b] = l
        BY <1>m
      <4>3. a # b
        BY <3>2, <4>1, <4>2
      <4>4. r[a] = s[k] /\ r[b] = s[l] /\ a \in DOMAIN r /\ b \in DOMAIN r
        BY <1>m, <4>1, <4>2
      <4> QED BY <1>7, <4>3, <4>4 DEF OneAfterTheOther
    <3> QED BY <3>1, <3>2 DEF OneAfterTheOther
  <2>2. <<r[i], r[j]>> \notin less
    BY <1>1, <1>2, <1>5, <1>7, <2>1, StintsSortable DEF Ordered
  <2>3. r[i] \in ToSet(s) /\ r[j] \in ToSet(s)
    <3>1. i \in DOMAIN s /\ j \in DOMAIN s
      BY <1>m
    <3>2. f[i] \in DOMAIN s /\ f[j] \in DOMAIN s
      BY <1>m, <3>1
    <3>3. r[i] = s[f[i]] /\ r[j] = s[f[j]]
      BY <1>m, <3>1
    <3> QED BY <3>2, <3>3 DEF ToSet
  <2>4. ~EarlierStint(r[i], r[j])
    BY <1>1, <2>2, <2>3 DEF Pairs
  <2>5. StintOK(r[i]) /\ StintOK(r[j]) /\ r[j].left # 0
    BY <1>m, <1>7, StintsOK DEF OneAfterTheOther
  <2> QED BY <2>4, <2>5 DEF StintOK, EarlierStint
<1>8. career' \in Seq(Stints)
  BY <1>3, <1>m
<1>9. LatestTeamFirst'
  <2>1. OneAfterTheOther(r) => \A i, j \in DOMAIN r : i < j => r[j].joined <= r[i].joined
    BY <1>7
  <2>2. OneAfterTheOther(career)' = OneAfterTheOther(r)
    BY <1>3 DEF OneAfterTheOther
  <2> QED BY <1>3, <2>1, <2>2 DEF LatestTeamFirst
<1> QED BY <1>8, <1>9 DEF CareerInv

(* A career is a sequence of stints.                                       *)
LEMMA CareerInit == TablesInit => CareerInv
<1> SUFFICES ASSUME TablesInit PROVE CareerInv
  OBVIOUS
<1>1. <<>> \in Seq(Stints)
  OBVIOUS
<1>2. \A c \in Careers : c \in Seq(Stints)
  <2> SUFFICES ASSUME NEW n \in 0 .. MaxStints, NEW c \in [1 .. n -> Stints]
               PROVE  c \in Seq(Stints)
    BY DEF Careers
  <2>1. n \in Nat
    BY TablesAssumption
  <2> QED BY <2>1, SeqDef
<1>3. career \in Seq(Stints)
  BY <1>1, <1>2 DEF TablesInit
<1>4. ~shown
  BY DEF TablesInit
<1> QED BY <1>3, <1>4 DEF CareerInv, LatestTeamFirst

(* A player who has left all of his teams and was never in two at a time   *)
(* sees the latest team first, for any career and however often he was     *)
(* selected.                                                               *)
THEOREM LatestTeamFirstHolds == TablesSpec => []LatestTeamFirst
<1>1. CareerInv /\ [TablesNext]_tableVars => CareerInv'
  <2> SUFFICES ASSUME CareerInv, [TablesNext]_tableVars PROVE CareerInv'
    OBVIOUS
  <2>1. CASE SelectPlayer
    BY <2>1, SelectPlayerKeepsCareer
  <2>2. CASE UNCHANGED <<career, shown>>
    BY <2>2 DEF CareerInv, LatestTeamFirst, OneAfterTheOther
  <2> QED BY <2>1, <2>2 DEF TablesNext, ResolveCountry, UpdateServers, ClickServerZone, tableVars
<1>2. CareerInv => LatestTeamFirst
  BY DEF CareerInv
<1> QED BY CareerInit, <1>1, <1>2, PTL DEF TablesSpec

-----------------------------------------------------------------------------
(* Tables: the table of servers.                                           *)

Server ==
  {s \in [name : Nat, place : Countries, region : Countries \cup {NoCountry}, dumped : Nat,
          status : Nat, connects : Nat] : s.region \in {s.place, NoCountry}}

ServerInv ==
  /\ fleet \in Seq(Server)
  /\ servers.rows \in Seq(Server)
  /\ servers.asc \in BOOLEAN
  /\ ServersInOrder

LEMMA ServerBeforeIsOrder ==
  ASSUME NEW col, NEW a \in Server, NEW b \in Server, NEW c \in Server,
         a.dumped = a.status, b.dumped = b.status, c.dumped = c.status
  PROVE  /\ ServerBefore(col, a, b) => ~ServerBefore(col, b, a)
         /\ ~ServerBefore(col, a, b) /\ ~ServerBefore(col, b, c) => ~ServerBefore(col, a, c)
<1>1. \A s \in Server : s.name \in Nat /\ s.dumped \in Nat /\ s.status \in Nat /\ s.connects \in Nat
  BY DEF Server
<1>2. CASE col = "players"
  BY <1>1, <1>2 DEF ServerBefore
<1>3. CASE col = "connects"
  BY <1>1, <1>3 DEF ServerBefore
<1>4. CASE col \notin {"players", "connects"}
  BY <1>1, <1>4 DEF ServerBefore
<1> QED BY <1>2, <1>3, <1>4

(* What a reader of the column sees, unless a dump and a status differ.    *)
ReadsInOrder(r, col, up) ==
  (\A i \in DOMAIN r : r[i].dumped = r[i].status) =>
    \A i, j \in DOMAIN r : i < j =>
      ~ IF up THEN ServerBefore(col, r[i], r[j]) ELSE ServerBefore(col, r[j], r[i])

(* SortServers permutes the servers, and sorts them if the dump and the    *)
(* status of each agree.                                                   *)
LEMMA SortServersOK ==
  ASSUME NEW s \in Seq(Server), NEW col, NEW up \in BOOLEAN,
         NEW r, r = SortServers(s, col, up)
  PROVE  (\E f : Moves(f, r, s, Server)) /\ ReadsInOrder(r, col, up)
<1> DEFINE less == {p \in Pairs(s) : ServerBefore(col, p[1], p[2])}
<1>1. r = Arrange(s, less, up)
  BY DEF SortServers, Arrange
<1>2. ASSUME NEW i \in DOMAIN s, NEW j \in DOMAIN s
      PROVE  <<s[i], s[j]>> \in less <=> ServerBefore(col, s[i], s[j])
  BY DEF Pairs, ToSet
<1> HIDE DEF less
<1>3. Permutes(r, s) /\ (Sortable(s, less) => Ordered(r, less, up))
  BY <1>1, ArrangeOK
<1>4. PICK f : Moves(f, r, s, Server)
  BY <1>3, PermutesMoves
<1>m. /\ f \in [DOMAIN s -> DOMAIN s] /\ DOMAIN r = DOMAIN s
      /\ \A k \in DOMAIN s : \E i \in DOMAIN s : f[i] = k
      /\ \A i \in DOMAIN s : r[i] = s[f[i]]
  BY <1>4 DEF Moves
<1>5. ASSUME \A i \in DOMAIN r : r[i].dumped = r[i].status
      PROVE  Sortable(s, less)
  <2>1. ASSUME NEW k \in DOMAIN s PROVE s[k] \in Server /\ s[k].dumped = s[k].status
    <3>1. PICK i \in DOMAIN s : f[i] = k
      BY <1>m
    <3>2. r[i] = s[k] /\ i \in DOMAIN r
      BY <1>m, <3>1
    <3> QED BY <1>5, <3>2
  <2>2. ASSUME NEW i \in DOMAIN s, NEW j \in DOMAIN s, <<s[i], s[j]>> \in less
        PROVE  <<s[j], s[i]>> \notin less
    <3>1. ServerBefore(col, s[i], s[j])
      BY <1>2, <2>2
    <3>2. ~ServerBefore(col, s[j], s[i])
      BY <2>1, <3>1, ServerBeforeIsOrder
    <3> QED BY <1>2, <3>2
  <2>3. ASSUME NEW i \in DOMAIN s, NEW j \in DOMAIN s, NEW k \in DOMAIN s,
               <<s[i], s[j]>> \notin less, <<s[j], s[k]>> \notin less
        PROVE  <<s[i], s[k]>> \notin less
    <3>1. ~ServerBefore(col, s[i], s[j]) /\ ~ServerBefore(col, s[j], s[k])
      BY <1>2, <2>3
    <3>2. ~ServerBefore(col, s[i], s[k])
      BY <2>1, <3>1, ServerBeforeIsOrder
    <3> QED BY <1>2, <3>2
  <2> QED BY <2>2, <2>3 DEF Sortable
<1>6. ASSUME \A i \in DOMAIN r : r[i].dumped = r[i].status,
             NEW i \in DOMAIN r, NEW j \in DOMAIN r, i < j
      PROVE  ~ IF up THEN ServerBefore(col, r[i], r[j]) ELSE ServerBefore(col, r[j], r[i])
  <2>1. IF up THEN <<r[i], r[j]>> \notin less ELSE <<r[j], r[i]>> \notin less
    BY <1>3, <1>5, <1>6 DEF Ordered
  <2>2. i \in DOMAIN s /\ j \in DOMAIN s
    BY <1>m
  <2>3. f[i] \in DOMAIN s /\ f[j] \in DOMAIN s
    BY <1>m, <2>2
  <2>4. r[i] = s[f[i]] /\ r[j] = s[f[j]]
    BY <1>m, <2>2
  <2> QED BY <1>2, <2>1, <2>3, <2>4
<1> QED BY <1>4, <1>6 DEF ReadsInOrder

(* Where the rows of a table of servers come from.                         *)
FromFleet(list, all) ==
  \E f \in [DOMAIN list -> DOMAIN all] :
    /\ IsInjective(f)
    /\ \A i \in DOMAIN list : list[i] \in {all[f[i]], [all[f[i]] EXCEPT !.region = NoCountry]}

LEMMA UpdateServersKeeps ==
  ASSUME ServerInv, UpdateServers
  PROVE  ServerInv'
<1>1. PICK s : s = fleet
  OBVIOUS
<1>2. PICK r : r = SortServers(s, "name", TRUE)
  OBVIOUS
<1>3. s \in Seq(Server)
  BY <1>1 DEF ServerInv
<1>4. /\ servers' = [rows |-> r, column |-> "name", asc |-> TRUE]
      /\ fleet' = s
  BY <1>1, <1>2 DEF UpdateServers
<1>5. /\ servers'.rows = r
      /\ servers'.column = "name"
      /\ servers'.asc = TRUE
  BY <1>4
<1>6. PICK f : Moves(f, r, s, Server)
  BY <1>2, <1>3, SortServersOK
<1>7. ReadsInOrder(r, "name", TRUE)
  BY <1>2, <1>3, SortServersOK
<1>8. FromFleet(r, s)
  BY <1>6 DEF FromFleet, IsInjective, Moves
<1>9. ServersInOrder'
  BY <1>4, <1>5, <1>7, <1>8 DEF ServersInOrder, FromFleet, ReadsInOrder
<1> QED BY <1>3, <1>4, <1>5, <1>6, <1>9 DEF ServerInv, Moves

(* A click that sorts: the rows are moved, and a flag of one of the two    *)
(* countries stays in the table.                                           *)
LEMMA ClickServerZoneKeeps ==
  ASSUME ServerInv, NEW zone, ClickServerZone(zone)
  PROVE  ServerInv'
<1>1. CASE zone \notin DOMAIN MarkIDs
  BY <1>1 DEF ClickServerZone, ServerInv, ServersInOrder
<1>2. CASE zone \in DOMAIN MarkIDs
  <2>1. PICK s : s = servers.rows
    OBVIOUS
  <2>2. PICK col : col = MarkIDs[zone]
    OBVIOUS
  <2>3. PICK up \in BOOLEAN : up = ~servers.asc
    BY DEF ServerInv
  <2>4. PICK r : r = SortServers(s, col, up)
    OBVIOUS
  <2>5. s \in Seq(Server)
    BY <2>1 DEF ServerInv
  <2>6. /\ servers' = [rows |-> r, column |-> col, asc |-> up]
        /\ fleet' = fleet
    BY <1>2, <2>1, <2>2, <2>3, <2>4 DEF ClickServerZone
  <2>7. /\ servers'.rows = r
        /\ servers'.column = col
        /\ servers'.asc = up
    BY <2>6
  <2>8. PICK g : Moves(g, r, s, Server)
    BY <2>4, <2>5, SortServersOK
  <2>9. ReadsInOrder(r, col, up)
    BY <2>4, <2>5, SortServersOK
  <2>10. ASSUME col # "name"
         PROVE  \E i \in DOMAIN r : r[i].region \in {"pl", "co"}
    <3>1. zone \in {"pl", "co"}
      BY <1>2, <2>2, <2>10 DEF MarkIDs
    <3>2. PICK k \in DOMAIN s : s[k].region = zone
      BY <2>1, <3>1 DEF ClickServerZone, Zones, HeaderZones
    <3>3. PICK i \in DOMAIN s : g[i] = k
      BY <2>8, <3>2 DEF Moves
    <3>4. i \in DOMAIN r /\ r[i] = s[k]
      BY <2>8, <3>3 DEF Moves
    <3> QED BY <3>1, <3>2, <3>4
  <2>11. ASSUME r # <<>>
         PROVE  FromFleet(r, fleet)
    <3>1. s # <<>>
      BY <2>5, <2>8, <2>11 DEF Moves
    <3>2. PICK f \in [DOMAIN s -> DOMAIN fleet] :
            /\ \A a, b \in DOMAIN s : f[a] = f[b] => a = b
            /\ \A i \in DOMAIN s : s[i] \in {fleet[f[i]], [fleet[f[i]] EXCEPT !.region = NoCountry]}
      BY <2>1, <3>1 DEF ServerInv, ServersInOrder, IsInjective
    <3> DEFINE h == [i \in DOMAIN s |-> f[g[i]]]
    <3>3. \A i \in DOMAIN s : g[i] \in DOMAIN s
      BY <2>8 DEF Moves
    <3>4. h \in [DOMAIN s -> DOMAIN fleet] /\ \A i \in DOMAIN s : h[i] = f[g[i]]
      BY <3>3
    <3> HIDE DEF h
    <3>5. ASSUME NEW a \in DOMAIN s, NEW b \in DOMAIN s, h[a] = h[b] PROVE a = b
      <4>1. g[a] = g[b]
        BY <3>2, <3>3, <3>4, <3>5
      <4> QED BY <2>8, <4>1 DEF Moves
    <3>6. ASSUME NEW i \in DOMAIN s
          PROVE  r[i] \in {fleet[h[i]], [fleet[h[i]] EXCEPT !.region = NoCountry]}
      <4>1. PICK k \in DOMAIN s : k = g[i]
        BY <3>3
      <4>2. r[i] = s[k] /\ h[i] = f[k]
        BY <2>8, <3>4, <4>1 DEF Moves
      <4> QED BY <3>2, <4>2
    <3>7. DOMAIN r = DOMAIN s
      BY <2>8 DEF Moves
    <3> QED BY <3>4, <3>5, <3>6, <3>7 DEF FromFleet, IsInjective
  <2>12. ServersInOrder'
    BY <2>6, <2>7, <2>9, <2>10, <2>11 DEF ServersInOrder, FromFleet, ReadsInOrder
  <2>13. r \in Seq(Server)
    BY <2>8 DEF Moves
  <2> QED BY <2>6, <2>7, <2>12, <2>13 DEF ServerInv
<1> QED BY <1>1, <1>2

(* The country of a server is found: the rows in which it is missing are   *)
(* still those of the server.                                              *)
LEMMA ResolveCountryKeeps ==
  ASSUME ServerInv, NEW n \in DOMAIN fleet, ResolveCountry(n)
  PROVE  ServerInv'
<1>1. PICK cc \in Lookup(fleet[n].place) : fleet' = [fleet EXCEPT ![n].region = cc]
  BY DEF ResolveCountry
<1>2. fleet[n].region = NoCountry /\ servers' = servers
  BY DEF ResolveCountry
<1>3. PICK old : old = fleet[n]
  OBVIOUS
<1>4. PICK new : new = [old EXCEPT !.region = cc]
  OBVIOUS
<1>5. fleet' = [fleet EXCEPT ![n] = new]
  BY <1>1, <1>3, <1>4
<1>6. old \in Server /\ old.region = NoCountry
  BY <1>2, <1>3 DEF ServerInv
<1>7. cc \in {old.place, NoCountry}
  BY <1>1, <1>3 DEF Lookup
<1>8. new \in Server
  BY <1>4, <1>6, <1>7 DEF Server
<1>9. [new EXCEPT !.region = NoCountry] = old
  BY <1>4, <1>6 DEF Server
<1>10. fleet \in Seq(Server)
  BY DEF ServerInv
<1>11. fleet' \in Seq(Server) /\ DOMAIN fleet' = DOMAIN fleet
  BY <1>5, <1>8, <1>10
<1>12. \A k \in DOMAIN fleet : fleet'[k] = IF k = n THEN new ELSE fleet[k]
  BY <1>5, <1>10
<1>13. ASSUME servers.rows # <<>>
       PROVE  FromFleet(servers.rows, fleet')
  <2>1. PICK list : list = servers.rows
    OBVIOUS
  <2>2. PICK f \in [DOMAIN list -> DOMAIN fleet] :
          /\ IsInjective(f)
          /\ \A i \in DOMAIN list : list[i] \in {fleet[f[i]], [fleet[f[i]] EXCEPT !.region = NoCountry]}
    BY <1>13, <2>1 DEF ServerInv, ServersInOrder
  <2>3. ASSUME NEW i \in DOMAIN list
        PROVE  list[i] \in {fleet'[f[i]], [fleet'[f[i]] EXCEPT !.region = NoCountry]}
    <3>1. PICK k \in DOMAIN fleet : k = f[i]
      BY <2>2
    <3>2. list[i] \in {fleet[k], [fleet[k] EXCEPT !.region = NoCountry]}
      BY <2>2, <3>1
    <3>3. CASE k # n
      BY <1>12, <3>1, <3>2, <3>3
    <3>4. CASE k = n
      <4>1. [old EXCEPT !.region = NoCountry] = old
        BY <1>6 DEF Server
      <4>2. list[i] = old
        BY <1>3, <3>2, <3>4, <4>1
      <4>3. fleet'[k] = new
        BY <1>12, <3>4
      <4> QED BY <1>9, <3>1, <4>2, <4>3
    <3> QED BY <3>3, <3>4
  <2> QED BY <1>11, <2>1, <2>2, <2>3 DEF FromFleet
<1>14. ServersInOrder'
  BY <1>2, <1>13 DEF ServerInv, ServersInOrder, FromFleet
<1> QED BY <1>2, <1>11, <1>14 DEF ServerInv

LEMMA ServerInit == TablesInit => ServerInv
<1> SUFFICES ASSUME TablesInit PROVE ServerInv
  OBVIOUS
<1>1. fleet \in Seq(Server)
  <2>1. CASE fleet = <<>>
    BY <2>1
  <2>2. CASE fleet \in Fleets
    <3>1. ASSUME NEW i \in 1 .. FleetSize PROVE fleet[i] \in Server
      BY <2>2, TablesAssumption DEF Fleets, Server
    <3>2. fleet = [i \in 1 .. FleetSize |-> fleet[i]] /\ FleetSize \in Nat
      BY <2>2, TablesAssumption DEF Fleets
    <3> QED BY <3>1, <3>2, SeqDef
  <2> QED BY <2>1, <2>2 DEF TablesInit
<1>2. servers.rows = <<>> /\ servers.column = "name" /\ servers.asc = TRUE
  BY DEF TablesInit
<1>3. <<>> \in Seq(Server) /\ DOMAIN <<>> = {}
  OBVIOUS
<1> QED BY <1>1, <1>2, <1>3 DEF ServerInv, ServersInOrder

LEMMA ServerFlags == ServerInv => FlagsAreTrue
<1> SUFFICES ASSUME ServerInv, NEW row \in DOMAIN servers.rows
             PROVE  FlagAt(row) \in {servers.rows[row].place, "xk"}
  BY DEF FlagsAreTrue
<1>1. servers.rows[row] \in Server
  BY DEF ServerInv
<1> QED BY <1>1, TablesAssumption DEF FlagAt, Flag, Server

(* The table of servers shows the servers it was made of, in the order of  *)
(* its column and each with the flag of its own country, for any number of *)
(* servers and countries.                                                  *)
THEOREM ServerTableReadsHolds == TablesSpec => []ServerTableReads
<1>1. ServerInv /\ [TablesNext]_tableVars => ServerInv'
  <2> SUFFICES ASSUME ServerInv, [TablesNext]_tableVars PROVE ServerInv'
    OBVIOUS
  <2>1. ASSUME NEW n \in DOMAIN fleet, ResolveCountry(n) PROVE ServerInv'
    BY <2>1, ResolveCountryKeeps
  <2>2. CASE UpdateServers
    BY <2>2, UpdateServersKeeps
  <2>3. ASSUME NEW zone, ClickServerZone(zone) PROVE ServerInv'
    BY <2>3, ClickServerZoneKeeps
  <2>4. CASE UNCHANGED <<fleet, servers>>
    BY <2>4 DEF ServerInv, ServersInOrder
  <2> QED BY <2>1, <2>2, <2>3, <2>4 DEF TablesNext, SelectPlayer, tableVars
<1>2. ServerInv => ServerTableReads
  BY ServerFlags DEF ServerInv, ServerTableReads
<1> QED BY ServerInit, <1>1, <1>2, PTL DEF TablesSpec

-----------------------------------------------------------------------------
(* PlayerTable: the order of texts.                                        *)

(* s is less than t, and they differ at k first.                           *)
LessAt(s, t, k) ==
  /\ k \in 1 .. Len(t)
  /\ k <= Len(s) + 1
  /\ \A j \in 1 .. (k - 1) : s[j] = t[j]
  /\ k <= Len(s) => s[k] < t[k]

LEMMA LessTextIsLessAt ==
  ASSUME NEW s \in Seq(Nat), NEW t \in Seq(Nat)
  PROVE  LessText(s, t) <=> \E k \in Nat : LessAt(s, t, k)
<1>0. Len(s) \in Nat /\ Len(t) \in Nat
  OBVIOUS
<1>1. ASSUME IsStrictPrefix(s, t) PROVE \E k \in Nat : LessAt(s, t, k)
  <2>1. Len(s) <= Len(t) /\ SubSeq(s, 1, Len(s)) = SubSeq(t, 1, Len(s)) /\ s # t
    BY <1>1 DEF IsStrictPrefix, IsPrefix
  <2>2. \A j \in 1 .. Len(s) : s[j] = t[j]
    <3> SUFFICES ASSUME NEW j \in 1 .. Len(s) PROVE s[j] = t[j]
      OBVIOUS
    <3>1. SubSeq(s, 1, Len(s))[j] = s[j] /\ SubSeq(t, 1, Len(s))[j] = t[j]
      BY <1>0, <2>1
    <3> QED BY <2>1, <3>1
  <2>3. Len(s) # Len(t)
    <3> SUFFICES ASSUME Len(s) = Len(t) PROVE s = t
      BY <2>1
    <3> QED BY <2>2
  <2>4. PICK k \in Nat : k = Len(s) + 1
    BY <1>0
  <2>5. LessAt(s, t, k)
    BY <1>0, <2>1, <2>2, <2>3, <2>4 DEF LessAt
  <2> QED BY <2>5
<1>2. ASSUME NEW k \in DOMAIN s \cap DOMAIN t, s[k] < t[k], SubSeq(s, 1, k - 1) = SubSeq(t, 1, k - 1)
      PROVE  \E n \in Nat : LessAt(s, t, n)
  <2>1. k \in Nat /\ k \in 1 .. Len(t) /\ k <= Len(s)
    BY <1>0
  <2>2. ASSUME NEW j \in 1 .. (k - 1) PROVE s[j] = t[j]
    <3>1. PICK n \in Nat : n = k - 1
      BY <2>1
    <3>2. n <= Len(s) /\ n <= Len(t) /\ j \in 1 .. n
      BY <1>0, <2>1, <3>1
    <3>3. SubSeq(s, 1, n)[j] = s[j] /\ SubSeq(t, 1, n)[j] = t[j]
      BY <1>0, <3>2
    <3> QED BY <1>2, <3>1, <3>3
  <2>3. LessAt(s, t, k)
    BY <1>0, <1>2, <2>1, <2>2 DEF LessAt
  <2> QED BY <2>1, <2>3
<1>3. ASSUME NEW k \in Nat, LessAt(s, t, k) PROVE LessText(s, t)
  <2>1. CASE k <= Len(s)
    <3>1. k \in DOMAIN s \cap DOMAIN t /\ s[k] < t[k]
      BY <1>3, <2>1 DEF LessAt
    <3>2. SubSeq(s, 1, k - 1) = SubSeq(t, 1, k - 1)
      <4>1. k \in 1 .. Len(t) /\ k \in 1 .. Len(s) /\ \A j \in 1 .. (k - 1) : s[j] = t[j]
        BY <1>3, <3>1 DEF LessAt
      <4>2. /\ SubSeq(s, 1, k - 1) = [j \in 1 .. (k - 1) |-> s[j]]
            /\ SubSeq(t, 1, k - 1) = [j \in 1 .. (k - 1) |-> t[j]]
        BY <1>0, <4>1
      <4> QED BY <4>1, <4>2
    <3> QED BY <3>1, <3>2 DEF LessText
  <2>2. CASE ~(k <= Len(s))
    <3>1. k = Len(s) + 1 /\ Len(s) < Len(t) /\ \A j \in 1 .. Len(s) : s[j] = t[j]
      BY <1>0, <1>3, <2>2 DEF LessAt
    <3>2. /\ SubSeq(s, 1, Len(s)) = [j \in 1 .. Len(s) |-> s[j]]
          /\ SubSeq(t, 1, Len(s)) = [j \in 1 .. Len(s) |-> t[j]]
      BY <1>0, <3>1
    <3>3. SubSeq(s, 1, Len(s)) = SubSeq(t, 1, Len(s))
      BY <3>1, <3>2
    <3>4. s # t /\ Len(s) <= Len(t)
      BY <1>0, <3>1
    <3> QED BY <3>3, <3>4 DEF LessText, IsStrictPrefix, IsPrefix
  <2> QED BY <2>1, <2>2
<1> QED BY <1>1, <1>2, <1>3 DEF LessText

LEMMA LessTextOneWay ==
  ASSUME NEW s \in Seq(Nat), NEW t \in Seq(Nat), LessText(s, t)
  PROVE  ~LessText(t, s)
<1> SUFFICES ASSUME LessText(t, s) PROVE FALSE
  OBVIOUS
<1>0. Len(s) \in Nat /\ Len(t) \in Nat /\ (\A i \in 1 .. Len(s) : s[i] \in Nat) /\ (\A i \in 1 .. Len(t) : t[i] \in Nat)
  OBVIOUS
<1>1. PICK k \in Nat : LessAt(s, t, k)
  BY LessTextIsLessAt
<1>2. PICK l \in Nat : LessAt(t, s, l)
  BY LessTextIsLessAt
<1>3. CASE k < l
  <2>1. k \in 1 .. (l - 1) /\ k <= Len(s)
    BY <1>0, <1>1, <1>2, <1>3 DEF LessAt
  <2>2. s[k] < t[k] /\ t[k] = s[k] /\ s[k] \in Nat
    BY <1>0, <1>1, <1>2, <2>1 DEF LessAt
  <2> QED BY <2>2
<1>4. CASE l < k
  <2>1. l \in 1 .. (k - 1) /\ l <= Len(t)
    BY <1>0, <1>1, <1>2, <1>4 DEF LessAt
  <2>2. t[l] < s[l] /\ s[l] = t[l] /\ t[l] \in Nat
    BY <1>0, <1>1, <1>2, <2>1 DEF LessAt
  <2> QED BY <2>2
<1>5. CASE k = l
  <2>1. k \in 1 .. Len(s) /\ k \in 1 .. Len(t)
    BY <1>1, <1>2, <1>5 DEF LessAt
  <2>2. s[k] < t[k] /\ t[k] < s[k] /\ s[k] \in Nat /\ t[k] \in Nat
    BY <1>0, <1>1, <1>2, <1>5, <2>1 DEF LessAt
  <2> QED BY <2>2
<1> QED BY <1>3, <1>4, <1>5

(* A text between two of which one is less than the other.                 *)
LEMMA LessTextBetween ==
  ASSUME NEW a \in Seq(Nat), NEW b \in Seq(Nat), NEW c \in Seq(Nat), LessText(a, c)
  PROVE  LessText(a, b) \/ LessText(b, c)
<1>0. /\ Len(a) \in Nat /\ Len(b) \in Nat /\ Len(c) \in Nat
      /\ (\A i \in 1 .. Len(a) : a[i] \in Nat) /\ (\A i \in 1 .. Len(b) : b[i] \in Nat)
      /\ (\A i \in 1 .. Len(c) : c[i] \in Nat)
  OBVIOUS
<1>1. PICK k \in Nat : LessAt(a, c, k)
  BY LessTextIsLessAt
<1>2. /\ k \in 1 .. Len(c) /\ k <= Len(a) + 1
      /\ \A j \in 1 .. (k - 1) : a[j] = c[j]
      /\ k <= Len(a) => a[k] < c[k]
  BY <1>1 DEF LessAt
<1> SUFFICES \E m \in Nat : LessAt(a, b, m) \/ LessAt(b, c, m)
  BY LessTextIsLessAt
<1> DEFINE D == {m \in 1 .. (k - 1) : m > Len(b) \/ b[m] # c[m]}
<1>3. CASE D = {}
  <2>1. ASSUME NEW j \in 1 .. (k - 1) PROVE j <= Len(b) /\ b[j] = c[j]
    <3>1. ~(j > Len(b)) /\ b[j] = c[j]
      BY <1>3
    <3>2. j \in Nat
      OBVIOUS
    <3> QED BY <1>0, <3>1, <3>2
  <2>2. k - 1 <= Len(b)
    BY <1>0, <1>2, <2>1
  <2>3. \A j \in 1 .. (k - 1) : a[j] = b[j]
    BY <1>2, <2>1
  <2>4. CASE k > Len(b)
    <3>1. LessAt(b, c, k)
      BY <1>0, <1>2, <2>1, <2>2, <2>4 DEF LessAt
    <3> QED BY <3>1
  <2>5. CASE k <= Len(b) /\ k > Len(a)
    <3>1. LessAt(a, b, k)
      BY <1>0, <1>2, <2>3, <2>5 DEF LessAt
    <3> QED BY <3>1
  <2>6. CASE k <= Len(b) /\ k <= Len(a)
    <3>1. a[k] \in Nat /\ b[k] \in Nat /\ c[k] \in Nat /\ a[k] < c[k]
      BY <1>0, <1>2, <2>6
    <3>2. CASE a[k] < b[k]
      <4>1. LessAt(a, b, k)
        BY <1>0, <1>2, <2>3, <2>6, <3>2 DEF LessAt
      <4> QED BY <4>1
    <3>3. CASE ~(a[k] < b[k])
      <4>1. b[k] < c[k]
        BY <3>1, <3>3
      <4>2. k <= Len(b) + 1
        BY <1>0, <2>6
      <4>3. \A j \in 1 .. (k - 1) : b[j] = c[j]
        BY <2>1
      <4>4. LessAt(b, c, k)
        BY <1>2, <4>1, <4>2, <4>3 DEF LessAt
      <4> QED BY <4>4
    <3> QED BY <3>2, <3>3
  <2> QED BY <1>0, <2>4, <2>5, <2>6
<1>4. CASE D # {}
  <2>1. PICK m \in D : \A n \in D : m <= n
    <3>1. D \in SUBSET Nat
      OBVIOUS
    <3> HIDE DEF D
    <3> QED BY <1>4, <3>1, LeastNatural
  <2>2. m \in 1 .. (k - 1) /\ m \in Nat /\ (m > Len(b) \/ b[m] # c[m])
    OBVIOUS
  <2>3. ASSUME NEW j \in 1 .. (m - 1) PROVE j <= Len(b) /\ b[j] = c[j]
    <3>1. j \in 1 .. (k - 1) /\ ~(m <= j)
      BY <1>2, <2>2
    <3>2. j \notin D
      BY <2>1, <3>1
    <3> QED BY <1>0, <3>1, <3>2
  <2> HIDE DEF D
  <2>4. m - 1 <= Len(b) /\ m \in 1 .. Len(c) /\ m <= Len(a) /\ a[m] = c[m]
    <3>1. m - 1 <= Len(b)
      <4>1. CASE m = 1
        BY <1>0, <4>1
      <4>2. CASE m # 1
        <5>1. PICK n \in 1 .. (m - 1) : n = m - 1
          BY <2>2, <4>2
        <5> QED BY <2>3, <5>1
      <4> QED BY <4>1, <4>2
    <3>2. m \in 1 .. Len(c) /\ m <= Len(a)
      <4>1. k \in Nat /\ k <= Len(c) /\ k <= Len(a) + 1
        BY <1>2
      <4>2. m \in Nat /\ 1 <= m /\ m <= k - 1
        BY <2>2
      <4>3. Len(a) \in Nat /\ Len(c) \in Nat
        BY <1>0
      <4> QED BY <4>1, <4>2, <4>3
    <3>3. a[m] = c[m]
      BY <1>2, <2>2
    <3> QED BY <3>1, <3>2, <3>3
  <2>5. \A j \in 1 .. (m - 1) : a[j] = b[j]
    BY <1>2, <2>2, <2>3
  <2>6. CASE m > Len(b)
    <3>1. LessAt(b, c, m)
      BY <1>0, <2>2, <2>3, <2>4, <2>6 DEF LessAt
    <3> QED BY <2>2, <3>1
  <2>7. CASE m <= Len(b)
    <3>1. b[m] # c[m] /\ b[m] \in Nat /\ c[m] \in Nat
      BY <1>0, <2>2, <2>4, <2>7
    <3>2. CASE b[m] < c[m]
      <4>1. LessAt(b, c, m)
        BY <1>0, <2>2, <2>3, <2>4, <2>7, <3>2 DEF LessAt
      <4> QED BY <2>2, <4>1
    <3>3. CASE a[m] < b[m]
      <4>1. LessAt(a, b, m)
        BY <1>0, <2>2, <2>4, <2>5, <2>7, <3>3 DEF LessAt
      <4> QED BY <2>2, <4>1
    <3> QED BY <2>4, <3>1, <3>2, <3>3
  <2> QED BY <1>0, <2>2, <2>6, <2>7
<1> QED BY <1>3, <1>4

-----------------------------------------------------------------------------
(* PlayerTable: the columns.                                               *)

Digits == 0 .. MaxKey

Player ==
  [sid : TableSIDs, listed : BOOLEAN, name : Nat, persona : Nat, score : Nat, deaths : Nat,
   ping : Nat, loss : Nat, bans : Nat, vacs : Nat, comp : BOOLEAN, host : Seq(Digits),
   port : Seq(Digits)]

NumberColumns == {"name", "score", "deaths", "ping", "loss"}

Columns == NumberColumns \cup {"meta", "address"}

(* The columns that have a header are among them, and are their own marks. *)
LEMMA HeadersAreColumns ==
  /\ DOMAIN EnabledColumns = 1 .. 5 /\ Len(EnabledColumns) = 5
  /\ \A h \in 1 .. 5 : EnabledColumns[h] \in Columns
  /\ \A h \in 1 .. 5 : ColumnOf(Headers[h]) = EnabledColumns[h]
BY DEF EnabledColumns, Columns, NumberColumns, ColumnOf, Headers

LEMMA NumbersOK == \A p \in Player, c \in NumberColumns : p[c] \in Nat
BY DEF Player, NumberColumns

(* An address begins with its host and a colon.                            *)
Text(h, q) == h \o <<Colon>> \o q

LEMMA TextOK ==
  ASSUME NEW h \in Seq(Digits), NEW q \in Seq(Digits)
  PROVE  /\ Text(h, q) \in Seq(Nat)
         /\ Len(Text(h, q)) = Len(h) + 1 + Len(q)
         /\ \A i \in 1 .. Len(h) : Text(h, q)[i] = h[i]
         /\ Text(h, q)[Len(h) + 1] = Colon
<1>1. Colon \in Nat /\ h \in Seq(Nat) /\ q \in Seq(Nat)
  BY PlayerTableAssumption DEF Colon, Digits
<1>2. PICK g : g = h \o <<Colon>>
  OBVIOUS
<1>3. g \in Seq(Nat) /\ Len(g) = Len(h) + 1 /\ g[Len(h) + 1] = Colon /\ \A i \in 1 .. Len(h) : g[i] = h[i]
  BY <1>1, <1>2
<1>4. Text(h, q) = g \o q
  BY <1>2 DEF Text
<1> QED BY <1>1, <1>3, <1>4

(* Two hosts are ordered by what comes before their ports.                 *)
LEMMA HostsApart ==
  ASSUME NEW h \in Seq(Digits), NEW g \in Seq(Digits), h # g
  PROVE  \/ \A p, q \in Seq(Digits) : LessText(Text(h, p), Text(g, q))
         \/ \A p, q \in Seq(Digits) : LessText(Text(g, q), Text(h, p))
<1> DEFINE H(i) == IF i <= Len(h) THEN h[i] ELSE Colon
           G(i) == IF i <= Len(g) THEN g[i] ELSE Colon
           D == {i \in Nat : i >= 1 /\ i <= Len(h) + 1 /\ i <= Len(g) + 1 /\ H(i) # G(i)}
<1>0. /\ Len(h) \in Nat /\ Len(g) \in Nat /\ Colon \in Nat
      /\ (\A i \in 1 .. Len(h) : h[i] \in Nat /\ h[i] # Colon)
      /\ (\A i \in 1 .. Len(g) : g[i] \in Nat /\ g[i] # Colon)
  BY PlayerTableAssumption DEF Colon, Digits
<1>1. D # {}
  <2> SUFFICES ASSUME D = {} PROVE FALSE
    OBVIOUS
  <2>1. \A i \in Nat : i >= 1 /\ i <= Len(h) + 1 /\ i <= Len(g) + 1 => H(i) = G(i)
    OBVIOUS
  <2>2. CASE Len(h) < Len(g)
    <3>1. PICK n \in Nat : n = Len(h) + 1
      BY <1>0
    <3>2. n \in 1 .. Len(g) /\ n <= Len(h) + 1 /\ n <= Len(g) + 1 /\ ~(n <= Len(h)) /\ n >= 1 /\ n <= Len(g)
      BY <1>0, <2>2, <3>1
    <3>3. H(n) = Colon /\ G(n) = g[n] /\ g[n] # Colon
      BY <1>0, <3>2
    <3> HIDE DEF H, G, D
    <3> QED BY <2>1, <3>2, <3>3
  <2>3. CASE Len(g) < Len(h)
    <3>1. PICK n \in Nat : n = Len(g) + 1
      BY <1>0
    <3>2. n \in 1 .. Len(h) /\ n <= Len(h) + 1 /\ n <= Len(g) + 1 /\ ~(n <= Len(g)) /\ n >= 1 /\ n <= Len(h)
      BY <1>0, <2>3, <3>1
    <3>3. G(n) = Colon /\ H(n) = h[n] /\ h[n] # Colon
      BY <1>0, <3>2
    <3> HIDE DEF H, G, D
    <3> QED BY <2>1, <3>2, <3>3
  <2>4. CASE Len(g) = Len(h)
    <3>1. ASSUME NEW i \in 1 .. Len(h) PROVE h[i] = g[i]
      <4>1. i \in Nat /\ i >= 1 /\ i <= Len(h) /\ i <= Len(g) /\ i <= Len(h) + 1 /\ i <= Len(g) + 1
        BY <1>0, <2>4
      <4> QED BY <2>1, <4>1
    <3> QED BY <2>4, <3>1
  <2> QED BY <1>0, <2>2, <2>3, <2>4
<1>2. PICK m \in D : \A n \in D : m <= n
  <2>1. D \in SUBSET Nat
    OBVIOUS
  <2> HIDE DEF D
  <2> QED BY <1>1, <2>1, LeastNatural
<1>3. m \in Nat /\ m >= 1 /\ m <= Len(h) + 1 /\ m <= Len(g) + 1 /\ H(m) # G(m)
  OBVIOUS
<1>4. ASSUME NEW j \in 1 .. (m - 1) PROVE H(j) = G(j) /\ j <= Len(h) /\ j <= Len(g)
  <2>1. j \in Nat /\ j >= 1 /\ j <= Len(h) /\ j <= Len(g) /\ j <= Len(h) + 1 /\ j <= Len(g) + 1 /\ ~(m <= j)
    BY <1>0, <1>3
  <2>2. j \notin D
    BY <1>2, <2>1
  <2> QED BY <2>1, <2>2
<1>5. H(m) \in Nat /\ G(m) \in Nat
  BY <1>0, <1>3
(* What the texts have in common with the hosts.                           *)
<1>6. ASSUME NEW p \in Seq(Digits), NEW i \in Nat, i >= 1, i <= Len(h) + 1
      PROVE  Text(h, p)[i] = H(i) /\ i \in 1 .. Len(Text(h, p))
  <2>1. /\ Text(h, p) \in Seq(Nat)
        /\ Len(Text(h, p)) = Len(h) + 1 + Len(p)
        /\ \A k \in 1 .. Len(h) : Text(h, p)[k] = h[k]
        /\ Text(h, p)[Len(h) + 1] = Colon
    BY TextOK
  <2>2. Len(p) \in Nat
    OBVIOUS
  <2>3. CASE i <= Len(h)
    BY <1>0, <1>6, <2>1, <2>2, <2>3
  <2>4. CASE ~(i <= Len(h))
    <3>1. i = Len(h) + 1
      BY <1>0, <1>6, <2>4
    <3> QED BY <1>0, <2>1, <2>2, <2>4, <3>1
  <2> QED BY <2>3, <2>4
<1>7. ASSUME NEW q \in Seq(Digits), NEW i \in Nat, i >= 1, i <= Len(g) + 1
      PROVE  Text(g, q)[i] = G(i) /\ i \in 1 .. Len(Text(g, q))
  <2>1. /\ Text(g, q) \in Seq(Nat)
        /\ Len(Text(g, q)) = Len(g) + 1 + Len(q)
        /\ \A k \in 1 .. Len(g) : Text(g, q)[k] = g[k]
        /\ Text(g, q)[Len(g) + 1] = Colon
    BY TextOK
  <2>2. Len(q) \in Nat
    OBVIOUS
  <2>3. CASE i <= Len(g)
    BY <1>0, <1>7, <2>1, <2>2, <2>3
  <2>4. CASE ~(i <= Len(g))
    <3>1. i = Len(g) + 1
      BY <1>0, <1>7, <2>4
    <3> QED BY <1>0, <2>1, <2>2, <2>4, <3>1
  <2> QED BY <2>3, <2>4
<1> HIDE DEF H, G, D
<1>8. ASSUME NEW p \in Seq(Digits), NEW q \in Seq(Digits)
      PROVE  /\ H(m) < G(m) => LessText(Text(h, p), Text(g, q))
             /\ G(m) < H(m) => LessText(Text(g, q), Text(h, p))
  <2>1. PICK s, t : s = Text(h, p) /\ t = Text(g, q)
    OBVIOUS
  <2>2. s \in Seq(Nat) /\ t \in Seq(Nat) /\ Len(s) \in Nat /\ Len(t) \in Nat
    <3>1. Text(h, p) \in Seq(Nat) /\ Text(g, q) \in Seq(Nat)
      BY TextOK
    <3>2. s \in Seq(Nat) /\ t \in Seq(Nat)
      BY <2>1, <3>1
    <3> QED BY <3>2
  <2>3. s[m] = H(m) /\ t[m] = G(m) /\ m \in 1 .. Len(s) /\ m \in 1 .. Len(t)
    BY <1>3, <1>6, <1>7, <2>1
  <2>4. ASSUME NEW j \in 1 .. (m - 1) PROVE s[j] = t[j]
    <3>1. j \in Nat /\ j >= 1 /\ j <= Len(h) + 1 /\ j <= Len(g) + 1
      BY <1>0, <1>4
    <3>2. s[j] = H(j) /\ t[j] = G(j)
      BY <1>6, <1>7, <2>1, <3>1
    <3> QED BY <1>4, <3>2
  <2>5. H(m) < G(m) => LessAt(s, t, m)
    BY <2>2, <2>3, <2>4 DEF LessAt
  <2>6. G(m) < H(m) => LessAt(t, s, m)
    BY <2>2, <2>3, <2>4 DEF LessAt
  <2> QED BY <1>3, <2>1, <2>2, <2>5, <2>6, LessTextIsLessAt
<1>9. H(m) < G(m) \/ G(m) < H(m)
  BY <1>3, <1>5
<1> QED BY <1>8, <1>9

LEMMA AddressOK == \A p \in Player : Address(p) = Text(p.host, p.port) /\ Address(p) \in Seq(Nat)
<1> SUFFICES ASSUME NEW p \in Player
             PROVE  Address(p) = Text(p.host, p.port) /\ Address(p) \in Seq(Nat)
  OBVIOUS
<1>1. p.host \in Seq(Digits) /\ p.port \in Seq(Digits)
  BY DEF Player
<1>2. Address(p) = Text(p.host, p.port)
  BY DEF Address, Text
<1> QED BY <1>1, <1>2, TextOK

LEMMA BeforeIsOrder ==
  ASSUME NEW col \in Columns, NEW a \in Player, NEW b \in Player, NEW c \in Player
  PROVE  /\ Before(col, a, b) => ~Before(col, b, a)
         /\ ~Before(col, a, b) /\ ~Before(col, b, c) => ~Before(col, a, c)
<1>1. CASE col = "meta"
  <2>1. \A p \in Player : p.bans \in Nat /\ p.vacs \in Nat
    BY DEF Player
  <2> QED BY <1>1, <2>1 DEF Before
<1>2. CASE col = "address"
  <2>1. \A p, q \in Player : Before(col, p, q) <=> LessText(Address(p), Address(q))
    BY <1>2 DEF Before
  <2>2. Address(a) \in Seq(Nat) /\ Address(b) \in Seq(Nat) /\ Address(c) \in Seq(Nat)
    BY AddressOK
  <2>3. LessText(Address(a), Address(b)) => ~LessText(Address(b), Address(a))
    BY <2>2, LessTextOneWay
  <2>4. LessText(Address(a), Address(c)) => LessText(Address(a), Address(b)) \/ LessText(Address(b), Address(c))
    BY <2>2, LessTextBetween
  <2> QED BY <2>1, <2>3, <2>4
<1>3. CASE col \in NumberColumns
  <2>1. \A p, q \in Player : Before(col, p, q) <=> p[col] < q[col]
    BY <1>3 DEF Before, NumberColumns
  <2>2. a[col] \in Nat /\ b[col] \in Nat /\ c[col] \in Nat
    BY <1>3, NumbersOK
  <2> QED BY <2>1, <2>2
<1> QED BY <1>1, <1>2, <1>3 DEF Columns

(* The rows are in the order of the column, the last of it first if it     *)
(* goes up.                                                                *)
RowsOrdered(r, col, up) ==
  \A i, j \in DOMAIN r : i < j =>
    IF up THEN ~Before(col, r[i], r[j]) ELSE ~Before(col, r[j], r[i])

LEMMA SortOK ==
  ASSUME NEW s \in Seq(Player), NEW col \in Columns, NEW up \in BOOLEAN,
         NEW r, r = Sort(s, col, up)
  PROVE  (\E f : Moves(f, r, s, Player)) /\ RowsOrdered(r, col, up)
<1> DEFINE less == {p \in Pairs(s) : Before(col, p[1], p[2])}
<1>1. r = Arrange(s, less, up)
  BY DEF Sort, Arrange
<1>2. ASSUME NEW i \in DOMAIN s, NEW j \in DOMAIN s
      PROVE  <<s[i], s[j]>> \in less <=> Before(col, s[i], s[j])
  BY DEF Pairs, ToSet
<1> HIDE DEF less
<1>3. Permutes(r, s) /\ (Sortable(s, less) => Ordered(r, less, up))
  BY <1>1, ArrangeOK
<1>4. PICK f : Moves(f, r, s, Player)
  BY <1>3, PermutesMoves
<1>5. Sortable(s, less)
  <2>1. \A k \in DOMAIN s : s[k] \in Player
    OBVIOUS
  <2>2. ASSUME NEW i \in DOMAIN s, NEW j \in DOMAIN s, <<s[i], s[j]>> \in less
        PROVE  <<s[j], s[i]>> \notin less
    <3>1. Before(col, s[i], s[j])
      BY <1>2, <2>2
    <3>2. ~Before(col, s[j], s[i])
      BY <2>1, <3>1, BeforeIsOrder
    <3> QED BY <1>2, <3>2
  <2>3. ASSUME NEW i \in DOMAIN s, NEW j \in DOMAIN s, NEW k \in DOMAIN s,
               <<s[i], s[j]>> \notin less, <<s[j], s[k]>> \notin less
        PROVE  <<s[i], s[k]>> \notin less
    <3>1. ~Before(col, s[i], s[j]) /\ ~Before(col, s[j], s[k])
      BY <1>2, <2>3
    <3>2. ~Before(col, s[i], s[k])
      BY <2>1, <3>1, BeforeIsOrder
    <3> QED BY <1>2, <3>2
  <2> QED BY <2>2, <2>3 DEF Sortable
<1>6. ASSUME NEW i \in DOMAIN r, NEW j \in DOMAIN r, i < j
      PROVE  IF up THEN ~Before(col, r[i], r[j]) ELSE ~Before(col, r[j], r[i])
  <2>1. IF up THEN <<r[i], r[j]>> \notin less ELSE <<r[j], r[i]>> \notin less
    BY <1>3, <1>5, <1>6 DEF Ordered
  <2>2. i \in DOMAIN s /\ j \in DOMAIN s
    BY <1>4 DEF Moves
  <2>3. f[i] \in DOMAIN s /\ f[j] \in DOMAIN s
    BY <1>4, <2>2 DEF Moves
  <2>4. r[i] = s[f[i]] /\ r[j] = s[f[j]]
    BY <1>4, <2>2 DEF Moves
  <2> QED BY <1>2, <2>1, <2>3, <2>4
<1> QED BY <1>4, <1>6 DEF RowsOrdered

-----------------------------------------------------------------------------
(* PlayerTable: the players of a team.                                     *)

(* A list of players, none of them twice.                                  *)
PlayerList(s) ==
  /\ s \in Seq(Player)
  /\ \A i, j \in DOMAIN s : s[i].sid = s[j].sid => i = j

(* The loop of newTablePlayerData, after n players.                        *)
LEMMA OfTeamStages ==
  ASSUME NEW s \in Seq(Player)
  PROVE  \E h : /\ h[0] = <<>>
                /\ \A n \in 1 .. Len(s) :
                     h[n] = IF s[n].listed THEN Append(h[n - 1], s[n]) ELSE h[n - 1]
                /\ OfTeam(s) = h[Len(s)]
<1> DEFINE N == Len(s)
           Step(g) == [n \in 0 .. N |->
                         IF n = 0 THEN <<>>
                         ELSE IF s[n].listed THEN Append(g[n - 1], s[n]) ELSE g[n - 1]]
           F == [q \in (1 .. N) \X Seq(Player) |->
                   IF s[q[1]].listed THEN Append(q[2], s[q[1]]) ELSE q[2]]
<1>0. N \in Nat /\ \A n \in 1 .. N : s[n] \in Player
  OBVIOUS
<1>1. F \in [(1 .. N) \X Seq(Player) -> Seq(Player)]
  <2> SUFFICES ASSUME NEW n \in 1 .. N, NEW t \in Seq(Player)
               PROVE  (IF s[n].listed THEN Append(t, s[n]) ELSE t) \in Seq(Player)
    OBVIOUS
  <2> QED BY <1>0
<1>2. <<>> \in Seq(Player)
  OBVIOUS
<1>3. \A n \in 1 .. N, t \in Seq(Player) : F[<<n, t>>] = IF s[n].listed THEN Append(t, s[n]) ELSE t
  OBVIOUS
<1> HIDE DEF F, N
<1>4. PICK g \in [0 .. N -> Seq(Player)] : g[0] = <<>> /\ \A n \in 1 .. N : g[n] = F[<<n, g[n - 1]>>]
  <2>1. PICK T, e : T = Seq(Player) /\ e = <<>>
    OBVIOUS
  <2>2. N \in Nat
    BY <1>0
  <2>3. e \in T
    BY <1>2, <2>1
  <2>4. F \in [(1 .. N) \X T -> T]
    BY <1>1, <2>1
  <2>5. \E g : Runs(g, N, T, e, F)
    BY <2>2, <2>3, <2>4, Recursion
  <2> QED BY <2>1, <2>5 DEF Runs
<1>5. g = Step(g)
  <2> SUFFICES ASSUME NEW n \in 0 .. N
               PROVE  g[n] = IF n = 0 THEN <<>>
                             ELSE IF s[n].listed THEN Append(g[n - 1], s[n]) ELSE g[n - 1]
    OBVIOUS
  <2>1. CASE n = 0
    BY <1>4, <2>1
  <2>2. CASE n # 0
    <3>1. n \in 1 .. N /\ n - 1 \in 0 .. N
      BY <1>0, <2>2
    <3>2. g[n - 1] \in Seq(Player)
      BY <3>1
    <3>3. g[n] = F[<<n, g[n - 1]>>]
      BY <1>4, <3>1
    <3>4. F[<<n, g[n - 1]>>] = IF s[n].listed THEN Append(g[n - 1], s[n]) ELSE g[n - 1]
      BY <1>3, <3>1, <3>2
    <3> QED BY <2>2, <3>3, <3>4
  <2> QED BY <2>1, <2>2
<1>6. PICK h : h = CHOOSE d : d = Step(d)
  OBVIOUS
<1> HIDE DEF Step
<1>7. h = Step(h)
  BY <1>5, <1>6
<1>8. /\ h[0] = <<>>
      /\ \A n \in 1 .. N : h[n] = IF s[n].listed THEN Append(h[n - 1], s[n]) ELSE h[n - 1]
  <2>1. Step(h)[0] = <<>>
    BY <1>0 DEF Step
  <2>2. ASSUME NEW n \in 1 .. N
        PROVE  Step(h)[n] = IF s[n].listed THEN Append(h[n - 1], s[n]) ELSE h[n - 1]
    <3>1. n \in 0 .. N /\ n # 0
      BY <1>0
    <3> QED BY <3>1 DEF Step
  <2> QED BY <1>7, <2>1, <2>2
<1>9. OfTeam(s) = h[N]
  BY <1>6 DEF OfTeam, Step, N
<1> QED BY <1>8, <1>9 DEF N

(* t is a list of players who are among the first n of s.                  *)
ListedOf(t, s, n) ==
  /\ PlayerList(t)
  /\ \A i \in DOMAIN t : \E k \in 1 .. n : t[i] = s[k]

LEMMA OfTeamOK ==
  ASSUME NEW s, PlayerList(s)
  PROVE  PlayerList(OfTeam(s))
<1>0. s \in Seq(Player) /\ Len(s) \in Nat
  BY DEF PlayerList
<1>1. PICK h : /\ h[0] = <<>>
               /\ \A n \in 1 .. Len(s) :
                    h[n] = IF s[n].listed THEN Append(h[n - 1], s[n]) ELSE h[n - 1]
               /\ OfTeam(s) = h[Len(s)]
  BY <1>0, OfTeamStages
<1> DEFINE Bad == {n \in 0 .. Len(s) : ~ListedOf(h[n], s, n)}
<1> SUFFICES ASSUME Len(s) \in Bad PROVE FALSE
  BY <1>0, <1>1 DEF ListedOf
<1>2. PICK n \in Bad : \A m \in Bad : n <= m
  <2>1. Bad \in SUBSET Nat /\ Bad # {}
    OBVIOUS
  <2> HIDE DEF Bad
  <2> QED BY <2>1, LeastNatural
<1>3. CASE n = 0
  <2>1. <<>> \in Seq(Player) /\ DOMAIN <<>> = {}
    OBVIOUS
  <2>2. ListedOf(<<>>, s, 0)
    BY <2>1 DEF ListedOf, PlayerList
  <2> QED BY <1>1, <1>3, <2>2
<1>4. CASE n # 0
  <2>1. n \in 1 .. Len(s) /\ n - 1 \in 0 .. Len(s) /\ n \in Nat
    BY <1>0, <1>4
  <2>2. ListedOf(h[n - 1], s, n - 1)
    <3>1. n - 1 \notin Bad
      BY <1>2, <2>1
    <3> QED BY <2>1, <3>1
  <2>3. PICK t : t = h[n - 1]
    OBVIOUS
  <2>4. ListedOf(t, s, n - 1) /\ h[n] = IF s[n].listed THEN Append(t, s[n]) ELSE t
    BY <1>1, <2>1, <2>2, <2>3
  <2>5. t \in Seq(Player) /\ Len(t) \in Nat /\ s[n] \in Player
    BY <1>0, <2>1, <2>4 DEF ListedOf, PlayerList
  <2>6. ListedOf(t, s, n)
    <3>1. 1 .. (n - 1) \subseteq 1 .. n
      BY <2>1
    <3> QED BY <2>4, <3>1 DEF ListedOf
  <2>7. PICK r : r = Append(t, s[n])
    OBVIOUS
  <2>8. /\ r \in Seq(Player) /\ Len(r) = Len(t) + 1 /\ r[Len(t) + 1] = s[n]
        /\ \A i \in 1 .. Len(t) : r[i] = t[i]
    BY <2>5, <2>7
  (* The new one is none of those before him.                              *)
  <2>9. ASSUME NEW i \in 1 .. Len(t) PROVE r[i].sid # s[n].sid
    <3>1. i \in DOMAIN t /\ r[i] = t[i]
      BY <2>5, <2>8
    <3>2. PICK k \in 1 .. (n - 1) : t[i] = s[k]
      BY <2>4, <3>1 DEF ListedOf
    <3>3. k # n /\ k \in DOMAIN s /\ n \in DOMAIN s
      BY <1>0, <2>1
    <3> QED BY <3>1, <3>2, <3>3 DEF PlayerList
  <2>10. PlayerList(r)
    <3> SUFFICES ASSUME NEW i \in 1 .. Len(t) + 1, NEW j \in 1 .. Len(t) + 1, r[i].sid = r[j].sid
                 PROVE  i = j
      BY <2>8 DEF PlayerList
    <3>1. CASE i \in 1 .. Len(t) /\ j \in 1 .. Len(t)
      <4>1. t[i].sid = t[j].sid /\ i \in DOMAIN t /\ j \in DOMAIN t
        BY <2>5, <2>8, <3>1
      <4> QED BY <2>4, <4>1 DEF ListedOf, PlayerList
    <3>2. CASE i = Len(t) + 1 /\ j \in 1 .. Len(t)
      BY <2>8, <2>9, <3>2
    <3>3. CASE j = Len(t) + 1 /\ i \in 1 .. Len(t)
      BY <2>8, <2>9, <3>3
    <3> QED BY <2>5, <3>1, <3>2, <3>3
  <2>11. ASSUME NEW i \in DOMAIN r PROVE \E k \in 1 .. n : r[i] = s[k]
    <3>1. CASE i \in 1 .. Len(t)
      <4>1. i \in DOMAIN t /\ r[i] = t[i]
        BY <2>5, <2>8, <3>1
      <4> QED BY <2>6, <4>1 DEF ListedOf
    <3>2. CASE i = Len(t) + 1
      BY <2>1, <2>8, <3>2
    <3> QED BY <2>5, <2>8, <3>1, <3>2
  <2>12. ListedOf(h[n], s, n)
    <3>1. ListedOf(r, s, n)
      BY <2>10, <2>11 DEF ListedOf
    <3> QED BY <2>4, <2>6, <2>7, <3>1
  <2> QED BY <2>12
<1> QED BY <1>3, <1>4

-----------------------------------------------------------------------------
(* PlayerTable: the rows, whatever is clicked.                             *)

PlayerInv ==
  /\ PlayerList(roster)
  /\ PlayerList(rows)
  /\ ToSet(rows) = ToSet(OfTeam(roster)) /\ Len(rows) = Len(OfTeam(roster))
  /\ serverMode \in BOOLEAN /\ asc \in BOOLEAN
  /\ clicked \in 0 .. 5
  /\ clicked # 0 => sortColumn = EnabledColumns[clicked]
  /\ sortColumn \in Columns
  /\ RowsOrdered(rows, sortColumn, asc)

(* What moving the rows keeps.                                             *)
LEMMA MovesKeep ==
  ASSUME NEW f, NEW r, NEW s, Moves(f, r, s, Player), PlayerList(s)
  PROVE  PlayerList(r) /\ ToSet(r) = ToSet(s) /\ Len(r) = Len(s)
<1>1. /\ f \in [DOMAIN s -> DOMAIN s]
      /\ r \in Seq(Player) /\ Len(r) = Len(s) /\ DOMAIN r = DOMAIN s
      /\ \A i, j \in DOMAIN s : f[i] = f[j] => i = j
      /\ \A k \in DOMAIN s : \E i \in DOMAIN s : f[i] = k
      /\ \A i \in DOMAIN s : r[i] = s[f[i]]
  BY DEF Moves
<1>2. ASSUME NEW i \in DOMAIN r, NEW j \in DOMAIN r, r[i].sid = r[j].sid PROVE i = j
  <2>1. PICK k \in DOMAIN s : k = f[i]
    BY <1>1
  <2>2. PICK l \in DOMAIN s : l = f[j]
    BY <1>1
  <2>3. s[k].sid = s[l].sid
    BY <1>1, <1>2, <2>1, <2>2
  <2>4. k = l
    BY <2>3 DEF PlayerList
  <2> QED BY <1>1, <2>1, <2>2, <2>4
<1>3. ASSUME NEW x \in ToSet(r) PROVE x \in ToSet(s)
  <2>1. PICK i \in DOMAIN r : x = r[i]
    BY DEF ToSet
  <2>2. PICK k \in DOMAIN s : k = f[i]
    BY <1>1
  <2>3. x = s[k]
    BY <1>1, <2>1, <2>2
  <2> QED BY <2>3 DEF ToSet
<1>4. ASSUME NEW x \in ToSet(s) PROVE x \in ToSet(r)
  <2>1. PICK k \in DOMAIN s : x = s[k]
    BY DEF ToSet
  <2>2. PICK i \in DOMAIN s : f[i] = k
    BY <1>1
  <2>3. x = r[i] /\ i \in DOMAIN r
    BY <1>1, <2>1, <2>2
  <2> QED BY <2>3 DEF ToSet
<1> QED BY <1>1, <1>2, <1>3, <1>4 DEF PlayerList

LEMMA UpdatePlayersKeeps ==
  ASSUME PlayerInv, NEW players, PlayerList(players), UpdatePlayers(players)
  PROVE  PlayerInv'
<1>1. PICK s : s = OfTeam(players)
  OBVIOUS
<1>2. PICK r : r = Sort(s, "score", TRUE)
  OBVIOUS
<1>3. PlayerList(s)
  BY <1>1, OfTeamOK
<1>4. "score" \in Columns
  BY DEF Columns, NumberColumns
<1>5. PICK f : Moves(f, r, s, Player)
  BY <1>2, <1>3, <1>4, SortOK DEF PlayerList
<1>6. RowsOrdered(r, "score", TRUE)
  BY <1>2, <1>3, <1>4, SortOK DEF PlayerList
<1>7. PlayerList(r) /\ ToSet(r) = ToSet(s) /\ Len(r) = Len(s)
  BY <1>3, <1>5, MovesKeep
<1>8. /\ rows' = r /\ sortColumn' = "score" /\ asc' = TRUE /\ clicked' = 0
      /\ roster' = players /\ serverMode' = serverMode
  BY <1>1, <1>2 DEF UpdatePlayers
<1>9. PlayerList(roster)' /\ serverMode' \in BOOLEAN /\ asc' \in BOOLEAN
  BY <1>8 DEF PlayerInv
<1>10. PlayerList(rows)' /\ RowsOrdered(rows, sortColumn, asc)'
  BY <1>6, <1>7, <1>8
<1>11. ToSet(rows') = ToSet(OfTeam(roster')) /\ Len(rows') = Len(OfTeam(roster'))
  BY <1>1, <1>7, <1>8
<1>12. clicked' \in 0 .. 5 /\ clicked' = 0 /\ sortColumn' \in Columns
  BY <1>4, <1>8
<1> QED BY <1>9, <1>10, <1>11, <1>12 DEF PlayerInv

LEMMA ClickHeaderKeeps ==
  ASSUME PlayerInv, NEW h \in DOMAIN EnabledColumns, ClickHeader(h)
  PROVE  PlayerInv'
<1>1. PICK s : s = rows
  OBVIOUS
<1>2. PICK col : col = EnabledColumns[h]
  OBVIOUS
<1>3. h \in 1 .. 5 /\ col \in Columns /\ ColumnOf(Headers[h]) = col
  BY <1>2, HeadersAreColumns
<1>4. PICK up \in BOOLEAN : up = ~asc
  BY DEF PlayerInv
<1>5. PICK r : r = Sort(s, col, up)
  OBVIOUS
<1>6. PlayerList(s)
  BY <1>1 DEF PlayerInv
<1>7. PICK f : Moves(f, r, s, Player)
  BY <1>3, <1>5, <1>6, SortOK DEF PlayerList
<1>8. RowsOrdered(r, col, up)
  BY <1>3, <1>5, <1>6, SortOK DEF PlayerList
<1>9. PlayerList(r) /\ ToSet(r) = ToSet(s) /\ Len(r) = Len(s)
  BY <1>6, <1>7, MovesKeep
<1>10. /\ rows' = r /\ sortColumn' = col /\ asc' = up /\ clicked' = h
       /\ roster' = roster /\ serverMode' = serverMode
  BY <1>1, <1>3, <1>4, <1>5 DEF ClickHeader
<1>11. EnabledColumns' = EnabledColumns
  BY <1>10 DEF EnabledColumns
<1>12. ToSet(rows') = ToSet(OfTeam(roster')) /\ Len(rows') = Len(OfTeam(roster'))
  BY <1>1, <1>9, <1>10 DEF PlayerInv
<1> QED BY <1>2, <1>3, <1>8, <1>9, <1>10, <1>11, <1>12 DEF PlayerInv

-----------------------------------------------------------------------------
(* PlayerTable: what is read.                                              *)

LEMMA RowsRead == PlayerInv => RowsInOrder
BY DEF PlayerInv, RowsInOrder, RowsOrdered

LEMMA HighlightRead == PlayerInv => HighlightIsOneRow
<1> SUFFICES ASSUME PlayerInv PROVE HighlightIsOneRow
  OBVIOUS
<1>1. rows \in Seq(Player) /\ Len(rows) \in Nat /\ DOMAIN rows = 1 .. Len(rows)
  BY DEF PlayerInv, PlayerList
<1>2. ASSUME NEW row \in DOMAIN rows
      PROVE  row = CurrentRowIndex <=> rows[row].sid = selected
  <2> DEFINE I == {i \in 1 .. Len(rows) : rows[i].sid = selected}
  <2>1. CurrentRowIndex = IF I # {} THEN Min(I) ELSE 0
    BY DEF CurrentRowIndex, SelectInSeq
  <2>2. CASE I = {}
    <3>1. rows[row].sid # selected /\ row # 0
      BY <1>1, <2>2
    <3> QED BY <2>1, <2>2, <3>1
  <2>3. CASE I # {}
    <3>1. PICK i \in I : TRUE
      BY <2>3
    <3>2. I = {i}
      BY <1>1 DEF PlayerInv, PlayerList
    <3>3. Min({i}) = i
      <4>1. i \in Nat
        OBVIOUS
      <4> QED BY <4>1 DEF Min
    <3>4. CurrentRowIndex = i
      BY <2>1, <2>3, <3>2, <3>3
    <3>5. row \in I <=> row = i
      BY <3>2
    <3> QED BY <1>1, <3>4, <3>5
  <2> QED BY <2>2, <2>3
<1>3. ASSUME NEW row \in DOMAIN rows, NEW pos \in 0 .. Len(EnabledColumns) - 1
      PROVE  CellStyle(row, pos) # "plain" <=> rows[row].sid = selected
  <2>1. pos # ColMeta
    BY HeadersAreColumns DEF ColMeta
  <2> QED BY <1>2, <2>1 DEF CellStyle
<1>4. ASSUME NEW row \in DOMAIN rows, CellStyle(row, ColName) = "self"
      PROVE  rows[row].sid = selected /\ row = Len(rows)
  <2>1. row = CurrentRowIndex /\ row >= Len(rows)
    BY <1>4 DEF CellStyle
  <2> QED BY <1>1, <1>2, <2>1
<1> QED BY <1>3, <1>4 DEF HighlightIsOneRow

(* The cells below the header that was clicked last.                       *)
LEMMA CellsRead == PlayerInv => CellsInOrder
<1> SUFFICES ASSUME PlayerInv, clicked # 0 PROVE CellsInOrder
  BY DEF CellsInOrder
<1>1. PICK col : col = EnabledColumns[clicked]
  OBVIOUS
<1>2. col \in Columns /\ sortColumn = col /\ asc \in BOOLEAN
  BY <1>1 DEF PlayerInv
<1>3. \A i \in DOMAIN rows : i \in Nat /\ rows[i] \in Player
  BY DEF PlayerInv, PlayerList
<1>4. ASSUME NEW i \in DOMAIN rows, NEW j \in DOMAIN rows, i < j
      PROVE  IF asc THEN ~Before(col, rows[i], rows[j]) ELSE ~Before(col, rows[j], rows[i])
  BY <1>2, <1>4 DEF PlayerInv, RowsOrdered
<1>5. CASE col = "address"
  <2>1. \A i \in DOMAIN rows : CellAt(i, clicked) = rows[i].host
    BY <1>1, <1>5 DEF CellAt
  <2>2. ASSUME NEW i \in DOMAIN rows, NEW j \in DOMAIN rows, NEW k \in DOMAIN rows,
               i < j, j < k, rows[i].host = rows[k].host, rows[j].host # rows[i].host
        PROVE  FALSE
    <3>1. PICK a, b, c : a = rows[i] /\ b = rows[j] /\ c = rows[k]
      OBVIOUS
    <3>2. a \in Player /\ b \in Player /\ c \in Player /\ a.host = c.host /\ b.host # a.host
      BY <1>3, <2>2, <3>1
    <3>3. /\ IF asc THEN ~Before(col, a, b) ELSE ~Before(col, b, a)
          /\ IF asc THEN ~Before(col, b, c) ELSE ~Before(col, c, b)
      BY <1>4, <2>2, <3>1
    <3>4. \A p, q \in Player : Before(col, p, q) <=> LessText(Text(p.host, p.port), Text(q.host, q.port))
      BY <1>5, AddressOK DEF Before
    <3>5. /\ a.host \in Seq(Digits) /\ b.host \in Seq(Digits)
          /\ a.port \in Seq(Digits) /\ b.port \in Seq(Digits) /\ c.port \in Seq(Digits)
      BY <3>2 DEF Player
    <3>6. \/ \A p, q \in Seq(Digits) : LessText(Text(a.host, p), Text(b.host, q))
          \/ \A p, q \in Seq(Digits) : LessText(Text(b.host, q), Text(a.host, p))
      BY <3>2, <3>5, HostsApart
    <3>7. \/ Before(col, a, b) /\ Before(col, c, b)
          \/ Before(col, b, a) /\ Before(col, b, c)
      BY <3>2, <3>4, <3>5, <3>6
    <3> QED BY <3>3, <3>7
  <2>3. Together(clicked)
    BY <2>1, <2>2 DEF Together
  <2> QED BY <1>1, <1>5, <2>3 DEF CellsInOrder
<1>6. CASE col = "meta"
  <2>1. \A i \in DOMAIN rows : CellAt(i, clicked) = MetaColumn(rows[i])
    BY <1>1, <1>6 DEF CellAt
  <2>2. \A i \in DOMAIN rows : rows[i].bans \in Nat /\ rows[i].vacs \in Nat
    BY <1>3 DEF Player
  <2>3. ASSUME NEW i \in DOMAIN rows
        PROVE  CellAt(i, clicked) \cap {"bans", "vac"} = {} <=> rows[i].bans + rows[i].vacs = 0
    <3>1. rows[i].bans + rows[i].vacs = 0 <=> ~(rows[i].bans > 0) /\ ~(rows[i].vacs > 0)
      BY <2>2
    <3>2. MetaColumn(rows[i]) \cap {"bans", "vac"} = {} <=> ~(rows[i].bans > 0) /\ ~(rows[i].vacs > 0)
      BY DEF MetaColumn
    <3> QED BY <2>1, <3>1, <3>2
  <2>4. \A p, q \in Player : Before(col, p, q) <=> p.bans + p.vacs > q.bans + q.vacs
    BY <1>6 DEF Before
  <2> DEFINE Clean(i) == rows[i].bans + rows[i].vacs = 0
  <2>5. ASSUME NEW i \in DOMAIN rows, NEW j \in DOMAIN rows, NEW k \in DOMAIN rows,
               i < j, j < k, Clean(i) <=> Clean(k)
        PROVE  Clean(j) <=> Clean(i)
    <3>1. /\ IF asc THEN ~Before(col, rows[i], rows[j]) ELSE ~Before(col, rows[j], rows[i])
          /\ IF asc THEN ~Before(col, rows[j], rows[k]) ELSE ~Before(col, rows[k], rows[j])
      BY <1>4, <2>5
    <3>2. PICK x, y, z : /\ x = rows[i].bans + rows[i].vacs
                         /\ y = rows[j].bans + rows[j].vacs
                         /\ z = rows[k].bans + rows[k].vacs
      OBVIOUS
    <3>3. x \in Nat /\ y \in Nat /\ z \in Nat
      BY <2>2, <3>2
    <3>4. IF asc THEN ~(x > y) /\ ~(y > z) ELSE ~(y > x) /\ ~(z > y)
      BY <1>3, <2>4, <3>1, <3>2
    <3>5. (x = 0 <=> z = 0) => (y = 0 <=> x = 0)
      BY <3>3, <3>4
    <3> QED BY <2>5, <3>2, <3>5
  <2> QED BY <1>1, <1>6, <2>3, <2>5 DEF CellsInOrder
<1>7. CASE col = "name"
  <2>1. \A i \in DOMAIN rows : CellAt(i, clicked)[1] = "name" => CellAt(i, clicked)[2] = rows[i].name
    BY <1>1, <1>7 DEF CellAt
  <2>2. ASSUME NEW i \in DOMAIN rows, NEW j \in DOMAIN rows, i < j, rows[i].name < rows[j].name
        PROVE  ~asc
    BY <1>2, <1>4, <1>7, <2>2 DEF Before
  <2> QED BY <1>1, <1>7, <2>1, <2>2 DEF CellsInOrder
<1>8. CASE col \in NumberColumns \ {"name"}
  <2>1. \A i \in DOMAIN rows : CellAt(i, clicked) = rows[i][col]
    BY <1>1, <1>8 DEF CellAt, NumberColumns
  <2>2. ASSUME NEW i \in DOMAIN rows, NEW j \in DOMAIN rows, i < j, rows[i][col] < rows[j][col]
        PROVE  ~asc
    BY <1>2, <1>4, <1>8, <2>2 DEF Before, NumberColumns
  <2>3. col # "address" /\ col # "meta" /\ col # "name"
    BY <1>8 DEF NumberColumns
  <2> QED BY <1>1, <2>1, <2>2, <2>3 DEF CellsInOrder
<1> QED BY <1>2, <1>5, <1>6, <1>7, <1>8 DEF Columns

-----------------------------------------------------------------------------
(* PlayerTable: the rosters.                                               *)

(* A player before he is given his SteamID.                                *)
AnyPlayer ==
  [sid : {"none"}, listed : BOOLEAN, name : Nat, persona : Nat, score : Nat, deaths : Nat,
   ping : Nat, loss : Nat, bans : Nat, vacs : Nat, comp : BOOLEAN, host : Seq(Digits),
   port : Seq(Digits)]

LEMMA KindsOK == \A kind \in Kinds : kind \subseteq AnyPlayer
<1> SUFFICES ASSUME NEW kind \in Kinds, NEW p \in kind PROVE p \in AnyPlayer
  OBVIOUS
<1>1. MaxKey \in Nat /\ 0 \in Digits /\ MaxKey \in Digits /\ \A n \in Keys : n \in Nat /\ MaxKey - n \in Nat
  BY PlayerTableAssumption DEF Digits, Keys
<1>2. <<0>> \in Seq(Digits) /\ <<0, MaxKey>> \in Seq(Digits) /\ <<MaxKey>> \in Seq(Digits)
  BY <1>1
<1>3. Plain \in AnyPlayer
  BY <1>2 DEF Plain, AnyPlayer
<1>4. \A l \in BOOLEAN, n \in Keys : Scorer(l, n) \in AnyPlayer
  BY <1>1, <1>3 DEF Scorer, AnyPlayer
<1>5. \A n \in Keys, q \in Keys : Named(n, q) \in AnyPlayer
  BY <1>1, <1>3 DEF Named, AnyPlayer
<1>6. \A n \in Keys : Pinging(n) \in AnyPlayer
  BY <1>1, <1>3 DEF Pinging, AnyPlayer
<1>7. \A b \in Keys, v \in Keys : Banned(b, v) \in AnyPlayer
  BY <1>1, <1>3 DEF Banned, AnyPlayer
<1>8. \A h \in {<<0>>, <<0, MaxKey>>}, q \in {<<0>>, <<MaxKey>>} : Located(h, q) \in AnyPlayer
  BY <1>2, <1>3 DEF Located, AnyPlayer
<1> QED BY <1>4, <1>5, <1>6, <1>7, <1>8 DEF Kinds

(* SetToSeq: the players of a roster are in some order, each once.         *)
LEMMA OrderOfSIDs ==
  /\ SetToSeq(TableSIDs) \in [1 .. Cardinality(TableSIDs) -> TableSIDs]
  /\ IsInjective(SetToSeq(TableSIDs))
  /\ Cardinality(TableSIDs) \in Nat
<1>1. Cardinality(TableSIDs) \in Nat /\ ExistsBijection(1 .. Cardinality(TableSIDs), TableSIDs)
  BY PlayerTableAssumption, FS_CardinalityType
<1>2. \E f \in [1 .. Cardinality(TableSIDs) -> TableSIDs] : IsInjective(f)
  BY <1>1 DEF ExistsBijection, Bijection, Injection
<1> QED BY <1>1, <1>2 DEF SetToSeq

LEMMA RostersOK == \A r \in Rosters : PlayerList(r)
<1> SUFFICES ASSUME NEW r \in Rosters PROVE PlayerList(r)
  OBVIOUS
<1>1. PICK n \in Nat : n <= Cardinality(TableSIDs) /\ r \in RostersOf(n)
  BY OrderOfSIDs DEF Rosters
<1>2. PICK order : order = SetToSeq(TableSIDs)
  OBVIOUS
<1>3. PICK m \in Nat : m = Cardinality(TableSIDs) /\ n <= m
  BY <1>1, OrderOfSIDs
<1>4. order \in [1 .. m -> TableSIDs] /\ IsInjective(order) /\ 1 .. n \subseteq 1 .. m
  BY <1>2, <1>3, OrderOfSIDs
<1>5. PICK kind \in Kinds :
        r \in {[i \in 1 .. n |-> [keys[i] EXCEPT !.sid = order[i]]] : keys \in [1 .. n -> kind]}
  BY <1>1, <1>2 DEF RostersOf
<1>6. PICK keys \in [1 .. n -> kind] : r = [i \in 1 .. n |-> [keys[i] EXCEPT !.sid = order[i]]]
  BY <1>5
<1>7. ASSUME NEW i \in 1 .. n PROVE r[i] \in Player /\ r[i].sid = order[i]
  <2>1. PICK p : p = keys[i]
    OBVIOUS
  <2>2. p \in AnyPlayer /\ order[i] \in TableSIDs
    BY <1>4, <2>1, KindsOK
  <2>3. r[i] = [p EXCEPT !.sid = order[i]]
    BY <1>6, <2>1
  <2> QED BY <2>2, <2>3 DEF AnyPlayer, Player
<1>8. r \in Seq(Player) /\ DOMAIN r = 1 .. n
  BY <1>6, <1>7, SeqDef
<1> QED BY <1>4, <1>7, <1>8 DEF PlayerList, IsInjective

LEMMA PlayersStart == PlayersInit => PlayerInv
<1> SUFFICES ASSUME PlayersInit PROVE PlayerInv
  OBVIOUS
<1>1. PlayerList(roster) /\ OfTeam(roster) = <<>>
  <2>1. roster = <<>> /\ roster \in Seq(Player) /\ Len(roster) = 0
    BY DEF PlayersInit
  <2>2. OfTeam(roster) = <<>>
    BY <2>1, OfTeamStages
  <2> QED BY <2>1, <2>2 DEF PlayerList
<1>2. /\ rows = <<>> /\ sortColumn = "score" /\ asc = TRUE /\ clicked = 0 /\ serverMode \in BOOLEAN
  BY DEF PlayersInit
<1>3. PlayerList(<<>>) /\ RowsOrdered(<<>>, "score", TRUE)
  BY DEF PlayerList, RowsOrdered
<1>4. "score" \in Columns /\ 0 \in 0 .. 5
  BY DEF Columns, NumberColumns
<1> QED BY <1>1, <1>2, <1>3, <1>4 DEF PlayerInv

(* Whatever was clicked, the table of players shows those of the team,     *)
(* each once, the column can be read in order and the highlight is on the  *)
(* selected player: for any number of players and whatever is in a column. *)
THEOREM PlayerTableReadsHolds == PlayersSpec => []PlayerTableReads
<1>1. PlayerInv /\ [PlayersNext]_playerVars => PlayerInv'
  <2> SUFFICES ASSUME PlayerInv, [PlayersNext]_playerVars PROVE PlayerInv'
    OBVIOUS
  <2>1. ASSUME NEW players \in NextRosters, UpdatePlayers(players) PROVE PlayerInv'
    <3>1. PlayerList(players)
      BY RostersOK DEF NextRosters
    <3> QED BY <2>1, <3>1, UpdatePlayersKeeps
  <2>2. ASSUME NEW h \in DOMAIN EnabledColumns, ClickHeader(h) PROVE PlayerInv'
    BY <2>2, ClickHeaderKeeps
  <2>3. CASE UNCHANGED <<roster, serverMode, rows, sortColumn, asc, clicked>>
    BY <2>3 DEF PlayerInv, EnabledColumns
  <2> QED BY <2>1, <2>2, <2>3 DEF PlayersNext, ClickRow, playerVars
<1>2. PlayerInv => PlayerTableReads
  BY RowsRead, CellsRead, HighlightRead DEF PlayerTableReads
<1> QED BY PlayersStart, <1>1, <1>2, PTL DEF PlayersSpec

-----------------------------------------------------------------------------
(* Panels: the viewport.                                                   *)

Viewports == [lines : Nat, height : Nat, offset : Nat]

(* The smaller of two numbers.                                             *)
LEMMA MinOfTwo ==
  ASSUME NEW a \in Nat, NEW b \in Nat
  PROVE  Min({a, b}) \in Nat /\ Min({a, b}) <= a /\ Min({a, b}) <= b
<1>1. \E x \in {a, b} : \A y \in {a, b} : x <= y
  <2>1. CASE a <= b
    BY <2>1
  <2>2. CASE b <= a
    BY <2>2
  <2> QED BY <2>1, <2>2
<1>2. Min({a, b}) \in {a, b} /\ \A y \in {a, b} : Min({a, b}) <= y
  BY <1>1 DEF Min
<1> QED BY <1>2

(* At the bottom the last line is in sight.                                *)
LEMMA BottomShowsLast ==
  ASSUME NEW v \in Viewports, AtBottom(v)
  PROVE  v.offset + v.height >= v.lines
BY DEF Viewports, AtBottom, MaxYOffset

(* The bottom is reached by going there.                                   *)
LEMMA GoesToBottom ==
  ASSUME NEW v \in Viewports
  PROVE  /\ GotoBottom(v) \in Viewports
         /\ AtBottom(GotoBottom(v))
<1>1. PICK m \in Nat : m = MaxYOffset(v)
  BY DEF Viewports, MaxYOffset
<1>2. PICK w : w = [v EXCEPT !.offset = m]
  OBVIOUS
<1>3. w \in Viewports /\ w.offset = m /\ w.lines = v.lines /\ w.height = v.height
  BY <1>1, <1>2 DEF Viewports
<1>4. MaxYOffset(w) = m
  BY <1>1, <1>3 DEF MaxYOffset
<1>5. GotoBottom(v) = w
  BY <1>1, <1>2 DEF GotoBottom
<1> QED BY <1>1, <1>3, <1>4, <1>5 DEF AtBottom

(* New content: the offset stays, or is past the end, which leads there.   *)
LEMMA ContentSet ==
  ASSUME NEW v \in Viewports, NEW n \in Nat
  PROVE  /\ SetContent(v, n) \in Viewports
         /\ SetContent(v, n).offset = v.offset \/ AtBottom(SetContent(v, n))
         /\ v.offset + 1 <= n => SetContent(v, n).offset = v.offset
<1>1. PICK w : w = [v EXCEPT !.lines = n]
  OBVIOUS
<1>2. w \in Viewports /\ w.offset = v.offset
  BY <1>1 DEF Viewports
<1>3. SetContent(v, n) = IF v.offset + 1 > n THEN GotoBottom(w) ELSE w
  BY <1>1 DEF SetContent
<1>4. v.offset \in Nat
  BY DEF Viewports
<1>5. CASE v.offset + 1 > n
  BY <1>2, <1>3, <1>4, <1>5, GoesToBottom
<1>6. CASE ~(v.offset + 1 > n)
  BY <1>2, <1>3, <1>4, <1>6
<1> QED BY <1>5, <1>6

(* A viewport that has been scrolled, or not: it has what it had, and was  *)
(* scrolled away from the bottom only by having been scrolled up.          *)
Scrolled(v, c) ==
  /\ c \in Viewports
  /\ c.lines = v.lines /\ c.height = v.height
  /\ AtBottom(v) => AtBottom(c) \/ c.offset < v.offset

(* One line up, or down, or not at all.                                    *)
LEMMA Scrolling ==
  ASSUME NEW v \in Viewports
  PROVE  /\ Scrolled(v, v)
         /\ Scrolled(v, ScrolledUp(v))
         /\ Scrolled(v, ScrolledDown(v))
<1>1. Scrolled(v, v)
  BY DEF Scrolled
<1>2. PICK m \in Nat : m = MaxYOffset(v)
  BY DEF Viewports, MaxYOffset
<1>3. v.offset \in Nat
  BY DEF Viewports
<1>4. ASSUME v.offset # 0 PROVE Scrolled(v, ScrolledUp(v))
  <2>1. PICK k : k = Min({v.offset - 1, m})
    OBVIOUS
  <2>2. v.offset - 1 \in Nat
    BY <1>3, <1>4
  <2>3. k \in Nat /\ k <= v.offset - 1
    BY <1>2, <2>1, <2>2, MinOfTwo
  <2>4. PICK c : c = [v EXCEPT !.offset = k]
    OBVIOUS
  <2>5. c \in Viewports /\ c.lines = v.lines /\ c.height = v.height /\ c.offset = k
    BY <2>3, <2>4 DEF Viewports
  <2>6. ScrolledUp(v) = c
    BY <1>2, <1>4, <2>1, <2>4 DEF ScrolledUp
  <2>7. Scrolled(v, c)
    BY <1>3, <2>3, <2>5 DEF Scrolled
  <2> QED BY <2>6, <2>7
<1>5. ASSUME v.offset = 0 PROVE Scrolled(v, ScrolledUp(v))
  <2>1. ScrolledUp(v) = v
    BY <1>5 DEF ScrolledUp
  <2> QED BY <1>1, <2>1
<1>6. ASSUME ~AtBottom(v) PROVE Scrolled(v, ScrolledDown(v))
  <2>1. PICK k : k = Min({v.offset + 1, m})
    OBVIOUS
  <2>2. k \in Nat
    BY <1>2, <1>3, <2>1, MinOfTwo
  <2>3. PICK c : c = [v EXCEPT !.offset = k]
    OBVIOUS
  <2>4. c \in Viewports /\ c.lines = v.lines /\ c.height = v.height
    BY <2>2, <2>3 DEF Viewports
  <2>5. ScrolledDown(v) = c
    BY <1>2, <1>6, <2>1, <2>3 DEF ScrolledDown
  <2>6. Scrolled(v, c)
    BY <1>6, <2>4 DEF Scrolled
  <2> QED BY <2>5, <2>6
<1>7. ASSUME AtBottom(v) PROVE Scrolled(v, ScrolledDown(v))
  <2>1. ScrolledDown(v) = v
    BY <1>7 DEF ScrolledDown
  <2> QED BY <1>1, <2>1
<1> QED BY <1>1, <1>4, <1>5, <1>6, <1>7

-----------------------------------------------------------------------------
(* Panels: what is in sight, for windows, tables and logs of any length.   *)

(* Who follows the log is at its end, also while it is not shown.  The     *)
(* panels of a player keep nothing, and so nothing is scrolled in them.    *)
PanelsInv ==
  /\ window \in MaxRows + 1 .. MaxWindow /\ teamRows \in 0 .. MaxRows
  /\ rowsCount \in [LogHosts -> Nat] /\ host \in LogHosts
  /\ person.bans \in Nat /\ person.known \in Nat
  /\ console \in Viewports
  /\ banView = Fresh(MaxWindow) /\ overview = Fresh(MaxWindow)
  /\ ~away => AtBottom(console)
  /\ tab = "console" => drawn = console
  /\ PlayerFromTheTop

(* consoleModel.Render: the end is left only by scrolling up, or when the  *)
(* panel has become lower.                                                 *)
LEMMA ConsoleFollows ==
  ASSUME NEW v \in Viewports, NEW c, Scrolled(v, c), NEW room \in Nat, NEW n \in Nat
  PROVE  /\ ConsoleRender(c, room, n) \in Viewports
         /\ AtBottom(v) => \/ AtBottom(ConsoleRender(c, room, n))
                           \/ ConsoleRender(c, room, n).offset < v.offset
                           \/ room < v.height
<1>1. PICK w : w = [c EXCEPT !.height = room]
  OBVIOUS
<1>2. /\ c \in Viewports /\ c.lines = v.lines /\ c.height = v.height
      /\ AtBottom(v) => AtBottom(c) \/ c.offset < v.offset
  BY DEF Scrolled
<1>3. /\ w \in Viewports /\ w.height = room /\ w.lines = v.lines /\ w.offset = c.offset
  BY <1>1, <1>2 DEF Viewports
<1>4. PICK k \in Nat : k = LogLines(n)
  BY DEF LogLines
<1>5. PICK s : s = SetContent(w, k)
  OBVIOUS
<1>6. s \in Viewports /\ (s.offset = w.offset \/ AtBottom(s))
  BY <1>3, <1>5, ContentSet
<1>7. ConsoleRender(c, room, n) = IF AtBottom(w) THEN GotoBottom(s) ELSE s
  BY <1>1, <1>4, <1>5 DEF ConsoleRender
<1>8. CASE AtBottom(w)
  BY <1>6, <1>7, <1>8, GoesToBottom
<1>9. CASE ~AtBottom(w)
  <2>1. ConsoleRender(c, room, n) = s
    BY <1>7, <1>9
  <2>2. ASSUME AtBottom(v), ~(room < v.height) PROVE c.offset < v.offset
    <3>1. ~AtBottom(c)
      BY <1>2, <1>3, <1>9, <2>2 DEF AtBottom, MaxYOffset, Viewports
    <3> QED BY <1>2, <2>2, <3>1
  <2>3. AtBottom(v) => AtBottom(s) \/ s.offset < v.offset \/ room < v.height
    BY <1>3, <1>6, <2>2
  <2> QED BY <1>6, <2>1, <2>3
<1> QED BY <1>8, <1>9

(* The panels of a player are drawn from the first row.                    *)
LEMMA PlayerPanels ==
  ASSUME NEW room, NEW p, p.bans \in Nat, p.known \in Nat
  PROVE  /\ BansRender(Fresh(MaxWindow), room, p).offset = 0
         /\ DetailRender(Fresh(MaxWindow), room, p).offset = 0
BY DEF BansRender, DetailRender, Fresh, SetContent

(* A viewport without content takes no scrolling.                          *)
LEMMA FreshStays ==
  /\ ScrolledUp(Fresh(MaxWindow)) = Fresh(MaxWindow)
  /\ ScrolledDown(Fresh(MaxWindow)) = Fresh(MaxWindow)
BY PanelsAssumption DEF Fresh, ScrolledUp, ScrolledDown, AtBottom, MaxYOffset

(* What every message leaves to View.                                      *)
TypesNext ==
  /\ window' \in MaxRows + 1 .. MaxWindow /\ teamRows' \in 0 .. MaxRows
  /\ rowsCount' \in [LogHosts -> Nat] /\ host' \in LogHosts
  /\ person'.bans \in Nat /\ person'.known \in Nat

(* rootModel.View, after a message that may have scrolled.                 *)
LEMMA ViewStep ==
  ASSUME PanelsInv, TypesNext,
         NEW c, Scrolled(console, c),
         View(c, Fresh(MaxWindow), Fresh(MaxWindow))
  PROVE  PanelsInv'
<1>1. PICK room : room = Room(window', teamRows')
  OBVIOUS
<1>2. room \in Nat
  <2>1. PICK w, r : w = window' /\ r = teamRows'
    OBVIOUS
  <2>2. w \in MaxRows + 1 .. MaxWindow /\ r \in 0 .. MaxRows
    BY <2>1 DEF TypesNext
  <2>3. room = w - r
    BY <1>1, <2>1 DEF Room
  <2> QED BY <2>2, <2>3, PanelsAssumption
<1>3. PICK n : n = rowsCount'[host']
  OBVIOUS
<1>4. n \in Nat
  BY <1>3 DEF TypesNext
<1>5. PICK v \in Viewports : v = console
  BY DEF PanelsInv
<1>6. /\ c \in Viewports /\ c.lines = v.lines /\ c.height = v.height
      /\ AtBottom(v) => AtBottom(c) \/ c.offset < v.offset
      /\ Scrolled(v, c)
  BY <1>5 DEF Scrolled
<1>7. ~away => AtBottom(v)
  BY <1>5 DEF PanelsInv
<1>8. CASE tab' = "console"
  <2>1. /\ console' = ConsoleRender(c, room, n) /\ drawn' = console'
        /\ banView' = Fresh(MaxWindow) /\ overview' = Fresh(MaxWindow)
    BY <1>1, <1>3, <1>8 DEF View
  <2>2. ~away' => AtBottom(drawn') \/ (~away /\ ~(console'.offset < v.offset)
                                              /\ ~(room < v.height))
    BY <1>1, <1>5, <1>8 DEF View
  <2>3. PICK w : w = ConsoleRender(c, room, n)
    OBVIOUS
  <2>4. /\ w \in Viewports
        /\ AtBottom(v) => AtBottom(w) \/ w.offset < v.offset \/ room < v.height
    BY <1>2, <1>4, <1>6, <2>3, ConsoleFollows
  <2>5. console' = w /\ drawn' = w
    BY <2>1, <2>3
  <2>6. ~away' => AtBottom(w)
    BY <1>7, <2>2, <2>4, <2>5
  <2>7. ~away' => AtBottom(console')
    BY <2>5, <2>6
  <2> QED BY <1>8, <2>1, <2>4, <2>5, <2>7
          DEF PanelsInv, TypesNext, PlayerFromTheTop, AtBottom, MaxYOffset
<1>9. CASE tab' \in {"bans", "players"}
  <2>1. /\ console' = c
        /\ ~away' => ~away /\ ~(c.offset < v.offset)
        /\ \/ drawn' = BansRender(Fresh(MaxWindow), room, person')
           \/ drawn' = DetailRender(Fresh(MaxWindow), room, person')
        /\ banView' = Fresh(MaxWindow) /\ overview' = Fresh(MaxWindow)
    BY <1>1, <1>5, <1>9 DEF View, Kept
  <2>2. PICK p : p = person'
    OBVIOUS
  <2>3. drawn'.offset = 0
    <3>1. p.bans \in Nat /\ p.known \in Nat
      BY <2>2 DEF TypesNext
    <3> QED BY <2>1, <2>2, <3>1, PlayerPanels
  <2>4. ~away' => AtBottom(c)
    BY <1>6, <1>7, <2>1
  <2>5. ~away' => AtBottom(console')
    BY <2>1, <2>4
  <2> QED BY <1>6, <1>9, <2>1, <2>3, <2>5
          DEF PanelsInv, TypesNext, PlayerFromTheTop, AtBottom, MaxYOffset
<1> QED BY <1>8, <1>9 DEF View

(* The console shows the newest line of the selected server's log, and the *)
(* panels of a player his first row, for windows, tables and logs of any   *)
(* length, and any number of servers: unless the user has scrolled up or   *)
(* the panel has become lower.                                             *)
THEOREM PanelInSightHolds == PanelsSpec => []PanelInSight
<1>1. PanelsInit => PanelsInv
  <2> SUFFICES ASSUME PanelsInit PROVE PanelsInv
    OBVIOUS
  <2>1. Fresh(MaxWindow) \in Viewports /\ AtBottom(Fresh(MaxWindow))
    BY PanelsAssumption DEF Fresh, Viewports, AtBottom, MaxYOffset
  <2>2. drawn.offset = 0
    <3>1. Nobody.bans \in Nat /\ Nobody.known \in Nat
      BY DEF Nobody
    <3> QED BY <3>1, PlayerPanels DEF PanelsInit
  <2>3. window \in MaxRows + 1 .. MaxWindow /\ teamRows \in 0 .. MaxRows
    BY PanelsAssumption DEF PanelsInit
  <2> QED BY <2>1, <2>2, <2>3 DEF PanelsInit, PanelsInv, Nobody, PlayerFromTheTop
<1>2. PanelsInv /\ [PanelsNext]_panelVars => PanelsInv'
  <2> SUFFICES ASSUME PanelsInv, [PanelsNext]_panelVars PROVE PanelsInv'
    OBVIOUS
  <2>1. Scrolled(console, console) /\ Scrolled(console, ScrolledUp(console))
        /\ Scrolled(console, ScrolledDown(console))
    BY Scrolling DEF PanelsInv
  <2>2. PICK f : f = Fresh(MaxWindow)
    OBVIOUS
  <2>3. banView = f /\ overview = f /\ ScrolledUp(f) = f /\ ScrolledDown(f) = f
    BY <2>2, FreshStays DEF PanelsInv
  <2>4. ASSUME NEW h \in LogHosts, OnLogs(h) PROVE PanelsInv'
    <3>1. TypesNext
      BY <2>4 DEF OnLogs, TypesNext, PanelsInv
    <3> QED BY <2>1, <2>2, <2>3, <2>4, <3>1, ViewStep DEF OnLogs
  <2>5. ASSUME NEW h \in LogHosts, SelectServer(h) PROVE PanelsInv'
    <3>1. TypesNext
      BY <2>5 DEF SelectServer, TypesNext, PanelsInv
    <3> QED BY <2>1, <2>2, <2>3, <2>5, <3>1, ViewStep DEF SelectServer
  <2>6. ASSUME NEW p \in Persons, SelectPerson(p) PROVE PanelsInv'
    <3>1. p.bans \in Nat /\ p.known \in Nat
      BY PanelsAssumption DEF Persons, Nobody
    <3>2. TypesNext
      BY <2>6, <3>1 DEF SelectPerson, TypesNext, PanelsInv
    <3> QED BY <2>1, <2>2, <2>3, <2>6, <3>2, ViewStep DEF SelectPerson
  <2>7. ASSUME NEW n \in 0 .. MaxRows, PlayersChange(n) PROVE PanelsInv'
    <3>1. TypesNext
      BY <2>7 DEF PlayersChange, TypesNext, PanelsInv
    <3> QED BY <2>1, <2>2, <2>3, <2>7, <3>1, ViewStep DEF PlayersChange
  <2>8. ASSUME NEW h \in MaxRows + 1 .. MaxWindow, WindowSize(h) PROVE PanelsInv'
    <3>1. TypesNext
      BY <2>8 DEF WindowSize, TypesNext, PanelsInv
    <3> QED BY <2>1, <2>2, <2>3, <2>8, <3>1, ViewStep DEF WindowSize
  <2>9. ASSUME NEW t, SelectPanel(t) PROVE PanelsInv'
    <3>1. TypesNext
      BY <2>9 DEF SelectPanel, TypesNext, PanelsInv
    <3> QED BY <2>1, <2>2, <2>3, <2>9, <3>1, ViewStep DEF SelectPanel
  <2>10. CASE ScrollUp
    <3>1. TypesNext
      BY <2>10 DEF ScrollUp, TypesNext, PanelsInv
    <3> QED BY <2>1, <2>2, <2>3, <2>10, <3>1, ViewStep DEF ScrollUp
  <2>11. CASE ScrollDown
    <3>1. TypesNext
      BY <2>11 DEF ScrollDown, TypesNext, PanelsInv
    <3> QED BY <2>1, <2>2, <2>3, <2>11, <3>1, ViewStep DEF ScrollDown
  <2>12. CASE UNCHANGED panelVars
    BY <2>12 DEF panelVars, PanelsInv, AtBottom, MaxYOffset, PlayerFromTheTop
  <2> QED BY <2>4, <2>5, <2>6, <2>7, <2>8, <2>9, <2>10, <2>11, <2>12 DEF PanelsNext
<1>3. PanelsInv => PanelInSight
  <2> SUFFICES ASSUME PanelsInv, tab = "console", ~away
               PROVE  drawn.offset + drawn.height >= drawn.lines
    BY DEF PanelsInv, PanelInSight, TailFollowed
  <2>1. drawn \in Viewports /\ AtBottom(drawn)
    BY DEF PanelsInv
  <2> QED BY <2>1, BottomShowsLast
<1> QED BY <1>1, <1>2, <1>3, PTL DEF PanelsSpec

=============================================================================
