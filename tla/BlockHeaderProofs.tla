-------------------------- MODULE BlockHeaderProofs --------------------------
(***************************************************************************)
(* Proofs about BlockHeaderBranch, for branches of every length and for    *)
(* all lists of finalizers and producers: the header state of the head     *)
(* answers for the history of its branch.                                  *)
(***************************************************************************)
EXTENDS BlockHeaderBranch, FiniteSetTheorems, TLAPS

-----------------------------------------------------------------------------
(* fc::ordered_diff *)

(* A set of numbers has a least one; so an induction over numbers is a     *)
(* step from a least counterexample.                                       *)
LEMMA LeastNat ==
    ASSUME NEW T, T \subseteq Nat, T # {}
    PROVE  \E x \in T : \A y \in T : ~(y < x)
<1>1. PICK x \in T : \A y \in T : ~(<< y, x >> \in OpToRel(<, Nat))
    BY NatLessThanWellFounded, WFMin, Zenon
<1>2. \A y \in T : ~(y < x)
    BY <1>1, Zenon DEF OpToRel
<1>3. QED
    BY <1>2, Zenon

(* fc::ordered_diff's promise, for all lists: a difference applies to the  *)
(* list that it was made for (apply_diff does not throw), and gives the    *)
(* other list.                                                             *)
THEOREM DiffRoundTrip ==
    \A E : \A x, y \in Seq(E) : applies(x, diff(x, y)) /\ apply_diff(x, diff(x, y)) = y
(* Facts about sequences. *)
<1>ConcatAssociative.
      ASSUME NEW S, NEW s \in Seq(S), NEW t \in Seq(S), NEW u \in Seq(S)
      PROVE  (s \o t) \o u = s \o (t \o u)
    OBVIOUS

<1>ConcatEmptySeq.
      ASSUME NEW S, NEW s \in Seq(S)
      PROVE  s \o << >> = s /\ << >> \o s = s
    OBVIOUS

<1>ConcatProperties.
      ASSUME NEW S, NEW s \in Seq(S), NEW t \in Seq(S)
      PROVE  /\ s \o t \in Seq(S)
             /\ Len(s \o t) = Len(s) + Len(t)
             /\ \A i \in 1 .. Len(s) + Len(t) : (s \o t)[i] = IF i <= Len(s) THEN s[i] ELSE t[i - Len(s)]
    OBVIOUS

<1>ElementOfSeq.
      ASSUME NEW S, NEW s \in Seq(S), NEW n \in 1 .. Len(s)
      PROVE  s[n] \in S
    OBVIOUS

<1>SeqEqual.
      ASSUME NEW S, NEW s \in Seq(S), NEW t \in Seq(S), Len(s) = Len(t), \A i \in 1 .. Len(s) : s[i] = t[i]
      PROVE  s = t
    BY <1>SeqEqual

<1>SubSeqEmpty.
      ASSUME NEW s, NEW m \in Int, NEW n \in Int, n < m
      PROVE  SubSeq(s, m, n) = << >>
    BY <1>SubSeqEmpty

<1>SubSeqFull.
      ASSUME NEW S, NEW s \in Seq(S)
      PROVE  SubSeq(s, 1, Len(s)) = s
    OBVIOUS

<1>SubSeqProperties.
      ASSUME NEW S, NEW s, NEW m \in Int, NEW n \in Int, \A i \in m .. n : s[i] \in S
      PROVE  /\ SubSeq(s, m, n) \in Seq(S)
             /\ Len(SubSeq(s, m, n)) = IF m <= n THEN n - m + 1 ELSE 0
             /\ \A i \in 1 .. n - m + 1 : SubSeq(s, m, n)[i] = s[m + i - 1]
    BY <1>SubSeqProperties

<1>SubSeqRecursiveFirst.
      ASSUME NEW S, NEW s \in Seq(S), NEW m \in 1 .. Len(s), NEW n \in m .. Len(s)
      PROVE  SubSeq(s, m, n) = << s[m] >> \o SubSeq(s, m + 1, n)
    OBVIOUS

<1>SubSeqRecursiveSecond.
      ASSUME NEW S, NEW s \in Seq(S), NEW m \in 1 .. Len(s), NEW n \in m .. Len(s)
      PROVE  SubSeq(s, m, n) = SubSeq(s, m, n - 1) \o << s[n] >>
    OBVIOUS

(* The first n elements of a list, and those after them. *)

<1> DEFINE Start(s, n) == SubSeq(s, 1, n)
<1> HIDE DEF Start

<1> DEFINE Rest(s, n) == SubSeq(s, n + 1, Len(s))
<1> HIDE DEF Rest

(* The loops of apply_diff take container C to D: removing the indexes R   *)
(* when k elements are gone, and inserting the elements I.                 *)

<1> DEFINE Removes(C, R, k, D) ==
               \E f : /\ f[0] = C
                      /\ \A i \in 1 .. Len(R) : f[i] = erase(f[i - 1], R[i] - (k + (i - 1)))
                      /\ f[Len(R)] = D
<1> HIDE DEF Removes

<1> DEFINE Inserts(C, I, D) ==
               \E f : /\ f[0] = C
                      /\ \A i \in 1 .. Len(I) : f[i] = insert(f[i - 1], I[i].index, I[i].value)
                      /\ f[Len(I)] = D
<1> HIDE DEF Inserts

<1>RemovesFirst.
      ASSUME NEW C, NEW R \in Seq(Nat), NEW r \in Nat, NEW k \in Nat, NEW D,
             Removes(erase(C, r - k), R, k + 1, D)
      PROVE  Removes(C, << r >> \o R, k, D)
    <2> USE <1>RemovesFirst
    <2>1. PICK g : /\ g[0] = erase(C, r - k)
                   /\ \A i \in 1 .. Len(R) : g[i] = erase(g[i - 1], R[i] - ((k + 1) + (i - 1)))
                   /\ g[Len(R)] = D
        BY Zenon DEF Removes
    <2> DEFINE Q == << r >> \o R
               f == [i \in 0 .. Len(Q) |-> IF i = 0 THEN C ELSE g[i - 1]]
    <2>2. /\ Len(R) \in Nat /\ Len(Q) = Len(R) + 1
          /\ Q[1] = r
          /\ \A i \in 2 .. Len(Q) : Q[i] = R[i - 1] /\ R[i - 1] \in Nat
        OBVIOUS
    <2> HIDE DEF Q
    <2>3. f[0] = C /\ f[Len(Q)] = D
        BY <2>1, <2>2
    <2>4. ASSUME NEW i \in 1 .. Len(Q) PROVE f[i] = erase(f[i - 1], Q[i] - (k + (i - 1)))
        <3>1. f[i] = g[i - 1]
            BY <2>2
        <3>2. CASE i = 1
            <4>1. f[i - 1] = C /\ i - 1 = 0 /\ Q[i] - (k + (i - 1)) = r - k
                BY <2>2, <3>2
            <4>2. QED
                BY <2>1, <3>1, <4>1, Zenon
        <3>3. CASE i # 1
            <4>1. i \in 2 .. Len(Q) /\ i - 1 \in 1 .. Len(R)
                BY <2>2, <3>3
            <4>2. f[i - 1] = g[(i - 1) - 1]
                BY <2>2, <4>1
            <4>3. Q[i] - (k + (i - 1)) = R[i - 1] - ((k + 1) + ((i - 1) - 1))
                BY <2>2, <4>1
            <4>4. QED
                BY <2>1, <3>1, <4>1, <4>2, <4>3, Zenon
        <3>4. QED
            BY <3>2, <3>3, Zenon
    <2> HIDE DEF f
    <2>5. QED
        BY <2>3, <2>4, Zenon DEF Removes, Q

<1>InsertsFirst.
      ASSUME NEW E, NEW C, NEW I \in Seq([index : Nat, value : E]), NEW n \in Nat, NEW v \in E, NEW D,
             Inserts(insert(C, n, v), I, D)
      PROVE  Inserts(C, << [index |-> n, value |-> v] >> \o I, D)
    <2> USE <1>InsertsFirst
    <2>1. PICK g : /\ g[0] = insert(C, n, v)
                   /\ \A i \in 1 .. Len(I) : g[i] = insert(g[i - 1], I[i].index, I[i].value)
                   /\ g[Len(I)] = D
        BY Zenon DEF Inserts
    <2> DEFINE Q == << [index |-> n, value |-> v] >> \o I
               f == [i \in 0 .. Len(Q) |-> IF i = 0 THEN C ELSE g[i - 1]]
    <2>2. /\ Len(I) \in Nat /\ Len(Q) = Len(I) + 1
          /\ Q[1].index = n /\ Q[1].value = v
          /\ \A i \in 2 .. Len(Q) : Q[i] = I[i - 1]
        OBVIOUS
    <2> HIDE DEF Q
    <2>3. f[0] = C /\ f[Len(Q)] = D
        BY <2>1, <2>2
    <2>4. ASSUME NEW i \in 1 .. Len(Q) PROVE f[i] = insert(f[i - 1], Q[i].index, Q[i].value)
        <3>1. f[i] = g[i - 1]
            BY <2>2
        <3>2. CASE i = 1
            <4>1. f[i - 1] = C /\ i - 1 = 0
                BY <2>2, <3>2
            <4>2. QED
                BY <2>1, <2>2, <3>1, <3>2, <4>1, Zenon
        <3>3. CASE i # 1
            <4>1. i \in 2 .. Len(Q) /\ i - 1 \in 1 .. Len(I)
                BY <2>2, <3>3
            <4>2. f[i - 1] = g[(i - 1) - 1]
                BY <2>2, <4>1
            <4>3. QED
                BY <2>1, <2>2, <3>1, <4>1, <4>2, Zenon
        <3>4. QED
            BY <3>2, <3>3, Zenon
    <2> HIDE DEF f
    <2>5. QED
        BY <2>3, <2>4, Zenon DEF Inserts, Q

<1>RemovedIs.
      ASSUME NEW C, NEW d, d.remove_indexes \in Seq(Nat), NEW D, Removes(C, d.remove_indexes, 0, D)
      PROVE  removed(C, d, Len(d.remove_indexes)) = D
    <2> USE <1>RemovedIs
    <2>1. PICK R \in Seq(Nat) : R = d.remove_indexes
        BY Zenon
    <2>2. PICK n \in Nat : n = Len(R)
        OBVIOUS
    <2>3. PICK g : /\ g[0] = C
                   /\ \A i \in 1 .. n : g[i] = erase(g[i - 1], R[i] - (0 + (i - 1)))
                   /\ g[n] = D
        BY <2>1, <2>2, Zenon DEF Removes
    <2>4. \A i \in 1 .. n : g[i] = erase(g[i - 1], R[i] - (i - 1))
        <3>1. \A i \in 1 .. n : 0 + (i - 1) = i - 1
            BY <2>2
        <3>2. QED
            BY <2>3, <3>1, Zenon
    <2> DEFINE Fits(f) == f = [i \in 0 .. n |-> IF i = 0 THEN C ELSE erase(f[i - 1], R[i] - (i - 1))]
               h == [i \in 0 .. n |-> g[i]]
               after == CHOOSE f : Fits(f)
    <2>5. Fits(h)
        <3>1. \A i \in 0 .. n : i # 0 => i \in 1 .. n /\ i - 1 \in 0 .. n
            BY <2>2
        <3>2. \A i \in 0 .. n : h[i] = IF i = 0 THEN C ELSE erase(h[i - 1], R[i] - (i - 1))
            BY <2>3, <2>4, <3>1, Zenon
        <3>3. h = [i \in 0 .. n |-> h[i]]
            OBVIOUS
        <3> HIDE DEF h
        <3>4. QED
            BY <3>2, <3>3, Zenon
    <2>6. Fits(after)
        BY <2>5, Zenon
    <2> HIDE DEF after
    <2>7. \A i \in 0 .. n : after[i] = IF i = 0 THEN C ELSE erase(after[i - 1], R[i] - (i - 1))
        BY <2>6, Zenon
    <2>8. \A i \in 0 .. n : after[i] = g[i]
        <3> DEFINE T == {i \in 0 .. n : after[i] # g[i]}
        <3>1. SUFFICES ASSUME T # {} PROVE FALSE
            BY Zenon
        <3>2. T \subseteq Nat
            BY <2>2
        <3>3. PICK m \in T : \A y \in T : ~(y < m)
            BY <3>1, <3>2, LeastNat, Zenon
        <3>4. m \in 0 .. n /\ after[m] # g[m]
            BY Zenon
        <3>5. m # 0
            BY <2>3, <2>7, <3>4, Zenon
        <3>6. m \in 1 .. n /\ m - 1 \in 0 .. n /\ m - 1 < m
            BY <2>2, <3>4, <3>5
        <3>7. after[m - 1] = g[m - 1]
            BY <3>3, <3>6, Zenon
        <3>8. after[m] = erase(after[m - 1], R[m] - (m - 1))
            BY <2>7, <3>4, <3>5, Zenon
        <3>9. QED
            BY <2>4, <3>4, <3>6, <3>7, <3>8, Zenon
    <2>9. n \in 0 .. n
        BY <2>2
    <2>10. removed(C, d, n) = after[n]
        BY <2>1, Zenon DEF removed, after
    <2>11. QED
        BY <2>1, <2>2, <2>3, <2>8, <2>9, <2>10, Zenon

<1>InsertedIs.
      ASSUME NEW C, NEW d, NEW E, d.insert_indexes \in Seq([index : Nat, value : E]), NEW D,
             Inserts(C, d.insert_indexes, D)
      PROVE  inserted(C, d, Len(d.insert_indexes)) = D
    <2> USE <1>InsertedIs
    <2>1. PICK I \in Seq([index : Nat, value : E]) : I = d.insert_indexes
        BY Zenon
    <2>2. PICK n \in Nat : n = Len(I)
        OBVIOUS
    <2>3. PICK g : /\ g[0] = C
                   /\ \A i \in 1 .. n : g[i] = insert(g[i - 1], I[i].index, I[i].value)
                   /\ g[n] = D
        BY <2>1, <2>2, Zenon DEF Inserts
    <2> DEFINE Fits(f) == f = [i \in 0 .. n |-> IF i = 0 THEN C ELSE insert(f[i - 1], I[i].index, I[i].value)]
               h == [i \in 0 .. n |-> g[i]]
               after == CHOOSE f : Fits(f)
    <2>5. Fits(h)
        <3>1. \A i \in 0 .. n : i # 0 => i \in 1 .. n /\ i - 1 \in 0 .. n
            BY <2>2
        <3>2. \A i \in 0 .. n : h[i] = IF i = 0 THEN C ELSE insert(h[i - 1], I[i].index, I[i].value)
            BY <2>3, <3>1, Zenon
        <3>3. h = [i \in 0 .. n |-> h[i]]
            OBVIOUS
        <3> HIDE DEF h
        <3>4. QED
            BY <3>2, <3>3, Zenon
    <2>6. Fits(after)
        BY <2>5, Zenon
    <2> HIDE DEF after
    <2>7. \A i \in 0 .. n : after[i] = IF i = 0 THEN C ELSE insert(after[i - 1], I[i].index, I[i].value)
        BY <2>6, Zenon
    <2>8. \A i \in 0 .. n : after[i] = g[i]
        <3> DEFINE T == {i \in 0 .. n : after[i] # g[i]}
        <3>1. SUFFICES ASSUME T # {} PROVE FALSE
            BY Zenon
        <3>2. T \subseteq Nat
            BY <2>2
        <3>3. PICK m \in T : \A y \in T : ~(y < m)
            BY <3>1, <3>2, LeastNat, Zenon
        <3>4. m \in 0 .. n /\ after[m] # g[m]
            BY Zenon
        <3>5. m # 0
            BY <2>3, <2>7, <3>4, Zenon
        <3>6. m \in 1 .. n /\ m - 1 \in 0 .. n /\ m - 1 < m
            BY <2>2, <3>4, <3>5
        <3>7. after[m - 1] = g[m - 1]
            BY <3>3, <3>6, Zenon
        <3>8. after[m] = insert(after[m - 1], I[m].index, I[m].value)
            BY <2>7, <3>4, <3>5, Zenon
        <3>9. QED
            BY <2>3, <3>4, <3>6, <3>7, <3>8, Zenon
    <2>9. n \in 0 .. n
        BY <2>2
    <2>10. inserted(C, d, n) = after[n]
        BY <2>1, Zenon DEF inserted, after
    <2>11. QED
        BY <2>1, <2>2, <2>3, <2>8, <2>9, <2>10, Zenon

<1> DEFINE Inserted(E) == [index : Nat, value : E]
<1> HIDE DEF Inserted

<1> DEFINE DiffsOf(E) == [remove_indexes : Seq(Nat), insert_indexes : Seq(Inserted(E))]
<1> HIDE DEF DiffsOf

(* The difference d takes the rest of list x from position s on to the     *)
(* rest of list y from position t on; M are the elements that stay.        *)

<1> DEFINE Keeps(E, x, y, s, t, d, M) ==
               LET R == d.remove_indexes
                   I == d.insert_indexes
               IN  /\ Len(M) = (Len(x) - s) - Len(R)
                   /\ \A i \in 1 .. Len(I) : I[i].index <= ((t + Len(M)) + i) - 1
                   /\ \A K \in Seq(E), k \in Nat : Len(K) = s - k => Removes(K \o Rest(x, s), R, k, K \o M)
                   /\ Inserts(Start(y, t) \o M, I, y)
<1> HIDE DEF Keeps

<1> DEFINE Grows(x, s, t, d) ==
               LET R == d.remove_indexes
                   I == d.insert_indexes
               IN  /\ \A i \in 1 .. Len(R) : R[i] \in s .. Len(x) - 1 /\ (i > 1 => R[i] > R[i - 1])
                   /\ \A i \in 1 .. Len(I) : I[i].index >= t /\ (i > 1 => I[i].index > I[i - 1].index)
<1> HIDE DEF Grows

<1> DEFINE Good(E, x, y, s, t, d) ==
               /\ d \in DiffsOf(E)
               /\ Grows(x, s, t, d)
               /\ \E M \in Seq(E) : Keeps(E, x, y, s, t, d, M)
<1> HIDE DEF Good

<1>ConcatParts.
      ASSUME NEW E, NEW s \in Seq(E), NEW q \in Seq(E)
      PROVE  /\ SubSeq(s \o q, 1, Len(s)) = s
             /\ SubSeq(s \o q, Len(s) + 1, Len(s \o q)) = q
    <2> USE <1>ConcatParts
    <2>1. /\ s \o q \in Seq(E)
          /\ Len(s) \in Nat /\ Len(q) \in Nat
          /\ Len(s \o q) = Len(s) + Len(q)
          /\ \A i \in 1 .. Len(s) + Len(q) :
                (s \o q)[i] \in E /\ (s \o q)[i] = IF i <= Len(s) THEN s[i] ELSE q[i - Len(s)]
        BY <1>ConcatProperties, <1>ElementOfSeq
    <2>2. PICK c : c = s \o q
        BY Zenon
    <2>3. /\ SubSeq(c, 1, Len(s)) \in Seq(E)
          /\ Len(SubSeq(c, 1, Len(s))) = Len(s)
          /\ \A i \in 1 .. Len(s) : SubSeq(c, 1, Len(s))[i] = s[i]
        <3>1. /\ SubSeq(c, 1, Len(s)) \in Seq(E)
              /\ Len(SubSeq(c, 1, Len(s))) = IF 1 <= Len(s) THEN Len(s) - 1 + 1 ELSE 0
              /\ \A i \in 1 .. Len(s) - 1 + 1 : SubSeq(c, 1, Len(s))[i] = c[1 + i - 1]
            <4>1. 1 \in Int /\ Len(s) \in Int /\ \A i \in 1 .. Len(s) : c[i] \in E
                BY <2>1, <2>2
            <4>2. QED
                BY <4>1, <1>SubSeqProperties
        <3>2. QED
            BY <2>1, <2>2, <3>1
    <2>4. /\ SubSeq(c, Len(s) + 1, Len(c)) \in Seq(E)
          /\ Len(SubSeq(c, Len(s) + 1, Len(c))) = Len(q)
          /\ \A i \in 1 .. Len(q) : SubSeq(c, Len(s) + 1, Len(c))[i] = q[i]
        <3>1. PICK m \in Int, n \in Int : m = Len(s) + 1 /\ n = Len(c) /\ n = Len(s) + Len(q)
            BY <2>1, <2>2
        <3>2. /\ SubSeq(c, m, n) \in Seq(E)
              /\ Len(SubSeq(c, m, n)) = IF m <= n THEN n - m + 1 ELSE 0
              /\ \A i \in 1 .. n - m + 1 : SubSeq(c, m, n)[i] = c[m + i - 1]
            <4>1. \A i \in m .. n : c[i] \in E
                BY <2>1, <2>2, <3>1
            <4>2. QED
                BY <4>1, <1>SubSeqProperties
        <3>3. QED
            BY <2>1, <2>2, <3>1, <3>2
    <2>5. SubSeq(c, 1, Len(s)) = s
        BY <2>3, <1>SeqEqual, Zenon
    <2>6. SubSeq(c, Len(s) + 1, Len(c)) = q
        BY <2>4, <1>SeqEqual, Zenon
    <2>7. QED
        BY <2>2, <2>5, <2>6, Zenon

<1>RestParts.
      ASSUME NEW E, NEW x \in Seq(E), NEW s \in 0 .. Len(x) - 1
      PROVE  x[s + 1] \in E /\ Rest(x, s + 1) \in Seq(E) /\ Rest(x, s) = << x[s + 1] >> \o Rest(x, s + 1)
    <2> USE <1>RestParts
    <2>1. s + 1 \in 1 .. Len(x) /\ Len(x) \in s + 1 .. Len(x) /\ (s + 1) + 1 \in Int /\ Len(x) \in Int
        OBVIOUS
    <2>2. x[s + 1] \in E /\ \A i \in (s + 1) + 1 .. Len(x) : x[i] \in E
        BY <2>1
    <2>3. SubSeq(x, s + 1, Len(x)) = << x[s + 1] >> \o SubSeq(x, (s + 1) + 1, Len(x))
        BY <2>1, <1>SubSeqRecursiveFirst, Zenon
    <2>4. SubSeq(x, (s + 1) + 1, Len(x)) \in Seq(E)
        BY <2>1, <2>2, <1>SubSeqProperties, Zenon
    <2>5. QED
        BY <2>2, <2>3, <2>4, Zenon DEF Rest

<1>StartParts.
      ASSUME NEW E, NEW y \in Seq(E), NEW t \in 0 .. Len(y) - 1
      PROVE  /\ y[t + 1] \in E /\ Start(y, t) \in Seq(E) /\ Len(Start(y, t)) = t
             /\ Start(y, t + 1) = Start(y, t) \o << y[t + 1] >>
    <2> USE <1>StartParts
    <2>1. /\ 1 \in 1 .. Len(y) /\ t + 1 \in 1 .. Len(y) /\ (t + 1) - 1 = t /\ 1 \in Int /\ t \in Int
          /\ \A i \in 1 .. t : y[i] \in E
          /\ y[t + 1] \in E
        OBVIOUS
    <2>2. SubSeq(y, 1, t + 1) = SubSeq(y, 1, (t + 1) - 1) \o << y[t + 1] >>
        BY <2>1, <1>SubSeqRecursiveSecond, Zenon
    <2>3. SubSeq(y, 1, t) \in Seq(E) /\ Len(SubSeq(y, 1, t)) = IF 1 <= t THEN t - 1 + 1 ELSE 0
        BY <2>1, <1>SubSeqProperties
    <2>4. (IF 1 <= t THEN t - 1 + 1 ELSE 0) = t
        OBVIOUS
    <2>5. QED
        BY <2>1, <2>2, <2>3, <2>4, Zenon DEF Start

<1>Single. ASSUME NEW E, NEW v \in E PROVE << v >> \in Seq(E) /\ Len(<< v >>) = 1
    BY <1>Single

<1>EraseFirst.
      ASSUME NEW E, NEW x \in Seq(E), NEW s \in 0 .. Len(x) - 1, NEW K \in Seq(E)
      PROVE  erase(K \o Rest(x, s), Len(K)) = K \o Rest(x, s + 1)
    <2> USE <1>EraseFirst
    <2>0. x[s + 1] \in E /\ Rest(x, s + 1) \in Seq(E) /\ Rest(x, s) = << x[s + 1] >> \o Rest(x, s + 1)
        BY <1>RestParts
    <2>1. PICK v \in E, q \in Seq(E) : q = Rest(x, s + 1) /\ Rest(x, s) = << v >> \o q
        BY <2>0, Zenon
    <2>2. PICK w \in Seq(E) : w = << v >> /\ Len(w) = 1
        BY <1>Single, Zenon
    <2>3. PICK r \in Seq(E) : r = w \o q
        BY <1>ConcatProperties, Zenon
    <2>4. PICK c : c = K \o r /\ c = (K \o w) \o q
        <3>1. (K \o w) \o q = K \o (w \o q)
            OBVIOUS
        <3>2. QED
            BY <2>3, <3>1, Zenon
    <2>5. SubSeq(c, 1, Len(K)) = K
        BY <2>4, <1>ConcatParts, Zenon
    <2>6. K \o w \in Seq(E) /\ Len(K \o w) + 1 = Len(K) + 2
        <3>1. K \o w \in Seq(E) /\ Len(K \o w) = Len(K) + Len(w)
            BY <1>ConcatProperties, Zenon
        <3>2. QED
            BY <2>2, <3>1
    <2>7. SubSeq(c, Len(K) + 2, Len(c)) = q
        BY <2>4, <2>6, <1>ConcatParts
    <2>8. QED
        BY <2>1, <2>2, <2>3, <2>4, <2>5, <2>7, Zenon DEF erase

<1>InsertNext.
      ASSUME NEW E, NEW y \in Seq(E), NEW t \in 0 .. Len(y) - 1, NEW M \in Seq(E)
      PROVE  insert(Start(y, t) \o M, t, at(y, t)) = Start(y, t + 1) \o M
    <2> USE <1>InsertNext
    <2>0. /\ y[t + 1] \in E /\ Start(y, t) \in Seq(E) /\ Len(Start(y, t)) = t
          /\ Start(y, t + 1) = Start(y, t) \o << y[t + 1] >>
        BY <1>StartParts
    <2>1. PICK r \in Seq(E), v \in E :
              r = Start(y, t) /\ Len(r) = t /\ v = at(y, t) /\ Start(y, t + 1) = r \o << v >>
        BY <2>0, Zenon DEF at
    <2>2. SubSeq(r \o M, 1, t) = r /\ SubSeq(r \o M, t + 1, Len(r \o M)) = M
        BY <2>1, <1>ConcatParts
    <2>3. QED
        BY <2>1, <2>2, Zenon DEF insert

<1>FirstIndex.
      ASSUME NEW S, NEW q \in Seq(S), NEW v \in S
      PROVE  /\ << v >> \o q \in Seq(S)
             /\ Len(<< v >> \o q) = Len(q) + 1
             /\ (<< v >> \o q)[1] = v
             /\ \A i \in 2 .. Len(q) + 1 : (<< v >> \o q)[i] = q[i - 1]
    <2> USE <1>FirstIndex
    <2>0. << v >> \in Seq(S) /\ Len(<< v >>) = 1 /\ << v >>[1] = v
        OBVIOUS
    <2>1. PICK w \in Seq(S) : w = << v >> /\ Len(w) = 1 /\ w[1] = v
        BY <2>0, Zenon
    <2>2. /\ w \o q \in Seq(S) /\ Len(w \o q) = Len(w) + Len(q)
          /\ \A i \in 1 .. Len(w) + Len(q) : (w \o q)[i] = IF i <= Len(w) THEN w[i] ELSE q[i - Len(w)]
        BY <1>ConcatProperties, Zenon
    <2>3. Len(q) \in Nat
        OBVIOUS
    <2>4. PICK c : c = w \o q
        BY Zenon
    <2>5. Len(c) = Len(q) + 1 /\ c[1] = v /\ \A i \in 2 .. Len(q) + 1 : c[i] = q[i - 1]
        BY <2>1, <2>2, <2>3, <2>4
    <2>6. QED
        BY <2>1, <2>2, <2>4, <2>5, Zenon

<1>RemovingGood.
      ASSUME NEW E, NEW x \in Seq(E), NEW y \in Seq(E),
             NEW s \in 0 .. Len(x) - 1, NEW t \in 0 .. Len(y), NEW d, Good(E, x, y, s + 1, t, d)
      PROVE  Good(E, x, y, s, t, removing(s, d))
    <2> USE <1>RemovingGood
    <2>1. PICK M \in Seq(E) : Keeps(E, x, y, s + 1, t, d, M)
        BY Zenon DEF Good
    <2>2. PICK R \in Seq(Nat), I \in Seq(Inserted(E)) :
              /\ R = d.remove_indexes /\ I = d.insert_indexes
              /\ d = [remove_indexes |-> R, insert_indexes |-> I]
        BY DEF Good, DiffsOf
    <2> DEFINE Q == << s >> \o R
               e == removing(s, d)
    <2>3. e = [remove_indexes |-> Q, insert_indexes |-> I]
        <3>1. ASSUME NEW q PROVE [d EXCEPT !.remove_indexes = q] = [remove_indexes |-> q, insert_indexes |-> I]
            BY <2>2
        <3>2. e = [d EXCEPT !.remove_indexes = << s >> \o d.remove_indexes]
            BY Zenon DEF removing
        <3>3. QED
            BY <2>2, <3>1, <3>2, Zenon
    <2>4. /\ Q \in Seq(Nat) /\ Len(Q) = Len(R) + 1 /\ Q[1] = s
          /\ \A i \in 2 .. Len(R) + 1 : Q[i] = R[i - 1]
        <3>1. s \in Nat
            OBVIOUS
        <3>2. QED
            BY <3>1, <1>FirstIndex
    <2>5. e.remove_indexes = Q /\ e.insert_indexes = I /\ e \in DiffsOf(E)
        BY <2>3, <2>4 DEF DiffsOf
    <2> HIDE DEF e
    <2>6. Grows(x, s, t, e)
        <3>1. /\ \A i \in 1 .. Len(R) : R[i] \in s + 1 .. Len(x) - 1 /\ (i > 1 => R[i] > R[i - 1])
              /\ \A i \in 1 .. Len(I) : I[i].index >= t /\ (i > 1 => I[i].index > I[i - 1].index)
            BY <2>2, Zenon DEF Good, Grows
        <3> HIDE DEF Q
        <3>2. ASSUME NEW i \in 1 .. Len(Q) PROVE Q[i] \in s .. Len(x) - 1 /\ (i > 1 => Q[i] > Q[i - 1])
            <4>1. CASE i = 1
                BY <2>4, <4>1
            <4>2. CASE i # 1
                <5>1. i - 1 \in 1 .. Len(R) /\ i \in 2 .. Len(R) + 1
                    BY <2>4, <4>2
                <5>2. Q[i] = R[i - 1] /\ R[i - 1] \in s + 1 .. Len(x) - 1
                    BY <2>4, <3>1, <5>1, Zenon
                <5>3. CASE i = 2
                    <6>1. Q[i - 1] = s
                        BY <2>4, <5>3
                    <6>2. QED
                        BY <5>2, <6>1, SMTT(30)
                <5>4. CASE i # 2
                    <6>1. i - 1 \in 2 .. Len(R) + 1 /\ i - 1 > 1
                        BY <5>1, <5>4
                    <6>2. Q[i - 1] = R[(i - 1) - 1] /\ R[i - 1] > R[(i - 1) - 1]
                        BY <2>4, <3>1, <5>1, <6>1, Zenon
                    <6>3. QED
                        BY <5>2, <6>2, SMTT(30)
                <5>5. QED
                    BY <5>3, <5>4, Zenon
            <4>3. QED
                BY <4>1, <4>2, Zenon
        <3>3. QED
            BY <2>5, <3>1, <3>2, Zenon DEF Grows
    <2>7. Keeps(E, x, y, s, t, e, M)
        <3>1. /\ Len(M) = (Len(x) - (s + 1)) - Len(R)
              /\ \A i \in 1 .. Len(I) : I[i].index <= ((t + Len(M)) + i) - 1
              /\ \A K \in Seq(E), k \in Nat : Len(K) = (s + 1) - k => Removes(K \o Rest(x, s + 1), R, k, K \o M)
              /\ Inserts(Start(y, t) \o M, I, y)
            BY <2>1, <2>2, Zenon DEF Keeps
        <3>2. Len(M) = (Len(x) - s) - Len(Q)
            BY <2>4, <3>1
        <3>3. ASSUME NEW K \in Seq(E), NEW k \in Nat, Len(K) = s - k
              PROVE  Removes(K \o Rest(x, s), Q, k, K \o M)
            <4>1. k + 1 \in Nat /\ Len(K) = (s + 1) - (k + 1) /\ s \in Nat
                BY <3>3
            <4>2. Removes(K \o Rest(x, s + 1), R, k + 1, K \o M)
                BY <3>1, <4>1, Zenon
            <4>3. Removes(erase(K \o Rest(x, s), s - k), R, k + 1, K \o M)
                BY <3>3, <4>2, <1>EraseFirst, Zenon
            <4>4. QED
                BY <4>1, <4>3, <1>RemovesFirst, Zenon
        <3> HIDE DEF Q
        <3>4. QED
            BY <2>5, <3>1, <3>2, <3>3, Zenon DEF Keeps
    <2>8. QED
        BY <2>5, <2>6, <2>7, Zenon DEF Good, e

<1>InsertingGood.
      ASSUME NEW E, NEW x \in Seq(E), NEW y \in Seq(E),
             NEW s \in 0 .. Len(x), NEW t \in 0 .. Len(y) - 1, NEW d, Good(E, x, y, s, t + 1, d)
      PROVE  Good(E, x, y, s, t, inserting(t, at(y, t), d))
    <2> USE <1>InsertingGood
    <2>1. PICK M \in Seq(E) : Keeps(E, x, y, s, t + 1, d, M)
        BY Zenon DEF Good
    <2>2. PICK R \in Seq(Nat), I \in Seq(Inserted(E)) :
              /\ R = d.remove_indexes /\ I = d.insert_indexes
              /\ d = [remove_indexes |-> R, insert_indexes |-> I]
        BY DEF Good, DiffsOf
    <2>3. PICK v \in Inserted(E) : /\ v = [index |-> t, value |-> at(y, t)]
                                   /\ v.index = t /\ v.value = at(y, t) /\ at(y, t) \in E /\ t \in Nat
        <3>1. at(y, t) \in E /\ t \in Nat
            BY DEF at
        <3>2. \A n \in Nat, z \in E : /\ [index |-> n, value |-> z] \in Inserted(E)
                                      /\ [index |-> n, value |-> z].index = n
                                      /\ [index |-> n, value |-> z].value = z
            BY DEF Inserted
        <3>3. QED
            BY <3>1, <3>2, Zenon
    <2> DEFINE Q == << v >> \o I
               e == inserting(t, at(y, t), d)
    <2>4. e = [remove_indexes |-> R, insert_indexes |-> Q]
        <3>1. ASSUME NEW q PROVE [d EXCEPT !.insert_indexes = q] = [remove_indexes |-> R, insert_indexes |-> q]
            BY <2>2
        <3>2. e = [d EXCEPT !.insert_indexes = << [index |-> t, value |-> at(y, t)] >> \o d.insert_indexes]
            BY Zenon DEF inserting
        <3>3. QED
            BY <2>2, <2>3, <3>1, <3>2, Zenon
    <2>5. /\ Q \in Seq(Inserted(E)) /\ Len(Q) = Len(I) + 1 /\ Q[1] = v
          /\ \A i \in 2 .. Len(I) + 1 : Q[i] = I[i - 1]
        BY <1>FirstIndex
    <2>6. e.remove_indexes = R /\ e.insert_indexes = Q /\ e \in DiffsOf(E)
        BY <2>4, <2>5 DEF DiffsOf
    <2>7. \A i \in 1 .. Len(I) : I[i].index \in Nat
        <3>1. \A i \in 1 .. Len(I) : I[i] \in Inserted(E)
            BY <1>ElementOfSeq
        <3>2. \A u \in Inserted(E) : u.index \in Nat
            BY DEF Inserted
        <3>3. QED
            BY <3>1, <3>2, Zenon
    <2> HIDE DEF e
    <2>8. Grows(x, s, t, e)
        <3>1. /\ \A i \in 1 .. Len(R) : R[i] \in s .. Len(x) - 1 /\ (i > 1 => R[i] > R[i - 1])
              /\ \A i \in 1 .. Len(I) : I[i].index >= t + 1 /\ (i > 1 => I[i].index > I[i - 1].index)
            BY <2>2, Zenon DEF Good, Grows
        <3> HIDE DEF Q
        <3>2. ASSUME NEW i \in 1 .. Len(Q) PROVE Q[i].index >= t /\ (i > 1 => Q[i].index > Q[i - 1].index)
            <4>1. CASE i = 1
                BY <2>3, <2>5, <4>1
            <4>2. CASE i # 1
                <5>1. i - 1 \in 1 .. Len(I) /\ i \in 2 .. Len(I) + 1
                    BY <2>5, <4>2
                <5>2. Q[i].index = I[i - 1].index /\ I[i - 1].index >= t + 1 /\ I[i - 1].index \in Nat
                    BY <2>5, <2>7, <3>1, <5>1, Zenon
                <5>3. CASE i = 2
                    <6>1. Q[i - 1].index = t
                        BY <2>3, <2>5, <5>3
                    <6>2. QED
                        BY <2>3, <5>2, <6>1, SMTT(30)
                <5>4. CASE i # 2
                    <6>1. i - 1 \in 2 .. Len(I) + 1 /\ i - 1 > 1
                        BY <5>1, <5>4
                    <6>2. Q[i - 1].index = I[(i - 1) - 1].index /\ I[i - 1].index > I[(i - 1) - 1].index
                        BY <2>5, <3>1, <5>1, <6>1, Zenon
                    <6>3. QED
                        BY <2>3, <5>2, <6>2, SMTT(30)
                <5>5. QED
                    BY <5>3, <5>4, Zenon
            <4>3. QED
                BY <4>1, <4>2, Zenon
        <3>3. QED
            BY <2>6, <3>1, <3>2, Zenon DEF Grows
    <2>9. Keeps(E, x, y, s, t, e, M)
        <3>1. /\ Len(M) = (Len(x) - s) - Len(R)
              /\ \A i \in 1 .. Len(I) : I[i].index <= (((t + 1) + Len(M)) + i) - 1
              /\ \A K \in Seq(E), k \in Nat : Len(K) = s - k => Removes(K \o Rest(x, s), R, k, K \o M)
              /\ Inserts(Start(y, t + 1) \o M, I, y)
            BY <2>1, <2>2, Zenon DEF Keeps
        <3>2. Inserts(insert(Start(y, t) \o M, t, at(y, t)), I, y)
            BY <3>1, <1>InsertNext, Zenon
        <3>3. Inserts(Start(y, t) \o M, Q, y)
            BY <2>3, <3>2, <1>InsertsFirst, Zenon DEF Inserted
        <3> HIDE DEF Q
        <3>4. ASSUME NEW i \in 1 .. Len(Q) PROVE Q[i].index <= ((t + Len(M)) + i) - 1
            <4>1. CASE i = 1
                BY <2>3, <2>5, <4>1
            <4>2. CASE i # 1
                <5>1. i - 1 \in 1 .. Len(I) /\ i \in 2 .. Len(I) + 1
                    BY <2>5, <4>2
                <5>2. Q[i].index = I[i - 1].index /\ I[i - 1].index <= (((t + 1) + Len(M)) + (i - 1)) - 1
                    BY <2>5, <3>1, <5>1, Zenon
                <5>3. QED
                    BY <2>3, <2>7, <5>1, <5>2
            <4>3. QED
                BY <4>1, <4>2, Zenon
        <3>5. QED
            BY <2>6, <3>1, <3>3, <3>4, Zenon DEF Keeps
    <2>10. QED
        BY <2>6, <2>8, <2>9, Zenon DEF Good, e

(* An element that stays may be taken for the end of what comes before it, *)
(* or for the beginning of what comes after it.                            *)

<1> DEFINE Between(K, v, M) == (K \o << v >>) \o M = K \o (<< v >> \o M)
<1> HIDE DEF Between

<1> DEFINE BetweenStart(y, t, v, M) == Start(y, t + 1) \o M = Start(y, t) \o (<< v >> \o M)
<1> HIDE DEF BetweenStart

<1> DEFINE BetweenRest(K, v, x, s) == (K \o << v >>) \o Rest(x, s + 1) = K \o Rest(x, s)
<1> HIDE DEF BetweenRest

<1>KeptBehind.
      ASSUME NEW E, NEW K \in Seq(E), NEW v \in E, NEW M \in Seq(E)
      PROVE  Between(K, v, M)
    <2> USE <1>KeptBehind
    <2>1. PICK w \in Seq(E) : w = << v >>
        BY <1>Single, Zenon
    <2>2. (K \o w) \o M = K \o (w \o M)
        OBVIOUS
    <2>3. QED
        BY <2>1, <2>2, Zenon DEF Between

<1>KeptStart.
      ASSUME NEW E, NEW y \in Seq(E), NEW t \in 0 .. Len(y) - 1, NEW v, v = y[t + 1], NEW M \in Seq(E)
      PROVE  BetweenStart(y, t, v, M)
    <2> USE <1>KeptStart
    <2>1. v \in E /\ Start(y, t) \in Seq(E) /\ Start(y, t + 1) = Start(y, t) \o << v >>
        BY <1>StartParts
    <2>2. PICK r \in Seq(E) : r = Start(y, t)
        BY <2>1, Zenon
    <2>3. Between(r, v, M)
        BY <2>1, <1>KeptBehind, Zenon
    <2>4. QED
        BY <2>1, <2>2, <2>3, Zenon DEF BetweenStart, Between

<1>KeptRest.
      ASSUME NEW E, NEW x \in Seq(E), NEW s \in 0 .. Len(x) - 1, NEW v, v = x[s + 1], NEW K \in Seq(E)
      PROVE  BetweenRest(K, v, x, s)
    <2> USE <1>KeptRest
    <2>1. v \in E /\ Rest(x, s + 1) \in Seq(E) /\ Rest(x, s) = << v >> \o Rest(x, s + 1)
        BY <1>RestParts
    <2>2. PICK q \in Seq(E) : q = Rest(x, s + 1)
        BY <2>1, Zenon
    <2>3. Between(K, v, q)
        BY <2>1, <1>KeptBehind, Zenon
    <2>4. QED
        BY <2>1, <2>2, <2>3, Zenon DEF BetweenRest, Between

<1>EqualGood.
      ASSUME NEW E, NEW x \in Seq(E), NEW y \in Seq(E),
             NEW s \in 0 .. Len(x) - 1, NEW t \in 0 .. Len(y) - 1, at(x, s) = at(y, t),
             NEW d, Good(E, x, y, s + 1, t + 1, d)
      PROVE  Good(E, x, y, s, t, d)
    <2> USE <1>EqualGood
    <2>1. PICK M \in Seq(E) : Keeps(E, x, y, s + 1, t + 1, d, M)
        BY Zenon DEF Good
    <2>2. PICK R \in Seq(Nat), I \in Seq(Inserted(E)) :
              /\ R = d.remove_indexes /\ I = d.insert_indexes
        BY DEF Good, DiffsOf
    <2>3. PICK v \in E : v = at(x, s) /\ v = x[s + 1] /\ v = y[t + 1]
        BY DEF at
    <2>9. /\ Start(y, t + 1) \o M = Start(y, t) \o (<< v >> \o M)
          /\ \A K \in Seq(E) : (K \o << v >>) \o Rest(x, s + 1) = K \o Rest(x, s)
          /\ \A K \in Seq(E) : (K \o << v >>) \o M = K \o (<< v >> \o M)
        <3>1. Start(y, t + 1) \o M = Start(y, t) \o (<< v >> \o M)
            <4>1. BetweenStart(y, t, v, M)
                BY <2>3, <1>KeptStart, Zenon
            <4>2. QED
                BY <4>1, Zenon DEF BetweenStart
        <3>2. \A K \in Seq(E) : (K \o << v >>) \o Rest(x, s + 1) = K \o Rest(x, s)
            <4>1. \A K \in Seq(E) : BetweenRest(K, v, x, s)
                BY <2>3, <1>KeptRest, Zenon
            <4>2. QED
                BY <4>1, Zenon DEF BetweenRest
        <3>3. \A K \in Seq(E) : (K \o << v >>) \o M = K \o (<< v >> \o M)
            <4>1. \A K \in Seq(E) : Between(K, v, M)
                BY <1>KeptBehind, Zenon
            <4>2. QED
                BY <4>1, Zenon DEF Between
        <3>4. QED
            BY <3>1, <3>2, <3>3, Zenon
    <2> DEFINE N == << v >> \o M
    <2>4. N \in Seq(E) /\ Len(N) = Len(M) + 1
        BY <1>FirstIndex, Zenon
    <2>5. \A i \in 1 .. Len(I) : I[i].index \in Nat
        <3>1. \A i \in 1 .. Len(I) : I[i] \in Inserted(E)
            BY <1>ElementOfSeq
        <3>2. \A u \in Inserted(E) : u.index \in Nat
            BY DEF Inserted
        <3>3. QED
            BY <3>1, <3>2, Zenon
    <2>6. Grows(x, s, t, d)
        <3>1. /\ \A i \in 1 .. Len(R) : R[i] \in s + 1 .. Len(x) - 1 /\ (i > 1 => R[i] > R[i - 1])
              /\ \A i \in 1 .. Len(I) : I[i].index >= t + 1 /\ (i > 1 => I[i].index > I[i - 1].index)
            BY <2>2, Zenon DEF Good, Grows
        <3>2. \A i \in 1 .. Len(R) : R[i] \in s .. Len(x) - 1
            BY <3>1
        <3>3. \A i \in 1 .. Len(I) : I[i].index >= t
            BY <2>5, <3>1
        <3>4. QED
            BY <2>2, <3>1, <3>2, <3>3, Zenon DEF Grows
    <2>7. Keeps(E, x, y, s, t, d, N)
        <3>1. /\ Len(M) = (Len(x) - (s + 1)) - Len(R)
              /\ \A i \in 1 .. Len(I) : I[i].index <= (((t + 1) + Len(M)) + i) - 1
              /\ \A K \in Seq(E), k \in Nat : Len(K) = (s + 1) - k => Removes(K \o Rest(x, s + 1), R, k, K \o M)
              /\ Inserts(Start(y, t + 1) \o M, I, y)
            BY <2>1, <2>2, Zenon DEF Keeps
        <3>2. /\ Len(N) = (Len(x) - s) - Len(R)
              /\ \A i \in 1 .. Len(I) : I[i].index <= ((t + Len(N)) + i) - 1
            <4>1. PICK n : n = Len(N)
                BY Zenon
            <4>2. n = Len(M) + 1 /\ Len(M) \in Nat /\ Len(R) \in Nat /\ Len(x) \in Nat
                BY <2>4, <4>1
            <4>3. n = (Len(x) - s) - Len(R)
                BY <3>1, <4>2
            <4>4. ASSUME NEW i \in 1 .. Len(I)
                  PROVE  I[i].index <= ((t + n) + i) - 1
                <5>1. PICK j, m : j = I[i].index /\ m = Len(M)
                    BY Zenon
                <5>2. j \in Nat /\ m \in Nat /\ n = m + 1 /\ j <= (((t + 1) + m) + i) - 1
                    BY <2>5, <3>1, <4>2, <5>1, Zenon
                <5>3. i \in Nat
                    OBVIOUS
                <5>4. QED
                    BY <5>1, <5>2, <5>3
            <4>5. QED
                BY <4>1, <4>3, <4>4, Zenon
        <3>3. Start(y, t + 1) \o M = Start(y, t) \o N
            BY <2>9, Zenon
        <3>4. ASSUME NEW K \in Seq(E), NEW k \in Nat, Len(K) = s - k
              PROVE  Removes(K \o Rest(x, s), R, k, K \o N)
            <4>1. K \o << v >> \in Seq(E) /\ Len(K \o << v >>) = (s + 1) - k
                <5>1. K \o << v >> \in Seq(E) /\ Len(K \o << v >>) = Len(K) + 1
                    BY <1>Single, <1>ConcatProperties
                <5>2. QED
                    BY <3>4, <5>1
            <4>2. Removes((K \o << v >>) \o Rest(x, s + 1), R, k, (K \o << v >>) \o M)
                BY <3>1, <4>1, Zenon
            <4>3. (K \o << v >>) \o M = K \o N
                BY <2>9, Zenon
            <4>4. (K \o << v >>) \o Rest(x, s + 1) = K \o Rest(x, s)
                BY <2>9, Zenon
            <4>5. QED
                BY <4>2, <4>3, <4>4, Zenon
        <3> HIDE DEF N
        <3>5. QED
            BY <2>2, <3>1, <3>2, <3>3, <3>4, Zenon DEF Keeps
    <2>8. QED
        BY <2>4, <2>6, <2>7, Zenon DEF Good

<1>EndGood.
      ASSUME NEW E, NEW x \in Seq(E), NEW y \in Seq(E)
      PROVE  Good(E, x, y, Len(x), Len(y), [remove_indexes |-> << >>, insert_indexes |-> << >>])
    <2> USE <1>EndGood
    <2> DEFINE d == [remove_indexes |-> << >>, insert_indexes |-> << >>]
               none == << >>
    <2>1. d \in DiffsOf(E) /\ d.remove_indexes = none /\ d.insert_indexes = none
        BY DEF DiffsOf
    <2>2. Len(none) = 0 /\ 1 .. Len(none) = {} /\ none \in Seq(E)
        OBVIOUS
    <2> HIDE DEF d
    <2>3. Grows(x, Len(x), Len(y), d)
        BY <2>1, <2>2, Zenon DEF Grows
    <2>4. Keeps(E, x, y, Len(x), Len(y), d, none)
        <3>1. Len(none) = (Len(x) - Len(x)) - Len(none)
            <4>1. Len(x) \in Nat /\ 0 = (Len(x) - Len(x)) - 0
                OBVIOUS
            <4>2. QED
                BY <2>2, <4>1, Zenon
        <3>2. ASSUME NEW C, NEW k PROVE Removes(C, none, k, C) /\ Inserts(C, none, C)
            <4> DEFINE f == [i \in {0} |-> C]
            <4>1. f[0] = C
                OBVIOUS
            <4> HIDE DEF f
            <4>2. QED
                BY <2>2, <4>1, Zenon DEF Removes, Inserts
        <3>3. \A K \in Seq(E) : K \o Rest(x, Len(x)) = K \o none
            BY DEF Rest
        <3>4. Start(y, Len(y)) \o none = y
            BY DEF Start
        <3> HIDE DEF none
        <3>5. QED
            BY <2>1, <2>2, <3>1, <3>2, <3>3, <3>4, Zenon DEF Keeps
    <2>5. QED
        BY <2>1, <2>2, <2>3, <2>4, Zenon DEF Good, d

(* What the loop of diff does at positions s and t, when g says what it    *)
(* does further on; and what is left of both lists.                        *)

<1> DEFINE Todo(x, y, g, s, t) ==
               CASE s = Len(x) /\ t = Len(y) -> [remove_indexes |-> << >>, insert_indexes |-> << >>]
                 [] s < Len(x) /\ t = Len(y) -> removing(s, g[<< s + 1, t >>])
                 [] s = Len(x) /\ t < Len(y) -> inserting(t, at(y, t), g[<< s, t + 1 >>])
                 [] OTHER ->
                    CASE at(x, s) = at(y, t) -> g[<< s + 1, t + 1 >>]
                      [] /\ at(x, s) # at(y, t)
                         /\ \/ s = Len(x) - 1 /\ t = Len(y) - 1
                            \/ s + 1 < Len(x) /\ t + 1 < Len(y) /\ at(x, s + 1) = at(y, t + 1) ->
                            removing(s, inserting(t, at(y, t), g[<< s + 1, t + 1 >>]))
                      [] OTHER ->
                            IF t + 1 < Len(y) /\ at(x, s) = at(y, t + 1)
                            THEN inserting(t, at(y, t), g[<< s, t + 1 >>])
                            ELSE removing(s, g[<< s + 1, t >>])
<1> HIDE DEF Todo

<1> DEFINE Left(x, y, s, t) == (Len(x) - s) + (Len(y) - t)
<1> HIDE DEF Left

<1>LeftShrinks.
      ASSUME NEW E, NEW x \in Seq(E), NEW y \in Seq(E), NEW s \in 0 .. Len(x), NEW t \in 0 .. Len(y)
      PROVE  /\ Left(x, y, s, t) \in Nat
             /\ s < Len(x) => s + 1 \in 0 .. Len(x) /\ Left(x, y, s + 1, t) < Left(x, y, s, t)
             /\ t < Len(y) => t + 1 \in 0 .. Len(y) /\ Left(x, y, s, t + 1) < Left(x, y, s, t)
             /\ s < Len(x) /\ t < Len(y) => Left(x, y, s + 1, t + 1) < Left(x, y, s, t)
             /\ s # Len(x) => s < Len(x)
             /\ t # Len(y) => t < Len(y)
    BY <1>LeftShrinks DEF Left

(* Todo looks at g only further on. *)

<1>TodoLooksAhead.
      ASSUME NEW E, NEW x \in Seq(E), NEW y \in Seq(E), NEW s \in 0 .. Len(x), NEW t \in 0 .. Len(y), NEW g, NEW h,
             s < Len(x) => g[<< s + 1, t >>] = h[<< s + 1, t >>],
             t < Len(y) => g[<< s, t + 1 >>] = h[<< s, t + 1 >>],
             s < Len(x) /\ t < Len(y) => g[<< s + 1, t + 1 >>] = h[<< s + 1, t + 1 >>]
      PROVE  Todo(x, y, g, s, t) = Todo(x, y, h, s, t)
    <2> USE <1>TodoLooksAhead
    <2>1. /\ s # Len(x) => s < Len(x)
          /\ t # Len(y) => t < Len(y)
        BY <1>LeftShrinks, Zenon
    <2>2. CASE s = Len(x) /\ t = Len(y)
        <3>1. ~(s < Len(x)) /\ ~(t < Len(y))
            BY <2>2
        <3>2. QED
            BY <2>2, <3>1, Zenon DEF Todo
    <2>3. CASE s < Len(x) /\ t = Len(y)
        <3>1. s # Len(x)
            BY <2>3
        <3>2. QED
            BY <2>3, <3>1, Zenon DEF Todo
    <2>4. CASE s = Len(x) /\ t < Len(y)
        <3>1. t # Len(y)
            BY <2>4
        <3>2. QED
            BY <2>4, <3>1, Zenon DEF Todo
    <2>5. CASE s < Len(x) /\ t < Len(y)
        <3>1. s # Len(x) /\ t # Len(y)
            BY <2>5
        <3>2. g[<< s + 1, t >>] = h[<< s + 1, t >>] /\ g[<< s, t + 1 >>] = h[<< s, t + 1 >>] /\ g[<< s + 1, t + 1 >>] = h[<< s + 1, t + 1 >>]
            BY <2>5, Zenon
        <3>3. QED
            BY <3>1, <3>2, Zenon DEF Todo
    <2>6. QED
        BY <2>1, <2>2, <2>3, <2>4, <2>5, Zenon

<1> DEFINE Solves(x, y, m, g) ==
               \A s \in 0 .. Len(x), t \in 0 .. Len(y) : Left(x, y, s, t) < m => g[<< s, t >>] = Todo(x, y, g, s, t)
<1> HIDE DEF Solves

<1>LoopEnds.
      ASSUME NEW E, NEW x \in Seq(E), NEW y \in Seq(E), NEW m \in Nat
      PROVE  \E g : Solves(x, y, m, g)
    <2> USE <1>LoopEnds
    <2> DEFINE T == {n \in Nat : ~ \E g : Solves(x, y, n, g)}
    <2>1. SUFFICES ASSUME T # {} PROVE FALSE
        BY Zenon
    <2>2. PICK n \in T : \A k \in T : ~(k < n)
        BY <2>1, LeastNat, Zenon
    <2>3. n \in Nat /\ ~ \E g : Solves(x, y, n, g)
        BY Zenon
    <2>4. n # 0
        <3>1. ASSUME n = 0 PROVE \E g : Solves(x, y, n, g)
            <4>1. \A s \in 0 .. Len(x), t \in 0 .. Len(y) : ~(Left(x, y, s, t) < 0)
                BY <1>LeftShrinks
            <4>2. QED
                BY <3>1, <4>1, Zenon DEF Solves
        <3>2. QED
            BY <2>3, <3>1, Zenon
    <2>5. n - 1 \in Nat /\ n - 1 < n
        BY <2>3, <2>4
    <2>6. PICK g : Solves(x, y, n - 1, g)
        BY <2>2, <2>5, Zenon
    <2> DEFINE h == [p \in (0 .. Len(x)) \X (0 .. Len(y)) |->
                        IF Left(x, y, p[1], p[2]) < n - 1 THEN g[p] ELSE Todo(x, y, g, p[1], p[2])]
    <2>7. \A s \in 0 .. Len(x), t \in 0 .. Len(y) : h[<< s, t >>] = Todo(x, y, g, s, t)
        <3>1. ASSUME NEW s \in 0 .. Len(x), NEW t \in 0 .. Len(y)
              PROVE  h[<< s, t >>] = IF Left(x, y, s, t) < n - 1 THEN g[<< s, t >>] ELSE Todo(x, y, g, s, t)
            OBVIOUS
        <3> HIDE DEF h
        <3>2. QED
            BY <2>6, <3>1, Zenon DEF Solves
    <2>8. \A s \in 0 .. Len(x), t \in 0 .. Len(y) : Left(x, y, s, t) < n - 1 => h[<< s, t >>] = g[<< s, t >>]
        BY <2>6, <2>7, Zenon DEF Solves
    <2> HIDE DEF h
    <2>9. ASSUME NEW s \in 0 .. Len(x), NEW t \in 0 .. Len(y), Left(x, y, s, t) < n
          PROVE  h[<< s, t >>] = Todo(x, y, h, s, t)
        <3>1. ASSUME NEW i \in 0 .. Len(x), NEW j \in 0 .. Len(y), Left(x, y, i, j) < Left(x, y, s, t)
              PROVE  g[<< i, j >>] = h[<< i, j >>]
            <4>1. Left(x, y, i, j) \in Nat /\ Left(x, y, s, t) \in Nat
                BY <1>LeftShrinks
            <4>2. Left(x, y, i, j) < n - 1
                BY <2>3, <2>9, <3>1, <4>1
            <4>3. QED
                BY <2>8, <4>2, Zenon
        <3>2. /\ s < Len(x) => s + 1 \in 0 .. Len(x) /\ Left(x, y, s + 1, t) < Left(x, y, s, t)
              /\ t < Len(y) => t + 1 \in 0 .. Len(y) /\ Left(x, y, s, t + 1) < Left(x, y, s, t)
              /\ s < Len(x) /\ t < Len(y) => Left(x, y, s + 1, t + 1) < Left(x, y, s, t)
            BY <1>LeftShrinks
        <3>3. /\ s < Len(x) => g[<< s + 1, t >>] = h[<< s + 1, t >>]
              /\ t < Len(y) => g[<< s, t + 1 >>] = h[<< s, t + 1 >>]
              /\ s < Len(x) /\ t < Len(y) => g[<< s + 1, t + 1 >>] = h[<< s + 1, t + 1 >>]
            BY <3>1, <3>2, Zenon
        <3>4. Todo(x, y, g, s, t) = Todo(x, y, h, s, t)
            BY <3>3, <1>TodoLooksAhead, Zenon
        <3>5. QED
            BY <2>7, <3>4, Zenon
    <2>10. QED
        BY <2>3, <2>9, Zenon DEF Solves

<1>DiffIsLoop.
      ASSUME NEW E, NEW x \in Seq(E), NEW y \in Seq(E)
      PROVE  \E f : /\ diff(x, y) = f[<< 0, 0 >>]
                    /\ \A s \in 0 .. Len(x), t \in 0 .. Len(y) : f[<< s, t >>] = Todo(x, y, f, s, t)
    <2> USE <1>DiffIsLoop
    <2> DEFINE Fits(f) == f = [p \in (0 .. Len(x)) \X (0 .. Len(y)) |-> Todo(x, y, f, p[1], p[2])]
               step == CHOOSE f : Fits(f)
    <2>1. Left(x, y, 0, 0) + 1 \in Nat
        BY DEF Left
    <2>2. PICK g : Solves(x, y, Left(x, y, 0, 0) + 1, g)
        BY <2>1, <1>LoopEnds
    <2> DEFINE h == [p \in (0 .. Len(x)) \X (0 .. Len(y)) |-> g[p]]
    <2>3. \A s \in 0 .. Len(x), t \in 0 .. Len(y) : Left(x, y, s, t) < Left(x, y, 0, 0) + 1
        BY DEF Left
    <2>4. \A s \in 0 .. Len(x), t \in 0 .. Len(y) : h[<< s, t >>] = g[<< s, t >>]
        OBVIOUS
    <2>5. h = [p \in (0 .. Len(x)) \X (0 .. Len(y)) |-> h[p]]
        BY <2>4
    <2> HIDE DEF h
    <2>6. ASSUME NEW s \in 0 .. Len(x), NEW t \in 0 .. Len(y) PROVE h[<< s, t >>] = Todo(x, y, h, s, t)
        <3>1. g[<< s, t >>] = Todo(x, y, g, s, t)
            BY <2>2, <2>3, Zenon DEF Solves
        <3>2. /\ s < Len(x) => s + 1 \in 0 .. Len(x)
              /\ t < Len(y) => t + 1 \in 0 .. Len(y)
            BY <1>LeftShrinks
        <3>3. Todo(x, y, g, s, t) = Todo(x, y, h, s, t)
            BY <2>4, <3>2, <1>TodoLooksAhead, Zenon
        <3>4. QED
            BY <2>4, <3>1, <3>3, Zenon
    <2>7. Fits(h)
        <3>1. ASSUME NEW p \in (0 .. Len(x)) \X (0 .. Len(y))
              PROVE  p[1] \in 0 .. Len(x) /\ p[2] \in 0 .. Len(y) /\ p = << p[1], p[2] >>
            OBVIOUS
        <3>2. \A p \in (0 .. Len(x)) \X (0 .. Len(y)) : h[p] = Todo(x, y, h, p[1], p[2])
            BY <2>6, <3>1, Zenon
        <3>3. QED
            BY <2>5, <3>2, Zenon
    <2>8. Fits(step)
        BY <2>7, Zenon
    <2>9. diff(x, y) = step[<< 0, 0 >>]
        BY Zenon DEF diff, Todo
    <2> HIDE DEF step
    <2>10. \A s \in 0 .. Len(x), t \in 0 .. Len(y) : step[<< s, t >>] = Todo(x, y, step, s, t)
        BY <2>8
    <2>11. QED
        BY <2>9, <2>10, Zenon

<1>TodoGood.
      ASSUME NEW E, NEW x \in Seq(E), NEW y \in Seq(E), NEW s \in 0 .. Len(x), NEW t \in 0 .. Len(y), NEW f,
             s < Len(x) => Good(E, x, y, s + 1, t, f[<< s + 1, t >>]),
             t < Len(y) => Good(E, x, y, s, t + 1, f[<< s, t + 1 >>]),
             s < Len(x) /\ t < Len(y) => Good(E, x, y, s + 1, t + 1, f[<< s + 1, t + 1 >>])
      PROVE  Good(E, x, y, s, t, Todo(x, y, f, s, t))
    <2> USE <1>TodoGood
    <2>1. /\ s # Len(x) => s < Len(x)
          /\ t # Len(y) => t < Len(y)
          /\ s < Len(x) => s \in 0 .. Len(x) - 1 /\ s + 1 \in 0 .. Len(x) /\ s # Len(x)
          /\ t < Len(y) => t \in 0 .. Len(y) - 1 /\ t + 1 \in 0 .. Len(y) /\ t # Len(y)
          /\ s = Len(x) => ~(s < Len(x))
          /\ t = Len(y) => ~(t < Len(y))
        OBVIOUS
    <2>2. CASE s = Len(x) /\ t = Len(y)
        <3>1. Todo(x, y, f, s, t) = [remove_indexes |-> << >>, insert_indexes |-> << >>]
            BY <2>1, <2>2, Zenon DEF Todo
        <3>2. QED
            BY <2>2, <3>1, <1>EndGood, Zenon
    <2>3. ASSUME s < Len(x) PROVE Good(E, x, y, s, t, removing(s, f[<< s + 1, t >>]))
        BY <2>1, <2>3, <1>RemovingGood, Zenon
    <2>4. ASSUME t < Len(y) PROVE Good(E, x, y, s, t, inserting(t, at(y, t), f[<< s, t + 1 >>]))
        BY <2>1, <2>4, <1>InsertingGood, Zenon
    <2>5. CASE s < Len(x) /\ t = Len(y)
        <3>1. Todo(x, y, f, s, t) = removing(s, f[<< s + 1, t >>])
            BY <2>1, <2>5, Zenon DEF Todo
        <3>2. QED
            BY <2>3, <2>5, <3>1, Zenon
    <2>6. CASE s = Len(x) /\ t < Len(y)
        <3>1. Todo(x, y, f, s, t) = inserting(t, at(y, t), f[<< s, t + 1 >>])
            BY <2>1, <2>6, Zenon DEF Todo
        <3>2. QED
            BY <2>4, <2>6, <3>1, Zenon
    <2>7. CASE s < Len(x) /\ t < Len(y)
        <3>1. /\ s # Len(x) /\ t # Len(y)
              /\ s \in 0 .. Len(x) - 1 /\ t \in 0 .. Len(y) - 1
              /\ s + 1 \in 0 .. Len(x)
            BY <2>1, <2>7, Zenon
        <3>2. CASE at(x, s) = at(y, t)
            <4>1. Todo(x, y, f, s, t) = f[<< s + 1, t + 1 >>]
                BY <3>1, <3>2, Zenon DEF Todo
            <4>2. QED
                BY <2>7, <3>1, <3>2, <4>1, <1>EqualGood, ZenonT(40)
        <3> DEFINE replaced == \/ s = Len(x) - 1 /\ t = Len(y) - 1
                               \/ s + 1 < Len(x) /\ t + 1 < Len(y) /\ at(x, s + 1) = at(y, t + 1)
        <3>3. CASE at(x, s) # at(y, t) /\ replaced
            <4>1. Todo(x, y, f, s, t) = removing(s, inserting(t, at(y, t), f[<< s + 1, t + 1 >>]))
                BY <3>1, <3>3, Zenon DEF Todo
            <4>2. Good(E, x, y, s + 1, t, inserting(t, at(y, t), f[<< s + 1, t + 1 >>]))
                BY <2>7, <3>1, <1>InsertingGood, Zenon
            <4>3. t \in 0 .. Len(y)
                OBVIOUS
            <4>4. QED
                BY <3>1, <4>1, <4>2, <4>3, <1>RemovingGood, Zenon
        <3>4. CASE at(x, s) # at(y, t) /\ ~replaced
            <4>1. CASE t + 1 < Len(y) /\ at(x, s) = at(y, t + 1)
                <5>1. Todo(x, y, f, s, t) = inserting(t, at(y, t), f[<< s, t + 1 >>])
                    BY <3>1, <3>4, <4>1, Zenon DEF Todo
                <5>2. QED
                    BY <2>4, <2>7, <5>1, Zenon
            <4>2. CASE ~(t + 1 < Len(y) /\ at(x, s) = at(y, t + 1))
                <5>1. Todo(x, y, f, s, t) = removing(s, f[<< s + 1, t >>])
                    BY <3>1, <3>4, <4>2, Zenon DEF Todo
                <5>2. QED
                    BY <2>3, <2>7, <5>1, Zenon
            <4>3. QED
                BY <4>1, <4>2, Zenon
        <3>5. QED
            BY <3>2, <3>3, <3>4, Zenon
    <2>8. QED
        BY <2>1, <2>2, <2>5, <2>6, <2>7, Zenon

<1>DiffGood.
      ASSUME NEW E, NEW x \in Seq(E), NEW y \in Seq(E)
      PROVE  Good(E, x, y, 0, 0, diff(x, y))
    <2> USE <1>DiffGood
    <2>1. PICK f : /\ diff(x, y) = f[<< 0, 0 >>]
                   /\ \A s \in 0 .. Len(x), t \in 0 .. Len(y) : f[<< s, t >>] = Todo(x, y, f, s, t)
        BY <1>DiffIsLoop
    <2> DEFINE T == {n \in Nat : \E s \in 0 .. Len(x), t \in 0 .. Len(y) :
                        n = Left(x, y, s, t) /\ ~Good(E, x, y, s, t, f[<< s, t >>])}
    <2>2. T = {}
        <3>1. SUFFICES ASSUME T # {} PROVE FALSE
            BY Zenon
        <3>2. PICK n \in T : \A k \in T : ~(k < n)
            BY <3>1, LeastNat, Zenon
        <3>3. PICK s \in 0 .. Len(x), t \in 0 .. Len(y) : n = Left(x, y, s, t) /\ ~Good(E, x, y, s, t, f[<< s, t >>])
            BY <3>2, Zenon
        <3>4. \A i \in 0 .. Len(x), j \in 0 .. Len(y) : Left(x, y, i, j) \in Nat
            BY <1>LeftShrinks
        <3>5. /\ s < Len(x) => s + 1 \in 0 .. Len(x) /\ Left(x, y, s + 1, t) < Left(x, y, s, t)
              /\ t < Len(y) => t + 1 \in 0 .. Len(y) /\ Left(x, y, s, t + 1) < Left(x, y, s, t)
              /\ s < Len(x) /\ t < Len(y) => Left(x, y, s + 1, t + 1) < Left(x, y, s, t)
            BY <1>LeftShrinks
        <3>6. ASSUME NEW i \in 0 .. Len(x), NEW j \in 0 .. Len(y), Left(x, y, i, j) < Left(x, y, s, t)
              PROVE  Good(E, x, y, i, j, f[<< i, j >>])
            BY <3>2, <3>3, <3>4, <3>6, Zenon
        <3>7. Good(E, x, y, s, t, Todo(x, y, f, s, t))
            BY <3>5, <3>6, <1>TodoGood, Zenon
        <3>8. QED
            BY <2>1, <3>3, <3>7, Zenon
    <2>3. 0 \in 0 .. Len(x) /\ 0 \in 0 .. Len(y) /\ Left(x, y, 0, 0) \in Nat
        BY DEF Left
    <2>4. QED
        BY <2>1, <2>2, <2>3, Zenon
<1>RoundTrip.
      ASSUME NEW E, NEW x \in Seq(E), NEW y \in Seq(E)
      PROVE  applies(x, diff(x, y)) /\ apply_diff(x, diff(x, y)) = y
    <2>1. PICK d : d = diff(x, y) /\ Good(E, x, y, 0, 0, d)
        BY <1>DiffGood, Zenon
    <2>2. PICK M \in Seq(E) : Keeps(E, x, y, 0, 0, d, M)
        BY <2>1, Zenon DEF Good
    <2>3. PICK R \in Seq(Nat), I \in Seq(Inserted(E)) : R = d.remove_indexes /\ I = d.insert_indexes
        BY <2>1 DEF Good, DiffsOf
    <2>4. /\ Len(M) = (Len(x) - 0) - Len(R)
          /\ \A i \in 1 .. Len(I) : I[i].index <= ((0 + Len(M)) + i) - 1
          /\ \A K \in Seq(E), k \in Nat : Len(K) = 0 - k => Removes(K \o Rest(x, 0), R, k, K \o M)
          /\ Inserts(Start(y, 0) \o M, I, y)
        BY <2>2, <2>3, Zenon DEF Keeps
    <2>5. /\ \A i \in 1 .. Len(R) : R[i] \in 0 .. Len(x) - 1 /\ (i > 1 => R[i] > R[i - 1])
          /\ \A i \in 1 .. Len(I) : I[i].index >= 0 /\ (i > 1 => I[i].index > I[i - 1].index)
        BY <2>1, <2>3, Zenon DEF Good, Grows
    <2>6. applies(x, d)
        <3>1. \A i \in 1 .. Len(R) : R[i] < Len(x)
            BY <2>5
        <3>2. \A i \in 1 .. Len(I) : I[i].index \in Nat
            <4>1. \A i \in 1 .. Len(I) : I[i] \in Inserted(E)
                BY <1>ElementOfSeq
            <4>2. \A v \in Inserted(E) : v.index \in Nat
                BY DEF Inserted
            <4>3. QED
                BY <4>1, <4>2, Zenon
        <3>3. \A i \in 1 .. Len(I) : I[i].index <= Len(x) - Len(R) + i - 1
            BY <2>4, <3>2
        <3>4. QED
            BY <2>3, <2>5, <3>1, <3>3, Zenon DEF applies
    <2>7. removed(x, d, Len(R)) = M
        <3>1. PICK none \in Seq(E) : none = << >> /\ Len(none) = 0 - 0 /\ none \o x = x /\ none \o M = M
            <4>1. << >> \in Seq(E) /\ Len(<< >>) = 0 - 0 /\ << >> \o x = x /\ << >> \o M = M
                BY <1>ConcatEmptySeq
            <4>2. QED
                BY <4>1, Zenon
        <3>2. Rest(x, 0) = x
            BY <1>SubSeqFull DEF Rest
        <3>3. Removes(none \o Rest(x, 0), R, 0, none \o M)
            BY <2>4, <3>1, ZenonT(30)
        <3>4. Removes(x, d.remove_indexes, 0, M)
            BY <2>3, <3>1, <3>2, <3>3, Zenon
        <3>5. QED
            BY <2>3, <3>4, <1>RemovedIs, Zenon
    <2>8. inserted(M, d, Len(I)) = y
        <3>1. Start(y, 0) \o M = M
            <4>1. Start(y, 0) = << >>
                BY <1>SubSeqEmpty DEF Start
            <4>2. QED
                BY <4>1, <1>ConcatEmptySeq
        <3>2. Inserts(M, d.insert_indexes, y)
            BY <2>3, <2>4, <3>1, Zenon
        <3>3. QED
            BY <2>3, <3>2, <1>InsertedIs, Zenon DEF Inserted
    <2>9. QED
        BY <2>1, <2>3, <2>6, <2>7, <2>8, Zenon DEF apply_diff

<1> QED
    BY <1>RoundTrip, Zenon

(* So a policy, or a schedule, of the branch is what the header that       *)
(* proposes it carries as a difference from the one before.                *)
LEMMA DiffsAreUndone ==
    \A x \in AllLists, y \in Lists : applies(x, diff(x, y)) /\ apply_diff(x, diff(x, y)) = y
<1>1. SUFFICES ASSUME NEW x \in AllLists, NEW y \in Lists
               PROVE  applies(x, diff(x, y)) /\ apply_diff(x, diff(x, y)) = y
    BY Zenon
<1> DEFINE X == {x[i] : i \in DOMAIN x}
           Y == {y[i] : i \in DOMAIN y}
<1>2. x \in Seq(X) /\ y \in Seq(Y)
    BY ListsAssumption, Zenon DEF AllLists
<1>3. x \in Seq(X \cup Y) /\ y \in Seq(X \cup Y)
    <2> HIDE DEF X, Y
    <2>1. QED
        BY <1>2
<1>4. QED
    BY <1>3, DiffRoundTrip, Zenon

-----------------------------------------------------------------------------
LinkType == [source_block_num : Nat, target_block_num : Nat, is_link_strong : BOOLEAN]

Claims == [block_num : Nat, is_strong_qc : BOOLEAN]

(* The core of block number n, whose references are among Refs: links and  *)
(* references are numbered without gaps, up to n and to n - 1, a block     *)
(* claims an older one (the genesis block itself), the claims only grow,   *)
(* and the latest is not below the first link.                             *)
SoundCore(c, n, Refs) ==
    LET f == front_link(c).source_block_num
        l == last_final_block_num(c)
    IN  /\ c.links \in Seq(LinkType)
        /\ c.refs \in Seq(Refs)
        /\ f \in 1 .. n
        /\ l \in 1 .. f
        /\ Len(c.links) = (n - f) + 1
        /\ Len(c.refs) = n - l
        /\ \A i \in 1 .. Len(c.links) :
              /\ c.links[i].source_block_num = (f + i) - 1
              /\ c.links[i].target_block_num \in l .. c.links[i].source_block_num
              /\ c.links[i].target_block_num = c.links[i].source_block_num => c.links[i].source_block_num = 1
        /\ \A i, j \in 1 .. Len(c.links) :
              i <= j => c.links[i].target_block_num <= c.links[j].target_block_num
        /\ \A i \in 1 .. Len(c.refs) : c.refs[i].block_id.num = (l + i) - 1
        /\ latest_qc_claim(c).block_num \in f .. n

-----------------------------------------------------------------------------
(* The cores of the blocks *)

(* Dropping the first n elements of a vector leaves the others in order:   *)
(* the garbage collection of finality_core::next.                          *)
LEMMA DropFront ==
    ASSUME NEW S, NEW s \in Seq(S), NEW n \in 0 .. Len(s)
    PROVE  /\ drop_front(s, n) \in Seq(S)
           /\ Len(drop_front(s, n)) = Len(s) - n
           /\ \A i \in 1 .. Len(s) - n : drop_front(s, n)[i] = s[i + n]
BY DEF drop_front

(* The new first link and last final block are among the old ones. *)
LEMMA NewNumbers ==
    ASSUME NEW c, NEW n \in Nat, NEW Refs, SoundCore(c, n, Refs),
           NEW claim \in Claims, claim.block_num \in latest_qc_claim(c).block_num .. n
    PROVE  LET f   == front_link(c).source_block_num
               l   == last_final_block_num(c)
               new == get_new_block_numbers(c, claim)
           IN  /\ new.front_source \in f .. claim.block_num
               /\ new.last_final \in l .. new.front_source
               /\ c.links[(new.front_source - f) + 1].target_block_num = new.last_final
<1> DEFINE f   == front_link(c).source_block_num
           l   == last_final_block_num(c)
           new == get_new_block_numbers(c, claim)
           i   == (claim.block_num - f) + 1
<1>1. /\ f \in 1 .. n /\ l \in 1 .. f
      /\ Len(c.links) = (n - f) + 1
      /\ latest_qc_claim(c).block_num \in f .. n
      /\ \A j \in 1 .. Len(c.links) :
            /\ c.links[j].source_block_num = (f + j) - 1
            /\ c.links[j].target_block_num \in l .. c.links[j].source_block_num
    BY Zenon DEF SoundCore
<1>2. f \in Int /\ l \in Int /\ claim.block_num \in Int /\ claim.block_num \in f .. n
    BY <1>1
<1>3. CASE claim.is_strong_qc
    <2>1. i \in 1 .. Len(c.links) /\ (f + i) - 1 = claim.block_num
        BY <1>1, <1>2
    <2>2. c.links[i].source_block_num = claim.block_num /\ c.links[i].target_block_num \in l .. claim.block_num
        BY <1>1, <2>1, Zenon
    <2>3. new.front_source = c.links[i].source_block_num /\ new.last_final = c.links[i].target_block_num
        BY <1>3, Zenon DEF get_new_block_numbers, get_qc_link_from
    <2>4. QED
        BY <1>2, <2>2, <2>3
<1>4. CASE ~claim.is_strong_qc
    <2>1. new.front_source = f /\ new.last_final = l
        BY <1>4, Zenon DEF get_new_block_numbers
    <2>2. (f - f) + 1 = 1
        BY <1>2
    <2>3. c.links[1].target_block_num = l
        BY Zenon DEF last_final_block_num, front_link
    <2>4. QED
        BY <1>1, <1>2, <2>1, <2>2, <2>3, SMTT(30)
<1>5. QED
    BY <1>3, <1>4, Zenon

(* The links of the next core. *)
LEMMA NextLinks ==
    ASSUME NEW c, NEW n \in Nat, NEW Refs, SoundCore(c, n, Refs),
           NEW claim \in Claims, claim.block_num \in latest_qc_claim(c).block_num .. n
    PROVE  LET g     == get_new_block_numbers(c, claim).front_source
               links == next_links(c, claim)
           IN  /\ links \in Seq(LinkType)
               /\ Len(links) = (n - g) + 2
               /\ \A i \in 1 .. (n - g) + 1 : links[i] = c.links[i + (g - front_link(c).source_block_num)]
               /\ links[(n - g) + 2] = qc_link(n + 1, claim.block_num, claim.is_strong_qc)
<1> DEFINE f     == front_link(c).source_block_num
           g     == get_new_block_numbers(c, claim).front_source
           kept  == drop_front(c.links, g - f)
           last  == qc_link(current_block_num(c) + 1, claim.block_num, claim.is_strong_qc)
           links == next_links(c, claim)
<1>1. /\ f \in 1 .. n
      /\ c.links \in Seq(LinkType)
      /\ Len(c.links) = (n - f) + 1
      /\ latest_qc_claim(c).block_num \in f .. n
      /\ \A j \in 1 .. Len(c.links) : c.links[j].source_block_num = (f + j) - 1
    BY Zenon DEF SoundCore
<1>2. f \in Int /\ g \in f .. n /\ g \in Int
    <2>1. g \in f .. claim.block_num
        BY NewNumbers, Zenon
    <2>2. QED
        BY <1>1, <2>1
<1>3. current_block_num(c) = n
    <2>1. Len(c.links) \in 1 .. Len(c.links) /\ (f + Len(c.links)) - 1 = n
        <3>1. Len(c.links) = (n - f) + 1 /\ f \in 1 .. n
            BY <1>1, Zenon
        <3> HIDE DEF f
        <3>2. QED
            BY <3>1
    <2>2. QED
        BY <1>1, <2>1, Zenon DEF current_block_num, back_link
<1>4. links = Append(kept, last)
    BY Zenon DEF next_links
<1>5. g - f \in 0 .. Len(c.links)
    BY <1>1, <1>2
<1>6. /\ kept \in Seq(LinkType)
      /\ Len(kept) = Len(c.links) - (g - f)
      /\ \A i \in 1 .. Len(c.links) - (g - f) : kept[i] = c.links[i + (g - f)]
    BY <1>1, <1>5, DropFront, Zenon
<1>7. Len(c.links) - (g - f) = (n - g) + 1
    BY <1>1, <1>2
<1>8. last \in LinkType /\ last = qc_link(n + 1, claim.block_num, claim.is_strong_qc)
    BY <1>3 DEF LinkType, Claims, qc_link
<1> HIDE DEF kept, last, links, f, g
<1>9. /\ links \in Seq(LinkType) /\ Len(links) = (n - g) + 2
      /\ \A i \in 1 .. (n - g) + 1 : links[i] = kept[i]
      /\ links[(n - g) + 2] = last
    BY <1>2, <1>4, <1>6, <1>7, <1>8
<1>10. \A i \in 1 .. (n - g) + 1 : links[i] = c.links[i + (g - f)]
    BY <1>6, <1>7, <1>9, Zenon
<1>11. QED
    BY <1>8, <1>9, <1>10, Zenon DEF links, f, g

(* The references of block n are those of the blocks from m on. *)
RefsFrom(refs, Refs, m, n) ==
    /\ refs \in Seq(Refs)
    /\ Len(refs) = (n - m) + 1
    /\ \A i \in 1 .. Len(refs) : refs[i].block_id.num = (m + i) - 1

(* The references of the next core. *)
LEMMA NextRefs ==
    ASSUME NEW c, NEW n \in Nat, NEW Refs, SoundCore(c, n, Refs),
           NEW claim \in Claims, claim.block_num \in latest_qc_claim(c).block_num .. n,
           NEW ref, ref.block_id.num = n
    PROVE  RefsFrom(next_refs(c, ref, claim), Refs \cup {ref}, get_new_block_numbers(c, claim).last_final, n)
<1> DEFINE f    == front_link(c).source_block_num
           l    == last_final_block_num(c)
           m    == get_new_block_numbers(c, claim).last_final
           kept == drop_front(c.refs, m - l)
           refs == next_refs(c, ref, claim)
<1>1. /\ f \in 1 .. n /\ l \in 1 .. f
      /\ c.refs \in Seq(Refs)
      /\ Len(c.refs) = n - l
      /\ \A i \in 1 .. Len(c.refs) : c.refs[i].block_id.num = (l + i) - 1
    BY Zenon DEF SoundCore
<1>2. l \in Int /\ m \in l .. n /\ m \in Int
    <2>1. /\ get_new_block_numbers(c, claim).front_source \in f .. claim.block_num
          /\ m \in l .. get_new_block_numbers(c, claim).front_source
        BY NewNumbers, Zenon
    <2>2. f \in Int /\ l \in Int /\ claim.block_num \in Int /\ claim.block_num <= n
        BY <1>1 DEF SoundCore
    <2>3. QED
        BY <2>1, <2>2
<1>3. refs = Append(kept, ref)
    BY Zenon DEF next_refs
<1>4. m - l \in 0 .. Len(c.refs)
    BY <1>1, <1>2
<1>5. /\ kept \in Seq(Refs)
      /\ Len(kept) = n - m
      /\ \A i \in 1 .. n - m : kept[i] = c.refs[i + (m - l)]
    <2>1. Len(c.refs) - (m - l) = n - m
        BY <1>1, <1>2
    <2>2. /\ kept \in Seq(Refs)
          /\ Len(kept) = Len(c.refs) - (m - l)
          /\ \A i \in 1 .. Len(c.refs) - (m - l) : kept[i] = c.refs[i + (m - l)]
        BY <1>1, <1>4, DropFront, Zenon
    <2>3. QED
        BY <2>1, <2>2, Zenon
<1> HIDE DEF kept, refs, l, m, f
<1>6. ASSUME NEW i \in 1 .. n - m
      PROVE  kept[i].block_id.num = (m + i) - 1
    <2>1. i + (m - l) \in 1 .. Len(c.refs) /\ (l + (i + (m - l))) - 1 = (m + i) - 1
        BY <1>1, <1>2
    <2>2. QED
        BY <1>1, <1>5, <2>1, Zenon
<1>7. kept \in Seq(Refs \cup {ref})
    BY <1>5
<1>8. /\ refs \in Seq(Refs \cup {ref}) /\ Len(refs) = (n - m) + 1
      /\ \A i \in 1 .. n - m : refs[i] = kept[i]
      /\ refs[(n - m) + 1] = ref
    BY <1>2, <1>3, <1>5, <1>7
<1>9. ASSUME NEW i \in 1 .. Len(refs)
      PROVE  refs[i].block_id.num = (m + i) - 1
    <2>1. CASE i \in 1 .. n - m
        BY <1>6, <1>8, <2>1, Zenon
    <2>2. CASE i = (n - m) + 1
        <3>1. (m + i) - 1 = n
            BY <1>2, <2>2
        <3>2. QED
            BY <1>8, <2>2, <3>1, Zenon
    <2>3. i \in 1 .. n - m \/ i = (n - m) + 1
        BY <1>2, <1>8
    <2>4. QED
        BY <2>1, <2>2, <2>3, Zenon
<1>10. QED
    BY <1>8, <1>9, Zenon DEF refs, m, RefsFrom

(* Core d follows c, the core of block n, when a block with the given      *)
(* claim is added.                                                         *)
Follows(d, c, n, Refs, ref, claim) ==
    /\ SoundCore(d, n + 1, Refs \cup {ref})
    /\ latest_qc_claim(d).block_num = claim.block_num
    /\ last_final_block_num(d) \in last_final_block_num(c) .. claim.block_num
    /\ last_final_block_num(d) = get_new_block_numbers(c, claim).last_final

(* finality_core::next gives a sound core, whose latest claim is the one   *)
(* of the block.                                                           *)
LEMMA NextCore ==
    ASSUME NEW c, NEW n \in Nat, NEW Refs, SoundCore(c, n, Refs),
           NEW claim \in Claims, claim.block_num \in latest_qc_claim(c).block_num .. n,
           NEW ref, ref.block_id.num = n
    PROVE  Follows(next(c, ref, claim), c, n, Refs, ref, claim)
<1> DEFINE f == front_link(c).source_block_num
           l == last_final_block_num(c)
           g == get_new_block_numbers(c, claim).front_source
           m == get_new_block_numbers(c, claim).last_final
           d == next(c, ref, claim)
<1>1. d.links = next_links(c, claim) /\ d.refs = next_refs(c, ref, claim)
    BY Zenon DEF next
<1>2. /\ f \in 1 .. n /\ l \in 1 .. f
      /\ Len(c.links) = (n - f) + 1
      /\ latest_qc_claim(c).block_num \in f .. n
      /\ \A j \in 1 .. Len(c.links) :
            /\ c.links[j].source_block_num = (f + j) - 1
            /\ c.links[j].target_block_num \in l .. c.links[j].source_block_num
            /\ c.links[j].target_block_num = c.links[j].source_block_num => c.links[j].source_block_num = 1
      /\ \A i, j \in 1 .. Len(c.links) : i <= j => c.links[i].target_block_num <= c.links[j].target_block_num
    BY Zenon DEF SoundCore
<1>3. /\ g \in f .. claim.block_num /\ m \in l .. g
      /\ c.links[(g - f) + 1].target_block_num = m
    BY NewNumbers, Zenon
<1>4. f \in Int /\ l \in Int /\ g \in Int /\ m \in Int /\ claim.block_num \in Int /\ claim.block_num <= n
    BY <1>2, <1>3
<1>5. /\ d.links \in Seq(LinkType)
      /\ Len(d.links) = (n - g) + 2
      /\ \A i \in 1 .. (n - g) + 1 : d.links[i] = c.links[i + (g - f)]
      /\ d.links[(n - g) + 2] = qc_link(n + 1, claim.block_num, claim.is_strong_qc)
    <2>1. /\ next_links(c, claim) \in Seq(LinkType)
          /\ Len(next_links(c, claim)) = (n - g) + 2
          /\ \A i \in 1 .. (n - g) + 1 : next_links(c, claim)[i] = c.links[i + (g - f)]
          /\ next_links(c, claim)[(n - g) + 2] = qc_link(n + 1, claim.block_num, claim.is_strong_qc)
        BY NextLinks, Zenon
    <2> HIDE DEF d, f, g
    <2>2. QED
        BY <1>1, <2>1, Zenon
<1>6. /\ d.refs \in Seq(Refs \cup {ref})
      /\ Len(d.refs) = (n - m) + 1
      /\ \A i \in 1 .. Len(d.refs) : d.refs[i].block_id.num = (m + i) - 1
    <2> HIDE DEF m
    <2>1. RefsFrom(next_refs(c, ref, claim), Refs \cup {ref}, m, n)
        BY NextRefs, Zenon DEF m
    <2> HIDE DEF d
    <2>2. QED
        BY <1>1, <2>1, Zenon DEF RefsFrom
<1> HIDE DEF d, f, l, g, m
<1>7. front_link(d).source_block_num = g /\ last_final_block_num(d) = m
    <2>1. 1 \in 1 .. (n - g) + 1 /\ 1 + (g - f) = (g - f) + 1 /\ (g - f) + 1 \in 1 .. Len(c.links)
        BY <1>2, <1>3, <1>4
    <2>2. d.links[1] = c.links[(g - f) + 1]
        BY <1>5, <2>1, Zenon
    <2>3. (f + ((g - f) + 1)) - 1 = g
        BY <1>4
    <2>4. c.links[(g - f) + 1].source_block_num = g
        BY <1>2, <2>1, <2>3, Zenon
    <2>5. QED
        BY <1>3, <2>2, <2>4, Zenon DEF front_link, last_final_block_num
<1>8. latest_qc_claim(d).block_num = claim.block_num
    BY <1>5 DEF latest_qc_claim, back_link, qc_link, qc_claim_t
<1>9. ASSUME NEW i \in 1 .. Len(d.links)
      PROVE  /\ d.links[i].source_block_num = (g + i) - 1
             /\ d.links[i].target_block_num \in m .. d.links[i].source_block_num
             /\ d.links[i].target_block_num = d.links[i].source_block_num => d.links[i].source_block_num = 1
    <2>1. CASE i \in 1 .. (n - g) + 1
        <3>1. i + (g - f) \in 1 .. Len(c.links) /\ (f + (i + (g - f))) - 1 = (g + i) - 1
            BY <1>2, <1>3, <1>4, <2>1
        <3>2. (g - f) + 1 \in 1 .. Len(c.links) /\ (g - f) + 1 <= i + (g - f)
            BY <1>2, <1>3, <1>4, <2>1
        <3>3. d.links[i] = c.links[i + (g - f)]
            BY <1>5, <2>1, Zenon
        <3>4. /\ c.links[i + (g - f)].source_block_num = (g + i) - 1
              /\ c.links[i + (g - f)].target_block_num \in l .. (g + i) - 1
              /\ m <= c.links[i + (g - f)].target_block_num
              /\ c.links[i + (g - f)].target_block_num = (g + i) - 1 => (g + i) - 1 = 1
            BY <1>2, <1>3, <3>1, <3>2, Zenon
        <3>5. QED
            BY <1>4, <3>3, <3>4
    <2>2. CASE i = (n - g) + 2
        <3>1. d.links[i].source_block_num = n + 1 /\ d.links[i].target_block_num = claim.block_num
            BY <1>5, <2>2 DEF qc_link
        <3>2. (g + i) - 1 = n + 1 /\ claim.block_num \in m .. n + 1 /\ claim.block_num # n + 1
            BY <1>3, <1>4, <2>2, SMTT(30)
        <3>3. QED
            BY <3>1, <3>2, Zenon
    <2>3. i \in 1 .. (n - g) + 1 \/ i = (n - g) + 2
        BY <1>4, <1>5
    <2>4. QED
        BY <2>1, <2>2, <2>3, Zenon
<1>10. ASSUME NEW i \in 1 .. Len(d.links), NEW j \in 1 .. Len(d.links), i <= j
       PROVE  d.links[i].target_block_num <= d.links[j].target_block_num
    <2>1. CASE j \in 1 .. (n - g) + 1
        <3>1. /\ i \in 1 .. (n - g) + 1
              /\ i + (g - f) \in 1 .. Len(c.links) /\ j + (g - f) \in 1 .. Len(c.links)
              /\ i + (g - f) <= j + (g - f)
            BY <1>2, <1>3, <1>4, <1>5, <1>10, <2>1
        <3>2. d.links[i] = c.links[i + (g - f)] /\ d.links[j] = c.links[j + (g - f)]
            BY <1>5, <2>1, <3>1, Zenon
        <3>3. QED
            BY <1>2, <3>1, <3>2, Zenon
    <2>2. CASE j = (n - g) + 2 /\ i # j
        <3>a. /\ Len(d.links) = (n - g) + 2 /\ Len(c.links) = (n - f) + 1
              /\ f <= g /\ g <= n
            BY <1>2, <1>3, <1>4, <1>5
        <3>1. i \in 1 .. (n - g) + 1 /\ i + (g - f) \in 1 .. Len(c.links)
            BY <1>4, <3>a, <2>2, SMTT(30)
        <3>2. d.links[i] = c.links[i + (g - f)]
            BY <1>5, <3>1, Zenon
        <3>3. d.links[j].target_block_num = claim.block_num
            BY <1>5, <2>2 DEF qc_link
        <3>4. latest_qc_claim(c).block_num = c.links[Len(c.links)].target_block_num
            BY Zenon DEF latest_qc_claim, qc_claim_t, back_link
        <3>5. Len(c.links) \in 1 .. Len(c.links) /\ i + (g - f) <= Len(c.links)
            BY <3>1
        <3>6. c.links[i + (g - f)].target_block_num <= latest_qc_claim(c).block_num
            BY <1>2, <3>1, <3>4, <3>5, Zenon
        <3>b. (f + (i + (g - f))) - 1 \in Int
            BY <1>4, <3>1
        <3>7. c.links[i + (g - f)].target_block_num \in Int
            BY <1>2, <1>4, <3>1, <3>b
        <3>8. QED
            BY <1>2, <1>4, <3>2, <3>3, <3>6, <3>7, SMTT(30)
    <2>3. CASE i = j
        <3>1. d.links[i].target_block_num \in Int
            BY <1>4, <1>9
        <3>2. QED
            BY <2>3, <3>1
    <2>4. QED
        BY <1>5, <1>4, <2>1, <2>2, <2>3
<1>11. claim.block_num \in g .. n + 1 /\ claim.block_num < n + 1 /\ g \in 1 .. n + 1 /\ m \in 1 .. g
       /\ ((n + 1) - g) + 1 = (n - g) + 2 /\ (n + 1) - m = (n - m) + 1 /\ (n - m) + 1 > 0
    BY <1>2, <1>3, <1>4
<1>12. SoundCore(d, n + 1, Refs \cup {ref})
    BY <1>5, <1>6, <1>7, <1>8, <1>9, <1>10, <1>11, Zenon DEF SoundCore
<1>13. m \in l .. claim.block_num
    BY <1>2, <1>3, <1>4
<1>14. QED
    BY <1>7, <1>8, <1>12, <1>13, Zenon DEF d, l, m, Follows

(* The core of the genesis block: create_core_for_genesis_block. *)
LEMMA GenesisCore ==
    ASSUME NEW id, id.num = 1, NEW time
    PROVE  SoundCore(create_core_for_genesis_block(id, time), 1, {})
<1> DEFINE c == create_core_for_genesis_block(id, time)
<1>1. c.links = << qc_link(1, 1, FALSE) >> /\ c.refs = << >>
    BY Zenon DEF create_core_for_genesis_block, num_from_id
<1>2. PICK k \in LinkType : k = qc_link(1, 1, FALSE)
    <2>1. qc_link(1, 1, FALSE) \in LinkType
        BY Zenon DEF qc_link, LinkType
    <2>2. QED
        BY <2>1, Zenon
<1>3. k.source_block_num = 1 /\ k.target_block_num = 1
    BY <1>2, Zenon DEF qc_link
<1> HIDE DEF c
<1>4. c.links = << k >>
    BY <1>1, <1>2, Zenon
<1>5. Len(c.links) = 1 /\ c.links[1] = k /\ c.links \in Seq(LinkType)
    BY <1>4
<1>6. /\ front_link(c).source_block_num = 1 /\ last_final_block_num(c) = 1
      /\ latest_qc_claim(c).block_num = 1
    BY <1>3, <1>5, Zenon DEF front_link, last_final_block_num, latest_qc_claim, back_link, qc_claim_t
<1>7. SoundCore(c, 1, {})
    <2>1. c.refs \in Seq({}) /\ Len(c.refs) = 0
        BY <1>1
    <2>2. /\ front_link(c).source_block_num \in 1 .. 1
          /\ last_final_block_num(c) \in 1 .. front_link(c).source_block_num
          /\ latest_qc_claim(c).block_num \in front_link(c).source_block_num .. 1
          /\ Len(c.links) = (1 - front_link(c).source_block_num) + 1
          /\ Len(c.refs) = 1 - last_final_block_num(c)
        BY <1>5, <1>6, <2>1
    <2>3. \A i \in 1 .. Len(c.links) :
              /\ c.links[i].source_block_num = (front_link(c).source_block_num + i) - 1
              /\ c.links[i].target_block_num \in last_final_block_num(c) .. c.links[i].source_block_num
              /\ c.links[i].target_block_num = c.links[i].source_block_num => c.links[i].source_block_num = 1
        BY <1>3, <1>5, <1>6
    <2>4. \A i, j \in 1 .. Len(c.links) :
              i <= j => c.links[i].target_block_num <= c.links[j].target_block_num
        BY <1>3, <1>5
    <2>5. \A i \in 1 .. Len(c.refs) : c.refs[i].block_id.num = (last_final_block_num(c) + i) - 1
        BY <2>1
    <2>6. QED
        BY <1>1, <1>5, <2>1, <2>2, <2>3, <2>4, <2>5, Zenon DEF SoundCore
<1>8. QED
    BY <1>7, Zenon DEF c

(* A core refers to every block from the last final one to its parent: the *)
(* answer of get_block_reference is the one with the number asked for.     *)
LEMMA CoreReference ==
    ASSUME NEW c, NEW n \in Nat, NEW Refs, SoundCore(c, n, Refs),
           NEW num \in Nat, last_final_block_num(c) <= num, num < n
    PROVE  /\ get_block_reference(c, num) \in Refs
           /\ get_block_reference(c, num).block_id.num = num
<1> DEFINE l == last_final_block_num(c)
           i == (num - l) + 1
<1>1. /\ l \in Int
      /\ c.refs \in Seq(Refs) /\ Len(c.refs) = n - l
      /\ \A j \in 1 .. Len(c.refs) : c.refs[j].block_id.num = (l + j) - 1
    <2>1. l \in 1 .. front_link(c).source_block_num
        BY Zenon DEF SoundCore
    <2>2. l \in Int
        BY <2>1
    <2>3. /\ c.refs \in Seq(Refs) /\ Len(c.refs) = n - l
          /\ \A j \in 1 .. Len(c.refs) : c.refs[j].block_id.num = (l + j) - 1
        BY Zenon DEF SoundCore
    <2>4. QED
        BY <2>2, <2>3, Zenon
<1>2. get_block_reference(c, num) = c.refs[i]
    BY Zenon DEF get_block_reference
<1> HIDE DEF l
<1>3. i \in 1 .. Len(c.refs) /\ (l + i) - 1 = num
    BY <1>1 DEF l
<1>4. c.refs[i] \in Refs
    BY <1>1, <1>3
<1>5. QED
    BY <1>1, <1>2, <1>3, <1>4, Zenon

(* The numbers of the last final block and of the latest claim; only the   *)
(* genesis block is one for is_genesis_block_num.                          *)
LEMMA CoreNumbers ==
    ASSUME NEW c, NEW n \in Nat, NEW Refs, SoundCore(c, n, Refs)
    PROVE  /\ last_final_block_num(c) \in 1 .. n
           /\ latest_qc_claim(c).block_num \in last_final_block_num(c) .. n
           /\ n > 1 => latest_qc_claim(c).block_num < n
           /\ current_block_num(c) = n
           /\ is_genesis_core(c) <=> last_final_block_num(c) = n
           /\ \A num \in latest_qc_claim(c).block_num .. n : is_genesis_block_num(c, num) <=> num = 1
<1> DEFINE f == front_link(c).source_block_num
           l == last_final_block_num(c)
           q == latest_qc_claim(c).block_num
<1>1. /\ f \in 1 .. n /\ l \in 1 .. f
      /\ Len(c.links) = (n - f) + 1
      /\ q \in f .. n
      /\ \A j \in 1 .. Len(c.links) :
            /\ c.links[j].source_block_num = (f + j) - 1
            /\ c.links[j].target_block_num = c.links[j].source_block_num => c.links[j].source_block_num = 1
    BY Zenon DEF SoundCore
<1>2. l \in 1 .. n /\ q \in l .. n /\ f \in Int /\ l \in Int /\ q \in Int
    BY <1>1
<1>3. Len(c.links) \in 1 .. Len(c.links) /\ (f + Len(c.links)) - 1 = n /\ 1 \in 1 .. Len(c.links) /\ (f + 1) - 1 = f
    <2>1. Len(c.links) = (n - f) + 1 /\ f \in 1 .. n
        BY <1>1, Zenon
    <2> HIDE DEF f
    <2>2. QED
        BY <2>1
<1>4. current_block_num(c) = n
    BY <1>1, <1>3, Zenon DEF current_block_num, back_link
<1>5. n > 1 => q < n
    <2>1. q = c.links[Len(c.links)].target_block_num
        BY Zenon DEF latest_qc_claim, qc_claim_t, back_link
    <2>2. q = n => n = 1
        BY <1>1, <1>3, <2>1, Zenon
    <2> HIDE DEF q
    <2>3. QED
        BY <1>2, <2>2
<1>6. is_genesis_core(c) <=> l = n
    <2>1. c.refs \in Seq(Refs) /\ Len(c.refs) = n - l
        BY Zenon DEF SoundCore
    <2> HIDE DEF l
    <2>2. QED
        BY <1>2, <2>1 DEF is_genesis_core
<1>7. ASSUME NEW num \in q .. n
      PROVE  is_genesis_block_num(c, num) <=> num = 1
    <2>1. is_genesis_block_num(c, num) <=> f = l /\ f = num
        BY Zenon DEF is_genesis_block_num, last_final_block_num
    <2>2. f = l => f = 1
        BY <1>1, <1>3, Zenon DEF last_final_block_num, front_link
    <2> HIDE DEF f, l, q
    <2>3. num = 1 => f = l /\ f = num
        BY <1>1, <1>2
    <2>4. QED
        BY <2>1, <2>2, <2>3, Zenon
<1>8. QED
    BY <1>2, <1>4, <1>5, <1>6, <1>7, Zenon

-----------------------------------------------------------------------------
(* The inductive invariant *)

BlockRecords ==
    [timestamp : Nat, last_final : Nat, active : FinalizerPolicies, pending : InFlightPolicies \cup {nullptr},
     proposer : ProposerPolicies, finalizers : Lists \cup {nullptr}, producers : Lists \cup {nullptr}]

(* The history has a record for every block, the last for the head, and    *)
(* its timestamps increase.                                                *)
HistoryOK ==
    /\ kind \in Kinds
    /\ bhs.block_num \in Nat /\ bhs.block_num >= 1
    /\ bhs.timestamp \in Nat
    /\ history \in Seq(BlockRecords)
    /\ Len(history) = bhs.block_num
    /\ history[bhs.block_num].timestamp = bhs.timestamp
    /\ history[bhs.block_num].last_final = last_final_block_num(bhs.core)
    /\ history[bhs.block_num].active = bhs.active_finalizer_policy
    /\ history[bhs.block_num].pending = bhs.pending_finalizer_policy
    /\ history[bhs.block_num].proposer = bhs.active_proposer_policy
    /\ \A m, n \in Blocks : m < n => history[m].timestamp < history[n].timestamp

(* What a block reference says of block num of a history. *)
RefIn(hist, num) ==
    block_ref(id_of(num), hist[num].timestamp, hist[num].active.generation, generation_of(hist[num].pending))

(* The core refers to the blocks of the history. *)
CoreOK ==
    /\ SoundCore(bhs.core, bhs.block_num, {RefIn(history, n) : n \in 1 .. bhs.block_num - 1})
    /\ is_genesis_core(bhs.core) => bhs.core.genesis_timestamp = history[1].timestamp

(* The fields of the header state with policies. *)
PoliciesOK ==
    /\ bhs.active_finalizer_policy \in FinalizerPolicies
    /\ bhs.pending_finalizer_policy \in InFlightPolicies \cup {nullptr}
    /\ bhs.proposed_finalizer_policies \in Seq(InFlightPolicies)
    /\ bhs.latest_qc_claim_block_active_finalizer_policy \in FinalizerPolicies \cup {nullptr}
    /\ bhs.finalizer_policy_generation \in Nat
    /\ bhs.active_proposer_policy \in ProposerPolicies
    /\ bhs.latest_pending_proposer_policy \in ProposerPolicies \cup {nullptr}
    /\ bhs.latest_proposed_proposer_policy \in ProposerPolicies \cup {nullptr}

(* Generations and block numbers of the policies in flight increase. *)
InOrder ==
    LET proposed == bhs.proposed_finalizer_policies
    IN  /\ PoliciesInOrder
        /\ bhs.active_finalizer_policy.generation >= 1
        /\ \A i \in DOMAIN proposed : proposed[i].block_num <= bhs.block_num
        /\ \A i, j \in DOMAIN proposed :
              i < j => /\ proposed[i].block_num < proposed[j].block_num
                       /\ proposed[i].policy.generation < proposed[j].policy.generation
        /\ get_last_proposed_finalizer_policy(bhs).generation = bhs.finalizer_policy_generation

(* Since its block, a pending policy has been pending and the active one   *)
(* active.                                                                 *)
PendingSince ==
    bhs.pending_finalizer_policy # nullptr =>
        /\ bhs.pending_finalizer_policy.block_num \in Blocks
        /\ \A n \in bhs.pending_finalizer_policy.block_num .. bhs.block_num :
              /\ history[n].active = bhs.active_finalizer_policy
              /\ history[n].pending = bhs.pending_finalizer_policy

ClaimedOn == latest_qc_claim(bhs.core).block_num .. bhs.block_num

(* From the claimed block on, the active policy was the one kept and then  *)
(* the one that is active, and a pending one is still pending or active.   *)
ClaimsKept ==
    LET kept == bhs.latest_qc_claim_block_active_finalizer_policy
    IN  \A n \in ClaimedOn :
            /\ \/ /\ history[n].active = bhs.active_finalizer_policy
                  /\ \A m \in n .. bhs.block_num : history[m].active = bhs.active_finalizer_policy
               \/ /\ history[n].active = kept
                  /\ kept # nullptr
                  /\ kept.generation # bhs.active_finalizer_policy.generation
            /\ \/ history[n].pending = nullptr
               \/ history[n].pending = bhs.pending_finalizer_policy
               \/ history[n].pending.policy = bhs.active_finalizer_policy

(* Block q of the history proposed the list of finalizers. *)
Proposed(q, finalizers) == q \in Blocks /\ history[q].finalizers = finalizers

(* The policies in flight were proposed by blocks of the branch, and a     *)
(* pending one became so once such a block was final.                      *)
ProposalsOK ==
    LET proposed == bhs.proposed_finalizer_policies
        pending  == bhs.pending_finalizer_policy
    IN  /\ \A i \in DOMAIN proposed : Proposed(proposed[i].block_num, proposed[i].policy.finalizers)
        /\ pending # nullptr =>
              \E q \in Blocks : Proposed(q, pending.policy.finalizers) /\ q <= history[pending.block_num].last_final

Scheduled(policy) ==
    \E n \in Blocks : history[n].timestamp = policy.proposal_time /\ history[n].producers = policy.producers

(* The schedules in flight were proposed by blocks of the branch; versions *)
(* increase from the active to the pending to the proposed one, and one is *)
(* only pending in a later round than that of its proposal.                *)
SchedulesOK ==
    LET active   == bhs.active_proposer_policy
        pending  == bhs.latest_pending_proposer_policy
        proposed == bhs.latest_proposed_proposer_policy
    IN  /\ active.version >= 1
        /\ pending # nullptr => /\ Scheduled(pending)
                                /\ pending.version > active.version
                                /\ Round(pending.proposal_time) + 1 <= Round(bhs.timestamp)
        /\ proposed # nullptr => /\ Scheduled(proposed)
                                 /\ proposed.version > active.version
                                 /\ pending # nullptr => proposed.version > pending.version

(* The roots of the validation trees from the last final block on. *)
RootsOK ==
    LET lib == last_final_block_num(bhs.core)
    IN  /\ bhs.validation_mroots \in Seq(Nat)
        /\ Len(bhs.validation_mroots) = (bhs.block_num - lib) + 1
        /\ \A i \in 1 .. Len(bhs.validation_mroots) : bhs.validation_mroots[i] = (lib + i) - 1

IInv ==
    /\ HistoryOK
    /\ CoreOK
    /\ PoliciesOK
    /\ InOrder
    /\ PendingSince
    /\ ClaimsKept
    /\ ProposalsOK
    /\ LatestProposalKept
    /\ ActiveWasFinalTwice
    /\ SchedulesOK
    /\ ScheduleFixedInRound
    /\ ScheduleWasFinal
    /\ RootsOK

-----------------------------------------------------------------------------
(* Initial states and steps *)

(* A block is appended: time, claim and proposals are such that the        *)
(* controller accepts it.                                                  *)
Step(t, claim, finalizers, producers) ==
    /\ t \in Nat
    /\ t > bhs.timestamp
    /\ claim \in Claims
    /\ claim.block_num \in ClaimedOn
    /\ finalizers \in Lists \cup {nullptr}
    /\ producers \in Lists \cup {nullptr}
    /\ bhs' = finish_next(bhs, t, finality_extension(bhs, t, claim, finalizers, producers))
    /\ history' = Append(history, Recorded(bhs', finalizers, producers))
    /\ kind' = kind

(* A claim that passes verify_qc_claim is not older than the parent's. *)
LEMMA ClaimIsLegal ==
    ASSUME IInv, NEW claim \in LegalClaims
    PROVE  claim \in Claims /\ claim.block_num \in ClaimedOn
<1>1. /\ claim \in [block_num : GenesisNum .. bhs.block_num, is_strong_qc : BOOLEAN]
      /\ verify_qc_claim(claim, latest_qc_claim(bhs.core), bhs.block_num)
    BY Zenon DEF LegalClaims
<1>2. latest_qc_claim(bhs.core).block_num <= claim.block_num /\ claim.block_num <= bhs.block_num
      /\ claim.block_num \in GenesisNum .. bhs.block_num
    BY <1>1, Zenon DEF verify_qc_claim
<1>3. bhs.block_num \in Nat
    BY Zenon DEF IInv, HistoryOK
<1>4. latest_qc_claim(bhs.core).block_num \in Int
    <2>1. SoundCore(bhs.core, bhs.block_num, {RefIn(history, n) : n \in 1 .. bhs.block_num - 1})
        BY Zenon DEF IInv, CoreOK
    <2>2. PICK Refs : SoundCore(bhs.core, bhs.block_num, Refs)
        BY <2>1, Zenon
    <2>3. /\ last_final_block_num(bhs.core) \in 1 .. bhs.block_num
          /\ latest_qc_claim(bhs.core).block_num \in last_final_block_num(bhs.core) .. bhs.block_num
        BY <1>3, <2>2, CoreNumbers, Zenon
    <2>4. QED
        BY <1>3, <2>3
<1>5. claim \in Claims
    BY <1>1, <1>3 DEF Claims, GenesisNum
<1>6. QED
    BY <1>2, <1>3, <1>4, <1>5 DEF ClaimedOn, GenesisNum

(* Every step appends a block. *)
LEMMA StepIs ==
    ASSUME IInv, Next
    PROVE  \E t, claim, finalizers, producers : Step(t, claim, finalizers, producers)
<1>1. kind \in Kinds /\ bhs.timestamp \in Nat
    BY Zenon DEF IInv, HistoryOK
<1>2. kind.finalizers \subseteq Lists /\ kind.producers \subseteq Lists /\ kind.skips \in Nat
    BY <1>1, KindsAssumption, Zenon
<1>3. PICK gap \in 1 .. kind.skips + 1, claim \in LegalClaims,
           finalizers \in kind.finalizers \cup {None}, producers \in kind.producers \cup {None} :
        AppendBlock(gap, claim, finalizers, producers)
    BY Zenon DEF Next
<1> DEFINE t == bhs.timestamp + gap
<1>4. t \in Nat /\ t > bhs.timestamp
    BY <1>1, <1>2, <1>3
<1>5. finalizers \in Lists \cup {nullptr} /\ producers \in Lists \cup {nullptr}
    BY <1>2, <1>3, Zenon DEF None
<1>6. claim \in Claims /\ claim.block_num \in ClaimedOn
    BY <1>3, ClaimIsLegal, Zenon
<1>7. /\ bhs' = finish_next(bhs, t, finality_extension(bhs, t, claim, finalizers, producers))
      /\ history' = Append(history, Recorded(bhs', finalizers, producers))
      /\ kind' = kind
    BY <1>3, Zenon DEF AppendBlock
<1> HIDE DEF t
<1>8. Step(t, claim, finalizers, producers)
    BY <1>4, <1>5, <1>6, <1>7, Zenon DEF Step
<1>9. QED
    BY <1>8, Zenon

(* The fields of the next header state that need no difference: what       *)
(* finish_next assigns.                                                    *)
LEMMA StepFields ==
    ASSUME NEW t, NEW claim, NEW finalizers, NEW producers, Step(t, claim, finalizers, producers)
    PROVE  LET core     == next(bhs.core, make_block_ref(bhs), claim)
               lib      == last_final_block_num(core)
               policies == evaluate_finalizer_policies_for_promotion(bhs, lib, bhs.block_num + 1)
           IN  /\ bhs'.block_num = bhs.block_num + 1
               /\ bhs'.timestamp = t
               /\ bhs'.core = core
               /\ bhs'.active_finalizer_policy = policies.active
               /\ bhs'.pending_finalizer_policy = policies.pending
               /\ bhs'.latest_qc_claim_block_active_finalizer_policy = claim_block_policy(bhs, core, policies.active)
               /\ bhs'.validation_mroots = new_valid(bhs, core)
               /\ bhs'.active_proposer_policy = evaluate_proposer_policies_for_promotion(bhs, t).active
               /\ bhs'.latest_pending_proposer_policy = evaluate_proposer_policies_for_promotion(bhs, t).pending
<1> DEFINE ext == finality_extension(bhs, t, claim, finalizers, producers)
<1>1. bhs' = finish_next(bhs, t, ext)
    BY Zenon DEF Step
<1>2. ext.qc_claim = claim
    BY Zenon DEF finality_extension
<1> HIDE DEF ext
<1>3. QED
    BY <1>1, <1>2, Zenon DEF finish_next

(* The policies of a header state. *)
LEMMA LastPolicies ==
    ASSUME PoliciesOK
    PROVE  /\ get_last_proposed_finalizer_policy(bhs) \in FinalizerPolicies
           /\ get_last_pending_finalizer_policy(bhs) \in FinalizerPolicies
           /\ get_last_proposed_proposer_policy(bhs) \in ProposerPolicies
<1>1. get_last_pending_finalizer_policy(bhs) \in FinalizerPolicies
    BY Zenon DEF PoliciesOK, InFlightPolicies, get_last_pending_finalizer_policy
<1>2. get_last_proposed_finalizer_policy(bhs) \in FinalizerPolicies
    <2> DEFINE proposed == bhs.proposed_finalizer_policies
    <2>1. CASE proposed # << >>
        <3>1. proposed[Len(proposed)] \in InFlightPolicies
            BY <2>1 DEF PoliciesOK
        <3>2. proposed[Len(proposed)].policy \in FinalizerPolicies
            BY <3>1, Zenon DEF InFlightPolicies
        <3>3. QED
            BY <2>1, <3>2, Zenon DEF get_last_proposed_finalizer_policy
    <2>2. CASE proposed = << >>
        <3>1. get_last_proposed_finalizer_policy(bhs) = get_last_pending_finalizer_policy(bhs)
            BY <2>2, Zenon DEF get_last_proposed_finalizer_policy, get_last_pending_finalizer_policy
        <3>2. QED
            BY <1>1, <3>1, Zenon
    <2>3. QED
        BY <2>1, <2>2, Zenon
<1>3. get_last_proposed_proposer_policy(bhs) \in ProposerPolicies
    BY Zenon DEF PoliciesOK, get_last_proposed_proposer_policy
<1>4. QED
    BY <1>1, <1>2, <1>3, Zenon

(* The header only carries differences, but a proposed policy has the      *)
(* finalizers of the proposal and the next generation.                     *)
LEMMA StepProposes ==
    ASSUME PoliciesOK, NEW t, NEW claim, NEW finalizers, NEW producers, Step(t, claim, finalizers, producers)
    PROVE  LET left == proposed_left(bhs, last_final_block_num(bhs'.core))
           IN  /\ finalizers = nullptr =>
                     /\ bhs'.proposed_finalizer_policies = left
                     /\ bhs'.finalizer_policy_generation = bhs.finalizer_policy_generation
               /\ finalizers # nullptr =>
                     /\ bhs'.proposed_finalizer_policies =
                           Append(left, in_flight(bhs.block_num + 1,
                                                  finalizer_policy(bhs.finalizer_policy_generation + 1, finalizers)))
                     /\ bhs'.finalizer_policy_generation = bhs.finalizer_policy_generation + 1
<1> DEFINE ext  == finality_extension(bhs, t, claim, finalizers, producers)
           last == get_last_proposed_finalizer_policy(bhs)
           left == proposed_left(bhs, last_final_block_num(bhs'.core))
           d    == ext.new_finalizer_policy_diff
<1>1. bhs' = finish_next(bhs, t, ext)
    BY Zenon DEF Step
<1>2. ext.qc_claim = claim
    BY Zenon DEF finality_extension
<1>3. bhs'.core = next(bhs.core, make_block_ref(bhs), claim)
    BY StepFields, Zenon
<1>4. evaluate_finalizer_policies_for_promotion(bhs, last_final_block_num(bhs'.core), bhs.block_num + 1).proposed = left
    BY Zenon DEF evaluate_finalizer_policies_for_promotion
<1>5. CASE finalizers = nullptr
    <2>1. d = nullptr
        BY <1>5, Zenon DEF finality_extension
    <2> HIDE DEF ext, left
    <2>2. QED
        BY <1>1, <1>2, <1>3, <1>4, <1>5, <2>1, Zenon DEF finish_next, left
<1>6. CASE finalizers # nullptr
    <2>1. d = create_diff(last, finalizers, bhs.finalizer_policy_generation + 1)
        BY <1>6, Zenon DEF finality_extension
    <2>2. last.finalizers \in AllLists /\ finalizers \in Lists /\ bhs.finalizer_policy_generation \in Nat
        BY <1>6, LastPolicies, Zenon DEF FinalizerPolicies, Step, PoliciesOK
    <2>3. d \in [generation : Nat, finalizers_diff : Diffs]
        BY <2>1, <2>2 DEF create_diff, Diffs
    <2>4. d # nullptr
        BY <2>3, NullptrAssumption, Zenon
    <2>5. /\ d.generation = bhs.finalizer_policy_generation + 1
          /\ d.finalizers_diff = diff(last.finalizers, finalizers)
        BY <2>1 DEF create_diff
    <2>6. apply_finalizer_diff(last, d) = finalizer_policy(bhs.finalizer_policy_generation + 1, finalizers)
        BY <2>2, <2>5, DiffsAreUndone, Zenon DEF apply_finalizer_diff
    <2> HIDE DEF ext, left
    <2>7. /\ bhs'.proposed_finalizer_policies = Append(left, in_flight(bhs.block_num + 1, apply_finalizer_diff(last, d)))
          /\ bhs'.finalizer_policy_generation = d.generation
        BY <1>1, <1>2, <1>3, <1>4, <2>4, Zenon DEF finish_next, left
    <2>8. QED
        BY <1>6, <2>5, <2>6, <2>7, Zenon DEF left
<1>7. QED
    BY <1>5, <1>6, Zenon

(* The history only grows. *)
LEMMA HistoryGrows ==
    ASSUME HistoryOK, NEW t, NEW claim, NEW finalizers, NEW producers, Step(t, claim, finalizers, producers)
    PROVE  /\ bhs'.block_num = bhs.block_num + 1
           /\ Len(history') = bhs.block_num + 1
           /\ Blocks = 1 .. bhs.block_num
           /\ Blocks' = 1 .. bhs.block_num + 1
           /\ bhs.block_num \in Blocks
           /\ \A n \in Blocks : history'[n] = history[n]
           /\ history'[bhs.block_num + 1] = Recorded(bhs', finalizers, producers)
<1>1. history \in Seq(BlockRecords) /\ Len(history) = bhs.block_num /\ bhs.block_num \in Nat /\ bhs.block_num >= 1
    BY Zenon DEF HistoryOK
<1>2. PICK r : r = Recorded(bhs', finalizers, producers)
    BY Zenon
<1>3. history' = Append(history, r)
    BY <1>2, Zenon DEF Step
<1>4. /\ Len(history') = bhs.block_num + 1
      /\ \A n \in 1 .. bhs.block_num : history'[n] = history[n]
      /\ history'[bhs.block_num + 1] = r
    BY <1>1, <1>3
<1>5. bhs'.block_num = bhs.block_num + 1
    BY StepFields, Zenon
<1>6. Blocks = 1 .. bhs.block_num /\ Blocks' = 1 .. bhs.block_num + 1
    BY <1>1, <1>4, Zenon DEF Blocks
<1>7. bhs.block_num \in 1 .. bhs.block_num
    BY <1>1
<1>8. QED
    BY <1>2, <1>4, <1>5, <1>6, <1>7, Zenon

(* The numbers of a header state. *)
LEMMA HeadNumbers ==
    ASSUME HistoryOK, CoreOK
    PROVE  LET lib   == last_final_block_num(bhs.core)
               claim == latest_qc_claim(bhs.core).block_num
           IN  /\ bhs.block_num \in Nat /\ lib \in Nat /\ claim \in Nat
               /\ 1 <= lib /\ lib <= claim /\ claim <= bhs.block_num
               /\ bhs.block_num > 1 => claim < bhs.block_num
               /\ is_genesis_core(bhs.core) <=> lib = bhs.block_num
               /\ \A num \in ClaimedOn : is_genesis_block_num(bhs.core, num) <=> num = 1
               /\ \A num \in ClaimedOn : num \in Blocks
<1> DEFINE lib   == last_final_block_num(bhs.core)
           claim == latest_qc_claim(bhs.core).block_num
<1>1. bhs.block_num \in Nat /\ Blocks = 1 .. bhs.block_num
    BY Zenon DEF HistoryOK, Blocks
<1>2. PICK Refs : SoundCore(bhs.core, bhs.block_num, Refs)
    BY Zenon DEF CoreOK
<1>3. /\ lib \in 1 .. bhs.block_num
      /\ claim \in lib .. bhs.block_num
      /\ bhs.block_num > 1 => claim < bhs.block_num
      /\ is_genesis_core(bhs.core) <=> lib = bhs.block_num
      /\ \A num \in claim .. bhs.block_num : is_genesis_block_num(bhs.core, num) <=> num = 1
    BY <1>1, <1>2, CoreNumbers, Zenon
<1>4. ClaimedOn = claim .. bhs.block_num
    BY Zenon DEF ClaimedOn
<1> HIDE DEF lib, claim
<1>5. /\ lib \in Nat /\ claim \in Nat
      /\ 1 <= lib /\ lib <= claim /\ claim <= bhs.block_num
      /\ \A num \in claim .. bhs.block_num : num \in 1 .. bhs.block_num
    BY <1>1, <1>3
<1>6. QED
    BY <1>1, <1>3, <1>4, <1>5, Zenon DEF lib, claim

(* The next core refers to the blocks of the next history; last final      *)
(* block and claim only grow.                                              *)
LEMMA CoreGrows ==
    ASSUME HistoryOK, CoreOK, NEW t, NEW claim, NEW finalizers, NEW producers, Step(t, claim, finalizers, producers)
    PROVE  /\ CoreOK'
           /\ latest_qc_claim(bhs'.core).block_num = claim.block_num
           /\ last_final_block_num(bhs'.core) \in last_final_block_num(bhs.core) .. claim.block_num
           /\ last_final_block_num(bhs'.core) = get_new_block_numbers(bhs.core, claim).last_final
<1> DEFINE N    == bhs.block_num
           Refs == {RefIn(history, n) : n \in 1 .. N - 1}
           ref  == make_block_ref(bhs)
<1>1. N \in Nat /\ N >= 1
    BY Zenon DEF HistoryOK
<1>2. claim \in Claims /\ claim.block_num \in latest_qc_claim(bhs.core).block_num .. N
    BY Zenon DEF Step, ClaimedOn
<1>3. bhs'.core = next(bhs.core, ref, claim) /\ bhs'.block_num = N + 1
    BY StepFields, Zenon
<1>4. ref.block_id.num = N
    BY Zenon DEF make_block_ref, block_ref, id_of
<1>5. ref = RefIn(history, N)
    BY Zenon DEF HistoryOK, make_block_ref, RefIn
<1>6. SoundCore(bhs.core, N, Refs)
    BY Zenon DEF CoreOK
<1>7. Refs \cup {ref} = {RefIn(history', n) : n \in 1 .. N}
    <2>1. \A n \in 1 .. N : history'[n] = history[n]
        BY HistoryGrows, Zenon
    <2>2. \A n \in 1 .. N : RefIn(history', n) = RefIn(history, n)
        BY <2>1, Zenon DEF RefIn
    <2>3. \A n : n \in 1 .. N <=> n \in 1 .. N - 1 \/ n = N
        BY <1>1
    <2> HIDE DEF N, ref
    <2>4. \A r : r \in Refs \cup {ref} <=> \E n \in 1 .. N : r = RefIn(history, n)
        BY <1>5, <2>3, Zenon
    <2>5. \A r : r \in Refs \cup {ref} <=> r \in {RefIn(history', n) : n \in 1 .. N}
        BY <2>2, <2>4, Zenon
    <2>6. QED
        BY <2>5, Zenon
<1> HIDE DEF ref, Refs
<1>8. /\ SoundCore(bhs'.core, N + 1, Refs \cup {ref})
      /\ latest_qc_claim(bhs'.core).block_num = claim.block_num
      /\ last_final_block_num(bhs'.core) \in last_final_block_num(bhs.core) .. claim.block_num
      /\ last_final_block_num(bhs'.core) = get_new_block_numbers(bhs.core, claim).last_final
    <2> DEFINE c == bhs.core
               d == next(c, ref, claim)
    <2> HIDE DEF N, c
    <2>1. /\ SoundCore(c, N, Refs) /\ N \in Nat /\ claim \in Claims
          /\ claim.block_num \in latest_qc_claim(c).block_num .. N
        BY <1>1, <1>2, <1>6, Zenon DEF c
    <2>2. Follows(d, c, N, Refs, ref, claim)
        BY <1>4, <2>1, NextCore, Zenon
    <2>3. QED
        BY <1>3, <2>2, Zenon DEF c, Follows
<1>9. SoundCore(bhs'.core, bhs'.block_num, {RefIn(history', n) : n \in 1 .. bhs'.block_num - 1})
    <2>1. (N + 1) - 1 = N
        BY <1>1
    <2>2. QED
        BY <1>3, <1>7, <1>8, <2>1, Zenon
<1>10. ~is_genesis_core(bhs'.core)
    <2>1. N + 1 \in Nat /\ claim.block_num <= N
        BY <1>1, <1>2 DEF Claims
    <2>2. is_genesis_core(bhs'.core) <=> last_final_block_num(bhs'.core) = N + 1
        BY <1>8, <2>1, CoreNumbers, Zenon
    <2>3. last_final_block_num(bhs'.core) # N + 1
        <3>1. last_final_block_num(bhs.core) \in Nat
            BY HeadNumbers, Zenon
        <3>2. QED
            BY <1>1, <1>2, <1>8, <2>1, <3>1 DEF Claims
    <2>4. QED
        BY <2>2, <2>3, Zenon
<1>11. CoreOK'
    BY <1>9, <1>10, Zenon DEF CoreOK
<1>12. QED
    BY <1>8, <1>11, Zenon

(* get_block_reference answers with what the history says of the block.    *)
LEMMA Reference ==
    ASSUME NEW c, NEW n \in Nat, NEW hist,
           SoundCore(c, n, {RefIn(hist, k) : k \in 1 .. n - 1}),
           NEW num \in Nat, last_final_block_num(c) <= num, num < n
    PROVE  get_block_reference(c, num) = RefIn(hist, num)
<1>1. PICK Refs : Refs = {RefIn(hist, k) : k \in 1 .. n - 1}
    BY Zenon
<1>2. get_block_reference(c, num) \in Refs /\ get_block_reference(c, num).block_id.num = num
    BY <1>1, CoreReference, Zenon
<1>3. PICK k \in 1 .. n - 1 : get_block_reference(c, num) = RefIn(hist, k)
    BY <1>1, <1>2, Zenon
<1>4. RefIn(hist, k).block_id.num = k
    BY Zenon DEF RefIn, block_ref, id_of
<1>5. QED
    BY <1>2, <1>3, <1>4, Zenon

(* The block itself is not in its core, but is answered for all the same.  *)
LEMMA ReferenceAt ==
    ASSUME HistoryOK, CoreOK,
           NEW num \in Nat, last_final_block_num(bhs.core) <= num, num <= bhs.block_num
    PROVE  ref_at(bhs, num) = RefIn(history, num)
<1>1. bhs.block_num \in Nat
    BY Zenon DEF HistoryOK
<1>2. CASE num = bhs.block_num
    BY <1>2, Zenon DEF ref_at, make_block_ref, RefIn, HistoryOK
<1>3. CASE num # bhs.block_num
    <2>1. num < bhs.block_num
        BY <1>1, <1>3
    <2>2. ref_at(bhs, num) = get_block_reference(bhs.core, num)
        BY <1>3, Zenon DEF ref_at
    <2>3. SoundCore(bhs.core, bhs.block_num, {RefIn(history, n) : n \in 1 .. bhs.block_num - 1})
        BY Zenon DEF CoreOK
    <2>4. QED
        BY <1>1, <2>1, <2>2, <2>3, Reference, Zenon
<1>4. QED
    BY <1>2, <1>3, Zenon

(* The policies of the blocks that can still be claimed are found.         *)
LEMMA Retrieved ==
    ASSUME HistoryOK, CoreOK, PoliciesOK, InOrder, ClaimsKept, NEW num \in ClaimedOn
    PROVE  LET ref == RefIn(history, num)
               was == history[num]
           IN  /\ ~get_finalizer_policies_throws(bhs, ref)
               /\ get_finalizer_policies(bhs, ref).active_finalizer_policy = was.active
               /\ get_finalizer_policies(bhs, ref).pending_finalizer_policy =
                     IF was.pending = nullptr THEN nullptr ELSE was.pending.policy
<1> DEFINE ref  == RefIn(history, num)
           was  == history[num]
           A    == bhs.active_finalizer_policy
           P    == bhs.pending_finalizer_policy
           kept == bhs.latest_qc_claim_block_active_finalizer_policy
           got  == get_finalizer_policies(bhs, ref)
<1>1. /\ ref.active_policy_generation = was.active.generation
      /\ ref.pending_policy_generation = generation_of(was.pending)
    BY Zenon DEF RefIn, block_ref
<1>2. num \in Blocks
    BY HeadNumbers, Zenon
<1>3. /\ was.active = A \/ (was.active = kept /\ kept # nullptr /\ kept.generation # A.generation)
      /\ was.pending = nullptr \/ was.pending = P \/ was.pending.policy = A
    BY Zenon DEF ClaimsKept
<1>4. A \in FinalizerPolicies /\ P \in InFlightPolicies \cup {nullptr}
    BY Zenon DEF PoliciesOK
<1>5. A.generation >= 1 /\ (P # nullptr => P.policy.generation > A.generation)
    BY Zenon DEF InOrder, PoliciesInOrder, None
<1> HIDE DEF ref, was, A, P, kept
<1>6. got.active_finalizer_policy = was.active
    <2>1. got.active_finalizer_policy = IF A.generation = ref.active_policy_generation THEN A ELSE kept
        BY Zenon DEF get_finalizer_policies, A, kept
    <2>2. QED
        BY <1>1, <1>3, <2>1, Zenon
<1>7. ~(A.generation # ref.active_policy_generation /\ ~(kept # nullptr /\ kept.generation = ref.active_policy_generation))
    BY <1>1, <1>3, Zenon
<1>8. A.generation \in Nat /\ (P # nullptr => P.policy.generation \in Nat)
    BY <1>4, Zenon DEF FinalizerPolicies, InFlightPolicies
<1>9. CASE was.pending = nullptr
    <2>1. ref.pending_policy_generation = 0
        BY <1>1, <1>9, Zenon DEF generation_of
    <2>2. A.generation # 0
        BY <1>5, <1>8
    <2>3. got.pending_finalizer_policy = nullptr
        BY <2>1, <2>2, Zenon DEF get_finalizer_policies, A
    <2>4. QED
        BY <1>6, <1>7, <1>9, <2>1, <2>3, Zenon DEF get_finalizer_policies_throws, A, kept, was, ref
<1>10. CASE was.pending # nullptr /\ was.pending.policy = A
    <2>1. ref.pending_policy_generation = A.generation
        BY <1>1, <1>10, Zenon DEF generation_of
    <2>2. A.generation # 0
        BY <1>5, <1>8
    <2>3. got.pending_finalizer_policy = A
        BY <2>1, <2>2, Zenon DEF get_finalizer_policies, A
    <2>4. QED
        BY <1>6, <1>7, <1>10, <2>1, <2>3, Zenon DEF get_finalizer_policies_throws, A, kept, was, ref
<1>11. CASE was.pending # nullptr /\ was.pending = P
    <2>1. ref.pending_policy_generation = P.policy.generation /\ generation_of(P) = P.policy.generation
        BY <1>1, <1>11, Zenon DEF generation_of
    <2>2. P.policy.generation # 0 /\ P.policy.generation # A.generation
        BY <1>5, <1>8, <1>11
    <2>3. got.pending_finalizer_policy = P.policy
        BY <2>1, <2>2, Zenon DEF get_finalizer_policies, A, P
    <2>4. QED
        BY <1>6, <1>7, <1>11, <2>1, <2>3, Zenon DEF get_finalizer_policies_throws, A, P, kept, was, ref
<1>12. QED
    BY <1>3, <1>9, <1>10, <1>11, Zenon

-----------------------------------------------------------------------------
(* Finalizer policies *)

(* The policies up to the target are the ones proposed in final blocks.    *)
LEMMA TargetIs ==
    ASSUME PoliciesOK, InOrder, NEW lib \in Nat
    PROVE  LET proposed == bhs.proposed_finalizer_policies
           IN  /\ target(bhs, lib) \in 0 .. Len(proposed)
               /\ \A i \in 1 .. Len(proposed) : i <= target(bhs, lib) <=> proposed[i].block_num <= lib
<1> DEFINE proposed   == bhs.proposed_finalizer_policies
           L          == Len(proposed)
           reversible == {i \in DOMAIN proposed : proposed[i].block_num > lib}
           S          == reversible \cup {L + 1}
           first      == first_reversible(proposed, lib)
<1>1. proposed \in Seq(InFlightPolicies) /\ L \in Nat /\ DOMAIN proposed = 1 .. L
    BY DEF PoliciesOK
<1>2. \A i \in 1 .. L : proposed[i].block_num \in Nat
    <2> HIDE DEF proposed
    <2>1. \A i \in 1 .. L : proposed[i] \in InFlightPolicies
        BY <1>1
    <2>2. \A p \in InFlightPolicies : p.block_num \in Nat
        BY Zenon DEF InFlightPolicies
    <2>3. QED
        BY <2>1, <2>2, Zenon
<1>3. \A i, j \in 1 .. L : i < j => proposed[i].block_num < proposed[j].block_num
    <2>1. \A i, j \in DOMAIN proposed : i < j => proposed[i].block_num < proposed[j].block_num
        BY Zenon DEF InOrder
    <2> HIDE DEF proposed
    <2>2. QED
        BY <1>1, <2>1, Zenon
<1> HIDE DEF proposed
<1>4. \A i : i \in reversible <=> i \in 1 .. L /\ proposed[i].block_num > lib
    BY <1>1, Zenon
<1>5. S \subseteq Nat /\ S # {} /\ \A i \in reversible : i \in 1 .. L
    <2>1. L + 1 \in Nat /\ \A i \in 1 .. L : i \in Nat
        BY <1>1
    <2>2. QED
        BY <1>4, <2>1, Zenon
<1> HIDE DEF reversible, L
<1>6. PICK x \in S : \A y \in S : ~(y < x)
    BY <1>5, LeastNat, Zenon
<1>7. \A y \in reversible : x <= y
    BY <1>1, <1>5, <1>6
<1>8. first = CHOOSE i \in S : \A j \in reversible : i <= j
    BY Zenon DEF first_reversible, reversible, L
<1>9. first \in S /\ \A j \in reversible : first <= j
    <2>1. \E i \in S : \A j \in reversible : i <= j
        BY <1>7, <1>6, Zenon
    <2>2. QED
        BY <1>8, <2>1, Zenon
<1> HIDE DEF first
<1>10. first \in 1 .. L + 1
    BY <1>1, <1>5, <1>9
<1>11. target(bhs, lib) = first - 1
    BY Zenon DEF target, first, proposed
<1>12. ASSUME NEW i \in 1 .. L
       PROVE  i <= first - 1 <=> proposed[i].block_num <= lib
    <2>0. i \in Nat /\ first \in Nat /\ proposed[i].block_num \in Nat
        BY <1>2, <1>10
    <2>1. CASE i < first
        <3>1. i \notin reversible
            BY <1>9, <2>0, <2>1
        <3>2. ~(proposed[i].block_num > lib)
            BY <1>4, <3>1, Zenon
        <3>3. QED
            BY <2>0, <2>1, <3>2
    <2>2. CASE first <= i
        <3>1. first \in 1 .. L /\ first # L + 1
            BY <1>1, <1>10, <2>0, <2>2
        <3>2. proposed[first].block_num > lib
            BY <1>4, <1>9, <3>1, Zenon
        <3>3. proposed[first].block_num <= proposed[i].block_num
            <4>1. CASE first = i
                BY <2>0, <4>1
            <4>2. CASE first < i
                <5>1. proposed[first].block_num < proposed[i].block_num
                    BY <1>3, <3>1, <4>2, Zenon
                <5>2. QED
                    BY <1>2, <2>0, <3>1, <5>1
            <4>3. QED
                BY <2>0, <2>2, <4>1, <4>2
        <3>4. QED
            BY <1>2, <2>0, <2>2, <3>1, <3>2, <3>3
    <2>3. QED
        BY <2>0, <2>1, <2>2
<1>13. first - 1 \in 0 .. L
    BY <1>1, <1>10
<1>14. QED
    BY <1>11, <1>12, <1>13, Zenon DEF L, proposed

(* A sequence without its first s elements. *)
Without(left, seq, s) ==
    /\ s \in 0 .. Len(seq)
    /\ left \in Seq(InFlightPolicies)
    /\ Len(left) = Len(seq) - s
    /\ \A i \in 1 .. Len(left) : left[i] = seq[i + s]

(* What a step does with the policies: k of the proposed ones are final,   *)
(* s of them go, and left are left.  Either the pending slot stays taken,  *)
(* or the last pending policy is active and the last of the k pending.     *)
PromotedTo(k, s, left) ==
    LET proposed == bhs.proposed_finalizer_policies
        P        == bhs.pending_finalizer_policy
        lib      == last_final_block_num(bhs'.core)
    IN  /\ k \in 0 .. Len(proposed)
        /\ \A i \in 1 .. Len(proposed) : i <= k <=> proposed[i].block_num <= lib
        /\ Without(left, proposed, s)
        /\ \/ /\ P # nullptr /\ P.block_num > lib
              /\ bhs'.active_finalizer_policy = bhs.active_finalizer_policy
              /\ bhs'.pending_finalizer_policy = P
              /\ s = IF k = 0 THEN 0 ELSE k - 1
           \/ /\ P # nullptr => P.block_num <= lib
              /\ bhs'.active_finalizer_policy = get_last_pending_finalizer_policy(bhs)
              /\ s = k
              /\ k = 0 => bhs'.pending_finalizer_policy = nullptr
              /\ k # 0 => bhs'.pending_finalizer_policy = in_flight(bhs.block_num + 1, proposed[k].policy)

(* The fields of policies. *)
LEMMA PolicyFields ==
    /\ \A p \in FinalizerPolicies : p.generation \in Nat /\ p.finalizers \in AllLists /\ p # nullptr
    /\ \A p \in InFlightPolicies :
          /\ p.block_num \in Nat /\ p.policy \in FinalizerPolicies /\ p.policy.generation \in Nat /\ p # nullptr
    /\ \A p \in ProposerPolicies :
          /\ p.proposal_time \in Nat /\ p.version \in Nat /\ p.producers \in AllLists /\ p # nullptr
    /\ \A gen \in Nat, l \in AllLists : finalizer_policy(gen, l) \in FinalizerPolicies
    /\ \A num \in Nat, p \in FinalizerPolicies :
          /\ in_flight(num, p) \in InFlightPolicies
          /\ in_flight(num, p).block_num = num /\ in_flight(num, p).policy = p
    /\ \A time \in Nat, version \in Nat, l \in AllLists : proposer_policy(time, version, l) \in ProposerPolicies
<1>1. \A p \in FinalizerPolicies : p.generation \in Nat /\ p.finalizers \in AllLists /\ p # nullptr
    <2>1. \A p \in FinalizerPolicies : p.generation \in Nat /\ p.finalizers \in AllLists
        BY Zenon DEF FinalizerPolicies
    <2>2. QED
        BY <2>1, NullptrAssumption, Zenon
<1>2. \A p \in InFlightPolicies :
          /\ p.block_num \in Nat /\ p.policy \in FinalizerPolicies /\ p.policy.generation \in Nat /\ p # nullptr
    <2>1. \A p \in InFlightPolicies : p.block_num \in Nat /\ p.policy \in FinalizerPolicies
        BY Zenon DEF InFlightPolicies
    <2>2. QED
        BY <1>1, <2>1, NullptrAssumption, Zenon
<1>3. \A p \in ProposerPolicies :
          /\ p.proposal_time \in Nat /\ p.version \in Nat /\ p.producers \in AllLists /\ p # nullptr
    <2>1. \A p \in ProposerPolicies : p.proposal_time \in Nat /\ p.version \in Nat /\ p.producers \in AllLists
        BY Zenon DEF ProposerPolicies
    <2>2. QED
        BY <2>1, NullptrAssumption, Zenon
<1>4. \A gen \in Nat, l \in AllLists : finalizer_policy(gen, l) \in FinalizerPolicies
    BY Zenon DEF finalizer_policy, FinalizerPolicies
<1>5. \A num \in Nat, p \in FinalizerPolicies :
          /\ in_flight(num, p) \in InFlightPolicies
          /\ in_flight(num, p).block_num = num /\ in_flight(num, p).policy = p
    BY Zenon DEF in_flight, InFlightPolicies
<1>6. \A time \in Nat, version \in Nat, l \in AllLists : proposer_policy(time, version, l) \in ProposerPolicies
    BY Zenon DEF proposer_policy, ProposerPolicies
<1>7. QED
    BY <1>1, <1>2, <1>3, <1>4, <1>5, <1>6, Zenon

(* The proposed policies. *)
LEMMA ProposedFields ==
    ASSUME PoliciesOK
    PROVE  LET proposed == bhs.proposed_finalizer_policies
           IN  /\ Len(proposed) \in Nat
               /\ DOMAIN proposed = 1 .. Len(proposed)
               /\ \A i \in 1 .. Len(proposed) :
                     /\ proposed[i] \in InFlightPolicies
                     /\ proposed[i].block_num \in Nat
                     /\ proposed[i].policy \in FinalizerPolicies
                     /\ proposed[i].policy.generation \in Nat
<1> DEFINE proposed == bhs.proposed_finalizer_policies
<1>1. proposed \in Seq(InFlightPolicies)
    BY Zenon DEF PoliciesOK
<1> HIDE DEF proposed
<1>2. Len(proposed) \in Nat /\ DOMAIN proposed = 1 .. Len(proposed) /\ \A i \in 1 .. Len(proposed) : proposed[i] \in InFlightPolicies
    BY <1>1
<1>3. QED
    BY <1>2, PolicyFields, Zenon DEF proposed

(* evaluate_finalizer_policies_for_promotion, in terms of the policies.    *)
LEMMA Promotes ==
    ASSUME HistoryOK, CoreOK, PoliciesOK, InOrder,
           NEW t, NEW claim, NEW finalizers, NEW producers, Step(t, claim, finalizers, producers)
    PROVE  \E k, s : PromotedTo(k, s, proposed_left(bhs, last_final_block_num(bhs'.core)))
<1> DEFINE lib      == last_final_block_num(bhs'.core)
           proposed == bhs.proposed_finalizer_policies
           P        == bhs.pending_finalizer_policy
           L        == Len(proposed)
           k        == target(bhs, lib)
           left     == proposed_left(bhs, lib)
           open     == pending_slot_open(bhs, lib)
           s        == IF open \/ k = 0 THEN k ELSE k - 1
<1>1. lib \in Nat
    <2>1. lib \in last_final_block_num(bhs.core) .. claim.block_num /\ last_final_block_num(bhs.core) \in Nat
        BY CoreGrows, HeadNumbers, Zenon
    <2>2. claim.block_num \in Nat
        BY Zenon DEF Step, Claims
    <2>3. QED
        BY <2>1, <2>2
<1>2. k \in 0 .. L /\ \A i \in 1 .. L : i <= k <=> proposed[i].block_num <= lib
    BY <1>1, TargetIs, Zenon
<1>3. proposed \in Seq(InFlightPolicies) /\ L \in Nat
    BY ProposedFields, Zenon DEF PoliciesOK
<1>4. /\ bhs'.active_finalizer_policy = IF pending_is_final(bhs, lib) THEN P.policy ELSE bhs.active_finalizer_policy
      /\ bhs'.pending_finalizer_policy =
            CASE promotes_target(bhs, lib) -> in_flight(bhs.block_num + 1, proposed[k].policy)
              [] ~open -> P
              [] OTHER -> nullptr
    <2>1. /\ bhs'.core = next(bhs.core, make_block_ref(bhs), claim)
          /\ bhs'.active_finalizer_policy =
                evaluate_finalizer_policies_for_promotion(
                    bhs, last_final_block_num(next(bhs.core, make_block_ref(bhs), claim)), bhs.block_num + 1).active
          /\ bhs'.pending_finalizer_policy =
                evaluate_finalizer_policies_for_promotion(
                    bhs, last_final_block_num(next(bhs.core, make_block_ref(bhs), claim)), bhs.block_num + 1).pending
        BY StepFields, Zenon
    <2>2. /\ bhs'.active_finalizer_policy =
                evaluate_finalizer_policies_for_promotion(bhs, lib, bhs.block_num + 1).active
          /\ bhs'.pending_finalizer_policy =
                evaluate_finalizer_policies_for_promotion(bhs, lib, bhs.block_num + 1).pending
        BY <2>1, Zenon
    <2> HIDE DEF lib
    <2>3. QED
        BY <2>2, Zenon DEF evaluate_finalizer_policies_for_promotion
<1>5. left = SubSeq(proposed, s + 1, L)
    <2>1. (k - 1) + 1 = k
        BY <1>2
    <2> HIDE DEF lib
    <2>2. QED
        BY <2>1, Zenon DEF proposed_left
<1>6. open <=> P = nullptr \/ pending_is_final(bhs, lib)
    BY Zenon DEF pending_slot_open
<1>7. pending_is_final(bhs, lib) <=> P # nullptr /\ P.block_num <= lib
    BY Zenon DEF pending_is_final
<1>8. P # nullptr => P.block_num \in Nat
    BY PolicyFields, Zenon DEF PoliciesOK
<1>9. promotes_target(bhs, lib) <=> open /\ k # 0
    BY Zenon DEF promotes_target
<1> HIDE DEF lib, proposed, P, k, left, open, L
<1>10. s \in 0 .. L
    BY <1>2, <1>3
<1>11. Without(left, proposed, s)
    <2>1. PICK w \in 0 .. L : w = s
        BY <1>10, Zenon
    <2>2. left = SubSeq(proposed, w + 1, L)
        BY <1>5, <2>1, Zenon
    <2>3. /\ left \in Seq(InFlightPolicies)
          /\ Len(left) = L - w
          /\ \A i \in 1 .. Len(left) : left[i] = proposed[i + w]
        BY <1>3, <2>2 DEF L
    <2> HIDE DEF s
    <2>4. QED
        BY <2>1, <2>3, Zenon DEF Without, L
<1>12. CASE ~open
    <2>1. P # nullptr /\ ~(P.block_num <= lib) /\ ~pending_is_final(bhs, lib)
        BY <1>6, <1>7, <1>12, Zenon
    <2>2. P.block_num > lib
        BY <1>1, <1>8, <2>1
    <2>3. bhs'.active_finalizer_policy = bhs.active_finalizer_policy /\ bhs'.pending_finalizer_policy = P
        BY <1>4, <1>9, <1>12, <2>1, Zenon
    <2>4. s = IF k = 0 THEN 0 ELSE k - 1
        BY <1>12, Zenon
    <2> HIDE DEF s
    <2>5. PromotedTo(k, s, left)
        BY <1>2, <1>11, <2>1, <2>2, <2>3, <2>4, Zenon DEF PromotedTo, lib, proposed, P, L
    <2>6. QED
        BY <2>5, Zenon DEF left, lib
<1>13. CASE open
    <2>1. P # nullptr => P.block_num <= lib
        BY <1>6, <1>7, <1>13, Zenon
    <2>2. bhs'.active_finalizer_policy = get_last_pending_finalizer_policy(bhs)
        BY <1>4, <1>6, <1>7, <1>13, Zenon DEF get_last_pending_finalizer_policy, P
    <2>3. /\ k = 0 => bhs'.pending_finalizer_policy = nullptr
          /\ k # 0 => bhs'.pending_finalizer_policy = in_flight(bhs.block_num + 1, proposed[k].policy)
        BY <1>4, <1>9, <1>13, Zenon
    <2>4. s = k
        BY <1>13, Zenon
    <2> HIDE DEF s
    <2>5. PromotedTo(k, s, left)
        BY <1>2, <1>11, <2>1, <2>2, <2>3, <2>4, Zenon DEF PromotedTo, lib, proposed, P, L
    <2>6. QED
        BY <2>5, Zenon DEF left, lib
<1>14. QED
    BY <1>12, <1>13, Zenon

(* The proposed policies after a step that drops s of them. *)
ProposedAre(s, finalizers) ==
    LET proposed == bhs.proposed_finalizer_policies
        next_gen == bhs.finalizer_policy_generation + 1
        m        == Len(proposed) - s
    IN  /\ bhs'.proposed_finalizer_policies \in Seq(InFlightPolicies)
        /\ \A i \in 1 .. m : bhs'.proposed_finalizer_policies[i] = proposed[i + s]
        /\ finalizers = nullptr =>
              /\ Len(bhs'.proposed_finalizer_policies) = m
              /\ bhs'.finalizer_policy_generation = bhs.finalizer_policy_generation
        /\ finalizers # nullptr =>
              /\ finalizers \in Lists
              /\ Len(bhs'.proposed_finalizer_policies) = m + 1
              /\ bhs'.proposed_finalizer_policies[m + 1] =
                    in_flight(bhs.block_num + 1, finalizer_policy(next_gen, finalizers))
              /\ bhs'.finalizer_policy_generation = next_gen

(* A step promotes policies, and appends the one that the block proposes.  *)
LEMMA ProposedNext ==
    ASSUME HistoryOK, CoreOK, PoliciesOK, InOrder,
           NEW t, NEW claim, NEW finalizers, NEW producers, Step(t, claim, finalizers, producers)
    PROVE  \E k, s, left : PromotedTo(k, s, left) /\ ProposedAre(s, finalizers)
<1> DEFINE left     == proposed_left(bhs, last_final_block_num(bhs'.core))
           proposed == bhs.proposed_finalizer_policies
           gen      == bhs.finalizer_policy_generation
           new      == bhs'.proposed_finalizer_policies
<1>1. PICK k, s : PromotedTo(k, s, left)
    BY Promotes, Zenon
<1>2. Without(left, proposed, s)
    BY <1>1, Zenon DEF PromotedTo
<1>3. /\ finalizers = nullptr => new = left /\ bhs'.finalizer_policy_generation = gen
      /\ finalizers # nullptr =>
            /\ new = Append(left, in_flight(bhs.block_num + 1, finalizer_policy(gen + 1, finalizers)))
            /\ bhs'.finalizer_policy_generation = gen + 1
    BY StepProposes
<1>4. finalizers # nullptr => finalizers \in Lists
    BY Zenon DEF Step
<1>5. bhs.block_num + 1 \in Nat /\ gen + 1 \in Nat
    BY DEF HistoryOK, PoliciesOK
<1> HIDE DEF left, new, proposed
<1>6. /\ left \in Seq(InFlightPolicies)
      /\ Len(left) = Len(proposed) - s
      /\ Len(left) \in Nat
      /\ \A i \in 1 .. Len(proposed) - s : left[i] = proposed[i + s]
    BY <1>2 DEF Without
<1>7. CASE finalizers = nullptr
    BY <1>1, <1>3, <1>6, <1>7, Zenon DEF ProposedAre, new, proposed
<1>8. CASE finalizers # nullptr
    <2>1. PICK x : x = in_flight(bhs.block_num + 1, finalizer_policy(gen + 1, finalizers))
        BY Zenon
    <2>2. x \in InFlightPolicies
        BY <1>4, <1>5, <1>8, <2>1, PolicyFields, Zenon DEF AllLists
    <2>3. new = Append(left, x)
        BY <1>3, <1>8, <2>1, Zenon
    <2>4. /\ new \in Seq(InFlightPolicies)
          /\ Len(new) = Len(left) + 1
          /\ \A i \in 1 .. Len(left) : new[i] = left[i]
          /\ new[Len(left) + 1] = x
        BY <1>6, <2>2, <2>3
    <2>5. QED
        BY <1>1, <1>3, <1>4, <1>6, <1>8, <2>1, <2>4, Zenon DEF ProposedAre, new, proposed
<1>9. QED
    BY <1>7, <1>8, Zenon

(* The generations of the policies are bounded by the latest one.          *)
LEMMA Generations ==
    ASSUME PoliciesOK, InOrder
    PROVE  LET proposed == bhs.proposed_finalizer_policies
               gen      == bhs.finalizer_policy_generation
               last     == get_last_pending_finalizer_policy(bhs)
           IN  /\ gen \in Nat
               /\ last.generation \in Nat
               /\ bhs.active_finalizer_policy.generation \in Nat
               /\ bhs.active_finalizer_policy.generation >= 1
               /\ bhs.active_finalizer_policy.generation <= last.generation
               /\ last.generation <= gen
               /\ \A i \in 1 .. Len(proposed) :
                     proposed[i].policy.generation > last.generation /\ proposed[i].policy.generation <= gen
               /\ \A i, j \in 1 .. Len(proposed) :
                     i < j => /\ proposed[i].block_num < proposed[j].block_num
                              /\ proposed[i].policy.generation < proposed[j].policy.generation
               /\ \A i \in 1 .. Len(proposed) : proposed[i].block_num <= bhs.block_num
<1> DEFINE proposed == bhs.proposed_finalizer_policies
           L        == Len(proposed)
           gen      == bhs.finalizer_policy_generation
           last     == get_last_pending_finalizer_policy(bhs)
           A        == bhs.active_finalizer_policy
           P        == bhs.pending_finalizer_policy
<1>1. /\ L \in Nat /\ DOMAIN proposed = 1 .. L
      /\ \A i \in 1 .. L : proposed[i].policy.generation \in Nat
    BY ProposedFields, Zenon
<1>2. /\ gen \in Nat /\ A.generation \in Nat /\ last.generation \in Nat
    BY LastPolicies, PolicyFields, Zenon DEF PoliciesOK
<1>3. /\ A.generation >= 1
      /\ P # nullptr => P.policy.generation > A.generation
      /\ get_last_proposed_finalizer_policy(bhs).generation = gen
    BY Zenon DEF InOrder, PoliciesInOrder, None
<1>4. /\ \A i \in DOMAIN proposed : proposed[i].policy.generation > last.generation
      /\ \A i, j \in DOMAIN proposed :
            i < j => /\ proposed[i].block_num < proposed[j].block_num
                     /\ proposed[i].policy.generation < proposed[j].policy.generation
      /\ \A i \in DOMAIN proposed : proposed[i].block_num <= bhs.block_num
    BY Zenon DEF InOrder, PoliciesInOrder
<1>5. A.generation <= last.generation
    <2>1. CASE P = nullptr
        <3>1. last = A
            BY <2>1, Zenon DEF get_last_pending_finalizer_policy
        <3> HIDE DEF last, A
        <3>2. QED
            BY <1>2, <3>1
    <2>2. CASE P # nullptr
        <3>1. last = P.policy
            BY <2>2, Zenon DEF get_last_pending_finalizer_policy
        <3> HIDE DEF last, A, P
        <3>2. QED
            BY <1>2, <1>3, <2>2, <3>1
    <2>3. QED
        BY <2>1, <2>2, Zenon
<1>6. CASE proposed = << >>
    <2>1. get_last_proposed_finalizer_policy(bhs) = last
        BY <1>6, Zenon DEF get_last_proposed_finalizer_policy, get_last_pending_finalizer_policy
    <2>2. gen = last.generation /\ L = 0
        BY <1>3, <1>6, <2>1, Zenon
    <2> HIDE DEF last, A, P, proposed, gen, L
    <2>3. last.generation <= gen /\ \A i \in 1 .. L : proposed[i].policy.generation <= gen
        BY <1>2, <2>2
    <2>4. QED
        BY <1>1, <1>2, <1>3, <1>4, <1>5, <2>3, Zenon DEF last, A, P, proposed, gen, L
<1>7. CASE proposed # << >>
    <2>1. get_last_proposed_finalizer_policy(bhs) = proposed[L].policy
        BY <1>7, Zenon DEF get_last_proposed_finalizer_policy
    <2>2. L >= 1 /\ L \in 1 .. L
        <3>1. proposed \in Seq(InFlightPolicies)
            BY Zenon DEF PoliciesOK
        <3>2. QED
            BY <1>1, <1>7, <3>1
    <2>3. gen = proposed[L].policy.generation
        BY <1>3, <2>1, Zenon
    <2> HIDE DEF last, A, P, proposed, gen, L
    <2>4. last.generation <= gen
        BY <1>1, <1>2, <1>4, <2>2, <2>3
    <2>5. \A i \in 1 .. L : proposed[i].policy.generation <= gen
        BY <1>1, <1>2, <1>4, <2>2, <2>3
    <2>6. QED
        BY <1>1, <1>2, <1>3, <1>4, <1>5, <2>4, <2>5, Zenon DEF last, A, P, proposed, gen, L
<1>8. QED
    BY <1>6, <1>7, Zenon

(* The types of the finalizer policies after a step. *)
LEMMA FinalizerTypes ==
    ASSUME HistoryOK, PoliciesOK, NEW k, NEW s, NEW left, NEW finalizers,
           PromotedTo(k, s, left), ProposedAre(s, finalizers)
    PROVE  /\ bhs'.active_finalizer_policy \in FinalizerPolicies
           /\ bhs'.pending_finalizer_policy \in InFlightPolicies \cup {nullptr}
           /\ bhs'.proposed_finalizer_policies \in Seq(InFlightPolicies)
           /\ bhs'.finalizer_policy_generation \in Nat
<1> DEFINE proposed == bhs.proposed_finalizer_policies
<1>1. bhs'.active_finalizer_policy \in FinalizerPolicies
    BY LastPolicies, Zenon DEF PromotedTo, PoliciesOK
<1>2. k # 0 => k \in 1 .. Len(proposed)
    <2>1. k \in 0 .. Len(proposed)
        BY Zenon DEF PromotedTo
    <2>2. QED
        BY <2>1
<1>3. bhs.block_num + 1 \in Nat
    BY DEF HistoryOK
<1>4. k # 0 => in_flight(bhs.block_num + 1, proposed[k].policy) \in InFlightPolicies
    BY <1>2, <1>3, ProposedFields, PolicyFields, Zenon
<1>5. bhs'.pending_finalizer_policy \in InFlightPolicies \cup {nullptr}
    BY <1>4, Zenon DEF PromotedTo, PoliciesOK
<1>6. bhs'.finalizer_policy_generation \in Nat
    BY DEF ProposedAre, PoliciesOK
<1>7. QED
    BY <1>1, <1>5, <1>6, Zenon DEF ProposedAre

(* The last pending policy after a step: the same, or the target.          *)
LEMMA LastPendingNext ==
    ASSUME HistoryOK, PoliciesOK, NEW k, NEW s, NEW left, PromotedTo(k, s, left)
    PROVE  \/ /\ get_last_pending_finalizer_policy(bhs') = get_last_pending_finalizer_policy(bhs)
              /\ k = 0 \/ s = k - 1
           \/ /\ k # 0 /\ s = k
              /\ k \in 1 .. Len(bhs.proposed_finalizer_policies)
              /\ get_last_pending_finalizer_policy(bhs') = bhs.proposed_finalizer_policies[k].policy
<1> DEFINE proposed == bhs.proposed_finalizer_policies
           P        == bhs.pending_finalizer_policy
<1>1. CASE /\ P # nullptr
           /\ bhs'.active_finalizer_policy = bhs.active_finalizer_policy
           /\ bhs'.pending_finalizer_policy = P
           /\ s = IF k = 0 THEN 0 ELSE k - 1
    BY <1>1, Zenon DEF get_last_pending_finalizer_policy
<1>2. CASE /\ bhs'.active_finalizer_policy = get_last_pending_finalizer_policy(bhs)
           /\ k = 0 /\ bhs'.pending_finalizer_policy = nullptr
    BY <1>2, Zenon DEF get_last_pending_finalizer_policy
<1>3. CASE k # 0 /\ s = k /\ bhs'.pending_finalizer_policy = in_flight(bhs.block_num + 1, proposed[k].policy)
    <2>1. k \in 1 .. Len(proposed)
        <3>1. k \in 0 .. Len(proposed)
            BY Zenon DEF PromotedTo
        <3>2. QED
            BY <1>3, <3>1
    <2>2. bhs.block_num + 1 \in Nat /\ proposed[k].policy \in FinalizerPolicies
        <3>1. bhs.block_num + 1 \in Nat
            BY DEF HistoryOK
        <3>2. QED
            BY <2>1, <3>1, ProposedFields, Zenon
    <2>3. bhs'.pending_finalizer_policy # nullptr /\ bhs'.pending_finalizer_policy.policy = proposed[k].policy
        <3>1. PICK x : x = in_flight(bhs.block_num + 1, proposed[k].policy)
            BY Zenon
        <3>2. x \in InFlightPolicies /\ x.policy = proposed[k].policy /\ x # nullptr
            BY <2>2, <3>1, PolicyFields, Zenon
        <3>3. QED
            BY <1>3, <3>1, <3>2, Zenon
    <2>4. QED
        BY <1>3, <2>1, <2>3, Zenon DEF get_last_pending_finalizer_policy
<1>4. QED
    BY <1>1, <1>2, <1>3, Zenon DEF PromotedTo

(* The last proposed policy stays, unless the block proposes one: what     *)
(* promotion takes from the proposed policies is pending or superseded.    *)
LEMMA LastProposedNext ==
    ASSUME HistoryOK, PoliciesOK, NEW k, NEW s, NEW left, NEW finalizers,
           PromotedTo(k, s, left), ProposedAre(s, finalizers)
    PROVE  get_last_proposed_finalizer_policy(bhs') =
              IF finalizers = nullptr THEN get_last_proposed_finalizer_policy(bhs)
              ELSE finalizer_policy(bhs.finalizer_policy_generation + 1, finalizers)
<1> DEFINE proposed == bhs.proposed_finalizer_policies
           new      == bhs'.proposed_finalizer_policies
           L        == Len(proposed)
           gen      == bhs.finalizer_policy_generation
<1>1. L \in Nat /\ s \in 0 .. L /\ new \in Seq(InFlightPolicies) /\ proposed \in Seq(InFlightPolicies)
    BY ProposedFields, Zenon DEF PromotedTo, Without, ProposedAre, PoliciesOK
<1>2. CASE finalizers # nullptr
    <2>1. Len(new) = (L - s) + 1 /\ new[(L - s) + 1] = in_flight(bhs.block_num + 1, finalizer_policy(gen + 1, finalizers))
        BY <1>2, Zenon DEF ProposedAre
    <2>2. bhs.block_num + 1 \in Nat /\ gen + 1 \in Nat
        BY DEF HistoryOK, PoliciesOK
    <2>3. finalizers \in AllLists
        BY <1>2, Zenon DEF ProposedAre, AllLists
    <2>4. new[Len(new)].policy = finalizer_policy(gen + 1, finalizers)
        <3>1. finalizer_policy(gen + 1, finalizers) \in FinalizerPolicies
            BY <2>2, <2>3, PolicyFields, Zenon
        <3>2. in_flight(bhs.block_num + 1, finalizer_policy(gen + 1, finalizers)).policy = finalizer_policy(gen + 1, finalizers)
            BY <2>2, <3>1, PolicyFields, Zenon
        <3> HIDE DEF new
        <3>3. QED
            BY <2>1, <3>2, Zenon
    <2>5. new # << >>
        <3> HIDE DEF new, L
        <3>1. QED
            BY <1>1, <2>1
    <2>6. QED
        BY <1>2, <2>4, <2>5, Zenon DEF get_last_proposed_finalizer_policy
<1>3. CASE finalizers = nullptr /\ s # L
    <2>1. Len(new) = L - s /\ \A i \in 1 .. L - s : new[i] = proposed[i + s]
        BY <1>3, Zenon DEF ProposedAre
    <2> HIDE DEF new, proposed
    <2>2. L - s \in 1 .. L - s /\ (L - s) + s = L /\ L # 0
        BY <1>1, <1>3
    <2>3. new[Len(new)] = proposed[Len(proposed)]
        BY <2>1, <2>2, Zenon
    <2>4. new # << >> /\ proposed # << >>
        BY <1>1, <2>1, <2>2
    <2>5. QED
        BY <1>3, <2>3, <2>4, Zenon DEF get_last_proposed_finalizer_policy, new, proposed
<1>4. CASE finalizers = nullptr /\ s = L
    <2>1. Len(new) = L - s
        BY <1>4, Zenon DEF ProposedAre
    <2>2. new = << >>
        <3> HIDE DEF new, L
        <3>1. QED
            BY <1>1, <1>4, <2>1
    <2>3. get_last_proposed_finalizer_policy(bhs') = get_last_pending_finalizer_policy(bhs')
        BY <2>2, Zenon DEF get_last_proposed_finalizer_policy, get_last_pending_finalizer_policy
    <2>4. k \in 0 .. L
        BY Zenon DEF PromotedTo
    <2>5. CASE k # 0 /\ s = k /\ get_last_pending_finalizer_policy(bhs') = proposed[k].policy
        <3>1. k = L
            BY <1>4, <2>5, Zenon
        <3>2. proposed # << >>
            <4> HIDE DEF proposed
            <4>1. QED
                BY <1>1, <2>5, <3>1, SMTT(20)
        <3>3. QED
            BY <1>4, <2>3, <2>5, <3>1, <3>2, Zenon DEF get_last_proposed_finalizer_policy
    <2>6. CASE get_last_pending_finalizer_policy(bhs') = get_last_pending_finalizer_policy(bhs) /\ (k = 0 \/ s = k - 1)
        <3>1. L = 0
            <4>1. k = 0 => s = 0
                BY Zenon DEF PromotedTo
            <4> HIDE DEF L
            <4>2. QED
                BY <1>1, <1>4, <2>4, <2>6, <4>1
        <3>2. proposed = << >>
            <4> HIDE DEF proposed
            <4>1. QED
                BY <1>1, <3>1
        <3>3. get_last_proposed_finalizer_policy(bhs) = get_last_pending_finalizer_policy(bhs)
            BY <3>2, Zenon DEF get_last_proposed_finalizer_policy, get_last_pending_finalizer_policy
        <3>4. QED
            BY <1>4, <2>3, <2>6, <3>3, Zenon
    <2>7. QED
        BY <2>5, <2>6, LastPendingNext, Zenon
<1>5. QED
    BY <1>2, <1>3, <1>4, Zenon

(* The proposed policies after a step are some of the last ones and the    *)
(* one that the block proposes.                                            *)
EachProposed(s, finalizers) ==
    LET proposed == bhs.proposed_finalizer_policies
        new      == bhs'.proposed_finalizer_policies
    IN  /\ DOMAIN new = 1 .. Len(new)
        /\ \A i \in 1 .. Len(new) :
              \/ /\ i + s \in 1 .. Len(proposed)
                 /\ new[i] = proposed[i + s]
              \/ /\ finalizers # nullptr
                 /\ i = Len(new)
                 /\ i + s = Len(proposed) + 1
                 /\ new[i].block_num = bhs.block_num + 1
                 /\ new[i].policy = finalizer_policy(bhs.finalizer_policy_generation + 1, finalizers)
                 /\ new[i].policy.generation = bhs.finalizer_policy_generation + 1

(* The same as ProposedAre, for each of the policies.                      *)
LEMMA NewProposed ==
    ASSUME HistoryOK, PoliciesOK, NEW k, NEW s, NEW left, NEW finalizers,
           PromotedTo(k, s, left), ProposedAre(s, finalizers)
    PROVE  EachProposed(s, finalizers)
<1> DEFINE proposed == bhs.proposed_finalizer_policies
           new      == bhs'.proposed_finalizer_policies
           L        == Len(proposed)
           gen      == bhs.finalizer_policy_generation
<1>1. L \in Nat /\ s \in 0 .. L /\ new \in Seq(InFlightPolicies)
    BY ProposedFields, Zenon DEF PromotedTo, Without, ProposedAre
<1>2. DOMAIN new = 1 .. Len(new)
    <2> HIDE DEF new
    <2>1. QED
        BY <1>1
<1>3. \A i \in 1 .. L - s : new[i] = proposed[i + s]
    BY Zenon DEF ProposedAre
<1>4. \A i \in 1 .. L - s : i + s \in 1 .. L
    <2> HIDE DEF L
    <2>1. QED
        BY <1>1
<1>5. CASE finalizers = nullptr
    <2>1. Len(new) = L - s
        BY <1>5, Zenon DEF ProposedAre
    <2>2. QED
        BY <1>2, <1>3, <1>4, <2>1, Zenon DEF EachProposed
<1>6. CASE finalizers # nullptr
    <2>1. Len(new) = (L - s) + 1 /\ new[(L - s) + 1] = in_flight(bhs.block_num + 1, finalizer_policy(gen + 1, finalizers))
        BY <1>6, Zenon DEF ProposedAre
    <2>2. bhs.block_num + 1 \in Nat /\ gen + 1 \in Nat
        BY DEF HistoryOK, PoliciesOK
    <2>3. finalizers \in AllLists
        BY <1>6, Zenon DEF ProposedAre, AllLists
    <2>4. finalizer_policy(gen + 1, finalizers) \in FinalizerPolicies /\ finalizer_policy(gen + 1, finalizers).generation = gen + 1
        <3>1. finalizer_policy(gen + 1, finalizers).generation = gen + 1
            BY Zenon DEF finalizer_policy
        <3>2. QED
            BY <2>2, <2>3, <3>1, PolicyFields, Zenon
    <2>5. PICK x : x = in_flight(bhs.block_num + 1, finalizer_policy(gen + 1, finalizers))
        BY Zenon
    <2>6. x.block_num = bhs.block_num + 1 /\ x.policy = finalizer_policy(gen + 1, finalizers)
        BY <2>2, <2>4, <2>5, PolicyFields, Zenon
    <2>7. \A i \in 1 .. (L - s) + 1 : i \in 1 .. L - s \/ (i = (L - s) + 1 /\ i + s = L + 1)
        <3> HIDE DEF L
        <3>1. QED
            BY <1>1
    <2>8. QED
        BY <1>2, <1>3, <1>4, <1>6, <2>1, <2>4, <2>5, <2>6, <2>7, ZenonT(60) DEF EachProposed
<1>7. QED
    BY <1>5, <1>6, Zenon

(* A step keeps the policies in order. *)
LEMMA InOrderNext ==
    ASSUME HistoryOK, CoreOK, PoliciesOK, InOrder,
           NEW t, NEW claim, NEW finalizers, NEW producers, Step(t, claim, finalizers, producers),
           NEW k, NEW s, NEW left, PromotedTo(k, s, left), ProposedAre(s, finalizers)
    PROVE  InOrder'
<1> DEFINE proposed == bhs.proposed_finalizer_policies
           new      == bhs'.proposed_finalizer_policies
           L        == Len(proposed)
           N        == bhs.block_num
           gen      == bhs.finalizer_policy_generation
           last     == get_last_pending_finalizer_policy(bhs)
           newlast  == get_last_pending_finalizer_policy(bhs')
           A        == bhs.active_finalizer_policy
           P        == bhs.pending_finalizer_policy
           newA     == bhs'.active_finalizer_policy
           newP     == bhs'.pending_finalizer_policy
           lib      == last_final_block_num(bhs'.core)
<1>1. N \in Nat /\ lib \in Nat /\ lib <= N
    <2>1. /\ lib \in last_final_block_num(bhs.core) .. claim.block_num
          /\ last_final_block_num(bhs.core) \in Nat /\ N \in Nat /\ latest_qc_claim(bhs.core).block_num \in Nat
        BY CoreGrows, HeadNumbers, Zenon
    <2>2. claim.block_num \in latest_qc_claim(bhs.core).block_num .. N
        BY Zenon DEF Step, ClaimedOn
    <2> HIDE DEF lib, N
    <2>3. QED
        BY <2>1, <2>2
<1>2. /\ gen \in Nat /\ last.generation \in Nat /\ A.generation \in Nat
      /\ A.generation >= 1 /\ A.generation <= last.generation /\ last.generation <= gen
      /\ \A i \in 1 .. L : proposed[i].policy.generation > last.generation /\ proposed[i].policy.generation <= gen
      /\ \A i, j \in 1 .. L :
            i < j => /\ proposed[i].block_num < proposed[j].block_num
                     /\ proposed[i].policy.generation < proposed[j].policy.generation
      /\ \A i \in 1 .. L : proposed[i].block_num <= N
    BY Generations, Zenon
<1>3. L \in Nat /\ \A i \in 1 .. L : proposed[i].block_num \in Nat /\ proposed[i].policy.generation \in Nat
    BY ProposedFields, Zenon
<1>4. /\ DOMAIN new = 1 .. Len(new)
      /\ \A i \in 1 .. Len(new) :
            \/ i + s \in 1 .. L /\ new[i] = proposed[i + s]
            \/ /\ i = Len(new) /\ i + s = L + 1
               /\ new[i].block_num = N + 1 /\ new[i].policy.generation = gen + 1
    <2>1. EachProposed(s, finalizers)
        BY NewProposed, Zenon
    <2>2. QED
        BY <2>1, Zenon DEF EachProposed
<1>5. k \in 0 .. L /\ s \in 0 .. L /\ \A i \in 1 .. L : i <= k <=> proposed[i].block_num <= lib
    BY Zenon DEF PromotedTo, Without
<1>6. \/ newlast = last /\ (k = 0 \/ s = k - 1)
      \/ k # 0 /\ s = k /\ k \in 1 .. L /\ newlast = proposed[k].policy
    BY LastPendingNext, Zenon
<1>7. \/ /\ P # nullptr /\ P.block_num > lib /\ newA = A /\ newP = P /\ s = IF k = 0 THEN 0 ELSE k - 1
      \/ /\ newA = last /\ s = k
         /\ k = 0 => newP = nullptr
         /\ k # 0 => newP = in_flight(N + 1, proposed[k].policy)
    BY Zenon DEF PromotedTo
<1>8. Len(new) \in Nat
    <2>1. new \in Seq(InFlightPolicies)
        BY Zenon DEF ProposedAre
    <2> HIDE DEF new
    <2>2. QED
        BY <2>1
<1>9. get_last_proposed_finalizer_policy(bhs').generation = bhs'.finalizer_policy_generation
    <2>1. get_last_proposed_finalizer_policy(bhs) .generation = gen
        BY Zenon DEF InOrder
    <2>2. finalizer_policy(gen + 1, finalizers).generation = gen + 1
        BY Zenon DEF finalizer_policy
    <2>3. bhs'.finalizer_policy_generation = IF finalizers = nullptr THEN gen ELSE gen + 1
        BY Zenon DEF ProposedAre
    <2>4. QED
        BY <2>1, <2>2, <2>3, LastProposedNext, Zenon
<1>10. /\ newP # nullptr => newP.policy.generation > newA.generation /\ newP.block_num > lib
       /\ newA.generation >= 1
    <2>1. P # nullptr => P.policy.generation > A.generation
        BY Zenon DEF InOrder, PoliciesInOrder, None
    <2>2. CASE newA = A /\ newP = P /\ P.block_num > lib
        BY <1>2, <2>1, <2>2, Zenon
    <2>3. CASE newA = last /\ k = 0 /\ newP = nullptr
        <3>1. last.generation >= 1
            <4> HIDE DEF last, A
            <4>1. QED
                BY <1>2
        <3>2. QED
            BY <2>3, <3>1, Zenon
    <2>4. CASE newA = last /\ k # 0 /\ newP = in_flight(N + 1, proposed[k].policy)
        <3>1. k \in 1 .. L /\ N + 1 \in Nat /\ N + 1 > lib
            <4> HIDE DEF L, N, lib
            <4>1. QED
                BY <1>1, <1>3, <1>5, <2>4, SMTT(20)
        <3>2. proposed[k].policy \in FinalizerPolicies
            BY <3>1, ProposedFields, Zenon
        <3>3. in_flight(N + 1, proposed[k].policy).block_num = N + 1
              /\ in_flight(N + 1, proposed[k].policy).policy = proposed[k].policy
            BY <3>1, <3>2, PolicyFields, Zenon
        <3>4. last.generation >= 1 /\ proposed[k].policy.generation > last.generation
            <4> HIDE DEF last, A, proposed
            <4>1. QED
                BY <1>2, <3>1
        <3> HIDE DEF newP, newA, N
        <3>5. QED
            BY <2>4, <3>1, <3>3, <3>4, Zenon
    <2>5. QED
        BY <1>7, <2>2, <2>3, <2>4, Zenon
<1>11. newP # nullptr \/ s = k \/ k = 0
    BY <1>7, Zenon
<1>12. \/ s = k \/ (newP # nullptr /\ s = k - 1) \/ (k = 0 /\ s = 0)
    BY <1>7, Zenon
<1> HIDE DEF proposed, new, L, N, gen, last, newlast, A, P, newA, newP, lib
<1>13. newlast.generation <= gen /\ newlast.generation \in Nat
    BY <1>2, <1>3, <1>6, Zenon
<1>14. ASSUME NEW i \in 1 .. Len(new)
       PROVE  /\ new[i].block_num \in Nat /\ new[i].policy.generation \in Nat
              /\ new[i].block_num <= N + 1
              /\ new[i].policy.generation > newlast.generation
              /\ new[i].block_num <= lib => i = 1 /\ newP # nullptr
    <2>1. CASE i + s \in 1 .. L /\ new[i] = proposed[i + s]
        <3>1. new[i].block_num \in Nat /\ new[i].policy.generation \in Nat /\ new[i].block_num <= N
            BY <1>2, <1>3, <2>1, Zenon
        <3>2. new[i].policy.generation > newlast.generation
            <4>1. CASE newlast = last
                BY <1>2, <2>1, <4>1, Zenon
            <4>2. CASE s = k /\ k \in 1 .. L /\ newlast = proposed[k].policy
                <5>1. k < i + s
                    BY <1>5, <4>2
                <5>2. proposed[k].policy.generation < proposed[i + s].policy.generation
                    BY <1>2, <2>1, <4>2, <5>1, Zenon
                <5>3. QED
                    BY <1>3, <1>13, <2>1, <3>1, <4>2, <5>2, Zenon
            <4>3. QED
                BY <1>6, <4>1, <4>2, Zenon
        <3>3. ASSUME new[i].block_num <= lib PROVE i = 1 /\ newP # nullptr
            <4>1. i + s <= k
                BY <1>5, <2>1, <3>3, Zenon
            <4>2. QED
                BY <1>3, <1>5, <1>12, <4>1, SMTT(20)
        <3>4. new[i].block_num <= N + 1
            BY <1>1, <3>1
        <3>5. QED
            BY <3>1, <3>2, <3>3, <3>4, Zenon
    <2>2. CASE new[i].block_num = N + 1 /\ new[i].policy.generation = gen + 1
        BY <1>1, <1>2, <1>13, <2>2, SMTT(20)
    <2>3. QED
        BY <1>4, <2>1, <2>2, Zenon
<1>15. ASSUME NEW i \in 1 .. Len(new), NEW j \in 1 .. Len(new), i < j
       PROVE  /\ new[i].block_num < new[j].block_num
              /\ new[i].policy.generation < new[j].policy.generation
    <2>1. i + s \in 1 .. L /\ new[i] = proposed[i + s] /\ i + s < j + s
        <3>1. i # Len(new)
            BY <1>8, <1>15, SMTT(20)
        <3>2. i + s < j + s
            BY <1>3, <1>5, <1>15
        <3>3. QED
            BY <1>4, <3>1, <3>2, Zenon
    <2>2. CASE j + s \in 1 .. L /\ new[j] = proposed[j + s]
        BY <1>2, <2>1, <2>2, Zenon
    <2>3. CASE new[j].block_num = N + 1 /\ new[j].policy.generation = gen + 1
        BY <1>1, <1>2, <1>3, <2>1, <2>3, SMTT(30)
    <2>4. QED
        BY <1>4, <2>2, <2>3, Zenon
<1>16. ASSUME NEW i \in 1 .. Len(new), i > 1
       PROVE  /\ new[i - 1].block_num < new[i].block_num
              /\ new[i - 1].policy.generation < new[i].policy.generation
    <2>1. i - 1 \in 1 .. Len(new) /\ i - 1 < i
        BY <1>8, <1>16
    <2>2. QED
        BY <1>15, <2>1, Zenon
<1>17. PoliciesInOrder'
    BY <1>4, <1>10, <1>14, <1>16, Zenon DEF PoliciesInOrder, None, new, newA, newP, newlast, lib
<1>18. bhs'.block_num = N + 1
    BY HistoryGrows, Zenon DEF N
<1>19. QED
    BY <1>4, <1>9, <1>10, <1>14, <1>15, <1>17, <1>18, Zenon DEF InOrder, new, newA

(* A record of the history. *)
LEMMA RecordFields ==
    ASSUME HistoryOK, NEW n \in Blocks
    PROVE  /\ history[n] \in BlockRecords
           /\ history[n].timestamp \in Nat
           /\ history[n].last_final \in Nat
           /\ history[n].active \in FinalizerPolicies
           /\ history[n].pending \in InFlightPolicies \cup {nullptr}
           /\ history[n].proposer \in ProposerPolicies
           /\ history[n].finalizers \in Lists \cup {nullptr}
           /\ history[n].producers \in Lists \cup {nullptr}
<1>1. history[n] \in BlockRecords
    BY DEF HistoryOK, Blocks
<1>2. QED
    BY <1>1, Zenon DEF BlockRecords

(* What the history says of the blocks after a step: nothing else than     *)
(* before, and of the new one what its header state says.                  *)
LEMMA NewRecord ==
    ASSUME HistoryOK, NEW t, NEW claim, NEW finalizers, NEW producers, Step(t, claim, finalizers, producers)
    PROVE  /\ history'[bhs.block_num + 1].timestamp = t
           /\ history'[bhs.block_num + 1].last_final = last_final_block_num(bhs'.core)
           /\ history'[bhs.block_num + 1].active = bhs'.active_finalizer_policy
           /\ history'[bhs.block_num + 1].pending = bhs'.pending_finalizer_policy
           /\ history'[bhs.block_num + 1].proposer = bhs'.active_proposer_policy
           /\ history'[bhs.block_num + 1].finalizers = finalizers
           /\ history'[bhs.block_num + 1].producers = producers
<1>1. history'[bhs.block_num + 1] = Recorded(bhs', finalizers, producers)
    BY HistoryGrows
<1>2. bhs'.timestamp = t
    BY StepFields, Zenon
<1>3. PICK h : h = bhs'
    BY Zenon
<1>4. PICK r : r = Recorded(h, finalizers, producers)
    BY Zenon
<1>5. /\ r.timestamp = h.timestamp /\ r.last_final = last_final_block_num(h.core)
      /\ r.active = h.active_finalizer_policy /\ r.pending = h.pending_finalizer_policy
      /\ r.proposer = h.active_proposer_policy /\ r.finalizers = finalizers /\ r.producers = producers
    BY <1>4, Zenon DEF Recorded
<1>6. QED
    BY <1>1, <1>2, <1>3, <1>4, <1>5, Zenon

(* How the active and the pending policy change. *)
LEMMA ActiveNext ==
    ASSUME PoliciesOK, NEW k, NEW s, NEW left, PromotedTo(k, s, left)
    PROVE  LET A == bhs.active_finalizer_policy
               P == bhs.pending_finalizer_policy
           IN  \/ /\ bhs'.active_finalizer_policy = A
                  /\ P # nullptr => bhs'.pending_finalizer_policy = P
               \/ /\ P # nullptr
                  /\ P.block_num <= last_final_block_num(bhs'.core)
                  /\ bhs'.active_finalizer_policy = P.policy
BY Zenon DEF PromotedTo, get_last_pending_finalizer_policy

(* latest_qc_claim_block_active_finalizer_policy after a step. *)
LEMMA KeptNext ==
    ASSUME HistoryOK, CoreOK, PoliciesOK, InOrder, ClaimsKept,
           NEW t, NEW claim, NEW finalizers, NEW producers, Step(t, claim, finalizers, producers)
    PROVE  /\ claim.block_num \in ClaimedOn
           /\ claim.block_num \in Blocks
           /\ bhs'.latest_qc_claim_block_active_finalizer_policy =
                 IF history[claim.block_num].active.generation = bhs'.active_finalizer_policy.generation THEN nullptr
                 ELSE history[claim.block_num].active
<1> DEFINE num  == claim.block_num
           core == next(bhs.core, make_block_ref(bhs), claim)
           newA == bhs'.active_finalizer_policy
<1>1. num \in ClaimedOn /\ num \in Blocks
    BY HeadNumbers, Zenon DEF Step
<1>2. /\ bhs'.core = core
      /\ bhs'.latest_qc_claim_block_active_finalizer_policy = claim_block_policy(bhs, core, newA)
    BY StepFields, Zenon
<1>3. latest_qc_claim(core).block_num = num
    BY <1>2, CoreGrows, Zenon
<1>4. /\ num \in Nat /\ bhs.block_num \in Nat
      /\ last_final_block_num(bhs.core) <= num /\ num <= bhs.block_num
      /\ last_final_block_num(bhs'.core) <= num
    <2>1. /\ last_final_block_num(bhs.core) \in Nat /\ bhs.block_num \in Nat /\ latest_qc_claim(bhs.core).block_num \in Nat
          /\ last_final_block_num(bhs.core) <= latest_qc_claim(bhs.core).block_num
          /\ last_final_block_num(bhs'.core) \in last_final_block_num(bhs.core) .. num
        BY HeadNumbers, CoreGrows, Zenon
    <2>2. num \in latest_qc_claim(bhs.core).block_num .. bhs.block_num
        BY <1>1, Zenon DEF ClaimedOn
    <2> HIDE DEF num
    <2>3. QED
        BY <2>1, <2>2
<1>5. ref_at(bhs, num) = RefIn(history, num)
    BY <1>4, ReferenceAt, Zenon
<1>6. get_block_reference(bhs'.core, num) = RefIn(history', num)
    <2>1. SoundCore(bhs'.core, bhs'.block_num, {RefIn(history', n) : n \in 1 .. bhs'.block_num - 1})
        BY CoreGrows, Zenon DEF CoreOK
    <2>2. bhs'.block_num = bhs.block_num + 1
        BY StepFields, Zenon
    <2>3. bhs'.block_num \in Nat /\ num < bhs'.block_num
        BY <1>4, <2>2
    <2> HIDE DEF num
    <2>4. QED
        BY <1>4, <2>1, <2>3, Reference, ZenonT(60)
<1>7. RefIn(history', num) = RefIn(history, num)
    <2>1. history'[num] = history[num]
        BY <1>1, HistoryGrows, Zenon
    <2>2. QED
        BY <2>1, Zenon DEF RefIn
<1>8. RefIn(history, num).active_policy_generation = history[num].active.generation
    BY Zenon DEF RefIn, block_ref
<1>9. get_finalizer_policies(bhs, RefIn(history, num)).active_finalizer_policy = history[num].active
    BY <1>1, Retrieved, Zenon
<1> HIDE DEF num, core, newA
<1>10. claim_block_policy(bhs, core, newA) =
          IF history[num].active.generation = newA.generation THEN nullptr ELSE history[num].active
    BY <1>2, <1>3, <1>5, <1>6, <1>7, <1>8, <1>9, Zenon DEF claim_block_policy, get_active_finalizer_policy_generation
<1>11. QED
    BY <1>1, <1>2, <1>10, Zenon DEF num, newA

(* The blocks up to the parent, and the new one. *)
LEMMA OldOrNew ==
    ASSUME HistoryOK, NEW t, NEW claim, NEW finalizers, NEW producers, Step(t, claim, finalizers, producers)
    PROVE  /\ \A n \in Blocks' : n \in Blocks \/ n = bhs.block_num + 1
           /\ \A n \in Blocks : n \in Blocks' /\ n \in Nat /\ n <= bhs.block_num /\ n # bhs.block_num + 1 /\ history'[n] = history[n]
           /\ bhs.block_num + 1 \in Blocks'
<1>1. /\ Blocks = 1 .. bhs.block_num /\ Blocks' = 1 .. bhs.block_num + 1
      /\ \A n \in Blocks : history'[n] = history[n]
    BY HistoryGrows, Zenon
<1>2. bhs.block_num \in Nat
    BY Zenon DEF HistoryOK
<1>3. /\ \A n \in 1 .. bhs.block_num + 1 : n \in 1 .. bhs.block_num \/ n = bhs.block_num + 1
      /\ \A n \in 1 .. bhs.block_num : /\ n \in 1 .. bhs.block_num + 1
                                       /\ n \in Nat /\ n <= bhs.block_num /\ n # bhs.block_num + 1
      /\ bhs.block_num + 1 \in 1 .. bhs.block_num + 1
    BY <1>2
<1>4. QED
    BY <1>1, <1>3, Zenon

(* A pending policy stays so, together with the active one, until it is    *)
(* active.                                                                 *)
LEMMA PendingNext ==
    ASSUME HistoryOK, PoliciesOK, PendingSince,
           NEW t, NEW claim, NEW finalizers, NEW producers, Step(t, claim, finalizers, producers),
           NEW k, NEW s, NEW left, PromotedTo(k, s, left)
    PROVE  PendingSince'
<1> DEFINE N    == bhs.block_num
           P    == bhs.pending_finalizer_policy
           newA == bhs'.active_finalizer_policy
           newP == bhs'.pending_finalizer_policy
<1>1. N \in Nat /\ bhs'.block_num = N + 1
    BY HistoryGrows, Zenon DEF HistoryOK
<1>2. history'[N + 1].active = newA /\ history'[N + 1].pending = newP
    BY NewRecord, Zenon
<1>3. CASE newP = nullptr
    BY <1>3, Zenon DEF PendingSince
<1>4. CASE P # nullptr /\ newA = bhs.active_finalizer_policy /\ newP = P
    <2>1. P.block_num \in Blocks /\ P.block_num \in Nat /\ P.block_num \in Blocks'
        BY <1>4, OldOrNew, Zenon DEF PendingSince
    <2>2. ASSUME NEW n \in P.block_num .. N + 1
          PROVE  history'[n].active = newA /\ history'[n].pending = newP
        <3>1. CASE n = N + 1
            BY <1>2, <3>1, Zenon
        <3>2. CASE n # N + 1
            <4>1. n \in P.block_num .. N
                BY <1>1, <2>1, <3>2
            <4>2. history[n].active = bhs.active_finalizer_policy /\ history[n].pending = P
                BY <1>4, <4>1, Zenon DEF PendingSince
            <4>3. n \in Blocks
                BY <1>1, <2>1, <4>1, HistoryGrows
            <4>4. history'[n] = history[n]
                BY <4>3, OldOrNew, Zenon
            <4>5. QED
                BY <1>4, <4>2, <4>4, Zenon
        <3>3. QED
            BY <3>1, <3>2, Zenon
    <2>3. QED
        BY <1>1, <1>4, <2>1, <2>2, Zenon DEF PendingSince
<1>5. CASE k # 0 /\ newP = in_flight(N + 1, bhs.proposed_finalizer_policies[k].policy)
    <2>1. newP.block_num = N + 1
        BY <1>5 DEF in_flight
    <2>2. \A n \in N + 1 .. N + 1 : n = N + 1
        BY <1>1
    <2>3. N + 1 \in Blocks'
        BY OldOrNew, Zenon
    <2>4. QED
        BY <1>1, <1>2, <2>1, <2>2, <2>3, Zenon DEF PendingSince
<1>6. QED
    BY <1>3, <1>4, <1>5, Zenon DEF PromotedTo

(* From the claimed block on, policies can be retrieved after a step: a    *)
(* policy only becomes active once the block since which it is pending is  *)
(* final, and all the blocks from there on had the same policies.          *)
LEMMA ClaimsKeptNext ==
    ASSUME HistoryOK, CoreOK, PoliciesOK, InOrder, PendingSince, ClaimsKept,
           NEW t, NEW claim, NEW finalizers, NEW producers, Step(t, claim, finalizers, producers),
           NEW k, NEW s, NEW left, PromotedTo(k, s, left)
    PROVE  ClaimsKept'
<1> DEFINE N    == bhs.block_num
           num  == claim.block_num
           A    == bhs.active_finalizer_policy
           P    == bhs.pending_finalizer_policy
           kept == bhs.latest_qc_claim_block_active_finalizer_policy
           newA == bhs'.active_finalizer_policy
           newP == bhs'.pending_finalizer_policy
           new  == bhs'.latest_qc_claim_block_active_finalizer_policy
<1>1. N \in Nat /\ bhs'.block_num = N + 1
    BY HistoryGrows, Zenon DEF HistoryOK
<1>2. history'[N + 1].active = newA /\ history'[N + 1].pending = newP
    BY NewRecord, Zenon
<1>3. num \in ClaimedOn /\ num \in Blocks
      /\ new = IF history[num].active.generation = newA.generation THEN nullptr ELSE history[num].active
    BY KeptNext, Zenon
<1>4. ClaimedOn' = num .. N + 1
    <2>1. latest_qc_claim(bhs'.core).block_num = num
        BY CoreGrows, Zenon
    <2>2. QED
        BY <1>1, <2>1, Zenon DEF ClaimedOn
<1>5. num \in Nat /\ last_final_block_num(bhs'.core) <= num /\ ClaimedOn = latest_qc_claim(bhs.core).block_num .. N
      /\ latest_qc_claim(bhs.core).block_num \in Nat /\ num <= N /\ latest_qc_claim(bhs.core).block_num <= num
      /\ last_final_block_num(bhs'.core) \in Nat
    <2>1. /\ last_final_block_num(bhs.core) \in Nat /\ latest_qc_claim(bhs.core).block_num \in Nat
          /\ last_final_block_num(bhs'.core) \in last_final_block_num(bhs.core) .. num
        BY HeadNumbers, CoreGrows, Zenon
    <2>2. num \in latest_qc_claim(bhs.core).block_num .. N
        BY <1>3, Zenon DEF ClaimedOn
    <2> HIDE DEF num, N
    <2>3. QED
        BY <1>1, <2>1, <2>2 DEF ClaimedOn, N
<1>6. \A n \in num .. N : n \in ClaimedOn /\ n \in Blocks /\ history'[n] = history[n]
    <2>1. \A n \in num .. N : n \in latest_qc_claim(bhs.core).block_num .. N
        <3> HIDE DEF num, N
        <3>1. QED
            BY <1>1, <1>5
    <2>2. \A n \in num .. N : n \in ClaimedOn /\ n \in Blocks
        BY <1>5, <2>1, HeadNumbers, Zenon
    <2>3. QED
        BY <2>2, OldOrNew, Zenon
<1>7. \A n \in num .. N :
          /\ \/ /\ history[n].active = A
                /\ \A m \in n .. N : history[m].active = A
             \/ /\ history[n].active = kept
                /\ kept # nullptr
                /\ kept.generation # A.generation
          /\ \/ history[n].pending = nullptr
             \/ history[n].pending = P
             \/ history[n].pending.policy = A
    BY <1>6, Zenon DEF ClaimsKept
<1>8. \/ newA = A /\ (P # nullptr => newP = P)
      \/ /\ P # nullptr /\ newA = P.policy
         /\ newA.generation # A.generation
         /\ \A n \in num .. N : history[n].active = A /\ history[n].pending = P
    <2>1. CASE newA = A /\ (P # nullptr => newP = P)
        BY <2>1, Zenon
    <2>2. CASE P # nullptr /\ P.block_num <= last_final_block_num(bhs'.core) /\ newA = P.policy
        <3>1. P.block_num \in Nat /\ P.policy.generation \in Nat /\ A.generation \in Nat
            BY <2>2, PolicyFields, Zenon DEF PoliciesOK
        <3>2. P.policy.generation > A.generation
            BY <2>2, Zenon DEF InOrder, PoliciesInOrder, None
        <3>3. P.policy.generation # A.generation
            BY <3>1, <3>2
        <3>4. \A n \in num .. N : n \in P.block_num .. N
            <4> HIDE DEF num, N, P
            <4>1. QED
                BY <1>1, <1>5, <2>2, <3>1
        <3>5. \A n \in num .. N : history[n].active = A /\ history[n].pending = P
            BY <2>2, <3>4, Zenon DEF PendingSince
        <3>6. QED
            BY <2>2, <3>3, <3>5, Zenon
    <2>3. QED
        BY <2>1, <2>2, ActiveNext, Zenon
<1>9. num \in num .. N
    BY <1>1, <1>5
<1> HIDE DEF N, num, A, P, kept, newA, newP, new
<1>10. \A n \in num .. N + 1 : n \in num .. N \/ n = N + 1
    BY <1>1, <1>5
<1>11. \A n \in num .. N + 1 : \A m \in n .. N + 1 : (m \in n .. N /\ m \in num .. N /\ n \in num .. N) \/ m = N + 1
    BY <1>1, <1>5, SMTT(20)
<1>12. ASSUME NEW n \in num .. N
       PROVE  \/ /\ history'[n].active = newA
                 /\ \A m \in n .. N + 1 : history'[m].active = newA
              \/ /\ history'[n].active = new
                 /\ new # nullptr
                 /\ new.generation # newA.generation
    <2>0. n \in num .. N + 1
        BY <1>1, <1>5
    <2>1. CASE newA = A /\ history[n].active = A /\ \A m \in n .. N : history[m].active = A
        <3>1. \A m \in n .. N + 1 : history'[m].active = newA
            BY <1>2, <1>6, <1>11, <2>0, <2>1, Zenon
        <3>2. QED
            BY <1>6, <2>1, <3>1, Zenon
    <2>2. CASE newA = A /\ history[n].active = kept /\ kept # nullptr /\ kept.generation # A.generation
        <3>1. n \in num .. N
            BY Zenon
        <3>2. history[num].active # A
            <4>1. SUFFICES ASSUME \A m \in num .. N : history[m].active = A PROVE FALSE
                BY <1>7, <1>9, <2>2, Zenon
            <4>2. kept = A
                BY <2>2, <4>1, Zenon
            <4>3. QED
                BY <2>2, <4>2, Zenon
        <3>3. history[num].active = kept
            BY <1>7, <1>9, <3>2, Zenon
        <3>4. new = kept
            BY <1>3, <2>2, <3>3, Zenon
        <3>5. QED
            BY <1>6, <2>2, <3>4, Zenon
    <2>3. CASE newA.generation # A.generation /\ \A m \in num .. N : history[m].active = A
        <3>1. history[num].active = A /\ history[n].active = A
            BY <1>9, <2>3, Zenon
        <3>2. new = A /\ history'[n].active = A
            BY <1>3, <1>6, <2>3, <3>1, Zenon
        <3>3. new # nullptr
            BY <3>2, PolicyFields, Zenon DEF PoliciesOK, A
        <3>4. QED
            BY <2>3, <3>2, <3>3, Zenon
    <2>4. QED
        BY <1>7, <1>8, <2>1, <2>2, <2>3, Zenon
<1>13. ASSUME NEW n \in num .. N
       PROVE  \/ history'[n].pending = nullptr
              \/ history'[n].pending = newP
              \/ history'[n].pending.policy = newA
    BY <1>6, <1>7, <1>8, Zenon
<1>14. \A m \in N + 1 .. N + 1 : m = N + 1
    BY <1>1
<1>15. QED
    BY <1>1, <1>2, <1>4, <1>10, <1>12, <1>13, <1>14, Zenon DEF ClaimsKept, newA, newP, new

(* The fields of the policies that the code constructs. *)
LEMMA Constructors ==
    /\ \A g, f : finalizer_policy(g, f).generation = g /\ finalizer_policy(g, f).finalizers = f
    /\ \A n, p : in_flight(n, p).block_num = n /\ in_flight(n, p).policy = p
    /\ \A t, v, p : /\ proposer_policy(t, v, p).proposal_time = t
                    /\ proposer_policy(t, v, p).version = v
                    /\ proposer_policy(t, v, p).producers = p
BY Zenon DEF finalizer_policy, in_flight, proposer_policy

(* The policies in flight after a step were proposed, and a pending one    *)
(* when that was final.                                                    *)
LEMMA ProposalsNext ==
    ASSUME HistoryOK, PoliciesOK, PendingSince, ProposalsOK,
           NEW t, NEW claim, NEW finalizers, NEW producers, Step(t, claim, finalizers, producers),
           NEW k, NEW s, NEW left, PromotedTo(k, s, left), ProposedAre(s, finalizers)
    PROVE  ProposalsOK'
<1> DEFINE N        == bhs.block_num
           proposed == bhs.proposed_finalizer_policies
           new      == bhs'.proposed_finalizer_policies
           P        == bhs.pending_finalizer_policy
           newP     == bhs'.pending_finalizer_policy
           gen      == bhs.finalizer_policy_generation
<1>1. \A q, f : Proposed(q, f) => q \in Blocks' /\ history'[q].finalizers = f
    BY OldOrNew, Zenon DEF Proposed
<1>2. N + 1 \in Blocks' /\ history'[N + 1].finalizers = finalizers /\ history'[N + 1].last_final = last_final_block_num(bhs'.core)
    BY OldOrNew, NewRecord, Zenon
<1>3. \A i \in 1 .. Len(proposed) : Proposed(proposed[i].block_num, proposed[i].policy.finalizers)
    BY ProposedFields, Zenon DEF ProposalsOK
<1>4. ASSUME NEW i \in DOMAIN new
      PROVE  new[i].block_num \in Blocks' /\ history'[new[i].block_num].finalizers = new[i].policy.finalizers
    <2>0. EachProposed(s, finalizers)
        BY NewProposed, Zenon
    <2>1. CASE i + s \in 1 .. Len(proposed) /\ new[i] = proposed[i + s]
        BY <1>1, <1>3, <2>1, Zenon
    <2>2. CASE new[i].block_num = N + 1 /\ new[i].policy = finalizer_policy(gen + 1, finalizers)
        <3>1. new[i].policy.finalizers = finalizers
            BY <2>2, Constructors, SMTT(20)
        <3>2. QED
            BY <1>2, <2>2, <3>1, Zenon
    <2>3. QED
        BY <1>4, <2>0, <2>1, <2>2, Zenon DEF EachProposed
<1>5. ASSUME newP # nullptr
      PROVE  \E q \in Blocks' : /\ q \in Blocks' /\ history'[q].finalizers = newP.policy.finalizers
                                /\ q <= history'[newP.block_num].last_final
    <2>1. CASE newP = P
        <3>1. PICK q \in Blocks : Proposed(q, P.policy.finalizers) /\ q <= history[P.block_num].last_final
            BY <1>5, <2>1, Zenon DEF ProposalsOK
        <3>2. P.block_num \in Blocks
            BY <1>5, <2>1, Zenon DEF PendingSince
        <3>3. history'[P.block_num] = history[P.block_num]
            BY <3>2, OldOrNew, Zenon
        <3>4. QED
            BY <1>1, <2>1, <3>1, <3>3, Zenon
    <2>2. CASE k # 0 /\ newP = in_flight(N + 1, proposed[k].policy)
        <3>1. k \in 1 .. Len(proposed) /\ k <= k
            <4>1. k \in 0 .. Len(proposed)
                BY Zenon DEF PromotedTo
            <4>2. QED
                BY <2>2, <4>1
        <3>2. proposed[k].block_num <= last_final_block_num(bhs'.core)
            BY <3>1, Zenon DEF PromotedTo
        <3>3. newP.block_num = N + 1 /\ newP.policy = proposed[k].policy
            BY <2>2, Constructors
        <3>4. proposed[k].block_num <= history'[newP.block_num].last_final
            BY <1>2, <3>2, <3>3, Zenon
        <3>5. /\ proposed[k].block_num \in Blocks'
              /\ history'[proposed[k].block_num].finalizers = newP.policy.finalizers
            BY <1>1, <1>3, <3>1, <3>3, Zenon
        <3>6. QED
            BY <3>4, <3>5, Zenon
    <2>3. QED
        BY <1>5, <2>1, <2>2, Zenon DEF PromotedTo
<1>6. QED
    BY <1>4, <1>5, Zenon DEF ProposalsOK, Proposed

(* An active policy was pending and proposed in final blocks. *)
LEMMA FinalTwiceNext ==
    ASSUME HistoryOK, CoreOK, PoliciesOK, PendingSince, ProposalsOK, ActiveWasFinalTwice,
           NEW t, NEW claim, NEW finalizers, NEW producers, Step(t, claim, finalizers, producers),
           NEW k, NEW s, NEW left, PromotedTo(k, s, left)
    PROVE  ActiveWasFinalTwice'
<1> DEFINE A    == bhs.active_finalizer_policy
           P    == bhs.pending_finalizer_policy
           newA == bhs'.active_finalizer_policy
           lib  == last_final_block_num(bhs.core)
           new  == last_final_block_num(bhs'.core)
<1>1. \A n \in Blocks : n \in Blocks' /\ n \in Nat /\ history'[n] = history[n]
    BY OldOrNew, Zenon
<1>2. lib \in Nat /\ new \in Nat /\ lib <= new
    <2>1. lib \in Nat /\ new \in lib .. claim.block_num
        BY HeadNumbers, CoreGrows, Zenon
    <2> HIDE DEF lib, new
    <2>2. QED
        BY <2>1 DEF Step, Claims
<1>3. SUFFICES ASSUME newA.generation > 1
               PROVE  \E proposed \in Blocks', pending \in Blocks' :
                          /\ history'[proposed].finalizers = newA.finalizers
                          /\ history'[pending].pending # nullptr
                          /\ history'[pending].pending.policy = newA
                          /\ history'[pending].pending.block_num = pending
                          /\ proposed <= history'[pending].last_final
                          /\ pending <= new
    BY Zenon DEF ActiveWasFinalTwice, None
<1>4. CASE newA = A
    <2>1. PICK proposed \in Blocks, pending \in Blocks :
              /\ history[proposed].finalizers = A.finalizers
              /\ history[pending].pending # nullptr
              /\ history[pending].pending.policy = A
              /\ history[pending].pending.block_num = pending
              /\ proposed <= history[pending].last_final
              /\ pending <= lib
        BY <1>3, <1>4, Zenon DEF ActiveWasFinalTwice, None
    <2>2. pending <= new
        <3> HIDE DEF lib, new
        <3>1. pending \in Nat
            BY <1>1, Zenon
        <3>2. QED
            BY <1>2, <2>1, <3>1
    <2>3. QED
        BY <1>1, <1>4, <2>1, <2>2, Zenon
<1>5. CASE P # nullptr /\ P.block_num <= new /\ newA = P.policy
    <2>1. PICK q \in Blocks : Proposed(q, P.policy.finalizers) /\ q <= history[P.block_num].last_final
        BY <1>5, Zenon DEF ProposalsOK
    <2>2. P.block_num \in Blocks /\ history[P.block_num].pending = P
        <3>1. P.block_num \in Blocks /\ P.block_num \in 1 .. bhs.block_num
            BY <1>5, Zenon DEF PendingSince, Blocks, HistoryOK
        <3>2. P.block_num \in P.block_num .. bhs.block_num
            <4> HIDE DEF P
            <4>1. QED
                BY <3>1
        <3>3. QED
            BY <1>5, <3>1, <3>2, Zenon DEF PendingSince
    <2>3. QED
        BY <1>1, <1>5, <2>1, <2>2, Zenon DEF Proposed
<1>6. QED
    BY <1>4, <1>5, ActiveNext, Zenon

Proposing == {n \in Blocks : history[n].finalizers # nullptr}

Scheduling == {n \in Blocks : history[n].producers # nullptr}

(* The part of LatestProposalKept about finalizer policies. *)
LatestFinalizersKept ==
    /\ bhs.finalizer_policy_generation = 1 + Cardinality(Proposing)
    /\ \A n \in Proposing :
          (\A m \in Proposing : m <= n) => get_last_proposed_finalizer_policy(bhs).finalizers = history[n].finalizers

(* The part about schedules. *)
LatestScheduleKept ==
    \A n \in Scheduling :
        (\A m \in Scheduling : m <= n) => get_last_proposed_proposer_policy(bhs).producers = history[n].producers

(* The number of proposals grows with the generation, and the last policy  *)
(* is the one that the last of them proposed.                              *)
LEMMA LatestFinalizersNext ==
    ASSUME HistoryOK, PoliciesOK, LatestFinalizersKept,
           NEW t, NEW claim, NEW finalizers, NEW producers, Step(t, claim, finalizers, producers),
           NEW k, NEW s, NEW left, PromotedTo(k, s, left), ProposedAre(s, finalizers)
    PROVE  LatestFinalizersKept'
<1> DEFINE N    == bhs.block_num
           gen  == bhs.finalizer_policy_generation
           last == get_last_proposed_finalizer_policy(bhs)
           new  == get_last_proposed_finalizer_policy(bhs')
<1>1. N \in Nat /\ gen \in Nat
    BY Zenon DEF HistoryOK, PoliciesOK
<1>2. /\ \A n \in Blocks' : n \in Blocks \/ n = N + 1
      /\ \A n \in Blocks : n \in Blocks' /\ n \in Nat /\ n <= N /\ n # N + 1 /\ history'[n] = history[n]
      /\ N + 1 \in Blocks'
    BY OldOrNew, Zenon
<1>3. history'[N + 1].finalizers = finalizers
    BY NewRecord, Zenon
<1>4. IsFiniteSet(Proposing) /\ Cardinality(Proposing) \in Nat
    <2>1. Proposing \in SUBSET (1 .. N) /\ IsFiniteSet(1 .. N)
        <3>1. 1 \in Int /\ N \in Int
            BY <1>1
        <3>2. \A n \in Proposing : n \in 1 .. N
            BY HistoryGrows, Zenon DEF Proposing
        <3>3. QED
            BY <3>1, <3>2, FS_Interval, Zenon
    <2>2. IsFiniteSet(Proposing)
        BY <2>1, FS_Subset, Zenon
    <2>3. QED
        BY <2>2, FS_CardinalityType, Zenon
<1>5. CASE finalizers = nullptr
    <2>1. Proposing' = Proposing
        <3>1. \A n : n \in Proposing' <=> n \in Proposing
            BY <1>2, <1>3, <1>5, Zenon DEF Proposing
        <3>2. QED
            BY <3>1, Zenon
    <2>2. bhs'.finalizer_policy_generation = gen /\ new = last
        BY <1>5, LastProposedNext, Zenon DEF ProposedAre
    <2>3. \A n \in Proposing : history'[n] = history[n]
        BY <1>2, Zenon DEF Proposing
    <2>4. QED
        BY <2>1, <2>2, <2>3, Zenon DEF LatestFinalizersKept
<1>6. CASE finalizers # nullptr
    <2>1. Proposing' = Proposing \cup {N + 1} /\ N + 1 \notin Proposing
        <3>1. \A n : n \in Proposing' <=> n \in Proposing \cup {N + 1}
            BY <1>2, <1>3, <1>6, Zenon DEF Proposing
        <3>2. N + 1 \notin Proposing
            BY <1>2, Zenon DEF Proposing
        <3>3. QED
            BY <3>1, <3>2, Zenon
    <2>2. Cardinality(Proposing') = Cardinality(Proposing) + 1
        BY <1>4, <2>1, FS_AddElement, Zenon
    <2>3. bhs'.finalizer_policy_generation = gen + 1 /\ new = finalizer_policy(gen + 1, finalizers)
        BY <1>6, LastProposedNext, Zenon DEF ProposedAre
    <2>4. gen = 1 + Cardinality(Proposing)
        BY Zenon DEF LatestFinalizersKept
    <2>5. bhs'.finalizer_policy_generation = 1 + Cardinality(Proposing')
        BY <1>1, <1>4, <2>2, <2>3, <2>4, SMTT(20)
    <2>6. ASSUME NEW n \in Proposing', \A m \in Proposing' : m <= n
          PROVE  n = N + 1
        <3>1. n \in Proposing => n \in Nat /\ n <= N
            BY <1>2, Zenon DEF Proposing
        <3>2. N + 1 <= n
            BY <2>1, <2>6, Zenon
        <3>3. n \notin Proposing
            BY <1>1, <3>1, <3>2
        <3>4. QED
            BY <2>1, <3>3, Zenon
    <2>7. new.finalizers = finalizers
        BY <2>3, Constructors
    <2>8. QED
        BY <1>3, <2>5, <2>6, <2>7, Zenon DEF LatestFinalizersKept
<1>7. QED
    BY <1>5, <1>6, Zenon

-----------------------------------------------------------------------------
(* Producer schedules *)

(* A proposed schedule has the producers of the proposal and the next      *)
(* version; none is proposed when the producers are those of the last one. *)
LEMMA StepSchedules ==
    ASSUME PoliciesOK, NEW t, NEW claim, NEW finalizers, NEW producers, Step(t, claim, finalizers, producers)
    PROVE  LET last == get_last_proposed_proposer_policy(bhs)
           IN  \/ /\ bhs'.latest_proposed_proposer_policy = evaluate_proposer_policies_for_promotion(bhs, t).proposed
                  /\ producers = nullptr \/ last.producers = producers
               \/ /\ bhs'.latest_proposed_proposer_policy = proposer_policy(t, last.version + 1, producers)
                  /\ producers \in Lists
<1> DEFINE ext     == finality_extension(bhs, t, claim, finalizers, producers)
           last    == get_last_proposed_proposer_policy(bhs)
           d       == ext.new_proposer_policy_diff
           version == get_next_proposer_schedule_version(bhs, t, producers)
<1>1. bhs' = finish_next(bhs, t, ext)
    BY Zenon DEF Step
<1>2. version = IF last.producers # producers THEN last.version + 1 ELSE 0
    <2>1. CASE bhs.latest_proposed_proposer_policy # nullptr \/ bhs.latest_pending_proposer_policy # nullptr
        BY <2>1, Zenon DEF get_next_proposer_schedule_version
    <2>2. CASE bhs.latest_proposed_proposer_policy = nullptr /\ bhs.latest_pending_proposer_policy = nullptr
        <3>1. last = bhs.active_proposer_policy
            BY <2>2, Zenon DEF get_last_proposed_proposer_policy
        <3>2. get_active_proposer_policy_for_block_at(bhs, t) = bhs.active_proposer_policy
            BY <2>2, Zenon DEF get_active_proposer_policy_for_block_at
        <3>3. QED
            BY <2>2, <3>1, <3>2, Zenon DEF get_next_proposer_schedule_version
    <2>3. QED
        BY <2>1, <2>2, Zenon
<1>3. CASE producers = nullptr \/ version = 0
    <2>1. d = nullptr
        BY <1>3, Zenon DEF finality_extension
    <2>2. last.version \in Nat
        BY LastPolicies, Zenon DEF ProposerPolicies
    <2>3. producers = nullptr \/ last.producers = producers
        <3> HIDE DEF last, version
        <3>1. QED
            BY <1>2, <1>3, <2>2, SMTT(20)
    <2> HIDE DEF ext
    <2>4. bhs'.latest_proposed_proposer_policy = evaluate_proposer_policies_for_promotion(bhs, t).proposed
        BY <1>1, <2>1, Zenon DEF finish_next
    <2>5. QED
        BY <2>3, <2>4, Zenon
<1>4. CASE producers # nullptr /\ version # 0
    <2>1. d = create_proposer_diff(last, producers, version, t)
        BY <1>4, Zenon DEF finality_extension
    <2>2. last.producers \in AllLists /\ last.version \in Nat
        BY LastPolicies, Zenon DEF ProposerPolicies
    <2>3. producers \in Lists /\ t \in Nat
        BY <1>4, Zenon DEF Step
    <2>4. version = last.version + 1
        BY <1>2, <1>4, Zenon
    <2>5. version \in Nat
        BY <2>2, <2>4
    <2>6. diff(last.producers, producers) \in Diffs
        BY <2>2, <2>3 DEF Diffs
    <2> HIDE DEF last, version
    <2>7. d \in [version : Nat, proposal_time : Nat, producer_auth_diff : Diffs]
        <3>1. \A v \in Nat, x \in Diffs :
                  [version |-> v, proposal_time |-> t, producer_auth_diff |-> x] \in
                      [version : Nat, proposal_time : Nat, producer_auth_diff : Diffs]
            BY <2>3, Zenon
        <3>2. QED
            BY <2>1, <2>5, <2>6, <3>1, Zenon DEF create_proposer_diff
    <2>8. d # nullptr
        BY <2>7, NullptrAssumption, Zenon
    <2>9. d.version = version /\ d.proposal_time = t /\ d.producer_auth_diff = diff(last.producers, producers)
        BY <2>1 DEF create_proposer_diff
    <2>10. apply_proposer_diff(last, d) = proposer_policy(t, version, producers)
        <3>1. apply_diff(last.producers, d.producer_auth_diff) = producers
            BY <2>2, <2>3, <2>9, DiffsAreUndone, Zenon
        <3> HIDE DEF d
        <3>2. QED
            BY <2>9, <3>1, Zenon DEF apply_proposer_diff
    <2> HIDE DEF ext
    <2>11. bhs'.latest_proposed_proposer_policy = apply_proposer_diff(last, d)
        BY <1>1, <2>8, Zenon DEF finish_next, last
    <2>12. QED
        BY <2>3, <2>4, <2>10, <2>11, Zenon DEF last
<1>5. QED
    BY <1>3, <1>4, Zenon

(* The three outcomes of get_active_proposer_policy_for_block_at, with the *)
(* schedules pending and proposed that are left.                           *)
ScheduleStays(pending, proposed) ==
    /\ bhs'.active_proposer_policy = bhs.active_proposer_policy
    /\ pending = bhs.latest_pending_proposer_policy
    /\ proposed = bhs.latest_proposed_proposer_policy

ProposedTakesOver(t, pending, proposed) ==
    LET policy == bhs.latest_proposed_proposer_policy
    IN  /\ ~in_same_round(t, bhs.timestamp)
        /\ policy # nullptr
        /\ before_prior_round(policy.proposal_time, bhs.timestamp)
        /\ policy.proposal_time <= last_final_block_timestamp(bhs.core)
        /\ bhs'.active_proposer_policy = policy
        /\ pending = nullptr
        /\ proposed = nullptr

PendingTakesOver(t, pending, proposed) ==
    LET policy == bhs.latest_pending_proposer_policy
    IN  /\ ~in_same_round(t, bhs.timestamp)
        /\ policy # nullptr
        /\ policy.proposal_time <= last_final_block_timestamp(bhs.core)
        /\ bhs'.active_proposer_policy = policy
        /\ pending = nullptr
        /\ proposed = bhs.latest_proposed_proposer_policy

(* left: the proposed schedule after promotion, and before the proposal of *)
(* the block.                                                              *)
SchedulesAre(t, pending, proposed, left) ==
    /\ \/ ScheduleStays(pending, proposed)
       \/ ProposedTakesOver(t, pending, proposed)
       \/ PendingTakesOver(t, pending, proposed)
    /\ \/ bhs'.latest_pending_proposer_policy = pending /\ left = proposed
       \/ /\ first_block_of_round(t, bhs.timestamp)
          /\ pending = nullptr
          /\ proposed # nullptr
          /\ bhs'.latest_pending_proposer_policy = proposed
          /\ left = nullptr

(* evaluate_proposer_policies_for_promotion, in these terms: the policies  *)
(* in flight have different versions, so that the comparisons of pointers  *)
(* in the code tell them apart.                                            *)
LEMMA SchedulesPromoted ==
    ASSUME PoliciesOK, SchedulesOK,
           NEW t, NEW claim, NEW finalizers, NEW producers, Step(t, claim, finalizers, producers)
    PROVE  \E pending, proposed :
               SchedulesAre(t, pending, proposed, evaluate_proposer_policies_for_promotion(bhs, t).proposed)
<1> DEFINE a      == bhs.active_proposer_policy
           p      == bhs.latest_pending_proposer_policy
           q      == bhs.latest_proposed_proposer_policy
           active == get_active_proposer_policy_for_block_at(bhs, t)
           prop   == proposed_proposer_left(bhs, active)
           pend   == pending_proposer_left(bhs, active)
           now    == evaluate_proposer_policies_for_promotion(bhs, t)
<1>1. bhs'.active_proposer_policy = active
    BY StepFields, Zenon DEF evaluate_proposer_policies_for_promotion
<1>2. bhs'.latest_pending_proposer_policy = now.pending
    BY StepFields, Zenon
<1>3. /\ p # nullptr => p # a
      /\ q # nullptr => q # a
      /\ p # nullptr /\ q # nullptr => p # q
    <2>1. /\ p # nullptr => p.version > a.version
          /\ q # nullptr => q.version > a.version
          /\ q # nullptr => (p # nullptr => q.version > p.version)
        BY Zenon DEF SchedulesOK
    <2>2. /\ a.version \in Nat
          /\ p # nullptr => p.version \in Nat
          /\ q # nullptr => q.version \in Nat
        BY Zenon DEF PoliciesOK, ProposerPolicies
    <2> HIDE DEF a, p, q
    <2>3. QED
        BY <2>1, <2>2
<1>4. \/ ScheduleStays(pend, prop)
      \/ ProposedTakesOver(t, pend, prop)
      \/ PendingTakesOver(t, pend, prop)
    <2> HIDE DEF active
    <2>1. CASE active = a
        <3>1. pend = p /\ prop = q
            BY <2>1, Zenon DEF pending_proposer_left, proposed_proposer_left
        <3>2. QED
            BY <1>1, <2>1, <3>1, Zenon DEF ScheduleStays
    <2>2. CASE /\ ~in_same_round(t, bhs.timestamp)
               /\ q # nullptr
               /\ before_prior_round(q.proposal_time, bhs.timestamp)
               /\ q.proposal_time <= last_final_block_timestamp(bhs.core)
               /\ active = q
        <3>1. pend = nullptr /\ prop = nullptr
            BY <1>3, <2>2, Zenon DEF pending_proposer_left, proposed_proposer_left
        <3>2. QED
            BY <1>1, <2>2, <3>1, Zenon DEF ProposedTakesOver
    <2>3. CASE /\ ~in_same_round(t, bhs.timestamp)
               /\ p # nullptr
               /\ p.proposal_time <= last_final_block_timestamp(bhs.core)
               /\ active = p
        <3>1. pend = nullptr
            BY <1>3, <2>3, Zenon DEF pending_proposer_left
        <3>2. prop = q
            BY <1>3, <2>3, Zenon DEF proposed_proposer_left
        <3>3. QED
            BY <1>1, <2>3, <3>1, <3>2, Zenon DEF PendingTakesOver
    <2>4. QED
        BY <2>1, <2>2, <2>3, Zenon DEF active, get_active_proposer_policy_for_block_at
<1> HIDE DEF prop, pend, active
<1>5. /\ now.proposed = IF moves_to_pending(t, bhs, prop, pend) THEN nullptr ELSE prop
      /\ now.pending = IF moves_to_pending(t, bhs, prop, pend) THEN prop ELSE pend
    BY Zenon DEF evaluate_proposer_policies_for_promotion, prop, pend, active
<1>6. SchedulesAre(t, pend, prop, now.proposed)
    BY <1>2, <1>4, <1>5, Zenon DEF SchedulesAre, moves_to_pending
<1>7. QED
    BY <1>6, Zenon

(* The slots of a round. *)
LEMMA RoundOf ==
    ASSUME NEW t \in Nat
    PROVE  /\ Round(t) \in Nat
           /\ producer_repetitions * Round(t) <= t
           /\ t < producer_repetitions * Round(t) + producer_repetitions
           /\ get_current_round_start_slot(t) = producer_repetitions * Round(t)
<1>1. PICK R \in Nat \ {0} : R = producer_repetitions
    BY ProducerRepetitionsAssumption, Zenon
<1>2. t = R * (t \div R) + (t % R) /\ t \div R \in Int /\ t % R \in 0 .. R - 1
    BY <1>1
<1>3. t \div R >= 0
    BY <1>1
<1>4. QED
    BY <1>1, <1>2, <1>3 DEF Round, get_current_round_start_slot

(* Multiples of a round are a round apart. *)
LEMMA Times ==
    ASSUME NEW r \in Nat, NEW a \in Int, NEW b \in Int, a < b
    PROVE  r * a + r <= r * b
<1>1. PICK d \in Nat : b = (a + 1) + d
    <2>1. b - (a + 1) \in Nat /\ b = (a + 1) + (b - (a + 1))
        OBVIOUS
    <2>2. QED
        BY <2>1, Zenon
<1>2. r * b = r * a + r + r * d
    BY <1>1
<1>3. r * d >= 0 /\ r * d \in Int /\ r * a \in Int
    OBVIOUS
<1>4. QED
    BY <1>2, <1>3

(* What the comparisons of slots say of the rounds. *)
LEMMA Rounds ==
    ASSUME NEW s \in Nat, NEW t \in Nat
    PROVE  /\ Round(s) \in Nat /\ Round(t) \in Nat
           /\ s <= t => Round(s) <= Round(t)
           /\ ~in_same_round(t, s) => Round(s) + 1 <= Round(t)
           /\ first_block_of_round(t, s) => Round(s) + 1 <= Round(t)
           /\ before_prior_round(s, t) => Round(s) + 2 <= Round(t)
<1>1. PICK R \in Nat : R = producer_repetitions
    BY ProducerRepetitionsAssumption, Zenon
<1>2. PICK a \in Nat : a = Round(s)
    BY RoundOf, Zenon
<1>3. PICK b \in Nat : b = Round(t)
    BY RoundOf, Zenon
<1>4. /\ R * a <= s /\ s < R * a + R /\ get_current_round_start_slot(s) = R * a
      /\ R * b <= t /\ t < R * b + R /\ get_current_round_start_slot(t) = R * b
    BY <1>1, <1>2, <1>3, RoundOf, Zenon
<1>5. /\ in_same_round(t, s) <=> t < R * a + R
      /\ first_block_of_round(t, s) <=> s < R * b
      /\ before_prior_round(s, t) => s < R * b - R
    BY <1>1, <1>4, Zenon DEF in_same_round, first_block_of_round, before_prior_round
<1>6. R * a \in Int /\ R * b \in Int
    OBVIOUS
<1>7. b < a => R * b + R <= R * a
    BY Times
<1>8. b = a => R * b = R * a
    BY Zenon
<1>9. s <= t => a <= b
    BY <1>4, <1>6, <1>7
<1>10. t >= R * a + R => a + 1 <= b
    BY <1>4, <1>6, <1>7, <1>8, SMTT(20)
<1>11. s < R * b => a + 1 <= b
    BY <1>4, <1>6, <1>7, <1>8
<1>12. s < R * b - R => a + 2 <= b
    <2>1. b = a + 1 => R * b = R * a + R
        BY SMTT(20)
    <2>2. QED
        BY <1>4, <1>6, <1>7, <1>8, <2>1
<1>13. /\ ~in_same_round(t, s) => a + 1 <= b
       /\ first_block_of_round(t, s) => a + 1 <= b
       /\ before_prior_round(s, t) => a + 2 <= b
    BY <1>5, <1>6, <1>10, <1>11, <1>12, SMTT(20)
<1>14. QED
    BY <1>2, <1>3, <1>9, <1>13, Zenon

(* A proposal that is not later than the last final block is final.        *)
LEMMA ProposalFinal ==
    ASSUME HistoryOK, CoreOK, NEW n \in Blocks, history[n].timestamp <= last_final_block_timestamp(bhs.core)
    PROVE  n <= last_final_block_num(bhs.core)
<1> DEFINE lib == last_final_block_num(bhs.core)
           N   == bhs.block_num
<1>1. N \in Nat /\ lib \in Nat /\ 1 <= lib /\ lib <= N /\ Blocks = 1 .. N
    <2>1. /\ N \in Nat /\ lib \in Nat /\ latest_qc_claim(bhs.core).block_num \in Nat
          /\ 1 <= lib /\ lib <= latest_qc_claim(bhs.core).block_num /\ latest_qc_claim(bhs.core).block_num <= N
          /\ Blocks = 1 .. N
        BY HeadNumbers, Zenon DEF HistoryOK, Blocks
    <2> HIDE DEF lib, N
    <2>2. QED
        BY <2>1
<1>2. lib \in Blocks
    <2> HIDE DEF lib, N
    <2>1. QED
        BY <1>1
<1>3. last_final_block_timestamp(bhs.core) = history[lib].timestamp
    <2>1. CASE is_genesis_core(bhs.core)
        <3>1. lib = 1
            <4>1. /\ lib = N /\ latest_qc_claim(bhs.core).block_num \in Nat
                  /\ lib <= latest_qc_claim(bhs.core).block_num
                  /\ N > 1 => latest_qc_claim(bhs.core).block_num < N
                BY <2>1, HeadNumbers, Zenon
            <4> HIDE DEF lib, N
            <4>2. QED
                BY <1>1, <4>1
        <3>2. QED
            BY <2>1, <3>1, Zenon DEF last_final_block_timestamp, CoreOK
    <2>2. CASE ~is_genesis_core(bhs.core)
        <3>1. lib # N
            BY <2>2, HeadNumbers, Zenon
        <3>2. lib < N /\ lib <= lib
            <4> HIDE DEF lib, N
            <4>1. QED
                BY <1>1, <3>1
        <3>3. get_block_reference(bhs.core, lib) = RefIn(history, lib)
            BY <1>1, <3>2, Reference, ZenonT(60) DEF CoreOK
        <3>4. RefIn(history, lib).timestamp = history[lib].timestamp
            BY Zenon DEF RefIn, block_ref
        <3>5. QED
            BY <2>2, <3>3, <3>4, Zenon DEF last_final_block_timestamp
    <2>3. QED
        BY <2>1, <2>2, Zenon
<1>4. lib < n => history[lib].timestamp < history[n].timestamp
    BY <1>2, Zenon DEF HistoryOK
<1>5. history[lib].timestamp \in Nat /\ history[n].timestamp \in Nat
    <2>1. \A m \in Blocks : history[m] \in BlockRecords
        <3>1. history \in Seq(BlockRecords)
            BY Zenon DEF HistoryOK
        <3>2. QED
            BY <3>1 DEF Blocks
    <2>2. \A r \in BlockRecords : r.timestamp \in Nat
        BY Zenon DEF BlockRecords
    <2>3. QED
        BY <1>2, <2>1, <2>2, Zenon
<1> HIDE DEF lib, N
<1>6. n \in Nat
    BY <1>1
<1>7. QED
    BY <1>1, <1>3, <1>4, <1>5, <1>6 DEF lib

(* What the block proposes: nothing, the producers of the last schedule,   *)
(* or a schedule with the next version.                                    *)
ScheduleProposed(t, producers, left) ==
    LET last == get_last_proposed_proposer_policy(bhs)
    IN  \/ /\ bhs'.latest_proposed_proposer_policy = left
           /\ producers = nullptr \/ last.producers = producers
        \/ /\ bhs'.latest_proposed_proposer_policy = proposer_policy(t, last.version + 1, producers)
           /\ producers \in Lists

(* The schedules after a step. *)
LEMMA SchedulesNow ==
    ASSUME PoliciesOK, SchedulesOK,
           NEW t, NEW claim, NEW finalizers, NEW producers, Step(t, claim, finalizers, producers)
    PROVE  \E pending, proposed, left :
               SchedulesAre(t, pending, proposed, left) /\ ScheduleProposed(t, producers, left)
<1>1. ScheduleProposed(t, producers, evaluate_proposer_policies_for_promotion(bhs, t).proposed)
    BY StepSchedules, Zenon DEF ScheduleProposed
<1>2. QED
    BY <1>1, SchedulesPromoted, Zenon

(* The schedules in flight after a step are schedules. *)
LEMMA ScheduleTypes ==
    ASSUME PoliciesOK, NEW t \in Nat, NEW producers, NEW pending, NEW proposed, NEW left,
           SchedulesAre(t, pending, proposed, left), ScheduleProposed(t, producers, left)
    PROVE  /\ bhs'.active_proposer_policy \in ProposerPolicies
           /\ bhs'.latest_pending_proposer_policy \in ProposerPolicies \cup {nullptr}
           /\ bhs'.latest_proposed_proposer_policy \in ProposerPolicies \cup {nullptr}
           /\ left \in ProposerPolicies \cup {nullptr}
<1>1. /\ bhs.active_proposer_policy \in ProposerPolicies
      /\ bhs.latest_pending_proposer_policy \in ProposerPolicies \cup {nullptr}
      /\ bhs.latest_proposed_proposer_policy \in ProposerPolicies \cup {nullptr}
    BY Zenon DEF PoliciesOK
<1>2. /\ bhs'.active_proposer_policy \in ProposerPolicies
      /\ pending \in ProposerPolicies \cup {nullptr}
      /\ proposed \in ProposerPolicies \cup {nullptr}
    BY <1>1, Zenon DEF SchedulesAre, ScheduleStays, ProposedTakesOver, PendingTakesOver
<1>3. bhs'.latest_pending_proposer_policy \in ProposerPolicies \cup {nullptr} /\ left \in ProposerPolicies \cup {nullptr}
    BY <1>2, Zenon DEF SchedulesAre
<1>4. ASSUME producers \in Lists
      PROVE  proposer_policy(t, get_last_proposed_proposer_policy(bhs).version + 1, producers) \in ProposerPolicies
    <2>1. get_last_proposed_proposer_policy(bhs).version \in Nat
        BY LastPolicies, PolicyFields, Zenon
    <2>2. get_last_proposed_proposer_policy(bhs).version + 1 \in Nat
        BY <2>1
    <2>3. producers \in AllLists
        BY <1>4, Zenon DEF AllLists
    <2>4. QED
        BY <2>2, <2>3, PolicyFields, Zenon
<1>5. bhs'.latest_proposed_proposer_policy \in ProposerPolicies \cup {nullptr}
    BY <1>3, <1>4, Zenon DEF ScheduleProposed
<1>6. QED
    BY <1>2, <1>3, <1>5, Zenon

(* The fields with policies keep their types. *)
LEMMA PoliciesNext ==
    ASSUME HistoryOK, CoreOK, PoliciesOK, InOrder, ClaimsKept,
           NEW t, NEW claim, NEW finalizers, NEW producers, Step(t, claim, finalizers, producers),
           NEW k, NEW s, NEW left, PromotedTo(k, s, left), ProposedAre(s, finalizers),
           NEW pending, NEW proposed, NEW rest,
           SchedulesAre(t, pending, proposed, rest), ScheduleProposed(t, producers, rest)
    PROVE  PoliciesOK'
<1>1. /\ bhs'.active_finalizer_policy \in FinalizerPolicies
      /\ bhs'.pending_finalizer_policy \in InFlightPolicies \cup {nullptr}
      /\ bhs'.proposed_finalizer_policies \in Seq(InFlightPolicies)
      /\ bhs'.finalizer_policy_generation \in Nat
    BY FinalizerTypes, Zenon
<1>2. t \in Nat
    BY Zenon DEF Step
<1>3. /\ bhs'.active_proposer_policy \in ProposerPolicies
      /\ bhs'.latest_pending_proposer_policy \in ProposerPolicies \cup {nullptr}
      /\ bhs'.latest_proposed_proposer_policy \in ProposerPolicies \cup {nullptr}
    BY <1>2, ScheduleTypes, Zenon
<1>4. bhs'.latest_qc_claim_block_active_finalizer_policy \in FinalizerPolicies \cup {nullptr}
    <2>1. claim.block_num \in Blocks
        BY KeptNext, Zenon
    <2>2. history[claim.block_num].active \in FinalizerPolicies
        BY <2>1, RecordFields, Zenon
    <2>3. \/ bhs'.latest_qc_claim_block_active_finalizer_policy = nullptr
          \/ bhs'.latest_qc_claim_block_active_finalizer_policy = history[claim.block_num].active
        BY KeptNext, Zenon
    <2>4. QED
        BY <2>2, <2>3, Zenon
<1>5. QED
    BY <1>1, <1>3, <1>4, Zenon DEF PoliciesOK

(* A record is added for the new block, which is later than the others.    *)
LEMMA HistoryNext ==
    ASSUME HistoryOK, CoreOK,
           NEW t, NEW claim, NEW finalizers, NEW producers, Step(t, claim, finalizers, producers), PoliciesOK'
    PROVE  HistoryOK'
<1> DEFINE N == bhs.block_num
           r == Recorded(bhs', finalizers, producers)
<1>1. N \in Nat /\ N >= 1 /\ bhs.timestamp \in Nat /\ history \in Seq(BlockRecords) /\ kind \in Kinds
    BY Zenon DEF HistoryOK
<1>2. t \in Nat /\ t > bhs.timestamp /\ kind' = kind
    BY Zenon DEF Step
<1>3. bhs'.block_num = N + 1 /\ bhs'.timestamp = t /\ Len(history') = N + 1
    BY StepFields, HistoryGrows, Zenon
<1>4. N + 1 \in Nat /\ N + 1 >= 1
    BY <1>1
<1>5. r \in BlockRecords
    <2>1. bhs'.active_finalizer_policy \in FinalizerPolicies
        BY Zenon DEF PoliciesOK
    <2>2. bhs'.pending_finalizer_policy \in InFlightPolicies \cup {nullptr}
        BY Zenon DEF PoliciesOK
    <2>3. bhs'.active_proposer_policy \in ProposerPolicies
        BY Zenon DEF PoliciesOK
    <2>4. last_final_block_num(bhs'.core) \in Nat
        <3>1. /\ last_final_block_num(bhs.core) \in Nat
              /\ last_final_block_num(bhs'.core) \in last_final_block_num(bhs.core) .. claim.block_num
            BY HeadNumbers, CoreGrows, Zenon
        <3>2. PICK a, b : a = last_final_block_num(bhs.core) /\ b = last_final_block_num(bhs'.core)
            BY Zenon
        <3>3. claim.block_num \in Nat
            BY Zenon DEF Step, Claims
        <3>4. a \in Nat /\ b \in a .. claim.block_num
            BY <3>1, <3>2, Zenon
        <3>5. b \in Nat
            BY <3>3, <3>4
        <3>6. QED
            BY <3>2, <3>5, Zenon
    <2>5. finalizers \in Lists \cup {nullptr} /\ producers \in Lists \cup {nullptr}
        BY Zenon DEF Step
    <2>6. \A ts \in Nat, lf \in Nat, ac \in FinalizerPolicies, pe \in InFlightPolicies \cup {nullptr},
             pr \in ProposerPolicies, fi \in Lists \cup {nullptr}, ps \in Lists \cup {nullptr} :
              [timestamp |-> ts, last_final |-> lf, active |-> ac, pending |-> pe,
               proposer |-> pr, finalizers |-> fi, producers |-> ps] \in BlockRecords
        BY Zenon DEF BlockRecords
    <2>7. QED
        BY <1>2, <1>3, <2>1, <2>2, <2>3, <2>4, <2>5, <2>6, Zenon DEF Recorded
<1>6. history' \in Seq(BlockRecords)
    <2>1. history' = Append(history, r)
        BY Zenon DEF Step
    <2> HIDE DEF r
    <2>2. QED
        BY <1>1, <1>5, <2>1
<1>7. ASSUME NEW m \in Blocks', NEW n \in Blocks', m < n
      PROVE  history'[m].timestamp < history'[n].timestamp
    <2>1. CASE n \in Blocks
        <3>1. m \in Blocks
            <4>1. Blocks = 1 .. N /\ m \in 1 .. N + 1
                BY HistoryGrows, Zenon
            <4> HIDE DEF N
            <4>2. QED
                BY <1>1, <1>7, <2>1, <4>1
        <3>2. history'[m] = history[m] /\ history'[n] = history[n]
            BY <2>1, <3>1, HistoryGrows, Zenon
        <3>3. QED
            BY <1>7, <2>1, <3>1, <3>2, Zenon DEF HistoryOK
    <2>2. CASE n = N + 1
        <3>1. m \in 1 .. N /\ N \in Blocks /\ Blocks = 1 .. N
            <4>1. Blocks = 1 .. N /\ m \in 1 .. N + 1
                BY HistoryGrows, Zenon
            <4> HIDE DEF N
            <4>2. QED
                BY <1>1, <1>7, <2>2, <4>1, SMTT(20)
        <3>2. history'[m] = history[m] /\ history'[n].timestamp = t
            BY <2>2, <3>1, HistoryGrows, NewRecord, Zenon
        <3>3. history[N].timestamp = bhs.timestamp /\ (m < N => history[m].timestamp < history[N].timestamp)
            BY <3>1, Zenon DEF HistoryOK
        <3>4. history[m].timestamp \in Nat
            BY <3>1, RecordFields, Zenon
        <3>5. m < N \/ m = N
            BY <1>1, <3>1
        <3>6. history[m].timestamp < t
            BY <1>1, <1>2, <3>3, <3>4, <3>5
        <3>7. QED
            BY <3>2, <3>6, Zenon
    <2>3. QED
        BY <1>7, <2>1, <2>2, OldOrNew, Zenon
<1>8. QED
    BY <1>1, <1>2, <1>3, <1>4, <1>6, <1>7, NewRecord, Zenon DEF HistoryOK

(* The proposal of a schedule stays in the history, and is not later than  *)
(* the head.                                                               *)
LEMMA ScheduledStays ==
    ASSUME HistoryOK, NEW t, NEW claim, NEW finalizers, NEW producers, Step(t, claim, finalizers, producers),
           NEW policy, Scheduled(policy)
    PROVE  /\ \E n \in Blocks' : /\ history'[n].timestamp = policy.proposal_time
                                 /\ history'[n].producers = policy.producers
           /\ policy.proposal_time \in Nat
           /\ policy.proposal_time <= bhs.timestamp
<1>1. PICK n \in Blocks : history[n].timestamp = policy.proposal_time /\ history[n].producers = policy.producers
    BY Zenon DEF Scheduled
<1>2. n \in Blocks' /\ history'[n] = history[n]
    BY OldOrNew, Zenon
<1>3. history[n].timestamp \in Nat /\ bhs.timestamp \in Nat
    BY RecordFields, Zenon DEF HistoryOK
<1>4. history[n].timestamp <= bhs.timestamp
    <2>1. bhs.block_num \in Blocks /\ n \in 1 .. bhs.block_num /\ bhs.block_num \in Nat
        BY HistoryGrows, Zenon DEF HistoryOK
    <2>2. n < bhs.block_num => history[n].timestamp < history[bhs.block_num].timestamp
        BY <2>1, Zenon DEF HistoryOK
    <2>3. history[bhs.block_num].timestamp = bhs.timestamp
        BY Zenon DEF HistoryOK
    <2>4. n < bhs.block_num \/ n = bhs.block_num
        BY <2>1
    <2>5. CASE n = bhs.block_num
        BY <1>3, <2>3, <2>5, SMTT(20)
    <2>6. CASE n < bhs.block_num
        BY <1>3, <2>2, <2>3, <2>6
    <2>7. QED
        BY <2>4, <2>5, <2>6, Zenon
<1>5. QED
    BY <1>1, <1>2, <1>3, <1>4, Zenon

(* The versions and rounds of the schedules that are left once one has     *)
(* taken over.                                                             *)
TakenOver(pending, proposed) ==
    LET version == bhs'.active_proposer_policy.version
    IN  /\ version >= bhs.active_proposer_policy.version
        /\ version >= 1
        /\ pending # nullptr => /\ Scheduled(pending)
                                /\ pending.version > version
                                /\ Round(pending.proposal_time) + 1 <= Round(bhs.timestamp)
        /\ proposed # nullptr => /\ Scheduled(proposed)
                                 /\ proposed.version > version
                                 /\ pending # nullptr => proposed.version > pending.version

(* Of the schedules in flight only those newer than the active one stay.   *)
LEMMA TakesOver ==
    ASSUME PoliciesOK, SchedulesOK, NEW t, NEW pending, NEW proposed, NEW left,
           SchedulesAre(t, pending, proposed, left)
    PROVE  TakenOver(pending, proposed)
<1> DEFINE a == bhs.active_proposer_policy
           p == bhs.latest_pending_proposer_policy
           q == bhs.latest_proposed_proposer_policy
<1>1. /\ a.version \in Nat
      /\ p # nullptr => p.version \in Nat
      /\ q # nullptr => q.version \in Nat
    BY DEF PoliciesOK, ProposerPolicies
<1>2. /\ a.version >= 1
      /\ p # nullptr => Scheduled(p) /\ p.version > a.version /\ Round(p.proposal_time) + 1 <= Round(bhs.timestamp)
      /\ q # nullptr => Scheduled(q) /\ q.version > a.version
      /\ q # nullptr => (p # nullptr => q.version > p.version)
    BY Zenon DEF SchedulesOK
<1>3. a.version >= a.version
    BY <1>1
<1>4. CASE ScheduleStays(pending, proposed)
    BY <1>2, <1>3, <1>4, Zenon DEF ScheduleStays, TakenOver
<1>5. CASE ProposedTakesOver(t, pending, proposed)
    <2>1. q # nullptr
        BY <1>5, Zenon DEF ProposedTakesOver
    <2>2. q.version >= a.version /\ q.version >= 1
        <3> HIDE DEF a, q, p
        <3>1. QED
            BY <1>1, <1>2, <2>1, SMTT(20)
    <2>3. QED
        BY <1>5, <2>2, Zenon DEF ProposedTakesOver, TakenOver
<1>6. CASE PendingTakesOver(t, pending, proposed)
    <2>1. p # nullptr
        BY <1>6, Zenon DEF PendingTakesOver
    <2>2. p.version >= a.version /\ p.version >= 1
        <3> HIDE DEF a, q, p
        <3>1. QED
            BY <1>1, <1>2, <2>1
    <2>3. QED
        BY <1>2, <1>6, <2>1, <2>2, Zenon DEF PendingTakesOver, TakenOver
<1>7. QED
    BY <1>4, <1>5, <1>6, Zenon DEF SchedulesAre

(* The last schedule has the highest version. *)
LEMMA LastVersion ==
    ASSUME PoliciesOK, SchedulesOK
    PROVE  LET last == get_last_proposed_proposer_policy(bhs).version
           IN  /\ last \in Nat
               /\ last >= bhs.active_proposer_policy.version
               /\ bhs.latest_pending_proposer_policy # nullptr => last >= bhs.latest_pending_proposer_policy.version
               /\ bhs.latest_proposed_proposer_policy # nullptr => last >= bhs.latest_proposed_proposer_policy.version
<1> DEFINE a == bhs.active_proposer_policy
           p == bhs.latest_pending_proposer_policy
           q == bhs.latest_proposed_proposer_policy
           l == get_last_proposed_proposer_policy(bhs)
<1>1. /\ a.version \in Nat
      /\ p # nullptr => p.version \in Nat
      /\ q # nullptr => q.version \in Nat
    BY Zenon DEF PoliciesOK, ProposerPolicies
<1>2. /\ p # nullptr => p.version > a.version
      /\ q # nullptr => q.version > a.version
      /\ q # nullptr => (p # nullptr => q.version > p.version)
    BY Zenon DEF SchedulesOK
<1>3. \/ q # nullptr /\ l = q
      \/ q = nullptr /\ p # nullptr /\ l = p
      \/ q = nullptr /\ p = nullptr /\ l = a
    BY Zenon DEF get_last_proposed_proposer_policy
<1> HIDE DEF a, p, q, l
<1>4. /\ l.version \in Nat
      /\ l.version >= a.version
      /\ p # nullptr => l.version >= p.version
      /\ q # nullptr => l.version >= q.version
    BY <1>1, <1>2, <1>3
<1>5. QED
    BY <1>4, Zenon DEF a, p, q, l

(* The schedules in flight after a step were proposed, and their versions  *)
(* increase.                                                               *)
LEMMA SchedulesNext ==
    ASSUME HistoryOK, PoliciesOK, SchedulesOK,
           NEW t, NEW claim, NEW finalizers, NEW producers, Step(t, claim, finalizers, producers),
           NEW pending, NEW proposed, NEW left,
           SchedulesAre(t, pending, proposed, left), ScheduleProposed(t, producers, left)
    PROVE  SchedulesOK'
<1> DEFINE a    == bhs'.active_proposer_policy
           p    == bhs'.latest_pending_proposer_policy
           q    == bhs'.latest_proposed_proposer_policy
           last == get_last_proposed_proposer_policy(bhs)
           Kept(policy) == \E n \in Blocks' : /\ history'[n].timestamp = policy.proposal_time
                                              /\ history'[n].producers = policy.producers
<1>1. t \in Nat /\ bhs.timestamp \in Nat /\ bhs.timestamp <= t /\ bhs'.timestamp = t
    <2>1. t \in Nat /\ bhs.timestamp \in Nat /\ t > bhs.timestamp /\ bhs'.timestamp = t
        BY StepFields, Zenon DEF HistoryOK, Step
    <2>2. QED
        BY <2>1
<1>2. TakenOver(pending, proposed)
    BY TakesOver, Zenon
<1>3. /\ a.version \in Nat
      /\ p # nullptr => p.version \in Nat /\ p.proposal_time \in Nat
    BY <1>1, ScheduleTypes, Zenon DEF ProposerPolicies
<1>4. Round(bhs.timestamp) <= Round(t) /\ Round(t) \in Nat /\ Round(bhs.timestamp) \in Nat
    BY <1>1, Rounds, Zenon
<1>5. p # nullptr => /\ Kept(p)
                     /\ p.version > a.version
                     /\ Round(p.proposal_time) + 1 <= Round(t)
    <2>1. CASE p = pending
        <3>1. SUFFICES ASSUME pending # nullptr
                       PROVE  Kept(p) /\ p.version > a.version /\ Round(p.proposal_time) + 1 <= Round(t)
            BY <2>1, Zenon
        <3>2. Scheduled(pending) /\ pending.version > a.version /\ Round(pending.proposal_time) + 1 <= Round(bhs.timestamp)
            BY <1>2, <3>1, Zenon DEF TakenOver
        <3>3. Kept(pending) /\ pending.proposal_time \in Nat
            BY <3>2, ScheduledStays, Zenon
        <3>4. Round(pending.proposal_time) \in Nat
            BY <1>1, <3>3, Rounds, Zenon
        <3>5. Round(pending.proposal_time) + 1 <= Round(t)
            BY <1>4, <3>2, <3>4, SMTT(20)
        <3>6. QED
            BY <2>1, <3>2, <3>3, <3>5, Zenon
    <2>2. CASE first_block_of_round(t, bhs.timestamp) /\ proposed # nullptr /\ p = proposed
        <3>1. Scheduled(proposed) /\ proposed.version > a.version
            BY <1>2, <2>2, Zenon DEF TakenOver
        <3>2. Kept(proposed) /\ proposed.proposal_time \in Nat /\ proposed.proposal_time <= bhs.timestamp
            BY <3>1, ScheduledStays, Zenon
        <3>3. /\ Round(proposed.proposal_time) \in Nat
              /\ Round(proposed.proposal_time) <= Round(bhs.timestamp)
              /\ Round(bhs.timestamp) + 1 <= Round(t)
            BY <1>1, <2>2, <3>2, Rounds, Zenon
        <3>4. Round(proposed.proposal_time) + 1 <= Round(t)
            BY <1>4, <3>3
        <3>5. QED
            BY <2>2, <3>1, <3>2, <3>4, Zenon
    <2>3. QED
        BY <2>1, <2>2, Zenon DEF SchedulesAre
<1>6. q # nullptr => /\ Kept(q)
                     /\ q.version > a.version
                     /\ p # nullptr => q.version > p.version
    <2>1. CASE q = left
        <3>1. SUFFICES ASSUME left # nullptr
                       PROVE  Kept(q) /\ q.version > a.version /\ (p # nullptr => q.version > p.version)
            BY <2>1, Zenon
        <3>2. left = proposed /\ p = pending
            BY <3>1, Zenon DEF SchedulesAre
        <3>3. /\ Scheduled(proposed) /\ proposed.version > a.version
              /\ pending # nullptr => proposed.version > pending.version
            BY <1>2, <3>1, <3>2, Zenon DEF TakenOver
        <3>4. Kept(proposed)
            BY <3>3, ScheduledStays, Zenon
        <3>5. QED
            BY <2>1, <3>2, <3>3, <3>4, Zenon
    <2>2. CASE q = proposer_policy(t, last.version + 1, producers)
        <3>1. q.proposal_time = t /\ q.version = last.version + 1 /\ q.producers = producers
            BY <2>2, Constructors
        <3>2. Kept(q)
            <4>1. PICK m : m = bhs.block_num + 1
                BY Zenon
            <4>2. m \in Blocks'
                BY <4>1, OldOrNew, Zenon
            <4>3. history'[m].timestamp = t /\ history'[m].producers = producers
                BY <4>1, NewRecord, Zenon
            <4> HIDE DEF q
            <4>4. history'[m].timestamp = q.proposal_time /\ history'[m].producers = q.producers
                BY <3>1, <4>3, Zenon
            <4>5. QED
                BY <4>2, <4>4, Zenon
        <3>3. last.version \in Nat /\ last.version >= a.version /\ (p # nullptr => last.version >= p.version)
            <4> DEFINE oldP == bhs.latest_pending_proposer_policy
                       oldQ == bhs.latest_proposed_proposer_policy
            <4>1. /\ \/ a = bhs.active_proposer_policy
                     \/ oldP # nullptr /\ a = oldP
                     \/ oldQ # nullptr /\ a = oldQ
                  /\ pending = nullptr \/ pending = oldP
                  /\ proposed = nullptr \/ proposed = oldQ
                BY Zenon DEF SchedulesAre, ScheduleStays, ProposedTakesOver, PendingTakesOver
            <4>2. p = pending \/ p = proposed
                BY Zenon DEF SchedulesAre
            <4>3. /\ last.version \in Nat
                  /\ last.version >= bhs.active_proposer_policy.version
                  /\ oldP # nullptr => last.version >= oldP.version
                  /\ oldQ # nullptr => last.version >= oldQ.version
                BY LastVersion, Zenon
            <4>4. last.version >= a.version
                BY <4>1, <4>3, Zenon
            <4>5. p # nullptr => last.version >= p.version
                <5>1. p # nullptr => (oldP # nullptr /\ p = oldP) \/ (oldQ # nullptr /\ p = oldQ)
                    BY <4>1, <4>2, Zenon
                <5>2. QED
                    BY <4>3, <5>1, Zenon
            <4>6. QED
                BY <4>3, <4>4, <4>5, Zenon
        <3> HIDE DEF a, p, q, last
        <3>4. q.version > a.version /\ (p # nullptr => q.version > p.version)
            BY <1>3, <3>1, <3>3
        <3>5. QED
            BY <3>2, <3>4, Zenon
    <2>3. QED
        BY <2>1, <2>2, Zenon DEF ScheduleProposed
<1>7. a.version >= 1
    BY <1>2, Zenon DEF TakenOver
<1>8. QED
    BY <1>1, <1>5, <1>6, <1>7, Zenon DEF SchedulesOK, Scheduled

(* A round does not see two schedules. *)
LEMMA FixedInRoundNext ==
    ASSUME HistoryOK, ScheduleFixedInRound,
           NEW t, NEW claim, NEW finalizers, NEW producers, Step(t, claim, finalizers, producers),
           NEW pending, NEW proposed, NEW left, SchedulesAre(t, pending, proposed, left)
    PROVE  ScheduleFixedInRound'
<1>1. SUFFICES ASSUME NEW n \in Blocks', Round(history'[n].timestamp) = Round(t)
               PROVE  history'[n].proposer = bhs'.active_proposer_policy
    <2>1. bhs'.timestamp = t
        BY StepFields, Zenon
    <2>2. QED
        BY <2>1, Zenon DEF ScheduleFixedInRound, Round
<1>2. CASE n = bhs.block_num + 1
    BY <1>2, NewRecord, Zenon
<1>3. CASE n \in Blocks
    <2>1. history'[n] = history[n]
        BY <1>3, OldOrNew, Zenon
    <2>2. t \in Nat /\ bhs.timestamp \in Nat /\ bhs.timestamp <= t /\ history[n].timestamp \in Nat
        <3>1. t \in Nat /\ bhs.timestamp \in Nat /\ t > bhs.timestamp /\ history[n].timestamp \in Nat
            BY <1>3, RecordFields, Zenon DEF HistoryOK, Step
        <3>2. QED
            BY <3>1
    <2>3. history[n].timestamp <= bhs.timestamp
        <3>1. Scheduled([proposal_time |-> history[n].timestamp, producers |-> history[n].producers])
            BY <1>3, Zenon DEF Scheduled
        <3>2. [proposal_time |-> history[n].timestamp, producers |-> history[n].producers].proposal_time <= bhs.timestamp
            BY <3>1, ScheduledStays, Zenon
        <3>3. QED
            BY <3>2, Zenon
    <2>4. /\ Round(history[n].timestamp) <= Round(bhs.timestamp)
          /\ Round(bhs.timestamp) <= Round(t)
          /\ Round(history[n].timestamp) \in Nat /\ Round(bhs.timestamp) \in Nat /\ Round(t) \in Nat
          /\ ~in_same_round(t, bhs.timestamp) => Round(bhs.timestamp) + 1 <= Round(t)
        BY <2>2, <2>3, Rounds, Zenon
    <2>5. Round(history[n].timestamp) = Round(t)
        BY <1>1, <2>1, Zenon
    <2>6. Round(history[n].timestamp) = Round(bhs.timestamp) /\ ~(Round(bhs.timestamp) + 1 <= Round(t))
        BY <2>4, <2>5
    <2>7. history[n].proposer = bhs.active_proposer_policy
        BY <1>3, <2>6, Zenon DEF ScheduleFixedInRound
    <2>8. bhs'.active_proposer_policy = bhs.active_proposer_policy
        BY <2>4, <2>6, Zenon DEF SchedulesAre, ScheduleStays, ProposedTakesOver, PendingTakesOver
    <2>9. QED
        BY <2>1, <2>7, <2>8, Zenon
<1>4. QED
    BY <1>1, <1>2, <1>3, OldOrNew, Zenon

(* A schedule takes over when its proposal is final and two rounds old.    *)
LEMMA ScheduleWasFinalNext ==
    ASSUME HistoryOK, CoreOK, PoliciesOK, SchedulesOK, ScheduleWasFinal,
           NEW t, NEW claim, NEW finalizers, NEW producers, Step(t, claim, finalizers, producers),
           NEW pending, NEW proposed, NEW left, SchedulesAre(t, pending, proposed, left),
           bhs'.active_proposer_policy \in ProposerPolicies
    PROVE  ScheduleWasFinal'
<1> DEFINE old == bhs.active_proposer_policy
           new == bhs'.active_proposer_policy
           lib == last_final_block_num(bhs.core)
           lib2 == last_final_block_num(bhs'.core)
           WasFinal(policy) == \E n \in Blocks : /\ history[n].timestamp = policy.proposal_time
                                                 /\ history[n].producers = policy.producers
                                                 /\ n <= lib
                                                 /\ Round(policy.proposal_time) + 2 <= Round(t)
<1>1. t \in Nat /\ bhs.timestamp \in Nat /\ bhs.timestamp <= t /\ bhs'.timestamp = t
    <2>1. t \in Nat /\ bhs.timestamp \in Nat /\ t > bhs.timestamp /\ bhs'.timestamp = t
        BY StepFields, Zenon DEF HistoryOK, Step
    <2>2. QED
        BY <2>1, SMTT(20)
<1>2. Round(bhs.timestamp) <= Round(t) /\ Round(t) \in Nat /\ Round(bhs.timestamp) \in Nat
    BY <1>1, Rounds, Zenon
<1>3. lib \in Nat /\ lib2 \in Nat /\ lib <= lib2
    <2>1. lib \in Nat /\ lib2 \in lib .. claim.block_num
        BY HeadNumbers, CoreGrows, Zenon
    <2> HIDE DEF lib, lib2
    <2>2. QED
        BY <2>1, SMTT(20) DEF Step, Claims
<1>4. ASSUME NEW policy, Scheduled(policy), policy.proposal_time <= last_final_block_timestamp(bhs.core),
             Round(policy.proposal_time) + 2 <= Round(t)
      PROVE  WasFinal(policy)
    <2>1. PICK n \in Blocks : history[n].timestamp = policy.proposal_time /\ history[n].producers = policy.producers
        BY <1>4, Zenon DEF Scheduled
    <2>2. n <= lib
        BY <1>4, <2>1, ProposalFinal, Zenon
    <2>3. QED
        BY <1>4, <2>1, <2>2, Zenon
<1>5. new.version > 1 => WasFinal(new)
    <2>1. CASE ScheduleStays(pending, proposed)
        <3>1. SUFFICES ASSUME old.version > 1 PROVE WasFinal(old)
            BY <2>1, Zenon DEF ScheduleStays
        <3>2. PICK n \in Blocks : /\ history[n].timestamp = old.proposal_time
                                  /\ history[n].producers = old.producers
                                  /\ n <= lib
                                  /\ Round(old.proposal_time) + 2 <= Round(bhs.timestamp)
            BY <3>1, Zenon DEF ScheduleWasFinal
        <3>3. Round(old.proposal_time) \in Nat
            <4>1. old.proposal_time \in Nat
                BY PolicyFields, Zenon DEF PoliciesOK
            <4>2. QED
                BY <1>1, <4>1, Rounds, Zenon
        <3>4. Round(old.proposal_time) + 2 <= Round(t)
            BY <1>2, <3>2, <3>3
        <3>5. QED
            BY <3>2, <3>4, Zenon
    <2>2. CASE ProposedTakesOver(t, pending, proposed)
        <3> DEFINE q == bhs.latest_proposed_proposer_policy
        <3>1. /\ q # nullptr /\ before_prior_round(q.proposal_time, bhs.timestamp)
              /\ q.proposal_time <= last_final_block_timestamp(bhs.core) /\ new = q
            BY <2>2, Zenon DEF ProposedTakesOver
        <3>2. Scheduled(q)
            BY <3>1, Zenon DEF SchedulesOK
        <3>3. q.proposal_time \in Nat
            BY <3>2, ScheduledStays, Zenon
        <3>4. Round(q.proposal_time) \in Nat /\ Round(q.proposal_time) + 2 <= Round(bhs.timestamp)
            BY <1>1, <3>1, <3>3, Rounds, Zenon
        <3>5. Round(q.proposal_time) + 2 <= Round(t)
            BY <1>2, <3>4
        <3>6. QED
            BY <1>4, <3>1, <3>2, <3>5, Zenon
    <2>3. CASE PendingTakesOver(t, pending, proposed)
        <3> DEFINE p == bhs.latest_pending_proposer_policy
        <3>1. /\ p # nullptr /\ ~in_same_round(t, bhs.timestamp)
              /\ p.proposal_time <= last_final_block_timestamp(bhs.core) /\ new = p
            BY <2>3, Zenon DEF PendingTakesOver
        <3>2. Scheduled(p) /\ Round(p.proposal_time) + 1 <= Round(bhs.timestamp)
            BY <3>1, Zenon DEF SchedulesOK
        <3>3. p.proposal_time \in Nat
            BY <3>2, ScheduledStays, Zenon
        <3>4. Round(p.proposal_time) \in Nat /\ Round(bhs.timestamp) + 1 <= Round(t)
            BY <1>1, <3>1, <3>3, Rounds, Zenon
        <3>5. Round(p.proposal_time) + 2 <= Round(t)
            BY <1>2, <3>2, <3>4, SMTT(20)
        <3>6. QED
            BY <1>4, <3>1, <3>2, <3>5, Zenon
    <2>4. QED
        BY <2>1, <2>2, <2>3, Zenon DEF SchedulesAre
<1>6. ASSUME new.version > 1
      PROVE  \E n \in Blocks' : /\ history'[n].timestamp = new.proposal_time
                                /\ history'[n].producers = new.producers
                                /\ n <= lib2
                                /\ Round(new.proposal_time) + 2 <= Round(t)
    <2>1. PICK n \in Blocks : /\ history[n].timestamp = new.proposal_time
                              /\ history[n].producers = new.producers
                              /\ n <= lib
                              /\ Round(new.proposal_time) + 2 <= Round(t)
        BY <1>5, <1>6, Zenon
    <2>2. n \in Blocks' /\ n \in Nat /\ history'[n] = history[n]
        BY OldOrNew, Zenon
    <2>3. n <= lib2
        <3> HIDE DEF lib, lib2
        <3>1. QED
            BY <1>3, <2>1, <2>2
    <2>4. QED
        BY <2>1, <2>2, <2>3, Zenon
<1>7. ASSUME NEW n \in Blocks'
      PROVE  history'[n].proposer.version <= new.version
    <2>1. new.version \in Nat /\ old.version \in Nat
        BY PolicyFields, Zenon DEF PoliciesOK
    <2>2. CASE n = bhs.block_num + 1
        <3>1. history'[n].proposer = new
            BY <2>2, NewRecord, Zenon
        <3> HIDE DEF new
        <3>2. QED
            BY <2>1, <3>1
    <2>3. CASE n \in Blocks
        <3>1. history'[n] = history[n] /\ history[n].proposer.version <= old.version /\ history[n].proposer \in ProposerPolicies
            BY <2>3, OldOrNew, RecordFields, Zenon DEF ScheduleWasFinal
        <3>2. history[n].proposer.version \in Nat
            BY <3>1, PolicyFields, Zenon
        <3>3. old.version <= new.version
            <4>1. new.version >= old.version
                BY TakesOver, Zenon DEF TakenOver
            <4> HIDE DEF old, new
            <4>2. QED
                BY <2>1, <4>1, Zenon
        <3> HIDE DEF old, new
        <3>4. QED
            BY <2>1, <3>1, <3>2, <3>3, SMTT(20)
    <2>4. QED
        BY <1>7, <2>2, <2>3, OldOrNew, Zenon
<1>8. QED
    BY <1>1, <1>6, <1>7, Zenon DEF ScheduleWasFinal, Round

(* Promotion does not lose the last schedule. *)
LEMMA LastScheduleStays ==
    ASSUME PoliciesOK, NEW t, NEW pending, NEW proposed, NEW left, SchedulesAre(t, pending, proposed, left),
           bhs'.latest_proposed_proposer_policy = left
    PROVE  get_last_proposed_proposer_policy(bhs') = get_last_proposed_proposer_policy(bhs)
<1> DEFINE a    == bhs'.active_proposer_policy
           p    == bhs'.latest_pending_proposer_policy
           oldP == bhs.latest_pending_proposer_policy
           oldQ == bhs.latest_proposed_proposer_policy
           Last(x, y, z) == IF x # nullptr THEN x ELSE IF y # nullptr THEN y ELSE z
<1>1. get_last_proposed_proposer_policy(bhs) = Last(oldQ, oldP, bhs.active_proposer_policy)
    BY Zenon DEF get_last_proposed_proposer_policy
<1>2. get_last_proposed_proposer_policy(bhs') = Last(left, p, a)
    BY Zenon DEF get_last_proposed_proposer_policy
<1>3. Last(proposed, pending, a) = Last(oldQ, oldP, bhs.active_proposer_policy)
    <2>1. CASE ScheduleStays(pending, proposed)
        BY <2>1, Zenon DEF ScheduleStays
    <2>2. CASE ProposedTakesOver(t, pending, proposed)
        BY <2>2, Zenon DEF ProposedTakesOver
    <2>3. CASE PendingTakesOver(t, pending, proposed)
        BY <2>3, Zenon DEF PendingTakesOver
    <2>4. QED
        BY <2>1, <2>2, <2>3, Zenon DEF SchedulesAre
<1>4. Last(left, p, a) = Last(proposed, pending, a)
    BY Zenon DEF SchedulesAre
<1> HIDE DEF Last
<1>5. QED
    BY <1>1, <1>2, <1>3, <1>4, Zenon

(* The last schedule is the one that was proposed last. *)
LEMMA LatestScheduleNext ==
    ASSUME HistoryOK, PoliciesOK, LatestScheduleKept,
           NEW t, NEW claim, NEW finalizers, NEW producers, Step(t, claim, finalizers, producers),
           NEW pending, NEW proposed, NEW left,
           SchedulesAre(t, pending, proposed, left), ScheduleProposed(t, producers, left)
    PROVE  LatestScheduleKept'
<1> DEFINE last == get_last_proposed_proposer_policy(bhs)
           new  == get_last_proposed_proposer_policy(bhs')
<1>1. PICK m : m = bhs.block_num + 1
    BY Zenon
<1>2. /\ \A n \in Blocks' : n \in Blocks \/ n = m
      /\ \A n \in Blocks : n \in Blocks' /\ n \in Nat /\ n <= bhs.block_num /\ history'[n] = history[n]
      /\ m \in Blocks'
      /\ history'[m].producers = producers
    BY <1>1, OldOrNew, NewRecord, Zenon
<1>3. bhs.block_num \in Nat
    BY Zenon DEF HistoryOK
<1>4. SUFFICES ASSUME NEW n \in Scheduling', \A i \in Scheduling' : i <= n
               PROVE  new.producers = history'[n].producers
    BY Zenon DEF LatestScheduleKept
<1>5. CASE producers = nullptr
    <2>1. new = last
        <3>1. bhs'.latest_proposed_proposer_policy = left
            BY <1>5, NullptrAssumption, Zenon DEF ScheduleProposed
        <3>2. QED
            BY <3>1, LastScheduleStays, Zenon
    <2>2. n \in Scheduling /\ history'[n] = history[n]
        BY <1>2, <1>4, <1>5, Zenon DEF Scheduling
    <2>3. \A i \in Scheduling : i <= n
        BY <1>2, <1>4, Zenon DEF Scheduling
    <2>4. QED
        BY <2>1, <2>2, <2>3, Zenon DEF LatestScheduleKept
<1>6. CASE producers # nullptr
    <2>1. m \in Scheduling'
        BY <1>2, <1>6, Zenon DEF Scheduling
    <2>2. m <= n
        BY <1>4, <2>1, Zenon
    <2>3. n = m
        <3>1. n \in Blocks \/ n = m
            BY <1>2, <1>4, Zenon DEF Scheduling
        <3>2. n \in Blocks => n \in Nat /\ n <= bhs.block_num
            BY <1>2, Zenon
        <3>3. QED
            BY <1>1, <1>3, <2>2, <3>1, <3>2
    <2>4. new.producers = producers
        <3>1. CASE bhs'.latest_proposed_proposer_policy = left /\ last.producers = producers
            BY <3>1, LastScheduleStays, Zenon
        <3>2. CASE bhs'.latest_proposed_proposer_policy = proposer_policy(t, last.version + 1, producers) /\ producers \in Lists
            <4>1. PICK q : q = bhs'.latest_proposed_proposer_policy
                BY Zenon
            <4>2. q.producers = producers
                BY <3>2, <4>1, Constructors, SMTT(20)
            <4>3. q # nullptr
                <5>1. last.version \in Nat
                    BY LastPolicies, PolicyFields, Zenon
                <5>2. last.version + 1 \in Nat
                    BY <5>1, SMTT(20)
                <5>3. producers \in AllLists /\ t \in Nat
                    BY <3>2, Zenon DEF AllLists, Step
                <5>4. proposer_policy(t, last.version + 1, producers) \in ProposerPolicies
                    BY <5>2, <5>3, PolicyFields, Zenon
                <5>5. QED
                    BY <3>2, <4>1, <5>4, NullptrAssumption, Zenon
            <4>4. new = q
                BY <4>1, <4>3, Zenon DEF get_last_proposed_proposer_policy
            <4>5. QED
                BY <4>2, <4>4, Zenon
        <3>3. QED
            BY <1>6, <3>1, <3>2, Zenon DEF ScheduleProposed
    <2>5. QED
        BY <1>2, <2>3, <2>4, Zenon
<1>7. QED
    BY <1>5, <1>6, Zenon

-----------------------------------------------------------------------------
(* Roots of the validation trees *)

(* new_valid keeps the roots from the last final block on. *)
LEMMA RootsNext ==
    ASSUME HistoryOK, CoreOK, RootsOK,
           NEW t, NEW claim, NEW finalizers, NEW producers, Step(t, claim, finalizers, producers)
    PROVE  RootsOK'
<1>1. PICK roots, N, a, b : /\ roots = bhs.validation_mroots
                            /\ N = bhs.block_num
                            /\ a = last_final_block_num(bhs.core)
                            /\ b = last_final_block_num(bhs'.core)
    BY Zenon
<1>2. N \in Nat /\ a \in Nat /\ 1 <= a /\ a <= N
    <2>1. PICK c : c = latest_qc_claim(bhs.core).block_num
        BY Zenon
    <2>2. N \in Nat /\ a \in Nat /\ c \in Nat /\ 1 <= a /\ a <= c /\ c <= N
        BY <1>1, <2>1, HeadNumbers, Zenon
    <2>3. QED
        BY <2>2
<1>3. b \in a .. N
    <2>1. b \in a .. claim.block_num
        BY <1>1, CoreGrows, Zenon
    <2>2. claim.block_num \in latest_qc_claim(bhs.core).block_num .. N
        BY <1>1, Zenon DEF Step, ClaimedOn
    <2>3. claim.block_num \in Nat
        BY Zenon DEF Step, Claims
    <2>4. latest_qc_claim(bhs.core).block_num \in Nat
        BY HeadNumbers, Zenon
    <2>5. claim.block_num <= N
        BY <1>2, <2>2, <2>3, <2>4
    <2>6. QED
        BY <1>2, <2>1, <2>3, <2>5, SMTT(20)
<1>4. /\ roots \in Seq(Nat)
      /\ Len(roots) = (N - a) + 1
      /\ \A i \in 1 .. Len(roots) : roots[i] = (a + i) - 1
    BY <1>1, Zenon DEF RootsOK
<1>5. PICK rest : rest = drop_front(roots, b - a)
    BY Zenon
<1>6. PICK new : new = Append(rest, N + 1)
    BY Zenon
<1>7. bhs'.validation_mroots = new
    BY <1>1, <1>5, <1>6, StepFields, Zenon DEF new_valid
<1>8. /\ rest \in Seq(Nat)
      /\ Len(rest) = (N - b) + 1
      /\ \A i \in 1 .. Len(rest) : rest[i] = (b + i) - 1
    <2>1. b - a \in 0 .. Len(roots)
        BY <1>2, <1>3, <1>4
    <2>2. /\ rest \in Seq(Nat)
          /\ Len(rest) = Len(roots) - (b - a)
          /\ \A i \in 1 .. Len(rest) : rest[i] = roots[i + (b - a)]
        BY <1>4, <1>5, <2>1, DropFront, ZenonT(60)
    <2>3. Len(rest) = (N - b) + 1
        BY <1>2, <1>3, <1>4, <2>2
    <2>4. ASSUME NEW i \in 1 .. Len(rest)
          PROVE  rest[i] = (b + i) - 1
        <3>1. i + (b - a) \in 1 .. Len(roots) /\ (a + (i + (b - a))) - 1 = (b + i) - 1
            BY <1>2, <1>3, <1>4, <2>3, SMTT(20)
        <3>2. QED
            BY <1>4, <2>2, <3>1, Zenon
    <2>5. QED
        BY <2>2, <2>3, <2>4, Zenon
<1>9. /\ new \in Seq(Nat)
      /\ Len(new) = ((N + 1) - b) + 1
      /\ \A i \in 1 .. Len(new) : new[i] = (b + i) - 1
    <2>1. N + 1 \in Nat /\ b \in Nat
        BY <1>2, <1>3
    <2>2. new \in Seq(Nat) /\ Len(new) = Len(rest) + 1
        BY <1>6, <1>8, <2>1
    <2>3. Len(new) = ((N + 1) - b) + 1
        BY <1>2, <1>8, <2>1, <2>2, SMTT(20)
    <2>4. ASSUME NEW i \in 1 .. Len(new)
          PROVE  new[i] = (b + i) - 1
        <3>1. CASE i \in 1 .. Len(rest)
            <4>1. new[i] = rest[i]
                BY <1>6, <1>8, <3>1, SMTT(20)
            <4>2. QED
                BY <1>8, <3>1, <4>1, Zenon
        <3>2. CASE i = Len(rest) + 1
            <4>1. new[i] = N + 1
                BY <1>6, <1>8, <3>2
            <4>2. QED
                BY <1>2, <1>8, <2>1, <3>2, <4>1
        <3>3. i \in 1 .. Len(rest) \/ i = Len(rest) + 1
            BY <1>2, <1>8, <2>1, <2>2, SMTT(20)
        <3>4. QED
            BY <3>1, <3>2, <3>3, Zenon
    <2>5. QED
        BY <2>2, <2>3, <2>4, Zenon
<1>10. bhs'.block_num = N + 1
    BY <1>1, StepFields, Zenon
<1>11. QED
    BY <1>1, <1>7, <1>9, <1>10, Zenon DEF RootsOK

-----------------------------------------------------------------------------
(* The invariant *)

(* The header state and the history of a genesis block. *)
LEMMA GenesisFields ==
    ASSUME Init
    PROVE  /\ kind \in Kinds
           /\ bhs.block_num = 1
           /\ bhs.timestamp = kind.slot /\ kind.slot \in Nat
           /\ bhs.core = create_core_for_genesis_block(id_of(1), kind.slot)
           /\ bhs.active_proposer_policy = proposer_policy(0, 1, FirstProducers)
           /\ bhs.latest_proposed_proposer_policy = nullptr
           /\ bhs.latest_pending_proposer_policy = nullptr
           /\ bhs.active_finalizer_policy = finalizer_policy(1, FirstFinalizers)
           /\ bhs.pending_finalizer_policy = nullptr
           /\ bhs.proposed_finalizer_policies = << >>
           /\ bhs.finalizer_policy_generation = 1
           /\ bhs.latest_qc_claim_block_active_finalizer_policy = nullptr
           /\ bhs.validation_mroots = << 1 >>
<1>1. kind \in Kinds /\ bhs = create_if_genesis_block(1, kind.slot, FirstFinalizers, FirstProducers)
    BY Zenon DEF Init, GenesisNum
<1>2. kind.slot \in Nat
    BY <1>1, KindsAssumption, Zenon
<1>3. QED
    BY <1>1, <1>2, Zenon DEF create_if_genesis_block

(* The record of a genesis block, and its core. *)
LEMMA GenesisHistory ==
    ASSUME Init
    PROVE  /\ history \in Seq(BlockRecords) /\ Len(history) = 1 /\ Blocks = {1}
           /\ history[1].timestamp = bhs.timestamp
           /\ history[1].last_final = last_final_block_num(bhs.core)
           /\ history[1].active = bhs.active_finalizer_policy
           /\ history[1].pending = bhs.pending_finalizer_policy
           /\ history[1].proposer = bhs.active_proposer_policy
           /\ history[1].finalizers = nullptr
           /\ history[1].producers = nullptr
           /\ last_final_block_num(bhs.core) = 1
           /\ latest_qc_claim(bhs.core).block_num = 1
           /\ SoundCore(bhs.core, 1, {})
           /\ bhs.active_finalizer_policy \in FinalizerPolicies
           /\ bhs.active_proposer_policy \in ProposerPolicies
<1>1. SoundCore(bhs.core, 1, {})
    <2>1. id_of(1).num = 1
        BY Zenon DEF id_of
    <2>2. QED
        BY <2>1, GenesisFields, GenesisCore, Zenon
<1>2. last_final_block_num(bhs.core) = 1 /\ latest_qc_claim(bhs.core).block_num = 1
    <2>1. /\ last_final_block_num(bhs.core) \in 1 .. 1
          /\ latest_qc_claim(bhs.core).block_num \in last_final_block_num(bhs.core) .. 1
        BY <1>1, CoreNumbers, Zenon
    <2>2. last_final_block_num(bhs.core) = 1
        BY <2>1
    <2>3. latest_qc_claim(bhs.core).block_num \in 1 .. 1
        BY <2>1, <2>2, Zenon
    <2>4. QED
        BY <2>2, <2>3
<1>3. PICK h : h = bhs
    BY Zenon
<1>4. PICK r : r = Recorded(h, nullptr, nullptr)
    BY Zenon
<1>5. history = << r >>
    BY <1>3, <1>4, Zenon DEF Init, None
<1>6. /\ r.timestamp = h.timestamp /\ r.last_final = last_final_block_num(h.core)
      /\ r.active = h.active_finalizer_policy /\ r.pending = h.pending_finalizer_policy
      /\ r.proposer = h.active_proposer_policy /\ r.finalizers = nullptr /\ r.producers = nullptr
    BY <1>4, Zenon DEF Recorded
<1>7. h.active_finalizer_policy \in FinalizerPolicies /\ h.active_proposer_policy \in ProposerPolicies
    <2>1. FirstFinalizers \in AllLists /\ FirstProducers \in AllLists
        BY Zenon DEF AllLists
    <2>2. 0 \in Nat /\ 1 \in Nat
        BY Zenon
    <2>3. /\ finalizer_policy(1, FirstFinalizers) \in FinalizerPolicies
          /\ proposer_policy(0, 1, FirstProducers) \in ProposerPolicies
        BY <2>1, <2>2, PolicyFields, Zenon
    <2>4. QED
        BY <1>3, <2>3, GenesisFields, Zenon
<1>8. r \in BlockRecords
    <2>1. \A ts \in Nat, lf \in Nat, ac \in FinalizerPolicies, pr \in ProposerPolicies :
              [timestamp |-> ts, last_final |-> lf, active |-> ac, pending |-> nullptr,
               proposer |-> pr, finalizers |-> nullptr, producers |-> nullptr] \in BlockRecords
        BY Zenon DEF BlockRecords
    <2>2. /\ h.timestamp \in Nat /\ h.pending_finalizer_policy = nullptr
        BY <1>3, GenesisFields, Zenon
    <2>3. last_final_block_num(h.core) \in Nat
        BY <1>2, <1>3
    <2>4. QED
        BY <1>4, <1>7, <2>1, <2>2, <2>3, Zenon DEF Recorded
<1>9. history \in Seq(BlockRecords) /\ Len(history) = 1 /\ history[1] = r
    BY <1>5, <1>8
<1>10. Blocks = {1}
    <2>1. 1 .. 1 = {1}
        OBVIOUS
    <2>2. QED
        BY <1>9, <2>1, Zenon DEF Blocks
<1>11. QED
    BY <1>1, <1>2, <1>3, <1>6, <1>7, <1>9, <1>10, ZenonT(60)

(* The genesis block satisfies the invariant. *)
LEMMA InitIInv ==
    ASSUME Init
    PROVE  IInv
<1>1. /\ Blocks = {1} /\ bhs.block_num = 1 /\ bhs.timestamp \in Nat
      /\ last_final_block_num(bhs.core) = 1 /\ latest_qc_claim(bhs.core).block_num = 1
      /\ bhs.pending_finalizer_policy = nullptr /\ bhs.proposed_finalizer_policies = << >>
      /\ history[1].active = bhs.active_finalizer_policy
      /\ history[1].pending = nullptr
      /\ history[1].proposer = bhs.active_proposer_policy
      /\ history[1].finalizers = nullptr /\ history[1].producers = nullptr
      /\ bhs.latest_proposed_proposer_policy = nullptr
      /\ bhs.latest_pending_proposer_policy = nullptr
      /\ bhs.finalizer_policy_generation = 1
    BY GenesisFields, GenesisHistory, Zenon
<1>2. bhs.active_finalizer_policy.generation = 1 /\ bhs.active_proposer_policy.version = 1
    BY GenesisFields, Constructors
<1>3. 1 .. 1 = {1} /\ 1 .. 0 = {} /\ ~(1 < 1) /\ ~(1 > 1) /\ 1 >= 1 /\ 1 <= 1 /\ 1 \in Nat /\ 1 - 1 = 0
    OBVIOUS
<1>4. ClaimedOn = {1}
    BY <1>1, <1>3, Zenon DEF ClaimedOn
<1>5. HistoryOK
    <2>1. \A m, n \in Blocks : m < n => history[m].timestamp < history[n].timestamp
        BY <1>1, <1>3, Zenon
    <2>2. QED
        BY <1>1, <1>3, <2>1, GenesisFields, GenesisHistory, Zenon DEF HistoryOK
<1>6. CoreOK
    <2>1. {RefIn(history, n) : n \in 1 .. 1 - 1} = {}
        BY <1>3, Zenon
    <2>2. bhs.core.genesis_timestamp = bhs.timestamp
        <3>1. PICK id, time : id = id_of(1) /\ time = kind.slot
            BY Zenon
        <3>2. bhs.core = create_core_for_genesis_block(id, time) /\ bhs.timestamp = time
            BY <3>1, GenesisFields, Zenon
        <3>3. QED
            BY <3>2 DEF create_core_for_genesis_block
    <2>3. QED
        BY <1>1, <2>1, <2>2, GenesisHistory, Zenon DEF CoreOK
<1>7. PoliciesOK
    <2>1. << >> \in Seq(InFlightPolicies)
        BY SMTT(20)
    <2>2. QED
        BY <1>1, <1>3, <2>1, GenesisFields, GenesisHistory, Zenon DEF PoliciesOK
<1>8. get_last_proposed_finalizer_policy(bhs) = bhs.active_finalizer_policy
    BY <1>1, Zenon DEF get_last_proposed_finalizer_policy
<1>9. InOrder
    <2>1. DOMAIN << >> = {}
        BY SMTT(20)
    <2>2. DOMAIN bhs.proposed_finalizer_policies = {}
        BY <1>1, <2>1, Zenon
    <2>3. PoliciesInOrder
        BY <1>1, <2>2, Zenon DEF PoliciesInOrder, None
    <2>4. QED
        BY <1>1, <1>2, <1>3, <1>8, <2>2, <2>3, Zenon DEF InOrder
<1>10. PendingSince
    BY <1>1, Zenon DEF PendingSince
<1>11. ClaimsKept
    BY <1>1, <1>3, <1>4, Zenon DEF ClaimsKept
<1>12. ProposalsOK
    <2>1. DOMAIN << >> = {}
        OBVIOUS
    <2>2. QED
        BY <1>1, <2>1, Zenon DEF ProposalsOK
<1>13. LatestProposalKept
    <2>1. {n \in Blocks : history[n].finalizers # nullptr} = {}
        BY <1>1, Zenon
    <2>2. {n \in Blocks : history[n].producers # nullptr} = {}
        BY <1>1, Zenon
    <2>3. Cardinality({}) = 0
        BY FS_EmptySet, Zenon
    <2>4. 1 = 1 + Cardinality({})
        BY <2>3
    <2>5. QED
        BY <1>1, <1>2, <1>8, <2>1, <2>2, <2>4, Zenon DEF LatestProposalKept, None
<1>14. ActiveWasFinalTwice
    BY <1>2, <1>3, Zenon DEF ActiveWasFinalTwice
<1>15. SchedulesOK
    BY <1>1, <1>2, <1>3, Zenon DEF SchedulesOK
<1>16. ScheduleFixedInRound
    BY <1>1, Zenon DEF ScheduleFixedInRound
<1>17. ScheduleWasFinal
    BY <1>1, <1>2, <1>3, Zenon DEF ScheduleWasFinal
<1>18. RootsOK
    <2>1. /\ << 1 >> \in Seq(Nat) /\ Len(<< 1 >>) = (1 - 1) + 1
          /\ \A i \in 1 .. Len(<< 1 >>) : << 1 >>[i] = (1 + i) - 1
        OBVIOUS
    <2>2. PICK s : s = << 1 >>
        BY Zenon
    <2>3. bhs.validation_mroots = s
        BY <2>2, GenesisFields, Zenon
    <2>4. s \in Seq(Nat) /\ Len(s) = (1 - 1) + 1 /\ \A i \in 1 .. Len(s) : s[i] = (1 + i) - 1
        BY <2>1, <2>2, Zenon
    <2>5. QED
        BY <1>1, <2>3, <2>4, Zenon DEF RootsOK
<1>19. QED
    BY <1>5, <1>6, <1>7, <1>9, <1>10, <1>11, <1>12, <1>13, <1>14, <1>15, <1>16, <1>17, <1>18, ZenonT(60) DEF IInv

(* Every block that is appended keeps the invariant. *)
LEMMA StepIInv ==
    ASSUME IInv, NEW t, NEW claim, NEW finalizers, NEW producers, Step(t, claim, finalizers, producers)
    PROVE  IInv'
<1>1. /\ HistoryOK /\ CoreOK /\ PoliciesOK /\ InOrder /\ PendingSince /\ ClaimsKept /\ ProposalsOK
      /\ LatestProposalKept /\ ActiveWasFinalTwice /\ SchedulesOK /\ ScheduleFixedInRound
      /\ ScheduleWasFinal /\ RootsOK
    BY Zenon DEF IInv
<1>2. PICK k, s, left : PromotedTo(k, s, left) /\ ProposedAre(s, finalizers)
    BY <1>1, ProposedNext, Zenon
<1>3. PICK pending, proposed, rest :
          SchedulesAre(t, pending, proposed, rest) /\ ScheduleProposed(t, producers, rest)
    BY <1>1, SchedulesNow, Zenon
<1>4. CoreOK'
    BY <1>1, CoreGrows, Zenon
<1>5. PoliciesOK'
    BY <1>1, <1>2, <1>3, PoliciesNext, Zenon
<1>6. HistoryOK'
    BY <1>1, <1>5, HistoryNext, Zenon
<1>7. InOrder'
    BY <1>1, <1>2, InOrderNext, Zenon
<1>8. PendingSince'
    BY <1>1, <1>2, PendingNext, Zenon
<1>9. ClaimsKept'
    BY <1>1, <1>2, ClaimsKeptNext, Zenon
<1>10. ProposalsOK'
    BY <1>1, <1>2, ProposalsNext, Zenon
<1>11. ActiveWasFinalTwice'
    BY <1>1, <1>2, FinalTwiceNext, Zenon
<1>12. LatestProposalKept'
    <2>1. LatestFinalizersKept
        BY <1>1, Zenon DEF LatestProposalKept, LatestFinalizersKept, Proposing, None
    <2>2. LatestScheduleKept
        BY <1>1, Zenon DEF LatestProposalKept, LatestScheduleKept, Scheduling, None
    <2>3. LatestFinalizersKept'
        BY <1>1, <1>2, <2>1, LatestFinalizersNext, Zenon
    <2>4. LatestScheduleKept'
        BY <1>1, <1>3, <2>2, LatestScheduleNext, Zenon
    <2>5. get_last_proposed_finalizer_policy(bhs').generation = bhs'.finalizer_policy_generation
        BY <1>7, Zenon DEF InOrder
    <2>6. QED
        BY <2>3, <2>4, <2>5, Zenon
           DEF LatestProposalKept, LatestFinalizersKept, LatestScheduleKept, Proposing, Scheduling, None
<1>13. SchedulesOK'
    BY <1>1, <1>3, SchedulesNext, Zenon
<1>14. ScheduleFixedInRound'
    BY <1>1, <1>3, FixedInRoundNext, Zenon
<1>15. ScheduleWasFinal'
    <2>1. bhs'.active_proposer_policy \in ProposerPolicies
        BY <1>5, Zenon DEF PoliciesOK
    <2>2. QED
        BY <1>1, <1>3, <2>1, ScheduleWasFinalNext, Zenon
<1>16. RootsOK'
    BY <1>1, RootsNext, Zenon
<1>17. QED
    BY <1>4, <1>5, <1>6, <1>7, <1>8, <1>9, <1>10, <1>11, <1>12, <1>13, <1>14, <1>15, <1>16, ZenonT(60) DEF IInv

(* So does a step that changes nothing. *)
LEMMA StutterIInv ==
    ASSUME IInv, UNCHANGED vars
    PROVE  IInv'
<1>1. bhs' = bhs /\ history' = history /\ kind' = kind
    BY Zenon DEF vars
<1>2. /\ HistoryOK /\ CoreOK /\ PoliciesOK /\ InOrder /\ PendingSince /\ ClaimsKept /\ ProposalsOK
      /\ LatestProposalKept /\ ActiveWasFinalTwice /\ SchedulesOK /\ ScheduleFixedInRound
      /\ ScheduleWasFinal /\ RootsOK
    BY Zenon DEF IInv
<1>3. Blocks' = Blocks /\ ClaimedOn' = ClaimedOn
    BY <1>1, Zenon DEF Blocks, ClaimedOn
<1>4. HistoryOK'
    BY <1>1, <1>2, <1>3, Zenon DEF HistoryOK
<1>5. CoreOK'
    BY <1>1, <1>2, Zenon DEF CoreOK
<1>6. PoliciesOK'
    BY <1>1, <1>2, Zenon DEF PoliciesOK
<1>7. InOrder'
    <2>1. PoliciesInOrder'
        BY <1>1, <1>2, Zenon DEF InOrder, PoliciesInOrder
    <2>2. QED
        BY <1>1, <1>2, <2>1, Zenon DEF InOrder
<1>8. PendingSince'
    BY <1>1, <1>2, <1>3, Zenon DEF PendingSince
<1>9. ClaimsKept'
    BY <1>1, <1>2, <1>3, Zenon DEF ClaimsKept
<1>10. ProposalsOK'
    BY <1>1, <1>2, <1>3, Zenon DEF ProposalsOK, Proposed
<1>11. LatestProposalKept'
    BY <1>1, <1>2, <1>3, Zenon DEF LatestProposalKept
<1>12. ActiveWasFinalTwice'
    BY <1>1, <1>2, <1>3, Zenon DEF ActiveWasFinalTwice
<1>13. SchedulesOK'
    BY <1>1, <1>2, <1>3, Zenon DEF SchedulesOK, Scheduled
<1>14. ScheduleFixedInRound'
    BY <1>1, <1>2, <1>3, Zenon DEF ScheduleFixedInRound
<1>15. ScheduleWasFinal'
    BY <1>1, <1>2, <1>3, Zenon DEF ScheduleWasFinal
<1>16. RootsOK'
    BY <1>1, <1>2, Zenon DEF RootsOK
<1>17. QED
    BY <1>4, <1>5, <1>6, <1>7, <1>8, <1>9, <1>10, <1>11, <1>12, <1>13, <1>14, <1>15, <1>16, ZenonT(60) DEF IInv

(* The header states that block_header_state::next computes along a branch *)
(* agree with its history: the invariant holds of every block.             *)
THEOREM HeaderInvariant == Spec => []IInv
<1>1. Init => IInv
    BY InitIInv, Zenon
<1>2. IInv /\ [Next]_vars => IInv'
    <2>1. SUFFICES ASSUME IInv, [Next]_vars PROVE IInv'
        BY Zenon
    <2>2. CASE Next
        <3>1. PICK t, claim, finalizers, producers : Step(t, claim, finalizers, producers)
            BY <2>1, <2>2, StepIs, Zenon
        <3>2. QED
            BY <2>1, <3>1, StepIInv, Zenon
    <2>3. CASE UNCHANGED vars
        BY <2>1, <2>3, StutterIInv, Zenon
    <2>4. QED
        BY <2>1, <2>2, <2>3, Zenon
<1>3. QED
    BY <1>1, <1>2, PTL DEF Spec

-----------------------------------------------------------------------------
(* The properties *)

(* The reference to the claimed block in the core of the next block says   *)
(* what the history says.                                                  *)
LEMMA NextReference ==
    ASSUME HistoryOK, CoreOK, NEW claim \in Claims, claim.block_num \in ClaimedOn
    PROVE  get_block_reference(next(bhs.core, make_block_ref(bhs), claim), claim.block_num) = RefIn(history, claim.block_num)
<1>1. PICK N, c, ref : N = bhs.block_num /\ c = bhs.core /\ ref = make_block_ref(bhs)
    BY Zenon
<1>2. PICK Refs : Refs = {RefIn(history, n) : n \in 1 .. N - 1}
    BY Zenon
<1>3. PICK d : d = next(c, ref, claim)
    BY Zenon
<1>4. N \in Nat /\ N >= 1
    BY <1>1, Zenon DEF HistoryOK
<1>5. ref.block_id.num = N
    BY <1>1, Zenon DEF make_block_ref, block_ref, id_of
<1>6. ref = RefIn(history, N)
    BY <1>1, Zenon DEF HistoryOK, make_block_ref, RefIn
<1>7. SoundCore(c, N, Refs) /\ claim.block_num \in latest_qc_claim(c).block_num .. N
    BY <1>1, <1>2, Zenon DEF CoreOK, ClaimedOn
<1>8. Follows(d, c, N, Refs, ref, claim)
    BY <1>3, <1>4, <1>5, <1>7, NextCore, Zenon
<1>9. Refs \cup {ref} = {RefIn(history, n) : n \in 1 .. (N + 1) - 1}
    <2>1. \A n : n \in 1 .. (N + 1) - 1 <=> n \in 1 .. N - 1 \/ n = N
        BY <1>4
    <2>2. \A r : r \in Refs \cup {ref} <=> \E n \in 1 .. (N + 1) - 1 : r = RefIn(history, n)
        BY <1>2, <1>6, <2>1, Zenon
    <2>3. \A r : r \in Refs \cup {ref} <=> r \in {RefIn(history, n) : n \in 1 .. (N + 1) - 1}
        BY <2>2, Zenon
    <2>4. QED
        BY <2>3, Zenon
<1>10. SoundCore(d, N + 1, {RefIn(history, n) : n \in 1 .. (N + 1) - 1})
    BY <1>8, <1>9, Zenon DEF Follows
<1>11. /\ claim.block_num \in Nat /\ N + 1 \in Nat
       /\ last_final_block_num(d) <= claim.block_num /\ claim.block_num < N + 1
    <2>1. PICK a, b, l, num : /\ a = last_final_block_num(c) /\ b = last_final_block_num(d)
                              /\ l = latest_qc_claim(c).block_num /\ num = claim.block_num
        BY Zenon
    <2>2. a \in Nat /\ l \in Nat
        BY <1>1, <2>1, HeadNumbers, Zenon
    <2>3. b \in a .. num /\ num \in l .. N
        BY <1>7, <1>8, <2>1, Zenon DEF Follows
    <2>4. num \in Nat /\ b <= num /\ num < N + 1 /\ N + 1 \in Nat
        BY <1>4, <2>2, <2>3, SMTT(20)
    <2>5. QED
        BY <2>1, <2>4, Zenon
<1>12. get_block_reference(d, claim.block_num) = RefIn(history, claim.block_num)
    BY <1>10, <1>11, Reference, Zenon
<1>13. QED
    BY <1>1, <1>3, <1>12, Zenon

(* A difference that a header carries applies to the policy it was made    *)
(* from.                                                                   *)
LEMMA DifferencesApply ==
    ASSUME PoliciesOK, NEW t, NEW claim,
           NEW finalizers \in Lists \cup {nullptr}, NEW producers \in Lists \cup {nullptr}
    PROVE  LET ext    == finality_extension(bhs, t, claim, finalizers, producers)
               f_diff == ext.new_finalizer_policy_diff
               p_diff == ext.new_proposer_policy_diff
           IN  /\ p_diff # nullptr => applies(get_last_proposed_proposer_policy(bhs).producers, p_diff.producer_auth_diff)
               /\ f_diff # nullptr =>
                     /\ applies(get_last_proposed_finalizer_policy(bhs).finalizers, f_diff.finalizers_diff)
                     /\ ~(f_diff.generation <= bhs.finalizer_policy_generation)
<1> DEFINE ext    == finality_extension(bhs, t, claim, finalizers, producers)
           f_diff == ext.new_finalizer_policy_diff
           p_diff == ext.new_proposer_policy_diff
           f      == get_last_proposed_finalizer_policy(bhs)
           p      == get_last_proposed_proposer_policy(bhs)
<1>1. f.finalizers \in AllLists /\ p.producers \in AllLists /\ bhs.finalizer_policy_generation \in Nat
    BY LastPolicies, PolicyFields, Zenon DEF PoliciesOK
<1>2. ASSUME p_diff # nullptr
      PROVE  applies(p.producers, p_diff.producer_auth_diff)
    <2>1. producers # nullptr /\ \E v : p_diff = create_proposer_diff(p, producers, v, t)
        BY <1>2, Zenon DEF finality_extension
    <2>2. PICK v : p_diff = create_proposer_diff(p, producers, v, t)
        BY <2>1, Zenon
    <2> HIDE DEF p_diff, p
    <2>3. p_diff.producer_auth_diff = diff(p.producers, producers)
        BY <2>2, Zenon DEF create_proposer_diff
    <2>4. producers \in Lists
        BY <2>1, Zenon
    <2>5. QED
        BY <1>1, <2>3, <2>4, DiffsAreUndone, Zenon
<1>3. ASSUME f_diff # nullptr
      PROVE  /\ applies(f.finalizers, f_diff.finalizers_diff)
             /\ ~(f_diff.generation <= bhs.finalizer_policy_generation)
    <2>1. finalizers # nullptr /\ f_diff = create_diff(f, finalizers, bhs.finalizer_policy_generation + 1)
        BY <1>3, Zenon DEF finality_extension
    <2> HIDE DEF f_diff, f
    <2>2. /\ f_diff.finalizers_diff = diff(f.finalizers, finalizers)
          /\ f_diff.generation = bhs.finalizer_policy_generation + 1
        BY <2>1, Zenon DEF create_diff
    <2>3. finalizers \in Lists
        BY <2>1, Zenon
    <2>4. applies(f.finalizers, f_diff.finalizers_diff)
        BY <1>1, <2>2, <2>3, DiffsAreUndone, Zenon
    <2>5. ~(f_diff.generation <= bhs.finalizer_policy_generation)
        BY <1>1, <2>2
    <2>6. QED
        BY <2>4, <2>5, Zenon
<1>4. QED
    BY <1>2, <1>3, Zenon

(* finish_next accepts what the controller may ask for. *)
LEMMA FinishNextAccepts ==
    ASSUME IInv, NEW claim \in LegalClaims,
           NEW finalizers \in Lists \cup {nullptr}, NEW producers \in Lists \cup {nullptr}
    PROVE  ~finish_next_throws(bhs, bhs.timestamp + 1,
                               finality_extension(bhs, bhs.timestamp + 1, claim, finalizers, producers))
<1>1. HistoryOK /\ CoreOK /\ PoliciesOK /\ InOrder /\ ClaimsKept
    BY Zenon DEF IInv
<1>2. claim \in Claims /\ claim.block_num \in ClaimedOn
    BY ClaimIsLegal, Zenon
<1>3. PICK t : t = bhs.timestamp + 1
    BY Zenon
<1>4. ~(t <= bhs.timestamp)
    <2>1. bhs.timestamp \in Nat
        BY <1>1, Zenon DEF HistoryOK
    <2>2. QED
        BY <1>3, <2>1
<1>5. PICK ext : ext = finality_extension(bhs, t, claim, finalizers, producers)
    BY Zenon
<1>6. ext.qc_claim = claim
    BY <1>5, Zenon DEF finality_extension
<1>7. /\ ext.new_proposer_policy_diff # nullptr =>
             applies(get_last_proposed_proposer_policy(bhs).producers, ext.new_proposer_policy_diff.producer_auth_diff)
      /\ ext.new_finalizer_policy_diff # nullptr =>
             /\ applies(get_last_proposed_finalizer_policy(bhs).finalizers, ext.new_finalizer_policy_diff.finalizers_diff)
             /\ ~(ext.new_finalizer_policy_diff.generation <= bhs.finalizer_policy_generation)
    BY <1>1, <1>5, DifferencesApply, Zenon
<1>8. ~get_finalizer_policies_throws(bhs, RefIn(history, claim.block_num))
    BY <1>1, <1>2, Retrieved, Zenon
<1>9. ~get_finalizer_policies_throws(bhs, get_block_reference(next(bhs.core, make_block_ref(bhs), claim), claim.block_num))
    BY <1>1, <1>2, <1>8, NextReference, Zenon
<1>10. ~finish_next_throws(bhs, t, ext)
    BY <1>4, <1>6, <1>7, <1>9, Zenon DEF finish_next_throws
<1>11. QED
    BY <1>3, <1>5, <1>10, Zenon

(* The finality root of the claimed block is at hand. *)
LEMMA RootAtHand ==
    ASSUME IInv, NEW claim \in LegalClaims
    PROVE  /\ ~get_finality_mroot_claim_throws(bhs, claim)
           /\ get_finality_mroot_claim(bhs, claim) = IF claim.block_num = GenesisNum THEN 0 ELSE claim.block_num
<1>1. HistoryOK /\ CoreOK /\ RootsOK
    BY Zenon DEF IInv
<1>2. claim \in Claims /\ claim.block_num \in ClaimedOn
    BY ClaimIsLegal, Zenon
<1>3. next_metadata(bhs.core, claim).latest_qc_claim_block_num = claim.block_num
    BY Zenon DEF next_metadata
<1>4. is_genesis_block_num(bhs.core, claim.block_num) <=> claim.block_num = 1
    BY <1>1, <1>2, HeadNumbers, Zenon
<1>5. PICK num, lib, roots, N, l : /\ num = claim.block_num
                                   /\ lib = last_final_block_num(bhs.core)
                                   /\ roots = bhs.validation_mroots
                                   /\ N = bhs.block_num
                                   /\ l = latest_qc_claim(bhs.core).block_num
    BY Zenon
<1>6. N \in Nat /\ lib \in Nat /\ l \in Nat /\ lib <= l /\ num \in l .. N
    BY <1>1, <1>2, <1>5, HeadNumbers, Zenon DEF ClaimedOn
<1>7. Len(roots) = (N - lib) + 1 /\ \A i \in 1 .. Len(roots) : roots[i] = (lib + i) - 1
    BY <1>1, <1>5, Zenon DEF RootsOK
<1>8. /\ num \in lib .. lib + Len(roots) - 1
      /\ num - lib + 1 \in 1 .. Len(roots)
      /\ (lib + (num - lib + 1)) - 1 = num
    BY <1>6, <1>7
<1>9. roots[num - lib + 1] = num
    BY <1>7, <1>8, Zenon
<1>10. ~get_finality_mroot_claim_throws(bhs, claim)
    BY <1>3, <1>5, <1>8, Zenon DEF get_finality_mroot_claim_throws
<1>11. get_finality_mroot_claim(bhs, claim) = IF num = 1 THEN 0 ELSE num
    BY <1>3, <1>4, <1>5, <1>9, Zenon DEF get_finality_mroot_claim
<1>12. QED
    BY <1>5, <1>10, <1>11, Zenon DEF GenesisNum

(* The policies of every block that a QC may still be on are found. *)
LEMMA AllRetrievable ==
    ASSUME IInv
    PROVE  PoliciesRetrievable
<1>1. HistoryOK /\ CoreOK /\ PoliciesOK /\ InOrder /\ ClaimsKept
    BY Zenon DEF IInv
<1>2. SUFFICES ASSUME NEW num \in ClaimedOn
               PROVE  /\ ~get_finalizer_policies_throws(bhs, ref_at(bhs, num))
                      /\ get_finalizer_policies(bhs, ref_at(bhs, num)) =
                            [active_finalizer_policy  |-> history[num].active,
                             pending_finalizer_policy |-> IF history[num].pending = nullptr THEN nullptr
                                                          ELSE history[num].pending.policy]
    BY Zenon DEF PoliciesRetrievable, ClaimedOn, None
<1>3. num \in Nat /\ last_final_block_num(bhs.core) <= num /\ num <= bhs.block_num
    <2>1. PICK l, a, N : /\ l = latest_qc_claim(bhs.core).block_num
                         /\ a = last_final_block_num(bhs.core)
                         /\ N = bhs.block_num
        BY Zenon
    <2>2. l \in Nat /\ a \in Nat /\ N \in Nat /\ a <= l /\ num \in l .. N
        BY <1>1, <1>2, <2>1, HeadNumbers, Zenon DEF ClaimedOn
    <2>3. num \in Nat /\ a <= num /\ num <= N
        BY <2>2, SMTT(20)
    <2>4. QED
        BY <2>1, <2>3, Zenon
<1>4. PICK ref : ref = RefIn(history, num)
    BY Zenon
<1>5. ref_at(bhs, num) = ref
    BY <1>1, <1>3, <1>4, ReferenceAt, Zenon
<1>6. /\ ~get_finalizer_policies_throws(bhs, ref)
      /\ get_finalizer_policies(bhs, ref).active_finalizer_policy = history[num].active
      /\ get_finalizer_policies(bhs, ref).pending_finalizer_policy =
            IF history[num].pending = nullptr THEN nullptr ELSE history[num].pending.policy
    BY <1>1, <1>2, <1>4, Retrieved, Zenon
<1>7. PICK a, p : get_finalizer_policies(bhs, ref) = [active_finalizer_policy |-> a, pending_finalizer_policy |-> p]
    BY Zenon DEF get_finalizer_policies
<1>8. /\ get_finalizer_policies(bhs, ref).active_finalizer_policy = a
      /\ get_finalizer_policies(bhs, ref).pending_finalizer_policy = p
    BY <1>7
<1>9. a = history[num].active /\ p = IF history[num].pending = nullptr THEN nullptr ELSE history[num].pending.policy
    BY <1>6, <1>8, Zenon
<1>10. get_finalizer_policies(bhs, ref) =
          [active_finalizer_policy  |-> history[num].active,
           pending_finalizer_policy |-> IF history[num].pending = nullptr THEN nullptr ELSE history[num].pending.policy]
    BY <1>7, <1>9, Zenon
<1>11. QED
    BY <1>5, <1>6, <1>10, Zenon

(* A node that keeps three policies can verify a QC on any block from the  *)
(* latest claim to the head: get_finalizer_policies answers with the       *)
(* policies that were active and pending there, on every branch.           *)
THEOREM QCsAreVerifiable == Spec => []PoliciesRetrievable
<1>1. IInv => PoliciesRetrievable
    BY AllRetrievable, Zenon
<1>2. QED
    BY <1>1, HeaderInvariant, PTL

(* block_header_state::next never refuses the block that a producer builds *)
(* on the head, whatever it may propose and claim.                         *)
THEOREM ProducersAreNotRefused == Spec => []NextNeverThrows
<1>1. ASSUME IInv PROVE NextNeverThrows
    <2>1. kind.finalizers \subseteq Lists /\ kind.producers \subseteq Lists
        <3>1. kind \in Kinds
            BY <1>1, Zenon DEF IInv, HistoryOK
        <3>2. QED
            BY <3>1, KindsAssumption, Zenon
    <2>2. SUFFICES ASSUME NEW claim \in LegalClaims,
                          NEW finalizers \in kind.finalizers \cup {nullptr}, NEW producers \in kind.producers \cup {nullptr}
                   PROVE  /\ ~finish_next_throws(bhs, bhs.timestamp + 1,
                                  finality_extension(bhs, bhs.timestamp + 1, claim, finalizers, producers))
                          /\ ~get_finality_mroot_claim_throws(bhs, claim)
                          /\ get_finality_mroot_claim(bhs, claim) = IF claim.block_num = GenesisNum THEN 0 ELSE claim.block_num
        BY Zenon DEF NextNeverThrows, None
    <2>3. finalizers \in Lists \cup {nullptr} /\ producers \in Lists \cup {nullptr}
        BY <2>1, ZenonT(60)
    <2>4. QED
        BY <1>1, <2>3, FinishNextAccepts, RootAtHand, Zenon
<1>2. IInv => NextNeverThrows
    BY <1>1, Zenon
<1>3. QED
    BY <1>2, HeaderInvariant, PTL

(* The last policy and the last schedule that a branch proposed are kept,  *)
(* although headers only carry differences.                                *)
THEOREM ProposalsAreKept == Spec => []LatestProposalKept
<1>1. IInv => LatestProposalKept
    BY Zenon DEF IInv
<1>2. QED
    BY <1>1, HeaderInvariant, PTL

(* A finalizer policy is final as a proposal before it is pending, and as  *)
(* a pending one before it is active.                                      *)
THEOREM PoliciesAreFinalTwice == Spec => []ActiveWasFinalTwice
<1>1. IInv => ActiveWasFinalTwice
    BY Zenon DEF IInv
<1>2. QED
    BY <1>1, HeaderInvariant, PTL

(* Generations and blocks of the policies in flight are in order.          *)
THEOREM PoliciesStayInOrder == Spec => []PoliciesInOrder
<1>1. IInv => PoliciesInOrder
    BY Zenon DEF IInv, InOrder
<1>2. QED
    BY <1>1, HeaderInvariant, PTL

(* evaluate_proposer_policies_for_promotion changes the schedule between   *)
(* rounds only, for every number of slots in a round.                      *)
THEOREM RoundsHaveOneSchedule == Spec => []ScheduleFixedInRound
<1>1. IInv => ScheduleFixedInRound
    BY Zenon DEF IInv
<1>2. QED
    BY <1>1, HeaderInvariant, PTL

(* A schedule is only active when its proposal is final and at least two   *)
(* rounds old, and never after a newer one.                                *)
THEOREM SchedulesAreFinal == Spec => []ScheduleWasFinal
<1>1. IInv => ScheduleWasFinal
    BY Zenon DEF IInv
<1>2. QED
    BY <1>1, HeaderInvariant, PTL

=============================================================================
