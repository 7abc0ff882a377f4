-------------------------- MODULE RddiData_proofs --------------------------
(***************************************************************************)
(* Proofs about the data of a call of the RDDI library, for any calls, any *)
(* range of the count byte and any chain: the values land where the caller *)
(* asked for them, an error is never invented, and devices are counted     *)
(* right.  The operators involved are recursive functions; what they       *)
(* compute is proved by an induction over sets of naturals, which follows  *)
(* from the well-foundedness of the order.                                 *)
(***************************************************************************)
EXTENDS RddiDap_proofs, WellFoundedInduction

-----------------------------------------------------------------------------
(* Induction and recursion over the naturals.                              *)

\* A set of naturals has a least element.
LEMMA Least ==
    ASSUME NEW T \in SUBSET Nat, T # {}
    PROVE  \E n \in T : \A m \in T : n =< m
<1> DEFINE R == OpToRel(<, Nat)
<1>1. IsWellFoundedOn(R, Nat)
    BY NatLessThanWellFounded
<1>2. \A x, y \in Nat : x < y => <<x, y>> \in R
    BY DEF OpToRel
<1> HIDE DEF R
<1>3. PICK n \in T : \A m \in T : ~(<<m, n>> \in R)
    BY <1>1, WFMin, Zenon
<1>4. \A m \in T : n \in Nat /\ m \in Nat /\ ~(m < n)
    BY <1>2, <1>3
<1>5. QED
    BY <1>4

\* A set that holds a, and the successor of each of its elements below b,
\* holds all of a .. b.
LEMMA SetInduction ==
    ASSUME NEW a \in Nat, NEW b \in Nat, NEW T, a \in T,
           \A n \in a .. b - 1 : n \in T => n + 1 \in T
    PROVE  \A n \in a .. b : n \in T
<1> DEFINE U == {n \in Nat : n \in a .. b /\ n \notin T}
<1>1. ASSUME U # {} PROVE FALSE
  <2>1. PICK n \in U : \A m \in U : n =< m
      BY <1>1, Least
  <2>2. n \in Nat /\ n \in a .. b /\ n # a /\ n \notin T
      BY <2>1
  <2>3. n - 1 \in Nat /\ n - 1 \in a .. b - 1 /\ n - 1 \in a .. b
      BY <2>2
  <2>4. n - 1 \in T
      BY <2>1, <2>3
  <2>5. n - 1 + 1 \in T /\ n - 1 + 1 = n
      BY <2>2, <2>3, <2>4
  <2>6. QED
      BY <2>2, <2>5
<1>2. QED
    BY <1>1

\* v is defined on a .. b by its first value, and from the value before.
Recursive(v, a, b, base, F) ==
    \A i \in a .. b : v[i] = IF i = a THEN base ELSE F[<<i, v[i - 1]>>]

LEMMA Recursion ==
    ASSUME NEW a \in Nat, NEW b \in Nat, NEW S, NEW base \in S, NEW F \in [Nat \X S -> S]
    PROVE  \E v \in [a .. b -> S] : Recursive(v, a, b, base, F)
<1> USE DEF Recursive
<1> DEFINE Good(v, n) == \A i \in a .. n : v[i] = IF i = a THEN base ELSE F[<<i, v[i - 1]>>]
           T == {n \in Nat : \E v \in [a .. n -> S] : Good(v, n)}
<1>1. a \in T
  <2> DEFINE w == [i \in a .. a |-> base]
  <2>1. w \in [a .. a -> S]
      OBVIOUS
  <2>2. \A i \in a .. a : i = a /\ w[i] = base
      OBVIOUS
  <2>3. Good(w, a)
      BY <2>2
  <2> HIDE DEF w, Good
  <2>4. QED
      BY <2>1, <2>3
<1>2. ASSUME NEW n \in a .. b - 1, n \in T PROVE n + 1 \in T
  <2>1. n \in Nat /\ a =< n /\ n + 1 \in Nat /\ a =< n + 1
      OBVIOUS
  <2>2. PICK v \in [a .. n -> S] : Good(v, n)
      BY <1>2
  <2> DEFINE w == [i \in a .. n + 1 |-> IF i = n + 1 THEN F[<<n + 1, v[n]>>] ELSE v[i]]
  <2>3. v[n] \in S /\ \A i \in a .. n + 1 : i # n + 1 => i \in a .. n
      BY <2>1, <2>2
  <2>4. w \in [a .. n + 1 -> S]
      BY <2>1, <2>3
  <2>5. ASSUME NEW i \in a .. n + 1 PROVE w[i] = IF i = a THEN base ELSE F[<<i, w[i - 1]>>]
    <3>1. CASE i = n + 1
      <4>1. i # a /\ i - 1 \in a .. n + 1 /\ i - 1 = n /\ n # n + 1
          BY <2>1, <3>1
      <4>2. w[i] = F[<<i, v[n]>>] /\ w[i - 1] = v[n]
          BY <3>1, <4>1
      <4>3. QED
          BY <4>1, <4>2
    <3>2. CASE i # n + 1
      <4>1. i \in a .. n /\ w[i] = v[i]
          BY <3>2, <2>3
      <4>2. i # a => i - 1 \in a .. n + 1 /\ i - 1 # n + 1
          BY <2>1, <4>1
      <4>3. i # a => w[i - 1] = v[i - 1]
          BY <4>2
      <4>4. QED
          BY <2>2, <4>1, <4>3
    <3>3. QED
        BY <3>1, <3>2
  <2>6. Good(w, n + 1)
      BY <2>5
  <2>7. QED
      BY <2>1, <2>4, <2>6
<1>3. CASE a =< b
  <2> HIDE DEF T
  <2>1. \A n \in a .. b - 1 : n \in T => n + 1 \in T
      BY <1>2
  <2>2. \A n \in a .. b : n \in T
      BY <1>1, <2>1, SetInduction
  <2>3. b \in T
      BY <1>3, <2>2
  <2>4. QED
      BY <2>3 DEF T
<1>4. CASE ~(a =< b)
  <2>1. a .. b = {}
      BY <1>4
  <2>2. [i \in a .. b |-> base] \in [a .. b -> S]
      BY <2>1
  <2>3. QED
      BY <2>1, <2>2
<1>5. QED
    BY <1>3, <1>4

-----------------------------------------------------------------------------
(* The reads among a sequence of transfers.                                *)

\* ReadsOf is what its definition says.
LEMMA ReadsOfDef ==
    ASSUME NEW regs, NEW s \in Seq(Nat)
    PROVE  \E r \in [0 .. Len(s) -> Seq(Nat)] :
               /\ r[0] = <<>>
               /\ \A i \in 1 .. Len(s) :
                      r[i] = IF regs[s[i]] = "read" THEN Append(r[i - 1], s[i]) ELSE r[i - 1]
               /\ ReadsOf(regs, s) = r[Len(s)]
<1> DEFINE S == Seq(Nat)
           L == Len(s)
           Eq(r) == r = [n \in 0 .. L |->
                            IF n = 0 THEN <<>>
                            ELSE IF regs[s[n]] = "read" THEN Append(r[n - 1], s[n]) ELSE r[n - 1]]
           F == [x \in Nat \X S |-> IF x[1] \in 1 .. L /\ regs[s[x[1]]] = "read"
                                    THEN Append(x[2], s[x[1]]) ELSE x[2]]
           f == CHOOSE r : Eq(r)
<1>1. L \in Nat /\ 0 \in Nat /\ <<>> \in S
    OBVIOUS
<1>2. \A i \in 1 .. L : s[i] \in Nat
    OBVIOUS
<1>3. F \in [Nat \X S -> S]
  <2>1. ASSUME NEW x \in Nat \X S
        PROVE (IF x[1] \in 1 .. L /\ regs[s[x[1]]] = "read" THEN Append(x[2], s[x[1]]) ELSE x[2]) \in S
    <3>1. x[2] \in S
        OBVIOUS
    <3>2. \A e \in Nat : Append(x[2], e) \in S
        BY <3>1
    <3>3. QED
        BY <1>2, <3>1, <3>2
  <2>2. QED
      BY <2>1
<1>4. \A i \in 1 .. L, t \in S : F[<<i, t>>] = IF regs[s[i]] = "read" THEN Append(t, s[i]) ELSE t
  <2>1. \A i \in 1 .. L, t \in S : <<i, t>> \in Nat \X S
      BY <1>1
  <2>2. QED
      BY <2>1
<1>5. ReadsOf(regs, s) = f[L]
    BY DEF ReadsOf
<1> HIDE DEF F, S
<1>6. PICK v \in [0 .. L -> S] : Recursive(v, 0, L, <<>>, F)
  <2> HIDE DEF L
  <2>1. QED
      BY <1>1, <1>3, Recursion
<1>7. \A i \in 0 .. L : /\ i # 0 => i \in 1 .. L /\ i - 1 \in 0 .. L
                        /\ v[i] = IF i = 0 THEN <<>>
                                  ELSE IF regs[s[i]] = "read" THEN Append(v[i - 1], s[i]) ELSE v[i - 1]
  <2> HIDE DEF L
  <2>1. \A i \in 0 .. L : i # 0 => i \in 1 .. L /\ i - 1 \in 0 .. L
      BY <1>1
  <2>2. QED
      BY <1>4, <1>6, <2>1 DEF Recursive
<1>8. Eq(v)
    BY <1>7
<1>9. Eq(f)
    BY <1>8, Zenon
<1> HIDE DEF f
<1>10. \A i \in 0 .. L : f[i] = IF i = 0 THEN <<>>
                                ELSE IF regs[s[i]] = "read" THEN Append(f[i - 1], s[i]) ELSE f[i - 1]
    BY <1>9
<1>11. f[L] = v[L]
  <2> DEFINE T == {n \in Nat : f[n] = v[n]}
  <2>1. 0 \in T
      BY <1>1, <1>7, <1>10
  <2>2. ASSUME NEW n \in 0 .. L - 1, n \in T PROVE n + 1 \in T
    <3>1. n \in Nat /\ n + 1 \in 0 .. L /\ n + 1 # 0 /\ n + 1 - 1 = n /\ f[n] = v[n]
        BY <1>1, <2>2
    <3> DEFINE m == n + 1
    <3> HIDE DEF m
    <3>2. m \in 0 .. L /\ m # 0 /\ f[m - 1] = v[m - 1]
        BY <3>1 DEF m
    <3>3. f[m] = v[m]
      <4> HIDE DEF L, T
      <4>1. f[m] = IF regs[s[m]] = "read" THEN Append(f[m - 1], s[m]) ELSE f[m - 1]
          BY <1>10, <3>2
      <4>2. v[m] = IF regs[s[m]] = "read" THEN Append(v[m - 1], s[m]) ELSE v[m - 1]
          BY <1>7, <3>2
      <4>3. QED
          BY <3>2, <4>1, <4>2
    <3>4. QED
        BY <3>1, <3>3 DEF m
  <2> HIDE DEF T, L
  <2>3. \A n \in 0 .. L : n \in T
      BY <1>1, <2>1, <2>2, SetInduction
  <2>4. L \in T
      BY <1>1, <2>3
  <2>5. QED
      BY <2>4 DEF T
<1>12. ReadsOf(regs, s) = v[L] /\ v[0] = <<>> /\ v \in [0 .. L -> S]
    BY <1>1, <1>5, <1>7, <1>11
<1>13. \A i \in 1 .. L : v[i] = IF regs[s[i]] = "read" THEN Append(v[i - 1], s[i]) ELSE v[i - 1]
  <2> HIDE DEF L
  <2>1. \A i \in 1 .. L : i \in 0 .. L /\ i # 0
      BY <1>1
  <2>2. QED
      BY <1>7, <2>1
<1>14. QED
    BY <1>12, <1>13 DEF S

\* Of no transfers, and of one more.
LEMMA ReadsOfEmpty ==
    ASSUME NEW regs
    PROVE  ReadsOf(regs, <<>>) = <<>>
<1> DEFINE s == <<>>
<1>1. s \in Seq(Nat) /\ Len(s) = 0
    OBVIOUS
<1> HIDE DEF s
<1>2. PICK r \in [0 .. Len(s) -> Seq(Nat)] : r[0] = <<>> /\ ReadsOf(regs, s) = r[Len(s)]
    BY <1>1, ReadsOfDef
<1>3. QED
    BY <1>1, <1>2 DEF s

LEMMA ReadsOfAppend ==
    ASSUME NEW regs, NEW s \in Seq(Nat), NEW x \in Nat
    PROVE  ReadsOf(regs, Append(s, x)) =
               IF regs[x] = "read" THEN Append(ReadsOf(regs, s), x) ELSE ReadsOf(regs, s)
<1> DEFINE L == Len(s)
           t == Append(s, x)
<1>1. PICK r \in [0 .. L -> Seq(Nat)] :
          /\ r[0] = <<>>
          /\ \A i \in 1 .. L : r[i] = IF regs[s[i]] = "read" THEN Append(r[i - 1], s[i]) ELSE r[i - 1]
          /\ ReadsOf(regs, s) = r[L]
    BY ReadsOfDef
<1>2. t \in Seq(Nat) /\ Len(t) = L + 1 /\ L \in Nat /\ t[L + 1] = x /\ \A i \in 1 .. L : t[i] = s[i]
    BY AppendProperties
<1>3. PICK q \in [0 .. Len(t) -> Seq(Nat)] :
          /\ q[0] = <<>>
          /\ \A i \in 1 .. Len(t) : q[i] = IF regs[t[i]] = "read" THEN Append(q[i - 1], t[i]) ELSE q[i - 1]
          /\ ReadsOf(regs, t) = q[Len(t)]
  <2> HIDE DEF t
  <2>1. QED
      BY <1>2, ReadsOfDef
<1> HIDE DEF L, t
<1>4. q[L] = r[L]
  <2> DEFINE T == {n \in Nat : q[n] = r[n]}
  <2>1. 0 \in T
      BY <1>1, <1>3
  <2>2. ASSUME NEW n \in 0 .. L - 1, n \in T PROVE n + 1 \in T
    <3> DEFINE m == n + 1
    <3>1. m \in 1 .. L /\ m \in 1 .. Len(t) /\ m - 1 = n /\ m \in Nat
        BY <1>2
    <3> HIDE DEF m
    <3>2. q[m - 1] = r[m - 1] /\ t[m] = s[m]
        BY <1>2, <2>2, <3>1
    <3>3. q[m] = IF regs[t[m]] = "read" THEN Append(q[m - 1], t[m]) ELSE q[m - 1]
        BY <1>3, <3>1
    <3>4. r[m] = IF regs[s[m]] = "read" THEN Append(r[m - 1], s[m]) ELSE r[m - 1]
        BY <1>1, <3>1
    <3>5. q[m] = r[m]
        BY <3>2, <3>3, <3>4
    <3>6. QED
        BY <3>1, <3>5 DEF m
  <2> HIDE DEF T
  <2>3. \A n \in 0 .. L : n \in T
      BY <1>2, <2>1, <2>2, SetInduction
  <2>4. L \in T
      BY <1>2, <2>3
  <2>5. QED
      BY <2>4 DEF T
<1>5. L + 1 \in 1 .. Len(t) /\ L + 1 - 1 = L
    BY <1>2
<1>6. q[L + 1] = IF regs[x] = "read" THEN Append(q[L], x) ELSE q[L]
  <2> DEFINE m == L + 1
  <2>1. m \in 1 .. Len(t) /\ m - 1 = L /\ t[m] = x
      BY <1>2, <1>5
  <2> HIDE DEF m
  <2>2. q[m] = IF regs[t[m]] = "read" THEN Append(q[m - 1], t[m]) ELSE q[m - 1]
      BY <1>3, <2>1
  <2>3. q[m] = IF regs[x] = "read" THEN Append(q[L], x) ELSE q[L]
      BY <2>1, <2>2
  <2>4. QED
      BY <2>3 DEF m
<1>7. ReadsOf(regs, t) = q[L + 1] /\ ReadsOf(regs, s) = r[L]
    BY <1>1, <1>2, <1>3
<1>8. QED
    BY <1>4, <1>6, <1>7 DEF t

\* The reads of s are positions of s, all of them reads, and none is missing.
LEMMA ReadsOfWhere ==
    ASSUME NEW regs, NEW s \in Seq(Nat), NEW t, t = ReadsOf(regs, s)
    PROVE  /\ t \in Seq(Nat)
           /\ \A j \in 1 .. Len(t) : \E i \in 1 .. Len(s) : s[i] = t[j] /\ regs[t[j]] = "read"
           /\ \A i \in 1 .. Len(s) : regs[s[i]] = "read" => \E j \in 1 .. Len(t) : t[j] = s[i]
<1> DEFINE L == Len(s)
           Sound(n, v) == \A j \in 1 .. Len(v) : \E i \in 1 .. n : s[i] = v[j] /\ regs[v[j]] = "read"
           Whole(n, v) == \A i \in 1 .. n : regs[s[i]] = "read" => \E j \in 1 .. Len(v) : v[j] = s[i]
<1>1. PICK r \in [0 .. L -> Seq(Nat)] :
          /\ r[0] = <<>>
          /\ \A i \in 1 .. L : r[i] = IF regs[s[i]] = "read" THEN Append(r[i - 1], s[i]) ELSE r[i - 1]
          /\ t = r[L]
    BY ReadsOfDef
<1>2. L \in Nat /\ \A i \in 1 .. L : s[i] \in Nat
    OBVIOUS
<1> HIDE DEF L
<1> DEFINE T == {n \in 0 .. L : Sound(n, r[n]) /\ Whole(n, r[n])}
<1>3. 0 \in T
  <2>1. Len(r[0]) = 0 /\ 0 \in 0 .. L /\ 1 .. 0 = {}
      BY <1>1, <1>2
  <2>2. Sound(0, r[0]) /\ Whole(0, r[0])
      BY <2>1
  <2>3. QED
      BY <2>1, <2>2
<1>4. ASSUME NEW n \in 0 .. L - 1, n \in T PROVE n + 1 \in T
  <2> DEFINE m == n + 1
             u == r[n]
             e == s[m]
  <2>1. m \in 1 .. L /\ m \in 0 .. L /\ m - 1 = n /\ n \in 0 .. L /\ n \in Nat
      BY <1>2
  <2>2. /\ \A i \in 1 .. n : i \in 1 .. m /\ i \in 1 .. L
        /\ \A i \in 1 .. m : i = m \/ i \in 1 .. n
        /\ m \in 1 .. m
      BY <1>2
  <2>3. u \in Seq(Nat) /\ e \in Nat /\ Sound(n, u) /\ Whole(n, u)
      BY <1>1, <1>2, <1>4, <2>1
  <2>4. r[m] = IF regs[e] = "read" THEN Append(u, e) ELSE u
    <3> HIDE DEF m
    <3>1. r[m] = IF regs[s[m]] = "read" THEN Append(r[m - 1], s[m]) ELSE r[m - 1]
        BY <1>1, <2>1
    <3>2. QED
        BY <2>1, <3>1
  <2> HIDE DEF m, u, e
  <2>5. CASE regs[e] = "read"
    <3> DEFINE w == Append(u, e)
    <3>1. /\ Len(w) = Len(u) + 1 /\ Len(u) \in Nat /\ w[Len(u) + 1] = e
          /\ \A j \in 1 .. Len(u) : w[j] = u[j]
        BY <2>3, AppendProperties
    <3>2. /\ \A j \in 1 .. Len(w) : j \in 1 .. Len(u) \/ j = Len(u) + 1
          /\ \A j \in 1 .. Len(u) : j \in 1 .. Len(w)
          /\ Len(u) + 1 \in 1 .. Len(w)
        BY <3>1
    <3> HIDE DEF w
    <3>3. Sound(m, w)
      <4> SUFFICES ASSUME NEW j \in 1 .. Len(w)
                   PROVE  \E i \in 1 .. m : s[i] = w[j] /\ regs[w[j]] = "read"
          OBVIOUS
      <4>1. CASE j \in 1 .. Len(u)
          BY <2>2, <2>3, <3>1, <4>1
      <4>2. CASE j = Len(u) + 1
          BY <2>2, <2>5, <3>1, <4>2 DEF e
      <4>3. QED
          BY <3>2, <4>1, <4>2
    <3>4. Whole(m, w)
      <4> SUFFICES ASSUME NEW i \in 1 .. m, regs[s[i]] = "read"
                   PROVE  \E j \in 1 .. Len(w) : w[j] = s[i]
          OBVIOUS
      <4>1. CASE i = m
          BY <3>1, <3>2, <4>1 DEF e
      <4>2. CASE i \in 1 .. n
          BY <2>3, <3>1, <3>2, <4>2
      <4>3. QED
          BY <2>2, <4>1, <4>2
    <3>5. r[m] = w
        BY <2>4, <2>5 DEF w
    <3>6. QED
        BY <2>1, <3>3, <3>4, <3>5 DEF m
  <2>6. CASE regs[e] # "read"
    <3>1. Sound(m, u)
        BY <2>2, <2>3
    <3>2. Whole(m, u)
        BY <2>2, <2>3, <2>6 DEF e
    <3>3. r[m] = u
        BY <2>4, <2>6
    <3>4. QED
        BY <2>1, <3>1, <3>2, <3>3 DEF m
  <2>7. QED
      BY <2>5, <2>6
<1>5. L \in T
  <2> HIDE DEF T
  <2>1. \A n \in 0 .. L : n \in T
      BY <1>2, <1>3, <1>4, SetInduction
  <2>2. QED
      BY <1>2, <2>1
<1>6. r[L] \in Seq(Nat) /\ Sound(L, r[L]) /\ Whole(L, r[L])
    BY <1>1, <1>2, <1>5
<1>7. QED
    BY <1>1, <1>6 DEF L

\* There are none, or only reads.
LEMMA ReadsOfNone ==
    ASSUME NEW regs, NEW s \in Seq(Nat), \A i \in 1 .. Len(s) : regs[s[i]] # "read"
    PROVE  ReadsOf(regs, s) = <<>>
<1> DEFINE t == ReadsOf(regs, s)
<1>1. t \in Seq(Nat) /\ \A j \in 1 .. Len(t) : \E i \in 1 .. Len(s) : s[i] = t[j] /\ regs[t[j]] = "read"
    BY ReadsOfWhere
<1> HIDE DEF t
<1>2. 1 .. Len(t) = {}
    BY <1>1
<1>3. Len(t) = 0
    BY <1>1, <1>2
<1>4. t = <<>>
    BY <1>1, <1>3
<1>5. QED
    BY <1>4 DEF t

LEMMA ReadsOfAll ==
    ASSUME NEW regs, NEW s \in Seq(Nat), \A i \in 1 .. Len(s) : regs[s[i]] = "read"
    PROVE  ReadsOf(regs, s) = s
<1> DEFINE L == Len(s)
<1>1. PICK r \in [0 .. L -> Seq(Nat)] :
          /\ r[0] = <<>>
          /\ \A i \in 1 .. L : r[i] = IF regs[s[i]] = "read" THEN Append(r[i - 1], s[i]) ELSE r[i - 1]
          /\ ReadsOf(regs, s) = r[L]
    BY ReadsOfDef
<1>2. L \in Nat /\ \A i \in 1 .. L : s[i] \in Nat
    OBVIOUS
<1> DEFINE T == {n \in 0 .. L : Len(r[n]) = n /\ \A j \in 1 .. n : r[n][j] = s[j]}
<1> HIDE DEF L
<1>3. 0 \in T
    BY <1>1, <1>2
<1>4. ASSUME NEW n \in 0 .. L - 1, n \in T PROVE n + 1 \in T
  <2> DEFINE m == n + 1
             u == r[n]
             e == s[m]
  <2>1. m \in 1 .. L /\ m \in 0 .. L /\ m - 1 = n /\ n \in 0 .. L /\ n \in Nat
      BY <1>2
  <2>2. \A j \in 1 .. m : j = m \/ j \in 1 .. n
      BY <1>2
  <2>3. u \in Seq(Nat) /\ e \in Nat /\ Len(u) = n /\ \A j \in 1 .. n : u[j] = s[j]
      BY <1>1, <1>2, <1>4, <2>1
  <2>4. r[m] = Append(u, e)
    <3> HIDE DEF m
    <3>1. r[m] = IF regs[s[m]] = "read" THEN Append(r[m - 1], s[m]) ELSE r[m - 1]
        BY <1>1, <2>1
    <3>2. regs[s[m]] = "read"
        BY <2>1 DEF L
    <3>3. QED
        BY <2>1, <3>1, <3>2
  <2>5. m = n + 1
      OBVIOUS
  <2> HIDE DEF m, u
  <2>6. /\ Len(Append(u, e)) = m /\ Append(u, e)[m] = s[m]
        /\ \A j \in 1 .. n : Append(u, e)[j] = s[j]
      BY <2>3, <2>5, AppendProperties DEF e
  <2>7. Len(r[m]) = m /\ \A j \in 1 .. m : r[m][j] = s[j]
      BY <2>2, <2>4, <2>6
  <2>8. QED
      BY <2>1, <2>7 DEF m
<1>5. L \in T
  <2> HIDE DEF T
  <2>1. \A n \in 0 .. L : n \in T
      BY <1>2, <1>3, <1>4, SetInduction
  <2>2. QED
      BY <1>2, <2>1
<1>6. r[L] \in Seq(Nat) /\ Len(r[L]) = Len(s) /\ \A j \in 1 .. Len(s) : r[L][j] = s[j]
    BY <1>1, <1>2, <1>5 DEF L
<1>7. r[L] = s
  <2> DEFINE t == r[L]
  <2>1. t \in Seq(Nat) /\ Len(t) = Len(s) /\ \A j \in 1 .. Len(s) : t[j] = s[j]
      BY <1>6
  <2> HIDE DEF t
  <2>2. t = s
      BY <2>1, SeqEqual
  <2>3. QED
      BY <2>2 DEF t
<1>8. QED
    BY <1>1, <1>7

-----------------------------------------------------------------------------
(* The devices of a chain.                                                 *)

\* Division by the bits of a word, of what is at most one word.
LEMMA WordRemainder ==
    ASSUME NEW n \in 0 .. WordBits
    PROVE  n % WordBits = IF n = WordBits THEN 0 ELSE n
<1>1. WordBits \in Nat \ {0}
    BY RddiAssumption DEF RddiAssumption
<1>2. QED
    BY <1>1

\* Left is what its definition says.
LEMMA LeftDef ==
    ASSUME NEW count \in Int
    PROVE  LET left == Left(count) IN
           /\ left \in [1 .. TdoWords -> Int]
           /\ left[1] = count
           /\ \A i \in 2 .. TdoWords :
                  left[i] = IF left[i - 1] % WordBits = 0
                            THEN (IF left[i - 1] > 0 THEN left[i - 1] - WordBits ELSE 0)
                            ELSE left[i - 1] - (left[i - 1] % WordBits)
<1> DEFINE Rest(l) == IF l % WordBits = 0 THEN (IF l > 0 THEN l - WordBits ELSE 0) ELSE l - (l % WordBits)
           Eq(f) == f = [i \in 1 .. TdoWords |->
                            IF i = 1 THEN count
                            ELSE LET l == f[i - 1] IN
                                 IF l % WordBits = 0 THEN (IF l > 0 THEN l - WordBits ELSE 0)
                                 ELSE l - (l % WordBits)]
           F == [x \in Nat \X Int |-> Rest(x[2])]
           left == CHOOSE f : Eq(f)
<1>1. WordBits \in Nat \ {0} /\ TdoWords \in Nat \ {0} /\ 1 \in Nat
    BY RddiAssumption DEF RddiAssumption
<1>2. \A l \in Int : Rest(l) \in Int
    BY <1>1
<1>3. Left(count) = left
    BY DEF Left
<1> HIDE DEF Rest
<1>4. F \in [Nat \X Int -> Int]
    BY <1>2
<1>5. \A i \in Nat, l \in Int : F[<<i, l>>] = Rest(l)
    OBVIOUS
<1> HIDE DEF F
<1>6. PICK v \in [1 .. TdoWords -> Int] : Recursive(v, 1, TdoWords, count, F)
    BY <1>1, <1>4, Recursion
<1>7. \A i \in 1 .. TdoWords : /\ i # 1 => i - 1 \in 1 .. TdoWords
                               /\ v[i] = IF i = 1 THEN count ELSE Rest(v[i - 1])
  <2>1. \A i \in 1 .. TdoWords : i \in Nat /\ (i # 1 => i - 1 \in 1 .. TdoWords)
      BY <1>1
  <2>2. TAKE i \in 1 .. TdoWords
  <2>3. v[i] = IF i = 1 THEN count ELSE F[<<i, v[i - 1]>>]
      BY <1>6 DEF Recursive
  <2>4. i # 1 => v[i - 1] \in Int
      BY <1>6, <2>1
  <2>5. i # 1 => F[<<i, v[i - 1]>>] = Rest(v[i - 1])
      BY <1>5, <2>1, <2>4
  <2>6. QED
      BY <2>1, <2>3, <2>5
<1>8. Eq(v)
    BY <1>7 DEF Rest
<1>9. Eq(left)
    BY <1>8, Zenon
<1> HIDE DEF left
<1>10. \A i \in 1 .. TdoWords : left[i] = IF i = 1 THEN count ELSE Rest(left[i - 1])
    BY <1>9 DEF Rest
<1>11. \A i \in 1 .. TdoWords : left[i] = v[i]
  <2> DEFINE T == {n \in Nat : left[n] = v[n]}
  <2>1. 1 \in T
      BY <1>1, <1>7, <1>10
  <2>2. ASSUME NEW n \in 1 .. TdoWords - 1, n \in T PROVE n + 1 \in T
    <3> DEFINE m == n + 1
    <3>1. m \in 1 .. TdoWords /\ m # 1 /\ m - 1 = n /\ m \in Nat
        BY <1>1
    <3> HIDE DEF m
    <3>2. left[m] = Rest(left[m - 1]) /\ v[m] = Rest(v[m - 1])
        BY <1>7, <1>10, <3>1
    <3>3. left[m] = v[m]
        BY <2>2, <3>1, <3>2
    <3>4. QED
        BY <3>1, <3>3 DEF m
  <2> HIDE DEF T
  <2>3. \A n \in 1 .. TdoWords : n \in T
      BY <1>1, <2>1, <2>2, SetInduction
  <2>4. QED
      BY <2>3 DEF T
<1>12. left \in [1 .. TdoWords -> Int]
  <2>1. left = [i \in 1 .. TdoWords |-> left[i]]
      BY <1>9
  <2>2. QED
      BY <1>11, <2>1
<1>13. /\ left[1] = count
       /\ \A i \in 2 .. TdoWords : left[i] = Rest(left[i - 1])
  <2>1. 1 \in 1 .. TdoWords /\ \A i \in 2 .. TdoWords : i \in 1 .. TdoWords /\ i # 1
      BY <1>1
  <2>2. QED
      BY <1>10, <2>1
<1>14. QED
    BY <1>3, <1>12, <1>13 DEF Rest

\* Devices that fit a word are all expected in the first one,
LEMMA LeftSmall ==
    ASSUME NEW n \in 1 .. WordBits
    PROVE  \A i \in 1 .. TdoWords : ZeroMask(Left(n)[i]) = IF i = 1 THEN 0 .. n - 1 ELSE {}
<1> DEFINE left == Left(n)
<1>1. WordBits \in Nat \ {0} /\ TdoWords \in Nat \ {0} /\ n \in Int
    BY RddiAssumption DEF RddiAssumption
<1>2. /\ left[1] = n
      /\ \A i \in 2 .. TdoWords :
             left[i] = IF left[i - 1] % WordBits = 0
                       THEN (IF left[i - 1] > 0 THEN left[i - 1] - WordBits ELSE 0)
                       ELSE left[i - 1] - (left[i - 1] % WordBits)
    BY <1>1, LeftDef
<1> HIDE DEF left
<1>3. 0 % WordBits = 0 /\ n % WordBits = IF n = WordBits THEN 0 ELSE n
  <2>1. 0 \in 0 .. WordBits /\ n \in 0 .. WordBits /\ 0 # WordBits
      BY <1>1
  <2>2. QED
      BY <2>1, WordRemainder
<1>4. \A i \in 2 .. TdoWords : left[i] = 0
  <2>1. CASE 2 =< TdoWords
    <3> DEFINE T == {i \in Nat : left[i] = 0}
    <3>1. 2 \in T
      <4>1. 2 \in 2 .. TdoWords
          BY <1>1, <2>1
      <4>2. left[2] = IF n % WordBits = 0 THEN (IF n > 0 THEN n - WordBits ELSE 0) ELSE n - (n % WordBits)
          BY <1>2, <4>1
      <4>3. left[2] = 0
          BY <1>1, <1>3, <4>2
      <4>4. QED
          BY <4>3
    <3>2. ASSUME NEW i \in 2 .. TdoWords - 1, i \in T PROVE i + 1 \in T
      <4> DEFINE m == i + 1
      <4>1. m \in 2 .. TdoWords /\ m - 1 = i /\ m \in Nat
          BY <1>1
      <4> HIDE DEF m
      <4>2. left[m - 1] = 0
          BY <3>2, <4>1
      <4>3. left[m] = 0
          BY <1>2, <1>3, <4>1, <4>2
      <4>4. QED
          BY <4>1, <4>3 DEF m
    <3> HIDE DEF T
    <3>3. \A i \in 2 .. TdoWords : i \in T
        BY <1>1, <3>1, <3>2, SetInduction
    <3>4. QED
        BY <3>3 DEF T
  <2>2. CASE ~(2 =< TdoWords)
      BY <1>1, <2>2
  <2>3. QED
      BY <2>1, <2>2
<1>5. ZeroMask(0) = {}
    BY DEF ZeroMask
<1>6. ZeroMask(n) = 0 .. n - 1
    BY <1>1, <1>3 DEF ZeroMask
<1>7. \A i \in 1 .. TdoWords : i = 1 \/ i \in 2 .. TdoWords
    BY <1>1
<1>8. QED
    BY <1>2, <1>4, <1>5, <1>6, <1>7 DEF left

\* so that they are counted right, and nothing else is taken for them.
LEMMA DevicesNumSmall ==
    ASSUME tdo \in [1 .. TdoWords -> SUBSET (0 .. WordBits - 1)], NEW n \in 1 .. WordBits
    PROVE  DevicesNum = n <=> Bits = {1} \X (0 .. n - 1)
<1> DEFINE C == Cardinality(Bits)
           P(c) == \A i \in 1 .. TdoWords : tdo[i] = ZeroMask(Left(c)[i])
<1>1. WordBits \in Nat \ {0} /\ TdoWords \in Nat \ {0} /\ n \in Nat \ {0}
    BY RddiAssumption DEF RddiAssumption
<1>2. DevicesNum = IF P(C) THEN C ELSE 0
    BY DEF DevicesNum
<1>3. P(n) <=> Bits = {1} \X (0 .. n - 1)
  <2>1. P(n) <=> \A i \in 1 .. TdoWords : tdo[i] = IF i = 1 THEN 0 .. n - 1 ELSE {}
      BY LeftSmall
  <2>2. \A i \in 1 .. TdoWords : tdo[i] \subseteq 0 .. WordBits - 1
      OBVIOUS
  <2>3. 1 \in 1 .. TdoWords /\ 0 .. n - 1 \subseteq 0 .. WordBits - 1
      BY <1>1
  <2>4. \A x : x \in Bits <=> \E i \in 1 .. TdoWords, b \in 0 .. WordBits - 1 : x = <<i, b>> /\ b \in tdo[i]
      BY DEF Bits
  <2> HIDE DEF P
  <2>5. ASSUME P(n) PROVE Bits = {1} \X (0 .. n - 1)
    <3>1. \A i \in 1 .. TdoWords : tdo[i] = IF i = 1 THEN 0 .. n - 1 ELSE {}
        BY <2>1, <2>5
    <3>2. \A x \in Bits : x \in {1} \X (0 .. n - 1)
        BY <2>4, <3>1
    <3>3. \A x \in {1} \X (0 .. n - 1) : x \in Bits
      <4> SUFFICES ASSUME NEW x \in {1} \X (0 .. n - 1) PROVE x \in Bits
          OBVIOUS
      <4>1. PICK b \in 0 .. n - 1 : x = <<1, b>>
          OBVIOUS
      <4>2. b \in 0 .. WordBits - 1 /\ b \in tdo[1]
          BY <2>3, <3>1
      <4>3. QED
          BY <2>3, <2>4, <4>1, <4>2
    <3>4. QED
        BY <3>2, <3>3
  <2>6. ASSUME Bits = {1} \X (0 .. n - 1) PROVE P(n)
    <3>1. ASSUME NEW i \in 1 .. TdoWords PROVE tdo[i] = IF i = 1 THEN 0 .. n - 1 ELSE {}
      <4>1. \A b \in 0 .. WordBits - 1 : b \in tdo[i] <=> <<i, b>> \in Bits
        <5>1. ASSUME NEW b \in 0 .. WordBits - 1, <<i, b>> \in Bits PROVE b \in tdo[i]
          <6>1. PICK k \in 1 .. TdoWords, c \in 0 .. WordBits - 1 : <<i, b>> = <<k, c>> /\ c \in tdo[k]
              BY <2>4, <5>1
          <6>2. k = i /\ c = b
              BY <6>1
          <6>3. QED
              BY <6>1, <6>2
        <5>2. QED
            BY <2>4, <5>1
      <4>2. \A b \in 0 .. WordBits - 1 : <<i, b>> \in Bits <=> i = 1 /\ b \in 0 .. n - 1
          BY <2>6
      <4>3. \A b : b \in tdo[i] <=> i = 1 /\ b \in 0 .. n - 1
          BY <2>2, <2>3, <4>1, <4>2
      <4>4. CASE i = 1
          BY <4>3, <4>4
      <4>5. CASE i # 1
          BY <4>3, <4>5
      <4>6. QED
          BY <4>4, <4>5
    <3>2. QED
        BY <2>1, <3>1
  <2>7. QED
      BY <2>5, <2>6
<1>4. Bits = {1} \X (0 .. n - 1) => C = n
  <2>1. IsFiniteSet({1}) /\ Cardinality({1}) = 1
      BY FS_Singleton
  <2>2. IsFiniteSet(0 .. n - 1) /\ Cardinality(0 .. n - 1) = n
      BY <1>1, FS_Interval
  <2>3. Cardinality({1} \X (0 .. n - 1)) = 1 * n
      BY <2>1, <2>2, FS_Product
  <2>4. QED
      BY <1>1, <2>3
<1> HIDE DEF C, P
<1>5. ASSUME DevicesNum = n PROVE Bits = {1} \X (0 .. n - 1)
  <2>1. P(C) /\ C = n
      BY <1>1, <1>2, <1>5
  <2>2. QED
      BY <1>3, <2>1
<1>6. ASSUME Bits = {1} \X (0 .. n - 1) PROVE DevicesNum = n
  <2>1. C = n /\ P(n)
      BY <1>3, <1>4, <1>6
  <2>2. QED
      BY <1>2, <2>1
<1>7. QED
    BY <1>5, <1>6

\* A counted chain is known until the next call.
ChainInv ==
    /\ tdo = <<>> \/ tdo \in [1 .. TdoWords -> SUBSET (0 .. WordBits - 1)]
    /\ tdo # <<>> => call.fn = "DetectJtag"
    /\ tdo # <<>> /\ (phase > 1 \/ result = "ok" \/ (phase = 1 /\ step = "build")) =>
           devices = DevicesNum

LEMMA ChainStep ==
    ASSUME RddiInductive, ChainInv, [RddiNext]_rddiVars
    PROVE  ChainInv'
<1>0. /\ step = "idle" <=> result # "pending"
      /\ phase \in 0 .. 3
      /\ UNCHANGED tdo => DevicesNum' = DevicesNum
    BY DEF RddiInductive, Placed, ControlTypeOK, DevicesNum, Bits
<1>1. CASE Probe
  <2>1. /\ step = "probe" /\ step' = "parse" /\ UNCHANGED <<call, phase, result, devices>>
        /\ Captures
      BY <1>1 DEF Probe, ProbeAnswers, buildVars, detectVars, resultVars
  <2>2. CASE call.fn = "DetectJtag" /\ phase = 1
    <3>1. tdo' \in [1 .. TdoWords -> SUBSET (0 .. WordBits - 1)]
        BY <2>1, <2>2 DEF Captures
    <3>2. phase' = 1 /\ result' = "pending" /\ step' = "parse" /\ call' = call
        BY <1>0, <2>1, <2>2
    <3>3. QED
        BY <2>2, <3>1, <3>2 DEF ChainInv
  <2>3. CASE ~(call.fn = "DetectJtag" /\ phase = 1)
    <3>1. tdo' = tdo
        BY <2>1, <2>3 DEF Captures
    <3>2. QED
        BY <1>0, <2>1, <3>1 DEF ChainInv
  <2>4. QED
      BY <2>2, <2>3
<1>2. CASE Parse
  <2>1. /\ step = "parse" /\ step' # "build"
        /\ UNCHANGED <<call, phase, result, devices, tdo>>
      BY <1>2
      DEF Parse, ParsePlain, ParseTransferConfigure, ParseReporting, ParseWriteABORT,
          ParseTransfer, ParseJtagSequence, ParsePins, Parsed, buildVars, detectVars,
          resultVars, probeVars
  <2>2. QED
      BY <1>0, <2>1 DEF ChainInv
<1>3. CASE Build
  <2>1. CASE SendScan
    <3>1. /\ step = "build" /\ phase' = phase + 1 /\ step' = "probe"
          /\ UNCHANGED <<call, result, devices, tdo>>
        BY <2>1, ScanSends DEF SendScan, Send, probeVars
    <3>2. QED
        BY <1>0, <3>1 DEF ChainInv
  <2>2. CASE AddTransfer \/ SkipRetry \/ SendBatch \/ SendAll \/ SendChunk \/ SendIdcode
             \/ NothingToRepeat
    <3>1. call.fn # "DetectJtag" /\ UNCHANGED <<call, tdo>>
        BY <2>2
        DEF AddTransfer, SkipRetry, SendBatch, SendAll, SendChunk, SendIdcode, NothingToRepeat,
            Send, Return, Singles, Orders, buildVars, probeVars
    <3>2. QED
        BY <3>1 DEF ChainInv
  <2>3. QED
      BY <1>3, <2>1, <2>2 DEF Build
<1>4. CASE Check
  <2>1. CASE BatchFails \/ NextBatch \/ LastBatch \/ AllReturns \/ ChunkChecked \/ IdcodeRead
        \/ SwdDetected \/ SwdNotDetected
    <3>1. call.fn # "DetectJtag" /\ UNCHANGED <<call, tdo>>
        BY <2>1
        DEF BatchFails, NextBatch, LastBatch, AllReturns, ChunkChecked, IdcodeRead, SwdDetected,
            SwdNotDetected, Return, StartBatch, Singles, Orders, buildVars, probeVars
    <3>2. QED
        BY <3>1 DEF ChainInv
  <2>2. CASE ScanFails
    <3>1. phase' = 1 /\ result' = "internal" /\ step' = "idle" /\ UNCHANGED <<call, tdo>>
        BY <2>2 DEF ScanFails, Return, buildVars, probeVars
    <3>2. QED
        BY <3>1 DEF ChainInv
  <2>3. CASE DevicesCounted
    <3>1. devices' = DevicesNum /\ UNCHANGED <<call, tdo>>
        BY <2>3 DEF DevicesCounted, Return, buildVars, probeVars
    <3>2. QED
        BY <1>0, <3>1 DEF ChainInv
  <2>4. CASE IdcodesChecked \/ ChainConfigured
    <3>1. phase > 1 /\ UNCHANGED <<call, tdo, devices>>
        BY <2>4 DEF IdcodesChecked, ChainConfigured, Return, buildVars, probeVars
    <3>2. QED
        BY <1>0, <3>1 DEF ChainInv
  <2>5. QED
      BY <1>4, <2>1, <2>2, <2>3, <2>4 DEF Check
<1>5. CASE \E r \in Requests : Call(r)
    BY <1>5 DEF Call, ChainInv
<1>6. CASE ConfigurePort \/ UNCHANGED rddiVars
  <2>1. UNCHANGED <<call, tdo, devices, phase, result, step>>
      BY <1>6 DEF ConfigurePort, rddiVars, buildVars, detectVars, resultVars, probeVars
  <2>2. QED
      BY <1>0, <2>1 DEF ChainInv
<1>7. QED
    BY <1>1, <1>2, <1>3, <1>4, <1>5, <1>6 DEF RddiNext, Working

\* A chain of at most one word of devices is counted right, however many words are
\* captured and whatever the line carries.
THEOREM ChainCountedCorrect == RddiSpec => []ChainCounted
<1>1. RddiInit => ChainInv
    BY DEF RddiInit, ChainInv
<1>2. RddiInductive /\ ChainInv /\ [RddiNext]_rddiVars => ChainInv'
    BY ChainStep
<1>3. ChainInv => ChainCounted
  <2> SUFFICES ASSUME ChainInv, tdo # <<>>, phase > 1 \/ result = "ok", NEW n \in 1 .. WordBits
               PROVE  devices = n <=> Bits = {1} \X (0 .. n - 1)
      BY DEF ChainCounted
  <2>1. tdo \in [1 .. TdoWords -> SUBSET (0 .. WordBits - 1)] /\ devices = DevicesNum
      BY DEF ChainInv
  <2>2. QED
      BY <2>1, DevicesNumSmall
<1>4. QED
    BY <1>1, <1>2, <1>3, RddiInductiveCorrect, PTL DEF RddiSpec

-----------------------------------------------------------------------------
(* Requests.                                                               *)

\* The kinds of the transfers that the assumption fixes.
LEMMA CallKinds ==
    ASSUME NEW c \in Requests \cup {NoCall}
    PROVE  /\ c.fn \in {"ReadReg", "RegReadRepeat", "DetectSwd"} =>
                  \A p \in 1 .. Len(c.regs) : c.regs[p] = "read"
           /\ c.fn \in {"WriteReg", "WriteAbort", "RegWriteRepeat"} =>
                  \A p \in 1 .. Len(c.regs) : c.regs[p] # "read"
<1>1. CASE c = NoCall
    BY <1>1 DEF NoCall
<1>2. CASE c \in Requests
  <2>1. /\ c.fn \in {"ReadReg", "RegReadRepeat"} => c.regs \in Seq({"read"})
        /\ c.fn \in {"WriteReg", "WriteAbort", "RegWriteRepeat"} => c.regs \in Seq({"write"})
        /\ c.fn = "DetectSwd" => c.regs = <<"read", "read">>
      BY <1>2, RddiAssumption DEF RddiAssumption
  <2>2. ASSUME c.fn \in {"ReadReg", "RegReadRepeat"} PROVE \A p \in 1 .. Len(c.regs) : c.regs[p] = "read"
      BY <2>1, <2>2, ElementOfSeq
  <2>3. ASSUME c.fn \in {"WriteReg", "WriteAbort", "RegWriteRepeat"}
        PROVE  \A p \in 1 .. Len(c.regs) : c.regs[p] # "read"
    <3>1. \A p \in 1 .. Len(c.regs) : c.regs[p] = "write"
        BY <2>1, <2>3, ElementOfSeq
    <3>2. QED
        BY <3>1
  <2>4. ASSUME c.fn = "DetectSwd" PROVE \A p \in 1 .. Len(c.regs) : c.regs[p] = "read"
      BY <2>1, <2>4
  <2>5. QED
      BY <2>2, <2>3, <2>4
<1>3. QED
    BY <1>1, <1>2

\* What the page and the arrays of the library hold: the reads of the last
\* transfers are in read_reg_index_array, and while a request is under way
\* they end at i.
InRequest == step \in {"probe", "parse", "check"}
PageInv ==
    /\ reads = ReadsOf(call.regs, batch)
    /\ call.fn = "RegWriteRepeat" => reads = <<>>
    /\ call.fn = "DetectJtag" => batch = <<>>
    /\ InRequest =>
           /\ page.xs = batch
           /\ Len(batch) =< pos - 1
           /\ Follow(batch, pos - 1 - Len(batch))
           /\ page.n = IF page.id = "Transfer" THEN Len(batch) % CountRange ELSE Len(batch)
           /\ page.id \in Counting => page.count = Len(batch)
           /\ page.id \notin Counting => reads = <<>>
           /\ page.id = "ResetTarget" => call.fn = "Commands"
           /\ call.fn \in {"ReadReg", "RegReadRepeat"} => page.id \in Counting
           /\ call.fn = "RegAccessBlock" /\ pos =< Total => call.regs[pos] = "retry"
           /\ call.fn = "DetectSwd" => Len(batch) = 1

\* A request of the transfers xs.
LEMMA PageSend ==
    ASSUME RddiInductive,
           NEW lead, NEW config, NEW id, NEW xs \in Seq(Nat), NEW count,
           Send(lead, config, id, xs, count), batch' = xs, reads' = ReadsOf(call.regs, xs),
           pos' \in Nat, Len(xs) =< pos' - 1, Follow(xs, pos' - 1 - Len(xs)),
           call.fn = "RegWriteRepeat" => reads' = <<>>,
           call.fn = "DetectJtag" => xs = <<>>,
           id \in Counting => count = Len(xs),
           id \notin Counting => reads' = <<>>,
           id = "ResetTarget" => call.fn = "Commands",
           call.fn \in {"ReadReg", "RegReadRepeat"} => id \in Counting,
           call.fn = "RegAccessBlock" /\ pos' =< Total => call.regs[pos'] = "retry",
           call.fn = "DetectSwd" => Len(xs) = 1
    PROVE  PageInv'
<1>1. /\ page' = [lead |-> lead, config |-> config, id |-> id, xs |-> xs,
                  n |-> IF id = "Transfer" THEN Len(xs) % CountRange ELSE Len(xs), count |-> count]
      /\ step' = "probe" /\ call' = call
    BY DEF Send
<1>2. page'.xs = xs /\ page'.id = id /\ page'.count = count
      /\ page'.n = IF id = "Transfer" THEN Len(xs) % CountRange ELSE Len(xs)
    BY <1>1
<1>3. Total' = Total
    BY <1>1 DEF Total
<1>4. Follow(batch, pos - 1 - Len(batch))'
    BY DEF Follow
<1>5. QED
    BY <1>1, <1>2, <1>3, <1>4 DEF PageInv, InRequest

\* Nothing of a request changes, and it may be over.
LEMMA PageKept ==
    ASSUME PageInv, UNCHANGED <<call, pos, batch, reads>>,
           step' \in {"probe", "parse", "check"} => UNCHANGED page /\ InRequest
    PROVE  PageInv'
BY DEF PageInv, InRequest, Follow, Total

LEMMA PageBuild ==
    ASSUME RddiInductive, PageInv, Build
    PROVE  PageInv'
<1>1. /\ step = "build" /\ pos \in 1 .. Total + 1 /\ Total \in Nat /\ pos \in Nat
      /\ batch \in Seq(Nat) /\ reads \in Seq(Nat) /\ Len(batch) \in Nat
      /\ call \in Requests \cup {NoCall} /\ Made \in Nat /\ setup \in Nat
      /\ Total = Len(call.regs)
  <2>1. step = "build"
      BY DEF Build, AddTransfer, SkipRetry, SendBatch, SendAll, SendChunk, NothingToRepeat,
             SendIdcode, SendScan
  <2>2. Total \in Nat
      BY TotalFacts DEF RddiInductive
  <2>3. QED
      BY <2>1, <2>2 DEF RddiInductive, ControlTypeOK, Made, Total
<1>2. CASE AddTransfer
  <2>1. /\ batch' = Append(batch, pos) /\ step' = "build" /\ call' = call
        /\ reads' = IF IsRead(pos) THEN Append(reads, pos) ELSE reads
        /\ call.fn = "RegAccessBlock"
      BY <1>2 DEF AddTransfer
  <2>2. ReadsOf(call.regs, Append(batch, pos)) =
            IF call.regs[pos] = "read" THEN Append(ReadsOf(call.regs, batch), pos)
            ELSE ReadsOf(call.regs, batch)
      BY <1>1, ReadsOfAppend
  <2>3. reads' = ReadsOf(call'.regs, batch')
      BY <2>1, <2>2 DEF PageInv, IsRead
  <2>4. QED
      BY <2>1, <2>3 DEF PageInv, InRequest
<1>3. CASE SkipRetry
  <2>1. batch' = <<>> /\ reads' = <<>> /\ step' = "build" /\ call' = call
        /\ call.fn = "RegAccessBlock"
      BY <1>3 DEF SkipRetry, StartBatch
  <2>2. reads' = ReadsOf(call'.regs, batch')
      BY <2>1, ReadsOfEmpty
  <2>3. QED
      BY <2>1, <2>2 DEF PageInv, InRequest
<1>4. CASE SendBatch
  <2> DEFINE id == IF setup # 0 /\ batch = <<>> THEN "none" ELSE "Transfer"
  <2>1. /\ call.fn = "RegAccessBlock"
        /\ pos =< Total => call.regs[pos] = "retry"
        /\ Send(<<>>, setup, id, batch, Len(batch))
        /\ UNCHANGED <<pos, batch, reads>>
      BY <1>4 DEF SendBatch
  <2>2. /\ Made + Own(setup) + Len(batch) = pos - 1
        /\ Follow(batch, Made + Own(setup))
        /\ Own(setup) \in Nat
      BY <1>1, <2>1 DEF RddiInductive, Built, Own
  <2>3. Len(batch) =< pos - 1 /\ Made + Own(setup) = pos - 1 - Len(batch)
      BY <1>1, <2>2
  <2>4. /\ id \notin Counting => reads = <<>>
        /\ id # "ResetTarget"
    <3>1. batch = <<>> => reads = <<>>
        BY ReadsOfEmpty DEF PageInv
    <3>2. QED
        BY <3>1 DEF Counting
  <2>5. Follow(batch, pos' - 1 - Len(batch))
      BY <2>1, <2>2, <2>3
  <2>6. call' = call
      BY <2>1 DEF Send
  <2> HIDE DEF id
  <2>7. QED
      BY <1>1, <2>1, <2>3, <2>4, <2>5, PageSend DEF PageInv
<1>5. CASE SendAll
  <2> DEFINE id == CASE call.fn \in {"ReadReg", "WriteReg"} -> "Transfer"
                     [] call.fn = "RegReadRepeat" -> "TransferBlock"
                     [] call.fn = "WriteAbort" -> "WriteABORT"
                     [] call.fn = "Commands" -> "ResetTarget"
                     [] call.fn = "SwjSequence" -> "SWJ_Sequence"
                     [] call.fn = "SwjPins" -> "SWJ_Pins"
             xs == Upto(Total)
  <2> HIDE DEF id
  <2>1. /\ call.fn \in Singles
        /\ batch' = xs
        /\ reads' = IF call.fn \in {"ReadReg", "RegReadRepeat"} THEN xs ELSE <<>>
        /\ pos' = Total + 1
        /\ Send(<<>>, 0, id, xs, Total)
      BY <1>5 DEF SendAll, id
  <2>2. xs \in Seq(Nat) /\ Len(xs) = Total /\ Follow(xs, 0)
      BY <1>1, FollowBase
  <2>3. \A i \in 1 .. Len(xs) : xs[i] = i
      BY <2>2 DEF Follow
  <2> HIDE DEF xs
  <2>4. /\ pos' \in Nat /\ Len(xs) =< pos' - 1 /\ pos' - 1 - Len(xs) = 0
        /\ ~(pos' =< Total)
      BY <1>1, <2>1, <2>2
  <2>5. reads' = ReadsOf(call.regs, xs)
    <3>1. CASE call.fn \in {"ReadReg", "RegReadRepeat"}
      <4>1. \A i \in 1 .. Len(xs) : call.regs[xs[i]] = "read"
          BY <1>1, <2>2, <2>3, <3>1, CallKinds
      <4>2. ReadsOf(call.regs, xs) = xs
          BY <2>2, <4>1, ReadsOfAll
      <4>3. QED
          BY <2>1, <3>1, <4>2
    <3>2. CASE call.fn \in {"WriteReg", "WriteAbort"}
      <4>1. \A i \in 1 .. Len(xs) : call.regs[xs[i]] # "read"
          BY <1>1, <2>2, <2>3, <3>2, CallKinds
      <4>2. ReadsOf(call.regs, xs) = <<>>
          BY <2>2, <4>1, ReadsOfNone
      <4>3. QED
          BY <2>1, <3>2, <4>2
    <3>3. CASE call.fn \in Orders
      <4>1. Total = 0
          BY <3>3, TotalFacts DEF RddiInductive
      <4>2. xs = <<>>
          BY <2>2, <4>1
      <4>3. QED
          BY <2>1, <3>3, <4>2, ReadsOfEmpty DEF Orders
    <3>4. QED
        BY <2>1, <3>1, <3>2, <3>3 DEF Singles
  <2>6. /\ id \in Counting => Total = Len(xs)
        /\ id \notin Counting => reads' = <<>>
        /\ id = "ResetTarget" => call.fn = "Commands"
        /\ call.fn \in {"ReadReg", "RegReadRepeat"} => id \in Counting
      BY <2>1, <2>2 DEF id, Counting, Singles, Orders
  <2>7. call.fn \notin {"RegWriteRepeat", "DetectJtag", "RegAccessBlock", "DetectSwd"}
      BY <2>1 DEF Singles, Orders
  <2>8. Follow(xs, pos' - 1 - Len(xs))
      BY <2>2, <2>4
  <2>9. QED
      BY <2>1, <2>2, <2>4, <2>5, <2>6, <2>7, <2>8, PageSend
<1>6. CASE SendChunk
  <2>1. /\ call.fn = "RegWriteRepeat" /\ pos =< Total
        /\ batch' = Chunk
        /\ pos' = pos + Len(Chunk)
        /\ Send(<<>>, 0, "TransferBlock", Chunk, Len(Chunk))
        /\ UNCHANGED reads
      BY <1>6 DEF SendChunk
  <2>2. PICK n \in Nat : n =< Total - pos + 1 /\ Chunk = [k \in 1 .. n |-> pos + k - 1]
    <3> DEFINE n == IF Total - pos + 1 < MaxTransmit THEN Total - pos + 1 ELSE MaxTransmit
    <3>1. MaxTransmit \in Nat
        BY RddiAssumption DEF RddiAssumption
    <3>2. n \in Nat /\ n =< Total - pos + 1
        BY <1>1, <2>1, <3>1
    <3>3. Chunk = [k \in 1 .. n |-> pos + k - 1]
        BY DEF Chunk
    <3> HIDE DEF n
    <3>4. QED
        BY <3>2, <3>3
  <2>3. /\ Chunk \in Seq(Nat) /\ Len(Chunk) = n
        /\ \A i \in 1 .. Len(Chunk) : Chunk[i] = pos + i - 1
      BY <1>1, <2>2
  <2>4. /\ pos' \in Nat /\ Len(Chunk) =< pos' - 1 /\ pos' - 1 - Len(Chunk) = pos - 1
        /\ Follow(Chunk, pos - 1)
      BY <1>1, <2>1, <2>3 DEF Follow
  <2>5. reads' = <<>>
      BY <2>1 DEF PageInv
  <2>6. \A i \in 1 .. Len(Chunk) : call.regs[Chunk[i]] # "read"
    <3>1. \A i \in 1 .. Len(Chunk) : Chunk[i] \in 1 .. Total
        BY <1>1, <2>2, <2>3
    <3>2. QED
        BY <1>1, <2>1, <3>1, CallKinds
  <2>7. ReadsOf(call.regs, Chunk) = <<>>
      BY <2>3, <2>6, ReadsOfNone
  <2>8. "TransferBlock" \in Counting
      BY DEF Counting
  <2>9. Follow(Chunk, pos' - 1 - Len(Chunk))
      BY <2>4
  <2>10. QED
      BY <2>1, <2>3, <2>4, <2>5, <2>7, <2>8, <2>9, PageSend
<1>7. CASE NothingToRepeat
  <2>1. UNCHANGED <<call, pos, batch, reads>> /\ step' = "idle"
      BY <1>7 DEF NothingToRepeat, Return, buildVars
  <2>2. QED
      BY <2>1, PageKept
<1>8. CASE SendIdcode
  <2> DEFINE lead == IF pos = 1 THEN SwdLead ELSE <<"SWJ_Sequence">>
             xs == <<pos>>
  <2>1. /\ call.fn = "DetectSwd"
        /\ batch' = xs /\ reads' = xs
        /\ pos' = pos + 1
        /\ Send(lead, 0, "Transfer", xs, 1)
      BY <1>8 DEF SendIdcode
  <2>2. xs \in Seq(Nat) /\ Len(xs) = 1 /\ xs[1] = pos
      BY <1>1
  <2>3. pos =< Total
      BY <1>1, <2>1 DEF RddiInductive, Placed
  <2> HIDE DEF xs, lead
  <2>4. /\ pos' \in Nat /\ Len(xs) =< pos' - 1 /\ pos' - 1 - Len(xs) = pos - 1
        /\ Follow(xs, pos - 1)
      BY <1>1, <2>1, <2>2 DEF Follow
  <2>5. ReadsOf(call.regs, xs) = xs
    <3>1. \A i \in 1 .. Len(xs) : call.regs[xs[i]] = "read"
      <4>1. pos \in 1 .. Len(call.regs)
          BY <1>1, <2>3
      <4>2. call.regs[pos] = "read"
          BY <1>1, <2>1, <4>1, CallKinds
      <4>3. QED
          BY <2>2, <4>2
    <3>2. QED
        BY <2>2, <3>1, ReadsOfAll
  <2>6. "Transfer" \in Counting
      BY DEF Counting
  <2>7. Follow(xs, pos' - 1 - Len(xs))
      BY <2>4
  <2>8. QED
      BY <2>1, <2>2, <2>4, <2>5, <2>6, <2>7, PageSend
<1>9. CASE SendScan
  <2>1. PICK lead \in Seq(LeadIds), count \in Nat : Send(lead, 0, "JTAG_Sequence", <<>>, count)
      BY <1>9, ScanSends
  <2>2. call.fn = "DetectJtag" /\ UNCHANGED <<pos, batch, reads>>
      BY <1>9 DEF SendScan
  <2>3. batch = <<>> /\ reads = <<>> /\ reads = ReadsOf(call.regs, <<>>)
      BY <2>2, ReadsOfEmpty DEF PageInv
  <2>4. <<>> \in Seq(Nat) /\ Len(<<>>) = 0 /\ Follow(<<>>, pos' - 1 - Len(<<>>))
      BY DEF Follow
  <2>5. "JTAG_Sequence" \notin Counting
      BY DEF Counting
  <2>6. pos' \in Nat /\ Len(<<>>) =< pos' - 1
      BY <1>1, <2>2, <2>4
  <2> DEFINE xs == <<>>
  <2>7. /\ Send(lead, 0, "JTAG_Sequence", xs, count) /\ batch' = xs /\ reads' = xs
        /\ reads' = ReadsOf(call.regs, xs)
        /\ xs \in Seq(Nat) /\ Len(xs) =< pos' - 1 /\ Follow(xs, pos' - 1 - Len(xs))
      BY <2>1, <2>2, <2>3, <2>4, <2>6
  <2> HIDE DEF xs
  <2>8. xs = <<>>
      BY DEF xs
  <2>9. QED
      BY <2>2, <2>5, <2>6, <2>7, <2>8, PageSend
<1>10. QED
    BY <1>2, <1>3, <1>4, <1>5, <1>6, <1>7, <1>8, <1>9 DEF Build

LEMMA PageStep ==
    ASSUME RddiInductive, PageInv, [RddiNext]_rddiVars
    PROVE  PageInv'
<1>1. CASE Build
    BY <1>1, PageBuild
<1>2. CASE Probe \/ Parse
  <2>1. InRequest /\ UNCHANGED <<call, pos, batch, reads, page>>
      BY <1>2
      DEF Probe, ProbeAnswers, Parse, ParsePlain, ParseTransferConfigure, ParseReporting,
          ParseWriteABORT, ParseTransfer, ParseJtagSequence, ParsePins, Parsed, buildVars,
          InRequest
  <2>2. QED
      BY <2>1, PageKept
<1>3. CASE Check
  <2>1. CASE NextBatch
    <3>1. batch' = <<>> /\ reads' = <<>> /\ step' = "build" /\ call' = call
          /\ call.fn = "RegAccessBlock"
        BY <2>1 DEF NextBatch, StartBatch
    <3>2. reads' = ReadsOf(call'.regs, batch')
        BY <3>1, ReadsOfEmpty
    <3>3. QED
        BY <3>1, <3>2 DEF PageInv, InRequest
  <2>2. CASE BatchFails \/ LastBatch \/ AllReturns \/ ChunkChecked \/ IdcodeRead \/ SwdDetected
             \/ SwdNotDetected \/ ScanFails \/ DevicesCounted \/ IdcodesChecked \/ ChainConfigured
    <3>1. UNCHANGED <<call, pos, batch, reads>> /\ step' \in {"idle", "build"}
        BY <2>2
        DEF BatchFails, LastBatch, AllReturns, ChunkChecked, IdcodeRead, SwdDetected,
            SwdNotDetected, ScanFails, DevicesCounted, IdcodesChecked, ChainConfigured, Return,
            buildVars
    <3>2. QED
        BY <3>1, PageKept
  <2>3. QED
      BY <1>3, <2>1, <2>2 DEF Check
<1>4. CASE \E r \in Requests : Call(r)
  <2>1. /\ batch' = <<>> /\ reads' = <<>> /\ step' \in {"build", "idle"}
        /\ reads' = ReadsOf(call'.regs, batch')
      BY <1>4, ReadsOfEmpty DEF Call
  <2>2. QED
      BY <2>1 DEF PageInv, InRequest
<1>5. CASE ConfigurePort \/ UNCHANGED rddiVars
  <2>1. UNCHANGED <<call, pos, batch, reads, step, page>>
      BY <1>5 DEF ConfigurePort, rddiVars, buildVars
  <2>2. QED
      BY <2>1, PageKept DEF InRequest
<1>6. QED
    BY <1>1, <1>2, <1>3, <1>4, <1>5 DEF RddiNext, Working

-----------------------------------------------------------------------------
(* Responses.                                                              *)

\* What the last command of a response tells, and what is made of it: values
\* are taken when they are all there, and an error is not invented.
AnswerInv ==
    /\ step = "parse" =>
           LET l == resp[Len(resp)] IN
           /\ l.id = IF page.id = "none" THEN "TransferConfigure" ELSE page.id
           /\ l.id \in Counting /\ l.status = "OK" /\ l.n = page.count => l.made = page.xs
           /\ l.id = "JTAG_Sequence" => l.n = page.count
           /\ ~failed => l.status = "OK" /\ (l.id \in Counting => l.n = page.count)
    /\ step = "check" =>
           /\ status = "OK" /\ page.id \in Counting => data = ReadsOf(call.regs, page.xs)
           /\ ~failed /\ page.id # "ResetTarget" => status = "OK"

\* The end of a concatenation is the end of its last part.
LEMMA LastOfConcat ==
    ASSUME NEW R, NEW s \in Seq(R), NEW t \in Seq(R), t # <<>>
    PROVE  (s \o t)[Len(s \o t)] = t[Len(t)]
<1>1. /\ Len(s \o t) = Len(s) + Len(t)
      /\ \A i \in 1 .. Len(s) + Len(t) : (s \o t)[i] = IF i =< Len(s) THEN s[i] ELSE t[i - Len(s)]
    BY ConcatProperties
<1>2. Len(s) \in Nat /\ Len(t) \in Nat \ {0}
    BY EmptySeq
<1>3. Len(s) + Len(t) \in 1 .. Len(s) + Len(t) /\ ~(Len(s) + Len(t) =< Len(s))
      /\ Len(s) + Len(t) - Len(s) = Len(t)
    BY <1>2
<1>4. QED
    BY <1>1, <1>3

\* The last command of the response to a request.
LEMMA ProbeLast ==
    ASSUME RddiInductive, Probe
    PROVE  \E k \in 0 .. page.n, s \in ProbeStatus :
               /\ s = "OK" => k = page.n
               /\ failed' = (failed \/ s # "OK" \/ (page.id = "Transfer" /\ page.n # page.count))
               /\ page.id = "none" => s = "OK"
               /\ resp'[Len(resp')] =
                      IF page.id = "none" THEN Response("TransferConfigure", "OK", 0, <<>>)
                      ELSE Response(page.id, s, IF page.id \in Counting THEN k ELSE page.count,
                                    SubSeq(page.xs, 1, k))
<1>1. PICK k \in 0 .. page.n, s \in ProbeStatus, lead \in {"OK", "ERROR"} :
          (page.id = "none" => s = "OK") /\ ProbeAnswers(k, s, lead)
    BY DEF Probe
<1> DEFINE first == [j \in DOMAIN page.lead |-> Response(page.lead[j], lead, 0, <<>>)]
           c == Response("TransferConfigure", "OK", 0, <<>>)
           l == Response(page.id, s, IF page.id \in Counting THEN k ELSE page.count,
                         SubSeq(page.xs, 1, k))
           config == IF page.config = 0 THEN <<>> ELSE <<c>>
           last == IF page.id = "none" THEN <<>> ELSE <<l>>
           R == {first[j] : j \in DOMAIN first} \cup {c, l}
<1>2. /\ resp' = (first \o config) \o last
      /\ s = "OK" => k = page.n
      /\ failed' = (failed \/ s # "OK" \/ (page.id = "Transfer" /\ page.n # page.count))
    BY <1>1 DEF ProbeAnswers
<1>3. page.lead \in Seq(LeadIds) /\ (page.id = "none" => page.config # 0)
    BY <1>1 DEF ProbeAnswers, RddiInductive, ControlTypeOK, Sent
<1>4. first \in Seq(R)
  <2>1. DOMAIN first = 1 .. Len(page.lead) /\ Len(page.lead) \in Nat
      BY <1>3
  <2>2. \A j \in DOMAIN first : first[j] \in R
      OBVIOUS
  <2>3. first = [j \in DOMAIN first |-> first[j]]
      OBVIOUS
  <2> HIDE DEF first, R
  <2>4. first \in [1 .. Len(page.lead) -> R]
      BY <2>1, <2>2, <2>3
  <2>5. QED
      BY <2>1, <2>4
<1>5. c \in R /\ l \in R
    OBVIOUS
<1> HIDE DEF first, c, l, R
<1>6. <<c>> \in Seq(R) /\ <<l>> \in Seq(R) /\ <<>> \in Seq(R)
    BY <1>5
<1>7. /\ <<c>> # <<>> /\ Len(<<c>>) = 1 /\ <<c>>[1] = c
      /\ <<l>> # <<>> /\ Len(<<l>>) = 1 /\ <<l>>[1] = l
    OBVIOUS
<1>8. config \in Seq(R)
    BY <1>6
<1>9. CASE page.id = "none"
  <2>1. config = <<c>> /\ last = <<>>
      BY <1>3, <1>9
  <2>2. first \o config \in Seq(R)
      BY <1>4, <1>8, ConcatProperties
  <2>3. (first \o config) \o <<>> = first \o config
      BY <2>2, ConcatEmptySeq
  <2>4. resp' = first \o <<c>>
      BY <1>2, <2>1, <2>3
  <2>5. resp'[Len(resp')] = c
      BY <1>4, <1>6, <1>7, <2>4, LastOfConcat
  <2>6. QED
      BY <1>1, <1>2, <1>9, <2>5 DEF c
<1>10. CASE page.id # "none"
  <2>1. last = <<l>>
      BY <1>10
  <2>2. first \o config \in Seq(R)
      BY <1>4, <1>8, ConcatProperties
  <2>3. resp' = (first \o config) \o <<l>>
      BY <1>2, <2>1
  <2>4. resp'[Len(resp')] = l
    <3> DEFINE f == first \o config
    <3>1. f \in Seq(R) /\ resp' = f \o <<l>>
        BY <2>2, <2>3
    <3> HIDE DEF f
    <3>2. QED
        BY <1>6, <1>7, <3>1, LastOfConcat
  <2>5. QED
      BY <1>1, <1>2, <1>10, <2>4 DEF l
<1>11. QED
    BY <1>9, <1>10

LEMMA AnswerProbe ==
    ASSUME RddiInductive, PageInv, Probe
    PROVE  AnswerInv'
<1>1. PICK k \in 0 .. page.n, s \in ProbeStatus :
          /\ s = "OK" => k = page.n
          /\ failed' = (failed \/ s # "OK" \/ (page.id = "Transfer" /\ page.n # page.count))
          /\ page.id = "none" => s = "OK"
          /\ resp'[Len(resp')] =
                 IF page.id = "none" THEN Response("TransferConfigure", "OK", 0, <<>>)
                 ELSE Response(page.id, s, IF page.id \in Counting THEN k ELSE page.count,
                               SubSeq(page.xs, 1, k))
    BY ProbeLast
<1>2. step = "probe" /\ step' = "parse" /\ UNCHANGED page
    BY DEF Probe, ProbeAnswers
<1>3. /\ page.xs \in Seq(Nat) /\ page.xs = batch
      /\ page.id \in Counting => page.count = Len(page.xs)
      /\ page.n = IF page.id = "Transfer" THEN Len(page.xs) % CountRange ELSE Len(page.xs)
    BY <1>2 DEF RddiInductive, ControlTypeOK, PageInv, InRequest
<1> DEFINE l == resp'[Len(resp')]
<1>4. CASE page.id = "none"
  <2>1. l.id = "TransferConfigure" /\ l.status = "OK"
      BY <1>1, <1>4 DEF Response
  <2> HIDE DEF l
  <2>2. QED
      BY <1>2, <1>4, <2>1 DEF AnswerInv, Counting, l
<1>5. CASE page.id # "none"
  <2>1. /\ l.id = page.id /\ l.status = s /\ l.made = SubSeq(page.xs, 1, k)
        /\ l.n = IF page.id \in Counting THEN k ELSE page.count
      BY <1>1, <1>5 DEF Response
  <2>2. SubSeq(page.xs, 1, Len(page.xs)) = page.xs
      BY <1>3, SubSeqFull
  <2> HIDE DEF l
  <2>3. l.id \in Counting /\ l.n = page.count => l.made = page.xs
      BY <1>3, <2>1, <2>2
  <2>4. l.id = "JTAG_Sequence" => l.n = page.count
      BY <2>1 DEF Counting
  <2>5. ~failed' => l.status = "OK" /\ (l.id \in Counting => l.n = page.count)
    <3> SUFFICES ASSUME ~failed' PROVE l.status = "OK" /\ (l.id \in Counting => l.n = page.count)
        OBVIOUS
    <3>1. s = "OK" /\ k = page.n /\ (page.id = "Transfer" => page.n = page.count)
        BY <1>1
    <3>2. QED
        BY <1>3, <2>1, <3>1 DEF Counting
  <2>6. QED
      BY <1>2, <1>5, <2>1, <2>3, <2>4, <2>5 DEF AnswerInv, l
<1>6. QED
    BY <1>4, <1>5

LEMMA AnswerParse ==
    ASSUME RddiInductive, ParserInv, PageInv, AnswerInv, Parse
    PROVE  AnswerInv'
<1> DEFINE R == [id : Ids \cup LeadIds, status : ProbeStatus \cup {"ERROR"}, n : Nat, made : Seq(Nat)]
           r == Head(resp)
           l == resp[Len(resp)]
<1>1. step = "parse" /\ resp \in Seq(R) /\ resp # <<>>
  <2>1. step = "parse"
      BY DEF Parse, ParsePlain, ParseTransferConfigure, ParseReporting, ParseWriteABORT,
         ParseTransfer, ParseJtagSequence, ParsePins
  <2>2. QED
      BY <2>1 DEF RddiInductive, ControlTypeOK, Answers
<1>2. l \in R /\ r = resp[1] /\ Len(resp) \in Nat \ {0}
  <2> HIDE DEF R
  <2>1. QED
      BY <1>1
<1>3. /\ l.id = IF page.id = "none" THEN "TransferConfigure" ELSE page.id
      /\ l.id \in Counting /\ l.status = "OK" /\ l.n = page.count => l.made = page.xs
      /\ l.id = "JTAG_Sequence" => l.n = page.count
      /\ ~failed => l.status = "OK" /\ (l.id \in Counting => l.n = page.count)
    BY <1>1 DEF AnswerInv
<1>4. \A j \in 1 .. Len(resp) - 1 : resp[j].id \in LeadIds
    BY <1>1 DEF ParserInv
<1>5. UNCHANGED <<call, page, failed>>
    BY DEF Parse, ParsePlain, ParseTransferConfigure, ParseReporting, ParseWriteABORT,
       ParseTransfer, ParseJtagSequence, ParsePins, Parsed, buildVars, probeVars
<1>6. l.n \in Nat /\ page.count \in Nat /\ l.made \in Seq(Nat)
    BY <1>2 DEF RddiInductive, ControlTypeOK
<1>7. CASE Len(resp) # 1
  <2>1. 1 \in 1 .. Len(resp) - 1
    <3> DEFINE L == Len(resp)
    <3>1. L \in Nat \ {0} /\ L # 1
        BY <1>2, <1>7
    <3> HIDE DEF L
    <3>2. 1 \in 1 .. L - 1
        BY <3>1
    <3>3. QED
        BY <3>2 DEF L
  <2>2. r.id \in LeadIds
      BY <1>2, <1>4, <2>1
  <2>3. Parsed(FALSE)
      BY <2>2 DEF Parse, ParsePlain, ParseTransferConfigure, ParseReporting, ParseWriteABORT,
         ParseTransfer, ParseJtagSequence, ParsePins, LeadIds, Plain, Reporting, Counting
  <2>4. step' = "parse" /\ resp' = Tail(resp)
      BY <1>7, <2>3 DEF Parsed
  <2>5. resp'[Len(resp')] = l
    <3> HIDE DEF R
    <3>1. /\ Len(Tail(resp)) = Len(resp) - 1
          /\ \A i \in 1 .. Len(resp) - 1 : Tail(resp)[i] = resp[i + 1]
        BY <1>1
    <3>2. Len(resp) - 1 \in 1 .. Len(resp) - 1 /\ Len(resp) - 1 + 1 = Len(resp)
        BY <1>2, <2>1
    <3>3. QED
        BY <2>4, <3>1, <3>2
  <2> HIDE DEF l
  <2>6. QED
      BY <1>3, <1>5, <2>4, <2>5 DEF AnswerInv
<1>8. CASE Len(resp) = 1
  <2>1. r = l
      BY <1>2, <1>8
  <2>2. step' = "check"
      BY <1>8 DEF Parse, ParsePlain, ParseTransferConfigure, ParseReporting, ParseWriteABORT,
         ParseTransfer, ParseJtagSequence, ParsePins, Parsed
  <2> HIDE DEF l, r, R
  <2> SUFFICES /\ status' = "OK" /\ page.id \in Counting => data' = ReadsOf(call.regs, page.xs)
               /\ ~failed /\ page.id # "ResetTarget" => status' = "OK"
      BY <1>5, <2>2 DEF AnswerInv
  <2>3. CASE ParsePlain
    <3>1. l.id \in Plain
        BY <2>1, <2>3 DEF ParsePlain, r
    <3>2. page.id = "ResetTarget"
        BY <1>3, <3>1 DEF Plain, RddiInductive, ControlTypeOK, Ids
    <3>3. QED
        BY <3>2 DEF Counting
  <2>4. CASE ParseTransferConfigure
    <3>1. l.id = "TransferConfigure" /\ status' = "OK"
        BY <2>1, <2>4 DEF ParseTransferConfigure, r
    <3>2. page.id \notin Counting
        BY <1>3, <3>1 DEF Counting
    <3>3. QED
        BY <3>1, <3>2
  <2>5. CASE ParseReporting
    <3>1. l.id \in Reporting /\ status' = IF l.status = "OK" THEN "OK" ELSE "ERROR"
        BY <2>1, <2>5 DEF ParseReporting, r
    <3>2. page.id \notin Counting
        BY <1>3, <3>1 DEF Counting, Reporting
    <3>3. QED
        BY <1>3, <3>1, <3>2
  <2>6. CASE ParseWriteABORT
    <3>1. l.id = "WriteABORT" /\ status' = IF l.status = "OK" THEN "OK" ELSE "FAULT"
        BY <2>1, <2>6 DEF ParseWriteABORT, r
    <3>2. page.id \notin Counting
        BY <1>3, <3>1 DEF Counting
    <3>3. QED
        BY <1>3, <3>1, <3>2
  <2>7. CASE ParseTransfer
    <3> DEFINE accepted == l.status = "OK" \/ (l.id = "TransferBlock" /\ l.status = "FAULT")
    <3>1. /\ l.id \in Counting
          /\ status' = IF l.n # page.count THEN "FAULT" ELSE l.status
          /\ data' = IF l.n = page.count /\ accepted THEN DataOf(l) ELSE data
        BY <2>1, <2>7 DEF ParseTransfer, r
    <3>2. DataOf(l) = ReadsOf(call.regs, l.made)
        BY <3>1 DEF DataOf, Counting
    <3>3. status' = "OK" => l.n = page.count /\ l.status = "OK"
        BY <3>1
    <3>4. QED
        BY <1>3, <3>1, <3>2, <3>3
  <2>8. CASE ParseJtagSequence
    <3>1. /\ l.id = "JTAG_Sequence"
          /\ status' = IF l.status = "OK" /\ Len(DataOf(l)) = page.count THEN "OK" ELSE "FAULT"
        BY <2>1, <2>8 DEF ParseJtagSequence, r
    <3>2. l.status = "OK" => Len(DataOf(l)) = l.n
      <4>1. l.status = "OK" => DataOf(l) = [j \in 1 .. l.n |-> 0]
          BY <3>1 DEF DataOf
      <4>2. Len([j \in 1 .. l.n |-> 0]) = l.n
          BY <1>6
      <4>3. QED
          BY <4>1, <4>2
    <3>3. page.id \notin Counting
        BY <1>3, <3>1 DEF Counting
    <3>4. QED
        BY <1>3, <3>1, <3>2, <3>3
  <2>9. CASE ParsePins
    <3>1. l.id = "SWJ_Pins" /\ status' = "OK"
        BY <2>1, <2>9 DEF ParsePins, r
    <3>2. page.id \notin Counting
        BY <1>3, <3>1 DEF Counting
    <3>3. QED
        BY <3>1, <3>2
  <2>10. QED
      BY <2>3, <2>4, <2>5, <2>6, <2>7, <2>8, <2>9 DEF Parse
<1>9. QED
    BY <1>7, <1>8

LEMMA AnswerStep ==
    ASSUME RddiInductive, ParserInv, PageInv, AnswerInv, [RddiNext]_rddiVars
    PROVE  AnswerInv'
<1>1. CASE Probe
    BY <1>1, AnswerProbe
<1>2. CASE Parse
    BY <1>2, AnswerParse
<1>3. CASE Build
  <2>1. SendScan => step' = "probe"
      BY ScanSends DEF Send
  <2>2. step' \notin {"parse", "check"}
      BY <1>3, <2>1 DEF Build, AddTransfer, SkipRetry, SendBatch, SendAll, SendChunk,
         NothingToRepeat, SendIdcode, Send, Return
  <2>3. QED
      BY <2>2 DEF AnswerInv
<1>4. CASE Check
  <2>1. step' \notin {"parse", "check"}
      BY <1>4 DEF Check, BatchFails, NextBatch, LastBatch, AllReturns, ChunkChecked, IdcodeRead,
         SwdDetected, SwdNotDetected, ScanFails, DevicesCounted, IdcodesChecked,
         ChainConfigured, Return
  <2>2. QED
      BY <2>1 DEF AnswerInv
<1>5. CASE \E r \in Requests : Call(r)
    BY <1>5 DEF Call, AnswerInv
<1>6. CASE ConfigurePort
    BY <1>6 DEF ConfigurePort, AnswerInv
<1>7. CASE UNCHANGED rddiVars
    BY <1>7 DEF rddiVars, buildVars, parseVars, probeVars, AnswerInv
<1>8. QED
    BY <1>1, <1>2, <1>3, <1>4, <1>5, <1>6, <1>7 DEF RddiNext, Working

\* A response to which the probe reported no error answers the request.
LEMMA GoodIsAnswered ==
    ASSUME PageInv, AnswerInv, step = "check", ~failed, call.fn # "Commands"
    PROVE  Answered
<1>1. page.id # "ResetTarget" /\ page.xs = batch
    BY DEF PageInv, InRequest
<1>2. status = "OK" /\ (page.id \in Counting => data = ReadsOf(call.regs, batch))
    BY <1>1 DEF AnswerInv
<1>3. LengthChecked => page.id \in Counting
    BY DEF LengthChecked, PageInv, InRequest
<1>4. LengthChecked => data = reads
    BY <1>2, <1>3 DEF PageInv
<1>5. QED
    BY <1>2, <1>4 DEF Answered

LEMMA NoFalseErrorStep ==
    ASSUME RddiInductive, PageInv, AnswerInv, NoFalseError, [RddiNext]_rddiVars
    PROVE  NoFalseError'
<1>1. CASE Check
  <2>1. UNCHANGED <<call, failed>>
      BY <1>1
      DEF Check, BatchFails, NextBatch, LastBatch, AllReturns, ChunkChecked, IdcodeRead,
          SwdDetected, SwdNotDetected, ScanFails, DevicesCounted, IdcodesChecked,
          ChainConfigured, Return, buildVars, probeVars
  <2>2. CASE ~failed /\ call.fn \notin {"Commands", "DetectSwd"}
    <3>1. step = "check" /\ Answered /\ status = "OK"
      <4>1. step = "check"
          BY <1>1
          DEF Check, BatchFails, NextBatch, LastBatch, AllReturns, ChunkChecked, IdcodeRead,
              SwdDetected, SwdNotDetected, ScanFails, DevicesCounted, IdcodesChecked,
              ChainConfigured
      <4>2. QED
          BY <2>2, <4>1, GoodIsAnswered DEF Answered
    <3>2. result' \in {result, "ok"}
        BY <1>1, <2>2, <3>1
        DEF Check, BatchFails, NextBatch, LastBatch, AllReturns, ChunkChecked, IdcodeRead,
            SwdDetected, SwdNotDetected, ScanFails, DevicesCounted, IdcodesChecked,
            ChainConfigured, Return
    <3>3. QED
        BY <2>1, <2>2, <3>2 DEF NoFalseError
  <2>3. CASE ~(~failed /\ call.fn \notin {"Commands", "DetectSwd"})
      BY <2>1, <2>3 DEF NoFalseError
  <2>4. QED
      BY <2>2, <2>3
<1>2. CASE Build
  <2>1. /\ call' = call /\ failed' = failed /\ result' \in {result, "ok"}
    <3>1. CASE SendScan
        BY <3>1, ScanSends DEF Send, probeVars
    <3>2. CASE AddTransfer \/ SkipRetry \/ SendBatch \/ SendAll \/ SendChunk \/ SendIdcode
               \/ NothingToRepeat
        BY <3>2
        DEF AddTransfer, SkipRetry, SendBatch, SendAll, SendChunk, SendIdcode, NothingToRepeat,
            Send, Return, resultVars, buildVars, probeVars
    <3>3. QED
        BY <1>2, <3>1, <3>2 DEF Build
  <2>2. QED
      BY <2>1 DEF NoFalseError
<1>3. CASE Probe
  <2>1. UNCHANGED <<call, result>> /\ (failed => failed')
      BY <1>3 DEF Probe, ProbeAnswers, buildVars, resultVars
  <2>2. QED
      BY <2>1 DEF NoFalseError
<1>4. CASE Parse
  <2>1. UNCHANGED <<call, result, failed>>
      BY <1>4
      DEF Parse, ParsePlain, ParseTransferConfigure, ParseReporting, ParseWriteABORT,
          ParseTransfer, ParseJtagSequence, ParsePins, Parsed, buildVars, resultVars, probeVars
  <2>2. QED
      BY <2>1 DEF NoFalseError
<1>5. CASE \E r \in Requests : Call(r)
    BY <1>5 DEF Call, NoFalseError
<1>6. CASE ConfigurePort \/ UNCHANGED rddiVars
  <2>1. UNCHANGED <<call, result, failed>>
      BY <1>6 DEF ConfigurePort, rddiVars, buildVars, resultVars, probeVars
  <2>2. QED
      BY <2>1 DEF NoFalseError
<1>7. QED
    BY <1>1, <1>2, <1>3, <1>4, <1>5, <1>6 DEF RddiNext, Working

\* The invariants of requests and responses hold together.
LEMMA AnswersAlways == RddiSpec => [](RddiInductive /\ PageInv /\ AnswerInv)
<1>1. RddiInit => ParserInv /\ PageInv /\ AnswerInv
  <2>1. RddiInit => reads = ReadsOf(call.regs, batch)
      BY ReadsOfEmpty DEF RddiInit
  <2>2. QED
      BY <2>1 DEF RddiInit, ParserInv, PageInv, AnswerInv, InRequest
<1>2. RddiInductive /\ ParserInv /\ PageInv /\ AnswerInv /\ [RddiNext]_rddiVars =>
          ParserInv' /\ PageInv' /\ AnswerInv'
    BY ParserStep, PageStep, AnswerStep
<1>3. QED
    BY <1>1, <1>2, RddiInductiveCorrect, PTL DEF RddiSpec

\* An error comes from the probe, or from a batch that its count byte cannot tell:
\* the library and the parser of the proxy make none up, whatever the call, and
\* however it is cut.
THEOREM NoFalseErrorCorrect == RddiSpec => []NoFalseError
<1>1. RddiInit => NoFalseError
    BY DEF RddiInit, NoFalseError
<1>2. RddiInductive /\ PageInv /\ AnswerInv /\ NoFalseError /\ [RddiNext]_rddiVars => NoFalseError'
    BY NoFalseErrorStep
<1>3. QED
    BY <1>1, <1>2, AnswersAlways, PTL DEF RddiSpec

-----------------------------------------------------------------------------
(* Types of the data.                                                      *)

DataTypeOK ==
    /\ out \in [Positions -> Nat]
    /\ idcodes \in Nat
    /\ aligned \in BOOLEAN
    /\ data \in Seq(Nat)
    /\ failed \in BOOLEAN
    /\ known \in BOOLEAN
    /\ port \in {"SW", "JTAG"}

\* Whatever the page holds, a natural is put into the array.
LEMMA StoredType ==
    ASSUME DataTypeOK
    PROVE  Stored \in [Positions -> Nat]
<1>1. \A j \in Nat \cup DOMAIN reads : Value(j) \in Nat
    BY DEF DataTypeOK, Value
<1>2. ASSUME NEW p \in DOMAIN out, \E j \in DOMAIN reads : reads[j] = p
      PROVE  Value(CHOOSE j \in DOMAIN reads : reads[j] = p) \in Nat
    BY <1>1, <1>2
<1>3. DOMAIN out = Positions
    BY DEF DataTypeOK
<1>4. QED
    BY <1>2, <1>3 DEF Stored, DataTypeOK

\* The data of a command are numbers.
LEMMA DataOfType ==
    ASSUME NEW r \in [id : Ids \cup LeadIds, status : ProbeStatus \cup {"ERROR"}, n : Nat,
                      made : Seq(Nat)]
    PROVE  DataOf(r) \in Seq(Nat)
<1>1. r.n \in Nat /\ r.made \in Seq(Nat)
    OBVIOUS
<1>2. [k \in 1 .. r.n |-> 0] \in Seq(Nat)
    BY <1>1
<1>3. ReadsOf(call.regs, r.made) \in Seq(Nat)
    BY <1>1, ReadsOfWhere
<1>4. QED
    BY <1>2, <1>3 DEF DataOf

LEMMA DataTypeStep ==
    ASSUME RddiInductive, DataTypeOK, [RddiNext]_rddiVars
    PROVE  DataTypeOK'
<1>1. CASE Build
  <2>1. /\ UNCHANGED <<call, out, idcodes, aligned, data, failed, known, port>>
    <3>1. CASE SendScan
        BY <3>1, ScanSends DEF Send, probeVars
    <3>2. CASE AddTransfer \/ SkipRetry \/ SendBatch \/ SendAll \/ SendChunk \/ SendIdcode
               \/ NothingToRepeat
        BY <3>2
        DEF AddTransfer, SkipRetry, SendBatch, SendAll, SendChunk, SendIdcode, NothingToRepeat,
            Send, Return, detectVars, resultVars, buildVars, parseVars, probeVars
    <3>3. QED
        BY <1>1, <3>1, <3>2 DEF Build
  <2>2. QED
      BY <2>1 DEF DataTypeOK, Positions
<1>2. CASE Probe
  <2>1. UNCHANGED <<call, out, idcodes, data, port>> /\ aligned' = TRUE /\ failed' \in BOOLEAN
      BY <1>2 DEF Probe, ProbeAnswers, buildVars, detectVars, resultVars, DataTypeOK
  <2>2. known' \in BOOLEAN
      BY <1>2 DEF Probe, Captures, DataTypeOK
  <2>3. QED
      BY <2>1, <2>2 DEF DataTypeOK, Positions
<1>3. CASE Parse
  <2> DEFINE R == [id : Ids \cup LeadIds, status : ProbeStatus \cup {"ERROR"}, n : Nat, made : Seq(Nat)]
  <2>1. step = "parse" /\ UNCHANGED <<call, out, idcodes, failed, known, port>>
      BY <1>3
      DEF Parse, ParsePlain, ParseTransferConfigure, ParseReporting, ParseWriteABORT,
          ParseTransfer, ParseJtagSequence, ParsePins, Parsed, buildVars, detectVars, resultVars,
          probeVars
  <2>2. resp \in Seq(R) /\ resp # <<>>
      BY <2>1 DEF RddiInductive, ControlTypeOK, Answers
  <2>3. Head(resp) \in R
    <3> HIDE DEF R
    <3>1. Head(resp) \in R
        BY <2>2
    <3>2. QED
        BY <3>1
  <2>4. DataOf(Head(resp)) \in Seq(Nat)
      BY <2>3, DataOfType
  <2>5. <<0>> \in Seq(Nat)
      OBVIOUS
  <2>6. data' \in Seq(Nat) /\ aligned' \in BOOLEAN
      BY <1>3, <2>4, <2>5
      DEF Parse, ParsePlain, ParseTransferConfigure, ParseReporting, ParseWriteABORT,
          ParseTransfer, ParseJtagSequence, ParsePins, DataTypeOK
  <2>7. QED
      BY <2>1, <2>6 DEF DataTypeOK, Positions
<1>4. CASE Check
  <2>1. UNCHANGED <<call, aligned, data, failed, known, port>>
      BY <1>4
      DEF Check, BatchFails, NextBatch, LastBatch, AllReturns, ChunkChecked, IdcodeRead,
          SwdDetected, SwdNotDetected, ScanFails, DevicesCounted, IdcodesChecked,
          ChainConfigured, Return, buildVars, parseVars, probeVars
  <2>2. out' \in {out, Stored}
      BY <1>4
      DEF Check, BatchFails, NextBatch, LastBatch, AllReturns, ChunkChecked, IdcodeRead,
          SwdDetected, SwdNotDetected, ScanFails, DevicesCounted, IdcodesChecked,
          ChainConfigured
  <2>3. idcodes' \in {idcodes, 0, 1, devices}
      BY <1>4
      DEF Check, BatchFails, NextBatch, LastBatch, AllReturns, ChunkChecked, IdcodeRead,
          SwdDetected, SwdNotDetected, ScanFails, DevicesCounted, IdcodesChecked,
          ChainConfigured, detectVars
  <2>4. devices \in Nat
      BY DEF RddiInductive, ControlTypeOK
  <2>5. QED
      BY <2>1, <2>2, <2>3, <2>4, StoredType DEF DataTypeOK, Positions
<1>5. CASE \E r \in Requests : Call(r)
  <2>1. PICK r \in Requests : Call(r)
      BY <1>5
  <2>2. /\ call' = r /\ out' = [p \in DOMAIN r.regs |-> 0] /\ data' = [k \in DOMAIN data |-> 0]
        /\ failed' = FALSE /\ known' = FALSE /\ UNCHANGED <<idcodes, port, aligned>>
      BY <2>1 DEF Call
  <2>3. data' \in Seq(Nat)
    <3>1. DOMAIN data = 1 .. Len(data) /\ Len(data) \in Nat
        BY DEF DataTypeOK
    <3>2. QED
        BY <2>2, <3>1
  <2>4. QED
      BY <2>2, <2>3 DEF DataTypeOK, Positions
<1>6. CASE ConfigurePort \/ UNCHANGED rddiVars
  <2>1. UNCHANGED <<call, out, idcodes, aligned, data, failed, known>> /\ port' \in {"SW", "JTAG"}
      BY <1>6
      DEF ConfigurePort, rddiVars, buildVars, detectVars, resultVars, parseVars, probeVars,
          DataTypeOK
  <2>2. QED
      BY <2>1 DEF DataTypeOK, Positions
<1>7. QED
    BY <1>1, <1>2, <1>3, <1>4, <1>5, <1>6 DEF RddiNext, Working

LEMMA DataTypeInit == RddiInit => DataTypeOK
<1>1. <<>> \in [DOMAIN <<>> -> Nat] /\ <<>> \in Seq(Nat)
    OBVIOUS
<1>2. RddiInit => call.regs = <<>>
    BY DEF RddiInit, NoCall
<1>3. ASSUME RddiInit PROVE out \in [Positions -> Nat]
    BY <1>1, <1>2, <1>3, Zenon DEF RddiInit, Positions
<1>4. ASSUME RddiInit PROVE data \in Seq(Nat)
    BY <1>1, <1>4 DEF RddiInit
<1>5. RddiInit => idcodes \in Nat /\ port \in {"SW", "JTAG"}
    BY DEF RddiInit
<1>6. RddiInit => aligned \in BOOLEAN /\ failed \in BOOLEAN /\ known \in BOOLEAN
    BY Zenon DEF RddiInit
<1>7. QED
    BY <1>3, <1>4, <1>5, <1>6, Zenon DEF DataTypeOK

\* Every variable keeps its type, for any calls and any answers of the probe: what
\* is written into the array of the caller are values, whatever the page holds.
THEOREM RddiTypeCorrect == RddiSpec => []RddiTypeOK
<1>1. RddiInit => DataTypeOK
    BY DataTypeInit
<1>2. RddiInductive /\ DataTypeOK /\ [RddiNext]_rddiVars => DataTypeOK'
    BY DataTypeStep
<1>3. RddiInductive /\ DataTypeOK => RddiTypeOK
    BY DEF RddiInductive, DataTypeOK, RddiTypeOK
<1>4. QED
    BY <1>1, <1>2, <1>3, RddiInductiveCorrect, PTL DEF RddiSpec

-----------------------------------------------------------------------------
(* The array of the caller.                                                *)

\* How far it is filled, and what it is filled with.
Filled == IF step = "build" /\ call.fn = "DetectSwd" THEN pos - 1 ELSE pos - 1 - Len(batch)
OutInv ==
    /\ ReadsInPlace
    /\ step # "idle" => \A p \in Positions : IsRead(p) /\ p =< Filled => out[p] = p

\* An accepted response puts the reads of its request in place and nothing else.
LEMMA StoredFacts ==
    ASSUME RddiInductive, DataTypeOK, PageInv, AnswerInv, OutInv, step = "check", status = "OK"
    PROVE  \A p \in Positions :
               /\ Stored[p] \in {0} \cup (IF IsRead(p) THEN {p} ELSE {})
               /\ IsRead(p) /\ p =< pos - 1 => Stored[p] = p
<1>1. /\ batch \in Seq(Nat) /\ reads = ReadsOf(call.regs, batch)
      /\ Len(batch) =< pos - 1 /\ Follow(batch, pos - 1 - Len(batch))
      /\ pos \in Nat
  <2>1. Total \in Nat
      BY TotalFacts DEF RddiInductive
  <2>2. QED
      BY <2>1 DEF RddiInductive, ControlTypeOK, PageInv, InRequest
<1>2. /\ reads \in Seq(Nat)
      /\ \A j \in 1 .. Len(reads) : call.regs[reads[j]] = "read"
      /\ \A i \in 1 .. Len(batch) :
             call.regs[batch[i]] = "read" => \E j \in 1 .. Len(reads) : reads[j] = batch[i]
  <2> DEFINE g == call.regs
  <2>1. batch \in Seq(Nat) /\ reads = ReadsOf(g, batch)
      BY <1>1
  <2> HIDE DEF g
  <2>2. reads \in Seq(Nat)
      BY <2>1, ReadsOfWhere
  <2>3. \A j \in 1 .. Len(reads) : g[reads[j]] = "read"
      BY <2>1, ReadsOfWhere
  <2>4. \A i \in 1 .. Len(batch) : g[batch[i]] = "read" => \E j \in 1 .. Len(reads) : reads[j] = batch[i]
      BY <2>1, ReadsOfWhere
  <2>5. QED
      BY <2>2, <2>3, <2>4 DEF g
<1>3. DOMAIN reads = 1 .. Len(reads) /\ Len(reads) \in Nat
    BY <1>2
<1>4. reads # <<>> => data = reads
    BY <1>1 DEF PageInv, InRequest, AnswerInv
<1>5. TAKE p \in Positions
<1>6. p \in Nat /\ p \in DOMAIN out /\ Len(batch) \in Nat
  <2>1. call.regs \in Seq(Kinds)
      BY CallFacts DEF RddiInductive, ControlTypeOK
  <2>2. QED
      BY <1>1, <2>1 DEF Positions, DataTypeOK
<1>7. CASE \E j \in DOMAIN reads : reads[j] = p
  <2> DEFINE c == CHOOSE j \in DOMAIN reads : reads[j] = p
  <2>1. c \in DOMAIN reads /\ reads[c] = p
      BY <1>7
  <2>2. Stored[p] = Value(c)
      BY <1>6, <1>7 DEF Stored
  <2> HIDE DEF c
  <2>3. reads # <<>> /\ IsRead(p)
      BY <1>2, <1>3, <2>1 DEF IsRead
  <2>4. Value(c) = p
      BY <1>4, <2>1, <2>3 DEF Value
  <2>5. QED
      BY <2>2, <2>3, <2>4
<1>8. CASE ~\E j \in DOMAIN reads : reads[j] = p
  <2>1. Stored[p] = out[p]
      BY <1>6, <1>8 DEF Stored
  <2>2. IsRead(p) /\ p =< pos - 1 => p =< pos - 1 - Len(batch)
    <3> SUFFICES ASSUME IsRead(p), p =< pos - 1, ~(p =< pos - 1 - Len(batch)) PROVE FALSE
        BY <1>1, <1>6
    <3> DEFINE i == p - (pos - 1 - Len(batch))
    <3>1. i \in 1 .. Len(batch) /\ pos - 1 - Len(batch) + i = p
        BY <1>1, <1>6
    <3> HIDE DEF i
    <3>2. batch[i] = p
        BY <1>1, <3>1 DEF Follow
    <3>3. QED
        BY <1>2, <1>3, <1>8, <3>1, <3>2 DEF IsRead
  <2>3. QED
      BY <2>1, <2>2 DEF OutInv, ReadsInPlace, Filled
<1>9. QED
    BY <1>7, <1>8

\* A step that leaves the array alone.
LEMMA OutKept ==
    ASSUME OutInv, UNCHANGED <<call, out>>,
           result' = "ok" => result = "ok" \/ \A p \in Positions : ~IsRead(p),
           step' # "idle" =>
               /\ step # "idle"
               /\ \A p \in Positions : IsRead(p) /\ p =< Filled' => p =< Filled
    PROVE  OutInv'
<1>1. Positions' = Positions /\ \A p \in Positions : IsRead(p)' = IsRead(p)
    BY DEF Positions, IsRead
<1>2. ReadsInPlace'
    BY <1>1 DEF OutInv, ReadsInPlace
<1>3. ASSUME step' # "idle", NEW p \in Positions', IsRead(p)', p =< Filled' PROVE out'[p] = p
    BY <1>1, <1>3 DEF OutInv
<1>4. QED
    BY <1>2, <1>3 DEF OutInv

\* A step that stores an accepted response.
LEMMA OutStored ==
    ASSUME RddiInductive, DataTypeOK, PageInv, AnswerInv, OutInv, step = "check", status = "OK",
           call' = call, out' = Stored,
           result' = "ok" => pos > Total,
           step' # "idle" => \A p \in Positions : IsRead(p) /\ p =< Filled' => p =< pos - 1
    PROVE  OutInv'
<1>1. Positions' = Positions /\ \A p \in Positions : IsRead(p)' = IsRead(p)
    BY DEF Positions, IsRead
<1>2. Positions = 1 .. Total /\ Total \in Nat /\ pos \in Nat
  <2>1. call.regs \in Seq(Kinds) /\ Total \in Nat
      BY CallFacts, TotalFacts DEF RddiInductive, ControlTypeOK
  <2>2. QED
      BY <2>1 DEF Positions, Total, RddiInductive, ControlTypeOK
<1>3. ReadsInPlace'
  <2>1. ASSUME NEW p \in Positions'
        PROVE  /\ out'[p] \in {0} \cup (IF IsRead(p)' THEN {p} ELSE {})
               /\ result' = "ok" /\ IsRead(p)' => out'[p] = p
    <3>1. result' = "ok" => p =< pos - 1
        BY <1>1, <1>2
    <3>2. QED
        BY <1>1, <3>1, StoredFacts
  <2>2. QED
      BY <2>1 DEF ReadsInPlace
<1>4. ASSUME step' # "idle", NEW p \in Positions', IsRead(p)', p =< Filled' PROVE out'[p] = p
    BY <1>1, <1>4, StoredFacts
<1>5. QED
    BY <1>3, <1>4 DEF OutInv

\* Requests are built of transfers behind the ones that are stored.
LEMMA OutBuild ==
    ASSUME RddiInductive, OutInv, Build
    PROVE  OutInv'
<1>1. /\ step = "build" /\ result = "pending"
      /\ pos \in Nat \ {0} /\ Total \in Nat /\ batch \in Seq(Nat) /\ Len(batch) \in Nat
      /\ Positions = 1 .. Total
      /\ call.fn \in {"RegWriteRepeat", "DetectJtag"} => \A p \in Positions : ~IsRead(p)
      /\ call.fn \in Singles => pos = 1
  <2>1. step = "build"
      BY DEF Build, AddTransfer, SkipRetry, SendBatch, SendAll, SendChunk, NothingToRepeat,
             SendIdcode, SendScan
  <2>2. call \in Requests \cup {NoCall} /\ pos \in 1 .. Total + 1 /\ batch \in Seq(Nat)
        /\ result \in Results
      BY DEF RddiInductive, ControlTypeOK
  <2>3. call.regs \in Seq(Kinds) /\ Total \in Nat /\ (call.fn = "DetectJtag" => Total = 0)
      BY <2>2, CallFacts, TotalFacts DEF RddiInductive
  <2>4. Positions = 1 .. Total
      BY <2>3 DEF Positions, Total
  <2>5. call.fn = "RegWriteRepeat" => \A p \in Positions : ~IsRead(p)
      BY <2>2, <2>4, CallKinds DEF IsRead, Total
  <2>6. QED
      BY <2>1, <2>2, <2>3, <2>4, <2>5 DEF RddiInductive, Placed
<1>2. CASE AddTransfer
  <2>1. /\ call.fn = "RegAccessBlock" /\ batch' = Append(batch, pos) /\ pos' = pos + 1
        /\ UNCHANGED <<call, out, result, step>>
      BY <1>2 DEF AddTransfer, resultVars
  <2>2. Len(batch') = Len(batch) + 1
      BY <1>1, <2>1
  <2>3. Filled' = Filled
      BY <1>1, <2>1, <2>2 DEF Filled
  <2>4. QED
      BY <1>1, <2>1, <2>3, OutKept
<1>3. CASE SkipRetry
  <2>1. /\ call.fn = "RegAccessBlock" /\ call.regs[pos] = "retry" /\ batch = <<>>
        /\ batch' = <<>> /\ pos' = pos + 1
        /\ UNCHANGED <<call, out, result, step>>
      BY <1>3 DEF SkipRetry, NothingToSend, StartBatch, resultVars
  <2>2. Filled = pos - 1 /\ Filled' = pos
      BY <1>1, <2>1 DEF Filled
  <2>3. \A p \in Positions : IsRead(p) /\ p =< Filled' => p =< Filled
      BY <1>1, <2>1, <2>2 DEF IsRead
  <2>4. QED
      BY <1>1, <2>1, <2>3, OutKept
<1>4. CASE SendBatch
  <2>1. /\ call.fn = "RegAccessBlock" /\ step' = "probe"
        /\ UNCHANGED <<call, out, result, pos, batch>>
      BY <1>4 DEF SendBatch, Send
  <2>2. Filled' = Filled
      BY <1>1, <2>1 DEF Filled
  <2>3. QED
      BY <1>1, <2>1, <2>2, OutKept
<1>5. CASE SendAll
  <2>1. /\ step' = "probe" /\ pos' = Total + 1 /\ batch' = Upto(Total)
        /\ UNCHANGED <<call, out, result>>
      BY <1>5 DEF SendAll, Send
  <2>2. Len(batch') = Total
      BY <1>1, <2>1, FollowBase
  <2>3. Filled' = 0
      BY <1>1, <2>1, <2>2 DEF Filled
  <2>4. \A p \in Positions : ~(p =< Filled')
      BY <1>1, <2>3
  <2>5. QED
      BY <1>1, <2>1, <2>4, OutKept
<1>6. CASE SendChunk \/ NothingToRepeat \/ SendScan
  <2>1. call.fn \in {"RegWriteRepeat", "DetectJtag"}
      BY <1>6 DEF SendChunk, NothingToRepeat, SendScan
  <2>2. UNCHANGED <<call, out>>
    <3>1. CASE SendScan
        BY <3>1, ScanSends DEF Send
    <3>2. CASE SendChunk \/ NothingToRepeat
        BY <3>2 DEF SendChunk, NothingToRepeat, Send, Return, buildVars
    <3>3. QED
        BY <1>6, <3>1, <3>2
  <2>3. QED
      BY <1>1, <2>1, <2>2, OutKept
<1>7. CASE SendIdcode
  <2>1. /\ call.fn = "DetectSwd" /\ step' = "probe" /\ pos' = pos + 1 /\ batch' = <<pos>>
        /\ UNCHANGED <<call, out, result>>
      BY <1>7 DEF SendIdcode, Send
  <2>2. Filled = pos - 1 /\ Filled' = pos - 1
      BY <1>1, <2>1 DEF Filled
  <2>3. QED
      BY <1>1, <2>1, <2>2, OutKept
<1>8. QED
    BY <1>2, <1>3, <1>4, <1>5, <1>6, <1>7 DEF Build

\* What is made of a response.
LEMMA OutCheck ==
    ASSUME RddiInductive, DataTypeOK, PageInv, AnswerInv, OutInv, Check
    PROVE  OutInv'
<1>1. /\ step = "check" /\ result = "pending"
      /\ pos \in Nat \ {0} /\ Total \in Nat
      /\ Positions = 1 .. Total
      /\ call.fn \in {"RegWriteRepeat", "DetectJtag"} => \A p \in Positions : ~IsRead(p)
      /\ call.fn \in Singles => pos = Total + 1
  <2>1. step = "check"
      BY DEF Check, BatchFails, NextBatch, LastBatch, AllReturns, ChunkChecked, IdcodeRead,
             SwdDetected, SwdNotDetected, ScanFails, DevicesCounted, IdcodesChecked,
             ChainConfigured
  <2>2. call \in Requests \cup {NoCall} /\ pos \in 1 .. Total + 1 /\ result \in Results
      BY DEF RddiInductive, ControlTypeOK
  <2>3. call.regs \in Seq(Kinds) /\ Total \in Nat /\ (call.fn = "DetectJtag" => Total = 0)
      BY <2>2, CallFacts, TotalFacts DEF RddiInductive
  <2>4. Positions = 1 .. Total
      BY <2>3 DEF Positions, Total
  <2>5. call.fn = "RegWriteRepeat" => \A p \in Positions : ~IsRead(p)
      BY <2>2, <2>4, CallKinds DEF IsRead, Total
  <2>6. QED
      BY <2>1, <2>2, <2>3, <2>4, <2>5 DEF RddiInductive, Placed
<1>2. CASE NextBatch
  <2>1. /\ call.fn = "RegAccessBlock" /\ status = "OK" /\ pos =< Total /\ out' = Stored
        /\ batch' = <<>> /\ pos' = pos + 1 /\ step' = "build"
        /\ UNCHANGED <<call, result>>
      BY <1>2 DEF NextBatch, StartBatch, Answered
  <2>2. Filled' = pos
      BY <1>1, <2>1 DEF Filled
  <2>3. call.regs[pos] = "retry"
      BY <1>1, <2>1 DEF PageInv, InRequest
  <2>4. \A p \in Positions : IsRead(p) /\ p =< Filled' => p =< pos - 1
      BY <1>1, <2>2, <2>3 DEF IsRead
  <2>5. QED
      BY <1>1, <2>1, <2>4, OutStored
<1>3. CASE LastBatch \/ SwdDetected
  <2>1. status = "OK" /\ pos > Total /\ out' = Stored /\ step' = "idle" /\ call' = call
      BY <1>3 DEF LastBatch, SwdDetected, Answered, Return, buildVars
  <2>2. QED
      BY <1>1, <2>1, OutStored
<1>4. CASE IdcodeRead
  <2>1. /\ call.fn = "DetectSwd" /\ status = "OK" /\ out' = Stored /\ step' = "build"
        /\ UNCHANGED <<call, pos, result>>
      BY <1>4 DEF IdcodeRead, buildVars
  <2>2. Filled' = pos - 1
      BY <2>1 DEF Filled
  <2>3. QED
      BY <1>1, <2>1, <2>2, OutStored
<1>5. CASE AllReturns
  <2>1. call.fn \in Singles /\ call' = call /\ step' = "idle"
      BY <1>5 DEF AllReturns, Return, buildVars
  <2>2. CASE Answered
    <3>1. status = "OK" /\ out' = Stored
        BY <1>5, <2>2 DEF AllReturns, Answered
    <3>2. QED
        BY <1>1, <2>1, <3>1, OutStored
  <2>3. CASE ~Answered
    <3>1. out' = out /\ result' = "internal"
        BY <1>5, <2>3 DEF AllReturns, Return
    <3>2. QED
        BY <2>1, <3>1, OutKept
  <2>4. QED
      BY <2>2, <2>3
<1>6. CASE BatchFails \/ SwdNotDetected
  <2>1. UNCHANGED <<call, out>> /\ step' = "idle" /\ result' \in {"sticky", "internal"}
      BY <1>6 DEF BatchFails, SwdNotDetected, Return, buildVars
  <2>2. QED
      BY <2>1, OutKept
<1>7. CASE ChunkChecked \/ ScanFails \/ DevicesCounted \/ IdcodesChecked \/ ChainConfigured
  <2>1. call.fn \in {"RegWriteRepeat", "DetectJtag"} /\ UNCHANGED <<call, out>>
      BY <1>7
      DEF ChunkChecked, ScanFails, DevicesCounted, IdcodesChecked, ChainConfigured, Return,
          buildVars
  <2>2. QED
      BY <1>1, <2>1, OutKept
<1>8. QED
    BY <1>2, <1>3, <1>4, <1>5, <1>6, <1>7 DEF Check

LEMMA OutStep ==
    ASSUME RddiInductive, DataTypeOK, PageInv, AnswerInv, OutInv, [RddiNext]_rddiVars
    PROVE  OutInv'
<1>1. CASE Build
    BY <1>1, OutBuild
<1>2. CASE Check
    BY <1>2, OutCheck
<1>3. CASE Probe \/ Parse
  <2>1. /\ step \in {"probe", "parse"} /\ step' \in {"parse", "check"}
        /\ UNCHANGED <<call, pos, batch, out, result>>
    <3>1. CASE Probe
        BY <3>1 DEF Probe, ProbeAnswers, buildVars, resultVars
    <3>2. CASE Parse
        BY <3>2
        DEF Parse, ParsePlain, ParseTransferConfigure, ParseReporting, ParseWriteABORT,
            ParseTransfer, ParseJtagSequence, ParsePins, Parsed, buildVars, resultVars
    <3>3. QED
        BY <1>3, <3>1, <3>2
  <2>2. Filled' = Filled
      BY <2>1 DEF Filled
  <2>3. QED
      BY <2>1, <2>2, OutKept
<1>4. CASE \E r \in Requests : Call(r)
  <2>1. PICK r \in Requests : Call(r)
      BY <1>4
  <2>2. /\ call' = r /\ out' = [p \in DOMAIN r.regs |-> 0] /\ pos' = 1 /\ batch' = <<>>
        /\ result' \in {"pending", "failed"} /\ step' \in {"build", "idle"}
      BY <2>1 DEF Call
  <2>3. Filled' = 0
    <3>1. pos' = 1 /\ Len(batch') = 0
        BY <2>2
    <3>2. pos' - 1 = 0 /\ pos' - 1 - Len(batch') = 0
        BY <3>1
    <3>3. QED
        BY <3>2, Zenon DEF Filled
  <2>4. \A p \in Positions' : p \in Nat \ {0} /\ out'[p] = 0
    <3>1. r.regs \in Seq(Kinds)
        BY CallFacts
    <3>2. QED
        BY <2>2, <3>1 DEF Positions
  <2>5. QED
      BY <2>2, <2>3, <2>4 DEF OutInv, ReadsInPlace
<1>5. CASE ConfigurePort \/ UNCHANGED rddiVars
  <2>1. UNCHANGED <<call, pos, batch, out, result, step>>
      BY <1>5 DEF ConfigurePort, rddiVars, buildVars, resultVars
  <2>2. Filled' = Filled
      BY <2>1 DEF Filled
  <2>3. QED
      BY <2>1, <2>2, OutKept
<1>6. QED
    BY <1>1, <1>2, <1>3, <1>4, <1>5 DEF RddiNext, Working

\* A call that succeeds has put every value it read where the caller asked for it
\* and touched nothing else, and a call that fails has put no wrong value anywhere:
\* for any list of transfers, cut at its match retries in any way.
THEOREM ReadsInPlaceCorrect == RddiSpec => []ReadsInPlace
<1>1. RddiInit => DataTypeOK /\ OutInv
  <2>1. RddiInit => Positions = {} /\ step = "idle"
      BY DEF RddiInit, Positions, NoCall
  <2>2. RddiInit => OutInv
      BY <2>1 DEF OutInv, ReadsInPlace
  <2>3. QED
      BY <2>2, DataTypeInit
<1>2. RddiInductive /\ DataTypeOK /\ PageInv /\ AnswerInv /\ OutInv /\ [RddiNext]_rddiVars =>
          DataTypeOK' /\ OutInv'
    BY DataTypeStep, OutStep
<1>3. OutInv => ReadsInPlace
    BY DEF OutInv
<1>4. QED
    BY <1>1, <1>2, <1>3, AnswersAlways, PTL DEF RddiSpec
=============================================================================
