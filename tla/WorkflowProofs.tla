--------------------------- MODULE WorkflowProofs ---------------------------
(***************************************************************************)
(* Facts about definitions, about what calls inherit and about what the    *)
(* validator's operators find, that the proofs about the engines, the      *)
(* validators and the simulator rest on.                                   *)
(***************************************************************************)
EXTENDS Export, Lineages, WellFoundedInduction, SequenceTheorems, FiniteSetTheorems, TLAPS

(* The least-number principle for sets of naturals.                        *)
LEMMA LeastNatural ==
  ASSUME NEW T, T \subseteq Nat, T # {}
  PROVE  \E x \in T : \A y \in T : x <= y
PROOF
<1> DEFINE R == OpToRel(<, Nat)
<1>1. IsWellFoundedOn(R, Nat)
  BY NatLessThanWellFounded
<1>2. PICK x \in T : \A y \in T : ~ (<<y, x>> \in R)
  BY <1>1, WFMin
<1>3. ASSUME NEW y \in T, y < x PROVE FALSE
  <2>1. <<y, x>> \in R
    BY <1>3 DEF OpToRel
  <2> QED BY <1>2, <2>1
<1>4. \A y \in T : x \in Nat /\ y \in Nat /\ ~ (y < x)
  BY <1>3
<1> HIDE DEF R
<1>5. \A y \in T : x <= y
  BY <1>4
<1> QED BY <1>5

(* What holds of 0 and is handed on from each number to the next.          *)
LEMMA UpTo ==
  ASSUME NEW n \in Nat, NEW T, 0 \in T, \A k \in 1..n : k - 1 \in T => k \in T
  PROVE  \A k \in 0..n : k \in T
PROOF
<1> DEFINE U == {k \in 0..n : k \notin T}
<1> SUFFICES ASSUME U # {} PROVE FALSE
  OBVIOUS
<1>1. PICK k \in U : \A l \in U : k <= l
  <2>1. U \subseteq Nat
    OBVIOUS
  <2> HIDE DEF U
  <2> QED BY <2>1, LeastNatural
<1>2. k \in 1..n /\ k - 1 \in 0..n /\ ~ k <= k - 1 /\ k \notin T
  OBVIOUS
<1>3. k - 1 \in T
  <2> SUFFICES ASSUME k - 1 \notin T PROVE FALSE
    OBVIOUS
  <2>1. k - 1 \in U
    BY <1>2
  <2> HIDE DEF U
  <2> QED BY <1>1, <1>2, <2>1
<1> QED BY <1>2, <1>3

(* The node map returns a node of the definition that has the id asked     *)
(* for: among the positions that hold the id there is a last one.          *)
LEMMA NodeMapType ==
  ASSUME NEW w, NEW N, w.nodes \in Seq(N), NEW id \in NodeIDs(w)
  PROVE  /\ NodeMap(w)[id] \in NodesOf(w)
         /\ NodeMap(w)[id].id = id
PROOF
<1> DEFINE n == Len(w.nodes)
           At == {k \in 1..n : w.nodes[k].id = id}
           Last(k) == /\ w.nodes[k].id = id
                      /\ \A l \in (k + 1)..n : w.nodes[l].id # id
           Gaps == {n - k : k \in At}
<1>1. n \in Nat
  OBVIOUS
<1>2. PICK k0 \in At : TRUE
  BY DEF NodeIDs, NodesOf
<1>3. Gaps \in SUBSET Nat /\ n - k0 \in Gaps
  BY <1>1, <1>2
<1>4. PICK g \in Gaps : \A h \in Gaps : g <= h
  BY <1>3, LeastNatural
<1>5. PICK k \in At : g = n - k
  BY <1>4
<1>6. Last(k)
  <2> SUFFICES ASSUME NEW l \in (k + 1)..n, w.nodes[l].id = id PROVE FALSE
    BY <1>5
  <2>1. l \in At /\ n - l \in Gaps
    BY <1>1, <1>5
  <2>2. g <= n - l /\ g = n - k /\ k \in Nat /\ l \in Nat /\ l > k
    <3>1. g <= n - l
      BY <1>4, <2>1
    <3>2. k \in 1..n /\ l \in (k + 1)..n /\ g = n - k
      BY <1>5
    <3> HIDE DEF n
    <3> QED BY <1>1, <3>1, <3>2
  <2> HIDE DEF n
  <2> QED BY <1>1, <2>2
<1>7. \E j \in 1..n : Last(j)
  BY <1>5, <1>6
<1> DEFINE j == CHOOSE i \in 1..n : Last(i)
<1>8. j \in 1..n /\ Last(j)
  BY <1>7
<1>9. NodeMap(w)[id] = w.nodes[j]
  BY DEF NodeMap
<1> QED BY <1>8, <1>9 DEF NodesOf

(* The definition of a run is parsed, so its node map is well typed.       *)
LEMMA ParsedNodes ==
  ASSUME NEW w, IsParsed(w)
  PROVE  /\ \A id \in NodeIDs(w) : NodeMap(w)[id] \in NodesOf(w) /\ NodeMap(w)[id].id = id
         /\ \A n \in NodesOf(w) : Len(n.branches) \in Nat /\ n.id \in NodeIDs(w)
PROOF
<1>1. w.nodes \in Seq({w.nodes[k] : k \in DOMAIN w.nodes})
  BY DEF IsParsed, IsList
<1>2. \A id \in NodeIDs(w) : NodeMap(w)[id] \in NodesOf(w) /\ NodeMap(w)[id].id = id
  BY <1>1, NodeMapType
<1>3. \A n \in NodesOf(w) : Len(n.branches) \in Nat
  BY LenProperties DEF IsParsed, IsList
<1> QED BY <1>2, <1>3 DEF NodeIDs

Nearest(ks) == CHOOSE k \in ks : \A l \in ks : l <= k

-----------------------------------------------------------------------------
(* The ancestors of a call are those of the calling one, and that one.     *)
LEMMA PrefixesOfChild ==
  ASSUME NEW c \in Seq(Nat), NEW i \in Nat
  PROVE  /\ Len(c) \in Nat /\ Len(Append(c, i)) = Len(c) + 1
         /\ Prefix(Append(c, i), Len(c)) = c
         /\ \A k \in 0..(Len(c) - 1) : Prefix(Append(c, i), k) = Prefix(c, k)
PROOF
<1> DEFINE e == Append(c, i)
<1>1. /\ Len(c) \in Nat /\ e \in Seq(Nat) /\ Len(e) = Len(c) + 1
      /\ \A j \in 1..Len(c) : e[j] = c[j]
  BY AppendProperties, LenProperties
<1>2. ASSUME NEW k \in 0..Len(c) PROVE SubSeq(e, 1, k) = SubSeq(c, 1, k)
  <2>1. \A j \in 1..k : e[j] = c[j] /\ e[j] \in Nat /\ c[j] \in Nat
    BY <1>1
  <2> HIDE DEF e
  <2>2. /\ SubSeq(e, 1, k) \in Seq(Nat) /\ SubSeq(c, 1, k) \in Seq(Nat)
        /\ Len(SubSeq(e, 1, k)) = k /\ Len(SubSeq(c, 1, k)) = k
        /\ \A j \in 1..k : SubSeq(e, 1, k)[j] = e[j] /\ SubSeq(c, 1, k)[j] = c[j]
    BY <1>1, <2>1, SubSeqProperties
  <2> QED BY <2>1, <2>2, SeqEqual
<1>3. SubSeq(c, 1, Len(c)) = c
  BY SubSeqFull
<1> QED BY <1>1, <1>2, <1>3 DEF Prefix

-----------------------------------------------------------------------------
(* Call d is a, or was made somewhere below it.                            *)
Under(d, a) == Len(a) <= Len(d) /\ Prefix(d, Len(a)) = a

(* The calls from c down to d.                                             *)
PathFrom(c, d) == [k \in 1..(Len(d) - Len(c) + 1) |-> Prefix(d, Len(c) + k - 1)]

(* An address tells the call that made it, and the branch.                 *)
LEMMA AddressInjective ==
  ASSUME NEW c \in Seq(Nat), NEW d \in Seq(Nat), NEW i \in Nat, NEW j \in Nat,
         Append(c, i) = Append(d, j)
  PROVE  c = d /\ i = j
BY AppendInjective

(* A list of elements of T, whatever else it is a list of.                 *)
LEMMA ListOf ==
  ASSUME NEW S, NEW T, NEW s \in Seq(S), \A k \in 1..Len(s) : s[k] \in T
  PROVE  s \in Seq(T)
PROOF
<1>1. s = [k \in 1..Len(s) |-> s[k]] /\ Len(s) \in Nat
  OBVIOUS
<1>2. s \in [1..Len(s) -> T]
  BY <1>1
<1> QED BY <1>1, <1>2

LEMMA UnderItself == ASSUME NEW c \in Seq(Nat) PROVE Under(c, c) /\ Under(c, <<>>)
PROOF
<1>1. Prefix(c, Len(c)) = c
  BY SubSeqFull DEF Prefix
<1>2. Len(<<>>) = 0 /\ Prefix(c, 0) = <<>>
  BY SubSeqEmpty DEF Prefix
<1>3. Len(c) \in Nat
  BY LenProperties
<1> QED BY <1>1, <1>2, <1>3 DEF Under

(* What is below a call but not that call is below one of its successors.  *)
LEMMA UnderSuccessor ==
  ASSUME NEW a \in Seq(Nat), NEW d \in Seq(Nat), Under(d, a), d # a
  PROVE  /\ Len(a) \in Nat /\ Len(d) \in Nat /\ Len(a) + 1 <= Len(d)
         /\ d[Len(a) + 1] \in Nat
         /\ Prefix(d, Len(a) + 1) = Append(a, d[Len(a) + 1])
         /\ Under(d, Append(a, d[Len(a) + 1]))
PROOF
<1> DEFINE m == Len(a)
           x == d[m + 1]
           e == Append(a, x)
           q == Prefix(d, m + 1)
<1>1. m \in Nat /\ Len(d) \in Nat /\ m <= Len(d) /\ Prefix(d, m) = a
  BY LenProperties DEF Under
<1>2. m # Len(d)
  BY <1>1, SubSeqFull DEF Prefix
<1>3. m + 1 <= Len(d) /\ m + 1 \in 1..Len(d)
  BY <1>1, <1>2
<1>4. x \in Nat
  BY <1>3, ElementOfSeq
<1>5. /\ e \in Seq(Nat) /\ Len(e) = m + 1 /\ e[m + 1] = x
      /\ \A j \in 1..m : e[j] = a[j]
  BY <1>4, AppendProperties
<1>6. \A j \in 1..(m + 1) : d[j] \in Nat
  <2> TAKE j \in 1..(m + 1)
  <2>1. j \in 1..Len(d)
    BY <1>1, <1>3
  <2> QED BY <2>1, ElementOfSeq
<1>7. /\ q \in Seq(Nat) /\ Len(q) = m + 1
      /\ \A j \in 1..(m + 1) : q[j] = d[j]
  <2>1. /\ SubSeq(d, 1, m + 1) \in Seq(Nat) /\ Len(SubSeq(d, 1, m + 1)) = m + 1
        /\ \A j \in 1..(m + 1) : SubSeq(d, 1, m + 1)[j] = d[j]
    BY <1>1, <1>6, SubSeqProperties
  <2> QED BY <2>1 DEF Prefix
<1>8. \A j \in 1..m : a[j] = d[j]
  <2>1. /\ Len(SubSeq(d, 1, m)) = m
        /\ \A j \in 1..m : SubSeq(d, 1, m)[j] = d[j]
    <3>1. \A j \in 1..m : d[j] \in Nat
      BY <1>1, <1>6
    <3> QED BY <1>1, <3>1, SubSeqProperties
  <2> QED BY <1>1, <2>1 DEF Prefix
<1>9. q = e
  <2>1. \A j \in 1..(m + 1) : q[j] = e[j]
    <3> TAKE j \in 1..(m + 1)
    <3>1. CASE j = m + 1
      BY <1>5, <1>7, <3>1
    <3>2. CASE j \in 1..m
      BY <1>5, <1>7, <1>8, <3>2
    <3> QED BY <1>1, <3>1, <3>2
  <2> HIDE DEF q, e, m
  <2> QED BY <1>5, <1>7, <2>1, SeqEqual
<1>10. Under(d, e)
  BY <1>3, <1>5, <1>9 DEF Under
<1> QED BY <1>1, <1>3, <1>4, <1>9, <1>10

(* What is below a successor of c is below c, and below no other one.      *)
LEMMA UnderCaller ==
  ASSUME NEW c \in Seq(Nat), NEW i \in Nat, NEW d \in Seq(Nat), Under(d, Append(c, i))
  PROVE  /\ Under(d, c) /\ d # c
         /\ Len(c) \in Nat /\ Len(d) \in Nat /\ Len(c) < Len(d)
         /\ Prefix(d, Len(c)) = c /\ Prefix(d, Len(c) + 1) = Append(c, i)
PROOF
<1> DEFINE e == Append(c, i)
           m == Len(c)
<1>1. m \in Nat /\ Len(d) \in Nat /\ Len(e) = m + 1 /\ Prefix(e, m) = c
  BY PrefixesOfChild, LenProperties
<1>2. m + 1 <= Len(d) /\ Prefix(d, m + 1) = e
  BY <1>1 DEF Under
<1>3. Prefix(Prefix(d, m + 1), m) = Prefix(d, m)
  <2>1. \A j \in 1..(m + 1) : d[j] \in Nat
    <3> TAKE j \in 1..(m + 1)
    <3>1. j \in 1..Len(d)
      BY <1>1, <1>2
    <3> QED BY <3>1, ElementOfSeq
  <2> DEFINE q == SubSeq(d, 1, m + 1)
             r == SubSeq(d, 1, m)
             s == SubSeq(q, 1, m)
  <2>2. q \in Seq(Nat) /\ Len(q) = m + 1 /\ \A j \in 1..(m + 1) : q[j] = d[j]
    BY <1>1, <2>1, SubSeqProperties
  <2>3. \A j \in 1..m : d[j] \in Nat /\ q[j] = d[j]
    BY <1>1, <2>1, <2>2
  <2>4. r \in Seq(Nat) /\ Len(r) = m /\ \A j \in 1..m : r[j] = d[j]
    BY <1>1, <2>3, SubSeqProperties
  <2> HIDE DEF q
  <2>5. s \in Seq(Nat) /\ Len(s) = m /\ \A j \in 1..m : s[j] = q[j]
    BY <1>1, <2>3, SubSeqProperties
  <2> HIDE DEF r, s
  <2>6. s = r
    BY <2>3, <2>4, <2>5, SeqEqual
  <2> QED BY <2>6 DEF q, r, s, Prefix
<1> HIDE DEF e, m
<1>4. m < Len(d) /\ Prefix(d, m) = c
  BY <1>1, <1>2, <1>3
<1>5. d # c
  BY <1>1, <1>4 DEF m
<1>6. m <= Len(d)
  BY <1>1, <1>4
<1>7. Under(d, c)
  BY <1>4, <1>6 DEF Under, m
<1> QED BY <1>1, <1>2, <1>4, <1>5, <1>7 DEF e, m

LEMMA BelowOneSuccessor ==
  ASSUME NEW c \in Seq(Nat), NEW i \in Nat, NEW j \in Nat, NEW d \in Seq(Nat),
         Under(d, Append(c, i)), Under(d, Append(c, j))
  PROVE  i = j
PROOF
<1>1. Append(c, i) = Append(c, j)
  BY UnderCaller
<1> QED BY <1>1, AddressInjective

(* A call made below a was made by a call below a, or by a.                *)
LEMMA CallerUnder ==
  ASSUME NEW a \in Seq(Nat), NEW b \in Seq(Nat), NEW i \in Nat,
         Under(Append(b, i), a), Append(b, i) # a
  PROVE  Under(b, a)
PROOF
<1> DEFINE e == Append(b, i)
<1>1. e \in Seq(Nat)
  BY AppendProperties
<1>2. Len(a) \in Nat /\ Len(a) + 1 <= Len(e) /\ Prefix(e, Len(a)) = a
  BY <1>1, UnderSuccessor DEF Under
<1>3. /\ Len(b) \in Nat /\ Len(e) = Len(b) + 1 /\ Prefix(e, Len(b)) = b
      /\ \A k \in 0..(Len(b) - 1) : Prefix(e, k) = Prefix(b, k)
  BY PrefixesOfChild
<1> HIDE DEF e
<1>4. CASE Len(a) = Len(b)
  <2>1. a = b
    BY <1>2, <1>3, <1>4
  <2> QED BY <2>1, UnderItself
<1>5. CASE Len(a) # Len(b)
  <2>1. Len(a) \in 0..(Len(b) - 1) /\ Len(a) <= Len(b)
    BY <1>2, <1>3, <1>5
  <2>2. Prefix(b, Len(a)) = a
    BY <1>2, <1>3, <2>1
  <2> QED BY <2>1, <2>2 DEF Under
<1> QED BY <1>4, <1>5

LEMMA PathOfItself == ASSUME NEW c \in Seq(Nat) PROVE PathFrom(c, c) = <<c>>
PROOF
<1>1. Len(c) \in Nat /\ Prefix(c, Len(c)) = c
  BY LenProperties, SubSeqFull DEF Prefix
<1>2. Len(c) - Len(c) + 1 = 1 /\ \A k \in 1..1 : Len(c) + k - 1 = Len(c)
  BY <1>1
<1> QED BY <1>1, <1>2 DEF PathFrom

(* With the calling call in front a path begins at that one.               *)
LEMMA PathFromCaller ==
  ASSUME NEW c \in Seq(Nat), NEW i \in Nat, NEW d \in Seq(Nat), Under(d, Append(c, i)),
         NEW ns \in Seq(Seq(Nat)), ns = PathFrom(Append(c, i), d)
  PROVE  <<c>> \o ns = PathFrom(c, d) /\ Len(ns) >= 1
PROOF
<1> DEFINE e  == Append(c, i)
           n  == Len(ns)
           m  == Len(c)
           ms == <<c>> \o ns
           p  == PathFrom(c, d)
<1>1. /\ m \in Nat /\ Len(d) \in Nat /\ Len(e) = m + 1 /\ m + 1 <= Len(d)
      /\ Prefix(d, m) = c
  <2>1. m \in Nat /\ Len(e) = m + 1
    BY PrefixesOfChild
  <2>2. Len(d) \in Nat /\ m < Len(d) /\ Prefix(d, m) = c
    BY UnderCaller
  <2> HIDE DEF m
  <2> QED BY <2>1, <2>2
<1>2. n \in Nat /\ <<c>> \in Seq(Seq(Nat)) /\ Len(<<c>>) = 1
  BY LenProperties
<1>3. /\ ms \in Seq(Seq(Nat)) /\ Len(ms) = n + 1 /\ ms[1] = c
      /\ \A j \in 2..(n + 1) : ms[j] = ns[j - 1]
  BY <1>2, ConcatProperties
<1>4. ns = PathFrom(e, d)
  OBVIOUS
<1> HIDE DEF m, ms, e
<1>5. n = Len(d) - m /\ n >= 1
  <2>1. Len(PathFrom(e, d)) = Len(d) - (m + 1) + 1
    BY <1>1 DEF PathFrom
  <2> QED BY <1>1, <1>4, <2>1
<1>6. \A j \in 1..n : ns[j] = Prefix(d, m + j)
  <2> TAKE j \in 1..n
  <2>1. j \in 1..(Len(d) - Len(e) + 1)
    BY <1>1, <1>5
  <2>2. PathFrom(e, d)[j] = Prefix(d, Len(e) + j - 1)
    BY <2>1 DEF PathFrom
  <2>3. Len(e) + j - 1 = m + j
    BY <1>1
  <2> QED BY <1>4, <2>2, <2>3
<1> HIDE DEF n
<1>7. p = [j \in 1..(n + 1) |-> Prefix(d, m + j - 1)]
  <2>1. Len(d) - m + 1 = n + 1
    BY <1>1, <1>5
  <2> QED BY <2>1 DEF PathFrom, m
<1>8. \A j \in 1..(n + 1) : ms[j] = Prefix(d, m + j - 1)
  <2> TAKE j \in 1..(n + 1)
  <2>1. CASE j = 1
    <3>1. m + j - 1 = m
      BY <1>1, <2>1
    <3> QED BY <1>1, <1>3, <2>1, <3>1
  <2>2. CASE j # 1
    <3>1. j \in 2..(n + 1) /\ j - 1 \in 1..n /\ m + (j - 1) = m + j - 1
      BY <1>1, <1>2, <2>2
    <3>2. ms[j] = ns[j - 1] /\ ns[j - 1] = Prefix(d, m + (j - 1))
      BY <1>3, <1>6, <3>1
    <3> QED BY <3>1, <3>2
  <2> QED BY <2>1, <2>2
<1>9. ms = [j \in 1..(n + 1) |-> ms[j]]
  BY <1>2, <1>3
<1> QED BY <1>5, <1>7, <1>8, <1>9 DEF ms, n

(* The leaves of a tree of calls are those nothing was called by.          *)
LEMMA LeafHasNoSuccessor ==
  ASSUME NEW A, A \subseteq Seq(Nat), NEW c \in A
  PROVE  (\A d \in A : Len(d) = Len(c) + 1 => Prefix(d, Len(c)) # c)
           <=> \A i \in Nat : Append(c, i) \notin A
PROOF
<1>1. \A d \in A : d \in Seq(Nat)
  OBVIOUS
<1>2. ASSUME NEW d \in A, Len(d) = Len(c) + 1, Prefix(d, Len(c)) = c
      PROVE  \E i \in Nat : Append(c, i) \in A
  <2>1. Len(c) \in Nat /\ Len(d) \in Nat
    BY <1>1, LenProperties
  <2>2. Under(d, c) /\ d # c
    BY <1>2, <2>1 DEF Under
  <2>3. d[Len(c) + 1] \in Nat /\ Prefix(d, Len(d)) = Append(c, d[Len(c) + 1])
    BY <1>1, <1>2, <2>2, UnderSuccessor
  <2>4. Prefix(d, Len(d)) = d
    BY <1>1, SubSeqFull DEF Prefix
  <2> QED BY <2>3, <2>4
<1>3. ASSUME NEW i \in Nat, Append(c, i) \in A
      PROVE  \E d \in A : Len(d) = Len(c) + 1 /\ Prefix(d, Len(c)) = c
  BY <1>1, <1>3, PrefixesOfChild
<1> QED BY <1>2, <1>3

-----------------------------------------------------------------------------
(* Of some numbers and a larger one the largest is that one.               *)
LEMMA NearestIs ==
  ASSUME NEW n \in Nat, NEW ks, \A k \in ks : k \in Nat /\ k < n
  PROVE  Nearest(ks \cup {n}) = n
PROOF
<1>1. n \in ks \cup {n} /\ \A l \in ks \cup {n} : l <= n
  OBVIOUS
<1>2. ASSUME NEW k \in ks \cup {n}, \A l \in ks \cup {n} : l <= k PROVE k = n
  BY <1>2
<1> QED BY <1>1, <1>2 DEF Nearest

(* Some numbers below a bound have a largest among them.                   *)
LEMMA NearestIn ==
  ASSUME NEW n \in Nat, NEW ks, \A k \in ks : k \in Nat /\ k < n, ks # {}
  PROVE  Nearest(ks) \in ks
PROOF
<1> DEFINE T == {n - k : k \in ks}
<1>1. T \subseteq Nat /\ T # {}
  OBVIOUS
<1>2. PICK t \in T : \A y \in T : t <= y
  BY <1>1, LeastNatural
<1>3. PICK k \in ks : t = n - k
  OBVIOUS
<1>4. \A l \in ks : l <= k
  <2> TAKE l \in ks
  <2>1. n - k <= n - l
    BY <1>2, <1>3
  <2> QED BY <2>1
<1> QED BY <1>4 DEF Nearest

(* Outputs laid over a payload one by one: a further, nearer one is laid   *)
(* over what the others make.                                              *)
OneMore(outs, n, out, more) ==
  /\ n \in Nat /\ \A k \in DOMAIN outs : k \in Nat /\ k < n
  /\ DOMAIN more = DOMAIN outs \cup {n} /\ more[n] = out
  /\ \A k \in DOMAIN outs : more[k] = outs[k]

LEMMA OverlaidMore ==
  ASSUME NEW base, NEW n, NEW out, NEW outs, NEW more, OneMore(outs, n, out, more)
  PROVE  Overlaid(base, more) = Overlay(Overlaid(base, outs), out)
PROOF
<1> DEFINE A(f) == {k \in DOMAIN outs : f \in DOMAIN outs[k]}
           B(f) == {k \in DOMAIN more : f \in DOMAIN more[k]}
           F == DOMAIN base \cup UNION {DOMAIN outs[k] : k \in DOMAIN outs}
           G == DOMAIN base \cup UNION {DOMAIN more[k] : k \in DOMAIN more}
<1>1. /\ DOMAIN more = DOMAIN outs \cup {n} /\ more[n] = out
      /\ \A k \in DOMAIN outs : more[k] = outs[k] /\ k # n
      /\ n \in Nat /\ \A k \in DOMAIN outs : k \in Nat /\ k < n
  BY DEF OneMore
<1>2. G = F \cup DOMAIN out
  BY <1>1
<1>3. \A f : B(f) = IF f \in DOMAIN out THEN A(f) \cup {n} ELSE A(f)
  BY <1>1
<1>4. \A f : A(f) # {} => Nearest(A(f)) \in DOMAIN outs
  <2> TAKE f
  <2>1. A(f) # {} => Nearest(A(f)) \in A(f)
    BY <1>1, NearestIn
  <2> QED BY <2>1
<1>5. \A f : Nearest(A(f) \cup {n}) = n
  BY <1>1, NearestIs
<1>6. Overlaid(base, outs) =
        [f \in F |-> IF A(f) = {} THEN base[f] ELSE outs[Nearest(A(f))][f]]
  BY DEF Overlaid, Nearest
<1>7. Overlaid(base, more) =
        [f \in G |-> IF B(f) = {} THEN base[f] ELSE more[Nearest(B(f))][f]]
  BY DEF Overlaid, Nearest
<1> HIDE DEF A, B, F, G
<1>8. ASSUME NEW f \in G
      PROVE  (IF B(f) = {} THEN base[f] ELSE more[Nearest(B(f))][f]) =
             IF f \in DOMAIN out THEN out[f]
             ELSE IF A(f) = {} THEN base[f] ELSE outs[Nearest(A(f))][f]
  <2>1. CASE f \in DOMAIN out
    <3>1. B(f) = A(f) \cup {n} /\ Nearest(B(f)) = n
      BY <1>3, <1>5, <2>1
    <3> QED BY <1>1, <2>1, <3>1
  <2>2. CASE f \notin DOMAIN out
    <3>1. B(f) = A(f)
      BY <1>3, <2>2
    <3> QED BY <1>1, <1>4, <2>2, <3>1
  <2> QED BY <2>1, <2>2
<1>9. Overlaid(base, more) =
        [f \in G |-> IF f \in DOMAIN out THEN out[f]
                     ELSE IF A(f) = {} THEN base[f] ELSE outs[Nearest(A(f))][f]]
  BY <1>7, <1>8
<1> QED BY <1>2, <1>6, <1>9 DEF Overlay
-----------------------------------------------------------------------------
(* Filtering.  The rank of a kept place is how many kept places are not    *)
(* after it: the kept places have all the ranks, each one once.            *)
Rank(K, k) == Cardinality({l \in K : l <= k})

LEMMA PlacesFinite ==
  ASSUME NEW n \in Nat, NEW K, K \subseteq 1..n
  PROVE  IsFiniteSet(K) /\ \A l \in K : l \in Int /\ 1 <= l /\ l <= n
PROOF
<1>1. IsFiniteSet(1..n) /\ K \in SUBSET (1..n)
  BY FS_Interval
<1>2. IsFiniteSet(K)
  BY <1>1, FS_Subset
<1>3. \A l \in 1..n : l \in Int /\ 1 <= l /\ l <= n
  OBVIOUS
<1> QED BY <1>1, <1>2, <1>3

Counts(K, k) ==
  /\ Rank(K, k) \in Nat /\ Rank(K, k - 1) \in Nat
  /\ Rank(K, k) = IF k \in K THEN Rank(K, k - 1) + 1 ELSE Rank(K, k - 1)

LEMMA RankGrows ==
  ASSUME NEW n \in Nat, NEW K, K \subseteq 1..n, NEW k \in 1..n
  PROVE  Counts(K, k)
PROOF
<1> DEFINE A == {l \in K : l <= k - 1}
           B == {l \in K : l <= k}
<1>1. IsFiniteSet(K) /\ A \in SUBSET K /\ \A l \in K : l \in Int
  BY PlacesFinite
<1>2. IsFiniteSet(A) /\ Cardinality(A) \in Nat
  BY <1>1, FS_Subset, FS_CardinalityType
<1>3. k \notin A
  OBVIOUS
<1>4. B = IF k \in K THEN A \cup {k} ELSE A
  <2>1. \A l \in K : l <= k <=> l <= k - 1 \/ l = k
    BY <1>1
  <2>2. \A l : l \in B <=> l \in A \/ (k \in K /\ l = k)
    BY <2>1
  <2> HIDE DEF A, B
  <2> QED BY <2>2
<1>5. Rank(K, k) = Cardinality(B) /\ Rank(K, k - 1) = Cardinality(A)
  BY DEF Rank
<1> HIDE DEF A, B
<1>6. Cardinality(A \cup {k}) = Cardinality(A) + 1
  BY <1>2, <1>3, FS_AddElement
<1> QED BY <1>2, <1>4, <1>5, <1>6 DEF Counts

LEMMA RankBounds ==
  ASSUME NEW n \in Nat, NEW K, K \subseteq 1..n
  PROVE  Rank(K, 0) = 0 /\ Rank(K, n) = Cardinality(K) /\ Cardinality(K) \in Nat
PROOF
<1>1. IsFiniteSet(K) /\ \A l \in K : l <= n /\ ~ l <= 0
  <2>1. IsFiniteSet(K) /\ \A l \in K : l \in Int /\ 1 <= l /\ l <= n
    BY PlacesFinite
  <2>2. \A l \in K : ~ l <= 0
    BY <2>1
  <2> QED BY <2>1, <2>2
<1>2. {l \in K : l <= 0} = {} /\ {l \in K : l <= n} = K
  BY <1>1
<1>3. Cardinality(K) \in Nat
  BY <1>1, FS_CardinalityType
<1> QED BY <1>2, <1>3, FS_EmptySet DEF Rank

LEMMA RankOrders ==
  ASSUME NEW n \in Nat, NEW K, K \subseteq 1..n, NEW j \in K, NEW k \in K, j < k
  PROVE  Rank(K, j) < Rank(K, k)
PROOF
<1> DEFINE A == {l \in K : l <= j}
           B == {l \in K : l <= k - 1}
<1>1. A \subseteq B /\ B \subseteq K
  <2>1. \A l \in K : l <= j => l <= k - 1
    BY PlacesFinite
  <2> QED BY <2>1
<1>2. IsFiniteSet(K)
  BY PlacesFinite
<1>3. IsFiniteSet(B)
  BY <1>1, <1>2, FS_Subset
<1>4. Cardinality(A) <= Cardinality(B)
  BY <1>1, <1>3, FS_Subset
<1>5. Rank(K, j) <= Rank(K, k - 1)
  BY <1>4 DEF Rank
<1>6. Rank(K, j) \in Nat /\ Rank(K, k - 1) \in Nat /\ Rank(K, k) = Rank(K, k - 1) + 1
  BY RankGrows DEF Counts
<1> QED BY <1>5, <1>6

LEMMA RankTaken ==
  ASSUME NEW n \in Nat, NEW K, K \subseteq 1..n, NEW j \in 1..Cardinality(K)
  PROVE  \E k \in K : Rank(K, k) = j
PROOF
<1>0. ASSUME NEW i \in 1..n
      PROVE  Counts(K, i)
  BY RankGrows
<1> DEFINE T == {k \in 0..n : j <= Rank(K, k)}
<1>1. Rank(K, 0) = 0 /\ Rank(K, n) = Cardinality(K) /\ Cardinality(K) \in Nat
  BY RankBounds
<1>2. n \in T /\ T \subseteq Nat
  BY <1>1
<1>3. PICK k \in T : \A l \in T : k <= l
  <2> HIDE DEF T
  <2> QED BY <1>2, LeastNatural
<1>4. k \in 1..n /\ k - 1 \in 0..n
  BY <1>1, <1>3
<1>5. k - 1 \notin T
  <2> HIDE DEF T
  <2> QED BY <1>3, <1>4
<1>6. Rank(K, k) \in Nat /\ Rank(K, k - 1) \in Nat
      /\ Rank(K, k) = IF k \in K THEN Rank(K, k - 1) + 1 ELSE Rank(K, k - 1)
  <2> HIDE DEF T
  <2> QED BY <1>4, <1>0 DEF Counts
<1>7. j <= Rank(K, k) /\ ~ j <= Rank(K, k - 1)
  BY <1>3, <1>4, <1>5
<1>8. k \in K /\ Rank(K, k) = j
  BY <1>6, <1>7
<1> QED BY <1>8

(* What is picked are the elements at the places given, and all of them    *)
(* when every place is.                                                    *)
LEMMA PickedIs ==
  ASSUME NEW S, NEW list \in Seq(S), NEW K, K \subseteq 1..Len(list)
  PROVE  /\ Picked(list, K) \in Seq(S) /\ Len(Picked(list, K)) = Cardinality(K)
         /\ {Picked(list, K)[j] : j \in 1..Len(Picked(list, K))} = {list[k] : k \in K}
         /\ K = 1..Len(list) => Picked(list, K) = list
PROOF
<1> DEFINE n == Len(list)
           m == Cardinality(K)
           at(j) == CHOOSE k \in K : Cardinality({l \in K : l <= k}) = j
           p == Picked(list, K)
<1>1. n \in Nat /\ K \subseteq 1..n /\ m \in Nat /\ \A k \in 1..n : list[k] \in S
  <2>1. n \in Nat /\ \A k \in 1..n : list[k] \in S
    OBVIOUS
  <2>2. m \in Nat
    <3> HIDE DEF m
    <3>1. Cardinality(K) \in Nat
      BY <2>1, RankBounds
    <3> QED BY <3>1 DEF m
  <2> QED BY <2>1, <2>2
<1>K. IsFiniteSet(K) /\ \A k \in K : k \in 1..n /\ k \in Int
  BY <1>1, PlacesFinite
<1>2. p = [j \in 1..m |-> list[at(j)]]
  BY DEF Picked
<1> HIDE DEF n, m, p
<1>3. ASSUME NEW j \in 1..m PROVE at(j) \in K /\ Rank(K, at(j)) = j
  <2>1. PICK k \in K : Rank(K, k) = j
    BY <1>1, RankTaken DEF m
  <2>2. Cardinality({l \in K : l <= k}) = j
    BY <2>1 DEF Rank
  <2>3. at(j) \in K /\ Cardinality({l \in K : l <= at(j)}) = j
    BY <2>2
  <2> QED BY <2>3 DEF Rank
<1>4. ASSUME NEW k \in K PROVE Rank(K, k) \in 1..m /\ at(Rank(K, k)) = k
  <2>1. Rank(K, k) \in Nat /\ Rank(K, k) >= 1
    <3>1. Rank(K, k) = Rank(K, k - 1) + 1 /\ Rank(K, k - 1) \in Nat
      BY <1>1, <1>K, RankGrows DEF Counts
    <3> QED BY <3>1
  <2>2. Rank(K, k) <= m
    <3>1. {l \in K : l <= k} \in SUBSET K
      OBVIOUS
    <3>2. Cardinality({l \in K : l <= k}) <= Cardinality(K)
      BY <1>K, <3>1, FS_Subset
    <3> QED BY <3>2 DEF Rank, m
  <2>3. Rank(K, k) \in 1..m
    BY <1>1, <2>1, <2>2
  <2> DEFINE l == at(Rank(K, k))
  <2>4. l \in K /\ Rank(K, l) = Rank(K, k)
    BY <1>3, <2>3
  <2> HIDE DEF l
  <2>5. ASSUME l < k PROVE FALSE
    <3>1. Rank(K, l) < Rank(K, k)
      BY <1>1, <2>4, <2>5, RankOrders
    <3> QED BY <2>1, <2>4, <3>1
  <2>6. ASSUME k < l PROVE FALSE
    <3>1. Rank(K, k) < Rank(K, l)
      BY <1>1, <2>4, <2>6, RankOrders
    <3> QED BY <2>1, <2>4, <3>1
  <2>7. l = k
    BY <1>K, <2>4, <2>5, <2>6
  <2> QED BY <2>3, <2>7 DEF l
<1> HIDE DEF at
<1>5. p \in Seq(S) /\ Len(p) = m
  <2>1. \A j \in 1..m : list[at(j)] \in S
    BY <1>1, <1>3
  <2> QED BY <1>1, <1>2, <2>1
<1>6. {p[j] : j \in 1..m} = {list[k] : k \in K}
  <2>1. ASSUME NEW k \in K PROVE \E j \in 1..m : p[j] = list[k]
    <3>1. Rank(K, k) \in 1..m /\ at(Rank(K, k)) = k
      BY <1>4
    <3>2. p[Rank(K, k)] = list[k]
      BY <1>2, <3>1
    <3> QED BY <3>1, <3>2
  <2>2. ASSUME NEW j \in 1..m PROVE \E k \in K : p[j] = list[k]
    BY <1>2, <1>3
  <2>3. {p[j] : j \in 1..m} \subseteq {list[k] : k \in K}
    BY <2>2
  <2>4. {list[k] : k \in K} \subseteq {p[j] : j \in 1..m}
    BY <2>1
  <2> QED BY <2>3, <2>4
<1>7. ASSUME K = 1..n PROVE p = list
  <2>1. m = n
    BY <1>1, <1>7, FS_Interval DEF m
  <2> DEFINE T == {k \in 0..n : Rank(K, k) = k}
  <2>2. \A k \in 0..n : k \in T
    <3>1. 0 \in T
      <4>1. Rank(K, 0) = 0
        <5> HIDE DEF T
        <5> QED BY <1>1, RankBounds
      <4> QED BY <1>1, <4>1
    <3>2. ASSUME NEW k \in 1..n, k - 1 \in T PROVE k \in T
      <4>1. Rank(K, k) = Rank(K, k - 1) + 1 /\ Rank(K, k - 1) = k - 1
        <5>1. Counts(K, k)
          <6> HIDE DEF T
          <6> QED BY <1>1, <3>2, RankGrows
        <5> QED BY <1>7, <3>2, <5>1 DEF Counts
      <4> QED BY <1>1, <4>1
    <3> HIDE DEF T
    <3> QED BY <1>1, <3>1, <3>2, UpTo
  <2>3. \A k \in 1..n : Rank(K, k) = k
    BY <1>1, <2>2
  <2>4. \A k \in 1..n : at(k) = k
    BY <1>4, <1>7, <2>3
  <2>5. p = [j \in 1..n |-> list[j]]
    BY <1>2, <2>1, <2>4
  <2> QED BY <2>5 DEF n
<1> QED BY <1>5, <1>6, <1>7 DEF n, m, p

-----------------------------------------------------------------------------
(* A function defined by recursion on 0..n: what a step makes of a place   *)
(* and of the value at the place before.                                   *)
Steps(f, S, g, a, n) ==
  f \in [0..n -> S] /\ \A k \in 0..n : f[k] = IF k = 0 THEN a ELSE g[k][f[k - 1]]

LEMMA Iterated ==
  ASSUME NEW S, NEW n \in Nat, NEW g \in [1..n -> [S -> S]], NEW a \in S
  PROVE  \E f : Steps(f, S, g, a, n)
PROOF
<1> DEFINE Is(f, m) == f \in [0..m -> S] /\ \A k \in 0..m : f[k] = IF k = 0 THEN a ELSE g[k][f[k - 1]]
           T == {m \in 0..n : \E f : Is(f, m)}
<1>1. 0 \in T
  <2>1. Is([k \in 0..0 |-> a], 0)
    OBVIOUS
  <2> HIDE DEF Is
  <2> QED BY <2>1
<1>2. ASSUME NEW m \in 1..n, m - 1 \in T PROVE m \in T
  <2>1. PICK f : Is(f, m - 1)
    BY <1>2
  <2> DEFINE h == [k \in 0..m |-> IF k = m THEN g[m][f[m - 1]] ELSE f[k]]
  <2>2. m - 1 \in 0..(m - 1) /\ \A k \in 0..(m - 1) : f[k] \in S /\ h[k] = f[k]
    BY <2>1
  <2>3. h \in [0..m -> S]
    <3>1. g[m][f[m - 1]] \in S
      BY <2>2
    <3>2. \A k \in 0..m : k # m => k \in 0..(m - 1)
      OBVIOUS
    <3> QED BY <2>2, <3>1, <3>2
  <2>4. ASSUME NEW k \in 0..m PROVE h[k] = IF k = 0 THEN a ELSE g[k][h[k - 1]]
    <3>1. CASE k = m
      BY <2>2, <3>1
    <3>2. CASE k # m /\ k # 0
      <4>1. k \in 0..(m - 1) /\ k - 1 \in 0..(m - 1)
        BY <3>2
      <4> HIDE DEF h
      <4> QED BY <2>1, <2>2, <3>2, <4>1
    <3>3. CASE k # m /\ k = 0
      BY <2>1, <2>2, <3>3
    <3> QED BY <3>1, <3>2, <3>3
  <2>5. Is(h, m)
    <3> HIDE DEF h
    <3> QED BY <2>3, <2>4
  <2> HIDE DEF Is, h
  <2> QED BY <2>5
<1>3. n \in T
  <2> HIDE DEF T
  <2>1. \A k \in 0..n : k \in T
    BY <1>1, <1>2, UpTo
  <2> QED BY <2>1
<1> QED BY <1>3 DEF Steps

(* The sets a closure goes through, level by level.                        *)
LevelsFrom(far, A, next, n) ==
  \A k \in 0..n : far[k] = IF k = 0 THEN A ELSE far[k - 1] \cup (UNION {next[x] : x \in far[k - 1]})

LEMMA LevelsExist ==
  ASSUME NEW T, NEW next \in [T -> SUBSET T], NEW A \in SUBSET T, NEW n \in Nat
  PROVE  \E far : far \in [0..n -> SUBSET T] /\ LevelsFrom(far, A, next, n)
PROOF
<1> DEFINE S == SUBSET T
           g == [k \in 1..n |-> [B \in S |-> B \cup (UNION {next[x] : x \in B})]]
<1>1. g \in [1..n -> [S -> S]] /\ A \in S
  <2>1. ASSUME NEW B \in S PROVE B \cup (UNION {next[x] : x \in B}) \in S
    OBVIOUS
  <2> QED BY <2>1
<1>2. PICK far : Steps(far, S, g, A, n)
  <2> HIDE DEF S, g
  <2> QED BY <1>1, Iterated
<1>3. ASSUME NEW k \in 0..n, k # 0
      PROVE  far[k - 1] \in S /\ g[k][far[k - 1]] = far[k - 1] \cup (UNION {next[x] : x \in far[k - 1]})
  <2>1. k \in 1..n /\ k - 1 \in 0..n
    BY <1>3
  <2>2. far[k - 1] \in S
    <3> HIDE DEF S, g
    <3> QED BY <1>2, <2>1 DEF Steps
  <2> QED BY <2>1, <2>2
<1>4. far \in [0..n -> S] /\ LevelsFrom(far, A, next, n)
  <2> HIDE DEF S, g
  <2> QED BY <1>2, <1>3 DEF Steps, LevelsFrom
<1> QED BY <1>4

(* There are no more ids than nodes.                                       *)
LEMMA NodeIDsBounded ==
  ASSUME NEW w, NEW N, w.nodes \in Seq(N)
  PROVE  IsFiniteSet(NodeIDs(w)) /\ Cardinality(NodeIDs(w)) \in Nat
         /\ Cardinality(NodeIDs(w)) <= Len(w.nodes)
PROOF
<1> DEFINE n == Len(w.nodes)
           f == [k \in 1..n |-> w.nodes[k].id]
<1>1. n \in Nat
  OBVIOUS
<1>2. f \in Surjection(1..n, NodeIDs(w))
  BY DEF Surjection, NodeIDs, NodesOf
<1>3. IsFiniteSet(1..n) /\ Cardinality(1..n) = n
  <2> HIDE DEF n, f
  <2>1. 1 \in Int /\ n \in Int
    BY <1>1
  <2>2. IsFiniteSet(1..n) /\ Cardinality(1..n) = IF 1 > n THEN 0 ELSE n - 1 + 1
    BY <2>1, FS_Interval
  <2> QED BY <1>1, <2>2
<1>4. IsFiniteSet(NodeIDs(w)) /\ Cardinality(NodeIDs(w)) <= Cardinality(1..n)
  <2> HIDE DEF f, n
  <2> QED BY <1>2, <1>3, FS_Surjection
<1> QED BY <1>3, <1>4, FS_CardinalityType

(* When no more than n ids lead anywhere, a level that adds nothing is     *)
(* reached within n steps: the last one is the least set that holds A and  *)
(* what its members lead to.                                               *)
LEMMA LevelsClose ==
  ASSUME NEW T, NEW next \in [T -> SUBSET T], NEW A \in SUBSET T, NEW n \in Nat,
         NEW D, IsFiniteSet(D), Cardinality(D) <= n, \A x \in T \ D : next[x] = {},
         NEW far, far \in [0..n -> SUBSET T], LevelsFrom(far, A, next, n)
  PROVE  /\ A \subseteq far[n]
         /\ \A x \in far[n] : x \in T /\ next[x] \subseteq far[n]
         /\ \A C : A \subseteq C /\ (\A x \in C \cap T : next[x] \subseteq C) => far[n] \subseteq C
PROOF
<1>2. /\ far[0] = A
      /\ \A k \in 1..n : k - 1 \in 0..n /\ far[k - 1] \subseteq T
                        /\ far[k] = far[k - 1] \cup (UNION {next[x] : x \in far[k - 1]})
  BY DEF LevelsFrom
<1>3. \A k \in 1..n : far[k - 1] \subseteq far[k] /\ \A x \in far[k - 1] : next[x] \subseteq far[k]
  BY <1>2
<1>4. \A j, k \in 0..n : j <= k => far[j] \subseteq far[k]
  <2> SUFFICES ASSUME NEW j \in 0..n PROVE \A k \in 0..n : j <= k => far[j] \subseteq far[k]
    OBVIOUS
  <2> DEFINE U == {k \in 0..n : j <= k => far[j] \subseteq far[k]}
  <2>1. 0 \in U
    OBVIOUS
  <2>2. ASSUME NEW k \in 1..n, k - 1 \in U PROVE k \in U
    <3>1. CASE j = k
      BY <3>1
    <3>2. CASE j <= k - 1
      BY <1>3, <2>2, <3>2
    <3> QED BY <3>1, <3>2
  <2> HIDE DEF U
  <2>3. \A k \in 0..n : k \in U
    BY <2>1, <2>2, UpTo
  <2> QED BY <2>3 DEF U
<1>5. A \subseteq far[n]
  BY <1>2, <1>4
<1>6. ASSUME NEW C, A \subseteq C, \A x \in C \cap T : next[x] \subseteq C PROVE far[n] \subseteq C
  <2> DEFINE U == {k \in 0..n : far[k] \subseteq C}
  <2>1. 0 \in U
    BY <1>2, <1>6
  <2>2. ASSUME NEW k \in 1..n, k - 1 \in U PROVE k \in U
    <3>1. /\ far[k - 1] \subseteq C /\ far[k - 1] \subseteq T
          /\ far[k] = far[k - 1] \cup (UNION {next[x] : x \in far[k - 1]})
      BY <1>2, <2>2
    <3>2. far[k] \subseteq C
      BY <1>6, <3>1
    <3> QED BY <3>2
  <2> HIDE DEF U
  <2>3. \A k \in 0..n : k \in U
    BY <2>1, <2>2, UpTo
  <2> QED BY <2>3 DEF U
<1>7. ASSUME NEW x \in far[n], NEW y \in next[x], y \notin far[n] PROVE FALSE
  <2> DEFINE Fresh(k) == {z \in far[k] : z \in D /\ \A j \in 0..n : j < k => z \notin far[j]}
             U == {k \in 0..n : \E z : z \in Fresh(n - k)}
  <2>1. 0 \in U
    <3>1. x \in D
      BY <1>7
    <3>2. ASSUME NEW j \in 0..n, j < n, x \in far[j] PROVE FALSE
      <4>1. j + 1 \in 1..n /\ (j + 1) - 1 = j
        BY <3>2
      <4>2. y \in far[j + 1]
        BY <1>3, <1>7, <3>2, <4>1
      <4> QED BY <1>4, <1>7, <4>1, <4>2
    <3>3. x \in Fresh(n - 0)
      BY <1>7, <3>1, <3>2
    <3> QED BY <3>3
  <2>2. ASSUME NEW k \in 1..n, k - 1 \in U PROVE k \in U
    <3> DEFINE m == n - (k - 1)
    <3>1. m \in 1..n /\ m - 1 = n - k /\ m - 1 \in 0..n
      OBVIOUS
    <3>2. PICK z : z \in Fresh(m)
      BY <2>2
    <3> HIDE DEF m
    <3>3. z \in far[m] /\ z \notin far[m - 1]
      BY <3>1, <3>2
    <3>4. PICK u \in far[m - 1] : z \in next[u]
      BY <1>2, <3>1, <3>3
    <3>5. u \in D
      BY <1>2, <3>1, <3>4
    <3>6. ASSUME NEW j \in 0..n, j < m - 1, u \in far[j] PROVE FALSE
      <4>1. j + 1 \in 1..n /\ (j + 1) - 1 = j /\ j + 1 < m
        BY <3>1, <3>6
      <4>2. z \in far[j + 1]
        BY <1>3, <3>4, <3>6, <4>1
      <4> QED BY <3>2, <4>1, <4>2
    <3>7. u \in Fresh(m - 1)
      BY <3>4, <3>5, <3>6
    <3> QED BY <3>1, <3>7
  <2>3. \A k \in 0..n : k \in U
    <3> HIDE DEF U
    <3> QED BY <2>1, <2>2, UpTo
  <2>4. ASSUME NEW k \in 0..n PROVE \E z : z \in Fresh(k)
    <3>1. n - k \in 0..n /\ n - (n - k) = k
      OBVIOUS
    <3> HIDE DEF Fresh
    <3>2. \E z : z \in Fresh(n - (n - k))
      BY <2>3, <3>1
    <3> QED BY <3>1, <3>2
  <2> DEFINE f == [k \in 0..n |-> CHOOSE z : z \in Fresh(k)]
  <2>5. \A k \in 0..n : f[k] \in Fresh(k)
    <3> HIDE DEF Fresh
    <3> QED BY <2>4
  <2>6. f \in [0..n -> D]
    BY <2>5
  <2>7. ASSUME NEW j \in 0..n, NEW k \in 0..n, j < k PROVE f[j] # f[k]
    <3> HIDE DEF f
    <3> QED BY <2>5, <2>7
  <2>8. f \in Injection(0..n, D)
    <3> HIDE DEF f
    <3>1. ASSUME NEW j \in 0..n, NEW k \in 0..n, f[j] = f[k] PROVE j = k
      BY <2>7, <3>1
    <3> QED BY <2>6, <3>1 DEF Injection, IsInjective
  <2>9. IsFiniteSet(D) /\ Cardinality(D) \in Nat /\ Cardinality(D) <= n
    BY FS_CardinalityType
  <2>10. Cardinality(0..n) <= Cardinality(D)
    <3> HIDE DEF f
    <3> QED BY <2>8, <2>9, FS_Injection
  <2>11. Cardinality(0..n) = n + 1
    BY FS_Interval
  <2> QED BY <2>9, <2>10, <2>11
<1> QED BY <1>5, <1>6, <1>7

-----------------------------------------------------------------------------

(* Walk is the last of the levels from what it starts from.                *)
Near(w, seen)    == seen \cup UNION {Children(w, x) : x \in NodeIDs(w)}
NextIds(w, seen) == [x \in Near(w, seen) |-> Children(w, x)]

LEMMA WalkLevels ==
  ASSUME NEW w, IsParsed(w), NEW seen
  PROVE  \E f : /\ f \in [0..Len(w.nodes) -> SUBSET Near(w, seen)]
                /\ LevelsFrom(f, seen, NextIds(w, seen), Len(w.nodes))
                /\ Walk(w, seen) = f[Len(w.nodes)]
                /\ f[0] = seen
                /\ \A k \in 1..Len(w.nodes) :
                     f[k] = f[k - 1] \cup UNION {Children(w, x) : x \in f[k - 1]}
PROOF
<1> DEFINE n == Len(w.nodes)
           T == Near(w, seen)
           next == NextIds(w, seen)
           Is(f) == f = [k \in 0..n |-> IF k = 0 THEN seen ELSE f[k - 1] \cup UNION {Children(w, x) : x \in f[k - 1]}]
<1>1. n \in Nat /\ w.nodes \in Seq({w.nodes[k] : k \in DOMAIN w.nodes})
  BY LenProperties DEF IsParsed, IsList
<1>2. /\ next \in [T -> SUBSET T] /\ seen \in SUBSET T
      /\ \A x : x \notin NodeIDs(w) => Children(w, x) = {}
      /\ \A x : Children(w, x) \subseteq T
  BY DEF Children, Defined, Near, NextIds
<1> HIDE DEF n
<1>3. PICK f : f \in [0..n -> SUBSET T] /\ LevelsFrom(f, seen, next, n)
  <2> DEFINE A == seen
  <2> HIDE DEF T, next, A
  <2>1. A \in SUBSET T
    BY <1>2 DEF A
  <2>2. \E f : f \in [0..n -> SUBSET T] /\ LevelsFrom(f, A, next, n)
    BY <1>1, <1>2, <2>1, LevelsExist
  <2> QED BY <2>2 DEF A
<1>4. ASSUME NEW B \in SUBSET T PROVE UNION {next[x] : x \in B} = UNION {Children(w, x) : x \in B}
  BY DEF NextIds
<1>5. Is(f)
  <2> HIDE DEF T, next
  <2>1. ASSUME NEW k \in 0..n, k # 0 PROVE f[k] = f[k - 1] \cup UNION {Children(w, x) : x \in f[k - 1]}
    <3>1. k - 1 \in 0..n /\ f[k - 1] \in SUBSET T
      BY <1>1, <1>3, <2>1
    <3> QED BY <1>3, <1>4, <2>1, <3>1 DEF LevelsFrom
  <2>2. 0 \in 0..n /\ f[0] = seen
    BY <1>1, <1>3 DEF LevelsFrom
  <2> QED BY <1>3, <2>1, <2>2
<1> DEFINE far == CHOOSE far : Is(far)
           U == {k \in 0..n : far[k] \subseteq T}
<1>6. Is(far)
  <2> HIDE DEF Is
  <2> QED BY <1>5
<1>7. Walk(w, seen) = far[n]
  BY DEF Walk, n
<1> HIDE DEF far
<1>8. 0 \in U /\ \A k \in 1..n : k - 1 \in U => k \in U
  <2>1. 0 \in U
    BY <1>1, <1>2, <1>6
  <2>2. ASSUME NEW k \in 1..n, far[k - 1] \subseteq T PROVE far[k] \subseteq T
    <3>1. far[k] = far[k - 1] \cup UNION {Children(w, x) : x \in far[k - 1]}
      BY <1>1, <1>6
    <3>2. \A x \in T : Children(w, x) \subseteq T
      BY <1>2
    <3> HIDE DEF T
    <3> QED BY <2>2, <3>1, <3>2
  <2> HIDE DEF T, Is
  <2> QED BY <1>1, <2>1, <2>2
<1>9. \A k \in 0..n : far[k] \in SUBSET T
  <2> HIDE DEF U
  <2>1. \A k \in 0..n : k \in U
    BY <1>1, <1>8, UpTo
  <2> QED BY <2>1 DEF U
<1>10. far \in [0..n -> SUBSET T] /\ LevelsFrom(far, seen, next, n)
  <2>1. ASSUME NEW k \in 0..n, k # 0 PROVE far[k] = far[k - 1] \cup (UNION {next[x] : x \in far[k - 1]})
    <3>1. k - 1 \in 0..n /\ far[k - 1] \in SUBSET T
      BY <1>1, <1>9, <2>1
    <3>2. far[k] = far[k - 1] \cup UNION {Children(w, x) : x \in far[k - 1]}
      BY <1>6, <2>1
    <3> HIDE DEF T, next
    <3> QED BY <1>4, <3>1, <3>2
  <2>2. far[0] = seen /\ 0 \in 0..n
    BY <1>1, <1>6
  <2>3. far \in [0..n -> SUBSET T]
    <3> HIDE DEF T
    <3> QED BY <1>6, <1>9
  <2> HIDE DEF T, next, Is
  <2> QED BY <2>1, <2>2, <2>3 DEF LevelsFrom
<1>11. far[0] = seen /\ \A k \in 1..n : far[k] = far[k - 1] \cup UNION {Children(w, x) : x \in far[k - 1]}
  BY <1>1, <1>6
<1> HIDE DEF T, next, Is
<1> QED BY <1>7, <1>10, <1>11 DEF n, T, next

(* Walk is the least set that holds what it starts from and the children   *)
(* of its members.                                                         *)
LEMMA WalkIs ==
  ASSUME NEW w, IsParsed(w), NEW seen
  PROVE  /\ seen \subseteq Walk(w, seen)
         /\ \A x \in Walk(w, seen) : Children(w, x) \subseteq Walk(w, seen)
         /\ \A C : seen \subseteq C /\ (\A x \in C : Children(w, x) \subseteq C) => Walk(w, seen) \subseteq C
PROOF
<1> DEFINE n == Len(w.nodes)
           T == Near(w, seen)
           next == NextIds(w, seen)
<1>1. n \in Nat
  BY LenProperties DEF IsParsed, IsList
<1>2. /\ next \in [T -> SUBSET T] /\ seen \in SUBSET T
      /\ \A y : y \notin NodeIDs(w) => Children(w, y) = {}
      /\ \A y \in T : next[y] = Children(w, y)
  BY DEF Children, Defined, Near, NextIds
<1>3. PICK far \in [0..n -> SUBSET T] : LevelsFrom(far, seen, next, n) /\ Walk(w, seen) = far[n]
  BY WalkLevels
<1>4. /\ seen \subseteq far[n]
      /\ \A x \in far[n] : x \in T /\ next[x] \subseteq far[n]
      /\ \A C : seen \subseteq C /\ (\A x \in C \cap T : next[x] \subseteq C) => far[n] \subseteq C
  <2> DEFINE A == seen
             D == NodeIDs(w)
  <2>1. A \in SUBSET T /\ \A x \in T \ D : next[x] = {}
    BY <1>2
  <2>2. IsFiniteSet(D) /\ Cardinality(D) <= n
    BY NodeIDsBounded DEF n, IsParsed, IsList
  <2>3. LevelsFrom(far, A, next, n)
    BY <1>3
  <2> HIDE DEF T, next, D, n
  <2>4. /\ A \subseteq far[n]
        /\ \A x \in far[n] : x \in T /\ next[x] \subseteq far[n]
        /\ \A C : A \subseteq C /\ (\A x \in C \cap T : next[x] \subseteq C) => far[n] \subseteq C
    <3> HIDE DEF A
    <3> QED BY <1>1, <1>2, <1>3, <2>1, <2>2, <2>3, LevelsClose
  <2> QED BY <2>4
<1> HIDE DEF T, next
<1> QED BY <1>2, <1>3, <1>4


(* What is on a path.                                                      *)
LEMMA PathsFrom ==
  ASSUME NEW w, IsParsed(w), NEW a
  PROVE  /\ \A c \in Children(w, a) : OnPath(w, a, c)
         /\ \A b : OnPath(w, a, b) => \A c \in Children(w, b) : OnPath(w, a, c)
         /\ \A C : Children(w, a) \subseteq C /\ (\A x \in C : Children(w, x) \subseteq C) =>
                     \A b : OnPath(w, a, b) => b \in C
BY WalkIs DEF OnPath

(* The successors of a node are listed, and mentioned.                     *)
SuccsOf(w, x) == Successors(NodeMap(w)[x])

LEMMA SuccessorsListed ==
  ASSUME NEW w, IsParsed(w), NEW n \in NodesOf(w)
  PROVE  /\ Len(Successors(n)) \in Nat
         /\ Successors(n) \in Seq(Mentioned(w))
         /\ \A i \in 1..Len(Successors(n)) : Successors(n)[i] \in Mentioned(w)
PROOF
<1>1. Len(n.branches) \in Nat
  BY ParsedNodes
<1>2. Len(Successors(n)) \in Nat /\ DOMAIN Successors(n) = 1..Len(Successors(n))
      /\ Successors(n) = [i \in 1..Len(Successors(n)) |-> Successors(n)[i]]
  <2>1. CASE n.type = "filter"
    <3>1. Successors(n) = [i \in 1..Len(n.branches) |-> n.branches[i].next]
      BY <2>1 DEF Successors
    <3>2. Len(Successors(n)) = Len(n.branches)
      BY <1>1, <3>1
    <3> QED BY <1>1, <3>1, <3>2
  <2>2. CASE n.type # "filter"
    BY <2>2 DEF Successors
  <2> QED BY <2>1, <2>2
<1>3. ASSUME NEW i \in 1..Len(Successors(n)) PROVE Successors(n)[i] \in Mentioned(w)
  <2>1. <<n.id, i, Successors(n)[i]>> \in Edges(w)
    BY DEF Edges
  <2>2. <<n.id, i, Successors(n)[i]>>[3] = Successors(n)[i]
    OBVIOUS
  <2> QED BY <2>1, <2>2 DEF Mentioned
<1>4. Successors(n) \in Seq(Mentioned(w))
  <2> DEFINE S == Mentioned(w)
             s == Successors(n)
  <2> HIDE DEF S, s
  <2>1. s = [i \in 1..Len(s) |-> s[i]] /\ Len(s) \in Nat /\ \A i \in 1..Len(s) : s[i] \in S
    BY <1>2, <1>3 DEF s, S
  <2>2. s \in Seq(S)
    BY <2>1
  <2> QED BY <2>2 DEF S, s
<1> QED BY <1>2, <1>3, <1>4

LEMMA SuccessorsOf ==
  ASSUME NEW w, IsParsed(w), NEW x \in NodeIDs(w)
  PROVE  /\ Len(SuccsOf(w, x)) \in Nat
         /\ Children(w, x) = {SuccsOf(w, x)[i] : i \in 1..Len(SuccsOf(w, x))}
         /\ \A i \in 1..Len(SuccsOf(w, x)) : SuccsOf(w, x)[i] \in Mentioned(w)
BY ParsedNodes, SuccessorsListed DEF SuccsOf, Children, Defined

-----------------------------------------------------------------------------
(* The steps of the search on its state.                                   *)
States(A, B, C) == [gray : SUBSET A, black : SUBSET B, cycles : SUBSET C, found : BOOLEAN]

LEMMA GraySet ==
  ASSUME NEW A, NEW B, NEW C, NEW s \in States(A, B, C), NEW g \in SUBSET A, NEW t, t = [s EXCEPT !.gray = g]
  PROVE  t \in States(A, B, C) /\ t.gray = g /\ t.black = s.black /\ t.cycles = s.cycles /\ t.found = s.found
BY DEF States

LEMMA FoundReset ==
  ASSUME NEW A, NEW B, NEW C, NEW s \in States(A, B, C), NEW t, t = [s EXCEPT !.found = FALSE]
  PROVE  /\ t \in States(A, B, C)
         /\ t.gray = s.gray /\ t.black = s.black /\ t.cycles = s.cycles /\ ~ t.found
BY DEF States

LEMMA StateTyped ==
  ASSUME NEW w, NEW s \in Searches(w)
  PROVE  s.gray \in SUBSET Mentioned(w) /\ s.black \in SUBSET NodeIDs(w) /\ s.found \in BOOLEAN
BY DEF Searches

LEMMA CyclesTyped ==
  ASSUME NEW w, NEW s \in Searches(w)
  PROVE  s.cycles \subseteq {"cycle"} \X NodeIDs(w) \X Mentioned(w)
PROOF
<1> DEFINE C == {"cycle"} \X NodeIDs(w) \X Mentioned(w)
<1>1. s \in States(Mentioned(w), NodeIDs(w), C)
  BY DEF Searches, States
<1> HIDE DEF C
<1>2. s.cycles \in SUBSET C
  BY <1>1 DEF States
<1> QED BY <1>2 DEF C

LEMMA GrayedIs ==
  ASSUME NEW w, NEW s \in Searches(w), NEW to \in Mentioned(w)
  PROVE  /\ Grayed(s, to) \in Searches(w)
         /\ Grayed(s, to).gray = s.gray \cup {to} /\ Grayed(s, to).black = s.black
         /\ Grayed(s, to).cycles = s.cycles /\ Grayed(s, to).found = s.found
PROOF
<1> DEFINE M == Mentioned(w)
           D == NodeIDs(w)
           C == {"cycle"} \X NodeIDs(w) \X Mentioned(w)
           g == s.gray \cup {to}
<1>1. Searches(w) = States(M, D, C) /\ g \in SUBSET M
  BY StateTyped DEF Searches, States
<1>2. Grayed(s, to) = [s EXCEPT !.gray = g]
  BY DEF Grayed
<1> HIDE DEF M, D, C, g
<1>3. LET t == Grayed(s, to)
      IN t \in States(M, D, C) /\ t.gray = g /\ t.black = s.black /\ t.cycles = s.cycles /\ t.found = s.found
  BY <1>1, <1>2, GraySet
<1> QED BY <1>1, <1>3 DEF g

LEMMA BlackenedIs ==
  ASSUME NEW w, NEW s \in Searches(w), NEW id \in NodeIDs(w)
  PROVE  /\ Blackened(s, id) \in Searches(w)
         /\ Blackened(s, id).gray = s.gray \ {id} /\ Blackened(s, id).black = s.black \cup {id}
         /\ Blackened(s, id).cycles = s.cycles /\ ~ Blackened(s, id).found
BY DEF Searches, Blackened

LEMMA CycleFoundIs ==
  ASSUME NEW w, NEW s \in Searches(w), NEW id \in NodeIDs(w), NEW to \in Mentioned(w)
  PROVE  /\ CycleFound(s, id, to) \in Searches(w)
         /\ s.cycles \subseteq CycleFound(s, id, to).cycles /\ CycleFound(s, id, to).cycles # {}
         /\ CycleFound(s, id, to).found
PROOF
<1> DEFINE M == Mentioned(w)
           D == NodeIDs(w)
           C == {"cycle"} \X NodeIDs(w) \X Mentioned(w)
           c == s.cycles \cup {<<"cycle", id, to>>}
<1>1. Searches(w) = States(M, D, C) /\ <<"cycle", id, to>> \in C
  BY DEF Searches, States
<1>2. CycleFound(s, id, to) = [gray |-> s.gray, black |-> s.black, cycles |-> c, found |-> TRUE]
  BY DEF CycleFound
<1> HIDE DEF M, D, C
<1>3. s.gray \in SUBSET M /\ s.black \in SUBSET D /\ s.cycles \in SUBSET C
  BY <1>1 DEF States
<1>4. c \in SUBSET C /\ s.cycles \subseteq c /\ c # {}
  BY <1>1, <1>3
<1> HIDE DEF c
<1>5. LET t == CycleFound(s, id, to)
      IN t \in States(M, D, C) /\ t.cycles = c /\ t.found
  BY <1>1, <1>2, <1>3, <1>4 DEF States
<1> QED BY <1>1, <1>4, <1>5

-----------------------------------------------------------------------------
(* The arcs the search follows, by their ids and places.                   *)
Arcs(w)        == UNION {{<<x, i>> : i \in 1..Len(SuccsOf(w, x))} : x \in NodeIDs(w)}
ArcsOf(w, B)   == {e \in Arcs(w) : e[1] \in B}
Looked(id, i)  == {<<id, j>> : j \in 1..i}
Target(w, e)   == SuccsOf(w, e[1])[e[2]]
Twice(w, e, f) == e # f /\ Target(w, e) = Target(w, f) /\ Target(w, e) \notin NodeIDs(w)
Faulty(w)      == HasCycle(w) \/ \E e, f \in Arcs(w) : Twice(w, e, f)

(* What holds of a search that has found nothing when it has looked at the *)
(* arcs Q: black ids are done with, and the undefined ids it came to are   *)
(* gray, each by one arc.                                                  *)
Clean(w, s, Q) ==
  /\ Q \subseteq Arcs(w)
  /\ s.gray \cap s.black = {}
  /\ \A e \in Q : e[1] \in s.gray \cup s.black /\ Target(w, e) \in NodeIDs(w) \cup s.gray
  /\ \A u \in s.gray \ NodeIDs(w) : \E e \in Q : Target(w, e) = u
  /\ \A e, f \in Q : ~ Twice(w, e, f)
  /\ \A b \in s.black : Children(w, b) \subseteq s.black \cup (s.gray \ NodeIDs(w)) /\ ~ OnPath(w, b, b)

White(w, s) == NodeIDs(w) \ (s.gray \cup s.black)

(* ToSearch dfs is called with a white id that everything on the path leads  *)
(* to, and after it: t is what it makes of s.                              *)
ToSearch(w, s, Q, id, k) ==
  /\ Clean(w, s, Q) /\ ~ s.found /\ id \in White(w, s)
  /\ \A x \in s.gray \cap NodeIDs(w) : OnPath(w, x, id)
  /\ Cardinality(White(w, s)) <= k

Detected(w, t) == t.found /\ Faulty(w) /\ t.cycles # {}
Passed(w, s, Q, id, t) ==
  /\ ~ t.found /\ t.cycles = s.cycles /\ id \in t.black
  /\ t.gray \cap NodeIDs(w) = s.gray \cap NodeIDs(w)
  /\ s.gray \subseteq t.gray /\ s.black \subseteq t.black
  /\ Clean(w, t, Q \cup ArcsOf(w, t.black \ s.black))

(* What calls does of any id, k being the white ids it is made for.        *)
Searching(w, calls, k) ==
  /\ calls \in [Mentioned(w) -> [Searches(w) -> Searches(w)]]
  /\ \A id \in Mentioned(w), s \in Searches(w) : s.cycles \subseteq calls[id][s].cycles
  /\ \A id \in Mentioned(w) \ NodeIDs(w), s \in Searches(w) : calls[id][s] = Grayed(s, id)
  /\ \A id \in NodeIDs(w), s \in Searches(w) : \A Q : ToSearch(w, s, Q, id, k) =>
       Detected(w, calls[id][s]) \/ Passed(w, s, Q, id, calls[id][s])

LEMMA LookTyped ==
  ASSUME NEW w, IsParsed(w), NEW calls \in [Mentioned(w) -> [Searches(w) -> Searches(w)]],
         NEW id \in NodeIDs(w), NEW to \in Mentioned(w), NEW s \in Searches(w),
         \A x \in Mentioned(w), t \in Searches(w) : t.cycles \subseteq calls[x][t].cycles
  PROVE  Look(calls, id, to, s) \in Searches(w) /\ s.cycles \subseteq Look(calls, id, to, s).cycles
PROOF
<1> DEFINE f == CycleFound(s, id, to)
<1>1. f \in Searches(w) /\ s.cycles \subseteq f.cycles
  BY CycleFoundIs
<1>2. calls[to][s] \in Searches(w) /\ s.cycles \subseteq calls[to][s].cycles
  OBVIOUS
<1> HIDE DEF f
<1>3. Look(calls, id, to, s) = s \/ Look(calls, id, to, s) = f \/ Look(calls, id, to, s) = calls[to][s]
  BY DEF Look, f
<1> QED BY <1>1, <1>2, <1>3

(* The i-th successor is looked at.  s is the search as id was entered.    *)
Scanned(w, s, Q, id, i, t) ==
  /\ ~ t.found /\ t.cycles = s.cycles
  /\ t.gray \cap NodeIDs(w) = (s.gray \cap NodeIDs(w)) \cup {id}
  /\ s.gray \subseteq t.gray /\ s.black \subseteq t.black
  /\ \A j \in 1..i : SuccsOf(w, id)[j] \in t.black \cup (t.gray \ NodeIDs(w))
  /\ Clean(w, t, Q \cup ArcsOf(w, t.black \ s.black) \cup Looked(id, i))

LEMMA LookScans ==
  ASSUME NEW w, IsParsed(w), NEW k \in Nat, NEW calls, Searching(w, calls, k),
         NEW s \in Searches(w), NEW Q, NEW id, ToSearch(w, s, Q, id, k + 1),
         NEW i \in 1..Len(SuccsOf(w, id)), NEW t \in Searches(w), Scanned(w, s, Q, id, i - 1, t)
  PROVE  LET u == Look(calls, id, SuccsOf(w, id)[i], t)
         IN Detected(w, u) \/ Scanned(w, s, Q, id, i, u)
PROOF
<1> DEFINE to == SuccsOf(w, id)[i]
           u  == Look(calls, id, to, t)
           arc == <<id, i>>
           P(x) == Q \cup ArcsOf(w, x.black \ s.black)
           R(x, j) == P(x) \cup Looked(id, j)
           D == NodeIDs(w)
<1>1. /\ id \in D /\ id \notin s.gray \cup s.black /\ Clean(w, s, Q)
      /\ \A x \in s.gray \cap D : OnPath(w, x, id)
  BY DEF ToSearch, White
<1>2. /\ to \in Mentioned(w) /\ to \in Children(w, id)
      /\ arc \in Arcs(w) /\ arc[1] = id /\ Target(w, arc) = to
  BY <1>1, SuccessorsOf DEF Arcs, Target
<1>3. /\ ~ t.found /\ t.cycles = s.cycles /\ t.gray \cap D = (s.gray \cap D) \cup {id}
      /\ s.gray \subseteq t.gray /\ s.black \subseteq t.black
      /\ \A j \in 1..(i - 1) : SuccsOf(w, id)[j] \in t.black \cup (t.gray \ D)
      /\ Clean(w, t, R(t, i - 1))
  BY DEF Scanned
<1>4. t.gray \in SUBSET Mentioned(w) /\ t.black \in SUBSET D /\ s.black \in SUBSET D
  BY <1>1, StateTyped DEF ToSearch, D
<1>5. Len(SuccsOf(w, id)) \in Nat /\ i \in Nat /\ Looked(id, i) = Looked(id, i - 1) \cup {arc} /\ arc \notin Looked(id, i - 1)
  <2>1. Len(SuccsOf(w, id)) \in Nat
    BY <1>1, SuccessorsOf
  <2> QED BY <2>1 DEF Looked
<1>6. arc \notin R(t, i - 1)
  <2>1. arc \notin Q
    BY <1>1, <1>2 DEF Clean
  <2>2. id \notin t.black
    BY <1>1, <1>3 DEF Clean
  <2> QED BY <1>2, <1>5, <2>1, <2>2 DEF ArcsOf
<1>7. \A x \in t.gray \cap D : OnPath(w, x, to)
  BY <1>1, <1>2, <1>3, PathsFrom
<1>8. \A x : R(x, i) = R(x, i - 1) \cup {arc}
  BY <1>5
<1> HIDE DEF to, u, arc, P, R, D
<1>9. CASE to \in t.gray
  <2>1. u = CycleFound(t, id, to)
    BY <1>3, <1>9 DEF u, Look
  <2>2. u.found /\ u.cycles # {}
    <3>1. id \in NodeIDs(w) /\ to \in Mentioned(w)
      BY <1>1, <1>2 DEF D
    <3> QED BY <2>1, <3>1, CycleFoundIs
  <2>3. Faulty(w)
    <3>1. CASE to \in D
      <4>1. OnPath(w, to, to)
        BY <1>7, <1>9, <3>1
      <4> QED BY <3>1, <4>1 DEF Faulty, HasCycle, D
    <3>2. CASE to \notin D
      <4>1. PICK e \in R(t, i - 1) : Target(w, e) = to
        BY <1>3, <1>9, <3>2 DEF Clean, D
      <4>2. Twice(w, arc, e) /\ e \in Arcs(w)
        BY <1>2, <1>3, <1>6, <3>2, <4>1 DEF Twice, Clean, D
      <4> QED BY <1>2, <4>2 DEF Faulty
    <3> QED BY <3>1, <3>2
  <2> QED BY <2>2, <2>3 DEF Detected, u, to
<1>10. ASSUME to \in D PROVE Clean(w, t, R(t, i))
  BY <1>2, <1>3, <1>8, <1>10 DEF Clean, Twice, D
<1>11. CASE to \notin t.gray /\ to \in t.black
  <2>1. u = t
    BY <1>3, <1>11 DEF u, Look
  <2>2. Clean(w, t, R(t, i))
    BY <1>4, <1>10, <1>11
  <2>3. \A j \in 1..i : SuccsOf(w, id)[j] \in t.black \cup (t.gray \ D)
    BY <1>3, <1>5, <1>11 DEF to
  <2>4. Scanned(w, s, Q, id, i, t)
    BY <1>3, <2>2, <2>3 DEF Scanned, R, P, D
  <2> QED BY <2>1, <2>4 DEF u, to
<1>12. ASSUME to \notin t.gray, to \notin t.black PROVE u = calls[to][t]
  BY <1>3, <1>12 DEF u, Look
<1>13. CASE to \notin t.gray /\ to \notin t.black /\ to \notin D
  <2>1. u = Grayed(t, to)
    BY <1>2, <1>12, <1>13 DEF Searching, D
  <2>2. u.gray = t.gray \cup {to} /\ u.black = t.black /\ u.cycles = t.cycles /\ ~ u.found
    BY <1>1, <1>2, <1>3, <2>1, GrayedIs DEF D
  <2>3. R(u, i) = R(t, i - 1) \cup {arc}
    BY <1>8, <2>2 DEF R, P
  <2>4. Clean(w, u, R(u, i))
    <3>1. \A e \in R(t, i - 1) : Target(w, e) # to
      BY <1>3, <1>13 DEF Clean, D
    <3>2. R(u, i) \subseteq Arcs(w)
      BY <1>2, <1>3, <2>3 DEF Clean
    <3>3. \A e \in R(u, i) : e[1] \in u.gray \cup u.black /\ Target(w, e) \in D \cup u.gray
      BY <1>2, <1>3, <2>2, <2>3 DEF Clean, D
    <3>4. \A x \in u.gray \ D : \E e \in R(u, i) : Target(w, e) = x
      BY <1>2, <1>3, <2>2, <2>3 DEF Clean, D
    <3>5. \A e, f \in R(u, i) : ~ Twice(w, e, f)
      BY <1>2, <1>3, <2>3, <3>1 DEF Clean, Twice
    <3>6. u.gray \cap u.black = {}
      BY <1>3, <1>13, <2>2 DEF Clean
    <3>7. \A b \in u.black : Children(w, b) \subseteq u.black \cup (u.gray \ D) /\ ~ OnPath(w, b, b)
      BY <1>3, <2>2 DEF Clean, D
    <3> QED BY <3>2, <3>3, <3>4, <3>5, <3>6, <3>7 DEF Clean, D
  <2>5. \A j \in 1..i : SuccsOf(w, id)[j] \in u.black \cup (u.gray \ D)
    BY <1>3, <1>5, <1>13, <2>2 DEF to
  <2>6. Scanned(w, s, Q, id, i, u)
    BY <1>3, <1>13, <2>2, <2>4, <2>5 DEF Scanned, R, P, D
  <2> QED BY <2>6 DEF u, to
<1>14. CASE to \notin t.gray /\ to \notin t.black /\ to \in D
  <2>1. u = calls[to][t] /\ Clean(w, t, R(t, i))
    BY <1>10, <1>12, <1>14
  <2>2. Cardinality(White(w, t)) <= k
    <3>1. IsFiniteSet(White(w, s)) /\ id \in White(w, s) /\ Cardinality(White(w, s)) <= k + 1
      <4>1. IsFiniteSet(NodeIDs(w))
        BY NodeIDsBounded DEF IsParsed, IsList
      <4> QED BY <4>1, FS_Subset DEF ToSearch, White
    <3>2. White(w, t) \subseteq White(w, s) \ {id}
      BY <1>3 DEF White, D
    <3>3. /\ IsFiniteSet(White(w, s) \ {id})
          /\ Cardinality(White(w, s) \ {id}) = Cardinality(White(w, s)) - 1
      BY <3>1, FS_RemoveElement
    <3>4. Cardinality(White(w, t)) <= Cardinality(White(w, s) \ {id}) /\ IsFiniteSet(White(w, t))
      BY <3>2, <3>3, FS_Subset
    <3>5. Cardinality(White(w, t)) \in Nat /\ Cardinality(White(w, s)) \in Nat
      BY <3>1, <3>4, FS_CardinalityType
    <3> QED BY <3>1, <3>3, <3>4, <3>5
  <2>3. ToSearch(w, t, R(t, i), to, k)
    BY <1>3, <1>7, <1>14, <2>1, <2>2 DEF ToSearch, White, D
  <2>4. Detected(w, u) \/ Passed(w, t, R(t, i), to, u)
    BY <1>14, <2>1, <2>3 DEF Searching, D
  <2>5. ASSUME Passed(w, t, R(t, i), to, u) PROVE Scanned(w, s, Q, id, i, u)
    <3>1. /\ ~ u.found /\ u.cycles = t.cycles /\ to \in u.black /\ u.gray \cap D = t.gray \cap D
          /\ t.gray \subseteq u.gray /\ t.black \subseteq u.black
          /\ Clean(w, u, R(t, i) \cup ArcsOf(w, u.black \ t.black))
      BY <2>5 DEF Passed, D
    <3>2. R(t, i) \cup ArcsOf(w, u.black \ t.black) = R(u, i)
      BY <1>3, <3>1 DEF R, P, ArcsOf
    <3>3. \A j \in 1..i : SuccsOf(w, id)[j] \in u.black \cup (u.gray \ D)
      BY <1>3, <1>5, <3>1 DEF to
    <3> QED BY <1>3, <3>1, <3>2, <3>3 DEF Scanned, R, P, D
  <2> QED BY <2>4, <2>5 DEF u, to
<1> QED BY <1>9, <1>11, <1>13, <1>14

(* The loop over the successors, step by step.                             *)
Monotone(w, calls) ==
  /\ calls \in [Mentioned(w) -> [Searches(w) -> Searches(w)]]
  /\ \A id \in Mentioned(w), s \in Searches(w) : s.cycles \subseteq calls[id][s].cycles

LEMMA ScanSteps ==
  ASSUME NEW w, IsParsed(w), NEW calls, Monotone(w, calls), NEW id \in NodeIDs(w), NEW s \in Searches(w)
  PROVE  \E scan \in [0..Len(SuccsOf(w, id)) -> Searches(w)] :
           /\ scan[0] = Grayed(s, id)
           /\ \A i \in 1..Len(SuccsOf(w, id)) : scan[i] = Look(calls, id, SuccsOf(w, id)[i], scan[i - 1])
           /\ Scan(w, calls, id, s) = LET last == scan[Len(SuccsOf(w, id))]
                                      IN IF last.found THEN last ELSE Blackened(last, id)
PROOF
<1> DEFINE succ == Successors(NodeMap(w)[id])
           n == Len(succ)
           S == Searches(w)
           a == Grayed(s, id)
           g == [i \in 1..n |-> [x \in S |-> Look(calls, id, succ[i], x)]]
           Is(f) == f = [i \in 0..n |-> IF i = 0 THEN Grayed(s, id) ELSE Look(calls, id, succ[i], f[i - 1])]
<1>1. n \in Nat /\ n = Len(SuccsOf(w, id)) /\ \A i \in 1..n : succ[i] \in Mentioned(w)
  BY SuccessorsOf DEF SuccsOf
<1>2. id \in Mentioned(w)
  BY DEF Mentioned
<1>3. a \in S
  BY <1>2, GrayedIs
<1>4. ASSUME NEW i \in 1..n, NEW x \in S PROVE Look(calls, id, succ[i], x) \in S
  BY <1>1, LookTyped DEF Monotone
<1>5. g \in [1..n -> [S -> S]]
  BY <1>4
<1> HIDE DEF succ, n
<1>6. PICK f : Steps(f, S, g, a, n)
  <2> HIDE DEF S, g, a
  <2> QED BY <1>1, <1>3, <1>5, Iterated
<1>7. Is(f) /\ f \in [0..n -> S]
  <2>1. ASSUME NEW i \in 0..n, i # 0 PROVE f[i] = Look(calls, id, succ[i], f[i - 1])
    <3>1. i \in 1..n /\ i - 1 \in 0..n
      BY <1>1, <2>1
    <3>2. f[i - 1] \in S /\ f[i] = g[i][f[i - 1]]
      <4> HIDE DEF S, g, a
      <4> QED BY <1>6, <2>1, <3>1 DEF Steps
    <3> QED BY <3>1, <3>2
  <2>2. f \in [0..n -> S] /\ (0 \in 0..n => f[0] = a)
    <3> HIDE DEF S, g, a
    <3> QED BY <1>6 DEF Steps
  <2> HIDE DEF S, g
  <2> QED BY <2>1, <2>2
<1> DEFINE scan == CHOOSE h : Is(h)
<1>8. Is(scan)
  <2> HIDE DEF Is
  <2> QED BY <1>7
<1>9. Scan(w, calls, id, s) = IF scan[n].found THEN scan[n] ELSE Blackened(scan[n], id)
  BY DEF Scan, n, succ
<1> HIDE DEF scan
<1> DEFINE U == {i \in 0..n : scan[i] \in S}
<1>10. 0 \in U /\ \A i \in 1..n : i - 1 \in U => i \in U
  <2>1. 0 \in U
    <3> HIDE DEF S
    <3> QED BY <1>1, <1>3, <1>8
  <2>2. ASSUME NEW i \in 1..n, scan[i - 1] \in S PROVE scan[i] \in S
    <3>1. scan[i] = Look(calls, id, succ[i], scan[i - 1])
      BY <1>1, <1>8
    <3> HIDE DEF S
    <3> QED BY <1>4, <2>2, <3>1
  <2> HIDE DEF S, Is
  <2> QED BY <1>1, <2>1, <2>2
<1>11. \A i \in 0..n : scan[i] \in S
  <2> HIDE DEF U
  <2>1. \A i \in 0..n : i \in U
    BY <1>1, <1>10, UpTo
  <2> QED BY <2>1 DEF U
<1>12. scan \in [0..n -> S]
  <2> HIDE DEF S
  <2> QED BY <1>8, <1>11
<1>13. scan[0] = Grayed(s, id) /\ \A i \in 1..n : scan[i] = Look(calls, id, succ[i], scan[i - 1])
  BY <1>1, <1>8
<1> HIDE DEF Is
<1> QED BY <1>1, <1>9, <1>12, <1>13 DEF SuccsOf, succ

LEMMA ScanTyped ==
  ASSUME NEW w, IsParsed(w), NEW calls, Monotone(w, calls), NEW id \in NodeIDs(w), NEW s \in Searches(w)
  PROVE  Scan(w, calls, id, s) \in Searches(w) /\ s.cycles \subseteq Scan(w, calls, id, s).cycles
PROOF
<1> DEFINE n == Len(SuccsOf(w, id))
<1>1. n \in Nat /\ id \in Mentioned(w) /\ \A i \in 1..n : SuccsOf(w, id)[i] \in Mentioned(w)
  BY SuccessorsOf DEF Mentioned
<1>2. PICK scan \in [0..n -> Searches(w)] :
        /\ scan[0] = Grayed(s, id)
        /\ \A i \in 1..n : scan[i] = Look(calls, id, SuccsOf(w, id)[i], scan[i - 1])
        /\ Scan(w, calls, id, s) = LET last == scan[n] IN IF last.found THEN last ELSE Blackened(last, id)
  BY ScanSteps
<1> DEFINE U == {i \in 0..n : s.cycles \subseteq scan[i].cycles}
<1> HIDE DEF n
<1>3. 0 \in U
  BY <1>1, <1>2, GrayedIs
<1>4. ASSUME NEW i \in 1..n, i - 1 \in U PROVE i \in U
  <2>1. scan[i - 1].cycles \subseteq scan[i].cycles
    <3>1. scan[i - 1] \in Searches(w) /\ SuccsOf(w, id)[i] \in Mentioned(w)
      BY <1>1, <1>2, <1>4
    <3> QED BY <1>2, <3>1, LookTyped DEF Monotone
  <2> QED BY <1>1, <1>4, <2>1
<1>5. n \in U
  <2> HIDE DEF U
  <2>1. \A i \in 0..n : i \in U
    BY <1>1, <1>3, <1>4, UpTo
  <2> QED BY <1>1, <2>1
<1>6. scan[n] \in Searches(w) /\ s.cycles \subseteq scan[n].cycles
  BY <1>1, <1>2, <1>5
<1>7. Scan(w, calls, id, s) = scan[n] \/ Scan(w, calls, id, s) = Blackened(scan[n], id)
  BY <1>2
<1>8. Blackened(scan[n], id) \in Searches(w) /\ Blackened(scan[n], id).cycles = scan[n].cycles
  BY <1>6, BlackenedIs
<1> QED BY <1>6, <1>7, <1>8

(* The search below a white id does what it is to do, if the calls do.     *)
LEMMA ScanSearches ==
  ASSUME NEW w, IsParsed(w), NEW k \in Nat, NEW calls, Searching(w, calls, k),
         NEW s \in Searches(w), NEW Q, NEW id, ToSearch(w, s, Q, id, k + 1)
  PROVE  LET u == Scan(w, calls, id, s) IN Detected(w, u) \/ Passed(w, s, Q, id, u)
PROOF
<1> DEFINE n == Len(SuccsOf(w, id))
           D == NodeIDs(w)
<1>1. /\ id \in D /\ id \notin s.gray \cup s.black /\ Clean(w, s, Q) /\ ~ s.found
      /\ Monotone(w, calls)
  BY DEF ToSearch, White, Searching, Monotone
<1>2. n \in Nat /\ id \in Mentioned(w) /\ Children(w, id) = {SuccsOf(w, id)[i] : i \in 1..n}
  BY <1>1, SuccessorsOf DEF Mentioned
<1>3. PICK scan \in [0..n -> Searches(w)] :
        /\ scan[0] = Grayed(s, id)
        /\ \A i \in 1..n : scan[i] = Look(calls, id, SuccsOf(w, id)[i], scan[i - 1])
        /\ Scan(w, calls, id, s) = LET last == scan[n] IN IF last.found THEN last ELSE Blackened(last, id)
  BY <1>1, ScanSteps
<1> HIDE DEF n
<1> DEFINE P(i) == Detected(w, scan[i]) \/ Scanned(w, s, Q, id, i, scan[i])
           U == {i \in 0..n : P(i)}
<1>4. Scanned(w, s, Q, id, 0, scan[0])
  <2> DEFINE t == scan[0]
  <2>1. t.gray = s.gray \cup {id} /\ t.black = s.black /\ t.cycles = s.cycles /\ ~ t.found
    BY <1>1, <1>2, <1>3, GrayedIs
  <2> HIDE DEF t
  <2>2. Q \cup ArcsOf(w, t.black \ s.black) \cup Looked(id, 0) = Q
    BY <2>1 DEF ArcsOf, Looked
  <2>3. Clean(w, t, Q)
    <3>1. t.gray \cap t.black = {} /\ t.gray \ NodeIDs(w) = s.gray \ NodeIDs(w)
      BY <1>1, <2>1 DEF Clean, D
    <3>2. \A e \in Q : e[1] \in t.gray \cup t.black /\ Target(w, e) \in NodeIDs(w) \cup t.gray
      BY <1>1, <2>1 DEF Clean
    <3>3. \A b \in t.black : Children(w, b) \subseteq t.black \cup (t.gray \ NodeIDs(w)) /\ ~ OnPath(w, b, b)
      BY <1>1, <2>1, <3>1 DEF Clean
    <3> QED BY <1>1, <3>1, <3>2, <3>3 DEF Clean
  <2>4. Scanned(w, s, Q, id, 0, t)
    <3>1. Clean(w, t, Q \cup ArcsOf(w, t.black \ s.black) \cup Looked(id, 0))
      BY <2>2, <2>3
    <3>2. \A j \in 1..0 : SuccsOf(w, id)[j] \in t.black \cup (t.gray \ NodeIDs(w))
      OBVIOUS
    <3>3. t.gray \cap NodeIDs(w) = (s.gray \cap NodeIDs(w)) \cup {id}
      BY <1>1, <2>1 DEF D
    <3>4. ~ t.found /\ t.cycles = s.cycles /\ s.gray \subseteq t.gray /\ s.black \subseteq t.black
      BY <1>1, <2>1
    <3> QED BY <3>1, <3>2, <3>3, <3>4 DEF Scanned
  <2> QED BY <2>4 DEF t
<1>5. ASSUME NEW i \in 1..n, P(i - 1) PROVE P(i)
  <2>1. i - 1 \in 0..n /\ scan[i - 1] \in Searches(w) /\ scan[i] = Look(calls, id, SuccsOf(w, id)[i], scan[i - 1])
    BY <1>2, <1>3
  <2>2. CASE Detected(w, scan[i - 1])
    <3>1. scan[i] = scan[i - 1]
      BY <2>1, <2>2 DEF Look, Detected
    <3> QED BY <2>2, <3>1
  <2>3. CASE Scanned(w, s, Q, id, i - 1, scan[i - 1])
    <3>1. i \in 1..Len(SuccsOf(w, id))
      BY DEF n
    <3>2. LET u == Look(calls, id, SuccsOf(w, id)[i], scan[i - 1])
          IN Detected(w, u) \/ Scanned(w, s, Q, id, i, u)
      BY <2>1, <2>3, <3>1, LookScans
    <3> QED BY <2>1, <3>2
  <2> HIDE DEF n
  <2> QED BY <1>5, <2>2, <2>3
<1>6. P(n)
  <2>1. 0 \in U /\ \A i \in 1..n : i - 1 \in U => i \in U
    <3>1. P(0)
      BY <1>4
    <3> HIDE DEF P
    <3> QED BY <1>2, <1>5, <3>1
  <2> HIDE DEF U
  <2>2. \A i \in 0..n : i \in U
    BY <1>2, <2>1, UpTo
  <2>3. n \in U
    BY <1>2, <2>2
  <2> QED BY <2>3 DEF U
<1> DEFINE t == scan[n]
           u == Blackened(t, id)
<1>7. CASE Detected(w, t)
  BY <1>3, <1>7 DEF Detected
<1>8. CASE Scanned(w, s, Q, id, n, t)
  <2>1. /\ ~ t.found /\ t.cycles = s.cycles
        /\ t.gray \cap D = (s.gray \cap D) \cup {id} /\ s.gray \subseteq t.gray /\ s.black \subseteq t.black
        /\ \A j \in 1..n : SuccsOf(w, id)[j] \in t.black \cup (t.gray \ D)
        /\ Clean(w, t, Q \cup ArcsOf(w, t.black \ s.black) \cup Looked(id, n))
    BY <1>8 DEF Scanned, D
  <2>2. Scan(w, calls, id, s) = u
    BY <1>3, <2>1
  <2>3. t \in Searches(w)
    BY <1>2, <1>3
  <2>4. /\ u.gray = t.gray \ {id} /\ u.black = t.black \cup {id}
        /\ u.cycles = t.cycles /\ ~ u.found
    <3> HIDE DEF t
    <3> QED BY <1>1, <2>3, BlackenedIs DEF D
  <2> HIDE DEF t, u
  <2>5. Q \cup ArcsOf(w, t.black \ s.black) \cup Looked(id, n) = Q \cup ArcsOf(w, u.black \ s.black)
    <3>1. Looked(id, n) = {e \in Arcs(w) : e[1] = id}
      BY <1>1, <1>2 DEF Looked, Arcs, D, n
    <3> QED BY <1>1, <2>1, <2>4, <3>1 DEF ArcsOf
  <2>6. Clean(w, u, Q \cup ArcsOf(w, u.black \ s.black))
    <3> DEFINE R == Q \cup ArcsOf(w, u.black \ s.black)
    <3> HIDE DEF R
    <3>1. Clean(w, t, R)
      BY <2>1, <2>5 DEF R
    <3>2. id \notin t.black /\ u.gray \cup u.black = t.gray \cup t.black /\ u.gray \ D = t.gray \ D
      BY <1>1, <2>1, <2>4 DEF Clean
    <3>3. Children(w, id) \subseteq t.black \cup (t.gray \ D)
      BY <1>2, <2>1
    <3>4. ~ OnPath(w, id, id)
      <4> DEFINE C == t.black \cup (t.gray \ D)
      <4>1. Children(w, id) \subseteq C /\ id \notin C
        BY <1>1, <3>2, <3>3
      <4>2. \A x \in C : Children(w, x) \subseteq C
        BY <3>1 DEF Clean, Children, Defined, D
      <4> HIDE DEF C
      <4> QED BY <4>1, <4>2, PathsFrom
    <3>5. \A b \in u.black : Children(w, b) \subseteq u.black \cup (u.gray \ D) /\ ~ OnPath(w, b, b)
      <4>1. \A b \in t.black : Children(w, b) \subseteq t.black \cup (t.gray \ D) /\ ~ OnPath(w, b, b)
        BY <3>1 DEF Clean, D
      <4> QED BY <2>4, <3>2, <3>3, <3>4, <4>1
    <3>6. \A e \in R : e[1] \in u.gray \cup u.black /\ Target(w, e) \in D \cup u.gray
      <4>1. \A e \in R : e[1] \in t.gray \cup t.black /\ Target(w, e) \in D \cup t.gray
        BY <3>1 DEF Clean, D
      <4> QED BY <1>1, <2>4, <4>1
    <3>7. u.gray \cap u.black = {}
      BY <2>4, <3>1 DEF Clean
    <3>8. \A x \in u.gray \ D : \E e \in R : Target(w, e) = x
      BY <3>1, <3>2 DEF Clean, D
    <3>9. R \subseteq Arcs(w) /\ \A e, f \in R : ~ Twice(w, e, f)
      BY <3>1 DEF Clean
    <3>10. Clean(w, u, R)
      BY <3>5, <3>6, <3>7, <3>8, <3>9 DEF Clean, D
    <3> QED BY <3>10 DEF R
  <2>7. Passed(w, s, Q, id, u)
    BY <1>1, <2>1, <2>4, <2>6 DEF Passed, D
  <2> QED BY <2>2, <2>7
<1> QED BY <1>6, <1>7, <1>8

-----------------------------------------------------------------------------
(* The levels of dfs.                                                      *)
LEMMA DfsLevels ==
  ASSUME NEW w, IsParsed(w)
  PROVE  \E dfs : /\ \A k \in 0..Len(w.nodes) : Monotone(w, dfs[k])
                  /\ \A id \in Mentioned(w), s \in Searches(w) :
                       /\ dfs[0][id][s] = Grayed(s, id)
                       /\ \A k \in 1..Len(w.nodes) :
                            dfs[k][id][s] = IF Defined(w, id) THEN Scan(w, dfs[k - 1], id, s)
                                            ELSE Grayed(s, id)
                  /\ Dfs(w) = dfs[Len(w.nodes)]
PROOF
<1> DEFINE n == Len(w.nodes)
           M == Mentioned(w)
           S == Searches(w)
           H == {h \in [M -> [S -> S]] : Monotone(w, h)}
           a == [id \in M |-> [s \in S |-> Grayed(s, id)]]
           Below1(h) == [id \in M |-> [s \in S |-> IF Defined(w, id) THEN Scan(w, h, id, s) ELSE Grayed(s, id)]]
           g == [k \in 1..n |-> [h \in H |-> Below1(h)]]
           Level(f, k) == [id \in Mentioned(w) |-> [s \in Searches(w) |->
                             IF Defined(w, id) /\ k > 0 THEN Scan(w, f[k - 1], id, s) ELSE Grayed(s, id)]]
           Is(f) == f = [k \in 0..n |-> [id \in Mentioned(w) |-> [s \in Searches(w) |->
                             IF Defined(w, id) /\ k > 0 THEN Scan(w, f[k - 1], id, s) ELSE Grayed(s, id)]]]
<1>1. n \in Nat
  BY LenProperties DEF IsParsed, IsList
<1>2. \A id \in M, s \in S : Grayed(s, id) \in S /\ s.cycles \subseteq Grayed(s, id).cycles
  BY GrayedIs
<1>3. a \in H
  BY <1>2 DEF Monotone
<1>4. ASSUME NEW h \in H PROVE Below1(h) \in H
  <2>1. ASSUME NEW id \in M, NEW s \in S
        PROVE  Below1(h)[id][s] \in S /\ s.cycles \subseteq Below1(h)[id][s].cycles
    <3>1. CASE Defined(w, id)
      <4>1. Below1(h)[id][s] = Scan(w, h, id, s)
        BY <3>1
      <4>2. Scan(w, h, id, s) \in S /\ s.cycles \subseteq Scan(w, h, id, s).cycles
        BY <3>1, ScanTyped DEF Defined
      <4> QED BY <4>1, <4>2
    <3>2. CASE ~ Defined(w, id)
      <4>1. Below1(h)[id][s] = Grayed(s, id)
        BY <3>2
      <4> QED BY <1>2, <4>1
    <3> QED BY <3>1, <3>2
  <2>2. Below1(h) \in [M -> [S -> S]]
    <3>1. \A id \in M, s \in S : (IF Defined(w, id) THEN Scan(w, h, id, s) ELSE Grayed(s, id)) \in S
      BY <2>1
    <3> QED BY <3>1
  <2> HIDE DEF Below1
  <2> QED BY <2>1, <2>2 DEF Monotone
<1>5. g \in [1..n -> [H -> H]]
  BY <1>4
<1> HIDE DEF n
<1>6. PICK f : Steps(f, H, g, a, n)
  <2> HIDE DEF H, g, a
  <2> QED BY <1>1, <1>3, <1>5, Iterated
<1>7. Is(f)
  <2>1. ASSUME NEW k \in 0..n PROVE f[k] = Level(f, k)
    <3>1. CASE k = 0
      <4>1. f[k] = a
        <5> HIDE DEF H, g, a
        <5> QED BY <1>1, <1>6, <3>1 DEF Steps
      <4> QED BY <3>1, <4>1
    <3>2. CASE k # 0
      <4>1. k \in 1..n /\ k - 1 \in 0..n
        BY <1>1, <3>2
      <4>2. f[k - 1] \in H /\ f[k] = g[k][f[k - 1]]
        <5> HIDE DEF H, g, a
        <5> QED BY <1>6, <3>2, <4>1 DEF Steps
      <4>3. f[k] = Below1(f[k - 1])
        <5> HIDE DEF H, Below1
        <5> QED BY <4>1, <4>2
      <4>4. k > 0
        BY <3>2
      <4> QED BY <4>3, <4>4
    <3> QED BY <3>1, <3>2
  <2>2. f = [k \in 0..n |-> f[k]]
    <3> HIDE DEF H, g, a
    <3> QED BY <1>6 DEF Steps
  <2> HIDE DEF Level
  <2>3. f = [k \in 0..n |-> Level(f, k)]
    BY <2>1, <2>2
  <2> QED BY <2>3 DEF Level
<1> DEFINE dfs == CHOOSE h : Is(h)
<1>8. Is(dfs)
  <2> HIDE DEF Is
  <2> QED BY <1>7
<1>9. Dfs(w) = dfs[n]
  BY DEF Dfs, n
<1> HIDE DEF dfs
<1>10. /\ dfs[0] = a
       /\ \A k \in 1..n : dfs[k] = Below1(dfs[k - 1])
  <2>1. ASSUME NEW k \in 0..n PROVE dfs[k] = Level(dfs, k)
    BY <1>8
  <2>2. dfs[0] = a
    BY <1>1, <2>1
  <2>3. ASSUME NEW k \in 1..n PROVE dfs[k] = Below1(dfs[k - 1])
    <3>1. k \in 0..n /\ k > 0
      BY <1>1
    <3> QED BY <2>1, <3>1
  <2> QED BY <2>2, <2>3
<1> DEFINE U == {k \in 0..n : dfs[k] \in H}
<1>11. 0 \in U /\ \A k \in 1..n : k - 1 \in U => k \in U
  <2> HIDE DEF H, a, Below1
  <2> QED BY <1>1, <1>3, <1>4, <1>10
<1>12. \A k \in 0..n : k \in U
  <2> HIDE DEF U
  <2> QED BY <1>1, <1>11, UpTo
<1>13. \A k \in 0..n : Monotone(w, dfs[k])
  BY <1>12
<1>14. \A id \in M, s \in S :
         /\ dfs[0][id][s] = Grayed(s, id)
         /\ \A k \in 1..n : dfs[k][id][s] = IF Defined(w, id) THEN Scan(w, dfs[k - 1], id, s) ELSE Grayed(s, id)
  <2>1. ASSUME NEW id \in M, NEW s \in S PROVE dfs[0][id][s] = Grayed(s, id)
    BY <1>10
  <2>2. ASSUME NEW id \in M, NEW s \in S, NEW k \in 1..n
        PROVE  dfs[k][id][s] = IF Defined(w, id) THEN Scan(w, dfs[k - 1], id, s) ELSE Grayed(s, id)
    <3>1. dfs[k] = Below1(dfs[k - 1])
      BY <1>10
    <3> HIDE DEF M, S
    <3> QED BY <3>1
  <2> QED BY <2>1, <2>2
<1> QED BY <1>9, <1>13, <1>14 DEF n

(* As many levels as nodes are enough.                                     *)
LEMMA DfsSearches ==
  ASSUME NEW w, IsParsed(w)
  PROVE  Searching(w, Dfs(w), Len(w.nodes))
PROOF
<1> DEFINE n == Len(w.nodes)
<1>1. n \in Nat
  BY LenProperties DEF IsParsed, IsList
<1>2. PICK dfs : /\ \A k \in 0..n : Monotone(w, dfs[k])
                 /\ \A id \in Mentioned(w), s \in Searches(w) :
                      /\ dfs[0][id][s] = Grayed(s, id)
                      /\ \A k \in 1..n : dfs[k][id][s] = IF Defined(w, id) THEN Scan(w, dfs[k - 1], id, s)
                                                         ELSE Grayed(s, id)
                 /\ Dfs(w) = dfs[n]
  BY DfsLevels
<1> HIDE DEF n
<1> DEFINE U == {k \in 0..n : Searching(w, dfs[k], k)}
<1>3. \A id \in NodeIDs(w) : id \in Mentioned(w) /\ Defined(w, id)
  BY DEF Mentioned, Defined
<1>4. ASSUME NEW k \in 0..n, NEW id \in Mentioned(w) \ NodeIDs(w), NEW s \in Searches(w)
      PROVE  dfs[k][id][s] = Grayed(s, id)
  <2>1. k = 0 \/ k \in 1..n
    BY <1>1
  <2> QED BY <1>2, <2>1 DEF Defined
<1>5. 0 \in U
  <2>1. ASSUME NEW id \in NodeIDs(w), NEW s \in Searches(w), NEW Q, ToSearch(w, s, Q, id, 0) PROVE FALSE
    <3>1. id \in White(w, s) /\ Cardinality(White(w, s)) <= 0
      BY <2>1 DEF ToSearch
    <3>2. IsFiniteSet(NodeIDs(w))
      BY NodeIDsBounded DEF IsParsed, IsList
    <3>3. IsFiniteSet(White(w, s))
      BY <3>2, FS_Subset DEF White
    <3>4. Cardinality(White(w, s)) = 0
      BY <3>1, <3>3, FS_CardinalityType
    <3> QED BY <3>1, <3>3, <3>4, FS_EmptySet
  <2>2. Searching(w, dfs[0], 0)
    BY <1>1, <1>2, <1>4, <2>1 DEF Searching, Monotone
  <2> QED BY <1>1, <2>2
<1>6. ASSUME NEW k \in 1..n, k - 1 \in U PROVE k \in U
  <2>1. k \in 0..n /\ k - 1 \in Nat /\ k - 1 + 1 = k /\ Searching(w, dfs[k - 1], k - 1)
    BY <1>1, <1>6
  <2>2. ASSUME NEW id \in NodeIDs(w), NEW s \in Searches(w), NEW Q, ToSearch(w, s, Q, id, k)
        PROVE  Detected(w, dfs[k][id][s]) \/ Passed(w, s, Q, id, dfs[k][id][s])
    <3> DEFINE j == k - 1
               calls == dfs[k - 1]
    <3>1. dfs[k][id][s] = Scan(w, calls, id, s)
      BY <1>2, <1>3
    <3>2. j \in Nat /\ Searching(w, calls, j) /\ ToSearch(w, s, Q, id, j + 1)
      BY <2>1, <2>2
    <3> HIDE DEF j, calls
    <3>3. LET u == Scan(w, calls, id, s) IN Detected(w, u) \/ Passed(w, s, Q, id, u)
      BY <3>2, ScanSearches
    <3> QED BY <3>1, <3>3
  <2>3. Searching(w, dfs[k], k)
    <3>1. Monotone(w, dfs[k])
      BY <1>2, <2>1
    <3> QED BY <1>4, <2>1, <2>2, <3>1 DEF Searching, Monotone
  <2> QED BY <2>1, <2>3
<1>7. n \in U
  <2> HIDE DEF U
  <2>1. \A k \in 0..n : k \in U
    BY <1>1, <1>5, <1>6, UpTo
  <2> QED BY <1>1, <2>1
<1> QED BY <1>2, <1>7 DEF n

(* The loop over the nodes, step by step.                                  *)
LEMMA SearchSteps ==
  ASSUME NEW w, IsParsed(w)
  PROVE  \E search \in [0..Len(w.nodes) -> Searches(w)] :
           /\ search[0] = Unsearched
           /\ \A k \in 1..Len(w.nodes) : search[k] = SearchFrom(Dfs(w), w.nodes[k].id, search[k - 1])
           /\ CycleErrors(w) = search[Len(w.nodes)].cycles
PROOF
<1> DEFINE n == Len(w.nodes)
           S == Searches(w)
           d == Dfs(w)
           Next1(k, s) == SearchFrom(d, w.nodes[k].id, s)
           g == [k \in 1..n |-> [s \in S |-> Next1(k, s)]]
           Is(f) == f = [k \in 0..n |-> IF k = 0 THEN Unsearched ELSE SearchFrom(d, w.nodes[k].id, f[k - 1])]
<1>1. n \in Nat /\ \A k \in 1..n : w.nodes[k].id \in NodeIDs(w) /\ w.nodes[k].id \in Mentioned(w)
  BY LenProperties DEF IsParsed, IsList, NodeIDs, NodesOf, Mentioned
<1>2. Unsearched \in S
  BY DEF Unsearched, Searches
<1>3. ASSUME NEW s \in S PROVE [s EXCEPT !.found = FALSE] \in S
  <2>1. Searches(w) = States(Mentioned(w), NodeIDs(w), {"cycle"} \X NodeIDs(w) \X Mentioned(w))
    BY DEF Searches, States
  <2> QED BY <2>1, FoundReset
<1>4. d \in [Mentioned(w) -> [S -> S]]
  BY DfsSearches DEF Searching
<1>5. ASSUME NEW k \in 1..n, NEW s \in S PROVE Next1(k, s) \in S
  <2>1. d[w.nodes[k].id][[s EXCEPT !.found = FALSE]] \in S
    <3> HIDE DEF d, S, n
    <3> QED BY <1>1, <1>3, <1>4
  <2> HIDE DEF d, S, n
  <2> QED BY <2>1 DEF SearchFrom
<1>6. g \in [1..n -> [S -> S]]
  <2> HIDE DEF S, Next1
  <2> QED BY <1>5
<1> HIDE DEF n
<1>7. PICK f : Steps(f, S, g, Unsearched, n)
  <2> HIDE DEF S, g
  <2> QED BY <1>1, <1>2, <1>6, Iterated
<1> HIDE DEF d
<1>8. Is(f)
  <2>1. ASSUME NEW k \in 0..n, k # 0 PROVE f[k] = Next1(k, f[k - 1])
    <3>1. k \in 1..n /\ k - 1 \in 0..n
      BY <1>1, <2>1
    <3>2. f[k - 1] \in S /\ f[k] = g[k][f[k - 1]]
      <4> HIDE DEF S, g
      <4> QED BY <1>7, <2>1, <3>1 DEF Steps
    <3> HIDE DEF S, Next1
    <3> QED BY <3>1, <3>2
  <2>2. f \in [0..n -> S] /\ (0 \in 0..n => f[0] = Unsearched)
    <3> HIDE DEF S, g
    <3> QED BY <1>7 DEF Steps
  <2> HIDE DEF S, g
  <2> QED BY <2>1, <2>2
<1> DEFINE search == CHOOSE h : Is(h)
<1>9. Is(search)
  <2> HIDE DEF Is
  <2> QED BY <1>8
<1>10. CycleErrors(w) = search[n].cycles
  BY DEF CycleErrors, n, d
<1> HIDE DEF search
<1>11. search[0] = Unsearched /\ \A k \in 1..n : search[k] = Next1(k, search[k - 1])
  BY <1>1, <1>9
<1> DEFINE U == {k \in 0..n : search[k] \in S}
<1>12. 0 \in U /\ \A k \in 1..n : k - 1 \in U => k \in U
  <2> HIDE DEF S, Next1, Is
  <2> QED BY <1>1, <1>2, <1>5, <1>11
<1>13. \A k \in 0..n : k \in U
  <2> HIDE DEF U
  <2> QED BY <1>1, <1>12, UpTo
<1>14. search \in [0..n -> S]
  <2> HIDE DEF S
  <2> QED BY <1>9, <1>13
<1> QED BY <1>10, <1>11, <1>14 DEF n, d

(* A cycle is reported if and only if there is one, or if two arcs lead to *)
(* one undefined id.                                                       *)
LEMMA CyclesFound ==
  ASSUME NEW w, IsParsed(w)
  PROVE  /\ CycleErrors(w) # {} <=> Faulty(w)
         /\ \A e \in CycleErrors(w) : e[1] = "cycle"
PROOF
<1> DEFINE n == Len(w.nodes)
           D == NodeIDs(w)
<1>1. n \in Nat /\ \A k \in 1..n : w.nodes[k].id \in D /\ w.nodes[k].id \in Mentioned(w)
  BY LenProperties DEF IsParsed, IsList, NodeIDs, NodesOf, Mentioned
<1>2. PICK search \in [0..n -> Searches(w)] :
        /\ search[0] = Unsearched
        /\ \A k \in 1..n : search[k] = SearchFrom(Dfs(w), w.nodes[k].id, search[k - 1])
        /\ CycleErrors(w) = search[n].cycles
  BY SearchSteps
<1>3. IsFiniteSet(D) /\ Cardinality(D) <= n
  BY NodeIDsBounded DEF IsParsed, IsList
<1>4. D = {w.nodes[k].id : k \in 1..n}
  BY DEF NodeIDs, NodesOf
<1> HIDE DEF n
<1> DEFINE Bad(s) == s.cycles # {} /\ Faulty(w)
           Good(k, s) == /\ s.cycles = {} /\ s.gray \cap D = {}
                         /\ \A j \in 1..k : w.nodes[j].id \in s.black
                         /\ Clean(w, s, ArcsOf(w, s.black))
           P(k) == Bad(search[k]) \/ Good(k, search[k])
           U == {k \in 0..n : P(k)}
<1>5. P(0)
  <2>1. Unsearched.gray = {} /\ Unsearched.black = {} /\ Unsearched.cycles = {}
    BY DEF Unsearched
  <2>2. Clean(w, Unsearched, ArcsOf(w, Unsearched.black))
    BY <2>1 DEF Clean, ArcsOf
  <2> QED BY <1>2, <2>1, <2>2
<1>6. ASSUME NEW k \in 1..n, P(k - 1) PROVE P(k)
  <2> DEFINE id == w.nodes[k].id
             s == search[k - 1]
             r == [s EXCEPT !.found = FALSE]
             t == Dfs(w)[id][r]
  <2>1. k - 1 \in 0..n /\ s \in Searches(w) /\ search[k] = SearchFrom(Dfs(w), id, s)
    BY <1>1, <1>2
  <2>2. id \in D /\ id \in Mentioned(w)
    BY <1>1
  <2> HIDE DEF s, id
  <2>3. /\ r \in Searches(w) /\ ~ r.found
        /\ r.gray = s.gray /\ r.black = s.black /\ r.cycles = s.cycles
    <3>1. Searches(w) = States(Mentioned(w), NodeIDs(w), {"cycle"} \X NodeIDs(w) \X Mentioned(w))
      BY DEF Searches, States
    <3> QED BY <2>1, <3>1, FoundReset
  <2> HIDE DEF r
  <2>4. Searching(w, Dfs(w), n)
    BY DfsSearches DEF n
  <2>5. s.cycles \subseteq t.cycles
    BY <2>2, <2>3, <2>4 DEF Searching
  <2>6. search[k] = IF id \in s.gray \cup s.black THEN s ELSE t
    BY <2>1 DEF SearchFrom, r
  <2> HIDE DEF t
  <2>7. CASE Bad(s)
    BY <2>5, <2>6, <2>7
  <2>8. CASE Good(k - 1, s) /\ id \in s.gray \cup s.black
    <3>1. id \in s.black
      BY <2>2, <2>8
    <3>2. \A j \in 1..k : w.nodes[j].id \in s.black
      BY <1>1, <2>8, <3>1 DEF id
    <3> QED BY <2>6, <2>8, <3>2
  <2>9. CASE Good(k - 1, s) /\ id \notin s.gray \cup s.black
    <3> DEFINE Q == ArcsOf(w, s.black)
    <3>1. Clean(w, r, Q)
      BY <2>3, <2>9 DEF Clean
    <3>2. Cardinality(White(w, r)) <= n
      <4>1. White(w, r) \subseteq D
        BY DEF White
      <4>2. Cardinality(White(w, r)) <= Cardinality(D) /\ IsFiniteSet(White(w, r))
        BY <1>3, <4>1, FS_Subset
      <4>3. Cardinality(White(w, r)) \in Nat /\ Cardinality(D) \in Nat
        BY <1>3, <4>2, FS_CardinalityType
      <4> QED BY <1>1, <1>3, <4>2, <4>3
    <3>3. ToSearch(w, r, Q, id, n)
      <4> HIDE DEF Q
      <4> QED BY <2>2, <2>3, <2>9, <3>1, <3>2 DEF ToSearch, White
    <3> HIDE DEF Q
    <3>4. Detected(w, t) \/ Passed(w, r, Q, id, t)
      BY <2>2, <2>3, <2>4, <3>3 DEF Searching, t
    <3>5. search[k] = t
      BY <2>6, <2>9
    <3>6. CASE Detected(w, t)
      BY <3>5, <3>6 DEF Detected
    <3>7. CASE Passed(w, r, Q, id, t)
      <4>1. /\ t.cycles = s.cycles /\ id \in t.black /\ t.gray \cap D = s.gray \cap D
            /\ s.black \subseteq t.black /\ Clean(w, t, Q \cup ArcsOf(w, t.black \ s.black))
        BY <2>3, <3>7 DEF Passed
      <4>2. Q \cup ArcsOf(w, t.black \ s.black) = ArcsOf(w, t.black)
        BY <4>1 DEF Q, ArcsOf
      <4>3. \A j \in 1..k : w.nodes[j].id \in t.black
        BY <1>1, <2>9, <4>1 DEF id
      <4>4. Good(k, t)
        BY <2>9, <4>1, <4>2, <4>3
      <4> QED BY <3>5, <4>4
    <3> QED BY <3>4, <3>6, <3>7
  <2>10. Bad(s) \/ Good(k - 1, s)
    BY <1>6 DEF s
  <2> HIDE DEF Bad, Good
  <2> QED BY <2>7, <2>8, <2>9, <2>10
<1>7. P(n)
  <2>1. 0 \in U /\ \A k \in 1..n : k - 1 \in U => k \in U
    <3> HIDE DEF P
    <3> QED BY <1>1, <1>5, <1>6
  <2> HIDE DEF U
  <2>2. n \in U
    <3>1. \A k \in 0..n : k \in U
      BY <1>1, <2>1, UpTo
    <3> QED BY <1>1, <3>1
  <2> QED BY <2>2 DEF U
<1>8. ASSUME Good(n, search[n]) PROVE ~ Faulty(w)
  <2> DEFINE s == search[n]
  <2>1. D \subseteq s.black /\ Clean(w, s, ArcsOf(w, s.black))
    BY <1>4, <1>8
  <2> HIDE DEF s
  <2>2. ~ HasCycle(w)
    BY <2>1 DEF HasCycle, Clean
  <2>3. \A e \in Arcs(w) : e \in ArcsOf(w, s.black)
    BY <2>1 DEF Arcs, ArcsOf
  <2> QED BY <2>1, <2>2, <2>3 DEF Faulty, Clean
<1>9. CycleErrors(w) # {} <=> Faulty(w)
  BY <1>2, <1>7, <1>8
<1>10. \A e \in CycleErrors(w) : e[1] = "cycle"
  <2>1. search[n] \in Searches(w)
    BY <1>1, <1>2
  <2>2. search[n].cycles \subseteq {"cycle"} \X NodeIDs(w) \X Mentioned(w)
    BY <2>1, CyclesTyped
  <2> QED BY <1>2, <2>2
<1> QED BY <1>9, <1>10

-----------------------------------------------------------------------------
(* What is checked whether or not a schema is given.                       *)
StructuralErrors(d, w) ==
  DuplicateErrors(w) \cup StartErrors(w) \cup StructureErrors(w) \cup ReferenceErrors(w)
  \cup MergingErrors(w) \cup CycleErrors(w) \cup UnreachableErrors(d, w)

-----------------------------------------------------------------------------
(* The visits of the data-flow check, level by level.                      *)
LEMMA VisitLevels ==
  ASSUME NEW w, IsParsed(w), Defined(w, w.start), NEW initial
  PROVE  \E f : /\ Visits(w, initial) = f[Len(w.nodes)]
                /\ f[0] = {<<w.start, initial>>}
                /\ \A k \in 1..Len(w.nodes) : f[k] = f[k - 1] \cup UNION {VisitsBelow(w, v) : v \in f[k - 1]}
PROOF
<1> DEFINE n == Len(w.nodes)
           D == NodeIDs(w)
           All == initial \cup UNION {m.produces : m \in NodesOf(w)}
           T == D \X SUBSET All
           next == [v \in T |-> VisitsBelow(w, v)]
           first == {<<w.start, initial>>}
           Is(g) == g = [k \in 0..n |-> IF k = 0 THEN first ELSE g[k - 1] \cup UNION {VisitsBelow(w, v) : v \in g[k - 1]}]
<1>1. n \in Nat
  BY LenProperties DEF IsParsed, IsList
<1>2. first \in SUBSET T
  BY DEF Defined
<1>3. next \in [T -> SUBSET T]
  <2>1. ASSUME NEW v \in T PROVE VisitsBelow(w, v) \subseteq T
    <3>1. NodeMap(w)[v[1]].produces \subseteq All
      BY ParsedNodes
    <3>2. v[2] \cup NodeMap(w)[v[1]].produces \in SUBSET All
      BY <3>1
    <3> HIDE DEF All
    <3> QED BY <3>2 DEF VisitsBelow
  <2> HIDE DEF T
  <2> QED BY <2>1
<1> HIDE DEF n, T, first, next
<1>4. PICK f : f \in [0..n -> SUBSET T] /\ LevelsFrom(f, first, next, n)
  BY <1>1, <1>2, <1>3, LevelsExist
<1>5. Is(f)
  <2>1. ASSUME NEW k \in 0..n, k # 0 PROVE f[k] = f[k - 1] \cup UNION {VisitsBelow(w, v) : v \in f[k - 1]}
    <3>1. k - 1 \in 0..n /\ f[k - 1] \in SUBSET T
      BY <1>1, <1>4, <2>1
    <3>2. \A v \in f[k - 1] : next[v] = VisitsBelow(w, v)
      BY <3>1 DEF next
    <3>3. f[k] = f[k - 1] \cup (UNION {next[v] : v \in f[k - 1]})
      BY <1>4, <2>1 DEF LevelsFrom
    <3>4. UNION {next[v] : v \in f[k - 1]} = UNION {VisitsBelow(w, v) : v \in f[k - 1]}
      BY <3>2
    <3> QED BY <3>3, <3>4
  <2>2. 0 \in 0..n /\ f[0] = first
    BY <1>1, <1>4 DEF LevelsFrom
  <2> QED BY <1>4, <2>1, <2>2
<1> DEFINE visits == CHOOSE g : Is(g)
<1>6. Is(visits)
  <2> HIDE DEF Is
  <2> QED BY <1>5
<1>7. Visits(w, initial) = visits[n]
  BY DEF Visits, n, first
<1> HIDE DEF visits
<1>8. visits[0] = first /\ \A k \in 1..n : visits[k] = visits[k - 1] \cup UNION {VisitsBelow(w, v) : v \in visits[k - 1]}
  BY <1>1, <1>6
<1> HIDE DEF Is
<1> QED BY <1>7, <1>8 DEF n, first

-----------------------------------------------------------------------------
(* The definition handed to the simulator, node by node.                   *)
NodeFields == {"id", "type", "branches", "next", "reads", "produces"}
Exported(n) ==
  [n EXCEPT !.next     = IF n.type # "filter" THEN @ ELSE NoNode,
            !.branches = IF n.type = "filter" THEN @ ELSE <<>>]
LEMMA KeptIs ==
  ASSUME NEW n, NodeFields \subseteq DOMAIN n
  PROVE  /\ Exported(n).id = n.id /\ Exported(n).type = n.type
         /\ Exported(n).reads = n.reads /\ Exported(n).produces = n.produces
         /\ Exported(n).next = IF n.type # "filter" THEN n.next ELSE NoNode
         /\ Exported(n).branches = IF n.type = "filter" THEN n.branches ELSE <<>>
BY DEF Exported, NodeFields

LEMMA ListOfAny ==
  ASSUME NEW n \in Nat, NEW s, s = [k \in 1..n |-> s[k]]
  PROVE  IsList(s) /\ Len(s) = n
PROOF
<1> DEFINE T == {s[k] : k \in DOMAIN s}
<1>1. DOMAIN s = 1..n /\ s \in [1..n -> T]
  OBVIOUS
<1> HIDE DEF T
<1>2. s \in Seq(T) /\ Len(s) = n
  BY <1>1
<1> QED BY <1>2 DEF IsList, T

(* The definition handed to the simulator, by its nodes.                   *)
LEMMA HandedOver ==
  ASSUME NEW w, IsParsed(w), HasFields(w)
  PROVE  LET A == toWorkflowDef(w) IN
         /\ IsParsed(A) /\ A.start = w.start /\ Positions(A) = Positions(w)
         /\ Len(A.nodes) = Len(w.nodes)
         /\ \A k \in Positions(w) : A.nodes[k] = Exported(w.nodes[k])
         /\ NodeIDs(A) = NodeIDs(w) /\ Edges(A) = Edges(w) /\ Mentioned(A) = Mentioned(w)
PROOF
<1> DEFINE A == toWorkflowDef(w)
           n == Len(w.nodes)
           P == Positions(w)
<1>1. n \in Nat /\ P = 1..n /\ (\A k \in P : w.nodes[k] \in NodesOf(w))
      /\ NodesOf(w) = {w.nodes[k] : k \in P}
  BY LenProperties DEF IsParsed, IsList, Positions, NodesOf
<1>2. \A m \in NodesOf(w) : NodeFields \subseteq DOMAIN m /\ IsList(m.branches)
  BY DEF HasFields, NodeFields, IsParsed
<1>3. A = [w EXCEPT !.nodes = [k \in P |-> Exported(w.nodes[k])]]
  BY DEF toWorkflowDef, Exported
<1>4. A.start = w.start /\ A.nodes = [k \in P |-> Exported(w.nodes[k])]
  BY <1>3 DEF HasFields
<1> HIDE DEF A, n, P
<1>5. A.nodes = [k \in 1..n |-> A.nodes[k]]
  BY <1>1, <1>4
<1>6. IsList(A.nodes) /\ Len(A.nodes) = n
  BY <1>1, <1>5, ListOfAny
<1>7. NodesOf(A) = {Exported(m) : m \in NodesOf(w)}
  <2>1. NodesOf(A) = {A.nodes[k] : k \in P}
    <3>1. Len(A.nodes) = n
      BY <1>6
    <3> QED BY <1>1, <3>1 DEF NodesOf
  <2>2. \A k \in P : A.nodes[k] = Exported(w.nodes[k])
    BY <1>4
  <2>3. NodesOf(A) = {Exported(w.nodes[k]) : k \in P}
    BY <2>1, <2>2
  <2>4. {Exported(w.nodes[k]) : k \in P} = {Exported(m) : m \in NodesOf(w)}
    BY <1>1
  <2> QED BY <2>3, <2>4
<1>8. \A m \in NodesOf(w) : /\ Exported(m).id = m.id /\ Exported(m).type = m.type
                            /\ Exported(m).next = IF m.type # "filter" THEN m.next ELSE NoNode
                            /\ Exported(m).branches = IF m.type = "filter" THEN m.branches ELSE <<>>
  BY <1>2, KeptIs
<1>9. IsParsed(A)
  <2>1. IsList(<<>>)
    BY DEF IsList
  <2> QED BY <1>2, <1>6, <1>7, <1>8, <2>1 DEF IsParsed
<1>10. \A m \in NodesOf(w) : Successors(Exported(m)) = Successors(m)
  BY <1>8 DEF Successors
<1>11. NodeIDs(A) = NodeIDs(w)
  BY <1>7, <1>8 DEF NodeIDs
<1>12. Edges(A) = Edges(w)
  <2> DEFINE E(m) == {<<m.id, i, Successors(m)[i]>> : i \in 1..Len(Successors(m))}
  <2>1. \A m \in NodesOf(w) : E(Exported(m)) = E(m)
    BY <1>8, <1>10
  <2>2. Edges(A) = UNION {E(m) : m \in NodesOf(A)} /\ Edges(w) = UNION {E(m) : m \in NodesOf(w)}
    BY DEF Edges
  <2> HIDE DEF E
  <2> QED BY <1>7, <2>1, <2>2
<1>13. Mentioned(A) = Mentioned(w)
  BY <1>4, <1>11, <1>12 DEF Mentioned
<1>14. Positions(A) = P
  BY <1>1, <1>6 DEF Positions
<1> QED BY <1>4, <1>6, <1>9, <1>11, <1>12, <1>13, <1>14 DEF A, n, P
=============================================================================
