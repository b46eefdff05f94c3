-------------------------- MODULE ChannelTable_proofs --------------------------
(***************************************************************************)
(* Proofs about ChannelTable, for any bounds, windows, queue sizes and     *)
(* setups of the two applications.  The invariant Rule has five parts      *)
(* besides the types: CoreInv (which id belongs to which conversation, and *)
(* what a message on its way finds), WindowInv, AppInv (what the           *)
(* applications ask for and are told), PendInv and ReplyInv.  A step of a  *)
(* session reads or takes a message about one conversation, changes that   *)
(* conversation's entry and answers on it (Works); what such a step keeps  *)
(* is proved once for each part and used for every handler.                *)
(***************************************************************************)
EXTENDS ChannelTable, SequenceTheorems, FiniteSetTheorems, WellFoundedInduction, TLAPS
-----------------------------------------------------------------------------
(* Sums *)

Less == {ss \in Nat \X Nat : ss[1] < ss[2]}

LEMMA LessWF == IsWellFoundedOn(Less, Nat)
BY NatLessThanWellFounded, Zenon DEF OpToRel, Less

LEMMA LeastNumber ==
  ASSUME NEW T \in SUBSET Nat, T # {}
  PROVE  \E x \in T : \A y \in T : x <= y
<1>1. \E x \in T : \A y \in T : ~ (<<y, x>> \in Less)
  BY LessWF, WFMin
<1>2. PICK x \in T : \A y \in T : ~ (<<y, x>> \in Less)
  BY <1>1
<1>3. \A y \in T : ~(y < x)
  BY <1>2 DEF Less
<1> QED
  BY <1>3

LEMMA SetInduction ==
  ASSUME NEW S, 0 \in S, \A n \in Nat : n \in S => n + 1 \in S
  PROVE  Nat \subseteq S
<1> SUFFICES ASSUME Nat \ S # {} PROVE FALSE
  OBVIOUS
<1>1. PICK x \in Nat \ S : \A y \in Nat \ S : x <= y
  BY LeastNumber
<1>2. x # 0
  OBVIOUS
<1>3. x - 1 \in Nat
  BY <1>2
<1>4. x - 1 \in S
  BY <1>1, <1>3
<1>5. (x - 1) + 1 \in S
  BY <1>3, <1>4
<1> QED
  BY <1>5
(* h[i] is f[1] + ... + f[i], for every i up to n. *)
IsSum(h, f, n) ==
  /\ h \in [0..n -> Int] /\ h[0] = 0
  /\ \A i \in 1..n : h[i] = h[i - 1] + f[i]

(* Integers have running sums, ... *)
LEMMA SumExists ==
  ASSUME NEW f, NEW m \in Nat, \A i \in 1..m : f[i] \in Int
  PROVE  \E h : IsSum(h, f, m)
<1> DEFINE S == {n \in Nat : n <= m => \E h : IsSum(h, f, n)}
<1>1. 0 \in S
  <2>1. IsSum([i \in 0..0 |-> 0], f, 0)
    BY DEF IsSum
  <2> QED
    BY <2>1
<1>2. ASSUME NEW n \in Nat, n \in S PROVE n + 1 \in S
  <2>1. SUFFICES ASSUME n + 1 <= m PROVE \E h : IsSum(h, f, n + 1)
    OBVIOUS
  <2>2. PICK h : IsSum(h, f, n)
    BY <1>2, <2>1
  <2>3. f[n + 1] \in Int
    BY <2>1
  <2> DEFINE g == [i \in 0..(n + 1) |-> IF i = n + 1 THEN h[n] + f[n + 1] ELSE h[i]]
  <2>4. g \in [0..(n + 1) -> Int] /\ g[0] = 0
    BY <2>2, <2>3 DEF IsSum
  <2>5. ASSUME NEW i \in 1..(n + 1) PROVE g[i] = g[i - 1] + f[i]
    <3>1. CASE i = n + 1
      <4>1. g[n + 1] = h[n] + f[n + 1] /\ g[n] = h[n]
        OBVIOUS
      <4> QED
        BY <3>1, <4>1
    <3>2. CASE i # n + 1
      <4>1. i \in 1..n /\ g[i] = h[i] /\ g[i - 1] = h[i - 1]
        BY <3>2
      <4> QED
        BY <2>2, <4>1 DEF IsSum
    <3> QED
      BY <3>1, <3>2
  <2> HIDE DEF g
  <2> QED
    BY <2>4, <2>5 DEF IsSum
<1> HIDE DEF S
<1>3. m \in S
  BY <1>1, <1>2, SetInduction
<1> QED
  BY <1>3 DEF S

(* ... and it is the one SumTo computes. *)
LEMMA SumIs ==
  ASSUME NEW f, NEW m \in Nat, \A i \in 1..m : f[i] \in Int, NEW h, IsSum(h, f, m)
  PROVE  SumTo(f, m) = h[m]
<1> DEFINE Def(g) == [i \in 0..m |-> IF i = 0 THEN 0 ELSE g[i - 1] + f[i]]
           sum == CHOOSE g : g = Def(g)
<1>1. h = Def(h)
  BY DEF IsSum
<1>2. sum = Def(sum)
  <2> HIDE DEF Def
  <2> QED
    BY <1>1
<1>3. SumTo(f, m) = sum[m]
  BY DEF SumTo
<1> HIDE DEF sum
<1>4. sum[0] = 0 /\ \A i \in 1..m : sum[i] = sum[i - 1] + f[i]
  BY <1>2
<1> DEFINE S == {n \in Nat : n <= m => sum[n] = h[n]}
<1>5. 0 \in S
  BY <1>4 DEF IsSum
<1>6. ASSUME NEW n \in Nat, n \in S PROVE n + 1 \in S
  <2>1. SUFFICES ASSUME n + 1 <= m PROVE sum[n + 1] = h[n + 1]
    OBVIOUS
  <2>2. sum[n] = h[n] /\ n + 1 \in 1..m /\ (n + 1) - 1 = n
    BY <1>6, <2>1
  <2> QED
    BY <1>4, <2>2 DEF IsSum
<1> HIDE DEF S
<1>7. m \in S
  BY <1>5, <1>6, SetInduction
<1> QED
  BY <1>3, <1>7 DEF S

(* A sum of k + m terms is that of the first k and that of the other m. *)
LEMMA SumSplit ==
  ASSUME NEW k \in Nat, NEW m \in Nat, NEW f, NEW g,
         \A i \in 1..(k + m) : f[i] \in Int,
         \A i \in 1..m : g[i] = f[k + i]
  PROVE  /\ SumTo(f, k) \in Int /\ SumTo(g, m) \in Int
         /\ SumTo(f, k + m) = SumTo(f, k) + SumTo(g, m)
<1>1. k + m \in Nat /\ 1..k \subseteq 1..(k + m)
  OBVIOUS
<1>2. PICK h : IsSum(h, f, k + m)
  BY <1>1, SumExists
<1>3. SumTo(f, k + m) = h[k + m] /\ h[k] \in Int /\ h[k + m] \in Int
  <2>1. SumTo(f, k + m) = h[k + m]
    BY <1>1, <1>2, SumIs
  <2> QED
    BY <1>1, <1>2, <2>1 DEF IsSum
<1> DEFINE a == [i \in 0..k |-> h[i]]
           b == [i \in 0..m |-> h[k + i] - h[k]]
<1>4. IsSum(a, f, k) /\ a[k] = h[k]
  <2>1. a \in [0..k -> Int] /\ a[0] = 0 /\ a[k] = h[k]
    BY <1>2 DEF IsSum
  <2>2. ASSUME NEW i \in 1..k PROVE a[i] = a[i - 1] + f[i]
    <3>1. a[i] = h[i] /\ a[i - 1] = h[i - 1] /\ i \in 1..(k + m)
      OBVIOUS
    <3> QED
      BY <1>2, <3>1 DEF IsSum
  <2> HIDE DEF a
  <2> QED
    BY <2>1, <2>2 DEF IsSum
<1>5. IsSum(b, g, m) /\ b[m] = h[k + m] - h[k]
  <2>1. \A i \in 0..m : h[k + i] \in Int
    BY <1>2 DEF IsSum
  <2>2. b \in [0..m -> Int] /\ b[0] = 0 /\ b[m] = h[k + m] - h[k]
    <3>1. m \in 0..m /\ \A i \in 0..m : h[k + i] - h[k] \in Int
      <4>1. h[k] \in Int
        BY <1>3
      <4> QED
        BY <2>1, <4>1
    <3>2. b \in [0..m -> Int] /\ b[m] = h[k + m] - h[k]
      BY <3>1
    <3>3. b[0] = h[k + 0] - h[k] /\ k + 0 = k
      OBVIOUS
    <3> HIDE DEF b
    <3>4. b[0] = h[k] - h[k]
      BY <3>3
    <3> QED
      BY <1>3, <3>2, <3>4
  <2>3. ASSUME NEW i \in 1..m PROVE b[i] = b[i - 1] + g[i]
    <3>1. /\ b[i] = h[k + i] - h[k] /\ b[i - 1] = h[k + (i - 1)] - h[k]
          /\ k + i \in 1..(k + m) /\ k + (i - 1) = (k + i) - 1
      OBVIOUS
    <3>2. h[k + i] = h[(k + i) - 1] + f[k + i]
      BY <1>2, <3>1 DEF IsSum
    <3>3. h[k + i] \in Int /\ h[(k + i) - 1] \in Int /\ g[i] = f[k + i] /\ f[k + i] \in Int
      BY <1>2, <3>1 DEF IsSum
    <3>4. b[i - 1] = h[(k + i) - 1] - h[k]
      BY <3>1
    <3> HIDE DEF b
    <3> QED
      BY <1>3, <3>1, <3>2, <3>3, <3>4
  <2> HIDE DEF b
  <2> QED
    BY <2>2, <2>3 DEF IsSum
<1> HIDE DEF a, b
<1>6. SumTo(f, k) = h[k]
  BY <1>1, <1>4, SumIs
<1>7. \A i \in 1..m : g[i] \in Int
  <2>1. \A i \in 1..m : k + i \in 1..(k + m)
    OBVIOUS
  <2> QED
    BY <2>1
<1>8. SumTo(g, m) = h[k + m] - h[k]
  BY <1>5, <1>7, SumIs
<1> QED
  BY <1>3, <1>6, <1>8

(* The empty sum, one more term, and sums of equal terms. *)
LEMMA SumEmpty == ASSUME NEW f PROVE SumTo(f, 0) = 0
<1>1. IsSum([i \in 0..0 |-> 0], f, 0)
  BY DEF IsSum
<1> QED
  BY <1>1, SumIs

LEMMA SumNext ==
  ASSUME NEW f, NEW n \in Nat, \A i \in 1..(n + 1) : f[i] \in Int
  PROVE  SumTo(f, n + 1) = SumTo(f, n) + f[n + 1]
<1>1. n + 1 \in Nat /\ 1..n \subseteq 1..(n + 1) /\ n + 1 \in 1..(n + 1)
  OBVIOUS
<1>2. PICK h : IsSum(h, f, n + 1)
  BY <1>1, SumExists
<1> DEFINE a == [i \in 0..n |-> h[i]]
<1>3. a \in [0..n -> Int] /\ a[0] = 0 /\ a[n] = h[n]
  BY <1>2 DEF IsSum
<1>4. ASSUME NEW i \in 1..n PROVE a[i] = a[i - 1] + f[i]
  <2>1. a[i] = h[i] /\ a[i - 1] = h[i - 1] /\ i \in 1..(n + 1)
    OBVIOUS
  <2> QED
    BY <1>2, <2>1 DEF IsSum
<1> HIDE DEF a
<1>5. IsSum(a, f, n)
  BY <1>3, <1>4 DEF IsSum
<1>6. SumTo(f, n) = h[n]
  BY <1>1, <1>3, <1>5, SumIs
<1>7. SumTo(f, n + 1) = h[n + 1]
  BY <1>1, <1>2, SumIs
<1>8. h[n + 1] = h[(n + 1) - 1] + f[n + 1] /\ (n + 1) - 1 = n
  BY <1>1, <1>2 DEF IsSum
<1> QED
  BY <1>6, <1>7, <1>8

LEMMA SumSame ==
  ASSUME NEW f, NEW g, NEW n \in Nat,
         \A i \in 1..n : f[i] \in Int, \A i \in 1..n : g[i] = f[i]
  PROVE  SumTo(g, n) = SumTo(f, n)
<1>1. PICK h : IsSum(h, f, n)
  BY SumExists
<1>2. IsSum(h, g, n)
  BY <1>1 DEF IsSum
<1>3. SumTo(f, n) = h[n]
  BY <1>1, SumIs
<1>4. SumTo(g, n) = h[n]
  BY <1>2, SumIs
<1> QED
  BY <1>3, <1>4

LEMMA SumNat ==
  ASSUME NEW f, NEW m \in Nat, \A i \in 1..m : f[i] \in Nat
  PROVE  /\ SumTo(f, m) \in Nat
         /\ (\A i \in 1..m : f[i] = 0) => SumTo(f, m) = 0
<1> DEFINE S == {n \in Nat : n <= m => /\ SumTo(f, n) \in Nat
                                       /\ (\A i \in 1..n : f[i] = 0) => SumTo(f, n) = 0}
<1>1. 0 \in S
  BY SumEmpty
<1>2. ASSUME NEW n \in Nat, n \in S PROVE n + 1 \in S
  <2>1. SUFFICES ASSUME n + 1 <= m
                 PROVE  /\ SumTo(f, n + 1) \in Nat
                        /\ (\A i \in 1..(n + 1) : f[i] = 0) => SumTo(f, n + 1) = 0
    OBVIOUS
  <2>2. /\ SumTo(f, n) \in Nat
        /\ (\A i \in 1..n : f[i] = 0) => SumTo(f, n) = 0
        /\ n + 1 \in 1..m
    BY <1>2, <2>1
  <2>3. \A i \in 1..(n + 1) : f[i] \in Int
    BY <2>1
  <2>4. SumTo(f, n + 1) = SumTo(f, n) + f[n + 1]
    BY <2>3, SumNext
  <2>5. f[n + 1] \in Nat /\ SumTo(f, n + 1) \in Nat
    BY <2>2, <2>4
  <2>6. ASSUME \A i \in 1..(n + 1) : f[i] = 0 PROVE SumTo(f, n + 1) = 0
    <3>1. f[n + 1] = 0 /\ \A i \in 1..n : f[i] = 0
      BY <2>6
    <3> QED
      BY <2>2, <2>4, <3>1
  <2> QED
    BY <2>5, <2>6
<1> HIDE DEF S
<1>3. m \in S
  BY <1>1, <1>2, SetInduction
<1> QED
  BY <1>3 DEF S

-----------------------------------------------------------------------------
(* The weight of a sequence *)

Weigh(s, w) == SumTo([i \in DOMAIN s |-> w[s[i]]], Len(s))

LEMMA WeighNat ==
  ASSUME NEW X, NEW w \in [X -> Nat], NEW s \in Seq(X)
  PROVE  /\ Weigh(s, w) \in Nat
         /\ (\A i \in 1..Len(s) : w[s[i]] = 0) => Weigh(s, w) = 0
<1> DEFINE f == [i \in DOMAIN s |-> w[s[i]]]
<1>1. Len(s) \in Nat /\ DOMAIN s = 1..Len(s)
  OBVIOUS
<1>2. \A i \in 1..Len(s) : f[i] = w[s[i]] /\ f[i] \in Nat
  BY <1>1
<1>3. Weigh(s, w) = SumTo(f, Len(s))
  BY DEF Weigh
<1> HIDE DEF f
<1>4. SumTo(f, Len(s)) \in Nat /\ ((\A i \in 1..Len(s) : f[i] = 0) => SumTo(f, Len(s)) = 0)
  BY <1>1, <1>2, SumNat
<1> QED
  BY <1>2, <1>3, <1>4

LEMMA SumJoin ==
  ASSUME NEW k \in Nat, NEW n \in Nat, NEW m \in Nat, m = k + n, NEW f, NEW g, NEW h,
         \A i \in 1..m : f[i] \in Int,
         \A i \in 1..k : g[i] = f[i], \A i \in 1..n : h[i] = f[k + i]
  PROVE  SumTo(f, m) = SumTo(g, k) + SumTo(h, n)
<1>1. SumTo(f, k + n) = SumTo(f, k) + SumTo(h, n)
  BY SumSplit
<1>2. \A i \in 1..k : f[i] \in Int
  OBVIOUS
<1>3. SumTo(g, k) = SumTo(f, k)
  BY <1>2, SumSame
<1> QED
  BY <1>1, <1>3

LEMMA WeighJoin ==
  ASSUME NEW X, NEW w, NEW s, NEW t, w \in [X -> Nat], s \in Seq(X), t \in Seq(X)
  PROVE  Weigh(s \o t, w) = Weigh(s, w) + Weigh(t, w)
<1>1. PICK u : u = s \o t
  OBVIOUS
<1>2. /\ Len(s) \in Nat /\ Len(t) \in Nat /\ u \in Seq(X) /\ Len(u) = Len(s) + Len(t)
      /\ DOMAIN s = 1..Len(s) /\ DOMAIN t = 1..Len(t) /\ DOMAIN u = 1..Len(u)
  BY <1>1
<1>3. /\ \A i \in 1..Len(s) : u[i] = s[i]
      /\ \A i \in 1..Len(t) : u[Len(s) + i] = t[i]
  BY <1>1
<1>4. PICK f, g, h : /\ f = [i \in DOMAIN u |-> w[u[i]]]
                     /\ g = [i \in DOMAIN s |-> w[s[i]]]
                     /\ h = [i \in DOMAIN t |-> w[t[i]]]
  OBVIOUS
<1>5. /\ Weigh(u, w) = SumTo(f, Len(u))
      /\ Weigh(s, w) = SumTo(g, Len(s)) /\ Weigh(t, w) = SumTo(h, Len(t))
  BY <1>4 DEF Weigh
<1>6. \A i \in 1..(Len(s) + Len(t)) : f[i] \in Int
  <2>1. \A i \in 1..Len(u) : u[i] \in X
    BY <1>2
  <2> QED
    BY <1>2, <1>4, <2>1
<1>7. \A i \in 1..Len(t) : h[i] = f[Len(s) + i]
  <2> TAKE i \in 1..Len(t)
  <2>1. Len(s) + i \in 1..Len(u)
    BY <1>2
  <2> QED
    BY <1>2, <1>3, <1>4, <2>1
<1>8. \A i \in 1..Len(s) : g[i] = f[i]
  <2> TAKE i \in 1..Len(s)
  <2>1. i \in 1..Len(u)
    BY <1>2
  <2> QED
    BY <1>2, <1>3, <1>4, <2>1
<1>9. SumTo(f, Len(s) + Len(t)) = SumTo(g, Len(s)) + SumTo(h, Len(t))
  <2>1. Len(s) \in Nat /\ Len(t) \in Nat /\ Len(u) \in Nat /\ Len(u) = Len(s) + Len(t)
    BY <1>2
  <2>2. \A i \in 1..Len(u) : f[i] \in Int
    BY <1>2, <1>6
  <2>3. SumTo(f, Len(u)) = SumTo(g, Len(s)) + SumTo(h, Len(t))
    BY ONLY <2>2, <1>8, <1>7, <2>1, SumJoin, SMTT(60)
  <2> QED
    BY <1>2, <2>3
<1>10. Weigh(u, w) = Weigh(s, w) + Weigh(t, w)
  BY <1>2, <1>5, <1>9
<1> QED
  BY <1>1, <1>10

LEMMA WeighConcat ==
  ASSUME NEW X, NEW w \in [X -> Nat], NEW s \in Seq(X), NEW t \in Seq(X)
  PROVE  Weigh(s \o t, w) = Weigh(s, w) + Weigh(t, w)
BY WeighJoin

LEMMA WeighOne ==
  ASSUME NEW X, NEW w \in [X -> Nat], NEW x \in X
  PROVE  Weigh(<<x>>, w) = w[x] /\ <<x>> \in Seq(X)
<1> DEFINE s == <<x>>
           f == [i \in DOMAIN s |-> w[s[i]]]
<1>1. s \in Seq(X) /\ Len(s) = 1 /\ s[1] = x /\ 0 + 1 = 1
  OBVIOUS
<1>2. f[1] = w[x] /\ \A i \in 1..1 : f[i] \in Int
  OBVIOUS
<1>3. Weigh(s, w) = SumTo(f, 1)
  BY <1>1 DEF Weigh
<1> HIDE DEF f
<1>4. SumTo(f, 0 + 1) = SumTo(f, 0) + f[0 + 1]
  BY <1>2, SumNext
<1>5. SumTo(f, 0) = 0
  BY SumEmpty
<1> HIDE DEF s
<1>6. Weigh(s, w) = w[x] /\ s \in Seq(X)
  BY <1>1, <1>2, <1>3, <1>4, <1>5
<1> QED
  BY <1>6 DEF s

LEMMA WeighTail ==
  ASSUME NEW X, NEW w \in [X -> Nat], NEW s \in Seq(X), s # <<>>
  PROVE  Weigh(s, w) = w[Head(s)] + Weigh(Tail(s), w)
<1>1. s = <<Head(s)>> \o Tail(s) /\ Head(s) \in X /\ Tail(s) \in Seq(X)
  OBVIOUS
<1>2. Weigh(<<Head(s)>>, w) = w[Head(s)] /\ <<Head(s)>> \in Seq(X)
  BY <1>1, WeighOne
<1>3. Weigh(<<Head(s)>> \o Tail(s), w) = Weigh(<<Head(s)>>, w) + Weigh(Tail(s), w)
  BY <1>1, <1>2, WeighConcat
<1> QED
  BY <1>1, <1>2, <1>3

LEMMA WeighAppend ==
  ASSUME NEW X, NEW w \in [X -> Nat], NEW s \in Seq(X), NEW x \in X
  PROVE  Weigh(Append(s, x), w) = Weigh(s, w) + w[x]
<1>1. Append(s, x) = s \o <<x>> /\ <<x>> \in Seq(X)
  OBVIOUS
<1>2. Weigh(s \o <<x>>, w) = Weigh(s, w) + Weigh(<<x>>, w)
  BY <1>1, WeighConcat
<1>3. Weigh(<<x>>, w) = w[x]
  BY WeighOne
<1> QED
  BY <1>1, <1>2, <1>3

-----------------------------------------------------------------------------
(* The elements of a sequence *)

Elems(s) == {s[i] : i \in 1..Len(s)}

LEMMA ElemsEmpty == Elems(<<>>) = {}
BY DEF Elems

LEMMA ElemsTyped ==
  ASSUME NEW X, NEW s \in Seq(X) PROVE Elems(s) \subseteq X
BY DEF Elems

LEMMA ElemsTail ==
  ASSUME NEW X, NEW s \in Seq(X), s # <<>>
  PROVE  /\ Head(s) \in Elems(s)
         /\ Elems(Tail(s)) \subseteq Elems(s)
         /\ \A x \in Elems(s) : x # Head(s) => x \in Elems(Tail(s))
<1> DEFINE t == Tail(s)
<1>1. Len(t) = Len(s) - 1 /\ Len(s) \in Nat \ {0} /\ Head(s) = s[1]
  OBVIOUS
<1>2. \A i \in 1..(Len(s) - 1) : t[i] = s[i + 1]
  OBVIOUS
<1> HIDE DEF t
<1>3. Head(s) \in Elems(s)
  BY <1>1 DEF Elems
<1>4. ASSUME NEW i \in 1..Len(t) PROVE t[i] \in Elems(s)
  <2>1. i + 1 \in 1..Len(s) /\ t[i] = s[i + 1]
    BY <1>1, <1>2
  <2> QED
    BY <2>1 DEF Elems
<1>5. ASSUME NEW i \in 1..Len(s), s[i] # Head(s) PROVE s[i] \in Elems(t)
  <2>1. i - 1 \in 1..Len(t) /\ (i - 1) + 1 = i
    BY <1>1, <1>5
  <2>2. t[i - 1] = s[i]
    BY <1>1, <1>2, <2>1
  <2> QED
    BY <2>1, <2>2 DEF Elems
<1>6. Elems(t) \subseteq Elems(s)
  BY <1>4 DEF Elems
<1>7. \A x \in Elems(s) : x # Head(s) => x \in Elems(t)
  <2> TAKE x \in Elems(s)
  <2>1. PICK i \in 1..Len(s) : x = s[i]
    BY DEF Elems
  <2> QED
    BY <1>5, <2>1
<1> QED
  BY <1>3, <1>6, <1>7 DEF t

LEMMA ElemsConcat ==
  ASSUME NEW X, NEW s \in Seq(X), NEW t \in Seq(X)
  PROVE  Elems(s \o t) = Elems(s) \cup Elems(t)
<1> DEFINE u == s \o t
<1>1. Len(u) = Len(s) + Len(t) /\ Len(s) \in Nat /\ Len(t) \in Nat
  OBVIOUS
<1>2. \A i \in 1..Len(s) : u[i] = s[i]
  OBVIOUS
<1>3. \A i \in 1..Len(t) : u[Len(s) + i] = t[i]
  OBVIOUS
<1> HIDE DEF u
<1>4. ASSUME NEW i \in 1..Len(u) PROVE u[i] \in Elems(s) \cup Elems(t)
  <2>1. CASE i \in 1..Len(s)
    BY <1>2, <2>1 DEF Elems
  <2>2. CASE i \notin 1..Len(s)
    <3>1. i - Len(s) \in 1..Len(t) /\ Len(s) + (i - Len(s)) = i
      BY <1>1, <2>2
    <3>2. u[i] = t[i - Len(s)]
      BY <1>3, <3>1
    <3> QED
      BY <3>1, <3>2 DEF Elems
  <2> QED
    BY <2>1, <2>2
<1>5. ASSUME NEW i \in 1..Len(s) PROVE s[i] \in Elems(u)
  <2>1. i \in 1..Len(u) /\ u[i] = s[i]
    BY <1>1, <1>2
  <2> QED
    BY <2>1 DEF Elems
<1>6. ASSUME NEW i \in 1..Len(t) PROVE t[i] \in Elems(u)
  <2>1. Len(s) + i \in 1..Len(u) /\ u[Len(s) + i] = t[i]
    BY <1>1, <1>3
  <2> QED
    BY <2>1 DEF Elems
<1>7. Elems(u) \subseteq Elems(s) \cup Elems(t)
  <2>1. ASSUME NEW x \in Elems(u) PROVE x \in Elems(s) \cup Elems(t)
    <3>1. PICK i \in 1..Len(u) : x = u[i]
      BY DEF Elems
    <3> QED
      BY <1>4, <3>1
  <2> QED
    BY <2>1
<1>8. Elems(s) \subseteq Elems(u) /\ Elems(t) \subseteq Elems(u)
  BY <1>5, <1>6 DEF Elems
<1>9. Elems(u) = Elems(s) \cup Elems(t)
  BY <1>7, <1>8
<1> QED
  BY <1>9 DEF u

LEMMA ElemsOne ==
  ASSUME NEW x PROVE Elems(<<x>>) = {x}
<1>1. Len(<<x>>) = 1 /\ <<x>>[1] = x /\ 1..1 = {1}
  OBVIOUS
<1> QED
  BY <1>1 DEF Elems
-----------------------------------------------------------------------------
(* The first message of a conversation *)

(* The messages that come first in their conversation on a line *)
Heralds == {"open", "confirmation", "open-failure"}

First(s) ==
  \A k \in 1..Len(s) : s[k].t \in Heralds => \A j \in 1..(k - 1) : s[j].c # s[k].c

LEMMA FirstTail ==
  ASSUME NEW X, NEW s \in Seq(X), s # <<>>, First(s)
  PROVE  /\ First(Tail(s))
         /\ \A x \in Elems(Tail(s)) : x.t \in Heralds => x.c # Head(s).c
<1> DEFINE t == Tail(s)
<1>1. Len(t) = Len(s) - 1 /\ Len(s) \in Nat \ {0} /\ Head(s) = s[1]
  OBVIOUS
<1>2. \A i \in 1..(Len(s) - 1) : t[i] = s[i + 1]
  OBVIOUS
<1> HIDE DEF t
<1>3. \A i \in 1..Len(t) : i + 1 \in 1..Len(s) /\ t[i] = s[i + 1] /\ 1 \in 1..((i + 1) - 1)
  BY <1>1, <1>2
<1>4. ASSUME NEW k \in 1..Len(t), t[k].t \in Heralds, NEW j \in 1..(k - 1) PROVE t[j].c # t[k].c
  <2>1. j \in 1..Len(t) /\ j + 1 \in 1..((k + 1) - 1)
    BY <1>1
  <2> QED
    BY <1>3, <1>4, <2>1, SMTT(60) DEF First
<1>5. ASSUME NEW i \in 1..Len(t), t[i].t \in Heralds PROVE t[i].c # Head(s).c
  BY <1>1, <1>3, <1>5 DEF First
<1>6. First(t)
  BY <1>4 DEF First
<1>7. \A x \in Elems(t) : x.t \in Heralds => x.c # Head(s).c
  BY <1>5 DEF Elems
<1> QED
  BY <1>6, <1>7 DEF t

LEMMA FirstOthers ==
  ASSUME NEW X, NEW s \in Seq(X), NEW t \in Seq(X), First(s), \A x \in Elems(t) : x.t \notin Heralds
  PROVE  First(s \o t)
<1> DEFINE u == s \o t
<1>1. Len(u) = Len(s) + Len(t) /\ Len(s) \in Nat /\ Len(t) \in Nat
  OBVIOUS
<1>2. \A i \in 1..Len(s) : u[i] = s[i]
  OBVIOUS
<1>3. \A i \in 1..Len(t) : u[Len(s) + i] = t[i]
  OBVIOUS
<1> HIDE DEF u
<1>4. ASSUME NEW i \in 1..Len(u), u[i].t \in Heralds PROVE i \in 1..Len(s)
  <2>1. CASE i > Len(s)
    <3>1. i - Len(s) \in 1..Len(t) /\ Len(s) + (i - Len(s)) = i
      BY <1>1, <2>1
    <3>2. u[i] = t[i - Len(s)]
      BY <1>3, <3>1
    <3>3. u[i] \in Elems(t)
      BY <3>1, <3>2 DEF Elems
    <3> QED
      BY <1>4, <3>3
  <2> QED
    BY <1>1, <2>1
<1>5. ASSUME NEW k \in 1..Len(u), u[k].t \in Heralds, NEW j \in 1..(k - 1) PROVE u[j].c # u[k].c
  <2>1. k \in 1..Len(s) /\ j \in 1..Len(s)
    BY <1>1, <1>4, <1>5
  <2> QED
    BY <1>2, <1>5, <2>1 DEF First
<1>6. First(u)
  BY <1>5 DEF First
<1> QED
  BY <1>6 DEF u

LEMMA FirstNew ==
  ASSUME NEW X, NEW s \in Seq(X), NEW x \in X, First(s), \A y \in Elems(s) : y.c # x.c
  PROVE  First(Append(s, x))
<1> DEFINE u == Append(s, x)
<1>1. Len(u) = Len(s) + 1 /\ Len(s) \in Nat
  OBVIOUS
<1>2. \A i \in 1..Len(s) : u[i] = s[i]
  OBVIOUS
<1>3. u[Len(s) + 1] = x
  OBVIOUS
<1> HIDE DEF u
<1>4. ASSUME NEW k \in 1..Len(u), u[k].t \in Heralds, NEW j \in 1..(k - 1) PROVE u[j].c # u[k].c
  <2>1. j \in 1..Len(s) /\ u[j] = s[j]
    BY <1>1, <1>2
  <2>2. CASE k = Len(s) + 1
    <3>1. s[j] \in Elems(s)
      BY <2>1 DEF Elems
    <3> QED
      BY <1>3, <2>1, <2>2, <3>1
  <2>3. CASE k # Len(s) + 1
    <3>1. k \in 1..Len(s) /\ u[k] = s[k]
      BY <1>1, <1>2, <2>3
    <3> QED
      BY <1>4, <2>1, <3>1 DEF First
  <2> QED
    BY <2>2, <2>3
<1>5. First(u)
  BY <1>4 DEF First
<1> QED
  BY <1>5 DEF u

LEMMA FirstEmpty == First(<<>>)
BY DEF First

LEMMA ElemsAppend ==
  ASSUME NEW X, NEW s \in Seq(X), NEW x \in X
  PROVE  Elems(Append(s, x)) = Elems(s) \cup {x} /\ Append(s, x) \in Seq(X)
<1>1. Append(s, x) = s \o <<x>> /\ <<x>> \in Seq(X) /\ Append(s, x) \in Seq(X)
  OBVIOUS
<1> QED
  <2>1. Elems(s \o <<x>>) = Elems(s) \cup Elems(<<x>>)
    BY <1>1, ElemsConcat, ZenonT(60)
  <2>2. Elems(<<x>>) = {x}
    BY ElemsOne
  <2> QED
    BY <1>1, <2>1, <2>2

-----------------------------------------------------------------------------
(* Types *)

Ordinary == {"data", "eof", "close", "adjust", "request", "success", "failure"}

(* What a message may say besides: a name, nothing, a channel id *)
Labels   == {"", "exit-status", "exec", "agent", "notice", "other"} \cup Decided \cup Refused \cup Nat

Packets  == [t : Heralds \cup Ordinary, id : Nat, k : Labels, n : Nat, c : Conv]
Requests == [t : {"open", "data", "eof", "close", "exit-status", "request", "success", "failure"},
             c : Conv, k : Labels, n : Nat]
NoteNames == {"Open", "OpenFailure", "Eof", "Data", "WindowAdjusted", "ExitStatus", "Success",
              "Failure", "Request"}
Notes    == [t : NoteNames, c : Conv]
Params   == [peer : Nat, confirmed : BOOLEAN, wants : BOOLEAN, swin : Nat, rwin : Nat,
             pend : Nat, peof : BOOLEAN, pclose : BOOLEAN, c : Conv]

Tables    == UNION {[S -> Params] : S \in SUBSET Ids}
RefTables == UNION {[S -> Conv] : S \in SUBSET Ids}
Encs      == [chans : Tables, out : Seq(Packets)]

LEMMA TableIs ==
  ASSUME NEW f
  PROVE  f \in Tables <=> DOMAIN f \subseteq Ids /\ f \in [DOMAIN f -> Params]
BY DEF Tables

LEMMA TableFacts ==
  ASSUME NEW f \in Tables
  PROVE  /\ DOMAIN f \subseteq Ids /\ f = [i \in DOMAIN f |-> f[i]]
         /\ \A i \in DOMAIN f : f[i] \in Params
<1>1. DOMAIN f \subseteq Ids /\ f \in [DOMAIN f -> Params]
  BY TableIs
<1> QED
  BY <1>1

LEMMA ParamsFacts ==
  ASSUME NEW a \in Params
  PROVE  /\ a.peer \in Nat /\ a.confirmed \in BOOLEAN /\ a.wants \in BOOLEAN /\ a.swin \in Nat
         /\ a.rwin \in Nat /\ a.pend \in Nat /\ a.peof \in BOOLEAN /\ a.pclose \in BOOLEAN
         /\ a.c \in Conv
BY DEF Params

LEMMA TableExcept ==
  ASSUME NEW f \in Tables, NEW id \in DOMAIN f, NEW a \in Params
  PROVE  /\ [f EXCEPT ![id] = a] \in Tables /\ DOMAIN [f EXCEPT ![id] = a] = DOMAIN f
         /\ [f EXCEPT ![id] = a][id] = a
         /\ \A i \in DOMAIN f \ {id} : [f EXCEPT ![id] = a][i] = f[i]
<1> DEFINE g == [f EXCEPT ![id] = a]
<1>1. DOMAIN f \subseteq Ids /\ f \in [DOMAIN f -> Params]
  BY TableIs
<1>2. DOMAIN g = DOMAIN f /\ g \in [DOMAIN f -> Params]
  BY <1>1
<1>3. g[id] = a /\ \A i \in DOMAIN f \ {id} : g[i] = f[i]
  BY <1>1
<1> HIDE DEF g
<1>4. g \in Tables
  BY <1>1, <1>2, TableIs
<1> QED
  BY <1>2, <1>3, <1>4 DEF g

LEMMA TableWithout ==
  ASSUME NEW f \in Tables, NEW id
  PROVE  /\ Without(f, id) \in Tables /\ DOMAIN Without(f, id) = DOMAIN f \ {id}
         /\ \A i \in DOMAIN f \ {id} : Without(f, id)[i] = f[i]
         /\ id \notin DOMAIN f => Without(f, id) = f
<1> DEFINE g == Without(f, id)
<1>1. DOMAIN f \subseteq Ids /\ f \in [DOMAIN f -> Params]
  BY TableIs
<1>2. g = [x \in DOMAIN f \ {id} |-> f[x]]
  BY DEF Without, Restrict
<1>3. DOMAIN g = DOMAIN f \ {id} /\ \A i \in DOMAIN f \ {id} : g[i] = f[i]
  BY <1>2
<1>4. g \in [DOMAIN f \ {id} -> Params]
  BY <1>1, <1>2
<1>5. id \notin DOMAIN f => g = f
  <2>1. SUFFICES ASSUME id \notin DOMAIN f PROVE g = f
    OBVIOUS
  <2>2. DOMAIN f \ {id} = DOMAIN f
    BY <2>1
  <2> QED
    BY <1>1, <1>2, <2>2
<1> HIDE DEF g
<1>6. g \in Tables
  BY <1>1, <1>3, <1>4, TableIs
<1> QED
  BY <1>3, <1>5, <1>6 DEF g

LEMMA TableWith ==
  ASSUME NEW f \in Tables, NEW id \in Ids, NEW a \in Params
  PROVE  /\ With(f, id, a) \in Tables /\ DOMAIN With(f, id, a) = DOMAIN f \cup {id}
         /\ With(f, id, a)[id] = a
         /\ \A i \in DOMAIN f \ {id} : With(f, id, a)[i] = f[i]
<1> DEFINE g == With(f, id, a)
<1>1. DOMAIN f \subseteq Ids /\ f \in [DOMAIN f -> Params]
  BY TableIs
<1>2. g = [y \in DOMAIN f \cup {id} |-> IF y = id THEN a ELSE f[y]]
  BY DEF With
<1>3. /\ DOMAIN g = DOMAIN f \cup {id} /\ g[id] = a
      /\ \A i \in DOMAIN f \ {id} : g[i] = f[i]
  BY <1>2
<1>4. g \in [DOMAIN f \cup {id} -> Params]
  BY <1>1, <1>2
<1> HIDE DEF g
<1>5. g \in Tables
  BY <1>1, <1>3, <1>4, TableIs
<1> QED
  BY <1>3, <1>5 DEF g

LEMMA PacketFacts ==
  ASSUME NEW t \in Heralds \cup Ordinary, NEW id \in Nat, NEW k \in Labels, NEW n \in Nat,
         NEW c \in Conv
  PROVE  /\ Packet(t, id, k, n, c) \in Packets
         /\ Packet(t, id, k, n, c).t = t /\ Packet(t, id, k, n, c).id = id
         /\ Packet(t, id, k, n, c).k = k /\ Packet(t, id, k, n, c).n = n
         /\ Packet(t, id, k, n, c).c = c
BY DEF Packet, Packets

LEMMA PacketsFacts ==
  ASSUME NEW m \in Packets
  PROVE  /\ m.t \in Heralds \cup Ordinary /\ m.id \in Nat /\ m.n \in Nat /\ m.c \in Conv
         /\ m.k \in Labels
BY DEF Packets

-----------------------------------------------------------------------------
(* Totals *)

AmountOf(X, c, t) == [m \in X |-> IF m.t = t /\ m.c = c THEN m.n ELSE 0]

ReplyOf(c) == [m \in Packets |-> IF m.t \in {"success", "failure"} /\ m.c = c THEN 1 ELSE 0]

LEMMA TotalWeighs ==
  ASSUME NEW X, NEW s \in Seq(X), NEW c, NEW t, \A m \in X : m.n \in Nat
  PROVE  AmountOf(X, c, t) \in [X -> Nat] /\ Total(s, c, t) = Weigh(s, AmountOf(X, c, t))
<1> DEFINE w == AmountOf(X, c, t)
<1>1. w \in [X -> Nat]
  BY DEF AmountOf
<1>2. \A i \in DOMAIN s : w[s[i]] = IF s[i].t = t /\ s[i].c = c THEN s[i].n ELSE 0
  BY DEF AmountOf
<1> HIDE DEF w
<1>3. [i \in DOMAIN s |-> w[s[i]]]
        = [i \in DOMAIN s |-> IF s[i].t = t /\ s[i].c = c THEN s[i].n ELSE 0]
  BY <1>2
<1>4. Total(s, c, t) = Weigh(s, w)
  BY <1>3 DEF Total, Weigh
<1> QED
  BY <1>1, <1>4 DEF w

LEMMA RepliesWeigh ==
  ASSUME NEW s \in Seq(Packets), NEW c
  PROVE  ReplyOf(c) \in [Packets -> Nat] /\ Replies(s, c) = Weigh(s, ReplyOf(c))
<1> DEFINE w == ReplyOf(c)
<1>1. w \in [Packets -> Nat]
  BY DEF ReplyOf
<1>2. \A i \in DOMAIN s : w[s[i]] = IF s[i].t \in {"success", "failure"} /\ s[i].c = c THEN 1 ELSE 0
  BY DEF ReplyOf
<1> HIDE DEF w
<1>3. [i \in DOMAIN s |-> w[s[i]]]
        = [i \in DOMAIN s |-> IF s[i].t \in {"success", "failure"} /\ s[i].c = c THEN 1 ELSE 0]
  BY <1>2
<1>4. Replies(s, c) = Weigh(s, w)
  BY <1>3 DEF Replies, Weigh
<1> QED
  BY <1>1, <1>4 DEF w

(* What a message adds to a total, and to the replies *)
Amount(m, c, t) == IF m.t = t /\ m.c = c THEN m.n ELSE 0

One(m, c) == IF m.t \in {"success", "failure"} /\ m.c = c THEN 1 ELSE 0

LEMMA TotalFacts ==
  ASSUME NEW X, \A m \in X : m.n \in Nat, NEW s \in Seq(X), NEW c, NEW t
  PROVE  /\ Total(s, c, t) \in Nat
         /\ (\A m \in Elems(s) : m.t # t \/ m.c # c) => Total(s, c, t) = 0
         /\ s # <<>> => Total(s, c, t) = Amount(Head(s), c, t) + Total(Tail(s), c, t)
         /\ \A x \in X : Total(Append(s, x), c, t) = Total(s, c, t) + Amount(x, c, t)
         /\ \A u \in Seq(X) : Total(s \o u, c, t) = Total(s, c, t) + Total(u, c, t)
<1>1. PICK w : w = AmountOf(X, c, t)
  OBVIOUS
<1>2. w \in [X -> Nat] /\ \A u \in Seq(X) : Total(u, c, t) = Weigh(u, w)
  BY <1>1, TotalWeighs
<1>3. \A x \in X : w[x] = Amount(x, c, t)
  BY <1>1 DEF AmountOf, Amount
<1>4. Total(s, c, t) \in Nat
  BY <1>2, WeighNat
<1>5. ASSUME \A m \in Elems(s) : m.t # t \/ m.c # c PROVE Total(s, c, t) = 0
  <2>1. \A i \in 1..Len(s) : s[i] \in X /\ s[i] \in Elems(s)
    BY DEF Elems
  <2>2. \A i \in 1..Len(s) : w[s[i]] = 0
    BY <1>3, <1>5, <2>1 DEF Amount
  <2> QED
    BY <1>2, <2>2, WeighNat
<1>6. ASSUME s # <<>> PROVE Total(s, c, t) = Amount(Head(s), c, t) + Total(Tail(s), c, t)
  <2>1. Head(s) \in X /\ Tail(s) \in Seq(X)
    BY <1>6
  <2>2. Weigh(s, w) = w[Head(s)] + Weigh(Tail(s), w)
    BY <1>2, <1>6, WeighTail
  <2> QED
    BY <1>2, <1>3, <2>1, <2>2
<1>7. ASSUME NEW x \in X PROVE Total(Append(s, x), c, t) = Total(s, c, t) + Amount(x, c, t)
  <2>1. Append(s, x) \in Seq(X)
    OBVIOUS
  <2>2. Weigh(Append(s, x), w) = Weigh(s, w) + w[x]
    BY <1>2, WeighAppend
  <2> QED
    BY <1>2, <1>3, <2>1, <2>2
<1>8. ASSUME NEW u \in Seq(X) PROVE Total(s \o u, c, t) = Total(s, c, t) + Total(u, c, t)
  <2>1. s \o u \in Seq(X)
    OBVIOUS
  <2>2. Weigh(s \o u, w) = Weigh(s, w) + Weigh(u, w)
    BY <1>2, WeighConcat
  <2> QED
    BY <1>2, <2>1, <2>2
<1> QED
  BY <1>4, <1>5, <1>6, <1>7, <1>8

LEMMA RepliesFacts ==
  ASSUME NEW s \in Seq(Packets), NEW c
  PROVE  /\ Replies(s, c) \in Nat
         /\ (\A m \in Elems(s) : m.t \notin {"success", "failure"} \/ m.c # c) => Replies(s, c) = 0
         /\ s # <<>> => Replies(s, c) = One(Head(s), c) + Replies(Tail(s), c)
         /\ \A x \in Packets : Replies(Append(s, x), c) = Replies(s, c) + One(x, c)
         /\ \A u \in Seq(Packets) : Replies(s \o u, c) = Replies(s, c) + Replies(u, c)
<1>1. PICK w : w = ReplyOf(c)
  OBVIOUS
<1>2. w \in [Packets -> Nat] /\ \A u \in Seq(Packets) : Replies(u, c) = Weigh(u, w)
  BY <1>1, RepliesWeigh
<1>3. \A x \in Packets : w[x] = One(x, c)
  BY <1>1 DEF ReplyOf, One
<1>4. Replies(s, c) \in Nat
  BY <1>2, WeighNat
<1>5. ASSUME \A m \in Elems(s) : m.t \notin {"success", "failure"} \/ m.c # c PROVE Replies(s, c) = 0
  <2>1. \A i \in 1..Len(s) : s[i] \in Packets /\ s[i] \in Elems(s)
    BY DEF Elems
  <2>2. \A i \in 1..Len(s) : w[s[i]] = 0
    BY <1>3, <1>5, <2>1 DEF One
  <2> QED
    BY <1>2, <2>2, WeighNat
<1>6. ASSUME s # <<>> PROVE Replies(s, c) = One(Head(s), c) + Replies(Tail(s), c)
  <2>1. Head(s) \in Packets /\ Tail(s) \in Seq(Packets)
    BY <1>6
  <2>2. Weigh(s, w) = w[Head(s)] + Weigh(Tail(s), w)
    BY <1>2, <1>6, WeighTail
  <2> QED
    BY <1>2, <1>3, <2>1, <2>2
<1>7. ASSUME NEW x \in Packets PROVE Replies(Append(s, x), c) = Replies(s, c) + One(x, c)
  <2>1. Append(s, x) \in Seq(Packets)
    OBVIOUS
  <2>2. Weigh(Append(s, x), w) = Weigh(s, w) + w[x]
    BY <1>2, WeighAppend
  <2> QED
    BY <1>2, <1>3, <2>1, <2>2
<1>8. ASSUME NEW u \in Seq(Packets) PROVE Replies(s \o u, c) = Replies(s, c) + Replies(u, c)
  <2>1. s \o u \in Seq(Packets)
    OBVIOUS
  <2>2. Weigh(s \o u, w) = Weigh(s, w) + Weigh(u, w)
    BY <1>2, WeighConcat
  <2> QED
    BY <1>2, <2>1, <2>2
<1> QED
  BY <1>4, <1>5, <1>6, <1>7, <1>8

-----------------------------------------------------------------------------
(* The operations of struct Encrypted *)

(* T is the table tab after an operation on channel id, which at most        *)
(* forgets the channel, and out what was sent on it.                         *)
Kept(tab, id, T) ==
  /\ T \in Tables
  /\ DOMAIN T = DOMAIN tab \/ DOMAIN T = DOMAIN tab \ {id}
  /\ \A i \in DOMAIN T \ {id} : T[i] = tab[i]
  /\ id \in DOMAIN T =>
       /\ T[id].c = tab[id].c /\ T[id].peer = tab[id].peer
       /\ T[id].confirmed = tab[id].confirmed

Outs(tab, id, out) ==
  /\ out \in Seq(Packets)
  /\ \A m \in Elems(out) : m.t \in Ordinary /\ m.id = tab[id].peer /\ m.c = tab[id].c

(* e is what sending and flushing made of the table tab: with ain more       *)
(* window and din more units of data, what is not sent is pending.           *)
Sent(tab, id, e, din, ain) ==
  /\ e \in Encs /\ Kept(tab, id, e.chans) /\ Outs(tab, id, e.out)
  /\ \A m \in Elems(e.out) : m.t \in {"data", "eof", "close"}
  /\ id \in DOMAIN e.chans =>
       /\ e.chans[id].swin = tab[id].swin
       /\ e.chans[id].rwin + Total(e.out, tab[id].c, "data") = tab[id].rwin + ain
       /\ e.chans[id].pend + Total(e.out, tab[id].c, "data") = tab[id].pend + din

LEMMA PacketAmounts == \A m \in Packets : m.n \in Nat
BY DEF Packets

LEMMA EmptyTotals ==
  ASSUME NEW c, NEW t PROVE Total(<<>>, c, t) = 0 /\ Replies(<<>>, c) = 0
<1>1. Len(<<>>) = 0
  OBVIOUS
<1> QED
  BY <1>1, SumEmpty DEF Total, Replies

LEMMA EncFacts ==
  ASSUME NEW e \in Encs
  PROVE  e.chans \in Tables /\ e.out \in Seq(Packets) /\ e = [chans |-> e.chans, out |-> e.out]
BY DEF Encs

LEMMA EncMade ==
  ASSUME NEW f \in Tables, NEW s \in Seq(Packets)
  PROVE  /\ [chans |-> f, out |-> s] \in Encs
         /\ [chans |-> f, out |-> s].chans = f /\ [chans |-> f, out |-> s].out = s
BY DEF Encs

LEMMA SentNothing ==
  ASSUME NEW tab \in Tables, NEW id \in DOMAIN tab
  PROVE  Sent(tab, id, [chans |-> tab, out |-> <<>>], 0, 0)
<1>1. <<>> \in Seq(Packets) /\ Elems(<<>>) = {}
  BY ElemsEmpty
<1>2. /\ [chans |-> tab, out |-> <<>>] \in Encs
      /\ [chans |-> tab, out |-> <<>>].chans = tab /\ [chans |-> tab, out |-> <<>>].out = <<>>
  BY <1>1, EncMade
<1>3. Kept(tab, id, tab)
  BY DEF Kept
<1>4. Outs(tab, id, <<>>)
  BY <1>1 DEF Outs
<1>5. tab[id] \in Params
  BY TableFacts
<1>6. tab[id].rwin \in Nat /\ tab[id].pend \in Nat
  BY <1>5, ParamsFacts
<1>7. Total(<<>>, tab[id].c, "data") = 0
  BY EmptyTotals
<1> QED
  BY <1>1, <1>2, <1>3, <1>4, <1>6, <1>7 DEF Sent

(* push *)
Pushed(e, t, id, k, n) == Packet(t, e.chans[id].peer, k, n, e.chans[id].c)

IsPushed(e, t, id, k, n, f, x) ==
  /\ x \in Packets /\ x.t = t /\ x.id = e.chans[id].peer /\ x.c = e.chans[id].c
  /\ x.n = n /\ x.k = k
  /\ f \in Encs /\ f.chans = e.chans /\ f.out = Append(e.out, x)
  /\ Elems(f.out) = Elems(e.out) \cup {x}

LEMMA PushFacts ==
  ASSUME NEW e \in Encs, NEW id \in DOMAIN e.chans, NEW t \in Ordinary, NEW k \in Labels,
         NEW n \in Nat
  PROVE  IsPushed(e, t, id, k, n, push(e, t, id, k, n), Pushed(e, t, id, k, n))
<1>1. PICK x : x = Packet(t, e.chans[id].peer, k, n, e.chans[id].c)
  OBVIOUS
<1>2. e.chans \in Tables /\ e.out \in Seq(Packets) /\ e = [chans |-> e.chans, out |-> e.out]
  BY EncFacts
<1>3. e.chans[id] \in Params
  BY <1>2, TableFacts
<1>4. e.chans[id].peer \in Nat /\ e.chans[id].c \in Conv
  BY <1>3, ParamsFacts
<1>5. x \in Packets /\ x.t = t /\ x.id = e.chans[id].peer /\ x.c = e.chans[id].c /\ x.n = n /\ x.k = k
  BY <1>1, <1>4, PacketFacts
<1>6. push(e, t, id, k, n) = [chans |-> e.chans, out |-> Append(e.out, x)]
  BY <1>1, <1>2, SMTT(60) DEF push
<1>7. Append(e.out, x) \in Seq(Packets) /\ Elems(Append(e.out, x)) = Elems(e.out) \cup {x}
  BY <1>2, <1>5, ElemsAppend
<1>8. /\ push(e, t, id, k, n) \in Encs /\ push(e, t, id, k, n).chans = e.chans
      /\ push(e, t, id, k, n).out = Append(e.out, x)
  <2>1. PICK s : s = Append(e.out, x)
    OBVIOUS
  <2>2. push(e, t, id, k, n) = [chans |-> e.chans, out |-> s] /\ s \in Seq(Packets)
    BY <1>6, <1>7, <2>1
  <2>3. PICK g : g = push(e, t, id, k, n)
    OBVIOUS
  <2>4. g = [chans |-> e.chans, out |-> s]
    BY <2>2, <2>3
  <2>5. g \in Encs /\ g.chans = e.chans /\ g.out = s
    BY <1>2, <2>2, <2>4 DEF Encs
  <2> QED
    BY <2>1, <2>3, <2>5
<1>9. Elems(push(e, t, id, k, n).out) = Elems(e.out) \cup {x}
  BY <1>7, <1>8
<1> QED
  <2>1. x = Pushed(e, t, id, k, n)
    BY <1>1 DEF Pushed
  <2> QED
    BY <1>5, <1>8, <1>9, <2>1 DEF IsPushed

LEMMA SentPush ==
  ASSUME NEW tab \in Tables, NEW id \in DOMAIN tab, NEW e, NEW din \in Nat, NEW ain \in Nat,
         Sent(tab, id, e, din, ain), id \in DOMAIN e.chans, NEW t \in {"eof", "close"}
  PROVE  /\ Sent(tab, id, push(e, t, id, "", 0), din, ain)
         /\ push(e, t, id, "", 0).chans = e.chans
<1>1. e \in Encs /\ Kept(tab, id, e.chans) /\ Outs(tab, id, e.out)
  BY DEF Sent
<1>2. t \in Ordinary /\ t # "data"
  BY DEF Ordinary
<1>3. PICK f, x, k : f = push(e, t, id, "", 0) /\ k = "" /\ IsPushed(e, t, id, k, 0, f, x)
  <2>1. PICK k : k = "" /\ k \in Labels
    BY DEF Labels
  <2>2. IsPushed(e, t, id, k, 0, push(e, t, id, k, 0), Pushed(e, t, id, k, 0))
    BY <1>1, <1>2, <2>1, PushFacts
  <2> QED
    BY <2>1, <2>2
<1>4. /\ x \in Packets /\ x.t = t /\ x.id = e.chans[id].peer /\ x.c = e.chans[id].c
      /\ x.n = 0
  BY <1>3 DEF IsPushed
<1>5. f \in Encs /\ f.chans = e.chans /\ f.out = Append(e.out, x) /\ Elems(f.out) = Elems(e.out) \cup {x}
  BY <1>3 DEF IsPushed
<1>6. Outs(tab, id, f.out)
  <2>1. f.out \in Seq(Packets)
    BY <1>5, EncFacts
  <2>2. x.t \in Ordinary /\ x.id = tab[id].peer /\ x.c = tab[id].c
    BY <1>1, <1>2, <1>4 DEF Kept
  <2> QED
    BY <1>1, <1>5, <2>1, <2>2 DEF Outs
<1>7. Total(f.out, tab[id].c, "data") = Total(e.out, tab[id].c, "data")
  <2>1. e.out \in Seq(Packets)
    BY <1>1, EncFacts
  <2>2. Total(Append(e.out, x), tab[id].c, "data")
          = Total(e.out, tab[id].c, "data") + Amount(x, tab[id].c, "data")
    <3>1. x \in Packets
      BY <1>4
    <3> QED
      BY <2>1, <3>1, PacketAmounts, TotalFacts
  <2>3. Amount(x, tab[id].c, "data") = 0 /\ Total(e.out, tab[id].c, "data") \in Nat
    <3>1. Amount(x, tab[id].c, "data") = 0
      BY <1>2, <1>4 DEF Amount
    <3> QED
      BY <2>1, <3>1, PacketAmounts, TotalFacts
  <2> QED
    BY <1>5, <2>2, <2>3
<1>8. \A m \in Elems(f.out) : m.t \in {"data", "eof", "close"}
  BY <1>4, <1>5 DEF Sent
<1>9. Sent(tab, id, f, din, ain)
  BY <1>1, <1>5, <1>6, <1>7, <1>8 DEF Sent
<1> QED
  BY <1>3, <1>5, <1>9

(* eof *)
LEMMA SentEof ==
  ASSUME NEW tab \in Tables, NEW id \in DOMAIN tab, NEW e, NEW din \in Nat, NEW ain \in Nat,
         Sent(tab, id, e, din, ain), id \in DOMAIN e.chans
  PROVE  /\ Sent(tab, id, eof(e, id), din, ain) /\ DOMAIN eof(e, id).chans = DOMAIN e.chans
         /\ eof(e, id).chans[id].pclose = e.chans[id].pclose
<1>1. e \in Encs /\ Kept(tab, id, e.chans) /\ Outs(tab, id, e.out)
  BY DEF Sent
<1>2. e.chans \in Tables /\ e.out \in Seq(Packets) /\ e = [chans |-> e.chans, out |-> e.out]
  BY <1>1, EncFacts
<1>3. CASE HasPending(e, id)
  <2>1. PICK a : a = [e.chans[id] EXCEPT !.peof = TRUE]
    OBVIOUS
  <2>2. e.chans[id] \in Params
    BY <1>2, TableFacts
  <2>3. /\ a \in Params /\ a.c = e.chans[id].c /\ a.peer = e.chans[id].peer
        /\ a.confirmed = e.chans[id].confirmed /\ a.swin = e.chans[id].swin
        /\ a.rwin = e.chans[id].rwin /\ a.pend = e.chans[id].pend /\ a.pclose = e.chans[id].pclose
    BY <2>1, <2>2 DEF Params
  <2>4. PICK T : T = [e.chans EXCEPT ![id] = a]
    OBVIOUS
  <2>5. /\ T \in Tables /\ DOMAIN T = DOMAIN e.chans /\ T[id] = a
        /\ \A i \in DOMAIN e.chans \ {id} : T[i] = e.chans[i]
    BY <1>2, <2>3, <2>4, TableExcept
  <2>6. eof(e, id) = [chans |-> T, out |-> e.out]
    BY <1>2, <1>3, <2>1, <2>4 DEF eof
  <2>7. eof(e, id) \in Encs /\ eof(e, id).chans = T /\ eof(e, id).out = e.out
    BY <1>2, <2>5, <2>6, EncMade
  <2>8. Kept(tab, id, T)
    BY <1>1, <2>3, <2>5 DEF Kept
  <2>9. Sent(tab, id, eof(e, id), din, ain)
    BY <1>1, <2>3, <2>5, <2>7, <2>8 DEF Sent
  <2> QED
    BY <2>3, <2>5, <2>7, <2>9
<1>4. CASE ~HasPending(e, id)
  <2>1. eof(e, id) = push(e, "eof", id, "", 0)
    BY <1>4 DEF eof, byte
  <2>2. Sent(tab, id, push(e, "eof", id, "", 0), din, ain) /\ push(e, "eof", id, "", 0).chans = e.chans
    BY SentPush, ZenonT(60)
  <2> QED
    BY <2>1, <2>2
<1> QED
  BY <1>3, <1>4

(* close *)
LEMMA SentClose ==
  ASSUME NEW tab \in Tables, NEW id \in DOMAIN tab, NEW e, NEW din \in Nat, NEW ain \in Nat,
         Sent(tab, id, e, din, ain), id \in DOMAIN e.chans
  PROVE  Sent(tab, id, close(e, id), din, ain)
<1>1. e \in Encs /\ Kept(tab, id, e.chans) /\ Outs(tab, id, e.out)
  BY DEF Sent
<1>2. e.chans \in Tables /\ e.out \in Seq(Packets) /\ e = [chans |-> e.chans, out |-> e.out]
  BY <1>1, EncFacts
<1>3. CASE HasPending(e, id)
  <2>1. PICK a : a = [e.chans[id] EXCEPT !.pclose = TRUE]
    OBVIOUS
  <2>2. e.chans[id] \in Params
    BY <1>2, TableFacts
  <2>3. /\ a \in Params /\ a.c = e.chans[id].c /\ a.peer = e.chans[id].peer
        /\ a.confirmed = e.chans[id].confirmed /\ a.swin = e.chans[id].swin
        /\ a.rwin = e.chans[id].rwin /\ a.pend = e.chans[id].pend
    BY <2>1, <2>2 DEF Params
  <2>4. PICK T : T = [e.chans EXCEPT ![id] = a]
    OBVIOUS
  <2>5. /\ T \in Tables /\ DOMAIN T = DOMAIN e.chans /\ T[id] = a
        /\ \A i \in DOMAIN e.chans \ {id} : T[i] = e.chans[i]
    BY <1>2, <2>3, <2>4, TableExcept
  <2>6. close(e, id) = [chans |-> T, out |-> e.out]
    BY <1>2, <1>3, <2>1, <2>4 DEF close
  <2>7. close(e, id) \in Encs /\ close(e, id).chans = T /\ close(e, id).out = e.out
    BY <1>2, <2>5, <2>6, EncMade
  <2>8. Kept(tab, id, T)
    BY <1>1, <2>3, <2>5 DEF Kept
  <2> QED
    BY <1>1, <2>3, <2>5, <2>7, <2>8 DEF Sent
<1>4. CASE ~HasPending(e, id)
  <2>1. PICK f : f = push(e, "close", id, "", 0)
    OBVIOUS
  <2>2. Sent(tab, id, f, din, ain) /\ f.chans = e.chans
    BY <2>1, SentPush
  <2>3. f.chans \in Tables /\ f.out \in Seq(Packets) /\ f = [chans |-> f.chans, out |-> f.out]
    BY <2>2, EncFacts DEF Sent
  <2>4. PICK T : T = Without(f.chans, id)
    OBVIOUS
  <2>5. /\ T \in Tables /\ DOMAIN T = DOMAIN f.chans \ {id}
        /\ \A i \in DOMAIN f.chans \ {id} : T[i] = f.chans[i]
    BY <2>3, <2>4, TableWithout, ZenonT(60)
  <2>6. close(e, id) = [chans |-> T, out |-> f.out]
    BY <1>4, <2>1, <2>3, <2>4 DEF close, byte
  <2>7. close(e, id) \in Encs /\ close(e, id).chans = T /\ close(e, id).out = f.out
    BY <2>3, <2>5, <2>6, EncMade
  <2>8. Kept(tab, id, T)
    BY <1>1, <2>2, <2>5 DEF Kept
  <2> QED
    BY <2>2, <2>5, <2>7, <2>8 DEF Sent
<1> QED
  BY <1>3, <1>4

LEMMA ExceptChannel ==
  ASSUME NEW X, NEW s, NEW id, NEW v
  PROVE  [[chans |-> X, out |-> s] EXCEPT !.chans[id] = v]
           = [chans |-> [X EXCEPT ![id] = v], out |-> s]
OBVIOUS

(* data_noqueue *)
LEMMA SentData ==
  ASSUME NEW tab \in Tables, NEW id \in DOMAIN tab, NEW e, NEW din \in Nat, NEW ain \in Nat,
         Sent(tab, id, e, din, ain), id \in DOMAIN e.chans, NEW n \in Nat,
         NEW d \in Nat, d = din + n
  PROVE  /\ Sent(tab, id, data_noqueue(e, id, n), d, ain)
         /\ DOMAIN data_noqueue(e, id, n).chans = DOMAIN e.chans
<1>1. e \in Encs /\ Kept(tab, id, e.chans) /\ Outs(tab, id, e.out)
  BY DEF Sent
<1>2. e.chans \in Tables /\ e.out \in Seq(Packets) /\ e = [chans |-> e.chans, out |-> e.out]
  BY <1>1, EncFacts
<1>3. e.chans[id] \in Params
  BY <1>2, TableFacts
<1>4. e.chans[id].rwin \in Nat /\ e.chans[id].pend \in Nat
  BY <1>3, ParamsFacts
<1>5. PICK fits \in Nat : /\ fits = IF n <= e.chans[id].rwin THEN n ELSE e.chans[id].rwin
                          /\ fits <= n /\ fits <= e.chans[id].rwin
  BY <1>4
<1>6. PICK f : f = IF fits > 0 THEN push(e, "data", id, "", fits) ELSE e
  OBVIOUS
<1>7. /\ f \in Encs /\ f.chans = e.chans /\ Outs(tab, id, f.out)
      /\ \A m \in Elems(f.out) : m.t \in {"data", "eof", "close"}
      /\ Total(f.out, tab[id].c, "data") = Total(e.out, tab[id].c, "data") + fits
      /\ Total(e.out, tab[id].c, "data") \in Nat
  <2>1. Total(e.out, tab[id].c, "data") \in Nat
    BY <1>2, PacketAmounts, TotalFacts
  <2>2. CASE ~(fits > 0)
    <3>1. f = e /\ fits = 0
      BY <1>6, <2>2
    <3> QED
      BY <1>1, <2>1, <3>1 DEF Sent
  <2>3. CASE fits > 0
    <3>1. PICK k : k = "" /\ k \in Labels
      BY DEF Labels
    <3>2. "data" \in Ordinary
      BY DEF Ordinary
    <3>3. IsPushed(e, "data", id, k, fits, push(e, "data", id, k, fits), Pushed(e, "data", id, k, fits))
      BY <1>1, <3>1, <3>2, PushFacts
    <3>4. f = push(e, "data", id, k, fits)
      BY <1>6, <2>3, <3>1
    <3>5. PICK x : IsPushed(e, "data", id, k, fits, f, x)
      BY <3>3, <3>4
    <3>6. /\ f \in Encs /\ f.chans = e.chans /\ f.out = Append(e.out, x)
          /\ Elems(f.out) = Elems(e.out) \cup {x}
      BY <3>5 DEF IsPushed
    <3>7. /\ x \in Packets /\ x.t = "data" /\ x.id = e.chans[id].peer /\ x.c = e.chans[id].c
          /\ x.n = fits
      BY <3>5 DEF IsPushed
    <3>8. x.id = tab[id].peer /\ x.c = tab[id].c
      BY <1>1, <3>7 DEF Kept
    <3>9. f.out \in Seq(Packets)
      BY <3>6, EncFacts
    <3>10. Outs(tab, id, f.out)
      BY <1>1, <3>2, <3>6, <3>7, <3>8, <3>9 DEF Outs
    <3>11. \A m \in Elems(f.out) : m.t \in {"data", "eof", "close"}
      BY <3>6, <3>7 DEF Sent
    <3>12. Total(Append(e.out, x), tab[id].c, "data")
            = Total(e.out, tab[id].c, "data") + Amount(x, tab[id].c, "data")
      BY <1>2, <3>7, PacketAmounts, TotalFacts
    <3>13. Amount(x, tab[id].c, "data") = fits
      BY <3>7, <3>8 DEF Amount
    <3>14. Total(f.out, tab[id].c, "data") = Total(e.out, tab[id].c, "data") + fits
      BY <3>6, <3>12, <3>13
    <3> QED
      BY <2>1, <3>6, <3>10, <3>11, <3>14
  <2> QED
    BY <2>2, <2>3
<1>8. PICK a : a = [e.chans[id] EXCEPT !.rwin = e.chans[id].rwin - fits,
                                       !.pend = e.chans[id].pend + n - fits]
  OBVIOUS
<1>9. /\ a \in Params /\ a.c = e.chans[id].c /\ a.peer = e.chans[id].peer
      /\ a.confirmed = e.chans[id].confirmed /\ a.swin = e.chans[id].swin
      /\ a.rwin = e.chans[id].rwin - fits /\ a.pend = e.chans[id].pend + n - fits
  <2>1. e.chans[id].rwin - fits \in Nat /\ e.chans[id].pend + n - fits \in Nat
    BY <1>4, <1>5
  <2> QED
    BY <1>3, <1>8, <2>1 DEF Params
<1>10. PICK T : T = [e.chans EXCEPT ![id] = a]
  OBVIOUS
<1>11. /\ T \in Tables /\ DOMAIN T = DOMAIN e.chans /\ T[id] = a
       /\ \A i \in DOMAIN e.chans \ {id} : T[i] = e.chans[i]
  BY <1>2, <1>9, <1>10, TableExcept
<1>12. PICK g : g = [chans |-> T, out |-> f.out]
  OBVIOUS
<1>13. f = [chans |-> e.chans, out |-> f.out] /\ f.out \in Seq(Packets)
  BY <1>7, EncFacts
<1>14. data_noqueue(e, id, n) = g
  <2>1. data_noqueue(e, id, n)
          = [f EXCEPT !.chans[id] = [e.chans[id] EXCEPT !.rwin = @ - fits, !.pend = @ + n - fits]]
    BY <1>5, <1>6 DEF data_noqueue
  <2>2. a = [e.chans[id] EXCEPT !.rwin = @ - fits, !.pend = @ + n - fits]
    BY <1>3, <1>8 DEF Params
  <2> QED
    BY <1>10, <1>12, <1>13, <2>1, <2>2, ExceptChannel
<1>15. g \in Encs /\ g.chans = T /\ g.out = f.out
  BY <1>11, <1>12, <1>13, EncMade
<1>16. Kept(tab, id, T)
  BY <1>1, <1>9, <1>11 DEF Kept
<1>17. /\ a.rwin + Total(f.out, tab[id].c, "data") = tab[id].rwin + ain
       /\ a.pend + Total(f.out, tab[id].c, "data") = tab[id].pend + d
  <2>1. /\ e.chans[id].rwin + Total(e.out, tab[id].c, "data") = tab[id].rwin + ain
        /\ e.chans[id].pend + Total(e.out, tab[id].c, "data") = tab[id].pend + din
    BY DEF Sent
  <2>2. tab[id].rwin \in Nat /\ tab[id].pend \in Nat
    BY TableFacts, ParamsFacts
  <2> QED
    BY <1>4, <1>5, <1>7, <1>9, <2>1, <2>2
<1>18. Sent(tab, id, g, d, ain)
  BY <1>7, <1>9, <1>11, <1>15, <1>16, <1>17 DEF Sent
<1> QED
  BY <1>11, <1>14, <1>15, <1>18

(* handle_flushed_channel *)
LEMMA SentFlushed ==
  ASSUME NEW tab \in Tables, NEW id \in DOMAIN tab, NEW e, NEW din \in Nat, NEW ain \in Nat,
         Sent(tab, id, e, din, ain), id \in DOMAIN e.chans
  PROVE  Sent(tab, id, handle_flushed_channel(e, id), din, ain)
<1>1. PICK f : f = IF e.chans[id].peof THEN eof(e, id) ELSE e
  OBVIOUS
<1>2. Sent(tab, id, f, din, ain) /\ DOMAIN f.chans = DOMAIN e.chans
  BY <1>1, SentEof
<1>3. handle_flushed_channel(e, id) = IF e.chans[id].pclose THEN close(f, id) ELSE f
  BY <1>1 DEF handle_flushed_channel
<1>4. Sent(tab, id, close(f, id), din, ain)
  BY <1>2, SentClose
<1> QED
  BY <1>2, <1>3, <1>4

(* WINDOW_ADJUST for a known channel: flush_pending *)
LEMMA SentAdjusted ==
  ASSUME NEW tab \in Tables, NEW id \in DOMAIN tab, NEW n \in Nat, NEW e,
         e = [chans |-> tab, out |-> <<>>]
  PROVE  Sent(tab, id, flush_pending([e EXCEPT !.chans[id].rwin = @ + n], id), 0, n)
<1>1. tab[id] \in Params /\ tab = [i \in DOMAIN tab |-> tab[i]]
  BY TableFacts
<1>2. tab[id].rwin \in Nat /\ tab[id].pend \in Nat
  BY <1>1, ParamsFacts
<1>3. PICK a : a = [tab[id] EXCEPT !.rwin = tab[id].rwin + n]
  OBVIOUS
<1>4. PICK b : b = [a EXCEPT !.pend = 0]
  OBVIOUS
<1>5. a \in Params /\ a.pend = tab[id].pend
  BY <1>1, <1>2, <1>3 DEF Params
<1>6. /\ b \in Params /\ b.c = tab[id].c /\ b.peer = tab[id].peer /\ b.confirmed = tab[id].confirmed
      /\ b.swin = tab[id].swin /\ b.rwin = tab[id].rwin + n /\ b.pend = 0
  <2>1. /\ a.c = tab[id].c /\ a.peer = tab[id].peer /\ a.confirmed = tab[id].confirmed
        /\ a.swin = tab[id].swin /\ a.rwin = tab[id].rwin + n
    BY <1>1, <1>3 DEF Params
  <2>2. /\ b \in Params /\ b.c = a.c /\ b.peer = a.peer /\ b.confirmed = a.confirmed
        /\ b.swin = a.swin /\ b.rwin = a.rwin /\ b.pend = 0
    BY <1>4, <1>5 DEF Params
  <2> QED
    BY <2>1, <2>2
<1>7. PICK A, B : A = [tab EXCEPT ![id] = a] /\ B = [tab EXCEPT ![id] = b]
  OBVIOUS
<1>8. A \in Tables /\ DOMAIN A = DOMAIN tab /\ A[id] = a
  BY <1>5, <1>7, TableExcept
<1>9. /\ B \in Tables /\ DOMAIN B = DOMAIN tab /\ B[id] = b
      /\ \A i \in DOMAIN tab \ {id} : B[i] = tab[i]
  BY <1>6, <1>7, TableExcept
<1>10. PICK f, g : f = [chans |-> A, out |-> <<>>] /\ g = [chans |-> B, out |-> <<>>]
  OBVIOUS
<1>11. [e EXCEPT !.chans[id].rwin = @ + n] = f
  BY <1>1, <1>3, <1>7, <1>10
<1>12. [f EXCEPT !.chans[id].pend = 0] = g
  BY <1>1, <1>4, <1>7, <1>8, <1>10
<1>13. f.chans[id].pend = tab[id].pend
  BY <1>5, <1>8, <1>10
<1>14. PICK h : h = data_noqueue(g, id, tab[id].pend)
  OBVIOUS
<1>15. Sent(B, id, g, 0, 0) /\ id \in DOMAIN B /\ id \in DOMAIN g.chans
  BY <1>9, <1>10, SentNothing
<1>16. tab[id].pend = 0 + tab[id].pend
  BY <1>2
<1>17. Sent(B, id, h, tab[id].pend, 0) /\ id \in DOMAIN h.chans
  BY <1>2, <1>9, <1>14, <1>15, <1>16, SentData
<1>18. Sent(B, id, handle_flushed_channel(h, id), tab[id].pend, 0)
  BY <1>2, <1>9, <1>15, <1>17, SentFlushed
<1>19. flush_pending(f, id) = IF h.chans[id].pend = 0 THEN handle_flushed_channel(h, id) ELSE h
  BY <1>12, <1>13, <1>14 DEF flush_pending
<1>20. PICK z : z = flush_pending(f, id) /\ Sent(B, id, z, tab[id].pend, 0)
  BY <1>17, <1>18, <1>19
<1>21. Sent(tab, id, z, 0, n)
  <2>1. z \in Encs /\ Kept(B, id, z.chans) /\ Outs(B, id, z.out)
    BY <1>20 DEF Sent
  <2>2. Kept(tab, id, z.chans)
    BY <1>6, <1>9, <2>1 DEF Kept
  <2>3. Outs(tab, id, z.out)
    BY <1>6, <1>9, <2>1 DEF Outs
  <2>4. ASSUME id \in DOMAIN z.chans
        PROVE  /\ z.chans[id].swin = tab[id].swin
               /\ z.chans[id].rwin + Total(z.out, tab[id].c, "data") = tab[id].rwin + n
               /\ z.chans[id].pend + Total(z.out, tab[id].c, "data") = tab[id].pend + 0
    <3>1. /\ z.chans[id].swin = B[id].swin
          /\ z.chans[id].rwin + Total(z.out, B[id].c, "data") = B[id].rwin + 0
          /\ z.chans[id].pend + Total(z.out, B[id].c, "data") = B[id].pend + tab[id].pend
      BY <1>20, <2>4 DEF Sent
    <3>2. B[id].rwin + 0 = tab[id].rwin + n /\ B[id].pend + tab[id].pend = tab[id].pend + 0
      BY <1>2, <1>6, <1>9
    <3>3. B[id].c = tab[id].c /\ B[id].swin = tab[id].swin
      BY <1>6, <1>9
    <3> QED
      BY <3>1, <3>2, <3>3
  <2> QED
    BY <1>20, <2>1, <2>2, <2>3, <2>4 DEF Sent
<1> QED
  BY <1>11, <1>20, <1>21

(* e is what an operation on channel id made of the table tab. *)
Worked(tab, id, e) ==
  /\ e \in Encs
  /\ id \in DOMAIN tab => Kept(tab, id, e.chans) /\ Outs(tab, id, e.out)
  /\ id \notin DOMAIN tab => e.chans = tab /\ e.out = <<>>

(* With din more units of data, ain more window and dgot units taken from   *)
(* the own window, nothing is lost but what is forgotten with the channel.  *)
Accounts(tab, id, e, din, ain, dgot) ==
  id \in DOMAIN tab =>
    /\ id \notin DOMAIN e.chans => Total(e.out, tab[id].c, "adjust") = 0
    /\ id \in DOMAIN e.chans =>
         /\ e.chans[id].rwin + Total(e.out, tab[id].c, "data") = tab[id].rwin + ain
         /\ e.chans[id].pend + Total(e.out, tab[id].c, "data") = tab[id].pend + din
         /\ dgot <= tab[id].swin =>
              e.chans[id].swin + dgot = tab[id].swin + Total(e.out, tab[id].c, "adjust")
         /\ tab[id].swin <= Window => e.chans[id].swin <= Window

(* The types of the packets sent *)
OfTypes(e, S) == \A m \in Elems(e.out) : m.t \in S

LEMMA NoTotal ==
  ASSUME NEW s \in Seq(Packets), NEW S, \A m \in Elems(s) : m.t \in S, NEW c
  PROVE  /\ "adjust" \notin S => Total(s, c, "adjust") = 0
         /\ "data" \notin S => Total(s, c, "data") = 0
         /\ "request" \notin S => Total(s, c, "request") = 0
         /\ "success" \notin S /\ "failure" \notin S => Replies(s, c) = 0
<1>1. "adjust" \notin S => Total(s, c, "adjust") = 0
  BY PacketAmounts, TotalFacts
<1>2. "data" \notin S => Total(s, c, "data") = 0
  BY PacketAmounts, TotalFacts
<1>3. "request" \notin S => Total(s, c, "request") = 0
  BY PacketAmounts, TotalFacts
<1>4. ASSUME "success" \notin S, "failure" \notin S PROVE Replies(s, c) = 0
  <2>1. \A m \in Elems(s) : m.t \notin {"success", "failure"}
    BY <1>4
  <2> QED
    BY <2>1, RepliesFacts
<1> QED
  BY <1>1, <1>2, <1>3, <1>4

LEMMA PacketTotals ==
  ASSUME NEW s \in Seq(Packets), NEW c, NEW t
  PROVE  /\ Total(s, c, t) \in Nat
         /\ (\A m \in Elems(s) : m.t # t \/ m.c # c) => Total(s, c, t) = 0
         /\ s # <<>> => Total(s, c, t) = Amount(Head(s), c, t) + Total(Tail(s), c, t)
         /\ \A x \in Packets : Total(Append(s, x), c, t) = Total(s, c, t) + Amount(x, c, t)
         /\ \A u \in Seq(Packets) : Total(s \o u, c, t) = Total(s, c, t) + Total(u, c, t)
BY PacketAmounts, TotalFacts

(* One packet *)
LEMMA OneTotal ==
  ASSUME NEW x \in Packets, NEW c, NEW t, NEW s, s = Append(<<>>, x)
  PROVE  Total(s, c, t) = Amount(x, c, t) /\ Replies(s, c) = One(x, c)
<1>1. <<>> \in Seq(Packets)
  OBVIOUS
<1>2. PICK r \in Seq(Packets) : r = <<>>
  BY <1>1
<1>3. s = Append(r, x)
  BY <1>2
<1>4. Total(r, c, t) = 0 /\ Replies(r, c) = 0
  BY <1>2, EmptyTotals
<1>5. Total(s, c, t) = Total(r, c, t) + Amount(x, c, t)
  <2>1. Total(Append(r, x), c, t) = Total(r, c, t) + Amount(x, c, t)
    BY PacketTotals
  <2> QED
    BY <1>3, <2>1
<1>6. Replies(s, c) = Replies(r, c) + One(x, c)
  BY <1>2, <1>3, RepliesFacts, ZenonT(60)
<1>7. Amount(x, c, t) \in Nat /\ One(x, c) \in Nat
  BY PacketAmounts DEF Amount, One
<1> QED
  BY <1>4, <1>5, <1>6, <1>7

(* A field of a channel is replaced. *)
LEMMA ExceptSwin ==
  ASSUME NEW X, NEW s, NEW id, NEW v
  PROVE  [[chans |-> X, out |-> s] EXCEPT !.chans[id].swin = v]
           = [chans |-> [X EXCEPT ![id] = [X[id] EXCEPT !.swin = v]], out |-> s]
OBVIOUS

LEMMA ExceptWants ==
  ASSUME NEW X, NEW s, NEW id, NEW v
  PROVE  [[chans |-> X, out |-> s] EXCEPT !.chans[id].wants = v]
           = [chans |-> [X EXCEPT ![id] = [X[id] EXCEPT !.wants = v]], out |-> s]
OBVIOUS

LEMMA SentIsWork ==
  ASSUME NEW tab \in Tables, NEW id \in DOMAIN tab, NEW e, NEW din \in Nat, NEW ain \in Nat,
         Sent(tab, id, e, din, ain)
  PROVE  Worked(tab, id, e) /\ Accounts(tab, id, e, din, ain, 0) /\ OfTypes(e, {"data", "eof", "close"})
<1>1. e \in Encs /\ Kept(tab, id, e.chans) /\ Outs(tab, id, e.out)
  BY DEF Sent
<1>2. OfTypes(e, {"data", "eof", "close"})
  BY DEF Sent, OfTypes
<1>3. e.out \in Seq(Packets) /\ "adjust" \notin {"data", "eof", "close"}
  BY <1>1, EncFacts
<1>4. Total(e.out, tab[id].c, "adjust") = 0
  BY <1>2, <1>3, NoTotal DEF OfTypes
<1>5. tab[id].swin \in Nat
  BY TableFacts, ParamsFacts
<1>6. Accounts(tab, id, e, din, ain, 0)
  BY <1>4, <1>5 DEF Accounts, Sent
<1>7. Worked(tab, id, e)
  BY <1>1 DEF Worked
<1> QED
  BY <1>2, <1>6, <1>7

(* Nothing is done. *)
LEMMA WorkNothing ==
  ASSUME NEW tab \in Tables, NEW id, NEW S, NEW e, e = [chans |-> tab, out |-> <<>>]
  PROVE  /\ Worked(tab, id, e) /\ Accounts(tab, id, e, 0, 0, 0) /\ OfTypes(e, S)
         /\ e.out = <<>> /\ e.chans = tab /\ e \in Encs
<1>1. <<>> \in Seq(Packets) /\ Elems(<<>>) = {}
  BY ElemsEmpty
<1>2. e \in Encs /\ e.chans = tab /\ e.out = <<>>
  BY <1>1, EncMade
<1>3. OfTypes(e, S)
  BY <1>1, <1>2 DEF OfTypes
<1>4. CASE id \in DOMAIN tab
  <2>1. Sent(tab, id, [chans |-> tab, out |-> <<>>], 0, 0)
    BY <1>4, SentNothing
  <2> QED
    BY <1>2, <1>3, <1>4, <2>1, SentIsWork
<1>5. CASE id \notin DOMAIN tab
  BY <1>2, <1>3, <1>5 DEF Worked, Accounts
<1> QED
  BY <1>4, <1>5

(* A packet that is no data and no window is pushed. *)
LEMMA WorkPush ==
  ASSUME NEW tab \in Tables, NEW id \in DOMAIN tab, NEW e, e = [chans |-> tab, out |-> <<>>],
         NEW t \in {"request", "success", "failure"}, NEW k \in Labels, NEW n \in Nat
  PROVE  /\ Worked(tab, id, push(e, t, id, k, n)) /\ Accounts(tab, id, push(e, t, id, k, n), 0, 0, 0)
         /\ push(e, t, id, k, n).chans = tab
         /\ \A m \in Elems(push(e, t, id, k, n).out) : m.t = t /\ m.n = n /\ m.k = k
         /\ Total(push(e, t, id, k, n).out, tab[id].c, t) = n
         /\ Replies(push(e, t, id, k, n).out, tab[id].c) = IF t = "request" THEN 0 ELSE 1
<1>1. <<>> \in Seq(Packets) /\ Elems(<<>>) = {}
  BY ElemsEmpty
<1>2. e \in Encs /\ e.chans = tab /\ e.out = <<>>
  BY <1>1, EncMade
<1>3. t \in Ordinary /\ t \notin {"data", "adjust"}
  BY DEF Ordinary
<1>4. PICK f, x : f = push(e, t, id, k, n) /\ IsPushed(e, t, id, k, n, f, x)
  BY <1>2, <1>3, PushFacts
<1>5. x \in Packets /\ x.t = t /\ x.id = tab[id].peer /\ x.c = tab[id].c /\ x.n = n /\ x.k = k
  BY <1>2, <1>4 DEF IsPushed
<1>6. f \in Encs /\ f.chans = tab /\ f.out = Append(<<>>, x) /\ Elems(f.out) = {x}
  BY <1>1, <1>2, <1>4 DEF IsPushed
<1>7. f.out \in Seq(Packets)
  BY <1>6, EncFacts
<1>8. Worked(tab, id, f)
  <2>1. Kept(tab, id, tab)
    BY DEF Kept
  <2>2. Outs(tab, id, f.out)
    BY <1>3, <1>5, <1>6, <1>7 DEF Outs
  <2> QED
    BY <1>6, <2>1, <2>2 DEF Worked
<1>9. Total(f.out, tab[id].c, "data") = 0 /\ Total(f.out, tab[id].c, "adjust") = 0
  <2>1. Amount(x, tab[id].c, "data") = 0 /\ Amount(x, tab[id].c, "adjust") = 0
    BY <1>3, <1>5 DEF Amount
  <2> QED
    BY <1>5, <1>6, <2>1, OneTotal
<1>10. Accounts(tab, id, f, 0, 0, 0)
  <2>1. tab[id].rwin \in Nat /\ tab[id].pend \in Nat /\ tab[id].swin \in Nat
    BY TableFacts, ParamsFacts
  <2> QED
    BY <1>6, <1>9, <2>1 DEF Accounts
<1>11. Total(f.out, tab[id].c, t) = n
  <2>1. Amount(x, tab[id].c, t) = n
    BY <1>5 DEF Amount
  <2> QED
    BY <1>5, <1>6, <2>1, OneTotal
<1>12. Replies(f.out, tab[id].c) = IF t = "request" THEN 0 ELSE 1
  <2>1. One(x, tab[id].c) = IF t = "request" THEN 0 ELSE 1
    BY <1>5 DEF One
  <2> QED
    BY <1>5, <1>6, <2>1, OneTotal
<1>13. \A m \in Elems(f.out) : m.t = t /\ m.n = n /\ m.k = k
  BY <1>5, <1>6
<1> QED
  BY <1>4, <1>6, <1>8, <1>10, <1>11, <1>12, <1>13

(* adjust_window_size *)
LEMMA WorkAdjust ==
  ASSUME NEW tab \in Tables, NEW id, NEW e, e = [chans |-> tab, out |-> <<>>], NEW n \in Nat,
         NEW f, f = adjust_window_size(e, id, n, Window)
  PROVE  Worked(tab, id, f) /\ Accounts(tab, id, f, 0, 0, n) /\ OfTypes(f, {"adjust"})
<1>1. <<>> \in Seq(Packets) /\ Elems(<<>>) = {}
  BY ElemsEmpty
<1>2. e \in Encs /\ e.chans = tab /\ e.out = <<>>
  BY <1>1, EncMade
<1>3. CASE id \notin DOMAIN tab
  <2>1. f = e
    BY <1>2, <1>3 DEF adjust_window_size
  <2> QED
    BY <1>1, <1>2, <1>3, <2>1 DEF Worked, Accounts, OfTypes
<1>4. CASE id \in DOMAIN tab
  <2>1. tab[id] \in Params
    BY <1>4, TableFacts
  <2>2. tab[id].swin \in Nat /\ tab[id].rwin \in Nat /\ tab[id].pend \in Nat
    BY <2>1, ParamsFacts
  <2>3. PICK left \in Nat : /\ left = IF n <= tab[id].swin THEN tab[id].swin - n ELSE tab[id].swin
                            /\ n <= tab[id].swin => left + n = tab[id].swin
                            /\ left <= tab[id].swin
    BY <2>2
  <2>4. Window \in Nat /\ Window \div 2 \in Nat /\ Window \div 2 <= Window
    BY ChannelTableAssumption
  <2>5. CASE ~(left < Window \div 2)
    <3>1. PICK a : a = [tab[id] EXCEPT !.swin = left]
      OBVIOUS
    <3>2. /\ a \in Params /\ a.c = tab[id].c /\ a.peer = tab[id].peer /\ a.confirmed = tab[id].confirmed
          /\ a.swin = left /\ a.rwin = tab[id].rwin /\ a.pend = tab[id].pend
      BY <2>1, <3>1 DEF Params
    <3>3. PICK T : T = [tab EXCEPT ![id] = a]
      OBVIOUS
    <3>4. T \in Tables /\ DOMAIN T = DOMAIN tab /\ T[id] = a /\ \A i \in DOMAIN tab \ {id} : T[i] = tab[i]
      BY <1>4, <3>2, <3>3, TableExcept
    <3>5. f = [e EXCEPT !.chans[id].swin = left]
      BY <1>2, <1>4, <2>3, <2>5 DEF adjust_window_size
    <3>6. f = [chans |-> T, out |-> <<>>]
      BY <3>1, <3>3, <3>5, ExceptSwin
    <3>7. f \in Encs /\ f.chans = T /\ f.out = <<>>
      <4>1. PICK r \in Seq(Packets) : r = <<>>
        BY <1>1
      <4>2. f = [chans |-> T, out |-> r]
        BY <3>6, <4>1
      <4>3. f \in Encs /\ f.chans = T /\ f.out = r
        BY <3>4, <4>2, EncMade
      <4> QED
        BY <4>1, <4>3
    <3>8. Worked(tab, id, f)
      <4>1. Kept(tab, id, T)
        BY <3>2, <3>4 DEF Kept
      <4>2. Outs(tab, id, <<>>)
        BY <1>1 DEF Outs
      <4> QED
        BY <1>4, <3>7, <4>1, <4>2 DEF Worked
    <3>9. Total(<<>>, tab[id].c, "data") = 0 /\ Total(<<>>, tab[id].c, "adjust") = 0
      BY EmptyTotals
    <3>10. Accounts(tab, id, f, 0, 0, n)
      BY <1>4, <2>2, <2>3, <2>4, <3>2, <3>4, <3>7, <3>9, SMTT(60) DEF Accounts
    <3> QED
      BY <1>1, <3>7, <3>8, <3>10 DEF OfTypes
  <2>6. CASE left < Window \div 2
    <3>1. Window - left \in Nat
      BY <2>4, <2>6
    <3>2. PICK k : k = "" /\ k \in Labels
      BY DEF Labels
    <3>3. "adjust" \in Ordinary /\ id \in DOMAIN e.chans
      BY <1>2, <1>4 DEF Ordinary
    <3>4. PICK g, x : g = push(e, "adjust", id, k, Window - left)
                      /\ IsPushed(e, "adjust", id, k, Window - left, g, x)
      BY <1>2, <3>1, <3>2, <3>3, PushFacts
    <3>5. /\ x \in Packets /\ x.t = "adjust" /\ x.id = tab[id].peer /\ x.c = tab[id].c
          /\ x.n = Window - left
      BY <1>2, <3>4 DEF IsPushed
    <3>6. g \in Encs /\ g.chans = tab /\ g.out = Append(<<>>, x) /\ Elems(g.out) = {x}
      BY <1>1, <1>2, <3>4 DEF IsPushed
    <3>7. g.out \in Seq(Packets) /\ g = [chans |-> tab, out |-> g.out]
      BY <3>6, EncFacts
    <3>8. PICK a : a = [tab[id] EXCEPT !.swin = Window]
      OBVIOUS
    <3>9. /\ a \in Params /\ a.c = tab[id].c /\ a.peer = tab[id].peer /\ a.confirmed = tab[id].confirmed
          /\ a.swin = Window /\ a.rwin = tab[id].rwin /\ a.pend = tab[id].pend
      BY <2>1, <2>4, <3>8 DEF Params
    <3>10. PICK T : T = [tab EXCEPT ![id] = a]
      OBVIOUS
    <3>11. T \in Tables /\ DOMAIN T = DOMAIN tab /\ T[id] = a /\ \A i \in DOMAIN tab \ {id} : T[i] = tab[i]
      BY <1>4, <3>9, <3>10, TableExcept
    <3>12. f = [g EXCEPT !.chans[id].swin = Window]
      BY <1>2, <1>4, <2>3, <2>6, <3>2, <3>4 DEF adjust_window_size
    <3>13. PICK s : s = g.out
      OBVIOUS
    <3>14. f = [[chans |-> tab, out |-> s] EXCEPT !.chans[id].swin = Window]
      BY <3>7, <3>12, <3>13
    <3>15. f = [chans |-> T, out |-> s]
      BY <3>8, <3>10, <3>14, ExceptSwin
    <3>16. f \in Encs /\ f.chans = T /\ f.out = g.out
      BY <3>7, <3>11, <3>13, <3>15, EncMade
    <3>17. Worked(tab, id, f)
      <4>1. Kept(tab, id, T)
        BY <3>9, <3>11 DEF Kept
      <4>2. Outs(tab, id, g.out)
        BY <3>3, <3>5, <3>6, <3>7 DEF Outs
      <4> QED
        BY <1>4, <3>16, <4>1, <4>2 DEF Worked
    <3>18. OfTypes(f, {"adjust"})
      BY <3>5, <3>6, <3>16 DEF OfTypes
    <3>19. Total(f.out, tab[id].c, "data") = 0
      <4>1. Amount(x, tab[id].c, "data") = 0
        BY <3>5 DEF Amount
      <4> QED
        BY <3>5, <3>6, <3>16, <4>1, OneTotal
    <3>20. Total(f.out, tab[id].c, "adjust") = Window - left
      <4>1. Amount(x, tab[id].c, "adjust") = Window - left
        BY <3>5 DEF Amount
      <4> QED
        BY <3>5, <3>6, <3>16, <4>1, OneTotal
    <3>21. Accounts(tab, id, f, 0, 0, n)
      <4>1. PICK q \in Nat : q = Window - left /\ Window = q + left
        BY <2>4, <3>1
      <4>2. f.chans[id] = a /\ id \in DOMAIN f.chans
        BY <1>4, <3>11, <3>16
      <4>3. /\ f.chans[id].rwin = tab[id].rwin /\ f.chans[id].pend = tab[id].pend
            /\ f.chans[id].swin = Window
        BY <3>9, <4>2
      <4>4. Total(f.out, tab[id].c, "data") = 0 /\ Total(f.out, tab[id].c, "adjust") = q
        BY <3>19, <3>20, <4>1
      <4>5. n <= tab[id].swin => Window + n = tab[id].swin + q
        BY <2>2, <2>3, <2>4, <4>1
      <4> QED
        BY <2>2, <2>4, <4>2, <4>3, <4>4, <4>5 DEF Accounts
    <3> QED
      BY <3>17, <3>18, <3>21
  <2> QED
    BY <2>5, <2>6
<1> QED
  BY <1>3, <1>4

-----------------------------------------------------------------------------
(* Types *)

Waiting == Conv \X Notes \X Seq(Packets)

IdTypes ==
  /\ last \in [Peers -> Nat] /\ idof \in [Peers -> [Conv -> Ids \cup {IdSpace}]]
  /\ chans \in [Peers -> Tables] /\ refs \in [Peers -> RefTables]

QueueTypes ==
  /\ net \in [Peers -> Seq(Packets)] /\ closing \in [Conv -> SUBSET Peers]
  /\ buf \in [Peers -> [Conv -> Seq(Notes)]]
  /\ \A p \in Peers, c \in Conv : Len(buf[p][c]) <= Buffer
  /\ blocked \in [Peers -> {<<>>} \cup Waiting]

InboxTypes ==
  /\ inbox \in [Peers -> Seq(Requests)]
  /\ \A p \in Peers : Len(inbox[p]) <= Inbox

AppTypes ==
  /\ end \in [Peers -> [Conv -> EndStates]] /\ failed \in [Peers -> {"no", "Inconsistent", "SendError"}]
  /\ setup \in SetupType /\ owed \in [Conv -> Nat] /\ done \in [Peers -> [Conv -> Nat]]
  /\ asked \in [Conv -> Nat] /\ replied \in [Conv -> Nat]

Types == IdTypes /\ QueueTypes /\ InboxTypes /\ AppTypes

LEMMA PeerFacts ==
  ASSUME NEW p \in Peers
  PROVE  Other(p) \in Peers /\ Other(p) # p /\ Other(Other(p)) = p /\ Peers = {p, Other(p)}
BY DEF Peers, Other

LEMMA WaitingFacts ==
  ASSUME NEW w \in Waiting
  PROVE  w # <<>> /\ w[1] \in Conv /\ w[2] \in Notes /\ w[3] \in Seq(Packets)
<1>1. PICK a \in Conv, b \in Notes, s \in Seq(Packets) : w = <<a, b, s>>
  BY DEF Waiting
<1>2. w[1] = a /\ w[2] = b /\ w[3] = s
  BY <1>1
<1>3. w # <<>>
  BY <1>1
<1> QED
  BY <1>2, <1>3

(* What is on its way to p, the part that its peer still holds included *)
Line(p) == net[p] \o Held(Other(p))

LEMMA LineTyped ==
  ASSUME QueueTypes, NEW p \in Peers
  PROVE  /\ net[p] \in Seq(Packets) /\ Held(p) \in Seq(Packets) /\ Line(p) \in Seq(Packets)
         /\ blocked[p] = <<>> => Held(p) = <<>>
         /\ blocked[p] # <<>> => blocked[p] \in Waiting /\ Held(p) = blocked[p][3]
<1>1. \A q \in Peers : net[q] \in Seq(Packets) /\ blocked[q] \in {<<>>} \cup Waiting
  BY DEF QueueTypes
<1>2. \A q \in Peers : blocked[q] # <<>> => blocked[q] \in Waiting /\ blocked[q][3] \in Seq(Packets)
  BY <1>1, WaitingFacts
<1>3. <<>> \in Seq(Packets)
  OBVIOUS
<1>4. \A q \in Peers : Held(q) \in Seq(Packets)
  BY <1>2, <1>3 DEF Held
<1>5. Other(p) \in Peers
  BY PeerFacts
<1>6. Line(p) \in Seq(Packets)
  BY <1>1, <1>4, <1>5, ConcatProperties DEF Line
<1> QED
  BY <1>1, <1>2, <1>4, <1>6 DEF Held

(* u is s and t, with s not empty. *)
Continues(u, s, t) == u # <<>> /\ Head(u) = Head(s) /\ Tail(u) = Tail(s) \o t

LEMMA TailConcat ==
  ASSUME NEW X, NEW s \in Seq(X), NEW t \in Seq(X), s # <<>>, NEW u, u = s \o t
  PROVE  Continues(u, s, t)
<1>1. u = s \o t
  OBVIOUS
<1>2. /\ u \in Seq(X) /\ Len(u) = Len(s) + Len(t) /\ Len(s) \in Nat \ {0} /\ Len(t) \in Nat
      /\ \A i \in 1..(Len(s) + Len(t)) : u[i] = IF i <= Len(s) THEN s[i] ELSE t[i - Len(s)]
  BY <1>1, ConcatProperties
<1>3. u # <<>> /\ Head(u) = Head(s)
  BY <1>2
<1>4. Tail(s) \in Seq(X) /\ Len(Tail(s)) = Len(s) - 1 /\ \A i \in 1..(Len(s) - 1) : Tail(s)[i] = s[i + 1]
  BY HeadTailProperties
<1>5. Tail(u) \in Seq(X) /\ Len(Tail(u)) = Len(u) - 1 /\ \A i \in 1..(Len(u) - 1) : Tail(u)[i] = u[i + 1]
  BY <1>2, <1>3, HeadTailProperties
<1>6. PICK v : v = Tail(s) \o t
  OBVIOUS
<1>7. /\ v \in Seq(X) /\ Len(v) = Len(s) - 1 + Len(t)
      /\ \A i \in 1..(Len(s) - 1 + Len(t)) :
           v[i] = IF i <= Len(s) - 1 THEN Tail(s)[i] ELSE t[i - (Len(s) - 1)]
  BY <1>4, <1>6, ConcatProperties
<1>8. PICK r : r = Tail(u)
  OBVIOUS
<1>9. /\ r \in Seq(X) /\ Len(r) = Len(v)
      /\ \A i \in 1..Len(v) : /\ r[i] = u[i + 1] /\ i \in 1..(Len(s) - 1 + Len(t))
                              /\ i + 1 \in 1..(Len(s) + Len(t))
  BY <1>2, <1>5, <1>7, <1>8
<1>10. ASSUME NEW i \in 1..Len(v) PROVE r[i] = v[i]
  <2>1. CASE i <= Len(s) - 1
    <3>1. u[i + 1] = s[i + 1]
      BY <1>2, <1>9, <2>1
    <3>2. v[i] = s[i + 1]
      BY <1>4, <1>7, <1>9, <2>1
    <3> QED
      BY <1>9, <3>1, <3>2
  <2>2. CASE ~(i <= Len(s) - 1)
    <3>1. u[i + 1] = t[(i + 1) - Len(s)]
      BY <1>2, <1>9, <2>2
    <3>2. v[i] = t[i - (Len(s) - 1)]
      BY <1>7, <1>9, <2>2
    <3>3. (i + 1) - Len(s) = i - (Len(s) - 1)
      BY <1>2
    <3> QED
      BY <1>9, <3>1, <3>2, <3>3
  <2> QED
    BY <2>1, <2>2
<1>11. r = v
  BY <1>7, <1>9, <1>10, SeqEqual
<1> QED
  BY <1>1, <1>2, <1>3, <1>6, <1>8, <1>11 DEF Continues

(* p reads the first message and answers out, at once or when it goes on. *)
LEMMA LineReads ==
  ASSUME QueueTypes, QueueTypes', NEW p \in Peers, NEW out \in Seq(Packets), NEW a \in Seq(Packets),
         net[p] # <<>>, blocked[p] = <<>>,
         net' = [net EXCEPT ![p] = Tail(net[p]), ![Other(p)] = net[Other(p)] \o a],
         Held(Other(p))' = Held(Other(p)),
         (a = out /\ Held(p)' = <<>>) \/ (a = <<>> /\ Held(p)' = out)
  PROVE  /\ Line(p) # <<>> /\ Head(Line(p)) = Head(net[p]) /\ Head(net[p]) \in Packets
         /\ Line(p)' = Tail(Line(p)) /\ Line(Other(p))' = Line(Other(p)) \o out
<1>1. PICK o \in Peers : o = Other(p) /\ o # p /\ Other(o) = p
  BY PeerFacts
<1>2. net[p] \in Seq(Packets) /\ Held(p) = <<>> /\ Held(o) \in Seq(Packets) /\ net[o] \in Seq(Packets)
  BY LineTyped
<1>3. net'[p] = Tail(net[p]) /\ net'[o] = net[o] \o a
  BY <1>1 DEF QueueTypes
<1>4. PICK h \in Seq(Packets) : h = Held(o) /\ Held(o)' = h
  BY <1>1, <1>2
<1>5. Line(p) = net[p] \o h /\ Line(p)' = Tail(net[p]) \o h
  BY <1>1, <1>3, <1>4 DEF Line
<1>6. Line(p) # <<>> /\ Head(Line(p)) = Head(net[p]) /\ Line(p)' = Tail(Line(p))
  <2>1. PICK s \in Seq(Packets) : s = net[p] /\ s # <<>>
    BY <1>2
  <2>2. PICK u : u = s \o h
    OBVIOUS
  <2>3. Continues(u, s, h)
    BY <2>1, <2>2, TailConcat
  <2> QED
    BY <1>5, <2>1, <2>2, <2>3 DEF Continues
<1>7. Line(o) = net[o] \o Held(p) /\ Line(o)' = (net[o] \o a) \o Held(p)'
  BY <1>1, <1>3 DEF Line
<1>8. Line(o) = net[o]
  BY <1>2, <1>7, ConcatEmptySeq
<1>9. net[o] \o out \in Seq(Packets)
  BY <1>2, ConcatProperties
<1>10. Line(o)' = net[o] \o out
  <2>1. CASE a = out /\ Held(p)' = <<>>
    BY <1>7, <1>9, <2>1, ConcatEmptySeq
  <2>2. CASE a = <<>> /\ Held(p)' = out
    <3>1. net[o] \o a = net[o]
      BY <1>2, <2>2, ConcatEmptySeq
    <3> QED
      BY <1>7, <2>2, <3>1
  <2> QED
    BY <2>1, <2>2
<1>11. Head(net[p]) \in Packets
  BY <1>2, HeadTailProperties
<1> QED
  BY <1>1, <1>6, <1>8, <1>10, <1>11

-----------------------------------------------------------------------------
(* What a session's step does to the lines and to the notes *)

BufTypes ==
  /\ buf \in [Peers -> [Conv -> Seq(Notes)]]
  /\ \A p \in Peers, c \in Conv : Len(buf[p][c]) <= Buffer

(* p has read a message and answered e.out, at once or later. *)
Answers(p, e) ==
  /\ chans' = [chans EXCEPT ![p] = e.chans]
  /\ Line(p) # <<>> /\ Head(Line(p)) = Head(net[p]) /\ Head(net[p]) \in Packets
  /\ Line(p)' = Tail(Line(p)) /\ Line(Other(p))' = Line(Other(p)) \o e.out
  /\ QueueTypes'
  /\ \A q \in Peers : \A x \in Elems(Held(q))' : x \in Elems(Held(q)) \/ (q = p /\ x \in Elems(e.out))

LEMMA ClosesTyped ==
  ASSUME closing \in [Conv -> SUBSET Peers], NEW p \in Peers, NEW out, NoteCloses(p, out)
  PROVE  closing' \in [Conv -> SUBSET Peers]
<1>1. \A c \in Conv : closing[c] \in SUBSET Peers /\ closing[c] \cup {p} \in SUBSET Peers
  OBVIOUS
<1> QED
  BY <1>1 DEF NoteCloses

LEMMA ReplyTypes ==
  ASSUME QueueTypes, NEW p \in Peers, NEW e, NEW out \in Seq(Packets), e.out = out,
         net[p] # <<>>, Reply(p, e)
  PROVE  /\ net' = [net EXCEPT ![p] = Tail(net[p]), ![Other(p)] = net[Other(p)] \o out]
         /\ net' \in [Peers -> Seq(Packets)] /\ closing' \in [Conv -> SUBSET Peers]
         /\ chans' = [chans EXCEPT ![p] = e.chans]
<1>1. PICK o \in Peers : o = Other(p) /\ o # p
  BY PeerFacts
<1>2. net \in [Peers -> Seq(Packets)] /\ closing \in [Conv -> SUBSET Peers]
  BY DEF QueueTypes
<1>3. net' = [net EXCEPT ![p] = Tail(net[p]), ![o] = net[o] \o out]
  BY <1>1, <1>2 DEF Reply
<1>4. Tail(net[p]) \in Seq(Packets)
  BY <1>2, HeadTailProperties
<1>5. net[o] \o out \in Seq(Packets)
  BY <1>2, ConcatProperties
<1>6. net' \in [Peers -> Seq(Packets)]
  BY <1>2, <1>3, <1>4, <1>5
<1>7. closing' \in [Conv -> SUBSET Peers]
  BY <1>2, ClosesTyped DEF Reply
<1> QED
  BY <1>1, <1>3, <1>6, <1>7 DEF Reply

LEMMA ReplyAtOnce ==
  ASSUME QueueTypes, BufTypes', NEW p \in Peers, NEW e \in Encs, net[p] # <<>>, blocked[p] = <<>>,
         Reply(p, e), blocked' = blocked
  PROVE  Answers(p, e)
<1>1. PICK o \in Peers : o = Other(p) /\ o # p
  BY PeerFacts
<1>2. PICK out \in Seq(Packets) : out = e.out
  BY EncFacts
<1>3. /\ net' = [net EXCEPT ![p] = Tail(net[p]), ![Other(p)] = net[Other(p)] \o out]
      /\ net' \in [Peers -> Seq(Packets)] /\ closing' \in [Conv -> SUBSET Peers]
      /\ chans' = [chans EXCEPT ![p] = e.chans]
  BY <1>2, ReplyTypes
<1>4. QueueTypes'
  BY <1>3 DEF QueueTypes, BufTypes
<1>5. \A q \in Peers : Held(q)' = Held(q)
  BY DEF Held
<1>6. Held(p)' = <<>>
  BY <1>5, LineTyped
<1>7. Held(Other(p))' = Held(Other(p))
  BY <1>1, <1>5
<1>8. /\ Line(p) # <<>> /\ Head(Line(p)) = Head(net[p]) /\ Head(net[p]) \in Packets
      /\ Line(p)' = Tail(Line(p)) /\ Line(Other(p))' = Line(Other(p)) \o out
  BY <1>3, <1>4, <1>6, <1>7, LineReads
<1>9. \A q \in Peers : Elems(Held(q))' = Elems(Held(q))
  BY <1>5 DEF Elems
<1> QED
  BY <1>2, <1>3, <1>4, <1>8, <1>9 DEF Answers

LEMMA ReplyLater ==
  ASSUME QueueTypes, BufTypes', NEW p \in Peers, NEW e \in Encs, net[p] # <<>>, blocked[p] = <<>>,
         Reply(p, [e EXCEPT !.out = <<>>]), NEW w \in Waiting, w[3] = e.out,
         blocked' = [blocked EXCEPT ![p] = w]
  PROVE  Answers(p, e)
<1>1. PICK o \in Peers : o = Other(p) /\ o # p /\ Peers = {p, o}
  BY PeerFacts
<1>2. PICK out \in Seq(Packets) : out = e.out
  BY EncFacts
<1>3. <<>> \in Seq(Packets)
  OBVIOUS
<1>4. PICK f : f = [e EXCEPT !.out = <<>>]
  OBVIOUS
<1>5. f.out = <<>> /\ f.chans = e.chans
  BY <1>4 DEF Encs
<1>6. PICK a \in Seq(Packets) : a = <<>>
  BY <1>3
<1>7. /\ net' = [net EXCEPT ![p] = Tail(net[p]), ![Other(p)] = net[Other(p)] \o a]
      /\ net' \in [Peers -> Seq(Packets)] /\ closing' \in [Conv -> SUBSET Peers]
      /\ chans' = [chans EXCEPT ![p] = f.chans]
  BY <1>4, <1>5, <1>6, ReplyTypes, ZenonT(60)
<1>8. blocked \in [Peers -> {<<>>} \cup Waiting]
  BY DEF QueueTypes
<1>9. blocked' \in [Peers -> {<<>>} \cup Waiting] /\ blocked'[p] = w /\ blocked'[o] = blocked[o]
  BY <1>1, <1>8
<1>10. QueueTypes'
  BY <1>7, <1>9 DEF QueueTypes, BufTypes
<1>11. Held(p)' = out
  BY <1>2, <1>9, WaitingFacts DEF Held
<1>12. Held(o)' = Held(o)
  BY <1>9 DEF Held
<1>13. /\ Line(p) # <<>> /\ Head(Line(p)) = Head(net[p]) /\ Head(net[p]) \in Packets
       /\ Line(p)' = Tail(Line(p)) /\ Line(Other(p))' = Line(Other(p)) \o out
  BY <1>1, <1>6, <1>7, <1>10, <1>11, <1>12, LineReads
<1>14. Elems(Held(o))' = Elems(Held(o)) /\ Elems(Held(p))' = Elems(out)
  BY <1>11, <1>12 DEF Elems
<1> QED
  BY <1>1, <1>2, <1>5, <1>7, <1>10, <1>13, <1>14 DEF Answers

(* x is among the notes for the application of conversation c at p. *)
InNotes(p, c, x) ==
  x \in Elems(buf[p][c]) \/ (blocked[p] # <<>> /\ blocked[p][1] = c /\ blocked[p][2] = x)

(* The only new note is that of message m, read by p. *)
Noted(p, m, t) ==
  \A q \in Peers, c \in Conv : \A x : InNotes(q, c, x)' =>
    \/ InNotes(q, c, x)
    \/ /\ q = p /\ m.id \in DOMAIN refs[p] /\ c = refs[p][m.id]
       /\ x = [t |-> t, c |-> m.c]

LEMMA RefTableFacts ==
  ASSUME NEW f \in RefTables
  PROVE  DOMAIN f \subseteq Ids /\ f = [i \in DOMAIN f |-> f[i]] /\ \A i \in DOMAIN f : f[i] \in Conv
BY DEF RefTables

(* A note is put into the queue of the application. *)
LEMMA BufAppend ==
  ASSUME BufTypes, NEW p \in Peers, NEW c \in Conv, NEW x \in Notes, Len(buf[p][c]) < Buffer,
         buf' = [buf EXCEPT ![p][c] = Append(buf[p][c], x)]
  PROVE  /\ BufTypes'
         /\ \A q \in Peers, d \in Conv : \A y \in Elems(buf[q][d])' :
              y \in Elems(buf[q][d]) \/ (q = p /\ d = c /\ y = x)
<1>1. buf \in [Peers -> [Conv -> Seq(Notes)]] /\ \A q \in Peers, d \in Conv : Len(buf[q][d]) <= Buffer
  BY DEF BufTypes
<1>2. PICK s \in Seq(Notes) : s = Append(buf[p][c], x)
  <2>1. buf[p][c] \in Seq(Notes)
    BY <1>1
  <2>2. Append(buf[p][c], x) \in Seq(Notes)
    BY <2>1, ElemsAppend
  <2> QED
    BY <2>2
<1>3. Len(s) <= Buffer /\ Elems(s) = Elems(buf[p][c]) \cup {x}
  <2>1. Len(s) = Len(buf[p][c]) + 1 /\ Len(buf[p][c]) \in Nat /\ Buffer \in Nat
    BY <1>1, <1>2, ChannelTableAssumption
  <2>2. Elems(s) = Elems(buf[p][c]) \cup {x}
    BY <1>1, <1>2, ElemsAppend
  <2> QED
    BY <2>1, <2>2
<1>4. buf' = [buf EXCEPT ![p] = [buf[p] EXCEPT ![c] = s]]
  BY <1>1, <1>2
<1>5. buf' \in [Peers -> [Conv -> Seq(Notes)]]
  BY <1>1, <1>4
<1>6. ASSUME NEW q \in Peers, NEW d \in Conv
      PROVE  buf'[q][d] = buf[q][d] \/ (q = p /\ d = c /\ buf'[q][d] = s)
  BY <1>1, <1>4
<1>7. BufTypes'
  BY <1>1, <1>3, <1>5, <1>6 DEF BufTypes
<1>8. ASSUME NEW q \in Peers, NEW d \in Conv, NEW y \in Elems(buf'[q][d])
      PROVE  y \in Elems(buf[q][d]) \/ (q = p /\ d = c /\ y = x)
  BY <1>3, <1>6
<1>9. \A q \in Peers, d \in Conv : Elems(buf[q][d])' = Elems(buf'[q][d])
  BY DEF Elems
<1> QED
  BY <1>7, <1>8, <1>9

LEMMA DeliverEffect ==
  ASSUME QueueTypes, refs \in [Peers -> RefTables], NEW p \in Peers, NEW e \in Encs,
         net[p] # <<>>, blocked[p] = <<>>, NEW m, m = Head(net[p]), NEW t \in NoteNames,
         Deliver(p, e, m, t)
  PROVE  Answers(p, e) /\ Noted(p, m, t)
<1>1. BufTypes /\ net[p] \in Seq(Packets)
  BY DEF QueueTypes, BufTypes
<1>2. m \in Packets
  BY <1>1, HeadTailProperties
<1>3. PICK msg \in Notes : msg = [t |-> t, c |-> m.c]
  BY <1>2, PacketsFacts DEF Notes
<1>4. PICK c : c = refs[p][m.id]
  OBVIOUS
<1>5. CASE m.id \notin DOMAIN refs[p] \/ end[p][c] = "gone"
  <2>1. Reply(p, e) /\ buf' = buf /\ blocked' = blocked
    BY <1>4, <1>5 DEF Deliver
  <2>2. BufTypes'
    BY <1>1, <2>1 DEF BufTypes
  <2>3. Answers(p, e)
    BY <2>1, <2>2, ReplyAtOnce
  <2>4. Noted(p, m, t)
    BY <2>1 DEF Noted, InNotes, Elems
  <2> QED
    BY <2>3, <2>4
<1>6. CASE m.id \in DOMAIN refs[p] /\ end[p][c] # "gone"
  <2>1. c \in Conv
    BY <1>4, <1>6, RefTableFacts, SMTT(60)
  <2>2. CASE Len(buf[p][c]) < Buffer
    <3>1. Reply(p, e) /\ blocked' = blocked /\ buf' = [buf EXCEPT ![p][c] = Append(buf[p][c], msg)]
      BY <1>3, <1>4, <1>6, <2>2 DEF Deliver
    <3>2. /\ BufTypes'
          /\ \A q \in Peers, d \in Conv : \A y \in Elems(buf[q][d])' :
               y \in Elems(buf[q][d]) \/ (q = p /\ d = c /\ y = msg)
      BY <1>1, <2>1, <2>2, <3>1, BufAppend
    <3>3. Answers(p, e)
      BY <3>1, <3>2, ReplyAtOnce
    <3>4. Noted(p, m, t)
      BY <1>3, <1>4, <1>6, <3>1, <3>2, ZenonT(60) DEF Noted, InNotes
    <3> QED
      BY <3>3, <3>4
  <2>3. CASE ~(Len(buf[p][c]) < Buffer)
    <3>1. PICK w : w = <<c, msg, e.out>>
      OBVIOUS
    <3>2. w \in Waiting /\ w[1] = c /\ w[2] = msg /\ w[3] = e.out
      BY <2>1, <3>1, EncFacts DEF Waiting
    <3>3. /\ Reply(p, [e EXCEPT !.out = <<>>]) /\ buf' = buf
          /\ blocked' = [blocked EXCEPT ![p] = w]
      BY <1>3, <1>4, <1>6, <2>3, <3>1 DEF Deliver
    <3>4. BufTypes'
      BY <1>1, <3>3 DEF BufTypes
    <3>5. Answers(p, e)
      BY <3>2, <3>3, <3>4, ReplyLater
    <3>6. blocked'[p] = w /\ \A q \in Peers : q # p => blocked'[q] = blocked[q]
      BY <3>3 DEF QueueTypes
    <3>7. Noted(p, m, t)
      BY <1>3, <1>4, <1>6, <3>2, <3>3, <3>6 DEF Noted, InNotes, Elems
    <3> QED
      BY <3>5, <3>7
  <2> QED
    BY <2>2, <2>3
<1> QED
  BY <1>5, <1>6

LEMMA TryDeliverEffect ==
  ASSUME QueueTypes, refs \in [Peers -> RefTables], NEW p \in Peers, NEW e \in Encs,
         net[p] # <<>>, blocked[p] = <<>>, NEW m, m = Head(net[p]), NEW t \in NoteNames,
         Reply(p, e), TryDeliver(p, m, t)
  PROVE  Answers(p, e) /\ Noted(p, m, t)
<1>1. BufTypes /\ net[p] \in Seq(Packets)
  BY DEF QueueTypes, BufTypes
<1>2. m \in Packets
  BY <1>1, HeadTailProperties
<1>3. PICK msg \in Notes : msg = [t |-> t, c |-> m.c]
  BY <1>2, PacketsFacts DEF Notes
<1>4. PICK c : c = refs[p][m.id]
  OBVIOUS
<1>5. CASE m.id \in DOMAIN refs[p] /\ end[p][c] # "gone" /\ Len(buf[p][c]) < Buffer
  <2>1. c \in Conv
    BY <1>4, <1>5, RefTableFacts
  <2>2. blocked' = blocked /\ buf' = [buf EXCEPT ![p][c] = Append(buf[p][c], msg)]
    BY <1>3, <1>4, <1>5 DEF TryDeliver
  <2>3. /\ BufTypes'
        /\ \A q \in Peers, d \in Conv : \A y \in Elems(buf[q][d])' :
             y \in Elems(buf[q][d]) \/ (q = p /\ d = c /\ y = msg)
    BY <1>1, <1>5, <2>1, <2>2, BufAppend
  <2>4. Answers(p, e)
    BY <2>2, <2>3, ReplyAtOnce
  <2>5. Noted(p, m, t)
    BY <1>3, <1>4, <1>5, <2>2, <2>3, ZenonT(60) DEF Noted, InNotes
  <2> QED
    BY <2>4, <2>5
<1>6. CASE ~(m.id \in DOMAIN refs[p] /\ end[p][c] # "gone" /\ Len(buf[p][c]) < Buffer)
  <2>1. buf' = buf /\ blocked' = blocked
    BY <1>4, <1>6 DEF TryDeliver
  <2>2. BufTypes'
    BY <1>1, <2>1 DEF BufTypes
  <2>3. Answers(p, e)
    BY <2>1, <2>2, ReplyAtOnce
  <2>4. Noted(p, m, t)
    BY <2>1 DEF Noted, InNotes, Elems
  <2> QED
    BY <2>3, <2>4
<1> QED
  BY <1>5, <1>6

-----------------------------------------------------------------------------
(* The invariant of the tables and the lines *)

Known(p, c) == idof[p][c] # IdSpace
Has(p, c)   == idof[p][c] \in DOMAIN chans[p]
Ch(p, c)    == chans[p][idof[p][c]]

(* p knows the channel of c, or knew it, and it is confirmed if it is there. *)
Settled(p, c) == Known(p, c) /\ (Has(p, c) => Ch(p, c).confirmed)

(* The ids a side gives out are all different, *)
CountInv == \A p \in Peers : last[p] = 1 + Cardinality({c \in Conv : Known(p, c)})

(* each belongs to one conversation, in both tables. *)
OwnInv ==
  \A p \in Peers :
    /\ \A c \in Conv : Known(p, c) => idof[p][c] \in 2..last[p]
    /\ \A c, d \in Conv : Known(p, c) /\ idof[p][c] = idof[p][d] => c = d
    /\ \A i \in DOMAIN chans[p] : idof[p][chans[p][i].c] = i
    /\ \A i \in DOMAIN refs[p] : idof[p][refs[p][i]] = i

(* A confirmed channel has the other side's id of the same conversation. *)
PeerInv ==
  \A p \in Peers, c \in Conv : Has(p, c) /\ Ch(p, c).confirmed =>
    Known(Other(p), c) /\ Ch(p, c).peer = idof[Other(p)][c]

(* A message to p carries p's id of its conversation; an open call the       *)
(* opener's, and p has none yet.  An open call and its confirmation find the *)
(* opener's channel waiting.                                                 *)
GoodPacket(p, m) ==
  /\ Known(Other(p), m.c)
  /\ m.t = "open" =>
       /\ ~Known(p, m.c) /\ m.id = idof[Other(p)][m.c] /\ m.n = Window
       /\ Has(Other(p), m.c) /\ ~Ch(Other(p), m.c).confirmed
  /\ m.t # "open" => Known(p, m.c) /\ m.id = idof[p][m.c]
  /\ m.t = "confirmation" =>
       /\ m.k = idof[Other(p)][m.c] /\ m.n = Window
       /\ Has(p, m.c) /\ ~Ch(p, m.c).confirmed

LineInv == \A p \in Peers : \A m \in Elems(Line(p)) : GoodPacket(p, m)

FirstInv == \A p \in Peers : First(Line(p))

(* The answer to an open call that has been read is on its way. *)
AnswerComes ==
  \A p \in Peers, c \in Conv : Has(p, c) /\ ~Ch(p, c).confirmed /\ Known(Other(p), c) =>
    \E m \in Elems(Line(p)) : m.t \in {"confirmation", "open-failure"} /\ m.c = c

CoreInv == CountInv /\ OwnInv /\ PeerInv /\ LineInv /\ FirstInv /\ AnswerComes

LEMMA HasFacts ==
  ASSUME IdTypes, OwnInv, NEW p \in Peers, NEW c \in Conv, Has(p, c)
  PROVE  /\ Known(p, c) /\ Ch(p, c) \in Params /\ Ch(p, c).c = c
         /\ idof[p][c] \in Ids /\ chans[p] \in Tables
<1>1. chans[p] \in Tables
  BY DEF IdTypes
<1>2. idof[p][c] \in Ids /\ Ch(p, c) \in Params
  BY <1>1, TableFacts DEF Has, Ch
<1>3. Known(p, c)
  BY <1>2, ChannelTableAssumption DEF Ids, Known
<1>4. Ch(p, c).c \in Conv /\ idof[p][Ch(p, c).c] = idof[p][c]
  BY <1>2, ParamsFacts DEF OwnInv, Has, Ch
<1>5. Ch(p, c).c = c
  BY <1>3, <1>4 DEF OwnInv
<1> QED
  BY <1>1, <1>2, <1>3, <1>5

LEMMA IdHas ==
  ASSUME IdTypes, OwnInv, NEW p \in Peers, NEW i \in DOMAIN chans[p]
  PROVE  /\ chans[p][i].c \in Conv /\ idof[p][chans[p][i].c] = i
         /\ Has(p, chans[p][i].c) /\ Ch(p, chans[p][i].c) = chans[p][i]
<1>1. chans[p] \in Tables
  BY DEF IdTypes
<1>2. chans[p][i] \in Params
  BY <1>1, TableFacts
<1> QED
  BY <1>2, ParamsFacts DEF OwnInv, Has, Ch

(* p does e to the channel of conversation c. *)
Works(p, c, e) ==
  /\ e \in Encs /\ Worked(chans[p], idof[p][c], e)
  /\ chans' = [chans EXCEPT ![p] = e.chans]
  /\ idof' = idof /\ last' = last
  /\ Line(Other(p))' = Line(Other(p)) \o e.out
  /\ \A q \in Peers : \A i \in DOMAIN refs'[q] : i \in DOMAIN refs[q] /\ refs'[q][i] = refs[q][i]
  /\ Has(p, c) => Ch(p, c).confirmed \/ (~Has(p, c)' /\ e.out = <<>>)

Took(p, c) == Line(p)' = Line(p) /\ (Has(p, c) => Ch(p, c).confirmed)

Got(p, c) ==
  /\ Line(p) # <<>> /\ Line(p)' = Tail(Line(p)) /\ Head(Line(p)).c = c
  /\ Head(Line(p)).t \in Ordinary \cup {"open-failure"}
  /\ Head(Line(p)).t = "open-failure" => ~Has(p, c)'

(* The other channels are left alone, the one of c at most forgotten. *)
Spares(p, c, e) ==
  /\ \A q \in Peers, d \in Conv : Known(q, d)' = Known(q, d)
  /\ \A q \in Peers, d \in Conv : q # p \/ d # c =>
       /\ Has(q, d)' = Has(q, d)
       /\ Has(q, d) => Ch(q, d)' = Ch(q, d)
  /\ Has(p, c)' =>
       /\ Has(p, c) /\ Ch(p, c)'.confirmed = Ch(p, c).confirmed
       /\ Ch(p, c)'.peer = Ch(p, c).peer /\ Ch(p, c).confirmed
  /\ e.out \in Seq(Packets)
  /\ \A m \in Elems(e.out) :
       /\ m.t \in Ordinary /\ m.c = c /\ m.id = idof[Other(p)][c] /\ Known(Other(p), c)
       /\ Known(p, c)

LEMMA WorkSpares ==
  ASSUME IdTypes, CoreInv, NEW p \in Peers, NEW c \in Conv, NEW e, Works(p, c, e)
  PROVE  Spares(p, c, e)
<1>1. OwnInv /\ PeerInv
  BY DEF CoreInv
<1>2. idof' = idof /\ chans' = [chans EXCEPT ![p] = e.chans] /\ e \in Encs
  BY DEF Works
<1>3. chans \in [Peers -> Tables]
  BY DEF IdTypes
<1>4. chans'[p] = e.chans /\ \A q \in Peers : q # p => chans'[q] = chans[q]
  BY <1>2, <1>3
<1>5. \A q \in Peers, d \in Conv : Known(q, d)' = Known(q, d)
  BY <1>2 DEF Known
<1>6. PICK id : id = idof[p][c]
  OBVIOUS
<1>7. e.out \in Seq(Packets) /\ e.chans \in Tables /\ chans[p] \in Tables
  BY <1>2, <1>3, EncFacts
<1>8. CASE id \notin DOMAIN chans[p]
  <2>1. e.chans = chans[p] /\ e.out = <<>>
    BY <1>6, <1>8 DEF Works, Worked
  <2>2. \A q \in Peers : chans'[q] = chans[q]
    BY <1>4, <2>1
  <2>3. \A q \in Peers, d \in Conv : Has(q, d)' = Has(q, d) /\ Ch(q, d)' = Ch(q, d)
    BY <1>2, <2>2 DEF Has, Ch
  <2>4. ~Has(p, c)
    BY <1>6, <1>8 DEF Has
  <2>5. Elems(e.out) = {}
    BY <2>1, ElemsEmpty
  <2> QED
    BY <1>5, <1>7, <2>3, <2>4, <2>5 DEF Spares
<1>9. CASE id \in DOMAIN chans[p]
  <2>1. Kept(chans[p], id, e.chans) /\ Outs(chans[p], id, e.out)
    BY <1>6, <1>9 DEF Works, Worked
  <2>2. Has(p, c) /\ Ch(p, c) = chans[p][id]
    BY <1>6, <1>9 DEF Has, Ch
  <2>3. Known(p, c) /\ Ch(p, c).c = c
    BY <1>1, <2>2, HasFacts
  <2>4. ASSUME NEW q \in Peers, NEW d \in Conv, q # p \/ d # c
        PROVE  /\ Has(q, d)' = Has(q, d)
               /\ Has(q, d) => Ch(q, d)' = Ch(q, d)
    <3>1. CASE q # p
      BY <1>2, <1>4, <3>1 DEF Has, Ch
    <3>2. CASE q = p
      <4>1. d # c /\ idof[p][d] # id
        BY <1>1, <1>6, <2>3, <2>4, <3>2 DEF OwnInv
      <4>2. idof[p][d] \in DOMAIN e.chans <=> idof[p][d] \in DOMAIN chans[p]
        BY <2>1, <4>1 DEF Kept
      <4>3. idof[p][d] \in DOMAIN chans[p] => e.chans[idof[p][d]] = chans[p][idof[p][d]]
        BY <2>1, <4>1, <4>2 DEF Kept
      <4> QED
        BY <1>2, <1>4, <3>2, <4>2, <4>3 DEF Has, Ch
    <3> QED
      BY <3>1, <3>2
  <2>5. ASSUME Has(p, c)'
        PROVE  /\ Has(p, c) /\ Ch(p, c)'.confirmed = Ch(p, c).confirmed
               /\ Ch(p, c)'.peer = Ch(p, c).peer /\ Ch(p, c).confirmed
    <3>1. id \in DOMAIN e.chans /\ Ch(p, c)' = e.chans[id]
      BY <1>2, <1>4, <1>6, <2>5 DEF Has, Ch
    <3>2. e.chans[id].confirmed = chans[p][id].confirmed /\ e.chans[id].peer = chans[p][id].peer
      BY <2>1, <3>1 DEF Kept
    <3>3. Ch(p, c).confirmed
      BY <2>2, <2>5 DEF Works
    <3> QED
      BY <2>2, <3>1, <3>2, <3>3
  <2>6. ASSUME NEW m \in Elems(e.out)
        PROVE  /\ m.t \in Ordinary /\ m.c = c /\ m.id = idof[Other(p)][c] /\ Known(Other(p), c)
               /\ Known(p, c)
    <3>1. e.out # <<>>
      BY <2>6, ElemsEmpty
    <3>2. Ch(p, c).confirmed
      BY <2>2, <3>1 DEF Works
    <3>3. Known(Other(p), c) /\ Ch(p, c).peer = idof[Other(p)][c]
      BY <1>1, <2>2, <3>2 DEF PeerInv
    <3>4. m.t \in Ordinary /\ m.id = chans[p][id].peer /\ m.c = chans[p][id].c
      BY <2>1, <2>6 DEF Outs
    <3> QED
      BY <2>2, <2>3, <3>3, <3>4
  <2> QED
    BY <1>5, <1>7, <2>4, <2>5, <2>6 DEF Spares
<1> QED
  BY <1>8, <1>9

LEMMA WorkCore ==
  ASSUME IdTypes, QueueTypes, CoreInv, NEW p \in Peers, NEW c \in Conv, NEW e, Works(p, c, e),
         Took(p, c) \/ Got(p, c)
  PROVE  CoreInv'
<1>1. CountInv /\ OwnInv /\ PeerInv /\ LineInv /\ FirstInv /\ AnswerComes
  BY DEF CoreInv
<1>2. Spares(p, c, e)
  BY WorkSpares
<1>3. PICK o \in Peers : o = Other(p) /\ o # p /\ Other(o) = p /\ Peers = {p, o}
  BY PeerFacts
<1>4. /\ idof' = idof /\ last' = last /\ chans' = [chans EXCEPT ![p] = e.chans] /\ e \in Encs
      /\ Line(o)' = Line(o) \o e.out
      /\ \A q \in Peers : \A i \in DOMAIN refs'[q] : i \in DOMAIN refs[q] /\ refs'[q][i] = refs[q][i]
  BY <1>3 DEF Works
<1>5. /\ \A q \in Peers, d \in Conv : Known(q, d)' = Known(q, d)
      /\ \A q \in Peers, d \in Conv : q # p \/ d # c =>
           Has(q, d)' = Has(q, d) /\ (Has(q, d) => Ch(q, d)' = Ch(q, d))
      /\ Has(p, c)' =>
           /\ Has(p, c) /\ Ch(p, c)'.confirmed = Ch(p, c).confirmed
           /\ Ch(p, c)'.peer = Ch(p, c).peer /\ Ch(p, c).confirmed
      /\ e.out \in Seq(Packets)
      /\ \A m \in Elems(e.out) :
           /\ m.t \in Ordinary /\ m.c = c /\ m.id = idof[o][c] /\ Known(o, c) /\ Known(p, c)
  BY <1>2, <1>3 DEF Spares
<1>6. CountInv'
  <2>1. \A q \in Peers : {d \in Conv : Known(q, d)}' = {d \in Conv : Known(q, d)}
    BY <1>5
  <2> QED
    BY <1>1, <1>4, <2>1 DEF CountInv
<1>7. OwnInv'
  <2>1. ASSUME NEW q \in Peers, NEW i \in DOMAIN chans'[q]
        PROVE  i \in DOMAIN chans[q] /\ chans'[q][i].c = chans[q][i].c
    <3>1. CASE q # p
      BY <1>4, <3>1 DEF IdTypes
    <3>2. CASE q = p
      <4>1. chans'[p] = e.chans
        BY <1>4 DEF IdTypes
      <4>2. CASE idof[p][c] \in DOMAIN chans[p]
        BY <2>1, <3>2, <4>1, <4>2 DEF Works, Worked, Kept
      <4>3. CASE idof[p][c] \notin DOMAIN chans[p]
        BY <2>1, <3>2, <4>1, <4>3 DEF Works, Worked
      <4> QED
        BY <4>2, <4>3
    <3> QED
      BY <3>1, <3>2
  <2>2. ASSUME NEW q \in Peers
        PROVE  /\ \A d \in Conv : Known(q, d)' => idof'[q][d] \in 2..last'[q]
               /\ \A d, f \in Conv : Known(q, d)' /\ idof'[q][d] = idof'[q][f] => d = f
    BY <1>1, <1>4, <1>5 DEF OwnInv
  <2>3. ASSUME NEW q \in Peers, NEW i \in DOMAIN chans'[q] PROVE idof'[q][chans'[q][i].c] = i
    BY <1>1, <1>4, <2>1 DEF OwnInv
  <2>4. ASSUME NEW q \in Peers, NEW i \in DOMAIN refs'[q] PROVE idof'[q][refs'[q][i]] = i
    BY <1>1, <1>4 DEF OwnInv
  <2> QED
    BY <2>2, <2>3, <2>4 DEF OwnInv
<1>8. PeerInv'
  <2>1. ASSUME NEW q \in Peers, NEW d \in Conv, Has(q, d)', Ch(q, d)'.confirmed
        PROVE  Known(Other(q), d)' /\ Ch(q, d)'.peer = idof'[Other(q)][d]
    <3>1. Has(q, d) /\ Ch(q, d).confirmed /\ Ch(q, d)'.peer = Ch(q, d).peer
      BY <1>5, <2>1
    <3>2. Other(q) \in Peers
      BY PeerFacts
    <3> QED
      BY <1>1, <1>4, <1>5, <3>1, <3>2 DEF PeerInv
  <2> QED
    BY <2>1 DEF PeerInv
<1>9. Line(p) \in Seq(Packets) /\ Line(o) \in Seq(Packets)
  BY LineTyped
<1>10. /\ First(Line(p)') /\ Elems(Line(p)') \subseteq Elems(Line(p))
       /\ \A m \in Elems(Line(p)) : m.c # c => m \in Elems(Line(p)')
       /\ \A m \in Elems(Line(p)') : m.t \in Heralds /\ m.c = c /\ Has(p, c) => Ch(p, c).confirmed
  <2>1. CASE Took(p, c)
    BY <1>1, <2>1 DEF Took, FirstInv
  <2>2. CASE Got(p, c)
    <3>1. PICK s \in Seq(Packets) : s = Line(p)
      BY <1>9
    <3>2. s # <<>> /\ Line(p)' = Tail(s) /\ Head(s).c = c /\ First(s)
      BY <1>1, <2>2, <3>1 DEF Got, FirstInv
    <3>3. First(Tail(s)) /\ \A x \in Elems(Tail(s)) : x.t \in Heralds => x.c # c
      BY <3>2, FirstTail
    <3>4. Elems(Tail(s)) \subseteq Elems(s) /\ \A x \in Elems(s) : x # Head(s) => x \in Elems(Tail(s))
      BY <3>2, ElemsTail
    <3> QED
      BY <3>1, <3>2, <3>3, <3>4
  <2> QED
    BY <2>1, <2>2
<1>11. /\ First(Line(o)') /\ Elems(Line(o)') = Elems(Line(o)) \cup Elems(e.out)
  <2>1. PICK s \in Seq(Packets) : s = Line(o)
    BY <1>9
  <2>2. PICK r \in Seq(Packets) : r = e.out
    BY <1>5
  <2>3. Line(o)' = s \o r
    BY <1>4, <2>1, <2>2
  <2>4. Elems(s \o r) = Elems(s) \cup Elems(r)
    BY ElemsConcat
  <2>5. First(s) /\ \A x \in Elems(r) : x.t \notin Heralds
    BY <1>1, <1>5, <2>1, <2>2 DEF FirstInv, Ordinary, Heralds
  <2>6. First(s \o r)
    BY <2>5, FirstOthers
  <2> QED
    BY <2>1, <2>2, <2>3, <2>4, <2>6
<1>12. FirstInv'
  BY <1>3, <1>10, <1>11 DEF FirstInv
<1>13. \A q \in Peers : \A m \in Elems(Line(q)) : m \in Packets /\ m.c \in Conv /\ GoodPacket(q, m)
  <2>1. \A q \in Peers : Elems(Line(q)) \subseteq Packets
    BY LineTyped, ElemsTyped
  <2> QED
    BY <1>1, <2>1, PacketsFacts DEF LineInv
<1>14. ASSUME Has(p, c), ~Ch(p, c).confirmed PROVE Known(o, c)
  <2>1. Got(p, c)
    BY <1>14 DEF Took
  <2>2. Line(p) # <<>> /\ Head(Line(p)).c = c /\ Head(Line(p)).t # "open"
    BY <2>1 DEF Got, Ordinary
  <2>3. Head(Line(p)) \in Elems(Line(p))
    BY <1>9, <2>2, ElemsTail
  <2> QED
    BY <1>3, <1>13, <2>2, <2>3 DEF GoodPacket
<1>15. ASSUME NEW m \in Elems(Line(p)') PROVE GoodPacket(p, m)'
  <2>1. m \in Elems(Line(p)) /\ m.c \in Conv /\ GoodPacket(p, m)
    BY <1>10, <1>13
  <2>2. m.t = "confirmation" => m.c # c
    BY <1>10, <2>1 DEF GoodPacket, Heralds
  <2> QED
    BY <1>3, <1>4, <1>5, <2>1, <2>2 DEF GoodPacket
<1>16. ASSUME NEW m \in Elems(Line(o)') PROVE GoodPacket(o, m)'
  <2>1. CASE m \in Elems(Line(o))
    <3>1. m.c \in Conv /\ GoodPacket(o, m)
      BY <1>13, <2>1
    <3>2. m.t = "open" => m.c # c
      BY <1>3, <1>14, <3>1 DEF GoodPacket
    <3> QED
      BY <1>3, <1>4, <1>5, <3>1, <3>2 DEF GoodPacket
  <2>2. CASE m \in Elems(e.out)
    <3>1. /\ m.t \notin {"open", "confirmation"} /\ m.c = c /\ m.id = idof'[o][m.c]
          /\ Known(o, m.c)' /\ Known(p, m.c)'
      BY <1>4, <1>5, <2>2 DEF Ordinary
    <3> QED
      BY <1>3, <3>1 DEF GoodPacket
  <2> QED
    BY <1>11, <2>1, <2>2
<1>17. LineInv'
  <2>1. \A q \in Peers : Elems(Line(q))' = Elems(Line(q)')
    BY DEF Elems
  <2> QED
    BY <1>3, <1>15, <1>16, <2>1 DEF LineInv
<1>18. AnswerComes'
  <2>1. ASSUME NEW q \in Peers, NEW d \in Conv, Has(q, d)', ~Ch(q, d)'.confirmed, Known(Other(q), d)'
        PROVE  \E m \in Elems(Line(q)') : m.t \in {"confirmation", "open-failure"} /\ m.c = d
    <3>1. (q # p \/ d # c) /\ Has(q, d) /\ ~Ch(q, d).confirmed /\ Known(Other(q), d)
      BY <1>5, <2>1, PeerFacts
    <3>2. PICK m \in Elems(Line(q)) : m.t \in {"confirmation", "open-failure"} /\ m.c = d
      BY <1>1, <3>1 DEF AnswerComes
    <3>3. m \in Elems(Line(q)')
      BY <1>3, <1>10, <1>11, <3>1, <3>2
    <3> QED
      BY <3>2, <3>3
  <2>2. \A q \in Peers : Elems(Line(q))' = Elems(Line(q)')
    BY DEF Elems
  <2> QED
    BY <2>1, <2>2 DEF AnswerComes
<1> QED
  BY <1>6, <1>7, <1>8, <1>12, <1>17, <1>18 DEF CoreInv

(* Nothing happens that the tables or the lines show, but references may go. *)
Rests ==
  /\ idof' = idof /\ last' = last /\ chans' = chans
  /\ \A q \in Peers : Line(q)' = Line(q)
  /\ \A q \in Peers : \A i \in DOMAIN refs'[q] : i \in DOMAIN refs[q] /\ refs'[q][i] = refs[q][i]

LEMMA RestCore ==
  ASSUME CoreInv, Rests
  PROVE  CoreInv'
<1>1. CountInv /\ OwnInv /\ PeerInv /\ LineInv /\ FirstInv /\ AnswerComes
  BY DEF CoreInv
<1>2. /\ \A q \in Peers, d \in Conv : Known(q, d)' = Known(q, d)
      /\ \A q \in Peers, d \in Conv : Has(q, d)' = Has(q, d) /\ Ch(q, d)' = Ch(q, d)
      /\ idof' = idof /\ last' = last /\ chans' = chans
  BY DEF Rests, Known, Has, Ch
<1>3. \A q \in Peers : Elems(Line(q))' = Elems(Line(q)) /\ (First(Line(q))' <=> First(Line(q)))
  BY DEF Rests, Elems, First
<1>4. CountInv'
  <2>1. \A q \in Peers : {d \in Conv : Known(q, d)}' = {d \in Conv : Known(q, d)}
    BY <1>2
  <2> QED
    BY <1>1, <1>2, <2>1 DEF CountInv
<1>5. OwnInv'
  <2>1. ASSUME NEW q \in Peers
        PROVE  /\ \A d \in Conv : Known(q, d)' => idof'[q][d] \in 2..last'[q]
               /\ \A d, f \in Conv : Known(q, d)' /\ idof'[q][d] = idof'[q][f] => d = f
    BY <1>1, <1>2 DEF OwnInv
  <2>2. ASSUME NEW q \in Peers, NEW i \in DOMAIN chans'[q] PROVE idof'[q][chans'[q][i].c] = i
    BY <1>1, <1>2 DEF OwnInv
  <2>3. ASSUME NEW q \in Peers, NEW i \in DOMAIN refs'[q] PROVE idof'[q][refs'[q][i]] = i
    BY <1>1, <1>2 DEF OwnInv, Rests
  <2> QED
    BY <2>1, <2>2, <2>3 DEF OwnInv
<1>6. PeerInv'
  BY <1>1, <1>2, PeerFacts DEF PeerInv
<1>7. FirstInv'
  BY <1>1, <1>3 DEF FirstInv
<1>8. LineInv'
  <2>1. ASSUME NEW q \in Peers, NEW m \in Elems(Line(q)) PROVE GoodPacket(q, m)'
    <3>1. GoodPacket(q, m)
      BY <1>1 DEF LineInv
    <3> QED
      BY <1>2, <3>1 DEF GoodPacket, Known, Has, Ch
  <2> QED
    BY <1>3, <2>1 DEF LineInv
<1>9. AnswerComes'
  <2>1. ASSUME NEW q \in Peers, NEW d \in Conv, Has(q, d)', ~Ch(q, d)'.confirmed, Known(Other(q), d)'
        PROVE  \E m \in Elems(Line(q))' : m.t \in {"confirmation", "open-failure"} /\ m.c = d
    BY <1>1, <1>2, <1>3, <2>1, PeerFacts DEF AnswerComes
  <2> QED
    BY <2>1 DEF AnswerComes
<1> QED
  BY <1>4, <1>5, <1>6, <1>7, <1>8, <1>9 DEF CoreInv

-----------------------------------------------------------------------------
(* new_channel_id: the ids never come round again. *)

LEMMA SmallMod == ASSUME NEW n \in Nat \ {0}, NEW x \in Nat, x < n PROVE x % n = x
OBVIOUS

(* id is new to p, the first of conversation c. *)
Fresh(p, c, id) ==
  /\ id = last[p] + 1 /\ id \in Ids /\ id \in Nat
  /\ id \notin DOMAIN chans[p] /\ id \notin DOMAIN refs[p]
  /\ \A d \in Conv : idof[p][d] # id
  /\ ~Known(p, c)

LEMMA FewKnown ==
  ASSUME NEW p \in Peers, NEW c \in Conv, ~Known(p, c)
  PROVE  /\ Cardinality({d \in Conv : Known(p, d)}) \in Nat
         /\ Cardinality({d \in Conv : Known(p, d)}) + 1 <= MaxOpens
         /\ Cardinality({d \in Conv : Known(p, d)} \cup {c})
              = Cardinality({d \in Conv : Known(p, d)}) + 1
<1> DEFINE K == {d \in Conv : Known(p, d)}
<1>1. MaxOpens \in Nat
  BY ChannelTableAssumption
<1>2. IsFiniteSet(Conv) /\ Cardinality(Conv) = MaxOpens
  BY <1>1, FS_Interval DEF Conv
<1>3. K \subseteq Conv /\ c \notin K
  OBVIOUS
<1>4. IsFiniteSet(K) /\ Cardinality(K) \in Nat
  BY <1>2, <1>3, FS_Subset, FS_CardinalityType
<1>5. IsFiniteSet(K \cup {c}) /\ Cardinality(K \cup {c}) = Cardinality(K) + 1
  BY <1>3, <1>4, FS_AddElement
<1>6. K \cup {c} \subseteq Conv
  BY <1>3
<1>7. Cardinality(K \cup {c}) <= MaxOpens
  BY <1>2, <1>6, FS_Subset
<1> QED
  BY <1>4, <1>5, <1>7

LEMMA NewId ==
  ASSUME IdTypes, CountInv, OwnInv, NEW p \in Peers, NEW c \in Conv, ~Known(p, c)
  PROVE  Fresh(p, c, new_channel_id(p))
<1>1. /\ last[p] \in Nat /\ chans[p] \in Tables /\ refs[p] \in RefTables
      /\ \A d \in Conv : idof[p][d] \in Ids \cup {IdSpace}
  BY DEF IdTypes
<1>2. PICK n \in Nat : n = Cardinality({d \in Conv : Known(p, d)}) /\ n + 1 <= MaxOpens
  BY FewKnown
<1>3. last[p] = 1 + n
  BY <1>2 DEF CountInv
<1>4. MaxOpens \in Nat /\ IdSpace \in Nat /\ IdSpace > MaxOpens + 2
  BY ChannelTableAssumption
<1>5. PICK id \in Nat : id = last[p] + 1
  BY <1>1
<1>6. id < IdSpace /\ id \in Ids
  BY <1>2, <1>3, <1>4, <1>5 DEF Ids
<1>7. \A d \in Conv : idof[p][d] # id
  <2>1. ASSUME NEW d \in Conv, idof[p][d] = id PROVE FALSE
    <3>1. Known(p, d)
      BY <1>4, <1>6, <2>1 DEF Known
    <3>2. idof[p][d] \in 2..last[p]
      BY <3>1 DEF OwnInv
    <3> QED
      BY <1>1, <1>5, <2>1, <3>2
  <2> QED
    BY <2>1
<1>8. id \notin DOMAIN chans[p]
  BY <1>7, IdHas
<1>9. id \notin DOMAIN refs[p]
  <2>1. ASSUME id \in DOMAIN refs[p] PROVE FALSE
    <3>1. refs[p][id] \in Conv
      BY <1>1, <2>1, RefTableFacts
    <3>2. idof[p][refs[p][id]] = id
      BY <2>1 DEF OwnInv
    <3> QED
      BY <1>7, <3>1, <3>2
  <2> QED
    BY <2>1
<1>10. new_channel_id(p) = id
  <2> DEFINE After(k) == (last[p] + k) % IdSpace
             P(k) == /\ After(k) \notin DOMAIN chans[p]
                     /\ \A j \in 1 .. k - 1 : After(j) \in DOMAIN chans[p]
  <2>1. After(1) = id
    BY <1>4, <1>5, <1>6, SmallMod
  <2>2. 1 \in 1..IdSpace /\ P(1)
    BY <1>4, <1>8, <2>1
  <2>3. ASSUME NEW k \in 1..IdSpace, k # 1 PROVE ~P(k)
    <3>1. 1 \in 1..(k - 1)
      BY <1>4, <2>3
    <3> QED
      BY <1>8, <2>1, <3>1
  <2>4. new_channel_id(p) = After(CHOOSE k \in 1..IdSpace : P(k))
    BY DEF new_channel_id
  <2> HIDE DEF P
  <2>5. (CHOOSE k \in 1..IdSpace : P(k)) = 1
    BY <2>2, <2>3
  <2> QED
    BY <2>1, <2>4, <2>5
<1> QED
  BY <1>5, <1>6, <1>7, <1>8, <1>9, <1>10 DEF Fresh

(* p gives conversation c the id, and enters it in its tables or not. *)
Enters(p, c, id, a) ==
  /\ last' = [last EXCEPT ![p] = id] /\ idof' = [idof EXCEPT ![p][c] = id]
  /\ chans' = chans \/ chans' = [chans EXCEPT ![p] = With(chans[p], id, a)]
  /\ refs' = refs \/ refs' = [refs EXCEPT ![p] = With(refs[p], id, c)]

(* The other channels are left alone. *)
Entered(p, c, id, a) ==
  /\ ~Known(p, c) /\ ~Has(p, c) /\ idof'[p][c] = id
  /\ \A q \in Peers, d \in Conv : Known(q, d)' <=> (Known(q, d) \/ (q = p /\ d = c))
  /\ \A q \in Peers, d \in Conv : q # p \/ d # c =>
       /\ idof'[q][d] = idof[q][d] /\ Has(q, d)' = Has(q, d)
       /\ Has(q, d) => Ch(q, d)' = Ch(q, d)
  /\ chans' = chans => ~Has(p, c)'
  /\ Has(p, c)' => Ch(p, c)' = a
  /\ chans' # chans => Has(p, c)'

LEMMA EnterOwn ==
  ASSUME IdTypes, CountInv, OwnInv, NEW p \in Peers, NEW c \in Conv, NEW id, Fresh(p, c, id),
         NEW a \in Params, a.c = c, Enters(p, c, id, a)
  PROVE  IdTypes' /\ CountInv' /\ OwnInv' /\ Entered(p, c, id, a)
<1>1. /\ last \in [Peers -> Nat] /\ idof \in [Peers -> [Conv -> Ids \cup {IdSpace}]]
      /\ chans \in [Peers -> Tables] /\ refs \in [Peers -> RefTables]
  BY DEF IdTypes
<1>2. /\ id = last[p] + 1 /\ id \in Ids /\ id \in Nat
      /\ id \notin DOMAIN chans[p] /\ id \notin DOMAIN refs[p]
      /\ \A d \in Conv : idof[p][d] # id
      /\ ~Known(p, c)
  BY DEF Fresh
<1>3. /\ last' = [last EXCEPT ![p] = id] /\ idof' = [idof EXCEPT ![p][c] = id]
      /\ chans' = chans \/ chans' = [chans EXCEPT ![p] = With(chans[p], id, a)]
      /\ refs' = refs \/ refs' = [refs EXCEPT ![p] = With(refs[p], id, c)]
  BY DEF Enters
<1>4. /\ last' \in [Peers -> Nat] /\ last'[p] = id /\ \A q \in Peers : q # p => last'[q] = last[q]
  BY <1>1, <1>2, <1>3
<1>5. /\ idof' \in [Peers -> [Conv -> Ids \cup {IdSpace}]] /\ idof'[p][c] = id
      /\ \A q \in Peers, d \in Conv : q # p \/ d # c => idof'[q][d] = idof[q][d]
  <2>1. PICK r : r = [idof[p] EXCEPT ![c] = id]
    OBVIOUS
  <2>2. idof[p] \in [Conv -> Ids \cup {IdSpace}]
    BY <1>1
  <2>3. /\ r \in [Conv -> Ids \cup {IdSpace}] /\ r[c] = id
        /\ \A d \in Conv : d # c => r[d] = idof[p][d]
    BY <1>2, <2>1, <2>2
  <2>4. idof' = [idof EXCEPT ![p] = r]
    BY <1>3, <2>1
  <2> QED
    BY <1>1, <2>3, <2>4
<1>6. PICK T : T = With(chans[p], id, a)
  OBVIOUS
<1>7. /\ T \in Tables /\ DOMAIN T = DOMAIN chans[p] \cup {id} /\ T[id] = a
      /\ \A i \in DOMAIN chans[p] \ {id} : T[i] = chans[p][i]
  <2>1. PICK X \in Tables : X = chans[p]
    BY <1>1
  <2>2. /\ With(X, id, a) \in Tables /\ DOMAIN With(X, id, a) = DOMAIN X \cup {id}
        /\ With(X, id, a)[id] = a /\ \A i \in DOMAIN X \ {id} : With(X, id, a)[i] = X[i]
    BY <1>2, TableWith
  <2> QED
    BY <1>6, <2>1, <2>2
<1>8. /\ chans' \in [Peers -> Tables] /\ \A q \in Peers : q # p => chans'[q] = chans[q]
      /\ chans' = chans \/ chans'[p] = T
  BY <1>1, <1>3, <1>6, <1>7
<1>9. PICK R : R = With(refs[p], id, c)
  OBVIOUS
<1>10. /\ R \in RefTables /\ DOMAIN R = DOMAIN refs[p] \cup {id} /\ R[id] = c
       /\ \A i \in DOMAIN refs[p] : R[i] = refs[p][i]
  <2>1. R = [y \in DOMAIN refs[p] \cup {id} |-> IF y = id THEN c ELSE refs[p][y]]
    BY <1>9 DEF With
  <2>2. DOMAIN refs[p] \subseteq Ids /\ \A i \in DOMAIN refs[p] : refs[p][i] \in Conv
    BY <1>1, RefTableFacts
  <2>3. R \in [DOMAIN refs[p] \cup {id} -> Conv] /\ DOMAIN refs[p] \cup {id} \subseteq Ids
    BY <1>2, <2>1, <2>2
  <2>4. R \in RefTables
    BY <2>3 DEF RefTables
  <2>5. \A i \in DOMAIN refs[p] : i # id
    BY <1>2
  <2> QED
    BY <2>1, <2>4, <2>5
<1>11. /\ refs' \in [Peers -> RefTables] /\ \A q \in Peers : q # p => refs'[q] = refs[q]
       /\ refs' = refs \/ refs'[p] = R
  BY <1>1, <1>3, <1>9, <1>10
<1>12. IdTypes'
  BY <1>4, <1>5, <1>8, <1>11 DEF IdTypes
<1>13. id # IdSpace
  BY <1>2, ChannelTableAssumption DEF Ids
<1>14. \A q \in Peers, d \in Conv : Known(q, d)' <=> (Known(q, d) \/ (q = p /\ d = c))
  BY <1>5, <1>13 DEF Known
<1>15. CountInv'
  <2>1. ASSUME NEW q \in Peers, q # p PROVE last'[q] = 1 + Cardinality({d \in Conv : Known(q, d)'})
    <3>1. {d \in Conv : Known(q, d)'} = {d \in Conv : Known(q, d)}
      BY <1>14, <2>1
    <3> QED
      BY <1>4, <2>1, <3>1 DEF CountInv
  <2>2. last'[p] = 1 + Cardinality({d \in Conv : Known(p, d)'})
    <3>1. {d \in Conv : Known(p, d)'} = {d \in Conv : Known(p, d)} \cup {c}
      <4>1. \A d \in Conv : Known(p, d)' <=> (Known(p, d) \/ d = c)
        BY <1>14
      <4> QED
        BY <4>1
    <3>2. PICK n \in Nat : /\ n = Cardinality({d \in Conv : Known(p, d)})
                           /\ Cardinality({d \in Conv : Known(p, d)} \cup {c}) = n + 1
      BY <1>2, FewKnown
    <3>3. last[p] = 1 + n
      BY <3>2 DEF CountInv
    <3>4. PICK N : N = Cardinality({d \in Conv : Known(p, d)'})
      OBVIOUS
    <3>5. N = n + 1
      BY <3>1, <3>2, <3>4
    <3>6. last'[p] = 1 + N
      BY <1>2, <1>4, <3>3, <3>5
    <3> QED
      BY <3>4, <3>6
  <2>3. \A q \in Peers : {d \in Conv : Known(q, d)}' = {d \in Conv : Known(q, d)'}
    OBVIOUS
  <2> QED
    BY <2>1, <2>2, <2>3 DEF CountInv
<1>16. OwnInv'
  <2>1. ASSUME NEW q \in Peers, NEW d \in Conv, Known(q, d)' PROVE idof'[q][d] \in 2..last'[q]
    <3>1. CASE q = p /\ d = c
      <4>1. /\ last[p] = 1 + Cardinality({f \in Conv : Known(p, f)})
            /\ Cardinality({f \in Conv : Known(p, f)}) \in Nat
        BY <1>2, FewKnown DEF CountInv
      <4>2. id \in 2..id
        BY <1>2, <4>1
      <4> QED
        BY <1>4, <1>5, <3>1, <4>2
    <3>2. CASE ~(q = p /\ d = c)
      <4>1. idof[q][d] \in 2..last[q] /\ idof'[q][d] = idof[q][d]
        BY <1>5, <1>14, <2>1, <3>2 DEF OwnInv
      <4>2. last[q] \in Nat /\ last'[q] \in Nat /\ last[q] <= last'[q]
        BY <1>1, <1>2, <1>4
      <4> QED
        BY <4>1, <4>2
    <3> QED
      BY <3>1, <3>2
  <2>2. ASSUME NEW q \in Peers, NEW d \in Conv, NEW f \in Conv, Known(q, d)', idof'[q][d] = idof'[q][f]
        PROVE  d = f
    <3>1. CASE q = p /\ d = c
      BY <1>2, <1>5, <2>2, <3>1
    <3>2. CASE q = p /\ f = c
      BY <1>2, <1>5, <2>2, <3>2
    <3>3. CASE ~(q = p /\ d = c) /\ ~(q = p /\ f = c)
      <4>1. Known(q, d) /\ idof[q][d] = idof[q][f]
        BY <1>5, <1>14, <2>2, <3>3
      <4> QED
        BY <4>1 DEF OwnInv
    <3> QED
      BY <3>1, <3>2, <3>3
  <2>3. ASSUME NEW q \in Peers, NEW i \in DOMAIN chans'[q] PROVE idof'[q][chans'[q][i].c] = i
    <3>1. CASE i \in DOMAIN chans[q] /\ chans'[q][i] = chans[q][i]
      <4>1. chans[q][i].c \in Conv /\ idof[q][chans[q][i].c] = i /\ Has(q, chans[q][i].c)
        BY <3>1, IdHas
      <4>2. Known(q, chans[q][i].c)
        BY <4>1, HasFacts
      <4>3. q # p \/ chans[q][i].c # c
        BY <1>2, <4>2
      <4> QED
        BY <1>5, <3>1, <4>1, <4>3
    <3>2. CASE ~(i \in DOMAIN chans[q] /\ chans'[q][i] = chans[q][i])
      <4>1. q = p /\ i = id /\ chans'[q][i] = a
        BY <1>7, <1>8, <2>3, <3>2
      <4> QED
        BY <1>5, <4>1
    <3> QED
      BY <3>1, <3>2
  <2>4. ASSUME NEW q \in Peers, NEW i \in DOMAIN refs'[q] PROVE idof'[q][refs'[q][i]] = i
    <3>1. CASE i \in DOMAIN refs[q] /\ refs'[q][i] = refs[q][i]
      <4>1. refs[q][i] \in Conv /\ idof[q][refs[q][i]] = i
        BY <1>1, <3>1, RefTableFacts DEF OwnInv
      <4>2. q # p \/ refs[q][i] # c
        <5>1. i \in Ids
          BY <1>1, <3>1, RefTableFacts
        <5>2. i # IdSpace
          BY <5>1, ChannelTableAssumption DEF Ids
        <5> QED
          BY <1>2, <4>1, <5>2 DEF Known
      <4> QED
        BY <1>5, <3>1, <4>1, <4>2
    <3>2. CASE ~(i \in DOMAIN refs[q] /\ refs'[q][i] = refs[q][i])
      <4>1. q = p /\ i = id /\ refs'[q][i] = c
        BY <1>10, <1>11, <2>4, <3>2
      <4> QED
        BY <1>5, <4>1
    <3> QED
      BY <3>1, <3>2
  <2> QED
    BY <2>1, <2>2, <2>3, <2>4 DEF OwnInv
<1>17. Entered(p, c, id, a)
  <2>1. ~Has(p, c)
    BY <1>2, HasFacts
  <2>2. ASSUME NEW q \in Peers, NEW d \in Conv, q # p \/ d # c
        PROVE  /\ Has(q, d)' = Has(q, d)
               /\ Has(q, d) => Ch(q, d)' = Ch(q, d)
    <3>1. idof'[q][d] = idof[q][d]
      BY <1>5, <2>2
    <3>2. q = p => idof[q][d] # id
      BY <1>2
    <3>3. idof[q][d] \in DOMAIN chans'[q] <=> idof[q][d] \in DOMAIN chans[q]
      BY <1>7, <1>8, <3>2
    <3>4. idof[q][d] \in DOMAIN chans[q] => chans'[q][idof[q][d]] = chans[q][idof[q][d]]
      BY <1>7, <1>8, <3>2
    <3> QED
      BY <3>1, <3>3, <3>4 DEF Has, Ch
  <2>3. chans' = chans => ~Has(p, c)'
    BY <1>2, <1>5 DEF Has
  <2>4. Has(p, c)' => Ch(p, c)' = a
    BY <1>2, <1>5, <1>7, <1>8 DEF Has, Ch
  <2>5. chans' # chans => Has(p, c)'
    BY <1>5, <1>7, <1>8 DEF Has
  <2> QED
    BY <1>2, <1>5, <1>14, <2>1, <2>2, <2>3, <2>4, <2>5 DEF Entered
<1> QED
  BY <1>12, <1>15, <1>16, <1>17

LEMMA LineElems ==
  ASSUME QueueTypes, CoreInv, NEW q \in Peers, NEW m \in Elems(Line(q))
  PROVE  m \in Packets /\ m.c \in Conv /\ GoodPacket(q, m)
<1>1. Elems(Line(q)) \subseteq Packets
  BY LineTyped, ElemsTyped
<1> QED
  BY <1>1, PacketsFacts DEF CoreInv, LineInv

(* A side opens a channel. *)
LEMMA OpenCore ==
  ASSUME IdTypes, QueueTypes, CoreInv, NEW p \in Peers, NEW c \in Conv, NEW id, Fresh(p, c, id),
         NEW a \in Params, a.c = c, ~a.confirmed, Enters(p, c, id, a), chans' # chans,
         \A q \in Peers : ~Known(q, c),
         NEW x \in Packets, x.t = "open", x.c = c, x.id = id, x.n = Window,
         Line(p)' = Line(p), Line(Other(p))' = Append(Line(Other(p)), x)
  PROVE  IdTypes' /\ CoreInv'
<1>1. CountInv /\ OwnInv /\ PeerInv /\ LineInv /\ FirstInv /\ AnswerComes
  BY DEF CoreInv
<1>2. IdTypes' /\ CountInv' /\ OwnInv' /\ Entered(p, c, id, a)
  BY <1>1, EnterOwn
<1>3. PICK o \in Peers : o = Other(p) /\ o # p /\ Other(o) = p /\ Peers = {p, o}
  BY PeerFacts
<1>4. /\ ~Known(p, c) /\ ~Has(p, c) /\ idof'[p][c] = id
      /\ \A q \in Peers, d \in Conv : Known(q, d)' <=> (Known(q, d) \/ (q = p /\ d = c))
      /\ \A q \in Peers, d \in Conv : q # p \/ d # c =>
           /\ idof'[q][d] = idof[q][d] /\ Has(q, d)' = Has(q, d)
           /\ Has(q, d) => Ch(q, d)' = Ch(q, d)
      /\ Has(p, c)' /\ Ch(p, c)' = a
  BY <1>2 DEF Entered
<1>5. ~Known(o, c) /\ ~Has(o, c)
  BY <1>1, HasFacts
<1>6. \A q \in Peers : \A m \in Elems(Line(q)) : m.c \in Conv /\ m.c # c /\ GoodPacket(q, m)
  BY <1>3, <1>4, <1>5, LineElems DEF GoodPacket
<1>7. Elems(Line(p)') = Elems(Line(p)) /\ Elems(Line(o)') = Elems(Line(o)) \cup {x}
  <2>1. PICK s \in Seq(Packets) : s = Line(o)
    BY LineTyped
  <2>2. Elems(Append(s, x)) = Elems(s) \cup {x}
    BY ElemsAppend
  <2> QED
    BY <1>3, <2>1, <2>2
<1>8. PeerInv'
  <2>1. ASSUME NEW q \in Peers, NEW d \in Conv, Has(q, d)', Ch(q, d)'.confirmed
        PROVE  Known(Other(q), d)' /\ Ch(q, d)'.peer = idof'[Other(q)][d]
    <3>1. q # p \/ d # c
      BY <1>4, <2>1
    <3>2. Has(q, d) /\ Ch(q, d)' = Ch(q, d) /\ Known(Other(q), d) /\ Ch(q, d).peer = idof[Other(q)][d]
      BY <1>1, <1>4, <2>1, <3>1 DEF PeerInv
    <3>3. Other(q) \in Peers /\ (Other(q) # p \/ d # c)
      BY <1>4, <3>2, PeerFacts
    <3> QED
      BY <1>4, <3>2, <3>3
  <2> QED
    BY <2>1 DEF PeerInv
<1>9. FirstInv'
  <2>1. First(Line(p)')
    BY <1>1 DEF FirstInv
  <2>2. First(Line(o)')
    <3>1. PICK s \in Seq(Packets) : s = Line(o)
      BY LineTyped
    <3>2. First(s) /\ \A y \in Elems(s) : y.c # x.c
      BY <1>1, <1>6, <3>1 DEF FirstInv
    <3>3. First(Append(s, x))
      BY <3>2, FirstNew
    <3> QED
      BY <1>3, <3>1, <3>3
  <2> QED
    BY <1>3, <2>1, <2>2 DEF FirstInv
<1>10. \A q \in Peers : Elems(Line(q))' = Elems(Line(q)')
  BY DEF Elems
<1>11. LineInv'
  <2>1. ASSUME NEW q \in Peers, NEW m \in Elems(Line(q)) PROVE GoodPacket(q, m)'
    <3>1. m.c \in Conv /\ m.c # c /\ GoodPacket(q, m) /\ Other(q) \in Peers
      BY <1>6, PeerFacts
    <3> QED
      BY <1>4, <3>1 DEF GoodPacket
  <2>2. GoodPacket(o, x)'
    <3>1. /\ ~Known(o, x.c)' /\ Known(p, x.c)' /\ x.id = idof'[p][x.c]
          /\ Has(p, x.c)' /\ ~Ch(p, x.c)'.confirmed
      BY <1>3, <1>4, <1>5
    <3> QED
      BY <1>3, <3>1 DEF GoodPacket
  <2> QED
    BY <1>3, <1>7, <1>10, <2>1, <2>2 DEF LineInv
<1>12. AnswerComes'
  <2>1. ASSUME NEW q \in Peers, NEW d \in Conv, Has(q, d)', ~Ch(q, d)'.confirmed, Known(Other(q), d)'
        PROVE  \E m \in Elems(Line(q)') : m.t \in {"confirmation", "open-failure"} /\ m.c = d
    <3>1. d # c
      <4>1. SUFFICES ASSUME d = c PROVE FALSE
        OBVIOUS
      <4>2. q = p => ~Known(Other(q), d)'
        BY <1>3, <1>4, <1>5, <4>1
      <4>3. q = o => ~Has(q, d)'
        BY <1>3, <1>4, <1>5, <4>1
      <4> QED
        BY <1>3, <2>1, <4>2, <4>3
    <3>2. Has(q, d) /\ ~Ch(q, d).confirmed /\ Known(Other(q), d)
      BY <1>4, <2>1, <3>1, PeerFacts
    <3>3. PICK m \in Elems(Line(q)) : m.t \in {"confirmation", "open-failure"} /\ m.c = d
      BY <1>1, <3>2 DEF AnswerComes
    <3> QED
      BY <1>3, <1>7, <3>3
  <2> QED
    BY <1>10, <2>1 DEF AnswerComes
<1> QED
  BY <1>2, <1>8, <1>9, <1>11, <1>12 DEF CoreInv

(* A side reads an open call and answers with x. *)
LEMMA ReadOpenCore ==
  ASSUME IdTypes, QueueTypes, CoreInv, NEW p \in Peers, NEW c \in Conv, NEW id, Fresh(p, c, id),
         NEW a \in Params, a.c = c, a.confirmed, a.peer = Head(Line(p)).id, Enters(p, c, id, a),
         Line(p) # <<>>, Head(Line(p)).t = "open", Head(Line(p)).c = c,
         NEW x \in Packets, x.c = c, x.id = Head(Line(p)).id,
         x.t = "open-failure" \/ (x.t = "confirmation" /\ x.k = id /\ x.n = Window),
         Line(p)' = Tail(Line(p)), Line(Other(p))' = Append(Line(Other(p)), x)
  PROVE  IdTypes' /\ CoreInv'
<1>1. CountInv /\ OwnInv /\ PeerInv /\ LineInv /\ FirstInv /\ AnswerComes
  BY DEF CoreInv
<1>2. IdTypes' /\ CountInv' /\ OwnInv' /\ Entered(p, c, id, a)
  BY <1>1, EnterOwn
<1>3. PICK o \in Peers : o = Other(p) /\ o # p /\ Other(o) = p /\ Peers = {p, o}
  BY PeerFacts
<1>4. /\ ~Known(p, c) /\ ~Has(p, c) /\ idof'[p][c] = id
      /\ \A q \in Peers, d \in Conv : Known(q, d)' <=> (Known(q, d) \/ (q = p /\ d = c))
      /\ \A q \in Peers, d \in Conv : q # p \/ d # c =>
           /\ idof'[q][d] = idof[q][d] /\ Has(q, d)' = Has(q, d)
           /\ Has(q, d) => Ch(q, d)' = Ch(q, d)
      /\ Has(p, c)' => Ch(p, c)' = a
  BY <1>2 DEF Entered
<1>5. PICK s \in Seq(Packets) : s = Line(p)
  BY LineTyped
<1>6. PICK m \in Packets : m = Head(s) /\ m \in Elems(Line(p)) /\ m.t = "open" /\ m.c = c
  <2>1. s # <<>>
    BY <1>5
  <2>2. Head(s) \in Packets /\ Head(s) \in Elems(s)
    BY <2>1, HeadTailProperties, ElemsTail
  <2> QED
    BY <1>5, <2>2
<1>7. Known(o, c) /\ m.id = idof[o][c] /\ Has(o, c) /\ ~Ch(o, c).confirmed
  BY <1>3, <1>6, LineElems DEF GoodPacket
<1>8. /\ First(Line(p)') /\ Elems(Line(p)') \subseteq Elems(Line(p))
      /\ \A y \in Elems(Line(p)) : y.c # c => y \in Elems(Line(p)')
      /\ \A y \in Elems(Line(p)') : y.t \in Heralds => y.c # c
  <2>1. s # <<>> /\ Line(p)' = Tail(s) /\ First(s) /\ Head(s).c = c
    BY <1>1, <1>5, <1>6 DEF FirstInv
  <2>2. First(Tail(s)) /\ \A y \in Elems(Tail(s)) : y.t \in Heralds => y.c # c
    BY <2>1, FirstTail
  <2>3. Elems(Tail(s)) \subseteq Elems(s) /\ \A y \in Elems(s) : y # Head(s) => y \in Elems(Tail(s))
    BY <2>1, ElemsTail
  <2> QED
    BY <1>5, <2>1, <2>2, <2>3
<1>9. ASSUME NEW y \in Elems(Line(p)') PROVE y.c \in Conv /\ y.c # c /\ GoodPacket(p, y)
  <2>1. y.c \in Conv /\ GoodPacket(p, y)
    BY <1>8, LineElems
  <2>2. y.t = "open" => y.c # c
    BY <1>8 DEF Heralds
  <2>3. y.t # "open" => y.c # c
    BY <1>4, <2>1 DEF GoodPacket
  <2> QED
    BY <2>1, <2>2, <2>3
<1>10. ASSUME NEW y \in Elems(Line(o)) PROVE y.c \in Conv /\ y.c # c /\ GoodPacket(o, y)
  BY <1>3, <1>4, LineElems DEF GoodPacket
<1>11. Elems(Line(o)') = Elems(Line(o)) \cup {x} /\ First(Line(o)')
  <2>1. PICK r \in Seq(Packets) : r = Line(o)
    BY LineTyped
  <2>2. First(r) /\ \A y \in Elems(r) : y.c # x.c
    BY <1>1, <1>10, <2>1 DEF FirstInv
  <2>3. First(Append(r, x)) /\ Elems(Append(r, x)) = Elems(r) \cup {x}
    BY <2>2, FirstNew, ElemsAppend
  <2> QED
    BY <1>3, <2>1, <2>3
<1>12. PeerInv'
  <2>1. ASSUME NEW q \in Peers, NEW d \in Conv, Has(q, d)', Ch(q, d)'.confirmed
        PROVE  Known(Other(q), d)' /\ Ch(q, d)'.peer = idof'[Other(q)][d]
    <3>1. CASE q = p /\ d = c
      <4>1. Ch(q, d)'.peer = idof[o][c] /\ idof'[o][c] = idof[o][c] /\ Known(o, c)'
        BY <1>3, <1>4, <1>5, <1>6, <1>7, <2>1, <3>1
      <4> QED
        BY <1>3, <3>1, <4>1
    <3>2. CASE q # p \/ d # c
      <4>1. Has(q, d) /\ Ch(q, d)' = Ch(q, d) /\ Known(Other(q), d) /\ Ch(q, d).peer = idof[Other(q)][d]
        BY <1>1, <1>4, <2>1, <3>2 DEF PeerInv
      <4>2. Other(q) \in Peers /\ (Other(q) # p \/ d # c)
        BY <1>4, <4>1, PeerFacts
      <4> QED
        BY <1>4, <4>1, <4>2
    <3> QED
      BY <3>1, <3>2
  <2> QED
    BY <2>1 DEF PeerInv
<1>13. FirstInv'
  BY <1>3, <1>8, <1>11 DEF FirstInv
<1>14. \A q \in Peers : Elems(Line(q))' = Elems(Line(q)')
  BY DEF Elems
<1>15. LineInv'
  <2>1. ASSUME NEW q \in Peers, NEW y, y.c \in Conv, y.c # c, GoodPacket(q, y) PROVE GoodPacket(q, y)'
    BY <1>4, <2>1, PeerFacts DEF GoodPacket
  <2>2. GoodPacket(o, x)'
    <3>1. /\ Known(o, x.c)' /\ Known(p, x.c)' /\ x.id = idof'[o][x.c] /\ Has(o, x.c)'
          /\ ~Ch(o, x.c)'.confirmed /\ x.t # "open" /\ (x.t = "confirmation" => x.k = idof'[p][x.c])
      BY <1>3, <1>4, <1>5, <1>6, <1>7
    <3>2. x.t = "confirmation" => x.n = Window
      OBVIOUS
    <3> QED
      BY <1>3, <3>1, <3>2 DEF GoodPacket
  <2>3. \A y \in Elems(Line(p)') : GoodPacket(p, y)'
    BY <1>9, <2>1
  <2>4. \A y \in Elems(Line(o)') : GoodPacket(o, y)'
    BY <1>10, <1>11, <2>1, <2>2
  <2> QED
    BY <1>3, <1>14, <2>3, <2>4 DEF LineInv
<1>16. AnswerComes'
  <2>1. ASSUME NEW q \in Peers, NEW d \in Conv, Has(q, d)', ~Ch(q, d)'.confirmed, Known(Other(q), d)'
        PROVE  \E y \in Elems(Line(q)') : y.t \in {"confirmation", "open-failure"} /\ y.c = d
    <3>1. CASE d = c
      <4>1. q = o
        BY <1>3, <1>4, <2>1, <3>1
      <4> QED
        BY <1>11, <3>1, <4>1
    <3>2. CASE d # c
      <4>1. Has(q, d) /\ ~Ch(q, d).confirmed /\ Known(Other(q), d)
        BY <1>4, <2>1, <3>2, PeerFacts
      <4>2. PICK y \in Elems(Line(q)) : y.t \in {"confirmation", "open-failure"} /\ y.c = d
        BY <1>1, <4>1 DEF AnswerComes
      <4>3. y \in Elems(Line(q)')
        BY <1>3, <1>8, <1>11, <3>2, <4>2
      <4> QED
        BY <4>2, <4>3
    <3> QED
      BY <3>1, <3>2
  <2> QED
    BY <1>14, <2>1 DEF AnswerComes
<1> QED
  BY <1>2, <1>12, <1>13, <1>15, <1>16 DEF CoreInv

(* A side reads the confirmation of its open call. *)
Confirms(p, c, a) ==
  /\ idof' = idof /\ last' = last /\ refs' = refs
  /\ chans' = [chans EXCEPT ![p] = [chans[p] EXCEPT ![idof[p][c]] = a]]
  /\ Line(p) # <<>> /\ Head(Line(p)).t = "confirmation" /\ Head(Line(p)).c = c
  /\ Line(p)' = Tail(Line(p)) /\ Line(Other(p))' = Line(Other(p))
  /\ a.c = c /\ a.confirmed /\ a.peer = Head(Line(p)).k

LEMMA ConfirmCore ==
  ASSUME IdTypes, QueueTypes, CoreInv, NEW p \in Peers, NEW c \in Conv, NEW a \in Params,
         Confirms(p, c, a)
  PROVE  /\ IdTypes' /\ CoreInv' /\ Has(p, c) /\ ~Ch(p, c).confirmed
         /\ Has(p, c)' /\ Ch(p, c)' = a /\ Known(Other(p), c)
         /\ Head(Line(p)).n = Window
         /\ \A q \in Peers, d \in Conv : Has(q, d)' = Has(q, d) /\ Known(q, d)' = Known(q, d)
         /\ \A q \in Peers, d \in Conv : (q # p \/ d # c) /\ Has(q, d) => Ch(q, d)' = Ch(q, d)
<1>1. CountInv /\ OwnInv /\ PeerInv /\ LineInv /\ FirstInv /\ AnswerComes
  BY DEF CoreInv
<1>2. /\ idof' = idof /\ last' = last /\ refs' = refs
      /\ chans' = [chans EXCEPT ![p] = [chans[p] EXCEPT ![idof[p][c]] = a]]
      /\ Line(p) # <<>> /\ Head(Line(p)).t = "confirmation" /\ Head(Line(p)).c = c
      /\ Line(p)' = Tail(Line(p)) /\ Line(Other(p))' = Line(Other(p))
      /\ a.c = c /\ a.confirmed /\ a.peer = Head(Line(p)).k
  BY DEF Confirms
<1>3. PICK o \in Peers : o = Other(p) /\ o # p /\ Other(o) = p /\ Peers = {p, o}
  BY PeerFacts
<1>4. PICK s \in Seq(Packets) : s = Line(p)
  BY LineTyped
<1>5. PICK m \in Packets : m = Head(s) /\ m \in Elems(Line(p)) /\ m.t = "confirmation" /\ m.c = c
  <2>1. s # <<>>
    BY <1>2, <1>4
  <2>2. Head(s) \in Packets /\ Head(s) \in Elems(s)
    BY <2>1, HeadTailProperties, ElemsTail
  <2> QED
    BY <1>2, <1>4, <2>2
<1>6. /\ Known(o, c) /\ Known(p, c) /\ m.k = idof[o][c] /\ m.n = Window
      /\ Has(p, c) /\ ~Ch(p, c).confirmed
  BY <1>3, <1>5, LineElems DEF GoodPacket
<1>7. /\ First(Line(p)') /\ Elems(Line(p)') \subseteq Elems(Line(p))
      /\ \A y \in Elems(Line(p)) : y.c # c => y \in Elems(Line(p)')
      /\ \A y \in Elems(Line(p)') : y.t \in Heralds => y.c # c
  <2>1. s # <<>> /\ Line(p)' = Tail(s) /\ First(s) /\ Head(s).c = c
    BY <1>1, <1>2, <1>4 DEF FirstInv
  <2>2. First(Tail(s)) /\ \A y \in Elems(Tail(s)) : y.t \in Heralds => y.c # c
    BY <2>1, FirstTail
  <2>3. Elems(Tail(s)) \subseteq Elems(s) /\ \A y \in Elems(s) : y # Head(s) => y \in Elems(Tail(s))
    BY <2>1, ElemsTail
  <2> QED
    BY <1>2, <1>4, <2>1, <2>2, <2>3
<1>8. PICK id : id = idof[p][c]
  OBVIOUS
<1>9. PICK X \in Tables : X = chans[p]
  BY DEF IdTypes
<1>10. PICK T : T = [X EXCEPT ![id] = a]
  OBVIOUS
<1>11. id \in DOMAIN X
  BY <1>6, <1>8, <1>9 DEF Has
<1>12. T \in Tables /\ DOMAIN T = DOMAIN X /\ T[id] = a /\ \A i \in DOMAIN X \ {id} : T[i] = X[i]
  BY <1>10, <1>11, TableExcept
<1>13. /\ chans' \in [Peers -> Tables] /\ chans'[p] = T
       /\ \A q \in Peers : q # p => chans'[q] = chans[q]
  <2>1. chans' = [chans EXCEPT ![p] = T]
    BY <1>2, <1>8, <1>9, <1>10
  <2>2. chans \in [Peers -> Tables]
    BY DEF IdTypes
  <2> QED
    BY <1>12, <2>1, <2>2
<1>14. IdTypes'
  BY <1>2, <1>13 DEF IdTypes
<1>15. \A q \in Peers, d \in Conv : Known(q, d)' = Known(q, d)
  BY <1>2 DEF Known
<1>16. \A q \in Peers, d \in Conv : Has(q, d)' = Has(q, d)
  <2>1. \A q \in Peers : DOMAIN chans'[q] = DOMAIN chans[q]
    BY <1>9, <1>12, <1>13
  <2> QED
    BY <1>2, <2>1 DEF Has
<1>17. Ch(p, c)' = a
  BY <1>2, <1>8, <1>12, <1>13 DEF Ch
<1>18. ASSUME NEW q \in Peers, NEW d \in Conv, q # p \/ d # c, Has(q, d) PROVE Ch(q, d)' = Ch(q, d)
  <2>1. CASE q # p
    BY <1>2, <1>13, <2>1 DEF Ch
  <2>2. CASE q = p
    <3>1. idof[p][d] # id
      BY <1>1, <1>6, <1>8, <1>18, <2>2 DEF OwnInv
    <3> QED
      BY <1>2, <1>9, <1>12, <1>13, <1>18, <2>2, <3>1 DEF Ch, Has
  <2> QED
    BY <2>1, <2>2
<1>19. CountInv'
  <2>1. \A q \in Peers : {d \in Conv : Known(q, d)}' = {d \in Conv : Known(q, d)}
    BY <1>15
  <2> QED
    BY <1>1, <1>2, <2>1 DEF CountInv
<1>20. OwnInv'
  <2>1. ASSUME NEW q \in Peers
        PROVE  /\ \A d \in Conv : Known(q, d)' => idof'[q][d] \in 2..last'[q]
               /\ \A d, f \in Conv : Known(q, d)' /\ idof'[q][d] = idof'[q][f] => d = f
               /\ \A i \in DOMAIN refs'[q] : idof'[q][refs'[q][i]] = i
    BY <1>1, <1>2, <1>15 DEF OwnInv
  <2>2. ASSUME NEW q \in Peers, NEW i \in DOMAIN chans'[q] PROVE idof'[q][chans'[q][i].c] = i
    <3>1. CASE q = p /\ i = id
      BY <1>2, <1>8, <1>12, <1>13, <3>1
    <3>2. CASE ~(q = p /\ i = id)
      <4>1. i \in DOMAIN chans[q] /\ chans'[q][i] = chans[q][i]
        BY <1>9, <1>12, <1>13, <2>2, <3>2
      <4> QED
        BY <1>1, <1>2, <4>1 DEF OwnInv
    <3> QED
      BY <3>1, <3>2
  <2> QED
    BY <2>1, <2>2 DEF OwnInv
<1>21. PeerInv'
  <2>1. ASSUME NEW q \in Peers, NEW d \in Conv, Has(q, d)', Ch(q, d)'.confirmed
        PROVE  Known(Other(q), d)' /\ Ch(q, d)'.peer = idof'[Other(q)][d]
    <3>1. CASE q = p /\ d = c
      BY <1>2, <1>3, <1>4, <1>5, <1>6, <1>15, <1>17, <3>1
    <3>2. CASE q # p \/ d # c
      <4>1. Has(q, d) /\ Ch(q, d)' = Ch(q, d) /\ Known(Other(q), d) /\ Ch(q, d).peer = idof[Other(q)][d]
        BY <1>1, <1>16, <1>18, <2>1, <3>2 DEF PeerInv
      <4> QED
        BY <1>2, <1>15, <4>1, PeerFacts
    <3> QED
      BY <3>1, <3>2
  <2> QED
    BY <2>1 DEF PeerInv
<1>22. \A q \in Peers : Elems(Line(q))' = Elems(Line(q)')
  BY DEF Elems
<1>23. FirstInv'
  <2>1. First(Line(o)')
    BY <1>1, <1>2, <1>3 DEF FirstInv
  <2> QED
    BY <1>3, <1>7, <2>1 DEF FirstInv
<1>24. LineInv'
  <2>1. ASSUME NEW y \in Elems(Line(p)') PROVE GoodPacket(p, y)'
    <3>1. y.c \in Conv /\ GoodPacket(p, y) /\ (y.t = "confirmation" => y.c # c)
      BY <1>7, LineElems DEF Heralds
    <3> QED
      BY <1>2, <1>3, <1>15, <1>16, <1>18, <3>1 DEF GoodPacket
  <2>2. ASSUME NEW y \in Elems(Line(o)') PROVE GoodPacket(o, y)'
    <3>1. y \in Elems(Line(o))
      BY <1>2, <1>3
    <3>2. y.c \in Conv /\ GoodPacket(o, y)
      BY <3>1, LineElems
    <3>3. y.t = "open" => y.c # c
      BY <1>6, <3>2 DEF GoodPacket
    <3> QED
      BY <1>2, <1>3, <1>15, <1>16, <1>18, <3>2, <3>3 DEF GoodPacket
  <2> QED
    BY <1>3, <1>22, <2>1, <2>2 DEF LineInv
<1>25. AnswerComes'
  <2>1. ASSUME NEW q \in Peers, NEW d \in Conv, Has(q, d)', ~Ch(q, d)'.confirmed, Known(Other(q), d)'
        PROVE  \E y \in Elems(Line(q)') : y.t \in {"confirmation", "open-failure"} /\ y.c = d
    <3>1. q # p \/ d # c
      BY <1>2, <1>17, <2>1
    <3>2. Has(q, d) /\ ~Ch(q, d).confirmed /\ Known(Other(q), d)
      BY <1>15, <1>16, <1>18, <2>1, <3>1, PeerFacts
    <3>3. PICK y \in Elems(Line(q)) : y.t \in {"confirmation", "open-failure"} /\ y.c = d
      BY <1>1, <3>2 DEF AnswerComes
    <3>4. y \in Elems(Line(q)')
      BY <1>2, <1>3, <1>7, <3>1, <3>3
    <3> QED
      BY <3>3, <3>4
  <2> QED
    BY <1>22, <2>1 DEF AnswerComes
<1> QED
  BY <1>3, <1>4, <1>5, <1>6, <1>14, <1>15, <1>16, <1>17, <1>18, <1>19, <1>20, <1>21, <1>23, <1>24,
     <1>25 DEF CoreInv

-----------------------------------------------------------------------------
(* The windows *)

(* What p may still send to the channel of c, what is on its way there and   *)
(* the window on its way back; before the confirmation, all of the window.   *)
Flow(p, c) ==
  (IF Ch(p, c).confirmed THEN Ch(p, c).rwin ELSE Window)
    + Total(Line(Other(p)), c, "data") + Total(Line(p), c, "adjust")

WindowInv ==
  \A p \in Peers, c \in Conv : Has(p, c) =>
    /\ Flow(p, c) <= Window
    /\ Has(Other(p), c) => Ch(Other(p), c).swin = Flow(p, c)
    /\ ~Known(Other(p), c) => Ch(p, c).swin = Window
    /\ Ch(p, c).swin <= Window
    /\ ~Ch(p, c).confirmed => Ch(p, c).rwin <= Window

(* The amounts that p has read for c *)
Gives(p, c, ain, dgot) ==
  \/ Took(p, c) /\ ain = 0 /\ dgot = 0
  \/ Got(p, c) /\ ain = Amount(Head(Line(p)), c, "adjust") /\ dgot = Amount(Head(Line(p)), c, "data")

LEMMA LineTotal ==
  ASSUME QueueTypes, NEW q \in Peers, NEW c, NEW t
  PROVE  Total(Line(q), c, t) \in Nat /\ Replies(Line(q), c) \in Nat
BY LineTyped, PacketTotals, RepliesFacts

(* The totals after a step *)
Adds(u, s, out, c, t) ==
  /\ Total(u, c, t) = Total(s, c, t) + Total(out, c, t)
  /\ Replies(u, c) = Replies(s, c) + Replies(out, c)
  /\ Total(out, c, t) \in Nat /\ Replies(out, c) \in Nat

LEMMA AddTotal ==
  ASSUME QueueTypes, NEW q \in Peers, NEW out \in Seq(Packets), NEW u,
         u = Line(q) \o out, NEW c, NEW t
  PROVE  Adds(u, Line(q), out, c, t)
<1>1. PICK s \in Seq(Packets) : s = Line(q)
  BY LineTyped
<1>2. Total(s \o out, c, t) = Total(s, c, t) + Total(out, c, t)
  BY PacketTotals
<1>3. Replies(s \o out, c) = Replies(s, c) + Replies(out, c)
  BY RepliesFacts
<1>4. Total(out, c, t) \in Nat /\ Replies(out, c) \in Nat
  BY PacketTotals, RepliesFacts
<1> QED
  BY <1>1, <1>2, <1>3, <1>4 DEF Adds

LEMMA TailTotal ==
  ASSUME QueueTypes, NEW q \in Peers, Line(q) # <<>>, Line(q)' = Tail(Line(q)), NEW c, NEW t
  PROVE  /\ Total(Line(q), c, t) = Amount(Head(Line(q)), c, t) + Total(Line(q)', c, t)
         /\ Replies(Line(q), c) = One(Head(Line(q)), c) + Replies(Line(q)', c)
         /\ Amount(Head(Line(q)), c, t) \in Nat /\ One(Head(Line(q)), c) \in Nat
         /\ Total(Line(q)', c, t) \in Nat /\ Replies(Line(q)', c) \in Nat
<1>1. PICK s \in Seq(Packets) : s = Line(q) /\ s # <<>> /\ Line(q)' = Tail(s)
  BY LineTyped
<1>2. Tail(s) \in Seq(Packets) /\ Head(s) \in Packets
  BY <1>1, HeadTailProperties
<1>3. Total(s, c, t) = Amount(Head(s), c, t) + Total(Tail(s), c, t) /\ Total(Tail(s), c, t) \in Nat
  <2>1. s # <<>> => Total(s, c, t) = Amount(Head(s), c, t) + Total(Tail(s), c, t)
    BY PacketTotals
  <2>2. Total(Tail(s), c, t) \in Nat
    BY <1>2, PacketTotals
  <2> QED
    BY <1>1, <2>1, <2>2
<1>4. Replies(s, c) = One(Head(s), c) + Replies(Tail(s), c) /\ Replies(Tail(s), c) \in Nat
  BY <1>1, <1>2, RepliesFacts
<1>5. Amount(Head(s), c, t) \in Nat /\ One(Head(s), c) \in Nat
  BY <1>2, PacketAmounts DEF Amount, One
<1> QED
  BY <1>1, <1>3, <1>4, <1>5

(* Nothing is on its way for a conversation that one side does not know. *)
LEMMA NothingUnderWay ==
  ASSUME QueueTypes, CoreInv, NEW p \in Peers, NEW c \in Conv, ~Known(p, c), NEW t \in Ordinary
  PROVE  \A q \in Peers : Total(Line(q), c, t) = 0 /\ Replies(Line(q), c) = 0
<1>1. ASSUME NEW q \in Peers, NEW m \in Elems(Line(q)), m.c = c PROVE m.t \in Heralds
  <2>1. GoodPacket(q, m) /\ p \in {q, Other(q)}
    BY LineElems, PeerFacts
  <2> QED
    BY <1>1, <2>1 DEF GoodPacket, Heralds
<1>2. ASSUME NEW q \in Peers PROVE Total(Line(q), c, t) = 0 /\ Replies(Line(q), c) = 0
  <2>1. PICK s \in Seq(Packets) : s = Line(q)
    BY LineTyped
  <2>2. \A m \in Elems(s) : m.t # t \/ m.c # c
    BY <1>1, <2>1 DEF Ordinary, Heralds
  <2>3. \A m \in Elems(s) : m.t \notin {"success", "failure"} \/ m.c # c
    BY <1>1, <2>1 DEF Heralds
  <2>4. Total(s, c, t) = 0
    BY <2>2, PacketTotals
  <2>5. Replies(s, c) = 0
    BY <2>3, RepliesFacts
  <2> QED
    BY <2>1, <2>4, <2>5
<1> QED
  BY <1>2

(* What a step on c does to the lines for another conversation and for c. *)
LEMMA WorkTotals ==
  ASSUME IdTypes, QueueTypes, CoreInv, NEW p \in Peers, NEW c \in Conv, NEW e, Works(p, c, e),
         NEW ain, NEW dgot, Gives(p, c, ain, dgot)
  PROVE  /\ \A q \in Peers, d \in Conv, t \in {"data", "adjust"} : d # c =>
              Total(Line(q)', d, t) = Total(Line(q), d, t)
         /\ \A t \in {"data", "adjust"} :
              /\ Total(Line(Other(p))', c, t) = Total(Line(Other(p)), c, t) + Total(e.out, c, t)
              /\ Total(e.out, c, t) \in Nat
         /\ Total(Line(p)', c, "adjust") + ain = Total(Line(p), c, "adjust") /\ ain \in Nat
         /\ Total(Line(p)', c, "data") + dgot = Total(Line(p), c, "data") /\ dgot \in Nat
         /\ Total(Line(p)', c, "adjust") \in Nat /\ Total(Line(p)', c, "data") \in Nat
<1>1. Spares(p, c, e)
  BY WorkSpares
<1>2. PICK o \in Peers : o = Other(p) /\ o # p /\ Other(o) = p /\ Peers = {p, o}
  BY PeerFacts
<1>3. PICK out \in Seq(Packets) : out = e.out /\ \A m \in Elems(out) : m.c = c
  BY <1>1 DEF Spares
<1>4. Line(o)' = Line(o) \o out
  BY <1>2, <1>3 DEF Works
<1>5. \A d, t : /\ Total(Line(o)', d, t) = Total(Line(o), d, t) + Total(out, d, t)
                /\ Total(out, d, t) \in Nat
  <2>1. ASSUME NEW d, NEW t
        PROVE  /\ Total(Line(o)', d, t) = Total(Line(o), d, t) + Total(out, d, t)
               /\ Total(out, d, t) \in Nat
    <3>1. PICK u : u = Line(o)'
      OBVIOUS
    <3>2. u = Line(o) \o out
      BY <1>4, <3>1
    <3>3. Adds(u, Line(o), out, d, t)
      BY <3>2, AddTotal
    <3> QED
      BY <3>1, <3>3 DEF Adds
  <2> QED
    BY <2>1
<1>6. ASSUME NEW d \in Conv, d # c, NEW t PROVE Total(Line(o)', d, t) = Total(Line(o), d, t)
  <2>1. \A m \in Elems(out) : m.t # t \/ m.c # d
    BY <1>3, <1>6
  <2>2. Total(out, d, t) = 0
    BY <2>1, PacketTotals
  <2> QED
    BY <1>5, <2>2, LineTotal
<1>7. ASSUME NEW d, NEW t, NEW a, (Took(p, c) /\ a = 0) \/ (Got(p, c) /\ a = Amount(Head(Line(p)), d, t))
      PROVE  /\ Total(Line(p)', d, t) + a = Total(Line(p), d, t) /\ a \in Nat
             /\ Total(Line(p)', d, t) \in Nat
  <2>1. CASE Took(p, c) /\ a = 0
    BY <2>1, LineTotal DEF Took
  <2>2. CASE Got(p, c) /\ a = Amount(Head(Line(p)), d, t)
    <3>1. Line(p) # <<>> /\ Line(p)' = Tail(Line(p))
      BY <2>2 DEF Got
    <3>2. /\ Total(Line(p), d, t) = Amount(Head(Line(p)), d, t) + Total(Line(p)', d, t)
          /\ Amount(Head(Line(p)), d, t) \in Nat /\ Total(Line(p)', d, t) \in Nat
      BY <3>1, TailTotal
    <3> QED
      BY <2>2, <3>2
  <2> QED
    BY <1>7, <2>1, <2>2
<1>8. ASSUME NEW d \in Conv, d # c, NEW t PROVE Total(Line(p)', d, t) = Total(Line(p), d, t)
  <2>1. PICK a : a = IF Took(p, c) THEN 0 ELSE Amount(Head(Line(p)), d, t)
    OBVIOUS
  <2>2. (Took(p, c) /\ a = 0) \/ (Got(p, c) /\ a = Amount(Head(Line(p)), d, t))
    BY <2>1 DEF Gives
  <2>3. a = 0
    BY <1>8, <2>2 DEF Got, Amount
  <2>4. Total(Line(p)', d, t) + a = Total(Line(p), d, t) /\ Total(Line(p)', d, t) \in Nat
    BY <1>7, <2>2
  <2> QED
    BY <2>3, <2>4
<1>9. /\ Total(Line(p)', c, "adjust") + ain = Total(Line(p), c, "adjust") /\ ain \in Nat
      /\ Total(Line(p)', c, "adjust") \in Nat
  BY <1>7 DEF Gives
<1>10. /\ Total(Line(p)', c, "data") + dgot = Total(Line(p), c, "data") /\ dgot \in Nat
       /\ Total(Line(p)', c, "data") \in Nat
  BY <1>7 DEF Gives
<1> QED
  BY <1>2, <1>3, <1>5, <1>6, <1>8, <1>9, <1>10

LEMMA WorkWindow ==
  ASSUME IdTypes, QueueTypes, CoreInv, WindowInv, NEW p \in Peers, NEW c \in Conv, NEW e,
         Works(p, c, e), NEW din \in Nat, NEW ain, NEW dgot, Gives(p, c, ain, dgot),
         Accounts(chans[p], idof[p][c], e, din, ain, dgot), IdTypes'
  PROVE  WindowInv'
<1>1. Spares(p, c, e)
  BY WorkSpares
<1>2. PICK o \in Peers : o = Other(p) /\ o # p /\ Other(o) = p /\ Peers = {p, o}
  BY PeerFacts
<1>3. /\ \A q \in Peers, d \in Conv : Known(q, d)' = Known(q, d)
      /\ \A q \in Peers, d \in Conv : q # p \/ d # c =>
           Has(q, d)' = Has(q, d) /\ (Has(q, d) => Ch(q, d)' = Ch(q, d))
      /\ Has(p, c)' =>
           Has(p, c) /\ Ch(p, c)'.confirmed = Ch(p, c).confirmed /\ Ch(p, c).confirmed
  BY <1>1 DEF Spares
<1>4. OwnInv /\ PeerInv
  BY DEF CoreInv
<1>5. /\ \A q \in Peers, d \in Conv, t \in {"data", "adjust"} : d # c =>
              Total(Line(q)', d, t) = Total(Line(q), d, t)
      /\ \A t \in {"data", "adjust"} :
              /\ Total(Line(o)', c, t) = Total(Line(o), c, t) + Total(e.out, c, t)
              /\ Total(e.out, c, t) \in Nat
      /\ Total(Line(p)', c, "adjust") + ain = Total(Line(p), c, "adjust") /\ ain \in Nat
      /\ Total(Line(p)', c, "data") + dgot = Total(Line(p), c, "data") /\ dgot \in Nat
      /\ Total(Line(p)', c, "adjust") \in Nat /\ Total(Line(p)', c, "data") \in Nat
  BY <1>2, WorkTotals
<1>6. \A q \in Peers, t \in {"data", "adjust"} : Total(Line(q), c, t) \in Nat
  BY LineTotal
<1>7. ASSUME NEW q \in Peers, NEW d \in Conv, Has(q, d), d # c
      PROVE  Flow(q, d)' = Flow(q, d)
  <2>1. Ch(q, d)' = Ch(q, d) /\ Other(q) \in Peers
    BY <1>3, <1>7, PeerFacts
  <2>2. /\ Total(Line(Other(q))', d, "data") = Total(Line(Other(q)), d, "data")
        /\ Total(Line(q)', d, "adjust") = Total(Line(q), d, "adjust")
    BY <1>5, <1>7, <2>1
  <2> QED
    BY <2>1, <2>2 DEF Flow
<1>8. ASSUME NEW q \in Peers, NEW d \in Conv, Has(q, d)
      PROVE  /\ Ch(q, d).rwin \in Nat /\ Ch(q, d).swin \in Nat /\ Ch(q, d).pend \in Nat
             /\ Ch(q, d).confirmed \in BOOLEAN /\ Window \in Nat
  BY <1>4, <1>8, HasFacts, ParamsFacts, ChannelTableAssumption
<1>9. ASSUME Has(p, c)'
      PROVE  /\ Flow(p, c)' = Flow(p, c) /\ Ch(p, c)'.swin <= Window /\ Known(o, c)
             /\ dgot <= Ch(p, c).swin =>
                  Ch(p, c)'.swin + dgot = Ch(p, c).swin + Total(e.out, c, "adjust")
             /\ Ch(p, c)'.swin \in Nat
  <2>1. Has(p, c) /\ Ch(p, c).confirmed /\ Ch(p, c)'.confirmed = Ch(p, c).confirmed
    BY <1>3, <1>9
  <2>2. Known(o, c)
    BY <1>2, <1>4, <2>1 DEF PeerInv
  <2>3. PICK id : id = idof[p][c] /\ id \in DOMAIN chans[p] /\ Ch(p, c) = chans[p][id] /\ chans[p][id].c = c
    BY <1>4, <2>1, HasFacts DEF Has, Ch
  <2>4. id \in DOMAIN e.chans /\ Ch(p, c)' = e.chans[id]
    <3>1. idof' = idof /\ chans'[p] = e.chans
      BY DEF Works, IdTypes
    <3> QED
      BY <1>9, <2>3, <3>1 DEF Has, Ch
  <2>5. e.chans[id].rwin \in Nat /\ e.chans[id].swin \in Nat
    <3>1. e.chans \in Tables
      BY EncFacts DEF Works
    <3> QED
      BY <2>4, <3>1, TableFacts, ParamsFacts
  <2>6. /\ e.chans[id].rwin + Total(e.out, c, "data") = chans[p][id].rwin + ain
        /\ dgot <= chans[p][id].swin =>
             e.chans[id].swin + dgot = chans[p][id].swin + Total(e.out, c, "adjust")
        /\ chans[p][id].swin <= Window => e.chans[id].swin <= Window
    BY <2>3, <2>4 DEF Accounts
  <2>7. Ch(p, c).swin <= Window
    BY <2>1 DEF WindowInv
  <2>8. Ch(p, c).rwin \in Nat
    BY <1>8, <2>1
  <2>9. Flow(p, c) = Ch(p, c).rwin + Total(Line(o), c, "data") + Total(Line(p), c, "adjust")
    BY <1>2, <2>1 DEF Flow
  <2>10. Flow(p, c)' = e.chans[id].rwin + Total(Line(o)', c, "data") + Total(Line(p)', c, "adjust")
    BY <1>2, <2>1, <2>4 DEF Flow
  <2>11. Flow(p, c)' = Flow(p, c)
    BY <1>5, <1>6, <2>3, <2>5, <2>6, <2>8, <2>9, <2>10
  <2> QED
    BY <2>2, <2>3, <2>4, <2>5, <2>6, <2>7, <2>11
<1>10. ASSUME Has(o, c)
       PROVE  /\ Flow(o, c)' + dgot = Flow(o, c) + Total(e.out, c, "adjust")
              /\ Flow(o, c) \in Nat /\ dgot <= Flow(o, c) /\ Flow(o, c)' \in Nat
  <2>1. Ch(o, c)' = Ch(o, c) /\ Ch(o, c).rwin \in Nat /\ Window \in Nat
    BY <1>2, <1>3, <1>8, <1>10
  <2>2. PICK n \in Nat : n = IF Ch(o, c).confirmed THEN Ch(o, c).rwin ELSE Window
    BY <2>1
  <2>3. Flow(o, c) = n + Total(Line(p), c, "data") + Total(Line(o), c, "adjust")
    BY <1>2, <2>2 DEF Flow
  <2>4. Flow(o, c)' = n + Total(Line(p)', c, "data") + Total(Line(o)', c, "adjust")
    BY <1>2, <2>1, <2>2 DEF Flow
  <2> QED
    BY <1>5, <1>6, <2>2, <2>3, <2>4
<1>11. ASSUME Has(o, c), ~Has(p, c)' PROVE Total(e.out, c, "adjust") = 0
  <2>1. PICK id : id = idof[p][c]
    OBVIOUS
  <2>2. CASE id \in DOMAIN chans[p]
    <3>1. Has(p, c) /\ chans[p][id].c = c
      BY <1>4, <2>1, <2>2, HasFacts DEF Has, Ch
    <3>2. id \notin DOMAIN e.chans
      <4>1. idof' = idof /\ chans'[p] = e.chans
        BY DEF Works, IdTypes
      <4> QED
        BY <1>11, <2>1, <4>1 DEF Has
    <3> QED
      BY <2>1, <2>2, <3>1, <3>2 DEF Accounts
  <2>3. CASE id \notin DOMAIN chans[p]
    BY <2>1, <2>3, EmptyTotals DEF Works, Worked
  <2> QED
    BY <2>2, <2>3
<1>12. ASSUME NEW q \in Peers, NEW d \in Conv, Has(q, d)', d # c
       PROVE  /\ Flow(q, d)' <= Window
              /\ Has(Other(q), d)' => Ch(Other(q), d)'.swin = Flow(q, d)'
              /\ ~Known(Other(q), d)' => Ch(q, d)'.swin = Window
              /\ Ch(q, d)'.swin <= Window
              /\ ~Ch(q, d)'.confirmed => Ch(q, d)'.rwin <= Window
  <2>1. Has(q, d) /\ Flow(q, d)' = Flow(q, d) /\ Ch(q, d)' = Ch(q, d) /\ Other(q) \in Peers
    BY <1>3, <1>7, <1>12, PeerFacts
  <2> QED
    BY <1>3, <1>12, <2>1 DEF WindowInv
<1>13. ASSUME Has(p, c)'
       PROVE  /\ Flow(p, c)' <= Window
              /\ Has(o, c)' => Ch(o, c)'.swin = Flow(p, c)'
              /\ ~Known(o, c)' => Ch(p, c)'.swin = Window
              /\ Ch(p, c)'.swin <= Window
              /\ ~Ch(p, c)'.confirmed => Ch(p, c)'.rwin <= Window
  <2>1. Has(p, c) /\ Ch(p, c)'.confirmed
    BY <1>3, <1>13
  <2>2. Flow(p, c) <= Window /\ (Has(o, c) => Ch(o, c).swin = Flow(p, c))
    BY <1>2, <2>1 DEF WindowInv
  <2> QED
    BY <1>2, <1>3, <1>9, <1>13, <2>1, <2>2
<1>14. ASSUME Has(o, c)'
       PROVE  /\ Flow(o, c)' <= Window
              /\ Has(p, c)' => Ch(p, c)'.swin = Flow(o, c)'
              /\ ~Known(p, c)' => Ch(o, c)'.swin = Window
              /\ Ch(o, c)'.swin <= Window
              /\ ~Ch(o, c)'.confirmed => Ch(o, c)'.rwin <= Window
  <2>1. Has(o, c) /\ Ch(o, c)' = Ch(o, c)
    BY <1>2, <1>3, <1>14
  <2>2. /\ Flow(o, c) <= Window /\ (Has(p, c) => Ch(p, c).swin = Flow(o, c))
        /\ ~Known(p, c) => Ch(o, c).swin = Window
        /\ Ch(o, c).swin <= Window
        /\ ~Ch(o, c).confirmed => Ch(o, c).rwin <= Window
    BY <1>2, <2>1 DEF WindowInv
  <2>3. /\ Flow(o, c)' + dgot = Flow(o, c) + Total(e.out, c, "adjust")
        /\ Flow(o, c) \in Nat /\ dgot <= Flow(o, c) /\ Flow(o, c)' \in Nat
    BY <1>10, <2>1
  <2>4. Window \in Nat /\ dgot \in Nat /\ Total(e.out, c, "adjust") \in Nat
    BY <1>5, ChannelTableAssumption
  <2>5. CASE Has(p, c)'
    <3>1. Has(p, c) /\ dgot <= Ch(p, c).swin /\ Ch(p, c).swin = Flow(o, c)
      BY <1>3, <2>2, <2>3, <2>5
    <3>2. /\ Ch(p, c)'.swin + dgot = Ch(p, c).swin + Total(e.out, c, "adjust")
          /\ Ch(p, c)'.swin <= Window /\ Ch(p, c)'.swin \in Nat
      BY <1>9, <2>5, <3>1
    <3>3. Ch(p, c)'.swin = Flow(o, c)' /\ Flow(o, c)' <= Window
      BY <2>3, <2>4, <3>1, <3>2
    <3> QED
      BY <1>3, <2>1, <2>2, <3>3
  <2>6. CASE ~Has(p, c)'
    <3>1. Total(e.out, c, "adjust") = 0
      BY <1>11, <2>1, <2>6
    <3>2. Flow(o, c)' <= Window
      BY <2>2, <2>3, <2>4, <3>1
    <3> QED
      BY <1>3, <2>1, <2>2, <2>6, <3>2
  <2> QED
    BY <2>5, <2>6
<1> QED
  <2>1. ASSUME NEW q \in Peers, NEW d \in Conv, Has(q, d)'
        PROVE  /\ Flow(q, d)' <= Window
               /\ Has(Other(q), d)' => Ch(Other(q), d)'.swin = Flow(q, d)'
               /\ ~Known(Other(q), d)' => Ch(q, d)'.swin = Window
               /\ Ch(q, d)'.swin <= Window
               /\ ~Ch(q, d)'.confirmed => Ch(q, d)'.rwin <= Window
    <3>1. CASE d # c
      BY <1>12, <2>1, <3>1
    <3>2. CASE d = c /\ q = p
      BY <1>2, <1>13, <2>1, <3>2
    <3>3. CASE d = c /\ q = o
      BY <1>2, <1>14, <2>1, <3>3
    <3> QED
      BY <1>2, <3>1, <3>2, <3>3
  <2> QED
    BY <2>1 DEF WindowInv

(* The line to q has seen no data, window, request or reply come or go. *)
Silent(q) ==
  \A d : /\ \A t \in Ordinary : Total(Line(q)', d, t) = Total(Line(q), d, t)
         /\ Replies(Line(q)', d) = Replies(Line(q), d)

LEMMA SilentTail ==
  ASSUME QueueTypes, NEW q \in Peers, Line(q) # <<>>, Line(q)' = Tail(Line(q)),
         Head(Line(q)).t \in Heralds
  PROVE  Silent(q)
<1>1. ASSUME NEW d, NEW t \in Ordinary
      PROVE  Total(Line(q)', d, t) = Total(Line(q), d, t) /\ Replies(Line(q)', d) = Replies(Line(q), d)
  <2>1. /\ Total(Line(q), d, t) = Amount(Head(Line(q)), d, t) + Total(Line(q)', d, t)
        /\ Replies(Line(q), d) = One(Head(Line(q)), d) + Replies(Line(q)', d)
        /\ Total(Line(q)', d, t) \in Nat /\ Replies(Line(q)', d) \in Nat
    BY TailTotal
  <2>2. Amount(Head(Line(q)), d, t) = 0 /\ One(Head(Line(q)), d) = 0
    BY DEF Amount, One, Ordinary, Heralds
  <2> QED
    BY <2>1, <2>2
<1>2. "data" \in Ordinary
  BY DEF Ordinary
<1> QED
  BY <1>1, <1>2 DEF Silent

LEMMA SilentAppend ==
  ASSUME QueueTypes, NEW q \in Peers, NEW x \in Packets, x.t \in Heralds,
         Line(q)' = Append(Line(q), x)
  PROVE  Silent(q)
<1>1. PICK s \in Seq(Packets) : s = Line(q) /\ Line(q)' = Append(s, x)
  BY LineTyped
<1>2. ASSUME NEW d, NEW t \in Ordinary
      PROVE  Total(Line(q)', d, t) = Total(Line(q), d, t) /\ Replies(Line(q)', d) = Replies(Line(q), d)
  <2>1. Total(Append(s, x), d, t) = Total(s, d, t) + Amount(x, d, t) /\ Total(s, d, t) \in Nat
    BY PacketTotals
  <2>2. Replies(Append(s, x), d) = Replies(s, d) + One(x, d) /\ Replies(s, d) \in Nat
    BY RepliesFacts
  <2>3. Amount(x, d, t) = 0 /\ One(x, d) = 0
    BY DEF Amount, One, Ordinary, Heralds
  <2> QED
    BY <1>1, <2>1, <2>2, <2>3
<1>3. "data" \in Ordinary
  BY DEF Ordinary
<1> QED
  BY <1>2, <1>3 DEF Silent

LEMMA SilentSame == ASSUME NEW q \in Peers, Line(q)' = Line(q) PROVE Silent(q)
BY DEF Silent

(* Only the channel of c at p is new or changed. *)
Changes(p, c) ==
  /\ \A q \in Peers, d \in Conv : q # p \/ d # c =>
       /\ Has(q, d)' = Has(q, d) /\ Known(q, d)' = Known(q, d)
       /\ Has(q, d) => Ch(q, d)' = Ch(q, d)
  /\ Known(p, c) => Known(p, c)'

(* The window of the new channel fits the other side's. *)
Fits(p, c) ==
  Has(p, c)' =>
    /\ Flow(p, c)' <= Window
    /\ Has(Other(p), c) =>
         Ch(Other(p), c).swin = Flow(p, c)' /\ Ch(p, c)'.swin = Flow(Other(p), c)
    /\ ~Known(Other(p), c) => Ch(p, c)'.swin = Window
    /\ Ch(p, c)'.swin <= Window
    /\ ~Ch(p, c)'.confirmed => Ch(p, c)'.rwin <= Window

LEMMA ChangeWindow ==
  ASSUME WindowInv, NEW p \in Peers, NEW c \in Conv, Changes(p, c), Fits(p, c),
         \A q \in Peers : Silent(q)
  PROVE  WindowInv'
<1>1. PICK o \in Peers : o = Other(p) /\ o # p /\ Other(o) = p /\ Peers = {p, o}
  BY PeerFacts
<1>2. \A q \in Peers, d \in Conv, t \in {"data", "adjust"} :
        Total(Line(q)', d, t) = Total(Line(q), d, t)
  BY DEF Silent, Ordinary
<1>3. ASSUME NEW q \in Peers, NEW d \in Conv, q # p \/ d # c, Has(q, d)
      PROVE  Flow(q, d)' = Flow(q, d) /\ Ch(q, d)' = Ch(q, d)
  <2>1. Ch(q, d)' = Ch(q, d) /\ Other(q) \in Peers
    BY <1>3, PeerFacts DEF Changes
  <2>2. /\ Total(Line(Other(q))', d, "data") = Total(Line(Other(q)), d, "data")
        /\ Total(Line(q)', d, "adjust") = Total(Line(q), d, "adjust")
    BY <1>2, <2>1
  <2> QED
    BY <2>1, <2>2 DEF Flow
<1>4. ASSUME NEW q \in Peers, NEW d \in Conv, Has(q, d)', q # p \/ d # c
      PROVE  /\ Flow(q, d)' <= Window
             /\ Has(Other(q), d)' => Ch(Other(q), d)'.swin = Flow(q, d)'
             /\ ~Known(Other(q), d)' => Ch(q, d)'.swin = Window
             /\ Ch(q, d)'.swin <= Window
             /\ ~Ch(q, d)'.confirmed => Ch(q, d)'.rwin <= Window
  <2>1. Has(q, d) /\ Flow(q, d)' = Flow(q, d) /\ Ch(q, d)' = Ch(q, d) /\ Other(q) \in Peers
    BY <1>3, <1>4, PeerFacts DEF Changes
  <2>2. /\ Flow(q, d) <= Window
        /\ Has(Other(q), d) => Ch(Other(q), d).swin = Flow(q, d)
        /\ ~Known(Other(q), d) => Ch(q, d).swin = Window
        /\ Ch(q, d).swin <= Window
        /\ ~Ch(q, d).confirmed => Ch(q, d).rwin <= Window
    BY <2>1 DEF WindowInv
  <2>3. ~Known(Other(q), d)' => ~Known(Other(q), d)
    BY <2>1 DEF Changes
  <2>4. ASSUME Has(Other(q), d)' PROVE Ch(Other(q), d)'.swin = Flow(q, d)'
    <3>1. CASE Other(q) = p /\ d = c
      <4>1. q = o
        BY <1>1, <3>1, PeerFacts
      <4> QED
        BY <1>1, <2>1, <2>4, <3>1, <4>1 DEF Fits
    <3>2. CASE ~(Other(q) = p /\ d = c)
      BY <2>1, <2>2, <2>4, <3>2 DEF Changes
    <3> QED
      BY <3>1, <3>2
  <2> QED
    BY <2>1, <2>2, <2>3, <2>4
<1>5. ASSUME Has(p, c)'
      PROVE  /\ Flow(p, c)' <= Window
             /\ Has(o, c)' => Ch(o, c)'.swin = Flow(p, c)'
             /\ ~Known(o, c)' => Ch(p, c)'.swin = Window
             /\ Ch(p, c)'.swin <= Window
             /\ ~Ch(p, c)'.confirmed => Ch(p, c)'.rwin <= Window
  BY <1>1, <1>3, <1>5 DEF Fits, Changes
<1> QED
  <2>1. ASSUME NEW q \in Peers, NEW d \in Conv, Has(q, d)'
        PROVE  /\ Flow(q, d)' <= Window
               /\ Has(Other(q), d)' => Ch(Other(q), d)'.swin = Flow(q, d)'
               /\ ~Known(Other(q), d)' => Ch(q, d)'.swin = Window
               /\ Ch(q, d)'.swin <= Window
               /\ ~Ch(q, d)'.confirmed => Ch(q, d)'.rwin <= Window
    <3>1. CASE q # p \/ d # c
      BY <1>4, <2>1, <3>1
    <3>2. CASE q = p /\ d = c
      BY <1>1, <1>5, <2>1, <3>2
    <3> QED
      BY <3>1, <3>2
  <2> QED
    BY <2>1 DEF WindowInv

LEMMA RestWindow ==
  ASSUME WindowInv, Rests PROVE WindowInv'
<1>1. /\ \A q \in Peers, d \in Conv : Known(q, d)' = Known(q, d) /\ Has(q, d)' = Has(q, d)
      /\ \A q \in Peers, d \in Conv : Ch(q, d)' = Ch(q, d)
  BY DEF Rests, Known, Has, Ch
<1>2. \A q \in Peers, d \in Conv : Flow(q, d)' = Flow(q, d)
  BY <1>1, PeerFacts DEF Flow, Rests
<1> QED
  BY <1>1, <1>2, PeerFacts DEF WindowInv

(* A new channel: its window is untouched. *)
LEMMA NewFits ==
  ASSUME QueueTypes, CoreInv, WindowInv, NEW p \in Peers, NEW c \in Conv, ~Known(p, c),
         \A q \in Peers : Silent(q), NEW a, Has(p, c)' => Ch(p, c)' = a,
         Has(Other(p), c) => ~Ch(Other(p), c).confirmed,
         a.swin = Window, a.rwin \in {0, Window}, a.confirmed => a.rwin = Window
  PROVE  Fits(p, c)
<1>1. PICK o \in Peers : o = Other(p) /\ o # p /\ Other(o) = p
  BY PeerFacts
<1>2. Window \in Nat
  BY ChannelTableAssumption
<1>3. "data" \in Ordinary /\ "adjust" \in Ordinary
  BY DEF Ordinary
<1>4. \A q \in Peers : Total(Line(q), c, "data") = 0 /\ Total(Line(q), c, "adjust") = 0
  BY <1>3, NothingUnderWay
<1>5. \A q \in Peers : Total(Line(q)', c, "data") = 0 /\ Total(Line(q)', c, "adjust") = 0
  BY <1>3, <1>4 DEF Silent
<1>6. ASSUME Has(p, c)' PROVE Flow(p, c)' = Window
  BY <1>1, <1>2, <1>5, <1>6 DEF Flow
<1>7. ASSUME Has(o, c) PROVE Flow(o, c) = Window /\ Ch(o, c).swin = Window
  BY <1>1, <1>2, <1>4, <1>7 DEF Flow, WindowInv
<1> QED
  BY <1>1, <1>2, <1>6, <1>7 DEF Fits

-----------------------------------------------------------------------------
(* The applications *)

(* An open call is made once, by the side whose turn it is, before either    *)
(* side knows the conversation; everything else comes after the outcome.     *)
GoodRequest(p, m) ==
  /\ m.t = "open" =>
       /\ m.c \in DOMAIN setup.by /\ setup.by[m.c] = p /\ end[p][m.c] # "none"
       /\ \A q \in Peers : ~Known(q, m.c)
  /\ m.t # "open" => Settled(p, m.c)
  /\ m.t \in {"success", "failure"} => p = "server" /\ ~setup.prompt
  /\ m.t = "request" => p = "client" /\ m.n \in {0, 1} /\ (m.k = "notice" => m.n = 0)

InboxInv ==
  \A p \in Peers : First(inbox[p]) /\ \A m \in Elems(inbox[p]) : GoodRequest(p, m)

StartedInv ==
  \A p \in Peers, c \in Conv : Known(p, c) =>
    c \in DOMAIN setup.by /\ setup.by[c] \in Peers /\ end[setup.by[c]][c] # "none"

UseInv ==
  /\ \A p \in Peers, c \in Conv : end[p][c] = "open" => Settled(p, c)
  /\ \A p \in Peers, c \in Conv : \A x : InNotes(p, c, x) =>
       x.c = c /\ (x.t = "Open" => Settled(p, c))
  /\ \A c \in Conv : owed[c] > 0 => Settled("server", c) /\ ~setup.prompt

AppInv == InboxInv /\ StartedInv /\ UseInv

(* What is known stays known, and what is settled stays settled. *)
Grows == \A q \in Peers, d \in Conv :
  (Known(q, d) => Known(q, d)') /\ (Settled(q, d) => Settled(q, d)')

SameKnown == \A q \in Peers, d \in Conv : Known(q, d)' = Known(q, d)

LEMMA RestGrows == ASSUME Rests PROVE Grows /\ SameKnown
BY DEF Rests, Grows, SameKnown, Known, Settled, Has, Ch

LEMMA WorkGrows ==
  ASSUME IdTypes, CoreInv, NEW p \in Peers, NEW c \in Conv, NEW e, Works(p, c, e)
  PROVE  Grows /\ SameKnown
<1>1. Spares(p, c, e)
  BY WorkSpares
<1>2. SameKnown
  BY <1>1 DEF Spares, SameKnown
<1>3. ASSUME NEW q \in Peers, NEW d \in Conv, Settled(q, d) PROVE Settled(q, d)'
  <2>1. CASE q = p /\ d = c
    BY <1>1, <1>2, <1>3, <2>1 DEF Spares, Settled, SameKnown
  <2>2. CASE q # p \/ d # c
    BY <1>1, <1>2, <1>3, <2>2 DEF Spares, Settled, SameKnown
  <2> QED
    BY <2>1, <2>2
<1> QED
  BY <1>2, <1>3 DEF Grows, SameKnown

LEMMA EnterGrows ==
  ASSUME NEW p \in Peers, NEW c \in Conv, NEW id, NEW a, Entered(p, c, id, a)
  PROVE  /\ Grows /\ Changes(p, c)
         /\ \A q \in Peers, d \in Conv : Known(q, d)' => Known(q, d) \/ (q = p /\ d = c)
         /\ Known(p, c)' /\ (a.confirmed \/ chans' = chans => Settled(p, c)')
<1>1. /\ ~Known(p, c) /\ ~Has(p, c)
      /\ \A q \in Peers, d \in Conv : Known(q, d)' <=> (Known(q, d) \/ (q = p /\ d = c))
      /\ \A q \in Peers, d \in Conv : q # p \/ d # c =>
           Has(q, d)' = Has(q, d) /\ (Has(q, d) => Ch(q, d)' = Ch(q, d))
      /\ chans' = chans => ~Has(p, c)'
      /\ Has(p, c)' => Ch(p, c)' = a
  BY DEF Entered
<1>2. ASSUME NEW q \in Peers, NEW d \in Conv, Settled(q, d) PROVE Settled(q, d)'
  <2>1. Known(q, d) /\ (q # p \/ d # c)
    BY <1>1, <1>2 DEF Settled
  <2> QED
    BY <1>1, <1>2, <2>1 DEF Settled
<1>3. Grows
  BY <1>1, <1>2 DEF Grows
<1>4. ASSUME NEW q \in Peers, NEW d \in Conv, q # p \/ d # c
      PROVE  /\ Has(q, d)' = Has(q, d) /\ Known(q, d)' = Known(q, d)
             /\ Has(q, d) => Ch(q, d)' = Ch(q, d)
  <2>1. Known(q, d)' <=> Known(q, d)
    BY <1>1, <1>4
  <2>2. Known(q, d)' \in BOOLEAN /\ Known(q, d) \in BOOLEAN
    BY DEF Known
  <2> QED
    BY <1>1, <1>4, <2>1, <2>2
<1>5. Changes(p, c)
  BY <1>1, <1>4 DEF Changes
<1> QED
  BY <1>1, <1>3, <1>5 DEF Settled

(* No end is taken back; what the applications may use is settled. *)
AppMoves ==
  /\ setup' = setup /\ Grows
  /\ \A q \in Peers, d \in Conv :
       /\ end[q][d] # "none" => end'[q][d] # "none"
       /\ end'[q][d] = "open" => end[q][d] = "open" \/ Settled(q, d)'
       /\ Known(q, d)' /\ ~Known(q, d) =>
            d \in DOMAIN setup.by /\ setup.by[d] \in Peers /\ end[setup.by[d]][d] # "none"
       /\ \A x : InNotes(q, d, x)' =>
            InNotes(q, d, x) \/ (x.c = d /\ (x.t = "Open" => Settled(q, d)'))
  /\ \A d \in Conv : owed'[d] > 0 => owed[d] > 0 \/ (Settled("server", d)' /\ ~setup.prompt)

(* The requests that wait are old ones or new ones that are good. *)
InboxMoves ==
  \A q \in Peers :
    /\ First(inbox'[q])
    /\ \A m \in Elems(inbox'[q]) :
         \/ m \in Elems(inbox[q]) /\ m.c \in Conv /\ (m.t = "open" => \A r \in Peers : ~Known(r, m.c)')
         \/ GoodRequest(q, m)'

LEMMA AppKept ==
  ASSUME AppInv, AppMoves, InboxMoves
  PROVE  AppInv'
<1>1. "server" \in Peers /\ InboxInv /\ StartedInv /\ UseInv
  BY DEF Peers, AppInv
<1>2. ASSUME NEW q \in Peers, NEW m \in Elems(inbox[q]), m.c \in Conv,
             m.t = "open" => \A r \in Peers : ~Known(r, m.c)'
      PROVE  GoodRequest(q, m)'
  <2>1. GoodRequest(q, m)
    BY <1>1 DEF InboxInv
  <2>2. m.t = "open" => end'[q][m.c] # "none"
    BY <1>2, <2>1 DEF GoodRequest, AppMoves
  <2>3. m.t # "open" => Settled(q, m.c)'
    BY <1>2, <2>1 DEF GoodRequest, AppMoves, Grows
  <2>4. setup' = setup
    BY DEF AppMoves
  <2> QED
    BY <1>2, <2>1, <2>2, <2>3, <2>4 DEF GoodRequest
<1>3. InboxInv'
  <2>1. \A q \in Peers : \A m \in Elems(inbox'[q]) : GoodRequest(q, m)'
    BY <1>2 DEF InboxMoves
  <2>2. \A q \in Peers : Elems(inbox[q])' = Elems(inbox'[q]) /\ (First(inbox[q])' <=> First(inbox'[q]))
    BY DEF Elems, First
  <2> QED
    BY <2>1, <2>2 DEF InboxInv, InboxMoves
<1>4. StartedInv'
  <2>1. ASSUME NEW q \in Peers, NEW d \in Conv, Known(q, d)'
        PROVE  d \in DOMAIN setup.by /\ setup.by[d] \in Peers /\ end'[setup.by[d]][d] # "none"
    BY <1>1, <2>1 DEF StartedInv, AppMoves
  <2> QED
    BY <2>1 DEF StartedInv, AppMoves
<1>5. UseInv'
  <2>1. ASSUME NEW q \in Peers, NEW d \in Conv, end'[q][d] = "open" PROVE Settled(q, d)'
    BY <1>1, <2>1 DEF UseInv, AppMoves, Grows
  <2>2. ASSUME NEW q \in Peers, NEW d \in Conv, NEW x, InNotes(q, d, x)'
        PROVE  x.c = d /\ (x.t = "Open" => Settled(q, d)')
    <3>1. CASE InNotes(q, d, x)
      BY <1>1, <3>1 DEF UseInv, AppMoves, Grows
    <3>2. CASE ~InNotes(q, d, x)
      BY <2>2, <3>2 DEF AppMoves
    <3> QED
      BY <3>1, <3>2
  <2>3. ASSUME NEW d \in Conv, owed'[d] > 0 PROVE Settled("server", d)' /\ ~setup'.prompt
    BY <1>1, <2>3 DEF UseInv, AppMoves, Grows
  <2> QED
    BY <2>1, <2>2, <2>3 DEF UseInv
<1> QED
  BY <1>3, <1>4, <1>5 DEF AppInv

(* Nothing is posted, and one message at most is taken. *)
LEMMA InboxShrinks ==
  ASSUME InboxTypes, AppInv, NEW p \in Peers,
         inbox' = inbox \/ (inbox[p] # <<>> /\ inbox' = [inbox EXCEPT ![p] = Tail(inbox[p])]),
         SameKnown
  PROVE  InboxMoves
<1>1. \A q \in Peers : inbox[q] \in Seq(Requests) /\ First(inbox[q])
  BY DEF InboxTypes, AppInv, InboxInv
<1>2. \A q \in Peers : \A m \in Elems(inbox[q]) : m.c \in Conv /\ GoodRequest(q, m)
  <2>1. \A q \in Peers : Elems(inbox[q]) \subseteq Requests
    BY <1>1, ElemsTyped
  <2> QED
    BY <2>1 DEF Requests, AppInv, InboxInv
<1>3. ASSUME NEW q \in Peers PROVE First(inbox'[q]) /\ Elems(inbox'[q]) \subseteq Elems(inbox[q])
  <2>1. CASE inbox'[q] = inbox[q]
    BY <1>1, <2>1
  <2>2. CASE inbox[q] # <<>> /\ inbox'[q] = Tail(inbox[q])
    BY <1>1, <2>2, FirstTail, ElemsTail
  <2> QED
    BY <2>1, <2>2 DEF InboxTypes
<1>4. \A q \in Peers : \A m \in Elems(inbox[q]) : m.t = "open" => \A r \in Peers : ~Known(r, m.c)'
  BY <1>2 DEF GoodRequest, SameKnown
<1> QED
  BY <1>2, <1>3, <1>4 DEF InboxMoves

-----------------------------------------------------------------------------
(* Pending data, and the replies *)

Pend(p, c) == IF Has(p, c) THEN Ch(p, c).pend ELSE 0

(* What p holds back for c never exceeds what its application has written. *)
PendInv ==
  \A p \in Peers, c \in Conv :
    /\ Pend(p, c) + Total(inbox[p], c, "data") <= MaxWrites
    /\ Pend(p, c) + Total(inbox[p], c, "data") <= done[p][c]

(* A request asks for one reply or for none; a notice for none. *)
GoodAsk(m) == m.t = "request" => m.n \in {0, 1} /\ (m.k = "notice" => m.n = 0)

(* Nothing is asked on a conversation that the server does not know.  While  *)
(* the server has the channel and answers at once, every request is on its   *)
(* way, or its reply is, or has come.  The client holds no request back.     *)
ReplyInv ==
  /\ \A c \in Conv : ~Known("server", c) => asked[c] = 0 /\ replied[c] = 0
  /\ \A c \in Conv : setup.prompt /\ Has("server", c) =>
       asked[c] = Total(Line("server"), c, "request") + Replies(Line("client"), c) + replied[c]
  /\ \A m \in Elems(Line("server")) : GoodAsk(m)
  /\ \A m \in Elems(Held("client")) : m.t # "request"

(* No data is added: what is taken from the application is sent or pending. *)
PendMoves ==
  \A q \in Peers, d \in Conv :
    /\ Pend(q, d)' + Total(inbox'[q], d, "data") <= Pend(q, d) + Total(inbox[q], d, "data")
    /\ Pend(q, d)' \in Nat /\ Total(inbox'[q], d, "data") \in Nat
    /\ done'[q][d] >= done[q][d] \/ done'[q][d] >= MaxWrites

LEMMA PendNat ==
  ASSUME IdTypes, InboxTypes, OwnInv, NEW q \in Peers, NEW d \in Conv
  PROVE  Pend(q, d) \in Nat /\ Total(inbox[q], d, "data") \in Nat
<1>1. Has(q, d) => Ch(q, d) \in Params
  BY HasFacts
<1>2. Pend(q, d) \in Nat
  BY <1>1, ParamsFacts DEF Pend
<1>3. inbox[q] \in Seq(Requests) /\ \A m \in Requests : m.n \in Nat
  BY DEF InboxTypes, Requests
<1>4. Total(inbox[q], d, "data") \in Nat
  BY <1>3, TotalFacts
<1> QED
  BY <1>2, <1>4

LEMMA PendKept ==
  ASSUME IdTypes, InboxTypes, OwnInv, AppTypes, AppTypes', PendInv, PendMoves
  PROVE  PendInv'
<1>1. ASSUME NEW q \in Peers, NEW d \in Conv
      PROVE  /\ Pend(q, d)' + Total(inbox'[q], d, "data") <= MaxWrites
             /\ Pend(q, d)' + Total(inbox'[q], d, "data") <= done'[q][d]
  <2>1. /\ Pend(q, d) + Total(inbox[q], d, "data") <= MaxWrites
        /\ Pend(q, d) + Total(inbox[q], d, "data") <= done[q][d]
    BY DEF PendInv
  <2>2. PICK n \in Nat : n = Pend(q, d) + Total(inbox[q], d, "data")
    BY PendNat
  <2>3. PICK k \in Nat : k = Pend(q, d)' + Total(inbox'[q], d, "data")
    BY DEF PendMoves
  <2>4. k <= n /\ (done'[q][d] >= done[q][d] \/ done'[q][d] >= MaxWrites)
    BY <2>2, <2>3 DEF PendMoves
  <2>5. done[q][d] \in Nat /\ done'[q][d] \in Nat /\ MaxWrites \in Nat
    BY ChannelTableAssumption DEF AppTypes
  <2> QED
    BY <2>1, <2>2, <2>3, <2>4, <2>5
<1> QED
  BY <1>1 DEF PendInv

(* Nothing is posted but messages that are no data, and none is taken. *)
LEMMA PendRests ==
  ASSUME IdTypes, InboxTypes, InboxTypes', OwnInv, AppTypes, Rests,
         \A q \in Peers, d \in Conv : Total(inbox'[q], d, "data") = Total(inbox[q], d, "data"),
         \A q \in Peers, d \in Conv : done'[q][d] >= done[q][d] \/ done'[q][d] >= MaxWrites
  PROVE  PendMoves
<1>1. \A q \in Peers, d \in Conv : Has(q, d)' = Has(q, d) /\ Ch(q, d)' = Ch(q, d)
  BY DEF Rests, Has, Ch
<1>2. \A q \in Peers, d \in Conv : Pend(q, d)' = Pend(q, d)
  BY <1>1 DEF Pend
<1>3. \A q \in Peers, d \in Conv : Pend(q, d) \in Nat /\ Total(inbox[q], d, "data") \in Nat
  BY PendNat
<1> QED
  BY <1>2, <1>3 DEF PendMoves

(* What is asked and replied balances what is on its way. *)
Balanced(d) ==
  asked'[d] + Total(Line("server"), d, "request") + Replies(Line("client"), d) + replied[d]
    = asked[d] + Total(Line("server")', d, "request") + Replies(Line("client")', d) + replied'[d]

ReplyMoves ==
  /\ setup' = setup
  /\ \A d \in Conv : ~Known("server", d)' =>
       ~Known("server", d) /\ asked'[d] = asked[d] /\ replied'[d] = replied[d]
  /\ \A d \in Conv : setup.prompt /\ Has("server", d)' =>
       \/ Has("server", d) /\ Balanced(d)
       \/ /\ ~Known("server", d) /\ asked'[d] = asked[d] /\ replied'[d] = replied[d]
          /\ Total(Line("server")', d, "request") = 0 /\ Replies(Line("client")', d) = 0
  /\ \A m \in Elems(Line("server")') : m \in Elems(Line("server")) \/ GoodAsk(m)
  /\ \A m \in Elems(Held("client")') : m \in Elems(Held("client")) \/ m.t # "request"

LEMMA LineTypedNext ==
  ASSUME QueueTypes', NEW p \in Peers
  PROVE  Line(p)' \in Seq(Packets)
<1>1. \A q \in Peers : net'[q] \in Seq(Packets) /\ blocked'[q] \in {<<>>} \cup Waiting
  BY DEF QueueTypes
<1>2. \A q \in Peers : blocked'[q] # <<>> => blocked'[q][3] \in Seq(Packets)
  BY <1>1, WaitingFacts
<1>3. <<>> \in Seq(Packets)
  OBVIOUS
<1>4. PICK o \in Peers : o = Other(p)
  BY PeerFacts
<1>5. PICK h \in Seq(Packets) : h = IF blocked'[o] = <<>> THEN <<>> ELSE blocked'[o][3]
  <2>1. CASE blocked'[o] = <<>>
    BY <1>3, <2>1
  <2>2. CASE blocked'[o] # <<>>
    BY <1>2, <2>2
  <2> QED
    BY <2>1, <2>2
<1>6. net'[p] \o h \in Seq(Packets)
  BY <1>1, ConcatProperties
<1> QED
  BY <1>4, <1>5, <1>6 DEF Line, Held

LEMMA ReplyKept ==
  ASSUME QueueTypes, QueueTypes', AppTypes, AppTypes', ReplyInv, ReplyMoves
  PROVE  ReplyInv'
<1>1. "server" \in Peers /\ "client" \in Peers
  BY DEF Peers
<1>2. \A d \in Conv : ~Known("server", d)' => asked'[d] = 0 /\ replied'[d] = 0
  BY DEF ReplyInv, ReplyMoves
<1>3. ASSUME NEW d \in Conv, setup.prompt, Has("server", d)'
      PROVE  asked'[d] = Total(Line("server")', d, "request") + Replies(Line("client")', d) + replied'[d]
  <2>1. CASE Has("server", d) /\ Balanced(d)
    <3>1. asked[d] = Total(Line("server"), d, "request") + Replies(Line("client"), d) + replied[d]
      BY <1>3, <2>1 DEF ReplyInv
    <3>2. PICK t \in Nat, r \in Nat :
            t = Total(Line("server"), d, "request") /\ r = Replies(Line("client"), d)
      BY <1>1, LineTotal
    <3>3. /\ Line("server")' \in Seq(Packets) /\ Line("client")' \in Seq(Packets)
      BY <1>1, LineTypedNext
    <3>4. PICK ls \in Seq(Packets), lc \in Seq(Packets) : ls = Line("server")' /\ lc = Line("client")'
      BY <3>3
    <3>5. Total(ls, d, "request") \in Nat /\ Replies(lc, d) \in Nat
      BY PacketTotals, RepliesFacts
    <3>6. /\ asked[d] \in Nat /\ asked'[d] \in Nat /\ replied[d] \in Nat /\ replied'[d] \in Nat
      BY DEF AppTypes
    <3>7. asked'[d] + t + r + replied[d]
             = asked[d] + Total(ls, d, "request") + Replies(lc, d) + replied'[d]
      BY <2>1, <3>2, <3>4 DEF Balanced
    <3>8. asked'[d] = Total(ls, d, "request") + Replies(lc, d) + replied'[d]
      <4>1. PICK u \in Nat, v \in Nat : u = Total(ls, d, "request") /\ v = Replies(lc, d)
        BY <3>5
      <4>2. PICK a \in Nat, b \in Nat, r1 \in Nat, r2 \in Nat :
              a = asked[d] /\ b = asked'[d] /\ r1 = replied[d] /\ r2 = replied'[d]
        BY <3>6
      <4>3. a = t + r + r1 /\ b + t + r + r1 = a + u + v + r2
        BY <3>1, <3>2, <3>7, <4>1, <4>2
      <4>4. b = u + v + r2
        BY <4>3
      <4> QED
        BY <4>1, <4>2, <4>4
    <3> QED
      BY <3>4, <3>8
  <2>2. CASE /\ ~Known("server", d) /\ asked'[d] = asked[d] /\ replied'[d] = replied[d]
             /\ Total(Line("server")', d, "request") = 0 /\ Replies(Line("client")', d) = 0
    <3>1. asked[d] = 0 /\ replied[d] = 0
      BY <2>2 DEF ReplyInv
    <3> QED
      BY <2>2, <3>1
  <2> QED
    BY <1>3, <2>1, <2>2 DEF ReplyMoves
<1>4. \A m \in Elems(Line("server")') : GoodAsk(m)
  BY DEF ReplyInv, ReplyMoves
<1>5. \A m \in Elems(Held("client")') : m.t # "request"
  BY DEF ReplyInv, ReplyMoves
<1>6. Elems(Line("server")') = Elems(Line("server"))' /\ Elems(Held("client")') = Elems(Held("client"))'
  BY DEF Elems
<1> QED
  BY <1>2, <1>3, <1>4, <1>5, <1>6 DEF ReplyInv, ReplyMoves, GoodAsk

LEMMA ReplyRests ==
  ASSUME Rests, setup' = setup, asked' = asked, replied' = replied,
         \A m \in Elems(Held("client")') : m \in Elems(Held("client"))
  PROVE  ReplyMoves
<1>1. "server" \in Peers /\ "client" \in Peers
  BY DEF Peers
<1>2. \A d \in Conv : Has("server", d)' = Has("server", d) /\ Known("server", d)' = Known("server", d)
  BY DEF Rests, Has, Known
<1>3. Line("server")' = Line("server") /\ Line("client")' = Line("client")
  BY <1>1 DEF Rests
<1>4. \A d \in Conv : Balanced(d)
  BY <1>3 DEF Balanced
<1> QED
  BY <1>2, <1>3, <1>4 DEF ReplyMoves

(* A step that leaves the requests and the replies on the lines alone. *)
LEMMA ReplyQuiet ==
  ASSUME QueueTypes, CoreInv, NEW p \in Peers, NEW c \in Conv, ~Known(p, c) \/ Has(p, c)' = Has(p, c),
         Changes(p, c), \A q \in Peers : Silent(q),
         setup' = setup, asked' = asked, replied' = replied,
         \A m \in Elems(Line("server")') : m \in Elems(Line("server")) \/ m.t \in Heralds,
         \A m \in Elems(Held("client")') : m \in Elems(Held("client"))
  PROVE  ReplyMoves
<1>1. "server" \in Peers /\ "client" \in Peers /\ "request" \in Ordinary /\ "success" \in Ordinary
  BY DEF Peers, Ordinary
<1>2. \A d : /\ Total(Line("server")', d, "request") = Total(Line("server"), d, "request")
             /\ Replies(Line("client")', d) = Replies(Line("client"), d)
  BY <1>1 DEF Silent
<1>3. \A d \in Conv : Balanced(d)
  BY <1>2 DEF Balanced
<1>4. ASSUME NEW d \in Conv, ~Known("server", d)' PROVE ~Known("server", d)
  <2>1. CASE "server" # p \/ d # c
    BY <1>1, <1>4, <2>1 DEF Changes
  <2>2. CASE "server" = p /\ d = c
    BY <1>4, <2>2 DEF Changes
  <2> QED
    BY <2>1, <2>2
<1>5. ASSUME NEW d \in Conv, Has("server", d)', ~Has("server", d)
      PROVE  /\ ~Known("server", d)
             /\ Total(Line("server")', d, "request") = 0 /\ Replies(Line("client")', d) = 0
  <2>1. p = "server" /\ d = c
    BY <1>1, <1>5 DEF Changes
  <2>2. ~Known("server", d)
    BY <1>5, <2>1
  <2>3. Total(Line("server"), d, "request") = 0 /\ Replies(Line("client"), d) = 0
    BY <1>1, <2>2, NothingUnderWay
  <2> QED
    BY <1>2, <2>2, <2>3
<1>6. \A m \in Elems(Line("server")') : m \in Elems(Line("server")) \/ GoodAsk(m)
  BY DEF GoodAsk, Heralds
<1> QED
  BY <1>3, <1>4, <1>5, <1>6 DEF ReplyMoves

(* A message that is no answer to an open call finds its channel confirmed. *)
LEMMA GotConfirmed ==
  ASSUME QueueTypes, CoreInv, NEW p \in Peers, Line(p) # <<>>, NEW c \in Conv,
         Head(Line(p)).c = c, Head(Line(p)).t \in Ordinary, Has(p, c)
  PROVE  Ch(p, c).confirmed
<1>1. PICK s \in Seq(Packets) : s = Line(p) /\ s # <<>>
  BY LineTyped
<1>2. Head(s) \in Elems(Line(p))
  BY <1>1, ElemsTail
<1>3. GoodPacket(p, Head(s))
  BY <1>2 DEF CoreInv, LineInv
<1>4. Known(Other(p), c)
  BY <1>1, <1>3 DEF GoodPacket
<1>5. SUFFICES ASSUME ~Ch(p, c).confirmed PROVE FALSE
  OBVIOUS
<1>6. PICK m \in Elems(s) : m.t \in {"confirmation", "open-failure"} /\ m.c = c
  BY <1>1, <1>4, <1>5 DEF CoreInv, AnswerComes
<1>7. m # Head(s)
  BY <1>1, <1>6 DEF Ordinary
<1>8. m \in Elems(Tail(s))
  BY <1>1, <1>6, <1>7, ElemsTail
<1>9. First(s)
  BY <1>1 DEF CoreInv, FirstInv
<1>10. m.t \in Heralds
  BY <1>6 DEF Heralds
<1>11. m.c # Head(s).c
  BY <1>1, <1>8, <1>9, <1>10, FirstTail
<1> QED
  BY <1>1, <1>6, <1>11

LEMMA WorkIds ==
  ASSUME IdTypes, NEW p \in Peers, NEW c \in Conv, NEW e, Works(p, c, e),
         refs' \in [Peers -> RefTables]
  PROVE  IdTypes'
<1>1. e.chans \in Tables
  BY EncFacts DEF Works
<1>2. chans' \in [Peers -> Tables]
  BY <1>1 DEF IdTypes, Works
<1> QED
  BY <1>2 DEF IdTypes, Works

(* The data taken from the application is in the table or on its way. *)
LEMMA WorkPend ==
  ASSUME IdTypes, IdTypes', InboxTypes, CoreInv, NEW p \in Peers, NEW c \in Conv, NEW e,
         Works(p, c, e), NEW din \in Nat, NEW ain, NEW dgot,
         Accounts(chans[p], idof[p][c], e, din, ain, dgot), done' = done, AppTypes,
         \A q \in Peers, d \in Conv : q # p \/ d # c =>
           Total(inbox'[q], d, "data") = Total(inbox[q], d, "data"),
         Total(inbox[p], c, "data") = din + Total(inbox'[p], c, "data"),
         Total(inbox'[p], c, "data") \in Nat
  PROVE  PendMoves
<1>1. OwnInv
  BY DEF CoreInv
<1>2. Spares(p, c, e)
  BY WorkSpares
<1>3. \A q \in Peers, d \in Conv : Pend(q, d) \in Nat /\ Total(inbox[q], d, "data") \in Nat
  BY <1>1, PendNat
<1>4. ASSUME NEW q \in Peers, NEW d \in Conv, q # p \/ d # c
      PROVE  /\ Pend(q, d)' + Total(inbox'[q], d, "data") <= Pend(q, d) + Total(inbox[q], d, "data")
             /\ Pend(q, d)' \in Nat /\ Total(inbox'[q], d, "data") \in Nat
  <2>1. Pend(q, d)' = Pend(q, d)
    BY <1>2, <1>4 DEF Spares, Pend
  <2>2. Total(inbox'[q], d, "data") = Total(inbox[q], d, "data")
    BY <1>4
  <2> QED
    BY <1>3, <2>1, <2>2
<1>5. Pend(p, c)' \in Nat /\ Pend(p, c)' <= Pend(p, c) + din
  <2>1. CASE ~Has(p, c)'
    BY <1>3, <2>1 DEF Pend
  <2>2. CASE Has(p, c)'
    <3>1. Has(p, c)
      BY <1>2, <2>2 DEF Spares
    <3>2. PICK id : id = idof[p][c]
      OBVIOUS
    <3>3. chans' = [chans EXCEPT ![p] = e.chans] /\ idof' = idof /\ e \in Encs
      BY DEF Works
    <3>4. chans \in [Peers -> Tables] /\ e.chans \in Tables /\ e.out \in Seq(Packets)
      BY <3>3, EncFacts DEF IdTypes
    <3>5. chans'[p] = e.chans
      BY <3>3, <3>4
    <3>6. id \in DOMAIN e.chans /\ Ch(p, c)' = e.chans[id]
      BY <2>2, <3>2, <3>3, <3>5 DEF Has, Ch
    <3>7. id \in DOMAIN chans[p] /\ Ch(p, c) = chans[p][id] /\ Ch(p, c).c = c
      BY <1>1, <3>1, <3>2, HasFacts DEF Has, Ch
    <3>8. e.chans[id].pend + Total(e.out, chans[p][id].c, "data") = chans[p][id].pend + din
      BY <3>2, <3>6, <3>7 DEF Accounts
    <3>9. PICK n \in Nat : n = Total(e.out, chans[p][id].c, "data")
      BY <3>4, PacketTotals
    <3>10. e.chans[id].pend \in Nat /\ chans[p][id].pend \in Nat
      BY <3>4, <3>6, <3>7, TableFacts, ParamsFacts
    <3>11. Pend(p, c) = chans[p][id].pend
      BY <3>1, <3>7 DEF Pend
    <3>12. Pend(p, c)' = e.chans[id].pend
      BY <2>2, <3>6 DEF Pend
    <3> QED
      BY <3>8, <3>9, <3>10, <3>11, <3>12
  <2> QED
    BY <2>1, <2>2
<1>6. Pend(p, c)' + Total(inbox'[p], c, "data") <= Pend(p, c) + Total(inbox[p], c, "data")
  <2>1. PICK a \in Nat, b \in Nat, x \in Nat, y \in Nat :
          a = Pend(p, c) /\ b = Total(inbox[p], c, "data") /\ y = Total(inbox'[p], c, "data")
          /\ x = Pend(p, c)'
    BY <1>3, <1>5
  <2>2. x <= a + din /\ b = din + y
    BY <1>5, <2>1
  <2>3. x + y <= a + b
    BY <2>2
  <2> QED
    BY <2>1, <2>3
<1>7. \A q \in Peers, d \in Conv : done'[q][d] = done[q][d] /\ done[q][d] \in Nat
  BY DEF AppTypes
<1> QED
  BY <1>4, <1>5, <1>6, <1>7 DEF PendMoves

(* The client works on its channel. *)
LEMMA ClientReplies ==
  ASSUME IdTypes, QueueTypes, CoreInv, AppTypes, NEW c \in Conv, NEW e, Works("client", c, e),
         \A d \in Conv : replied'[d] + Replies(Line("client")', d)
                           = replied[d] + Replies(Line("client"), d),
         \A d \in Conv : asked'[d] = asked[d] + Total(e.out, d, "request"),
         \A d \in Conv : ~Known("server", d) => asked'[d] = asked[d] /\ replied'[d] = replied[d],
         AppTypes', \A d \in Conv : Replies(Line("client")', d) \in Nat,
         \A m \in Elems(e.out) : GoodAsk(m), setup' = setup,
         \A m \in Elems(Held("client")') : m \in Elems(Held("client")) \/ m.t # "request"
  PROVE  ReplyMoves
<1>1. "server" \in Peers /\ "client" \in Peers /\ Other("client") = "server" /\ "client" # "server"
  BY DEF Peers, Other
<1>2. Spares("client", c, e)
  BY <1>1, WorkSpares
<1>3. PICK out \in Seq(Packets) : out = e.out
  BY EncFacts DEF Works
<1>4. Line("server")' = Line("server") \o out
  BY <1>1, <1>3 DEF Works
<1>5. ASSUME NEW d \in Conv PROVE Balanced(d)
  <2>1. PICK u : u = Line("server") \o out
    OBVIOUS
  <2>2. Adds(u, Line("server"), out, d, "request")
    BY <1>1, <2>1, AddTotal
  <2>3. PICK a \in Nat, t \in Nat : a = Total(out, d, "request") /\ t = Total(Line("server"), d, "request")
    BY <1>1, <2>2, LineTotal DEF Adds
  <2>4. Total(Line("server")', d, "request") = t + a
    BY <1>4, <2>1, <2>2, <2>3 DEF Adds
  <2>5. PICK r \in Nat, x \in Nat : r = Replies(Line("client"), d) /\ x = Replies(Line("client")', d)
    BY <1>1, LineTotal
  <2>6. PICK k \in Nat, l \in Nat, m \in Nat, n \in Nat :
          k = asked[d] /\ l = asked'[d] /\ m = replied[d] /\ n = replied'[d]
    BY DEF AppTypes
  <2>7. l = k + a /\ n + x = m + r
    BY <1>3, <2>3, <2>5, <2>6
  <2>8. l + t + r + m = k + (t + a) + x + n
    BY <2>7
  <2> QED
    BY <2>3, <2>4, <2>5, <2>6, <2>8 DEF Balanced
<1>6. \A d \in Conv : Has("server", d)' = Has("server", d) /\ Known("server", d)' = Known("server", d)
  BY <1>1, <1>2 DEF Spares
<1>7. \A m \in Elems(Line("server")') : m \in Elems(Line("server")) \/ GoodAsk(m)
  <2>1. Elems(Line("server") \o out) = Elems(Line("server")) \cup Elems(out)
    BY <1>1, LineTyped, ElemsConcat
  <2> QED
    BY <1>3, <1>4, <2>1
<1> QED
  BY <1>5, <1>6, <1>7 DEF ReplyMoves

(* The server works on its channel. *)
LEMMA ServerReplies ==
  ASSUME IdTypes, QueueTypes, CoreInv, AppTypes, NEW c \in Conv, NEW e, Works("server", c, e),
         Took("server", c) \/ Got("server", c),
         setup.prompt /\ Has("server", c)' =>
           Replies(e.out, c) + Total(Line("server")', c, "request") = Total(Line("server"), c, "request"),
         asked' = asked, replied' = replied, setup' = setup,
         \A m \in Elems(Held("client")') : m \in Elems(Held("client")) \/ m.t # "request"
  PROVE  ReplyMoves
<1>1. "server" \in Peers /\ "client" \in Peers /\ Other("server") = "client" /\ "client" # "server"
  BY DEF Peers, Other
<1>2. Spares("server", c, e)
  BY <1>1, WorkSpares
<1>3. PICK out \in Seq(Packets) : out = e.out
  BY EncFacts DEF Works
<1>4. Line("client")' = Line("client") \o out
  BY <1>1, <1>3 DEF Works
<1>5. \A d \in Conv : Known("server", d)' = Known("server", d)
  BY <1>1, <1>2 DEF Spares
<1>6. \A d \in Conv : Has("server", d)' => Has("server", d)
  BY <1>1, <1>2 DEF Spares
<1>7. ASSUME NEW d \in Conv, setup.prompt, Has("server", d)' PROVE Balanced(d)
  <2>1. PICK u : u = Line("client") \o out
    OBVIOUS
  <2>2. Adds(u, Line("client"), out, d, "request")
    BY <1>1, <2>1, AddTotal
  <2>3. PICK a \in Nat, r \in Nat : a = Replies(out, d) /\ r = Replies(Line("client"), d)
    BY <1>1, <2>2, LineTotal DEF Adds
  <2>4. Replies(Line("client")', d) = r + a
    BY <1>4, <2>1, <2>2, <2>3 DEF Adds
  <2>5. Total(Line("server"), d, "request") = a + Total(Line("server")', d, "request")
        /\ Total(Line("server")', d, "request") \in Nat
    <3>1. CASE d = c
      <4>1. Total(Line("server")', d, "request") \in Nat
        <5>1. CASE Line("server")' = Line("server")
          BY <1>1, <5>1, LineTotal
        <5>2. CASE Line("server") # <<>> /\ Line("server")' = Tail(Line("server"))
          BY <1>1, <5>2, TailTotal
        <5> QED
          BY <5>1, <5>2 DEF Took, Got
      <4> QED
        BY <1>3, <1>7, <2>3, <3>1, <4>1
    <3>2. CASE d # c
      <4>1. \A m \in Elems(out) : m.t \notin {"success", "failure"} \/ m.c # d
        BY <1>2, <1>3, <3>2 DEF Spares
      <4>2. a = 0
        BY <2>3, <4>1, RepliesFacts
      <4>3. CASE Line("server")' = Line("server")
        BY <1>1, <4>2, <4>3, LineTotal
      <4>4. CASE /\ Line("server") # <<>> /\ Line("server")' = Tail(Line("server"))
                 /\ Head(Line("server")).c = c
        <5>1. Total(Line("server"), d, "request")
                = Amount(Head(Line("server")), d, "request") + Total(Line("server")', d, "request")
              /\ Total(Line("server")', d, "request") \in Nat
          BY <1>1, <4>4, TailTotal
        <5>2. Amount(Head(Line("server")), d, "request") = 0
          BY <3>2, <4>4 DEF Amount
        <5> QED
          BY <4>2, <5>1, <5>2
      <4> QED
        BY <4>3, <4>4 DEF Took, Got
    <3> QED
      BY <3>1, <3>2
  <2>6. PICK t \in Nat : t = Total(Line("server")', d, "request")
    BY <2>5
  <2>7. PICK k \in Nat, m \in Nat : k = asked[d] /\ m = replied[d]
    BY DEF AppTypes
  <2>8. k + (a + t) + r + m = k + t + (r + a) + m
    OBVIOUS
  <2> QED
    BY <2>3, <2>4, <2>5, <2>6, <2>7, <2>8 DEF Balanced
<1>8. \A m \in Elems(Line("server")') : m \in Elems(Line("server"))
  <2>1. CASE Line("server")' = Line("server")
    BY <2>1
  <2>2. CASE Line("server") # <<>> /\ Line("server")' = Tail(Line("server"))
    BY <1>1, <2>2, LineTyped, ElemsTail
  <2> QED
    BY <2>1, <2>2 DEF Took, Got
<1> QED
  BY <1>5, <1>6, <1>7, <1>8 DEF ReplyMoves

-----------------------------------------------------------------------------
(* The invariant *)

Rule ==
  /\ Types /\ CoreInv /\ WindowInv /\ AppInv /\ PendInv /\ ReplyInv /\ SessionSurvives

LEMMA Together ==
  ASSUME Rule, Types', CoreInv', WindowInv', AppMoves, InboxMoves, PendMoves, ReplyMoves,
         SessionSurvives'
  PROVE  Rule'
<1>1. AppInv'
  BY AppKept DEF Rule
<1>2. PendInv'
  BY PendKept DEF Rule, Types, CoreInv
<1>3. ReplyInv'
  BY ReplyKept DEF Rule, Types
<1> QED
  BY <1>1, <1>2, <1>3 DEF Rule

(* The notes that wait are old ones or new ones on their conversation. *)
NotesMove ==
  \A q \in Peers, d \in Conv : \A x : InNotes(q, d, x)' =>
    InNotes(q, d, x) \/ (x.c = d /\ (x.t = "Open" => Settled(q, d)'))

OwedMoves ==
  \A d \in Conv : owed'[d] > 0 => owed[d] > 0 \/ (Settled("server", d)' /\ ~setup.prompt)

(* The session's step takes a message of its application, or none; din is   *)
(* the data in it.                                                          *)
InboxTaken(p, c, din) ==
  \/ inbox' = inbox /\ din = 0
  \/ /\ inbox[p] # <<>> /\ Head(inbox[p]).c = c /\ inbox' = [inbox EXCEPT ![p] = Tail(inbox[p])]
     /\ din = Amount(Head(inbox[p]), c, "data")

LEMMA TakenTotals ==
  ASSUME InboxTypes, NEW p \in Peers, NEW c \in Conv, NEW din, InboxTaken(p, c, din)
  PROVE  /\ \A q \in Peers, d \in Conv : q # p \/ d # c =>
              Total(inbox'[q], d, "data") = Total(inbox[q], d, "data")
         /\ Total(inbox[p], c, "data") = din + Total(inbox'[p], c, "data")
         /\ Total(inbox'[p], c, "data") \in Nat /\ din \in Nat
<1>1. \A q \in Peers : inbox[q] \in Seq(Requests)
  BY DEF InboxTypes
<1>2. \A m \in Requests : m.n \in Nat
  BY DEF Requests
<1>3. \A q \in Peers, d \in Conv : Total(inbox[q], d, "data") \in Nat
  BY <1>1, <1>2, TotalFacts
<1>4. CASE inbox' = inbox /\ din = 0
  BY <1>3, <1>4
<1>5. CASE /\ inbox[p] # <<>> /\ Head(inbox[p]).c = c /\ inbox' = [inbox EXCEPT ![p] = Tail(inbox[p])]
           /\ din = Amount(Head(inbox[p]), c, "data")
  <2>1. PICK s \in Seq(Requests) : s = inbox[p] /\ s # <<>>
    BY <1>1, <1>5
  <2>2. Tail(s) \in Seq(Requests) /\ Head(s) \in Requests
    BY <2>1, HeadTailProperties
  <2>3. inbox'[p] = Tail(s) /\ \A q \in Peers : q # p => inbox'[q] = inbox[q]
    BY <1>5, <2>1 DEF InboxTypes
  <2>4. ASSUME NEW d \in Conv
        PROVE  /\ Total(s, d, "data") = Amount(Head(s), d, "data") + Total(Tail(s), d, "data")
               /\ Total(Tail(s), d, "data") \in Nat
    <3>1. Total(s, d, "data") = Amount(Head(s), d, "data") + Total(Tail(s), d, "data")
      BY <1>2, <2>1, TotalFacts
    <3>2. PICK r \in Seq(Requests) : r = Tail(s)
      BY <2>2
    <3>3. Total(r, d, "data") \in Nat
      BY <1>2, TotalFacts
    <3> QED
      BY <3>1, <3>2, <3>3
  <2>5. Amount(Head(s), c, "data") \in Nat
    BY <1>2, <2>2 DEF Amount
  <2>6. \A d \in Conv : d # c => Amount(Head(s), d, "data") = 0
    BY <1>5, <2>1 DEF Amount
  <2>7. ASSUME NEW d \in Conv, d # c PROVE Total(Tail(s), d, "data") = Total(s, d, "data")
    <3>1. PICK a \in Nat : a = Total(Tail(s), d, "data")
      BY <2>4
    <3>2. Total(s, d, "data") = 0 + a
      BY <2>4, <2>6, <2>7, <3>1
    <3> QED
      BY <3>1, <3>2
  <2> QED
    BY <1>5, <2>1, <2>3, <2>4, <2>5, <2>7
<1> QED
  BY <1>4, <1>5 DEF InboxTaken

LEMMA WorkStep ==
  ASSUME Rule, NEW p \in Peers, NEW c \in Conv, NEW e, Works(p, c, e), NEW din \in Nat, NEW ain,
         NEW dgot, Gives(p, c, ain, dgot), Accounts(chans[p], idof[p][c], e, din, ain, dgot), Types',
         end' = end, setup' = setup, done' = done, NotesMove, OwedMoves, InboxTaken(p, c, din),
         ReplyMoves, SessionSurvives'
  PROVE  Rule'
<1>1. IdTypes /\ QueueTypes /\ InboxTypes /\ AppTypes /\ CoreInv /\ WindowInv /\ AppInv
      /\ IdTypes' /\ InboxTypes'
  BY DEF Rule, Types
<1>2. CoreInv'
  BY <1>1, WorkCore DEF Gives
<1>3. WindowInv'
  BY <1>1, WorkWindow
<1>4. Grows /\ SameKnown
  BY <1>1, WorkGrows
<1>5. ASSUME NEW q \in Peers, NEW d \in Conv
      PROVE  ~(Known(q, d)' /\ ~Known(q, d))
  BY <1>4 DEF SameKnown
<1>6. AppMoves
  BY <1>4, <1>5 DEF AppMoves, NotesMove, OwedMoves
<1>7. InboxMoves
  BY <1>1, <1>4, InboxShrinks DEF InboxTaken
<1>8. PendMoves
  BY <1>1, TakenTotals, WorkPend
<1> QED
  BY <1>2, <1>3, <1>6, <1>7, <1>8, Together

-----------------------------------------------------------------------------
(* The operations of the session on one channel *)

(* T is tab with another want_reply. *)
Rewanted(tab, id, T, w) ==
  /\ T \in Tables /\ DOMAIN T = DOMAIN tab /\ \A i \in DOMAIN tab \ {id} : T[i] = tab[i]
  /\ T[id].wants = w /\ T[id].c = tab[id].c /\ T[id].peer = tab[id].peer
  /\ T[id].confirmed = tab[id].confirmed /\ T[id].swin = tab[id].swin
  /\ T[id].rwin = tab[id].rwin /\ T[id].pend = tab[id].pend

LEMMA WantsFacts ==
  ASSUME NEW tab \in Tables, NEW id \in DOMAIN tab, NEW s \in Seq(Packets), NEW w \in BOOLEAN,
         NEW e, e = [chans |-> tab, out |-> s], NEW f, f = [e EXCEPT !.chans[id].wants = w],
         NEW R, R = f.chans
  PROVE  f \in Encs /\ f.out = s /\ Rewanted(tab, id, R, w)
<1>1. tab[id] \in Params
  BY TableFacts
<1>2. PICK a : a = [tab[id] EXCEPT !.wants = w]
  OBVIOUS
<1>3. /\ a \in Params /\ a.c = tab[id].c /\ a.peer = tab[id].peer /\ a.confirmed = tab[id].confirmed
      /\ a.swin = tab[id].swin /\ a.rwin = tab[id].rwin /\ a.pend = tab[id].pend /\ a.wants = w
  BY <1>1, <1>2 DEF Params
<1>4. PICK T : T = [tab EXCEPT ![id] = a]
  OBVIOUS
<1>5. T \in Tables /\ DOMAIN T = DOMAIN tab /\ T[id] = a /\ \A i \in DOMAIN tab \ {id} : T[i] = tab[i]
  BY <1>3, <1>4, TableExcept
<1>6. f = [chans |-> T, out |-> s]
  BY <1>2, <1>4, ExceptWants
<1>7. f \in Encs /\ f.chans = T /\ f.out = s
  <2>1. PICK g : g = [chans |-> T, out |-> s]
    OBVIOUS
  <2>2. g \in Encs /\ g.chans = T /\ g.out = s
    BY <1>5, <2>1, EncMade
  <2> QED
    BY <1>6, <2>1, <2>2
<1> QED
  BY <1>3, <1>5, <1>7 DEF Rewanted

(* What was worked after, or before, want_reply is set was worked. *)
LEMMA WorkAfter ==
  ASSUME NEW tab \in Tables, NEW id \in DOMAIN tab, NEW T, NEW w, Rewanted(tab, id, T, w),
         NEW f, Worked(T, id, f), Accounts(T, id, f, 0, 0, 0)
  PROVE  Worked(tab, id, f) /\ Accounts(tab, id, f, 0, 0, 0)
<1>1. Kept(T, id, f.chans) /\ Outs(T, id, f.out) /\ f \in Encs
  BY DEF Worked, Rewanted
<1>2. Kept(tab, id, f.chans)
  <2>1. /\ f.chans \in Tables
        /\ DOMAIN f.chans = DOMAIN T \/ DOMAIN f.chans = DOMAIN T \ {id}
        /\ \A i \in DOMAIN f.chans \ {id} : f.chans[i] = T[i]
        /\ id \in DOMAIN f.chans =>
             /\ f.chans[id].c = T[id].c /\ f.chans[id].peer = T[id].peer
             /\ f.chans[id].confirmed = T[id].confirmed
    BY <1>1 DEF Kept
  <2>2. DOMAIN f.chans = DOMAIN tab \/ DOMAIN f.chans = DOMAIN tab \ {id}
    BY <2>1 DEF Rewanted
  <2>3. \A i \in DOMAIN f.chans \ {id} : i \in DOMAIN tab \ {id}
    BY <2>2
  <2>4. \A i \in DOMAIN f.chans \ {id} : f.chans[i] = tab[i]
    BY <2>1, <2>3 DEF Rewanted
  <2> QED
    BY <2>1, <2>2, <2>4 DEF Kept, Rewanted
<1>3. Outs(tab, id, f.out)
  BY <1>1 DEF Outs, Rewanted
<1>4. Worked(tab, id, f)
  BY <1>1, <1>2, <1>3 DEF Worked
<1>5. Accounts(tab, id, f, 0, 0, 0)
  BY DEF Accounts, Rewanted
<1> QED
  BY <1>4, <1>5

LEMMA WorkBefore ==
  ASSUME NEW tab \in Tables, NEW id \in DOMAIN tab, NEW f, Worked(tab, id, f),
         Accounts(tab, id, f, 0, 0, 0), id \in DOMAIN f.chans, NEW w \in BOOLEAN,
         NEW g, g = [f EXCEPT !.chans[id].wants = w]
  PROVE  Worked(tab, id, g) /\ Accounts(tab, id, g, 0, 0, 0) /\ g.out = f.out
<1>1. Kept(tab, id, f.chans) /\ Outs(tab, id, f.out) /\ f \in Encs
  BY DEF Worked
<1>2. f.chans \in Tables /\ f.out \in Seq(Packets) /\ f = [chans |-> f.chans, out |-> f.out]
  BY <1>1, EncFacts
<1>3. PICK t, s : t = f.chans /\ s = f.out /\ f = [chans |-> t, out |-> s]
  BY <1>2
<1>4. PICK R : R = g.chans
  OBVIOUS
<1>5. g \in Encs /\ g.out = s /\ Rewanted(t, id, R, w)
  <2>1. t \in Tables /\ s \in Seq(Packets) /\ id \in DOMAIN t
    BY <1>2, <1>3
  <2>2. g \in Encs /\ g.out = s
    BY <1>3, <1>4, <2>1, WantsFacts
  <2>3. Rewanted(t, id, R, w)
    BY <1>3, <1>4, <2>1, WantsFacts
  <2> QED
    BY <2>2, <2>3
<1>6. Kept(tab, id, g.chans)
  <2>1. /\ DOMAIN t = DOMAIN tab \/ DOMAIN t = DOMAIN tab \ {id}
        /\ \A i \in DOMAIN t \ {id} : t[i] = tab[i]
        /\ t[id].c = tab[id].c /\ t[id].peer = tab[id].peer /\ t[id].confirmed = tab[id].confirmed
    BY <1>1, <1>3 DEF Kept
  <2>2. /\ g.chans \in Tables /\ DOMAIN g.chans = DOMAIN t
        /\ \A i \in DOMAIN t \ {id} : g.chans[i] = t[i]
        /\ g.chans[id].c = t[id].c /\ g.chans[id].peer = t[id].peer
        /\ g.chans[id].confirmed = t[id].confirmed
    BY <1>4, <1>5 DEF Rewanted
  <2> QED
    BY <2>1, <2>2 DEF Kept
<1>7. Worked(tab, id, g)
  BY <1>1, <1>3, <1>4, <1>5, <1>6 DEF Worked
<1>8. /\ g.chans[id].rwin = f.chans[id].rwin /\ g.chans[id].pend = f.chans[id].pend
      /\ g.chans[id].swin = f.chans[id].swin /\ DOMAIN g.chans = DOMAIN f.chans
  BY <1>3, <1>4, <1>5 DEF Rewanted
<1>9. Accounts(tab, id, g, 0, 0, 0)
  BY <1>3, <1>4, <1>5, <1>8 DEF Accounts
<1> QED
  BY <1>3, <1>4, <1>7, <1>9, <1>5

Outcomes == {"success", "failure"}

(* answer *)
LEMMA WorkAnswer ==
  ASSUME NEW tab \in Tables, NEW id, NEW e, e = [chans |-> tab, out |-> <<>>],
         NEW t \in {"success", "failure"}, NEW f, f = answer(e, id, t)
  PROVE  /\ Worked(tab, id, f) /\ Accounts(tab, id, f, 0, 0, 0) /\ OfTypes(f, Outcomes)
         /\ id \in DOMAIN tab =>
              Replies(f.out, tab[id].c) = IF tab[id].wants THEN 1 ELSE 0
<1>1. e.chans = tab /\ e.out = <<>>
  OBVIOUS
<1>2. CASE ~(id \in DOMAIN tab /\ tab[id].wants)
  <2>1. f = e
    BY <1>1, <1>2 DEF answer
  <2>2. /\ Worked(tab, id, f) /\ Accounts(tab, id, f, 0, 0, 0) /\ OfTypes(f, Outcomes) /\ f.out = <<>>
    BY <2>1, WorkNothing
  <2>3. \A d : Replies(<<>>, d) = 0
    BY EmptyTotals
  <2> QED
    BY <1>2, <2>2, <2>3
<1>3. CASE id \in DOMAIN tab /\ tab[id].wants
  <2>1. PICK k \in Nat : k = 0
    OBVIOUS
  <2>2. PICK l : l = "" /\ l \in Labels
    BY DEF Labels
  <2>3. PICK g : g = push(e, t, id, l, k)
    OBVIOUS
  <2>4. /\ Worked(tab, id, g) /\ Accounts(tab, id, g, 0, 0, 0) /\ g.chans = tab
        /\ \A m \in Elems(g.out) : m.t = t
        /\ Replies(g.out, tab[id].c) = 1
    <3>1. t \in {"request", "success", "failure"} /\ t # "request"
      OBVIOUS
    <3>2. id \in DOMAIN tab /\ l \in Labels
      BY <1>3, <2>2
    <3>3. Worked(tab, id, g)
      BY <2>3, <3>1, <3>2, WorkPush
    <3>4. Accounts(tab, id, g, 0, 0, 0)
      BY <2>3, <3>1, <3>2, WorkPush
    <3>5. \A m \in Elems(g.out) : m.t = t
      BY <2>3, <3>1, <3>2, WorkPush
    <3>6. g.chans = tab
      BY <2>3, <3>1, <3>2, WorkPush
    <3>7. Replies(g.out, tab[id].c) = 1
      BY <2>3, <3>1, <3>2, WorkPush
    <3> QED
      BY <3>3, <3>4, <3>5, <3>6, <3>7
  <2>5. f = [g EXCEPT !.chans[id].wants = FALSE]
    BY <1>1, <1>3, <2>1, <2>2, <2>3 DEF answer
  <2>6. Worked(tab, id, f) /\ Accounts(tab, id, f, 0, 0, 0) /\ f.out = g.out
    <3>1. PICK w \in BOOLEAN : w = FALSE
      OBVIOUS
    <3>2. f = [g EXCEPT !.chans[id].wants = w]
      BY <2>5, <3>1
    <3>3. id \in DOMAIN g.chans
      BY <1>3, <2>4
    <3> QED
      BY <1>3, <2>4, <3>2, <3>3, WorkBefore
  <2> QED
    BY <1>3, <2>4, <2>6 DEF OfTypes, Outcomes
<1> QED
  BY <1>2, <1>3

(* A request is read: want_reply is set, and there is no answer yet *)
LEMMA WorkWants ==
  ASSUME NEW tab \in Tables, NEW id, NEW n \in Nat, NEW e, e = [chans |-> tab, out |-> <<>>],
         NEW f, f = SetWantsReply(e, id, n)
  PROVE  /\ Worked(tab, id, f) /\ Accounts(tab, id, f, 0, 0, 0) /\ f.out = <<>>
<1>1. e.chans = tab /\ e.out = <<>>
  OBVIOUS
<1>2. Worked(tab, id, e) /\ Accounts(tab, id, e, 0, 0, 0)
  BY WorkNothing
<1>3. CASE id \notin DOMAIN tab
  BY <1>1, <1>2, <1>3 DEF SetWantsReply
<1>4. CASE id \in DOMAIN tab
  <2>1. PICK w \in BOOLEAN : w = (n = 1)
    OBVIOUS
  <2>2. f = [e EXCEPT !.chans[id].wants = w]
    BY <1>1, <1>4, <2>1 DEF SetWantsReply
  <2> QED
    BY <1>1, <1>2, <1>4, <2>2, WorkBefore
<1> QED
  BY <1>3, <1>4

(* ... or it is answered at once. *)
AnsweredOnce(tab, id, n, f) ==
  /\ Worked(tab, id, f) /\ Accounts(tab, id, f, 0, 0, 0) /\ OfTypes(f, Outcomes)
  /\ id \in DOMAIN tab => Replies(f.out, tab[id].c) = IF n = 1 THEN 1 ELSE 0

LEMMA WorkRequest ==
  ASSUME NEW tab \in Tables, NEW id, NEW n \in Nat, NEW e, e = [chans |-> tab, out |-> <<>>],
         NEW t \in {"success", "failure"}, NEW f, f = answer(SetWantsReply(e, id, n), id, t)
  PROVE  AnsweredOnce(tab, id, n, f)
<1>1. e.chans = tab /\ e.out = <<>>
  OBVIOUS
<1>2. CASE id \notin DOMAIN tab
  <2>1. SetWantsReply(e, id, n) = e
    BY <1>1, <1>2 DEF SetWantsReply
  <2>2. Worked(tab, id, f) /\ Accounts(tab, id, f, 0, 0, 0)
    BY <1>2, <2>1, WorkAnswer
  <2>3. OfTypes(f, Outcomes)
    BY <1>2, <2>1, WorkAnswer
  <2> QED
    BY <1>2, <2>2, <2>3 DEF AnsweredOnce
<1>3. CASE id \in DOMAIN tab
  <2>1. PICK w \in BOOLEAN : w = (n = 1)
    OBVIOUS
  <2>2. PICK g : g = [e EXCEPT !.chans[id].wants = w]
    OBVIOUS
  <2>3. g = SetWantsReply(e, id, n)
    BY <1>1, <1>3, <2>1, <2>2 DEF SetWantsReply
  <2>4. PICK s \in Seq(Packets) : s = <<>>
    <3>1. <<>> \in Seq(Packets)
      OBVIOUS
    <3> QED
      BY <3>1
  <2>5. e = [chans |-> tab, out |-> s]
    BY <2>4
  <2>6. PICK T : T = g.chans
    OBVIOUS
  <2>7. g \in Encs /\ g.out = s /\ Rewanted(tab, id, T, w) /\ T \in Tables /\ DOMAIN T = DOMAIN tab
    <3>1. g \in Encs /\ g.out = s
      BY <1>3, <2>2, <2>5, <2>6, WantsFacts
    <3>2. Rewanted(tab, id, T, w)
      BY <1>3, <2>2, <2>5, <2>6, WantsFacts
    <3> QED
      BY <3>1, <3>2 DEF Rewanted
  <2>8. g = [chans |-> T, out |-> <<>>]
    BY <2>4, <2>6, <2>7, EncFacts
  <2>9. f = answer(g, id, t)
    BY <2>3
  <2>10. /\ Worked(T, id, f) /\ Accounts(T, id, f, 0, 0, 0) /\ OfTypes(f, Outcomes)
         /\ id \in DOMAIN T => Replies(f.out, T[id].c) = IF T[id].wants THEN 1 ELSE 0
    <3>1. T \in Tables
      BY <2>7
    <3>2. Worked(T, id, f) /\ Accounts(T, id, f, 0, 0, 0)
      BY <2>8, <2>9, <3>1, WorkAnswer
    <3>3. OfTypes(f, Outcomes)
      BY <2>8, <2>9, <3>1, WorkAnswer
    <3>4. id \in DOMAIN T => Replies(f.out, T[id].c) = IF T[id].wants THEN 1 ELSE 0
      BY <2>8, <2>9, <3>1, WorkAnswer
    <3> QED
      BY <3>2, <3>3, <3>4
  <2>11. Worked(tab, id, f) /\ Accounts(tab, id, f, 0, 0, 0)
    BY <1>3, <2>7, <2>10, WorkAfter
  <2>12. T[id].c = tab[id].c /\ T[id].wants = w
    BY <2>7 DEF Rewanted
  <2>13. Replies(f.out, tab[id].c) = IF n = 1 THEN 1 ELSE 0
    BY <1>3, <2>1, <2>7, <2>10, <2>12
  <2> QED
    BY <2>10, <2>11, <2>13 DEF AnsweredOnce
<1> QED
  BY <1>2, <1>3

Ends == {"data", "eof", "close"}

LEMMA WorkEof ==
  ASSUME NEW tab \in Tables, NEW id, NEW e, e = [chans |-> tab, out |-> <<>>],
         NEW f, f = eof(e, id)
  PROVE  Worked(tab, id, f) /\ Accounts(tab, id, f, 0, 0, 0) /\ OfTypes(f, Ends)
<1>1. e.chans = tab /\ e.out = <<>>
  OBVIOUS
<1>2. CASE id \notin DOMAIN tab
  <2>1. f = e
    BY <1>1, <1>2 DEF eof, HasPending, byte
  <2> QED
    BY <2>1, WorkNothing
<1>3. CASE id \in DOMAIN tab
  <2>1. Sent(tab, id, e, 0, 0) /\ id \in DOMAIN e.chans
    BY <1>1, <1>3, SentNothing
  <2>2. Sent(tab, id, f, 0, 0)
    BY <1>3, <2>1, SentEof
  <2> QED
    BY <1>3, <2>2, SentIsWork DEF Ends
<1> QED
  BY <1>2, <1>3

LEMMA WorkClose ==
  ASSUME NEW tab \in Tables, NEW id, NEW e, e = [chans |-> tab, out |-> <<>>],
         NEW f, f = close(e, id)
  PROVE  Worked(tab, id, f) /\ Accounts(tab, id, f, 0, 0, 0) /\ OfTypes(f, Ends)
<1>1. e.chans = tab /\ e.out = <<>>
  OBVIOUS
<1>2. CASE id \notin DOMAIN tab
  <2>1. f = [e EXCEPT !.chans = Without(tab, id)]
    BY <1>1, <1>2 DEF close, HasPending, byte
  <2>2. Without(tab, id) = tab
    BY <1>2, TableWithout
  <2>3. f = e
    BY <1>1, <2>1, <2>2
  <2> QED
    BY <2>3, WorkNothing
<1>3. CASE id \in DOMAIN tab
  <2>1. Sent(tab, id, e, 0, 0) /\ id \in DOMAIN e.chans
    BY <1>1, <1>3, SentNothing
  <2>2. Sent(tab, id, f, 0, 0)
    BY <1>3, <2>1, SentClose
  <2> QED
    BY <1>3, <2>2, SentIsWork DEF Ends
<1> QED
  BY <1>2, <1>3

(* With no channel of the id, nothing is accounted for. *)
LEMMA WorkData ==
  ASSUME NEW tab \in Tables, NEW id, NEW e, e = [chans |-> tab, out |-> <<>>], NEW n \in Nat,
         NEW f, f = data(e, id, n)
  PROVE  Worked(tab, id, f) /\ Accounts(tab, id, f, n, 0, 0) /\ OfTypes(f, Ends)
<1>1. e.chans = tab /\ e.out = <<>>
  OBVIOUS
<1>2. CASE id \notin DOMAIN tab
  <2>1. f = e
    BY <1>1, <1>2 DEF data
  <2>2. Worked(tab, id, f) /\ OfTypes(f, Ends)
    BY <2>1, WorkNothing
  <2> QED
    BY <1>2, <2>2 DEF Accounts
<1>3. CASE id \in DOMAIN tab
  <2>1. Sent(tab, id, e, 0, 0) /\ id \in DOMAIN e.chans
    BY <1>1, <1>3, SentNothing
  <2>2. f = data_noqueue(e, id, n)
    BY <1>1, <1>3 DEF data
  <2>3. PICK z \in Nat : z = 0
    OBVIOUS
  <2>4. n = z + n
    BY <2>3
  <2>5. Sent(tab, id, f, n, z)
    BY <1>3, <2>1, <2>2, <2>3, <2>4, SentData
  <2> QED
    BY <1>3, <2>3, <2>5, SentIsWork DEF Ends
<1> QED
  BY <1>2, <1>3

(* No request that wants a reply, and no reply, is among the packets. *)
LEMMA WorkStatus ==
  ASSUME NEW tab \in Tables, NEW id, NEW e, e = [chans |-> tab, out |-> <<>>],
         NEW f, f = exit_status_request(e, id)
  PROVE  /\ Worked(tab, id, f) /\ Accounts(tab, id, f, 0, 0, 0)
         /\ \A m \in Elems(f.out) : m.t = "request" /\ m.n = 0
         /\ id \in DOMAIN tab =>
              Total(f.out, tab[id].c, "request") = 0 /\ Replies(f.out, tab[id].c) = 0
         /\ id \notin DOMAIN tab => f.out = <<>>
<1>1. e.chans = tab /\ e.out = <<>>
  OBVIOUS
<1>2. CASE id \notin DOMAIN tab
  <2>1. f = e
    BY <1>1, <1>2 DEF exit_status_request
  <2> QED
    BY <1>1, <1>2, <2>1, WorkNothing, ElemsEmpty
<1>3. CASE id \in DOMAIN tab
  <2>1. PICK z \in Nat : z = 0
    OBVIOUS
  <2>2. PICK k : k = "exit-status" /\ k \in Labels
    BY DEF Labels
  <2>3. PICK t \in {"request", "success", "failure"} : t = "request"
    OBVIOUS
  <2>4. f = push(e, t, id, k, z)
    <3>1. f = push(e, "request", id, "exit-status", 0)
      BY <1>1, <1>3 DEF exit_status_request
    <3> QED
      BY <2>1, <2>2, <2>3, <3>1
  <2>5. Worked(tab, id, f)
    BY <1>3, <2>2, <2>4, WorkPush
  <2>6. Accounts(tab, id, f, 0, 0, 0)
    BY <1>3, <2>2, <2>4, WorkPush
  <2>7. \A m \in Elems(f.out) : m.t = t /\ m.n = z
    BY <1>3, <2>2, <2>4, WorkPush
  <2>8. Total(f.out, tab[id].c, t) = z
    BY <1>3, <2>2, <2>4, WorkPush
  <2>9. Replies(f.out, tab[id].c) = 0
    BY <1>3, <2>2, <2>3, <2>4, WorkPush
  <2> QED
    BY <1>3, <2>1, <2>3, <2>5, <2>6, <2>7, <2>8, <2>9
<1> QED
  BY <1>2, <1>3

(* What the session makes of message m of its application. *)
HandledRight(tab, id, m, e) ==
  /\ Worked(tab, id, e) /\ Accounts(tab, id, e, Amount(m, m.c, "data"), 0, 0)
  /\ \A x \in Elems(e.out) : GoodAsk(x)
  /\ id \in DOMAIN tab => Total(e.out, tab[id].c, "request") = 0
  /\ id \in DOMAIN tab /\ m.t \notin {"success", "failure"} => Replies(e.out, tab[id].c) = 0

LEMMA HandledFacts ==
  ASSUME NEW p \in Peers, chans[p] \in Tables, NEW m \in Requests, m.t \notin {"open", "request"},
         NEW id, NEW e, e = Handled(p, m, id)
  PROVE  HandledRight(chans[p], id, m, e)
<1>1. PICK tab \in Tables : tab = chans[p]
  OBVIOUS
<1>2. PICK b : tab = chans[p] /\ b = [chans |-> tab, out |-> <<>>] /\ b = Enc(p)
  BY <1>1 DEF Enc
<1>3. m.n \in Nat /\ m.t \in {"data", "eof", "close", "exit-status", "success", "failure"}
  BY DEF Requests
<1>4. Amount(m, m.c, "data") = IF m.t = "data" THEN m.n ELSE 0
  BY DEF Amount
<1>5. ASSUME m.t \in Ends,
             Worked(tab, id, e), OfTypes(e, Ends),
             Accounts(tab, id, e, Amount(m, m.c, "data"), 0, 0)
      PROVE  HandledRight(tab, id, m, e)
  <2>1. e.out \in Seq(Packets)
    BY <1>5, EncFacts DEF Worked
  <2>2. \A x \in Elems(e.out) : x.t \in Ends
    BY <1>5 DEF OfTypes
  <2>3. "request" \notin Ends /\ "success" \notin Ends /\ "failure" \notin Ends
    BY DEF Ends
  <2>4. \A d : Total(e.out, d, "request") = 0
    BY <2>1, <2>2, <2>3, NoTotal
  <2>5. \A d : Replies(e.out, d) = 0
    BY <2>1, <2>2, <2>3, NoTotal
  <2>6. \A x \in Elems(e.out) : GoodAsk(x)
    BY <2>2, <2>3 DEF GoodAsk
  <2> QED
    BY <1>5, <2>4, <2>5, <2>6 DEF HandledRight
<1>6. CASE m.t = "data"
  <2>1. e = data(b, id, m.n)
    BY <1>2, <1>6 DEF Handled
  <2>2. Worked(tab, id, e) /\ OfTypes(e, Ends) /\ Accounts(tab, id, e, m.n, 0, 0)
    BY <1>2, <1>3, <2>1, WorkData
  <2> QED
    BY <1>2, <1>4, <1>5, <1>6, <2>2 DEF Ends
<1>7. CASE m.t = "eof"
  <2>1. e = eof(b, id)
    BY <1>2, <1>7 DEF Handled
  <2>2. Worked(tab, id, e) /\ OfTypes(e, Ends) /\ Accounts(tab, id, e, 0, 0, 0)
    BY <1>2, <2>1, WorkEof
  <2> QED
    BY <1>2, <1>4, <1>5, <1>7, <2>2 DEF Ends
<1>8. CASE m.t = "close"
  <2>1. e = close(b, id)
    BY <1>2, <1>8 DEF Handled
  <2>2. Worked(tab, id, e) /\ OfTypes(e, Ends) /\ Accounts(tab, id, e, 0, 0, 0)
    BY <1>2, <2>1, WorkClose
  <2> QED
    BY <1>2, <1>4, <1>5, <1>8, <2>2 DEF Ends
<1>9. CASE m.t = "exit-status"
  <2>1. e = exit_status_request(b, id)
    BY <1>2, <1>9 DEF Handled
  <2>2. /\ Worked(tab, id, e) /\ Accounts(tab, id, e, 0, 0, 0)
        /\ \A x \in Elems(e.out) : x.t = "request" /\ x.n = 0
        /\ id \in DOMAIN tab =>
              Total(e.out, tab[id].c, "request") = 0 /\ Replies(e.out, tab[id].c) = 0
    BY <1>2, <2>1, WorkStatus
  <2>3. \A x \in Elems(e.out) : GoodAsk(x)
    BY <2>2 DEF GoodAsk
  <2> QED
    BY <1>2, <1>4, <1>9, <2>2, <2>3 DEF HandledRight
<1>10. CASE m.t \in {"success", "failure"}
  <2>1. e = answer(b, id, m.t)
    BY <1>2, <1>10 DEF Handled
  <2>2. /\ Worked(tab, id, e) /\ Accounts(tab, id, e, 0, 0, 0)
        /\ OfTypes(e, Outcomes)
    BY <1>2, <1>10, <2>1, WorkAnswer
  <2>3. PICK S : S = {"success", "failure"}
    OBVIOUS
  <2>4. "request" \notin S
    BY <2>3
  <2>5. \A x \in Elems(e.out) : x.t \in S
    BY <2>3, <2>2 DEF OfTypes, Outcomes
  <2>6. e.out \in Seq(Packets)
    BY <2>2, EncFacts DEF Worked
  <2>7. \A d : Total(e.out, d, "request") = 0
    BY <2>4, <2>5, <2>6, NoTotal
  <2>8. \A x \in Elems(e.out) : GoodAsk(x)
    BY <2>3, <2>5 DEF GoodAsk
  <2> QED
    BY <1>2, <1>4, <1>10, <2>2, <2>7, <2>8 DEF HandledRight
<1> QED
  BY <1>3, <1>6, <1>7, <1>8, <1>9, <1>10

-----------------------------------------------------------------------------
(* The session takes a message of its application. *)

LEMMA SendEffect ==
  ASSUME QueueTypes, InboxTypes, NEW p \in Peers, NEW e \in Encs, Live(p), inbox[p] # <<>>,
         Send(p, e), buf' = buf, blocked' = blocked
  PROVE  /\ QueueTypes' /\ InboxTypes'
         /\ Line(p)' = Line(p) /\ Line(Other(p))' = Line(Other(p)) \o e.out
         /\ inbox' = [inbox EXCEPT ![p] = Tail(inbox[p])]
         /\ chans' = [chans EXCEPT ![p] = e.chans]
<1>1. PICK o \in Peers : o = Other(p) /\ o # p /\ Other(o) = p
  BY PeerFacts
<1>2. PICK out \in Seq(Packets) : out = e.out
  BY EncFacts
<1>3. net \in [Peers -> Seq(Packets)] /\ closing \in [Conv -> SUBSET Peers]
  BY DEF QueueTypes
<1>4. net' = [net EXCEPT ![o] = net[o] \o out] /\ NoteCloses(p, out)
  BY <1>1, <1>2 DEF Send
<1>5. net[o] \o out \in Seq(Packets)
  BY <1>3, ConcatProperties
<1>6. net' \in [Peers -> Seq(Packets)] /\ net'[o] = net[o] \o out /\ net'[p] = net[p]
  BY <1>1, <1>3, <1>4, <1>5
<1>7. closing' \in [Conv -> SUBSET Peers]
  BY <1>3, <1>4, ClosesTyped
<1>8. QueueTypes'
  BY <1>6, <1>7 DEF QueueTypes
<1>9. \A q \in Peers : Held(q)' = Held(q)
  BY DEF Held
<1>10. Held(p) = <<>>
  BY DEF Held, Live
<1>11. Line(p)' = Line(p)
  BY <1>1, <1>6, <1>9 DEF Line
<1>12. Line(o)' = Line(o) \o out
  <2>1. Line(o) = net[o] \o <<>> /\ Line(o)' = (net[o] \o out) \o <<>>
    BY <1>1, <1>6, <1>9, <1>10 DEF Line
  <2>2. Line(o) = net[o]
    BY <1>3, <2>1, ConcatEmptySeq
  <2>3. Line(o)' = net[o] \o out
    BY <1>5, <2>1, ConcatEmptySeq
  <2> QED
    BY <2>2, <2>3
<1>13. InboxTypes' /\ inbox' = [inbox EXCEPT ![p] = Tail(inbox[p])]
  <2>1. inbox \in [Peers -> Seq(Requests)] /\ inbox' = [inbox EXCEPT ![p] = Tail(inbox[p])]
    BY DEF InboxTypes, Send
  <2>2. Tail(inbox[p]) \in Seq(Requests) /\ Len(Tail(inbox[p])) = Len(inbox[p]) - 1
    BY <2>1, HeadTailProperties
  <2>3. inbox' \in [Peers -> Seq(Requests)]
    BY <2>1, <2>2
  <2>4. Len(inbox[p]) <= Inbox /\ Len(inbox[p]) \in Nat /\ Inbox \in Nat
    BY <2>1, ChannelTableAssumption DEF InboxTypes
  <2>5. Len(Tail(inbox[p])) <= Inbox
    BY <2>2, <2>4
  <2>6. \A q \in Peers : Len(inbox'[q]) <= Inbox
    BY <2>1, <2>5 DEF InboxTypes
  <2> QED
    BY <2>1, <2>3, <2>6 DEF InboxTypes
<1> QED
  BY <1>1, <1>2, <1>8, <1>11, <1>12, <1>13 DEF Send

(* The message's channel is confirmed, if it is there. *)
LEMMA TakeWorks ==
  ASSUME Rule, NEW p \in Peers, Live(p), inbox[p] # <<>>, NEW m, m = Head(inbox[p]), m.t # "open",
         NEW e, Worked(chans[p], idof[p][m.c], e), Send(p, e), buf' = buf, blocked' = blocked,
         idof' = idof, last' = last, refs' = refs, end' = end, setup' = setup, owed' = owed
  PROVE  /\ m \in Requests /\ m.c \in Conv /\ GoodRequest(p, m)
         /\ Works(p, m.c, e) /\ Took(p, m.c) /\ Gives(p, m.c, 0, 0)
         /\ IdTypes' /\ QueueTypes' /\ InboxTypes'
         /\ NotesMove /\ OwedMoves /\ InboxTaken(p, m.c, Amount(m, m.c, "data"))
         /\ \A x \in Elems(Held("client")') : x \in Elems(Held("client"))
<1>1. IdTypes /\ QueueTypes /\ InboxTypes /\ CoreInv /\ AppInv
  BY DEF Rule, Types
<1>2. inbox[p] \in Seq(Requests)
  BY <1>1 DEF InboxTypes
<1>3. m \in Requests /\ m \in Elems(inbox[p])
  BY <1>2, HeadTailProperties, ElemsTail
<1>4. m.c \in Conv
  BY <1>3 DEF Requests
<1>5. GoodRequest(p, m)
  BY <1>1, <1>3 DEF AppInv, InboxInv
<1>6. Settled(p, m.c)
  BY <1>5 DEF GoodRequest
<1>7. e \in Encs
  BY DEF Worked
<1>8. /\ QueueTypes' /\ InboxTypes'
      /\ Line(p)' = Line(p) /\ Line(Other(p))' = Line(Other(p)) \o e.out
      /\ inbox' = [inbox EXCEPT ![p] = Tail(inbox[p])]
      /\ chans' = [chans EXCEPT ![p] = e.chans]
  BY <1>1, <1>7, SendEffect
<1>9. Works(p, m.c, e)
  BY <1>6, <1>7, <1>8 DEF Works, Settled
<1>10. Took(p, m.c) /\ Gives(p, m.c, 0, 0)
  BY <1>6, <1>8 DEF Gives, Took, Settled
<1>11. IdTypes'
  BY <1>1, <1>4, <1>9, WorkIds DEF IdTypes
<1>12. NotesMove
  BY DEF NotesMove, InNotes, Elems
<1>13. OwedMoves
  BY DEF OwedMoves
<1>14. InboxTaken(p, m.c, Amount(m, m.c, "data"))
  BY <1>8 DEF InboxTaken
<1>15. Held("client")' = Held("client")
  BY DEF Held
<1> QED
  BY <1>3, <1>4, <1>5, <1>8, <1>9, <1>10, <1>11, <1>12, <1>13, <1>14, <1>15

(* The totals of packets that are all of one conversation *)
LEMMA OthersNone ==
  ASSUME NEW s \in Seq(Packets), NEW c, \A m \in Elems(s) : m.c = c, NEW d, d # c
  PROVE  (\A t : Total(s, d, t) = 0) /\ Replies(s, d) = 0
<1>1. \A m \in Elems(s) : m.c # d
  OBVIOUS
<1>2. ASSUME NEW t PROVE Total(s, d, t) = 0
  BY <1>1, PacketTotals
<1>3. Replies(s, d) = 0
  BY <1>1, RepliesFacts
<1> QED
  BY <1>2, <1>3

(* ... as those of a step's answer are, and none without a channel. *)
LEMMA WorkedOuts ==
  ASSUME IdTypes, CoreInv, NEW p \in Peers, NEW c \in Conv, NEW e, Works(p, c, e)
  PROVE  /\ e.out \in Seq(Packets) /\ \A m \in Elems(e.out) : m.c = c
         /\ Has(p, c) => idof[p][c] \in DOMAIN chans[p] /\ chans[p][idof[p][c]].c = c
         /\ ~Has(p, c) => idof[p][c] \notin DOMAIN chans[p] /\ e.out = <<>>
<1>1. Spares(p, c, e)
  BY WorkSpares
<1>2. Has(p, c) => idof[p][c] \in DOMAIN chans[p] /\ chans[p][idof[p][c]].c = c
  BY HasFacts DEF CoreInv, Has, Ch
<1>3. ~Has(p, c) => idof[p][c] \notin DOMAIN chans[p] /\ e.out = <<>>
  BY DEF Has, Works, Worked
<1> QED
  BY <1>1, <1>2, <1>3 DEF Spares

LEMMA TakesMsgStep ==
  ASSUME Rule, NEW p \in Peers, TakesChannelMsg(p)
  PROVE  Rule'
<1>1. PICK m : m = Head(inbox[p])
  OBVIOUS
<1>2. PICK id : id = idof[p][m.c]
  OBVIOUS
<1>3. PICK e : e = Handled(p, m, id)
  OBVIOUS
<1>4. /\ Live(p) /\ inbox[p] # <<>> /\ m.t \notin {"open", "request"} /\ Send(p, e)
      /\ buf' = buf /\ blocked' = blocked /\ idof' = idof /\ last' = last /\ refs' = refs
      /\ end' = end /\ setup' = setup /\ owed' = owed /\ done' = done /\ failed' = failed
      /\ asked' = asked /\ replied' = replied
  BY <1>1, <1>2, <1>3 DEF TakesChannelMsg
<1>5. IdTypes /\ QueueTypes /\ InboxTypes /\ AppTypes /\ CoreInv /\ SessionSurvives
  BY DEF Rule, Types
<1>6. m \in Requests
  BY <1>1, <1>4, <1>5, HeadTailProperties DEF InboxTypes
<1>7. HandledRight(chans[p], id, m, e)
  BY <1>3, <1>4, <1>5, <1>6, HandledFacts DEF IdTypes
<1>8. Worked(chans[p], idof[p][m.c], e)
  BY <1>2, <1>7 DEF HandledRight
<1>9. /\ m.c \in Conv /\ GoodRequest(p, m)
      /\ Works(p, m.c, e) /\ Took(p, m.c) /\ Gives(p, m.c, 0, 0) /\ IdTypes' /\ QueueTypes' /\ InboxTypes'
      /\ NotesMove /\ OwedMoves /\ InboxTaken(p, m.c, Amount(m, m.c, "data"))
      /\ \A x \in Elems(Held("client")') : x \in Elems(Held("client"))
  BY <1>1, <1>4, <1>8, TakeWorks
<1>10. AppTypes' /\ Types'
  BY <1>4, <1>5, <1>9 DEF AppTypes, Types
<1>11. PICK c \in Conv : c = m.c
  BY <1>9
<1>12. e.out \in Seq(Packets) /\ \A x \in Elems(e.out) : x.c = c
  BY <1>5, <1>9, <1>11, WorkedOuts
<1>13. \A d : Total(<<>>, d, "request") = 0 /\ Replies(<<>>, d) = 0
  BY EmptyTotals
<1>14. \A d : Total(e.out, d, "request") = 0
  <2>1. Total(e.out, c, "request") = 0
    <3>1. CASE Has(p, c)
      <4>1. id \in DOMAIN chans[p] /\ chans[p][id].c = c
        BY <1>2, <1>5, <1>9, <1>11, <3>1, WorkedOuts
      <4> QED
        BY <1>7, <4>1 DEF HandledRight
    <3>2. CASE ~Has(p, c)
      <4>1. e.out = <<>>
        BY <1>5, <1>9, <1>11, <3>2, WorkedOuts
      <4> QED
        BY <1>13, <4>1
    <3> QED
      BY <3>1, <3>2
  <2> QED
    BY <1>12, <2>1, OthersNone
<1>15. ReplyMoves
  <2>1. CASE p = "client"
    <3>1. \A d \in Conv : /\ Total(e.out, d, "request") = 0 /\ asked[d] \in Nat
                          /\ asked'[d] = asked[d] /\ replied'[d] = replied[d]
      BY <1>4, <1>5, <1>14 DEF AppTypes
    <3>2. \A d \in Conv : asked'[d] = asked[d] + Total(e.out, d, "request")
      BY <3>1
    <3>3. Line("client")' = Line("client") /\ \A d \in Conv : Replies(Line("client"), d) \in Nat
      BY <1>5, <1>9, <2>1, LineTotal DEF Took
    <3>4. \A x \in Elems(e.out) : GoodAsk(x)
      BY <1>7 DEF HandledRight
    <3>5. Works("client", c, e)
      BY <1>9, <1>11, <2>1
    <3> QED
      BY <1>4, <1>5, <1>9, <1>10, <3>1, <3>2, <3>3, <3>4, <3>5, ClientReplies
  <2>2. CASE p = "server"
    <3>1. Works("server", c, e) /\ Took("server", c)
      BY <1>9, <1>11, <2>2
    <3>2. ASSUME setup.prompt, Has("server", c)'
          PROVE  Replies(e.out, c) + Total(Line("server")', c, "request")
                   = Total(Line("server"), c, "request")
      <4>1. m.t \notin {"success", "failure"}
        BY <1>9, <2>2, <3>2 DEF GoodRequest
      <4>2. Replies(e.out, c) = 0
        <5>1. CASE Has(p, c)
          <6>1. id \in DOMAIN chans[p] /\ chans[p][id].c = c
            BY <1>2, <1>5, <1>9, <1>11, <5>1, WorkedOuts
          <6> QED
            BY <1>7, <4>1, <6>1 DEF HandledRight
        <5>2. CASE ~Has(p, c)
          <6>1. e.out = <<>>
            BY <1>5, <1>9, <1>11, <5>2, WorkedOuts
          <6> QED
            BY <1>13, <6>1
        <5> QED
          BY <5>1, <5>2
      <4>3. Line("server")' = Line("server") /\ Total(Line("server"), c, "request") \in Nat
        BY <1>5, <2>2, <3>1, LineTotal DEF Took
      <4> QED
        BY <4>2, <4>3
    <3> QED
      BY <1>4, <1>5, <1>9, <3>1, <3>2, ServerReplies
  <2> QED
    BY <2>1, <2>2 DEF Peers
<1>16. Amount(m, m.c, "data") \in Nat
  BY <1>6 DEF Amount, Requests
<1>17. Accounts(chans[p], idof[p][c], e, Amount(m, m.c, "data"), 0, 0)
  BY <1>2, <1>7, <1>11 DEF HandledRight
<1>18. SessionSurvives'
  BY <1>4, <1>5 DEF SessionSurvives
<1> QED
  BY <1>4, <1>9, <1>10, <1>11, <1>15, <1>16, <1>17, <1>18, WorkStep

LEMMA TakesRequestStep ==
  ASSUME Rule, ClientTakesRequest
  PROVE  Rule'
<1>1. PICK p \in Peers : p = "client" /\ Other(p) = "server"
  BY DEF Peers, Other
<1>2. PICK m : m = Head(inbox[p])
  OBVIOUS
<1>3. PICK id : id = idof[p][m.c]
  OBVIOUS
<1>4. PICK b : b = Enc(p) /\ b = [chans |-> chans[p], out |-> <<>>]
  BY DEF Enc
<1>5. PICK e : e = IF id \in DOMAIN chans[p] THEN push(b, "request", id, m.k, m.n) ELSE b
  OBVIOUS
<1>6. /\ Live(p) /\ inbox[p] # <<>> /\ m.t = "request" /\ Send(p, e)
      /\ asked' = [asked EXCEPT ![m.c] = IF id \in DOMAIN chans[p] THEN asked[m.c] + m.n ELSE asked[m.c]]
      /\ buf' = buf /\ blocked' = blocked /\ idof' = idof /\ last' = last /\ refs' = refs
      /\ end' = end /\ setup' = setup /\ owed' = owed /\ done' = done /\ failed' = failed
      /\ replied' = replied
  BY <1>1, <1>2, <1>3, <1>4, <1>5 DEF ClientTakesRequest, Takes
<1>7. IdTypes /\ QueueTypes /\ InboxTypes /\ AppTypes /\ CoreInv /\ SessionSurvives
  BY DEF Rule, Types
<1>8. m \in Requests
  BY <1>2, <1>6, <1>7, HeadTailProperties DEF InboxTypes
<1>9. m.n \in Nat /\ m.k \in Labels /\ m.c \in Conv
  BY <1>8 DEF Requests
<1>10. PICK tab \in Tables : tab = chans[p]
  BY <1>7 DEF IdTypes
<1>11. PICK t \in {"request", "success", "failure"} : t = "request"
  OBVIOUS
<1>12. /\ Worked(tab, id, e) /\ Accounts(tab, id, e, 0, 0, 0)
       /\ \A x \in Elems(e.out) : x.t = "request" /\ x.n = m.n /\ x.k = m.k
       /\ id \in DOMAIN tab => Total(e.out, tab[id].c, "request") = m.n
  <2>1. CASE id \notin DOMAIN tab
    <3>1. e = b
      BY <1>5, <1>10, <2>1
    <3>2. Worked(tab, id, e) /\ Accounts(tab, id, e, 0, 0, 0) /\ e.out = <<>>
      BY <1>4, <1>10, <3>1, WorkNothing
    <3> QED
      BY <2>1, <3>2, ElemsEmpty
  <2>2. CASE id \in DOMAIN tab
    <3>1. e = push(b, t, id, m.k, m.n) /\ b = [chans |-> tab, out |-> <<>>]
      BY <1>4, <1>5, <1>10, <1>11, <2>2
    <3>2. Worked(tab, id, e)
      BY <1>9, <2>2, <3>1, WorkPush
    <3>3. Accounts(tab, id, e, 0, 0, 0)
      BY <1>9, <2>2, <3>1, WorkPush
    <3>4. \A x \in Elems(e.out) : x.t = t /\ x.n = m.n /\ x.k = m.k
      BY <1>9, <2>2, <3>1, WorkPush
    <3>5. Total(e.out, tab[id].c, t) = m.n
      BY <1>9, <2>2, <3>1, WorkPush
    <3> QED
      BY <1>11, <3>2, <3>3, <3>4, <3>5
  <2> QED
    BY <2>1, <2>2
<1>13. Worked(chans[p], idof[p][m.c], e)
  BY <1>3, <1>12, <1>10
<1>14. /\ m.c \in Conv /\ GoodRequest(p, m)
       /\ Works(p, m.c, e) /\ Took(p, m.c) /\ Gives(p, m.c, 0, 0) /\ IdTypes' /\ QueueTypes' /\ InboxTypes'
       /\ NotesMove /\ OwedMoves /\ InboxTaken(p, m.c, Amount(m, m.c, "data"))
       /\ \A x \in Elems(Held("client")') : x \in Elems(Held("client"))
  BY <1>2, <1>6, <1>13, TakeWorks
<1>15. PICK c \in Conv : c = m.c
  BY <1>14
<1>16. e.out \in Seq(Packets) /\ \A x \in Elems(e.out) : x.c = c
  BY <1>7, <1>14, <1>15, WorkedOuts
<1>17. \A d : Total(<<>>, d, "request") = 0
  BY EmptyTotals
<1>18. \A d \in Conv : asked'[d] \in Nat /\ asked'[d] = asked[d] + Total(e.out, d, "request")
  <2>1. \A d \in Conv : asked[d] \in Nat
    BY <1>7 DEF AppTypes
  <2>2. CASE id \in DOMAIN tab
    <3>1. tab[id].c = c
      <4>1. Has(p, c)
        BY <1>3, <1>15, <1>10, <2>2 DEF Has
      <4> QED
        BY <1>3, <1>7, <1>14, <1>15, <1>10, <4>1, WorkedOuts
    <3>2. Total(e.out, c, "request") = m.n
      BY <1>12, <2>2, <3>1
    <3>3. \A d : d # c => Total(e.out, d, "request") = 0
      BY <1>16, OthersNone
    <3>4. asked'[c] = asked[c] + m.n /\ \A d \in Conv : d # c => asked'[d] = asked[d]
      BY <1>6, <1>7, <1>15, <1>10, <2>2 DEF AppTypes
    <3>5. ASSUME NEW d \in Conv PROVE asked'[d] \in Nat /\ asked'[d] = asked[d] + Total(e.out, d, "request")
      BY <1>9, <2>1, <3>2, <3>3, <3>4
    <3> QED
      BY <3>5
  <2>3. CASE id \notin DOMAIN tab
    <3>1. \A d \in Conv : asked'[d] = asked[d]
      BY <1>6, <1>7, <1>10, <2>3 DEF AppTypes
    <3>2. e.out = <<>>
      BY <1>12, <2>3 DEF Worked
    <3>3. ASSUME NEW d \in Conv PROVE asked'[d] \in Nat /\ asked'[d] = asked[d] + Total(e.out, d, "request")
      BY <1>17, <2>1, <3>1, <3>2
    <3> QED
      BY <3>3
  <2> QED
    BY <2>2, <2>3
<1>19. AppTypes' /\ Types'
  <2>1. asked' \in [Conv -> Nat]
    <3>1. DOMAIN asked' = Conv /\ asked' = [d \in Conv |-> asked'[d]]
      BY <1>6, <1>7 DEF AppTypes
    <3> QED
      BY <1>18, <3>1
  <2> QED
    BY <1>6, <1>7, <1>14, <2>1 DEF AppTypes, Types
<1>20. ASSUME NEW d \in Conv, ~Known("server", d) PROVE asked'[d] = asked[d]
  <2>1. SUFFICES ASSUME asked'[d] # asked[d] PROVE FALSE
    OBVIOUS
  <2>2. d = c /\ id \in DOMAIN chans[p]
    BY <1>6, <1>7, <1>15, <2>1 DEF AppTypes
  <2>3. Has(p, c) /\ Ch(p, c).confirmed
    BY <1>3, <1>14, <1>15, <2>2 DEF Has, Took
  <2>4. Known("server", c)
    BY <1>1, <1>7, <2>3 DEF CoreInv, PeerInv
  <2> QED
    BY <1>20, <2>2, <2>4
<1>21. ReplyMoves
  <2>1. Line("client")' = Line("client") /\ \A d \in Conv : Replies(Line("client"), d) \in Nat
    BY <1>1, <1>7, <1>14, LineTotal DEF Took
  <2>2. \A x \in Elems(e.out) : GoodAsk(x)
    BY <1>6, <1>12, <1>14 DEF GoodAsk, GoodRequest
  <2>3. Works("client", c, e)
    BY <1>1, <1>14, <1>15
  <2> QED
    BY <1>6, <1>7, <1>14, <1>19, <1>18, <1>20, <2>1, <2>2, <2>3, ClientReplies
<1>22. Accounts(chans[p], idof[p][c], e, 0, 0, 0) /\ Amount(m, m.c, "data") = 0
  BY <1>3, <1>6, <1>12, <1>15, <1>10 DEF Amount
<1>23. SessionSurvives'
  BY <1>6, <1>7 DEF SessionSurvives
<1> QED
  BY <1>6, <1>14, <1>19, <1>15, <1>21, <1>22, <1>23, WorkStep

-----------------------------------------------------------------------------
(* The session reads a message. *)

RefsStay ==
  /\ refs' \in [Peers -> RefTables]
  /\ \A q \in Peers : \A i \in DOMAIN refs'[q] : i \in DOMAIN refs[q] /\ refs'[q][i] = refs[q][i]

LEMMA ReadFacts ==
  ASSUME Rule, NEW p \in Peers, NEW m, m = Head(net[p]), NEW e, Answers(p, e)
  PROVE  /\ m = Head(Line(p)) /\ m \in Packets /\ m.c \in Conv /\ m \in Elems(Line(p))
         /\ GoodPacket(p, m) /\ (m.t # "open" => m.id = idof[p][m.c] /\ Known(p, m.c))
<1>1. QueueTypes /\ CoreInv
  BY DEF Rule, Types
<1>2. m = Head(Line(p)) /\ Line(p) # <<>> /\ m \in Packets
  BY DEF Answers
<1>3. m \in Elems(Line(p))
  BY <1>1, <1>2, LineTyped, ElemsTail
<1>4. GoodPacket(p, m)
  BY <1>1, <1>3 DEF CoreInv, LineInv
<1> QED
  BY <1>2, <1>3, <1>4, PacketsFacts DEF GoodPacket

(* A note goes to the conversation of its message. *)
LEMMA NotedRight ==
  ASSUME Rule, NEW p \in Peers, NEW m, m.c \in Conv, m.id = idof[p][m.c], Known(p, m.c),
         NEW t, Noted(p, m, t), t = "Open" => Settled(p, m.c)'
  PROVE  NotesMove
<1>1. OwnInv /\ refs \in [Peers -> RefTables]
  BY DEF Rule, Types, IdTypes, CoreInv
<1>2. ASSUME m.id \in DOMAIN refs[p] PROVE refs[p][m.id] = m.c
  <2>1. refs[p][m.id] \in Conv
    BY <1>1, <1>2, RefTableFacts
  <2>2. idof[p][refs[p][m.id]] = m.id
    BY <1>1, <1>2 DEF OwnInv
  <2> QED
    BY <1>1, <2>1, <2>2 DEF OwnInv
<1>3. ASSUME NEW q \in Peers, NEW d \in Conv, NEW x, InNotes(q, d, x)', ~InNotes(q, d, x)
      PROVE  x.c = d /\ (x.t = "Open" => Settled(q, d)')
  <2>1. q = p /\ m.id \in DOMAIN refs[p] /\ d = refs[p][m.id] /\ x = [t |-> t, c |-> m.c]
    BY <1>3 DEF Noted
  <2>2. q = p /\ d = m.c
    BY <1>2, <2>1
  <2>3. x.c = m.c /\ x.t = t
    BY <2>1
  <2> QED
    BY <2>2, <2>3
<1> QED
  BY <1>3 DEF NotesMove

LEMMA ReadWorks ==
  ASSUME Rule, NEW p \in Peers, NEW m, m = Head(net[p]), m.t \in Ordinary \cup {"open-failure"},
         NEW e, Answers(p, e), Worked(chans[p], m.id, e),
         m.t = "open-failure" => m.id \notin DOMAIN e.chans /\ e.out = <<>>,
         idof' = idof, last' = last, RefsStay
  PROVE  /\ Works(p, m.c, e) /\ Got(p, m.c)
         /\ Gives(p, m.c, Amount(m, m.c, "adjust"), Amount(m, m.c, "data")) /\ IdTypes' /\ QueueTypes'
<1>1. IdTypes /\ QueueTypes /\ CoreInv
  BY DEF Rule, Types
<1>2. /\ m = Head(Line(p)) /\ m \in Packets /\ m.c \in Conv
      /\ GoodPacket(p, m) /\ (m.t # "open" => m.id = idof[p][m.c] /\ Known(p, m.c))
  BY ReadFacts
<1>3. m.id = idof[p][m.c]
  BY <1>2 DEF Ordinary
<1>4. /\ chans' = [chans EXCEPT ![p] = e.chans] /\ Line(p) # <<>>
      /\ Line(p)' = Tail(Line(p)) /\ Line(Other(p))' = Line(Other(p)) \o e.out /\ QueueTypes'
  BY DEF Answers
<1>5. e \in Encs
  BY DEF Worked
<1>6. chans'[p] = e.chans
  BY <1>1, <1>4 DEF IdTypes
<1>7. m.t = "open-failure" => ~Has(p, m.c)'
  BY <1>3, <1>6 DEF Has
<1>8. m.t # "open-failure" /\ Has(p, m.c) => Ch(p, m.c).confirmed
  BY <1>1, <1>2, <1>4, GotConfirmed
<1>9. Works(p, m.c, e)
  BY <1>3, <1>4, <1>5, <1>7, <1>8 DEF Works, RefsStay
<1>10. Got(p, m.c)
  BY <1>2, <1>4, <1>7 DEF Got
<1>11. Gives(p, m.c, Amount(m, m.c, "adjust"), Amount(m, m.c, "data"))
  BY <1>2, <1>10 DEF Gives
<1>12. IdTypes'
  BY <1>1, <1>2, <1>9, WorkIds DEF RefsStay
<1> QED
  BY <1>4, <1>9, <1>10, <1>11, <1>12

(* The replies that the step reads are counted, and the server's step sends  *)
(* as many as it has read requests that want one.                            *)
CountsReplies(p, m, e) ==
  /\ p = "client" => \A d \in Conv : replied'[d] = replied[d] + One(m, d)
  /\ p = "server" =>
       /\ replied' = replied
       /\ setup.prompt /\ m.id \in DOMAIN chans[p] => Replies(e.out, m.c) = Amount(m, m.c, "request")

LEMMA ReadReplies ==
  ASSUME Rule, NEW p \in Peers, NEW m, m = Head(net[p]), m.t # "open", NEW e, Answers(p, e),
         Works(p, m.c, e), Got(p, m.c), \A x \in Elems(e.out) : x.t # "request",
         setup' = setup, asked' = asked, CountsReplies(p, m, e), AppTypes'
  PROVE  ReplyMoves
<1>1. IdTypes /\ QueueTypes /\ CoreInv /\ AppTypes
  BY DEF Rule, Types
<1>2. /\ m = Head(Line(p)) /\ m \in Packets /\ m.c \in Conv
      /\ GoodPacket(p, m) /\ m.id = idof[p][m.c] /\ Known(p, m.c)
  BY ReadFacts
<1>3. PICK c \in Conv : c = m.c
  BY <1>2
<1>4. Line(p) # <<>> /\ Line(p)' = Tail(Line(p))
  BY DEF Got
<1>5. e.out \in Seq(Packets)
  BY <1>1, <1>2, WorkedOuts
<1>6. \A d : Total(e.out, d, "request") = 0
  BY <1>5, PacketTotals
<1>7. \A x \in Elems(Held("client")') : x \in Elems(Held("client")) \/ x.t # "request"
  <2>1. "client" \in Peers /\ Elems(Held("client")') = Elems(Held("client"))'
    BY DEF Peers, Elems
  <2>2. \A x \in Elems(Held("client"))' :
          x \in Elems(Held("client")) \/ ("client" = p /\ x \in Elems(e.out))
    BY <2>1 DEF Answers
  <2> QED
    BY <2>1, <2>2
<1>8. CASE p = "client"
  <2>1. \A x \in Elems(e.out) : GoodAsk(x)
    BY DEF GoodAsk
  <2>2. \A d \in Conv : asked'[d] = asked[d] + Total(e.out, d, "request")
    BY <1>1, <1>6 DEF AppTypes
  <2>3. ASSUME NEW d \in Conv
        PROVE  /\ replied'[d] + Replies(Line("client")', d) = replied[d] + Replies(Line("client"), d)
               /\ Replies(Line("client")', d) \in Nat
    <3>1. /\ Replies(Line(p), d) = One(m, d) + Replies(Line(p)', d)
          /\ One(m, d) \in Nat /\ Replies(Line(p)', d) \in Nat
      BY <1>1, <1>2, <1>4, TailTotal
    <3>2. replied'[d] = replied[d] + One(m, d) /\ replied[d] \in Nat
      BY <1>1, <1>8 DEF CountsReplies, AppTypes
    <3>3. PICK a \in Nat, b \in Nat, r \in Nat : a = One(m, d) /\ b = Replies(Line(p)', d) /\ r = replied[d]
      BY <3>1, <3>2
    <3>4. (r + a) + b = r + (a + b)
      OBVIOUS
    <3> QED
      BY <1>8, <3>1, <3>2, <3>3, <3>4
  <2>4. ASSUME NEW d \in Conv, ~Known("server", d) PROVE replied'[d] = replied[d]
    <3>1. Other(p) = "server"
      BY <1>8 DEF Other
    <3>2. Known("server", c)
      BY <1>2, <1>3, <3>1 DEF GoodPacket
    <3>3. One(m, d) = 0
      BY <1>3, <2>4, <3>2 DEF One
    <3>4. replied'[d] = replied[d] + One(m, d) /\ replied[d] \in Nat
      BY <1>1, <1>8 DEF CountsReplies, AppTypes
    <3> QED
      BY <3>3, <3>4
  <2>5. Works("client", c, e)
    BY <1>3, <1>8
  <2> QED
    BY <1>1, <1>7, <2>1, <2>2, <2>3, <2>4, <2>5, ClientReplies
<1>9. CASE p = "server"
  <2>1. Works("server", c, e) /\ Got("server", c)
    BY <1>3, <1>9
  <2>2. ASSUME setup.prompt, Has("server", c)'
        PROVE  Replies(e.out, c) + Total(Line("server")', c, "request")
                 = Total(Line("server"), c, "request")
    <3>1. /\ Total(Line(p), c, "request") = Amount(m, c, "request") + Total(Line(p)', c, "request")
      BY <1>1, <1>2, <1>4, TailTotal
    <3>2. Spares(p, c, e)
      BY <1>1, <1>9, <2>1, WorkSpares
    <3>3. Has(p, c)
      BY <1>9, <2>2, <3>2 DEF Spares
    <3>4. m.id \in DOMAIN chans[p]
      BY <1>2, <1>3, <3>3 DEF Has
    <3>5. Replies(e.out, c) = Amount(m, c, "request")
      BY <1>3, <1>9, <2>2, <3>4 DEF CountsReplies
    <3> QED
      BY <1>9, <3>1, <3>5
  <2> QED
    BY <1>1, <1>7, <1>9, <2>1, <2>2, ServerReplies DEF CountsReplies
<1> QED
  BY <1>8, <1>9 DEF Peers

LEMMA ReadStep ==
  ASSUME Rule, NEW p \in Peers, NEW m, m = Head(net[p]), m.t \in Ordinary \cup {"open-failure"},
         NEW e, Answers(p, e), Worked(chans[p], m.id, e),
         Accounts(chans[p], m.id, e, 0, Amount(m, m.c, "adjust"), Amount(m, m.c, "data")),
         m.t = "open-failure" => m.id \notin DOMAIN e.chans /\ e.out = <<>>,
         \A x \in Elems(e.out) : x.t # "request",
         NotesMove, OwedMoves, idof' = idof, last' = last, RefsStay, inbox' = inbox, end' = end,
         setup' = setup, done' = done, asked' = asked, CountsReplies(p, m, e), AppTypes',
         SessionSurvives'
  PROVE  Rule'
<1>1. /\ m \in Packets /\ m.c \in Conv /\ (m.t # "open" => m.id = idof[p][m.c])
  BY ReadFacts
<1>2. m.t # "open"
  BY DEF Ordinary
<1>3. /\ Works(p, m.c, e) /\ Got(p, m.c)
      /\ Gives(p, m.c, Amount(m, m.c, "adjust"), Amount(m, m.c, "data")) /\ IdTypes' /\ QueueTypes'
  BY ReadWorks
<1>4. ReplyMoves
  BY <1>2, <1>3, ReadReplies
<1>5. Types'
  BY <1>3 DEF Types, Rule, InboxTypes
<1>6. InboxTaken(p, m.c, 0)
  BY DEF InboxTaken
<1>7. Accounts(chans[p], idof[p][m.c], e, 0, Amount(m, m.c, "adjust"), Amount(m, m.c, "data"))
  BY <1>1, <1>2
<1> QED
  BY <1>1, <1>3, <1>4, <1>5, <1>6, <1>7, WorkStep

(* What reading a message leaves alone *)
Stays ==
  /\ idof' = idof /\ last' = last /\ refs' = refs /\ inbox' = inbox /\ end' = end
  /\ setup' = setup /\ done' = done /\ asked' = asked /\ failed' = failed

LEMMA QuietReplies ==
  ASSUME Rule, NEW p \in Peers, NEW m, m.t \notin {"success", "failure"}, replied' = replied,
         NEW e, e \in Encs,
         p = "server" => m.t # "request" /\ \A x \in Elems(e.out) : x.t \notin {"success", "failure"}
  PROVE  CountsReplies(p, m, e)
<1>1. \A d \in Conv : replied[d] \in Nat
  BY DEF Rule, Types, AppTypes
<1>2. \A d : One(m, d) = 0
  BY DEF One
<1>3. \A d \in Conv : replied'[d] = replied[d] + One(m, d)
  BY <1>1, <1>2
<1>4. ASSUME p = "server" PROVE Replies(e.out, m.c) = Amount(m, m.c, "request")
  <2>1. e.out \in Seq(Packets)
    BY EncFacts
  <2>2. Amount(m, m.c, "request") = 0
    BY <1>4 DEF Amount
  <2>3. PICK S : S = {x.t : x \in Elems(e.out)}
    OBVIOUS
  <2>4. \A x \in Elems(e.out) : x.t \in S
    BY <2>3
  <2>5. "success" \notin S /\ "failure" \notin S
    BY <1>4, <2>3
  <2>6. Replies(e.out, m.c) = 0
    BY <2>1, <2>4, <2>5, NoTotal
  <2> QED
    BY <2>2, <2>6
<1> QED
  BY <1>3, <1>4 DEF CountsReplies

LEMMA StaysTypes ==
  ASSUME Rule, Stays, owed' \in [Conv -> Nat], replied' \in [Conv -> Nat]
  PROVE  AppTypes' /\ SessionSurvives' /\ RefsStay
<1>1. AppTypes /\ SessionSurvives /\ refs \in [Peers -> RefTables]
  BY DEF Rule, Types, IdTypes
<1>2. AppTypes'
  BY <1>1 DEF Stays, AppTypes
<1>3. SessionSurvives'
  BY <1>1 DEF Stays, SessionSurvives
<1>4. RefsStay
  BY <1>1 DEF Stays, RefsStay
<1> QED
  BY <1>2, <1>3, <1>4

(* An ordinary message is read, and its note goes to the application. *)
LEMMA AnswerStep ==
  ASSUME Rule, NEW p \in Peers, NEW m, m = Head(net[p]), m.t \in Ordinary,
         NEW e, Worked(chans[p], m.id, e), Answers(p, e), NEW t, t # "Open", Noted(p, m, t),
         Accounts(chans[p], m.id, e, 0, Amount(m, m.c, "adjust"), Amount(m, m.c, "data")),
         \A x \in Elems(e.out) : x.t # "request", OwedMoves, Stays, CountsReplies(p, m, e),
         owed' \in [Conv -> Nat], replied' \in [Conv -> Nat]
  PROVE  Rule'
<1>1. m.c \in Conv /\ (m.t # "open" => m.id = idof[p][m.c] /\ Known(p, m.c))
  BY ReadFacts
<1>2. m.t # "open" /\ m.t # "open-failure"
  BY DEF Ordinary
<1>3. NotesMove
  BY <1>1, <1>2, NotedRight
<1>4. AppTypes' /\ SessionSurvives' /\ RefsStay
  BY StaysTypes
<1> QED
  BY <1>2, <1>3, <1>4, ReadStep DEF Stays

LEMMA DeliverStep ==
  ASSUME Rule, NEW p \in Peers, Live(p), net[p] # <<>>, NEW m, m = Head(net[p]), m.t \in Ordinary,
         NEW e, Worked(chans[p], m.id, e), NEW t \in NoteNames, t # "Open", Deliver(p, e, m, t),
         Accounts(chans[p], m.id, e, 0, Amount(m, m.c, "adjust"), Amount(m, m.c, "data")),
         \A x \in Elems(e.out) : x.t # "request", OwedMoves, Stays, CountsReplies(p, m, e),
         owed' \in [Conv -> Nat], replied' \in [Conv -> Nat]
  PROVE  Rule'
<1>1. QueueTypes /\ refs \in [Peers -> RefTables] /\ e \in Encs /\ blocked[p] = <<>>
  BY DEF Rule, Types, IdTypes, Worked, Live
<1>2. Answers(p, e) /\ Noted(p, m, t)
  BY <1>1, DeliverEffect
<1> QED
  BY <1>2, AnswerStep

(* ... or nothing goes to the application. *)
LEMMA ReplyStep ==
  ASSUME Rule, NEW p \in Peers, Live(p), net[p] # <<>>, NEW m, m = Head(net[p]), m.t \in Ordinary,
         NEW e, Worked(chans[p], m.id, e), Reply(p, e), buf' = buf, blocked' = blocked,
         Accounts(chans[p], m.id, e, 0, Amount(m, m.c, "adjust"), Amount(m, m.c, "data")),
         \A x \in Elems(e.out) : x.t # "request", owed' = owed, CountsReplies(p, m, e),
         replied' = replied, idof' = idof, last' = last, RefsStay, inbox' = inbox, end' = end,
         setup' = setup, done' = done, asked' = asked, failed' = failed
  PROVE  Rule'
<1>1. QueueTypes /\ e \in Encs /\ blocked[p] = <<>> /\ AppTypes /\ SessionSurvives
  BY DEF Rule, Types, Worked, Live
<1>2. BufTypes'
  BY <1>1 DEF QueueTypes, BufTypes
<1>3. Answers(p, e)
  BY <1>1, <1>2, ReplyAtOnce
<1>4. NotesMove
  BY DEF NotesMove, InNotes, Elems
<1>5. AppTypes' /\ SessionSurvives'
  BY <1>1 DEF AppTypes, SessionSurvives
<1>6. OwedMoves
  BY DEF OwedMoves
<1>7. m.t # "open-failure"
  BY DEF Ordinary
<1> QED
  BY <1>3, <1>4, <1>5, <1>6, <1>7, ReadStep

LEMMA ReadsEofStep ==
  ASSUME Rule, NEW p \in Peers, ReadsEof(p)
  PROVE  Rule'
<1>1. PICK m : m = Head(net[p])
  OBVIOUS
<1>2. Live(p) /\ net[p] # <<>> /\ m.t = "eof" /\ Deliver(p, Enc(p), m, "Eof") /\ Stays
      /\ owed' = owed /\ replied' = replied
  BY <1>1 DEF ReadsEof, Reads, Stays
<1>3. chans[p] \in Tables /\ owed \in [Conv -> Nat] /\ replied \in [Conv -> Nat]
  BY DEF Rule, Types, IdTypes, AppTypes
<1>4. PICK e : e = Enc(p)
  OBVIOUS
<1>5. Worked(chans[p], m.id, e) /\ Accounts(chans[p], m.id, e, 0, 0, 0) /\ e.out = <<>> /\ e \in Encs
  BY <1>3, <1>4, WorkNothing DEF Enc
<1>6. Amount(m, m.c, "adjust") = 0 /\ Amount(m, m.c, "data") = 0
  BY <1>2 DEF Amount
<1>7. \A x : x \notin Elems(e.out)
  BY <1>5, ElemsEmpty
<1>8. CountsReplies(p, m, e)
  BY <1>2, <1>5, <1>7, QuietReplies
<1>9. OwedMoves
  BY <1>2 DEF OwedMoves
<1>10. "Eof" \in NoteNames /\ "Eof" # "Open" /\ m.t \in Ordinary
  BY <1>2 DEF NoteNames, Ordinary
<1>11. Deliver(p, e, m, "Eof")
  BY <1>2, <1>4
<1>12. PICK t : t = "Eof"
  OBVIOUS
<1>13. Accounts(chans[p], m.id, e, 0, Amount(m, m.c, "adjust"), Amount(m, m.c, "data"))
  BY <1>5, <1>6
<1>14. owed' \in [Conv -> Nat] /\ replied' \in [Conv -> Nat]
  BY <1>2, <1>3
<1> QED
  BY <1>1, <1>2, <1>5, <1>7, <1>8, <1>9, <1>10, <1>11, <1>12, <1>13, <1>14, DeliverStep

LEMMA ReadsDataStep ==
  ASSUME Rule, NEW p \in Peers, ReadsData(p)
  PROVE  Rule'
<1>1. PICK m : m = Head(net[p])
  OBVIOUS
<1>2. PICK e : e = adjust_window_size(Enc(p), m.id, m.n, Window)
  OBVIOUS
<1>3. Live(p) /\ net[p] # <<>> /\ m.t = "data" /\ Deliver(p, e, m, "Data") /\ Stays
      /\ owed' = owed /\ replied' = replied
  BY <1>1, <1>2 DEF ReadsData, Reads, Stays
<1>4. chans[p] \in Tables /\ owed \in [Conv -> Nat] /\ replied \in [Conv -> Nat] /\ QueueTypes
  BY DEF Rule, Types, IdTypes, AppTypes
<1>5. m \in Packets /\ m.n \in Nat
  <2>1. net[p] \in Seq(Packets)
    BY <1>4 DEF QueueTypes
  <2>2. m \in Packets
    BY <1>1, <1>3, <2>1, HeadTailProperties
  <2> QED
    BY <2>2, PacketsFacts
<1>6. Worked(chans[p], m.id, e) /\ Accounts(chans[p], m.id, e, 0, 0, m.n) /\ OfTypes(e, {"adjust"})
  <2>1. PICK g : g = Enc(p)
    OBVIOUS
  <2>2. g = [chans |-> chans[p], out |-> <<>>] /\ e = adjust_window_size(g, m.id, m.n, Window)
    BY <1>2, <2>1 DEF Enc
  <2> QED
    BY <1>4, <1>5, <2>2, WorkAdjust
<1>7. Amount(m, m.c, "adjust") = 0 /\ Amount(m, m.c, "data") = m.n
  BY <1>3 DEF Amount
<1>8. \A x \in Elems(e.out) : x.t = "adjust"
  BY <1>6 DEF OfTypes
<1>9. CountsReplies(p, m, e)
  BY <1>3, <1>6, <1>8, QuietReplies DEF Worked
<1>10. OwedMoves
  BY <1>3 DEF OwedMoves
<1>11. "Data" \in NoteNames /\ "Data" # "Open" /\ m.t \in Ordinary
  BY <1>3 DEF NoteNames, Ordinary
<1>12. Accounts(chans[p], m.id, e, 0, Amount(m, m.c, "adjust"), Amount(m, m.c, "data"))
  BY <1>6, <1>7
<1>13. owed' \in [Conv -> Nat] /\ replied' \in [Conv -> Nat]
  BY <1>3, <1>4
<1> QED
  BY <1>1, <1>3, <1>6, <1>8, <1>9, <1>10, <1>11, <1>12, <1>13, DeliverStep

(* The channel is forgotten. *)
LEMMA WorkForget ==
  ASSUME NEW tab \in Tables, NEW id, NEW e, e = [chans |-> Without(tab, id), out |-> <<>>],
         NEW ain, NEW dgot
  PROVE  /\ Worked(tab, id, e) /\ Accounts(tab, id, e, 0, ain, dgot) /\ e.out = <<>>
         /\ id \notin DOMAIN e.chans /\ e \in Encs
<1>1. PICK T \in Tables : T = Without(tab, id)
  BY TableWithout
<1>2. /\ DOMAIN T = DOMAIN tab \ {id} /\ \A i \in DOMAIN tab \ {id} : T[i] = tab[i]
      /\ id \notin DOMAIN tab => T = tab
  <2>1. /\ DOMAIN Without(tab, id) = DOMAIN tab \ {id}
        /\ \A i \in DOMAIN tab \ {id} : Without(tab, id)[i] = tab[i]
        /\ id \notin DOMAIN tab => Without(tab, id) = tab
    BY TableWithout
  <2>2. DOMAIN T = DOMAIN tab \ {id}
    BY <1>1, <2>1
  <2>3. \A i \in DOMAIN tab \ {id} : T[i] = tab[i]
    BY <1>1, <2>1
  <2>4. id \notin DOMAIN tab => T = tab
    BY <1>1, <2>1
  <2> QED
    BY <2>2, <2>3, <2>4
<1>3. <<>> \in Seq(Packets)
  OBVIOUS
<1>4. PICK r \in Seq(Packets) : r = <<>>
  BY <1>3
<1>5. e = [chans |-> T, out |-> r]
  BY <1>1, <1>4
<1>6. e \in Encs /\ e.chans = T /\ e.out = r
  BY <1>5 DEF Encs
<1>7. Kept(tab, id, T)
  BY <1>2 DEF Kept
<1>8. Outs(tab, id, r)
  BY <1>4, ElemsEmpty DEF Outs
<1>9. Worked(tab, id, e)
  BY <1>2, <1>4, <1>6, <1>7, <1>8 DEF Worked
<1>10. \A c : Total(r, c, "adjust") = 0
  BY <1>4, EmptyTotals
<1>11. id \notin DOMAIN e.chans
  BY <1>2, <1>6
<1>12. Accounts(tab, id, e, 0, ain, dgot)
  BY <1>6, <1>10, <1>11 DEF Accounts
<1> QED
  BY <1>4, <1>6, <1>9, <1>11, <1>12

LEMMA RefsForget ==
  ASSUME refs \in [Peers -> RefTables], NEW p \in Peers, NEW id,
         refs' = [refs EXCEPT ![p] = Without(refs[p], id)]
  PROVE  RefsStay
<1>1. refs[p] \in RefTables
  OBVIOUS
<1>2. PICK T : T = Without(refs[p], id)
  OBVIOUS
<1>3. T = [x \in DOMAIN refs[p] \cap (DOMAIN refs[p] \ {id}) |-> refs[p][x]]
  BY <1>2 DEF Without, Restrict
<1>4. DOMAIN T \subseteq DOMAIN refs[p] /\ \A x \in DOMAIN T : T[x] = refs[p][x]
  BY <1>3
<1>5. T \in RefTables
  <2>1. DOMAIN refs[p] \subseteq Ids /\ \A i \in DOMAIN refs[p] : refs[p][i] \in Conv
    BY <1>1, RefTableFacts
  <2>2. DOMAIN T \subseteq Ids /\ T \in [DOMAIN T -> Conv]
    BY <1>3, <1>4, <2>1
  <2> QED
    BY <2>2 DEF RefTables
<1>6. refs' = [refs EXCEPT ![p] = T]
  BY <1>2
<1> QED
  BY <1>4, <1>5, <1>6 DEF RefsStay

LEMMA ReadsWindowAdjustStep ==
  ASSUME Rule, NEW p \in Peers, ReadsWindowAdjust(p)
  PROVE  Rule'
<1>1. PICK m : m = Head(net[p])
  OBVIOUS
<1>2. /\ Live(p) /\ net[p] # <<>> /\ m.t = "adjust" /\ Stays /\ owed' = owed /\ replied' = replied
      /\ \/ /\ m.id \in DOMAIN chans[p]
            /\ Reply(p, flush_pending([Enc(p) EXCEPT !.chans[m.id].rwin = @ + m.n], m.id))
            /\ TryDeliver(p, m, "WindowAdjusted")
         \/ m.id \notin DOMAIN chans[p] /\ Reply(p, Enc(p)) /\ buf' = buf /\ blocked' = blocked
  BY <1>1 DEF ReadsWindowAdjust, Reads, Stays
<1>3. /\ chans[p] \in Tables /\ owed \in [Conv -> Nat] /\ replied \in [Conv -> Nat] /\ QueueTypes
      /\ refs \in [Peers -> RefTables] /\ blocked[p] = <<>>
  BY <1>2 DEF Rule, Types, IdTypes, AppTypes, Live
<1>4. m \in Packets /\ m.n \in Nat
  <2>1. net[p] \in Seq(Packets)
    BY <1>3 DEF QueueTypes
  <2>2. m \in Packets
    BY <1>1, <1>2, <2>1, HeadTailProperties
  <2> QED
    BY <2>2, PacketsFacts
<1>5. Amount(m, m.c, "adjust") = m.n /\ Amount(m, m.c, "data") = 0
  BY <1>2 DEF Amount
<1>6. OwedMoves
  BY <1>2 DEF OwedMoves
<1>7. m.t \in Ordinary
  BY <1>2 DEF Ordinary
<1>8. owed' \in [Conv -> Nat] /\ replied' \in [Conv -> Nat]
  BY <1>2, <1>3
<1>9. PICK g : g = Enc(p)
  OBVIOUS
<1>10. g = [chans |-> chans[p], out |-> <<>>]
  BY <1>9 DEF Enc
<1>11. CASE m.id \in DOMAIN chans[p]
  <2>1. PICK e : e = flush_pending([g EXCEPT !.chans[m.id].rwin = @ + m.n], m.id)
    OBVIOUS
  <2>2. Sent(chans[p], m.id, e, 0, m.n)
    BY <1>3, <1>4, <1>10, <1>11, <2>1, SentAdjusted
  <2>3. PICK z \in Nat : z = 0
    OBVIOUS
  <2>4. Sent(chans[p], m.id, e, z, m.n)
    BY <2>2, <2>3
  <2>5. /\ Worked(chans[p], m.id, e) /\ Accounts(chans[p], m.id, e, z, m.n, 0)
        /\ OfTypes(e, {"data", "eof", "close"})
    BY <1>3, <1>4, <1>11, <2>4, SentIsWork
  <2>6. \A x \in Elems(e.out) : x.t \in {"data", "eof", "close"}
    BY <2>5 DEF OfTypes
  <2>7. e \in Encs
    BY <2>5 DEF Worked
  <2>8. CountsReplies(p, m, e)
    BY <1>2, <2>6, <2>7, QuietReplies
  <2>9. "WindowAdjusted" \in NoteNames /\ "WindowAdjusted" # "Open"
    BY DEF NoteNames
  <2>10. Reply(p, e) /\ TryDeliver(p, m, "WindowAdjusted")
    BY <1>2, <1>9, <1>11, <2>1
  <2>11. Answers(p, e) /\ Noted(p, m, "WindowAdjusted")
    BY <1>1, <1>2, <1>3, <2>7, <2>9, <2>10, TryDeliverEffect
  <2>12. Accounts(chans[p], m.id, e, 0, Amount(m, m.c, "adjust"), Amount(m, m.c, "data"))
    BY <1>5, <2>3, <2>5
  <2>13. \A x \in Elems(e.out) : x.t # "request"
    BY <2>6
  <2> QED
    BY <1>1, <1>2, <1>6, <1>7, <1>8, <2>5, <2>8, <2>9, <2>11, <2>12, <2>13, AnswerStep
<1>12. CASE m.id \notin DOMAIN chans[p]
  <2>1. Worked(chans[p], m.id, g) /\ g.out = <<>> /\ g \in Encs
    BY <1>3, <1>10, WorkNothing
  <2>2. \A x : x \notin Elems(g.out)
    BY <2>1, ElemsEmpty
  <2>3. CountsReplies(p, m, g)
    BY <1>2, <2>1, <2>2, QuietReplies
  <2>4. Accounts(chans[p], m.id, g, 0, Amount(m, m.c, "adjust"), Amount(m, m.c, "data"))
    BY <1>12 DEF Accounts
  <2>5. RefsStay
    BY <1>2, <1>8, StaysTypes
  <2>6. Reply(p, g) /\ buf' = buf /\ blocked' = blocked
    BY <1>2, <1>9, <1>12
  <2> QED
    BY <1>1, <1>2, <1>7, <2>1, <2>2, <2>3, <2>4, <2>5, <2>6, ReplyStep DEF Stays
<1> QED
  BY <1>11, <1>12

LEMMA ReadsCloseStep ==
  ASSUME Rule, NEW p \in Peers, NEW e, NEW m, m = Head(net[p]), Reads(p, "close"), Reply(p, e),
         Worked(chans[p], m.id, e), Accounts(chans[p], m.id, e, 0, 0, 0),
         \A x \in Elems(e.out) : x.t \in Ends,
         refs' = [refs EXCEPT ![p] = Without(refs[p], m.id)],
         UNCHANGED <<posted, idof, last, inbox, buf, blocked, end, failed, setup, owed, done,
                     asked, replied>>
  PROVE  Rule'
<1>1. Live(p) /\ net[p] # <<>> /\ m.t = "close"
  BY DEF Reads
<1>2. RefsStay
  BY RefsForget DEF Rule, Types, IdTypes
<1>3. Amount(m, m.c, "adjust") = 0 /\ Amount(m, m.c, "data") = 0
  BY <1>1 DEF Amount
<1>4. e \in Encs
  BY DEF Worked
<1>5. \A x \in Elems(e.out) : x.t \notin {"success", "failure"} /\ x.t # "request"
  BY DEF Ends
<1>6. CountsReplies(p, m, e)
  BY <1>1, <1>4, <1>5, QuietReplies
<1>7. m.t \in Ordinary
  BY <1>1 DEF Ordinary
<1> QED
  BY <1>1, <1>2, <1>3, <1>5, <1>6, <1>7, ReplyStep

LEMMA ClientReadsCloseStep ==
  ASSUME Rule, ClientReadsClose
  PROVE  Rule'
<1>1. PICK p \in Peers : p = "client"
  BY DEF Peers
<1>2. PICK m : p = "client" /\ m = Head(net[p])
  BY <1>1
<1>3. PICK g : g = Enc(p)
  OBVIOUS
<1>4. PICK e : e = close(g, m.id)
  OBVIOUS
<1>5. /\ Reads(p, "close") /\ Reply(p, e) /\ refs' = [refs EXCEPT ![p] = Without(refs[p], m.id)]
      /\ UNCHANGED <<posted, idof, last, inbox, buf, blocked, end, failed, setup, owed, done,
                     asked, replied>>
  BY <1>2, <1>3, <1>4 DEF ClientReadsClose
<1>6. chans[p] \in Tables
  BY DEF Rule, Types, IdTypes
<1>7. Worked(chans[p], m.id, e) /\ Accounts(chans[p], m.id, e, 0, 0, 0) /\ OfTypes(e, Ends)
  BY <1>3, <1>4, <1>6, WorkClose DEF Enc
<1>8. \A x \in Elems(e.out) : x.t \in Ends
  BY <1>7 DEF OfTypes
<1> QED
  BY <1>2, <1>5, <1>7, <1>8, ReadsCloseStep

LEMMA ServerReadsCloseStep ==
  ASSUME Rule, ServerReadsClose
  PROVE  Rule'
<1>1. PICK p \in Peers : p = "server"
  BY DEF Peers
<1>2. PICK m : p = "server" /\ m = Head(net[p])
  BY <1>1
<1>3. PICK e : e = [chans |-> Without(chans[p], m.id), out |-> <<>>]
  OBVIOUS
<1>4. [Enc(p) EXCEPT !.chans = Without(@, m.id)] = e
  BY <1>3 DEF Enc
<1>5. /\ Reads(p, "close") /\ Reply(p, e) /\ refs' = [refs EXCEPT ![p] = Without(refs[p], m.id)]
      /\ UNCHANGED <<posted, idof, last, inbox, buf, blocked, end, failed, setup, owed, done,
                     asked, replied>>
  BY <1>2, <1>4 DEF ServerReadsClose
<1>6. chans[p] \in Tables
  BY DEF Rule, Types, IdTypes
<1>7. Worked(chans[p], m.id, e) /\ Accounts(chans[p], m.id, e, 0, 0, 0) /\ e.out = <<>>
  BY <1>3, <1>6, WorkForget
<1>8. \A x \in Elems(e.out) : x.t \in Ends
  BY <1>7, ElemsEmpty
<1> QED
  BY <1>2, <1>5, <1>7, <1>8, ReadsCloseStep

LEMMA ReadsOpenFailureStep ==
  ASSUME Rule, NEW p \in Peers, NEW lost, lost = "no" \/ (p = "server" /\ lost = "SendError"),
         ReadsOpenFailure(p, lost)
  PROVE  Rule'
<1>1. PICK m : m = Head(net[p])
  OBVIOUS
<1>2. PICK e : e = [chans |-> Without(chans[p], m.id), out |-> <<>>]
  OBVIOUS
<1>3. [Enc(p) EXCEPT !.chans = Without(@, m.id)] = e
  BY <1>2 DEF Enc
<1>4. /\ Live(p) /\ net[p] # <<>> /\ m.t = "open-failure" /\ Deliver(p, e, m, "OpenFailure")
      /\ refs' = [refs EXCEPT ![p] = Without(refs[p], m.id)]
      /\ failed' = [failed EXCEPT ![p] = lost] \/ failed' = failed
      /\ UNCHANGED <<posted, idof, last, inbox, end, setup, owed, done, asked, replied>>
  BY <1>1, <1>3 DEF ReadsOpenFailure, Reads
<1>5. /\ chans[p] \in Tables /\ AppTypes /\ QueueTypes /\ refs \in [Peers -> RefTables]
      /\ blocked[p] = <<>> /\ SessionSurvives
  BY <1>4 DEF Rule, Types, IdTypes, Live
<1>6. /\ Worked(chans[p], m.id, e) /\ e.out = <<>> /\ m.id \notin DOMAIN e.chans /\ e \in Encs
  BY <1>2, <1>5, WorkForget
<1>7. Accounts(chans[p], m.id, e, 0, Amount(m, m.c, "adjust"), Amount(m, m.c, "data"))
  BY <1>2, <1>5, WorkForget
<1>8. RefsStay
  BY <1>4, <1>5, RefsForget
<1>9. "OpenFailure" \in NoteNames /\ "OpenFailure" # "Open" /\ m.t # "open"
  BY <1>4 DEF NoteNames
<1>10. Answers(p, e) /\ Noted(p, m, "OpenFailure")
  BY <1>1, <1>4, <1>5, <1>6, <1>9, DeliverEffect
<1>11. m.c \in Conv /\ m.id = idof[p][m.c] /\ Known(p, m.c)
  BY <1>1, <1>9, <1>10, ReadFacts
<1>12. NotesMove
  BY <1>9, <1>10, <1>11, NotedRight
<1>13. OwedMoves
  BY <1>4 DEF OwedMoves
<1>14. \A x : x \notin Elems(e.out)
  BY <1>6, ElemsEmpty
<1>15. CountsReplies(p, m, e)
  BY <1>4, <1>6, <1>14, QuietReplies
<1>16. AppTypes'
  BY <1>4, <1>5 DEF AppTypes
<1>17. SessionSurvives'
  BY <1>4, <1>5 DEF SessionSurvives, AppTypes
<1>18. m.t \in Ordinary \cup {"open-failure"}
  BY <1>4
<1> QED
  BY <1>1, <1>4, <1>6, <1>7, <1>8, <1>10, <1>12, <1>13, <1>14, <1>15, <1>16, <1>17, <1>18, ReadStep

LEMMA ClientReadsRequestStep ==
  ASSUME Rule, ClientReadsRequest
  PROVE  Rule'
<1>1. PICK p \in Peers : p = "client"
  BY DEF Peers
<1>2. PICK m : p = "client" /\ m = Head(net[p])
  BY <1>1
<1>3. PICK e : e = Enc(p)
  OBVIOUS
<1>4. /\ Live(p) /\ net[p] # <<>> /\ m.t = "request" /\ Deliver(p, e, m, "ExitStatus") /\ Stays
      /\ owed' = owed /\ replied' = replied
  BY <1>2, <1>3 DEF ClientReadsRequest, Reads, Stays
<1>5. chans[p] \in Tables /\ owed' \in [Conv -> Nat] /\ replied' \in [Conv -> Nat]
  BY <1>4 DEF Rule, Types, IdTypes, AppTypes
<1>6. Worked(chans[p], m.id, e) /\ Accounts(chans[p], m.id, e, 0, 0, 0) /\ e.out = <<>> /\ e \in Encs
  BY <1>3, <1>5, WorkNothing DEF Enc
<1>7. Amount(m, m.c, "adjust") = 0 /\ Amount(m, m.c, "data") = 0
  BY <1>4 DEF Amount
<1>8. \A x : x \notin Elems(e.out)
  BY <1>6, ElemsEmpty
<1>9. CountsReplies(p, m, e)
  BY <1>2, <1>4, <1>6, <1>8, QuietReplies
<1>10. OwedMoves
  BY <1>4 DEF OwedMoves
<1>11. "ExitStatus" \in NoteNames /\ "ExitStatus" # "Open" /\ m.t \in Ordinary
  BY <1>4 DEF NoteNames, Ordinary
<1>12. Accounts(chans[p], m.id, e, 0, Amount(m, m.c, "adjust"), Amount(m, m.c, "data"))
  BY <1>6, <1>7
<1> QED
  BY <1>2, <1>4, <1>5, <1>6, <1>8, <1>9, <1>10, <1>11, <1>12, DeliverStep

LEMMA ClientReadsReplyStep ==
  ASSUME Rule, NEW t \in {"success", "failure"}, NEW shown \in NoteNames, shown # "Open",
         ClientReadsReply(t, shown)
  PROVE  Rule'
<1>1. PICK p \in Peers : p = "client"
  BY DEF Peers
<1>2. PICK m : p = "client" /\ m = Head(net[p])
  BY <1>1
<1>3. PICK e : e = Enc(p)
  OBVIOUS
<1>4. /\ Live(p) /\ net[p] # <<>> /\ m.t = t /\ Deliver(p, e, m, shown) /\ Stays
      /\ owed' = owed /\ replied' = [replied EXCEPT ![m.c] = replied[m.c] + 1]
  BY <1>2, <1>3 DEF ClientReadsReply, Reads, Stays
<1>5. chans[p] \in Tables /\ owed' \in [Conv -> Nat] /\ replied \in [Conv -> Nat] /\ net[p] \in Seq(Packets)
  BY <1>4 DEF Rule, Types, IdTypes, AppTypes, QueueTypes
<1>6. Worked(chans[p], m.id, e) /\ Accounts(chans[p], m.id, e, 0, 0, 0) /\ e.out = <<>> /\ e \in Encs
  BY <1>3, <1>5, WorkNothing DEF Enc
<1>7. Amount(m, m.c, "adjust") = 0 /\ Amount(m, m.c, "data") = 0
  BY <1>4 DEF Amount
<1>8. \A x : x \notin Elems(e.out)
  BY <1>6, ElemsEmpty
<1>9. PICK c \in Conv : c = m.c
  <2>1. m \in Packets
    BY <1>2, <1>4, <1>5, HeadTailProperties
  <2> QED
    BY <2>1, PacketsFacts
<1>10. replied' \in [Conv -> Nat]
  BY <1>4, <1>5, <1>9
<1>11. CountsReplies(p, m, e)
  <2>1. ASSUME NEW d \in Conv PROVE replied'[d] = replied[d] + One(m, d)
    <3>1. replied[d] \in Nat
      BY <1>5
    <3>2. CASE d = c
      BY <1>4, <1>5, <1>9, <3>1, <3>2 DEF One
    <3>3. CASE d # c
      BY <1>4, <1>5, <1>9, <3>1, <3>3 DEF One
    <3> QED
      BY <3>2, <3>3
  <2> QED
    BY <1>2, <2>1 DEF CountsReplies
<1>12. OwedMoves
  BY <1>4 DEF OwedMoves
<1>13. m.t \in Ordinary
  BY <1>4 DEF Ordinary
<1>14. Accounts(chans[p], m.id, e, 0, Amount(m, m.c, "adjust"), Amount(m, m.c, "data"))
  BY <1>6, <1>7
<1> QED
  BY <1>2, <1>4, <1>5, <1>6, <1>8, <1>10, <1>11, <1>12, <1>13, <1>14, DeliverStep

LEMMA HeadGood ==
  ASSUME Rule, NEW p \in Peers, net[p] # <<>>, NEW m, m = Head(net[p])
  PROVE  /\ m \in Packets /\ m.c \in Conv /\ m \in Elems(Line(p)) /\ m.n \in Nat
         /\ GoodPacket(p, m) /\ Head(Line(p)) = m /\ Line(p) # <<>>
<1>1. QueueTypes /\ CoreInv
  BY DEF Rule, Types
<1>2. net[p] \in Seq(Packets) /\ Held(Other(p)) \in Seq(Packets) /\ Line(p) \in Seq(Packets)
  BY <1>1, PeerFacts, LineTyped
<1>3. PICK s \in Seq(Packets) : s = net[p]
  BY <1>2
<1>4. PICK t \in Seq(Packets) : t = Held(Other(p))
  BY <1>2
<1>5. PICK u \in Seq(Packets) : u = Line(p)
  BY <1>2
<1>6. u = s \o t /\ s # <<>>
  BY <1>3, <1>4, <1>5 DEF Line
<1>7. Continues(u, s, t)
  BY <1>6, TailConcat
<1>8. u # <<>> /\ Head(u) = m
  BY <1>3, <1>7 DEF Continues
<1>9. m \in Elems(u)
  BY <1>8, ElemsTail
<1>10. m \in Packets
  BY <1>3, <1>6, HeadTailProperties
<1>11. GoodPacket(p, m)
  BY <1>1, <1>5, <1>9 DEF CoreInv, LineInv
<1>12. m.c \in Conv /\ m.n \in Nat
  BY <1>10, PacketsFacts
<1> QED
  BY <1>5, <1>8, <1>9, <1>10, <1>11, <1>12

LEMMA HeadFacts ==
  ASSUME Rule, NEW p \in Peers, net[p] # <<>>, NEW m, m = Head(net[p]), m.t \in Ordinary
  PROVE  /\ m \in Packets /\ m.c \in Conv /\ m \in Elems(Line(p)) /\ m.id = idof[p][m.c]
         /\ Known(p, m.c) /\ m.n \in Nat /\ Head(Line(p)) = m /\ Line(p) # <<>>
         /\ m.id \in DOMAIN chans[p] => chans[p][m.id].c = m.c
<1>1. IdTypes /\ OwnInv
  BY DEF Rule, Types, CoreInv
<1>2. /\ m \in Packets /\ m.c \in Conv /\ m \in Elems(Line(p)) /\ m.n \in Nat
      /\ GoodPacket(p, m) /\ Head(Line(p)) = m /\ Line(p) # <<>>
  BY HeadGood
<1>3. m.id = idof[p][m.c] /\ Known(p, m.c)
  BY <1>2 DEF GoodPacket, Ordinary
<1>4. ASSUME m.id \in DOMAIN chans[p] PROVE chans[p][m.id].c = m.c
  <2>1. chans[p][m.id].c \in Conv /\ idof[p][chans[p][m.id].c] = m.id
    BY <1>1, <1>4, IdHas
  <2> QED
    BY <1>1, <1>2, <1>3, <2>1 DEF OwnInv
<1> QED
  BY <1>2, <1>3, <1>4

(* What the server makes of a request, e, is right. *)
RequestRight(m, e) ==
  /\ Worked(chans["server"], m.id, e)
  /\ Accounts(chans["server"], m.id, e, 0, Amount(m, m.c, "adjust"), Amount(m, m.c, "data"))
  /\ \A x \in Elems(e.out) : x.t # "request"

LEMMA AskFacts ==
  ASSUME Rule, Reads("server", "request"), NEW m, m = Head(net["server"])
  PROVE  /\ Live("server") /\ net["server"] # <<>> /\ m.t = "request" /\ m.t \in Ordinary
         /\ m.c \in Conv /\ m.n \in {0, 1} /\ m.n \in Nat /\ (m.k = "notice" => m.n = 0)
         /\ Amount(m, m.c, "request") = m.n /\ Amount(m, m.c, "adjust") = 0 /\ Amount(m, m.c, "data") = 0
         /\ m.id = idof["server"][m.c] /\ Known("server", m.c)
         /\ m.id \in DOMAIN chans["server"] => chans["server"][m.id].c = m.c
         /\ chans["server"] \in Tables
<1>1. "server" \in Peers
  BY DEF Peers
<1>2. Live("server") /\ net["server"] # <<>> /\ m.t = "request" /\ m.t \in Ordinary
  BY DEF Reads, Ordinary
<1>3. /\ m.c \in Conv /\ m \in Elems(Line("server")) /\ m.n \in Nat
      /\ m.id = idof["server"][m.c] /\ Known("server", m.c)
      /\ m.id \in DOMAIN chans["server"] => chans["server"][m.id].c = m.c
  BY <1>1, <1>2, HeadFacts
<1>4. GoodAsk(m)
  BY <1>3 DEF Rule, ReplyInv
<1>5. chans["server"] \in Tables
  BY <1>1 DEF Rule, Types, IdTypes
<1>6. Amount(m, m.c, "request") = m.n /\ Amount(m, m.c, "adjust") = 0 /\ Amount(m, m.c, "data") = 0
  BY <1>2 DEF Amount
<1> QED
  BY <1>2, <1>3, <1>4, <1>5, <1>6 DEF GoodAsk

(* It is answered at once *)
LEMMA PromptRight ==
  ASSUME Rule, Reads("server", "request"), NEW m, m = Head(net["server"]),
         NEW t \in {"success", "failure"}, replied' = replied,
         NEW e, e = answer(SetWantsReply(Enc("server"), m.id, m.n), m.id, t)
  PROVE  RequestRight(m, e) /\ CountsReplies("server", m, e)
<1>1. /\ chans["server"] \in Tables /\ m.n \in Nat /\ m.n \in {0, 1}
      /\ Amount(m, m.c, "request") = m.n /\ Amount(m, m.c, "adjust") = 0 /\ Amount(m, m.c, "data") = 0
      /\ m.id \in DOMAIN chans["server"] => chans["server"][m.id].c = m.c
  BY AskFacts
<1>2. PICK g : g = Enc("server")
  OBVIOUS
<1>3. g = [chans |-> chans["server"], out |-> <<>>] /\ e = answer(SetWantsReply(g, m.id, m.n), m.id, t)
  BY <1>2 DEF Enc
<1>4. /\ Worked(chans["server"], m.id, e) /\ Accounts(chans["server"], m.id, e, 0, 0, 0)
      /\ \A x \in Elems(e.out) : x.t # "request"
      /\ m.id \in DOMAIN chans["server"] =>
           Replies(e.out, chans["server"][m.id].c) = IF m.n = 1 THEN 1 ELSE 0
  <2>1. PICK tab \in Tables : tab = chans["server"]
    BY <1>1
  <2>2. PICK n \in Nat : n = m.n
    BY <1>1
  <2>3. PICK id : id = m.id
    OBVIOUS
  <2>4. g = [chans |-> tab, out |-> <<>>] /\ e = answer(SetWantsReply(g, id, n), id, t)
    <3>1. g = [chans |-> tab, out |-> <<>>]
      BY <1>3, <2>1
    <3>2. SetWantsReply(g, id, n) = SetWantsReply(g, m.id, m.n)
      BY <2>2, <2>3
    <3>3. answer(SetWantsReply(g, id, n), id, t) = e
      BY <1>3, <2>3, <3>2
    <3> QED
      BY <3>1, <3>3
  <2>5. /\ Worked(tab, id, e) /\ Accounts(tab, id, e, 0, 0, 0) /\ \A x \in Elems(e.out) : x.t # "request"
        /\ id \in DOMAIN tab => Replies(e.out, tab[id].c) = IF n = 1 THEN 1 ELSE 0
    <3>1. AnsweredOnce(tab, id, n, e)
      BY <2>4, WorkRequest
    <3>2. \A x \in Elems(e.out) : x.t # "request"
      BY <3>1 DEF AnsweredOnce, OfTypes, Outcomes
    <3> QED
      BY <3>1, <3>2 DEF AnsweredOnce
  <2>6. /\ Worked(chans["server"], m.id, e) /\ Accounts(chans["server"], m.id, e, 0, 0, 0)
        /\ \A x \in Elems(e.out) : x.t # "request"
    BY <2>1, <2>3, <2>5
  <2>7. m.id \in DOMAIN chans["server"] =>
           Replies(e.out, chans["server"][m.id].c) = IF m.n = 1 THEN 1 ELSE 0
    BY <2>1, <2>2, <2>3, <2>5
  <2> QED
    BY <2>6, <2>7
<1>5. RequestRight(m, e)
  BY <1>1, <1>4 DEF RequestRight
<1>6. ASSUME m.id \in DOMAIN chans["server"] PROVE Replies(e.out, m.c) = Amount(m, m.c, "request")
  <2>1. PICK c : c = m.c
    OBVIOUS
  <2>2. chans["server"][m.id].c = c
    BY <1>1, <1>6, <2>1
  <2>3. Replies(e.out, c) = IF m.n = 1 THEN 1 ELSE 0
    BY <1>4, <1>6, <2>2
  <2>4. Replies(e.out, c) = m.n
    BY <1>1, <2>3
  <2> QED
    BY <1>1, <2>1, <2>4
<1> QED
  BY <1>5, <1>6 DEF CountsReplies

(* ... or not at all. *)
LEMMA LaterRight ==
  ASSUME Rule, Reads("server", "request"), NEW m, m = Head(net["server"]),
         ~setup.prompt \/ m.k = "notice", replied' = replied,
         NEW e, e = SetWantsReply(Enc("server"), m.id, m.n)
  PROVE  RequestRight(m, e) /\ CountsReplies("server", m, e)
<1>1. /\ chans["server"] \in Tables /\ m.n \in Nat /\ (m.k = "notice" => m.n = 0)
      /\ Amount(m, m.c, "request") = m.n /\ Amount(m, m.c, "adjust") = 0 /\ Amount(m, m.c, "data") = 0
  BY AskFacts
<1>2. PICK g : g = Enc("server")
  OBVIOUS
<1>3. g = [chans |-> chans["server"], out |-> <<>>] /\ e = SetWantsReply(g, m.id, m.n)
  BY <1>2 DEF Enc
<1>4. /\ Worked(chans["server"], m.id, e) /\ Accounts(chans["server"], m.id, e, 0, 0, 0)
      /\ e.out = <<>>
  BY <1>1, <1>3, WorkWants
<1>5. \A x : x \notin Elems(e.out)
  BY <1>4, ElemsEmpty
<1>6. RequestRight(m, e)
  BY <1>1, <1>4, <1>5 DEF RequestRight
<1>7. ASSUME setup.prompt PROVE Replies(e.out, m.c) = Amount(m, m.c, "request")
  <2>1. Replies(<<>>, m.c) = 0
    BY EmptyTotals
  <2>2. m.n = 0
    BY <1>1, <1>7
  <2> QED
    BY <1>1, <1>4, <2>1, <2>2
<1> QED
  BY <1>6, <1>7 DEF CountsReplies

LEMMA TellStep ==
  ASSUME Rule, Reads("server", "request"), NEW m, m = Head(net["server"]), NEW e,
         RequestRight(m, e), CountsReplies("server", m, e), Deliver("server", e, m, "Request"),
         Stays, OwedMoves, owed' \in [Conv -> Nat], replied' = replied
  PROVE  Rule'
<1>1. PICK p \in Peers : p = "server"
  BY DEF Peers
<1>2. Live(p) /\ net[p] # <<>> /\ m.t \in Ordinary
  BY <1>1, AskFacts
<1>3. /\ Worked(chans[p], m.id, e) /\ \A x \in Elems(e.out) : x.t # "request"
      /\ Accounts(chans[p], m.id, e, 0, Amount(m, m.c, "adjust"), Amount(m, m.c, "data"))
  BY <1>1 DEF RequestRight
<1>4. PICK t \in NoteNames : t = "Request" /\ t # "Open"
  BY DEF NoteNames
<1>5. m = Head(net[p]) /\ Deliver(p, e, m, t) /\ CountsReplies(p, m, e)
  BY <1>1, <1>4
<1>6. replied' \in [Conv -> Nat]
  BY DEF Rule, Types, AppTypes
<1> QED
  BY <1>2, <1>3, <1>4, <1>5, <1>6, DeliverStep

LEMMA ServerReadsRequestStep ==
  ASSUME Rule, ServerReadsRequest
  PROVE  Rule'
<1>1. PICK m : m = Head(net["server"])
  OBVIOUS
<1>2. Reads("server", "request") /\ Stays /\ replied' = replied
  BY DEF ServerReadsRequest, Stays
<1>3. /\ m.c \in Conv /\ m.id = idof["server"][m.c] /\ Known("server", m.c) /\ owed \in [Conv -> Nat]
      /\ AppTypes
  BY <1>1, <1>2, AskFacts DEF Rule, Types, AppTypes
<1>4. PICK e : e = SetWantsReply(Enc("server"), m.id, m.n)
  OBVIOUS
<1>5. CASE /\ setup.prompt /\ owed' = owed
           /\ \E t \in {"success", "failure"} : Deliver("server", answer(e, m.id, t), m, "Request")
  <2>1. PICK t \in {"success", "failure"} : Deliver("server", answer(e, m.id, t), m, "Request")
    BY <1>5
  <2>2. PICK f : f = answer(e, m.id, t)
    OBVIOUS
  <2>3. RequestRight(m, f) /\ CountsReplies("server", m, f)
    BY <1>1, <1>2, <1>4, <2>2, PromptRight
  <2>4. OwedMoves
    BY <1>5 DEF OwedMoves
  <2>5. Deliver("server", f, m, "Request")
    BY <2>1, <2>2
  <2> QED
    BY <1>1, <1>2, <1>3, <1>5, <2>3, <2>4, <2>5, TellStep
<1>6. CASE /\ ~setup.prompt /\ Deliver("server", e, m, "Request")
           /\ owed' = [owed EXCEPT ![m.c] = owed[m.c] + 1]
  <2>1. RequestRight(m, e) /\ CountsReplies("server", m, e)
    BY <1>1, <1>2, <1>4, <1>6, LaterRight
  <2>2. owed' \in [Conv -> Nat]
    BY <1>3, <1>6
  <2>3. OwedMoves
    <3>1. PICK p \in Peers : p = "server"
      BY DEF Peers
    <3>2. Live(p) /\ net[p] # <<>> /\ m.t \in Ordinary
      BY <1>1, <1>2, <3>1, AskFacts
    <3>3. e \in Encs /\ QueueTypes /\ refs \in [Peers -> RefTables] /\ blocked[p] = <<>>
      BY <2>1, <3>2 DEF RequestRight, Worked, Rule, Types, IdTypes, Live
    <3>4. Answers(p, e)
      <4>1. PICK t \in NoteNames : t = "Request"
        BY DEF NoteNames
      <4>2. Deliver(p, e, m, t)
        BY <1>6, <3>1, <4>1
      <4> QED
        BY <1>1, <3>1, <3>2, <3>3, <4>2, DeliverEffect
    <3>5. Worked(chans[p], m.id, e)
      BY <2>1, <3>1 DEF RequestRight
    <3>6. RefsStay
      BY <1>2, <1>3, <2>2, StaysTypes DEF AppTypes
    <3>7. m.t \in Ordinary \cup {"open-failure"} /\ m.t # "open-failure"
      BY <3>2 DEF Ordinary
    <3>8. Works(p, m.c, e)
      BY <1>1, <1>2, <3>1, <3>4, <3>5, <3>6, <3>7, ReadWorks DEF Stays
    <3>9. Grows
      BY <1>3, <3>1, <3>8, WorkGrows DEF Rule, Types
    <3>10. Settled("server", m.c)
      <4>1. Line(p) # <<>> /\ Head(Line(p)) = m
        BY <1>1, <3>1, <3>2, HeadFacts
      <4>2. Has(p, m.c) => Ch(p, m.c).confirmed
        BY <1>3, <3>2, <3>3, <4>1, GotConfirmed DEF Rule
      <4> QED
        BY <1>3, <3>1, <4>2 DEF Settled
    <3>11. Settled("server", m.c)'
      BY <1>3, <3>1, <3>9, <3>10 DEF Grows
    <3>12. ASSUME NEW d \in Conv, owed'[d] > 0
           PROVE  owed[d] > 0 \/ (Settled("server", d)' /\ ~setup.prompt)
      <4>1. CASE d = m.c
        BY <1>6, <3>11, <4>1
      <4>2. CASE d # m.c
        BY <1>3, <1>6, <3>12, <4>2
      <4> QED
        BY <4>1, <4>2
    <3> QED
      BY <3>12 DEF OwedMoves
  <2> QED
    BY <1>1, <1>2, <1>6, <2>1, <2>2, <2>3, TellStep
<1> QED
  BY <1>1, <1>4, <1>5, <1>6 DEF ServerReadsRequest

LEMMA ServerReadsNoticeStep ==
  ASSUME Rule, ServerReadsNotice
  PROVE  Rule'
<1>1. PICK m : m = Head(net["server"])
  OBVIOUS
<1>2. PICK e : e = SetWantsReply(Enc("server"), m.id, m.n)
  OBVIOUS
<1>3. /\ Reads("server", "request") /\ Stays /\ replied' = replied /\ owed' = owed
      /\ m.k = "notice" /\ Deliver("server", e, m, "Request")
  BY <1>1, <1>2 DEF ServerReadsNotice, Stays
<1>4. RequestRight(m, e) /\ CountsReplies("server", m, e)
  BY <1>1, <1>2, <1>3, LaterRight
<1>5. OwedMoves /\ owed' \in [Conv -> Nat]
  BY <1>3 DEF OwedMoves, Rule, Types, AppTypes
<1> QED
  BY <1>1, <1>3, <1>4, <1>5, TellStep

LEMMA ServerReadsUnknownRequestStep ==
  ASSUME Rule, ServerReadsUnknownRequest
  PROVE  Rule'
<1>1. PICK p \in Peers : p = "server"
  BY DEF Peers
<1>2. PICK m : m = Head(net["server"])
  OBVIOUS
<1>3. PICK t \in {"success", "failure"} : t = "failure"
  OBVIOUS
<1>4. PICK e : e = answer(SetWantsReply(Enc("server"), m.id, m.n), m.id, t)
  OBVIOUS
<1>5. /\ Reads("server", "request") /\ Stays /\ replied' = replied /\ owed' = owed
      /\ Reply(p, e) /\ buf' = buf /\ blocked' = blocked
  BY <1>1, <1>2, <1>4, <1>3 DEF ServerReadsUnknownRequest, Stays
<1>6. RequestRight(m, e) /\ CountsReplies(p, m, e)
  BY <1>1, <1>2, <1>4, <1>5, PromptRight
<1>7. RefsStay
  BY <1>5, StaysTypes DEF Rule, Types, AppTypes
<1>8. Live(p) /\ net[p] # <<>> /\ m.t \in Ordinary /\ m = Head(net[p])
  BY <1>1, <1>2, <1>5, AskFacts
<1>9. /\ Worked(chans[p], m.id, e) /\ \A x \in Elems(e.out) : x.t # "request"
      /\ Accounts(chans[p], m.id, e, 0, Amount(m, m.c, "adjust"), Amount(m, m.c, "data"))
  BY <1>1, <1>6 DEF RequestRight
<1> QED
  BY <1>5, <1>6, <1>7, <1>8, <1>9, ReplyStep DEF Stays

-----------------------------------------------------------------------------
(* The answer to an open call is read. *)
LEMMA ConfirmFlows ==
  ASSUME Rule, NEW p \in Peers, NEW c \in Conv, NEW a \in Params, Confirms(p, c, a),
         a.swin = Ch(p, c).swin, a.rwin = Head(Line(p)).n, a.pend = Ch(p, c).pend
  PROVE  /\ IdTypes' /\ CoreInv' /\ WindowInv' /\ Grows /\ SameKnown /\ Changes(p, c)
         /\ \A q \in Peers : Silent(q)
         /\ \A q \in Peers, d \in Conv : Pend(q, d)' = Pend(q, d)
         /\ Settled(p, c)' /\ Has(p, c)' = Has(p, c)
<1>1. IdTypes /\ QueueTypes /\ CoreInv /\ WindowInv /\ OwnInv
  BY DEF Rule, Types, CoreInv
<1>2. /\ IdTypes' /\ CoreInv' /\ Has(p, c) /\ ~Ch(p, c).confirmed
      /\ Has(p, c)' /\ Ch(p, c)' = a /\ Known(Other(p), c)
      /\ Head(Line(p)).n = Window
  BY <1>1, ConfirmCore
<1>3. /\ \A q \in Peers, d \in Conv : Has(q, d)' = Has(q, d) /\ Known(q, d)' = Known(q, d)
      /\ \A q \in Peers, d \in Conv : (q # p \/ d # c) /\ Has(q, d) => Ch(q, d)' = Ch(q, d)
  BY <1>1, ConfirmCore
<1>4. Other(p) \in Peers /\ Other(p) # p /\ Other(Other(p)) = p /\ Peers = {p, Other(p)}
  BY PeerFacts
<1>5. a.confirmed /\ a.rwin = Window
  BY <1>2 DEF Confirms
<1>6. Silent(p)
  <2>1. Head(Line(p)).t \in Heralds /\ Line(p) # <<>> /\ Line(p)' = Tail(Line(p))
    BY DEF Confirms, Heralds
  <2> QED
    BY <1>1, <2>1, SilentTail
<1>7. Silent(Other(p))
  <2>1. Line(Other(p))' = Line(Other(p))
    BY DEF Confirms
  <2> QED
    BY <1>4, <2>1, SilentSame
<1>8. \A q \in Peers : Silent(q)
  BY <1>4, <1>6, <1>7
<1>9. SameKnown
  BY <1>3 DEF SameKnown
<1>10. Known(p, c)
  BY <1>1, <1>2, HasFacts
<1>11. Settled(p, c)'
  BY <1>2, <1>3, <1>5, <1>10 DEF Settled
<1>12. Grows
  <2>1. ASSUME NEW q \in Peers, NEW d \in Conv, Settled(q, d) PROVE Settled(q, d)'
    <3>1. CASE q = p /\ d = c
      BY <1>11, <3>1
    <3>2. CASE q # p \/ d # c
      BY <1>3, <2>1, <3>2 DEF Settled
    <3> QED
      BY <3>1, <3>2
  <2> QED
    BY <1>3, <2>1 DEF Grows
<1>13. Changes(p, c)
  BY <1>3 DEF Changes
<1>14. Flow(p, c)' = Flow(p, c)
  <2>1. \A t \in Ordinary : Total(Line(p)', c, t) = Total(Line(p), c, t)
    BY <1>6 DEF Silent
  <2>2. \A t \in Ordinary : Total(Line(Other(p))', c, t) = Total(Line(Other(p)), c, t)
    BY <1>7 DEF Silent
  <2>3. "data" \in Ordinary /\ "adjust" \in Ordinary
    BY DEF Ordinary
  <2>4. Flow(p, c) = (Window + Total(Line(Other(p)), c, "data")) + Total(Line(p), c, "adjust")
    BY <1>2 DEF Flow
  <2>5. Flow(p, c)' = (Window + Total(Line(Other(p))', c, "data")) + Total(Line(p)', c, "adjust")
    <3>1. Flow(p, c)' = ((IF Ch(p, c)'.confirmed THEN Ch(p, c)'.rwin ELSE Window)
            + Total(Line(Other(p))', c, "data")) + Total(Line(p)', c, "adjust")
      BY DEF Flow, Total, SumTo
    <3>2. (IF Ch(p, c)'.confirmed THEN Ch(p, c)'.rwin ELSE Window) = Window
      BY <1>2, <1>5
    <3> QED
      BY <3>1, <3>2
  <2> QED
    BY <2>1, <2>2, <2>3, <2>4, <2>5
<1>15. Fits(p, c)
  <2>1. Flow(p, c)' <= Window
    BY <1>1, <1>2, <1>14 DEF WindowInv
  <2>2. ASSUME Has(Other(p), c)
        PROVE  Ch(Other(p), c).swin = Flow(p, c)' /\ Ch(p, c)'.swin = Flow(Other(p), c)
    BY <1>1, <1>2, <1>4, <1>14, <2>2 DEF WindowInv
  <2>3. Ch(p, c)'.swin <= Window
    BY <1>1, <1>2 DEF WindowInv
  <2> QED
    BY <1>2, <1>5, <2>1, <2>2, <2>3 DEF Fits
<1>16. WindowInv'
  BY <1>1, <1>8, <1>13, <1>15, ChangeWindow
<1>17. ASSUME NEW q \in Peers, NEW d \in Conv PROVE Pend(q, d)' = Pend(q, d)
  <2>1. CASE q = p /\ d = c
    BY <1>2, <1>3, <2>1 DEF Pend
  <2>2. CASE q # p \/ d # c
    BY <1>3, <2>2 DEF Pend
  <2> QED
    BY <2>1, <2>2
<1> QED
  BY <1>2, <1>3, <1>8, <1>9, <1>11, <1>12, <1>13, <1>16, <1>17

(* The confirmation finds the channel of its open call. *)
LEMMA ConfirmReads ==
  ASSUME Rule, NEW p \in Peers, ReadsConfirmation(p)
  PROVE  /\ Head(net[p]).c \in Conv /\ Known(p, Head(net[p]).c)
         /\ Head(net[p]).id = idof[p][Head(net[p]).c]
         /\ failed' = failed /\ idof' = idof /\ last' = last /\ refs' = refs /\ inbox' = inbox
         /\ end' = end /\ setup' = setup /\ owed' = owed /\ done' = done /\ asked' = asked
         /\ replied' = replied
         /\ \E a \in Params, e \in Encs :
              /\ Confirms(p, Head(net[p]).c, a) /\ a.swin = Ch(p, Head(net[p]).c).swin
              /\ a.rwin = Head(Line(p)).n /\ a.pend = Ch(p, Head(net[p]).c).pend
              /\ Answers(p, e) /\ Noted(p, Head(net[p]), "Open") /\ e.out = <<>>
<1>1. PICK m : m = Head(net[p])
  OBVIOUS
<1>2. /\ Live(p) /\ net[p] # <<>> /\ m.t = "confirmation"
      /\ UNCHANGED <<posted, idof, last, refs, inbox, end, setup, owed, done, asked, replied>>
      /\ m.id \in DOMAIN chans[p] =>
           Deliver(p, confirm(Enc(p), m.id, m.k, m.n), m, "Open") /\ failed' = failed
  BY <1>1 DEF ReadsConfirmation, Reads
<1>3. /\ m \in Packets /\ m.n \in Nat /\ GoodPacket(p, m) /\ Head(Line(p)) = m /\ Line(p) # <<>>
  BY <1>1, <1>2, HeadGood
<1>4. PICK c \in Conv : c = m.c
  BY <1>1, <1>2, HeadGood
<1>5. /\ QueueTypes /\ CoreInv /\ IdTypes /\ OwnInv /\ refs \in [Peers -> RefTables]
      /\ blocked[p] = <<>>
  BY <1>2 DEF Rule, Types, CoreInv, IdTypes, Live
<1>6. Known(Other(p), c) /\ m.k = idof[Other(p)][c] /\ Has(p, c) /\ m.id = idof[p][c] /\ Known(p, c)
  BY <1>2, <1>3, <1>4 DEF GoodPacket
<1>7. m.k \in Nat
  <2>1. Other(p) \in Peers
    BY PeerFacts
  <2>2. idof[Other(p)][c] \in Ids \cup {IdSpace}
    BY <1>5, <2>1 DEF IdTypes
  <2> QED
    BY <1>6, <2>2, ChannelTableAssumption DEF Ids
<1>8. PICK tab \in Tables : tab = chans[p]
  BY <1>5 DEF IdTypes
<1>9. PICK id \in DOMAIN tab : id = m.id /\ id = idof[p][c]
  BY <1>6, <1>8 DEF Has
<1>10. PICK ch \in Params : ch = tab[id] /\ ch = Ch(p, c)
  BY <1>8, <1>9, TableFacts DEF Ch
<1>11. PICK a : a = [ch EXCEPT !.peer = m.k, !.rwin = m.n, !.confirmed = TRUE]
  OBVIOUS
<1>12. /\ a \in Params /\ a.peer = m.k /\ a.rwin = m.n /\ a.confirmed /\ a.swin = ch.swin
       /\ a.pend = ch.pend /\ a.c = ch.c
  BY <1>3, <1>7, <1>11 DEF Params
<1>13. ch.c = c
  BY <1>5, <1>6, <1>10, HasFacts
<1>14. PICK T \in Tables : T = [tab EXCEPT ![id] = a]
  BY <1>12, TableExcept
<1>15. PICK r \in Seq(Packets) : r = <<>>
  <2>1. <<>> \in Seq(Packets)
    OBVIOUS
  <2> QED
    BY <2>1
<1>16. PICK e \in Encs : e = [chans |-> T, out |-> r] /\ e.chans = T /\ e.out = r
  <2>1. PICK e : e = [chans |-> T, out |-> r]
    OBVIOUS
  <2>2. e \in Encs /\ e.chans = T /\ e.out = r
    BY <2>1 DEF Encs
  <2> QED
    BY <2>1, <2>2
<1>17. confirm(Enc(p), m.id, m.k, m.n) = e
  <2>1. PICK g : g = Enc(p)
    OBVIOUS
  <2>2. g = [chans |-> tab, out |-> r] /\ g.chans = tab
    BY <1>8, <1>15, <2>1 DEF Enc
  <2>3. PICK x, y : x = m.k /\ y = m.n
    OBVIOUS
  <2>4. confirm(g, id, x, y) = [g EXCEPT !.chans[id] = a]
    BY <1>10, <1>11, <2>2, <2>3 DEF confirm
  <2>5. [g EXCEPT !.chans[id] = a] = [chans |-> [tab EXCEPT ![id] = a], out |-> r]
    BY <2>2, ExceptChannel
  <2>6. confirm(g, id, x, y) = e
    BY <1>14, <1>16, <2>4, <2>5
  <2> QED
    BY <1>9, <2>1, <2>3, <2>6
<1>18. PICK t \in NoteNames : t = "Open"
  BY DEF NoteNames
<1>19. Deliver(p, e, m, t) /\ failed' = failed
  BY <1>2, <1>8, <1>9, <1>17, <1>18
<1>20. Answers(p, e) /\ Noted(p, m, t)
  BY <1>1, <1>2, <1>5, <1>19, DeliverEffect
<1>21. Confirms(p, c, a)
  <2>1. chans' = [chans EXCEPT ![p] = T]
    BY <1>16, <1>20 DEF Answers
  <2>2. chans' = [chans EXCEPT ![p] = [chans[p] EXCEPT ![idof[p][c]] = a]]
    BY <1>8, <1>9, <1>14, <2>1
  <2>3. Line(Other(p))' = Line(Other(p)) \o r /\ Line(p)' = Tail(Line(p))
    BY <1>16, <1>20 DEF Answers
  <2>4. Line(Other(p)) \in Seq(Packets)
    BY <1>5, PeerFacts, LineTyped
  <2>5. Line(Other(p)) \o r = Line(Other(p))
    BY <1>15, <2>4, ConcatEmptySeq
  <2> QED
    BY <1>2, <1>3, <1>4, <1>12, <1>13, <2>2, <2>3, <2>5 DEF Confirms
<1>22. PICK b \in Params, f \in Encs :
         /\ Confirms(p, c, b) /\ b.swin = Ch(p, c).swin
         /\ b.rwin = Head(Line(p)).n /\ b.pend = Ch(p, c).pend
         /\ Answers(p, f) /\ Noted(p, m, "Open") /\ f.out = <<>>
  BY <1>3, <1>10, <1>12, <1>15, <1>16, <1>18, <1>20, <1>21
<1> QED
  BY <1>1, <1>2, <1>4, <1>6, <1>19, <1>22

LEMMA ReadsConfirmationStep ==
  ASSUME Rule, NEW p \in Peers, ReadsConfirmation(p)
  PROVE  Rule'
<1>1. PICK m : m = Head(net[p])
  OBVIOUS
<1>2. /\ m.id = idof[p][m.c] /\ m.c \in Conv
      /\ Known(p, m.c) /\ failed' = failed /\ idof' = idof /\ last' = last /\ refs' = refs
      /\ inbox' = inbox /\ end' = end /\ setup' = setup /\ owed' = owed /\ done' = done
      /\ asked' = asked /\ replied' = replied
  BY <1>1, ConfirmReads
<1>3. PICK a \in Params, e \in Encs :
        /\ Confirms(p, m.c, a) /\ a.swin = Ch(p, m.c).swin
        /\ a.rwin = Head(Line(p)).n /\ a.pend = Ch(p, m.c).pend
        /\ Answers(p, e) /\ Noted(p, m, "Open") /\ e.out = <<>>
  BY <1>1, ConfirmReads
<1>4. PICK c \in Conv : c = m.c
  BY <1>2
<1>5. /\ IdTypes' /\ CoreInv' /\ WindowInv' /\ Grows /\ SameKnown /\ Changes(p, c)
      /\ \A q \in Peers : Silent(q)
      /\ \A q \in Peers, d \in Conv : Pend(q, d)' = Pend(q, d)
      /\ Settled(p, c)' /\ Has(p, c)' = Has(p, c)
  BY <1>3, <1>4, ConfirmFlows
<1>6. IdTypes /\ QueueTypes /\ InboxTypes /\ AppTypes /\ CoreInv /\ OwnInv /\ AppInv /\ SessionSurvives
  BY DEF Rule, Types, CoreInv
<1>7. Types' /\ SessionSurvives' /\ QueueTypes' /\ InboxTypes' /\ AppTypes'
  <2>1. QueueTypes'
    BY <1>3 DEF Answers
  <2>2. InboxTypes' /\ AppTypes' /\ SessionSurvives'
    BY <1>2, <1>6 DEF InboxTypes, AppTypes, SessionSurvives
  <2> QED
    BY <1>5, <2>1, <2>2 DEF Types
<1>8. NotesMove
  BY <1>2, <1>3, <1>4, <1>5, NotedRight
<1>9. AppMoves
  BY <1>2, <1>5, <1>8 DEF AppMoves, NotesMove, SameKnown
<1>10. InboxMoves
  BY <1>2, <1>5, <1>6, InboxShrinks
<1>11. PendMoves
  <2>1. ASSUME NEW q \in Peers, NEW d \in Conv
        PROVE  /\ Pend(q, d)' + Total(inbox'[q], d, "data") <= Pend(q, d) + Total(inbox[q], d, "data")
               /\ Pend(q, d)' \in Nat /\ Total(inbox'[q], d, "data") \in Nat
               /\ done'[q][d] >= done[q][d] \/ done'[q][d] >= MaxWrites
    <3>1. Pend(q, d) \in Nat /\ Total(inbox[q], d, "data") \in Nat
      BY <1>6, PendNat
    <3>2. Pend(q, d)' = Pend(q, d) /\ Total(inbox'[q], d, "data") = Total(inbox[q], d, "data")
      BY <1>2, <1>5
    <3>3. done'[q][d] = done[q][d] /\ done[q][d] \in Nat
      BY <1>2, <1>6 DEF AppTypes
    <3> QED
      BY <3>1, <3>2, <3>3
  <2> QED
    BY <2>1 DEF PendMoves
<1>12. ReplyMoves
  <2>1. \A x \in Elems(Held("client")') : x \in Elems(Held("client"))
    <3>1. \A q \in Peers : \A x \in Elems(Held(q))' : x \in Elems(Held(q)) \/ (q = p /\ x \in Elems(e.out))
      BY <1>3 DEF Answers
    <3>2. \A x : x \notin Elems(e.out)
      BY <1>3, ElemsEmpty
    <3>3. "client" \in Peers /\ Elems(Held("client")') = Elems(Held("client"))'
      BY DEF Peers, Elems
    <3> QED
      BY <3>1, <3>2, <3>3
  <2>2. \A x \in Elems(Line("server")') : x \in Elems(Line("server")) \/ x.t \in Heralds
    <3>1. \A q \in Peers : Line(q)' = Line(q) \/ (Line(q) # <<>> /\ Line(q)' = Tail(Line(q)))
      BY <1>3, PeerFacts DEF Confirms
    <3>2. PICK q \in Peers : q = "server"
      BY DEF Peers
    <3>3. Line(q) \in Seq(Packets)
      BY <1>6, LineTyped
    <3>4. \A x \in Elems(Line(q)') : x \in Elems(Line(q))
      BY <3>1, <3>3, ElemsTail
    <3> QED
      BY <3>2, <3>4
  <2> QED
    BY <1>2, <1>5, <1>6, <2>1, <2>2, ReplyQuiet
<1> QED
  BY <1>5, <1>7, <1>9, <1>10, <1>11, <1>12, Together

-----------------------------------------------------------------------------
(* A side gives a conversation its id. *)
LEMMA EnterStep ==
  ASSUME Rule, NEW p \in Peers, NEW c \in Conv, NEW id, NEW a \in Params, Entered(p, c, id, a),
         Types', CoreInv', \A q \in Peers : Silent(q),
         Has(Other(p), c) => ~Ch(Other(p), c).confirmed,
         a.swin = Window, a.rwin \in {0, Window}, a.confirmed => a.rwin = Window, a.pend = 0,
         c \in DOMAIN setup.by, setup.by[c] \in Peers, end[setup.by[c]][c] # "none",
         NotesMove, setup' = setup, owed' = owed, done' = done, asked' = asked, replied' = replied,
         SessionSurvives',
         \A q \in Peers, d \in Conv :
           /\ end[q][d] # "none" => end'[q][d] # "none"
           /\ end'[q][d] = "open" => end[q][d] = "open" \/ Settled(q, d)',
         \A q \in Peers :
           First(inbox'[q]) /\ \A m \in Elems(inbox'[q]) :
             m \in Elems(inbox[q]) /\ (m.t = "open" => m.c # c),
         \A q \in Peers, d \in Conv : Total(inbox'[q], d, "data") = Total(inbox[q], d, "data"),
         \A m \in Elems(Line("server")') : m \in Elems(Line("server")) \/ m.t \in Heralds,
         \A m \in Elems(Held("client")') : m \in Elems(Held("client"))
  PROVE  Rule'
<1>1. /\ IdTypes /\ QueueTypes /\ InboxTypes /\ AppTypes /\ CoreInv /\ OwnInv /\ AppInv
      /\ WindowInv
  BY DEF Rule, Types, CoreInv
<1>2. /\ Grows /\ Changes(p, c)
      /\ \A q \in Peers, d \in Conv : Known(q, d)' => Known(q, d) \/ (q = p /\ d = c)
  BY EnterGrows
<1>3. ~Known(p, c) /\ ~Has(p, c) /\ (Has(p, c)' => Ch(p, c)' = a)
  BY DEF Entered
<1>4. WindowInv'
  <2>1. Fits(p, c)
    BY <1>1, <1>3, NewFits
  <2> QED
    BY <1>1, <1>2, <2>1, ChangeWindow
<1>5. AppMoves
  <2>1. ASSUME NEW q \in Peers, NEW d \in Conv, Known(q, d)', ~Known(q, d)
        PROVE  d \in DOMAIN setup.by /\ setup.by[d] \in Peers /\ end[setup.by[d]][d] # "none"
    <3>1. d = c
      BY <1>2, <2>1
    <3> QED
      BY <3>1
  <2> QED
    BY <1>2, <2>1 DEF AppMoves, NotesMove
<1>6. InboxMoves
  <2>1. ASSUME NEW q \in Peers, NEW m \in Elems(inbox'[q])
        PROVE  m \in Elems(inbox[q]) /\ m.c \in Conv /\ (m.t = "open" => \A r \in Peers : ~Known(r, m.c)')
    <3>1. m \in Elems(inbox[q]) /\ (m.t = "open" => m.c # c)
      OBVIOUS
    <3>2. m.c \in Conv
      <4>1. inbox[q] \in Seq(Requests)
        BY <1>1 DEF InboxTypes
      <4>2. m \in Requests
        BY <3>1, <4>1, ElemsTyped
      <4> QED
        BY <4>2 DEF Requests
    <3>3. m.t = "open" => \A r \in Peers : ~Known(r, m.c)
      BY <1>1, <3>1 DEF AppInv, InboxInv, GoodRequest
    <3>4. m.t = "open" => \A r \in Peers : ~Known(r, m.c)'
      BY <1>2, <3>1, <3>2, <3>3
    <3> QED
      BY <3>1, <3>2, <3>4
  <2> QED
    BY <2>1 DEF InboxMoves
<1>7. PendMoves
  <2>1. ASSUME NEW q \in Peers, NEW d \in Conv
        PROVE  /\ Pend(q, d)' + Total(inbox'[q], d, "data") <= Pend(q, d) + Total(inbox[q], d, "data")
               /\ Pend(q, d)' \in Nat /\ Total(inbox'[q], d, "data") \in Nat
               /\ done'[q][d] >= done[q][d] \/ done'[q][d] >= MaxWrites
    <3>1. Pend(q, d) \in Nat /\ Total(inbox[q], d, "data") \in Nat
      BY <1>1, PendNat
    <3>2. Pend(q, d)' = Pend(q, d)
      <4>1. CASE q = p /\ d = c
        <5>1. Pend(p, c)' = 0
          BY <1>3 DEF Pend
        <5>2. Pend(p, c) = 0
          BY <1>3 DEF Pend
        <5> QED
          BY <4>1, <5>1, <5>2
      <4>2. CASE q # p \/ d # c
        BY <1>2, <4>2 DEF Pend, Changes
      <4> QED
        BY <4>1, <4>2
    <3>3. done'[q][d] = done[q][d] /\ done[q][d] \in Nat
      BY <1>1 DEF AppTypes
    <3> QED
      BY <3>1, <3>2, <3>3
  <2> QED
    BY <2>1 DEF PendMoves
<1>8. ReplyMoves
  BY <1>1, <1>2, <1>3, ReplyQuiet
<1> QED
  BY <1>4, <1>5, <1>6, <1>7, <1>8, Together

LEMMA LineAppends ==
  ASSUME QueueTypes, NEW p \in Peers, NEW x \in Packets, blocked[p] = <<>>, blocked' = blocked,
         net' = [net EXCEPT ![Other(p)] = Append(net[Other(p)], x)]
  PROVE  /\ net' \in [Peers -> Seq(Packets)]
         /\ Line(p)' = Line(p) /\ Line(Other(p))' = Append(Line(Other(p)), x)
<1>1. Other(p) \in Peers /\ Other(p) # p /\ Other(Other(p)) = p
  BY PeerFacts
<1>2. net \in [Peers -> Seq(Packets)]
  BY DEF QueueTypes
<1>3. PICK s \in Seq(Packets) : s = net[Other(p)]
  BY <1>1, <1>2
<1>4. PICK t \in Seq(Packets) : t = Append(s, x)
  BY <1>3, ElemsAppend
<1>5. net' = [net EXCEPT ![Other(p)] = t]
  BY <1>3, <1>4
<1>6. net' \in [Peers -> Seq(Packets)] /\ net'[Other(p)] = t /\ net'[p] = net[p]
  BY <1>1, <1>2, <1>5
<1>7. Held(p) = <<>> /\ Held(p)' = <<>> /\ Held(Other(p))' = Held(Other(p))
  BY DEF Held
<1>8. Line(p)' = Line(p)
  BY <1>6, <1>7 DEF Line
<1>9. Line(Other(p)) = s
  BY <1>1, <1>3, <1>7, ConcatEmptySeq DEF Line
<1>10. Line(Other(p))' = t
  BY <1>1, <1>4, <1>6, <1>7, ConcatEmptySeq DEF Line
<1> QED
  BY <1>4, <1>6, <1>8, <1>9, <1>10

(* The message taken from the queue, and those that stay *)
LEMMA TakenFirst ==
  ASSUME Rule, NEW p \in Peers, inbox[p] # <<>>, NEW m, m = Head(inbox[p]),
         inbox' = [inbox EXCEPT ![p] = Tail(inbox[p])]
  PROVE  /\ m \in Requests /\ m.c \in Conv /\ GoodRequest(p, m) /\ InboxTypes'
         /\ \A q \in Peers :
              First(inbox'[q]) /\ \A x \in Elems(inbox'[q]) :
                x \in Elems(inbox[q]) /\ (q = p /\ x.t = "open" => x.c # m.c)
<1>1. InboxTypes /\ InboxInv
  BY DEF Rule, Types, AppInv
<1>2. PICK s \in Seq(Requests) : s = inbox[p]
  BY <1>1 DEF InboxTypes
<1>3. m \in Elems(s) /\ Elems(Tail(s)) \subseteq Elems(s)
  BY <1>2, ElemsTail
<1>4. m \in Requests
  BY <1>2, HeadTailProperties
<1>5. m.c \in Conv
  BY <1>4 DEF Requests
<1>6. GoodRequest(p, m)
  BY <1>1, <1>2, <1>3 DEF InboxInv
<1>7. First(s)
  BY <1>1, <1>2 DEF InboxInv
<1>8. First(Tail(s)) /\ \A x \in Elems(Tail(s)) : x.t \in Heralds => x.c # m.c
  BY <1>2, <1>7, FirstTail
<1>9. PICK t : t = Tail(s)
  OBVIOUS
<1>10. t \in Seq(Requests) /\ Len(t) = Len(s) - 1 /\ Len(s) \in Nat
  BY <1>2, <1>9, HeadTailProperties
<1>11. inbox' = [inbox EXCEPT ![p] = t]
  BY <1>2, <1>9
<1>12. InboxTypes'
  BY <1>1, <1>2, <1>10, <1>11, ChannelTableAssumption DEF InboxTypes
<1>13. ASSUME NEW q \in Peers
       PROVE  First(inbox'[q]) /\ \A x \in Elems(inbox'[q]) :
                x \in Elems(inbox[q]) /\ (q = p /\ x.t = "open" => x.c # m.c)
  <2>1. CASE q = p
    <3>1. inbox'[q] = t
      BY <1>1, <1>11, <2>1 DEF InboxTypes
    <3> QED
      BY <1>2, <1>3, <1>8, <1>9, <2>1, <3>1 DEF Heralds
  <2>2. CASE q # p
    <3>1. inbox'[q] = inbox[q]
      BY <1>1, <1>11, <2>2 DEF InboxTypes
    <3> QED
      BY <1>1, <2>2, <3>1 DEF InboxInv
  <2> QED
    BY <2>1, <2>2
<1> QED
  BY <1>4, <1>5, <1>6, <1>12, <1>13

LEMMA TakesOpenStep ==
  ASSUME Rule, NEW p \in Peers, TakesOpen(p)
  PROVE  Rule'
<1>1. /\ IdTypes /\ QueueTypes /\ InboxTypes /\ AppTypes /\ CoreInv /\ OwnInv /\ AppInv
      /\ CountInv /\ SessionSurvives
  BY DEF Rule, Types, CoreInv
<1>2. PICK m : m = Head(inbox[p])
  OBVIOUS
<1>3. PICK id : id = new_channel_id(p)
  OBVIOUS
<1>4. /\ blocked[p] = <<>> /\ inbox[p] # <<>> /\ m.t = "open"
      /\ inbox' = [inbox EXCEPT ![p] = Tail(inbox[p])]
      /\ UNCHANGED <<posted, buf, blocked, end, failed, setup, owed, done, asked, replied,
                     closing>>
  BY <1>2 DEF TakesOpen, Takes, Live
<1>5. m \in Requests /\ GoodRequest(p, m) /\ InboxTypes'
  BY <1>2, <1>4, TakenFirst
<1>6. PICK c \in Conv : c = m.c
  BY <1>2, <1>4, TakenFirst
<1>7. /\ last' = [last EXCEPT ![p] = id] /\ idof' = [idof EXCEPT ![p][c] = id]
      /\ chans' = [chans EXCEPT ![p] = With(chans[p], id, NewParams(0, 0, FALSE, c))]
      /\ refs' = [refs EXCEPT ![p] = With(refs[p], id, c)]
      /\ net' = [net EXCEPT ![Other(p)] = Append(net[Other(p)], Packet("open", id, m.k, Window, c))]
  BY <1>2, <1>3, <1>6 DEF TakesOpen
<1>8. /\ c \in DOMAIN setup.by /\ setup.by[c] = p /\ end[p][c] # "none"
      /\ \A q \in Peers : ~Known(q, c)
  BY <1>4, <1>5, <1>6 DEF GoodRequest
<1>9. Fresh(p, c, id)
  BY <1>1, <1>3, <1>8, NewId
<1>10. id \in Ids /\ id \in Nat
  BY <1>9 DEF Fresh
<1>11. PICK a \in Params : /\ a = NewParams(0, 0, FALSE, c) /\ a.c = c /\ ~a.confirmed
                           /\ a.swin = Window /\ a.rwin = 0 /\ a.pend = 0
  <2>1. PICK a : a = NewParams(0, 0, FALSE, c)
    OBVIOUS
  <2>2. /\ a \in Params /\ a.c = c /\ ~a.confirmed /\ a.swin = Window /\ a.rwin = 0 /\ a.pend = 0
    BY <2>1, ChannelTableAssumption DEF NewParams, Params
  <2> QED
    BY <2>1, <2>2
<1>12. PICK x \in Packets : /\ x = Packet("open", id, m.k, Window, c)
                            /\ x.t = "open" /\ x.c = c /\ x.id = id /\ x.n = Window
  <2>1. PICK x : x = Packet("open", id, m.k, Window, c)
    OBVIOUS
  <2>2. m.k \in Labels
    BY <1>5 DEF Requests
  <2>3. /\ x \in Packets /\ x.t = "open" /\ x.c = c /\ x.id = id /\ x.n = Window
    BY <1>10, <2>1, <2>2, ChannelTableAssumption DEF Packet, Packets, Heralds
  <2> QED
    BY <2>1, <2>3
<1>13. Enters(p, c, id, a)
  BY <1>7, <1>11 DEF Enters
<1>14. IdTypes' /\ Entered(p, c, id, a)
  BY <1>1, <1>9, <1>11, <1>13, EnterOwn
<1>15. net' = [net EXCEPT ![Other(p)] = Append(net[Other(p)], x)]
  BY <1>7, <1>12
<1>16. /\ net' \in [Peers -> Seq(Packets)]
       /\ Line(p)' = Line(p) /\ Line(Other(p))' = Append(Line(Other(p)), x)
  BY <1>1, <1>4, <1>15, LineAppends
<1>17. chans' # chans
  <2>1. PICK T \in Tables : T = With(chans[p], id, a) /\ DOMAIN T = DOMAIN chans[p] \cup {id}
    <3>1. PICK f \in Tables : f = chans[p]
      BY <1>1 DEF IdTypes
    <3>2. PICK i \in Ids : i = id
      BY <1>10
    <3>3. PICK T : T = With(f, i, a)
      OBVIOUS
    <3>4. With(f, i, a) \in Tables
      BY TableWith
    <3>5. DOMAIN With(f, i, a) = DOMAIN f \cup {i}
      BY TableWith
    <3> QED
      BY <3>1, <3>2, <3>3, <3>4, <3>5
  <2>2. chans'[p] = T
    BY <1>1, <1>7, <1>11, <2>1 DEF IdTypes
  <2> QED
    BY <1>9, <2>1, <2>2 DEF Fresh
<1>18. CoreInv'
  BY <1>1, <1>8, <1>9, <1>11, <1>12, <1>13, <1>16, <1>17, OpenCore
<1>19. Types' /\ SessionSurvives'
  <2>1. QueueTypes'
    BY <1>1, <1>4, <1>16 DEF QueueTypes
  <2>2. AppTypes' /\ SessionSurvives'
    BY <1>1, <1>4 DEF AppTypes, SessionSurvives
  <2> QED
    BY <1>5, <1>14, <2>1, <2>2 DEF Types
<1>20. Other(p) \in Peers /\ Peers = {p, Other(p)} /\ Other(p) # p
  BY PeerFacts
<1>21. \A q \in Peers : Silent(q)
  <2>1. Silent(p)
    BY <1>16, SilentSame
  <2>2. Silent(Other(p))
    BY <1>1, <1>12, <1>16, <1>20, SilentAppend DEF Heralds
  <2> QED
    BY <1>20, <2>1, <2>2
<1>22. ~Has(Other(p), c)
  BY <1>1, <1>8, <1>20, HasFacts
<1>23. NotesMove
  BY <1>4 DEF NotesMove, InNotes, Elems
<1>24. ASSUME NEW q \in Peers
       PROVE  First(inbox'[q]) /\ \A y \in Elems(inbox'[q]) :
                y \in Elems(inbox[q]) /\ (y.t = "open" => y.c # c)
  <2>1. First(inbox'[q]) /\ \A y \in Elems(inbox'[q]) :
          y \in Elems(inbox[q]) /\ (q = p /\ y.t = "open" => y.c # c)
    BY <1>2, <1>4, <1>6, TakenFirst
  <2>2. ASSUME NEW y \in Elems(inbox'[q]), y.t = "open", y.c = c PROVE FALSE
    <3>1. q # p /\ y \in Elems(inbox[q])
      BY <2>1, <2>2
    <3>2. setup.by[c] = q
      BY <1>1, <2>2, <3>1 DEF AppInv, InboxInv, GoodRequest
    <3> QED
      BY <1>8, <3>1, <3>2
  <2> QED
    BY <2>1, <2>2
<1>25. \A q \in Peers, d \in Conv : Total(inbox'[q], d, "data") = Total(inbox[q], d, "data")
  <2>1. Amount(m, c, "data") = 0
    BY <1>4 DEF Amount
  <2>2. PICK z \in Nat : z = 0
    OBVIOUS
  <2>3. InboxTaken(p, c, z)
    BY <1>2, <1>4, <1>6, <2>1, <2>2 DEF InboxTaken
  <2>4. /\ \A q \in Peers, d \in Conv : q # p \/ d # c =>
             Total(inbox'[q], d, "data") = Total(inbox[q], d, "data")
        /\ Total(inbox[p], c, "data") = z + Total(inbox'[p], c, "data")
        /\ Total(inbox'[p], c, "data") \in Nat
    BY <1>1, <2>3, TakenTotals
  <2>5. Total(inbox[p], c, "data") = Total(inbox'[p], c, "data")
    BY <2>2, <2>4
  <2> QED
    BY <2>4, <2>5
<1>26. \A y \in Elems(Line("server")') : y \in Elems(Line("server")) \/ y.t \in Heralds
  <2>1. PICK q \in Peers : q = "server"
    BY DEF Peers
  <2>2. Line(q)' = Line(q) \/ Line(q)' = Append(Line(q), x)
    BY <1>16, <1>20
  <2>3. Line(q) \in Seq(Packets)
    BY <1>1, LineTyped
  <2>4. \A y \in Elems(Line(q)') : y \in Elems(Line(q)) \/ y = x
    <3>1. CASE Line(q)' = Line(q)
      BY <3>1
    <3>2. CASE Line(q)' = Append(Line(q), x)
      <4>1. PICK s \in Seq(Packets) : s = Line(q)
        BY <2>3
      <4>2. Elems(Append(s, x)) = Elems(s) \cup {x}
        BY ElemsAppend
      <4> QED
        BY <3>2, <4>1, <4>2
    <3> QED
      BY <2>2, <3>1, <3>2
  <2> QED
    BY <1>12, <2>1, <2>4 DEF Heralds
<1>27. Held("client")' = Held("client")
  BY <1>4 DEF Held
<1>28. \A q \in Peers, d \in Conv :
         /\ end[q][d] # "none" => end'[q][d] # "none"
         /\ end'[q][d] = "open" => end[q][d] = "open" \/ Settled(q, d)'
  BY <1>4
<1>29. \A y \in Elems(Held("client")') : y \in Elems(Held("client"))
  BY <1>27
<1> QED
  BY <1>4, <1>8, <1>11, <1>14, <1>18, <1>19, <1>21, <1>22, <1>23, <1>24, <1>25, <1>26, <1>28, <1>29,
     EnterStep

(* e answers the open call m with packet x. *)
OpenAnswer(p, m, id, e, x) ==
  /\ e \in Encs /\ e.out = Append(<<>>, x) /\ x \in Packets /\ x.c = m.c /\ x.id = m.id
  /\ e.chans = chans[p] \/ e.chans = With(chans[p], id, NewParams(m.id, m.n, TRUE, m.c))
  /\ x.t = "open-failure" \/ (x.t = "confirmation" /\ x.k = id /\ x.n = Window)

LEMMA ConfirmationAnswers ==
  ASSUME NEW p \in Peers, chans[p] \in Tables, NEW m \in Packets, NEW id \in Ids, NEW e,
         e = Confirmation(Enc(p), id, m)
  PROVE  OpenAnswer(p, m, id, e, Packet("confirmation", m.id, id, Window, m.c))
<1>1. m.id \in Nat /\ m.n \in Nat /\ m.c \in Conv /\ id \in Nat
  BY PacketsFacts, ChannelTableAssumption DEF Ids
<1>2. PICK f \in Tables : f = chans[p]
  OBVIOUS
<1>3. PICK a : a = NewParams(m.id, m.n, TRUE, m.c)
  OBVIOUS
<1>4. a \in Params
  BY <1>1, <1>3, ChannelTableAssumption DEF NewParams, Params
<1>5. PICK T : T = With(f, id, a)
  OBVIOUS
<1>6. T \in Tables
  <2>1. With(f, id, a) \in Tables
    BY <1>4, TableWith
  <2> QED
    BY <1>5, <2>1
<1>7. PICK x : x = Packet("confirmation", m.id, id, Window, m.c)
  OBVIOUS
<1>8. /\ x \in Packets /\ x.c = m.c /\ x.id = m.id /\ x.t = "confirmation" /\ x.k = id /\ x.n = Window
  BY <1>1, <1>7, ChannelTableAssumption DEF Packet, Packets, Heralds, Labels
<1>9. PICK r \in Seq(Packets) : r = <<>>
  <2>1. <<>> \in Seq(Packets)
    OBVIOUS
  <2> QED
    BY <2>1
<1>10. PICK s : s = Append(r, x)
  OBVIOUS
<1>11. s \in Seq(Packets)
  BY <1>8, <1>9, <1>10, ElemsAppend
<1>12. e = [chans |-> T, out |-> s]
  BY <1>2, <1>3, <1>5, <1>7, <1>9, <1>10 DEF Confirmation, Enc
<1>13. e \in Encs /\ e.chans = T /\ e.out = s
  BY <1>6, <1>11, <1>12 DEF Encs
<1> QED
  BY <1>2, <1>3, <1>5, <1>7, <1>8, <1>9, <1>10, <1>13 DEF OpenAnswer

LEMMA FailureAnswers ==
  ASSUME NEW p \in Peers, chans[p] \in Tables, NEW m \in Packets, NEW id \in Ids, NEW e,
         e = Failure(Enc(p), m)
  PROVE  OpenAnswer(p, m, id, e, Packet("open-failure", m.id, 0, 0, m.c))
<1>1. m.id \in Nat /\ m.n \in Nat /\ m.c \in Conv
  BY PacketsFacts
<1>2. PICK f \in Tables : f = chans[p]
  OBVIOUS
<1>3. PICK x : x = Packet("open-failure", m.id, 0, 0, m.c)
  OBVIOUS
<1>4. /\ x \in Packets /\ x.c = m.c /\ x.id = m.id /\ x.t = "open-failure"
  BY <1>1, <1>3 DEF Packet, Packets, Heralds, Labels
<1>5. PICK r \in Seq(Packets) : r = <<>>
  <2>1. <<>> \in Seq(Packets)
    OBVIOUS
  <2> QED
    BY <2>1
<1>6. PICK s : s = Append(r, x)
  OBVIOUS
<1>7. s \in Seq(Packets)
  BY <1>4, <1>5, <1>6, ElemsAppend
<1>8. e = [chans |-> f, out |-> s]
  BY <1>2, <1>3, <1>5, <1>6 DEF Failure, Enc
<1>9. e \in Encs /\ e.chans = f /\ e.out = s
  BY <1>7, <1>8 DEF Encs
<1> QED
  BY <1>2, <1>3, <1>4, <1>5, <1>6, <1>9 DEF OpenAnswer

LEMMA OpenReads ==
  ASSUME Rule, NEW p \in Peers, Live(p), net[p] # <<>>, NEW m, m = Head(net[p]), m.t = "open"
  PROVE  /\ m \in Packets /\ m.c \in Conv /\ m.id \in Nat /\ m.n = Window
         /\ Line(p) # <<>> /\ Head(Line(p)) = m
         /\ ~Known(p, m.c) /\ Known(Other(p), m.c) /\ ~Ch(Other(p), m.c).confirmed
         /\ m.c \in DOMAIN setup.by /\ setup.by[m.c] \in Peers /\ end[setup.by[m.c]][m.c] # "none"
         /\ Fresh(p, m.c, new_channel_id(p))
<1>1. /\ m \in Packets /\ m.c \in Conv /\ m.n \in Nat /\ GoodPacket(p, m) /\ Head(Line(p)) = m
      /\ Line(p) # <<>>
  BY HeadGood
<1>2. m.id \in Nat
  BY <1>1, PacketsFacts
<1>3. ~Known(p, m.c) /\ Known(Other(p), m.c) /\ ~Ch(Other(p), m.c).confirmed /\ m.n = Window
  BY <1>1 DEF GoodPacket
<1>4. m.c \in DOMAIN setup.by /\ setup.by[m.c] \in Peers /\ end[setup.by[m.c]][m.c] # "none"
  <2>1. Other(p) \in Peers
    BY PeerFacts
  <2> QED
    BY <1>1, <1>3, <2>1 DEF Rule, AppInv, StartedInv
<1>5. Fresh(p, m.c, new_channel_id(p))
  BY <1>1, <1>3, NewId DEF Rule, Types, CoreInv
<1> QED
  BY <1>1, <1>2, <1>3, <1>4, <1>5

LEMMA ReadsOpenStep ==
  ASSUME Rule, NEW p \in Peers, Reads(p, "open"), NEW m, m = Head(net[p]),
         NEW id, id = new_channel_id(p), NEW e, NEW x, OpenAnswer(p, m, id, e, x),
         Reply(p, e), idof' = [idof EXCEPT ![p][m.c] = id], last' = [last EXCEPT ![p] = id],
         refs' = refs \/ refs' = [refs EXCEPT ![p] = With(refs[p], id, m.c)],
         NEW v \in EndStates \ {"none"}, end' = [end EXCEPT ![p][m.c] = v],
         UNCHANGED <<posted, inbox, buf, blocked, failed, setup, owed, done, asked, replied>>
  PROVE  Rule'
<1>1. /\ IdTypes /\ QueueTypes /\ InboxTypes /\ AppTypes /\ CoreInv /\ OwnInv /\ AppInv
      /\ CountInv /\ SessionSurvives
  BY DEF Rule, Types, CoreInv
<1>2. Live(p) /\ net[p] # <<>> /\ m.t = "open" /\ blocked[p] = <<>>
  BY DEF Reads, Live
<1>3. /\ m \in Packets /\ m.id \in Nat /\ m.n = Window /\ Line(p) # <<>> /\ Head(Line(p)) = m
      /\ Fresh(p, m.c, id) /\ m.c \in Conv
  BY <1>2, OpenReads
<1>4. PICK c \in Conv : c = m.c
  BY <1>3
<1>5. /\ ~Known(p, c) /\ Known(Other(p), c) /\ ~Ch(Other(p), c).confirmed
      /\ c \in DOMAIN setup.by /\ setup.by[c] \in Peers /\ end[setup.by[c]][c] # "none"
  BY <1>2, <1>4, OpenReads
<1>6. PICK a \in Params : /\ a = NewParams(m.id, m.n, TRUE, c) /\ a.c = c /\ a.confirmed
                          /\ a.peer = m.id /\ a.swin = Window /\ a.rwin = Window /\ a.pend = 0
  <2>1. PICK a : a = NewParams(m.id, m.n, TRUE, c)
    OBVIOUS
  <2>2. /\ a \in Params /\ a.c = c /\ a.confirmed
        /\ a.peer = m.id /\ a.swin = Window /\ a.rwin = Window /\ a.pend = 0
    BY <1>3, <2>1, ChannelTableAssumption DEF NewParams, Params
  <2> QED
    BY <2>1, <2>2
<1>7. /\ e \in Encs /\ e.out = Append(<<>>, x) /\ x \in Packets /\ x.c = c /\ x.id = m.id
      /\ e.chans = chans[p] \/ e.chans = With(chans[p], id, a)
      /\ x.t = "open-failure" \/ (x.t = "confirmation" /\ x.k = id /\ x.n = Window)
  BY <1>4, <1>6 DEF OpenAnswer
<1>8. Answers(p, e)
  <2>1. BufTypes'
    BY <1>1 DEF QueueTypes, BufTypes
  <2> QED
    BY <1>1, <1>2, <1>7, <2>1, ReplyAtOnce
<1>9. Line(p)' = Tail(Line(p)) /\ chans' = [chans EXCEPT ![p] = e.chans] /\ QueueTypes'
  BY <1>8 DEF Answers
<1>10. Other(p) \in Peers /\ Peers = {p, Other(p)} /\ Other(p) # p
  BY PeerFacts
<1>11. Line(Other(p))' = Append(Line(Other(p)), x)
  <2>1. Line(Other(p))' = Line(Other(p)) \o e.out
    BY <1>8 DEF Answers
  <2>2. PICK s \in Seq(Packets) : s = Line(Other(p))
    BY <1>1, <1>10, LineTyped
  <2>3. Append(<<>>, x) = <<x>>
    OBVIOUS
  <2>4. s \o <<x>> = Append(s, x)
    BY <1>7
  <2> QED
    BY <1>7, <2>1, <2>2, <2>3, <2>4
<1>12. Enters(p, c, id, a)
  <2>1. chans' = chans \/ chans' = [chans EXCEPT ![p] = With(chans[p], id, a)]
    BY <1>1, <1>7, <1>9 DEF IdTypes
  <2> QED
    BY <1>4, <2>1 DEF Enters
<1>13. Fresh(p, c, id)
  BY <1>3, <1>4
<1>14. IdTypes' /\ Entered(p, c, id, a)
  BY <1>1, <1>6, <1>12, <1>13, EnterOwn
<1>15. CoreInv'
  <2>1. /\ Head(Line(p)).t = "open" /\ Head(Line(p)).c = c
        /\ x.id = Head(Line(p)).id /\ a.peer = Head(Line(p)).id
    BY <1>2, <1>3, <1>4, <1>6, <1>7
  <2>2. /\ x \in Packets /\ x.c = c
        /\ x.t = "open-failure" \/ (x.t = "confirmation" /\ x.k = id /\ x.n = Window)
    BY <1>7
  <2>3. Line(p) # <<>> /\ Line(p)' = Tail(Line(p)) /\ Line(Other(p))' = Append(Line(Other(p)), x)
    BY <1>3, <1>9, <1>11
  <2>4. a.c = c /\ a.confirmed
    BY <1>6
  <2> QED
    BY <1>1, <2>1, <2>2, <2>3, <2>4, <1>12, <1>13, ReadOpenCore
<1>16. Types' /\ SessionSurvives'
  <2>1. end' \in [Peers -> [Conv -> EndStates]]
    BY <1>1, <1>4 DEF AppTypes
  <2>2. AppTypes' /\ SessionSurvives' /\ InboxTypes'
    BY <1>1, <2>1 DEF AppTypes, SessionSurvives, InboxTypes
  <2> QED
    BY <1>9, <1>14, <2>2 DEF Types
<1>17. \A q \in Peers : Silent(q)
  <2>1. Silent(p)
    BY <1>1, <1>2, <1>3, <1>9, SilentTail DEF Heralds
  <2>2. Silent(Other(p))
    BY <1>1, <1>7, <1>10, <1>11, SilentAppend DEF Heralds
  <2> QED
    BY <1>10, <2>1, <2>2
<1>18. NotesMove
  BY DEF NotesMove, InNotes, Elems
<1>19. ASSUME NEW q \in Peers, NEW d \in Conv
       PROVE  /\ end[q][d] # "none" => end'[q][d] # "none"
              /\ end'[q][d] = "open" => end[q][d] = "open" \/ Settled(q, d)'
  <2>1. Settled(p, c)'
    <3>1. a.confirmed \/ chans' = chans => Settled(p, c)'
      BY <1>14, EnterGrows
    <3> QED
      BY <1>6, <3>1
  <2>2. CASE q = p /\ d = c
    BY <1>1, <1>4, <2>1, <2>2 DEF AppTypes
  <2>3. CASE q # p \/ d # c
    BY <1>1, <1>4, <2>3 DEF AppTypes
  <2> QED
    BY <2>2, <2>3
<1>20. ASSUME NEW q \in Peers
       PROVE  First(inbox'[q]) /\ \A y \in Elems(inbox'[q]) :
                y \in Elems(inbox[q]) /\ (y.t = "open" => y.c # c)
  <2>1. inbox'[q] = inbox[q]
    OBVIOUS
  <2>2. First(inbox[q]) /\ \A y \in Elems(inbox[q]) : GoodRequest(q, y)
    BY <1>1 DEF AppInv, InboxInv
  <2>3. ASSUME NEW y \in Elems(inbox[q]), y.t = "open", y.c = c PROVE FALSE
    BY <1>5, <1>10, <2>2, <2>3 DEF GoodRequest
  <2> QED
    BY <2>1, <2>2, <2>3
<1>21. \A q \in Peers, d \in Conv : Total(inbox'[q], d, "data") = Total(inbox[q], d, "data")
  OBVIOUS
<1>22. \A y \in Elems(Line("server")') : y \in Elems(Line("server")) \/ y.t \in Heralds
  <2>1. PICK q \in Peers : q = "server"
    BY DEF Peers
  <2>2. (Line(q)' = Tail(Line(q)) /\ Line(q) # <<>>) \/ Line(q)' = Append(Line(q), x)
    BY <1>3, <1>9, <1>10, <1>11
  <2>3. PICK s \in Seq(Packets) : s = Line(q)
    BY <1>1, LineTyped
  <2>4. \A y \in Elems(Line(q)') : y \in Elems(Line(q)) \/ y = x
    <3>1. CASE Line(q)' = Tail(Line(q)) /\ Line(q) # <<>>
      <4>1. Elems(Tail(s)) \subseteq Elems(s)
        BY <2>3, <3>1, ElemsTail
      <4> QED
        BY <2>3, <3>1, <4>1
    <3>2. CASE Line(q)' = Append(Line(q), x)
      <4>1. Elems(Append(s, x)) = Elems(s) \cup {x}
        BY <1>7, ElemsAppend
      <4> QED
        BY <2>3, <3>2, <4>1
    <3> QED
      BY <2>2, <3>1, <3>2
  <2> QED
    BY <1>7, <2>1, <2>4 DEF Heralds
<1>23. \A y \in Elems(Held("client")') : y \in Elems(Held("client"))
  BY DEF Held
<1> QED
  BY <1>5, <1>6, <1>14, <1>15, <1>16, <1>17, <1>18, <1>19, <1>20, <1>21, <1>22, <1>23, EnterStep

LEMMA ClientReadsOpenStep ==
  ASSUME Rule, ClientReadsOpen
  PROVE  Rule'
<1>1. PICK p \in Peers : p = "client"
  BY DEF Peers
<1>2. PICK m, id : p = "client" /\ m = Head(net[p]) /\ id = new_channel_id(p)
  BY <1>1
<1>3. /\ Reads(p, "open") /\ idof' = [idof EXCEPT ![p][m.c] = id] /\ last' = [last EXCEPT ![p] = id]
      /\ UNCHANGED <<posted, inbox, buf, blocked, failed, setup, owed, done, asked, replied>>
  BY <1>2 DEF ClientReadsOpen
<1>4. m \in Packets /\ id \in Ids /\ chans[p] \in Tables
  <2>1. Live(p) /\ net[p] # <<>> /\ m.t = "open"
    BY <1>2, <1>3 DEF Reads
  <2>2. m \in Packets /\ Fresh(p, m.c, id)
    BY <1>2, <2>1, OpenReads
  <2> QED
    BY <2>2 DEF Fresh, Rule, Types, IdTypes
<1>5. CASE /\ Reply(p, Confirmation(Enc(p), id, m)) /\ refs' = [refs EXCEPT ![p] = With(refs[p], id, m.c)]
           /\ end' = [end EXCEPT ![p][m.c] = "open"]
  <2>1. PICK e : e = Confirmation(Enc(p), id, m)
    OBVIOUS
  <2>2. PICK x : OpenAnswer(p, m, id, e, x)
    BY <1>4, <2>1, ConfirmationAnswers
  <2>3. PICK v \in EndStates \ {"none"} : v = "open"
    BY DEF EndStates
  <2> QED
    BY <1>2, <1>3, <1>5, <2>1, <2>2, <2>3, ReadsOpenStep
<1>6. CASE /\ Reply(p, Failure(Enc(p), m)) /\ end' = [end EXCEPT ![p][m.c] = "refused"] /\ refs' = refs
  <2>1. PICK e : e = Failure(Enc(p), m)
    OBVIOUS
  <2>2. PICK x : OpenAnswer(p, m, id, e, x)
    BY <1>4, <2>1, FailureAnswers
  <2>3. PICK v \in EndStates \ {"none"} : v = "refused"
    BY DEF EndStates
  <2> QED
    BY <1>2, <1>3, <1>6, <2>1, <2>2, <2>3, ReadsOpenStep
<1> QED
  BY <1>2, <1>5, <1>6 DEF ClientReadsOpen

LEMMA ServerReadsOpenStep ==
  ASSUME Rule, ServerReadsOpen
  PROVE  Rule'
<1>1. PICK p \in Peers : p = "server"
  BY DEF Peers
<1>2. PICK m, id : p = "server" /\ m = Head(net[p]) /\ id = new_channel_id(p)
  BY <1>1
<1>3. /\ Reads(p, "open") /\ idof' = [idof EXCEPT ![p][m.c] = id] /\ last' = [last EXCEPT ![p] = id]
      /\ UNCHANGED <<posted, inbox, buf, blocked, failed, setup, owed, done, asked, replied>>
  BY <1>2 DEF ServerReadsOpen
<1>4. m \in Packets /\ id \in Ids /\ chans[p] \in Tables
  <2>1. Live(p) /\ net[p] # <<>> /\ m.t = "open"
    BY <1>2, <1>3 DEF Reads
  <2>2. m \in Packets /\ Fresh(p, m.c, id)
    BY <1>2, <2>1, OpenReads
  <2> QED
    BY <2>2 DEF Fresh, Rule, Types, IdTypes
<1>5. \/ \E e : /\ e = Confirmation(Enc(p), id, m) /\ Reply(p, e)
                /\ refs' = [refs EXCEPT ![p] = With(refs[p], id, m.c)]
                /\ end' = [end EXCEPT ![p][m.c] = "open"]
      \/ \E e : /\ e = Failure(Enc(p), m) /\ Reply(p, e)
                /\ refs' = refs \/ refs' = [refs EXCEPT ![p] = With(refs[p], id, m.c)]
                /\ end' = [end EXCEPT ![p][m.c] = "gone"]
  BY <1>2 DEF ServerReadsOpen, finalize_channel_open
<1>6. ASSUME NEW e, e = Confirmation(Enc(p), id, m), Reply(p, e),
             refs' = [refs EXCEPT ![p] = With(refs[p], id, m.c)],
             end' = [end EXCEPT ![p][m.c] = "open"]
      PROVE  Rule'
  <2>1. PICK x : OpenAnswer(p, m, id, e, x)
    BY <1>4, <1>6, ConfirmationAnswers
  <2>2. PICK v \in EndStates \ {"none"} : v = "open"
    BY DEF EndStates
  <2> QED
    BY <1>2, <1>3, <1>6, <2>1, <2>2, ReadsOpenStep
<1>7. ASSUME NEW e, e = Failure(Enc(p), m), Reply(p, e),
             refs' = refs \/ refs' = [refs EXCEPT ![p] = With(refs[p], id, m.c)],
             end' = [end EXCEPT ![p][m.c] = "gone"]
      PROVE  Rule'
  <2>1. PICK x : OpenAnswer(p, m, id, e, x)
    BY <1>4, <1>7, FailureAnswers
  <2>2. PICK v \in EndStates \ {"none"} : v = "gone"
    BY DEF EndStates
  <2> QED
    BY <1>2, <1>3, <1>7, <2>1, <2>2, ReadsOpenStep
<1> QED
  BY <1>5, <1>6, <1>7

-----------------------------------------------------------------------------
(* The steps of the applications *)
Idle ==
  UNCHANGED <<idof, last, chans, refs, net, blocked, closing, failed, setup, asked, replied>>

LEMMA SetupFacts ==
  ASSUME setup \in SetupType
  PROVE  /\ setup.types \subseteq Decided \cup Refused
         /\ setup.kinds \subseteq {"exec", "agent", "notice", "other"} /\ setup.prompt \in BOOLEAN
         /\ \A p \in Peers : /\ setup.writes[p] \in 0..MaxWrites
                             /\ setup.ends[p] \subseteq {"eof", "close", "exit-status"}
         /\ DOMAIN setup.by \subseteq Conv /\ \A c \in DOMAIN setup.by : setup.by[c] \in Peers
<1>1. /\ setup.by \in UNION {[1 .. n -> Peers] : n \in 1 .. MaxOpens}
      /\ setup.types \in SUBSET (Decided \cup Refused)
      /\ setup.writes \in [Peers -> 0 .. MaxWrites]
      /\ setup.ends \in [Peers -> SUBSET {"eof", "close", "exit-status"}]
      /\ setup.kinds \in SUBSET {"exec", "agent", "notice", "other"} /\ setup.prompt \in BOOLEAN
  BY DEF SetupType
<1>2. PICK n \in 1..MaxOpens : setup.by \in [1..n -> Peers]
  BY <1>1
<1>3. DOMAIN setup.by \subseteq Conv /\ \A c \in DOMAIN setup.by : setup.by[c] \in Peers
  BY <1>2, ChannelTableAssumption DEF Conv
<1> QED
  BY <1>1, <1>3

LEMMA IdleRests ==
  ASSUME Idle PROVE Rests /\ Grows /\ SameKnown
<1>1. Rests
  BY DEF Rests, Idle, Line, Held
<1> QED
  BY <1>1, RestGrows

LEMMA AppStep ==
  ASSUME Rule, Rests, Types', setup' = setup, asked' = asked, replied' = replied,
         \A m \in Elems(Held("client")') : m \in Elems(Held("client")),
         \A q \in Peers, d \in Conv :
           /\ end[q][d] # "none" => end'[q][d] # "none"
           /\ end'[q][d] = "open" => end[q][d] = "open" \/ Settled(q, d)',
         NotesMove, OwedMoves, InboxMoves, PendInv', failed' = failed
  PROVE  Rule'
<1>1. CoreInv' /\ WindowInv'
  BY RestCore, RestWindow DEF Rule
<1>2. Grows /\ SameKnown
  BY RestGrows
<1>3. AppMoves
  BY <1>2 DEF AppMoves, NotesMove, OwedMoves, SameKnown
<1>4. AppInv'
  BY <1>3, AppKept DEF Rule
<1>5. ReplyMoves
  BY ReplyRests
<1>6. ReplyInv'
  BY <1>5, ReplyKept DEF Rule, Types
<1>7. SessionSurvives'
  BY DEF Rule, SessionSurvives
<1> QED
  BY <1>1, <1>4, <1>6, <1>7 DEF Rule

LEMMA PendSame ==
  ASSUME Rule, Rests, Types',
         \A q \in Peers, d \in Conv : Total(inbox'[q], d, "data") = Total(inbox[q], d, "data"),
         \A q \in Peers, d \in Conv : done'[q][d] >= done[q][d] \/ done'[q][d] >= MaxWrites
  PROVE  PendInv'
<1>1. IdTypes /\ InboxTypes /\ InboxTypes' /\ OwnInv /\ AppTypes /\ AppTypes' /\ PendInv
  BY DEF Rule, Types, CoreInv
<1>2. PendMoves
  BY <1>1, PendRests
<1> QED
  BY <1>1, <1>2, PendKept

LEMMA IdleHolds ==
  ASSUME Idle
  PROVE  /\ setup' = setup /\ asked' = asked /\ replied' = replied /\ failed' = failed
         /\ \A m \in Elems(Held("client")') : m \in Elems(Held("client"))
<1>1. Held("client")' = Held("client")
  BY DEF Held, Idle
<1> QED
  BY <1>1 DEF Idle

(* The application posts r. *)
LEMMA Posted ==
  ASSUME Rule, Idle, NEW p \in Peers, NEW r \in Requests, Post(p, r), GoodRequest(p, r)',
         r.t = "open" => \A y \in Elems(inbox[p]) : y.c # r.c
  PROVE  /\ InboxMoves /\ InboxTypes'
         /\ \A q \in Peers, d \in Conv : q # p => Total(inbox'[q], d, "data") = Total(inbox[q], d, "data")
         /\ \A d \in Conv :
              Total(inbox'[p], d, "data") = Total(inbox[p], d, "data") + Amount(r, d, "data")
<1>1. InboxTypes /\ InboxInv
  BY DEF Rule, Types, AppInv
<1>2. PICK s \in Seq(Requests) : s = inbox[p]
  BY <1>1 DEF InboxTypes
<1>3. PICK t : t = Append(s, r)
  OBVIOUS
<1>4. t \in Seq(Requests) /\ Elems(t) = Elems(s) \cup {r}
  BY <1>3, ElemsAppend
<1>5. Len(t) = Len(s) + 1 /\ Len(s) \in Nat /\ Len(s) < Inbox
  BY <1>2, <1>3 DEF Post
<1>6. inbox' = [inbox EXCEPT ![p] = t]
  BY <1>2, <1>3 DEF Post
<1>7. InboxTypes'
  BY <1>1, <1>4, <1>5, <1>6, ChannelTableAssumption DEF InboxTypes
<1>8. First(t)
  <2>1. First(s)
    BY <1>1, <1>2 DEF InboxInv
  <2>2. CASE r.t = "open"
    BY <1>2, <1>3, <2>1, <2>2, FirstNew
  <2>3. CASE r.t # "open"
    <3>1. r.t \notin Heralds
      BY <2>3 DEF Requests, Heralds
    <3>2. PICK u \in Seq(Requests) : u = <<r>>
      <4>1. <<r>> \in Seq(Requests)
        OBVIOUS
      <4> QED
        BY <4>1
    <3>3. Elems(u) = {r}
      BY <3>2, ElemsOne
    <3>4. First(s \o u)
      BY <2>1, <3>1, <3>3, FirstOthers
    <3>5. s \o u = t
      BY <1>3, <3>2
    <3> QED
      BY <3>4, <3>5
  <2> QED
    BY <2>2, <2>3
<1>9. \A q \in Peers : inbox'[q] = IF q = p THEN t ELSE inbox[q]
  BY <1>1, <1>6 DEF InboxTypes
<1>10. SameKnown
  BY IdleRests
<1>11. InboxMoves
  <2>1. ASSUME NEW q \in Peers
        PROVE  /\ First(inbox'[q])
               /\ \A m \in Elems(inbox'[q]) :
                    \/ /\ m \in Elems(inbox[q]) /\ m.c \in Conv
                       /\ m.t = "open" => \A x \in Peers : ~Known(x, m.c)'
                    \/ GoodRequest(q, m)'
    <3>1. ASSUME NEW m \in Elems(inbox[q])
          PROVE  m.c \in Conv /\ (m.t = "open" => \A x \in Peers : ~Known(x, m.c)')
      <4>1. inbox[q] \in Seq(Requests)
        BY <1>1 DEF InboxTypes
      <4>2. m \in Requests
        BY <4>1, ElemsTyped
      <4>3. m.c \in Conv
        BY <4>2 DEF Requests
      <4>4. m.t = "open" => \A x \in Peers : ~Known(x, m.c)
        BY <1>1 DEF InboxInv, GoodRequest
      <4> QED
        BY <1>10, <4>3, <4>4 DEF SameKnown
    <3>2. CASE q = p
      BY <1>2, <1>4, <1>8, <1>9, <3>1, <3>2
    <3>3. CASE q # p
      BY <1>1, <1>9, <3>1, <3>3 DEF InboxInv
    <3> QED
      BY <3>2, <3>3
  <2> QED
    BY <2>1 DEF InboxMoves
<1>12. ASSUME NEW d \in Conv
       PROVE  Total(inbox'[p], d, "data") = Total(inbox[p], d, "data") + Amount(r, d, "data")
  <2>1. \A m \in Requests : m.n \in Nat
    BY DEF Requests
  <2>2. Total(Append(s, r), d, "data") = Total(s, d, "data") + Amount(r, d, "data")
    BY <2>1, TotalFacts
  <2> QED
    BY <1>2, <1>3, <1>9, <2>2
<1> QED
  BY <1>7, <1>9, <1>11, <1>12

LEMMA IdleTypes ==
  ASSUME Rule, Idle, BufTypes', InboxTypes', AppTypes'
  PROVE  Types'
<1>1. IdTypes /\ QueueTypes
  BY DEF Rule, Types
<1>2. IdTypes'
  BY <1>1 DEF IdTypes, Idle
<1>3. QueueTypes'
  BY <1>1 DEF QueueTypes, BufTypes, Idle
<1> QED
  BY <1>2, <1>3 DEF Types

(* No end is taken back, and what is open is settled. *)
EndsMove ==
  \A q \in Peers, d \in Conv :
    /\ end[q][d] # "none" => end'[q][d] # "none"
    /\ end'[q][d] = "open" => end[q][d] = "open" \/ Settled(q, d)'

(* Something is posted, but no data. *)
LEMMA PostStep ==
  ASSUME Rule, Idle, NEW p \in Peers, NEW r \in Requests, Post(p, r), GoodRequest(p, r)',
         r.t = "open" => \A y \in Elems(inbox[p]) : y.c # r.c, r.t # "data",
         BufTypes', AppTypes', EndsMove, NotesMove, OwedMoves,
         \A q \in Peers, d \in Conv : done'[q][d] >= done[q][d] \/ done'[q][d] >= MaxWrites
  PROVE  Rule'
<1>1. /\ InboxMoves /\ InboxTypes'
      /\ \A q \in Peers, d \in Conv : q # p => Total(inbox'[q], d, "data") = Total(inbox[q], d, "data")
      /\ \A d \in Conv :
           Total(inbox'[p], d, "data") = Total(inbox[p], d, "data") + Amount(r, d, "data")
  BY Posted
<1>2. Types'
  BY <1>1, IdleTypes
<1>3. Rests
  BY IdleRests
<1>4. ASSUME NEW q \in Peers, NEW d \in Conv
      PROVE  Total(inbox'[q], d, "data") = Total(inbox[q], d, "data")
  <2>1. Amount(r, d, "data") = 0
    BY DEF Amount
  <2>2. Total(inbox[q], d, "data") \in Nat
    BY PendNat DEF Rule, Types, CoreInv
  <2>3. CASE q = p
    BY <1>1, <2>1, <2>2, <2>3
  <2>4. CASE q # p
    BY <1>1, <2>4
  <2> QED
    BY <2>3, <2>4
<1>5. PendInv'
  BY <1>2, <1>3, <1>4, PendSame
<1>6. /\ setup' = setup /\ asked' = asked /\ replied' = replied /\ failed' = failed
      /\ \A m \in Elems(Held("client")') : m \in Elems(Held("client"))
  BY IdleHolds
<1> QED
  BY <1>1, <1>2, <1>3, <1>5, <1>6, AppStep DEF EndsMove

(* Nothing is posted. *)
LEMMA IdleStep ==
  ASSUME Rule, Idle, inbox' = inbox, done' = done, owed' = owed, BufTypes', AppTypes', EndsMove,
         NotesMove
  PROVE  Rule'
<1>1. InboxTypes /\ AppInv /\ AppTypes
  BY DEF Rule, Types
<1>2. InboxTypes'
  BY <1>1 DEF InboxTypes
<1>3. Types'
  BY <1>2, IdleTypes
<1>4. Rests /\ SameKnown
  BY IdleRests
<1>5. PICK p \in Peers : TRUE
  BY DEF Peers
<1>6. InboxMoves
  BY <1>1, <1>4, <1>5, InboxShrinks
<1>7. \A q \in Peers, d \in Conv : done'[q][d] >= done[q][d]
  BY <1>1 DEF AppTypes
<1>8. PendInv'
  BY <1>3, <1>4, <1>7, PendSame
<1>9. OwedMoves
  BY DEF OwedMoves
<1>10. /\ setup' = setup /\ asked' = asked /\ replied' = replied /\ failed' = failed
       /\ \A m \in Elems(Held("client")') : m \in Elems(Held("client"))
  BY IdleHolds
<1> QED
  BY <1>3, <1>4, <1>6, <1>8, <1>9, <1>10, AppStep DEF EndsMove

LEMMA BufSame ==
  ASSUME Rule, buf' = buf, blocked' = blocked
  PROVE  BufTypes' /\ NotesMove
<1>1. BufTypes'
  BY DEF Rule, Types, QueueTypes, BufTypes
<1>2. NotesMove
  BY DEF NotesMove, InNotes, Elems
<1> QED
  BY <1>1, <1>2

LEMMA OpensStep ==
  ASSUME Rule, NEW p \in Peers, Opens(p)
  PROVE  Rule'
<1>1. PICK c \in DOMAIN setup.by, k \in setup.types :
        /\ p = setup.by[c] /\ \A q \in Peers : end[q][c] = "none"
        /\ Post(p, Request("open", c, k, 0)) /\ end' = [end EXCEPT ![p][c] = "opening"]
        /\ UNCHANGED <<posted, idof, last, chans, refs, net, buf, blocked, failed, setup, owed,
                       done, asked, replied, closing>>
  BY DEF Opens
<1>2. AppTypes /\ AppInv /\ setup \in SetupType /\ InboxTypes
  BY DEF Rule, Types, AppTypes
<1>3. c \in Conv /\ k \in Labels
  BY <1>2, SetupFacts DEF Labels
<1>4. PICK r \in Requests : r = Request("open", c, k, 0)
  BY <1>3 DEF Request, Requests
<1>5. r.t = "open" /\ r.c = c
  BY <1>4 DEF Request
<1>6. Idle
  BY <1>1 DEF Idle
<1>7. AppTypes'
  <2>1. end' \in [Peers -> [Conv -> EndStates]]
    BY <1>1, <1>2, <1>3 DEF AppTypes, EndStates
  <2> QED
    BY <1>1, <1>2, <2>1 DEF AppTypes
<1>8. \A q \in Peers : ~Known(q, c)
  BY <1>1, <1>2, <1>3 DEF AppInv, StartedInv
<1>9. GoodRequest(p, r)'
  <2>1. end'[p][c] # "none"
    BY <1>1, <1>2, <1>3 DEF AppTypes
  <2>2. \A q \in Peers : ~Known(q, c)'
    BY <1>1, <1>8 DEF Known
  <2>3. setup' = setup
    BY <1>1
  <2> QED
    BY <1>1, <1>5, <2>1, <2>2, <2>3 DEF GoodRequest
<1>10. ASSUME NEW y \in Elems(inbox[p]), y.c = c PROVE FALSE
  <2>1. GoodRequest(p, y)
    BY <1>2 DEF AppInv, InboxInv
  <2>2. y.t # "open"
    BY <1>1, <1>10, <2>1 DEF GoodRequest
  <2>3. Settled(p, c)
    BY <1>10, <2>1, <2>2 DEF GoodRequest
  <2> QED
    BY <1>8, <2>3 DEF Settled
<1>11. EndsMove
  BY <1>1, <1>2, <1>3 DEF EndsMove, AppTypes
<1>12. BufTypes' /\ NotesMove
  BY <1>1, BufSame
<1>13. OwedMoves
  BY <1>1 DEF OwedMoves
<1>14. \A q \in Peers, d \in Conv : done'[q][d] >= done[q][d]
  BY <1>1, <1>2 DEF AppTypes
<1>15. Post(p, r)
  BY <1>1, <1>4
<1> QED
  BY <1>5, <1>6, <1>7, <1>9, <1>10, <1>11, <1>12, <1>13, <1>14, <1>15, PostStep

(* A queue of the application is read or emptied. *)
LEMMA BufShrinks ==
  ASSUME Rule, blocked' = blocked, NEW p \in Peers, NEW c \in Conv, NEW s,
         s = <<>> \/ (buf[p][c] # <<>> /\ s = Tail(buf[p][c])), buf' = [buf EXCEPT ![p][c] = s]
  PROVE  BufTypes' /\ NotesMove
<1>1. BufTypes
  BY DEF Rule, Types, QueueTypes, BufTypes
<1>2. PICK b \in Seq(Notes) : b = buf[p][c] /\ Len(b) <= Buffer
  BY <1>1 DEF BufTypes
<1>3. s \in Seq(Notes) /\ Len(s) <= Buffer /\ \A x \in Elems(s) : x \in Elems(b)
  <2>1. CASE s = <<>>
    <3>1. <<>> \in Seq(Notes) /\ Len(<<>>) = 0
      OBVIOUS
    <3> QED
      BY <2>1, <3>1, ElemsEmpty, ChannelTableAssumption
  <2>2. CASE b # <<>> /\ s = Tail(b)
    <3>1. s \in Seq(Notes) /\ Len(s) = Len(b) - 1 /\ Len(b) \in Nat
      BY <2>2, HeadTailProperties
    <3>2. Elems(Tail(b)) \subseteq Elems(b)
      BY <2>2, ElemsTail
    <3> QED
      BY <1>2, <2>2, <3>1, <3>2, ChannelTableAssumption
  <2> QED
    BY <1>2, <2>1, <2>2
<1>4. \A q \in Peers, d \in Conv : buf'[q][d] = IF q = p /\ d = c THEN s ELSE buf[q][d]
  BY <1>1 DEF BufTypes
<1>5. buf' \in [Peers -> [Conv -> Seq(Notes)]]
  BY <1>1, <1>3 DEF BufTypes
<1>6. BufTypes'
  BY <1>1, <1>3, <1>4, <1>5 DEF BufTypes
<1>7. \A q \in Peers, d \in Conv : \A x : x \in Elems(buf'[q][d]) => x \in Elems(buf[q][d])
  BY <1>2, <1>3, <1>4
<1>8. \A q \in Peers, d \in Conv : \A x : InNotes(q, d, x)' => InNotes(q, d, x)
  <2>1. \A q \in Peers, d \in Conv : Elems(buf[q][d])' = Elems(buf'[q][d])
    BY DEF Elems
  <2> QED
    BY <1>7, <2>1 DEF InNotes
<1> QED
  BY <1>6, <1>8 DEF NotesMove

LEMMA WaitsStep ==
  ASSUME Rule, NEW p \in Peers, Waits(p)
  PROVE  Rule'
<1>1. PICK c \in Conv :
        /\ end[p][c] \in {"opening", "open"} /\ buf[p][c] # <<>>
        /\ buf' = [buf EXCEPT ![p][c] = Tail(buf[p][c])]
        /\ end' = [end EXCEPT ![p][c] = CASE Head(buf[p][c]).t = "Open" -> "open"
                                          [] Head(buf[p][c]).t = "OpenFailure" -> "refused"
                                          [] OTHER -> end[p][c]]
        /\ UNCHANGED <<posted, idof, last, chans, refs, net, inbox, blocked, failed, setup,
                       owed, done, asked, replied, closing>>
  BY DEF Waits
<1>2. AppTypes /\ AppInv /\ QueueTypes
  BY DEF Rule, Types
<1>3. PICK b \in Seq(Notes) : b = buf[p][c] /\ b # <<>>
  BY <1>1, <1>2 DEF QueueTypes
<1>4. Head(b) \in Elems(b)
  BY <1>3, ElemsTail
<1>5. Head(b).t = "Open" => Settled(p, c)
  <2>1. InNotes(p, c, Head(b))
    BY <1>3, <1>4 DEF InNotes
  <2> QED
    BY <1>2, <2>1 DEF AppInv, UseInv
<1>6. PICK v : v = CASE Head(b).t = "Open" -> "open"
                     [] Head(b).t = "OpenFailure" -> "refused"
                     [] OTHER -> end[p][c]
  OBVIOUS
<1>7. /\ end' = [end EXCEPT ![p][c] = v] /\ v \in EndStates \ {"none"}
      /\ v = "open" => end[p][c] = "open" \/ Head(b).t = "Open"
  <2>1. end' = [end EXCEPT ![p][c] = v]
    BY <1>1, <1>3, <1>6
  <2>2. CASE Head(b).t = "Open"
    BY <1>6, <2>1, <2>2 DEF EndStates
  <2>3. CASE Head(b).t = "OpenFailure"
    BY <1>6, <2>1, <2>3 DEF EndStates
  <2>4. CASE Head(b).t # "Open" /\ Head(b).t # "OpenFailure"
    BY <1>1, <1>6, <2>1, <2>4 DEF EndStates
  <2> QED
    BY <2>2, <2>3, <2>4
<1>8. Idle
  BY <1>1 DEF Idle
<1>9. Grows
  BY <1>8, IdleRests
<1>10. AppTypes'
  <2>1. end' \in [Peers -> [Conv -> EndStates]]
    BY <1>2, <1>7 DEF AppTypes
  <2> QED
    BY <1>1, <1>2, <2>1 DEF AppTypes
<1>11. EndsMove
  <2>1. \A q \in Peers, d \in Conv : end'[q][d] = IF q = p /\ d = c THEN v ELSE end[q][d]
    BY <1>2, <1>7 DEF AppTypes
  <2>2. Head(b).t = "Open" => Settled(p, c)'
    BY <1>5, <1>9 DEF Grows
  <2> QED
    BY <1>7, <2>1, <2>2 DEF EndsMove
<1>12. BufTypes' /\ NotesMove
  BY <1>1, BufShrinks
<1> QED
  BY <1>1, <1>8, <1>10, <1>11, <1>12, IdleStep

LEMMA NoMoreMessagesStep ==
  ASSUME Rule, NEW p \in Peers, NoMoreMessages(p)
  PROVE  Rule'
<1>1. PICK c \in Conv :
        /\ end' = [end EXCEPT ![p][c] = "ended"]
        /\ UNCHANGED <<posted, idof, last, chans, refs, net, inbox, buf, blocked, failed, setup, owed,
                       done, asked, replied, closing>>
  BY DEF NoMoreMessages
<1>2. AppTypes
  BY DEF Rule, Types
<1>3. Idle
  BY <1>1 DEF Idle
<1>4. AppTypes'
  <2>1. end' \in [Peers -> [Conv -> EndStates]]
    BY <1>1, <1>2 DEF AppTypes, EndStates
  <2> QED
    BY <1>1, <1>2, <2>1 DEF AppTypes
<1>5. EndsMove
  BY <1>1, <1>2 DEF EndsMove, AppTypes
<1>6. BufTypes' /\ NotesMove
  BY <1>1, BufSame
<1> QED
  BY <1>1, <1>3, <1>4, <1>5, <1>6, IdleStep

(* A message about an open channel *)
LEMMA RequestMade ==
  ASSUME NEW t \in {"data", "eof", "close", "exit-status", "request", "success", "failure"},
         NEW c \in Conv, NEW k \in Labels, NEW n \in Nat
  PROVE  /\ Request(t, c, k, n) \in Requests /\ Request(t, c, k, n).t = t
         /\ Request(t, c, k, n).c = c /\ Request(t, c, k, n).k = k /\ Request(t, c, k, n).n = n
BY DEF Request, Requests

LEMMA GoodPost ==
  ASSUME Grows, NEW p \in Peers, NEW c \in Conv, Settled(p, c), NEW r, r.c = c,
         r.t \in {"data", "eof", "close", "exit-status"}
  PROVE  GoodRequest(p, r)'
<1>1. Settled(p, c)'
  BY DEF Grows
<1> QED
  BY <1>1 DEF GoodRequest

LEMMA DropsEndStep ==
  ASSUME Rule, NEW p \in Peers, DropsEnd(p)
  PROVE  Rule'
<1>1. PICK c \in Conv, stream \in BOOLEAN :
        /\ end[p][c] \in {"opening", "open"}
        /\ end' = [end EXCEPT ![p][c] = "gone"]
        /\ buf' = [buf EXCEPT ![p][c] = <<>>]
        /\ \/ inbox' = inbox /\ done' = done
           \/ /\ end[p][c] = "open" /\ Post(p, Request("close", c, "", 0))
              /\ done' = [done EXCEPT ![p][c] = Over]
        /\ UNCHANGED <<posted, idof, last, chans, refs, net, blocked, failed, setup, owed,
                       asked, replied, closing>>
  BY DEF DropsEnd
<1>2. AppTypes /\ AppInv
  BY DEF Rule, Types
<1>3. Idle
  BY <1>1 DEF Idle
<1>4. Over \in Nat /\ Over >= MaxWrites
  BY ChannelTableAssumption DEF Over
<1>5. AppTypes'
  <2>1. end' \in [Peers -> [Conv -> EndStates]]
    BY <1>1, <1>2 DEF AppTypes, EndStates
  <2>2. done' = done \/ done' = [done EXCEPT ![p][c] = Over]
    BY <1>1
  <2>3. done' \in [Peers -> [Conv -> Nat]]
    BY <1>2, <1>4, <2>2 DEF AppTypes
  <2> QED
    BY <1>1, <1>2, <2>1, <2>3 DEF AppTypes
<1>6. EndsMove
  BY <1>1, <1>2 DEF EndsMove, AppTypes
<1>7. BufTypes' /\ NotesMove
  <2>1. PICK s : s = <<>>
    OBVIOUS
  <2>2. blocked' = blocked /\ buf' = [buf EXCEPT ![p][c] = s]
    BY <1>1, <2>1
  <2> QED
    BY <2>1, <2>2, BufShrinks
<1>8. CASE inbox' = inbox /\ done' = done
  BY <1>1, <1>3, <1>5, <1>6, <1>7, <1>8, IdleStep
<1>9. CASE /\ end[p][c] = "open" /\ Post(p, Request("close", c, "", 0))
           /\ done' = [done EXCEPT ![p][c] = Over]
  <2>1. PICK k \in Labels : k = ""
    BY DEF Labels
  <2>2. PICK n \in Nat : n = 0
    OBVIOUS
  <2>3. PICK r \in Requests : r = Request("close", c, k, n) /\ r.t = "close" /\ r.c = c
    BY RequestMade
  <2>4. Post(p, r)
    BY <1>9, <2>1, <2>2, <2>3
  <2>5. Grows
    BY <1>3, IdleRests
  <2>6. Settled(p, c)
    BY <1>2, <1>9 DEF AppInv, UseInv
  <2>7. GoodRequest(p, r)'
    BY <2>3, <2>5, <2>6, GoodPost
  <2>8. OwedMoves
    BY <1>1 DEF OwedMoves
  <2>9. \A q \in Peers, d \in Conv : done'[q][d] >= done[q][d] \/ done'[q][d] >= MaxWrites
    <3>1. \A q \in Peers, d \in Conv : done'[q][d] = done[q][d] \/ done'[q][d] = Over
      BY <1>2, <1>9 DEF AppTypes
    <3>2. \A q \in Peers, d \in Conv : done[q][d] \in Nat
      BY <1>2 DEF AppTypes
    <3> QED
      BY <1>4, <3>1, <3>2
  <2> QED
    BY <1>3, <1>5, <1>6, <1>7, <2>3, <2>4, <2>7, <2>8, <2>9, PostStep
<1> QED
  BY <1>1, <1>8, <1>9

LEMMA FinishesStep ==
  ASSUME Rule, NEW p \in Peers, Finishes(p)
  PROVE  Rule'
<1>1. PICK c \in Conv, t \in setup.ends[p] :
        /\ end[p][c] = "open" /\ Post(p, Request(t, c, "", 0))
        /\ done' = [done EXCEPT ![p][c] = IF t = "close" THEN Over ELSE MaxWrites]
        /\ UNCHANGED <<posted, idof, last, chans, refs, net, buf, blocked, end, failed, setup, owed,
                       asked, replied, closing>>
  BY DEF Finishes
<1>2. AppTypes /\ AppInv /\ setup \in SetupType
  BY DEF Rule, Types, AppTypes
<1>3. t \in {"eof", "close", "exit-status"}
  BY <1>2, SetupFacts
<1>4. Over \in Nat /\ Over >= MaxWrites /\ MaxWrites \in Nat
  BY ChannelTableAssumption DEF Over
<1>5. Idle
  BY <1>1 DEF Idle
<1>6. \A q \in Peers, d \in Conv :
        done'[q][d] = done[q][d] \/ done'[q][d] = Over \/ done'[q][d] = MaxWrites
  BY <1>1, <1>2 DEF AppTypes
<1>7. AppTypes'
  <2>1. done' \in [Peers -> [Conv -> Nat]]
    BY <1>1, <1>2, <1>4 DEF AppTypes
  <2> QED
    BY <1>1, <1>2, <2>1 DEF AppTypes
<1>8. EndsMove
  BY <1>1 DEF EndsMove
<1>9. BufTypes' /\ NotesMove
  BY <1>1, BufSame
<1>10. PICK k \in Labels : k = ""
  BY DEF Labels
<1>11. PICK n \in Nat : n = 0
  OBVIOUS
<1>12. PICK r \in Requests : r = Request(t, c, k, n) /\ r.t = t /\ r.c = c
  BY <1>3, RequestMade
<1>13. Post(p, r)
  BY <1>1, <1>10, <1>11, <1>12
<1>14. Grows
  BY <1>5, IdleRests
<1>15. Settled(p, c)
  BY <1>1, <1>2 DEF AppInv, UseInv
<1>16. GoodRequest(p, r)'
  BY <1>3, <1>12, <1>14, <1>15, GoodPost
<1>17. OwedMoves
  BY <1>1 DEF OwedMoves
<1>18. \A q \in Peers, d \in Conv : done'[q][d] >= done[q][d] \/ done'[q][d] >= MaxWrites
  <2>1. \A q \in Peers, d \in Conv : done[q][d] \in Nat
    BY <1>2 DEF AppTypes
  <2> QED
    BY <1>4, <1>6, <2>1
<1>19. r.t # "open" /\ r.t # "data"
  BY <1>3, <1>12
<1> QED
  BY <1>5, <1>7, <1>8, <1>9, <1>13, <1>16, <1>17, <1>18, <1>19, PostStep

LEMMA AsksStep ==
  ASSUME Rule, Asks
  PROVE  Rule'
<1>1. PICK p \in Peers : p = "client"
  BY DEF Peers
<1>2. PICK c \in Conv, k \in setup.kinds, n \in Nat :
        /\ end[p][c] = "open" /\ n \in {0, 1} /\ (k = "notice" => n = 0)
        /\ Post(p, Request("request", c, k, n))
        /\ UNCHANGED <<idof, last, chans, refs, net, buf, blocked, end, failed, setup, owed,
                       done, asked, replied, closing>>
  <2>1. PICK c \in Conv, k \in setup.kinds, want \in BOOLEAN :
          /\ end[p][c] = "open" /\ (k = "notice" => ~want)
          /\ Post(p, Request("request", c, k, IF want THEN 1 ELSE 0))
          /\ UNCHANGED <<idof, last, chans, refs, net, buf, blocked, end, failed, setup, owed,
                         done, asked, replied, closing>>
    BY <1>1 DEF Asks
  <2>2. PICK n \in Nat : n = IF want THEN 1 ELSE 0
    OBVIOUS
  <2>3. n \in {0, 1} /\ (k = "notice" => n = 0) /\ Post(p, Request("request", c, k, n))
    BY <2>1, <2>2
  <2> QED
    BY <2>1, <2>3
<1>3. AppTypes /\ AppInv /\ setup \in SetupType
  BY DEF Rule, Types, AppTypes
<1>4. k \in Labels
  BY <1>3, SetupFacts DEF Labels
<1>5. Idle
  BY <1>2 DEF Idle
<1>6. AppTypes'
  BY <1>2, <1>3 DEF AppTypes
<1>7. EndsMove
  BY <1>2 DEF EndsMove
<1>8. BufTypes' /\ NotesMove
  BY <1>2, BufSame
<1>9. PICK r \in Requests : /\ r = Request("request", c, k, n) /\ r.t = "request" /\ r.c = c
                            /\ r.k = k /\ r.n = n
  BY <1>4, RequestMade
<1>10. Post(p, r)
  BY <1>2, <1>9
<1>11. Grows
  BY <1>5, IdleRests
<1>12. Settled(p, c)'
  <2>1. Settled(p, c)
    BY <1>2, <1>3 DEF AppInv, UseInv
  <2> QED
    BY <1>11, <2>1 DEF Grows
<1>13. GoodRequest(p, r)'
  BY <1>1, <1>2, <1>9, <1>12 DEF GoodRequest
<1>14. OwedMoves
  BY <1>2 DEF OwedMoves
<1>15. \A q \in Peers, d \in Conv : done'[q][d] >= done[q][d]
  BY <1>2, <1>3 DEF AppTypes
<1> QED
  BY <1>5, <1>6, <1>7, <1>8, <1>9, <1>10, <1>13, <1>14, <1>15, PostStep

LEMMA AnswersLaterStep ==
  ASSUME Rule, AnswersLater
  PROVE  Rule'
<1>1. PICK p \in Peers : p = "server"
  BY DEF Peers
<1>2. PICK c \in Conv, t \in {"success", "failure"} :
        /\ owed[c] > 0 /\ Post(p, Request(t, c, "", 0))
        /\ owed' = [owed EXCEPT ![c] = owed[c] - 1]
        /\ UNCHANGED <<posted, idof, last, chans, refs, net, buf, blocked, end, failed, setup,
                       done, asked, replied, closing>>
  BY <1>1 DEF AnswersLater
<1>3. AppTypes /\ AppInv
  BY DEF Rule, Types
<1>4. owed[c] - 1 \in Nat
  <2>1. PICK n \in Nat : n = owed[c]
    BY <1>3 DEF AppTypes
  <2>2. n > 0
    BY <1>2, <2>1
  <2> QED
    BY <2>1, <2>2
<1>5. Idle
  BY <1>2 DEF Idle
<1>6. AppTypes'
  <2>1. owed' \in [Conv -> Nat]
    BY <1>2, <1>3, <1>4 DEF AppTypes
  <2> QED
    BY <1>2, <1>3, <2>1 DEF AppTypes
<1>7. EndsMove
  BY <1>2 DEF EndsMove
<1>8. BufTypes' /\ NotesMove
  BY <1>2, BufSame
<1>9. PICK k \in Labels : k = ""
  BY DEF Labels
<1>10. PICK z \in Nat : z = 0
  OBVIOUS
<1>11. PICK r \in Requests : r = Request(t, c, k, z) /\ r.t = t /\ r.c = c
  BY RequestMade
<1>12. Post(p, r)
  BY <1>2, <1>9, <1>10, <1>11
<1>13. Settled(p, c) /\ ~setup.prompt
  BY <1>1, <1>2, <1>3 DEF AppInv, UseInv
<1>14. Settled(p, c)'
  BY <1>5, <1>13, IdleRests DEF Grows
<1>15. GoodRequest(p, r)'
  <2>1. setup' = setup
    BY <1>2
  <2> QED
    BY <1>1, <1>11, <1>13, <1>14, <2>1 DEF GoodRequest
<1>16. OwedMoves
  <2>1. \A d \in Conv : owed'[d] = IF d = c THEN owed[c] - 1 ELSE owed[d]
    BY <1>2, <1>3 DEF AppTypes
  <2> QED
    BY <1>2, <2>1 DEF OwedMoves
<1>17. \A q \in Peers, d \in Conv : done'[q][d] >= done[q][d]
  <2>1. done' = done
    BY <1>2
  <2>2. \A q \in Peers, d \in Conv : done[q][d] \in Nat
    BY <1>3 DEF AppTypes
  <2> QED
    BY <2>1, <2>2
<1>18. r.t # "open" /\ r.t # "data"
  BY <1>11
<1> QED
  BY <1>5, <1>6, <1>7, <1>8, <1>12, <1>15, <1>16, <1>17, <1>18, PostStep

LEMMA WritesStep ==
  ASSUME Rule, NEW p \in Peers, Writes(p)
  PROVE  Rule'
<1>1. PICK c \in Conv, n \in 1 .. MaxWrites :
        /\ end[p][c] = "open" /\ done[p][c] + n <= setup.writes[p]
        /\ Post(p, Request("data", c, "", n))
        /\ done' = [done EXCEPT ![p][c] = done[p][c] + n]
        /\ UNCHANGED <<posted, idof, last, chans, refs, net, buf, blocked, end, failed, setup,
                       owed, asked, replied, closing>>
  BY DEF Writes
<1>2. AppTypes /\ AppInv /\ setup \in SetupType /\ IdTypes /\ InboxTypes /\ OwnInv /\ PendInv
  BY DEF Rule, Types, AppTypes, CoreInv
<1>3. PICK u \in Nat : u = done[p][c]
  BY <1>2 DEF AppTypes
<1>4. n \in Nat /\ MaxWrites \in Nat /\ u + n \in Nat /\ u + n <= MaxWrites
  <2>1. setup.writes[p] \in 0..MaxWrites
    BY <1>2, SetupFacts
  <2>2. MaxWrites \in Nat
    BY ChannelTableAssumption
  <2>3. PICK w \in Nat : w = setup.writes[p] /\ w <= MaxWrites
    BY <2>1, <2>2
  <2>4. u + n <= w
    BY <1>1, <1>3, <2>3
  <2>5. n \in Nat
    BY <2>2
  <2> QED
    BY <2>2, <2>3, <2>4, <2>5
<1>5. Idle
  BY <1>1 DEF Idle
<1>6. done' = [done EXCEPT ![p][c] = u + n]
  BY <1>1, <1>3
<1>7. \A q \in Peers, d \in Conv : done'[q][d] = IF q = p /\ d = c THEN u + n ELSE done[q][d]
  BY <1>2, <1>6 DEF AppTypes
<1>8. AppTypes'
  <2>1. done' \in [Peers -> [Conv -> Nat]]
    BY <1>2, <1>4, <1>6 DEF AppTypes
  <2> QED
    BY <1>1, <1>2, <2>1 DEF AppTypes
<1>9. PICK k \in Labels : k = ""
  BY DEF Labels
<1>10. PICK r \in Requests : r = Request("data", c, k, n) /\ r.t = "data" /\ r.c = c /\ r.n = n
  BY <1>4, RequestMade
<1>11. Post(p, r)
  BY <1>1, <1>9, <1>10
<1>12. Grows /\ Rests
  BY <1>5, IdleRests
<1>13. GoodRequest(p, r)'
  <2>1. Settled(p, c)
    BY <1>1, <1>2 DEF AppInv, UseInv
  <2> QED
    BY <1>10, <1>12, <2>1, GoodPost
<1>14. r.t # "open"
  BY <1>10
<1>15. /\ InboxMoves /\ InboxTypes'
       /\ \A q \in Peers, d \in Conv : q # p => Total(inbox'[q], d, "data") = Total(inbox[q], d, "data")
       /\ \A d \in Conv :
            Total(inbox'[p], d, "data") = Total(inbox[p], d, "data") + Amount(r, d, "data")
  BY <1>5, <1>11, <1>13, <1>14, Posted
<1>16. BufTypes' /\ NotesMove
  BY <1>1, BufSame
<1>17. Types'
  BY <1>5, <1>8, <1>15, <1>16, IdleTypes
<1>18. ASSUME NEW q \in Peers, NEW d \in Conv
       PROVE  /\ Pend(q, d)' + Total(inbox'[q], d, "data") <= MaxWrites
              /\ Pend(q, d)' + Total(inbox'[q], d, "data") <= done'[q][d]
  <2>1. Has(q, d)' = Has(q, d) /\ Ch(q, d)' = Ch(q, d)
    BY <1>5 DEF Idle, Has, Ch
  <2>2. Pend(q, d)' = Pend(q, d)
    BY <2>1 DEF Pend
  <2>3. PICK a, b \in Nat : a = Pend(q, d) /\ b = Total(inbox[q], d, "data")
    BY <1>2, PendNat
  <2>4. a + b <= MaxWrites /\ a + b <= done[q][d]
    BY <1>2, <2>3 DEF PendInv
  <2>5. CASE q = p /\ d = c
    <3>1. Amount(r, d, "data") = n
      BY <1>10, <2>5 DEF Amount
    <3>2. Total(inbox'[q], d, "data") = b + n
      BY <1>15, <2>3, <2>5, <3>1
    <3>3. a + b <= u /\ done'[q][d] = u + n
      BY <1>3, <1>7, <2>4, <2>5
    <3>4. a + (b + n) <= u + n /\ a + (b + n) <= MaxWrites
      BY <1>4, <3>3
    <3> QED
      BY <2>2, <2>3, <3>2, <3>3, <3>4
  <2>6. CASE q # p \/ d # c
    <3>1. Total(inbox'[q], d, "data") = b
      <4>1. CASE q # p
        BY <1>15, <2>3, <4>1
      <4>2. CASE q = p /\ d # c
        <5>1. Amount(r, d, "data") = 0
          BY <1>10, <4>2 DEF Amount
        <5> QED
          BY <1>15, <2>3, <4>2, <5>1
      <4> QED
        BY <2>6, <4>1, <4>2
    <3>2. done'[q][d] = done[q][d]
      BY <1>7, <2>6
    <3> QED
      BY <2>2, <2>3, <2>4, <3>1, <3>2
  <2> QED
    BY <2>5, <2>6
<1>19. PendInv'
  BY <1>18 DEF PendInv, Pend, Has, Ch
<1>20. EndsMove
  BY <1>1 DEF EndsMove
<1>21. OwedMoves
  BY <1>1 DEF OwedMoves
<1>22. /\ setup' = setup /\ asked' = asked /\ replied' = replied /\ failed' = failed
       /\ \A m \in Elems(Held("client")') : m \in Elems(Held("client"))
  BY <1>5, IdleHolds
<1> QED
  BY <1>12, <1>15, <1>16, <1>17, <1>19, <1>20, <1>21, <1>22, AppStep DEF EndsMove

(* The session goes on: its note is put into the queue, or lost with its *)
(* reader, and its answer is sent.                                       *)
LEMMA UnblockStep ==
  ASSUME Rule, NEW p \in Peers, Unblock(p)
  PROVE  Rule'
<1>1. /\ blocked[p] # <<>>
      /\ \/ buf' = buf
         \/ /\ Len(buf[p][blocked[p][1]]) < Buffer
            /\ buf' = [buf EXCEPT ![p][blocked[p][1]] = Append(buf[p][blocked[p][1]], blocked[p][2])]
      /\ net' = [net EXCEPT ![Other(p)] = net[Other(p)] \o blocked[p][3]]
      /\ blocked' = [blocked EXCEPT ![p] = <<>>]
      /\ UNCHANGED <<posted, idof, last, chans, refs, inbox, end, failed, setup, owed, done,
                     asked, replied, closing>>
  BY DEF Unblock
<1>2. QueueTypes /\ BufTypes /\ AppTypes /\ AppInv /\ IdTypes /\ InboxTypes
  BY DEF Rule, Types, QueueTypes, BufTypes
<1>3. blocked[p] \in Waiting /\ Held(p) = blocked[p][3]
  BY <1>1, <1>2, LineTyped
<1>4. PICK c \in Conv, x \in Notes, s \in Seq(Packets) :
        c = blocked[p][1] /\ x = blocked[p][2] /\ s = blocked[p][3]
  BY <1>3, WaitingFacts
<1>5. PICK o \in Peers : o = Other(p) /\ o # p /\ Other(o) = p /\ Peers = {p, o}
  BY PeerFacts
<1>6. net \in [Peers -> Seq(Packets)] /\ blocked \in [Peers -> {<<>>} \cup Waiting]
  BY <1>2 DEF QueueTypes
<1>7. PICK w \in Seq(Packets) : w = net[o] \o s
  BY <1>6, ConcatProperties
<1>8. net' = [net EXCEPT ![o] = w]
  BY <1>1, <1>4, <1>5, <1>7
<1>9. net' \in [Peers -> Seq(Packets)] /\ net'[o] = w /\ net'[p] = net[p]
  BY <1>5, <1>6, <1>8
<1>10. /\ blocked' \in [Peers -> {<<>>} \cup Waiting] /\ blocked'[p] = <<>>
       /\ blocked'[o] = blocked[o]
  BY <1>1, <1>5, <1>6
<1>11. Held(p)' = <<>> /\ Held(o)' = Held(o)
  BY <1>10 DEF Held
<1>12. Line(o)' = Line(o)
  <2>1. Line(o)' = net'[o] \o Held(p)'
    BY <1>5 DEF Line
  <2>2. w \o <<>> = w
    OBVIOUS
  <2>3. Line(o) = net[o] \o s
    BY <1>3, <1>4, <1>5 DEF Line
  <2> QED
    BY <1>7, <1>9, <1>11, <2>1, <2>2, <2>3
<1>13. Line(p)' = Line(p)
  BY <1>5, <1>9, <1>11 DEF Line
<1>14. Rests
  <2>1. \A q \in Peers : Line(q)' = Line(q)
    BY <1>5, <1>12, <1>13
  <2> QED
    BY <1>1, <2>1 DEF Rests
<1>15. Grows /\ SameKnown
  BY <1>14, RestGrows
<1>16. /\ BufTypes'
       /\ \A q \in Peers, d \in Conv : \A y \in Elems(buf[q][d])' :
            y \in Elems(buf[q][d]) \/ (q = p /\ d = c /\ y = x)
  <2>1. CASE buf' = buf
    BY <1>2, <2>1 DEF BufTypes, Elems
  <2>2. CASE Len(buf[p][c]) < Buffer /\ buf' = [buf EXCEPT ![p][c] = Append(buf[p][c], x)]
    BY <1>2, <2>2, BufAppend
  <2> QED
    BY <1>1, <1>4, <2>1, <2>2
<1>17. NotesMove
  <2>1. ASSUME NEW q \in Peers, NEW d \in Conv, NEW y, InNotes(q, d, y)'
        PROVE  InNotes(q, d, y)
    <3>1. \/ y \in Elems(buf[q][d])'
          \/ blocked'[q] # <<>> /\ blocked'[q][1] = d /\ blocked'[q][2] = y
      BY <2>1 DEF InNotes
    <3>2. CASE y \in Elems(buf[q][d])'
      <4>1. CASE y \in Elems(buf[q][d])
        BY <4>1 DEF InNotes
      <4>2. CASE q = p /\ d = c /\ y = x
        BY <1>1, <1>4, <4>2 DEF InNotes
      <4> QED
        BY <1>16, <3>2, <4>1, <4>2
    <3>3. CASE blocked'[q] # <<>> /\ blocked'[q][1] = d /\ blocked'[q][2] = y
      <4>1. q = o
        BY <1>5, <1>10, <3>3
      <4>2. blocked[q] # <<>> /\ blocked[q][1] = d /\ blocked[q][2] = y
        BY <1>10, <3>3, <4>1
      <4> QED
        BY <4>2 DEF InNotes
    <3> QED
      BY <3>1, <3>2, <3>3
  <2> QED
    BY <2>1 DEF NotesMove
<1>18. Types'
  <2>1. IdTypes'
    BY <1>1, <1>2 DEF IdTypes
  <2>2. QueueTypes'
    <3>1. closing' \in [Conv -> SUBSET Peers]
      BY <1>1, <1>2 DEF QueueTypes
    <3> QED
      BY <1>9, <1>10, <1>16, <3>1 DEF QueueTypes, BufTypes
  <2>3. InboxTypes'
    BY <1>1, <1>2 DEF InboxTypes
  <2>4. AppTypes'
    BY <1>1, <1>2 DEF AppTypes
  <2> QED
    BY <2>1, <2>2, <2>3, <2>4 DEF Types
<1>19. InboxMoves
  BY <1>1, <1>2, <1>15, InboxShrinks
<1>20. \A q \in Peers, d \in Conv : done'[q][d] >= done[q][d]
  <2>1. done' = done
    BY <1>1
  <2>2. \A q \in Peers, d \in Conv : done[q][d] \in Nat
    BY <1>2 DEF AppTypes
  <2> QED
    BY <2>1, <2>2
<1>21. PendInv'
  <2>1. inbox' = inbox
    BY <1>1
  <2> QED
    BY <1>14, <1>18, <1>20, <2>1, PendSame
<1>22. OwedMoves
  BY <1>1 DEF OwedMoves
<1>23. \A m \in Elems(Held("client")') : m \in Elems(Held("client"))
  <2>1. Elems(<<>>) = {}
    BY ElemsEmpty
  <2>2. "client" = p \/ "client" = o
    BY <1>5 DEF Peers
  <2>3. \A q \in Peers : Held(q)' = <<>> \/ Held(q)' = Held(q)
    BY <1>5, <1>11
  <2>4. PICK q \in Peers : q = "client"
    BY DEF Peers
  <2>5. CASE Held(q)' = <<>>
    BY <2>1, <2>4, <2>5
  <2>6. CASE Held(q)' = Held(q)
    BY <2>4, <2>6
  <2> QED
    BY <2>3, <2>5, <2>6
<1>24. EndsMove
  BY <1>1 DEF EndsMove
<1> QED
  BY <1>1, <1>14, <1>17, <1>18, <1>19, <1>21, <1>22, <1>23, <1>24, AppStep DEF EndsMove

-----------------------------------------------------------------------------
(* The specification *)
LEMMA InitTypes ==
  ASSUME Init PROVE Types
<1>1. DOMAIN <<>> = {}
  OBVIOUS
<1>2. <<>> \in Tables /\ <<>> \in RefTables
  <2>1. <<>> \in [{} -> Params] /\ <<>> \in [{} -> Conv]
    BY <1>1
  <2>2. {} \in SUBSET Ids
    OBVIOUS
  <2> QED
    BY <2>1, <2>2 DEF Tables, RefTables
<1>3. IdTypes
  <2>1. IdSpace \in Ids \cup {IdSpace}
    OBVIOUS
  <2>2. last \in [Peers -> Nat]
    BY DEF Init
  <2>3. idof \in [Peers -> [Conv -> Ids \cup {IdSpace}]]
    BY <2>1 DEF Init
  <2> QED
    BY <1>2, <2>2, <2>3 DEF Init, IdTypes
<1>4. QueueTypes
  <2>1. <<>> \in Seq(Packets) /\ <<>> \in Seq(Notes) /\ Len(<<>>) = 0
    OBVIOUS
  <2>2. net \in [Peers -> Seq(Packets)] /\ blocked \in [Peers -> {<<>>} \cup Waiting]
    BY <2>1 DEF Init
  <2>3. buf \in [Peers -> [Conv -> Seq(Notes)]]
    BY <2>1 DEF Init
  <2>4. \A p \in Peers, c \in Conv : Len(buf[p][c]) <= Buffer
    BY <2>1, ChannelTableAssumption DEF Init
  <2>5. closing \in [Conv -> SUBSET Peers]
    BY DEF Init
  <2> QED
    BY <2>2, <2>3, <2>4, <2>5 DEF QueueTypes
<1>5. InboxTypes
  <2>1. <<>> \in Seq(Requests) /\ Len(<<>>) = 0
    OBVIOUS
  <2>2. inbox \in [Peers -> Seq(Requests)]
    BY <2>1 DEF Init
  <2> QED
    BY <2>1, <2>2, ChannelTableAssumption DEF Init, InboxTypes
<1>6. AppTypes
  <2>1. setup \in SetupType
    BY ChannelTableAssumption DEF Init
  <2>2. end \in [Peers -> [Conv -> EndStates]] /\ failed \in [Peers -> {"no", "Inconsistent", "SendError"}]
    BY DEF Init, EndStates
  <2>3. done \in [Peers -> [Conv -> Nat]]
    BY DEF Init
  <2>4. owed \in [Conv -> Nat] /\ asked \in [Conv -> Nat] /\ replied \in [Conv -> Nat]
    BY DEF Init
  <2> QED
    BY <2>1, <2>2, <2>3, <2>4 DEF AppTypes
<1> QED
  BY <1>3, <1>4, <1>5, <1>6 DEF Types

(* At first no side knows a conversation, and nothing is on its way. *)
LEMMA InitEmpty ==
  ASSUME Init
  PROVE  /\ \A p \in Peers, c \in Conv : ~Known(p, c) /\ ~Has(p, c)
         /\ \A p \in Peers : chans[p] = <<>> /\ refs[p] = <<>> /\ last[p] = 1
         /\ \A p \in Peers : Held(p) = <<>> /\ Line(p) = <<>> /\ Elems(Line(p)) = {}
         /\ \A p \in Peers : inbox[p] = <<>> /\ Elems(inbox[p]) = {}
         /\ \A p \in Peers, c \in Conv : \A x : ~InNotes(p, c, x)
<1>1. DOMAIN <<>> = {} /\ <<>> \o <<>> = <<>>
  OBVIOUS
<1>2. \A p \in Peers : chans[p] = <<>> /\ refs[p] = <<>> /\ last[p] = 1 /\ inbox[p] = <<>>
                       /\ net[p] = <<>> /\ blocked[p] = <<>>
  BY DEF Init
<1>3. \A p \in Peers, c \in Conv : idof[p][c] = IdSpace /\ buf[p][c] = <<>>
  BY DEF Init
<1>4. \A p \in Peers, c \in Conv : ~Known(p, c) /\ ~Has(p, c)
  <2>1. \A p \in Peers : DOMAIN chans[p] = {}
    BY <1>1, <1>2
  <2> QED
    BY <1>3, <2>1 DEF Known, Has
<1>5. \A p \in Peers : Held(p) = <<>>
  BY <1>2 DEF Held
<1>6. \A p \in Peers : Line(p) = <<>>
  BY <1>1, <1>2, <1>5, PeerFacts DEF Line
<1>7. \A p \in Peers : Elems(Line(p)) = {} /\ Elems(inbox[p]) = {}
  BY <1>2, <1>6, ElemsEmpty
<1>8. \A p \in Peers, c \in Conv : \A x : ~InNotes(p, c, x)
  <2>1. \A p \in Peers, c \in Conv : Elems(buf[p][c]) = {}
    BY <1>3, ElemsEmpty
  <2> QED
    BY <1>2, <2>1 DEF InNotes
<1> QED
  BY <1>2, <1>4, <1>5, <1>6, <1>7, <1>8

LEMMA InitRule ==
  ASSUME Init PROVE Rule
<1>1. /\ \A p \in Peers, c \in Conv : ~Known(p, c) /\ ~Has(p, c)
      /\ \A p \in Peers : chans[p] = <<>> /\ refs[p] = <<>> /\ last[p] = 1
      /\ \A p \in Peers : Held(p) = <<>> /\ Line(p) = <<>> /\ Elems(Line(p)) = {}
      /\ \A p \in Peers : inbox[p] = <<>> /\ Elems(inbox[p]) = {}
      /\ \A p \in Peers, c \in Conv : \A x : ~InNotes(p, c, x)
  BY InitEmpty
<1>2. DOMAIN <<>> = {} /\ First(<<>>)
  BY FirstEmpty
<1>3. \A p \in Peers, c \in Conv : end[p][c] = "none" /\ done[p][c] = 0
  BY DEF Init
<1>4. \A c \in Conv : owed[c] = 0 /\ asked[c] = 0 /\ replied[c] = 0
  BY DEF Init
<1>5. CoreInv
  <2>1. CountInv
    <3>1. Cardinality({}) = 0
      BY FS_EmptySet
    <3>2. ASSUME NEW p \in Peers PROVE last[p] = 1 + Cardinality({c \in Conv : Known(p, c)})
      <4>1. PICK S : S = {c \in Conv : Known(p, c)}
        OBVIOUS
      <4>2. S = {}
        BY <1>1, <4>1
      <4>3. Cardinality(S) = 0
        BY <3>1, <4>2
      <4>4. last[p] = 1 + Cardinality(S)
        BY <1>1, <4>3
      <4> QED
        BY <4>1, <4>4
    <3> QED
      BY <3>2 DEF CountInv
  <2>2. OwnInv
    <3>1. \A p \in Peers : DOMAIN chans[p] = {} /\ DOMAIN refs[p] = {}
      BY <1>1, <1>2
    <3> QED
      BY <1>1, <3>1 DEF OwnInv
  <2>3. PeerInv /\ AnswerComes
    BY <1>1 DEF PeerInv, AnswerComes
  <2>4. LineInv
    BY <1>1 DEF LineInv
  <2>5. FirstInv
    BY <1>1, <1>2 DEF FirstInv
  <2> QED
    BY <2>1, <2>2, <2>3, <2>4, <2>5 DEF CoreInv
<1>6. WindowInv
  BY <1>1 DEF WindowInv
<1>7. AppInv
  <2>1. InboxInv
    BY <1>1, <1>2 DEF InboxInv
  <2>2. StartedInv
    BY <1>1 DEF StartedInv
  <2>3. UseInv
    BY <1>1, <1>3, <1>4 DEF UseInv
  <2> QED
    BY <2>1, <2>2, <2>3 DEF AppInv
<1>8. PICK s \in Seq(Requests) : s = <<>>
  <2>1. <<>> \in Seq(Requests)
    OBVIOUS
  <2> QED
    BY <2>1
<1>9. PendInv
  <2>1. \A m \in Requests : m.n \in Nat
    BY DEF Requests
  <2>2. ASSUME NEW p \in Peers, NEW c \in Conv
        PROVE  Total(inbox[p], c, "data") = 0 /\ Pend(p, c) = 0
    <3>1. Elems(s) = {}
      BY <1>8, ElemsEmpty
    <3>2. Total(s, c, "data") = 0
      BY <2>1, <3>1, TotalFacts
    <3> QED
      BY <1>1, <1>8, <3>2 DEF Pend
  <2> QED
    BY <1>3, <2>2, ChannelTableAssumption DEF PendInv
<1>10. ReplyInv
  <2>1. "server" \in Peers /\ "client" \in Peers
    BY DEF Peers
  <2>2. Elems(Held("client")) = {}
    BY <1>1, <2>1, ElemsEmpty
  <2> QED
    BY <1>1, <1>4, <2>1, <2>2 DEF ReplyInv
<1>11. SessionSurvives
  BY DEF Init, SessionSurvives
<1> QED
  BY <1>5, <1>6, <1>7, <1>9, <1>10, <1>11, InitTypes DEF Rule

LEMMA StutterStep ==
  ASSUME Rule, UNCHANGED vars PROVE Rule'
<1>1. Idle
  BY DEF vars, Idle
<1>2. inbox' = inbox /\ done' = done /\ owed' = owed /\ buf' = buf /\ blocked' = blocked /\ end' = end
  BY DEF vars
<1>3. AppTypes'
  BY DEF Rule, Types, AppTypes, vars
<1>4. BufTypes' /\ NotesMove
  BY <1>2, BufSame
<1>5. EndsMove
  BY <1>2 DEF EndsMove
<1> QED
  BY <1>1, <1>2, <1>3, <1>4, <1>5, IdleStep

LEMMA ClientSessionStep ==
  ASSUME Rule, ClientSession PROVE Rule'
<1>1. PICK p \in Peers : p = "client"
  BY DEF Peers
<1>2. CASE ClientTakesOpen \/ ClientTakesChannelMsg \/ ClientTakesRequest
  BY <1>1, <1>2, TakesOpenStep, TakesMsgStep, TakesRequestStep
     DEF ClientTakesOpen, ClientTakesChannelMsg
<1>3. CASE ClientReadsConfirmation \/ ClientReadsOpen \/ ClientReadsClose \/ ClientReadsRequest
  BY <1>1, <1>3, ReadsConfirmationStep, ClientReadsOpenStep, ClientReadsCloseStep,
     ClientReadsRequestStep DEF ClientReadsConfirmation
<1>4. CASE ClientReadsOpenFailure
  BY <1>1, <1>4, ReadsOpenFailureStep DEF ClientReadsOpenFailure
<1>5. CASE ClientReadsEof \/ ClientReadsData \/ ClientReadsWindowAdjust
  BY <1>1, <1>5, ReadsEofStep, ReadsDataStep, ReadsWindowAdjustStep
     DEF ClientReadsEof, ClientReadsData, ClientReadsWindowAdjust
<1>6. CASE ClientReadsSuccess
  <2>1. PICK t \in {"success", "failure"}, shown \in NoteNames : t = "success" /\ shown = "Success"
    BY DEF NoteNames
  <2> QED
    BY <1>6, <2>1, ClientReadsReplyStep DEF ClientReadsSuccess
<1>7. CASE ClientReadsFailure
  <2>1. PICK t \in {"success", "failure"}, shown \in NoteNames : t = "failure" /\ shown = "Failure"
    BY DEF NoteNames
  <2> QED
    BY <1>7, <2>1, ClientReadsReplyStep DEF ClientReadsFailure
<1>8. CASE Unblock("client")
  BY <1>1, <1>8, UnblockStep
<1> QED
  BY <1>2, <1>3, <1>4, <1>5, <1>6, <1>7, <1>8 DEF ClientSession

LEMMA ServerSessionStep ==
  ASSUME Rule, ServerSession PROVE Rule'
<1>1. PICK p \in Peers : p = "server"
  BY DEF Peers
<1>2. CASE ServerTakesOpen \/ ServerTakesChannelMsg
  BY <1>1, <1>2, TakesOpenStep, TakesMsgStep DEF ServerTakesOpen, ServerTakesChannelMsg
<1>3. CASE ServerReadsConfirmation \/ ServerReadsOpen \/ ServerReadsClose
  BY <1>1, <1>3, ReadsConfirmationStep, ServerReadsOpenStep, ServerReadsCloseStep
     DEF ServerReadsConfirmation
<1>4. CASE ServerReadsOpenFailure
  <2>1. PICK lost : lost = "SendError"
    OBVIOUS
  <2>2. ReadsOpenFailure(p, lost)
    BY <1>1, <1>4, <2>1 DEF ServerReadsOpenFailure
  <2> QED
    BY <1>1, <2>1, <2>2, ReadsOpenFailureStep
<1>5. CASE ServerReadsEof \/ ServerReadsData \/ ServerReadsWindowAdjust
  BY <1>1, <1>5, ReadsEofStep, ReadsDataStep, ReadsWindowAdjustStep
     DEF ServerReadsEof, ServerReadsData, ServerReadsWindowAdjust
<1>6. CASE ServerReadsRequest \/ ServerReadsNotice \/ ServerReadsUnknownRequest
  BY <1>6, ServerReadsRequestStep, ServerReadsNoticeStep, ServerReadsUnknownRequestStep
<1>7. CASE Unblock("server")
  BY <1>1, <1>7, UnblockStep
<1> QED
  BY <1>2, <1>3, <1>4, <1>5, <1>6, <1>7 DEF ServerSession

LEMMA RuleStep ==
  ASSUME Rule, [Next]_vars PROVE Rule'
<1>1. PICK a \in Peers : a = "client"
  BY DEF Peers
<1>2. PICK b \in Peers : b = "server"
  BY DEF Peers
<1>3. CASE ClientSession \/ ServerSession
  BY <1>3, ClientSessionStep, ServerSessionStep
<1>4. CASE ClientOpens \/ ServerOpens
  BY <1>1, <1>2, <1>4, OpensStep DEF ClientOpens, ServerOpens
<1>5. CASE ClientApplication
  BY <1>1, <1>5, WritesStep, FinishesStep, AsksStep DEF ClientApplication
<1>6. CASE ServerWrites \/ ServerFinishes \/ AnswersLater
  BY <1>2, <1>6, WritesStep, FinishesStep, AnswersLaterStep DEF ServerWrites, ServerFinishes
<1>7. CASE ClientWaits \/ ServerWaits
  BY <1>1, <1>2, <1>7, WaitsStep DEF ClientWaits, ServerWaits
<1>8. CASE \E p \in Peers : NoMoreMessages(p) \/ DropsEnd(p)
  BY <1>8, NoMoreMessagesStep, DropsEndStep
<1>9. CASE UNCHANGED vars
  BY <1>9, StutterStep
<1> QED
  BY <1>3, <1>4, <1>5, <1>6, <1>7, <1>8, <1>9 DEF Next

-----------------------------------------------------------------------------
(* The theorems *)

(* The inductive invariant: the tables, the lines, the windows, the          *)
(* applications and the replies agree after every step of either session and *)
(* either application (struct Encrypted, Session::channels, the read path).  *)
THEOREM RuleHolds == Spec => []Rule
<1>1. Init => Rule
  BY InitRule
<1>2. Rule /\ [Next]_vars => Rule'
  BY RuleStep
<1> QED
  BY <1>1, <1>2, PTL DEF Spec

(* The entry of a table is that of its conversation. *)
LEMMA EntryIs ==
  ASSUME Rule, NEW p \in Peers, NEW i \in DOMAIN chans[p]
  PROVE  /\ chans[p][i] \in Params /\ chans[p][i].c \in Conv
         /\ idof[p][chans[p][i].c] = i /\ Has(p, chans[p][i].c)
         /\ Ch(p, chans[p][i].c) = chans[p][i]
<1>1. chans[p] \in Tables /\ OwnInv
  BY DEF Rule, Types, IdTypes, CoreInv
<1>2. chans[p][i] \in Params
  BY <1>1, TableFacts
<1>3. chans[p][i].c \in Conv
  BY <1>2, ParamsFacts
<1>4. idof[p][chans[p][i].c] = i
  BY <1>1 DEF OwnInv
<1> QED
  BY <1>2, <1>3, <1>4 DEF Has, Ch

LEMMA EntryBounds ==
  ASSUME Rule, NEW p \in Peers, NEW i \in DOMAIN chans[p]
  PROVE  /\ chans[p][i].swin \in 0 .. Window /\ chans[p][i].rwin \in 0 .. Window
         /\ chans[p][i].pend \in 0 .. MaxWrites /\ chans[p][i].c \in Conv
<1>1. PICK c \in Conv : c = chans[p][i].c /\ Has(p, c) /\ Ch(p, c) = chans[p][i]
  BY EntryIs
<1>2. PICK a \in Params : a = Ch(p, c)
  BY <1>1, EntryIs
<1>3. QueueTypes /\ WindowInv /\ PendInv /\ IdTypes /\ InboxTypes /\ OwnInv
  BY DEF Rule, Types, CoreInv
<1>4. PICK sw \in Nat : sw = a.swin
  BY ParamsFacts
<1>5. PICK rw \in Nat : rw = a.rwin
  BY ParamsFacts
<1>6. PICK pe \in Nat : pe = a.pend
  BY ParamsFacts
<1>7. PICK w \in Nat : w = Window
  BY ChannelTableAssumption
<1>8. sw <= w
  BY <1>1, <1>2, <1>3, <1>4, <1>7 DEF WindowInv
<1>9. rw <= w
  <2>1. CASE a.confirmed
    <3>1. PICK x \in Nat : x = Total(Line(Other(p)), c, "data")
      BY <1>3, LineTotal, PeerFacts
    <3>2. PICK y \in Nat : y = Total(Line(p), c, "adjust")
      BY <1>3, LineTotal
    <3>3. Flow(p, c) = rw + x + y
      BY <1>2, <1>5, <2>1, <3>1, <3>2 DEF Flow
    <3>4. Flow(p, c) <= w
      BY <1>1, <1>3, <1>7 DEF WindowInv
    <3> QED
      BY <3>3, <3>4
  <2>2. CASE ~a.confirmed
    BY <1>1, <1>2, <1>3, <1>5, <1>7, <2>2 DEF WindowInv
  <2> QED
    BY <2>1, <2>2
<1>10. pe <= MaxWrites
  <2>1. PICK t \in Nat : t = Total(inbox[p], c, "data")
    BY <1>3, PendNat
  <2>2. Pend(p, c) = pe
    BY <1>1, <1>2, <1>6 DEF Pend
  <2>3. pe + t <= MaxWrites
    BY <1>3, <2>1, <2>2 DEF PendInv
  <2> QED
    BY <2>1, <2>3, ChannelTableAssumption
<1> QED
  BY <1>1, <1>2, <1>4, <1>5, <1>6, <1>7, <1>8, <1>9, <1>10, ChannelTableAssumption

LEMMA RuleTypes ==
  ASSUME Rule PROVE TypeOK
<1>1. IdTypes /\ QueueTypes /\ InboxTypes /\ AppTypes /\ CountInv
  BY DEF Rule, Types, CoreInv
<1>2. last \in [Peers -> Ids]
  <2>1. ASSUME NEW p \in Peers PROVE last[p] \in Ids
    <3>1. PICK S : S = {c \in Conv : Known(p, c)}
      OBVIOUS
    <3>2. MaxOpens \in Nat /\ IdSpace \in Nat /\ IdSpace > MaxOpens + 2
      BY ChannelTableAssumption
    <3>3. IsFiniteSet(Conv) /\ Cardinality(Conv) = MaxOpens
      BY <3>2, FS_Interval DEF Conv
    <3>4. S \subseteq Conv
      BY <3>1
    <3>5. Cardinality(S) <= MaxOpens /\ Cardinality(S) \in Nat
      BY <3>3, <3>4, FS_Subset, FS_CardinalityType
    <3>6. last[p] = 1 + Cardinality(S)
      BY <1>1, <3>1 DEF CountInv
    <3> QED
      BY <3>2, <3>5, <3>6 DEF Ids
  <2> QED
    BY <1>1, <2>1 DEF IdTypes
<1>3. \A p \in Peers : DOMAIN chans[p] \subseteq Ids /\ DOMAIN refs[p] \subseteq Ids
  BY <1>1, TableFacts, RefTableFacts DEF IdTypes
<1>4. \A p \in Peers : \A i \in DOMAIN chans[p] :
        /\ chans[p][i].swin \in 0 .. Window /\ chans[p][i].rwin \in 0 .. Window
        /\ chans[p][i].pend \in 0 .. MaxWrites /\ chans[p][i].c \in Conv
  BY EntryBounds
<1> QED
  BY <1>1, <1>2, <1>3, <1>4 DEF TypeOK, IdTypes, QueueTypes, InboxTypes, AppTypes

(* No session ends because its peer, its application or the order of their   *)
(* messages surprised it: the assertion of Encrypted::data and the other     *)
(* senders holds when the session takes a message, no confirmation comes     *)
(* that was not asked for (server_read_authenticated, process_packet), and   *)
(* the windows, the pending data and the queues keep their bounds.           *)
THEOREM NoSurprise == Spec => []NoSessionEnds
<1>1. Rule => ConfirmedWhenUsed
  <2>1. SUFFICES ASSUME Rule, NEW p \in Peers, NEW k \in DOMAIN inbox[p], NEW m, m = inbox[p][k],
                        m.t # "open", idof[p][m.c] \in DOMAIN chans[p]
                 PROVE  chans[p][idof[p][m.c]].confirmed
    BY DEF ConfirmedWhenUsed
  <2>2. inbox[p] \in Seq(Requests) /\ InboxInv
    BY <2>1 DEF Rule, Types, InboxTypes, AppInv
  <2>3. m \in Elems(inbox[p])
    BY <2>1, <2>2 DEF Elems
  <2>4. Settled(p, m.c)
    BY <2>1, <2>2, <2>3 DEF InboxInv, GoodRequest
  <2> QED
    BY <2>1, <2>4 DEF Settled, Has, Ch
<1>2. Rule => NoSessionEnds
  BY <1>1, RuleTypes DEF NoSessionEnds, Rule
<1> QED
  BY <1>2, RuleHolds, PTL

(* What an application reads from its Channel was sent to it on that         *)
(* conversation, and a message on its way finds the parameters of its own    *)
(* conversation or none: no id is given out twice (new_channel_id).          *)
THEOREM Routing == Spec => []RoutedRight
<1>1. ASSUME Rule, NEW p \in Peers, NEW c \in Conv, NEW i \in DOMAIN buf[p][c]
      PROVE  buf[p][c][i].c = c
  <2>1. buf[p][c] \in Seq(Notes) /\ UseInv
    BY <1>1 DEF Rule, Types, QueueTypes, AppInv
  <2>2. buf[p][c][i] \in Elems(buf[p][c])
    BY <1>1, <2>1 DEF Elems
  <2>3. InNotes(p, c, buf[p][c][i])
    BY <2>2 DEF InNotes
  <2> QED
    BY <2>1, <2>3 DEF UseInv
<1>2. ASSUME Rule, NEW p \in Peers, NEW i \in DOMAIN net[p], NEW m, m = net[p][i],
             m.t # "open", m.id \in DOMAIN chans[p]
      PROVE  chans[p][m.id].c = m.c
  <2>1. QueueTypes /\ OwnInv /\ LineInv
    BY <1>2 DEF Rule, Types, CoreInv
  <2>2. net[p] \in Seq(Packets) /\ Held(Other(p)) \in Seq(Packets)
    BY <2>1, LineTyped, PeerFacts
  <2>3. m \in Elems(net[p])
    BY <1>2, <2>2 DEF Elems
  <2>4. m \in Elems(Line(p)) /\ m.c \in Conv
    <3>1. Elems(Line(p)) = Elems(net[p]) \cup Elems(Held(Other(p)))
      BY <2>2, ElemsConcat DEF Line
    <3>2. m \in Packets
      BY <2>2, <2>3, ElemsTyped
    <3> QED
      BY <2>3, <3>1, <3>2, PacketsFacts
  <2>5. Known(p, m.c) /\ m.id = idof[p][m.c]
    BY <1>2, <2>1, <2>4 DEF LineInv, GoodPacket
  <2>6. chans[p][m.id].c \in Conv /\ idof[p][chans[p][m.id].c] = m.id
    BY <1>2, EntryIs
  <2> QED
    BY <2>1, <2>4, <2>5, <2>6 DEF OwnInv
<1>3. Rule => RoutedRight
  BY <1>1, <1>2 DEF RoutedRight
<1> QED
  BY <1>3, RuleHolds, PTL

(* The receiver's window is what the sender may still send and what is under *)
(* way between them, also while a session waits and holds its answer back    *)
(* (adjust_window_size, data_noqueue, the WINDOW_ADJUST of both sides).      *)
THEOREM WindowsMatch == Spec => []WindowsAgree
<1>1. ASSUME Rule, NEW p \in Peers, NEW i \in DOMAIN chans[p], NEW j \in DOMAIN chans[Other(p)],
             chans[p][i].c = chans[Other(p)][j].c, chans[p][i].confirmed
      PROVE  chans[Other(p)][j].swin
               = chans[p][i].rwin + Total(net[Other(p)] \o Held(p), chans[p][i].c, "data")
                                  + Total(net[p] \o Held(Other(p)), chans[p][i].c, "adjust")
  <2>1. PICK o \in Peers : o = Other(p) /\ Other(o) = p
    BY PeerFacts
  <2>2. PICK c \in Conv : c = chans[p][i].c /\ Has(p, c) /\ Ch(p, c) = chans[p][i]
    BY <1>1, EntryIs
  <2>3. Has(o, c) /\ Ch(o, c) = chans[o][j]
    BY <1>1, <2>1, <2>2, EntryIs
  <2>4. Ch(o, c).swin = Flow(p, c)
    BY <1>1, <2>1, <2>2, <2>3 DEF Rule, WindowInv
  <2>5. Flow(p, c) = Ch(p, c).rwin + Total(Line(o), c, "data") + Total(Line(p), c, "adjust")
    BY <1>1, <2>1, <2>2 DEF Flow
  <2>6. Line(o) = net[o] \o Held(p) /\ Line(p) = net[p] \o Held(o)
    BY <2>1 DEF Line
  <2> QED
    BY <2>1, <2>2, <2>3, <2>4, <2>5, <2>6
<1>2. Rule => WindowsAgree
  BY <1>1 DEF WindowsAgree
<1> QED
  BY <1>2, RuleHolds, PTL

(* While the server has the channel and its Handler answers in the callback, *)
(* no channel request sent with want_reply, auth-agent-req included, is left  *)
(* without its channel reply, or gets two (wants_reply,                      *)
(* Session::channel_success, ::channel_failure).                             *)
THEOREM OneReplyEach == Spec => []PromptReplies
<1>1. ASSUME Rule, NEW c \in Conv, setup.prompt, Open("server", c)
      PROVE  asked[c] = Wanted(net["server"], c) + Replies(net["client"] \o Held("server"), c)
                                                 + replied[c]
  <2>1. PICK s \in Peers : s = "server" /\ Other(s) = "client"
    BY DEF Peers, Other
  <2>2. PICK k \in Peers : k = "client" /\ Other(k) = "server"
    BY DEF Peers, Other
  <2>3. Has("server", c)
    <3>1. PICK i \in DOMAIN chans[s] : chans[s][i].c = c
      BY <1>1, <2>1 DEF Open
    <3> QED
      BY <1>1, <2>1, <3>1, EntryIs
  <2>4. asked[c] = Total(Line("server"), c, "request") + Replies(Line("client"), c) + replied[c]
    BY <1>1, <2>3 DEF Rule, ReplyInv
  <2>5. Line("server") = net["server"] \o Held("client") /\ Line("client") = net["client"] \o Held("server")
    BY <2>1, <2>2 DEF Line
  <2>6. PICK u \in Seq(Packets) : u = net["server"]
    BY <1>1, <2>1, LineTyped DEF Rule, Types
  <2>7. PICK h \in Seq(Packets) : h = Held("client")
    BY <1>1, <2>2, LineTyped DEF Rule, Types
  <2>8. \A m \in Elems(h) : m.t # "request"
    BY <1>1, <2>7 DEF Rule, ReplyInv
  <2>9. Total(h, c, "request") = 0
    BY <2>8, PacketTotals
  <2>10. Total(u \o h, c, "request") = Total(u, c, "request") + Total(h, c, "request")
    BY PacketTotals
  <2>11. PICK n \in Nat : n = Total(u, c, "request")
    BY PacketTotals
  <2>12. Line("server") = u \o h
    BY <2>5, <2>6, <2>7
  <2>13. Total(u \o h, c, "request") = n
    BY <2>9, <2>10, <2>11
  <2>14. Total(Line("server"), c, "request") = Total(u, c, "request")
    BY <2>11, <2>12, <2>13
  <2> QED
    BY <2>4, <2>5, <2>6, <2>14 DEF Wanted
<1>2. Rule => PromptReplies
  BY <1>1 DEF PromptReplies
<1> QED
  BY <1>2, RuleHolds, PTL

================================================================================
