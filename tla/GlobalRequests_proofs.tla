------------------------ MODULE GlobalRequests_proofs ------------------------
(***************************************************************************)
(* Proofs about GlobalRequests, for any calls, setups and keepalive_max:   *)
(* RepliesAreMatched and NoPeerGivenUp.                                    *)
(*                                                                         *)
(* The next-state relation is first brought to the few kinds of LoopStep.  *)
(* LineInv then follows each request from the inbox over the line to the   *)
(* one decision on it; MatchInv lines the queue of a side up with what it  *)
(* will be answered, by counting replies and requests in the sequences on  *)
(* the line; AliveInv says what a side that counts silence has coming.     *)
(***************************************************************************)
EXTENDS GlobalRequests, SequenceTheorems, FiniteSetTheorems, TLAPS

-----------------------------------------------------------------------------
(* Counting in a sequence *)

(* How many of the first i elements of s are in S. *)
CountTo(s, S, i) == Cardinality({j \in 1..i : s[j] \in S})

Bit(b) == IF b THEN 1 ELSE 0

LEMMA CountIsNat ==
  ASSUME NEW s, NEW S, NEW i \in Nat
  PROVE  IsFiniteSet({j \in 1..i : s[j] \in S}) /\ CountTo(s, S, i) \in Nat
<1>1. IsFiniteSet(1..i)
  BY FS_Interval
<1>2. IsFiniteSet({j \in 1..i : s[j] \in S})
  BY <1>1, FS_Subset
<1> QED
  BY <1>2, FS_CardinalityType DEF CountTo

LEMMA CountNat ==
  ASSUME NEW s, NEW S, NEW i \in Nat PROVE CountTo(s, S, i) \in Nat
BY CountIsNat

LEMMA CountNone ==
  ASSUME NEW s, NEW S PROVE CountTo(s, S, 0) = 0
<1>1. {j \in 1..0 : s[j] \in S} = {}
  OBVIOUS
<1> QED
  BY <1>1, FS_EmptySet DEF CountTo

(* One more element, ... *)
LEMMA CountNext ==
  ASSUME NEW s, NEW S, NEW i \in Nat
  PROVE  CountTo(s, S, i + 1) = CountTo(s, S, i) + Bit(s[i + 1] \in S)
<1> DEFINE T == {j \in 1..i : s[j] \in S}
           U == {j \in 1..(i + 1) : s[j] \in S}
<1>1. IsFiniteSet(T) /\ Cardinality(T) \in Nat
  BY CountIsNat DEF CountTo
<1>2. CASE s[i + 1] \in S
  <2>1. U = T \cup {i + 1} /\ i + 1 \notin T
    BY <1>2
  <2> QED
    BY <1>1, <1>2, <2>1, FS_AddElement DEF CountTo, Bit
<1>3. CASE s[i + 1] \notin S
  <2>1. U = T
    BY <1>3
  <2> QED
    BY <1>1, <1>3, <2>1 DEF CountTo, Bit
<1> QED
  BY <1>2, <1>3

(* ... sequences that agree, ... *)
LEMMA CountSame ==
  ASSUME NEW s, NEW t, NEW S, NEW i \in Nat, \A j \in 1..i : t[j] = s[j]
  PROVE  CountTo(t, S, i) = CountTo(s, S, i)
<1>1. {j \in 1..i : t[j] \in S} = {j \in 1..i : s[j] \in S}
  OBVIOUS
<1> QED
  BY <1>1 DEF CountTo

(* ... a sequence without its first element, ... *)
LEMMA CountShift ==
  ASSUME NEW s, NEW t, NEW S, NEW i \in Nat, \A j \in 1..i : t[j] = s[j + 1]
  PROVE  CountTo(s, S, i + 1) = CountTo(t, S, i) + Bit(s[1] \in S)
<1> DEFINE T == {j \in 1..i : t[j] \in S}
           U == {j \in 1..(i + 1) : s[j] \in S}
           V == {j \in 2..(i + 1) : s[j] \in S}
           f == [j \in T |-> j + 1]
<1>1. IsFiniteSet(T) /\ Cardinality(T) \in Nat
  BY CountIsNat DEF CountTo
<1>2. f \in [T -> V]
  <2>1. ASSUME NEW j \in T PROVE j + 1 \in V
    BY <2>1
  <2> QED
    BY <2>1
<1>3. \A a, b \in T : f[a] = f[b] => a = b
  OBVIOUS
<1>4. ASSUME NEW v \in V PROVE \E a \in T : f[a] = v
  <2>1. v - 1 \in 1..i /\ (v - 1) + 1 = v
    OBVIOUS
  <2>2. t[v - 1] = s[v]
    BY <2>1
  <2>3. v - 1 \in T /\ f[v - 1] = v
    BY <2>1, <2>2
  <2> QED
    BY <2>3
<1>5. f \in Bijection(T, V)
  <2>1. DOMAIN f = T
    OBVIOUS
  <2> HIDE DEF f, T, V
  <2> QED
    BY <1>2, <1>3, <1>4, <2>1 DEF Bijection, Injection, Surjection, IsInjective
<1>6. IsFiniteSet(V) /\ Cardinality(V) = Cardinality(T)
  BY <1>1, <1>5, FS_Bijection DEF ExistsBijection
<1>7. CASE s[1] \in S
  <2>1. U = V \cup {1} /\ 1 \notin V
    BY <1>7
  <2> QED
    BY <1>1, <1>6, <1>7, <2>1, FS_AddElement DEF CountTo, Bit
<1>8. CASE s[1] \notin S
  <2>1. U = V
    BY <1>8
  <2>2. Bit(s[1] \in S) = 0
    BY <1>8 DEF Bit
  <2>3. Cardinality(U) = Cardinality(T) + 0
    BY <1>1, <1>6, <2>1
  <2> QED
    BY <2>2, <2>3 DEF CountTo
<1> QED
  BY <1>7, <1>8

(* ... and longer prefixes. *)
LEMMA CountGrows ==
  ASSUME NEW s, NEW S, NEW i \in Nat, NEW k \in Nat, i <= k
  PROVE  CountTo(s, S, i) <= CountTo(s, S, k)
<1>1. IsFiniteSet({j \in 1..k : s[j] \in S})
  BY CountIsNat
<1>2. {j \in 1..i : s[j] \in S} \subseteq {j \in 1..k : s[j] \in S}
  OBVIOUS
<1> QED
  BY <1>1, <1>2, FS_Subset DEF CountTo

(* An element that counts is counted. *)
LEMMA CountedItself ==
  ASSUME NEW s, NEW S, NEW i \in Nat, i # 0, s[i] \in S
  PROVE  CountTo(s, S, i) \in Nat \ {0}
<1>1. i - 1 \in Nat /\ (i - 1) + 1 = i
  OBVIOUS
<1>2. CountTo(s, S, (i - 1) + 1) = CountTo(s, S, i - 1) + Bit(s[(i - 1) + 1] \in S)
  BY <1>1, CountNext
<1>3. CountTo(s, S, i - 1) \in Nat
  BY <1>1, CountIsNat
<1> QED
  BY <1>1, <1>2, <1>3 DEF Bit

(* The counts of a sequence that loses its head or gains elements. *)
LEMMA CountTail ==
  ASSUME NEW X, NEW s \in Seq(X), s # <<>>, NEW S
  PROVE  /\ Tail(s) \in Seq(X) /\ Len(Tail(s)) = Len(s) - 1 /\ Len(s) \in Nat \ {0}
         /\ \A i \in 1..(Len(s) - 1) : Tail(s)[i] = s[i + 1]
         /\ \A i \in 0..(Len(s) - 1) :
              CountTo(s, S, i + 1) = CountTo(Tail(s), S, i) + Bit(s[1] \in S)
<1> DEFINE t == Tail(s)
<1>1. t \in Seq(X) /\ Len(t) = Len(s) - 1 /\ Len(s) \in Nat \ {0}
  OBVIOUS
<1>2. \A i \in 1..(Len(s) - 1) : t[i] = s[i + 1]
  OBVIOUS
<1> HIDE DEF t
<1>3. ASSUME NEW i \in 0..(Len(s) - 1)
      PROVE  CountTo(s, S, i + 1) = CountTo(t, S, i) + Bit(s[1] \in S)
  <2>1. i \in Nat /\ \A j \in 1..i : t[j] = s[j + 1]
    BY <1>1, <1>2
  <2> QED
    BY <2>1, CountShift
<1> QED
  BY <1>1, <1>2, <1>3 DEF t

LEMMA CountConcat ==
  ASSUME NEW X, NEW s \in Seq(X), NEW t \in Seq(X), NEW S
  PROVE  /\ s \o t \in Seq(X) /\ Len(s \o t) = Len(s) + Len(t) /\ Len(s) \in Nat
         /\ \A i \in 1..Len(s) : (s \o t)[i] = s[i]
         /\ \A i \in 1..Len(t) : (s \o t)[Len(s) + i] = t[i]
         /\ \A i \in 0..Len(s) : CountTo(s \o t, S, i) = CountTo(s, S, i)
<1> DEFINE u == s \o t
<1>1. u \in Seq(X) /\ Len(u) = Len(s) + Len(t) /\ Len(s) \in Nat
  OBVIOUS
<1>2. \A i \in 1..Len(s) : u[i] = s[i]
  OBVIOUS
<1>3. \A i \in 1..Len(t) : u[Len(s) + i] = t[i]
  OBVIOUS
<1> HIDE DEF u
<1>4. ASSUME NEW i \in 0..Len(s) PROVE CountTo(u, S, i) = CountTo(s, S, i)
  <2>1. i \in Nat /\ \A j \in 1..i : u[j] = s[j]
    BY <1>1, <1>2
  <2> QED
    BY <2>1, CountSame
<1> QED
  BY <1>1, <1>2, <1>3, <1>4 DEF u

LEMMA CountAppend ==
  ASSUME NEW X, NEW s \in Seq(X), NEW x \in X, NEW S
  PROVE  /\ Append(s, x) \in Seq(X) /\ Len(Append(s, x)) = Len(s) + 1 /\ Len(s) \in Nat
         /\ \A i \in 1..Len(s) : Append(s, x)[i] = s[i]
         /\ Append(s, x)[Len(s) + 1] = x
         /\ \A i \in 0..Len(s) : CountTo(Append(s, x), S, i) = CountTo(s, S, i)
         /\ CountTo(Append(s, x), S, Len(s) + 1) = CountTo(s, S, Len(s)) + Bit(x \in S)
<1> DEFINE u == Append(s, x)
<1>1. u \in Seq(X) /\ Len(u) = Len(s) + 1 /\ Len(s) \in Nat
  OBVIOUS
<1>2. \A i \in 1..Len(s) : u[i] = s[i]
  OBVIOUS
<1>3. u[Len(s) + 1] = x
  OBVIOUS
<1> HIDE DEF u
<1>4. ASSUME NEW i \in 0..Len(s) PROVE CountTo(u, S, i) = CountTo(s, S, i)
  <2>1. i \in Nat /\ \A j \in 1..i : u[j] = s[j]
    BY <1>1, <1>2
  <2> QED
    BY <2>1, CountSame
<1>5. CountTo(u, S, Len(s) + 1) = CountTo(u, S, Len(s)) + Bit(u[Len(s) + 1] \in S)
  BY <1>1, CountNext
<1>6. CountTo(u, S, Len(s)) = CountTo(s, S, Len(s))
  BY <1>1, <1>4
<1> QED
  BY <1>1, <1>2, <1>3, <1>4, <1>5, <1>6 DEF u

(* Elements that do not count leave the count alone. *)
LEMMA CountOthers ==
  ASSUME NEW X, NEW s \in Seq(X), NEW t \in Seq(X), NEW S, \A i \in 1..Len(t) : t[i] \notin S
  PROVE  CountTo(s \o t, S, Len(s \o t)) = CountTo(s, S, Len(s))
<1> DEFINE u == s \o t
<1>1. u \in Seq(X) /\ Len(u) = Len(s) + Len(t) /\ Len(s) \in Nat /\ Len(t) \in Nat
  OBVIOUS
<1>2. \A i \in 1..Len(s) : u[i] = s[i]
  OBVIOUS
<1>3. \A i \in 1..Len(t) : u[Len(s) + i] = t[i]
  OBVIOUS
<1> HIDE DEF u
<1>4. ASSUME NEW j \in 1..Len(u), u[j] \in S PROVE j \in 1..Len(s) /\ s[j] \in S
  <2>1. CASE j > Len(s)
    <3>1. j - Len(s) \in 1..Len(t) /\ Len(s) + (j - Len(s)) = j
      BY <1>1, <2>1
    <3> QED
      BY <1>3, <1>4, <3>1
  <2> QED
    BY <1>1, <1>2, <1>4, <2>1
<1>5. {j \in 1..Len(u) : u[j] \in S} = {j \in 1..Len(s) : s[j] \in S}
  BY <1>1, <1>2, <1>4
<1> QED
  BY <1>5 DEF CountTo, u
-----------------------------------------------------------------------------
(* A queue of requests and the two directions of the line *)

(* The n-th reply of the messages a, in R, is right for the n-th entry of q. *)
RepliesFit(q, a, R, G) ==
  \A i \in 1..Len(a) : a[i] \in R =>
    CountTo(a, R, i) <= Len(q) /\ <<q[CountTo(a, R, i)], a[i]>> \in G

(* The entries of q after those are those of the requests in b that will be  *)
(* answered, in A.                                                           *)
QueueFits(q, a, b, R, A) ==
  /\ Len(q) = CountTo(a, R, Len(a)) + CountTo(b, A, Len(b))
  /\ \A i \in 1..Len(b) : b[i] \in A =>
       q[CountTo(a, R, Len(a)) + CountTo(b, A, i)] = b[i].of

(* More requests are sent, or more answers are right. *)
LEMMA RepliesFitMore ==
  ASSUME NEW X, NEW Y, NEW R, NEW G, NEW a \in Seq(X), NEW q \in Seq(Y), NEW t \in Seq(Y),
         RepliesFit(q, a, R, G), NEW H, G \subseteq H
  PROVE  RepliesFit(q \o t, a, R, H)
<1> DEFINE u == q \o t
<1>1. Len(u) = Len(q) + Len(t) /\ Len(q) \in Nat /\ Len(t) \in Nat /\ Len(a) \in Nat
  OBVIOUS
<1>2. \A i \in 1..Len(q) : u[i] = q[i]
  OBVIOUS
<1> HIDE DEF u
<1>3. ASSUME NEW i \in 1..Len(a), a[i] \in R
      PROVE  CountTo(a, R, i) <= Len(u) /\ <<u[CountTo(a, R, i)], a[i]>> \in H
  <2>1. CountTo(a, R, i) <= Len(q) /\ <<q[CountTo(a, R, i)], a[i]>> \in G
    BY <1>3 DEF RepliesFit
  <2>2. CountTo(a, R, i) \in Nat \ {0}
    BY <1>3, CountedItself
  <2>3. CountTo(a, R, i) \in 1..Len(q)
    BY <1>1, <2>1, <2>2
  <2>4. u[CountTo(a, R, i)] = q[CountTo(a, R, i)]
    BY <1>2, <2>3
  <2>5. CountTo(a, R, i) <= Len(u)
    BY <1>1, <2>3
  <2> QED
    BY <2>1, <2>4, <2>5
<1> QED
  BY <1>3 DEF RepliesFit, u

(* Messages arrive that are not replies. *)
LEMMA RepliesFitOthers ==
  ASSUME NEW X, NEW R, NEW G, NEW q, NEW a \in Seq(X), NEW t \in Seq(X),
         \A i \in 1..Len(t) : t[i] \notin R, RepliesFit(q, a, R, G)
  PROVE  RepliesFit(q, a \o t, R, G)
<1> DEFINE u == a \o t
<1>1. /\ u \in Seq(X) /\ Len(u) = Len(a) + Len(t) /\ Len(a) \in Nat /\ Len(t) \in Nat
      /\ \A i \in 1..Len(a) : u[i] = a[i]
      /\ \A i \in 1..Len(t) : u[Len(a) + i] = t[i]
      /\ \A i \in 0..Len(a) : CountTo(u, R, i) = CountTo(a, R, i)
  BY CountConcat
<1> HIDE DEF u
<1>2. ASSUME NEW i \in 1..Len(u), u[i] \in R PROVE i \in 1..Len(a)
  <2>1. CASE i > Len(a)
    <3>1. i - Len(a) \in 1..Len(t) /\ Len(a) + (i - Len(a)) = i
      BY <1>1, <2>1
    <3> QED
      BY <1>1, <1>2, <3>1
  <2> QED
    BY <1>1, <2>1
<1>3. ASSUME NEW i \in 1..Len(u), u[i] \in R
      PROVE  CountTo(u, R, i) <= Len(q) /\ <<q[CountTo(u, R, i)], u[i]>> \in G
  <2>1. i \in 1..Len(a) /\ u[i] = a[i] /\ CountTo(u, R, i) = CountTo(a, R, i)
    BY <1>1, <1>2, <1>3
  <2> QED
    BY <1>3, <2>1 DEF RepliesFit
<1> QED
  BY <1>3 DEF RepliesFit, u

(* A message that is not a reply is read. *)
LEMMA RepliesFitSkip ==
  ASSUME NEW X, NEW R, NEW G, NEW q, NEW a \in Seq(X), a # <<>>, a[1] \notin R,
         RepliesFit(q, a, R, G)
  PROVE  /\ RepliesFit(q, Tail(a), R, G)
         /\ CountTo(Tail(a), R, Len(Tail(a))) = CountTo(a, R, Len(a))
<1> DEFINE t == Tail(a)
<1>1. /\ t \in Seq(X) /\ Len(t) = Len(a) - 1 /\ Len(a) \in Nat \ {0}
      /\ \A i \in 1..(Len(a) - 1) : t[i] = a[i + 1]
      /\ \A i \in 0..(Len(a) - 1) : CountTo(a, R, i + 1) = CountTo(t, R, i) + Bit(a[1] \in R)
  BY CountTail
<1> HIDE DEF t
<1>2. \A i \in 0..Len(t) : CountTo(a, R, i + 1) = CountTo(t, R, i)
  <2>1. \A i \in 0..Len(t) : CountTo(t, R, i) \in Nat
    BY <1>1, CountNat
  <2> QED
    BY <1>1, <2>1 DEF Bit
<1>3. ASSUME NEW i \in 1..Len(t), t[i] \in R
      PROVE  CountTo(t, R, i) <= Len(q) /\ <<q[CountTo(t, R, i)], t[i]>> \in G
  <2>1. i + 1 \in 1..Len(a) /\ t[i] = a[i + 1] /\ CountTo(t, R, i) = CountTo(a, R, i + 1)
    BY <1>1, <1>2
  <2> QED
    BY <1>3, <2>1 DEF RepliesFit
<1>4. CountTo(t, R, Len(t)) = CountTo(a, R, Len(a))
  <2>1. Len(t) \in 0..Len(t) /\ Len(t) + 1 = Len(a)
    BY <1>1
  <2> QED
    BY <1>2, <2>1
<1> QED
  BY <1>3, <1>4 DEF RepliesFit, t

(* A reply is read: there is an entry for it, and it is the right one. *)
LEMMA ReplyTaken ==
  ASSUME NEW X, NEW Y, NEW R, NEW G, NEW q \in Seq(Y), NEW a \in Seq(X), a # <<>>, a[1] \in R,
         RepliesFit(q, a, R, G)
  PROVE  /\ q # <<>> /\ <<Head(q), Head(a)>> \in G
         /\ RepliesFit(Tail(q), Tail(a), R, G)
         /\ CountTo(a, R, Len(a)) = CountTo(Tail(a), R, Len(Tail(a))) + 1
<1> DEFINE t == Tail(a)
           r == Tail(q)
<1>1. /\ t \in Seq(X) /\ Len(t) = Len(a) - 1 /\ Len(a) \in Nat \ {0}
      /\ \A i \in 1..(Len(a) - 1) : t[i] = a[i + 1]
      /\ \A i \in 0..(Len(a) - 1) : CountTo(a, R, i + 1) = CountTo(t, R, i) + Bit(a[1] \in R)
  BY CountTail
<1> HIDE DEF t
<1>2. \A i \in 0..Len(t) : CountTo(t, R, i) \in Nat /\ CountTo(a, R, i + 1) = CountTo(t, R, i) + 1
  <2>1. \A i \in 0..Len(t) : CountTo(t, R, i) \in Nat
    BY <1>1, CountNat
  <2> QED
    BY <1>1, <2>1 DEF Bit
<1>3. CountTo(a, R, 1) = 1
  <2>1. CountTo(a, R, 0 + 1) = CountTo(t, R, 0) + 1 /\ CountTo(t, R, 0) = 0
    BY <1>1, <1>2, CountNone
  <2> QED
    BY <2>1
<1>4. 1 <= Len(q) /\ <<q[1], a[1]>> \in G
  <2>1. 1 \in 1..Len(a)
    BY <1>1
  <2> QED
    BY <1>3, <2>1 DEF RepliesFit
<1>5. q # <<>> /\ Head(q) = q[1] /\ Head(a) = a[1]
  BY <1>4
<1>6. Len(r) = Len(q) - 1 /\ \A i \in 1..(Len(q) - 1) : r[i] = q[i + 1]
  BY <1>5
<1> HIDE DEF r
<1>7. ASSUME NEW i \in 1..Len(t), t[i] \in R
      PROVE  CountTo(t, R, i) <= Len(r) /\ <<r[CountTo(t, R, i)], t[i]>> \in G
  <2>1. /\ i + 1 \in 1..Len(a) /\ t[i] = a[i + 1] /\ CountTo(a, R, i + 1) = CountTo(t, R, i) + 1
        /\ CountTo(t, R, i) \in Nat \ {0}
    BY <1>1, <1>2, <1>7, CountedItself
  <2>2. CountTo(t, R, i) + 1 <= Len(q) /\ <<q[CountTo(t, R, i) + 1], t[i]>> \in G
    BY <1>7, <2>1 DEF RepliesFit
  <2>3. Len(q) \in Nat /\ CountTo(t, R, i) \in 1..(Len(q) - 1)
    BY <2>1, <2>2
  <2>4. r[CountTo(t, R, i)] = q[CountTo(t, R, i) + 1]
    BY <1>6, <2>3
  <2>5. CountTo(t, R, i) <= Len(r)
    BY <1>6, <2>3
  <2> QED
    BY <2>2, <2>4, <2>5
<1>8. CountTo(a, R, Len(a)) = CountTo(t, R, Len(t)) + 1
  <2>1. Len(t) \in 0..Len(t) /\ Len(t) + 1 = Len(a)
    BY <1>1
  <2> QED
    BY <1>2, <2>1
<1>9. RepliesFit(r, t, R, G)
  BY <1>7 DEF RepliesFit
<1> QED
  BY <1>4, <1>5, <1>8, <1>9 DEF t, r

(* The peer answers the first of the requests: its reply fits. *)
LEMMA ReplySent ==
  ASSUME NEW X, NEW Y, NEW R, NEW A, NEW G, NEW q \in Seq(Y), NEW a \in Seq(X), NEW b \in Seq(X),
         RepliesFit(q, a, R, G), QueueFits(q, a, b, R, A),
         b # <<>>, b[1] \in A, NEW m \in X, m \in R, <<b[1].of, m>> \in G
  PROVE  /\ RepliesFit(q, Append(a, m), R, G)
         /\ QueueFits(q, Append(a, m), Tail(b), R, A)
<1> DEFINE u == Append(a, m)
           t == Tail(b)
           n == CountTo(a, R, Len(a))
<1>1. /\ u \in Seq(X) /\ Len(u) = Len(a) + 1 /\ Len(a) \in Nat
      /\ \A i \in 1..Len(a) : u[i] = a[i]
      /\ u[Len(a) + 1] = m
      /\ \A i \in 0..Len(a) : CountTo(u, R, i) = CountTo(a, R, i)
      /\ CountTo(u, R, Len(a) + 1) = n + Bit(m \in R)
  BY CountAppend
<1>2. /\ t \in Seq(X) /\ Len(t) = Len(b) - 1 /\ Len(b) \in Nat \ {0}
      /\ \A i \in 1..(Len(b) - 1) : t[i] = b[i + 1]
      /\ \A i \in 0..(Len(b) - 1) : CountTo(b, A, i + 1) = CountTo(t, A, i) + Bit(b[1] \in A)
  BY CountTail
<1> HIDE DEF u, t
<1>3. n \in Nat /\ CountTo(u, R, Len(u)) = n + 1
  BY <1>1, CountNat DEF Bit
<1>4. \A i \in 0..Len(t) : CountTo(t, A, i) \in Nat /\ CountTo(b, A, i + 1) = CountTo(t, A, i) + 1
  <2>1. \A i \in 0..Len(t) : CountTo(t, A, i) \in Nat
    BY <1>2, CountNat
  <2> QED
    BY <1>2, <2>1 DEF Bit
<1>5. CountTo(b, A, Len(b)) = CountTo(t, A, Len(t)) + 1 /\ CountTo(t, A, Len(t)) \in Nat
  <2>1. Len(t) \in 0..Len(t) /\ Len(t) + 1 = Len(b)
    BY <1>2
  <2> QED
    BY <1>4, <2>1
<1>6. CountTo(b, A, 1) = 1
  <2>1. CountTo(b, A, 0 + 1) = CountTo(t, A, 0) + 1 /\ CountTo(t, A, 0) = 0
    BY <1>2, <1>4, CountNone
  <2> QED
    BY <2>1
<1>7. q[n + 1] = b[1].of /\ n + 1 <= Len(q)
  <2>1. 1 \in 1..Len(b)
    BY <1>2
  <2>2. Len(q) = n + CountTo(b, A, Len(b)) /\ q[n + CountTo(b, A, 1)] = b[1].of
    BY <2>1 DEF QueueFits
  <2> QED
    BY <1>3, <1>5, <1>6, <2>2, SMTT(60)
<1> HIDE DEF n
<1>8. ASSUME NEW i \in 1..Len(u), u[i] \in R
      PROVE  CountTo(u, R, i) <= Len(q) /\ <<q[CountTo(u, R, i)], u[i]>> \in G
  <2>1. CASE i = Len(a) + 1
    BY <1>1, <1>3, <1>7, <2>1
  <2>2. CASE i # Len(a) + 1
    <3>1. i \in 1..Len(a) /\ u[i] = a[i] /\ CountTo(u, R, i) = CountTo(a, R, i)
      BY <1>1, <2>2
    <3> QED
      BY <1>8, <3>1 DEF RepliesFit
  <2> QED
    BY <2>1, <2>2
<1>9. Len(q) = CountTo(u, R, Len(u)) + CountTo(t, A, Len(t))
  BY <1>3, <1>5 DEF QueueFits, n
<1>10. ASSUME NEW i \in 1..Len(t), t[i] \in A
       PROVE  q[CountTo(u, R, Len(u)) + CountTo(t, A, i)] = t[i].of
  <2>1. /\ i + 1 \in 1..Len(b) /\ t[i] = b[i + 1] /\ CountTo(b, A, i + 1) = CountTo(t, A, i) + 1
        /\ CountTo(t, A, i) \in Nat
    BY <1>2, <1>4
  <2>2. q[n + CountTo(b, A, i + 1)] = b[i + 1].of
    BY <1>10, <2>1 DEF QueueFits, n
  <2>3. n + CountTo(b, A, i + 1) = (n + 1) + CountTo(t, A, i)
    BY <1>3, <2>1
  <2> QED
    BY <1>3, <2>1, <2>2, <2>3
<1>11. RepliesFit(q, u, R, G)
  BY <1>8 DEF RepliesFit
<1>12. QueueFits(q, u, t, R, A)
  BY <1>9, <1>10 DEF QueueFits
<1> QED
  BY <1>11, <1>12 DEF u, t

(* A reply is read, or a message that is none: as many entries are left as   *)
(* there are replies and requests.                                           *)
LEMMA QueueFitsTaken ==
  ASSUME NEW X, NEW Y, NEW R, NEW A, NEW q \in Seq(Y), q # <<>>, NEW a, NEW t, NEW b \in Seq(X),
         QueueFits(q, a, b, R, A), CountTo(t, R, Len(t)) \in Nat,
         CountTo(a, R, Len(a)) = CountTo(t, R, Len(t)) + 1
  PROVE  QueueFits(Tail(q), t, b, R, A)
<1> DEFINE r == Tail(q)
           n == CountTo(t, R, Len(t))
<1>1. Len(r) = Len(q) - 1 /\ Len(q) \in Nat /\ \A i \in 1..(Len(q) - 1) : r[i] = q[i + 1]
  OBVIOUS
<1>2. Len(b) \in Nat /\ CountTo(b, A, Len(b)) \in Nat
  BY CountNat
<1>3. Len(q) = n + 1 + CountTo(b, A, Len(b))
  BY DEF QueueFits
<1> HIDE DEF r
<1>4. ASSUME NEW i \in 1..Len(b), b[i] \in A PROVE r[n + CountTo(b, A, i)] = b[i].of
  <2>1. q[n + 1 + CountTo(b, A, i)] = b[i].of
    BY <1>4 DEF QueueFits
  <2>2. CountTo(b, A, i) \in Nat \ {0} /\ CountTo(b, A, i) <= CountTo(b, A, Len(b))
    BY <1>2, <1>4, CountedItself, CountGrows
  <2>3. n + CountTo(b, A, i) \in 1..(Len(q) - 1)
        /\ n + CountTo(b, A, i) + 1 = n + 1 + CountTo(b, A, i)
    BY <1>2, <1>3, <2>2, SMTT(60)
  <2> QED
    BY <1>1, <2>1, <2>3
<1>5. Len(r) = n + CountTo(b, A, Len(b))
  BY <1>1, <1>2, <1>3
<1>6. QueueFits(r, t, b, R, A)
  BY <1>4, <1>5 DEF QueueFits
<1> QED
  BY <1>6 DEF r

LEMMA QueueFitsSame ==
  ASSUME NEW R, NEW A, NEW q, NEW a, NEW t, NEW b, QueueFits(q, a, b, R, A),
         CountTo(t, R, Len(t)) = CountTo(a, R, Len(a))
  PROVE  QueueFits(q, t, b, R, A)
BY DEF QueueFits

(* The peer reads a message that it does not answer. *)
LEMMA QueueFitsSkip ==
  ASSUME NEW X, NEW R, NEW A, NEW q, NEW a \in Seq(X), NEW b \in Seq(X), b # <<>>, b[1] \notin A,
         QueueFits(q, a, b, R, A)
  PROVE  QueueFits(q, a, Tail(b), R, A)
<1> DEFINE t == Tail(b)
<1>1. /\ t \in Seq(X) /\ Len(t) = Len(b) - 1 /\ Len(b) \in Nat \ {0}
      /\ \A i \in 1..(Len(b) - 1) : t[i] = b[i + 1]
      /\ \A i \in 0..(Len(b) - 1) : CountTo(b, A, i + 1) = CountTo(t, A, i) + Bit(b[1] \in A)
  BY CountTail
<1> HIDE DEF t
<1>2. \A i \in 0..Len(t) : CountTo(b, A, i + 1) = CountTo(t, A, i)
  <2>1. \A i \in 0..Len(t) : CountTo(t, A, i) \in Nat
    BY <1>1, CountNat
  <2> QED
    BY <1>1, <2>1 DEF Bit
<1>3. CountTo(t, A, Len(t)) = CountTo(b, A, Len(b))
  <2>1. Len(t) \in 0..Len(t) /\ Len(t) + 1 = Len(b)
    BY <1>1
  <2> QED
    BY <1>2, <2>1
<1>4. ASSUME NEW i \in 1..Len(t), t[i] \in A
      PROVE  q[CountTo(a, R, Len(a)) + CountTo(t, A, i)] = t[i].of
  <2>1. i + 1 \in 1..Len(b) /\ t[i] = b[i + 1] /\ CountTo(t, A, i) = CountTo(b, A, i + 1)
    BY <1>1, <1>2
  <2> QED
    BY <1>4, <2>1 DEF QueueFits
<1> QED
  BY <1>3, <1>4 DEF QueueFits, t

(* A request that will be answered is sent, with its entry. *)
LEMMA QueueFitsSent ==
  ASSUME NEW X, NEW Y, NEW R, NEW A, NEW q \in Seq(Y), NEW a \in Seq(X), NEW b \in Seq(X),
         QueueFits(q, a, b, R, A), NEW m \in X, m \in A, m.of \in Y
  PROVE  QueueFits(Append(q, m.of), a, Append(b, m), R, A)
<1> DEFINE u == Append(b, m)
           r == Append(q, m.of)
           n == CountTo(a, R, Len(a))
           k == CountTo(b, A, Len(b))
<1>1. /\ u \in Seq(X) /\ Len(u) = Len(b) + 1 /\ Len(b) \in Nat
      /\ \A i \in 1..Len(b) : u[i] = b[i]
      /\ u[Len(b) + 1] = m
      /\ \A i \in 0..Len(b) : CountTo(u, A, i) = CountTo(b, A, i)
      /\ CountTo(u, A, Len(b) + 1) = k + Bit(m \in A)
  BY CountAppend
<1>2. Len(r) = Len(q) + 1 /\ Len(q) \in Nat /\ (\A i \in 1..Len(q) : r[i] = q[i])
      /\ r[Len(q) + 1] = m.of
  OBVIOUS
<1> HIDE DEF u, r
<1>3. n \in Nat /\ k \in Nat /\ CountTo(u, A, Len(u)) = k + 1
  BY <1>1, CountNat DEF Bit
<1>4. Len(q) = n + k
  BY DEF QueueFits
<1>5. ASSUME NEW i \in 1..Len(u), u[i] \in A PROVE r[n + CountTo(u, A, i)] = u[i].of
  <2>1. CASE i = Len(b) + 1
    <3>1. CountTo(u, A, i) = k + 1 /\ u[i] = m
      BY <1>1, <1>3, <2>1
    <3>2. n + (k + 1) = Len(q) + 1
      BY <1>3, <1>4
    <3> QED
      BY <1>2, <3>1, <3>2
  <2>2. CASE i # Len(b) + 1
    <3>1. i \in 1..Len(b) /\ u[i] = b[i] /\ CountTo(u, A, i) = CountTo(b, A, i)
      BY <1>1, <2>2
    <3>2. q[n + CountTo(b, A, i)] = b[i].of
      BY <1>5, <3>1 DEF QueueFits
    <3>3. CountTo(b, A, i) \in Nat \ {0} /\ CountTo(b, A, i) <= k
      BY <1>1, <1>5, <3>1, CountedItself, CountGrows
    <3>4. n + CountTo(b, A, i) \in 1..Len(q)
      BY <1>3, <1>4, <3>3
    <3> QED
      BY <1>2, <3>1, <3>2, <3>4
  <2> QED
    BY <2>1, <2>2
<1>6. Len(r) = n + CountTo(u, A, Len(u))
  BY <1>2, <1>3, <1>4
<1>7. QueueFits(r, a, u, R, A)
  BY <1>5, <1>6 DEF QueueFits
<1> QED
  BY <1>7 DEF r, u

(* Messages are sent that will not be answered. *)
LEMMA QueueFitsOthers ==
  ASSUME NEW X, NEW R, NEW A, NEW q, NEW a \in Seq(X), NEW b \in Seq(X), NEW t \in Seq(X),
         \A i \in 1..Len(t) : t[i] \notin A, QueueFits(q, a, b, R, A)
  PROVE  QueueFits(q, a, b \o t, R, A)
<1> DEFINE u == b \o t
<1>1. /\ u \in Seq(X) /\ Len(u) = Len(b) + Len(t) /\ Len(b) \in Nat /\ Len(t) \in Nat
      /\ \A i \in 1..Len(b) : u[i] = b[i]
      /\ \A i \in 1..Len(t) : u[Len(b) + i] = t[i]
      /\ \A i \in 0..Len(b) : CountTo(u, A, i) = CountTo(b, A, i)
  BY CountConcat
<1>2. CountTo(u, A, Len(u)) = CountTo(b, A, Len(b))
  BY CountOthers
<1> HIDE DEF u
<1>3. ASSUME NEW i \in 1..Len(u), u[i] \in A PROVE i \in 1..Len(b)
  <2>1. CASE i > Len(b)
    <3>1. i - Len(b) \in 1..Len(t) /\ Len(b) + (i - Len(b)) = i
      BY <1>1, <2>1
    <3> QED
      BY <1>1, <1>3, <3>1
  <2> QED
    BY <1>1, <2>1
<1>4. ASSUME NEW i \in 1..Len(u), u[i] \in A
      PROVE  q[CountTo(a, R, Len(a)) + CountTo(u, A, i)] = u[i].of
  <2>1. i \in 1..Len(b) /\ u[i] = b[i] /\ CountTo(u, A, i) = CountTo(b, A, i)
    BY <1>1, <1>3, <1>4
  <2> QED
    BY <1>4, <2>1 DEF QueueFits
<1> QED
  BY <1>2, <1>4 DEF QueueFits, u
-----------------------------------------------------------------------------
(* The steps of the loops *)

Eof == [type |-> "eof"]
Bye == [type |-> "disconnect"]

(* What a loop flushes before it shuts its stream down. *)
Farewells == {<<>>, <<Bye>>}

Endings == {"Disconnect", "ReceivedDisconnect", "Eof", "Closed", "HandleDropped",
            "KeepaliveTimeout", "InactivityTimeout"}

TimerRequest == Request("keepalive", TRUE, "timer")

PingKinds == {"ping", "keepalive_noreply", "no_more", "no_more_noreply"}

(* The request of a call, and the entry that awaits its reply. *)
RequestOf(c) ==
  IF Kind(c) = "agent" THEN Request("agent", TRUE, c)
  ELSE IF Kind(c) \in PingKinds THEN Request("keepalive", Kind(c) \in {"ping", "no_more"}, c)
  ELSE Request(Kind(c), Kind(c) # "forward_bare", c)

Entry(c) == IF Kind(c) \in {"agent", "forward_bare"} THEN <<>> ELSE <<c>>

(* A session ends; for silence only when its timer finds it silent. *)
Ends(p) ==
  \E why \in Endings, ms \in Farewells :
    /\ Live(p) /\ Stop(p, why, ms)
    /\ why = "KeepaliveTimeout" => TimeFor(p) /\ alive_timeouts[p] + 1 > KeepaliveMax

(* The server begins to drain: asked to by its own program or by the client. *)
DrainBegins ==
  /\ status["server"] = "up"
  /\ status' = [status EXCEPT !["server"] = "draining"]
  /\ \/ /\ net["server"] # <<>> /\ Head(net["server"]).type = "disconnect"
        /\ net' = [SendTo(net, "client", <<Eof>>) EXCEPT !["server"] = Tail(@)]
        /\ inbox' = inbox
     \/ /\ inbox["server"] # <<>>
        /\ net' = SendTo(net, "client", Append(<<Bye>>, Eof))
        /\ inbox' = [inbox EXCEPT !["server"] = Tail(@)]
  /\ UNCHANGED <<setup, open_global_requests, alive_timeouts, wants_reply, call, verdict, cut>>

DrainSkips ==
  /\ status["server"] = "draining" /\ net["server"] # <<>>
  /\ net' = [net EXCEPT !["server"] = Tail(@)]
  /\ UNCHANGED <<setup, status, inbox, open_global_requests, alive_timeouts, wants_reply, call,
                 verdict, cut>>

(* The loop sends the request of a call. *)
Sends(p, c) ==
  /\ status[p] = "up" /\ inbox[p] # <<>> /\ c = Head(inbox[p])
  /\ Kind(c) \notin {"none", "disconnect"}
  /\ SendRequest(p, c, RequestOf(c).name, RequestOf(c).want, Entry(c))

(* The loop answers a request; what it answers is looked at below. *)
AnswersRequest(p) ==
  \/ p = "client" /\ ClientReadsRequest
  \/ p = "server" /\ ServerReadsRequest

SendsKeepalive(p) ==
  /\ p \in setup.keepalive /\ TimeFor(p) /\ alive_timeouts[p] < KeepaliveMax
  /\ alive_timeouts' = [alive_timeouts EXCEPT ![p] = @ + 1]
  /\ keepalive_request(p)

LoopStep ==
  \/ \E c \in Calls : Call(c) \/ Cancel(c)
  \/ \E p \in Sides : Ends(p)
  \/ DrainBegins
  \/ DrainSkips
  \/ \E p \in Sides, c \in Calls : Sends(p, c)
  \/ \E p \in Sides : AnswersRequest(p)
  \/ \E p \in Sides : ReadReply(p)
  \/ \E p \in Sides : SendsKeepalive(p)
  \/ Cut
  \/ UNCHANGED vars

LEMMA TypeFacts ==
  ASSUME TypeOK
  PROVE  /\ setup \in Setups /\ SetupOK(setup)
         /\ inbox \in [Sides -> Seq(Calls)]
         /\ net \in [Sides -> Seq(Messages)]
         /\ open_global_requests \in [Sides -> Seq(Calls \cup {"timer"})]
         /\ alive_timeouts \in [Sides -> 0..KeepaliveMax]
         /\ KeepaliveMax \in Nat \ {0} /\ "timer" \notin Calls
         /\ wants_reply \in BOOLEAN /\ cut \in BOOLEAN
BY SetupsAssumption, KeepaliveAssumption, CallsAssumption DEF TypeOK

LEMMA KindFacts ==
  ASSUME TypeOK, NEW c \in Calls
  PROVE  Kind(c) \in Kinds /\ Side(c) \in Sides
BY TypeFacts DEF SetupOK, Kind, Side

(* Every step is one of those. *)
LEMMA NextIsLoopStep == TypeOK /\ [Next]_vars => LoopStep
<1> SUFFICES ASSUME TypeOK, [Next]_vars PROVE LoopStep
  OBVIOUS
<1>0. "client" \in Sides /\ "server" \in Sides
  BY DEF Sides
<1>1. <<>> \in Farewells /\ <<Bye>> \in Farewells
  BY DEF Farewells
<1>2. ASSUME NEW p \in Sides, NEW why \in Endings \ {"KeepaliveTimeout"}, NEW ms \in Farewells,
             Live(p), Stop(p, why, ms)
      PROVE  LoopStep
  BY <1>2 DEF LoopStep, Ends
<1>3. ASSUME NEW p \in Sides, HandleMsg(p) PROVE LoopStep
  <2> DEFINE c == Head(inbox[p])
  <2>1. status[p] = "up" /\ inbox[p] # <<>> /\ Live(p)
    BY <1>3 DEF HandleMsg, Live
  <2>2. c \in Calls
    BY <2>1, TypeFacts
  <2>3. CASE Kind(c) = "disconnect" /\ disconnect(p)
    <3>1. CASE p = "client"
      BY <1>0, <1>1, <1>2, <2>1, <2>3, <3>1 DEF disconnect, Endings, Bye
    <3>2. CASE p # "client"
      <4>1. p = "server"
        BY <3>2 DEF Sides
      <4>2. DrainBegins
        BY <2>1, <2>3, <3>2, <4>1 DEF disconnect, DrainBegins, Bye, Eof
      <4> QED
        BY <4>2 DEF LoopStep
    <3> QED
      BY <3>1, <3>2
  <2>4. ASSUME Sends(p, c) PROVE LoopStep
    BY <2>2, <2>4 DEF LoopStep
  <2>5. CASE forward(p, c)
    <3>1. /\ Kind(c) \in ForwardKinds \cup FlagKinds \cup {"forward_bare"}
          /\ SendRequest(p, c, Kind(c), Kind(c) # "forward_bare",
                         IF Kind(c) # "forward_bare" THEN <<c>> ELSE <<>>)
      BY <2>5 DEF forward
    <3>2. Kind(c) \notin PingKinds /\ Kind(c) \notin {"agent", "none", "disconnect"}
      BY <3>1 DEF PingKinds, ForwardKinds, FlagKinds
    <3>3. /\ RequestOf(c).name = Kind(c) /\ RequestOf(c).want = (Kind(c) # "forward_bare")
          /\ Entry(c) = IF Kind(c) # "forward_bare" THEN <<c>> ELSE <<>>
      BY <3>2 DEF RequestOf, Request, Entry
    <3> QED
      BY <2>1, <2>4, <3>1, <3>2, <3>3 DEF Sends
  <2>6. CASE ping(p, c)
    <3>1. /\ Kind(c) \in PingKinds
          /\ SendRequest(p, c, "keepalive", Kind(c) \in {"ping", "no_more"}, <<c>>)
      BY <2>6 DEF ping, PingKinds
    <3>2. Kind(c) \notin {"agent", "none", "disconnect", "forward_bare"}
      BY <3>1 DEF PingKinds
    <3>3. /\ RequestOf(c).name = "keepalive" /\ Entry(c) = <<c>>
          /\ RequestOf(c).want = (Kind(c) \in {"ping", "no_more"})
      BY <3>1, <3>2 DEF RequestOf, Request, Entry
    <3> QED
      BY <2>1, <2>4, <3>1, <3>2, <3>3 DEF Sends
  <2>7. CASE agent_forward(p, c)
    <3>1. Kind(c) = "agent" /\ SendRequest(p, c, "agent", TRUE, <<>>)
      BY <2>7 DEF agent_forward
    <3>2. RequestOf(c).name = "agent" /\ Entry(c) = <<>> /\ RequestOf(c).want = TRUE
      BY <3>1 DEF RequestOf, Request, Entry
    <3> QED
      BY <2>1, <2>4, <3>1, <3>2 DEF Sends
  <2> QED
    BY <1>3, <2>3, <2>5, <2>6, <2>7 DEF HandleMsg
<1>4. CASE HandleDropped
  BY <1>0, <1>1, <1>2, <1>4 DEF HandleDropped, Live, Endings
<1>5. ASSUME NEW p \in Sides, ReadEnd(p) PROVE LoopStep
  <2>1. status[p] = "up" /\ net[p] # <<>> /\ Live(p) /\ Head(net[p]).type \in {"disconnect", "eof"}
    BY <1>5 DEF ReadEnd, Live
  <2>2. CASE \E why \in {"Eof", "ReceivedDisconnect"} : Stop(p, why, <<>>)
    BY <1>1, <1>2, <2>1, <2>2 DEF Endings
  <2>3. CASE p = "server" /\ Head(net[p]).type # "eof" /\ Drain(<<>>)
    <3>1. Append(<<>>, [type |-> "eof"]) = <<Eof>>
      BY DEF Eof
    <3>2. DrainBegins
      BY <2>1, <2>3, <3>1 DEF Drain, DrainBegins
    <3> QED
      BY <3>2 DEF LoopStep
  <2> QED
    BY <1>5, <2>2, <2>3 DEF ReadEnd, Sides
<1>6. CASE DrainRead
  <2>1. CASE Head(net["server"]).type = "eof"
    BY <1>0, <1>1, <1>2, <1>6, <2>1 DEF DrainRead, Live, Endings
  <2>2. CASE Head(net["server"]).type # "eof"
    <3>1. DrainSkips
      BY <1>6, <2>2 DEF DrainRead, DrainSkips
    <3> QED
      BY <3>1 DEF LoopStep
  <2> QED
    BY <2>1, <2>2
<1>7. ASSUME NEW p \in Sides, KeepaliveTimer(p) PROVE LoopStep
  <2>1. CASE alive_timeouts[p] + 1 > KeepaliveMax
    <3>1. Ends(p)
      BY <1>1, <1>7, <2>1 DEF KeepaliveTimer, Ends, TimeFor, Live, Endings
    <3> QED
      BY <3>1 DEF LoopStep
  <2>2. CASE ~(alive_timeouts[p] + 1 > KeepaliveMax)
    <3>1. alive_timeouts[p] < KeepaliveMax
      BY <2>2, TypeFacts
    <3>2. SendsKeepalive(p)
      BY <1>7, <2>2, <3>1 DEF KeepaliveTimer, SendsKeepalive
    <3> QED
      BY <3>2 DEF LoopStep
  <2> QED
    BY <2>1, <2>2
<1>8. ASSUME NEW p \in Sides, InactivityTimer(p) PROVE LoopStep
  BY <1>1, <1>2, <1>8 DEF InactivityTimer, TimeFor, Live, Endings
<1>9. CASE ClientLoop
  BY <1>0, <1>3, <1>4, <1>5, <1>7, <1>8, <1>9
     DEF ClientLoop, ClientReads, ClientReadsReply, LoopStep, AnswersRequest
<1>10. CASE ServerLoop
  BY <1>0, <1>3, <1>5, <1>6, <1>7, <1>8, <1>10
     DEF ServerLoop, ServerReads, ServerReadsReply, LoopStep, AnswersRequest
<1> QED
  BY <1>9, <1>10 DEF Next, LoopStep

-----------------------------------------------------------------------------
(* What is on the line *)

Elems(s) == {s[i] : i \in 1..Len(s)}

(* Of the elements in D, s has each at most once. *)
Once(s, D) == \A i, j \in 1..Len(s) : s[i] \in D /\ s[i] = s[j] => i = j

LEMMA ElemsEmpty == Elems(<<>>) = {}
BY DEF Elems

LEMMA ElemsTyped ==
  ASSUME NEW X, NEW s \in Seq(X) PROVE Elems(s) \subseteq X
BY DEF Elems

LEMMA ElemsTail ==
  ASSUME NEW X, NEW s \in Seq(X), s # <<>>
  PROVE  /\ Head(s) \in Elems(s)
         /\ Elems(Tail(s)) \subseteq Elems(s)
         /\ \A x \in Elems(s) : x # Head(s) => x \in Elems(Tail(s))
<1> DEFINE t == Tail(s)
<1>1. Len(t) = Len(s) - 1 /\ Len(s) \in Nat \ {0} /\ Head(s) = s[1]
  OBVIOUS
<1>2. \A i \in 1..(Len(s) - 1) : t[i] = s[i + 1]
  OBVIOUS
<1> HIDE DEF t
<1>3. Head(s) \in Elems(s)
  BY <1>1 DEF Elems
<1>4. ASSUME NEW i \in 1..Len(t) PROVE t[i] \in Elems(s)
  <2>1. i + 1 \in 1..Len(s) /\ t[i] = s[i + 1]
    BY <1>1, <1>2
  <2> QED
    BY <2>1 DEF Elems
<1>5. ASSUME NEW i \in 1..Len(s), s[i] # Head(s) PROVE s[i] \in Elems(t)
  <2>1. i - 1 \in 1..Len(t) /\ (i - 1) + 1 = i
    BY <1>1, <1>5
  <2>2. t[i - 1] = s[i]
    BY <1>1, <1>2, <2>1
  <2> QED
    BY <2>1, <2>2 DEF Elems
<1>6. Elems(t) \subseteq Elems(s)
  BY <1>4 DEF Elems
<1>7. \A x \in Elems(s) : x # Head(s) => x \in Elems(t)
  <2> TAKE x \in Elems(s)
  <2>1. PICK i \in 1..Len(s) : x = s[i]
    BY DEF Elems
  <2> QED
    BY <1>5, <2>1
<1> QED
  BY <1>3, <1>6, <1>7 DEF t

LEMMA ElemsConcat ==
  ASSUME NEW X, NEW s \in Seq(X), NEW t \in Seq(X)
  PROVE  Elems(s \o t) = Elems(s) \cup Elems(t)
<1> DEFINE u == s \o t
<1>1. Len(u) = Len(s) + Len(t) /\ Len(s) \in Nat /\ Len(t) \in Nat
  OBVIOUS
<1>2. \A i \in 1..Len(s) : u[i] = s[i]
  OBVIOUS
<1>3. \A i \in 1..Len(t) : u[Len(s) + i] = t[i]
  OBVIOUS
<1> HIDE DEF u
<1>4. ASSUME NEW i \in 1..Len(u) PROVE u[i] \in Elems(s) \cup Elems(t)
  <2>1. CASE i \in 1..Len(s)
    BY <1>2, <2>1 DEF Elems
  <2>2. CASE i \notin 1..Len(s)
    <3>1. i - Len(s) \in 1..Len(t) /\ Len(s) + (i - Len(s)) = i
      BY <1>1, <2>2
    <3>2. u[i] = t[i - Len(s)]
      BY <1>3, <3>1
    <3> QED
      BY <3>1, <3>2 DEF Elems
  <2> QED
    BY <2>1, <2>2
<1>5. ASSUME NEW i \in 1..Len(s) PROVE s[i] \in Elems(u)
  <2>1. i \in 1..Len(u) /\ u[i] = s[i]
    BY <1>1, <1>2
  <2> QED
    BY <2>1 DEF Elems
<1>6. ASSUME NEW i \in 1..Len(t) PROVE t[i] \in Elems(u)
  <2>1. Len(s) + i \in 1..Len(u) /\ u[Len(s) + i] = t[i]
    BY <1>1, <1>3
  <2> QED
    BY <2>1 DEF Elems
<1>7. Elems(u) \subseteq Elems(s) \cup Elems(t)
  <2>1. ASSUME NEW x \in Elems(u) PROVE x \in Elems(s) \cup Elems(t)
    <3>1. PICK i \in 1..Len(u) : x = u[i]
      BY DEF Elems
    <3> QED
      BY <1>4, <3>1
  <2> QED
    BY <2>1
<1>8. Elems(s) \subseteq Elems(u) /\ Elems(t) \subseteq Elems(u)
  BY <1>5, <1>6 DEF Elems
<1>9. Elems(u) = Elems(s) \cup Elems(t)
  BY <1>7, <1>8
<1> QED
  BY <1>9 DEF u

LEMMA ElemsOne ==
  ASSUME NEW x PROVE Elems(<<x>>) = {x}
<1>1. Len(<<x>>) = 1 /\ <<x>>[1] = x /\ 1..1 = {1}
  OBVIOUS
<1> QED
  BY <1>1 DEF Elems

LEMMA OnceEmpty == ASSUME NEW D PROVE Once(<<>>, D)
BY DEF Once

LEMMA OnceTail ==
  ASSUME NEW X, NEW D, NEW s \in Seq(X), s # <<>>, Once(s, D)
  PROVE  /\ Once(Tail(s), D)
         /\ Head(s) \in D => Head(s) \notin Elems(Tail(s))
<1> DEFINE t == Tail(s)
<1>1. Len(t) = Len(s) - 1 /\ Len(s) \in Nat \ {0} /\ Head(s) = s[1]
  OBVIOUS
<1>2. \A i \in 1..(Len(s) - 1) : t[i] = s[i + 1]
  OBVIOUS
<1> HIDE DEF t
<1>3. \A i \in 1..Len(t) : i + 1 \in 1..Len(s) /\ t[i] = s[i + 1]
  BY <1>1, <1>2
<1>4. ASSUME NEW i \in 1..Len(t), NEW j \in 1..Len(t), t[i] \in D, t[i] = t[j] PROVE i = j
  <2>1. i + 1 = j + 1
    BY <1>3, <1>4 DEF Once
  <2> QED
    BY <2>1
<1>5. ASSUME Head(s) \in D, NEW i \in 1..Len(t) PROVE t[i] # Head(s)
  <2>1. 1 \in 1..Len(s) /\ i + 1 # 1
    BY <1>1
  <2>2. s[i + 1] # s[1]
    BY <1>1, <1>3, <1>5, <2>1 DEF Once
  <2> QED
    BY <1>1, <1>3, <2>2
<1>6. Once(t, D)
  BY <1>4 DEF Once
<1>7. Head(s) \in D => Head(s) \notin Elems(t)
  BY <1>5 DEF Elems
<1> QED
  BY <1>6, <1>7 DEF t

(* Elements arrive that are not in D, ... *)
LEMMA OnceOthers ==
  ASSUME NEW X, NEW D, NEW s \in Seq(X), NEW t \in Seq(X), Once(s, D), Elems(t) \cap D = {}
  PROVE  Once(s \o t, D)
<1> DEFINE u == s \o t
<1>1. Len(u) = Len(s) + Len(t) /\ Len(s) \in Nat /\ Len(t) \in Nat
  OBVIOUS
<1>2. \A i \in 1..Len(s) : u[i] = s[i]
  OBVIOUS
<1>3. \A i \in 1..Len(t) : u[Len(s) + i] = t[i]
  OBVIOUS
<1> HIDE DEF u
<1>4. ASSUME NEW i \in 1..Len(u), u[i] \in D PROVE i \in 1..Len(s)
  <2>1. CASE i > Len(s)
    <3>1. i - Len(s) \in 1..Len(t) /\ Len(s) + (i - Len(s)) = i
      BY <1>1, <2>1
    <3>2. u[i] = t[i - Len(s)]
      BY <1>3, <3>1
    <3>3. u[i] \in Elems(t)
      BY <3>1, <3>2 DEF Elems
    <3> QED
      BY <1>4, <3>3
  <2> QED
    BY <1>1, <2>1
<1>5. Once(u, D)
  BY <1>2, <1>4 DEF Once
<1> QED
  BY <1>5 DEF u

(* ... or one that is not there yet. *)
LEMMA OnceNew ==
  ASSUME NEW X, NEW D, NEW s \in Seq(X), NEW x \in X, Once(s, D), x \notin Elems(s)
  PROVE  Once(s \o <<x>>, D)
<1> DEFINE u == s \o <<x>>
<1>1. Len(u) = Len(s) + 1 /\ Len(s) \in Nat
  OBVIOUS
<1>2. \A i \in 1..Len(s) : u[i] = s[i]
  OBVIOUS
<1>3. u[Len(s) + 1] = x
  OBVIOUS
<1> HIDE DEF u
<1>4. \A i \in 1..Len(u) : i \in 1..Len(s) \/ i = Len(s) + 1
  BY <1>1
<1>5. \A i \in 1..Len(s) : u[i] # x
  BY <1>2 DEF Elems
<1>6. Once(u, D)
  BY <1>2, <1>3, <1>4, <1>5 DEF Once
<1> QED
  BY <1>6 DEF u

-----------------------------------------------------------------------------
(* The messages, and what a step does to the line *)

Names == {"keepalive", "agent", "forward_bare"} \cup ForwardKinds \cup FlagKinds

LEMMA MessageTypes ==
  /\ TimerRequest \in Messages
  /\ \A b \in BOOLEAN : Success(b) \in Messages /\ Success(b).type = "success" /\ Success(b).port = b
  /\ Failure \in Messages /\ Failure.type = "failure"
  /\ Bye \in Messages /\ Bye.type = "disconnect"
  /\ Eof \in Messages /\ Eof.type = "eof"
BY DEF Messages, TimerRequest, Request, Success, Failure, Bye, Eof

LEMMA RequestTypes ==
  ASSUME NEW m \in Messages, m.type = "request"
  PROVE  /\ m.name \in Names /\ m.want \in BOOLEAN /\ m.of \in Calls \cup {"timer"}
         /\ m = Request(m.name, m.want, m.of)
BY DEF Messages, Names, Request

LEMMA RequestOfFacts ==
  ASSUME TypeOK, NEW c \in Calls, Kind(c) \notin {"none", "disconnect"}
  PROVE  /\ RequestOf(c) \in Messages
         /\ RequestOf(c).type = "request" /\ RequestOf(c).of = c
         /\ RequestOf(c) = Request(RequestOf(c).name, RequestOf(c).want, c)
<1>1. Kind(c) \in Kinds
  BY KindFacts
<1>2. CASE Kind(c) = "agent"
  BY <1>2 DEF RequestOf, Request, Messages
<1>3. CASE Kind(c) \in PingKinds
  <2> DEFINE w == Kind(c) \in {"ping", "no_more"}
  <2>1. Kind(c) # "agent" /\ w \in BOOLEAN
    BY <1>3 DEF PingKinds
  <2>2. RequestOf(c) = Request("keepalive", w, c)
    BY <1>3, <2>1 DEF RequestOf
  <2> HIDE DEF w
  <2> QED
    BY <2>1, <2>2 DEF Request, Messages
<1>4. CASE Kind(c) \notin PingKinds /\ Kind(c) # "agent"
  <2>1. Kind(c) \in ForwardKinds \cup FlagKinds \cup {"forward_bare"}
    BY <1>1, <1>4 DEF Kinds, PingKinds, WaitingKinds, SilentKinds
  <2>2. RequestOf(c) = Request(Kind(c), Kind(c) # "forward_bare", c)
    BY <1>4 DEF RequestOf
  <2> QED
    BY <2>1, <2>2 DEF Request, Messages
<1> QED
  BY <1>2, <1>3, <1>4

LEMMA OtherFacts ==
  ASSUME NEW p \in Sides
  PROVE  /\ Other(p) \in Sides /\ Other(p) # p /\ Other(Other(p)) = p
         /\ \A r \in Sides : r = p \/ r = Other(p)
BY DEF Sides, Other

(* What of ms reaches p. *)
Given(p, ms) == IF Live(p) /\ ~cut THEN ms ELSE <<>>

(* The loop of p leaves z unread and sends ms. *)
LineMoved(p, z, ms) ==
  /\ z \in Seq(Messages) /\ ms \in Seq(Messages)
  /\ net' \in [Sides -> Seq(Messages)]
  /\ net'[p] = z
  /\ net'[Other(p)] = net[Other(p)] \o Given(Other(p), ms)

LEMMA SendEffect ==
  ASSUME net \in [Sides -> Seq(Messages)], NEW p \in Sides, NEW ms \in Seq(Messages)
  PROVE  /\ SendTo(net, Other(p), ms) \in [Sides -> Seq(Messages)]
         /\ SendTo(net, Other(p), ms)[p] = net[p]
         /\ SendTo(net, Other(p), ms)[Other(p)] = net[Other(p)] \o Given(Other(p), ms)
<1>1. Other(p) \in Sides /\ Other(p) # p
  BY OtherFacts
<1>2. net[Other(p)] \o ms \in Seq(Messages)
  BY <1>1
<1>3. CASE Live(Other(p)) /\ ~cut
  <2>1. SendTo(net, Other(p), ms) = [net EXCEPT ![Other(p)] = net[Other(p)] \o ms]
    BY <1>3 DEF SendTo
  <2> QED
    BY <1>1, <1>2, <1>3, <2>1 DEF Given
<1>4. CASE ~(Live(Other(p)) /\ ~cut)
  <2>1. SendTo(net, Other(p), ms) = net
    BY <1>4 DEF SendTo
  <2>2. net[Other(p)] \o <<>> = net[Other(p)]
    BY <1>1, ConcatEmptySeq
  <2> QED
    BY <1>4, <2>1, <2>2 DEF Given
<1> QED
  BY <1>3, <1>4

LEMMA AnswerEffect ==
  ASSUME net \in [Sides -> Seq(Messages)], NEW p \in Sides, NEW ms \in Seq(Messages),
         NEW z \in Seq(Messages), net' = [SendTo(net, Other(p), ms) EXCEPT ![p] = z]
  PROVE  LineMoved(p, z, ms)
<1> DEFINE n == SendTo(net, Other(p), ms)
<1>1. /\ n \in [Sides -> Seq(Messages)]
      /\ n[Other(p)] = net[Other(p)] \o Given(Other(p), ms)
  BY SendEffect
<1>2. Other(p) \in Sides /\ Other(p) # p
  BY OtherFacts
<1> HIDE DEF n
<1>3. net' = [n EXCEPT ![p] = z]
  BY DEF n
<1> QED
  BY <1>1, <1>2, <1>3 DEF LineMoved

LEMMA SentEffect ==
  ASSUME net \in [Sides -> Seq(Messages)], NEW p \in Sides, NEW ms \in Seq(Messages),
         net' = SendTo(net, Other(p), ms)
  PROVE  LineMoved(p, net[p], ms)
BY SendEffect DEF LineMoved

LEMMA ReadEffect ==
  ASSUME net \in [Sides -> Seq(Messages)], NEW p \in Sides, net[p] # <<>>,
         net' = [net EXCEPT ![p] = Tail(@)]
  PROVE  LineMoved(p, Tail(net[p]), <<>>)
<1>1. Other(p) \in Sides /\ Other(p) # p
  BY OtherFacts
<1>2. Tail(net[p]) \in Seq(Messages) /\ <<>> \in Seq(Messages)
  OBVIOUS
<1>3. net[Other(p)] \o <<>> = net[Other(p)]
  BY <1>1, ConcatEmptySeq
<1>4. Given(Other(p), <<>>) = <<>>
  BY DEF Given
<1> QED
  BY <1>1, <1>2, <1>3, <1>4 DEF LineMoved

(* The end of a stream, with or without a farewell. *)
Partings == {<<Eof>>, Append(<<Bye>>, Eof)}

LEMMA PartingTypes ==
  ASSUME NEW ms \in Partings
  PROVE  /\ ms \in Seq(Messages) /\ Elems(ms) \subseteq {Bye, Eof} /\ Eof \in Elems(ms)
<1>1. CASE ms = <<Eof>>
  BY <1>1, MessageTypes, ElemsOne
<1>2. CASE ms = Append(<<Bye>>, Eof)
  <2>0. <<Bye>> \in Seq(Messages) /\ Len(<<Bye>>) = 1 /\ <<Bye>>[1] = Bye /\ Eof \in Messages
    BY MessageTypes
  <2>1. Len(ms) = 2 /\ ms[1] = Bye /\ ms[2] = Eof
    BY <1>2, <2>0
  <2>2. ms \in Seq(Messages)
    BY <1>2, <2>0
  <2>3. 1..2 = {1, 2}
    OBVIOUS
  <2> QED
    BY <2>1, <2>2, <2>3 DEF Elems
<1> QED
  BY <1>1, <1>2 DEF Partings

LEMMA FarewellParts ==
  ASSUME NEW ms \in Farewells PROVE Append(ms, Eof) \in Partings
<1>1. CASE ms = <<>>
  <2>1. Append(<<>>, Eof) = <<Eof>>
    OBVIOUS
  <2> QED
    BY <1>1, <2>1 DEF Partings
<1>2. CASE ms = <<Bye>>
  BY <1>2 DEF Partings
<1> QED
  BY <1>1, <1>2 DEF Farewells

LEMMA EndsEffect ==
  ASSUME TypeOK, NEW p \in Sides, Ends(p)
  PROVE  /\ \E ms \in Partings : LineMoved(p, <<>>, ms)
         /\ \E why \in Endings :
              /\ status' = [status EXCEPT ![p] = why]
              /\ why = "KeepaliveTimeout" => TimeFor(p) /\ alive_timeouts[p] + 1 > KeepaliveMax
         /\ Live(p)
         /\ inbox' = [inbox EXCEPT ![p] = <<>>]
         /\ open_global_requests' = [open_global_requests EXCEPT ![p] = <<>>]
         /\ call' = Hangup(p)
         /\ UNCHANGED <<setup, alive_timeouts, wants_reply, verdict, cut>>
<1>1. PICK why \in Endings, ms \in Farewells :
        /\ Live(p) /\ Stop(p, why, ms)
        /\ why = "KeepaliveTimeout" => TimeFor(p) /\ alive_timeouts[p] + 1 > KeepaliveMax
  BY DEF Ends
<1>2. Append(ms, Eof) \in Partings /\ Append(ms, Eof) \in Seq(Messages)
  BY FarewellParts, PartingTypes
<1>3. net' = [SendTo(net, Other(p), Append(ms, Eof)) EXCEPT ![p] = <<>>]
  BY <1>1 DEF Stop, Eof
<1>4. <<>> \in Seq(Messages)
  OBVIOUS
<1>5. LineMoved(p, <<>>, Append(ms, Eof))
  BY <1>2, <1>3, <1>4, TypeFacts, AnswerEffect
<1> QED
  BY <1>1, <1>2, <1>5 DEF Stop

LEMMA DrainBeginsEffect ==
  ASSUME TypeOK, DrainBegins
  PROVE  /\ status["server"] = "up"
         /\ status' = [status EXCEPT !["server"] = "draining"]
         /\ \E ms \in Partings :
              \/ /\ net["server"] # <<>> /\ Head(net["server"]).type = "disconnect"
                 /\ LineMoved("server", Tail(net["server"]), ms)
                 /\ inbox' = inbox
              \/ /\ inbox["server"] # <<>>
                 /\ LineMoved("server", net["server"], ms)
                 /\ inbox' = [inbox EXCEPT !["server"] = Tail(@)]
         /\ UNCHANGED <<setup, open_global_requests, alive_timeouts, wants_reply, call, verdict, cut>>
<1>0. "server" \in Sides /\ Other("server") = "client"
  BY DEF Sides, Other
<1>1. <<Eof>> \in Partings /\ Append(<<Bye>>, Eof) \in Partings
  BY DEF Partings
<1>2. <<Eof>> \in Seq(Messages) /\ Append(<<Bye>>, Eof) \in Seq(Messages)
  BY <1>1, PartingTypes
<1>3. ASSUME net["server"] # <<>>, net' = [SendTo(net, "client", <<Eof>>) EXCEPT !["server"] = Tail(@)]
      PROVE  LineMoved("server", Tail(net["server"]), <<Eof>>)
  <2>1. Tail(net["server"]) \in Seq(Messages)
    BY <1>0, <1>3, TypeFacts
  <2>2. SendTo(net, "client", <<Eof>>)["server"] = net["server"]
    BY <1>0, <1>2, TypeFacts, SendEffect
  <2>3. net' = [SendTo(net, Other("server"), <<Eof>>) EXCEPT !["server"] = Tail(net["server"])]
    BY <1>0, <1>3, <2>2
  <2> QED
    BY <1>0, <1>2, <2>1, <2>3, TypeFacts, AnswerEffect
<1>4. ASSUME net' = SendTo(net, "client", Append(<<Bye>>, Eof))
      PROVE  LineMoved("server", net["server"], Append(<<Bye>>, Eof))
  BY <1>0, <1>2, <1>4, TypeFacts, SentEffect
<1> QED
  BY <1>1, <1>3, <1>4 DEF DrainBegins

LEMMA DrainSkipsEffect ==
  ASSUME TypeOK, DrainSkips
  PROVE  /\ status["server"] = "draining" /\ net["server"] # <<>>
         /\ LineMoved("server", Tail(net["server"]), <<>>)
BY TypeFacts, ReadEffect DEF DrainSkips, Sides

LEMMA SendsEffect ==
  ASSUME TypeOK, NEW p \in Sides, NEW c \in Calls, Sends(p, c)
  PROVE  LineMoved(p, net[p], <<RequestOf(c)>>)
<1>1. Kind(c) \notin {"none", "disconnect"}
  BY DEF Sends
<1>2. RequestOf(c) \in Messages /\ RequestOf(c) = Request(RequestOf(c).name, RequestOf(c).want, c)
  BY <1>1, RequestOfFacts
<1>3. <<RequestOf(c)>> \in Seq(Messages)
  BY <1>2
<1>4. net' = SendTo(net, Other(p), <<RequestOf(c)>>)
  BY <1>2 DEF Sends, SendRequest
<1> QED
  BY <1>3, <1>4, TypeFacts, SentEffect

LEMMA KeepaliveEffect ==
  ASSUME TypeOK, NEW p \in Sides, SendsKeepalive(p)
  PROVE  LineMoved(p, net[p], <<TimerRequest>>)
<1>1. <<TimerRequest>> \in Seq(Messages)
  BY MessageTypes
<1>2. net' = SendTo(net, Other(p), <<TimerRequest>>)
  BY DEF SendsKeepalive, keepalive_request, TimerRequest
<1> QED
  BY <1>1, <1>2, TypeFacts, SentEffect

(* The decision of p on the request m, and what it answers. *)
Decides(p, m, granted, ms) ==
  /\ granted \in BOOLEAN
  /\ verdict' = IF m.of \in Calls
                THEN [verdict EXCEPT ![m.of] = IF granted THEN "granted" ELSE "denied"]
                ELSE verdict
  /\ \/ /\ p = "client" /\ granted = FALSE
        /\ ms = IF m.name # "keepalive" THEN <<Failure>>
                ELSE IF m.want THEN <<Success(FALSE)>> ELSE <<>>
     \/ /\ p = "server" /\ (m.name = "keepalive" => granted = FALSE)
        /\ setup.peer = "openssh"
        /\ ms = IF m.want /\ m.name # "agent" THEN RusshReply(m, granted) ELSE <<>>
     \/ /\ p = "server" /\ (m.name = "keepalive" => granted = FALSE)
        /\ setup.peer # "openssh" /\ m.name # "agent" /\ ms = RusshReply(m, granted)
     \/ /\ p = "server" /\ setup.peer # "openssh" /\ m.name = "agent"
        /\ ms \in {<<>>, <<Success(FALSE)>>, <<Failure>>}

LEMMA DecidesTypes ==
  ASSUME NEW p \in Sides, NEW m \in Messages, m.type = "request", NEW granted, NEW ms,
         Decides(p, m, granted, ms)
  PROVE  ms = <<>> \/ \E x \in Messages : x.type \in {"success", "failure"} /\ ms = <<x>>
<1>1. m.want \in BOOLEAN
  BY RequestTypes
<1>2. (m.want /\ m.name = "forward_any") \in BOOLEAN /\ FALSE \in BOOLEAN
  BY <1>1
<1>3. /\ Success(m.want /\ m.name = "forward_any") \in Messages
      /\ Success(m.want /\ m.name = "forward_any").type = "success"
      /\ Success(FALSE) \in Messages /\ Success(FALSE).type = "success"
      /\ Failure \in Messages /\ Failure.type = "failure"
  BY <1>2, MessageTypes
<1> QED
  BY <1>3 DEF Decides, RusshReply

LEMMA AnswersEffect ==
  ASSUME TypeOK, NEW p \in Sides, AnswersRequest(p)
  PROVE  /\ status[p] = "up" /\ net[p] # <<>> /\ Head(net[p]) \in Messages
         /\ Head(net[p]).type = "request"
         /\ \E granted, ms : Decides(p, Head(net[p]), granted, ms)
                             /\ LineMoved(p, Tail(net[p]), ms)
         /\ wants_reply' \in BOOLEAN
         /\ \/ UNCHANGED alive_timeouts
            \/ alive_timeouts' = [alive_timeouts EXCEPT ![p] = 0]
         /\ UNCHANGED <<setup, status, inbox, cut, open_global_requests, call>>
<1> DEFINE m == Head(net[p])
<1>1. status[p] = "up" /\ net[p] # <<>> /\ m.type = "request"
  BY DEF AnswersRequest, ClientReadsRequest, ServerReadsRequest
<1>2. m \in Messages /\ Tail(net[p]) \in Seq(Messages)
  BY <1>1, TypeFacts
<1>3. \E granted, ms : Decides(p, m, granted, ms) /\ Answer(p, ms)
  <2>1. CASE p = "client"
    <3>1. \E ms : Decides(p, m, FALSE, ms) /\ Answer(p, ms)
      BY <2>1 DEF AnswersRequest, ClientReadsRequest, Decides
    <3> QED
      BY <3>1
  <2>2. CASE p = "server"
    <3>1. ServerReadsRequest
      BY <2>2 DEF AnswersRequest
    <3>2. PICK granted \in IF m.name = "keepalive" THEN {FALSE} ELSE BOOLEAN :
             /\ Answer("server",
                   IF setup.peer = "openssh"
                   THEN IF m.want /\ m.name # "agent" THEN RusshReply(m, granted) ELSE <<>>
                   ELSE IF m.name = "agent" THEN request_result(granted)
                   ELSE RusshReply(m, granted))
             /\ verdict' = IF m.of \in Calls
                           THEN [verdict EXCEPT
                                   ![m.of] = IF granted THEN "granted" ELSE "denied"]
                           ELSE verdict
      BY <2>2, <3>1 DEF ServerReadsRequest
    <3>3. granted \in BOOLEAN /\ (m.name = "keepalive" => granted = FALSE)
      BY <3>2
    <3>4. request_result(granted) \in {<<>>, <<Success(FALSE)>>, <<Failure>>}
      BY DEF request_result
    <3>5. CASE setup.peer = "openssh"
      BY <2>2, <3>2, <3>3, <3>5 DEF Decides
    <3>6. CASE setup.peer # "openssh" /\ m.name # "agent"
      BY <2>2, <3>2, <3>3, <3>6 DEF Decides
    <3>7. CASE setup.peer # "openssh" /\ m.name = "agent"
      BY <2>2, <3>2, <3>3, <3>4, <3>7 DEF Decides
    <3> QED
      BY <3>5, <3>6, <3>7
  <2> QED
    BY <2>1, <2>2 DEF Sides
<1>4. PICK granted, ms : Decides(p, m, granted, ms) /\ Answer(p, ms)
  BY <1>3
<1>5. ms \in Seq(Messages)
  <2>1. ms = <<>> \/ \E x \in Messages : x.type \in {"success", "failure"} /\ ms = <<x>>
    BY <1>1, <1>2, <1>4, DecidesTypes
  <2>2. \A x \in Messages : <<x>> \in Seq(Messages)
    OBVIOUS
  <2>3. <<>> \in Seq(Messages)
    OBVIOUS
  <2> QED
    BY <2>1, <2>2, <2>3
<1>6. LineMoved(p, Tail(net[p]), ms)
  <2>1. SendTo(net, Other(p), ms)[p] = net[p]
    BY <1>5, TypeFacts, SendEffect
  <2>2. net' = [SendTo(net, Other(p), ms) EXCEPT ![p] = Tail(net[p])]
    BY <1>4, <2>1 DEF Answer
  <2> QED
    BY <1>2, <1>5, <2>2, TypeFacts, AnswerEffect
<1>7. wants_reply' \in BOOLEAN
  <2>1. m.want \in BOOLEAN
    BY <1>1, <1>2, RequestTypes
  <2>2. CASE p = "client"
    BY <2>2, TypeFacts DEF AnswersRequest, ClientReadsRequest
  <2>3. CASE p = "server"
    BY <2>1, <2>3 DEF AnswersRequest, ServerReadsRequest
  <2> QED
    BY <2>2, <2>3 DEF Sides
<1>8. /\ \/ UNCHANGED alive_timeouts
         \/ alive_timeouts' = [alive_timeouts EXCEPT ![p] = 0]
      /\ UNCHANGED <<setup, status, inbox, cut, open_global_requests, call>>
  BY DEF AnswersRequest, ClientReadsRequest, ServerReadsRequest, StaysUp, DataReceived
<1> QED
  BY <1>1, <1>2, <1>4, <1>6, <1>7, <1>8

LEMMA ReplyEffect ==
  ASSUME TypeOK, NEW p \in Sides, ReadReply(p)
  PROVE  /\ status[p] = "up" /\ net[p] # <<>>
         /\ Head(net[p]) \in Messages /\ Head(net[p]).type \in {"success", "failure"}
         /\ LineMoved(p, Tail(net[p]), <<>>)
<1>1. net[p] # <<>> /\ net' = [net EXCEPT ![p] = Tail(@)]
  BY DEF ReadReply
<1>2. LineMoved(p, Tail(net[p]), <<>>)
  BY <1>1, TypeFacts, ReadEffect
<1>3. Head(net[p]) \in Messages
  BY <1>1, TypeFacts
<1> QED
  BY <1>1, <1>2, <1>3 DEF ReadReply

-----------------------------------------------------------------------------
(* Types *)

Statuses == {"up", "draining"} \cup Endings

Results == {"idle", "pending", "dropped", "done", "SendError", "Disconnect", "port", "zero", "ok",
            "denied", "pong"}

(* An ended session holds nothing. *)
Emptied(p) ==
  Ended(p) => inbox[p] = <<>> /\ net[p] = <<>> /\ open_global_requests[p] = <<>>

(* The type invariant, in terms of these. *)
Typed ==
  /\ setup \in Setups
  /\ status \in [Sides -> Statuses]
  /\ inbox \in [Sides -> Seq(Calls)]
  /\ net \in [Sides -> Seq(Messages)]
  /\ open_global_requests \in [Sides -> Seq(Calls \cup {"timer"})]
  /\ alive_timeouts \in [Sides -> 0..KeepaliveMax]
  /\ \A p \in Sides : Emptied(p)
  /\ wants_reply \in BOOLEAN
  /\ call \in [Calls -> Results]
  /\ verdict \in [Calls -> {"none", "granted", "denied"}]
  /\ cut \in BOOLEAN

LEMMA TypeOKParts == (TypeOK <=> Typed) /\ (TypeOK' <=> Typed')
<1>1. Statuses = {"up", "draining", "Disconnect", "ReceivedDisconnect", "Eof", "Closed",
                  "HandleDropped", "KeepaliveTimeout", "InactivityTimeout"}
  BY DEF Statuses, Endings
<1>2. TypeOK <=> Typed
  BY <1>1, Zenon DEF TypeOK, Typed, Results, Emptied
<1>3. TypeOK' <=> Typed'
  BY <1>1, Zenon DEF TypeOK, Typed, Results, Emptied
<1> QED
  BY <1>2, <1>3

(* A session that has ended is sent nothing. *)
LEMMA EndedLine ==
  ASSUME TypeOK, NEW p \in Sides, NEW z, NEW ms, LineMoved(p, z, ms), Ended(Other(p))
  PROVE  net'[Other(p)] = <<>>
<1>1. Other(p) \in Sides
  BY OtherFacts
<1>2. net[Other(p)] = <<>> /\ Given(Other(p), ms) = <<>>
  BY <1>1, TypeOKParts DEF Typed, Emptied, Given, Ended
<1>3. <<>> \o <<>> = <<>>
  OBVIOUS
<1> QED
  BY <1>2, <1>3 DEF LineMoved

(* A step of the loop of p that keeps the types keeps an ended session empty. *)
LEMMA EmptiedKept ==
  ASSUME TypeOK, NEW p \in Sides, NEW z, NEW ms, LineMoved(p, z, ms),
         status'[Other(p)] = status[Other(p)],
         inbox'[Other(p)] = inbox[Other(p)],
         open_global_requests'[Other(p)] = open_global_requests[Other(p)],
         \/ status'[p] \in {"up", "draining"}
         \/ inbox'[p] = <<>> /\ z = <<>> /\ open_global_requests'[p] = <<>>
  PROVE  \A r \in Sides : Emptied(r)'
<1>1. Emptied(p)'
  BY DEF Emptied, Ended, Live, LineMoved
<1>2. Emptied(Other(p))'
  <2> SUFFICES ASSUME Ended(Other(p))'
               PROVE  /\ inbox'[Other(p)] = <<>> /\ net'[Other(p)] = <<>>
                      /\ open_global_requests'[Other(p)] = <<>>
    BY DEF Emptied
  <2>1. Ended(Other(p)) /\ Other(p) \in Sides
    BY OtherFacts DEF Ended, Live
  <2>2. net'[Other(p)] = <<>>
    BY <2>1, EndedLine
  <2> QED
    BY <2>1, <2>2, TypeOKParts DEF Typed, Emptied
<1> QED
  BY <1>1, <1>2, OtherFacts

LEMMA InitTypes == Init => TypeOK
<1> SUFFICES ASSUME Init PROVE TypeOK
  OBVIOUS
<1>1. <<>> \in Seq(Calls) /\ <<>> \in Seq(Messages) /\ <<>> \in Seq(Calls \cup {"timer"})
  OBVIOUS
<1>2. /\ inbox \in [Sides -> Seq(Calls)] /\ net \in [Sides -> Seq(Messages)]
      /\ open_global_requests \in [Sides -> Seq(Calls \cup {"timer"})]
  BY <1>1 DEF Init
<1>3. alive_timeouts \in [Sides -> 0..KeepaliveMax]
  BY KeepaliveAssumption DEF Init
<1>4. status \in [Sides -> Statuses] /\ call \in [Calls -> Results]
      /\ verdict \in [Calls -> {"none", "granted", "denied"}]
  BY DEF Init, Statuses, Results
<1>5. \A p \in Sides : Emptied(p)
  BY DEF Init, Emptied
<1>6. setup \in Setups /\ wants_reply \in BOOLEAN /\ cut \in BOOLEAN
  BY DEF Init
<1> QED
  BY <1>2, <1>3, <1>4, <1>5, <1>6, TypeOKParts DEF Typed

LEMMA OutcomeTypes ==
  ASSUME NEW c, NEW m PROVE Outcome(c, m) \in Answers
BY DEF Outcome, Answers

LEMMA StepTypes == TypeOK /\ LoopStep => TypeOK'
<1> SUFFICES ASSUME TypeOK, LoopStep PROVE TypeOK'
  OBVIOUS
<1> DEFINE Q == Seq(Calls \cup {"timer"})
<1>1. /\ setup \in Setups /\ status \in [Sides -> Statuses] /\ inbox \in [Sides -> Seq(Calls)]
      /\ net \in [Sides -> Seq(Messages)] /\ open_global_requests \in [Sides -> Q]
      /\ alive_timeouts \in [Sides -> 0..KeepaliveMax]
      /\ wants_reply \in BOOLEAN
      /\ call \in [Calls -> Results] /\ verdict \in [Calls -> {"none", "granted", "denied"}]
      /\ cut \in BOOLEAN /\ KeepaliveMax \in Nat \ {0}
  BY TypeOKParts, TypeFacts DEF Typed
<1>2. \A p \in Sides : Emptied(p)
  BY TypeOKParts DEF Typed
<1>3. "up" \in Statuses /\ "draining" \in Statuses /\ Endings \subseteq Statuses
      /\ Answers \subseteq Results
  BY DEF Statuses, Answers, Results
<1>4. <<>> \in Seq(Calls) /\ <<>> \in Q /\ "server" \in Sides
  BY DEF Sides
<1> SUFFICES Typed'
  BY TypeOKParts
<1>5. ASSUME NEW c \in Calls, Call(c)
      PROVE  Typed'
  <2>1. Side(c) \in Sides
    BY KindFacts
  <2>2. UNCHANGED <<setup, status, net, open_global_requests, alive_timeouts, wants_reply, verdict, cut>>
    BY <1>5 DEF Call
  <2>3. CASE Live(Side(c))
    <3>1. inbox' = [inbox EXCEPT ![Side(c)] = Append(@, c)]
      BY <1>5, <2>3 DEF Call
    <3>2. Append(inbox[Side(c)], c) \in Seq(Calls)
      BY <1>1, <2>1
    <3>3. inbox' \in [Sides -> Seq(Calls)] /\ \A r \in Sides : r # Side(c) => inbox'[r] = inbox[r]
      BY <1>1, <2>1, <3>1, <3>2
    <3>4. call' \in [Calls -> Results]
      BY <1>1, <1>5, <2>3 DEF Call, Results
    <3>5. \A p \in Sides : Emptied(p)'
      BY <1>2, <2>2, <2>3, <3>3 DEF Emptied, Ended, Live
    <3> QED
      BY <1>1, <2>2, <3>3, <3>4, <3>5 DEF Typed
  <2>4. CASE ~Live(Side(c))
    <3>1. inbox' = inbox /\ call' \in [Calls -> Results]
      BY <1>1, <1>5, <2>4 DEF Call, Results
    <3>2. \A p \in Sides : Emptied(p)'
      BY <1>2, <2>2, <3>1 DEF Emptied, Ended, Live
    <3> QED
      BY <1>1, <2>2, <3>1, <3>2 DEF Typed
  <2> QED
    BY <2>3, <2>4
<1>6. ASSUME NEW c \in Calls, Cancel(c)
      PROVE  Typed'
  <2>1. UNCHANGED <<setup, status, inbox, net, open_global_requests, alive_timeouts, wants_reply,
                    verdict, cut>>
    BY <1>6 DEF Cancel
  <2>2. call' \in [Calls -> Results]
    BY <1>1, <1>6 DEF Cancel, Results
  <2>3. \A p \in Sides : Emptied(p)'
    BY <1>2, <2>1 DEF Emptied, Ended, Live
  <2> QED
    BY <1>1, <2>1, <2>2, <2>3 DEF Typed
<1>7. ASSUME NEW p \in Sides, Ends(p)
      PROVE  Typed'
  <2>1. PICK ms \in Partings : LineMoved(p, <<>>, ms)
    BY <1>7, EndsEffect
  <2>2. PICK why \in Endings : status' = [status EXCEPT ![p] = why]
    BY <1>7, EndsEffect
  <2>3. /\ inbox' = [inbox EXCEPT ![p] = <<>>]
        /\ open_global_requests' = [open_global_requests EXCEPT ![p] = <<>>]
        /\ call' = Hangup(p)
        /\ UNCHANGED <<setup, alive_timeouts, wants_reply, verdict, cut>>
    BY <1>7, EndsEffect
  <2>4. call' \in [Calls -> Results]
    BY <1>1, <2>3 DEF Hangup, Results
  <2>5. status' \in [Sides -> Statuses] /\ inbox' \in [Sides -> Seq(Calls)]
        /\ open_global_requests' \in [Sides -> Q]
    BY <1>1, <1>3, <1>4, <2>2, <2>3
  <2>6. \A r \in Sides : Emptied(r)'
    <3>1. Other(p) \in Sides /\ Other(p) # p
      BY OtherFacts
    <3>2. /\ status'[Other(p)] = status[Other(p)] /\ inbox'[Other(p)] = inbox[Other(p)]
          /\ open_global_requests'[Other(p)] = open_global_requests[Other(p)]
          /\ inbox'[p] = <<>> /\ open_global_requests'[p] = <<>>
      BY <1>1, <2>2, <2>3, <3>1
    <3> QED
      BY <2>1, <3>2, EmptiedKept
  <2> QED
    BY <1>1, <2>1, <2>3, <2>4, <2>5, <2>6 DEF LineMoved, Typed
<1>8. ASSUME DrainBegins
      PROVE  Typed'
  <2>1. PICK z, ms : LineMoved("server", z, ms)
    BY <1>8, DrainBeginsEffect
  <2>2. status' = [status EXCEPT !["server"] = "draining"]
        /\ UNCHANGED <<setup, open_global_requests, alive_timeouts, wants_reply, call, verdict, cut>>
    BY <1>8, DrainBeginsEffect
  <2>3. inbox' = inbox \/ (inbox["server"] # <<>> /\ inbox' = [inbox EXCEPT !["server"] = Tail(@)])
    BY <1>8, DrainBeginsEffect
  <2>4. inbox' \in [Sides -> Seq(Calls)] /\ \A r \in Sides : r # "server" => inbox'[r] = inbox[r]
    <3>1. CASE inbox' = inbox
      BY <1>1, <3>1
    <3>2. CASE inbox["server"] # <<>> /\ inbox' = [inbox EXCEPT !["server"] = Tail(@)]
      <4>1. Tail(inbox["server"]) \in Seq(Calls)
        BY <1>1, <1>4, <3>2
      <4> QED
        BY <1>1, <3>2, <4>1
    <3> QED
      BY <2>3, <3>1, <3>2
  <2>5. status' \in [Sides -> Statuses]
    BY <1>1, <1>3, <2>2
  <2>6. \A r \in Sides : Emptied(r)'
    <3>1. Other("server") \in Sides /\ Other("server") # "server"
      BY <1>4, OtherFacts
    <3>2. /\ status'[Other("server")] = status[Other("server")]
          /\ inbox'[Other("server")] = inbox[Other("server")]
          /\ open_global_requests'[Other("server")] = open_global_requests[Other("server")]
          /\ status'["server"] \in {"up", "draining"}
      BY <1>1, <1>4, <2>2, <2>4, <3>1
    <3>3. LineMoved("server", z, ms)
      BY <2>1
    <3> QED
      BY <1>4, <3>2, <3>3, EmptiedKept
  <2> QED
    BY <1>1, <2>1, <2>2, <2>4, <2>5, <2>6 DEF LineMoved, Typed
<1>9. ASSUME NEW p \in Sides, NEW z, NEW ms, LineMoved(p, z, ms), status[p] \in {"up", "draining"},
             UNCHANGED <<setup, status, cut>>,
             inbox' \in [Sides -> Seq(Calls)], inbox'[Other(p)] = inbox[Other(p)],
             open_global_requests' \in [Sides -> Q],
             open_global_requests'[Other(p)] = open_global_requests[Other(p)]
      PROVE  /\ setup' \in Setups /\ status' \in [Sides -> Statuses]
             /\ net' \in [Sides -> Seq(Messages)]
             /\ \A r \in Sides : Emptied(r)'
             /\ cut' \in BOOLEAN
  <2>1. status'[p] \in {"up", "draining"} /\ status'[Other(p)] = status[Other(p)]
    BY <1>9
  <2>2. \A r \in Sides : Emptied(r)'
    BY <1>9, <2>1, EmptiedKept
  <2> QED
    BY <1>1, <1>9, <2>2 DEF LineMoved
<1>10. ASSUME DrainSkips
      PROVE  Typed'
  <2>1. \E z, ms : LineMoved("server", z, ms)
    BY <1>10, DrainSkipsEffect
  <2>2. UNCHANGED <<setup, status, inbox, open_global_requests, alive_timeouts, wants_reply, call,
                    verdict, cut>> /\ status["server"] = "draining"
    BY <1>10 DEF DrainSkips
  <2> QED
    BY <1>1, <1>4, <1>9, <2>1, <2>2 DEF Typed
<1>11. ASSUME NEW p \in Sides, NEW c \in Calls, Sends(p, c)
      PROVE  Typed'
  <2>1. LineMoved(p, net[p], <<RequestOf(c)>>)
    BY <1>11, SendsEffect
  <2>2. /\ UNCHANGED <<setup, status, alive_timeouts, wants_reply, call, verdict, cut>>
        /\ status[p] = "up" /\ inbox[p] # <<>>
        /\ open_global_requests' = [open_global_requests EXCEPT ![p] = @ \o Entry(c)]
        /\ inbox' = [inbox EXCEPT ![p] = Tail(@)]
    BY <1>11 DEF Sends, SendRequest
  <2>3. Tail(inbox[p]) \in Seq(Calls)
    BY <1>1, <2>2
  <2>4. <<c>> \in Q
    OBVIOUS
  <2>5. Entry(c) \in Q
    BY <1>4, <2>4 DEF Entry
  <2>6. open_global_requests[p] \o Entry(c) \in Q
    BY <1>1, <2>5
  <2>7. Other(p) \in Sides /\ Other(p) # p
    BY OtherFacts
  <2>8. inbox' \in [Sides -> Seq(Calls)] /\ inbox'[Other(p)] = inbox[Other(p)]
    BY <1>1, <2>2, <2>3, <2>7
  <2>9. open_global_requests' \in [Sides -> Q]
        /\ open_global_requests'[Other(p)] = open_global_requests[Other(p)]
    BY <1>1, <2>2, <2>6, <2>7
  <2> QED
    BY <1>1, <1>9, <2>1, <2>2, <2>8, <2>9 DEF Typed
<1>12. ASSUME NEW p \in Sides, AnswersRequest(p)
      PROVE  Typed'
  <2>1. PICK granted, ms : Decides(p, Head(net[p]), granted, ms) /\ LineMoved(p, Tail(net[p]), ms)
    BY <1>12, AnswersEffect
  <2>2. /\ UNCHANGED <<setup, status, inbox, cut, open_global_requests, call>>
        /\ wants_reply' \in BOOLEAN /\ status[p] = "up"
        /\ \/ UNCHANGED alive_timeouts
           \/ alive_timeouts' = [alive_timeouts EXCEPT ![p] = 0]
    BY <1>12, AnswersEffect
  <2>3. verdict' \in [Calls -> {"none", "granted", "denied"}]
    BY <1>1, <2>1 DEF Decides
  <2>4. alive_timeouts' \in [Sides -> 0..KeepaliveMax]
    <3>1. 0 \in 0..KeepaliveMax
      BY <1>1
    <3>2. [alive_timeouts EXCEPT ![p] = 0] \in [Sides -> 0..KeepaliveMax]
      BY <1>1, <3>1
    <3> QED
      BY <1>1, <2>2, <3>2
  <2> QED
    BY <1>1, <1>9, <2>1, <2>2, <2>3, <2>4 DEF Typed
<1>13. ASSUME NEW p \in Sides, ReadReply(p)
      PROVE  Typed'
  <2>1. LineMoved(p, Tail(net[p]), <<>>) /\ status[p] = "up"
    BY <1>13, ReplyEffect
  <2>2. /\ UNCHANGED <<setup, status, inbox, cut, wants_reply, verdict>>
        /\ alive_timeouts' = [alive_timeouts EXCEPT ![p] = 0]
    BY <1>13 DEF ReadReply, StaysUp, DataReceived
  <2>3. Other(p) \in Sides /\ Other(p) # p
    BY OtherFacts
  <2>4. /\ open_global_requests' \in [Sides -> Q]
        /\ open_global_requests'[Other(p)] = open_global_requests[Other(p)]
        /\ call' \in [Calls -> Results]
    <3>1. CASE open_global_requests[p] = <<>>
      BY <1>1, <1>13, <3>1 DEF ReadReply
    <3>2. CASE open_global_requests[p] # <<>>
      <4> DEFINE c == Head(open_global_requests[p])
      <4>1. /\ open_global_requests' = [open_global_requests EXCEPT ![p] = Tail(@)]
            /\ call' = IF c \in Calls /\ call[c] = "pending"
                       THEN [call EXCEPT ![c] = Outcome(c, Head(net[p]))]
                       ELSE call
        BY <1>13, <3>2 DEF ReadReply
      <4>2. Tail(open_global_requests[p]) \in Q
        BY <1>1, <3>2
      <4>3. Outcome(c, Head(net[p])) \in Results
        BY <1>3, OutcomeTypes
      <4> HIDE DEF c
      <4>4. call' \in [Calls -> Results]
        BY <1>1, <4>1, <4>3
      <4> QED
        BY <1>1, <2>3, <4>1, <4>2, <4>4
    <3> QED
      BY <3>1, <3>2
  <2>5. alive_timeouts' \in [Sides -> 0..KeepaliveMax]
    BY <1>1, <2>2
  <2> QED
    BY <1>1, <1>9, <2>1, <2>2, <2>4, <2>5 DEF Typed
<1>14. ASSUME NEW p \in Sides, SendsKeepalive(p)
      PROVE  Typed'
  <2>1. LineMoved(p, net[p], <<TimerRequest>>)
    BY <1>14, KeepaliveEffect
  <2>2. /\ UNCHANGED <<setup, status, inbox, cut, wants_reply, call, verdict>>
        /\ status[p] = "up" /\ alive_timeouts[p] < KeepaliveMax
        /\ alive_timeouts' = [alive_timeouts EXCEPT ![p] = @ + 1]
        /\ open_global_requests' = [open_global_requests EXCEPT ![p] = Append(@, "timer")]
    BY <1>14 DEF SendsKeepalive, TimeFor, keepalive_request, StaysUp
  <2>3. Append(open_global_requests[p], "timer") \in Q
    BY <1>1
  <2>4. Other(p) \in Sides /\ Other(p) # p
    BY OtherFacts
  <2>5. open_global_requests' \in [Sides -> Q]
        /\ open_global_requests'[Other(p)] = open_global_requests[Other(p)]
    BY <1>1, <2>2, <2>3, <2>4
  <2>6. alive_timeouts' \in [Sides -> 0..KeepaliveMax]
    BY <1>1, <2>2
  <2> QED
    BY <1>1, <1>9, <2>1, <2>2, <2>5, <2>6 DEF Typed
<1>15. ASSUME Cut
      PROVE  Typed'
  <2>1. /\ UNCHANGED <<setup, status, inbox, open_global_requests, alive_timeouts, wants_reply, call,
                       verdict>>
        /\ cut' = TRUE /\ net' = [p \in Sides |-> <<>>]
    BY <1>15 DEF Cut
  <2>2. <<>> \in Seq(Messages)
    OBVIOUS
  <2>3. net' \in [Sides -> Seq(Messages)]
    BY <2>1, <2>2
  <2>4. \A r \in Sides : Emptied(r)'
    BY <1>2, <2>1 DEF Emptied, Ended, Live
  <2> QED
    BY <1>1, <2>1, <2>3, <2>4 DEF Typed
<1>16. CASE UNCHANGED vars
  <2>1. \A r \in Sides : Emptied(r)'
    BY <1>2, <1>16 DEF vars, Emptied, Ended, Live
  <2> QED
    BY <1>1, <1>16, <2>1 DEF vars, Typed
<1> HIDE DEF Q
<1> QED
  BY <1>5, <1>6, <1>7, <1>8, <1>10, <1>11, <1>12, <1>13, <1>14, <1>15, <1>16 DEF LoopStep

-----------------------------------------------------------------------------
(* The requests on their way *)

Asking == {c \in Calls : Kind(c) \notin {"none", "disconnect"}}

CallRequests == {RequestOf(c) : c \in Asking}

(* A request on its way to p is a keepalive or that of a call of the peer    *)
(* that is not decided on.                                                   *)
Undecided(p, m) ==
  \/ m = TimerRequest
  \/ \E c \in Asking :
       m = RequestOf(c) /\ Side(c) = Other(p) /\ call[c] # "idle" /\ verdict[c] = "none"

CutEmpty == cut => \A p \in Sides : net[p] = <<>>

LineSound == \A p \in Sides : \A m \in Elems(net[p]) : m.type = "request" => Undecided(p, m)

LineOnce == \A p \in Sides : Once(net[p], CallRequests)

InboxOnce == \A p \in Sides : Once(inbox[p], Calls)

(* A call that the loop has not taken is neither on the line nor decided on. *)
InboxSound ==
  \A p \in Sides : \A c \in Elems(inbox[p]) :
    /\ Side(c) = p /\ call[c] # "idle" /\ verdict[c] = "none"
    /\ RequestOf(c) \notin Elems(net[Other(p)])

CallsSound ==
  \A c \in Calls : /\ call[c] = "idle" => verdict[c] = "none"
                   /\ call[c] = "pending" => Kind(c) \in WaitingKinds

LineInv == CutEmpty /\ LineSound /\ LineOnce /\ InboxOnce /\ InboxSound /\ CallsSound

LEMMA InitLine == Init => LineInv
<1> SUFFICES ASSUME Init PROVE LineInv
  OBVIOUS
<1>1. \A p \in Sides : Elems(net[p]) = {} /\ Elems(inbox[p]) = {}
  BY ElemsEmpty DEF Init
<1>2. \A p \in Sides : Once(net[p], CallRequests) /\ Once(inbox[p], Calls)
  BY OnceEmpty DEF Init
<1>3. CallsSound /\ CutEmpty
  BY DEF Init, CallsSound, CutEmpty
<1> QED
  BY <1>1, <1>2, <1>3 DEF LineInv, LineSound, LineOnce, InboxOnce, InboxSound

(* The setup does not change, and what is defined by it. *)
LEMMA SetupKept ==
  ASSUME setup' = setup
  PROVE  /\ \A c : Kind(c)' = Kind(c) /\ Side(c)' = Side(c) /\ RequestOf(c)' = RequestOf(c)
         /\ Asking' = Asking
         /\ CallRequests' = CallRequests
<1>1. \A c : Kind(c)' = Kind(c) /\ Side(c)' = Side(c)
  BY DEF Kind, Side
<1>2. \A c : RequestOf(c)' = RequestOf(c)
  BY <1>1 DEF RequestOf, Request
<1>3. Asking' = Asking
  BY <1>1 DEF Asking
<1>4. CallRequests' = CallRequests
  BY <1>2, <1>3 DEF CallRequests
<1> QED
  BY <1>1, <1>2, <1>3, <1>4

(* Requests of two calls differ, and from what is none. *)
LEMMA CallRequestFacts ==
  ASSUME TypeOK
  PROVE  /\ \A c \in Asking : RequestOf(c) \in Messages /\ RequestOf(c).type = "request"
                              /\ RequestOf(c).of = c /\ c \in Calls
         /\ TimerRequest \notin CallRequests /\ TimerRequest.of = "timer"
         /\ TimerRequest.type = "request"
         /\ \A m : m.type # "request" => m \notin CallRequests
<1>1. \A c \in Asking : RequestOf(c) \in Messages /\ RequestOf(c).type = "request"
                        /\ RequestOf(c).of = c /\ c \in Calls
  BY RequestOfFacts DEF Asking
<1>2. TimerRequest.of = "timer" /\ TimerRequest.type = "request" /\ "timer" \notin Calls
  BY CallsAssumption DEF TimerRequest, Request
<1> QED
  BY <1>1, <1>2 DEF CallRequests

(* What a loop leaves of what it had. *)
Shrunk(s, z) ==
  \/ z = s
  \/ z = <<>>
  \/ s # <<>> /\ z = Tail(s)

LEMMA ShrunkFacts ==
  ASSUME NEW X, NEW D, NEW s \in Seq(X), NEW z, Shrunk(s, z), Once(s, D)
  PROVE  Elems(z) \subseteq Elems(s) /\ Once(z, D)
<1>1. CASE z = s
  BY <1>1
<1>2. CASE z = <<>>
  BY <1>2, ElemsEmpty, OnceEmpty
<1>3. CASE s # <<>> /\ z = Tail(s)
  BY <1>3, ElemsTail, OnceTail
<1> QED
  BY <1>1, <1>2, <1>3 DEF Shrunk

(* A step that sends no request of a call and decides on none. *)
LEMMA LineKept ==
  ASSUME TypeOK, LineInv, NEW p \in Sides, NEW z, NEW ms, LineMoved(p, z, ms), Shrunk(net[p], z),
         \A m \in Elems(ms) : m.type = "request" => m = TimerRequest,
         setup' = setup, verdict' = verdict, cut' = cut, cut => z = <<>>,
         Shrunk(inbox[p], inbox'[p]), inbox'[Other(p)] = inbox[Other(p)],
         \A c \in Calls : /\ call'[c] = "idle" => call[c] = "idle"
                          /\ call'[c] = "pending" => call[c] = "pending"
  PROVE  LineInv'
<1> DEFINE o == Other(p)
           g == Given(o, ms)
<1>1. o \in Sides /\ o # p /\ Other(o) = p /\ \A r \in Sides : r = p \/ r = o
  BY OtherFacts
<1>2. /\ net \in [Sides -> Seq(Messages)] /\ inbox \in [Sides -> Seq(Calls)]
      /\ net[p] \in Seq(Messages) /\ net[o] \in Seq(Messages)
      /\ inbox[p] \in Seq(Calls) /\ inbox[o] \in Seq(Calls)
  BY <1>1, TypeFacts
<1>3. g \in Seq(Messages) /\ Elems(g) \subseteq Elems(ms) /\ (cut => g = <<>>)
  BY ElemsEmpty DEF LineMoved, Given
<1>4. net'[p] = z /\ net'[o] = net[o] \o g
  BY DEF LineMoved
<1>5. \A m \in Elems(g) : m \notin CallRequests
  BY <1>3, CallRequestFacts
<1> HIDE DEF o, g
<1>6. Elems(net'[p]) \subseteq Elems(net[p]) /\ Once(net'[p], CallRequests)
  BY <1>2, <1>4, ShrunkFacts DEF LineInv, LineOnce
<1>7. Elems(net'[o]) = Elems(net[o]) \cup Elems(g)
  BY <1>2, <1>3, <1>4, ElemsConcat
<1>8. Once(net'[o], CallRequests)
  <2>1. Once(net[o], CallRequests) /\ Elems(g) \cap CallRequests = {}
    BY <1>1, <1>5 DEF LineInv, LineOnce
  <2> QED
    BY <1>2, <1>3, <1>4, <2>1, OnceOthers
<1>9. \A r \in Sides : Elems(inbox'[r]) \subseteq Elems(inbox[r]) /\ Once(inbox'[r], Calls)
  <2>1. Once(inbox[p], Calls) /\ Once(inbox[o], Calls)
    BY <1>1 DEF LineInv, InboxOnce
  <2>2. Elems(inbox'[p]) \subseteq Elems(inbox[p]) /\ Once(inbox'[p], Calls)
    BY <1>2, <2>1, ShrunkFacts
  <2> QED
    BY <1>1, <2>1, <2>2 DEF o
<1>10. \A r \in Sides : \A m \in Elems(net'[r]) : m \in Elems(net[r]) \/ m \in Elems(g)
  BY <1>1, <1>6, <1>7
<1>11. CutEmpty'
  <2>1. ASSUME cut' PROVE \A r \in Sides : net'[r] = <<>>
    <3>1. cut /\ net[o] = <<>>
      BY <1>1, <2>1 DEF LineInv, CutEmpty
    <3>2. <<>> \o <<>> = <<>>
      OBVIOUS
    <3> QED
      BY <1>1, <1>3, <1>4, <3>1, <3>2
  <2> QED
    BY <2>1 DEF CutEmpty
<1>12. LineSound'
  <2> SUFFICES ASSUME NEW r \in Sides, NEW m \in Elems(net'[r]), m.type = "request"
               PROVE  Undecided(r, m)'
    BY DEF LineSound
  <2>1. CASE m = TimerRequest
    BY <2>1 DEF Undecided, TimerRequest, Request
  <2>2. CASE m # TimerRequest
    <3>1. m \in Elems(net[r])
      BY <1>3, <1>10, <2>2
    <3>2. PICK c \in Asking :
            m = RequestOf(c) /\ Side(c) = Other(r) /\ call[c] # "idle" /\ verdict[c] = "none"
      BY <2>2, <3>1 DEF LineInv, LineSound, Undecided
    <3>3. call'[c] # "idle" /\ verdict'[c] = "none"
      BY <3>2 DEF Asking
    <3> QED
      BY <3>2, <3>3, SetupKept DEF Undecided
  <2> QED
    BY <2>1, <2>2
<1>13. LineOnce'
  BY <1>1, <1>6, <1>8, SetupKept DEF LineOnce
<1>14. InboxOnce'
  BY <1>9 DEF InboxOnce
<1>15. InboxSound'
  <2> SUFFICES ASSUME NEW r \in Sides, NEW c \in Elems(inbox'[r])
               PROVE  /\ Side(c)' = r /\ call'[c] # "idle" /\ verdict'[c] = "none"
                      /\ RequestOf(c)' \notin Elems(net'[Other(r)])
    BY DEF InboxSound
  <2>1. /\ Side(c) = r /\ call[c] # "idle" /\ verdict[c] = "none"
        /\ RequestOf(c) \notin Elems(net[Other(r)])
    BY <1>9 DEF LineInv, InboxSound
  <2>2. c \in Calls
    BY <1>2, <1>9, ElemsTyped
  <2>3. RequestOf(c).type = "request" /\ RequestOf(c).of = c
    BY DEF RequestOf, Request
  <2>4. RequestOf(c) # TimerRequest
    BY <2>2, <2>3, CallsAssumption, CallRequestFacts
  <2>5. RequestOf(c) \notin Elems(g)
    BY <1>3, <2>3, <2>4
  <2>6. Other(r) \in Sides
    BY OtherFacts
  <2>7. RequestOf(c) \notin Elems(net'[Other(r)])
    BY <1>10, <2>1, <2>5, <2>6
  <2> QED
    BY <2>1, <2>2, <2>7, SetupKept
<1>16. CallsSound'
  BY SetupKept DEF LineInv, CallsSound
<1> QED
  BY <1>11, <1>12, <1>13, <1>14, <1>15, <1>16 DEF LineInv

(* A call is made. *)
LEMMA LineCall ==
  ASSUME TypeOK, LineInv, NEW c \in Calls, Call(c)
  PROVE  LineInv'
<1> DEFINE p == Side(c)
<1>1. /\ UNCHANGED <<setup, status, net, open_global_requests, alive_timeouts, wants_reply, verdict, cut>>
      /\ call[c] = "idle" /\ Kind(c) # "none"
  BY DEF Call
<1>2. p \in Sides
  BY KindFacts
<1>3. inbox \in [Sides -> Seq(Calls)] /\ inbox[p] \in Seq(Calls)
  BY <1>2, TypeFacts
<1>4. call \in [Calls -> Results]
  BY TypeOKParts DEF Typed
<1>5. /\ \A d \in Calls : d # c => call'[d] = call[d]
      /\ call'[c] # "idle" /\ (call'[c] = "pending" => Kind(c) \in WaitingKinds)
  BY <1>4 DEF Call
<1>6. verdict[c] = "none"
  BY <1>1 DEF LineInv, CallsSound
<1>7. c \notin Elems(inbox[p])
  BY <1>1, <1>2 DEF LineInv, InboxSound
<1>8. \A r \in Sides : RequestOf(c) \notin Elems(net[r])
  <2> SUFFICES ASSUME NEW r \in Sides, RequestOf(c) \in Elems(net[r]) PROVE FALSE
    OBVIOUS
  <2>1. RequestOf(c).type = "request" /\ RequestOf(c).of = c
    BY DEF RequestOf, Request
  <2>2. Undecided(r, RequestOf(c))
    BY <2>1 DEF LineInv, LineSound
  <2>3. RequestOf(c) # TimerRequest
    BY <2>1, CallsAssumption, CallRequestFacts
  <2>4. PICK d \in Asking : RequestOf(c) = RequestOf(d) /\ call[d] # "idle"
    BY <2>2, <2>3 DEF Undecided
  <2>5. d = c
    BY <2>1, <2>4, CallRequestFacts
  <2> QED
    BY <1>1, <2>4, <2>5
<1> HIDE DEF p
<1>9. /\ \A r \in Sides : Once(inbox'[r], Calls)
      /\ \A r \in Sides : \A d \in Elems(inbox'[r]) : d \in Elems(inbox[r]) \/ (r = p /\ d = c)
  <2>1. CASE Live(p)
    <3>1. inbox' = [inbox EXCEPT ![p] = Append(@, c)]
      BY <2>1 DEF Call, p
    <3>2. Append(inbox[p], c) = inbox[p] \o <<c>>
      BY <1>3, AppendIsConcat
    <3>3. inbox'[p] = inbox[p] \o <<c>> /\ \A r \in Sides : r # p => inbox'[r] = inbox[r]
      BY <1>2, <1>3, <3>1, <3>2
    <3>4. Once(inbox[p], Calls)
      BY <1>2 DEF LineInv, InboxOnce
    <3>5. Once(inbox'[p], Calls)
      BY <1>3, <1>7, <3>3, <3>4, OnceNew
    <3>6. <<c>> \in Seq(Calls)
      OBVIOUS
    <3>7. Elems(inbox'[p]) = Elems(inbox[p]) \cup {c}
      <4>1. Elems(inbox[p] \o <<c>>) = Elems(inbox[p]) \cup Elems(<<c>>)
        <5>1. \A s, t \in Seq(Calls) : Elems(s \o t) = Elems(s) \cup Elems(t)
          BY ElemsConcat
        <5>2. inbox[p] \in Seq(Calls)
          BY <1>3
        <5> QED
          BY <3>6, <5>1, <5>2, Zenon
      <4> QED
        BY <3>3, <4>1, ElemsOne
    <3>8. ASSUME NEW r \in Sides PROVE Once(inbox'[r], Calls)
      BY <3>3, <3>5 DEF LineInv, InboxOnce
    <3>9. ASSUME NEW r \in Sides, NEW d \in Elems(inbox'[r])
          PROVE  d \in Elems(inbox[r]) \/ (r = p /\ d = c)
      BY <3>3, <3>7
    <3> QED
      BY <3>8, <3>9
  <2>2. CASE ~Live(p)
    <3>1. inbox' = inbox
      BY <2>2 DEF Call, p
    <3> QED
      BY <3>1 DEF LineInv, InboxOnce
  <2> QED
    BY <2>1, <2>2
<1>10. CutEmpty'
  BY <1>1 DEF LineInv, CutEmpty
<1>11. LineSound'
  <2> SUFFICES ASSUME NEW r \in Sides, NEW m \in Elems(net[r]), m.type = "request"
               PROVE  Undecided(r, m)'
    BY <1>1 DEF LineSound
  <2>1. Undecided(r, m)
    BY DEF LineInv, LineSound
  <2>2. CASE m = TimerRequest
    BY <2>2 DEF Undecided, TimerRequest, Request
  <2>3. CASE m # TimerRequest
    <3>1. PICK d \in Asking :
            m = RequestOf(d) /\ Side(d) = Other(r) /\ call[d] # "idle" /\ verdict[d] = "none"
      BY <2>1, <2>3 DEF Undecided
    <3>2. call'[d] # "idle" /\ verdict'[d] = "none"
      BY <1>1, <1>5, <3>1 DEF Asking
    <3> QED
      BY <1>1, <3>1, <3>2, SetupKept DEF Undecided
  <2> QED
    BY <2>2, <2>3
<1>12. LineOnce'
  BY <1>1, SetupKept DEF LineInv, LineOnce
<1>13. InboxOnce'
  BY <1>9 DEF InboxOnce
<1>14. InboxSound'
  <2> SUFFICES ASSUME NEW r \in Sides, NEW d \in Elems(inbox'[r])
               PROVE  /\ Side(d)' = r /\ call'[d] # "idle" /\ verdict'[d] = "none"
                      /\ RequestOf(d)' \notin Elems(net'[Other(r)])
    BY DEF InboxSound
  <2>1. CASE d \in Elems(inbox[r])
    <3>1. /\ Side(d) = r /\ call[d] # "idle" /\ verdict[d] = "none"
          /\ RequestOf(d) \notin Elems(net[Other(r)])
      BY <2>1 DEF LineInv, InboxSound
    <3>2. d \in Calls
      BY <1>3, <2>1, ElemsTyped
    <3> QED
      BY <1>1, <1>5, <3>1, <3>2, SetupKept
  <2>2. CASE r = p /\ d = c
    <3>1. Other(r) \in Sides
      BY OtherFacts
    <3> QED
      BY <1>1, <1>5, <1>6, <1>8, <2>2, <3>1, SetupKept DEF p
  <2> QED
    BY <1>9, <2>1, <2>2
<1>15. CallsSound'
  BY <1>1, <1>5, <1>6, SetupKept DEF LineInv, CallsSound
<1> QED
  BY <1>10, <1>11, <1>12, <1>13, <1>14, <1>15 DEF LineInv


(* The loop sends the request of a call that it takes. *)
LEMMA LineSends ==
  ASSUME TypeOK, LineInv, NEW p \in Sides, NEW c \in Calls, Sends(p, c)
  PROVE  LineInv'
<1> DEFINE o == Other(p)
           m == RequestOf(c)
           g == Given(o, <<m>>)
<1>1. o \in Sides /\ o # p /\ Other(o) = p /\ \A r \in Sides : r = p \/ r = o
  BY OtherFacts
<1>2. /\ UNCHANGED <<setup, status, alive_timeouts, wants_reply, call, verdict, cut>>
      /\ inbox[p] # <<>> /\ c = Head(inbox[p]) /\ inbox' = [inbox EXCEPT ![p] = Tail(@)]
      /\ c \in Asking
  BY DEF Sends, SendRequest, Asking
<1>3. LineMoved(p, net[p], <<m>>)
  BY SendsEffect
<1>4. /\ net[p] \in Seq(Messages) /\ net[o] \in Seq(Messages)
      /\ inbox \in [Sides -> Seq(Calls)] /\ inbox[p] \in Seq(Calls) /\ inbox[o] \in Seq(Calls)
  BY <1>1, TypeFacts
<1>5. m \in Messages /\ m.type = "request" /\ m.of = c /\ m \in CallRequests
  BY <1>2, CallRequestFacts DEF CallRequests
<1>6. net'[p] = net[p] /\ net'[o] = net[o] \o g
  BY <1>3 DEF LineMoved
<1>7. inbox'[p] = Tail(inbox[p]) /\ inbox'[o] = inbox[o]
  BY <1>1, <1>2, <1>4
<1>8. c \in Elems(inbox[p]) /\ c \notin Elems(inbox'[p]) /\ Elems(inbox'[p]) \subseteq Elems(inbox[p])
      /\ Once(inbox'[p], Calls)
  <2>1. Once(inbox[p], Calls)
    BY DEF LineInv, InboxOnce
  <2> QED
    BY <1>2, <1>4, <1>7, <2>1, ElemsTail, OnceTail
<1>9. Side(c) = p /\ call[c] # "idle" /\ verdict[c] = "none" /\ m \notin Elems(net[o])
  BY <1>8 DEF LineInv, InboxSound
<1>10. Elems(net'[o]) \subseteq Elems(net[o]) \cup {m} /\ Once(net'[o], CallRequests)
       /\ (cut => net'[o] = <<>>)
  <2>1. Once(net[o], CallRequests) /\ (cut => net[o] = <<>>)
    BY <1>1 DEF LineInv, LineOnce, CutEmpty
  <2>2. CASE Live(o) /\ ~cut
    <3>1. net'[o] = net[o] \o <<m>>
      BY <1>6, <2>2 DEF Given
    <3>2. <<m>> \in Seq(Messages)
      BY <1>5
    <3>3. Elems(net[o] \o <<m>>) = Elems(net[o]) \cup Elems(<<m>>)
      <4>1. \A s, t \in Seq(Messages) : Elems(s \o t) = Elems(s) \cup Elems(t)
        BY ElemsConcat
      <4>2. net[o] \in Seq(Messages)
        BY <1>4
      <4> HIDE DEF m
      <4> QED
        BY <3>2, <4>1, <4>2, Zenon
    <3>4. Once(net[o] \o <<m>>, CallRequests)
      BY <1>4, <1>5, <1>9, <2>1, OnceNew
    <3> QED
      BY <2>2, <3>1, <3>3, <3>4, ElemsOne
  <2>3. CASE ~(Live(o) /\ ~cut)
    <3>1. net'[o] = net[o] \o <<>>
      BY <1>6, <2>3 DEF Given
    <3>2. net'[o] = net[o]
      BY <1>4, <3>1, ConcatEmptySeq
    <3> QED
      BY <2>1, <3>2
  <2> QED
    BY <2>2, <2>3
<1> HIDE DEF g, m, o
<1>11. CutEmpty'
  BY <1>1, <1>2, <1>6, <1>10 DEF LineInv, CutEmpty
<1>12. LineSound'
  <2> SUFFICES ASSUME NEW r \in Sides, NEW x \in Elems(net'[r]), x.type = "request"
               PROVE  Undecided(r, x)'
    BY DEF LineSound
  <2>1. CASE x \in Elems(net[r])
    <3>1. Undecided(r, x)
      BY <2>1 DEF LineInv, LineSound
    <3> QED
      BY <1>2, <3>1, SetupKept DEF Undecided, TimerRequest, Request
  <2>2. CASE x \notin Elems(net[r])
    <3>1. r = o /\ x = m
      BY <1>1, <1>6, <1>10, <2>2
    <3> QED
      BY <1>1, <1>2, <1>9, <3>1, SetupKept DEF Undecided, m
  <2> QED
    BY <2>1, <2>2
<1>13. LineOnce'
  BY <1>1, <1>2, <1>6, <1>10, SetupKept DEF LineInv, LineOnce
<1>14. InboxOnce'
  BY <1>1, <1>7, <1>8 DEF LineInv, InboxOnce
<1>15. InboxSound'
  <2> SUFFICES ASSUME NEW r \in Sides, NEW d \in Elems(inbox'[r])
               PROVE  /\ Side(d)' = r /\ call'[d] # "idle" /\ verdict'[d] = "none"
                      /\ RequestOf(d)' \notin Elems(net'[Other(r)])
    BY DEF InboxSound
  <2>1. d \in Elems(inbox[r])
    BY <1>1, <1>7, <1>8
  <2>2. /\ Side(d) = r /\ call[d] # "idle" /\ verdict[d] = "none"
        /\ RequestOf(d) \notin Elems(net[Other(r)])
    BY <2>1 DEF LineInv, InboxSound
  <2>3. RequestOf(d) \notin Elems(net'[Other(r)])
    <3>1. CASE r = p
      <4>1. d # c
        BY <1>8, <3>1
      <4>2. RequestOf(d).of = d
        BY DEF RequestOf, Request
      <4> QED
        BY <1>5, <1>10, <2>2, <3>1, <4>1, <4>2 DEF o
    <3>2. CASE r = o
      BY <1>1, <1>6, <2>2, <3>2
    <3> QED
      BY <1>1, <3>1, <3>2
  <2> QED
    BY <1>2, <2>2, <2>3, SetupKept
<1>16. CallsSound'
  BY <1>2, SetupKept DEF LineInv, CallsSound
<1> QED
  BY <1>11, <1>12, <1>13, <1>14, <1>15, <1>16 DEF LineInv

(* Where a request that p reads is from: its call is nowhere else. *)
LEMMA RequestRead ==
  ASSUME TypeOK, LineInv, NEW p \in Sides, net[p] # <<>>, Head(net[p]).type = "request"
  PROVE  \/ Head(net[p]) = TimerRequest
         \/ \E c \in Asking :
              /\ Head(net[p]) = RequestOf(c) /\ Side(c) = Other(p)
              /\ call[c] # "idle" /\ verdict[c] = "none"
              /\ RequestOf(c) \notin Elems(Tail(net[p]))
              /\ RequestOf(c) \notin Elems(net[Other(p)])
              /\ \A r \in Sides : c \notin Elems(inbox[r])
<1> DEFINE m == Head(net[p])
<1>1. net[p] \in Seq(Messages) /\ m \in Elems(net[p])
  BY TypeFacts, ElemsTail
<1>2. Undecided(p, m)
  BY <1>1 DEF LineInv, LineSound
<1>3. Once(net[p], CallRequests)
  BY DEF LineInv, LineOnce
<1> SUFFICES ASSUME m # TimerRequest
             PROVE  \E c \in Asking :
                      /\ m = RequestOf(c) /\ Side(c) = Other(p)
                      /\ call[c] # "idle" /\ verdict[c] = "none"
                      /\ RequestOf(c) \notin Elems(Tail(net[p]))
                      /\ RequestOf(c) \notin Elems(net[Other(p)])
                      /\ \A r \in Sides : c \notin Elems(inbox[r])
  OBVIOUS
<1>4. PICK c \in Asking :
        m = RequestOf(c) /\ Side(c) = Other(p) /\ call[c] # "idle" /\ verdict[c] = "none"
  BY <1>2 DEF Undecided
<1>5. m \notin Elems(Tail(net[p]))
  BY <1>1, <1>3, <1>4, OnceTail DEF CallRequests
<1>6. Other(p) \in Sides /\ Other(Other(p)) = p /\ Other(p) # p
  BY OtherFacts
<1>7. m \notin Elems(net[Other(p)])
  <2> SUFFICES ASSUME m \in Elems(net[Other(p)]) PROVE FALSE
    OBVIOUS
  <2>1. Undecided(Other(p), m)
    BY <1>6 DEF LineInv, LineSound
  <2>2. PICK d \in Asking : m = RequestOf(d) /\ Side(d) = p
    BY <1>6, <2>1 DEF Undecided
  <2>3. d = c
    BY <1>4, <2>2, CallRequestFacts
  <2> QED
    BY <1>4, <1>6, <2>2, <2>3
<1>8. ASSUME NEW r \in Sides, c \in Elems(inbox[r]) PROVE FALSE
  <2>1. Side(c) = r /\ RequestOf(c) \notin Elems(net[Other(r)])
    BY <1>8 DEF LineInv, InboxSound
  <2> QED
    BY <1>1, <1>4, <1>6, <2>1
<1> QED
  BY <1>4, <1>5, <1>7, <1>8

LEMMA LineAnswers ==
  ASSUME TypeOK, LineInv, NEW p \in Sides, AnswersRequest(p)
  PROVE  LineInv'
<1> DEFINE o == Other(p)
           m == Head(net[p])
<1>1. o \in Sides /\ o # p /\ Other(o) = p /\ \A r \in Sides : r = p \/ r = o
  BY OtherFacts
<1>2. /\ net[p] # <<>> /\ m \in Messages /\ m.type = "request"
      /\ UNCHANGED <<setup, status, inbox, cut, open_global_requests, call>>
  BY AnswersEffect
<1>3. PICK granted, ms : Decides(p, m, granted, ms) /\ LineMoved(p, Tail(net[p]), ms)
  BY AnswersEffect
<1>4. \A x \in Elems(ms) : x.type # "request"
  <2>1. ms = <<>> \/ \E x \in Messages : x.type \in {"success", "failure"} /\ ms = <<x>>
    BY <1>2, <1>3, DecidesTypes
  <2> QED
    BY <2>1, ElemsEmpty, ElemsOne
<1>5. /\ net[p] \in Seq(Messages) /\ net[o] \in Seq(Messages)
      /\ verdict \in [Calls -> {"none", "granted", "denied"}]
      /\ inbox \in [Sides -> Seq(Calls)]
  BY <1>1, TypeOKParts DEF Typed
<1>6. ~cut
  BY <1>2 DEF LineInv, CutEmpty
<1> DEFINE g == Given(o, ms)
<1>7. g \in Seq(Messages) /\ Elems(g) \subseteq Elems(ms)
  BY <1>3, ElemsEmpty DEF LineMoved, Given
<1>8. net'[p] = Tail(net[p]) /\ net'[o] = net[o] \o g
  BY <1>3 DEF LineMoved
<1> HIDE DEF g, o, m
<1>9. Elems(net'[p]) \subseteq Elems(net[p]) /\ Once(net'[p], CallRequests)
  BY <1>2, <1>5, <1>8, ElemsTail, OnceTail DEF LineInv, LineOnce
<1>10. Elems(net'[o]) = Elems(net[o]) \cup Elems(g)
  BY <1>5, <1>7, <1>8, ElemsConcat
<1>11. Once(net'[o], CallRequests)
  <2>1. Once(net[o], CallRequests) /\ Elems(g) \cap CallRequests = {}
    BY <1>1, <1>4, <1>7, CallRequestFacts DEF LineInv, LineOnce
  <2> QED
    BY <1>5, <1>7, <1>8, <2>1, OnceOthers
<1>12. \A r \in Sides : \A x \in Elems(net'[r]) : x.type = "request" => x \in Elems(net[r])
  BY <1>1, <1>4, <1>7, <1>9, <1>10
<1>13. /\ \A c \in Calls : verdict'[c] = verdict[c] \/ c = m.of
       /\ m.of \notin Calls => verdict' = verdict
  BY <1>3, <1>5 DEF Decides
<1>14. \/ m = TimerRequest
       \/ \E c \in Asking :
            /\ m = RequestOf(c) /\ call[c] # "idle"
            /\ RequestOf(c) \notin Elems(Tail(net[p]))
            /\ RequestOf(c) \notin Elems(net[o])
            /\ \A r \in Sides : c \notin Elems(inbox[r])
  BY <1>2, RequestRead DEF m, o
<1>15. /\ \A r \in Sides : \A c \in Asking : RequestOf(c) \in Elems(net'[r]) => c # m.of
       /\ \A r \in Sides : \A c \in Elems(inbox[r]) : c # m.of
       /\ \A c \in Calls : call[c] = "idle" => c # m.of
  <2>1. CASE m = TimerRequest
    <3>1. m.of \notin Calls
      BY <2>1, CallRequestFacts, CallsAssumption
    <3>2. \A r \in Sides : \A c \in Elems(inbox[r]) : c \in Calls
      BY <1>5, ElemsTyped
    <3> QED
      BY <3>1, <3>2 DEF Asking
  <2>2. CASE m # TimerRequest
    <3>1. PICK c \in Asking :
            /\ m = RequestOf(c) /\ call[c] # "idle"
            /\ RequestOf(c) \notin Elems(Tail(net[p]))
            /\ RequestOf(c) \notin Elems(net[o])
            /\ \A r \in Sides : c \notin Elems(inbox[r])
      BY <1>14, <2>2
    <3>2. m.of = c
      BY <3>1, CallRequestFacts
    <3>3. \A r \in Sides : RequestOf(c) \notin Elems(net'[r])
      <4>1. RequestOf(c) \notin Elems(g)
        BY <1>4, <1>7, CallRequestFacts
      <4> QED
        BY <1>1, <1>8, <1>10, <3>1, <4>1
    <3> QED
      BY <3>1, <3>2, <3>3
  <2> QED
    BY <2>1, <2>2
<1>16. CutEmpty'
  BY <1>2, <1>6 DEF CutEmpty
<1>17. LineSound'
  <2> SUFFICES ASSUME NEW r \in Sides, NEW x \in Elems(net'[r]), x.type = "request"
               PROVE  Undecided(r, x)'
    BY DEF LineSound
  <2>1. Undecided(r, x)
    BY <1>12 DEF LineInv, LineSound
  <2>2. CASE x = TimerRequest
    BY <2>2 DEF Undecided, TimerRequest, Request
  <2>3. CASE x # TimerRequest
    <3>1. PICK c \in Asking :
            x = RequestOf(c) /\ Side(c) = Other(r) /\ call[c] # "idle" /\ verdict[c] = "none"
      BY <2>1, <2>3 DEF Undecided
    <3>2. call'[c] # "idle" /\ verdict'[c] = "none"
      BY <1>2, <1>13, <1>15, <3>1 DEF Asking
    <3> QED
      BY <1>2, <3>1, <3>2, SetupKept DEF Undecided
  <2> QED
    BY <2>2, <2>3
<1>18. LineOnce'
  BY <1>1, <1>2, <1>9, <1>11, SetupKept DEF LineOnce
<1>19. InboxOnce'
  BY <1>2 DEF LineInv, InboxOnce
<1>20. InboxSound'
  <2> SUFFICES ASSUME NEW r \in Sides, NEW c \in Elems(inbox[r])
               PROVE  /\ Side(c)' = r /\ call'[c] # "idle" /\ verdict'[c] = "none"
                      /\ RequestOf(c)' \notin Elems(net'[Other(r)])
    BY <1>2 DEF InboxSound
  <2>1. /\ Side(c) = r /\ call[c] # "idle" /\ verdict[c] = "none"
        /\ RequestOf(c) \notin Elems(net[Other(r)])
    BY DEF LineInv, InboxSound
  <2>2. c \in Calls
    BY <1>5, ElemsTyped
  <2>3. RequestOf(c).type = "request"
    BY DEF RequestOf, Request
  <2>4. Other(r) \in Sides
    BY OtherFacts
  <2>5. RequestOf(c) \notin Elems(net'[Other(r)])
    BY <1>12, <2>1, <2>3, <2>4
  <2> QED
    BY <1>2, <1>13, <1>15, <2>1, <2>2, <2>5, SetupKept
<1>21. CallsSound'
  BY <1>2, <1>13, <1>15, SetupKept DEF LineInv, CallsSound
<1> QED
  BY <1>16, <1>17, <1>18, <1>19, <1>20, <1>21 DEF LineInv


LEMMA LineStep == TypeOK /\ LineInv /\ LoopStep => LineInv'
<1> SUFFICES ASSUME TypeOK, LineInv, LoopStep PROVE LineInv'
  OBVIOUS
<1>1. /\ inbox \in [Sides -> Seq(Calls)] /\ net \in [Sides -> Seq(Messages)]
      /\ call \in [Calls -> Results]
  BY TypeOKParts DEF Typed
<1>2. \A p \in Sides : Other(p) \in Sides /\ Other(p) # p
  BY OtherFacts
<1>3. \A p \in Sides : cut => net[p] = <<>>
  BY DEF LineInv, CutEmpty
<1>4. "client" \in Sides /\ "server" \in Sides
  BY DEF Sides
<1>5. ASSUME net' = net PROVE LineMoved("client", net["client"], <<>>)
  <2>1. <<>> \in Seq(Messages) /\ net["client"] \in Seq(Messages)
    BY <1>1, <1>4
  <2>2. net[Other("client")] \o <<>> = net[Other("client")]
    BY <1>1, <1>2, <1>4, ConcatEmptySeq
  <2> QED
    BY <1>1, <1>5, <2>1, <2>2 DEF LineMoved, Given
<1>6. ASSUME NEW c \in Calls, Cancel(c) PROVE LineInv'
  <2>1. UNCHANGED <<setup, inbox, net, verdict, cut>>
        /\ \A d \in Calls : /\ call'[d] = "idle" => call[d] = "idle"
                            /\ call'[d] = "pending" => call[d] = "pending"
    BY <1>1, <1>6 DEF Cancel
  <2>2. LineMoved("client", net["client"], <<>>)
    BY <1>5, <2>1
  <2>3. Shrunk(net["client"], net["client"]) /\ Shrunk(inbox["client"], inbox'["client"])
    BY <2>1 DEF Shrunk
  <2>4. cut => net["client"] = <<>>
    BY <1>3, <1>4
  <2>5. \A m \in Elems(<<>>) : m.type = "request" => m = TimerRequest
    BY ElemsEmpty
  <2> QED
    BY <1>4, <2>1, <2>2, <2>3, <2>4, <2>5, LineKept
<1>7. CASE UNCHANGED vars
  <2>1. UNCHANGED <<setup, inbox, net, call, verdict, cut>>
    BY <1>7 DEF vars
  <2>2. LineMoved("client", net["client"], <<>>)
    BY <1>5, <2>1
  <2>3. Shrunk(net["client"], net["client"]) /\ Shrunk(inbox["client"], inbox'["client"])
    BY <2>1 DEF Shrunk
  <2>4. cut => net["client"] = <<>>
    BY <1>3, <1>4
  <2>5. \A m \in Elems(<<>>) : m.type = "request" => m = TimerRequest
    BY ElemsEmpty
  <2> QED
    BY <1>4, <2>1, <2>2, <2>3, <2>4, <2>5, LineKept
<1>8. ASSUME NEW ms \in Partings PROVE \A m \in Elems(ms) : m.type = "request" => m = TimerRequest
  BY PartingTypes, MessageTypes
<1>9. ASSUME NEW p \in Sides, Ends(p) PROVE LineInv'
  <2>1. PICK ms \in Partings : LineMoved(p, <<>>, ms)
    BY <1>9, EndsEffect
  <2>2. /\ inbox' = [inbox EXCEPT ![p] = <<>>] /\ call' = Hangup(p)
        /\ UNCHANGED <<setup, verdict, cut>>
    BY <1>9, EndsEffect
  <2>3. \A d \in Calls : /\ call'[d] = "idle" => call[d] = "idle"
                         /\ call'[d] = "pending" => call[d] = "pending"
    BY <1>1, <2>2 DEF Hangup
  <2>4. inbox'[Other(p)] = inbox[Other(p)] /\ Shrunk(inbox[p], inbox'[p]) /\ Shrunk(net[p], <<>>)
    BY <1>1, <1>2, <2>2 DEF Shrunk
  <2>5. LineMoved(p, <<>>, ms) /\ \A m \in Elems(ms) : m.type = "request" => m = TimerRequest
    BY <1>8, <2>1
  <2> QED
    BY <2>2, <2>3, <2>4, <2>5, LineKept
<1>10. ASSUME DrainBegins PROVE LineInv'
  <2>1. UNCHANGED <<setup, call, verdict, cut>>
    BY <1>10, DrainBeginsEffect
  <2>2. PICK ms \in Partings :
              \/ /\ net["server"] # <<>>
                 /\ LineMoved("server", Tail(net["server"]), ms)
                 /\ inbox' = inbox
              \/ /\ inbox["server"] # <<>>
                 /\ LineMoved("server", net["server"], ms)
                 /\ inbox' = [inbox EXCEPT !["server"] = Tail(@)]
    BY <1>10, DrainBeginsEffect
  <2>3. \A m \in Elems(ms) : m.type = "request" => m = TimerRequest
    BY <1>8
  <2>4. \A d \in Calls : /\ call'[d] = "idle" => call[d] = "idle"
                         /\ call'[d] = "pending" => call[d] = "pending"
    BY <2>1
  <2>5. CASE net["server"] # <<>> /\ LineMoved("server", Tail(net["server"]), ms) /\ inbox' = inbox
    <3>1. Shrunk(net["server"], Tail(net["server"])) /\ Shrunk(inbox["server"], inbox'["server"])
      BY <2>5 DEF Shrunk
    <3>2. ~cut
      BY <1>3, <1>4, <2>5
    <3> QED
      BY <1>4, <2>1, <2>3, <2>4, <2>5, <3>1, <3>2, LineKept
  <2>6. CASE /\ inbox["server"] # <<>> /\ LineMoved("server", net["server"], ms)
             /\ inbox' = [inbox EXCEPT !["server"] = Tail(@)]
    <3>1. /\ Shrunk(net["server"], net["server"]) /\ Shrunk(inbox["server"], inbox'["server"])
          /\ inbox'[Other("server")] = inbox[Other("server")]
      BY <1>1, <1>2, <1>4, <2>6 DEF Shrunk
    <3>2. cut => net["server"] = <<>>
      BY <1>3, <1>4
    <3> QED
      BY <1>4, <2>1, <2>3, <2>4, <2>6, <3>1, <3>2, LineKept
  <2> QED
    BY <2>2, <2>5, <2>6
<1>11. ASSUME DrainSkips PROVE LineInv'
  <2>1. UNCHANGED <<setup, inbox, call, verdict, cut>>
    BY <1>11 DEF DrainSkips
  <2>2. net["server"] # <<>> /\ LineMoved("server", Tail(net["server"]), <<>>)
    BY <1>11, DrainSkipsEffect
  <2>3. Shrunk(net["server"], Tail(net["server"])) /\ Shrunk(inbox["server"], inbox'["server"])
    BY <2>1, <2>2 DEF Shrunk
  <2>4. ~cut
    BY <1>3, <1>4, <2>2
  <2>5. \A m \in Elems(<<>>) : m.type = "request" => m = TimerRequest
    BY ElemsEmpty
  <2> QED
    BY <1>4, <2>1, <2>2, <2>3, <2>4, <2>5, LineKept
<1>12. ASSUME NEW p \in Sides, ReadReply(p) PROVE LineInv'
  <2>1. UNCHANGED <<setup, inbox, verdict, cut>>
    BY <1>12 DEF ReadReply, StaysUp
  <2>2. net[p] # <<>> /\ LineMoved(p, Tail(net[p]), <<>>)
    BY <1>12, ReplyEffect
  <2>3. \A d \in Calls : /\ call'[d] = "idle" => call[d] = "idle"
                         /\ call'[d] = "pending" => call[d] = "pending"
    <3>1. CASE open_global_requests[p] = <<>>
      BY <1>12, <3>1 DEF ReadReply
    <3>2. CASE open_global_requests[p] # <<>>
      <4> DEFINE c == Head(open_global_requests[p])
                 x == Outcome(c, Head(net[p]))
      <4>1. call' = IF c \in Calls /\ call[c] = "pending" THEN [call EXCEPT ![c] = x] ELSE call
        BY <1>12, <3>2 DEF ReadReply
      <4>2. x \notin {"idle", "pending"}
        BY OutcomeTypes DEF Answers
      <4> HIDE DEF c, x
      <4> QED
        BY <1>1, <4>1, <4>2
    <3> QED
      BY <3>1, <3>2
  <2>4. Shrunk(net[p], Tail(net[p])) /\ Shrunk(inbox[p], inbox'[p])
    BY <2>1, <2>2 DEF Shrunk
  <2>5. ~cut
    BY <1>3, <2>2
  <2>6. \A m \in Elems(<<>>) : m.type = "request" => m = TimerRequest
    BY ElemsEmpty
  <2> QED
    BY <2>1, <2>2, <2>3, <2>4, <2>5, <2>6, LineKept
<1>13. ASSUME NEW p \in Sides, SendsKeepalive(p) PROVE LineInv'
  <2>1. UNCHANGED <<setup, inbox, call, verdict, cut>>
    BY <1>13 DEF SendsKeepalive, keepalive_request, StaysUp
  <2>2. LineMoved(p, net[p], <<TimerRequest>>)
    BY <1>13, KeepaliveEffect
  <2>3. Shrunk(net[p], net[p]) /\ Shrunk(inbox[p], inbox'[p])
    BY <2>1 DEF Shrunk
  <2>4. cut => net[p] = <<>>
    BY <1>3
  <2>5. \A m \in Elems(<<TimerRequest>>) : m.type = "request" => m = TimerRequest
    BY ElemsOne
  <2> QED
    BY <2>1, <2>2, <2>3, <2>4, <2>5, LineKept
<1>14. ASSUME Cut PROVE LineInv'
  <2>1. UNCHANGED <<setup, inbox, call, verdict>> /\ \A p \in Sides : net'[p] = <<>>
    BY <1>14 DEF Cut
  <2>2. \A p \in Sides : Elems(net'[p]) = {} /\ \A D : Once(net'[p], D)
    BY <2>1, ElemsEmpty, OnceEmpty
  <2>3. CutEmpty' /\ LineSound' /\ LineOnce'
    BY <2>1, <2>2 DEF CutEmpty, LineSound, LineOnce
  <2>4. InboxOnce'
    BY <2>1 DEF LineInv, InboxOnce
  <2>5. InboxSound'
    BY <1>2, <2>1, <2>2, SetupKept DEF LineInv, InboxSound
  <2>6. CallsSound'
    BY <2>1, SetupKept DEF LineInv, CallsSound
  <2> QED
    BY <2>3, <2>4, <2>5, <2>6 DEF LineInv
<1> QED
  BY <1>6, <1>7, <1>9, <1>10, <1>11, <1>12, <1>13, <1>14, LineCall, LineSends, LineAnswers DEF LoopStep

-----------------------------------------------------------------------------
(* Replies and the queue *)

Replies == {m \in Messages : IsReply(m)}

Answerables == {m \in Messages : Answerable(m)}

(* The reply m is right for the entry c: the peer has decided, and the call  *)
(* makes of m what it deserves.                                              *)
Right(c, m) ==
  c \in Calls => /\ verdict[c] # "none"
                 /\ Kind(c) \in WaitingKinds => Outcome(c, m) \in Deserved(c)

RightAnswers == {x \in (Calls \cup {"timer"}) \X Replies : Right(x[1], x[2])}

RepliesRight ==
  \A p \in Sides : status[p] = "up" =>
    RepliesFit(open_global_requests[p], net[p], Replies, RightAnswers)

QueueRight ==
  ~cut => \A p \in Sides : status[p] = "up" /\ status[Other(p)] = "up" =>
    QueueFits(open_global_requests[p], net[p], net[Other(p)], Replies, Answerables)

(* Where both sides count the same requests, the replies on the line are     *)
(* right for the entries they will meet, in order, and the rest of the queue *)
(* are the requests on the line that will be answered, in order.             *)
MatchInv == Counted => AnswersAreOwn /\ RepliesRight /\ QueueRight

LEMMA ReplyFacts ==
  ASSUME TypeOK
  PROVE  /\ \A m \in Messages : m \in Replies <=> m.type \in {"success", "failure"}
         /\ \A m \in Messages : m \in Answerables => m.type = "request"
         /\ Replies \subseteq Messages /\ Answerables \subseteq Messages
         /\ Bye \notin Replies /\ Eof \notin Replies /\ Bye \notin Answerables /\ Eof \notin Answerables
BY MessageTypes DEF Replies, Answerables, IsReply, Answerable

LEMMA MatchSetup ==
  ASSUME setup' = setup
  PROVE  Replies' = Replies /\ Answerables' = Answerables /\ Counted' = Counted
<1>1. Replies' = Replies
  BY DEF Replies, IsReply, Messages
<1>2. Answerables' = Answerables
  BY DEF Answerables, Answerable, Messages
<1>3. Counted' = Counted
  BY DEF Counted, Uncounted, Kind
<1> QED
  BY <1>1, <1>2, <1>3

(* A decision is taken once: what is right stays right. *)
LEMMA RightGrows ==
  ASSUME setup' = setup, \A c \in Calls : verdict'[c] = verdict[c] \/ verdict[c] = "none"
  PROVE  /\ RightAnswers \subseteq RightAnswers'
         /\ \A c \in Calls : Deserved(c) \subseteq Deserved(c)'
<1>1. \A c \in Calls : Deserved(c) \subseteq Deserved(c)'
  <2> TAKE c \in Calls
  <2>1. CASE verdict[c] = "none"
    BY <2>1 DEF Deserved
  <2>2. CASE verdict'[c] = verdict[c]
    BY <2>2 DEF Deserved, Kind
  <2> QED
    BY <2>1, <2>2
<1>2. \A c, m : Outcome(c, m)' = Outcome(c, m) /\ Kind(c)' = Kind(c)
  BY DEF Outcome, Kind
<1>3. ASSUME NEW x \in RightAnswers PROVE Right(x[1], x[2])'
  <2>1. Right(x[1], x[2])
    BY <1>3 DEF RightAnswers
  <2> QED
    BY <1>1, <1>2, <2>1 DEF Right
<1>4. RightAnswers \subseteq RightAnswers'
  BY <1>3, MatchSetup DEF RightAnswers
<1> QED
  BY <1>1, <1>4

LEMMA OwnGrows ==
  ASSUME setup' = setup, \A c \in Calls : verdict'[c] = verdict[c] \/ verdict[c] = "none",
         AnswersAreOwn, \A c \in Calls : call'[c] = call[c] \/ call'[c] \notin Answers
  PROVE  AnswersAreOwn'
BY RightGrows DEF AnswersAreOwn, Answers

LEMMA InitMatch == Init => MatchInv
<1> SUFFICES ASSUME Init PROVE MatchInv
  OBVIOUS
<1>1. AnswersAreOwn
  BY DEF Init, AnswersAreOwn, Answers
<1>2. RepliesRight
  BY DEF Init, RepliesRight, RepliesFit
<1>3. QueueRight
  <2>1. \A S : CountTo(<<>>, S, 0) = 0
    BY CountNone
  <2>2. \A p \in Sides : net[p] = <<>> /\ open_global_requests[p] = <<>> /\ Other(p) \in Sides
    BY OtherFacts DEF Init
  <2>3. QueueFits(<<>>, <<>>, <<>>, Replies, Answerables)
    BY <2>1 DEF QueueFits
  <2> QED
    BY <2>2, <2>3 DEF QueueRight
<1> QED
  BY <1>1, <1>2, <1>3 DEF MatchInv

(* A request is sent with an entry if it will be answered. *)
LEMMA MatchSends ==
  ASSUME TypeOK, MatchInv, Counted, NEW p \in Sides, NEW m \in Messages, m.type = "request",
         LineMoved(p, net[p], <<m>>), UNCHANGED <<setup, status, call, verdict, cut>>,
         NEW e \in Seq(Calls \cup {"timer"}),
         open_global_requests' = [open_global_requests EXCEPT ![p] = @ \o e],
         \/ m \in Answerables /\ e = <<m.of>>
         \/ m \notin Answerables /\ e = <<>>
  PROVE  MatchInv'
<1> DEFINE o == Other(p)
           Q == Calls \cup {"timer"}
           q == open_global_requests[p]
           a == net[p]
           b == net[o]
           g == Given(o, <<m>>)
<1>1. o \in Sides /\ o # p /\ Other(o) = p /\ \A r \in Sides : r = p \/ r = o
  BY OtherFacts
<1>2. /\ a \in Seq(Messages) /\ b \in Seq(Messages) /\ q \in Seq(Q)
      /\ open_global_requests[o] \in Seq(Q)
  BY <1>1, TypeFacts
<1>3. m \notin Replies /\ m.of \in Q
  BY ReplyFacts, RequestTypes
<1>4. net'[p] = a /\ net'[o] = b \o g /\ g \in Seq(Messages)
  BY DEF LineMoved, Given
<1>5. open_global_requests'[p] = q \o e /\ open_global_requests'[o] = open_global_requests[o]
  BY <1>1, TypeFacts
<1>6. /\ Replies' = Replies /\ Answerables' = Answerables
      /\ RightAnswers \subseteq RightAnswers'
  BY MatchSetup, RightGrows
<1>7. AnswersAreOwn'
  BY OwnGrows DEF MatchInv
<1>8. \A i \in 1..Len(g) : g[i] = m
  BY DEF Given
<1>9. RepliesRight /\ QueueRight
  BY DEF MatchInv
<1> HIDE DEF o, Q, q, a, b, g
<1>10. RepliesRight'
  <2>1. ASSUME status[p] = "up"
        PROVE  RepliesFit(q \o e, a, Replies, RightAnswers')
    <3>1. RepliesFit(q, a, Replies, RightAnswers)
      BY <1>9, <2>1 DEF RepliesRight, q, a
    <3>2. e \in Seq(Q)
      BY DEF Q
    <3> QED
      BY <1>2, <1>6, <3>1, <3>2, RepliesFitMore
  <2>2. ASSUME status[o] = "up"
        PROVE  RepliesFit(open_global_requests[o], b \o g, Replies, RightAnswers')
    <3>1. RepliesFit(open_global_requests[o], b, Replies, RightAnswers)
      BY <1>1, <1>9, <2>2 DEF RepliesRight, b
    <3>2. RepliesFit(open_global_requests[o], b, Replies, RightAnswers')
      BY <1>6, <3>1 DEF RepliesFit
    <3>3. \A i \in 1..Len(g) : g[i] \notin Replies
      BY <1>3, <1>8
    <3> QED
      BY <1>2, <1>4, <3>2, <3>3, RepliesFitOthers
  <2> QED
    BY <1>1, <1>4, <1>5, <1>6, <2>1, <2>2 DEF RepliesRight
<1>11. QueueRight'
  <2> SUFFICES ASSUME ~cut, status[p] = "up", status[o] = "up"
               PROVE  /\ QueueFits(q \o e, a, b \o g, Replies, Answerables)
                      /\ QueueFits(open_global_requests[o], b \o g, a, Replies, Answerables)
    BY <1>1, <1>4, <1>5, <1>6 DEF QueueRight, o
  <2>1. /\ QueueFits(q, a, b, Replies, Answerables)
        /\ QueueFits(open_global_requests[o], b, a, Replies, Answerables)
    BY <1>1, <1>9 DEF QueueRight, q, a, b, o
  <2>2. g = <<m>>
    BY DEF g, Given, Live
  <2>3. QueueFits(q \o e, a, b \o g, Replies, Answerables)
    <3>1. CASE m \in Answerables /\ e = <<m.of>>
      <4>1. Append(q, m.of) = q \o e /\ Append(b, m) = b \o g
        BY <1>2, <1>3, <2>2, <3>1, AppendIsConcat
      <4>2. QueueFits(Append(q, m.of), a, Append(b, m), Replies, Answerables)
        BY <1>2, <1>3, <2>1, <3>1, QueueFitsSent
      <4> QED
        BY <4>1, <4>2
    <3>2. CASE m \notin Answerables /\ e = <<>>
      <4>1. q \o e = q
        BY <1>2, <3>2, ConcatEmptySeq
      <4>2. \A i \in 1..Len(g) : g[i] \notin Answerables
        BY <1>8, <3>2
      <4>3. QueueFits(q, a, b \o g, Replies, Answerables)
        BY <1>2, <1>4, <2>1, <4>2, QueueFitsOthers
      <4> QED
        BY <4>1, <4>3
    <3> QED
      BY <3>1, <3>2
  <2>4. QueueFits(open_global_requests[o], b \o g, a, Replies, Answerables)
    <3>1. \A i \in 1..Len(g) : g[i] \notin Replies
      BY <1>3, <1>8
    <3>2. CountTo(b \o g, Replies, Len(b \o g)) = CountTo(b, Replies, Len(b))
      BY <1>2, <1>4, <3>1, CountOthers
    <3> QED
      BY <2>1, <3>2, QueueFitsSame
  <2> QED
    BY <2>3, <2>4
<1> QED
  BY <1>7, <1>10, <1>11 DEF MatchInv

(* A call's request and its entry. *)
LEMMA EntryFits ==
  ASSUME TypeOK, Counted, NEW c \in Asking
  PROVE  \/ RequestOf(c) \in Answerables /\ Entry(c) = <<RequestOf(c).of>>
         \/ RequestOf(c) \notin Answerables /\ Entry(c) = <<>>
<1>1. c \in Calls /\ RequestOf(c) \in Messages /\ RequestOf(c).type = "request" /\ RequestOf(c).of = c
  BY CallRequestFacts
<1>2. Kind(c) \in Kinds /\ Kind(c) \notin {"none", "disconnect"} /\ Kind(c) \notin Uncounted
  BY <1>1, KindFacts DEF Asking, Counted
<1>3. RequestOf(c) \in Answerables <=>
        RequestOf(c).name # "agent" /\ (setup.peer = "openssh" => RequestOf(c).want)
  BY <1>1 DEF Answerables, Answerable
<1>4. CASE Kind(c) = "agent"
  <2>1. RequestOf(c).name = "agent" /\ Entry(c) = <<>>
    BY <1>4 DEF RequestOf, Request, Entry
  <2> QED
    BY <1>3, <2>1
<1>5. CASE Kind(c) \in PingKinds
  <2>1. Kind(c) \notin {"agent", "forward_bare"}
    BY <1>5 DEF PingKinds
  <2>2. /\ RequestOf(c).name = "keepalive" /\ RequestOf(c).want = (Kind(c) \in {"ping", "no_more"})
        /\ Entry(c) = <<c>>
    BY <1>5, <2>1 DEF RequestOf, Request, Entry
  <2>3. setup.peer = "openssh" => Kind(c) \in {"ping", "no_more"}
    BY <1>2, <1>5 DEF Uncounted, PingKinds
  <2> QED
    BY <1>1, <1>3, <2>2, <2>3
<1>6. CASE Kind(c) \notin PingKinds /\ Kind(c) # "agent"
  <2>1. /\ RequestOf(c).name = Kind(c) /\ RequestOf(c).want = (Kind(c) # "forward_bare")
        /\ Entry(c) = IF Kind(c) = "forward_bare" THEN <<>> ELSE <<c>>
    BY <1>6 DEF RequestOf, Request, Entry
  <2>2. Kind(c) = "forward_bare" => setup.peer = "openssh"
    BY <1>2 DEF Uncounted
  <2> QED
    BY <1>1, <1>3, <1>6, <2>1, <2>2
<1> QED
  BY <1>4, <1>5, <1>6


(* What p answers to a request: one reply, the right one, if it is answered  *)
(* at all.                                                                   *)
LEMMA AnswerFits ==
  ASSUME TypeOK, LineInv, Counted, NEW p \in Sides, net[p] # <<>>, Head(net[p]) \in Messages,
         Head(net[p]).type = "request", NEW granted, NEW ms,
         Decides(p, Head(net[p]), granted, ms), setup' = setup
  PROVE  \/ /\ Head(net[p]) \in Answerables
            /\ \E x \in Replies : ms = <<x>> /\ <<Head(net[p]).of, x>> \in RightAnswers'
         \/ Head(net[p]) \notin Answerables /\ ms = <<>>
<1> DEFINE m == Head(net[p])
<1>1. /\ verdict \in [Calls -> {"none", "granted", "denied"}]
      /\ setup \in Setups /\ SetupOK(setup)
  BY TypeOKParts, TypeFacts DEF Typed
<1>2. m.want \in BOOLEAN /\ m.of \in Calls \cup {"timer"}
  BY RequestTypes
<1>3. m \in Answerables <=> m.name # "agent" /\ (setup.peer = "openssh" => m.want)
  BY DEF Answerables, Answerable
<1>4. /\ Failure \in Replies /\ Failure.type = "failure"
      /\ \A b \in BOOLEAN : Success(b) \in Replies /\ Success(b).type = "success" /\ Success(b).port = b
  BY MessageTypes, ReplyFacts
<1>5. m = TimerRequest \/ \E c \in Asking : m = RequestOf(c) /\ Side(c) = Other(p)
  BY RequestRead
<1>6. Replies' = Replies
  BY MatchSetup
<1> HIDE DEF m
<1>7. CASE m = TimerRequest
  <2>1. m.name = "keepalive" /\ m.want = TRUE /\ m.of = "timer" /\ "timer" \notin Calls
    BY <1>7, CallsAssumption DEF TimerRequest, Request
  <2>2. m \in Answerables
    BY <1>3, <2>1
  <2>3. \E x \in Replies : ms = <<x>>
    BY <1>4, <2>1 DEF Decides, RusshReply, m
  <2>4. \A x \in Replies : <<m.of, x>> \in RightAnswers'
    BY <1>6, <2>1 DEF RightAnswers, Right
  <2> QED
    BY <2>2, <2>3, <2>4 DEF m
<1>8. ASSUME NEW c \in Asking, m = RequestOf(c), Side(c) = Other(p)
      PROVE  \/ m \in Answerables /\ \E x \in Replies : ms = <<x>> /\ <<m.of, x>> \in RightAnswers'
             \/ m \notin Answerables /\ ms = <<>>
  <2>1. c \in Calls /\ m.of = c /\ Kind(c) \in Kinds /\ Kind(c) \notin {"none", "disconnect"}
        /\ Kind(c) \notin Uncounted
    BY <1>8, CallRequestFacts, KindFacts DEF Asking, Counted
  <2>2. granted \in BOOLEAN /\ verdict'[c] = (IF granted THEN "granted" ELSE "denied")
    BY <1>1, <2>1 DEF Decides, m
  <2>3. Kind(c)' = Kind(c) /\ \A x : Outcome(c, x)' = Outcome(c, x)
    BY DEF Kind, Outcome
  <2>4. ASSUME NEW x \in Replies, Kind(c) \in WaitingKinds => Outcome(c, x) \in Deserved(c)'
        PROVE  <<m.of, x>> \in RightAnswers'
    BY <1>6, <2>1, <2>2, <2>3, <2>4 DEF RightAnswers, Right
  <2>5. ASSUME ~granted \/ Kind(c) = "ping" PROVE <<m.of, Failure>> \in RightAnswers'
    <3>1. Kind(c) # "ping" => Outcome(c, Failure) = "denied" /\ Deserved(c)' = {"denied"}
      BY <1>4, <2>2, <2>3, <2>5 DEF Outcome, Deserved
    <3>2. Kind(c) = "ping" => Outcome(c, Failure) = "pong" /\ Deserved(c)' = {"pong"}
      BY <2>2, <2>3 DEF Outcome, Deserved
    <3> QED
      BY <1>4, <2>4, <3>1, <3>2
  <2>6. CASE Kind(c) = "agent"
    <3>1. m.name = "agent" /\ m \notin Answerables
      BY <1>3, <1>8, <2>6 DEF RequestOf, Request
    <3>2. setup.peer = "openssh" /\ p = "server"
      <4>1. Side(c) # "server"
        BY <1>1, <2>1, <2>6 DEF SetupOK, Kind, Side
      <4> QED
        BY <1>1, <1>8, <2>1, <2>6, <4>1 DEF Uncounted, Other, Sides
    <3>3. ms = <<>>
      BY <3>1, <3>2 DEF Decides, m
    <3> QED
      BY <3>1, <3>3
  <2>7. CASE Kind(c) \in PingKinds
    <3>1. Kind(c) # "agent"
      BY <2>7 DEF PingKinds
    <3>2. m.name = "keepalive" /\ m.want = (Kind(c) \in {"ping", "no_more"})
      BY <1>8, <2>7, <3>1 DEF RequestOf, Request
    <3>3. setup.peer = "openssh" => m.want
      BY <2>1, <2>7, <3>2 DEF Uncounted, PingKinds
    <3>4. m \in Answerables
      BY <1>3, <3>2, <3>3
    <3>5. p = "server"
      <4>1. Side(c) # "server"
        BY <1>1, <2>1, <2>7 DEF SetupOK, Kind, Side, PingKinds
      <4> QED
        BY <1>8, <4>1 DEF Other, Sides
    <3>6. granted = FALSE /\ ms = <<Failure>>
      BY <3>2, <3>3, <3>5 DEF Decides, RusshReply, m
    <3> QED
      BY <1>4, <2>5, <3>4, <3>6
  <2>8. CASE Kind(c) \notin PingKinds /\ Kind(c) # "agent"
    <3>1. m.name = Kind(c) /\ m.want = (Kind(c) # "forward_bare")
      BY <1>8, <2>8 DEF RequestOf, Request
    <3>2. Kind(c) \in ForwardKinds \cup FlagKinds \cup {"forward_bare"}
      BY <2>1, <2>8 DEF Kinds, PingKinds, WaitingKinds, SilentKinds
    <3>3. m.name \notin {"keepalive", "agent"}
      BY <3>1, <3>2 DEF ForwardKinds, FlagKinds
    <3>4. CASE p = "client"
      <4>1. Kind(c) # "forward_bare"
        BY <1>1, <1>8, <2>1, <3>4 DEF SetupOK, Kind, Side, Other
      <4>2. m \in Answerables
        BY <1>3, <3>1, <3>3, <4>1
      <4>3. granted = FALSE /\ ms = <<Failure>>
        BY <3>3, <3>4 DEF Decides, m
      <4> QED
        BY <1>4, <2>5, <4>2, <4>3
    <3>5. CASE p = "server" /\ Kind(c) = "forward_bare"
      <4>1. setup.peer = "openssh" /\ m.want = FALSE
        BY <1>1, <2>1, <3>1, <3>5 DEF Uncounted
      <4>2. m \notin Answerables /\ ms = <<>>
        BY <1>3, <3>5, <4>1 DEF Decides, m
      <4> QED
        BY <4>2
    <3>6. CASE p = "server" /\ Kind(c) # "forward_bare"
      <4>1. m \in Answerables /\ m.want = TRUE
        BY <1>3, <3>1, <3>3, <3>6
      <4>2. ms = IF granted THEN <<Success(Kind(c) = "forward_any")>> ELSE <<Failure>>
        BY <3>1, <3>3, <3>6, <4>1 DEF Decides, RusshReply, m
      <4>3. CASE granted = FALSE
        BY <1>4, <2>5, <4>1, <4>2, <4>3
      <4>4. CASE granted = TRUE
        <5> DEFINE x == Success(Kind(c) = "forward_any")
        <5>1. x \in Replies /\ x.type = "success" /\ x.port = (Kind(c) = "forward_any")
          BY <1>4
        <5> HIDE DEF x
        <5>2. verdict'[c] = "granted" /\ Kind(c) # "ping"
          BY <2>2, <2>8, <4>4 DEF PingKinds
        <5>3. CASE Kind(c) \in FlagKinds
          <6>1. Kind(c) \notin {"forward_any", "forward_port"}
            BY <5>3 DEF FlagKinds
          <6>2. Outcome(c, x) = "ok" /\ Deserved(c)' = {"ok"}
            BY <2>3, <5>1, <5>2, <5>3, <6>1 DEF Outcome, Deserved
          <6> QED
            BY <2>4, <4>1, <4>2, <4>4, <5>1, <6>2 DEF x
        <5>4. CASE Kind(c) = "forward_any"
          <6>1. Outcome(c, x) = "port" /\ Deserved(c)' = {"port"}
            BY <2>3, <5>1, <5>2, <5>4 DEF Outcome, Deserved, FlagKinds
          <6> QED
            BY <2>4, <4>1, <4>2, <4>4, <5>1, <6>1 DEF x
        <5>5. CASE Kind(c) = "forward_port"
          <6>1. Outcome(c, x) = "zero" /\ Deserved(c)' = {"zero"}
            BY <2>3, <5>1, <5>2, <5>5 DEF Outcome, Deserved, FlagKinds
          <6> QED
            BY <2>4, <4>1, <4>2, <4>4, <5>1, <6>1 DEF x
        <5> QED
          BY <3>2, <3>6, <5>3, <5>4, <5>5 DEF ForwardKinds
      <4> QED
        BY <2>2, <4>3, <4>4
    <3> QED
      BY <3>4, <3>5, <3>6 DEF Sides
  <2> QED
    BY <2>6, <2>7, <2>8
<1> QED
  BY <1>5, <1>7, <1>8 DEF m

LEMMA MatchAnswers ==
  ASSUME TypeOK, LineInv, MatchInv, Counted, NEW p \in Sides, AnswersRequest(p)
  PROVE  MatchInv'
<1> DEFINE o == Other(p)
           m == Head(net[p])
           q == open_global_requests[p]
           k == open_global_requests[o]
           a == net[p]
           b == net[o]
<1>1. o \in Sides /\ o # p /\ Other(o) = p /\ \A r \in Sides : r = p \/ r = o
  BY OtherFacts
<1>2. /\ status[p] = "up" /\ a # <<>> /\ m \in Messages /\ m.type = "request"
      /\ UNCHANGED <<setup, status, inbox, cut, open_global_requests, call>>
  BY AnswersEffect
<1>3. PICK granted, ms : Decides(p, m, granted, ms) /\ LineMoved(p, Tail(net[p]), ms)
  BY AnswersEffect
<1>4. ~cut
  BY <1>2 DEF LineInv, CutEmpty
<1>5. /\ a \in Seq(Messages) /\ b \in Seq(Messages) /\ q \in Seq(Calls \cup {"timer"})
      /\ k \in Seq(Calls \cup {"timer"})
  BY <1>1, TypeFacts
<1>6. a[1] = m /\ m \notin Replies
  BY <1>2, <1>5, ReplyFacts
<1>7. Replies' = Replies /\ Answerables' = Answerables
  BY <1>2, MatchSetup
<1>8. \A c \in Calls : verdict'[c] = verdict[c] \/ verdict[c] = "none"
  <2>1. verdict \in [Calls -> {"none", "granted", "denied"}]
    BY TypeOKParts DEF Typed
  <2>2. \A c \in Calls : verdict'[c] = verdict[c] \/ c = m.of
    BY <1>3, <2>1 DEF Decides
  <2>3. m = TimerRequest \/ \E c \in Asking : m = RequestOf(c) /\ verdict[c] = "none"
    BY <1>2, RequestRead
  <2>4. m.of \in Calls => verdict[m.of] = "none"
    BY <2>3, CallRequestFacts, CallsAssumption
  <2> QED
    BY <2>2, <2>4
<1>9. RightAnswers \subseteq RightAnswers'
  BY <1>2, <1>8, RightGrows
<1>10. AnswersAreOwn'
  <2>1. AnswersAreOwn /\ call' = call /\ setup' = setup
    BY <1>2 DEF MatchInv
  <2> QED
    BY <1>8, <2>1, OwnGrows
<1>11. \/ m \in Answerables /\ \E x \in Replies : ms = <<x>> /\ <<m.of, x>> \in RightAnswers'
       \/ m \notin Answerables /\ ms = <<>>
  BY <1>2, <1>3, AnswerFits
<1>12. RepliesRight /\ QueueRight
  BY DEF MatchInv
<1>13. net'[p] = Tail(a) /\ net'[o] = b \o Given(o, ms) /\ ms \in Seq(Messages)
  BY <1>3 DEF LineMoved
<1> HIDE DEF o, m, q, k, a, b
<1>14. RepliesFit(q, Tail(a), Replies, RightAnswers')
       /\ CountTo(Tail(a), Replies, Len(Tail(a))) = CountTo(a, Replies, Len(a))
  <2>1. RepliesFit(q, a, Replies, RightAnswers)
    BY <1>2, <1>12 DEF RepliesRight, q, a
  <2>2. RepliesFit(q, a, Replies, RightAnswers')
    BY <1>9, <2>1 DEF RepliesFit
  <2> QED
    BY <1>2, <1>5, <1>6, <2>2, RepliesFitSkip
<1>15. ASSUME status[o] # "up" PROVE MatchInv'
  <2>1. RepliesRight'
    BY <1>1, <1>2, <1>7, <1>13, <1>14, <1>15 DEF RepliesRight, q
  <2>2. QueueRight'
    BY <1>1, <1>2, <1>15 DEF QueueRight, o
  <2> QED
    BY <1>10, <2>1, <2>2 DEF MatchInv
<1>16. ASSUME status[o] = "up" PROVE MatchInv'
  <2>1. Given(o, ms) = ms
    BY <1>4, <1>16 DEF Given, Live
  <2>2. RepliesFit(k, b, Replies, RightAnswers) /\ QueueFits(q, a, b, Replies, Answerables)
        /\ QueueFits(k, b, a, Replies, Answerables)
    BY <1>1, <1>2, <1>4, <1>12, <1>16 DEF RepliesRight, QueueRight, q, k, a, b, o
  <2>3. RepliesFit(k, b, Replies, RightAnswers')
    BY <1>9, <2>2 DEF RepliesFit
  <2>4. RepliesFit(k, b \o ms, Replies, RightAnswers')
        /\ QueueFits(k, b \o ms, Tail(a), Replies, Answerables)
    <3>1. CASE m \in Answerables
      <4>1. PICK x \in Replies : ms = <<x>> /\ <<m.of, x>> \in RightAnswers'
        BY <1>11, <3>1
      <4>2. x \in Messages
        BY ReplyFacts
      <4>3. Append(b, x) = b \o ms
        BY <1>5, <4>1, <4>2, AppendIsConcat
      <4>4. a[1] \in Answerables /\ <<a[1].of, x>> \in RightAnswers'
        BY <1>6, <3>1, <4>1
      <4>5. RepliesFit(k, Append(b, x), Replies, RightAnswers')
            /\ QueueFits(k, Append(b, x), Tail(a), Replies, Answerables)
        BY <1>2, <1>5, <2>2, <2>3, <4>2, <4>4, ReplySent
      <4> QED
        BY <4>3, <4>5
    <3>2. CASE m \notin Answerables
      <4>1. b \o ms = b
        BY <1>5, <1>11, <3>2, ConcatEmptySeq
      <4>2. QueueFits(k, b, Tail(a), Replies, Answerables)
        BY <1>2, <1>5, <1>6, <2>2, <3>2, QueueFitsSkip
      <4> QED
        BY <2>3, <4>1, <4>2
    <3> QED
      BY <3>1, <3>2
  <2>5. QueueFits(q, Tail(a), b \o ms, Replies, Answerables)
    <3>1. \A i \in 1..Len(ms) : ms[i] \notin Answerables
      <4>1. CASE m \in Answerables
        <5>1. PICK x \in Replies : ms = <<x>>
          BY <1>11, <4>1
        <5>2. x \notin Answerables
          BY ReplyFacts
        <5> QED
          BY <5>1, <5>2
      <4>2. CASE m \notin Answerables
        BY <1>11, <4>2
      <4> QED
        BY <4>1, <4>2
    <3>2. QueueFits(q, a, b \o ms, Replies, Answerables)
      BY <1>5, <1>13, <2>2, <3>1, QueueFitsOthers
    <3> QED
      BY <1>14, <3>2, QueueFitsSame
  <2>6. RepliesRight'
    BY <1>1, <1>2, <1>7, <1>13, <1>14, <2>1, <2>4 DEF RepliesRight, q, k
  <2>7. QueueRight'
    BY <1>1, <1>2, <1>7, <1>13, <2>1, <2>4, <2>5 DEF QueueRight, q, k, o
  <2> QED
    BY <1>10, <2>6, <2>7 DEF MatchInv
<1> QED
  BY <1>15, <1>16

LEMMA ReplyCounted ==
  ASSUME NEW X, NEW R, NEW a \in Seq(X), a # <<>>, a[1] \in R
  PROVE  CountTo(a, R, Len(a)) = CountTo(Tail(a), R, Len(Tail(a))) + 1
<1> DEFINE t == Tail(a)
<1>1. /\ Len(t) = Len(a) - 1 /\ Len(a) \in Nat \ {0}
      /\ \A i \in 0..(Len(a) - 1) : CountTo(a, R, i + 1) = CountTo(t, R, i) + Bit(a[1] \in R)
  BY CountTail
<1> HIDE DEF t
<1>2. Len(t) \in 0..(Len(a) - 1) /\ Len(t) + 1 = Len(a)
  BY <1>1
<1>3. CountTo(a, R, Len(a)) = CountTo(t, R, Len(t)) + Bit(a[1] \in R)
  BY <1>1, <1>2
<1> QED
  BY <1>3 DEF Bit, t

(* A reply is read: it is for the entry at the front. *)
LEMMA MatchReads ==
  ASSUME TypeOK, LineInv, MatchInv, Counted, NEW p \in Sides, ReadReply(p)
  PROVE  MatchInv'
<1> DEFINE o == Other(p)
           m == Head(net[p])
           q == open_global_requests[p]
           k == open_global_requests[o]
           a == net[p]
           b == net[o]
           c == Head(q)
<1>1. o \in Sides /\ o # p /\ Other(o) = p /\ \A r \in Sides : r = p \/ r = o
  BY OtherFacts
<1>2. /\ status[p] = "up" /\ a # <<>> /\ m \in Messages /\ m.type \in {"success", "failure"}
      /\ LineMoved(p, Tail(net[p]), <<>>)
  BY ReplyEffect
<1>3. UNCHANGED <<setup, status, inbox, cut, verdict>>
  BY DEF ReadReply, StaysUp
<1>4. /\ a \in Seq(Messages) /\ b \in Seq(Messages) /\ q \in Seq(Calls \cup {"timer"})
      /\ k \in Seq(Calls \cup {"timer"}) /\ call \in [Calls -> Results]
      /\ open_global_requests \in [Sides -> Seq(Calls \cup {"timer"})]
  BY <1>1, TypeOKParts DEF Typed
<1>5. a[1] = m /\ m \in Replies /\ m \notin Answerables
  BY <1>2, <1>4, ReplyFacts
<1>6. Replies' = Replies /\ Answerables' = Answerables /\ RightAnswers \subseteq RightAnswers'
  BY <1>3, MatchSetup, RightGrows
<1>7. net'[p] = Tail(a) /\ net'[o] = b
  <2>1. Given(o, <<>>) = <<>>
    BY DEF Given
  <2>2. b \o <<>> = b
    BY <1>4, ConcatEmptySeq
  <2> QED
    BY <1>2, <2>1, <2>2 DEF LineMoved
<1>8. AnswersAreOwn /\ RepliesRight /\ QueueRight
  BY DEF MatchInv
<1>9. RepliesFit(q, a, Replies, RightAnswers')
  <2>1. RepliesFit(q, a, Replies, RightAnswers)
    BY <1>2, <1>8 DEF RepliesRight
  <2> QED
    BY <1>6, <2>1 DEF RepliesFit
<1>10. /\ q # <<>> /\ <<c, m>> \in RightAnswers'
       /\ RepliesFit(Tail(q), Tail(a), Replies, RightAnswers')
       /\ CountTo(a, Replies, Len(a)) = CountTo(Tail(a), Replies, Len(Tail(a))) + 1
  <2>1. m = Head(a) /\ a # <<>> /\ a[1] \in Replies
    BY <1>2, <1>5
  <2>2. q \in Seq(Calls \cup {"timer"}) /\ a \in Seq(Messages)
    BY <1>4
  <2> DEFINE R == RightAnswers'
  <2>3. RepliesFit(q, a, Replies, R)
    BY <1>9
  <2>4. m = Head(a)
    BY <2>1
  <2> HIDE DEF q, a, k, b, m, R
  <2>5. /\ q # <<>> /\ <<Head(q), Head(a)>> \in R
        /\ RepliesFit(Tail(q), Tail(a), Replies, R)
    <3> DEFINE Y == Calls \cup {"timer"}
    <3>1. a # <<>> /\ a[1] \in Replies /\ q \in Seq(Y)
      BY <2>1, <2>2
    <3>2. a \in Seq(Messages)
      BY <2>2
    <3> HIDE DEF Y
    <3> QED
      BY <2>3, <3>1, <3>2, ReplyTaken, ZenonT(90)
  <2>6. CountTo(a, Replies, Len(a)) = CountTo(Tail(a), Replies, Len(Tail(a))) + 1
    BY <2>1, <2>2, ReplyCounted
  <2> QED
    BY <2>4, <2>5, <2>6 DEF R
<1>11. /\ open_global_requests' = [open_global_requests EXCEPT ![p] = Tail(@)]
       /\ call' = IF c \in Calls /\ call[c] = "pending"
                  THEN [call EXCEPT ![c] = Outcome(c, m)]
                  ELSE call
  BY <1>10 DEF ReadReply
<1>12. open_global_requests'[p] = Tail(q) /\ open_global_requests'[o] = k
  BY <1>1, <1>4, <1>11
<1>13. AnswersAreOwn'
  <2>1. \A d \in Calls : Deserved(d) \subseteq Deserved(d)'
    BY <1>3, RightGrows
  <2>2. CASE c \in Calls /\ call[c] = "pending"
    <3>0. PICK e \in Calls, x \in Messages : e = c /\ x = m
      BY <1>2, <2>2
    <3>1. Kind(e) \in WaitingKinds
      BY <2>2, <3>0 DEF LineInv, CallsSound
    <3>2. Right(e, x)'
      <4>1. <<e, x>> \in RightAnswers'
        BY <1>10, <3>0
      <4> QED
        BY <4>1 DEF RightAnswers
    <3>3. Outcome(e, x)' = Outcome(e, x) /\ Kind(e)' = Kind(e)
      BY <1>3 DEF Outcome, Kind
    <3>4. Outcome(e, x) \in Deserved(e)'
      BY <3>1, <3>2, <3>3 DEF Right
    <3> HIDE DEF c, m
    <3>5. \A d \in Calls : call'[d] = IF d = e THEN Outcome(e, x) ELSE call[d]
      BY <1>4, <1>11, <2>2, <3>0
    <3>6. ASSUME NEW d \in Calls, call'[d] \in Answers PROVE call'[d] \in Deserved(d)'
      BY <1>8, <2>1, <3>4, <3>5, <3>6 DEF AnswersAreOwn
    <3> QED
      BY <3>6 DEF AnswersAreOwn, Answers
  <2>3. CASE ~(c \in Calls /\ call[c] = "pending")
    <3>1. call' = call
      BY <1>11, <2>3
    <3> QED
      BY <1>8, <2>1, <3>1 DEF AnswersAreOwn, Answers
  <2> QED
    BY <2>2, <2>3
<1> HIDE DEF o, m, q, k, a, b, c
<1>14. RepliesRight'
  <2>1. ASSUME status[o] = "up" PROVE RepliesFit(k, b, Replies, RightAnswers')
    <3>1. RepliesFit(k, b, Replies, RightAnswers)
      BY <1>1, <1>8, <2>1 DEF RepliesRight, k, b
    <3> QED
      BY <1>6, <3>1 DEF RepliesFit
  <2> QED
    BY <1>1, <1>3, <1>6, <1>7, <1>10, <1>12, <2>1 DEF RepliesRight
<1>15. QueueRight'
  <2> SUFFICES ASSUME ~cut, status[o] = "up"
               PROVE  /\ QueueFits(Tail(q), Tail(a), b, Replies, Answerables)
                      /\ QueueFits(k, b, Tail(a), Replies, Answerables)
    BY <1>1, <1>3, <1>6, <1>7, <1>12 DEF QueueRight, o
  <2>1. QueueFits(q, a, b, Replies, Answerables) /\ QueueFits(k, b, a, Replies, Answerables)
    BY <1>1, <1>2, <1>8 DEF QueueRight, q, k, a, b, o
  <2>2. Tail(a) \in Seq(Messages) /\ Len(Tail(a)) \in Nat
    BY <1>2, <1>4
  <2>3. CountTo(Tail(a), Replies, Len(Tail(a))) \in Nat
    BY <2>2, CountNat
  <2>4. QueueFits(Tail(q), Tail(a), b, Replies, Answerables)
    BY <1>4, <1>10, <2>1, <2>3, QueueFitsTaken
  <2>5. QueueFits(k, b, Tail(a), Replies, Answerables)
    BY <1>2, <1>4, <1>5, <2>1, QueueFitsSkip
  <2> QED
    BY <2>4, <2>5
<1> QED
  BY <1>13, <1>14, <1>15 DEF MatchInv


(* The session of p is over: it reads no more replies. *)
LEMMA MatchParts ==
  ASSUME TypeOK, MatchInv, Counted, NEW p \in Sides, NEW z, NEW ms, LineMoved(p, z, ms),
         Elems(ms) \subseteq {Bye, Eof}, UNCHANGED <<setup, verdict, cut>>,
         status'[p] # "up", status'[Other(p)] = status[Other(p)],
         open_global_requests'[Other(p)] = open_global_requests[Other(p)],
         \A c \in Calls : call'[c] = call[c] \/ call'[c] \notin Answers
  PROVE  MatchInv'
<1> DEFINE o == Other(p)
           g == Given(o, ms)
           b == net[o]
           k == open_global_requests[o]
<1>1. o \in Sides /\ o # p /\ Other(o) = p /\ \A r \in Sides : r = p \/ r = o
  BY OtherFacts
<1>2. b \in Seq(Messages) /\ net'[o] = b \o g
  BY <1>1, TypeFacts DEF LineMoved
<1>3. g \in Seq(Messages) /\ Elems(g) \subseteq {Bye, Eof}
  BY ElemsEmpty DEF LineMoved, Given
<1>4. \A i \in 1..Len(g) : g[i] \notin Replies
  BY <1>3, ReplyFacts DEF Elems
<1>5. Replies' = Replies /\ RightAnswers \subseteq RightAnswers'
  BY MatchSetup, RightGrows
<1>6. AnswersAreOwn'
  <2>1. AnswersAreOwn /\ \A c \in Calls : verdict'[c] = verdict[c] \/ verdict[c] = "none"
    BY DEF MatchInv
  <2> QED
    BY <2>1, OwnGrows
<1> HIDE DEF g, b, k
<1>7. ASSUME status[o] = "up" PROVE RepliesFit(k, b \o g, Replies, RightAnswers')
  <2>1. RepliesFit(k, b, Replies, RightAnswers)
    BY <1>1, <1>7 DEF MatchInv, RepliesRight, k, b
  <2>2. RepliesFit(k, b, Replies, RightAnswers')
    BY <1>5, <2>1 DEF RepliesFit
  <2> QED
    BY <1>2, <1>3, <1>4, <2>2, RepliesFitOthers
<1>8. RepliesRight'
  BY <1>1, <1>2, <1>5, <1>7 DEF RepliesRight, k
<1>9. QueueRight'
  BY <1>1 DEF QueueRight
<1> QED
  BY <1>6, <1>8, <1>9 DEF MatchInv

(* Nothing moves but calls. *)
LEMMA MatchStill ==
  ASSUME MatchInv, Counted,
         UNCHANGED <<setup, status, net, open_global_requests, verdict, cut>>,
         \A c \in Calls : call'[c] = call[c] \/ call'[c] \notin Answers
  PROVE  MatchInv'
<1>1. /\ Replies' = Replies /\ Answerables' = Answerables
      /\ RightAnswers \subseteq RightAnswers'
  BY MatchSetup, RightGrows
<1>2. AnswersAreOwn'
  <2>1. AnswersAreOwn /\ \A c \in Calls : verdict'[c] = verdict[c] \/ verdict[c] = "none"
    BY DEF MatchInv
  <2> QED
    BY <2>1, OwnGrows
<1>3. RepliesRight'
  <2> SUFFICES ASSUME NEW p \in Sides, status[p] = "up"
               PROVE  RepliesFit(open_global_requests[p], net[p], Replies, RightAnswers')
    BY <1>1 DEF RepliesRight
  <2>1. RepliesFit(open_global_requests[p], net[p], Replies, RightAnswers)
    BY DEF MatchInv, RepliesRight
  <2> QED
    BY <1>1, <2>1 DEF RepliesFit
<1>4. QueueRight'
  BY <1>1 DEF MatchInv, QueueRight
<1> QED
  BY <1>2, <1>3, <1>4 DEF MatchInv

LEMMA MatchStep == TypeOK /\ LineInv /\ MatchInv /\ LoopStep => MatchInv'
<1> SUFFICES ASSUME TypeOK, LineInv, MatchInv, LoopStep PROVE MatchInv'
  BY SMTT(60)
<1>1. setup' = setup
  BY DEF LoopStep, Call, Cancel, Ends, Stop, DrainBegins, DrainSkips, Sends, SendRequest,
         AnswersRequest, ClientReadsRequest, ServerReadsRequest, ReadReply, SendsKeepalive,
         keepalive_request, StaysUp, Cut, vars
<1> SUFFICES ASSUME Counted PROVE MatchInv'
  BY <1>1, MatchSetup DEF MatchInv
<1>2. /\ call \in [Calls -> Results] /\ status \in [Sides -> Statuses]
      /\ open_global_requests \in [Sides -> Seq(Calls \cup {"timer"})]
  BY TypeOKParts DEF Typed
<1>3. "server" \in Sides /\ \A p \in Sides : Other(p) \in Sides /\ Other(p) # p
  BY OtherFacts DEF Sides
<1>4. ASSUME NEW c \in Calls, Call(c) PROVE MatchInv'
  <2>1. \A d \in Calls : call'[d] = call[d] \/ call'[d] \notin Answers
    BY <1>2, <1>4 DEF Call, Answers
  <2>2. UNCHANGED <<setup, status, net, open_global_requests, verdict, cut>>
    BY <1>4 DEF Call
  <2> QED
    BY <2>1, <2>2, MatchStill
<1>5. ASSUME NEW c \in Calls, Cancel(c) PROVE MatchInv'
  <2>1. \A d \in Calls : call'[d] = call[d] \/ call'[d] \notin Answers
    BY <1>2, <1>5 DEF Cancel, Answers
  <2>2. UNCHANGED <<setup, status, net, open_global_requests, verdict, cut>>
    BY <1>5 DEF Cancel
  <2> QED
    BY <2>1, <2>2, MatchStill
<1>6. CASE UNCHANGED vars
  <2>1. /\ UNCHANGED <<setup, status, net, open_global_requests, verdict, cut>>
        /\ \A d \in Calls : call'[d] = call[d] \/ call'[d] \notin Answers
    BY <1>6 DEF vars
  <2> QED
    BY <2>1, MatchStill
<1>7. ASSUME NEW p \in Sides, Ends(p) PROVE MatchInv'
  <2>1. PICK ms \in Partings : LineMoved(p, <<>>, ms)
    BY <1>7, EndsEffect
  <2>2. PICK why \in Endings : status' = [status EXCEPT ![p] = why]
    BY <1>7, EndsEffect
  <2>3. /\ open_global_requests' = [open_global_requests EXCEPT ![p] = <<>>]
        /\ call' = Hangup(p) /\ UNCHANGED <<setup, verdict, cut>>
    BY <1>7, EndsEffect
  <2>4. \A d \in Calls : call'[d] = call[d] \/ call'[d] \notin Answers
    BY <1>2, <2>3 DEF Hangup, Answers
  <2>5. status'[p] # "up" /\ status'[Other(p)] = status[Other(p)]
        /\ open_global_requests'[Other(p)] = open_global_requests[Other(p)]
    BY <1>2, <1>3, <2>2, <2>3 DEF Endings
  <2>6. LineMoved(p, <<>>, ms) /\ Elems(ms) \subseteq {Bye, Eof}
    BY <2>1, PartingTypes
  <2> QED
    BY <2>3, <2>4, <2>5, <2>6, MatchParts
<1>8. ASSUME DrainBegins PROVE MatchInv'
  <2>1. /\ status' = [status EXCEPT !["server"] = "draining"]
        /\ UNCHANGED <<setup, open_global_requests, call, verdict, cut>>
    BY <1>8, DrainBeginsEffect
  <2>2. PICK ms \in Partings : \E z : LineMoved("server", z, ms)
    BY <1>8, DrainBeginsEffect
  <2>3. PICK z : LineMoved("server", z, ms)
    BY <2>2
  <2>4. Elems(ms) \subseteq {Bye, Eof}
    BY PartingTypes
  <2>5. status'["server"] # "up" /\ status'[Other("server")] = status[Other("server")]
        /\ open_global_requests'[Other("server")] = open_global_requests[Other("server")]
        /\ \A d \in Calls : call'[d] = call[d] \/ call'[d] \notin Answers
    BY <1>2, <1>3, <2>1
  <2> QED
    BY <1>3, <2>1, <2>3, <2>4, <2>5, MatchParts
<1>9. ASSUME DrainSkips PROVE MatchInv'
  <2>1. UNCHANGED <<setup, status, open_global_requests, call, verdict, cut>>
        /\ status["server"] = "draining"
    BY <1>9 DEF DrainSkips
  <2>2. LineMoved("server", Tail(net["server"]), <<>>) /\ Elems(<<>>) \subseteq {Bye, Eof}
    BY <1>9, DrainSkipsEffect, ElemsEmpty
  <2>3. status'["server"] # "up" /\ status'[Other("server")] = status[Other("server")]
        /\ open_global_requests'[Other("server")] = open_global_requests[Other("server")]
        /\ \A d \in Calls : call'[d] = call[d] \/ call'[d] \notin Answers
    BY <2>1
  <2> QED
    BY <1>3, <2>1, <2>2, <2>3, MatchParts
<1>10. ASSUME NEW p \in Sides, NEW c \in Calls, Sends(p, c) PROVE MatchInv'
  <2>1. c \in Asking /\ UNCHANGED <<setup, status, call, verdict, cut>>
        /\ open_global_requests' = [open_global_requests EXCEPT ![p] = @ \o Entry(c)]
    BY <1>10 DEF Sends, SendRequest, Asking
  <2>2. LineMoved(p, net[p], <<RequestOf(c)>>)
    BY <1>10, SendsEffect
  <2>3. RequestOf(c) \in Messages /\ RequestOf(c).type = "request"
    BY <2>1, CallRequestFacts
  <2>4. Entry(c) \in Seq(Calls \cup {"timer"})
    <3>1. <<c>> \in Seq(Calls \cup {"timer"}) /\ <<>> \in Seq(Calls \cup {"timer"})
      OBVIOUS
    <3> QED
      BY <3>1 DEF Entry
  <2>5. \/ RequestOf(c) \in Answerables /\ Entry(c) = <<RequestOf(c).of>>
        \/ RequestOf(c) \notin Answerables /\ Entry(c) = <<>>
    BY <2>1, EntryFits
  <2> QED
    BY <2>1, <2>2, <2>3, <2>4, <2>5, MatchSends
<1>11. ASSUME NEW p \in Sides, SendsKeepalive(p) PROVE MatchInv'
  <2>1. UNCHANGED <<setup, status, call, verdict, cut>>
        /\ open_global_requests' = [open_global_requests EXCEPT ![p] = Append(@, "timer")]
    BY <1>11 DEF SendsKeepalive, keepalive_request, StaysUp
  <2>2. LineMoved(p, net[p], <<TimerRequest>>)
    BY <1>11, KeepaliveEffect
  <2>3. /\ TimerRequest \in Messages /\ TimerRequest.type = "request" /\ TimerRequest.of = "timer"
        /\ TimerRequest.name = "keepalive" /\ TimerRequest.want = TRUE
    BY MessageTypes DEF TimerRequest, Request
  <2>4. TimerRequest \in Answerables
    BY <2>3 DEF Answerables, Answerable
  <2>5. Append(open_global_requests[p], "timer") = open_global_requests[p] \o <<"timer">>
    BY <1>2, AppendIsConcat
  <2>6. open_global_requests' = [open_global_requests EXCEPT ![p] = @ \o <<"timer">>]
    BY <1>2, <2>1, <2>5
  <2>7. <<"timer">> \in Seq(Calls \cup {"timer"})
    OBVIOUS
  <2> QED
    BY <2>1, <2>2, <2>3, <2>4, <2>6, <2>7, MatchSends
<1>12. ASSUME Cut PROVE MatchInv'
  <2>1. /\ UNCHANGED <<setup, status, call, verdict>> /\ cut' = TRUE
        /\ \A p \in Sides : net'[p] = <<>>
    BY <1>12 DEF Cut
  <2>2. AnswersAreOwn'
    <3>1. AnswersAreOwn /\ \A d \in Calls : call'[d] = call[d] \/ call'[d] \notin Answers
      BY <2>1 DEF MatchInv
    <3> QED
      BY <2>1, <3>1, OwnGrows
  <2>3. RepliesRight' /\ QueueRight'
    BY <2>1 DEF RepliesRight, RepliesFit, QueueRight
  <2> QED
    BY <2>2, <2>3 DEF MatchInv
<1> QED
  BY <1>4, <1>5, <1>6, <1>7, <1>8, <1>9, <1>10, <1>11, <1>12, MatchAnswers, MatchReads DEF LoopStep

(* The queue is then in step with the line. *)
LEMMA MatchGivesStep == TypeOK /\ MatchInv => RightAnswer /\ QueueInStep
<1> SUFFICES ASSUME TypeOK, MatchInv PROVE RightAnswer /\ QueueInStep
  OBVIOUS
<1>1. RightAnswer
  BY DEF MatchInv, RightAnswer
<1>2. QueueInStep
  <2> SUFFICES ASSUME Counted, ~cut, NEW p \in Sides, status[p] = "up", status[Other(p)] = "up"
               PROVE  Len(open_global_requests[p]) =
                        Cardinality({i \in DOMAIN net[Other(p)] : Answerable(net[Other(p)][i])})
                        + Cardinality({i \in DOMAIN net[p] : IsReply(net[p][i])})
    BY DEF QueueInStep
  <2> DEFINE a == net[p]
             b == net[Other(p)]
  <2>1. a \in Seq(Messages) /\ b \in Seq(Messages)
    BY OtherFacts, TypeFacts
  <2>2. QueueFits(open_global_requests[p], a, b, Replies, Answerables)
    BY DEF MatchInv, QueueRight
  <2> HIDE DEF a, b
  <2>3. /\ \A i \in 1..Len(a) : a[i] \in Messages
        /\ \A i \in 1..Len(b) : b[i] \in Messages
        /\ DOMAIN a = 1..Len(a) /\ DOMAIN b = 1..Len(b) /\ Len(a) \in Nat /\ Len(b) \in Nat
    BY <2>1
  <2>4. {i \in DOMAIN a : IsReply(a[i])} = {i \in 1..Len(a) : a[i] \in Replies}
    BY <2>3 DEF Replies
  <2>5. {i \in DOMAIN b : Answerable(b[i])} = {i \in 1..Len(b) : b[i] \in Answerables}
    BY <2>3 DEF Answerables
  <2>6. CountTo(a, Replies, Len(a)) \in Nat /\ CountTo(b, Answerables, Len(b)) \in Nat
    BY <2>3, CountNat
  <2>7. Len(open_global_requests[p]) = CountTo(b, Answerables, Len(b)) + CountTo(a, Replies, Len(a))
    BY <2>2, <2>6 DEF QueueFits
  <2>8. CountTo(a, Replies, Len(a)) = Cardinality({i \in DOMAIN a : IsReply(a[i])})
    BY <2>4 DEF CountTo
  <2>9. CountTo(b, Answerables, Len(b)) = Cardinality({i \in DOMAIN b : Answerable(b[i])})
    BY <2>5 DEF CountTo
  <2> QED
    BY <2>7, <2>8, <2>9 DEF a, b
<1> QED
  BY <1>1, <1>2

(***************************************************************************)
(* Replies are matched to requests by their place alone (REQUEST_SUCCESS   *)
(* and REQUEST_FAILURE in encrypted.rs): where both sides count the same   *)
(* requests, every call is returned the answer to its own request, and a   *)
(* reply never meets an empty queue, however calls, keepalives, dropped    *)
(* calls, requests of the peer and the ends of sessions interleave.        *)
(***************************************************************************)
THEOREM RepliesAreMatched == Spec => []RepliesMatched
<1> DEFINE Inv == TypeOK /\ LineInv /\ MatchInv
<1>1. Init => Inv
  BY InitTypes, InitLine, InitMatch
<1>2. Inv /\ [Next]_vars => Inv'
  BY NextIsLoopStep, StepTypes, LineStep, MatchStep
<1>3. Inv => RepliesMatched
  BY MatchGivesStep DEF RepliesMatched
<1> HIDE DEF Inv
<1> QED
  BY <1>1, <1>2, <1>3, PTL DEF Spec


-----------------------------------------------------------------------------
(* Keepalives *)

(* A side that runs will read the end of its peer's stream, ... *)
EndSeen ==
  ~cut => \A p \in Sides :
    status[p] = "up" /\ status[Other(p)] # "up" => Eof \in Elems(net[p])

(* ... and a side that counts silence has a keepalive or an answer coming.   *)
SilenceSeen ==
  ~cut => \A p \in Sides :
    status[p] = "up" /\ status[Other(p)] = "up" /\ alive_timeouts[p] # 0 =>
      TimerRequest \in Elems(net[Other(p)]) \/ Elems(net[p]) \cap Replies # {}

AliveInv == NoFalseTimeout /\ EndSeen /\ SilenceSeen

LEMMA InitAlive == Init => AliveInv
<1> SUFFICES ASSUME Init PROVE AliveInv
  OBVIOUS
<1>1. \A p \in Sides : status[p] = "up" /\ alive_timeouts[p] = 0 /\ Other(p) \in Sides
  BY OtherFacts DEF Init
<1> QED
  BY <1>1 DEF AliveInv, NoFalseTimeout, EndSeen, SilenceSeen

(* The timer of p gives its peer up over a fast line only when it is dead. *)
LEMMA GivenUpDead ==
  ASSUME TypeOK, AliveInv, NEW p \in Sides, TimeFor(p), alive_timeouts[p] + 1 > KeepaliveMax,
         setup.fast
  PROVE  cut
<1> SUFFICES ASSUME ~cut PROVE FALSE
  OBVIOUS
<1>1. alive_timeouts[p] # 0 /\ Other(p) \in Sides
  BY TypeFacts, OtherFacts
<1>2. status[p] = "up" /\ \A r \in Sides : Elems(net[r]) = {}
  BY ElemsEmpty DEF TimeFor, Quiet
<1>3. status[Other(p)] = "up"
  BY <1>2 DEF AliveInv, EndSeen
<1>4. TimerRequest \in Elems(net[Other(p)]) \/ Elems(net[p]) \cap Replies # {}
  BY <1>1, <1>2, <1>3 DEF AliveInv, SilenceSeen
<1> QED
  BY <1>1, <1>2, <1>4

(* A session ends or drains: its peer will read of it. *)
LEMMA AliveEnds ==
  ASSUME TypeOK, AliveInv, NEW p \in Sides, NEW z, NEW ms, LineMoved(p, z, ms),
         UNCHANGED <<setup, cut>>, status'[p] # "up", status'[Other(p)] = status[Other(p)],
         status[p] # "up" \/ Eof \in Elems(ms),
         setup.fast /\ ~cut => status'[p] # "KeepaliveTimeout"
  PROVE  AliveInv'
<1> DEFINE o == Other(p)
<1>1. o \in Sides /\ o # p /\ Other(o) = p /\ \A r \in Sides : r = p \/ r = o
  BY OtherFacts
<1>2. net[o] \in Seq(Messages) /\ Given(o, ms) \in Seq(Messages) /\ net'[o] = net[o] \o Given(o, ms)
  BY <1>1, TypeFacts DEF LineMoved, Given
<1>3. Elems(net'[o]) = Elems(net[o]) \cup Elems(Given(o, ms))
  BY <1>2, ElemsConcat
<1>4. NoFalseTimeout'
  BY <1>1 DEF AliveInv, NoFalseTimeout
<1>5. EndSeen'
  <2> SUFFICES ASSUME ~cut, status[o] = "up" PROVE Eof \in Elems(net'[o])
    BY <1>1 DEF EndSeen
  <2>1. Given(o, ms) = ms
    BY DEF Given, Live
  <2>2. CASE status[p] # "up"
    BY <1>1, <1>3, <2>2 DEF AliveInv, EndSeen
  <2>3. CASE Eof \in Elems(ms)
    BY <1>3, <2>1, <2>3
  <2> QED
    BY <2>2, <2>3
<1>6. SilenceSeen'
  BY <1>1 DEF SilenceSeen
<1> QED
  BY <1>4, <1>5, <1>6 DEF AliveInv

(* A loop that goes on: it leaves no end of stream behind, answers the       *)
(* keepalive it reads, and counts no silence when it reads a reply.          *)
LEMMA AliveRuns ==
  ASSUME TypeOK, LineInv, AliveInv, NEW p \in Sides, NEW z, NEW ms, LineMoved(p, z, ms),
         UNCHANGED <<setup, cut, status>>, status[p] = "up",
         alive_timeouts'[Other(p)] = alive_timeouts[Other(p)],
         z = net[p] \/ (net[p] # <<>> /\ z = Tail(net[p]) /\ Head(net[p]) # Eof),
         z # net[p] /\ Head(net[p]) = TimerRequest => Elems(ms) \cap Replies # {},
         \/ alive_timeouts'[p] = 0
         \/ TimerRequest \in Elems(ms)
         \/ /\ alive_timeouts'[p] = alive_timeouts[p]
            /\ z # net[p] => Head(net[p]) \notin Replies
  PROVE  AliveInv'
<1> DEFINE o == Other(p)
<1>1. o \in Sides /\ o # p /\ Other(o) = p /\ \A r \in Sides : r = p \/ r = o
  BY OtherFacts
<1>2. /\ net[o] \in Seq(Messages) /\ Given(o, ms) \in Seq(Messages)
      /\ net'[o] = net[o] \o Given(o, ms) /\ net'[p] = z /\ net[p] \in Seq(Messages)
  BY <1>1, TypeFacts DEF LineMoved, Given
<1>3. Elems(net'[o]) = Elems(net[o]) \cup Elems(Given(o, ms))
  BY <1>2, ElemsConcat
<1>4. \A x \in Elems(net[p]) : x \in Elems(net'[p]) \/ (z # net[p] /\ x = Head(net[p]))
  <2>1. CASE z = net[p]
    BY <1>2, <2>1
  <2>2. CASE net[p] # <<>> /\ z = Tail(net[p]) /\ z # net[p]
    BY <1>2, <2>2, ElemsTail
  <2> QED
    BY <2>1, <2>2
<1>5. NoFalseTimeout'
  BY DEF AliveInv, NoFalseTimeout
<1>6. EndSeen'
  <2> SUFFICES ASSUME ~cut, status[o] # "up" PROVE Eof \in Elems(net'[p])
    BY <1>1 DEF EndSeen
  <2>1. Eof \in Elems(net[p])
    BY DEF AliveInv, EndSeen
  <2> QED
    BY <1>4, <2>1
<1>7. Replies' = Replies /\ TimerRequest' = TimerRequest
  BY MatchSetup DEF TimerRequest, Request
<1>8. SilenceSeen'
  <2> SUFFICES ASSUME ~cut, status[o] = "up"
               PROVE  /\ alive_timeouts'[p] # 0 =>
                           TimerRequest \in Elems(net'[o]) \/ Elems(net'[p]) \cap Replies # {}
                      /\ alive_timeouts[o] # 0 =>
                           TimerRequest \in Elems(net'[p]) \/ Elems(net'[o]) \cap Replies # {}
    BY <1>1, <1>7 DEF SilenceSeen
  <2>1. Given(o, ms) = ms
    BY DEF Given, Live
  <2>2. ASSUME alive_timeouts'[p] # 0
        PROVE  TimerRequest \in Elems(net'[o]) \/ Elems(net'[p]) \cap Replies # {}
    <3>1. CASE TimerRequest \in Elems(ms)
      BY <1>3, <2>1, <3>1
    <3>2. CASE alive_timeouts'[p] = alive_timeouts[p] /\ (z # net[p] => Head(net[p]) \notin Replies)
      <4>1. TimerRequest \in Elems(net[o]) \/ Elems(net[p]) \cap Replies # {}
        BY <2>2, <3>2 DEF AliveInv, SilenceSeen
      <4> QED
        BY <1>3, <1>4, <3>2, <4>1
    <3> QED
      BY <2>2, <3>1, <3>2
  <2>3. ASSUME alive_timeouts[o] # 0
        PROVE  TimerRequest \in Elems(net'[p]) \/ Elems(net'[o]) \cap Replies # {}
    <3>1. TimerRequest \in Elems(net[p]) \/ Elems(net[o]) \cap Replies # {}
      BY <1>1, <2>3 DEF AliveInv, SilenceSeen
    <3> QED
      BY <1>3, <1>4, <2>1, <3>1
  <2> QED
    BY <2>2, <2>3
<1> QED
  BY <1>5, <1>6, <1>8 DEF AliveInv

LEMMA AliveStep == TypeOK /\ LineInv /\ AliveInv /\ LoopStep => AliveInv'
<1> SUFFICES ASSUME TypeOK, LineInv, AliveInv, LoopStep PROVE AliveInv'
  OBVIOUS
<1>1. status \in [Sides -> Statuses] /\ alive_timeouts \in [Sides -> 0..KeepaliveMax]
  BY TypeOKParts DEF Typed
<1>2. "server" \in Sides /\ \A p \in Sides : Other(p) \in Sides /\ Other(p) # p
  BY OtherFacts DEF Sides
<1>3. Eof.type = "eof" /\ TimerRequest.type = "request"
  BY MessageTypes, CallRequestFacts
<1>4. ASSUME UNCHANGED <<setup, status, net, alive_timeouts, cut>> PROVE AliveInv'
  <2>1. Replies' = Replies /\ TimerRequest' = TimerRequest /\ Eof' = Eof
    BY <1>4, MatchSetup DEF TimerRequest, Request, Eof
  <2> QED
    BY <1>4, <2>1 DEF AliveInv, NoFalseTimeout, EndSeen, SilenceSeen
<1>5. ASSUME NEW p \in Sides, Ends(p) PROVE AliveInv'
  <2>1. PICK ms \in Partings : LineMoved(p, <<>>, ms)
    BY <1>5, EndsEffect
  <2>2. PICK why \in Endings :
          /\ status' = [status EXCEPT ![p] = why]
          /\ why = "KeepaliveTimeout" => TimeFor(p) /\ alive_timeouts[p] + 1 > KeepaliveMax
    BY <1>5, EndsEffect
  <2>3. UNCHANGED <<setup, cut>>
    BY <1>5, EndsEffect
  <2>4. status'[p] = why /\ why # "up" /\ status'[Other(p)] = status[Other(p)]
    BY <1>1, <1>2, <2>2 DEF Endings
  <2>5. setup.fast /\ ~cut => why # "KeepaliveTimeout"
    BY <2>2, GivenUpDead
  <2>6. LineMoved(p, <<>>, ms) /\ Eof \in Elems(ms)
    BY <2>1, PartingTypes
  <2> QED
    BY <2>3, <2>4, <2>5, <2>6, AliveEnds
<1>6. ASSUME DrainBegins PROVE AliveInv'
  <2>1. status' = [status EXCEPT !["server"] = "draining"] /\ UNCHANGED <<setup, cut>>
    BY <1>6, DrainBeginsEffect
  <2>2. PICK ms \in Partings : \E z : LineMoved("server", z, ms)
    BY <1>6, DrainBeginsEffect
  <2>3. PICK z : LineMoved("server", z, ms)
    BY <2>2
  <2>4. Eof \in Elems(ms)
    BY PartingTypes
  <2>5. status'["server"] = "draining" /\ status'[Other("server")] = status[Other("server")]
    BY <1>1, <1>2, <2>1
  <2> QED
    BY <1>2, <2>1, <2>3, <2>4, <2>5, AliveEnds
<1>7. ASSUME DrainSkips PROVE AliveInv'
  <2>1. UNCHANGED <<setup, status, cut>> /\ status["server"] = "draining"
    BY <1>7 DEF DrainSkips
  <2>2. LineMoved("server", Tail(net["server"]), <<>>)
    BY <1>7, DrainSkipsEffect
  <2>3. /\ status'["server"] # "up" /\ status["server"] # "up"
        /\ status'["server"] # "KeepaliveTimeout"
        /\ status'[Other("server")] = status[Other("server")]
    BY <2>1
  <2> QED
    BY <1>2, <2>1, <2>2, <2>3, AliveEnds
<1>8. ASSUME NEW p \in Sides, NEW c \in Calls, Sends(p, c) PROVE AliveInv'
  <2>1. UNCHANGED <<setup, status, cut, alive_timeouts>> /\ status[p] = "up"
    BY <1>8 DEF Sends, SendRequest
  <2>2. LineMoved(p, net[p], <<RequestOf(c)>>)
    BY <1>8, SendsEffect
  <2> QED
    BY <2>1, <2>2, AliveRuns
<1>9. ASSUME NEW p \in Sides, AnswersRequest(p) PROVE AliveInv'
  <2>1. /\ status[p] = "up" /\ net[p] # <<>> /\ Head(net[p]) \in Messages
        /\ Head(net[p]).type = "request" /\ UNCHANGED <<setup, status, cut>>
        /\ \/ UNCHANGED alive_timeouts
           \/ alive_timeouts' = [alive_timeouts EXCEPT ![p] = 0]
    BY <1>9, AnswersEffect
  <2>2. PICK granted, ms : Decides(p, Head(net[p]), granted, ms) /\ LineMoved(p, Tail(net[p]), ms)
    BY <1>9, AnswersEffect
  <2>3. alive_timeouts'[Other(p)] = alive_timeouts[Other(p)]
        /\ (alive_timeouts'[p] = 0 \/ alive_timeouts'[p] = alive_timeouts[p])
    BY <1>1, <1>2, <2>1
  <2>4. Head(net[p]) # Eof /\ Head(net[p]) \notin Replies
    BY <1>3, <2>1, ReplyFacts
  <2>5. Head(net[p]) = TimerRequest => Elems(ms) \cap Replies # {}
    <3> SUFFICES ASSUME Head(net[p]) = TimerRequest PROVE Elems(ms) \cap Replies # {}
      OBVIOUS
    <3>1. TimerRequest.name = "keepalive" /\ TimerRequest.want = TRUE
      BY DEF TimerRequest, Request
    <3>2. ms = <<Failure>> \/ ms = <<Success(FALSE)>>
      BY <2>2, <3>1 DEF Decides, RusshReply
    <3>3. Failure \in Replies /\ Success(FALSE) \in Replies
      BY MessageTypes, ReplyFacts
    <3>4. Elems(<<Failure>>) = {Failure} /\ Elems(<<Success(FALSE)>>) = {Success(FALSE)}
      BY ElemsOne
    <3> QED
      BY <3>2, <3>3, <3>4
  <2>6. LineMoved(p, Tail(net[p]), ms)
    BY <2>2
  <2> QED
    BY <2>1, <2>3, <2>4, <2>5, <2>6, AliveRuns
<1>10. ASSUME NEW p \in Sides, ReadReply(p) PROVE AliveInv'
  <2>1. /\ UNCHANGED <<setup, status, cut>> /\ alive_timeouts' = [alive_timeouts EXCEPT ![p] = 0]
    BY <1>10 DEF ReadReply, StaysUp, DataReceived
  <2>2. /\ status[p] = "up" /\ net[p] # <<>> /\ Head(net[p]).type \in {"success", "failure"}
        /\ LineMoved(p, Tail(net[p]), <<>>)
    BY <1>10, ReplyEffect
  <2>3. alive_timeouts'[Other(p)] = alive_timeouts[Other(p)] /\ alive_timeouts'[p] = 0
    BY <1>1, <1>2, <2>1
  <2>4. Head(net[p]) # Eof /\ Head(net[p]) # TimerRequest
    BY <1>3, <2>2
  <2> QED
    BY <2>1, <2>2, <2>3, <2>4, AliveRuns
<1>11. ASSUME NEW p \in Sides, SendsKeepalive(p) PROVE AliveInv'
  <2>1. /\ UNCHANGED <<setup, status, cut>> /\ status[p] = "up"
        /\ alive_timeouts' = [alive_timeouts EXCEPT ![p] = @ + 1]
    BY <1>11 DEF SendsKeepalive, keepalive_request, StaysUp, TimeFor
  <2>2. LineMoved(p, net[p], <<TimerRequest>>) /\ TimerRequest \in Elems(<<TimerRequest>>)
    BY <1>11, KeepaliveEffect, ElemsOne
  <2>3. alive_timeouts'[Other(p)] = alive_timeouts[Other(p)]
    BY <1>1, <1>2, <2>1
  <2> QED
    BY <2>1, <2>2, <2>3, AliveRuns
<1>12. ASSUME Cut PROVE AliveInv'
  BY <1>12 DEF Cut, AliveInv, NoFalseTimeout, EndSeen, SilenceSeen
<1>13. ASSUME NEW c \in Calls, Call(c) \/ Cancel(c) PROVE AliveInv'
  <2>1. UNCHANGED <<setup, status, net, alive_timeouts, cut>>
    BY <1>13 DEF Call, Cancel
  <2> QED
    BY <1>4, <2>1
<1>14. CASE UNCHANGED vars
  BY <1>4, <1>14 DEF vars
<1> QED
  BY <1>5, <1>6, <1>7, <1>8, <1>9, <1>10, <1>11, <1>12, <1>13, <1>14 DEF LoopStep

(***************************************************************************)
(* keepalive_timer of both loops: over a line that is faster than the      *)
(* interval no side gives up a peer whose connection lives, for every      *)
(* keepalive_max, since a side that counts silence has a keepalive or its  *)
(* answer on the line, and reads the end of a peer that has ended.         *)
(***************************************************************************)
THEOREM NoPeerGivenUp == Spec => []NoFalseTimeout
<1> DEFINE Inv == TypeOK /\ LineInv /\ AliveInv
<1>1. Init => Inv
  BY InitTypes, InitLine, InitAlive
<1>2. Inv /\ [Next]_vars => Inv'
  BY NextIsLoopStep, StepTypes, LineStep, AliveStep
<1>3. Inv => NoFalseTimeout
  BY DEF AliveInv
<1> HIDE DEF Inv
<1> QED
  BY <1>1, <1>2, <1>3, PTL DEF Spec
=============================================================================
