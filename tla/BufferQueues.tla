---------------------------- MODULE BufferQueues ----------------------------
(***************************************************************************)
(* The two queues of a V4L2 driver: q, the buffers it may use, and h, the  *)
(* buffers it has finished.  What the kernel's operations do to the set of *)
(* buffers a driver owns, for the proofs about programs that pass buffers  *)
(* between two of them.                                                    *)
(***************************************************************************)
EXTENDS Integers, Sequences, TLAPS

Owned(q, h) == {q[k] : k \in 1 .. Len(q)} \cup {h[k] : k \in 1 .. Len(h)}

\* No buffer is in them twice.
Distinct(q, h) ==
  /\ \A i, j \in 1 .. Len(q) : q[i] = q[j] => i = j
  /\ \A i, j \in 1 .. Len(h) : h[i] = h[j] => i = j
  /\ \A i \in 1 .. Len(q), j \in 1 .. Len(h) : q[i] # h[j]

LEMMA EmptyFacts == Distinct(<< >>, << >>) /\ Owned(<< >>, << >>) = {} /\ << >> \in Seq(Nat)
  BY DEF Distinct, Owned

LEMMA AppendFacts ==
  ASSUME NEW q \in Seq(Nat), NEW h \in Seq(Nat), NEW i \in Nat, i \notin Owned(q, h), Distinct(q, h)
  PROVE  /\ Append(q, i) \in Seq(Nat)
         /\ Distinct(Append(q, i), h)
         /\ Owned(Append(q, i), h) \subseteq Owned(q, h) \cup {i}
<1> DEFINE c == Append(q, i)
<1>1. /\ c \in Seq(Nat) /\ Len(c) = Len(q) + 1 /\ Len(q) \in Nat
      /\ \A k \in 1 .. Len(q) : c[k] = q[k]
      /\ c[Len(q) + 1] = i
  OBVIOUS
<1>2. /\ \A k \in 1 .. Len(q) : q[k] # i
      /\ \A k \in 1 .. Len(h) : h[k] # i
  BY DEF Owned
<1> HIDE DEF c
<1>0. ASSUME NEW k \in 1 .. Len(c)
      PROVE  \/ k \in 1 .. Len(q) /\ c[k] = q[k]
             \/ k = Len(q) + 1 /\ c[k] = i
  BY <1>1
<1>3. Distinct(c, h)
  <2>1. ASSUME NEW k \in 1 .. Len(c), NEW j \in 1 .. Len(c), c[k] = c[j] PROVE k = j
    <3>1. \A m \in 1 .. Len(q) : q[m] # i
      BY <1>2
    <3>2. CASE k = Len(q) + 1
      BY <1>0, <2>1, <3>1, <3>2
    <3>3. CASE j = Len(q) + 1
      BY <1>0, <2>1, <3>1, <3>3
    <3>4. CASE k \in 1 .. Len(q) /\ j \in 1 .. Len(q)
      <4>1. q[k] = q[j]
        BY <1>1, <2>1, <3>4
      <4> QED
        BY <3>4, <4>1 DEF Distinct
    <3> QED
      BY <1>0, <3>2, <3>3, <3>4
  <2>2. ASSUME NEW k \in 1 .. Len(c), NEW j \in 1 .. Len(h) PROVE c[k] # h[j]
    <3>1. CASE k = Len(q) + 1
      BY <1>1, <1>2, <3>1
    <3>2. CASE k \in 1 .. Len(q)
      BY <1>1, <3>2 DEF Distinct
    <3> QED
      BY <1>0, <3>1, <3>2
  <2> QED
    BY <2>1, <2>2 DEF Distinct
<1>5. ASSUME NEW k \in 1 .. Len(c) PROVE c[k] \in Owned(q, h) \cup {i}
  BY <1>0 DEF Owned
<1>4. Owned(c, h) \subseteq Owned(q, h) \cup {i}
  BY <1>5 DEF Owned
<1> QED
  BY <1>1, <1>3, <1>4 DEF c

LEMMA TailFacts ==
  ASSUME NEW q \in Seq(Nat), NEW h \in Seq(Nat), h # << >>, Distinct(q, h)
  PROVE  /\ Tail(h) \in Seq(Nat) /\ Head(h) \in Nat
         /\ Distinct(q, Tail(h))
         /\ Head(h) \in Owned(q, h)
         /\ Owned(q, Tail(h)) \subseteq Owned(q, h) \ {Head(h)}
<1> DEFINE c == Tail(h)
<1>1. /\ c \in Seq(Nat) /\ Len(h) \in Nat \ {0} /\ Len(c) = Len(h) - 1
      /\ \A k \in 1 .. Len(c) : c[k] = h[k + 1] /\ k + 1 \in 1 .. Len(h)
      /\ Head(h) = h[1] /\ h[1] \in Nat /\ 1 \in 1 .. Len(h)
  OBVIOUS
<1> HIDE DEF c
<1>2. Distinct(q, c)
  <2>1. ASSUME NEW i \in 1 .. Len(c), NEW j \in 1 .. Len(c), c[i] = c[j] PROVE i = j
    <3>1. h[i + 1] = h[j + 1] /\ i + 1 \in 1 .. Len(h) /\ j + 1 \in 1 .. Len(h)
      BY <1>1, <2>1
    <3>2. i + 1 = j + 1
      BY <3>1 DEF Distinct
    <3> QED
      BY <1>1, <3>2
  <2>2. ASSUME NEW i \in 1 .. Len(q), NEW j \in 1 .. Len(c) PROVE q[i] # c[j]
    <3>1. c[j] = h[j + 1] /\ j + 1 \in 1 .. Len(h)
      BY <1>1
    <3> QED
      BY <3>1 DEF Distinct
  <2> QED
    BY <2>1, <2>2 DEF Distinct
<1>3. Head(h) \in Owned(q, h)
  BY <1>1 DEF Owned
<1>4. ASSUME NEW k \in 1 .. Len(q) PROVE q[k] \in Owned(q, h) \ {Head(h)}
  BY <1>1 DEF Owned, Distinct
<1>5. ASSUME NEW k \in 1 .. Len(c) PROVE c[k] \in Owned(q, h) \ {Head(h)}
  <2>1. c[k] = h[k + 1] /\ k + 1 \in 1 .. Len(h) /\ k + 1 # 1
    BY <1>1
  <2>2. h[k + 1] # h[1]
    BY <1>1, <2>1 DEF Distinct
  <2> QED
    BY <1>1, <2>1, <2>2 DEF Owned
<1>6. Owned(q, c) \subseteq Owned(q, h) \ {Head(h)}
  BY <1>4, <1>5 DEF Owned
<1> QED
  BY <1>1, <1>2, <1>3, <1>6 DEF c

\* The driver finishes with the first buffer of q.
LEMMA MoveFacts ==
  ASSUME NEW q \in Seq(Nat), NEW h \in Seq(Nat), q # << >>, Distinct(q, h)
  PROVE  /\ Tail(q) \in Seq(Nat) /\ Append(h, Head(q)) \in Seq(Nat)
         /\ Distinct(Tail(q), Append(h, Head(q)))
         /\ Owned(Tail(q), Append(h, Head(q))) \subseteq Owned(q, h)
<1> DEFINE c == Tail(q)
           e == Append(h, Head(q))
<1>1. /\ c \in Seq(Nat) /\ Len(q) \in Nat \ {0} /\ Len(c) = Len(q) - 1
      /\ \A k \in 1 .. Len(c) : c[k] = q[k + 1] /\ k + 1 \in 1 .. Len(q)
      /\ Head(q) = q[1] /\ q[1] \in Nat /\ 1 \in 1 .. Len(q)
  OBVIOUS
<1>2. /\ e \in Seq(Nat) /\ Len(h) \in Nat /\ Len(e) = Len(h) + 1
      /\ \A k \in 1 .. Len(h) : e[k] = h[k]
      /\ e[Len(h) + 1] = q[1]
  BY <1>1
<1> HIDE DEF c, e
<1>3. ASSUME NEW i \in 1 .. Len(c), NEW j \in 1 .. Len(c), c[i] = c[j] PROVE i = j
  <2>1. q[i + 1] = q[j + 1] /\ i + 1 \in 1 .. Len(q) /\ j + 1 \in 1 .. Len(q)
    BY <1>1, <1>3
  <2>2. i + 1 = j + 1
    BY <2>1 DEF Distinct
  <2> QED
    BY <1>1, <2>2
<1>4. \A i, j \in 1 .. Len(e) : e[i] = e[j] => i = j
  <2>1. \A i \in 1 .. Len(h) : h[i] # q[1]
    BY <1>1 DEF Distinct
  <2>2. \A i \in 1 .. Len(e) : i \in 1 .. Len(h) \/ i = Len(h) + 1
    BY <1>2
  <2> QED
    BY <1>2, <2>1, <2>2 DEF Distinct
<1>5. ASSUME NEW i \in 1 .. Len(c), NEW j \in 1 .. Len(e) PROVE c[i] # e[j]
  <2>1. c[i] = q[i + 1] /\ i + 1 \in 1 .. Len(q) /\ i + 1 # 1
    BY <1>1
  <2>2. CASE j = Len(h) + 1
    BY <1>1, <1>2, <2>1, <2>2 DEF Distinct
  <2>3. CASE j \in 1 .. Len(h)
    <3>1. e[j] = h[j]
      BY <1>2, <2>3
    <3>2. q[i + 1] # h[j]
      BY <2>1, <2>3 DEF Distinct
    <3> QED
      BY <2>1, <3>1, <3>2
  <2> QED
    BY <1>2, <2>2, <2>3
<1>6. ASSUME NEW k \in 1 .. Len(c) PROVE c[k] \in Owned(q, h)
  BY <1>1 DEF Owned
<1>7. ASSUME NEW k \in 1 .. Len(e) PROVE e[k] \in Owned(q, h)
  <2>1. CASE k = Len(h) + 1
    BY <1>1, <1>2, <2>1 DEF Owned
  <2>2. CASE k \in 1 .. Len(h)
    BY <1>2, <2>2 DEF Owned
  <2> QED
    BY <1>2, <2>1, <2>2
<1>8. Owned(c, e) \subseteq Owned(q, h)
  BY <1>6, <1>7 DEF Owned
<1> QED
  BY <1>1, <1>2, <1>3, <1>4, <1>5, <1>8 DEF Distinct, c, e

\* The driver gives all of q back at once.
LEMMA FlushFacts ==
  ASSUME NEW q \in Seq(Nat), NEW h \in Seq(Nat), Distinct(q, h)
  PROVE  /\ h \o q \in Seq(Nat)
         /\ Distinct(<< >>, h \o q)
         /\ Owned(<< >>, h \o q) \subseteq Owned(q, h)
<1> DEFINE c == h \o q
<1>1. c \in Seq(Nat) /\ Len(h) \in Nat /\ Len(q) \in Nat /\ Len(c) = Len(h) + Len(q)
  OBVIOUS
<1>2. ASSUME NEW k \in 1 .. Len(c)
      PROVE  \/ k \in 1 .. Len(h) /\ c[k] = h[k]
             \/ k - Len(h) \in 1 .. Len(q) /\ c[k] = q[k - Len(h)]
  BY <1>1, <1>2
<1> HIDE DEF c
<1>3. ASSUME NEW i \in 1 .. Len(c), NEW j \in 1 .. Len(c), c[i] = c[j] PROVE i = j
  <2>1. i \in Int /\ j \in Int
    BY <1>1
  <2>2. CASE i \in 1 .. Len(h) /\ j \in 1 .. Len(h) /\ c[i] = h[i] /\ c[j] = h[j]
    <3>1. h[i] = h[j]
      BY <1>3, <2>2
    <3> QED
      BY <2>2, <3>1 DEF Distinct
  <2>3. CASE i - Len(h) \in 1 .. Len(q) /\ j - Len(h) \in 1 .. Len(q)
             /\ c[i] = q[i - Len(h)] /\ c[j] = q[j - Len(h)]
    <3>1. q[i - Len(h)] = q[j - Len(h)]
      BY <1>3, <2>3
    <3>2. i - Len(h) = j - Len(h)
      BY <2>3, <3>1 DEF Distinct
    <3> QED
      BY <1>1, <2>1, <3>2
  <2>4. CASE i - Len(h) \in 1 .. Len(q) /\ j \in 1 .. Len(h)
             /\ c[i] = q[i - Len(h)] /\ c[j] = h[j]
    <3>1. q[i - Len(h)] # h[j]
      BY <2>4 DEF Distinct
    <3> QED
      BY <1>3, <2>4, <3>1
  <2>5. CASE i \in 1 .. Len(h) /\ j - Len(h) \in 1 .. Len(q)
             /\ c[i] = h[i] /\ c[j] = q[j - Len(h)]
    <3>1. q[j - Len(h)] # h[i]
      BY <2>5 DEF Distinct
    <3> QED
      BY <1>3, <2>5, <3>1
  <2> QED
    BY <1>2, <2>2, <2>3, <2>4, <2>5
<1>4. Distinct(<< >>, c)
  BY <1>3 DEF Distinct
<1>5. ASSUME NEW k \in 1 .. Len(c) PROVE c[k] \in Owned(q, h)
  BY <1>2 DEF Owned
<1>6. Owned(<< >>, c) \subseteq Owned(q, h)
  BY <1>5 DEF Owned
<1> QED
  BY <1>1, <1>4, <1>6 DEF c

LEMMA AllFacts ==
  ASSUME NEW n \in Nat
  PROVE  /\ [k \in 1 .. n |-> k - 1] \in Seq(Nat)
         /\ << >> \o [k \in 1 .. n |-> k - 1] = [k \in 1 .. n |-> k - 1]
         /\ Distinct([k \in 1 .. n |-> k - 1], << >>)
<1> DEFINE all == [k \in 1 .. n |-> k - 1]
<1>1. all \in Seq(Nat) /\ Len(all) = n
  OBVIOUS
<1>2. << >> \o all = all
  BY <1>1
<1>3. \A k \in 1 .. n : all[k] = k - 1
  OBVIOUS
<1> HIDE DEF all
<1>4. Distinct(all, << >>)
  BY <1>1, <1>3 DEF Distinct
<1> QED
  BY <1>1, <1>2, <1>4 DEF all

\* More buffers at the end of q.
LEMMA ConcatFacts ==
  ASSUME NEW q \in Seq(Nat), NEW h \in Seq(Nat), NEW r \in Seq(Nat), Distinct(q, h),
         Distinct(r, << >>), \A k \in 1 .. Len(r) : r[k] \notin Owned(q, h)
  PROVE  /\ q \o r \in Seq(Nat)
         /\ Distinct(q \o r, h)
         /\ Owned(q \o r, h) \subseteq Owned(q, h) \cup Owned(r, << >>)
<1> DEFINE c == q \o r
<1>1. c \in Seq(Nat) /\ Len(q) \in Nat /\ Len(r) \in Nat /\ Len(c) = Len(q) + Len(r)
  OBVIOUS
<1>2. ASSUME NEW k \in 1 .. Len(c)
      PROVE  \/ k \in 1 .. Len(q) /\ c[k] = q[k]
             \/ k - Len(q) \in 1 .. Len(r) /\ c[k] = r[k - Len(q)]
  BY <1>1, <1>2
<1> HIDE DEF c
<1>3. \A k \in 1 .. Len(q) : q[k] \in Owned(q, h)
  BY DEF Owned
<1>4. ASSUME NEW i \in 1 .. Len(c), NEW j \in 1 .. Len(c), c[i] = c[j] PROVE i = j
  <2>1. i \in Int /\ j \in Int
    BY <1>1
  <2>2. CASE i \in 1 .. Len(q) /\ j \in 1 .. Len(q) /\ c[i] = q[i] /\ c[j] = q[j]
    <3>1. q[i] = q[j]
      BY <1>4, <2>2
    <3> QED
      BY <2>2, <3>1 DEF Distinct
  <2>3. CASE i - Len(q) \in 1 .. Len(r) /\ j - Len(q) \in 1 .. Len(r)
             /\ c[i] = r[i - Len(q)] /\ c[j] = r[j - Len(q)]
    <3>1. r[i - Len(q)] = r[j - Len(q)]
      BY <1>4, <2>3
    <3>2. i - Len(q) = j - Len(q)
      BY <2>3, <3>1 DEF Distinct
    <3> QED
      BY <1>1, <2>1, <3>2
  <2>4. CASE i - Len(q) \in 1 .. Len(r) /\ j \in 1 .. Len(q)
             /\ c[i] = r[i - Len(q)] /\ c[j] = q[j]
    BY <1>3, <1>4, <2>4
  <2>5. CASE i \in 1 .. Len(q) /\ j - Len(q) \in 1 .. Len(r)
             /\ c[i] = q[i] /\ c[j] = r[j - Len(q)]
    BY <1>3, <1>4, <2>5
  <2> QED
    BY <1>2, <2>2, <2>3, <2>4, <2>5
<1>5. ASSUME NEW i \in 1 .. Len(c), NEW j \in 1 .. Len(h) PROVE c[i] # h[j]
  <2>1. h[j] \in Owned(q, h)
    BY DEF Owned
  <2>2. CASE i \in 1 .. Len(q) /\ c[i] = q[i]
    BY <2>2 DEF Distinct
  <2>3. CASE i - Len(q) \in 1 .. Len(r) /\ c[i] = r[i - Len(q)]
    BY <2>1, <2>3
  <2> QED
    BY <1>2, <2>2, <2>3
<1>6. Distinct(c, h)
  BY <1>4, <1>5 DEF Distinct
<1>7. ASSUME NEW k \in 1 .. Len(c) PROVE c[k] \in Owned(q, h) \cup Owned(r, << >>)
  BY <1>2 DEF Owned
<1>8. Owned(c, h) \subseteq Owned(q, h) \cup Owned(r, << >>)
  BY <1>7 DEF Owned
<1> QED
  BY <1>1, <1>6, <1>8 DEF c

-----------------------------------------------------------------------------
(* Nothing gets lost: the other half of the equalities, for buffers that must  *)
(* stay in circulation.                                                        *)

LEMMA AppendKeeps ==
  ASSUME NEW q \in Seq(Nat), NEW h \in Seq(Nat), NEW i \in Nat
  PROVE  Owned(q, h) \cup {i} \subseteq Owned(Append(q, i), h)
<1> DEFINE c == Append(q, i)
<1>1. /\ Len(q) \in Nat /\ Len(c) = Len(q) + 1 /\ c[Len(q) + 1] = i
      /\ \A k \in 1 .. Len(q) : c[k] = q[k]
  OBVIOUS
<1> HIDE DEF c
<1>2. /\ Len(q) + 1 \in 1 .. Len(c)
      /\ \A k \in 1 .. Len(q) : k \in 1 .. Len(c)
  BY <1>1
<1> QED
  BY <1>1, <1>2 DEF Owned, c

LEMMA TailKeeps ==
  ASSUME NEW q \in Seq(Nat), NEW h \in Seq(Nat), h # << >>
  PROVE  Owned(q, h) \ {Head(h)} \subseteq Owned(q, Tail(h))
<1> DEFINE c == Tail(h)
<1>1. /\ Len(h) \in Nat /\ Len(c) = Len(h) - 1 /\ Head(h) = h[1]
      /\ \A k \in 1 .. Len(c) : c[k] = h[k + 1]
  OBVIOUS
<1> HIDE DEF c
<1>2. ASSUME NEW k \in 1 .. Len(h), k # 1 PROVE k - 1 \in 1 .. Len(c) /\ c[k - 1] = h[k]
  <2>1. k - 1 \in 1 .. Len(c) /\ (k - 1) + 1 = k
    BY <1>1, <1>2
  <2> QED
    BY <1>1, <2>1
<1>3. ASSUME NEW x \in Owned(q, h), x # Head(h) PROVE x \in Owned(q, c)
  <2>1. CASE \E k \in 1 .. Len(q) : x = q[k]
    BY <2>1 DEF Owned
  <2>2. CASE \E k \in 1 .. Len(h) : x = h[k]
    <3>1. PICK k \in 1 .. Len(h) : x = h[k]
      BY <2>2
    <3>2. k # 1
      BY <1>1, <1>3, <3>1
    <3> QED
      BY <1>2, <3>1, <3>2 DEF Owned
  <2> QED
    BY <1>3, <2>1, <2>2 DEF Owned
<1> QED
  BY <1>3 DEF c

LEMMA MoveKeeps ==
  ASSUME NEW q \in Seq(Nat), NEW h \in Seq(Nat), q # << >>
  PROVE  Owned(q, h) \subseteq Owned(Tail(q), Append(h, Head(q)))
<1> DEFINE c == Tail(q)
           e == Append(h, Head(q))
<1>1. Head(q) \in Nat /\ c \in Seq(Nat) /\ e \in Seq(Nat)
  OBVIOUS
<1>2. \A r, s : Owned(r, s) = Owned(s, r)
  BY DEF Owned
<1> HIDE DEF c, e
<1>3. Owned(q, h) \ {Head(q)} \subseteq Owned(c, h)
  BY <1>1, <1>2, TailKeeps DEF c
<1>4. Owned(h, c) \cup {Head(q)} \subseteq Owned(e, c)
  BY <1>1, AppendKeeps DEF e
<1> QED
  BY <1>2, <1>3, <1>4 DEF c, e

LEMMA FlushKeeps ==
  ASSUME NEW q \in Seq(Nat), NEW h \in Seq(Nat)
  PROVE  Owned(q, h) \subseteq Owned(<< >>, h \o q)
<1> DEFINE c == h \o q
<1>1. /\ Len(q) \in Nat /\ Len(h) \in Nat /\ Len(c) = Len(h) + Len(q)
      /\ \A k \in 1 .. Len(h) : c[k] = h[k]
      /\ \A k \in 1 .. Len(q) : c[Len(h) + k] = q[k]
  OBVIOUS
<1> HIDE DEF c
<1>2. /\ \A k \in 1 .. Len(h) : k \in 1 .. Len(c)
      /\ \A k \in 1 .. Len(q) : Len(h) + k \in 1 .. Len(c)
  BY <1>1
<1>3. /\ \A k \in 1 .. Len(h) : h[k] \in Owned(<< >>, c)
      /\ \A k \in 1 .. Len(q) : q[k] \in Owned(<< >>, c)
  <2>1. \A k \in 1 .. Len(c) : c[k] \in Owned(<< >>, c)
    BY DEF Owned
  <2> QED
    BY <1>1, <1>2, <2>1
<1> QED
  BY <1>3 DEF Owned, c

LEMMA AllOwned ==
  ASSUME NEW n \in Nat
  PROVE  Owned([k \in 1 .. n |-> k - 1], << >>) = 0 .. n - 1
<1> DEFINE c == [k \in 1 .. n |-> k - 1]
<1>1. Len(c) = n /\ \A k \in 1 .. n : c[k] = k - 1
  OBVIOUS
<1> HIDE DEF c
<1>2. ASSUME NEW i \in 0 .. n - 1 PROVE i + 1 \in 1 .. Len(c) /\ c[i + 1] = i
  <2>1. i + 1 \in 1 .. n /\ (i + 1) - 1 = i
    OBVIOUS
  <2> QED
    BY <1>1, <2>1
<1>3. \A k \in 1 .. Len(c) : c[k] \in 0 .. n - 1
  BY <1>1
<1>4. \A x : x \in Owned(c, << >>) <=> \E k \in 1 .. Len(c) : x = c[k]
  BY DEF Owned
<1>5. \A i \in 0 .. n - 1 : i \in Owned(c, << >>)
  <2> SUFFICES ASSUME NEW i \in 0 .. n - 1 PROVE i \in Owned(c, << >>)
    OBVIOUS
  <2>1. i + 1 \in 1 .. Len(c) /\ c[i + 1] = i
    BY <1>2
  <2> QED
    BY <1>4, <2>1
<1>6. \A x \in Owned(c, << >>) : x \in 0 .. n - 1
  BY <1>3, <1>4
<1> HIDE DEF c
<1>7. Owned(c, << >>) = 0 .. n - 1
  BY <1>5, <1>6
<1> QED
  BY <1>7 DEF c

=============================================================================
