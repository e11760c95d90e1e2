------------------------------ MODULE SeqFacts ------------------------------
(***************************************************************************)
(* Facts about the sequences that stand for the kernel's thread queues:    *)
(* which elements a queue has after each list operation, and that no       *)
(* element is in it twice.                                                 *)
(***************************************************************************)
EXTENDS ThreadQueue, SequenceTheorems, TLAPS

\* list_push_back of an element that is not queued.
LEMMA PushBackFacts ==
    ASSUME NEW S, NEW q \in Seq(S), NEW x \in S
    PROVE  /\ Append(q, x) \in Seq(S)
           /\ Append(q, x) # <<>>
           /\ Range(Append(q, x)) = Range(q) \cup {x}
           /\ IsInjective(q) /\ x \notin Range(q) => IsInjective(Append(q, x))
<1> DEFINE a == Append(q, x)
<1>1. a \in Seq(S) /\ Len(a) = Len(q) + 1 /\ a[Len(q) + 1] = x /\ DOMAIN a = 1..(Len(q) + 1)
  OBVIOUS
<1>2. \A i \in 1..Len(q) : a[i] = q[i]
  OBVIOUS
<1>3. DOMAIN q = 1..Len(q) /\ Len(q) \in Nat
  OBVIOUS
<1> HIDE DEF a
<1>4. Range(a) = Range(q) \cup {x}
  BY <1>1, <1>2, <1>3 DEF Range
<1>5. IsInjective(q) /\ x \notin Range(q) => IsInjective(a)
  BY <1>1, <1>2, <1>3 DEF Range, IsInjective
<1>6. a # <<>>
  BY <1>1, <1>3
<1> QED
  BY <1>1, <1>4, <1>5, <1>6 DEF a

\* list_pop_front of a queue that is not empty.
LEMMA PopFrontFacts ==
    ASSUME NEW S, NEW q \in Seq(S), q # <<>>
    PROVE  /\ Head(q) \in S
           /\ Head(q) \in Range(q)
           /\ Tail(q) \in Seq(S)
           /\ IsInjective(q) => IsInjective(Tail(q)) /\ Range(Tail(q)) = Range(q) \ {Head(q)}
<1> DEFINE r == Tail(q)
<1>1. /\ Len(q) \in Nat /\ Len(q) > 0 /\ DOMAIN q = 1..Len(q)
      /\ Head(q) = q[1] /\ q[1] \in S
  OBVIOUS
<1>2. /\ r \in Seq(S) /\ Len(r) = Len(q) - 1 /\ DOMAIN r = 1..(Len(q) - 1)
      /\ \A i \in 1..(Len(q) - 1) : r[i] = q[i + 1]
  BY <1>1
<1> HIDE DEF r
<1>3. Head(q) \in Range(q)
  BY <1>1 DEF Range
<1>4. ASSUME IsInjective(q) PROVE IsInjective(r)
  <2> SUFFICES ASSUME NEW i \in 1..(Len(q) - 1), NEW j \in 1..(Len(q) - 1), r[i] = r[j]
               PROVE  i = j
    BY <1>2 DEF IsInjective
  <2>1. i + 1 \in DOMAIN q /\ j + 1 \in DOMAIN q /\ q[i + 1] = q[j + 1]
    BY <1>1, <1>2
  <2>2. i + 1 = j + 1
    BY <2>1, <1>4 DEF IsInjective
  <2> QED
    BY <2>2
<1>5. ASSUME IsInjective(q) PROVE Range(r) = Range(q) \ {q[1]}
  <2>1. \A i \in 1..Len(q) : i # 1 => i - 1 \in 1..(Len(q) - 1) /\ r[i - 1] = q[i]
    BY <1>1, <1>2
  <2>2. \A i \in 1..(Len(q) - 1) : r[i] \in Range(q) /\ r[i] # q[1]
    BY <1>1, <1>2, <1>5 DEF Range, IsInjective
  <2>3. ASSUME NEW x \in Range(q), x # q[1] PROVE x \in Range(r)
    <3>1. PICK i \in 1..Len(q) : x = q[i]
      BY <1>1 DEF Range
    <3>2. i # 1
      BY <3>1, <2>3
    <3>3. i - 1 \in DOMAIN r /\ r[i - 1] = x
      BY <3>1, <3>2, <2>1, <1>2
    <3> QED
      BY <3>3 DEF Range
  <2>4. ASSUME NEW x \in Range(r) PROVE x \in Range(q) \ {q[1]}
    BY <1>2, <2>2 DEF Range
  <2> QED
    BY <2>3, <2>4
<1> QED
  BY <1>1, <1>2, <1>3, <1>4, <1>5 DEF r
\* Two queues without a common element, one behind the other.
LEMMA ConcatFacts ==
    ASSUME NEW S, NEW p \in Seq(S), NEW q \in Seq(S)
    PROVE  /\ p \o q \in Seq(S)
           /\ Range(p \o q) = Range(p) \cup Range(q)
           /\ IsInjective(p) /\ IsInjective(q) /\ Range(p) \cap Range(q) = {}
                 => IsInjective(p \o q)
<1> DEFINE c == p \o q
           m == Len(p)
           n == Len(q)
<1>1. m \in Nat /\ n \in Nat /\ DOMAIN p = 1..m /\ DOMAIN q = 1..n
  OBVIOUS
<1>2. c \in Seq(S) /\ DOMAIN c = 1..(m + n)
  OBVIOUS
<1>3. \A i \in 1..m : c[i] = p[i]
  OBVIOUS
<1>4. \A i \in 1..n : c[m + i] = q[i]
  OBVIOUS
<1> HIDE DEF c, m, n
<1>5. \A i \in 1..(m + n) : i \in 1..m \/ (i - m \in 1..n /\ c[i] = q[i - m])
  <2> TAKE i \in 1..(m + n)
  <2>1. CASE i <= m
    BY <1>1, <2>1
  <2>2. CASE i > m
    <3>1. i - m \in 1..n /\ m + (i - m) = i
      BY <1>1, <2>2
    <3> QED
      BY <3>1, <1>4
  <2> QED
    BY <1>1, <2>1, <2>2
<1>6. Range(c) = Range(p) \cup Range(q)
  <2>1. \A x \in Range(p) : x \in Range(c)
    BY <1>1, <1>2, <1>3 DEF Range
  <2>2. \A x \in Range(q) : x \in Range(c)
    <3> TAKE x \in Range(q)
    <3>1. PICK i \in 1..n : q[i] = x
      BY <1>1 DEF Range
    <3>2. m + i \in 1..(m + n) /\ c[m + i] = x
      BY <1>1, <1>4, <3>1
    <3> QED
      BY <3>2, <1>2 DEF Range
  <2>3. \A x \in Range(c) : x \in Range(p) \cup Range(q)
    BY <1>1, <1>2, <1>3, <1>5 DEF Range
  <2> QED
    BY <2>1, <2>2, <2>3
<1>7. ASSUME IsInjective(p), IsInjective(q), Range(p) \cap Range(q) = {}
      PROVE  IsInjective(c)
  <2> SUFFICES ASSUME NEW i \in 1..(m + n), NEW j \in 1..(m + n), c[i] = c[j]
               PROVE  i = j
    BY <1>2 DEF IsInjective
  <2>1. CASE i \in 1..m /\ j \in 1..m
    BY <1>1, <1>3, <1>7, <2>1 DEF IsInjective
  <2>2. CASE i \in 1..m /\ j \notin 1..m
    <3>1. c[i] \in Range(p) /\ c[j] \in Range(q)
      BY <1>1, <1>3, <1>5, <2>2 DEF Range
    <3> QED
      BY <3>1, <1>7
  <2>3. CASE i \notin 1..m /\ j \in 1..m
    <3>1. c[i] \in Range(q) /\ c[j] \in Range(p)
      BY <1>1, <1>3, <1>5, <2>3 DEF Range
    <3> QED
      BY <3>1, <1>7
  <2>4. CASE i \notin 1..m /\ j \notin 1..m
    <3>1. i - m \in DOMAIN q /\ j - m \in DOMAIN q /\ q[i - m] = q[j - m]
      BY <1>1, <1>5, <2>4
    <3>2. i - m = j - m
      BY <3>1, <1>7 DEF IsInjective
    <3> QED
      BY <1>1, <3>2
  <2> QED
    BY <2>1, <2>2, <2>3, <2>4
<1> QED
  BY <1>2, <1>6, <1>7 DEF c

\* A queue cut after its first n elements.
LEMMA CutFacts ==
    ASSUME NEW S, NEW q \in Seq(S), NEW n \in 0..Len(q)
    PROVE  LET a == SubSeq(q, 1, n)
               b == SubSeq(q, n + 1, Len(q))
           IN  /\ a \in Seq(S) /\ Len(a) = n /\ \A i \in 1..n : a[i] = q[i]
               /\ b \in Seq(S) /\ Len(b) = Len(q) - n
               /\ \A i \in 1..(Len(q) - n) : b[i] = q[n + i]
               /\ Range(q) = Range(a) \cup Range(b)
               /\ Range(a) = {q[i] : i \in 1..n}
               /\ IsInjective(q) => /\ IsInjective(a) /\ IsInjective(b)
                                   /\ Range(a) \cap Range(b) = {}
<1> DEFINE a == SubSeq(q, 1, n)
           b == SubSeq(q, n + 1, Len(q))
           m == Len(q)
<1>1. m \in Nat /\ n \in Nat /\ n <= m /\ DOMAIN q = 1..m /\ \A i \in 1..m : q[i] \in S
  OBVIOUS
<1>2. a \in Seq(S) /\ Len(a) = n /\ DOMAIN a = 1..n /\ \A i \in 1..n : a[i] = q[i]
  BY <1>1
<1>3. /\ b \in Seq(S) /\ Len(b) = m - n /\ DOMAIN b = 1..(m - n)
      /\ \A i \in 1..(m - n) : b[i] = q[n + i]
  <2>1. \A i \in (n + 1)..m : q[i] \in S
    BY <1>1
  <2>2. b \in Seq(S)
    BY <1>1, <2>1
  <2>3. Len(b) = m - n
    <3>1. Len(b) = IF n + 1 <= m THEN m - (n + 1) + 1 ELSE 0
      BY <1>1, <2>1, SubSeqProperties
    <3> HIDE DEF b, m
    <3> QED
      BY <1>1, <3>1
  <2>4. \A i \in 1..(m - n) : b[i] = q[n + i]
    BY <1>1
  <2>5. DOMAIN b = 1..(m - n)
    BY <2>2, <2>3
  <2> HIDE DEF b
  <2> QED
    BY <2>2, <2>3, <2>4, <2>5
<1> HIDE DEF a, b, m
<1>4. Range(a) = {q[i] : i \in 1..n}
  BY <1>2 DEF Range
<1>5. Range(b) = {q[n + i] : i \in 1..(m - n)}
  BY <1>3 DEF Range
<1>6. Range(q) = Range(a) \cup Range(b)
  <2>1. ASSUME NEW x \in Range(q) PROVE x \in Range(a) \cup Range(b)
    <3>1. PICK i \in 1..m : q[i] = x
      BY <1>1 DEF Range
    <3>2. CASE i <= n
      BY <1>1, <1>4, <3>1, <3>2
    <3>3. CASE i > n
      <4>1. i - n \in 1..(m - n) /\ n + (i - n) = i
        BY <1>1, <3>3
      <4> QED
        BY <1>5, <3>1, <4>1
    <3> QED
      BY <1>1, <3>2, <3>3
  <2>2. \A i \in 1..n : i \in 1..m
    BY <1>1
  <2>3. \A i \in 1..(m - n) : n + i \in 1..m
    BY <1>1
  <2>4. ASSUME NEW x \in Range(a) \cup Range(b) PROVE x \in Range(q)
    BY <1>1, <1>4, <1>5, <2>2, <2>3 DEF Range
  <2> QED
    BY <2>1, <2>4
<1>7. ASSUME IsInjective(q) PROVE IsInjective(a)
  BY <1>1, <1>2, <1>7 DEF IsInjective
<1>8. ASSUME IsInjective(q) PROVE IsInjective(b)
  <2> SUFFICES ASSUME NEW i \in 1..(m - n), NEW j \in 1..(m - n), b[i] = b[j]
               PROVE  i = j
    BY <1>3 DEF IsInjective
  <2>1. n + i \in DOMAIN q /\ n + j \in DOMAIN q /\ q[n + i] = q[n + j]
    BY <1>1, <1>3
  <2>2. n + i = n + j
    BY <2>1, <1>8 DEF IsInjective
  <2> QED
    BY <1>1, <2>2
<1>9. ASSUME IsInjective(q) PROVE Range(a) \cap Range(b) = {}
  <2> SUFFICES ASSUME NEW i \in 1..n, NEW j \in 1..(m - n), q[i] = q[n + j]
               PROVE  FALSE
    BY <1>4, <1>5
  <2>1. i \in DOMAIN q /\ n + j \in DOMAIN q /\ i # n + j
    BY <1>1
  <2> QED
    BY <2>1, <1>9 DEF IsInjective
<1> QED
  BY <1>2, <1>3, <1>4, <1>6, <1>7, <1>8, <1>9 DEF a, b, m

\* list_sorted_push: x inserted behind the first k elements.
LEMMA InsertFacts ==
    ASSUME NEW S, NEW q \in Seq(S), NEW k \in 0..Len(q), NEW x \in S
    PROVE  /\ InsertBehind(q, k, x) \in Seq(S)
           /\ Len(InsertBehind(q, k, x)) = Len(q) + 1
           /\ \A i \in 1..k : InsertBehind(q, k, x)[i] = q[i]
           /\ InsertBehind(q, k, x)[k + 1] = x
           /\ \A i \in (k + 2)..(Len(q) + 1) : InsertBehind(q, k, x)[i] = q[i - 1]
           /\ Range(InsertBehind(q, k, x)) = Range(q) \cup {x}
           /\ IsInjective(q) /\ x \notin Range(q) => IsInjective(InsertBehind(q, k, x))
<1> DEFINE a == SubSeq(q, 1, k)
           b == SubSeq(q, k + 1, Len(q))
           e == <<x>>
           r == (a \o e) \o b
<1>1. /\ a \in Seq(S) /\ Len(a) = k /\ \A i \in 1..k : a[i] = q[i]
      /\ b \in Seq(S) /\ Len(b) = Len(q) - k
      /\ \A i \in 1..(Len(q) - k) : b[i] = q[k + i]
      /\ Range(q) = Range(a) \cup Range(b)
      /\ IsInjective(q) => IsInjective(a) /\ IsInjective(b) /\ Range(a) \cap Range(b) = {}
  BY CutFacts
<1>2. e \in Seq(S) /\ Len(e) = 1 /\ e[1] = x /\ DOMAIN e = {1}
  OBVIOUS
<1>3. Len(q) \in Nat /\ k \in Nat /\ k <= Len(q)
  OBVIOUS
<1> HIDE DEF a, b, e
<1>4. Range(e) = {x} /\ IsInjective(e)
  BY <1>2 DEF Range, IsInjective
<1>5. /\ a \o e \in Seq(S) /\ Range(a \o e) = Range(a) \cup {x}
      /\ IsInjective(a) /\ x \notin Range(a) => IsInjective(a \o e)
  BY <1>1, <1>2, <1>4, ConcatFacts
<1>6. /\ r \in Seq(S) /\ Range(r) = Range(q) \cup {x}
      /\ IsInjective(q) /\ x \notin Range(q) => IsInjective(r)
  <2> DEFINE c == a \o e
  <2> HIDE DEF c
  <2>1. /\ c \in Seq(S) /\ Range(c) = Range(a) \cup {x}
        /\ IsInjective(a) /\ x \notin Range(a) => IsInjective(c)
    BY <1>5 DEF c
  <2>2. /\ c \o b \in Seq(S) /\ Range(c \o b) = Range(c) \cup Range(b)
        /\ IsInjective(c) /\ IsInjective(b) /\ Range(c) \cap Range(b) = {}
              => IsInjective(c \o b)
    BY <1>1, <2>1, ConcatFacts
  <2>3. ASSUME IsInjective(q), x \notin Range(q) PROVE IsInjective(c \o b)
    BY <1>1, <2>1, <2>2, <2>3
  <2>4. Range(c \o b) = Range(q) \cup {x}
    BY <1>1, <2>1, <2>2
  <2> QED
    BY <2>2, <2>3, <2>4 DEF c
<1>7. Len(a \o e) = k + 1 /\ Len(r) = Len(q) + 1
  <2>1. Len(a \o e) = Len(a) + Len(e)
    <3>1. a \in Seq(S) /\ e \in Seq(S)
      BY <1>1, <1>2
    <3> QED
      BY <3>1, ConcatProperties, Zenon
  <2>2. Len(r) = Len(a \o e) + Len(b)
    BY <1>1, <1>5, ConcatProperties
  <2> HIDE DEF r
  <2> QED
    BY <1>1, <1>2, <1>3, <2>1, <2>2
<1>8. ASSUME NEW i \in 1..(Len(q) + 1)
      PROVE  r[i] = IF i <= k THEN q[i] ELSE IF i = k + 1 THEN x ELSE q[i - 1]
  <2>1. CASE i <= k
    <3>1. i \in 1..Len(a) /\ i \in 1..Len(a \o e)
      BY <1>1, <1>3, <1>7, <2>1
    <3>2. r[i] = (a \o e)[i] /\ (a \o e)[i] = a[i]
      BY <1>1, <1>2, <1>5, <3>1
    <3> QED
      BY <1>1, <3>1, <3>2, <2>1
  <2>2. CASE i = k + 1
    <3>1. i \in 1..Len(a \o e) /\ i - Len(a) = 1 /\ i > Len(a)
      BY <1>1, <1>3, <1>7, <2>2
    <3>2. r[i] = (a \o e)[i]
      BY <1>1, <1>5, <3>1
    <3>3. (a \o e)[i] = e[1]
      BY <1>1, <1>2, <1>3, <3>1
    <3> QED
      BY <1>2, <1>3, <2>2, <3>2, <3>3
  <2>3. CASE i > k + 1
    <3>1. i - (k + 1) \in 1..(Len(q) - k) /\ k + (i - (k + 1)) = i - 1
      BY <1>3, <2>3
    <3>2. r[i] = b[i - (k + 1)]
      BY <1>1, <1>3, <1>5, <1>7, <2>3, <3>1
    <3>3. b[i - (k + 1)] = q[k + (i - (k + 1))]
      BY <1>1, <3>1, Zenon
    <3> QED
      BY <1>3, <2>3, <3>1, <3>2, <3>3
  <2> HIDE DEF r
  <2> QED
    BY <1>3, <2>1, <2>2, <2>3
<1>9. InsertBehind(q, k, x) = r
  BY DEF a, b, e, InsertBehind
<1> HIDE DEF r
<1>10. /\ \A i \in 1..k : r[i] = q[i]
       /\ r[k + 1] = x
       /\ \A i \in (k + 2)..(Len(q) + 1) : r[i] = q[i - 1]
  BY <1>3, <1>8
<1> QED
  BY ONLY <1>6, <1>7, <1>9, <1>10
=============================================================================
