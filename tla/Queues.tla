--------------------------------- MODULE Queues ---------------------------------
(***************************************************************************)
(* What the proofs need to know of the queues of loops (IoLoop::post, run  *)
(* in the order of posting): which handlers one holds, and that it holds   *)
(* one of a kind at most, when a handler is appended or taken.             *)
(***************************************************************************)
EXTENDS Naturals, Sequences, TLAPS

\* An entry of q is one of S, and one at most is.
Has(q, S) == \E i \in 1..Len(q) : q[i] \in S
Once(q, S) == \A i, j \in 1..Len(q) : q[i] \in S /\ q[j] \in S => i = j

\* An entry is queued.
LEMMA AppendQueue ==
  ASSUME NEW T, NEW q \in Seq(T), NEW e \in T
  PROVE  /\ Append(q, e) \in Seq(T)
         /\ \A S : Has(Append(q, e), S) <=> Has(q, S) \/ e \in S
         /\ \A S : Once(q, S) /\ ~(e \in S /\ Has(q, S)) => Once(Append(q, e), S)
<1> DEFINE r == Append(q, e)
           n == Len(q)
<1>1. /\ r \in Seq(T) /\ n \in Nat /\ Len(r) = n + 1 /\ r[n + 1] = e
      /\ \A i \in 1..n : i \in 1..(n + 1) /\ r[i] = q[i]
      /\ \A i \in 1..(n + 1) : i \in 1..n \/ i = n + 1
  OBVIOUS
<1> HIDE DEF r, n
<1>2. ASSUME NEW S PROVE Has(r, S) <=> Has(q, S) \/ e \in S
  BY <1>1 DEF Has, n
<1>3. ASSUME NEW S, Once(q, S), ~(e \in S /\ Has(q, S)) PROVE Once(r, S)
  <2> SUFFICES ASSUME NEW i \in 1..(n + 1), NEW j \in 1..(n + 1), r[i] \in S, r[j] \in S
               PROVE  i = j
    BY <1>1 DEF Once
  <2>1. CASE i \in 1..n /\ j \in 1..n
    BY <1>1, <1>3, <2>1 DEF Once, n
  <2>2. CASE i \in 1..n /\ j = n + 1
    BY <1>1, <1>3, <2>2 DEF Has, n
  <2>3. CASE i = n + 1 /\ j \in 1..n
    BY <1>1, <1>3, <2>3 DEF Has, n
  <2>4. QED
    BY <1>1, <2>1, <2>2, <2>3
<1>4. QED
  BY <1>1, <1>2, <1>3 DEF r

\* The entry at the head is taken.
LEMMA TailQueue ==
  ASSUME NEW T, NEW q \in Seq(T), q # <<>>
  PROVE  /\ Tail(q) \in Seq(T) /\ Head(q) \in T
         /\ \A S : Has(q, S) <=> Has(Tail(q), S) \/ Head(q) \in S
         /\ \A S : Once(q, S) => Once(Tail(q), S) /\ ~(Head(q) \in S /\ Has(Tail(q), S))
<1> DEFINE r == Tail(q)
           n == Len(q)
<1>1. /\ r \in Seq(T) /\ n \in Nat \ {0} /\ Len(r) = n - 1 /\ Head(q) = q[1] /\ q[1] \in T
      /\ \A i \in 1..(n - 1) : i + 1 \in 2..n /\ r[i] = q[i + 1]
  OBVIOUS
<1> HIDE DEF r, n
<1>2. /\ 1 \in 1..n /\ \A i \in 1..n : i = 1 \/ i - 1 \in 1..(n - 1)
      /\ \A i \in 1..(n - 1) : i + 1 \in 1..n /\ i + 1 # 1
      /\ \A i \in 1..n : (i - 1) + 1 = i
  BY <1>1
<1>3. ASSUME NEW S, Has(r, S) PROVE Has(q, S)
  BY <1>1, <1>2, <1>3 DEF Has, n
<1>4. ASSUME NEW S, Has(q, S) PROVE Has(r, S) \/ q[1] \in S
  <2>1. PICK i \in 1..n : q[i] \in S
    BY <1>4 DEF Has, n
  <2>2. CASE i # 1
    <3>1. i - 1 \in 1..(n - 1) /\ r[i - 1] = q[i]
      BY <1>1, <1>2, <2>2
    <3>2. QED
      BY <1>1, <2>1, <3>1 DEF Has
  <2>3. QED
    BY <2>1, <2>2
<1>5. ASSUME NEW S, q[1] \in S PROVE Has(q, S)
  BY <1>2, <1>5 DEF Has, n
<1>6. ASSUME NEW S, Once(q, S) PROVE Once(r, S) /\ ~(q[1] \in S /\ Has(r, S))
  <2>1. ASSUME NEW i \in 1..(n - 1), NEW j \in 1..(n - 1), r[i] \in S, r[j] \in S PROVE i = j
    <3>1. r[i] = q[i + 1] /\ r[j] = q[j + 1] /\ i + 1 \in 1..n /\ j + 1 \in 1..n
      BY <1>1, <1>2
    <3>2. i + 1 = j + 1
      BY <1>6, <2>1, <3>1 DEF Once, n
    <3>3. QED
      BY <3>2
  <2>2. ASSUME NEW i \in 1..(n - 1), r[i] \in S, q[1] \in S PROVE FALSE
    <3>1. r[i] = q[i + 1] /\ i + 1 \in 1..n /\ 1 \in 1..n /\ i + 1 # 1
      BY <1>1, <1>2
    <3>2. QED
      BY <1>6, <2>2, <3>1 DEF Once, n
  <2>3. QED
    BY <1>1, <2>1, <2>2 DEF Once, Has
<1>7. QED
  BY <1>1, <1>3, <1>4, <1>5, <1>6 DEF r

=================================================================================
