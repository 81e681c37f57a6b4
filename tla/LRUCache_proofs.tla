-------------------------- MODULE LRUCache_proofs ---------------------------
(***************************************************************************)
(* The list and the cache of hw04. First each list operation, on a list of *)
(* the items s, yields the list of the sequence a reader expects, for      *)
(* every sequence: the representation is preserved pointer by pointer.     *)
(* Then the cache, for any set of goroutines, keys and values and any      *)
(* capacity: list and map stay in step, and each call has the result of    *)
(* LRUSpec at one instant of the call.                                     *)
(***************************************************************************)
EXTENDS LRUCache, LinkedList, SequenceTheorems, FiniteSetTheorems, TLAPS

LEMMA EmptyRepresents ==
  ASSUME NEW l, l.length = 0, l.front = Nil, l.back = Nil
  PROVE  Represents(l, <<>>)
<1>1. Len(<<>>) = 0 /\ 1..Len(<<>>) = {}
  OBVIOUS
<1>2. QED  BY <1>1 DEF Represents, Distinct

LEMMA PushFrontRepresents ==
  ASSUME NilAssumption, NEW l \in List, NEW s \in Seq(Item), Represents(l, s),
         NEW i \in Item, \A k \in 1..Len(s) : s[k] # i
  PROVE  /\ PushFront(l, i) \in List
         /\ <<i>> \o s \in Seq(Item)
         /\ Represents(PushFront(l, i), <<i>> \o s)
<1> DEFINE p == PushFront(l, i)  t == <<i>> \o s
<1> USE DEF Represents, Distinct
<1>1. /\ t \in Seq(Item) /\ Len(t) = Len(s) + 1 /\ t # <<>>
      /\ t[1] = i /\ \A k \in 2..Len(t) : t[k] = s[k - 1]
  OBVIOUS
<1>2. p \in List
  BY DEF PushFront, List, Heap, Pointer
<1>3. Distinct(t)
  <2> SUFFICES ASSUME NEW j \in 1..Len(t), NEW k \in 1..Len(t), t[j] = t[k]
               PROVE  j = k
    OBVIOUS
  <2>1. CASE j = 1 \/ k = 1
    BY <1>1, <2>1
  <2>2. CASE j # 1 /\ k # 1
    <3>1. j - 1 \in 1..Len(s) /\ k - 1 \in 1..Len(s) /\ s[j - 1] = s[k - 1]
      BY <1>1, <2>2
    <3>2. QED  BY <3>1
  <2>3. QED  BY <2>1, <2>2
<1>4. /\ p.length = Len(t) /\ p.front = t[1] /\ p.back = t[Len(t)]
  BY <1>1 DEF PushFront
<1>5. s # <<>> => l.front = s[1] /\ s[1] # i /\ l.length # 0
  OBVIOUS
<1>6. ASSUME NEW k \in 1..Len(t)
      PROVE  /\ p.next[t[k]] = IF k = Len(t) THEN Nil ELSE t[k + 1]
             /\ p.prev[t[k]] = IF k = 1 THEN Nil ELSE t[k - 1]
  <2>1. CASE k = 1
    BY <1>1, <1>5, <2>1 DEF PushFront, List, Heap, Pointer
  <2>2. CASE k = 2
    BY <1>1, <1>5, <2>2 DEF PushFront, List, Heap, Pointer
  <2>3. CASE k > 2
    BY <1>1, <1>5, <2>3 DEF PushFront, List, Heap, Pointer
  <2>4. QED  BY <2>1, <2>2, <2>3
<1> HIDE DEF p, t
<1>7. QED  BY <1>1, <1>2, <1>3, <1>4, <1>6 DEF p, t

LEMMA PushBackRepresents ==
  ASSUME NilAssumption, NEW l \in List, NEW s \in Seq(Item), Represents(l, s),
         NEW i \in Item, \A k \in 1..Len(s) : s[k] # i
  PROVE  /\ PushBack(l, i) \in List
         /\ Append(s, i) \in Seq(Item)
         /\ Represents(PushBack(l, i), Append(s, i))
<1> DEFINE p == PushBack(l, i)  t == Append(s, i)
<1> USE DEF Represents, Distinct
<1>1. /\ t \in Seq(Item) /\ Len(t) = Len(s) + 1 /\ t # <<>>
      /\ t[Len(t)] = i /\ \A k \in 1..Len(s) : t[k] = s[k]
  BY AppendProperties
<1>2. p \in List
  BY DEF PushBack, List, Heap, Pointer
<1>3. Distinct(t)
  BY <1>1
<1>4. p.length = Len(t) /\ p.front = t[1] /\ p.back = t[Len(t)]
  BY <1>1 DEF PushBack
<1>5. s # <<>> => l.back = s[Len(s)] /\ s[Len(s)] # i /\ l.length # 0
  OBVIOUS
<1>6. ASSUME NEW k \in 1..Len(t)
      PROVE  /\ p.next[t[k]] = IF k = Len(t) THEN Nil ELSE t[k + 1]
             /\ p.prev[t[k]] = IF k = 1 THEN Nil ELSE t[k - 1]
  <2>1. CASE k = Len(t)
    BY <1>1, <1>5, <2>1 DEF PushBack, List, Heap, Pointer
  <2>2. CASE k = Len(s)
    BY <1>1, <1>5, <2>2 DEF PushBack, List, Heap, Pointer
  <2>3. CASE k < Len(s)
    BY <1>1, <1>5, <2>3 DEF PushBack, List, Heap, Pointer
  <2>4. QED  BY <1>1, <2>1, <2>2, <2>3
<1> HIDE DEF p, t
<1>7. QED  BY <1>1, <1>2, <1>3, <1>4, <1>6 DEF p, t

\* What is left of a sequence when its k-th element is taken out.
LEMMA RemoveAtElements ==
  ASSUME NEW A, NEW s \in Seq(A), NEW k \in 1..Len(s)
  PROVE  /\ SX!RemoveAt(s, k) \in Seq(A)
         /\ Len(SX!RemoveAt(s, k)) = Len(s) - 1
         /\ \A j \in 1..(Len(s) - 1) :
              SX!RemoveAt(s, k)[j] = IF j < k THEN s[j] ELSE s[j + 1]
<1> DEFINE a == SubSeq(s, 1, k - 1)  b == SubSeq(s, k + 1, Len(s))
<1>1. /\ a \in Seq(A) /\ Len(a) = k - 1 /\ \A j \in 1..(k - 1) : a[j] = s[j]
  BY SubSeqProperties
<1>2. /\ b \in Seq(A) /\ Len(b) = Len(s) - k
      /\ \A j \in 1..(Len(s) - k) : b[j] = s[k + j]
  BY SubSeqProperties
<1> DEFINE c == a \o b
<1>0. Len(s) \in Nat /\ k \in Nat
  BY LenProperties
<1> HIDE DEF a, b
<1>3. /\ c \in Seq(A) /\ Len(c) = Len(a) + Len(b)
      /\ \A j \in 1..(Len(a) + Len(b)) : c[j] = IF j <= Len(a) THEN a[j] ELSE b[j - Len(a)]
  <2>1. a \in Seq(A) /\ b \in Seq(A)
    BY <1>1, <1>2
  <2>2. QED  BY <2>1, ConcatProperties, Zenon
<1> HIDE DEF c
<1>4. Len(c) = Len(s) - 1
  BY <1>0, <1>1, <1>2, <1>3
<1>5. ASSUME NEW j \in 1..(Len(s) - 1)
      PROVE  c[j] = IF j < k THEN s[j] ELSE s[j + 1]
  <2>1. j \in Nat /\ c[j] = IF j <= k - 1 THEN a[j] ELSE b[j - (k - 1)]
    BY <1>0, <1>1, <1>2, <1>3
  <2>2. CASE j < k
    BY <1>0, <1>1, <2>1, <2>2
  <2>3. CASE ~(j < k)
    <3>1. j - (k - 1) \in 1..(Len(s) - k) /\ ~(j <= k - 1)
      BY <1>0, <2>3
    <3>2. c[j] = s[k + (j - (k - 1))]
      BY <1>2, <2>1, <3>1
    <3>3. k + (j - (k - 1)) = j + 1
      BY <1>0, <2>1
    <3>4. QED  BY <2>3, <3>2, <3>3
  <2>4. QED  BY <2>2, <2>3
<1>6. SX!RemoveAt(s, k) = c
  BY DEF SX!RemoveAt, a, b, c
<1>7. QED  BY <1>3, <1>4, <1>5, <1>6

\* Where an item of the list sits tells what its fields and both ends hold.
LEMMA ItemFacts ==
  ASSUME NilAssumption, NEW l \in List, NEW s \in Seq(Item), Represents(l, s),
         NEW k \in 1..Len(s)
  PROVE  /\ Len(s) \in Nat /\ k \in Nat /\ s[k] \in Item /\ s[k] # Nil
         /\ l.length = Len(s) /\ l.next \in [Item -> Pointer] /\ l.prev \in [Item -> Pointer]
         /\ l.front = s[1] /\ l.back = s[Len(s)] /\ s[1] \in Item /\ s[Len(s)] \in Item
         /\ l.front = s[k] <=> k = 1
         /\ l.back = s[k] <=> k = Len(s)
         /\ l.next[s[k]] = IF k = Len(s) THEN Nil ELSE s[k + 1]
         /\ l.prev[s[k]] = IF k = 1 THEN Nil ELSE s[k - 1]
         /\ \A j \in 1..Len(s) : s[j] \in Item
         /\ \A j, m \in 1..Len(s) : s[j] = s[m] => j = m
BY DEF Represents, Distinct, List, Heap

LEMMA RemoveRepresents ==
  ASSUME NilAssumption, NEW l \in List, NEW s \in Seq(Item), Represents(l, s),
         NEW k \in 1..Len(s)
  PROVE  /\ Remove(l, s[k]) \in List
         /\ SX!RemoveAt(s, k) \in Seq(Item)
         /\ Represents(Remove(l, s[k]), SX!RemoveAt(s, k))
<1> DEFINE p == Remove(l, s[k])  t == SX!RemoveAt(s, k)  n == Len(s)
<1>1. /\ t \in Seq(Item) /\ Len(t) = n - 1
      /\ \A j \in 1..(n - 1) : t[j] = IF j < k THEN s[j] ELSE s[j + 1]
  BY RemoveAtElements
<1> HIDE DEF t
<1>2. n \in Nat /\ k \in 1..n /\ n # 0
  BY ItemFacts
<1>3. /\ p.length = n - 1
      /\ p.front = IF k = 1 THEN (IF k = n THEN Nil ELSE s[2]) ELSE s[1]
      /\ p.back = IF k = n THEN (IF k = 1 THEN Nil ELSE s[n - 1]) ELSE s[n]
      /\ p.next = IF k = 1 THEN l.next
                  ELSE [l.next EXCEPT ![s[k - 1]] = IF k = n THEN Nil ELSE s[k + 1]]
      /\ p.prev = IF k = n THEN l.prev
                  ELSE [l.prev EXCEPT ![s[k + 1]] = IF k = 1 THEN Nil ELSE s[k - 1]]
  <2>1. p.length = n - 1
    BY ItemFacts DEF Remove
  <2>2. /\ p.front = IF k = 1 THEN (IF k = n THEN Nil ELSE s[2]) ELSE s[1]
        /\ p.back = IF k = n THEN (IF k = 1 THEN Nil ELSE s[n - 1]) ELSE s[n]
    BY <1>2, ItemFacts DEF Remove
  <2>3. p.next = IF k = 1 THEN l.next
                 ELSE [l.next EXCEPT ![s[k - 1]] = IF k = n THEN Nil ELSE s[k + 1]]
    BY <1>2, ItemFacts DEF Remove
  <2>4. p.prev = IF k = n THEN l.prev
                 ELSE [l.prev EXCEPT ![s[k + 1]] = IF k = 1 THEN Nil ELSE s[k - 1]]
    BY <1>2, ItemFacts DEF Remove
  <2> HIDE DEF p
  <2>5. QED  BY <2>1, <2>2, <2>3, <2>4
<1>4. \A m \in 1..n : m # k =>
        /\ p.next[s[m]] = IF m = k - 1 THEN (IF k = n THEN Nil ELSE s[k + 1])
                          ELSE IF m = n THEN Nil ELSE s[m + 1]
        /\ p.prev[s[m]] = IF m = k + 1 THEN (IF k = 1 THEN Nil ELSE s[k - 1])
                          ELSE IF m = 1 THEN Nil ELSE s[m - 1]
  <2> TAKE m \in 1..n
  <2> HAVE m # k
  <2>1. p.next[s[m]] = IF m = k - 1 THEN (IF k = n THEN Nil ELSE s[k + 1])
                       ELSE IF m = n THEN Nil ELSE s[m + 1]
    BY <1>2, <1>3, ItemFacts
  <2>2. p.prev[s[m]] = IF m = k + 1 THEN (IF k = 1 THEN Nil ELSE s[k - 1])
                       ELSE IF m = 1 THEN Nil ELSE s[m - 1]
    BY <1>2, <1>3, ItemFacts
  <2>3. QED  BY <2>1, <2>2
<1>5. p \in List
  BY <1>2, ItemFacts DEF Remove, List, Heap, Pointer
<1> HIDE DEF p
<1>6. Distinct(t)
  <2> SUFFICES ASSUME NEW i \in 1..Len(t), NEW j \in 1..Len(t), t[i] = t[j]
               PROVE  i = j
    BY DEF Distinct
  <2> DEFINE a == IF i < k THEN i ELSE i + 1  b == IF j < k THEN j ELSE j + 1
  <2>1. a \in 1..n /\ b \in 1..n /\ s[a] = s[b]
    BY <1>1, <1>2
  <2>2. a = b
    BY <2>1, ItemFacts
  <2>3. QED  BY <1>1, <1>2, <2>2
<1>7. /\ p.length = Len(t)
      /\ p.front = IF t = <<>> THEN Nil ELSE t[1]
      /\ p.back = IF t = <<>> THEN Nil ELSE t[Len(t)]
  <2>1. t = <<>> <=> n = 1
    BY <1>1, <1>2, EmptySeq
  <2>2. CASE n = 1
    BY <1>1, <1>2, <1>3, <2>1, <2>2
  <2>3. CASE n # 1
    BY <1>1, <1>2, <1>3, <2>1, <2>3
  <2>4. QED  BY <2>2, <2>3
<1>8. ASSUME NEW j \in 1..Len(t)
      PROVE  /\ p.next[t[j]] = IF j = Len(t) THEN Nil ELSE t[j + 1]
             /\ p.prev[t[j]] = IF j = 1 THEN Nil ELSE t[j - 1]
  <2>1. j \in 1..(n - 1) /\ j \in Nat
    BY <1>1, <1>2
  <2>2. CASE j < k
    <3>1. j \in 1..n /\ j # k /\ t[j] = s[j]
      BY <1>1, <1>2, <2>1, <2>2
    <3>2. p.next[t[j]] = IF j = Len(t) THEN Nil ELSE t[j + 1]
      <4>1. p.next[s[j]] = IF j = k - 1 THEN (IF k = n THEN Nil ELSE s[k + 1])
                           ELSE IF j = n THEN Nil ELSE s[j + 1]
        BY <1>4, <3>1
      <4>2. j # n - 1 => t[j + 1] = IF j + 1 < k THEN s[j + 1] ELSE s[j + 2]
        BY <1>1, <2>1
      <4>3. QED  BY <1>1, <1>2, <2>1, <2>2, <3>1, <4>1, <4>2
    <3>3. p.prev[t[j]] = IF j = 1 THEN Nil ELSE t[j - 1]
      <4>1. p.prev[s[j]] = IF j = 1 THEN Nil ELSE s[j - 1]
        BY <1>2, <1>4, <2>2, <3>1
      <4>2. j # 1 => t[j - 1] = s[j - 1]
        BY <1>1, <1>2, <2>1, <2>2
      <4>3. QED  BY <3>1, <4>1, <4>2
    <3>4. QED  BY <3>2, <3>3
  <2>3. CASE ~(j < k)
    <3>1. j + 1 \in 1..n /\ j + 1 # k /\ t[j] = s[j + 1]
      BY <1>1, <1>2, <2>1, <2>3
    <3>2. p.next[t[j]] = IF j = Len(t) THEN Nil ELSE t[j + 1]
      <4>1. p.next[s[j + 1]] = IF j + 1 = n THEN Nil ELSE s[j + 1 + 1]
        BY <1>2, <1>4, <2>1, <2>3, <3>1
      <4>2. j # n - 1 => t[j + 1] = s[j + 1 + 1]
        BY <1>1, <1>2, <2>1, <2>3
      <4>3. QED  BY <1>1, <1>2, <2>1, <3>1, <4>1, <4>2
    <3>3. p.prev[t[j]] = IF j = 1 THEN Nil ELSE t[j - 1]
      <4>1. p.prev[s[j + 1]] = IF j + 1 = k + 1 THEN (IF k = 1 THEN Nil ELSE s[k - 1])
                               ELSE IF j + 1 = 1 THEN Nil ELSE s[j + 1 - 1]
        BY <1>4, <3>1
      <4>2. j # 1 => t[j - 1] = IF j - 1 < k THEN s[j - 1] ELSE s[j]
        BY <1>1, <1>2, <2>1
      <4>3. QED  BY <1>2, <2>1, <2>3, <3>1, <4>1, <4>2
    <3>4. QED  BY <3>2, <3>3
  <2>4. QED  BY <2>2, <2>3
<1>9. QED  BY <1>1, <1>5, <1>6, <1>7, <1>8 DEF Represents, p, t

LEMMA MovedElements ==
  ASSUME NEW A, NEW s \in Seq(A), NEW k \in 1..Len(s)
  PROVE  LET t == <<s[k]>> \o SX!RemoveAt(s, k)
         IN  /\ t \in Seq(A) /\ Len(t) = Len(s) /\ t # <<>>
             /\ t[1] = s[k]
             /\ \A j \in 2..Len(s) : t[j] = IF j <= k THEN s[j - 1] ELSE s[j]
<1> DEFINE r == SX!RemoveAt(s, k)  t == <<s[k]>> \o r
<1>1. /\ r \in Seq(A) /\ Len(r) = Len(s) - 1
      /\ \A j \in 1..(Len(s) - 1) : r[j] = IF j < k THEN s[j] ELSE s[j + 1]
  BY RemoveAtElements
<1>2. Len(s) \in Nat /\ k \in Nat /\ s[k] \in A
  BY LenProperties
<1> HIDE DEF r
<1>3. t \in Seq(A) /\ Len(t) = 1 + Len(r) /\ t[1] = s[k] /\ \A j \in 2..(1 + Len(r)) : t[j] = r[j - 1]
  BY <1>1, <1>2
<1> HIDE DEF t
<1>4. ASSUME NEW j \in 2..Len(s) PROVE t[j] = IF j <= k THEN s[j - 1] ELSE s[j]
  <2>1. j - 1 \in 1..(Len(s) - 1) /\ t[j] = r[j - 1]
    BY <1>1, <1>2, <1>3
  <2>2. r[j - 1] = IF j - 1 < k THEN s[j - 1] ELSE s[j - 1 + 1]
    BY <1>1, <2>1
  <2>3. QED  BY <1>2, <2>1, <2>2
<1>5. t # <<>> /\ Len(t) = Len(s)
  BY <1>1, <1>2, <1>3, EmptySeq
<1>6. QED  BY <1>3, <1>4, <1>5 DEF t, r

LEMMA MoveToFrontRepresents ==
  ASSUME NilAssumption, NEW l \in List, NEW s \in Seq(Item), Represents(l, s),
         NEW k \in 1..Len(s)
  PROVE  /\ MoveToFront(l, s[k]) \in List
         /\ <<s[k]>> \o SX!RemoveAt(s, k) \in Seq(Item)
         /\ Represents(MoveToFront(l, s[k]), <<s[k]>> \o SX!RemoveAt(s, k))
<1> DEFINE p == MoveToFront(l, s[k])  t == <<s[k]>> \o SX!RemoveAt(s, k)  n == Len(s)
<1>1. /\ t \in Seq(Item) /\ Len(t) = n /\ t # <<>> /\ t[1] = s[k]
      /\ \A j \in 2..n : t[j] = IF j <= k THEN s[j - 1] ELSE s[j]
  BY MovedElements
<1>2. n \in Nat /\ k \in 1..n /\ n # 0
  BY ItemFacts
<1> HIDE DEF t
<1>3. CASE k = 1
  <2>1. \A j \in 1..n : t[j] = s[j]
    BY <1>1, <1>2, <1>3
  <2>2. t = s
    BY <1>1, <2>1, SeqEqual
  <2>3. p = l
    BY <1>3, ItemFacts DEF MoveToFront
  <2>4. QED  BY <1>1, <2>2, <2>3 DEF t
<1>4. CASE k # 1
  <2>0. /\ l.length = n /\ l.front = s[1] /\ l.back = s[n]
        /\ s[k] # Nil /\ l.front # s[k] /\ (l.back = s[k] <=> k = n)
        /\ l.next[s[k]] = IF k = n THEN Nil ELSE s[k + 1]
        /\ l.prev[s[k]] = s[k - 1]
    BY <1>4, ItemFacts
  <2>1. /\ p.length = n /\ p.front = s[k]
        /\ p.back = IF k = n THEN s[n - 1] ELSE s[n]
    BY <2>0 DEF MoveToFront
  <2>2. p.next = [l.next EXCEPT ![s[k - 1]] = IF k = n THEN Nil ELSE s[k + 1],
                                ![s[k]] = s[1]]
    <3>1. p.next = [[l.next EXCEPT ![l.prev[s[k]]] = IF l.back = s[k] THEN Nil ELSE l.next[s[k]]]
                      EXCEPT ![s[k]] = l.front]
      BY <2>0 DEF MoveToFront
    <3> HIDE DEF p
    <3>2. QED  BY <2>0, <3>1
  <2>3. p.prev = [(IF k = n THEN l.prev ELSE [l.prev EXCEPT ![s[k + 1]] = s[k - 1]])
                    EXCEPT ![s[k]] = Nil, ![s[1]] = s[k]]
    <3>1. p.prev = [(IF l.back = s[k] THEN l.prev
                     ELSE [l.prev EXCEPT ![l.next[s[k]]] = l.prev[s[k]]])
                      EXCEPT ![s[k]] = Nil, ![l.front] = s[k]]
      BY <2>0 DEF MoveToFront
    <3> HIDE DEF p
    <3>2. QED  BY <2>0, <3>1
  <2>4. p \in List
    <3>1. p = [length |-> p.length, front |-> p.front, back |-> p.back,
               next |-> p.next, prev |-> p.prev]
      BY <2>0 DEF MoveToFront
    <3> HIDE DEF p
    <3>2. /\ s[1] \in Item /\ s[k] \in Item /\ (k # n => s[k + 1] \in Item)
          /\ s[k - 1] \in Item /\ s[n] \in Item /\ (k = n => s[n - 1] \in Item)
          /\ l.next \in [Item -> Pointer] /\ l.prev \in [Item -> Pointer]
      BY <1>2, <1>4, ItemFacts
    <3>3. p.next \in [Item -> Pointer]
      BY <2>2, <3>2 DEF Pointer
    <3>4. p.prev \in [Item -> Pointer]
      BY <2>3, <3>2 DEF Pointer
    <3>5. QED  BY <1>2, <2>1, <3>1, <3>2, <3>3, <3>4 DEF List, Heap, Pointer
  <2> HIDE DEF p
  <2>5. ASSUME NEW m \in 1..n
        PROVE  /\ p.next[s[m]] = IF m = k THEN s[1]
                                 ELSE IF m = k - 1 THEN (IF k = n THEN Nil ELSE s[k + 1])
                                 ELSE IF m = n THEN Nil ELSE s[m + 1]
               /\ p.prev[s[m]] = IF m = 1 THEN s[k] ELSE IF m = k THEN Nil
                                 ELSE IF m = k + 1 THEN s[k - 1] ELSE s[m - 1]
    <3>1. p.next[s[m]] = IF m = k THEN s[1]
                         ELSE IF m = k - 1 THEN (IF k = n THEN Nil ELSE s[k + 1])
                         ELSE IF m = n THEN Nil ELSE s[m + 1]
      BY <1>2, <1>4, <2>2, ItemFacts
    <3>2. p.prev[s[m]] = IF m = 1 THEN s[k] ELSE IF m = k THEN Nil
                         ELSE IF m = k + 1 THEN s[k - 1] ELSE s[m - 1]
      BY <1>2, <1>4, <2>3, ItemFacts
    <3>3. QED  BY <3>1, <3>2
  <2>6. Distinct(t)
    <3> SUFFICES ASSUME NEW i \in 1..n, NEW j \in 1..n, t[i] = t[j]
                 PROVE  i = j
      BY <1>1 DEF Distinct
    <3> DEFINE at(x) == IF x = 1 THEN k ELSE IF x <= k THEN x - 1 ELSE x
    <3>1. at(i) \in 1..n /\ at(j) \in 1..n /\ s[at(i)] = s[at(j)]
      BY <1>1, <1>2
    <3>2. at(i) = at(j)
      BY <3>1, ItemFacts
    <3>3. QED  BY <1>2, <3>2
  <2>7. p.back = t[n]
    BY <1>1, <1>2, <1>4, <2>1
  <2>8. ASSUME NEW j \in 1..n
        PROVE  /\ p.next[t[j]] = IF j = n THEN Nil ELSE t[j + 1]
               /\ p.prev[t[j]] = IF j = 1 THEN Nil ELSE t[j - 1]
    <3>1. CASE j = 1
      <4>1. t[2] = s[1] /\ n # 1
        BY <1>1, <1>2, <1>4
      <4>2. QED  BY <1>1, <1>2, <1>4, <2>5, <3>1, <4>1
    <3>2. CASE 2 <= j /\ j <= k
      <4>1. t[j] = s[j - 1] /\ j - 1 \in 1..n
        BY <1>1, <1>2, <3>2
      <4>2. j # n => t[j + 1] = IF j + 1 <= k THEN s[j] ELSE s[j + 1]
        BY <1>1, <1>2, <3>2
      <4>3. t[j - 1] = IF j = 2 THEN s[k] ELSE s[j - 2]
        BY <1>1, <1>2, <3>2
      <4>4. p.next[s[j - 1]] = IF j - 1 = k - 1 THEN (IF k = n THEN Nil ELSE s[k + 1])
                               ELSE s[j]
        BY <1>2, <2>5, <3>2, <4>1
      <4>5. p.prev[s[j - 1]] = IF j = 2 THEN s[k] ELSE s[j - 2]
        BY <1>2, <2>5, <3>2, <4>1
      <4>6. QED  BY <1>2, <3>2, <4>1, <4>2, <4>3, <4>4, <4>5
    <3>3. CASE j > k
      <4>1. t[j] = s[j] /\ t[j - 1] = IF j = k + 1 THEN s[k - 1] ELSE s[j - 1]
        BY <1>1, <1>2, <1>4, <3>3
      <4>2. j # n => t[j + 1] = s[j + 1]
        BY <1>1, <1>2, <1>4, <3>3
      <4>3. QED  BY <1>2, <1>4, <2>5, <3>3, <4>1, <4>2
    <3>4. QED  BY <1>2, <3>1, <3>2, <3>3
  <2>9. QED  BY <1>1, <2>1, <2>4, <2>6, <2>7, <2>8 DEF Represents, p, t
<1>5. QED  BY <1>3, <1>4
-----------------------------------------------------------------------------
\* After any sequence of list calls, on any number of items, the pointers form
\* the list of the items the calls promise (list.go:37-117).
THEOREM AlwaysLinked == ListSpec => [](ListTypeOK /\ Linked)
<1> DEFINE ListInv == list \in List /\ sequence \in Seq(Item) /\ Represents(list, sequence)
<1> USE NilAssumption
<1>0. ListTypeOK /\ Linked <=> ListInv
  BY DEF ListTypeOK, Linked
<1>1. ListInit => ListInv
  <2> SUFFICES ASSUME ListInit PROVE ListInv
    OBVIOUS
  <2>1. list.next \in Heap /\ list.prev \in Heap
    BY DEF ListInit, Heap, Pointer
  <2>2. list \in List
    BY <2>1 DEF ListInit, List, Pointer
  <2>3. sequence \in Seq(Item) /\ Represents(list, sequence)
    BY EmptyRepresents, EmptySeq DEF ListInit
  <2>4. QED  BY <2>2, <2>3
<1>2. ListInv /\ [ListNext]_listVars => ListInv'
  <2> SUFFICES ASSUME ListInv, [ListNext]_listVars PROVE ListInv'
    OBVIOUS
  <2>1. ASSUME NEW i \in Item, CallPushFront(i) PROVE ListInv'
    <3>1. /\ list' = PushFront(list, i) /\ sequence' = <<i>> \o sequence
          /\ \A k \in 1..Len(sequence) : sequence[k] # i
      BY <2>1 DEF CallPushFront, Fresh
    <3>2. QED  BY <3>1, PushFrontRepresents
  <2>2. ASSUME NEW i \in Item, CallPushBack(i) PROVE ListInv'
    <3>1. /\ list' = PushBack(list, i) /\ sequence' = Append(sequence, i)
          /\ \A k \in 1..Len(sequence) : sequence[k] # i
      BY <2>2 DEF CallPushBack, Fresh
    <3>2. QED  BY <3>1, PushBackRepresents
  <2>3. ASSUME NEW k \in 1..Len(sequence), CallRemove(k) PROVE ListInv'
    <3>1. list' = Remove(list, sequence[k]) /\ sequence' = SX!RemoveAt(sequence, k)
      BY <2>3 DEF CallRemove
    <3>2. QED  BY <3>1, RemoveRepresents
  <2>4. ASSUME NEW k \in 1..Len(sequence), CallMoveToFront(k) PROVE ListInv'
    <3>1. /\ list' = MoveToFront(list, sequence[k])
          /\ sequence' = <<sequence[k]>> \o SX!RemoveAt(sequence, k)
      BY <2>4 DEF CallMoveToFront
    <3>2. QED  BY <3>1, MoveToFrontRepresents
  <2>5. CASE CallWithNil
    BY <2>5 DEF CallWithNil, Remove, MoveToFront
  <2>6. CASE UNCHANGED listVars
    BY <2>6 DEF listVars
  <2>7. QED  BY <2>1, <2>2, <2>3, <2>4, <2>5, <2>6 DEF ListNext
<1>3. QED  BY <1>0, <1>1, <1>2, PTL DEF ListSpec
-----------------------------------------------------------------------------
\* Inv without its last part, which follows from the others.
Core == TypeOK /\ MutexHeld /\ InStep /\ Distinct(used) /\ Holds(Kept)

USE NilAssumption, CacheAssumption
-----------------------------------------------------------------------------
(* The keys used: what touching a key makes of the sequence.               *)

\* m is the place of k in s, or one past the end: k goes to the front, the m - 1
\* keys before it move back by one, the others stay.
LEMMA TouchedElements ==
  ASSUME NEW s \in Seq(Keys), Distinct(s), NEW k \in Keys, NEW m \in 1..(Len(s) + 1),
         \A j \in 1..Len(s) : s[j] = k <=> j = m
  PROVE  LET t == S!Touched(s, k)
         IN  /\ t \in Seq(Keys)
             /\ Len(t) = IF m = Len(s) + 1 THEN m ELSE Len(s)
             /\ t[1] = k
             /\ \A j \in 2..Len(t) : t[j] = IF j <= m THEN s[j - 1] ELSE s[j]
             /\ Distinct(t)
<1> DEFINE t == S!Touched(s, k)
<1>1. Len(s) \in Nat /\ m \in Nat
  BY LenProperties
<1>2. /\ t \in Seq(Keys) /\ Len(t) = IF m = Len(s) + 1 THEN m ELSE Len(s)
      /\ t[1] = k /\ \A j \in 2..Len(t) : t[j] = IF j <= m THEN s[j - 1] ELSE s[j]
  <2>1. CASE m = Len(s) + 1
    <3>1. ~ S!SX!Contains(s, k)
      BY <1>1, <2>1 DEF S!SX!Contains
    <3>2. t = <<k>> \o s
      BY <3>1 DEF S!Touched
    <3> HIDE DEF t
    <3>3. QED  BY <1>1, <2>1, <3>2
  <2>2. CASE m # Len(s) + 1
    <3>1. m \in 1..Len(s) /\ s[m] = k
      BY <1>1, <2>2
    <3>2. S!SX!Contains(s, k)
      BY <3>1 DEF S!SX!Contains
    <3>3. m = CHOOSE j \in 1..Len(s) : s[j] = k
      BY <3>1
    <3>4. t = <<s[m]>> \o SX!RemoveAt(s, m)
      BY <3>1, <3>2, <3>3 DEF S!Touched, S!SX!RemoveAt, SX!RemoveAt
    <3> HIDE DEF t
    <3>5. /\ t \in Seq(Keys) /\ Len(t) = Len(s) /\ t[1] = s[m]
          /\ \A j \in 2..Len(s) : t[j] = IF j <= m THEN s[j - 1] ELSE s[j]
      BY <3>1, <3>4, MovedElements
    <3>6. QED  BY <1>1, <2>2, <3>1, <3>5
  <2>3. QED  BY <2>1, <2>2
<1> HIDE DEF t
<1>3. Distinct(t)
  <2> SUFFICES ASSUME NEW i \in 1..Len(t), NEW j \in 1..Len(t), t[i] = t[j]
               PROVE  i = j
    BY DEF Distinct
  <2> DEFINE at(x) == IF x <= m THEN x - 1 ELSE x
  <2>1. ASSUME NEW x \in 2..Len(t)
        PROVE  at(x) \in 1..Len(s) /\ at(x) # m /\ t[x] = s[at(x)] /\ t[x] # k
    BY <1>1, <1>2
  <2>2. CASE i = 1 \/ j = 1
    BY <1>1, <1>2, <2>1, <2>2
  <2>3. CASE i # 1 /\ j # 1
    <3>1. i \in 2..Len(t) /\ j \in 2..Len(t)
      BY <1>1, <1>2, <2>3
    <3>2. at(i) = at(j)
      <4> HIDE DEF at
      <4>1. QED  BY <2>1, <3>1 DEF Distinct
    <3>3. at(i) # m /\ at(j) # m
      BY <2>1, <3>1
    <3>4. QED  BY <1>1, <3>1, <3>2, <3>3
  <2>4. QED  BY <2>2, <2>3
<1>4. QED  BY <1>2, <1>3 DEF t

\* Every key has such a place.
LEMMA PlaceExists ==
  ASSUME NEW s \in Seq(Keys), Distinct(s), NEW k \in Keys
  PROVE  \E m \in 1..(Len(s) + 1) : \A j \in 1..Len(s) : s[j] = k <=> j = m
<1>1. Len(s) \in Nat
  BY LenProperties
<1>2. CASE \E i \in 1..Len(s) : s[i] = k
  <2>1. PICK i \in 1..Len(s) : s[i] = k
    BY <1>2
  <2>2. \A j \in 1..Len(s) : s[j] = k <=> j = i
    BY <2>1 DEF Distinct
  <2>3. i \in 1..(Len(s) + 1)
    BY <1>1
  <2>4. QED  BY <2>2, <2>3
<1>3. CASE ~ \E i \in 1..Len(s) : s[i] = k
  <2>1. Len(s) + 1 \in 1..(Len(s) + 1) /\ \A j \in 1..Len(s) : s[j] = k <=> j = Len(s) + 1
    BY <1>1, <1>3
  <2>2. QED  BY <2>1
<1>4. QED  BY <1>2, <1>3
-----------------------------------------------------------------------------
(* What the invariant says in a state.                                     *)

\* The call's arguments, by the kind of call.
LEMMA RequestFacts ==
  ASSUME NEW r \in S!Request
  PROVE  /\ r.op \in {"Set", "Get", "Clear"}
         /\ r.op # "Clear" => r.key \in Keys
         /\ r.op = "Set" => r.value \in Values
BY DEF S!Request

\* The holder of mu is alone: nobody else is in a call's body, or has an item.
LEMMA Alone ==
  ASSUME TypeOK, MutexHeld, NEW p \in Procs, pc[p] \in Locked
  PROVE  /\ mu = p
         /\ \A q \in Procs : q # p => pc[q] \notin Locked /\ item[q] = Nil
BY DEF TypeOK, MutexHeld, Locked

\* How many keys are held, and the items that hold them.
LEMMA KeptFacts ==
  ASSUME Core
  PROVE  /\ capacity \in Nat /\ used \in Seq(Keys) /\ Len(used) \in Nat
         /\ Kept \in Nat /\ Kept <= Len(used) /\ Kept <= capacity
         /\ Kept = IF Len(used) < Room THEN Len(used) ELSE Room
         /\ Room = IF \E p \in Procs : pc[p] = "insert" THEN capacity - 1 ELSE capacity
         /\ \A j \in 1..Kept : used[j] \in Keys /\ items[used[j]] \in Item
         /\ [j \in 1..Kept |-> items[used[j]]] \in Seq(Item)
         /\ Len([j \in 1..Kept |-> items[used[j]]]) = Kept
         /\ queue.length = Kept
         /\ \A k \in Keys : items[k] # Nil <=> \E j \in 1..Kept : used[j] = k
<1>1. capacity \in Nat /\ used \in Seq(Keys) /\ Len(used) \in Nat
  BY LenProperties DEF Core, TypeOK
<1>2. (\E p \in Procs : pc[p] = "insert") => capacity > 0
  BY DEF Core, InStep
<1>3. Room \in Nat /\ Room <= capacity
  BY <1>1, <1>2 DEF Room
<1>4. Kept \in Nat /\ Kept <= Len(used) /\ Kept <= capacity
  BY <1>1, <1>3 DEF Kept
<1>5. \A j \in 1..Kept : used[j] \in Keys
  BY <1>1, <1>4
<1>6. \A k \in Keys : items[k] # Nil <=> \E j \in 1..Kept : used[j] = k
  BY DEF Core, Holds
<1>7. \A j \in 1..Kept : items[used[j]] \in Item
  BY <1>5 DEF Core, Holds
<1>8. /\ [j \in 1..Kept |-> items[used[j]]] \in Seq(Item)
      /\ Len([j \in 1..Kept |-> items[used[j]]]) = Kept
  BY <1>4, <1>7
<1>9. queue.length = Kept
  BY <1>8 DEF Core, Holds, Represents
<1>10. QED  BY <1>1, <1>4, <1>5, <1>6, <1>7, <1>8, <1>9 DEF Kept, Room

\* While no Insert is under way the map has the keys that LRUSpec calls cached.
LEMMA CachedIsHeld ==
  ASSUME Core, \A p \in Procs : pc[p] # "insert"
  PROVE  \A k \in Keys : k \in S!Cached(used) <=> items[k] # Nil
<1>1. Kept = IF Len(used) < capacity THEN Len(used) ELSE capacity
  BY KeptFacts
<1>2. ASSUME NEW k \in Keys
      PROVE  k \in S!Cached(used) <=> \E j \in 1..Kept : used[j] = k
  BY <1>1, KeptFacts DEF S!Cached
<1>3. QED  BY <1>2, KeptFacts

\* A set that n places list has at most n elements.
LEMMA Listed ==
  ASSUME NEW n \in Nat, NEW f, NEW T, T = {f[j] : j \in 1..n}
  PROVE  IsFiniteSet(T) /\ Cardinality(T) <= n
<1> DEFINE g == [j \in 1..n |-> f[j]]
<1>1. g \in Surjection(1..n, T)
  BY DEF Surjection
<1>2. ExistsSurjection(1..n, T)
  BY <1>1 DEF ExistsSurjection
<1>3. QED  BY <1>2, FS_NatSurjection, FS_SurjCardinalityBound

LEMMA WithinCapacity ==
  ASSUME Core
  PROVE  NeverOverCapacity
<1> DEFINE T == {k \in Keys : items[k] # Nil}  f == [j \in 1..Kept |-> used[j]]
<1>1. T = {f[j] : j \in 1..Kept}
  BY KeptFacts
<1>2. Kept \in Nat /\ Kept <= capacity /\ queue.length = Kept /\ capacity \in Nat
  BY KeptFacts
<1> HIDE DEF T, f
<1>3. IsFiniteSet(T) /\ Cardinality(T) <= Kept
  <2>1. Kept \in Nat
    BY <1>2
  <2>2. QED  BY <1>1, <2>1, Listed, Zenon
<1>4. Cardinality(T) \in Nat
  BY <1>3, FS_CardinalityType
<1>5. QED  BY <1>2, <1>3, <1>4 DEF NeverOverCapacity, T

\* While a key waits to be inserted, an item is free for it.
LEMMA NewItemIsFree ==
  ASSUME Core, HeapAssumption, NEW p \in Procs, pc[p] = "insert"
  PROVE  NewItem \in Item /\ \A k \in Keys : items[k] # NewItem
<1> DEFINE f == [j \in 1..Kept |-> items[used[j]]]  T == {f[j] : j \in 1..Kept}
<1>1. capacity \in Capacities /\ capacity \in Nat /\ Kept \in Nat /\ Kept < capacity
  BY KeptFacts DEF Core, TypeOK, InStep
<1>2. T \subseteq Item /\ T = {f[j] : j \in 1..Kept}
  BY KeptFacts
<1> HIDE DEF f, T
<1>3. IsFiniteSet(T) /\ Cardinality(T) <= Kept /\ Cardinality(T) \in Nat
  <2>1. Kept \in Nat
    BY <1>1
  <2>2. IsFiniteSet(T) /\ Cardinality(T) <= Kept
    BY <1>2, <2>1, Listed, Zenon
  <2>3. QED  BY <2>2, FS_CardinalityType
<1>4. T # Item
  BY <1>1, <1>3, FS_CardinalityType, HeapAssumption DEF HeapAssumption
<1>5. PICK i \in Item : i \notin T
  BY <1>2, <1>4
<1>6. \A k \in Keys : items[k] # i
  BY <1>5, KeptFacts DEF f, T
<1>7. \A q \in Procs : item[q] = Nil
  BY Alone DEF Core, MutexHeld, Locked
<1>8. \E j \in Item : (\A k \in Keys : items[k] # j) /\ (\A q \in Procs : item[q] # j)
  BY <1>6, <1>7
<1>9. QED  BY <1>8 DEF NewItem
-----------------------------------------------------------------------------
(* The steps that leave the cache alone.                                   *)

LEMMA HoldsSame ==
  ASSUME Core, UNCHANGED <<data, history, capacity>>,
         \A q \in Procs : pc'[q] = "insert" <=> pc[q] = "insert"
  PROVE  Distinct(used') /\ Holds(Kept)'
<1>1. Kept' = Kept
  BY DEF Kept, Room, history
<1>2. QED  BY <1>1 DEF Core, Holds, data, history

LEMMA CallKeeps ==
  ASSUME Core, NEW p \in Procs, Call(p), UNCHANGED capacity
  PROVE  Core'
<1> USE DEF Call, Goto
<1>1. PICK r \in S!Request : req' = [req EXCEPT ![p] = r]
  OBVIOUS
<1>2. /\ pc' = [pc EXCEPT ![p] = "lock"] /\ pc[p] = "idle"
      /\ UNCHANGED <<data, mu, item, res, history>>
  OBVIOUS
<1> HIDE DEF Call, Goto
<1>3. TypeOK'
  BY <1>1, <1>2 DEF Core, TypeOK, data, history
<1>4. MutexHeld'
  BY <1>2 DEF Core, TypeOK, MutexHeld, Locked
<1>5. InStep'
  BY <1>1, <1>2 DEF Core, TypeOK, InStep, S!Cached, data, history
<1>6. Distinct(used') /\ Holds(Kept)'
  BY <1>2, HoldsSame DEF Core, TypeOK
<1>7. QED  BY <1>3, <1>4, <1>5, <1>6 DEF Core

LEMMA LockKeeps ==
  ASSUME Core, NEW p \in Procs, Lock(p), UNCHANGED capacity
  PROVE  Core'
<1>1. /\ pc[p] = "lock" /\ mu = Nil /\ mu' = p
      /\ pc' = [pc EXCEPT ![p] = Body(p)]
      /\ UNCHANGED <<data, item, req, res, history>>
  BY DEF Lock, LockUnguarded, Goto
<1>2. Body(p) = IF req[p].op = "Clear" THEN "clear" ELSE "lookup"
  BY DEF Body
<1>3. TypeOK'
  BY <1>1, <1>2 DEF Core, TypeOK, data, history
<1>4. MutexHeld'
  BY <1>1, <1>2 DEF Core, TypeOK, MutexHeld, Locked
<1>5. InStep'
  BY <1>1, <1>2 DEF Core, TypeOK, InStep, S!Cached, data, history
<1>6. Distinct(used') /\ Holds(Kept)'
  BY <1>1, <1>2, HoldsSame DEF Core, TypeOK
<1>7. QED  BY <1>3, <1>4, <1>5, <1>6 DEF Core

\* Whether the key is found tells whether LRUSpec has it cached.
LEMMA LookupFacts ==
  ASSUME Core, NEW p \in Procs, pc[p] = "lookup"
  PROVE  /\ req[p].key \in Keys
         /\ \A q \in Procs : pc[q] # "insert"
         /\ req[p].key \in S!Cached(used) <=> items[req[p].key] # Nil
         /\ Kept = IF Len(used) < capacity THEN Len(used) ELSE capacity
         /\ queue.length = Kept
<1>1. req[p].key \in Keys
  BY RequestFacts DEF Core, TypeOK, InStep
<1>2. \A q \in Procs : pc[q] # "insert"
  BY Alone DEF Core, Locked
<1>3. QED  BY <1>1, <1>2, CachedIsHeld, KeptFacts

LEMMA LookupKeeps ==
  ASSUME Core, NEW p \in Procs, Lookup(p), UNCHANGED capacity
  PROVE  Core'
<1> DEFINE found == items[req[p].key]
           next == IF found # Nil THEN "touch"
                   ELSE IF req[p].op = "Get" THEN "unlock"
                   ELSE IF queue.length = capacity THEN "evict" ELSE "insert"
<1>1. /\ pc[p] = "lookup" /\ pc' = [pc EXCEPT ![p] = next]
      /\ item' = [item EXCEPT ![p] = found]
      /\ UNCHANGED <<data, mu, req, res, history>>
  BY DEF Lookup, LookupWith, Missed, Goto
<1>2. /\ req[p].key \in Keys /\ found \in Pointer
      /\ req[p].op \in {"Set", "Get"}
      /\ \A q \in Procs : pc[q] # "insert"
      /\ req[p].key \in S!Cached(used) <=> found # Nil
      /\ Kept = IF Len(used) < capacity THEN Len(used) ELSE capacity
      /\ queue.length = Kept
      /\ capacity \in Nat /\ Len(used) \in Nat
  BY <1>1, LookupFacts, KeptFacts, RequestFacts DEF Core, TypeOK, InStep
<1>3. next \in {"touch", "unlock", "evict", "insert"}
  OBVIOUS
<1>4. TypeOK'
  BY <1>1, <1>2, <1>3 DEF Core, TypeOK, data, history
<1>5. MutexHeld'
  BY <1>1, <1>2, <1>3 DEF Core, TypeOK, MutexHeld, Locked
<1>6. InStep'
  <2> SUFFICES ASSUME NEW q \in Procs
               PROVE  /\ pc'[q] = "lookup" => req'[q].op # "Clear"
                      /\ pc'[q] = "clear" => req'[q].op = "Clear"
                      /\ pc'[q] = "touch" => /\ req'[q].op # "Clear"
                                             /\ item'[q] = items'[req'[q].key]
                                             /\ item'[q] # Nil
                      /\ pc'[q] = "evict" => /\ req'[q].op = "Set"
                                             /\ req'[q].key \notin S!Cached(used)'
                                             /\ queue'.length = capacity'
                      /\ pc'[q] = "insert" => /\ req'[q].op = "Set"
                                              /\ req'[q].key \notin S!Cached(used)'
                                              /\ capacity' > 0
    BY DEF InStep
  <2>1. S!Cached(used)' = S!Cached(used)
    BY <1>1 DEF S!Cached, history
  <2>2. CASE q = p
    <3>1. /\ pc'[q] = next /\ item'[q] = found /\ found = items'[req'[q].key]
          /\ UNCHANGED <<req, queue, capacity>>
      BY <1>1, <2>2 DEF Core, TypeOK, data
    <3>2. next = "insert" => capacity > 0
      BY <1>2
    <3> HIDE DEF found
    <3>3. QED  BY <1>2, <2>1, <2>2, <3>1, <3>2
  <2>3. CASE q # p
    <3>1. pc'[q] = pc[q] /\ pc[q] \notin Locked
      BY <1>1, <2>3, Alone DEF Core, TypeOK, Locked
    <3>2. QED  BY <3>1 DEF Locked
  <2>4. QED  BY <2>2, <2>3
<1>7. Distinct(used') /\ Holds(Kept)'
  <2>1. CASE next # "insert"
    BY <1>1, <1>2, <2>1, HoldsSame DEF Core, TypeOK
  <2>2. CASE next = "insert"
    <3>1. Len(used) < capacity
      BY <1>2, <2>2
    <3>2. \E q \in Procs : pc'[q] = "insert"
      BY <1>1, <2>2 DEF Core, TypeOK
    <3>3. Kept' = IF Len(used) < capacity - 1 THEN Len(used) ELSE capacity - 1
      BY <1>1, <3>2 DEF Kept, Room, history
    <3>4. Kept' = Kept
      BY <1>2, <3>1, <3>3
    <3>5. QED  BY <1>1, <3>4 DEF Core, Holds, data, history
  <2>3. QED  BY <2>1, <2>2
<1>8. QED  BY <1>4, <1>5, <1>6, <1>7 DEF Core

\* Once the holder's call is over, InStep has nothing to say.
LEMMA OutOfStep ==
  ASSUME Core, NEW p \in Procs, pc[p] \in Locked,
         NEW l \in {"unlock", "panic"}, pc' = [pc EXCEPT ![p] = l]
  PROVE  InStep' /\ \A q \in Procs : pc'[q] # "insert"
<1>1. ASSUME NEW q \in Procs
      PROVE  pc'[q] \notin {"lookup", "clear", "touch", "evict", "insert"}
  BY Alone DEF Core, TypeOK, Locked
<1>2. QED  BY <1>1 DEF InStep

LEMMA EvictPanicsKeeps ==
  ASSUME Core, NEW p \in Procs, EvictPanics(p), UNCHANGED capacity
  PROVE  Core'
<1>1. /\ pc[p] = "evict" /\ mu' = Nil /\ pc' = [pc EXCEPT ![p] = "panic"]
      /\ UNCHANGED <<data, item, req, res, history>>
  BY DEF EvictPanics, Goto
<1>2. mu = p /\ \A q \in Procs : q # p => pc[q] \notin Locked /\ item[q] = Nil
  BY <1>1, Alone DEF Core, Locked
<1>3. TypeOK'
  BY <1>1 DEF Core, TypeOK, data, history
<1>4. MutexHeld'
  BY <1>1, <1>2 DEF Core, TypeOK, MutexHeld, Locked
<1>5. InStep'
  BY <1>1, OutOfStep DEF Locked
<1>6. Distinct(used') /\ Holds(Kept)'
  BY <1>1, HoldsSame DEF Core, TypeOK
<1>7. QED  BY <1>3, <1>4, <1>5, <1>6 DEF Core

LEMMA UnlockKeeps ==
  ASSUME Core, NEW p \in Procs, Unlock(p), UNCHANGED capacity
  PROVE  Core'
<1>1. /\ pc[p] = "unlock" /\ mu' = Nil /\ pc' = [pc EXCEPT ![p] = "idle"]
      /\ item' = [item EXCEPT ![p] = Nil] /\ req' = [req EXCEPT ![p] = S!NoRequest]
      /\ res' = [res EXCEPT ![p] = NoValue]
      /\ UNCHANGED <<data, history>>
  BY DEF Unlock, Goto, Result
<1>2. mu = p /\ \A q \in Procs : q # p => pc[q] \notin Locked /\ item[q] = Nil
  BY <1>1, Alone DEF Core, Locked
<1>3. S!NoRequest \in S!Request
  BY DEF S!NoRequest, S!Request
<1>4. TypeOK'
  BY <1>1, <1>3 DEF Core, TypeOK, Pointer, data, history
<1>5. MutexHeld'
  BY <1>1, <1>2 DEF Core, TypeOK, MutexHeld, Locked
<1>6. InStep'
  BY <1>1 DEF Core, TypeOK, InStep, S!Cached, data, history
<1>7. Distinct(used') /\ Holds(Kept)'
  BY <1>1, HoldsSame DEF Core, TypeOK
<1>8. QED  BY <1>4, <1>5, <1>6, <1>7 DEF Core
-----------------------------------------------------------------------------
(* The steps that work on the list and the map.                            *)

\* A key that is found is one of those held, at one place, and its cell has the
\* value set last.
LEMMA TouchFacts ==
  ASSUME Core, NEW p \in Procs, pc[p] = "touch"
  PROVE  /\ req[p].key \in Keys /\ req[p].op \in {"Set", "Get"}
         /\ item[p] = items[req[p].key] /\ item[p] \in Item
         /\ \A q \in Procs : pc[q] # "insert"
         /\ req[p].key \in S!Cached(used)
         /\ Value(p) = val[req[p].key]
         /\ cell[item[p]] = [key |-> req[p].key, value |-> val[req[p].key]]
         /\ \E m \in 1..Kept : \A j \in 1..Len(used) : used[j] = req[p].key <=> j = m
<1> DEFINE k == req[p].key
<1>1. /\ k \in Keys /\ req[p].op \in {"Set", "Get"}
      /\ item[p] = items[k] /\ item[p] # Nil
  BY RequestFacts DEF Core, TypeOK, InStep
<1>2. \A q \in Procs : pc[q] # "insert"
  BY Alone DEF Core, Locked
<1>3. k \in S!Cached(used)
  BY <1>1, <1>2, CachedIsHeld
<1>4. PICK m \in 1..Kept : used[m] = k
  BY <1>1, KeptFacts
<1>5. \A j \in 1..Len(used) : used[j] = k <=> j = m
  BY <1>4, KeptFacts DEF Core, Distinct
<1>6. items[k] \in Item /\ cell[items[k]] = [key |-> k, value |-> val[k]]
  BY <1>1, <1>4 DEF Core, Holds
<1>7. QED  BY <1>1, <1>2, <1>3, <1>5, <1>6 DEF Value

LEMMA TouchKeeps ==
  ASSUME Core, NEW p \in Procs, Touch(p), UNCHANGED capacity
  PROVE  Core'
<1> DEFINE k == req[p].key
           v == IF req[p].op = "Set" THEN req[p].value ELSE Value(p)
           s == [j \in 1..Kept |-> items[used[j]]]
<1>1. /\ pc[p] = "touch" /\ pc' = [pc EXCEPT ![p] = "unlock"]
      /\ cell' = [cell EXCEPT ![item[p]].value = v]
      /\ queue' = MoveToFront(queue, item[p])
      /\ res' = [res EXCEPT ![p] = IF req[p].op = "Set" THEN TRUE ELSE Value(p)]
      /\ used' = S!Touched(used, k) /\ val' = [val EXCEPT ![k] = v]
      /\ UNCHANGED <<items, mu, item, req>>
  BY DEF Touch, Goto, Result
<1>2. /\ k \in Keys /\ item[p] = items[k] /\ item[p] \in Item
      /\ Value(p) = val[k]
      /\ cell[item[p]] = [key |-> k, value |-> val[k]]
      /\ \A q \in Procs : pc[q] # "insert"
  BY <1>1, TouchFacts
<1>3. v \in Values \cup {NoValue}
  BY <1>2, RequestFacts DEF Core, TypeOK
<1> HIDE DEF v
<1>4. PICK m \in 1..Kept : \A j \in 1..Len(used) : used[j] = k <=> j = m
  BY <1>1, TouchFacts
<1>5. /\ Kept \in Nat /\ Len(used) \in Nat /\ Kept <= Len(used)
      /\ used \in Seq(Keys) /\ capacity \in Nat
      /\ Kept = IF Len(used) < capacity THEN Len(used) ELSE capacity
      /\ s \in Seq(Item) /\ Len(s) = Kept
      /\ \A x \in Keys : items[x] # Nil <=> \E j \in 1..Kept : used[j] = x
  BY <1>2, KeptFacts
<1>6. m \in 1..(Len(used) + 1) /\ m \in 1..Len(s) /\ m # Len(used) + 1 /\ used[m] = k
  BY <1>4, <1>5
<1>7. /\ used' \in Seq(Keys) /\ Len(used') = Len(used) /\ used'[1] = k
      /\ \A j \in 2..Len(used) : used'[j] = IF j <= m THEN used[j - 1] ELSE used[j]
      /\ Distinct(used')
  BY <1>1, <1>2, <1>4, <1>5, <1>6, TouchedElements DEF Core
<1>8. \A q \in Procs : pc'[q] # "insert"
  BY <1>1, OutOfStep DEF Locked
<1>9. Kept' = Kept
  BY <1>5, <1>7, <1>8 DEF Kept, Room
<1>10. s[m] = item[p]
  BY <1>2, <1>6, <1>4
<1>11. Represents(queue, s) /\ queue \in List
  BY DEF Core, Holds, TypeOK
<1> DEFINE t == <<s[m]>> \o SX!RemoveAt(s, m)
<1>12. /\ queue' \in List /\ t \in Seq(Item) /\ Represents(queue', t)
  <2> HIDE DEF s
  <2>1. QED  BY <1>1, <1>5, <1>6, <1>10, <1>11, MoveToFrontRepresents
<1>13. /\ Len(t) = Kept /\ t[1] = items[k]
       /\ \A j \in 2..Kept : t[j] = IF j <= m THEN s[j - 1] ELSE s[j]
  <2> HIDE DEF s
  <2>1. /\ Len(t) = Len(s) /\ t[1] = s[m]
        /\ \A j \in 2..Len(s) : t[j] = IF j <= m THEN s[j - 1] ELSE s[j]
    <3>1. s \in Seq(Item) /\ m \in 1..Len(s)
      BY <1>5, <1>6
    <3>2. QED  BY <3>1, MovedElements, Zenon
  <2> HIDE DEF t
  <2>2. QED  BY <1>2, <1>5, <1>10, <2>1
<1> DEFINE u == [j \in 1..Kept |-> items[used'[j]]]
<1>14. u = t
  <2>1. ASSUME NEW j \in 1..Kept PROVE u[j] = t[j]
    <3>1. CASE j = 1
      BY <1>7, <1>13, <3>1
    <3>2. CASE j # 1
      <4>1. j \in 2..Kept /\ j \in 2..Len(used) /\ j \in 1..Kept /\ j - 1 \in 1..Kept
        BY <1>5, <3>2
      <4>2. t[j] = IF j <= m THEN items[used[j - 1]] ELSE items[used[j]]
        BY <1>13, <4>1
      <4> HIDE DEF t
      <4>3. QED  BY <1>7, <4>1, <4>2
    <3>3. QED  BY <3>1, <3>2
  <2>2. \A j \in 1..Kept : used'[j] \in Keys
    BY <1>5, <1>7
  <2>3. \A j \in 1..Kept : u[j] \in Item
    <3>1. \A j \in 1..Kept : t[j] \in Item
      BY <1>12, <1>13
    <3>2. QED  BY <2>1, <3>1
  <2> HIDE DEF t
  <2>4. u \in Seq(Item) /\ Len(u) = Kept
    <3>1. Kept \in Nat /\ \A j \in 1..Kept : items[used'[j]] \in Item
      BY <1>5, <2>3
    <3>2. QED  BY <3>1
  <2> HIDE DEF u
  <2>5. QED  BY <1>12, <1>13, <2>1, <2>4, SeqEqual
<1>15. Represents(queue', [j \in 1..Kept' |-> items'[used'[j]]])
  <2>1. [j \in 1..Kept' |-> items'[used'[j]]] = u
    BY <1>1, <1>9
  <2> HIDE DEF u, t
  <2>2. QED  BY <1>12, <1>14, <2>1
<1>16. ASSUME NEW x \in Keys
       PROVE  IF \E j \in 1..Kept' : used'[j] = x
              THEN items'[x] \in Item /\ cell'[items'[x]] = [key |-> x, value |-> val'[x]]
              ELSE items'[x] = Nil
  <2>1. (\E j \in 1..Kept : used'[j] = x) <=> (\E j \in 1..Kept : used[j] = x)
    <3>1. CASE x = k
      <4>1. 1 \in 1..Kept
        BY <1>4, <1>5
      <4>2. QED  BY <1>6, <1>4, <1>7, <3>1, <4>1
    <3>2. CASE x # k
      <4>1. ASSUME NEW j \in 1..Kept, used'[j] = x
            PROVE  \E i \in 1..Kept : used[i] = x
        <5>1. j \in 2..Kept /\ j \in 2..Len(used)
          BY <1>5, <1>7, <3>2, <4>1
        <5>2. QED  BY <1>4, <1>5, <1>7, <4>1, <5>1
      <4>2. ASSUME NEW j \in 1..Kept, used[j] = x
            PROVE  \E i \in 1..Kept : used'[i] = x
        <5>1. j # m
          BY <1>6, <3>2, <4>2
        <5>2. CASE j < m
          <6>1. j + 1 \in 2..Len(used) /\ j + 1 <= m /\ j + 1 \in 1..Kept
            BY <1>4, <1>5, <5>2
          <6>2. used'[j + 1] = x
            BY <1>7, <4>2, <6>1
          <6>3. QED  BY <6>1, <6>2
        <5>3. CASE j > m
          <6>1. j \in 2..Len(used) /\ ~ (j <= m)
            BY <1>4, <1>5, <5>3
          <6>2. used'[j] = x
            BY <1>7, <4>2, <6>1
          <6>3. QED  BY <6>2
        <5>4. QED  BY <1>4, <1>5, <5>1, <5>2, <5>3
      <4>3. QED  BY <4>1, <4>2
    <3>3. QED  BY <3>1, <3>2
  <2>2. IF \E j \in 1..Kept : used[j] = x
        THEN items[x] \in Item /\ cell[items[x]] = [key |-> x, value |-> val[x]]
        ELSE items[x] = Nil
    BY DEF Core, Holds
  <2>3. ASSUME items[x] \in Item, cell[items[x]] = [key |-> x, value |-> val[x]]
        PROVE  cell'[items[x]] = [key |-> x, value |-> val'[x]]
    <3>1. CASE x = k
      BY <1>1, <1>2, <2>3, <3>1 DEF Core, TypeOK
    <3>2. CASE x # k
      <4>1. items[x] # item[p]
        BY <1>2, <2>3, <3>2
      <4>2. QED  BY <1>1, <2>3, <3>2, <4>1 DEF Core, TypeOK
    <3>3. QED  BY <3>1, <3>2
  <2>4. QED  BY <1>1, <1>9, <2>1, <2>2, <2>3
<1>17. TypeOK'
  <2>1. cell' \in [Item -> [key : Keys \cup {Nil}, value : Values \cup {NoValue}]]
    BY <1>1, <1>2, <1>3 DEF Core, TypeOK
  <2>2. val' \in [Keys -> Values \cup {NoValue}]
    BY <1>1, <1>2, <1>3 DEF Core, TypeOK
  <2>3. (IF req[p].op = "Set" THEN TRUE ELSE Value(p)) \in Values \cup {NoValue} \cup BOOLEAN
    <3>1. Value(p) \in Values \cup {NoValue}
      BY <1>2 DEF Core, TypeOK
    <3>2. QED  BY <3>1, Zenon
  <2>4. res' \in [Procs -> Values \cup {NoValue} \cup BOOLEAN]
    <3> DEFINE w == IF req[p].op = "Set" THEN TRUE ELSE Value(p)
               B == Values \cup {NoValue} \cup BOOLEAN
    <3>1. res' = [res EXCEPT ![p] = w] /\ w \in B /\ res \in [Procs -> B]
      BY <1>1, <2>3, Zenon DEF Core, TypeOK
    <3> HIDE DEF w, B
    <3>2. res' \in [Procs -> B]
      BY <3>1
    <3>3. QED  BY <3>2 DEF B
  <2>5. QED  BY <1>1, <1>7, <1>12, <2>1, <2>2, <2>4 DEF Core, TypeOK
<1>18. MutexHeld'
  BY <1>1 DEF Core, TypeOK, MutexHeld, Locked
<1>19. InStep'
  BY <1>1, OutOfStep DEF Locked
<1>20. Holds(Kept)'
  BY <1>15, <1>16 DEF Holds
<1>21. QED  BY <1>7, <1>17, <1>18, <1>19, <1>20 DEF Core

LEMMA EvictKeeps ==
  ASSUME Core, NEW p \in Procs, Evict(p), UNCHANGED capacity
  PROVE  Core'
<1> DEFINE n == Kept
           s == [j \in 1..n |-> items[used[j]]]
           last == used[n]
<1>1. /\ pc[p] = "evict" /\ queue.back # Nil /\ pc' = [pc EXCEPT ![p] = "insert"]
      /\ items' = [items EXCEPT ![cell[queue.back].key] = Nil]
      /\ queue' = Remove(queue, queue.back)
      /\ UNCHANGED <<cell, mu, item, req, res, used, val>>
  BY DEF Evict, EvictWith, WithoutLast, Goto, history
<1>2. /\ req[p].op = "Set" /\ req[p].key \notin S!Cached(used) /\ queue.length = capacity
      /\ mu = p /\ \A q \in Procs : q # p => pc[q] \notin Locked /\ item[q] = Nil
  BY <1>1, Alone DEF Core, InStep, Locked
<1>3. /\ n \in Nat /\ Len(used) \in Nat /\ n <= Len(used) /\ capacity \in Nat
      /\ n = capacity /\ used \in Seq(Keys)
      /\ s \in Seq(Item) /\ Len(s) = n
      /\ \A j \in 1..n : used[j] \in Keys /\ items[used[j]] \in Item
      /\ Distinct(used)
  BY <1>2, KeptFacts DEF Core
<1>4. Represents(queue, s) /\ queue \in List
  BY DEF Core, Holds, TypeOK
<1>5. n # 0 /\ queue.back = s[n]
  <2> HIDE DEF s, n
  <2>1. s = <<>> => queue.back = Nil
    BY <1>4 DEF Represents
  <2>2. s # <<>>
    BY <1>1, <2>1
  <2>3. QED  BY <1>3, <1>4, <2>2, EmptySeq DEF Represents
<1>6. n \in 1..n /\ n \in 1..Len(s) /\ n - 1 \in Nat
  BY <1>3, <1>5
<1>7. last \in Keys /\ queue.back = items[last] /\ cell[queue.back].key = last
  <2>1. last \in Keys /\ queue.back = items[last]
    BY <1>3, <1>5, <1>6
  <2>2. cell[items[last]] = [key |-> last, value |-> val[last]]
    BY <1>6, <2>1 DEF Core, Holds
  <2>3. QED  BY <2>1, <2>2
<1>8. items' = [items EXCEPT ![last] = Nil]
  BY <1>1, <1>7
<1> DEFINE t == SX!RemoveAt(s, n)
<1>9. queue' \in List /\ t \in Seq(Item) /\ Represents(queue', t)
  <2> HIDE DEF s, n
  <2>1. QED  BY <1>1, <1>3, <1>4, <1>5, <1>6, RemoveRepresents
<1>10. Len(t) = n - 1 /\ \A j \in 1..(n - 1) : t[j] = s[j]
  <2> HIDE DEF s, n
  <2>1. /\ Len(t) = Len(s) - 1
        /\ \A j \in 1..(Len(s) - 1) : t[j] = IF j < n THEN s[j] ELSE s[j + 1]
    BY <1>3, <1>6, RemoveAtElements
  <2> HIDE DEF t
  <2>2. QED  BY <1>3, <2>1
<1>11. Kept' = n - 1
  <2>1. \E q \in Procs : pc'[q] = "insert"
    BY <1>1 DEF Core, TypeOK
  <2>2. Kept' = IF Len(used) < capacity - 1 THEN Len(used) ELSE capacity - 1
    BY <1>1, <2>1 DEF Kept, Room
  <2>3. QED  BY <1>3, <1>5, <2>2
<1>12. \A j \in 1..(n - 1) : j \in 1..n /\ used[j] # last /\ items'[used[j]] = items[used[j]]
  <2> SUFFICES ASSUME NEW j \in 1..(n - 1)
               PROVE  j \in 1..n /\ used[j] # last /\ items'[used[j]] = items[used[j]]
    OBVIOUS
  <2>1. j \in 1..n /\ j \in 1..Len(used) /\ n \in 1..Len(used) /\ j # n
    BY <1>3, <1>6
  <2>2. used[j] # last
    BY <2>1, <1>3 DEF Distinct
  <2>3. QED  BY <1>8, <2>1, <2>2, <1>3, <1>7 DEF Core, TypeOK
<1> DEFINE u == [j \in 1..(n - 1) |-> items'[used[j]]]
<1>13. u = t
  <2>1. \A j \in 1..(n - 1) : u[j] = s[j]
    BY <1>12
  <2>2. \A j \in 1..(n - 1) : items'[used[j]] \in Item
    BY <1>3, <1>12
  <2> HIDE DEF t
  <2>3. u \in Seq(Item) /\ Len(u) = n - 1
    BY <1>6, <2>2
  <2> HIDE DEF u, s
  <2>4. QED  BY <1>9, <1>10, <2>1, <2>3, SeqEqual
<1>14. Represents(queue', [j \in 1..Kept' |-> items'[used'[j]]])
  <2>1. [j \in 1..Kept' |-> items'[used'[j]]] = u
    BY <1>1, <1>11
  <2> HIDE DEF u, t
  <2>2. QED  BY <1>9, <1>13, <2>1
<1>15. ASSUME NEW x \in Keys
       PROVE  IF \E j \in 1..Kept' : used'[j] = x
              THEN items'[x] \in Item /\ cell'[items'[x]] = [key |-> x, value |-> val'[x]]
              ELSE items'[x] = Nil
  <2>1. IF \E j \in 1..n : used[j] = x
        THEN items[x] \in Item /\ cell[items[x]] = [key |-> x, value |-> val[x]]
        ELSE items[x] = Nil
    BY DEF Core, Holds
  <2>2. CASE x = last
    <3>1. ~ \E j \in 1..(n - 1) : used[j] = x
      BY <1>12, <2>2
    <3>2. items'[x] = Nil
      BY <1>7, <1>8, <2>2 DEF Core, TypeOK
    <3>3. QED  BY <1>1, <1>11, <3>1, <3>2
  <2>3. CASE x # last
    <3>1. (\E j \in 1..(n - 1) : used[j] = x) <=> \E j \in 1..n : used[j] = x
      <4>1. ASSUME NEW j \in 1..n, used[j] = x PROVE j \in 1..(n - 1)
        BY <1>6, <2>3, <4>1
      <4>2. \A j \in 1..(n - 1) : j \in 1..n
        BY <1>12
      <4> HIDE DEF n, last
      <4>3. QED  BY <4>1, <4>2
    <3>2. items'[x] = items[x]
      BY <1>8, <2>3 DEF Core, TypeOK
    <3>3. QED  BY <1>1, <1>11, <2>1, <3>1, <3>2
  <2>4. QED  BY <2>2, <2>3
<1>16. TypeOK'
  BY <1>1, <1>8, <1>9 DEF Core, TypeOK, Pointer
<1>17. MutexHeld'
  BY <1>1 DEF Core, TypeOK, MutexHeld, Locked
<1>18. InStep'
  <2>1. ASSUME NEW q \in Procs, q # p
        PROVE  pc'[q] \notin {"lookup", "clear", "touch", "evict", "insert"}
    BY <1>1, <1>2, <2>1 DEF Core, TypeOK, Locked
  <2>2. /\ pc'[p] = "insert" /\ req'[p].op = "Set" /\ capacity' > 0
        /\ req'[p].key \notin S!Cached(used)'
    BY <1>1, <1>2, <1>3, <1>5 DEF Core, TypeOK, S!Cached
  <2>3. QED  BY <2>1, <2>2 DEF InStep
<1>19. Holds(Kept)'
  BY <1>14, <1>15 DEF Holds
<1>20. QED  BY <1>1, <1>3, <1>16, <1>17, <1>18, <1>19 DEF Core

LEMMA ClearKeeps ==
  ASSUME Core, NEW p \in Procs, Clear(p), UNCHANGED capacity
  PROVE  Core'
<1>1. /\ pc[p] = "clear" /\ pc' = [pc EXCEPT ![p] = "unlock"]
      /\ queue' = NewList(queue) /\ items' = [k \in Keys |-> Nil]
      /\ used' = <<>> /\ val' = [k \in Keys |-> NoValue]
      /\ UNCHANGED <<cell, mu, item, req, res>>
  BY DEF Clear, Goto
<1>2. queue' \in List /\ Represents(queue', <<>>)
  BY <1>1, EmptyRepresents DEF Core, TypeOK, NewList, List, Pointer
<1>3. InStep' /\ \A q \in Procs : pc'[q] # "insert"
  BY <1>1, OutOfStep DEF Locked
<1>4. used' \in Seq(Keys) /\ Len(used') = 0 /\ Distinct(used')
  BY <1>1 DEF Distinct
<1>5. capacity \in Nat
  BY KeptFacts
<1>6. Kept' = 0
  BY <1>3, <1>4, <1>5 DEF Kept, Room
<1>7. [j \in 1..Kept' |-> items'[used'[j]]] = <<>> /\ 1..Kept' = {}
  BY <1>6
<1>8. Holds(Kept)'
  <2>1. Represents(queue', [j \in 1..Kept' |-> items'[used'[j]]])
    BY <1>2, <1>7
  <2>2. QED  BY <1>1, <1>7, <2>1 DEF Holds
<1>9. TypeOK'
  BY <1>1, <1>2, <1>4 DEF Core, TypeOK, Pointer
<1>10. MutexHeld'
  BY <1>1 DEF Core, TypeOK, MutexHeld, Locked
<1>11. QED  BY <1>3, <1>4, <1>8, <1>9, <1>10 DEF Core

LEMMA InsertKeeps ==
  ASSUME Core, HeapAssumption, NEW p \in Procs, Insert(p), UNCHANGED capacity
  PROVE  Core'
<1> DEFINE k == req[p].key
           v == req[p].value
           i == NewItem
           n == Kept
           s == [j \in 1..n |-> items[used[j]]]
<1>1. /\ pc[p] = "insert" /\ pc' = [pc EXCEPT ![p] = "unlock"]
      /\ cell' = [cell EXCEPT ![i] = [key |-> k, value |-> v]]
      /\ queue' = PushFront(queue, i)
      /\ items' = [items EXCEPT ![k] = i]
      /\ res' = [res EXCEPT ![p] = FALSE]
      /\ used' = S!Touched(used, k) /\ val' = [val EXCEPT ![k] = v]
      /\ UNCHANGED <<mu, item, req>>
  BY DEF Insert, Goto, Result
<1>2. k \in Keys /\ v \in Values /\ k \notin S!Cached(used) /\ capacity > 0
  BY <1>1, RequestFacts DEF Core, TypeOK, InStep
<1>3. i \in Item /\ \A x \in Keys : items[x] # i
  BY <1>1, NewItemIsFree
<1> HIDE DEF i
<1>4. /\ n \in Nat /\ Len(used) \in Nat /\ n <= Len(used) /\ capacity \in Nat
      /\ n = IF Len(used) < capacity - 1 THEN Len(used) ELSE capacity - 1
      /\ used \in Seq(Keys) /\ Distinct(used)
      /\ s \in Seq(Item) /\ Len(s) = n
      /\ \A j \in 1..n : used[j] \in Keys /\ items[used[j]] \in Item
  BY <1>1, KeptFacts DEF Core
<1>5. Represents(queue, s) /\ queue \in List
  BY DEF Core, Holds, TypeOK
<1>6. PICK m \in 1..(Len(used) + 1) : \A j \in 1..Len(used) : used[j] = k <=> j = m
  BY <1>2, <1>4, PlaceExists
<1>7. m > capacity \/ m = Len(used) + 1
  <2>1. m \in 1..Len(used) => used[m] = k
    BY <1>6
  <2>2. ~ (m \in 1..Len(used) /\ m <= capacity)
    BY <1>2, <2>1 DEF S!Cached
  <2>3. QED  BY <1>4, <2>2
<1>8. /\ used' \in Seq(Keys) /\ Distinct(used') /\ used'[1] = k
      /\ Len(used') = IF m = Len(used) + 1 THEN m ELSE Len(used)
      /\ \A j \in 2..Len(used') : used'[j] = IF j <= m THEN used[j - 1] ELSE used[j]
  BY <1>1, <1>2, <1>4, <1>6, TouchedElements
<1>9. InStep' /\ \A q \in Procs : pc'[q] # "insert"
  BY <1>1, OutOfStep DEF Locked
<1>10. Kept' = n + 1 /\ n + 1 <= Len(used') /\ n + 1 <= m
  <2>1. Kept' = IF Len(used') < capacity THEN Len(used') ELSE capacity
    BY <1>9 DEF Kept, Room
  <2> HIDE DEF n
  <2>2. QED  BY <1>2, <1>4, <1>7, <1>8, <2>1
<1>11. /\ used'[1] = k
       /\ \A j \in 2..(n + 1) : used'[j] = used[j - 1] /\ j - 1 \in 1..n
       /\ \A j \in 1..n : used'[j + 1] = used[j] /\ j + 1 \in 1..(n + 1)
  <2> HIDE DEF n
  <2>1. ASSUME NEW j \in 2..(n + 1)
        PROVE  used'[j] = used[j - 1] /\ j - 1 \in 1..n
    BY <1>4, <1>8, <1>10
  <2>2. ASSUME NEW j \in 1..n
        PROVE  used'[j + 1] = used[j] /\ j + 1 \in 1..(n + 1)
    <3>1. j + 1 \in 2..(n + 1) /\ j + 1 - 1 = j /\ j + 1 \in 1..(n + 1)
      BY <1>4
    <3>2. QED  BY <2>1, <3>1
  <2>3. QED  BY <1>8, <2>1, <2>2
<1>12. \A j \in 1..n : used[j] # k /\ items'[used[j]] = items[used[j]]
  <2>1. ASSUME NEW j \in 1..n PROVE used[j] # k
    BY <1>4, <1>6, <1>10
  <2>2. QED  BY <1>1, <1>4, <2>1 DEF Core, TypeOK
<1>13. items'[k] = i
  BY <1>1, <1>2 DEF Core, TypeOK
<1> DEFINE t == <<i>> \o s
<1>14. queue' \in List /\ t \in Seq(Item) /\ Represents(queue', t)
  <2>1. \A j \in 1..Len(s) : s[j] # i
    BY <1>3, <1>4
  <2> HIDE DEF s
  <2>2. QED  BY <1>1, <1>3, <1>4, <1>5, <2>1, PushFrontRepresents
<1>15. Len(t) = n + 1 /\ t[1] = i /\ \A j \in 2..(n + 1) : t[j] = s[j - 1]
  <2> HIDE DEF s, n
  <2>1. QED  BY <1>3, <1>4
<1> DEFINE u == [j \in 1..(n + 1) |-> items'[used'[j]]]
<1>16. u = t
  <2> HIDE DEF t
  <2>1. ASSUME NEW j \in 1..(n + 1) PROVE u[j] = t[j]
    <3>1. CASE j = 1
      BY <1>11, <1>13, <1>15, <3>1
    <3>2. CASE j # 1
      <4>1. j \in 2..(n + 1) /\ j - 1 \in 1..n
        BY <1>4, <3>2
      <4>2. u[j] = items[used[j - 1]]
        BY <1>11, <1>12, <4>1
      <4>3. t[j] = items[used[j - 1]]
        BY <1>15, <4>1
      <4>4. QED  BY <4>2, <4>3
    <3>3. QED  BY <3>1, <3>2
  <2>2. u \in Seq(Item) /\ Len(u) = n + 1
    <3>1. n + 1 \in Nat /\ \A j \in 1..(n + 1) : items'[used'[j]] \in Item
      <4>1. \A j \in 1..(n + 1) : t[j] \in Item
        BY <1>14, <1>15
      <4>2. \A j \in 1..(n + 1) : u[j] = items'[used'[j]]
        OBVIOUS
      <4>3. n + 1 \in Nat
        BY <1>4
      <4> HIDE DEF u
      <4>4. QED  BY <2>1, <4>1, <4>2, <4>3
    <3>2. QED  BY <3>1
  <2> HIDE DEF u
  <2>3. QED  BY <1>14, <1>15, <2>1, <2>2, SeqEqual
<1>17. Represents(queue', [j \in 1..Kept' |-> items'[used'[j]]])
  <2>1. [j \in 1..Kept' |-> items'[used'[j]]] = u
    BY <1>10
  <2> HIDE DEF u, t
  <2>2. QED  BY <1>14, <1>16, <2>1
<1>18. ASSUME NEW x \in Keys
       PROVE  IF \E j \in 1..Kept' : used'[j] = x
              THEN items'[x] \in Item /\ cell'[items'[x]] = [key |-> x, value |-> val'[x]]
              ELSE items'[x] = Nil
  <2>1. IF \E j \in 1..n : used[j] = x
        THEN items[x] \in Item /\ cell[items[x]] = [key |-> x, value |-> val[x]]
        ELSE items[x] = Nil
    BY DEF Core, Holds
  <2>2. CASE x = k
    <3>1. \E j \in 1..Kept' : used'[j] = x
      <4>1. 1 \in 1..Kept'
        BY <1>4, <1>10
      <4>2. QED  BY <1>11, <2>2, <4>1
    <3>2. cell'[i] = [key |-> x, value |-> val'[x]]
      BY <1>1, <1>2, <1>3, <2>2 DEF Core, TypeOK
    <3>3. QED  BY <1>3, <1>13, <2>2, <3>1, <3>2
  <2>3. CASE x # k
    <3>1. (\E j \in 1..(n + 1) : used'[j] = x) <=> \E j \in 1..n : used[j] = x
      <4>1. ASSUME NEW j \in 1..(n + 1), used'[j] = x
            PROVE  \E a \in 1..n : used[a] = x
        <5>1. j \in 2..(n + 1)
          BY <1>4, <1>11, <2>3, <4>1
        <5>2. QED  BY <1>11, <4>1, <5>1
      <4>2. ASSUME NEW j \in 1..n, used[j] = x
            PROVE  \E a \in 1..(n + 1) : used'[a] = x
        BY <1>11, <4>2
      <4>3. QED  BY <4>1, <4>2
    <3>2. items'[x] = items[x] /\ val'[x] = val[x] /\ items[x] # i
      BY <1>1, <1>3, <2>3 DEF Core, TypeOK
    <3>3. items[x] \in Item => cell'[items[x]] = cell[items[x]]
      BY <1>1, <3>2 DEF Core, TypeOK
    <3>4. QED  BY <1>10, <2>1, <3>1, <3>2, <3>3
  <2>4. QED  BY <2>2, <2>3
<1>19. TypeOK'
  <2>1. cell' \in [Item -> [key : Keys \cup {Nil}, value : Values \cup {NoValue}]]
    BY <1>1, <1>2, <1>3 DEF Core, TypeOK
  <2>2. val' \in [Keys -> Values \cup {NoValue}]
    BY <1>1, <1>2 DEF Core, TypeOK
  <2>3. items' \in [Keys -> Pointer]
    BY <1>1, <1>3 DEF Core, TypeOK, Pointer
  <2>4. res' \in [Procs -> Values \cup {NoValue} \cup BOOLEAN]
    <3> DEFINE w == FALSE
               B == Values \cup {NoValue} \cup BOOLEAN
    <3>1. res' = [res EXCEPT ![p] = w] /\ w \in B /\ res \in [Procs -> B]
      BY <1>1, Zenon DEF Core, TypeOK
    <3> HIDE DEF w, B
    <3>2. res' \in [Procs -> B]
      BY <3>1
    <3>3. QED  BY <3>2 DEF B
  <2>5. QED  BY <1>1, <1>8, <1>14, <2>1, <2>2, <2>3, <2>4 DEF Core, TypeOK
<1>20. MutexHeld'
  BY <1>1 DEF Core, TypeOK, MutexHeld, Locked
<1>21. Holds(Kept)'
  BY <1>17, <1>18 DEF Holds
<1>22. QED  BY <1>8, <1>9, <1>19, <1>20, <1>21 DEF Core
-----------------------------------------------------------------------------
(* The theorems.                                                           *)

LEMMA InitCore == Init => Core
<1> SUFFICES ASSUME Init PROVE Core
  OBVIOUS
<1> USE DEF Init
<1>1. queue \in List
  <2>1. queue.next \in Heap /\ queue.prev \in Heap
    BY DEF Heap, Pointer
  <2>2. QED  BY <2>1 DEF List, Pointer
<1>2. S!NoRequest \in S!Request
  BY DEF S!NoRequest, S!Request
<1>3. used \in Seq(Keys) /\ Len(used) = 0 /\ Distinct(used)
  BY DEF Distinct
<1>4. TypeOK
  <2>1. cell \in [Item -> [key : Keys \cup {Nil}, value : Values \cup {NoValue}]]
    OBVIOUS
  <2>2. QED  BY <1>1, <1>2, <1>3, <2>1 DEF TypeOK, Pointer
<1>5. MutexHeld /\ InStep /\ \A p \in Procs : pc[p] # "insert"
  BY DEF MutexHeld, InStep, Locked
<1>6. Kept = 0
  <2>1. capacity \in Nat
    OBVIOUS
  <2>2. QED  BY <1>3, <1>5, <2>1 DEF Kept, Room
<1>7. [j \in 1..Kept |-> items[used[j]]] = <<>> /\ 1..Kept = {}
  BY <1>6
<1>8. Represents(queue, <<>>)
  BY EmptyRepresents
<1>9. Holds(Kept)
  BY <1>7, <1>8 DEF Holds
<1>10. QED  BY <1>3, <1>4, <1>5, <1>9 DEF Core

LEMMA CoreInductive == Core /\ [Next]_vars => Core'
<1> SUFFICES ASSUME Core, [Next]_vars PROVE Core'
  OBVIOUS
<1>1. CASE UNCHANGED vars
  <2>1. UNCHANGED <<capacity, mu, pc, item, req, res>> /\ UNCHANGED <<data, history>>
    BY <1>1 DEF vars, data, history
  <2>2. TypeOK' /\ MutexHeld' /\ InStep'
    BY <2>1 DEF Core, TypeOK, MutexHeld, InStep, S!Cached, data, history
  <2>3. Distinct(used') /\ Holds(Kept)'
    BY <2>1, HoldsSame
  <2>4. QED  BY <2>2, <2>3 DEF Core
<1>2. CASE Next
  <2>1. PICK p \in Procs : Call(p) \/ Lock(p) \/ Step(p)
    BY <1>2 DEF Next
  <2>2. UNCHANGED capacity
    BY <1>2 DEF Next
  <2>3. CASE Call(p)  BY <2>2, <2>3, CallKeeps
  <2>4. CASE Lock(p)  BY <2>2, <2>4, LockKeeps
  <2>5. CASE Lookup(p)  BY <2>2, <2>5, LookupKeeps
  <2>6. CASE Touch(p)  BY <2>2, <2>6, TouchKeeps
  <2>7. CASE Evict(p)  BY <2>2, <2>7, EvictKeeps
  <2>8. CASE EvictPanics(p)  BY <2>2, <2>8, EvictPanicsKeeps
  <2>9. CASE Insert(p)  BY <2>2, <2>9, InsertKeeps, HeapAssumption
  <2>10. CASE Clear(p)  BY <2>2, <2>10, ClearKeeps
  <2>11. CASE Unlock(p)  BY <2>2, <2>11, UnlockKeeps
  <2>12. QED
    BY <2>1, <2>3, <2>4, <2>5, <2>6, <2>7, <2>8, <2>9, <2>10, <2>11 DEF Step
<1>3. QED  BY <1>1, <1>2

LEMMA CoreHolds == Spec => []Core
BY InitCore, CoreInductive, PTL DEF Spec

\* In every state the lock has one holder, and list and map hold the keys used
\* last, all that fit and no more, in step with each other (cache.go:28-90).
THEOREM InvHolds == Spec => []Inv
<1>1. Core => Inv
  BY WithinCapacity DEF Core, Inv
<1>2. QED  BY <1>1, CoreHolds, PTL

\* Between calls the list is the capacity keys touched last, in that order, and
\* the map leads to their items, with the values set last (cache.go:28-90).
THEOREM CacheIsRecencyPrefixHolds == Spec => []CacheIsRecencyPrefix
<1>1. Core => CacheIsRecencyPrefix
  <2> SUFFICES ASSUME Core, mu = Nil PROVE CacheIsRecencyPrefix
    BY DEF CacheIsRecencyPrefix
  <2>1. \A p \in Procs : pc[p] # "insert"
    BY DEF Core, MutexHeld, Locked
  <2>2. /\ Kept = IF Len(used) < capacity THEN Len(used) ELSE capacity
        /\ Len(used) \in Nat /\ capacity \in Nat /\ used \in Seq(Keys)
        /\ Kept <= Len(used) /\ Kept \in Nat
        /\ \A k \in Keys : items[k] # Nil <=> \E j \in 1..Kept : used[j] = k
    BY <2>1, KeptFacts
  <2>3. Recent \in Seq(Keys) /\ Len(Recent) = Kept /\ \A j \in 1..Kept : Recent[j] = used[j]
    <3>1. Recent = SubSeq(used, 1, Kept)
      BY <2>2 DEF Recent
    <3>2. QED  BY <2>2, <3>1, SubSeqProperties
  <2>4. [j \in 1..Len(Recent) |-> items[Recent[j]]] = [j \in 1..Kept |-> items[used[j]]]
    BY <2>3
  <2>5. \A k \in Keys : k \in S!Cached(used) <=> \E j \in 1..Kept : used[j] = k
    BY <2>1, <2>2, CachedIsHeld
  <2>6. QED  BY <2>4, <2>5 DEF Core, Holds, CacheIsRecencyPrefix
<1>2. QED  BY <1>1, CoreHolds, PTL
-----------------------------------------------------------------------------
(* Each step is one of LRUSpec, or none.                                   *)

Phase(label) == IF label = "idle" THEN "idle" ELSE IF label = "unlock" THEN "done" ELSE "called"
Phases == [p \in Procs |-> Phase(pc[p])]

LEMMA PhasesStep ==
  ASSUME Core, NEW p \in Procs, NEW l, pc' = [pc EXCEPT ![p] = l]
  PROVE  Phases' = [Phases EXCEPT ![p] = Phase(l)]
<1>1. \A q \in Procs : pc'[q] = IF q = p THEN l ELSE pc[q]
  BY DEF Core, TypeOK
<1>2. \A q \in Procs : Phase(pc'[q]) = IF q = p THEN Phase(l) ELSE Phase(pc[q])
  BY <1>1
<1>3. QED  BY <1>2 DEF Phases

LEMMA InitMapped == Init => S!Init
<1> SUFFICES ASSUME Init PROVE S!Init
  OBVIOUS
<1>1. [p \in Procs |-> IF pc[p] = "idle" THEN "idle"
                       ELSE IF pc[p] = "unlock" THEN "done" ELSE "called"]
      = [p \in Procs |-> "idle"]
  BY DEF Init
<1>2. QED  BY <1>1 DEF Init, S!Init

\* A step that changes nothing LRUSpec sees.
LEMMA Stutters ==
  ASSUME Core, NEW p \in Procs, NEW l, pc' = [pc EXCEPT ![p] = l],
         Phase(l) = Phase(pc[p]), UNCHANGED <<capacity, used, val, req, res>>
  PROVE  UNCHANGED S!vars
<1>1. Phases' = Phases
  <2>1. Phases[p] = Phase(pc[p])
    BY DEF Phases
  <2>2. Phases' = [Phases EXCEPT ![p] = Phases[p]]
    BY <2>1, PhasesStep
  <2>3. QED  BY <2>2 DEF Phases
<1>2. QED  BY <1>1 DEF S!vars, Phases, Phase

LEMMA CallMapped ==
  ASSUME Core, NEW p \in Procs, Call(p), UNCHANGED capacity
  PROVE  S!Next
<1>1. /\ pc[p] = "idle" /\ pc' = [pc EXCEPT ![p] = "lock"]
      /\ \E r \in S!Request : req' = [req EXCEPT ![p] = r]
      /\ UNCHANGED <<used, val, res>>
  BY DEF Call, Goto, history
<1>2. Phases[p] = "idle" /\ Phases' = [Phases EXCEPT ![p] = "called"]
  <2>1. pc' = [pc EXCEPT ![p] = "lock"] /\ Phase("lock") = "called"
    BY <1>1 DEF Phase
  <2>2. Phases' = [Phases EXCEPT ![p] = Phase("lock")]
    BY <2>1, PhasesStep
  <2>3. QED  BY <1>1, <2>1, <2>2 DEF Phases, Phase
<1>3. S!Call(p)
  BY <1>1, <1>2 DEF S!Call, Phases, Phase
<1>4. QED  BY <1>3 DEF S!Next

LEMMA UnlockMapped ==
  ASSUME Core, NEW p \in Procs, Unlock(p), UNCHANGED capacity
  PROVE  S!Next
<1>1. /\ pc[p] = "unlock" /\ pc' = [pc EXCEPT ![p] = "idle"]
      /\ req' = [req EXCEPT ![p] = S!NoRequest]
      /\ res' = [res EXCEPT ![p] = NoValue]
      /\ UNCHANGED <<used, val>>
  BY DEF Unlock, Goto, Result, history
<1>2. Phases[p] = "done" /\ Phases' = [Phases EXCEPT ![p] = "idle"]
  BY <1>1, PhasesStep DEF Phases, Phase
<1>3. S!Return(p)
  BY <1>1, <1>2 DEF S!Return, Phases, Phase
<1>4. QED  BY <1>3 DEF S!Next

\* The steps that have an effect end with the result: what is left to show is
\* that LRUSpec gives the call this effect.
LEMMA EffectMapped ==
  ASSUME Core, NEW p \in Procs, pc[p] \in Locked \ {"unlock"},
         pc' = [pc EXCEPT ![p] = "unlock"], UNCHANGED <<req, capacity>>,
         S!Set(p) \/ S!Get(p) \/ S!Clear(p)
  PROVE  S!Next
<1>1. Phases[p] = "called" /\ Phases' = [Phases EXCEPT ![p] = "done"]
  BY PhasesStep DEF Phases, Phase, Locked
<1>2. S!TakeEffect(p)
  BY <1>1 DEF S!TakeEffect, Phases, Phase
<1>3. QED  BY <1>2 DEF S!Next

LEMMA LookupMapped ==
  ASSUME Core, NEW p \in Procs, Lookup(p), UNCHANGED capacity
  PROVE  [S!Next]_(S!vars)
<1> DEFINE found == items[req[p].key]
           next == IF found # Nil THEN "touch"
                   ELSE IF req[p].op = "Get" THEN "unlock"
                   ELSE IF queue.length = capacity THEN "evict" ELSE "insert"
<1>1. /\ pc[p] = "lookup" /\ pc' = [pc EXCEPT ![p] = next]
      /\ UNCHANGED <<req, res, used, val>>
  BY DEF Lookup, LookupWith, Missed, Goto, history
<1>2. CASE next # "unlock"
  <2>1. Phase(next) = Phase(pc[p])
    BY <1>1, <1>2 DEF Phase
  <2>2. QED  BY <1>1, <2>1, Stutters
<1>3. CASE next = "unlock"
  <2>1. req[p].op = "Get" /\ found = Nil
    BY <1>3
  <2>2. req[p].key \notin S!Cached(used)
    BY <1>1, <2>1, LookupFacts
  <2>3. S!Get(p)
    BY <1>1, <2>1, <2>2 DEF S!Get
  <2>4. QED  BY <1>1, <1>3, <2>3, EffectMapped DEF Locked
<1>4. QED  BY <1>2, <1>3

LEMMA TouchMapped ==
  ASSUME Core, NEW p \in Procs, Touch(p), UNCHANGED capacity
  PROVE  S!Next
<1> DEFINE k == req[p].key
<1>1. /\ pc[p] = "touch" /\ pc' = [pc EXCEPT ![p] = "unlock"]
      /\ res' = [res EXCEPT ![p] = IF req[p].op = "Set" THEN TRUE ELSE Value(p)]
      /\ used' = S!Touched(used, k)
      /\ val' = [val EXCEPT ![k] = IF req[p].op = "Set" THEN req[p].value ELSE Value(p)]
      /\ UNCHANGED req
  BY DEF Touch, Goto, Result
<1>2. /\ k \in Keys /\ req[p].op \in {"Set", "Get"}
      /\ k \in S!Cached(used) /\ Value(p) = val[k]
  BY <1>1, TouchFacts
<1>3. CASE req[p].op = "Set"
  <2>1. (k \in S!Cached(used)) = TRUE
    BY <1>2, Zenon
  <2>2. res' = [res EXCEPT ![p] = k \in S!Cached(used)]
    BY <1>1, <1>3, <2>1, Zenon
  <2>3. val' = [val EXCEPT ![k] = req[p].value]
    BY <1>1, <1>3
  <2>4. S!Set(p)
    BY <1>1, <1>3, <2>2, <2>3, Zenon DEF S!Set
  <2>5. QED  BY <1>1, <2>4, EffectMapped DEF Locked
<1>4. CASE req[p].op # "Set"
  <2>1. req[p].op = "Get"
    BY <1>2, <1>4
  <2>2. val' = val
    BY <1>1, <1>2, <1>4 DEF Core, TypeOK
  <2>3. res' = [res EXCEPT ![p] = val[k]]
    BY <1>1, <1>2, <1>4, Zenon
  <2>4. S!Get(p)
    BY <1>1, <1>2, <2>1, <2>2, <2>3, Zenon DEF S!Get
  <2>5. QED  BY <1>1, <2>4, EffectMapped DEF Locked
<1>5. QED  BY <1>3, <1>4

LEMMA InsertMapped ==
  ASSUME Core, NEW p \in Procs, Insert(p), UNCHANGED capacity
  PROVE  S!Next
<1> DEFINE k == req[p].key
<1>1. /\ pc[p] = "insert" /\ pc' = [pc EXCEPT ![p] = "unlock"]
      /\ res' = [res EXCEPT ![p] = FALSE]
      /\ used' = S!Touched(used, k)
      /\ val' = [val EXCEPT ![k] = req[p].value]
      /\ UNCHANGED req
  BY DEF Insert, Goto, Result
<1>2. req[p].op = "Set" /\ k \notin S!Cached(used)
  BY <1>1 DEF Core, InStep
<1>3. (k \in S!Cached(used)) = FALSE
  <2>1. k \in S!Cached(used) <=> FALSE
    BY <1>2
  <2>2. QED  BY <2>1
<1>4. res' = [res EXCEPT ![p] = k \in S!Cached(used)]
  BY <1>1, <1>3, Zenon
<1>5. S!Set(p)
  BY <1>1, <1>2, <1>4, Zenon DEF S!Set
<1>6. QED  BY <1>1, <1>5, EffectMapped DEF Locked

LEMMA ClearMapped ==
  ASSUME Core, NEW p \in Procs, Clear(p), UNCHANGED capacity
  PROVE  S!Next
<1>1. /\ pc[p] = "clear" /\ pc' = [pc EXCEPT ![p] = "unlock"]
      /\ used' = <<>> /\ val' = [k \in Keys |-> NoValue]
      /\ UNCHANGED <<req, res>>
  BY DEF Clear, Goto
<1>2. S!Clear(p)
  BY <1>1 DEF Core, InStep, S!Clear
<1>3. QED  BY <1>1, <1>2, EffectMapped DEF Locked

\* Every call of every goroutine has the result that LRUSpec gives it at one
\* instant between its start and its return (cache.go:28-90).
THEOREM Implements == Spec => RefinesLRU
<1>1. Core /\ [Next]_vars => [S!Next]_(S!vars)
  <2> SUFFICES ASSUME Core, [Next]_vars PROVE [S!Next]_(S!vars)
    OBVIOUS
  <2>1. CASE UNCHANGED vars
    BY <2>1 DEF vars, S!vars
  <2>2. CASE Next
    <3>1. PICK p \in Procs : Call(p) \/ Lock(p) \/ Step(p)
      BY <2>2 DEF Next
    <3>2. UNCHANGED capacity
      BY <2>2 DEF Next
    <3>3. CASE Call(p)  BY <3>2, <3>3, CallMapped
    <3>4. CASE Lock(p)
      <4>1. /\ pc[p] = "lock" /\ pc' = [pc EXCEPT ![p] = Body(p)]
            /\ UNCHANGED <<capacity, used, val, req, res>>
        BY <3>2, <3>4 DEF Lock, LockUnguarded, Goto, history
      <4>2. Phase(Body(p)) = Phase(pc[p])
        BY <4>1 DEF Body, Phase
      <4>3. QED  BY <4>1, <4>2, Stutters
    <3>5. CASE Lookup(p)  BY <3>2, <3>5, LookupMapped
    <3>6. CASE Touch(p)  BY <3>2, <3>6, TouchMapped
    <3>7. CASE Evict(p)
      <4>1. /\ pc[p] = "evict" /\ pc' = [pc EXCEPT ![p] = "insert"]
            /\ UNCHANGED <<capacity, used, val, req, res>>
        BY <3>2, <3>7 DEF Evict, EvictWith, Goto, history
      <4>2. QED  BY <4>1, Stutters DEF Phase
    <3>8. CASE EvictPanics(p)
      <4>1. /\ pc[p] = "evict" /\ pc' = [pc EXCEPT ![p] = "panic"]
            /\ UNCHANGED <<capacity, used, val, req, res>>
        BY <3>2, <3>8 DEF EvictPanics, Goto, history
      <4>2. QED  BY <4>1, Stutters DEF Phase
    <3>9. CASE Insert(p)  BY <3>2, <3>9, InsertMapped
    <3>10. CASE Clear(p)  BY <3>2, <3>10, ClearMapped
    <3>11. CASE Unlock(p)  BY <3>2, <3>11, UnlockMapped
    <3>12. QED
      BY <3>1, <3>3, <3>4, <3>5, <3>6, <3>7, <3>8, <3>9, <3>10, <3>11 DEF Step
  <2>3. QED  BY <2>1, <2>2
<1>2. QED  BY InitMapped, CoreHolds, <1>1, PTL DEF Spec, RefinesLRU, S!Spec
=============================================================================
