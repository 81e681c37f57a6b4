------------------------- MODULE Sequential_proofs --------------------------
(***************************************************************************)
(* Unpack, GetDomainStat, the envdir tool, Top10 and Validate for inputs   *)
(* of any length. Each is a loop, so each has a loop invariant: what the   *)
(* part of the input read so far has made of the variables. The result     *)
(* follows where the loop ends.                                            *)
(***************************************************************************)
EXTENDS DomainStat, EnvDir, TopWords, Unpack, Validator,
        FiniteSetTheorems, SequenceTheorems, WellFoundedInduction, TLAPS

\* A set of natural numbers has a least one.
LEMMA LeastExists ==
  ASSUME NEW I, I \subseteq Nat, I # {}
  PROVE  \E i \in I : \A k \in I : i <= k
<1>1. \E i \in I : \A k \in I : ~(<<k, i>> \in OpToRel(<, Nat))
  BY WFMin, NatLessThanWellFounded
<1>2. \A i, k \in Nat : k < i => <<k, i>> \in OpToRel(<, Nat)
  BY DEF OpToRel
<1>3. PICK i \in I : \A k \in I : ~(<<k, i>> \in OpToRel(<, Nat))
  BY <1>1
<1>4. ASSUME NEW k \in I PROVE i <= k
  <2>1. i \in Nat /\ k \in Nat /\ ~(k < i)
    BY <1>2, <1>3
  <2>2. QED  BY <2>1
<1>5. QED  BY <1>4

\* Where d stands among the first n elements of s.
Places(s, d, n) == {i \in 1..n : s[i] = d}

LEMMA PlacesNext ==
  ASSUME NEW s, NEW d, NEW n \in Nat
  PROVE  /\ IsFiniteSet(Places(s, d, n)) /\ Cardinality(Places(s, d, n)) \in Nat
         /\ Cardinality(Places(s, d, n + 1)) = Cardinality(Places(s, d, n))
                                                 + (IF s[n + 1] = d THEN 1 ELSE 0)
<1>1. IsFiniteSet(Places(s, d, n))
  <2>1. Places(s, d, n) \in SUBSET (1..n) /\ IsFiniteSet(1..n)
    BY FS_Interval DEF Places
  <2>2. QED  BY <2>1, FS_Subset
<1>2. Cardinality(Places(s, d, n)) \in Nat
  BY <1>1, FS_CardinalityType
<1>3. CASE s[n + 1] = d
  <2>1. Places(s, d, n + 1) = Places(s, d, n) \cup {n + 1} /\ n + 1 \notin Places(s, d, n)
    BY <1>3 DEF Places
  <2>2. QED  BY <1>1, <1>2, <1>3, <2>1, FS_AddElement
<1>4. CASE s[n + 1] # d
  <2>1. Places(s, d, n + 1) = Places(s, d, n)
    BY <1>4 DEF Places
  <2>2. QED  BY <1>1, <1>2, <1>4, <2>1
<1>5. QED  BY <1>1, <1>2, <1>3, <1>4
-----------------------------------------------------------------------------
(* Unpack (hw02): first FlattenSeq, of which the meaning of a string is made. *)

\* f[i] is what the first i elements of s, up to n of them, make together: the
\* recursion inside FlattenSeq.
Flattens(f, s, n) == f = [i \in 1..n |-> IF i = 1 THEN s[i] ELSE f[i - 1] \o s[i]]

\* The recursion defines a function, for a least number for which it did not
\* would follow one for which it does.
LEMMA FlattensExists ==
  ASSUME NEW s, NEW n \in Nat
  PROVE  \E f : Flattens(f, s, n)
<1> DEFINE Without == {m \in Nat : ~\E f : Flattens(f, s, m)}
<1> SUFFICES ASSUME Without # {} PROVE FALSE
  OBVIOUS
<1>1. Without \subseteq Nat
  OBVIOUS
<1> HIDE DEF Without
<1>2. PICK m \in Without : \A k \in Without : m <= k
  BY <1>1, LeastExists
<1>3. m \in Nat /\ ~\E f : Flattens(f, s, m)
  BY <1>2 DEF Without
<1>4. m # 0
  <2>1. Flattens(<<>>, s, 0)
    BY DEF Flattens
  <2>2. QED  BY <1>3, <2>1
<1>5. m - 1 \in Nat /\ m - 1 \notin Without
  BY <1>2, <1>3, <1>4
<1>6. PICK f : Flattens(f, s, m - 1)
  BY <1>5 DEF Without
<1> DEFINE g == [i \in 1..m |-> IF i < m THEN f[i] ELSE IF i = 1 THEN s[i] ELSE f[i - 1] \o s[i]]
<1>7. ASSUME NEW i \in 1..m PROVE g[i] = IF i = 1 THEN s[i] ELSE g[i - 1] \o s[i]
  <2>1. CASE i = m
    BY <1>3, <1>4, <2>1
  <2>2. CASE i < m
    <3>1. i \in 1..(m - 1)
      BY <1>3, <2>2
    <3>2. f[i] = IF i = 1 THEN s[i] ELSE f[i - 1] \o s[i]
      BY <1>6, <3>1 DEF Flattens
    <3>3. QED  BY <1>3, <2>2, <3>1, <3>2
  <2>3. QED  BY <1>3, <2>1, <2>2
<1>8. Flattens(g, s, m)
  BY <1>7 DEF Flattens
<1>9. QED  BY <1>3, <1>8

\* A longer sequence with the same beginning flattens alike up to there.
LEMMA FlattensSame ==
  ASSUME NEW s, NEW t, NEW f, NEW g, NEW n \in Nat, NEW m \in Nat, n <= m,
         \A i \in 1..n : s[i] = t[i], Flattens(f, s, n), Flattens(g, t, m)
  PROVE  \A i \in 1..n : f[i] = g[i]
<1> DEFINE Differ == {i \in 1..n : f[i] # g[i]}
<1> SUFFICES ASSUME Differ # {} PROVE FALSE
  OBVIOUS
<1>1. Differ \subseteq Nat
  OBVIOUS
<1> HIDE DEF Differ
<1>2. PICK i \in Differ : \A k \in Differ : i <= k
  BY <1>1, LeastExists
<1>3. i \in 1..n /\ i \in 1..m /\ f[i] # g[i]
  BY <1>2 DEF Differ
<1>4. /\ f[i] = IF i = 1 THEN s[i] ELSE f[i - 1] \o s[i]
      /\ g[i] = IF i = 1 THEN t[i] ELSE g[i - 1] \o t[i]
  BY <1>3 DEF Flattens
<1>5. i # 1 => f[i - 1] = g[i - 1]
  <2>1. i # 1 => i - 1 \in 1..n /\ i - 1 \notin Differ
    BY <1>2, <1>3
  <2>2. QED  BY <2>1 DEF Differ
<1>6. QED  BY <1>3, <1>4, <1>5

LEMMA FlattenIs ==
  ASSUME NEW s, Len(s) \in Nat, Len(s) # 0
  PROVE  \E f : Flattens(f, s, Len(s)) /\ Strings!FlattenSeq(s) = f[Len(s)]
<1> DEFINE f == CHOOSE f : Flattens(f, s, Len(s))
<1>1. Flattens(f, s, Len(s))
  BY FlattensExists
<1>2. Strings!FlattenSeq(s) = f[Len(s)]
  BY DEF Strings!FlattenSeq, Flattens
<1>3. QED  BY <1>1, <1>2

\* One more element comes last.
LEMMA FlattenNext ==
  ASSUME NEW s, NEW t, NEW n \in Nat, Len(s) = n, Len(t) = n + 1, n # 0,
         \A i \in 1..n : s[i] = t[i]
  PROVE  Strings!FlattenSeq(t) = Strings!FlattenSeq(s) \o t[n + 1]
<1>1. PICK f : Flattens(f, s, n) /\ Strings!FlattenSeq(s) = f[n]
  BY FlattenIs
<1>2. PICK g : Flattens(g, t, n + 1) /\ Strings!FlattenSeq(t) = g[n + 1]
  BY FlattenIs
<1>3. f[n] = g[n]
  BY <1>1, <1>2, FlattensSame
<1>4. g[n + 1] = g[n] \o t[n + 1]
  <2>1. n + 1 \in 1..(n + 1) /\ n + 1 # 1 /\ (n + 1) - 1 = n
    OBVIOUS
  <2>2. QED  BY <1>2, <2>1 DEF Flattens
<1>5. QED  BY <1>1, <1>2, <1>3, <1>4

LEMMA FlattenOne ==
  ASSUME NEW t, Len(t) = 1
  PROVE  Strings!FlattenSeq(t) = t[1]
<1>1. Len(t) \in Nat /\ Len(t) # 0
  OBVIOUS
<1>2. \E g : Flattens(g, t, Len(t)) /\ Strings!FlattenSeq(t) = g[Len(t)]
  BY <1>1, FlattenIs
<1>3. PICK g : Flattens(g, t, 1) /\ Strings!FlattenSeq(t) = g[1]
  BY <1>2
<1>4. QED  BY <1>3 DEF Flattens

\* Sequences over S make a sequence over S.
LEMMA FlattenType ==
  ASSUME NEW S, NEW s \in Seq(Seq(S))
  PROVE  Strings!FlattenSeq(s) \in Seq(S)
<1>0. Len(s) \in Nat /\ \A i \in 1..Len(s) : s[i] \in Seq(S)
  BY LenProperties
<1>1. CASE Len(s) = 0
  <2>1. s = <<>>
    BY <1>1, EmptySeq
  <2>2. QED  BY <1>1, <2>1 DEF Strings!FlattenSeq
<1>2. CASE Len(s) # 0
  <2>1. PICK f : Flattens(f, s, Len(s)) /\ Strings!FlattenSeq(s) = f[Len(s)]
    BY <1>0, <1>2, FlattenIs
  <2> DEFINE Not == {i \in 1..Len(s) : f[i] \notin Seq(S)}
  <2>2. Not = {}
    <3> SUFFICES ASSUME Not # {} PROVE FALSE
      OBVIOUS
    <3>1. Not \subseteq Nat
      OBVIOUS
    <3> HIDE DEF Not
    <3>2. PICK i \in Not : \A k \in Not : i <= k
      BY <3>1, LeastExists
    <3>3. i \in 1..Len(s) /\ f[i] \notin Seq(S)
      BY <3>2 DEF Not
    <3>4. f[i] = IF i = 1 THEN s[i] ELSE f[i - 1] \o s[i]
      BY <2>1, <3>3 DEF Flattens
    <3>5. i # 1 => i - 1 \in 1..Len(s) /\ i - 1 \notin Not
      BY <1>0, <3>2, <3>3
    <3>6. i # 1 => f[i - 1] \in Seq(S)
      BY <3>5 DEF Not
    <3>7. s[i] \in Seq(S)
      BY <1>0, <3>3
    <3>8. CASE i = 1
      BY <3>3, <3>4, <3>7, <3>8
    <3>9. CASE i # 1
      BY <3>3, <3>4, <3>6, <3>7, <3>9, ConcatProperties
    <3>10. QED  BY <3>8, <3>9
  <2>3. QED  BY <1>0, <1>2, <2>1, <2>2
<1>3. QED  BY <1>1, <1>2
-----------------------------------------------------------------------------
LEMMA TwoRunes ==
  ASSUME NEW a, NEW b
  PROVE  <<a>> \o <<b>> = <<a, b>>
<1> DEFINE s == <<a>> \o <<b>>
           t == <<a, b>>
<1>1. <<a>> \in Seq({a, b}) /\ <<b>> \in Seq({a, b}) /\ t \in Seq({a, b})
  OBVIOUS
<1>2. Len(<<a>>) = 1 /\ Len(<<b>>) = 1 /\ Len(t) = 2 /\ t[1] = a /\ t[2] = b
  OBVIOUS
<1>3. /\ s \in Seq({a, b}) /\ Len(s) = 2
      /\ \A i \in 1..2 : s[i] = IF i <= 1 THEN <<a>>[i] ELSE <<b>>[i - 1]
  BY <1>1, <1>2, ConcatProperties
<1>4. s[1] = a /\ s[2] = b
  BY <1>3
<1> HIDE DEF s, t
<1>5. \A i \in 1..Len(s) : s[i] = t[i]
  BY <1>2, <1>3, <1>4
<1>6. s = t
  BY <1>1, <1>2, <1>3, <1>5, SeqEqual
<1>7. QED  BY <1>6 DEF s, t

\* The rune behind a backslash is escaped unless the backslash itself is: the
\* automaton's way to find the parity of a run of backslashes.
LEMMA EscapedNext ==
  ASSUME NEW i \in Nat \ {0}
  PROVE  Escaped(i + 1) <=> input[i] = Slash /\ ~Escaped(i)
<1>0. \A n \in Nat : n % 2 \in {0, 1} /\ ((n + 1) % 2 = 1 <=> n % 2 = 0)
  OBVIOUS
<1>1. ASSUME Escaped(i + 1) PROVE input[i] = Slash /\ ~Escaped(i)
  <2>1. PICK n \in 1..i : /\ n % 2 = 1 /\ \A k \in (i + 1 - n)..i : input[k] = Slash
                          /\ i + 1 - n = 1 \/ input[i - n] # Slash
    BY <1>1 DEF Escaped
  <2>2. input[i] = Slash
    BY <2>1
  <2>3. ASSUME NEW m \in 1..(i - 1), m % 2 = 1, \A k \in (i - m)..(i - 1) : input[k] = Slash,
               i - m = 1 \/ input[i - m - 1] # Slash
        PROVE  FALSE
    <3>1. CASE n = m + 1
      BY <1>0, <2>1, <2>3, <3>1
    <3>2. CASE n > m + 1
      <4>1. i - m - 1 \in (i + 1 - n)..i /\ i - m # 1
        BY <3>2
      <4>2. QED  BY <2>1, <2>3, <4>1
    <3>3. CASE n < m + 1
      <4>1. i - n \in (i - m)..(i - 1) /\ i + 1 - n # 1
        BY <3>3
      <4>2. QED  BY <2>1, <2>3, <4>1
    <3>4. QED  BY <3>1, <3>2, <3>3
  <2>4. QED  BY <2>2, <2>3 DEF Escaped
<1>2. ASSUME input[i] = Slash, ~Escaped(i) PROVE Escaped(i + 1)
  <2> DEFINE Starts == {s \in 1..i : \A k \in s..i : input[k] = Slash}
  <2>1. Starts \subseteq Nat /\ i \in Starts
    BY <1>2
  <2>2. \E s \in Starts : \A k \in Starts : s <= k
    <3> HIDE DEF Starts
    <3>1. QED  BY <2>1, LeastExists
  <2>3. PICK s \in 1..i : /\ \A k \in s..i : input[k] = Slash
                          /\ \A r \in Starts : s <= r
    BY <2>2
  <2>4. s = 1 \/ input[s - 1] # Slash
    <3> SUFFICES ASSUME s # 1, input[s - 1] = Slash PROVE FALSE
      OBVIOUS
    <3>1. s - 1 \in 1..i /\ \A k \in (s - 1)..i : k = s - 1 \/ k \in s..i
      OBVIOUS
    <3>2. s - 1 \in Starts
      BY <2>3, <3>1
    <3>3. QED  BY <2>3, <3>2
  <2> DEFINE n == i + 1 - s
  <2>5. n \in 1..i /\ i + 1 - n = s /\ i - (n - 1) = s
    OBVIOUS
  <2>6. CASE n % 2 = 1
    <3>1. (i + 1) - n = s /\ (i + 1) - 1 = i /\ (i + 1) - n - 1 = s - 1
      OBVIOUS
    <3>2. QED  BY <2>3, <2>4, <2>5, <2>6, <3>1 DEF Escaped
  <2>7. CASE n % 2 = 0
    <3> DEFINE m == n - 1
    <3>1. m \in Nat /\ m + 1 = n
      BY <2>5
    <3>2. m % 2 = 1
      <4> HIDE DEF m, n
      <4>1. QED  BY <1>0, <2>7, <3>1
    <3>3. m # 0
      <4> HIDE DEF m
      <4>1. QED  BY <3>2
    <3>4. m \in 1..(i - 1) /\ i - m = s /\ i - m - 1 = s - 1
      BY <2>5, <3>1, <3>3
    <3> HIDE DEF m
    <3>5. \A k \in (i - m)..(i - 1) : input[k] = Slash
      BY <2>3, <3>4
    <3>6. Escaped(i)
      BY <2>4, <3>2, <3>4, <3>5 DEF Escaped
    <3>7. QED  BY <1>2, <3>6
  <2>8. n % 2 \in {0, 1}
    <3> HIDE DEF n
    <3>1. QED  BY <1>0, <2>5
  <2>9. QED  BY <2>6, <2>7, <2>8
<1>3. QED  BY <1>1, <1>2

LEMMA FirstNotEscaped == ~Escaped(1)
BY DEF Escaped
-----------------------------------------------------------------------------
LEMMA RepeatType ==
  ASSUME NEW S, NEW str \in Seq(S), NEW times \in Nat
  PROVE  Repeat(str, times) \in Seq(S)
<1>1. [k \in 1..times |-> str] \in Seq(Seq(S))
  OBVIOUS
<1>2. QED  BY <1>1, FlattenType DEF Repeat

LEMMA RepeatOnce ==
  ASSUME NEW str
  PROVE  Repeat(str, 1) = str
<1> DEFINE s == [k \in 1..1 |-> str]
<1>1. Len(s) = 1 /\ s[1] = str
  OBVIOUS
<1> HIDE DEF s
<1>2. Strings!FlattenSeq(s) = str
  BY <1>1, FlattenOne
<1>3. QED  BY <1>2 DEF Repeat, s

LEMMA UnpackedNone == Unpacked(0) = <<>>
<1>1. [i \in 1..0 |-> Piece(i)] = <<>> /\ Len(<<>>) = 0
  OBVIOUS
<1>2. QED  BY <1>1 DEF Unpacked, Strings!FlattenSeq

\* A rune more adds its piece.
LEMMA UnpackedNext ==
  ASSUME NEW n \in Nat, NEW S, Piece(n + 1) \in Seq(S)
  PROVE  Unpacked(n + 1) = Unpacked(n) \o Piece(n + 1)
<1> DEFINE s == [i \in 1..n |-> Piece(i)]
           t == [i \in 1..(n + 1) |-> Piece(i)]
<1>1. Len(s) = n /\ Len(t) = n + 1 /\ (\A i \in 1..n : s[i] = t[i]) /\ t[n + 1] = Piece(n + 1)
  OBVIOUS
<1>2. Unpacked(n) = Strings!FlattenSeq(s) /\ Unpacked(n + 1) = Strings!FlattenSeq(t)
  BY DEF Unpacked
<1> HIDE DEF s, t
<1>3. CASE n = 0
  <2>1. Unpacked(n + 1) = Piece(n + 1)
    BY <1>1, <1>2, <1>3, FlattenOne
  <2>2. Unpacked(n) = <<>>
    BY <1>3, UnpackedNone
  <2>3. QED  BY <2>1, <2>2
<1>4. CASE n # 0
  BY <1>1, <1>2, <1>4, FlattenNext
<1>5. QED  BY <1>3, <1>4
-----------------------------------------------------------------------------
UnpackTypeOK ==
  /\ input \in Seq(Rune) /\ next \in 1..(Len(input) + 1)
  /\ previousType \in {"EMPTY", "SLASH", "RUNE", "DIGIT"}
  /\ built \in Seq(Rune)
  /\ unpackRet \in {"none", "ok", "invalid"}

\* A count, if rune i is one, counts a symbol and can be parsed.
GoodCount(i) == IsCount(i) => i > 1 /\ IsSymbol(i - 1) /\ input[i] # Foreign

\* What each state of the automaton knows of the runes read, the first n - 1.
StateMeans(n) ==
  /\ previousType # "DIGIT" => \A i \in 1..(n - 1) : GoodCount(i)
  /\ previousType = "EMPTY" => (n = 1 \/ IsCount(n - 1)) /\ built = Unpacked(n - 1)
  /\ previousType = "SLASH" => /\ n > 1 /\ input[n - 1] = Slash /\ ~Escaped(n - 1)
                               /\ previousChar = <<Slash>> /\ built = Unpacked(n - 1)
  /\ previousType = "RUNE"  => /\ n > 1 /\ IsSymbol(n - 1) /\ previousChar = Unit(n - 1)
                               /\ built = Unpacked(n - 2)
  /\ previousType = "DIGIT" => n > 1 /\ ~GoodCount(n - 1)

UnpackInv ==
  /\ UnpackTypeOK
  /\ unpackRet = "none" => StateMeans(next)
  /\ UnpackMeans

LEMMA TypesOfRunes ==
  ASSUME NEW c
  PROVE  /\ DefineRuneType(c) \in {"DIGIT", "SLASH", "RUNE"}
         /\ DefineRuneType(c) = "SLASH" <=> c = Slash
         /\ DefineRuneType(c) = "DIGIT" <=> c \in 0..9 \union {Foreign}
BY RuneAssumption DEF DefineRuneType

\* What is known of rune n by what stands before it.
LEMMA RuneFacts ==
  ASSUME UnpackTypeOK, NEW n \in 1..Len(input)
  PROVE  /\ Escaped(n) <=> n > 1 /\ input[n - 1] = Slash /\ ~Escaped(n - 1)
         /\ Unit(n) \in Seq(Rune)
         /\ ~Escaped(n) => Unit(n) = <<input[n]>>
         /\ ~IsSymbol(n) => Piece(n) = <<>>
         /\ IsSymbol(n) => ~IsCount(n)
         /\ IsSymbol(n) /\ (n = Len(input) \/ ~IsCount(n + 1)) => Piece(n) = Unit(n)
         /\ IsSymbol(n) /\ n < Len(input) /\ IsCount(n + 1) => Piece(n) = Repeat(Unit(n), input[n + 1])
<1>0. Len(input) \in Nat /\ input[n] \in Rune /\ \A i \in 1..Len(input) : input[i] \in Rune
  BY LenProperties DEF UnpackTypeOK
<1>1. Escaped(n) <=> n > 1 /\ input[n - 1] = Slash /\ ~Escaped(n - 1)
  <2>1. CASE n = 1
    BY <2>1, FirstNotEscaped
  <2>2. CASE n > 1
    <3> DEFINE i == n - 1
    <3>1. i \in Nat \ {0} /\ i + 1 = n
      BY <2>2
    <3> HIDE DEF i
    <3>2. Escaped(n) <=> input[i] = Slash /\ ~Escaped(i)
      BY <3>1, EscapedNext
    <3>3. QED  BY <2>2, <3>2 DEF i
  <2>3. QED  BY <2>1, <2>2
<1>2. Unit(n) \in Seq(Rune)
  <2>1. CASE Escaped(n)
    <3>1. Slash \in Rune
      BY <1>0, <1>1, <2>1
    <3>2. QED  BY <1>0, <3>1 DEF Unit
  <2>2. CASE ~Escaped(n)
    BY <1>0, <2>2 DEF Unit
  <2>3. QED  BY <2>1, <2>2
<1>3. ~Escaped(n) => Unit(n) = <<input[n]>>
  BY DEF Unit
<1>4. ~IsSymbol(n) => Piece(n) = <<>>
  BY DEF Piece
<1>5. IsSymbol(n) => ~IsCount(n)
  BY DEF IsSymbol, IsCount
<1>6. IsSymbol(n) /\ (n = Len(input) \/ ~IsCount(n + 1)) => Piece(n) = Unit(n)
  <2>1. n = Len(input) \/ ~IsCount(n + 1) => Times(n) = 1
    BY <1>0 DEF Times
  <2>2. QED  BY <2>1, RepeatOnce DEF Piece
<1>7. IsSymbol(n) /\ n < Len(input) /\ IsCount(n + 1) => Piece(n) = Repeat(Unit(n), input[n + 1])
  BY DEF Times, Piece
<1>8. QED  BY <1>1, <1>2, <1>3, <1>4, <1>5, <1>6, <1>7

\* A rune that stands for nothing adds nothing.
LEMMA NothingMore ==
  ASSUME UnpackTypeOK, NEW n \in 1..Len(input), ~IsSymbol(n), built = Unpacked(n - 1)
  PROVE  built = Unpacked(n)
<1> DEFINE m == n - 1
<1>1. m \in Nat /\ m + 1 = n
  OBVIOUS
<1> HIDE DEF m
<1>2. Piece(m + 1) = <<>> /\ <<>> \in Seq(Rune)
  BY <1>1, RuneFacts
<1>3. Unpacked(m + 1) = Unpacked(m) \o <<>>
  BY <1>1, <1>2, UnpackedNext
<1>4. built \o <<>> = built
  BY DEF UnpackTypeOK
<1>5. QED  BY <1>1, <1>3, <1>4 DEF m

\* A symbol adds its piece.
LEMMA SymbolMore ==
  ASSUME UnpackTypeOK, NEW n \in 1..Len(input), IsSymbol(n), built = Unpacked(n - 1),
         NEW piece \in Seq(Rune), Piece(n) = piece
  PROVE  built \o piece = Unpacked(n)
<1> DEFINE m == n - 1
<1>1. m \in Nat /\ m + 1 = n
  OBVIOUS
<1> HIDE DEF m
<1>2. Unpacked(m + 1) = Unpacked(m) \o Piece(m + 1)
  BY <1>1, UnpackedNext
<1>3. QED  BY <1>1, <1>2 DEF m

\* The meaning is the string's, whatever the automaton does.
LEMMA SameString ==
  ASSUME UNCHANGED input
  PROVE  /\ \A i : Escaped(i)' <=> Escaped(i)
         /\ \A i : IsSymbol(i)' <=> IsSymbol(i)
         /\ \A i : IsCount(i)' <=> IsCount(i)
         /\ \A i : GoodCount(i)' <=> GoodCount(i)
         /\ \A i : Unit(i)' = Unit(i)
         /\ \A n : Unpacked(n)' = Unpacked(n)
         /\ Meaningful' <=> Meaningful
<1>1. \A i : Escaped(i)' <=> Escaped(i)
  BY DEF Escaped
<1>2. \A i : DefineRuneType(input[i])' = DefineRuneType(input[i])
  BY DEF DefineRuneType
<1>3. \A i : (IsSymbol(i)' <=> IsSymbol(i)) /\ (IsCount(i)' <=> IsCount(i))
  BY <1>1, <1>2 DEF IsSymbol, IsCount
<1>4. \A i : GoodCount(i)' <=> GoodCount(i)
  BY <1>3 DEF GoodCount
<1>5. \A i : Unit(i)' = Unit(i)
  BY <1>1, <1>2 DEF Unit
<1>6. \A i : Times(i)' = Times(i)
  BY <1>3 DEF Times
<1>7. \A i : Piece(i)' = Piece(i)
  BY <1>3, <1>5, <1>6 DEF Piece, Repeat
<1>8. ASSUME NEW n PROVE Unpacked(n)' = Unpacked(n)
  <2>1. [i \in 1..n |-> Piece(i)]' = [i \in 1..n |-> Piece(i)]
    BY <1>7
  <2>2. QED  BY <2>1 DEF Unpacked
<1>9. Meaningful' <=> Meaningful
  BY <1>3 DEF Meaningful
<1>10. QED  BY <1>1, <1>3, <1>4, <1>5, <1>8, <1>9

\* What a round of the loop has to show of the rune it read.
LEMMA RoundMeans ==
  ASSUME UnpackTypeOK, next' = next + 1, UNCHANGED input,
         previousType' # "DIGIT" => \A i \in 1..next : GoodCount(i),
         previousType' = "EMPTY" => IsCount(next) /\ built' = Unpacked(next),
         previousType' = "SLASH" => /\ input[next] = Slash /\ ~Escaped(next)
                                    /\ previousChar' = <<Slash>> /\ built' = Unpacked(next),
         previousType' = "RUNE"  => /\ IsSymbol(next) /\ previousChar' = Unit(next)
                                    /\ built' = Unpacked(next - 1),
         previousType' = "DIGIT" => ~GoodCount(next)
  PROVE  StateMeans(next)'
<1> PICK n \in Nat : n = next'
  BY DEF UnpackTypeOK
<1>1. n - 1 = next /\ n - 2 = next - 1 /\ n > 1
  BY DEF UnpackTypeOK
<1>2. StateMeans(n)'
  BY <1>1, SameString DEF StateMeans
<1>3. QED  BY <1>2

\* A bad count leaves no meaning.
LEMMA BadCount ==
  ASSUME NEW n \in DOMAIN input, ~GoodCount(n)
  PROVE  ~Meaningful
BY DEF GoodCount, Meaningful

LEMMA UnpackInitInv == UnpackInit => UnpackInv
<1> SUFFICES ASSUME UnpackInit PROVE UnpackInv
  OBVIOUS
<1>1. UnpackTypeOK
  BY LenProperties, EmptySeq DEF UnpackInit, UnpackTypeOK
<1>2. StateMeans(next)
  <2>1. Unpacked(next - 1) = <<>>
    BY UnpackedNone DEF UnpackInit
  <2>2. QED  BY <2>1 DEF UnpackInit, StateMeans
<1>3. QED  BY <1>1, <1>2 DEF UnpackInit, UnpackInv, UnpackMeans

LEMMA UnpackNextInv == UnpackInv /\ [UnpackNext]_unpackVars => UnpackInv'
<1> SUFFICES ASSUME UnpackInv, [UnpackNext]_unpackVars PROVE UnpackInv'
  OBVIOUS
<1>0. /\ UnpackTypeOK /\ Len(input) \in Nat /\ next \in 1..(Len(input) + 1)
      /\ DOMAIN input = 1..Len(input) /\ \A i \in 1..Len(input) : input[i] \in Rune
  BY LenProperties DEF UnpackInv, UnpackTypeOK
<1> DEFINE c == input[next]
<1>1. CASE AfterEmpty
  <2>1. /\ unpackRet = "none" /\ unpackRet' = "none" /\ next \in 1..Len(input) /\ previousType = "EMPTY"
        /\ next' = next + 1 /\ UNCHANGED <<input, built>>
        /\ previousType' = DefineRuneType(c) /\ previousChar' = <<c>>
    BY <1>0, <1>1 DEF AfterEmpty, Loop
  <2>2. /\ next = 1 \/ IsCount(next - 1)
        /\ built = Unpacked(next - 1) /\ \A i \in 1..(next - 1) : GoodCount(i)
    BY <2>1 DEF UnpackInv, StateMeans
  <2>3. ~Escaped(next) /\ Unit(next) = <<c>>
    <3>1. next > 1 => input[next - 1] # Slash
      BY <2>2, TypesOfRunes DEF IsCount
    <3>2. QED  BY <1>0, <2>1, <3>1, RuneFacts
  <2>4. UnpackTypeOK'
    BY <1>0, <2>1, TypesOfRunes DEF UnpackTypeOK
  <2>5. StateMeans(next)'
    <3>1. CASE DefineRuneType(c) = "RUNE"
      <4>1. IsSymbol(next) /\ ~IsCount(next)
        BY <3>1 DEF IsSymbol, IsCount
      <4>2. \A i \in 1..next : GoodCount(i)
        BY <1>0, <2>2, <4>1 DEF GoodCount
      <4>3. QED  BY <1>0, <2>1, <2>2, <2>3, <3>1, <4>1, <4>2, RoundMeans
    <3>2. CASE DefineRuneType(c) = "SLASH"
      <4>1. ~IsSymbol(next) /\ ~IsCount(next)
        BY <2>3, <3>2 DEF IsSymbol, IsCount
      <4>2. \A i \in 1..next : GoodCount(i)
        BY <1>0, <2>2, <4>1 DEF GoodCount
      <4>3. built = Unpacked(next) /\ c = Slash
        BY <1>0, <2>1, <2>2, <3>2, <4>1, NothingMore, TypesOfRunes
      <4>4. QED  BY <1>0, <2>1, <2>3, <3>2, <4>2, <4>3, RoundMeans
    <3>3. CASE DefineRuneType(c) = "DIGIT"
      <4>1. IsCount(next)
        BY <2>3, <3>3 DEF IsCount
      <4>2. next > 1 => ~IsSymbol(next - 1)
        BY <2>2 DEF IsSymbol, IsCount
      <4>3. ~GoodCount(next)
        BY <4>1, <4>2 DEF GoodCount
      <4>4. QED  BY <1>0, <2>1, <3>3, <4>3, RoundMeans
    <3>4. QED  BY <3>1, <3>2, <3>3, TypesOfRunes
  <2>6. QED  BY <2>1, <2>4, <2>5 DEF UnpackInv, UnpackMeans
<1>2. CASE AfterSlash
  <2>1. /\ unpackRet = "none" /\ unpackRet' = "none" /\ next \in 1..Len(input) /\ previousType = "SLASH"
        /\ next' = next + 1 /\ UNCHANGED <<input, built>>
        /\ previousType' = "RUNE"
        /\ previousChar' = CASE DefineRuneType(c) = "RUNE"  -> previousChar \o <<c>>
                             [] DefineRuneType(c) = "DIGIT" -> <<c>>
                             [] DefineRuneType(c) = "SLASH" -> previousChar
    BY <1>0, <1>2 DEF AfterSlash, Loop
  <2>2. /\ next > 1 /\ input[next - 1] = Slash /\ ~Escaped(next - 1) /\ previousChar = <<Slash>>
        /\ built = Unpacked(next - 1) /\ \A i \in 1..(next - 1) : GoodCount(i)
    BY <2>1 DEF UnpackInv, StateMeans
  <2>3. Escaped(next) /\ IsSymbol(next) /\ ~IsCount(next)
    BY <1>0, <2>1, <2>2, RuneFacts DEF IsSymbol
  <2>4. UnpackTypeOK'
    BY <1>0, <2>1 DEF UnpackTypeOK
  <2>5. previousChar' = Unit(next)
    <3>1. CASE DefineRuneType(c) = "RUNE"
      <4>1. Unit(next) = <<Slash, c>>
        BY <2>3, <3>1 DEF Unit
      <4>2. previousChar' = previousChar \o <<c>>
        BY <2>1, <3>1
      <4>3. <<Slash>> \o <<c>> = <<Slash, c>>
        BY TwoRunes
      <4>4. QED  BY <2>2, <4>1, <4>2, <4>3
    <3>2. CASE DefineRuneType(c) = "DIGIT"
      BY <2>1, <2>3, <3>2 DEF Unit
    <3>3. CASE DefineRuneType(c) = "SLASH"
      BY <2>1, <2>2, <2>3, <3>3, TypesOfRunes DEF Unit
    <3>4. QED  BY <3>1, <3>2, <3>3, TypesOfRunes
  <2>6. \A i \in 1..next : GoodCount(i)
    BY <1>0, <2>2, <2>3 DEF GoodCount
  <2>7. StateMeans(next)'
    BY <1>0, <2>1, <2>2, <2>3, <2>5, <2>6, RoundMeans
  <2>8. QED  BY <2>1, <2>4, <2>7 DEF UnpackInv, UnpackMeans
<1>3. CASE AfterRune
  <2>1. /\ unpackRet = "none" /\ next \in 1..Len(input) /\ previousType = "RUNE"
        /\ next' = next + 1 /\ UNCHANGED input
        /\ \/ c = Foreign /\ ReturnInvalid
           \/ c \in (0..9) \ {Foreign} /\ Count(c)
           \/ /\ DefineRuneType(c) # "DIGIT" /\ built' = built \o previousChar
              /\ previousType' = DefineRuneType(c) /\ previousChar' = <<c>> /\ UNCHANGED unpackRet
    BY <1>0, <1>3 DEF AfterRune, Loop
  <2> DEFINE m == next - 1
  <2>2. /\ m \in 1..Len(input) /\ m < Len(input) /\ m + 1 = next /\ m - 1 = next - 2
        /\ IsSymbol(m) /\ previousChar = Unit(m) /\ built = Unpacked(m - 1)
        /\ \A i \in 1..m : GoodCount(i)
    BY <1>0, <2>1 DEF UnpackInv, StateMeans
  <2>3. ~Escaped(next) /\ Unit(next) = <<c>> /\ Unit(m) \in Seq(Rune)
    <3>1. Escaped(m) \/ input[m] # Slash
      BY <2>2, TypesOfRunes DEF IsSymbol
    <3>2. QED  BY <1>0, <2>1, <2>2, <3>1, RuneFacts
  <2> HIDE DEF m
  <2>4. CASE c = Foreign /\ ReturnInvalid
    <3>1. IsCount(next) /\ ~GoodCount(next)
      BY <2>3, <2>4, TypesOfRunes DEF IsCount, GoodCount
    <3>2. ~Meaningful'
      BY <1>0, <2>1, <3>1, BadCount, SameString
    <3>3. unpackRet' = "invalid" /\ UnpackTypeOK'
      BY <1>0, <2>1, <2>4 DEF ReturnInvalid, UnpackTypeOK
    <3>4. QED  BY <3>2, <3>3 DEF UnpackInv, UnpackMeans
  <2>5. CASE c \in (0..9) \ {Foreign} /\ Count(c)
    <3>1. /\ built' = built \o Repeat(Unit(m), c) /\ previousType' = "EMPTY"
          /\ UNCHANGED unpackRet
      BY <2>2, <2>5 DEF Count
    <3>2. IsCount(next) /\ ~IsSymbol(next) /\ c \in Nat
      BY <2>3, <2>5, TypesOfRunes DEF IsCount, IsSymbol
    <3>3. Repeat(Unit(m), c) \in Seq(Rune) /\ Piece(m) = Repeat(Unit(m), c)
      BY <1>0, <2>2, <2>3, <3>2, RepeatType, RuneFacts
    <3>4. built' = Unpacked(m)
      BY <1>0, <2>2, <3>1, <3>3, SymbolMore
    <3>5. UnpackTypeOK'
      <4>1. built' \in Seq(Rune)
        BY <1>0, <3>1, <3>3, ConcatProperties DEF UnpackTypeOK
      <4>2. QED  BY <1>0, <2>1, <3>1, <4>1 DEF UnpackTypeOK
    <3>6. built' = Unpacked(next)
      <4>1. Piece(m + 1) = <<>> /\ <<>> \in Seq(Rune) /\ m \in Nat
        <5>1. Piece(next) = <<>>
          BY <1>0, <2>1, <3>2, RuneFacts
        <5>2. QED  BY <2>2, <5>1
      <4>2. Unpacked(m + 1) = Unpacked(m) \o <<>>
        BY <4>1, UnpackedNext
      <4>3. built' \o <<>> = built'
        BY <3>5 DEF UnpackTypeOK
      <4>4. QED  BY <2>2, <3>4, <4>2, <4>3
    <3>7. \A i \in 1..next : GoodCount(i)
      <4>1. GoodCount(next)
        BY <2>1, <2>2, <2>5 DEF GoodCount, m
      <4>2. \A i \in 1..next : i = next \/ i \in 1..m
        BY <1>0, <2>2
      <4>3. QED  BY <2>2, <4>1, <4>2
    <3>8. StateMeans(next)'
      BY <1>0, <2>1, <3>1, <3>2, <3>6, <3>7, RoundMeans
    <3>9. QED  BY <2>1, <3>1, <3>5, <3>8 DEF UnpackInv, UnpackMeans
  <2>6. CASE /\ DefineRuneType(c) # "DIGIT" /\ built' = built \o previousChar
             /\ previousType' = DefineRuneType(c) /\ previousChar' = <<c>> /\ UNCHANGED unpackRet
    <3>1. ~IsCount(next)
      BY <2>6 DEF IsCount
    <3>2. Piece(m) = Unit(m)
      BY <1>0, <2>2, <3>1, RuneFacts
    <3>3. built' = Unpacked(m)
      BY <1>0, <2>2, <2>3, <2>6, <3>2, SymbolMore
    <3>4. UnpackTypeOK'
      <4>1. built' \in Seq(Rune)
        BY <1>0, <2>2, <2>3, <2>6, ConcatProperties DEF UnpackTypeOK
      <4>2. QED  BY <1>0, <2>1, <2>6, <4>1, TypesOfRunes DEF UnpackTypeOK
    <3>5. \A i \in 1..next : GoodCount(i)
      <4>1. GoodCount(next)
        BY <3>1 DEF GoodCount
      <4>2. \A i \in 1..next : i = next \/ i \in 1..m
        BY <1>0, <2>2
      <4>3. QED  BY <2>2, <4>1, <4>2
    <3>6. CASE DefineRuneType(c) = "RUNE"
      <4>1. IsSymbol(next) /\ built' = Unpacked(next - 1)
        BY <3>3, <3>6 DEF IsSymbol, m
      <4>2. StateMeans(next)'
        BY <1>0, <2>1, <2>3, <2>6, <3>5, <3>6, <4>1, RoundMeans
      <4>3. QED  BY <2>1, <2>6, <3>4, <4>2 DEF UnpackInv, UnpackMeans
    <3>7. CASE DefineRuneType(c) = "SLASH"
      <4>1. ~IsSymbol(next) /\ c = Slash
        BY <2>3, <3>7, TypesOfRunes DEF IsSymbol
      <4>2. built' = Unpacked(next)
        <5>1. Piece(m + 1) = <<>> /\ <<>> \in Seq(Rune) /\ m \in Nat
          <6>1. Piece(next) = <<>>
            BY <1>0, <2>1, <4>1, RuneFacts
          <6>2. QED  BY <2>2, <6>1
        <5>2. Unpacked(m + 1) = Unpacked(m) \o <<>>
          BY <5>1, UnpackedNext
        <5>3. built' \o <<>> = built'
          BY <3>4 DEF UnpackTypeOK
        <5>4. QED  BY <2>2, <3>3, <5>2, <5>3
      <4>3. StateMeans(next)'
        BY <1>0, <2>1, <2>3, <2>6, <3>5, <3>7, <4>1, <4>2, RoundMeans
      <4>4. QED  BY <2>1, <2>6, <3>4, <4>3 DEF UnpackInv, UnpackMeans
    <3>8. QED  BY <2>6, <3>6, <3>7, TypesOfRunes
  <2>7. QED  BY <2>1, <2>4, <2>5, <2>6
<1>4. CASE AfterDigit
  <2>1. /\ unpackRet = "none" /\ next \in 1..Len(input) /\ previousType = "DIGIT"
        /\ next' = next + 1 /\ UNCHANGED input /\ ReturnInvalid
    BY <1>0, <1>4 DEF AfterDigit, Loop
  <2>2. next - 1 \in DOMAIN input /\ ~GoodCount(next - 1)
    BY <1>0, <2>1 DEF UnpackInv, StateMeans
  <2>3. ~Meaningful'
    BY <2>1, <2>2, BadCount, SameString
  <2>4. unpackRet' = "invalid" /\ UnpackTypeOK'
    BY <1>0, <2>1 DEF ReturnInvalid, UnpackTypeOK
  <2>5. QED  BY <2>3, <2>4 DEF UnpackInv, UnpackMeans
<1>5. CASE EndOfString
  <2>1. /\ unpackRet = "none" /\ next = Len(input) + 1 /\ StateMeans(next)
        /\ unpackRet' = IF previousType \in {"DIGIT", "SLASH"} THEN "invalid" ELSE "ok"
        /\ built' = IF previousType = "RUNE" THEN built \o previousChar ELSE built
        /\ UNCHANGED <<input, next, previousType, previousChar>>
    BY <1>0, <1>5 DEF EndOfString, UnpackInv
  <2> DEFINE n == Len(input)
  <2>2. next - 1 = n /\ next - 2 = n - 1 /\ n \in Nat /\ (next > 1 <=> n # 0) /\ (n = 0 <=> input = <<>>)
    BY <1>0, <2>1, EmptySeq DEF UnpackTypeOK
  <2>3. CASE previousType = "EMPTY"
    <3>1. (n = 0 \/ IsCount(n)) /\ built = Unpacked(n) /\ \A i \in 1..n : GoodCount(i)
      BY <2>1, <2>2, <2>3 DEF StateMeans
    <3>2. Meaningful
      BY <1>0, <2>2, <3>1 DEF Meaningful, GoodCount
    <3>3. Meaningful' /\ unpackRet' = "ok" /\ built' = Unpacked(Len(input))'
      BY <2>1, <2>3, <3>1, <3>2, SameString
    <3>4. UnpackTypeOK'
      BY <1>0, <2>1, <2>3 DEF UnpackTypeOK
    <3>5. QED  BY <3>3, <3>4 DEF UnpackInv, UnpackMeans
  <2>4. CASE previousType = "RUNE"
    <3>1. /\ n \in 1..Len(input) /\ IsSymbol(n) /\ previousChar = Unit(n) /\ built = Unpacked(n - 1)
          /\ \A i \in 1..n : GoodCount(i)
      BY <2>1, <2>2, <2>4 DEF StateMeans
    <3> HIDE DEF n
    <3>2. Piece(n) = Unit(n) /\ Unit(n) \in Seq(Rune)
      BY <1>0, <3>1, RuneFacts DEF n
    <3>3. built \o previousChar = Unpacked(n)
      BY <1>0, <3>1, <3>2, SymbolMore
    <3>4. Meaningful
      BY <1>0, <2>2, <3>1 DEF Meaningful, GoodCount, n
    <3>5. Meaningful' /\ unpackRet' = "ok" /\ built' = Unpacked(Len(input))'
      BY <2>1, <2>4, <3>3, <3>4, SameString DEF n
    <3>6. UnpackTypeOK'
      <4>1. built' \in Seq(Rune)
        BY <1>0, <2>1, <2>4, <3>1, <3>2, ConcatProperties DEF UnpackTypeOK
      <4>2. QED  BY <1>0, <2>1, <2>4, <4>1 DEF UnpackTypeOK
    <3>7. QED  BY <3>5, <3>6 DEF UnpackInv, UnpackMeans
  <2>5. CASE previousType \in {"DIGIT", "SLASH"}
    <3>1. unpackRet' = "invalid" /\ UnpackTypeOK'
      BY <1>0, <2>1, <2>5 DEF UnpackTypeOK
    <3>2. ~Meaningful
      <4>1. CASE previousType = "DIGIT"
        BY <1>0, <2>1, <2>2, <4>1, BadCount DEF StateMeans
      <4>2. CASE previousType = "SLASH"
        <5>1. n # 0 /\ input[n] = Slash /\ ~Escaped(n)
          BY <2>1, <2>2, <4>2 DEF StateMeans
        <5>2. ~IsSymbol(n) /\ ~IsCount(n)
          BY <5>1, TypesOfRunes DEF IsSymbol, IsCount
        <5>3. QED  BY <2>2, <5>1, <5>2 DEF Meaningful
      <4>3. QED  BY <2>5, <4>1, <4>2
    <3>3. QED  BY <2>1, <3>1, <3>2, SameString DEF UnpackInv, UnpackMeans
  <2>6. QED  BY <1>0, <2>3, <2>4, <2>5 DEF UnpackTypeOK
<1>6. CASE UNCHANGED unpackVars
  <2>1. UNCHANGED input /\ UNCHANGED <<next, previousType, previousChar, built, unpackRet>>
    BY <1>6 DEF unpackVars
  <2>2. UnpackTypeOK'
    BY <1>0, <2>1 DEF UnpackTypeOK
  <2>3. unpackRet = "none" => StateMeans(next)'
    <3> PICK n \in Nat : n = next'
      BY <1>0, <2>1
    <3>1. unpackRet = "none" => StateMeans(n)'
      BY <2>1, SameString DEF UnpackInv, StateMeans
    <3>2. QED  BY <3>1
  <2>4. UnpackMeans'
    <3>1. Unpacked(Len(input))' = Unpacked(Len(input))
      <4> PICK n : n = Len(input)
        OBVIOUS
      <4>1. Unpacked(n)' = Unpacked(n)
        BY <2>1, SameString
      <4>2. QED  BY <2>1, <4>1
    <3>2. QED  BY <2>1, <3>1, SameString DEF UnpackInv, UnpackMeans
  <2>5. QED  BY <2>1, <2>2, <2>3, <2>4 DEF UnpackInv
<1>7. QED  BY <1>1, <1>2, <1>3, <1>4, <1>5, <1>6 DEF UnpackNext

\* However the automaton is driven, Unpack gives the meaning of its string and
\* refuses the strings without one (unpack.go:45-95).
THEOREM UnpackMeansHolds == UnpackSpec => []UnpackMeans
<1>1. UnpackInv => UnpackMeans
  BY DEF UnpackInv
<1>2. QED  BY <1>1, UnpackInitInv, UnpackNextInv, PTL DEF UnpackSpec
-----------------------------------------------------------------------------
(* GetDomainStat (hw10).                                                   *)

\* What the counts of domainStat are while the loop runs: those of the lines
\* read so far, none of which stops it.
StatCounted ==
  statRet = "none" =>
    /\ \A i \in 1..(call - 1) : lines[i] \notin {"blank", "bad", "noAt"}
    /\ \A d \in Domain : domainStat[d] = Cardinality(UsersOf(d, call - 1))

StatInv == StatTypeOK /\ StatCounted /\ StatCounts

\* One more line is one more user of its domain and of no other.
LEMMA UsersOfNext ==
  ASSUME NEW d, NEW n \in Nat
  PROVE  /\ Cardinality(UsersOf(d, n)) \in Nat
         /\ Cardinality(UsersOf(d, n + 1)) = Cardinality(UsersOf(d, n))
                                               + (IF lines[n + 1] = d THEN 1 ELSE 0)
<1>1. \A k : UsersOf(d, k) = Places(lines, d, k)
  BY DEF UsersOf, Places
<1>2. QED  BY <1>1, PlacesNext

\* What the call of getUser says of the line it read.
LEMMA GetUserFacts ==
  ASSUME StatTypeOK
  PROVE  LET g == GetUser(call)
         IN  /\ g.err = "nil" => /\ call \in DOMAIN lines /\ g.user = lines[call]
                                 /\ lines[call] \notin {"blank", "bad"}
             /\ g.err = "EOF" =>
                  \/ call > Len(lines) /\ ending # "failure" /\ g.user = "nil"
                  \/ call \in DOMAIN lines /\ lines[call] = "blank" /\ g.user = "nil"
                  \/ /\ call = Len(lines) /\ call \in DOMAIN lines /\ ending = "bare"
                     /\ lines[call] \notin {"blank", "bad"} /\ g.user = lines[call]
             /\ g.err \in {"read", "parse"} =>
                  \/ call > Len(lines) /\ ending = "failure"
                  \/ call \in DOMAIN lines /\ lines[call] = "bad"
             /\ call \in DOMAIN lines <=> call <= Len(lines)
<1>1. call \in DOMAIN lines <=> call <= Len(lines)
  BY DEF StatTypeOK
<1>2. call \in Nat /\ Len(lines) \in Nat
  BY LenProperties DEF StatTypeOK
<1>3. CASE call > Len(lines)
  <2>1. GetUser(call) = [user |-> "nil", err |-> IF ending = "failure" THEN "read" ELSE "EOF"]
    BY <1>3 DEF GetUser
  <2>2. QED  BY <1>1, <1>2, <1>3, <2>1
<1>4. CASE call <= Len(lines)
  <2>1. /\ lines[call] = "blank" => GetUser(call) = [user |-> "nil", err |-> "EOF"]
        /\ lines[call] = "bad" => GetUser(call) = [user |-> "nil", err |-> "parse"]
        /\ lines[call] \notin {"blank", "bad"} =>
             GetUser(call) = [user |-> lines[call],
                              err |-> IF call = Len(lines) /\ ending = "bare" THEN "EOF" ELSE "nil"]
    BY <1>2, <1>4 DEF GetUser
  <2>2. QED  BY <1>1, <1>2, <1>4, <2>1
<1>5. QED  BY <1>2, <1>3, <1>4

\* Counting the line just read leaves the counts of one more line.
LEMMA UpdateCounts ==
  ASSUME StatTypeOK, StatCounted, statRet = "none", UNCHANGED lines,
         NEW user \in Line, user = lines[call],
         UpdateDomainStat(user)
  PROVE  /\ domainStat' \in [Domain -> Nat]
         /\ \A d \in Domain : domainStat'[d] = Cardinality(UsersOf(d, call))
<1>1. domainStat' = IF user \in Domain THEN [domainStat EXCEPT ![user] = @ + 1] ELSE domainStat
  BY DEF UpdateDomainStat
<1>2. call - 1 \in Nat /\ call - 1 + 1 = call
  BY DEF StatTypeOK
<1>3. ASSUME NEW d \in Domain
      PROVE  domainStat'[d] = Cardinality(UsersOf(d, call)) /\ domainStat'[d] \in Nat
  <2>1. /\ Cardinality(UsersOf(d, call - 1)) \in Nat
        /\ Cardinality(UsersOf(d, call)) = Cardinality(UsersOf(d, call - 1))
                                             + (IF lines[call] = d THEN 1 ELSE 0)
    BY <1>2, UsersOfNext
  <2>2. domainStat[d] = Cardinality(UsersOf(d, call - 1))
    BY DEF StatCounted
  <2>3. domainStat'[d] = domainStat[d] + (IF user = d THEN 1 ELSE 0)
    BY <1>1, <2>1, <2>2 DEF StatTypeOK
  <2>4. QED  BY <2>1, <2>2, <2>3
<1>4. domainStat' \in [Domain -> Nat]
  BY <1>1, <1>3 DEF StatTypeOK
<1>5. QED  BY <1>3, <1>4

LEMMA StatInitInv == StatInit => StatInv
<1> SUFFICES ASSUME StatInit PROVE StatInv
  OBVIOUS
<1>1. StatTypeOK
  BY LenProperties DEF StatInit, StatTypeOK
<1>2. ASSUME NEW d \in Domain PROVE domainStat[d] = Cardinality(UsersOf(d, call - 1))
  <2>1. UsersOf(d, call - 1) = {}
    BY DEF StatInit, UsersOf
  <2>2. QED  BY <2>1, FS_EmptySet DEF StatInit
<1>3. StatCounted
  BY <1>2 DEF StatInit, StatCounted
<1>4. QED  BY <1>1, <1>3 DEF StatInit, StatInv, StatCounts

LEMMA StatNextInv == StatInv /\ [StatNext]_statVars => StatInv'
<1> SUFFICES ASSUME StatInv, [StatNext]_statVars PROVE StatInv'
  OBVIOUS
<1> USE DEF StatInv
<1> DEFINE g == GetUser(call)
<1>1. CASE CountUser
  <2>1. /\ statRet = "none" /\ g.err = "nil" /\ UpdateDomainStat(g.user)
        /\ statRet' = IF g.user = "noAt" THEN "panic" ELSE "none"
        /\ call' = call + 1 /\ UNCHANGED <<lines, ending>>
    BY <1>1 DEF CountUser
  <2>2. /\ call \in DOMAIN lines /\ g.user = lines[call] /\ lines[call] \notin {"blank", "bad"}
        /\ call \in 1..Len(lines) /\ lines[call] \in Line
    BY <2>1, GetUserFacts DEF StatTypeOK
  <2> HIDE DEF g
  <2>3. /\ domainStat' \in [Domain -> Nat]
        /\ \A d \in Domain : domainStat'[d] = Cardinality(UsersOf(d, call))
    BY <2>1, <2>2, UpdateCounts
  <2>4. StatTypeOK'
    BY <2>1, <2>2, <2>3 DEF StatTypeOK
  <2>5. call' - 1 = call /\ \A d, n : UsersOf(d, n)' = UsersOf(d, n)
    BY <2>1, <2>2 DEF UsersOf
  <2>6. StatCounted'
    <3>1. statRet' = "none" => lines[call] # "noAt"
      BY <2>1, <2>2
    <3>2. statRet' = "none" => \A i \in 1..call : lines'[i] \notin {"blank", "bad", "noAt"}
      BY <2>1, <2>2, <3>1 DEF StatCounted
    <3>3. \A d \in Domain : domainStat'[d] = Cardinality({i \in 1..call : lines'[i] = d})
      BY <2>1, <2>3 DEF UsersOf
    <3>4. QED  BY <2>5, <3>2, <3>3 DEF StatCounted, UsersOf
  <2>7. StatCounts'
    <3>1. CASE statRet' = "none"
      BY <3>1 DEF StatCounts
    <3>2. CASE statRet' = "panic"
      <4>1. lines[call] = "noAt" /\ \A i \in 1..(call - 1) : lines'[i] \notin {"blank", "bad", "noAt"}
        BY <2>1, <2>2, <3>2 DEF StatCounted
      <4>2. call \in 1..(Len(lines') + 1) /\ ~(call > Len(lines')) /\ lines'[call] = "noAt"
        BY <2>1, <2>2, <4>1
      <4>3. QED  BY <3>2, <4>1, <4>2 DEF StatCounts, Stops
    <3>3. QED  BY <2>1, <3>1, <3>2
  <2>8. QED  BY <2>4, <2>6, <2>7
<1>2. CASE CountLast
  <2>1. /\ statRet = "none" /\ g.err = "EOF" /\ UpdateDomainStat(g.user)
        /\ statRet' = IF g.user = "noAt" THEN "panic" ELSE "nil"
        /\ UNCHANGED <<lines, ending, call>>
    BY <1>2 DEF CountLast
  <2>2. \/ call > Len(lines) /\ ending # "failure" /\ g.user = "nil"
        \/ call \in DOMAIN lines /\ lines[call] = "blank" /\ g.user = "nil"
        \/ /\ call = Len(lines) /\ call \in DOMAIN lines /\ ending = "bare"
           /\ lines[call] \notin {"blank", "bad"} /\ g.user = lines[call]
    BY <2>1, GetUserFacts
  <2> HIDE DEF g
  <2>3. /\ \A i \in 1..(call - 1) : lines'[i] \notin {"blank", "bad", "noAt"}
        /\ \A d \in Domain : domainStat[d] = Cardinality(UsersOf(d, call - 1))
        /\ call \in 1..(Len(lines) + 1)
    BY <2>1 DEF StatCounted, StatTypeOK
  <2>4. CASE g.user = "nil"
    <3>1. domainStat' = domainStat /\ statRet' = "nil"
      BY <2>1, <2>4, DomainAssumption DEF UpdateDomainStat
    <3>2. StatTypeOK' /\ StatCounted'
      BY <2>1, <3>1 DEF StatTypeOK, StatCounted
    <3>3. \/ call > Len(lines') /\ ending' # "failure"
          \/ call \in 1..Len(lines') /\ lines'[call] = "blank"
      BY <2>1, <2>2, <2>4, DomainAssumption DEF StatTypeOK, Line
    <3>4. Stops(call, statRet)'
      <4>1. \A i \in 1..(call' - 1) : lines'[i] \notin {"blank", "bad", "noAt"}
        BY <2>1, <2>3
      <4>2. CASE call > Len(lines') /\ ending' # "failure"
        BY <2>1, <3>1, <4>1, <4>2 DEF Stops
      <4>3. CASE call \in 1..Len(lines') /\ lines'[call] = "blank"
        <5>1. ~(call' > Len(lines')) /\ lines'[call'] = "blank"
          BY <2>1, <4>3, LenProperties DEF StatTypeOK
        <5>2. QED  BY <3>1, <4>1, <5>1 DEF Stops
      <4>4. QED  BY <3>3, <4>2, <4>3
    <3>5. \A d \in Domain : domainStat'[d] = Cardinality({i \in 1..(call - 1) : lines'[i] = d})
      BY <2>1, <2>3, <3>1 DEF UsersOf
    <3>6. QED  BY <2>1, <2>3, <3>2, <3>4, <3>5 DEF StatCounts, UsersOf
  <2>5. CASE g.user # "nil"
    <3>1. /\ call = Len(lines) /\ call \in 1..Len(lines) /\ ending = "bare"
          /\ lines[call] \notin {"blank", "bad"} /\ g.user = lines[call] /\ lines[call] \in Line
      BY <2>2, <2>5 DEF StatTypeOK
    <3>2. /\ domainStat' \in [Domain -> Nat]
          /\ \A d \in Domain : domainStat'[d] = Cardinality(UsersOf(d, call))
      BY <2>1, <3>1, UpdateCounts
    <3>3. StatTypeOK' /\ StatCounted'
      BY <2>1, <3>2 DEF StatTypeOK, StatCounted
    <3>4. CASE lines[call] = "noAt"
      <4>1. statRet' = "panic"
        BY <2>1, <3>1, <3>4
      <4>2. Stops(call, statRet)'
        BY <2>1, <2>3, <3>1, <3>4, <4>1 DEF Stops
      <4>3. QED  BY <2>1, <2>3, <3>3, <4>1, <4>2 DEF StatCounts
    <3>5. CASE lines[call] # "noAt"
      <4> PICK n \in 1..(Len(lines') + 1) : n = call + 1
        BY <2>1, <3>1
      <4>1. statRet' = "nil" /\ n > Len(lines') /\ n - 1 = call
        BY <2>1, <3>1, <3>5
      <4>2. \A i \in 1..(n - 1) : lines'[i] \notin {"blank", "bad", "noAt"}
        BY <2>1, <2>3, <3>1, <3>5, <4>1
      <4>3. Stops(n, statRet)'
        BY <2>1, <3>1, <4>1, <4>2 DEF Stops
      <4>4. \A d \in Domain : domainStat'[d] = Cardinality({i \in 1..(n - 1) : lines'[i] = d})
        BY <2>1, <3>2, <4>1 DEF UsersOf
      <4>5. StatCounts'
        BY <4>3, <4>4 DEF StatCounts, UsersOf
      <4>6. QED  BY <3>3, <4>5
    <3>6. QED  BY <3>4, <3>5
  <2>6. QED  BY <2>4, <2>5
<1>3. CASE ReturnError
  <2>1. /\ statRet = "none" /\ g.err \in {"read", "parse"} /\ statRet' = "error"
        /\ UNCHANGED <<lines, ending, call, domainStat>>
    BY <1>3 DEF ReturnError
  <2>2. \/ call > Len(lines) /\ ending = "failure"
        \/ call \in DOMAIN lines /\ lines[call] = "bad"
    BY <2>1, GetUserFacts
  <2>3. StatTypeOK' /\ StatCounted'
    BY <2>1 DEF StatTypeOK, StatCounted
  <2>4. Stops(call, statRet)'
    BY <2>1, <2>2 DEF Stops, StatCounted, StatTypeOK
  <2>5. QED  BY <2>1, <2>3, <2>4 DEF StatCounts, StatTypeOK
<1>4. CASE UNCHANGED statVars
  BY <1>4 DEF statVars, StatTypeOK, StatCounted, StatCounts, Stops, UsersOf
<1>5. QED  BY <1>1, <1>2, <1>3, <1>4 DEF StatNext

\* However the stream ends, GetDomainStat counts each line before the one that
\* stops it once, and returns an error of the reader or the parser
\* (stats.go:19-64).
THEOREM StatCountsHolds == StatSpec => []StatCounts
<1>1. StatInv => StatCounts
  BY DEF StatInv
<1>2. QED  BY <1>1, StatInitInv, StatNextInv, PTL DEF StatSpec
-----------------------------------------------------------------------------
(* The envdir tool (hw08).                                                 *)

\* The first line is the part of the content in front of the first newline.
LEMMA FirstLineElements ==
  ASSUME NEW content \in Seq(Char)
  PROVE  /\ DOMAIN FirstLine(content) = InLine(content)
         /\ \A i \in InLine(content) : FirstLine(content)[i] = content[i]
<1> DEFINE line == {i \in DOMAIN content : \A k \in 1..i : content[k] # Newline}
           newlines == {i \in DOMAIN content : content[i] = Newline}
<1>0. Len(content) \in Nat /\ DOMAIN content = 1..Len(content)
  BY LenProperties
<1>1. CASE newlines = {}
  <2>1. FirstLine(content) = content
    BY <1>1 DEF FirstLine
  <2>2. line = DOMAIN content
    BY <1>0, <1>1
  <2>3. QED  BY <2>1, <2>2 DEF InLine
<1>2. CASE newlines # {}
  <2> DEFINE n == CHOOSE i \in newlines : \A k \in newlines : i <= k
  <2>1. \E i \in newlines : \A k \in newlines : i <= k
    <3>1. newlines \subseteq Nat
      BY <1>0
    <3>2. QED  BY <1>2, <3>1, LeastExists
  <2>2. n \in newlines /\ \A k \in newlines : n <= k
    BY <2>1
  <2>3. FirstLine(content) = SubSeq(content, 1, n - 1)
    BY <1>2 DEF FirstLine
  <2> HIDE DEF n
  <2>4. n \in 1..Len(content) /\ content[n] = Newline
    BY <1>0, <2>2
  <2>5. \A k \in 1..(n - 1) : k \in DOMAIN content /\ content[k] # Newline
    BY <1>0, <2>2, <2>4
  <2>6. line = 1..(n - 1)
    BY <1>0, <2>4, <2>5
  <2>7. /\ DOMAIN FirstLine(content) = 1..(n - 1)
        /\ \A i \in 1..(n - 1) : FirstLine(content)[i] = content[i]
    BY <2>3, <2>4
  <2>8. QED  BY <2>6, <2>7 DEF InLine
<1>3. QED  BY <1>1, <1>2

\* What ReadDir stores is what is documented where the content is Agreed, and
\* Setenv never refuses it.
LEMMA ValueDocumented ==
  ASSUME NEW content \in Seq(Char), EnvAssumption
  PROVE  LET value == Value(FirstLine(content))
         IN  /\ Agreed(content) => value = Documented(content)
             /\ \A i \in DOMAIN value : value[i] # Zero
<1> DEFINE line == InLine(content)
           first == FirstLine(content)
           Shown(i) == IF content[i] = Zero THEN Newline ELSE content[i]
<1>1. DOMAIN first = line /\ \A i \in line : first[i] = content[i]
  BY FirstLineElements
<1>2. line \subseteq Nat
  BY LenProperties DEF InLine
<1>3. Kept(content) = {i \in line : \E k \in line : k >= i /\ content[k] # Blank}
  BY DEF Kept
<1>4. Agreed(content) => Documented(content) = [i \in Kept(content) |-> Shown(i)]
  BY DEF Agreed, Documented
<1> HIDE DEF first, line
<1>5. CASE \A i \in line : content[i] = Blank
  <2>1. Value(first) = <<>>
    BY <1>1, <1>5 DEF Value
  <2>2. Kept(content) = {}
    BY <1>3, <1>5
  <2>3. [i \in Kept(content) |-> Shown(i)] = <<>>
    BY <2>2
  <2>4. QED  BY <1>4, <2>1, <2>3 DEF first
<1>6. CASE ~(\A i \in line : content[i] = Blank)
  <2>1. Value(first) = [i \in DOMAIN first |-> IF first[i] = Zero THEN Newline ELSE first[i]]
    BY <1>1, <1>6 DEF Value
  <2>2. Value(first) = [i \in line |-> Shown(i)]
    BY <1>1, <2>1
  <2>3. Agreed(content) => Kept(content) = line
    <3>1. PICK k \in line : content[k] # Blank
      BY <1>6
    <3>2. k \in Kept(content)
      BY <1>2, <1>3, <3>1
    <3>3. QED  BY <3>2 DEF Agreed, line
  <2>4. \A i \in DOMAIN Value(first) : Value(first)[i] # Zero
    BY <2>2, EnvAssumption DEF EnvAssumption
  <2>5. QED  BY <1>4, <2>2, <2>3, <2>4 DEF first
<1>7. QED  BY <1>5, <1>6
-----------------------------------------------------------------------------
\* Nothing was wrong with the first k entries, and envs holds what they say.
ReadSoFar(k) ==
  /\ readable /\ command.is # "none"
  /\ \A i \in 1..k :
       entries[i].is = "dir" \/ (entries[i].is = "file" /\ entries[i].name # BadName)
  /\ DOMAIN envs \subseteq Name
  /\ \A n \in DOMAIN envs : \E i \in FilesOf(n) :
       i <= k /\ envs[n].value = Value(FirstLine(entries[i].content))
  /\ \A n \in Name : \A i \in FilesOf(n) : i <= k => n \in DOMAIN envs

EnvTypeOK ==
  /\ envPc \in {"main", "read", "update", "exited"}
  /\ readable \in BOOLEAN /\ entries \in Seq(Entry) /\ command \in Command
  /\ \A i, j \in DOMAIN entries :
       entries[i].name = entries[j].name /\ entries[i].name # BadName => i = j
  /\ inherited = [n \in Name |-> inherited[n]]
  /\ environment = [n \in Name |-> environment[n]]
  /\ file \in Nat \ {0}

LEMMA ContentType ==
  ASSUME EnvTypeOK, NEW n, NEW i \in FilesOf(n)
  PROVE  entries[i].content \in Seq(Char)
<1>1. i \in DOMAIN entries /\ entries \in Seq(Entry)
  BY DEF FilesOf, EnvTypeOK
<1>2. entries[i] \in Entry
  BY <1>1
<1>3. QED  BY <1>2 DEF Entry

EnvInv ==
  /\ EnvTypeOK
  /\ envPc = "main" => file = 1 /\ DOMAIN envs = {} /\ environment = inherited
  /\ envPc = "read" => file <= Len(entries) + 1 /\ ReadSoFar(file - 1) /\ environment = inherited
  /\ envPc = "update" =>
       /\ ReadSoFar(Len(entries))
       /\ \A n \in Name : environment[n] = IF n \in DOMAIN envs \ unvisited THEN envs[n].value
                                            ELSE inherited[n]
       /\ unvisited \subseteq DOMAIN envs
  /\ EnvdirPromised

LEMMA EnvInitInv == EnvInit => EnvInv
BY DEF EnvInit, EnvInv, EnvTypeOK, EnvdirPromised

\* If something is wrong, 1 is the exit code and nothing was run.
LEMMA NotRunPromised ==
  ASSUME envPc' = "exited", out' = NotRun, UNCHANGED envInput, ~Works
  PROVE  EnvdirPromised'
<1>1. Works' <=> Works
  BY DEF Works, envInput
<1>2. out'.ran = FALSE /\ out'.code = 1
  BY DEF NotRun
<1>3. QED  BY <1>1, <1>2 DEF EnvdirPromised

LEMMA StartReadingKeeps == ASSUME EnvInv, StartReading PROVE EnvInv'
<1>1. /\ envPc = "main" /\ UNCHANGED <<envInput, file, envs, unvisited, environment>>
      /\ IF command.is = "none" \/ ~readable THEN Exit(NotRun) ELSE envPc' = "read" /\ UNCHANGED out
  BY DEF StartReading
<1>2. CASE command.is = "none" \/ ~readable
  <2>1. ~Works
    BY <1>2 DEF Works
  <2>2. EnvdirPromised'
    BY <1>1, <1>2, <2>1, NotRunPromised DEF Exit
  <2>3. QED  BY <1>1, <1>2, <2>2 DEF EnvInv, EnvTypeOK, Exit, envInput
<1>3. CASE ~(command.is = "none" \/ ~readable)
  <2>1. envPc' = "read" /\ file' = 1 /\ DOMAIN envs' = {} /\ environment' = inherited'
    BY <1>1, <1>3 DEF EnvInv, envInput
  <2>2. ReadSoFar(0)'
    <3>1. \A n : \A i \in FilesOf(n)' : ~(i <= 0)
      BY <1>1, LenProperties DEF FilesOf, EnvInv, EnvTypeOK, envInput
    <3>2. QED  BY <1>1, <1>3, <2>1, <3>1 DEF ReadSoFar, envInput
  <2>3. EnvTypeOK' /\ file' <= Len(entries') + 1 /\ file' - 1 = 0
    BY <1>1, <2>1, LenProperties DEF EnvInv, EnvTypeOK, envInput
  <2>4. QED  BY <2>1, <2>2, <2>3 DEF EnvInv, EnvdirPromised
<1>4. QED  BY <1>2, <1>3

LEMMA ReadEntryKeeps == ASSUME EnvInv, EnvAssumption, ReadEntry PROVE EnvInv'
<1> DEFINE entry == entries[file]
<1>1. /\ envPc = "read" /\ file' = file + 1 /\ file <= Len(entries)
      /\ UNCHANGED <<readable, entries, command, inherited, unvisited, environment>>
  BY DEF ReadEntry, envInput
<1>2. file \in Nat \ {0} /\ Len(entries) \in Nat /\ DOMAIN entries = 1..Len(entries)
  BY LenProperties DEF EnvInv, EnvTypeOK
<1> PICK k \in 1..Len(entries) : k = file
  BY <1>1, <1>2
<1>3. /\ k \in Nat /\ k \in DOMAIN entries /\ entry = entries[k] /\ entry \in Entry
      /\ file' - 1 = k /\ file' <= Len(entries') + 1
      /\ \A i \in 1..k : i \in 1..(k - 1) \/ i = k
  BY <1>1, <1>2 DEF EnvInv, EnvTypeOK
<1>4. ReadSoFar(k - 1) /\ environment = inherited
  BY <1>1 DEF EnvInv
<1>5. \A n : FilesOf(n)' = FilesOf(n) /\ \A i \in FilesOf(n) : i \in Nat /\ (i <= k <=> i <= k - 1 \/ i = k)
  BY <1>1, <1>2 DEF FilesOf
<1>6. CASE entry.is = "dir" /\ UNCHANGED <<envPc, envs, out>>
  <2>1. \A n : k \notin FilesOf(n)
    BY <1>3, <1>6 DEF FilesOf
  <2>2. ReadSoFar(k)
    <3>1. \A i \in 1..k :
            entries[i].is = "dir" \/ (entries[i].is = "file" /\ entries[i].name # BadName)
      BY <1>3, <1>4, <1>6 DEF ReadSoFar
    <3>2. /\ \A n \in DOMAIN envs : \E i \in FilesOf(n) :
                i <= k /\ envs[n].value = Value(FirstLine(entries[i].content))
          /\ \A n \in Name : \A i \in FilesOf(n) : i <= k => n \in DOMAIN envs
      BY <1>4, <1>5, <2>1 DEF ReadSoFar
    <3>3. QED  BY <1>4, <3>1, <3>2 DEF ReadSoFar
  <2>3. ReadSoFar(k)'
    BY <1>1, <1>6, <2>2 DEF ReadSoFar, FilesOf
  <2>4. QED  BY <1>1, <1>2, <1>3, <1>4, <1>6, <2>3 DEF EnvInv, EnvTypeOK, EnvdirPromised
<1>7. CASE /\ entry.is = "broken" \/ (entry.is = "file" /\ entry.name = BadName)
           /\ Exit(NotRun) /\ UNCHANGED envs
  <2>1. ~Works
    BY <1>3, <1>7 DEF Works
  <2>2. EnvdirPromised'
    BY <1>1, <1>7, <2>1, NotRunPromised DEF Exit, envInput
  <2>3. QED  BY <1>1, <1>2, <1>7, <2>2 DEF EnvInv, EnvTypeOK, Exit
<1>8. CASE entry.is = "file" /\ entry.name # BadName /\ AddVariable(entry) /\ UNCHANGED <<envPc, out>>
  <2> DEFINE name == entry.name
  <2>1. name \in Name
    BY <1>3, <1>8 DEF Entry
  <2>2. /\ DOMAIN envs' = DOMAIN envs \union {name}
        /\ envs'[name].value = Value(FirstLine(entries[k].content))
        /\ \A n \in DOMAIN envs : n # name => envs'[n] = envs[n]
    BY <1>3, <1>8 DEF AddVariable
  <2>3. k \in FilesOf(name)
    BY <1>3, <1>8 DEF FilesOf
  <2> HIDE DEF name, entry
  <2>4. \A i \in 1..k :
          entries[i].is = "dir" \/ (entries[i].is = "file" /\ entries[i].name # BadName)
    BY <1>3, <1>4, <1>8 DEF ReadSoFar
  <2>5. ASSUME NEW n \in DOMAIN envs'
        PROVE  \E i \in FilesOf(n) : i <= k /\ envs'[n].value = Value(FirstLine(entries[i].content))
    <3>1. CASE n = name
      BY <1>3, <2>2, <2>3, <3>1
    <3>2. CASE n # name
      <4>1. n \in DOMAIN envs /\ envs'[n] = envs[n]
        BY <2>2, <3>2
      <4>2. PICK i \in FilesOf(n) : i <= k - 1 /\ envs[n].value = Value(FirstLine(entries[i].content))
        BY <1>4, <4>1 DEF ReadSoFar
      <4>3. QED  BY <1>5, <4>1, <4>2
    <3>3. QED  BY <3>1, <3>2
  <2>6. ASSUME NEW n \in Name, NEW i \in FilesOf(n), i <= k PROVE n \in DOMAIN envs'
    <3>1. CASE i = k
      <4>1. n = name
        BY <1>3, <3>1 DEF FilesOf, name
      <4>2. QED  BY <2>2, <4>1
    <3>2. CASE i <= k - 1
      BY <1>4, <2>2, <3>2 DEF ReadSoFar
    <3>3. QED  BY <1>5, <2>6, <3>1, <3>2
  <2>7. ReadSoFar(k)'
    <3>1. readable' /\ command'.is # "none" /\ DOMAIN envs' \subseteq Name
      BY <1>1, <1>4, <2>1, <2>2 DEF ReadSoFar
    <3>2. \A i \in 1..k :
            entries'[i].is = "dir" \/ (entries'[i].is = "file" /\ entries'[i].name # BadName)
      BY <1>1, <2>4
    <3>3. \A n \in DOMAIN envs' : \E i \in FilesOf(n)' :
            i <= k /\ envs'[n].value = Value(FirstLine(entries'[i].content))
      BY <1>1, <1>5, <2>5
    <3>4. \A n \in Name : \A i \in FilesOf(n)' : i <= k => n \in DOMAIN envs'
      BY <1>5, <2>6
    <3>5. QED  BY <3>1, <3>2, <3>3, <3>4 DEF ReadSoFar
  <2>8. QED  BY <1>1, <1>2, <1>3, <1>4, <1>8, <2>7 DEF EnvInv, EnvTypeOK, EnvdirPromised
<1>9. QED  BY <1>6, <1>7, <1>8 DEF ReadEntry

LEMMA EndOfDirKeeps == ASSUME EnvInv, EndOfDir PROVE EnvInv'
<1>1. /\ envPc = "read" /\ file > Len(entries) /\ envPc' = "update" /\ unvisited' = DOMAIN envs
      /\ UNCHANGED <<readable, entries, command, inherited, file, envs, environment, out>>
  BY DEF EndOfDir, envInput
<1>2. ReadSoFar(Len(entries)) /\ environment = inherited
  BY <1>1, LenProperties DEF EnvInv, EnvTypeOK
<1>3. ReadSoFar(Len(entries))'
  BY <1>1, <1>2 DEF ReadSoFar, FilesOf
<1>4. QED  BY <1>1, <1>2, <1>3 DEF EnvInv, EnvTypeOK, EnvdirPromised

LEMMA UpdateVariableKeeps ==
  ASSUME EnvInv, EnvAssumption, NEW n \in Name, UpdateVariable(n) PROVE EnvInv'
<1>1. /\ envPc = "update" /\ n \in unvisited /\ unvisited' = unvisited \ {n}
      /\ UNCHANGED <<readable, entries, command, inherited, file, envs>>
  BY DEF UpdateVariable, envInput
<1>2. /\ ReadSoFar(Len(entries)) /\ n \in DOMAIN envs /\ unvisited \subseteq DOMAIN envs
      /\ DOMAIN envs \subseteq Name
  BY <1>1 DEF EnvInv, ReadSoFar
<1>3. PICK i \in FilesOf(n) : envs[n].value = Value(FirstLine(entries[i].content))
  BY <1>2 DEF ReadSoFar
<1>4. entries[i].content \in Seq(Char)
  BY ContentType DEF EnvInv
<1>5. \A k \in DOMAIN envs[n].value : envs[n].value[k] # Zero
  BY <1>3, <1>4, ValueDocumented
<1>6. environment' = [environment EXCEPT ![n] = envs[n].value] /\ UNCHANGED <<envPc, out>>
  BY <1>5 DEF UpdateVariable, Updated
<1>7. ReadSoFar(Len(entries))'
  BY <1>1, <1>2 DEF ReadSoFar, FilesOf
<1>8. EnvTypeOK'
  BY <1>1, <1>6 DEF EnvInv, EnvTypeOK
<1>9. ASSUME NEW m \in Name
      PROVE  environment'[m] = IF m \in DOMAIN envs' \ unvisited' THEN envs'[m].value ELSE inherited'[m]
  <2>1. environment[m] = IF m \in DOMAIN envs \ unvisited THEN envs[m].value ELSE inherited[m]
    BY <1>1 DEF EnvInv
  <2>2. environment'[m] = IF m = n THEN envs[n].value ELSE environment[m]
    BY <1>6 DEF EnvInv, EnvTypeOK
  <2>3. QED  BY <1>1, <1>2, <2>1, <2>2
<1>10. QED  BY <1>1, <1>2, <1>6, <1>7, <1>8, <1>9 DEF EnvInv, EnvdirPromised

LEMMA RunCommandKeeps == ASSUME EnvInv, EnvAssumption, RunCommand PROVE EnvInv'
<1>1. /\ envPc = "update" /\ unvisited = {} /\ envPc' = "exited"
      /\ out' = IF command.is = "missing" THEN NotRun
                ELSE [code |-> IF command.is = "killed" THEN 255 ELSE command.code,
                      sees |-> environment, ran |-> TRUE]
      /\ UNCHANGED envInput /\ UNCHANGED <<file, envs, unvisited, environment>>
  BY DEF RunCommand, Exit
<1>2. EnvTypeOK'
  BY <1>1 DEF EnvInv, EnvTypeOK, envInput
<1>3. CASE command.is = "missing"
  <2>1. ~Works
    BY <1>3 DEF Works
  <2>2. EnvdirPromised'
    BY <1>1, <1>3, <2>1, NotRunPromised
  <2>3. QED  BY <1>1, <1>2, <2>2 DEF EnvInv
<1>4. CASE command.is # "missing"
  <2>1. ReadSoFar(Len(entries)) /\ Len(entries) \in Nat /\ DOMAIN entries = 1..Len(entries)
    BY <1>1, LenProperties DEF EnvInv, EnvTypeOK
  <2>2. Works
    BY <1>4, <2>1 DEF Works, ReadSoFar
  <2>3. /\ out'.ran = TRUE /\ out'.sees = environment
        /\ out'.code = IF command.is = "killed" THEN 255 ELSE command.code
    BY <1>1, <1>4
  <2>4. ASSUME NEW n \in Name
        PROVE  environment[n] = IF n \in DOMAIN envs THEN envs[n].value ELSE inherited[n]
    BY <1>1 DEF EnvInv
  <2>5. ASSUME NEW n \in Name, FilesOf(n) = {} PROVE environment[n] = inherited[n]
    <3>1. n \notin DOMAIN envs
      BY <2>1, <2>5 DEF ReadSoFar
    <3>2. QED  BY <2>4, <3>1
  <2>6. ASSUME NEW n \in Name, NEW i \in FilesOf(n), Agreed(entries[i].content)
        PROVE  environment[n] = Documented(entries[i].content)
    <3>1. n \in DOMAIN envs
      <4>1. i <= Len(entries)
        BY <2>1 DEF FilesOf
      <4>2. QED  BY <2>1, <4>1 DEF ReadSoFar
    <3>2. PICK j \in FilesOf(n) : envs[n].value = Value(FirstLine(entries[j].content))
      BY <2>1, <3>1 DEF ReadSoFar
    <3>3. j = i
      BY EnvAssumption DEF FilesOf, EnvInv, EnvTypeOK, EnvAssumption
    <3>4. entries[i].content \in Seq(Char)
      BY ContentType DEF EnvInv
    <3>5. envs[n].value = Documented(entries[i].content)
      BY <2>6, <3>2, <3>3, <3>4, ValueDocumented
    <3>6. QED  BY <2>4, <3>1, <3>5
  <2>7. EnvdirPromised'
    <3>1. /\ Works' <=> Works
          /\ inherited' = inherited /\ entries' = entries /\ command' = command
          /\ \A n : FilesOf(n)' = FilesOf(n)
      BY <1>1 DEF Works, FilesOf, envInput
    <3>2. QED  BY <1>1, <2>2, <2>3, <2>5, <2>6, <3>1 DEF EnvdirPromised
  <2>8. QED  BY <1>1, <1>2, <2>7 DEF EnvInv
<1>5. QED  BY <1>3, <1>4

\* However the variables are visited, the command sees what is documented for
\* every file of Agreed content and the rest as inherited, or is not run and 1 is
\* the exit code (env_reader.go:27-79, executor.go:13-62).
THEOREM EnvdirPromisedHolds == EnvSpec => []EnvdirPromised
<1>1. EnvInv /\ [EnvNext]_envVars => EnvInv'
  <2> SUFFICES ASSUME EnvInv, [EnvNext]_envVars PROVE EnvInv'
    OBVIOUS
  <2>1. CASE UNCHANGED envVars
    BY <2>1 DEF envVars, EnvInv, EnvTypeOK, ReadSoFar, FilesOf, EnvdirPromised, Works
  <2>2. QED
    BY <2>1, StartReadingKeeps, ReadEntryKeeps, EndOfDirKeeps, UpdateVariableKeeps,
       RunCommandKeeps, EnvAssumption DEF EnvNext
<1>2. EnvInv => EnvdirPromised
  BY DEF EnvInv
<1>3. QED  BY <1>1, <1>2, EnvInitInv, PTL DEF EnvSpec
-----------------------------------------------------------------------------
(* Top10 (hw03).                                                           *)

USE TopAssumption

TopTypeOK ==
  /\ words \in Seq(Word \union {NoWord})
  /\ topPc \in {"count", "group", "rank", "done"}
  /\ field \in 1..(Len(words) + 1)
  /\ wordNumberOccurrences \in [Word -> Nat]
  /\ res \in Seq(Word)

\* The words counted so often are in the group of that number, once the range has
\* come to them.
Grouped ==
  /\ DOMAIN numberOccurrencesWords =
       {wordNumberOccurrences[w] : w \in {v \in InText : v \notin ungrouped}}
  /\ \A n \in DOMAIN numberOccurrencesWords :
       /\ IsFiniteSet(numberOccurrencesWords[n])
       /\ numberOccurrencesWords[n] = {w \in InText : w \notin ungrouped /\ Occurrences(w) = n}

\* The result so far is a ranking of the words of the numbers that are ranked.
Ranked ==
  /\ \A i, k \in DOMAIN res : i < k => Before(res[i], res[k])
  /\ Listed = {w \in InText : Occurrences(w) \notin unranked}
  /\ \A i \in DOMAIN res : \A n \in unranked : Occurrences(res[i]) > n
  /\ unranked \subseteq DOMAIN numberOccurrencesWords
  /\ Len(res) < NumberOfTopWordsToReturn

Counted == \A w \in Word : wordNumberOccurrences[w] = Occurrences(w)

TopInv ==
  /\ TopTypeOK
  /\ topPc = "count" =>
       /\ \A w \in Word : wordNumberOccurrences[w] = Cardinality(Places(words, w, field - 1))
       /\ DOMAIN numberOccurrencesWords = {}
  /\ topPc \in {"group", "rank"} => Counted /\ Grouped
  /\ topPc = "group" => ungrouped \subseteq InText
  /\ topPc = "rank" => ungrouped = {} /\ Ranked
  /\ topPc \in {"count", "group"} => res = <<>>
  /\ TopIsRanking

LEMMA TopInitInv == TopInit => TopInv
<1> SUFFICES ASSUME TopInit PROVE TopInv
  OBVIOUS
<1>1. TopTypeOK
  BY LenProperties, EmptySeq DEF TopInit, TopTypeOK
<1>2. ASSUME NEW w \in Word
      PROVE  wordNumberOccurrences[w] = Cardinality(Places(words, w, field - 1))
  <2>1. Places(words, w, field - 1) = {}
    BY DEF TopInit, Places
  <2>2. QED  BY <2>1, FS_EmptySet DEF TopInit
<1>3. QED  BY <1>1, <1>2 DEF TopInit, TopInv, TopIsRanking

\* A word is in the text if it occurs there.
LEMMA OccursInText ==
  ASSUME TopTypeOK, NEW w \in Word
  PROVE  /\ Occurrences(w) \in Nat
         /\ Occurrences(w) > 0 <=> w \in InText
         /\ Occurrences(w) = Cardinality(Places(words, w, Len(words)))
         /\ InText \subseteq Word
<1> DEFINE P == Places(words, w, Len(words))
<1>1. Len(words) \in Nat /\ DOMAIN words = 1..Len(words)
  BY LenProperties DEF TopTypeOK
<1>2. IsFiniteSet(P) /\ Cardinality(P) \in Nat
  BY <1>1, PlacesNext
<1>3. Cardinality(P) = 0 <=> P = {}
  BY <1>2, FS_EmptySet
<1>4. InText \subseteq Word
  BY DEF InText, TopTypeOK
<1>5. P # {} <=> w \in InText
  BY <1>1 DEF InText, Places
<1>6. Occurrences(w) = Cardinality(P)
  BY <1>1 DEF Occurrences, Places
<1>7. QED  BY <1>1, <1>2, <1>3, <1>4, <1>5, <1>6

LEMMA CountWordKeeps == ASSUME TopInv, CountWord PROVE TopInv'
<1>1. /\ topPc = "count" /\ field <= Len(words) /\ field' = field + 1
      /\ UNCHANGED <<words, topPc, ungrouped, numberOccurrencesWords, unranked, res>>
  BY DEF CountWord
<1>2. field \in 1..Len(words) /\ words[field] \in Word \union {NoWord}
  BY <1>1, LenProperties DEF TopInv, TopTypeOK
<1>3. ASSUME NEW w \in Word
      PROVE  /\ wordNumberOccurrences'[w] = Cardinality(Places(words', w, field' - 1))
             /\ wordNumberOccurrences'[w] \in Nat
  <2>1. wordNumberOccurrences[w] = Cardinality(Places(words, w, field - 1))
    BY <1>1 DEF TopInv
  <2>2. wordNumberOccurrences'[w] = wordNumberOccurrences[w] + (IF words[field] = w THEN 1 ELSE 0)
    BY <1>2 DEF CountWord, TopInv, TopTypeOK
  <2>3. field - 1 \in Nat /\ field - 1 + 1 = field /\ field' - 1 = field
    BY <1>1, <1>2
  <2>4. /\ Cardinality(Places(words, w, field - 1)) \in Nat
        /\ Cardinality(Places(words, w, field))
             = Cardinality(Places(words, w, field - 1)) + (IF words[field] = w THEN 1 ELSE 0)
    BY <2>3, PlacesNext
  <2>5. QED  BY <1>1, <2>1, <2>2, <2>3, <2>4
<1>4. wordNumberOccurrences' \in [Word -> Nat]
  <2>1. \/ wordNumberOccurrences' = wordNumberOccurrences
        \/ wordNumberOccurrences' =
             [wordNumberOccurrences EXCEPT ![words[field]] = wordNumberOccurrences[words[field]] + 1]
    BY DEF CountWord
  <2>2. QED  BY <1>3, <2>1 DEF TopInv, TopTypeOK
<1>5. TopTypeOK'
  BY <1>1, <1>2, <1>4 DEF TopInv, TopTypeOK
<1>6. QED  BY <1>1, <1>3, <1>5 DEF TopInv, TopIsRanking

LEMMA AllCountedKeeps == ASSUME TopInv, AllCounted PROVE TopInv'
<1>1. /\ topPc = "count" /\ field > Len(words) /\ topPc' = "group"
      /\ ungrouped' = {w \in Word : wordNumberOccurrences[w] > 0}
      /\ UNCHANGED <<words, field, wordNumberOccurrences, numberOccurrencesWords, unranked, res>>
  BY DEF AllCounted
<1>2. field - 1 = Len(words) /\ TopTypeOK /\ DOMAIN numberOccurrencesWords = {}
  BY <1>1, LenProperties DEF TopInv, TopTypeOK
<1>3. Counted
  <2> SUFFICES ASSUME NEW w \in Word PROVE wordNumberOccurrences[w] = Occurrences(w)
    BY DEF Counted
  <2>1. wordNumberOccurrences[w] = Cardinality(Places(words, w, Len(words)))
    BY <1>1, <1>2 DEF TopInv
  <2>2. QED  BY <1>2, <2>1, OccursInText
<1>4. ungrouped' = InText
  <2>1. \A w \in Word : wordNumberOccurrences[w] > 0 <=> w \in InText
    BY <1>2, <1>3, OccursInText DEF Counted
  <2>2. InText \subseteq Word
    BY <1>2 DEF InText, TopTypeOK
  <2>3. QED  BY <1>1, <2>1, <2>2
<1>5. TopTypeOK' /\ Counted' /\ InText' = InText
  BY <1>1, <1>2, <1>3 DEF TopTypeOK, Counted, Occurrences, InText
<1>6. Grouped'
  BY <1>1, <1>2, <1>4, <1>5 DEF Grouped
<1>7. QED  BY <1>1, <1>4, <1>5, <1>6 DEF TopInv, TopIsRanking

LEMMA GroupWordKeeps == ASSUME TopInv, NEW w \in Word, GroupWord(w) PROVE TopInv'
<1> DEFINE c == wordNumberOccurrences[w]
           same == IF c \in DOMAIN numberOccurrencesWords THEN numberOccurrencesWords[c] ELSE {}
<1>1. /\ topPc = "group" /\ w \in ungrouped /\ ungrouped' = ungrouped \ {w}
      /\ UNCHANGED <<words, topPc, field, wordNumberOccurrences, unranked, res>>
      /\ DOMAIN numberOccurrencesWords' = DOMAIN numberOccurrencesWords \union {c}
      /\ numberOccurrencesWords'[c] = same \union {w}
      /\ \A n \in DOMAIN numberOccurrencesWords : n # c =>
           numberOccurrencesWords'[n] = numberOccurrencesWords[n]
  BY DEF GroupWord
<1>2. /\ Grouped /\ Counted /\ TopTypeOK /\ ungrouped \subseteq InText /\ InText \subseteq Word
      /\ c = Occurrences(w) /\ w \in InText
  BY <1>1, OccursInText DEF TopInv, Counted
<1>3. /\ InText' = InText /\ Counted' /\ TopTypeOK'
      /\ \A v : Occurrences(v)' = Occurrences(v)
  BY <1>1, <1>2 DEF InText, Counted, Occurrences, TopTypeOK
<1>4. \A v \in InText : v \notin ungrouped' <=> v \notin ungrouped \/ v = w
  BY <1>1
<1>5. same = {v \in InText : v \notin ungrouped /\ Occurrences(v) = c} /\ IsFiniteSet(same)
  <2>1. CASE c \in DOMAIN numberOccurrencesWords
    BY <1>2, <2>1 DEF Grouped
  <2>2. CASE c \notin DOMAIN numberOccurrencesWords
    <3>1. \A v \in InText : v \notin ungrouped => Occurrences(v) # c
      BY <1>2, <2>2 DEF Grouped, Counted
    <3>2. QED  BY <2>2, <3>1, FS_EmptySet
  <2>3. QED  BY <2>1, <2>2
<1> HIDE DEF c, same
<1>6. DOMAIN numberOccurrencesWords' =
        {wordNumberOccurrences'[v] : v \in {u \in InText' : u \notin ungrouped'}}
  BY <1>1, <1>2, <1>3, <1>4 DEF Grouped, c
<1>7. ASSUME NEW n \in DOMAIN numberOccurrencesWords'
      PROVE  /\ IsFiniteSet(numberOccurrencesWords'[n])
             /\ numberOccurrencesWords'[n] = {v \in InText : v \notin ungrouped' /\ Occurrences(v) = n}
  <2>1. CASE n = c
    <3>1. IsFiniteSet(same \union {w})
      BY <1>5, FS_AddElement
    <3>2. same \union {w} = {v \in InText : v \notin ungrouped' /\ Occurrences(v) = c}
      BY <1>2, <1>4, <1>5
    <3>3. QED  BY <1>1, <2>1, <3>1, <3>2
  <2>2. CASE n # c
    <3>1. n \in DOMAIN numberOccurrencesWords /\ numberOccurrencesWords'[n] = numberOccurrencesWords[n]
      BY <1>1, <2>2
    <3>2. /\ IsFiniteSet(numberOccurrencesWords[n])
          /\ numberOccurrencesWords[n] = {v \in InText : v \notin ungrouped /\ Occurrences(v) = n}
      BY <1>2, <3>1 DEF Grouped
    <3>3. {v \in InText : v \notin ungrouped' /\ Occurrences(v) = n}
            = {v \in InText : v \notin ungrouped /\ Occurrences(v) = n}
      BY <1>2, <1>4, <2>2
    <3>4. QED  BY <3>1, <3>2, <3>3
  <2>3. QED  BY <2>1, <2>2
<1>8. Grouped'
  BY <1>3, <1>6, <1>7 DEF Grouped
<1>9. QED  BY <1>1, <1>2, <1>3, <1>8 DEF TopInv, TopIsRanking

LEMMA AllGroupedKeeps == ASSUME TopInv, AllGrouped PROVE TopInv'
<1>1. /\ topPc = "group" /\ ungrouped = {} /\ topPc' = "rank"
      /\ unranked' = DOMAIN numberOccurrencesWords
      /\ UNCHANGED <<words, field, wordNumberOccurrences, ungrouped, numberOccurrencesWords, res>>
  BY DEF AllGrouped
<1>2. Grouped /\ Counted /\ TopTypeOK /\ InText \subseteq Word /\ res = <<>>
  BY <1>1 DEF TopInv, InText, TopTypeOK
<1>3. /\ InText' = InText /\ Counted' /\ TopTypeOK' /\ Grouped'
      /\ \A v : Occurrences(v)' = Occurrences(v)
  BY <1>1, <1>2 DEF InText, Counted, Occurrences, TopTypeOK, Grouped
<1>4. \A w \in InText : Occurrences(w) \in unranked'
  BY <1>1, <1>2 DEF Grouped, Counted
<1>5. res' = <<>> /\ DOMAIN res' = {} /\ Len(res') = 0
  BY <1>1, <1>2
<1>6. Listed' = {w \in InText' : Occurrences(w)' \notin unranked'}
  BY <1>3, <1>4, <1>5 DEF Listed
<1>7. Ranked'
  BY <1>1, <1>3, <1>5, <1>6 DEF Ranked
<1>8. QED  BY <1>1, <1>3, <1>7 DEF TopInv, TopIsRanking

\* A sorted group holds its words, each at one place, in their order.
LEMMA SortedFacts ==
  ASSUME NEW G, IsFiniteSet(G), NEW s \in Sorted(G)
  PROVE  /\ s \in Seq(G) /\ Len(s) \in Nat /\ DOMAIN s = 1..Len(s)
         /\ \A w \in G : \E i \in 1..Len(s) : s[i] = w
         /\ \A i, k \in 1..Len(s) : i < k => s[i] < s[k]
<1>1. Cardinality(G) \in Nat
  BY FS_CardinalityType
<1>2. s \in [1..Cardinality(G) -> G]
  BY DEF Sorted
<1>3. s \in Seq(G) /\ Len(s) = Cardinality(G)
  BY <1>1, <1>2
<1>4. QED  BY <1>1, <1>2, <1>3 DEF Sorted

\* A ranking of the words so far, with the next group behind it.
LEMMA RankedAppend ==
  ASSUME TopTypeOK, Counted, Grouped, Ranked, ungrouped = {},
         NEW c \in unranked, \A n \in unranked : n <= c,
         NEW s \in Sorted(numberOccurrencesWords[c])
  PROVE  LET all == res \o s
         IN  /\ all \in Seq(Word)
             /\ \A i, k \in DOMAIN all : i < k => Before(all[i], all[k])
             /\ {all[i] : i \in DOMAIN all} = {w \in InText : Occurrences(w) \notin unranked \ {c}}
             /\ \A i \in DOMAIN all : \A n \in unranked \ {c} : Occurrences(all[i]) > n
             /\ unranked \subseteq Nat
<1> DEFINE G == numberOccurrencesWords[c]  all == res \o s
<1>1. G = {w \in InText : Occurrences(w) = c} /\ IsFiniteSet(G)
  BY DEF Grouped, Ranked
<1>2. InText \subseteq Word /\ Word \subseteq Int /\ unranked \subseteq Nat
  <2>1. InText \subseteq Word
    BY DEF InText, TopTypeOK
  <2>2. unranked \subseteq {wordNumberOccurrences[w] : w \in InText}
    BY DEF Ranked, Grouped
  <2>3. QED  BY <2>1, <2>2 DEF TopTypeOK, TopAssumption
<1>3. /\ s \in Seq(G) /\ Len(s) \in Nat /\ DOMAIN s = 1..Len(s)
      /\ \A w \in G : \E i \in 1..Len(s) : s[i] = w
      /\ \A i, k \in 1..Len(s) : i < k => s[i] < s[k]
  BY <1>1, SortedFacts
<1>4. /\ res \in Seq(Word) /\ Len(res) \in Nat /\ DOMAIN res = 1..Len(res)
      /\ \A i \in 1..Len(res) : res[i] \in Word
  BY LenProperties DEF TopTypeOK
<1>5. \A i \in 1..Len(s) : s[i] \in Word /\ s[i] \in InText /\ Occurrences(s[i]) = c
  <2>1. \A i \in 1..Len(s) : s[i] \in G
    BY <1>3
  <2> HIDE DEF G
  <2>2. QED  BY <1>1, <1>2, <2>1
<1> HIDE DEF G
<1>6. s \in Seq(Word)
  BY <1>3, <1>5
<1>7. /\ all \in Seq(Word) /\ DOMAIN all = 1..(Len(res) + Len(s))
      /\ \A i \in 1..Len(res) : all[i] = res[i]
      /\ \A i \in 1..Len(s) : all[Len(res) + i] = s[i]
  BY <1>4, <1>6
<1> HIDE DEF all
<1>8. \A i \in DOMAIN all : i \in 1..Len(res) \/ \E k \in 1..Len(s) : i = Len(res) + k
  <2> TAKE i \in DOMAIN all
  <2>1. i \in 1..Len(res) \/ (i - Len(res) \in 1..Len(s) /\ i = Len(res) + (i - Len(res)))
    BY <1>3, <1>4, <1>7
  <2>2. QED  BY <2>1
<1>9. ASSUME NEW i \in DOMAIN all, NEW k \in DOMAIN all, i < k
      PROVE  Before(all[i], all[k])
  <2>1. CASE k \in 1..Len(res)
    <3>1. i \in 1..Len(res)
      BY <1>4, <1>7, <1>9, <2>1
    <3>2. QED  BY <1>4, <1>7, <1>9, <2>1, <3>1 DEF Ranked
  <2>2. CASE \E m \in 1..Len(s) : k = Len(res) + m
    <3> PICK m \in 1..Len(s) : k = Len(res) + m
      BY <2>2
    <3>1. Occurrences(all[k]) = c /\ all[k] = s[m]
      BY <1>5, <1>7
    <3>2. CASE i \in 1..Len(res)
      <4>1. Occurrences(res[i]) > c
        BY <1>4, <3>2 DEF Ranked
      <4>2. QED  BY <1>7, <3>1, <3>2, <4>1 DEF Before
    <3>3. CASE \E j \in 1..Len(s) : i = Len(res) + j
      <4> PICK j \in 1..Len(s) : i = Len(res) + j
        BY <3>3
      <4>1. j < m
        BY <1>3, <1>4, <1>9
      <4>2. s[j] < s[m] /\ all[i] = s[j] /\ Occurrences(all[i]) = c
        BY <1>3, <1>5, <1>7, <4>1
      <4>3. QED  BY <3>1, <4>2 DEF Before
    <3>4. QED  BY <1>8, <3>2, <3>3
  <2>3. QED  BY <1>8, <2>1, <2>2
<1>10. {all[i] : i \in DOMAIN all} = {w \in InText : Occurrences(w) \notin unranked \ {c}}
  <2>1. ASSUME NEW i \in DOMAIN all
        PROVE  all[i] \in InText /\ Occurrences(all[i]) \notin unranked \ {c}
    <3>1. CASE i \in 1..Len(res)
      <4>1. res[i] \in Listed
        BY <1>4, <3>1 DEF Listed
      <4>2. QED  BY <1>7, <3>1, <4>1 DEF Ranked
    <3>2. CASE \E j \in 1..Len(s) : i = Len(res) + j
      BY <1>5, <1>7, <3>2
    <3>3. QED  BY <1>8, <3>1, <3>2
  <2>2. ASSUME NEW w \in InText, Occurrences(w) \notin unranked \ {c}
        PROVE  \E i \in DOMAIN all : all[i] = w
    <3>1. CASE Occurrences(w) = c
      <4>1. w \in G
        BY <1>1, <3>1 DEF G
      <4>2. PICK i \in 1..Len(s) : s[i] = w
        BY <1>3, <4>1
      <4>3. Len(res) + i \in DOMAIN all /\ all[Len(res) + i] = w
        BY <1>3, <1>4, <1>7, <4>2
      <4>4. QED  BY <4>3
    <3>2. CASE Occurrences(w) # c
      <4>1. w \in Listed
        BY <2>2, <3>2 DEF Ranked
      <4>2. PICK i \in DOMAIN res : res[i] = w
        BY <4>1 DEF Listed
      <4>3. i \in DOMAIN all /\ all[i] = w
        BY <1>3, <1>4, <1>7, <4>2
      <4>4. QED  BY <4>3
    <3>3. QED  BY <3>1, <3>2
  <2>3. QED  BY <2>1, <2>2
<1>11. ASSUME NEW i \in DOMAIN all, NEW n \in unranked \ {c}
       PROVE  Occurrences(all[i]) > n
  <2>1. n < c
    BY <1>2
  <2>2. CASE i \in 1..Len(res)
    BY <1>4, <1>7, <2>2 DEF Ranked
  <2>3. CASE \E j \in 1..Len(s) : i = Len(res) + j
    BY <1>5, <1>7, <2>1, <2>3
  <2>4. QED  BY <1>8, <2>2, <2>3
<1>12. QED  BY <1>2, <1>7, <1>9, <1>10, <1>11 DEF all

\* What is said of the text and its groups depends on the variables it names.
LEMMA SameText ==
  ASSUME UNCHANGED words
  PROVE  /\ InText' = InText
         /\ \A v : Occurrences(v)' = Occurrences(v)
         /\ \A a, b : Before(a, b)' <=> Before(a, b)
         /\ UNCHANGED wordNumberOccurrences =>
              /\ Counted' <=> Counted
              /\ UNCHANGED <<ungrouped, numberOccurrencesWords>> => (Grouped' <=> Grouped)
<1>1. InText' = InText
  BY DEF InText
<1>2. \A v : Occurrences(v)' = Occurrences(v)
  BY DEF Occurrences
<1>3. \A a, b : Before(a, b)' <=> Before(a, b)
  BY DEF Before, Occurrences
<1>4. UNCHANGED wordNumberOccurrences => (Counted' <=> Counted)
  BY DEF Counted, Occurrences
<1>5. UNCHANGED <<wordNumberOccurrences, ungrouped, numberOccurrencesWords>> => (Grouped' <=> Grouped)
  BY DEF Grouped, InText, Occurrences
<1>6. QED  BY <1>1, <1>2, <1>3, <1>4, <1>5

\* The loop goes on below the limit, and cuts what reaches it.
LEMMA RankNextKeeps == ASSUME TopInv, RankNext PROVE TopInv'
<1>1. /\ topPc = "rank"
      /\ UNCHANGED <<words, field, wordNumberOccurrences, ungrouped, numberOccurrencesWords>>
  BY DEF RankNext
<1>2. PICK c \in unranked : /\ \A n \in unranked : n <= c
                            /\ RankGroup(c) /\ unranked' = unranked \ {c}
  BY DEF RankNext
<1>3. PICK s \in Sorted(numberOccurrencesWords[c]) :
        IF Len(res \o s) >= NumberOfTopWordsToReturn
          THEN topPc' = "done" /\ res' = SubSeq(res \o s, 1, NumberOfTopWordsToReturn)
          ELSE topPc' = "rank" /\ res' = res \o s
  BY <1>2 DEF RankGroup
<1> DEFINE all == res \o s
<1>4. TopTypeOK /\ Counted /\ Grouped /\ Ranked /\ ungrouped = {}
  BY <1>1 DEF TopInv
<1>5. /\ all \in Seq(Word)
      /\ \A i, k \in DOMAIN all : i < k => Before(all[i], all[k])
      /\ {all[i] : i \in DOMAIN all} = {w \in InText : Occurrences(w) \notin unranked \ {c}}
      /\ \A i \in DOMAIN all : \A n \in unranked \ {c} : Occurrences(all[i]) > n
      /\ unranked \subseteq Nat
  BY <1>2, <1>4, RankedAppend
<1>6. /\ InText' = InText /\ Counted' /\ Grouped' /\ InText \subseteq Word
      /\ \A v : Occurrences(v)' = Occurrences(v)
      /\ \A a, b : Before(a, b)' <=> Before(a, b)
  BY <1>1, <1>4, SameText DEF TopTypeOK, InText
<1>7. Len(all) \in Nat /\ DOMAIN all = 1..Len(all)
  BY <1>5, LenProperties
<1> HIDE DEF all
<1>8. CASE Len(all) >= NumberOfTopWordsToReturn
  <2> DEFINE N == NumberOfTopWordsToReturn
  <2>1. topPc' = "done" /\ res' = SubSeq(all, 1, N) /\ N \in Nat \ {0}
    BY <1>3, <1>8 DEF all, TopAssumption
  <2> HIDE DEF N
  <2>2. /\ res' \in Seq(Word) /\ Len(res') = N /\ DOMAIN res' = 1..N
        /\ \A i \in 1..N : res'[i] = all[i] /\ i \in DOMAIN all
    BY <1>5, <1>7, <1>8, <2>1 DEF N
  <2>3. Listed' \subseteq InText'
    BY <1>5, <1>6, <2>2 DEF Listed
  <2>4. \A i \in 1..N : \A k \in 1..N : i < k => Before(res'[i], res'[k])
    BY <1>5, <2>2
  <2>5. ASSUME NEW i \in 1..N, NEW w \in InText \ Listed' PROVE Before(res'[i], w)
    <3>1. CASE Occurrences(w) \in unranked \ {c}
      <4>1. Occurrences(all[i]) > Occurrences(w)
        BY <1>5, <2>2, <3>1
      <4>2. QED  BY <2>2, <4>1 DEF Before
    <3>2. CASE Occurrences(w) \notin unranked \ {c}
      <4>1. PICK k \in DOMAIN all : all[k] = w
        BY <1>5, <3>2
      <4>2. k \notin 1..N
        BY <2>2, <4>1 DEF Listed
      <4>3. i < k
        BY <1>7, <2>1, <4>2
      <4>4. QED  BY <1>5, <2>2, <4>1, <4>3
    <3>3. QED  BY <3>1, <3>2
  <2>6. TopIsRanking'
    <3>1. Len(res') <= NumberOfTopWordsToReturn /\ ~(Len(res') < NumberOfTopWordsToReturn)
      BY <2>1, <2>2 DEF N
    <3>2. QED  BY <1>6, <2>2, <2>3, <2>4, <2>5, <3>1 DEF TopIsRanking
  <2>7. TopTypeOK'
    BY <1>1, <1>4, <2>1, <2>2 DEF TopTypeOK
  <2>8. QED  BY <2>1, <2>6, <2>7 DEF TopInv
<1>9. CASE ~(Len(all) >= NumberOfTopWordsToReturn)
  <2>1. topPc' = "rank" /\ res' = all /\ Len(all) < NumberOfTopWordsToReturn
    BY <1>3, <1>7, <1>9 DEF all, TopAssumption
  <2>2. Ranked'
    <3>1. (\A i, k \in DOMAIN res : i < k => Before(res[i], res[k]))'
      BY <1>5, <1>6, <2>1
    <3>2. Listed' = {w \in InText' : Occurrences(w)' \notin unranked'}
      BY <1>2, <1>5, <1>6, <2>1 DEF Listed
    <3>3. (\A i \in DOMAIN res : \A n \in unranked : Occurrences(res[i]) > n)'
      BY <1>2, <1>5, <1>6, <2>1
    <3>4. unranked' \subseteq DOMAIN numberOccurrencesWords'
      BY <1>1, <1>2, <1>4 DEF Ranked
    <3>5. QED  BY <2>1, <3>1, <3>2, <3>3, <3>4 DEF Ranked
  <2>3. TopTypeOK'
    BY <1>1, <1>4, <1>5, <2>1 DEF TopTypeOK
  <2>4. QED  BY <1>1, <1>4, <1>6, <2>1, <2>2, <2>3 DEF TopInv, TopIsRanking
<1>10. QED  BY <1>8, <1>9

LEMMA AllRankedKeeps == ASSUME TopInv, AllRanked PROVE TopInv'
<1>1. /\ topPc = "rank" /\ unranked = {} /\ topPc' = "done"
      /\ UNCHANGED <<words, field, wordNumberOccurrences, ungrouped, numberOccurrencesWords, unranked, res>>
  BY DEF AllRanked
<1>2. TopTypeOK /\ Ranked
  BY <1>1 DEF TopInv
<1>3. TopTypeOK'
  BY <1>1, <1>2 DEF TopTypeOK
<1>4. Listed = InText /\ Len(res) <= NumberOfTopWordsToReturn
  BY <1>1, <1>2, LenProperties DEF Ranked, TopTypeOK, TopAssumption
<1>5. TopIsRanking'
  <2>1. /\ InText' = InText /\ Listed' = Listed /\ res' = res
        /\ \A a, b : Before(a, b)' <=> Before(a, b)
    BY <1>1 DEF InText, Listed, Before, Occurrences
  <2>2. QED  BY <1>2, <1>4, <2>1 DEF TopIsRanking, Ranked
<1>6. QED  BY <1>1, <1>3, <1>5 DEF TopInv

\* Whatever the order of the maps, Top10 returns the ranking of the text's words,
\* cut at the limit (top.go:27-71).
THEOREM TopIsRankingHolds == TopSpec => []TopIsRanking
<1>1. TopInv /\ [TopNext]_topVars => TopInv'
  <2> SUFFICES ASSUME TopInv, [TopNext]_topVars PROVE TopInv'
    OBVIOUS
  <2>1. CASE UNCHANGED topVars
    <3>1. TopTypeOK' /\ Listed' = Listed /\ UNCHANGED topVars
      BY <2>1 DEF topVars, TopInv, TopTypeOK, Listed
    <3>2. Ranked' <=> Ranked
      BY <2>1, <3>1, SameText DEF topVars, Ranked
    <3>3. TopIsRanking' <=> TopIsRanking
      BY <2>1, <3>1, SameText DEF topVars, TopIsRanking
    <3>4. QED  BY <2>1, <3>1, <3>2, <3>3, SameText DEF topVars, TopInv
  <2>2. QED
    BY <2>1, CountWordKeeps, AllCountedKeeps, GroupWordKeeps, AllGroupedKeeps, RankNextKeeps,
       AllRankedKeeps DEF TopNext
<1>2. TopInv => TopIsRanking
  BY DEF TopInv
<1>3. QED  BY <1>1, <1>2, TopInitInv, PTL DEF TopSpec
-----------------------------------------------------------------------------
(* Validate (hw09): first FlattenSeq again, under its name there. *)

LEMMA SameFlatten == \A s : SV!FlattenSeq(s) = Strings!FlattenSeq(s)
BY DEF SV!FlattenSeq, Strings!FlattenSeq

Associate(a, b, c) == (a \o b) \o c = a \o (b \o c)

LEMMA Associates ==
  ASSUME NEW S, NEW a \in Seq(S), NEW b \in Seq(S), NEW c \in Seq(S)
  PROVE  Associate(a, b, c)
BY ConcatAssociative DEF Associate

\* Errors found in the innermost call come behind all others.
LEMMA AppendedFlattens ==
  ASSUME NEW S, NEW s \in Seq(Seq(S)), s # <<>>, NEW e \in Seq(S)
  PROVE  /\ Appended(s, e) \in Seq(Seq(S)) /\ Len(Appended(s, e)) = Len(s)
         /\ SV!FlattenSeq(Appended(s, e)) = SV!FlattenSeq(s) \o e
<1>0. PICK n \in Nat : n = Len(s) /\ n # 0
  BY EmptySeq
<1> DEFINE t == Appended(s, e)
<1>1. n \in 1..Len(s) /\ s[n] \in Seq(S) /\ s[n] \o e \in Seq(S)
  <2>1. n \in 1..Len(s)
    BY <1>0
  <2>2. s[n] \in Seq(S)
    BY <2>1, ElementOfSeq
  <2>3. QED  BY <2>1, <2>2, ConcatProperties
<1>2. /\ t \in Seq(Seq(S)) /\ Len(t) = n
      /\ t[n] = s[n] \o e /\ \A j \in 1..n : j # n => t[j] = s[j]
  <2>1. t = [s EXCEPT ![n] = s[n] \o e]
    BY <1>0 DEF Appended
  <2> HIDE DEF t
  <2>2. /\ t \in Seq(Seq(S)) /\ Len(t) = Len(s)
        /\ \A j \in 1..Len(s) : t[j] = IF j = n THEN s[n] \o e ELSE s[j]
    BY <1>1, <2>1, ExceptSeq
  <2>3. \A j \in 1..Len(s) : j # n => t[j] = s[j]
    BY <2>2
  <2>4. t[n] = s[n] \o e
    BY <1>1, <2>2, Zenon
  <2>5. QED  BY <1>0, <2>2, <2>3, <2>4
<1> HIDE DEF t
<1>3. CASE n = 1
  <2>1. SV!FlattenSeq(t) = s[1] \o e /\ SV!FlattenSeq(s) = s[1]
    BY <1>0, <1>2, <1>3, FlattenOne, SameFlatten
  <2>2. QED  BY <1>0, <1>2, <2>1 DEF t
<1>4. CASE n # 1
  <2> DEFINE f == SubSeq(s, 1, n - 1)
  <2>1. f \in Seq(Seq(S)) /\ Len(f) = n - 1 /\ \A i \in 1..(n - 1) : f[i] = s[i]
    <3>1. \A i \in 1..(n - 1) : s[i] \in Seq(S)
      <4>1. \A i \in 1..(n - 1) : i \in 1..Len(s)
        BY <1>0
      <4>2. QED  BY <4>1, ElementOfSeq
    <3>2. n - 1 \in Int /\ 1 \in Int /\ 1 <= n - 1
      BY <1>0, <1>4
    <3>3. QED  BY <3>1, <3>2, SubSeqProperties
  <2> HIDE DEF f
  <2>2. Strings!FlattenSeq(f) \in Seq(S)
    BY <2>1, FlattenType
  <2>3. /\ Strings!FlattenSeq(s) = Strings!FlattenSeq(f) \o s[n]
        /\ Strings!FlattenSeq(t) = Strings!FlattenSeq(f) \o t[n]
    <3> DEFINE m == n - 1
    <3>1. /\ m \in Nat /\ m # 0 /\ m + 1 = n /\ Len(f) = m
          /\ \A i \in 1..m : f[i] = s[i] /\ f[i] = t[i]
      <4>1. m \in Nat /\ m # 0 /\ m + 1 = n /\ \A i \in 1..m : i \in 1..n /\ i # n
        BY <1>0, <1>4
      <4>2. Len(f) = m /\ \A i \in 1..m : f[i] = s[i]
        BY <2>1
      <4> HIDE DEF m
      <4>3. \A i \in 1..m : t[i] = s[i]
        BY <1>2, <4>1
      <4>4. QED  BY <4>1, <4>2, <4>3
    <3> HIDE DEF m
    <3>2. Len(s) = m + 1 /\ Len(t) = m + 1
      BY <1>0, <1>2, <3>1
    <3>3. QED  BY <3>1, <3>2, FlattenNext
  <2> HIDE DEF f
  <2>4. Strings!FlattenSeq(t) = Strings!FlattenSeq(s) \o e
    <3>1. Associate(Strings!FlattenSeq(f), s[n], e)
      BY <1>1, <2>2, Associates
    <3>2. QED  BY <1>2, <2>3, <3>1, Zenon DEF Associate
  <2>5. QED  BY <1>0, <1>2, <2>4, SameFlatten DEF t
<1>5. QED  BY <1>3, <1>4

\* A call begins without errors.
LEMMA PushFlattens ==
  ASSUME NEW S, NEW s \in Seq(Seq(S)), s # <<>>
  PROVE  /\ Append(s, <<>>) \in Seq(Seq(S)) /\ Append(s, <<>>) # <<>>
         /\ Len(Append(s, <<>>)) = Len(s) + 1
         /\ SV!FlattenSeq(Append(s, <<>>)) = SV!FlattenSeq(s)
<1> DEFINE t == Append(s, <<>>)
<1>1. <<>> \in Seq(S) /\ Len(s) \in Nat /\ Len(s) # 0
  BY EmptySeq
<1>2. /\ t \in Seq(Seq(S)) /\ t # <<>> /\ Len(t) = Len(s) + 1
      /\ t[Len(s) + 1] = <<>> /\ \A i \in 1..Len(s) : s[i] = t[i]
  BY <1>1, AppendProperties
<1> HIDE DEF t
<1>3. Strings!FlattenSeq(t) = Strings!FlattenSeq(s) \o <<>>
  <2>1. PICK n \in Nat : n = Len(s) /\ n # 0
    BY <1>1
  <2>2. Len(t) = n + 1 /\ t[n + 1] = <<>> /\ \A i \in 1..n : s[i] = t[i]
    BY <1>2, <2>1
  <2>3. Strings!FlattenSeq(t) = Strings!FlattenSeq(s) \o t[n + 1]
    BY <2>1, <2>2, FlattenNext
  <2>4. QED  BY <2>2, <2>3
<1>4. Strings!FlattenSeq(s) \in Seq(S)
  BY FlattenType
<1>5. QED  BY <1>2, <1>3, <1>4, ConcatEmptySeq, SameFlatten DEF t

\* A call that returns leaves its errors in their place.
LEMMA PopFlattens ==
  ASSUME NEW S, NEW s \in Seq(Seq(S)), s # <<>>, Len(s) # 1
  PROVE  LET t == Appended(SV!Front(s), SV!Last(s))
         IN /\ t \in Seq(Seq(S)) /\ t # <<>> /\ Len(t) = Len(s) - 1
            /\ SV!FlattenSeq(t) = SV!FlattenSeq(s)
<1>0. PICK n \in Nat : n = Len(s) /\ n # 0 /\ n # 1
  BY EmptySeq
<1> DEFINE f == SV!Front(s)
           t == Appended(f, s[n])
<1>1. s[n] \in Seq(S) /\ \A i \in 1..(n - 1) : s[i] \in Seq(S)
  <2>1. n \in 1..Len(s) /\ \A i \in 1..(n - 1) : i \in 1..Len(s)
    BY <1>0
  <2>2. QED  BY <2>1, ElementOfSeq
<1>2. f \in Seq(Seq(S)) /\ Len(f) = n - 1 /\ \A i \in 1..(n - 1) : f[i] = s[i]
  <2>1. n - 1 \in Int /\ 1 \in Int /\ 1 <= n - 1 /\ f = SubSeq(s, 1, n - 1)
    BY <1>0 DEF SV!Front
  <2> HIDE DEF f
  <2>2. QED  BY <1>1, <2>1, SubSeqProperties
<1> HIDE DEF f
<1>3. f # <<>>
  BY <1>0, <1>2
<1>4. /\ t \in Seq(Seq(S)) /\ Len(t) = Len(f)
      /\ SV!FlattenSeq(t) = SV!FlattenSeq(f) \o s[n]
  BY <1>1, <1>2, <1>3, AppendedFlattens
<1>5. Strings!FlattenSeq(s) = Strings!FlattenSeq(f) \o s[n]
  <2> DEFINE m == n - 1
  <2>1. m \in Nat /\ m # 0 /\ m + 1 = n /\ Len(f) = m /\ \A i \in 1..m : f[i] = s[i]
    BY <1>0, <1>2
  <2> HIDE DEF m
  <2>2. Len(s) = m + 1
    BY <1>0, <2>1
  <2>3. QED  BY <2>1, <2>2, FlattenNext
<1>6. t # <<>>
  BY <1>0, <1>2, <1>4
<1>7. QED  BY <1>0, <1>2, <1>4, <1>5, <1>6, SameFlatten DEF f, SV!Last
-----------------------------------------------------------------------------
\* Validators, the one made of the tag Nested too: no prover here knows that ""
\* is a string.
Applied == [name : STRING \union {""}, args : Seq(Int \union {Junk})]

LEMMA ValidatorsType ==
  ASSUME NEW f \in Field, f.tag # NoTag
  PROVE  Validators(f.tag) \in Seq(Applied)
<1>1. CASE f.tag = Nested
  <2>1. PICK v : v = [name |-> "", args |-> <<>>]
    OBVIOUS
  <2>2. v \in Applied
    <3>1. <<>> \in Seq(Int \union {Junk}) /\ "" \in STRING \union {""}
      OBVIOUS
    <3>2. QED  BY <2>1, <3>1 DEF Applied
  <2>3. Validators(f.tag) = <<v>>
    BY <1>1, <2>1 DEF Validators
  <2>4. QED  BY <2>2, <2>3
<1>2. CASE f.tag # Nested
  <2>1. Validators(f.tag) \in Seq(Validator)
    BY <1>2 DEF Validators, Field
  <2>2. Validator \subseteq Applied
    BY DEF Validator, Applied
  <2>3. QED  BY <2>1, <2>2, SeqMonotonic
<1>3. QED  BY <1>1, <1>2

LEMMA FirstHitFacts ==
  ASSUME NEW value, NEW args, Len(args) \in Nat,
         NEW n, n = FirstHit(args, value)
  PROVE  /\ n = 0 => \A i \in 1..Len(args) : args[i] # Junk /\ args[i] # value
         /\ n # 0 => /\ n \in 1..Len(args) /\ args[n] \in {Junk, value}
                     /\ \A k \in 1..Len(args) : k < n => args[k] # Junk /\ args[k] # value
<1> DEFINE Hits == {i \in 1..Len(args) : args[i] \in {Junk, value}}
<1>1. n = IF Hits # {} THEN SV!Min(Hits) ELSE 0
  BY DEF FirstHit, SV!SelectInSeq
<1>2. CASE Hits = {}
  BY <1>1, <1>2
<1>3. CASE Hits # {}
  <2>1. Hits \subseteq Nat
    OBVIOUS
  <2>2. \E i \in Hits : \A k \in Hits : i <= k
    <3> HIDE DEF Hits
    <3>1. QED  BY <1>3, <2>1, LeastExists
  <2>3. n = CHOOSE i \in Hits : \A k \in Hits : i <= k
    <3> HIDE DEF Hits
    <3>1. QED  BY <1>1, <1>3 DEF SV!Min
  <2>4. n \in Hits /\ \A k \in Hits : n <= k
    <3> HIDE DEF Hits
    <3>1. QED  BY <2>2, <2>3
  <2>5. n \in Nat /\ n \in 1..Len(args)
    BY <2>4
  <2>6. \A k \in 1..Len(args) : k < n => k \notin Hits
    <3> HIDE DEF Hits
    <3>1. QED  BY <2>4, <2>5
  <2>7. QED  BY <2>4, <2>5, <2>6
<1>4. QED  BY <1>2, <1>3

\* Outcome gives the verdict that NoVerdict and Satisfies say of a validator.
LEMMA OutcomeMeans ==
  ASSUME NEW f \in Field, f.kind \in {"int", "string"}, NEW v \in Applied
  PROVE  /\ Outcome(f.kind, f.value, v) = "program" <=> NoVerdict(f, v)
         /\ ~NoVerdict(f, v) => (Outcome(f.kind, f.value, v) = "ok" <=> Satisfies(f, v))
<1>1. f.value \in Int /\ v.args \in Seq(Int \union {Junk}) /\ f.value # Junk
  BY JunkAssumption DEF Field, Applied
<1>2. PICK n \in Nat : n = Len(v.args) /\ DOMAIN v.args = 1..n
  BY <1>1, LenProperties
<1>3. CASE v.name \notin Methods(f.kind)
  BY <1>3 DEF Outcome, NoVerdict
<1>4. CASE v.name \in Methods(f.kind) /\ v.name # "in"
  <2>1. v.name \in {"min", "max", "len", "regexp"}
    BY <1>4 DEF Methods
  <2>2. Outcome(f.kind, f.value, v) = Compared(f.value, v)
    BY <1>4 DEF Outcome
  <2>3. NoVerdict(f, v) <=> n # 1 \/ v.args[1] = Junk
    BY <1>2, <1>4 DEF NoVerdict
  <2>4. CASE n # 1 \/ v.args[1] = Junk
    <3>1. Number(v.args) = Junk
      BY <1>2, <2>4 DEF Number
    <3>2. QED  BY <2>2, <2>3, <2>4, <3>1 DEF Compared
  <2>5. CASE n = 1 /\ v.args[1] # Junk
    <3>1. Number(v.args) = v.args[1] /\ v.args[1] \in Int
      BY <1>1, <1>2, <2>5 DEF Number
    <3>2. PICK a \in Int : a = v.args[1]
      BY <3>1
    <3>3. Compared(f.value, v) = "ok" <=> Satisfies(f, v)
      BY <1>1, <2>1, <2>5, <3>1, <3>2 DEF Compared, Verdict, Satisfies
    <3>4. Compared(f.value, v) # "program"
      BY <2>5, <3>1 DEF Compared, Verdict
    <3>5. QED  BY <2>2, <2>3, <2>5, <3>3, <3>4
  <2>6. QED  BY <2>4, <2>5
<1>5. CASE v.name = "in"
  <2>1. v.name \in Methods(f.kind)
    BY <1>5 DEF Methods
  <2>2. Satisfies(f, v) <=> \E i \in 1..n : v.args[i] = f.value
    BY <1>2, <1>5 DEF Satisfies
  <2>3. NoVerdict(f, v) <=> /\ f.kind = "int"
                            /\ \E i \in 1..n : v.args[i] = Junk /\ \A k \in 1..i : v.args[k] # f.value
    BY <1>2, <1>5, <2>1 DEF NoVerdict
  <2>4. CASE f.kind = "int"
    <3>1. Outcome(f.kind, f.value, v) = InInt(f.value, v.args)
      BY <1>5, <2>1, <2>4 DEF Outcome
    <3>2. PICK h : h = FirstHit(v.args, f.value)
      OBVIOUS
    <3>3. /\ h = 0 => \A i \in 1..n : v.args[i] # Junk /\ v.args[i] # f.value
          /\ h # 0 => /\ h \in 1..n /\ v.args[h] \in {Junk, f.value}
                      /\ \A k \in 1..n : k < h => v.args[k] # Junk /\ v.args[k] # f.value
      BY <1>2, <3>2, FirstHitFacts
    <3>4. InInt(f.value, v.args) = IF h = 0 THEN "wrong" ELSE IF v.args[h] = Junk THEN "program" ELSE "ok"
      BY <3>2 DEF InInt
    <3>5. CASE h = 0
      BY <2>2, <2>3, <3>1, <3>3, <3>4, <3>5
    <3>6. CASE h # 0 /\ v.args[h] = Junk
      <4>1. \A k \in 1..h : v.args[k] # f.value
        BY <1>1, <3>3, <3>6
      <4>2. NoVerdict(f, v)
        BY <2>3, <2>4, <3>3, <3>6, <4>1
      <4>3. QED  BY <3>1, <3>4, <3>6, <4>2
    <3>7. CASE h # 0 /\ v.args[h] # Junk
      <4>1. h \in 1..n /\ v.args[h] = f.value
        BY <3>3, <3>7
      <4>2. ~NoVerdict(f, v)
        <5>1. ASSUME NEW i \in 1..n, v.args[i] = Junk PROVE h \in 1..i
          BY <3>3, <3>7, <4>1, <5>1
        <5>2. QED  BY <2>3, <4>1, <5>1
      <4>3. QED  BY <2>2, <3>1, <3>4, <3>7, <4>1, <4>2
    <3>8. QED  BY <3>5, <3>6, <3>7
  <2>5. CASE f.kind # "int"
    <3>1. Outcome(f.kind, f.value, v) = Verdict(SV!Contains(v.args, f.value))
      BY <1>5, <2>1, <2>5 DEF Outcome
    <3>2. SV!Contains(v.args, f.value) <=> Satisfies(f, v)
      BY <1>2, <2>2 DEF SV!Contains
    <3>3. QED  BY <2>3, <2>5, <3>1, <3>2 DEF Verdict
  <2>6. QED  BY <2>4, <2>5
<1>6. QED  BY <1>3, <1>4, <1>5
-----------------------------------------------------------------------------
\* FlattenNext also for a first element.
LEMMA FlattenMore ==
  ASSUME NEW S, NEW n \in Nat, NEW s, NEW t, Len(s) = n, Len(t) = n + 1,
         \A i \in 1..n : s[i] = t[i], n = 0 => s = <<>>, t[n + 1] \in Seq(S)
  PROVE  SV!FlattenSeq(t) = SV!FlattenSeq(s) \o t[n + 1]
<1>1. CASE n = 0
  <2>1. SV!FlattenSeq(t) = t[n + 1]
    BY <1>1, FlattenOne, SameFlatten
  <2>2. SV!FlattenSeq(s) = <<>>
    BY <1>1 DEF SV!FlattenSeq
  <2>3. QED  BY <2>1, <2>2, ConcatEmptySeq
<1>2. CASE n # 0
  BY <1>2, FlattenNext, SameFlatten
<1>3. QED  BY <1>1, <1>2

Err == STRING \X (STRING \union {""})

\* What validator k adds to the errors of a field.
ErrorOf(f, k) ==
  IF Satisfies(f, Validators(f.tag)[k]) THEN <<>> ELSE <<<<f.name, Validators(f.tag)[k].name>>>>

LEMMA ErrorOfType ==
  ASSUME NEW f \in Field, f.tag # NoTag, NEW k \in 1..Len(Validators(f.tag))
  PROVE  ErrorOf(f, k) \in Seq(Err)
<1>1. Validators(f.tag)[k] \in Applied
  BY ValidatorsType, ElementOfSeq
<1>2. <<f.name, Validators(f.tag)[k].name>> \in Err
  BY <1>1 DEF Applied, Field, Err
<1>3. QED  BY <1>2 DEF ErrorOf

LEMMA UnsatisfiedType ==
  ASSUME NEW f \in Field, f.tag # NoTag, NEW n \in Nat, n <= Len(Validators(f.tag))
  PROVE  Unsatisfied(f, n) \in Seq(Err)
<1> DEFINE s == [k \in 1..n |-> ErrorOf(f, k)]
<1>1. \A k \in 1..n : ErrorOf(f, k) \in Seq(Err)
  <2>1. Len(Validators(f.tag)) \in Nat
    BY ValidatorsType, LenProperties
  <2>2. \A k \in 1..n : k \in 1..Len(Validators(f.tag))
    BY <2>1
  <2>3. QED  BY <2>2, ErrorOfType
<1>2. s \in Seq(Seq(Err))
  BY <1>1
<1>3. Unsatisfied(f, n) = SV!FlattenSeq(s)
  BY DEF Unsatisfied, ErrorOf
<1> HIDE DEF s
<1>4. QED  BY <1>2, <1>3, FlattenType, SameFlatten

LEMMA UnsatisfiedNext ==
  ASSUME NEW f \in Field, f.tag # NoTag, NEW n \in Nat, n + 1 <= Len(Validators(f.tag))
  PROVE  Unsatisfied(f, n + 1) = Unsatisfied(f, n) \o ErrorOf(f, n + 1)
<1> DEFINE s == [k \in 1..n |-> ErrorOf(f, k)]
           t == [k \in 1..(n + 1) |-> ErrorOf(f, k)]
<1>1. /\ Len(s) = n /\ Len(t) = n + 1 /\ (\A i \in 1..n : s[i] = t[i])
      /\ (n = 0 => s = <<>>) /\ t[n + 1] = ErrorOf(f, n + 1)
  OBVIOUS
<1>2. ErrorOf(f, n + 1) \in Seq(Err)
  <2>1. Len(Validators(f.tag)) \in Nat
    BY ValidatorsType, LenProperties
  <2>2. n + 1 \in 1..Len(Validators(f.tag))
    BY <2>1
  <2>3. QED  BY <2>2, ErrorOfType
<1>3. Unsatisfied(f, n) = SV!FlattenSeq(s) /\ Unsatisfied(f, n + 1) = SV!FlattenSeq(t)
  BY DEF Unsatisfied, ErrorOf
<1> HIDE DEF s, t
<1>4. QED  BY <1>1, <1>2, <1>3, FlattenMore

\* What field i adds to the errors.
ErrorsOf(i) == IF Asks(i) THEN Unsatisfied(struct[i], Len(Validators(struct[i].tag))) ELSE <<>>

LEMMA ErrorsOfType ==
  ASSUME struct \in Seq(Field), NEW i \in 1..Len(struct)
  PROVE  ErrorsOf(i) \in Seq(Err)
<1>1. CASE Asks(i)
  <2>1. struct[i] \in Field /\ struct[i].tag # NoTag
    BY <1>1, ElementOfSeq DEF Asks
  <2>2. Len(Validators(struct[i].tag)) \in Nat
    BY <2>1, ValidatorsType, LenProperties
  <2>3. QED  BY <1>1, <2>1, <2>2, UnsatisfiedType DEF ErrorsOf
<1>2. CASE ~Asks(i)
  BY <1>2 DEF ErrorsOf
<1>3. QED  BY <1>1, <1>2

LEMMA ReportedNone == Reported(0) = <<>>
<1>1. Reported(0) = SV!FlattenSeq([i \in 1..0 |-> ErrorsOf(i)])
  BY DEF Reported, ErrorsOf
<1>2. [i \in 1..0 |-> ErrorsOf(i)] = <<>> /\ Len(<<>>) = 0
  OBVIOUS
<1>3. QED  BY <1>1, <1>2 DEF SV!FlattenSeq

LEMMA ReportedNext ==
  ASSUME struct \in Seq(Field), NEW n \in Nat, n + 1 <= Len(struct)
  PROVE  /\ Reported(n) \in Seq(Err)
         /\ Reported(n + 1) = Reported(n) \o ErrorsOf(n + 1)
<1> DEFINE s == [i \in 1..n |-> ErrorsOf(i)]
           t == [i \in 1..(n + 1) |-> ErrorsOf(i)]
<1>1. /\ Len(s) = n /\ Len(t) = n + 1 /\ (\A i \in 1..n : s[i] = t[i])
      /\ (n = 0 => s = <<>>) /\ t[n + 1] = ErrorsOf(n + 1)
  OBVIOUS
<1>2. \A i \in 1..(n + 1) : ErrorsOf(i) \in Seq(Err)
  <2>1. Len(struct) \in Nat
    BY LenProperties
  <2>2. \A i \in 1..(n + 1) : i \in 1..Len(struct)
    BY <2>1
  <2>3. QED  BY <2>2, ErrorsOfType
<1>3. s \in Seq(Seq(Err))
  BY <1>2
<1>4. Reported(n) = SV!FlattenSeq(s) /\ Reported(n + 1) = SV!FlattenSeq(t)
  BY DEF Reported, ErrorsOf
<1>5. n + 1 \in 1..(n + 1)
  OBVIOUS
<1> HIDE DEF s, t
<1>6. Reported(n) \in Seq(Err)
  BY <1>3, <1>4, FlattenType, SameFlatten
<1>7. Reported(n + 1) = Reported(n) \o ErrorsOf(n + 1)
  <2>1. t[n + 1] \in Seq(Err)
    BY <1>1, <1>2, <1>5
  <2>2. SV!FlattenSeq(t) = SV!FlattenSeq(s) \o t[n + 1]
    <3>1. PICK u, v : u = s /\ v = t
      OBVIOUS
    <3>2. /\ Len(u) = n /\ Len(v) = n + 1 /\ (\A i \in 1..n : u[i] = v[i])
          /\ (n = 0 => u = <<>>) /\ v[n + 1] \in Seq(Err)
      BY <1>1, <2>1, <3>1
    <3>3. ASSUME NEW S, v[n + 1] \in Seq(S) PROVE SV!FlattenSeq(v) = SV!FlattenSeq(u) \o v[n + 1]
      BY <3>2, <3>3, FlattenMore, SMTT(30)
    <3>4. SV!FlattenSeq(v) = SV!FlattenSeq(u) \o v[n + 1]
      BY <3>2, <3>3
    <3>5. QED  BY <3>1, <3>4
  <2>3. QED  BY <1>1, <1>4, <2>2
<1>8. QED  BY <1>6, <1>7

\* Fields that do not ask for validation add nothing.
LEMMA ReportedSame ==
  ASSUME struct \in Seq(Field), NEW a \in Nat, NEW b \in Nat, a <= b, b <= Len(struct),
         \A i \in (a + 1)..b : ~Asks(i)
  PROVE  Reported(b) = Reported(a)
<1> DEFINE Differ == {n \in a..b : Reported(n) # Reported(a)}
<1> SUFFICES ASSUME Differ # {} PROVE FALSE
  OBVIOUS
<1>1. Differ \subseteq Nat
  OBVIOUS
<1> HIDE DEF Differ
<1>2. PICK n \in Differ : \A k \in Differ : n <= k
  BY <1>1, LeastExists
<1>3. n \in a..b /\ Reported(n) # Reported(a)
  BY <1>2 DEF Differ
<1>4. PICK m \in Nat : n = m + 1 /\ m \in a..b
  <2>1. n # a
    BY <1>3
  <2>2. n - 1 \in Nat /\ n = (n - 1) + 1 /\ n - 1 \in a..b
    BY <1>3, <2>1
  <2>3. QED  BY <2>2
<1>5. m \notin Differ
  BY <1>2, <1>4
<1>6. Reported(m) = Reported(a)
  BY <1>4, <1>5 DEF Differ
<1>7. m + 1 <= Len(struct) /\ m + 1 \in (a + 1)..b
  <2>1. Len(struct) \in Nat
    BY LenProperties
  <2>2. QED  BY <1>3, <1>4, <2>1
<1>8. ErrorsOf(m + 1) = <<>>
  BY <1>7 DEF ErrorsOf
<1>9. Reported(m + 1) = Reported(m)
  BY <1>7, <1>8, ReportedNext, ConcatEmptySeq
<1>10. QED  BY <1>3, <1>4, <1>6, <1>9

LEMMA AfterFacts ==
  ASSUME struct \in Seq(Field), NEW i \in 1..Len(struct), NEW p, p = After(i)
  PROVE  /\ p \in (i + 1)..(Len(struct) + 1)
         /\ \A k \in (i + 1)..(p - 1) : struct[k].level > struct[i].level
         /\ p <= Len(struct) => struct[p].level <= struct[i].level
<1>1. PICK n \in Nat : n = Len(struct)
  BY LenProperties
<1>2. \A k \in 1..n : struct[k].level \in Nat
  <2>1. \A k \in 1..n : struct[k] \in Field
    BY <1>1, ElementOfSeq
  <2>2. QED  BY <2>1 DEF Field
<1> DEFINE Ends == {k \in (i + 1)..(n + 1) : k <= n => struct[k].level <= struct[i].level}
<1>3. Ends \subseteq Nat /\ n + 1 \in Ends
  BY <1>1
<1>4. \E e \in Ends : \A k \in Ends : e <= k
  <2> HIDE DEF Ends
  <2>1. QED  BY <1>3, LeastExists
<1>5. PICK e \in (i + 1)..(n + 1) : /\ e <= n => struct[e].level <= struct[i].level
                                 /\ \A k \in Ends : e <= k
  BY <1>4
<1>6. ASSUME NEW k \in (i + 1)..(e - 1) PROVE struct[k].level > struct[i].level
  <2>1. k \in (i + 1)..(n + 1) /\ k <= n /\ k \in 1..n /\ i \in 1..n
    BY <1>1, <1>5
  <2>2. k \notin Ends
    <3> HIDE DEF Ends
    <3>1. QED  BY <1>5, <2>1
  <2>3. ~(struct[k].level <= struct[i].level)
    BY <2>1, <2>2
  <2>4. QED  BY <1>2, <2>1, <2>3
<1>7. p = CHOOSE q \in (i + 1)..(n + 1) :
            /\ \A k \in (i + 1)..(q - 1) : struct[k].level > struct[i].level
            /\ q <= n => struct[q].level <= struct[i].level
  BY <1>1 DEF After
<1>8. QED  BY <1>1, <1>5, <1>6, <1>7
-----------------------------------------------------------------------------
ValidateTypeOK ==
  /\ struct \in Seq(Field) /\ WellNested(struct)
  /\ idx \in 1..(Len(struct) + 1)
  /\ errs \in Seq(Seq(Err)) /\ errs # <<>>
  /\ round \in Nat /\ resultErrors \in Seq(Err)
  /\ validateRet \in {"none", "program", "done"}

\* ProcessField has applied all validators of field i before the next one.
InField(i, d) ==
  /\ i <= Len(struct) /\ struct[i].level = d /\ Asks(i)
  /\ round <= Len(Validators(struct[i].tag)) + 1
  /\ \A k \in 1..(round - 1) : ~NoVerdict(struct[i], Validators(struct[i].tag)[k])
  /\ resultErrors = Unsatisfied(struct[i], round - 1)

\* m fields are done and d nested calls are open: the structs around the next
\* field, as far as they have been entered, are those that ask for it, and the
\* errors of all open calls together are those of the m fields.
Walked(m, d) ==
  /\ idx = m + 1 /\ Len(errs) = d + 1
  /\ \A i \in 1..m : ~Inapplicable(i)
  /\ SV!FlattenSeq(errs) = Reported(m)
  /\ m + 1 <= Len(struct) => struct[m + 1].level <= d
  /\ \A j \in 1..m : /\ struct[j].level < d
                     /\ \A k \in (j + 1)..m : struct[k].level > struct[j].level
                     => IsNested(struct[j])
  /\ round > 0 => InField(m + 1, d)

ValidateInv ==
  /\ ValidateTypeOK
  /\ validateRet = "none" => \E m, d \in Nat : Walked(m, d)
  /\ ValidateReports

LEMMA FieldFacts ==
  ASSUME ValidateTypeOK
  PROVE  /\ Len(struct) \in Nat /\ DOMAIN struct = 1..Len(struct)
         /\ \A i \in 1..Len(struct) : struct[i] \in Field /\ struct[i].level \in Nat
         /\ 1 <= Len(struct) => struct[1].level = 0
         /\ \A i \in 1..Len(struct) :
              i + 1 <= Len(struct) =>
                /\ struct[i + 1].level <= struct[i].level + 1
                /\ struct[i].kind # "struct" => struct[i + 1].level <= struct[i].level
<1>1. Len(struct) \in Nat /\ DOMAIN struct = 1..Len(struct)
  BY LenProperties DEF ValidateTypeOK
<1>2. \A i \in 1..Len(struct) : struct[i] \in Field
  BY ElementOfSeq DEF ValidateTypeOK
<1>3. \A i \in 1..Len(struct) : struct[i].level \in Nat
  BY <1>2 DEF Field
<1>4. \A i \in 1..Len(struct) :
        IF i = 1 THEN struct[i].level = 0
        ELSE struct[i].level <= struct[i - 1].level + (IF struct[i - 1].kind = "struct" THEN 1 ELSE 0)
  BY <1>1 DEF ValidateTypeOK, WellNested
<1>5. 1 <= Len(struct) => struct[1].level = 0
  BY <1>1, <1>4
<1>6. ASSUME NEW i \in 1..Len(struct), i + 1 <= Len(struct)
      PROVE  /\ struct[i + 1].level <= struct[i].level + 1
             /\ struct[i].kind # "struct" => struct[i + 1].level <= struct[i].level
  <2>1. i + 1 \in 1..Len(struct) /\ i + 1 # 1 /\ (i + 1) - 1 = i
    BY <1>1, <1>6
  <2>2. struct[i + 1].level <= struct[i].level + (IF struct[i].kind = "struct" THEN 1 ELSE 0)
    BY <1>4, <2>1
  <2>3. struct[i].level \in Nat /\ struct[i + 1].level \in Nat
    BY <1>3, <1>6, <2>1
  <2>4. QED  BY <2>2, <2>3
<1>7. QED  BY <1>1, <1>2, <1>3, <1>5, <1>6

\* Where the innermost call is at a field, all structs around it ask for it.
LEMMA AsksHere ==
  ASSUME ValidateTypeOK, NEW m \in Nat, NEW d \in Nat, Walked(m, d),
         m + 1 <= Len(struct), struct[m + 1].level = d
  PROVE  Asks(m + 1) <=> struct[m + 1].kind \in {"int", "string"} /\ struct[m + 1].tag # NoTag
<1>1. ASSUME NEW j \in 1..m, Encloses(j, m + 1) PROVE IsNested(struct[j])
  <2>1. \A k \in (j + 1)..(m + 1) : struct[k].level > struct[j].level
    BY <1>1 DEF Encloses
  <2>2. m + 1 \in (j + 1)..(m + 1) /\ \A k \in (j + 1)..m : k \in (j + 1)..(m + 1)
    OBVIOUS
  <2>3. struct[m + 1].level > struct[j].level
    BY <2>1, <2>2
  <2>4. struct[j].level \in Nat
    BY FieldFacts
  <2>5. struct[j].level < d
    BY <2>3, <2>4
  <2>6. QED  BY <2>1, <2>2, <2>5 DEF Walked
<1>2. \A j \in 1..((m + 1) - 1) : j \in 1..m
  OBVIOUS
<1>3. QED  BY <1>1, <1>2 DEF Asks

LEMMA SameStruct ==
  ASSUME struct' = struct
  PROVE  /\ \A i : (Asks(i)' <=> Asks(i)) /\ (Inapplicable(i)' <=> Inapplicable(i))
         /\ \A n : Reported(n)' = Reported(n)
<1>1. \A i : Asks(i)' <=> Asks(i)
  BY DEF Asks, Encloses
<1>2. \A i : Inapplicable(i)' <=> Inapplicable(i)
  BY <1>1 DEF Inapplicable
<1>3. \A n : Reported(n)' = Reported(n)
  BY <1>1 DEF Reported
<1>4. QED  BY <1>1, <1>2, <1>3

\* The loop goes on behind a field that is no struct.
LEMMA NextField ==
  ASSUME ValidateTypeOK, NEW m \in Nat, NEW d \in Nat, Walked(m, d),
         m + 1 <= Len(struct), struct[m + 1].level = d, struct[m + 1].kind # "struct",
         ~Inapplicable(m + 1), struct' = struct, idx' = idx + 1, Len(errs') = Len(errs),
         round' = 0, SV!FlattenSeq(errs') = SV!FlattenSeq(errs) \o ErrorsOf(m + 1)
  PROVE  Walked(m + 1, d)'
<1>0. PICK n \in Nat : n = m + 1
  OBVIOUS
<1>1. idx' = n + 1 /\ Len(errs)' = d + 1
  BY <1>0 DEF Walked
<1>2. \A i \in 1..n : ~Inapplicable(i)'
  <2>1. \A i \in 1..n : ~Inapplicable(i)
    BY <1>0 DEF Walked
  <2>2. QED  BY <2>1, SameStruct
<1>3. SV!FlattenSeq(errs)' = Reported(n)'
  <2>1. Reported(n) = Reported(m) \o ErrorsOf(n)
    BY <1>0, ReportedNext DEF ValidateTypeOK
  <2>2. SV!FlattenSeq(errs') = Reported(n)
    BY <1>0, <2>1 DEF Walked
  <2>3. QED  BY <2>2, SameStruct
<1>4. n + 1 <= Len(struct)' => struct'[n + 1].level <= d
  <2>1. n \in 1..Len(struct)
    BY <1>0, FieldFacts
  <2>2. n + 1 <= Len(struct) => struct[n + 1].level <= struct[n].level
    BY <1>0, <2>1, FieldFacts
  <2>3. QED  BY <1>0, <2>2
<1>5. ASSUME NEW j \in 1..n, struct[j].level < d,
             \A k \in (j + 1)..n : struct[k].level > struct[j].level
      PROVE  IsNested(struct[j])
  <2>1. j \in 1..m
    BY <1>0, <1>5
  <2>2. \A k \in (j + 1)..m : k \in (j + 1)..n
    BY <1>0
  <2>3. QED  BY <1>5, <2>1, <2>2 DEF Walked
<1>6. Walked(n, d)'
  BY <1>1, <1>2, <1>3, <1>4, <1>5 DEF Walked
<1>7. QED  BY <1>0, <1>6

\* A struct that asks for nothing is skipped with all that is in it.
LEMMA SkipStructKeeps == ASSUME ValidateInv, SkipStruct PROVE ValidateInv'
<1>0. ValidateTypeOK /\ validateRet = "none"
  BY DEF ValidateInv, SkipStruct, AtField
<1>1. PICK m, d \in Nat : Walked(m, d)
  BY <1>0 DEF ValidateInv
<1>2. /\ idx = m + 1 /\ m + 1 <= Len(struct) /\ struct[m + 1].level = d /\ round = 0
      /\ struct[m + 1].kind = "struct" /\ ~IsNested(struct[m + 1])
  BY <1>0, <1>1 DEF SkipStruct, AtField, Walked, ValidateTypeOK
<1>3. /\ Len(struct) \in Nat
      /\ \A i \in 1..Len(struct) : struct[i] \in Field /\ struct[i].level \in Nat
  BY <1>0, FieldFacts
<1>4. PICK p : p = After(m + 1)
  OBVIOUS
<1>5. m + 1 \in 1..Len(struct) /\ struct \in Seq(Field)
  BY <1>0, <1>2, <1>3 DEF ValidateTypeOK
<1>6. /\ p \in (m + 2)..(Len(struct) + 1)
      /\ \A k \in (m + 2)..(p - 1) : struct[k].level > d
      /\ p <= Len(struct) => struct[p].level <= d
  <2>1. /\ p \in ((m + 1) + 1)..(Len(struct) + 1)
        /\ \A k \in ((m + 1) + 1)..(p - 1) : struct[k].level > struct[m + 1].level
        /\ p <= Len(struct) => struct[p].level <= struct[m + 1].level
    BY <1>4, <1>5, AfterFacts
  <2>2. QED  BY <1>2, <2>1
<1>7. PICK q \in Nat : q = p - 1 /\ q <= Len(struct) /\ m <= q /\ m + 1 <= q
  <2>1. p - 1 \in Nat /\ p - 1 <= Len(struct) /\ m + 1 <= p - 1
    BY <1>3, <1>6
  <2>2. QED  BY <2>1
<1>8. ASSUME NEW i \in (m + 1)..q PROVE ~Asks(i)
  <2>1. CASE i = m + 1
    BY <1>2, <2>1 DEF Asks
  <2>2. CASE i # m + 1
    <3>1. \A k \in ((m + 1) + 1)..i : k \in (m + 2)..(p - 1)
      BY <1>3, <1>6, <1>7
    <3>2. Encloses(m + 1, i)
      BY <1>2, <1>6, <2>2, <3>1 DEF Encloses
    <3>3. m + 1 \in 1..(i - 1)
      BY <2>2
    <3>4. QED  BY <1>2, <3>2, <3>3 DEF Asks
  <2>3. QED  BY <2>1, <2>2
<1>9. Reported(q) = Reported(m)
  BY <1>5, <1>7, <1>8, ReportedSame
<1>10. UNCHANGED <<struct, errs, round, resultErrors, returned, validateRet>> /\ idx' = p
  BY <1>0, <1>2, <1>4 DEF SkipStruct
<1>11. Walked(q, d)'
  <2>1. idx' = q + 1 /\ Len(errs)' = d + 1
    BY <1>1, <1>3, <1>6, <1>7, <1>10 DEF Walked
  <2>2. \A i \in 1..q : ~Inapplicable(i)'
    <3>1. \A i \in 1..q : i \in 1..m \/ i \in (m + 1)..q
      OBVIOUS
    <3>2. \A i \in 1..q : ~Inapplicable(i)
      BY <1>1, <1>8, <3>1 DEF Walked, Inapplicable
    <3>3. QED  BY <1>10, <3>2, SameStruct
  <2>3. SV!FlattenSeq(errs)' = Reported(q)'
    <3>1. SV!FlattenSeq(errs) = Reported(q)
      BY <1>1, <1>9 DEF Walked
    <3>2. QED  BY <1>10, <3>1, SameStruct
  <2>4. q + 1 <= Len(struct)' => struct'[q + 1].level <= d
    BY <1>3, <1>6, <1>7, <1>10
  <2>5. ASSUME NEW j \in 1..q, struct[j].level < d,
               \A k \in (j + 1)..q : struct[k].level > struct[j].level
        PROVE  IsNested(struct[j])
    <3>1. j \notin (m + 1)..q
      <4>1. ASSUME j \in (m + 1)..q PROVE FALSE
        <5>1. j = m + 1 \/ j \in (m + 2)..(p - 1)
          BY <1>3, <1>6, <1>7, <4>1
        <5>2. j \in 1..Len(struct) /\ struct[j].level \in Nat
          BY <1>3, <1>7
        <5>3. QED  BY <1>2, <1>6, <2>5, <5>1, <5>2
      <4>2. QED  BY <4>1
    <3>2. j \in 1..m /\ \A k \in (j + 1)..m : k \in (j + 1)..q
      BY <1>7, <3>1
    <3>3. QED  BY <1>1, <2>5, <3>2 DEF Walked
  <2>6. QED  BY <1>2, <1>10, <2>1, <2>2, <2>3, <2>4, <2>5 DEF Walked
<1>12. ValidateTypeOK'
  <2>1. idx' \in 1..(Len(struct) + 1)
    BY <1>3, <1>6, <1>10
  <2>2. QED  BY <1>0, <1>10, <2>1 DEF ValidateTypeOK
<1>13. validateRet' = "none"
  BY <1>0, <1>10
<1>14. QED  BY <1>11, <1>12, <1>13 DEF ValidateInv, ValidateReports

LEMMA CallValidateKeeps == ASSUME ValidateInv, CallValidate PROVE ValidateInv'
<1>0. ValidateTypeOK /\ validateRet = "none"
  BY DEF ValidateInv, CallValidate, AtField
<1>1. PICK m, d \in Nat : Walked(m, d)
  BY <1>0 DEF ValidateInv
<1>2. /\ idx = m + 1 /\ m + 1 <= Len(struct) /\ struct[m + 1].level = d /\ round = 0
      /\ struct[m + 1].kind = "struct" /\ IsNested(struct[m + 1])
  BY <1>0, <1>1 DEF CallValidate, AtField, Walked, ValidateTypeOK
<1>3. /\ Len(struct) \in Nat
      /\ \A i \in 1..Len(struct) : struct[i] \in Field /\ struct[i].level \in Nat
      /\ m + 2 <= Len(struct) => struct[m + 2].level <= d + 1
  <2>1. (m + 1) + 1 <= Len(struct) => struct[(m + 1) + 1].level <= struct[m + 1].level + 1
    BY <1>0, <1>2, FieldFacts
  <2>2. QED  BY <1>0, <1>2, <2>1, FieldFacts
<1>4. /\ UNCHANGED <<struct, round, resultErrors, returned, validateRet>>
      /\ idx' = m + 2 /\ errs' = Append(errs, <<>>)
  BY <1>2 DEF CallValidate
<1>5. /\ errs' \in Seq(Seq(Err)) /\ errs' # <<>> /\ Len(errs') = Len(errs) + 1
      /\ SV!FlattenSeq(errs') = SV!FlattenSeq(errs)
  BY <1>0, <1>4, PushFlattens DEF ValidateTypeOK
<1>6. ~Asks(m + 1)
  BY <1>2 DEF Asks
<1>7. PICK q, e \in Nat : q = m + 1 /\ e = d + 1
  OBVIOUS
<1>8. Walked(q, e)'
  <2>1. idx' = q + 1 /\ Len(errs)' = e + 1
    BY <1>1, <1>4, <1>5, <1>7 DEF Walked
  <2>2. \A i \in 1..q : ~Inapplicable(i)'
    <3>1. \A i \in 1..m : ~Inapplicable(i)
      BY <1>1 DEF Walked
    <3>2. ~Inapplicable(m + 1)
      BY <1>6 DEF Inapplicable
    <3>3. \A i \in 1..q : i \in 1..m \/ i = m + 1
      BY <1>7
    <3>4. QED  BY <1>4, <3>1, <3>2, <3>3, SameStruct
  <2>3. SV!FlattenSeq(errs)' = Reported(q)'
    <3>1. Reported(q) = Reported(m)
      <4>1. \A i \in (m + 1)..q : ~Asks(i)
        BY <1>6, <1>7
      <4>2. m <= q /\ q <= Len(struct) /\ struct \in Seq(Field)
        BY <1>0, <1>2, <1>7 DEF ValidateTypeOK
      <4>3. QED  BY <4>1, <4>2, ReportedSame
    <3>2. SV!FlattenSeq(errs') = Reported(q)
      BY <1>1, <1>5, <3>1 DEF Walked
    <3>3. QED  BY <1>4, <3>2, SameStruct
  <2>4. q + 1 <= Len(struct)' => struct'[q + 1].level <= e
    BY <1>3, <1>4, <1>7
  <2>5. ASSUME NEW j \in 1..q, struct[j].level < e,
               \A k \in (j + 1)..q : struct[k].level > struct[j].level
        PROVE  IsNested(struct[j])
    <3>1. CASE j = m + 1
      BY <1>2, <3>1
    <3>2. CASE j # m + 1
      <4>1. j \in 1..m /\ m + 1 \in (j + 1)..q /\ \A k \in (j + 1)..m : k \in (j + 1)..q
        BY <1>7, <3>2
      <4>2. struct[j].level < d
        BY <1>2, <1>3, <2>5, <4>1
      <4>3. QED  BY <1>1, <2>5, <4>1, <4>2 DEF Walked
    <3>3. QED  BY <3>1, <3>2
  <2>6. QED  BY <1>2, <1>4, <2>1, <2>2, <2>3, <2>4, <2>5 DEF Walked
<1>9. ValidateTypeOK'
  BY <1>0, <1>2, <1>3, <1>4, <1>5 DEF ValidateTypeOK
<1>10. validateRet' = "none"
  BY <1>0, <1>4
<1>11. QED  BY <1>8, <1>9, <1>10 DEF ValidateInv, ValidateReports

LEMMA SkipFieldKeeps == ASSUME ValidateInv, SkipField PROVE ValidateInv'
<1>0. ValidateTypeOK /\ validateRet = "none"
  BY DEF ValidateInv, SkipField, AtField
<1>1. PICK m, d \in Nat : Walked(m, d)
  BY <1>0 DEF ValidateInv
<1>2. /\ idx = m + 1 /\ m + 1 <= Len(struct) /\ struct[m + 1].level = d /\ round = 0
      /\ struct[m + 1].kind # "struct"
      /\ struct[m + 1].tag = NoTag \/ Methods(struct[m + 1].kind) = {}
  BY <1>0, <1>1 DEF SkipField, AtField, Walked, ValidateTypeOK
<1>3. /\ UNCHANGED <<struct, errs, round, resultErrors, returned, validateRet>>
      /\ idx' = idx + 1
  BY <1>2 DEF SkipField
<1>4. ~Asks(m + 1)
  <2>1. Methods("int") # {} /\ Methods("string") # {}
    BY DEF Methods
  <2>2. QED  BY <1>2, <2>1 DEF Asks
<1>5. ~Inapplicable(m + 1) /\ ErrorsOf(m + 1) = <<>>
  BY <1>4 DEF Inapplicable, ErrorsOf
<1>6. SV!FlattenSeq(errs) = SV!FlattenSeq(errs) \o <<>>
  BY <1>0, FlattenType, SameFlatten, ConcatEmptySeq DEF ValidateTypeOK
<1>7. Walked(m + 1, d)'
  BY <1>0, <1>1, <1>2, <1>3, <1>5, <1>6, NextField
<1>8. ValidateTypeOK'
  <2>1. idx' \in 1..(Len(struct) + 1)
    BY <1>0, <1>2, <1>3, FieldFacts
  <2>2. QED  BY <1>0, <1>3, <2>1 DEF ValidateTypeOK
<1>9. m + 1 \in Nat /\ validateRet' = "none"
  BY <1>0, <1>3
<1>10. QED  BY <1>7, <1>8, <1>9 DEF ValidateInv, ValidateReports

\* No validator of a field has been applied yet.
LEMMA ProcessFieldKeeps == ASSUME ValidateInv, ProcessField PROVE ValidateInv'
<1>0. ValidateTypeOK /\ validateRet = "none"
  BY DEF ValidateInv, ProcessField, AtField
<1>1. PICK m, d \in Nat : Walked(m, d)
  BY <1>0 DEF ValidateInv
<1>2. /\ idx = m + 1 /\ m + 1 <= Len(struct) /\ struct[m + 1].level = d
      /\ struct[m + 1].kind # "struct"
      /\ struct[m + 1].tag # NoTag /\ Methods(struct[m + 1].kind) # {}
  BY <1>0, <1>1 DEF ProcessField, AtField, Walked, ValidateTypeOK
<1>3. /\ UNCHANGED <<struct, idx, errs, returned, validateRet>>
      /\ round' = 1 /\ resultErrors' = <<>>
  BY DEF ProcessField
<1>4. Asks(m + 1)
  <2>1. struct[m + 1].kind \in {"int", "string"}
    BY <1>2 DEF Methods
  <2>2. QED  BY <1>0, <1>1, <1>2, <2>1, AsksHere
<1>5. PICK q : q = m + 1
  OBVIOUS
<1>6. InField(q, d)'
  <2>1. Unsatisfied(struct[q], 0) = <<>>
    <3>1. [k \in 1..0 |-> ErrorOf(struct[q], k)] = <<>> /\ Len(<<>>) = 0
      OBVIOUS
    <3>2. Unsatisfied(struct[q], 0) = SV!FlattenSeq([k \in 1..0 |-> ErrorOf(struct[q], k)])
      BY DEF Unsatisfied, ErrorOf
    <3>3. QED  BY <3>1, <3>2 DEF SV!FlattenSeq
  <2>2. Len(Validators(struct[q].tag)) \in Nat
    <3>1. struct[q] \in Field
      BY <1>0, <1>2, <1>5, FieldFacts
    <3>2. QED  BY <1>2, <1>5, <3>1, ValidatorsType, LenProperties
  <2>3. Asks(q)'
    BY <1>3, <1>4, <1>5, SameStruct
  <2>4. round' - 1 = 0 /\ \A k \in 1..0 : FALSE
    BY <1>3
  <2>5. resultErrors' = Unsatisfied(struct'[q], round' - 1)
    BY <1>3, <2>1, <2>4
  <2>6. QED  BY <1>2, <1>3, <1>5, <2>2, <2>3, <2>4, <2>5 DEF InField
<1>7. Walked(m, d)'
  <2>1. (\A i \in 1..m : ~Inapplicable(i)') /\ Reported(m)' = Reported(m)
    BY <1>1, <1>3, SameStruct DEF Walked
  <2>2. SV!FlattenSeq(errs)' = Reported(m)'
    BY <1>1, <1>3, <2>1 DEF Walked
  <2>3. round' > 0 => InField(m + 1, d)'
    BY <1>5, <1>6
  <2>4. QED  BY <1>1, <1>3, <2>1, <2>2, <2>3 DEF Walked
<1>8. ValidateTypeOK'
  BY <1>0, <1>3 DEF ValidateTypeOK
<1>9. QED  BY <1>0, <1>3, <1>7, <1>8 DEF ValidateInv, ValidateReports

LEMMA ApplyMethodKeeps == ASSUME ValidateInv, ApplyMethod PROVE ValidateInv'
<1> DEFINE f == struct[idx]
           v == Validators(f.tag)[round]
           outcome == Outcome(f.kind, f.value, v)
<1>0. ValidateTypeOK /\ validateRet = "none" /\ round > 0 /\ round <= Len(Validators(f.tag))
  BY DEF ValidateInv, ApplyMethod
<1>1. PICK m, d \in Nat : Walked(m, d)
  BY <1>0 DEF ValidateInv
<1>2. PICK q \in Nat : q = m + 1 /\ q = idx /\ q \in 1..Len(struct) /\ struct[q] = f
  BY <1>0, <1>1, FieldFacts DEF Walked, InField
<1>3. InField(q, d) /\ Asks(q)
  BY <1>0, <1>1, <1>2 DEF Walked, InField
<1>4. f \in Field /\ f.kind \in {"int", "string"} /\ f.tag # NoTag
  BY <1>0, <1>2, <1>3, FieldFacts DEF Asks
<1>5. PICK r \in Nat : round = r + 1
  <2>1. round - 1 \in Nat /\ round = (round - 1) + 1
    BY <1>0 DEF ValidateTypeOK
  <2>2. QED  BY <2>1
<1>6. /\ Len(Validators(f.tag)) \in Nat /\ DOMAIN Validators(f.tag) = 1..Len(Validators(f.tag))
      /\ round \in 1..Len(Validators(f.tag)) /\ v \in Applied
  <2>1. Validators(f.tag) \in Seq(Applied)
    BY <1>4, ValidatorsType
  <2>2. /\ Len(Validators(f.tag)) \in Nat
        /\ DOMAIN Validators(f.tag) = 1..Len(Validators(f.tag))
    BY <2>1, LenProperties
  <2>3. round \in 1..Len(Validators(f.tag))
    BY <1>0, <1>5, <2>2
  <2>4. QED  BY <2>1, <2>2, <2>3, ElementOfSeq
<1>7. /\ outcome = "program" <=> NoVerdict(f, v)
      /\ ~NoVerdict(f, v) => (outcome = "ok" <=> Satisfies(f, v))
  BY <1>4, <1>6, OutcomeMeans
<1>8. struct' = struct
  BY DEF ApplyMethod
<1>9. CASE outcome = "program"
  <2>1. ReturnProgramError
    BY <1>9 DEF ApplyMethod
  <2>2. /\ validateRet' = "program" /\ returned' = <<>>
        /\ UNCHANGED <<struct, idx, errs, round, resultErrors>>
    BY <1>8, <2>1 DEF ReturnProgramError
  <2>3. Inapplicable(q)
    BY <1>2, <1>3, <1>6, <1>7, <1>9 DEF Inapplicable
  <2>4. \E i \in DOMAIN struct : Inapplicable(i)'
    BY <1>0, <1>2, <1>8, <2>3, FieldFacts, SameStruct
  <2>5. ValidateReports'
    BY <1>8, <2>2, <2>4 DEF ValidateReports
  <2>6. ValidateTypeOK'
    BY <1>0, <2>2 DEF ValidateTypeOK
  <2>7. QED  BY <2>2, <2>5, <2>6 DEF ValidateInv
<1>10. CASE outcome # "program"
  <2>1. /\ resultErrors' = IF outcome = "ok" THEN resultErrors
                           ELSE Append(resultErrors, <<f.name, v.name>>)
        /\ round' = round + 1
        /\ UNCHANGED <<struct, idx, errs, returned, validateRet>>
    BY <1>10 DEF ApplyMethod
  <2>2. ~NoVerdict(f, v) /\ (outcome = "ok" <=> Satisfies(f, v))
    BY <1>7, <1>10
  <2> HIDE DEF outcome
  <2>3. resultErrors = Unsatisfied(f, r) /\ resultErrors \in Seq(Err)
    <3>1. resultErrors = Unsatisfied(struct[q], round - 1)
      BY <1>3 DEF InField
    <3>2. round - 1 = r
      BY <1>5
    <3>3. QED  BY <1>0, <1>2, <3>1, <3>2 DEF ValidateTypeOK
  <2>4. <<f.name, v.name>> \in Err
    BY <1>4, <1>6 DEF Err, Field, Applied
  <2>5. resultErrors' = resultErrors \o ErrorOf(f, round)
    <3>1. CASE outcome = "ok"
      <4>1. ErrorOf(f, round) = <<>>
        BY <2>2, <3>1 DEF ErrorOf
      <4>2. QED  BY <2>1, <2>3, <3>1, <4>1, ConcatEmptySeq
    <3>2. CASE outcome # "ok"
      <4>1. ErrorOf(f, round) = <<<<f.name, v.name>>>>
        BY <2>2, <3>2 DEF ErrorOf
      <4>2. PICK e \in Err : e = <<f.name, v.name>>
        BY <2>4
      <4>3. Append(resultErrors, e) = resultErrors \o <<e>>
        BY <2>3, AppendIsConcat
      <4>4. QED  BY <2>1, <3>2, <4>1, <4>2, <4>3
    <3>3. QED  BY <3>1, <3>2
  <2>6. resultErrors' = Unsatisfied(f, r + 1)
    <3> HIDE DEF f, v
    <3>1. r + 1 <= Len(Validators(f.tag))
      BY <1>5, <1>6
    <3>2. Unsatisfied(f, r + 1) = Unsatisfied(f, r) \o ErrorOf(f, r + 1)
      BY <1>4, <3>1, UnsatisfiedNext
    <3>3. QED  BY <1>5, <2>3, <2>5, <3>2
  <2>7. resultErrors' \in Seq(Err)
    BY <1>4, <1>5, <1>6, <2>6, UnsatisfiedType
  <2>8. InField(q, d)'
    <3>1. Asks(q)'
      BY <1>3, <1>8, SameStruct
    <3>2. round' - 1 = r + 1 /\ round' <= Len(Validators(f.tag)) + 1
      BY <1>5, <1>6, <2>1
    <3>3. \A k \in 1..(r + 1) : ~NoVerdict(f, Validators(f.tag)[k])
      <4>1. \A k \in 1..r : ~NoVerdict(f, Validators(f.tag)[k])
        <5>1. \A k \in 1..(round - 1) : ~NoVerdict(struct[q], Validators(struct[q].tag)[k])
          BY <1>3 DEF InField
        <5>2. round - 1 = r
          BY <1>5
        <5>3. QED  BY <1>2, <5>1, <5>2
      <4>2. ~NoVerdict(f, Validators(f.tag)[r + 1])
        BY <1>5, <2>2
      <4>3. \A k \in 1..(r + 1) : k \in 1..r \/ k = r + 1
        OBVIOUS
      <4>4. QED  BY <4>1, <4>2, <4>3
    <3>4. struct'[q] = f /\ Len(struct') = Len(struct)
      BY <1>2, <1>8
    <3>5. resultErrors' = Unsatisfied(struct'[q], round' - 1)
      BY <2>6, <3>2, <3>4
    <3>6. \A k \in 1..(round' - 1) : ~NoVerdict(struct'[q], Validators(struct'[q].tag)[k])
      BY <3>2, <3>3, <3>4
    <3>7. struct'[q].level = d /\ q <= Len(struct')
      BY <1>3, <3>4, <1>2 DEF InField
    <3>8. round' <= Len(Validators(struct'[q].tag)) + 1
      BY <3>2, <3>4
    <3> HIDE DEF f, v
    <3>9. QED  BY <3>1, <3>5, <3>6, <3>7, <3>8 DEF InField
  <2>9. Walked(m, d)'
    <3>1. (\A i \in 1..m : ~Inapplicable(i)') /\ Reported(m)' = Reported(m)
      BY <1>1, <1>8, SameStruct DEF Walked
    <3>2. SV!FlattenSeq(errs)' = Reported(m)'
      BY <1>1, <2>1, <3>1 DEF Walked
    <3>3. round' > 0 => InField(m + 1, d)'
      BY <1>2, <2>8
    <3> HIDE DEF f, v
    <3>4. QED  BY <1>1, <2>1, <3>1, <3>2, <3>3 DEF Walked
  <2>10. ValidateTypeOK'
    BY <1>0, <2>1, <2>7 DEF ValidateTypeOK
  <2>11. QED  BY <1>0, <2>1, <2>9, <2>10 DEF ValidateInv, ValidateReports
<1>11. QED  BY <1>9, <1>10

LEMMA FieldDoneKeeps == ASSUME ValidateInv, FieldDone PROVE ValidateInv'
<1> DEFINE f == struct[idx]
<1>0. ValidateTypeOK /\ validateRet = "none" /\ round > 0 /\ round > Len(Validators(f.tag))
  BY DEF ValidateInv, FieldDone
<1>1. PICK m, d \in Nat : Walked(m, d)
  BY <1>0 DEF ValidateInv
<1>2. PICK q \in Nat : q = m + 1 /\ q = idx /\ q \in 1..Len(struct) /\ struct[q] = f
  BY <1>0, <1>1, FieldFacts DEF Walked, InField
<1>3. InField(q, d) /\ Asks(q)
  BY <1>0, <1>1, <1>2 DEF Walked, InField
<1>4. f \in Field /\ f.kind # "struct" /\ f.tag # NoTag
  BY <1>0, <1>2, <1>3, FieldFacts DEF Asks
<1>5. PICK n \in Nat : /\ n = Len(Validators(f.tag)) /\ DOMAIN Validators(f.tag) = 1..n
                     /\ n = round - 1
  <2>1. Len(Validators(f.tag)) \in Nat /\ DOMAIN Validators(f.tag) = 1..Len(Validators(f.tag))
    BY <1>4, ValidatorsType, LenProperties
  <2>2. round <= Len(Validators(f.tag)) + 1
    BY <1>2, <1>3 DEF InField
  <2>3. QED  BY <1>0, <2>1, <2>2 DEF ValidateTypeOK
<1>6. /\ errs' = Appended(errs, resultErrors) /\ idx' = idx + 1 /\ round' = 0
      /\ resultErrors' = <<>> /\ UNCHANGED <<struct, returned, validateRet>>
  BY DEF FieldDone
<1> HIDE DEF f
<1>7. resultErrors = ErrorsOf(q)
  <2>1. resultErrors = Unsatisfied(f, n)
    BY <1>2, <1>3, <1>5 DEF InField
  <2>2. QED  BY <1>2, <1>3, <1>5, <2>1 DEF ErrorsOf
<1>8. ~Inapplicable(q)
  <2>1. \A k \in 1..n : ~NoVerdict(f, Validators(f.tag)[k])
    BY <1>2, <1>3, <1>5 DEF InField
  <2>2. QED  BY <1>2, <1>5, <2>1 DEF Inapplicable
<1>9. /\ errs' \in Seq(Seq(Err)) /\ errs' # <<>> /\ Len(errs') = Len(errs)
      /\ SV!FlattenSeq(errs') = SV!FlattenSeq(errs) \o resultErrors
  <2>1. /\ errs' \in Seq(Seq(Err)) /\ Len(errs') = Len(errs)
        /\ SV!FlattenSeq(errs') = SV!FlattenSeq(errs) \o resultErrors
    BY <1>0, <1>6, AppendedFlattens DEF ValidateTypeOK
  <2>2. Len(errs) # 0
    BY <1>0, EmptySeq DEF ValidateTypeOK
  <2>3. errs' # <<>>
    BY <2>1, <2>2
  <2>4. QED  BY <2>1, <2>3
<1>10. Walked(m + 1, d)'
  <2>1. m + 1 <= Len(struct) /\ struct[m + 1].level = d /\ struct[m + 1].kind # "struct"
    BY <1>2, <1>3, <1>4 DEF InField
  <2>2. ~Inapplicable(m + 1) /\ SV!FlattenSeq(errs') = SV!FlattenSeq(errs) \o ErrorsOf(m + 1)
    BY <1>2, <1>7, <1>8, <1>9
  <2>3. QED  BY <1>0, <1>1, <1>6, <1>9, <2>1, <2>2, NextField
<1>11. ValidateTypeOK'
  <2>1. idx' \in 1..(Len(struct) + 1)
    BY <1>0, <1>2, <1>6, FieldFacts
  <2>2. <<>> \in Seq(Err)
    OBVIOUS
  <2>3. QED  BY <1>0, <1>6, <1>9, <2>1, <2>2 DEF ValidateTypeOK
<1>12. m + 1 \in Nat /\ validateRet' = "none"
  BY <1>0, <1>6
<1>13. QED  BY <1>10, <1>11, <1>12 DEF ValidateInv, ValidateReports

\* The errors of a call that returns stay where they were among all errors.
LEMMA ValidateReturnsKeeps == ASSUME ValidateInv, ValidateReturns PROVE ValidateInv'
<1>0. /\ ValidateTypeOK /\ validateRet = "none" /\ round = 0
      /\ idx <= Len(struct) => struct[idx].level < Len(errs) - 1
      /\ UNCHANGED <<struct, idx, round, resultErrors>>
  BY DEF ValidateInv, ValidateReturns
<1>1. PICK m, d \in Nat : Walked(m, d)
  BY <1>0 DEF ValidateInv
<1>2. /\ Len(struct) \in Nat /\ DOMAIN struct = 1..Len(struct)
      /\ \A i \in 1..Len(struct) : struct[i].level \in Nat
  BY <1>0, FieldFacts
<1>3. /\ idx = m + 1 /\ Len(errs) = d + 1 /\ m <= Len(struct)
      /\ m + 1 <= Len(struct) => struct[m + 1].level < d
  BY <1>0, <1>1, <1>2 DEF Walked, ValidateTypeOK
<1>4. CASE Len(errs) = 1
  <2>1. validateRet' = "done" /\ returned' = errs[1] /\ errs' = errs
    BY <1>4 DEF ValidateReturns
  <2>2. m = Len(struct)
    <3>1. d = 0
      <4>1. Len(errs) = d + 1
        BY <1>3
      <4>2. d + 1 = 1
        BY <1>4, <4>1
      <4>3. QED  BY <4>2
    <3>2. ASSUME m + 1 <= Len(struct) PROVE FALSE
      <4>1. m + 1 \in 1..Len(struct)
        BY <3>2
      <4>2. QED  BY <1>2, <1>3, <3>1, <3>2, <4>1
    <3>3. m <= Len(struct) /\ ~(m + 1 <= Len(struct))
      BY <1>3, <3>2
    <3>4. PICK n \in Nat : n = Len(struct)
      BY <1>2
    <3>5. m <= n /\ ~(m + 1 <= n)
      BY <3>3, <3>4
    <3>6. m = n
      BY <3>5
    <3>7. QED  BY <3>4, <3>6
  <2>3. errs[1] = Reported(Len(struct))
    BY <1>1, <1>4, <2>2, FlattenOne, SameFlatten DEF Walked
  <2>4. ~\E i \in DOMAIN struct : Inapplicable(i)
    BY <1>1, <1>2, <2>2 DEF Walked
  <2>5. ValidateReports'
    <3>1. PICK n : n = Len(struct)
      OBVIOUS
    <3>2. returned' = Reported(n)' /\ ~\E i \in DOMAIN struct' : Inapplicable(i)'
      BY <1>0, <2>1, <2>3, <2>4, <3>1, SameStruct
    <3>3. n = Len(struct')
      BY <1>0, <3>1
    <3>4. QED  BY <2>1, <3>2, <3>3 DEF ValidateReports
  <2>6. ValidateTypeOK'
    BY <1>0, <2>1 DEF ValidateTypeOK
  <2>7. QED  BY <2>1, <2>5, <2>6 DEF ValidateInv
<1>5. CASE Len(errs) # 1
  <2>1. errs' = Appended(SV!Front(errs), SV!Last(errs)) /\ UNCHANGED <<returned, validateRet>>
    BY <1>5 DEF ValidateReturns
  <2>2. /\ errs' \in Seq(Seq(Err)) /\ errs' # <<>> /\ Len(errs') = Len(errs) - 1
        /\ SV!FlattenSeq(errs') = SV!FlattenSeq(errs)
    BY <1>0, <1>5, <2>1, PopFlattens DEF ValidateTypeOK
  <2>3. PICK e \in Nat : d = e + 1
    <3>1. d - 1 \in Nat /\ d = (d - 1) + 1
      BY <1>3, <1>5
    <3>2. QED  BY <3>1
  <2>4. Walked(m, e)'
    <3>1. idx' = m + 1 /\ Len(errs)' = e + 1
      BY <1>0, <1>3, <2>2, <2>3
    <3>2. (\A i \in 1..m : ~Inapplicable(i)') /\ Reported(m)' = Reported(m)
      BY <1>0, <1>1, SameStruct DEF Walked
    <3>3. SV!FlattenSeq(errs)' = Reported(m)'
      BY <1>1, <2>2, <3>2 DEF Walked
    <3>4. m + 1 <= Len(struct)' => struct'[m + 1].level <= e
      <4>1. ASSUME m + 1 <= Len(struct) PROVE struct[m + 1].level <= e
        <5>1. m + 1 \in 1..Len(struct)
          BY <1>2, <4>1
        <5>2. QED  BY <1>2, <1>3, <2>3, <4>1, <5>1
      <4>2. QED  BY <1>0, <4>1
    <3>5. ASSUME NEW j \in 1..m, struct[j].level < e,
                 \A k \in (j + 1)..m : struct[k].level > struct[j].level
          PROVE  IsNested(struct[j])
      <4>1. struct[j].level < d
        <5>1. j \in 1..Len(struct)
          BY <1>2, <1>3
        <5>2. QED  BY <1>2, <2>3, <3>5, <5>1
      <4>2. QED  BY <1>1, <3>5, <4>1 DEF Walked
    <3>6. QED  BY <1>0, <3>1, <3>2, <3>3, <3>4, <3>5 DEF Walked
  <2>5. ValidateTypeOK'
    BY <1>0, <2>1, <2>2 DEF ValidateTypeOK
  <2>6. QED  BY <1>0, <2>1, <2>4, <2>5 DEF ValidateInv, ValidateReports
<1>6. QED  BY <1>4, <1>5

LEMMA ValidateInitInv == ValidateInit => ValidateInv
<1> SUFFICES ASSUME ValidateInit PROVE ValidateInv
  OBVIOUS
<1>1. /\ struct \in Seq(Field) /\ WellNested(struct) /\ idx = 1 /\ errs = <<<<>>>>
      /\ round = 0 /\ resultErrors = <<>> /\ validateRet = "none"
  BY DEF ValidateInit
<1>2. errs \in Seq(Seq(Err)) /\ errs # <<>> /\ Len(errs) = 1 /\ errs[1] = <<>>
  <2>1. PICK e \in Seq(Err) : e = <<>>
    BY EmptySeq
  <2>2. errs = <<e>>
    BY <1>1, <2>1
  <2>3. QED  BY <2>1, <2>2
<1>3. Len(struct) \in Nat /\ 1 \in 1..(Len(struct) + 1) /\ <<>> \in Seq(Err)
  BY <1>1, LenProperties
<1>4. ValidateTypeOK
  BY <1>1, <1>2, <1>3 DEF ValidateTypeOK
<1>5. Walked(0, 0)
  <2>1. SV!FlattenSeq(errs) = Reported(0)
    BY <1>2, FlattenOne, SameFlatten, ReportedNone
  <2>2. 0 + 1 <= Len(struct) => struct[0 + 1].level <= 0
    BY <1>4, FieldFacts
  <2>3. QED  BY <1>1, <1>2, <2>1, <2>2 DEF Walked
<1>6. QED  BY <1>1, <1>4, <1>5 DEF ValidateInv, ValidateReports

LEMMA ValidateNextInv == ValidateInv /\ [ValidateNext]_validateVars => ValidateInv'
<1> SUFFICES ASSUME ValidateInv, [ValidateNext]_validateVars PROVE ValidateInv'
  OBVIOUS
<1>1. CASE ValidateNext
  BY <1>1, SkipStructKeeps, CallValidateKeeps, SkipFieldKeeps, ProcessFieldKeeps,
     ApplyMethodKeeps, FieldDoneKeeps, ValidateReturnsKeeps DEF ValidateNext
<1>2. CASE UNCHANGED validateVars
  <2>1. UNCHANGED <<struct, idx, errs, round, resultErrors, returned, validateRet>>
    BY <1>2 DEF validateVars
  <2>2. ValidateTypeOK'
    BY <2>1 DEF ValidateTypeOK, ValidateInv
  <2>3. ASSUME validateRet' = "none" PROVE \E m, d \in Nat : Walked(m, d)'
    <3>1. PICK m, d \in Nat : Walked(m, d)
      BY <2>1, <2>3 DEF ValidateInv
    <3>2. Walked(m, d)'
      <4>1. /\ \A i : (Asks(i)' <=> Asks(i)) /\ (Inapplicable(i)' <=> Inapplicable(i))
            /\ \A n : Reported(n)' = Reported(n)
        BY <2>1, SameStruct
      <4>2. PICK q : q = m + 1
        OBVIOUS
      <4>3. InField(q, d) => InField(q, d)'
        BY <2>1, <4>1 DEF InField
      <4>4. round' > 0 => InField(m + 1, d)'
        BY <2>1, <3>1, <4>2, <4>3 DEF Walked
      <4>5. (\A i \in 1..m : ~Inapplicable(i)') /\ SV!FlattenSeq(errs)' = Reported(m)'
        BY <2>1, <3>1, <4>1 DEF Walked
      <4>6. QED  BY <2>1, <3>1, <4>4, <4>5 DEF Walked
    <3>3. QED  BY <3>2
  <2>4. ValidateReports'
    <3>1. PICK n : n = Len(struct)
      OBVIOUS
    <3>2. Reported(n)' = Reported(n) /\ \A i : Inapplicable(i)' <=> Inapplicable(i)
      BY <2>1, SameStruct
    <3>3. n = Len(struct')
      BY <2>1, <3>1
    <3>4. QED  BY <2>1, <3>1, <3>2, <3>3 DEF ValidateReports, ValidateInv
  <2>5. QED  BY <2>2, <2>3, <2>4 DEF ValidateInv
<1>3. QED  BY <1>1, <1>2

\* Validation errors are reported all, in order and with nested ones in place,
\* or none at all if some validator could not be applied (validator.go:24-56,
\* process.go:62-94): for structs of any size and depth.
THEOREM ValidateReportsHolds == ValidateSpec => []ValidateReports
<1>1. ValidateInv => ValidateReports
  BY DEF ValidateInv
<1>2. QED  BY <1>1, ValidateInitInv, ValidateNextInv, PTL DEF ValidateSpec
=============================================================================
