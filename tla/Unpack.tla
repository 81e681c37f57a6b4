------------------------------- MODULE Unpack -------------------------------
(***************************************************************************)
(* hw02_unpack_string/unpack.go: Unpack, an automaton over the classes of  *)
(* runes; one action per state of the automaton, and one for the end. A    *)
(* string is a sequence of letters, ASCII digits (as numbers), backslashes *)
(* and digits of other scripts.                                            *)
(***************************************************************************)
EXTENDS Integers, Sequences

Strings == INSTANCE SequencesExt

CONSTANTS
  Rune,      \* the characters
  Slash,     \* the backslash
  Foreign    \* a digit for unicode.IsDigit that strconv.Atoi does not parse

ASSUME RuneAssumption == Slash \notin 0..9 \union {Foreign}

VARIABLES
  input,
  next,           \* the number of the next rune
  previousType, previousChar,
  built,          \* res, the strings.Builder
  unpackRet       \* "none" in the loop, then "ok" or "invalid"

unpackVars == <<input, next, previousType, previousChar, built, unpackRet>>

UnpackInit ==
  /\ input \in Seq(Rune) /\ next = 1
  /\ previousType = "EMPTY" /\ previousChar = <<>>
  /\ built = <<>> /\ unpackRet = "none"

DefineRuneType(c) ==
  IF c \in 0..9 \union {Foreign} THEN "DIGIT" ELSE IF c = Slash THEN "SLASH" ELSE "RUNE"

Repeat(str, times) == Strings!FlattenSeq([k \in 1..times |-> str])

ReturnInvalid == unpackRet' = "invalid" /\ UNCHANGED <<previousType, previousChar, built>>

\* The loop comes to its next rune in a state of the automaton.
Loop(state) ==
  /\ unpackRet = "none" /\ next <= Len(input) /\ previousType = state
  /\ next' = next + 1 /\ UNCHANGED input

AfterEmpty ==
  /\ Loop("EMPTY")
  /\ previousType' = DefineRuneType(input[next])
  /\ previousChar' = <<input[next]>>
  /\ UNCHANGED <<built, unpackRet>>

\* A digit or backslash loses the backslash before it, another rune keeps it.
AfterSlash ==
  /\ Loop("SLASH")
  /\ previousType' = "RUNE"
  /\ previousChar' = CASE DefineRuneType(input[next]) = "RUNE"  -> previousChar \o <<input[next]>>
                       [] DefineRuneType(input[next]) = "DIGIT" -> <<input[next]>>
                       [] DefineRuneType(input[next]) = "SLASH" -> previousChar
  /\ UNCHANGED <<built, unpackRet>>

\* Mutant: after a count the automaton is not reset, another count may follow.
CountKept(times) ==
  /\ built' = built \o Repeat(previousChar, times)
  /\ UNCHANGED <<previousType, previousChar, unpackRet>>

Count(times) ==
  /\ built' = built \o Repeat(previousChar, times)
  /\ previousType' = "EMPTY"
  /\ UNCHANGED <<previousChar, unpackRet>>

\* A digit repeats the character before it, anything else comes after it.
AfterRune ==
  /\ Loop("RUNE")
  /\ \/ input[next] = Foreign /\ ReturnInvalid
     \/ input[next] \in (0..9) \ {Foreign} /\ Count(input[next])
     \/ /\ DefineRuneType(input[next]) # "DIGIT"
        /\ built' = built \o previousChar
        /\ previousType' = DefineRuneType(input[next])
        /\ previousChar' = <<input[next]>>
        /\ UNCHANGED unpackRet

AfterDigit == Loop("DIGIT") /\ ReturnInvalid

EndOfString ==
  /\ unpackRet = "none" /\ next > Len(input)
  /\ unpackRet' = IF previousType \in {"DIGIT", "SLASH"} THEN "invalid" ELSE "ok"
  /\ built' = IF previousType = "RUNE" THEN built \o previousChar ELSE built
  /\ UNCHANGED <<input, next, previousType, previousChar>>

UnpackNext == AfterEmpty \/ AfterSlash \/ AfterRune \/ AfterDigit \/ EndOfString

UnpackSpec == UnpackInit /\ [][UnpackNext]_unpackVars
-----------------------------------------------------------------------------
\* What a string means, position by position and without an automaton. Rune i is
\* escaped if the number of backslashes right before it is odd.
Escaped(i) ==
  \E n \in 1..(i - 1) :
    /\ n % 2 = 1 /\ \A k \in (i - n)..(i - 1) : input[k] = Slash
    /\ i - n = 1 \/ input[i - n - 1] # Slash

\* A symbol is a letter or whatever is escaped, a count is a digit that is no
\* symbol.
IsSymbol(i) == Escaped(i) \/ DefineRuneType(input[i]) = "RUNE"
IsCount(i) == DefineRuneType(input[i]) = "DIGIT" /\ ~Escaped(i)

Unit(i) ==
  IF Escaped(i) /\ DefineRuneType(input[i]) = "RUNE" THEN <<Slash, input[i]>> ELSE <<input[i]>>
Times(i) == IF i < Len(input) /\ IsCount(i + 1) THEN input[i + 1] ELSE 1
Piece(i) == IF IsSymbol(i) THEN Repeat(Unit(i), Times(i)) ELSE <<>>

\* What the first n runes stand for.
Unpacked(n) == Strings!FlattenSeq([i \in 1..n |-> Piece(i)])

Meaningful ==
  /\ \A i \in DOMAIN input : IsCount(i) => i > 1 /\ IsSymbol(i - 1) /\ input[i] # Foreign
  /\ input # <<>> => IsSymbol(Len(input)) \/ IsCount(Len(input))

\* Unpack gives what the string means, whatever state its automaton is in when
\* the string ends, and refuses exactly the strings without a meaning
\* (unpack.go:54-95).
UnpackMeans ==
  /\ unpackRet = "ok" => Meaningful /\ built = Unpacked(Len(input))
  /\ unpackRet = "invalid" => ~Meaningful
=============================================================================
