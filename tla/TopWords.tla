------------------------------ MODULE TopWords ------------------------------
(***************************************************************************)
(* hw03_frequency_analysis/top.go: Top10, which ranks the words of a text; *)
(* one action per round of its loops. A word is its place in the order of  *)
(* strings; NoWord is what extractWord leaves of a field without a letter  *)
(* or digit. The extraction itself is text processing and stands before    *)
(* this.                                                                   *)
(***************************************************************************)
EXTENDS Integers, Sequences, FiniteSets

CONSTANTS
  Word,
  NoWord,                     \* the empty word
  NumberOfTopWordsToReturn    \* 10 in the code

ASSUME TopAssumption ==
  /\ Word \subseteq Int /\ NoWord \notin Word
  /\ NumberOfTopWordsToReturn \in Nat \ {0}

VARIABLES
  words,          \* of the fields of the input
  topPc,          \* "count", "group", "rank" or "done"
  field,          \* the number of the next field
  wordNumberOccurrences,    \* 0 for a word without an entry
  ungrouped,      \* the words the range over that map has not come to
  numberOccurrencesWords,   \* the words of each number of occurrences found
  unranked,       \* what is left of allPossibleNumbersOccurrences
  res

topVars == <<words, topPc, field, wordNumberOccurrences, ungrouped, numberOccurrencesWords,
             unranked, res>>

TopInit ==
  /\ words \in Seq(Word \union {NoWord})
  /\ topPc = "count" /\ field = 1
  /\ wordNumberOccurrences = [w \in Word |-> 0]
  /\ ungrouped = {} /\ numberOccurrencesWords = [n \in {} |-> {}]
  /\ unranked = {} /\ res = <<>>

CountWord ==
  /\ topPc = "count" /\ field <= Len(words)
  /\ IF words[field] = NoWord THEN UNCHANGED wordNumberOccurrences
     ELSE wordNumberOccurrences' = [wordNumberOccurrences EXCEPT ![words[field]] = @ + 1]
  /\ field' = field + 1
  /\ UNCHANGED <<words, topPc, ungrouped, numberOccurrencesWords, unranked, res>>

AllCounted ==
  /\ topPc = "count" /\ field > Len(words)
  /\ topPc' = "group" /\ ungrouped' = {w \in Word : wordNumberOccurrences[w] > 0}
  /\ UNCHANGED <<words, field, wordNumberOccurrences, numberOccurrencesWords, unranked, res>>

\* The range over the map comes to the words in any order. In which order a
\* group holds its words does not matter: it is sorted before it is used.
GroupWord(w) ==
  LET count == wordNumberOccurrences[w]
      same == IF count \in DOMAIN numberOccurrencesWords THEN numberOccurrencesWords[count] ELSE {}
  IN /\ topPc = "group" /\ w \in ungrouped
     /\ numberOccurrencesWords' = [n \in DOMAIN numberOccurrencesWords \union {count} |->
                                     IF n = count THEN same \union {w}
                                     ELSE numberOccurrencesWords[n]]
     /\ ungrouped' = ungrouped \ {w}
     /\ UNCHANGED <<words, topPc, field, wordNumberOccurrences, unranked, res>>

AllGrouped ==
  /\ topPc = "group" /\ ungrouped = {}
  /\ topPc' = "rank" /\ unranked' = DOMAIN numberOccurrencesWords
  /\ UNCHANGED <<words, field, wordNumberOccurrences, ungrouped, numberOccurrencesWords, res>>

\* What sort.Strings makes of a group.
Sorted(group) ==
  {s \in [1..Cardinality(group) -> group] :
     /\ \A w \in group : \E i \in DOMAIN s : s[i] = w
     /\ \A i, k \in DOMAIN s : i < k => s[i] < s[k]}

\* Mutant: the last group is not cut.
RankGroupUncut(count) ==
  \E sorted \in Sorted(numberOccurrencesWords[count]) :
    /\ res' = res \o sorted
    /\ topPc' = IF Len(res \o sorted) >= NumberOfTopWordsToReturn THEN "done" ELSE "rank"

\* The loop returns at the limit, with the group that reached it cut.
RankGroup(count) ==
  \E sorted \in Sorted(numberOccurrencesWords[count]) :
    IF Len(res \o sorted) >= NumberOfTopWordsToReturn
      THEN topPc' = "done" /\ res' = SubSeq(res \o sorted, 1, NumberOfTopWordsToReturn)
      ELSE topPc' = "rank" /\ res' = res \o sorted

\* allPossibleNumbersOccurrences is sorted, the biggest number first.
RankNext ==
  /\ topPc = "rank"
  /\ \E count \in unranked :
       /\ \A n \in unranked : n <= count
       /\ RankGroup(count)
       /\ unranked' = unranked \ {count}
  /\ UNCHANGED <<words, field, wordNumberOccurrences, ungrouped, numberOccurrencesWords>>

AllRanked ==
  /\ topPc = "rank" /\ unranked = {}
  /\ topPc' = "done"
  /\ UNCHANGED <<words, field, wordNumberOccurrences, ungrouped, numberOccurrencesWords, unranked, res>>

TopNext ==
  \/ CountWord \/ AllCounted \/ (\E w \in Word : GroupWord(w)) \/ AllGrouped
  \/ RankNext \/ AllRanked

TopSpec == TopInit /\ [][TopNext]_topVars
-----------------------------------------------------------------------------
Occurrences(w) == Cardinality({i \in DOMAIN words : words[i] = w})

InText == {words[i] : i \in DOMAIN words} \ {NoWord}
Listed == {res[i] : i \in DOMAIN res}

Before(a, b) ==
  Occurrences(a) > Occurrences(b) \/ (Occurrences(a) = Occurrences(b) /\ a < b)

\* The result is no longer than allowed and no shorter than it could be, each
\* word before any that is rarer or, as frequent as it, later in the order,
\* whether that one is listed or left out; although words are grouped in the
\* order of a map and the last group may be cut (top.go:27-71).
TopIsRanking ==
  topPc = "done" =>
    /\ Listed \subseteq InText
    /\ Len(res) <= NumberOfTopWordsToReturn
    /\ Len(res) < NumberOfTopWordsToReturn => Listed = InText
    /\ \A i \in DOMAIN res : /\ \A k \in DOMAIN res : i < k => Before(res[i], res[k])
                             /\ \A w \in InText \ Listed : Before(res[i], w)
=============================================================================
