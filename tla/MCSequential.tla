---------------------------- MODULE MCSequential ----------------------------
(***************************************************************************)
(* The sequential parts for TLC: each behaviour is the run of one program, *)
(* the linked list, a copy, or a function on an input of a bounded set.    *)
(***************************************************************************)
EXTENDS LinkedList, DomainStat, EnvDir, TopWords, Unpack, Validator, FileCopy

CONSTANT Letter   \* one more rune for Unpack, one more character for EnvDir

VARIABLE program   \* the program that runs

SeqUpTo(S, n) == SX!BoundedSeq(S, n)
-----------------------------------------------------------------------------
\* Two files, the second of few contents, then an entry with a bad name.
EnvEntries ==
  LET Content == SeqUpTo(Char, 3)
      Regular(n, contents) == {<<[name |-> n, is |-> "file", content |-> c]>> : c \in contents}
      Odd(n) == {<<[name |-> n, is |-> k, content |-> <<>>]>> : k \in {"dir", "broken"}}
      First == {<<>>} \union Regular(1, Content) \union Odd(1)
      Second == {<<>>} \union Regular(2, {<<>>, <<Letter>>, <<Zero>>}) \union Odd(2)
      Third == {<<>>} \union Regular(BadName, {<<>>}) \union Odd(BadName)
  IN {a \o b \o c : a \in First, b \in Second, c \in Third}

\* One field with up to two validators, or three fields, one of them perhaps a
\* struct of two, which may hold a struct again, and the last one perhaps missing.
SomeValidators ==
  [name : {"min", "max", "len"}, args : {<<1>>, <<Junk>>, <<1, 1>>}]
    \union [name : {"regexp"}, args : {<<1>>, <<Junk>>}]
    \union [name : {"in"}, args : {<<0, 2>>, <<1, Junk>>, <<Junk, 1>>}]
    \union {[name |-> "", args |-> <<>>]}
Few == {NoTag, <<[name |-> "min", args |-> <<1>>]>>, <<[name |-> "max", args |-> <<1>>]>>,
        <<[name |-> "min", args |-> <<Junk>>]>>}
Only(name, depth, kinds, values, tags) ==
  [name : {name}, level : {depth}, kind : kinds, value : values, tag : tags, exported : {TRUE}]
Leaf(name, depth) == Only(name, depth, {"int"}, {0, 2}, Few)
Struct(name, depth) ==
  [name : {name}, level : {depth}, kind : {"struct"}, value : {0},
   tag : {NoTag, Nested, <<[name |-> "min", args |-> <<1>>]>>}, exported : BOOLEAN]

OneField ==
  {<<f>> : f \in Only("f", 0, {"int", "string", "slice"}, 0..2,
                      {NoTag, Nested} \union (SeqUpTo(SomeValidators, 2) \ {<<>>}))}
OneStruct ==
  {<<f, g, x, y, h>> : f \in Leaf("f", 0), g \in Struct("g", 0), x \in Leaf("x", 1),
                       y \in Leaf("y", 1), h \in Leaf("h", 0)}
StructInStruct ==
  {<<f, d, x>> \o rest : f \in Struct("f", 0), d \in Struct("d", 1), x \in Leaf("x", 2),
     rest \in {<<>>} \union {<<g>> : g \in Leaf("g", 0)}
              \union {<<y, g>> : y \in Leaf("y", 1), g \in Leaf("g", 0)}}
-----------------------------------------------------------------------------
\* Every list begins empty. What does not run has a fixed input.
Inputs(name, set, idle) == IF program = name THEN set ELSE {idle}

\* A copy that does not run: no file at all.
CopyIdle ==
  /\ from = (CHOOSE f \in File : TRUE) /\ to = from
  /\ offset = 0 /\ limit = 0
  /\ \A f \in File : files[f] = Absent

otherVars == <<listVars, unpackVars, statVars, envVars, topVars, validateVars, program>>
mcVars == <<otherVars, copyVars>>

MCInit ==
  /\ program \in {"list", "unpack", "stat", "envdir", "validate", "top", "copy"}
  /\ CopyInit
  /\ program # "copy" => CopyIdle
  /\ ListInit
  /\ input \in Inputs("unpack", SeqUpTo(Rune, 6), <<>>)
  /\ UnpackInit
  /\ lines \in Inputs("stat", SeqUpTo(Line, 4), <<>>)
  /\ ending \in Inputs("stat", Ending, "bare")
  /\ StatInit
  /\ readable \in Inputs("envdir", BOOLEAN, FALSE)
  /\ entries \in Inputs("envdir", EnvEntries, <<>>)
  /\ command \in Inputs("envdir", [is : {"none", "missing", "killed", "exits"}, code : {3}],
                        [is |-> "none", code |-> 3])
  /\ inherited \in {[n \in Name |-> Unset]}
                     \union Inputs("envdir", {[n \in Name |-> <<Letter, n>>]}, [n \in Name |-> Unset])
  /\ EnvInit
  /\ words \in Inputs("top", SeqUpTo(Word \union {NoWord}, 6), <<>>)
  /\ TopInit
  /\ \/ program # "validate" /\ struct = <<>>
     \/ /\ program = "validate"
        /\ struct \in OneField \/ struct \in OneStruct \/ struct \in StructInStruct
  /\ ValidateInit

MCNext ==
  /\ \/ /\ program = "list" /\ ListNext
        /\ UNCHANGED <<unpackVars, statVars, envVars, topVars, validateVars, copyVars>>
     \/ /\ program = "unpack" /\ UnpackNext
        /\ UNCHANGED <<listVars, statVars, envVars, topVars, validateVars, copyVars>>
     \/ /\ program = "stat" /\ StatNext
        /\ UNCHANGED <<listVars, unpackVars, envVars, topVars, validateVars, copyVars>>
     \/ /\ program = "envdir" /\ EnvNext
        /\ UNCHANGED <<listVars, unpackVars, statVars, topVars, validateVars, copyVars>>
     \/ /\ program = "top" /\ TopNext
        /\ UNCHANGED <<listVars, unpackVars, statVars, envVars, validateVars, copyVars>>
     \/ /\ program = "validate" /\ ValidateNext
        /\ UNCHANGED <<listVars, unpackVars, statVars, envVars, topVars, copyVars>>
     \/ /\ program = "copy" /\ CopyNext
        /\ UNCHANGED <<listVars, unpackVars, statVars, envVars, topVars, validateVars>>
  /\ UNCHANGED program

\* As in CopySpec, Copy goes on.
MCSpec == MCInit /\ [][MCNext]_mcVars /\ WF_mcVars(program = "copy" /\ Copy /\ UNCHANGED otherVars)

\* Only the envdir tool.
EnvdirSpec == (program = "envdir" /\ MCInit) /\ [][MCNext]_mcVars

\* Copy returns, however its source grows meanwhile (copy.go:82-103).
CopyReturns == program = "copy" => CopyTerminates
=============================================================================
