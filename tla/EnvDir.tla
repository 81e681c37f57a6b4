------------------------------- MODULE EnvDir -------------------------------
(***************************************************************************)
(* hw08_envdir_tool: main, ReadDir (envreader/env_reader.go) and RunCmd    *)
(* (executor/executor.go); one action per round of their loops. The        *)
(* directory is the sequence of its entries, no two of one name, a file's  *)
(* content a sequence of characters; the command is external.              *)
(***************************************************************************)
EXTENDS Integers, Sequences

CONSTANTS
  Name,      \* names of variables
  BadName,   \* a name with "=", a blank or a tab
  Unset,     \* the value of a variable that does not exist
  Char, Blank, Zero, Newline   \* characters, and three of them

ASSUME EnvAssumption ==
  /\ BadName \notin Name
  /\ {Blank, Zero, Newline} \subseteq Char /\ Zero # Newline

\* What cannot be opened or read is "broken".
Entry == [name : Name \union {BadName}, is : {"dir", "file", "broken"}, content : Seq(Char)]

\* The arguments hold no command, or one that cannot be started, is killed by a
\* signal or exits.
Command == [is : {"none", "missing", "killed", "exits"}, code : Nat]

VARIABLES
  envPc,         \* "main", "read", "update" or "exited"
  readable, entries, command,   \* the directory and the arguments
  inherited,     \* the environment at the start
  file,          \* the number of the next entry
  envs,          \* additionalEnvs
  unvisited,     \* the names the range over env has not come to
  environment,   \* of this process
  out            \* the exit code, and what the command saw if it ran

envVars == <<envPc, readable, entries, command, inherited, file, envs, unvisited, environment, out>>
envInput == <<readable, entries, command, inherited>>

NotRun == [code |-> 1, sees |-> [n \in Name |-> Unset], ran |-> FALSE]

EnvInit ==
  /\ readable \in BOOLEAN /\ entries \in Seq(Entry) /\ command \in Command
  /\ \A i, j \in DOMAIN entries :
       entries[i].name = entries[j].name /\ entries[i].name # BadName => i = j
  /\ inherited = [n \in Name |-> inherited[n]]
  /\ envPc = "main" /\ file = 1
  /\ envs = [n \in {} |-> Unset] /\ unvisited = {}
  /\ environment = inherited
  /\ out = NotRun

Exit(result) == envPc' = "exited" /\ out' = result

\* Too few arguments, or a directory that cannot be read.
StartReading ==
  /\ envPc = "main"
  /\ IF command.is = "none" \/ ~readable THEN Exit(NotRun) ELSE envPc' = "read" /\ UNCHANGED out
  /\ UNCHANGED <<envInput, file, envs, unvisited, environment>>

FirstLine(content) ==
  LET newlines == {i \in DOMAIN content : content[i] = Newline}
  IN IF newlines = {} THEN content
     ELSE SubSeq(content, 1, (CHOOSE i \in newlines : \A k \in newlines : i <= k) - 1)

\* A line of blanks is empty; zero bytes, which are no blanks, become newlines.
Value(line) ==
  IF \E i \in DOMAIN line : line[i] # Blank
    THEN [i \in DOMAIN line |-> IF line[i] = Zero THEN Newline ELSE line[i]]
    ELSE <<>>

\* An empty value is stored like any other.
AddVariable(entry) ==
  LET v == [value      |-> Value(FirstLine(entry.content)),
            needRemove |-> environment[entry.name] # Unset]
  IN envs' = [n \in DOMAIN envs \union {entry.name} |-> IF n = entry.name THEN v ELSE envs[n]]

ReadEntry ==
  LET entry == entries[file]
  IN /\ envPc = "read" /\ file <= Len(entries)
     /\ \/ entry.is = "dir" /\ UNCHANGED <<envPc, envs, out>>
        \/ /\ entry.is = "broken" \/ (entry.is = "file" /\ entry.name = BadName)
           /\ Exit(NotRun) /\ UNCHANGED envs
        \/ /\ entry.is = "file" /\ entry.name # BadName
           /\ AddVariable(entry) /\ UNCHANGED <<envPc, out>>
     /\ file' = file + 1
     /\ UNCHANGED <<envInput, unvisited, environment>>

EndOfDir ==
  /\ envPc = "read" /\ file > Len(entries)
  /\ envPc' = "update" /\ unvisited' = DOMAIN envs
  /\ UNCHANGED <<envInput, file, envs, environment, out>>

\* Mutant: a variable that exists is removed, and not set.
UpdatedWithRemoval(n) ==
  [environment EXCEPT ![n] = IF envs[n].needRemove THEN Unset ELSE envs[n].value]

\* Unsetenv, where needed, and then Setenv.
Updated(n) == [environment EXCEPT ![n] = envs[n].value]

\* The range over env visits the names in any order. Setenv refuses a zero byte.
UpdateVariable(n) ==
  /\ envPc = "update" /\ n \in unvisited
  /\ IF \E i \in DOMAIN envs[n].value : envs[n].value[i] = Zero
       THEN Exit(NotRun) /\ UNCHANGED environment
       ELSE environment' = Updated(n) /\ UNCHANGED <<envPc, out>>
  /\ unvisited' = unvisited \ {n}
  /\ UNCHANGED <<envInput, file, envs>>

\* The exit code is the command's: -1, which the shell sees as 255, if a signal
\* ended it, and 1 if it cannot be started.
RunCommand ==
  /\ envPc = "update" /\ unvisited = {}
  /\ Exit(IF command.is = "missing" THEN NotRun
          ELSE [code |-> IF command.is = "killed" THEN 255 ELSE command.code,
                sees |-> environment, ran |-> TRUE])
  /\ UNCHANGED <<envInput, file, envs, unvisited, environment>>

EnvNext ==
  \/ StartReading \/ ReadEntry \/ EndOfDir
  \/ (\E n \in Name : UpdateVariable(n)) \/ RunCommand

EnvSpec == EnvInit /\ [][EnvNext]_envVars
-----------------------------------------------------------------------------
\* The files of a variable, by number of entry.
FilesOf(n) == {i \in DOMAIN entries : entries[i].is = "file" /\ entries[i].name = n}

\* The first line, and the part of it before the blanks at its end.
InLine(content) == {i \in DOMAIN content : \A k \in 1..i : content[k] # Newline}
Kept(content) ==
  {i \in InLine(content) : \E k \in InLine(content) : k >= i /\ content[k] # Blank}

\* The variable's value by hw08_envdir_tool/README.md:7-10: an empty file removes
\* it, blanks at the end of the line are cut, zero bytes become newlines.
Documented(content) ==
  IF content = <<>> THEN Unset
  ELSE [i \in Kept(content) |-> IF content[i] = Zero THEN Newline ELSE content[i]]

\* The contents the code treats as documented: not empty, and the first line is
\* all blanks or has none at its end. EmptyFileRemoves is about the empty ones; of
\* the rest the code keeps the blanks (env_reader.go:62), where README.md:9 has them cut.
Agreed(content) == content # <<>> /\ Kept(content) \in {{}, InLine(content)}

\* Nothing is wrong with the command, the directory or a file.
Works ==
  /\ readable /\ command.is \notin {"none", "missing"}
  /\ \A i \in DOMAIN entries :
       entries[i].is = "dir" \/ (entries[i].is = "file" /\ entries[i].name # BadName)

\* The command is run if nothing is wrong and sees inherited variables where
\* there is no file and what is documented where the content is Agreed; if
\* something is wrong 1 is the exit code (env_reader.go:27-79, executor.go:13-62).
EnvdirPromised ==
  envPc = "exited" =>
    /\ out.ran <=> Works
    /\ ~Works => out.code = 1
    /\ Works =>
         /\ out.code = IF command.is = "killed" THEN 255 ELSE command.code
         /\ \A n \in Name :
              /\ FilesOf(n) = {} => out.sees[n] = inherited[n]
              /\ \A i \in FilesOf(n) :
                   Agreed(entries[i].content) => out.sees[n] = Documented(entries[i].content)

\* "If the file is completely empty envdir removes the variable" (README.md:10 of
\* hw08_envdir_tool). Violated: ReadDir stores "" for it and Setenv sets it
\* (env_reader.go:66, executor.go:56).
EmptyFileRemoves ==
  out.ran => \A n \in Name : \A i \in FilesOf(n) :
    entries[i].content = <<>> => out.sees[n] = Documented(entries[i].content)
=============================================================================
