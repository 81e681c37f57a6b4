----------------------------- MODULE DomainStat -----------------------------
(***************************************************************************)
(* hw10_program_optimization/stats.go: GetDomainStat, which counts the     *)
(* users of each domain in a stream of lines; one action per round of its  *)
(* loop. A line is what its parsing gives; easyjson is external: it        *)
(* reports io.EOF for a line that ends before its value does, a blank one  *)
(* for instance.                                                           *)
(***************************************************************************)
EXTENDS Integers, Sequences, FiniteSets

CONSTANTS Domain   \* domains under the one asked for

\* A user of a domain; a user of another one; an email with the suffix but no
\* "@"; a line that ends too early; a line that is no JSON.
Line == Domain \union {"other", "noAt", "blank", "bad"}

\* A domain is not called like one of the other lines.
ASSUME DomainAssumption == Domain \intersect {"other", "noAt", "blank", "bad", "nil"} = {}

\* The stream ends after a newline, without one, or with a read error.
Ending == {"newline", "bare", "failure"}

VARIABLES
  lines, ending,   \* the stream
  call,            \* the number of the next call of getUser
  domainStat,
  statRet          \* "none" in the loop, then "nil", "error" or "panic"

statVars == <<lines, ending, call, domainStat, statRet>>

StatInit ==
  /\ lines \in Seq(Line) /\ ending \in Ending
  /\ call = 1
  /\ domainStat = [d \in Domain |-> 0]
  /\ statRet = "none"

\* Mutant: nothing is returned beside io.EOF.
GetUserOrError(i) ==
  IF i > Len(lines) THEN [user |-> "nil", err |-> IF ending = "failure" THEN "read" ELSE "EOF"]
  ELSE CASE lines[i] = "blank" -> [user |-> "nil", err |-> "EOF"]
         [] lines[i] = "bad"   -> [user |-> "nil", err |-> "parse"]
         [] OTHER -> IF i = Len(lines) /\ ending = "bare" THEN [user |-> "nil", err |-> "EOF"]
                     ELSE [user |-> lines[i], err |-> "nil"]

\* The i-th call of getUser. The last line may come together with io.EOF.
GetUser(i) ==
  IF i > Len(lines) THEN [user |-> "nil", err |-> IF ending = "failure" THEN "read" ELSE "EOF"]
  ELSE CASE lines[i] = "blank" -> [user |-> "nil", err |-> "EOF"]
         [] lines[i] = "bad"   -> [user |-> "nil", err |-> "parse"]
         [] OTHER -> [user |-> lines[i],
                      err  |-> IF i = Len(lines) /\ ending = "bare" THEN "EOF" ELSE "nil"]

UpdateDomainStat(user) ==
  domainStat' = IF user \in Domain THEN [domainStat EXCEPT ![user] = @ + 1] ELSE domainStat

\* A round of the loop that is not the last.
CountUser ==
  /\ statRet = "none" /\ GetUser(call).err = "nil"
  /\ UpdateDomainStat(GetUser(call).user)
  /\ statRet' = IF GetUser(call).user = "noAt" THEN "panic" ELSE "none"
  /\ call' = call + 1
  /\ UNCHANGED <<lines, ending>>

\* io.EOF breaks the loop; a user that came with it is counted behind the loop.
CountLast ==
  /\ statRet = "none" /\ GetUser(call).err = "EOF"
  /\ UpdateDomainStat(GetUser(call).user)
  /\ statRet' = IF GetUser(call).user = "noAt" THEN "panic" ELSE "nil"
  /\ UNCHANGED <<lines, ending, call>>

ReturnError ==
  /\ statRet = "none" /\ GetUser(call).err \in {"read", "parse"}
  /\ statRet' = "error"
  /\ UNCHANGED <<lines, ending, call, domainStat>>

StatNext == CountUser \/ CountLast \/ ReturnError

StatSpec == StatInit /\ [][StatNext]_statVars
-----------------------------------------------------------------------------
\* The variables hold what their Go types allow.
StatTypeOK ==
  /\ lines \in Seq(Line) /\ ending \in Ending
  /\ call \in 1..(Len(lines) + 1)
  /\ domainStat \in [Domain -> Nat]
  /\ statRet \in {"none", "nil", "error", "panic"}

\* The lines of d among the first n.
UsersOf(d, n) == {i \in 1..n : lines[i] = d}

\* Line n, or the end of the stream behind line n - 1, is the first thing that
\* stops the counting, and ret is what is to be returned for it.
Stops(n, ret) ==
  /\ \A i \in 1..(n - 1) : lines[i] \notin {"blank", "bad", "noAt"}
  /\ ret = IF n > Len(lines) THEN (IF ending = "failure" THEN "error" ELSE "nil")
           ELSE CASE lines[n] = "blank" -> "nil"
                  [] lines[n] = "bad"   -> "error"
                  [] lines[n] = "noAt"  -> "panic"
                  [] OTHER              -> "not yet"

\* However the stream ends, each line before the one that stops the loop is
\* counted once and none behind it; a read or parse error is returned
\* (stats.go:19-64). An error or a panic returns no counts.
StatCounts ==
  statRet # "none" =>
    \E n \in 1..(Len(lines) + 1) :
      /\ Stops(n, statRet)
      /\ statRet = "nil" => \A d \in Domain : domainStat[d] = Cardinality(UsersOf(d, n - 1))
=============================================================================
