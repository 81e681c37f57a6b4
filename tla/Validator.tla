----------------------------- MODULE Validator -----------------------------
(***************************************************************************)
(* hw09_struct_validator: Validate (validator.go), ProcessField            *)
(* (processor/process.go) and the methods; one action per round of their   *)
(* loops, and one for each call and return of Validate by itself. A struct *)
(* is the sequence of its fields as they are written down: a nested struct *)
(* is a field, and its own fields follow it one level deeper. A string     *)
(* stands for its length.                                                  *)
(***************************************************************************)
EXTENDS Integers, Sequences

SV == INSTANCE SequencesExt

CONSTANTS
  NoTag,    \* a field without the tag validate
  Nested,   \* the tag validate:"nested"
  Junk      \* an argument that is no number, or no regular expression

ASSUME JunkAssumption == Junk \notin Int

\* A validator has a name and arguments, the pieces between commas (a regular
\* expression is one piece); without its one colon its name is "" and it has none.
Validator == [name : STRING, args : Seq(Int \union {Junk})]

Field == [name : STRING, kind : STRING, level : Nat, value : Int,
          tag : {NoTag, Nested} \union (Seq(Validator) \ {<<>>}), exported : BOOLEAN]

VARIABLES
  struct,        \* the argument of the first call
  idx,           \* the next field
  errs,          \* of each call of Validate that has not returned, the first one first
  round,         \* the number of the next validator, 0 outside of ProcessField
  resultErrors,  \* of ProcessField
  returned,      \* the validation errors that the first call returned
  validateRet    \* "none" until then, then "program" if it returned a program error, or "done"

validateVars == <<struct, idx, errs, round, resultErrors, returned, validateRet>>

\* The fields of a struct follow it, and only a struct has fields.
WellNested(s) ==
  \A i \in DOMAIN s :
    IF i = 1 THEN s[i].level = 0
    ELSE s[i].level <= s[i - 1].level + (IF s[i - 1].kind = "struct" THEN 1 ELSE 0)

ValidateInit ==
  /\ struct \in Seq(Field) /\ WellNested(struct)
  /\ idx = 1 /\ errs = <<<<>>>>
  /\ round = 0 /\ resultErrors = <<>>
  /\ returned = <<>> /\ validateRet = "none"
-----------------------------------------------------------------------------
\* A tag that is Nested where it is looked at for validators has no colon.
Validators(tag) == IF tag = Nested THEN <<[name |-> "", args |-> <<>>]>> ELSE tag

Methods(kind) ==
  CASE kind = "int"    -> {"min", "max", "in"}
    [] kind = "string" -> {"len", "regexp", "in"}
    [] OTHER           -> {}

\* Atoi of all that follows the colon.
Number(args) == IF Len(args) = 1 THEN args[1] ELSE Junk

\* The place of the first argument of InInt that is junk or the value, or 0.
FirstHit(args, value) == SV!SelectInSeq(args, LAMBDA a : a \in {Junk, value})

\* What a method makes of a value: "ok", "wrong" or "program", its own error.
Verdict(ok) == IF ok THEN "ok" ELSE "wrong"

InInt(value, args) ==
  LET n == FirstHit(args, value)
  IN IF n = 0 THEN "wrong" ELSE IF args[n] = Junk THEN "program" ELSE "ok"

\* MinInt, MaxInt and LenString; RegexpString, where a regular expression n stands
\* for one that n letters match.
Compared(value, v) ==
  LET n == Number(v.args)
  IN IF n = Junk THEN "program"
     ELSE Verdict(CASE v.name = "min" -> value >= n
                    [] v.name = "max" -> value <= n
                    [] v.name = "len" -> value = n
                    [] v.name = "regexp" -> value >= n)

Outcome(kind, value, v) ==
  IF v.name \notin Methods(kind) THEN "program"
  ELSE IF v.name # "in" THEN Compared(value, v)
  ELSE IF kind = "int" THEN InInt(value, v.args)
  ELSE Verdict(SV!Contains(v.args, value))
-----------------------------------------------------------------------------
\* The loop of the innermost call is at a field.
AtField ==
  /\ validateRet = "none" /\ round = 0
  /\ idx <= Len(struct) /\ struct[idx].level = Len(errs) - 1

IsNested(f) == f.tag = Nested /\ f.exported

\* The field behind field i and all that is in it.
After(i) ==
  CHOOSE p \in (i + 1)..(Len(struct) + 1) :
    /\ \A k \in (i + 1)..(p - 1) : struct[k].level > struct[i].level
    /\ p <= Len(struct) => struct[p].level <= struct[i].level

SkipStruct ==
  /\ AtField /\ struct[idx].kind = "struct" /\ ~IsNested(struct[idx])
  /\ idx' = After(idx)
  /\ UNCHANGED <<struct, errs, round, resultErrors, returned, validateRet>>

CallValidate ==
  /\ AtField /\ struct[idx].kind = "struct" /\ IsNested(struct[idx])
  /\ errs' = Append(errs, <<>>) /\ idx' = idx + 1
  /\ UNCHANGED <<struct, round, resultErrors, returned, validateRet>>

\* A kind without methods is skipped, its tag unread.
SkipField ==
  /\ AtField /\ struct[idx].kind # "struct"
  /\ struct[idx].tag = NoTag \/ Methods(struct[idx].kind) = {}
  /\ idx' = idx + 1
  /\ UNCHANGED <<struct, errs, round, resultErrors, returned, validateRet>>

ProcessField ==
  /\ AtField /\ struct[idx].kind # "struct"
  /\ struct[idx].tag # NoTag /\ Methods(struct[idx].kind) # {}
  /\ round' = 1 /\ resultErrors' = <<>>
  /\ UNCHANGED <<struct, idx, errs, returned, validateRet>>

\* Mutant: a program error returns the validation errors found before it.
ReturnProgramErrorBesideErrs ==
  /\ validateRet' = "program" /\ returned' = SV!FlattenSeq(errs)
  /\ UNCHANGED <<idx, errs, round, resultErrors>>

\* All calls of Validate return it, and only it.
ReturnProgramError ==
  /\ validateRet' = "program" /\ returned' = <<>>
  /\ UNCHANGED <<idx, errs, round, resultErrors>>

ApplyMethod ==
  LET f == struct[idx]
      v == Validators(f.tag)[round]
      outcome == Outcome(f.kind, f.value, v)
  IN /\ validateRet = "none" /\ round > 0 /\ round <= Len(Validators(f.tag))
     /\ \/ outcome = "program" /\ ReturnProgramError
        \/ /\ outcome # "program"
           /\ resultErrors' = IF outcome = "ok" THEN resultErrors
                              ELSE Append(resultErrors, <<f.name, v.name>>)
           /\ round' = round + 1
           /\ UNCHANGED <<idx, errs, returned, validateRet>>
     /\ UNCHANGED struct

\* The errors of the innermost call, with more appended.
Appended(calls, more) == [calls EXCEPT ![Len(calls)] = @ \o more]

FieldDone ==
  /\ validateRet = "none" /\ round > 0 /\ round > Len(Validators(struct[idx].tag))
  /\ errs' = Appended(errs, resultErrors)
  /\ idx' = idx + 1 /\ round' = 0 /\ resultErrors' = <<>>
  /\ UNCHANGED <<struct, returned, validateRet>>

\* The loop is over: a nested call returns its errors to the call around it.
ValidateReturns ==
  /\ validateRet = "none" /\ round = 0
  /\ idx <= Len(struct) => struct[idx].level < Len(errs) - 1
  /\ IF Len(errs) = 1
       THEN validateRet' = "done" /\ returned' = errs[1] /\ UNCHANGED errs
       ELSE /\ errs' = Appended(SV!Front(errs), SV!Last(errs))
            /\ UNCHANGED <<returned, validateRet>>
  /\ UNCHANGED <<struct, idx, round, resultErrors>>

ValidateNext ==
  \/ SkipStruct \/ CallValidate \/ SkipField \/ ProcessField
  \/ ApplyMethod \/ FieldDone \/ ValidateReturns

ValidateSpec == ValidateInit /\ [][ValidateNext]_validateVars
-----------------------------------------------------------------------------
\* Field j is a struct that field i is in.
Encloses(j, i) == j < i /\ \A k \in (j + 1)..i : struct[k].level > struct[j].level

\* Field i asks for validation: all structs around it are nested and exported.
Asks(i) ==
  /\ struct[i].kind \in {"int", "string"} /\ struct[i].tag # NoTag
  /\ \A j \in 1..(i - 1) : Encloses(j, i) => IsNested(struct[j])

\* A method gives no verdict: it is unknown for the kind, or an argument it needs
\* is junk. Whether InInt needs one depends on those before it.
NoVerdict(f, v) ==
  \/ v.name \notin Methods(f.kind)
  \/ v.name # "in" /\ (Len(v.args) # 1 \/ v.args[1] = Junk)
  \/ /\ v.name = "in" /\ f.kind = "int"
     /\ \E i \in DOMAIN v.args : v.args[i] = Junk /\ \A k \in 1..i : v.args[k] # f.value

Satisfies(f, v) ==
  CASE v.name \in {"min", "regexp"} -> v.args[1] <= f.value
    [] v.name = "max"               -> v.args[1] >= f.value
    [] v.name = "len"               -> v.args[1] = f.value
    [] v.name = "in"                -> \E i \in DOMAIN v.args : v.args[i] = f.value

Inapplicable(i) ==
  Asks(i) /\ \E k \in DOMAIN Validators(struct[i].tag) :
               NoVerdict(struct[i], Validators(struct[i].tag)[k])

\* The validators of a field that it does not satisfy, as errors, up to the n-th;
\* and those of the first n fields.
Unsatisfied(f, n) ==
  SV!FlattenSeq([k \in 1..n |-> IF Satisfies(f, Validators(f.tag)[k]) THEN <<>>
                                ELSE <<<<f.name, Validators(f.tag)[k].name>>>>])
Reported(n) ==
  SV!FlattenSeq([i \in 1..n |-> IF Asks(i) THEN Unsatisfied(struct[i], Len(Validators(struct[i].tag)))
                                ELSE <<>>])

\* Validation errors are reported all, in order and with nested ones in place,
\* or none at all if some validator could not be applied (validator.go:24-56,
\* process.go:62-94).
ValidateReports ==
  validateRet # "none" =>
    IF \E i \in DOMAIN struct : Inapplicable(i)
      THEN validateRet = "program" /\ returned = <<>>
      ELSE validateRet = "done" /\ returned = Reported(Len(struct))
=============================================================================
