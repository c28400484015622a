------------------------------ MODULE FixPasses ------------------------------
(* Linter::lintSource: the fixpoint loop of --fix (ast/fixpoint.cc) with the   *)
(* lint of every pass, and the edits computed one by one without it.          *)
(*                                                                           *)
(* A text is an atom; what a parse and the rules may find in it is chosen     *)
(* once. What a pass of fixes prints is any text: Fixer says more of it. The  *)
(* type source may fail to take a text or to answer, and then a lint sees     *)
(* only some of the problems of type-aware rules.                            *)
EXTENDS Naturals, FiniteSets

CONSTANTS
  TextOf,      \* texts
  Unparsable,  \* what a text that does not parse holds
  MaxProblem,  \* problems are 1..MaxProblem, in source order
  Aware,       \* those of type-aware rules
  Offers,      \* <<p, 0>>: the fix of problem p; <<p, n>>: that of its n-th suggestion
  Untargeted,  \* problems that were reported without a node
  MaxPasses    \* FixpointOptions::maxPasses

ASSUME PassesAssumption ==
  /\ MaxProblem \in Nat /\ MaxPasses \in Nat
  /\ Aware \subseteq 1..MaxProblem /\ Untargeted \subseteq 1..MaxProblem
  /\ Offers \subseteq (1..MaxProblem) \X Nat /\ IsFiniteSet(Offers)

VARIABLES
  contents,    \* what each text holds: [reported, suppressed], or Unparsable
  input, current, previous, pass, lastApplied, applied,
  stage,       \* "start", "passes", "relint", "edits", "done"
  out,         \* FileResult: what was found, of which text, seen by which type-aware rules
  edits        \* per offer with an edit: the offers it applies, and what that lint saw

passVars == <<contents, input, current, previous, pass, lastApplied, applied, stage, out, edits>>

Problems == 1..MaxProblem
Parses(t) == contents[t] # Unparsable

Surviving(t) == IF Parses(t) THEN contents[t].reported \ contents[t].suppressed ELSE {}

lintFile(t, seen) ==
  [of |-> t, seen |-> seen, fatal |-> ~Parses(t), found |-> {p \in Surviving(t) : p \in Aware => p \in seen}]

IsFix(o) == o[2] = 0
Alike(o) == {x \in Offers : IsFix(x) <=> IsFix(o)}

(* What the diagnostics offer, and what a lint hands over to be applied: an    *)
(* offer without a target stays behind.                                      *)
Offered(result) == {o \in Offers : o[1] \in result.found}
Collected(result) == {o \in Offered(result) : o[1] \notin Untargeted}

NotLinted == [of |-> input, seen |-> {}, fatal |-> FALSE, found |-> {}]

Contents == {Unparsable} \cup UNION {[reported : {r}, suppressed : SUBSET r] : r \in SUBSET Problems}

PassesInit ==
  /\ contents \in [TextOf -> Contents]
  /\ input \in TextOf /\ current = input /\ previous = input
  /\ pass = 0 /\ lastApplied = 0 /\ applied = 0
  /\ stage = "start" /\ out = NotLinted /\ edits = <<>>

(* With --fix, or without. *)
lintSource ==
  /\ stage = "start"
  /\ stage' \in {"passes", "edits"}
  /\ IF stage' = "passes" THEN out' = out ELSE \E seen \in SUBSET Aware : out' = lintFile(input, seen)
  /\ UNCHANGED <<contents, input, current, previous, pass, lastApplied, applied, edits>>

-----------------------------------------------------------------------------
(* runToFixpoint.                                                            *)

(* One turn of the loop: lint the text, apply the fixes, print.              *)
RunPass ==
  /\ stage = "passes" /\ pass < MaxPasses
  /\ pass > 0 => Parses(current)
  /\ \E seen \in SUBSET Aware :
       LET applicable == {o \in Collected(lintFile(current, seen)) : IsFix(o)}
       IN  /\ out' = lintFile(current, seen)
           /\ \/ /\ ~Parses(current)
                 /\ stage' = "relint"
                 /\ UNCHANGED <<current, previous, pass, lastApplied, applied>>
              \/ /\ Parses(current) /\ applicable = {}
                 /\ stage' = "done"
                 /\ UNCHANGED <<current, previous, pass, lastApplied, applied>>
              \/ \E n \in 1..Cardinality(applicable), printed \in TextOf :
                   /\ lastApplied' = n /\ applied' = applied + n
                   /\ IF printed = current
                      THEN stage' = "done" /\ UNCHANGED <<current, previous, pass>>
                      ELSE current' = printed /\ previous' = current /\ pass' = pass + 1 /\ UNCHANGED stage
  /\ UNCHANGED <<contents, input, edits>>

(* A pass that broke the syntax is undone.                                   *)
Revert ==
  /\ stage = "passes" /\ pass \in 1..(MaxPasses - 1) /\ ~Parses(current)
  /\ current' = previous
  /\ applied' = applied - lastApplied
  /\ stage' = "relint"
  /\ UNCHANGED <<contents, input, previous, pass, lastApplied, out, edits>>

(* As CutOff, but the diagnostics of the pass before stand for the output.    *)
CutOffUnlinted ==
  /\ stage = "passes" /\ pass = MaxPasses
  /\ stage' = "done"
  /\ UNCHANGED <<contents, input, current, previous, pass, lastApplied, applied, out, edits>>

CutOff ==
  /\ stage = "passes" /\ pass = MaxPasses
  /\ stage' = "relint"
  /\ UNCHANGED <<contents, input, current, previous, pass, lastApplied, applied, out, edits>>

Relint ==
  /\ stage = "relint"
  /\ \E seen \in SUBSET Aware : out' = lintFile(current, seen)
  /\ stage' = "done"
  /\ UNCHANGED <<contents, input, current, previous, pass, lastApplied, applied, edits>>

-----------------------------------------------------------------------------
(* The order of the diagnostics, and of the suggestions of one.               *)
Earlier(x, o) == x[1] < o[1] \/ (x[1] = o[1] /\ x[2] < o[2])
Number(o, list) == Cardinality({x \in list : Earlier(x, o)})

(* As IndexOf, but one counter for fixes and suggestions. *)
SharedIndex(o) == Cardinality(DOMAIN edits)

(* fixIndex or suggestionIndex when the turn is o's. *)
IndexOf(o) == Cardinality(DOMAIN edits \cap Alike(o))

(* What singleEdit applies: the entry with o's number in the list of its kind  *)
(* that another lint of the source collects.                                 *)
ChosenFor(o, seen) ==
  LET chosen == Collected(lintFile(input, seen)) \cap Alike(o)
  IN  {x \in chosen : Number(x, chosen) = IndexOf(o)}

singleEdit ==
  /\ stage = "edits"
  /\ \E o \in Offered(out) \ DOMAIN edits, seen \in SUBSET Aware :
       /\ \A x \in Offered(out) \ DOMAIN edits : ~Earlier(x, o)
       /\ edits' = [x \in DOMAIN edits \cup {o} |->
                      IF x = o THEN [applies |-> ChosenFor(o, seen), seen |-> seen] ELSE edits[x]]
  /\ UNCHANGED <<contents, input, current, previous, pass, lastApplied, applied, stage, out>>

PassesNext == lintSource \/ RunPass \/ Revert \/ CutOff \/ Relint \/ singleEdit

PassesSpec == PassesInit /\ [][PassesNext]_passVars

-----------------------------------------------------------------------------
(* The result of --fix fits its output: the diagnostics are of the text that   *)
(* is written, a file that parsed still parses (but for the output of the     *)
(* last pass allowed, which nothing parses before it is handed out), an       *)
(* output that differs counts a fix and one that was put back counts none.    *)
OutputWasLinted ==
  stage = "done" =>
    /\ out.of = current
    /\ Parses(input) /\ pass < MaxPasses => Parses(current)
    /\ current # input => applied > 0
    /\ applied = 0 => current = input

(* Nothing has moved the numbers up to o: of its kind, every offer from the    *)
(* first to o has a target, and the two lints saw the same of them.          *)
NumbersAgree(o) ==
  \A x \in Alike(o) : ~Earlier(o, x) /\ x[1] \in Surviving(input) =>
    /\ x[1] \notin Untargeted
    /\ x[1] \in Aware => (x[1] \in out.seen <=> x[1] \in edits[o].seen)

(* The edit shown for a fix or a suggestion is that one and no other, whatever *)
(* is suppressed, untargeted or missed elsewhere: the lint that computes it   *)
(* finds it by number alone, in the list of its kind. An offer before it      *)
(* without a target, or one that only one of the lints saw, does move the     *)
(* numbers. (Linter::lintSource, singleEdit)                                 *)
EditsAreOfTheirProblem ==
  \A o \in DOMAIN edits : NumbersAgree(o) => edits[o].applies = {o}
=============================================================================
