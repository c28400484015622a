--------------------------------- MODULE Flow ---------------------------------
(* Whether control can get past a statement (rules/flow.cc), the two rules    *)
(* that ask (rules/no_unreachable.cc, no_fallthrough.cc), and the completions *)
(* that ECMAScript gives the same statements, every test taken either way.    *)
(* A body lists its statements, each after the ones inside it, so what holds  *)
(* of a statement is a function of its number and of the numbers below.       *)
EXTENDS Naturals, Sequences, FiniteSets, SequencesExt

CONSTANTS
  Label, NoLabel,  \* what statements are labelled with; a jump without a label
  Bodies           \* the function bodies to lint

VARIABLE functionBody    \* the function body under lint: at most one

flowVars == functionBody

-----------------------------------------------------------------------------
(* Statements. `test` is "true", "none" (a `for` without a test) or "x";      *)
(* `label` is a break's or continue's target or a labelled statement's name.  *)
FlowLoops == {"while", "dowhile", "for", "forof"}
Jumping == {"return", "throw", "break", "continue"}
Clauses == {"case", "default"}
AroundOne == FlowLoops \cup {"labeled", "with"}
StatementKinds == FlowLoops \cup Jumping \cup Clauses \cup
  {"exec", "function", "none", "block", "if", "labeled", "switch", "try", "with"}

Statement == [kind : StatementKinds, test : {"true", "none", "x"}, label : Label \cup {NoLabel},
              comment : BOOLEAN, kids : Seq(Nat)]

(* What the grammar says of statement n of a body. The block, the handler and  *)
(* the finalizer of a try are its kids; the last two may be missing.          *)
WellFormed(body, n) ==
  LET s == body[n]
  IN  /\ \A i \in DOMAIN s.kids : s.kids[i] \in 1..(n - 1)
      /\ s.kind \in AroundOne => Len(s.kids) = 1
      /\ s.kind = "labeled" => s.label # NoLabel
      /\ s.kind = "if" => Len(s.kids) \in {1, 2}
      /\ s.kind = "try" => Len(s.kids) = 3
      /\ s.kind = "switch" => \A i \in DOMAIN s.kids : body[s.kids[i]].kind \in Clauses

FunctionBody == {body \in Seq(Statement) : \A n \in DOMAIN body : WellFormed(body, n)}

ASSUME FlowAssumption == NoLabel \notin Label /\ Bodies \subseteq FunctionBody

stmt(n) == functionBody[n]
Kids(n) == functionBody[n].kids

-----------------------------------------------------------------------------
(* rules/flow.cc; `done` is what was found of the statements below.           *)

constantTrue(n) == stmt(n).test = "true"

JumpIn(done, n, kind, label, stops) ==
  IF stmt(n).kind = kind THEN stmt(n).label = label
  ELSE stmt(n).kind \notin stops /\ \E i \in DOMAIN Kids(n) : done[Kids(n)[i]]

(* A jump of this kind and label under n that no statement of `stops` hides. *)
HasJump(n, kind, label, stops) ==
  LET has[m \in DOMAIN functionBody] == JumpIn(has, m, kind, label, stops) IN has[n]

hasUnlabelledBreak(n) == HasJump(n, "break", NoLabel, FlowLoops \cup {"switch", "function"})
hasUnlabelledContinue(n) == HasJump(n, "continue", NoLabel, FlowLoops \cup {"function"})
hasLabelledJump(n, label, kind) == HasJump(n, kind, label, {"function"})

AllComplete(done, list) == \A i \in DOMAIN list : done[list[i]]

(* As switchCompletes, but a switch without a default is not skipped.        *)
switchRunsToItsEnd(done, n) ==
  \/ Kids(n) = <<>>
  \/ \E i \in DOMAIN Kids(n) : hasUnlabelledBreak(Kids(n)[i])
  \/ AllComplete(done, Kids(Last(Kids(n))))

switchCompletes(done, n) ==
  \/ Kids(n) = <<>>
  \/ \E i \in DOMAIN Kids(n) : hasUnlabelledBreak(Kids(n)[i])
  \/ ~\E i \in DOMAIN Kids(n) : stmt(Kids(n)[i]).kind = "default"
  \/ AllComplete(done, Kids(Last(Kids(n))))

HasPart(n, i) == stmt(Kids(n)[i]).kind # "none"

(* As tryCompletes, but what the handler does is not looked at.               *)
tryCompletesByBlock(done, n) ==
  /\ HasPart(n, 3) => done[Kids(n)[3]]
  /\ done[Kids(n)[1]]

tryCompletes(done, n) ==
  /\ HasPart(n, 3) => done[Kids(n)[3]]
  /\ done[Kids(n)[1]] \/ (HasPart(n, 2) /\ done[Kids(n)[2]])

Completes(done, n) ==
  LET s == stmt(n)
      body == s.kids[1]
  IN  CASE s.kind \in Jumping -> FALSE
        [] s.kind = "block" -> AllComplete(done, s.kids)
        [] s.kind = "if" -> Len(s.kids) = 1 \/ \E i \in DOMAIN s.kids : done[s.kids[i]]
        [] s.kind = "labeled" -> done[body] \/ hasLabelledJump(body, s.label, "break")
        [] s.kind = "switch" -> switchCompletes(done, n)
        [] s.kind = "while" -> ~constantTrue(n) \/ hasUnlabelledBreak(body)
        [] s.kind = "dowhile" -> \/ hasUnlabelledBreak(body)
                                 \/ /\ ~constantTrue(n)
                                    /\ done[body] \/ hasUnlabelledContinue(body)
        [] s.kind = "for" -> (s.test # "none" /\ ~constantTrue(n)) \/ hasUnlabelledBreak(body)
        [] s.kind = "with" -> done[body]
        [] s.kind = "try" -> tryCompletes(done, n)
        [] OTHER -> TRUE

completesNormally[n \in DOMAIN functionBody] == Completes(completesNormally, n)

sequenceCompletesNormally(list) == AllComplete(completesNormally, list)

-----------------------------------------------------------------------------
(* The rules.                                                                *)

reportable(n) == stmt(n).kind \notin {"function", "none"}

(* The statements of a list that no-unreachable reports, by index. *)
checkList(list) ==
  {i \in DOMAIN list : reportable(list[i]) /\ \E j \in 1..(i - 1) : ~completesNormally[list[j]]}

(* A clause that no-fallthrough reports for running into the next one.       *)
ReportsFall(clause) ==
  /\ Kids(clause) # <<>> /\ sequenceCompletesNormally(Kids(clause))
  /\ ~stmt(clause).comment

(* A comment reported because the clause it excuses cannot fall through.     *)
ReportsComment(clause) ==
  /\ Kids(clause) # <<>> /\ ~sequenceCompletesNormally(Kids(clause))
  /\ stmt(clause).comment

-----------------------------------------------------------------------------
(* What the language does: the ways a statement can end. Any expression may   *)
(* throw; the labels are those that name the statement itself. `done` gives   *)
(* the ends of the statements below, by the labels they stand under.          *)
Completion == [how : Jumping \cup {"normal"}, label : Label \cup {NoLabel}]
End(how, label) == [how |-> how, label |-> label]
Normal == End("normal", NoLabel)

(* Kid i of a list starts only when every earlier kid can end normally. *)
Starts(done, list, i) == \A j \in 1..(i - 1) : Normal \in done[list[j]][{}]

ListEnds(done, list) ==
  (UNION {done[list[i]][{}] \ {Normal} : i \in {j \in DOMAIN list : Starts(done, list, j)}})
  \cup {e \in {Normal} : Starts(done, list, Len(list) + 1)}

LoopEnds(done, n, labels) ==
  LET s == stmt(n)
      Ours(how) == {End(how, l) : l \in labels \cup {NoLabel}}
      ends == done[s.kids[1]][{}]
      again == ends \cap ({Normal} \cup Ours("continue")) # {}
      testFalse == /\ s.kind # "forof" => s.test = "x"
                   /\ s.kind = "dowhile" => again
  IN  (ends \ ({Normal} \cup Ours("break") \cup Ours("continue")))
      \cup {e \in {Normal} : testFalse \/ ends \cap Ours("break") # {}}

(* A switch enters at any clause, falls from clause to clause, and skips them *)
(* all when it has no default.                                               *)
SwitchEnds(done, n) ==
  LET clauses == Kids(n)
      ends == UNION {ListEnds(done, Kids(clauses[j])) : j \in DOMAIN clauses}
  IN  (ends \ {Normal, End("break", NoLabel)})
      \cup {e \in {Normal} : \/ End("break", NoLabel) \in ends
                             \/ \A i \in DOMAIN clauses : stmt(clauses[i]).kind # "default"
                             \/ Normal \in ListEnds(done, Kids(Last(clauses)))}

TryEnds(done, n) ==
  LET part(i) == done[Kids(n)[i]][{}]
      throw == End("throw", NoLabel)
      block == part(1) \cup {throw}
      caught == IF HasPart(n, 2) THEN (block \ {throw}) \cup part(2) ELSE block
  IN  IF ~HasPart(n, 3) THEN caught
      ELSE (part(3) \ {Normal}) \cup {e \in caught : Normal \in part(3)}

EndsUnder(done, n, labels) ==
  LET s == stmt(n)
      body == s.kids[1]
  IN  CASE s.kind \in Jumping -> {End(s.kind, s.label)}
        [] s.kind = "block" -> ListEnds(done, s.kids)
        [] s.kind = "if" -> (UNION {done[s.kids[i]][{}] : i \in DOMAIN s.kids})
                            \cup {e \in {Normal} : Len(s.kids) = 1}
        [] s.kind = "labeled" ->
             {IF e = End("break", s.label) THEN Normal ELSE e : e \in done[body][labels \cup {s.label}]}
        [] s.kind \in FlowLoops -> LoopEnds(done, n, labels)
        [] s.kind = "switch" -> SwitchEnds(done, n)
        [] s.kind = "with" -> done[body][{}]
        [] s.kind = "try" -> TryEnds(done, n)
        [] OTHER -> {Normal}

Ends[n \in DOMAIN functionBody] == [labels \in SUBSET Label |-> EndsUnder(Ends, n, labels)]

(* The lists of the body: every block's and every clause's statements. *)
Lists == {n \in DOMAIN functionBody : stmt(n).kind \in {"block"} \cup Clauses}
Switches == {n \in DOMAIN functionBody : stmt(n).kind = "switch"}

(* A `continue` to a label of the do-while around it: its test is what runs    *)
(* next, and flow.cc looks for unlabelled ones only.                         *)
IsDoWhile(done, n) ==
  stmt(n).kind = "dowhile" \/ (stmt(n).kind = "labeled" /\ done[Kids(n)[1]])

labelsDoWhile[n \in DOMAIN functionBody] == IsDoWhile(labelsDoWhile, n)

ContinuesItsDoWhile ==
  \E n \in DOMAIN functionBody : /\ stmt(n).kind = "labeled" /\ labelsDoWhile[n]
                                 /\ hasLabelledJump(n, stmt(n).label, "continue")

-----------------------------------------------------------------------------
FlowInit == functionBody = <<>>

LintFlow ==
  /\ functionBody = <<>>
  /\ functionBody' \in Bodies

FlowSpec == FlowInit /\ [][LintFlow]_flowVars

-----------------------------------------------------------------------------
(* A statement that no-unreachable reports can be deleted: in no run does      *)
(* control reach it, whatever the tests, the switch values and the exceptions  *)
(* are. (flow.cc:136 misses a labelled `continue` of a do-while.)              *)
UnreachableNeverRuns ==
  ContinuesItsDoWhile \/
  \A n \in Lists : \A i \in checkList(Kids(n)) : ~Starts(Ends, Kids(n), i)

(* A clause that can run into the next one is reported or carries the comment  *)
(* that permits it, and that comment is never called useless.                  *)
FallsAreReported ==
  ContinuesItsDoWhile \/
  \A n \in Switches : \A i \in 1..(Len(Kids(n)) - 1) :
    LET clause == Kids(n)[i]
    IN  (Kids(clause) # <<>> /\ Normal \in ListEnds(Ends, Kids(clause)))
          => (ReportsFall(clause) \/ stmt(clause).comment) /\ ~ReportsComment(clause)

=============================================================================
