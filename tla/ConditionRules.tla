---------------------------- MODULE ConditionRules ----------------------------
(* The rules about conditions (rules/no_unnecessary_condition.cc,             *)
(* strict_boolean_expressions.cc, prefer_nullish_coalescing.cc), each over    *)
(* one condition of a program, against the values the condition may have when *)
(* it runs.                                                                  *)
(*                                                                           *)
(* An expression is a tree of [op, args, type]; only variables carry a type. *)
(* A node is named by the path of argument positions that leads to it. A     *)
(* program is an expression and the place it stands in.                      *)
EXTENDS TypeFacts, SequencesExt

CONSTANTS
  Conditions,    \* the programs: [place, expr]
  StrictOptions, \* options of strict-boolean-expressions
  LoopConstants  \* options of no-unnecessary-condition

VARIABLES conditions, strictOptions, loops

conditionVars == <<conditions, strictOptions, loops>>

Var(t) == [op |-> "var", args |-> <<>>, type |-> t]
Op(op, args) == [op |-> op, args |-> args, type |-> NoType]

Tests == {"if", "loop"}
Assignments == {"||=", "&&=", "??="}

ExprAt(e, path) ==
  LET at[i \in 0..Len(path)] == IF i = 0 THEN e ELSE at[i - 1].args[path[i]]
  IN  at[Len(path)]

RECURSIVE PathsOf(_)
PathsOf(e) ==
  {<<>>} \cup UNION {{<<i>> \o p : p \in PathsOf(e.args[i])} : i \in DOMAIN e.args}

ParentOf(path) == SubSeq(path, 1, Len(path) - 1)
Logical(e) == e.op \in {"&&", "||", "??"}
AndOr(e) == e.op \in {"&&", "||"}

-----------------------------------------------------------------------------
(* The checker: the type of an expression.                                    *)

Join(S) ==
  IF \E t \in S : isAny(t) THEN Plain("Any")
  ELSE IF S = {} THEN Plain("Never")
  ELSE IF Cardinality(S) = 1 THEN CHOOSE t \in S : TRUE
  ELSE Union(SetToSeq(S))

UnionMembersOf(t) == IF "Union" \in t.flags THEN SeqElements(t.parts) ELSE {t}

FalsyPart(m) ==
  CASE "String" \in m.flags -> Literal("StringLiteral", "")
    [] "Number" \in m.flags -> Literal("NumberLiteral", "0")
    [] OTHER -> m

WhenFalsy(t) == {FalsyPart(m) : m \in {n \in UnionMembersOf(t) : ValuesOf[n] \cap Falsy # {}}}
WhenTruthy(t) == {m \in UnionMembersOf(t) : ValuesOf[m] \cap Truthy # {}}
WhenPresent(t) == {m \in UnionMembersOf(t) : ValuesOf[m] \ Nullish # {}}

boolean == Union(<<Literal("BooleanLiteral", "true"), Literal("BooleanLiteral", "false")>>)

RECURSIVE typeOf(_)
typeOf(e) ==
  CASE e.op = "var" -> e.type
    [] e.op \in {"[i]", "[0]"} -> typeOf(e.args[1]).args[1]
    [] e.op = "!" -> boolean
    [] e.op = "&&" -> Join(WhenFalsy(typeOf(e.args[1])) \cup UnionMembersOf(typeOf(e.args[2])))
    [] e.op = "||" -> Join(WhenTruthy(typeOf(e.args[1])) \cup UnionMembersOf(typeOf(e.args[2])))
    [] e.op = "??" -> Join(WhenPresent(typeOf(e.args[1])) \cup UnionMembersOf(typeOf(e.args[2])))
    [] e.op = "?:" -> Join(UnionMembersOf(typeOf(e.args[2])) \cup UnionMembersOf(typeOf(e.args[3])))

(* The program: the values an expression may have. An index may lie past the  *)
(* end of an array, which its type does not say.                             *)
RECURSIVE Possible(_)
Possible(e) ==
  LET P(i) == Possible(e.args[i])
      If(S, T) == IF S = {} THEN {} ELSE T
  IN  CASE e.op = "var" -> ValuesOf[e.type]
        [] e.op \in {"[i]", "[0]"} ->
             ValuesOf[typeOf(e)] \cup
             IF e.op = "[0]" /\ isTuple(typeOf(e.args[1])) THEN {} ELSE {"undefined"}
        [] e.op = "!" -> If(P(1) \cap Falsy, {"true"}) \cup If(P(1) \cap Truthy, {"false"})
        [] e.op = "&&" -> (P(1) \cap Falsy) \cup If(P(1) \cap Truthy, P(2))
        [] e.op = "||" -> (P(1) \cap Truthy) \cup If(P(1) \cap Falsy, P(2))
        [] e.op = "??" -> (P(1) \ Nullish) \cup If(P(1) \cap Nullish, P(2))
        [] e.op = "?:" -> If(P(1) \cap Truthy, P(2)) \cup If(P(1) \cap Falsy, P(3))

(* Whether the node depends on a value read through an index.                 *)
RECURSIVE HidesIndex(_)
HidesIndex(e) ==
  CASE e.op = "var" -> FALSE
    [] e.op \in {"[i]", "[0]"} -> TRUE
    [] e.op = "?:" -> HidesIndex(e.args[2]) \/ HidesIndex(e.args[3])
    [] OTHER -> \E i \in DOMAIN e.args : HidesIndex(e.args[i])

-----------------------------------------------------------------------------
(* no-unnecessary-condition.                                                 *)

unionParts(t) == UnionMembersOf(t)
intersectionParts(t) == IF "Intersection" \in t.flags THEN SeqElements(t.parts) ELSE {t}

constrained(e) ==
  IF constraintOf(typeOf(e)) # NoType THEN constraintOf(typeOf(e)) ELSE typeOf(e)

isZeroText(text) == text \in {"0", "-0"}

isFalsyType(t) ==
  \/ t.flags \cap NullishFlags # {}
  \/ "BooleanLiteral" \in t.flags /\ t.text = "false"
  \/ "StringLiteral" \in t.flags /\ t.text = ""
  \/ "NumberLiteral" \in t.flags /\ isZeroText(t.text)

isTruthyLiteral(t) ==
  \/ "BooleanLiteral" \in t.flags /\ t.text = "true"
  \/ "StringLiteral" \in t.flags /\ t.text # ""
  \/ "NumberLiteral" \in t.flags /\ ~isZeroText(t.text)

PossiblyFalsyFlags == NullishFlags \cup LiteralFlags \cup {"String", "Number", "BigInt"}

isPossiblyTruthy(t) ==
  \E u \in unionParts(t) : \A i \in intersectionParts(u) : ~isFalsyType(i)

isPossiblyFalsy(t) ==
  \E u \in unionParts(t) : \E i \in intersectionParts(u) :
     ~isTruthyLiteral(i) /\ i.flags \cap PossiblyFalsyFlags # {}

(* As isConditionalAlwaysNecessary, but a type parameter counts as its object. *)
necessaryIfAny(t) ==
  \E part \in unionParts(t) : part.flags \cap {"Any", "Unknown"} # {}

isConditionalAlwaysNecessary(t) ==
  \E part \in unionParts(t) : part.flags \cap {"Any", "Unknown", "TypeParameter"} # {}

isArrayIndexExpression(e) ==
  /\ e.op \in {"[i]", "[0]"}
  /\ \E part \in unionParts(constrained(e.args[1])) :
       \/ isArray(apparentType(part))
       \/ isTuple(apparentType(part)) /\ e.op # "[0]"

RECURSIVE isOnlyUsedForTruthiness(_, _)
isOnlyUsedForTruthiness(program, path) ==
  IF path = <<>> THEN program.place \in Tests
  ELSE LET parent == ExprAt(program.expr, ParentOf(path))
           first == path[Len(path)] = 1
       IN  \/ parent.op \in {"?:", "&&"} /\ first
           \/ Logical(parent) /\ isOnlyUsedForTruthiness(program, ParentOf(path))
           \/ parent.op = "!"

Verdict(path, id) == {[at |-> path, says |-> id]}

(* checkNode: `reported` is where a problem is shown, and `negated` whether a *)
(* `!` stands between the two.                                               *)
RECURSIVE checkNode(_, _, _, _)
checkNode(program, path, negated, reported) ==
  LET e == ExprAt(program.expr, path)
      t == constrained(e)
      right == Append(path, 2)
  IN  IF e.op = "!" THEN checkNode(program, Append(path, 1), ~negated, reported)
      ELSE IF isArrayIndexExpression(e) THEN {}
      ELSE IF AndOr(e)
      THEN IF isOnlyUsedForTruthiness(program, path)
           THEN checkNode(program, right, FALSE, right) ELSE {}
      ELSE IF isConditionalAlwaysNecessary(t) THEN {}
      ELSE IF "Never" \in t.flags THEN Verdict(reported, "never")
      ELSE IF ~isPossiblyTruthy(t)
      THEN Verdict(reported, IF negated THEN "alwaysTruthy" ELSE "alwaysFalsy")
      ELSE IF ~isPossiblyFalsy(t)
      THEN Verdict(reported, IF negated THEN "alwaysFalsy" ELSE "alwaysTruthy")
      ELSE {}

checkNodeForNullish(program, path) ==
  LET e == ExprAt(program.expr, path)
      t == constrained(e)
      open == t.flags \cap {"Any", "Unknown", "TypeParameter"} # {}
      isPossiblyNullish == \E part \in unionParts(t) : part.flags \cap NullishFlags # {}
      isAlwaysNullish == \A part \in unionParts(t) : part.flags \cap {"Undefined", "Null"} # {}
  IN  IF open THEN {}
      ELSE IF "Never" \in t.flags THEN Verdict(path, "never")
      ELSE IF ~isPossiblyNullish
      THEN IF isArrayIndexExpression(e) THEN {} ELSE Verdict(path, "neverNullish")
      ELSE IF isAlwaysNullish THEN Verdict(path, "alwaysNullish")
      ELSE {}

isAllowedLoop(option, t) ==
  \/ option = "always" /\ t = Literal("BooleanLiteral", "true")
  \/ /\ option = "only-allowed-literals"
     /\ \/ "BooleanLiteral" \in t.flags
        \/ "NumberLiteral" \in t.flags /\ t.text \in {"0", "1"}

checkLoop(program, option) ==
  IF isAllowedLoop(option, constrained(program.expr)) THEN {}
  ELSE checkNode(program, <<>>, FALSE, <<>>)

(* What the rule reports: the place's own check, and one for every logical    *)
(* and conditional operator inside.                                          *)
UnnecessaryReports(program, option) ==
  LET left(path) == Append(path, 1)
      of(path) ==
        LET e == ExprAt(program.expr, path)
        IN  CASE AndOr(e) \/ e.op = "?:" -> checkNode(program, left(path), FALSE, left(path))
              [] e.op = "??" -> checkNodeForNullish(program, left(path))
              [] OTHER -> {}
      place ==
        CASE program.place = "if" -> checkNode(program, <<>>, FALSE, <<>>)
          [] program.place = "loop" -> checkLoop(program, option)
          [] program.place \in {"||=", "&&="} -> checkNode(program, <<>>, FALSE, <<>>)
          [] program.place = "??=" -> checkNodeForNullish(program, <<>>)
          [] OTHER -> {}
  IN  place \cup UNION {of(p) : p \in PathsOf(program.expr)}

-----------------------------------------------------------------------------
(* strict-boolean-expressions. A condition is inspected once: `seen` holds    *)
(* the nodes the walk has passed, in the order the linter visits them.       *)

(* traverseNode of `path`: [seen, checked] after it.                          *)
RECURSIVE traverseNode(_, _, _, _)
traverseNode(expr, path, isCondition, was) ==
  LET left == traverseNode(expr, Append(path, 1), TRUE, [was EXCEPT !.seen = @ \cup {path}])
  IN  IF path \in was.seen THEN was
      ELSE IF AndOr(ExprAt(expr, path))
      THEN traverseNode(expr, Append(path, 2), isCondition, left)
      ELSE [seen |-> was.seen \cup {path},
            checked |-> IF isCondition THEN was.checked \cup {path} ELSE was.checked]

traverseLogical(expr, path, was) ==
  traverseNode(expr, Append(path, 2), FALSE,
               traverseNode(expr, Append(path, 1), TRUE, was))

(* The handlers of the nodes, parents before children. *)
RECURSIVE VisitFrom(_, _, _)
VisitFrom(expr, path, was) ==
  LET e == ExprAt(expr, path)
      here == CASE e.op \in {"!", "?:"} -> traverseNode(expr, Append(path, 1), TRUE, was)
                [] AndOr(e) -> traverseLogical(expr, path, was)
                [] OTHER -> was
      child[i \in 0..Len(e.args)] ==
        IF i = 0 THEN here ELSE VisitFrom(expr, Append(path, i), child[i - 1])
  IN  child[Len(e.args)]

StrictChecked(program) ==
  LET none == [seen |-> {}, checked |-> {}]
      test == IF program.place \in Tests THEN traverseNode(program.expr, <<>>, TRUE, none) ELSE none
  IN  VisitFrom(program.expr, <<>>, test).checked

(* As StringFlags, but only the literals. *)
StringLiteralFlags == {"StringLiteral"}

StringFlags == {"String", "StringLiteral"}
NumberFlags == {"Number", "NumberLiteral", "BigInt"}
OpenFlags == {"TypeParameter", "Any", "Unknown"}
kExcludesObject ==
  NullishFlags \cup {"BooleanLiteral"} \cup StringFlags \cup NumberFlags \cup OpenFlags \cup {"Never"}

isBrandedBoolean(t) ==
  "Intersection" \in t.flags /\ \E m \in SeqElements(t.parts) : "BooleanLiteral" \in m.flags

inspectVariants(t) ==
  LET parts == UnionMembersOf(t)
      Some(flags) == {p \in parts : p.flags \cap flags # {}}
      booleans == Some({"BooleanLiteral"})
      texts == Some(StringFlags)
      numbers == Some(NumberFlags)
      objects == {p \in parts : p.flags \cap kExcludesObject = {}}
      Kind(is, name) == IF is THEN {name} ELSE {}
      truthyBoolean == booleans = {Literal("BooleanLiteral", "true")}
      truthyTexts == \A p \in texts : "StringLiteral" \in p.flags /\ p.text # ""
      truthyNumbers == \A p \in numbers : "NumberLiteral" \in p.flags /\ p.text # "0"
      branded == \E p \in objects : isBrandedBoolean(p)
  IN  UNION {Kind(Some(NullishFlags) # {}, "nullish"),
             Kind(Some({"EnumLiteral"}) # {}, "enum"),
             Kind(Some(OpenFlags) # {}, "any"),
             Kind(Some({"Never"}) # {}, "never"),
             Kind(booleans # {}, IF truthyBoolean THEN "truthy boolean" ELSE "boolean"),
             Kind(texts # {}, IF truthyTexts THEN "truthy string" ELSE "string"),
             Kind(numbers # {}, IF truthyNumbers THEN "truthy number" ELSE "number"),
             Kind(objects # {}, IF branded THEN "boolean" ELSE "object")}

(* The table: the variants that need no report, and what an option admits.    *)
Admitted(kinds, options) ==
  LET plain == kinds \ {"nullish"}
      Bare(names, option) == \E n \in names : kinds = {n} /\ option \in options
      WithNullish(name, option) == kinds = {"nullish", name} /\ option \in options
  IN  \/ kinds \in {{"boolean"}, {"truthy boolean"}, {"never"}, {"nullish", "truthy boolean"}}
      \/ WithNullish("truthy number", "number") \/ WithNullish("truthy string", "string")
      \/ Bare({"string", "truthy string"}, "string")
      \/ Bare({"number", "truthy number"}, "number")
      \/ Bare({"any"}, "any")
      \/ WithNullish("boolean", "nullable boolean") \/ WithNullish("string", "nullable string")
      \/ WithNullish("number", "nullable number") \/ WithNullish("object", "nullable object")
      \/ /\ {"nullish", "enum"} \subseteq kinds /\ "nullable enum" \in options
         /\ plain \ {"enum", "number", "string", "truthy number", "truthy string"} = {}
         /\ plain # {"enum"}

StrictReports(program, options) ==
  {p \in StrictChecked(program) :
     ~Admitted(inspectVariants(constrained(ExprAt(program.expr, p))), options)}

-----------------------------------------------------------------------------
(* prefer-nullish-coalescing, with every primitive ignored.                   *)

PrimitiveFlags == {"String", "StringLiteral", "Number", "NumberLiteral", "BigInt", "BooleanLiteral"}

isTypeEligible(t) ==
  /\ \E m \in UnionMembersOf(t) : m.flags \cap (NullishFlags \cup {"Any", "Unknown"}) # {}
  /\ ~isAnyLike(t)
  /\ \A part \in UnionMembersOf(t) : \A inner \in intersectionParts(part) :
       inner.flags \cap PrimitiveFlags = {}

(* Whether the node is the test of something, up through logical operators,   *)
(* the branches of a conditional and `!`.                                    *)
RECURSIVE isConditionalTest(_, _)
isConditionalTest(program, path) ==
  IF path = <<>> THEN program.place \in Tests
  ELSE LET parent == ExprAt(program.expr, ParentOf(path))
       IN  \/ parent.op = "?:" /\ path[Len(path)] = 1
           \/ /\ parent.op \in {"&&", "||", "??", "?:", "!"}
              /\ isConditionalTest(program, ParentOf(path))

(* The `||` nodes the rule offers to make `??`.                               *)
NullishReports(program) ==
  {p \in PathsOf(program.expr) :
     /\ ExprAt(program.expr, p).op = "||"
     /\ ~isConditionalTest(program, p)
     /\ isTypeEligible(typeOf(ExprAt(program.expr, p).args[1]))}

-----------------------------------------------------------------------------
ConditionInit ==
  /\ conditions = {} /\ strictOptions = {} /\ loops = "never"

(* Lint one program under some options.                                       *)
LintCondition ==
  /\ conditions = {}
  /\ \E program \in Conditions : conditions' = {program}
  /\ strictOptions' \in StrictOptions
  /\ loops' \in LoopConstants

-----------------------------------------------------------------------------
(* A union one of whose members is a bare type parameter.                     *)
HasOpenMember(t) == \E m \in UnionMembersOf(t) : isTypeParameter(m)

(* The operand of a chain of `!`. *)
RECURSIVE Negated(_)
Negated(e) == IF e.op = "!" THEN Negated(e.args[1]) ELSE e

TruthVerdict(e, says) ==
  CASE says = "alwaysTruthy" -> Possible(e) \subseteq Truthy
    [] says = "alwaysFalsy" -> Possible(e) \subseteq Falsy
    [] says = "neverNullish" -> Possible(e) \cap Nullish = {}
    [] says = "alwaysNullish" -> Possible(e) \subseteq Nullish
    [] says = "never" -> Possible(e) = {}

(* What no-unnecessary-condition says of a condition is so whenever it runs:  *)
(* always truthy, always falsy, never or always nullish, never reached. A    *)
(* value that an index below the node fetched is outside its type's promise, *)
(* and what is said of `??` on an open union is NullishVerdictsHold's.       *)
(* (Checker::checkNode, checkNodeForNullish)                                 *)
ConditionVerdictsHold ==
  \A program \in conditions : \A r \in UnnecessaryReports(program, loops) :
    LET e == ExprAt(program.expr, r.at)
    IN  \/ HidesIndex(e) /\ ~isArrayIndexExpression(Negated(e))
        \/ r.says \in {"neverNullish", "alwaysNullish"} /\ HasOpenMember(constrained(e))
        \/ TruthVerdict(e, r.says)

(* A left operand of `??` whose type includes a bare type parameter is always *)
(* considered necessary, as docs/rules/no-unnecessary-condition.md says: the *)
(* parameter may stand for undefined (checkNodeForNullish).                  *)
NullishVerdictsHold ==
  \A program \in conditions : \A r \in UnnecessaryReports(program, loops) :
    LET e == ExprAt(program.expr, r.at)
    IN  e.op = "var" /\ HasOpenMember(typeOf(e)) => TruthVerdict(e, r.says)

(* The operands whose truth decides something: the leaves, below && and ||,   *)
(* of a test, of a negated operand, of what stands left of && and ||.        *)
RECURSIVE Decides(_, _)
Decides(program, path) ==
  IF path = <<>> THEN program.place \in Tests
  ELSE LET parent == ExprAt(program.expr, ParentOf(path))
       IN  \/ parent.op \in {"!", "?:", "&&", "||"} /\ path[Len(path)] = 1
           \/ AndOr(parent) /\ Decides(program, ParentOf(path))

(* strict-boolean-expressions looks at every operand that decides and at no   *)
(* other, though one node is reached by several handlers and only the first  *)
(* of them counts (Checker::traverseNode, m_seen).                           *)
EveryConditionInspected ==
  \A program \in conditions :
    StrictChecked(program) =
      {p \in PathsOf(program.expr) : ~AndOr(ExprAt(program.expr, p)) /\ Decides(program, p)}

FalsyKind(v) == IF v \in Nullish THEN "nullish" ELSE IF v = "0n" THEN "0" ELSE v

(* A condition strict-boolean-expressions accepts is false for one reason     *)
(* only (nullish, false, empty or zero) unless an option allows a nullable   *)
(* primitive or any: inspectVariants and determineReport against the values. *)
AcceptedConditionIsUnambiguous ==
  \A program \in conditions :
    strictOptions \cap {"nullable boolean", "nullable string", "nullable number", "nullable enum", "any"} = {} =>
      \A p \in StrictChecked(program) \ StrictReports(program, strictOptions) :
        LET e == ExprAt(program.expr, p)
        IN  HidesIndex(e) \/
            Cardinality({FalsyKind(v) : v \in ValuesOf[constrained(e)] \cap Falsy}) <= 1

(* With every primitive ignored, taking prefer-nullish-coalescing's           *)
(* suggestion changes no result: `a ?? b` has exactly the values of `a || b`. *)
(* A type parameter may stand for a primitive.                               *)
SuggestionKeepsValue ==
  \A program \in conditions : \A p \in NullishReports(program) :
    LET e == ExprAt(program.expr, p)
        left == e.args[1]
    IN  \/ HidesIndex(left)
        \/ \E m \in UnionMembersOf(typeOf(left)) : isTypeParameter(m)
        \/ Possible(left) \cap Falsy \subseteq Nullish
=============================================================================
