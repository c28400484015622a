---------------------------- MODULE MCTypedRules ----------------------------
(* Inputs of the type-aware rules for TLC: types, and the conditions,        *)
(* statements, calls, returns, chains and assertions built over them.        *)
EXTENDS ConditionRules, PromiseRules, AnyRules

AnObject == Object("object")
AString == Plain("String")
ANumber == Plain("Number")
AnUndefined == Plain("Undefined")
APromise == Generic("Promise", <<ANumber>>)

-----------------------------------------------------------------------------
(* The expressions with one of these operators over one of these operands.    *)
Ops(ops, operands) == [op : ops, args : operands, type : {NoType}]
Alone(expressions) == [1..1 -> expressions]

(* Conditions: every type where one operand decides, pairs of operators over  *)
(* a few types elsewhere.                                                    *)
MCConditions ==
  LET atoms ==
        {AnUndefined, Plain("Null"), Plain("Void"), AString, ANumber, Plain("BigInt"), AnObject}
        \cup {Literal("StringLiteral", ""), Literal("StringLiteral", "a"), Literal("NumberLiteral", "0"),
              Literal("NumberLiteral", "1"), Literal("BooleanLiteral", "true"), Literal("BooleanLiteral", "false")}
      every ==
        atoms
        \cup {Plain("Any"), Plain("Unknown"), Plain("Never"), Parameter(<<>>), Parameter(<<AString>>), boolean, APromise,
              Intersection(<<AString, Object("brand")>>),
              Intersection(<<Literal("BooleanLiteral", "true"), Object("brand")>>)}
        \cup {Union(SetToSeq(s)) : s \in {x \in SUBSET atoms : Cardinality(x) = 2}}
        \cup {Union(<<Literal("BooleanLiteral", "true"), Literal("BooleanLiteral", "false"), AnUndefined>>),
              Union(<<AnUndefined, Parameter(<<>>)>>)}
      few == {AnUndefined, AString, AnObject, boolean, Union(<<AnObject, AnUndefined>>), Union(<<ANumber, Plain("Null")>>)}
      element == Op("[i]", <<Var(Generic("Array", <<AnObject>>))>>)
      leaves == {Var(t) : t \in few} \cup {element, Op("[0]", <<Var(Generic("Tuple", <<AnObject>>))>>)}
      small == {Var(AnObject), Var(Union(<<AString, AnUndefined>>)), element}
      logical == {"&&", "||", "??"}
      one == {Var(t) : t \in every} \cup Ops({"!"}, Alone({Var(t) : t \in every}))
             \cup Ops(logical, {Var(t) : t \in every} \X {Var(AnObject)})
      inner == Ops(logical, leaves \X leaves) \cup Ops({"!"}, Alone(leaves))
      two == Ops(logical, inner \X small) \cup Ops(logical, small \X inner) \cup Ops({"!"}, Alone(inner))
             \cup Ops({"?:"}, inner \X small \X {Var(AnObject)})
  IN  [place : {"if", "loop", "value"}, expr : one]
      \cup [place : {"||=", "&&=", "??="}, expr : {Var(t) : t \in every}]
      \cup [place : {"if", "value"}, expr : inner] \cup [place : {"if", "value"}, expr : two]

MCStrictOptions == {{}, {"string", "number", "nullable object"}, {"any", "nullable boolean", "nullable enum"}}

-----------------------------------------------------------------------------
(* Statements: an expression of one of these types, under up to two operators.*)
MCStatements ==
  LET types ==
        {APromise, Generic("OwnPromise", <<ANumber>>), Generic("Thenable", <<ANumber>>), AnObject, ANumber, Plain("Any"),
         AnUndefined, Union(<<APromise, AnUndefined>>), Intersection(<<APromise, AnObject>>),
         Parameter(<<>>), Parameter(<<APromise>>), Parameter(<<Union(<<APromise, Plain("Null")>>)>>),
         Union(<<Parameter(<<APromise>>), ANumber>>), Union(<<Intersection(<<APromise, AnObject>>), ANumber>>),
         Generic("Array", <<APromise>>), Generic("Tuple", <<ANumber, APromise>>), Parameter(<<Generic("Array", <<APromise>>)>>)}
      handlers == {NoType, Object("function"), AnUndefined, Parameter(<<Object("function")>>)}
      all == {PVar(t) : t \in types}
      few == {PVar(APromise), PVar(AnObject), PVar(Union(<<APromise, AnUndefined>>)), PVar(ANumber)}
      pair == {PVar(AnObject), PVar(Union(<<APromise, AnUndefined>>))}
      unary == {"finally", "void", "await"}
      Under(ops, operands) == [op : ops, args : operands, type : {NoType}, handler : {NoType}]
      one == [op : {"then", "catch"}, args : Alone(few), type : {NoType}, handler : handlers]
             \cup Under(unary, Alone(all))
             \cup Under({"&&", "||", ",", "="}, few \X all)
             \cup Under({"?:"}, {PVar(AnObject)} \X all \X few)
      two == Under(unary, Alone(one)) \cup Under({"&&", "||", ","}, one \X pair)
             \cup Under({"&&", "||", ",", "="}, pair \X one)
  IN  all \cup one \cup two

MCFloatingOptions == {{"ignoreVoid"}, {}, {"ignoreVoid", "checkThenables"}}

-----------------------------------------------------------------------------
(* Calls of up to two parameters, the last maybe a rest parameter, with up to *)
(* three arguments that may be spread; values that hold `any` at some depth.  *)
Spread(type, open) == [spread |-> TRUE, type |-> type, open |-> open, bare |-> FALSE]
Given(type) == [spread |-> FALSE, type |-> type, open |-> FALSE, bare |-> FALSE]

MCCalls ==
  LET any == Plain("Any")
      tuple(s) == Generic("Tuple", s)
      params == {<<>>, <<AString>>, <<any>>, <<AString, ANumber>>}
      rests == {Generic("Array", <<ANumber>>), tuple(<<ANumber, AString>>), Parameter(<<Generic("Array", <<any>>)>>)}
      signatures == [params : params, rest : {FALSE}]
                    \cup [params : {Append(p, r) : p \in params \ {<<any>>}, r \in rests}, rest : {TRUE}]
      args == {Given(any), Given(AString), Spread(tuple(<<any>>), FALSE), Spread(tuple(<<AString, any>>), FALSE),
               Spread(tuple(<<>>), FALSE), Spread(tuple(<<AString, any>>), TRUE), Spread(Generic("Array", <<AString>>), FALSE)}
      lists == UNION {[1..n -> args] : n \in 1..3}
  IN  {c \in {[params |-> s.params, rest |-> s.rest, args |-> a] : s \in signatures, a \in lists} : IsCall(c)}

MCValues ==
  LET over(name) == {Generic(name, <<t>>) : t \in {Plain("Any"), AString}}
  IN  {Plain("Any"), Plain("Unknown"), AString, Generic("Array", <<Plain("Unknown")>>)}
      \cup over("Array") \cup over("Set") \cup {Generic("Set", <<t>>) : t \in over("Array")}
MCReturns ==
  LET promised == {Generic("Promise", <<v>>) : v \in MCValues}
      either(a, b) == Union(<<a, b>>)
      all == MCValues \cup promised
             \cup {either(Generic("Promise", <<Plain("Any")>>), t) : t \in {Plain("Null"), Generic("Thenable", <<Plain("Any")>>)}}
             \cup {either(Generic("Promise", <<Generic("Set", <<Plain("Any")>>)>>), Generic("Set", <<Plain("Any")>>)),
                   Generic("Promise", <<Generic("Promise", <<Generic("Set", <<Plain("Any")>>)>>)>>),
                   Parameter(<<Generic("Promise", <<Plain("Any")>>)>>)}
      map(t) == Generic("Map", <<AString, t>>)
      anyMap == Generic("Map", <<Plain("Any"), Plain("Any")>>)
      maps == {anyMap, map(AString), map(Plain("Any")), map(map(Plain("Any"))), Plain("Any"), AString}
  IN  [sender : all, declared : all, annotated : BOOLEAN, async : {FALSE}, bare : {FALSE}]
      \cup [sender : all, declared : promised, annotated : BOOLEAN, async : {TRUE}, bare : {FALSE}]
      \cup [sender : maps, declared : maps, annotated : BOOLEAN, async : {FALSE}, bare : BOOLEAN]
      \cup [sender : {anyMap}, declared : {Generic("Promise", <<m>>) : m \in maps}, annotated : BOOLEAN, async : {TRUE},
             bare : BOOLEAN]

MCChains == [object : {Plain("Any"), AString}, optional : [1..1 -> BOOLEAN] \cup [1..3 -> BOOLEAN]]

MCAssertions ==
  LET null == Union(<<AString, Plain("Null")>>)
      types == {AString, Plain("Any"), Plain("Unknown"), Plain("Null"), null, Union(<<AString, AnUndefined>>),
                Union(<<AString, Plain("Void")>>), Union(<<AnUndefined, Plain("Null")>>),
                Parameter(<<>>), Parameter(<<AString>>), Parameter(<<null>>)}
  IN  [operand : types, context : types \cup {NoType}, target : BOOLEAN, unassigned : BOOLEAN, strict : BOOLEAN]
=============================================================================
