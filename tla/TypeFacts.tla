------------------------------ MODULE TypeFacts ------------------------------
(* The type questions the typed rules ask (types/type_facts.cc), over rows of *)
(* the interned graph, and what a type means: the values an expression of it *)
(* may have. A row keeps its flags, the text of a literal, the members of a  *)
(* union or intersection, the declaration an object refers to with its       *)
(* arguments, and the constraint of a type parameter (none or one).          *)
EXTENDS Integers, Sequences, FiniteSets

CONSTANT Nesting   \* how deep a type may nest: the walks stop at depth 8
ASSUME NestingAssumption == Nesting \in 1..9

Type(flags, text, parts, of, args, bound) ==
  [flags |-> flags, text |-> text, parts |-> parts, of |-> of, args |-> args, bound |-> bound]

Plain(flag) == Type({flag}, "", <<>>, "", <<>>, <<>>)
Literal(flag, text) == Type({flag}, text, <<>>, "", <<>>, <<>>)
Union(parts) == Type({"Union"}, "", parts, "", <<>>, <<>>)
Intersection(parts) == Type({"Intersection"}, "", parts, "", <<>>, <<>>)
Object(of) == Type({"Object"}, "", <<>>, of, <<>>, <<>>)
Generic(of, args) == Type({"Object"}, "", <<>>, of, args, <<>>)
Parameter(bound) == Type({"TypeParameter"}, "", <<>>, "", <<>>, bound)

NoType == Type({}, "", <<>>, "", <<>>, <<>>)

PlainFlags == {"Any", "Unknown", "Never", "Undefined", "Void", "Null", "String", "Number", "BigInt"}
LiteralFlags == {"StringLiteral", "NumberLiteral", "BooleanLiteral"}
isAny(t) == "Any" \in t.flags
isUnknown(t) == "Unknown" \in t.flags
isAnyLike(t) == isAny(t) \/ isUnknown(t)

Row(flags, texts, partLists, names, argLists, bounds) ==
  [flags : {{f} : f \in flags}, text : texts, parts : partLists, of : names, args : argLists, bound : bounds]

(* The rows over a set of rows. The members of a union or an intersection are *)
(* no unions and not any or unknown, which would swallow the others; an array *)
(* has one argument.                                                         *)
RowsOver(S) ==
  LET empty == {<<>>}
      one == [1..1 -> S]
      members == {t \in S : ~isAnyLike(t) /\ "Union" \notin t.flags}
  IN  Row(PlainFlags, {""}, empty, {""}, empty, empty)
      \cup Row(LiteralFlags, STRING, empty, {""}, empty, empty)
      \cup Row({"Union", "Intersection"}, {""}, Seq(members) \ empty, {""}, empty, empty)
      \cup Row({"Object"}, {""}, empty, STRING \ {"", "Array"}, Seq(S), empty)
      \cup Row({"Object"}, {""}, empty, {"Array"}, one, empty)
      \cup Row({"TypeParameter"}, {""}, empty, {""}, empty, one \cup empty)

(* The types: rows nested no deeper than the walks over them go. *)
Rows[n \in 0..Nesting] == IF n = 0 THEN {} ELSE RowsOver(Rows[n - 1])
Types == Rows[Nesting]
MaybeType == Types \cup {NoType}

-----------------------------------------------------------------------------
(* Values: one of each that the rules tell apart.                            *)

Nullish == {"undefined", "null"}
Falsy == Nullish \cup {"false", "''", "0", "0n"}
Promises == {"promise"}   \* a promise that may be rejected
Objects == {"object", "function", "array", "thenable"} \cup Promises
Primitives == {"true", "false", "''", "'a'", "0", "1", "0n", "1n"}
Values == Nullish \cup Objects \cup Primitives
Truthy == Values \ Falsy

(* What the checker's flags stand for. *)
OfFlag(flag) ==
  CASE flag = "Undefined" -> {"undefined"}
    [] flag = "Void" -> {"undefined"}
    [] flag = "Null" -> {"null"}
    [] flag = "String" -> {"''", "'a'"}
    [] flag = "Number" -> {"0", "1"}
    [] flag = "BigInt" -> {"0n", "1n"}
    [] flag = "Never" -> {}
    [] OTHER -> Values

OfLiteral(t) ==
  CASE "StringLiteral" \in t.flags -> IF t.text = "" THEN {"''"} ELSE {"'a'"}
    [] "NumberLiteral" \in t.flags -> IF t.text \in {"0", "-0"} THEN {"0"} ELSE {"1"}
    [] "BooleanLiteral" \in t.flags -> {t.text}

(* A brand adds a property to a primitive: as a type it excludes only null    *)
(* and undefined.                                                            *)
OfDeclaration(of) ==
  CASE of = "brand" -> Values \ Nullish
    [] of \in {"Promise", "OwnPromise"} -> Promises
    [] of = "Thenable" -> {"thenable"}
    [] of = "function" -> {"function"}
    [] of \in {"Array", "Tuple"} -> {"array"}
    [] OTHER -> Objects

ValuesOf[t \in Types] ==
  CASE "Union" \in t.flags -> UNION {ValuesOf[t.parts[i]] : i \in DOMAIN t.parts}
    [] "Intersection" \in t.flags ->
         {v \in Values : \A i \in DOMAIN t.parts : v \in ValuesOf[t.parts[i]]}
    [] "TypeParameter" \in t.flags ->
         IF t.bound = <<>> THEN Values ELSE ValuesOf[t.bound[1]]
    [] "Object" \in t.flags -> OfDeclaration(t.of)
    [] t.flags \cap LiteralFlags # {} -> OfLiteral(t)
    [] OTHER -> OfFlag(CHOOSE f \in t.flags : TRUE)

-----------------------------------------------------------------------------
(* Questions.                                                                *)

SeqElements(s) == {s[i] : i \in DOMAIN s}

isTypeParameter(t) == "TypeParameter" \in t.flags
isArray(t) == t.of = "Array"
isTuple(t) == t.of = "Tuple"

NullishFlags == {"Undefined", "Null", "Void"}

isNullable(t) ==
  \/ t.flags \cap NullishFlags # {}
  \/ "Union" \in t.flags /\ \E m \in SeqElements(t.parts) : m.flags \cap NullishFlags # {}

(* Members of a union and of an intersection alike. *)
unionMembers(t) == t.parts
typeArguments(t) == t.args
constraintOf(t) == IF isTypeParameter(t) /\ t.bound # <<>> THEN t.bound[1] ELSE NoType
(* A parameter without a constraint is its own apparent type here. *)
apparentType(t) == IF constraintOf(t) # NoType THEN constraintOf(t) ELSE t

(* Every caller splits the members off, and takes a type without any whole.  *)
Parts(t) == IF unionMembers(t) = <<>> THEN {t} ELSE SeqElements(unionMembers(t))

(* Calls of the server: whether a type has a `then` that takes so many        *)
(* callbacks, whether it has call signatures, what a class of the project    *)
(* extends, and which names the default library declares. A type parameter   *)
(* is never asked about.                                                     *)
HasThen[t \in Types] == [callbacks \in 1..2 |->
  CASE "Intersection" \in t.flags -> \E m \in SeqElements(t.parts) : HasThen[m][callbacks]
    [] "Union" \in t.flags -> \A m \in SeqElements(t.parts) : HasThen[m][callbacks]
    [] OTHER -> t.of \in {"Promise", "OwnPromise"} \/ (t.of = "Thenable" /\ callbacks <= 1)]
hasCallSignature(t) ==
  \/ t.of = "function"
  \/ "Intersection" \in t.flags /\ \E m \in SeqElements(t.parts) : m.of = "function"
baseTypesOf(t) == IF t.of = "OwnPromise" THEN {Generic("Promise", t.args)} ELSE {}
isDefaultLibrary(of) == of \in {"Promise", "Array", "Function"}

isThenable(t, callbacks) == \E m \in Parts(apparentType(t)) : HasThen[m][callbacks]
isCallable(t) == \E m \in Parts(apparentType(t)) : hasCallSignature(m)

(* The default library's type of that name, or one that must be one: every    *)
(* member of a union, some member of an intersection.                        *)
isBuiltin[t \in MaybeType, name \in {"Promise"}] ==
  CASE t = NoType -> FALSE
    [] "Intersection" \in t.flags -> \E m \in SeqElements(t.parts) : isBuiltin[m, name]
    [] "Union" \in t.flags -> \A m \in SeqElements(t.parts) : isBuiltin[m, name]
    [] isTypeParameter(t) -> isBuiltin[constraintOf(t), name]
    [] OTHER -> \/ t.of = name /\ isDefaultLibrary(name)
                \/ \E base \in baseTypesOf(t) : isBuiltin[base, name]

(* What `then` hands to its callback, of the first part that has a `then`.     *)
thenValueType(t) ==
  LET apparent == apparentType(t)
      parts == IF unionMembers(apparent) = <<>> THEN <<apparent>> ELSE unionMembers(apparent)
      having == {i \in DOMAIN parts : HasThen[parts[i]][1] /\ parts[i].args # <<>>}
  IN  IF having = {} THEN NoType
      ELSE parts[CHOOSE i \in having : \A j \in having : i <= j].args[1]

(* What `await` yields: nothing for a union of promises and other members.    *)
awaitedType[t \in MaybeType] ==
  IF t = NoType \/ isAnyLike(t) THEN t
  ELSE IF "Union" \in t.flags
  THEN LET awaited == {awaitedType[m] : m \in SeqElements(t.parts)}
       IN  IF Cardinality(awaited) = 1 THEN CHOOSE a \in awaited : TRUE ELSE NoType
  ELSE IF isThenable(t, 1) THEN awaitedType[thenValueType(t)] ELSE t
=============================================================================
