------------------------------ MODULE AstPrinter ------------------------------
(* The parentheses a node needs in a slot (ast/precedence.cc) and the tokens   *)
(* its template prints (ast/printer.cc), with semicolons. Decorators and JSX   *)
(* are left out.                                                              *)
EXTENDS SyntaxTree

Types == {"TypeReference", "KeywordType", "ThisType", "ArrayType", "IndexedAccessType", "UnionType",
          "IntersectionType", "FunctionType", "ConstructorType", "ConditionalType", "InferType",
          "TypeOperator", "TupleType", "NamedTupleMember", "OptionalType", "RestType", "MappedType",
          "TypeLiteral", "TypeQuery", "TypePredicate", "LiteralType", "TemplateType", "ImportType"}

Expressions ==
  {"Identifier", "Literal", "Template", "Tagged", "This", "Super", "Array", "Object", "Member", "Call",
   "New", "Import", "MetaProperty", "Unary", "Update", "Binary", "Logical", "Assignment", "Conditional",
   "Sequence", "Await", "Yield", "Arrow", "Function", "Class", "As", "Satisfies", "NonNull",
   "Assertion", "Instantiation"}

-----------------------------------------------------------------------------
(* ast/precedence.cc.                                                        *)

kSequence == 1
kAssignment == 2
kConditional == 3
kUnary == 15
kPostfix == 16
kNewWithoutArgs == 17
kCall == 18
kPrimary == 19

operatorLevel(op) ==
  CASE op = "??" -> 4 [] op = "||" -> 4 [] op = "&&" -> 5 [] op = "|" -> 6 [] op = "^" -> 7 [] op = "&" -> 8
    [] op \in {"==", "!=", "===", "!=="} -> 9
    [] op \in {"<", "<=", ">", ">=", "in", "instanceof"} -> 10
    [] op \in {"<<", ">>", ">>>"} -> 11 [] op \in {"+", "-"} -> 12 [] op \in {"*", "/", "%"} -> 13
    [] op = "**" -> 14

isBinaryLike(n) == n.kind \in {"Binary", "Logical"}
isNullish(n) == n.kind = "Logical" /\ n.op = "??"
isOrAnd(n) == n.kind = "Logical" /\ n.op # "??"
isBareInteger(n) == n.kind = "Literal" /\ n.op = "1"
isNewWithoutArgs(n) == n.kind = "New" /\ Len(n.kids) = 2

isSignUnary(n) == (n.kind = "Unary" /\ n.op \in {"-", "+"}) \/ (n.kind = "Update" /\ Has(n, "prefix"))
leadingSign(n) == IF n.op \in {"-", "--"} THEN "-" ELSE "+"

LeftFirst == {"Member", "Call", "Tagged", "Binary", "Logical", "Assignment", "Conditional", "Sequence", "As",
              "Satisfies", "NonNull", "Instantiation"}

(* Whether the printed form of n starts with the token that opens `kind`.     *)
RECURSIVE startsWith(_, _)
startsWith(n, kind) ==
  \/ n.kind = kind
  \/ /\ ~Has(n, "paren") /\ n.kids # <<>>
     /\ n.kind \in LeftFirst \/ (n.kind = "Update" /\ ~Has(n, "prefix"))
     /\ startsWith(n.kids[1], kind)

expressionPrecedence(n) ==
  CASE n.kind = "Sequence" -> kSequence
    [] n.kind \in {"Assignment", "Arrow", "Yield"} -> kAssignment
    [] n.kind = "Conditional" -> kConditional
    [] isBinaryLike(n) -> operatorLevel(n.op)
    [] n.kind \in {"Unary", "Await", "Assertion"} -> kUnary
    [] n.kind = "Update" -> IF Has(n, "prefix") THEN kUnary ELSE kPostfix
    [] n.kind = "NonNull" -> kPostfix
    [] n.kind \in {"As", "Satisfies"} -> 10
    [] n.kind = "New" -> IF isNewWithoutArgs(n) THEN kNewWithoutArgs ELSE kCall
    [] n.kind \in {"Call", "Member", "Tagged", "Instantiation", "Import"} -> kCall
    [] OTHER -> kPrimary

kTypeFunction == 2
kTypeUnion == 3
kTypeIntersection == 4
kTypeOperator == 5
kTypePostfix == 6

typePrecedence(n) ==
  CASE n.kind = "ConditionalType" -> 1
    [] n.kind \in {"FunctionType", "ConstructorType"} -> kTypeFunction
    [] n.kind = "UnionType" -> kTypeUnion
    [] n.kind = "IntersectionType" -> kTypeIntersection
    [] n.kind \in {"TypeOperator", "InferType"} -> kTypeOperator
    [] n.kind \in {"ArrayType", "IndexedAccessType", "OptionalType"} -> kTypePostfix
    [] OTHER -> 7

typeNeedsParens(parent, i, child) ==
  LET c == typePrecedence(child)
  IN  CASE parent.kind \in {"ArrayType", "OptionalType"} -> c < kTypePostfix
        [] parent.kind = "IndexedAccessType" -> i = 1 /\ c < kTypePostfix
        [] parent.kind = "UnionType" -> c < kTypeUnion
        [] parent.kind = "IntersectionType" -> c < kTypeIntersection
        [] parent.kind \in {"TypeOperator", "RestType"} -> c < kTypeOperator
        [] parent.kind = "ConditionalType" -> i <= 2 /\ c <= kTypeFunction
        [] OTHER -> FALSE

(* As operandNeedsParens, but the right operand may be of the same level. *)
operandNeedsParensBelow(parent, i, child) ==
  LET c == expressionPrecedence(child)
  IN  \/ (isNullish(parent) /\ isOrAnd(child)) \/ (isOrAnd(parent) /\ isNullish(child))
      \/ i = 1 /\ parent.op = "**" /\ c = kUnary
      \/ c < operatorLevel(parent.op)

operandNeedsParens(parent, i, child) ==
  LET c == expressionPrecedence(child)
      p == operatorLevel(parent.op)
      exponent == parent.op = "**"
      tighter == IF (i = 1) = exponent THEN c <= p ELSE c < p
  IN  \/ (isNullish(parent) /\ isOrAnd(child)) \/ (isOrAnd(parent) /\ isNullish(child))
      \/ i = 1 /\ exponent /\ c = kUnary
      \/ tighter

(* The slots that take any expression but a bare comma list.                  *)
NoComma == {"Array", "Object", "Property", "Spread", "Declarator", "Assignment", "AssignmentPattern", "Return",
            "Throw", "Yield", "Template", "Import", "PropertyDefinition", "EnumMember", "Sequence", "ExportDefault"}

expressionNeedsParens(parent, i, child) ==
  LET c == expressionPrecedence(child)
      comma == c <= kSequence
  IN  CASE isBinaryLike(parent) -> operandNeedsParens(parent, i, child)
        [] parent.kind \in {"Unary", "Await", "Assertion"} ->
             \/ /\ parent.kind = "Unary" /\ isSignUnary(parent) /\ isSignUnary(child)
                /\ leadingSign(parent) = leadingSign(child)
             \/ c < kUnary
        [] parent.kind = "Update" -> c < kCall
        [] parent.kind = "Member" -> i = 1 /\ (c < kCall \/ isBareInteger(child))
        [] parent.kind \in {"Call", "Tagged", "Instantiation"} -> IF i = 1 THEN c < kCall ELSE comma
        [] parent.kind = "NonNull" -> c < kPostfix
        [] parent.kind = "New" -> IF i = 1 THEN c < kCall \/ startsWith(child, "Call") ELSE comma
        [] parent.kind = "Conditional" -> IF i = 1 THEN c <= kConditional ELSE c < kAssignment
        [] parent.kind \in {"As", "Satisfies"} -> c < 10
        [] parent.kind = "ExpressionStatement" ->
             ~comma /\ \E kind \in {"Object", "Function", "Class"} : startsWith(child, kind)
        [] parent.kind = "Arrow" -> i = 3 /\ (comma \/ startsWith(child, "Object"))
        [] parent.kind \in {"ForIn", "ForOf"} -> i = 2 /\ comma
        [] parent.kind \in NoComma -> comma
        [] OTHER -> FALSE

needsParens(parent, i, child) ==
  \/ child.kind \in Types /\ typeNeedsParens(parent, i, child)
  \/ child.kind \in Expressions /\ expressionNeedsParens(parent, i, child)

-----------------------------------------------------------------------------
(* ast/printer.cc: helpers.                                                  *)

RECURSIVE print(_)

list(nodes, separator) ==
  FlattenSeq([i \in DOMAIN nodes |-> (IF i = 1 THEN <<>> ELSE separator) \o print(nodes[i])])
ended(nodes, terminator) == FlattenSeq([i \in DOMAIN nodes |-> Append(print(nodes[i]), terminator)])

optional(prefix, n) == IF Absent(n) THEN <<>> ELSE prefix \o print(n)
bracedStatements(nodes) == <<"{">> \o list(nodes, <<>>) \o <<"}">>
Flag(n, flag) == IF Has(n, flag) THEN <<flag>> ELSE <<>>
Mark(n, flag, token) == IF Has(n, flag) THEN <<token>> ELSE <<>>
Name(op) == IF op = "" THEN <<>> ELSE <<op>>
key(n) == IF Has(n, "computed") THEN <<"[">> \o print(n.kids[1]) \o <<"]">> ELSE print(n.kids[1])
accessor(n) == IF n.op \in {"get", "set"} THEN <<n.op>> ELSE <<>>
params(nodes) == <<"(">> \o list(nodes, <<",">>) \o <<")">>

functionTail(fn) ==
  print(fn.kids[1]) \o params(From(fn.kids, 4)) \o optional(<<":">>, fn.kids[2])
  \o (IF Absent(fn.kids[3]) THEN <<";">> ELSE print(fn.kids[3]))

functionHead(n) == Flag(n, "async") \o <<"function">> \o Mark(n, "generator", "*") \o Name(n.op)

classLike(n) ==
  LET k == n.kids
      implements == From(k, 5)
  IN  Flag(n, "declare") \o Flag(n, "abstract") \o <<"class">> \o Name(n.op) \o print(k[1])
      \o optional(<<"extends">>, k[2]) \o print(k[3])
      \o (IF implements = <<>> THEN <<>> ELSE <<"implements">> \o list(implements, <<",">>)) \o print(k[4])

(* The first data byte as an accessibility, then the flags. A method's first   *)
(* byte is its kind, so a method prints `public`, a getter `private` and a    *)
(* setter `protected`, whatever it was declared as.                           *)
accessibilityText(n) ==
  CASE n.kind = "PropertyDefinition" -> Flag(n, "public") \o Flag(n, "private") \o Flag(n, "protected")
    [] n.op = "get" -> <<"private">> [] n.op = "set" -> <<"protected">> [] n.op = "constructor" -> <<>>
    [] OTHER -> <<"public">>

memberModifiers(n) ==
  accessibilityText(n) \o Flag(n, "declare") \o Flag(n, "static") \o Flag(n, "abstract") \o Flag(n, "override")
  \o Flag(n, "readonly")

(* A method's modifiers, key and the function that is its value.              *)
method(n, fn) ==
  Flag(fn, "async") \o accessor(n) \o Mark(fn, "generator", "*") \o key(n) \o Mark(n, "optional", "?")
  \o functionTail(fn)

methodDefinition(n) == memberModifiers(n) \o method(n, n.kids[2])

propertyDefinition(n) ==
  memberModifiers(n) \o Flag(n, "accessor") \o key(n)
  \o (IF Has(n, "optional") THEN <<"?">> ELSE Mark(n, "definite", "!"))
  \o optional(<<":">>, n.kids[2]) \o optional(<<"=">>, n.kids[3]) \o <<";">>

variableDeclaration(n) == Flag(n, "declare") \o <<n.op>> \o list(n.kids, <<",">>)
loopHead(n) == IF n.kind = "Variable" THEN variableDeclaration(n) ELSE print(n)

templateParts(parts) ==
  IF parts = <<>> THEN <<"quasi">>
  ELSE FlattenSeq([i \in DOMAIN parts |-> <<IF i = 1 THEN "head" ELSE "middle">> \o print(parts[i])]) \o <<"tail">>

mappedType(n) ==
  LET sign(m) == IF Has(n, "plus " \o m) THEN <<"+", m>> ELSE IF Has(n, "minus " \o m) THEN <<"-", m>> ELSE <<>>
  IN  <<"{">> \o sign("readonly") \o <<"[", n.kids[1].op>> \o optional(<<"in">>, n.kids[1].kids[1])
      \o optional(<<"as">>, n.kids[2]) \o <<"]">> \o sign("?") \o optional(<<":">>, n.kids[3]) \o <<"}">>

signature(k) == print(k[1]) \o params(From(k, 3))

-----------------------------------------------------------------------------
(* printTemplateBody, one operator per group of kinds.                       *)

nameTemplate(n) ==
  CASE n.kind = "Identifier" -> <<n.op>> \o Mark(n, "optional", "?") \o optional(<<":">>, n.kids[1])
    [] n.kind \in {"PrivateIdentifier", "Literal"} -> <<n.op>>
    [] n.kind \in {"Template", "TemplateType"} -> templateParts(n.kids)
    [] n.kind = "Tagged" -> list(n.kids, <<>>)
    [] n.kind \in {"This", "ThisType"} -> <<"this">>
    [] n.kind = "Super" -> <<"super">>

propertyTemplate(n) ==
  CASE n.op \in {"get", "set"} \/ Has(n, "method") -> method(n, n.kids[2])
    [] Has(n, "shorthand") -> print(n.kids[2])
    [] OTHER -> key(n) \o <<":">> \o print(n.kids[2])

expressionTemplate(n) ==
  LET k == n.kids
  IN  CASE n.kind = "Array" -> <<"[">> \o list(k, <<",">>) \o <<"]">>
        [] n.kind = "Object" -> <<"{">> \o list(k, <<",">>) \o <<"}">>
        [] n.kind = "Property" -> propertyTemplate(n)
        [] n.kind = "Spread" -> <<"...">> \o print(k[1])
        [] n.kind = "Member" ->
             print(k[1])
             \o (IF Has(n, "optional") THEN <<"?.">> ELSE IF Has(n, "computed") THEN <<>> ELSE <<".">>)
             \o (IF Has(n, "computed") THEN <<"[">> \o print(k[2]) \o <<"]">> ELSE print(k[2]))
        [] n.kind = "Call" -> print(k[1]) \o Mark(n, "optional", "?.") \o print(k[2]) \o params(From(k, 3))
        [] n.kind = "New" -> <<"new">> \o print(k[1]) \o print(k[2]) \o params(From(k, 3))
        [] n.kind = "Import" -> <<"import", "(">> \o print(k[1]) \o optional(<<",">>, k[2]) \o <<")">>
        [] n.kind = "MetaProperty" -> list(k, <<".">>)
        [] n.kind = "Conditional" -> print(k[1]) \o <<"?">> \o print(k[2]) \o <<":">> \o print(k[3])
        [] n.kind = "Sequence" -> list(k, <<",">>)

operatorTemplate(n) ==
  LET k == n.kids
  IN  CASE n.kind = "Unary" -> <<n.op>> \o print(k[1])
        [] n.kind = "Update" -> IF Has(n, "prefix") THEN <<n.op>> \o print(k[1]) ELSE Append(print(k[1]), n.op)
        [] n.kind \in {"Binary", "Logical", "Assignment"} -> list(k, <<n.op>>)
        [] n.kind = "AssignmentPattern" -> list(k, <<"=">>)
        [] n.kind = "Await" -> <<"await">> \o print(k[1])
        [] n.kind = "Yield" -> <<"yield">> \o Mark(n, "delegate", "*") \o print(k[1])

functionTemplate(n) ==
  LET k == n.kids
  IN  CASE n.kind = "Arrow" ->
             Flag(n, "async") \o print(k[1]) \o params(From(k, 4)) \o optional(<<":">>, k[2]) \o <<"=>">> \o print(k[3])
        [] n.kind \in {"Function", "FunctionDeclaration"} -> Flag(n, "declare") \o functionHead(n) \o functionTail(n)
        [] n.kind \in {"Class", "ClassDeclaration"} -> classLike(n)
        [] n.kind = "ClassBody" -> bracedStatements(k)
        [] n.kind = "MethodDefinition" -> methodDefinition(n)
        [] n.kind = "PropertyDefinition" -> propertyDefinition(n)
        [] n.kind = "StaticBlock" -> <<"static">> \o bracedStatements(k)
        [] n.kind = "ParameterProperty" ->
             Flag(n, "public") \o Flag(n, "private") \o Flag(n, "protected") \o Flag(n, "override")
             \o Flag(n, "readonly") \o print(k[1])

bindingTemplate(n) ==
  LET k == n.kids
  IN  CASE n.kind = "Variable" -> Append(variableDeclaration(n), ";")
        [] n.kind = "Declarator" -> print(k[1]) \o Mark(n, "definite", "!") \o optional(<<"=">>, k[2])
        [] n.kind = "ObjectPattern" -> <<"{">> \o list(Tail(k), <<",">>) \o <<"}">> \o optional(<<":">>, k[1])
        [] n.kind = "ArrayPattern" -> <<"[">> \o list(Tail(k), <<",">>) \o <<"]">> \o optional(<<":">>, k[1])
        [] n.kind = "RestElement" -> <<"...">> \o print(k[1]) \o optional(<<":">>, k[2])

statementTemplate(n) ==
  LET k == n.kids
      Keyed(keyword, e) == <<keyword, "(">> \o print(e) \o <<")">>
  IN  CASE n.kind = "ExpressionStatement" -> Append(print(k[1]), ";")
        [] n.kind = "Block" -> bracedStatements(k)
        [] n.kind = "Empty" -> <<";">>
        [] n.kind = "Debugger" -> <<"debugger", ";">>
        [] n.kind = "If" -> Keyed("if", k[1]) \o print(k[2]) \o optional(<<"else">>, k[3])
        [] n.kind = "For" ->
             <<"for", "(">> \o loopHead(k[1]) \o <<";">> \o print(k[2]) \o <<";">> \o print(k[3]) \o <<")">>
             \o print(k[4])
        [] n.kind \in {"ForIn", "ForOf"} ->
             <<"for">> \o Flag(n, "await") \o <<"(">> \o loopHead(k[1])
             \o <<IF n.kind = "ForIn" THEN "in" ELSE "of">> \o print(k[2]) \o <<")">> \o print(k[3])
        [] n.kind \in {"While", "With"} -> Keyed(IF n.kind = "While" THEN "while" ELSE "with", k[1]) \o print(k[2])
        [] n.kind = "DoWhile" -> <<"do">> \o print(k[1]) \o Keyed("while", k[2]) \o <<";">>
        [] n.kind \in {"Return", "Throw", "Break", "Continue"} -> Append(<<n.op>> \o print(k[1]), ";")
        [] n.kind = "Labeled" -> list(k, <<":">>)
        [] n.kind = "Switch" -> Keyed("switch", k[1]) \o bracedStatements(Tail(k))
        [] n.kind = "Case" ->
             (IF Absent(k[1]) THEN <<"default">> ELSE <<"case">> \o print(k[1])) \o <<":">> \o list(Tail(k), <<>>)
        [] n.kind = "Try" -> <<"try">> \o print(k[1]) \o print(k[2]) \o optional(<<"finally">>, k[3])
        [] n.kind = "Catch" ->
             <<"catch">> \o (IF Absent(k[1]) THEN <<>> ELSE <<"(">> \o print(k[1]) \o <<")">>) \o print(k[2])

(* The braces open before the first named import and close after the last.     *)
importClause(specs) ==
  LET named == {i \in DOMAIN specs : specs[i].kind = "ImportSpecifier"}
      Before(i) == (IF i = 1 THEN <<>> ELSE <<",">>) \o (IF i \in named /\ \A j \in named : i <= j THEN <<"{">> ELSE <<>>)
  IN  FlattenSeq([i \in DOMAIN specs |-> Before(i) \o print(specs[i])])
      \o (IF named = {} THEN <<>> ELSE <<"}">>) \o (IF specs = <<>> THEN <<>> ELSE <<"from">>)

moduleTemplate(n) ==
  LET k == n.kids
      renamed == IF k[1].op = k[2].op THEN <<>> ELSE <<"as">> \o print(k[2])
  IN  CASE n.kind = "ImportDeclaration" -> <<"import">> \o Flag(n, "type") \o importClause(k) \o <<"str", ";">>
        [] n.kind \in {"ImportSpecifier", "ExportSpecifier"} -> Flag(n, "type") \o print(k[1]) \o renamed
        [] n.kind = "ImportDefaultSpecifier" -> print(k[1])
        [] n.kind = "ImportNamespaceSpecifier" -> <<"*", "as">> \o print(k[1])
        [] n.kind = "ExportNamed" ->
             <<"export">> \o Flag(n, "type")
             \o (IF ~Absent(k[1]) THEN print(k[1])
                 ELSE <<"{">> \o list(From(k, 3), <<",">>) \o <<"}">> \o optional(<<"from">>, k[2]) \o <<";">>)
        [] n.kind = "ExportDefault" ->
             <<"export", "default">> \o print(k[1])
             \o (IF k[1].kind \in Expressions \ {"Function", "Class"} THEN <<";">> ELSE <<>>)
        [] n.kind = "ExportAll" ->
             <<"export">> \o Flag(n, "type") \o <<"*">> \o optional(<<"as">>, k[1]) \o <<"from", "str", ";">>

castTemplate(n) ==
  LET k == n.kids
  IN  CASE n.kind = "As" -> list(k, <<"as">>)
        [] n.kind = "Satisfies" -> list(k, <<"satisfies">>)
        [] n.kind = "NonNull" -> Append(print(k[1]), "!")
        [] n.kind = "Assertion" -> <<"<">> \o print(k[1]) \o <<">">> \o print(k[2])
        [] n.kind = "Instantiation" -> list(k, <<>>)
        [] n.kind \in {"TypeParameters", "TypeArguments"} -> <<"<">> \o list(k, <<",">>) \o <<">">>
        [] n.kind = "TypeParameter" ->
             Flag(n, "const") \o Flag(n, "in") \o Flag(n, "out") \o <<n.op>>
             \o optional(<<"extends">>, k[1]) \o optional(<<"=">>, k[2])

declarationTemplate(n) ==
  LET k == n.kids
  IN  CASE n.kind = "Interface" ->
             Flag(n, "declare") \o <<"interface", n.op>> \o print(k[1])
             \o (IF Len(k) > 2 THEN <<"extends">> \o list(From(k, 3), <<",">>) ELSE <<>>) \o print(k[2])
        [] n.kind = "InterfaceBody" -> <<"{">> \o ended(k, ";") \o <<"}">>
        [] n.kind \in {"InterfaceHeritage", "ClassImplements"} -> list(k, <<>>)
        [] n.kind = "TypeAlias" ->
             Flag(n, "declare") \o <<"type", n.op>> \o print(k[1]) \o <<"=">> \o print(k[2]) \o <<";">>
        [] n.kind = "Enum" -> Flag(n, "declare") \o Flag(n, "const") \o <<"enum", n.op, "{">> \o ended(k, ",") \o <<"}">>
        [] n.kind = "EnumMember" -> key(n) \o optional(<<"=">>, k[2])
        [] n.kind = "Module" ->
             Flag(n, "declare") \o (IF n.op = "global" THEN <<>> ELSE <<n.op>>) \o print(k[1])
             \o (IF Absent(k[2]) THEN <<";">> ELSE print(k[2]))
        [] n.kind = "ModuleBlock" -> bracedStatements(k)
        [] n.kind = "ImportEquals" -> <<"import">> \o Flag(n, "type") \o <<n.op, "=">> \o print(k[1]) \o <<";">>
        [] n.kind = "ExternalModule" -> <<"require", "(", "str", ")">>
        [] n.kind = "ExportAssignment" -> <<"export", "=">> \o print(k[1]) \o <<";">>
        [] n.kind = "NamespaceExport" -> <<"export", "as", "namespace", n.op, ";">>

typeTemplate(n) ==
  LET k == n.kids
      wrap == /\ ~Has(k[1], "paren")
              /\ k[1].kind \in {"UnionType", "IntersectionType", "FunctionType", "ConstructorType",
                                "ConditionalType", "TypeOperator", "InferType"}
      open == IF wrap THEN <<"(">> ELSE <<>>
      close == IF wrap THEN <<")">> ELSE <<>>
  IN  CASE n.kind = "KeywordType" -> <<n.op>>
        [] n.kind = "TypeReference" -> list(k, <<>>)
        [] n.kind = "QualifiedName" -> list(k, <<".">>)
        [] n.kind = "UnionType" -> list(k, <<"|">>)
        [] n.kind = "IntersectionType" -> list(k, <<"&">>)
        [] n.kind = "FunctionType" -> signature(k) \o <<"=>">> \o print(k[2])
        [] n.kind = "ConstructorType" -> Flag(n, "abstract") \o <<"new">> \o signature(k) \o <<"=>">> \o print(k[2])
        [] n.kind = "ConditionalType" ->
             print(k[1]) \o <<"extends">> \o print(k[2]) \o <<"?">> \o print(k[3]) \o <<":">> \o print(k[4])
        [] n.kind = "InferType" -> <<"infer">> \o print(k[1])
        [] n.kind = "MappedType" -> mappedType(n)
        [] n.kind = "IndexedAccessType" -> print(k[1]) \o <<"[">> \o print(k[2]) \o <<"]">>
        [] n.kind = "TypeLiteral" -> <<"{">> \o list(k, <<";">>) \o <<"}">>
        [] n.kind = "ArrayType" -> open \o print(k[1]) \o close \o <<"[", "]">>

compoundTypeTemplate(n) ==
  LET k == n.kids
  IN  CASE n.kind = "TupleType" -> <<"[">> \o list(k, <<",">>) \o <<"]">>
        [] n.kind = "NamedTupleMember" -> print(k[1]) \o Mark(n, "optional", "?") \o <<":">> \o print(k[2])
        [] n.kind = "OptionalType" -> Append(print(k[1]), "?")
        [] n.kind = "RestType" -> <<"...">> \o print(k[1])
        [] n.kind = "TypeOperator" -> <<n.op>> \o print(k[1])
        [] n.kind = "TypeQuery" -> <<"typeof">> \o list(k, <<>>)
        [] n.kind = "TypePredicate" -> Flag(n, "asserts") \o print(k[1]) \o optional(<<"is">>, k[2])
        [] n.kind = "LiteralType" -> print(k[1])
        [] n.kind = "ImportType" -> <<"import", "(", "str", ")">> \o optional(<<".">>, k[1]) \o print(k[2])

memberTemplate(n) ==
  LET k == n.kids
  IN  CASE n.kind = "PropertySignature" ->
             Flag(n, "readonly") \o key(n) \o Mark(n, "optional", "?") \o optional(<<":">>, k[2])
        [] n.kind = "MethodSignature" ->
             accessor(n) \o key(n) \o Mark(n, "optional", "?") \o signature(Tail(k)) \o optional(<<":">>, k[3])
        [] n.kind = "CallSignature" -> signature(k) \o optional(<<":">>, k[2])
        [] n.kind = "ConstructSignature" -> <<"new">> \o signature(k) \o optional(<<":">>, k[2])
        [] n.kind = "IndexSignature" ->
             Flag(n, "static") \o Flag(n, "readonly") \o <<"[">> \o list(Tail(k), <<",">>) \o <<"]">> \o optional(<<":">>, k[1])

(* The kinds each group prints. *)
Names == {"Identifier", "PrivateIdentifier", "Literal", "Template", "TemplateType", "Tagged", "This", "ThisType", "Super"}
Operators == {"Unary", "Update", "Binary", "Logical", "Assignment", "AssignmentPattern", "Await", "Yield"}
FunctionKinds == {"Arrow", "Function", "FunctionDeclaration", "Class", "ClassDeclaration", "ClassBody",
              "MethodDefinition", "PropertyDefinition", "StaticBlock", "ParameterProperty"}
Bindings == {"Variable", "Declarator", "ObjectPattern", "ArrayPattern", "RestElement"}
Statements == {"ExpressionStatement", "Block", "Empty", "Debugger", "If", "For", "ForIn", "ForOf", "While", "With",
               "DoWhile", "Return", "Throw", "Break", "Continue", "Labeled", "Switch", "Case", "Try", "Catch"}
Modules == {"ImportDeclaration", "ImportSpecifier", "ExportSpecifier", "ImportDefaultSpecifier",
            "ImportNamespaceSpecifier", "ExportNamed", "ExportDefault", "ExportAll"}
Casts == {"As", "Satisfies", "NonNull", "Assertion", "Instantiation", "TypeParameters", "TypeArguments", "TypeParameter"}
Declarations == {"Interface", "InterfaceBody", "InterfaceHeritage", "ClassImplements", "TypeAlias", "Enum", "EnumMember",
                 "Module", "ModuleBlock", "ImportEquals", "ExternalModule", "ExportAssignment", "NamespaceExport"}
Compounds == {"TupleType", "NamedTupleMember", "OptionalType", "RestType", "TypeOperator", "TypeQuery",
              "TypePredicate", "LiteralType", "ImportType"}
Signatures == {"PropertySignature", "MethodSignature", "CallSignature", "ConstructSignature", "IndexSignature"}

printTemplateBody(n) ==
  CASE n.kind = "Program" -> list(n.kids, <<>>)
    [] n.kind \in Names -> nameTemplate(n)
    [] n.kind \in Operators -> operatorTemplate(n)
    [] n.kind \in FunctionKinds -> functionTemplate(n)
    [] n.kind \in Bindings -> bindingTemplate(n)
    [] n.kind \in Statements -> statementTemplate(n)
    [] n.kind \in Modules -> moduleTemplate(n)
    [] n.kind \in Casts -> castTemplate(n)
    [] n.kind \in Declarations -> declarationTemplate(n)
    [] n.kind \in Compounds -> compoundTypeTemplate(n)
    [] n.kind \in Signatures -> memberTemplate(n)
    [] n.kind \in Types \cup {"QualifiedName"} -> typeTemplate(n)
    [] OTHER -> expressionTemplate(n)

print(n) ==
  IF Absent(n) THEN <<>>
  ELSE IF Has(n, "paren") THEN <<"(">> \o printTemplateBody(n) \o <<")">> ELSE printTemplateBody(n)

(* Every node is dirty, so none is sliced from the source.                    *)
printAst(n) == print(n)
=============================================================================
