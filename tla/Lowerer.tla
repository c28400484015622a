------------------------------- MODULE Lowerer -------------------------------
(* ast/lower.cc: the grammar tree of a program without errors to the syntax    *)
(* tree. Spans, comments, directives, decorators and JSX are left out.        *)
EXTENDS SyntaxTree

(* A node that comes inside another, as an expression, a type and so on.       *)
RECURSIVE lowerAs(_, _)

Each(list) == [i \in DOMAIN list |-> lowerAs("Expression", list[i])]
EachTarget(list) == [i \in DOMAIN list |-> lowerAs("Target", list[i])]
EachType(list) == [i \in DOMAIN list |-> lowerAs("Type", list[i])]
EachMember(list) == [i \in DOMAIN list |-> lowerAs("TypeMember", list[i])]
lowerStatementList(list) == [i \in DOMAIN list |-> lowerAs("Statement", list[i])]

Flagged(n, flag) == [n EXCEPT !.flags = @ \cup {flag}]
FlaggedIf(condition, n, flag) == IF condition THEN Flagged(n, flag) ELSE n

identifier(text) == Node("Identifier", text, {}, <<None>>)
privateIdentifier(text) == Node("PrivateIdentifier", text, {}, <<>>)
attachType(name, type) == [name EXCEPT !.kids[1] = type]
Access == {"public", "private", "protected"}

(* A name or a string, as a specifier and a module are named.                 *)
nameOrString(text) == IF text = "str" THEN Node("Literal", text, {}, <<>>) ELSE identifier(text)

-----------------------------------------------------------------------------
(* Types.                                                                    *)

RECURSIVE qualifiedChain(_)
qualifiedChain(names) ==
  IF Len(names) = 1 THEN IF names[1].op = "this" THEN Node("ThisType", "", {}, <<>>) ELSE identifier(names[1].op)
  ELSE Node("QualifiedName", "", {}, <<qualifiedChain(Front(names)), identifier(Last(names).op)>>)

lowerTypeArguments(g) == IF Absent(g) THEN None ELSE Node("TypeArguments", "", {}, EachType(g.kids))

lowerTypeParameter(g) == Node("TypeParameter", g.op, g.flags \cap {"in", "out", "const"}, EachType(g.kids))
lowerTypeParameters(g) ==
  IF Absent(g) THEN None
  ELSE Node("TypeParameters", "", {}, [i \in DOMAIN g.kids |-> lowerTypeParameter(g.kids[i])])

(* The children of a signature: type parameters, return type, parameters.     *)
lowerSignature(k) ==
  <<lowerTypeParameters(k[1]), lowerAs("Type", k[2])>> \o [i \in 1..Len(k) - 2 |-> lowerAs("Parameter", k[i + 2])]

lowerMappedType(g) ==
  LET sign(m) == IF "-" \o m \in g.flags THEN {"minus " \o m}
                 ELSE IF {m, "+" \o m} \cap g.flags # {} THEN {"plus " \o m} ELSE {}
  IN  Node("MappedType", "", sign("readonly") \cup sign("?"),
           <<Node("TypeParameter", g.op, {}, <<lowerAs("Type", g.kids[1]), None>>), lowerAs("Type", g.kids[2]), lowerAs("Type", g.kids[3])>>)

lowerImportType(g) ==
  LET qualifier == IF Len(g.kids) = 1 THEN None ELSE qualifiedChain(Tail(g.kids))
      import == Node("ImportType", "", {}, <<qualifier, lowerTypeArguments(g.kids[1])>>)
  IN  IF Has(g, "typeof") THEN Node("TypeQuery", "", {}, <<import, None>>) ELSE import

lowerLiteralType(g) ==
  LET value == Node("Literal", g.kids[1].op, {}, <<>>)
  IN  CASE value.op = "null" -> Node("KeywordType", "null", {}, <<>>)
        [] Has(g, "minus") -> Node("LiteralType", "", {}, <<Node("Unary", "-", {}, <<value>>)>>)
        [] OTHER -> Node("LiteralType", "", {}, <<value>>)

lowerNamedTupleMember(g) ==
  LET member == Node("NamedTupleMember", "", g.flags \cap {"optional"}, <<identifier(g.op), lowerAs("Type", g.kids[1])>>)
  IN  IF Has(g, "rest") THEN Node("RestType", "", {}, <<member>>) ELSE member

Same == {"UnionType", "IntersectionType", "ArrayType", "TupleType", "OptionalType", "RestType",
         "IndexedAccessType", "ConditionalType", "TypeOperator"}

lowerType(g) ==
  LET k == g.kids
      named == <<qualifiedChain(Tail(k)), lowerTypeArguments(k[1])>>
  IN  CASE Absent(g) -> None
        [] g.kind \in Same -> Node(g.kind, g.op, {}, EachType(k))
        [] g.kind = "KeywordType" -> IF g.op = "this" THEN Node("ThisType", "", {}, <<>>) ELSE Node("KeywordType", g.op, {}, <<>>)
        [] g.kind \in {"TypeReference", "TypeQuery"} -> Node(g.kind, "", {}, named)
        [] g.kind = "ParenthesizedType" -> Flagged(lowerAs("Type", k[1]), "paren")
        [] g.kind \in {"FunctionType", "ConstructorType"} -> Node(g.kind, "", g.flags, lowerSignature(k))
        [] g.kind = "NamedTupleMember" -> lowerNamedTupleMember(g)
        [] g.kind = "InferType" -> Node("InferType", "", {}, <<Node("TypeParameter", g.op, {}, <<lowerAs("Type", k[1]), None>>)>>)
        [] g.kind = "MappedType" -> lowerMappedType(g)
        [] g.kind = "LiteralType" -> lowerLiteralType(g)
        [] g.kind = "TypePredicate" -> Node("TypePredicate", "", g.flags, <<qualifiedChain(<<k[1]>>), lowerAs("Type", k[2])>>)
        [] g.kind = "TypeLiteral" -> Node("TypeLiteral", "", {}, EachMember(k))
        [] g.kind = "ImportType" -> lowerImportType(g)
        [] g.kind = "TemplateLiteralType" -> Node("TemplateType", "", {}, EachType(k))

-----------------------------------------------------------------------------
(* Keys, bindings and parameters.                                            *)

computed(key) == IF key.kind = "ComputedPropertyName" THEN {"computed"} ELSE {}
lowerKey(key) == lowerAs("Expression", IF key.kind = "ComputedPropertyName" THEN key.kids[1] ELSE key)

lowerTypeMember(g) ==
  LET k == g.kids
  IN  CASE g.kind = "PropertySignature" -> Node("PropertySignature", "", g.flags \cup computed(k[1]), <<lowerKey(k[1]), lowerAs("Type", k[2])>>)
        [] g.kind = "MethodSignature" ->
             Node("MethodSignature", g.op, (g.flags \cap {"optional"}) \cup computed(k[1]), <<lowerKey(k[1])>> \o lowerSignature(Tail(k)))
        [] g.kind \in {"CallSignature", "ConstructSignature"} -> Node(g.kind, "", {}, lowerSignature(k))
        [] g.kind = "IndexSignature" -> Node("IndexSignature", "", g.flags \cap {"static", "readonly"}, <<lowerAs("Type", k[1]), lowerAs("Parameter", k[2])>>)

withDefault(target, init) ==
  IF Absent(init) THEN target ELSE Node("AssignmentPattern", "", {}, <<target, lowerAs("Expression", init)>>)

rest(target) == Node("RestElement", "", {}, <<target, None>>)

(* One element of an object pattern: a rest, `key: target` or a shorthand.    *)
lowerObjectBindingElement(e) ==
  LET key == lowerKey(e.kids[1])
      short == Absent(e.kids[2])
      value == withDefault(IF short THEN lowerAs("BindingName", e.kids[1]) ELSE lowerAs("BindingName", e.kids[2]), e.kids[3])
  IN  IF Has(e, "rest") THEN rest(lowerAs("BindingName", e.kids[1]))
      ELSE FlaggedIf(short, Node("Property", "", computed(e.kids[1]), <<key, value>>), "shorthand")

lowerArrayBindingElement(e) ==
  CASE e.kids[1].kind = "OmittedExpression" -> None
    [] Has(e, "rest") -> rest(lowerAs("BindingName", e.kids[1]))
    [] OTHER -> withDefault(lowerAs("BindingName", e.kids[1]), e.kids[3])

lowerBindingName(g) ==
  CASE g.kind = "ObjectBindingPattern" ->
         Node("ObjectPattern", "", {}, <<None>> \o [i \in DOMAIN g.kids |-> lowerObjectBindingElement(g.kids[i])])
    [] g.kind = "ArrayBindingPattern" ->
         Node("ArrayPattern", "", {}, <<None>> \o [i \in DOMAIN g.kids |-> lowerArrayBindingElement(g.kids[i])])
    [] g.kind = "Identifier" -> identifier(g.op)
    [] OTHER -> lowerAs("Expression", g)

lowerParameter(p) ==
  LET name == lowerAs("BindingName", p.kids[1])
      type == lowerAs("Type", p.kids[2])
      typed == FlaggedIf(Has(p, "optional") /\ name.kind = "Identifier", attachType(name, type), "optional")
      binding == IF Has(p, "rest") THEN Node("RestElement", "", {}, <<name, type>>) ELSE withDefault(typed, p.kids[3])
      modifier == p.flags \cap (Access \cup {"readonly", "override"})
  IN  IF modifier = {} THEN binding ELSE Node("ParameterProperty", "", modifier, <<binding>>)

-----------------------------------------------------------------------------
(* Functions and classes.                                                    *)

(* From the grammar's type parameters, return type, body and parameters.      *)
lowerFunctionParts(kind, name, flags, k) ==
  LET body == IF k[3].kind = "Block" THEN lowerAs("Statement", k[3]) ELSE lowerAs("Expression", k[3])
  IN  Node(kind, name, flags \cap {"async", "generator", "declare"},
           <<lowerTypeParameters(k[1]), lowerAs("Type", k[2]), body>> \o [i \in 1..Len(k) - 3 |-> lowerAs("Parameter", k[i + 3])])

methodValue(g) == lowerFunctionParts("Function", "", g.flags \ {"declare"}, Tail(g.kids))

lowerObjectMember(g, pattern) ==
  LET k == g.kids
      Value(e) == IF pattern THEN lowerAs("Target", e) ELSE lowerAs("Expression", e)
      Property(op, flags, value) == Node("Property", op, flags \cup computed(k[1]), <<lowerKey(k[1]), value>>)
  IN  CASE g.kind = "PropertyAssignment" -> Property("", {}, Value(k[2]))
        [] g.kind = "ShorthandPropertyAssignment" -> Property("", {"shorthand"}, withDefault(identifier(k[1].op), k[2]))
        [] g.kind = "SpreadAssignment" -> IF pattern THEN rest(lowerAs("Target", k[1])) ELSE Node("Spread", "", {}, <<lowerAs("Expression", k[1])>>)
        [] g.kind = "MethodDeclaration" -> Property("", {"method"}, methodValue(g))
        [] g.kind = "Accessor" -> Property(g.op, {}, methodValue(g))

lowerHeritage(h, kind) ==
  IF h.kind = "TypeReference"
  THEN Node(kind, "", {}, <<qualifiedChain(Tail(h.kids)), lowerTypeArguments(h.kids[1])>>)
  ELSE Node(kind, "", {}, <<lowerAs("Expression", h.kids[1]), lowerTypeArguments(h.kids[2])>>)

Clauses(g) == g.kids[2].kids
Heirs(g, clause) == FlattenSeq([i \in DOMAIN Clauses(g) |-> IF Clauses(g)[i].op = clause THEN Clauses(g)[i].kids ELSE <<>>])

MemberFlags == Access \cup {"static", "override", "optional", "abstract"}
PropertyFlags == MemberFlags \cup {"declare", "readonly", "definite", "accessor"}

lowerClassMember(g) ==
  LET k == g.kids
      kind == IF g.kind = "ConstructorNode" THEN "constructor" ELSE IF g.op = "" THEN "method" ELSE g.op
  IN  CASE g.kind = "PropertyDeclaration" ->
             Node("PropertyDefinition", "", (g.flags \cap PropertyFlags) \cup computed(k[1]), <<lowerKey(k[1]), lowerAs("Type", k[2]), lowerAs("Expression", k[3])>>)
        [] g.kind \in {"MethodDeclaration", "Accessor", "ConstructorNode"} ->
             Node("MethodDefinition", kind, (g.flags \cap MemberFlags) \cup computed(k[1]), <<lowerKey(k[1]), methodValue(g)>>)
        [] g.kind = "ClassStaticBlockDeclaration" -> Node("StaticBlock", "", {}, lowerStatementList(k))
        [] g.kind = "IndexSignature" -> lowerAs("TypeMember", g)

classBody(members) ==
  LET kept == SelectSeq(members, LAMBDA m : m.kind # "SemicolonClassElement")
  IN  Node("ClassBody", "", {}, [i \in DOMAIN kept |-> lowerClassMember(kept[i])])

(* The first type of `extends` is the superclass; every other is implemented. *)
lowerClass(g, kind) ==
  LET extends == Heirs(g, "extends")
      others == (IF extends = <<>> THEN <<>> ELSE Tail(extends)) \o Heirs(g, "implements")
      super == IF extends = <<>> THEN <<None, None>> ELSE lowerHeritage(extends[1], "").kids
  IN  Node(kind, g.op, g.flags \cap {"abstract", "declare"},
           <<lowerTypeParameters(g.kids[1])>> \o super \o <<classBody(g.kids[3].kids)>>
           \o [i \in DOMAIN others |-> lowerHeritage(others[i], "ClassImplements")])

-----------------------------------------------------------------------------
(* Expressions.                                                              *)

(* The callee and the type arguments that the parser read as one.             *)
splitTypeArguments(e) ==
  IF e.kind = "ExpressionWithTypeArguments" THEN <<lowerAs("Expression", e.kids[1]), lowerTypeArguments(e.kids[2])>>
  ELSE <<lowerAs("Expression", e), None>>

lowerCall(g) ==
  LET k == g.kids
  IN  IF k[1].kind = "ImportKeyword"
      THEN Node("Import", "", {}, <<lowerAs("Expression", k[2]), IF Len(k) > 2 THEN lowerAs("Expression", k[3]) ELSE None>>)
      ELSE FlaggedIf(g.op = "?.", Node("Call", "", {}, splitTypeArguments(k[1]) \o Each(Tail(k))), "optional")

assignmentOperator(op) == op \in {"=", "+=", "??="}
logicalOperator(op) == op \in {"&&", "||", "??"}

lowerBinary(g) ==
  LET k == g.kids
      left == IF g.op = "=" THEN lowerAs("Target", k[1]) ELSE lowerAs("Expression", k[1])
      kind == IF assignmentOperator(g.op) THEN "Assignment" ELSE IF logicalOperator(g.op) THEN "Logical" ELSE "Binary"
  IN  Node(kind, g.op, {}, <<left, lowerAs("Expression", k[2])>>)

Simple == [AwaitExpression |-> "Await", ConditionalExpression |-> "Conditional", NonNullExpression |-> "NonNull",
           SpreadElement |-> "Spread", ArrayLiteralExpression |-> "Array", YieldExpression |-> "Yield",
           TemplateExpression |-> "Template", CommaListExpression |-> "Sequence"]

lowerUnary(g) ==
  CASE g.kind = "PostfixUnaryExpression" -> Node("Update", g.op, {}, Each(g.kids))
    [] g.op \in {"++", "--"} -> Node("Update", g.op, {"prefix"}, Each(g.kids))
    [] OTHER -> Node("Unary", g.op, {}, Each(g.kids))

lowerExpression(g) ==
  LET k == g.kids
  IN  CASE g.kind \in {"none", "OmittedExpression"} -> None
        [] g.kind = "Identifier" -> IF g.op = "#p" THEN privateIdentifier(g.op) ELSE identifier(g.op)
        [] g.kind = "Keyword" -> Node(IF g.op = "this" THEN "This" ELSE "Super", "", {}, <<>>)
        [] g.kind = "Literal" -> Node("Literal", g.op, {}, <<>>)
        [] g.kind \in DOMAIN Simple -> Node(Simple[g.kind], "", g.flags, Each(k))
        [] g.kind = "ObjectLiteralExpression" -> Node("Object", "", {}, [i \in DOMAIN k |-> lowerObjectMember(k[i], FALSE)])
        [] g.kind = "ParenthesizedExpression" -> Flagged(lowerAs("Expression", k[1]), "paren")
        [] g.kind = "PropertyAccessExpression" -> Node("Member", "", g.flags, Each(k))
        [] g.kind = "ElementAccessExpression" -> Node("Member", "", g.flags \cup {"computed"}, Each(k))
        [] g.kind = "CallExpression" -> lowerCall(g)
        [] g.kind = "NewExpression" -> Node("New", "", {}, splitTypeArguments(k[1]) \o Each(Tail(k)))
        [] g.kind = "TaggedTemplateExpression" -> Node("Tagged", "", {}, Append(splitTypeArguments(k[1]), lowerAs("Expression", k[2])))
        [] g.kind = "MetaProperty" -> Node("MetaProperty", "", {}, <<identifier(g.op), identifier(k[1].op)>>)
        [] g.kind \in {"PrefixUnaryExpression", "PostfixUnaryExpression"} -> lowerUnary(g)
        [] g.kind = "BinaryExpression" -> lowerBinary(g)
        [] g.kind = "AsExpression" -> Node(IF g.op = "as" THEN "As" ELSE "Satisfies", "", {}, <<lowerAs("Expression", k[1]), lowerAs("Type", k[2])>>)
        [] g.kind = "TypeAssertionExpression" -> Node("Assertion", "", {}, <<lowerAs("Type", k[1]), lowerAs("Expression", k[2])>>)
        [] g.kind = "ExpressionWithTypeArguments" -> Node("Instantiation", "", {}, <<lowerAs("Expression", k[1]), lowerTypeArguments(k[2])>>)
        [] g.kind = "FunctionExpression" -> lowerFunctionParts("Function", g.op, g.flags, k)
        [] g.kind = "ArrowFunction" -> lowerFunctionParts("Arrow", "", g.flags, k)
        [] g.kind = "ClassExpression" -> lowerClass(g, "Class")

(* The left of an assignment: literals become patterns.                       *)
lowerTarget(g) ==
  LET k == g.kids
  IN  CASE g.kind = "ObjectLiteralExpression" ->
             Node("ObjectPattern", "", {}, <<None>> \o [i \in DOMAIN k |-> lowerObjectMember(k[i], TRUE)])
        [] g.kind = "ArrayLiteralExpression" -> Node("ArrayPattern", "", {}, <<None>> \o EachTarget(k))
        [] g.kind = "SpreadElement" -> rest(lowerAs("Target", k[1]))
        [] g.kind = "BinaryExpression" /\ g.op = "=" ->
             Node("AssignmentPattern", "", {}, <<lowerAs("Target", k[1]), lowerAs("Expression", k[2])>>)
        [] g.kind = "ParenthesizedExpression" -> Flagged(lowerAs("Target", k[1]), "paren")
        [] OTHER -> lowerAs("Expression", g)

-----------------------------------------------------------------------------
(* Statements and declarations.                                              *)

lowerDeclarator(d) ==
  Node("Declarator", "", d.flags, <<attachType(lowerAs("BindingName", d.kids[1]), lowerAs("Type", d.kids[2])), lowerAs("Expression", d.kids[3])>>)

lowerVariableList(g, flags) == Node("Variable", g.op, flags, [i \in DOMAIN g.kids |-> lowerDeclarator(g.kids[i])])

lowerForInit(g) ==
  CASE Absent(g) -> None [] g.kind = "VariableDeclarationList" -> lowerVariableList(g, {}) [] OTHER -> lowerAs("Target", g)

lowerTry(g) ==
  LET catch == g.kids[2]
      param == catch.kids[1]
      handler == Node("Catch", "", {}, <<IF Absent(param) THEN None ELSE attachType(lowerAs("BindingName", param.kids[1]), lowerAs("Type", param.kids[2])),
                                         lowerAs("Statement", catch.kids[2])>>)
  IN  Node("Try", "", {}, <<lowerAs("Statement", g.kids[1]), IF Absent(catch) THEN None ELSE handler, lowerAs("Statement", g.kids[3])>>)

lowerSwitchCase(g) == Node("Case", "", {}, <<lowerAs("Expression", g.kids[1])>> \o lowerStatementList(Tail(g.kids)))

lowerInterface(g) ==
  LET heritage == Heirs(g, "extends")
  IN  Node("Interface", g.op, g.flags, <<lowerTypeParameters(g.kids[1]), Node("InterfaceBody", "", {}, EachMember(g.kids[3].kids))>>
                                        \o [i \in DOMAIN heritage |-> lowerHeritage(heritage[i], "InterfaceHeritage")])

lowerEnum(g) ==
  Node("Enum", g.op, g.flags,
       [i \in DOMAIN g.kids |-> LET m == g.kids[i].kids IN Node("EnumMember", "", computed(m[1]), <<lowerKey(m[1]), lowerAs("Expression", m[2])>>)])

lowerModule(g) ==
  LET names == Tail(g.kids)
      body == IF Absent(g.kids[1]) THEN None ELSE Node("ModuleBlock", "", {}, lowerStatementList(g.kids[1].kids))
  IN  Node("Module", g.op, g.flags, <<IF Len(names) = 1 THEN nameOrString(names[1].op) ELSE qualifiedChain(names), body>>)

lowerSpecifier(s, kind) == Node(kind, "", s.flags, <<nameOrString(s.op), nameOrString(s.kids[1].op)>>)
Specifiers(g, kind) == [i \in DOMAIN g.kids |-> lowerSpecifier(g.kids[i], kind)]

lowerImport(g) ==
  LET default == IF g.op = "" THEN <<>> ELSE <<Node("ImportDefaultSpecifier", "", {}, <<identifier(g.op)>>)>>
      clause == g.kids[1]
      others == CASE clause.kind = "NamedImports" -> Specifiers(clause, "ImportSpecifier")
                  [] clause.kind = "NamespaceImport" -> <<Node("ImportNamespaceSpecifier", "", {}, <<identifier(clause.op)>>)>>
                  [] OTHER -> <<>>
  IN  Node("ImportDeclaration", "", g.flags, default \o others)

lowerImportEquals(g) ==
  Node("ImportEquals", g.op, g.flags, <<IF g.kids = <<>> THEN Node("ExternalModule", "", {}, <<>>) ELSE qualifiedChain(g.kids)>>)

isDeclaration(g) == g.kind \in {"FunctionDeclaration", "ClassDeclaration", "InterfaceDeclaration"}

lowerExport(g) ==
  LET clause == g.kids[1]
      source == IF g.op = "from" THEN Node("Literal", "str", {}, <<>>) ELSE None
  IN  CASE g.op = "default" -> Node("ExportDefault", "", {}, <<IF isDeclaration(clause) THEN lowerAs("Statement", clause) ELSE lowerAs("Expression", clause)>>)
        [] g.op = "declaration" -> Node("ExportNamed", "", g.flags, <<lowerAs("Statement", clause), None>>)
        [] clause.kind = "NamedExports" -> Node("ExportNamed", "", g.flags, <<None, source>> \o Specifiers(clause, "ExportSpecifier"))
        [] clause.kind = "NamespaceExport" -> Node("ExportAll", "", g.flags, <<nameOrString(clause.op)>>)
        [] OTHER -> Node("ExportAll", "", g.flags, <<None>>)

lowerStatement(g) ==
  LET k == g.kids
      label == IF g.op = "" THEN None ELSE identifier(g.op)
  IN  CASE Absent(g) -> None
        [] g.kind = "Block" -> Node("Block", "", {}, lowerStatementList(k))
        [] g.kind = "EmptyStatement" -> Node("Empty", "", {}, <<>>)
        [] g.kind = "DebuggerStatement" -> Node("Debugger", "", {}, <<>>)
        [] g.kind = "VariableStatement" -> lowerVariableList(k[1], g.flags)
        [] g.kind = "FunctionDeclaration" -> lowerFunctionParts("FunctionDeclaration", g.op, g.flags, k)
        [] g.kind = "ClassDeclaration" -> lowerClass(g, "ClassDeclaration")
        [] g.kind = "InterfaceDeclaration" -> lowerInterface(g)
        [] g.kind = "TypeAliasDeclaration" -> Node("TypeAlias", g.op, g.flags, <<lowerTypeParameters(k[1]), lowerAs("Type", k[2])>>)
        [] g.kind = "EnumDeclaration" -> lowerEnum(g)
        [] g.kind = "ModuleDeclaration" -> lowerModule(g)
        [] g.kind = "ExpressionStatement" -> Node("ExpressionStatement", "", {}, Each(k))
        [] g.kind = "IfStatement" -> Node("If", "", {}, <<lowerAs("Expression", k[1]), lowerAs("Statement", k[2]), lowerAs("Statement", k[3])>>)
        [] g.kind = "DoStatement" -> Node("DoWhile", "", {}, <<lowerAs("Statement", k[1]), lowerAs("Expression", k[2])>>)
        [] g.kind = "WhileStatement" ->
             Node(IF g.op = "while" THEN "While" ELSE "With", "", {}, <<lowerAs("Expression", k[1]), lowerAs("Statement", k[2])>>)
        [] g.kind = "ForStatement" ->
             Node("For", "", {}, <<lowerForInit(k[1]), lowerAs("Expression", k[2]), lowerAs("Expression", k[3]), lowerAs("Statement", k[4])>>)
        [] g.kind \in {"ForInStatement", "ForOfStatement"} ->
             Node(IF g.kind = "ForInStatement" THEN "ForIn" ELSE "ForOf", "", g.flags, <<lowerForInit(k[1]), lowerAs("Expression", k[2]), lowerAs("Statement", k[3])>>)
        [] g.kind = "BreakStatement" -> Node("Break", "break", {}, <<label>>)
        [] g.kind = "ContinueStatement" -> Node("Continue", "continue", {}, <<label>>)
        [] g.kind = "ReturnStatement" -> Node("Return", "return", {}, Each(k))
        [] g.kind = "ThrowStatement" -> Node("Throw", "throw", {}, Each(k))
        [] g.kind = "TryStatement" -> lowerTry(g)
        [] g.kind = "SwitchStatement" -> Node("Switch", "", {}, <<lowerAs("Expression", k[1])>> \o [i \in 1..Len(k) - 1 |-> lowerSwitchCase(k[i + 1])])
        [] g.kind = "LabeledStatement" -> Node("Labeled", "", {}, <<label, lowerAs("Statement", k[1])>>)
        [] g.kind = "ImportDeclaration" -> lowerImport(g)
        [] g.kind = "ImportEqualsDeclaration" -> lowerImportEquals(g)
        [] g.kind = "ExportDeclaration" -> lowerExport(g)
        [] g.kind = "ExportAssignment" -> Node("ExportAssignment", "", {}, Each(k))
        [] g.kind = "NamespaceExportDeclaration" -> Node("NamespaceExport", g.op, {}, <<>>)

lowerAs(what, g) ==
  CASE what = "Expression" -> lowerExpression(g)
    [] what = "Target" -> lowerTarget(g)
    [] what = "Type" -> lowerType(g)
    [] what = "TypeMember" -> lowerTypeMember(g)
    [] what = "Statement" -> lowerStatement(g)
    [] what = "BindingName" -> lowerBindingName(g)
    [] what = "Parameter" -> lowerParameter(g)

lower(g) == IF Absent(g) THEN None ELSE Node("Program", "", {}, lowerStatementList(g.kids))
=============================================================================
