-------------------------------- MODULE Parser --------------------------------
(* syntax/parser: tokens to the grammar tree, by recursive descent with        *)
(* lookahead and speculation. TypeScript without JSX, decorators, `using` or   *)
(* import attributes, on one line. A program that gets a diagnostic fails as a *)
(* whole; recovery is left out.                                               *)
EXTENDS SyntaxTree

(* A parser at token p of t, under the context flags c, that has just built n *)
(* (a node or a list of nodes). At p = 0 it has reported an error.            *)
Start(t) ==
  [t |-> t, p |-> 1, n |-> None, c |-> [noIn |-> FALSE, noCond |-> FALSE, yield |-> FALSE, await |-> TRUE]]

Ahead(s, k) == CASE s.p = 0 -> "fail" [] s.p + k > Len(s.t) -> "eof" [] OTHER -> s.t[s.p + k]
At(s) == Ahead(s, 0)
Is(s, token) == At(s) = token
Failed(s) == s.p = 0
Give(s, n) == [s EXCEPT !.n = n]
Fail(s) == [s EXCEPT !.p = 0, !.n = <<>>]
scanOne(s) == IF Failed(s) THEN s ELSE [s EXCEPT !.p = @ + 1]
eat(s, token) == IF Is(s, token) THEN scanOne(s) ELSE s
expect(s, token) == IF Is(s, token) THEN scanOne(s) ELSE Fail(s)

(* FlagScope: parse under other flags, then restore them.                     *)
Under(s, c) == [s EXCEPT !.c = c]
noIn(s, on) == [s.c EXCEPT !.noIn = on]
noCond(s, on) == [s.c EXCEPT !.noCond = on]

(* A rule of the grammar that comes inside another, by its name.               *)
RECURSIVE parse(_, _)

(* A child that may be missing.                                              *)
Maybe(s, present, rule) == IF present THEN parse(rule, s) ELSE Give(s, None)
After(s, token, rule) == IF Is(s, token) THEN parse(rule, scanOne(s)) ELSE Give(s, None)

expectSemicolon(s) ==
  CASE Is(s, ";") -> scanOne(s) [] At(s) \in {"eof", "}"} -> s [] OTHER -> Fail(s)

endStatement(s, n) == Give(expectSemicolon(s), n)

-----------------------------------------------------------------------------
(* Token classes.                                                            *)

Literals == {"1", "str"}
Templates == {"quasi", "head"}
PrivateNames == {"#p"}
AssignmentOperators == {"=", "+=", "??="}
Punctuators ==
  {"(", ")", "{", "}", "[", "]", ";", ",", ".", "?.", "...", "=>", "?", ":", "!", "~", "++", "--",
   "+", "-", "*", "/", "%", "**", "<", ">", "<=", ">=", "==", "!=", "===", "!==", "<<", ">>", ">>>",
   "&", "|", "^", "&&", "||", "??", "middle", "tail", "eof", "fail"} \cup AssignmentOperators
BindingOnly == {"let", "yield", "abstract", "public", "private", "protected"}
Reserved ==
  {"this", "super", "null", "true", "false", "function", "class", "new", "import", "delete", "typeof",
   "void", "if", "do", "while", "for", "continue", "break", "return", "with", "switch", "throw", "try",
   "debugger", "var", "const", "enum", "export", "in", "instanceof", "case", "default", "catch",
   "finally", "else", "extends"} \cup BindingOnly

isAlwaysIdentifier(k) == k \notin UNION {Literals, Templates, PrivateNames, Punctuators, Reserved}
isBindingIdentifier(k) == isAlwaysIdentifier(k) \/ k \in BindingOnly
tokenIsKeyword(k) == k \in Reserved
isWord(k) == isAlwaysIdentifier(k) \/ tokenIsKeyword(k)

binaryPrecedence(k, disallowIn) ==
  CASE k \in AssignmentOperators -> 2 [] k = "??" -> 3 [] k = "||" -> 4 [] k = "&&" -> 5 [] k = "|" -> 6
    [] k = "^" -> 7 [] k = "&" -> 8 [] k \in {"==", "!=", "===", "!=="} -> 9
    [] k = "in" -> IF disallowIn THEN 0 ELSE 10
    [] k \in {"<", "<=", ">", ">=", "instanceof"} -> 10
    [] k \in {"<<", ">>", ">>>"} -> 11 [] k \in {"+", "-"} -> 12 [] k \in {"*", "/", "%"} -> 13
    [] k = "**" -> 14 [] OTHER -> 0

isStartOfExpression(k) ==
  \/ k \in UNION {Literals, Templates, PrivateNames}
  \/ k \in {"this", "super", "null", "true", "false", "function", "class", "new", "import", "delete",
            "typeof", "void", "yield", "(", "[", "{", "+", "-", "~", "!", "++", "--", "<", "/"}
  \/ isAlwaysIdentifier(k)

isStartOfStatement(k) ==
  \/ k \in {";", "{", "if", "do", "while", "for", "continue", "break", "return", "with", "switch", "throw",
            "try", "debugger", "var", "let", "const", "function", "class", "enum", "import", "export", "abstract"}
  \/ isStartOfExpression(k)

isStartOfType(k) ==
  \/ k \in Literals \cup Templates
  \/ k \in {"this", "void", "null", "true", "false", "typeof", "new", "import", "abstract", "(", "[", "{",
            "<", "-", "|", "&"}
  \/ isAlwaysIdentifier(k)

isStartOfPropertyName(k) == k \in UNION {Literals, PrivateNames, {"["}} \/ isWord(k)
isStartOfBinding(k) == isAlwaysIdentifier(k) \/ k \in PrivateNames \cup {"[", "{"}

isListElement(list, k) ==
  CASE list \in {"SourceElements", "BlockStatements", "SwitchClauseStatements"} -> isStartOfStatement(k)
    [] list = "SwitchClauses" -> k \in {"case", "default"}
    [] list = "ClassMembers" -> k \in {";", "*", "(", "<"} \/ isStartOfPropertyName(k)
    [] list = "TypeMembers" -> k \in {"(", "<"} \/ isStartOfPropertyName(k)
    [] list = "EnumMembers" -> isStartOfPropertyName(k)
    [] list = "ObjectLiteralMembers" -> k \in {"...", "*"} \/ isStartOfPropertyName(k)
    [] list = "ArrayLiteralMembers" -> k \in {",", "..."} \/ isStartOfExpression(k)
    [] list = "Arguments" -> k = "..." \/ isStartOfExpression(k)
    [] list = "Parameters" -> k \in {"...", "public", "private", "protected", "this"} \/ isStartOfBinding(k)
    [] list = "TypeParameters" -> k \in {"const", "in"} \/ isAlwaysIdentifier(k)
    [] list = "TypeArguments" -> isStartOfType(k)
    [] list = "TupleElements" -> k = "..." \/ isStartOfType(k)
    [] list = "ObjectBindingElements" -> k = "..." \/ isStartOfPropertyName(k)
    [] list = "ArrayBindingElements" -> k \in {",", "..."} \/ isStartOfBinding(k)
    [] list = "ImportOrExportSpecifiers" -> k = "str" \/ isWord(k)

isListTerminator(list, k) ==
  CASE list = "SourceElements" -> k = "eof"
    [] list = "SwitchClauseStatements" -> k \in {"}", "case", "default"}
    [] list \in {"ArrayLiteralMembers", "TupleElements", "ArrayBindingElements"} -> k = "]"
    [] list = "Arguments" -> k \in {")", ";"}
    [] list = "Parameters" -> k \in {")", "]"}
    [] list = "TypeParameters" -> k \in {">", "(", "{", "extends", "implements"}
    [] list = "TypeArguments" -> k # ","
    [] OTHER -> k = "}"

-----------------------------------------------------------------------------
(* Lookahead, one operator per question the parser asks.                     *)

wordFollows(s) == isBindingIdentifier(Ahead(s, 1))
nextCanFollowModifier(s) == isStartOfPropertyName(Ahead(s, 1)) \/ Ahead(s, 1) \in {"*", "{"}
letStartsDeclaration(s) == isBindingIdentifier(Ahead(s, 1)) \/ Ahead(s, 1) \in {"[", "{"}
startsTypeAlias(s) == Is(s, "type") /\ wordFollows(s) /\ Ahead(s, 2) \in {"=", "<"}
operandFollowsOnLine(s) == isWord(Ahead(s, 1)) \/ Ahead(s, 1) \in Literals \cup Templates

startsVariables(s) == At(s) \in {"const", "var"} \/ (Is(s, "let") /\ letStartsDeclaration(s))

isIndexSignatureStart(s) ==
  /\ Is(s, "[") /\ isAlwaysIdentifier(Ahead(s, 1))
  /\ Ahead(s, IF Ahead(s, 2) = "?" THEN 3 ELSE 2) \in {":", ","}

mayBeArrowHead(s) ==
  LET k == Ahead(s, 1)
      more == {":", ",", "=", ")"}
  IN  \/ ~Is(s, "(")
      \/ k = ")" /\ Ahead(s, 2) \in {"=>", ":", "{"}
      \/ k \in {"[", "{", "..."}
      \/ /\ k \in {"public", "private", "protected", "readonly", "override"}
         /\ isAlwaysIdentifier(Ahead(s, 2)) /\ Ahead(s, 2) # "as"
      \/ /\ isAlwaysIdentifier(k) \/ k = "this"
         /\ k \notin {"readonly", "override"}
         /\ Ahead(s, IF Ahead(s, 2) = "?" THEN 3 ELSE 2) \in more

canFollowTypeArguments(s) ==
  \/ At(s) \in {"("} \cup Templates
  \/ At(s) \notin {"<", ">", "+", "-"} /\ ~isStartOfExpression(At(s))

-----------------------------------------------------------------------------
RECURSIVE parseList(_, _)
parseList(list, s) ==
  LET e == parse(list, s)
      more == parseList(list, e)
  IN  CASE isListElement(list, At(s)) -> IF Failed(e) THEN Fail(e) ELSE Give(more, <<e.n>> \o more.n)
        [] isListTerminator(list, At(s)) -> Give(s, <<>>)
        [] OTHER -> Fail(s)

RECURSIVE parseDelimitedList(_, _)
parseDelimitedList(list, s) ==
  LET e == parse(list, s)
      more == parseDelimitedList(list, scanOne(e))
  IN  CASE isListElement(list, At(s)) ->
             (CASE Is(e, ",") -> Give(more, <<e.n>> \o more.n)
                [] isListTerminator(list, At(e)) /\ ~Failed(e) -> Give(e, <<e.n>>)
                [] OTHER -> Fail(e))
        [] isListTerminator(list, At(s)) -> Give(s, <<>>)
        [] OTHER -> Fail(s)


RECURSIVE parseBinary(_, _), parseCallChain(_, _), parsePostfixType(_)

parseTypeParameters(s) == LET l == parseDelimitedList("TypeParameters", expect(s, "<"))
                          IN  Give(expect(l, ">"), Node("TypeParameters", "", {}, l.n))
parseTypeArgumentList(s) ==
  LET l == parseDelimitedList("TypeArguments", expect(Under(s, noCond(s, FALSE)), "<"))
  IN  Give(expect(Under(l, s.c), ">"), Node("TypeArguments", "", {}, l.n))
parseBlock(s) ==
  LET l == parseList("BlockStatements", expect(Under(s, noIn(s, FALSE)), "{"))
  IN  Give(expect(Under(l, s.c), "}"), Node("Block", "", {}, l.n))

(* What follows a function's name: type parameters, parameters, return type.  *)
parseSignature(s) ==
  LET tp == Maybe(s, Is(s, "<"), "TypeParameterList")
      ps == parseDelimitedList("Parameters", expect(tp, "("))
      rt == After(expect(ps, ")"), ":", "Type")
  IN  Give(rt, <<tp.n, rt.n>> \o ps.n)

(* The children of a function: type parameters, return type, body, parameters. *)
FunctionKids(signature, body) == <<signature[1], signature[2], body>> \o From(signature, 3)

isArrowHead(s) == mayBeArrowHead(s) /\ Is(parse("Signature", s), "=>")

-----------------------------------------------------------------------------
(* expressions.cc.                                                           *)

parseSpreadOr(s) ==
  IF Is(s, "...")
  THEN LET e == parse("AssignmentExpression", scanOne(s)) IN Give(e, Node("SpreadElement", "", {}, <<e.n>>))
  ELSE parse("AssignmentExpression", s)

RECURSIVE parseMore(_)
parseMore(s) ==
  IF ~Is(s, ",") THEN s
  ELSE LET e == parse("AssignmentExpression", scanOne(s)) IN parseMore(Give(e, Append(s.n, e.n)))

parseExpression(s) ==
  LET first == parse("AssignmentExpression", s)
      all == parseMore(Give(first, <<first.n>>))
  IN  IF Is(first, ",") THEN Give(all, Node("CommaListExpression", "", {}, all.n)) ELSE first

parseYield(s) ==
  LET y == eat(scanOne(s), "*")
      arg == Maybe(y, At(y) \notin {";", "}", ")", "eof", ":"}, "AssignmentExpression")
  IN  Give(arg, Node("YieldExpression", "", IF Is(scanOne(s), "*") THEN {"delegate"} ELSE {}, <<arg.n>>))

parseParameter(s) ==
  LET words == {"public", "private", "protected", "readonly", "override"}
      modifier == At(s) \in words /\ (isAlwaysIdentifier(Ahead(s, 1)) \/ Ahead(s, 1) \in words \cup {"{", "[", "...", "this"})
      m == IF modifier THEN scanOne(s) ELSE s
      dots == eat(m, "...")
      name == parse("BindingPattern", dots)
      type == After(eat(name, "?"), ":", "Type")
      init == After(type, "=", "AssignmentExpression")
  IN  Give(init, Node("Parameter", "",
                      (IF modifier THEN {At(s)} ELSE {}) \cup (IF Is(m, "...") THEN {"rest"} ELSE {})
                      \cup (IF Is(name, "?") THEN {"optional"} ELSE {}), <<name.n, type.n, init.n>>))

(* From `async`, `<`, `(` or the lone parameter through the body. *)
parseArrowFunction(s, async) ==
  LET a == IF async THEN scanOne(s) ELSE s
      lone == parse("BindingPattern", a)
      type == After(lone, ":", "Type")
      sig == IF At(a) \in {"(", "<"} THEN parse("Signature", a)
             ELSE Give(type, <<None, type.n, Node("Parameter", "", {}, <<lone.n, None, None>>)>>)
      b == Under(expect(sig, "=>"), [s.c EXCEPT !.yield = FALSE, !.await = async \/ @])
      body == IF Is(b, "{") THEN parse("Block", b) ELSE parse("AssignmentExpression", b)
  IN  Give(Under(body, s.c),
           Node("ArrowFunction", "", IF async THEN {"async"} ELSE {}, FunctionKids(sig.n, body.n)))

parseFunctionCommon(s, kind, flags) ==
  LET f == expect(s, "function")
      fl == flags \cup (IF Is(f, "*") THEN {"generator"} ELSE {})
      named == eat(f, "*")
      name == IF isBindingIdentifier(At(named)) THEN At(named) ELSE ""
      sig == parse("Signature", Under(IF name = "" THEN named ELSE scanOne(named),
                                  [s.c EXCEPT !.yield = "generator" \in fl, !.await = "async" \in fl]))
      body == IF Is(sig, "{") THEN parse("Block", sig) ELSE Give(expectSemicolon(sig), None)
  IN  Give(Under(body, s.c), Node(kind, name, fl, FunctionKids(sig.n, body.n)))

parseConditional(s) ==
  LET test == parseBinary(s, 0)
      yes == parse("AssignmentExpression", scanOne(test))
      no == parse("AssignmentExpression", expect(yes, ":"))
  IN  IF Is(test, "?") THEN Give(no, Node("ConditionalExpression", "", {}, <<test.n, yes.n, no.n>>)) ELSE test

parseAssignmentExpression(s) ==
  LET next == Ahead(s, 1)
      left == parse("Conditional", s)
      right == parse("AssignmentExpression", scanOne(left))
  IN  CASE Is(s, "yield") /\ (s.c.yield \/ operandFollowsOnLine(s)) -> parseYield(s)
        [] Is(s, "async") /\ next = "function" -> parse("FunctionExpression", Give(scanOne(s), {"async"}))
        [] Is(s, "async") /\ (isAlwaysIdentifier(next) \/ next \in {"(", "<"}) -> parse("AsyncArrowFunction", s)
        [] isAlwaysIdentifier(At(s)) /\ At(s) # "async" /\ next = "=>" -> parse("ArrowFunction", s)
        [] Is(s, "<") /\ isArrowHead(s) -> parse("ArrowFunction", s)
        [] OTHER -> IF At(left) \in AssignmentOperators
                    THEN Give(right, Node("BinaryExpression", At(left), {}, <<left.n, right.n>>)) ELSE left

(* The operators after a left operand, down to a precedence. *)
RECURSIVE binaryRest(_, _)
binaryRest(s, minPrecedence) ==
  LET precedence == binaryPrecedence(At(s), s.c.noIn)
      type == parse("Type", scanOne(s))
      right == parseBinary(scanOne(s), IF Is(s, "**") THEN precedence - 1 ELSE precedence)
  IN  CASE At(s) \in {"as", "satisfies"} ->
             IF 10 <= minPrecedence THEN s
             ELSE binaryRest(Give(type, Node("AsExpression", At(s), {}, <<s.n, type.n>>)), minPrecedence)
        [] precedence <= minPrecedence \/ precedence <= 2 -> s
        [] OTHER -> binaryRest(Give(right, Node("BinaryExpression", At(s), {}, <<s.n, right.n>>)), minPrecedence)

parseBinary(s, minPrecedence) == binaryRest(parse("Unary", s), minPrecedence)

RECURSIVE postfixRest(_)
postfixRest(s) ==
  IF At(s) \notin {"++", "--"} THEN s
  ELSE postfixRest(Give(scanOne(s), Node("PostfixUnaryExpression", At(s), {}, <<s.n>>)))

parsePostfix(s) == postfixRest(parse("LeftHandSide", s))

parseUnary(s) ==
  LET operand == parse("Unary", scanOne(s))
      type == parse("Type", scanOne(s))
      cast == parse("Unary", expect(type, ">"))
  IN  CASE At(s) \in {"+", "-", "~", "!", "++", "--", "delete", "typeof", "void"} ->
             Give(operand, Node("PrefixUnaryExpression", At(s), {}, <<operand.n>>))
        [] Is(s, "await") /\ (s.c.await \/ operandFollowsOnLine(s)) ->
             Give(operand, Node("AwaitExpression", "", {}, <<operand.n>>))
        [] Is(s, "<") /\ Ahead(s, 1) # "=" ->
             Give(cast, Node("TypeAssertionExpression", "", {}, <<type.n, cast.n>>))
        [] OTHER -> parsePostfix(s)

Leaf(s, kind) == Give(scanOne(s), Node(kind, At(s), {}, <<>>))
Bracketed(s, kind, list, close) ==
  LET l == parseDelimitedList(list, scanOne(s)) IN Give(expect(l, close), Node(kind, "", {}, l.n))

parseParenthesizedOrArrow(s) ==
  LET e == parse("Expression", scanOne(s))
  IN  IF isArrowHead(s) THEN parse("ArrowFunction", s)
      ELSE Give(expect(e, ")"), Node("ParenthesizedExpression", "", {}, <<e.n>>))

parseArguments(s) ==
  LET l == parseDelimitedList("Arguments", expect(Under(s, noIn(s, FALSE)), "("))
  IN  Give(expect(Under(l, s.c), ")"), l.n)

RECURSIVE templateSpans(_)
templateSpans(s) ==
  LET e == parse("Expression", s)
  IN  CASE Is(e, "tail") -> Give(scanOne(e), <<e.n>>)
        [] Is(e, "middle") -> LET more == templateSpans(scanOne(e)) IN Give(more, <<e.n>> \o more.n)
        [] OTHER -> Fail(e)

parseTemplateLiteral(s) ==
  LET spans == templateSpans(scanOne(s))
  IN  IF Is(s, "quasi") THEN Give(scanOne(s), Node("TemplateExpression", "", {}, <<>>))
      ELSE Give(spans, Node("TemplateExpression", "", {}, spans.n))

parseMemberName(s) ==
  IF isWord(At(s)) \/ At(s) \in Literals \cup PrivateNames THEN Leaf(s, "Identifier") ELSE Fail(s)

parsePropertyName(s) ==
  LET e == parse("AssignmentExpression", scanOne(s))
  IN  CASE Is(s, "[") -> Give(expect(e, "]"), Node("ComputedPropertyName", "", {}, <<e.n>>))
        [] At(s) \in Literals -> Leaf(s, "Literal")
        [] isWord(At(s)) \/ At(s) \in PrivateNames -> Leaf(s, "Identifier")
        [] OTHER -> Fail(s)

(* A method from its name on; only the body is read under the flags given. *)
parseMethod(s, flags, bodyFlags) ==
  LET name == parse("PropertyName", s)
      sig == parse("Signature", name)
      body == parse("Block", Under(sig, bodyFlags))
  IN  Give(Under(body, s.c), Node("MethodDeclaration", "", flags, <<name.n>> \o FunctionKids(sig.n, body.n)))

parseObjectMember(s) ==
  LET async == Is(s, "async") /\ nextCanFollowModifier(s)
      name == parse("PropertyName", s)
      value == parse("AssignmentExpression", scanOne(name))
      Own(a) == [s.c EXCEPT !.await = a, !.yield = FALSE]
  IN  CASE Is(s, "...") ->
             LET e == parse("AssignmentExpression", scanOne(s)) IN Give(e, Node("SpreadAssignment", "", {}, <<e.n>>))
        [] Is(s, "*") -> parseMethod(scanOne(s), {"generator"}, s.c)
        [] At(s) \in {"get", "set"} /\ Ahead(s, 1) \notin {",", "}", ":", "(", "="} ->
             LET m == parseMethod(scanOne(s), {}, s.c)
             IN  Give(m, [m.n EXCEPT !.kind = "Accessor", !.op = At(s)])
        [] async /\ Ahead(s, 1) = "*" ->
             parseMethod(scanOne(scanOne(s)), {"async", "generator"}, [s.c EXCEPT !.await = TRUE, !.yield = TRUE])
        [] At(name) \in {"(", "<"} -> parseMethod(s, {}, Own(FALSE))
        [] async /\ isStartOfPropertyName(At(name)) -> parseMethod(scanOne(s), {"async"}, Own(TRUE))
        [] Is(name, ":") -> Give(value, Node("PropertyAssignment", "", {}, <<name.n, value.n>>))
        [] Is(name, "=") -> Give(value, Node("ShorthandPropertyAssignment", "", {}, <<name.n, value.n>>))
        [] OTHER -> Give(name, Node("ShorthandPropertyAssignment", "", {}, <<name.n, None>>))

parseElement(s) == IF Is(s, ",") THEN Give(s, Node("OmittedExpression", "", {}, <<>>)) ELSE parseSpreadOr(s)

parseHeritageType(s) ==
  LET e == parse("LeftHandSide", s)
      args == Maybe(e, Is(e, "<"), "TypeArgumentList")
  IN  Give(args, Node("ExpressionWithTypeArguments", "", {}, <<e.n, args.n>>))

parseEntityName(s, keywordFirst) ==
  LET RECURSIVE parts(_)
      parts(r) == IF ~Is(r, ".") THEN Give(r, <<>>)
                  ELSE IF ~isWord(Ahead(r, 1)) THEN Fail(r)
                  ELSE LET more == parts(scanOne(scanOne(r))) IN Give(more, <<Ahead(r, 1)>> \o more.n)
      rest == parts(scanOne(s))
  IN  IF isAlwaysIdentifier(At(s)) \/ At(s) \in {"this", "const"} \/ (keywordFirst /\ tokenIsKeyword(At(s)))
      THEN Give(rest, [i \in 1..Len(rest.n) + 1 |-> Node("Identifier", IF i = 1 THEN At(s) ELSE rest.n[i - 1], {}, <<>>)])
      ELSE Fail(s)

parseTypeReference(s) ==
  LET name == parse("EntityName", s)
      args == Maybe(name, Is(name, "<"), "TypeArgumentList")
  IN  Give(args, Node("TypeReference", "", {}, <<args.n>> \o name.n))

RECURSIVE heritageTypes(_, _)
heritageTypes(s, keyword) ==
  LET t == IF keyword = "extends" THEN parse("HeritageType", s) ELSE parse("TypeReference", s)
      more == heritageTypes(scanOne(t), keyword)
  IN  IF Is(t, ",") THEN Give(more, <<t.n>> \o more.n) ELSE Give(t, <<t.n>>)

heritageClauses(s) ==
  LET types == heritageTypes(scanOne(s), At(s))
      more == parse("HeritageClauses", types)
  IN  IF At(s) \notin {"extends", "implements"} THEN Give(s, <<>>)
      ELSE Give(more, <<Node("HeritageClause", At(s), {}, types.n)>> \o more.n)

parseClassLike(s, kind, flags) ==
  LET class == expect(s, "class")
      named == isBindingIdentifier(At(class)) /\ At(class) # "implements"
      name == IF named THEN scanOne(class) ELSE class
      tp == Maybe(name, Is(name, "<"), "TypeParameterList")
      heritage == parse("HeritageClauses", tp)
      members == parseList("ClassMembers", expect(heritage, "{"))
  IN  Give(expect(members, "}"),
           Node(kind, IF named THEN At(class) ELSE "", flags,
                <<tp.n, Node("Heritage", "", {}, heritage.n), Node("Members", "", {}, members.n)>>))

primaryAt(s) ==
  LET next == Ahead(s, 1)
      callee == parse("NewCallee", scanOne(s))
      newArgs == IF Is(callee, "(") THEN parse("CallArguments", callee) ELSE Give(callee, <<>>)
      importArgs == parse("CallArguments", scanOne(s))
      members == parseDelimitedList("ObjectLiteralMembers", scanOne(s))
  IN  CASE At(s) \in {"this", "super"} -> Leaf(s, "Keyword")
        [] At(s) \in Literals \cup {"true", "false", "null"} -> Leaf(s, "Literal")
        [] At(s) \in Templates -> parseTemplateLiteral(s)
        [] Is(s, "(") -> parseParenthesizedOrArrow(s)
        [] Is(s, "[") -> Bracketed(s, "ArrayLiteralExpression", "ArrayLiteralMembers", "]")
        [] Is(s, "{") -> Bracketed(s, "ObjectLiteralExpression", "ObjectLiteralMembers", "}")
        [] Is(s, "function") -> parse("FunctionExpression", Give(s, {}))
        [] Is(s, "class") -> parse("ClassExpression", Give(s, {}))
        [] At(s) \in {"new", "import"} /\ next = "." ->
             IF isAlwaysIdentifier(Ahead(s, 2))
             THEN Give(scanOne(scanOne(scanOne(s))), Node("MetaProperty", At(s), {}, <<Node("Identifier", Ahead(s, 2), {}, <<>>)>>))
             ELSE Fail(s)
        [] Is(s, "new") -> Give(newArgs, Node("NewExpression", "", {}, <<callee.n>> \o newArgs.n))
        [] Is(s, "import") /\ next = "(" ->
             Give(importArgs, Node("CallExpression", "", {}, <<Node("ImportKeyword", "", {}, <<>>)>> \o importArgs.n))
        [] At(s) \in PrivateNames \/ isBindingIdentifier(At(s)) -> Leaf(s, "Identifier")
        [] OTHER -> Fail(s)

parsePrimary(s0) == Under(primaryAt(Under(s0, noIn(s0, FALSE))), s0.c)

(* The accesses and calls after an expression. A `new` stops at its own call. *)
parseCallChain(s, stopAtCall) ==
  LET Grow(r, kind, op, flags, kids) == parseCallChain(Give(r, Node(kind, op, flags, <<s.n>> \o kids)), stopAtCall)
      Call(r, op) == LET a == parse("CallArguments", r) IN Grow(a, "CallExpression", op, {}, a.n)
      Access(r, flags) == LET m == parseMemberName(r) IN Grow(m, "PropertyAccessExpression", "", flags, <<m.n>>)
      types == parse("TypeArgumentList", s)
      quasi == parseTemplateLiteral(s)
      index == parse("Expression", Under(scanOne(s), noIn(s, FALSE)))
      optionalIndex == parse("AssignmentExpression", scanOne(scanOne(s)))
  IN  CASE Is(s, "<") /\ ~Failed(types) /\ canFollowTypeArguments(types) ->
             Grow(types, "ExpressionWithTypeArguments", "", {}, <<types.n>>)
        [] At(s) \in Templates -> Grow(quasi, "TaggedTemplateExpression", "", {}, <<quasi.n>>)
        [] Is(s, ".") -> Access(scanOne(s), {})
        [] Is(s, "[") -> Grow(expect(Under(index, s.c), "]"), "ElementAccessExpression", "", {}, <<index.n>>)
        [] Is(s, "(") /\ ~stopAtCall -> Call(s, "")
        [] Is(s, "?.") /\ Ahead(s, 1) = "(" -> Call(scanOne(s), "?.")
        [] Is(s, "?.") /\ Ahead(s, 1) = "[" ->
             Grow(expect(optionalIndex, "]"), "ElementAccessExpression", "", {"optional"}, <<optionalIndex.n>>)
        [] Is(s, "?.") -> Access(scanOne(s), {"optional"})
        [] Is(s, "!") -> Grow(scanOne(s), "NonNullExpression", "", {}, <<>>)
        [] OTHER -> s

-----------------------------------------------------------------------------
(* declarations.cc: bindings and class members.                              *)

parseBindingPattern(s) ==
  CASE Is(s, "[") -> Bracketed(s, "ArrayBindingPattern", "ArrayBindingElements", "]")
    [] Is(s, "{") -> Bracketed(s, "ObjectBindingPattern", "ObjectBindingElements", "}")
    [] isBindingIdentifier(At(s)) \/ At(s) \in PrivateNames \cup {"this"} -> Leaf(s, "Identifier")
    [] OTHER -> Fail(s)

parseBindingElement(s, inArrayPattern) ==
  LET r == eat(s, "...")
      key == CASE ~inArrayPattern -> parse("PropertyName", r)
               [] Is(r, ",") -> Give(r, Node("OmittedExpression", "", {}, <<>>))
               [] OTHER -> parse("BindingPattern", r)
      target == After(key, ":", "BindingPattern")
      init == After(target, "=", "AssignmentExpression")
  IN  Give(init, Node("BindingElement", "", IF Is(s, "...") THEN {"rest"} ELSE {}, <<key.n, target.n, init.n>>))

(* The modifiers before a member's name, as a set. *)
modifiersOf(s) ==
  LET more == parse("Modifiers", scanOne(s))
      word == \/ /\ At(s) \in {"public", "private", "protected", "static", "readonly", "abstract", "override",
                               "declare", "accessor"}
                 /\ nextCanFollowModifier(s)
              \/ Is(s, "async") /\ (isStartOfPropertyName(Ahead(s, 1)) \/ Ahead(s, 1) = "*")
  IN  IF word THEN Give(more, {At(s)} \cup more.n) ELSE Give(s, {})

parseIndexSignatureRest(s) ==
  LET flags == s.n
      name == parse("BindingPattern", scanOne(s))
      key == After(eat(name, "?"), ":", "Type")
      type == After(expect(key, "]"), ":", "Type")
      optional == IF Is(name, "?") THEN {"optional"} ELSE {}
  IN  Give(type, Node("IndexSignature", "", flags, <<type.n, Node("Parameter", "", optional, <<name.n, key.n, None>>)>>))

parseClassMember(s) ==
  LET m == parse("Modifiers", s)
      star == eat(m, "*")
      flags == m.n \cup (IF Is(m, "*") THEN {"generator"} ELSE {})
      index == parse("IndexSignature", Give(star, flags))
      isConstructor == Is(star, "constructor")
      accessor == At(star) \in {"get", "set"} /\ nextCanFollowModifier(star)
      name == parse("PropertyName", IF accessor THEN scanOne(star) ELSE star)
      optional == IF Is(name, "?") THEN {"optional"} ELSE {}
      method == \/ isConstructor \/ accessor \/ "generator" \in flags \/ At(name) \in {"(", "<"}
                \/ Is(name, "?") /\ Ahead(name, 1) \in {"(", "<"}
      sig == parse("Signature", eat(name, "?"))
      block == parse("Block", Under(sig, [s.c EXCEPT !.yield = "generator" \in flags, !.await = "async" \in flags]))
      body == IF Is(sig, "{") THEN Under(block, s.c) ELSE Give(expectSemicolon(sig), None)
      bang == eat(name, "?")
      type == After(eat(bang, "!"), ":", "Type")
      value == After(type, "=", "AssignmentExpression")
  IN  CASE Is(s, ";") -> Leaf(s, "SemicolonClassElement")
        [] Is(s, "static") /\ Ahead(s, 1) = "{" ->
             LET b == parse("Block", Under(scanOne(s), [s.c EXCEPT !.yield = FALSE, !.await = FALSE]))
             IN  Give(Under(b, s.c), Node("ClassStaticBlockDeclaration", "", {}, b.n.kids))
        [] isIndexSignatureStart(star) -> Give(eat(index, ";"), index.n)
        [] method ->
             Give(body, Node(CASE isConstructor -> "ConstructorNode" [] accessor -> "Accessor" [] OTHER -> "MethodDeclaration",
                             IF accessor THEN At(star) ELSE "", flags \cup optional,
                             <<name.n>> \o FunctionKids(sig.n, body.n)))
        [] OTHER ->
             endStatement(value, Node("PropertyDeclaration", "", flags \cup optional \cup (IF Is(bang, "!") THEN {"definite"} ELSE {}),
                                      <<name.n, type.n, value.n>>))

-----------------------------------------------------------------------------
(* types.cc.                                                                 *)

TypeKeywords == {"any", "unknown", "number", "object", "boolean", "string", "symbol", "undefined", "never"}

parsePredicateName(s) == Leaf(s, "Identifier")
parseTypeParameterName(s) == IF isAlwaysIdentifier(At(s)) THEN Leaf(s, "Identifier") ELSE Fail(s)

parseTypeParameter(s) ==
  LET const == eat(s, "const")
      RECURSIVE variance(_)
      variance(r) == IF Is(r, "in") \/ (Is(r, "out") /\ wordFollows(r))
                     THEN LET more == variance(scanOne(r)) IN Give(more, {At(r)} \cup more.n) ELSE Give(r, {})
      v == variance(const)
      name == parseTypeParameterName(v)
      constraint == After(name, "extends", "Type")
      default == After(constraint, "=", "Type")
  IN  Give(default, Node("TypeParameter", At(v), v.n \cup (IF Is(s, "const") THEN {"const"} ELSE {}),
                         <<constraint.n, default.n>>))

RECURSIVE operandList(_, _)

(* A union of intersections of operator types. *)
parseOperands(s, operator, kind) ==
  LET all == operandList(eat(s, operator), operator)
  IN  IF Len(all.n) = 1 THEN Give(all, all.n[1]) ELSE Give(all, Node(kind, "", {}, all.n))

parseIntersectionType(s) == parseOperands(s, "&", "IntersectionType")
parseUnionType(s) == parseOperands(s, "|", "UnionType")

operandList(s, operator) ==
  LET o == IF operator = "|" THEN parse("IntersectionType", s) ELSE parse("TypeOperator", s)
      more == operandList(scanOne(o), operator)
  IN  IF Is(o, operator) THEN Give(more, <<o.n>> \o more.n) ELSE Give(o, <<o.n>>)

parseTypeOperator(s) ==
  LET operand == parse("TypeOperator", scanOne(s))
  IN  IF At(s) \in {"keyof", "unique", "readonly"} THEN Give(operand, Node("TypeOperator", At(s), {}, <<operand.n>>))
      ELSE parsePostfixType(parse("PrimaryType", s))

parsePostfixType(s) ==
  LET index == parse("Type", Under(scanOne(s), noCond(s, FALSE)))
  IN  CASE Is(s, "[") /\ Ahead(s, 1) = "]" ->
             parsePostfixType(Give(scanOne(scanOne(s)), Node("ArrayType", "", {}, <<s.n>>)))
        [] Is(s, "[") -> parsePostfixType(Give(expect(Under(index, s.c), "]"), Node("IndexedAccessType", "", {}, <<s.n, index.n>>)))
        [] OTHER -> s

parseConditionalType(s) ==
  LET check == parse("UnionType", s)
      extends == Under(parse("UnionType", Under(scanOne(check), noCond(s, TRUE))), s.c)
      yes == parse("Type", expect(extends, "?"))
      no == parse("Type", expect(yes, ":"))
  IN  IF s.c.noCond \/ ~Is(check, "extends") THEN check
      ELSE Give(no, Node("ConditionalType", "", {}, <<check.n, extends.n, yes.n, no.n>>))

(* parseTypeOrTypePredicate *)
parseType(s) ==
  LET asserts == Is(s, "asserts")
      name == parsePredicateName(IF asserts THEN scanOne(s) ELSE s)
      type == After(name, "is", "Type")
  IN  IF asserts \/ ((isAlwaysIdentifier(At(s)) \/ Is(s, "this")) /\ Ahead(s, 1) = "is")
      THEN Give(type, Node("TypePredicate", "", IF asserts THEN {"asserts"} ELSE {}, <<name.n, type.n>>))
      ELSE parseConditionalType(s)

parseFunctionType(s, kind, flags) ==
  LET tp == Maybe(s, Is(s, "<"), "TypeParameterList")
      ps == parseDelimitedList("Parameters", expect(tp, "("))
      rt == parse("Type", Under(expect(expect(ps, ")"), "=>"), noCond(s, FALSE)))
  IN  Give(Under(rt, s.c), Node(kind, "", flags, <<tp.n, rt.n>> \o ps.n))

parseTupleElement(s) ==
  LET Named(r, flags) ==
        LET type == parse("Type", scanOne(eat(scanOne(r), "?")))
        IN  Give(type, Node("NamedTupleMember", At(r), flags \cup (IF Ahead(r, 1) = "?" THEN {"optional"} ELSE {}), <<type.n>>))
      rest == parse("Type", scanOne(s))
      type == parse("Type", s)
  IN  CASE Is(s, "...") /\ isAlwaysIdentifier(Ahead(s, 1)) /\ Ahead(s, 2) = ":" -> Named(scanOne(s), {"rest"})
        [] Is(s, "...") -> Give(rest, Node("RestType", "", {}, <<rest.n>>))
        [] isAlwaysIdentifier(At(s)) /\ (Ahead(s, 1) = ":" \/ (Ahead(s, 1) = "?" /\ Ahead(s, 2) = ":")) -> Named(s, {})
        [] OTHER -> IF Is(type, "?") THEN Give(scanOne(type), Node("OptionalType", "", {}, <<type.n>>)) ELSE type

(* From `infer` on: a constraint followed by `?` is the conditional's own     *)
(* `extends`, unless this is the operand of one.                             *)
parseInfer(s) ==
  LET name == parseTypeParameterName(scanOne(s))
      bound == Under(parse("UnionType", Under(scanOne(name), noCond(s, TRUE))), s.c)
      keep == Is(name, "extends") /\ (s.c.noCond \/ ~Is(bound, "?"))
  IN  Give(IF keep THEN bound ELSE name, Node("InferType", Ahead(s, 1), {}, <<IF keep THEN bound.n ELSE None>>))

parseMappedType(s) ==
  LET Sign(r) == IF At(r) \in {"+", "-"} THEN At(r) ELSE ""
      AfterSign(r) == IF Sign(r) = "" THEN r ELSE scanOne(r)
      open == AfterSign(s)
      bracket == eat(open, "readonly")
      name == expect(bracket, "[")
      over == parse("Type", expect(scanOne(name), "in"))
      as == After(over, "as", "Type")
      close == expect(as, "]")
      type == After(eat(AfterSign(close), "?"), ":", "Type")
      end == IF At(type) \in {";", ","} THEN scanOne(type) ELSE type
  IN  Give(expect(end, "}"),
           Node("MappedType", At(name),
                (IF Is(open, "readonly") THEN {Sign(s) \o "readonly"} ELSE {})
                \cup (IF Is(AfterSign(close), "?") THEN {Sign(close) \o "?"} ELSE {}), <<over.n, as.n, type.n>>))

isMappedType(s) ==
  LET sign == IF At(s) \in {"+", "-"} THEN scanOne(s) ELSE s
      open == eat(sign, "readonly")
  IN  Is(open, "[") /\ isAlwaysIdentifier(Ahead(open, 1)) /\ Ahead(open, 2) = "in"

RECURSIVE typeSpans(_)
typeSpans(s) ==
  LET t == parse("Type", s)
  IN  CASE Is(t, "tail") -> Give(scanOne(t), <<t.n>>)
        [] Is(t, "middle") -> LET more == typeSpans(scanOne(t)) IN Give(more, <<t.n>> \o more.n)
        [] OTHER -> Fail(t)

parseImportType(s, flags) ==
  LET closed == expect(expect(expect(s, "("), "str"), ")")
      name == IF Is(closed, ".") THEN parse("QualifiedName", scanOne(closed)) ELSE Give(closed, <<>>)
      args == Maybe(name, Is(name, "<"), "TypeArgumentList")
  IN  Give(args, Node("ImportType", "", flags, <<args.n>> \o name.n))

parseTypeQuery(s) ==
  LET name == parse("EntityName", s)
      args == Maybe(name, Is(name, "<"), "TypeArgumentList")
  IN  Give(args, Node("TypeQuery", "", {}, <<args.n>> \o name.n))

parsePrimaryType(s) ==
  LET open == Under(s, noCond(s, FALSE))
      inner == parse("Type", scanOne(open))
      members == parseList("TypeMembers", scanOne(open))
      spans == typeSpans(scanOne(s))
      Literal(r) == Give(scanOne(r), Node("LiteralType", "", IF r.p = s.p THEN {} ELSE {"minus"}, <<Node("Literal", At(r), {}, <<>>)>>))
  IN  CASE Is(s, "(") -> IF isArrowHead(s) THEN parse("FunctionType", Give(s, {}))
                         ELSE Give(expect(Under(inner, s.c), ")"), Node("ParenthesizedType", "", {}, <<inner.n>>))
        [] Is(s, "[") -> Under(Bracketed(open, "TupleType", "TupleElements", "]"), s.c)
        [] Is(s, "{") -> IF isMappedType(scanOne(s)) THEN parseMappedType(scanOne(s))
                         ELSE Give(expect(Under(members, s.c), "}"), Node("TypeLiteral", "", {}, members.n))
        [] Is(s, "<") -> parse("FunctionType", Give(s, {}))
        [] Is(s, "new") -> parse("ConstructorType", Give(scanOne(s), {}))
        [] Is(s, "abstract") /\ Ahead(s, 1) = "new" -> parse("ConstructorType", Give(scanOne(scanOne(s)), {"abstract"}))
        [] Is(s, "typeof") /\ Ahead(s, 1) # "import" -> parseTypeQuery(scanOne(s))
        [] Is(s, "import") -> parse("ImportType", Give(scanOne(s), {}))
        [] Is(s, "typeof") -> parse("ImportType", Give(scanOne(scanOne(s)), {"typeof"}))
        [] Is(s, "infer") -> parseInfer(s)
        [] At(s) \in {"this", "void"} -> Leaf(s, "KeywordType")
        [] At(s) \in TypeKeywords /\ Ahead(s, 1) # "." -> Leaf(s, "KeywordType")
        [] Is(s, "-") -> Literal(scanOne(s))
        [] At(s) \in Literals \cup {"true", "false", "null"} -> Literal(s)
        [] Is(s, "quasi") -> Give(scanOne(s), Node("TemplateLiteralType", "", {}, <<>>))
        [] Is(s, "head") -> Give(spans, Node("TemplateLiteralType", "", {}, spans.n))
        [] isAlwaysIdentifier(At(s)) \/ Is(s, "const") -> parseTypeReference(s)
        [] OTHER -> Fail(s)

parseTypeMember(s) ==
  LET readonly == Is(s, "readonly") /\ (wordFollows(s) \/ Ahead(s, 1) \in Literals \cup {"["})
      m == IF readonly THEN scanOne(s) ELSE s
      flags == IF readonly THEN {"readonly"} ELSE {}
      index == parse("IndexSignature", Give(m, flags))
      construct == Is(m, "new") /\ Ahead(m, 1) \in {"(", "<"}
      callSig == parse("Signature", IF construct THEN scanOne(m) ELSE m)
      accessor == At(m) \in {"get", "set"} /\ nextCanFollowModifier(m)
      name == parse("PropertyName", IF accessor THEN scanOne(m) ELSE m)
      more == flags \cup (IF Is(name, "?") THEN {"optional"} ELSE {})
      after == eat(name, "?")
      sig == parse("Signature", after)
      type == After(after, ":", "Type")
      Separated(r, n) == Give(IF At(r) \in {";", ","} THEN scanOne(r) ELSE r, n)
  IN  CASE isIndexSignatureStart(m) -> Separated(index, index.n)
        [] construct \/ At(m) \in {"(", "<"} ->
             Separated(callSig, Node(IF construct THEN "ConstructSignature" ELSE "CallSignature", "", flags, callSig.n))
        [] At(after) \in {"(", "<"} ->
             Separated(sig, Node("MethodSignature", IF accessor THEN At(m) ELSE "", more, <<name.n>> \o sig.n))
        [] OTHER -> Separated(type, Node("PropertySignature", "", more, <<name.n, type.n>>))

parseTypeLiteralBody(s) ==
  LET l == parseList("TypeMembers", expect(s, "{")) IN Give(expect(l, "}"), Node("TypeLiteral", "", {}, l.n))

-----------------------------------------------------------------------------
(* statements.cc.                                                            *)

parseVariableDeclaration(s) ==
  LET target == parse("BindingPattern", s)
      type == After(eat(target, "!"), ":", "Type")
      init == After(type, "=", "AssignmentExpression")
  IN  Give(init, Node("VariableDeclaration", "", IF Is(target, "!") THEN {"definite"} ELSE {}, <<target.n, type.n, init.n>>))

RECURSIVE declarations(_)
declarations(s) ==
  LET d == parseVariableDeclaration(s)
      more == declarations(scanOne(d))
  IN  IF Is(d, ",") THEN Give(more, <<d.n>> \o more.n) ELSE Give(d, <<d.n>>)

parseVariableDeclarationList(s) ==
  LET all == declarations(scanOne(s)) IN Give(all, Node("VariableDeclarationList", At(s), {}, all.n))

parseVariableStatement(s, flags) ==
  LET list == parse("VariableDeclarationList", s)
  IN  endStatement(list, Node("VariableStatement", "", flags, <<list.n>>))

parseExpressionOrLabeledStatement(s) ==
  LET body == parse("Statement", scanOne(scanOne(s)))
      e == parse("Expression", s)
  IN  IF isAlwaysIdentifier(At(s)) /\ At(s) # "async" /\ Ahead(s, 1) = ":"
      THEN Give(body, Node("LabeledStatement", At(s), {}, <<body.n>>))
      ELSE endStatement(e, Node("ExpressionStatement", "", {}, <<e.n>>))

(* A head in parentheses. *)
parseHead(s) == LET e == parse("Expression", expect(s, "(")) IN Give(expect(e, ")"), e.n)

parseIfStatement(s) ==
  LET test == parseHead(scanOne(s))
      yes == parse("Statement", test)
      no == After(yes, "else", "Statement")
  IN  Give(no, Node("IfStatement", "", {}, <<test.n, yes.n, no.n>>))

parseWhileStatement(s) ==
  LET test == parseHead(scanOne(s))
      body == parse("Statement", test)
  IN  Give(body, Node("WhileStatement", At(s), {}, <<test.n, body.n>>))

parseDoStatement(s) ==
  LET body == parse("Statement", scanOne(s))
      test == parseHead(expect(body, "while"))
  IN  Give(eat(test, ";"), Node("DoStatement", "", {}, <<body.n, test.n>>))

forOver(init, flags) ==
  LET over == parse("Expression", scanOne(init))
      body == parse("Statement", expect(over, ")"))
  IN  Give(body, Node(IF Is(init, "of") THEN "ForOfStatement" ELSE "ForInStatement", "", flags, <<init.n, over.n, body.n>>))

forWithTest(init) ==
  LET first == expect(init, ";")
      test == Maybe(first, ~Is(first, ";"), "Expression")
      second == expect(test, ";")
      update == Maybe(second, ~Is(second, ")"), "Expression")
      body == parse("Statement", expect(update, ")"))
  IN  Give(body, Node("ForStatement", "", {}, <<init.n, test.n, update.n, body.n>>))

parseForStatement(s) ==
  LET flags == IF Is(scanOne(s), "await") THEN {"await"} ELSE {}
      h == expect(eat(scanOne(s), "await"), "(")
      u == Under(h, noIn(h, TRUE))
      init == CASE At(h) \in {";", "of", "in"} -> Give(h, None)
                [] startsVariables(h) -> Under(parse("VariableDeclarationList", u), s.c)
                [] OTHER -> Under(parse("AssignmentExpression", u), s.c)
  IN  IF At(init) \in {"of", "in"} THEN forOver(init, flags) ELSE forWithTest(init)

parseBreakOrContinue(s, kind) ==
  LET named == isAlwaysIdentifier(Ahead(s, 1))
  IN  endStatement(IF named THEN scanOne(scanOne(s)) ELSE scanOne(s),
                   Node(kind, IF named THEN Ahead(s, 1) ELSE "", {}, <<>>))

parseReturnStatement(s, kind) ==
  LET e == Maybe(scanOne(s), Ahead(s, 1) \notin {";", "}", "eof"}, "Expression")
  IN  endStatement(e, Node(kind, "", {}, <<e.n>>))

parseTryStatement(s) ==
  LET block == parse("Block", scanOne(s))
      bound == eat(block, "catch")
      name == parse("BindingPattern", scanOne(bound))
      type == After(name, ":", "Type")
      variable == IF ~Is(bound, "(") THEN Give(bound, None)
                  ELSE Give(expect(type, ")"), Node("VariableDeclaration", "", {}, <<name.n, type.n, None>>))
      body == parse("Block", variable)
      handler == IF Is(block, "catch") THEN Give(body, Node("CatchClause", "", {}, <<variable.n, body.n>>))
                 ELSE Give(block, None)
      finalizer == After(handler, "finally", "Block")
  IN  Give(finalizer, Node("TryStatement", "", {}, <<block.n, handler.n, finalizer.n>>))

parseSwitchClause(s) ==
  LET test == Maybe(scanOne(s), Is(s, "case"), "Expression")
      body == parseList("SwitchClauseStatements", expect(test, ":"))
  IN  Give(body, Node("SwitchClause", "", {}, <<test.n>> \o body.n))

parseSwitchStatement(s) ==
  LET value == parseHead(scanOne(s))
      clauses == parseList("SwitchClauses", expect(value, "{"))
  IN  Give(expect(clauses, "}"), Node("SwitchStatement", "", {}, <<value.n>> \o clauses.n))

-----------------------------------------------------------------------------
(* declarations.cc: modules and TypeScript's declarations.                   *)

parseTypeAlias(s, flags) ==
  LET tp == Maybe(scanOne(scanOne(s)), Ahead(s, 2) = "<", "TypeParameterList")
      type == parse("Type", expect(tp, "="))
  IN  endStatement(type, Node("TypeAliasDeclaration", Ahead(s, 1), flags, <<tp.n, type.n>>))

parseInterfaceDeclaration(s, flags) ==
  LET tp == Maybe(scanOne(scanOne(s)), Ahead(s, 2) = "<", "TypeParameterList")
      heritage == IF Is(tp, "extends") THEN parse("HeritageClauses", tp) ELSE Give(tp, <<>>)
      body == parseTypeLiteralBody(heritage)
  IN  Give(body, Node("InterfaceDeclaration", Ahead(s, 1), flags, <<tp.n, Node("Heritage", "", {}, heritage.n), body.n>>))

parseEnumMember(s) ==
  LET name == parse("PropertyName", s)
      init == After(name, "=", "AssignmentExpression")
  IN  Give(init, Node("EnumMember", "", {}, <<name.n, init.n>>))

parseEnumDeclaration(s, flags) ==
  LET name == expect(eat(s, "const"), "enum")
      members == parseDelimitedList("EnumMembers", expect(scanOne(name), "{"))
  IN  Give(expect(members, "}"),
           Node("EnumDeclaration", At(name), flags \cup (IF Is(s, "const") THEN {"const"} ELSE {}), members.n))

parseModuleDeclaration(s, flags) ==
  LET name == IF At(s) \in {"module", "namespace"} THEN scanOne(s) ELSE s
      RECURSIVE parts(_)
      parts(r) == IF Is(r, ".") THEN LET more == parts(scanOne(scanOne(r))) IN Give(more, <<Ahead(r, 1)>> \o more.n)
                  ELSE Give(r, <<>>)
      rest == parts(scanOne(name))
      names == <<At(name)>> \o rest.n
      block == parse("Block", rest)
      Declaration(b) == Node("ModuleDeclaration", At(s), flags, <<b>> \o [i \in DOMAIN names |-> Node("Identifier", names[i], {}, <<>>)])
  IN  IF Is(rest, "{") THEN Give(block, Declaration(block.n)) ELSE endStatement(rest, Declaration(None))

parseSpecifier(s) ==
  LET type == Is(s, "type") /\ Ahead(s, 1) \notin {",", "}", "as"}
      name == IF type THEN scanOne(s) ELSE s
      alias == IF Ahead(name, 1) = "as" THEN scanOne(scanOne(name)) ELSE name
      Named(r) == At(r) = "str" \/ isWord(At(r))
  IN  IF Named(name) /\ Named(alias)
      THEN Give(scanOne(alias), Node("Specifier", At(name), IF type THEN {"type"} ELSE {}, <<Node("Identifier", At(alias), {}, <<>>)>>))
      ELSE Fail(s)

parseImportOrExportClause(s, kind) == Bracketed(s, kind, "ImportOrExportSpecifiers", "}")

parseNamespaceImportOrExport(s, kind) ==
  LET name == expect(expect(s, "*"), "as")
  IN  IF isAlwaysIdentifier(At(name)) \/ Is(name, "str") THEN Give(scanOne(name), Node(kind, At(name), {}, <<>>)) ELSE Fail(name)

importEquals(name, flags) ==
  LET equals == expect(scanOne(name), "=")
      required == expect(expect(expect(scanOne(equals), "("), "str"), ")")
      entity == parse("EntityName", equals)
  IN  IF Is(equals, "require")
      THEN endStatement(required, Node("ImportEqualsDeclaration", At(name), flags, <<>>))
      ELSE endStatement(entity, Node("ImportEqualsDeclaration", At(name), flags, entity.n))

importClause(clause, flags) ==
  LET default == isAlwaysIdentifier(At(clause))
      rest == eat(IF default THEN scanOne(clause) ELSE clause, ",")
      named == CASE Is(rest, "{") -> parseImportOrExportClause(rest, "NamedImports")
                 [] Is(rest, "*") -> parseNamespaceImportOrExport(rest, "NamespaceImport")
                 [] OTHER -> Give(rest, None)
  IN  IF Is(clause, "str")
      THEN endStatement(scanOne(clause), Node("ImportDeclaration", "", flags, <<None>>))
      ELSE endStatement(expect(expect(named, "from"), "str"),
                        Node("ImportDeclaration", IF default THEN At(clause) ELSE "", flags, <<named.n>>))

parseImportDeclaration(s) ==
  LET i == scanOne(s)
      typeEquals == Is(i, "type") /\ isAlwaysIdentifier(Ahead(i, 1)) /\ Ahead(i, 2) = "="
      typeOnly == Is(i, "type") /\ Ahead(i, 1) \notin {"from", ",", "="}
  IN  CASE typeEquals -> importEquals(scanOne(i), {"type"})
        [] isAlwaysIdentifier(At(i)) /\ Ahead(i, 1) = "=" -> importEquals(i, {})
        [] OTHER -> IF typeOnly THEN importClause(scanOne(i), {"type"}) ELSE importClause(i, {})

parseExportDefault(s) ==
  LET async == IF Is(s, "async") THEN {"async"} ELSE {}
      abstract == IF Is(s, "abstract") THEN {"abstract"} ELSE {}
      function == parse("FunctionDeclaration", Give(eat(s, "async"), async))
      class == parse("ClassDeclaration", Give(eat(s, "abstract"), abstract))
      interface == parse("InterfaceDeclaration", Give(s, {}))
      e == parse("AssignmentExpression", s)
      Default(d) == Give(d, Node("ExportDeclaration", "default", {}, <<d.n>>))
  IN  CASE At(s) \in {"function", "async"} -> Default(function)
        [] Is(s, "class") \/ (Is(s, "abstract") /\ Ahead(s, 1) = "class") -> Default(class)
        [] Is(s, "interface") /\ wordFollows(s) -> Default(interface)
        [] OTHER -> Default(expectSemicolon(e))

exportedFrom(clause, flags) ==
  LET from == IF Is(clause, "from") THEN eat(scanOne(clause), "str") ELSE clause
  IN  endStatement(from, Node("ExportDeclaration", IF Is(clause, "from") THEN "from" ELSE "", flags, <<clause.n>>))

parseExportDeclaration(s) ==
  LET e == scanOne(s)
      assigned == parse("AssignmentExpression", scanOne(e))
      type == Is(e, "type") /\ Ahead(e, 1) \in {"{", "*"}
      flags == IF type THEN {"type"} ELSE {}
      x == IF type THEN scanOne(e) ELSE e
      clause == CASE Is(x, "*") /\ Ahead(x, 1) = "as" -> parseNamespaceImportOrExport(x, "NamespaceExport")
                  [] Is(x, "*") -> Give(scanOne(x), None)
                  [] OTHER -> parseImportOrExportClause(x, "NamedExports")
      declaration == parse("Statement", x)
  IN  CASE Is(e, "=") -> endStatement(assigned, Node("ExportAssignment", "", {}, <<assigned.n>>))
        [] Is(e, "as") /\ Ahead(e, 1) = "namespace" ->
             endStatement(scanOne(scanOne(scanOne(e))), Node("NamespaceExportDeclaration", Ahead(e, 2), {}, <<>>))
        [] Is(e, "default") -> parseExportDefault(scanOne(e))
        [] At(x) \in {"*", "{"} -> exportedFrom(clause, flags)
        [] OTHER -> Give(declaration, Node("ExportDeclaration", "declaration", flags, <<declaration.n>>))

-----------------------------------------------------------------------------
(* The statement that a token starts, and the lists.                         *)

parseDeclare(s) ==
  LET d == scanOne(s)
      next == At(d)
      Abstract == IF next = "abstract" THEN {"abstract"} ELSE {}
  IN  CASE next = "function" -> parse("FunctionDeclaration", Give(d, {"declare"}))
        [] next = "enum" \/ (next = "const" /\ Ahead(d, 1) = "enum") -> parse("EnumDeclaration", Give(d, {"declare"}))
        [] next = "interface" -> parse("InterfaceDeclaration", Give(d, {"declare"}))
        [] next = "type" -> parse("TypeAlias", Give(d, {"declare"}))
        [] next = "class" \/ (next = "abstract" /\ Ahead(d, 1) = "class") ->
             parse("ClassDeclaration", Give(eat(d, "abstract"), {"declare"} \cup Abstract))
        [] next \in {"var", "let", "const"} -> parse("VariableStatement", Give(d, {"declare"}))
        [] next \in {"module", "namespace", "global"} -> parse("ModuleDeclaration", Give(d, {"declare"}))

declares(s) ==
  \/ Ahead(s, 1) \in {"function", "enum", "interface", "type", "class", "var", "let", "const", "module", "namespace", "global"}
  \/ Ahead(s, 1) = "abstract" /\ Ahead(s, 2) = "class"

parseStatement(s) ==
  CASE Is(s, "{") -> parse("Block", s)
    [] Is(s, ";") -> Leaf(s, "EmptyStatement")
    [] Is(s, "if") -> parseIfStatement(s)
    [] At(s) \in {"while", "with"} -> parseWhileStatement(s)
    [] Is(s, "do") -> parseDoStatement(s)
    [] Is(s, "for") -> parseForStatement(s)
    [] Is(s, "break") -> parseBreakOrContinue(s, "BreakStatement")
    [] Is(s, "continue") -> parseBreakOrContinue(s, "ContinueStatement")
    [] Is(s, "return") -> parseReturnStatement(s, "ReturnStatement")
    [] Is(s, "throw") -> parseReturnStatement(s, "ThrowStatement")
    [] Is(s, "try") -> parseTryStatement(s)
    [] Is(s, "switch") -> parseSwitchStatement(s)
    [] Is(s, "debugger") -> endStatement(scanOne(s), Node("DebuggerStatement", "", {}, <<>>))
    [] Is(s, "import") /\ Ahead(s, 1) \notin {".", "("} -> parseImportDeclaration(s)
    [] Is(s, "export") -> parseExportDeclaration(s)
    [] Is(s, "async") /\ Ahead(s, 1) = "function" -> parse("FunctionDeclaration", Give(scanOne(s), {"async"}))
    [] Is(s, "abstract") /\ Ahead(s, 1) = "class" -> parse("ClassDeclaration", Give(scanOne(s), {"abstract"}))
    [] Is(s, "declare") /\ declares(s) -> parseDeclare(s)
    [] (Is(s, "const") /\ Ahead(s, 1) = "enum") \/ (Is(s, "enum") /\ wordFollows(s)) -> parse("EnumDeclaration", Give(s, {}))
    [] startsTypeAlias(s) -> parse("TypeAlias", Give(s, {}))
    [] Is(s, "interface") /\ wordFollows(s) -> parse("InterfaceDeclaration", Give(s, {}))
    [] \/ At(s) \in {"module", "namespace"} /\ wordFollows(s)
       \/ Is(s, "module") /\ Ahead(s, 1) = "str"
       \/ Is(s, "global") /\ Ahead(s, 1) = "{" -> parse("ModuleDeclaration", Give(s, {}))
    [] startsVariables(s) /\ ~(Is(s, "const") /\ Ahead(s, 1) = "enum") -> parse("VariableStatement", Give(s, {}))
    [] Is(s, "function") -> parse("FunctionDeclaration", Give(s, {}))
    [] Is(s, "class") -> parse("ClassDeclaration", Give(s, {}))
    [] OTHER -> parseExpressionOrLabeledStatement(s)

(* An element of a list, or another rule.                                     *)
parse(rule, s) ==
  CASE rule = "SourceFile" -> parseList("SourceElements", s)
    [] rule \in {"SourceElements", "BlockStatements", "SwitchClauseStatements", "Statement"} -> parseStatement(s)
    [] rule = "AssignmentExpression" -> parseAssignmentExpression(s)
    [] rule \in {"Type", "TypeArguments"} -> parseType(s)
    [] rule = "BindingPattern" -> parseBindingPattern(s)
    [] rule = "Expression" -> parseExpression(s)
    [] rule = "Unary" -> parseUnary(s)
    [] rule = "PropertyName" -> parsePropertyName(s)
    [] rule = "CallArguments" -> parseArguments(s)
    [] rule = "Signature" -> parseSignature(s)
    [] rule = "Block" -> parseBlock(s)
    [] rule = "TypeParameterList" -> parseTypeParameters(s)
    [] rule = "TypeArgumentList" -> parseTypeArgumentList(s)
    [] rule \in {"FunctionDeclaration", "FunctionExpression"} -> parseFunctionCommon(s, rule, s.n)
    [] rule \in {"ClassDeclaration", "ClassExpression"} -> parseClassLike(s, rule, s.n)
    [] rule = "VariableStatement" -> parseVariableStatement(s, s.n)
    [] rule = "EnumDeclaration" -> parseEnumDeclaration(s, s.n)
    [] rule = "InterfaceDeclaration" -> parseInterfaceDeclaration(s, s.n)
    [] rule = "ModuleDeclaration" -> parseModuleDeclaration(s, s.n)
    [] rule = "TypeAlias" -> parseTypeAlias(s, s.n)
    [] rule \in {"FunctionType", "ConstructorType"} -> parseFunctionType(s, rule, s.n)
    [] rule = "ImportType" -> parseImportType(s, s.n)
    [] rule = "Primary" -> parsePrimary(s)
    [] rule = "ArrowFunction" -> parseArrowFunction(s, FALSE)
    [] rule = "AsyncArrowFunction" -> parseArrowFunction(s, TRUE)
    [] rule = "VariableDeclarationList" -> parseVariableDeclarationList(s)
    [] rule = "HeritageClauses" -> heritageClauses(s)
    [] rule = "Modifiers" -> modifiersOf(s)
    [] rule = "IndexSignature" -> parseIndexSignatureRest(s)
    [] rule = "EntityName" -> parseEntityName(s, FALSE)
    [] rule = "QualifiedName" -> parseEntityName(s, TRUE)
    [] rule = "LeftHandSide" -> parseCallChain(parse("Primary", s), FALSE)
    [] rule = "NewCallee" -> parseCallChain(parse("Primary", s), TRUE)
    [] rule = "TypeReference" -> parseTypeReference(s)
    [] rule = "PrimaryType" -> parsePrimaryType(s)
    [] rule = "Conditional" -> parseConditional(s)
    [] rule = "HeritageType" -> parseHeritageType(s)
    [] rule = "TypeOperator" -> parseTypeOperator(s)
    [] rule = "UnionType" -> parseUnionType(s)
    [] rule = "IntersectionType" -> parseIntersectionType(s)
    [] rule = "SwitchClauses" -> parseSwitchClause(s)
    [] rule = "ClassMembers" -> parseClassMember(s)
    [] rule = "TypeMembers" -> parseTypeMember(s)
    [] rule = "EnumMembers" -> parseEnumMember(s)
    [] rule = "ObjectLiteralMembers" -> parseObjectMember(s)
    [] rule = "ArrayLiteralMembers" -> parseElement(s)
    [] rule = "Arguments" -> parseSpreadOr(s)
    [] rule = "Parameters" -> parseParameter(s)
    [] rule = "TypeParameters" -> parseTypeParameter(s)
    [] rule = "TupleElements" -> parseTupleElement(s)
    [] rule = "ObjectBindingElements" -> parseBindingElement(s, FALSE)
    [] rule = "ArrayBindingElements" -> parseBindingElement(s, TRUE)
    [] rule = "ImportOrExportSpecifiers" -> parseSpecifier(s)

(* The grammar tree of a whole program, or None. *)
WholeFile(s) == IF Failed(s) THEN None ELSE Node("SourceFile", "", {}, s.n)
parseFile(t) == WholeFile(parse("SourceFile", Start(t)))
=============================================================================
