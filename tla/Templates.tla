------------------------------ MODULE Templates ------------------------------
(* Trees that fixes build and the text they are printed to: templates          *)
(* (ast/template.cc) are parsed and lowered like a program, their placeholders *)
(* are filled, and nodes are replaced (ast/fixer.cc); every node is dirty and  *)
(* so printed from its own template. What is printed is parsed again by the    *)
(* next pass of the fixpoint.                                                  *)
EXTENDS SyntaxTree

CONSTANTS
  ExpressionTexts, TypeTexts, StatementTexts,  \* the texts of templates, by mode
  Core,                                        \* the texts that go `Deeper`
  Deep, Deeper                                 \* how many templates a tree is built from

VARIABLES
  tree,      \* a tree that a fix built
  made,      \* [proto, path]: the template it was built from last, and where its argument went
  size,      \* how many templates it was built from
  core       \* whether each of them is in Core

P == INSTANCE Parser
L == INSTANCE Lowerer
A == INSTANCE AstPrinter

templateVars == <<tree, made, size, core>>

(* Each text has a name once, and no list of nodes (a splice) or escaped name. *)
Placeholders == {"$a", "$b"}
isPlaceholder(n) == n.kind = "Identifier" /\ n.op \in Placeholders

-----------------------------------------------------------------------------
(* Slots. A child is named by its path.                                       *)

RECURSIVE NodeAt(_, _), Put(_, _, _), NodePaths(_)
NodeAt(n, path) == IF path = <<>> THEN n ELSE NodeAt(n.kids[Head(path)], Tail(path))
Put(n, path, fresh) ==
  IF path = <<>> THEN fresh ELSE [n EXCEPT !.kids[Head(path)] = Put(@, Tail(path), fresh)]
NodePaths(n) == {<<>>} \cup UNION {{<<i>> \o p : p \in NodePaths(n.kids[i])} : i \in DOMAIN n.kids}

NodeAbove(root, path) == IF path = <<>> THEN None ELSE NodeAt(root, SubSeq(path, 1, Len(path) - 1))

isStatement(n) ==
  n.kind \in (A!Statements \ {"Case", "Catch"})
             \cup {"Variable", "FunctionDeclaration", "ClassDeclaration", "Interface", "TypeAlias", "Enum",
                   "Module", "ImportDeclaration", "ExportNamed", "ExportDefault", "ExportAll"}
isPattern(n) == n.kind \in {"Identifier", "ObjectPattern", "ArrayPattern", "RestElement", "AssignmentPattern"}

(* Where a kind's list of children begins.                                    *)
firstOfList(kind) ==
  CASE kind \in {"Program", "Block", "ModuleBlock", "StaticBlock", "Array", "Object", "Sequence", "Template",
                 "UnionType", "IntersectionType", "TupleType", "TypeArguments"} -> 1
    [] kind \in {"Case", "ArrayPattern", "ObjectPattern"} -> 2
    [] kind \in {"Call", "New"} -> 3
    [] kind \in {"Function", "FunctionDeclaration", "Arrow"} -> 4
    [] OTHER -> 99
inList(parent, i) == i >= firstOfList(parent.kind)

isStatementSlot(parent, i) ==
  CASE parent.kind \in {"Program", "Block", "ModuleBlock", "StaticBlock", "Case"} -> inList(parent, i)
    [] parent.kind = "If" -> i \in {2, 3}
    [] parent.kind = "For" -> i = 4
    [] parent.kind \in {"ForIn", "ForOf"} -> i = 3
    [] parent.kind \in {"While", "Labeled", "With"} -> i = 2
    [] OTHER -> parent.kind = "DoWhile" /\ i = 1

listSlot(parent) ==
  CASE parent.kind \in {"Program", "Block", "ModuleBlock", "StaticBlock", "Case"} -> "Statement"
    [] parent.kind \in {"Call", "New", "Array", "Sequence", "Template"} -> "Expression"
    [] parent.kind \in {"Function", "FunctionDeclaration", "Arrow", "ArrayPattern"} -> "Pattern"
    [] parent.kind \in {"UnionType", "IntersectionType", "TupleType", "TypeArguments"} -> "Type"
    [] OTHER -> "Any"

(* The slot of the placeholder at a path.                                     *)
classify(root, path) ==
  LET parent == NodeAbove(root, path)
      i == path[Len(path)]
      up == SubSeq(path, 1, Len(path) - 1)
      Key(slot) == IF i = 1 /\ ~Has(parent, "computed") THEN slot ELSE "Expression"
  IN  CASE path = <<>> -> "Expression"
        [] parent.kind = "ExpressionStatement" /\ up # <<>> /\ isStatementSlot(NodeAbove(root, up), up[Len(up)]) ->
             "Statement"
        [] inList(parent, i) -> listSlot(parent)
        [] parent.kind = "Property" /\ Has(parent, "shorthand") -> "Name"
        [] parent.kind = "TypeReference" -> IF Absent(parent.kids[2]) THEN "Type" ELSE "Name"
        [] parent.kind \in {"QualifiedName", "ImportSpecifier", "ImportDefaultSpecifier", "ImportNamespaceSpecifier",
                            "ExportSpecifier", "MetaProperty"} -> "Name"
        [] parent.kind \in {"TypeQuery", "Labeled", "Break", "Continue", "EnumMember", "TypePredicate",
                            "NamedTupleMember"} -> IF i = 1 THEN "Name" ELSE "Expression"
        [] parent.kind = "Member" -> IF i = 2 /\ ~Has(parent, "computed") THEN "Property" ELSE "Expression"
        [] parent.kind = "Property" ->
             IF i = 1 THEN Key("PropertyName")
             ELSE IF NodeAbove(root, up).kind = "ObjectPattern" THEN "Pattern" ELSE "Expression"
        [] parent.kind \in {"MethodDefinition", "PropertyDefinition", "PropertySignature", "MethodSignature"} ->
             Key("PropertyName")
        [] parent.kind \in {"Declarator", "Catch", "AssignmentPattern", "RestElement"} ->
             IF i = 1 THEN "Pattern" ELSE "Expression"
        [] parent.kind = "ParameterProperty" -> "Pattern"
        [] parent.kind \in {"ForIn", "ForOf"} -> IF i = 1 THEN "Any" ELSE "Expression"
        [] parent.kind = "Assignment" -> IF i = 1 THEN "Assignable" ELSE "Expression"
        [] OTHER -> "Expression"

accepts(slot, n) ==
  CASE slot = "Expression" -> n.kind \in A!Expressions \cup {"Spread"}
    [] slot = "Statement" -> isStatement(n) \/ n.kind \in A!Expressions
    [] slot = "Type" -> n.kind \in A!Types \cup {"Identifier", "QualifiedName"}
    [] slot = "Name" -> n.kind = "Identifier"
    [] slot = "Property" -> n.kind \in {"Identifier", "PrivateIdentifier"}
    [] slot = "PropertyName" -> n.kind \in {"Identifier", "PrivateIdentifier", "Literal"}
    [] slot = "Pattern" -> isPattern(n)
    [] slot = "Assignable" -> isPattern(n) \/ n.kind = "Member"
    [] OTHER -> TRUE

-----------------------------------------------------------------------------
(* Templates and edits.                                                      *)

Unwrapped(n) == [n EXCEPT !.flags = @ \ {"paren"}]

(* A text is parsed as a program: an expression in parentheses, a type as the  *)
(* right side of an alias.                                                   *)
programOf(mode, text) ==
  CASE mode = "Expression" -> <<"(">> \o text \o <<")">>
    [] mode = "Type" -> <<"type", "$__", "=">> \o text \o <<";">>
    [] OTHER -> text

(* The prototype in the one statement of that program.                        *)
prototype(mode, only) ==
  CASE mode = "Expression" -> Unwrapped(only.kids[1])
    [] mode = "Type" -> only.kids[2]
    [] OTHER -> only

treeOf(source) == L!lower(P!parseFile(source))
compile(mode, text) == prototype(mode, treeOf(programOf(mode, text)).kids[1])

OpenSlots(n) == {p \in NodePaths(n) : isPlaceholder(NodeAt(n, p))}

(* The templates of the rules, compiled.                                      *)
Texts == ({"Expression"} \X ExpressionTexts) \cup ({"Type"} \X TypeTexts) \cup ({"Statement"} \X StatementTexts)
Compiled ==
  LET of(t, proto) == [mode |-> t[1], core |-> t[2] \in Core, proto |-> proto, open |-> OpenSlots(proto)]
  IN  {of(t, compile(t[1], t[2])) : t \in Texts}

(* Fixer::place.                                                             *)
place(root, path, fresh) ==
  LET needs == path # <<>> /\ A!needsParens(NodeAbove(root, path), path[Len(path)], fresh)
  IN  Put(root, path, IF needs THEN [fresh EXCEPT !.flags = @ \cup {"paren"}] ELSE fresh)

(* Template::build for one placeholder: a statement or a type takes the place *)
(* of the node around the name that stood for it.                            *)
build(proto, path, arg) ==
  LET slot == classify(proto, path)
      outer == (slot = "Statement" /\ isStatement(arg)) \/ (slot = "Type" /\ arg.kind \in A!Types)
      target == IF outer THEN SubSeq(path, 1, Len(path) - 1) ELSE path
  IN  place(proto, target, Unwrapped(arg))

(* Fixer::replace of the node at a path.                                     *)
replaced(root, path, fresh) == place(root, path, Unwrapped(fresh))

(* As standsFor, but for statements only.                                     *)
standsForStatement(proto, slot, n) ==
  /\ proto.kind = "ExpressionStatement" /\ isPlaceholder(proto.kids[1])
  /\ slot = "Statement" /\ isStatement(n)

(* A placeholder that took the place of the node around its name.              *)
standsFor(proto, slot, n) ==
  /\ proto.kind \in {"ExpressionStatement", "TypeReference"} /\ isPlaceholder(proto.kids[1])
  /\ (slot = "Statement" /\ isStatement(n)) \/ (slot = "Type" /\ n.kind \in A!Types)

(* Template::match, the bindings it finds: none, or one set of pairs.          *)
RECURSIVE matchNode(_, _, _)
matchNode(root, path, n) ==
  LET proto == NodeAt(root, path)
      same == /\ proto.kind = n.kind /\ proto.op = n.op
              /\ proto.flags \ {"paren"} = n.flags \ {"paren"} /\ Len(proto.kids) = Len(n.kids)
      found == [i \in DOMAIN proto.kids |-> matchNode(root, Append(path, i), n.kids[i])]
      consistent(pairs) == \A p, q \in pairs : p[1] = q[1] => Meaning(p[2]) = Meaning(q[2])
  IN  IF Absent(proto) \/ Absent(n) THEN IF proto = n THEN {{}} ELSE {}
      ELSE IF isPlaceholder(proto) THEN IF accepts(classify(root, path), n) THEN {{<<proto.op, n>>}} ELSE {}
      ELSE IF standsFor(proto, classify(root, Append(path, 1)), n) THEN {{<<proto.kids[1].op, n>>}}
      ELSE IF same /\ (\A i \in DOMAIN found : found[i] # {})
           THEN {b \in {UNION {CHOOSE c \in found[i] : TRUE : i \in DOMAIN found}} : consistent(b)}
      ELSE {}

(* What a rule's template holds, its arguments to be filled in.               *)
Begin(template) ==
  /\ size = 0
  /\ tree' = template.proto /\ core' = template.core
  /\ UNCHANGED made
  /\ size' = 1

Instantiate(template) ==
  /\ size > 0
  /\ size < Deep \/ (size < Deeper /\ core /\ template.core)
  /\ \E path \in template.open :
       /\ accepts(classify(template.proto, path), tree)
       /\ tree' = build(template.proto, path, tree)
       /\ made' = [proto |-> template.proto, path |-> path]
  /\ size' = size + 1 /\ core' = (core /\ template.core)

(* A rule replaces an expression of the tree in place.                        *)
ReplaceNode(template) ==
  /\ size \in 1..(Deep - 1)
  /\ template.mode = "Expression"
  /\ \E path \in OpenSlots(tree) :
       /\ path # <<>> /\ classify(tree, path) = "Expression"
       /\ tree' = replaced(tree, path, template.proto)
  /\ made' = [proto |-> None, path |-> <<>>]
  /\ size' = size + 1 /\ core' = (core /\ template.core)

TemplateInit == tree = None /\ core = TRUE /\ made = [proto |-> None, path |-> <<>>] /\ size = 0
TemplateNext ==
  /\ size < Deeper
  /\ \E template \in Compiled : Begin(template) \/ Instantiate(template) \/ ReplaceNode(template)

-----------------------------------------------------------------------------
(* The file a tree ends up in.                                               *)
File(n) ==
  LET program(k) == Node("Program", "", {}, <<k>>)
  IN  CASE n.kind \in A!Types -> program(Node("TypeAlias", "t", {}, <<None, n>>))
        [] n.kind \in A!Expressions -> place(program(Node("ExpressionStatement", "", {}, <<None>>)), <<1, 1>>, Unwrapped(n))
        [] OTHER -> program(n)

(* place looks at the slot of the node it places, not at those above: a node  *)
(* that comes to stand first in a statement, an arrow's body or a `new` is not *)
(* parenthesised for it.                                                      *)
RECURSIVE HeadUnwrapped(_)
HeadUnwrapped(n) ==
  \E i \in DOMAIN n.kids :
    \/ /\ n.kind \in {"ExpressionStatement", "Arrow", "New"}
       /\ A!needsParens(n, i, n.kids[i]) /\ ~Has(n.kids[i], "paren")
    \/ HeadUnwrapped(n.kids[i])

(* Trees that are read as another: precedence.cc has no case for them, or the *)
(* parser none.                                                               *)
RECURSIVE lastType(_), hasIn(_)
lastType(n) ==
  CASE Has(n, "paren") -> None
    [] n.kind \in {"As", "Satisfies"} -> n.kids[2]
    [] A!isBinaryLike(n) -> lastType(n.kids[2])
    [] OTHER -> None
hasIn(n) ==
  ~Has(n, "paren") /\ ((n.kind = "Binary" /\ n.op = "in") \/ \E i \in DOMAIN n.kids : hasIn(n.kids[i]))

RECURSIVE yields(_)
yields(n) ==
  \/ /\ n.kind = "Yield" /\ ~Absent(n.kids[1])
     /\ ~P!operandFollowsOnLine(P!Start(<<"yield">> \o A!Mark(n, "delegate", "*") \o A!printAst(n.kids[1])))
  \/ \E i \in DOMAIN n.kids : yields(n.kids[i])

Operands == {"Class", "ClassDeclaration", "Unary", "Await", "Assertion", "New", "Binary", "Logical"} \cup (A!LeftFirst \ {"Assignment", "Sequence"})

PrimaryHeads == {"Identifier", "This", "Member", "Call", "Tagged", "Array", "Object", "Function", "Class", "Literal",
                 "Template", "MetaProperty", "Import", "NonNull", "New"}

MisreadAt(n) ==
  LET k == n.kids
      first == k[1]
      bare(m) == ~Has(m, "paren")
      uninstantiable ==
        \/ n.kind \in {"Call", "New", "Tagged", "As", "Satisfies", "NonNull", "Instantiation"}
        \/ n.kind = "Binary" /\ n.op \in {"-", "+", "<"}
        \/ n.kind = "Member" /\ Has(n, "computed") /\ ~Has(n, "optional")
  IN  \/ n.kind = "Binary" /\ n.op \in {"|", "&"} /\ ~Absent(lastType(first))       \* reads on as a type
      \/ n.kind = "Binary" /\ n.op = "<" /\ lastType(first).kind = "TypeReference"
      \/ uninstantiable /\ first.kind = "Instantiation" /\ bare(first)               \* f<T>(b) is a call
      \/ n.kind = "NonNull" /\ first.kind = "Update" /\ bare(first)
      \/ n.kind \in {"Class", "ClassDeclaration"} /\ ~Absent(k[2]) /\ bare(k[2])
         /\ k[2].kind \notin PrimaryHeads
      \/ /\ n.kind = "ExpressionStatement" /\ first.kind = "Sequence" /\ bare(first)
         /\ \E kind \in {"Object", "Function", "Class"} : A!startsWith(first, kind)
      \/ n.kind = "ExpressionStatement" /\ A!startsWith(first, "ObjectPattern")
      \/ n.kind = "Arrow" /\ A!startsWith(k[3], "ObjectPattern")
      \/ n.kind = "InferType" /\ first.kids[1].kind = "ConditionalType" /\ bare(first.kids[1])
      \/ n.kind = "ExportAssignment" /\ first.kind = "Sequence" /\ bare(first)
      \/ n.kind \in {"MethodDefinition", "PropertyDefinition"} /\ first.kind = "Sequence" /\ bare(first)
      \/ n.kind = "For" /\ first.kind = "Variable" /\ \E i \in DOMAIN first.kids : hasIn(first.kids[i])
      \/ n.kind = "ExportDefault" /\ bare(first)
         /\ (Has(first, "async") \/ \E kind \in {"Function", "Class"} : A!startsWith(first, kind))
      \/ n.kind = "If" /\ ~Absent(k[3]) /\ k[2].kind = "If" /\ Absent(k[2].kids[3])   \* the nearest if takes the else
      (* What follows is well printed; the parser reads it otherwise.           *)
      \/ n.kind = "Member" /\ {"computed", "optional"} \subseteq n.flags /\ k[2].kind = "Sequence"
      \/ /\ n.kind \in Operands
         /\ \E i \in DOMAIN k :
              /\ i = 1 \/ (i = 2 /\ (A!isBinaryLike(n) \/ n.kind \in {"Class", "ClassDeclaration", "Assertion"}))
              /\ k[i].kind = "Function" /\ Has(k[i], "async") /\ bare(k[i])
      \/ n.kind = "Property" /\ Has(n, "method") /\ Has(k[2], "generator") /\ yields(k[2])

RECURSIVE Misread(_)
Misread(n) == MisreadAt(n) \/ \E i \in DOMAIN n.kids : Misread(n.kids[i])

(* What a tree means but for the accessibility of methods, which their        *)
(* template takes from another byte (AstPrinter!accessibilityText). A union    *)
(* in a union, printed without parentheses, means the one union of both.       *)
RECURSIVE Meant(_)
Meant(n) ==
  LET accessibility == IF n.kind = "MethodDefinition" THEN {"public", "private", "protected"} ELSE {}
      kids == [i \in DOMAIN n.kids |-> Meant(n.kids[i])]
      members(kid) == IF kid.kind = n.kind THEN kid.kids ELSE <<kid>>
  IN  [n EXCEPT !.flags = @ \ ({"paren"} \cup accessibility),
                !.kids = IF n.kind \in {"UnionType", "IntersectionType"}
                         THEN FlattenSeq([i \in DOMAIN kids |-> members(kids[i])]) ELSE kids]

ReadsBack(n) == Meant(treeOf(A!printAst(n))) = Meant(n)

(* The text that is printed for a tree is read back as that tree, whatever    *)
(* the templates it was built from. A fix that prints another program than    *)
(* the one it built changes what the user's code does.                        *)
PrintedTreeReadsBack ==
  size > 0 => LET file == File(tree) IN ReadsBack(file) \/ HeadUnwrapped(file) \/ Misread(file)

(* A template finds the tree it built, and builds that tree again from what   *)
(* it found, its other placeholders standing for themselves: a rule that      *)
(* matches a shape and one that writes it agree on the slots of placeholders. *)
TemplateFindsWhatItBuilt ==
  ~Absent(made.proto) =>
    LET proto == made.proto
        open == OpenSlots(proto)
        Place(name) == CHOOSE p \in open : NodeAt(proto, p).op = name
        Built(name) == IF Place(name) = made.path THEN tree ELSE proto
    IN  \E found \in matchNode(proto, <<>>, tree) :
          /\ {pair[1] : pair \in found} = {NodeAt(proto, p).op : p \in open}
          /\ \A pair \in found : build(proto, Place(pair[1]), pair[2]) = Built(pair[1])
=============================================================================
