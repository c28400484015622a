----------------------------- MODULE MCAnalysis -----------------------------
(* The analysis of one file, component by component, for TLC: a behaviour is  *)
(* about one component (`under`) and leaves the state of the others alone.    *)
EXTENDS MCTypedRules, MCSyntax, Directives, NameRules, Flow, MCFixer, FixPasses

CONSTANTS r1, r2, zz   \* rules of directives, the last unknown

VARIABLE under

-----------------------------------------------------------------------------
(* Directives: three comments on three lines that have two places each.       *)
MCLine(p) == (p + 1) \div 2
MCComments ==
  LET line(keyword, prefix, p, to, list) ==
        [prefix |-> prefix, keyword |-> keyword, at |-> p, end |-> to, names |-> list]
      block(p, lists) == {line(k, "lintrix", p, p, l) : k \in Blocks, l \in lists}
      one(p) == block(p, {<<>>, <<r1>>, <<zz, r2>>})
                \cup {line("disable-line", "eslint", p, p, <<zz, r1>>),
                      line("disable-next-line", "lintrix", p, p + 1, <<>>),
                      line("disable-next-line", "lintrix", p, p, <<r1>>)}
      both(p) == one(p) \cup block(p, {<<r1, r2>>})
  IN  {<<>>} \cup {<<a, b, c>> : a \in one(1), b \in both(2), c \in one(3)}

-----------------------------------------------------------------------------
(* Names: up to three statements over the variables x, y and f, in a list, in  *)
(* a block, a loop, a catch clause or a function.                             *)
NumX == Syntax("num", <<>>, <<>>)
ReadX == Syntax("read", <<"x">>, <<>>)
LogX == Syntax("log", <<>>, <<ReadX>>)
DeclareX(kind) == Syntax(kind, <<"x">>, <<>>)
InitX(kind) == Syntax(kind, <<"x">>, <<NumX>>)

MCNameStatements ==
  LET of(e) == Syntax("expr", <<>>, <<e>>)
      arrow(list) == Syntax("arrow", <<"">>, list)
      setX(e) == Syntax("assign", <<"x">>, <<e>>)
      call(e) == Syntax("call", <<>>, <<e>>)
      named(names, list) == Syntax("function", names, list)
      logs == arrow(<<LogX>>)
  IN  { InitX("var"), DeclareX("var"), InitX("let"), DeclareX("let"), Syntax("let", <<"x", "y">>, <<NumX>>),
        Syntax("var", <<"x">>, <<logs>>), Syntax("var", <<"x">>, <<ReadX>>),
        of(setX(NumX)), of(setX(ReadX)), of(Syntax("assign", <<"x", "y">>, <<NumX>>)), LogX,
        of(Syntax("update", <<"x">>, <<>>)), Syntax("log", <<>>, <<Syntax("update", <<"x">>, <<>>)>>), of(call(Syntax("read", <<"f">>, <<>>))),
        Syntax("later", <<>>, <<logs>>), of(call(logs)), of(setX(call(logs))),
        named(<<"f">>, <<LogX>>), named(<<"f">>, <<of(setX(NumX))>>), named(<<"x", "y">>, <<of(call(ReadX))>>),
        of(call(Syntax("arrow", <<"x">>, <<InitX("var"), LogX>>))) }

MCShapes ==
  LET hole(i) == Syntax("hole", <<i>>, <<>>)
      list(inner) == Syntax("program", <<"">>, inner)
      block(inner) == Syntax("block", <<>>, inner)
      around(inner) ==
        { block(inner), Syntax("loop", <<>>, <<block(inner)>>), Syntax("catch", <<"x">>, <<block(inner)>>) }
        \cup {Syntax("forof", <<>>, <<DeclareX(k), e, block(inner)>>) : k \in {"var", "let"}, e \in {NumX}}
        \cup {Syntax("forof", <<>>, <<h, e, block(inner)>>) : h \in {DeclareX("let")}, e \in {ReadX}}
        \cup {Syntax("forof", <<>>, <<Syntax("target", <<"x">>, <<>>), NumX, block(inner)>>)}
        \cup {Syntax("for", <<>>, <<InitX(k), block(inner)>>) : k \in {"var", "let"}}
  IN  {list(<<hole("1"), hole("2"), hole("3")>>)}
      \cup {list(<<hole("1"), c, LogX>>) : c \in around(<<hole("2")>>)}
      \cup {list(<<c>>) : c \in around(<<hole("1"), hole("2")>>)}

-----------------------------------------------------------------------------
(* Flow: a labelled loop of any kind around two statements, the first of them  *)
(* of any kind with jumps in it, written as trees.                           *)
Tree(kind, kids) == [kind |-> kind, test |-> "x", label |-> "", comment |-> FALSE, kids |-> kids]
Ran == Tree("exec", <<>>)
Jump(kind, label) == [Tree(kind, <<>>) EXCEPT !.label = label]
Loop(head, s) == [Tree(head[1], <<s>>) EXCEPT !.test = head[2]]
Heads == ({"while", "dowhile"} \X {"true", "x"}) \cup ({"for"} \X {"true", "none", "x"}) \cup {<<"forof", "x">>}
Labelled(label, s) == [Tree("labeled", <<s>>) EXCEPT !.label = label]

MCFirsts ==
  LET jumps == {Jump(k, l) : k \in {"break", "continue"}, l \in {"", "L"}} \cup {Jump("continue", "K")}
      leaves == {Ran, Tree("function", <<>>), Tree("return", <<>>)} \cup jumps
      few == {Ran, Tree("return", <<>>), Jump("break", ""), Jump("continue", "L")}
      block(list) == Tree("block", list)
      clause(kind, list, comment) == [Tree(kind, list) EXCEPT !.comment = comment]
      maybe(list) == {Tree("none", <<>>)} \cup {block(<<b>>) : b \in list}
      leave == Jump("break", "M")
      tries == {Tree("try", <<block(<<a>>), h, f>>) : a \in leaves, h \in maybe(few), f \in maybe(few)}
      nested == {Tree("if", <<Ran, Jump("break", "")>>), Loop(<<"while", "true">>, Jump("break", "")),
                 Tree("try", <<block(<<Tree("return", <<>>)>>), block(<<Ran>>), Tree("none", <<>>)>>),
                 Tree("try", <<block(<<Ran>>), Tree("none", <<>>), block(<<Jump("break", "")>>)>>)}
      clauses == UNION {{<<>>}, {<<a>> : a \in leaves \cup nested}, {<<a, b>> : a \in few, b \in few}}
  IN  UNION {leaves, tries, {Tree("with", <<a>>) : a \in leaves},
             {Tree("if", <<a>>) : a \in leaves}, {Tree("if", <<a, b>>) : a \in leaves, b \in few},
             {Tree("switch", <<clause("case", c1, k), clause(d, <<c2>>, FALSE)>>) :
                c1 \in clauses, c2 \in leaves, d \in {"case", "default"}, k \in BOOLEAN},
             {Tree("switch", <<clause("default", <<a>>, FALSE), clause("case", <<b>>, FALSE)>>) : a \in few, b \in few},
             {Loop(h, a) : h \in Heads, a \in leaves},
             {Labelled("M", block(<<a, b>>)) :
                a \in {leave, Tree("if", <<leave>>), Loop(<<"while", "true">>, leave)}, b \in few}}

MCSeconds == {Ran, Tree("return", <<>>), Jump("break", "")}

(* The statements of a tree, each after those inside it: those of its parts in *)
(* turn, then the tree itself.                                               *)
Around(s, parts) ==
  LET before == [i \in 1..(Len(parts) + 1) |-> Len(FlattenSeq(SubSeq(parts, 1, i - 1)))]
      shifted(i) == IF before[i] = 0 THEN parts[i]
                    ELSE [k \in DOMAIN parts[i] |-> [parts[i][k] EXCEPT !.kids = [c \in DOMAIN @ |-> @[c] + before[i]]]]
  IN  Append(FlattenSeq([i \in DOMAIN parts |-> shifted(i)]), [s EXCEPT !.kids = [i \in DOMAIN parts |-> before[i + 1]]])

RECURSIVE Listed(_)
Listed(s) == Around(s, [i \in DOMAIN s.kids |-> Listed(s.kids[i])])

MCBodies ==
  LET block(parts) == Around(Tree("block", <<>>), parts)
      labelled(label, part) == Around(Labelled(label, Ran), <<part>>)
      loop(h, part) == Around(Loop(h, Ran), <<part>>)
      firsts == {Listed(first) : first \in MCFirsts}
      inner == {block(<<first, Listed(second)>>) : first \in firsts, second \in MCSeconds}
  IN  {block(<<labelled("K", labelled("L", loop(h, part))), <<Ran>>>>) : h \in Heads, part \in inner}

-----------------------------------------------------------------------------
(* Problems: a fix each, and suggestions of the last two.                     *)
MCOffers == {<<1, 0>>, <<2, 0>>, <<2, 1>>, <<3, 0>>, <<3, 1>>, <<3, 2>>}

Analyses == {"directives", "rules", "templates", "fixes", "passes"}

Init ==
  /\ under \in Analyses
  /\ ConditionInit /\ PromiseInit /\ AnyInit /\ NameInit /\ FlowInit /\ TemplateInit
  /\ IF under = "fixes" THEN FixerInit ELSE FileOf(OneStatement)
  /\ (under # "passes" => contents = [t \in TextOf |-> Unparsable] /\ input = CHOOSE t \in TextOf : TRUE) /\ PassesInit
  /\ (under # "directives" => directiveComments = <<>>) /\ DirectivesInit

RuleVars == <<conditionVars, promiseVars, anyVars, nameVars, flowVars>>

NoRuleYet == conditions = {} /\ statements = {} /\ flows = {} /\ programs = {} /\ functionBody = <<>>

LintRules ==
  /\ under = "rules" /\ NoRuleYet
  /\ \/ LintCondition /\ UNCHANGED <<promiseVars, anyVars, nameVars, flowVars>>
     \/ LintStatement /\ UNCHANGED <<conditionVars, anyVars, nameVars, flowVars>>
     \/ FollowArguments /\ UNCHANGED <<conditionVars, promiseVars, nameVars, flowVars>>
     \/ FollowReturn /\ UNCHANGED <<conditionVars, promiseVars, nameVars, flowVars>>
     \/ FollowChain /\ UNCHANGED <<conditionVars, promiseVars, nameVars, flowVars>>
     \/ FollowAssertion /\ UNCHANGED <<conditionVars, promiseVars, nameVars, flowVars>>
     \/ LintNames /\ UNCHANGED <<conditionVars, promiseVars, anyVars, flowVars>>
     \/ LintFlow /\ UNCHANGED <<conditionVars, promiseVars, anyVars, nameVars>>
  /\ UNCHANGED <<directiveVars, templateVars, fixerVars, passVars>>

Next ==
  /\ \/ LintRules
     \/ under = "directives" /\ DirectivesNext /\ UNCHANGED <<RuleVars, templateVars, fixerVars, passVars>>
     \/ under = "templates" /\ TemplateNext /\ UNCHANGED <<RuleVars, directiveVars, fixerVars, passVars>>
     \/ under = "fixes" /\ FixerNext /\ UNCHANGED <<RuleVars, directiveVars, templateVars, passVars>>
     \/ under = "passes" /\ PassesNext /\ UNCHANGED <<RuleVars, directiveVars, templateVars, fixerVars>>
  /\ UNCHANGED under
=============================================================================
