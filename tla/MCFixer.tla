------------------------------- MODULE MCFixer -------------------------------
(* Files for the fixer, for TLC: four kinds, with comments in one gap between *)
(* their symbols or, in the first and the last, in two.                       *)
EXTENDS Fixer

Part(name, kind, parts) == [is |-> "node", name |-> name, kind |-> kind, parts |-> parts]
NamePart(name) == Part(name, "name", <<Code(name)>>)

Comments1(i) ==
  LET c == <<"c1", "c2", "c3", "c4", "c5", "c6", "c7">>[i]
  IN  {<<>>, <<Symbol("block", c)>>, <<Symbol("line", c), Break>>,
       <<Break, Symbol("line", c), Break>>, <<Break, Symbol("block", c), Break>>}
Gaps(n) == {[[k \in 1..n |-> <<>>] EXCEPT ![i] = g] : i \in 1..n, g \in UNION {Comments1(j) : j \in 1..n}}
TwoGaps(n) == UNION {{[[k \in 1..n |-> <<>>] EXCEPT ![i] = g, ![j] = h] : g \in Comments1(i), h \in Comments1(j)} :
                       <<i, j>> \in {<<k, l>> \in (1..n) \X (1..n) : l \in {k + 1, k + 2}}}

ThreeStatements(g) ==
  Part("program", "program",
       g[1] \o <<NamePart("a")>> \o g[2] \o <<Break>> \o g[3] \o <<NamePart("b")>> \o g[4] \o <<Break>> \o g[5]
       \o <<NamePart("d")>> \o g[6])
ReturnOfCall(g) ==
  LET call == Part("call", "call", <<NamePart("f")>> \o g[1] \o <<Code("(")>> \o g[2] \o <<NamePart("x")>> \o g[3] \o <<Comma>>
                                   \o g[4] \o <<NamePart("y")>> \o g[5] \o <<Code(")")>>)
  IN  Part("program", "program", <<Part("return", "return", <<Code("return")>> \o g[6] \o <<call>> \o g[7] \o <<Code(";")>>)>>)
Block(g) ==
  LET block == Part("block", "block", <<Code("{")>> \o g[1] \o <<NamePart("a")>> \o g[2] \o <<Break>> \o g[3] \o <<NamePart("b")>>
                                      \o g[4] \o <<Code("}")>>)
  IN  Part("program", "program", <<block>> \o g[5] \o <<Break, NamePart("d")>>)
EmptyNodes(g) ==
  Part("program", "program",
       <<Part("block", "block", <<Code("{")>> \o g[1] \o <<Code("}")>>), Break,
         Part("return", "return", <<Code("return")>> \o g[2] \o <<Code(";")>>)>> \o g[3])

ListSources == {ThreeStatements(g) : g \in Gaps(6)}
MCSources ==
  UNION {{ThreeStatements(g) : g \in TwoGaps(6)}, {ReturnOfCall(g) : g \in Gaps(7)}, {Block(g) : g \in Gaps(5)},
         {EmptyNodes(g) : g \in TwoGaps(3)}}

(* A file for behaviours about something else. *)
OneStatement == Part("program", "program", <<NamePart("a")>>)
=============================================================================
