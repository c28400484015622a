------------------------------ MODULE SyntaxTree ------------------------------
(* Nodes of the grammar tree and of the syntax tree, and the tokens between   *)
(* them. Text, layout and comments are left out: a name, a literal, an        *)
(* operator or a punctuator is one token, a template's chunks are `quasi`,    *)
(* `head`, `middle` and `tail`, and a `>>` that closes two lists is two.      *)
EXTENDS Naturals, Sequences, FiniteSets, SequencesExt

(* `op` is an operator, a keyword or a name; `flags` are the node's Flags;    *)
(* a child that is absent is None.                                            *)
Node(kind, op, flags, kids) == [kind |-> kind, op |-> op, flags |-> flags, kids |-> kids]
None == Node("none", "", {}, <<>>)
Absent(n) == n.kind = "none"
Has(n, flag) == flag \in n.flags
From(list, i) == SubSeq(list, i, Len(list))

(* The flags whose tokens stand before a class member, in printing order.     *)
Modifiers == <<"private", "declare", "static", "abstract", "override", "readonly", "accessor">>

(* A tree without the parentheses: what it means.                            *)
RECURSIVE Meaning(_)
Meaning(n) == [n EXCEPT !.flags = @ \ {"paren"}, !.kids = [i \in DOMAIN @ |-> Meaning(@[i])]]
=============================================================================
