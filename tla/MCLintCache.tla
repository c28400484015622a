---------------------------- MODULE MCLintCache ----------------------------
(* Instances of LintCache for TLC: a file `a` and two places, `x` and `y`,  *)
(* where one specifier is looked for in that order.                        *)
EXTENDS LintCache, TLC

CONSTANTS a, x, y, leaf, user, s, t

MCPath == {a, x, y}
SmallPath == {a, x}
MCContent == {leaf, user}
MCSpecifier == {s}
MCNames == (leaf :> {}) @@ (user :> {s})
MCCandidates == s :> <<x, y>>
MCAlias == s :> {}
SmallCandidates == s :> <<x>>

(* A text that imports both files, so two files that hold it import each    *)
(* other.                                                                  *)
TwinSpecifier == {s, t}
TwinNames == (leaf :> {}) @@ (user :> {s, t})
TwinCandidates == (s :> <<a>>) @@ (t :> <<x>>)
TwinAlias == [i \in TwinSpecifier |-> {}]

(* One disk to start from: `a` imports `x`. *)
LiveInit == Init /\ disk = [q \in Path |-> IF q = a THEN user ELSE leaf]
LiveSpec == LiveInit /\ [][Next]_vars /\ \A p \in Proc : WF_vars(Step(p))

Symmetry == Permutations(Proc)
=============================================================================
