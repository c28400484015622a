------------------------------ MODULE MCServe ------------------------------
(* Instances of Serve for TLC: a file `a` whose text `user` imports `x`.    *)
EXTENDS Serve, TLC

CONSTANTS a, x, leaf, user, s, p, r

MCPath == {a, x}
MCContent == {leaf, user}
MCSpecifier == {s}
MCNames == (leaf :> {}) @@ (user :> {s})
MCCandidates == s :> <<x>>
MCAlias == s :> {}

(* Both files under one tsconfig, or each under its own. *)
OneProject == {p}
OneProjectFor == [q \in MCPath |-> p]
TwoProjects == {p, r}
TwoProjectsFor == (a :> p) @@ (x :> r)

(* To start with `a` imports `x`, and the tsconfigs differ. *)
MCInit ==
  /\ ServeInit
  /\ disk = (a :> user) @@ (x :> leaf)
  /\ tsconfig[p] # tsconfig[r]
MCSpec == MCInit /\ [][ServeNext]_serveVars

Symmetry == Permutations(SnapshotId) \cup Permutations(Env) \cup Permutations(Rule)
=============================================================================
