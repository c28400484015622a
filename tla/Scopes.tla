-------------------------------- MODULE Scopes --------------------------------
(* Which declaration a name means (ast/binder.cc), over the programs the name *)
(* rules look at.                                                            *)
(*                                                                           *)
(* A program is a tree of [kind, names, kids]. Expressions: num, read, assign, *)
(* update, arrow (a function expression, named or not), call. Statements: var, *)
(* let and const (one declarator; more names make a pattern), expr, log, later *)
(* (hands a function over, to be called when the program is through), block, *)
(* function (the first name its own, the others its parameters), for, forof, *)
(* loop and catch. A node is named by the path of kid positions to it; paths *)
(* are ordered as the source is.                                             *)
EXTENDS Integers, FiniteSets, SequencesExt

Syntax(kind, names, kids) == [kind |-> kind, names |-> names, kids |-> kids]

RECURSIVE At(_, _), Paths(_)
At(e, path) == IF path = <<>> THEN e ELSE At(e.kids[Head(path)], Tail(path))

Paths(e) == {<<>>} \cup UNION {{<<i>> \o p : p \in Paths(e.kids[i])} : i \in DOMAIN e.kids}

Up(path) == SubSeq(path, 1, Len(path) - 1)
Under(path, above) == Len(path) >= Len(above) /\ SubSeq(path, 1, Len(above)) = above
Above(path) == {SubSeq(path, 1, i) : i \in 0..(Len(path) - 1)}

Before(p, q) ==
  \/ Under(q, p) /\ p # q
  \/ \E i \in 1..Len(p) : /\ i <= Len(q) /\ p[i] < q[i]
                          /\ SubSeq(p, 1, i - 1) = SubSeq(q, 1, i - 1)

Nearest(paths) == CHOOSE p \in paths : \A q \in paths : Len(q) <= Len(p)

Names(e) == {e.names[i] : i \in DOMAIN e.names}

-----------------------------------------------------------------------------
(* Scopes.                                                                   *)

VariableKinds == {"var", "let", "const"}
FunctionLike == {"function", "arrow"}
Loops == {"for", "forof", "loop"}

(* A loop opens one for a let or const in its head. *)
loopHeadDeclares(e) == e.kind \in {"for", "forof"} /\ e.kids[1].kind \in {"let", "const"}

opensScope(e) ==
  e.kind \in FunctionLike \cup {"program", "block", "catch"} \/ loopHeadDeclares(e)

isVariableScope(e) == e.kind \in FunctionLike \cup {"program"}

ScopeOf(program, path) == Nearest({p \in Above(path) : opensScope(At(program, p))})
variableScope(program, path) ==
  Nearest({p \in Above(path) \cup {path} : isVariableScope(At(program, p))})

-----------------------------------------------------------------------------
(* Declarations, each [name, at, kind, scope].                                *)

Declaration(name, at, kind, scope) == [name |-> name, at |-> at, kind |-> kind, scope |-> scope]

(* As bindPattern, but a var is not hoisted. *)
bindInScope(program, path) ==
  {Declaration(n, path, At(program, path).kind, ScopeOf(program, path)) : n \in Names(At(program, path))}

bindPattern(program, path) ==
  LET e == At(program, path)
      scope == IF e.kind = "var" THEN variableScope(program, Up(path)) ELSE ScopeOf(program, path)
  IN  {Declaration(n, path, e.kind, scope) : n \in Names(e)}

(* A declaration's name goes outside, an expression's own name and the         *)
(* parameters inside.                                                        *)
function(program, path) ==
  LET e == At(program, path)
      outside == IF e.kind = "function" THEN ScopeOf(program, path) ELSE path
      own == IF e.names[1] = "" THEN {} ELSE {Declaration(e.names[1], path, "function", outside)}
  IN  own \cup {Declaration(e.names[i], path, "parameter", path) : i \in 2..Len(e.names)}

Declarations(program) ==
  UNION {LET e == At(program, p)
         IN  CASE e.kind \in VariableKinds -> bindPattern(program, p)
               [] e.kind \in FunctionLike -> function(program, p)
               [] e.kind = "catch" -> {Declaration(e.names[1], p, "catch", p)}
               [] OTHER -> {}
         : p \in Paths(program)}

(* Of two in one scope the one declared first, an expression's own name before *)
(* its parameters.                                                           *)
DeclaredBefore(d, e) ==
  Before(d.at, e.at) \/ (d.at = e.at /\ d.kind = "function" /\ e.kind = "parameter")

SameName(declarations, name, scope) == {d \in declarations : d.name = name /\ d.scope = scope}

lookupLocal(declarations, name, scope) ==
  LET same == SameName(declarations, name, scope)
  IN  {d \in same : \A e \in same : e # d => ~DeclaredBefore(e, d)}

-----------------------------------------------------------------------------
(* References, each [name, at, scope, flags, resolved]; `resolved` is a set of *)
(* at most one.                                                              *)

assignTarget(e) ==
  CASE e.kind = "read" -> {"Read"}
    [] e.kind = "assign" -> {"Write"}
    [] e.kind = "target" -> {"Write"}
    [] e.kind = "update" -> {"Read", "Write"}
    [] OTHER -> {}

(* A declarator is written when it has an initializer or heads a loop over     *)
(* values.                                                                   *)
Initializes(program, path) ==
  LET e == At(program, path)
  IN  /\ e.kind \in VariableKinds
      /\ e.kids # <<>> \/ (At(program, Up(path)).kind = "forof" /\ Last(path) = 1)

Flags(program, path) ==
  IF Initializes(program, path) THEN {"Write", "Init"} ELSE assignTarget(At(program, path))

lookup(program, declarations, name, path) ==
  LET scopes == {s \in Above(path) : /\ opensScope(At(program, s))
                                     /\ SameName(declarations, name, s) # {}}
  IN  IF scopes = {} THEN {} ELSE lookupLocal(declarations, name, Nearest(scopes))

References(program) ==
  LET declarations == Declarations(program)
  IN  UNION {{[name |-> n, at |-> p, scope |-> ScopeOf(program, p), flags |-> Flags(program, p),
               resolved |-> lookup(program, declarations, n, p)]
              : n \in IF Flags(program, p) = {} THEN {} ELSE Names(At(program, p))}
             : p \in Paths(program)}

Bind(program) == [declarations |-> Declarations(program), references |-> References(program)]
ReferencesTo(bindings, d) == {r \in bindings.references : r.resolved = {d}}
=============================================================================
