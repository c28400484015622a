------------------------------- MODULE NameRules -------------------------------
(* The rules that judge names (rules/no_var.cc, prefer_const.cc,              *)
(* no_unused_vars.cc), over the binder's answers about one program, against   *)
(* what the program does when it runs. Options are at their defaults.        *)
EXTENDS Execution

CONSTANTS
  Shapes,     \* programs of Scopes with holes for statements
  Fillers     \* what fills the holes

VARIABLES programs  \* the program under lint: at most one

nameVars == programs

-----------------------------------------------------------------------------
(* Helpers of both fixers.                                                   *)

isStatementListParent(p, path) == At(p, path).kind \in {"program", "block"} \cup FunctionLike

enclosingFunction(p, path) ==
  LET around == {q \in Above(path) : At(p, q).kind \in FunctionLike}
  IN  IF around = {} THEN {} ELSE {Nearest(around)}

(* The nearest loop that no function boundary separates from the node. *)
enclosingLoop(p, path) ==
  LET around == {q \in Above(path) : At(p, q).kind \in Loops \cup FunctionLike}
  IN  IF around = {} \/ At(p, Nearest(around)).kind \in FunctionLike THEN {} ELSE {Nearest(around)}

InHead(p, path) == At(p, Up(path)).kind \in {"for", "forof"} /\ Last(path) = 1
InLoopHead(p, path) == At(p, Up(path)).kind = "forof" /\ Last(path) = 1

(* setData on the declaration: another keyword, nothing else changed. *)
RECURSIVE SetKind(_, _, _)
SetKind(e, path, kind) ==
  IF path = <<>> THEN [e EXCEPT !.kind = kind]
  ELSE [e EXCEPT !.kids[Head(path)] = SetKind(@, Tail(path), kind)]

-----------------------------------------------------------------------------
(* no-var.                                                                   *)

(* As ReadsItself, but an initializer never counts. *)
ReadsNothing(p, path, name) == FALSE

(* A name read in its own initializer, unless that is a function. *)
ReadsItself(p, path, name) ==
  LET e == At(p, path)
  IN  /\ e.kids # <<>>
      /\ e.kids[1].kind \notin FunctionLike
      /\ \E q \in Paths(p) : /\ Under(q, path) /\ q # path
                             /\ Flags(p, q) # {} /\ name \in Names(At(p, q))

canFix(p, bindings, path) ==
  LET e == At(p, path)
      loop == enclosingLoop(p, path)
      Declared(n) == CHOOSE d \in bindings.declarations : d.at = path /\ d.name = n
  IN  /\ InHead(p, path) \/ isStatementListParent(p, Up(path))
      /\ \A n \in Names(e) :
           LET d == Declared(n)
           IN  /\ SameName(bindings.declarations, n, d.scope) = {d}
               /\ \A r \in ReferencesTo(bindings, d) :
                    "Init" \notin r.flags =>
                      /\ Under(r.at, Up(path))
                      /\ ~Before(r.at, path)
                      /\ loop # {} => enclosingFunction(p, r.at) = enclosingFunction(p, path)
               /\ ~ReadsItself(p, path, n)
      /\ loop # {} /\ ~InLoopHead(p, path) => e.kids # <<>>

VarFixes(p) ==
  LET bindings == Bind(p)
  IN  {path \in Paths(p) : At(p, path).kind = "var" /\ canFix(p, bindings, path)}

-----------------------------------------------------------------------------
(* prefer-const.                                                             *)

(* The declarator or assignment that a write sits in. *)
destructuringHost(p, r) ==
  IF "Write" \in r.flags /\ At(p, r.at).kind \in VariableKinds \cup {"assign"} THEN {r.at} ELSE {}

canBecomeDeclaration(p, path) ==
  \/ At(p, path).kind \in VariableKinds
  \/ /\ At(p, path).kind = "assign"
     /\ At(p, Up(path)).kind = "expr" /\ isStatementListParent(p, Up(Up(path)))

(* A pattern that also names what lies outside the scope, or a parameter. *)
hasOuterNames(p, bindings, path, scope) ==
  /\ Len(At(p, path).names) > 1
  /\ \E n \in Names(At(p, path)) :
       \E d \in lookup(p, bindings.declarations, n, Append(scope, 1)) :
         d.scope # scope \/ d.kind = "parameter"

(* The path to report, the single write or the declaration; none when the      *)
(* variable cannot be const.                                                 *)
identifierIfConst(p, bindings, d) ==
  LET refs == ReferencesTo(bindings, d)
      writes == {r \in refs : "Write" \in r.flags}
      writer == CHOOSE r \in writes : TRUE
      readFirst == \E r \in refs : "Write" \notin r.flags /\ Before(r.at, writer.at)
  IN  IF \/ Cardinality(writes) # 1
         \/ At(p, writer.at).kind = "assign" /\ hasOuterNames(p, bindings, writer.at, d.scope)
         \/ writer.scope # d.scope
         \/ ~canBecomeDeclaration(p, writer.at)
      THEN {} ELSE {IF readFirst THEN d.at ELSE writer.at}

LetDeclarations(p, bindings) ==
  {d \in bindings.declarations :
     d.kind = "let" /\ ~(At(p, Up(d.at)).kind = "for" /\ Last(d.at) = 1)}

(* One host with the variables it writes: reported when some could be const,   *)
(* with a fix of their declaration when all of them can, they have a value   *)
(* from the start, and the declaration is where the first is reported.       *)
ConstGroups(p, bindings) ==
  LET Hosts(d) == UNION {destructuringHost(p, r) : r \in ReferencesTo(bindings, d)}
      variables == LetDeclarations(p, bindings)
      hosts == UNION {Hosts(d) : d \in variables}
      Members(h) == {d \in variables : h \in Hosts(d)}
      Target(d) == identifierIfConst(p, bindings, d)
      First(h) == CHOOSE d \in Members(h) :
                    \A e \in Members(h) : e.at # d.at => Before(d.at, e.at)
      Fixable(h) ==
        /\ \A d \in Members(h) : Target(d) # {}
        /\ \E at \in Target(First(h)) :
             /\ At(p, at).kind = "let"
             /\ At(p, at).kids # <<>> \/ InLoopHead(p, at)
  IN  {[host |-> h, reported |-> {d \in Members(h) : Target(d) # {}},
        fix |-> IF Fixable(h) THEN Target(First(h)) ELSE {}]
         : h \in {g \in hosts : \E d \in Members(g) : Target(d) # {}}}

ConstFixes(p) == UNION {g.fix : g \in ConstGroups(p, Bind(p))}

-----------------------------------------------------------------------------
(* no-unused-vars.                                                           *)

(* As isUnusedExpression, but for an argument too. *)
isOperand(p, path) == At(p, Up(path)).kind \in {"expr", "log"}

(* A value no one reads: that of an expression statement. *)
isUnusedExpression(p, path) == At(p, Up(path)).kind = "expr"

isInLoop(p, path) == enclosingLoop(p, path) # {}

(* The right side of the assignment a reference is the target of, when the     *)
(* assignment's value is dropped and the variable cannot be read later;      *)
(* within a right side already entered, that one.                            *)
rhsNode(p, r, prevRhs) ==
  LET d == CHOOSE d \in r.resolved : TRUE
      canBeUsedLater == \/ variableScope(p, r.scope) # variableScope(p, d.scope)
                        \/ isInLoop(p, r.at)
  IN  IF \E rhs \in prevRhs : Under(r.at, rhs) THEN prevRhs
      ELSE IF /\ At(p, r.at).kind = "assign" /\ Len(At(p, r.at).names) = 1
              /\ isUnusedExpression(p, r.at) /\ ~canBeUsedLater
      THEN {Append(r.at, 1)} ELSE {}

(* A function inside a right side that is kept, so that it may run later: one  *)
(* assigned, or one inside a statement of another. One called on the spot is *)
(* not.                                                                      *)
RECURSIVE isStorableFunction(_, _, _)
isStorableFunction(p, path, rhs) ==
  LET parent == Up(path)
  IN  /\ path # rhs /\ Under(parent, rhs)
      /\ CASE At(p, parent).kind = "call" -> FALSE
           [] At(p, parent).kind \in {"assign", "expr", "log", "later"} \cup VariableKinds -> TRUE
           [] OTHER -> isStorableFunction(p, parent, rhs)

isReadForItself(p, r, rhs) ==
  \/ At(p, r.at).kind = "update" /\ isUnusedExpression(p, r.at)
  \/ \E side \in rhs :
       /\ Under(r.at, side)
       /\ ~\E fn \in enclosingFunction(p, r.at) :
             Under(fn, side) /\ isStorableFunction(p, fn, side)

(* One name of a scope with every declaration of it. *)
Definitions(bindings, d) == SameName(bindings.declarations, d.name, d.scope)

(* What a function refers to by its own name from inside is no use of it.      *)
functionNodes(p, definitions) ==
  {d.at : d \in {e \in definitions : e.kind = "function"}}
  \cup {Append(d.at, 1) : d \in {e \in definitions : /\ e.kind \in VariableKinds
                                                      /\ At(p, e.at).kids # <<>>
                                                      /\ At(p, e.at).kids[1].kind = "arrow"}}

InOrder(refs) ==
  LET before(r) == {s \in refs : Before(s.at, r.at)}
  IN  [i \in 1..Cardinality(refs) |-> CHOOSE r \in refs : Cardinality(before(r)) = i - 1]

isUsedVariable(p, bindings, definitions) ==
  LET refs == InOrder(UNION {ReferencesTo(bindings, d) : d \in definitions})
      rhs[i \in 0..Len(refs)] == IF i = 0 THEN {} ELSE rhsNode(p, refs[i], rhs[i - 1])
      SelfReference(r) == \E fn \in functionNodes(p, definitions) : r.scope = fn \/ fn \in Above(r.scope)
  IN  \E i \in DOMAIN refs :
        /\ "Read" \in refs[i].flags
        /\ ~isReadForItself(p, refs[i], rhs[i - 1])
        /\ ~SelfReference(refs[i])

(* Parameters before one that is referred to are left alone.                  *)
isAfterLastUsedArg(p, bindings, d) ==
  LET names == At(p, d.at).names
      place == CHOOSE i \in DOMAIN names : names[i] = d.name
  IN  \A e \in bindings.declarations :
        e.kind = "parameter" /\ e.at = d.at /\ (\E j \in (place + 1)..Len(names) : names[j] = e.name)
          => ReferencesTo(bindings, e) = {}

(* The names reported as unused, each by its scope. A function expression's    *)
(* own name is no variable of the rule.                                      *)
UnusedReports(p) ==
  LET bindings == Bind(p)
      counted == {d \in bindings.declarations : ~(d.kind = "function" /\ At(p, d.at).kind = "arrow")}
      Defs(d) == Definitions([bindings EXCEPT !.declarations = counted], d)
  IN  {[name |-> d.name, scope |-> d.scope] : d \in
         {e \in counted : /\ ~isUsedVariable(p, bindings, Defs(e))
                          /\ e.kind = "parameter" => isAfterLastUsedArg(p, bindings, e)}}

-----------------------------------------------------------------------------
NameInit == programs = {}

(* A hole is a node that names which filling goes there. *)
RECURSIVE Fill(_, _)
Fill(shape, filling) ==
  IF shape.kind = "hole" THEN filling[shape.names[1]]
  ELSE [shape EXCEPT !.kids = [i \in DOMAIN @ |-> Fill(@[i], filling)]]

Holes(shape) == {At(shape, q).names[1] : q \in {r \in Paths(shape) : At(shape, r).kind = "hole"}}

LintNames ==
  /\ programs = {}
  /\ \E shape \in Shapes : \E filling \in [Holes(shape) -> Fillers] :
       programs' = {Fill(shape, filling)}

-----------------------------------------------------------------------------
(* Every name means the variable the language says: the binder's scopes,      *)
(* hoisting and lookup against the environments of a run. A function          *)
(* expression's own name shares the scope of its parameters.                 *)
(* (Binder::function, bindPattern, resolve)                                  *)
NamesMeanTheirVariables ==
  \A p \in programs :
    LET meant == Run(p).meant
    IN  \A r \in Bind(p).references : \A m \in meant :
          r.at = m.at /\ r.name = m.name =>
            m.is = {[name |-> d.name, scope |-> d.scope] : d \in r.resolved}

Outcome(ran) == <<ran.trace, ran.status>>

(* A function called on a line before the var that it reads.                  *)
CalledAhead(p, path) ==
  \E q \in Paths(p) :
    /\ Before(q, path) /\ At(p, q).kind = "call"
    /\ \E f \in Paths(p) : At(p, f).kind = "function" /\ Before(path, f)

(* A var beneath a catch whose parameter has its name: it lands on the         *)
(* parameter's scope.                                                        *)
InTheShadowOfCatch(p, path) ==
  \E q \in Above(path) : At(p, q).kind = "catch" /\ Names(At(p, q)) \cap Names(At(p, path)) # {}

(* The programs that a fix of no-var or prefer-const makes of p.              *)
Fixed(p) ==
  {SetKind(p, path, "let") : path \in {v \in VarFixes(p) : ~CalledAhead(p, v) /\ ~InTheShadowOfCatch(p, v)}}
  \cup {SetKind(p, path, "const") : path \in ConstFixes(p)}

KeptBy(fixes, ran) == ran.status = "ok" => \A fixed \in fixes : Outcome(Run(fixed)) = Outcome(ran)

(* A fix of no-var or prefer-const leaves the program as it was: the same      *)
(* values logged, no clash of declarations, nothing read too early, no write *)
(* to a const. (canFix, identifierIfConst, checkProgram)                     *)
FixesKeepMeaning == \A p \in programs : KeptBy(Fixed(p), Run(p))

(* A variable with the name of the function expression it is declared in: the  *)
(* binder gives its references to the function's own name.                   *)
HiddenByOwnName(p, v) == At(p, v.scope).kind = "arrow" /\ At(p, v.scope).names[1] = v.name

(* A variable reported as unused reaches nothing: no value that is logged or   *)
(* called came from it, save where it is assigned a value made of itself.    *)
(* (isUsedVariable, isReadForItself, rhsNode, isSelfReference)               *)
UnusedReachesNothing ==
  \A p \in programs :
    LET seen == Run(p).seen
    IN  \A v \in {u \in UnusedReports(p) : ~HiddenByOwnName(p, u)} : \A s \in seen :
          s.variable = v =>
            \E q \in Above(s.at) : At(p, q).kind = "assign" /\ v.name \in Names(At(p, q))
=============================================================================
