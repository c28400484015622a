------------------------------- MODULE Execution -------------------------------
(* What a program of Scopes does when it runs, by ECMAScript's rules for      *)
(* environments, hoisting and the temporal dead zone: what it logs, which    *)
(* variable every name meant, and which variables what was logged or called  *)
(* came from. Loops go round twice. No part of it is the repository's.       *)
EXTENDS Scopes

(* A value: where it was made (nowhere for undefined), the variables it came  *)
(* through, and its function and environment.                                *)
Value(label, through, fn, env) == [label |-> label, through |-> through, fn |-> fn, env |-> env]
Undefined == Value(<<>>, {}, <<>>, <<>>)

Variable(name, scope) == [name |-> name, scope |-> scope]
Slot(name, scope, kind, at) == [name |-> name, scope |-> scope, kind |-> kind, at |-> at]

Start == [cells |-> <<>>, trace |-> <<>>, seen |-> {}, meant |-> {}, later |-> <<>>,
          status |-> "ok", out |-> Undefined]

Fail(st, status) == [st EXCEPT !.status = status]

-----------------------------------------------------------------------------
(* Environments: from names to cells.                                        *)

Cell(slot, env) ==
  [variable |-> Variable(slot.name, slot.scope),
   const |-> slot.kind = "const",
   set |-> slot.kind \notin {"let", "const"},
   value |-> IF slot.kind = "function" THEN Value(slot.at, {}, slot.at, env) ELSE Undefined]

Extend(env, slots, base) ==
  [n \in DOMAIN env \cup {slots[i].name : i \in DOMAIN slots} |->
     IF \E i \in DOMAIN slots : slots[i].name = n
     THEN base + CHOOSE i \in DOMAIN slots : slots[i].name = n
     ELSE env[n]]

Allocate(st, env, slots) ==
  [st EXCEPT !.cells = @ \o [i \in DOMAIN slots |-> Cell(slots[i], Extend(env, slots, Len(@)))]]

(* The let, const and function declarations among the kids of a node. *)
LexicalSlots(program, path) ==
  LET e == At(program, path)
      Of(i) == LET kid == e.kids[i]
                   at == Append(path, i)
               IN  IF kid.kind \in {"let", "const"}
                   THEN [k \in DOMAIN kid.names |-> Slot(kid.names[k], path, kid.kind, at)]
                   ELSE IF kid.kind = "function"
                   THEN <<Slot(kid.names[1], path, "function", at)>> ELSE <<>>
      upTo[i \in 0..Len(e.kids)] == IF i = 0 THEN <<>> ELSE upTo[i - 1] \o Of(i)
  IN  upTo[Len(e.kids)]

(* The parameters and the variables hoisted to a function or the program.      *)
HoistedSlots(program, path) ==
  LET e == At(program, path)
      params == IF e.kind \in FunctionLike THEN Names(e) \ {e.names[1]} ELSE {}
      hoisted == UNION {Names(At(program, p)) :
                          p \in {q \in Paths(program) : /\ At(program, q).kind = "var"
                                                        /\ Under(q, path) /\ q # path
                                                        /\ variableScope(program, Up(q)) = path}}
      functions == {s.name : s \in ToSet(LexicalSlots(program, path))}
  IN  SetToSeq({Slot(n, path, "hoisted", path) : n \in (params \cup hoisted) \ functions})

-----------------------------------------------------------------------------
(* Reading and writing.                                                      *)

Note(st, at, name, env) ==
  [st EXCEPT !.meant = @ \cup {[at |-> at, name |-> name,
                                is |-> IF name \in DOMAIN env
                                       THEN {st.cells[env[name]].variable} ELSE {}]}]

Read(st, at, name, env) ==
  LET cell == st.cells[env[name]]
  IN  IF name \notin DOMAIN env THEN Fail(Note(st, at, name, env), "undeclared")
      ELSE IF ~cell.set THEN Fail(Note(st, at, name, env), "dead zone")
      ELSE [Note(st, at, name, env) EXCEPT
              !.out = [cell.value EXCEPT !.through = @ \cup {cell.variable}]]

Write(st, at, name, env, value, initializes) ==
  LET cell == st.cells[env[name]]
  IN  IF name \notin DOMAIN env THEN Fail(Note(st, at, name, env), "undeclared")
      ELSE IF ~initializes /\ ~cell.set THEN Fail(Note(st, at, name, env), "dead zone")
      ELSE IF ~initializes /\ cell.const THEN Fail(Note(st, at, name, env), "constant")
      ELSE [Note(st, at, name, env) EXCEPT
              !.cells[env[name]] = [@ EXCEPT !.set = TRUE, !.value = value]]

(* Every name of a target, one after the other. *)
WriteAll(st, at, names, env, value, initializes) ==
  LET upTo[i \in 0..Len(names)] ==
        IF i = 0 THEN st
        ELSE IF upTo[i - 1].status # "ok" THEN upTo[i - 1]
        ELSE Write(upTo[i - 1], at, names[i], env, value, initializes)
  IN  upTo[Len(names)]

See(st, at) == [st EXCEPT !.seen = @ \cup {[variable |-> v, at |-> at] : v \in st.out.through}]

-----------------------------------------------------------------------------
(* A statement, or an expression inside one, is run in an environment.         *)
RECURSIVE Exec(_, _, _, _)

(* The kids of a node as statements. *)
ExecList(program, path, env, st) ==
  LET upTo[i \in 0..Len(At(program, path).kids)] ==
        IF i = 0 THEN st
        ELSE IF upTo[i - 1].status # "ok" THEN upTo[i - 1]
        ELSE Exec(program, Append(path, i), env, upTo[i - 1])
  IN  upTo[Len(At(program, path).kids)]

(* The kids of a node with variables of their own. *)
ExecScope(program, path, env, slots, st) ==
  ExecList(program, path, Extend(env, slots, Len(st.cells)), Allocate(st, env, slots))

CallValue(program, st, value) ==
  LET fn == At(program, value.fn)
      own == IF fn.kind = "arrow" /\ fn.names[1] # ""
             THEN <<Slot(fn.names[1], value.fn, "function", value.fn)>> ELSE <<>>
      named == Allocate(st, value.env, own)
      inside == Extend(value.env, own, Len(st.cells))
      slots == HoistedSlots(program, value.fn) \o LexicalSlots(program, value.fn)
  IN  IF st.status # "ok" THEN st
      ELSE IF value.fn = <<>> THEN Fail(st, "no function")
      ELSE [ExecScope(program, value.fn, inside, slots, named) EXCEPT !.out = Undefined]

Eval(program, path, env, st) ==
  LET e == At(program, path)
      kid == Exec(program, Append(path, 1), env, st)
  IN  CASE st.status # "ok" -> st
        [] e.kind = "num" -> [st EXCEPT !.out = Value(path, {}, <<>>, <<>>)]
        [] e.kind = "read" -> Read(st, path, e.names[1], env)
        [] e.kind = "arrow" -> [st EXCEPT !.out = Value(path, {}, path, env)]
        [] e.kind = "assign" ->
             IF kid.status # "ok" THEN kid ELSE WriteAll(kid, path, e.names, env, kid.out, FALSE)
        [] e.kind = "update" ->
             LET old == Read(st, path, e.names[1], env)
             IN  IF old.status # "ok" THEN old
                 ELSE Write(old, path, e.names[1], env, [old.out EXCEPT !.label = path], FALSE)
        [] e.kind = "call" -> IF kid.status # "ok" THEN kid ELSE CallValue(program, See(kid, path), kid.out)
        [] OTHER -> st

(* One time round a loop: a fresh variable for a let or const in its head.    *)
Round(program, path, env, st, value) ==
  LET e == At(program, path)
      head == e.kids[1]
      body == Append(path, Len(e.kids))
      slots == LexicalSlots(program, path)
      inside == Extend(env, slots, Len(st.cells))
      fresh == Allocate(st, env, slots)
      begun == IF e.kind = "loop" \/ head.names = <<>> THEN fresh
               ELSE WriteAll(fresh, Append(path, 1), head.names, inside, value, loopHeadDeclares(e))
      Inside(was) == IF was.status # "ok" THEN was ELSE Exec(program, body, inside, was)
  IN  IF st.status # "ok" THEN st ELSE Inside(begun)

(* What was put off, when the rest has run.                                   *)
RunLater(program, st) ==
  LET rest[i \in 0..Len(st.later)] == IF i = 0 THEN st ELSE CallValue(program, rest[i - 1], st.later[i])
  IN  rest[Len(st.later)]

Exec(program, path, env, st) ==
  LET e == At(program, path)
      kid == Exec(program, Append(path, 1), env, st)
      slots == LexicalSlots(program, path)
      inside == Extend(env, slots, Len(st.cells))
      Turn(i) == Value(Append(path, 100 + i), {}, <<>>, <<>>)
  IN  CASE e.kind \in {"let", "const"} /\ e.kids = <<>> ->
             WriteAll(st, path, e.names, env, Undefined, TRUE)
        [] e.kind \in VariableKinds /\ e.kids # <<>> ->
             IF kid.status # "ok" THEN kid
             ELSE WriteAll(kid, path, e.names, env, kid.out, e.kind # "var")
        [] e.kind = "expr" -> kid
        [] e.kind = "log" ->
             IF kid.status # "ok" THEN kid
             ELSE See([kid EXCEPT !.trace = Append(@, <<path, kid.out.label>>)], path)
        [] e.kind = "later" ->
             IF kid.status # "ok" THEN kid ELSE See([kid EXCEPT !.later = Append(@, kid.out)], path)
        [] e.kind = "program" ->
             RunLater(program, ExecScope(program, path, env, HoistedSlots(program, path) \o LexicalSlots(program, path), st))
        [] e.kind = "block" -> ExecScope(program, path, env, slots, st)
        [] e.kind = "catch" ->
             LET param == <<Slot(e.names[1], path, "hoisted", path)>>
             IN  Exec(program, Append(path, 1), Extend(env, param, Len(st.cells)),
                      Allocate(st, env, param))
        [] e.kind = "loop" ->
             LET turn[i \in 0..2] == IF i = 0 THEN st ELSE Round(program, path, env, turn[i - 1], Undefined)
             IN  turn[2]
        [] e.kind = "for" ->   \* the variable is copied from turn to turn
             LET started == IF loopHeadDeclares(e) THEN Exec(program, Append(path, 1), inside, Allocate(st, env, slots))
                            ELSE Exec(program, Append(path, 1), env, st)
                 Copy(was) == IF e.kids[1].names = <<>> \/ ~loopHeadDeclares(e) THEN Undefined
                              ELSE was.cells[Len(st.cells) + 1].value
                 Again(was) == [was EXCEPT !.cells[Len(st.cells) + 1].value =
                                  IF loopHeadDeclares(e) THEN was.cells[Len(started.cells) + 1].value ELSE @]
                 Body(was) == IF was.status # "ok" THEN was
                              ELSE IF loopHeadDeclares(e) THEN Round(program, path, env, was, Copy(was))
                              ELSE Exec(program, Append(path, 2), env, was)
                 turn[i \in 0..2] ==
                   IF i = 0 THEN started
                   ELSE Body(IF i = 2 /\ turn[1].status = "ok" /\ loopHeadDeclares(e) THEN Again(turn[1]) ELSE turn[i - 1])
             IN  turn[2]
        [] e.kind = "forof" ->
             LET dead == Allocate(st, env, slots)
                 values == Exec(program, Append(path, 2), inside, dead)
                 turn[i \in 0..2] == IF i = 0 THEN values ELSE Round(program, path, env, turn[i - 1], Turn(i))
             IN  turn[2]
        [] OTHER -> Eval(program, path, env, st)

-----------------------------------------------------------------------------
(* Declarations that clash: a let, const or function beside another of its     *)
(* name, or in a block that a var of its name is hoisted out of.             *)
Lexical(program, d) ==
  \/ d.kind \in {"let", "const"}
  \/ /\ d.kind = "function" /\ At(program, d.at).kind = "function"
     /\ At(program, d.scope).kind \notin FunctionLike

Clash(program) ==
  LET declarations == Declarations(program)
      Own(d) == d.kind = "function" /\ d.scope = d.at
      catching(s) == At(program, s).kind = "block" /\ At(program, Up(s)).kind = "catch"
  IN  \E d \in declarations : \E e \in declarations \ {d} :
        /\ d.name = e.name /\ Lexical(program, d) /\ ~Own(e)
        /\ \/ e.scope = d.scope
           \/ e.kind = "var" /\ d.scope \in Above(e.at) /\ Under(d.scope, e.scope)
           \/ e.kind = "catch" /\ d.scope # <<>> /\ catching(d.scope) /\ e.scope = Up(d.scope)

Run(program) == IF Clash(program) THEN Fail(Start, "clash") ELSE Exec(program, <<>>, <<>>, Start)
=============================================================================
