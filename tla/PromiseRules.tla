----------------------------- MODULE PromiseRules -----------------------------
(* The rules about promises nobody waits for (rules/no_floating_promises.cc)  *)
(* and waits for nothing (rules/await_thenable.cc), over one expression       *)
(* statement, against what becomes of the promises the statement produces.    *)
(*                                                                           *)
(* A statement is a tree of [op, args, type, handler]; only a variable has a  *)
(* type, only `then` and `catch` a rejection handler: its type, or none.     *)
EXTENDS TypeFacts

CONSTANTS
  ExpressionStatements,    \* the expression statements
  FloatingOptions \* sets of options of no-floating-promises that are on

VARIABLES statements, floating

promiseVars == <<statements, floating>>

PVar(t) == [op |-> "var", args |-> <<>>, type |-> t, handler |-> NoType]
POp(op, args) == [op |-> op, args |-> args, type |-> NoType, handler |-> NoType]
PCall(op, object, handler) == [op |-> op, args |-> <<object>>, type |-> NoType, handler |-> handler]

Handlers == {"then", "catch"}

UnionOf(S) ==
  LET t == CHOOSE m \in S : TRUE
      loose == {m \in S : isAnyLike(m)}   \* swallows the others
  IN  IF loose # {} THEN IF \E m \in loose : isAny(m) THEN Plain("Any") ELSE Plain("Unknown")
      ELSE IF Cardinality(S) = 1 THEN t
      ELSE Union(CHOOSE s \in [1..Cardinality(S) -> S] : SeqElements(s) = S)
MembersOf(t) == IF "Union" \in t.flags THEN SeqElements(t.parts) ELSE {t}

(* The checker's type of an expression. *)
RECURSIVE exprType(_)
exprType(e) ==
  LET T(i) == exprType(e.args[i])
  IN  CASE e.op = "var" -> e.type
        [] e.op \in Handlers \cup {"finally"} -> Generic("Promise", <<Plain("Number")>>)
        [] e.op = "," -> T(2)
        [] e.op = "?:" -> UnionOf(MembersOf(T(2)) \cup MembersOf(T(3)))
        [] e.op = "&&" ->
             LET falsy == {m \in MembersOf(T(1)) : ValuesOf[m] \cap Falsy # {}}
             IN  UnionOf(falsy \cup MembersOf(T(2)))
        [] e.op = "||" ->
             LET truthy == {m \in MembersOf(T(1)) : ValuesOf[m] \cap Truthy # {}}
             IN  UnionOf(truthy \cup MembersOf(T(2)))
        [] e.op = "void" -> Plain("Undefined")
        [] e.op = "await" -> IF awaitedType[T(1)] = NoType THEN Plain("Unknown") ELSE awaitedType[T(1)]
        [] e.op = "=" -> T(2)

-----------------------------------------------------------------------------
(* no-floating-promises.                                                     *)

(* As isPromiseLike, but the members of a union are not looked at.            *)
isWhollyPromise(t, options) ==
  \/ isBuiltin[apparentType(t), "Promise"]
  \/ "checkThenables" \in options /\ isThenable(t, 2)

(* Checker::isPromiseLike: with checkThenables, any object whose `then` takes *)
(* a second callback.                                                        *)
isPromiseLike(t, options) ==
  \/ \E m \in Parts(apparentType(t)) : isBuiltin[m, "Promise"]
  \/ "checkThenables" \in options /\ isThenable(t, 2)

isPromiseArray(t, options) ==
  \E m \in Parts(t) :
    LET apparent == apparentType(m)
    IN  \/ /\ isArray(apparent) /\ apparent.args # <<>>
           /\ isPromiseLike(apparent.args[1], options)
        \/ isTuple(apparent) /\ \E a \in SeqElements(apparent.args) : isPromiseLike(a, options)

(* isUnhandled: why the statement is reported, or "" when it is not.          *)
RECURSIVE isUnhandled(_, _)
isUnhandled(e, options) ==
  LET U(i) == isUnhandled(e.args[i], options)
      FirstOf(i, j) == IF U(i) # "" THEN U(i) ELSE U(j)
      t == exprType(e)
  IN  CASE e.op = "=" -> ""
        [] e.op = "," -> FirstOf(1, 2)
        [] e.op = "void" /\ "ignoreVoid" \notin options -> U(1)
        [] isPromiseArray(t, options) -> "array"
        [] e.op = "await" -> ""
        [] ~isPromiseLike(t, options) -> ""
        [] e.op \in Handlers ->
             IF e.handler = NoType THEN "floating"
             ELSE IF isCallable(e.handler) THEN "" ELSE "useless handler"
        [] e.op = "finally" -> U(1)
        [] e.op = "?:" -> FirstOf(3, 2)
        [] e.op \in {"&&", "||"} -> FirstOf(1, 2)
        [] OTHER -> "floating"

(* addAwait: the suggestion awaits the expression, or what `void` discards.   *)
addAwait(e) == IF e.op = "void" THEN POp("await", e.args) ELSE POp("await", <<e>>)

-----------------------------------------------------------------------------
(* await-thenable.                                                           *)

needsToBeAwaited(t) ==
  IF isTypeParameter(t) /\ constraintOf(t) = NoType THEN "may"
  ELSE LET known == apparentType(t)
       IN  IF isAnyLike(known) THEN "may"
           ELSE IF isThenable(known, 1) THEN "always" ELSE "never"

checkAwait(e) == needsToBeAwaited(exprType(e.args[1])) = "never"

-----------------------------------------------------------------------------
PromiseInit == statements = {} /\ floating = {}

LintStatement ==
  /\ statements = {}
  /\ \E s \in ExpressionStatements : statements' = {s}
  /\ floating' \in FloatingOptions

-----------------------------------------------------------------------------
MayBePromise(t) == "promise" \in ValuesOf[t]

(* The promises the value of a statement may be when it is thrown away, with  *)
(* no handler of their own, nor one further along the chain.                 *)
RECURSIVE Dropped(_)
Dropped(e) ==
  LET D(i) == Dropped(e.args[i])
  IN  CASE e.op = "var" -> IF MayBePromise(e.type) THEN {e} ELSE {}
        [] e.op = "||" -> D(1) \cup D(2)
        [] e.op \in {"&&", ","} -> D(2)
        [] e.op = "?:" -> D(2) \cup D(3)
        [] e.op \in Handlers ->
             IF e.handler # NoType /\ ValuesOf[e.handler] = {"function"} THEN {} ELSE {e}
        [] e.op = "finally" -> D(1)
        [] e.op \in {"void", "await", "="} -> {}

(* Of a comma list the value of every operand is thrown away. *)
RECURSIVE Discarded(_)
Discarded(e) ==
  IF e.op = "," THEN Discarded(e.args[1]) \cup Discarded(e.args[2]) ELSE Dropped(e)

(* A member of the type has only promises for values. *)
KnownPromise(t) ==
  \E m \in Parts(t) : ValuesOf[m] # {} /\ ValuesOf[m] \subseteq Promises

(* Where branches join, `any` in one of them is all the rule sees of them.     *)
RECURSIVE JoinsAny(_)
JoinsAny(e) ==
  \/ e.op \in {"&&", "||", "?:"} /\ isAnyLike(exprType(e))
  \/ \E i \in DOMAIN e.args : JoinsAny(e.args[i])

(* A statement the rule lets pass throws no promise away: each one it could   *)
(* produce has a handler, is awaited, assigned or marked with void           *)
(* (Checker::isUnhandled, against what becomes of the value).                *)
NoPromiseFloats ==
  \A e \in statements :
    isUnhandled(e, floating) = "" /\ "ignoreVoid" \in floating /\ ~JoinsAny(e) =>
      \A d \in Discarded(e) : d.op = "var" /\ ~KnownPromise(d.type)

(* A union with a type parameter among its members: `then` is looked for on    *)
(* the members, and the server is not asked for a parameter's.               *)
HasParameterMember(t) == "Union" \in t.flags /\ \E m \in SeqElements(t.parts) : isTypeParameter(m)

(* Awaiting a reported statement, as the suggestion does, leaves nothing that *)
(* await-thenable reports: the two rules agree on what a promise is          *)
(* (Checker::addAwait, needsToBeAwaited). What is awaited is no comma list and  *)
(* no second `void`.                                                         *)
SuggestedAwaitIsNeeded ==
  \A e \in statements :
    LET awaited == addAwait(e).args[1]
    IN  /\ isUnhandled(e, floating) \in {"floating", "useless handler"}
        /\ awaited.op \notin {",", "void"} /\ ~HasParameterMember(exprType(awaited))
        => ~checkAwait(addAwait(e))
=============================================================================
