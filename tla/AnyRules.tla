------------------------------- MODULE AnyRules -------------------------------
(* The rules that follow `any` (rules/unsafe.cc, no_unsafe_argument.cc,        *)
(* no_unsafe_return.cc, no_unsafe_member_access.cc), and the one that follows *)
(* `!` (rules/no_unnecessary_type_assertion.cc). Each checks one flow: the    *)
(* arguments of a call, a returned value, a chain of member accesses, an     *)
(* assertion.                                                                *)
EXTENDS TypeFacts

CONSTANTS
  Calls,      \* [params, rest, args]: parameter types, whether the last is `...rest`,
              \* and arguments [spread, type, open, bare]; `open`: the tuple has a rest
              \* element, `bare`: the argument is written `new Map()`
  Returns,    \* [sender, declared, annotated, async, bare]
  Chains,     \* [object, optional]: the type at the root, `?.` per access
  Assertions  \* [operand, context, target, unassigned, strict]

VARIABLES flows  \* the flow under way: at most one [kind, of]

anyVars == flows

-----------------------------------------------------------------------------
(* unsafe.cc. Types nest no deeper than its walks go; the visited pairs, which *)
(* stop the walk of a type that refers to itself, are left out.              *)

isAnyArray(t) == isArray(t) /\ t.args # <<>> /\ isAny(t.args[1])
isUnknownArray(t) == isArray(t) /\ t.args # <<>> /\ isUnknown(t.args[1])
constrainedType(t) == IF constraintOf(t) # NoType THEN constraintOf(t) ELSE t

(* Different generics are assumed safe.                                      *)
isUnsafeAssignmentWorker[sender \in Types] == [receiver \in Types |->
  IF isAny(sender) /\ isUnknown(receiver) THEN FALSE
  ELSE \/ isAny(sender) /\ ~isAny(receiver)
       \/ /\ sender.of # "" /\ sender.of = receiver.of
          /\ \E i \in DOMAIN sender.args \cap DOMAIN receiver.args :
               isUnsafeAssignmentWorker[sender.args[i]][receiver.args[i]]]

(* As isUnsafeAssignment, but a map with type arguments passes as well. *)
IgnoringAnyMap(sender, receiver, bare) ==
  ~(sender.of = "Map" /\ sender.of = receiver.of) /\ isUnsafeAssignmentWorker[sender][receiver]

(* A bare `new Map()` is a Map<any, any>, yet safe for every Map: the walk     *)
(* ends where it meets the receiver's own generic, at the first pair already. *)
isUnsafeAssignment(sender, receiver, bare) ==
  /\ ~(bare /\ sender.of # "" /\ sender.of = receiver.of)
  /\ isUnsafeAssignmentWorker[sender][receiver]

(* Only a thing that is awaited to be any itself makes a promise of any.       *)
discriminateAny(t) ==
  IF isAny(t) THEN "any"
  ELSE IF isAnyArray(t) THEN "any array"
  ELSE IF \E part \in Parts(t) : isThenable(part, 1) /\ isAny(awaitedType[part])
  THEN "promise of any" ELSE "safe"

-----------------------------------------------------------------------------
(* no-unsafe-argument: the walk over the parameters.                          *)

Nothing == NoType

(* What a rest parameter takes: the elements of a tuple, or one type.         *)
RestTypes(call) ==
  LET rest == constrainedType(call.params[Len(call.params)])
  IN  IF ~call.rest THEN <<>>
      ELSE IF isTuple(rest) THEN rest.args
      ELSE IF isArray(rest) THEN <<rest.args[1]>>
      ELSE <<rest>>

FixedCount(call) == Len(call.params) - (IF call.rest THEN 1 ELSE 0)

(* As ParameterAt, but the parameters go on after an open spread. *)
ParameterAtIndex(call, index, consumed) ==
  LET fixed == FixedCount(call)
      rest == RestTypes(call)
  IN  IF index <= fixed THEN call.params[index]
      ELSE IF rest = <<>> THEN Nothing
      ELSE rest[IF index - fixed > Len(rest) THEN Len(rest) ELSE index - fixed]

(* Parameters::next at an index, with `consumed` once a spread had a rest.    *)
ParameterAt(call, index, consumed) ==
  LET fixed == FixedCount(call)
      rest == RestTypes(call)
      offset == index - fixed
  IN  IF index <= fixed /\ ~consumed THEN call.params[index]
      ELSE IF rest = <<>> THEN Nothing
      ELSE IF consumed \/ offset > Len(rest) THEN rest[Len(rest)]
      ELSE rest[offset]

(* The walk so far: the number of parameters taken, whether they are consumed, *)
(* and the pairs [arg, sender, receiver] compared.                           *)
Walk(next, consumed, pairs) == [next |-> next, consumed |-> consumed, pairs |-> pairs]
AtStart == Walk(0, FALSE, {})

Compare(call, was, arg, sender) ==
  LET pair == [arg |-> arg, sender |-> sender, receiver |-> ParameterAt(call, was.next + 1, was.consumed)]
  IN  Walk(was.next + 1, was.consumed, was.pairs \cup {pair})

(* A spread that is no tuple is left alone. *)
checkSpread(call, was, i) ==
  LET arg == call.args[i]
      elements == arg.type.args
      each[k \in 0..Len(elements)] == IF k = 0 THEN was ELSE Compare(call, each[k - 1], i, elements[k])
      end == each[Len(elements)]
  IN  IF isTuple(arg.type) THEN Walk(end.next, end.consumed \/ arg.open, end.pairs) ELSE was

checkArgument(call, was, i) ==
  IF call.args[i].spread THEN checkSpread(call, was, i) ELSE Compare(call, was, i, call.args[i].type)

checkArguments(call) ==
  LET walk[i \in 0..Len(call.args)] == IF i = 0 THEN AtStart ELSE checkArgument(call, walk[i - 1], i)
  IN  walk[Len(call.args)].pairs

ArgumentReports(call) ==
  {p.arg : p \in {q \in checkArguments(call) :
                    q.receiver # Nothing /\ isUnsafeAssignment(q.sender, q.receiver, call.args[q.arg].bare)}}
  \cup {i \in DOMAIN call.args :
          call.args[i].spread /\ (isAny(call.args[i].type) \/ isAnyArray(call.args[i].type))}

-----------------------------------------------------------------------------
(* no-unsafe-return: whether a returned value is reported.                    *)

MeantToBe(r) ==
  /\ r.annotated
  /\ \/ r.declared = r.sender
     \/ isAnyLike(r.declared)
     \/ r.async /\ LET from == awaitedType[r.sender]
                       to == awaitedType[r.declared]
                   IN  (from # NoType /\ from = to) \/ isAnyLike(to)

TakesAny(r, kind) ==
  CASE kind = "any" -> isUnknown(r.declared)
    [] kind = "any array" -> isUnknownArray(r.declared)
    [] kind = "promise of any" -> isUnknown(awaitedType[r.declared]) \/ ~r.async

checkReturn(r) ==
  LET kind == discriminateAny(r.sender)
  IN  /\ ~MeantToBe(r)
      /\ IF kind # "safe" THEN ~TakesAny(r, kind)
         ELSE isUnsafeAssignment(r.sender, r.declared, r.bare)

-----------------------------------------------------------------------------
(* no-unsafe-member-access: the states of a chain's accesses, from the root.  *)
(* Every access to a value of type any is any itself.                        *)

checkObject(chain, allowOptionalChaining) ==
  LET n == Len(chain.optional)
      state[i \in 1..n] ==
        IF allowOptionalChaining /\ chain.optional[i] THEN "chained"
        ELSE IF i > 1 /\ state[i - 1] \in {"unsafe", "reported"} THEN "unsafe"
        ELSE IF isAny(chain.object) THEN "reported" ELSE "safe"
  IN  state

AccessReports(chain, allowOptionalChaining) ==
  {i \in DOMAIN chain.optional : checkObject(chain, allowOptionalChaining)[i] = "reported"}

-----------------------------------------------------------------------------
(* no-unnecessary-type-assertion. Without strictNullChecks the checker keeps   *)
(* no null or undefined in a type.                                           *)

Seen(t, strict) ==
  IF strict \/ "Union" \notin t.flags THEN t
  ELSE LET kept == SelectSeq(t.parts, LAMBDA m : m.flags \cap NullishFlags = {})
       IN  IF Len(kept) = 1 THEN kept[1] ELSE Union(kept)

isNullableLike(t) == isNullable(t) \/ isAnyLike(t)
unionFlags(t) ==
  IF "Union" \in t.flags THEN UNION {m.flags : m \in SeqElements(t.parts)} ELSE t.flags

(* Dropping the `!` is offered: nothing to narrow, or a context that takes    *)
(* what the operand may be.                                                  *)
Accepts(constrained, context) ==
  /\ "Unknown" \in unionFlags(constrained) => "Unknown" \in unionFlags(context)
  /\ unionFlags(constrained) \cap NullishFlags \subseteq unionFlags(context)

checkNonNull(a) ==
  LET actual == Seen(a.operand, a.strict)
      constrained == constrainedType(actual)
  IN  IF a.target THEN TRUE
      ELSE IF ~isNullableLike(constrained) /\ ~isNullableLike(actual)
      THEN ~(a.strict /\ a.unassigned)
      ELSE /\ constrained = actual
           /\ a.context # NoType
           /\ Accepts(constrained, a.context)

-----------------------------------------------------------------------------
AnyInit == flows = {}

FollowArguments == flows = {} /\ \E c \in Calls : flows' = {[kind |-> "call", of |-> c]}
FollowReturn == flows = {} /\ \E r \in Returns : flows' = {[kind |-> "return", of |-> r]}
FollowChain == flows = {} /\ \E c \in Chains : flows' = {[kind |-> "chain", of |-> c]}
FollowAssertion == flows = {} /\ \E a \in Assertions : flows' = {[kind |-> "assertion", of |-> a]}

AnyNext == FollowArguments \/ FollowReturn \/ FollowChain \/ FollowAssertion
AnySpec == AnyInit /\ [][AnyNext]_anyVars

Of(kind) == {f.of : f \in {g \in flows : g.kind = kind}}

-----------------------------------------------------------------------------
(* Arguments as a call hands them over, up to one of them: elements in order,  *)
(* each tuple spread out. What stands behind a spread of unknown length has  *)
(* no place of its own.                                                      *)
HasLength(arg) == isTuple(arg.type) /\ ~arg.open
Loose(call, i) == \E j \in 1..(i - 1) : call.args[j].spread /\ ~HasLength(call.args[j])

Handed(call, i) ==
  LET arg == call.args[i]
      One(t) == [arg |-> i, type |-> t, loose |-> Loose(call, i)]
  IN  IF ~arg.spread THEN <<One(arg.type)>>
      ELSE IF isTuple(arg.type) THEN [k \in DOMAIN arg.type.args |-> One(arg.type.args[k])] ELSE <<>>

HandedUpTo(call, n) ==
  LET upTo[i \in 0..n] == IF i = 0 THEN <<>> ELSE upTo[i - 1] \o Handed(call, i)
  IN  upTo[n]
HandedOver(call) == HandedUpTo(call, Len(call.args))

(* The parameter of a place: the fixed ones, then the rest tuple's elements,   *)
(* its last standing for all that follow.                                    *)
AllParameters(call) == SubSeq(call.params, 1, FixedCount(call)) \o RestTypes(call)

TakenBy(call, place) ==
  LET all == AllParameters(call)
  IN  IF place <= Len(all) THEN all[place]
      ELSE IF call.rest /\ RestTypes(call) # <<>> THEN all[Len(all)] ELSE Nothing

(* What the checker lets through: an argument that spreads no tuple stands     *)
(* where only the last of a rest parameter's types is left.                  *)
IsCall(call) ==
  /\ call.params \in Seq(Types) /\ call.rest \in BOOLEAN /\ (call.rest => call.params # <<>>)
  /\ call.args \in Seq([spread : BOOLEAN, type : Types, open : BOOLEAN, bare : BOOLEAN])
  /\ \A i \in DOMAIN call.args : call.args[i].spread => ~call.args[i].bare
  /\ \A i \in DOMAIN call.args :
       call.args[i].spread /\ ~isTuple(call.args[i].type) =>
         /\ call.rest /\ RestTypes(call) # <<>>
         /\ Len(HandedUpTo(call, i - 1)) + 1 >= Len(AllParameters(call))

(* An async function returns a promise of the default library. *)
IsReturn(r) ==
  /\ r.sender \in Types /\ r.declared \in Types /\ r.annotated \in BOOLEAN /\ r.async \in BOOLEAN
  /\ r.bare \in BOOLEAN
  /\ r.async => r.declared.of = "Promise"

IsChain(c) == c.object \in Types /\ c.optional \in Seq(BOOLEAN) \ {<<>>}

ASSUME FlowsAssumption ==
  /\ \A call \in Calls : IsCall(call)
  /\ \A r \in Returns : IsReturn(r)
  /\ \A c \in Chains : IsChain(c)

(* Every element a call hands over is compared with the parameter it lands on, *)
(* spreads and rest parameters included, and behind a spread of unknown       *)
(* length with the last rest type. What a pair makes of the two types is not  *)
(* part of it. (Parameters::next, Checker::checkSpread)                      *)
ArgumentsMeetTheirParameter ==
  \A call \in Of("call") :
    LET given == HandedOver(call)
        last == Len(AllParameters(call)) + 1
    IN  checkArguments(call) =
          {[arg |-> given[k].arg, sender |-> given[k].type,
            receiver |-> TakenBy(call, IF given[k].loose THEN last ELSE k)]
           : k \in DOMAIN given}

(* A value the caller reads as something definite though it was `any`.        *)
Leaks[sender \in MaybeType] == [receiver \in MaybeType |->
  \/ isAny(sender) /\ ~isAnyLike(receiver)
  \/ sender.of # "" /\ sender.of = receiver.of
     /\ \E i \in DOMAIN sender.args \cap DOMAIN receiver.args :
          Leaks[sender.args[i]][receiver.args[i]]]

(* A promise whose value is no promise again. *)
WaitsOnce(t) == t.of = "Promise" /\ Len(t.args) = 1 /\ awaitedType[t] = t.args[1]

IsEmptyMap(r) == r.bare /\ r.sender.of # "" /\ r.sender.of = r.declared.of

(* What a return lets pass leaks no `any` to the caller, seen through the      *)
(* promise of an async function. A plain function that returns a promise of  *)
(* any is never reported, and neither is an async one with a generic that is *)
(* not in one promise on both sides: the rule compares the two as they stand. *)
(* A `new Map()` without type arguments passes for every Map: it holds no     *)
(* value yet, and the rule goes by the name it is written with.              *)
(* (Checker::checkReturn, isBareNewMap)                                      *)
NoAnyIsReturned ==
  \A r \in Of("return") :
    ~checkReturn(r) =>
      \/ discriminateAny(r.sender) = "promise of any" /\ ~r.async
      \/ /\ r.async /\ awaitedType[r.sender].args # <<>>
         /\ ~(WaitsOnce(r.sender) /\ WaitsOnce(r.declared))
      \/ IsEmptyMap(r)
      \/ IF r.async THEN ~Leaks[awaitedType[r.sender]][awaitedType[r.declared]]
         ELSE ~Leaks[r.sender][r.declared]

(* A chain of accesses on `any` is reported once, at its innermost access, as  *)
(* long as `?.` is no exception. (Checker::checkObject)                      *)
ChainReportedOnce ==
  \A c \in Of("chain") :
    /\ AccessReports(c, FALSE) = IF isAny(c.object) THEN {1} ELSE {}
    /\ isAny(c.object) /\ (\E i \in DOMAIN c.optional : ~c.optional[i])
         => AccessReports(c, TRUE) # {}

Open(t) == \E m \in Parts(t) : isTypeParameter(m) /\ m.bound = <<>>

(* An assertion reported as unnecessary can go: the values it keeps out do not *)
(* occur, or the place they flow to takes them, as every place takes `any`. An *)
(* open type parameter may stand for undefined. (Checker::checkNonNull, whose fix drops the `!`)     *)
AssertionCanGo ==
  \A a \in Of("assertion") :
    a.strict /\ ~a.target /\ ~Open(a.operand) /\ checkNonNull(a) =>
      \/ isAny(a.operand) \/ ValuesOf[a.operand] \cap Nullish = {}
      \/ a.context # NoType /\ ValuesOf[a.operand] \cap Nullish \subseteq ValuesOf[a.context]

(* Without strictNullChecks no type reads as non-nullable and the rule stays   *)
(* quiet, as docs/rules/no-unnecessary-type-assertion.md says: an assertion   *)
(* on an operand that may be null is left alone. (Checker::checkNonNull)     *)
QuietWithoutStrict ==
  \A a \in Of("assertion") :
    ~a.strict /\ ~a.target /\ ValuesOf[a.operand] \cap Nullish # {} => ~checkNonNull(a)
=============================================================================
