------------------------------ MODULE RuleProofs ------------------------------
(* What the rules say is true of the program: flow.cc's reachability of every *)
(* function body, and the two rules that follow `any` of every call, every   *)
(* return and every type.                                                    *)
EXTENDS Flow, AnyRules, FiniteSetTheorems, SequenceTheorems, TLAPS

-----------------------------------------------------------------------------
(* Induction and recursion over numbered things. The library states them with *)
(* an operator for the claim; here the claim is the set of numbers it holds    *)
(* for, and a definition by recursion is a function of what is found below.   *)

(* A set of numbers that is not empty has a least one. *)
LEMMA LeastNumber ==
  ASSUME NEW T \in SUBSET Nat, T # {}
  PROVE  \E x \in T : \A y \in T : x <= y
<1> DEFINE Up == {1..n : n \in T}
           F == FiniteSubsetsOf(Nat)
           R == StrictSubsetOrdering(Nat)
<1>1. Up \subseteq F /\ Up # {}
  <2>1. ASSUME NEW n \in T PROVE 1..n \in F
    <3>1. n \in Nat /\ 1..n \subseteq Nat
      OBVIOUS
    <3>2. IsFiniteSet(1..n)
      BY <3>1, FS_Interval
    <3> QED BY <3>1, <3>2 DEF FiniteSubsetsOf
  <2> QED BY <2>1
<1>2. IsWellFoundedOn(R, F)
  BY FS_StrictSubsetOrderingWellFounded
<1> HIDE DEF R, F
<1>3. PICK X \in Up : \A Y \in Up : ~(<<Y, X>> \in R)
  BY <1>1, <1>2, WFMin
<1>4. PICK x \in T : X = 1..x
  OBVIOUS
<1>5. ASSUME NEW y \in T, y < x PROVE FALSE
  <2>1. x \in 1..x /\ x \notin 1..y
    BY <1>5
  <2>2. 1..y \subseteq X /\ 1..y # X
    BY <2>1, <1>5, <1>4
  <2>3. <<1..y, X>> \in R
    BY <2>2, <1>4 DEF R, StrictSubsetOrdering
  <2> QED BY <2>3, <1>3
<1> QED BY <1>5

(* What holds of a number whenever it holds of those below holds of them all. *)
LEMMA FromBelow ==
  ASSUME NEW N \in Nat, NEW S, \A n \in 1..N : (\A m \in 1..(n - 1) : m \in S) => n \in S
  PROVE  1..N \subseteq S
<1>1. SUFFICES ASSUME (1..N) \ S # {} PROVE FALSE
  OBVIOUS
<1>2. PICK x \in (1..N) \ S : \A y \in (1..N) \ S : x <= y
  <2> DEFINE T == (1..N) \ S
  <2>1. T \in SUBSET Nat /\ T # {}
    BY <1>1
  <2> HIDE DEF T
  <2>2. \E x \in T : \A y \in T : x <= y
    BY <2>1, LeastNumber
  <2> QED BY <2>2 DEF T
<1>3. \A m \in 1..(x - 1) : m \in S
  BY <1>2
<1> QED BY <1>2, <1>3

(* F gives the value at n from a function that has the values below.          *)
FromLower(F, N, V) ==
  /\ F \in [(1..N) \X [1..N -> V] -> V]
  /\ \A n \in 1..N : \A g, h \in [1..N -> V] :
       (\A m \in 1..(n - 1) : g[m] = h[m]) => F[<<n, g>>] = F[<<n, h>>]

Follows(f, F, N) == \A n \in 1..N : f[n] = F[<<n, f>>]

(* There is a function that follows it at all numbers up to N. *)
LEMMA Recursion ==
  ASSUME NEW N \in Nat, NEW V, V # {}, NEW F, FromLower(F, N, V)
  PROVE  \E f \in [1..N -> V] : Follows(f, F, N)
<1> USE DEF FromLower, Follows
<1> DEFINE Upto(k) == \E f \in [1..N -> V] : \A n \in 1..N : n <= k => f[n] = F[<<n, f>>]
           Not == {k \in 0..N : ~Upto(k)}
<1>1. Upto(0)
  <2>1. PICK v \in V : TRUE
    OBVIOUS
  <2>2. [n \in 1..N |-> v] \in [1..N -> V]
    OBVIOUS
  <2>3. \A n \in 1..N : ~(n <= 0)
    OBVIOUS
  <2> QED BY <2>2, <2>3
<1>2. ASSUME NEW k \in Nat, k + 1 <= N, Upto(k) PROVE Upto(k + 1)
  <2>1. PICK f \in [1..N -> V] : \A n \in 1..N : n <= k => f[n] = F[<<n, f>>]
    BY <1>2
  <2> DEFINE g == [f EXCEPT ![k + 1] = F[<<k + 1, f>>]]
  <2>2. g \in [1..N -> V] /\ g[k + 1] = F[<<k + 1, f>>] /\ \A m \in 1..k : g[m] = f[m]
    BY <1>2
  <2>3. ASSUME NEW n \in 1..N, n <= k + 1 PROVE g[n] = F[<<n, g>>]
    <3> HIDE DEF g
    <3>1. \A m \in 1..(n - 1) : g[m] = f[m]
      BY <2>2, <2>3, <1>2
    <3>2. F[<<n, g>>] = F[<<n, f>>]
      BY <3>1, <2>2
    <3>3. CASE n = k + 1
      BY <3>2, <3>3, <2>2
    <3>4. CASE n <= k
      BY <3>2, <3>4, <2>1, <2>2, <1>2
    <3> QED BY <2>3, <3>3, <3>4, <1>2
  <2> QED BY <2>2, <2>3
<1>3. Upto(N) => \E f \in [1..N -> V] : \A n \in 1..N : f[n] = F[<<n, f>>]
  <2>1. \A n \in 1..N : n <= N
    OBVIOUS
  <2> QED BY <2>1
<1> HIDE DEF Upto
<1>4. Not = {}
  <2>1. SUFFICES ASSUME Not # {} PROVE FALSE
    OBVIOUS
  <2>2. PICK k \in Not : \A j \in Not : k <= j
    <3>1. Not \in SUBSET Nat
      OBVIOUS
    <3> HIDE DEF Not
    <3> QED BY <3>1, <2>1, LeastNumber
  <2>3. k # 0 /\ k - 1 \in Nat /\ Upto(k - 1) /\ (k - 1) + 1 = k /\ k <= N
    BY <1>1, <2>2
  <2>4. Upto(k)
    BY <1>2, <2>3
  <2> QED BY <2>2, <2>4
<1>5. N \in 0..N
  OBVIOUS
<1> QED BY <1>3, <1>4, <1>5

Step(S, N, V) == S \in [(1..N) \X V -> V]
Loops(f, start, S, N) == f[0] = start /\ \A n \in 1..N : f[n] = S[<<n, f[n - 1]>>]

(* A loop of N steps, each of which goes on from the one before. *)
LEMMA Loop ==
  ASSUME NEW N \in Nat, NEW V, NEW start, start \in V, NEW S, Step(S, N, V)
  PROVE  \E f \in [0..N -> V] : Loops(f, start, S, N)
<1> USE DEF Step, Loops
<1> DEFINE G == [1..N -> V]
           Before(n, g) == IF n = 1 THEN start ELSE g[n - 1]
           F == [p \in (1..N) \X G |-> S[<<p[1], Before(p[1], p[2])>>]]
<1>1. ASSUME NEW n \in 1..N, NEW g \in G
      PROVE  Before(n, g) \in V /\ F[<<n, g>>] = S[<<n, Before(n, g)>>] /\ F[<<n, g>>] \in V
  <2>1. Before(n, g) \in V
    <3>1. CASE n = 1
      BY <3>1
    <3>2. CASE n # 1
      <4>1. n - 1 \in 1..N
        BY <3>2
      <4> QED BY <4>1, <3>2
    <3> QED BY <3>1, <3>2
  <2> HIDE DEF Before
  <2>2. <<n, g>> \in (1..N) \X G /\ F[<<n, g>>] = S[<<n, Before(n, g)>>]
    OBVIOUS
  <2>3. S[<<n, Before(n, g)>>] \in V
    BY <2>1
  <2> QED BY <2>1, <2>2, <2>3
<1>2. F \in [(1..N) \X G -> V]
  <2>1. \A p \in (1..N) \X G : F[p] \in V
    <3>1. TAKE p \in (1..N) \X G
    <3>2. PICK n \in 1..N, g \in G : p = <<n, g>>
      OBVIOUS
    <3> HIDE DEF F, Before
    <3> QED BY <1>1, <3>2
  <2> DEFINE B(p) == S[<<p[1], Before(p[1], p[2])>>]
  <2>2. F = [p \in (1..N) \X G |-> B(p)]
    OBVIOUS
  <2> HIDE DEF B
  <2>3. DOMAIN F = (1..N) \X G /\ F = [p \in DOMAIN F |-> F[p]]
    BY <2>2
  <2> HIDE DEF F
  <2> QED BY <2>1, <2>3
<1>3. ASSUME NEW n \in 1..N, NEW g \in G, NEW h \in G, \A m \in 1..(n - 1) : g[m] = h[m]
      PROVE  F[<<n, g>>] = F[<<n, h>>]
  <2>1. Before(n, g) = Before(n, h)
    BY <1>3
  <2> HIDE DEF F, Before
  <2> QED BY <2>1, <1>1
<1> HIDE DEF F
<1>4. PICK f \in G : Follows(f, F, N)
  <2>1. V # {} /\ FromLower(F, N, V)
    BY <1>2, <1>3 DEF FromLower
  <2> QED BY <2>1, Recursion
<1>5. [n \in 0..N |-> IF n = 0 THEN start ELSE f[n]] \in [0..N -> V]
  OBVIOUS
<1>6. ASSUME NEW n \in 1..N
      PROVE  f[n] = S[<<n, IF n - 1 = 0 THEN start ELSE f[n - 1]>>]
  <2>1. f[n] = S[<<n, Before(n, f)>>]
    BY <1>1, <1>4 DEF Follows
  <2>2. Before(n, f) = IF n - 1 = 0 THEN start ELSE f[n - 1]
    OBVIOUS
  <2> QED BY <2>1, <2>2
<1>7. \A n \in 1..N : n # 0 /\ n - 1 \in 0..N
  OBVIOUS
<1> HIDE DEF Before
<1> DEFINE e == [n \in 0..N |-> IF n = 0 THEN start ELSE f[n]]
<1>8. e[0] = start /\ \A n \in 1..N : e[n] = f[n] /\ e[n - 1] = IF n - 1 = 0 THEN start ELSE f[n - 1]
  BY <1>7
<1>9. e[0] = start /\ \A n \in 1..N : e[n] = S[<<n, e[n - 1]>>]
  <2> HIDE DEF e
  <2> QED BY <1>6, <1>8
<1> QED BY <1>5, <1>9

SameSteps(f, g, N) == f[0] = g[0] /\ \A n \in 1..N : f[n - 1] = g[n - 1] => f[n] = g[n]

(* Two loops that agree as long as they agreed before are the same. *)
LEMMA SameLoop ==
  ASSUME NEW N \in Nat, NEW f, NEW g, SameSteps(f, g, N)
  PROVE  \A n \in 0..N : f[n] = g[n]
<1> USE DEF SameSteps
<1> DEFINE S == {n \in 1..N : f[n] = g[n]}
<1>1. ASSUME NEW n \in 1..N, \A m \in 1..(n - 1) : m \in S PROVE n \in S
  <2>1. CASE n = 1
    BY <2>1
  <2>2. CASE n > 1
    <3>1. n - 1 \in 1..(n - 1)
      BY <2>2
    <3> QED BY <3>1, <1>1
  <2> QED BY <2>1, <2>2
<1> HIDE DEF S
<1>2. 1..N \subseteq S
  BY <1>1, FromBelow
<1> QED BY <1>2 DEF S

-----------------------------------------------------------------------------
(* Flow. Each of the model's recursive functions is what its definition says. *)
Body == functionBody \in FunctionBody
Number == 1..Len(functionBody)

LEMMA Shape ==
  ASSUME Body
  PROVE  /\ Len(functionBody) \in Nat
         /\ DOMAIN functionBody = Number
         /\ \A n \in Number : /\ functionBody[n] \in Statement
                              /\ WellFormed(functionBody, n)
                              /\ Kids(n) \in Seq(Nat)
                              /\ \A i \in DOMAIN Kids(n) : Kids(n)[i] \in 1..(n - 1)
<1>1. /\ functionBody \in Seq(Statement)
      /\ \A n \in DOMAIN functionBody : WellFormed(functionBody, n)
  BY DEF Body, FunctionBody
<1>2. Len(functionBody) \in Nat /\ DOMAIN functionBody = Number
  BY <1>1 DEF Number
<1>3. ASSUME NEW n \in Number
      PROVE  /\ functionBody[n] \in Statement
             /\ WellFormed(functionBody, n)
             /\ Kids(n) \in Seq(Nat)
             /\ \A i \in DOMAIN Kids(n) : Kids(n)[i] \in 1..(n - 1)
  <2>1. functionBody[n] \in Statement /\ WellFormed(functionBody, n)
    BY <1>1, <1>2 DEF Number
  <2>2. Kids(n) \in Seq(Nat)
    BY <2>1 DEF Statement, Kids
  <2>3. \A i \in DOMAIN Kids(n) : Kids(n)[i] \in 1..(n - 1)
    BY <2>1 DEF WellFormed, Kids
  <2> QED BY <2>1, <2>2, <2>3
<1> QED BY <1>2, <1>3

LEMMA HasJumpIs ==
  ASSUME Body, NEW kind, NEW label, NEW stops
  PROVE  \A n \in Number :
           /\ HasJump(n, kind, label, stops) \in BOOLEAN
           /\ HasJump(n, kind, label, stops) <=>
                IF stmt(n).kind = kind THEN stmt(n).label = label
                ELSE /\ stmt(n).kind \notin stops
                     /\ \E i \in DOMAIN Kids(n) : HasJump(Kids(n)[i], kind, label, stops)
<1> DEFINE N == Len(functionBody)
           V == BOOLEAN
           G == [1..N -> V]
           Holds(n, g) == JumpIn(g, n, kind, label, stops)
           F == [p \in (1..N) \X G |-> Holds(p[1], p[2])]
           H == CHOOSE h : h = [m \in DOMAIN functionBody |-> Holds(m, h)]
<1>1. F \in [(1..N) \X G -> V] /\ \A n \in 1..N : \A g \in G : F[<<n, g>>] = Holds(n, g)
  BY DEF JumpIn
<1>2. \A n \in 1..N : \A g, h \in G : (\A m \in 1..(n - 1) : g[m] = h[m]) => F[<<n, g>>] = F[<<n, h>>]
  BY <1>1, Shape DEF JumpIn, Number
<1> HIDE DEF F, Holds
<1>3. PICK f \in G : Follows(f, F, N)
  <2>1. N \in Nat /\ V # {} /\ FromLower(F, N, V)
    BY <1>1, <1>2, Shape DEF FromLower
  <2> HIDE DEF N, V, H
  <2> QED BY <2>1, Recursion
<1>4. f = [m \in DOMAIN functionBody |-> Holds(m, f)]
  BY <1>1, <1>3, Shape DEF Number, Follows
<1>5. H = [m \in DOMAIN functionBody |-> Holds(m, H)]
  BY <1>4
<1>6. \A n : HasJump(n, kind, label, stops) = H[n]
  BY DEF HasJump, Holds
<1> QED BY <1>5, <1>6, Shape DEF Holds, JumpIn, Number

LEMMA Grandkids ==
  ASSUME Body, NEW n \in Number, NEW i \in DOMAIN Kids(n)
  PROVE  /\ Kids(n)[i] \in Number
         /\ \A j \in DOMAIN Kids(Kids(n)[i]) : Kids(Kids(n)[i])[j] \in 1..(n - 1)
<1>1. Kids(n)[i] \in 1..(n - 1) /\ Kids(n)[i] \in Number
  BY Shape DEF Number
<1>2. \A j \in DOMAIN Kids(Kids(n)[i]) : Kids(Kids(n)[i])[j] \in 1..(Kids(n)[i] - 1)
  BY <1>1, Shape
<1> QED BY <1>1, <1>2 DEF Number

LEMMA LastKid ==
  ASSUME Body, NEW n \in Number, Kids(n) # <<>>
  PROVE  Len(Kids(n)) \in DOMAIN Kids(n) /\ Last(Kids(n)) = Kids(n)[Len(Kids(n))]
BY Shape DEF Last

LEMMA CompletesIs ==
  ASSUME Body
  PROVE  \A n \in Number : completesNormally[n] = Completes(completesNormally, n)
<1> DEFINE N == Len(functionBody)
           V == BOOLEAN
           G == [1..N -> V]
           F == [p \in (1..N) \X G |-> Completes(p[2], p[1])]
<1>1. ASSUME NEW n \in 1..N, NEW g \in G PROVE Completes(g, n) \in V
  <2>1. n \in Number /\ \A i \in DOMAIN Kids(n) : g[Kids(n)[i]] \in BOOLEAN
    BY <1>1, Shape DEF Number
  <2>2. stmt(n).kind \in AroundOne => g[stmt(n).kids[1]] \in BOOLEAN
    BY <2>1, Shape DEF WellFormed, stmt, Kids
  <2>3. AllComplete(g, stmt(n).kids) \in BOOLEAN /\ switchCompletes(g, n) \in BOOLEAN
    BY DEF AllComplete, switchCompletes
  <2>4. tryCompletes(g, n) \in BOOLEAN
    BY DEF tryCompletes
  <2> QED BY <2>2, <2>3, <2>4 DEF Completes, AroundOne
<1>2. F \in [(1..N) \X G -> V] /\ \A n \in 1..N : \A g \in G : F[<<n, g>>] = Completes(g, n)
  BY <1>1
<1>3. ASSUME NEW n \in 1..N, NEW g \in G, NEW h \in G, \A m \in 1..(n - 1) : g[m] = h[m]
      PROVE  Completes(g, n) = Completes(h, n)
  <2>1. n \in Number /\ \A i \in DOMAIN Kids(n) : g[Kids(n)[i]] = h[Kids(n)[i]]
    BY <1>3, Shape DEF Number
  <2>2. AllComplete(g, Kids(n)) = AllComplete(h, Kids(n))
    BY <2>1 DEF AllComplete
  <2>3. ASSUME Kids(n) # <<>>
        PROVE  AllComplete(g, Kids(Last(Kids(n)))) = AllComplete(h, Kids(Last(Kids(n))))
    BY <1>3, <2>1, <2>3, Grandkids, LastKid DEF AllComplete
  <2>4. switchCompletes(g, n) = switchCompletes(h, n)
    BY <2>3 DEF switchCompletes
  <2>5. ASSUME stmt(n).kind = "try"
        PROVE  /\ g[Kids(n)[1]] = h[Kids(n)[1]] /\ g[Kids(n)[2]] = h[Kids(n)[2]]
               /\ g[Kids(n)[3]] = h[Kids(n)[3]]
    BY <2>1, <2>5, Shape DEF WellFormed, stmt, Kids
  <2>6. stmt(n).kind = "try" => tryCompletes(g, n) = tryCompletes(h, n)
    BY <2>5 DEF tryCompletes
  <2>7. stmt(n).kind \in AroundOne => g[stmt(n).kids[1]] = h[stmt(n).kids[1]]
    BY <2>1, Shape DEF WellFormed, stmt, Kids
  <2>8. stmt(n).kids = Kids(n)
    BY DEF stmt, Kids
  <2> QED BY <2>1, <2>2, <2>4, <2>6, <2>7, <2>8 DEF Completes, AroundOne, FlowLoops
<1> HIDE DEF F
<1>4. PICK f \in G : Follows(f, F, N)
  <2>1. ASSUME NEW n \in 1..N, NEW g \in G, NEW h \in G, \A m \in 1..(n - 1) : g[m] = h[m]
        PROVE  F[<<n, g>>] = F[<<n, h>>]
    <3>1. Completes(g, n) = Completes(h, n)
      BY <1>3, <2>1
    <3>2. F[<<n, g>>] = Completes(g, n) /\ F[<<n, h>>] = Completes(h, n)
      BY <1>2
    <3> QED BY <3>1, <3>2
  <2>2. N \in Nat /\ V # {} /\ FromLower(F, N, V)
    BY <1>2, <2>1, Shape DEF FromLower
  <2> HIDE DEF N, V
  <2> QED BY <2>2, Recursion
<1>5. f = [n \in DOMAIN functionBody |-> Completes(f, n)]
  BY <1>2, <1>4, Shape DEF Number, Follows
<1>6. completesNormally = [n \in DOMAIN functionBody |-> Completes(completesNormally, n)]
  BY <1>5 DEF completesNormally
<1> QED BY <1>6, Shape

LEMMA DoWhileIs ==
  ASSUME Body
  PROVE  \A n \in Number : labelsDoWhile[n] = IsDoWhile(labelsDoWhile, n)
<1> DEFINE N == Len(functionBody)
           V == BOOLEAN
           G == [1..N -> V]
           F == [p \in (1..N) \X G |-> IsDoWhile(p[2], p[1])]
<1>1. ASSUME NEW n \in 1..N, NEW g \in G PROVE IsDoWhile(g, n) \in V
  BY <1>1 DEF IsDoWhile
<1>2. F \in [(1..N) \X G -> V] /\ \A n \in 1..N : \A g \in G : F[<<n, g>>] = IsDoWhile(g, n)
  BY <1>1
<1>3. ASSUME NEW n \in 1..N, NEW g \in G, NEW h \in G, \A m \in 1..(n - 1) : g[m] = h[m]
      PROVE  IsDoWhile(g, n) = IsDoWhile(h, n)
  <2>1. stmt(n).kind = "labeled" => Kids(n)[1] \in 1..(n - 1)
    BY Shape DEF WellFormed, AroundOne, stmt, Kids, Number
  <2> QED BY <1>3, <2>1 DEF IsDoWhile
<1> HIDE DEF F
<1>4. PICK f \in G : Follows(f, F, N)
  <2>1. ASSUME NEW n \in 1..N, NEW g \in G, NEW h \in G, \A m \in 1..(n - 1) : g[m] = h[m]
        PROVE  F[<<n, g>>] = F[<<n, h>>]
    <3>1. IsDoWhile(g, n) = IsDoWhile(h, n)
      BY <1>3, <2>1
    <3>2. F[<<n, g>>] = IsDoWhile(g, n) /\ F[<<n, h>>] = IsDoWhile(h, n)
      BY <1>2
    <3> QED BY <3>1, <3>2
  <2>2. N \in Nat /\ V # {} /\ FromLower(F, N, V)
    BY <1>2, <2>1, Shape DEF FromLower
  <2> HIDE DEF N, V
  <2> QED BY <2>2, Recursion
<1>5. f = [n \in DOMAIN functionBody |-> IsDoWhile(f, n)]
  BY <1>2, <1>4, Shape DEF Number, Follows
<1>6. labelsDoWhile = [n \in DOMAIN functionBody |-> IsDoWhile(labelsDoWhile, n)]
  BY <1>5 DEF labelsDoWhile
<1> QED BY <1>6, Shape

EndSets == [SUBSET Label -> SUBSET Completion]

LEMMA NormalTyped == Normal \in Completion /\ End("throw", NoLabel) \in Completion
BY DEF Normal, End, Completion, Jumping

LEMMA InListEnds ==
  ASSUME NEW g, NEW list, NEW e
  PROVE  e \in ListEnds(g, list) <=>
           \/ e # Normal /\ \E i \in DOMAIN list : Starts(g, list, i) /\ e \in g[list[i]][{}]
           \/ e = Normal /\ Starts(g, list, Len(list) + 1)
<1> DEFINE L == {g[list[i]][{}] \ {Normal} : i \in {j \in DOMAIN list : Starts(g, list, j)}}
<1>1. e \in UNION L <=> \E X \in L : e \in X
  OBVIOUS
<1>2. (\E X \in L : e \in X)
       <=> e # Normal /\ \E i \in DOMAIN list : Starts(g, list, i) /\ e \in g[list[i]][{}]
  OBVIOUS
<1> DEFINE T == {x \in {Normal} : Starts(g, list, Len(list) + 1)}
<1>3. e \in T <=> e = Normal /\ Starts(g, list, Len(list) + 1)
  OBVIOUS
<1>4. ListEnds(g, list) = (UNION L) \cup T
  BY DEF ListEnds
<1> HIDE DEF L, T
<1>5. e \in ListEnds(g, list) <=> e \in UNION L \/ e \in T
  BY <1>4
<1>6. e \in UNION L <=> e # Normal /\ \E i \in DOMAIN list : Starts(g, list, i) /\ e \in g[list[i]][{}]
  BY <1>1, <1>2
<1> QED BY <1>3, <1>5, <1>6

LEMMA ListEndsTyped ==
  ASSUME NEW g, NEW list, \A i \in DOMAIN list : g[list[i]] \in EndSets
  PROVE  ListEnds(g, list) \in SUBSET Completion
<1>1. \A i \in DOMAIN list : g[list[i]][{}] \in SUBSET Completion
  BY DEF EndSets
<1>2. ASSUME NEW e \in ListEnds(g, list) PROVE e \in Completion
  <2>1. e = Normal \/ \E i \in DOMAIN list : e \in g[list[i]][{}]
    BY <1>2, InListEnds
  <2> QED BY <1>1, <2>1, NormalTyped
<1> QED BY <1>2

LEMMA EndsTyped ==
  ASSUME Body, NEW n \in Number, NEW g, \A m \in 1..(n - 1) : g[m] \in EndSets,
         NEW labels \in SUBSET Label
  PROVE  EndsUnder(g, n, labels) \in SUBSET Completion
<1>1. ASSUME NEW i \in DOMAIN Kids(n)
      PROVE  g[Kids(n)[i]] \in EndSets /\ g[Kids(n)[i]][{}] \in SUBSET Completion
  <2>1. g[Kids(n)[i]] \in EndSets
    BY Shape
  <2> QED BY <2>1 DEF EndSets
<1>2. stmt(n) \in Statement /\ stmt(n).kids = Kids(n) /\ WellFormed(functionBody, n)
  BY Shape DEF stmt, Kids
<1>3. CASE stmt(n).kind \in Jumping
  <2>1. EndsUnder(g, n, labels) = {End(stmt(n).kind, stmt(n).label)}
    BY <1>3 DEF EndsUnder, Jumping, FlowLoops
  <2>2. End(stmt(n).kind, stmt(n).label) \in Completion
    BY <1>2, <1>3 DEF End, Completion, Statement
  <2> QED BY <2>1, <2>2
<1>4. CASE stmt(n).kind = "block"
  <2>1. EndsUnder(g, n, labels) = ListEnds(g, Kids(n))
    BY <1>2, <1>4 DEF EndsUnder, Jumping, FlowLoops
  <2> QED BY <1>1, <2>1, ListEndsTyped
<1>5. CASE stmt(n).kind = "if"
  <2>1. EndsUnder(g, n, labels) = (UNION {g[Kids(n)[i]][{}] : i \in DOMAIN Kids(n)})
                                  \cup {e \in {Normal} : Len(Kids(n)) = 1}
    BY <1>2, <1>5 DEF EndsUnder, Jumping, FlowLoops
  <2>2. ASSUME NEW e \in EndsUnder(g, n, labels) PROVE e \in Completion
    <3> DEFINE U == (UNION {g[Kids(n)[i]][{}] : i \in DOMAIN Kids(n)})
               T == {x \in {Normal} : Len(Kids(n)) = 1}
    <3>1. EndsUnder(g, n, labels) = U \cup T
      BY <2>1
    <3>2. e \in T => e = Normal
      OBVIOUS
    <3> HIDE DEF U, T
    <3>3. e = Normal \/ e \in U
      BY <3>1, <3>2, <2>2
    <3>4. e = Normal \/ \E i \in DOMAIN Kids(n) : e \in g[Kids(n)[i]][{}]
      BY <3>3 DEF U
    <3> QED BY <1>1, <3>4, NormalTyped
  <2> QED BY <2>2
<1>6. CASE stmt(n).kind = "labeled"
  <2>1. 1 \in DOMAIN Kids(n) /\ stmt(n).label \in Label
    BY <1>2, <1>6 DEF WellFormed, AroundOne, stmt, Kids, Statement
  <2>2. labels \cup {stmt(n).label} \in SUBSET Label
    BY <2>1
  <2>3. g[Kids(n)[1]][labels \cup {stmt(n).label}] \in SUBSET Completion
    BY <1>1, <2>1, <2>2 DEF EndSets
  <2>4. EndsUnder(g, n, labels) =
          {IF e = End("break", stmt(n).label) THEN Normal ELSE e :
             e \in g[Kids(n)[1]][labels \cup {stmt(n).label}]}
    BY <1>2, <1>6 DEF EndsUnder, Jumping, FlowLoops
  <2> QED BY <2>3, <2>4, NormalTyped
<1>7. CASE stmt(n).kind \in FlowLoops
  <2>1. 1 \in DOMAIN Kids(n)
    BY <1>2, <1>7 DEF WellFormed, AroundOne, stmt, Kids, Statement
  <2>2. LoopEnds(g, n, labels) \in SUBSET Completion
    BY <1>1, <1>2, <2>1, NormalTyped DEF LoopEnds
  <2> QED BY <1>7, <2>2 DEF EndsUnder, Jumping, FlowLoops
<1>8. CASE stmt(n).kind = "switch"
  <2>1. ASSUME NEW j \in DOMAIN Kids(n) PROVE ListEnds(g, Kids(Kids(n)[j])) \in SUBSET Completion
    <3>1. \A i \in DOMAIN Kids(Kids(n)[j]) : g[Kids(Kids(n)[j])[i]] \in EndSets
      BY Grandkids, Shape DEF Number
    <3> QED BY <3>1, ListEndsTyped
  <2>2. SwitchEnds(g, n) \in SUBSET Completion
    BY <2>1, NormalTyped DEF SwitchEnds
  <2> QED BY <1>8, <2>2 DEF EndsUnder, Jumping, FlowLoops
<1>9. CASE stmt(n).kind = "with"
  <2>1. 1 \in DOMAIN Kids(n)
    BY <1>2, <1>9 DEF WellFormed, AroundOne, stmt, Kids, Statement
  <2> QED BY <1>1, <1>2, <1>9, <2>1 DEF EndsUnder, Jumping, FlowLoops
<1>10. CASE stmt(n).kind = "try"
  <2>1. {1, 2, 3} \subseteq DOMAIN Kids(n)
    BY <1>2, <1>10 DEF WellFormed, stmt, Kids, Statement
  <2>2. \A i \in {1, 2, 3} : g[Kids(n)[i]][{}] \in SUBSET Completion
    BY <1>1, <2>1
  <2>3. TryEnds(g, n) \in SUBSET Completion
    BY <2>2, NormalTyped DEF TryEnds
  <2> QED BY <1>10, <2>3 DEF EndsUnder, Jumping, FlowLoops
<1>11. CASE /\ stmt(n).kind \notin Jumping \cup FlowLoops
            /\ stmt(n).kind \notin {"block", "if", "labeled", "switch", "with", "try"}
  BY <1>11, NormalTyped DEF EndsUnder
<1> QED BY <1>3, <1>4, <1>5, <1>6, <1>7, <1>8, <1>9, <1>10, <1>11

LEMMA ListEndsFromLower ==
  ASSUME NEW g, NEW h, NEW list \in Seq(Nat), \A i \in DOMAIN list : g[list[i]] = h[list[i]]
  PROVE  ListEnds(g, list) = ListEnds(h, list)
<1>1. \A i \in DOMAIN list \cup {Len(list) + 1} : \A j \in 1..(i - 1) : j \in DOMAIN list
  OBVIOUS
<1>2. \A i \in DOMAIN list \cup {Len(list) + 1} : Starts(g, list, i) <=> Starts(h, list, i)
  BY <1>1 DEF Starts
<1>3. {j \in DOMAIN list : Starts(g, list, j)} = {j \in DOMAIN list : Starts(h, list, j)}
  BY <1>2
<1>4. {g[list[i]][{}] \ {Normal} : i \in {j \in DOMAIN list : Starts(g, list, j)}}
       = {h[list[i]][{}] \ {Normal} : i \in {j \in DOMAIN list : Starts(h, list, j)}}
  BY <1>3
<1>5. {e \in {Normal} : Starts(g, list, Len(list) + 1)} = {e \in {Normal} : Starts(h, list, Len(list) + 1)}
  BY <1>2
<1> QED BY <1>4, <1>5 DEF ListEnds

LEMMA EndsFromLower ==
  ASSUME Body, NEW n \in Number, NEW g, NEW h, \A m \in 1..(n - 1) : g[m] = h[m],
         NEW labels
  PROVE  EndsUnder(g, n, labels) = EndsUnder(h, n, labels)
<1>1. \A i \in DOMAIN Kids(n) : g[Kids(n)[i]] = h[Kids(n)[i]]
  BY Shape
<1>2. stmt(n) \in Statement /\ stmt(n).kids = Kids(n) /\ WellFormed(functionBody, n)
  BY Shape DEF stmt, Kids
<1>3. ListEnds(g, Kids(n)) = ListEnds(h, Kids(n))
  BY <1>1, ListEndsFromLower, Shape
<1>4. stmt(n).kind \in AroundOne => g[stmt(n).kids[1]] = h[stmt(n).kids[1]]
  BY <1>1, <1>2 DEF WellFormed, stmt, Kids
<1>5. stmt(n).kind \in FlowLoops => LoopEnds(g, n, labels) = LoopEnds(h, n, labels)
  BY <1>4 DEF LoopEnds, AroundOne
<1>6. SwitchEnds(g, n) = SwitchEnds(h, n)
  <2>1. \A j \in DOMAIN Kids(n) : ListEnds(g, Kids(Kids(n)[j])) = ListEnds(h, Kids(Kids(n)[j]))
    <3>1. ASSUME NEW j \in DOMAIN Kids(n)
          PROVE  /\ Kids(Kids(n)[j]) \in Seq(Nat)
                 /\ \A i \in DOMAIN Kids(Kids(n)[j]) : g[Kids(Kids(n)[j])[i]] = h[Kids(Kids(n)[j])[i]]
      BY Grandkids, Shape
    <3> QED BY <3>1, ListEndsFromLower
  <2>2. {ListEnds(g, Kids(Kids(n)[j])) : j \in DOMAIN Kids(n)} = {ListEnds(h, Kids(Kids(n)[j])) : j \in DOMAIN Kids(n)}
    BY <2>1
  <2>3. CASE Kids(n) # <<>>
    BY <2>1, <2>2, <2>3, LastKid DEF SwitchEnds
  <2>4. CASE Kids(n) = <<>>
    <3>1. \A i \in DOMAIN Kids(n) : stmt(Kids(n)[i]).kind # "default"
      BY <2>4
    <3> QED BY <2>2, <3>1 DEF SwitchEnds
  <2> QED BY <2>3, <2>4
<1>7. stmt(n).kind = "try" => TryEnds(g, n) = TryEnds(h, n)
  <2>1. stmt(n).kind = "try" => {1, 2, 3} \subseteq DOMAIN Kids(n)
    BY <1>2 DEF WellFormed, stmt, Kids, Statement
  <2>2. stmt(n).kind = "try" => \A i \in {1, 2, 3} : g[Kids(n)[i]] = h[Kids(n)[i]]
    BY <1>1, <2>1
  <2> QED BY <2>2 DEF TryEnds
<1>8. {g[Kids(n)[i]][{}] : i \in DOMAIN Kids(n)} = {h[Kids(n)[i]][{}] : i \in DOMAIN Kids(n)}
  BY <1>1
<1> QED BY <1>2, <1>3, <1>4, <1>5, <1>6, <1>7, <1>8 DEF EndsUnder, AroundOne

LEMMA EndsIs ==
  ASSUME Body
  PROVE  \A n \in Number : /\ Ends[n] \in EndSets
                           /\ \A labels \in SUBSET Label : Ends[n][labels] = EndsUnder(Ends, n, labels)
<1> DEFINE N == Len(functionBody)
           V == EndSets
           G == [1..N -> V]
           Holds(g, n) == [labels \in SUBSET Label |-> EndsUnder(g, n, labels)]
           F == [p \in (1..N) \X G |-> Holds(p[2], p[1])]
<1>1. ASSUME NEW n \in 1..N, NEW g, \A m \in 1..(n - 1) : g[m] \in V PROVE Holds(g, n) \in V
  BY <1>1, EndsTyped DEF Number, EndSets
<1>2. ASSUME NEW n \in 1..N, NEW g \in G, NEW h \in G, \A m \in 1..(n - 1) : g[m] = h[m]
      PROVE  Holds(g, n) = Holds(h, n)
  BY <1>2, EndsFromLower DEF Number
<1> HIDE DEF Holds
<1>3. F \in [(1..N) \X G -> V] /\ \A n \in 1..N : \A g \in G : F[<<n, g>>] = Holds(g, n)
  <2>1. \A n \in 1..N : \A g \in G : Holds(g, n) \in V
    <3>1. ASSUME NEW n \in 1..N, NEW g \in G PROVE \A m \in 1..(n - 1) : g[m] \in V
      BY Shape
    <3> HIDE DEF V
    <3> QED BY <1>1, <3>1
  <2> QED BY <2>1
<1> HIDE DEF F
<1>4. PICK f \in G : Follows(f, F, N)
  <2>1. ASSUME NEW n \in 1..N, NEW g \in G, NEW h \in G, \A m \in 1..(n - 1) : g[m] = h[m]
        PROVE  F[<<n, g>>] = F[<<n, h>>]
    <3>1. Holds(g, n) = Holds(h, n)
      BY <1>2, <2>1
    <3>2. F[<<n, g>>] = Holds(g, n) /\ F[<<n, h>>] = Holds(h, n)
      BY <1>3
    <3> QED BY <3>1, <3>2
  <2>2. [labels \in SUBSET Label |-> {}] \in V
    BY DEF EndSets
  <2>3. N \in Nat /\ V # {}
    BY <2>2, Shape
  <2>4. FromLower(F, N, V)
    BY <1>3, <2>1 DEF FromLower
  <2> HIDE DEF N, V
  <2> QED BY <2>3, <2>4, Recursion
<1>5. f = [n \in DOMAIN functionBody |-> Holds(f, n)]
  BY <1>3, <1>4, Shape DEF Number, Follows
<1>6. Ends = [n \in DOMAIN functionBody |-> Holds(Ends, n)]
  BY <1>5 DEF Ends, Holds
<1>7. \A n \in Number : Ends[n] = Holds(Ends, n)
  BY <1>6, Shape
<1>8. Number \subseteq {n \in Number : Ends[n] \in V}
  <2> DEFINE S == {n \in Number : Ends[n] \in V}
  <2>1. ASSUME NEW n \in 1..N, \A m \in 1..(n - 1) : m \in S PROVE n \in S
    BY <1>1, <1>7, <2>1 DEF Number
  <2> HIDE DEF S
  <2>2. N \in Nat
    BY Shape
  <2> QED BY <2>1, <2>2, FromBelow DEF Number, S
<1> QED BY <1>7, <1>8 DEF Holds

-----------------------------------------------------------------------------
(* What each kind of statement can end with, and where from. *)
LEMMA ParsedStatement ==
  ASSUME Body, NEW n \in Number
  PROVE  /\ stmt(n).kind \in StatementKinds /\ stmt(n).kids = Kids(n)
         /\ stmt(n).kind \in AroundOne => Len(Kids(n)) = 1 /\ 1 \in DOMAIN Kids(n)
         /\ stmt(n).kind = "labeled" => stmt(n).label \in Label
         /\ stmt(n).kind = "try" => {1, 2, 3} \subseteq DOMAIN Kids(n)
         /\ stmt(n).kind = "switch" => \A i \in DOMAIN Kids(n) : stmt(Kids(n)[i]).kind \in Clauses
<1>1. stmt(n) \in Statement /\ stmt(n).kids = Kids(n) /\ WellFormed(functionBody, n)
  BY Shape DEF stmt, Kids
<1> QED BY <1>1, Shape DEF Statement, WellFormed, stmt, Kids

(* A break or continue that leaves a statement stands in it, where the search  *)
(* that asks for it finds it.                                                *)
Hides(kind, label, stops) ==
  \/ stops = {"function"}
  \/ kind = "break" /\ label = NoLabel /\ stops = FlowLoops \cup {"switch", "function"}
  \/ kind = "continue" /\ label = NoLabel /\ stops = FlowLoops \cup {"function"}

LEMMA SearchesHide ==
  /\ \A kind, label : Hides(kind, label, {"function"})
  /\ Hides("break", NoLabel, FlowLoops \cup {"switch", "function"})
  /\ Hides("continue", NoLabel, FlowLoops \cup {"function"})
BY DEF Hides

LEMMA JumpsAreFound ==
  ASSUME Body, NEW kind \in {"break", "continue"}, NEW label, NEW stops, Hides(kind, label, stops)
  PROVE  \A n \in Number : \A labels \in SUBSET Label :
           End(kind, label) \in Ends[n][labels] => HasJump(n, kind, label, stops)
<1> DEFINE e == End(kind, label)
           Found(n) == \A labels \in SUBSET Label : e \in Ends[n][labels] => HasJump(n, kind, label, stops)
           S == {n \in Number : Found(n)}
<1>1. e # Normal /\ e # End("throw", NoLabel) /\ e.how = kind /\ e.label = label
  BY DEF End, Normal
<1>2. stops \subseteq FlowLoops \cup {"switch", "function"}
  BY DEF Hides
<1> HIDE DEF e
<1>3. ASSUME NEW n \in Number, \A m \in 1..(n - 1) : m \in S PROVE Found(n)
  <2>1. SUFFICES ASSUME NEW labels \in SUBSET Label, e \in EndsUnder(Ends, n, labels)
                 PROVE  HasJump(n, kind, label, stops)
    BY EndsIs
  <2>2. \A i \in DOMAIN Kids(n) : Found(Kids(n)[i])
    BY <1>3, Shape
  <2>3. \A i \in DOMAIN Kids(n) : \A j \in DOMAIN Kids(Kids(n)[i]) : Found(Kids(Kids(n)[i])[j])
    BY <1>3, Grandkids
  <2>4. ASSUME NEW i \in DOMAIN Kids(n), NEW labels2 \in SUBSET Label,
               e \in Ends[Kids(n)[i]][labels2], stmt(n).kind \notin stops \cup {kind}
        PROVE  HasJump(n, kind, label, stops)
    BY <2>2, <2>4, HasJumpIs
  <2>5. CASE stmt(n).kind \in Jumping
    <3>1. e = End(stmt(n).kind, stmt(n).label)
      BY <2>1, <2>5 DEF EndsUnder, Jumping, FlowLoops
    <3>2. stmt(n).kind = kind /\ stmt(n).label = label
      BY <3>1, <1>1 DEF End
    <3> QED BY <3>2, HasJumpIs
  <2>6. CASE stmt(n).kind = "block"
    <3>1. e \in ListEnds(Ends, Kids(n))
      BY <2>1, <2>6, ParsedStatement DEF EndsUnder, Jumping, FlowLoops
    <3>2. PICK i \in DOMAIN Kids(n) : e \in Ends[Kids(n)[i]][{}]
      BY <3>1, <1>1, InListEnds
    <3> QED BY <3>2, <2>4, <2>6, <1>2 DEF FlowLoops
  <2>7. CASE stmt(n).kind = "if"
    <3> DEFINE U == UNION {Ends[Kids(n)[i]][{}] : i \in DOMAIN Kids(n)}
               T == {x \in {Normal} : Len(Kids(n)) = 1}
    <3>1. EndsUnder(Ends, n, labels) = U \cup T
      BY <2>7, ParsedStatement DEF EndsUnder, Jumping, FlowLoops
    <3>2. e \notin T
      BY <1>1
    <3> HIDE DEF U, T
    <3>3. e \in U
      BY <3>1, <3>2, <2>1
    <3>4. PICK i \in DOMAIN Kids(n) : e \in Ends[Kids(n)[i]][{}]
      BY <3>3 DEF U
    <3> QED BY <3>4, <2>4, <2>7, <1>2 DEF FlowLoops
  <2>8. CASE stmt(n).kind = "labeled"
    <3>1. e \in {IF x = End("break", stmt(n).label) THEN Normal ELSE x :
                    x \in Ends[Kids(n)[1]][labels \cup {stmt(n).label}]}
      BY <2>1, <2>8, ParsedStatement DEF EndsUnder, Jumping, FlowLoops
    <3>2. e \in Ends[Kids(n)[1]][labels \cup {stmt(n).label}]
      BY <3>1, <1>1
    <3>3. labels \cup {stmt(n).label} \in SUBSET Label /\ 1 \in DOMAIN Kids(n)
      BY <2>8, ParsedStatement DEF AroundOne
    <3> QED BY <3>2, <3>3, <2>4, <2>8, <1>2 DEF FlowLoops
  <2>9. CASE stmt(n).kind \in FlowLoops
    <3>1. e \in LoopEnds(Ends, n, labels)
      BY <2>1, <2>9 DEF EndsUnder, Jumping, FlowLoops
    <3>2. e \in Ends[Kids(n)[1]][{}] /\ label # NoLabel
      <4> DEFINE Ours(how) == {End(how, l) : l \in labels \cup {NoLabel}}
      <4>1. \/ e \in Ends[Kids(n)[1]][{}] \ ({Normal} \cup Ours("break") \cup Ours("continue"))
            \/ e = Normal
        BY <3>1, ParsedStatement DEF LoopEnds
      <4>2. label = NoLabel => e \in Ours("break") \cup Ours("continue")
        BY DEF e
      <4> QED BY <4>1, <4>2, <1>1
    <3>3. stops = {"function"} /\ 1 \in DOMAIN Kids(n)
      BY <2>9, <3>2, ParsedStatement DEF Hides, AroundOne
    <3> QED BY <3>2, <3>3, <2>4, <2>9 DEF FlowLoops
  <2>10. CASE stmt(n).kind = "switch"
    <3> DEFINE U == UNION {ListEnds(Ends, Kids(Kids(n)[j])) : j \in DOMAIN Kids(n)}
    <3>1. e \in SwitchEnds(Ends, n)
      BY <2>1, <2>10 DEF EndsUnder, Jumping, FlowLoops
    <3>2. e \in U /\ e # End("break", NoLabel)
      BY <3>1, <1>1 DEF SwitchEnds
    <3>3. PICK j \in DOMAIN Kids(n) : e \in ListEnds(Ends, Kids(Kids(n)[j]))
      BY <3>2
    <3>4. PICK i \in DOMAIN Kids(Kids(n)[j]) : e \in Ends[Kids(Kids(n)[j])[i]][{}]
      BY <3>3, <1>1, InListEnds
    <3>5. HasJump(Kids(Kids(n)[j])[i], kind, label, stops)
      BY <2>3, <3>4
    <3>6. "switch" \notin stops
      BY <3>2 DEF Hides, e, FlowLoops
    <3>7. Kids(n)[j] \in Number /\ stmt(Kids(n)[j]).kind \in Clauses
      BY <2>10, Grandkids, ParsedStatement
    <3>8. HasJump(Kids(n)[j], kind, label, stops)
      BY <3>5, <3>7, <1>2, HasJumpIs DEF Clauses, FlowLoops
    <3> QED BY <3>6, <3>8, <2>10, HasJumpIs
  <2>11. CASE stmt(n).kind = "with"
    <3>1. e \in Ends[Kids(n)[1]][{}] /\ 1 \in DOMAIN Kids(n)
      BY <2>1, <2>11, ParsedStatement DEF EndsUnder, Jumping, FlowLoops, AroundOne
    <3> QED BY <3>1, <2>4, <2>11, <1>2 DEF FlowLoops
  <2>12. CASE stmt(n).kind = "try"
    <3>1. e \in TryEnds(Ends, n)
      BY <2>1, <2>12 DEF EndsUnder, Jumping, FlowLoops
    <3>2. \E i \in {1, 2, 3} : e \in Ends[Kids(n)[i]][{}]
      BY <3>1, <1>1 DEF TryEnds
    <3>3. {1, 2, 3} \subseteq DOMAIN Kids(n)
      BY <2>12, ParsedStatement
    <3> QED BY <3>2, <3>3, <2>4, <2>12, <1>2 DEF FlowLoops
  <2>13. CASE /\ stmt(n).kind \notin Jumping \cup FlowLoops
              /\ stmt(n).kind \notin {"block", "if", "labeled", "switch", "with", "try"}
    <3>1. e = Normal
      BY <2>1, <2>13 DEF EndsUnder
    <3> QED BY <3>1, <1>1
  <2> QED BY <2>5, <2>6, <2>7, <2>8, <2>9, <2>10, <2>11, <2>12, <2>13
<1>4. Number \subseteq S
  <2>1. \A n \in 1..Len(functionBody) : (\A m \in 1..(n - 1) : m \in S) => n \in S
    BY <1>3 DEF Number
  <2>2. Len(functionBody) \in Nat
    BY Shape
  <2> HIDE DEF S
  <2> QED BY <2>1, <2>2, FromBelow DEF Number
<1> QED BY <1>4 DEF e

-----------------------------------------------------------------------------
(* A statement that can end normally is one that flow.cc lets control past;    *)
(* under labels of its own, one that it does or that a break to a label ends. *)
LEMMA NormalCompletes ==
  ASSUME Body, ~ContinuesItsDoWhile
  PROVE  \A n \in Number : Normal \in Ends[n][{}] => completesNormally[n]
<1> DEFINE Left(n, labels) == \E l \in labels : hasLabelledJump(n, l, "break")
           OwnLoop(n, labels) == labelsDoWhile[n] => \A l \in labels : ~hasLabelledJump(n, l, "continue")
           Sound(n) == \A labels \in SUBSET Label :
             OwnLoop(n, labels) /\ Normal \in Ends[n][labels] => completesNormally[n] \/ Left(n, labels)
           S == {n \in Number : Sound(n)}
<1>1. ASSUME NEW n \in Number, \A m \in 1..(n - 1) : m \in S PROVE Sound(n)
  <2>1. SUFFICES ASSUME NEW labels \in SUBSET Label, OwnLoop(n, labels),
                        Normal \in EndsUnder(Ends, n, labels)
                 PROVE  Completes(completesNormally, n) \/ Left(n, labels)
    BY EndsIs, CompletesIs
  <2>2. ASSUME NEW m \in 1..(n - 1), Normal \in Ends[m][{}] PROVE completesNormally[m]
    <3>1. Sound(m) /\ OwnLoop(m, {}) /\ ~Left(m, {})
      BY <1>1, <2>2
    <3> QED BY <3>1, <2>2
  <2>3. \A i \in DOMAIN Kids(n) : Normal \in Ends[Kids(n)[i]][{}] => completesNormally[Kids(n)[i]]
    BY <2>2, Shape
  <2>4. \A i \in DOMAIN Kids(n) : \A j \in DOMAIN Kids(Kids(n)[i]) :
          Normal \in Ends[Kids(Kids(n)[i])[j]][{}] => completesNormally[Kids(Kids(n)[i])[j]]
    BY <2>2, Grandkids
  <2>5. \A i \in DOMAIN Kids(n) : Kids(n)[i] \in Number
    BY Shape DEF Number
  <2>6. CASE stmt(n).kind \in Jumping
    <3>1. Normal = End(stmt(n).kind, stmt(n).label)
      BY <2>1, <2>6 DEF EndsUnder, Jumping, FlowLoops
    <3> QED BY <3>1, <2>6 DEF Normal, End, Jumping
  <2>7. CASE stmt(n).kind = "block"
    <3>1. Normal \in ListEnds(Ends, Kids(n))
      BY <2>1, <2>7, ParsedStatement DEF EndsUnder, Jumping, FlowLoops
    <3>2. Starts(Ends, Kids(n), Len(Kids(n)) + 1)
      BY <3>1, InListEnds
    <3>3. AllComplete(completesNormally, Kids(n))
      BY <3>2, <2>3, Shape DEF Starts, AllComplete
    <3> QED BY <3>3, <2>7, ParsedStatement DEF Completes, Jumping, FlowLoops
  <2>8. CASE stmt(n).kind = "if"
    <3> DEFINE U == UNION {Ends[Kids(n)[i]][{}] : i \in DOMAIN Kids(n)}
               T == {x \in {Normal} : Len(Kids(n)) = 1}
    <3>1. EndsUnder(Ends, n, labels) = U \cup T
      BY <2>8, ParsedStatement DEF EndsUnder, Jumping, FlowLoops
    <3>2. Normal \in T <=> Len(Kids(n)) = 1
      OBVIOUS
    <3>3. Normal \in U <=> \E i \in DOMAIN Kids(n) : Normal \in Ends[Kids(n)[i]][{}]
      OBVIOUS
    <3> HIDE DEF U, T
    <3>4. Len(Kids(n)) = 1 \/ \E i \in DOMAIN Kids(n) : completesNormally[Kids(n)[i]]
      BY <3>1, <3>2, <3>3, <2>1, <2>3
    <3> QED BY <3>4, <2>8, ParsedStatement DEF Completes, Jumping, FlowLoops
  <2>9. CASE stmt(n).kind = "labeled"
    <3> DEFINE body == Kids(n)[1]
               own == stmt(n).label
               inside == labels \cup {own}
    <3>1. 1 \in DOMAIN Kids(n) /\ own \in Label /\ body \in Number /\ inside \in SUBSET Label /\ Sound(body)
      BY <2>9, <2>5, <1>1, ParsedStatement, Shape DEF AroundOne
    <3>2. Normal \in {IF x = End("break", own) THEN Normal ELSE x : x \in Ends[body][inside]}
      BY <2>1, <2>9, ParsedStatement DEF EndsUnder, Jumping, FlowLoops
    <3>3. Normal \in Ends[body][inside] \/ End("break", own) \in Ends[body][inside]
      BY <3>2
    <3>4. \A l, kind : kind \in {"break", "continue"} /\ hasLabelledJump(body, l, kind) => hasLabelledJump(n, l, kind)
      BY <2>9, <3>1, HasJumpIs DEF hasLabelledJump
    <3>5. OwnLoop(body, inside)
      <4>1. labelsDoWhile[n] <=> labelsDoWhile[body]
        BY <2>9, DoWhileIs DEF IsDoWhile
      <4>2. labelsDoWhile[n] => ~hasLabelledJump(n, own, "continue")
        BY <2>9, Shape DEF ContinuesItsDoWhile
      <4> QED BY <4>1, <4>2, <3>4, <2>1
    <3>6. completesNormally[body] \/ hasLabelledJump(body, own, "break") \/ Left(n, labels)
      <4>1. CASE Normal \in Ends[body][inside]
        <5>1. completesNormally[body] \/ Left(body, inside)
          BY <4>1, <3>1, <3>5
        <5> QED BY <5>1, <3>4
      <4>2. CASE End("break", own) \in Ends[body][inside]
        BY <4>2, <3>1, SearchesHide, JumpsAreFound DEF hasLabelledJump
      <4> QED BY <3>3, <4>1, <4>2
    <3>7. Completes(completesNormally, n) <=> completesNormally[body] \/ hasLabelledJump(body, own, "break")
      BY <2>9, ParsedStatement DEF Completes, Jumping, FlowLoops
    <3> QED BY <3>6, <3>7
  <2>10. CASE stmt(n).kind \in FlowLoops
    <3> DEFINE body == Kids(n)[1]
               ends == Ends[body][{}]
    <3>1. 1 \in DOMAIN Kids(n) /\ body \in Number /\ stmt(n).kids[1] = body
      BY <2>10, <2>5, ParsedStatement DEF AroundOne
    <3>2. Normal \in LoopEnds(Ends, n, labels)
      BY <2>1, <2>10 DEF EndsUnder, Jumping, FlowLoops
    <3>3. \A kind \in {"break", "continue"} : \A l : End(kind, l) \in ends => hasLabelledJump(body, l, kind)
      <4>1. ASSUME NEW kind \in {"break", "continue"}, NEW l, End(kind, l) \in ends
            PROVE  HasJump(body, kind, l, {"function"})
        <5>1. Hides(kind, l, {"function"}) /\ {} \in SUBSET Label
          BY SearchesHide
        <5> QED BY <4>1, <5>1, <3>1, JumpsAreFound
      <4> QED BY <4>1 DEF hasLabelledJump
    <3>4. \A kind \in {"break", "continue"} : \A l : hasLabelledJump(body, l, kind) => hasLabelledJump(n, l, kind)
      BY <2>10, <3>1, HasJumpIs DEF hasLabelledJump, FlowLoops
    <3>5. End("break", NoLabel) \in ends => hasUnlabelledBreak(body)
      BY <3>1, SearchesHide, JumpsAreFound DEF hasUnlabelledBreak
    <3>6. End("continue", NoLabel) \in ends => hasUnlabelledContinue(body)
      BY <3>1, SearchesHide, JumpsAreFound DEF hasUnlabelledContinue
    <3>7. ASSUME stmt(n).kind = "dowhile",
                 ends \cap ({Normal} \cup {End("continue", l) : l \in labels \cup {NoLabel}}) # {}
          PROVE  completesNormally[body] \/ hasUnlabelledContinue(body)
      <4>1. labelsDoWhile[n]
        BY <3>7, DoWhileIs DEF IsDoWhile
      <4>2. \A l \in labels : End("continue", l) \notin ends
        BY <4>1, <3>3, <3>4, <2>1
      <4>3. Normal \in ends \/ End("continue", NoLabel) \in ends
        BY <4>2, <3>7
      <4> QED BY <4>3, <3>1, <3>6, <2>3
    <3>8. \/ stmt(n).kind # "forof" => stmt(n).test = "x"
          \/ hasUnlabelledBreak(body) \/ Left(n, labels)
      <4>1. \/ stmt(n).kind # "forof" => stmt(n).test = "x"
            \/ ends \cap {End("break", l) : l \in labels \cup {NoLabel}} # {}
        BY <3>1, <3>2 DEF LoopEnds
      <4> QED BY <4>1, <3>3, <3>4, <3>5
    <3>9. stmt(n).kind = "dowhile" =>
            \/ completesNormally[body] \/ hasUnlabelledContinue(body)
            \/ hasUnlabelledBreak(body) \/ Left(n, labels)
      <4>1. stmt(n).kind = "dowhile" =>
              \/ ends \cap ({Normal} \cup {End("continue", l) : l \in labels \cup {NoLabel}}) # {}
              \/ ends \cap {End("break", l) : l \in labels \cup {NoLabel}} # {}
        BY <3>1, <3>2 DEF LoopEnds
      <4> QED BY <4>1, <3>3, <3>4, <3>5, <3>7
    <3> QED BY <2>10, <3>1, <3>8, <3>9 DEF Completes, Jumping, FlowLoops, constantTrue
  <2>11. CASE stmt(n).kind = "switch"
    <3> DEFINE U == UNION {ListEnds(Ends, Kids(Kids(n)[j])) : j \in DOMAIN Kids(n)}
    <3>1. Normal \in SwitchEnds(Ends, n)
      BY <2>1, <2>11 DEF EndsUnder, Jumping, FlowLoops
    <3>2. \/ End("break", NoLabel) \in U
          \/ \A i \in DOMAIN Kids(n) : stmt(Kids(n)[i]).kind # "default"
          \/ Normal \in ListEnds(Ends, Kids(Last(Kids(n))))
      BY <3>1 DEF SwitchEnds
    <3>3. ASSUME End("break", NoLabel) \in U PROVE \E i \in DOMAIN Kids(n) : hasUnlabelledBreak(Kids(n)[i])
      <4>1. PICK j \in DOMAIN Kids(n) : End("break", NoLabel) \in ListEnds(Ends, Kids(Kids(n)[j]))
        BY <3>3
      <4>2. End("break", NoLabel) # Normal
        BY DEF End, Normal
      <4>3. PICK i \in DOMAIN Kids(Kids(n)[j]) : End("break", NoLabel) \in Ends[Kids(Kids(n)[j])[i]][{}]
        BY <4>1, <4>2, InListEnds
      <4>4. Kids(Kids(n)[j])[i] \in Number /\ Kids(n)[j] \in Number /\ stmt(Kids(n)[j]).kind \in Clauses
        BY <2>11, Grandkids, ParsedStatement, Shape DEF Number
      <4>5. hasUnlabelledBreak(Kids(Kids(n)[j])[i])
        BY <4>3, <4>4, SearchesHide, JumpsAreFound DEF hasUnlabelledBreak
      <4>6. hasUnlabelledBreak(Kids(n)[j])
        BY <4>4, <4>5, HasJumpIs DEF hasUnlabelledBreak, Clauses, FlowLoops
      <4> QED BY <4>6
    <3>4. ASSUME Kids(n) # <<>>, Normal \in ListEnds(Ends, Kids(Last(Kids(n))))
          PROVE  AllComplete(completesNormally, Kids(Last(Kids(n))))
      <4>1. PICK j \in DOMAIN Kids(n) : Last(Kids(n)) = Kids(n)[j]
        BY <3>4, LastKid
      <4>2. Starts(Ends, Kids(Kids(n)[j]), Len(Kids(Kids(n)[j])) + 1)
        BY <3>4, <4>1, InListEnds
      <4>3. Kids(Kids(n)[j]) \in Seq(Nat)
        BY <4>1, <2>5, Shape
      <4>4. \A i \in DOMAIN Kids(Kids(n)[j]) : Normal \in Ends[Kids(Kids(n)[j])[i]][{}]
        BY <4>2, <4>3 DEF Starts
      <4> QED BY <4>1, <4>4, <2>4 DEF AllComplete
    <3>5. switchCompletes(completesNormally, n)
      BY <3>2, <3>3, <3>4 DEF switchCompletes
    <3> QED BY <3>5, <2>11 DEF Completes, Jumping, FlowLoops
  <2>12. CASE stmt(n).kind = "with"
    <3>1. Normal \in Ends[Kids(n)[1]][{}] /\ 1 \in DOMAIN Kids(n) /\ stmt(n).kids[1] = Kids(n)[1]
      BY <2>1, <2>12, ParsedStatement DEF EndsUnder, Jumping, FlowLoops, AroundOne
    <3> QED BY <3>1, <2>3, <2>12 DEF Completes, Jumping, FlowLoops
  <2>13. CASE stmt(n).kind = "try"
    <3>1. Normal \in TryEnds(Ends, n)
      BY <2>1, <2>13 DEF EndsUnder, Jumping, FlowLoops
    <3>2. {1, 2, 3} \subseteq DOMAIN Kids(n) /\ Normal # End("throw", NoLabel)
      BY <2>13, ParsedStatement DEF Normal, End
    <3>3. /\ HasPart(n, 3) => Normal \in Ends[Kids(n)[3]][{}]
          /\ Normal \in Ends[Kids(n)[1]][{}] \/ (HasPart(n, 2) /\ Normal \in Ends[Kids(n)[2]][{}])
      BY <3>1, <3>2 DEF TryEnds
    <3>4. tryCompletes(completesNormally, n)
      BY <3>2, <3>3, <2>3 DEF tryCompletes
    <3> QED BY <3>4, <2>13 DEF Completes, Jumping, FlowLoops
  <2>14. CASE /\ stmt(n).kind \notin Jumping \cup FlowLoops
              /\ stmt(n).kind \notin {"block", "if", "labeled", "switch", "with", "try"}
    BY <2>14 DEF Completes, FlowLoops
  <2> QED BY <2>6, <2>7, <2>8, <2>9, <2>10, <2>11, <2>12, <2>13, <2>14
<1>2. Number \subseteq S
  <2>1. \A n \in 1..Len(functionBody) : (\A m \in 1..(n - 1) : m \in S) => n \in S
    BY <1>1 DEF Number
  <2>2. Len(functionBody) \in Nat
    BY Shape
  <2> HIDE DEF S
  <2> QED BY <2>1, <2>2, FromBelow DEF Number
<1>3. ASSUME NEW n \in Number, Normal \in Ends[n][{}] PROVE completesNormally[n]
  <2>1. Sound(n) /\ OwnLoop(n, {}) /\ ~Left(n, {})
    BY <1>2
  <2> QED BY <2>1, <1>3
<1> QED BY <1>3

-----------------------------------------------------------------------------
(* rules/no_unreachable.cc: what the rule reports, control never reaches. The  *)
(* statement before it that flow.cc says does not complete cannot end normally. *)
LEMMA ReportedIsNeverRun == Body => UnreachableNeverRuns
<1> SUFFICES ASSUME Body, ~ContinuesItsDoWhile, NEW n \in Number, NEW i \in checkList(Kids(n))
             PROVE  ~Starts(Ends, Kids(n), i)
  BY Shape DEF UnreachableNeverRuns, Lists
<1>1. PICK j \in 1..(i - 1) : ~completesNormally[Kids(n)[j]]
  BY DEF checkList
<1>2. i \in DOMAIN Kids(n) /\ Kids(n) \in Seq(Nat)
  BY Shape DEF checkList
<1>3. j \in DOMAIN Kids(n)
  BY <1>1, <1>2
<1>4. Normal \notin Ends[Kids(n)[j]][{}]
  BY <1>1, <1>3, NormalCompletes, Shape DEF Number
<1> QED BY <1>1, <1>4 DEF Starts

(* rules/no_fallthrough.cc: a clause that can run into the next one is one the *)
(* rule takes to fall through.                                               *)
LEMMA FallingIsReported == Body => FallsAreReported
<1> SUFFICES ASSUME Body, ~ContinuesItsDoWhile, NEW n \in Number, NEW i \in 1..(Len(Kids(n)) - 1),
                    Kids(Kids(n)[i]) # <<>>, Normal \in ListEnds(Ends, Kids(Kids(n)[i]))
             PROVE  /\ ReportsFall(Kids(n)[i]) \/ stmt(Kids(n)[i]).comment
                    /\ ~ReportsComment(Kids(n)[i])
  BY Shape DEF FallsAreReported, Switches
<1> DEFINE clause == Kids(n)[i]
<1>1. clause \in Number /\ Kids(clause) \in Seq(Nat) /\ \A j \in DOMAIN Kids(clause) : Kids(clause)[j] \in Number
  <2>1. i \in DOMAIN Kids(n)
    BY Shape
  <2> QED BY <2>1, Grandkids, Shape DEF Number
<1>2. Starts(Ends, Kids(clause), Len(Kids(clause)) + 1)
  BY InListEnds
<1>3. \A j \in DOMAIN Kids(clause) : Normal \in Ends[Kids(clause)[j]][{}]
  BY <1>1, <1>2 DEF Starts
<1>4. sequenceCompletesNormally(Kids(clause))
  BY <1>1, <1>3, NormalCompletes DEF sequenceCompletesNormally, AllComplete
<1> QED BY <1>4 DEF ReportsFall, ReportsComment

LEMMA BodyInvariant == FlowSpec => []Body
<1>1. FlowInit => Body
  <2>1. <<>> \in Seq(Statement) /\ DOMAIN <<>> = {}
    OBVIOUS
  <2> QED BY <2>1 DEF FlowInit, Body, FunctionBody
<1>2. Body /\ [LintFlow]_flowVars => Body'
  BY FlowAssumption DEF Body, LintFlow, flowVars
<1> QED BY <1>1, <1>2, PTL DEF FlowSpec

(* In no function body does control reach a statement that no-unreachable     *)
(* reports (a do-while continued through its label aside).                    *)
THEOREM UnreachableIsNeverRun == FlowSpec => []UnreachableNeverRuns
BY BodyInvariant, ReportedIsNeverRun, PTL

(* In no function body does a clause run into the next one unreported and     *)
(* without the comment that permits it.                                       *)
THEOREM FallsAreAllReported == FlowSpec => []FallsAreReported
BY BodyInvariant, FallingIsReported, PTL

-----------------------------------------------------------------------------
(* Types. *)

(* The levels of the types are what their definition says. *)
LEMMA RowsAre ==
  Rows[0] = {} /\ \A n \in 1..Nesting : Rows[n] = RowsOver(Rows[n - 1])
<1> DEFINE Grow(r, n) == IF n = 0 THEN {} ELSE RowsOver(r[n - 1])
           Known(k) == \E r : r = [n \in 0..k |-> Grow(r, n)]
           S == {k \in 1..Nesting : Known(k)}
<1>1. Known(0)
  <2> DEFINE r == [n \in 0..0 |-> {}]
  <2>1. r = [n \in 0..0 |-> Grow(r, n)]
    OBVIOUS
  <2> QED BY <2>1
<1>2. ASSUME NEW k \in Nat, Known(k) PROVE Known(k + 1)
  <2>1. PICK r : r = [n \in 0..k |-> Grow(r, n)]
    BY <1>2
  <2> DEFINE t == [n \in 0..(k + 1) |-> Grow(r, n)]
  <2>2. \A n \in 0..k : t[n] = r[n]
    <3> HIDE DEF Grow
    <3>1. \A n \in 0..k : r[n] = Grow(r, n) /\ n \in 0..(k + 1)
      BY <2>1
    <3> QED BY <3>1
  <2>3. \A n \in 0..(k + 1) : Grow(t, n) = Grow(r, n)
    <3>1. \A n \in 1..(k + 1) : n - 1 \in 0..k
      OBVIOUS
    <3> HIDE DEF t
    <3> QED BY <2>2, <3>1
  <2>4. t = [n \in 0..(k + 1) |-> Grow(t, n)]
    <3> HIDE DEF Grow
    <3> QED BY <2>3
  <2> QED BY <2>4
<1>3. Known(Nesting)
  <2>1. Nesting \in 1..Nesting /\ Nesting \in Nat
    BY NestingAssumption
  <2>2. ASSUME NEW n \in 1..Nesting, \A m \in 1..(n - 1) : m \in S PROVE n \in S
    <3>1. n = 1 \/ n - 1 \in S
      BY <2>2
    <3>2. n - 1 \in Nat /\ (n - 1) + 1 = n /\ Known(n - 1)
      <4> HIDE DEF Known
      <4> QED BY <3>1, <1>1
    <3> HIDE DEF Known
    <3>3. Known(n)
      BY <3>2, <1>2
    <3> QED BY <3>3
  <2> HIDE DEF S
  <2>3. 1..Nesting \subseteq S
    BY <2>1, <2>2, FromBelow
  <2> QED BY <2>1, <2>3 DEF S
<1>4. Rows = [n \in 0..Nesting |-> Grow(Rows, n)]
  BY <1>3 DEF Rows
<1>5. \A n \in 1..Nesting : n \in 0..Nesting /\ n # 0
  OBVIOUS
<1>6. 0 \in 0..Nesting
  BY NestingAssumption
<1> QED BY <1>4, <1>5, <1>6

(* A row's components are on a lower level, and every level is in the next.    *)
LEMMA RowsGrow == \A n \in 1..Nesting : Rows[n - 1] \subseteq Rows[n]
<1> DEFINE S == {n \in 1..Nesting : Rows[n - 1] \subseteq Rows[n]}
<1>1. ASSUME NEW A, NEW B, A \subseteq B PROVE RowsOver(A) \subseteq RowsOver(B)
  <2> DEFINE alone(X) == [1..1 -> X]
  <2>1. Seq(A) \subseteq Seq(B) /\ alone(A) \subseteq alone(B)
    BY <1>1
  <2> DEFINE m(X) == {t \in X : ~isAnyLike(t) /\ "Union" \notin t.flags}
             none == {<<>>}
             declared == STRING \ {"", "Array"}
             nested == {"Union", "Intersection"}
  <2>2. m(A) \subseteq m(B)
    BY <1>1
  <2> HIDE DEF m
  <2>3. Seq(m(A)) \ none \subseteq Seq(m(B)) \ none
    BY <2>2
  <2>4. ASSUME NEW f, NEW t, NEW o, NEW p1, NEW p2, NEW a1, NEW a2, NEW b1, NEW b2,
               p1 \subseteq p2, a1 \subseteq a2, b1 \subseteq b2
        PROVE  Row(f, t, p1, o, a1, b1) \subseteq Row(f, t, p2, o, a2, b2)
    BY <2>4 DEF Row
  <2>5. Row(nested, {""}, Seq(m(A)) \ none, {""}, none, none)
          \subseteq Row(nested, {""}, Seq(m(B)) \ none, {""}, none, none)
    BY <2>3, <2>4
  <2> HIDE DEF alone
  <2>6. Row({"Object"}, {""}, none, declared, Seq(A), none) \subseteq Row({"Object"}, {""}, none, declared, Seq(B), none)
    BY <2>1, <2>4
  <2>7. Row({"Object"}, {""}, none, {"Array"}, alone(A), none)
          \subseteq Row({"Object"}, {""}, none, {"Array"}, alone(B), none)
    BY <2>1, <2>4
  <2>8. Row({"TypeParameter"}, {""}, none, {""}, none, alone(A) \cup none)
          \subseteq Row({"TypeParameter"}, {""}, none, {""}, none, alone(B) \cup none)
    BY <2>1, <2>4
  <2>9. \A X : RowsOver(X) = Row(PlainFlags, {""}, none, {""}, none, none)
                \cup Row(LiteralFlags, STRING, none, {""}, none, none)
                \cup Row(nested, {""}, Seq(m(X)) \ none, {""}, none, none)
                \cup Row({"Object"}, {""}, none, declared, Seq(X), none)
                \cup Row({"Object"}, {""}, none, {"Array"}, alone(X), none)
                \cup Row({"TypeParameter"}, {""}, none, {""}, none, alone(X) \cup none)
    BY DEF RowsOver, m, alone
  <2> HIDE DEF none, declared, nested
  <2> QED BY <2>5, <2>6, <2>7, <2>8, <2>9
<1>2. ASSUME NEW n \in 1..Nesting, \A m \in 1..(n - 1) : m \in S PROVE n \in S
  <2>1. CASE n = 1
    BY <2>1, RowsAre
  <2>2. CASE n > 1
    <3>1. n - 1 \in 1..Nesting /\ n - 1 \in 1..(n - 1) /\ n - 1 \in S
      BY <2>2, <1>2
    <3>2. Rows[n - 1] = RowsOver(Rows[(n - 1) - 1]) /\ Rows[n] = RowsOver(Rows[n - 1])
      BY <3>1, RowsAre
    <3> QED BY <3>1, <3>2, <1>1
  <2> QED BY <2>1, <2>2
<1> HIDE DEF S
<1>3. 1..Nesting \subseteq S
  BY <1>2, FromBelow, NestingAssumption
<1> QED BY <1>3 DEF S

(* A row over S, by its flag.                                                  *)
LeafRow(t) == t.parts = <<>> /\ t.of = "" /\ t.args = <<>> /\ t.bound = <<>>

RowOver(t, S) ==
  \/ LeafRow(t) /\ \E f \in PlainFlags \cup LiteralFlags : t.flags = {f}
  \/ /\ t.flags \in {{"Union"}, {"Intersection"}}
     /\ t.parts \in Seq({m \in S : ~isAnyLike(m) /\ "Union" \notin m.flags}) /\ t.parts # <<>>
     /\ t.of = "" /\ t.args = <<>> /\ t.bound = <<>>
  \/ /\ t.flags = {"Object"} /\ t.parts = <<>> /\ t.bound = <<>>
     /\ t.of # "" /\ t.args \in Seq(S) /\ (t.of = "Array" => Len(t.args) = 1)
  \/ /\ t.flags = {"TypeParameter"} /\ t.parts = <<>> /\ t.of = "" /\ t.args = <<>>
     /\ t.bound = <<>> \/ (t.bound # <<>> /\ t.bound[1] \in S)

LEMMA RowIs == ASSUME NEW S, NEW t \in RowsOver(S) PROVE RowOver(t, S)
<1> DEFINE none == {<<>>}
           members == {m \in S : ~isAnyLike(m) /\ "Union" \notin m.flags}
<1>1. CASE t \in Row(PlainFlags, {""}, none, {""}, none, none)
  BY <1>1 DEF Row, RowOver, LeafRow
<1>2. CASE t \in Row(LiteralFlags, STRING, none, {""}, none, none)
  BY <1>2 DEF Row, RowOver, LeafRow
<1>3. CASE t \in Row({"Union", "Intersection"}, {""}, Seq(members) \ none, {""}, none, none)
  BY <1>3 DEF Row, RowOver
<1>4. CASE t \in Row({"Object"}, {""}, none, STRING \ {"", "Array"}, Seq(S), none)
  BY <1>4 DEF Row, RowOver
<1>5. CASE t \in Row({"Object"}, {""}, none, {"Array"}, [1..1 -> S], none)
  <2>1. t.args \in Seq(S) /\ Len(t.args) = 1
    <3>1. t.args \in [1..1 -> S]
      BY <1>5 DEF Row
    <3>2. t.args \in Seq(S)
      <4>1. [1..1 -> S] \in {[1..n -> S] : n \in Nat}
        OBVIOUS
      <4> QED BY <3>1, <4>1, SeqDef
    <3>3. DOMAIN t.args = 1..1 /\ DOMAIN t.args = 1..Len(t.args) /\ Len(t.args) \in Nat
      BY <3>1, <3>2
    <3> DEFINE n == Len(t.args)
    <3>4. n \in Nat /\ 1..1 = 1..n
      BY <3>3
    <3> HIDE DEF n
    <3>5. n = 1
      <4>1. 1 \in 1..n
        BY <3>4
      <4>2. n \in 1..1
        BY <3>4, <4>1
      <4> QED BY <4>2
    <3> QED BY <3>2, <3>5 DEF n
  <2> QED BY <1>5, <2>1 DEF Row, RowOver
<1>6. CASE t \in Row({"TypeParameter"}, {""}, none, {""}, none, [1..1 -> S] \cup none)
  <2>1. CASE t.bound \in [1..1 -> S]
    <3>1. t.bound # <<>> /\ t.bound[1] \in S
      BY <2>1
    <3> QED BY <1>6, <3>1 DEF Row, RowOver
  <2>2. CASE t.bound = <<>>
    BY <1>6, <2>2 DEF Row, RowOver
  <2> QED BY <1>6, <2>1, <2>2 DEF Row
<1> QED BY <1>1, <1>2, <1>3, <1>4, <1>5, <1>6 DEF RowsOver

(* What a row's flag tells. *)
LEMMA FlagsTell ==
  ASSUME NEW S, NEW t, RowOver(t, S)
  PROVE  /\ t.of # "" => ~isAnyLike(t) /\ "Union" \notin t.flags /\ t.parts = <<>> /\ ~isTypeParameter(t)
         /\ "Union" \in t.flags \/ t.parts # <<>> =>
              /\ t.parts \in Seq({m \in S : ~isAnyLike(m) /\ "Union" \notin m.flags}) /\ t.parts # <<>>
              /\ ~isTypeParameter(t)
         /\ isAnyLike(t) => t.of = ""
<1> USE DEF isAnyLike, isAny, isUnknown, isTypeParameter
<1> DEFINE M == Seq({m \in S : ~isAnyLike(m) /\ "Union" \notin m.flags})
<1>1. CASE LeafRow(t) /\ \E f \in PlainFlags \cup LiteralFlags : t.flags = {f}
  <2>1. "Union" \notin t.flags
    BY <1>1 DEF PlainFlags, LiteralFlags
  <2> QED BY <1>1, <2>1 DEF LeafRow
<1>2. CASE t.flags \in {{"Union"}, {"Intersection"}} /\ t.parts \in M /\ t.parts # <<>> /\ t.of = ""
  BY <1>2
<1>3. CASE t.flags = {"Object"} /\ t.parts = <<>>
  BY <1>3
<1>4. CASE t.flags = {"TypeParameter"} /\ t.parts = <<>> /\ t.of = ""
  BY <1>4
<1> QED BY <1>1, <1>2, <1>3, <1>4 DEF RowOver

LEMMA TypeIs == ASSUME NEW t \in Types PROVE RowOver(t, Types)
<1>1. Nesting \in 1..Nesting
  BY NestingAssumption
<1>2. RowOver(t, Rows[Nesting - 1]) /\ Rows[Nesting - 1] \subseteq Types
  BY <1>1, RowsAre, RowsGrow, RowIs DEF Types
<1> DEFINE m(X) == {x \in X : ~isAnyLike(x) /\ "Union" \notin x.flags}
<1>3. m(Rows[Nesting - 1]) \subseteq m(Types)
  BY <1>2
<1>4. /\ t.args \in Seq(Rows[Nesting - 1]) => t.args \in Seq(Types)
      /\ t.parts \in Seq(m(Rows[Nesting - 1])) => t.parts \in Seq(m(Types))
  <2> HIDE DEF m
  <2> QED BY <1>2, <1>3, SeqMonotonic
<1> QED BY <1>2, <1>4 DEF RowOver

LEMMA TypesAreSet ==
  ASSUME NEW t \in Types
  PROVE  /\ t.args \in Seq(Types) /\ t # NoType
         /\ constraintOf(t) \in MaybeType /\ constrainedType(t) \in Types
         /\ isArray(constrainedType(t)) => constrainedType(t).args[1] \in Types
<1>1. RowOver(t, Types) /\ t.flags # {}
  <2>1. RowOver(t, Types)
    BY TypeIs
  <2> QED BY <2>1 DEF RowOver
<1>2. <<>> \in Seq(Types)
  OBVIOUS
<1>3. t.args \in Seq(Types)
  BY <1>1, <1>2 DEF RowOver, LeafRow
<1>4. NoType.flags = {}
  BY DEF NoType, Type
<1>5. t # NoType
  BY <1>1, <1>4
<1>6. constraintOf(t) \in MaybeType
  BY <1>1 DEF RowOver, LeafRow, constraintOf, isTypeParameter, MaybeType
<1>7. constrainedType(t) \in Types
  BY <1>6 DEF constrainedType, MaybeType
<1>8. ASSUME isArray(constrainedType(t)) PROVE constrainedType(t).args[1] \in Types
  <2>1. RowOver(constrainedType(t), Types)
    BY <1>7, TypeIs
  <2>2. constrainedType(t).args \in Seq(Types) /\ Len(constrainedType(t).args) = 1
    BY <2>1, <1>8 DEF RowOver, LeafRow, isArray
  <2> QED BY <2>2
<1> QED BY <1>3, <1>5, <1>6, <1>7, <1>8

-----------------------------------------------------------------------------
(* The arguments of a call.                                                  *)
LEMMA Parameters ==
  ASSUME NEW call, IsCall(call)
  PROVE  /\ RestTypes(call) \in Seq(Types) /\ (~call.rest => RestTypes(call) = <<>>)
         /\ FixedCount(call) \in Nat
         /\ AllParameters(call) \in Seq(Types)
         /\ Len(AllParameters(call)) = FixedCount(call) + Len(RestTypes(call))
         /\ \A k \in 1..FixedCount(call) : AllParameters(call)[k] = call.params[k]
         /\ \A k \in 1..Len(RestTypes(call)) : AllParameters(call)[FixedCount(call) + k] = RestTypes(call)[k]
<1> DEFINE rest == constrainedType(call.params[Len(call.params)])
           fixed == FixedCount(call)
<1>1. call.params \in Seq(Types) /\ call.rest \in BOOLEAN /\ (call.rest => call.params # <<>>)
  BY DEF IsCall
<1>2. fixed \in Nat /\ fixed <= Len(call.params)
  <2>1. Len(call.params) \in Nat /\ (call.params # <<>> => Len(call.params) >= 1)
    BY <1>1
  <2> DEFINE n == Len(call.params)
  <2> HIDE DEF n
  <2>2. n \in Nat /\ (call.rest => n >= 1)
    BY <1>1, <2>1 DEF n
  <2>3. fixed = IF call.rest THEN n - 1 ELSE n
    BY <2>2 DEF FixedCount, n
  <2> HIDE DEF fixed
  <2>4. fixed \in Nat /\ fixed <= n
    BY <1>1, <2>2, <2>3
  <2> QED BY <2>4 DEF n
<1>3. RestTypes(call) \in Seq(Types) /\ (~call.rest => RestTypes(call) = <<>>)
  <2>1. CASE ~call.rest
    <3>1. <<>> \in Seq(Types)
      OBVIOUS
    <3> QED BY <2>1, <3>1 DEF RestTypes
  <2>2. CASE call.rest
    <3>1. call.params[Len(call.params)] \in Types
      BY <1>1, <2>2
    <3>2. rest \in Types /\ rest.args \in Seq(Types) /\ (isArray(rest) => rest.args[1] \in Types)
      BY <3>1, TypesAreSet
    <3>3. <<rest>> \in Seq(Types) /\ (isArray(rest) => <<rest.args[1]>> \in Seq(Types))
      BY <3>2
    <3>4. RestTypes(call) = IF isTuple(rest) THEN rest.args
                            ELSE IF isArray(rest) THEN <<rest.args[1]>> ELSE <<rest>>
      BY <2>2 DEF RestTypes
    <3> QED BY <2>2, <3>2, <3>3, <3>4
  <2> QED BY <1>1, <2>1, <2>2
<1> DEFINE first == SubSeq(call.params, 1, fixed)
<1>4. first \in Seq(Types) /\ Len(first) = fixed /\ \A k \in 1..fixed : first[k] = call.params[k]
  <2> HIDE DEF fixed
  <2>1. \A k \in 1..fixed : call.params[k] \in Types
    BY <1>1, <1>2
  <2> QED BY <1>1, <1>2, <2>1
<1>5. AllParameters(call) = first \o RestTypes(call)
  BY DEF AllParameters
<1> HIDE DEF first, fixed
<1> DEFINE tail == RestTypes(call)
           all == first \o tail
<1>6. tail \in Seq(Types) /\ Len(tail) \in Nat
  BY <1>3
<1> HIDE DEF tail
<1>7. /\ all \in Seq(Types) /\ Len(all) = fixed + Len(tail)
      /\ \A i \in 1..(fixed + Len(tail)) : all[i] = IF i <= fixed THEN first[i] ELSE tail[i - fixed]
  BY <1>4, <1>6, ConcatProperties
<1>8. \A k \in 1..fixed : all[k] = call.params[k]
  <2> HIDE DEF all
  <2> QED BY <1>2, <1>4, <1>6, <1>7
<1>9. \A k \in 1..Len(tail) : all[fixed + k] = tail[k]
  <2> HIDE DEF all
  <2> SUFFICES ASSUME NEW k \in 1..Len(tail) PROVE all[fixed + k] = tail[k]
    OBVIOUS
  <2>1. fixed + k \in 1..(fixed + Len(tail)) /\ ~(fixed + k <= fixed) /\ (fixed + k) - fixed = k
    BY <1>2, <1>6
  <2> QED BY <1>7, <2>1
<1> QED BY <1>2, <1>3, <1>5, <1>7, <1>8, <1>9 DEF fixed, tail

(* The parameter next() finds is the one of the place; behind a spread that    *)
(* has no known length, where it was consumed or nothing else is left, it is *)
(* the last.                                                                 *)
LEMMA NextParameter ==
  ASSUME NEW call, IsCall(call), NEW k \in Nat \ {0}
  PROVE  LET last == Len(AllParameters(call)) + 1
         IN  /\ ParameterAt(call, k, FALSE) = TakenBy(call, k)
             /\ ParameterAt(call, k, TRUE) = TakenBy(call, last)
             /\ RestTypes(call) # <<>> /\ k >= Len(AllParameters(call))
                  => ParameterAt(call, k, FALSE) = TakenBy(call, last)
<1> DEFINE fixed == FixedCount(call)
           rest == RestTypes(call)
           all == AllParameters(call)
<1>1. /\ (~call.rest => rest = <<>>) /\ fixed \in Nat /\ k \in Nat /\ k >= 1
      /\ Len(all) = fixed + Len(rest) /\ Len(rest) \in Nat /\ (rest # <<>> => Len(rest) >= 1)
      /\ \A j \in 1..fixed : all[j] = call.params[j]
      /\ \A j \in 1..Len(rest) : all[fixed + j] = rest[j]
  <2>1. rest \in Seq(Types)
    BY Parameters
  <2>2. Len(rest) \in Nat /\ (rest # <<>> => Len(rest) >= 1)
    <3> HIDE DEF rest
    <3> QED BY <2>1
  <2> QED BY <2>2, Parameters
<1>2. ASSUME NEW c \in BOOLEAN
      PROVE  ParameterAt(call, k, c) =
               IF k <= fixed /\ ~c THEN call.params[k]
               ELSE IF rest = <<>> THEN Nothing
               ELSE IF c \/ k - fixed > Len(rest) THEN rest[Len(rest)] ELSE rest[k - fixed]
  BY DEF ParameterAt
<1>3. ASSUME NEW p
      PROVE  TakenBy(call, p) = IF p <= Len(all) THEN all[p]
                                ELSE IF rest # <<>> THEN all[Len(all)] ELSE Nothing
  BY <1>1 DEF TakenBy
<1> DEFINE m == Len(rest)
           n == Len(all)
           now == ParameterAt(call, k, FALSE)
           consumed == ParameterAt(call, k, TRUE)
           at == TakenBy(call, k)
           behind == TakenBy(call, n + 1)
           none == rest = <<>>
<1>4. /\ fixed \in Nat /\ k \in Nat /\ k >= 1 /\ m \in Nat /\ n = fixed + m /\ none \in BOOLEAN
      /\ (none => m = 0) /\ (~none => m >= 1)
  <2>1. rest = <<>> => Len(rest) = 0
    OBVIOUS
  <2> QED BY <1>1, <2>1
<1>5. /\ \A j \in 1..fixed : all[j] = call.params[j]
      /\ \A j \in 1..m : all[fixed + j] = rest[j]
  BY <1>1
<1>6. /\ now = IF k <= fixed THEN call.params[k]
               ELSE IF none THEN Nothing ELSE IF k - fixed > m THEN rest[m] ELSE rest[k - fixed]
      /\ consumed = IF none THEN Nothing ELSE rest[m]
  BY <1>2
<1>7. /\ at = IF k <= n THEN all[k] ELSE IF none THEN Nothing ELSE all[n]
      /\ behind = IF n + 1 <= n THEN all[n + 1] ELSE IF none THEN Nothing ELSE all[n]
  BY <1>3
<1> HIDE DEF fixed, rest, all, m, n, now, consumed, at, behind, none
<1>8. ~none => all[n] = rest[m]
  BY <1>4, <1>5
<1>9. behind = IF none THEN Nothing ELSE rest[m]
  BY <1>4, <1>7, <1>8
<1>10. now = at
  <2>1. CASE k <= fixed
    BY <2>1, <1>4, <1>5, <1>6, <1>7
  <2>2. CASE k > fixed /\ k <= n
    <3>1. k - fixed \in 1..m /\ fixed + (k - fixed) = k /\ ~none
      BY <2>2, <1>4
    <3>2. all[k] = rest[k - fixed]
      BY <3>1, <1>5
    <3> QED BY <2>2, <3>1, <3>2, <1>4, <1>6, <1>7
  <2>3. CASE k > n
    BY <2>3, <1>4, <1>6, <1>7, <1>8
  <2> QED BY <2>1, <2>2, <2>3, <1>4
<1>11. ASSUME ~none, k >= n PROVE now = behind
  <2>1. k > fixed /\ (k - fixed > m \/ k - fixed = m)
    BY <1>4, <1>11
  <2> QED BY <2>1, <1>4, <1>6, <1>9, <1>11
<1> QED BY <1>6, <1>9, <1>10, <1>11 DEF fixed, rest, all, m, n, now, consumed, at, behind, none

HandedArgument == [arg : Nat, type : Types, loose : BOOLEAN]

LEMMA HandedIs ==
  ASSUME NEW call, IsCall(call), NEW i \in DOMAIN call.args
  PROVE  /\ Handed(call, i) \in Seq(HandedArgument)
         /\ \A k \in 1..Len(Handed(call, i)) : /\ Handed(call, i)[k].arg = i
                                              /\ Handed(call, i)[k].loose = Loose(call, i)
         /\ ~call.args[i].spread => /\ Len(Handed(call, i)) = 1
                                    /\ Handed(call, i)[1].type = call.args[i].type
         /\ call.args[i].spread /\ isTuple(call.args[i].type)
              => /\ Len(Handed(call, i)) = Len(call.args[i].type.args)
                 /\ \A k \in 1..Len(Handed(call, i)) : Handed(call, i)[k].type = call.args[i].type.args[k]
         /\ call.args[i].spread /\ ~isTuple(call.args[i].type) => Handed(call, i) = <<>>
<1> DEFINE arg == call.args[i]
           One(t) == [arg |-> i, type |-> t, loose |-> Loose(call, i)]
<1>1. arg.spread \in BOOLEAN /\ arg.type \in Types /\ i \in Nat
  <2> DEFINE args == call.args
             Argument == [spread : BOOLEAN, type : Types, open : BOOLEAN, bare : BOOLEAN]
  <2>1. args \in Seq(Argument)
    BY DEF IsCall
  <2> HIDE DEF Argument
  <2>2. args[i] \in Argument /\ i \in Nat
    <3> HIDE DEF args
    <3>1. i \in DOMAIN args
      BY DEF args
    <3> QED BY <2>1, <3>1
  <2> QED BY <2>2 DEF Argument
<1>2. Loose(call, i) \in BOOLEAN
  BY DEF Loose
<1>3. \A t \in Types : One(t) \in HandedArgument /\ One(t).arg = i /\ One(t).loose = Loose(call, i) /\ One(t).type = t
  BY <1>1, <1>2 DEF HandedArgument
<1>4. Handed(call, i) = IF ~arg.spread THEN <<One(arg.type)>>
                        ELSE IF isTuple(arg.type) THEN [k \in DOMAIN arg.type.args |-> One(arg.type.args[k])]
                        ELSE <<>>
  BY DEF Handed
<1> HIDE DEF One
<1>5. CASE ~arg.spread
  <2>1. <<One(arg.type)>> \in Seq(HandedArgument) /\ Len(<<One(arg.type)>>) = 1
        /\ <<One(arg.type)>>[1] = One(arg.type)
    BY <1>1, <1>3
  <2>2. \A k \in 1..1 : k = 1
    OBVIOUS
  <2> QED BY <1>1, <1>3, <1>4, <1>5, <2>1, <2>2
<1>6. CASE arg.spread /\ isTuple(arg.type)
  <2> DEFINE el == arg.type.args
             n == Len(el)
             h == [k \in 1..n |-> One(el[k])]
  <2>1. el \in Seq(Types) /\ n \in Nat /\ DOMAIN el = 1..n /\ \A k \in 1..n : el[k] \in Types
    <3>1. el \in Seq(Types)
      BY <1>1, TypesAreSet
    <3> HIDE DEF el
    <3> QED BY <3>1
  <2>2. Handed(call, i) = h
    BY <1>4, <1>6, <2>1
  <2> HIDE DEF el, n
  <2>3. h \in Seq(HandedArgument) /\ Len(h) = n /\ \A k \in 1..n : h[k] = One(el[k])
    BY <2>1, <1>3
  <2>4. \A k \in 1..n : h[k].arg = i /\ h[k].loose = Loose(call, i) /\ h[k].type = el[k]
    BY <2>1, <2>3, <1>3
  <2> HIDE DEF h
  <2> QED BY <1>6, <2>2, <2>3, <2>4 DEF el, n
<1>7. CASE arg.spread /\ ~isTuple(arg.type)
  <2>1. <<>> \in Seq(HandedArgument) /\ Len(<<>>) = 0 /\ 1..0 = {}
    OBVIOUS
  <2> QED BY <1>4, <1>7, <2>1
<1> QED BY <1>1, <1>5, <1>6, <1>7

LEMMA HandedUpToIs ==
  ASSUME NEW call, IsCall(call)
  PROVE  /\ HandedUpTo(call, 0) = <<>>
         /\ \A n \in 1..Len(call.args) : HandedUpTo(call, n) = HandedUpTo(call, n - 1) \o Handed(call, n)
         /\ \A n \in 0..Len(call.args) : HandedUpTo(call, n) \in Seq(HandedArgument)
<1> DEFINE N == Len(call.args)
           V == Seq(HandedArgument)
           S == [p \in (1..N) \X V |-> p[2] \o Handed(call, p[1])]
<1>1. N \in Nat /\ DOMAIN call.args = 1..N
  BY DEF IsCall
<1>2. \A n \in 1..N : Handed(call, n) \in V
  BY <1>1, HandedIs
<1> HIDE DEF N
<1>3. ASSUME NEW n \in 1..N, NEW v \in V PROVE v \o Handed(call, n) \in V /\ S[<<n, v>>] = v \o Handed(call, n)
  <2>1. Handed(call, n) \in V
    BY <1>2
  <2>2. v \o Handed(call, n) \in V
    BY <2>1
  <2> HIDE DEF V
  <2> QED BY <2>2
<1> HIDE DEF V
<1>4. S \in [(1..N) \X V -> V]
  BY <1>3
<1> DEFINE start == <<>>
<1>5. PICK f \in [0..N -> V] : Loops(f, start, S, N)
  <2>1. start \in V
    BY DEF V
  <2>2. Step(S, N, V)
    BY <1>4 DEF Step
  <2> HIDE DEF start, S
  <2> QED BY <1>1, <2>1, <2>2, Loop
<1> USE DEF Loops
<1> HIDE DEF S
<1>6. \A n \in 1..N : f[n - 1] \in V /\ f[n] = f[n - 1] \o Handed(call, n)
  <2>1. \A n \in 1..N : n - 1 \in 0..N
    BY <1>1
  <2> QED BY <1>3, <1>5, <2>1
<1>7. ASSUME NEW m \in 0..N PROVE HandedUpTo(call, m) = f[m]
  <2> DEFINE Next1(x, n) == IF n = 0 THEN start ELSE x[n - 1] \o Handed(call, n)
             h == [n \in 0..m |-> f[n]]
             g == CHOOSE x : x = [n \in 0..m |-> Next1(x, n)]
  <2> HIDE DEF start
  <2>1. h = [n \in 0..m |-> Next1(h, n)]
    <3>1. \A n \in 0..m : n # 0 => n \in 1..N /\ n - 1 \in 0..m
      BY <1>1
    <3>2. \A n \in 0..m : f[n] = Next1(f, n)
      BY <3>1, <1>5, <1>6
    <3>3. \A n \in 0..m : Next1(h, n) = Next1(f, n)
      BY <3>1
    <3> HIDE DEF Next1
    <3> QED BY <3>2, <3>3
  <2>2. g = [n \in 0..m |-> Next1(g, n)]
    <3> HIDE DEF h, Next1
    <3> QED BY <2>1
  <2> HIDE DEF g
  <2>3. \A n \in 0..m : g[n] = f[n]
    <3>1. m \in Nat /\ 0 \in 0..m /\ \A n \in 1..m : n \in 0..m /\ n # 0 /\ n \in 1..N
      BY <1>1
    <3>2. g[0] = f[0]
      BY <3>1, <2>2, <1>5
    <3>3. \A n \in 1..m : g[n - 1] = f[n - 1] => g[n] = f[n]
      BY <3>1, <2>2, <1>6
    <3>4. SameSteps(g, f, m)
      BY <3>2, <3>3 DEF SameSteps
    <3>5. m \in Nat
      BY <3>1
    <3> QED BY ONLY <3>4, <3>5, SameLoop
  <2>4. HandedUpTo(call, m) = g[m]
    BY DEF HandedUpTo, g, start
  <2>5. m \in 0..m
    BY <1>1
  <2> QED BY <2>3, <2>4, <2>5
<1>8. \A n \in 1..N : n \in 0..N /\ n - 1 \in 0..N
  BY <1>1
<1>9. 0 \in 0..N
  BY <1>1
<1> QED BY <1>5, <1>6, <1>7, <1>8, <1>9 DEF N, V, start

Pair(call, arg, sender, place, consumed) ==
  [arg |-> arg, sender |-> sender, receiver |-> ParameterAt(call, place, consumed)]

LEMMA CompareIs ==
  ASSUME NEW call, NEW a \in Nat, NEW c, NEW P, NEW i, NEW t
  PROVE  Compare(call, Walk(a, c, P), i, t) = Walk(a + 1, c, P \cup {Pair(call, i, t, a + 1, c)})
BY DEF Compare, Walk, Pair

SpreadPairs(call, i, a, c) ==
  LET el == call.args[i].type.args IN {Pair(call, i, el[m], a + m, c) : m \in 1..Len(el)}

SpreadWalk(call, i, a, c, P) ==
  Walk(a + Len(call.args[i].type.args), c \/ call.args[i].open, P \cup SpreadPairs(call, i, a, c))

LEMMA SpreadIs ==
  ASSUME NEW call, IsCall(call), NEW i \in DOMAIN call.args, isTuple(call.args[i].type),
         NEW a \in Nat, NEW c \in BOOLEAN, NEW P
  PROVE  checkSpread(call, Walk(a, c, P), i) = SpreadWalk(call, i, a, c, P)
<1> DEFINE el == call.args[i].type.args
           L == Len(el)
           was == Walk(a, c, P)
           Next1(x, k) == IF k = 0 THEN was ELSE Compare(call, x[k - 1], i, el[k])
           After(k) == Walk(a + k, c, P \cup {Pair(call, i, el[m], a + m, c) : m \in 1..k})
           h == [k \in 0..L |-> After(k)]
           g == CHOOSE x : x = [k \in 0..L |-> Next1(x, k)]
<1>1. L \in Nat
  <2>1. call.args[i].type \in Types
    <3> DEFINE args == call.args
               Argument == [spread : BOOLEAN, type : Types, open : BOOLEAN, bare : BOOLEAN]
    <3>1. args \in Seq(Argument)
      BY DEF IsCall
    <3> HIDE DEF Argument
    <3>2. args[i] \in Argument
      <4> HIDE DEF args
      <4>1. i \in DOMAIN args
        BY DEF args
      <4> QED BY <3>1, <4>1
    <3> QED BY <3>2 DEF Argument
  <2>2. el \in Seq(Types)
    BY <2>1, TypesAreSet
  <2> HIDE DEF el
  <2> QED BY <2>2
<1> HIDE DEF el, L
<1>2. After(0) = was
  <2>1. 1..0 = {} /\ a + 0 = a
    OBVIOUS
  <2> QED BY <2>1
<1>3. ASSUME NEW k \in 1..L PROVE After(k) = Compare(call, After(k - 1), i, el[k])
  <2> DEFINE Q(j) == P \cup {Pair(call, i, el[m], a + m, c) : m \in 1..j}
  <2>1. Compare(call, Walk(a + (k - 1), c, Q(k - 1)), i, el[k])
          = Walk((a + (k - 1)) + 1, c, Q(k - 1) \cup {Pair(call, i, el[k], (a + (k - 1)) + 1, c)})
    <3>1. a + (k - 1) \in Nat
      OBVIOUS
    <3> DEFINE n == a + (k - 1)
               t == el[k]
    <3> HIDE DEF Q, n, t
    <3>2. Compare(call, Walk(n, c, Q(k - 1)), i, t) = Walk(n + 1, c, Q(k - 1) \cup {Pair(call, i, t, n + 1, c)})
      <4>1. n \in Nat
        BY <3>1 DEF n
      <4> QED BY ONLY <4>1, CompareIs
    <3> QED BY <3>2 DEF n, t
  <2>2. (a + (k - 1)) + 1 = a + k /\ 1..k = (1..(k - 1)) \cup {k}
    OBVIOUS
  <2>3. Q(k) = Q(k - 1) \cup {Pair(call, i, el[k], a + k, c)}
    BY <2>2
  <2> HIDE DEF Q
  <2>4. After(k) = Walk(a + k, c, Q(k)) /\ After(k - 1) = Walk(a + (k - 1), c, Q(k - 1))
    BY DEF Q
  <2> QED BY <2>1, <2>2, <2>3, <2>4
<1> HIDE DEF After, was
<1>4. h = [k \in 0..L |-> Next1(h, k)]
  <2>1. \A k \in 0..L : k # 0 => k \in 1..L /\ k - 1 \in 0..L
    BY <1>1
  <2>2. \A k \in 0..L : h[k] = Next1(h, k)
    BY <2>1, <1>2, <1>3
  <2> HIDE DEF Next1
  <2> QED BY <2>2
<1>5. g = [k \in 0..L |-> Next1(g, k)]
  <2> HIDE DEF h, Next1
  <2> QED BY <1>4
<1>6. checkSpread(call, was, i) = Walk(g[L].next, g[L].consumed \/ call.args[i].open, g[L].pairs)
  BY DEF checkSpread, g, L, el
<1> HIDE DEF g
<1>7. \A k \in 0..L : g[k] = h[k]
  <2>1. 0 \in 0..L /\ \A k \in 1..L : k \in 0..L /\ k - 1 \in 0..L /\ k # 0
    BY <1>1
  <2>2. g[0] = h[0]
    BY <2>1, <1>2, <1>5
  <2>3. \A k \in 1..L : g[k - 1] = h[k - 1] => g[k] = h[k]
    BY <2>1, <1>3, <1>5
  <2>4. SameSteps(g, h, L)
    BY <2>2, <2>3 DEF SameSteps
  <2> QED BY ONLY <1>1, <2>4, SameLoop
<1>8. g[L] = After(L)
  <2>1. L \in 0..L
    BY <1>1
  <2> QED BY <2>1, <1>7
<1>9. After(L).next = a + L /\ After(L).consumed = c
      /\ After(L).pairs = P \cup {Pair(call, i, el[m], a + m, c) : m \in 1..L}
  BY DEF After, Walk
<1>10. SpreadPairs(call, i, a, c) = {Pair(call, i, el[m], a + m, c) : m \in 1..L}
  BY DEF SpreadPairs, L, el
<1> QED BY <1>6, <1>8, <1>9, <1>10 DEF L, el, was, SpreadWalk

(* More arguments hand over no fewer elements. *)
LEMMA HandedUpToGrows ==
  ASSUME NEW call, IsCall(call), NEW n \in 0..Len(call.args), NEW j \in 0..n
  PROVE  Len(HandedUpTo(call, j)) <= Len(HandedUpTo(call, n))
<1> DEFINE N == Len(call.args)
           L(k) == Len(HandedUpTo(call, k))
           S == {k \in 1..N : \A i \in 0..k : L(i) <= L(k)}
<1>1. N \in Nat
  BY DEF IsCall
<1>2. \A k \in 0..N : L(k) \in Nat
  <2>1. \A k \in 0..N : HandedUpTo(call, k) \in Seq(HandedArgument)
    BY HandedUpToIs
  <2> QED BY <2>1
<1>3. \A k \in 1..N : L(k - 1) <= L(k)
  <2> SUFFICES ASSUME NEW k \in 1..N PROVE L(k - 1) <= L(k)
    OBVIOUS
  <2> DEFINE before == HandedUpTo(call, k - 1)
             more == Handed(call, k)
  <2>1. HandedUpTo(call, k) = before \o more
    BY HandedUpToIs
  <2>2. before \in Seq(HandedArgument) /\ more \in Seq(HandedArgument)
    <3>1. k - 1 \in 0..N /\ k \in DOMAIN call.args
      BY <1>1 DEF IsCall
    <3> QED BY <3>1, HandedUpToIs, HandedIs
  <2> HIDE DEF before, more
  <2>3. Len(before) \in Nat /\ Len(more) \in Nat /\ Len(before \o more) = Len(before) + Len(more)
    BY <2>2
  <2> QED BY <2>1, <2>3 DEF before
<1> HIDE DEF L, N
<1>4. ASSUME NEW k \in 1..N, \A m \in 1..(k - 1) : m \in S PROVE k \in S
  <2>1. k - 1 \in 0..N /\ k \in 0..N /\ L(k - 1) \in Nat /\ L(k) \in Nat /\ L(k - 1) <= L(k)
    BY <1>1, <1>2, <1>3
  <2> SUFFICES ASSUME NEW i \in 0..k PROVE L(i) <= L(k)
    OBVIOUS
  <2>2. i \in 0..N /\ L(i) \in Nat
    BY <1>1, <1>2
  <2>3. CASE i = k
    BY <2>1, <2>3
  <2>4. CASE i = k - 1
    BY <2>1, <2>4
  <2>5. CASE i < k - 1
    <3>1. k - 1 \in 1..(k - 1) /\ i \in 0..(k - 1)
      BY <2>5
    <3>2. L(i) <= L(k - 1)
      BY <3>1, <1>4
    <3> QED BY <3>2, <2>1, <2>2
  <2> QED BY <2>3, <2>4, <2>5
<1> HIDE DEF S
<1>5. 1..N \subseteq S
  BY <1>1, <1>4, FromBelow
<1>6. CASE n = 0
  <2>1. j = n
    BY <1>6
  <2>2. L(n) \in Nat
    BY <1>2 DEF N
  <2>3. L(j) <= L(n)
    BY <2>1, <2>2
  <2> QED BY <2>3 DEF L
<1>7. CASE n # 0
  <2>1. n \in S
    BY <1>5, <1>7 DEF N
  <2> QED BY <2>1 DEF S, L
<1> QED BY <1>6, <1>7

Consumed(call, n) ==
  \E j \in 1..n : call.args[j].spread /\ isTuple(call.args[j].type) /\ call.args[j].open

(* What is compared with an element of an argument is what its place takes.    *)
LEMMA ReceiverIs ==
  ASSUME NEW call, IsCall(call), NEW n \in 1..Len(call.args), NEW m \in Nat \ {0}
  PROVE  LET k == Len(HandedUpTo(call, n - 1)) + m
         IN  /\ k \in Nat \ {0}
             /\ ParameterAt(call, k, Consumed(call, n - 1)) =
                  TakenBy(call, IF Loose(call, n) THEN Len(AllParameters(call)) + 1 ELSE k)
<1> DEFINE a == Len(HandedUpTo(call, n - 1))
           k == a + m
           most == Len(AllParameters(call))
<1>1. Len(call.args) \in Nat /\ DOMAIN call.args = 1..Len(call.args) /\ n - 1 \in 0..Len(call.args)
  BY DEF IsCall
<1>2. a \in Nat
  <2>1. HandedUpTo(call, n - 1) \in Seq(HandedArgument)
    BY <1>1, HandedUpToIs
  <2> QED BY <2>1
<1>3. k \in Nat \ {0} /\ k >= a + 1
  <2> HIDE DEF a
  <2> QED BY <1>2
<1>4. most \in Nat
  BY Parameters
<1> HIDE DEF k, most, a
<1>5. CASE ~Loose(call, n)
  <2>1. ~Consumed(call, n - 1)
    BY <1>5 DEF Loose, Consumed, HasLength
  <2>2. Consumed(call, n - 1) = FALSE
    BY <2>1 DEF Consumed
  <2> QED BY <1>3, <1>5, <2>2, NextParameter DEF k, a
<1>6. CASE Loose(call, n) /\ Consumed(call, n - 1)
  <2>1. Consumed(call, n - 1) = TRUE
    BY <1>6 DEF Consumed
  <2> QED BY <1>3, <1>6, <2>1, NextParameter DEF k, a
<1>7. CASE Loose(call, n) /\ ~Consumed(call, n - 1)
  <2>1. PICK j \in 1..(n - 1) : call.args[j].spread /\ ~HasLength(call.args[j])
    BY <1>7 DEF Loose
  <2>2. ~isTuple(call.args[j].type)
    BY <1>7, <2>1 DEF Consumed, HasLength
  <2>3. j \in DOMAIN call.args /\ j - 1 \in 0..(n - 1)
    BY <1>1
  <2> DEFINE b == Len(HandedUpTo(call, j - 1))
  <2>4. RestTypes(call) # <<>> /\ b + 1 >= most
    BY <2>1, <2>2, <2>3 DEF IsCall, most
  <2>5. b <= a
    BY <1>1, <2>3, HandedUpToGrows DEF a
  <2>6. b \in Nat
    <3>1. j - 1 \in 0..Len(call.args)
      BY <1>1, <2>3
    <3>2. HandedUpTo(call, j - 1) \in Seq(HandedArgument)
      BY <3>1, HandedUpToIs
    <3> QED BY <3>2
  <2> HIDE DEF b
  <2>7. k >= most
    BY <1>2, <1>3, <1>4, <2>4, <2>5, <2>6
  <2>8. Consumed(call, n - 1) = FALSE
    BY <1>7 DEF Consumed
  <2> QED BY <1>3, <1>7, <2>4, <2>7, <2>8, NextParameter DEF most, k, a
<1> QED BY <1>5, <1>6, <1>7

(* The pairs that the arguments up to the n-th should be compared as. *)
ElementPair(call, handed, place) ==
  [arg |-> handed.arg, sender |-> handed.type,
   receiver |-> TakenBy(call, IF handed.loose THEN Len(AllParameters(call)) + 1 ELSE place)]
PairsUpTo(call, n) ==
  LET given == HandedUpTo(call, n) IN {ElementPair(call, given[k], k) : k \in 1..Len(given)}
WalkUpTo(call, n) == Walk(Len(HandedUpTo(call, n)), Consumed(call, n), PairsUpTo(call, n))

LEMMA PairsGrow ==
  ASSUME NEW call, IsCall(call), NEW n \in 1..Len(call.args)
  PROVE  LET a == Len(HandedUpTo(call, n - 1))
             more == Handed(call, n)
         IN  /\ a \in Nat /\ Len(more) \in Nat /\ Len(HandedUpTo(call, n)) = a + Len(more)
             /\ PairsUpTo(call, n) = PairsUpTo(call, n - 1)
                  \cup {Pair(call, n, more[m].type, a + m, Consumed(call, n - 1)) : m \in 1..Len(more)}
<1> DEFINE before == HandedUpTo(call, n - 1)
           more == Handed(call, n)
           a == Len(before)
           b == Len(more)
           now == HandedUpTo(call, n)
           e(h, k) == ElementPair(call, h, k)
           c == Consumed(call, n - 1)
           q(m) == Pair(call, n, more[m].type, a + m, c)
<1>1. n - 1 \in 0..Len(call.args) /\ n \in DOMAIN call.args
  BY DEF IsCall
<1>2. before \in Seq(HandedArgument) /\ more \in Seq(HandedArgument) /\ now = before \o more
  BY <1>1, HandedUpToIs, HandedIs
<1>3. \A m \in 1..b : e(more[m], a + m) = q(m)
  <2> SUFFICES ASSUME NEW m \in 1..b PROVE e(more[m], a + m) = q(m)
    OBVIOUS
  <2>1. more[m].arg = n /\ more[m].loose = Loose(call, n)
    BY <1>1, HandedIs
  <2>2. b \in Nat
    <3> HIDE DEF more
    <3> QED BY <1>2
  <2>3. m \in Nat \ {0}
    BY <2>2
  <2>4. ParameterAt(call, a + m, c) = TakenBy(call, IF Loose(call, n) THEN Len(AllParameters(call)) + 1 ELSE a + m)
    BY <2>3, ReceiverIs
  <2> HIDE DEF a, c, more
  <2> QED BY <2>1, <2>4 DEF ElementPair, Pair
<1> HIDE DEF before, more, now
<1>4. /\ a \in Nat /\ b \in Nat /\ Len(now) = a + b
      /\ \A k \in 1..(a + b) : now[k] = IF k <= a THEN before[k] ELSE more[k - a]
  BY <1>2
<1> HIDE DEF a, b
<1>5. /\ 1..(a + b) = 1..a \cup {a + m : m \in 1..b}
      /\ \A k \in 1..a : k <= a /\ k \in 1..(a + b)
      /\ \A m \in 1..b : ~(a + m <= a) /\ a + m \in 1..(a + b) /\ (a + m) - a = m
  <2>1. ASSUME NEW k \in 1..(a + b), k \notin 1..a PROVE k - a \in 1..b /\ a + (k - a) = k
    BY <1>4, <2>1
  <2>2. /\ \A k \in 1..a : k <= a /\ k \in 1..(a + b)
        /\ \A m \in 1..b : ~(a + m <= a) /\ a + m \in 1..(a + b) /\ (a + m) - a = m
    BY <1>4
  <2>3. ASSUME NEW k \in 1..(a + b) PROVE k \in 1..a \cup {a + m : m \in 1..b}
    <3>1. CASE k \in 1..a
      BY <3>1
    <3>2. CASE k \notin 1..a
      <4>1. k - a \in 1..b /\ a + (k - a) = k
        BY <2>1, <3>2
      <4> QED BY <4>1
    <3> QED BY <3>1, <3>2
  <2> QED BY <2>2, <2>3
<1> HIDE DEF e, q
<1>6. {e(now[k], k) : k \in 1..(a + b)} = {e(before[k], k) : k \in 1..a} \cup {q(m) : m \in 1..b}
  <2>1. \A k \in 1..a : now[k] = before[k]
    BY <1>4, <1>5
  <2>2. \A m \in 1..b : now[a + m] = more[m]
    BY <1>4, <1>5
  <2>3. \A m \in 1..b : e(now[a + m], a + m) = q(m)
    BY <2>2, <1>3
  <2>4. \A k \in 1..a : e(now[k], k) = e(before[k], k)
    BY <2>1
  <2> QED BY <2>3, <2>4, <1>5
<1>7. PairsUpTo(call, n) = {e(now[k], k) : k \in 1..(a + b)}
  BY <1>4 DEF PairsUpTo, e, now
<1>8. PairsUpTo(call, n - 1) = {e(before[k], k) : k \in 1..a}
  BY DEF PairsUpTo, e, before, a
<1>9. PairsUpTo(call, n) = PairsUpTo(call, n - 1) \cup {q(m) : m \in 1..b}
  BY <1>6, <1>7, <1>8
<1> QED BY <1>4, <1>9 DEF now, a, b, before, more, q

(* One argument takes the walk from what is known before it to what is known   *)
(* behind it.                                                                *)
LEMMA ArgumentIs ==
  ASSUME NEW call, IsCall(call), NEW n \in 1..Len(call.args)
  PROVE  checkArgument(call, WalkUpTo(call, n - 1), n) = WalkUpTo(call, n)
<1> DEFINE arg == call.args[n]
           a == Len(HandedUpTo(call, n - 1))
           c == Consumed(call, n - 1)
           P == PairsUpTo(call, n - 1)
           more == Handed(call, n)
           q(t, m) == Pair(call, n, t, a + m, c)
<1>1. a \in Nat /\ Len(more) \in Nat /\ Len(HandedUpTo(call, n)) = a + Len(more)
      /\ PairsUpTo(call, n) = P \cup {q(more[m].type, m) : m \in 1..Len(more)}
  BY PairsGrow
<1>2. n \in DOMAIN call.args
  BY DEF IsCall
<1>3. c \in BOOLEAN /\ arg.open \in BOOLEAN /\ arg.spread \in BOOLEAN
  <2> DEFINE args == call.args
             Argument == [spread : BOOLEAN, type : Types, open : BOOLEAN, bare : BOOLEAN]
  <2>1. args \in Seq(Argument)
    BY DEF IsCall
  <2> HIDE DEF Argument
  <2>2. args[n] \in Argument
    <3> HIDE DEF args
    <3>1. n \in DOMAIN args
      BY <1>2 DEF args
    <3> QED BY <2>1, <3>1
  <2> QED BY <2>2 DEF Argument, Consumed
<1>4. Consumed(call, n) = (c \/ (arg.spread /\ isTuple(arg.type) /\ arg.open))
  <2>1. 1..n = 1..(n - 1) \cup {n}
    <3>1. n \in Nat \ {0}
      BY DEF IsCall
    <3> QED BY <3>1
  <2> QED BY <2>1 DEF Consumed
<1>5. WalkUpTo(call, n - 1) = Walk(a, c, P)
      /\ WalkUpTo(call, n) = Walk(a + Len(more), Consumed(call, n), P \cup {q(more[m].type, m) : m \in 1..Len(more)})
  BY <1>1 DEF WalkUpTo
<1> HIDE DEF a, c, P
<1>6. CASE ~arg.spread
  <2>1. Len(more) = 1 /\ more[1].type = arg.type
    BY <1>2, <1>6, HandedIs
  <2>2. Consumed(call, n) = c
    BY <1>3, <1>4, <1>6 DEF Consumed
  <2>3. checkArgument(call, Walk(a, c, P), n) = Walk(a + 1, c, P \cup {q(arg.type, 1)})
    <3>1. Compare(call, Walk(a, c, P), n, arg.type) = Walk(a + 1, c, P \cup {Pair(call, n, arg.type, a + 1, c)})
      BY <1>1, CompareIs
    <3> QED BY <1>6, <3>1 DEF checkArgument
  <2>4. {q(more[m].type, m) : m \in 1..Len(more)} = {q(arg.type, 1)}
    <3>1. 1..1 = {1}
      OBVIOUS
    <3> HIDE DEF q, more
    <3> QED BY <2>1, <3>1
  <2> QED BY <1>5, <2>1, <2>2, <2>3, <2>4
<1>7. CASE arg.spread /\ isTuple(arg.type)
  <2> DEFINE el == arg.type.args
  <2>1. Len(more) = Len(el) /\ \A m \in 1..Len(more) : more[m].type = el[m]
    BY <1>2, <1>7, HandedIs
  <2>2. Consumed(call, n) = (c \/ arg.open)
    BY <1>4, <1>7
  <2>3. checkSpread(call, Walk(a, c, P), n)
          = Walk(a + Len(el), c \/ arg.open, P \cup SpreadPairs(call, n, a, c))
    <3>1. isTuple(call.args[n].type)
      BY <1>7
    <3>2. checkSpread(call, Walk(a, c, P), n) = SpreadWalk(call, n, a, c, P)
      BY <1>1, <1>2, <1>3, <3>1, SpreadIs
    <3> QED BY <3>2 DEF SpreadWalk
  <2>4. checkArgument(call, Walk(a, c, P), n) = checkSpread(call, Walk(a, c, P), n)
    BY <1>7 DEF checkArgument
  <2>5. SpreadPairs(call, n, a, c) = {q(more[m].type, m) : m \in 1..Len(more)}
    <3>1. SpreadPairs(call, n, a, c) = {Pair(call, n, el[m], a + m, c) : m \in 1..Len(el)}
      BY DEF SpreadPairs
    <3> HIDE DEF more, el
    <3> QED BY <2>1, <3>1
  <2> HIDE DEF q, more, el
  <2> QED BY <1>5, <2>1, <2>2, <2>3, <2>4, <2>5 DEF q, el
<1>8. CASE arg.spread /\ ~isTuple(arg.type)
  <2>1. more = <<>> /\ Len(more) = 0
    <3>1. more = <<>>
      BY <1>2, <1>8, HandedIs
    <3> QED BY <3>1
  <2>2. Consumed(call, n) = c
    BY <1>3, <1>4, <1>8 DEF Consumed
  <2>3. checkArgument(call, Walk(a, c, P), n) = Walk(a, c, P)
    BY <1>8 DEF checkArgument, checkSpread
  <2>4. {q(more[m].type, m) : m \in 1..Len(more)} = {}
    <3>1. 1..0 = {}
      OBVIOUS
    <3> HIDE DEF more, q
    <3> QED BY <2>1, <3>1
  <2>5. a + 0 = a
    BY <1>1
  <2> QED BY <1>5, <2>1, <2>2, <2>3, <2>4, <2>5
<1> QED BY <1>3, <1>6, <1>7, <1>8

AddsArguments(walk, call) ==
  walk = [i \in 0..Len(call.args) |-> IF i = 0 THEN AtStart ELSE checkArgument(call, walk[i - 1], i)]

(* A call's pairs are those of all its arguments.                              *)
LEMMA ArgumentsAre ==
  ASSUME NEW call, IsCall(call)
  PROVE  checkArguments(call) = PairsUpTo(call, Len(call.args))
<1> DEFINE N == Len(call.args)
           h == [i \in 0..N |-> WalkUpTo(call, i)]
           g == CHOOSE walk : AddsArguments(walk, call)
<1>1. N \in Nat
  BY DEF IsCall
<1>2. WalkUpTo(call, 0) = AtStart
  <2>1. HandedUpTo(call, 0) = <<>> /\ Len(<<>>) = 0 /\ 1..0 = {}
    BY HandedUpToIs
  <2>2. PairsUpTo(call, 0) = {} /\ Consumed(call, 0) = FALSE
    BY <2>1 DEF PairsUpTo, Consumed
  <2> QED BY <2>1, <2>2 DEF WalkUpTo, AtStart
<1>3. \A n \in 1..N : checkArgument(call, WalkUpTo(call, n - 1), n) = WalkUpTo(call, n)
  BY ArgumentIs
<1>4. \A n \in 1..N : n \in 0..N /\ n - 1 \in 0..N /\ n # 0
  BY <1>1
<1>5. \A n \in 0..N : n # 0 => n \in 1..N
  BY <1>1
<1>6. checkArguments(call) = g[N].pairs
  BY DEF checkArguments, AddsArguments
<1> HIDE DEF N
<1>7. AddsArguments(h, call)
  <2> DEFINE Next1(x, i) == IF i = 0 THEN AtStart ELSE checkArgument(call, x[i - 1], i)
  <2>1. \A n \in 0..N : h[n] = Next1(h, n)
    BY <1>2, <1>3, <1>4, <1>5
  <2>2. h = [i \in 0..N |-> Next1(h, i)]
    <3> HIDE DEF Next1
    <3> QED BY <2>1
  <2> QED BY <2>2 DEF AddsArguments, N
<1>8. g = [i \in 0..N |-> IF i = 0 THEN AtStart ELSE checkArgument(call, g[i - 1], i)]
  <2>1. AddsArguments(g, call)
    BY <1>7
  <2> QED BY <2>1 DEF AddsArguments, N
<1> HIDE DEF g
<1>9. \A n \in 0..N : g[n] = h[n]
  <2>1. 0 \in 0..N
    BY <1>1
  <2>2. g[0] = h[0]
    BY <2>1, <1>2, <1>8
  <2>3. \A n \in 1..N : g[n - 1] = h[n - 1] => g[n] = h[n]
    BY <1>3, <1>4, <1>8
  <2>4. SameSteps(g, h, N)
    BY <2>2, <2>3 DEF SameSteps
  <2> QED BY ONLY <1>1, <2>4, SameLoop
<1>10. g[N] = WalkUpTo(call, N)
  <2>1. N \in 0..N
    BY <1>1
  <2> QED BY <2>1, <1>9
<1> QED BY <1>6, <1>10 DEF N, WalkUpTo, Walk

(* Every flow under way is one the program has.                                *)
FlowsAreGiven == Of("call") \subseteq Calls /\ Of("return") \subseteq Returns /\ Of("chain") \subseteq Chains

LEMMA FlowsStayGiven == AnySpec => []FlowsAreGiven
<1>1. AnyInit => FlowsAreGiven
  BY DEF AnyInit, FlowsAreGiven, Of
<1>2. FlowsAreGiven /\ [AnyNext]_anyVars => FlowsAreGiven'
  <2> SUFFICES ASSUME FlowsAreGiven, [AnyNext]_anyVars PROVE FlowsAreGiven'
    OBVIOUS
  <2>1. CASE FollowArguments
    BY <2>1 DEF FollowArguments, FlowsAreGiven, Of
  <2>2. CASE FollowReturn
    BY <2>2 DEF FollowReturn, FlowsAreGiven, Of
  <2>3. CASE FollowChain
    BY <2>3 DEF FollowChain, FlowsAreGiven, Of
  <2>4. CASE FollowAssertion
    BY <2>4 DEF FollowAssertion, FlowsAreGiven, Of
  <2>5. CASE UNCHANGED anyVars
    BY <2>5 DEF anyVars, FlowsAreGiven, Of
  <2> QED BY <2>1, <2>2, <2>3, <2>4, <2>5 DEF AnyNext
<1> QED BY <1>1, <1>2, PTL DEF AnySpec

(* Whatever is called with whatever arguments, no-unsafe-argument compares each *)
(* element with the parameter that takes it.                                 *)
THEOREM EveryArgumentMeetsItsParameter == AnySpec => []ArgumentsMeetTheirParameter
<1>1. FlowsAreGiven => ArgumentsMeetTheirParameter
  <2> SUFFICES ASSUME FlowsAreGiven, NEW call \in Of("call")
               PROVE  LET given == HandedOver(call)
                          last == Len(AllParameters(call)) + 1
                      IN  checkArguments(call) =
                            {[arg |-> given[k].arg, sender |-> given[k].type,
                              receiver |-> TakenBy(call, IF given[k].loose THEN last ELSE k)]
                             : k \in DOMAIN given}
    BY DEF ArgumentsMeetTheirParameter
  <2>1. IsCall(call)
    BY FlowsAssumption DEF FlowsAreGiven
  <2>2. checkArguments(call) = PairsUpTo(call, Len(call.args))
    BY <2>1, ArgumentsAre
  <2> DEFINE given == HandedOver(call)
  <2>3. DOMAIN given = 1..Len(given)
    <3>1. Len(call.args) \in 0..Len(call.args)
      BY <2>1 DEF IsCall
    <3>2. given \in Seq(HandedArgument)
      BY <2>1, <3>1, HandedUpToIs DEF HandedOver
    <3> HIDE DEF given
    <3> QED BY <3>2
  <2>4. PairsUpTo(call, Len(call.args)) = {ElementPair(call, given[k], k) : k \in DOMAIN given}
    BY <2>3 DEF PairsUpTo, HandedOver
  <2> QED BY <2>2, <2>4 DEF ElementPair
<1> QED BY <1>1, FlowsStayGiven, PTL

-----------------------------------------------------------------------------
(* Recursion over types.                                                      *)

LEMMA UpToNesting ==
  ASSUME NEW S, 0 \in S, \A k \in 0..(Nesting - 1) : k \in S => k + 1 \in S
  PROVE  \A k \in 0..Nesting : k \in S
<1>1. Nesting \in Nat
  BY NestingAssumption
<1>2. ASSUME NEW n \in 1..Nesting, \A m \in 1..(n - 1) : m \in S PROVE n \in S
  <2>1. n - 1 \in 0..(Nesting - 1) /\ (n - 1) + 1 = n
    BY <1>1
  <2>2. n - 1 = 0 \/ n - 1 \in 1..(n - 1)
    BY <1>1
  <2>3. n - 1 \in S
    BY <2>2, <1>2
  <2> QED BY <2>1, <2>3
<1>3. 1..Nesting \subseteq S
  BY <1>1, <1>2, FromBelow
<1>4. \A k \in 0..Nesting : k = 0 \/ k \in 1..Nesting
  BY <1>1
<1> QED BY <1>3, <1>4

LEMMA OneUp == \A k \in 0..(Nesting - 1) : Rows[k] \subseteq Rows[k + 1]
<1> SUFFICES ASSUME NEW k \in 0..(Nesting - 1) PROVE Rows[k] \subseteq Rows[k + 1]
  OBVIOUS
<1>1. k + 1 \in 1..Nesting /\ (k + 1) - 1 = k
  BY NestingAssumption
<1> QED BY <1>1, RowsGrow

(* What a type is made of lies one level below it.                             *)
LEMMA Below ==
  ASSUME NEW k \in 0..(Nesting - 1), NEW t \in Rows[k + 1]
  PROVE  /\ RowOver(t, Rows[k]) /\ k \in 0..Nesting /\ k + 1 \in 0..Nesting
         /\ t.args \in Seq(Rows[k]) /\ \A i \in DOMAIN t.args : t.args[i] \in Rows[k]
         /\ \A m \in SeqElements(t.parts) : m \in Rows[k]
         /\ constraintOf(t) \in Rows[k] \cup {NoType}
<1>1. k + 1 \in 1..Nesting /\ (k + 1) - 1 = k /\ k \in 0..Nesting /\ k + 1 \in 0..Nesting
  BY NestingAssumption
<1>2. Rows[k + 1] = RowsOver(Rows[k])
  BY <1>1, RowsAre
<1> DEFINE S == Rows[k]
<1>3. RowOver(t, S)
  BY <1>2, RowIs
<1> HIDE DEF S
<1>4. <<>> \in Seq(S)
  OBVIOUS
<1>5. t.args \in Seq(S)
  BY <1>3, <1>4 DEF RowOver, LeafRow
<1>6. \A i \in DOMAIN t.args : t.args[i] \in S
  BY <1>5
<1>7. t.parts \in Seq(S)
  <2> DEFINE M == {m \in S : ~isAnyLike(m) /\ "Union" \notin m.flags}
  <2>1. t.parts = <<>> \/ t.parts \in Seq(M)
    BY <1>3 DEF RowOver, LeafRow
  <2>2. M \subseteq S
    OBVIOUS
  <2> HIDE DEF M
  <2> QED BY <1>4, <2>1, <2>2, SeqMonotonic
<1>8. \A m \in SeqElements(t.parts) : m \in S
  BY <1>7 DEF SeqElements
<1>9. constraintOf(t) \in S \cup {NoType}
  BY <1>3 DEF RowOver, LeafRow, constraintOf, isTypeParameter
<1> QED BY <1>1, <1>3, <1>5, <1>6, <1>8, <1>9 DEF S

LEMMA LevelsAreTypes == \A k \in 0..Nesting : Rows[k] \subseteq Types
<1> DEFINE S == {n \in 0..Nesting : Rows[Nesting - n] \subseteq Types}
<1>1. Nesting \in Nat
  BY NestingAssumption
<1>2. 0 \in S
  <2>1. Nesting - 0 = Nesting
    BY <1>1
  <2> QED BY <1>1, <2>1 DEF Types
<1>3. ASSUME NEW n \in 0..(Nesting - 1), n \in S PROVE n + 1 \in S
  <2>1. Nesting - (n + 1) \in 0..(Nesting - 1) /\ (Nesting - (n + 1)) + 1 = Nesting - n /\ n + 1 \in 0..Nesting
    BY <1>1
  <2>2. Rows[Nesting - (n + 1)] \subseteq Rows[Nesting - n]
    BY <2>1, OneUp
  <2> QED BY <1>3, <2>1, <2>2
<1> HIDE DEF S
<1>4. \A n \in 0..Nesting : n \in S
  BY <1>2, <1>3, UpToNesting
<1>5. \A k \in 0..Nesting : Nesting - k \in 0..Nesting /\ Nesting - (Nesting - k) = k
  BY <1>1
<1>6. \A k \in 0..Nesting : Nesting - k \in S
  BY <1>4, <1>5
<1> QED BY <1>5, <1>6 DEF S

LEMMA UnsafeIs ==
  \A s \in Types : isUnsafeAssignmentWorker[s] =
    [r \in Types |->
       IF isAny(s) /\ isUnknown(r) THEN FALSE
       ELSE \/ isAny(s) /\ ~isAny(r)
            \/ /\ s.of # "" /\ s.of = r.of
               /\ \E i \in DOMAIN s.args \cap DOMAIN r.args : isUnsafeAssignmentWorker[s.args[i]][r.args[i]]]
<1> DEFINE B(f, s, r) == IF isAny(s) /\ isUnknown(r) THEN FALSE
                         ELSE \/ isAny(s) /\ ~isAny(r)
                              \/ /\ s.of # "" /\ s.of = r.of
                                 /\ \E i \in DOMAIN s.args \cap DOMAIN r.args : f[s.args[i]][r.args[i]]
           E(f, s) == [r \in Types |-> B(f, s, r)]
           Known(k) == \E f : f = [s \in Rows[k] |-> E(f, s)]
           S == {k \in 0..Nesting : Known(k)}
<1>1. Known(0)
  <2> DEFINE f == [s \in {} |-> 0]
  <2> HIDE DEF E
  <2>1. f = [s \in Rows[0] |-> E(f, s)]
    BY RowsAre
  <2> QED BY <2>1
<1>2. ASSUME NEW k \in 0..(Nesting - 1), Known(k) PROVE Known(k + 1)
  <2>1. PICK f : f = [s \in Rows[k] |-> E(f, s)]
    BY <1>2
  <2> DEFINE g == [s \in Rows[k + 1] |-> E(f, s)]
  <2>2. \A s \in Rows[k] : g[s] = f[s]
    <3> HIDE DEF E
    <3>1. \A s \in Rows[k] : f[s] = E(f, s) /\ s \in Rows[k + 1]
      BY <2>1, OneUp
    <3> QED BY <3>1
  <2>3. \A s \in Rows[k + 1] : E(g, s) = E(f, s)
    <3> SUFFICES ASSUME NEW s \in Rows[k + 1] PROVE E(g, s) = E(f, s)
      OBVIOUS
    <3>1. \A i \in DOMAIN s.args : g[s.args[i]] = f[s.args[i]]
      <4> HIDE DEF g
      <4> QED BY <2>2, Below
    <3> HIDE DEF g
    <3>2. \A r \in Types : B(g, s, r) = B(f, s, r)
      BY <3>1
    <3> HIDE DEF B
    <3> QED BY <3>2
  <2>4. g = [s \in Rows[k + 1] |-> E(g, s)]
    <3> HIDE DEF E
    <3> QED BY <2>3
  <2> QED BY <2>4
<1>3. Known(Nesting)
  <2>1. 0 \in S
    <3> HIDE DEF Known
    <3> QED BY <1>1, NestingAssumption
  <2>2. \A k \in 0..(Nesting - 1) : k \in S => k + 1 \in S
    <3> HIDE DEF Known
    <3> QED BY <1>2, NestingAssumption
  <2>3. Nesting \in S
    <3> HIDE DEF S
    <3> QED BY <2>1, <2>2, UpToNesting, NestingAssumption
  <2> HIDE DEF Known
  <2> QED BY <2>3
<1>4. isUnsafeAssignmentWorker = [s \in Types |-> E(isUnsafeAssignmentWorker, s)]
  BY <1>3 DEF isUnsafeAssignmentWorker, Types
<1> HIDE DEF E
<1>5. \A s \in Types : isUnsafeAssignmentWorker[s] = E(isUnsafeAssignmentWorker, s)
  BY <1>4
<1> QED BY <1>5 DEF E

LEMMA LeaksIs ==
  \A s \in MaybeType : Leaks[s] =
    [r \in MaybeType |->
       \/ isAny(s) /\ ~isAnyLike(r)
       \/ s.of # "" /\ s.of = r.of
          /\ \E i \in DOMAIN s.args \cap DOMAIN r.args : Leaks[s.args[i]][r.args[i]]]
<1> DEFINE B(f, s, r) == \/ isAny(s) /\ ~isAnyLike(r)
                         \/ s.of # "" /\ s.of = r.of
                            /\ \E i \in DOMAIN s.args \cap DOMAIN r.args : f[s.args[i]][r.args[i]]
           E(f, s) == [r \in MaybeType |-> B(f, s, r)]
           L(k) == Rows[k] \cup {NoType}
           Known(k) == \E f : f = [s \in L(k) |-> E(f, s)]
           S == {k \in 0..Nesting : Known(k)}
<1>0. DOMAIN NoType.args = {}
  BY DEF NoType, Type
<1>1. Known(0)
  <2> DEFINE none == [r \in MaybeType |-> FALSE]
             f == [s \in {NoType} |-> none]
  <2>1. L(0) = {NoType}
    BY RowsAre
  <2>2. E(f, NoType) = none
    <3> HIDE DEF f
    <3>1. \A r \in MaybeType : B(f, NoType, r) = FALSE
      BY DEF NoType, Type, isAny
    <3> HIDE DEF B
    <3> QED BY <3>1
  <2> HIDE DEF E, L, none
  <2>3. f = [s \in L(0) |-> E(f, s)]
    BY <2>1, <2>2
  <2> QED BY <2>3
<1>2. ASSUME NEW k \in 0..(Nesting - 1), Known(k) PROVE Known(k + 1)
  <2>1. PICK f : f = [s \in L(k) |-> E(f, s)]
    BY <1>2
  <2> DEFINE g == [s \in L(k + 1) |-> E(f, s)]
  <2>2. \A s \in L(k) : g[s] = f[s]
    <3> HIDE DEF E
    <3>1. \A s \in L(k) : f[s] = E(f, s) /\ s \in L(k + 1)
      BY <2>1, OneUp
    <3> QED BY <3>1
  <2>3. \A s \in L(k + 1) : E(g, s) = E(f, s)
    <3> SUFFICES ASSUME NEW s \in L(k + 1) PROVE E(g, s) = E(f, s)
      OBVIOUS
    <3>1. \A i \in DOMAIN s.args : s.args[i] \in L(k)
      BY <1>0, Below
    <3>2. \A i \in DOMAIN s.args : g[s.args[i]] = f[s.args[i]]
      <4> HIDE DEF g, L
      <4> QED BY <2>2, <3>1
    <3> HIDE DEF g
    <3>3. \A r \in MaybeType : B(g, s, r) = B(f, s, r)
      BY <3>2
    <3> HIDE DEF B
    <3> QED BY <3>3
  <2>4. g = [s \in L(k + 1) |-> E(g, s)]
    <3> HIDE DEF E, L
    <3> QED BY <2>3
  <2> QED BY <2>4
<1>3. Known(Nesting)
  <2>1. 0 \in S
    <3> HIDE DEF Known
    <3> QED BY <1>1, NestingAssumption
  <2>2. \A k \in 0..(Nesting - 1) : k \in S => k + 1 \in S
    <3> HIDE DEF Known
    <3> QED BY <1>2, NestingAssumption
  <2>3. Nesting \in S
    <3> HIDE DEF S
    <3> QED BY <2>1, <2>2, UpToNesting, NestingAssumption
  <2> HIDE DEF Known
  <2> QED BY <2>3
<1>4. Leaks = [s \in MaybeType |-> E(Leaks, s)]
  BY <1>3 DEF Leaks, MaybeType, Types
<1> HIDE DEF E
<1>5. \A s \in MaybeType : Leaks[s] = E(Leaks, s)
  BY <1>4
<1> QED BY <1>5 DEF E

(* What a thenable hands to its callback lies below it.                        *)
LEMMA ThenValueIs ==
  ASSUME NEW k \in 0..(Nesting - 1), NEW t \in Rows[k + 1]
  PROVE  thenValueType(t) \in Rows[k] \cup {NoType}
<1> DEFINE a == apparentType(t)
           parts == IF unionMembers(a) = <<>> THEN <<a>> ELSE unionMembers(a)
           having == {i \in DOMAIN parts : HasThen[parts[i]][1] /\ parts[i].args # <<>>}
           first == CHOOSE i \in having : \A j \in having : i <= j
<1>1. a \in Rows[k + 1]
  BY Below, OneUp DEF apparentType
<1>2. \A i \in DOMAIN parts : i \in Nat /\ parts[i] \in Rows[k + 1]
  <2>1. CASE a.parts = <<>>
    <3>1. parts = <<a>>
      BY <2>1 DEF unionMembers
    <3> HIDE DEF a, parts
    <3> QED BY <1>1, <3>1
  <2>2. CASE a.parts # <<>>
    <3>1. parts = a.parts
      BY <2>2 DEF unionMembers
    <3>2. \A i \in DOMAIN a.parts : a.parts[i] \in Rows[k + 1]
      BY <1>1, Below, OneUp DEF SeqElements
    <3>3. DOMAIN a.parts \subseteq Nat
      <4>1. RowOver(a, Rows[k])
        BY <1>1, Below
      <4>2. a.parts \in Seq({m \in Rows[k] : ~isAnyLike(m) /\ "Union" \notin m.flags})
        BY <2>2, <4>1 DEF RowOver, LeafRow
      <4> DEFINE p == a.parts
      <4> HIDE DEF p
      <4>3. DOMAIN p = 1..Len(p) /\ Len(p) \in Nat
        BY <4>2 DEF p
      <4> QED BY <4>3 DEF p
    <3> HIDE DEF a, parts
    <3> QED BY <3>1, <3>2, <3>3
  <2> QED BY <2>1, <2>2
<1>3. thenValueType(t) = IF having = {} THEN NoType ELSE parts[first].args[1]
  BY DEF thenValueType
<1>4. CASE having # {}
  <2>1. having \in SUBSET Nat
    BY <1>2
  <2> HIDE DEF having, parts
  <2>2. \E i \in having : \A j \in having : i <= j
    BY <2>1, <1>4, LeastNumber
  <2>3. first \in having
    BY <2>2
  <2> HIDE DEF first
  <2>4. parts[first].args # <<>> /\ parts[first] \in Rows[k + 1]
    BY <2>3, <1>2 DEF having
  <2>5. parts[first].args \in Seq(Rows[k])
    BY <2>4, Below
  <2> DEFINE args == parts[first].args
  <2>6. args[1] \in Rows[k]
    <3> HIDE DEF args
    <3>1. args \in Seq(Rows[k]) /\ args # <<>>
      BY <2>4, <2>5 DEF args
    <3> QED BY <3>1
  <2> QED BY <1>3, <1>4, <2>6
<1> QED BY <1>3, <1>4

LEMMA AwaitedIs ==
  \A t \in MaybeType : awaitedType[t] =
    IF t = NoType \/ isAnyLike(t) THEN t
    ELSE IF "Union" \in t.flags
    THEN LET awaited == {awaitedType[m] : m \in SeqElements(t.parts)}
         IN  IF Cardinality(awaited) = 1 THEN CHOOSE a \in awaited : TRUE ELSE NoType
    ELSE IF isThenable(t, 1) THEN awaitedType[thenValueType(t)] ELSE t
<1> DEFINE One(A) == IF Cardinality(A) = 1 THEN CHOOSE a \in A : TRUE ELSE NoType
           E(f, t) == IF t = NoType \/ isAnyLike(t) THEN t
                      ELSE IF "Union" \in t.flags THEN One({f[m] : m \in SeqElements(t.parts)})
                      ELSE IF isThenable(t, 1) THEN f[thenValueType(t)] ELSE t
           L(k) == Rows[k] \cup {NoType}
           Known(k) == \E f : f = [t \in L(k) |-> E(f, t)]
           S == {k \in 0..Nesting : Known(k)}
<1>1. Known(0)
  <2> DEFINE f == [t \in {NoType} |-> NoType]
  <2>1. L(0) = {NoType}
    BY RowsAre
  <2>2. E(f, NoType) = NoType
    OBVIOUS
  <2> HIDE DEF E, L
  <2>3. f = [t \in L(0) |-> E(f, t)]
    BY <2>1, <2>2
  <2> QED BY <2>3
<1>2. ASSUME NEW k \in 0..(Nesting - 1), Known(k) PROVE Known(k + 1)
  <2>1. PICK f : f = [t \in L(k) |-> E(f, t)]
    BY <1>2
  <2> DEFINE g == [t \in L(k + 1) |-> E(f, t)]
  <2>2. \A t \in L(k) : g[t] = f[t]
    <3> HIDE DEF E
    <3>1. \A t \in L(k) : f[t] = E(f, t) /\ t \in L(k + 1)
      BY <2>1, OneUp
    <3> QED BY <3>1
  <2>3. \A t \in L(k + 1) : E(g, t) = E(f, t)
    <3> SUFFICES ASSUME NEW t \in Rows[k + 1] PROVE E(g, t) = E(f, t)
      OBVIOUS
    <3>1. g[thenValueType(t)] = f[thenValueType(t)]
      <4> HIDE DEF g
      <4> QED BY <2>2, ThenValueIs
    <3>2. \A m \in SeqElements(t.parts) : g[m] = f[m]
      <4> HIDE DEF g
      <4> QED BY <2>2, Below
    <3> HIDE DEF g
    <3>3. {g[m] : m \in SeqElements(t.parts)} = {f[m] : m \in SeqElements(t.parts)}
      BY <3>2
    <3> HIDE DEF One
    <3> QED BY <3>1, <3>3
  <2>4. g = [t \in L(k + 1) |-> E(g, t)]
    <3> HIDE DEF E, L
    <3> QED BY <2>3
  <2> QED BY <2>4
<1>3. Known(Nesting)
  <2>1. 0 \in S
    <3> HIDE DEF Known
    <3> QED BY <1>1, NestingAssumption
  <2>2. \A k \in 0..(Nesting - 1) : k \in S => k + 1 \in S
    <3> HIDE DEF Known
    <3> QED BY <1>2, NestingAssumption
  <2>3. Nesting \in S
    <3> HIDE DEF S
    <3> QED BY <2>1, <2>2, UpToNesting, NestingAssumption
  <2> HIDE DEF Known
  <2> QED BY <2>3
<1>4. awaitedType = [t \in MaybeType |-> E(awaitedType, t)]
  BY <1>3 DEF awaitedType, MaybeType, Types
<1> HIDE DEF E
<1>5. \A t \in MaybeType : awaitedType[t] = E(awaitedType, t)
  BY <1>4
<1> QED BY <1>5 DEF E

(* What is awaited is a type, or nothing.                                      *)
LEMMA AwaitedIsType == \A t \in MaybeType : awaitedType[t] \in MaybeType
<1> DEFINE L(k) == Rows[k] \cup {NoType}
           S == {k \in 0..Nesting : \A t \in L(k) : awaitedType[t] \in MaybeType}
           One(A) == IF Cardinality(A) = 1 THEN CHOOSE a \in A : TRUE ELSE NoType
<1>1. ASSUME NEW A \in SUBSET MaybeType, A # {} PROVE One(A) \in MaybeType
  <2>1. (CHOOSE a \in A : TRUE) \in A
    BY <1>1
  <2> QED BY <2>1 DEF MaybeType
<1>2. 0 \in S
  <2>1. awaitedType[NoType] = NoType
    BY AwaitedIs DEF MaybeType
  <2> QED BY <2>1, RowsAre, NestingAssumption DEF MaybeType
<1>3. ASSUME NEW k \in 0..(Nesting - 1), k \in S PROVE k + 1 \in S
  <2>1. k + 1 \in 0..Nesting
    BY NestingAssumption
  <2> SUFFICES ASSUME NEW t \in L(k + 1) PROVE awaitedType[t] \in MaybeType
    BY <2>1
  <2>2. CASE t = NoType
    <3>1. NoType \in L(k)
      OBVIOUS
    <3> QED BY <1>3, <2>2, <3>1
  <2>3. CASE t \in Rows[k + 1]
    <3>1. t \in MaybeType
      <4>1. Rows[k + 1] \subseteq Types
        BY LevelsAreTypes, <2>1
      <4> QED BY <2>3, <4>1 DEF MaybeType
    <3>2. awaitedType[t] = IF t = NoType \/ isAnyLike(t) THEN t
                           ELSE IF "Union" \in t.flags THEN One({awaitedType[m] : m \in SeqElements(t.parts)})
                           ELSE IF isThenable(t, 1) THEN awaitedType[thenValueType(t)] ELSE t
      BY <3>1, AwaitedIs
    <3>3. awaitedType[thenValueType(t)] \in MaybeType
      BY <2>3, <1>3, ThenValueIs
    <3>4. ASSUME "Union" \in t.flags
          PROVE  One({awaitedType[m] : m \in SeqElements(t.parts)}) \in MaybeType
      <4> DEFINE A == {awaitedType[m] : m \in SeqElements(t.parts)}
      <4>1. A \in SUBSET MaybeType
        <5>1. \A m \in SeqElements(t.parts) : m \in L(k)
          BY <2>3, Below
        <5> QED BY <5>1, <1>3
      <4>2. A # {}
        <5>1. t.parts \in Seq({m \in Rows[k] : ~isAnyLike(m) /\ "Union" \notin m.flags}) /\ t.parts # <<>>
          BY <2>3, <3>4, Below, FlagsTell
        <5> DEFINE p == t.parts
        <5>2. 1 \in DOMAIN p
          <6> HIDE DEF p
          <6>1. p \in Seq({m \in Rows[k] : ~isAnyLike(m) /\ "Union" \notin m.flags}) /\ p # <<>>
            BY <5>1 DEF p
          <6> QED BY <6>1
        <5>3. p[1] \in SeqElements(t.parts)
          BY <5>2 DEF SeqElements
        <5> QED BY <5>3
      <4> HIDE DEF A, One
      <4>3. One(A) \in MaybeType
        BY <1>1, <4>1, <4>2
      <4> QED BY <4>3 DEF A
    <3> HIDE DEF One
    <3> QED BY <3>1, <3>2, <3>3, <3>4
  <2> QED BY <2>2, <2>3
<1>4. Nesting \in S
  <2> HIDE DEF S
  <2> QED BY <1>2, <1>3, UpToNesting, NestingAssumption
<1> QED BY <1>4 DEF MaybeType, Types

(* Nothing leaks into a place that takes anything.                             *)
LEMMA AnythingTakesAll ==
  ASSUME NEW s \in MaybeType, NEW r \in MaybeType, isAnyLike(r)
  PROVE  ~Leaks[s][r]
<1>1. r \in Types
  <2>1. ~isAnyLike(NoType)
    BY DEF NoType, Type, isAnyLike, isAny, isUnknown
  <2> QED BY <2>1 DEF MaybeType
<1>2. r.of = ""
  <2>1. RowOver(r, Types)
    BY <1>1, TypeIs
  <2> QED BY <2>1, FlagsTell
<1>3. s.of # r.of \/ s.of = ""
  BY <1>2
<1> QED BY <1>3, LeaksIs

(* A type leaks nothing into itself.                                           *)
LEMMA SelfTakesAll == \A t \in MaybeType : ~Leaks[t][t]
<1> DEFINE L(k) == Rows[k] \cup {NoType}
           S == {k \in 0..Nesting : \A t \in L(k) : ~Leaks[t][t]}
<1>0. ASSUME NEW t \in MaybeType, \A i \in DOMAIN t.args : ~Leaks[t.args[i]][t.args[i]]
      PROVE  ~Leaks[t][t]
  BY <1>0, LeaksIs DEF isAnyLike
<1>1. ~Leaks[NoType][NoType]
  <2>1. NoType \in MaybeType /\ DOMAIN NoType.args = {}
    BY DEF MaybeType, NoType, Type
  <2> QED BY <2>1, <1>0
<1>2. 0 \in S
  BY <1>1, RowsAre, NestingAssumption
<1>3. ASSUME NEW k \in 0..(Nesting - 1), k \in S PROVE k + 1 \in S
  <2>1. k + 1 \in 0..Nesting
    BY NestingAssumption
  <2> SUFFICES ASSUME NEW t \in Rows[k + 1] PROVE ~Leaks[t][t]
    BY <2>1, <1>1
  <2>2. t \in MaybeType
    BY <2>1, LevelsAreTypes DEF MaybeType
  <2>3. \A i \in DOMAIN t.args : ~Leaks[t.args[i]][t.args[i]]
    BY <1>3, Below
  <2> QED BY <2>2, <2>3, <1>0
<1>4. Nesting \in S
  <2> HIDE DEF S
  <2> QED BY <1>2, <1>3, UpToNesting, NestingAssumption
<1> QED BY <1>4 DEF MaybeType, Types

(* What leaks into a type is unsafe to assign to it.                           *)
LEMMA LeaksAreUnsafe == \A s, r \in Types : Leaks[s][r] => isUnsafeAssignmentWorker[s][r]
<1> DEFINE S == {k \in 0..Nesting : \A s \in Rows[k] : \A r \in Types : Leaks[s][r] => isUnsafeAssignmentWorker[s][r]}
<1>1. 0 \in S
  BY RowsAre, NestingAssumption
<1>2. ASSUME NEW k \in 0..(Nesting - 1), k \in S PROVE k + 1 \in S
  <2>1. k + 1 \in 0..Nesting
    BY NestingAssumption
  <2> SUFFICES ASSUME NEW s \in Rows[k + 1], NEW r \in Types, Leaks[s][r] PROVE isUnsafeAssignmentWorker[s][r]
    BY <2>1
  <2>2. s \in Types
    BY <2>1, LevelsAreTypes
  <2>3. isUnsafeAssignmentWorker[s][r] =
          IF isAny(s) /\ isUnknown(r) THEN FALSE
          ELSE \/ isAny(s) /\ ~isAny(r)
               \/ /\ s.of # "" /\ s.of = r.of
                  /\ \E i \in DOMAIN s.args \cap DOMAIN r.args : isUnsafeAssignmentWorker[s.args[i]][r.args[i]]
    BY <2>2, UnsafeIs
  <2>4. \/ isAny(s) /\ ~isAnyLike(r)
        \/ s.of # "" /\ s.of = r.of
           /\ \E i \in DOMAIN s.args \cap DOMAIN r.args : Leaks[s.args[i]][r.args[i]]
    BY <2>2, LeaksIs DEF MaybeType
  <2>5. CASE isAny(s) /\ ~isAnyLike(r)
    BY <2>3, <2>5 DEF isAnyLike
  <2>6. CASE s.of # "" /\ s.of = r.of
             /\ \E i \in DOMAIN s.args \cap DOMAIN r.args : Leaks[s.args[i]][r.args[i]]
    <3>1. ~isAny(s)
      <4>1. RowOver(s, Types)
        BY <2>2, TypeIs
      <4> QED BY <4>1, <2>6, FlagsTell DEF isAnyLike
    <3>2. PICK i \in DOMAIN s.args \cap DOMAIN r.args : Leaks[s.args[i]][r.args[i]]
      BY <2>6
    <3>3. s.args[i] \in Rows[k]
      BY Below
    <3>4. r.args[i] \in Types
      <4>1. r.args \in Seq(Types)
        BY TypesAreSet
      <4> QED BY <4>1
    <3>5. isUnsafeAssignmentWorker[s.args[i]][r.args[i]]
      BY <1>2, <3>2, <3>3, <3>4
    <3> QED BY <2>3, <2>6, <3>1, <3>5
  <2> QED BY <2>4, <2>5, <2>6
<1>3. Nesting \in S
  <2> HIDE DEF S
  <2> QED BY <1>1, <1>2, UpToNesting, NestingAssumption
<1> QED BY <1>3 DEF Types

(* A generic type with a `then` hands on its first argument.                   *)
LEMMA ValueOfThen ==
  ASSUME NEW m \in Types, m.args # <<>>, HasThen[m][1]
  PROVE  isThenable(m, 1) /\ thenValueType(m) = m.args[1]
<1>1. m.parts = <<>> /\ ~isTypeParameter(m)
  <2>1. RowOver(m, Types)
    BY TypeIs
  <2>2. m.of # ""
    BY <2>1 DEF RowOver, LeafRow
  <2> QED BY <2>1, <2>2, FlagsTell
<1>2. apparentType(m) = m
  BY <1>1 DEF apparentType, constraintOf
<1>3. isThenable(m, 1)
  BY <1>1, <1>2 DEF isThenable, Parts, unionMembers
<1> DEFINE parts == <<m>>
           having == {i \in DOMAIN parts : HasThen[parts[i]][1] /\ parts[i].args # <<>>}
           first == CHOOSE i \in having : \A j \in having : i <= j
<1>4. thenValueType(m) = IF having = {} THEN NoType ELSE parts[first].args[1]
  BY <1>1, <1>2 DEF thenValueType, unionMembers
<1>5. DOMAIN parts = {1} /\ parts[1] = m
  OBVIOUS
<1> HIDE DEF parts
<1>6. having = {1}
  BY <1>5
<1> HIDE DEF having
<1>7. first = 1
  BY <1>6
<1> QED BY <1>3, <1>4, <1>5, <1>6, <1>7

(* The verdict "safe" misses no `any` that comes out of an await.              *)
LEMMA SafeAwaitsNoAny ==
  ASSUME NEW s \in Types, discriminateAny(s) = "safe"
  PROVE  /\ ~isAny(s)
         /\ ~isAny(awaitedType[s])
<1>1. /\ ~isAny(s)
      /\ \A part \in Parts(s) : isThenable(part, 1) => ~isAny(awaitedType[part])
  BY DEF discriminateAny
<1>2. SUFFICES ASSUME isAny(awaitedType[s]) PROVE FALSE
  BY <1>1
<1>3. s \in MaybeType /\ RowOver(s, Types)
  BY TypeIs DEF MaybeType
<1>4. ~isAnyLike(s) /\ s # NoType
  <2>1. isUnknown(s) => ~isAny(awaitedType[s])
    BY <1>1, <1>3, AwaitedIs DEF isAnyLike
  <2> QED BY <1>1, <1>2, <2>1, TypesAreSet DEF isAnyLike
<1> DEFINE awaited == {awaitedType[m] : m \in SeqElements(s.parts)}
<1>5. awaitedType[s] =
        IF "Union" \in s.flags
        THEN IF Cardinality(awaited) = 1 THEN CHOOSE a \in awaited : TRUE ELSE NoType
        ELSE IF isThenable(s, 1) THEN awaitedType[thenValueType(s)] ELSE s
  BY <1>3, <1>4, AwaitedIs
<1>6. ~isAny(NoType)
  BY DEF NoType, Type, isAny
<1> DEFINE M == {m \in Types : ~isAnyLike(m) /\ "Union" \notin m.flags}
<1>7. "Union" \in s.flags \/ s.parts # <<>> =>
        s.parts \in Seq(M) /\ s.parts # <<>> /\ ~isTypeParameter(s) /\ SeqElements(s.parts) # {}
        /\ Parts(s) = SeqElements(s.parts) /\ SeqElements(s.parts) \subseteq M
  <2> SUFFICES ASSUME "Union" \in s.flags \/ s.parts # <<>>
               PROVE  /\ s.parts \in Seq(M) /\ s.parts # <<>> /\ ~isTypeParameter(s)
                      /\ SeqElements(s.parts) # {} /\ Parts(s) = SeqElements(s.parts)
                      /\ SeqElements(s.parts) \subseteq M
    OBVIOUS
  <2>1. s.parts \in Seq(M) /\ s.parts # <<>> /\ ~isTypeParameter(s)
    BY <1>3, FlagsTell
  <2> DEFINE p == s.parts
  <2> HIDE DEF M
  <2>2. 1 \in DOMAIN p /\ \A i \in DOMAIN p : p[i] \in M
    <3> HIDE DEF p
    <3>1. p \in Seq(M) /\ p # <<>>
      BY <2>1 DEF p
    <3> QED BY <3>1
  <2>3. SeqElements(p) # {} /\ SeqElements(p) \subseteq M
    BY <2>2 DEF SeqElements
  <2>4. Parts(s) = SeqElements(s.parts)
    BY <2>1 DEF Parts, unionMembers
  <2> QED BY <2>1, <2>3, <2>4
<1>8. CASE "Union" \in s.flags
  <2>1. awaited # {} /\ awaitedType[s] \in awaited
    <3>1. awaited # {}
      BY <1>7, <1>8
    <3> HIDE DEF awaited
    <3>2. (CHOOSE a \in awaited : TRUE) \in awaited
      BY <3>1
    <3> QED BY <1>2, <1>5, <1>6, <1>8, <3>1, <3>2
  <2>2. PICK m \in SeqElements(s.parts) : isAny(awaitedType[m])
    BY <1>2, <2>1
  <2>3. m \in M /\ m \in Parts(s)
    BY <1>7, <1>8
  <2>4. ~isThenable(m, 1)
    BY <1>1, <2>2, <2>3
  <2>5. awaitedType[m] = m
    BY <2>3, <2>4, AwaitedIs DEF MaybeType
  <2> QED BY <2>2, <2>3, <2>5 DEF isAnyLike
<1>9. CASE "Union" \notin s.flags /\ s.parts = <<>>
  <2>1. Parts(s) = {s}
    BY <1>9 DEF Parts, unionMembers
  <2>2. ~isThenable(s, 1)
    BY <1>1, <1>2, <2>1
  <2> QED BY <1>1, <1>2, <1>5, <1>9, <2>2
<1>10. CASE "Union" \notin s.flags /\ s.parts # <<>>
  <2>1. isThenable(s, 1) /\ isAny(awaitedType[thenValueType(s)])
    BY <1>1, <1>2, <1>5, <1>10
  <2>2. apparentType(s) = s
    BY <1>7, <1>10 DEF apparentType, constraintOf
  <2> DEFINE having == {i \in DOMAIN s.parts : HasThen[s.parts[i]][1] /\ s.parts[i].args # <<>>}
             first == CHOOSE i \in having : \A j \in having : i <= j
  <2>3. thenValueType(s) = IF having = {} THEN NoType ELSE s.parts[first].args[1]
    BY <1>10, <2>2 DEF thenValueType, unionMembers
  <2>4. ~isAny(awaitedType[NoType])
    BY <1>6, AwaitedIs DEF MaybeType
  <2>5. having # {}
    BY <2>1, <2>3, <2>4
  <2>6. first \in having
    <3>1. having \in SUBSET Nat
      <4> DEFINE p == s.parts
      <4> HIDE DEF p
      <4>1. p \in Seq(M)
        BY <1>7, <1>10 DEF p
      <4>2. DOMAIN p \subseteq Nat
        BY <4>1
      <4> QED BY <4>2 DEF p
    <3> HIDE DEF having
    <3>2. \E i \in having : \A j \in having : i <= j
      BY <3>1, <2>5, LeastNumber
    <3> QED BY <3>2
  <2> HIDE DEF first
  <2> DEFINE m == s.parts[first]
  <2>7. m \in M /\ m \in Parts(s) /\ HasThen[m][1] /\ m.args # <<>>
    BY <2>6, <1>7, <1>10 DEF SeqElements
  <2>8. awaitedType[m.args[1]] = awaitedType[thenValueType(s)]
    BY <2>3, <2>5
  <2> HIDE DEF m
  <2>9. isThenable(m, 1) /\ thenValueType(m) = m.args[1]
    BY <2>7, ValueOfThen
  <2>10. awaitedType[m] = awaitedType[m.args[1]]
    BY <2>7, <2>9, AwaitedIs, TypesAreSet DEF MaybeType
  <2> QED BY <1>1, <2>1, <2>7, <2>8, <2>9, <2>10
<1> QED BY <1>8, <1>9, <1>10

LEMMA OneArgument ==
  ASSUME NEW t \in Types, Len(t.args) = 1
  PROVE  DOMAIN t.args = {1} /\ t.args[1] \in Types
<1> DEFINE a == t.args
<1>1. a \in Seq(Types) /\ Len(a) = 1
  BY TypesAreSet
<1> HIDE DEF a
<1>2. DOMAIN a = 1..1 /\ a[1] \in Types
  BY <1>1
<1>3. 1..1 = {1}
  OBVIOUS
<1> QED BY <1>2, <1>3 DEF a

LEMMA UnsafeInside ==
  ASSUME NEW s \in Types, NEW r \in Types, s.of # "", s.of = r.of, ~isAny(s),
         NEW i \in DOMAIN s.args \cap DOMAIN r.args, isUnsafeAssignmentWorker[s.args[i]][r.args[i]]
  PROVE  isUnsafeAssignmentWorker[s][r]
<1>1. isUnsafeAssignmentWorker[s][r] =
        IF isAny(s) /\ isUnknown(r) THEN FALSE
        ELSE \/ isAny(s) /\ ~isAny(r)
             \/ /\ s.of # "" /\ s.of = r.of
                /\ \E j \in DOMAIN s.args \cap DOMAIN r.args : isUnsafeAssignmentWorker[s.args[j]][r.args[j]]
  BY UnsafeIs
<1> QED BY <1>1

(* What the rule lets pass of one return.                                      *)
LEMMA ReturnLeaksNothing ==
  ASSUME NEW r, IsReturn(r), ~checkReturn(r),
         ~(discriminateAny(r.sender) = "promise of any" /\ ~r.async),
         ~(/\ r.async /\ awaitedType[r.sender].args # <<>>
           /\ ~(WaitsOnce(r.sender) /\ WaitsOnce(r.declared))),
         ~IsEmptyMap(r)
  PROVE  IF r.async THEN ~Leaks[awaitedType[r.sender]][awaitedType[r.declared]]
         ELSE ~Leaks[r.sender][r.declared]
<1> DEFINE s == r.sender
           d == r.declared
           from == awaitedType[s]
           to == awaitedType[d]
           kind == discriminateAny(s)
<1>1. s \in Types /\ d \in Types /\ s \in MaybeType /\ d \in MaybeType /\ from \in MaybeType /\ to \in MaybeType
  BY AwaitedIsType DEF IsReturn, MaybeType
<1>2. r.async => d.of = "Promise" /\ ~isAnyLike(d)
  <2>1. RowOver(d, Types)
    BY <1>1, TypeIs
  <2> QED BY <2>1, FlagsTell DEF IsReturn
<1>3. ~Leaks[s][s] /\ ~Leaks[from][from] /\ (isAnyLike(d) => ~Leaks[s][d]) /\ (isAnyLike(to) => ~Leaks[from][to])
  BY <1>1, SelfTakesAll, AnythingTakesAll
<1>4. CASE MeantToBe(r)
  BY <1>2, <1>3, <1>4 DEF MeantToBe
<1>5. ASSUME ~MeantToBe(r)
      PROVE  IF kind # "safe" THEN TakesAny(r, kind) ELSE ~isUnsafeAssignmentWorker[s][d]
  BY <1>5 DEF checkReturn, isUnsafeAssignment, IsEmptyMap
<1>6. CASE ~MeantToBe(r) /\ kind = "any"
  <2>1. isUnknown(d)
    BY <1>5, <1>6 DEF TakesAny
  <2> QED BY <1>2, <1>3, <2>1 DEF isAnyLike
<1>7. CASE ~MeantToBe(r) /\ kind = "any array"
  <2>1. isUnknownArray(d)
    BY <1>5, <1>7 DEF TakesAny
  <2>2. isAnyArray(s) /\ ~isAny(s)
    BY <1>7 DEF discriminateAny
  <2>3. ~r.async
    BY <1>2, <2>1 DEF isUnknownArray, isArray
  <2>4. DOMAIN s.args = {1} /\ DOMAIN d.args = {1} /\ s.args[1] \in Types /\ d.args[1] \in Types
    <3>1. ASSUME NEW t \in Types, isArray(t) PROVE DOMAIN t.args = {1} /\ t.args[1] \in Types
      <4>1. RowOver(t, Types)
        BY TypeIs
      <4>2. Len(t.args) = 1
        BY <4>1, <3>1 DEF RowOver, LeafRow, isArray
      <4> QED BY <4>2, OneArgument
    <3> QED BY <1>1, <2>1, <2>2, <3>1 DEF isUnknownArray, isAnyArray
  <2>5. ~Leaks[s.args[1]][d.args[1]]
    BY <2>1, <2>4, AnythingTakesAll DEF isUnknownArray, isAnyLike, MaybeType
  <2>6. ~Leaks[s][d]
    BY <1>1, <2>2, <2>4, <2>5, LeaksIs
  <2> QED BY <2>3, <2>6
<1>8. CASE ~MeantToBe(r) /\ kind = "promise of any"
  <2>1. r.async /\ isUnknown(to)
    BY <1>5, <1>8 DEF TakesAny
  <2> QED BY <1>3, <2>1 DEF isAnyLike
<1>9. CASE ~MeantToBe(r) /\ kind = "safe"
  <2>1. ~isUnsafeAssignmentWorker[s][d]
    BY <1>5, <1>9
  <2>2. ~Leaks[s][d]
    BY <1>1, <2>1, LeaksAreUnsafe
  <2>3. ~isAny(s) /\ ~isAny(from)
    BY <1>1, <1>9, SafeAwaitsNoAny
  <2>4. CASE ~r.async
    BY <2>2, <2>4
  <2>5. CASE r.async /\ from.args = <<>>
    <3>1. DOMAIN from.args = {}
      BY <2>5
    <3>2. ~Leaks[from][to]
      BY <1>1, <2>3, <3>1, LeaksIs
    <3> QED BY <2>5, <3>2
  <2>6. CASE r.async /\ WaitsOnce(s) /\ WaitsOnce(d)
    <3>1. s.of = "Promise" /\ d.of = "Promise" /\ from = s.args[1] /\ to = d.args[1]
          /\ Len(s.args) = 1 /\ Len(d.args) = 1
      BY <1>1, <2>6 DEF WaitsOnce
    <3>2. DOMAIN s.args = {1} /\ DOMAIN d.args = {1} /\ s.args[1] \in Types /\ d.args[1] \in Types
      BY <1>1, <3>1, OneArgument
    <3>3. ~isUnsafeAssignmentWorker[s.args[1]][d.args[1]]
      <4>1. 1 \in DOMAIN s.args \cap DOMAIN d.args /\ s.of = d.of /\ s.of # "" /\ ~isAny(s)
        BY <2>3, <3>1, <3>2
      <4> HIDE DEF s, d
      <4> QED BY <1>1, <2>1, <4>1, UnsafeInside
    <3>4. ~Leaks[from][to]
      BY <3>1, <3>2, <3>3, LeaksAreUnsafe
    <3> QED BY <2>6, <3>4
  <2> QED BY <2>4, <2>5, <2>6
<1>10. kind \in {"any", "any array", "promise of any", "safe"}
  BY DEF discriminateAny
<1> QED BY <1>4, <1>6, <1>7, <1>8, <1>9, <1>10

(* Of no return but a map just made, one in a plain function that promises    *)
(* any, and an async one in other than one promise, does no-unsafe-return let *)
(* an `any` pass to a caller that reads it as something definite.            *)
THEOREM NoAnyComesBackUnseen == AnySpec => []NoAnyIsReturned
<1>1. FlowsAreGiven => NoAnyIsReturned
  <2> SUFFICES ASSUME FlowsAreGiven, NEW r \in Of("return"), ~checkReturn(r)
               PROVE  \/ discriminateAny(r.sender) = "promise of any" /\ ~r.async
                      \/ /\ r.async /\ awaitedType[r.sender].args # <<>>
                         /\ ~(WaitsOnce(r.sender) /\ WaitsOnce(r.declared))
                      \/ IsEmptyMap(r)
                      \/ IF r.async THEN ~Leaks[awaitedType[r.sender]][awaitedType[r.declared]]
                         ELSE ~Leaks[r.sender][r.declared]
    BY DEF NoAnyIsReturned
  <2>1. IsReturn(r)
    BY FlowsAssumption DEF FlowsAreGiven
  <2> QED BY <2>1, ReturnLeaksNothing
<1> QED BY <1>1, FlowsStayGiven, PTL

-----------------------------------------------------------------------------
(* The accesses of a chain.                                                   *)
StateAt(c, allow, i) ==
  IF allow /\ c.optional[i] THEN "chained"
  ELSE IF ~isAny(c.object) THEN "safe"
  ELSE IF i > 1 /\ ~(allow /\ c.optional[i - 1]) THEN "unsafe" ELSE "reported"

LEMMA ChainIs ==
  ASSUME NEW c, IsChain(c), NEW allow \in BOOLEAN
  PROVE  \A i \in DOMAIN c.optional : checkObject(c, allow)[i] = StateAt(c, allow, i)
<1> DEFINE n == Len(c.optional)
           opt(i) == allow /\ c.optional[i]
           E(f, i) == IF opt(i) THEN "chained"
                      ELSE IF i > 1 /\ f[i - 1] \in {"unsafe", "reported"} THEN "unsafe"
                      ELSE IF isAny(c.object) THEN "reported" ELSE "safe"
           h == [i \in 1..n |-> StateAt(c, allow, i)]
           g == CHOOSE f : f = [i \in 1..n |-> E(f, i)]
<1>1. n \in Nat /\ DOMAIN c.optional = 1..n
  BY DEF IsChain
<1>2. checkObject(c, allow) = g
  BY DEF checkObject
<1>3. ASSUME NEW f, NEW i \in 1..n, i > 1 => f[i - 1] = StateAt(c, allow, i - 1)
      PROVE  E(f, i) = StateAt(c, allow, i)
  BY <1>3 DEF StateAt
<1> HIDE DEF n, E
<1>4. h = [i \in 1..n |-> E(h, i)]
  <2>1. ASSUME NEW i \in 1..n PROVE h[i] = E(h, i)
    <3>1. i > 1 => h[i - 1] = StateAt(c, allow, i - 1)
      BY <1>1
    <3> HIDE DEF h
    <3>2. E(h, i) = StateAt(c, allow, i)
      BY <1>3, <3>1
    <3> QED BY <3>2 DEF h
  <2> QED BY <2>1
<1>5. g = [i \in 1..n |-> E(g, i)]
  <2> HIDE DEF h
  <2> QED BY <1>4
<1> HIDE DEF g
<1> DEFINE S == {i \in 1..n : g[i] = StateAt(c, allow, i)}
<1>6. ASSUME NEW i \in 1..n, \A m \in 1..(i - 1) : m \in S PROVE i \in S
  <2>1. i > 1 => g[i - 1] = StateAt(c, allow, i - 1)
    <3>1. i > 1 => i - 1 \in 1..(i - 1)
      BY <1>1
    <3> QED BY <1>6, <3>1
  <2>2. E(g, i) = StateAt(c, allow, i)
    BY <1>3, <2>1
  <2> QED BY <1>5, <2>2
<1> HIDE DEF S
<1>7. 1..n \subseteq S
  BY <1>1, <1>6, FromBelow
<1> QED BY <1>1, <1>2, <1>7 DEF S

(* no-unsafe-member-access reports a chain on `any` once, at its innermost     *)
(* access, and one with `?.` at least once where an access is no `?.`.       *)
THEOREM ChainsAreReportedOnce == AnySpec => []ChainReportedOnce
<1>1. ASSUME FlowsAreGiven, NEW c \in Of("chain")
      PROVE  /\ AccessReports(c, FALSE) = IF isAny(c.object) THEN {1} ELSE {}
             /\ isAny(c.object) /\ (\E i \in DOMAIN c.optional : ~c.optional[i])
                  => AccessReports(c, TRUE) # {}
  <2>1. IsChain(c)
    BY <1>1, FlowsAssumption DEF FlowsAreGiven
  <2>2. DOMAIN c.optional = 1..Len(c.optional) /\ Len(c.optional) \in Nat /\ 1 \in DOMAIN c.optional
        /\ \A i \in DOMAIN c.optional : c.optional[i] \in BOOLEAN
    BY <2>1 DEF IsChain
  <2>3. \A allow \in BOOLEAN : AccessReports(c, allow) = {i \in DOMAIN c.optional : StateAt(c, allow, i) = "reported"}
    BY <2>1, ChainIs DEF AccessReports
  <2>4. AccessReports(c, FALSE) = IF isAny(c.object) THEN {1} ELSE {}
    <3>1. \A i \in DOMAIN c.optional : StateAt(c, FALSE, i) = "reported" <=> isAny(c.object) /\ ~(i > 1)
      BY DEF StateAt
    <3>2. \A i \in DOMAIN c.optional : ~(i > 1) <=> i = 1
      BY <2>2
    <3> QED BY <2>2, <2>3, <3>1, <3>2
  <2>5. ASSUME isAny(c.object), NEW j \in DOMAIN c.optional, ~c.optional[j] PROVE AccessReports(c, TRUE) # {}
    <3> DEFINE T == {i \in DOMAIN c.optional : ~c.optional[i]}
    <3>1. T \in SUBSET Nat /\ T # {}
      BY <2>2, <2>5
    <3> HIDE DEF T
    <3>2. PICK i \in T : \A k \in T : i <= k
      BY <3>1, LeastNumber
    <3>3. i \in DOMAIN c.optional /\ ~c.optional[i]
      BY DEF T
    <3>4. i > 1 => c.optional[i - 1]
      <4>1. i > 1 => i - 1 \in DOMAIN c.optional /\ ~(i <= i - 1)
        BY <2>2, <3>3
      <4> QED BY <3>2, <4>1 DEF T
    <3>5. StateAt(c, TRUE, i) = "reported"
      BY <2>5, <3>3, <3>4 DEF StateAt
    <3> QED BY <2>3, <3>3, <3>5
  <2> QED BY <2>4, <2>5
<1>2. FlowsAreGiven => ChainReportedOnce
  BY <1>1 DEF ChainReportedOnce
<1> QED BY <1>2, FlowsStayGiven, PTL
===============================================================================
