----------------------------- MODULE LinterProofs -----------------------------
(* One lint of one file. What the directives of a file say is what their       *)
(* replay answers, for every file, any rules and any problems asked about in   *)
(* source order. Whatever a pass of fixes prints and whenever the type source  *)
(* fails, the result of --fix is that of the text it writes, and an edit shown *)
(* for a problem is the edit of that problem.                                 *)
EXTENDS Directives, FixPasses, FiniteSetTheorems, TLAPS

-----------------------------------------------------------------------------
(* The invariant. *)

Directive ==
  [keyword : Keyword, at : Position, line : Nat, rule : Rule \cup {AllRules}]

DirectivesTypeOK ==
  /\ directiveComments \in Comments
  /\ read \in 0..Len(directiveComments)
  /\ namesRead \in Nat
  /\ directives \in Seq(Directive)
  /\ replayed \in 0..Len(directives)
  /\ blanket \in 0..replayed
  /\ disabled \subseteq 1..replayed
  /\ enabled \subseteq Rule
  /\ asked \in Problem \cup {NoProblem}
  /\ answers \subseteq [problem : Problem, by : Nat]

(* Nothing is asked or replayed before all comments are collected. *)
CollectedFirst ==
  Unread => replayed = 0 /\ asked = NoProblem /\ answers = {}

(* Directives lie in source order, before the comments that are not read yet. *)
InSourceOrder ==
  /\ \A i, j \in 1..Len(directives) : i < j => directives[i].at <= directives[j].at
  /\ \A i \in 1..Len(directives) : \A k \in read + 1..Len(directiveComments) :
       directives[i].at <= directiveComments[k].at

(* What is replayed lies before a problem that was asked about. *)
ReplayedLieBehind ==
  \A i \in 1..replayed :
    \/ asked # NoProblem /\ directives[i].at <= asked.at
    \/ \E a \in answers : directives[i].at <= a.problem.at

(* The problem under way is in turn, and no line directive covers it. *)
AskedInTurn ==
  asked # NoProblem =>
    /\ Covering(asked) = {}
    /\ \A a \in answers : a.problem.at <= asked.at

(* Among the first n directives, the last one that decides about r disables. *)
Decides(i, r) == directives[i].keyword \in Blocks /\ NamesOf(directives[i], r)
DisabledBefore(n, r) ==
  \E i \in 1..n :
    /\ Decides(i, r) /\ directives[i].keyword = "disable"
    /\ \A j \in 1..n : Decides(j, r) => j <= i

(* What m_disableAll, m_disabled and m_enabled say of r. *)
Disabled(r) ==
  \/ OwnDisables(r) # {}
  \/ blanket # 0 /\ r \notin enabled

ReplayExact == \A r \in Rule : Disabled(r) <=> DisabledBefore(replayed, r)

(* What the replay keeps are directives that disable, and nothing that was    *)
(* replayed decides about a rule after the last one it keeps for the rule.   *)
ReplayLatest ==
  /\ \A i \in disabled \cup ({blanket} \ {0}) : directives[i].keyword = "disable"
  /\ blanket # 0 => directives[blanket].rule = AllRules
  /\ \A r \in Rule : \A j \in 1..replayed : Decides(j, r) =>
       /\ OwnDisables(r) # {} => \E i \in OwnDisables(r) : j <= i
       /\ OwnDisables(r) = {} /\ blanket # 0 /\ r \notin enabled => j <= blanket

(* What disabled a rule that is not disabled now was followed by an enable.    *)
EnabledSince(n, r) ==
  \A i \in 1..n : Decides(i, r) /\ directives[i].keyword = "disable" =>
    \E j \in 1..n : i < j /\ Decides(j, r) /\ directives[j].keyword = "enable"

ReplayEnables == \A r \in Rule : ~Disabled(r) => EnabledSince(replayed, r)

(* The last directive that decides about the problem, if it disables. *)
LastDisable(p, i) ==
  /\ i \in Deciding(DOMAIN directives, p) /\ directives[i].keyword = "disable"
  /\ \A j \in Deciding(DOMAIN directives, p) : j <= i

(* What suppressed a problem is in use, and is a line directive that covers   *)
(* the problem or the last block directive that decides about it.            *)
AnsweredByLatest ==
  \A a \in answers : a.by # 0 =>
    /\ a.by \in used
    /\ a.by \in Covering(a.problem) \/ LastDisable(a.problem, a.by)

(* What nothing suppressed was enabled after every directive that disables it. *)
EnabledLast(p) ==
  \A i \in Deciding(DOMAIN directives, p) : directives[i].keyword = "disable" =>
    \E j \in Deciding(DOMAIN directives, p) : i < j /\ directives[j].keyword = "enable"

ReportedEnabled == \A a \in answers : a.by = 0 => EnabledLast(a.problem)

IInv ==
  /\ DirectivesTypeOK /\ CollectedFirst /\ InSourceOrder /\ ReplayedLieBehind
  /\ AskedInTurn /\ ReplayExact /\ ReplayLatest /\ ReplayEnables
  /\ SuppressedAsWritten /\ AnsweredByLatest /\ ReportedEnabled

-----------------------------------------------------------------------------
(* The next comment is one, and lies behind no comment after it.              *)
LEMMA CommentFacts ==
  ASSUME DirectivesTypeOK, Unread
  PROVE  /\ read \in Nat /\ read + 1 \in 1..Len(directiveComments)
         /\ Comment.keyword \in Keyword
         /\ Comment.at \in Position /\ Comment.end \in Position
         /\ Comment.names \in Seq(Rule \cup {Unknown})
         /\ \A k \in 1..Len(directiveComments) :
              /\ directiveComments[k].at \in Nat
              /\ k > read + 1 => Comment.at < directiveComments[k].at
<1> DEFINE C == [prefix : {"lintrix", "eslint"}, keyword : Keyword,
                 at : Position, end : Position, names : Seq(Rule \cup {Unknown})]
<1>1. directiveComments \in Seq(C)
  BY CommentsAssumption DEF DirectivesTypeOK
<1>2. \A i, j \in 1..Len(directiveComments) :
        i < j => directiveComments[i].at < directiveComments[j].at
  BY CommentsAssumption DEF DirectivesTypeOK
<1>3. read \in Nat /\ read + 1 \in 1..Len(directiveComments)
  BY <1>1 DEF DirectivesTypeOK, Unread
<1> HIDE DEF C
<1>4. Comment \in C
  BY <1>1, <1>3 DEF Comment
<1>5. \A k \in 1..Len(directiveComments) : directiveComments[k] \in C
  BY <1>1
<1> USE DEF C
<1>6. \A k \in 1..Len(directiveComments) : directiveComments[k].at \in Nat
  BY <1>5, PositionAssumption
<1>7. \A k \in 1..Len(directiveComments) : k > read + 1 => Comment.at < directiveComments[k].at
  BY <1>2, <1>3 DEF Comment
<1>8. /\ Comment.keyword \in Keyword
      /\ Comment.at \in Position /\ Comment.end \in Position
      /\ Comment.names \in Seq(Rule \cup {Unknown})
  BY <1>4
<1> QED BY <1>3, <1>6, <1>7, <1>8

(* What a comment's keyword and a rule of its list make is a directive.       *)
LEMMA DirectiveOfTyped ==
  ASSUME DirectivesTypeOK, Unread, NEW r \in Rule \cup {AllRules}
  PROVE  /\ DirectiveOf(Comment, r) \in Directive
         /\ DirectiveOf(Comment, r).at = Comment.at
<1>1. Line(Comment.at) \in Nat /\ Line(Comment.end) \in Nat
  BY CommentFacts, PositionAssumption, Zenon
<1>2. covered(Comment) \in Nat
  BY <1>1 DEF covered
<1> QED BY <1>2, CommentFacts DEF DirectiveOf, Directive

(* Appending a directive leaves the others where they are.                    *)
LEMMA AppendDirective ==
  ASSUME directives \in Seq(Directive), NEW d \in Directive
  PROVE  /\ Append(directives, d) \in Seq(Directive)
         /\ Len(Append(directives, d)) = Len(directives) + 1
         /\ \A i \in 1..Len(directives) : Append(directives, d)[i] = directives[i]
         /\ Append(directives, d)[Len(directives) + 1] = d
OBVIOUS

(* A directive of the list has the fields of one.                             *)
LEMMA DirectiveFacts ==
  ASSUME DirectivesTypeOK, NEW i \in 1..Len(directives)
  PROVE  /\ directives[i] \in Directive
         /\ directives[i].at \in Nat /\ directives[i].keyword \in Keyword
         /\ directives[i].rule \in Rule \cup {AllRules}
<1>1. directives[i] \in Directive
  BY DEF DirectivesTypeOK
<1> QED BY <1>1, PositionAssumption DEF Directive

LEMMA NoProblemIsNone == NoProblem \notin Problem
BY RuleAssumption DEF NoProblem, Problem

-----------------------------------------------------------------------------
(* Collecting (DirectiveSet::collect, addDirective). A step of it reads a     *)
(* comment or one name of it, and appends at most one directive, which lies  *)
(* where the comment does.                                                   *)
Collect == CollectMalformed \/ CollectBlanket \/ CollectName

LEMMA NameStep ==
  ASSUME DirectivesTypeOK, CollectName
  PROVE  /\ read' \in {read, read + 1} /\ namesRead' \in Nat
         /\ \/ directives' = directives
            \/ \E r \in Rule \cup {AllRules} :
                 directives' = Append(directives, DirectiveOf(Comment, r))
<1>1. namesRead \in Nat
  BY DEF DirectivesTypeOK
<1>2. read' \in {read, read + 1} /\ namesRead' \in Nat
  BY <1>1 DEF CollectName
<1> DEFINE name == Comment.names[namesRead + 1]
<1>3. directives' = IF name \in Rule THEN Append(directives, DirectiveOf(Comment, name))
                    ELSE directives
  BY DEF CollectName
<1> HIDE DEF name
<1> QED BY <1>2, <1>3

LEMMA CollectStep ==
  ASSUME DirectivesTypeOK, Collect
  PROVE  /\ Unread
         /\ directiveComments' = directiveComments
         /\ read' \in {read, read + 1}
         /\ namesRead' \in Nat
         /\ \/ directives' = directives
            \/ \E r \in Rule \cup {AllRules} :
                 directives' = Append(directives, DirectiveOf(Comment, r))
         /\ UNCHANGED <<replayVars, askVars>>
<1>1. CASE CollectMalformed
  BY <1>1 DEF CollectMalformed, DirectivesTypeOK
<1>2. CASE CollectBlanket
  BY <1>2, Zenon DEF CollectBlanket, DirectivesTypeOK
<1>3. CASE CollectName
  BY <1>3, NameStep DEF CollectName
<1> QED BY <1>1, <1>2, <1>3 DEF Collect

LEMMA CollectKeeps ==
  ASSUME IInv, Collect
  PROVE  IInv'
<1> USE DEF IInv
<1>1. /\ replayed' = 0 /\ blanket' = 0 /\ disabled' = {} /\ enabled' = enabled
      /\ asked' = NoProblem /\ answers' = {}
  <2>1. replayed = 0 /\ asked = NoProblem /\ answers = {}
    BY CollectStep DEF CollectedFirst
  <2>2. blanket = 0 /\ disabled = {}
    BY <2>1 DEF DirectivesTypeOK
  <2> QED BY CollectStep, <2>1, <2>2 DEF replayVars, askVars
<1>2. Unread /\ read \in Nat /\ read + 1 \in 1..Len(directiveComments)
  BY CollectStep, CommentFacts
<1>3. directiveComments' = directiveComments /\ read' \in {read, read + 1} /\ namesRead' \in Nat
  BY CollectStep
<1>4. /\ Len(directiveComments) \in Nat
      /\ \A k \in read' + 1..Len(directiveComments) :
           k \in 1..Len(directiveComments) /\ k \in read + 1..Len(directiveComments)
  <2>1. Len(directiveComments) \in Nat
    BY CommentsAssumption DEF DirectivesTypeOK
  <2>2. \A r \in {read, read + 1} : \A k \in r + 1..Len(directiveComments) :
          k \in 1..Len(directiveComments) /\ k \in read + 1..Len(directiveComments)
    BY <1>2, <2>1
  <2> QED BY <1>3, <2>1, <2>2
<1>5. directives' \in Seq(Directive) /\ InSourceOrder'
  <2>1. CASE directives' = directives
    BY <1>4, <1>3, <2>1 DEF DirectivesTypeOK, InSourceOrder
  <2>2. ASSUME NEW r \in Rule \cup {AllRules},
               directives' = Append(directives, DirectiveOf(Comment, r))
        PROVE  directives' \in Seq(Directive) /\ InSourceOrder'
    <3> DEFINE d == DirectiveOf(Comment, r)
    <3>1. d \in Directive /\ d.at = Comment.at
      BY <1>2, DirectiveOfTyped
    <3> HIDE DEF d
    <3>2. /\ directives' \in Seq(Directive)
          /\ Len(directives') = Len(directives) + 1
          /\ \A i \in 1..Len(directives) : directives'[i] = directives[i]
          /\ directives'[Len(directives) + 1] = d
      BY <2>2, <3>1, AppendDirective DEF DirectivesTypeOK, d
    <3>3. Len(directives) \in Nat
      BY DEF DirectivesTypeOK
    <3>4. \A i \in 1..Len(directives) : directives[i].at \in Nat /\ directives[i].at <= Comment.at
      BY <1>2, DirectiveFacts DEF InSourceOrder, Comment
    <3>5. \A k \in 1..Len(directiveComments) :
            directiveComments[k].at \in Nat /\ (k > read + 1 => Comment.at < directiveComments[k].at)
      BY <1>2, CommentFacts
    <3>6. Comment.at \in Nat
      BY <1>2, <3>5 DEF Comment
    <3>7. \A i \in 1..Len(directives') :
            /\ directives'[i].at \in Nat /\ directives'[i].at <= Comment.at
            /\ i \in 1..Len(directives) \/ i = Len(directives) + 1
      BY <3>1, <3>2, <3>3, <3>4, <3>6
    <3>8. \A i, j \in 1..Len(directives') : i < j => directives'[i].at <= directives'[j].at
      <4> SUFFICES ASSUME NEW i \in 1..Len(directives'), NEW j \in 1..Len(directives'), i < j
                   PROVE  directives'[i].at <= directives'[j].at
        OBVIOUS
      <4>1. CASE j = Len(directives) + 1
        BY <3>1, <3>2, <3>7, <4>1
      <4>2. CASE j # Len(directives) + 1
        BY <3>2, <3>3, <3>7, <4>2 DEF InSourceOrder
      <4> QED BY <4>1, <4>2
    <3>9. Comment = directiveComments[read + 1]
      BY DEF Comment
    <3>10. \A i \in 1..Len(directives') : \A k \in read' + 1..Len(directiveComments) :
            directives'[i].at <= directiveComments[k].at
      <4> SUFFICES ASSUME NEW i \in 1..Len(directives'),
                          NEW k \in read' + 1..Len(directiveComments)
                   PROVE  directives'[i].at <= directiveComments[k].at
        OBVIOUS
      <4>1. k \in 1..Len(directiveComments) /\ k >= read + 1
        BY <1>4, <1>2
      <4>2. Comment.at <= directiveComments[k].at
        BY <1>2, <3>5, <3>6, <3>9, <4>1
      <4> QED BY <3>5, <3>6, <3>7, <4>1, <4>2
    <3> QED BY <1>3, <3>2, <3>8, <3>10 DEF InSourceOrder
  <2> QED BY CollectStep, <2>1, <2>2
<1>6. DirectivesTypeOK'
  <2>1. read' \in 0..Len(directiveComments')
    BY <1>2, <1>3
  <2>2. Len(directives') \in Nat
    BY <1>5
  <2> QED BY <1>1, <1>3, <1>5, <2>1, <2>2 DEF DirectivesTypeOK
<1>7. ReplayExact' /\ ReplayLatest' /\ ReplayEnables'
  BY <1>1 DEF ReplayExact, ReplayLatest, ReplayEnables, Disabled, OwnDisables, DisabledBefore,
              EnabledSince
<1> QED
  BY <1>1, <1>5, <1>6, <1>7
     DEF CollectedFirst, ReplayedLieBehind, AskedInTurn, SuppressedAsWritten, AnsweredByLatest,
         ReportedEnabled

-----------------------------------------------------------------------------
(* Asking. What the directives say of a problem depends on their list alone.  *)
LEMMA SameDirectives ==
  ASSUME UNCHANGED directives
  PROVE  /\ \A kept, p : Off(kept, p)' <=> Off(kept, p)
         /\ \A p : Covering(p)' = Covering(p)
         /\ \A p, i : LastDisable(p, i)' <=> LastDisable(p, i)
         /\ \A p : EnabledLast(p)' <=> EnabledLast(p)
         /\ \A n, r : DisabledBefore(n, r)' <=> DisabledBefore(n, r)
         /\ \A n, r : EnabledSince(n, r)' <=> EnabledSince(n, r)
BY DEF Off, Deciding, NamesOf, Covering, LastDisable, EnabledLast, DisabledBefore, EnabledSince,
       Decides

LEMMA SameReplay ==
  ASSUME UNCHANGED <<directives, replayed, blanket, disabled, enabled>>
  PROVE  /\ ReplayExact <=> ReplayExact'
         /\ ReplayLatest <=> ReplayLatest'
         /\ ReplayEnables <=> ReplayEnables'
BY SameDirectives
   DEF ReplayExact, ReplayLatest, ReplayEnables, Disabled, OwnDisables, Decides, NamesOf

LEMMA AskLineKeeps ==
  ASSUME IInv, AskLine
  PROVE  IInv'
<1> USE DEF IInv
<1>1. PICK p \in Problem : \E i \in Covering(p) : InTurn(p) /\ Suppress(p, i)
  BY DEF AskLine
<1>2. PICK i \in Covering(p) : InTurn(p) /\ Suppress(p, i)
  BY <1>1
<1>3. UNCHANGED <<directiveComments, read, namesRead, directives, replayed, blanket, disabled, enabled>>
  BY DEF AskLine, collectVars, replayVars
<1>4. i \in 1..Len(directives) /\ Off(DOMAIN directives, p)
  BY DEF Covering, Off, DirectivesTypeOK
<1>5. /\ asked = NoProblem /\ asked' = NoProblem /\ ~Unread
      /\ answers' = answers \cup {[problem |-> p, by |-> i]}
      /\ i \in used' /\ used \subseteq used'
  <2>1. i # 0
    BY <1>4
  <2> QED BY <1>2, <2>1 DEF InTurn, Suppress
<1>6. DirectivesTypeOK'
  BY <1>3, <1>4, <1>5 DEF DirectivesTypeOK
<1>7. CollectedFirst' /\ InSourceOrder' /\ AskedInTurn' /\ ReplayExact' /\ ReplayLatest'
      /\ ReplayEnables'
  BY <1>3, <1>5, SameDirectives, SameReplay
     DEF CollectedFirst, InSourceOrder, AskedInTurn, Unread
<1>8. ReplayedLieBehind'
  BY <1>3, <1>5 DEF ReplayedLieBehind
<1>9. SuppressedAsWritten'
  BY <1>3, <1>4, <1>5, SameDirectives DEF SuppressedAsWritten
<1>10. AnsweredByLatest' /\ ReportedEnabled'
  <2>1. \A a \in answers' : a \in answers \/ (a.problem = p /\ a.by = i)
    BY <1>5
  <2>2. i # 0
    BY <1>4
  <2> QED BY <1>3, <1>5, <2>1, <2>2, SameDirectives DEF AnsweredByLatest, ReportedEnabled
<1> QED BY <1>6, <1>7, <1>8, <1>9, <1>10

LEMMA AskBlocksKeeps ==
  ASSUME IInv, AskBlocks
  PROVE  IInv'
<1> USE DEF IInv
<1>1. PICK p \in Problem : InTurn(p) /\ Covering(p) = {} /\ asked' = p
  BY DEF AskBlocks
<1>2. UNCHANGED <<directiveComments, read, namesRead, directives, replayed, blanket, disabled, enabled, used, answers>>
  BY DEF AskBlocks, collectVars, replayVars
<1>3. asked = NoProblem /\ ~Unread /\ \A a \in answers : a.problem.at <= p.at
  BY <1>1 DEF InTurn
<1>4. DirectivesTypeOK'
  BY <1>1, <1>2 DEF DirectivesTypeOK
<1>5. /\ CollectedFirst' /\ InSourceOrder' /\ ReplayExact' /\ ReplayLatest'
      /\ ReplayEnables' /\ SuppressedAsWritten' /\ AnsweredByLatest' /\ ReportedEnabled'
  BY <1>2, <1>3, SameDirectives, SameReplay
     DEF CollectedFirst, InSourceOrder, Unread, SuppressedAsWritten, AnsweredByLatest,
         ReportedEnabled
<1>6. ReplayedLieBehind'
  BY <1>2, <1>3 DEF ReplayedLieBehind
<1>7. AskedInTurn'
  BY <1>1, <1>2, <1>3, SameDirectives DEF AskedInTurn
<1> QED BY <1>4, <1>5, <1>6, <1>7

-----------------------------------------------------------------------------
(* Replaying (DirectiveSet::advance).                                        *)

(* What one more directive does to the last one that decides about a rule.    *)
LEMMA LastDeciding ==
  ASSUME NEW n \in Nat, NEW r
  PROVE  /\ ~Decides(n + 1, r) => (DisabledBefore(n + 1, r) <=> DisabledBefore(n, r))
         /\ Decides(n + 1, r) =>
              (DisabledBefore(n + 1, r) <=> directives[n + 1].keyword = "disable")
<1>1. 1..n + 1 = 1..n \cup {n + 1}
  OBVIOUS
<1>2. ASSUME ~Decides(n + 1, r)
      PROVE  DisabledBefore(n + 1, r) <=> DisabledBefore(n, r)
  BY <1>1, <1>2 DEF DisabledBefore
<1>3. ASSUME Decides(n + 1, r)
      PROVE  DisabledBefore(n + 1, r) <=> directives[n + 1].keyword = "disable"
  <2>1. \A i \in 1..n + 1 : n + 1 <= i => i = n + 1
    OBVIOUS
  <2>2. \A i \in 1..n + 1 : i <= n + 1
    OBVIOUS
  <2>3. n + 1 \in 1..n + 1
    OBVIOUS
  <2> QED BY <1>3, <2>1, <2>2, <2>3, Zenon DEF DisabledBefore
<1> QED BY <1>2, <1>3

(* Each directive leaves the replay saying what the list says so far.         *)
LEMMA AdvanceKeepsReplay ==
  ASSUME DirectivesTypeOK, ReplayExact, Advance
  PROVE  ReplayExact' /\ DirectivesTypeOK'
<1> DEFINE n == replayed
           d == directives[n + 1]
<1>1. n \in Nat /\ n + 1 \in 1..Len(directives) /\ replayed' = n + 1
  BY DEF Advance, Behind, DirectivesTypeOK
<1>2. UNCHANGED <<directiveComments, read, namesRead, directives, asked, answers>>
  BY DEF Advance, collectVars, askVars
<1>3. d.rule \in Rule \cup {AllRules} /\ d.keyword \in Keyword
  BY <1>1, DirectiveFacts
<1>4. \A i \in disabled : i \in 1..n
  BY DEF DirectivesTypeOK
<1>5. blanket \in 0..n /\ enabled \subseteq Rule
  BY DEF DirectivesTypeOK
<1> HIDE DEF n
<1>6. SUFFICES /\ \A r \in Rule : Disabled(r)' <=> DisabledBefore(n + 1, r)
               /\ blanket' \in 0..n + 1 /\ disabled' \subseteq 1..n + 1 /\ enabled' \subseteq Rule
  BY <1>1, <1>2, SameDirectives DEF ReplayExact, DirectivesTypeOK
<1>7. \A r \in Rule : Disabled(r) <=> DisabledBefore(n, r)
  BY DEF ReplayExact, n
<1>8. \A r \in Rule : Decides(n + 1, r) <=> d.keyword \in Blocks /\ (d.rule = AllRules \/ d.rule = r)
  BY DEF Decides, NamesOf
<1>9. \A r \in Rule : r # AllRules
  BY RuleAssumption
<1>10. CASE d.keyword = "disable" /\ Disable(d, n + 1)
  <2>1. CASE d.rule = AllRules
    <3>1. blanket' = n + 1 /\ disabled' = {} /\ enabled' = {}
      BY <1>10, <2>1 DEF Disable
    <3>2. \A r \in Rule : Disabled(r)'
      BY <1>1, <3>1 DEF Disabled, OwnDisables
    <3>3. \A r \in Rule : Disabled(r)' <=> DisabledBefore(n + 1, r)
      BY <1>1, <1>8, <1>10, <2>1, <3>2, LastDeciding DEF Blocks
    <3> QED BY <1>1, <3>1, <3>3
  <2>2. CASE d.rule # AllRules
    <3>1. blanket' = blanket /\ disabled' = disabled \cup {n + 1} /\ enabled' = enabled \ {d.rule}
      BY <1>10, <2>2 DEF Disable
    <3>2. \A r \in Rule : r = d.rule => Disabled(r)'
      BY <1>2, <3>1 DEF Disabled, OwnDisables
    <3>3. \A r \in Rule : r # d.rule => (Disabled(r)' <=> Disabled(r))
      BY <1>2, <3>1 DEF Disabled, OwnDisables
    <3>4. \A r \in Rule : Disabled(r)' <=> DisabledBefore(n + 1, r)
      BY <1>1, <1>7, <1>8, <1>10, <2>2, <3>2, <3>3, LastDeciding DEF Blocks
    <3> QED BY <1>1, <1>4, <1>5, <3>1, <3>4
  <2> QED BY <2>1, <2>2
<1>11. CASE d.keyword = "enable" /\ Enable(d)
  <2>1. CASE d.rule = AllRules
    <3>1. blanket' = 0 /\ disabled' = {} /\ enabled' = {}
      BY <1>11, <2>1 DEF Enable
    <3>2. \A r \in Rule : ~Disabled(r)'
      BY <3>1 DEF Disabled, OwnDisables
    <3>3. \A r \in Rule : Disabled(r)' <=> DisabledBefore(n + 1, r)
      BY <1>1, <1>8, <1>11, <2>1, <3>2, LastDeciding DEF Blocks
    <3> QED BY <1>1, <3>1, <3>3
  <2>2. CASE d.rule # AllRules
    <3>1. /\ blanket' = blanket /\ disabled' = {j \in disabled : directives[j].rule # d.rule}
          /\ enabled' = IF blanket # 0 THEN enabled \cup {d.rule} ELSE enabled
      BY <1>11, <2>2 DEF Enable
    <3>2. \A r \in Rule : r = d.rule => ~Disabled(r)'
      BY <1>2, <3>1 DEF Disabled, OwnDisables
    <3>3. \A r \in Rule : r # d.rule => (Disabled(r)' <=> Disabled(r))
      BY <1>2, <3>1 DEF Disabled, OwnDisables
    <3>4. \A r \in Rule : Disabled(r)' <=> DisabledBefore(n + 1, r)
      BY <1>1, <1>7, <1>8, <1>11, <2>2, <3>2, <3>3, LastDeciding DEF Blocks
    <3> QED BY <1>1, <1>3, <1>4, <1>5, <2>2, <3>1, <3>4
  <2> QED BY <2>1, <2>2
<1>12. CASE d.keyword \notin Blocks /\ UNCHANGED <<blanket, disabled, enabled>>
  <2>1. \A r \in Rule : Disabled(r)' <=> Disabled(r)
    BY <1>2, <1>12 DEF Disabled, OwnDisables
  <2>2. \A r \in Rule : Disabled(r)' <=> DisabledBefore(n + 1, r)
    BY <1>1, <1>7, <1>8, <1>12, <2>1, LastDeciding
  <2> QED BY <1>1, <1>4, <1>5, <1>12, <2>2
<1> QED BY <1>10, <1>11, <1>12 DEF Advance, n

LEMMA AdvanceKeepsLatest ==
  ASSUME DirectivesTypeOK, ReplayLatest, Advance
  PROVE  ReplayLatest'
<1> DEFINE n == replayed
           d == directives[n + 1]
<1>1. n \in Nat /\ replayed' = n + 1 /\ directives' = directives
  BY DEF Advance, DirectivesTypeOK, collectVars
<1>2. /\ \A i \in disabled : i \in 1..n
      /\ blanket \in 0..n
      /\ \A j \in 1..n + 1 : j <= n + 1 /\ (j \in 1..n \/ j = n + 1)
  BY <1>1 DEF DirectivesTypeOK
<1> HIDE DEF n
<1>3. \A r \in Rule : Decides(n + 1, r) <=> d.keyword \in Blocks /\ (d.rule = AllRules \/ d.rule = r)
  BY DEF Decides, NamesOf
<1>4. \A r \in Rule : r # AllRules
  BY RuleAssumption
<1>5. /\ \A i \in disabled \cup ({blanket} \ {0}) : directives[i].keyword = "disable"
      /\ blanket # 0 => directives[blanket].rule = AllRules
  BY DEF ReplayLatest
<1>6. \A r \in Rule : \A j \in 1..n : Decides(j, r) =>
        /\ OwnDisables(r) # {} => \E i \in OwnDisables(r) : j <= i
        /\ OwnDisables(r) = {} /\ blanket # 0 /\ r \notin enabled => j <= blanket
  BY DEF ReplayLatest, n
<1>7. SUFFICES
        /\ \A i \in disabled' \cup ({blanket'} \ {0}) : directives[i].keyword = "disable"
        /\ blanket' # 0 => directives[blanket'].rule = AllRules
        /\ \A r \in Rule : \A j \in 1..n + 1 : Decides(j, r) =>
             /\ OwnDisables(r)' # {} => \E i \in OwnDisables(r)' : j <= i
             /\ OwnDisables(r)' = {} /\ blanket' # 0 /\ r \notin enabled' => j <= blanket'
  BY <1>1 DEF ReplayLatest, Decides, NamesOf
<1>8. CASE d.keyword = "disable" /\ Disable(d, n + 1) /\ d.rule = AllRules
  <2>1. blanket' = n + 1 /\ disabled' = {}
    BY <1>8 DEF Disable
  <2> QED BY <1>1, <1>2, <1>8, <2>1 DEF OwnDisables
<1>9. CASE d.keyword = "disable" /\ Disable(d, n + 1) /\ d.rule # AllRules
  <2>1. blanket' = blanket /\ disabled' = disabled \cup {n + 1} /\ enabled' = enabled \ {d.rule}
    BY <1>9 DEF Disable
  <2>2. \A r \in Rule : r = d.rule => n + 1 \in OwnDisables(r)'
    BY <1>1, <2>1 DEF OwnDisables
  <2>3. \A r \in Rule : r # d.rule => OwnDisables(r)' = OwnDisables(r) /\ ~Decides(n + 1, r)
    BY <1>1, <1>3, <1>9, <2>1 DEF OwnDisables
  <2>4. ASSUME NEW r \in Rule, NEW j \in 1..n + 1, Decides(j, r)
        PROVE  /\ OwnDisables(r)' # {} => \E i \in OwnDisables(r)' : j <= i
               /\ OwnDisables(r)' = {} /\ blanket' # 0 /\ r \notin enabled' => j <= blanket'
    <3>1. CASE r = d.rule
      BY <1>2, <2>2, <3>1
    <3>2. CASE r # d.rule
      BY <1>2, <1>6, <2>1, <2>3, <2>4, <3>2
    <3> QED BY <3>1, <3>2
  <2> QED BY <1>5, <1>9, <2>1, <2>4
<1>10. CASE d.keyword = "enable" /\ Enable(d) /\ d.rule = AllRules
  <2>1. blanket' = 0 /\ disabled' = {}
    BY <1>10 DEF Enable
  <2> QED BY <2>1 DEF OwnDisables
<1>11. CASE d.keyword = "enable" /\ Enable(d) /\ d.rule # AllRules
  <2>1. /\ blanket' = blanket /\ disabled' = {j \in disabled : directives[j].rule # d.rule}
        /\ enabled' = IF blanket # 0 THEN enabled \cup {d.rule} ELSE enabled
    BY <1>11 DEF Enable
  <2>2. \A r \in Rule : r = d.rule => OwnDisables(r)' = {}
    BY <1>1, <2>1 DEF OwnDisables
  <2>3. \A r \in Rule : r # d.rule => OwnDisables(r)' = OwnDisables(r) /\ ~Decides(n + 1, r)
    BY <1>1, <1>3, <1>11, <2>1 DEF OwnDisables
  <2>4. ASSUME NEW r \in Rule, NEW j \in 1..n + 1, Decides(j, r)
        PROVE  /\ OwnDisables(r)' # {} => \E i \in OwnDisables(r)' : j <= i
               /\ OwnDisables(r)' = {} /\ blanket' # 0 /\ r \notin enabled' => j <= blanket'
    <3>1. CASE r = d.rule
      BY <2>1, <2>2, <3>1
    <3>2. CASE r # d.rule
      BY <1>2, <1>6, <2>1, <2>3, <2>4, <3>2
    <3> QED BY <3>1, <3>2
  <2> QED BY <1>5, <2>1, <2>4
<1>12. CASE d.keyword \notin Blocks /\ UNCHANGED <<blanket, disabled, enabled>>
  BY <1>1, <1>2, <1>3, <1>5, <1>6, <1>12 DEF OwnDisables
<1> QED BY <1>8, <1>9, <1>10, <1>11, <1>12 DEF Advance, n

LEMMA AdvanceKeepsEnables ==
  ASSUME DirectivesTypeOK, ReplayExact, ReplayEnables, Advance
  PROVE  ReplayEnables'
<1> DEFINE n == replayed
           d == directives[n + 1]
<1>1. n \in Nat /\ replayed' = n + 1 /\ directives' = directives
  BY DEF Advance, DirectivesTypeOK, collectVars
<1>2. \A j \in 1..n + 1 : j \in 1..n \/ j = n + 1
  BY <1>1
<1>3. ReplayExact'
  BY AdvanceKeepsReplay
<1> SUFFICES ASSUME NEW r \in Rule, ~Disabled(r)' PROVE EnabledSince(n + 1, r)
  BY <1>1, SameDirectives DEF ReplayEnables
<1>4. ~DisabledBefore(n + 1, r)
  BY <1>1, <1>3, SameDirectives DEF ReplayExact
<1>5. CASE Decides(n + 1, r)
  <2>1. d.keyword = "enable"
    BY <1>1, <1>4, <1>5, LastDeciding DEF Decides, Blocks
  <2>2. n + 1 \in 1..n + 1 /\ \A i \in 1..n : i < n + 1
    BY <1>1
  <2> QED BY <1>2, <1>5, <2>1, <2>2 DEF EnabledSince
<1>6. CASE ~Decides(n + 1, r)
  <2>1. ~DisabledBefore(n, r)
    BY <1>1, <1>4, <1>6, LastDeciding
  <2>2. EnabledSince(n, r)
    BY <2>1 DEF ReplayExact, ReplayEnables
  <2>3. \A j \in 1..n : j \in 1..n + 1
    BY <1>1
  <2> QED BY <1>2, <1>6, <2>2, <2>3 DEF EnabledSince
<1> QED BY <1>5, <1>6

LEMMA AdvanceKeeps ==
  ASSUME IInv, Advance
  PROVE  IInv'
<1> USE DEF IInv
<1>1. DirectivesTypeOK' /\ ReplayExact' /\ ReplayLatest' /\ ReplayEnables'
  BY AdvanceKeepsReplay, AdvanceKeepsLatest, AdvanceKeepsEnables
<1>2. UNCHANGED <<directiveComments, read, namesRead, directives, used, asked, answers>>
  BY DEF Advance, collectVars, askVars
<1>3. asked # NoProblem /\ directives[replayed + 1].at <= asked.at /\ replayed' = replayed + 1
  BY DEF Advance, Behind
<1>4. ReplayedLieBehind'
  <2>1. \A i \in 1..replayed + 1 : i \in 1..replayed \/ i = replayed + 1
    BY DEF DirectivesTypeOK
  <2> QED BY <1>2, <1>3, <2>1 DEF ReplayedLieBehind
<1>5. /\ CollectedFirst' /\ InSourceOrder' /\ AskedInTurn'
      /\ SuppressedAsWritten' /\ AnsweredByLatest' /\ ReportedEnabled'
  BY <1>2, <1>3, SameDirectives
     DEF CollectedFirst, InSourceOrder, AskedInTurn, SuppressedAsWritten, AnsweredByLatest,
         ReportedEnabled, Unread
<1> QED BY <1>1, <1>4, <1>5

-----------------------------------------------------------------------------
(* Answering: once nothing else lies behind the problem, what is replayed is  *)
(* what decides about it.                                                    *)
LEMMA ReplayedDecide ==
  ASSUME IInv, asked # NoProblem, ~Behind(asked)
  PROVE  /\ Off(DOMAIN directives, asked) <=> DisabledBefore(replayed, asked.rule)
         /\ Deciding(DOMAIN directives, asked) = {i \in 1..replayed : Decides(i, asked.rule)}
<1> USE DEF IInv
<1>1. asked \in Problem /\ asked.at \in Nat
  BY PositionAssumption DEF DirectivesTypeOK, Problem
<1>2. replayed \in 0..Len(directives) /\ Len(directives) \in Nat
  BY DEF DirectivesTypeOK
<1>3. \A i \in 1..replayed : directives[i].at <= asked.at
  <2> SUFFICES ASSUME NEW i \in 1..replayed PROVE directives[i].at <= asked.at
    OBVIOUS
  <2>1. CASE directives[i].at <= asked.at
    BY <2>1
  <2>2. ASSUME NEW a \in answers, directives[i].at <= a.problem.at
        PROVE  directives[i].at <= asked.at
    <3>1. a.problem.at \in Nat
      BY PositionAssumption DEF DirectivesTypeOK, Problem
    <3>2. a.problem.at <= asked.at
      BY DEF AskedInTurn
    <3>3. directives[i].at \in Nat
      BY <1>2, DirectiveFacts
    <3> QED BY <1>1, <2>2, <3>1, <3>2, <3>3
  <2> QED BY <2>1, <2>2 DEF ReplayedLieBehind
<1>4. \A i \in 1..Len(directives) : directives[i].at <= asked.at => i \in 1..replayed
  <2> SUFFICES ASSUME NEW i \in 1..Len(directives), i \notin 1..replayed
               PROVE  ~(directives[i].at <= asked.at)
    OBVIOUS
  <2>1. replayed + 1 \in 1..Len(directives) /\ replayed + 1 <= i
    BY <1>2
  <2>2. ~(directives[replayed + 1].at <= asked.at)
    BY <1>2, <2>1 DEF Behind
  <2>3. directives[replayed + 1].at <= directives[i].at
    BY <2>1, DirectiveFacts DEF InSourceOrder
  <2> QED BY <1>1, <2>1, <2>2, <2>3, DirectiveFacts
<1>5. DOMAIN directives = 1..Len(directives)
  BY DEF DirectivesTypeOK
<1>6. Deciding(DOMAIN directives, asked) = {i \in 1..replayed : Decides(i, asked.rule)}
  BY <1>2, <1>3, <1>4, <1>5 DEF Deciding, Decides
<1>7. Covering(asked) = {}
  BY DEF AskedInTurn
<1>8. Off(DOMAIN directives, asked) <=>
        \E i \in Deciding(DOMAIN directives, asked) :
          directives[i].keyword = "disable" /\ \A j \in Deciding(DOMAIN directives, asked) : j <= i
  BY <1>7 DEF Off
<1> QED BY <1>6, <1>8 DEF DisabledBefore

(* The latest directive in force is the last that decides.                    *)
LEMMA InForceIsLast ==
  ASSUME DirectivesTypeOK, ReplayLatest, NEW r \in Rule, NEW i \in InForce(r), i # 0,
         \A j \in InForce(r) : j <= i
  PROVE  /\ i \in 1..replayed /\ Decides(i, r) /\ directives[i].keyword = "disable"
         /\ \A j \in 1..replayed : Decides(j, r) => j <= i
<1>1. replayed \in Nat /\ disabled \subseteq 1..replayed /\ blanket \in 0..replayed
  BY DEF DirectivesTypeOK
<1>2. \A k \in disabled \cup ({blanket} \ {0}) : directives[k].keyword = "disable"
  BY DEF ReplayLatest
<1>3. CASE OwnDisables(r) # {}
  <2>1. InForce(r) = OwnDisables(r)
    BY <1>3 DEF InForce
  <2>2. i \in disabled /\ directives[i].rule = r
    BY <2>1 DEF OwnDisables
  <2>3. i \in 1..replayed /\ Decides(i, r) /\ directives[i].keyword = "disable"
    BY <1>1, <1>2, <2>2 DEF Decides, NamesOf, Blocks
  <2>4. ASSUME NEW j \in 1..replayed, Decides(j, r) PROVE j <= i
    <3>1. PICK k \in OwnDisables(r) : j <= k
      BY <1>3, <2>4 DEF ReplayLatest
    <3>2. k <= i /\ k \in Nat
      BY <1>1, <2>1 DEF OwnDisables
    <3> QED BY <1>1, <2>3, <3>1, <3>2
  <2> QED BY <2>3, <2>4
<1>4. CASE OwnDisables(r) = {}
  <2>1. i = blanket /\ blanket # 0 /\ r \notin enabled
    BY <1>4 DEF InForce
  <2>2. directives[i].rule = AllRules /\ directives[i].keyword = "disable"
    BY <1>2, <2>1 DEF ReplayLatest
  <2> QED BY <1>1, <1>4, <2>1, <2>2 DEF ReplayLatest, Decides, NamesOf, Blocks
<1> QED BY <1>3, <1>4

LEMMA AnswerKeeps ==
  ASSUME IInv, Answer
  PROVE  IInv'
<1> USE DEF IInv
<1>1. PICK i \in InForce(asked.rule) :
        (\A j \in InForce(asked.rule) : j <= i) /\ Suppress(asked, i)
  BY DEF Answer
<1>2. UNCHANGED <<directiveComments, read, namesRead, directives, replayed, blanket, disabled, enabled>>
  BY DEF Answer, collectVars, replayVars
<1>3. asked \in Problem /\ asked # NoProblem /\ asked.rule \in Rule
  BY DEF Answer, DirectivesTypeOK, Problem
<1>4. /\ asked' = NoProblem /\ answers' = answers \cup {[problem |-> asked, by |-> i]}
      /\ used \subseteq used' /\ (i # 0 => i \in used')
  BY <1>1 DEF Suppress
<1>5. i \in Nat /\ (i # 0 <=> Disabled(asked.rule))
  <2>1. disabled \subseteq 1..replayed /\ replayed \in Nat /\ blanket \in Nat
    BY DEF DirectivesTypeOK
  <2> QED BY <2>1 DEF InForce, Disabled, OwnDisables
<1>6. i # 0 <=> Off(DOMAIN directives, asked)
  BY <1>3, <1>5, ReplayedDecide DEF Answer, ReplayExact
<1>7. DirectivesTypeOK'
  BY <1>2, <1>3, <1>4, <1>5 DEF DirectivesTypeOK
<1>8. ~Unread
  BY <1>3 DEF CollectedFirst
<1>9. CollectedFirst' /\ InSourceOrder' /\ AskedInTurn' /\ ReplayExact' /\ ReplayLatest'
      /\ ReplayEnables'
  BY <1>2, <1>4, <1>8, SameDirectives, SameReplay
     DEF CollectedFirst, InSourceOrder, AskedInTurn, Unread
<1>10. ReplayedLieBehind'
  <2>1. [problem |-> asked, by |-> i].problem = asked
    OBVIOUS
  <2> QED BY <1>2, <1>4, <2>1 DEF ReplayedLieBehind
<1>11. SuppressedAsWritten'
  BY <1>2, <1>4, <1>6, SameDirectives DEF SuppressedAsWritten
<1>12. i # 0 => LastDisable(asked, i)
  BY <1>1, <1>3, InForceIsLast, ReplayedDecide DEF Answer, LastDisable
<1>13. AnsweredByLatest'
  BY <1>2, <1>4, <1>12, SameDirectives DEF AnsweredByLatest
<1>14. i = 0 => EnabledLast(asked)
  BY <1>3, <1>5, ReplayedDecide DEF Answer, ReplayEnables, EnabledSince, EnabledLast
<1>15. ReportedEnabled'
  BY <1>2, <1>4, <1>14, SameDirectives DEF ReportedEnabled
<1> QED BY <1>7, <1>9, <1>10, <1>11, <1>13, <1>15

-----------------------------------------------------------------------------
LEMMA InitHolds == DirectivesInit => IInv
<1> SUFFICES ASSUME DirectivesInit PROVE IInv
  OBVIOUS
<1> USE DEF DirectivesInit
<1>1. Len(directives) = 0 /\ directives \in Seq(Directive)
  OBVIOUS
<1>2. Len(directiveComments) \in Nat
  BY CommentsAssumption
<1>3. DirectivesTypeOK
  BY <1>1, <1>2 DEF DirectivesTypeOK
<1> QED
  BY <1>1, <1>3
     DEF IInv, CollectedFirst, InSourceOrder, ReplayedLieBehind, AskedInTurn,
         ReplayExact, ReplayLatest, ReplayEnables, Disabled, OwnDisables, DisabledBefore,
         EnabledSince, SuppressedAsWritten, AnsweredByLatest, ReportedEnabled

LEMMA StepKeeps == IInv /\ [DirectivesNext]_directiveVars => IInv'
<1> SUFFICES ASSUME IInv, [DirectivesNext]_directiveVars PROVE IInv'
  OBVIOUS
<1>1. CASE CollectMalformed \/ CollectBlanket \/ CollectName
  BY <1>1, CollectKeeps DEF Collect
<1>2. CASE AskLine
  BY <1>2, AskLineKeeps
<1>3. CASE AskBlocks
  BY <1>3, AskBlocksKeeps
<1>4. CASE Advance
  BY <1>4, AdvanceKeeps
<1>5. CASE Answer
  BY <1>5, AnswerKeeps
<1>6. CASE UNCHANGED directiveVars
  BY <1>6, SameDirectives, SameReplay
     DEF directiveVars, collectVars, replayVars, askVars, IInv, DirectivesTypeOK, CollectedFirst,
         InSourceOrder, ReplayedLieBehind, AskedInTurn, SuppressedAsWritten,
         AnsweredByLatest, ReportedEnabled, Unread
<1> QED BY <1>1, <1>2, <1>3, <1>4, <1>5, <1>6 DEF DirectivesNext

(* The list of directives, the replay and the answers keep their types in     *)
(* every file with its problems in source order (DirectiveSet).              *)
THEOREM DirectivesTyped == DirectivesSpec => []DirectivesTypeOK
<1>1. IInv => DirectivesTypeOK
  BY DEF IInv
<1> QED BY InitHolds, StepKeeps, <1>1, PTL DEF DirectivesSpec

(* A problem is suppressed exactly when the directives as written say so: a   *)
(* line directive covers it, or the last block directive before it that      *)
(* names its rule is a disable (DirectiveSet::suppressor). For any rules,    *)
(* any comments in source order, and any number of problems.                 *)
THEOREM DirectivesSuppressAsWritten == DirectivesSpec => []SuppressedAsWritten
<1>1. IInv => SuppressedAsWritten
  BY DEF IInv
<1> QED BY InitHolds, StepKeeps, <1>1, PTL DEF DirectivesSpec

(* Whatever is reported as unused is not what suppressed a problem, and what  *)
(* decides that a problem is reported is never reported as unused.           *)
LEMMA UnusedDecidesNothing ==
  ASSUME IInv
  PROVE  UnusedMayGo
<1> USE DEF IInv
<1> DEFINE all == DOMAIN directives
           kept == all \ Unused
<1> SUFFICES ASSUME NEW a \in answers
             PROVE  Off(kept, a.problem) <=> Off(all, a.problem)
  BY DEF UnusedMayGo
<1> DEFINE p == a.problem
<1>1. Deciding(kept, p) \subseteq Deciding(all, p) /\ Deciding(kept, p) = Deciding(all, p) \cap kept
  BY DEF Deciding
<1>2. CASE Off(all, p)
  <2>1. a.by # 0
    BY <1>2 DEF SuppressedAsWritten
  <2>2. a.by \in used /\ (a.by \in Covering(p) \/ LastDisable(p, a.by))
    BY <2>1 DEF AnsweredByLatest
  <2>3. a.by \in all => a.by \in kept
    BY <2>2 DEF Unused
  <2>4. CASE a.by \in Covering(p)
    BY <2>3, <2>4 DEF Off, Covering
  <2>5. CASE LastDisable(p, a.by)
    <3>1. a.by \in Deciding(all, p) /\ directives[a.by].keyword = "disable"
      BY <2>5 DEF LastDisable
    <3>2. a.by \in Deciding(kept, p)
      BY <1>1, <2>3, <3>1 DEF Deciding
    <3>3. \A j \in Deciding(kept, p) : j <= a.by
      BY <1>1, <2>5 DEF LastDisable
    <3> QED BY <1>2, <3>1, <3>2, <3>3 DEF Off
  <2> QED BY <2>2, <2>4, <2>5
<1>3. ASSUME Off(kept, p) PROVE Off(all, p)
  <2>1. CASE kept \cap Covering(p) # {}
    BY <2>1 DEF Off
  <2>2. ASSUME NEW i \in Deciding(kept, p), directives[i].keyword = "disable",
               \A j \in Deciding(kept, p) : j <= i,
               ~Off(all, p)
        PROVE  FALSE
    <3>1. a.by = 0
      BY <2>2 DEF SuppressedAsWritten
    <3>2. PICK j \in Deciding(all, p) : i < j /\ directives[j].keyword = "enable"
      BY <1>1, <2>2, <3>1 DEF ReportedEnabled, EnabledLast
    <3>3. j \in Deciding(kept, p)
      BY <1>1, <3>2 DEF Deciding, Unused
    <3>4. i \in Nat /\ j \in Nat
      BY DEF Deciding, DirectivesTypeOK
    <3> QED BY <2>2, <3>2, <3>3, <3>4
  <2> QED BY <1>3, <2>1, <2>2 DEF Off
<1> QED BY <1>2, <1>3

(* Deleting what is reported as unused, all of it at once, changes no answer  *)
(* (Linter::lintTree's report of unused directives).                         *)
THEOREM UnusedDirectivesMayGo == DirectivesSpec => []UnusedMayGo
BY InitHolds, StepKeeps, UnusedDecidesNothing, PTL DEF DirectivesSpec

-----------------------------------------------------------------------------
(* The fixpoint of passes. *)

(* The counters of the loop and where it may be (ast/fixpoint.cc).          *)
LoopTypes ==
  /\ pass \in Nat /\ lastApplied \in Nat /\ applied \in Nat
  /\ stage \in {"start", "passes", "relint", "edits", "done"}

(* What the loop knows between two passes: how many fixes its text holds,    *)
(* those of the last pass and those before it, and that the text before the *)
(* last pass parsed.  It is what a pass that broke the syntax falls back on. *)
LoopKnows ==
  /\ pass = 0 => current = input /\ applied = 0
  /\ pass > 0 => Parses(previous) /\ lastApplied > 0 /\ lastApplied <= applied
  /\ pass = 1 => previous = input
  /\ pass > 1 => lastApplied < applied

(* What a text has that is to be linted once more and then handed out.      *)
Settled ==
  /\ Parses(input) /\ pass < MaxPasses => Parses(current)
  /\ current # input => applied > 0

LoopInv ==
  /\ LoopTypes
  /\ stage \in {"start", "passes"} => LoopKnows
  /\ stage = "start" => pass = 0
  /\ stage \in {"relint", "done"} => Settled
  /\ stage = "done" => out.of = current

(* Sets of offers are finite, and a smaller one has fewer.                   *)
LEMMA OffersAreCounted ==
  ASSUME NEW S \in SUBSET Offers
  PROVE  /\ Cardinality(S) \in Nat
         /\ \A T \in SUBSET S : T # S => Cardinality(T) < Cardinality(S)
<1>1. IsFiniteSet(Offers)
  BY PassesAssumption
<1>2. IsFiniteSet(S)
  BY <1>1, FS_Subset
<1>3. ASSUME NEW T \in SUBSET S, T # S PROVE Cardinality(T) < Cardinality(S)
  <2>1. Cardinality(T) \in Nat /\ Cardinality(S) \in Nat /\ Cardinality(T) <= Cardinality(S)
    BY <1>2, FS_Subset, FS_CardinalityType
  <2>2. Cardinality(T) # Cardinality(S)
    BY <1>2, <1>3, FS_Subset
  <2> QED BY <2>1, <2>2
<1> QED BY <1>2, <1>3, FS_CardinalityType

(* A pass that applies fixes applies at least one (Fixer::applied).          *)
LEMMA FixesCount ==
  ASSUME NEW S \in SUBSET Offers, NEW n \in 1..Cardinality(S)
  PROVE  n \in Nat /\ n > 0
<1>1. Cardinality(S) \in Nat
  BY OffersAreCounted
<1> QED BY <1>1

(* A lint says of which text it is, and by which rules (Linter::lintFile).   *)
LEMMA LintOf ==
  ASSUME NEW t, NEW seen
  PROVE  lintFile(t, seen).of = t /\ lintFile(t, seen).seen = seen
BY DEF lintFile

(* What is applied is offered.                                               *)
LEMMA Applicable ==
  ASSUME NEW t, NEW seen
  PROVE  {o \in Collected(lintFile(t, seen)) : IsFix(o)} \in SUBSET Offers
BY DEF Collected, Offered

(* One turn of the loop: nothing to apply, a text that is printed as it was, *)
(* or the next pass.                                                        *)
LEMMA PassKeeps ==
  ASSUME LoopInv, RunPass
  PROVE  LoopInv'
<1> USE DEF LoopInv, LoopTypes
<1>1. PICK seen \in SUBSET Aware :
        LET applicable == {o \in Collected(lintFile(current, seen)) : IsFix(o)}
        IN  /\ out' = lintFile(current, seen)
            /\ \/ /\ ~Parses(current)
                  /\ stage' = "relint"
                  /\ UNCHANGED <<current, previous, pass, lastApplied, applied>>
               \/ /\ Parses(current) /\ applicable = {}
                  /\ stage' = "done"
                  /\ UNCHANGED <<current, previous, pass, lastApplied, applied>>
               \/ \E n \in 1..Cardinality(applicable), printed \in TextOf :
                    /\ lastApplied' = n /\ applied' = applied + n
                    /\ IF printed = current
                       THEN stage' = "done" /\ UNCHANGED <<current, previous, pass>>
                       ELSE /\ current' = printed /\ previous' = current /\ pass' = pass + 1
                            /\ UNCHANGED stage
  BY DEF RunPass
<1> DEFINE applicable == {o \in Collected(lintFile(current, seen)) : IsFix(o)}
<1>2. /\ stage = "passes" /\ pass < MaxPasses /\ (pass > 0 => Parses(current))
      /\ LoopKnows
      /\ UNCHANGED <<contents, input>>
  BY DEF RunPass
<1>3. out'.of = current
  BY <1>1, LintOf
<1>4. \A t : Parses(t)' <=> Parses(t)
  BY <1>2 DEF Parses
<1>5. CASE ~Parses(current) /\ stage' = "relint"
           /\ UNCHANGED <<current, previous, pass, lastApplied, applied>>
  <2>1. pass = 0 /\ current = input
    BY <1>2, <1>5 DEF LoopKnows
  <2> QED BY <1>2, <1>4, <1>5, <2>1 DEF Settled
<1>6. CASE Parses(current) /\ stage' = "done"
           /\ UNCHANGED <<current, previous, pass, lastApplied, applied>>
  <2>1. current # input => applied > 0
    BY <1>2 DEF LoopKnows
  <2> QED BY <1>2, <1>3, <1>4, <1>6, <2>1 DEF Settled
<1>7. ASSUME NEW n \in 1..Cardinality(applicable), Parses(current) \/ pass = 0,
             lastApplied' = n, applied' = applied + n, stage' = "done",
             UNCHANGED <<current, previous, pass>>
      PROVE  LoopInv'
  <2>1. n \in Nat /\ n > 0
    BY Applicable, FixesCount
  <2>2. Parses(input) => Parses(current)
    BY <1>2, <1>7 DEF LoopKnows
  <2> QED BY <1>2, <1>3, <1>4, <1>7, <2>1, <2>2 DEF Settled
<1>8. ASSUME NEW n \in 1..Cardinality(applicable), NEW printed \in TextOf, Parses(current),
             lastApplied' = n, applied' = applied + n, stage' = stage,
             current' = printed, previous' = current, pass' = pass + 1
      PROVE  LoopInv'
  <2>1. n \in Nat /\ n > 0
    BY Applicable, FixesCount
  <2>2. pass = 0 \/ applied > 0
    BY <1>2 DEF LoopKnows
  <2>3. LoopKnows'
    BY <1>2, <1>4, <1>8, <2>1, <2>2 DEF LoopKnows
  <2> QED BY <1>2, <1>8, <2>1, <2>3
<1>9. CASE ~Parses(current)
  <2>1. applicable = {}
    BY <1>9 DEF Collected, Offered, lintFile, Surviving
  <2>2. \A n \in 1..Cardinality(applicable) : FALSE
    BY <2>1, FS_EmptySet
  <2> QED BY <1>1, <1>5, <1>9, <2>2
<1>10. CASE Parses(current)
  <2>1. CASE stage' = "done" /\ UNCHANGED <<current, previous, pass, lastApplied, applied>>
    BY <1>6, <1>10, <2>1
  <2>2. CASE ~(stage' = "done" /\ UNCHANGED <<current, previous, pass, lastApplied, applied>>)
    <3>1. PICK n \in 1..Cardinality(applicable), printed \in TextOf :
            /\ lastApplied' = n /\ applied' = applied + n
            /\ IF printed = current
               THEN stage' = "done" /\ UNCHANGED <<current, previous, pass>>
               ELSE current' = printed /\ previous' = current /\ pass' = pass + 1 /\ UNCHANGED stage
      BY <1>1, <1>10, <2>2
    <3> HIDE DEF applicable
    <3> QED BY <1>7, <1>8, <1>10, <3>1
  <2> QED BY <2>1, <2>2
<1> QED BY <1>9, <1>10

(* The loop starts knowing its text, and every step keeps what it knows.    *)
LEMMA LoopStep == LoopInv /\ [PassesNext]_passVars => LoopInv'
<1> SUFFICES ASSUME LoopInv, [PassesNext]_passVars PROVE LoopInv'
  OBVIOUS
<1> USE PassesAssumption DEF LoopInv, LoopTypes
<1>1. CASE lintSource
  BY <1>1 DEF lintSource, LoopKnows, Parses
<1>2. CASE RunPass
  BY <1>2, PassKeeps
<1>3. CASE Revert
  <2>1. Parses(previous) /\ applied - lastApplied \in Nat
    BY <1>3 DEF Revert, LoopKnows
  <2>2. previous # input => applied - lastApplied > 0
    BY <1>3 DEF Revert, LoopKnows
  <2> QED BY <1>3, <2>1, <2>2 DEF Revert, Settled, Parses
<1>4. CASE CutOff
  <2>1. current # input => applied > 0
    BY <1>4 DEF CutOff, LoopKnows
  <2> QED BY <1>4, <2>1 DEF CutOff, Settled
<1>5. CASE Relint
  <2>1. out'.of = current
    BY <1>5, LintOf DEF Relint
  <2> QED BY <1>5, <2>1 DEF Relint, Settled, Parses
<1>6. CASE singleEdit
  BY <1>6 DEF singleEdit
<1>7. CASE UNCHANGED passVars
  BY <1>7 DEF passVars, LoopKnows, Settled, Parses
<1> QED BY <1>1, <1>2, <1>3, <1>4, <1>5, <1>6, <1>7 DEF PassesNext

(* The result of --fix fits the text that is written, for any texts, problems *)
(* and bound on the passes (ast/fixpoint.cc, runToFixpoint; lint/linter.cc). *)
THEOREM FixedOutputWasLinted == PassesSpec => []OutputWasLinted
<1>1. PassesInit => LoopInv
  BY PassesAssumption DEF PassesInit, LoopInv, LoopTypes, LoopKnows
<1>2. LoopInv => OutputWasLinted
  BY DEF LoopInv, LoopTypes, Settled, OutputWasLinted
<1> QED BY <1>1, <1>2, LoopStep, PTL DEF PassesSpec
-----------------------------------------------------------------------------
(* The order of offers.                                                       *)
LEMMA OffersAreOrdered ==
  ASSUME NEW x \in Offers, NEW y \in Offers
  PROVE  /\ ~Earlier(x, x)
         /\ x = y \/ Earlier(x, y) \/ Earlier(y, x)
         /\ ~(Earlier(x, y) /\ Earlier(y, x))
         /\ \A z \in Offers : Earlier(x, y) /\ Earlier(y, z) => Earlier(x, z)
<1>1. \A o \in Offers : o = <<o[1], o[2]>> /\ o[1] \in Nat /\ o[2] \in Nat
  BY PassesAssumption
<1>2. \A z \in Offers : Earlier(x, y) /\ Earlier(y, z) => Earlier(x, z)
  BY <1>1 DEF Earlier
<1> QED BY <1>1, <1>2 DEF Earlier

(* No two offers of a list have one number.                                   *)
LEMMA NumbersDiffer ==
  ASSUME NEW list \in SUBSET Offers, NEW x \in list, NEW y \in list,
         Number(x, list) = Number(y, list)
  PROVE  x = y
<1> DEFINE B(o) == {z \in list : Earlier(z, o)}
<1>1. ASSUME NEW a \in list, NEW b \in list, Earlier(a, b)
      PROVE  Number(a, list) < Number(b, list)
  <2>1. B(a) \subseteq B(b)
    BY <1>1, OffersAreOrdered
  <2>2. a \in B(b) /\ a \notin B(a)
    BY <1>1, OffersAreOrdered
  <2>3. B(b) \in SUBSET Offers /\ B(a) \in SUBSET B(b) /\ B(a) # B(b)
    BY <2>1, <2>2
  <2>4. Cardinality(B(a)) < Cardinality(B(b))
    BY <2>3, OffersAreCounted
  <2> QED BY <2>4 DEF Number
<1>2. Number(x, list) \in Nat
  <2>1. B(x) \in SUBSET Offers
    OBVIOUS
  <2>2. Cardinality(B(x)) \in Nat
    BY <2>1, OffersAreCounted
  <2> QED BY <2>2 DEF Number
<1>3. ~Earlier(x, y) /\ ~Earlier(y, x)
  BY <1>1, <1>2
<1> QED BY <1>3, OffersAreOrdered

(* While edits are computed the result is the lint of the source, the offers  *)
(* that have one are the first of those it makes, and there are none before.  *)
EditsInv ==
  /\ stage = "edits" => out = lintFile(input, out.seen)
  /\ stage # "edits" => edits = << >>
  /\ DOMAIN edits \subseteq Offered(out)
  /\ \A o \in DOMAIN edits, x \in Offered(out) : Earlier(x, o) => x \in DOMAIN edits
  /\ EditsAreOfTheirProblem

(* The offers a result makes that lie before o and are of its kind are those   *)
(* another lint collects, when nothing has moved the numbers.                *)
SameUpTo(o, seen) ==
  \A x \in Alike(o) : ~Earlier(o, x) /\ x[1] \in Surviving(input) =>
    /\ x[1] \notin Untargeted
    /\ x[1] \in Aware => (x[1] \in out.seen <=> x[1] \in seen)

LEMMA ChosenIsOffered ==
  ASSUME EditsInv, stage = "edits", NEW seen \in SUBSET Aware,
         NEW o \in Offered(out) \ DOMAIN edits,
         \A x \in Offered(out) \ DOMAIN edits : ~Earlier(x, o),
         SameUpTo(o, seen)
  PROVE  ChosenFor(o, seen) = {o}
<1> DEFINE chosen == Collected(lintFile(input, seen)) \cap Alike(o)
<1>1. o \in Offers /\ o \in Alike(o) /\ chosen \in SUBSET Offers /\ Offered(out) \subseteq Offers
  BY DEF Offered, Collected, Alike
<1>2. \A x \in Offers : x \in Offered(out) <=>
        x[1] \in Surviving(input) /\ (x[1] \in Aware => x[1] \in out.seen)
  <2>1. out.found = {p \in Surviving(input) : p \in Aware => p \in out.seen}
    BY DEF EditsInv, lintFile
  <2> QED BY <2>1 DEF Offered
<1>3. \A x \in Offers : x \in Collected(lintFile(input, seen)) <=>
        /\ x[1] \in Surviving(input) /\ (x[1] \in Aware => x[1] \in seen)
        /\ x[1] \notin Untargeted
  BY DEF Collected, Offered, lintFile
<1>4. \A x \in Alike(o) : ~Earlier(o, x) => (x \in Offered(out) <=> x \in chosen)
  BY <1>2, <1>3 DEF SameUpTo, Alike
<1>5. o \in chosen
  BY <1>1, <1>4, OffersAreOrdered
<1>6. \A x \in Offered(out) : x \in DOMAIN edits <=> Earlier(x, o)
  BY <1>1, OffersAreOrdered DEF EditsInv
<1>7. DOMAIN edits \cap Alike(o) = {x \in chosen : Earlier(x, o)}
  <2>1. \A x \in Alike(o) : Earlier(x, o) => ~Earlier(o, x)
    BY <1>1, OffersAreOrdered DEF Alike
  <2>2. \A x \in Alike(o) : x \in DOMAIN edits <=> x \in chosen /\ Earlier(x, o)
    BY <1>4, <1>6, <2>1 DEF EditsInv
  <2> QED BY <2>2
<1>8. IndexOf(o) = Number(o, chosen)
  BY <1>7 DEF IndexOf, Number
<1> HIDE DEF chosen
<1>9. {x \in chosen : Number(x, chosen) = IndexOf(o)} = {o}
  BY <1>1, <1>5, <1>8, NumbersDiffer
<1> QED BY <1>9 DEF ChosenFor, chosen

(* An edit found by its number is the edit it was counted for.                *)
LEMMA EditStep == EditsInv /\ [PassesNext]_passVars => EditsInv'
<1> SUFFICES ASSUME EditsInv, [PassesNext]_passVars PROVE EditsInv'
  OBVIOUS
<1>1. CASE stage' # "edits"
  <2>1. edits' = << >>
    BY <1>1 DEF EditsInv, PassesNext, lintSource, RunPass, Revert, CutOff, Relint, singleEdit, passVars
  <2>2. DOMAIN edits' = {}
    BY <2>1
  <2> QED BY <1>1, <2>1, <2>2 DEF EditsInv, EditsAreOfTheirProblem
<1>2. CASE lintSource /\ stage' = "edits"
  <2>1. edits' = << >> /\ UNCHANGED <<contents, input>>
    BY <1>2 DEF lintSource, EditsInv
  <2>2. PICK seen \in SUBSET Aware : out' = lintFile(input, seen)
    BY <1>2 DEF lintSource
  <2>3. out' = lintFile(input, out'.seen)
    BY <2>2, LintOf
  <2>4. out' = lintFile(input, out.seen)'
    BY <2>1, <2>3 DEF lintFile, Surviving, Parses
  <2>5. DOMAIN edits' = {}
    BY <2>1
  <2> QED BY <1>2, <2>4, <2>5 DEF EditsInv, EditsAreOfTheirProblem
<1>3. CASE singleEdit
  <2>1. PICK o \in Offered(out) \ DOMAIN edits, seen \in SUBSET Aware :
          /\ \A x \in Offered(out) \ DOMAIN edits : ~Earlier(x, o)
          /\ edits' = [x \in DOMAIN edits \cup {o} |->
                         IF x = o THEN [applies |-> ChosenFor(o, seen), seen |-> seen] ELSE edits[x]]
    BY <1>3 DEF singleEdit
  <2>2. stage = "edits" /\ stage' = "edits" /\ UNCHANGED <<contents, input, out>>
    BY <1>3 DEF singleEdit
  <2>3. out' = lintFile(input, out.seen)'
    BY <2>2 DEF EditsInv, lintFile, Surviving, Parses
  <2>4. Offered(out)' = Offered(out)
    BY <2>2 DEF Offered
  <2>5. DOMAIN edits' = DOMAIN edits \cup {o}
    BY <2>1
  <2>6. DOMAIN edits' \subseteq Offered(out)'
    BY <2>4, <2>5 DEF EditsInv
  <2>7. \A y \in DOMAIN edits', x \in Offered(out)' : Earlier(x, y) => x \in DOMAIN edits'
    BY <2>1, <2>4, <2>5 DEF EditsInv
  <2>8. Surviving(input)' = Surviving(input)
    BY <2>2 DEF Surviving, Parses
  <2>9. ASSUME NEW y \in DOMAIN edits', NumbersAgree(y)'
        PROVE  edits'[y].applies = {y}
    <3>1. CASE y = o
      <4>1. edits'[o] = [applies |-> ChosenFor(o, seen), seen |-> seen]
        BY <2>1
      <4>2. SameUpTo(o, seen)
        BY <2>2, <2>8, <2>9, <3>1, <4>1 DEF NumbersAgree, SameUpTo
      <4>3. ChosenFor(o, seen) = {o}
        BY <2>1, <2>2, <4>2, ChosenIsOffered
      <4> QED BY <3>1, <4>1, <4>3
    <3>2. CASE y # o
      <4>1. y \in DOMAIN edits /\ edits'[y] = edits[y]
        BY <2>1, <2>5, <3>2
      <4>2. NumbersAgree(y)
        BY <2>2, <2>8, <2>9, <4>1 DEF NumbersAgree
      <4> QED BY <4>1, <4>2 DEF EditsInv, EditsAreOfTheirProblem
    <3> QED BY <3>1, <3>2
  <2>10. EditsAreOfTheirProblem'
    BY <2>9 DEF EditsAreOfTheirProblem
  <2> QED BY <2>2, <2>3, <2>6, <2>7, <2>10 DEF EditsInv
<1>4. CASE UNCHANGED passVars
  BY <1>4 DEF passVars, EditsInv, lintFile, Surviving, Parses, Offered, EditsAreOfTheirProblem,
              NumbersAgree
<1> QED
  BY <1>1, <1>2, <1>3, <1>4 DEF PassesNext, RunPass, Revert, CutOff, Relint

(* Whatever problems there are, whatever they offer, whatever is suppressed    *)
(* and whatever the type source answers, an edit is of its problem as long as *)
(* nothing before it moved the numbers (lint/linter.cc, singleEdit).         *)
THEOREM EditsFollowTheirProblems == PassesSpec => []EditsAreOfTheirProblem
<1>1. PassesInit => EditsInv
  BY DEF PassesInit, EditsInv, EditsAreOfTheirProblem
<1>2. EditsInv => EditsAreOfTheirProblem
  BY DEF EditsInv
<1> QED BY <1>1, <1>2, EditStep, PTL DEF PassesSpec

=============================================================================
