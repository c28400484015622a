----------------------------- MODULE Directives -----------------------------
(* Disable directives (lint/directives.cc). `collect` reads the comments of  *)
(* a file into a list of directives; the linter then asks for each problem,  *)
(* in source order, which directive suppresses it. Block directives are      *)
(* replayed as a state machine: `replayed` of them lie behind the problem,   *)
(* and `blanket`, `disabled` and `enabled` are m_disableAll, m_disabled and  *)
(* m_enabled. Asking marks a directive as used, and what is never used is    *)
(* reported.                                                                 *)
(*                                                                           *)
(* Places in the file are numbers; Line says on which line a place lies. A    *)
(* comment is what is left of its text: the prefix, the keyword, the places  *)
(* of its ends and the names of its list. m_disabled holds the positions of   *)
(* directives in the order they were appended in, which is their own: a set. *)
EXTENDS Integers, Sequences, FiniteSets

CONSTANTS
  Rule,      \* the rules the registry knows
  Unknown,   \* a rule name it does not
  AllRules,  \* no rule list: every rule
  Position,  \* places in the file, by their offsets
  Line(_),   \* the line a place lies on
  MaxProblems, \* how many problems a run of TLC asks about
  Comments   \* sequences of directive comments a file may hold

Keyword == {"disable", "enable", "disable-line", "disable-next-line"}

ASSUME RuleAssumption ==
  Unknown \notin Rule /\ AllRules \notin Rule \cup {Unknown}
ASSUME PositionAssumption ==
  Position \subseteq Nat /\ \A p \in Position : Line(p) \in Nat

(* The trivia of a tree lie in the order of the source, so its comments do.   *)
ASSUME CommentsAssumption ==
  \A cs \in Comments :
    /\ cs \in Seq([prefix : {"lintrix", "eslint"}, keyword : Keyword,
                   at : Position, end : Position, names : Seq(Rule \cup {Unknown})])
    /\ \A i, j \in 1..Len(cs) : i < j => cs[i].at < cs[j].at

VARIABLES
  directiveComments,   \* the directive comments of the file
  read, namesRead,     \* comments collected, and names of the list of the next
  directives,          \* m_directives
  complaints,          \* m_problems: what is wrong with a comment itself
  replayed, blanket, disabled, enabled, \* m_next, m_disableAll, m_disabled, m_enabled
  used,       \* directives that suppressed a problem
  asked,      \* the problem under way, or NoProblem
  answers     \* problems answered, with the suppressor of each (0 for none)

collectVars == <<directiveComments, read, namesRead, directives, complaints>>
replayVars == <<replayed, blanket, disabled, enabled>>
askVars == <<used, asked, answers>>
directiveVars == <<collectVars, replayVars, askVars>>

NoProblem == [rule |-> AllRules, at |-> 0]
Problem == [rule : Rule, at : Position]

DirectivesInit ==
  /\ directiveComments \in Comments
  /\ read = 0 /\ namesRead = 0 /\ directives = <<>> /\ complaints = {}
  /\ replayed = 0 /\ blanket = 0 /\ disabled = {} /\ enabled = {}
  /\ used = {}
  /\ asked = NoProblem
  /\ answers = {}

-----------------------------------------------------------------------------
(* collect, and addDirective of each comment: a directive for each rule that  *)
(* its list names, or one for all rules if it has no list.                   *)

Blocks == {"disable", "enable"}

SpansLines(c) == Line(c.at) # Line(c.end)

(* A line directive over several lines is a problem and no directive.        *)
Malformed(c) == c.keyword \notin Blocks /\ SpansLines(c)

(* The line a directive covers, or starts on. *)
covered(c) == IF c.keyword = "disable-next-line" THEN Line(c.end) + 1 ELSE Line(c.at)

DirectiveOf(c, r) == [keyword |-> c.keyword, at |-> c.at, line |-> covered(c), rule |-> r]

Unread == read < Len(directiveComments)
Comment == directiveComments[read + 1]

CollectMalformed ==
  /\ Unread /\ Malformed(Comment)
  /\ read' = read + 1
  /\ complaints' = complaints \cup {[comment |-> read + 1, about |-> "lines"]}
  /\ UNCHANGED <<directiveComments, namesRead, directives, replayVars, askVars>>

CollectBlanket ==
  /\ Unread /\ ~Malformed(Comment)
  /\ Comment.names = <<>>
  /\ directives' = Append(directives, DirectiveOf(Comment, AllRules))
  /\ read' = read + 1
  /\ UNCHANGED <<directiveComments, namesRead, complaints, replayVars, askVars>>

(* A name no rule has is reported, unless the comment is spelled eslint-.     *)
CollectName ==
  /\ Unread /\ ~Malformed(Comment)
  /\ namesRead < Len(Comment.names)
  /\ LET name == Comment.names[namesRead + 1]
     IN  /\ directives' = IF name \in Rule THEN Append(directives, DirectiveOf(Comment, name))
                          ELSE directives
         /\ complaints' = IF name \in Rule \/ Comment.prefix = "eslint" THEN complaints
                          ELSE complaints \cup {[comment |-> read + 1, about |-> name]}
  /\ IF namesRead + 1 < Len(Comment.names)
     THEN namesRead' = namesRead + 1 /\ UNCHANGED read
     ELSE namesRead' = 0 /\ read' = read + 1
  /\ UNCHANGED <<directiveComments, replayVars, askVars>>

-----------------------------------------------------------------------------
NamesOf(d, r) == d.rule = AllRules \/ d.rule = r

Covering(p) ==
  {i \in DOMAIN directives :
     /\ directives[i].keyword \notin Blocks
     /\ directives[i].line = Line(p.at)
     /\ NamesOf(directives[i], p.rule)}

(* As Suppress, but only a line directive is marked as used. *)
SuppressByLine(p, i) ==
  /\ answers' = answers \cup {[problem |-> p, by |-> i]}
  /\ used' = IF i \in Covering(p) THEN used \cup {i} ELSE used
  /\ asked' = NoProblem

Suppress(p, i) ==
  /\ answers' = answers \cup {[problem |-> p, by |-> i]}
  /\ used' = IF i = 0 THEN used ELSE used \cup {i}
  /\ asked' = NoProblem

(* Problems are asked about in source order, once the comments are collected. *)
InTurn(p) ==
  /\ ~Unread
  /\ asked = NoProblem
  /\ Cardinality(answers) < MaxProblems
  /\ \A a \in answers : a.problem.at <= p.at

(* suppressor() of a problem a line directive covers: the first one in the    *)
(* file answers, and the block directives are not replayed.                  *)
AskLine ==
  /\ \E p \in Problem : \E i \in Covering(p) :
       /\ InTurn(p)
       /\ \A j \in Covering(p) : i <= j
       /\ Suppress(p, i)
  /\ UNCHANGED <<collectVars, replayVars>>

(* suppressor() of any other problem. *)
AskBlocks ==
  /\ \E p \in Problem : InTurn(p) /\ Covering(p) = {} /\ asked' = p
  /\ UNCHANGED <<collectVars, replayVars, used, answers>>

Behind(p) == replayed < Len(directives) /\ directives[replayed + 1].at <= p.at

(* As Disable, but a rule stays enabled under a blanket directive. *)
DisableOnce(d, i) ==
  IF d.rule = AllRules
  THEN blanket' = i /\ disabled' = {} /\ UNCHANGED enabled
  ELSE /\ disabled' = disabled \cup {i}
       /\ enabled' = enabled \ {d.rule}
       /\ UNCHANGED blanket

(* The steps of advance(), each directive of the file in turn. *)
Disable(d, i) ==
  IF d.rule = AllRules
  THEN blanket' = i /\ disabled' = {} /\ enabled' = {}
  ELSE /\ disabled' = disabled \cup {i}
       /\ enabled' = enabled \ {d.rule}
       /\ UNCHANGED blanket

Enable(d) ==
  IF d.rule = AllRules
  THEN blanket' = 0 /\ disabled' = {} /\ enabled' = {}
  ELSE /\ disabled' = {j \in disabled : directives[j].rule # d.rule}
       /\ enabled' = IF blanket # 0 THEN enabled \cup {d.rule} ELSE enabled
       /\ UNCHANGED blanket

Advance ==
  /\ asked # NoProblem
  /\ Behind(asked)
  /\ replayed' = replayed + 1
  /\ LET d == directives[replayed + 1]
     IN  \/ d.keyword = "disable" /\ Disable(d, replayed + 1)
         \/ d.keyword = "enable" /\ Enable(d)
         \/ d.keyword \notin Blocks /\ UNCHANGED <<blanket, disabled, enabled>>
  /\ UNCHANGED <<collectVars, askVars>>

(* The directives in force for a rule: its own, or else the blanket one that  *)
(* the rule was not enabled under.                                           *)
OwnDisables(r) == {i \in disabled : directives[i].rule = r}
InForce(r) ==
  IF OwnDisables(r) # {} THEN OwnDisables(r)
  ELSE IF blanket # 0 /\ r \notin enabled THEN {blanket}
  ELSE {0}

Answer ==
  /\ asked # NoProblem
  /\ ~Behind(asked)
  /\ \E i \in InForce(asked.rule) :
       /\ \A j \in InForce(asked.rule) : j <= i
       /\ Suppress(asked, i)
  /\ UNCHANGED <<collectVars, replayVars>>

DirectivesNext ==
  \/ CollectMalformed \/ CollectBlanket \/ CollectName
  \/ AskLine \/ AskBlocks \/ Advance \/ Answer

DirectivesSpec == DirectivesInit /\ [][DirectivesNext]_directiveVars

(* What a run reports as unused: `enable` never is. *)
Unused == {i \in DOMAIN directives : i \notin used /\ directives[i].keyword # "enable"}

-----------------------------------------------------------------------------
(* What the directives mean, read off the list with no replay: the last one   *)
(* before the problem that names its rule decides, or one on its line.       *)
(* `kept` are those of them that are in the file.                            *)
Deciding(kept, p) ==
  {i \in kept : /\ directives[i].keyword \in Blocks
                /\ directives[i].at <= p.at
                /\ NamesOf(directives[i], p.rule)}

Off(kept, p) ==
  \/ kept \cap Covering(p) # {}
  \/ \E i \in Deciding(kept, p) :
       directives[i].keyword = "disable" /\ \A j \in Deciding(kept, p) : j <= i

(* A problem is suppressed exactly when the last block directive before it    *)
(* that names its rule is a disable, or a line directive covers it: the      *)
(* replay, which forgets lists under a blanket directive and keeps rules     *)
(* enabled under one, loses nothing (DirectiveSet::suppressor, advance).     *)
SuppressedAsWritten ==
  \A a \in answers : a.by # 0 <=> Off(DOMAIN directives, a.problem)

(* Every directive reported as unused may be deleted, all of them at once,   *)
(* and the same problems are suppressed (Linter::lintFile's report of        *)
(* directives that were never used).                                         *)
UnusedMayGo ==
  \A a \in answers :
    Off(DOMAIN directives \ Unused, a.problem) <=> Off(DOMAIN directives, a.problem)
=============================================================================
