-------------------------------- MODULE Fixer --------------------------------
(* A pass of fixes over a file and the text it prints: comment attachment      *)
(* (ast/comments.cc), the mutations (ast/fixer.cc), the layouts captured       *)
(* before them (ast/file.cc) and the printer's slices, layouts and comments    *)
(* (ast/printer.cc).                                                          *)
(*                                                                           *)
(* The text is a sequence of symbols: code, commas, line breaks and comments. *)
(* Spaces are left out, and parentheses, which are the concern of Templates.  *)
(* A node is a program or block (a list of statements), a call (a callee and a *)
(* list of arguments), a return (one optional child) or a name.              *)
EXTENDS Naturals, FiniteSets, SequencesExt

CONSTANTS
  Sources,   \* the files: nested parts, see below
  Fresh,     \* names of the nodes that fixes may build
  MaxFixes   \* bound: how many fixes a pass applies

VARIABLES
  sourceFile,  \* the parsed file: its symbols and its nodes
  children,    \* Node::children of every node, NoNode in an empty slot
  dirty, layouts,        \* Node::dirty, m_layouts
  comments, deadRanges,  \* m_comments, m_deadRanges
  dropped,     \* comments that a policy dropped or a replaced text held
  fixes        \* the targets of the fixes applied, in order

fixerVars == <<sourceFile, children, dirty, layouts, comments, deadRanges, dropped, fixes>>

NoNode == "none"

-----------------------------------------------------------------------------
(* A part of a source: a symbol, or a node of a kind with parts of its own.   *)
Symbol(is, name) == [is |-> is, name |-> name, kind |-> "", parts |-> <<>>]
Code(name) == Symbol("code", name)
Comma == Symbol("comma", ",")
Break == Symbol("break", "")
IsComment(s) == s.is \in {"line", "block"}
IsToken(s) == s.is \in {"code", "comma"}
Program == "program"

RECURSIVE Flat(_), Placed(_, _)
Flat(part) == IF part.is = "node" THEN FlattenSeq([i \in DOMAIN part.parts |-> Flat(part.parts[i])]) ELSE <<part>>

(* The nodes of a part that starts at `at`, with their spans and children.    *)
Placed(part, at) ==
  LET before(i) == Len(FlattenSeq([j \in 1..(i - 1) |-> Flat(part.parts[j])]))
      nodes == SelectSeq(part.parts, LAMBDA p : p.is = "node")
      own == [name |-> part.name, kind |-> part.kind, from |-> at, to |-> at + Len(Flat(part)),
              kids |-> IF part.kind = "return" /\ nodes = <<>> THEN <<NoNode>> ELSE [i \in DOMAIN nodes |-> nodes[i].name]]
  IN  IF part.is = "node" THEN {own} \cup UNION {Placed(part.parts[i], at + before(i)) : i \in DOMAIN part.parts} ELSE {}

(* The program starts at its first token and ends with the file. *)
Parsed(source) ==
  LET nodes == Placed(source, 1)
      text == Flat(source)
      first == CHOOSE i \in DOMAIN text : IsToken(text[i]) /\ \A j \in 1..(i - 1) : ~IsToken(text[j])
      node(n) == CHOOSE e \in nodes : e.name = n
  IN  [text |-> text,
       nodes |-> [n \in {e.name : e \in nodes} |-> IF n = Program THEN [node(n) EXCEPT !.from = first] ELSE node(n)]]

Original == DOMAIN sourceFile.nodes
StartOf(n) == sourceFile.nodes[n].from
EndOf(n) == sourceFile.nodes[n].to
kindOf(n) == IF n \in Original THEN sourceFile.nodes[n].kind ELSE "name"
fixedChildren(n) == IF kindOf(n) \in {"call", "return"} THEN 1 ELSE 0
hasList(n) == kindOf(n) \in {"program", "block", "call"}

-----------------------------------------------------------------------------
(* comments.cc. A comment goes to the node that ends before it on its line (a  *)
(* comma between them does not count), else to the one that starts next, else  *)
(* to the one before, else to the innermost node around it.                   *)

Outermost(f, S) == CHOOSE n \in S : \A m \in S : f.nodes[n].from <= f.nodes[m].from /\ f.nodes[n].to >= f.nodes[m].to
Below(f) == {n \in DOMAIN f.nodes : n # Program}
startsAt(f, i) == {n \in Below(f) : f.nodes[n].from = i}
endsAt(f, i) == {n \in Below(f) : f.nodes[n].to = i + 1}

Token(f, i) == i \in DOMAIN f.text /\ IsToken(f.text[i])

attach(f, i) ==
  LET before == {j \in 1..(i - 1) : Token(f, j)}
      stops == {j \in before : endsAt(f, j) # {} \/ f.text[j].is # "comma"}
      last(S) == CHOOSE j \in S : \A k \in S : k <= j
      prev == IF stops = {} THEN {} ELSE endsAt(f, last(stops))
      after == {j \in DOMAIN f.text : j > i /\ Token(f, j)}
      next == IF after = {} THEN {} ELSE startsAt(f, CHOOSE j \in after : \A k \in after : j <= k)
      sawNewline == \E j \in 1..(i - 1) : f.text[j].is = "break" /\ \A k \in before : k < j
      around == {n \in DOMAIN f.nodes : f.nodes[n].from <= i /\ i < f.nodes[n].to}
      innermost == CHOOSE n \in around \cup {Program} : \A m \in around : f.nodes[m].from <= f.nodes[n].from
      To(n, place) == [node |-> n, place |-> place]
  IN  CASE prev # {} /\ ~sawNewline -> To(Outermost(f, prev), "trailing")
        [] after = {} -> To(Program, "trailing")
        [] next # {} -> To(Outermost(f, next), "leading")
        [] prev # {} -> To(Outermost(f, prev), "trailing")
        [] OTHER -> To(innermost, "dangling")

attachComments(f, n) ==
  LET at == SelectSeq([i \in DOMAIN f.text |-> i], LAMBDA i : IsComment(f.text[i]) /\ attach(f, i).node = n)
  IN  [i \in DOMAIN at |-> [at |-> at[i], place |-> attach(f, at[i]).place, moved |-> FALSE]]

-----------------------------------------------------------------------------
(* The tree.                                                                 *)

parent(n) == {p \in DOMAIN children : \E i \in DOMAIN children[p] : children[p][i] = n}
indexOf(p, n) == CHOOSE i \in DOMAIN children[p] : children[p][i] = n
isListIndex(p, i) == hasList(p) /\ i > fixedChildren(p)

RECURSIVE Chain(_)
Chain(n) == {n} \cup UNION {Chain(p) : p \in parent(n)}
isAttached(n) == Program \in Chain(n)

(* Layout of a node: its own text and its children's places, in source order. *)
Item(from, to, child, slot) == [from |-> from, to |-> to, child |-> child, slot |-> slot]
captureLayout(n) ==
  LET slots == SelectSeq([i \in DOMAIN children[n] |-> i], LAMBDA i : children[n][i] \in Original)
      child(i) == Item(StartOf(children[n][slots[i]]), EndOf(children[n][slots[i]]), children[n][slots[i]], slots[i])
      ends(i) == IF i = 0 THEN StartOf(n) ELSE child(i).to
      starts(i) == IF i > Len(slots) THEN EndOf(n) ELSE child(i).from
      gap(i) == IF ends(i - 1) < starts(i) THEN <<Item(ends(i - 1), starts(i), NoNode, 0)>> ELSE <<>>
  IN  FlattenSeq([i \in DOMAIN slots |-> gap(i) \o <<child(i)>>]) \o gap(Len(slots) + 1)

(* Fixer::dirty of the nodes S and their ancestors.                           *)
Dirtied(S) ==
  LET new == UNION {Chain(n) : n \in S} \ dirty
  IN  /\ dirty' = dirty \cup new
      /\ layouts' = [n \in DOMAIN layouts \cup new |-> IF n \in new THEN captureLayout(n) ELSE layouts[n]]

(* The children of every node once n is taken out of its slot.               *)
detached(n) ==
  [p \in DOMAIN children |->
     IF p \notin parent(n) THEN children[p]
     ELSE IF isListIndex(p, indexOf(p, n)) THEN RemoveAt(children[p], indexOf(p, n))
     ELSE [children[p] EXCEPT ![indexOf(p, n)] = NoNode]]

-----------------------------------------------------------------------------
(* fixer.cc.                                                                 *)

newlineBetween(from, to) == \E i \in from..(to - 1) : sourceFile.text[i].is = "break"

(* Comments of the text that goes with a node that goes, but for what it keeps.*)
Inside(old, fresh) ==
  {i \in StartOf(old)..(EndOf(old) - 1) :
     IsComment(sourceFile.text[i]) /\ (fresh \in Original => i \notin StartOf(fresh)..(EndOf(fresh) - 1))}

(* The comments of a removed node go to a neighbour, or die.                  *)
moveRemovedComments(n, p, policy) ==
  LET i == indexOf(p, n)
      around(S) == {children[p][j] : j \in {k \in S : k \in DOMAIN children[p] /\ isListIndex(p, k) /\ isListIndex(p, i)}}
      next == around({i + 1})
      prev == around({i - 1})
      target == CHOOSE t \in IF next # {} THEN next ELSE IF prev # {} THEN prev ELSE {p} : TRUE
      place == CASE next # {} -> "leading" [] prev # {} -> "trailing" [] OTHER -> "dangling"
      sameLine(c) == c.place = "trailing" /\ (n \in Original => ~newlineBetween(EndOf(n), c.at))
      goes(c) == policy = "DropAll" \/ (policy = "MoveLeading" /\ sameLine(c))
      moved == SelectSeq(comments[n], LAMBDA c : ~goes(c))
  IN  /\ deadRanges' = deadRanges \cup {comments[n][k].at : k \in DOMAIN comments[n]}
      /\ dropped' = dropped \cup {comments[n][k].at : k \in {l \in DOMAIN comments[n] : goes(comments[n][l])}}
                       \cup (Inside(n, NoNode) \ {comments[n][k].at : k \in DOMAIN comments[n]})
      /\ comments' = [comments EXCEPT ![n] = <<>>,
           ![target] = @ \o [k \in DOMAIN moved |-> [moved[k] EXCEPT !.place = place, !.moved = TRUE]]]

(* applyFixes: in source order, a fix whose target an earlier one touched or   *)
(* took out of the tree waits for the next pass.                              *)
Apply(target) ==
  /\ target \in Original /\ target \notin dirty /\ isAttached(target)
  /\ fixes # <<>> => StartOf(Last(fixes)) <= StartOf(target)
  /\ fixes' = Append(fixes, target)
  /\ UNCHANGED sourceFile

Unplaced == {n \in Fresh : parent(n) = {}}

remove ==
  \E n \in Original \ {Program} :
    /\ Apply(n)
    /\ \E p \in parent(n), policy \in {"MoveLeading", "KeepTrailing", "DropAll"} :
         /\ isListIndex(p, indexOf(p, n)) \/ kindOf(p) = "return"
         /\ Dirtied({p})
         /\ moveRemovedComments(n, p, policy)
    /\ children' = detached(n)

(* `fresh` is built, or a node that `old` wraps.                              *)
replace ==
  \E old \in Original \ {Program} :
    /\ Apply(old)
    /\ \E fresh \in (Unplaced \cup Original) \ {old}, p \in parent(old) :
         LET freed == IF parent(fresh) = {} THEN children ELSE detached(fresh)
             all == comments[fresh] \o comments[old]
         IN  /\ fresh \in Original => old \in Chain(fresh)
             /\ Dirtied({p} \cup parent(fresh))
             /\ children' = [freed EXCEPT ![p][indexOf(p, old)] = fresh]
             /\ comments' = [comments EXCEPT ![old] = <<>>,
                  ![fresh] = [i \in DOMAIN all |-> [all[i] EXCEPT !.moved = @ \/ all[i].place = "dangling"]]]
             /\ dropped' = dropped \cup (Inside(old, fresh) \ {comments[old][i].at : i \in DOMAIN comments[old]})
    /\ deadRanges' = deadRanges \cup {comments[old][i].at : i \in {j \in DOMAIN comments[old] : comments[old][j].place = "dangling"}}

Insert(by) ==
  \E n \in Original :
    /\ Apply(n)
    /\ \E p \in parent(n), fresh \in Unplaced :
         /\ isListIndex(p, indexOf(p, n))
         /\ Dirtied({p})
         /\ children' = [children EXCEPT ![p] = InsertAt(@, indexOf(p, n) + by, fresh)]
    /\ UNCHANGED <<comments, deadRanges, dropped>>

insertBefore == Insert(0)
insertAfter == Insert(1)

append ==
  \E p \in Original, fresh \in Unplaced :
    /\ Apply(p)
    /\ hasList(p)
    /\ Dirtied({p})
    /\ children' = [children EXCEPT ![p] = Append(@, fresh)]
    /\ UNCHANGED <<comments, deadRanges, dropped>>

(* Fills an empty slot. *)
set ==
  \E p \in Original, fresh \in Unplaced :
    /\ Apply(p)
    /\ children[p] = <<NoNode>>
    /\ Dirtied({p})
    /\ children' = [children EXCEPT ![p] = <<fresh>>]
    /\ UNCHANGED <<comments, deadRanges, dropped>>

(* setData, setFlag: the node prints from its template.                       *)
reprint ==
  \E n \in Original \ {Program} :
    /\ Apply(n)
    /\ dirty' = dirty \cup Chain(n)
    /\ LET new == Chain(n) \ (dirty \cup {n})
       IN  layouts' = [m \in (DOMAIN layouts \cup new) \ {n} |-> IF m \in new THEN captureLayout(m) ELSE layouts[m]]
    /\ UNCHANGED <<children, comments, deadRanges, dropped>>

FileOf(source) ==
  /\ sourceFile = Parsed(source)
  /\ children = [n \in Original \cup Fresh |-> IF n \in Original THEN sourceFile.nodes[n].kids ELSE <<>>]
  /\ comments = [n \in Original \cup Fresh |-> IF n \in Original THEN attachComments(sourceFile, n) ELSE <<>>]
  /\ dirty = Fresh /\ layouts = <<>> /\ deadRanges = {} /\ dropped = {} /\ fixes = <<>>

FixerInit == \E source \in Sources : FileOf(source)
FixerNext ==
  /\ Len(fixes) < MaxFixes
  /\ \/ remove \/ replace \/ insertBefore \/ insertAfter \/ append \/ set \/ reprint

-----------------------------------------------------------------------------
(* printer.cc. A Soft break is due before the next text.                      *)
Soft == Symbol("soft", "")

(* As slice, but dead comments are copied too. *)
sliceAll(from, to) == SubSeq(sourceFile.text, from, to - 1)

(* Text copied from the source: a dead comment on its own line takes the line  *)
(* break with it.                                                            *)
slice(from, to) ==
  LET gone(i) == \/ i \in deadRanges
                 \/ /\ sourceFile.text[i].is = "break" /\ i - 1 \in deadRanges /\ i - 1 >= from
                    /\ i = 2 \/ sourceFile.text[i - 2].is = "break"
      at == SelectSeq([i \in 1..(to - from) |-> from + i - 1], LAMBDA i : ~gone(i))
  IN  [i \in DOMAIN at |-> sourceFile.text[at[i]]]

after(c) == IF sourceFile.text[c.at].is = "block" THEN <<>> ELSE IF c.place = "leading" THEN <<Break>> ELSE <<Soft>>
printComments(list) == FlattenSeq([i \in DOMAIN list |-> <<sourceFile.text[list[i].at]>> \o after(list[i])])

(* The comments of n at a place that the text around it no longer carries:     *)
(* moved ones, and all of them (`own`) when the parent printed from a template. *)
commentsAt(n, place, own) == printComments(SelectSeq(comments[n], LAMBDA c : c.place = place /\ (c.moved \/ own)))

listOf(n) == SubSeq(children[n], fixedChildren(n) + 1, Len(children[n]))

layoutCovers(n) ==
  LET items == layouts[n]
      held == {items[i].slot : i \in {j \in DOMAIN items : items[j].child # NoNode}}
  IN  /\ listOf(n) # <<>> => \E s \in held : s > fixedChildren(n)
      /\ \A s \in 1..fixedChildren(n) : children[n][s] # NoNode => s \in held

defaultSeparator(n) == IF kindOf(n) \in {"program", "block"} THEN <<Break>> ELSE <<Comma>>

RECURSIVE print(_, _)

(* Which captured gap separates element j from the one before; 0 for none.     *)
gapBefore(n, kept, j) ==
  LET keptIndex(i) == IF \E k \in DOMAIN kept : kept[k].child = listOf(n)[i]
                      THEN CHOOSE k \in DOMAIN kept : kept[k].child = listOf(n)[i] ELSE 0
      keptAmong(S) == {i \in S \cap DOMAIN listOf(n) : keptIndex(i) > 0}
      prev == keptAmong(1..(j - 1))
      prevKept == IF prev = {} THEN 0 ELSE keptIndex(CHOOSE i \in prev : \A k \in prev : k <= i)
      later == {i \in keptAmong((j + 1)..Len(listOf(n))) : keptIndex(i) > 1}
      gaps == 1..(Len(kept) - 1)
      First(S) == CHOOSE i \in S : \A k \in S : i <= k
  IN  CASE keptIndex(j) > 0 -> IF gaps = {} THEN 0 ELSE IF keptIndex(j) > 1 THEN keptIndex(j) - 1 ELSE 1
        [] prevKept \in gaps -> prevKept
        [] prevKept - 1 \in gaps -> prevKept - 1
        [] later # {} -> keptIndex(First(later)) - 1
        [] OTHER -> 0

printListRegion(n) ==
  LET kept == SelectSeq(layouts[n], LAMBDA i : i.child # NoNode /\ i.slot > fixedChildren(n))
      separator(j) ==
        LET g == gapBefore(n, kept, j)
        IN  CASE j = 1 -> <<>> [] g = 0 -> defaultSeparator(n) [] OTHER -> slice(kept[g].to, kept[g + 1].from)
  IN  FlattenSeq([j \in DOMAIN listOf(n) |-> separator(j) \o print(listOf(n)[j], FALSE)])

printLayout(n) ==
  LET items == layouts[n]
      inList(i) == items[i].slot > fixedChildren(n)
      texts == {i \in DOMAIN items : items[i].child = NoNode}
      region == {i \in DOMAIN items : inList(i)}
      insideRegion(i) == \E a \in region, b \in region : a < i /\ i < b
      dangling == commentsAt(n, "dangling", FALSE)
      one(i) == CASE i \in texts -> IF insideRegion(i) THEN <<>>
                                    ELSE slice(items[i].from, items[i].to)
                                         \o IF \E j \in texts : j < i /\ ~insideRegion(j) THEN <<>> ELSE dangling
                  [] inList(i) -> IF \E j \in region : j < i THEN <<>> ELSE printListRegion(n)
                  [] OTHER -> IF children[n][items[i].slot] = NoNode THEN <<>> ELSE print(children[n][items[i].slot], FALSE)
  IN  FlattenSeq([i \in DOMAIN items |-> one(i)]) \o IF \E i \in texts : ~insideRegion(i) THEN <<>> ELSE dangling

(* The unmoved dangling comments go before the child that follows them.       *)
printTemplate(n) ==
  LET own == SelectSeq(comments[n], LAMBDA c : c.place = "dangling" /\ ~c.moved)
      starts(S) == {StartOf(children[n][k]) : k \in {i \in S \cap DOMAIN children[n] : children[n][i] \in Original}}
      flushed(i) == printComments(SelectSeq(own, LAMBDA c : (\A s \in starts(1..(i - 1)) : c.at >= s) /\ \E s \in starts({i}) : c.at < s))
      rest == printComments(SelectSeq(own, LAMBDA c : \A s \in starts(DOMAIN children[n]) : c.at >= s))
      child(i) == IF children[n][i] = NoNode THEN <<>> ELSE flushed(i) \o print(children[n][i], TRUE)
      list == FlattenSeq([i \in DOMAIN listOf(n) |->
                (IF i = 1 THEN <<>> ELSE IF kindOf(n) = "call" THEN <<Comma>> ELSE <<Break>>) \o child(i + fixedChildren(n))])
      body == CASE kindOf(n) = "program" -> list
                [] kindOf(n) = "block" ->
                     IF listOf(n) = <<>> THEN <<Code("{")>> \o commentsAt(n, "dangling", FALSE) \o <<Code("}")>>
                     ELSE <<Code("{"), Break>> \o list \o <<Break, Code("}")>>
                [] kindOf(n) = "call" -> child(1) \o <<Code("(")>> \o list \o <<Code(")")>>
                [] kindOf(n) = "return" -> <<Code("return")>> \o child(1) \o <<Code(";")>>
                [] OTHER -> <<Code(n)>>
  IN  body \o rest

print(n, own) ==
  commentsAt(n, "leading", own)
  \o (CASE n \notin dirty -> slice(StartOf(n), EndOf(n))
        [] n \in DOMAIN layouts /\ layoutCovers(n) -> printLayout(n)
        [] OTHER -> printTemplate(n))
  \o commentsAt(n, "trailing", own)

(* As put, but a soft break is dropped before any text. *)
putWithoutBreaks(symbols) == SelectSeq(symbols, LAMBDA s : s # Soft)

(* flushNewline: a soft break is a line break unless one follows.             *)
put(symbols) ==
  LET at == SelectSeq([i \in DOMAIN symbols |-> i],
                      LAMBDA i : symbols[i] # Soft \/ i = Len(symbols) \/ symbols[i + 1].is # "break")
  IN  [i \in DOMAIN at |-> IF symbols[at[i]] = Soft THEN Break ELSE symbols[at[i]]]

Printed == put(slice(1, StartOf(Program)) \o print(Program, FALSE))

-----------------------------------------------------------------------------
(* Comments between two elements of a list that gained or lost one: the gap   *)
(* between them separates other elements now, or none.                        *)
InChangedGap(i) ==
  \E n \in DOMAIN layouts :
    LET was == SelectSeq(layouts[n], LAMBDA e : e.child # NoNode /\ e.slot > fixedChildren(n))
    IN  /\ [k \in DOMAIN was |-> was[k].child] # listOf(n)
        /\ \E k \in 1..(Len(was) - 1) : was[k].to <= i /\ i < was[k + 1].from

(* Dangling comments handed to a node with no text of its own to put them in.  *)
HandedAway(i) ==
  \E n \in DOMAIN comments \ DOMAIN layouts : \E k \in DOMAIN comments[n] :
    /\ comments[n][k].at = i /\ comments[n][k].place = "dangling" /\ comments[n][k].moved
    /\ kindOf(n) = "block" => listOf(n) # <<>>

(* A fix never loses or doubles a comment it did not mean to: every comment of *)
(* the file prints once, but for those a policy drops (CommentPolicy), those  *)
(* inside text that a fix replaced, those in a gap between list elements that  *)
(* now separates others (printListRegion) and those handed to a node that      *)
(* prints from its own slice or template (replace, moveRemovedComments).       *)
CommentsPrintOnce ==
  LET printed == Printed
      gone(i) == i \in dropped \/ HandedAway(i) \/ (InChangedGap(i) /\ i \notin deadRanges)
  IN  \A i \in {j \in DOMAIN sourceFile.text : IsComment(sourceFile.text[j])} :
        Cardinality({j \in DOMAIN printed : printed[j] = sourceFile.text[i]}) = 1 \/ gone(i)

(* docs/ast-design.md:18: "Comments are never silently lost." Whatever is      *)
(* edited, each comment of the file still prints, but for those that a policy *)
(* drops and those inside text that a fix replaced (CommentPolicy).           *)
CommentsAreNeverLost ==
  LET printed == Printed
  IN  \A i \in DOMAIN sourceFile.text : IsComment(sourceFile.text[i]) /\ i \notin dropped => \E j \in DOMAIN printed : printed[j] = sourceFile.text[i]

(* The code of a tree, with its separators. *)
RECURSIVE Tokens(_)
Tokens(n) ==
  LET child(i) == IF children[n][i] = NoNode THEN <<>> ELSE Tokens(children[n][i])
      list == FlattenSeq([i \in DOMAIN listOf(n) |->
                (IF i > 1 /\ kindOf(n) = "call" THEN <<Comma>> ELSE <<>>) \o child(i + fixedChildren(n))])
  IN  CASE kindOf(n) = "program" -> list
        [] kindOf(n) = "block" -> <<Code("{")>> \o list \o <<Code("}")>>
        [] kindOf(n) = "call" -> child(1) \o <<Code("(")>> \o list \o <<Code(")")>>
        [] kindOf(n) = "return" -> <<Code("return")>> \o child(1) \o <<Code(";")>>
        [] OTHER -> <<Code(n)>>

(* Code that a parser sees: what follows a line comment on its line is hidden. *)
Visible(printed) ==
  LET hidden(j) == \E i \in 1..(j - 1) : printed[i].is = "line" /\ \A k \in (i + 1)..j : printed[k].is # "break"
      at == SelectSeq([j \in DOMAIN printed |-> j], LAMBDA j : IsToken(printed[j]) /\ ~hidden(j))
  IN  [j \in DOMAIN at |-> printed[at[j]]]

(* Whatever is sliced, laid out or printed anew, and wherever comments went,   *)
(* the printed code is that of the tree: no element, separator or brace is    *)
(* lost or doubled, and no code ends up behind a line comment.                *)
PrintedCodeIsTheTree == Visible(Printed) = Tokens(Program)
=============================================================================
