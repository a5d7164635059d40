---------------------------- MODULE WorkspaceTree ----------------------------
(***************************************************************************)
(* The tree of the tiled workspace, as the window keeps it: a pane has tabs *)
(* and shows one of them, a split has a direction and children.  Panes are  *)
(* addressed by their place among the leaves, which each function finds by  *)
(* counting.  The weights of the children are layout, and left out.         *)
(* Module Workspace keeps the leaves alone; MCAlgorithms compares the two.  *)
(***************************************************************************)
EXTENDS Naturals, Sequences, SequencesExt

Empty == [kind |-> "Empty"]
Pane(tabs, shown) == [kind |-> "Pane", tabs |-> tabs, shown |-> shown]
Split(dir, children) == [kind |-> "Split", dir |-> dir, children |-> children]
Other(dir) == IF dir = "Row" THEN "Col" ELSE "Row"

Least(a, b) == IF a < b THEN a ELSE b

\* The panes in order, as [tabs, shown].
RECURSIVE Tiles(_)
Tiles(node) ==
  CASE node.kind = "Empty" -> <<>>
    [] node.kind = "Pane" -> << [tabs |-> node.tabs, shown |-> node.shown] >>
    [] OTHER -> FlattenSeq([i \in DOMAIN node.children |-> Tiles(node.children[i])])

PanesCount(node) == Len(Tiles(node))
Leaves(node) == FlattenSeq([p \in 1..PanesCount(node) |-> Tiles(node)[p].tabs])

\* The tree with new[p] in the place of pane p.  A pane replaced by nothing
\* goes, and a split left with one child is that child.
RECURSIVE Rebuilt(_, _, _)
Rebuilt(node, before, new) ==
  CASE node.kind = "Empty" -> Empty
    [] node.kind = "Pane" -> new[before + 1]
    [] OTHER ->
       LET Counted(i) == FoldLeft(LAMBDA n, c : n + PanesCount(c), before,
                                  SubSeq(node.children, 1, i - 1))
           kept == SelectSeq([i \in DOMAIN node.children |->
                                Rebuilt(node.children[i], Counted(i), new)],
                             LAMBDA c : c # Empty)
       IN CASE kept = <<>> -> Empty
            [] Len(kept) = 1 -> kept[1]
            [] OTHER -> Split(node.dir, kept)

PanesOf(node) == [p \in 1..PanesCount(node) |-> Pane(Tiles(node)[p].tabs, Tiles(node)[p].shown)]

\* The tree with one pane replaced; the first tile of a workspace without any
\* holds the session.
WithPane(node, target, pane, session) ==
  IF node = Empty THEN Pane(<<session>>, 1)
  ELSE Rebuilt(node, 0, [p \in 1..PanesCount(node) |->
                           IF p = target THEN pane ELSE PanesOf(node)[p]])

\* A pane with other tabs, gone if it has none.
Retabbed(pane, tabs) ==
  IF tabs = <<>> THEN Empty ELSE Pane(tabs, Least(pane.shown, Len(tabs)))

GetPane(node, target) == Tiles(node)[target]

SwitchTab(node, target, tab) ==
  LET pane == GetPane(node, target)
  IN WithPane(node, target, Pane(pane.tabs, Least(tab, Len(pane.tabs))), 0)

\* Wherever the session is tiled it is shown; the pane found is the last one.
Position(tabs, session) == CHOOSE t \in DOMAIN tabs : tabs[t] = session /\ \A u \in 1..(t - 1) : tabs[u] # session
ActivateSession(node, session) ==
  LET has == {p \in 1..PanesCount(node) : Contains(Tiles(node)[p].tabs, session)}
  IN [tree |-> Rebuilt(node, 0, [p \in 1..PanesCount(node) |->
                 IF p \in has THEN Pane(Tiles(node)[p].tabs, Position(Tiles(node)[p].tabs, session))
                              ELSE PanesOf(node)[p]]),
      pane |-> IF has = {} THEN 0 ELSE CHOOSE p \in has : \A q \in has : q <= p]

\* A pane becomes a split of itself and a new one, across its parent.
RECURSIVE SplitAt(_, _, _, _, _)
SplitAt(node, before, target, session, dir) ==
  CASE node.kind = "Pane" ->
         IF target = before + 1 THEN Split(dir, <<node, Pane(<<session>>, 1)>>) ELSE node
    [] node.kind = "Split" ->
         LET Counted(i) == FoldLeft(LAMBDA n, c : n + PanesCount(c), before,
                                    SubSeq(node.children, 1, i - 1))
         IN Split(node.dir, [i \in DOMAIN node.children |->
              SplitAt(node.children[i], Counted(i), target, session, Other(node.dir))])

Insert(node, focus, session) ==
  LET activated == ActivateSession(node, session)
      target == Least(focus, PanesCount(node))
  IN CASE activated.pane # 0 -> activated
       [] node = Empty -> [tree |-> Pane(<<session>>, 1), pane |-> 1]
       [] OTHER -> [tree |-> SplitAt(node, 0, target, session, "Row"), pane |-> target + 1]

AddTabToPane(node, target, session) ==
  LET tabs == GetPane(node, target).tabs
      more == IF Contains(tabs, session) THEN tabs ELSE Append(tabs, session)
  IN WithPane(node, target, Pane(more, Position(more, session)), session)

\* remove_session_no_renumber, and the removal of a session that closes.
WithoutSession(node, session) ==
  Rebuilt(node, 0, [p \in 1..PanesCount(node) |->
    Retabbed(Tiles(node)[p], SelectSeq(Tiles(node)[p].tabs, LAMBDA s : s # session))])

RemoveSession(node, closed) ==
  LET kept == WithoutSession(node, closed)
      Moved(tabs) == [t \in DOMAIN tabs |-> IF tabs[t] > closed THEN tabs[t] - 1 ELSE tabs[t]]
  IN Rebuilt(kept, 0, [p \in 1..PanesCount(kept) |->
       Pane(Moved(Tiles(kept)[p].tabs), Tiles(kept)[p].shown)])

RemoveAndFocus(node, focus, closed) ==
  LET tree == RemoveSession(node, closed)
  IN [tree |-> tree, focus |-> IF tree = Empty THEN 1 ELSE Least(focus, PanesCount(tree))]

InsertTabIntoPane(node, target, session) ==
  LET clean == WithoutSession(node, session)
      tabs == Append(IF target <= PanesCount(clean) THEN GetPane(clean, target).tabs ELSE <<>>,
                     session)
  IN WithPane(clean, target, Pane(tabs, Len(tabs)), session)

\* A pane and a new one beside it.
Beside(pane, session, dir, after) ==
  Split(dir, IF after THEN <<pane, Pane(<<session>>, 1)>> ELSE <<Pane(<<session>>, 1), pane>>)

SplitPaneWithSession(node, target, session, dir, after) ==
  LET clean == WithoutSession(node, session)
      at == Least(target, PanesCount(clean))
  IN WithPane(clean, at, Beside(PanesOf(clean)[at], session, dir, after), session)

SplitPaneNewSession(node, target, session, dir, after) ==
  LET at == Least(target, PanesCount(node))
  IN [tree |-> WithPane(node, at, Beside(PanesOf(node)[at], session, dir, after), session),
      focus |-> IF node = Empty THEN 1 ELSE IF after THEN at + 1 ELSE at]

\* The tab is taken out, and put into a pane of the tree without it.
MoveTab(node, fromPane, fromTab, toPane, toPos) ==
  LET tabs == GetPane(node, fromPane).tabs
      session == tabs[fromTab]
      rest == Rebuilt(node, 0, [p \in 1..PanesCount(node) |->
                IF p = fromPane THEN Retabbed(Tiles(node)[p], RemoveAt(tabs, fromTab))
                                ELSE PanesOf(node)[p]])
      there == IF toPane <= PanesCount(rest) THEN GetPane(rest, toPane).tabs ELSE <<>>
      at == Least(toPos, Len(there) + 1)
  IN IF fromPane > PanesCount(node) \/ fromTab > Len(tabs) THEN node
     ELSE WithPane(rest, toPane, Pane(InsertAt(there, at, session), at), session)

\* A tab that shows a session tiled before it gets a fresh session of its own,
\* the first of those made for that session.
Unique(node, sessions) ==
  LET leaves == Leaves(node)
      again == SelectSeq([k \in DOMAIN leaves |-> k],
                         LAMBDA k : \E j \in 1..(k - 1) : leaves[j] = leaves[k])
      Fresh(k) == IF Contains(again, k) THEN sessions + Position(again, k) ELSE leaves[k]
      First(p) == Len(FlattenSeq([q \in 1..(p - 1) |-> Tiles(node)[q].tabs]))
  IN Rebuilt(node, 0, [p \in 1..PanesCount(node) |->
       Pane([t \in DOMAIN Tiles(node)[p].tabs |-> Fresh(First(p) + t)], Tiles(node)[p].shown)])
==============================================================================
