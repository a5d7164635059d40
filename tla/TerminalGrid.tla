----------------------------- MODULE TerminalGrid -----------------------------
(***************************************************************************)
(* What a terminal pane computes from its grid: the runs a row is drawn as, *)
(* the cells a drag selects and the text they copy, the matches of a        *)
(* search, the rows a wheel scrolls, the cell under a point, the size the   *)
(* shell is told, the state the pane shows of its session, and (with        *)
(* sshdeck-terminal/src/lib.rs) what keys and pastes are sent as.          *)
(*                                                                         *)
(* A row is a sequence of cells, columns are counted from zero as in the    *)
(* code, and the text of a cell is empty in one that was never written.     *)
(***************************************************************************)
EXTENDS Integers, Sequences, SequencesExt, FiniteSets, FiniteSetsExt

Least(m, n) == IF m < n THEN m ELSE n
Most(m, n) == IF m < n THEN n ELSE m
Clamp(n, low, high) == Most(low, Least(n, high))
Texts(cells) == FoldLeft(LAMBDA out, cell : out \o cell.text, <<>>, cells)

-----------------------------------------------------------------------------
(* Colours *)

CubeLevels == <<0, 95, 135, 175, 215, 255>>

\* The colour of an index that the scheme does not give; a byte each.
ColorToRgb(index) ==
  IF index <= 231
  THEN LET n == index - 16
       IN <<CubeLevels[((n \div 36) % 6) + 1], CubeLevels[((n \div 6) % 6) + 1],
            CubeLevels[(n % 6) + 1]>>
  ELSE LET grey == (8 + 10 * (index - 232)) % 256 IN <<grey, grey, grey>>

\* The two colours a run is drawn in: the scheme's stand in for the default
\* ones, and inverse video swaps the two.
RunColors(style, scheme) ==
  LET Or(c, default) == IF c = "Default" THEN default ELSE c
      fg == Or(style.fg, scheme.fg)
      bg == Or(style.bg, scheme.bg)
  IN IF style.inverse THEN [fg |-> bg, bg |-> fg] ELSE [fg |-> fg, bg |-> bg]

-----------------------------------------------------------------------------
(* Drawing a row *)

Run(start, cell) ==
  [start |-> start, len |-> 1, text |-> cell.text, style |-> cell.style]

\* A cell joins the run before it when it has its style.
CoalesceRow(cells) ==
  FoldLeft(
    LAMBDA runs, col :
      LET cell == cells[col + 1]
      IN IF /\ runs # <<>>
            /\ Last(runs).start + Last(runs).len = col
            /\ Last(runs).style = cell.style
         THEN [runs EXCEPT ![Len(runs)].text = @ \o cell.text,
                           ![Len(runs)].len = @ + 1]
         ELSE Append(runs, Run(col, cell)),
    <<>>, [i \in 1 .. Len(cells) |-> i - 1])

Quad(kind, start, len, what) ==
  [kind |-> kind, start |-> start, len |-> len, what |-> what]

\* The layers of a row, the last on top: the backgrounds that a cell asked for,
\* the selection, the matches, the text, the cursor.
RenderRow(row, runs, scheme, span, found, current, cursor) ==
  LET Fills(r) == r.style.bg # "Default" \/ r.style.inverse
      filled == SelectSeq(runs, Fills)
      written == SelectSeq(runs, LAMBDA r : r.text # <<>>)
      here == SelectSeq([i \in 1 .. Len(found) |-> [n |-> i, of |-> found[i]]],
                        LAMBDA f : f.of.row = row)
      Background(r) == Quad("background", r.start, r.len, RunColors(r.style, scheme).bg)
      Glyphs(r) == Quad("text", r.start, r.len, [text |-> r.text, fg |-> RunColors(r.style, scheme).fg])
      Match(f) == Quad(IF f.n = current THEN "current" ELSE "match",
                       f.of.col, f.of.len, f.n)
      Marked == IF span = {} THEN <<>>
                ELSE LET s == CHOOSE s \in span : TRUE
                     IN <<Quad("selection", s.first, s.last - s.first + 1, "")>>
  IN [i \in DOMAIN filled |-> Background(filled[i])] \o Marked
     \o [i \in DOMAIN here |-> Match(here[i])]
     \o [i \in DOMAIN written |-> Glyphs(written[i])]
     \o (IF cursor = -1 THEN <<>> ELSE <<Quad("cursor", cursor, 1, "")>>)

-----------------------------------------------------------------------------
(* Selecting *)

At(row, col) == [row |-> row, col |-> col]
NotAfter(p, q) == p.row < q.row \/ (p.row = q.row /\ p.col <= q.col)

\* The ends of a drag in the order they are read.
Normalized(drag) ==
  IF NotAfter(drag.anchor, drag.head)
  THEN [start |-> drag.anchor, end |-> drag.head]
  ELSE [start |-> drag.head, end |-> drag.anchor]

\* The columns of a row that are selected, none or one span, within the grid as
\* it is now.
SelectionSpan(drag, row, cols) ==
  LET ends == Normalized(drag)
      first == IF row = ends.start.row THEN ends.start.col ELSE 0
      last == IF row = ends.end.row THEN ends.end.col ELSE cols - 1
      Span == [first |-> Least(first, cols - 1), last |-> Least(last, cols - 1)]
  IN IF cols = 0 \/ row < ends.start.row \/ row > ends.end.row \/ Span.first > Span.last
     THEN {} ELSE {Span}

TrimEnd(text) ==
  LET written == {i \in DOMAIN text : text[i] # " "}
  IN IF written = {} THEN <<>> ELSE SubSeq(text, 1, Max(written))

\* What a drag copies: the selected part of each row without its trailing
\* blanks, a line feed between rows.
SelectionText(grid, cols, drag) ==
  LET ends == Normalized(drag)
      Part(row) ==
        LET span == SelectionSpan(drag, row, cols)
        IN IF span = {} \/ row >= Len(grid) THEN <<>>
           ELSE LET s == CHOOSE s \in span : TRUE
                IN TrimEnd(Texts(SubSeq(grid[row + 1], s.first + 1, s.last + 1)))
  IN IF cols = 0 THEN <<>>
     ELSE FoldLeft(LAMBDA out, n :
                     LET row == ends.start.row + n
                     IN out \o Part(row)
                        \o (IF row = ends.end.row THEN <<>> ELSE <<"LF">>),
                   <<>>, [i \in 1 .. ends.end.row - ends.start.row + 1 |-> i - 1])

-----------------------------------------------------------------------------
(* Searching *)

\* The characters of a row, each with its column.
RowText(cells) ==
  FoldLeft(LAMBDA out, col :
             LET text == cells[col + 1].text
             IN out \o [i \in DOMAIN text |-> [char |-> text[i], col |-> col]],
           <<>>, [i \in 1 .. Len(cells) |-> i - 1])

\* The occurrences of a query in a row, from the left and disjoint, by column.
MatchesOf(row, cells, query) ==
  LET text == RowText(cells)
      n == Len(query)
      Occurs(i) == \A k \in 1 .. n : text[i + k - 1].char = query[k]
      Span(i) == [row |-> row, col |-> text[i].col,
                  len |-> text[i + n - 1].col - text[i].col + 1]
      scan == FoldLeft(LAMBDA s, i :
                         IF i >= s.next /\ Occurs(i)
                         THEN [next |-> i + n, found |-> Append(s.found, Span(i))]
                         ELSE s,
                       [next |-> 1, found |-> <<>>],
                       [i \in 1 .. Most(Len(text) - n + 1, 0) |-> i])
  IN scan.found

FindMatches(grid, query) ==
  IF query = <<>> THEN <<>>
  ELSE FoldLeft(LAMBDA out, row : out \o MatchesOf(row, grid[row + 1], query),
                <<>>, [i \in 1 .. Len(grid) |-> i - 1])

-----------------------------------------------------------------------------
(* Scrolling and pointing *)

\* Lines are counted in halves, so that a trackpad gives fractions of one.
Truncated(halves) == IF halves < 0 THEN -((-halves) \div 2) ELSE halves \div 2

\* A wheel's lines move the view by whole ones; the rest is kept.
FoldScroll(view, lines) ==
  LET pending == view.pending + lines
      whole == Truncated(pending)
  IN [offset |-> Most(view.offset + whole, 0), pending |-> pending - 2 * whole]

\* The cell under a point, or the nearest one of the grid.
CellAt(x, y, cell, cols, rows) ==
  At(Clamp(y \div Most(cell.h, 1), 0, Most(rows - 1, 0)),
     Clamp(x \div Most(cell.w, 1), 0, Most(cols - 1, 0)))

-----------------------------------------------------------------------------
(* The size of the grid *)

Placeholder == At(24, 80)

\* What the shell was asked is a sequence of sizes: a queue that is full
\* refuses one, which is recorded as sent nevertheless.
NewGrid(live) == [size |-> Placeholder, sent |-> Placeholder, live |-> live, asked |-> <<>>]

Ask(pane, size) ==
  [pane EXCEPT !.asked = IF pane.live THEN Append(@, size) ELSE @, !.sent = size]

\* The grid takes the size its place in the window allows.
Resize(pane, rows, cols) ==
  LET size == At(Most(rows, 1), Most(cols, 1))
  IN IF pane.size = size THEN pane ELSE Ask([pane EXCEPT !.size = size], size)

Paint(pane, place, cell) ==
  Resize(pane, place.h \div cell.h, place.w \div cell.w)

SyncSize(pane) == IF pane.size = pane.sent THEN pane ELSE Ask(pane, pane.size)

-----------------------------------------------------------------------------
(* The session as the pane shows it *)

Terminal == {"Disconnected", "Failed", "Closed"}

\* A session that was rejected has no events; the reason is told at once.
NewPane(accepted) ==
  [status |-> IF accepted THEN "Connecting" ELSE "Failed",
   ended |-> IF accepted THEN "" ELSE "Rejected", stop |-> ~accepted, fed |-> 0]

Apply(pane, event) ==
  IF pane.stop THEN pane
  ELSE CASE event = "Data" -> [pane EXCEPT !.fed = @ + 1]
         [] event = "Connected" -> [pane EXCEPT !.status = "Connected"]
         [] event \in {"Closed", "Exited"} ->
              [pane EXCEPT !.status = "Closed", !.ended = event, !.stop = TRUE]
         [] event = "Error" ->
              [pane EXCEPT !.status = "Failed", !.ended = event, !.stop = TRUE]
         [] OTHER -> [pane EXCEPT !.status = event, !.stop = event \in Terminal]

\* The events, and then the end of their channel.
Watch(pane, events) ==
  LET last == FoldLeft(Apply, pane, events)
  IN IF last.ended # "" THEN last
     ELSE [last EXCEPT !.ended = "Unexpected", !.status = "Closed", !.stop = TRUE]

-----------------------------------------------------------------------------
(* What keys and pastes are sent as: the remote reads bytes and has to know *)
(* the key again.  A byte sequence is a sequence of names and numbers.      *)

Arrows == [Up |-> "A", Down |-> "B", Right |-> "C", Left |-> "D", Home |-> "H", End |-> "F"]
Tildes == [Insert |-> 2, Delete |-> 3, PageUp |-> 5, PageDown |-> 6, F5 |-> 15, F6 |-> 17,
           F7 |-> 18, F8 |-> 19, F9 |-> 20, F10 |-> 21, F11 |-> 23, F12 |-> 24]
Function == [F1 |-> "P", F2 |-> "Q", F3 |-> "R", F4 |-> "S"]
Plain == [Enter |-> "CR", Tab |-> "HT", Backspace |-> "DEL", Escape |-> "ESC"]
Keys == DOMAIN Arrows \cup DOMAIN Tildes \cup DOMAIN Function \cup DOMAIN Plain

(* 1 + shift + 2*alt + 4*ctrl *)
ModifierParameter(mods) ==
  1 + (IF "shift" \in mods THEN 1 ELSE 0) + (IF "alt" \in mods THEN 2 ELSE 0)
    + (IF "ctrl" \in mods THEN 4 ELSE 0)

EscapePrefix(byte, mods) == IF "alt" \in mods THEN <<"ESC", byte>> ELSE <<byte>>

Csi(final, m) == <<"ESC", "[">> \o (IF m > 1 THEN <<1, ";", m>> ELSE <<>>) \o <<final>>

Ss3(final, m) == IF m > 1 THEN Csi(final, m) ELSE <<"ESC", "O", final>>

(* Mutant: the application mode hides the modifiers. *)
CursorKeyBare(final, m, application) ==
  IF application THEN <<"ESC", "O", final>> ELSE Csi(final, m)

CursorKey(final, m, application) ==
  IF application /\ m = 1 THEN Ss3(final, m) ELSE Csi(final, m)

Tilde(n, m) == <<"ESC", "[", n>> \o (IF m > 1 THEN <<";", m>> ELSE <<>>) \o <<"~">>

EncodeKey(key, mods, application) ==
  LET m == ModifierParameter(mods)
  IN CASE key \in DOMAIN Plain    -> EscapePrefix(Plain[key], mods)
       [] key \in DOMAIN Arrows   -> CursorKey(Arrows[key], m, application)
       [] key \in DOMAIN Tildes   -> Tilde(Tildes[key], m)
       [] key \in DOMAIN Function -> Ss3(Function[key], m)

(* encode_paste(): framed if the remote asked for it, otherwise with every    *)
(* line break as the Return key sends it.                                    *)
EncodePaste(text, bracketed) ==
  LET Step(s, c) ==
        [cr |-> c = "CR",
         out |-> CASE c = "LF" /\ s.cr  -> s.out
                   [] c = "LF" /\ ~s.cr -> Append(s.out, "CR")
                   [] OTHER             -> Append(s.out, c)]
  IN IF bracketed THEN <<"ESC", "[", 200, "~">> \o text \o <<"ESC", "[", 201, "~">>
     ELSE FoldLeft(Step, [cr |-> FALSE, out |-> <<>>], text).out
=============================================================================
