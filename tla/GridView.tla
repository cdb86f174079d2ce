------------------------------- MODULE GridView -------------------------------
(***************************************************************************)
(* The result grid (gui/grid): cursor, scrolling, hidden columns, search,   *)
(* selection, yank and the request for more rows. Every operation runs on   *)
(* the UI goroutine; rows arrive, commits rewrite rows, a new result takes  *)
(* the grid over, and the pane is resized between any two of them. Several  *)
(* operations may run between two paints.                                   *)
(*                                                                          *)
(* A cell is its text, a sequence of runes; rows and columns are numbered   *)
(* from 0 as in the code. Styling and the encodings of a yank are left out. *)
(***************************************************************************)
EXTENDS Integers, Sequences, SequencesExt, FiniteSets, FiniteSetsExt

CONSTANTS GrRowPool,    \* rows that may arrive: sequences of cells, of length GrCols
          GrQueries,    \* what may be searched
          GrSizes,      \* <<width, height>> of the pane
          GrLoaded,     \* rows loaded at the start
          GrRemembered, \* hidden columns remembered for a table
          GrClicks,     \* where the header is clicked
          GrTopics,     \* what the user does beside moving about: sets of topics
          GrMinWidth, GrMaxWidth, ColSepWidth, AutoSizeSampleRowCount,
          ResultPageSize, PrefetchThreshold,
          GrCols,       \* columns of a result
          GrMaxRows,    \* bound on rows
          GrOps         \* bound on operations

ASSUME GrAssumption == /\ GrMinWidth \in Nat \ {0} /\ GrMaxWidth \in Nat /\ GrMinWidth <= GrMaxWidth
                       /\ {ColSepWidth, AutoSizeSampleRowCount, ResultPageSize, PrefetchThreshold, GrCols,
                           GrMaxRows, GrOps} \subseteq Nat
                       /\ \A r \in GrRowPool : Len(r) = GrCols
                       /\ \A s \in GrSizes : s \in Nat \X Nat

VARIABLE gr

NoChoice == <<>>
NoCol == -1
Rows(g) == 0 .. Len(g.rows) - 1
Cols(g) == 0 .. g.cols - 1
Cell(g, r, c) == g.rows[r + 1][c + 1]

-----------------------------------------
\* Search. A query with an upper-case rune is matched literally, any other
\* without regard to case; matches in a cell do not overlap.
Upper == {"A"}
lowerCase(ch) == IF ch = "A" THEN "a" ELSE ch
queryIsCaseSensitive(q) == \E i \in DOMAIN q : q[i] \in Upper
foldedMatchAt(text, i, q) ==
    /\ i + Len(q) - 1 <= Len(text)
    /\ \A k \in DOMAIN q : LET ch == text[i + k - 1] IN
                           IF queryIsCaseSensitive(q) THEN ch = q[k] ELSE lowerCase(ch) = lowerCase(q[k])
\* The start of every match, left to right.
substringMatches(text, q) ==
    LET from[i \in 1 .. Len(text) + Len(q) + 1] ==
          IF i > Len(text) THEN <<>>
          ELSE IF foldedMatchAt(text, i, q) THEN <<i>> \o from[i + Len(q)] ELSE from[i + 1]
    IN from[1]

\* The cells of rows in reading order, and the matches they hold.
computeMatches(rows, cols, q) ==
    LET cells == [k \in 1 .. Len(rows) * cols |-> <<(k - 1) \div cols, (k - 1) % cols>>]
        in(cell) == LET at == substringMatches(rows[cell[1] + 1][cell[2] + 1], q)
                    IN [k \in DOMAIN at |-> [row |-> cell[1], col |-> cell[2], at |-> at[k]]]
    IN FlattenSeq([k \in DOMAIN cells |-> in(cells[k])])
firstMatchAtOrAfter(matches, row, col) ==
    LET after == {i \in DOMAIN matches : \/ matches[i].row > row
                                         \/ matches[i].row = row /\ matches[i].col >= col}
    IN IF after = {} THEN 0 ELSE Min(after) - 1

-----------------------------------------
\* Columns: those hidden, the width of each, and which fit the pane.
nextVisibleCol(g, from, dir) ==
    LET beyond == {c \in Cols(g) \ g.hidden : IF dir > 0 THEN c > from ELSE c < from}
    IN IF beyond = {} THEN NoCol ELSE IF dir > 0 THEN Min(beyond) ELSE Max(beyond)
snapCursorOffHidden(g) ==
    LET right == nextVisibleCol(g, g.cursorCol, 1)
        left == nextVisibleCol(g, g.cursorCol, -1)
    IN IF g.cursorCol \notin g.hidden THEN g
       ELSE [g EXCEPT !.cursorCol = IF right # NoCol THEN right ELSE IF left # NoCol THEN left ELSE @]

autoSizeFromSample(g) ==
    LET sample == 0 .. Min({Len(g.rows), AutoSizeSampleRowCount}) - 1
        best(c) == Max({GrMinWidth} \cup {Len(Cell(g, r, c)) : r \in sample})
    IN [g EXCEPT !.widths = [c \in Cols(g) |-> Min({best(c), GrMaxWidth})],
                 !.widthsLocked = g.cols = 0 \/ Len(g.rows) >= AutoSizeSampleRowCount]
effectiveWidth(g, c) == IF c \in DOMAIN g.widths THEN Max({g.widths[c], GrMinWidth}) ELSE GrMinWidth

visibleColumnOrder(g) == SetToSortSeq({c \in Cols(g) \ g.hidden : c >= g.colOffset}, <)
SpanOf(g, cols) == FoldSeq(LAMBDA c, n : n + effectiveWidth(g, c) + ColSepWidth, 0, cols)
\* How many of the columns in order are drawn in a pane of this width.
fitColumns(g, order, innerW) ==
    LET fits(i) == SpanOf(g, SubSeq(order, 1, i - 1)) + effectiveWidth(g, order[i]) <= innerW
        clipped == {i \in DOMAIN order : ~fits(i)}
    IN IF clipped = {} THEN Len(order) ELSE Min(clipped) - 1
columnScrollHints(g, innerW) ==
    LET order == visibleColumnOrder(g)
    IN [left |-> \E c \in Cols(g) : c < g.colOffset /\ c \notin g.hidden,
        right |-> fitColumns(g, order, innerW) < Len(order)]
headerColumnAt(g, x) ==
    LET order == visibleColumnOrder(g)
        at == {i \in DOMAIN order : LET used == SpanOf(g, SubSeq(order, 1, i - 1))
                                    IN x >= used /\ x < used + effectiveWidth(g, order[i])}
    IN IF at = {} THEN NoCol ELSE order[Min(at)]

-----------------------------------------
\* State: g.painted is what the last Render drew, None once something
\* changed; g.asked the row counts at which more rows were asked for.
NoLine == [open |-> FALSE, row |-> 0, col |-> 0]
NoFlash == [on |-> FALSE, epoch |-> 0, timers |-> {}]
View(cols) ==
    [rows |-> <<>>, cols |-> cols, widths |-> [c \in 0 .. cols - 1 |-> GrMinWidth], widthsLocked |-> cols = 0,
     cursorRow |-> 0, cursorCol |-> 0, rowOffset |-> 0, colOffset |-> 0, viewHeight |-> 0, viewportHeight |-> 0,
     expandedLineOffset |-> 0, expandedVisibleRows |-> <<>>, expandedCursorRow |-> 0,
     selMode |-> "none", anchorRow |-> 0, anchorCol |-> 0,
     lastNearTailFireAt |-> -1, asked |-> <<>>,
     query |-> <<>>, matches |-> <<>>, current |-> 0, rewritten |-> FALSE,
     sort |-> [col |-> 0, dir |-> 0], headerClick |-> NoCol, hidden |-> {}]
\* What a new result leaves alone.
Kept(g) == Restrict(g, {"viewMode", "suppressNearTail", "flash", "overlay", "line", "yanked", "painted",
                        "topics", "ops"})
FreshGrid(topics) == [viewMode |-> "grid", suppressNearTail |-> FALSE, flash |-> NoFlash, overlay |-> NoChoice,
                  line |-> NoLine, yanked |-> NoChoice, painted |-> NoChoice, topics |-> topics, ops |-> 0]
With(v, kept) == [f \in DOMAIN v \cup DOMAIN kept |-> IF f \in DOMAIN v THEN v[f] ELSE kept[f]]

GrInit == \E rows \in GrLoaded, topics \in GrTopics :
    gr = autoSizeFromSample([With(View(GrCols), FreshGrid(topics)) EXCEPT !.rows = rows])

\* The result of an operation, not yet painted.
On(topic) == topic \in gr.topics
Did(g) == gr.ops < GrOps /\ gr' = [g EXCEPT !.painted = NoChoice, !.yanked = NoChoice, !.ops = @ + 1]

Expanded(g) == g.viewMode = "expanded"
\* The cursor-change callback, and the record view back at its top.
fireCursorChange(g) ==
    LET left == Expanded(g) /\ g.expandedCursorRow # g.cursorRow
    IN [g EXCEPT !.expandedLineOffset = IF left THEN 0 ELSE @,
                 !.colOffset = IF left THEN 0 ELSE @,
                 !.expandedCursorRow = g.cursorRow]

-----------------------------------------
\* Rows and columns.
SetColumns == \E cols \in {0, GrCols} :
    Did(autoSizeFromSample(With(View(cols), Kept(gr))))

\* Mutant: a match of the new rows keeps its row number in the batch.
batchMatches(g, new) == computeMatches(new, g.cols, g.query)
AppendedMatches(g, new) ==
    LET matches == computeMatches(new, g.cols, g.query)
    IN [i \in DOMAIN matches |-> [matches[i] EXCEPT !.row = @ + Len(g.rows)]]
AppendRows == \E new \in {<<r>> : r \in GrRowPool} \cup {<<r, r>> : r \in GrRowPool} :
    LET more == [gr EXCEPT !.rows = @ \o new,
                           !.matches = IF gr.query # <<>> THEN @ \o AppendedMatches(gr, new) ELSE @]
        sized == IF gr.widthsLocked THEN more ELSE autoSizeFromSample(more)
    IN /\ gr.cols > 0 /\ Len(gr.rows) + Len(new) <= GrMaxRows
       /\ Did(IF gr.rows = <<>> THEN fireCursorChange(sized) ELSE sized)

\* A commit's refetched values take the place of the row's.
UpdateRow == \E r \in Rows(gr), new \in GrRowPool :
    Did([gr EXCEPT !.rows[r + 1] = new, !.rewritten = gr.query # <<>>])

ClampedHidden(g, set) == set \cap Cols(g)
SetHiddenCols(g, set) ==
    LET hidden == ClampedHidden(g, set)
    IN IF hidden = {} THEN [g EXCEPT !.hidden = {}] ELSE snapCursorOffHidden([g EXCEPT !.hidden = hidden])
\* Hidden columns remembered by name for the table may be all of a result's.
RestoreHidden == \E set \in GrRemembered : Did(SetHiddenCols(gr, set))

HideOverlayOpen == /\ gr.overlay = NoChoice /\ gr.cols > 0
                   /\ Did([gr EXCEPT !.overlay = [hidden |-> gr.hidden, cursor |-> 0, names |-> gr.cols]])
HideOverlayMove == \E d \in {-1, 1} :
    /\ gr.overlay # NoChoice
    /\ Did([gr EXCEPT !.overlay.cursor = Max({0, Min({@ + d, gr.overlay.names - 1})})])
HideOverlayToggle ==
    LET ov == gr.overlay
        toggled == IF ov.cursor \in ov.hidden THEN ov.hidden \ {ov.cursor}
                   ELSE IF Cardinality(ov.hidden) + 1 >= ov.names THEN ov.hidden
                   ELSE ov.hidden \cup {ov.cursor}
    IN gr.overlay # NoChoice /\ Did([gr EXCEPT !.overlay.hidden = toggled])
HideOverlayClose == /\ gr.overlay # NoChoice
                    /\ Did([SetHiddenCols(gr, gr.overlay.hidden) EXCEPT !.overlay = NoChoice])

-----------------------------------------
\* Motions.
Left(g, row) == fireCursorChange([g EXCEPT !.cursorRow = row, !.expandedLineOffset = 0,
                                          !.colOffset = IF Expanded(g) THEN 0 ELSE @])
MoveCursorDown == gr.cursorRow + 1 \in Rows(gr) /\ Did(Left(gr, gr.cursorRow + 1))
MoveCursorUp == gr.cursorRow > 0 /\ gr.rows # <<>> /\ Did(Left(gr, gr.cursorRow - 1))
JumpFirst == Did(Left(gr, 0))
JumpLast == Did(Left(gr, IF gr.rows = <<>> THEN gr.cursorRow ELSE Len(gr.rows) - 1))
expandedHalfPageStep == 12
HalfPageStep(g) == IF Expanded(g) THEN (IF g.viewportHeight > 0 THEN Max({g.viewportHeight \div 2, 1})
                                         ELSE expandedHalfPageStep)
                   ELSE Max({ResultPageSize \div 2, 1})
HalfPageDown ==
    IF Expanded(gr) THEN Did([gr EXCEPT !.expandedLineOffset = @ + HalfPageStep(gr)])
    ELSE gr.rows # <<>> /\ Did(fireCursorChange(
            [gr EXCEPT !.cursorRow = Min({@ + HalfPageStep(gr), Len(gr.rows) - 1})]))
HalfPageUp ==
    IF Expanded(gr) THEN Did([gr EXCEPT !.expandedLineOffset = Max({@ - HalfPageStep(gr), 0})])
    ELSE gr.rows # <<>> /\ Did(fireCursorChange([gr EXCEPT !.cursorRow = Max({@ - HalfPageStep(gr), 0})]))
WrappedLine == \E d \in {-1, 1} :
    Expanded(gr) /\ Did([gr EXCEPT !.expandedLineOffset = Max({@ + d, 0})])
ToCol(g, c) == [g EXCEPT !.cursorCol = IF c # NoCol THEN c ELSE @]
HorizScroll == \E d \in {-1, 1} :
    Did(IF Expanded(gr) THEN [gr EXCEPT !.colOffset = Max({@ + d, 0})]
        ELSE ToCol(gr, nextVisibleCol(gr, gr.cursorCol, d)))
JumpColFirst == Did(IF Expanded(gr) THEN [gr EXCEPT !.colOffset = 0] ELSE ToCol(gr, nextVisibleCol(gr, -1, 1)))
JumpColLast == ~Expanded(gr) /\ Did(ToCol(gr, nextVisibleCol(gr, gr.cols, -1)))
SetCursor(g, row, col) ==
    fireCursorChange(snapCursorOffHidden(
        [g EXCEPT !.cursorRow = Max({0, Min({row, Len(g.rows) - 1})}),
                  !.cursorCol = Max({0, Min({col, g.cols - 1})})]))
SetViewMode(g, mode) == [g EXCEPT !.viewMode = mode, !.expandedLineOffset = 0, !.colOffset = 0,
                                  !.expandedVisibleRows = <<>>, !.expandedCursorRow = g.cursorRow]
ToggleViewMode == Did(SetViewMode(gr, IF Expanded(gr) THEN "grid" ELSE "expanded"))

-----------------------------------------
\* The search line: every keystroke searches, accepting keeps the search,
\* cancelling restores the cursor and drops it.
moveCursorToCurrentMatch(g) ==
    IF g.current + 1 \notin DOMAIN g.matches THEN g
    ELSE LET m == g.matches[g.current + 1]
         IN IF m.row \notin Rows(g) \/ m.col \notin Cols(g) THEN g
            ELSE fireCursorChange([g EXCEPT !.cursorRow = m.row, !.cursorCol = m.col])
ClearSearch(g) == [g EXCEPT !.query = <<>>, !.matches = <<>>, !.current = 0, !.rewritten = FALSE]
SetSearch(g, q) ==
    IF q = <<>> THEN ClearSearch(g)
    ELSE LET matches == computeMatches(g.rows, g.cols, q)
         IN moveCursorToCurrentMatch(
              [g EXCEPT !.query = q, !.matches = matches, !.rewritten = FALSE,
                        !.current = firstMatchAtOrAfter(matches, g.cursorRow, g.cursorCol)])
\* The line's callbacks for a cancel: the cursor as it was, then no search.
SearchPrompt(g) == ClearSearch(SetCursor(g, gr.line.row, gr.line.col))
SearchOpen == ~gr.line.open /\ Did([gr EXCEPT !.line = [open |-> TRUE, row |-> gr.cursorRow, col |-> gr.cursorCol]])
SearchType == \E q \in GrQueries \cup {<<>>} : gr.line.open /\ Did(SetSearch(gr, q))
SearchAccept == gr.line.open /\ Did([gr EXCEPT !.line = NoLine])
SearchCancel == gr.line.open /\ Did(SearchPrompt([gr EXCEPT !.line = NoLine]))
SearchClear == ~gr.line.open /\ gr.query # <<>> /\ Did(ClearSearch(gr))
stepMatch == \E dir \in {-1, 1} :
    /\ gr.matches # <<>>
    /\ Did(moveCursorToCurrentMatch([gr EXCEPT !.current = (@ + dir) % Len(gr.matches)]))

-----------------------------------------
\* Selection and yank.
EnterSelection == \E mode \in {"cell", "row", "block"} :
    LET m == IF mode = "block" /\ Expanded(gr) THEN "row" ELSE mode
    IN Did([gr EXCEPT !.selMode = m, !.anchorRow = gr.cursorRow,
                      !.anchorCol = IF m = "row" THEN 0 ELSE gr.cursorCol])
ClearSelection == gr.selMode # "none" /\ Did([gr EXCEPT !.selMode = "none"])
selectionRange(g) ==
    [r0 |-> Min({g.anchorRow, g.cursorRow}), r1 |-> Max({g.anchorRow, g.cursorRow}),
     c0 |-> IF g.selMode = "row" THEN 0 ELSE Min({g.anchorCol, g.cursorCol}),
     c1 |-> IF g.selMode = "row" THEN Max({g.cols - 1, 0}) ELSE Max({g.anchorCol, g.cursorCol})]
inSelection(g, r, c) ==
    IF g.selMode = "none" THEN r = g.cursorRow /\ c = g.cursorCol
    ELSE LET s == selectionRange(g)
         IN r \in s.r0 .. s.r1 /\ (g.selMode = "row" \/ c \in s.c0 .. s.c1)
\* The cells of a yank: with a selection the selection, else the row.
YankSelection(g) ==
    LET s == selectionRange(g)
        whole == [r0 |-> g.cursorRow, r1 |-> g.cursorRow, c0 |-> 0, c1 |-> Max({g.cols - 1, 0})]
        range == IF g.selMode = "none" THEN whole ELSE s
    IN {cell \in Rows(g) \X Cols(g) : cell[1] \in range.r0 .. range.r1 /\ cell[2] \in range.c0 .. range.c1}
YankCell(g) == (Rows(g) \X Cols(g)) \cap {<<g.cursorRow, g.cursorCol>>}
\* The yanked cells flash until their timer clears them.
setYankFlash(g) ==
    LET epoch == g.flash.epoch + 1
    IN [g EXCEPT !.flash = [on |-> TRUE, epoch |-> epoch, timers |-> @.timers \cup {epoch}]]
yankHandler == \E row \in BOOLEAN :
    LET cells == IF row THEN YankSelection(gr) ELSE YankCell(gr)
    IN /\ cells # {} /\ gr.ops < GrOps
       /\ gr' = [setYankFlash(gr) EXCEPT !.painted = NoChoice, !.yanked = <<row, cells>>, !.ops = @ + 1]
ClearYankFlash == \E epoch \in gr.flash.timers :
    gr' = [gr EXCEPT !.flash.timers = @ \ {epoch}, !.flash.on = IF epoch = gr.flash.epoch THEN FALSE ELSE @]

-----------------------------------------
\* The header: a second click on the same column within the double-click
\* window asks for a sort; the sort's indicator cycles.
SetSort(s, col) ==
    CASE s.dir = 0 \/ s.col # col -> [col |-> col, dir |-> 1]
      [] s.dir = 1 -> [col |-> col, dir |-> -1]
      [] OTHER -> [col |-> 0, dir |-> 0]
HandleHeaderClick == \E x \in GrClicks, quick \in BOOLEAN :
    LET col == headerColumnAt(gr, x)
    IN /\ gr.cols > 0 /\ col # NoCol
       /\ Did(IF gr.headerClick = col /\ quick
              THEN [gr EXCEPT !.headerClick = NoCol, !.sort = SetSort(@, col)]
              ELSE [gr EXCEPT !.headerClick = col])
SetSuppressNearTail == Did([gr EXCEPT !.suppressNearTail = ~@])

-----------------------------------------
\* Render. In the grid the offsets follow the cursor; in the record view
\* the cursor's record is on top, from the line scrolled to.
clampRow(g, dataRows) ==
    LET up == Min({g.cursorRow, g.rowOffset})
        down == IF g.cursorRow >= up + dataRows THEN g.cursorRow - dataRows + 1 ELSE up
    IN Max({0, IF g.rows # <<>> THEN Min({down, Len(g.rows) - 1}) ELSE down})
clampCol(g, innerW) ==
    LET start == Min({g.cursorCol, g.colOffset})
        span(from) == SpanOf(g, [i \in 1 .. Max({0, Min({g.cursorCol, g.cols - 1}) - from + 1}) |-> from + i - 1])
        enough == {c \in start .. g.cursorCol : c = g.cursorCol \/ span(c) <= innerW}
    IN Min(enough)
clampOffsets(g, innerW, innerH) ==
    LET dataRows == Max({innerH - 1, 1})
    IN [g EXCEPT !.rowOffset = clampRow(g, dataRows), !.colOffset = clampCol(g, innerW),
                 !.viewHeight = dataRows, !.viewportHeight = innerH]
DrawnRows(g) == [i \in 1 .. Max({0, Min({g.rowOffset + g.viewHeight, Len(g.rows)}) - g.rowOffset}) |-> g.rowOffset + i - 1]

\* A record is its separator and the wrapped lines of its visible columns.
RecordLines(g, r, valueWidth) ==
    LET lines(c) == LET n == Max({0, Len(Cell(g, r, c)) - g.colOffset})
                    IN Max({1, (n + valueWidth - 1) \div valueWidth})
    IN 1 + MapThenSumSet(lines, Cols(g) \ g.hidden)
expandedViewport(g, innerW, innerH) ==
    LET blank == innerW = 0 \/ innerH = 0 \/ g.cols = 0 \/ g.rows = <<>>
        size(r) == RecordLines(g, r, Max({innerW - 3, 1}))
        start == Min({g.expandedLineOffset, size(g.cursorRow) - 1})
        above(r) == MapThenSumSet(size, g.cursorRow .. r - 1) - start
    IN IF blank THEN [rows |-> <<>>, lineOffset |-> 0]
       ELSE [rows |-> SetToSortSeq({r \in Rows(g) : r >= g.cursorRow /\ (r = g.cursorRow \/ above(r) < innerH)}, <),
             lineOffset |-> start]

maybeFireNearTail(g) ==
    IF \/ g.rows = <<>> \/ g.suppressNearTail
       \/ Len(g.rows) - g.cursorRow > PrefetchThreshold
       \/ Len(g.rows) = g.lastNearTailFireAt THEN g
    ELSE [g EXCEPT !.lastNearTailFireAt = Len(g.rows), !.asked = Append(@, Len(g.rows))]

Paint(g, innerW, innerH) ==
    IF Expanded(g)
    THEN LET w == expandedViewport(g, innerW, innerH)
         IN maybeFireNearTail([g EXCEPT !.expandedLineOffset = w.lineOffset, !.expandedVisibleRows = w.rows,
                                        !.viewHeight = innerH, !.viewportHeight = innerH])
    ELSE IF g.cols = 0 THEN g
    ELSE maybeFireNearTail(clampOffsets(g, innerW, innerH))
\* A grid that has no room is laid out for a default pane.
InnerSize(g, size) ==
    IF Expanded(g) THEN size
    ELSE <<IF size[1] > 0 THEN size[1] ELSE 80, IF size[2] > 0 THEN size[2] ELSE 24>>
Render == \E size \in GrSizes :
    LET s == InnerSize(gr, size)
        g == Paint(gr, s[1], s[2])
        order == visibleColumnOrder(g)
        drawn == [rows |-> IF Expanded(g) THEN g.expandedVisibleRows ELSE DrawnRows(g),
                  cols |-> IF Expanded(g) THEN Cols(g) \ g.hidden
                           ELSE Range(SubSeq(order, 1, fitColumns(g, order, s[1]))),
                  width |-> s[1], height |-> s[2]]
    IN gr' = [g EXCEPT !.painted = drawn]

GrNext ==
    \/ SetColumns \/ AppendRows \/ UpdateRow \/ SetSuppressNearTail \/ Render
    \/ MoveCursorDown \/ MoveCursorUp \/ JumpFirst \/ JumpLast \/ HalfPageDown \/ HalfPageUp
    \/ HorizScroll \/ JumpColFirst \/ JumpColLast
    \/ On("hide") /\ (RestoreHidden \/ HideOverlayOpen \/ HideOverlayMove \/ HideOverlayToggle \/ HideOverlayClose)
    \/ On("record") /\ (ToggleViewMode \/ WrappedLine)
    \/ On("search") /\ (SearchOpen \/ SearchType \/ SearchAccept \/ SearchCancel \/ SearchClear \/ stepMatch)
    \/ On("select") /\ (EnterSelection \/ ClearSelection \/ yankHandler \/ ClearYankFlash)
    \/ On("sort") /\ HandleHeaderClick

GrSpec == GrInit /\ [][GrNext]_gr

-----------------------------------------
\* What the grid's readers rely on.
\* The rows an export of the visible rows takes.
VisibleRows(g) ==
    IF g.rows = <<>> \/ g.viewHeight = 0 THEN <<>>
    ELSE IF Expanded(g) THEN SelectSeq(g.expandedVisibleRows, LAMBDA r : r \in Rows(g))
    ELSE DrawnRows(g)

CursorOnCell(g) == g.cursorRow \in 0 .. Max({0, Len(g.rows) - 1}) /\ g.cursorCol \in 0 .. Max({0, g.cols - 1})
MatchesAreTheCells(g) ==
    /\ g.matches # <<>> => g.current + 1 \in DOMAIN g.matches
    /\ ~g.rewritten => g.matches = IF g.query = <<>> THEN <<>> ELSE computeMatches(g.rows, g.cols, g.query)
CursorDrawn(g) ==
    LET room == g.painted.width >= 1 /\ g.painted.height >= 1
        seen == g.cursorCol \notin g.hidden /\ effectiveWidth(g, g.cursorCol) <= g.painted.width
    IN (g.rows # <<>> /\ room) => /\ g.cursorRow \in Range(g.painted.rows)
                                  /\ seen => g.cursorCol \in g.painted.cols
HintsTellTheRest(g) ==
    LET h == columnScrollHints(g, g.painted.width)
    IN ~Expanded(g) => (Cols(g) \ g.hidden = g.painted.cols <=> ~h.left /\ ~h.right)

-----------------------------------------
\* The grid tells the truth: the cursor is on a cell; the matches are those
\* of the loaded cells, however the rows arrived, until a commit rewrites a
\* row; after a paint the cursor is on screen, the rows an export would
\* call visible are those drawn, and the arrows are shown exactly when a
\* column is left out; more rows are asked for once for each number of
\* loaded rows, and never forgotten near the tail; a yanked selection is
\* the highlighted cells; a flash has a timer that ends it.
GridTruth ==
    /\ CursorOnCell(gr)
    /\ MatchesAreTheCells(gr)
    /\ gr.painted # NoChoice =>
         /\ CursorDrawn(gr)
         /\ HintsTellTheRest(gr)
         /\ gr.cols > 0 => VisibleRows(gr) = gr.painted.rows
         /\ (gr.rows # <<>> /\ ~gr.suppressNearTail /\ Len(gr.rows) - gr.cursorRow <= PrefetchThreshold)
              => Len(gr.rows) \in Range(gr.asked)
    /\ IsInjective(gr.asked)
    /\ (gr.yanked # NoChoice /\ gr.selMode # "none" /\ gr.yanked[1]) =>
         gr.yanked[2] = {cell \in Rows(gr) \X Cols(gr) : inSelection(gr, cell[1], cell[2])}
    /\ gr.flash.on => gr.flash.epoch \in gr.flash.timers
==============================================================================
