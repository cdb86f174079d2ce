------------------------------ MODULE VimEditor ------------------------------
(***************************************************************************)
(* The modal editor of the query pane: the buffer with its undo tree, the   *)
(* handlers of VimEditorController, the keys of Insert mode and the         *)
(* completion popup (pkg/gui/editor, vim_editor_controller.go,              *)
(* suggestions_context.go). Everything runs on the UI goroutine, so a key   *)
(* is one step. EditorText holds the pure text algorithms.                  *)
(*                                                                          *)
(* Node n of the undo tree is its n-th edit and node 0 the buffer as it was *)
(* loaded; `was` is the text after the edit, which the code does not keep.  *)
(* A node's newest child is the one Redo takes. Named registers, the jump   *)
(* list and the yank flash are left out.                                    *)
(***************************************************************************)
EXTENDS EditorText

CONSTANTS EdTopics,   \* a text to load, the clipboard, and the motions, objects and operators used on it
          EdCounts,   \* counts typed before a key
          EdCap,      \* nodes the undo tree keeps
          EdKeys      \* bound on the keys pressed

ASSUME EdAssumption == EdCap >= 1 /\ EdKeys \in Nat /\ EdCounts \subseteq Nat \ {0}

VARIABLE ed

Visual == {"visual", "line", "block"}
Operators == {"d", "y", "c", "gU", "gu", ">", "<"}
isChange(op) == op = "c"
isYank(op) == op = "y"
linewiseOp(op) == op \in {">", "<"}
\* The modes a kind of key is bound in.
BoundIn == [motion |-> Visual \cup {"normal", "pending"}, operator |-> Visual \cup {"normal", "pending"},
            object |-> Visual \cup {"pending"}, paste |-> Visual \cup {"normal"},
            enter |-> {"normal"}, history |-> {"normal"},
            visualExit |-> Visual, insertExit |-> {"insert", "pending"}, insert |-> {"insert"}]

NoSel == NoRange
Hidden == [visible |-> FALSE, n |-> 0, selected |-> 0, anchor |-> At(0, 0)]
NoRepeat == [op |-> "none", motion |-> "none", object |-> "none", around |-> FALSE, count |-> 1]
EdRoot(t) == [edit |-> NoEdit, rev |-> NoEdit, parent |-> -1, was |-> t]

EdFresh(t, topic) ==
    [topic |-> topic, text |-> t, cursor |-> At(0, 0), sel |-> NoSel, mode |-> "normal", op |-> "none",
     last |-> NoRepeat, reg |-> NoText, clip |-> topic.clip, lastWrite |-> NoText,
     node |-> [n \in {0} |-> EdRoot(t)], root |-> 0, current |-> 0, size |-> 0,
     popup |-> Hidden, suppress |-> FALSE, trigger |-> At(0, 0), keys |-> 0, putFailed |-> FALSE]

EdInit == \E topic \in EdTopics : ed = EdFresh(topic.text, topic)

-----------------------------------------
(* The undo tree. *)

Kids(s, n) == {k \in DOMAIN s.node : s.node[k].parent = n}
\* n and its descendants (subtreeSize counts them).
Below(s, n) ==
    LET in[k \in DOMAIN s.node] == k = n \/ (k # s.root /\ in[s.node[k].parent])
    IN {k \in DOMAIN s.node : in[k]}
Without(s, N) == [s EXCEPT !.node = [k \in DOMAIN s.node \ N |-> s.node[k]]]

\* The oldest branch of a root with several, or the root itself under its only child.
evictOnce(s) ==
    LET kids == Kids(s, s.root)
        old == Below(s, Least(kids))
        only == CHOOSE k \in kids : TRUE
    IN CASE kids = {} -> s
         [] Cardinality(kids) > 1 -> [Without(s, old) EXCEPT !.size = @ - Cardinality(old)]
         [] Cardinality(kids) = 1 /\ only # s.current ->
              [Without(s, {s.root}) EXCEPT !.root = only, !.size = @ - 1, !.node[only].parent = -1]
         [] OTHER -> s

Capped(s) == IF s.size > EdCap THEN evictOnce(s) ELSE s
HistoryApply(s, e, rev) ==
    LET n == 1 + Most(DOMAIN s.node)
        made == [edit |-> e, rev |-> rev, parent |-> s.current, was |-> s.text]
    IN Capped([s EXCEPT !.node = [k \in DOMAIN @ \cup {n} |-> IF k = n THEN made ELSE @[k]],
                        !.current = n, !.size = @ + 1])

-----------------------------------------
(* The buffer. *)

clampToBuffer(t, p) ==
    IF t = <<>> THEN At(0, 0)
    ELSE LET l == Smaller(p.line, Len(t) - 1) IN At(l, Smaller(p.col, LineRuneLen(t, l)))

cancelSelectionIfOverlap(sel, r0) ==
    LET s == NormaliseRange(sel)  r == NormaliseRange(r0)
    IN IF \/ posLess(r.start, s.end) /\ posLess(s.start, r.end)
          \/ r.start = r.end /\ ~posLess(r.start, s.start) /\ posLess(r.start, s.end)
         THEN NoSel ELSE sel

WithText(s, t, r) ==
    [s EXCEPT !.text = t, !.cursor = clampToBuffer(t, @), !.sel = cancelSelectionIfOverlap(@, r)]
Mutated(s, e) == WithText(s, mutate(s.text, e), e.range)

ApplyErr(s, e) == e # NoEdit /\ ~editInRange(s.text, e)
Apply(s, e) ==
    IF e = NoEdit \/ ApplyErr(s, e) THEN s
    ELSE HistoryApply(Mutated(s, e), e, buildReverse(s.text, e))

Undo(s) == IF s.current = s.root THEN s
           ELSE [Mutated(s, s.node[s.current].rev) EXCEPT !.current = s.node[s.current].parent]
Redo(s) == IF Kids(s, s.current) = {} THEN s
           ELSE LET n == Most(Kids(s, s.current))
                IN [Mutated(s, s.node[n].edit) EXCEPT !.current = n]

Insertion(p, x) == Edit("insert", Between(p, p), x)
WithCursor(s, p) == [s EXCEPT !.cursor = p]
SetEditorMode(s, m) == [s EXCEPT !.mode = m]
ExitVisual(s) == [s EXCEPT !.sel = NoSel, !.mode = "normal"]

-----------------------------------------
(* Operators on a range. *)

OpEdit(s, op, r) ==
    CASE op \in {"d", "c"} -> DeleteEdit(s.text, r)
      [] op = "y" -> NoEdit
      [] op = "gU" -> transformEdit(s.text, r, "upper")
      [] op = "gu" -> transformEdit(s.text, r, "lower")
OpErr(s, op, e) == ~linewiseOp(op) /\ ApplyErr(s, e)

\* One edit per line, as far as there are lines.
Indent(s, op, a, b) ==
    LET f[l \in (a - 1)..b] ==
          IF l < a THEN s
          ELSE Apply(f[l - 1], IF op = ">" THEN IndentRightEdit(l) ELSE IndentLeftEdit(f[l - 1].text, l))
    IN f[b]
OpApply(s, op, r, e) ==
    IF linewiseOp(op) THEN Indent(s, op, Smaller(r.start.line, r.end.line), Larger(r.start.line, r.end.line))
    ELSE Apply(s, e)
OpCapture(s, op, r, e) ==
    IF isYank(op) \/ (op \in {"d", "c"} /\ e # NoEdit) THEN YankText(s.text, r) ELSE NoText

placeCursorAfterOperator(s, op, r) ==
    LET l == Smaller(r.start.line, Len(s.text) - 1)
        indent == FirstNonBlank(LineRunes(s.text, l))
        col == IF linewiseOp(op) \/ r.linewise \/ r.start.line # r.end.line
                 THEN IF indent = LineRuneLen(s.text, l) THEN 0 ELSE indent
                 ELSE r.start.col
    IN IF l < 0 \/ isYank(op) THEN s ELSE WithCursor(s, At(l, Smaller(col, LineRuneLen(s.text, l))))

\* A yank into the unnamed register is mirrored to the clipboard.
writeRegister(s, op, x) ==
    IF x = NoText THEN s
    ELSE IF isYank(op) THEN [s EXCEPT !.reg = x, !.clip = x, !.lastWrite = x]
    ELSE [s EXCEPT !.reg = x]
readRegister(s) == IF s.clip # NoText /\ s.clip # s.lastWrite THEN s.clip ELSE s.reg

Operated(s, op, r, e) ==
    writeRegister(placeCursorAfterOperator(OpApply(s, op, r, e), op, r), op, OpCapture(s, op, r, e))
AfterOp(op) == IF isChange(op) THEN "insert" ELSE "normal"
Captured(s, op, motion, obj, n) ==
    [s EXCEPT !.mode = AfterOp(op), !.op = "none",
              !.last = [op |-> op, motion |-> motion, object |-> obj.name, around |-> obj.around, count |-> n]]
NoObject == [name |-> "none", around |-> FALSE]

PendingDropped(s) == [s EXCEPT !.op = "none", !.mode = "normal"]
\* The operator over r, or `failed` when its edit e is refused.
applyOver(s, failed, op, r, e, motion, obj, n) ==
    IF OpErr(s, op, e) THEN failed ELSE Captured(Operated(s, op, r, e), op, motion, obj, n)
applyPending(s, op, r0, motion, obj, n) ==
    LET r == NormaliseRange(r0)
    IN IF op = "none" THEN PendingDropped(s)
       ELSE applyOver(s, PendingDropped(s), op, r, OpEdit(s, op, r), motion, obj, n)

operatorDoubledApply(s, op, n) ==
    LET r == CurrentLineLineWise(s.text, s.cursor, n)
    IN applyOver(s, SetEditorMode(s, "normal"), op, r, OpEdit(s, op, r), "none", NoObject, n)

VisualRange(s) == IF s.mode = "line" THEN LineWiseFromVisualLine(s.text, s.sel) ELSE NormaliseRange(s.sel)
operatorVisualApply(s, op, n) ==
    LET r == VisualRange(s)
    IN IF s.sel = NoSel THEN ExitVisual(s)
       ELSE [applyOver(s, ExitVisual(s), op, r, OpEdit(s, op, r), "none", NoObject, n) EXCEPT !.sel = NoSel]

-----------------------------------------
(* Keys. *)

EdFrame == [top |-> 0, height |-> 2]
PressKey(kind) == /\ ed.mode \in BoundIn[kind]
               /\ ed.keys < EdKeys
Becomes(s) == ed' = [s EXCEPT !.keys = ed.keys + 1]

\* An operator over what a motion passed; nothing when it failed.
OverMotion(s, op, p, m, n) ==
    applyPending(s, op, Between(s.cursor, IF p = NoPos THEN s.cursor ELSE p), m, NoObject, n)

EdMotion(m, n) ==
    /\ PressKey("motion")
    /\ \E p \in {Motion(ed.text, m, ed.cursor, n, EdFrame)} :
         IF ed.mode = "pending" THEN Becomes(OverMotion(ed, ed.op, p, m, n))
         ELSE /\ p # NoPos
              /\ IF ed.mode \notin Visual THEN Becomes(WithCursor(ed, p))
                 ELSE IF ed.sel = NoSel THEN Becomes(ed)
                 ELSE Becomes([ed EXCEPT !.sel.end = p, !.cursor = p])

EdObject(obj, around) ==
    /\ PressKey("object")
    /\ \E r \in {TextObject(ed.text, obj, ed.cursor, around)} \ {NoRange} :
         IF ed.mode \in Visual THEN Becomes([ed EXCEPT !.sel = r])
         ELSE Becomes(applyPending(ed, ed.op, r, "none", [name |-> obj, around |-> around], 1))

EdOperator(op, n) ==
    /\ PressKey("operator")
    /\ CASE ed.mode \in Visual -> Becomes(operatorVisualApply(ed, op, n))
         [] ed.mode = "pending" -> Becomes(operatorDoubledApply(ed, op, n))
         [] ed.mode = "normal" -> Becomes([ed EXCEPT !.op = op, !.mode = "pending"])

EdDeleteEndOfLine ==
    /\ PressKey("enter")
    /\ Becomes(OverMotion(ed, "d", Motion(ed.text, "$", ed.cursor, 1, EdFrame), "$", 1))

\* The last change again, its motion or object resolved at the cursor.
OverObject(s, l, r) ==
    IF r = NoRange THEN s
    ELSE applyPending(s, l.op, r, "none", [name |-> l.object, around |-> l.around], l.count)
EdRepeat ==
    LET l == ed.last
    IN /\ PressKey("history") /\ l.op # "none"
       /\ CASE l.motion # "none" ->
                 Becomes(OverMotion(ed, l.op, Motion(ed.text, l.motion, ed.cursor, l.count, EdFrame),
                                    l.motion, l.count))
            [] l.motion = "none" /\ l.object # "none" ->
                 Becomes(OverObject(ed, l, TextObject(ed.text, l.object, ed.cursor, l.around)))
            [] OTHER -> Becomes(operatorDoubledApply(ed, l.op, l.count))

EdVisualEnter(m) ==
    /\ PressKey("enter")
    /\ Becomes([ed EXCEPT !.mode = m, !.sel = [Between(ed.cursor, ed.cursor) EXCEPT
                                                 !.linewise = m = "line", !.block = m = "block"]])
EdVisualExit == PressKey("visualExit") /\ Becomes(ExitVisual(ed))

\* Text that ends in a newline is pasted as lines.
IsLines(x) == Len(x) > 1 /\ x[Len(x)] = <<>>
Body(x) == SubSeq(x, 1, Len(x) - 1)
OpenBelow(x) == << <<>> >> \o Body(x)
putErr(s, p, x) == ~IsLines(x) /\ ApplyErr(s, Insertion(Clamped(s.text, p.line, p.col), x))
putAt(s, p, x) ==
    LET n == Len(s.text)
        at == Clamped(s.text, p.line, p.col)
    IN CASE IsLines(x) /\ p.line < n -> WithCursor(Apply(s, Insertion(At(p.line, 0), x)), At(p.line, 0))
         [] IsLines(x) /\ p.line >= n -> WithCursor(Apply(s, Insertion(EndOf(s.text), OpenBelow(x))), At(n, 0))
         [] OTHER -> WithCursor(Apply(s, Insertion(at, x)), at)
\* A failed put leaves Visual mode on, after the selection was deleted.
visualPaste(s) ==
    LET r == VisualRange(s)
        x == readRegister(s)
        cut == Apply(s, DeleteEdit(s.text, r))
    IN CASE s.sel = NoSel \/ x = NoText -> ExitVisual(s)
         [] s.sel # NoSel /\ x # NoText /\ ApplyErr(s, DeleteEdit(s.text, r)) -> s
         [] s.sel # NoSel /\ x # NoText /\ ~ApplyErr(s, DeleteEdit(s.text, r)) ->
              IF putErr(cut, r.start, x) THEN [cut EXCEPT !.putFailed = TRUE] ELSE ExitVisual(putAt(cut, r.start, x))

EdPaste ==
    LET x == readRegister(ed)
        l == ed.cursor.line
        len == LineRuneLen(ed.text, l)
    IN /\ PressKey("paste")
       /\ CASE ed.mode \in Visual -> Becomes(visualPaste(ed))
            [] ed.mode = "normal" /\ x = NoText -> Becomes(ed)
            [] ed.mode = "normal" /\ IsLines(x) ->
                 Becomes(WithCursor(Apply(ed, Insertion(At(l, len), OpenBelow(x))), At(l + 1, 0)))
            [] OTHER -> Becomes(Apply(ed, Insertion(At(l, Smaller(ed.cursor.col + 1, len)), x)))

EdPasteBefore ==
    LET x == readRegister(ed)
        l == ed.cursor.line
    IN /\ PressKey("paste")
       /\ CASE ed.mode \in Visual -> Becomes(visualPaste(ed))
            [] ed.mode = "normal" /\ x = NoText -> Becomes(ed)
            [] ed.mode = "normal" /\ IsLines(x) ->
                 Becomes(WithCursor(Apply(ed, Insertion(At(l, 0), x)), At(l, 0)))
            [] OTHER -> Becomes(Apply(ed, Insertion(ed.cursor, x)))

EdToggleCase(n) ==
    LET l == ed.cursor.line
        len == LineRuneLen(ed.text, l)
        end == Smaller(ed.cursor.col + n, len)
        e == transformEdit(ed.text, Between(ed.cursor, At(l, end)), "toggle")
        v == transformEdit(ed.text, VisualRange(ed), "toggle")
    IN /\ PressKey("paste")
       /\ CASE ed.mode \in Visual -> IF ed.sel = NoSel THEN Becomes(ExitVisual(ed))
                                     ELSE IF ApplyErr(ed, v) THEN Becomes(ed)
                                     ELSE Becomes(ExitVisual(Apply(ed, v)))
            [] OTHER -> IF len = 0 THEN Becomes(ed)
                        ELSE Becomes(WithCursor(Apply(ed, e), At(l, Smaller(end, len - 1))))

EdUndo == PressKey("history") /\ Becomes(Undo(ed))
EdRedo == PressKey("history") /\ Becomes(Redo(ed))

-----------------------------------------
(* Insert mode and the popup. *)

Newline == << <<>>, <<>> >>
EdInsertEntry(k) ==
    LET l == ed.cursor.line
        len == LineRuneLen(ed.text, l)
        nb == IF ed.text = <<>> THEN 0 ELSE FirstNonBlank(LineRunes(ed.text, l))
        Opened(at, to) == WithCursor(Apply(ed, Insertion(at, Newline)), to)
    IN /\ PressKey("enter")
       /\ Becomes(SetEditorMode(CASE k = "i" -> ed
                            [] k = "a" -> WithCursor(ed, At(l, Smaller(ed.cursor.col + 1, len)))
                            [] k = "I" -> WithCursor(ed, At(l, nb))
                            [] k = "A" -> WithCursor(ed, At(l, len))
                            [] k = "o" -> Opened(At(l, len), At(l + 1, 0))
                            [] k = "O" -> Opened(At(l, 0), At(l, 0)), "insert"))

EdEscape == PressKey("insertExit") /\ Becomes([ed EXCEPT !.popup = Hidden, !.op = "none", !.mode = "normal"])

\* n suggestions at the cursor; the popup shows, or hides when there are none.
popupRefilter(s, n) ==
    [s EXCEPT !.trigger = s.cursor,
              !.popup = IF n = 0 THEN Hidden
                        ELSE [visible |-> TRUE, n |-> n, selected |-> 0, anchor |-> s.cursor]]
\* What the text around the cursor calls for: an alias, completion, or neither.
popupAutoTrigger(s, around, dot, n) ==
    LET on == [s EXCEPT !.suppress = FALSE]
    IN CASE s.suppress /\ ~dot -> on
         [] ~(s.suppress /\ ~dot) /\ around = "alias" -> [on EXCEPT !.popup = Hidden]
         [] ~(s.suppress /\ ~dot) /\ around = "none" /\ ~s.popup.visible -> on
         [] OTHER -> popupRefilter(on, n)

typedInto(s, x) == WithCursor(Apply(s, Insertion(s.cursor, x)), advancePos(s.cursor, x))
Completing == {"alias", "complete", "none"}

EdType(c) == /\ PressKey("insert")
             /\ \E a \in Completing, dot \in BOOLEAN, n \in 0..2 :
                  Becomes(popupAutoTrigger(typedInto(ed, << <<c>> >>), a, dot, n))
\* A rune held back for a chord that did not complete.
EdFlushPendingRunes(c) == PressKey("insert") /\ Becomes(typedInto(ed, << <<c>> >>))
EdEnter == PressKey("insert") /\ ~ed.popup.visible /\ Becomes(typedInto(ed, Newline))

backspacePos(t, p) == IF p.col > 0 THEN At(p.line, p.col - 1)
                      ELSE IF p.line = 0 THEN NoPos ELSE At(p.line - 1, LineRuneLen(t, p.line - 1))
EdBackspace ==
    LET p == backspacePos(ed.text, ed.cursor)
    IN /\ PressKey("insert") /\ p # NoPos
       /\ \E a \in Completing, dot \in BOOLEAN, n \in 0..2 :
            Becomes(popupAutoTrigger(WithCursor(Apply(ed, Edit("delete", Between(p, ed.cursor), NoText)), p), a, dot, n))

EdTrigger == PressKey("insert") /\ \E n \in 0..2 : Becomes(popupRefilter(ed, n))
\* Metadata that was missing has arrived.
EdOnWarmLanded ==
    /\ ed.popup.visible /\ ed.cursor = ed.trigger /\ ed.keys < EdKeys
    /\ \E n \in 0..2 : Becomes(popupRefilter(ed, n))
EdSelect(d) == /\ PressKey("insert") /\ ed.popup.visible
               /\ Becomes([ed EXCEPT !.popup.selected = (@ + d + ed.popup.n) % ed.popup.n])
EdDismiss == PressKey("insert") /\ ed.popup.visible /\ Becomes([ed EXCEPT !.popup = Hidden])

identifierStartCol(t, p) ==
    Least({c \in 0..p.col : \A k \in (c + 1)..p.col : classifyWord(LineRunes(t, p.line)[k]) = "word"})
\* A snippet, alias or qualified name replaces the identifier in one edit; a
\* plain suggestion deletes it and inserts.
popupAccept(s, x, plain) ==
    LET a == s.popup.anchor
        from == At(s.cursor.line, identifierStartCol(s.text, s.cursor))
        r == Between(from, s.cursor)
        hid == [s EXCEPT !.popup = Hidden]
        cut == IF from = s.cursor THEN hid ELSE Apply(hid, Edit("delete", r, NoText))
        done == IF plain THEN Apply(cut, Insertion(from, x)) ELSE Apply(hid, Edit("replace", r, x))
    IN IF s.cursor.line # a.line \/ s.cursor.col < a.col \/ from.col > a.col THEN hid
       ELSE [done EXCEPT !.cursor = advancePos(from, x), !.suppress = TRUE]
EdAccept == /\ PressKey("insert") /\ ed.popup.visible
            /\ \E plain \in BOOLEAN : Becomes(popupAccept(ed, << <<"a", "a">> >>, plain))

\* Another context takes the focus, or gives it back: the popup stays.
EdFocusLost == /\ ed.keys < EdKeys
               /\ Becomes([ed EXCEPT !.sel = NoSel, !.mode = "normal", !.op = "none"])

EdNext ==
    \/ \E m \in ed.topic.motions, n \in EdCounts : EdMotion(m, n)
    \/ \E o \in ed.topic.objects, around \in BOOLEAN : EdObject(o, around)
    \/ \E op \in ed.topic.ops, n \in EdCounts : EdOperator(op, n)
    \/ EdDeleteEndOfLine \/ EdRepeat \/ EdUndo \/ EdRedo
    \/ \E m \in Visual : EdVisualEnter(m)
    \/ EdVisualExit \/ EdPaste \/ EdPasteBefore \/ \E n \in EdCounts : EdToggleCase(n)
    \/ \E k \in {"i", "a", "I", "A", "o", "O"} : EdInsertEntry(k)
    \/ EdEscape \/ EdType("a") \/ EdFlushPendingRunes("(") \/ EdEnter \/ EdBackspace
    \/ EdTrigger \/ EdOnWarmLanded \/ \E d \in {1, -1} : EdSelect(d)
    \/ EdDismiss \/ EdAccept \/ EdFocusLost

EdSpec == EdInit /\ [][EdNext]_ed

-----------------------------------------
(* Properties. *)

\* An empty buffer and one empty line are the same text.
AsText(t) == IF t = <<>> THEN << <<>> >> ELSE t
\* After any mix of edits, undos and redos the buffer is the text it had when
\* the edit of the tree's current node was made: every reverse (buildReverse,
\* buffer.go) undoes its edit exactly, through branches and evictions, the
\* node the cursor of the tree is at is never evicted, and the count that
\* decides an eviction is the number of nodes.
UndoRestores ==
    /\ ed.current \in DOMAIN ed.node
    /\ AsText(ed.text) = AsText(ed.node[ed.current].was)
    /\ ed.size = Cardinality(DOMAIN ed.node) - 1
    /\ ed.size <= EdCap

InText(r) == positionInBounds(ed.text, r.start) /\ positionInBounds(ed.text, r.end)
Within(r, q) == ~posLess(r.start, q.start) /\ ~posLess(q.end, r.end)
\* A text object at the cursor lies in the text, the inner one in the around one.
ObjectsNest ==
    \A o \in TextObjects :
      \E r \in {TextObject(ed.text, o, ed.cursor, FALSE)}, q \in {TextObject(ed.text, o, ed.cursor, TRUE)} :
        /\ r = NoRange <=> q = NoRange
        /\ r # NoRange => InText(r) /\ InText(q) /\ Within(r, q)
\* The statement at the cursor is one of those that running the buffer runs.
StatementsAgree ==
    LET ab == StatementRangeAt(ed.text, posToRuneOffset(ed.text, ed.cursor))
    IN ed.text # <<>> =>
         ab \in SplitStatements(ed.text) \/ \A q \in ab[1]..(ab[2] - 1) : IsSpace(runeAt(ed.text, q))
\* The cursor is in the text after any key, an operator is pending exactly in
\* its mode (a motion, an object, an error or lost focus ends both), a
\* selection lies in the text as long as no put failed, the popup selects one
\* of its entries, objects nest and statements agree (vim_editor_controller.go).
EditorSound ==
    /\ positionInBounds(ed.text, ed.cursor)
    /\ ed.op # "none" <=> ed.mode = "pending"
    /\ ed.mode \in Visual /\ ed.sel # NoSel /\ ~ed.putFailed => InText(ed.sel)
    /\ ed.popup.visible => ed.popup.selected < ed.popup.n
    /\ ObjectsNest
    /\ StatementsAgree
=============================================================================
