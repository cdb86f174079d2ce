----------------------------- MODULE EditorText -----------------------------
(***************************************************************************)
(* The text of the query editor and the pure algorithms on it: edits and    *)
(* their reverses, motions and text objects (pkg/gui/editor/buffer.go,      *)
(* motion.go, textobject.go, statement_split.go, operator.go).              *)
(*                                                                          *)
(* A text is a sequence of lines, a line a sequence of characters; lines    *)
(* and columns count from 0 as in the code. The text of an edit or a        *)
(* register is its chunks between newlines, so it ends in a newline when    *)
(* its last chunk is empty. The loops of the motions step over offsets into *)
(* the joined text, where the place after a line's last character reads as  *)
(* a space; a motion is the offset at which its loop stops.                 *)
(***************************************************************************)
EXTENDS Integers, Sequences, FiniteSets

Least(S) == CHOOSE x \in S : \A y \in S : x <= y
Most(S) == CHOOSE x \in S : \A y \in S : x >= y
Smaller(a, b) == IF a < b THEN a ELSE b
Larger(a, b) == IF a < b THEN b ELSE a

At(l, c) == [line |-> l, col |-> c]
posLess(p, q) == p.line < q.line \/ (p.line = q.line /\ p.col < q.col)
LineRunes(t, l) == IF l \in 0..(Len(t) - 1) THEN t[l + 1] ELSE <<>>
LineRuneLen(t, l) == Len(LineRunes(t, l))
EndOf(t) == IF t = <<>> THEN At(0, 0) ELSE At(Len(t) - 1, LineRuneLen(t, Len(t) - 1))

positionInBounds(t, p) ==
    IF t = <<>> THEN p = At(0, 0)
    ELSE p.line \in 0..(Len(t) - 1) /\ p.col \in 0..LineRuneLen(t, p.line)
rangeInBounds(t, r) ==
    positionInBounds(t, r.start) /\ positionInBounds(t, r.end) /\ ~posLess(r.end, r.start)

Between(p, q) == [start |-> p, end |-> q, linewise |-> FALSE, block |-> FALSE]
NormaliseRange(r) ==
    IF posLess(r.end, r.start) THEN [r EXCEPT !.start = r.end, !.end = r.start] ELSE r
LineWiseFromVisualLine(t, r) ==
    LET n == NormaliseRange(r)
    IN [start |-> At(n.start.line, 0),
        end |-> IF n.end.line < Len(t) THEN At(n.end.line, LineRuneLen(t, n.end.line)) ELSE n.end,
        linewise |-> TRUE, block |-> FALSE]
CurrentLineLineWise(t, p, n) ==
    LET last == Larger(p.line, Smaller(p.line + n - 1, Len(t) - 1))
    IN [start |-> At(p.line, 0), end |-> At(last, LineRuneLen(t, last)),
        linewise |-> TRUE, block |-> FALSE]

-----------------------------------------
(* Text of a range, insertion and deletion. *)

NoText == << <<>> >>
Cut(line, a, b) == SubSeq(line, Smaller(a, Len(line)) + 1, Smaller(b, Len(line)))

blockText(t, r) ==
    LET a == Smaller(r.start.line, r.end.line)  b == Larger(r.start.line, r.end.line)
        lo == Smaller(r.start.col, r.end.col)   hi == Larger(r.start.col, r.end.col)
        rows == [i \in 1..(Smaller(b, Len(t) - 1) - a + 1) |-> Cut(LineRunes(t, a + i - 1), lo, hi)]
    IN IF rows = <<>> THEN NoText ELSE rows

textInRange(t, r) ==
    IF r.block THEN blockText(t, r)
    ELSE IF t = <<>> \/ ~rangeInBounds(t, r) THEN NoText
    ELSE LET a == r.start.line  b == r.end.line
         IN [i \in 1..(b - a + 1) |->
               LET line == t[a + i]
               IN IF r.linewise THEN line
                  ELSE Cut(line, IF i = 1 THEN r.start.col ELSE 0,
                                 IF a + i - 1 = b THEN r.end.col ELSE Len(line))]

advancePos(p, x) ==
    IF Len(x) = 1 THEN At(p.line, p.col + Len(x[1])) ELSE At(p.line + Len(x) - 1, Len(x[Len(x)]))

insertAt(t0, p, x) ==
    IF x = NoText THEN t0
    ELSE LET t == IF t0 = <<>> THEN << <<>> >> ELSE t0
             line == LineRunes(t, p.line)
             head == SubSeq(line, 1, p.col)
             tail == SubSeq(line, p.col + 1, Len(line))
             new == IF Len(x) = 1 THEN << head \o x[1] \o tail >>
                    ELSE << head \o x[1] >> \o SubSeq(x, 2, Len(x) - 1) \o << x[Len(x)] \o tail >>
         IN SubSeq(t, 1, p.line) \o new \o SubSeq(t, p.line + 2, Len(t))

deleteRange(t, r) ==
    IF t = <<>> THEN t
    ELSE IF r.linewise
           THEN SubSeq(t, 1, r.start.line) \o SubSeq(t, Smaller(r.end.line, Len(t) - 1) + 2, Len(t))
           ELSE LET head == SubSeq(LineRunes(t, r.start.line), 1, r.start.col)
                    last == LineRunes(t, r.end.line)
                IN SubSeq(t, 1, r.start.line)
                     \o << head \o SubSeq(last, r.end.col + 1, Len(last)) >>
                     \o SubSeq(t, r.end.line + 2, Len(t))

-----------------------------------------
(* Edits. *)

Edit(kind, r, x) == [kind |-> kind, range |-> r, text |-> x, restore |-> FALSE, keep |-> FALSE]

editInRange(t, e) ==
    /\ positionInBounds(t, e.range.start)
    /\ e.kind # "insert" => positionInBounds(t, e.range.end) /\ ~posLess(e.range.end, e.range.start)

restoreLines(t, e) ==
    LET old == IF e.keep THEN <<>> ELSE t
    IN SubSeq(old, 1, e.range.start.line) \o e.text \o SubSeq(old, e.range.start.line + 1, Len(old))

mutate(t, e) ==
    CASE e.kind = "insert" -> IF e.restore THEN restoreLines(t, e) ELSE insertAt(t, e.range.start, e.text)
      [] e.kind = "delete" -> LET d == deleteRange(t, e.range)
                              IN IF e.keep /\ d = <<>> THEN << <<>> >> ELSE d
      [] e.kind = "replace" -> insertAt(deleteRange(t, e.range), e.range.start, e.text)

buildReverse(t, e) ==
    LET s == e.range.start
        to == Between(s, advancePos(s, e.text))
        whole == e.range.start.line = 0 /\ e.range.end.line = Len(t) - 1
    IN CASE t = <<>> /\ e.text # NoText /\ e.kind \in {"insert", "replace"} ->
              Edit("delete", [to EXCEPT !.linewise = TRUE], NoText)
         [] e.kind = "insert" -> Edit("delete", to, NoText)
         [] e.kind = "delete" /\ t = <<>> /\ e.keep ->
              Edit("delete", [Between(At(0, 0), At(0, 0)) EXCEPT !.linewise = TRUE], NoText)
         [] e.kind = "delete" ->
              [Edit("insert", Between(s, s), textInRange(t, e.range)) EXCEPT
                 !.restore = e.range.linewise /\ t # <<>>,
                 !.keep = e.range.linewise /\ t # <<>> /\ e.keep /\ whole]
         [] e.kind = "replace" -> Edit("replace", to, textInRange(t, e.range))

-----------------------------------------
(* Offsets. *)

posToRuneOffset(t, p) ==
    LET before[l \in 0..Len(t)] == IF l = 0 THEN 0 ELSE before[l - 1] + Len(t[l]) + 1
    IN before[p.line] + p.col
OnLineAt(t, o, l) == At(l, o - posToRuneOffset(t, At(l, 0)))
runeOffsetToPos(t, o) ==
    OnLineAt(t, o, Most({k \in 0..(Len(t) - 1) : posToRuneOffset(t, At(k, 0)) <= o}))
LastOffset(t) == posToRuneOffset(t, EndOf(t))

RuneUnder(t, p) == IF p.col = LineRuneLen(t, p.line) THEN " " ELSE t[p.line + 1][p.col + 1]
runeAt(t, o) == RuneUnder(t, runeOffsetToPos(t, o))

IsSpace(c) == c = " "
classifyWord(c) == IF IsSpace(c) THEN "space" ELSE IF c \in {"a", "A"} THEN "word" ELSE "punct"
classifyWORD(c) == IF IsSpace(c) THEN "space" ELSE "word"
Class(c, big) == IF big THEN classifyWORD(c) ELSE classifyWord(c)
isBlankLine(line) == \A i \in DOMAIN line : IsSpace(line[i])

\* Where a loop that steps from o to the right, or to the left, stops.
FirstFrom(t, o, P(_)) ==
    LET S == {q \in o..LastOffset(t) : P(q)} IN IF S = {} THEN LastOffset(t) ELSE Least(S)
LastUpTo(o, P(_)) == LET S == {q \in 0..o : P(q)} IN IF S = {} THEN 0 ELSE Most(S)

Stay == -1

stepWordForward(t, o, big) ==
    LET C(q) == Class(runeAt(t, q), big)
        Other(q) == C(q) # C(o)
        Solid(q) == C(q) # "space"
        past == IF C(o) = "space" THEN o ELSE FirstFrom(t, o, Other)
    IN FirstFrom(t, past, Solid)

stepWordBackward(t, o, big) ==
    LET C(q) == Class(runeAt(t, q), big)
        Solid(q) == C(q) # "space"
        at == LastUpTo(o - 1, Solid)
        Starts(q) == q = 0 \/ C(q - 1) # C(at)
    IN IF o = 0 THEN Stay ELSE LastUpTo(at, Starts)

stepWordEnd(t, o, big) ==
    LET C(q) == Class(runeAt(t, q), big)
        Solid(q) == C(q) # "space"
        at == FirstFrom(t, o + 1, Solid)
        Ends(q) == q = LastOffset(t) \/ C(q + 1) # C(at)
    IN IF o = LastOffset(t) THEN Stay ELSE FirstFrom(t, at, Ends)

sentenceForwardOne(t, o) ==
    LET Solid(q) == ~IsSpace(runeAt(t, q))
        Blank(q) == isBlankLine(t[runeOffsetToPos(t, q).line + 1])
        Ends(q) == /\ runeAt(t, q) = "."
                   /\ q < LastOffset(t) => IsSpace(runeAt(t, q + 1))
        Stops(q) == Blank(q) \/ Ends(q)
        at == FirstFrom(t, o + 1, Stops)
        Full(q) == ~Blank(q)
        next == FirstFrom(t, at, Full)
    IN IF o = LastOffset(t) THEN Stay
       ELSE IF Blank(at)
              THEN posToRuneOffset(t, At(runeOffsetToPos(t, next).line, 0))
              ELSE IF Ends(at) /\ at < LastOffset(t) THEN FirstFrom(t, at + 1, Solid) ELSE at

sentenceBackwardOne(t, o) ==
    LET Solid(q) == ~IsSpace(runeAt(t, q))
        LineAt(q) == runeOffsetToPos(t, q).line
        at == LastUpTo(o - 1, Solid)
        Starts(q) == \/ q = 0
                     \/ runeAt(t, q - 1) = "."
                     \/ LineAt(q - 1) # LineAt(q) /\ isBlankLine(t[LineAt(q - 1) + 1])
    IN IF o = 0 THEN Stay ELSE LastUpTo(at, Starts)

BlankAt(t, l) == isBlankLine(LineRunes(t, l))
paragraphBackwardOne(t, l) ==
    LET S == {k \in 0..(l - 1) : BlankAt(t, k) /\ (k = 0 \/ ~BlankAt(t, k - 1))}
    IN IF l = 0 THEN Stay ELSE IF S = {} THEN 0 ELSE Most(S)
paragraphForwardOne(t, l) ==
    LET last == Len(t) - 1
        S == {k \in (l + 1)..last : BlankAt(t, k) /\ \E j \in (l + 1)..k : ~BlankAt(t, j)}
    IN IF l = last THEN Stay ELSE IF S = {} THEN last ELSE Least(S)

\* n steps of a motion, as far as they go.
Times(S(_), o, n) ==
    LET f[k \in 0..n] == IF k = 0 THEN o
                         ELSE IF f[k - 1] = Stay \/ S(f[k - 1]) = Stay THEN f[k - 1] ELSE S(f[k - 1])
    IN IF S(o) = Stay THEN Stay ELSE f[n]

FirstNonBlank(line) ==
    LET S == {i \in DOMAIN line : ~IsSpace(line[i])} IN IF S = {} THEN Len(line) ELSE Least(S) - 1

NoPos == At(-1, -1)
Moved(p, q) == IF p = q THEN NoPos ELSE q
FromOffset(t, o) == IF o = Stay THEN NoPos ELSE runeOffsetToPos(t, o)
Clamped(t, l, c) == At(l, Smaller(c, LineRuneLen(t, l)))
lastVisible(t, f) == Smaller(f.top + f.height - 1, Len(t) - 1)
screenLand(t, p, f, l) == Moved(p, At(Smaller(Larger(l, f.top), lastVisible(t, f)), 0))

BufferStart(t, p) == Moved(p, At(0, 0))
BufferEnd(t, p, n) == Moved(p, At(IF n >= 2 THEN Smaller(n - 1, Len(t) - 1) ELSE Len(t) - 1, 0))

WordMotions == {"w", "W", "b", "B", "e", "E", "(", ")"}

WordMotion(t, m, o, n) ==
    LET w(q) == stepWordForward(t, q, FALSE)   bigW(q) == stepWordForward(t, q, TRUE)
        b(q) == stepWordBackward(t, q, FALSE)  bigB(q) == stepWordBackward(t, q, TRUE)
        e(q) == stepWordEnd(t, q, FALSE)       bigE(q) == stepWordEnd(t, q, TRUE)
        up(q) == sentenceBackwardOne(t, q)     down(q) == sentenceForwardOne(t, q)
    IN CASE m = "w" -> Times(w, o, n) [] m = "W" -> Times(bigW, o, n)
         [] m = "b" -> Times(b, o, n) [] m = "B" -> Times(bigB, o, n)
         [] m = "e" -> Times(e, o, n) [] m = "E" -> Times(bigE, o, n)
         [] m = "(" -> Times(up, o, n) [] m = ")" -> Times(down, o, n)

LineMotion(t, m, p, n, f) ==
    LET left(q) == IF q = 0 THEN Stay ELSE q - 1
        right(q) == IF q = LastOffset(t) THEN Stay ELSE q + 1
        back(l) == paragraphBackwardOne(t, l)
        forth(l) == paragraphForwardOne(t, l)
        o == posToRuneOffset(t, p)
        ToLine(l) == IF l = Stay THEN NoPos ELSE At(l, 0)
        Vertical(l) == IF l = p.line THEN NoPos ELSE Clamped(t, l, p.col)
    IN CASE m = "h" -> FromOffset(t, Times(left, o, n))
         [] m = "l" -> FromOffset(t, Times(right, o, n))
         [] m = "j" -> Vertical(Smaller(p.line + n, Len(t) - 1))
         [] m = "k" -> Vertical(Larger(p.line - n, 0))
         [] m = "0" -> Moved(p, At(p.line, 0))
         [] m = "^" -> Moved(p, At(p.line, FirstNonBlank(t[p.line + 1])))
         [] m = "$" -> Moved(p, At(p.line, LineRuneLen(t, p.line)))
         [] m = "gg" -> BufferStart(t, p)
         [] m = "G" -> BufferEnd(t, p, n)
         [] m = "{" -> ToLine(Times(back, p.line, n))
         [] m = "}" -> ToLine(Times(forth, p.line, n))
         [] m = "H" -> IF f.height = 0 THEN BufferStart(t, p) ELSE screenLand(t, p, f, f.top + n - 1)
         [] m = "M" -> IF f.height = 0 THEN Moved(p, At(Len(t) \div 2, 0))
                       ELSE screenLand(t, p, f, f.top + (lastVisible(t, f) - f.top) \div 2)
         [] m = "L" -> IF f.height = 0 THEN BufferEnd(t, p, n)
                       ELSE screenLand(t, p, f, lastVisible(t, f) - (n - 1))

\* A motion of count n from p: the position it reaches, or NoPos.
Motion(t, m, p, n, f) ==
    IF t = <<>> THEN NoPos
    ELSE IF m \in WordMotions THEN FromOffset(t, WordMotion(t, m, posToRuneOffset(t, p), n))
    ELSE LineMotion(t, m, p, n, f)
-----------------------------------------
(* Operators on a range: the edit that an operator applies. *)

ShiftWidth == 2
Spaces(n) == [i \in 1..n |-> " "]
upper(c) == IF c = "a" THEN "A" ELSE c
lower(c) == IF c = "A" THEN "a" ELSE c
toggleCaseRune(c) == IF c = "a" THEN "A" ELSE lower(c)
Fold(how, c) == CASE how = "upper" -> upper(c) [] how = "lower" -> lower(c)
                  [] how = "toggle" -> toggleCaseRune(c)
Mapped(F(_), x) == [i \in DOMAIN x |-> [j \in DOMAIN x[i] |-> F(x[i][j])]]

NoEdit == [kind |-> "none"]
NothingIn(t, r) == textInRange(t, r) = NoText /\ r.start = r.end /\ ~r.linewise
WholeLines(t, a, b) == Between(At(a, 0), At(b, LineRuneLen(t, b)))
BlockLines(r) == <<Smaller(r.start.line, r.end.line), Larger(r.start.line, r.end.line)>>
\* The lines of a block with the part inside its columns replaced by F of it.
BlockRows(t, r, F(_)) ==
    LET ls == BlockLines(r)
        lo == Smaller(r.start.col, r.end.col)  hi == Larger(r.start.col, r.end.col)
    IN [i \in 1..(ls[2] - ls[1] + 1) |->
          LET line == LineRunes(t, ls[1] + i - 1)
          IN Cut(line, 0, lo) \o F(Cut(line, lo, hi)) \o Cut(line, hi, Len(line))]

DeleteEdit(t, r) ==
    LET gone(x) == <<>>
    IN IF r.block
         THEN Edit("replace", WholeLines(t, BlockLines(r)[1], BlockLines(r)[2]), BlockRows(t, r, gone))
         ELSE IF NothingIn(t, r) THEN NoEdit
         ELSE [Edit("delete", r, NoText) EXCEPT !.keep = r.linewise]
YankText(t, r) == textInRange(t, r) \o IF r.linewise /\ ~r.block THEN << <<>> >> ELSE <<>>

transformEdit(t, r, how) ==
    LET text == textInRange(t, r)
        fold(c) == Fold(how, c)
        row(x) == [j \in DOMAIN x |-> fold(x[j])]
    IN IF NothingIn(t, r) \/ Mapped(fold, text) = text THEN NoEdit
       ELSE IF r.block
              THEN Edit("replace", WholeLines(t, BlockLines(r)[1], BlockLines(r)[2]), BlockRows(t, r, row))
       ELSE Edit("replace", IF r.linewise THEN WholeLines(t, r.start.line, r.end.line) ELSE r,
                 Mapped(fold, text))

IndentRightEdit(l) == Edit("insert", Between(At(l, 0), At(l, 0)), << Spaces(ShiftWidth) >>)
IndentLeftEdit(t, l) ==
    LET strip == Smaller(ShiftWidth, FirstNonBlank(LineRunes(t, l)))
    IN IF strip = 0 THEN NoEdit ELSE Edit("delete", Between(At(l, 0), At(l, strip)), NoText)

-----------------------------------------
(* Text objects: the range at a position, or NoRange. *)

NoRange == Between(NoPos, NoPos)
OnLine(l, a, b) == Between(At(l, a), At(l, b))
Open == "("
Close == ")"

\* The quotes of a line pair up from its start.
InnerQuote(t, p) ==
    LET line == LineRunes(t, p.line)
        Quotes == {i \in DOMAIN line : line[i] = "'"}
        Nth(i) == Cardinality({q \in Quotes : q <= i})
        Pairs == {ab \in Quotes \X Quotes : Nth(ab[1]) % 2 = 1 /\ Nth(ab[2]) = Nth(ab[1]) + 1}
        Around == {ab \in Pairs : ab[1] - 1 <= p.col /\ p.col <= ab[2] - 1}
        First == {ab \in Pairs : Nth(ab[1]) = 1 /\ p.col < ab[1] - 1}
        Found == Around \cup First
    IN IF Found = {} THEN NoRange
       ELSE LET ab == CHOOSE x \in Found : TRUE IN OnLine(p.line, ab[1], ab[2] - 1)
AroundQuote(t, p) ==
    LET r == InnerQuote(t, p)
    IN IF r = NoRange THEN NoRange ELSE OnLine(p.line, r.start.col - 1, r.end.col + 1)

\* Opens less closes in the offsets a..b.
Depth(t, a, b) == Cardinality({q \in a..b : runeAt(t, q) = Open})
                    - Cardinality({q \in a..b : runeAt(t, q) = Close})
findEnclosingOpen(t, o) ==
    LET S == {q \in 0..(o - 1) : runeAt(t, q) = Open /\ Depth(t, q, o - 1) = 1}
    IN IF runeAt(t, o) = Open THEN o ELSE IF S = {} THEN Stay ELSE Most(S)
findMatchingClose(t, o) ==
    LET S == {q \in (o + 1)..LastOffset(t) : runeAt(t, q) = Close /\ Depth(t, o, q) = 0}
    IN IF S = {} THEN Stay ELSE Least(S)
Inset(s, e, inset) == Between(At(s.line, s.col + inset), At(e.line, e.col + 1 - inset))
BracketsAt(t, a, b, inset) ==
    IF b = Stay THEN NoRange ELSE Inset(runeOffsetToPos(t, a), runeOffsetToPos(t, b), inset)
BracketsFrom(t, a, inset) ==
    BracketsAt(t, a, IF a = Stay THEN Stay ELSE findMatchingClose(t, a), inset)
BracketRange(t, p, inset) == BracketsFrom(t, findEnclosingOpen(t, posToRuneOffset(t, p)), inset)
innerBracket(t, p) == BracketRange(t, p, 1)
aroundBracket(t, p) == BracketRange(t, p, 0)

\* The columns a..b (b excluded) of a maximal run of one class around column c.
RunOf(line, c, big) ==
    LET Same(i, j) == \A k \in i..j : Class(line[k + 1], big) = Class(line[c + 1], big)
    IN <<Least({i \in 0..c : Same(i, c)}), 1 + Most({j \in c..(Len(line) - 1) : Same(c, j)})>>
innerWord(t, p, big) ==
    LET line == LineRunes(t, p.line)
        ab == RunOf(line, Smaller(p.col, Len(line) - 1), big)
    IN IF line = <<>> THEN NoRange ELSE OnLine(p.line, ab[1], ab[2])
aroundWord(t, p, big) ==
    LET r == innerWord(t, p, big)
        line == LineRunes(t, p.line)
        a == r.start.col
        b == r.end.col
        Gap(q) == Class(line[q + 1], big) = "space"
        RunTo(space) == Most({q \in b..Len(line) : \A k \in b..(q - 1) : Gap(k) = space})
        back == Least({q \in 0..a : \A k \in q..(a - 1) : Gap(k)})
    IN CASE r = NoRange -> NoRange
         [] r # NoRange /\ Gap(a) -> OnLine(p.line, a, RunTo(FALSE))
         [] r # NoRange /\ ~Gap(a) /\ b < Len(line) -> IF Gap(b) THEN OnLine(p.line, a, RunTo(TRUE))
                                                        ELSE OnLine(p.line, back, b)
         [] OTHER -> OnLine(p.line, back, b)

ParagraphLines(t, l) ==
    LET Full(i, j) == \A k \in i..j : ~BlankAt(t, k)
    IN <<Least({i \in 0..l : Full(i, l)}), Most({j \in l..(Len(t) - 1) : Full(l, j)})>>
InnerParagraph(t, p) ==
    IF BlankAt(t, p.line) THEN NoRange
    ELSE WholeLines(t, ParagraphLines(t, p.line)[1], ParagraphLines(t, p.line)[2])
AroundParagraph(t, p) ==
    LET a == ParagraphLines(t, p.line)[1]
        b == ParagraphLines(t, p.line)[2]
        Blank(i, j) == \A k \in i..j : BlankAt(t, k)
        down == Most({j \in b..(Len(t) - 1) : Blank(b + 1, j)})
        up == Least({i \in 0..a : Blank(i, a - 1)})
    IN IF BlankAt(t, p.line) THEN NoRange
       ELSE IF down > b THEN WholeLines(t, a, down) ELSE WholeLines(t, up, b)

\* A semicolon inside a quoted string is no punctuation token.
semicolons(t) ==
    {q \in 0..LastOffset(t) :
       runeAt(t, q) = ";" /\ Cardinality({k \in 0..(q - 1) : runeAt(t, k) = "'"}) % 2 = 0}
\* The statement at an offset; right after a semicolon it is the one before.
StatementAmong(Semis, t, o) ==
    LET After(x) == LET S == {s \in Semis : s < x} IN IF S = {} THEN 0 ELSE Most(S) + 1
        Ends == {s \in Semis : s >= o}
        end == IF Ends = {} THEN LastOffset(t) ELSE Least(Ends)
    IN IF After(o) >= end /\ Semis # {} /\ o \notin Semis
         THEN <<After(After(o) - 1), After(o) - 1>> ELSE <<After(o), end>>
StatementRangeAt(t, o) == StatementAmong(semicolons(t), t, o)
expandLeadingWhitespace(t, p) ==
    At(p.line, Least({c \in 0..p.col : \A k \in (c + 1)..p.col : IsSpace(t[p.line + 1][k])}))
NotBackwards(r) == IF posLess(r.end, r.start) THEN NoRange ELSE r
StatementSpan(t, se, around) ==
    LET semi == se[2] < LastOffset(t) /\ runeAt(t, se[2]) = ";"
    IN IF around
         THEN Between(expandLeadingWhitespace(t, runeOffsetToPos(t, se[1])),
                      runeOffsetToPos(t, IF semi THEN se[2] + 1 ELSE se[2]))
         ELSE Between(runeOffsetToPos(t, se[1]), runeOffsetToPos(t, se[2]))
statementRange(t, p, around) ==
    NotBackwards(StatementSpan(t, StatementRangeAt(t, posToRuneOffset(t, p)), around))

\* The segments between semicolons that hold more than spaces.
SplitStatements(t) ==
    LET Ends == semicolons(t) \cup {LastOffset(t)}
        Seg(e) == LET S == {s \in semicolons(t) : s < e} IN <<IF S = {} THEN 0 ELSE Most(S) + 1, e>>
    IN {ab \in {Seg(e) : e \in Ends} : \E q \in ab[1]..(ab[2] - 1) : ~IsSpace(runeAt(t, q))}

TextObjects == {"quote", "paren", "word", "WORD", "paragraph", "statement"}
TextObject(t, obj, p, around) ==
    IF t = <<>> THEN NoRange
    ELSE CASE obj = "quote" -> IF around THEN AroundQuote(t, p) ELSE InnerQuote(t, p)
           [] obj = "paren" -> IF around THEN aroundBracket(t, p) ELSE innerBracket(t, p)
           [] obj = "word" -> IF around THEN aroundWord(t, p, FALSE) ELSE innerWord(t, p, FALSE)
           [] obj = "WORD" -> IF around THEN aroundWord(t, p, TRUE) ELSE innerWord(t, p, TRUE)
           [] obj = "paragraph" -> IF around THEN AroundParagraph(t, p) ELSE InnerParagraph(t, p)
           [] obj = "statement" -> statementRange(t, p, around)
=============================================================================
