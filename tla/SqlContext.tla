----------------------------- MODULE SqlContext -----------------------------
(***************************************************************************)
(* Where the cursor stands in a SQL text: its tokens, its statement, the    *)
(* clause that governs it, the tables in scope and the qualifier before it  *)
(* (pkg/gui/editor/sqlcontext, pkg/gui/editor/highlight).                   *)
(*                                                                          *)
(* A text is a sequence of runes in which a SQL keyword is one rune; an     *)
(* offset counts the runes before the cursor.                               *)
(***************************************************************************)
EXTENDS Integers, Sequences, FiniteSets, SequencesExt, TLC

CONSTANTS
    SqlKeywords,  \* the keywords in upper case, each one rune
    SqlLower      \* reserved words in lower case that open no clause, each one rune

NoName == <<>>

isIdentRune(r) == r \notin {" ", ".", ",", ";", "'", "\""}

QuotesBefore(t, i, q) == Cardinality({k \in 1..(i - 1) : t[k] = q})
\* The lexer's class of rune i: an open string or quoted name takes what follows.
RuneClass(t, i) ==
    CASE t[i] = "'" \/ QuotesBefore(t, i, "'") % 2 = 1 -> "string"
      [] t[i] = "\"" \/ QuotesBefore(t, i, "\"") % 2 = 1 -> "quoted"
      [] t[i] = " " -> "space"
      [] isIdentRune(t[i]) -> "word"
      [] OTHER -> "punctuation"

\* Neighbours of one class are one token.
TokensFrom(t, class, starts) ==
    LET end(k) == IF k = Len(starts) THEN Len(t) ELSE starts[k + 1] - 1
    IN [k \in 1..Len(starts) |-> [class |-> class[starts[k]], off |-> starts[k] - 1,
                                  value |-> SubSeq(t, starts[k], end(k))]]
TokensOf(t, class) ==
    TokensFrom(t, class, SelectSeq([i \in 1..Len(t) |-> i], LAMBDA i : i = 1 \/ class[i] # class[i - 1]))
Tokenize(t) == TokensOf(t, [i \in 1..Len(t) |-> RuneClass(t, i)])

TokEnd(k) == k.off + Len(k.value)
isKeyword(k) == k.class = "word" /\ Len(k.value) = 1 /\ k.value[1] \in SqlKeywords \cup SqlLower
isQuotedIdent(k) == k.class = "quoted" /\ Len(k.value) >= 2 /\ Last(k.value) = "\""
isIdentLike(k) == (k.class = "word" /\ ~isKeyword(k)) \/ isQuotedIdent(k)
identValue(k) == IF isQuotedIdent(k) THEN SubSeq(k.value, 2, Len(k.value) - 1) ELSE k.value
isDot(k) == k.value = <<".">>
isComma(k) == k.value = <<",">>
isFromOrJoin(k) == isKeyword(k) /\ k.value[1] \in {"FROM", "JOIN"}
isAs(k) == isKeyword(k) /\ k.value[1] = "AS"
skipSpace(ts, i) == IF i <= Len(ts) /\ ts[i].class = "space" THEN i + 1 ELSE i
IdentAt(ts, i) == i <= Len(ts) /\ isIdentLike(ts[i])

\* The statement around the cursor, between two semicolons.
BetweenMarks(before, after, n) ==
    [start |-> IF before = {} THEN 0 ELSE 1 + (CHOOSE s \in before : \A u \in before : u <= s),
     end |-> IF after = {} THEN n ELSE CHOOSE s \in after : \A u \in after : s <= u]
statementRangeAt(t, off) ==
    LET semis == {i - 1 : i \in {j \in 1..Len(t) : t[j] = ";" /\ RuneClass(t, j) = "punctuation"}}
    IN BetweenMarks({s \in semis : s < off}, {s \in semis : s >= off}, Len(t))

\* A keyword that touches the cursor is still being typed.
clauseForKeyword(r) ==
    CASE r \in {"FROM", "INTO", "UPDATE", "JOIN"} -> "tables"
      [] r \in {"SELECT", "WHERE", "AND", "OR"} -> "columns"
      [] r \in {"ON", "USING"} -> "both"
      [] OTHER -> "none"
clauseAt(ts, cur) ==
    LET gov == SelectSeq(ts, LAMBDA k : /\ isKeyword(k) /\ TokEnd(k) < cur
                                        /\ clauseForKeyword(k.value[1]) # "none")
    IN IF gov = <<>> THEN "none" ELSE clauseForKeyword(Last(gov).value[1])

cursorInNoise(ts, cur) ==
    \E i \in 1..Len(ts) : ts[i].class = "string" /\ cur > ts[i].off /\ cur <= TokEnd(ts[i])

\* [schema.]table [[AS] alias] from token i on.
AliasAt(ts, a) == IF IdentAt(ts, a) THEN identValue(ts[a]) ELSE NoName
AliasFrom(ts, n) == AliasAt(ts, IF n <= Len(ts) /\ isAs(ts[n]) THEN skipSpace(ts, n + 1) ELSE n)
TableRef(ts, i, k, dotted) ==
    [name |-> identValue(ts[IF dotted THEN k ELSE i]),
     schema |-> IF dotted THEN identValue(ts[i]) ELSE NoName,
     alias |-> AliasFrom(ts, skipSpace(ts, IF dotted THEN k + 1 ELSE i + 1))]
parseTableRef(ts, i0) ==
    LET i == skipSpace(ts, i0)
        j == skipSpace(ts, i + 1)
        k == skipSpace(ts, j + 1)
    IN TableRef(ts, i, k, j <= Len(ts) /\ isDot(ts[j]) /\ IdentAt(ts, k))

\* The first table after every FROM and JOIN; the rest of a comma list is not seen.
scopeTables(ts) ==
    LET from == SelectSeq([i \in 1..Len(ts) |-> i],
                          LAMBDA i : isFromOrJoin(ts[i]) /\ IdentAt(ts, skipSpace(ts, i + 1)))
    IN [r \in 1..Len(from) |-> parseTableRef(ts, from[r] + 1)]

\* An alias names its last table; a name that is no alias its first.
resolve(refs, name) ==
    LET aliased == SelectSeq(refs, LAMBDA r : r.alias = name)
        named == SelectSeq(refs, LAMBDA r : r.name = name)
    IN IF aliased # <<>> THEN <<Last(aliased)>> ELSE IF named # <<>> THEN <<named[1]>> ELSE <<>>

NoQualifier == [present |-> FALSE, table |-> NoName, schema |-> NoName]
dotEndingAt(ts, cur) == {i \in 1..Len(ts) : isDot(ts[i]) /\ TokEnd(ts[i]) = cur}
identEndingAt(ts, off) == {i \in 1..Len(ts) : isIdentLike(ts[i]) /\ TokEnd(ts[i]) = off}
QualifiedBy(name, hit) ==
    [present |-> TRUE, table |-> IF hit = <<>> THEN name ELSE hit[1].name,
     schema |-> IF hit = <<>> THEN NoName ELSE hit[1].schema]
qualifierAt(ts, cur, refs) ==
    LET owners == {i \in 1..Len(ts) : \E d \in dotEndingAt(ts, cur) : i \in identEndingAt(ts, ts[d].off)}
        name == identValue(ts[CHOOSE i \in owners : TRUE])
    IN IF owners = {} THEN NoQualifier ELSE QualifiedBy(name, resolve(refs, name))

\* The cursor is past a complete table name, where an alias goes.
aliasSlot(ts, cur) ==
    LET openers == {i \in 1..Len(ts) : /\ ts[i].off < cur /\ TokEnd(ts[i]) <= cur
                                       /\ \/ isComma(ts[i])
                                          \/ isKeyword(ts[i]) /\ clauseForKeyword(ts[i].value[1]) = "tables"}
        open == CHOOSE i \in openers : \A j \in openers : j <= i
        name == skipSpace(ts, open + 1)
        before(i) == i <= Len(ts) /\ ts[i].off < cur
        nameEnd[i \in 1..(Len(ts) + 1)] ==
            LET d == skipSpace(ts, i + 1)
                n == skipSpace(ts, d + 1)
            IN IF ~(before(d) /\ isDot(ts[d])) THEN TokEnd(ts[i])
               ELSE IF before(n) /\ isIdentLike(ts[n]) THEN nameEnd[n]
               ELSE TokEnd(ts[d])
    IN /\ openers # {}
       /\ before(name) /\ isIdentLike(ts[name])
       /\ cur > nameEnd[name]

NoContext == [expect |-> "none", tables |-> <<>>, qualifier |-> NoQualifier]
StatementTokens(t, off) ==
    LET r == statementRangeAt(t, off) IN Tokenize(SubSeq(t, r.start + 1, r.end))
StatementCursor(t, off) == off - statementRangeAt(t, off).start
ContextIn(ts, cur, refs, q, e) ==
    IF ts = <<>> \/ cursorInNoise(ts, cur) THEN NoContext
    ELSE [expect |-> IF e = "tables" /\ ~q.present /\ aliasSlot(ts, cur) THEN "none" ELSE e,
          tables |-> refs, qualifier |-> q]
AnalyzeTokens(ts, cur, refs) == ContextIn(ts, cur, refs, qualifierAt(ts, cur, refs), clauseAt(ts, cur))
Analyze(t, off) ==
    LET ts == StatementTokens(t, off)
    IN AnalyzeTokens(ts, StatementCursor(t, off), scopeTables(ts))

InNoise(t, off) == cursorInNoise(StatementTokens(t, off), StatementCursor(t, off))
AliasSlotIn(ts, cur) ==
    /\ ~cursorInNoise(ts, cur) /\ dotEndingAt(ts, cur) = {}
    /\ clauseAt(ts, cur) = "tables" /\ aliasSlot(ts, cur)
IsAliasSlot(t, off) == AliasSlotIn(StatementTokens(t, off), StatementCursor(t, off))

=============================================================================
