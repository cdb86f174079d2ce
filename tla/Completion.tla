----------------------------- MODULE Completion -----------------------------
(***************************************************************************)
(* Completion in the query editor: the sources and the engine that ranks    *)
(* their candidates, the popup, the text that accepting one inserts, the    *)
(* metadata warmed in the background and the signature footer               *)
(* (pkg/gui/editor/completion*.go, context/suggestions_context.go and the   *)
(* completion half of controllers/vim_editor_controller.go).                *)
(*                                                                          *)
(* One line of text; names are sequences of runes.  What the catalog knows  *)
(* is a constant, what of it is loaded a variable.                          *)
(***************************************************************************)
EXTENDS SqlContext

CONSTANTS
    CpTexts,      \* the texts a behaviour may start from
    CpRunes,      \* the runes it types
    CpSchema,     \* the schema the picker may select
    CpTables,     \* its tables, in order
    CpColumns,    \* table -> its columns, in order
    CpForeign,    \* table -> its foreign keys, records [col, refSchema, refTable, refCol]
    CpFunctions,  \* function names
    CpSnippets,   \* records [name, body]
    CpHistory,    \* statements
    CpLetters,    \* keyword -> the letter it begins with, in lower case
    CpVisible,    \* rows the popup shows
    CpTopics      \* how many keys, moves of the cursor, runes flushed by the matcher, failures
                  \* and schema switches, and whether tables get an alias: records
                  \* [keys, moves, flush, fails, switch, alias]

VARIABLE cp

-----------------------------------------
\* Fuzzy matching.
NoMatch == -1
\* A run of matched runes: where the pattern stands, the last match, the score.
MatchStep(p, c, m, i) ==
    LET boundary == i = 1 \/ c[i - 1] = "_"
        gap == IF m.last = 0 THEN 3 * (i - 1) ELSE i - m.last - 1
        award == 16 + (IF boundary THEN 18 ELSE 0)
                    + (IF m.last # 0 /\ i = m.last + 1 THEN 16 ELSE 0)
                    + (IF i = 1 THEN 12 ELSE 0)
    IN IF m.at > Len(p) \/ c[i] # p[m.at] THEN m
       ELSE [at |-> m.at + 1, last |-> i, score |-> m.score + award - gap]
Match(p, c) ==
    LET m == FoldLeft(LAMBDA a, i : MatchStep(p, c, a, i), [at |-> 1, last |-> 0, score |-> 0],
                      [i \in 1..Len(c) |-> i])
    IN CASE p = <<>> -> 0
         [] p # <<>> /\ (m.at <= Len(p) \/ (Len(p) > 1 /\ m.score < Len(p) * 8)) -> NoMatch
         [] OTHER -> m.score

-----------------------------------------
\* The sources.
Bias == [schema |-> 80, functions |-> 60, snippets |-> 50, keywords |-> 40, history |-> 20]
Priority == [schema |-> 80, functions |-> 60, snippets |-> 50, keywords |-> 20, history |-> 10]

Candidate(source, kind, text) ==
    [source |-> source, kind |-> kind, text |-> text, score |-> 0, body |-> <<>>]
Scored(seq, prefix) ==
    LET hits == SelectSeq(seq, LAMBDA c : Match(prefix, c.text) # NoMatch)
    IN [i \in 1..Len(hits) |->
          [hits[i] EXCEPT !.score = Match(prefix, hits[i].text) + Bias[hits[i].source]]]

identifierStart(t, cur) ==
    CHOOSE s \in 0..cur : /\ \A k \in (s + 1)..cur : isIdentRune(t[k])
                          /\ s = 0 \/ ~isIdentRune(t[s])
identifierPrefixAt(t, cur) == SubSeq(t, identifierStart(t, cur) + 1, cur)

\* A partial column hides the dot before it: analyse at the dot.
QualifiedFirst(here, atDot, n, cur) ==
    IF ~here.qualifier.present /\ n > 0 /\ n < cur /\ atDot.qualifier.present THEN atDot ELSE here
schemaContextAt(t, cur) ==
    LET n == Len(identifierPrefixAt(t, cur))
    IN QualifiedFirst(Analyze(t, cur), Analyze(t, cur - n), n, cur)
Completable(c) == c.qualifier.present \/ c.expect # "none"
IsSchemaCompletableContext(t, cur) == Completable(schemaContextAt(t, cur))
IsIdentDotContext(t, cur) == schemaContextAt(t, cur).qualifier.present
InAliasSlot(t, cur) == ~IsIdentDotContext(t, cur) /\ IsAliasSlot(t, cur)
AutoTriggerFromContext(t, cur) ==
    \/ IsSchemaCompletableContext(t, cur)
    \/ ~InNoise(t, cur) /\ ~InAliasSlot(t, cur) /\ Len(identifierPrefixAt(t, cur)) >= 2

schemaFor(s, ref) == IF ref # NoName THEN ref ELSE s.schema
Key(schema, table) == [schema |-> schema, table |-> table]
\* What the catalog says of a table; nothing of one it does not have.
ColumnsOf(k) == IF k.schema = CpSchema /\ k.table \in DOMAIN CpColumns THEN CpColumns[k.table] ELSE <<>>
ForeignOf(k) == IF k.schema = CpSchema /\ k.table \in DOMAIN CpForeign THEN CpForeign[k.table] ELSE <<>>
Loaded(s, k) == k \in s.warm

ScopeKeys(s, refs) == {Key(schemaFor(s, refs[i].schema), refs[i].name) : i \in DOMAIN refs}
Dedup(seq) ==
    LET firsts == SelectSeq([i \in 1..Len(seq) |-> i],
                            LAMBDA i : \A j \in 1..(i - 1) : seq[j].text # seq[i].text)
    IN [i \in 1..Len(firsts) |-> seq[firsts[i]]]

suggestTables(s, prefix) ==
    IF s.schema = NoName THEN <<>>
    ELSE Scored([i \in 1..Len(CpTables) |-> Candidate("schema", "table", CpTables[i])], prefix)
ColumnCandidates(s, k) ==
    IF k.schema = NoName \/ ~Loaded(s, k) THEN <<>>
    ELSE [i \in 1..Len(ColumnsOf(k)) |-> Candidate("schema", "column", ColumnsOf(k)[i])]
suggestColumns(s, k, prefix) == Scored(ColumnCandidates(s, k), prefix)
suggestColumnsMulti(s, refs, prefix) ==
    Scored(Dedup(FlattenSeq([i \in 1..Len(refs) |->
                   ColumnCandidates(s, Key(schemaFor(s, refs[i].schema), refs[i].name))])), prefix)

\* A key whose schema is left out is in the schema it is compared with.
sameTable(refSchema, refTable, k) == refTable = k.table /\ refSchema \in {NoName, k.schema}
OwnKeys(s, k) == IF Loaded(s, k) THEN ToSet(ForeignOf(k)) ELSE {}
\* Columns that join table k to another table in scope, either way round.
fkColumnSet(s, k, refs) ==
    {f.col : f \in {g \in OwnKeys(s, k) : \E i \in DOMAIN refs :
                      sameTable(g.refSchema, g.refTable,
                                Key(IF refs[i].schema # NoName THEN refs[i].schema ELSE k.schema,
                                    refs[i].name))}}
    \cup UNION {{f.refCol : f \in {g \in OwnKeys(s, o) : sameTable(g.refSchema, g.refTable, k)}} :
                  o \in ScopeKeys(s, refs) \ {k}}
fkColumnsFirst(cols, fks) ==
    [i \in 1..Len(cols) |-> IF cols[i].text \in fks THEN [cols[i] EXCEPT !.score = @ + 5] ELSE cols[i]]
suggestJoinCondition(s, refs, prefix) ==
    Scored([i \in 1..Len(refs) |-> Candidate("schema", "table", refs[i].name)], prefix)
    \o fkColumnsFirst(suggestColumnsMulti(s, refs, prefix),
                      UNION {fkColumnSet(s, k, refs) : k \in ScopeKeys(s, refs)})

QualifierKey(s, q) == Key(schemaFor(s, q.schema), q.table)
SchemaSuggest(s, c, prefix) ==
    LET k == QualifierKey(s, c.qualifier)
        cols == suggestColumns(s, k, prefix)
    IN CASE c.qualifier.present ->
              IF c.expect = "both" THEN fkColumnsFirst(cols, fkColumnSet(s, k, c.tables)) ELSE cols
         [] ~c.qualifier.present /\ c.expect = "tables" -> suggestTables(s, prefix)
         [] ~c.qualifier.present /\ c.expect = "both" -> suggestJoinCondition(s, c.tables, prefix)
         [] ~c.qualifier.present /\ c.expect = "columns" -> suggestColumnsMulti(s, c.tables, prefix)
         [] OTHER -> <<>>
\* The tables whose columns the schema source looked for in vain.
Missed(s, c) ==
    LET wanted == IF c.qualifier.present THEN {QualifierKey(s, c.qualifier)}
                  ELSE IF c.expect \in {"both", "columns"} THEN ScopeKeys(s, c.tables) ELSE {}
    IN {k \in wanted : k.schema # NoName /\ ~Loaded(s, k)}

FunctionSuggest(prefix) ==
    Scored([i \in 1..Len(CpFunctions) |-> Candidate("functions", "function", CpFunctions[i])], prefix)
SnippetSuggest(prefix) ==
    Scored([i \in 1..Len(CpSnippets) |->
              [Candidate("snippets", "snippet", CpSnippets[i].name) EXCEPT !.body = CpSnippets[i].body]],
           prefix)
KeywordSuggest(prefix) ==
    LET words == SetToSeq(SqlKeywords)
    IN Scored([i \in 1..Len(words) |-> Candidate("keywords", "keyword", <<words[i]>>)], prefix)
HistorySuggest(c, prefix) ==
    LET rows == SelectSeq(CpHistory, LAMBDA h : IsPrefix(prefix, h))
    IN IF Completable(c) \/ prefix = <<>> THEN <<>>
       ELSE [i \in 1..Len(rows) |->
               [Candidate("history", "history", rows[i]) EXCEPT
                  !.score = Bias["history"] + (IF Match(prefix, rows[i]) = NoMatch THEN 0
                                               ELSE Match(prefix, rows[i]))]]

Gather(s, c, prefix) ==
    SchemaSuggest(s, c, prefix) \o FunctionSuggest(prefix) \o SnippetSuggest(prefix)
      \o KeywordSuggest(prefix) \o HistorySuggest(c, prefix)
Outranks(a, b) ==
    \/ a.score > b.score
    \/ a.score = b.score /\ Priority[a.source] > Priority[b.source]

\* Engine.Trigger: a stable sort by score and source priority, then the first of
\* each text.
InOrder(seq, at) == [i \in 1..Len(at) |-> seq[at[i]]]
Ranked(seq) ==
    Dedup(InOrder(seq, SortSeq([i \in 1..Len(seq) |-> i],
                               LAMBDA i, j : \/ Outranks(seq[i], seq[j])
                                             \/ ~Outranks(seq[j], seq[i]) /\ i < j)))
Trigger(s, t, cur) == Ranked(Gather(s, schemaContextAt(t, cur), identifierPrefixAt(t, cur)))

-----------------------------------------
\* The popup.  Hidden when its list is empty.
Hide(s) == [s EXCEPT !.list = <<>>, !.sel = 0, !.anchor = 0]
Show(s, list, at) ==
    IF list = <<>> THEN Hide(s) ELSE [s EXCEPT !.list = list, !.sel = 0, !.anchor = at]
Shown(s) == s.list # <<>>

\* The first row drawn, so that the selected one is.
windowStart(n, sel) ==
    LET top == IF sel >= CpVisible THEN sel - CpVisible + 1 ELSE 0
    IN IF n <= CpVisible THEN 0 ELSE IF top + CpVisible > n THEN n - CpVisible ELSE top

Selected(s) == s.list[s.sel + 1]
DetailKey(s) == Key(s.schema, Selected(s).text)
OnFunction(s) == Shown(s) /\ Selected(s).kind = "function"
NoPaint == [rows |-> <<>>, mark |-> 0, footer |-> NoName]
formatSuggestionsBody(s) ==
    LET from == windowStart(Len(s.list), s.sel)
        to == IF from + CpVisible < Len(s.list) THEN from + CpVisible ELSE Len(s.list)
    IN IF ~Shown(s) THEN NoPaint
       ELSE [rows |-> [i \in 1..(to - from) |-> s.list[from + i].text], mark |-> s.sel - from + 1,
             footer |-> IF OnFunction(s) /\ DetailKey(s) \in s.details THEN Selected(s).text ELSE NoName]
\* HandleRender: drawing a function whose signature is missing asks for it.
HandleRender(s) ==
    [s EXCEPT !.paint = formatSuggestionsBody(s),
              !.fetching = IF OnFunction(s) /\ DetailKey(s) \notin s.details
                             THEN @ \cup {DetailKey(s)} ELSE @]

-----------------------------------------
\* The controller.
NoAccept == [done |-> FALSE]
RefilterOrTrigger(s) ==
    LET asked == [s EXCEPT !.trigger = s.cur, !.of = [text |-> s.text, cur |-> s.cur, schema |-> s.schema],
                           !.pending = @ \cup (Missed(s, schemaContextAt(s.text, s.cur)) \ s.cool)]
    IN Show(asked, Trigger(s, s.text, s.cur), s.cur)
AutoTriggerIn(s, held, inSlot) ==
    CASE held -> s
      [] ~held /\ inSlot -> Hide(s)
      [] ~held /\ ~inSlot /\ ~Shown(s) /\ ~AutoTriggerFromContext(s.text, s.cur) -> s
      [] OTHER -> RefilterOrTrigger(s)
AutoTrigger(s) ==
    AutoTriggerIn([s EXCEPT !.suppress = FALSE], s.suppress /\ ~IsIdentDotContext(s.text, s.cur),
                  InAliasSlot(s.text, s.cur))

Splice(t, from, to, x) == SubSeq(t, 1, from) \o x \o SubSeq(t, to + 1, Len(t))
Typed(s, x) == [s EXCEPT !.text = Splice(@, s.cur, s.cur, x), !.cur = @ + Len(x)]

\* Bare is a name in lower case of letters, digits and underscores, reserved or not.
quoteIfNeeded(n) ==
    IF n # <<>> /\ \A i \in DOMAIN n : isIdentRune(n[i]) /\ n[i] \notin SqlKeywords THEN n
    ELSE <<"\"">> \o n \o <<"\"">>
FirstLetter(n) == IF n[1] \in DOMAIN CpLetters THEN CpLetters[n[1]] ELSE n[1]
\* Mutant: the alias is the first letter, taken or not.
firstLetterAlias(n, refs) == <<FirstLetter(n)>>
dedupedAlias(n, refs) ==
    LET taken == {refs[i].alias : i \in DOMAIN refs}
        Numbered(k) == IF k = 1 THEN <<FirstLetter(n)>> ELSE <<FirstLetter(n), ToString(k)>>
        free == {k \in 1..(Len(refs) + 1) : Numbered(k) \notin taken}
    IN Numbered(CHOOSE k \in free : \A j \in free : k <= j)
composeTableAlias(n, refs) ==
    quoteIfNeeded(n) \o <<" ">> \o quoteIfNeeded(dedupedAlias(n, refs))
\* The first aliased owner qualifies a column that two tables have; never on a guess.
composeColumnQualifier(s, col, refs) ==
    LET keyOf(i) == Key(schemaFor(s, refs[i].schema), refs[i].name)
        owners == {i \in DOMAIN refs : col \in ToSet(ColumnsOf(keyOf(i)))}
        aliased == {i \in owners : refs[i].alias # NoName}
        known == \A i \in DOMAIN refs : Loaded(s, keyOf(i))
    IN IF known /\ Cardinality(owners) >= 2 /\ aliased # {}
         THEN quoteIfNeeded(refs[CHOOSE i \in aliased : \A j \in aliased : i <= j].alias)
              \o <<".">> \o quoteIfNeeded(col)
       ELSE quoteIfNeeded(col)

acceptAs(s, from, how, text) ==
    [Hide(s) EXCEPT !.text = Splice(@, from, s.cur, text), !.cur = from + Len(text), !.suppress = TRUE,
                    !.accept = [done |-> TRUE, how |-> how, text |-> text, pick |-> Selected(s).text,
                               kind |-> Selected(s).kind]]
composeInsert(s, c, how) ==
    CASE how = "snippet" -> Selected(s).body
      [] how = "alias" -> composeTableAlias(Selected(s).text, c.tables)
      [] how = "column" -> composeColumnQualifier(s, Selected(s).text, c.tables)
      [] OTHER -> Selected(s).text
acceptIn(s, from, c) ==
    LET pick == Selected(s)
        dotted == from > 0 /\ s.text[from] = "."
        how == CASE pick.kind = "snippet" -> "snippet"
                 [] pick.kind # "snippet" /\ s.alias /\ c.expect = "tables" -> "alias"
                 [] pick.kind # "snippet" /\ c.expect = "columns" /\ ~c.qualifier.present /\ ~dotted -> "column"
                 [] OTHER -> "plain"
    IN IF s.cur < s.anchor \/ from > s.anchor THEN Hide(s)
       ELSE acceptAs(s, from, how, composeInsert(s, c, how))
acceptSuggestion(s) == acceptIn(s, identifierStart(s.text, s.cur), Analyze(s.text, s.cur))

-----------------------------------------
\* Steps.
CpInit ==
    \E t \in CpTexts, b \in CpTopics, sc \in {NoName, CpSchema} :
      /\ b.switch > 0 \/ sc = CpSchema
      /\ cp = [text |-> t.text, cur |-> t.cur, list |-> <<>>, sel |-> 0, anchor |-> 0, trigger |-> 0,
               of |-> [text |-> <<>>, cur |-> 0, schema |-> sc], suppress |-> FALSE, alias |-> b.alias = 1,
               schema |-> sc, warm |-> {}, pending |-> {}, cool |-> {}, details |-> {},
               fetching |-> {}, ready |-> FALSE, paint |-> NoPaint, accept |-> NoAccept, left |-> b]

\* Every event of the UI loop ends with a layout, which draws the popup.
Event(s) == cp' = HandleRender(s)
Fresh == [cp EXCEPT !.accept = NoAccept]
Spend(f) == [Fresh EXCEPT !.left[f] = @ - 1]
Has(f) == cp.left[f] > 0

CpType(r) == Has("keys") /\ Event(AutoTrigger(Typed(Spend("keys"), <<r>>)))
CpBackspace ==
    /\ Has("keys") /\ cp.cur > 0
    /\ Event(AutoTrigger([Spend("keys") EXCEPT !.text = Splice(@, cp.cur - 1, cp.cur, <<>>), !.cur = @ - 1]))
\* The matcher's timer inserts a rune held back for a chord, and draws nothing.
CpFlush(r) == Has("flush") /\ cp' = Typed(Spend("flush"), <<r>>)
CpTrigger == Has("keys") /\ Event(RefilterOrTrigger(Spend("keys")))
CpSelect(d) ==
    /\ Has("keys") /\ Shown(cp)
    /\ Event([Spend("keys") EXCEPT !.sel = (@ + d + Len(cp.list)) % Len(cp.list)])
CpAccept == Has("keys") /\ Shown(cp) /\ Event(acceptSuggestion(Spend("keys")))
CpDismiss == Has("keys") /\ Shown(cp) /\ Event(Hide(Spend("keys")))
\* Insert mode is left, the cursor moved, and insert mode entered again.
CpMove(c) == Has("moves") /\ c # cp.cur /\ Event([Hide(Spend("moves")) EXCEPT !.cur = c])
\* The rail selects a schema; the popup stays.
CpSelectSchema ==
    /\ Has("switch")
    /\ \E sc \in {NoName, CpSchema} \ {cp.schema} : Event([Spend("switch") EXCEPT !.schema = sc])

\* A warm is published on the UI loop, and completion re-run where it was asked.
OnWarmLanded(s) == IF Shown(s) /\ s.cur = s.trigger THEN RefilterOrTrigger(s) ELSE s
CpWarm(k) ==
    /\ k \in cp.pending
    /\ Event(OnWarmLanded([Fresh EXCEPT !.pending = @ \ {k}, !.warm = @ \cup {k}]))
CpWarmFails(k) ==
    /\ k \in cp.pending /\ Has("fails")
    /\ cp' = [Spend("fails") EXCEPT !.pending = @ \ {k}, !.cool = @ \cup {k}]
\* A DDL statement that was running takes the columns out of the store.
CpInvalidate == cp.warm # {} /\ Has("fails") /\ cp' = [Spend("fails") EXCEPT !.warm = {}]

\* A signature is stored by a worker, which then posts the redraw.
CpDetail(k) ==
    /\ k \in cp.fetching
    /\ \/ cp' = [Fresh EXCEPT !.fetching = @ \ {k}, !.details = @ \cup {k}, !.ready = TRUE]
       \/ Has("fails") /\ cp' = [Spend("fails") EXCEPT !.fetching = @ \ {k}]
CpDetailReady == cp.ready /\ Event([Fresh EXCEPT !.ready = FALSE])

CpNext ==
    \/ \E r \in CpRunes : CpType(r) \/ CpFlush(r)
    \/ CpBackspace \/ CpTrigger \/ CpAccept \/ CpDismiss \/ CpSelectSchema
    \/ CpSelect(1) \/ CpSelect(-1)
    \/ \E c \in 0..Len(cp.text) : CpMove(c)
    \/ \E k \in cp.pending : CpWarm(k) \/ CpWarmFails(k)
    \/ CpInvalidate
    \/ \E k \in cp.fetching : CpDetail(k)
    \/ CpDetailReady
CpSpec == CpInit /\ [][CpNext]_cp

-----------------------------------------
\* Properties.
Texts(list) == {list[i].text : i \in DOMAIN list}
\* The names the catalog has for a context: the tables of a table slot, the tables
\* in scope of a join condition, the columns of the qualifier or of what is in scope.
Fitting(s, c) ==
    LET scope == IF c.qualifier.present THEN {QualifierKey(s, c.qualifier)}
                 ELSE IF c.expect \in {"both", "columns"} THEN ScopeKeys(s, c.tables) ELSE {}
    IN UNION {ToSet(ColumnsOf(k)) : k \in scope \cap s.warm}
         \cup (IF c.expect = "tables" /\ ~c.qualifier.present /\ s.schema # NoName
                  THEN ToSet(CpTables) ELSE {})
         \cup (IF c.expect = "both" /\ ~c.qualifier.present
                  THEN {c.tables[i].name : i \in DOMAIN c.tables} ELSE {})
\* A popup at the place and schema it was asked for, with no warm under way, offers
\* every name of the catalog that fits there and what is typed of it.
ListComplete ==
    LET prefix == identifierPrefixAt(cp.text, cp.cur)
    IN (Shown(cp) /\ cp.pending = {} /\ cp.of = [text |-> cp.text, cur |-> cp.cur, schema |-> cp.schema])
         => \A n \in Fitting(cp, schemaContextAt(cp.text, cp.cur)) :
              Match(prefix, n) # NoMatch => n \in Texts(cp.list)
\* It is ranked, names nothing twice, and draws the selected row.
ListRanked ==
    /\ \A i, j \in DOMAIN cp.list :
         i < j => ~Outranks(cp.list[j], cp.list[i]) /\ cp.list[i].text # cp.list[j].text
    /\ Shown(cp) /\ ~cp.ready => cp.paint.rows[cp.paint.mark] = Selected(cp).text
\* Once nothing is in flight the footer of a function shows.
FooterDrawn == ~cp.ready => cp.paint = formatSuggestionsBody(cp)
Reserved(n) == Len(n) = 1 /\ n[1] \in SqlKeywords \cup SqlLower
\* The token that begins at rune n.
TokenAt(ts, n) == {i \in DOMAIN ts : ts[i].off = n}
\* The table parsed from the name at rune n, right after a FROM or a JOIN.
TablesAt(ts, n) ==
    {parseTableRef(ts, k + 1) : k \in {i \in DOMAIN ts : isFromOrJoin(ts[i])
                                                     /\ skipSpace(ts, i + 1) \in TokenAt(ts, n)}}
\* What was inserted as it stands is read as the one name, or keyword, chosen, when
\* it needs no quotes; a name that is a reserved word is read as that keyword.
PlainReadsBack(a, ts, at) ==
    (a.how = "plain" /\ a.kind \notin {"snippet", "history"} /\ (a.kind = "keyword" \/ quoteIfNeeded(a.pick) = a.pick))
      => \E i \in TokenAt(ts, at) : IF a.kind = "keyword" \/ Reserved(a.pick) THEN ts[i].value = a.pick
                                    ELSE isIdentLike(ts[i]) /\ identValue(ts[i]) = a.pick
\* A table inserted with an alias is read as that table, quoted or not, under an alias no
\* other table of the statement has, by which a qualifier finds it. A reserved word in lower
\* case is left bare and is not.
AliasReadsBack(a, ts, at, refs) ==
    (a.how = "alias" /\ a.kind = "table" /\ ~Reserved(a.pick)) =>
      \A r \in TablesAt(ts, at) :
        /\ r.name = a.pick /\ r.alias # NoName
        /\ resolve(refs, r.alias) = <<r>>
        /\ Cardinality({j \in DOMAIN refs : refs[j].alias = r.alias}) = 1
\* A column is read as itself, or through its qualifier from a table that has it.
ColumnReadsBack(a, ts, at, refs) ==
    LET dots == {i \in DOMAIN a.text : a.text[i] = "."}
        owner == resolve(refs, SubSeq(a.text, 1, (CHOOSE i \in dots : TRUE) - 1))
    IN (a.how = "column" /\ a.kind = "column" /\ ~Reserved(a.pick)) =>
         IF dots = {} THEN \E i \in TokenAt(ts, at) : isIdentLike(ts[i]) /\ identValue(ts[i]) = a.pick
         ELSE /\ owner # <<>>
              /\ a.pick \in ToSet(ColumnsOf(Key(schemaFor(cp, owner[1].schema), owner[1].name)))
\* What is accepted reads back as the thing chosen, unless it was put right before a
\* word, which it then runs into.
AcceptReadsBack ==
    LET ts == StatementTokens(cp.text, cp.cur)
        at == StatementCursor(cp.text, cp.cur) - Len(cp.accept.text)
        refs == scopeTables(ts)
        glued == cp.cur < Len(cp.text) /\ isIdentRune(cp.text[cp.cur + 1])
    IN (cp.accept.done /\ ~glued) =>
         /\ PlainReadsBack(cp.accept, ts, at)
         /\ AliasReadsBack(cp.accept, ts, at, refs)
         /\ ColumnReadsBack(cp.accept, ts, at, refs)
CompletionTruth == ListComplete /\ ListRanked /\ FooterDrawn /\ AcceptReadsBack

=============================================================================
