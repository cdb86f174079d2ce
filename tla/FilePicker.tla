------------------------------ MODULE FilePicker ------------------------------
(***************************************************************************)
(* The file picker: a listing, a one-line input shared by the file name,    *)
(* the search and the new directory, and the two callbacks of whoever       *)
(* opened it. Everything runs on the UI goroutine; the file system changes  *)
(* under it, and keys may arrive before the first layout gives it a view.   *)
(*                                                                          *)
(* A path is a sequence of names. One link, "l", points at the directory    *)
(* "d"; paths through it are kept as written.                               *)
(***************************************************************************)
EXTENDS Integers, Sequences, SequencesExt, FiniteSets

CONSTANTS FpNames,     \* names, in alphabetical order
          FpHiddenNames, \* those that begin with a dot
          FpSize, FpTime, \* size and age of an entry, by name
          FpFS,        \* file systems at the start: path -> "none", "file" or "dir"
          FpStarts,    \* <<mode, start path>> of a Push
          FpQueries,   \* [text, hits]: a query and the names it matches
          FpMaxMatches, FpHeight, \* 200, and the rows of the listing
          FpKeys       \* bound on keys

VARIABLE fp

Link == <<"l">>
Real(path) == IF path # <<>> /\ Head(path) = "l" THEN <<"d">> \o Tail(path) ELSE path
Stat(fs, path) == IF path = <<>> THEN "dir" ELSE IF Real(path) \in DOMAIN fs THEN fs[Real(path)] ELSE "none"
Dir(path) == IF path = <<>> THEN <<>> ELSE Front(path)
Rank(name) == CHOOSE i \in DOMAIN FpNames : FpNames[i] = name

resolvePath(fs, path) ==
    CASE Stat(fs, path) = "dir" -> <<TRUE, path>>
      [] Stat(fs, path) # "dir" /\ Stat(fs, Dir(path)) = "dir" -> <<TRUE, Dir(path)>>
      [] OTHER -> <<FALSE, path>>

\* The entries of a directory; a link is listed by what it points at now.
Entries(fs, dir, showHidden) ==
    LET at(n) == Append(dir, n)
        isLink(n) == at(n) = Link
        names == {n \in Range(FpNames) : isLink(n) \/ Stat(fs, at(n)) # "none"}
        shown == {n \in names : showHidden \/ n \notin FpHiddenNames}
    IN {[name |-> n, path |-> at(n), isDir |-> Stat(fs, at(n)) = "dir", isLink |-> isLink(n)] : n \in shown}
Sorted(entries, order) ==
    LET key(e) == CASE order = 1 -> FpSize[e.name] [] order = 2 -> FpTime[e.name] [] OTHER -> 0
        before(e, f) == IF e.isDir # f.isDir THEN e.isDir
                        ELSE IF key(e) # key(f) THEN key(e) > key(f) ELSE Rank(e.name) < Rank(f.name)
    IN SetToSortSeq(entries, before)

NoSearch == [query |-> "", hits |-> {}, matches |-> <<>>, current |-> 1, truncated |-> FALSE]
NoEntry == [name |-> "", path |-> <<>>, isDir |-> FALSE, isLink |-> FALSE]
\* typed is what the user has written into the input that has the focus; answers what the
\* caller was told; last the directory remembered for the next time.
Closed(fs) ==
    [open |-> FALSE, mode |-> "open", cwd |-> <<>>, items |-> <<>>, cursor |-> 1, search |-> NoSearch,
     showHidden |-> FALSE, filename |-> "", focused |-> FALSE, kind |-> "none", err |-> "", sort |-> 0, offset |-> 0,
     view |-> FALSE, text |-> "", typed |-> "", keyMode |-> "reset", caret |-> FALSE, armed |-> FALSE,
     answers |-> <<>>, last |-> <<>>, pushes |-> 0, fs |-> fs, keys |-> 0]
FpInit == \E fs \in FpFS : fp = Closed(fs)

FpSelected(f) == IF f.cursor \in DOMAIN f.items THEN f.items[f.cursor] ELSE NoEntry
FpSetCursor(f, i) ==
    [f EXCEPT !.cursor = IF i < 1 \/ f.items = <<>> THEN 1 ELSE IF i > Len(f.items) THEN Len(f.items) ELSE i]
FpClearSearch(f) == [f EXCEPT !.search = NoSearch]
\* Go to a directory, or to the one of a file; a listing that cannot be read is empty.
NavigateTo(f, path, readable) ==
    LET to == resolvePath(f.fs, path)
        there == [FpClearSearch(f) EXCEPT !.cwd = to[2], !.err = "", !.offset = 0]
        items == Sorted(Entries(f.fs, to[2], f.showHidden), f.sort)
    IN IF ~to[1] THEN [f EXCEPT !.err = "cannot access"]
       ELSE IF ~readable THEN [there EXCEPT !.err = "read error", !.items = <<>>, !.cursor = 1]
       ELSE [there EXCEPT !.items = items,
                          !.cursor = IF @ > Len(items) THEN (IF items = <<>> THEN 1 ELSE Len(items)) ELSE @]

maxVisibleItems(f) == LET n == FpHeight - (IF f.err # "" THEN 1 ELSE 0) IN IF n < 1 THEN 1 ELSE n
\* HandleRender: the listing scrolls so that the cursor is drawn.
ShownEntries(f) ==
    LET n == maxVisibleItems(f)
        c == f.cursor - 1
        up == IF c < f.offset THEN c ELSE f.offset
        down == IF c >= up + n THEN c - n + 1 ELSE up
        over == IF down + n > Len(f.items) THEN Len(f.items) - n ELSE down
    IN IF f.items = <<>> THEN f ELSE [f EXCEPT !.offset = IF over < 0 THEN 0 ELSE over]
\* The row that is drawn with the cursor on it.
CursorRow(f) ==
    IF f.cursor \in DOMAIN f.items /\ f.cursor - 1 \in f.offset .. f.offset + maxVisibleItems(f) - 1
    THEN f.items[f.cursor] ELSE NoEntry

-----------------------------------------
\* The input line. Before the first layout there is no view, and the text
\* of the file name lives in the context alone.
Buffer(f) == IF f.view /\ f.focused THEN f.text
             ELSE IF f.focused /\ f.kind # "filename" THEN "" ELSE f.filename
keepFilename(f) == [f EXCEPT !.filename = IF f.focused /\ f.kind = "filename" THEN Buffer(f) ELSE @]
activateInput(f, k) ==
    LET g == keepFilename(f)
    IN [g EXCEPT !.kind = k, !.text = IF ~f.view THEN @ ELSE IF k = "filename" THEN g.filename ELSE "",
                 !.caret = TRUE, !.keyMode = "insert", !.focused = TRUE, !.typed = IF k = "filename" THEN g.filename ELSE ""]
deactivateInput(f) ==
    [keepFilename(f) EXCEPT !.caret = FALSE, !.keyMode = "command", !.focused = FALSE, !.kind = "none", !.typed = ""]
SetView(f) == [f EXCEPT !.view = TRUE, !.text = IF f.focused /\ ~f.view THEN Buffer(f) ELSE @]

FpSetSearch(f, q) ==
    LET rows == SelectSeq([i \in DOMAIN f.items |-> i], LAMBDA i : f.items[i].name \in q.hits)
        matches == SubSeq(rows, 1, IF Len(rows) > FpMaxMatches THEN FpMaxMatches ELSE Len(rows))
        after == {i \in DOMAIN matches : matches[i] >= f.cursor}
        current == IF after = {} THEN 1 ELSE CHOOSE i \in after : \A j \in after : i <= j
        g == [f EXCEPT !.search = [query |-> q.text, hits |-> q.hits, matches |-> matches, current |-> current,
                                   truncated |-> Len(rows) > FpMaxMatches]]
    IN IF q.text = "" THEN FpClearSearch(f) ELSE IF matches = <<>> THEN g ELSE FpSetCursor(g, matches[current])
FpStepMatch(f, dir) ==
    LET n == Len(f.search.matches)
        current == ((f.search.current - 1 + dir + n) % n) + 1
    IN IF n = 0 THEN f ELSE FpSetCursor([f EXCEPT !.search.current = current], f.search.matches[current])

-----------------------------------------
\* Keys. Those of the listing are bound in command mode, Enter and Esc in
\* insert mode; the letters are written into the input by the view.
Done(f) == fp' = ShownEntries([f EXCEPT !.keys = @ + 1])
FpKey == fp.open /\ fp.keys < FpKeys
Listing == FpKey /\ fp.keyMode = "command"
TypingName == FpKey /\ fp.keyMode = "insert"

Push == \E start \in FpStarts, readable \in BOOLEAN :
    /\ ~fp.open /\ fp.keys < FpKeys
    /\ LET fresh == [fp EXCEPT !.open = TRUE, !.mode = start[1], !.armed = TRUE, !.cursor = 1, !.search = NoSearch,
                       !.showHidden = FALSE, !.focused = FALSE, !.kind = "none", !.err = "", !.offset = 0, !.sort = 0,
                       !.filename = IF start[1] = "save" /\ start[2] # <<>> THEN Last(start[2]) ELSE "",
                       !.keyMode = "command", !.caret = FALSE, !.pushes = @ + 1, !.typed = ""]
       IN Done(NavigateTo(fresh, IF start[2] = <<>> THEN fp.last ELSE start[2], readable))
Layout == fp.open /\ ~fp.view /\ fp' = SetView(fp)
ListingMove == Listing /\ \E i \in {fp.cursor - 1, fp.cursor + 1, 1, Len(fp.items)} :
    i # fp.cursor /\ fp' = ShownEntries(FpSetCursor(fp, i))
Ascend == Listing /\ \E r \in BOOLEAN : Done(IF fp.cwd = <<>> THEN fp ELSE NavigateTo(fp, Dir(fp.cwd), r))
ToggleHidden == Listing /\ \E r \in BOOLEAN :
    LET f == NavigateTo([fp EXCEPT !.showHidden = ~@], fp.cwd, r)
        same == {i \in DOMAIN f.items : f.items[i].path = FpSelected(fp).path}
    IN Done(IF same = {} THEN f ELSE [f EXCEPT !.cursor = CHOOSE i \in same : TRUE])
CycleSort == Listing /\ \E r \in BOOLEAN : Done(NavigateTo([fp EXCEPT !.sort = (@ + 1) % 3], fp.cwd, r))
NavigateHome == Listing /\ Done(NavigateTo(fp, <<>>, TRUE))
FindMatch == Listing /\ \E d \in {-1, 1} : Done(FpStepMatch(fp, d))
OpenInput == Listing /\ \E k \in {"search", "newdir", "filename"} :
    (k = "filename" => fp.mode = "save") /\ Done(activateInput(fp, k))
TypeRune == TypingName /\ fp.view /\ \E q \in FpQueries :
    fp.text # q.text /\ Done([fp EXCEPT !.text = q.text, !.typed = q.text])
LeaveInput == TypingName /\ Done(IF fp.kind = "search" THEN FpClearSearch(deactivateInput(fp)) ELSE deactivateInput(fp))
ApplySearch ==
    /\ TypingName /\ fp.kind = "search"
    /\ Done(FpSetSearch(deactivateInput(fp), CHOOSE q \in FpQueries : q.text = Buffer(fp)))
CreateDirectory == \E r \in BOOLEAN :
    LET name == Buffer(fp)
        new == Append(fp.cwd, name)
        f == deactivateInput(fp)
    IN /\ TypingName /\ fp.kind = "newdir"
       /\ Done(IF name = "" THEN f
               ELSE IF Stat(fp.fs, new) # "none" \/ Real(new) \notin DOMAIN fp.fs \/ Stat(fp.fs, fp.cwd) # "dir"
                    THEN [f EXCEPT !.err = "cannot create"]
               ELSE NavigateTo([f EXCEPT !.fs[Real(new)] = "dir"], fp.cwd, r))

\* The picker closes: it leaves the focus stack first and answers its caller after that.
Answer(f, what) ==
    [f EXCEPT !.open = FALSE, !.armed = FALSE, !.view = FALSE, !.keyMode = "reset", !.caret = FALSE, !.last = f.cwd,
              !.answers = IF f.armed THEN Append(@, what) ELSE @]
resolveConfirmPath(f) ==
    IF f.mode = "save" /\ f.focused
    THEN IF Buffer(f) = "" THEN <<>> ELSE Append(f.cwd, Buffer(f))
    ELSE IF FpSelected(f).isDir THEN <<>> ELSE FpSelected(f).path
\* Enter: a link is looked at again, a directory behind it is entered; a name that was typed
\* is looked up too. Nothing to pick is a cancel.
ConfirmPick(f, r) ==
    LET path == resolveConfirmPath(f)
        isLink == IF f.focused THEN path = Link ELSE FpSelected(f).isLink
    IN IF path # <<>> /\ isLink /\ Stat(f.fs, path) = "none" THEN [f EXCEPT !.err = "link error"]
       ELSE IF path # <<>> /\ isLink /\ Stat(f.fs, path) = "dir" THEN NavigateTo(f, path, r)
       ELSE Answer(f, [picked |-> path # <<>>, path |-> path, was |-> Stat(f.fs, path), shown |-> f.typed,
                       row |-> CursorRow(f), focused |-> f.focused, cwd |-> f.cwd])
Descend(f, r) ==
    LET sel == FpSelected(f)
    IN IF sel.isLink /\ Stat(f.fs, sel.path) # "dir" THEN [f EXCEPT !.err = "link error"] ELSE NavigateTo(f, sel.path, r)
EnterListing == Listing /\ \E r \in BOOLEAN : Done(IF FpSelected(fp).isDir THEN Descend(fp, r) ELSE ConfirmPick(fp, r))
EnterFilename == TypingName /\ fp.kind = "filename" /\ \E r \in BOOLEAN : Done(ConfirmPick(fp, r))
CancelPick == Listing /\ Done(Answer(fp, [picked |-> FALSE, path |-> <<>>, was |-> "none", shown |-> "", row |-> NoEntry,
                                          focused |-> FALSE, cwd |-> fp.cwd]))
\* Something else creates, removes or replaces an entry.
OtherWriter == \E path \in DOMAIN fp.fs, kind \in {"none", "file", "dir"} :
    /\ fp.keys < FpKeys /\ kind # fp.fs[path]
    /\ fp.fs[path] = "dir" => \A below \in DOMAIN fp.fs : Len(below) > Len(path) /\ Dir(below) = path => fp.fs[below] = "none"
    /\ Stat(fp.fs, Dir(path)) = "dir"
    /\ fp' = [fp EXCEPT !.fs[path] = kind, !.keys = @ + 1]

FpNext == Push \/ Layout \/ ListingMove \/ Ascend \/ ToggleHidden \/ CycleSort \/ NavigateHome \/ FindMatch \/ OpenInput
          \/ TypeRune \/ LeaveInput \/ ApplySearch \/ CreateDirectory \/ EnterListing \/ EnterFilename \/ CancelPick \/ OtherWriter
FpSpec == FpInit /\ [][FpNext]_fp

\* The picker (context/file_picker_context.go) answers its caller once per Push and only when it
\* has left the screen. What it answers is, in the directory shown, the name the user sees in the
\* input that has the focus, or else the file drawn under the cursor, and never a link that leads
\* to a directory. The cursor is on a row that is drawn, every match is a row whose name matches,
\* key mode and caret follow the input, and the input of a laid-out picker shows what was typed
\* into it and nothing left over from an earlier use.
PickTruth ==
    /\ Len(fp.answers) = fp.pushes - (IF fp.open THEN 1 ELSE 0)
    /\ fp.armed <=> fp.open
    /\ \A i \in DOMAIN fp.answers : LET a == fp.answers[i] IN
         a.picked => /\ a.focused => a.path = Append(a.cwd, a.shown) /\ a.shown # ""
                     /\ ~a.focused => /\ a.row # NoEntry /\ ~a.row.isDir
                                     /\ a.path = Append(a.cwd, a.row.name)
                     /\ a.path = Link => a.was # "dir"
    /\ fp.items # <<>> => /\ fp.cursor \in DOMAIN fp.items
                          /\ fp.cursor - 1 \in fp.offset .. fp.offset + maxVisibleItems(fp) - 1
    /\ \A i \in DOMAIN fp.items : fp.items[i].path = Append(fp.cwd, fp.items[i].name)
    /\ \A i \in DOMAIN fp.search.matches : fp.items[fp.search.matches[i]].name \in fp.search.hits
    /\ fp.open => /\ fp.keyMode = (IF fp.focused THEN "insert" ELSE "command")
                  /\ fp.caret = fp.focused /\ (fp.focused <=> fp.kind # "none")
                  /\ fp.focused => Buffer(fp) = fp.typed
=============================================================================
