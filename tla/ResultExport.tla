----------------------------- MODULE ResultExport -----------------------------
(***************************************************************************)
(* Exports of a result tab and its column overlay (result_tabs_helper.go    *)
(* from HideOverlay to buildRowSource, popup/export_menu.go and             *)
(* hide_overlay.go, exporter/run.go and dest_file.go). The menu is filled   *)
(* in and confirmed on the UI goroutine; an export runs on a worker while   *)
(* the stream of the tab goes on, ends, is replaced or is disposed, and     *)
(* while another export is started or the menu cancels it.                  *)
(*                                                                          *)
(* The rows of a stream are 1..XpRows in order, the rows written to a file  *)
(* are how many of which stream. Formats 1, 2 and 3 are a streaming one, a  *)
(* buffered one and SQL INSERTs.                                            *)
(***************************************************************************)
EXTENDS Integers, Sequences, FiniteSets, FiniteSetsExt

CONSTANTS XpRows,       \* rows of a stream
          XpExports,    \* bound on the exports
          XpThreshold,  \* rows a buffered format may hold
          XpKeys        \* bound on the keys pressed in the menu and the overlay

ASSUME XpAssumption == XpRows \in Nat \ {0} /\ {XpExports, XpThreshold} \subseteq Nat /\ XpKeys \in Nat \ {0}

VARIABLE xp

XpPaths == {1, 2}                       \* file names, without extension
XpFiles == XpPaths \X (1..3)            \* with the extension of a format
Clipboard == <<0, 0>>
NoFile == [gen |-> 0, rows |-> 0]
NoMenu == [open |-> FALSE, field |-> 0, format |-> 1, dest |-> 1, scope |-> 0, path |-> 1,
           disabled |-> 0]
NoExport == [stage |-> "none", gen |-> 0, scope |-> 0, format |-> 1, file |-> <<1, 1>>, cancelled |-> FALSE,
             from |-> 0, take |-> 0, put |-> 0]

XpStart ==
         [keys |-> 0, gen |-> 1, loaded |-> 0, eof |-> FALSE, disposed |-> FALSE,
          menu |-> NoMenu, slot |-> 0, n |-> 0, exp |-> [i \in 1..XpExports |-> NoExport], asked |-> 0,
          disk |-> [f \in XpFiles \cup {Clipboard} |-> NoFile], partial |-> [f \in XpFiles |-> 0],
          cols |-> {1, 2}, hidden |-> {}, overlay |-> <<FALSE, {}>>, store |-> {}]
\* A menu or an overlay that keys have brought to where it is, and one that is still to be opened.
OpenMenu(field, format, scope) == [NoMenu EXCEPT !.open = TRUE, !.field = field, !.format = format, !.scope = scope]
XpInit ==
    \/ xp = XpStart
    \/ \E f \in 1..2, c \in 1..2 : xp = [XpStart EXCEPT !.keys = XpKeys, !.menu = OpenMenu(3, f, c)]
    \/ xp = [XpStart EXCEPT !.keys = XpKeys - 1, !.menu = OpenMenu(2, 1, 0)]
    \/ xp = [XpStart EXCEPT !.keys = XpKeys - 1, !.overlay = <<TRUE, {1}>>]
Press == xp.keys < XpKeys

-----------------------------------------
\* The stream of the tab.
StreamLoads == /\ ~xp.disposed /\ xp.loaded < XpRows
               /\ xp' = [xp EXCEPT !.loaded = @ + 1]
StreamEnds == /\ ~xp.disposed /\ ~xp.eof /\ xp.loaded = XpRows
              /\ xp' = [xp EXCEPT !.eof = TRUE]
\* A sort replaces the rows, and the hidden columns are read again from the store.
\* A context that hangs on the stream cancels its exports.
CancelAll(s) == [s EXCEPT !.exp = [i \in DOMAIN @ |->
                    IF @[i].stage \in {"none", "done", "failed"} \/ @[i].stage = "asked" THEN @[i]
                    ELSE [@[i] EXCEPT !.cancelled = TRUE]]]
seedHiddenCols == xp.store \cap xp.cols
StreamReplaced == /\ ~xp.disposed /\ xp.gen < 2
                  /\ xp' = [CancelAll(xp) EXCEPT !.gen = @ + 1, !.loaded = 0, !.eof = FALSE,
                                                 !.hidden = seedHiddenCols]
TabDisposed == ~xp.disposed /\ xp' = [CancelAll(xp) EXCEPT !.disposed = TRUE]

-----------------------------------------
\* The menu. Fields are format, destination, path and scope.
exportMenuCancel(s) == IF s.slot = 0 THEN s ELSE [s EXCEPT !.exp[s.slot].cancelled = TRUE, !.slot = 0]

\* SQL INSERTs is offered, and may be known to be impossible.
PromptExport ==
    /\ ~xp.menu.open /\ ~xp.overlay[1]
    /\ \E disabled \in {0, 3} :
          xp' = [exportMenuCancel(xp) EXCEPT !.menu = [NoMenu EXCEPT !.open = TRUE, !.disabled = disabled]]

clampField(v, lo, hi) == Max({lo, Min({v, hi})})
\* The path is a field only for a file.
MoveField(d) ==
    LET n == clampField(xp.menu.field + d, 0, 3)
    IN  /\ xp.menu.open /\ Press
        /\ xp' = [xp EXCEPT !.keys = @ + 1, !.menu.field = IF n = 2 /\ xp.menu.dest # 1 THEN n + d ELSE n]
\* The disabled format is stepped over, and not entered at the end of the list.
moveFormatValue(m, d) ==
    LET next == m.format + d
    IN  IF next \notin 1..3 THEN m.format
        ELSE IF next # m.disabled THEN next
        ELSE IF next + d \in 1..3 THEN next + d ELSE m.format
MoveValue(d) ==
    LET m == xp.menu
        f == moveFormatValue(m, d)
    IN  /\ m.open /\ Press
        /\ xp' = [xp EXCEPT !.keys = @ + 1, !.menu =
                    CASE m.field = 0 -> [m EXCEPT !.format = f]
                      [] m.field = 1 -> [m EXCEPT !.dest = clampField(m.dest + d, 0, 1)]
                      [] m.field = 3 -> [m EXCEPT !.scope = clampField(m.scope + d, 0, 2)]
                      [] OTHER -> m]
\* A path the user names gets the extension of the format, now and when the format changes.
EditPath == /\ xp.menu.open /\ xp.menu.field = 2 /\ Press
            /\ \E p \in XpPaths : xp' = [xp EXCEPT !.keys = @ + 1, !.menu.path = p]
ExportMenuCancel == xp.menu.open /\ xp' = [exportMenuCancel(xp) EXCEPT !.menu = NoMenu]

\* The rows a buffered format would hold: none are known for all rows of a
\* result without an estimate.
bufferedCount(scope) == IF scope = 2 THEN 0 ELSE xp.loaded
ConfirmBlocked(m) == \/ m.format = m.disabled
                     \/ m.format = 2 /\ bufferedCount(m.scope) > XpThreshold
CapturedExport(m) == [NoExport EXCEPT !.stage = "asked", !.gen = xp.gen, !.scope = m.scope,
                                !.format = m.format,
                                !.file = IF m.dest = 1 THEN <<m.path, m.format>> ELSE Clipboard]
\* The running export takes the place of whatever menu is open by now.
dispatchExport(s, i) ==
    [exportMenuCancel(s) EXCEPT !.menu = NoMenu, !.slot = i, !.exp[i].stage = "queued",
                                !.exp[i].cancelled = xp.disposed \/ s.exp[i].gen # xp.gen]
fileExists(f) == f # Clipboard /\ xp.disk[f] # NoFile
\* The source is captured at the confirmation; a file that exists is asked
\* about, and the answer may come much later.
ExportMenuConfirm ==
    /\ xp.menu.open /\ ~ConfirmBlocked(xp.menu) /\ xp.n < XpExports
    /\ LET i == xp.n + 1
           c == [xp EXCEPT !.menu = NoMenu, !.slot = 0, !.n = i, !.exp[i] = CapturedExport(xp.menu)]
       IN  xp' = IF fileExists(c.exp[i].file)
                 THEN [c EXCEPT !.asked = i]
                 ELSE dispatchExport(c, i)
Overwrite == /\ xp.asked # 0
             /\ \/ xp' = [dispatchExport(xp, xp.asked) EXCEPT !.asked = 0]
                \/ xp' = [xp EXCEPT !.exp[xp.asked].stage = "failed", !.asked = 0]

-----------------------------------------
\* The worker of an export.
FreeSlot(s, i) == IF s.slot = i THEN [s EXCEPT !.slot = 0] ELSE s
Ends(i, stage) == FreeSlot([xp EXCEPT !.exp[i].stage = stage], i)
Stale(e) == e.cancelled \/ xp.disposed \/ xp.gen # e.gen

\* All rows: the stream is drained first; then the rows are copied, unless the
\* stream was replaced meanwhile.
\* Mutant: the drained rows are taken without looking at the stream again.
snapshotAnyStream(e) == ~e.cancelled \/ e.scope = 2
snapshotStream(e) == ~Stale(e)
buildRowSource(i) ==
    LET e == xp.exp[i]
        visible == Min({xp.loaded, 1})
    IN  /\ e.stage \in {"queued", "drained"}
        /\ \/ e.stage = "queued" /\ ~Stale(e) /\ e.scope = 2 /\ xp.eof
              /\ xp' = [xp EXCEPT !.exp[i].stage = "drained"]
           \/ /\ e.scope # 2 \/ e.stage = "drained"
              /\ xp' = IF snapshotStream(e)
                       THEN [xp EXCEPT !.exp[i].stage = "source", !.exp[i].from = xp.gen,
                                       !.exp[i].take = IF e.scope = 0 THEN visible ELSE xp.loaded]
                       ELSE Ends(i, "failed")
           \/ e.stage = "queued" /\ Stale(e) /\ xp' = Ends(i, "failed")
\* The partial file is created exclusively; what goes to the clipboard is kept in memory.
Unclaimed(e) == e.file \notin {f \in XpFiles : xp.partial[f] # 0}
Claim(e, i) == IF e.file = Clipboard THEN xp ELSE [xp EXCEPT !.partial[e.file] = i]
OpenDest(i) ==
    LET e == xp.exp[i]
        over == e.scope # 2 /\ e.format = 2 /\ e.take > XpThreshold
    IN  /\ e.stage = "source"
        /\ \/ /\ ~e.cancelled /\ ~over /\ Unclaimed(e)
              /\ xp' = [Claim(e, i) EXCEPT !.exp[i].stage = "writing"]
           \/ xp' = Ends(i, "failed")
Release(s, i) == [s EXCEPT !.partial = [f \in XpFiles |-> IF @[f] = i THEN 0 ELSE @[f]]]
Abort(i) == Release(Ends(i, "failed"), i)
\* Cancellation is looked at before each row and before the file is closed;
\* the rename publishes the file. Any step may fail.
ExportStep(i) ==
    LET e == xp.exp[i]
    IN  /\ e.stage = "writing"
        /\ \/ /\ ~e.cancelled /\ e.put < e.take
              /\ xp' = [xp EXCEPT !.exp[i].put = @ + 1]
           \/ /\ ~e.cancelled /\ e.put = e.take
              /\ xp' = [Release(Ends(i, "done"), i) EXCEPT !.disk[e.file] = [gen |-> e.from, rows |-> e.put]]
           \/ xp' = Abort(i)

-----------------------------------------
\* The column overlay. The hidden names of a base table are kept.
HideOverlay == /\ ~xp.overlay[1] /\ Press /\ ~xp.menu.open /\ ~xp.disposed
               /\ xp' = [xp EXCEPT !.keys = @ + 1, !.overlay = <<TRUE, xp.hidden>>]
ExportHideToggle ==
    /\ xp.overlay[1] /\ Press
    /\ \E c \in xp.cols :
          LET h == xp.overlay[2]
          IN  xp' = [xp EXCEPT !.keys = @ + 1, !.overlay[2] = IF c \in h THEN h \ {c}
                                              ELSE IF Cardinality(h) + 1 >= Cardinality(xp.cols) THEN h
                                              ELSE h \cup {c}]
ExportHideClose ==
    /\ xp.overlay[1]
    /\ xp' = [xp EXCEPT !.overlay = <<FALSE, {}>>, !.hidden = xp.overlay[2], !.store = xp.overlay[2]]

XpNext == \/ StreamLoads \/ StreamEnds \/ StreamReplaced \/ TabDisposed
          \/ PromptExport \/ EditPath \/ ExportMenuCancel \/ ExportMenuConfirm \/ Overwrite
          \/ \E d \in {-1, 1} : MoveField(d) \/ MoveValue(d)
          \/ \E i \in 1..XpExports : buildRowSource(i) \/ OpenDest(i) \/ ExportStep(i)
          \/ HideOverlay \/ ExportHideToggle \/ ExportHideClose

XpSpec == XpInit /\ [][XpNext]_xp

-----------------------------------------
\* What an export took, and what its file holds, is rows of the stream it was
\* confirmed on, whatever the tab shows by then, and all of them when all were
\* asked for; a partial file belongs to an export that is writing it, and no
\* other export writes there; a running export that nobody cancelled is the one
\* that the menu can still cancel; the menu never confirms a disabled format and
\* leaves no hidden field selected; one column stays visible.
RunningExports == {i \in 1..XpExports : xp.exp[i].stage \in {"queued", "drained", "source", "writing"}}
ExportTruth ==
    /\ \A i \in 1..XpExports : LET e == xp.exp[i] IN
          /\ e.stage \in {"source", "writing", "done"} =>
                e.from = e.gen /\ (e.scope = 2 => e.take = XpRows)
          /\ e.stage = "done" => e.put = e.take /\ e.format # 0
          /\ e.stage = "writing" /\ e.file # Clipboard <=> \E f \in XpFiles : xp.partial[f] = i
    /\ \A f \in XpFiles \cup {Clipboard} : xp.disk[f] # NoFile =>
          \E i \in 1..XpExports : LET e == xp.exp[i] IN
             e.stage = "done" /\ e.file = f /\ xp.disk[f] = [gen |-> e.gen, rows |-> e.take]
    /\ \A i \in RunningExports : ~xp.exp[i].cancelled => xp.slot = i
    /\ xp.menu.open => /\ xp.menu.format # xp.menu.disabled
                       /\ xp.menu.field = 2 => xp.menu.dest = 1
    /\ xp.hidden # xp.cols
=============================================================================
