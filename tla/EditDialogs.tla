----------------------------- MODULE EditDialogs -----------------------------
(***************************************************************************)
(* The popups of inline editing: the cell editor, the boolean chooser and  *)
(* the expression prompt that stage edits, the commit dialog with its      *)
(* typed-name gate and its asynchronous dry run and apply, and the         *)
(* conflict dialog.  Meanwhile a run may bring another tab to the front, a *)
(* connection may replace the current one, and another popup may take the  *)
(* place of the one that is shown.  What the server does to the rows is    *)
(* CommitOperation's subject: here an operation has an outcome.            *)
(***************************************************************************)
EXTENDS Integers, FiniteSets

CONSTANTS
    DgConn,       \* the connection each result tab was read from
    DgTable,      \* the table each result tab shows
    DgCells,      \* the cells of a row: a function to [bool, nullable, checked, null]
    DgProtected,  \* connections whose writes need their name typed
    DgReadOnly,   \* connections that refuse writes
    DgTopics      \* what a behaviour may do, as budgets: records
                  \* [edits, opens, starts, tabs, connects, others]

VARIABLE dg

DgNone == "none"
\* A protected connection without a name is never written: no input opens its gate.
ASSUME DialogAssumption == DgNone \notin DgProtected
DgTabs == DOMAIN DgConn
DgProfiles == {DgConn[t] : t \in DgTabs}
NoCell == [active |-> FALSE]
NoPrompt == [owner |-> DgNone]
NoDialog == [active |-> FALSE]
NoDialogEdit == [tab |-> DgNone, cell |-> DgNone]

-----------------------------------------
\* The stack: every popup here is temporary, so a new one takes the place
\* of the one that is shown.  An evicted cell editor forgets its text.
LoseFocus(s) == IF s.top = "cell" /\ s.cell.active THEN [s EXCEPT !.cell.buf = "", !.cell.view = FALSE] ELSE s
ShowDialog(s, popup) == IF s.top = popup THEN s ELSE [LoseFocus(s) EXCEPT !.top = popup]
PopFocus(s) == [LoseFocus(s) EXCEPT !.top = DgNone]

SpendKey(s, what) == [s EXCEPT !.left[what] = @ - 1]
CanSpend(what) == dg.left[what] > 0

-----------------------------------------
\* The pending-edit set of a tab, as the editor's store sees it.  The
\* store remembers the set and the grid's baseline of the moment editing
\* began; a commit that lands moves the baseline and the store refuses.
ActiveSet(s) == s.tab
IsEmptySet(s, t) == \A c \in DOMAIN DgCells : s.edits[t][c] = NoDialogEdit
captured(s) == s.cell.store
captureStore(s) == [set |-> ActiveSet(s), base |-> s.base[ActiveSet(s)]]
StoreAccepts(s, store) == store.base = s.base[store.set]

\* Of an edit the model keeps `at`, the tab and the cell the user was looking at.
AddEdit(s, store, c, at) ==
    IF StoreAccepts(s, store) THEN [s EXCEPT !.edits[store.set][c] = at] ELSE s
RemoveEdit(s, store, c) ==
    IF StoreAccepts(s, store) THEN [s EXCEPT !.edits[store.set][c] = NoDialogEdit] ELSE s

-----------------------------------------
\* The cell editor.
FormatForEdit(c) == IF DgCells[c].null THEN "" ELSE "shown"
OpenCell(s, store, at, text) ==
    [s EXCEPT !.cell = [active |-> TRUE, store |-> store, at |-> at, buf |-> text, initial |-> text, view |-> FALSE]]
CloseCell(s) == [s EXCEPT !.cell = NoCell]

Enter ==
    \E c \in DOMAIN DgCells :
        LET s == SpendKey(dg, "edits")
            at == [tab |-> s.tab, cell |-> c]
        IN  /\ dg.top = DgNone
            /\ CanSpend("edits")
            /\ dg' = IF DgCells[c].bool
                     THEN ShowDialog([s EXCEPT !.choice = [owner |-> "bool", at |-> at, store |-> captureStore(s)]], "choice")
                     ELSE [ShowDialog(OpenCell(s, captureStore(s), at, FormatForEdit(c)), "cell")
                              EXCEPT !.draft = FormatForEdit(c)]

\* The layout pass creates the view and types the initial text into it.
LayoutCell ==
    /\ dg.top = "cell" /\ dg.cell.active /\ ~dg.cell.view
    /\ dg' = [dg EXCEPT !.cell.view = TRUE, !.cell.buf = dg.cell.initial]

TypeText ==
    \E text \in {"", "shown", "typed"} :
        /\ dg.top = "cell" /\ dg.cell.active /\ dg.cell.view /\ text # dg.cell.buf
        /\ dg' = [dg EXCEPT !.cell.buf = text, !.draft = text]

ValidateForCommit(c, text) == ~DgCells[c].checked \/ text # ""

LeaveCell(s) == PopFocus(CloseCell(s))

CommitCell ==
    LET at == dg.cell.at
        store == captured(dg)
        changed == dg.cell.buf # FormatForEdit(at.cell)
    IN  /\ dg.top = "cell" /\ dg.cell.active
        /\ changed => ValidateForCommit(at.cell, dg.cell.buf) /\ StoreAccepts(dg, store)
        /\ dg' = LeaveCell(IF changed THEN AddEdit(dg, store, at.cell, at) ELSE dg)

DiscardCell ==
    LET at == dg.cell.at
        store == captured(dg)
        dirty == dg.edits[store.set][at.cell] # NoDialogEdit
    IN  /\ dg.top = "cell" /\ dg.cell.active
        /\ dg' = IF dirty THEN RemoveEdit(LeaveCell(dg), store, at.cell) ELSE LeaveCell(dg)

SetNull ==
    /\ dg.top = "cell" /\ dg.cell.active
    /\ DgCells[dg.cell.at.cell].nullable
    /\ dg' = LeaveCell(AddEdit(dg, captured(dg), dg.cell.at.cell, dg.cell.at))

injectExpression ==
    /\ dg.top = "cell" /\ dg.cell.active
    /\ dg' = LeaveCell(AddEdit(dg, captured(dg), dg.cell.at.cell, dg.cell.at))

\* The prompt evicts the editor; its callbacks hold everything the editor forgets.
ExprPrompt ==
    /\ dg.top = "cell" /\ dg.cell.active
    /\ dg' = ShowDialog([dg EXCEPT !.prompt = [owner |-> "expr", at |-> dg.cell.at, store |-> captured(dg),
                                        draft |-> dg.cell.buf]], "prompt")

resume(s, p) == ShowDialog(OpenCell(s, p.store, p.at, p.draft), "cell")

-----------------------------------------
\* The shared prompt and choice: both pop before they call back.
repushDialog(s) == IF s.dlg.active THEN ShowDialog(s, "commit") ELSE s
PopPrompt == PopFocus([dg EXCEPT !.prompt = NoPrompt])

CancelPrompt ==
    /\ dg.top = "prompt" /\ dg.prompt.owner # DgNone
    /\ dg' = IF dg.prompt.owner = "expr" THEN resume(PopPrompt, dg.prompt) ELSE repushDialog(PopPrompt)

SubmitExpr ==
    \E text \in {"", "expr"} :
        /\ dg.top = "prompt" /\ dg.prompt.owner = "expr"
        /\ dg' = IF text = "" THEN resume(PopPrompt, dg.prompt)
                 ELSE AddEdit(CloseCell(PopPrompt), dg.prompt.store, dg.prompt.at.cell, dg.prompt.at)

SubmitName ==
    \E name \in DgProfiles :
        /\ dg.top = "prompt" /\ dg.prompt.owner = "name"
        /\ dg' = IF ~dg.dlg.active THEN PopPrompt
                 ELSE repushDialog([PopPrompt EXCEPT !.dlg.typed = name,
                                                     !.named = [epoch |-> dg.prompt.epoch, name |-> name]])

Choose ==
    \E value \in {"true", "false", "NULL"} :
        /\ dg.top = "choice" /\ dg.choice.owner = "bool"
        /\ value = "NULL" => DgCells[dg.choice.at.cell].nullable
        /\ dg' = AddEdit(PopFocus([dg EXCEPT !.choice = NoPrompt]), dg.choice.store, dg.choice.at.cell, dg.choice.at)
CancelChoice == dg.top = "choice" /\ dg' = PopFocus([dg EXCEPT !.choice = NoPrompt])

\* Removing the edit under the cursor from the grid.
DiscardAtGrid ==
    \E c \in DOMAIN DgCells :
        /\ dg.top = DgNone /\ dg.edits[dg.tab][c] # NoDialogEdit /\ ~dg.busy[dg.tab]
        /\ dg' = [dg EXCEPT !.edits[dg.tab][c] = NoDialogEdit]

-----------------------------------------
\* The commit dialog.  `epoch` numbers its openings; `req` the requests it
\* started or gave up, and only the last one may still change it.
cancelAsync(s) == [s EXCEPT !.req = @ + 1, !.waiting = FALSE]
OpenDialog ==
    LET s == cancelAsync(SpendKey(dg, "opens")) IN
    /\ dg.top = DgNone /\ CanSpend("opens")
    /\ ~IsEmptySet(dg, dg.tab) /\ ~dg.busy[dg.tab]
    /\ dg' = ShowDialog([s EXCEPT !.epoch = @ + 1,
                            !.dlg = [active |-> TRUE, set |-> s.tab, conn |-> s.profile, typed |-> DgNone,
                                     mode |-> "preview", dry |-> 0, epoch |-> s.epoch + 1]], "commit")
CloseDialog(s) == [s EXCEPT !.dlg = NoDialog]
Gate(s) == s.dlg.conn \in DgProtected => s.dlg.typed = s.dlg.conn
ApplyEnabled(s) == ~IsEmptySet(s, s.dlg.set) /\ s.dlg.conn \notin DgReadOnly /\ Gate(s)
applyDisabled(s) == ~ApplyEnabled(s) \/ s.waiting \/ s.busy[s.dlg.set] \/ s.unknown[s.dlg.set]

OnDialog == dg.top = "commit" /\ dg.dlg.active

ShowSql ==
    /\ OnDialog /\ ~IsEmptySet(dg, dg.dlg.set) /\ Gate(dg)
    /\ dg' = [dg EXCEPT !.dlg.mode = IF @ = "sql" THEN "preview" ELSE "sql"]
TypeName ==
    /\ OnDialog /\ ~dg.waiting /\ dg.dlg.conn \in DgProtected
    /\ dg' = ShowDialog([dg EXCEPT !.prompt = [owner |-> "name", epoch |-> dg.dlg.epoch]], "prompt")
CancelDialog == OnDialog /\ dg' = PopFocus(CloseDialog(cancelAsync(dg)))

\* What an operation needs before it may start: the policy, the connection, the set
\* and the table on screen are still the ones the dialog was opened for.
anyTarget(s, t, conn, overwrite) ==
    /\ conn \notin DgReadOnly /\ (overwrite => conn \notin DgProtected)
    /\ s.profile = conn
    /\ DgTable[s.tab] = DgTable[t]
canCapture(s, t, conn, overwrite) ==
    /\ conn \notin DgReadOnly /\ (overwrite => conn \notin DgProtected)
    /\ s.profile = conn
    /\ DgConn[t] = conn
    /\ DgTable[s.tab] = DgTable[t]
BeginCommit(s, t, cells) ==
    /\ ~s.busy[t] /\ ~s.unknown[t] /\ cells # {}
    /\ \A c \in cells : s.edits[t][c] # NoDialogEdit
StagedCells(s, t) == {c \in DOMAIN DgCells : s.edits[t][c] # NoDialogEdit}

Capture(s, t, conn, kind, cells) ==
    [s EXCEPT !.busy[t] = TRUE,
              !.ops = @ \cup {[kind |-> kind, set |-> t, conn |-> conn, cells |-> cells, req |-> s.req, epoch |-> s.epoch, named |-> s.named,
                               tab |-> s.tab, gen |-> s.gen, state |-> "runs", out |-> DgNone]}]

\* A refused start also takes a number, which no operation can compare with: not kept.
startAsync ==
    \E kind \in {"apply", "dryrun"} :
        LET t == dg.dlg.set
            s == IF kind = "dryrun" THEN [dg EXCEPT !.dlg.mode = "dryrun", !.dlg.dry = 0] ELSE dg
            asked == SpendKey([s EXCEPT !.req = @ + 1], "starts")
        IN  /\ OnDialog /\ ~applyDisabled(dg) /\ CanSpend("starts")
            /\ dg' = IF canCapture(dg, t, dg.dlg.conn, FALSE) /\ BeginCommit(dg, t, StagedCells(dg, t))
                     THEN Capture([asked EXCEPT !.waiting = TRUE], t, dg.dlg.conn, kind, StagedCells(dg, t))
                     ELSE s

-----------------------------------------
\* The operation's goroutine, and the callback it posts.
Outcomes(kind) ==
    CASE kind = "apply" -> {"committed", "conflict", "failed", "unknown"}
      [] kind = "overwrite" -> {"committed", "failed", "unknown"}
      [] kind = "dryrun" -> {"report", "failed"}

SettleDialog ==
    \E op \in dg.ops, out \in {"committed", "conflict", "failed", "unknown", "report"} :
        LET done == [op EXCEPT !.state = "posted", !.out = out]
            s == [dg EXCEPT !.ops = (@ \ {op}) \cup {done}, !.busy[op.set] = FALSE,
                            !.unknown[op.set] = @ \/ out = "unknown"]
        IN  /\ op.state = "runs" /\ out \in Outcomes(op.kind)
            /\ dg' = IF out # "committed" THEN s
                     ELSE [s EXCEPT !.base[op.set] = @ + 1,
                                    !.edits[op.set] = [c \in DOMAIN DgCells |-> IF c \in op.cells THEN NoDialogEdit ELSE @[c]],
                                    !.writes = @ \cup {[set |-> op.set, conn |-> op.conn, kind |-> op.kind,
                                                        named |-> op.named = [epoch |-> op.epoch, name |-> op.conn]]}]

\* The interface is still where the operation was started.
opCurrent(s, op) == s.gen = op.gen /\ s.tab = op.tab
asyncCurrent(s, op) == s.req = op.req /\ s.dlg.active /\ s.dlg.set = op.set /\ s.dlg.conn = op.conn

doneOK(s, op) ==
    LET closed == CloseDialog([s EXCEPT !.waiting = FALSE, !.closedBy = @ \cup {<<op.epoch, s.dlg.epoch>>}]) IN
    IF s.top = "commit" THEN PopFocus(closed) ELSE closed
openConflict(s, op) ==
    ShowDialog([s EXCEPT !.conf = [active |-> TRUE, set |-> op.set, cells |-> op.cells, conn |-> op.conn]], "conflict")

PublishCommit ==
    \E op \in dg.ops :
        LET s == [dg EXCEPT !.ops = @ \ {op}]
            mine == asyncCurrent(dg, op)
        IN  /\ op.state = "posted"
            /\ dg' = IF ~opCurrent(dg, op) \/ op.kind = "overwrite" \/ ~mine THEN s
                     ELSE CASE op.kind = "dryrun" -> [s EXCEPT !.waiting = FALSE, !.dlg.dry = op.epoch]
                            [] op.out = "committed" -> doneOK(s, op)
                            [] op.out = "conflict" ->
                                   IF s.top = "commit" THEN openConflict(doneOK(s, op), op) ELSE doneOK(s, op)
                            [] OTHER -> [s EXCEPT !.waiting = FALSE]

-----------------------------------------
\* The conflict dialog: drop the conflicting edits, force them, or leave.
OnConflict == dg.top = "conflict" /\ dg.conf.active
CloseConflict(s) == PopFocus([s EXCEPT !.conf = NoDialog])

\* DiscardOwned refuses the whole selection when the set on screen does not own it.
Refresh ==
    LET t == ActiveSet(dg) IN
    /\ OnConflict /\ t = dg.conf.set /\ ~dg.busy[t]
    /\ \A c \in dg.conf.cells : dg.edits[t][c] # NoDialogEdit
    /\ dg' = CloseConflict([dg EXCEPT !.edits[t] = [c \in DOMAIN DgCells |-> IF c \in dg.conf.cells THEN NoDialogEdit ELSE @[c]]])

OverwriteAllowed == dg.conf.conn \notin DgProtected
OverwriteStaged ==
    LET t == ActiveSet(dg) IN
    /\ OnConflict /\ OverwriteAllowed
    /\ t = dg.conf.set
    /\ canCapture(dg, t, dg.conf.conn, TRUE) /\ BeginCommit(dg, t, dg.conf.cells)
    /\ dg' = CloseConflict(Capture(dg, t, dg.conf.conn, "overwrite", dg.conf.cells))
CancelConflict == OnConflict /\ dg' = CloseConflict(dg)

-----------------------------------------
\* What happens meanwhile.
TabActivated ==
    \E t \in DgTabs \ {dg.tab} : CanSpend("tabs") /\ dg' = [SpendKey(dg, "tabs") EXCEPT !.tab = t]
Connected ==
    \E p \in DgProfiles : CanSpend("connects") /\ dg' = [SpendKey(dg, "connects") EXCEPT !.profile = p, !.gen = @ + 1]

\* Another part of the program shows a popup of its own: a viewer, or a prompt, which
\* then replaces the callbacks of the one that was open.
OtherPopup ==
    \E prompt \in BOOLEAN :
        /\ CanSpend("others")
        /\ dg' = IF prompt THEN ShowDialog([SpendKey(dg, "others") EXCEPT !.prompt = NoPrompt], "prompt")
                 ELSE ShowDialog(SpendKey(dg, "others"), "other")
OtherDismissed ==
    /\ dg.top = "other" \/ (dg.top = "prompt" /\ dg.prompt.owner = DgNone)
    /\ dg' = PopFocus(dg)

EdgInit ==
    \E topic \in DgTopics, t \in DgTabs :
        dg = [top |-> DgNone, tab |-> t, profile |-> DgConn[t], gen |-> 0, left |-> topic,
              edits |-> [u \in DgTabs |-> [c \in DOMAIN DgCells |-> NoDialogEdit]], base |-> [u \in DgTabs |-> 0],
              busy |-> [u \in DgTabs |-> FALSE], unknown |-> [u \in DgTabs |-> FALSE],
              cell |-> NoCell, prompt |-> NoPrompt, choice |-> NoPrompt, draft |-> "",
              dlg |-> NoDialog, epoch |-> 0, req |-> 0, waiting |-> FALSE, ops |-> {}, conf |-> NoDialog,
              named |-> [epoch |-> 0, name |-> DgNone], writes |-> {}, closedBy |-> {}]

EdgNext ==
    \/ Enter \/ LayoutCell \/ TypeText \/ CommitCell \/ DiscardCell \/ SetNull \/ injectExpression
    \/ ExprPrompt \/ CancelPrompt \/ SubmitExpr \/ SubmitName \/ Choose \/ CancelChoice \/ DiscardAtGrid
    \/ OpenDialog \/ ShowSql \/ TypeName \/ CancelDialog \/ startAsync \/ SettleDialog \/ PublishCommit
    \/ Refresh \/ OverwriteStaged \/ CancelConflict
    \/ TabActivated \/ Connected \/ OtherPopup \/ OtherDismissed

EdgSpec == EdgInit /\ [][EdgNext]_dg

-----------------------------------------
\* What the popups promise.
\* Edits reach the connection their rows were read from, and no other.
WritesGoHome == \A w \in dg.writes : w.conn = DgConn[w.set]
\* A protected connection is written only after its name was typed in the same opening
\* of the dialog, and never through the conflict dialog.
WritesNamed ==
    \A w \in dg.writes :
        w.conn \in DgProtected => w.kind = "apply" /\ w.named
\* An operation reports to, and closes, only the opening of the dialog that started it.
LateIsDropped ==
    /\ dg.dlg.active => dg.dlg.dry \in {0, dg.dlg.epoch}
    /\ \A pair \in dg.closedBy : pair[1] = pair[2]
\* An edit is staged for the tab and the cell its text was typed for.
StagedWhereTyped ==
    \A t \in DgTabs, c \in DOMAIN DgCells :
        dg.edits[t][c] # NoDialogEdit => dg.edits[t][c] = [tab |-> t, cell |-> c]
\* The text of an editor on screen is what the user last left in it, through an
\* expression prompt that was opened over it and cancelled.
DraftKept == dg.top = "cell" => dg.cell.buf = dg.draft
\* A popup on screen answers keys: one whose state is closed would ignore even Esc.
PopupsAnswer ==
    /\ dg.top = "cell" => dg.cell.active
    /\ dg.top = "commit" => dg.dlg.active
    /\ dg.top = "conflict" => dg.conf.active

EditTruth == WritesGoHome /\ WritesNamed /\ LateIsDropped /\ StagedWhereTyped /\ DraftKept /\ PopupsAnswer
=============================================================================
