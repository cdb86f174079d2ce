--------------------------- MODULE InterfaceProofs ---------------------------
(***************************************************************************)
(* Proofs about the parts of the interface, each a machine of its own that  *)
(* keys and workers drive.                                                  *)
(***************************************************************************)
EXTENDS EditDialogs, ResultExport, ResultTabs, BufferPersistence,
        FiniteSetTheorems, WellFoundedInduction, TLAPS

-----------------------------------------
\* The cell editor, the commit and the conflict dialog (EditDialogs).

DgFields == {"top", "tab", "profile", "gen", "left", "edits", "base", "busy", "unknown", "cell",
             "prompt", "choice", "draft", "dlg", "epoch", "req", "waiting", "ops", "conf", "named",
             "writes", "closedBy"}
CellFields == {"active", "store", "at", "buf", "initial", "view"}
DlgFields == {"active", "set", "conn", "typed", "mode", "dry", "epoch"}
OpFields == {"kind", "set", "conn", "cells", "req", "epoch", "named", "tab", "gen", "state", "out"}

\* What a popup's state keeps of the tab its text was typed for.
Belongs(p) == p.at = [tab |-> p.store.set, cell |-> p.at.cell]

\* The editor and the callbacks of prompt and choice stage where they were opened.
CallbacksOK(s) ==
    /\ s.cell.active => DOMAIN s.cell = CellFields /\ Belongs(s.cell)
    /\ s.prompt.owner = "expr" => Belongs(s.prompt)
    /\ s.choice.owner = "bool" => Belongs(s.choice)
\* The commit dialog is the last opening, and a name in it was typed in that opening.
OpeningOK(s) ==
    s.dlg.active => /\ DOMAIN s.dlg = DlgFields /\ s.dlg.epoch = s.epoch
                    /\ s.dlg.dry \in {0, s.epoch}
                    /\ s.dlg.typed # DgNone => s.named = [epoch |-> s.epoch, name |-> s.dlg.typed]
StagedOK(s) ==
    /\ DOMAIN s.edits = DgTabs /\ \A t \in DgTabs : DOMAIN s.edits[t] = DOMAIN DgCells
    /\ \A t \in DgTabs, c \in DOMAIN DgCells :
         s.edits[t][c] # NoDialogEdit => s.edits[t][c] = [tab |-> t, cell |-> c]
\* An operation that carries the last request's number was started by this opening.
OpOK(s, op) ==
    /\ DOMAIN op = OpFields
    /\ op.kind \in {"apply", "overwrite", "dryrun"}
    /\ op.req \in Nat /\ op.req <= s.req /\ (op.req = s.req => op.epoch = s.epoch)
    /\ op.conn = DgConn[op.set]
    /\ op.conn \in DgProtected =>
         /\ op.kind # "overwrite"
         /\ op.kind = "apply" => op.named = [epoch |-> op.epoch, name |-> op.conn]
OpsOK(s) == s.req \in Nat /\ s.epoch \in Nat /\ \A op \in s.ops : OpOK(s, op)
PastOK(s) ==
    /\ \A w \in s.writes : /\ w.conn = DgConn[w.set]
                           /\ w.conn \in DgProtected => w.kind = "apply" /\ w.named
    /\ \A pair \in s.closedBy : pair[1] = pair[2]
\* What holds whichever popup is shown, and what the popup on screen needs.
BaseOK(s) == /\ DOMAIN s = DgFields
             /\ CallbacksOK(s) /\ OpeningOK(s) /\ StagedOK(s) /\ OpsOK(s) /\ PastOK(s)
MayShow(s, popup) ==
    /\ popup = "cell" => /\ s.cell.active /\ s.cell.buf = s.draft
                         /\ ~s.cell.view => s.cell.initial = s.draft
    /\ popup = "prompt" => /\ s.prompt.owner = "expr" => s.prompt.draft = s.draft
                           /\ s.prompt.owner = "name" => s.prompt.epoch = s.epoch
    /\ popup = "commit" => s.dlg.active
    /\ popup = "conflict" => s.conf.active
DialogOK(s) == BaseOK(s) /\ MayShow(s, s.top)

\* A state that differs from another in the fields F alone.
Differ(s, r, F) == DOMAIN r = DgFields /\ \A f \in DgFields \ F : r[f] = s[f]

\* Which part of the invariant reads which fields.
LEMMA FieldsKept ==
    ASSUME NEW s, NEW r, NEW F, BaseOK(s), Differ(s, r, F)
    PROVE  /\ DOMAIN r = DgFields
           /\ "cell" \notin F /\ "prompt" \notin F /\ "choice" \notin F => CallbacksOK(r)
           /\ "dlg" \notin F /\ "epoch" \notin F /\ "named" \notin F => OpeningOK(r)
           /\ "edits" \notin F => StagedOK(r)
           /\ "ops" \notin F /\ "req" \notin F /\ "epoch" \notin F => OpsOK(r)
           /\ "writes" \notin F /\ "closedBy" \notin F => PastOK(r)
<1>1. ASSUME "cell" \notin F, "prompt" \notin F, "choice" \notin F PROVE CallbacksOK(r)
  <2>1. r.cell = s.cell /\ r.prompt = s.prompt /\ r.choice = s.choice BY <1>1 DEF Differ, DgFields
  <2> QED BY <2>1 DEF BaseOK, CallbacksOK, Belongs
<1>2. ASSUME "dlg" \notin F, "epoch" \notin F, "named" \notin F PROVE OpeningOK(r)
  <2>1. r.dlg = s.dlg /\ r.epoch = s.epoch /\ r.named = s.named BY <1>2 DEF Differ, DgFields
  <2> QED BY <2>1 DEF BaseOK, OpeningOK
<1>3. ASSUME "edits" \notin F PROVE StagedOK(r)
  <2>1. r.edits = s.edits BY <1>3 DEF Differ, DgFields
  <2> QED BY <2>1 DEF BaseOK, StagedOK
<1>4. ASSUME "ops" \notin F, "req" \notin F, "epoch" \notin F PROVE OpsOK(r)
  <2>1. r.ops = s.ops /\ r.req = s.req /\ r.epoch = s.epoch BY <1>4 DEF Differ, DgFields
  <2> QED BY <2>1 DEF BaseOK, OpsOK, OpOK
<1>5. ASSUME "writes" \notin F, "closedBy" \notin F PROVE PastOK(r)
  <2>1. r.writes = s.writes /\ r.closedBy = s.closedBy BY <1>5 DEF Differ, DgFields
  <2> QED BY <2>1 DEF BaseOK, PastOK
<1> QED BY <1>1, <1>2, <1>3, <1>4, <1>5 DEF Differ

LEMMA ShowKept ==
    ASSUME NEW s, NEW r, NEW F, NEW popup, Differ(s, r, F), MayShow(s, popup),
           popup = "cell" => "cell" \notin F /\ "draft" \notin F,
           popup = "prompt" => "prompt" \notin F /\ "draft" \notin F /\ "epoch" \notin F,
           popup = "commit" => "dlg" \notin F,
           popup = "conflict" => "conf" \notin F
    PROVE  MayShow(r, popup)
<1>1. popup = "cell" => r.cell = s.cell /\ r.draft = s.draft BY DEF Differ, DgFields
<1>2. popup = "prompt" => r.prompt = s.prompt /\ r.draft = s.draft /\ r.epoch = s.epoch BY DEF Differ, DgFields
<1>3. popup = "commit" => r.dlg = s.dlg BY DEF Differ, DgFields
<1>4. popup = "conflict" => r.conf = s.conf BY DEF Differ, DgFields
<1> QED BY <1>1, <1>2, <1>3, <1>4 DEF MayShow

\* Losing the focus changes the text of the editor and nothing else.
LEMMA FocusLost ==
    ASSUME NEW s, BaseOK(s)
    PROVE  /\ BaseOK(LoseFocus(s)) /\ Differ(s, LoseFocus(s), {"cell"})
           /\ s.top # "cell" => LoseFocus(s) = s
           /\ LoseFocus(s).cell.active = s.cell.active
<1>1. CASE ~(s.top = "cell" /\ s.cell.active) BY <1>1 DEF LoseFocus, Differ, BaseOK
<1>2. CASE s.top = "cell" /\ s.cell.active
  <2> DEFINE c == [s.cell EXCEPT !.buf = "", !.view = FALSE]
             r == [s EXCEPT !.cell = c]
  <2>1. /\ DOMAIN s = DgFields /\ DOMAIN s.cell = CellFields /\ Belongs(s.cell) BY <1>2 DEF BaseOK, CallbacksOK
  <2>2. LoseFocus(s) = r BY <1>2, <2>1 DEF LoseFocus, DgFields
  <2>3. /\ DOMAIN c = CellFields /\ c.active = s.cell.active
        /\ c.at = s.cell.at /\ c.store = s.cell.store
    BY <2>1 DEF CellFields
  <2> HIDE DEF c
  <2>4. Differ(s, r, {"cell"}) /\ r.cell = c BY <2>1 DEF Differ, DgFields
  <2>5. r.prompt = s.prompt /\ r.choice = s.choice BY <2>1 DEF DgFields
  <2> HIDE DEF r
  <2>6. CallbacksOK(r) BY <1>2, <2>1, <2>3, <2>4, <2>5 DEF BaseOK, CallbacksOK, Belongs
  <2>7. BaseOK(r) BY <2>4, <2>6, FieldsKept DEF BaseOK
  <2> QED BY <1>2, <2>2, <2>3, <2>4, <2>7
<1> QED BY <1>1, <1>2

LEMMA TopSet ==
    ASSUME NEW s, NEW popup, BaseOK(s)
    PROVE  LET r == [s EXCEPT !.top = popup]
           IN  BaseOK(r) /\ r.top = popup /\ Differ(s, r, {"top"})
<1> DEFINE r == [s EXCEPT !.top = popup]
<1>1. Differ(s, r, {"top"}) /\ r.top = popup BY DEF BaseOK, Differ, DgFields
<1> HIDE DEF r
<1>2. BaseOK(r) BY <1>1, FieldsKept DEF BaseOK
<1> QED BY <1>1, <1>2 DEF r

\* Showing a popup that may be shown, and dismissing whatever is.
LEMMA Shows ==
    ASSUME NEW s, NEW popup, BaseOK(s), MayShow(s, popup), popup = "cell" => s.top # "cell"
    PROVE  DialogOK(ShowDialog(s, popup))
<1>1. CASE s.top = popup BY <1>1 DEF ShowDialog, DialogOK
<1>2. CASE s.top # popup
  <2> DEFINE l == LoseFocus(s)
             r == [l EXCEPT !.top = popup]
  <2>1. ShowDialog(s, popup) = r BY <1>2 DEF ShowDialog
  <2>2. BaseOK(l) /\ Differ(s, l, {"cell"}) /\ (s.top # "cell" => l = s) BY FocusLost
  <2> HIDE DEF l
  <2>3. MayShow(l, popup)
    <3>1. CASE popup = "cell" BY <2>2, <3>1
    <3>2. CASE popup # "cell" BY <2>2, <3>2, ShowKept
    <3> QED BY <3>1, <3>2
  <2>4. BaseOK(r) /\ r.top = popup /\ Differ(l, r, {"top"}) BY <2>2, TopSet
  <2> HIDE DEF r
  <2>5. MayShow(r, popup) BY <2>3, <2>4, ShowKept
  <2> QED BY <2>1, <2>4, <2>5 DEF DialogOK
<1> QED BY <1>1, <1>2

LEMMA Pops ==
    ASSUME NEW s, BaseOK(s)
    PROVE  /\ DialogOK(PopFocus(s)) /\ PopFocus(s).top = DgNone
           /\ Differ(s, PopFocus(s), {"top", "cell"})
           /\ PopFocus(s).cell.active = s.cell.active
<1> DEFINE l == LoseFocus(s)
           r == [l EXCEPT !.top = DgNone]
<1>1. PopFocus(s) = r BY DEF PopFocus
<1>2. BaseOK(l) /\ Differ(s, l, {"cell"}) /\ l.cell.active = s.cell.active BY FocusLost
<1> HIDE DEF l
<1>3. BaseOK(r) /\ r.top = DgNone /\ Differ(l, r, {"top"}) BY <1>2, TopSet
<1> HIDE DEF r
<1>4. MayShow(r, DgNone) BY DEF MayShow, DgNone
<1>5. r.cell = l.cell BY <1>3 DEF Differ, DgFields
<1>6. Differ(s, r, {"top", "cell"}) BY <1>2, <1>3 DEF Differ
<1> QED BY <1>1, <1>2, <1>3, <1>4, <1>5, <1>6 DEF DialogOK

\* A step that shows no other popup and leaves alone what the one on screen needs.
LEMMA Stays ==
    ASSUME NEW s, NEW r, NEW F, DialogOK(s), Differ(s, r, F), BaseOK(r), "top" \notin F,
           s.top = "cell" => "cell" \notin F /\ "draft" \notin F,
           s.top = "prompt" => "prompt" \notin F /\ "draft" \notin F /\ "epoch" \notin F,
           s.top = "commit" => "dlg" \notin F,
           s.top = "conflict" => "conf" \notin F
    PROVE  DialogOK(r)
<1>1. r.top = s.top BY DEF Differ, DgFields
<1>2. MayShow(r, s.top) BY ShowKept DEF DialogOK
<1> QED BY <1>1, <1>2 DEF DialogOK

LEMMA Spent ==
    ASSUME NEW s, NEW what, BaseOK(s)
    PROVE  Differ(s, SpendKey(s, what), {"left"}) /\ BaseOK(SpendKey(s, what))
<1> DEFINE r == SpendKey(s, what)
<1>1. Differ(s, r, {"left"}) BY DEF SpendKey, BaseOK, Differ, DgFields
<1> HIDE DEF r
<1>2. BaseOK(r) BY <1>1, FieldsKept DEF BaseOK
<1> QED BY <1>1, <1>2 DEF r

LEMMA EditSet ==
    ASSUME NEW s, NEW t, NEW c, NEW at, BaseOK(s), at = NoDialogEdit \/ at = [tab |-> t, cell |-> c]
    PROVE  LET r == [s EXCEPT !.edits[t][c] = at] IN Differ(s, r, {"edits"}) /\ BaseOK(r)
<1> DEFINE e == [s.edits EXCEPT ![t][c] = at]
           r == [s EXCEPT !.edits = e]
<1>1. DOMAIN s = DgFields /\ StagedOK(s) BY DEF BaseOK
<1>2. Differ(s, r, {"edits"}) /\ r.edits = e BY <1>1 DEF Differ, DgFields
<1>3. /\ DOMAIN e = DgTabs /\ \A u \in DgTabs : DOMAIN e[u] = DOMAIN DgCells
      /\ \A u \in DgTabs, d \in DOMAIN DgCells :
           e[u][d] = IF u = t /\ d = c THEN at ELSE s.edits[u][d]
  BY <1>1 DEF StagedOK
<1> HIDE DEF e, r
<1>4. StagedOK(r) BY <1>1, <1>2, <1>3 DEF StagedOK
<1>5. BaseOK(r) BY <1>2, <1>4, FieldsKept DEF BaseOK
<1> QED BY <1>2, <1>5 DEF r, e

\* The store of a tab stages an edit where its text was typed, or refuses it.
LEMMA Staged ==
    ASSUME NEW s, NEW store, NEW c, BaseOK(s)
    PROVE  /\ LET r == AddEdit(s, store, c, [tab |-> store.set, cell |-> c])
              IN  Differ(s, r, {"edits"}) /\ BaseOK(r)
           /\ LET r == RemoveEdit(s, store, c)
              IN  Differ(s, r, {"edits"}) /\ BaseOK(r)
<1>1. Differ(s, s, {"edits"}) BY DEF Differ, BaseOK
<1> QED BY <1>1, EditSet DEF AddEdit, RemoveEdit

LEMMA Opened ==
    ASSUME NEW s, NEW store, NEW at, NEW text, BaseOK(s), at = [tab |-> store.set, cell |-> at.cell]
    PROVE  LET r == OpenCell(s, store, at, text)
           IN  /\ Differ(s, r, {"cell"}) /\ BaseOK(r)
               /\ r.cell.active /\ r.cell.buf = text /\ r.cell.initial = text
<1> DEFINE o == [active |-> TRUE, store |-> store, at |-> at, buf |-> text, initial |-> text, view |-> FALSE]
           r == [s EXCEPT !.cell = o]
<1>1. OpenCell(s, store, at, text) = r BY DEF OpenCell
<1>2. /\ DOMAIN o = CellFields /\ Belongs(o) /\ o.active /\ o.buf = text /\ o.initial = text BY DEF CellFields, Belongs
<1> HIDE DEF o
<1>3. Differ(s, r, {"cell"}) /\ r.cell = o /\ r.prompt = s.prompt /\ r.choice = s.choice BY DEF BaseOK, Differ, DgFields
<1> HIDE DEF r
<1>4. CallbacksOK(r) BY <1>2, <1>3 DEF BaseOK, CallbacksOK, Belongs
<1>5. BaseOK(r) BY <1>3, <1>4, FieldsKept DEF BaseOK
<1> QED BY <1>1, <1>2, <1>3, <1>5

LEMMA CellLeft ==
    ASSUME NEW s, BaseOK(s)
    PROVE  /\ Differ(s, CloseCell(s), {"cell"}) /\ BaseOK(CloseCell(s))
           /\ DialogOK(LeaveCell(s)) /\ LeaveCell(s).top = DgNone
           /\ Differ(s, LeaveCell(s), {"top", "cell"})
<1> DEFINE r == CloseCell(s)
<1>1. Differ(s, r, {"cell"}) /\ r.cell = NoCell /\ r.prompt = s.prompt /\ r.choice = s.choice
  BY DEF CloseCell, BaseOK, Differ, DgFields
<1> HIDE DEF r
<1>2. CallbacksOK(r) BY <1>1 DEF BaseOK, CallbacksOK, Belongs, NoCell
<1>3. BaseOK(r) BY <1>1, <1>2, FieldsKept DEF BaseOK
<1>4. DialogOK(PopFocus(r)) /\ PopFocus(r).top = DgNone /\ Differ(r, PopFocus(r), {"top", "cell"}) BY <1>3, Pops
<1>5. Differ(s, PopFocus(r), {"top", "cell"}) BY <1>1, <1>4 DEF Differ
<1> QED BY <1>1, <1>3, <1>4, <1>5 DEF r, LeaveCell

\* With no popup of the dialogs on screen nothing more is needed.
LEMMA Bare ==
    ASSUME NEW s, BaseOK(s), s.top = DgNone
    PROVE  DialogOK(s)
BY DEF DialogOK, MayShow, DgNone

-----------------------------------------
(* The cell editor's actions. *)

LEMMA EnterKeeps == ASSUME DialogOK(dg), Enter PROVE DialogOK(dg')
<1> PICK c \in DOMAIN DgCells :
      LET s == SpendKey(dg, "edits")
          at == [tab |-> s.tab, cell |-> c]
      IN  /\ dg.top = DgNone
          /\ dg' = IF DgCells[c].bool
                   THEN ShowDialog([s EXCEPT !.choice = [owner |-> "bool", at |-> at, store |-> captureStore(s)]], "choice")
                   ELSE [ShowDialog(OpenCell(s, captureStore(s), at, FormatForEdit(c)), "cell")
                            EXCEPT !.draft = FormatForEdit(c)]
  BY DEF Enter
<1> DEFINE s == SpendKey(dg, "edits")
           at == [tab |-> s.tab, cell |-> c]
           store == captureStore(s)
           text == FormatForEdit(c)
<1>1. BaseOK(s) /\ s.top = DgNone BY Spent DEF DialogOK, Differ, DgFields
<1>2. store.set = at.tab /\ at = [tab |-> store.set, cell |-> at.cell] BY DEF captureStore, ActiveSet
<1>3. CASE DgCells[c].bool
  <2> DEFINE p == [owner |-> "bool", at |-> at, store |-> store]
             r == [s EXCEPT !.choice = p]
  <2>1. Belongs(p) BY <1>2 DEF Belongs
  <2> HIDE DEF p
  <2>2. Differ(s, r, {"choice"}) /\ r.choice = p /\ r.cell = s.cell /\ r.prompt = s.prompt
    BY <1>1 DEF BaseOK, Differ, DgFields
  <2>3. dg' = ShowDialog(r, "choice") BY <1>3 DEF p
  <2> HIDE DEF r, s, at, store
  <2>4. CallbacksOK(r) BY <1>1, <2>1, <2>2 DEF BaseOK, CallbacksOK, Belongs
  <2>5. BaseOK(r) BY <1>1, <2>2, <2>4, FieldsKept DEF BaseOK
  <2>6. MayShow(r, "choice") BY DEF MayShow
  <2> QED BY <2>3, <2>5, <2>6, Shows
<1>4. CASE ~DgCells[c].bool
  <2> DEFINE o == OpenCell(s, store, at, text)
             l == LoseFocus(o)
             r == [l EXCEPT !.top = "cell"]
             q == [r EXCEPT !.draft = text]
  <2>1. /\ Differ(s, o, {"cell"}) /\ BaseOK(o)
        /\ o.cell.active /\ o.cell.buf = text /\ o.cell.initial = text
    BY <1>1, <1>2, Opened
  <2>2. dg' = [ShowDialog(o, "cell") EXCEPT !.draft = text] BY <1>4
  <2> HIDE DEF o
  <2>3. o.top = DgNone /\ o.top # "cell" BY <1>1, <2>1 DEF Differ, DgFields, DgNone
  <2>4. l = o BY <2>1, <2>3, FocusLost
  <2>5. ShowDialog(o, "cell") = r BY <2>3 DEF ShowDialog
  <2> HIDE DEF l
  <2>6. BaseOK(r) /\ r.top = "cell" /\ r.cell = o.cell BY <2>1, <2>4, TopSet DEF Differ, DgFields
  <2> HIDE DEF r
  <2>7. Differ(r, q, {"draft"}) /\ q.draft = text /\ q.top = "cell" /\ q.cell = o.cell
    BY <2>6 DEF BaseOK, Differ, DgFields
  <2> HIDE DEF q
  <2>8. BaseOK(q) BY <2>6, <2>7, FieldsKept DEF BaseOK
  <2>9. MayShow(q, "cell") BY <2>1, <2>7 DEF MayShow
  <2> QED BY <2>2, <2>5, <2>7, <2>8, <2>9 DEF q, DialogOK
<1> QED BY <1>3, <1>4

\* The view's creation and a key change the text of the editor alone.
LEMMA TextSet ==
    ASSUME NEW s, NEW r, NEW text, DialogOK(s), s.top = "cell", s.cell.active,
           \/ r = [s EXCEPT !.cell.view = TRUE, !.cell.buf = text] /\ text = s.draft
           \/ r = [s EXCEPT !.cell.buf = text, !.draft = text] /\ s.cell.view
    PROVE  DialogOK(r)
<1> DEFINE v == [s.cell EXCEPT !.view = TRUE, !.buf = text]
           b == [s.cell EXCEPT !.buf = text]
<1>1. /\ DOMAIN s = DgFields /\ DOMAIN s.cell = CellFields /\ Belongs(s.cell)
      /\ MayShow(s, "cell") /\ BaseOK(s)
  BY DEF DialogOK, BaseOK, CallbacksOK
<1>2. CASE r = [s EXCEPT !.cell.view = TRUE, !.cell.buf = text] /\ text = s.draft
  <2>1. /\ DOMAIN v = CellFields /\ v.at = s.cell.at /\ v.store = s.cell.store
        /\ v.active = s.cell.active /\ v.buf = text /\ v.view
    BY <1>1 DEF CellFields
  <2>2. /\ Differ(s, r, {"cell"}) /\ r.cell = v /\ r.prompt = s.prompt /\ r.choice = s.choice
        /\ r.draft = s.draft /\ r.top = "cell"
    BY <1>1, <1>2 DEF Differ, DgFields
  <2> HIDE DEF v
  <2>3. CallbacksOK(r) BY <1>1, <2>1, <2>2 DEF BaseOK, CallbacksOK, Belongs
  <2>4. BaseOK(r) BY <1>1, <2>2, <2>3, FieldsKept DEF BaseOK
  <2> QED BY <1>2, <2>1, <2>2, <2>4 DEF DialogOK, MayShow
<1>3. CASE r = [s EXCEPT !.cell.buf = text, !.draft = text] /\ s.cell.view
  <2>1. /\ DOMAIN b = CellFields /\ b.at = s.cell.at /\ b.store = s.cell.store
        /\ b.active = s.cell.active /\ b.buf = text /\ b.view = s.cell.view
    BY <1>1 DEF CellFields
  <2>2. /\ Differ(s, r, {"cell", "draft"}) /\ r.cell = b /\ r.prompt = s.prompt /\ r.choice = s.choice
        /\ r.draft = text /\ r.top = "cell"
    BY <1>1, <1>3 DEF Differ, DgFields
  <2> HIDE DEF b
  <2>3. CallbacksOK(r) BY <1>1, <2>1, <2>2 DEF BaseOK, CallbacksOK, Belongs
  <2>4. BaseOK(r) BY <1>1, <2>2, <2>3, FieldsKept DEF BaseOK
  <2> QED BY <1>3, <2>1, <2>2, <2>4 DEF DialogOK, MayShow
<1> QED BY <1>2, <1>3

LEMMA TextKeeps == ASSUME DialogOK(dg), LayoutCell \/ TypeText PROVE DialogOK(dg')
<1>1. CASE LayoutCell
  <2>1. dg.cell.initial = dg.draft BY <1>1 DEF LayoutCell, DialogOK, MayShow
  <2> QED BY <1>1, <2>1, TextSet DEF LayoutCell
<1>2. CASE TypeText BY <1>2, TextSet DEF TypeText
<1> QED BY <1>1, <1>2

\* Every way to leave the editor: staging what was typed, dropping it, or neither.
LEMMA LeaveKeeps ==
    ASSUME DialogOK(dg), CommitCell \/ DiscardCell \/ SetNull \/ injectExpression
    PROVE  DialogOK(dg')
<1> DEFINE at == dg.cell.at
           store == captured(dg)
           a == AddEdit(dg, store, at.cell, at)
           l == LeaveCell(dg)
<1>1. BaseOK(dg) /\ dg.cell.active /\ at = [tab |-> store.set, cell |-> at.cell]
  BY DEF CommitCell, DiscardCell, SetNull, injectExpression, DialogOK, BaseOK, CallbacksOK, Belongs, captured
<1>2. BaseOK(a) BY <1>1, Staged
<1>3. DialogOK(LeaveCell(a)) /\ DialogOK(l) /\ BaseOK(l) /\ l.top = DgNone BY <1>1, <1>2, CellLeft DEF DialogOK
<1>4. DialogOK(RemoveEdit(l, store, at.cell))
  <2> DEFINE r == RemoveEdit(l, store, at.cell)
  <2> HIDE DEF l
  <2>1. Differ(l, r, {"edits"}) /\ BaseOK(r) BY <1>3, Staged
  <2> HIDE DEF r
  <2> QED BY <1>3, <2>1, Bare DEF Differ, DgFields, r
<1>5. dg' \in {LeaveCell(a), l, RemoveEdit(l, store, at.cell)}
  <2>1. CASE CommitCell BY <2>1 DEF CommitCell
  <2>2. CASE DiscardCell BY <2>2 DEF DiscardCell
  <2>3. CASE SetNull \/ injectExpression BY <2>3 DEF SetNull, injectExpression
  <2> QED BY <2>1, <2>2, <2>3
<1> HIDE DEF a, l
<1> QED BY <1>3, <1>4, <1>5

LEMMA ExprKeeps == ASSUME DialogOK(dg), ExprPrompt PROVE DialogOK(dg')
<1> DEFINE p == [owner |-> "expr", at |-> dg.cell.at, store |-> captured(dg), draft |-> dg.cell.buf]
           r == [dg EXCEPT !.prompt = p]
<1>1. /\ BaseOK(dg) /\ dg.cell.active /\ dg.cell.buf = dg.draft
      /\ dg' = ShowDialog(r, "prompt")
  BY DEF ExprPrompt, DialogOK, MayShow
<1>2. Belongs(p) /\ p.owner = "expr" /\ p.draft = dg.draft BY <1>1 DEF BaseOK, CallbacksOK, Belongs, captured
<1> HIDE DEF p
<1>3. /\ Differ(dg, r, {"prompt"}) /\ r.prompt = p /\ r.cell = dg.cell /\ r.choice = dg.choice
      /\ r.draft = dg.draft
  BY <1>1 DEF BaseOK, Differ, DgFields
<1> HIDE DEF r
<1>4. CallbacksOK(r) BY <1>1, <1>2, <1>3 DEF BaseOK, CallbacksOK, Belongs
<1>5. BaseOK(r) /\ MayShow(r, "prompt")
  <2>1. MayShow(r, "prompt") BY <1>2, <1>3 DEF MayShow
  <2> QED BY <1>1, <1>3, <1>4, <2>1, FieldsKept DEF BaseOK
<1> QED BY <1>1, <1>5, Shows

-----------------------------------------
(* The shared prompt and choice. *)

LEMMA Cleared ==
    ASSUME NEW s, BaseOK(s)
    PROVE  LET p == PopFocus([s EXCEPT !.prompt = NoPrompt])
               c == PopFocus([s EXCEPT !.choice = NoPrompt])
           IN  /\ DialogOK(p) /\ BaseOK(p) /\ p.top = DgNone /\ Differ(s, p, {"prompt", "top", "cell"})
               /\ DialogOK(c) /\ BaseOK(c) /\ c.top = DgNone /\ Differ(s, c, {"choice", "top", "cell"})
<1> DEFINE p == [s EXCEPT !.prompt = NoPrompt]
           c == [s EXCEPT !.choice = NoPrompt]
<1>1. /\ Differ(s, p, {"prompt"}) /\ p.prompt = NoPrompt /\ p.cell = s.cell /\ p.choice = s.choice
      /\ Differ(s, c, {"choice"}) /\ c.choice = NoPrompt /\ c.cell = s.cell /\ c.prompt = s.prompt
  BY DEF BaseOK, Differ, DgFields
<1> HIDE DEF p, c
<1>2. CallbacksOK(p) /\ CallbacksOK(c) BY <1>1 DEF BaseOK, CallbacksOK, Belongs, NoPrompt, DgNone
<1>3. BaseOK(p) BY <1>1, <1>2, FieldsKept DEF BaseOK
<1>4. BaseOK(c) BY <1>1, <1>2, FieldsKept DEF BaseOK
<1> DEFINE pp == PopFocus(p)
           cc == PopFocus(c)
<1>5. DialogOK(pp) /\ pp.top = DgNone /\ Differ(p, pp, {"top", "cell"}) BY <1>3, Pops
<1>6. DialogOK(cc) /\ cc.top = DgNone /\ Differ(c, cc, {"top", "cell"}) BY <1>4, Pops
<1> HIDE DEF pp, cc
<1>7. Differ(s, pp, {"prompt", "top", "cell"}) /\ Differ(s, cc, {"choice", "top", "cell"})
  BY <1>1, <1>5, <1>6 DEF Differ
<1> QED BY <1>5, <1>6, <1>7 DEF DialogOK, pp, cc, p, c

\* The editor comes back with the draft the expression prompt was opened over.
LEMMA Resumes ==
    ASSUME NEW s, NEW p, BaseOK(s), s.top = DgNone, Belongs(p), p.draft = s.draft
    PROVE  DialogOK(resume(s, p))
<1> DEFINE o == OpenCell(s, p.store, p.at, p.draft)
<1>1. /\ Differ(s, o, {"cell"}) /\ BaseOK(o)
      /\ o.cell.active /\ o.cell.buf = p.draft /\ o.cell.initial = p.draft
  BY Opened DEF Belongs
<1>2. resume(s, p) = ShowDialog(o, "cell") BY DEF resume
<1> HIDE DEF o
<1>3. o.top # "cell" /\ o.draft = s.draft BY <1>1 DEF Differ, DgFields, DgNone
<1>4. MayShow(o, "cell") BY <1>1, <1>3 DEF MayShow
<1> QED BY <1>1, <1>2, <1>3, <1>4, Shows

LEMMA Repushes ==
    ASSUME NEW s, DialogOK(s)
    PROVE  DialogOK(repushDialog(s))
<1>1. s.dlg.active => MayShow(s, "commit") BY DEF MayShow
<1> QED BY <1>1, Shows DEF repushDialog, DialogOK

LEMMA CancelPromptKeeps == ASSUME DialogOK(dg), CancelPrompt PROVE DialogOK(dg')
<1>1. BaseOK(dg) /\ MayShow(dg, "prompt") BY DEF CancelPrompt, DialogOK
<1>2. /\ DialogOK(PopPrompt) /\ BaseOK(PopPrompt) /\ PopPrompt.top = DgNone
      /\ Differ(dg, PopPrompt, {"prompt", "top", "cell"})
  BY <1>1, Cleared DEF PopPrompt
<1>3. CASE dg.prompt.owner = "expr"
  <2>1. Belongs(dg.prompt) /\ dg.prompt.draft = PopPrompt.draft
    BY <1>1, <1>2, <1>3 DEF BaseOK, CallbacksOK, MayShow, Differ, DgFields
  <2> QED BY <1>2, <1>3, <2>1, Resumes DEF CancelPrompt
<1>4. CASE dg.prompt.owner # "expr" BY <1>2, <1>4, Repushes DEF CancelPrompt
<1> QED BY <1>3, <1>4

LEMMA SubmitExprKeeps == ASSUME DialogOK(dg), SubmitExpr PROVE DialogOK(dg')
<1> DEFINE at == dg.prompt.at
           store == dg.prompt.store
           r == CloseCell(PopPrompt)
           a == AddEdit(r, store, at.cell, at)
<1>1. /\ BaseOK(dg) /\ MayShow(dg, "prompt") /\ Belongs(dg.prompt)
      /\ dg.prompt.owner = "expr" /\ dg' \in {resume(PopPrompt, dg.prompt), a}
  BY DEF SubmitExpr, DialogOK, BaseOK, CallbacksOK
<1>2. /\ BaseOK(PopPrompt) /\ PopPrompt.top = DgNone
      /\ Differ(dg, PopPrompt, {"prompt", "top", "cell"})
  BY <1>1, Cleared DEF PopPrompt
<1>3. DialogOK(resume(PopPrompt, dg.prompt))
  <2>1. dg.prompt.draft = PopPrompt.draft BY <1>1, <1>2 DEF MayShow, Differ, DgFields
  <2> QED BY <1>1, <1>2, <2>1, Resumes
<1>4. DialogOK(a)
  <2>1. Differ(PopPrompt, r, {"cell"}) /\ BaseOK(r) BY <1>2, CellLeft
  <2>2. r.top = DgNone BY <1>2, <2>1 DEF Differ, DgFields
  <2> HIDE DEF r
  <2>3. at = [tab |-> store.set, cell |-> at.cell] BY <1>1 DEF Belongs
  <2>4. Differ(r, a, {"edits"}) /\ BaseOK(a) BY <2>1, <2>3, Staged
  <2> HIDE DEF a
  <2>5. a.top = DgNone BY <2>2, <2>4 DEF Differ, DgFields
  <2> QED BY <2>4, <2>5, Bare
<1> QED BY <1>1, <1>3, <1>4

LEMMA SubmitNameKeeps == ASSUME DialogOK(dg), SubmitName PROVE DialogOK(dg')
<1> PICK name \in DgProfiles :
      /\ dg.top = "prompt" /\ dg.prompt.owner = "name"
      /\ dg' = IF ~dg.dlg.active THEN PopPrompt
               ELSE repushDialog([PopPrompt EXCEPT !.dlg.typed = name,
                                                   !.named = [epoch |-> dg.prompt.epoch, name |-> name]])
  BY DEF SubmitName
<1> DEFINE s == PopPrompt
           d == [s.dlg EXCEPT !.typed = name]
           n == [epoch |-> dg.prompt.epoch, name |-> name]
           r == [s EXCEPT !.dlg.typed = name, !.named = n]
<1>1. BaseOK(dg) /\ dg.prompt.epoch = dg.epoch BY DEF DialogOK, MayShow
<1>2. /\ DialogOK(s) /\ BaseOK(s) /\ s.top = DgNone
      /\ Differ(dg, s, {"prompt", "top", "cell"})
  BY <1>1, Cleared DEF PopPrompt
<1>3. s.dlg = dg.dlg /\ s.epoch = dg.epoch BY <1>2 DEF Differ, DgFields
<1>4. ASSUME dg.dlg.active PROVE DialogOK(r)
  <2> HIDE DEF s
  <2>1. DOMAIN s.dlg = DlgFields /\ s.dlg.epoch = s.epoch /\ s.dlg.dry \in {0, s.epoch} /\ s.dlg.active
    BY <1>2, <1>3, <1>4 DEF BaseOK, OpeningOK
  <2>2. /\ DOMAIN d = DlgFields /\ d.epoch = s.dlg.epoch /\ d.dry = s.dlg.dry /\ d.active = s.dlg.active
        /\ d.typed = name
    BY <2>1 DEF DlgFields
  <2>3. /\ Differ(s, r, {"dlg", "named"}) /\ r.dlg = d /\ r.named = n
        /\ r.epoch = s.epoch /\ r.top = DgNone
    BY <1>2 DEF BaseOK, Differ, DgFields
  <2>4. n = [epoch |-> s.epoch, name |-> name] BY <1>1, <1>3
  <2> HIDE DEF d, r, n
  <2>5. OpeningOK(r) BY <2>1, <2>2, <2>3, <2>4 DEF OpeningOK
  <2>6. BaseOK(r) BY <1>2, <2>3, <2>5, FieldsKept DEF BaseOK
  <2> QED BY <2>3, <2>6, Bare
<1> HIDE DEF s
<1>5. CASE ~dg.dlg.active BY <1>2, <1>5 DEF s
<1>6. CASE dg.dlg.active BY <1>4, <1>6, Repushes DEF s
<1> QED BY <1>5, <1>6

LEMMA ChooseKeeps == ASSUME DialogOK(dg), Choose \/ CancelChoice PROVE DialogOK(dg')
<1> DEFINE at == dg.choice.at
           store == dg.choice.store
           r == PopFocus([dg EXCEPT !.choice = NoPrompt])
           a == AddEdit(r, store, at.cell, at)
<1>1. DialogOK(r) /\ BaseOK(r) /\ r.top = DgNone BY Cleared DEF DialogOK
<1>2. CASE CancelChoice BY <1>1, <1>2 DEF CancelChoice
<1>3. CASE Choose
  <2>1. dg' = a /\ at = [tab |-> store.set, cell |-> at.cell] BY <1>3 DEF Choose, DialogOK, BaseOK, CallbacksOK, Belongs
  <2> HIDE DEF r
  <2>2. Differ(r, a, {"edits"}) /\ BaseOK(a) BY <1>1, <2>1, Staged
  <2> HIDE DEF a
  <2>3. a.top = DgNone BY <1>1, <2>2 DEF Differ, DgFields
  <2> QED BY <2>1, <2>2, <2>3, Bare
<1> QED BY <1>2, <1>3

\* Edits that are dropped, of one tab, by a key or by an outcome.
LEMMA Dropped ==
    ASSUME NEW s, NEW t, NEW row, BaseOK(s),
           DOMAIN row = DOMAIN DgCells,
           t \in DgTabs => \A c \in DOMAIN DgCells : row[c] \in {NoDialogEdit, s.edits[t][c]}
    PROVE  LET r == [s EXCEPT !.edits[t] = row]
           IN  Differ(s, r, {"edits"}) /\ BaseOK(r)
<1> DEFINE e == [s.edits EXCEPT ![t] = row]
           r == [s EXCEPT !.edits = e]
<1>1. DOMAIN s = DgFields /\ StagedOK(s) BY DEF BaseOK
<1>2. Differ(s, r, {"edits"}) /\ r.edits = e BY <1>1 DEF Differ, DgFields
<1>3. /\ DOMAIN e = DgTabs
      /\ \A u \in DgTabs : e[u] = IF u = t THEN row ELSE s.edits[u]
  BY <1>1 DEF StagedOK
<1> HIDE DEF e, r
<1>4. StagedOK(r) BY <1>1, <1>2, <1>3 DEF StagedOK
<1>5. BaseOK(r) BY <1>2, <1>4, FieldsKept DEF BaseOK
<1> QED BY <1>2, <1>5 DEF r, e

LEMMA DiscardKeeps == ASSUME DialogOK(dg), DiscardAtGrid PROVE DialogOK(dg')
<1> PICK c \in DOMAIN DgCells : /\ dg.top = DgNone
                                /\ dg' = [dg EXCEPT !.edits[dg.tab][c] = NoDialogEdit]
  BY DEF DiscardAtGrid
<1>1. Differ(dg, dg', {"edits"}) /\ BaseOK(dg') BY EditSet DEF DialogOK
<1>2. dg'.top = DgNone BY <1>1 DEF Differ, DgFields
<1> QED BY <1>1, <1>2, Bare

-----------------------------------------
(* The commit dialog. *)

\* A request number that is taken leaves every operation behind it.
LEMMA OpensDialog == ASSUME DialogOK(dg), OpenDialog PROVE DialogOK(dg')
<1> DEFINE k == SpendKey(dg, "opens")
           s == cancelAsync(k)
           d == [active |-> TRUE, set |-> s.tab, conn |-> s.profile, typed |-> DgNone,
                 mode |-> "preview", dry |-> 0, epoch |-> s.epoch + 1]
           r == [s EXCEPT !.epoch = @ + 1, !.dlg = d]
<1>1. /\ BaseOK(dg) /\ dg.top = DgNone /\ dg' = ShowDialog(r, "commit") BY DEF OpenDialog, DialogOK
<1>2. Differ(dg, k, {"left"}) /\ BaseOK(k) BY <1>1, Spent
<1>3. k.top = DgNone /\ k.req = dg.req /\ k.epoch = dg.epoch /\ k.ops = dg.ops BY <1>1, <1>2 DEF Differ, DgFields
<1> HIDE DEF k
<1>4. /\ Differ(k, s, {"req", "waiting"}) /\ s.req = k.req + 1 /\ s.epoch = k.epoch
  BY <1>2 DEF BaseOK, Differ, DgFields, cancelAsync
<1> HIDE DEF s
<1>5. /\ DOMAIN d = DlgFields /\ d.active /\ d.typed = DgNone /\ d.dry = 0 /\ d.epoch = s.epoch + 1 BY DEF DlgFields
<1> HIDE DEF d
<1>6. /\ Differ(s, r, {"epoch", "dlg"}) /\ r.epoch = s.epoch + 1 /\ r.dlg = d BY <1>4 DEF Differ, DgFields
<1>7. r.ops = dg.ops /\ r.req = dg.req + 1 /\ r.epoch = dg.epoch + 1 /\ r.top = DgNone
  BY <1>3, <1>4, <1>6 DEF Differ, DgFields
<1> HIDE DEF r
<1>8. Differ(k, r, {"req", "waiting", "epoch", "dlg"}) BY <1>4, <1>6 DEF Differ
<1>9. OpeningOK(r) BY <1>4, <1>5, <1>6 DEF OpeningOK
<1>10. OpsOK(r) BY <1>1, <1>7 DEF BaseOK, OpsOK, OpOK
<1>11. BaseOK(r) /\ MayShow(r, "commit")
  <2>1. MayShow(r, "commit") BY <1>5, <1>6 DEF MayShow
  <2> QED BY <1>2, <1>8, <1>9, <1>10, <2>1, FieldsKept DEF BaseOK
<1> QED BY <1>1, <1>11, Shows

LEMMA ShowSqlKeeps == ASSUME DialogOK(dg), ShowSql PROVE DialogOK(dg')
<1> DEFINE d == [dg.dlg EXCEPT !.mode = IF @ = "sql" THEN "preview" ELSE "sql"]
           r == [dg EXCEPT !.dlg = d]
<1>1. /\ BaseOK(dg) /\ dg.top = "commit" /\ dg.dlg.active /\ DOMAIN dg = DgFields
      /\ DOMAIN dg.dlg = DlgFields
  BY DEF ShowSql, OnDialog, DialogOK, BaseOK, OpeningOK
<1>2. dg' = r BY <1>1 DEF ShowSql, DgFields
<1>3. /\ DOMAIN d = DlgFields /\ d.active = dg.dlg.active /\ d.epoch = dg.dlg.epoch
      /\ d.dry = dg.dlg.dry /\ d.typed = dg.dlg.typed
  BY <1>1 DEF DlgFields
<1> HIDE DEF d
<1>4. Differ(dg, r, {"dlg"}) /\ r.dlg = d /\ r.epoch = dg.epoch /\ r.named = dg.named /\ r.top = "commit"
  BY <1>1 DEF Differ, DgFields
<1> HIDE DEF r
<1>5. OpeningOK(r) BY <1>1, <1>3, <1>4 DEF BaseOK, OpeningOK
<1>6. BaseOK(r) BY <1>1, <1>4, <1>5, FieldsKept DEF BaseOK
<1> QED BY <1>1, <1>2, <1>3, <1>4, <1>6 DEF DialogOK, MayShow

LEMMA TypeNameKeeps == ASSUME DialogOK(dg), TypeName PROVE DialogOK(dg')
<1> DEFINE p == [owner |-> "name", epoch |-> dg.dlg.epoch]
           r == [dg EXCEPT !.prompt = p]
<1>1. BaseOK(dg) /\ dg.dlg.epoch = dg.epoch /\ dg' = ShowDialog(r, "prompt")
  BY DEF TypeName, OnDialog, DialogOK, BaseOK, OpeningOK
<1>2. p.owner = "name" /\ p.epoch = dg.epoch BY <1>1
<1> HIDE DEF p
<1>3. /\ Differ(dg, r, {"prompt"}) /\ r.prompt = p /\ r.epoch = dg.epoch
      /\ r.cell = dg.cell /\ r.choice = dg.choice
  BY <1>1 DEF BaseOK, Differ, DgFields
<1> HIDE DEF r
<1>4. CallbacksOK(r) BY <1>1, <1>2, <1>3 DEF BaseOK, CallbacksOK, Belongs
<1>5. BaseOK(r) /\ MayShow(r, "prompt")
  <2>1. MayShow(r, "prompt") BY <1>2, <1>3 DEF MayShow
  <2> QED BY <1>1, <1>3, <1>4, <2>1, FieldsKept DEF BaseOK
<1> QED BY <1>1, <1>5, Shows

\* The dialog closes: with a key, or when its outcome is known.
LEMMA DialogGone ==
    ASSUME NEW s, BaseOK(s)
    PROVE  Differ(s, CloseDialog(s), {"dlg"}) /\ BaseOK(CloseDialog(s))
<1> DEFINE r == CloseDialog(s)
<1>1. Differ(s, r, {"dlg"}) /\ r.dlg = NoDialog BY DEF CloseDialog, BaseOK, Differ, DgFields
<1> HIDE DEF r
<1>2. OpeningOK(r) BY <1>1 DEF OpeningOK, NoDialog
<1>3. BaseOK(r) BY <1>1, <1>2, FieldsKept DEF BaseOK
<1> QED BY <1>1, <1>3 DEF r

LEMMA CancelDialogKeeps == ASSUME DialogOK(dg), CancelDialog PROVE DialogOK(dg')
<1> DEFINE r == cancelAsync(dg)
           c == CloseDialog(r)
<1>1. BaseOK(dg) /\ dg' = PopFocus(c) BY DEF CancelDialog, DialogOK
<1>2. /\ Differ(dg, r, {"req", "waiting"}) /\ r.req = dg.req + 1 /\ r.epoch = dg.epoch
      /\ r.ops = dg.ops
  BY <1>1 DEF cancelAsync, BaseOK, Differ, DgFields
<1> HIDE DEF r
<1>3. OpsOK(r) BY <1>1, <1>2 DEF BaseOK, OpsOK, OpOK
<1>4. BaseOK(r) BY <1>1, <1>2, <1>3, FieldsKept DEF BaseOK
<1>5. BaseOK(c) BY <1>4, DialogGone
<1> HIDE DEF c
<1> QED BY <1>1, <1>5, Pops

\* An operation starts: with the number of the last request, of this opening, and on
\* a protected connection only with the name typed in it.
LEMMA OpStarts ==
    ASSUME NEW s, NEW t, NEW conn, NEW kind, NEW cells, BaseOK(s),
           conn = DgConn[t], kind \in {"apply", "overwrite", "dryrun"},
           conn \in DgProtected => /\ kind # "overwrite"
                                   /\ kind = "apply" => s.named = [epoch |-> s.epoch, name |-> conn]
    PROVE  LET r == Capture(s, t, conn, kind, cells)
           IN  Differ(s, r, {"busy", "ops"}) /\ BaseOK(r)
<1> DEFINE op == [kind |-> kind, set |-> t, conn |-> conn, cells |-> cells, req |-> s.req, epoch |-> s.epoch, named |-> s.named,
                  tab |-> s.tab, gen |-> s.gen, state |-> "runs", out |-> DgNone]
           b == [s.busy EXCEPT ![t] = TRUE]
           r == [s EXCEPT !.busy = b, !.ops = @ \cup {op}]
<1>1. Capture(s, t, conn, kind, cells) = r BY DEF Capture, BaseOK, DgFields
<1>2. /\ DOMAIN op = OpFields /\ op.kind = kind /\ op.set = t /\ op.conn = conn /\ op.req = s.req
      /\ op.epoch = s.epoch /\ op.named = s.named
  BY DEF OpFields
<1> HIDE DEF op, b
<1>3. /\ Differ(s, r, {"busy", "ops"}) /\ r.ops = s.ops \cup {op} /\ r.req = s.req /\ r.epoch = s.epoch
  BY DEF BaseOK, Differ, DgFields
<1> HIDE DEF r
<1>4. OpOK(r, op) BY <1>2, <1>3 DEF OpOK, BaseOK, OpsOK
<1>5. OpsOK(r) BY <1>3, <1>4 DEF BaseOK, OpsOK, OpOK
<1>6. BaseOK(r) BY <1>3, <1>5, FieldsKept DEF BaseOK
<1> QED BY <1>1, <1>3, <1>6

LEMMA StartKeeps == ASSUME DialogOK(dg), startAsync PROVE DialogOK(dg')
<1> PICK kind \in {"apply", "dryrun"} :
      LET t == dg.dlg.set
          s == IF kind = "dryrun" THEN [dg EXCEPT !.dlg.mode = "dryrun", !.dlg.dry = 0] ELSE dg
          asked == SpendKey([s EXCEPT !.req = @ + 1], "starts")
      IN  /\ OnDialog /\ ~applyDisabled(dg) /\ CanSpend("starts")
          /\ dg' = IF canCapture(dg, t, dg.dlg.conn, FALSE) /\ BeginCommit(dg, t, StagedCells(dg, t))
                   THEN Capture([asked EXCEPT !.waiting = TRUE], t, dg.dlg.conn, kind, StagedCells(dg, t))
                   ELSE s
  BY DEF startAsync
<1> DEFINE t == dg.dlg.set
           conn == dg.dlg.conn
           d == IF kind = "dryrun" THEN [dg.dlg EXCEPT !.mode = "dryrun", !.dry = 0] ELSE dg.dlg
           s == IF kind = "dryrun" THEN [dg EXCEPT !.dlg.mode = "dryrun", !.dlg.dry = 0] ELSE dg
           n == [s EXCEPT !.req = @ + 1]
           k == SpendKey(n, "starts")
           w == [k EXCEPT !.waiting = TRUE]
           r == Capture(w, t, conn, kind, StagedCells(dg, t))
<1>1. /\ BaseOK(dg) /\ DOMAIN dg = DgFields /\ dg.top = "commit" /\ dg.dlg.active /\ DOMAIN dg.dlg = DlgFields
      /\ Gate(dg) /\ dg.dlg.dry \in {0, dg.epoch}
  BY DEF OnDialog, DialogOK, BaseOK, OpeningOK, applyDisabled, ApplyEnabled
<1>2. /\ DOMAIN d = DlgFields /\ d.active = dg.dlg.active /\ d.epoch = dg.dlg.epoch
      /\ d.dry \in {0, dg.epoch} /\ d.typed = dg.dlg.typed
  BY <1>1 DEF DlgFields
<1>3. /\ Differ(dg, s, {"dlg"}) /\ s.dlg = d /\ s.top = "commit" /\ s.epoch = dg.epoch
      /\ s.named = dg.named /\ s.req = dg.req /\ s.ops = dg.ops
  BY <1>1 DEF Differ, DgFields
<1> HIDE DEF d, s
<1>4. BaseOK(s)
  <2>1. OpeningOK(s) BY <1>1, <1>2, <1>3 DEF BaseOK, OpeningOK
  <2> QED BY <1>1, <1>3, <2>1, FieldsKept DEF BaseOK
<1>5. DialogOK(s) BY <1>1, <1>2, <1>3, <1>4 DEF DialogOK, MayShow
<1>6. /\ Differ(s, n, {"req"}) /\ n.req = s.req + 1 /\ n.epoch = s.epoch /\ n.ops = s.ops
  BY <1>4 DEF BaseOK, Differ, DgFields
<1> HIDE DEF n
<1>7. BaseOK(n)
  <2>1. OpsOK(n) BY <1>4, <1>6 DEF BaseOK, OpsOK, OpOK
  <2> QED BY <1>4, <1>6, <2>1, FieldsKept DEF BaseOK
<1>8. Differ(n, k, {"left"}) /\ BaseOK(k) BY <1>7, Spent
<1> HIDE DEF k
<1>9. Differ(k, w, {"waiting"}) BY <1>8 DEF BaseOK, Differ, DgFields
<1> HIDE DEF w
<1>10. BaseOK(w) /\ Differ(s, w, {"req", "left", "waiting"})
  <2>1. BaseOK(w) BY <1>8, <1>9, FieldsKept DEF BaseOK
  <2> QED BY <1>6, <1>8, <1>9, <2>1 DEF Differ
<1>11. ASSUME canCapture(dg, t, conn, FALSE) PROVE DialogOK(r)
  <2>1. w.named = dg.named /\ w.epoch = dg.epoch BY <1>3, <1>10 DEF Differ, DgFields
  <2>2. conn = DgConn[t] /\ (conn \in DgProtected => w.named = [epoch |-> w.epoch, name |-> conn])
    BY <1>1, <1>11, <2>1, DialogAssumption DEF canCapture, Gate, BaseOK, OpeningOK
  <2>3. Differ(w, r, {"busy", "ops"}) /\ BaseOK(r) BY <1>10, <2>2, OpStarts
  <2> HIDE DEF r
  <2>4. Differ(s, r, {"req", "left", "waiting", "busy", "ops"}) BY <1>10, <2>3 DEF Differ
  <2> QED BY <1>3, <1>5, <2>3, <2>4, Stays
<1> HIDE DEF r
<1> QED BY <1>5, <1>11 DEF r, w, k, n, s

-----------------------------------------
(* Operations end and report. *)

LEMMA SettleKeeps == ASSUME DialogOK(dg), SettleDialog PROVE DialogOK(dg')
<1> PICK op \in dg.ops, out \in {"committed", "conflict", "failed", "unknown", "report"} :
      LET done == [op EXCEPT !.state = "posted", !.out = out]
          s == [dg EXCEPT !.ops = (@ \ {op}) \cup {done}, !.busy[op.set] = FALSE,
                          !.unknown[op.set] = @ \/ out = "unknown"]
      IN  /\ op.state = "runs" /\ out \in Outcomes(op.kind)
          /\ dg' = IF out # "committed" THEN s
                   ELSE [s EXCEPT !.base[op.set] = @ + 1,
                                  !.edits[op.set] = [c \in DOMAIN DgCells |-> IF c \in op.cells THEN NoDialogEdit ELSE @[c]],
                                  !.writes = @ \cup {[set |-> op.set, conn |-> op.conn, kind |-> op.kind,
                                                      named |-> op.named = [epoch |-> op.epoch, name |-> op.conn]]}]
  BY DEF SettleDialog
<1> DEFINE done == [op EXCEPT !.state = "posted", !.out = out]
           busy == [dg.busy EXCEPT ![op.set] = FALSE]
           unknown == [dg.unknown EXCEPT ![op.set] = @ \/ out = "unknown"]
           s == [dg EXCEPT !.ops = (@ \ {op}) \cup {done}, !.busy[op.set] = FALSE,
                           !.unknown[op.set] = @ \/ out = "unknown"]
           write == [set |-> op.set, conn |-> op.conn, kind |-> op.kind,
                     named |-> op.named = [epoch |-> op.epoch, name |-> op.conn]]
           base == [s.base EXCEPT ![op.set] = @ + 1]
           row == [c \in DOMAIN DgCells |-> IF c \in op.cells THEN NoDialogEdit ELSE s.edits[op.set][c]]
           e == [s EXCEPT !.edits[op.set] = row]
           r == [e EXCEPT !.base = base, !.writes = @ \cup {write}]
<1>1. BaseOK(dg) /\ OpOK(dg, op) /\ out \in Outcomes(op.kind) BY DEF DialogOK, BaseOK, OpsOK
<1>2. /\ DOMAIN done = OpFields /\ done.kind = op.kind /\ done.set = op.set /\ done.conn = op.conn
      /\ done.req = op.req /\ done.epoch = op.epoch /\ done.named = op.named
  BY <1>1 DEF OpOK, OpFields
<1> HIDE DEF done
<1>3. /\ Differ(dg, s, {"ops", "busy", "unknown"}) /\ s.ops = (dg.ops \ {op}) \cup {done}
      /\ s.req = dg.req /\ s.epoch = dg.epoch
  BY <1>1 DEF BaseOK, Differ, DgFields
<1>4. BaseOK(s) /\ DialogOK(s)
  <2> HIDE DEF s
  <2>1. OpOK(s, done) BY <1>1, <1>2, <1>3 DEF OpOK
  <2>2. OpsOK(s) BY <1>1, <1>3, <2>1 DEF BaseOK, OpsOK, OpOK
  <2>3. BaseOK(s) BY <1>1, <1>3, <2>2, FieldsKept DEF BaseOK
  <2> QED BY <1>3, <2>3, Stays
<1>5. ASSUME out = "committed" PROVE DialogOK(r)
  <2>1. op.conn = DgConn[op.set] /\ (op.conn \in DgProtected => op.kind = "apply" /\ write.named)
    BY <1>1, <1>5 DEF OpOK, Outcomes
  <2>2. write.conn = op.conn /\ write.set = op.set /\ write.kind = op.kind OBVIOUS
  <2> HIDE DEF s, write, base
  <2>3. Differ(s, e, {"edits"}) /\ BaseOK(e) BY <1>4, Dropped
  <2> HIDE DEF e
  <2>4. Differ(e, r, {"base", "writes"}) /\ r.writes = e.writes \cup {write} /\ r.closedBy = e.closedBy
    BY <2>3 DEF BaseOK, Differ, DgFields
  <2> HIDE DEF r
  <2>5. PastOK(r) BY <2>1, <2>2, <2>3, <2>4 DEF BaseOK, PastOK
  <2>6. BaseOK(r) BY <2>3, <2>4, <2>5, FieldsKept DEF BaseOK
  <2>7. Differ(s, r, {"edits", "base", "writes"}) BY <2>3, <2>4 DEF Differ
  <2> QED BY <1>4, <2>6, <2>7, Stays
<1>6. CASE out # "committed" BY <1>4, <1>6 DEF done
<1>7. CASE out = "committed"
  <2> DEFINE q == [s EXCEPT !.base[op.set] = @ + 1,
                            !.edits[op.set] = [c \in DOMAIN DgCells |-> IF c \in op.cells THEN NoDialogEdit ELSE @[c]],
                            !.writes = @ \cup {write}]
  <2>1. dg' = q BY <1>7 DEF done
  <2> HIDE DEF s, write
  <2>2. q = r BY <1>4 DEF BaseOK, DgFields
  <2> HIDE DEF q, r
  <2> QED BY <1>5, <1>7, <2>1, <2>2
<1> QED BY <1>6, <1>7

\* Only the opening that started an operation is closed by it.
LEMMA DoneKeeps ==
    ASSUME NEW s, NEW op, DialogOK(s), op.epoch = s.dlg.epoch
    PROVE  /\ DialogOK(doneOK(s, op)) /\ BaseOK(doneOK(s, op))
           /\ s.top = "commit" => doneOK(s, op).top = DgNone
<1> DEFINE q == [s EXCEPT !.waiting = FALSE, !.closedBy = @ \cup {<<op.epoch, s.dlg.epoch>>}]
           r == CloseDialog(q)
<1>1. BaseOK(s) BY DEF DialogOK
<1>2. /\ Differ(s, q, {"waiting", "closedBy"}) /\ q.writes = s.writes
      /\ q.closedBy = s.closedBy \cup {<<op.epoch, s.dlg.epoch>>}
  BY <1>1 DEF BaseOK, Differ, DgFields
<1> HIDE DEF q
<1>3. BaseOK(q)
  <2>1. PastOK(q) BY <1>1, <1>2 DEF BaseOK, PastOK
  <2> QED BY <1>1, <1>2, <2>1, FieldsKept DEF BaseOK
<1>4. Differ(q, r, {"dlg"}) /\ BaseOK(r) BY <1>3, DialogGone
<1>5. doneOK(s, op) = IF s.top = "commit" THEN PopFocus(r) ELSE r BY DEF doneOK, q
<1> HIDE DEF r
<1>6. CASE s.top = "commit" BY <1>4, <1>5, <1>6, Pops DEF DialogOK
<1>7. CASE s.top # "commit"
  <2>1. Differ(s, r, {"waiting", "closedBy", "dlg"}) BY <1>2, <1>4 DEF Differ
  <2>2. DialogOK(r) BY <1>4, <1>7, <2>1, Stays
  <2> QED BY <1>4, <1>5, <1>7, <2>2
<1> QED BY <1>6, <1>7

LEMMA ConflictOpens ==
    ASSUME NEW s, NEW op, BaseOK(s)
    PROVE  DialogOK(openConflict(s, op))
<1> DEFINE c == [active |-> TRUE, set |-> op.set, cells |-> op.cells, conn |-> op.conn]
           r == [s EXCEPT !.conf = c]
<1>1. Differ(s, r, {"conf"}) /\ r.conf = c BY DEF BaseOK, Differ, DgFields
<1>2. openConflict(s, op) = ShowDialog(r, "conflict") /\ c.active BY DEF openConflict
<1> HIDE DEF c, r
<1>3. BaseOK(r) /\ MayShow(r, "conflict")
  <2>1. MayShow(r, "conflict") BY <1>1, <1>2 DEF MayShow
  <2> QED BY <1>1, <2>1, FieldsKept DEF BaseOK
<1> QED BY <1>2, <1>3, Shows

LEMMA PublishKeeps == ASSUME DialogOK(dg), PublishCommit PROVE DialogOK(dg')
<1> PICK op \in dg.ops :
      LET s == [dg EXCEPT !.ops = @ \ {op}]
          mine == asyncCurrent(dg, op)
      IN  dg' = IF ~opCurrent(dg, op) \/ op.kind = "overwrite" \/ ~mine THEN s
                ELSE CASE op.kind = "dryrun" -> [s EXCEPT !.waiting = FALSE, !.dlg.dry = op.epoch]
                       [] op.out = "committed" -> doneOK(s, op)
                       [] op.out = "conflict" ->
                              IF s.top = "commit" THEN openConflict(doneOK(s, op), op) ELSE doneOK(s, op)
                       [] OTHER -> [s EXCEPT !.waiting = FALSE]
  BY DEF PublishCommit
<1> DEFINE s == [dg EXCEPT !.ops = @ \ {op}]
           w == [s EXCEPT !.waiting = FALSE]
           d == [s.dlg EXCEPT !.dry = op.epoch]
           y == [s EXCEPT !.waiting = FALSE, !.dlg.dry = op.epoch]
           z == [s EXCEPT !.waiting = FALSE, !.dlg = d]
<1>1. BaseOK(dg) /\ OpOK(dg, op) BY DEF DialogOK, BaseOK, OpsOK
<1>2. /\ Differ(dg, s, {"ops"}) /\ s.ops = dg.ops \ {op} /\ s.req = dg.req /\ s.epoch = dg.epoch
      /\ s.dlg = dg.dlg /\ s.top = dg.top
  BY <1>1 DEF BaseOK, Differ, DgFields
<1> HIDE DEF s
<1>3. BaseOK(s) /\ DialogOK(s)
  <2>1. OpsOK(s) BY <1>1, <1>2 DEF BaseOK, OpsOK, OpOK
  <2>2. BaseOK(s) BY <1>1, <1>2, <2>1, FieldsKept DEF BaseOK
  <2> QED BY <1>2, <2>2, Stays
<1>4. DialogOK(w)
  <2>1. Differ(s, w, {"waiting"}) BY <1>3 DEF BaseOK, Differ, DgFields
  <2> HIDE DEF w
  <2>2. BaseOK(w) BY <1>3, <2>1, FieldsKept DEF BaseOK
  <2> QED BY <1>3, <2>1, <2>2, Stays
<1>5. ASSUME asyncCurrent(dg, op)
      PROVE  s.dlg.active /\ op.epoch = s.epoch /\ op.epoch = s.dlg.epoch /\ DOMAIN s.dlg = DlgFields
  BY <1>1, <1>2, <1>5 DEF asyncCurrent, OpOK, BaseOK, OpeningOK
<1>6. ASSUME asyncCurrent(dg, op) PROVE DialogOK(y)
  <2>1. /\ DOMAIN d = DlgFields /\ d.active = s.dlg.active /\ d.epoch = s.dlg.epoch
        /\ d.dry = op.epoch /\ d.typed = s.dlg.typed
    BY <1>5, <1>6 DEF DlgFields
  <2>2. y = z BY <1>3, <1>5, <1>6 DEF BaseOK, DgFields, DlgFields
  <2> HIDE DEF d, y
  <2>3. /\ Differ(s, z, {"waiting", "dlg"}) /\ z.dlg = d /\ z.epoch = s.epoch /\ z.named = s.named /\ z.top = s.top
    BY <1>3 DEF BaseOK, Differ, DgFields
  <2> HIDE DEF z
  <2>4. OpeningOK(z) BY <1>3, <1>5, <1>6, <2>1, <2>3 DEF BaseOK, OpeningOK
  <2>5. BaseOK(z) BY <1>3, <2>3, <2>4, FieldsKept DEF BaseOK
  <2>6. CASE s.top = "commit" BY <1>5, <1>6, <2>1, <2>2, <2>3, <2>5, <2>6 DEF DialogOK, MayShow
  <2>7. CASE s.top # "commit" BY <1>3, <2>2, <2>3, <2>5, <2>7, Stays
  <2> QED BY <2>6, <2>7
<1>7. ASSUME asyncCurrent(dg, op)
      PROVE  DialogOK(doneOK(s, op)) /\ DialogOK(openConflict(doneOK(s, op), op))
  <2> DEFINE o == doneOK(s, op)
  <2>1. DialogOK(o) /\ BaseOK(o) BY <1>3, <1>5, <1>7, DoneKeeps
  <2> HIDE DEF o
  <2>2. DialogOK(openConflict(o, op)) BY <2>1, ConflictOpens
  <2> QED BY <2>1, <2>2 DEF o
<1>8. \/ dg' \in {s, w}
      \/ asyncCurrent(dg, op) /\ dg' \in {y, doneOK(s, op), openConflict(doneOK(s, op), op)}
  BY DEF s
<1> HIDE DEF w, y
<1> QED BY <1>3, <1>4, <1>6, <1>7, <1>8

-----------------------------------------
(* The conflict dialog, and what happens meanwhile. *)

LEMMA ConflictCloses ==
    ASSUME NEW s, BaseOK(s)
    PROVE  DialogOK(CloseConflict(s))
<1> DEFINE r == [s EXCEPT !.conf = NoDialog]
<1>1. Differ(s, r, {"conf"}) BY DEF BaseOK, Differ, DgFields
<1>2. CloseConflict(s) = PopFocus(r) BY DEF CloseConflict
<1> HIDE DEF r
<1>3. BaseOK(r) BY <1>1, FieldsKept DEF BaseOK
<1> QED BY <1>2, <1>3, Pops

LEMMA ConflictKeeps ==
    ASSUME DialogOK(dg), Refresh \/ OverwriteStaged \/ CancelConflict
    PROVE  DialogOK(dg')
<1>1. BaseOK(dg) /\ DOMAIN dg = DgFields BY DEF DialogOK, BaseOK
<1>2. CASE Refresh
  <2> DEFINE t == ActiveSet(dg)
             row == [c \in DOMAIN DgCells |-> IF c \in dg.conf.cells THEN NoDialogEdit ELSE dg.edits[t][c]]
             r == [dg EXCEPT !.edits[t] = row]
  <2>1. dg' = CloseConflict(r) BY <1>2 DEF Refresh
  <2>2. BaseOK(r) BY <1>1, Dropped
  <2> HIDE DEF r
  <2> QED BY <2>1, <2>2, ConflictCloses
<1>3. CASE OverwriteStaged
  <2> DEFINE t == ActiveSet(dg)
             conn == dg.conf.conn
             r == Capture(dg, t, conn, "overwrite", dg.conf.cells)
  <2>1. dg' = CloseConflict(r) /\ conn = DgConn[t] /\ conn \notin DgProtected
    BY <1>3 DEF OverwriteStaged, canCapture, OverwriteAllowed
  <2>2. BaseOK(r) BY <1>1, <2>1, OpStarts
  <2> HIDE DEF r
  <2> QED BY <2>1, <2>2, ConflictCloses
<1>4. CASE CancelConflict BY <1>1, <1>4, ConflictCloses DEF CancelConflict
<1> QED BY <1>2, <1>3, <1>4

LEMMA Wanders ==
    ASSUME NEW s, NEW r, DialogOK(s), Differ(s, r, {"left", "tab", "profile", "gen"})
    PROVE  DialogOK(r)
<1>1. BaseOK(s) BY DEF DialogOK
<1>2. BaseOK(r) BY <1>1, FieldsKept DEF BaseOK
<1> QED BY <1>2, Stays

LEMMA MeanwhileKeeps ==
    ASSUME DialogOK(dg), TabActivated \/ Connected \/ OtherPopup \/ OtherDismissed
    PROVE  DialogOK(dg')
<1>1. BaseOK(dg) BY DEF DialogOK
<1>2. CASE TabActivated
  <2> PICK t \in DgTabs \ {dg.tab} : dg' = [SpendKey(dg, "tabs") EXCEPT !.tab = t] BY <1>2 DEF TabActivated
  <2>1. Differ(dg, SpendKey(dg, "tabs"), {"left"}) /\ BaseOK(SpendKey(dg, "tabs")) BY <1>1, Spent
  <2>2. Differ(dg, dg', {"left", "tab", "profile", "gen"}) BY <2>1 DEF BaseOK, Differ, DgFields
  <2> QED BY <2>2, Wanders
<1>3. CASE Connected
  <2> PICK p \in DgProfiles : dg' = [SpendKey(dg, "connects") EXCEPT !.profile = p, !.gen = @ + 1] BY <1>3 DEF Connected
  <2>1. Differ(dg, SpendKey(dg, "connects"), {"left"}) /\ BaseOK(SpendKey(dg, "connects")) BY <1>1, Spent
  <2>2. Differ(dg, dg', {"left", "tab", "profile", "gen"}) BY <2>1 DEF BaseOK, Differ, DgFields
  <2> QED BY <2>2, Wanders
<1>4. CASE OtherPopup
  <2> DEFINE k == SpendKey(dg, "others")
             r == [k EXCEPT !.prompt = NoPrompt]
  <2>1. dg' \in {ShowDialog(r, "prompt"), ShowDialog(k, "other")} BY <1>4 DEF OtherPopup
  <2>2. BaseOK(k) BY <1>1, Spent
  <2> HIDE DEF k
  <2>3. /\ Differ(k, r, {"prompt"}) /\ r.prompt = NoPrompt /\ r.cell = k.cell /\ r.choice = k.choice
    BY <2>2 DEF BaseOK, Differ, DgFields
  <2> HIDE DEF r
  <2>4. CallbacksOK(r) BY <2>2, <2>3 DEF BaseOK, CallbacksOK, Belongs, NoPrompt, DgNone
  <2>5. BaseOK(r) BY <2>2, <2>3, <2>4, FieldsKept DEF BaseOK
  <2>6. MayShow(r, "prompt") /\ MayShow(k, "other") BY <2>3 DEF MayShow, NoPrompt, DgNone
  <2>7. DialogOK(ShowDialog(r, "prompt")) /\ DialogOK(ShowDialog(k, "other")) BY <2>2, <2>5, <2>6, Shows
  <2> QED BY <2>1, <2>7
<1>5. CASE OtherDismissed BY <1>1, <1>5, Pops DEF OtherDismissed
<1> QED BY <1>2, <1>3, <1>4, <1>5

-----------------------------------------
(* The invariant of the popups. *)

LEMMA DialogInit == ASSUME EdgInit PROVE DialogOK(dg)
<1> PICK topic \in DgTopics, t \in DgTabs :
      dg = [top |-> DgNone, tab |-> t, profile |-> DgConn[t], gen |-> 0, left |-> topic,
            edits |-> [u \in DgTabs |-> [c \in DOMAIN DgCells |-> NoDialogEdit]], base |-> [u \in DgTabs |-> 0],
            busy |-> [u \in DgTabs |-> FALSE], unknown |-> [u \in DgTabs |-> FALSE],
            cell |-> NoCell, prompt |-> NoPrompt, choice |-> NoPrompt, draft |-> "",
            dlg |-> NoDialog, epoch |-> 0, req |-> 0, waiting |-> FALSE, ops |-> {}, conf |-> NoDialog,
            named |-> [epoch |-> 0, name |-> DgNone], writes |-> {}, closedBy |-> {}]
  BY DEF EdgInit
<1>1. DOMAIN dg = DgFields BY DEF DgFields
<1>2. CallbacksOK(dg) /\ OpeningOK(dg) BY DEF CallbacksOK, OpeningOK, NoCell, NoPrompt, NoDialog, DgNone
<1>3. StagedOK(dg) BY DEF StagedOK
<1>4. OpsOK(dg) /\ PastOK(dg) BY DEF OpsOK, PastOK
<1>5. dg.top = DgNone OBVIOUS
<1> QED BY <1>1, <1>2, <1>3, <1>4, <1>5, Bare DEF BaseOK

LEMMA DialogStep == ASSUME DialogOK(dg), EdgNext PROVE DialogOK(dg')
BY EnterKeeps, TextKeeps, LeaveKeeps, ExprKeeps, CancelPromptKeeps, SubmitExprKeeps, SubmitNameKeeps,
   ChooseKeeps, DiscardKeeps, OpensDialog, ShowSqlKeeps, TypeNameKeeps, CancelDialogKeeps, StartKeeps,
   SettleKeeps, PublishKeeps, ConflictKeeps, MeanwhileKeeps DEF EdgNext

LEMMA DialogsTrue == ASSUME DialogOK(dg) PROVE EditTruth
<1>1. WritesGoHome /\ WritesNamed BY DEF DialogOK, BaseOK, PastOK, WritesGoHome, WritesNamed
<1>2. LateIsDropped BY DEF DialogOK, BaseOK, PastOK, OpeningOK, LateIsDropped
<1>3. StagedWhereTyped BY DEF DialogOK, BaseOK, StagedOK, StagedWhereTyped
<1>4. DraftKept /\ PopupsAnswer BY DEF DialogOK, MayShow, DraftKept, PopupsAnswer
<1> QED BY <1>1, <1>2, <1>3, <1>4 DEF EditTruth

DialogInv == DialogOK(dg)

\* Whatever is typed, confirmed, cancelled and reopened, and however late an operation answers, the
\* cell editor, the commit dialog and the conflict dialog act on what they show, for the tab and the
\* connection they were opened for (commit_operation_lifecycle.go, cell_editor_controller.go).
THEOREM DialogsTheorem == EdgSpec => []EditTruth
<1>1. EdgInit => DialogInv BY DialogInit DEF DialogInv
<1>2. DialogInv /\ [EdgNext]_dg => DialogInv'
  <2> SUFFICES ASSUME DialogInv, [EdgNext]_dg PROVE DialogInv' OBVIOUS
  <2>1. DialogOK(dg) BY DEF DialogInv
  <2>2. CASE EdgNext
    <3>1. DialogOK(dg') BY <2>1, <2>2, DialogStep
    <3> QED BY <3>1 DEF DialogInv
  <2>3. CASE UNCHANGED dg
    <3>1. DialogOK(dg') BY <2>1, <2>3
    <3> QED BY <3>1 DEF DialogInv
  <2> QED BY <2>2, <2>3
<1>3. DialogInv => EditTruth BY DialogsTrue DEF DialogInv
<1> QED BY <1>1, <1>2, <1>3, PTL DEF EdgSpec

-----------------------------------------
\* The export menu and the running export (ResultExport).

XpParts == {"keys", "gen", "loaded", "eof", "disposed", "menu", "slot", "n", "exp", "asked", "disk",
            "partial", "cols", "hidden", "overlay", "store"}
ExportFields == {"stage", "gen", "scope", "format", "file", "cancelled", "from", "take", "put"}
MenuFields == {"open", "field", "format", "dest", "scope", "path", "disabled"}

MenuFits(m) ==
    /\ DOMAIN m = MenuFields
    /\ m.format \in 1..3 /\ m.disabled \in {0, 3} /\ m.format # m.disabled
    /\ m.field \in 0..3 /\ m.dest \in 0..1 /\ (m.field = 2 => m.dest = 1)
    /\ m.path \in XpPaths
\* What an export took is of its stream, and all of it when all rows were asked for.
ExportFits(gen, eof, e) ==
    /\ DOMAIN e = ExportFields
    /\ e.file \in XpFiles \cup {Clipboard} /\ e.format # 0
    /\ e.gen \in Nat /\ e.gen <= gen
    /\ e.stage = "drained" /\ e.gen = gen => eof
    /\ e.stage \in {"source", "writing", "done"} => e.from = e.gen /\ (e.scope = 2 => e.take = XpRows)
    /\ e.stage = "done" => e.put = e.take
Working(e) == e.stage \in {"queued", "drained", "source", "writing"}
Numbered(s) ==
    /\ DOMAIN s.exp = 1..XpExports /\ s.n \in Nat
    /\ \A i \in 1..XpExports : i > s.n => s.exp[i].stage = "none"
    /\ s.asked # 0 => s.asked \in 1..XpExports /\ s.exp[s.asked].stage = "asked"
StreamFits(s) ==
    /\ s.gen \in Nat /\ (s.eof => s.loaded = XpRows)
    /\ \A i \in 1..XpExports : ExportFits(s.gen, s.eof, s.exp[i])
\* One slot: an export that nobody cancelled is in it, and an open menu has no export in it.
SlotFits(s) ==
    /\ \A i \in 1..XpExports : Working(s.exp[i]) /\ ~s.exp[i].cancelled => s.slot = i
    /\ s.menu.open => s.slot = 0
PartialFits(s) ==
    /\ DOMAIN s.partial = XpFiles
    /\ \A f \in XpFiles, i \in 1..XpExports :
         s.partial[f] = i <=> s.exp[i].stage = "writing" /\ s.exp[i].file = f
\* What a file holds was written by an export that has finished.
DiskFits(s) ==
    /\ DOMAIN s.disk = XpFiles \cup {Clipboard}
    /\ \A f \in XpFiles \cup {Clipboard} : s.disk[f] # NoFile =>
         \E i \in 1..XpExports :
            /\ s.exp[i].stage = "done" /\ s.exp[i].file = f
            /\ s.disk[f] = [gen |-> s.exp[i].gen, rows |-> s.exp[i].take]
SomeColumn(h) == h \subseteq {1, 2} /\ h # {1, 2}
ColumnsFit(s) ==
    /\ s.cols = {1, 2} /\ SomeColumn(s.store) /\ SomeColumn(s.hidden)
    /\ DOMAIN s.overlay = 1..2 /\ SomeColumn(s.overlay[2])
ExportOK(s) == /\ DOMAIN s = XpParts /\ MenuFits(s.menu)
               /\ Numbered(s) /\ StreamFits(s) /\ SlotFits(s) /\ PartialFits(s) /\ DiskFits(s)
               /\ ColumnsFit(s)

\* A state that differs from another in the parts F alone.
Alters(s, r, F) == DOMAIN r = XpParts /\ \A f \in XpParts \ F : r[f] = s[f]

LEMMA PartsKept ==
    ASSUME NEW s, NEW r, NEW F, ExportOK(s), Alters(s, r, F)
    PROVE  /\ DOMAIN r = XpParts
           /\ "menu" \notin F => MenuFits(r.menu)
           /\ "n" \notin F /\ "exp" \notin F /\ "asked" \notin F => Numbered(r)
           /\ "gen" \notin F /\ "eof" \notin F /\ "loaded" \notin F /\ "exp" \notin F => StreamFits(r)
           /\ "menu" \notin F /\ "slot" \notin F /\ "exp" \notin F => SlotFits(r)
           /\ "partial" \notin F /\ "exp" \notin F => PartialFits(r)
           /\ "disk" \notin F /\ "exp" \notin F => DiskFits(r)
           /\ "cols" \notin F /\ "store" \notin F /\ "hidden" \notin F /\ "overlay" \notin F => ColumnsFit(r)
<1>1. ASSUME "menu" \notin F PROVE MenuFits(r.menu) BY <1>1 DEF Alters, XpParts, ExportOK
<1>2. ASSUME "n" \notin F, "exp" \notin F, "asked" \notin F PROVE Numbered(r)
  <2>1. r.n = s.n /\ r.exp = s.exp /\ r.asked = s.asked BY <1>2 DEF Alters, XpParts
  <2> QED BY <2>1 DEF ExportOK, Numbered
<1>3. ASSUME "gen" \notin F, "eof" \notin F, "loaded" \notin F, "exp" \notin F PROVE StreamFits(r)
  <2>1. r.gen = s.gen /\ r.eof = s.eof /\ r.loaded = s.loaded /\ r.exp = s.exp BY <1>3 DEF Alters, XpParts
  <2> QED BY <2>1 DEF ExportOK, StreamFits
<1>4. ASSUME "menu" \notin F, "slot" \notin F, "exp" \notin F PROVE SlotFits(r)
  <2>1. r.menu = s.menu /\ r.slot = s.slot /\ r.exp = s.exp BY <1>4 DEF Alters, XpParts
  <2> QED BY <2>1 DEF ExportOK, SlotFits
<1>5. ASSUME "partial" \notin F, "exp" \notin F PROVE PartialFits(r)
  <2>1. r.partial = s.partial /\ r.exp = s.exp BY <1>5 DEF Alters, XpParts
  <2> QED BY <2>1 DEF ExportOK, PartialFits
<1>6. ASSUME "cols" \notin F, "store" \notin F, "hidden" \notin F, "overlay" \notin F PROVE ColumnsFit(r)
  <2>1. r.cols = s.cols /\ r.store = s.store /\ r.hidden = s.hidden /\ r.overlay = s.overlay BY <1>6 DEF Alters, XpParts
  <2> QED BY <2>1 DEF ExportOK, ColumnsFit
<1>7. ASSUME "disk" \notin F, "exp" \notin F PROVE DiskFits(r)
  <2>1. r.disk = s.disk /\ r.exp = s.exp BY <1>7 DEF Alters, XpParts
  <2> QED BY <2>1 DEF ExportOK, DiskFits
<1> QED BY <1>1, <1>2, <1>3, <1>4, <1>5, <1>6, <1>7 DEF Alters

LEMMA DoneStays ==
    ASSUME NEW s, NEW r, DiskFits(s), r.disk = s.disk,
           \A j \in 1..XpExports : LET e == s.exp[j]
                                     d == r.exp[j]
              IN  e.stage = "done" => /\ d.stage = "done" /\ d.file = e.file
                                      /\ d.gen = e.gen /\ d.take = e.take
    PROVE  DiskFits(r)
<1>1. ASSUME NEW f \in XpFiles \cup {Clipboard}, s.disk[f] # NoFile
      PROVE  \E i \in 1..XpExports : /\ r.exp[i].stage = "done" /\ r.exp[i].file = f
                                   /\ s.disk[f] = [gen |-> r.exp[i].gen, rows |-> r.exp[i].take]
  <2>1. PICK i \in 1..XpExports : /\ s.exp[i].stage = "done" /\ s.exp[i].file = f
                                 /\ s.disk[f] = [gen |-> s.exp[i].gen, rows |-> s.exp[i].take]
    BY <1>1 DEF DiskFits
  <2> QED BY <2>1
<1>2. \A f \in XpFiles \cup {Clipboard} : r.disk[f] # NoFile =>
        \E i \in 1..XpExports : /\ r.exp[i].stage = "done" /\ r.exp[i].file = f
                               /\ r.disk[f] = [gen |-> r.exp[i].gen, rows |-> r.exp[i].take]
  BY <1>1
<1>3. DOMAIN r.disk = XpFiles \cup {Clipboard} BY DEF DiskFits
<1> QED BY <1>2, <1>3 DEF DiskFits

\* An export of which only the cancellation has changed.
MoreCancelled(e, d) ==
    /\ DOMAIN d = ExportFields /\ \A f \in ExportFields \ {"cancelled"} : d[f] = e[f]
    /\ e.cancelled => d.cancelled

LEMMA CancelsKeep ==
    ASSUME NEW s, NEW r, ExportOK(s), Alters(s, r, {"exp", "slot"}), DOMAIN r.exp = 1..XpExports,
           \A i \in 1..XpExports : MoreCancelled(s.exp[i], r.exp[i]),
           \/ r.slot = s.slot
           \/ r.slot = 0 /\ \A i \in 1..XpExports : Working(s.exp[i]) => r.exp[i].cancelled
    PROVE  ExportOK(r)
<1>1. \A i \in 1..XpExports :
        LET e == s.exp[i]
            d == r.exp[i]
        IN  /\ DOMAIN d = ExportFields /\ d.stage = e.stage /\ d.gen = e.gen /\ d.scope = e.scope
            /\ d.format = e.format /\ d.file = e.file /\ d.take = e.take /\ d.put = e.put
            /\ d.from = e.from
            /\ e.cancelled => d.cancelled
  BY DEF MoreCancelled, ExportFields
<1>2. /\ r.n = s.n /\ r.asked = s.asked /\ r.gen = s.gen /\ r.eof = s.eof /\ r.loaded = s.loaded
      /\ r.menu = s.menu /\ r.partial = s.partial /\ r.disk = s.disk
  BY DEF Alters, XpParts
<1>8. DiskFits(r)
  <2>1. DiskFits(s) BY DEF ExportOK
  <2> QED BY <1>1, <1>2, <2>1, DoneStays
<1>3. Numbered(r) BY <1>1, <1>2 DEF ExportOK, Numbered
<1>4. StreamFits(r) BY <1>1, <1>2 DEF ExportOK, StreamFits, ExportFits
<1>5. SlotFits(r) BY <1>1, <1>2 DEF ExportOK, SlotFits, Working
<1>6. PartialFits(r) BY <1>1, <1>2 DEF ExportOK, PartialFits
<1>7. MenuFits(r.menu) /\ ColumnsFit(r) /\ DOMAIN r = XpParts BY PartsKept
<1> QED BY <1>3, <1>4, <1>5, <1>6, <1>7, <1>8 DEF ExportOK

\* Whatever was in the slot is cancelled, and the slot is empty.
LEMMA SlotCancelled ==
    ASSUME NEW s, ExportOK(s)
    PROVE  LET r == exportMenuCancel(s) IN
           /\ ExportOK(r) /\ r.slot = 0 /\ Alters(s, r, {"exp", "slot"})
           /\ DOMAIN r.exp = 1..XpExports
           /\ \A i \in 1..XpExports : /\ MoreCancelled(s.exp[i], r.exp[i])
                                      /\ Working(r.exp[i]) => r.exp[i].cancelled
<1>1. /\ DOMAIN s = XpParts /\ DOMAIN s.exp = 1..XpExports
      /\ \A i \in 1..XpExports : DOMAIN s.exp[i] = ExportFields
      /\ \A i \in 1..XpExports : Working(s.exp[i]) /\ ~s.exp[i].cancelled => s.slot = i
  BY DEF ExportOK, Numbered, StreamFits, ExportFits, SlotFits
<1>2. CASE s.slot = 0
  <2>1. exportMenuCancel(s) = s BY <1>2 DEF exportMenuCancel
  <2>2. \A i \in 1..XpExports : Working(s.exp[i]) => s.exp[i].cancelled BY <1>1, <1>2
  <2> QED BY <1>1, <1>2, <2>1, <2>2 DEF Alters, MoreCancelled
<1>3. CASE s.slot # 0
  <2> DEFINE x == [s.exp EXCEPT ![s.slot].cancelled = TRUE]
             r == [s EXCEPT !.exp[s.slot].cancelled = TRUE, !.slot = 0]
  <2>1. r = exportMenuCancel(s) BY <1>3 DEF exportMenuCancel
  <2>2. DOMAIN r = XpParts /\ r.exp = x /\ r.slot = 0 /\ Alters(s, r, {"exp", "slot"}) BY <1>1 DEF XpParts, Alters
  <2>3. /\ DOMAIN x = 1..XpExports
        /\ \A i \in 1..XpExports : /\ DOMAIN x[i] = ExportFields
                                   /\ \A f \in ExportFields \ {"cancelled"} : x[i][f] = s.exp[i][f]
                                   /\ s.exp[i].cancelled \/ i = s.slot => x[i].cancelled
    <3>1. \A i \in 1..XpExports : i # s.slot => x[i] = s.exp[i] BY <1>1
    <3>2. \A i \in 1..XpExports : i = s.slot => x[i] = [s.exp[i] EXCEPT !.cancelled = TRUE] BY <1>1
    <3> QED BY <1>1, <3>1, <3>2 DEF ExportFields
  <2> HIDE DEF x, r
  <2>4. \A i \in 1..XpExports : MoreCancelled(s.exp[i], r.exp[i]) BY <2>2, <2>3 DEF MoreCancelled
  <2>5. \A i \in 1..XpExports : Working(s.exp[i]) => r.exp[i].cancelled BY <1>1, <2>2, <2>3
  <2>6. \A i \in 1..XpExports : Working(r.exp[i]) => r.exp[i].cancelled
    BY <2>4, <2>5 DEF MoreCancelled, Working, ExportFields
  <2>7. ExportOK(r) BY <2>2, <2>3, <2>4, <2>5, CancelsKeep
  <2> QED BY <2>1, <2>2, <2>3, <2>4, <2>6, <2>7
<1> QED BY <1>2, <1>3

LEMMA CancelAllKeeps ==
    ASSUME NEW s, ExportOK(s)
    PROVE  LET r == CancelAll(s) IN ExportOK(r) /\ Alters(s, r, {"exp"})
<1> DEFINE x == [i \in DOMAIN s.exp |->
                    IF s.exp[i].stage \in {"none", "done", "failed"} \/ s.exp[i].stage = "asked" THEN s.exp[i]
                    ELSE [s.exp[i] EXCEPT !.cancelled = TRUE]]
           r == [s EXCEPT !.exp = x]
<1>1. /\ DOMAIN s = XpParts /\ DOMAIN s.exp = 1..XpExports
      /\ \A i \in 1..XpExports : DOMAIN s.exp[i] = ExportFields
  BY DEF ExportOK, Numbered, StreamFits, ExportFits
<1>2. CancelAll(s) = r BY <1>1 DEF CancelAll, XpParts
<1>3. DOMAIN x = 1..XpExports /\ \A i \in 1..XpExports : MoreCancelled(s.exp[i], x[i])
  BY <1>1 DEF MoreCancelled, ExportFields
<1> HIDE DEF x
<1>4. Alters(s, r, {"exp"}) /\ r.exp = x /\ r.slot = s.slot BY <1>1 DEF Alters, XpParts
<1> HIDE DEF r
<1>5. Alters(s, r, {"exp", "slot"}) BY <1>4 DEF Alters
<1>6. ExportOK(r) BY <1>3, <1>4, <1>5, CancelsKeep
<1> QED BY <1>2, <1>4, <1>6

\* The files are what they were when one export that has not finished moves on.
LEMMA SameDisk ==
    ASSUME NEW s, NEW r, NEW i \in 1..XpExports, DiskFits(s), r.disk = s.disk,
           \A j \in 1..XpExports : j # i => r.exp[j] = s.exp[j], s.exp[i].stage # "done"
    PROVE  DiskFits(r)
<1>1. \A j \in 1..XpExports : s.exp[j].stage = "done" => r.exp[j] = s.exp[j] OBVIOUS
<1> QED BY <1>1, DoneStays

\* A worker's step: one export, not a new one nor one that is asked about, moves on.
LEMMA WorkerMoves ==
    ASSUME NEW s, NEW r, NEW i \in 1..XpExports, ExportOK(s),
           Alters(s, r, {"exp", "slot", "partial", "disk"}),
           DOMAIN r.exp = 1..XpExports, \A j \in 1..XpExports : j # i => r.exp[j] = s.exp[j],
           ExportFits(s.gen, s.eof, r.exp[i]), Working(s.exp[i]),
           Working(r.exp[i]) => r.exp[i].cancelled = s.exp[i].cancelled /\ r.slot = s.slot,
           r.slot = s.slot \/ (r.slot = 0 /\ s.slot = i),
           PartialFits(r), r.disk = s.disk \/ DiskFits(r)
    PROVE  ExportOK(r)
<1>1. /\ r.n = s.n /\ r.asked = s.asked /\ r.gen = s.gen /\ r.eof = s.eof /\ r.loaded = s.loaded
      /\ r.menu = s.menu
  BY DEF Alters, XpParts
<1>2. s.exp[i].stage # "none" /\ s.exp[i].stage # "asked" BY DEF Working
<1>3. Numbered(r) BY <1>1, <1>2 DEF ExportOK, Numbered
<1>4. StreamFits(r) BY <1>1 DEF ExportOK, StreamFits
<1>5. SlotFits(r)
  <2>1. SlotFits(s) BY DEF ExportOK
  <2>2. ASSUME NEW j \in 1..XpExports, Working(r.exp[j]), ~r.exp[j].cancelled PROVE r.slot = j
    <3>1. CASE j = i BY <2>1, <2>2, <3>1 DEF SlotFits
    <3>2. CASE j # i BY <2>1, <2>2, <3>2 DEF SlotFits
    <3> QED BY <3>1, <3>2
  <2> QED BY <1>1, <2>1, <2>2 DEF SlotFits
<1>6. MenuFits(r.menu) /\ ColumnsFit(r) /\ DOMAIN r = XpParts BY PartsKept
<1>7. DiskFits(r)
  <2>1. DiskFits(s) /\ s.exp[i].stage # "done" BY DEF ExportOK, Working
  <2> QED BY <2>1, SameDisk
<1> QED BY <1>3, <1>4, <1>5, <1>6, <1>7 DEF ExportOK

\* The worker's step leaves the partial files alone when the export is not writing, before or after.
LEMMA NotWriting ==
    ASSUME NEW s, NEW r, NEW i \in 1..XpExports, PartialFits(s), r.partial = s.partial,
           \A j \in 1..XpExports : j # i => r.exp[j] = s.exp[j],
           s.exp[i].stage # "writing", r.exp[i].stage # "writing"
    PROVE  PartialFits(r)
BY DEF PartialFits

LEMMA EndsWith ==
    ASSUME NEW i \in 1..XpExports, NEW stage, ExportOK(xp)
    PROVE  LET r == Ends(i, stage) IN
           /\ Alters(xp, r, {"exp", "slot"}) /\ DOMAIN r.exp = 1..XpExports
           /\ \A j \in 1..XpExports : j # i => r.exp[j] = xp.exp[j]
           /\ r.exp[i] = [xp.exp[i] EXCEPT !.stage = stage]
           /\ r.slot = IF xp.slot = i THEN 0 ELSE xp.slot
<1> DEFINE t == [xp EXCEPT !.exp[i].stage = stage]
           r == Ends(i, stage)
<1>1. DOMAIN xp = XpParts /\ DOMAIN xp.exp = 1..XpExports BY DEF ExportOK, Numbered
<1>2. /\ DOMAIN t = XpParts /\ \A f \in XpParts \ {"exp"} : t[f] = xp[f]
      /\ t.exp = [xp.exp EXCEPT ![i].stage = stage]
  BY <1>1 DEF XpParts
<1>3. t.slot = xp.slot BY <1>2 DEF XpParts
<1>4. /\ DOMAIN t.exp = 1..XpExports
      /\ \A j \in 1..XpExports : j # i => t.exp[j] = xp.exp[j]
      /\ t.exp[i] = [xp.exp[i] EXCEPT !.stage = stage]
  BY <1>1, <1>2
<1>5. r = FreeSlot(t, i) BY DEF Ends
<1> HIDE DEF t
<1>6. CASE xp.slot = i
  <2>1. r = [t EXCEPT !.slot = 0] BY <1>3, <1>5, <1>6 DEF FreeSlot
  <2> HIDE DEF r
  <2>2. r.exp = t.exp /\ r.slot = 0 /\ Alters(xp, r, {"exp", "slot"}) BY <1>2, <2>1 DEF Alters, XpParts
  <2> QED BY <1>4, <1>6, <2>2 DEF r
<1>7. CASE xp.slot # i
  <2>1. r = t BY <1>3, <1>5, <1>7 DEF FreeSlot
  <2> HIDE DEF r
  <2>2. Alters(xp, r, {"exp", "slot"}) BY <1>2, <2>1 DEF Alters
  <2> QED BY <1>3, <1>4, <1>7, <2>1, <2>2 DEF r
<1> QED BY <1>6, <1>7

LEMMA Fails ==
    ASSUME NEW i \in 1..XpExports, ExportOK(xp), Working(xp.exp[i]), xp.exp[i].stage # "writing"
    PROVE  ExportOK(Ends(i, "failed"))
<1> DEFINE r == Ends(i, "failed")
           d == [xp.exp[i] EXCEPT !.stage = "failed"]
<1>1. /\ Alters(xp, r, {"exp", "slot"}) /\ DOMAIN r.exp = 1..XpExports
      /\ \A j \in 1..XpExports : j # i => r.exp[j] = xp.exp[j]
      /\ r.exp[i] = d /\ r.slot = IF xp.slot = i THEN 0 ELSE xp.slot
  BY EndsWith
<1> HIDE DEF r
<1>2. ExportFits(xp.gen, xp.eof, xp.exp[i]) BY DEF ExportOK, StreamFits
<1>3. d.stage = "failed" /\ ExportFits(xp.gen, xp.eof, d) BY <1>2 DEF ExportFits, ExportFields
<1> HIDE DEF d
<1>4. r.partial = xp.partial /\ r.disk = xp.disk /\ Alters(xp, r, {"exp", "slot", "partial", "disk"})
  BY <1>1 DEF Alters, XpParts
<1>5. PartialFits(r) BY <1>1, <1>3, <1>4, NotWriting DEF ExportOK
<1>6. ~Working(r.exp[i]) BY <1>1, <1>3 DEF Working
<1>7. ExportOK(r) BY <1>1, <1>3, <1>4, <1>5, <1>6, WorkerMoves
<1> QED BY <1>7 DEF r

LEMMA SourceKeeps ==
    ASSUME NEW i \in 1..XpExports, ExportOK(xp), buildRowSource(i)
    PROVE  ExportOK(xp')
<1> DEFINE e == xp.exp[i]
           r == xp'
<1>1. /\ DOMAIN xp = XpParts /\ DOMAIN xp.exp = 1..XpExports
      /\ ExportFits(xp.gen, xp.eof, e) /\ xp.gen \in Nat /\ (xp.eof => xp.loaded = XpRows)
  BY DEF ExportOK, Numbered, StreamFits
<1>2. Working(e) /\ e.stage # "writing" BY DEF buildRowSource, Working
<1>3. CASE xp' = Ends(i, "failed") BY <1>2, <1>3, Fails
<1>4. CASE ~Stale(e) /\ e.scope = 2 /\ xp.eof /\ xp' = [xp EXCEPT !.exp[i].stage = "drained"]
  <2> DEFINE d == [e EXCEPT !.stage = "drained"]
  <2>1. /\ Alters(xp, r, {"exp"}) /\ DOMAIN r.exp = 1..XpExports
        /\ \A j \in 1..XpExports : j # i => r.exp[j] = xp.exp[j]
        /\ r.exp[i] = d
    BY <1>1, <1>4 DEF Alters, XpParts
  <2>2. d.stage = "drained" /\ d.cancelled = e.cancelled /\ ExportFits(xp.gen, xp.eof, d)
    BY <1>1, <1>4 DEF ExportFits, ExportFields
  <2> HIDE DEF d, r
  <2>3. /\ r.partial = xp.partial /\ r.slot = xp.slot /\ r.disk = xp.disk
        /\ Alters(xp, r, {"exp", "slot", "partial", "disk"})
    BY <2>1 DEF Alters, XpParts
  <2>4. PartialFits(r) BY <1>2, <2>1, <2>2, <2>3, NotWriting DEF ExportOK
  <2>5. ExportOK(r) BY <1>2, <2>1, <2>2, <2>3, <2>4, WorkerMoves
  <2> QED BY <2>5 DEF r
<1>5. ASSUME NEW take, e.scope # 2 \/ e.stage = "drained", ~Stale(e), e.scope = 2 => take = xp.loaded,
             xp' = [xp EXCEPT !.exp[i].stage = "source", !.exp[i].from = xp.gen, !.exp[i].take = take]
      PROVE  ExportOK(xp')
  <2> DEFINE d == [e EXCEPT !.stage = "source", !.from = xp.gen, !.take = take]
  <2>1. /\ Alters(xp, r, {"exp"}) /\ DOMAIN r.exp = 1..XpExports
        /\ \A j \in 1..XpExports : j # i => r.exp[j] = xp.exp[j]
        /\ r.exp[i] = d
    BY <1>1, <1>5 DEF Alters, XpParts
  <2>2. (e.scope = 2 => take = XpRows) /\ xp.gen = e.gen BY <1>1, <1>5 DEF Stale, ExportFits
  <2>3. d.stage = "source" /\ d.cancelled = e.cancelled /\ ExportFits(xp.gen, xp.eof, d)
    BY <1>1, <2>2 DEF ExportFits, ExportFields
  <2> HIDE DEF d, r
  <2>4. /\ r.partial = xp.partial /\ r.slot = xp.slot /\ r.disk = xp.disk
        /\ Alters(xp, r, {"exp", "slot", "partial", "disk"})
    BY <2>1 DEF Alters, XpParts
  <2>5. PartialFits(r) BY <1>2, <2>1, <2>3, <2>4, NotWriting DEF ExportOK
  <2>6. ExportOK(r) BY <1>2, <2>1, <2>3, <2>4, <2>5, WorkerMoves
  <2> QED BY <2>6 DEF r
<1>6. CASE (e.scope # 2 \/ e.stage = "drained") /\ ~Stale(e)
  /\ xp' = [xp EXCEPT !.exp[i].stage = "source", !.exp[i].from = xp.gen,
                      !.exp[i].take = IF e.scope = 0 THEN Min({xp.loaded, 1}) ELSE xp.loaded]
  <2> DEFINE take == IF e.scope = 0 THEN Min({xp.loaded, 1}) ELSE xp.loaded
  <2>1. e.scope = 2 => take = xp.loaded OBVIOUS
  <2>2. xp' = [xp EXCEPT !.exp[i].stage = "source", !.exp[i].from = xp.gen, !.exp[i].take = take] BY <1>6
  <2> HIDE DEF take
  <2> QED BY <1>5, <1>6, <2>1, <2>2
<1>7. \/ ~Stale(e) /\ e.scope = 2 /\ xp.eof /\ xp' = [xp EXCEPT !.exp[i].stage = "drained"]
      \/ /\ e.scope # 2 \/ e.stage = "drained"
         /\ xp' = IF ~Stale(e)
                  THEN [xp EXCEPT !.exp[i].stage = "source", !.exp[i].from = xp.gen,
                                  !.exp[i].take = IF e.scope = 0 THEN Min({xp.loaded, 1}) ELSE xp.loaded]
                  ELSE Ends(i, "failed")
      \/ xp' = Ends(i, "failed")
  BY DEF buildRowSource, snapshotStream
<1> HIDE DEF e, r
<1> QED BY <1>3, <1>4, <1>6, <1>7

LEMMA ClipboardIsNoFile == Clipboard \notin XpFiles
BY DEF Clipboard, XpFiles, XpPaths

LEMMA DestKeeps ==
    ASSUME NEW i \in 1..XpExports, ExportOK(xp), OpenDest(i)
    PROVE  ExportOK(xp')
<1> DEFINE e == xp.exp[i]
           d == [e EXCEPT !.stage = "writing"]
           r == xp'
<1>1. /\ DOMAIN xp = XpParts /\ DOMAIN xp.exp = 1..XpExports
      /\ ExportFits(xp.gen, xp.eof, e) /\ PartialFits(xp)
  BY DEF ExportOK, Numbered, StreamFits
<1>2. Working(e) /\ e.stage = "source" BY DEF OpenDest, Working
<1>3. CASE xp' = Ends(i, "failed") BY <1>2, <1>3, Fails
<1>4. CASE Unclaimed(e) /\ xp' = [Claim(e, i) EXCEPT !.exp[i].stage = "writing"]
  <2> DEFINE c == Claim(e, i)
  <2>1. e.file \in XpFiles \/ e.file = Clipboard BY <1>1 DEF ExportFits
  <2>2. /\ DOMAIN c = XpParts /\ c.exp = xp.exp /\ \A f \in XpParts \ {"partial"} : c[f] = xp[f]
        /\ c.partial = IF e.file = Clipboard THEN xp.partial ELSE [xp.partial EXCEPT ![e.file] = i]
    <3>1. CASE e.file = Clipboard BY <1>1, <3>1 DEF Claim
    <3>2. CASE e.file # Clipboard BY <1>1, <3>2 DEF Claim, XpParts
    <3> QED BY <3>1, <3>2
  <2>3. /\ xp' = [c EXCEPT !.exp[i].stage = "writing"]
        /\ e.file \in XpFiles => xp.partial[e.file] = 0
    BY <1>4 DEF Unclaimed
  <2> HIDE DEF c
  <2>4. /\ Alters(xp, r, {"exp", "partial"}) /\ DOMAIN r.exp = 1..XpExports
        /\ \A j \in 1..XpExports : j # i => r.exp[j] = xp.exp[j]
        /\ r.exp[i] = d /\ r.partial = c.partial
    BY <1>1, <2>2, <2>3 DEF Alters, XpParts
  <2>5. d.stage = "writing" /\ d.cancelled = e.cancelled /\ d.file = e.file /\ ExportFits(xp.gen, xp.eof, d)
    BY <1>1, <1>2 DEF ExportFits, ExportFields
  <2> HIDE DEF d, r
  <2>6. r.slot = xp.slot /\ r.disk = xp.disk /\ Alters(xp, r, {"exp", "slot", "partial", "disk"})
    BY <2>4 DEF Alters, XpParts
  <2>7. PartialFits(r)
    <3>1. DOMAIN r.partial = XpFiles BY <1>1, <2>2, <2>4 DEF PartialFits
    <3>2. ASSUME NEW f \in XpFiles, NEW j \in 1..XpExports
          PROVE  r.partial[f] = j <=> r.exp[j].stage = "writing" /\ r.exp[j].file = f
      <4>1. xp.partial[f] = j <=> xp.exp[j].stage = "writing" /\ xp.exp[j].file = f BY <1>1 DEF PartialFits
      <4>2. r.partial[f] = IF e.file = f THEN i ELSE xp.partial[f]
        BY <1>1, <2>1, <2>2, <2>4, ClipboardIsNoFile DEF PartialFits
      <4>3. e.file = f => xp.partial[f] = 0 BY <2>3
      <4> QED BY <1>2, <2>4, <2>5, <4>1, <4>2, <4>3
    <3> QED BY <3>1, <3>2 DEF PartialFits
  <2>8. ExportOK(r) BY <1>2, <2>4, <2>5, <2>6, <2>7, WorkerMoves
  <2> QED BY <2>8 DEF r
<1>5. (Unclaimed(e) /\ xp' = [Claim(e, i) EXCEPT !.exp[i].stage = "writing"]) \/ xp' = Ends(i, "failed") BY DEF OpenDest
<1> HIDE DEF e
<1> QED BY <1>3, <1>4, <1>5

\* An export that has ended gives back its partial file.
LEMMA EndsReleased ==
    ASSUME NEW i \in 1..XpExports, NEW stage \in {"done", "failed"}, NEW r, ExportOK(xp),
           xp.exp[i].stage = "writing",
           stage = "done" => xp.exp[i].put = xp.exp[i].take,
           LET q == Release(Ends(i, stage), i)
               e == xp.exp[i]
           IN  \/ r = q
               \/ /\ stage = "done"
                  /\ r = [q EXCEPT !.disk = [xp.disk EXCEPT ![e.file] = [gen |-> e.from, rows |-> e.put]]]
    PROVE  ExportOK(r)
<1> DEFINE e == xp.exp[i]
           d == [e EXCEPT !.stage = stage]
           t == Ends(i, stage)
           p == [f \in XpFiles |-> IF t.partial[f] = i THEN 0 ELSE t.partial[f]]
           q == [t EXCEPT !.partial = p]
<1>1. /\ Alters(xp, t, {"exp", "slot"}) /\ DOMAIN t.exp = 1..XpExports
      /\ \A j \in 1..XpExports : j # i => t.exp[j] = xp.exp[j]
      /\ t.exp[i] = d /\ t.slot = IF xp.slot = i THEN 0 ELSE xp.slot
  BY EndsWith
<1>2. DOMAIN t = XpParts /\ t.partial = xp.partial BY <1>1 DEF Alters, XpParts
<1> HIDE DEF t
<1>3. Release(t, i) = q BY <1>2 DEF Release, XpParts
<1> DEFINE v == [xp.disk EXCEPT ![e.file] = [gen |-> e.from, rows |-> e.put]]
<1>4. r = q \/ (stage = "done" /\ r = [q EXCEPT !.disk = v]) BY <1>3 DEF t
<1> HIDE DEF v
<1>5. DOMAIN q = XpParts /\ q.partial = p /\ \A f \in XpParts \ {"partial"} : q[f] = t[f] BY <1>2 DEF XpParts
<1> HIDE DEF p, q
<1>6. DOMAIN r = XpParts /\ \A f \in XpParts \ {"disk"} : r[f] = q[f] BY <1>4, <1>5 DEF XpParts
<1>7. r.partial = p /\ r.exp = t.exp /\ r.slot = t.slot BY <1>5, <1>6 DEF XpParts
<1>8. Alters(xp, r, {"exp", "slot", "partial", "disk"}) BY <1>1, <1>5, <1>6 DEF Alters
<1>9. d.stage = stage /\ d.file = e.file /\ ExportFits(xp.gen, xp.eof, d)
  BY DEF ExportOK, StreamFits, ExportFits, ExportFields
<1> HIDE DEF d
<1>10. PartialFits(r)
  <2>1. PartialFits(xp) BY DEF ExportOK
  <2>2. DOMAIN r.partial = XpFiles
        /\ \A f \in XpFiles : r.partial[f] = IF xp.partial[f] = i THEN 0 ELSE xp.partial[f]
    BY <1>2, <1>7 DEF p
  <2>3. ASSUME NEW f \in XpFiles, NEW j \in 1..XpExports
        PROVE  r.partial[f] = j <=> r.exp[j].stage = "writing" /\ r.exp[j].file = f
    <3>1. xp.partial[f] = j <=> xp.exp[j].stage = "writing" /\ xp.exp[j].file = f BY <2>1 DEF PartialFits
    <3> QED BY <1>1, <1>7, <1>9, <2>2, <3>1
  <2> QED BY <2>2, <2>3 DEF PartialFits
<1>12. r.disk = xp.disk \/ DiskFits(r)
  <2>1. t.disk = xp.disk BY <1>1 DEF Alters, XpParts
  <2>2. r.disk = xp.disk \/ (stage = "done" /\ r.disk = v) BY <1>4, <1>5, <2>1 DEF XpParts
  <2>3. ASSUME stage = "done", r.disk = v PROVE DiskFits(r)
    <3>1. /\ DiskFits(xp) /\ ExportFits(xp.gen, xp.eof, e)
          /\ \A j \in 1..XpExports : j # i => r.exp[j] = xp.exp[j]
      BY <1>1, <1>7 DEF ExportOK, StreamFits
    <3>2. DOMAIN e = ExportFields /\ r.exp[i] = [e EXCEPT !.stage = "done"] BY <1>1, <1>7, <2>3, <3>1 DEF d, ExportFits
    <3>3. /\ r.exp[i].stage = "done" /\ r.exp[i].file = e.file
          /\ r.exp[i].gen = e.gen /\ r.exp[i].take = e.take
      BY <3>2 DEF ExportFields
    <3>4. e.from = e.gen /\ e.put = e.take /\ e.file \in XpFiles \cup {Clipboard} BY <2>3, <3>1 DEF ExportFits
    <3> HIDE DEF e
    <3>5. v[e.file] = [gen |-> e.gen, rows |-> e.take] BY <3>1, <3>4 DEF v, DiskFits
    <3>6. DOMAIN v = DOMAIN xp.disk /\ \A f \in DOMAIN xp.disk : f # e.file => v[f] = xp.disk[f] BY DEF v
    <3>7. ASSUME NEW f \in XpFiles \cup {Clipboard}, v[f] # NoFile
          PROVE  \E j \in 1..XpExports : /\ r.exp[j].stage = "done" /\ r.exp[j].file = f
                                       /\ v[f] = [gen |-> r.exp[j].gen, rows |-> r.exp[j].take]
      <4>1. CASE f = e.file BY <3>3, <3>5, <4>1
      <4>2. CASE f # e.file
        <5>1. PICK j \in 1..XpExports : /\ xp.exp[j].stage = "done" /\ xp.exp[j].file = f
                                       /\ xp.disk[f] = [gen |-> xp.exp[j].gen, rows |-> xp.exp[j].take]
          BY <3>1, <3>6, <3>7, <4>2 DEF DiskFits
        <5>2. j # i BY <5>1
        <5> QED BY <3>1, <3>6, <4>2, <5>1, <5>2 DEF DiskFits
      <4> QED BY <4>1, <4>2
    <3> QED BY <2>3, <3>1, <3>6, <3>7 DEF DiskFits
  <2> QED BY <2>2, <2>3
<1>11. Working(e) /\ ~Working(r.exp[i]) BY <1>1, <1>7, <1>9 DEF Working
<1> QED BY <1>1, <1>7, <1>8, <1>9, <1>10, <1>11, <1>12, WorkerMoves

LEMMA WriteKeeps ==
    ASSUME NEW i \in 1..XpExports, ExportOK(xp), ExportStep(i)
    PROVE  ExportOK(xp')
<1> DEFINE e == xp.exp[i]
           r == xp'
<1>1. e.stage = "writing" /\ Working(e) BY DEF ExportStep, Working
<1>2. CASE xp' = [xp EXCEPT !.exp[i].put = @ + 1]
  <2> DEFINE d == [e EXCEPT !.put = @ + 1]
  <2>1. /\ DOMAIN xp = XpParts /\ DOMAIN xp.exp = 1..XpExports
        /\ ExportFits(xp.gen, xp.eof, e) /\ PartialFits(xp)
    BY DEF ExportOK, Numbered, StreamFits
  <2>2. /\ Alters(xp, r, {"exp"}) /\ DOMAIN r.exp = 1..XpExports
        /\ \A j \in 1..XpExports : j # i => r.exp[j] = xp.exp[j]
        /\ r.exp[i] = d
    BY <1>2, <2>1 DEF Alters, XpParts
  <2>3. d.stage = e.stage /\ d.cancelled = e.cancelled /\ d.file = e.file /\ ExportFits(xp.gen, xp.eof, d)
    BY <1>1, <2>1 DEF ExportFits, ExportFields
  <2> HIDE DEF d, r
  <2>4. /\ r.partial = xp.partial /\ r.slot = xp.slot /\ r.disk = xp.disk
        /\ Alters(xp, r, {"exp", "slot", "partial", "disk"})
    BY <2>2 DEF Alters, XpParts
  <2>5. PartialFits(r) BY <2>1, <2>2, <2>3, <2>4 DEF PartialFits
  <2>6. ExportOK(r) BY <1>1, <2>2, <2>3, <2>4, <2>5, WorkerMoves
  <2> QED BY <2>6 DEF r
<1>3. CASE xp' = Abort(i) BY <1>1, <1>3, EndsReleased DEF Abort
<1>4. CASE e.put = e.take /\ xp' = [Release(Ends(i, "done"), i) EXCEPT !.disk[e.file] = [gen |-> e.from, rows |-> e.put]]
  <2> DEFINE q == Release(Ends(i, "done"), i)
             v == [xp.disk EXCEPT ![e.file] = [gen |-> e.from, rows |-> e.put]]
             t == Ends(i, "done")
  <2>2. Alters(xp, t, {"exp", "slot"}) BY EndsWith
  <2>3. t.disk = xp.disk /\ DOMAIN t = XpParts BY <2>2 DEF Alters, XpParts
  <2>4. q = Release(t, i) OBVIOUS
  <2> HIDE DEF t
  <2>5. q.disk = t.disk BY <2>3, <2>4 DEF Release, XpParts
  <2>1. xp' = [q EXCEPT !.disk = v] BY <1>4, <2>3, <2>5
  <2> HIDE DEF v, q
  <2>6. xp' = [Release(Ends(i, "done"), i) EXCEPT !.disk = v] BY <2>1 DEF q
  <2> USE DEF v
  <2> QED BY <1>1, <1>4, <2>6, EndsReleased
<1>5. \/ xp' = [xp EXCEPT !.exp[i].put = @ + 1]
      \/ e.put = e.take /\ xp' = [Release(Ends(i, "done"), i) EXCEPT !.disk[e.file] = [gen |-> e.from, rows |-> e.put]]
      \/ xp' = Abort(i)
  BY DEF ExportStep
<1> HIDE DEF e
<1> QED BY <1>2, <1>3, <1>4, <1>5

LEMMA StreamKeeps ==
    ASSUME ExportOK(xp), StreamLoads \/ StreamEnds \/ StreamReplaced \/ TabDisposed
    PROVE  ExportOK(xp')
<1> DEFINE r == xp'
<1>1. /\ DOMAIN xp = XpParts /\ xp.gen \in Nat /\ (xp.eof => xp.loaded = XpRows)
      /\ \A i \in 1..XpExports : ExportFits(xp.gen, xp.eof, xp.exp[i])
      /\ ColumnsFit(xp)
  BY DEF ExportOK, StreamFits
<1>2. CASE StreamLoads
  <2>1. /\ Alters(xp, r, {"loaded"}) /\ r.gen = xp.gen /\ r.eof = xp.eof /\ r.exp = xp.exp
        /\ xp.loaded < XpRows
    BY <1>1, <1>2 DEF StreamLoads, Alters, XpParts
  <2> HIDE DEF r
  <2>2. XpRows \in Nat BY XpAssumption
  <2>3. ~xp.eof BY <1>1, <2>1, <2>2
  <2>4. StreamFits(r) BY <1>1, <2>1, <2>3 DEF StreamFits
  <2>5. ExportOK(r) BY <2>1, <2>4, PartsKept DEF ExportOK
  <2> QED BY <2>5 DEF r
<1>3. CASE StreamEnds
  <2>1. /\ Alters(xp, r, {"eof"}) /\ r.gen = xp.gen /\ r.eof /\ r.exp = xp.exp
        /\ r.loaded = XpRows
    BY <1>1, <1>3 DEF StreamEnds, Alters, XpParts
  <2> HIDE DEF r
  <2>2. StreamFits(r) BY <1>1, <2>1 DEF StreamFits, ExportFits
  <2>3. ExportOK(r) BY <2>1, <2>2, PartsKept DEF ExportOK
  <2> QED BY <2>3 DEF r
<1>4. CASE StreamReplaced
  <2> DEFINE q == CancelAll(xp)
  <2>1. ExportOK(q) /\ Alters(xp, q, {"exp"}) BY CancelAllKeeps
  <2>2. xp' = [q EXCEPT !.gen = @ + 1, !.loaded = 0, !.eof = FALSE, !.hidden = seedHiddenCols]
    BY <1>4 DEF StreamReplaced
  <2> HIDE DEF q
  <2>3. DOMAIN q = XpParts /\ q.gen = xp.gen BY <2>1 DEF Alters, XpParts
  <2>4. /\ Alters(q, r, {"gen", "loaded", "eof", "hidden"}) /\ r.gen = q.gen + 1 /\ ~r.eof
        /\ r.exp = q.exp /\ r.hidden = seedHiddenCols /\ r.cols = q.cols /\ r.store = q.store
        /\ r.overlay = q.overlay
    BY <2>2, <2>3 DEF Alters, XpParts
  <2> HIDE DEF r
  <2>5. SomeColumn(seedHiddenCols) BY <1>1 DEF seedHiddenCols, ColumnsFit, SomeColumn
  <2>6. ColumnsFit(r) BY <2>1, <2>4, <2>5 DEF ExportOK, ColumnsFit
  <2>7. StreamFits(r)
    <3>1. \A i \in 1..XpExports : ExportFits(q.gen, q.eof, q.exp[i]) BY <2>1 DEF ExportOK, StreamFits
    <3>2. q.gen \in Nat BY <1>1, <2>3
    <3>3. \A i \in 1..XpExports : ExportFits(r.gen, r.eof, r.exp[i]) BY <2>4, <3>1, <3>2 DEF ExportFits
    <3> QED BY <2>4, <3>2, <3>3 DEF StreamFits
  <2>8. ExportOK(r) BY <2>1, <2>4, <2>6, <2>7, PartsKept DEF ExportOK
  <2> QED BY <2>8 DEF r
<1>5. CASE TabDisposed
  <2> DEFINE q == CancelAll(xp)
  <2>1. ExportOK(q) BY CancelAllKeeps
  <2>2. xp' = [q EXCEPT !.disposed = TRUE] BY <1>5 DEF TabDisposed
  <2> HIDE DEF q
  <2>3. Alters(q, r, {"disposed"}) BY <2>1, <2>2 DEF ExportOK, Alters, XpParts
  <2> HIDE DEF r
  <2>4. ExportOK(r) BY <2>1, <2>3, PartsKept DEF ExportOK
  <2> QED BY <2>4 DEF r
<1> QED BY <1>2, <1>3, <1>4, <1>5

LEMMA SmallerOrGreater ==
    ASSUME NEW a \in Int, NEW b \in Int
    PROVE  Min({a, b}) = (IF a < b THEN a ELSE b) /\ Max({a, b}) = (IF a < b THEN b ELSE a)
<1>1. CASE a < b
  <2>1. a \in {a, b} /\ \A y \in {a, b} : a =< y BY <1>1
  <2>2. b \in {a, b} /\ \A y \in {a, b} : b >= y BY <1>1
  <2>3. \A x \in {a, b} : (\A y \in {a, b} : x =< y) => x = a BY <1>1
  <2>4. \A x \in {a, b} : (\A y \in {a, b} : x >= y) => x = b BY <1>1
  <2> QED BY <1>1, <2>1, <2>2, <2>3, <2>4 DEF Min, Max
<1>2. CASE ~(a < b)
  <2>1. b \in {a, b} /\ \A y \in {a, b} : b =< y BY <1>2
  <2>2. a \in {a, b} /\ \A y \in {a, b} : a >= y BY <1>2
  <2>3. \A x \in {a, b} : (\A y \in {a, b} : x =< y) => x = b BY <1>2
  <2>4. \A x \in {a, b} : (\A y \in {a, b} : x >= y) => x = a BY <1>2
  <2> QED BY <1>2, <2>1, <2>2, <2>3, <2>4 DEF Min, Max
<1> QED BY <1>1, <1>2

LEMMA ClampedBetween ==
    ASSUME NEW v \in Int, NEW lo \in Int, NEW hi \in Int, lo <= hi
    PROVE  clampField(v, lo, hi) \in Int /\ lo <= clampField(v, lo, hi) /\ clampField(v, lo, hi) <= hi
<1> DEFINE w == IF v < hi THEN v ELSE hi
<1>1. Min({v, hi}) = w /\ w \in Int /\ w <= hi BY SmallerOrGreater
<1> HIDE DEF w
<1>2. Max({lo, w}) = IF lo < w THEN w ELSE lo BY <1>1, SmallerOrGreater
<1> QED BY <1>1, <1>2 DEF clampField

LEMMA FieldClamped ==
    ASSUME NEW v \in Int
    PROVE  clampField(v, 0, 3) \in 0..3 /\ clampField(v, 0, 1) \in 0..1
<1>1. 0 \in Int /\ 1 \in Int /\ 3 \in Int /\ 0 <= 1 /\ 0 <= 3 OBVIOUS
<1>2. clampField(v, 0, 3) \in Int /\ 0 <= clampField(v, 0, 3) /\ clampField(v, 0, 3) <= 3 BY <1>1, ClampedBetween, Zenon
<1>3. clampField(v, 0, 1) \in Int /\ 0 <= clampField(v, 0, 1) /\ clampField(v, 0, 1) <= 1 BY <1>1, ClampedBetween, Zenon
<1> QED BY <1>2, <1>3

\* A key in the menu.
LEMMA MenuSet ==
    ASSUME NEW r, ExportOK(xp), Alters(xp, r, {"keys", "menu"}), MenuFits(r.menu),
           r.menu.open => xp.menu.open
    PROVE  ExportOK(r)
<1>1. r.slot = xp.slot /\ r.exp = xp.exp BY DEF Alters, XpParts
<1>2. SlotFits(r) BY <1>1 DEF ExportOK, SlotFits
<1> QED BY <1>2, PartsKept DEF ExportOK

LEMMA NoMenuFits == MenuFits(NoMenu) /\ ~NoMenu.open /\ NoMenu.path \in XpPaths
BY DEF MenuFits, NoMenu, MenuFields, XpPaths

LEMMA PromptKeeps == ASSUME ExportOK(xp), PromptExport PROVE ExportOK(xp')
<1> DEFINE q == exportMenuCancel(xp)
           r == xp'
<1>1. PICK disabled \in {0, 3} :
        xp' = [q EXCEPT !.menu = [NoMenu EXCEPT !.open = TRUE, !.disabled = disabled]]
  BY DEF PromptExport
<1> DEFINE m == [NoMenu EXCEPT !.open = TRUE, !.disabled = disabled]
<1>2. MenuFits(m) BY DEF NoMenu, MenuFits, MenuFields, XpPaths
<1>3. /\ ExportOK(q) /\ q.slot = 0 /\ DOMAIN q = XpParts BY SlotCancelled DEF ExportOK
<1>4. xp' = [q EXCEPT !.menu = m] BY <1>1
<1> HIDE DEF q, m
<1>5. Alters(q, r, {"menu"}) /\ r.menu = m /\ r.slot = q.slot /\ r.exp = q.exp BY <1>3, <1>4 DEF Alters, XpParts
<1> HIDE DEF r
<1>6. SlotFits(r) BY <1>3, <1>5 DEF ExportOK, SlotFits
<1>7. ExportOK(r) BY <1>2, <1>3, <1>5, <1>6, PartsKept DEF ExportOK
<1> QED BY <1>7 DEF r

LEMMA FieldKeeps == ASSUME NEW d \in {-1, 1}, ExportOK(xp), MoveField(d) PROVE ExportOK(xp')
<1> DEFINE n == clampField(xp.menu.field + d, 0, 3)
           f == IF n = 2 /\ xp.menu.dest # 1 THEN n + d ELSE n
           m == [xp.menu EXCEPT !.field = f]
           r == xp'
<1>1. DOMAIN xp = XpParts /\ MenuFits(xp.menu) BY DEF ExportOK
<1>2. n \in 0..3
  <2>1. xp.menu.field + d \in Int BY <1>1 DEF MenuFits
  <2> QED BY <2>1, FieldClamped
<1>3. xp' = [xp EXCEPT !.keys = @ + 1, !.menu.field = f] /\ xp.menu.open BY DEF MoveField
<1> HIDE DEF n
<1>4. f \in 0..3 /\ (f = 2 => xp.menu.dest = 1) BY <1>2
<1> HIDE DEF f
<1>5. MenuFits(m) /\ m.open = xp.menu.open BY <1>1, <1>4 DEF MenuFits, MenuFields
<1>6. Alters(xp, r, {"keys", "menu"}) /\ r.menu = m BY <1>1, <1>3 DEF Alters, XpParts
<1> HIDE DEF m, r
<1>7. ExportOK(r) BY <1>5, <1>6, MenuSet
<1> QED BY <1>7 DEF r

LEMMA FormatOffered ==
    ASSUME NEW m, NEW d \in {-1, 1}, MenuFits(m)
    PROVE  moveFormatValue(m, d) \in 1..3 /\ moveFormatValue(m, d) # m.disabled
BY DEF MenuFits, moveFormatValue

LEMMA ValueKeeps == ASSUME NEW d \in {-1, 1}, ExportOK(xp), MoveValue(d) PROVE ExportOK(xp')
<1> DEFINE m == xp.menu
           f == moveFormatValue(m, d)
           w == CASE m.field = 0 -> [m EXCEPT !.format = f]
                  [] m.field = 1 -> [m EXCEPT !.dest = clampField(m.dest + d, 0, 1)]
                  [] m.field = 3 -> [m EXCEPT !.scope = clampField(m.scope + d, 0, 2)]
                  [] OTHER -> m
           r == xp'
<1>1. DOMAIN xp = XpParts /\ MenuFits(m) BY DEF ExportOK
<1>2. xp' = [xp EXCEPT !.keys = @ + 1, !.menu = w] /\ m.open BY DEF MoveValue
<1>3. f \in 1..3 /\ f # m.disabled BY <1>1, FormatOffered
<1>4. clampField(m.dest + d, 0, 1) \in 0..1
  <2>1. m.dest + d \in Int BY <1>1 DEF MenuFits
  <2> QED BY <2>1, FieldClamped
<1> HIDE DEF f
<1>5. MenuFits(w) /\ w.open = m.open
  <2>1. CASE m.field = 0 BY <1>1, <1>3, <2>1 DEF MenuFits, MenuFields
  <2>2. CASE m.field = 1 BY <1>1, <1>4, <2>2 DEF MenuFits, MenuFields
  <2>3. CASE m.field = 3
    <3>1. w = [m EXCEPT !.scope = clampField(m.scope + d, 0, 2)] BY <2>3
    <3> HIDE DEF w
    <3> QED BY <1>1, <3>1 DEF MenuFits, MenuFields
  <2>4. CASE m.field \notin {0, 1, 3} BY <1>1, <2>4
  <2> QED BY <2>1, <2>2, <2>3, <2>4
<1> HIDE DEF w
<1>6. Alters(xp, r, {"keys", "menu"}) /\ r.menu = w BY <1>1, <1>2 DEF Alters, XpParts
<1> HIDE DEF r
<1>7. ExportOK(r) BY <1>5, <1>6, MenuSet
<1> QED BY <1>7 DEF r

LEMMA PathKeeps == ASSUME ExportOK(xp), EditPath PROVE ExportOK(xp')
<1> DEFINE r == xp'
<1>1. PICK p \in XpPaths : xp' = [xp EXCEPT !.keys = @ + 1, !.menu.path = p] BY DEF EditPath
<1> DEFINE m == [xp.menu EXCEPT !.path = p]
<1>2. DOMAIN xp = XpParts /\ MenuFits(xp.menu) BY DEF ExportOK
<1>3. MenuFits(m) /\ m.open = xp.menu.open BY <1>2 DEF MenuFits, MenuFields
<1>4. Alters(xp, r, {"keys", "menu"}) /\ r.menu = m BY <1>1, <1>2 DEF Alters, XpParts
<1> HIDE DEF m, r
<1>5. ExportOK(r) BY <1>3, <1>4, MenuSet
<1> QED BY <1>5 DEF r

LEMMA MenuClosed ==
    ASSUME NEW s, ExportOK(s)
    PROVE  ExportOK([s EXCEPT !.menu = NoMenu])
<1> DEFINE r == [s EXCEPT !.menu = NoMenu]
<1>1. Alters(s, r, {"menu"}) /\ r.menu = NoMenu /\ r.slot = s.slot /\ r.exp = s.exp BY DEF ExportOK, Alters, XpParts
<1> HIDE DEF r
<1>2. SlotFits(r) BY <1>1, NoMenuFits DEF ExportOK, SlotFits
<1>3. ExportOK(r) BY <1>1, <1>2, NoMenuFits, PartsKept DEF ExportOK
<1> QED BY <1>3 DEF r

LEMMA MenuCancelKeeps == ASSUME ExportOK(xp), ExportMenuCancel PROVE ExportOK(xp')
BY SlotCancelled, MenuClosed DEF ExportMenuCancel

\* An export that is asked about, or just captured, takes the slot.
LEMMA Dispatched ==
    ASSUME NEW s, NEW i \in 1..XpExports, ExportOK(s), s.exp[i].stage = "asked"
    PROVE  /\ s.asked # i => ExportOK(dispatchExport(s, i))
           /\ s.asked = i => ExportOK([dispatchExport(s, i) EXCEPT !.asked = 0])
<1> DEFINE q == exportMenuCancel(s)
           stopped == xp.disposed \/ s.exp[i].gen # xp.gen
           d == [q.exp[i] EXCEPT !.stage = "queued", !.cancelled = stopped]
           t == dispatchExport(s, i)
<1>1. /\ ExportOK(q) /\ q.slot = 0 /\ Alters(s, q, {"exp", "slot"})
      /\ DOMAIN q.exp = 1..XpExports
      /\ \A j \in 1..XpExports : /\ MoreCancelled(s.exp[j], q.exp[j])
                                 /\ Working(q.exp[j]) => q.exp[j].cancelled
  BY SlotCancelled
<1>2. t = [q EXCEPT !.menu = NoMenu, !.slot = i, !.exp[i].stage = "queued", !.exp[i].cancelled = stopped]
  BY DEF dispatchExport
<1> HIDE DEF q, stopped
<1>3. /\ DOMAIN q = XpParts /\ q.exp[i].stage = "asked" /\ q.asked = s.asked
      /\ ExportFits(q.gen, q.eof, q.exp[i])
  BY <1>1 DEF ExportOK, StreamFits, MoreCancelled, ExportFields, Alters, XpParts
<1>4. /\ DOMAIN t = XpParts /\ Alters(q, t, {"menu", "slot", "exp"})
      /\ t.menu = NoMenu /\ t.slot = i /\ DOMAIN t.exp = 1..XpExports /\ t.exp[i] = d
      /\ \A j \in 1..XpExports : j # i => t.exp[j] = q.exp[j]
  <2> DEFINE x == [q.exp EXCEPT ![i].stage = "queued", ![i].cancelled = stopped]
  <2>1. t = [q EXCEPT !.menu = NoMenu, !.slot = i, !.exp = x] BY <1>2
  <2>2. /\ DOMAIN x = 1..XpExports /\ x[i] = d
        /\ \A j \in 1..XpExports : j # i => x[j] = q.exp[j]
    BY <1>1
  <2> HIDE DEF x, t, d
  <2>3. DOMAIN t = XpParts /\ t.menu = NoMenu /\ t.slot = i /\ t.exp = x BY <1>3, <2>1 DEF XpParts
  <2>4. \A f \in XpParts \ {"menu", "slot", "exp"} : t[f] = q[f] BY <1>3, <2>1 DEF XpParts
  <2> QED BY <2>2, <2>3, <2>4 DEF Alters
<1>5. d.stage = "queued" /\ ExportFits(q.gen, q.eof, d) BY <1>3 DEF ExportFits, ExportFields
<1> HIDE DEF d, t
<1>6. ASSUME NEW r, NEW F, F \in {{"menu", "slot", "exp"}, {"menu", "slot", "exp", "asked"}},
             Alters(q, r, F), r.menu = NoMenu, r.slot = i, r.exp = t.exp,
             r.asked # i, r.asked = s.asked \/ r.asked = 0
      PROVE  ExportOK(r)
  <2>1. /\ DOMAIN r.exp = 1..XpExports /\ r.exp[i] = d
        /\ \A j \in 1..XpExports : j # i => r.exp[j] = q.exp[j]
    BY <1>1, <1>4, <1>6
  <2>2. /\ r.n = q.n /\ r.gen = q.gen /\ r.eof = q.eof /\ r.loaded = q.loaded /\ r.partial = q.partial
        /\ r.disk = q.disk
    BY <1>6 DEF Alters, XpParts
  <2>3. Numbered(r) BY <1>1, <1>3, <1>5, <1>6, <2>1, <2>2 DEF ExportOK, Numbered
  <2>4. StreamFits(r) BY <1>1, <1>5, <2>1, <2>2 DEF ExportOK, StreamFits
  <2>5. SlotFits(r) BY <1>1, <1>6, <2>1, NoMenuFits DEF SlotFits
  <2>6. PartialFits(r) BY <1>1, <1>3, <1>5, <2>1, <2>2, NotWriting DEF ExportOK
  <2>7. ColumnsFit(r) /\ DOMAIN r = XpParts BY <1>1, <1>6, PartsKept
  <2>8. DiskFits(r) BY <1>1, <1>3, <2>1, <2>2, SameDisk DEF ExportOK
  <2> QED BY <1>6, <2>3, <2>4, <2>5, <2>6, <2>7, <2>8, NoMenuFits DEF ExportOK
<1>7. ASSUME s.asked # i PROVE ExportOK(t)
  <2>1. t.asked = s.asked BY <1>3, <1>4 DEF Alters, XpParts
  <2> QED BY <1>4, <1>6, <1>7, <2>1
<1>8. ASSUME s.asked = i PROVE ExportOK([t EXCEPT !.asked = 0])
  <2> DEFINE r == [t EXCEPT !.asked = 0]
  <2>1. /\ Alters(q, r, {"menu", "slot", "exp", "asked"}) /\ r.menu = t.menu /\ r.slot = t.slot
        /\ r.exp = t.exp /\ r.asked = 0
    BY <1>4 DEF Alters, XpParts
  <2> HIDE DEF r
  <2>2. ExportOK(r) BY <1>4, <1>6, <2>1
  <2> QED BY <2>2 DEF r
<1> QED BY <1>7, <1>8 DEF t

LEMMA ConfirmKeeps == ASSUME ExportOK(xp), ExportMenuConfirm PROVE ExportOK(xp')
<1> DEFINE i == xp.n + 1
           d == CapturedExport(xp.menu)
           c == [xp EXCEPT !.menu = NoMenu, !.slot = 0, !.n = i, !.exp[i] = d]
<1>1. /\ DOMAIN xp = XpParts /\ DOMAIN xp.exp = 1..XpExports /\ MenuFits(xp.menu)
      /\ xp.n \in Nat /\ xp.gen \in Nat /\ i \in 1..XpExports
      /\ xp.menu.open /\ xp.slot = 0
  BY XpAssumption DEF ExportMenuConfirm, ExportOK, Numbered, StreamFits, SlotFits
<1>2. xp' = IF fileExists(c.exp[i].file) THEN [c EXCEPT !.asked = i] ELSE dispatchExport(c, i) BY DEF ExportMenuConfirm
<1>3. d.stage = "asked" /\ ExportFits(xp.gen, xp.eof, d)
  <2>1. xp.menu.format \in 1..3 /\ xp.menu.path \in XpPaths BY <1>1 DEF MenuFits
  <2> DEFINE file == IF xp.menu.dest = 1 THEN <<xp.menu.path, xp.menu.format>> ELSE Clipboard
  <2>2. file \in XpFiles \cup {Clipboard} BY <2>1 DEF XpFiles
  <2>3. d = [NoExport EXCEPT !.stage = "asked", !.gen = xp.gen, !.scope = xp.menu.scope,
                             !.format = xp.menu.format, !.file = file]
    BY DEF CapturedExport
  <2> HIDE DEF d, file
  <2> QED BY <1>1, <2>1, <2>2, <2>3 DEF NoExport, ExportFits, ExportFields
<1> HIDE DEF d
<1>4. /\ Alters(xp, c, {"menu", "slot", "n", "exp"}) /\ c.menu = NoMenu /\ c.slot = 0 /\ c.n = i
      /\ DOMAIN c.exp = 1..XpExports /\ c.exp[i] = d
      /\ \A j \in 1..XpExports : j # i => c.exp[j] = xp.exp[j]
  BY <1>1 DEF Alters, XpParts
<1> HIDE DEF c
<1>5. /\ c.asked = xp.asked /\ c.gen = xp.gen /\ c.eof = xp.eof /\ c.loaded = xp.loaded
      /\ c.partial = xp.partial /\ c.disk = xp.disk /\ DOMAIN c = XpParts
  BY <1>4 DEF Alters, XpParts
<1>6. xp.exp[i].stage = "none" /\ xp.asked # i BY <1>1 DEF ExportOK, Numbered
<1>7. ExportOK(c)
  <2>1. Numbered(c) BY <1>1, <1>4, <1>5, <1>6 DEF ExportOK, Numbered
  <2>2. StreamFits(c) BY <1>3, <1>4, <1>5 DEF ExportOK, StreamFits
  <2>3. SlotFits(c) BY <1>1, <1>3, <1>4, NoMenuFits DEF ExportOK, SlotFits, Working
  <2>4. PartialFits(c) BY <1>1, <1>3, <1>4, <1>5, <1>6, NotWriting DEF ExportOK
  <2>5. DiskFits(c) BY <1>1, <1>4, <1>5, <1>6, SameDisk DEF ExportOK
  <2> QED BY <1>4, <1>5, <2>1, <2>2, <2>3, <2>4, <2>5, NoMenuFits, PartsKept DEF ExportOK
<1>8. CASE xp' = dispatchExport(c, i) BY <1>1, <1>3, <1>4, <1>5, <1>6, <1>7, <1>8, Dispatched
<1>9. CASE xp' = [c EXCEPT !.asked = i]
  <2> DEFINE r == xp'
  <2>1. Alters(c, r, {"asked"}) /\ r.asked = i /\ r.n = c.n /\ r.exp = c.exp BY <1>5, <1>9 DEF Alters, XpParts
  <2> HIDE DEF r
  <2>2. Numbered(r) BY <1>1, <1>3, <1>4, <1>7, <2>1 DEF ExportOK, Numbered
  <2>3. ExportOK(r) BY <1>7, <2>1, <2>2, PartsKept DEF ExportOK
  <2> QED BY <2>3 DEF r
<1> QED BY <1>2, <1>8, <1>9

LEMMA OverwriteKeeps == ASSUME ExportOK(xp), Overwrite PROVE ExportOK(xp')
<1> DEFINE i == xp.asked
<1>1. /\ DOMAIN xp = XpParts /\ DOMAIN xp.exp = 1..XpExports /\ xp.n \in Nat
      /\ i # 0 /\ i \in 1..XpExports /\ xp.exp[i].stage = "asked"
      /\ ExportFits(xp.gen, xp.eof, xp.exp[i])
  BY DEF Overwrite, ExportOK, Numbered, StreamFits
<1>2. CASE xp' = [dispatchExport(xp, i) EXCEPT !.asked = 0] BY <1>1, <1>2, Dispatched
<1>3. CASE xp' = [xp EXCEPT !.exp[i].stage = "failed", !.asked = 0]
  <2> DEFINE d == [xp.exp[i] EXCEPT !.stage = "failed"]
             r == xp'
  <2>1. d.stage = "failed" /\ ExportFits(xp.gen, xp.eof, d) BY <1>1 DEF ExportFits, ExportFields
  <2>2. /\ Alters(xp, r, {"exp", "asked"}) /\ r.asked = 0 /\ DOMAIN r.exp = 1..XpExports
        /\ r.exp[i] = d /\ \A j \in 1..XpExports : j # i => r.exp[j] = xp.exp[j]
    BY <1>1, <1>3 DEF Alters, XpParts
  <2> HIDE DEF d, r
  <2>3. /\ r.n = xp.n /\ r.gen = xp.gen /\ r.eof = xp.eof /\ r.loaded = xp.loaded
        /\ r.menu = xp.menu /\ r.slot = xp.slot /\ r.partial = xp.partial
        /\ r.disk = xp.disk
    BY <2>2 DEF Alters, XpParts
  <2>4. Numbered(r) BY <1>1, <2>2, <2>3 DEF ExportOK, Numbered
  <2>5. StreamFits(r) BY <2>1, <2>2, <2>3 DEF ExportOK, StreamFits
  <2>6. SlotFits(r) BY <2>1, <2>2, <2>3 DEF ExportOK, SlotFits, Working
  <2>7. PartialFits(r) BY <1>1, <2>1, <2>2, <2>3, NotWriting DEF ExportOK
  <2>9. DiskFits(r) BY <1>1, <2>2, <2>3, SameDisk DEF ExportOK
  <2>8. ExportOK(r) BY <2>2, <2>4, <2>5, <2>6, <2>7, <2>9, PartsKept DEF ExportOK
  <2> QED BY <2>8 DEF r
<1>4. \/ xp' = [dispatchExport(xp, i) EXCEPT !.asked = 0]
      \/ xp' = [xp EXCEPT !.exp[i].stage = "failed", !.asked = 0]
  BY DEF Overwrite
<1> HIDE DEF i
<1> QED BY <1>2, <1>3, <1>4

LEMMA TwoColumns == IsFiniteSet({1, 2})
<1>1. IsFiniteSet({} \cup {1}) BY FS_EmptySet, FS_AddElement
<1>2. IsFiniteSet(({} \cup {1}) \cup {2}) BY <1>1, FS_AddElement
<1>3. ({} \cup {1}) \cup {2} = {1, 2} OBVIOUS
<1> QED BY <1>2, <1>3

\* A column is hidden only while another one stays.
LEMMA OneColumnStays ==
    ASSUME NEW h, NEW c \in {1, 2}, SomeColumn(h), c \notin h, Cardinality(h) + 1 < Cardinality({1, 2})
    PROVE  SomeColumn(h \cup {c})
<1>1. IsFiniteSet(h) /\ IsFiniteSet({1, 2}) BY TwoColumns, FS_Subset DEF SomeColumn
<1>2. Cardinality(h \cup {c}) = Cardinality(h) + 1 /\ Cardinality(h) \in Nat BY <1>1, FS_AddElement, FS_CardinalityType
<1>3. Cardinality({1, 2}) \in Nat BY <1>1, FS_CardinalityType
<1>4. h \cup {c} # {1, 2} BY <1>2, <1>3
<1> QED BY <1>4 DEF SomeColumn

LEMMA OverlayKeeps ==
    ASSUME ExportOK(xp), HideOverlay \/ ExportHideToggle \/ ExportHideClose
    PROVE  ExportOK(xp')
<1> DEFINE r == xp'
<1>1. DOMAIN xp = XpParts /\ ColumnsFit(xp) BY DEF ExportOK
<1>2. CASE HideOverlay
  <2>1. xp' = [xp EXCEPT !.keys = @ + 1, !.overlay = <<TRUE, xp.hidden>>] BY <1>2 DEF HideOverlay
  <2>2. /\ Alters(xp, r, {"keys", "overlay"}) /\ r.overlay = <<TRUE, xp.hidden>>
        /\ r.cols = xp.cols /\ r.store = xp.store /\ r.hidden = xp.hidden
    BY <1>1, <2>1 DEF Alters, XpParts
  <2> HIDE DEF r
  <2>3. ColumnsFit(r) BY <1>1, <2>2 DEF ColumnsFit
  <2>4. ExportOK(r) BY <2>2, <2>3, PartsKept DEF ExportOK
  <2> QED BY <2>4 DEF r
<1>3. CASE ExportHideToggle
  <2> DEFINE h == xp.overlay[2]
  <2>1. PICK c \in xp.cols :
          xp' = [xp EXCEPT !.keys = @ + 1, !.overlay[2] = IF c \in h THEN h \ {c}
                              ELSE IF Cardinality(h) + 1 >= Cardinality(xp.cols) THEN h ELSE h \cup {c}]
    BY <1>3 DEF ExportHideToggle
  <2> DEFINE g == IF c \in h THEN h \ {c}
                  ELSE IF Cardinality(h) + 1 >= Cardinality(xp.cols) THEN h ELSE h \cup {c}
  <2>2. SomeColumn(g)
    <3>1. xp.cols = {1, 2} /\ SomeColumn(h) /\ c \in {1, 2} BY <1>1 DEF ColumnsFit
    <3>2. CASE c \in h BY <3>1, <3>2 DEF SomeColumn
    <3>3. CASE c \notin h /\ Cardinality(h) + 1 >= Cardinality(xp.cols) BY <3>1, <3>3
    <3>4. CASE c \notin h /\ ~(Cardinality(h) + 1 >= Cardinality(xp.cols))
      <4>1. Cardinality(h) + 1 < Cardinality({1, 2})
        <5>1. IsFiniteSet(h) /\ IsFiniteSet({1, 2}) BY <3>1, TwoColumns, FS_Subset DEF SomeColumn
        <5>2. Cardinality(h) \in Nat /\ Cardinality({1, 2}) \in Nat BY <5>1, FS_CardinalityType
        <5> HIDE DEF h
        <5> QED BY <3>1, <3>4, <5>2
      <4>2. SomeColumn(h \cup {c}) BY <3>1, <3>4, <4>1, OneColumnStays
      <4> QED BY <3>4, <4>2
    <3> QED BY <3>2, <3>3, <3>4
  <2>3. xp' = [xp EXCEPT !.keys = @ + 1, !.overlay[2] = g] BY <2>1
  <2> HIDE DEF g
  <2>4. /\ Alters(xp, r, {"keys", "overlay"}) /\ r.overlay = [xp.overlay EXCEPT ![2] = g]
        /\ r.cols = xp.cols /\ r.store = xp.store /\ r.hidden = xp.hidden
    BY <1>1, <2>3 DEF Alters, XpParts
  <2> HIDE DEF r
  <2>5. DOMAIN r.overlay = 1..2 /\ r.overlay[2] = g BY <1>1, <2>4 DEF ColumnsFit
  <2>6. ColumnsFit(r) BY <1>1, <2>2, <2>4, <2>5 DEF ColumnsFit
  <2>7. ExportOK(r) BY <2>4, <2>6, PartsKept DEF ExportOK
  <2> QED BY <2>7 DEF r
<1>4. CASE ExportHideClose
  <2>1. xp' = [xp EXCEPT !.overlay = <<FALSE, {}>>, !.hidden = xp.overlay[2], !.store = xp.overlay[2]]
    BY <1>4 DEF ExportHideClose
  <2>2. /\ Alters(xp, r, {"overlay", "hidden", "store"}) /\ r.overlay = <<FALSE, {}>>
        /\ r.cols = xp.cols /\ r.store = xp.overlay[2] /\ r.hidden = xp.overlay[2]
    BY <1>1, <2>1 DEF Alters, XpParts
  <2> HIDE DEF r
  <2>3. ColumnsFit(r) BY <1>1, <2>2 DEF ColumnsFit, SomeColumn
  <2>4. ExportOK(r) BY <2>2, <2>3, PartsKept DEF ExportOK
  <2> QED BY <2>4 DEF r
<1> QED BY <1>2, <1>3, <1>4

LEMMA ExportInit == XpInit => ExportOK(xp)
<1> SUFFICES ASSUME XpInit PROVE ExportOK(xp) OBVIOUS
<1>1. /\ DOMAIN XpStart = XpParts /\ XpStart.menu = NoMenu /\ Numbered(XpStart) /\ StreamFits(XpStart)
      /\ PartialFits(XpStart) /\ ColumnsFit(XpStart) /\ DiskFits(XpStart)
  <2>1. ExportFits(1, FALSE, NoExport) /\ NoExport.stage = "none"
    BY DEF ExportFits, ExportFields, NoExport, XpFiles, XpPaths
  <2>2. DOMAIN XpStart = XpParts /\ XpStart.menu = NoMenu BY DEF XpStart, XpParts
  <2>3. Numbered(XpStart) BY <2>1 DEF XpStart, Numbered
  <2>4. StreamFits(XpStart) BY <2>1 DEF XpStart, StreamFits
  <2>5. PartialFits(XpStart)
    <3>1. /\ DOMAIN XpStart.partial = XpFiles /\ \A f \in XpFiles : XpStart.partial[f] = 0
          /\ \A i \in 1..XpExports : XpStart.exp[i] = NoExport
      BY DEF XpStart
    <3> QED BY <2>1, <3>1 DEF PartialFits
  <2>6. ColumnsFit(XpStart) BY DEF XpStart, ColumnsFit, SomeColumn
  <2>7. DiskFits(XpStart) BY DEF XpStart, DiskFits
  <2> QED BY <2>2, <2>3, <2>4, <2>5, <2>6, <2>7
<1>2. XpStart.slot = 0 /\ \A i \in 1..XpExports : XpStart.exp[i].stage = "none" BY DEF XpStart, NoExport
<1>3. ExportOK(XpStart)
  <2>1. SlotFits(XpStart) BY <1>2 DEF SlotFits, Working
  <2> QED BY <1>1, <2>1, NoMenuFits DEF ExportOK
<1>4. ASSUME NEW r, NEW k, NEW m, r = [XpStart EXCEPT !.keys = k, !.menu = m], MenuFits(m) PROVE ExportOK(r)
  <2>1. Alters(XpStart, r, {"keys", "menu"}) /\ r.menu = m /\ r.slot = XpStart.slot /\ r.exp = XpStart.exp
    BY <1>1, <1>4 DEF Alters, XpParts
  <2>2. SlotFits(r) BY <1>2, <2>1 DEF SlotFits, Working
  <2> QED BY <1>3, <1>4, <2>1, <2>2, PartsKept DEF ExportOK
<1>5. CASE xp = XpStart BY <1>3, <1>5
<1>6. CASE \E f \in 1..2, c \in 1..2 : xp = [XpStart EXCEPT !.keys = XpKeys, !.menu = OpenMenu(3, f, c)]
  <2>1. PICK f \in 1..2, c \in 1..2 : xp = [XpStart EXCEPT !.keys = XpKeys, !.menu = OpenMenu(3, f, c)] BY <1>6
  <2>2. MenuFits(OpenMenu(3, f, c)) BY DEF OpenMenu, NoMenu, MenuFits, MenuFields, XpPaths
  <2> QED BY <1>4, <2>1, <2>2
<1>7. CASE xp = [XpStart EXCEPT !.keys = XpKeys - 1, !.menu = OpenMenu(2, 1, 0)]
  <2>1. MenuFits(OpenMenu(2, 1, 0)) BY DEF OpenMenu, NoMenu, MenuFits, MenuFields, XpPaths
  <2> QED BY <1>4, <1>7, <2>1
<1>8. CASE xp = [XpStart EXCEPT !.keys = XpKeys - 1, !.overlay = <<TRUE, {1}>>]
  <2>1. /\ Alters(XpStart, xp, {"keys", "overlay"}) /\ xp.overlay = <<TRUE, {1}>>
        /\ xp.cols = XpStart.cols /\ xp.store = XpStart.store /\ xp.hidden = XpStart.hidden
    BY <1>1, <1>8 DEF Alters, XpParts
  <2>2. ColumnsFit(xp) BY <1>1, <2>1 DEF ColumnsFit, SomeColumn
  <2> QED BY <1>3, <2>1, <2>2, PartsKept DEF ExportOK
<1> QED BY <1>5, <1>6, <1>7, <1>8 DEF XpInit

LEMMA ExportStepKeeps == ASSUME ExportOK(xp), XpNext PROVE ExportOK(xp')
BY StreamKeeps, PromptKeeps, PathKeeps, MenuCancelKeeps, ConfirmKeeps, OverwriteKeeps, FieldKeeps,
   ValueKeeps, SourceKeeps, DestKeeps, WriteKeeps, OverlayKeeps DEF XpNext

LEMMA ExportTrue == ASSUME ExportOK(xp) PROVE ExportTruth
<1>1. ASSUME NEW i \in 1..XpExports
      PROVE  LET e == xp.exp[i] IN
             /\ e.stage \in {"source", "writing", "done"} => e.from = e.gen /\ (e.scope = 2 => e.take = XpRows)
             /\ e.stage = "done" => e.put = e.take /\ e.format # 0
             /\ e.stage = "writing" /\ e.file # Clipboard <=> \E f \in XpFiles : xp.partial[f] = i
  <2>1. ExportFits(xp.gen, xp.eof, xp.exp[i]) /\ PartialFits(xp) BY DEF ExportOK, StreamFits
  <2> QED BY <2>1, ClipboardIsNoFile DEF ExportFits, PartialFits
<1>2. \A i \in RunningExports : ~xp.exp[i].cancelled => xp.slot = i BY DEF ExportOK, SlotFits, RunningExports, Working
<1>3. xp.menu.format # xp.menu.disabled /\ (xp.menu.field = 2 => xp.menu.dest = 1) BY DEF ExportOK, MenuFits
<1>4. xp.hidden # xp.cols BY DEF ExportOK, ColumnsFit, SomeColumn
<1>5. DiskFits(xp) BY DEF ExportOK
<1> QED BY <1>1, <1>2, <1>3, <1>4, <1>5 DEF ExportTruth, DiskFits

\* Whatever the user does in the export menu, and whatever tab work and exports do meanwhile,
\* what an export takes and what its file holds is of the stream it was confirmed on, an
\* export that asked for all rows has them all, its partial file exists as long as it
\* writes, and it is in the slot that a cancel reads until somebody cancels it.
THEOREM ExportTheorem == XpSpec => []ExportTruth
<1>1. XpInit => ExportOK(xp) BY ExportInit
<1>2. ExportOK(xp) /\ [XpNext]_xp => ExportOK(xp)'
  <2>1. CASE XpNext BY <2>1, ExportStepKeeps
  <2>2. CASE UNCHANGED xp BY <2>2
  <2> QED BY <2>1, <2>2
<1>3. ExportOK(xp) => ExportTruth BY ExportTrue
<1> QED BY <1>1, <1>2, <1>3, PTL DEF XpSpec

-----------------------------------------
\* The result tabs (ResultTabs). What a tab shows is tied to its run by the
\* generation its stream was started with: a batch or a completion carries
\* the generation it was sent under, and a run in flight belongs to one
\* tab. What was posted for a closed tab is gone with it.

RtParts == {"open", "tab", "active", "n", "conn", "tasks", "ui", "done", "eof", "dir", "nav", "jumps",
            "cursor", "keys"}
TabFields == {"slot", "state", "pinned", "cancelled", "complete", "disposed", "gen", "egen", "run", "rows",
              "edit", "wait", "sort", "shown"}
Shape(s) ==
    /\ DOMAIN s = RtParts /\ DOMAIN s.tab = RtIds /\ DOMAIN s.dir = RtIds
    /\ \A i \in RtIds : DOMAIN s.tab[i] = TabFields
    /\ s.n \in 0..RtRuns /\ s.open \subseteq 1..s.n /\ s.done \subseteq 1..s.n
    /\ \A r \in RtIds : r > s.n => s.dir[r] = 0
TabFits(n, dir, done, t) ==
    /\ t.gen \in Nat /\ t.egen \in Nat /\ t.run \in 0..n /\ ~t.disposed
    /\ t.rows \subseteq {t.run} /\ (t.run = 0 => t.rows = {}) /\ t.edit \in {0, t.run}
    /\ t.run # 0 => t.shown = dir[t.run]
    /\ t.gen = 0 => t.shown = 0
    /\ t.run # 0 /\ t.gen = 0 => t.run \notin done
    /\ t.wait # 0 => t.gen = 0 /\ t.run # 0
TabsFit(s) ==
    /\ \A i \in s.open : TabFits(s.n, s.dir, s.done, s.tab[i])
    /\ \A i \in RtIds \ s.open : s.tab[i].wait = 0
    /\ \A i, j \in s.open : s.tab[i].run = s.tab[j].run => i = j \/ s.tab[i].run = 0
TasksFit(s) ==
    \A t \in s.tasks :
      /\ t.tab \in s.open
      /\ t = [tab |-> t.tab, gen |-> s.tab[t.tab].gen, run |-> s.tab[t.tab].run]
      /\ s.tab[t.tab].gen # 0 /\ s.tab[t.tab].run # 0 /\ s.tab[t.tab].run \notin s.done
EventFits(n, e, t) ==
    /\ e.kind \in {"append", "flip", "edit", "resume"}
    /\ e.kind = "append" => e.gen \in Nat /\ e.gen <= t.gen /\ e.run \in 1..n /\ (e.gen = t.gen => e.run = t.run)
    /\ e.kind = "edit" => e.gen \in Nat /\ e.gen <= t.egen /\ (e.gen = t.egen => e.run = t.run)
    /\ e.kind = "resume" => /\ e = [kind |-> "resume", tab |-> e.tab]
                            /\ t.gen = 0 /\ t.wait = 0 /\ t.run # 0
UIFits(s) == \A e \in s.ui : e.tab \in s.open /\ EventFits(s.n, e, s.tab[e.tab])
FlowFits(s) == \A i \in s.open : s.tab[i].state \in Flowing =>
    \/ \E t \in s.tasks : t.tab = i /\ t.gen = s.tab[i].gen
    \/ \E e \in s.ui : e.kind = "flip" /\ e.tab = i /\ e.gen = s.tab[i].gen
NavFits(s) ==
    /\ DOMAIN s.nav = {"stage", "kind", "tab", "egen", "targets", "dir"}
    /\ s.nav.stage # "none" => /\ s.nav.tab \in s.open
                               /\ s.nav.kind = "sort" => /\ s.tab[s.nav.tab].gen # 0
                                                         /\ s.tab[s.nav.tab].sort = s.nav.dir
SlotsFit(s) ==
    /\ \A i \in s.open : s.tab[i].slot \in 0..RtMax - 1
    /\ \A i, j \in s.open : s.tab[i].slot = s.tab[j].slot => i = j
    /\ Cardinality(s.open) <= RtMax
ActiveFits(s) == (s.active = 0 <=> s.open = {}) /\ s.active \in s.open \cup {0}
JumpsFit(s) == s.jumps \in Seq(s.open) /\ s.cursor \in 0..Len(s.jumps)
TabsOK(s) == /\ Shape(s) /\ TabsFit(s) /\ TasksFit(s) /\ UIFits(s) /\ FlowFits(s) /\ NavFits(s)
             /\ SlotsFit(s) /\ ActiveFits(s) /\ JumpsFit(s)

\* A state that differs from another in the parts F alone.
Changes(s, r, F) == DOMAIN r = RtParts /\ \A f \in RtParts \ F : r[f] = s[f]

LEMMA PiecesKept ==
    ASSUME NEW s, NEW r, NEW F, TabsOK(s), Changes(s, r, F)
    PROVE  /\ DOMAIN r = RtParts
           /\ "open" \notin F /\ "tab" \notin F /\ "n" \notin F /\ "done" \notin F /\ "dir" \notin F
                => Shape(r) /\ TabsFit(r)
           /\ "open" \notin F /\ "tab" \notin F /\ "tasks" \notin F /\ "done" \notin F => TasksFit(r)
           /\ "open" \notin F /\ "tab" \notin F /\ "n" \notin F /\ "ui" \notin F => UIFits(r)
           /\ "open" \notin F /\ "tab" \notin F /\ "tasks" \notin F /\ "ui" \notin F => FlowFits(r)
           /\ "open" \notin F /\ "tab" \notin F /\ "nav" \notin F => NavFits(r)
           /\ "open" \notin F /\ "tab" \notin F => SlotsFit(r)
           /\ "open" \notin F /\ "active" \notin F => ActiveFits(r)
           /\ "open" \notin F /\ "jumps" \notin F /\ "cursor" \notin F => JumpsFit(r)
<1> USE DEF Changes, RtParts
<1>1. ASSUME "open" \notin F, "tab" \notin F, "n" \notin F, "done" \notin F, "dir" \notin F
      PROVE  Shape(r) /\ TabsFit(r)
  <2>1. r.open = s.open /\ r.tab = s.tab /\ r.n = s.n /\ r.done = s.done /\ r.dir = s.dir BY <1>1
  <2>2. Shape(s) /\ TabsFit(s) BY DEF TabsOK
  <2> QED BY <2>1, <2>2 DEF Shape, TabsFit
<1>2. ASSUME "open" \notin F, "tab" \notin F, "tasks" \notin F, "done" \notin F PROVE TasksFit(r)
  <2>1. r.open = s.open /\ r.tab = s.tab /\ r.tasks = s.tasks /\ r.done = s.done BY <1>2
  <2> QED BY <2>1 DEF TabsOK, TasksFit
<1>3. ASSUME "open" \notin F, "tab" \notin F, "n" \notin F, "ui" \notin F PROVE UIFits(r)
  <2>1. r.open = s.open /\ r.tab = s.tab /\ r.n = s.n /\ r.ui = s.ui BY <1>3
  <2> QED BY <2>1 DEF TabsOK, UIFits
<1>4. ASSUME "open" \notin F, "tab" \notin F, "tasks" \notin F, "ui" \notin F PROVE FlowFits(r)
  <2>1. r.open = s.open /\ r.tab = s.tab /\ r.tasks = s.tasks /\ r.ui = s.ui BY <1>4
  <2> QED BY <2>1 DEF TabsOK, FlowFits
<1>5. ASSUME "open" \notin F, "tab" \notin F, "nav" \notin F PROVE NavFits(r)
  <2>1. r.open = s.open /\ r.tab = s.tab /\ r.nav = s.nav BY <1>5
  <2> QED BY <2>1 DEF TabsOK, NavFits
<1>6. ASSUME "open" \notin F, "tab" \notin F PROVE SlotsFit(r)
  <2>1. r.open = s.open /\ r.tab = s.tab BY <1>6
  <2> QED BY <2>1 DEF TabsOK, SlotsFit
<1>7. ASSUME "open" \notin F, "active" \notin F PROVE ActiveFits(r)
  <2>1. r.open = s.open /\ r.active = s.active BY <1>7
  <2> QED BY <2>1 DEF TabsOK, ActiveFits
<1>8. ASSUME "open" \notin F, "jumps" \notin F, "cursor" \notin F PROVE JumpsFit(r)
  <2>1. r.open = s.open /\ r.jumps = s.jumps /\ r.cursor = s.cursor BY <1>8
  <2> QED BY <2>1 DEF TabsOK, JumpsFit
<1> QED BY <1>1, <1>2, <1>3, <1>4, <1>5, <1>6, <1>7, <1>8

LEMMA Numbers ==
    ASSUME NEW s, TabsOK(s)
    PROVE  /\ s.n \in Nat /\ RtRuns \in Nat /\ s.open \subseteq RtIds /\ s.open \subseteq Nat \ {0}
           /\ s.open \subseteq 1..s.n /\ IsFiniteSet(s.open)
<1>1. s.n \in 0..RtRuns /\ RtRuns \in Nat /\ s.open \subseteq 1..s.n BY RtAssumption DEF TabsOK, Shape
<1>2. IsFiniteSet(1..s.n) BY <1>1, FS_Interval
<1>3. IsFiniteSet(s.open) BY <1>1, <1>2, FS_Subset
<1> QED BY <1>1, <1>3 DEF RtIds

\* Tabs change in what the invariant does not read, gain rows or an answer of their own
\* run, or stop flowing; an event may have been served.
TabStays(t, u) ==
    /\ DOMAIN u = TabFields
    /\ \A f \in {"slot", "disposed", "gen", "egen", "run", "shown"} : u[f] = t[f]
    /\ u.rows \subseteq t.rows \cup {t.run} /\ (t.run = 0 => u.rows = t.rows)
    /\ u.edit \in {t.edit, t.run} /\ u.wait \in {t.wait, 0}
    /\ u.state \in Flowing => t.state \in Flowing

LEMMA TabsTouched ==
    ASSUME NEW s, NEW r, TabsOK(s), Changes(s, r, {"tab", "ui", "nav", "keys"}), DOMAIN r.tab = RtIds,
           \A i \in RtIds : TabStays(s.tab[i], r.tab[i]),
           NavFits(r) \/ (r.nav = s.nav /\ \A i \in RtIds : r.tab[i].sort = s.tab[i].sort),
           \/ r.ui = s.ui
           \/ \E e \in s.ui : /\ r.ui = s.ui \ {e}
                              /\ e.kind = "flip" /\ e.gen = s.tab[e.tab].gen
                                   => r.tab[e.tab].state \notin Flowing
    PROVE  TabsOK(r)
<1>1. \A i \in RtIds :
        LET t == s.tab[i]
            u == r.tab[i]
        IN  /\ u.slot = t.slot /\ u.disposed = t.disposed /\ u.gen = t.gen /\ u.egen = t.egen /\ u.run = t.run
            /\ u.rows \subseteq t.rows \cup {t.run} /\ (t.run = 0 => u.rows = t.rows)
            /\ u.edit \in {t.edit, t.run} /\ u.wait \in {t.wait, 0}
            /\ u.shown = t.shown /\ DOMAIN u = TabFields /\ (u.state \in Flowing => t.state \in Flowing)
  BY DEF TabStays
<1>2. /\ r.open = s.open /\ r.n = s.n /\ r.done = s.done /\ r.dir = s.dir /\ r.tasks = s.tasks
      /\ DOMAIN r = RtParts /\ r.ui \subseteq s.ui
  BY DEF Changes, RtParts
<1>3. s.open \subseteq RtIds BY Numbers
<1>4. Shape(r) BY <1>1, <1>2 DEF TabsOK, Shape
<1>5. TabsFit(r)
  <2>1. ASSUME NEW i \in r.open PROVE TabFits(r.n, r.dir, r.done, r.tab[i])
    <3>1. TabFits(s.n, s.dir, s.done, s.tab[i]) BY <1>2 DEF TabsOK, TabsFit
    <3> QED BY <1>1, <1>2, <1>3, <3>1 DEF TabFits
  <2>2. \A i \in RtIds \ r.open : r.tab[i].wait = 0 BY <1>1, <1>2 DEF TabsOK, TabsFit
  <2>3. \A i, j \in r.open : r.tab[i].run = r.tab[j].run => i = j \/ r.tab[i].run = 0
    BY <1>1, <1>2, <1>3 DEF TabsOK, TabsFit
  <2> QED BY <2>1, <2>2, <2>3 DEF TabsFit
<1>6. TasksFit(r) BY <1>1, <1>2, <1>3 DEF TabsOK, TasksFit
<1>7. UIFits(r)
  <2>1. ASSUME NEW e \in r.ui PROVE e.tab \in r.open /\ EventFits(r.n, e, r.tab[e.tab])
    <3>1. e.tab \in s.open /\ EventFits(s.n, e, s.tab[e.tab]) /\ e.tab \in RtIds BY <1>2, <1>3 DEF TabsOK, UIFits
    <3>2. /\ r.tab[e.tab].gen = s.tab[e.tab].gen /\ r.tab[e.tab].egen = s.tab[e.tab].egen
          /\ r.tab[e.tab].run = s.tab[e.tab].run /\ r.tab[e.tab].wait \in {s.tab[e.tab].wait, 0}
      BY <1>1, <3>1
    <3> QED BY <1>2, <3>1, <3>2 DEF EventFits
  <2> QED BY <2>1 DEF UIFits
<1>8. FlowFits(r)
  <2> SUFFICES ASSUME NEW i \in r.open, r.tab[i].state \in Flowing
               PROVE  \/ \E t \in r.tasks : t.tab = i /\ t.gen = r.tab[i].gen
                      \/ \E e \in r.ui : e.kind = "flip" /\ e.tab = i /\ e.gen = r.tab[i].gen
    BY DEF FlowFits
  <2>1. i \in s.open /\ s.tab[i].state \in Flowing /\ r.tab[i].gen = s.tab[i].gen BY <1>1, <1>2, <1>3
  <2>2. CASE \E t \in s.tasks : t.tab = i /\ t.gen = s.tab[i].gen BY <1>2, <2>1, <2>2
  <2>3. CASE \E e \in s.ui : e.kind = "flip" /\ e.tab = i /\ e.gen = s.tab[i].gen
    <3>1. PICK e \in s.ui : e.kind = "flip" /\ e.tab = i /\ e.gen = s.tab[i].gen BY <2>3
    <3>2. e \in r.ui BY <3>1
    <3> QED BY <2>1, <3>1, <3>2
  <2> QED BY <2>1, <2>2, <2>3 DEF TabsOK, FlowFits
<1>9. NavFits(r)
  <2>1. ASSUME r.nav = s.nav, \A i \in RtIds : r.tab[i].sort = s.tab[i].sort PROVE NavFits(r)
    BY <1>1, <1>2, <1>3, <2>1 DEF TabsOK, NavFits
  <2> QED BY <2>1
<1>10. SlotsFit(r) BY <1>1, <1>2, <1>3 DEF TabsOK, SlotsFit
<1>11. ActiveFits(r) /\ JumpsFit(r) BY PiecesKept
<1> QED BY <1>4, <1>5, <1>6, <1>7, <1>8, <1>9, <1>10, <1>11 DEF TabsOK

\* A task is the last stream of its tab, so it is known by its tab and by its run.
LEMMA TaskKnown ==
    ASSUME NEW s, TabsOK(s), NEW t \in s.tasks
    PROVE  /\ t.tab \in s.open /\ t.tab \in RtIds /\ t.gen = s.tab[t.tab].gen /\ t.run = s.tab[t.tab].run
           /\ t.gen # 0 /\ t.gen \in Nat /\ t.run \in 1..s.n /\ t.run \notin s.done
           /\ \A i \in s.open : s.tab[i].run = t.run => i = t.tab
           /\ \A u \in s.tasks : u.run = t.run \/ u.tab = t.tab => u = t
<1> DEFINE rec(i) == [tab |-> i, gen |-> s.tab[i].gen, run |-> s.tab[i].run]
<1>1. \A u \in s.tasks : /\ u.tab \in s.open /\ u = rec(u.tab)
                         /\ s.tab[u.tab].gen # 0 /\ s.tab[u.tab].run # 0 /\ s.tab[u.tab].run \notin s.done
  BY DEF TabsOK, TasksFit
<1>2. \A u \in s.tasks : u.gen = s.tab[u.tab].gen /\ u.run = s.tab[u.tab].run BY <1>1
<1> HIDE DEF rec
<1>3. \A i \in s.open : s.tab[i].run = t.run => i = t.tab BY <1>1, <1>2 DEF TabsOK, TabsFit
<1>4. \A u \in s.tasks : u.run = t.run \/ u.tab = t.tab => u = t BY <1>1, <1>2, <1>3
<1>5. s.tab[t.tab].gen \in Nat /\ s.tab[t.tab].run \in 0..s.n /\ s.n \in Nat
  BY <1>1, Numbers DEF TabsOK, TabsFit, TabFits
<1> QED BY <1>1, <1>2, <1>3, <1>4, <1>5, Numbers

\* Streams end: each posts its completion, and its run is done.
LEMMA StreamsEnd ==
    ASSUME NEW s, NEW r, NEW ts, NEW err, TabsOK(s), ts \subseteq s.tasks,
           Changes(s, r, {"tasks", "ui", "done", "eof", "keys"}),
           r.tasks = s.tasks \ ts, r.ui = s.ui \cup {Flip(t, err) : t \in ts},
           r.done = s.done \cup {t.run : t \in ts}
    PROVE  TabsOK(r)
<1>1. /\ r.open = s.open /\ r.tab = s.tab /\ r.n = s.n /\ r.dir = s.dir /\ DOMAIN r = RtParts BY DEF Changes, RtParts
<1>2. \A t \in ts :
        /\ t.tab \in s.open /\ t.gen = s.tab[t.tab].gen /\ t.run = s.tab[t.tab].run
        /\ t.gen # 0 /\ t.run \in 1..s.n
        /\ \A i \in s.open : s.tab[i].run = t.run => i = t.tab
        /\ \A u \in s.tasks : u.run = t.run => u = t
  BY TaskKnown
<1>3. Shape(r) BY <1>1, <1>2 DEF TabsOK, Shape
<1>4. TabsFit(r)
  <2>1. ASSUME NEW i \in s.open PROVE TabFits(r.n, r.dir, r.done, r.tab[i])
    <3>1. TabFits(s.n, s.dir, s.done, s.tab[i]) BY <2>1 DEF TabsOK, TabsFit
    <3>2. s.tab[i].run # 0 /\ s.tab[i].gen = 0 => s.tab[i].run \notin r.done
      <4>1. \A t \in ts : s.tab[i].run = t.run => s.tab[i].gen # 0 BY <1>2
      <4> QED BY <3>1, <4>1 DEF TabFits
    <3> QED BY <1>1, <3>1, <3>2 DEF TabFits
  <2> QED BY <1>1, <2>1 DEF TabsOK, TabsFit
<1>5. TasksFit(r)
  <2>1. ASSUME NEW u \in r.tasks PROVE s.tab[u.tab].run \notin r.done
    <3>1. u \in s.tasks /\ u \notin ts BY <2>1
    <3>2. u.run = s.tab[u.tab].run /\ u.run \notin s.done BY <3>1, TaskKnown
    <3> QED BY <1>2, <3>1, <3>2
  <2> QED BY <1>1, <2>1 DEF TabsOK, TasksFit
<1>6. \A t \in ts : LET e == Flip(t, err) IN e.kind = "flip" /\ e.tab = t.tab /\ e.gen = t.gen BY DEF Flip
<1>7. UIFits(r)
  <2>1. ASSUME NEW e \in r.ui PROVE e.tab \in r.open /\ EventFits(r.n, e, r.tab[e.tab])
    <3>1. CASE e \in s.ui BY <1>1, <3>1 DEF TabsOK, UIFits
    <3>2. CASE e \notin s.ui
      <4>1. PICK t \in ts : e = Flip(t, err) BY <2>1, <3>2
      <4>2. e.kind = "flip" /\ e.tab = t.tab BY <1>6, <4>1
      <4> QED BY <1>1, <1>2, <4>2 DEF EventFits
    <3> QED BY <3>1, <3>2
  <2> QED BY <2>1 DEF UIFits
<1>8. FlowFits(r)
  <2>1. ASSUME NEW i \in r.open, r.tab[i].state \in Flowing
        PROVE  \/ \E t \in r.tasks : t.tab = i /\ t.gen = r.tab[i].gen
               \/ \E e \in r.ui : e.kind = "flip" /\ e.tab = i /\ e.gen = r.tab[i].gen
    <3>1. CASE \E t \in s.tasks : t.tab = i /\ t.gen = s.tab[i].gen
      <4>1. PICK t \in s.tasks : t.tab = i /\ t.gen = s.tab[i].gen BY <3>1
      <4>2. CASE t \in ts
        <5>1. Flip(t, err) \in r.ui BY <4>2
        <5> QED BY <1>1, <1>6, <4>1, <4>2, <5>1
      <4>3. CASE t \notin ts BY <1>1, <4>1, <4>3
      <4> QED BY <4>2, <4>3
    <3>2. CASE ~ \E t \in s.tasks : t.tab = i /\ t.gen = s.tab[i].gen
      <4>1. \E e \in s.ui : e.kind = "flip" /\ e.tab = i /\ e.gen = s.tab[i].gen
        BY <1>1, <2>1, <3>2 DEF TabsOK, FlowFits
      <4> QED BY <1>1, <4>1
    <3> QED BY <3>1, <3>2
  <2> QED BY <2>1 DEF FlowFits
<1>9. NavFits(r) /\ SlotsFit(r) /\ ActiveFits(r) /\ JumpsFit(r) BY PiecesKept
<1> QED BY <1>3, <1>4, <1>5, <1>7, <1>8, <1>9 DEF TabsOK

LEMMA StreamsStop ==
    ASSUME NEW s, NEW T, NEW err, TabsOK(s)
    PROVE  LET r == StopStreams(s, T, err) IN
           /\ TabsOK(r) /\ Changes(s, r, {"tasks", "ui", "done"})
           /\ r.tasks = {t \in s.tasks : t.tab \notin T}
           /\ s.tasks = {} => r.done = s.done
<1> DEFINE ts == {t \in s.tasks : t.tab \in T}
           r == StopStreams(s, T, err)
<1>1. DOMAIN s = RtParts BY DEF TabsOK, Shape
<1>2. /\ Changes(s, r, {"tasks", "ui", "done"})
      /\ r.tasks = s.tasks \ ts /\ r.ui = s.ui \cup {Flip(t, err) : t \in ts}
      /\ r.done = s.done \cup {t.run : t \in ts}
  BY <1>1 DEF StopStreams, Changes, RtParts
<1> HIDE DEF r
<1>3. Changes(s, r, {"tasks", "ui", "done", "eof", "keys"}) BY <1>2 DEF Changes
<1>4. TabsOK(r)
  <2>1. ts \subseteq s.tasks OBVIOUS
  <2> HIDE DEF ts
  <2> QED BY <1>2, <1>3, <2>1, StreamsEnd
<1>5. r.tasks = {t \in s.tasks : t.tab \notin T} /\ (s.tasks = {} => r.done = s.done) BY <1>2
<1> QED BY <1>2, <1>4, <1>5 DEF r

\* Tabs are disposed: no stream, event or wait of theirs is left.
LEMMA Disposed ==
    ASSUME NEW s, NEW r, NEW T, TabsOK(s), T \subseteq s.open,
           Changes(dispose(s, T), r, {"open", "active", "nav", "jumps", "cursor", "conn", "keys"}),
           r.open = s.open \ T, r.nav = RtNoNav, ActiveFits(r), JumpsFit(r)
    PROVE  TabsOK(r) /\ r.n = s.n /\ r.dir = s.dir /\ (s.tasks = {} => r.tasks = {} /\ r.done = s.done)
<1> DEFINE q == StopStreams(s, T, FALSE)
           us == {e \in q.ui : e.tab \notin T}
           tb == [i \in RtIds |-> IF i \in T THEN [RtNoTab EXCEPT !.disposed = TRUE] ELSE q.tab[i]]
           d == [q EXCEPT !.ui = us, !.tab = tb]
<1>1. /\ TabsOK(q) /\ Changes(s, q, {"tasks", "ui", "done"})
      /\ q.tasks = {t \in s.tasks : t.tab \notin T} /\ (s.tasks = {} => q.done = s.done)
  BY StreamsStop
<1>2. dispose(s, T) = d
  <2>1. DOMAIN q = RtParts BY <1>1 DEF Changes
  <2> HIDE DEF q
  <2>2. [q EXCEPT !.ui = {e \in @ : e.tab \notin T},
                  !.tab = [i \in RtIds |-> IF i \in T THEN [RtNoTab EXCEPT !.disposed = TRUE] ELSE @[i]]] = d
    BY <2>1 DEF RtParts
  <2> QED BY <2>2 DEF dispose, q
<1> HIDE DEF q, us, tb
<1>3. DOMAIN q = RtParts /\ q.open = s.open /\ q.n = s.n /\ q.dir = s.dir BY <1>1 DEF Changes, RtParts
<1>4. /\ DOMAIN d = RtParts /\ d.ui = us /\ d.tab = tb /\ d.n = q.n /\ d.dir = q.dir
      /\ d.tasks = q.tasks /\ d.done = q.done
  BY <1>3 DEF RtParts
<1> HIDE DEF d
<1>5. /\ DOMAIN r = RtParts /\ r.ui = us /\ r.tab = tb /\ r.n = q.n /\ r.dir = q.dir
      /\ r.tasks = q.tasks /\ r.done = q.done
  BY <1>2, <1>4 DEF Changes, RtParts
<1>6. /\ DOMAIN tb = RtIds /\ \A i \in RtIds \ T : tb[i] = q.tab[i]
      /\ \A i \in T : DOMAIN tb[i] = TabFields /\ tb[i].wait = 0
      /\ r.open \subseteq RtIds \ T /\ T \subseteq RtIds /\ r.open \subseteq q.open
  <2>1. s.open \subseteq RtIds BY Numbers
  <2> QED BY <1>3, <2>1 DEF tb, RtNoTab, TabFields
<1>7. Shape(r) BY <1>1, <1>5, <1>6 DEF TabsOK, Shape
<1>8. TabsFit(r) BY <1>1, <1>3, <1>5, <1>6 DEF TabsOK, TabsFit
<1>9. TasksFit(r) BY <1>1, <1>3, <1>5, <1>6 DEF TabsOK, TasksFit
<1>10. UIFits(r) BY <1>1, <1>3, <1>5, <1>6 DEF TabsOK, UIFits, us
<1>11. FlowFits(r)
  <2> SUFFICES ASSUME NEW i \in r.open, r.tab[i].state \in Flowing
               PROVE  \/ \E t \in r.tasks : t.tab = i /\ t.gen = r.tab[i].gen
                      \/ \E e \in r.ui : e.kind = "flip" /\ e.tab = i /\ e.gen = r.tab[i].gen
    BY DEF FlowFits
  <2>1. i \in q.open /\ i \notin T /\ r.tab[i] = q.tab[i] BY <1>5, <1>6
  <2>2. \/ \E t \in q.tasks : t.tab = i /\ t.gen = q.tab[i].gen
        \/ \E e \in q.ui : e.kind = "flip" /\ e.tab = i /\ e.gen = q.tab[i].gen
    BY <1>1, <2>1 DEF TabsOK, FlowFits
  <2> QED BY <1>5, <2>1, <2>2 DEF us
<1>12. NavFits(r) BY DEF NavFits, RtNoNav
<1>13. SlotsFit(r)
  <2>1. IsFiniteSet(s.open) BY Numbers
  <2>2. Cardinality(r.open) <= Cardinality(s.open) /\ Cardinality(r.open) \in Nat /\ Cardinality(s.open) \in Nat
    <3>1. r.open \subseteq s.open OBVIOUS
    <3> QED BY <2>1, <3>1, FS_Subset, FS_CardinalityType
  <2>3. Cardinality(s.open) <= RtMax /\ RtMax \in Nat BY RtAssumption DEF TabsOK, SlotsFit
  <2>4. Cardinality(r.open) <= RtMax BY <2>2, <2>3
  <2> QED BY <1>1, <1>5, <1>6, <2>4 DEF TabsOK, SlotsFit
<1> QED BY <1>1, <1>3, <1>5, <1>7, <1>8, <1>9, <1>10, <1>11, <1>12, <1>13 DEF TabsOK

\* The jumps kept, jump after jump.
KeptJumps(jumps, i, n, f) ==
    f = [k \in 0..n |->
          IF k = 0 THEN <<>> ELSE IF jumps[k] = i THEN f[k - 1] ELSE Append(f[k - 1], jumps[k])]

LEMMA LeastOf ==
    ASSUME NEW S \in SUBSET Nat, S # {}
    PROVE  \E p \in S : \A q \in S : p <= q
<1>1. PICK p \in S : \A q \in S : ~(<<q, p>> \in OpToRel(<, Nat)) BY NatLessThanWellFounded, WFMin
<1>2. \A q \in S : ~(q < p) BY <1>1 DEF OpToRel
<1> QED BY <1>2

\* The list exists for every length: the shortest for which it did not would extend one.
LEMMA KeptExists ==
    ASSUME NEW jumps, NEW i, NEW n \in Nat
    PROVE  \E f : KeptJumps(jumps, i, n, f)
<1> DEFINE Bad == {k \in Nat : ~ \E f : KeptJumps(jumps, i, k, f)}
           next(f, k) == IF jumps[k] = i THEN f[k - 1] ELSE Append(f[k - 1], jumps[k])
<1> SUFFICES ASSUME Bad # {} PROVE FALSE OBVIOUS
<1>1. PICK k \in Bad : \A j \in Bad : k <= j BY LeastOf
<1>2. CASE k = 0
  <2> DEFINE f == [j \in 0..0 |-> <<>>]
  <2>1. f = [j \in 0..0 |-> IF j = 0 THEN <<>> ELSE next(f, j)] OBVIOUS
  <2>2. KeptJumps(jumps, i, 0, f) BY <2>1 DEF KeptJumps
  <2> QED BY <1>1, <1>2, <2>2
<1>3. CASE k # 0
  <2>1. k - 1 \in Nat /\ k \in Nat /\ ~(k <= k - 1) BY <1>1, <1>3
  <2>2. PICK f : KeptJumps(jumps, i, k - 1, f) BY <1>1, <2>1
  <2> DEFINE h == [j \in 0..k |-> IF j = k THEN next(f, k) ELSE f[j]]
  <2>3. ASSUME NEW j \in 0..(k - 1) PROVE f[j] = IF j = 0 THEN <<>> ELSE next(f, j) BY <2>1, <2>2, <2>3 DEF KeptJumps
  <2>4. ASSUME NEW j \in 0..k PROVE h[j] = IF j = 0 THEN <<>> ELSE next(h, j)
    <3>1. CASE j = k
      <4>1. h[j] = next(f, k) /\ h[k - 1] = f[k - 1] BY <2>1, <3>1
      <4> QED BY <1>3, <3>1, <4>1
    <3>2. CASE j # k
      <4>1. h[j] = f[j] /\ j \in 0..(k - 1) /\ (j # 0 => h[j - 1] = f[j - 1]) BY <2>1, <2>4, <3>2
      <4> QED BY <2>3, <4>1
    <3> QED BY <3>1, <3>2
  <2>5. h = [j \in 0..k |-> h[j]] OBVIOUS
  <2> HIDE DEF h
  <2>6. h = [j \in 0..k |-> IF j = 0 THEN <<>> ELSE next(h, j)] BY <2>4, <2>5
  <2>7. KeptJumps(jumps, i, k, h) BY <2>6 DEF KeptJumps
  <2> QED BY <1>1, <2>7
<1> QED BY <1>2, <1>3

\* The jumps kept are jumps that do not name the tab, and longer prefixes keep no fewer.
LEMMA KeptFacts ==
    ASSUME NEW S, NEW jumps \in Seq(S), NEW i, NEW f, KeptJumps(jumps, i, Len(jumps), f),
           NEW k \in 0..Len(jumps)
    PROVE  f[k] \in Seq(S \ {i}) /\ Len(f[k]) <= Len(f[Len(jumps)])
<1> DEFINE n == Len(jumps)
           R == S \ {i}
<1>0. n \in Nat /\ \A j \in 1..n : jumps[j] \in S OBVIOUS
<1>1. ASSUME NEW j \in 0..n
      PROVE  f[j] = IF j = 0 THEN <<>> ELSE IF jumps[j] = i THEN f[j - 1] ELSE Append(f[j - 1], jumps[j])
  BY <1>1 DEF KeptJumps
<1>2. \A j \in 0..n : f[j] \in Seq(R)
  <2> DEFINE Bad == {j \in 0..n : f[j] \notin Seq(R)}
  <2> SUFFICES ASSUME Bad # {} PROVE FALSE OBVIOUS
  <2>1. PICK j \in Bad : \A l \in Bad : j <= l
    <3>1. Bad \in SUBSET Nat OBVIOUS
    <3> QED BY <3>1, LeastOf
  <2>2. CASE j = 0
    <3>1. f[j] = <<>> /\ <<>> \in Seq(R) BY <1>1, <2>1, <2>2
    <3> QED BY <2>1, <3>1
  <2>3. CASE j # 0
    <3>1. j - 1 \in 0..n /\ ~(j <= j - 1) /\ j \in 0..n /\ j \in 1..n BY <1>0, <2>1, <2>3
    <3>2. f[j - 1] \in Seq(R) BY <2>1, <3>1
    <3>3. CASE jumps[j] = i
      <4>1. f[j] = f[j - 1] BY <1>1, <2>3, <3>1, <3>3
      <4> QED BY <2>1, <3>2, <4>1
    <3>4. CASE jumps[j] # i
      <4>1. f[j] = Append(f[j - 1], jumps[j]) BY <1>1, <2>3, <3>1, <3>4
      <4>2. jumps[j] \in R BY <1>0, <3>1, <3>4
      <4> HIDE DEF R
      <4>3. f[j] \in Seq(R) BY <3>2, <4>1, <4>2
      <4> QED BY <2>1, <4>3
    <3> QED BY <3>3, <3>4
  <2> QED BY <2>2, <2>3
<1>3. \A j \in 0..n : j >= k => Len(f[k]) <= Len(f[j])
  <2> DEFINE Bad == {j \in 0..n : j >= k /\ ~(Len(f[k]) <= Len(f[j]))}
  <2> SUFFICES ASSUME Bad # {} PROVE FALSE OBVIOUS
  <2>1. PICK j \in Bad : \A l \in Bad : j <= l
    <3>1. Bad \in SUBSET Nat OBVIOUS
    <3> QED BY <3>1, LeastOf
  <2>2. CASE j = k
    <3>1. k \in 0..n OBVIOUS
    <3>2. f[k] \in Seq(R) BY <1>2, <3>1
    <3>3. Len(f[k]) \in Nat BY <3>2
    <3> QED BY <2>1, <2>2, <3>3
  <2>3. CASE j # k
    <3>1. j - 1 \in 0..n /\ j - 1 >= k /\ ~(j <= j - 1) /\ j \in 0..n /\ j # 0 BY <1>0, <2>1, <2>3
    <3>2. Len(f[k]) <= Len(f[j - 1]) BY <2>1, <3>1
    <3>3. f[j - 1] \in Seq(R) /\ Len(f[k]) \in Nat /\ Len(f[j - 1]) \in Nat
      <4>1. k \in 0..n OBVIOUS
      <4>2. f[k] \in Seq(R) /\ f[j - 1] \in Seq(R) BY <1>2, <3>1, <4>1
      <4> QED BY <4>2
    <3>4. Len(f[j]) = Len(f[j - 1]) \/ Len(f[j]) = Len(f[j - 1]) + 1
      <4>1. CASE jumps[j] = i BY <1>1, <3>1, <4>1
      <4>2. CASE jumps[j] # i
        <5>1. f[j] = Append(f[j - 1], jumps[j]) BY <1>1, <3>1, <4>2
        <5> QED BY <3>3, <5>1
      <4> QED BY <4>1, <4>2
    <3>5. Len(f[k]) <= Len(f[j]) BY <3>2, <3>3, <3>4
    <3> QED BY <2>1, <3>5
  <2> QED BY <2>2, <2>3
<1> QED BY <1>0, <1>2, <1>3

LEMMA DisposedFrame ==
    ASSUME NEW s, NEW T, TabsOK(s)
    PROVE  /\ Changes(s, dispose(s, T), {"tasks", "ui", "done", "tab"})
           /\ \A i \in RtIds \ T : dispose(s, T).tab[i] = s.tab[i]
<1> DEFINE q == StopStreams(s, T, FALSE)
           us == {e \in q.ui : e.tab \notin T}
           tb == [i \in RtIds |-> IF i \in T THEN [RtNoTab EXCEPT !.disposed = TRUE] ELSE q.tab[i]]
<1>1. Changes(s, q, {"tasks", "ui", "done"}) BY StreamsStop
<1>2. DOMAIN q = RtParts /\ q.tab = s.tab BY <1>1 DEF Changes, RtParts
<1>3. /\ dispose(s, T).tab = tb /\ DOMAIN dispose(s, T) = RtParts
      /\ \A f \in RtParts \ {"ui", "tab"} : dispose(s, T)[f] = q[f]
  <2> HIDE DEF q
  <2>1. dispose(s, T) = [q EXCEPT !.ui = {e \in @ : e.tab \notin T},
                  !.tab = [i \in RtIds |-> IF i \in T THEN [RtNoTab EXCEPT !.disposed = TRUE] ELSE @[i]]]
    BY DEF dispose, q
  <2> QED BY <1>2, <2>1 DEF RtParts
<1> HIDE DEF q
<1>4. \A f \in RtParts \ {"tasks", "ui", "done", "tab"} : dispose(s, T)[f] = s[f] BY <1>1, <1>3 DEF Changes
<1> QED BY <1>2, <1>3, <1>4 DEF Changes

LEMMA NextIsOpen ==
    ASSUME NEW d, NEW k, d.open # {}, \A j \in d.open : d.tab[j].slot \in Nat
    PROVE  NextActive(d, k) \in d.open
<1> DEFINE left == {j \in d.open : d.tab[j].slot = Max({k - 1, 0})}
<1>1. CASE left # {} BY <1>1 DEF NextActive
<1>2. CASE left = {}
  <2> DEFINE S == {d.tab[j].slot : j \in d.open}
  <2>1. PICK p \in S : \A q \in S : p <= q
    <3>1. S \in SUBSET Nat /\ S # {} OBVIOUS
    <3> QED BY <3>1, LeastOf
  <2>2. PICK j \in d.open : d.tab[j].slot = p OBVIOUS
  <2>3. \A l \in d.open : d.tab[j].slot <= d.tab[l].slot BY <2>1, <2>2
  <2>4. (CHOOSE a \in d.open : \A l \in d.open : d.tab[a].slot <= d.tab[l].slot) \in d.open BY <2>3
  <2> QED BY <1>2, <2>4 DEF NextActive
<1> QED BY <1>1, <1>2

\* The jump list without a closed tab.
LEMMA Pruned ==
    ASSUME NEW s, NEW i, NEW S, DOMAIN s = RtParts, s.jumps \in Seq(S), s.cursor \in 0..Len(s.jumps)
    PROVE  LET r == PruneByTab(s, i) IN
           /\ Changes(s, r, {"jumps", "cursor"})
           /\ r.jumps \in Seq(S \ {i}) /\ r.cursor \in 0..Len(r.jumps)
<1> DEFINE kept == JumpsWithout(s.jumps, i)
           r == PruneByTab(s, i)
           n == Len(s.jumps)
<1>1. KeptJumps(s.jumps, i, n, kept)
  <2>1. n \in Nat OBVIOUS
  <2>2. \E f : KeptJumps(s.jumps, i, n, f) BY <2>1, KeptExists
  <2>3. kept = CHOOSE f : KeptJumps(s.jumps, i, n, f) BY DEF JumpsWithout, KeptJumps
  <2> QED BY <2>2, <2>3
<1>2. r = [s EXCEPT !.jumps = kept[Len(@)],
                    !.cursor = IF @ # 0 /\ s.jumps[@] # i THEN Len(kept[@]) ELSE 0]
  BY DEF PruneByTab
<1> HIDE DEF kept, r
<1>3. /\ Changes(s, r, {"jumps", "cursor"}) /\ r.jumps = kept[n]
      /\ r.cursor = IF s.cursor # 0 /\ s.jumps[s.cursor] # i THEN Len(kept[s.cursor]) ELSE 0
  BY <1>2 DEF Changes, RtParts
<1>4. \A k \in 0..n : kept[k] \in Seq(S \ {i}) /\ Len(kept[k]) <= Len(kept[n]) BY <1>1, KeptFacts
<1>5. n \in 0..n /\ s.cursor \in 0..n OBVIOUS
<1>6. kept[n] \in Seq(S \ {i}) /\ kept[s.cursor] \in Seq(S \ {i}) /\ Len(kept[s.cursor]) <= Len(kept[n]) BY <1>4, <1>5
<1>7. Len(kept[n]) \in Nat /\ Len(kept[s.cursor]) \in Nat BY <1>6
<1> QED BY <1>3, <1>6, <1>7 DEF r

LEMMA TabCloses ==
    ASSUME NEW s, NEW i, TabsOK(s), i \in s.open
    PROVE  LET r == CloseTab(s, i) IN
           /\ TabsOK(r) /\ r.open = s.open \ {i} /\ r.n = s.n /\ r.dir = s.dir
           /\ s.tasks = {} => r.tasks = {} /\ r.done = s.done
<1> DEFINE d0 == dispose(s, {i})
           d == [d0 EXCEPT !.open = @ \ {i}]
           a == NextActive(d, s.tab[i].slot)
           e == setActive(d, a)
           r == PruneByTab(e, i)
<1>1. r = CloseTab(s, i) BY DEF CloseTab
<1>2. /\ DOMAIN d0 = RtParts /\ d0.open = s.open /\ d0.jumps = s.jumps /\ d0.cursor = s.cursor
      /\ \A j \in RtIds \ {i} : d0.tab[j] = s.tab[j]
  BY DisposedFrame DEF Changes, RtParts
<1> HIDE DEF d0
<1>3. /\ DOMAIN d = RtParts /\ d.open = s.open \ {i} /\ d.jumps = s.jumps /\ d.cursor = s.cursor
      /\ d.tab = d0.tab /\ Changes(d0, d, {"open"})
  BY <1>2 DEF RtParts, Changes
<1> HIDE DEF d
<1>4. d.open # {} => a \in d.open
  <2>1. \A j \in d.open : j \in RtIds \ {i} /\ s.tab[j].slot \in 0..RtMax - 1 BY <1>3, Numbers DEF TabsOK, SlotsFit
  <2>2. \A j \in d.open : d.tab[j].slot \in Nat BY <1>2, <1>3, <2>1
  <2> QED BY <2>2, NextIsOpen
<1>5. d.open = {} => a = 0 BY DEF NextActive
<1> HIDE DEF a
<1>6. /\ DOMAIN e = RtParts /\ e.active = a /\ e.nav = RtNoNav
      /\ \A f \in RtParts \ {"active", "nav"} : e[f] = d[f]
  BY <1>3 DEF setActive, invalidateNavigation, RtParts
<1> HIDE DEF e
<1>7. e.jumps \in Seq(s.open) /\ e.cursor \in 0..Len(e.jumps) BY <1>3, <1>6 DEF RtParts, TabsOK, JumpsFit
<1>8. /\ Changes(e, r, {"jumps", "cursor"}) /\ r.jumps \in Seq(s.open \ {i}) /\ r.cursor \in 0..Len(r.jumps)
  BY <1>6, <1>7, Pruned
<1> HIDE DEF r
<1>9. /\ Changes(d0, r, {"open", "active", "nav", "jumps", "cursor", "conn", "keys"})
      /\ r.open = s.open \ {i} /\ r.nav = RtNoNav /\ r.active = a
  BY <1>3, <1>6, <1>8 DEF Changes, RtParts
<1>10. JumpsFit(r) /\ ActiveFits(r)
  <2>1. 0 \notin s.open BY Numbers
  <2> QED BY <1>3, <1>4, <1>5, <1>8, <1>9, <2>1 DEF JumpsFit, ActiveFits
<1>11. {i} \subseteq s.open OBVIOUS
<1>12. TabsOK(r) /\ r.n = s.n /\ r.dir = s.dir /\ (s.tasks = {} => r.tasks = {} /\ r.done = s.done)
  BY <1>9, <1>10, <1>11, Disposed DEF d0
<1> QED BY <1>1, <1>9, <1>12

LEMMA LeastIn ==
    ASSUME NEW S \in SUBSET Nat, S # {}
    PROVE  Min(S) \in S
<1>1. PICK p \in S : \A q \in S : p <= q BY LeastOf
<1> QED BY <1>1 DEF Min

LEMMA Evicted ==
    ASSUME NEW s, TabsOK(s), CanAlloc(s)
    PROVE  LET r == evict(s) IN
           /\ TabsOK(r) /\ Cardinality(r.open) < RtMax /\ r.n = s.n /\ r.dir = s.dir
           /\ s.tasks = {} => r.tasks = {} /\ r.done = s.done
<1>0. /\ IsFiniteSet(s.open) /\ Cardinality(s.open) \in Nat /\ s.open \subseteq Nat /\ RtMax \in Nat
      /\ Cardinality(s.open) <= RtMax
  <2>1. IsFiniteSet(s.open) BY Numbers
  <2> QED BY <2>1, Numbers, FS_CardinalityType, RtAssumption DEF TabsOK, SlotsFit
<1>1. CASE Cardinality(s.open) < RtMax BY <1>1 DEF evict
<1>2. CASE ~(Cardinality(s.open) < RtMax)
  <2> DEFINE i == Min(Unpinned(s))
             r == CloseTab(s, i)
  <2>1. i \in s.open
    <3>1. Unpinned(s) # {} /\ Unpinned(s) \in SUBSET Nat BY <1>0, <1>2 DEF CanAlloc, Unpinned
    <3> QED BY <3>1, LeastIn DEF Unpinned
  <2>2. evict(s) = r BY <1>2 DEF evict
  <2> HIDE DEF i
  <2>3. /\ TabsOK(r) /\ r.open = s.open \ {i} /\ r.n = s.n /\ r.dir = s.dir
        /\ s.tasks = {} => r.tasks = {} /\ r.done = s.done
    BY <2>1, TabCloses
  <2>4. Cardinality(s.open \ {i}) = Cardinality(s.open) - 1 BY <1>0, <2>1, FS_RemoveElement
  <2> HIDE DEF r
  <2>5. Cardinality(r.open) < RtMax BY <1>0, <2>3, <2>4
  <2> QED BY <2>2, <2>3, <2>5
<1> QED BY <1>1, <1>2

\* Below the cap a slot is free: fewer tabs than slots.
LEMMA SlotFree ==
    ASSUME NEW s, TabsOK(s), Cardinality(s.open) < RtMax
    PROVE  nextFreeSlot(s) \in 0..RtMax - 1 /\ \A j \in s.open : s.tab[j].slot # nextFreeSlot(s)
<1> DEFINE taken == {s.tab[j].slot : j \in s.open}
           free == (0..RtMax - 1) \ taken
           at == [j \in s.open |-> s.tab[j].slot]
<1>1. IsFiniteSet(s.open) BY Numbers
<1>2. at \in Surjection(s.open, taken) BY DEF Surjection
<1>3. IsFiniteSet(taken) /\ Cardinality(taken) <= Cardinality(s.open) BY <1>1, <1>2, FS_Surjection DEF ExistsSurjection
<1>4. Cardinality(0..RtMax - 1) = RtMax /\ RtMax \in Nat
  <2>1. 0 \in Int /\ RtMax - 1 \in Int /\ RtMax \in Nat /\ ~(0 > RtMax - 1) /\ (RtMax - 1) - 0 + 1 = RtMax
    BY RtAssumption
  <2> QED BY <2>1, FS_Interval
<1>5. free # {}
  <2> SUFFICES ASSUME free = {} PROVE FALSE OBVIOUS
  <2>1. (0..RtMax - 1) \in SUBSET taken OBVIOUS
  <2>2. Cardinality(0..RtMax - 1) <= Cardinality(taken) BY <1>3, <2>1, FS_Subset
  <2>3. Cardinality(s.open) \in Nat /\ Cardinality(taken) \in Nat BY <1>1, <1>3, FS_CardinalityType
  <2> QED BY <1>3, <1>4, <2>2, <2>3
<1>6. free \in SUBSET Nat BY <1>4
<1>7. Min(free) \in free BY <1>5, <1>6, LeastIn
<1> QED BY <1>7 DEF nextFreeSlot

\* A tab is opened: with the next number, in a free slot, its stream started or not.
TabOpened(e, r, i) ==
    /\ DOMAIN r = RtParts /\ DOMAIN r.tab = RtIds /\ DOMAIN r.tab[i] = TabFields
    /\ r.n = i /\ r.open = e.open \cup {i} /\ r.dir = e.dir /\ r.active = i /\ r.nav = RtNoNav
    /\ r.jumps = e.jumps /\ r.cursor = e.cursor
    /\ \A j \in RtIds \ {i} : r.tab[j] = e.tab[j]
    /\ r.done \in {e.done, e.done \cup {i}}
    /\ r.tab[i].slot = nextFreeSlot(e) /\ r.tab[i].run \in {0, i}
    /\ TabFits(i, r.dir, r.done, r.tab[i])
    /\ \/ r.tasks = e.tasks /\ r.tab[i].state \notin Flowing
       \/ /\ r.tasks = e.tasks \cup {[tab |-> i, gen |-> r.tab[i].gen, run |-> r.tab[i].run]}
          /\ r.tab[i].gen # 0 /\ r.tab[i].run = i /\ r.done = e.done
    /\ \/ r.ui = e.ui
       \/ \E ev : r.ui = e.ui \cup {ev} /\ ev.tab = i /\ EventFits(i, ev, r.tab[i])

LEMMA NewTabFits ==
    ASSUME NEW e, NEW r, NEW i, TabsOK(e), i = e.n + 1, i <= RtRuns, Cardinality(e.open) < RtMax,
           TabOpened(e, r, i)
    PROVE  TabsOK(r)
<1>1. /\ e.n \in Nat /\ RtRuns \in Nat /\ e.open \subseteq 1..e.n /\ IsFiniteSet(e.open) /\ i \in RtIds
      /\ i \notin e.open /\ i \notin 0..e.n /\ e.done \subseteq 1..e.n /\ 0..e.n \subseteq 0..i /\ i # 0
      /\ 1..e.n \subseteq RtIds
  <2>1. e.n \in Nat /\ RtRuns \in Nat /\ e.open \subseteq 1..e.n /\ IsFiniteSet(e.open) /\ e.done \subseteq 1..e.n
    BY Numbers DEF TabsOK, Shape
  <2> QED BY <2>1 DEF RtIds
<1>2. \A j \in e.open : j \in RtIds \ {i} /\ r.tab[j] = e.tab[j] BY <1>1 DEF TabOpened
<1>3. Shape(r)
  <2>1. r.open \subseteq 1..i /\ r.done \subseteq 1..i BY <1>1 DEF TabOpened
  <2>2. \A j \in RtIds : DOMAIN r.tab[j] = TabFields BY DEF TabOpened, TabsOK, Shape
  <2>3. ASSUME NEW k \in RtIds, k > r.n PROVE r.dir[k] = 0
    <3>1. k > e.n /\ r.dir = e.dir BY <1>1, <2>3 DEF TabOpened, RtIds
    <3> QED BY <3>1 DEF TabsOK, Shape
  <2>4. r.n \in 0..RtRuns /\ r.n = i /\ DOMAIN r.dir = RtIds BY <1>1 DEF TabOpened, TabsOK, Shape
  <2>5. DOMAIN r = RtParts /\ DOMAIN r.tab = RtIds BY DEF TabOpened
  <2> QED BY <2>1, <2>2, <2>3, <2>4, <2>5 DEF Shape
<1>4. TabsFit(r)
  <2>1. ASSUME NEW j \in e.open PROVE TabFits(r.n, r.dir, r.done, r.tab[j]) /\ r.tab[j].run \in 0..e.n
    BY <1>1, <1>2 DEF TabOpened, TabsOK, TabsFit, TabFits
  <2>2. \A j \in RtIds \ r.open : r.tab[j].wait = 0 BY <1>1 DEF TabOpened, TabsOK, TabsFit
  <2>3. ASSUME NEW j \in r.open, NEW k \in r.open, r.tab[j].run = r.tab[k].run PROVE j = k \/ r.tab[j].run = 0
    <3>1. CASE j = i \/ k = i BY <1>1, <2>1, <2>3, <3>1 DEF TabOpened
    <3>2. CASE j # i /\ k # i BY <1>2, <2>3, <3>2 DEF TabOpened, TabsOK, TabsFit
    <3> QED BY <3>1, <3>2
  <2>4. TabFits(r.n, r.dir, r.done, r.tab[i]) BY DEF TabOpened
  <2>5. \A j \in r.open : TabFits(r.n, r.dir, r.done, r.tab[j]) BY <2>1, <2>4 DEF TabOpened
  <2> QED BY <2>2, <2>3, <2>5 DEF TabsFit
<1>5. TasksFit(r)
  <2>1. ASSUME NEW t \in e.tasks
        PROVE  /\ t.tab \in r.open
               /\ t = [tab |-> t.tab, gen |-> r.tab[t.tab].gen, run |-> r.tab[t.tab].run]
               /\ r.tab[t.tab].gen # 0 /\ r.tab[t.tab].run # 0 /\ r.tab[t.tab].run \notin r.done
    <3>1. /\ t.tab \in e.open
          /\ t = [tab |-> t.tab, gen |-> e.tab[t.tab].gen, run |-> e.tab[t.tab].run]
          /\ e.tab[t.tab].gen # 0 /\ e.tab[t.tab].run # 0 /\ e.tab[t.tab].run \notin e.done
      BY DEF TabsOK, TasksFit
    <3>2. t.run \in 1..e.n /\ t.run = e.tab[t.tab].run BY TaskKnown
    <3>3. e.tab[t.tab].run \notin r.done BY <1>1, <3>1, <3>2 DEF TabOpened
    <3> QED BY <1>2, <3>1, <3>3 DEF TabOpened
  <2>2. ASSUME NEW t \in r.tasks, t \notin e.tasks
        PROVE  /\ t.tab \in r.open
               /\ t = [tab |-> t.tab, gen |-> r.tab[t.tab].gen, run |-> r.tab[t.tab].run]
               /\ r.tab[t.tab].gen # 0 /\ r.tab[t.tab].run # 0 /\ r.tab[t.tab].run \notin r.done
    <3>1. /\ t = [tab |-> i, gen |-> r.tab[i].gen, run |-> r.tab[i].run]
          /\ r.tab[i].gen # 0 /\ r.tab[i].run = i /\ r.done = e.done /\ i \in r.open
      BY <2>2 DEF TabOpened
    <3> QED BY <1>1, <3>1
  <2> QED BY <2>1, <2>2 DEF TasksFit
<1>6. UIFits(r)
  <2>1. ASSUME NEW ev \in e.ui PROVE ev.tab \in r.open /\ EventFits(r.n, ev, r.tab[ev.tab])
    BY <1>1, <1>2 DEF TabOpened, TabsOK, UIFits, EventFits
  <2>2. ASSUME NEW ev \in r.ui, ev \notin e.ui PROVE ev.tab \in r.open /\ EventFits(r.n, ev, r.tab[ev.tab])
    BY <2>2 DEF TabOpened
  <2> QED BY <2>1, <2>2 DEF UIFits
<1>7. FlowFits(r)
  <2>1. ASSUME NEW j \in e.open, r.tab[j].state \in Flowing
        PROVE  \/ \E t \in r.tasks : t.tab = j /\ t.gen = r.tab[j].gen
               \/ \E ev \in r.ui : ev.kind = "flip" /\ ev.tab = j /\ ev.gen = r.tab[j].gen
    <3>1. e.tasks \subseteq r.tasks /\ e.ui \subseteq r.ui BY DEF TabOpened
    <3> QED BY <1>2, <2>1, <3>1 DEF TabsOK, FlowFits
  <2>2. ASSUME r.tab[i].state \in Flowing PROVE \E t \in r.tasks : t.tab = i /\ t.gen = r.tab[i].gen
    <3>1. [tab |-> i, gen |-> r.tab[i].gen, run |-> r.tab[i].run] \in r.tasks BY <2>2 DEF TabOpened
    <3> QED BY <3>1
  <2>3. r.open = e.open \cup {i} BY DEF TabOpened
  <2> QED BY <2>1, <2>2, <2>3 DEF FlowFits
<1>8. NavFits(r) BY DEF NavFits, TabOpened, RtNoNav
<1>9. SlotsFit(r)
  <2>1. nextFreeSlot(e) \in 0..RtMax - 1 /\ \A j \in e.open : e.tab[j].slot # nextFreeSlot(e) BY SlotFree
  <2>2. Cardinality(r.open) = Cardinality(e.open) + 1 /\ Cardinality(e.open) \in Nat /\ RtMax \in Nat
    <3>1. Cardinality(e.open \cup {i}) = Cardinality(e.open) + 1 BY <1>1, FS_AddElement
    <3>2. Cardinality(e.open) \in Nat BY <1>1, FS_CardinalityType
    <3> QED BY <3>1, <3>2, RtAssumption DEF TabOpened
  <2>3. Cardinality(r.open) <= RtMax BY <2>2
  <2> QED BY <1>2, <2>1, <2>3 DEF TabOpened, TabsOK, SlotsFit
<1>10. ActiveFits(r) BY <1>1 DEF ActiveFits, TabOpened
<1>11. JumpsFit(r)
  <2>1. e.jumps \in Seq(e.open) /\ e.open \subseteq r.open /\ e.cursor \in 0..Len(e.jumps)
    BY DEF TabsOK, JumpsFit, TabOpened
  <2>2. e.jumps \in Seq(r.open) BY <2>1
  <2> QED BY <2>1, <2>2 DEF JumpsFit, TabOpened
<1> QED BY <1>3, <1>4, <1>5, <1>6, <1>7, <1>8, <1>9, <1>10, <1>11 DEF TabsOK

\* One tab changes.
TabChanges(s, r, i) ==
    /\ DOMAIN r.tab = RtIds /\ DOMAIN r.tab[i] = TabFields
    /\ \A j \in RtIds \ {i} : r.tab[j] = s.tab[j]

LEMMA StreamStarts ==
    ASSUME NEW s, NEW i \in RtIds, DOMAIN s = RtParts, DOMAIN s.tab = RtIds, DOMAIN s.tab[i] = TabFields
    PROVE  LET r == startStreaming(s, i) IN
           /\ Changes(s, r, {"tab", "tasks"}) /\ TabChanges(s, r, i)
           /\ r.tab[i].gen = s.tab[i].gen + 1 /\ r.tab[i].egen = s.tab[i].egen + 1
           /\ r.tab[i].state = (IF s.tab[i].state = "sorting" THEN "sorting" ELSE "running")
           /\ r.tab[i].rows = {} /\ r.tab[i].edit = 0 /\ r.tab[i].shown = 0
           /\ r.tab[i].slot = s.tab[i].slot /\ r.tab[i].disposed = s.tab[i].disposed
           /\ r.tab[i].run = s.tab[i].run /\ r.tab[i].wait = s.tab[i].wait /\ r.tab[i].sort = s.tab[i].sort
           /\ (\A t \in s.tasks : t.tab # i) =>
                r.tasks = s.tasks \cup {[tab |-> i, gen |-> r.tab[i].gen, run |-> r.tab[i].run]}
<1> DEFINE t == s.tab[i]
           new == [t EXCEPT !.gen = @ + 1, !.egen = @ + 1,
                            !.state = IF @ = "sorting" THEN @ ELSE "running",
                            !.rows = {}, !.edit = 0, !.shown = 0]
           ts == IF \E u \in s.tasks : u.tab = i THEN s.tasks
                 ELSE s.tasks \cup {[tab |-> i, gen |-> new.gen, run |-> new.run]}
           r == [s EXCEPT !.tab[i] = new, !.tasks = ts]
<1>1. startStreaming(s, i) = r BY DEF startStreaming
<1>2. /\ DOMAIN new = TabFields /\ new.gen = t.gen + 1 /\ new.egen = t.egen + 1
      /\ new.state = (IF t.state = "sorting" THEN "sorting" ELSE "running")
      /\ new.rows = {} /\ new.edit = 0 /\ new.shown = 0
      /\ new.slot = t.slot /\ new.disposed = t.disposed /\ new.run = t.run /\ new.wait = t.wait
      /\ new.sort = t.sort
  BY DEF TabFields
<1> HIDE DEF new
<1>3. (\A u \in s.tasks : u.tab # i) => ts = s.tasks \cup {[tab |-> i, gen |-> new.gen, run |-> new.run]} OBVIOUS
<1> HIDE DEF ts
<1>4. /\ Changes(s, r, {"tab", "tasks"}) /\ r.tab[i] = new /\ r.tasks = ts
      /\ DOMAIN r.tab = RtIds /\ \A j \in RtIds \ {i} : r.tab[j] = s.tab[j]
  BY DEF Changes, RtParts
<1> HIDE DEF r
<1>5. TabChanges(s, r, i) BY <1>2, <1>4 DEF TabChanges
<1> QED BY <1>1, <1>2, <1>3, <1>4, <1>5

\* The record of a new tab, before its run is attached.
LEMMA Allocated ==
    ASSUME NEW s, NEW state, TabsOK(s), s.n < RtRuns, CanAlloc(s)
    PROVE  LET e == evict(s)
               r == allocTab(s, state)
               i == s.n + 1
           IN  /\ TabsOK(e) /\ Cardinality(e.open) < RtMax /\ i = e.n + 1 /\ i <= RtRuns /\ i \in RtIds
               /\ e.n = s.n /\ Changes(e, r, {"n", "open", "tab"}) /\ TabChanges(e, r, i)
               /\ r.n = i /\ r.open = e.open \cup {i}
               /\ r.tab[i] = [RtNoTab EXCEPT !.slot = nextFreeSlot(e), !.state = state]
               /\ \A t \in e.tasks : t.tab # i
<1> DEFINE e == evict(s)
           r == allocTab(s, state)
           i == s.n + 1
<1>1. TabsOK(e) /\ Cardinality(e.open) < RtMax /\ e.n = s.n BY Evicted
<1>2. r = [e EXCEPT !.n = @ + 1, !.open = @ \cup {e.n + 1},
                    !.tab[e.n + 1] = [RtNoTab EXCEPT !.slot = nextFreeSlot(e), !.state = state]]
  BY DEF allocTab
<1> HIDE DEF e, r
<1>3. s.n \in Nat /\ RtRuns \in Nat BY Numbers
<1>4. i = e.n + 1 /\ i <= RtRuns /\ i \in RtIds BY <1>1, <1>3 DEF RtIds
<1>5. r = [e EXCEPT !.n = i, !.open = @ \cup {i},
                    !.tab[i] = [RtNoTab EXCEPT !.slot = nextFreeSlot(e), !.state = state]]
  BY <1>2, <1>4
<1> HIDE DEF i
<1>6. DOMAIN e = RtParts /\ DOMAIN e.tab = RtIds BY <1>1 DEF TabsOK, Shape
<1>7. /\ Changes(e, r, {"n", "open", "tab"}) /\ r.n = i /\ r.open = e.open \cup {i}
      /\ r.tab[i] = [RtNoTab EXCEPT !.slot = nextFreeSlot(e), !.state = state]
      /\ DOMAIN r.tab = RtIds /\ \A j \in RtIds \ {i} : r.tab[j] = e.tab[j]
  <2> DEFINE new == [RtNoTab EXCEPT !.slot = nextFreeSlot(e), !.state = state]
  <2>1. r = [e EXCEPT !.n = i, !.open = @ \cup {i}, !.tab[i] = new] BY <1>5
  <2> HIDE DEF new
  <2>2. /\ Changes(e, r, {"n", "open", "tab"}) /\ r.n = i /\ r.open = e.open \cup {i} /\ r.tab[i] = new
        /\ DOMAIN r.tab = RtIds /\ \A j \in RtIds \ {i} : r.tab[j] = e.tab[j]
    BY <1>4, <1>6, <2>1 DEF Changes, RtParts
  <2> QED BY <2>2 DEF new
<1>8. TabChanges(e, r, i)
  <2>1. DOMAIN r.tab[i] = TabFields BY <1>7 DEF RtNoTab, TabFields
  <2> QED BY <1>7, <2>1 DEF TabChanges
<1>9. \A t \in e.tasks : t.tab # i
  <2>1. \A t \in e.tasks : t.tab \in e.open BY <1>1 DEF TabsOK, TasksFit
  <2>2. e.open \subseteq 1..e.n BY <1>1, Numbers
  <2> QED BY <1>1, <1>3, <1>4, <2>1, <2>2
<1> QED BY <1>1, <1>4, <1>7, <1>8, <1>9 DEF e, r, i

LEMMA PlanOpens ==
    ASSUME TabsOK(rt), OpenPlanTab
    PROVE  TabsOK(rt')
<1>1. PICK state \in {"plan", "error"} :
        rt' = [setActive(allocTab(rt, state), rt.n + 1) EXCEPT !.done = @ \cup {rt.n + 1}]
  BY DEF OpenPlanTab
<1> DEFINE e == evict(rt)
           c == allocTab(rt, state)
           i == rt.n + 1
           r == [setActive(c, i) EXCEPT !.done = @ \cup {i}]
<1>2. /\ TabsOK(e) /\ Cardinality(e.open) < RtMax /\ i = e.n + 1 /\ i <= RtRuns /\ i \in RtIds
      /\ Changes(e, c, {"n", "open", "tab"}) /\ TabChanges(e, c, i)
      /\ c.n = i /\ c.open = e.open \cup {i}
      /\ c.tab[i] = [RtNoTab EXCEPT !.slot = nextFreeSlot(e), !.state = state]
  <2>1. rt.n < RtRuns /\ CanAlloc(rt) BY DEF OpenPlanTab, RtMore
  <2> QED BY <2>1, Allocated
<1> HIDE DEF e, c, i
<1>3. /\ Changes(c, r, {"active", "nav", "done"}) /\ r.active = i /\ r.nav = RtNoNav
      /\ r.done = c.done \cup {i}
  BY <1>2 DEF setActive, invalidateNavigation, Changes, RtParts
<1> HIDE DEF r
<1>4. /\ r.tab = c.tab /\ r.n = i /\ r.open = e.open \cup {i} /\ r.dir = e.dir /\ r.jumps = e.jumps
      /\ r.cursor = e.cursor /\ r.done = e.done \cup {i} /\ r.tasks = e.tasks /\ r.ui = e.ui
      /\ DOMAIN r = RtParts
  BY <1>2, <1>3 DEF Changes, RtParts
<1>5. /\ r.tab[i].slot = nextFreeSlot(e) /\ r.tab[i].state = state /\ ~r.tab[i].disposed
      /\ r.tab[i].gen = 0 /\ r.tab[i].egen = 0 /\ r.tab[i].run = 0
      /\ r.tab[i].rows = {} /\ r.tab[i].edit = 0 /\ r.tab[i].wait = 0 /\ r.tab[i].shown = 0
  <2>1. r.tab[i] = [RtNoTab EXCEPT !.slot = nextFreeSlot(e), !.state = state] BY <1>2, <1>4
  <2> DEFINE slot == nextFreeSlot(e)
             t == r.tab[i]
  <2>2. t = [RtNoTab EXCEPT !.slot = slot, !.state = state] BY <2>1
  <2> HIDE DEF t, slot
  <2>3. /\ t.slot = slot /\ t.state = state /\ t.disposed = FALSE /\ t.gen = 0 /\ t.egen = 0
        /\ t.run = 0 /\ t.rows = {} /\ t.edit = 0 /\ t.wait = 0 /\ t.shown = 0
    BY <2>2 DEF RtNoTab
  <2> QED BY <2>3 DEF t, slot
<1>6. e.n \in Nat BY <1>2, Numbers
<1>7. TabFits(i, r.dir, r.done, r.tab[i]) BY <1>2, <1>5, <1>6 DEF TabFits
<1>8. TabOpened(e, r, i) BY <1>2, <1>3, <1>4, <1>5, <1>7 DEF TabOpened, TabChanges, Flowing
<1>9. TabsOK(r) BY <1>2, <1>8, NewTabFits
<1> QED BY <1>1, <1>9 DEF r, c, i

\* The tab of a run: its stream starts at once, or it waits for a run before it.
LEMMA RunOpens ==
    ASSUME NEW s, TabsOK(s), s.n < RtRuns, CanAlloc(s)
    PROVE  TabsOK(OpenTab(s))
<1> DEFINE e == evict(s)
           c == allocTab(s, "running")
           i == s.n + 1
           q == [c EXCEPT !.tab[i].run = i]
           p == priorRunningTab(q, i)
<1>0. OpenTab(s) = StartOrQueue(q, i) BY DEF OpenTab
<1>1. /\ TabsOK(e) /\ Cardinality(e.open) < RtMax /\ i = e.n + 1 /\ i <= RtRuns /\ i \in RtIds
      /\ Changes(e, c, {"n", "open", "tab"}) /\ TabChanges(e, c, i)
      /\ c.n = i /\ c.open = e.open \cup {i}
      /\ c.tab[i] = [RtNoTab EXCEPT !.slot = nextFreeSlot(e), !.state = "running"]
      /\ \A t \in e.tasks : t.tab # i
  BY Allocated
<1>2. e.n \in Nat /\ i \in Nat /\ i # 0 /\ e.done \subseteq 1..e.n /\ e.dir[i] = 0
  <2>1. e.n \in Nat /\ e.done \subseteq 1..e.n BY <1>1, Numbers DEF TabsOK, Shape
  <2>2. e.dir[i] = 0
    <3>1. i > e.n BY <1>1, <2>1
    <3> QED BY <1>1, <3>1 DEF TabsOK, Shape
  <2> QED BY <1>1, <2>1, <2>2
<1> HIDE DEF e, c, i
<1>3. /\ c.tab[i].slot = nextFreeSlot(e) /\ c.tab[i].state = "running" /\ c.tab[i].disposed = FALSE
      /\ c.tab[i].gen = 0 /\ c.tab[i].egen = 0
      /\ c.tab[i].rows = {} /\ c.tab[i].edit = 0 /\ c.tab[i].wait = 0 /\ c.tab[i].shown = 0
  <2> DEFINE slot == nextFreeSlot(e)
             t == c.tab[i]
  <2>1. t = [RtNoTab EXCEPT !.slot = slot, !.state = "running"] BY <1>1
  <2> HIDE DEF t, slot
  <2>2. /\ t.slot = slot /\ t.state = "running" /\ t.disposed = FALSE /\ t.gen = 0 /\ t.egen = 0
        /\ t.rows = {} /\ t.edit = 0 /\ t.wait = 0 /\ t.shown = 0
    BY <2>1 DEF RtNoTab
  <2> QED BY <2>2 DEF t, slot
<1>4. /\ Changes(c, q, {"tab"}) /\ TabChanges(c, q, i)
      /\ q.tab[i].slot = nextFreeSlot(e) /\ q.tab[i].state = "running" /\ q.tab[i].disposed = FALSE
      /\ q.tab[i].gen = 0 /\ q.tab[i].egen = 0 /\ q.tab[i].run = i
      /\ q.tab[i].rows = {} /\ q.tab[i].edit = 0 /\ q.tab[i].wait = 0 /\ q.tab[i].shown = 0
  BY <1>1, <1>3 DEF Changes, TabChanges, RtParts, TabFields
<1> HIDE DEF q
<1>5. /\ DOMAIN q = RtParts /\ DOMAIN q.tab = RtIds /\ DOMAIN q.tab[i] = TabFields
      /\ q.n = i /\ q.open = e.open \cup {i} /\ q.dir = e.dir /\ q.jumps = e.jumps /\ q.cursor = e.cursor
      /\ q.done = e.done /\ q.tasks = e.tasks /\ q.ui = e.ui
      /\ \A j \in RtIds \ {i} : q.tab[j] = e.tab[j]
  BY <1>1, <1>4 DEF Changes, TabChanges, RtParts
<1>6. i \notin e.done BY <1>1, <1>2
<1>7. CASE p = {}
  <2> DEFINE w == startStreaming(q, i)
             a == Attached(w, i)
             ev == Introspect(a, i)
             r == [a EXCEPT !.ui = @ \cup {ev}]
  <2>1. StartOrQueue(q, i) = r BY <1>7 DEF StartOrQueue, Introspected
  <2>2. /\ Changes(q, w, {"tab", "tasks"}) /\ TabChanges(q, w, i)
        /\ w.tab[i].gen = q.tab[i].gen + 1 /\ w.tab[i].egen = q.tab[i].egen + 1
        /\ w.tab[i].rows = {} /\ w.tab[i].edit = 0 /\ w.tab[i].shown = 0
        /\ w.tab[i].slot = q.tab[i].slot /\ w.tab[i].disposed = q.tab[i].disposed
        /\ w.tab[i].run = q.tab[i].run /\ w.tab[i].wait = q.tab[i].wait
        /\ w.tasks = q.tasks \cup {[tab |-> i, gen |-> w.tab[i].gen, run |-> w.tab[i].run]}
    BY <1>1, <1>5, StreamStarts
  <2> HIDE DEF w
  <2>3. /\ Changes(w, a, {"active", "nav", "tab"}) /\ TabChanges(w, a, i)
        /\ a.active = i /\ a.nav = RtNoNav
        /\ a.tab[i].gen = w.tab[i].gen /\ a.tab[i].egen = w.tab[i].egen + 1
        /\ a.tab[i].rows = {} /\ a.tab[i].edit = 0 /\ a.tab[i].shown = 0
        /\ a.tab[i].slot = w.tab[i].slot /\ a.tab[i].disposed = w.tab[i].disposed
        /\ a.tab[i].run = w.tab[i].run /\ a.tab[i].wait = w.tab[i].wait
    <3> DEFINE b == setActive(w, i)
    <3>1. /\ Changes(w, b, {"active", "nav"}) /\ b.active = i /\ b.nav = RtNoNav
      BY <2>2 DEF setActive, invalidateNavigation, Changes, RtParts
    <3>2. DOMAIN b = RtParts /\ b.tab = w.tab /\ DOMAIN w.tab = RtIds /\ DOMAIN w.tab[i] = TabFields
      BY <2>2, <3>1 DEF Changes, TabChanges, RtParts
    <3>3. a = [b EXCEPT !.tab[i].egen = @ + 1] BY DEF Attached
    <3> HIDE DEF a, b
    <3>4. /\ Changes(b, a, {"tab"}) /\ TabChanges(w, a, i)
          /\ a.tab[i].egen = w.tab[i].egen + 1
          /\ \A f \in TabFields \ {"egen"} : a.tab[i][f] = w.tab[i][f]
      BY <1>1, <3>2, <3>3 DEF Changes, TabChanges, RtParts, TabFields
    <3>5. Changes(w, a, {"active", "nav", "tab"}) /\ a.active = i /\ a.nav = RtNoNav BY <3>1, <3>4 DEF Changes, RtParts
    <3>6. /\ a.tab[i].gen = w.tab[i].gen /\ a.tab[i].rows = w.tab[i].rows /\ a.tab[i].edit = w.tab[i].edit
          /\ a.tab[i].shown = w.tab[i].shown /\ a.tab[i].slot = w.tab[i].slot
          /\ a.tab[i].disposed = w.tab[i].disposed
          /\ a.tab[i].run = w.tab[i].run /\ a.tab[i].wait = w.tab[i].wait
      BY <3>4 DEF TabFields
    <3> QED BY <2>2, <3>4, <3>5, <3>6
  <2> HIDE DEF a
  <2>4. ev.kind = "edit" /\ ev.tab = i /\ ev.gen = a.tab[i].egen /\ ev.run = a.tab[i].run BY DEF Introspect
  <2> HIDE DEF ev
  <2>5. /\ DOMAIN r = RtParts /\ r.n = i /\ r.open = e.open \cup {i} /\ r.dir = e.dir /\ r.active = i
        /\ r.nav = RtNoNav /\ r.jumps = e.jumps /\ r.cursor = e.cursor /\ r.done = e.done
        /\ r.tasks = w.tasks /\ r.ui = e.ui \cup {ev} /\ r.tab = a.tab
    BY <1>5, <2>2, <2>3 DEF Changes, RtParts
  <2> HIDE DEF r
  <2>6. /\ DOMAIN r.tab = RtIds /\ DOMAIN r.tab[i] = TabFields
        /\ \A j \in RtIds \ {i} : r.tab[j] = e.tab[j]
    BY <1>5, <2>2, <2>3, <2>5 DEF TabChanges
  <2>7. /\ r.tab[i].gen = 1 /\ r.tab[i].egen = 2 /\ r.tab[i].rows = {} /\ r.tab[i].edit = 0
        /\ r.tab[i].shown = 0 /\ r.tab[i].slot = nextFreeSlot(e) /\ ~r.tab[i].disposed
        /\ r.tab[i].run = i /\ r.tab[i].wait = 0
    BY <1>4, <2>2, <2>3, <2>5
  <2>8. TabFits(i, r.dir, r.done, r.tab[i]) BY <1>2, <2>5, <2>7 DEF TabFits
  <2>9. EventFits(i, ev, r.tab[i]) BY <2>4, <2>5, <2>7 DEF EventFits
  <2>10. r.tasks = e.tasks \cup {[tab |-> i, gen |-> r.tab[i].gen, run |-> r.tab[i].run]} BY <1>5, <2>2, <2>3, <2>5
  <2>11. TabOpened(e, r, i)
    <3>1. \E v : r.ui = e.ui \cup {v} /\ v.tab = i /\ EventFits(i, v, r.tab[i]) BY <2>4, <2>5, <2>9
    <3>2. r.tab[i].gen # 0 BY <2>7
    <3> QED BY <2>5, <2>6, <2>7, <2>8, <2>10, <3>1, <3>2 DEF TabOpened
  <2>12. TabsOK(r) BY <1>1, <2>11, NewTabFits
  <2> QED BY <1>0, <2>1, <2>12 DEF r
<1>8. CASE p # {}
  <2> DEFINE prior == q.tab[Max(p)].run
             w == [q EXCEPT !.tab[i].state = "queued", !.tab[i].wait = prior]
             r == Attached(w, i)
  <2>1. StartOrQueue(q, i) = r BY <1>8 DEF StartOrQueue
  <2> HIDE DEF prior, p
  <2>2. /\ Changes(q, w, {"tab"}) /\ TabChanges(q, w, i) /\ w.tab[i].state = "queued"
        /\ w.tab[i].wait = prior
        /\ \A f \in TabFields \ {"state", "wait"} : w.tab[i][f] = q.tab[i][f]
    BY <1>1, <1>5 DEF Changes, TabChanges, RtParts, TabFields
  <2> HIDE DEF w
  <2>3. /\ Changes(w, r, {"active", "nav", "tab"}) /\ TabChanges(w, r, i)
        /\ r.active = i /\ r.nav = RtNoNav /\ r.tab[i].egen = w.tab[i].egen + 1
        /\ \A f \in TabFields \ {"egen"} : r.tab[i][f] = w.tab[i][f]
    <3> DEFINE b == setActive(w, i)
    <3>1. /\ Changes(w, b, {"active", "nav"}) /\ b.active = i /\ b.nav = RtNoNav
      BY <2>2 DEF setActive, invalidateNavigation, Changes, RtParts
    <3>2. DOMAIN b = RtParts /\ b.tab = w.tab /\ DOMAIN w.tab = RtIds /\ DOMAIN w.tab[i] = TabFields
      BY <2>2, <3>1 DEF Changes, TabChanges, RtParts
    <3>3. r = [b EXCEPT !.tab[i].egen = @ + 1] BY DEF Attached
    <3> HIDE DEF r, b
    <3>4. /\ Changes(b, r, {"tab"}) /\ TabChanges(w, r, i)
          /\ r.tab[i].egen = w.tab[i].egen + 1
          /\ \A f \in TabFields \ {"egen"} : r.tab[i][f] = w.tab[i][f]
      BY <1>1, <3>2, <3>3 DEF Changes, TabChanges, RtParts, TabFields
    <3>5. Changes(w, r, {"active", "nav", "tab"}) /\ r.active = i /\ r.nav = RtNoNav BY <3>1, <3>4 DEF Changes, RtParts
    <3> QED BY <3>4, <3>5
  <2> HIDE DEF r
  <2>4. /\ DOMAIN r = RtParts /\ r.n = i /\ r.open = e.open \cup {i} /\ r.dir = e.dir /\ r.active = i
        /\ r.nav = RtNoNav /\ r.jumps = e.jumps /\ r.cursor = e.cursor /\ r.done = e.done
        /\ r.tasks = e.tasks /\ r.ui = e.ui
    BY <1>5, <2>2, <2>3 DEF Changes, RtParts
  <2>5. /\ DOMAIN r.tab = RtIds /\ DOMAIN r.tab[i] = TabFields
        /\ \A j \in RtIds \ {i} : r.tab[j] = e.tab[j]
    BY <1>5, <2>2, <2>3 DEF TabChanges
  <2>6. /\ r.tab[i].gen = 0 /\ r.tab[i].egen = 1 /\ r.tab[i].rows = {} /\ r.tab[i].edit = 0
        /\ r.tab[i].shown = 0 /\ r.tab[i].slot = nextFreeSlot(e) /\ ~r.tab[i].disposed
        /\ r.tab[i].run = i /\ r.tab[i].state = "queued"
    BY <1>4, <2>2, <2>3 DEF TabFields
  <2>7. TabFits(i, r.dir, r.done, r.tab[i]) BY <1>2, <1>6, <2>4, <2>6 DEF TabFits
  <2>8. TabOpened(e, r, i) BY <2>4, <2>5, <2>6, <2>7 DEF TabOpened, Flowing
  <2>9. TabsOK(r) BY <1>1, <2>8, NewTabFits
  <2> QED BY <1>0, <2>1, <2>9
<1> QED BY <1>7, <1>8

\* Only the navigation, the tab in front and the jump list change.
LEMMA NavSteps ==
    ASSUME NEW s, NEW r, TabsOK(s), Changes(s, r, {"nav", "active", "jumps", "cursor", "keys"}),
           NavFits(r), ActiveFits(r), JumpsFit(r)
    PROVE  TabsOK(r)
BY PiecesKept DEF TabsOK

LEMMA Counted ==
    ASSUME NEW s, NEW r, TabsOK(s), r = [s EXCEPT !.keys = @ + 1]
    PROVE  TabsOK(r)
<1>1. Changes(s, r, {"keys"}) BY DEF TabsOK, Shape, Changes, RtParts
<1> QED BY <1>1, PiecesKept DEF TabsOK

LEMMA NavDropped ==
    ASSUME NEW s, TabsOK(s)
    PROVE  /\ TabsOK(invalidateNavigation(s))
           /\ \A i \in s.open : TabsOK(setActive(s, i))
<1>0. DOMAIN s = RtParts BY DEF TabsOK, Shape
<1>1. ASSUME NEW r, Changes(s, r, {"nav", "active"}), r.nav = RtNoNav, ActiveFits(r) PROVE TabsOK(r)
  <2>1. NavFits(r) BY <1>1 DEF NavFits, RtNoNav
  <2>2. Changes(s, r, {"nav", "active", "jumps", "cursor", "keys"}) BY <1>1 DEF Changes
  <2>3. JumpsFit(r) BY <1>1, PiecesKept
  <2> QED BY <1>1, <2>1, <2>2, <2>3, NavSteps
<1>2. TabsOK(invalidateNavigation(s))
  <2> DEFINE r == invalidateNavigation(s)
  <2>1. Changes(s, r, {"nav", "active"}) /\ r.nav = RtNoNav /\ r.active = s.active /\ r.open = s.open
    BY <1>0 DEF invalidateNavigation, Changes, RtParts
  <2> HIDE DEF r
  <2>2. ActiveFits(r) BY <2>1 DEF TabsOK, ActiveFits
  <2>3. TabsOK(r) BY <1>1, <2>1, <2>2
  <2> QED BY <2>3 DEF r
<1>3. ASSUME NEW i \in s.open PROVE TabsOK(setActive(s, i))
  <2> DEFINE r == setActive(s, i)
  <2>1. Changes(s, r, {"nav", "active"}) /\ r.nav = RtNoNav /\ r.active = i /\ r.open = s.open
    BY <1>0 DEF setActive, invalidateNavigation, Changes, RtParts
  <2> HIDE DEF r
  <2>2. ActiveFits(r)
    <3>1. i # 0 BY Numbers
    <3> QED BY <2>1, <3>1 DEF ActiveFits
  <2>3. TabsOK(r) BY <1>1, <2>1, <2>2
  <2> QED BY <2>3 DEF r
<1> QED BY <1>2, <1>3

LEMMA EventPosted ==
    ASSUME NEW s, NEW r, NEW e, TabsOK(s), Changes(s, r, {"ui", "keys"}), r.ui = s.ui \cup {e},
           e.tab \in s.open, EventFits(s.n, e, s.tab[e.tab])
    PROVE  TabsOK(r)
<1>1. r.open = s.open /\ r.tab = s.tab /\ r.n = s.n /\ r.tasks = s.tasks BY DEF Changes, RtParts
<1>2. UIFits(r) BY <1>1 DEF TabsOK, UIFits
<1>3. FlowFits(r)
  <2>1. s.ui \subseteq r.ui OBVIOUS
  <2> QED BY <1>1, <2>1 DEF TabsOK, FlowFits
<1>4. /\ Shape(r) /\ TabsFit(r) /\ TasksFit(r) /\ NavFits(r) /\ SlotsFit(r) /\ ActiveFits(r) /\ JumpsFit(r)
  BY PiecesKept
<1> QED BY <1>2, <1>3, <1>4 DEF TabsOK

\* All runs have ended: no stream is left.
LEMMA AllEnded ==
    ASSUME TabsOK(rt), SessionFree
    PROVE  rt.tasks = {} /\ rt.n < RtRuns
<1>1. \A t \in rt.tasks : t.run \in 1..rt.n /\ t.run \notin rt.done BY TaskKnown
<1> QED BY <1>1 DEF SessionFree, RtMore

LEMMA CapReachedKeeps ==
    ASSUME TabsOK(rt), CapReached
    PROVE  TabsOK(rt')
<1> DEFINE r == [rt EXCEPT !.n = @ + 1, !.done = @ \cup {rt.n + 1}]
<1>1. rt' = r /\ rt.n < RtRuns BY AllEnded DEF CapReached
<1>2. /\ DOMAIN r = RtParts /\ r.n = rt.n + 1 /\ r.done = rt.done \cup {rt.n + 1}
      /\ r.open = rt.open /\ r.tab = rt.tab /\ r.dir = rt.dir /\ r.tasks = rt.tasks /\ r.ui = rt.ui
      /\ Changes(rt, r, {"n", "done"})
  BY DEF TabsOK, Shape, Changes, RtParts
<1> HIDE DEF r
<1>3. rt.n \in Nat /\ RtRuns \in Nat /\ rt.open \subseteq 1..rt.n /\ rt.done \subseteq 1..rt.n
  BY Numbers DEF TabsOK, Shape
<1>4. Shape(r)
  <2>1. r.n \in 0..RtRuns /\ r.open \subseteq 1..r.n /\ r.done \subseteq 1..r.n BY <1>1, <1>2, <1>3
  <2>2. \A k \in RtIds : k > r.n => k > rt.n BY <1>2, <1>3 DEF RtIds
  <2>3. \A k \in RtIds : k > r.n => r.dir[k] = 0 BY <1>2, <2>2 DEF TabsOK, Shape
  <2> QED BY <1>2, <2>1, <2>3 DEF TabsOK, Shape
<1>5. TabsFit(r)
  <2>1. ASSUME NEW i \in rt.open PROVE TabFits(r.n, r.dir, r.done, r.tab[i]) BY <1>2, <1>3 DEF TabsOK, TabsFit, TabFits
  <2> QED BY <1>2, <2>1 DEF TabsOK, TabsFit
<1>6. TasksFit(r)
  <2>1. \A t \in rt.tasks : rt.tab[t.tab].run \in 1..rt.n BY TaskKnown
  <2>2. \A t \in rt.tasks : rt.tab[t.tab].run # rt.n + 1 BY <1>3, <2>1
  <2> QED BY <1>2, <2>2 DEF TabsOK, TasksFit
<1>7. UIFits(r) BY <1>2, <1>3 DEF TabsOK, UIFits, EventFits
<1>8. FlowFits(r) /\ NavFits(r) /\ SlotsFit(r) /\ ActiveFits(r) /\ JumpsFit(r) BY <1>2, PiecesKept
<1> QED BY <1>1, <1>4, <1>5, <1>6, <1>7, <1>8 DEF TabsOK

LEMMA TabInFront ==
    ASSUME TabsOK(rt), rt.active # 0
    PROVE  rt.active \in rt.open /\ rt.active \in RtIds
BY Numbers DEF TabsOK, ActiveFits

LEMMA OpensAndCloses ==
    ASSUME TabsOK(rt), OpenResultTab \/ NavOpen \/ CloseActive \/ CloseAll \/ JumpOrCycle
    PROVE  TabsOK(rt')
<1>1. CASE OpenResultTab BY <1>1, AllEnded, RunOpens DEF OpenResultTab
<1>2. CASE NavOpen BY <1>2, AllEnded, RunOpens DEF NavOpen
<1>3. CASE CloseActive
  <2> DEFINE c == CloseTab(rt, rt.active)
  <2>1. rt' = [c EXCEPT !.keys = @ + 1] BY <1>3 DEF CloseActive, Command
  <2>2. TabsOK(c) BY <1>3, TabInFront, TabCloses DEF CloseActive
  <2> HIDE DEF c
  <2> QED BY <2>1, <2>2, Counted
<1>4. CASE CloseAll
  <2> DEFINE s == invalidateNavigation(rt)
             d == dispose(s, rt.open)
             r == [d EXCEPT !.open = {}, !.active = 0, !.jumps = <<>>, !.cursor = 0, !.conn = 2]
  <2>1. rt' = r BY <1>4 DEF CloseAll
  <2>2. TabsOK(s) /\ s.open = rt.open /\ s.nav = RtNoNav BY NavDropped DEF invalidateNavigation, TabsOK, Shape, RtParts
  <2> HIDE DEF s
  <2>3. Changes(s, d, {"tasks", "ui", "done", "tab"}) BY <2>2, DisposedFrame
  <2>4. DOMAIN d = RtParts /\ d.nav = RtNoNav BY <2>2, <2>3 DEF Changes, RtParts
  <2>5. d = dispose(s, s.open) BY <2>2
  <2> HIDE DEF d
  <2>6. /\ Changes(d, r, {"open", "active", "nav", "jumps", "cursor", "conn", "keys"})
        /\ r.open = {} /\ r.nav = RtNoNav /\ r.active = 0 /\ r.jumps = <<>> /\ r.cursor = 0
    BY <2>4 DEF Changes, RtParts
  <2> HIDE DEF r
  <2>7. ActiveFits(r) /\ JumpsFit(r) BY <2>6 DEF ActiveFits, JumpsFit
  <2>8. r.open = s.open \ s.open BY <2>6
  <2>9. TabsOK(r) BY <2>2, <2>5, <2>6, <2>7, <2>8, Disposed
  <2> QED BY <2>1, <2>9
<1>5. CASE JumpOrCycle
  <2>1. PICK i \in rt.open : SwitchTo(i) BY <1>5 DEF JumpOrCycle
  <2> DEFINE c == setActive(rt, i)
  <2>2. rt' = [c EXCEPT !.keys = @ + 1] /\ TabsOK(c) BY <2>1, NavDropped DEF SwitchTo, Command
  <2> HIDE DEF c
  <2> QED BY <2>2, Counted
<1> QED BY <1>1, <1>2, <1>3, <1>4, <1>5

\* Tabs change, and nothing is served.
LEMMA TabsMoved ==
    ASSUME NEW s, NEW r, TabsOK(s), Changes(s, r, {"tab", "keys"}), DOMAIN r.tab = RtIds,
           \A i \in RtIds : TabStays(s.tab[i], r.tab[i]) /\ r.tab[i].sort = s.tab[i].sort
    PROVE  TabsOK(r)
<1>1. Changes(s, r, {"tab", "ui", "nav", "keys"}) /\ r.ui = s.ui /\ r.nav = s.nav BY DEF Changes, RtParts
<1> QED BY <1>1, TabsTouched

LEMMA SameTab ==
    ASSUME NEW t, DOMAIN t = TabFields
    PROVE  TabStays(t, t)
BY DEF TabStays

LEMMA TabsInPlace ==
    ASSUME TabsOK(rt), PinActive \/ cancelTab \/ PreemptInFlight \/ MarkConnectionLost
    PROVE  TabsOK(rt')
<1>0. DOMAIN rt = RtParts /\ DOMAIN rt.tab = RtIds /\ \A i \in RtIds : DOMAIN rt.tab[i] = TabFields BY DEF TabsOK, Shape
<1>1. CASE PinActive
  <2> DEFINE i == rt.active
             new == [rt.tab[i] EXCEPT !.pinned = ~@]
             c == [rt EXCEPT !.tab[i].pinned = ~@]
  <2>1. rt' = [c EXCEPT !.keys = @ + 1] /\ i \in RtIds BY <1>1, TabInFront DEF PinActive, Command
  <2>2. /\ Changes(rt, c, {"tab", "keys"}) /\ DOMAIN c.tab = RtIds
        /\ c.tab[i] = new /\ \A j \in RtIds \ {i} : c.tab[j] = rt.tab[j]
    BY <1>0, <2>1 DEF Changes, RtParts
  <2>3. TabStays(rt.tab[i], new) /\ new.sort = rt.tab[i].sort BY <1>0, <2>1 DEF TabStays, TabFields
  <2> HIDE DEF c, new
  <2>4. \A j \in RtIds : TabStays(rt.tab[j], c.tab[j]) /\ c.tab[j].sort = rt.tab[j].sort BY <1>0, <2>2, <2>3, SameTab
  <2>5. TabsOK(c) BY <2>2, <2>4, TabsMoved
  <2> QED BY <2>1, <2>5, Counted
<1>2. CASE cancelTab
  <2> DEFINE i == rt.active
             new == [rt.tab[i] EXCEPT !.cancelled = TRUE,
                        !.state = IF @ \in Flowing \cup {"queued"} THEN "cancelled" ELSE @]
             c == [rt EXCEPT !.tab[i].cancelled = TRUE,
                        !.tab[i].state = IF @ \in Flowing \cup {"queued"} THEN "cancelled" ELSE @]
  <2>0. i \in RtIds BY <1>2, TabInFront DEF cancelTab
  <2>1. PICK err \in BOOLEAN :
          Command(IF rt.tab[i].state \in Flowing THEN StopStreams(c, {i}, err) ELSE c)
    BY <1>2 DEF cancelTab
  <2>2. /\ Changes(rt, c, {"tab", "keys"}) /\ DOMAIN c.tab = RtIds
        /\ c.tab[i] = new /\ \A j \in RtIds \ {i} : c.tab[j] = rt.tab[j]
    BY <1>0, <2>0 DEF Changes, RtParts
  <2>3. TabStays(rt.tab[i], new) /\ new.sort = rt.tab[i].sort BY <1>0, <2>0 DEF TabStays, TabFields, Flowing
  <2> HIDE DEF c, new
  <2>4. \A j \in RtIds : TabStays(rt.tab[j], c.tab[j]) /\ c.tab[j].sort = rt.tab[j].sort BY <1>0, <2>2, <2>3, SameTab
  <2>5. TabsOK(c) BY <2>2, <2>4, TabsMoved
  <2> DEFINE d == IF rt.tab[i].state \in Flowing THEN StopStreams(c, {i}, err) ELSE c
  <2>6. TabsOK(d) BY <2>5, StreamsStop
  <2>7. rt' = [d EXCEPT !.keys = @ + 1] BY <2>1 DEF Command
  <2> HIDE DEF d
  <2> QED BY <2>6, <2>7, Counted
<1>3. CASE PreemptInFlight
  <2> DEFINE busy == {i \in rt.open : rt.tab[i].state \in Flowing \cup {"queued"}}
             new(t) == [t EXCEPT !.state = "cancelled", !.cancelled = TRUE]
             m == [i \in RtIds |-> new(rt.tab[i])]
             c == [rt EXCEPT !.tab = [i \in RtIds |->
                     IF i \in busy THEN [@[i] EXCEPT !.state = "cancelled", !.cancelled = TRUE] ELSE @[i]]]
             T == {i \in busy : rt.tab[i].state \in Flowing}
  <2>1. \/ \E err \in BOOLEAN : Command(StopStreams(c, T, err))
        \/ Command(c)
    BY <1>3 DEF PreemptInFlight
  <2>2. \A i \in RtIds : TabStays(rt.tab[i], m[i]) /\ m[i].sort = rt.tab[i].sort
    BY <1>0 DEF TabStays, TabFields, Flowing
  <2>3. Changes(rt, c, {"tab", "keys"}) /\ c.tab = [i \in RtIds |-> IF i \in busy THEN new(rt.tab[i]) ELSE rt.tab[i]]
    BY <1>0 DEF Changes, RtParts
  <2> HIDE DEF c, busy, new
  <2>4. c.tab = [i \in RtIds |-> IF i \in busy THEN m[i] ELSE rt.tab[i]] BY <2>3
  <2> HIDE DEF m
  <2>5. TabsOK(c)
    <3>1. DOMAIN c.tab = RtIds /\ \A j \in RtIds : c.tab[j] \in {m[j], rt.tab[j]} BY <2>4
    <3>2. \A j \in RtIds : TabStays(rt.tab[j], c.tab[j]) /\ c.tab[j].sort = rt.tab[j].sort BY <1>0, <2>2, <3>1, SameTab
    <3> QED BY <2>3, <3>1, <3>2, TabsMoved
  <2>6. CASE Command(c)
    <3>1. rt' = [c EXCEPT !.keys = @ + 1] BY <2>6 DEF Command
    <3> QED BY <2>5, <3>1, Counted
  <2>7. CASE \E err \in BOOLEAN : Command(StopStreams(c, T, err))
    <3>1. PICK err \in BOOLEAN : Command(StopStreams(c, T, err)) BY <2>7
    <3> DEFINE d == StopStreams(c, T, err)
    <3>2. TabsOK(d) BY <2>5, StreamsStop
    <3>3. rt' = [d EXCEPT !.keys = @ + 1] BY <3>1 DEF Command
    <3> HIDE DEF d
    <3> QED BY <3>2, <3>3, Counted
  <2> QED BY <2>1, <2>6, <2>7
<1>4. CASE MarkConnectionLost
  <2> DEFINE busy == {i \in rt.open : rt.tab[i].state \in Flowing \cup {"queued"}}
             new(t) == [t EXCEPT !.state = "connection lost"]
             m == [i \in RtIds |-> new(rt.tab[i])]
             c == [rt EXCEPT !.tab = [i \in RtIds |->
                     IF i \in busy THEN [@[i] EXCEPT !.state = "connection lost"] ELSE @[i]]]
  <2>1. rt' = [c EXCEPT !.keys = @ + 1] BY <1>4 DEF MarkConnectionLost, Command
  <2>2. \A i \in RtIds : TabStays(rt.tab[i], m[i]) /\ m[i].sort = rt.tab[i].sort
    BY <1>0 DEF TabStays, TabFields, Flowing
  <2>3. Changes(rt, c, {"tab", "keys"}) /\ c.tab = [i \in RtIds |-> IF i \in busy THEN new(rt.tab[i]) ELSE rt.tab[i]]
    BY <1>0 DEF Changes, RtParts
  <2> HIDE DEF c, busy, new
  <2>4. c.tab = [i \in RtIds |-> IF i \in busy THEN m[i] ELSE rt.tab[i]] BY <2>3
  <2> HIDE DEF m
  <2>5. TabsOK(c)
    <3>1. DOMAIN c.tab = RtIds /\ \A j \in RtIds : c.tab[j] \in {m[j], rt.tab[j]} BY <2>4
    <3>2. \A j \in RtIds : TabStays(rt.tab[j], c.tab[j]) /\ c.tab[j].sort = rt.tab[j].sort BY <1>0, <2>2, <3>1, SameTab
    <3> QED BY <2>3, <3>1, <3>2, TabsMoved
  <2> QED BY <2>1, <2>5, Counted
<1> QED BY <1>1, <1>2, <1>3, <1>4

LEMMA StreamsPost ==
    ASSUME TabsOK(rt), StreamBatch \/ StreamEnd \/ ReadToEnd
    PROVE  TabsOK(rt')
<1>0. DOMAIN rt = RtParts BY DEF TabsOK, Shape
<1>1. CASE StreamBatch
  <2>1. PICK t \in rt.tasks :
          rt' = [rt EXCEPT !.ui = @ \cup {[kind |-> "append", tab |-> t.tab, gen |-> t.gen, run |-> t.run]}]
    BY <1>1 DEF StreamBatch
  <2> DEFINE e == [kind |-> "append", tab |-> t.tab, gen |-> t.gen, run |-> t.run]
             r == [rt EXCEPT !.ui = @ \cup {e}]
  <2>2. e.kind = "append" /\ e.tab = t.tab /\ e.gen = t.gen /\ e.run = t.run OBVIOUS
  <2>3. rt' = r BY <2>1
  <2> HIDE DEF e
  <2>4. Changes(rt, r, {"ui", "keys"}) /\ r.ui = rt.ui \cup {e} BY <1>0 DEF Changes, RtParts
  <2> HIDE DEF r
  <2>5. e.tab \in rt.open /\ EventFits(rt.n, e, rt.tab[e.tab]) BY <2>2, TaskKnown DEF EventFits
  <2> QED BY <2>3, <2>4, <2>5, EventPosted
<1>2. CASE StreamEnd
  <2>1. PICK t \in rt.tasks, err \in BOOLEAN :
          rt' = [rt EXCEPT !.tasks = @ \ {t}, !.done = @ \cup {t.run}, !.ui = @ \cup {Flip(t, err)},
                           !.eof = IF err THEN @ ELSE @ \cup {t.run}]
    BY <1>2 DEF StreamEnd
  <2> DEFINE r == [rt EXCEPT !.tasks = @ \ {t}, !.done = @ \cup {t.run}, !.ui = @ \cup {Flip(t, err)},
                             !.eof = IF err THEN @ ELSE @ \cup {t.run}]
  <2>2. /\ Changes(rt, r, {"tasks", "ui", "done", "eof", "keys"})
        /\ r.tasks = rt.tasks \ {t} /\ r.ui = rt.ui \cup {Flip(t, err)}
        /\ r.done = rt.done \cup {t.run}
    BY <1>0 DEF Changes, RtParts
  <2>3. rt' = r BY <2>1
  <2> HIDE DEF r
  <2> DEFINE ts == {t}
  <2>4. ts \subseteq rt.tasks /\ {Flip(u, err) : u \in ts} = {Flip(t, err)} /\ {u.run : u \in ts} = {t.run} OBVIOUS
  <2>5. /\ r.tasks = rt.tasks \ ts /\ r.ui = rt.ui \cup {Flip(u, err) : u \in ts}
        /\ r.done = rt.done \cup {u.run : u \in ts}
    BY <2>2, <2>4
  <2> HIDE DEF ts
  <2>6. TabsOK(r) BY <2>2, <2>4, <2>5, StreamsEnd
  <2> QED BY <2>3, <2>6
<1>3. CASE ReadToEnd
  <2> DEFINE e == [kind |-> "flip", tab |-> rt.active, gen |-> 0, err |-> FALSE]
             r == [rt EXCEPT !.ui = @ \cup {e}]
  <2>1. e.kind = "flip" /\ e.tab = rt.active OBVIOUS
  <2>2. rt' = [r EXCEPT !.keys = @ + 1] BY <1>3 DEF ReadToEnd, Command
  <2> HIDE DEF e
  <2>3. Changes(rt, r, {"ui", "keys"}) /\ r.ui = rt.ui \cup {e} BY <1>0 DEF Changes, RtParts
  <2> HIDE DEF r
  <2>4. e.tab \in rt.open /\ EventFits(rt.n, e, rt.tab[e.tab])
    <3>1. rt.active \in rt.open BY <1>3, TabInFront DEF ReadToEnd
    <3> QED BY <2>1, <3>1 DEF EventFits
  <2>5. TabsOK(r) BY <2>3, <2>4, EventPosted
  <2> QED BY <2>2, <2>5, Counted
<1> QED BY <1>1, <1>2, <1>3

LEMMA QueueMoves ==
    ASSUME TabsOK(rt), queueBehind
    PROVE  TabsOK(rt')
<1>0. DOMAIN rt = RtParts /\ DOMAIN rt.tab = RtIds /\ \A i \in RtIds : DOMAIN rt.tab[i] = TabFields BY DEF TabsOK, Shape
<1>1. PICK i \in RtIds :
        /\ rt.tab[i].wait # 0
        /\ \/ rt' = [rt EXCEPT !.tab[i].wait = 0, !.ui = @ \cup {[kind |-> "resume", tab |-> i]}]
           \/ rt' = [rt EXCEPT !.tab[i].wait = 0]
  BY DEF queueBehind
<1>2. i \in rt.open /\ rt.tab[i].gen = 0 /\ rt.tab[i].run # 0 BY <1>1 DEF TabsOK, TabsFit, TabFits
<1> DEFINE new == [rt.tab[i] EXCEPT !.wait = 0]
           c == [rt EXCEPT !.tab[i].wait = 0]
           e == [kind |-> "resume", tab |-> i]
           r == [rt EXCEPT !.tab[i].wait = 0, !.ui = @ \cup {e}]
<1>3. /\ Changes(rt, c, {"tab", "keys"}) /\ DOMAIN c.tab = RtIds
      /\ c.tab[i] = new /\ \A j \in RtIds \ {i} : c.tab[j] = rt.tab[j]
  BY <1>0 DEF Changes, RtParts
<1>4. /\ TabStays(rt.tab[i], new) /\ new.sort = rt.tab[i].sort /\ new.wait = 0
      /\ new.gen = rt.tab[i].gen /\ new.run = rt.tab[i].run
  BY <1>0 DEF TabStays, TabFields
<1>5. e.kind = "resume" /\ e.tab = i /\ e = [kind |-> "resume", tab |-> e.tab] OBVIOUS
<1> HIDE DEF e
<1>6. Changes(c, r, {"ui", "keys"}) /\ r.ui = c.ui \cup {e} BY <1>0 DEF Changes, RtParts
<1>7. rt' = c \/ rt' = r BY <1>1 DEF e
<1> HIDE DEF c, r, new
<1>8. TabsOK(c)
  <2>1. \A j \in RtIds : TabStays(rt.tab[j], c.tab[j]) /\ c.tab[j].sort = rt.tab[j].sort BY <1>0, <1>3, <1>4, SameTab
  <2> QED BY <1>3, <2>1, TabsMoved
<1>9. TabsOK(r)
  <2>1. e.tab \in c.open /\ c.open = rt.open BY <1>2, <1>3, <1>5 DEF Changes, RtParts
  <2>2. c.tab[e.tab].gen = 0 /\ c.tab[e.tab].wait = 0 /\ c.tab[e.tab].run # 0 BY <1>2, <1>3, <1>4, <1>5
  <2>3. EventFits(c.n, e, c.tab[e.tab]) BY <1>5, <2>2 DEF EventFits
  <2> QED BY <1>6, <1>8, <2>1, <2>3, EventPosted
<1> QED BY <1>7, <1>8, <1>9

\* A tab starts a stream again: for the run it waited with, or for a sort of its query.
TabRestarts(s, r, i) ==
    /\ Changes(s, r, {"n", "dir", "nav", "ui", "tab", "tasks"}) /\ TabChanges(s, r, i) /\ NavFits(r)
    /\ r.n \in {s.n, s.n + 1} /\ r.n <= RtRuns /\ DOMAIN r.dir = RtIds
    /\ \A k \in RtIds : k <= s.n => r.dir[k] = s.dir[k]
    /\ \A k \in RtIds : k > r.n => r.dir[k] = 0
    /\ r.tab[i].gen = s.tab[i].gen + 1 /\ r.tab[i].egen \in {s.tab[i].egen + 1, s.tab[i].egen + 2}
    /\ r.tab[i].run \in 1..r.n /\ r.tab[i].run \notin s.done
    /\ \A j \in s.open \ {i} : s.tab[j].run # r.tab[i].run
    /\ r.tab[i].slot = s.tab[i].slot /\ r.tab[i].disposed = s.tab[i].disposed
    /\ r.tab[i].rows = {} /\ r.tab[i].edit = 0 /\ r.tab[i].wait = 0
    /\ r.tab[i].shown = r.dir[r.tab[i].run]
    /\ r.tasks = s.tasks \cup {[tab |-> i, gen |-> r.tab[i].gen, run |-> r.tab[i].run]}
    /\ \A t \in s.tasks : t.tab # i
    /\ \E ev : /\ ev.kind = "edit" /\ ev.tab = i /\ ev.gen = r.tab[i].egen /\ ev.run = r.tab[i].run
               /\ r.ui \subseteq s.ui \cup {ev}
    /\ \A e \in s.ui : e.kind = "flip" => e \in r.ui
    /\ \A e \in r.ui \cap s.ui : e.kind = "resume" => e.tab # i

LEMMA Restarted ==
    ASSUME NEW s, NEW r, NEW i \in s.open, TabsOK(s), TabRestarts(s, r, i)
    PROVE  TabsOK(r)
<1>1. /\ r.open = s.open /\ r.done = s.done /\ DOMAIN r = RtParts /\ DOMAIN r.tab = RtIds
      /\ \A j \in RtIds \ {i} : r.tab[j] = s.tab[j]
  BY DEF TabRestarts, TabChanges, Changes, RtParts
<1>2. /\ s.n \in Nat /\ r.n \in Nat /\ s.n <= r.n /\ RtRuns \in Nat /\ s.open \subseteq RtIds /\ i \in RtIds
      /\ s.open \subseteq 1..s.n /\ s.done \subseteq 1..s.n /\ r.n <= RtRuns
  BY Numbers DEF TabRestarts, TabsOK, Shape
<1>3. s.tab[i].gen \in Nat /\ s.tab[i].egen \in Nat /\ ~s.tab[i].disposed BY DEF TabsOK, TabsFit, TabFits
<1>4. /\ r.tab[i].gen \in Nat /\ r.tab[i].egen \in Nat /\ r.tab[i].gen # 0
      /\ r.tab[i].gen > s.tab[i].gen /\ r.tab[i].egen > s.tab[i].egen
  BY <1>3 DEF TabRestarts
<1>5. Shape(r)
  <2>1. r.n \in 0..RtRuns /\ r.open \subseteq 1..r.n /\ r.done \subseteq 1..r.n BY <1>1, <1>2
  <2>2. \A j \in RtIds : DOMAIN r.tab[j] = TabFields BY <1>1 DEF TabRestarts, TabChanges, TabsOK, Shape
  <2> QED BY <1>1, <2>1, <2>2 DEF TabRestarts, Shape
<1>6. TabsFit(r)
  <2>1. TabFits(r.n, r.dir, r.done, r.tab[i]) BY <1>1, <1>2, <1>3, <1>4 DEF TabRestarts, TabFits
  <2>2. ASSUME NEW j \in s.open, j # i PROVE TabFits(r.n, r.dir, r.done, r.tab[j])
    <3>1. TabFits(s.n, s.dir, s.done, s.tab[j]) /\ r.tab[j] = s.tab[j] BY <1>1, <1>2, <2>2 DEF TabsOK, TabsFit
    <3>2. s.tab[j].run \in 0..s.n BY <3>1 DEF TabFits
    <3>3. s.tab[j].run # 0 => s.tab[j].run \in RtIds /\ s.tab[j].run <= s.n BY <1>2, <3>2 DEF RtIds
    <3>4. s.tab[j].run # 0 => r.dir[s.tab[j].run] = s.dir[s.tab[j].run] BY <3>3 DEF TabRestarts
    <3>5. s.tab[j].run \in 0..r.n BY <1>2, <3>2
    <3> QED BY <1>1, <3>1, <3>4, <3>5 DEF TabFits
  <2>3. \A j \in RtIds \ r.open : r.tab[j].wait = 0 BY <1>1 DEF TabsOK, TabsFit
  <2>4. ASSUME NEW j \in r.open, NEW k \in r.open, r.tab[j].run = r.tab[k].run PROVE j = k \/ r.tab[j].run = 0
    <3>1. CASE j = i \/ k = i BY <1>1, <1>2, <2>4, <3>1 DEF TabRestarts
    <3>2. CASE j # i /\ k # i BY <1>1, <1>2, <2>4, <3>2 DEF TabsOK, TabsFit
    <3> QED BY <3>1, <3>2
  <2>5. \A j \in r.open : TabFits(r.n, r.dir, r.done, r.tab[j]) BY <1>1, <2>1, <2>2
  <2> QED BY <2>3, <2>4, <2>5 DEF TabsFit
<1>7. TasksFit(r)
  <2>1. ASSUME NEW t \in s.tasks
        PROVE  /\ t.tab \in r.open
               /\ t = [tab |-> t.tab, gen |-> r.tab[t.tab].gen, run |-> r.tab[t.tab].run]
               /\ r.tab[t.tab].gen # 0 /\ r.tab[t.tab].run # 0 /\ r.tab[t.tab].run \notin r.done
    <3>1. t.tab \in s.open /\ t.tab # i /\ r.tab[t.tab] = s.tab[t.tab] BY <1>1, <1>2 DEF TabRestarts, TabsOK, TasksFit
    <3> QED BY <1>1, <3>1 DEF TabsOK, TasksFit
  <2>2. ASSUME NEW t \in r.tasks, t \notin s.tasks
        PROVE  /\ t.tab \in r.open
               /\ t = [tab |-> t.tab, gen |-> r.tab[t.tab].gen, run |-> r.tab[t.tab].run]
               /\ r.tab[t.tab].gen # 0 /\ r.tab[t.tab].run # 0 /\ r.tab[t.tab].run \notin r.done
    <3>1. t = [tab |-> i, gen |-> r.tab[i].gen, run |-> r.tab[i].run] BY <2>2 DEF TabRestarts
    <3>2. r.tab[i].run # 0 /\ r.tab[i].run \notin r.done BY <1>1, <1>2 DEF TabRestarts
    <3> QED BY <1>1, <1>4, <3>1, <3>2
  <2> QED BY <2>1, <2>2 DEF TasksFit
<1>8. UIFits(r)
  <2>1. ASSUME NEW e \in s.ui, e \in r.ui PROVE e.tab \in r.open /\ EventFits(r.n, e, r.tab[e.tab])
    <3>1. e.tab \in s.open /\ EventFits(s.n, e, s.tab[e.tab]) BY DEF TabsOK, UIFits
    <3>2. CASE e.tab # i
      <4>1. r.tab[e.tab] = s.tab[e.tab] BY <1>1, <1>2, <3>1, <3>2
      <4> QED BY <1>1, <1>2, <3>1, <4>1 DEF EventFits
    <3>3. CASE e.tab = i
      <4>1. e.kind # "resume" BY <2>1, <3>3 DEF TabRestarts
      <4>2. e.kind = "append" => e.gen \in Nat /\ e.gen <= s.tab[i].gen /\ e.run \in 1..s.n BY <3>1, <3>3 DEF EventFits
      <4>3. e.kind = "edit" => e.gen \in Nat /\ e.gen <= s.tab[i].egen BY <3>1, <3>3 DEF EventFits
      <4>4. e.kind = "append" => e.gen <= r.tab[i].gen /\ e.gen # r.tab[i].gen /\ e.run \in 1..r.n
        BY <1>2, <1>3, <1>4, <4>2
      <4>5. e.kind = "edit" => e.gen <= r.tab[i].egen /\ e.gen # r.tab[i].egen BY <1>3, <1>4, <4>3
      <4>6. e.kind \in {"append", "flip", "edit", "resume"} BY <3>1 DEF EventFits
      <4> QED BY <1>1, <3>1, <3>3, <4>1, <4>2, <4>3, <4>4, <4>5, <4>6 DEF EventFits
    <3> QED BY <3>2, <3>3
  <2>2. ASSUME NEW e \in r.ui, e \notin s.ui PROVE e.tab \in r.open /\ EventFits(r.n, e, r.tab[e.tab])
    <3>1. e.kind = "edit" /\ e.tab = i /\ e.gen = r.tab[i].egen /\ e.run = r.tab[i].run BY <2>2 DEF TabRestarts
    <3> QED BY <1>1, <1>4, <3>1 DEF EventFits
  <2> QED BY <2>1, <2>2 DEF UIFits
<1>9. FlowFits(r)
  <2>1. ASSUME NEW j \in s.open, j # i, r.tab[j].state \in Flowing
        PROVE  \/ \E t \in r.tasks : t.tab = j /\ t.gen = r.tab[j].gen
               \/ \E e \in r.ui : e.kind = "flip" /\ e.tab = j /\ e.gen = r.tab[j].gen
    <3>1. r.tab[j] = s.tab[j] /\ s.tasks \subseteq r.tasks /\ \A e \in s.ui : e.kind = "flip" => e \in r.ui
      BY <1>1, <1>2, <2>1 DEF TabRestarts
    <3> QED BY <2>1, <3>1 DEF TabsOK, FlowFits
  <2>2. \E t \in r.tasks : t.tab = i /\ t.gen = r.tab[i].gen
    <3>1. [tab |-> i, gen |-> r.tab[i].gen, run |-> r.tab[i].run] \in r.tasks BY DEF TabRestarts
    <3> QED BY <3>1
  <2> QED BY <1>1, <2>1, <2>2 DEF FlowFits
<1>10. SlotsFit(r)
  <2>1. \A j \in r.open : r.tab[j].slot = s.tab[j].slot BY <1>1, <1>2 DEF TabRestarts
  <2> QED BY <1>1, <2>1 DEF TabsOK, SlotsFit
<1>11. ActiveFits(r) /\ JumpsFit(r) BY PiecesKept DEF TabRestarts
<1>12. NavFits(r) BY DEF TabRestarts
<1> QED BY <1>5, <1>6, <1>7, <1>8, <1>9, <1>10, <1>11, <1>12 DEF TabsOK

LEMMA Adopted ==
    ASSUME TabsOK(rt), AdoptSort
    PROVE  TabsOK(rt')
<1>0. DOMAIN rt = RtParts /\ DOMAIN rt.tab = RtIds /\ \A i \in RtIds : DOMAIN rt.tab[i] = TabFields BY DEF TabsOK, Shape
<1>1. CASE ~NavCurrent BY <1>1, NavDropped DEF AdoptSort
<1>2. CASE NavCurrent
  <2> DEFINE i == rt.nav.tab
             run == rt.n + 1
             dir == rt.nav.dir
             new == [rt.tab[i] EXCEPT !.run = run, !.complete = FALSE, !.cancelled = FALSE,
                                !.state = "sorting", !.egen = @ + 1]
             s == [rt EXCEPT !.n = run, !.dir[run] = dir, !.nav = RtNoNav, !.tab[i] = new]
             w == startStreaming(s, i)
             ev == Introspect(w, i)
             shown == w.tab[i].sort
             r == [w EXCEPT !.tab[i].shown = shown, !.ui = @ \cup {ev}]
  <2>0. /\ rt.nav.stage = "ready" /\ rt.nav.kind = "sort" /\ rt.tasks = {} /\ rt.n < RtRuns
        /\ \A k \in 1..rt.n : k \in rt.done
    BY <1>2, AllEnded DEF AdoptSort, SessionFree
  <2>1. rt' = r BY <1>2 DEF AdoptSort, Reattached
  <2>2. /\ i \in rt.open /\ i \in RtIds /\ rt.tab[i].gen # 0 /\ rt.tab[i].sort = dir
    BY <2>0, Numbers DEF TabsOK, NavFits
  <2>3. rt.tab[i].wait = 0 /\ ~rt.tab[i].disposed /\ rt.tab[i].gen \in Nat /\ rt.tab[i].egen \in Nat
    BY <2>2 DEF TabsOK, TabsFit, TabFits
  <2>4. /\ rt.n \in Nat /\ RtRuns \in Nat /\ run \in RtIds /\ run <= RtRuns /\ rt.done \subseteq 1..rt.n
    BY <2>0, Numbers DEF TabsOK, Shape, RtIds
  <2>5. /\ DOMAIN new = TabFields /\ new.run = run /\ new.egen = rt.tab[i].egen + 1 /\ new.gen = rt.tab[i].gen
        /\ new.slot = rt.tab[i].slot /\ new.disposed = rt.tab[i].disposed /\ new.wait = rt.tab[i].wait
        /\ new.sort = rt.tab[i].sort
    BY <1>0, <2>2 DEF TabFields
  <2> HIDE DEF new
  <2>6. /\ DOMAIN s = RtParts /\ s.n = run /\ s.nav = RtNoNav /\ s.tab[i] = new
        /\ DOMAIN s.tab = RtIds /\ (\A j \in RtIds \ {i} : s.tab[j] = rt.tab[j])
        /\ \A f \in RtParts \ {"n", "dir", "nav", "tab"} : s[f] = rt[f]
    BY <1>0, <2>2 DEF RtParts
  <2>7. DOMAIN s.dir = RtIds /\ s.dir[run] = dir /\ \A k \in RtIds \ {run} : s.dir[k] = rt.dir[k]
    <3>1. DOMAIN rt.dir = RtIds BY DEF TabsOK, Shape
    <3> QED BY <1>0, <2>4, <3>1 DEF RtParts
  <2> HIDE DEF s
  <2>8. s.tasks = {} BY <2>0, <2>6 DEF RtParts
  <2>9. /\ Changes(s, w, {"tab", "tasks"}) /\ TabChanges(s, w, i)
        /\ w.tab[i].gen = s.tab[i].gen + 1 /\ w.tab[i].egen = s.tab[i].egen + 1
        /\ w.tab[i].rows = {} /\ w.tab[i].edit = 0
        /\ w.tab[i].slot = s.tab[i].slot /\ w.tab[i].disposed = s.tab[i].disposed
        /\ w.tab[i].run = s.tab[i].run /\ w.tab[i].wait = s.tab[i].wait /\ w.tab[i].sort = s.tab[i].sort
        /\ w.tasks = s.tasks \cup {[tab |-> i, gen |-> w.tab[i].gen, run |-> w.tab[i].run]}
    <3>1. DOMAIN s = RtParts /\ DOMAIN s.tab = RtIds /\ DOMAIN s.tab[i] = TabFields /\ i \in RtIds BY <2>2, <2>5, <2>6
    <3>2. \A t \in s.tasks : t.tab # i BY <2>8
    <3>3. /\ Changes(s, w, {"tab", "tasks"}) /\ TabChanges(s, w, i)
          /\ w.tab[i].gen = s.tab[i].gen + 1 /\ w.tab[i].egen = s.tab[i].egen + 1
          /\ w.tab[i].rows = {} /\ w.tab[i].edit = 0
          /\ w.tab[i].slot = s.tab[i].slot /\ w.tab[i].disposed = s.tab[i].disposed
          /\ w.tab[i].run = s.tab[i].run /\ w.tab[i].wait = s.tab[i].wait /\ w.tab[i].sort = s.tab[i].sort
          /\ (\A t \in s.tasks : t.tab # i) =>
               w.tasks = s.tasks \cup {[tab |-> i, gen |-> w.tab[i].gen, run |-> w.tab[i].run]}
      BY <3>1, StreamStarts
    <3> HIDE DEF w
    <3> QED BY <3>2, <3>3
  <2> HIDE DEF w
  <2>10. ev.kind = "edit" /\ ev.tab = i /\ ev.gen = w.tab[i].egen /\ ev.run = w.tab[i].run BY DEF Introspect
  <2> HIDE DEF ev
  <2>11. shown = dir BY <2>2, <2>5, <2>6, <2>9
  <2> HIDE DEF shown
  <2>12. /\ DOMAIN r = RtParts /\ r.ui = w.ui \cup {ev} /\ DOMAIN r.tab = RtIds
         /\ (\A j \in RtIds \ {i} : r.tab[j] = w.tab[j])
         /\ \A f \in RtParts \ {"ui", "tab"} : r[f] = w[f]
    BY <2>2, <2>9 DEF Changes, TabChanges, RtParts
  <2>13. /\ DOMAIN r.tab[i] = TabFields /\ r.tab[i].shown = shown
         /\ \A f \in TabFields \ {"shown"} : r.tab[i][f] = w.tab[i][f]
    BY <2>2, <2>9 DEF Changes, TabChanges, RtParts, TabFields
  <2> HIDE DEF r
  <2>14. /\ r.tab[i].gen = w.tab[i].gen /\ r.tab[i].egen = w.tab[i].egen /\ r.tab[i].rows = w.tab[i].rows
         /\ r.tab[i].edit = w.tab[i].edit /\ r.tab[i].slot = w.tab[i].slot
         /\ r.tab[i].disposed = w.tab[i].disposed /\ r.tab[i].run = w.tab[i].run /\ r.tab[i].wait = w.tab[i].wait
    BY <2>13 DEF TabFields
  <2>15. /\ Changes(rt, r, {"n", "dir", "nav", "ui", "tab", "tasks"})
         /\ r.n = run /\ r.dir = s.dir /\ r.nav = RtNoNav /\ r.ui = rt.ui \cup {ev} /\ r.tasks = w.tasks
    BY <2>6, <2>9, <2>12 DEF Changes, RtParts
  <2>16. TabChanges(rt, r, i) BY <2>6, <2>9, <2>12, <2>13 DEF TabChanges
  <2>17. NavFits(r) BY <2>15 DEF NavFits, RtNoNav
  <2>18. (\A k \in RtIds : k <= rt.n => r.dir[k] = rt.dir[k]) /\ DOMAIN r.dir = RtIds BY <2>4, <2>7, <2>15
  <2>19. ASSUME NEW k \in RtIds, k > r.n PROVE r.dir[k] = 0
    <3>1. k # run /\ k > rt.n BY <2>4, <2>15, <2>19 DEF RtIds
    <3> QED BY <2>7, <2>15, <3>1 DEF TabsOK, Shape
  <2>20. /\ r.tab[i].gen = rt.tab[i].gen + 1 /\ r.tab[i].egen = rt.tab[i].egen + 2
         /\ r.tab[i].run = run /\ r.tab[i].slot = rt.tab[i].slot /\ r.tab[i].disposed = rt.tab[i].disposed
         /\ r.tab[i].rows = {} /\ r.tab[i].edit = 0 /\ r.tab[i].wait = 0 /\ r.tab[i].shown = r.dir[run]
    <3>1. s.tab[i] = new BY <2>6
    <3>2. /\ w.tab[i].gen = rt.tab[i].gen + 1 /\ w.tab[i].egen = rt.tab[i].egen + 2
          /\ w.tab[i].run = run /\ w.tab[i].slot = rt.tab[i].slot /\ w.tab[i].disposed = rt.tab[i].disposed
          /\ w.tab[i].wait = 0
      BY <2>3, <2>5, <2>9, <3>1
    <3>3. r.tab[i].shown = r.dir[run] BY <2>7, <2>11, <2>13, <2>15
    <3> QED BY <2>9, <2>14, <3>2, <3>3
  <2>21. /\ run \in 1..r.n /\ run \notin rt.done /\ r.n = rt.n + 1
         /\ \A j \in rt.open : rt.tab[j].run # run
    <3>1. \A j \in rt.open : rt.tab[j].run \in 0..rt.n BY DEF TabsOK, TabsFit, TabFits
    <3> QED BY <2>4, <2>15, <3>1
  <2>22. r.tasks = rt.tasks \cup {[tab |-> i, gen |-> r.tab[i].gen, run |-> r.tab[i].run]}
    BY <2>0, <2>8, <2>9, <2>14, <2>15
  <2>23. \A e \in rt.ui : e.kind = "resume" => e.tab # i BY <2>2 DEF TabsOK, UIFits, EventFits
  <2>24. \E v : /\ v.kind = "edit" /\ v.tab = i /\ v.gen = r.tab[i].egen /\ v.run = r.tab[i].run
                /\ r.ui \subseteq rt.ui \cup {v}
    BY <2>10, <2>14, <2>15
  <2> HIDE DEF run, i, dir
  <2>25. TabRestarts(rt, r, i)
    <3>1. /\ r.n \in {rt.n, rt.n + 1} /\ r.n <= RtRuns
          /\ r.tab[i].egen \in {rt.tab[i].egen + 1, rt.tab[i].egen + 2}
      BY <2>4, <2>15, <2>20, <2>21
    <3>2. r.tab[i].run \in 1..r.n /\ r.tab[i].run \notin rt.done /\ r.tab[i].shown = r.dir[r.tab[i].run]
          /\ \A j \in rt.open \ {i} : rt.tab[j].run # r.tab[i].run
      BY <2>20, <2>21
    <3>3. (\A t \in rt.tasks : t.tab # i) /\ \A e \in rt.ui : e \in r.ui BY <2>0, <2>15
    <3> QED BY <2>15, <2>16, <2>17, <2>18, <2>19, <2>20, <2>22, <2>23, <2>24, <3>1, <3>2, <3>3 DEF TabRestarts
  <2>26. TabsOK(r) BY <2>2, <2>25, Restarted
  <2> QED BY <2>1, <2>26
<1> QED BY <1>1, <1>2

\* An event is served and touches at most its own tab.
LEMMA ServedOn ==
    ASSUME TabsOK(rt), NEW e \in rt.ui, NEW r, NEW new,
           Changes(rt, r, {"tab", "ui"}), r.ui = rt.ui \ {e}, DOMAIN r.tab = RtIds,
           r.tab[e.tab] = new, \A j \in RtIds \ {e.tab} : r.tab[j] = rt.tab[j],
           TabStays(rt.tab[e.tab], new), new.sort = rt.tab[e.tab].sort,
           e.kind = "flip" /\ e.gen = rt.tab[e.tab].gen => new.state \notin Flowing
    PROVE  TabsOK(r)
<1>1. \A j \in RtIds : TabStays(rt.tab[j], r.tab[j]) /\ r.tab[j].sort = rt.tab[j].sort
  <2>1. \A j \in RtIds : DOMAIN rt.tab[j] = TabFields BY DEF TabsOK, Shape
  <2> QED BY <2>1, SameTab
<1>2. Changes(rt, r, {"tab", "ui", "nav", "keys"}) /\ r.nav = rt.nav BY DEF Changes, RtParts
<1> QED BY <1>1, <1>2, TabsTouched

LEMMA Serving ==
    ASSUME TabsOK(rt), NEW e \in rt.ui
    PROVE  /\ e.tab \in rt.open /\ e.tab \in RtIds /\ EventFits(rt.n, e, rt.tab[e.tab])
           /\ Changes(rt, Served(e), {"ui"}) /\ Served(e).ui = rt.ui \ {e} /\ Served(e).tab = rt.tab
           /\ DOMAIN rt = RtParts /\ DOMAIN rt.tab = RtIds /\ DOMAIN rt.tab[e.tab] = TabFields
           /\ ~rt.tab[e.tab].disposed
           /\ ~(e.kind = "flip" /\ e.gen = rt.tab[e.tab].gen) => TabsOK(Served(e))
<1>1. /\ DOMAIN rt = RtParts /\ DOMAIN rt.tab = RtIds /\ \A j \in RtIds : DOMAIN rt.tab[j] = TabFields
  BY DEF TabsOK, Shape
<1>2. e.tab \in rt.open /\ e.tab \in RtIds /\ EventFits(rt.n, e, rt.tab[e.tab]) BY Numbers DEF TabsOK, UIFits
<1>3. Changes(rt, Served(e), {"ui"}) /\ Served(e).ui = rt.ui \ {e} /\ Served(e).tab = rt.tab
  BY <1>1 DEF Served, Changes, RtParts
<1>4. ~rt.tab[e.tab].disposed BY <1>2 DEF TabsOK, TabsFit, TabFits
<1>5. ASSUME ~(e.kind = "flip" /\ e.gen = rt.tab[e.tab].gen) PROVE TabsOK(Served(e))
  <2> DEFINE r == Served(e)
             new == rt.tab[e.tab]
  <2>1. Changes(rt, r, {"tab", "ui"}) /\ r.ui = rt.ui \ {e} /\ r.tab = rt.tab BY <1>3 DEF Changes
  <2>2. TabStays(rt.tab[e.tab], new) BY <1>1, <1>2, SameTab
  <2> HIDE DEF r
  <2>3. TabsOK(r) BY <1>1, <1>2, <1>5, <2>1, <2>2, ServedOn
  <2> QED BY <2>3 DEF r
<1> QED BY <1>1, <1>2, <1>3, <1>4, <1>5

LEMMA RowsAppended ==
    ASSUME TabsOK(rt), NEW e \in rt.ui, e.kind = "append", appendRows(e)
    PROVE  TabsOK(rt')
<1>1. CASE ~Live(e) BY <1>1, Serving DEF appendRows
<1>2. CASE Live(e)
  <2> DEFINE i == e.tab
             s == Served(e)
             new == [rt.tab[i] EXCEPT !.rows = @ \cup {e.run}, !.state = IF @ = "sorting" THEN "running" ELSE @]
             r == [s EXCEPT !.tab[i].rows = @ \cup {e.run},
                            !.tab[i].state = IF @ = "sorting" THEN "running" ELSE @]
  <2>1. rt' = r BY <1>2 DEF appendRows
  <2>2. /\ i \in RtIds /\ DOMAIN rt = RtParts /\ DOMAIN rt.tab = RtIds /\ DOMAIN rt.tab[i] = TabFields
        /\ Changes(rt, s, {"ui"}) /\ s.ui = rt.ui \ {e} /\ s.tab = rt.tab /\ i \in rt.open
        /\ EventFits(rt.n, e, rt.tab[i])
    BY Serving
  <2> HIDE DEF s
  <2>3. /\ DOMAIN r.tab = RtIds /\ r.tab[i] = new /\ (\A j \in RtIds \ {i} : r.tab[j] = rt.tab[j])
        /\ Changes(rt, r, {"tab", "ui"}) /\ r.ui = rt.ui \ {e}
    BY <2>2 DEF Changes, RtParts
  <2> HIDE DEF r
  <2>4. e.run = rt.tab[i].run /\ e.run # 0
    <3>1. e.run \in 1..rt.n /\ rt.n \in Nat /\ e.gen = rt.tab[i].gen BY <1>2, <2>2, Numbers DEF EventFits, Live
    <3> QED BY <2>2, <3>1 DEF EventFits
  <2>5. TabStays(rt.tab[i], new) /\ new.sort = rt.tab[i].sort BY <2>2, <2>4 DEF TabStays, TabFields, Flowing
  <2> HIDE DEF new
  <2>6. TabsOK(r) BY <2>3, <2>5, ServedOn
  <2> QED BY <2>1, <2>6
<1> QED BY <1>1, <1>2

LEMMA Completed ==
    ASSUME TabsOK(rt), NEW e \in rt.ui, e.kind = "flip", markCompleteOnUI(e)
    PROVE  TabsOK(rt')
<1>1. CASE ~Live(e) BY <1>1, Serving DEF markCompleteOnUI, Live
<1>2. CASE Live(e)
  <2> DEFINE i == e.tab
             s == Served(e)
             to(old) == IF old \notin Flowing THEN old
                        ELSE IF rt.tab[i].cancelled THEN "cancelled"
                        ELSE IF e.err THEN "error" ELSE "complete"
             new == [rt.tab[i] EXCEPT !.complete = TRUE, !.state = to(@)]
             r == [s EXCEPT !.tab[i].complete = TRUE, !.tab[i].state = to(@)]
  <2>1. rt' = r BY <1>2 DEF markCompleteOnUI
  <2>2. \A old : to(old) \notin Flowing BY DEF Flowing
  <2> HIDE DEF to
  <2>3. /\ i \in RtIds /\ DOMAIN rt = RtParts /\ DOMAIN rt.tab = RtIds /\ DOMAIN rt.tab[i] = TabFields
        /\ Changes(rt, s, {"ui"}) /\ s.ui = rt.ui \ {e} /\ s.tab = rt.tab
    BY Serving
  <2> HIDE DEF s
  <2>4. /\ DOMAIN r.tab = RtIds /\ r.tab[i] = new /\ (\A j \in RtIds \ {i} : r.tab[j] = rt.tab[j])
        /\ Changes(rt, r, {"tab", "ui"}) /\ r.ui = rt.ui \ {e}
    BY <2>3 DEF Changes, RtParts
  <2> HIDE DEF r
  <2>5. TabStays(rt.tab[i], new) /\ new.sort = rt.tab[i].sort /\ new.state \notin Flowing
    BY <2>2, <2>3 DEF TabStays, TabFields
  <2> HIDE DEF new
  <2>6. TabsOK(r) BY <2>4, <2>5, ServedOn
  <2> QED BY <2>1, <2>6
<1> QED BY <1>1, <1>2

LEMMA Answered ==
    ASSUME TabsOK(rt), NEW e \in rt.ui, e.kind = "edit", applyEditability(e)
    PROVE  TabsOK(rt')
<1> DEFINE fits == rt.tab[e.tab].egen = e.gen /\ ~rt.tab[e.tab].disposed /\ e.conn = rt.conn
<1>1. CASE ~fits BY <1>1, Serving DEF applyEditability
<1>2. CASE fits
  <2> DEFINE i == e.tab
             s == Served(e)
             new == [rt.tab[i] EXCEPT !.edit = e.run]
             r == [s EXCEPT !.tab[i].edit = e.run]
  <2>1. rt' = r BY <1>2 DEF applyEditability
  <2>2. /\ i \in RtIds /\ DOMAIN rt = RtParts /\ DOMAIN rt.tab = RtIds /\ DOMAIN rt.tab[i] = TabFields
        /\ Changes(rt, s, {"ui"}) /\ s.ui = rt.ui \ {e} /\ s.tab = rt.tab
        /\ EventFits(rt.n, e, rt.tab[i])
    BY Serving
  <2> HIDE DEF s
  <2>3. /\ DOMAIN r.tab = RtIds /\ r.tab[i] = new /\ (\A j \in RtIds \ {i} : r.tab[j] = rt.tab[j])
        /\ Changes(rt, r, {"tab", "ui"}) /\ r.ui = rt.ui \ {e}
    BY <2>2 DEF Changes, RtParts
  <2> HIDE DEF r
  <2>4. e.run = rt.tab[i].run BY <1>2, <2>2 DEF EventFits
  <2>5. TabStays(rt.tab[i], new) /\ new.sort = rt.tab[i].sort BY <2>2, <2>4 DEF TabStays, TabFields
  <2> HIDE DEF new
  <2>6. TabsOK(r) BY <2>3, <2>5, ServedOn
  <2> QED BY <2>1, <2>6
<1> QED BY <1>1, <1>2

LEMMA Resumed ==
    ASSUME TabsOK(rt), NEW e \in rt.ui, e.kind = "resume", resumeQueued(e)
    PROVE  TabsOK(rt')
<1> DEFINE i == e.tab
           v == Served(e)
           w == startStreaming(v, i)
           ev == Introspect(w, i)
           r == [w EXCEPT !.ui = @ \cup {ev}]
<1>0. /\ i \in rt.open /\ i \in RtIds /\ EventFits(rt.n, e, rt.tab[i]) /\ ~rt.tab[i].disposed
      /\ DOMAIN rt = RtParts /\ DOMAIN rt.tab = RtIds /\ DOMAIN rt.tab[i] = TabFields
      /\ Changes(rt, v, {"ui"}) /\ v.ui = rt.ui \ {e} /\ v.tab = rt.tab /\ TabsOK(v)
  BY Serving
<1>1. rt' = v \/ rt' = r BY DEF resumeQueued
<1> HIDE DEF v
<1>2. DOMAIN v = RtParts /\ v.tasks = rt.tasks BY <1>0 DEF Changes, RtParts
<1>3. /\ rt.tab[i].gen = 0 /\ rt.tab[i].wait = 0 /\ rt.tab[i].run # 0 /\ e = [kind |-> "resume", tab |-> i]
  BY <1>0 DEF EventFits
<1>4. /\ rt.tab[i].run \in 1..rt.n /\ rt.tab[i].run \notin rt.done /\ rt.tab[i].egen \in Nat
      /\ rt.dir[rt.tab[i].run] = 0 /\ rt.n \in Nat /\ RtRuns \in Nat /\ rt.n <= RtRuns
  <2>1. TabFits(rt.n, rt.dir, rt.done, rt.tab[i]) /\ rt.n \in 0..RtRuns /\ RtRuns \in Nat
    BY <1>0, RtAssumption DEF TabsOK, TabsFit, Shape
  <2> QED BY <1>3, <2>1 DEF TabFits
<1>5. \A t \in rt.tasks : t.tab # i
  <2>1. \A t \in rt.tasks : rt.tab[t.tab].gen # 0 BY DEF TabsOK, TasksFit
  <2> QED BY <1>3, <2>1
<1>6. /\ Changes(v, w, {"tab", "tasks"}) /\ TabChanges(v, w, i)
      /\ w.tab[i].gen = v.tab[i].gen + 1 /\ w.tab[i].egen = v.tab[i].egen + 1
      /\ w.tab[i].rows = {} /\ w.tab[i].edit = 0 /\ w.tab[i].shown = 0
      /\ w.tab[i].slot = v.tab[i].slot /\ w.tab[i].disposed = v.tab[i].disposed
      /\ w.tab[i].run = v.tab[i].run /\ w.tab[i].wait = v.tab[i].wait /\ w.tab[i].sort = v.tab[i].sort
      /\ w.tasks = v.tasks \cup {[tab |-> i, gen |-> w.tab[i].gen, run |-> w.tab[i].run]}
  BY <1>0, <1>2, <1>5, StreamStarts
<1> HIDE DEF w
<1>7. ev.kind = "edit" /\ ev.tab = i /\ ev.gen = w.tab[i].egen /\ ev.run = w.tab[i].run BY DEF Introspect
<1> HIDE DEF ev
<1>8. /\ Changes(rt, r, {"n", "dir", "nav", "ui", "tab", "tasks"}) /\ r.n = rt.n /\ r.dir = rt.dir
      /\ r.nav = rt.nav /\ r.ui = (rt.ui \ {e}) \cup {ev} /\ r.tab = w.tab /\ r.tasks = w.tasks
      /\ r.open = rt.open
  BY <1>0, <1>6 DEF Changes, RtParts
<1> HIDE DEF r
<1>9. TabChanges(rt, r, i) BY <1>0, <1>6, <1>8 DEF TabChanges
<1>10. NavFits(r)
  <2>1. NavFits(rt) /\ rt.open \subseteq RtIds BY Numbers DEF TabsOK
  <2>2. ASSUME rt.nav.stage # "none", rt.nav.kind = "sort" PROVE r.tab[rt.nav.tab] = rt.tab[rt.nav.tab]
    <3>1. rt.nav.tab # i /\ rt.nav.tab \in RtIds BY <1>3, <2>1, <2>2 DEF NavFits
    <3> QED BY <1>9, <3>1 DEF TabChanges
  <2> QED BY <1>8, <2>1, <2>2 DEF NavFits
<1>11. \A k \in RtIds : k > r.n => r.dir[k] = 0 BY <1>8 DEF TabsOK, Shape
<1>12. /\ r.tab[i].gen = rt.tab[i].gen + 1 /\ r.tab[i].egen = rt.tab[i].egen + 1
       /\ r.tab[i].run = rt.tab[i].run /\ r.tab[i].slot = rt.tab[i].slot
       /\ r.tab[i].disposed = rt.tab[i].disposed
       /\ r.tab[i].rows = {} /\ r.tab[i].edit = 0 /\ r.tab[i].wait = 0 /\ r.tab[i].shown = 0
  BY <1>0, <1>3, <1>6, <1>8
<1>13. \A j \in rt.open \ {i} : rt.tab[j].run # rt.tab[i].run BY <1>0, <1>3 DEF TabsOK, TabsFit
<1>14. \A f \in rt.ui : (f.kind = "flip" => f \in r.ui) /\ (f \in r.ui /\ f.kind = "resume" => f.tab # i)
  <2>1. \A f \in rt.ui : f.kind = "resume" => f = [kind |-> "resume", tab |-> f.tab] BY DEF TabsOK, UIFits, EventFits
  <2>2. ASSUME NEW f \in rt.ui, f \in r.ui, f.kind = "resume" PROVE f.tab # i
    <3>1. f # e
      <4>1. f # ev BY <1>7, <2>2
      <4> QED BY <1>8, <2>2, <4>1
    <3> QED BY <1>3, <2>1, <2>2, <3>1
  <2>3. ASSUME NEW f \in rt.ui, f.kind = "flip" PROVE f \in r.ui BY <1>8, <2>3
  <2> QED BY <2>2, <2>3
<1>15. TabRestarts(rt, r, i)
  <2>1. \E u : /\ u.kind = "edit" /\ u.tab = i /\ u.gen = r.tab[i].egen /\ u.run = r.tab[i].run
               /\ r.ui \subseteq rt.ui \cup {u}
    BY <1>7, <1>8
  <2>2. r.tasks = rt.tasks \cup {[tab |-> i, gen |-> r.tab[i].gen, run |-> r.tab[i].run]} BY <1>2, <1>6, <1>8
  <2>3. r.n \in {rt.n, rt.n + 1} /\ r.n <= RtRuns /\ DOMAIN r.dir = RtIds /\ \A k \in RtIds : r.dir[k] = rt.dir[k]
    BY <1>4, <1>8 DEF TabsOK, Shape
  <2>4. /\ r.tab[i].run \in 1..r.n /\ r.tab[i].run \notin rt.done /\ r.tab[i].shown = r.dir[r.tab[i].run]
        /\ r.tab[i].egen \in {rt.tab[i].egen + 1, rt.tab[i].egen + 2}
    BY <1>4, <1>8, <1>12
  <2> HIDE DEF i
  <2> QED BY <1>5, <1>8, <1>9, <1>10, <1>11, <1>12, <1>13, <1>14, <2>1, <2>2, <2>3, <2>4 DEF TabRestarts
<1>16. TabsOK(r) BY <1>0, <1>15, Restarted
<1> QED BY <1>0, <1>1, <1>16

LEMMA EventsServed ==
    ASSUME TabsOK(rt), UIStep
    PROVE  TabsOK(rt')
BY RowsAppended, Completed, Answered, Resumed DEF UIStep

LEMMA NavSet ==
    ASSUME NEW s, NEW r, TabsOK(s), Changes(s, r, {"nav", "keys"}), NavFits(r)
    PROVE  TabsOK(r)
<1>1. Changes(s, r, {"nav", "active", "jumps", "cursor", "keys"}) BY DEF Changes
<1>2. ActiveFits(r) /\ JumpsFit(r) BY PiecesKept
<1> QED BY <1>1, <1>2, NavSteps

LEMMA CaptureBinds ==
    ASSUME NEW kind, NEW dir
    PROVE  LET n == CaptureNavigation(kind, dir) IN
           /\ DOMAIN n = {"stage", "kind", "tab", "egen", "targets", "dir"}
           /\ n.tab = rt.active /\ n.kind = kind /\ n.dir = dir
BY DEF CaptureNavigation

LEMMA Navigates ==
    ASSUME TabsOK(rt),
           SortActiveTab \/ runBoundForwardFK \/ CancelNavigation \/ NavPreempt \/ NavFails
    PROVE  TabsOK(rt')
<1>0. DOMAIN rt = RtParts /\ DOMAIN rt.tab = RtIds /\ \A i \in RtIds : DOMAIN rt.tab[i] = TabFields BY DEF TabsOK, Shape
<1>1. CASE SortActiveTab
  <2> DEFINE i == rt.active
             dir == (rt.tab[i].sort + 1) % 3
             nav == CaptureNavigation("sort", dir)
             new == [rt.tab[i] EXCEPT !.sort = dir]
             c == [rt EXCEPT !.tab[i].sort = dir, !.nav = nav]
  <2>1. rt' = [c EXCEPT !.keys = @ + 1] /\ i \in RtIds /\ i \in rt.open /\ rt.tab[i].gen > 0
    BY <1>1, TabInFront DEF SortActiveTab, Command, HasGrid
  <2>2. rt.tab[i].gen \in Nat BY <2>1 DEF TabsOK, TabsFit, TabFits
  <2>3. /\ DOMAIN nav = {"stage", "kind", "tab", "egen", "targets", "dir"} /\ nav.tab = i /\ nav.dir = dir
    BY CaptureBinds
  <2> HIDE DEF nav, dir
  <2>4. /\ Changes(rt, c, {"tab", "ui", "nav", "keys"}) /\ DOMAIN c.tab = RtIds /\ c.ui = rt.ui
        /\ c.nav = nav /\ c.open = rt.open
        /\ c.tab[i] = new /\ \A j \in RtIds \ {i} : c.tab[j] = rt.tab[j]
    BY <1>0, <2>1 DEF Changes, RtParts
  <2>5. TabStays(rt.tab[i], new) /\ new.gen = rt.tab[i].gen /\ new.sort = dir BY <1>0, <2>1 DEF TabStays, TabFields
  <2> HIDE DEF c, new
  <2>6. \A j \in RtIds : TabStays(rt.tab[j], c.tab[j]) BY <1>0, <2>4, <2>5, SameTab
  <2>7. NavFits(c) BY <2>1, <2>2, <2>3, <2>4, <2>5 DEF NavFits
  <2>8. TabsOK(c) BY <2>4, <2>6, <2>7, TabsTouched
  <2> QED BY <2>1, <2>8, Counted
<1>2. CASE runBoundForwardFK
  <2> DEFINE nav == CaptureNavigation("fk", 0)
             c == [rt EXCEPT !.nav = nav]
  <2>1. rt' = [c EXCEPT !.keys = @ + 1] /\ rt.active \in rt.open BY <1>2, TabInFront DEF runBoundForwardFK, Command
  <2>2. DOMAIN nav = {"stage", "kind", "tab", "egen", "targets", "dir"} /\ nav.tab = rt.active /\ nav.kind = "fk"
    BY CaptureBinds
  <2> HIDE DEF nav
  <2>3. Changes(rt, c, {"nav", "keys"}) /\ c.nav = nav /\ c.open = rt.open BY <1>0 DEF Changes, RtParts
  <2> HIDE DEF c
  <2>4. NavFits(c) BY <2>1, <2>2, <2>3 DEF NavFits
  <2>5. TabsOK(c) BY <2>3, <2>4, NavSet
  <2> QED BY <2>1, <2>5, Counted
<1>3. CASE CancelNavigation
  <2> DEFINE c == invalidateNavigation(rt)
  <2>1. rt' = [c EXCEPT !.keys = @ + 1] /\ TabsOK(c) BY <1>3, NavDropped DEF CancelNavigation, Command
  <2> HIDE DEF c
  <2> QED BY <2>1, Counted
<1>4. CASE NavPreempt
  <2>1. CASE ~NavCurrent BY <1>4, <2>1, NavDropped DEF NavPreempt
  <2>2. CASE NavCurrent
    <3>1. PICK err \in BOOLEAN : rt' = [StopStreams(rt, rt.nav.targets, err) EXCEPT !.nav.stage = "ready"]
      BY <1>4, <2>2 DEF NavPreempt
    <3> DEFINE s == StopStreams(rt, rt.nav.targets, err)
               r == [s EXCEPT !.nav.stage = "ready"]
    <3>2. TabsOK(s) /\ Changes(rt, s, {"tasks", "ui", "done"}) BY StreamsStop
    <3>3. DOMAIN s = RtParts /\ s.nav = rt.nav /\ NavFits(s) BY <3>2 DEF Changes, RtParts, TabsOK
    <3>4. rt.nav.stage = "launch" BY <1>4 DEF NavPreempt
    <3> HIDE DEF s
    <3>5. /\ Changes(s, r, {"nav", "keys"}) /\ r.open = s.open /\ r.tab = s.tab
          /\ DOMAIN r.nav = DOMAIN s.nav /\ (\A f \in DOMAIN s.nav \ {"stage"} : r.nav[f] = s.nav[f])
      BY <3>3 DEF Changes, RtParts
    <3> HIDE DEF r
    <3>6. NavFits(r)
      <4>1. /\ DOMAIN s.nav = {"stage", "kind", "tab", "egen", "targets", "dir"}
            /\ s.nav.stage # "none"
        BY <3>3, <3>4 DEF NavFits
      <4>2. r.nav.kind = s.nav.kind /\ r.nav.tab = s.nav.tab /\ r.nav.dir = s.nav.dir BY <3>5, <4>1
      <4> QED BY <3>3, <3>5, <4>1, <4>2 DEF NavFits
    <3>7. TabsOK(r) BY <3>2, <3>5, <3>6, NavSet
    <3> QED BY <3>1, <3>7 DEF r, s
  <2> QED BY <2>1, <2>2
<1>5. CASE NavFails BY <1>5, NavDropped DEF NavFails
<1> QED BY <1>1, <1>2, <1>3, <1>4, <1>5

LEMMA JumpPushed ==
    ASSUME NEW s, NEW i \in s.open, DOMAIN s = RtParts, JumpsFit(s)
    PROVE  LET r == PushJump(s, i) IN Changes(s, r, {"jumps", "cursor"}) /\ JumpsFit(r)
<1> DEFINE S == s.open
           kept == IF s.cursor = 0 THEN s.jumps ELSE SubSeq(s.jumps, 1, s.cursor)
           room == IF Len(kept) >= RtJumps THEN Tail(kept) ELSE kept
           r == [s EXCEPT !.jumps = Append(room, i), !.cursor = 0]
<1>1. PushJump(s, i) = r BY DEF PushJump
<1>2. kept \in Seq(S)
  <2>1. s.jumps \in Seq(S) /\ s.cursor \in 0..Len(s.jumps) BY DEF JumpsFit
  <2>2. CASE s.cursor # 0
    <3>1. s.cursor \in 1..Len(s.jumps) /\ Len(s.jumps) \in Nat BY <2>1, <2>2
    <3>2. \A k \in 1..Len(s.jumps) : s.jumps[k] \in S BY <2>1
    <3> HIDE DEF S
    <3>3. SubSeq(s.jumps, 1, s.cursor) \in Seq(S) BY <2>1, <3>1, <3>2
    <3> QED BY <2>2, <3>3
  <2> QED BY <2>1, <2>2
<1> HIDE DEF kept, S
<1>3. room \in Seq(S)
  <2>1. CASE Len(kept) >= RtJumps
    <3>1. kept # <<>> /\ Tail(kept) \in Seq(S) BY <1>2, <2>1, RtAssumption
    <3> QED BY <2>1, <3>1
  <2> QED BY <1>2, <2>1
<1>4. i \in S BY DEF S
<1> HIDE DEF room
<1>5. Append(room, i) \in Seq(S) BY <1>3, <1>4
<1>6. Changes(s, r, {"jumps", "cursor"}) /\ r.jumps = Append(room, i) /\ r.cursor = 0 /\ r.open = S
  BY DEF Changes, RtParts, S
<1> HIDE DEF r
<1>7. JumpsFit(r)
  <2>1. Len(r.jumps) \in Nat BY <1>5, <1>6
  <2> QED BY <1>5, <1>6, <2>1 DEF JumpsFit
<1> QED BY <1>1, <1>6, <1>7

LEMMA Jumps ==
    ASSUME TabsOK(rt), NavHistory \/ JumpBack \/ JumpForward
    PROVE  TabsOK(rt')
<1>0. /\ DOMAIN rt = RtParts /\ NavFits(rt) /\ ActiveFits(rt) /\ JumpsFit(rt)
      /\ rt.jumps \in Seq(rt.open) /\ rt.cursor \in 0..Len(rt.jumps) /\ Len(rt.jumps) \in Nat
  BY DEF TabsOK, Shape, JumpsFit
<1>1. CASE NavHistory
  <2> DEFINE i == rt.nav.tab
             s == PushJump(rt, i)
             r == [s EXCEPT !.nav.stage = "jumped"]
  <2>1. rt' = r /\ rt.nav.stage = "ready" /\ i \in rt.open BY <1>0, <1>1 DEF NavHistory, NavFits
  <2>2. Changes(rt, s, {"jumps", "cursor"}) /\ JumpsFit(s) BY <1>0, <2>1, JumpPushed
  <2>3. DOMAIN s = RtParts /\ s.nav = rt.nav /\ s.open = rt.open /\ s.tab = rt.tab /\ s.active = rt.active
    BY <2>2 DEF Changes, RtParts
  <2> HIDE DEF s, i
  <2>4. /\ Changes(s, r, {"nav"}) /\ r.open = s.open /\ r.tab = s.tab /\ r.active = s.active
        /\ r.jumps = s.jumps /\ r.cursor = s.cursor
        /\ DOMAIN r.nav = DOMAIN s.nav /\ (\A f \in DOMAIN s.nav \ {"stage"} : r.nav[f] = s.nav[f])
    BY <2>3 DEF Changes, RtParts
  <2> HIDE DEF r
  <2>5. NavFits(r)
    <3>1. /\ DOMAIN s.nav = {"stage", "kind", "tab", "egen", "targets", "dir"} /\ s.nav.stage # "none"
      BY <1>0, <2>1, <2>3 DEF NavFits
    <3>2. r.nav.kind = s.nav.kind /\ r.nav.tab = s.nav.tab /\ r.nav.dir = s.nav.dir BY <2>4, <3>1
    <3> QED BY <1>0, <2>3, <2>4, <3>1, <3>2 DEF NavFits
  <2>6. JumpsFit(r) /\ ActiveFits(r) BY <1>0, <2>2, <2>3, <2>4 DEF JumpsFit, ActiveFits
  <2>7. Changes(rt, r, {"nav", "active", "jumps", "cursor", "keys"}) BY <2>2, <2>4 DEF Changes, RtParts
  <2>8. TabsOK(r) BY <2>5, <2>6, <2>7, NavSteps
  <2> QED BY <2>1, <2>8
<1>2. ASSUME NEW at \in 0..Len(rt.jumps), NEW cursor \in 0..Len(rt.jumps), navigateToJumpEntry(at, cursor)
      PROVE  TabsOK(rt')
  <2> DEFINE i == rt.jumps[at]
             a == setActive(rt, i)
             c == [a EXCEPT !.cursor = cursor]
  <2>1. rt' = [c EXCEPT !.keys = @ + 1] BY <1>2 DEF navigateToJumpEntry, Command
  <2>2. i \in rt.open
    <3>1. at \in 1..Len(rt.jumps) BY <1>0, <1>2 DEF navigateToJumpEntry
    <3> QED BY <1>0, <3>1
  <2> HIDE DEF i
  <2>3. TabsOK(a) BY <2>2, NavDropped
  <2>4. DOMAIN a = RtParts /\ a.jumps = rt.jumps /\ a.open = rt.open
    BY <1>0 DEF setActive, invalidateNavigation, RtParts
  <2> HIDE DEF a
  <2>5. Changes(a, c, {"cursor"}) /\ c.cursor = cursor /\ c.open = rt.open /\ c.jumps = rt.jumps
    BY <2>4 DEF Changes, RtParts
  <2> HIDE DEF c
  <2>6. Changes(a, c, {"nav", "active", "jumps", "cursor", "keys"}) BY <2>5 DEF Changes
  <2>7. JumpsFit(c) BY <1>0, <1>2, <2>5 DEF JumpsFit
  <2>8. NavFits(c) /\ ActiveFits(c) BY <2>3, <2>5, PiecesKept
  <2>9. TabsOK(c) BY <2>3, <2>6, <2>7, <2>8, NavSteps
  <2> QED BY <2>1, <2>9, Counted
<1>3. Back \in 0..Len(rt.jumps) /\ Forward \in 0..Len(rt.jumps) BY <1>0 DEF Back, Forward
<1>4. CASE JumpBack BY <1>2, <1>3, <1>4 DEF JumpBack
<1>5. CASE JumpForward
  <2>1. (IF Forward = Len(rt.jumps) THEN 0 ELSE Forward) \in 0..Len(rt.jumps) BY <1>0, <1>3
  <2> QED BY <1>2, <1>3, <1>5, <2>1 DEF JumpForward
<1> QED BY <1>1, <1>4, <1>5

LEMMA TabsInit ==
    ASSUME RtInit
    PROVE  TabsOK(rt)
<1>1. /\ DOMAIN rt = RtParts /\ rt.open = {} /\ rt.tab = [i \in RtIds |-> RtNoTab] /\ rt.active = 0 /\ rt.n = 0
      /\ rt.tasks = {} /\ rt.ui = {} /\ rt.done = {} /\ rt.dir = [i \in RtIds |-> 0]
      /\ rt.nav = RtNoNav /\ rt.jumps = <<>> /\ rt.cursor = 0
  BY DEF RtInit, RtParts
<1>2. DOMAIN RtNoTab = TabFields /\ RtNoTab.wait = 0 BY DEF RtNoTab, TabFields
<1>3. 0 \in 0..RtRuns /\ RtMax \in Nat BY RtAssumption
<1>4. Shape(rt) BY <1>1, <1>2, <1>3 DEF Shape
<1>5. TabsFit(rt) /\ TasksFit(rt) /\ UIFits(rt) /\ FlowFits(rt) /\ ActiveFits(rt)
  BY <1>1, <1>2 DEF TabsFit, TasksFit, UIFits, FlowFits, ActiveFits
<1>6. NavFits(rt) BY <1>1 DEF NavFits, RtNoNav
<1>7. SlotsFit(rt) BY <1>1, <1>3, FS_EmptySet DEF SlotsFit
<1>8. JumpsFit(rt) BY <1>1 DEF JumpsFit
<1> QED BY <1>4, <1>5, <1>6, <1>7, <1>8 DEF TabsOK

LEMMA TabsStep ==
    ASSUME TabsOK(rt), RtNext
    PROVE  TabsOK(rt')
BY CapReachedKeeps, PlanOpens, OpensAndCloses, TabsInPlace, StreamsPost, EventsServed, QueueMoves, Navigates,
   Adopted, Jumps DEF RtNext

LEMMA TabsTrue ==
    ASSUME TabsOK(rt)
    PROVE  TabsSound
<1>1. RowsOfLastRun BY DEF TabsOK, TabsFit, TabFits, RowsOfLastRun
<1>2. FlowingHasSource BY DEF TabsOK, FlowFits, FlowingHasSource
<1>3. /\ rt.active = 0 <=> rt.open = {}
      /\ rt.active \in rt.open \cup {0}
  BY DEF TabsOK, ActiveFits
<1>4. /\ Cardinality(rt.open) <= RtMax
      /\ \A i, j \in rt.open : rt.tab[i].slot = rt.tab[j].slot => i = j
  BY DEF TabsOK, SlotsFit
<1>5. ToSet(rt.jumps) \subseteq rt.open BY DEF TabsOK, JumpsFit, ToSet
<1> QED BY <1>1, <1>2, <1>3, <1>4, <1>5 DEF TabsSound

\* Whatever order batches, completions, sorts, evictions, closes, pre-emptions and jumps come
\* in, a tab shows the rows and the answer of its own last run under the direction that run
\* was sorted by, a tab that flows has its worker or the worker's completion to come, and the
\* tab in front, the slots and the jump list agree with the tabs that are open.
THEOREM TabsTheorem == RtSpec => []TabsSound
<1>1. RtInit => TabsOK(rt) BY TabsInit
<1>2. TabsOK(rt) /\ [RtNext]_rt => TabsOK(rt)'
  <2>1. CASE RtNext BY <2>1, TabsStep
  <2>2. CASE UNCHANGED rt BY <2>2
  <2> QED BY <2>1, <2>2
<1>3. TabsOK(rt) => TabsSound BY TabsTrue
<1> QED BY <1>1, <1>2, <1>3, PTL DEF RtSpec

-----------------------------------------
\* The saved buffers of the query editor (BufferPersistence).

BufferParts == {"text", "dirty", "obj", "gen", "disk", "tail", "acks", "load", "loads", "close", "raced"}
Saves == [text : BpTexts, gen : Nat, obj : Nat]

BufferShape(s) ==
    /\ DOMAIN s = BufferParts /\ s.gen \in Nat /\ s.obj \in Nat
    /\ s.text \in BpTexts /\ s.disk \in BpTexts /\ s.load \in BpTexts \cup {0}
    /\ s.tail \in Seq(Saves)
\* The chain holds the latest saves in their order, and an acknowledgement is of an earlier one: that of
\* the latest save finds the chain empty and what it saved on disk.
ChainFits(s) ==
    /\ \A i \in DOMAIN s.tail : s.tail[i].gen = s.gen - Len(s.tail) + i
    /\ \A a \in s.acks : a.save.gen \in Nat /\ a.save.gen <= s.gen - Len(s.tail)
    /\ \A a \in s.acks : a.ok /\ a.save.gen = s.gen => s.disk = a.save.text
\* What counts as saved is on disk, and no save is under way that could change it.
SavedFits(s) ==
    /\ s.dirty \/ s.raced \/ (s.disk = s.text /\ s.tail = <<>>)
    /\ s.close # "open" => s.acks = {}
    /\ s.close = "flushed" => s.tail = <<>> /\ ~s.dirty
BufferOK(s) == BufferShape(s) /\ ChainFits(s) /\ SavedFits(s)

LEMMA BufferInit == ASSUME BpInit PROVE BufferOK(bp)
<1>1. BpOld \in BpTexts BY BpAssumption DEF BpOld
<1>2. /\ DOMAIN bp = BufferParts /\ bp.text = BpOld /\ bp.dirty = FALSE /\ bp.obj = 0 /\ bp.gen = 0 /\ bp.disk = BpOld
      /\ bp.tail = <<>> /\ bp.acks = {} /\ bp.load = 0 /\ bp.close = "open" /\ bp.raced = FALSE
  BY DEF BpInit, BufferParts
<1>3. <<>> \in Seq(Saves) /\ DOMAIN <<>> = {} /\ Len(<<>>) = 0 OBVIOUS
<1> QED BY <1>1, <1>2, <1>3 DEF BufferOK, BufferShape, ChainFits, SavedFits

LEMMA BufferEdited == ASSUME BufferOK(bp), NEW t \in BpTexts, BpEdit(t) PROVE BufferOK(bp')
<1>1. /\ DOMAIN bp' = BufferParts /\ bp'.text = t /\ bp'.dirty = TRUE /\ bp'.obj = bp.obj /\ bp'.gen = bp.gen /\ bp'.disk = bp.disk
      /\ bp'.tail = bp.tail /\ bp'.acks = bp.acks /\ bp'.load = bp.load /\ bp'.close = bp.close /\ bp'.raced = bp.raced
      /\ bp.close = "open"
  BY DEF BpEdit, BpOpen, BufferOK, BufferShape, BufferParts
<1> QED BY <1>1 DEF BufferOK, BufferShape, ChainFits, SavedFits

\* A snapshot joins the chain as its latest save.
LEMMA SnapshotKeeps == ASSUME BufferOK(bp), saveBufferIfDirty PROVE BufferOK(bp')
<1> DEFINE v == [text |-> bp.text, gen |-> bp.gen + 1, obj |-> bp.obj]
           q == bp.tail
           S == Saves
<1>1. v \in S /\ v.gen = bp.gen + 1 /\ q \in Seq(S) /\ bp.gen \in Nat BY DEF BufferOK, BufferShape, Saves
<1>2. bp' = [bp EXCEPT !.gen = @ + 1, !.tail = Append(@, v)] /\ bp.dirty /\ bp.close = "open"
  BY DEF saveBufferIfDirty, BpOpen
<1> HIDE DEF v
<1>3. /\ DOMAIN bp' = BufferParts /\ bp'.text = bp.text /\ bp'.dirty = bp.dirty /\ bp'.obj = bp.obj /\ bp'.gen = bp.gen + 1
      /\ bp'.disk = bp.disk /\ bp'.tail = Append(q, v) /\ bp'.acks = bp.acks /\ bp'.load = bp.load
      /\ bp'.close = bp.close /\ bp'.raced = bp.raced
  BY <1>2 DEF BufferOK, BufferShape, BufferParts
<1> HIDE DEF S, q
<1>4. /\ Append(q, v) \in Seq(S) /\ Len(Append(q, v)) = Len(q) + 1 /\ Len(q) \in Nat
      /\ DOMAIN Append(q, v) = 1..(Len(q) + 1) /\ DOMAIN q = 1..Len(q)
      /\ \A i \in 1..Len(q) : Append(q, v)[i] = q[i]
      /\ Append(q, v)[Len(q) + 1] = v
  BY <1>1
<1> DEFINE r == Append(q, v)
<1> HIDE DEF r
<1>10. /\ bp'.gen = bp.gen + 1 /\ bp'.acks = bp.acks /\ Len(q) \in Nat
       /\ bp'.tail = r /\ r \in Seq(S) /\ Len(r) = Len(q) + 1 /\ DOMAIN r = 1..(Len(q) + 1)
       /\ \A i \in 1..Len(q) : r[i] = q[i]
       /\ r[Len(q) + 1] = v
  BY <1>3, <1>4 DEF r
<1>5. BufferShape(bp') BY <1>1, <1>3, <1>4, <1>10 DEF BufferOK, BufferShape, S
<1>6. ChainFits(bp')
  <2>1. ASSUME NEW i \in 1..(Len(q) + 1) PROVE r[i].gen = bp.gen + 1 - (Len(q) + 1) + i
    <3>1. CASE i \in 1..Len(q)
      <4>1. q[i].gen = bp.gen - Len(q) + i BY <1>4, <1>10, <3>1 DEF BufferOK, ChainFits, q
      <4> QED BY <1>1, <1>4, <1>10, <3>1, <4>1
    <3>2. CASE i = Len(q) + 1 BY <1>1, <1>4, <1>10, <3>2
    <3> QED BY <1>4, <1>10, <3>1, <3>2
  <2>2. \A a \in bp.acks : a.save.gen \in Nat /\ a.save.gen <= bp.gen - Len(q) BY DEF BufferOK, ChainFits, q
  <2>3. \A a \in bp.acks : a.save.gen <= bp.gen + 1 - (Len(q) + 1) /\ a.save.gen # bp.gen + 1 BY <1>1, <1>4, <1>10, <2>2
  <2>4. \A i \in DOMAIN bp'.tail : bp'.tail[i].gen = bp'.gen - Len(bp'.tail) + i BY <1>1, <1>10, <2>1
  <2>5. \A a \in bp'.acks : a.save.gen \in Nat /\ a.save.gen <= bp'.gen - Len(bp'.tail) /\ a.save.gen # bp'.gen
    BY <1>1, <1>10, <2>2, <2>3
  <2> QED BY <2>4, <2>5 DEF ChainFits
<1>7. SavedFits(bp') BY <1>2, <1>3 DEF BufferOK, SavedFits
<1> QED BY <1>5, <1>6, <1>7 DEF BufferOK

\* The head of the chain is written, or fails.
LEMMA BufferSaved == ASSUME BufferOK(bp), NEW ok \in BOOLEAN, SaveBufferContent(ok) PROVE BufferOK(bp')
<1> DEFINE q == bp.tail
           S == Saves
           h == Head(q)
           k == [save |-> h, ok |-> ok]
           acks == IF BpOpen THEN bp.acks \cup {k} ELSE bp.acks
           disk == IF ok THEN h.text ELSE bp.disk
<1>1. q \in Seq(S) /\ bp.gen \in Nat /\ q # <<>> BY DEF BufferOK, BufferShape, SaveBufferContent
<1>2. /\ DOMAIN bp' = BufferParts /\ bp'.text = bp.text /\ bp'.dirty = bp.dirty /\ bp'.obj = bp.obj /\ bp'.gen = bp.gen
      /\ bp'.disk = disk /\ bp'.tail = Tail(q) /\ bp'.acks = acks /\ bp'.load = bp.load
      /\ bp'.close = bp.close /\ bp'.raced = bp.raced
  BY DEF SaveBufferContent, BufferOK, BufferShape, BufferParts
<1>3. bp.dirty \/ bp.raced BY <1>1 DEF BufferOK, SavedFits
<1>4. bp.close # "flushed" /\ (bp.close # "open" => acks = {}) BY <1>1 DEF BufferOK, SavedFits, BpOpen
<1>5. k.save = h /\ (k.ok => disk = h.text) OBVIOUS
<1> HIDE DEF k
<1>6. acks \subseteq bp.acks \cup {k} OBVIOUS
<1> HIDE DEF S, q, acks
<1>7. /\ Tail(q) \in Seq(S) /\ Len(Tail(q)) = Len(q) - 1 /\ Len(q) \in Nat \ {0}
      /\ DOMAIN Tail(q) = 1..(Len(q) - 1) /\ DOMAIN q = 1..Len(q)
      /\ \A i \in 1..(Len(q) - 1) : Tail(q)[i] = q[i + 1]
      /\ h = q[1] /\ h \in S
  BY <1>1
<1>8. h.gen = bp.gen - Len(q) + 1 /\ h.gen \in Nat /\ h.text \in BpTexts
  <2>1. h.gen \in Nat /\ h.text \in BpTexts BY <1>7 DEF S, Saves
  <2>2. \A i \in DOMAIN q : q[i].gen = bp.gen - Len(q) + i BY DEF BufferOK, ChainFits, q
  <2>3. 1 \in DOMAIN q BY <1>7
  <2>4. q[1].gen = bp.gen - Len(q) + 1 BY <2>2, <2>3
  <2> QED BY <1>7, <2>1, <2>4
<1>9. disk \in BpTexts BY <1>8 DEF BufferOK, BufferShape
<1> HIDE DEF h, disk
<1>10. BufferShape(bp') BY <1>2, <1>7, <1>9 DEF BufferOK, BufferShape, S
<1>11. ChainFits(bp')
  <2>1. ASSUME NEW i \in 1..(Len(q) - 1) PROVE Tail(q)[i].gen = bp.gen - (Len(q) - 1) + i
    <3>1. i + 1 \in 1..Len(q) BY <1>7
    <3>2. q[i + 1].gen = bp.gen - Len(q) + (i + 1) BY <1>7, <3>1 DEF BufferOK, ChainFits, q
    <3> QED BY <1>1, <1>7, <3>2
  <2>2. \A a \in bp.acks : a.save.gen \in Nat /\ a.save.gen <= bp.gen - Len(q) BY DEF BufferOK, ChainFits, q
  <2>3. \A a \in bp.acks : a.save.gen \in Nat /\ a.save.gen <= bp.gen - (Len(q) - 1) /\ a.save.gen # bp.gen
    BY <1>1, <1>7, <2>2
  <2>4. k.save.gen \in Nat /\ k.save.gen <= bp.gen - (Len(q) - 1) BY <1>1, <1>5, <1>7, <1>8
  <2>5. k.ok => disk = k.save.text BY <1>5
  <2>6. \A a \in acks : a \in bp.acks \/ a = k BY <1>6
  <2> QED BY <1>2, <1>7, <2>1, <2>3, <2>4, <2>5, <2>6 DEF ChainFits
<1>12. SavedFits(bp') BY <1>2, <1>3, <1>4 DEF BufferOK, SavedFits
<1> QED BY <1>10, <1>11, <1>12 DEF BufferOK

\* An acknowledgement clears the mark only when it is of the latest save and of the text on screen.
LEMMA BufferAcked == ASSUME BufferOK(bp), BpAck PROVE BufferOK(bp')
<1>1. PICK a \in bp.acks : ackSave(a) BY DEF BpAck
<1> DEFINE x == a.ok /\ a.save.gen = bp.gen /\ a.save.obj = bp.obj /\ a.save.text = bp.text
<1>2. bp' = [bp EXCEPT !.acks = @ \ {a}, !.dirty = bp.dirty /\ ~x] /\ bp.close = "open"
  <2>1. bp' = [[bp EXCEPT !.acks = @ \ {a}] EXCEPT !.dirty = @ /\ ~x] /\ bp.close = "open"
    BY <1>1 DEF ackSave, Acked, BpAck, BpOpen
  <2> HIDE DEF x
  <2> QED BY <2>1 DEF BufferOK, BufferShape, BufferParts
<1>3. x => bp.disk = bp.text /\ bp.tail = <<>>
  <2> SUFFICES ASSUME x PROVE bp.disk = bp.text /\ bp.tail = <<>> OBVIOUS
  <2>1. bp.disk = bp.text BY <1>1 DEF BufferOK, ChainFits
  <2>2. Len(bp.tail) \in Nat /\ bp.gen <= bp.gen - Len(bp.tail) /\ bp.gen \in Nat /\ bp.tail \in Seq(Saves)
    BY <1>1 DEF BufferOK, BufferShape, ChainFits
  <2> QED BY <2>1, <2>2
<1> HIDE DEF x
<1>4. /\ DOMAIN bp' = BufferParts /\ bp'.text = bp.text /\ bp'.obj = bp.obj /\ bp'.gen = bp.gen /\ bp'.disk = bp.disk
      /\ bp'.tail = bp.tail /\ bp'.acks = bp.acks \ {a} /\ bp'.load = bp.load /\ bp'.close = bp.close /\ bp'.raced = bp.raced
      /\ bp'.dirty = (bp.dirty /\ ~x)
  BY <1>2 DEF BufferOK, BufferShape, BufferParts
<1>5. bp.dirty => bp'.dirty \/ x BY <1>4
<1>6. SavedFits(bp') BY <1>2, <1>3, <1>4, <1>5 DEF BufferOK, SavedFits
<1> QED BY <1>4, <1>6 DEF BufferOK, BufferShape, ChainFits

LEMMA BufferRead == ASSUME BufferOK(bp), loadQueryEditorBuffer PROVE BufferOK(bp')
<1>1. /\ DOMAIN bp' = BufferParts /\ bp'.text = bp.text /\ bp'.dirty = bp.dirty /\ bp'.obj = bp.obj /\ bp'.gen = bp.gen /\ bp'.disk = bp.disk
      /\ bp'.tail = bp.tail /\ bp'.acks = bp.acks /\ bp'.load = bp.disk /\ bp'.close = bp.close /\ bp'.raced = bp.raced
  BY DEF loadQueryEditorBuffer, BufferOK, BufferShape, BufferParts
<1> QED BY <1>1 DEF BufferOK, BufferShape, ChainFits, SavedFits

LEMMA BufferPublished == ASSUME BufferOK(bp), publishQueryEditorBuffer PROVE BufferOK(bp')
<1> DEFINE x == bp.tail # <<>> \/ bp.disk # bp.load
<1>1. /\ bp' = [bp EXCEPT !.text = bp.load, !.dirty = FALSE, !.obj = @ + 1, !.load = 0, !.raced = @ \/ x]
      /\ bp.close = "open" /\ bp.load # 0
  <2>1. bp' = [bp EXCEPT !.text = bp.load, !.dirty = FALSE, !.obj = @ + 1, !.load = 0,
                         !.raced = @ \/ bp.tail # <<>> \/ bp.disk # bp.load]
        /\ bp.close = "open" /\ bp.load # 0
    BY DEF publishQueryEditorBuffer, BpOpen
  <2>2. (bp.raced \/ bp.tail # <<>> \/ bp.disk # bp.load) = (bp.raced \/ x) OBVIOUS
  <2> HIDE DEF x
  <2> QED BY <2>1, <2>2
<1>2. ~x => bp.tail = <<>> /\ bp.disk = bp.load OBVIOUS
<1> HIDE DEF x
<1>3. /\ DOMAIN bp' = BufferParts /\ bp'.text = bp.load /\ bp'.dirty = FALSE /\ bp'.obj = bp.obj + 1 /\ bp'.gen = bp.gen /\ bp'.disk = bp.disk
      /\ bp'.tail = bp.tail /\ bp'.acks = bp.acks /\ bp'.load = 0 /\ bp'.close = bp.close /\ bp'.raced = (bp.raced \/ x)
  BY <1>1 DEF BufferOK, BufferShape, BufferParts
<1>4. bp'.raced \/ ~x BY <1>3
<1>5. SavedFits(bp') BY <1>1, <1>2, <1>3, <1>4 DEF BufferOK, SavedFits
<1> QED BY <1>1, <1>3, <1>5 DEF BufferOK, BufferShape, ChainFits

LEMMA BufferClosed == ASSUME BufferOK(bp), BpClose \/ BpDrainTimeout PROVE BufferOK(bp')
<1>1. /\ DOMAIN bp' = BufferParts /\ bp'.text = bp.text /\ bp'.dirty = bp.dirty /\ bp'.obj = bp.obj /\ bp'.gen = bp.gen /\ bp'.disk = bp.disk
      /\ bp'.tail = bp.tail /\ bp'.acks = {} /\ bp'.load = bp.load /\ bp'.raced = bp.raced
      /\ bp'.close \in {"draining", "timedOut"}
  BY DEF BpClose, BpDrainTimeout, BufferOK, BufferShape, SavedFits, BufferParts
<1> QED BY <1>1 DEF BufferOK, BufferShape, ChainFits, SavedFits

LEMMA BufferFlushed == ASSUME BufferOK(bp), NEW ok \in BOOLEAN, flushQueryEditorBuffer(ok) PROVE BufferOK(bp')
<1> DEFINE close == IF ok \/ ~bp.dirty THEN "flushed" ELSE "failed"
           disk == IF ok /\ bp.dirty THEN bp.text ELSE bp.disk
<1>1. /\ DOMAIN bp' = BufferParts /\ bp'.text = bp.text /\ bp'.obj = bp.obj /\ bp'.gen = bp.gen /\ bp'.disk = disk
      /\ bp'.tail = <<>> /\ bp.tail = <<>> /\ bp'.acks = {} /\ bp.acks = {} /\ bp'.load = bp.load /\ bp'.raced = bp.raced
      /\ bp'.close = close /\ bp'.dirty = (bp.dirty /\ ~ok)
  BY DEF flushQueryEditorBuffer, BufferOK, BufferShape, SavedFits, BufferParts
<1>2. (bp'.dirty => bp.dirty /\ ~ok) /\ (bp.dirty /\ ~ok => bp'.dirty) BY <1>1
<1>3. close = "flushed" => ok \/ ~bp.dirty OBVIOUS
<1>4. close # "open" /\ disk \in BpTexts /\ (ok /\ bp.dirty => disk = bp.text) /\ (~(ok /\ bp.dirty) => disk = bp.disk)
  BY DEF BufferOK, BufferShape
<1> HIDE DEF close, disk
<1>5. SavedFits(bp') BY <1>1, <1>2, <1>3, <1>4 DEF BufferOK, SavedFits
<1> QED BY <1>1, <1>4, <1>5 DEF BufferOK, BufferShape, ChainFits

LEMMA BufferStep == ASSUME BufferOK(bp), BpNext PROVE BufferOK(bp')
  BY BufferEdited, SnapshotKeeps, BufferSaved, BufferAcked, BufferRead, BufferPublished, BufferClosed, BufferFlushed DEF BpNext

LEMMA BufferTrue == ASSUME BufferOK(bp) PROVE CleanIsOnDisk
  BY DEF BufferOK, SavedFits, CleanIsOnDisk

\* A buffer that says it is saved is on disk (saveQueryEditorBuffer and flushQueryEditorBuffer, gui.go), for
\* any number of texts, saves and connects, in whatever order saves, failures, acknowledgements, edits
\* and a Close come, unless a connect read the file while a save of it was under way.
THEOREM BuffersTheorem == BpSpec => []CleanIsOnDisk
<1>1. BpInit => BufferOK(bp) BY BufferInit
<1>2. BufferOK(bp) /\ [BpNext]_bp => BufferOK(bp)' BY BufferStep
<1>3. BufferOK(bp) => CleanIsOnDisk BY BufferTrue
<1> QED BY <1>1, <1>2, <1>3, PTL DEF BpSpec
=============================================================================
