------------------------------- MODULE Settings -------------------------------
(***************************************************************************)
(* The settings modal and the configuration it edits: a clone of the live  *)
(* configuration taken when the modal gets the focus, form tabs with text  *)
(* and toggle fields, the list of key bindings with the overrides laid     *)
(* over the shipped ones, and the save that validates, writes the file and *)
(* swaps the bindings.  The file may be edited and reloaded meanwhile.     *)
(***************************************************************************)
EXTENDS Integers, Sequences, SequencesExt

CONSTANTS
    StTabs,      \* the form tabs: sequences of [name, kind, ok, valid]: the values the
                 \* setter takes and those validation lets through
    StDefaults,  \* the shipped bindings: a sequence of [id, key]
    StIds,       \* what a binding is for: records [mode, scope, act], mode a set of tokens
    StKeys,      \* key sequences; the ones that parse are in StGood
    StGood,
    StQuit,      \* the quit action, which a configuration must bind
    StNop,       \* the action that takes a shipped binding away
    StFile,      \* the configuration on disk at the start
    StTexts,     \* texts typed into a field
    StTopics     \* budgets: records [keys, types, saves, files, evicts]

ASSUME SettingAssumption ==
    /\ StTabs \in Seq(Range(StTabs))
    /\ \A t \in DOMAIN StTabs : StTabs[t] \in Seq(Range(StTabs[t])) /\ StTabs[t] # <<>>
    /\ StDefaults \in Seq(Range(StDefaults)) /\ \A n \in DOMAIN StDefaults : StDefaults[n].id \in StIds
    /\ StFile.keys \in Seq([id : StIds, key : StKeys]) /\ DOMAIN StFile = {"fields", "keys"}

VARIABLE st

StNone == "none"
KeysTab == Len(StTabs) + 1
NoForm == [focus |-> [t \in 1 .. KeysTab |-> 1], error |-> [t \in 1 .. KeysTab |-> FALSE]]
NoEdited == [fields |-> <<>>, keys |-> <<>>]
NoStPrompt == [kind |-> StNone]

StSpend(s, what) == [s EXCEPT !.left[what] = @ - 1]
StCan(what) == st.left[what] > 0

-----------------------------------------
\* The list of key bindings: each shipped binding, under the first unused
\* override of its id, then the overrides that match none.
matchOverride(ids, used, id) ==
    LET fits == {i \in DOMAIN ids \ used : ids[i] = id} IN
    IF fits = {} THEN 0 ELSE CHOOSE i \in fits : \A j \in fits : i <= j

\* What the first n shipped bindings have taken, for every n, and the override of each
\* of them, 0 for none.
usedUpTo(ids) ==
    LET q[n \in 0 .. Len(StDefaults)] ==
            IF n = 0 THEN {} ELSE q[n - 1] \cup ({matchOverride(ids, q[n - 1], StDefaults[n].id)} \ {0})
    IN  q
defaultRows(ids) == [n \in DOMAIN StDefaults |-> matchOverride(ids, usedUpTo(ids)[n - 1], StDefaults[n].id)]

\* Those of the first n overrides that are not in used, for every n.
unused(ids, used) ==
    LET q[n \in 0 .. Len(ids)] ==
            IF n = 0 THEN <<>> ELSE IF n \in used THEN q[n - 1] ELSE Append(q[n - 1], n)
    IN  q
rowOverrides(ids) ==
    LET shipped == defaultRows(ids) IN shipped \o unused(ids, Range(shipped))[Len(ids)]

keyRow(keys, n, o) ==
    IF o = 0 THEN [id |-> StDefaults[n].id, key |-> StDefaults[n].key, override |-> 0]
    ELSE [id |-> keys[o].id, key |-> keys[o].key, override |-> o]
rebuildKeyRows(keys) ==
    LET os == rowOverrides([i \in DOMAIN keys |-> keys[i].id]) IN
    [n \in DOMAIN os |-> keyRow(keys, n, os[n])]

buildFormStates(s) == [s EXCEPT !.form = NoForm, !.rows = rebuildKeyRows(s.edited.keys)]

-----------------------------------------
\* Opening and leaving.  The clone is dropped whenever the modal loses its
\* place on the stack, saved or not.
Clone(c) == c
HandleSettingsFocus(s) == IF s.editing THEN s ELSE buildFormStates([s EXCEPT !.editing = TRUE, !.edited = Clone(s.live)])
HandleSettingsLost(s) ==
    [s EXCEPT !.editing = FALSE, !.edited = NoEdited, !.form = NoForm, !.pos = StNone, !.prompt = NoStPrompt]

OpenSettings ==
    /\ st.pos # "shown" /\ StCan("keys")
    /\ st' = HandleSettingsFocus(StSpend([st EXCEPT !.pos = "shown"], "keys"))

CloseSettings ==
    /\ st.pos = "shown" /\ st.prompt = NoStPrompt
    /\ st' = HandleSettingsLost(st)

\* Another main context, such as the connection manager, takes the place of
\* the modal, and gives it back when it is left.
Displace ==
    /\ st.pos = "shown" /\ st.prompt = NoStPrompt /\ StCan("evicts")
    /\ st' = StSpend([HandleSettingsLost(st) EXCEPT !.pos = "evicted"], "evicts")
Replace ==
    /\ st.pos = "evicted"
    /\ st' = HandleSettingsFocus([st EXCEPT !.pos = "shown"])

-----------------------------------------
\* Keys of the modal.
OnSettings == st.pos = "shown" /\ st.prompt = NoStPrompt /\ StCan("keys")
SettingRows(s) == IF s.tab = KeysTab THEN Len(s.rows) ELSE Len(StTabs[s.tab])
SetFocusField(s, i) ==
    [s EXCEPT !.form.focus[s.tab] = IF SettingRows(s) = 0 \/ i < 1 THEN 1 ELSE IF i > SettingRows(s) THEN SettingRows(s) ELSE i]
ClearError(s) == [s EXCEPT !.form.error[s.tab] = FALSE]
SetError(s) == [s EXCEPT !.form.error[s.tab] = TRUE]

SwitchSettingsTab ==
    /\ OnSettings
    /\ \E d \in {1, -1} :
          st' = ClearError(StSpend([st EXCEPT !.tab = 1 + ((@ - 1 + d + KeysTab) % KeysTab)], "keys"))

MoveSetting ==
    /\ OnSettings
    /\ \E d \in {1, -1} : st' = StSpend(SetFocusField(st, st.form.focus[st.tab] + d), "keys")

GetFocusedField(s) == IF s.tab = KeysTab THEN {} ELSE {StTabs[s.tab][s.form.focus[s.tab]]}

SetFocusedFieldValue(s, text) ==
    LET f == CHOOSE x \in GetFocusedField(s) : TRUE IN
    IF GetFocusedField(s) = {} \/ f.kind = "readonly" THEN s
    ELSE IF text \in f.ok THEN ClearError([s EXCEPT !.edited.fields[f.name] = text]) ELSE SetError(s)

ToggleFocused ==
    /\ OnSettings
    /\ \E f \in GetFocusedField(st) :
          /\ f.kind = "toggle"
          /\ st' = ClearError(StSpend([st EXCEPT !.edited.fields[f.name] = IF @ = "true" THEN "false" ELSE "true"], "keys"))

\* A text field, read-only ones too, or the key of the focused binding.
SettingEdit ==
    /\ OnSettings
    /\ \/ \E f \in GetFocusedField(st) :
             f.kind # "toggle" /\ st' = StSpend([st EXCEPT !.prompt = [kind |-> "field", name |-> f.name]], "keys")
       \/ /\ st.tab = KeysTab /\ st.rows # <<>>
          /\ st' = StSpend([st EXCEPT !.prompt = [kind |-> "rebind", row |-> st.rows[st.form.focus[KeysTab]]]], "keys")

KeybindingAdd ==
    /\ OnSettings
    /\ st' = StSpend([st EXCEPT !.prompt = [kind |-> "add", given |-> <<>>]], "keys")

KeybindingDelete ==
    LET r == st.rows[st.form.focus[KeysTab]] IN
    /\ OnSettings /\ st.tab = KeysTab /\ st.rows # <<>>
    /\ r.override # 0
    /\ st' = StSpend([st EXCEPT !.prompt = [kind |-> "delete", row |-> r]], "keys")

-----------------------------------------
\* What the prompts and the confirmation do when they are answered.
EditFocusedKeybinding(s, key) ==
    LET r == s.rows[s.form.focus[KeysTab]]
        keys == IF r.override # 0 THEN [s.edited.keys EXCEPT ![r.override].key = key]
                ELSE Append(s.edited.keys, [id |-> r.id, key |-> key])
    IN  [s EXCEPT !.edited.keys = keys, !.rows = rebuildKeyRows(keys)]

\* Mutant: the list is not rebuilt, so its rows point past the deleted override.
deleteKeepingRows(s) ==
    LET r == s.rows[s.form.focus[KeysTab]] IN
    [s EXCEPT !.edited.keys = RemoveAt(@, r.override), !.gone = s.edited.keys[r.override]]
DeleteFocusedKeybinding(s) ==
    LET r == s.rows[s.form.focus[KeysTab]]
        keys == RemoveAt(s.edited.keys, r.override)
        rows == rebuildKeyRows(keys)
        f == s.form.focus[KeysTab]
    IN  [s EXCEPT !.edited.keys = keys, !.rows = rows, !.gone = s.edited.keys[r.override],
                  !.form.focus[KeysTab] = IF f > Len(rows) THEN (IF rows = <<>> THEN 1 ELSE Len(rows)) ELSE f]

CancelSettingsPrompt ==
    /\ st.prompt # NoStPrompt
    /\ st' = [st EXCEPT !.prompt = NoStPrompt]

SubmitField ==
    \E text \in StTexts :
        /\ st.prompt.kind = "field" /\ StCan("types")
        /\ st' = StSpend(SetFocusedFieldValue([st EXCEPT !.prompt = NoStPrompt], text), "types")

SubmitRebind ==
    \E key \in StKeys :
        /\ st.prompt.kind = "rebind" /\ StCan("types")
        /\ st' = StSpend(EditFocusedKeybinding([st EXCEPT !.prompt = NoStPrompt], key), "types")

\* The chain asks for the binding's id (mode, scope and action) and its key, one
\* prompt after another; the last one adds it and rebuilds every tab.
SubmitAdd ==
    LET p == st.prompt IN
    /\ p.kind = "add"
    /\ \/ /\ p.given = <<>>
          /\ \E id \in StIds : st' = [st EXCEPT !.prompt.given = <<id>>]
       \/ /\ p.given # <<>> /\ StCan("types")
          /\ \E key \in StKeys :
                st' = StSpend(buildFormStates([st EXCEPT !.prompt = NoStPrompt,
                                                        !.edited.keys = Append(@, [id |-> p.given[1], key |-> key])]), "types")

ConfirmDelete ==
    /\ st.prompt.kind = "delete"
    /\ st' = [DeleteFocusedKeybinding([st EXCEPT !.prompt = NoStPrompt])
                 EXCEPT !.asked = [id |-> st.prompt.row.id, key |-> st.prompt.row.key]]

-----------------------------------------
\* Saving and reloading.
\* Two bindings of one key in one mode and scope clash, unless one of them is a no-op.
Clash(a, b) ==
    /\ a.key = b.key /\ a.id.scope = b.id.scope /\ a.id.mode \cap b.id.mode # {}
    /\ StNop \notin {a.id.act, b.id.act}
ValidateUserConfig(c) ==
    /\ \A t \in DOMAIN StTabs : \A i \in DOMAIN StTabs[t] : c.fields[StTabs[t][i].name] \in StTabs[t][i].valid
    /\ \A i \in DOMAIN c.keys : c.keys[i].key \in StGood
    /\ \A i, j \in DOMAIN c.keys : i # j => ~Clash(c.keys[i], c.keys[j])
    /\ \E i \in DOMAIN c.keys : c.keys[i].id.act = StQuit

\* The program does not start on a configuration that is not valid.
ASSUME StartAssumption == ValidateUserConfig(StFile)

\* The write may fail; then nothing else happens and the modal stays.
OnSaveConfig(s, c) ==
    {[s EXCEPT !.disk = c, !.trie = c.keys, !.live = c, !.yank = c.fields], SetError(s)}

ConfirmSettings ==
    LET s == StSpend(st, "saves") IN
    /\ st.pos = "shown" /\ st.prompt = NoStPrompt /\ StCan("saves")
    /\ \/ ~ValidateUserConfig(st.edited) /\ st' = SetError(s)
       \/ ValidateUserConfig(st.edited)
          /\ st' \in {IF n.form.error[n.tab] THEN n ELSE HandleSettingsLost(n) : n \in OnSaveConfig(ClearError(s), st.edited)}

EditFile ==
    \E i \in DOMAIN st.disk.keys :
        /\ StCan("files")
        /\ st' = StSpend([st EXCEPT !.disk.keys = RemoveAt(@, i)], "files")

ReloadSettings ==
    /\ StCan("files") /\ st.prompt = NoStPrompt
    /\ st' = StSpend(IF ValidateUserConfig(st.disk)
                     THEN [st EXCEPT !.live = st.disk, !.trie = st.disk.keys] ELSE st, "files")

-----------------------------------------
StInit ==
    \E left \in StTopics :
        st = [pos |-> StNone, editing |-> FALSE, edited |-> NoEdited, form |-> NoForm, rows |-> <<>>, tab |-> 1,
              prompt |-> NoStPrompt, disk |-> StFile, live |-> StFile, trie |-> StFile.keys, yank |-> StFile.fields,
              asked |-> StFile.keys[1], gone |-> StFile.keys[1], left |-> left]

StNext ==
    \/ OpenSettings \/ CloseSettings \/ Displace \/ Replace
    \/ SwitchSettingsTab \/ MoveSetting \/ ToggleFocused \/ SettingEdit \/ KeybindingAdd \/ KeybindingDelete
    \/ CancelSettingsPrompt \/ SubmitField \/ SubmitRebind \/ SubmitAdd \/ ConfirmDelete
    \/ ConfirmSettings \/ EditFile \/ ReloadSettings

StSpec == StInit /\ [][StNext]_st

-----------------------------------------
\* The list of bindings is always the one of the edited configuration: every
\* row that names an override shows that override.
RowsMirror == st.editing => st.rows = rebuildKeyRows(st.edited.keys)

\* A confirmed deletion removes the binding the confirmation named, whatever
\* was added, rebound or deleted before.
DeletesAsked == st.gone = st.asked

\* The focus of each tab is on a field, or on a row, that exists.
FocusExists ==
    st.editing => /\ \A t \in DOMAIN StTabs : st.form.focus[t] \in DOMAIN StTabs[t]
                  /\ st.rows # <<>> => st.form.focus[KeysTab] \in DOMAIN st.rows

\* What runs was valid, and the key bindings in force are those of the live
\* configuration; a draft never leaks into either before it is saved.
LiveIsSound == ValidateUserConfig(st.live) /\ st.trie = st.live.keys /\ (~st.editing => st.edited = NoEdited)

\* The settings modal shows and changes what it says, and only a valid
\* configuration goes live.
SettingsTruth == RowsMirror /\ DeletesAsked /\ FocusExists /\ LiveIsSound
=============================================================================
