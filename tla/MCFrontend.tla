----------------------------- MODULE MCFrontend -----------------------------
(***************************************************************************)
(* The parts of the interface.  Each one is a machine of its own, driven by *)
(* keys and by what workers report, so a behaviour picks one of them and     *)
(* leaves the others switched off: one run is the sum of their instances and *)
(* not the product.                                                          *)
(***************************************************************************)
EXTENDS VimEditor, BufferPersistence, ResultTabs, ResultExport, KeyMatcher, GridView,
        ConnectionManager, FilePicker, Popups, EditDialogs, RelationPanel, Settings,
        Completion, PlanView, ExplainRun, TLC

VARIABLE focus

frontVars == <<ed, bp, rt, xp, km, gr, cm, fp, pp, dg, rp, st, cp, pv, er, focus>>

Off == "off"
Parts == {"editor", "buffers", "tabs", "export", "keys", "grid", "connections", "picker",
          "popups", "dialogs", "relations", "settings", "completion", "plan", "explain"}
Part(name, init, off) == IF focus = name THEN init ELSE off

FrontInit ==
    /\ focus \in Parts
    /\ Part("editor", EdInit, ed = Off) /\ Part("buffers", BpInit, bp = Off)
    /\ Part("tabs", RtInit, rt = Off) /\ Part("export", XpInit, xp = Off)
    /\ Part("keys", KmInit, km = Off) /\ Part("grid", GrInit, gr = Off)
    /\ Part("connections", CmInit, cm = Off) /\ Part("picker", FpInit, fp = Off)
    /\ Part("popups", PpInit, pp = Off) /\ Part("dialogs", EdgInit, dg = Off)
    /\ Part("relations", RpInit, rp = Off) /\ Part("settings", StInit, st = Off)
    /\ Part("completion", CpInit, cp = Off) /\ Part("plan", PvInit, pv = Off)
    /\ Part("explain", ErInit, er = Off)

Steps(name) == focus = name /\ UNCHANGED focus

FrontNext ==
    \/ Steps("editor") /\ EdNext /\ UNCHANGED <<bp, rt, xp, km, gr, cm, fp, pp, dg, rp, st, cp, pv, er>>
    \/ Steps("buffers") /\ BpNext /\ UNCHANGED <<ed, rt, xp, km, gr, cm, fp, pp, dg, rp, st, cp, pv, er>>
    \/ Steps("tabs") /\ RtNext /\ UNCHANGED <<ed, bp, xp, km, gr, cm, fp, pp, dg, rp, st, cp, pv, er>>
    \/ Steps("export") /\ XpNext /\ UNCHANGED <<ed, bp, rt, km, gr, cm, fp, pp, dg, rp, st, cp, pv, er>>
    \/ Steps("keys") /\ KmNext /\ UNCHANGED <<ed, bp, rt, xp, gr, cm, fp, pp, dg, rp, st, cp, pv, er>>
    \/ Steps("grid") /\ GrNext /\ UNCHANGED <<ed, bp, rt, xp, km, cm, fp, pp, dg, rp, st, cp, pv, er>>
    \/ Steps("connections") /\ CmNext /\ UNCHANGED <<ed, bp, rt, xp, km, gr, fp, pp, dg, rp, st, cp, pv, er>>
    \/ Steps("picker") /\ FpNext /\ UNCHANGED <<ed, bp, rt, xp, km, gr, cm, pp, dg, rp, st, cp, pv, er>>
    \/ Steps("popups") /\ PpNext /\ UNCHANGED <<ed, bp, rt, xp, km, gr, cm, fp, dg, rp, st, cp, pv, er>>
    \/ Steps("dialogs") /\ EdgNext /\ UNCHANGED <<ed, bp, rt, xp, km, gr, cm, fp, pp, rp, st, cp, pv, er>>
    \/ Steps("relations") /\ RpNext /\ UNCHANGED <<ed, bp, rt, xp, km, gr, cm, fp, pp, dg, st, cp, pv, er>>
    \/ Steps("settings") /\ StNext /\ UNCHANGED <<ed, bp, rt, xp, km, gr, cm, fp, pp, dg, rp, cp, pv, er>>
    \/ Steps("completion") /\ CpNext /\ UNCHANGED <<ed, bp, rt, xp, km, gr, cm, fp, pp, dg, rp, st, pv, er>>
    \/ Steps("plan") /\ PvNext /\ UNCHANGED <<ed, bp, rt, xp, km, gr, cm, fp, pp, dg, rp, st, cp, er>>
    \/ Steps("explain") /\ ErNext /\ UNCHANGED <<ed, bp, rt, xp, km, gr, cm, fp, pp, dg, rp, st, cp, pv>>

FrontSpec == FrontInit /\ [][FrontNext]_frontVars

-----------------------------------------
(* The properties of the parts, each where its part is switched on. *)

\* The editor and its saved buffers: undo gives back the text a node stood for,
\* cursor, selection, pending operator and popup fit the text whatever keys came
\* before, and a buffer that says it is saved is on disk, however saves, edits,
\* connects and acknowledgements overtake each other (VimEditor, BufferPersistence).
FrontBuffers ==
    /\ focus = "editor" => UndoRestores /\ EditorSound
    /\ focus = "buffers" => CleanIsOnDisk

\* Result tabs and exports: rows, editability and direction are those of the tab's last
\* run, a tab that flows has a worker or an event to end it, and what a finished export
\* wrote is rows of the stream it was confirmed on, complete or reported as cut short
\* (ResultTabs, ResultExport).
FrontResults ==
    /\ focus = "tabs" => TabsSound
    /\ focus = "export" => ExportTruth

\* Keys: every press is run, pending, typed or dropped for a reason, exactly once, with
\* timers, mode changes and reloads in between (KeyMatcher).
FrontKeys == focus = "keys" => PressesAccountedFor

\* Grid: cursor on a cell, matches that are the cells matching, the drawn columns and
\* hints true of what is hidden (GridView).
FrontGrid == focus = "grid" => GridTruth

\* Connections: the profiles file is sound and keeps each profile's policy, and probes
\* and checklists tell about the attempt they belong to (ConnectionManager).
FrontConnections == focus = "connections" => ManagerTruth

\* File picker and popups: what is picked is what the list showed under the cursor, an
\* answer reaches the asker of the prompt on screen, secrets stay masked and protected
\* writes are confirmed (FilePicker, Popups).
FrontPrompts ==
    /\ focus = "picker" => PickTruth
    /\ focus = "popups" => PopupTruth

\* Cell editor, commit and conflict dialogs: a write goes to the table and connection it
\* was typed for, late outcomes change no newer dialog, a draft is not lost (EditDialogs).
FrontDialogs == focus = "dialogs" => EditTruth

\* Relationship panel: counts painted for a row are the row's and of the present
\* generation, and every missing one is being read (RelationPanel).
FrontRelations == focus = "relations" => RelTruth

\* Settings: the rows mirror what a save would write, nothing is deleted that was not
\* asked for, and the live configuration is a sound one (Settings).
FrontSettings == focus = "settings" => SettingsTruth

\* Completion: the list holds every name of the catalog that matches, ranked, and what is
\* accepted reads back as the name chosen, under an alias of its own, unless the name is a
\* reserved word or goes in as it stands and needs quotes (Completion, SqlContext).
FrontCompletion == focus = "completion" => CompletionTruth

\* Plans: one marked row, jumps that land, the severest finding as badge; an EXPLAIN is
\* executed once, inside a transaction, and the user's transaction is left to the user
\* (PlanView, ExplainRun).
FrontPlans ==
    /\ focus = "plan" => PlanTruth
    /\ focus = "explain" => ExplainTruth

-----------------------------------------
(* Instances. *)

EMTopic(text, clip, motions, objects, ops) ==
    [text |-> text, clip |-> clip, motions |-> motions, objects |-> objects, ops |-> ops]
EMTopics ==
    { EMTopic(<< <<"a", ";", " ", ";">>, <<"'", ";", "'", "a">> >>, << <<"A">> >>, {"l", "$"}, TextObjects, {"d", "gU"}),
      EMTopic(<< <<"(", "a", ")">>, <<"a">> >>, NoText, {"h", "l", "k", "^", "0"}, TextObjects, {"y", "c"}),
      EMTopic(<< <<"a", " ", "a">>, <<>>, <<" ", "a">> >>, << <<"A">> >>, WordMotions, {}, {"d"}),
      EMTopic(<< <<"a", " ", "a">>, <<>>, <<" ", "a">> >>, NoText, {"j", "gg", "G", "{", "}", "H", "M", "L"}, {}, {">", "<"}),
      EMTopic(<<>>, << <<"A">> >>, {"j", "w"}, {"word"}, Operators) }

KMBind(seq, modes, scope, act) == [seq |-> seq, modes |-> modes, scope |-> scope, act |-> act]
KMKeys == {"i", "g", "j", "k", "1", "quote", "esc", "bs", "space", "^c"}
KMDefaults ==
    << KMBind(<<"i">>, {"N"}, "editor", "insert"), KMBind(<<"k">>, {"N"}, "editor", "visual"),
       KMBind(<<"j">>, {"N", "V"}, "editor", "down"), KMBind(<<"g">>, {"N", "V"}, "editor", "go"),
       KMBind(<<"g", "g">>, {"N", "V"}, "editor", "top"), KMBind(<<"j", "k">>, {"I"}, "editor", "normal"),
       KMBind(<<"esc">>, {"I", "V"}, "editor", "normal"), KMBind(<<"<leader>", "g">>, {"N"}, "all", "find"),
       KMBind(<<"g">>, {"N"}, "popup", "pick") >>
KMConfigs ==
    { <<>>,
      << KMBind(<<"<leader>", "k">>, {"N"}, "editor", "down"), KMBind(<<"g", "1">>, {"N"}, "editor", "<nop>") >>,
      << KMBind(<<"1">>, {"N"}, "editor", "top"), KMBind(<<"j">>, {"I", "N"}, "editor", "top"),
         KMBind(<<"0">>, {}, "", "zap") >> }

GMRow1 == << <<"a">>, <<"A", "b", "a">>, <<"b">> >>
GMRow2 == << <<>>, <<"b">>, <<"a", "A">> >>
GMPool == {GMRow1, GMRow2}
GMQueries == { <<"A">>, <<"b", "a">> }
GMLoaded == { <<GMRow1, GMRow2>> }
GMRemembered == { {1}, {0, 1, 2, 3} }
GMClicks == {3}
GMTopics == { {"hide", "search"}, {"record"}, {"select", "sort"} }
GMSizes == { <<7, 2>>, <<0, 0>> }

CMTunnel == [NoTunnel EXCEPT !.on = TRUE, !.host = "h", !.user = "u", !.agent = TRUE]
CMFirst == Profile("a", "h", NoTunnel)
CMSecond == [Profile("b", "", CMTunnel) EXCEPT !.dsn = "d", !.password = "pw", !.access = "full"]
CMFiles == { <<CMFirst, CMSecond>>, <<>> }
CMEdited == { <<[CMFirst EXCEPT !.access = "metadata", !.history = TRUE], CMSecond>> }
CMMixes ==
    { [rows |-> <<"cli_access", "cli_history">>, does |-> {"edit", "form", "editor"}, by |-> {1, 2}, ops |-> 5],
      [rows |-> <<"name", "host">>, does |-> {"list", "add", "edit", "form", "delete"}, by |-> {1, 2}, ops |-> 4],
      [rows |-> <<"use_ssh_tunnel", "ssh_auth", "identity_file">>,
       does |-> {"list", "edit", "form", "test", "close"}, by |-> {1}, ops |-> 5],
      [rows |-> <<"name", "host">>, does |-> {"edit", "form", "paste", "test"}, by |-> {1}, ops |-> 4],
      [rows |-> <<"host">>, does |-> {"list", "connect", "close", "edit"}, by |-> {1}, ops |-> 4] }

FMNames == <<".h", "d", "f", "l">>
FMSize == [n \in ToSet(FMNames) |-> IF n = "f" THEN 1 ELSE 0]
FMTime == [n \in ToSet(FMNames) |-> IF n = "l" THEN 1 ELSE 0]
FMPaths == { <<".h">>, <<"d">>, <<"f">>, <<"d", "f">> }
FMTrees == { [p \in FMPaths |-> IF p = <<"d">> THEN "dir" ELSE "file"], [p \in FMPaths |-> "none"] }
FMStarts == { <<"open", <<>>>>, <<"save", <<"d", "f">>>> }
FMQueries == { [text |-> "", hits |-> {}], [text |-> "d", hits |-> {"d"}],
               [text |-> "l", hits |-> {"d", "f", "l"}] }

PMFile == << [name |-> "q", sql |-> 0] >>
PMMix(w, s, r, l) == [walk |-> w, secret |-> s, run |-> r, rail |-> l]
PMMixes == { PMMix(1, 1, 0, 0), PMMix(0, 1, 1, 0), PMMix(2, 0, 0, 2), PMMix(1, 0, 1, 0), PMMix(0, 2, 0, 0) }

DMConn == [t1 |-> "A", t2 |-> "B"]
DMTable == [t1 |-> "x", t2 |-> "x"]
DMCells == [c |-> [bool |-> FALSE, nullable |-> TRUE, checked |-> TRUE, null |-> TRUE],
            d |-> [bool |-> TRUE, nullable |-> FALSE, checked |-> FALSE, null |-> FALSE]]
DMBudget(e, o, s, t, c, x) == [edits |-> e, opens |-> o, starts |-> s, tabs |-> t, connects |-> c, others |-> x]
DMBudgets == { DMBudget(2, 1, 1, 1, 0, 1), DMBudget(1, 2, 2, 1, 1, 0), DMBudget(1, 2, 2, 0, 0, 1) }

RMTable == [t1 |-> "p", t2 |-> "c"]
RMCells == [t1 |-> << [id |-> "v1", up |-> "v2"], [id |-> "v2", up |-> "null"] >>, t2 |-> << [id |-> "v1"] >>]
RMForward == [p |-> << [ref |-> "p", col |-> "up"], [ref |-> "q", col |-> "gone"] >>,
              c |-> << [ref |-> "p", col |-> "id"] >>]
RMReverse == [p |-> << [child |-> "c", refcol |-> "id"], [child |-> "p", refcol |-> "id"] >>, c |-> <<>>]
RMBudget(m, t, o, k, w, i, p) ==
    [moves |-> m, tabs |-> t, toggles |-> o, keys |-> k, writes |-> w, idents |-> i, picks |-> p]
RMBudgets ==
    { RMBudget(1, 0, 1, 2, 1, 0, 0), RMBudget(2, 0, 2, 0, 0, 0, 0), RMBudget(0, 0, 1, 3, 0, 0, 0),
      RMBudget(1, 1, 1, 0, 0, 1, 0), RMBudget(1, 0, 0, 0, 0, 0, 3), RMBudget(0, 1, 1, 0, 0, 0, 2),
      RMBudget(0, 1, 1, 0, 1, 0, 0), RMBudget(0, 0, 3, 0, 1, 0, 0) }

SMId(m, s, a) == [mode |-> m, scope |-> s, act |-> a]
SMQuit == SMId({"n"}, "g", "quit")
SMRun == SMId({"n", "i"}, "e", "run")
SMTabs ==
    << << [name |-> "leader", kind |-> "text", ok |-> {"a", "1"}, valid |-> {"a"}],
          [name |-> "version", kind |-> "readonly", ok |-> {}, valid |-> {"a"}] >>,
       << [name |-> "mouse", kind |-> "toggle", ok |-> {"true", "false"}, valid |-> {"true", "false"}] >> >>
SMDefaults == << [id |-> SMQuit, key |-> "q"], [id |-> SMRun, key |-> "r"], [id |-> SMRun, key |-> "R"] >>
SMFile == [fields |-> [leader |-> "a", version |-> "a", mouse |-> "true"],
           keys |-> << [id |-> SMQuit, key |-> "q"] >>]
SMIds == {SMQuit, SMRun, SMId({"i"}, "g", "help"), SMId({"n"}, "g", "<nop>")}
SMBudget(k, t, s, f, e) == [keys |-> k, types |-> t, saves |-> s, files |-> f, evicts |-> e]
SMBudgets == { SMBudget(5, 2, 1, 0, 0), SMBudget(7, 1, 1, 0, 0), SMBudget(4, 1, 1, 2, 1) }

LMUsers == <<"u", "s">>
LMUnits == <<"u", "n">>
LMTables == << <<"order">>, <<"u", " ", "n">>, LMUsers, LMUnits >>
LMColumns == (LMUsers :> << <<"i", "d">>, <<"n">> >>) @@ (LMUnits :> << <<"i", "d">>, <<"u", "s">> >>)
LMForeign == LMUnits :> << [col |-> <<"u", "s">>, refSchema |-> <<>>, refTable |-> LMUsers, refCol |-> <<"i", "d">>] >>
LMAt(t, c) == [text |-> t, cur |-> c]
LMTexts ==
    { LMAt(<<"SELECT", " ", "FROM", " ", "u", "s", " ", "u", " ", "JOIN", " ", "u", "n", " ", "n">>, 2),
      LMAt(<<"FROM", " ", "u", "s", " ", "u", " ", "JOIN", " ">>, 9),
      LMAt(<<"FROM", " ", "u", " ", "JOIN", " ">>, 6),
      LMAt(<<"FROM", " ", "u", "s", " ", "JOIN", " ", "u", "n", " ", "n", " ", "ON", " ">>, 14), LMAt(<<>>, 0) }
LMSnippets == << [name |-> <<"s", "e">>, body |-> <<"SELECT", " ", "FROM", " ">>] >>
LMBudget(k, m, f, x, w, a) == [keys |-> k, moves |-> m, flush |-> f, fails |-> x, switch |-> w, alias |-> a]
LMBudgets ==
    { LMBudget(3, 0, 0, 0, 0, 1), LMBudget(1, 0, 1, 0, 0, 1), LMBudget(3, 0, 0, 0, 0, 0), LMBudget(1, 1, 0, 0, 0, 0),
      LMBudget(1, 0, 0, 1, 1, 0) }
LMFunctions == << <<"u", "p">> >>
LMSchema == <<"p">>
LMLetters == ("SELECT" :> "s") @@ ("FROM" :> "f") @@ ("JOIN" :> "j") @@ ("ON" :> "o") @@ ("order" :> "o")
LMHistory == << <<"u", "n", "x">> >>

VMEntry(parent, op, cost, time) ==
    [object |-> TRUE, parent |-> parent, op |-> op, cost |-> cost, est |-> 10, time |-> time,
     loops |-> IF time = Absent THEN Absent ELSE 1, rows |-> IF time = Absent THEN Absent ELSE 10,
     removed |-> 0, spilled |-> FALSE, read |-> 0, hit |-> 0, heap |-> 0]
VMNoObject(parent) == [VMEntry(parent, "none", 0, Absent) EXCEPT !.object = FALSE]
VMEstimate ==
    << VMEntry(0, "Hash", 900, Absent), VMEntry(1, "Nested Loop", 700, Absent),
       [VMEntry(2, "Index Only Scan", 300, Absent) EXCEPT !.heap = 1000, !.read = 1000, !.hit = 500],
       VMNoObject(2), VMEntry(2, "Seq Scan", 400, Absent),
       [VMEntry(1, "Sort", 300, Absent) EXCEPT !.spilled = TRUE] >>
VMAnalyzed ==
    << VMEntry(0, "Nested Loop", 900, 90),
       [VMEntry(1, "Seq Scan", 300, 30) EXCEPT !.removed = 10000, !.rows = 1000, !.est = 200],
       [VMEntry(1, "Sort", 300, 1) EXCEPT !.loops = 1000, !.spilled = TRUE],
       [VMEntry(3, "Index Only Scan", 100, 1) EXCEPT !.heap = 2000, !.rows = 0, !.loops = 500, !.est = 100],
       [VMEntry(3, "Index Scan", 100, 1) EXCEPT !.rows = Absent, !.loops = 400] >>
VMDocs == { <<>>, << VMEntry(0, "Result", 1, Absent) >>, VMEstimate, VMAnalyzed }
VMKeys == {"toggle", "expandAll", "collapseAll", "heaviest", "raw", "insights", "down", "up"}

XMStatements ==
    { [lead |-> "other", dml |-> FALSE, ddl |-> FALSE], [lead |-> "other", dml |-> TRUE, ddl |-> FALSE],
      [lead |-> "ddl", dml |-> FALSE, ddl |-> TRUE] }
=============================================================================
