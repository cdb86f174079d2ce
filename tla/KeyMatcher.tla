------------------------------ MODULE KeyMatcher ------------------------------
(***************************************************************************)
(* From a key press to a command (gui/keys: keybinding_service.go,          *)
(* chord_trie.go, matcher.go, whichkey_impl.go, reload.go, and              *)
(* orchestrator/master_editor.go and the shims of gui.go). The bindings are *)
(* built from the shipped ones and the user's; the matcher collects keys    *)
(* into chords with counts and registers, in a mode of the scope that has   *)
(* the focus. A timer ends a chord that could be longer; its callback is    *)
(* posted to the UI goroutine and may be overtaken by keys, clicks and      *)
(* reloads.                                                                 *)
(*                                                                          *)
(* A key carries the number of its press, so that what became of each press *)
(* is known: typed into the text, part of a command, pending, or dropped.   *)
(***************************************************************************)
EXTENDS Integers, Sequences, SequencesExt, FiniteSets

CONSTANTS KmKeys,       \* the keys pressed
          KmDefaults,   \* shipped bindings, in order
          KmConfigs,    \* user configurations: sequences of bindings
          KmPresses     \* bound on presses

ASSUME KmAssumption == KmPresses \in Nat /\ \A c \in KmConfigs : c \in Seq(Range(c))

VARIABLE km

-----------------------------------------
\* Bindings are [seq, modes, scope, act]. Modes are normal, visual and
\* insert; scopes the editor, a popup, and the global one.
Modes == {"N", "V", "I"}
Scopes == {"editor", "popup", "GLOBAL"}
crossModeMask == {"V"}
Digits == {"0", "1"}
Special == {"esc", "bs", "^c"}
Quote == "quote"
Leader == "space"
isPrintableRune(k) == k \notin Special
isEditorSafeSpecial(k) == k = "bs"
Typing(mode) == mode = "I"

expandLeaderTokens(seq) == [i \in DOMAIN seq |-> IF seq[i] = "<leader>" THEN Leader ELSE seq[i]]
\* "all" is every context that is no popup, and the global scope.
fanOutScopes(scope) == CASE scope = "all" -> {"editor", "GLOBAL"}
                         [] scope = "" -> {"GLOBAL"}
                         [] OTHER -> {scope}
fanOutBinding(b) == b.modes \X fanOutScopes(b.scope)

\* A trie is its bindings: a sequence of keys has one action.
insert(trie, seq, act) == {x \in trie : x.seq # seq} \cup {[seq |-> seq, act |-> act]}
\* A binding of an action that nobody registered is skipped.
Registry == {KmDefaults[i].act : i \in DOMAIN KmDefaults} \cup {"<nop>"}
insertBinding(tries, at, b) ==
    [p \in DOMAIN tries |-> IF p \in at /\ b.act \in Registry THEN insert(tries[p], expandLeaderTokens(b.seq), b.act)
                           ELSE tries[p]]
RemoveLeafByAction(trie, act) == {x \in trie : x.act # act}
reservedMotionTarget(seq) == Len(seq) = 1 /\ seq[1] \in Digits \cup {Quote}

EmptyTries == [p \in Modes \X Scopes |-> {}]
Shipped == FoldSeq(LAMBDA b, t : insertBinding(t, fanOutBinding(b), b), EmptyTries, Reverse(KmDefaults))
shippedModes(act, scope) ==
    {m \in Modes : \E i \in DOMAIN KmDefaults : KmDefaults[i].act = act /\ <<m, scope>> \in fanOutBinding(KmDefaults[i])}

\* A user's key for an action that ships with visual bindings replaces it in
\* every mode it ships in; a key that counts or names a register is refused.
crossModeBindings(tries, u) ==
    LET rec == shippedModes(u.act, u.scope)
        moved == [p \in DOMAIN tries |-> IF p \in rec \X {u.scope} THEN RemoveLeafByAction(tries[p], u.act) ELSE tries[p]]
    IN  IF rec \cap crossModeMask = {} THEN insertBinding(tries, fanOutBinding(u), u)
        ELSE IF reservedMotionTarget(u.seq) THEN tries
        ELSE insertBinding(insertBinding(moved, fanOutBinding(u), u), (rec \ u.modes) \X {u.scope}, u)
\* A configured binding without an action or a mode is skipped.
liftKeybindingConfig(kb) == IF kb.act = "" \/ kb.modes = {} THEN <<>>
                            ELSE << [kb EXCEPT !.scope = IF @ = "" THEN "GLOBAL" ELSE @] >>
Build(cfg) == FoldSeq(LAMBDA kb, t : FoldSeq(LAMBDA u, tt : crossModeBindings(tt, u), t, liftKeybindingConfig(kb)),
                      Shipped, Reverse(cfg))
TrieSets == [c \in KmConfigs |-> Build(c)]

Found(trie, seq) == \E b \in trie : IsPrefix(seq, b.seq)
Leafs(trie, seq) == {b.act : b \in {x \in trie : x.seq = seq}}
HasChildren(trie, seq) == \E b \in trie : IsStrictPrefix(seq, b.seq)
ReachableKeys(cfg, scope) == {k \in KmKeys : \E m \in Modes : \E b \in TrieSets[cfg][<<m, scope>>] : k \in Range(b.seq)}

-----------------------------------------
\* The matcher. The timer keeps what it needs when it fires.
NoTimer == [armed |-> FALSE, scope |-> "GLOBAL", input |-> "GLOBAL", mode |-> "N", pending |-> <<>>]
KmInit ==
    \E c \in KmConfigs :
      km = [cfg |-> c, boot |-> c, mode |-> [s \in Scopes |-> "N"], focus |-> "editor", pending |-> <<>>,
            leaf |-> {}, prefix |-> <<>>, timer |-> NoTimer, fired |-> {}, which |-> <<>>,
            n |-> 0, text |-> <<>>, ran |-> <<>>, cut |-> {}, cancelled |-> {}, typed |-> {}, quit |-> FALSE]

Codes(keys) == [i \in DOMAIN keys |-> keys[i].k]
Presses(keys) == {keys[i].i : i \in DOMAIN keys}
\* Count digits and the register name are the prefix of the coming command.
\* Mutant: the sequence number is not advanced, and a posted callback stays good.
keepSeq(s) == s
\* A new sequence number makes the callbacks that are posted stale.
bumpSeq(s) == [s EXCEPT !.fired = IF @ = {} THEN {} ELSE {"stale"}]
Clear(s) == [bumpSeq(s) EXCEPT !.timer = NoTimer, !.pending = <<>>, !.leaf = {}, !.prefix = <<>>]
cancelLocked(s) == [Clear(s) EXCEPT !.cut = @ \cup Presses(s.pending \o s.prefix)]
cancelPendingLocked(s) == [bumpSeq(s) EXCEPT !.timer = NoTimer, !.pending = <<>>, !.leaf = {}]
HideHint(s) == [s EXCEPT !.which = <<>>]
Cancel(s) == LET c == [Clear(s) EXCEPT !.cancelled = @ \cup Presses(s.pending \o s.prefix)]
             IN  IF s.pending # <<>> THEN HideHint(c) ELSE c
scheduleTimerLocked(s, scope, mode, input) ==
    [bumpSeq(s) EXCEPT !.timer = [armed |-> TRUE, scope |-> scope, input |-> input, mode |-> mode, pending |-> s.pending]]
stopTimerLocked(s) == [bumpSeq(s) EXCEPT !.timer = NoTimer]
notifyWhichKey(s) == [s EXCEPT !.which = Codes(s.pending)]

\* The printable keys of a chord that came to nothing are typed.
flushInsertPending(s, keys) ==
    LET runes == SelectSeq(keys, LAMBDA x : isPrintableRune(x.k))
    IN  [s EXCEPT !.text = @ \o [i \in DOMAIN runes |-> runes[i].i],
                  !.cut = @ \cup (Presses(keys) \ Presses(runes))]
SetMode(s, mode) == [s EXCEPT !.mode["editor"] = mode]
\* The commands that matter here change the mode; one that is disabled, or
\* fails, has been dispatched all the same.
invokeHandler(s, act, scope, keys, prefix) ==
    LET ran == [s EXCEPT !.ran = Append(@, Presses(keys) \cup Presses(prefix))]
    IN  CASE act = "insert" -> SetMode(ran, "I")
          [] act = "visual" -> SetMode(ran, "V")
          [] act = "normal" -> SetMode(ran, "N")
          [] act = "quit" -> [ran EXCEPT !.quit = TRUE]
          [] OTHER -> ran

\* What a found sequence does: run, or wait for more, with the abandoned keys typed first.
handleLookup(s, keys, scope, mode, input, abandoned) ==
    LET trie == TrieSets[s.cfg][<<mode, scope>>]
        leaf == Leafs(trie, Codes(keys))
        held == notifyWhichKey([s EXCEPT !.pending = keys, !.leaf = leaf])
    IN  IF ~HasChildren(trie, Codes(keys))
        THEN invokeHandler(HideHint(flushInsertPending(Clear(s), abandoned)), CHOOSE a \in leaf : TRUE, scope, keys, s.prefix)
        ELSE flushInsertPending(IF leaf # {} \/ Typing(mode) THEN scheduleTimerLocked(held, scope, mode, input)
                                ELSE stopTimerLocked(held), abandoned)

\* The longest chord of the scope, then of the global scope, then the key
\* alone. What an abandoned chord held is typed in insert mode, else dropped.
matchChord(s, scope, key) ==
    LET mode == s.mode[scope]
        trie(sc) == TrieSets[s.cfg][<<mode, sc>>]
        full == Append(s.pending, key)
        partial == s.pending # <<>>
        alone == IF partial THEN cancelPendingLocked(s) ELSE s
        abandoned == IF Typing(mode) THEN s.pending ELSE <<>>
        cleared == IF Typing(mode) THEN alone ELSE [alone EXCEPT !.cut = @ \cup Presses(s.pending)]
        unmatched == flushInsertPending(cleared, abandoned)
    IN  CASE Found(trie(scope), Codes(full)) -> handleLookup(s, full, scope, mode, scope, <<>>)
          [] partial /\ Found(trie("GLOBAL"), Codes(full)) -> handleLookup(alone, full, "GLOBAL", mode, scope, <<>>)
          [] partial /\ Found(trie(scope), <<key.k>>) -> handleLookup(cleared, <<key>>, scope, mode, scope, abandoned)
          [] Found(trie("GLOBAL"), <<key.k>>) -> handleLookup(cleared, <<key>>, "GLOBAL", mode, scope, abandoned)
          [] Typing(mode) /\ isPrintableRune(key.k) -> [unmatched EXCEPT !.text = Append(@, key.i)]
          [] Typing(mode) /\ isEditorSafeSpecial(key.k) -> [unmatched EXCEPT !.cut = @ \cup {key.i}]
          [] OTHER -> LET fell == [unmatched EXCEPT !.cut = @ \cup {key.i}]
                          bare == IF s.prefix # <<>> THEN cancelLocked(fell) ELSE fell
                      IN  IF s.prefix # <<>> \/ partial THEN HideHint(bare) ELSE bare

\* One key in a scope: text, a register name, a count digit or the register
\* sign come before chords, unless the key is bound.
Dispatch(s, scope, key) ==
    LET typing == Typing(s.mode[scope])
        free == \A sc \in {scope, "GLOBAL"} : ~Found(TrieSets[s.cfg][<<s.mode[scope], sc>>], <<key.k>>)
        naming == Codes(s.pending) = <<Quote>>
        counting == key.k \in Digits /\ (key.k # "0" \/ \E i \in DOMAIN s.prefix : s.prefix[i].k \in Digits)
        idle == s.pending = <<>>
    IN  CASE typing /\ idle /\ s.prefix = <<>> /\ isPrintableRune(key.k) /\ free ->
               [s EXCEPT !.text = Append(@, key.i)]
          [] naming /\ isPrintableRune(key.k) ->
               [cancelPendingLocked(s) EXCEPT !.prefix = @ \o Append(s.pending, key)]
          [] naming -> matchChord(cancelLocked(s), scope, key)
          [] ~typing /\ idle /\ counting /\ free -> [s EXCEPT !.prefix = Append(@, key)]
          [] ~typing /\ idle /\ key.k = Quote /\ free -> [bumpSeq(s) EXCEPT !.pending = <<key>>]
          [] OTHER -> matchChord(s, scope, key)

-----------------------------------------
\* Presses reach the matcher through the editor of an editable view, or
\* through the shims that were installed at start for the keys then bound.
masterEditors == {"editor"}
shimScope(k) == IF k = "esc" \/ k \in ReachableKeys(km.boot, km.focus) THEN {km.focus}
                ELSE IF k \in ReachableKeys(km.boot, "GLOBAL") THEN {"GLOBAL"} ELSE {}
EditKey(k) ==
    LET s == [km EXCEPT !.n = @ + 1,
                        !.typed = IF km.focus \in masterEditors /\ Typing(km.mode["editor"]) /\ isPrintableRune(k)
                                  THEN @ \cup {km.n + 1} ELSE @]
        scopes == IF km.focus \in masterEditors THEN {km.focus} ELSE shimScope(k)
    IN  /\ ~km.quit /\ km.n < KmPresses
        /\ km' = CASE k = "^c" -> [s EXCEPT !.quit = TRUE, !.cut = @ \cup {s.n}]
                   [] scopes = {} -> [s EXCEPT !.cut = @ \cup {s.n}]
                   [] OTHER -> Dispatch(s, CHOOSE sc \in scopes : TRUE, [k |-> k, i |-> s.n])

\* The timer runs out, and posts its callback unless the chord moved on.
onTimerFire == /\ km.timer.armed /\ "live" \notin km.fired
               /\ km' = [km EXCEPT !.fired = @ \cup {"live"}]
deliverTimeout(id) ==
    LET s == [km EXCEPT !.fired = @ \ {id}]
        t == km.timer
    IN  /\ id \in km.fired /\ ~km.quit
        /\ km' = IF id = "stale" THEN s
                 ELSE IF s.mode[t.input] # t.mode THEN cancelLocked(s)
                 ELSE IF s.leaf # {} THEN invokeHandler(HideHint(Clear(s)), CHOOSE a \in s.leaf : TRUE, t.scope, t.pending, s.prefix)
                 ELSE LET f == [HideHint(Clear(s)) EXCEPT !.cut = @ \cup Presses(s.prefix)]
                      IN  IF Typing(t.mode) THEN flushInsertPending(f, t.pending)
                          ELSE [f EXCEPT !.cut = @ \cup Presses(t.pending)]

\* A click moves the focus; an editor that loses it goes back to normal mode.
Click(view) ==
    /\ ~km.quit
    /\ km' = LET s == [Cancel(km) EXCEPT !.focus = view]
             IN  IF view = km.focus THEN s ELSE SetMode(s, "N")
\* A configuration that validates replaces the bindings, but not the shims.
SwapTrieSet(s, c) == [Cancel(s) EXCEPT !.cfg = c]
ReloadCommand(c) == ~km.quit /\ km.cfg # c /\ km' = SwapTrieSet(km, c)

KmNext == \/ \E k \in KmKeys : EditKey(k)
          \/ onTimerFire \/ \E id \in km.fired : deliverTimeout(id)
          \/ \E view \in {"editor", "popup"} : Click(view)
          \/ \E c \in KmConfigs : ReloadCommand(c)

KmSpec == KmInit /\ [][KmNext]_km

-----------------------------------------
\* Every press is in one place: the text, one command, the pending chord or
\* dropped. What was typed in insert mode is never dropped unless a click
\* or a reload cancelled it, and stands in the text in the order it was
\* typed; commands take their keys in the order of the presses, so no late
\* timer runs a command for keys that were used already. A user's key for
\* an action holds in every mode the action ships in, and the shipped keys
\* of it are gone.
Places == <<Range(km.text), UNION Range(km.ran), Presses(km.pending), Presses(km.prefix), km.cut, km.cancelled>>
PressesAccountedFor ==
    /\ UNION Range(Places) = 1..km.n
    /\ \A i, j \in DOMAIN Places : i # j => Places[i] \cap Places[j] = {}
    /\ km.typed \cap km.cut = {}
    /\ \A i, j \in DOMAIN km.text : i < j => km.text[i] < km.text[j]
    /\ \A i, j \in DOMAIN km.ran : i < j => \A a \in km.ran[i], b \in km.ran[j] : a < b
    /\ \A i \in DOMAIN km.cfg :
          LET u == km.cfg[i]
              rec == shippedModes(u.act, u.scope)
          IN  rec \cap crossModeMask # {} /\ ~reservedMotionTarget(u.seq) /\ i = Len(km.cfg) =>
                 \A m \in rec : {b.seq : b \in {x \in TrieSets[km.cfg][<<m, u.scope>>] : x.act = u.act}}
                                = {expandLeaderTokens(u.seq)}
=============================================================================
