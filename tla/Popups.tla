------------------------------- MODULE Popups -------------------------------
(***************************************************************************)
(* The focus stack and the popups that every part of the interface shares: *)
(* one prompt, one choice list and one confirmation, each with one pair of *)
(* callbacks.  Workers that save a query, connections that ask for a       *)
(* secret, and the gate in front of protected writes open them through     *)
(* callbacks the interface thread runs in any order.  The saved-query file *)
(* and the rail that shows it are written and read by the same workers.    *)
(***************************************************************************)
EXTENDS Integers, Sequences, SequencesExt, FiniteSets

CONSTANTS
    PpWalks,      \* number of "save query" commands of a behaviour
    PpSecrets,    \* number of secrets connections ask for
    PpAsks,       \* number of run commands
    PpDeletes,    \* number of "delete saved query" commands
    PpNames,      \* names a saved query may have
    PpFile,       \* the saved queries at start: a sequence of [name, sql]
    PpProtected,  \* profiles whose writes need a confirmation
    PpProfiles,   \* profiles; the first connected one is any of them
    PpTopics      \* how many saves, secrets and runs a behaviour mixes, and how many
                  \* switches between the rail's tabs: records [walk, secret, run, rail]

VARIABLE pp

None == "none"
Owner(kind, id) == [kind |-> kind, id |-> id]
NoOwner == Owner(None, 0)

-----------------------------------------
\* The focus stack.  RAIL is the query rail, MANAGER the connection
\* manager, VIEWER any popup that stays under others.
ContextKind ==
    [SCHEMAS |-> "side", RAIL |-> "main", MANAGER |-> "main", VIEWER |-> "persistent",
     PROMPT |-> "temporary", SELECTION |-> "temporary", CONFIRMATION |-> "temporary"]
Mains(stack) == SelectSeq(stack, LAMBDA c : ContextKind[c] = "main")
Current(p) == Last(p.stack)
Occurs(stack, c) == Cardinality({i \in DOMAIN stack : stack[i] = c})

\* The rail reloads once per invalidation, when its saved-queries tab gets the focus.
FocusSaved(p) ==
    IF p.stale THEN [p EXCEPT !.stale = FALSE, !.reloading = @ + 1] ELSE p

HandleFocus(p, c) == IF c = "RAIL" /\ p.tab = "saved" THEN FocusSaved(p) ELSE p
HandleFocusLost(p, lost) == IF "PROMPT" \in lost THEN [p EXCEPT !.masked = FALSE] ELSE p

removeMain(p) ==
    LET gone == Mains(p.stack) IN
    [p EXCEPT !.stack = SelectSeq(p.stack, LAMBDA c : ContextKind[c] # "main"),
              !.evicted = IF gone = <<>> THEN None ELSE gone[1]]
popOne(p) == [p EXCEPT !.stack = Front(@)]

PushContext(p, c) ==
    LET top  == Current(p)
        room == CASE ContextKind[c] = "side" -> [p EXCEPT !.stack = <<>>]
                  [] ContextKind[c] = "main" -> removeMain(p)
                  [] ContextKind[c] = "temporary" /\ ContextKind[top] = "temporary" -> popOne(p)
                  [] OTHER -> p
        lost == {x \in ToSet(p.stack) : Occurs(p.stack, x) > Occurs(room.stack, x)}
    IN  IF top = c THEN p
        ELSE HandleFocus(HandleFocusLost([room EXCEPT !.stack = Append(@, c)], lost), c)

PopContext(p) ==
    IF Len(p.stack) <= 1 THEN p
    ELSE HandleFocus(HandleFocusLost(popOne(p), {Current(p)}), p.stack[Len(p.stack) - 1])

PopIfTop(p, c) == IF Current(p) = c THEN PopContext(p) ELSE p

\* Leaving the connection manager brings back the main context it evicted.
CloseManager(p) ==
    LET back == p.evicted IN
    IF Len(p.stack) <= 1 THEN p
    ELSE IF back = None THEN PopContext([p EXCEPT !.evicted = None])
    ELSE PushContext(PopContext([p EXCEPT !.evicted = None]), back)

-----------------------------------------
\* The three popup helpers.  Opening one replaces its callbacks: `taken`
\* records the walks whose prompt was replaced by somebody else's.
OpenPrompt(p, owner) ==
    LET displaced == IF p.prompt.active /\ p.prompt.owner.kind = "walk" /\ owner.kind # "walk"
                     THEN {p.prompt.owner.id} ELSE {}
    IN  PushContext([p EXCEPT !.prompt = [owner |-> owner, active |-> TRUE, gen |-> @.gen + 1],
                              !.taken = @ \cup displaced], "PROMPT")

ClosePrompt(p) == PopContext([p EXCEPT !.prompt.active = FALSE, !.prompt.owner = NoOwner])
OpenChoice(p, owner) == PushContext([p EXCEPT !.choice = [owner |-> owner, active |-> TRUE]], "SELECTION")
CloseChoice(p) == PopContext([p EXCEPT !.choice = [owner |-> NoOwner, active |-> FALSE]])
OpenConfirm(p, owner) == PushContext([p EXCEPT !.confirm = [owner |-> owner, active |-> TRUE]], "CONFIRMATION")
CloseConfirm(p) == PopContext([p EXCEPT !.confirm = [owner |-> NoOwner, active |-> FALSE]])

Schedule(p, callback) == [p EXCEPT !.ui = @ \cup {callback}]

-----------------------------------------
\* Saving a query: a worker asks for a name, loads the file, and appends,
\* or asks before it overwrites.  The adapter lets one walk wait at a time.
queryNameExists(qs, name) == \E i \in DOMAIN qs : qs[i].name = name
AppendQuery(qs, q) == IF queryNameExists(qs, q.name) THEN qs ELSE Append(qs, q)
UpsertQuery(qs, q) ==
    IF queryNameExists(qs, q.name)
    THEN [i \in DOMAIN qs |-> IF qs[i].name = q.name THEN q ELSE qs[i]]
    ELSE Append(qs, q)
DeleteQuery(qs, name) == SelectSeq(qs, LAMBDA q : q.name # name)

WalkAt(p, w, pc) == [p EXCEPT !.walk[w].pc = pc]
WalkDone(p, w) == WalkAt(p, w, "done")

\* The shared entry of PromptString and PromptChoice: refused while another call waits.
Acquire(p, w, pc, callback) ==
    IF p.busy THEN WalkDone(p, w)
    ELSE Schedule([WalkAt(p, w, pc) EXCEPT !.busy = TRUE, !.walk[w].answer = None], callback)

PromptString(p, w) == Acquire(p, w, "name", [do |-> "name", id |-> w])
PromptChoice(p, w) == Acquire(p, w, "choice", [do |-> "choice", id |-> w])
Received(p, w) == [p EXCEPT !.busy = FALSE, !.walk[w].answer = None]

handleSave ==
    \E w \in 1..PpWalks :
        /\ w <= pp.topics.walk /\ pp.uiBusy = 0 /\ Current(pp) = "RAIL" /\ pp.tab = "editor"
        /\ pp.walk[w].pc = "idle" /\ \A v \in 1..(w - 1) : pp.walk[v].pc # "idle"
        /\ pp' = WalkAt(pp, w, "start")

\* The walk's own steps, on its worker.  Loading the file and renaming the new one over
\* it are separate steps.
WalkSaveQuery(w) ==
    LET me == pp.walk[w]
        q  == [name |-> me.name, sql |-> w] IN
    /\ pp' \in
        CASE me.pc = "start" -> {PromptString(pp, w)}
          [] me.pc = "name" /\ me.answer # None ->
                {IF me.answer \in {"cancel", "empty"} THEN WalkDone(Received(pp, w), w)
                 ELSE [WalkAt(Received(pp, w), w, "check") EXCEPT !.walk[w].name = me.answer]}
          [] me.pc = "check" ->
                {IF queryNameExists(pp.file, me.name) THEN PromptChoice(pp, w) ELSE WalkAt(pp, w, "append")}
          [] me.pc = "choice" /\ me.answer # None ->
                {IF me.answer = "Overwrite" THEN WalkAt(Received(pp, w), w, "upsert")
                 ELSE WalkDone(Received(pp, w), w)}
          [] me.pc = "append" ->
                {IF queryNameExists(pp.file, me.name) THEN WalkDone(pp, w)
                 ELSE [WalkAt(pp, w, "write") EXCEPT !.walk[w].list = AppendQuery(pp.file, q)]}
          [] me.pc = "upsert" -> {[WalkAt(pp, w, "write") EXCEPT !.walk[w].list = UpsertQuery(pp.file, q)]}
          [] me.pc = "write" ->
                {WalkDone(pp, w),
                 Schedule([WalkDone(pp, w) EXCEPT !.file = me.list, !.walk[w].list = <<>>],
                          [do |-> "stale", id |-> w])}
          [] OTHER -> {}

-----------------------------------------
\* Asking for a secret: the caller waits for an answer or for its context;
\* whichever comes first settles it, once.
Settle(p, s, result) == IF p.secret[s].result = None THEN [p EXCEPT !.secret[s].result = result] ELSE p
clearMask(p, s) ==
    IF p.secret[s].own \in {0, p.prompt.gen} THEN [p EXCEPT !.masked = FALSE] ELSE p

PromptSecret ==
    \E s \in 1..PpSecrets :
        /\ s <= pp.topics.secret
        /\ pp.secret[s].pc = "idle" /\ \A t \in 1..(s - 1) : pp.secret[t].pc # "idle"
        /\ pp' = IF \E t \in 1..PpSecrets : pp.secret[t].pc = "wait"
                 THEN [pp EXCEPT !.secret[s].pc = "done", !.secret[s].result = "busy"]
                 ELSE Schedule([pp EXCEPT !.secret[s].pc = "wait"], [do |-> "secret", id |-> s])

\* The attempt that asked is cancelled or times out.
ContextDone ==
    \E s \in 1..PpSecrets :
        /\ pp.secret[s].pc = "wait" /\ ~pp.secret[s].cancelled
        /\ pp' = [pp EXCEPT !.secret[s].cancelled = TRUE]

\* The caller wakes up; a select with both ready takes either.
SecretReturns ==
    \E s \in 1..PpSecrets :
        /\ pp.secret[s].pc = "wait"
        /\ \/ /\ pp.secret[s].result # None
              /\ pp' = [pp EXCEPT !.secret[s].pc = "done"]
           \/ /\ pp.secret[s].cancelled
              /\ pp' = [Schedule(Settle(pp, s, "cancelled"), [do |-> "dismiss", id |-> s])
                           EXCEPT !.secret[s].pc = "done"]

\* For a mutant: the popup opens although its caller gave up.
openAnyway(p, s) ==
    LET opened == OpenPrompt([p EXCEPT !.masked = TRUE], Owner("secret", s))
    IN  [opened EXCEPT !.secret[s].own = opened.prompt.gen]

OpenSecret(p, s) ==
    IF p.secret[s].cancelled THEN Settle(p, s, "cancelled")
    ELSE LET opened == OpenPrompt([p EXCEPT !.masked = TRUE], Owner("secret", s))
         IN  [opened EXCEPT !.secret[s].own = opened.prompt.gen]

Dismiss(p, s) ==
    IF p.secret[s].own = 0 \/ p.secret[s].own # p.prompt.gen THEN p
    ELSE LET bare == [p EXCEPT !.masked = FALSE]
         IN  IF ~bare.prompt.active THEN bare ELSE Settle(ClosePrompt(bare), s, "cancelled")

\* A connection that got its secret ends on the query rail, over a fresh stack; one
\* that was offered a saved password connects without asking.
ConnectDone ==
    \E s \in 1..PpSecrets, profile \in PpProfiles :
        /\ pp.secret[s].pc = "done" /\ pp.secret[s].result = "value" /\ ~pp.secret[s].used
        /\ pp' = [PushContext(PushContext(PopIfTop([pp EXCEPT !.secret[s].used = TRUE], "MANAGER"),
                                          "SCHEMAS"), "RAIL") EXCEPT !.conn = profile]

-----------------------------------------
\* The gate in front of a run: a write on a protected profile asks for the
\* profile's name and then for a yes.
runNeedsConfirm(conn, kind) == kind = "write" /\ conn \in PpProtected
Proceed(p, a) == [p EXCEPT !.ask[a].pc = "launched", !.ask[a].on = p.conn]

confirmRun(p, a, kind) ==
    LET asked == [p EXCEPT !.ask[a].conn = p.conn, !.ask[a].kind = kind] IN
    IF runNeedsConfirm(p.conn, kind)
    THEN OpenPrompt([asked EXCEPT !.ask[a].pc = "asked"], Owner("run", a))
    ELSE Proceed(asked, a)

nameTyped(p, a, value) ==
    IF value = p.ask[a].conn THEN OpenConfirm([p EXCEPT !.ask[a].typed = value], Owner("run", a)) ELSE p

runOne ==
    \E a \in 1..PpAsks, kind \in {"read", "write"} :
        /\ a <= pp.topics.run /\ pp.uiBusy = 0 /\ Current(pp) = "RAIL" /\ pp.tab = "editor"
        /\ pp.ask[a].pc = "idle" /\ \A b \in 1..(a - 1) : pp.ask[b].pc # "idle"
        /\ pp' = confirmRun(pp, a, kind)

-----------------------------------------
\* Keys of the popups.  Enter and Esc reach the context on top.
Typable(owner) ==
    CASE owner.kind = "walk" -> PpNames \cup {"empty"}
      [] owner.kind = "run" -> PpProfiles
      [] OTHER -> {"value"}

OnSubmit(p, owner, value) ==
    CASE owner.kind = "walk" -> [p EXCEPT !.walk[owner.id].answer = value]
      [] owner.kind = "run" -> nameTyped(p, owner.id, value)
      [] owner.kind = "secret" ->
            IF p.secret[owner.id].result # None THEN p
            ELSE clearMask(Settle(p, owner.id, value), owner.id)
      [] OTHER -> p

OnCancel(p, owner) ==
    CASE owner.kind = "walk" -> [p EXCEPT !.walk[owner.id].answer = "cancel"]
      [] owner.kind = "secret" ->
            IF p.secret[owner.id].result # None THEN p
            ELSE clearMask(Settle(p, owner.id, "cancelled"), owner.id)
      [] OTHER -> p

PromptKey ==
    /\ pp.uiBusy = 0 /\ Current(pp) = "PROMPT"
    /\ \/ \E value \in Typable(pp.prompt.owner) :
              pp' = OnSubmit(ClosePrompt(pp), pp.prompt.owner, value)
       \/ pp' = OnCancel(ClosePrompt(pp), pp.prompt.owner)

SelectionKey ==
    /\ pp.uiBusy = 0 /\ Current(pp) = "SELECTION"
    /\ \E picked \in {"Overwrite", "Cancel", "cancel"} :
           LET closed == CloseChoice(pp) IN
           pp' = IF pp.choice.owner = NoOwner THEN closed
                 ELSE [closed EXCEPT !.walk[pp.choice.owner.id].answer = picked]

\* Yes pops the popup and runs its callback; a deletion starts by loading the file.
ConfirmYes ==
    /\ pp.uiBusy = 0 /\ Current(pp) = "CONFIRMATION"
    /\ LET closed == CloseConfirm(pp)
           owner  == pp.confirm.owner
       IN  pp' = CASE owner.kind = "run" -> Proceed([closed EXCEPT !.ask[owner.id].yes = TRUE], owner.id)
                   [] owner.kind = "delete" ->
                         [closed EXCEPT !.uiBusy = owner.id,
                                        !.list = DeleteQuery(closed.file, closed.doomed[owner.id])]
                   [] OTHER -> closed

ConfirmNo == pp.uiBusy = 0 /\ Current(pp) = "CONFIRMATION" /\ pp' = CloseConfirm(pp)

-----------------------------------------
\* The rail of saved queries and the interface thread.
DeleteSaved ==
    \E d \in 1..PpDeletes, i \in DOMAIN pp.rows :
        /\ pp.uiBusy = 0 /\ Current(pp) = "RAIL" /\ pp.tab = "saved"
        /\ pp.doomed[d] = None /\ \A e \in 1..(d - 1) : pp.doomed[e] # None
        /\ pp' = OpenConfirm([pp EXCEPT !.doomed[d] = pp.rows[i].name], Owner("delete", d))

\* The rest of doDelete: the new list is written, the file read again, the rail refreshed.
doDelete ==
    /\ pp.uiBusy # 0
    /\ pp' = [pp EXCEPT !.uiBusy = 0, !.file = pp.list, !.list = <<>>, !.rows = pp.list, !.stale = TRUE]

SwitchTab ==
    /\ pp.uiBusy = 0 /\ Current(pp) = "RAIL" /\ pp.topics.rail > 0
    /\ pp' = [HandleFocus([pp EXCEPT !.tab = IF @ = "saved" THEN "editor" ELSE "saved"], "RAIL")
                 EXCEPT !.topics.rail = @ - 1]

Refreshing(p) == \E cb \in p.ui : cb.do = "refresh"

\* A worker reads the file for the rail; a failed read leaves the rows as they are.
Reload ==
    /\ pp.reloading > 0
    /\ \/ pp' = [pp EXCEPT !.reloading = @ - 1, !.unsure = TRUE]
       \/ pp' = Schedule([pp EXCEPT !.reloading = @ - 1, !.serial = @ + 1,
                                    !.unsure = @ \/ Refreshing(pp)],
                         [do |-> "refresh", id |-> pp.serial, rows |-> pp.file])

OpenManager ==
    /\ pp.topics.secret > 0 /\ pp.uiBusy = 0 /\ Current(pp) = "RAIL"
    /\ pp' = PushContext(pp, "MANAGER")
LeaveManager == pp.uiBusy = 0 /\ Current(pp) = "MANAGER" /\ pp' = CloseManager(pp)
Viewer ==
    /\ pp.topics.secret > 0 /\ pp.uiBusy = 0
    /\ \/ Current(pp) = "RAIL" /\ pp' = PushContext(pp, "VIEWER")
       \/ Current(pp) = "VIEWER" /\ pp' = PopContext(pp)

UICallback ==
    /\ pp.uiBusy = 0
    /\ \E cb \in pp.ui :
        LET p == [pp EXCEPT !.ui = @ \ {cb}] IN
        pp' = CASE cb.do = "name" -> OpenPrompt(p, Owner("walk", cb.id))
                [] cb.do = "choice" -> OpenChoice(p, Owner("walk", cb.id))
                [] cb.do = "secret" -> OpenSecret(p, cb.id)
                [] cb.do = "dismiss" -> Dismiss(p, cb.id)
                [] cb.do = "stale" -> [p EXCEPT !.stale = TRUE]
                [] cb.do = "refresh" -> [p EXCEPT !.rows = cb.rows]

PpInit ==
    pp \in [stack : {<<"SCHEMAS", "RAIL">>}, evicted : {None}, tab : {"editor"}, topics : PpTopics,
            prompt : {[owner |-> NoOwner, active |-> FALSE, gen |-> 0]},
            choice : {[owner |-> NoOwner, active |-> FALSE]},
            confirm : {[owner |-> NoOwner, active |-> FALSE]},
            masked : {FALSE}, taken : {{}}, ui : {{}}, busy : {FALSE},
            walk : {[w \in 1..PpWalks |-> [pc |-> "idle", name |-> None, answer |-> None, list |-> <<>>]]},
            secret : {[s \in 1..PpSecrets |-> [pc |-> "idle", result |-> None, own |-> 0,
                                               cancelled |-> FALSE, used |-> FALSE]]},
            ask : {[a \in 1..PpAsks |-> [pc |-> "idle", kind |-> None, conn |-> None, typed |-> None,
                                         yes |-> FALSE, on |-> None]]},
            doomed : {[d \in 1..PpDeletes |-> None]}, uiBusy : {0}, list : {<<>>},
            file : {PpFile}, rows : {<<>>}, stale : {TRUE}, reloading : {0}, serial : {1},
            unsure : {FALSE}, conn : PpProfiles]

PpNext ==
    \/ handleSave \/ (\E w \in 1..PpWalks : WalkSaveQuery(w))
    \/ PromptSecret \/ ContextDone \/ SecretReturns \/ ConnectDone
    \/ runOne \/ PromptKey \/ SelectionKey \/ ConfirmYes \/ ConfirmNo
    \/ DeleteSaved \/ doDelete \/ SwitchTab \/ Reload
    \/ OpenManager \/ LeaveManager \/ Viewer \/ UICallback

PpSpec == PpInit /\ [][PpNext]_pp

-----------------------------------------
\* Properties.
SecretMasked ==
    pp.prompt.active /\ pp.prompt.owner.kind = "secret" /\ Current(pp) = "PROMPT" => pp.masked
SecretHasCaller ==
    pp.prompt.active /\ pp.prompt.owner.kind = "secret" =>
        LET s == pp.prompt.owner.id IN pp.secret[s].pc = "wait" \/ [do |-> "dismiss", id |-> s] \in pp.ui
WalkOwnsPopup ==
    \A w \in 1..PpWalks :
        /\ pp.walk[w].pc = "name" /\ pp.walk[w].answer = None /\ w \notin pp.taken
               => pp.prompt.owner = Owner("walk", w) \/ [do |-> "name", id |-> w] \in pp.ui
        /\ pp.walk[w].pc = "choice" /\ pp.walk[w].answer = None
               => pp.choice.owner = Owner("walk", w) \/ [do |-> "choice", id |-> w] \in pp.ui
WritesConfirmed ==
    \A a \in 1..PpAsks :
        LET r == pp.ask[a] IN
        r.pc = "launched" /\ r.kind = "write" /\ r.on \in PpProtected => r.yes /\ r.typed = r.on
NamesUnique == \A i, j \in DOMAIN pp.file : pp.file[i].name = pp.file[j].name => i = j
Quiet == pp.reloading = 0 /\ pp.uiBusy = 0 /\ \A cb \in pp.ui : cb.do \notin {"refresh", "stale"}
RailTruth == Quiet /\ ~pp.stale /\ ~pp.unsure => pp.rows = pp.file
OneMain == Len(Mains(pp.stack)) <= 1 /\ pp.stack # <<>>

\* The shared popups serve their owners: a secret is masked while it is typed and its
\* popup is never left without a caller, a waiting save is answerable unless a prompt
\* outside its adapter's gate replaced it, a write on a protected profile was confirmed
\* by name, saved names stay unique however saves and deletions interleave, and a rail
\* that is not marked stale shows the file.
PopupTruth ==
    SecretMasked /\ SecretHasCaller /\ WalkOwnsPopup /\ WritesConfirmed /\ NamesUnique /\ RailTruth /\ OneMain
=============================================================================
