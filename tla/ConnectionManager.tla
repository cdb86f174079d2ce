-------------------------- MODULE ConnectionManager --------------------------
(***************************************************************************)
(* The connection manager: the list of profiles, the form that adds or      *)
(* edits one, the probe behind "test connection", the checklist of a        *)
(* connect attempt, and the connections file. Two running programs share    *)
(* the file under its lock; a text editor writes it without the lock. In    *)
(* one program every operation runs on the UI goroutine; a save holds it    *)
(* from the lock to the rename.                                             *)
(*                                                                          *)
(* A profile's host stands for host, port, user, database and sslmode.      *)
(***************************************************************************)
EXTENDS Integers, Sequences, SequencesExt, FiniteSets

CONSTANTS CmPrograms,  \* running programs
          CmFiles,     \* what the file holds at the start
          CmEdits,     \* what a text editor may write into the file
          CmTopics,    \* [rows, does, by, ops]: the rows of the form and the keys a behaviour uses,
                       \* the programs that act in it, and the bound on user operations
          CmTyped,     \* what may be typed into a row
          CmDSNs,      \* clipboard contents
          CmAttempts   \* bound on connect attempts of a program

VARIABLE cm

-----------------------------------------
\* Profiles.
NoTunnel == [on |-> FALSE, host |-> "", user |-> "", key |-> "", agent |-> FALSE]
EmptyTunnel == [NoTunnel EXCEPT !.on = TRUE]
Profile(name, host, tunnel) == [name |-> name, host |-> host, dsn |-> "", password |-> "",
                                tunnel |-> tunnel, access |-> "", history |-> FALSE]

\* A DSN names a host, or cannot be parsed.
ParseDSNIntoConnection(dsn) == IF dsn = "bad" THEN "" ELSE dsn
EffectiveCLIAccess(access) == IF access = "" THEN "disabled" ELSE access
ValidateSSHTunnel(t) == t.on => t.host # "" /\ t.user # ""

connHasDiscreteFields(p) == p.host # ""
migrateLegacyDSN(p) ==
    IF p.dsn = "" \/ connHasDiscreteFields(p) THEN p
    ELSE [p EXCEPT !.host = ParseDSNIntoConnection(p.dsn)]

normalizeForWrite(conns) ==
    [i \in DOMAIN conns |-> [conns[i] EXCEPT !.password = "",
                                             !.dsn = IF connHasDiscreteFields(conns[i]) THEN "" ELSE @]]
Names(conns) == {conns[i].name : i \in DOMAIN conns}
IsProfile(p) == DOMAIN p = DOMAIN Profile("", "", NoTunnel) /\ DOMAIN p.tunnel = DOMAIN NoTunnel
\* A tunnel that can be dialled, with one way to authenticate.
TunnelSound(t) == ValidateSSHTunnel(t) /\ ~(t.agent /\ t.key # "")
\* A file the program can work with: one profile per name, and tunnels that are sound.
FileFits(conns) ==
    /\ conns \in Seq(Range(conns)) /\ \A i \in DOMAIN conns : IsProfile(conns[i]) /\ TunnelSound(conns[i].tunnel)
    /\ \A i, j \in DOMAIN conns : i # j => conns[i].name # conns[j].name

\* An assumption on the environment: a person writes such files. LoadConnections does not check it
\* (a name given twice is loaded).
ASSUME ManagerAssumption == 0 \notin CmPrograms /\ \A file \in CmFiles \cup CmEdits : FileFits(file)

FieldAt(conns, name) == CHOOSE i \in DOMAIN conns : conns[i].name = name

-----------------------------------------
\* The form.
CliAccessOptions == <<"disabled", "metadata", "row-read", "full">>
SshAuthOptions == <<"agent", "key-file", "password">>
Cycle(options, current) ==
    IF \E i \in DOMAIN options : options[i] = current
    THEN LET i == CHOOSE i \in DOMAIN options : options[i] = current
         IN options[IF i = Len(options) THEN 1 ELSE i + 1]
    ELSE options[1]
TextRows == {"name", "host", "ssh_host", "ssh_user", "identity_file"}

visible(f, row) ==
    CASE row \in {"ssh_auth", "ssh_host", "ssh_user"} -> f.sshEnabled
      [] row = "identity_file" -> f.sshEnabled /\ f.sshAuth = "key-file"
      [] OTHER -> TRUE
focusableSpecs(f) == SelectSeq(cm.topic.rows, LAMBDA row : visible(f, row))
clampFocus(f) == LET n == Len(focusableSpecs(f)) IN
                 [f EXCEPT !.focus = IF n = 0 THEN 1 ELSE IF @ > n THEN n ELSE @]
focusedSpec(f) == LET rows == focusableSpecs(f) IN
                  IF f.focus \in DOMAIN rows THEN rows[f.focus] ELSE rows[1]
moveFocus(f, delta) ==
    LET n == Len(focusableSpecs(f))
        low == IF f.focus + delta < 1 THEN 1 ELSE f.focus + delta
    IN [f EXCEPT !.focus = IF low > n THEN n ELSE low]
focusIndexOf(f, row) == LET rows == focusableSpecs(f) IN
                        IF \E i \in DOMAIN rows : rows[i] = row THEN CHOOSE i \in DOMAIN rows : rows[i] = row ELSE 1

ensureSSHTunnel(p) == IF p.tunnel.on THEN p ELSE [p EXCEPT !.tunnel = EmptyTunnel]
normalizeSSHTunnel(p) == IF p.tunnel = EmptyTunnel THEN [p EXCEPT !.tunnel = NoTunnel] ELSE p
applySSHAuth(p, auth) ==
    IF ~p.tunnel.on THEN p
    ELSE CASE auth = "agent" -> [p EXCEPT !.tunnel.agent = TRUE, !.tunnel.key = ""]
           [] auth = "password" -> [p EXCEPT !.tunnel.agent = FALSE, !.tunnel.key = ""]
           [] OTHER -> [p EXCEPT !.tunnel.agent = FALSE]
deriveSSHAuth(t) == IF ~t.on \/ t.agent THEN "agent" ELSE IF t.key # "" THEN "key-file" ELSE "password"
\* What a save or a test uses; the form keeps the fields of a tunnel that is off.
materializedConnection(f) ==
    IF f.sshEnabled THEN applySSHAuth(ensureSSHTunnel(f.conn), f.sshAuth)
    ELSE [f.conn EXCEPT !.tunnel = NoTunnel]

toggleSSHEnabled(f) ==
    clampFocus([f EXCEPT !.sshEnabled = ~@, !.conn = IF f.sshEnabled THEN @ ELSE ensureSSHTunnel(@)])
cycleSSHAuth(f) == clampFocus([f EXCEPT !.sshAuth = Cycle(SshAuthOptions, @)])
cycleCLIAccess(f) == [f EXCEPT !.conn.access = Cycle(CliAccessOptions, EffectiveCLIAccess(@))]
toggle(f) ==
    CASE focusedSpec(f) = "cli_access" -> cycleCLIAccess(f)
      [] focusedSpec(f) = "cli_history" -> [f EXCEPT !.conn.history = ~@]
      [] focusedSpec(f) = "use_ssh_tunnel" -> toggleSSHEnabled(f)
      [] focusedSpec(f) = "ssh_auth" -> cycleSSHAuth(f)
      [] OTHER -> f
setTextValue(f, row, v) ==
    LET t == ensureSSHTunnel(f.conn)
    IN CASE row = "name" -> [f EXCEPT !.conn.name = v]
         [] row = "host" -> [f EXCEPT !.conn.host = v]
         [] row = "ssh_host" -> [f EXCEPT !.conn = normalizeSSHTunnel([t EXCEPT !.tunnel.host = v])]
         [] row = "ssh_user" -> [f EXCEPT !.conn = normalizeSSHTunnel([t EXCEPT !.tunnel.user = v])]
         [] row = "identity_file" -> [f EXCEPT !.conn = normalizeSSHTunnel([t EXCEPT !.tunnel.key = v])]
         [] OTHER -> f

validateName(f, v) ==
    /\ v # ""
    /\ \A n \in f.existingNames : n = v => f.isEdit /\ n = f.originalName
\* The validator of a row; a control character ("bad") is refused in a path or a port.
validatorFor(f, row, v) == CASE row = "name" -> validateName(f, v)
                             [] row \in {"host", "identity_file"} -> v # "bad"
                             [] OTHER -> TRUE
\* The form after a validation, with ok and, on failure, the row in focus.
validateAll(f) ==
    LET done == [f EXCEPT !.conn = materializedConnection(f)]
    IN IF ~validateName(f, f.conn.name) THEN [ok |-> FALSE, form |-> [f EXCEPT !.focus = focusIndexOf(f, "name")]]
       ELSE IF ~ValidateSSHTunnel(done.conn.tunnel)
            THEN [ok |-> FALSE, form |-> [done EXCEPT !.focus = focusIndexOf(f, "ssh_host")]]
            ELSE [ok |-> TRUE, form |-> done]

AddForm(existing) ==
    [conn |-> Profile("", "localhost", NoTunnel), focus |-> 1, sshEnabled |-> FALSE, sshAuth |-> "agent",
     isEdit |-> FALSE, originalName |-> "", originalAccess |-> "", originalHistory |-> FALSE,
     existingNames |-> existing, err |-> "", status |-> "", tested |-> Profile("", "", NoTunnel)]
EditForm(p, existing) ==
    LET conn == migrateLegacyDSN(p)
    IN [AddForm(existing) EXCEPT !.conn = conn, !.sshEnabled = conn.tunnel.on, !.sshAuth = deriveSSHAuth(conn.tunnel),
                                 !.isEdit = TRUE, !.originalName = conn.name,
                                 !.originalAccess = conn.access, !.originalHistory = conn.history]
FormSetError(f, msg) == [f EXCEPT !.err = msg, !.status = ""]
FormSetStatus(f, msg) == [f EXCEPT !.status = msg, !.err = ""]
FormCLIAccessChange(f) == f.isEdit /\ EffectiveCLIAccess(f.conn.access) # EffectiveCLIAccess(f.originalAccess)
FormCLIHistoryChange(f) == f.isEdit /\ f.conn.history # f.originalHistory

-----------------------------------------
\* State. Of each program: the modal (mode, rows of the list, form, prompt
\* or confirmation on top), the probes in flight, the connect attempts and
\* the step its save is at. policy, who and overwrote are the record the
\* properties need: the CLI policy last chosen for each name, who wrote the
\* file last, and the kinds of write that replaced text they had not read.
NoPopup == [kind |-> "none", name |-> "", revision |-> 0]
NoWrite == [at |-> "none", kind |-> "", old |-> "", conn |-> Profile("", "", NoTunnel), seen |-> <<>>]
Started(tunnel) == [tunnel |-> IF tunnel THEN "active" ELSE "absent",
                    auth |-> IF tunnel THEN "pending" ELSE "active", objects |-> "pending"]
Program(file) ==
    [mode |-> "list", items |-> file, cursor |-> 1, form |-> AddForm({}), revision |-> 0, popup |-> NoPopup,
     testGen |-> 0, testAttempt |-> 0, probes |-> {},
     connectGen |-> 0, stages |-> Started(FALSE), connectErr |-> FALSE, current |-> NoTunnel, attempts |-> {},
     posted |-> {}, write |-> NoWrite]
CmInit == \E file \in CmFiles, topic \in CmTopics :
    cm = [file |-> file, lock |-> 0, topic |-> topic, prog |-> [i \in CmPrograms |-> Program(file)],
          policy |-> [n \in Names(file) |-> <<file[FieldAt(file, n)].access, file[FieldAt(file, n)].history>>],
          who |-> "editor", overwrote |-> {}, ops |-> 0]

P(i) == cm.prog[i]
Set(i, p) == cm' = [cm EXCEPT !.prog[i] = p]
\* A key press: not while a save holds the goroutine; keys reach the popup when one is open.
Acts(i) == P(i).write.at = "none" /\ i \in cm.topic.by /\ cm.ops < cm.topic.ops
FormKey(i, does) == Acts(i) /\ P(i).popup = NoPopup /\ does \in cm.topic.does
Step(i, p) == cm' = [cm EXCEPT !.prog[i] = p, !.ops = @ + 1]

SetItems(p, items) ==
    [p EXCEPT !.items = items,
              !.cursor = IF @ > Len(items) THEN (IF Len(items) = 0 THEN 1 ELSE Len(items)) ELSE @]
SetFormCursor(p, c) ==
    [p EXCEPT !.cursor = IF Len(p.items) = 0 \/ c < 1 THEN 1 ELSE IF c > Len(p.items) THEN Len(p.items) ELSE c]
refreshConnectionManagerRail(p, file) == SetItems(p, file)

cancelTestConnection(p) ==
    [p EXCEPT !.testGen = @ + 1, !.testAttempt = 0,
              !.probes = {IF b.gen = p.testAttempt THEN [b EXCEPT !.settled = TRUE] ELSE b : b \in @}]
InvalidateFormProbe(p) == cancelTestConnection([p EXCEPT !.revision = @ + 1, !.form.status = ""])
ManagerMode(p, mode) == [(IF p.mode = "form" /\ mode # "form" THEN InvalidateFormProbe(p) ELSE p) EXCEPT !.mode = mode]
FormMatches(p, revision) == p.mode = "form" /\ p.revision = revision

-----------------------------------------
\* Keys.
CursorMove(i) ==
    /\ FormKey(i, "list") /\ P(i).mode = "list"
    /\ \E c \in {P(i).cursor - 1, P(i).cursor + 1, 1, Len(P(i).items)} : Set(i, SetFormCursor(P(i), c))
FormNavigate(i) ==
    FormKey(i, "form") /\ P(i).mode = "form" /\ \E d \in {-1, 1} : Set(i, [P(i) EXCEPT !.form = moveFocus(@, d)])

OpenAddForm(i) ==
    /\ FormKey(i, "add") /\ P(i).mode = "list"
    /\ Step(i, [InvalidateFormProbe(P(i)) EXCEPT !.form = AddForm(Names(cm.file)), !.mode = "form"])
OpenEditForm(i) ==
    /\ FormKey(i, "edit") /\ P(i).mode = "list" /\ P(i).cursor \in DOMAIN P(i).items
    /\ Step(i, [InvalidateFormProbe(P(i)) EXCEPT
                 !.form = EditForm(P(i).items[P(i).cursor], Names(cm.file)), !.mode = "form"])
FormToggleFocused(i) ==
    /\ FormKey(i, "form") /\ P(i).mode = "form" /\ focusedSpec(P(i).form) \notin TextRows
    /\ Step(i, [InvalidateFormProbe(P(i)) EXCEPT !.form = toggle(@)])
FieldEdit(i) ==
    /\ FormKey(i, "form") /\ P(i).mode = "form" /\ focusedSpec(P(i).form) \in TextRows
    /\ Set(i, [P(i) EXCEPT !.popup = [kind |-> "field", name |-> focusedSpec(P(i).form), revision |-> P(i).revision]])
\* The prompt is answered: the answer counts only for the form and the row that asked.
FieldSubmit(i) ==
    /\ Acts(i) /\ P(i).popup.kind = "field"
    /\ \E v \in CmTyped :
         LET p == [P(i) EXCEPT !.popup = NoPopup]
             row == P(i).popup.name
             inv == InvalidateFormProbe(p)
         IN Step(i, IF ~FormMatches(p, P(i).popup.revision) \/ focusedSpec(p.form) # row THEN p
                    ELSE IF ~validatorFor(p.form, row, v) THEN [p EXCEPT !.form = FormSetError(@, "invalid")]
                    ELSE [inv EXCEPT !.form = FormSetError(setTextValue(@, row, v), "")])
PasteDSN(i) ==
    /\ FormKey(i, "paste") /\ P(i).mode = "form"
    /\ \E dsn \in CmDSNs :
         Step(i, IF ParseDSNIntoConnection(dsn) = ""
                 THEN [P(i) EXCEPT !.form = IF dsn = "" THEN FormSetError(@, "empty") ELSE [@ EXCEPT !.err = "invalid"]]
                 ELSE [InvalidateFormProbe(P(i)) EXCEPT !.form.conn.host = ParseDSNIntoConnection(dsn)])
CloseKey(i) ==
    /\ FormKey(i, "close") /\ P(i).mode # "list"
    /\ Step(i, ManagerMode(IF P(i).mode = "connecting" THEN [P(i) EXCEPT !.connectGen = @ + 1] ELSE P(i), "list"))
DeleteKey(i) ==
    /\ FormKey(i, "delete") /\ P(i).mode = "list" /\ P(i).cursor \in DOMAIN P(i).items
    /\ Set(i, [P(i) EXCEPT !.popup = [kind |-> "delete", name |-> P(i).items[P(i).cursor].name, revision |-> 0]])
DismissModal(i) == P(i).write.at = "none" /\ P(i).popup # NoPopup /\ Set(i, [P(i) EXCEPT !.popup = NoPopup])

-----------------------------------------
\* The probe of "test connection".
testConnection(i) ==
    LET conn == materializedConnection(P(i).form)
        p == cancelTestConnection(P(i))
        gen == p.testGen + 1
    IN /\ FormKey(i, "test") /\ P(i).mode = "form"
       /\ Step(i, IF ~ValidateSSHTunnel(conn.tunnel) THEN [P(i) EXCEPT !.form = FormSetError(@, "tunnel")]
                  ELSE [p EXCEPT !.form = FormSetStatus(@, ""), !.testGen = gen, !.testAttempt = gen,
                                 !.probes = @ \cup {[gen |-> gen, revision |-> p.revision, conn |-> conn,
                                                     settled |-> FALSE, answer |-> "none"]}])
\* The worker's dial ends; its answer is posted to the UI goroutine.
dialProbe(i) ==
    \E b \in P(i).probes, answer \in {"ok", "failed", "cancelled"} :
      /\ b.answer = "none" /\ (answer = "cancelled" => b.settled)
      /\ Set(i, [P(i) EXCEPT !.probes = (@ \ {b}) \cup {[b EXCEPT !.answer = answer]},
                             !.testAttempt = IF @ = b.gen THEN 0 ELSE @])
publishTestResult(i) ==
    /\ P(i).write.at = "none"
    /\ \E b \in P(i).probes :
         LET p == [P(i) EXCEPT !.probes = @ \ {b}]
         IN /\ b.answer # "none"
            /\ Set(i, IF P(i).testGen # b.gen \/ ~FormMatches(p, b.revision) \/ b.settled \/ b.answer = "cancelled" THEN p
                      ELSE IF b.answer = "failed" THEN [p EXCEPT !.form = FormSetError(@, "test failed")]
                      ELSE [p EXCEPT !.form = [FormSetStatus(@, "connection ok") EXCEPT !.tested = b.conn]])

-----------------------------------------
\* The checklist of a connect attempt. Reports are posted to the UI
\* goroutine and carry the attempt they belong to.
startAttempt(p, tunnel) ==
    [p EXCEPT !.connectGen = @ + 1, !.current = tunnel, !.stages = Started(tunnel.on), !.connectErr = FALSE,
              !.attempts = @ \cup {[gen |-> p.connectGen + 1, at |-> IF tunnel.on THEN "tunnel" ELSE "auth",
                                    reported |-> {}]}]
ConfirmConnect(i) ==
    /\ FormKey(i, "connect") /\ P(i).mode = "list" /\ P(i).cursor \in DOMAIN P(i).items /\ P(i).connectGen < CmAttempts
    /\ Step(i, startAttempt(ManagerMode(P(i), "connecting"), P(i).items[P(i).cursor].tunnel))
Retry(i) ==
    /\ FormKey(i, "connect") /\ P(i).mode = "connecting" /\ P(i).connectErr /\ P(i).connectGen < CmAttempts
    /\ Step(i, startAttempt(P(i), P(i).current))
After(at) == CASE at = "tunnel" -> "auth" [] at = "auth" -> "objects" [] at = "objects" -> "loaded" [] at = "loaded" -> "done"
\* The worker reaches the next stage, or fails, and posts what it reports.
AttemptStep(i) ==
    \E a \in P(i).attempts, next \in {"on", "error"} :
      /\ a.at \notin {"done", "error"} /\ (a.at = "loaded" => next = "on")
      /\ LET at == IF next = "error" THEN "error" ELSE After(a.at)
         IN Set(i, [P(i) EXCEPT !.attempts = (@ \ {a}) \cup {[a EXCEPT !.at = at, !.reported = @ \cup {at}]},
                                !.posted = @ \cup {[gen |-> a.gen, what |-> at]}])
applyReport(p, what) ==
    CASE what = "auth" -> [p EXCEPT !.stages.tunnel = IF @ = "absent" THEN @ ELSE "done", !.stages.auth = "active"]
      [] what = "objects" -> [p EXCEPT !.stages.auth = "done", !.stages.objects = "active"]
      [] what = "loaded" -> [p EXCEPT !.stages.objects = "done"]
      [] what = "error" -> [p EXCEPT !.connectErr = TRUE,
                              !.stages = [s \in DOMAIN @ |-> IF @[s] = "active" THEN "failed" ELSE @[s]]]
      [] what = "done" -> ManagerMode(p, "list")
Report(i) ==
    /\ P(i).write.at = "none"
    /\ \E r \in P(i).posted :
         LET p == [P(i) EXCEPT !.posted = @ \ {r}]
         IN Set(i, IF r.gen # p.connectGen \/ (r.what = "error" /\ p.popup # NoPopup) THEN p ELSE applyReport(p, r.what))

-----------------------------------------
\* Saving. The lock is taken within its timeout or the save fails; the file
\* is read, the new content computed, and the rename publishes it. Between
\* any two of these steps the other program and a text editor may act.
saveForm(i) ==
    LET v == validateAll(P(i).form)
        p == InvalidateFormProbe([P(i) EXCEPT !.form = v.form])
        f == v.form
    IN /\ FormKey(i, "form") /\ P(i).mode = "form"
       /\ Step(i, IF ~v.ok THEN [p EXCEPT !.form.err = "invalid"]
                  ELSE [p EXCEPT !.form.err = "",
                                 !.write = [at |-> "lock", kind |-> IF f.isEdit THEN "update" ELSE "append",
                                            old |-> f.originalName, conn |-> f.conn, seen |-> <<>>]])
deleteConnection(i) ==
    /\ Acts(i) /\ P(i).popup.kind = "delete"
    /\ Step(i, [P(i) EXCEPT !.popup = NoPopup,
                            !.write = [NoWrite EXCEPT !.at = "lock", !.kind = "delete", !.old = P(i).popup.name]])

WriteFailed(p, msg) == [p EXCEPT !.write = NoWrite, !.form = IF p.write.kind = "delete" THEN @ ELSE FormSetError(@, msg)]
acquireConnectionsWriteLock(i) ==
    /\ P(i).write.at = "lock" /\ cm.lock = 0
    /\ cm' = [cm EXCEPT !.lock = i, !.prog[i].write.at = "read"]
LockTimeout(i) == P(i).write.at = "lock" /\ cm.lock # 0 /\ Set(i, WriteFailed(P(i), "save failed"))
Refuse(i, msg) == cm' = [cm EXCEPT !.lock = 0, !.prog[i] = WriteFailed(@, msg)]
ReadForWrite(i) ==
    P(i).write.at = "read" /\ Set(i, [P(i) EXCEPT !.write.at = "rename", !.write.seen = cm.file])

Refused == << >>
\* As if the policy shown by the form were always written back.
updateFromForm(f, w) ==
    IF w.old \notin Names(w.seen) \/ (w.conn.name # w.old /\ w.conn.name \in Names(w.seen)) THEN Refused
    ELSE [w.seen EXCEPT ![FieldAt(w.seen, w.old)] = w.conn]
\* What an update writes, given the file it read; Refused when it refuses.
updateConnection(f, w) ==
    LET idx == FieldAt(w.seen, w.old)
        now == w.seen[idx]
        conn == [w.conn EXCEPT !.access = IF FormCLIAccessChange(f) THEN @ ELSE now.access,
                               !.history = IF FormCLIHistoryChange(f) THEN @ ELSE now.history]
    IN IF \/ w.old \notin Names(w.seen)
          \/ w.conn.name # w.old /\ w.conn.name \in Names(w.seen)
          \/ FormCLIAccessChange(f) /\ now.access # f.originalAccess
          \/ FormCLIHistoryChange(f) /\ now.history # f.originalHistory
       THEN Refused ELSE [w.seen EXCEPT ![idx] = conn]
appendConnection(w) == IF w.conn.name \in Names(w.seen) THEN Refused ELSE Append(w.seen, w.conn)
\* Only an update looks at the file again before it renames.
snapshotRename(w, file) == w.kind # "update" \/ file = w.seen

\* The policies chosen so far, given the write that was just reported as done.
Chosen(f, w, next) ==
    [n \in Names(next) |->
        IF w.kind = "delete" \/ n # w.conn.name THEN cm.policy[n]
        ELSE IF w.kind = "append" THEN <<w.conn.access, w.conn.history>>
        ELSE <<IF FormCLIAccessChange(f) THEN w.conn.access ELSE cm.policy[w.old][1],
               IF FormCLIHistoryChange(f) THEN w.conn.history ELSE cm.policy[w.old][2]>>]
PublishModal(i, next) ==
    LET w == P(i).write
        p == [refreshConnectionManagerRail(P(i), normalizeForWrite(next)) EXCEPT !.write = NoWrite]
        blind == cm.overwrote \cup (IF cm.file # w.seen THEN {w.kind} ELSE {})
    IN cm' = [cm EXCEPT !.file = normalizeForWrite(next), !.lock = 0, !.who = "program", !.overwrote = blind,
                        !.policy = IF blind # {} THEN <<>> ELSE Chosen(P(i).form, w, next),
                        !.prog[i] = IF w.kind = "delete" THEN p ELSE ManagerMode(p, "list")]
RenameUpdate(i) ==
    LET w == P(i).write
        next == updateConnection(P(i).form, w)
    IN /\ w.at = "rename" /\ w.kind = "update"
       /\ IF next = Refused \/ ~snapshotRename(w, cm.file) THEN Refuse(i, "changed") ELSE PublishModal(i, next)
RenameAppend(i) ==
    LET next == appendConnection(P(i).write)
    IN /\ P(i).write.at = "rename" /\ P(i).write.kind = "append"
       /\ IF next = Refused THEN Refuse(i, "save failed") ELSE PublishModal(i, next)
RenameDelete(i) ==
    LET w == P(i).write
    IN /\ w.at = "rename" /\ w.kind = "delete"
       /\ IF w.old \notin Names(w.seen) THEN Refuse(i, "")
          ELSE PublishModal(i, RemoveAt(w.seen, FieldAt(w.seen, w.old)))
\* A text editor saves the file; it knows nothing of the lock.
EditorSaves ==
    \E file \in CmEdits :
      /\ "editor" \in cm.topic.does /\ cm.ops < cm.topic.ops /\ file # cm.file
      /\ cm' = [cm EXCEPT !.file = file, !.who = "editor", !.ops = @ + 1,
                          !.policy = [n \in Names(file) |-> <<file[FieldAt(file, n)].access, file[FieldAt(file, n)].history>>]]

CmNext ==
    \/ \E i \in CmPrograms :
         \/ CursorMove(i) \/ FormNavigate(i) \/ OpenAddForm(i) \/ OpenEditForm(i) \/ FormToggleFocused(i)
         \/ FieldEdit(i) \/ FieldSubmit(i) \/ PasteDSN(i) \/ CloseKey(i) \/ DeleteKey(i) \/ DismissModal(i)
         \/ testConnection(i) \/ dialProbe(i) \/ publishTestResult(i)
         \/ ConfirmConnect(i) \/ Retry(i) \/ AttemptStep(i) \/ Report(i)
         \/ saveForm(i) \/ deleteConnection(i) \/ acquireConnectionsWriteLock(i) \/ LockTimeout(i)
         \/ ReadForWrite(i) \/ RenameUpdate(i) \/ RenameAppend(i) \/ RenameDelete(i)
    \/ EditorSaves

-----------------------------------------
\* Properties.
\* The CLI policy of a profile is the one last chosen for it, by a form that changed it or by
\* the text editor: a form opened earlier never restores it. Only an append or a delete can
\* replace text it has not read.
PolicyKept ==
    /\ cm.overwrote \subseteq {"append", "delete"}
    /\ cm.overwrote = {} => \A i \in DOMAIN cm.file :
         <<cm.file[i].access, cm.file[i].history>> = cm.policy[cm.file[i].name]
\* What a program writes: one profile per name, no password, no DSN beside its parts, tunnels
\* that can be dialled with one way to authenticate.
FileSound ==
    /\ Cardinality(Names(cm.file)) = Len(cm.file)
    /\ cm.who = "program" => \A i \in DOMAIN cm.file :
         LET p == cm.file[i] IN /\ p.password = "" /\ (p.host # "" => p.dsn = "")
                                /\ TunnelSound(p.tunnel)
\* "connection ok" is shown only over the connection that was dialled, whatever was edited,
\* reopened or tested again meanwhile.
ProbeTruth == \A i \in CmPrograms :
    P(i).form.status = "connection ok" => P(i).mode = "form" /\ materializedConnection(P(i).form) = P(i).form.tested
\* The checklist shows no stage as done, and no error, that the attempt it stands for has not reported.
ChecklistTruth == \A i \in CmPrograms : LET p == P(i) IN
    p.mode = "connecting" =>
      \E a \in p.attempts : /\ a.gen = p.connectGen
                            /\ p.connectErr => "error" \in a.reported
                            /\ p.stages.tunnel = "done" => "auth" \in a.reported
                            /\ p.stages.auth = "done" => "objects" \in a.reported
                            /\ p.stages.objects = "done" => "loaded" \in a.reported
\* The connection manager (connection_manager_context.go, connections_write.go): the four
\* statements above, and the file lock is held by the program whose save is between read and rename.
ManagerTruth ==
    /\ PolicyKept /\ FileSound /\ ProbeTruth /\ ChecklistTruth
    /\ \A i \in CmPrograms : P(i).write.at \in {"read", "rename"} <=> cm.lock = i

CmSpec == CmInit /\ [][CmNext]_cm
=============================================================================
