--------------------------- MODULE AppStateStore ---------------------------
(***************************************************************************)
(* The store of what outlives the program: mutations under one mutex, a     *)
(* debounced writer with one ticket per mutation, direct saves, Flush and   *)
(* Close (pkg/common/app_state_store.go, app_state.go).                     *)
(*                                                                          *)
(* The state is abstracted to the number of the last mutation in it and to  *)
(* the two representations of one session setting, the canonical one and    *)
(* the legacy SQL token, of which a file may carry at most one.             *)
(***************************************************************************)
EXTENDS Integers, FiniteSets

CONSTANTS
    StTickets,   \* bound: the mutations that are accepted, 1..n
    StSavers,    \* goroutines that call Save once
    StClosers    \* goroutines that call Close once

ASSUME StoreAssumption ==
    /\ \A t \in StTickets : t \in Nat \ {0} /\ \A u \in 1..t : u \in StTickets
    /\ StTickets \cap StSavers = {}

Corrupt == [n |-> -1, canon |-> FALSE, legacy |-> FALSE]
StWriters == StTickets \cup StSavers
NoTicket == 0

VARIABLES
    stMem,      \* s.state
    stDisk,     \* the file
    stLoad,     \* settingsLoadErr: "unread", "ok" or "failed"
    stTimer,    \* s.timer: the ticket whose timer was armed last, or NoTicket
    stPending,  \* s.pending
    stSaving,   \* s.saving
    stErr,      \* s.lastSaveErr # nil
    stWriteMu,  \* holders of writeMu
    stWriter,   \* per ticket or saver: where its write is, and its snapshot
    stCloser,   \* per closer: "idle", "won", "draining", "waiting", "returned"
    stFlush     \* the Flush of Gui.Close: its position, the mutation it must cover

storeVars == <<stMem, stDisk, stLoad, stTimer, stPending, stSaving, stErr,
               stWriteMu, stWriter, stCloser, stFlush>>

StClosed == \E c \in StClosers : stCloser[c] # "idle"

\* A file that is read or written drops a legacy value whose canonical one exists.
removeCanonicalLegacySettings(a) == [a EXCEPT !.legacy = a.legacy /\ ~a.canon]

StoreInit ==
    /\ stMem = [n |-> 0, canon |-> FALSE, legacy |-> FALSE]
    /\ stDisk \in {Corrupt} \cup {[n |-> 0, canon |-> c, legacy |-> l] : c, l \in BOOLEAN}
    /\ stLoad = "unread"
    /\ stTimer = NoTicket /\ stPending = 0 /\ stSaving = 0 /\ stErr = FALSE
    /\ stWriteMu = {}
    /\ stWriter = [w \in StWriters |-> [at |-> "idle", snap |-> Corrupt, ok |-> FALSE]]
    /\ stCloser = [c \in StClosers |-> "idle"]
    /\ stFlush = [at |-> "idle", covers |-> 0, ok |-> FALSE]

-----------------------------------------
(* Mutations. *)

\* Load, once, before the store is published. A file of an unknown version, or
\* one that does not decode, leaves the state alone and makes every later
\* mutation and save fail.
StLoadFile ==
    /\ stLoad = "unread"
    /\ stLoad' = IF stDisk = Corrupt THEN "failed" ELSE "ok"
    /\ stMem' = IF stDisk = Corrupt THEN stMem ELSE removeCanonicalLegacySettings(stDisk)
    /\ stErr' = (stDisk = Corrupt)
    /\ UNCHANGED <<stDisk, stTimer, stPending, stSaving, stWriteMu, stWriter, stCloser, stFlush>>

NextTicket == stMem.n + 1
Stopped == stTimer # NoTicket /\ stWriter[stTimer].at = "armed"

\* Mutant: the ticket of the old timer is given back even when it has fired.
StScheduleAlways ==
    /\ stPending' = stPending + (IF stTimer # NoTicket THEN 0 ELSE 1)
    /\ stWriter' = [w \in StWriters |->
                      IF w = NextTicket THEN [stWriter[w] EXCEPT !.at = "armed"]
                      ELSE IF w = stTimer /\ Stopped THEN [stWriter[w] EXCEPT !.at = "stopped"]
                      ELSE stWriter[w]]
    /\ stTimer' = NextTicket

\* scheduleSaveLocked: stop the armed timer, whose ticket is given back only if
\* the timer had not fired, and arm a new one.
scheduleSaveLocked ==
    /\ stPending' = stPending + (IF Stopped THEN 0 ELSE 1)
    /\ stWriter' = [w \in StWriters |->
                      IF w = NextTicket THEN [stWriter[w] EXCEPT !.at = "armed"]
                      ELSE IF w = stTimer /\ Stopped THEN [stWriter[w] EXCEPT !.at = "stopped"]
                      ELSE stWriter[w]]
    /\ stTimer' = NextTicket

Accepted == ~StClosed /\ stLoad = "ok"

\* MutateAndSave and every setter made of it. A refused mutation leaves its
\* error where Flush finds it.
MutateAndSave ==
    /\ stLoad # "unread"
    /\ \/ /\ Accepted /\ NextTicket \in StTickets
          /\ stMem' = [stMem EXCEPT !.n = NextTicket]
          /\ scheduleSaveLocked
          /\ UNCHANGED stErr
       \/ ~Accepted /\ stErr' = TRUE /\ UNCHANGED <<stMem, stTimer, stPending, stWriter>>
    /\ UNCHANGED <<stDisk, stLoad, stSaving, stWriteMu, stCloser, stFlush>>

\* SetCanonicalSessionSetting and DeleteSessionSetting report a refusal to
\* their caller only.
SetSessionSetting ==
    /\ Accepted /\ NextTicket \in StTickets
    /\ stMem' \in {[n |-> NextTicket, canon |-> c, legacy |-> FALSE] : c \in BOOLEAN}
    /\ scheduleSaveLocked
    /\ UNCHANGED <<stDisk, stLoad, stSaving, stErr, stWriteMu, stCloser, stFlush>>

-----------------------------------------
(* Writers. *)

\* The debounce window of a ticket elapses: from here Stop comes too late.
StFire(t) ==
    /\ stWriter[t].at = "armed"
    /\ stWriter' = [stWriter EXCEPT ![t].at = "waiting"]
    /\ UNCHANGED <<stMem, stDisk, stLoad, stTimer, stPending, stSaving, stErr, stWriteMu,
                   stCloser, stFlush>>

\* Save announces itself before it waits for writeMu; allowed after Close.
StSave(w) ==
    /\ stLoad # "unread" /\ stWriter[w].at = "idle"
    /\ stWriter' = [stWriter EXCEPT ![w].at = "waiting"]
    /\ stSaving' = stSaving + 1
    /\ UNCHANGED <<stMem, stDisk, stLoad, stTimer, stPending, stErr, stWriteMu, stCloser, stFlush>>

StLock(w) ==
    /\ stWriter[w].at = "waiting" /\ stWriteMu = {}
    /\ stWriteMu' = {w}
    /\ stWriter' = [stWriter EXCEPT ![w].at = "locked"]
    /\ UNCHANGED <<stMem, stDisk, stLoad, stTimer, stPending, stSaving, stErr, stCloser, stFlush>>

\* saveSnapshot, under mu: refuse after a failed load, or copy the state.
saveSnapshot(w) ==
    /\ stWriter[w].at = "locked"
    /\ stWriter' = [stWriter EXCEPT ![w].at = IF stLoad = "failed" THEN "written" ELSE "writing",
                                    ![w].snap = stMem, ![w].ok = FALSE]
    /\ UNCHANGED <<stMem, stDisk, stLoad, stTimer, stPending, stSaving, stErr, stWriteMu,
                   stCloser, stFlush>>

\* AppState.Save: an atomic replacement, or an I/O error that changes nothing.
StWrite(w) ==
    /\ stWriter[w].at = "writing"
    /\ \E ok \in BOOLEAN :
         /\ stDisk' = IF ok THEN removeCanonicalLegacySettings(stWriter[w].snap) ELSE stDisk
         /\ stWriter' = [stWriter EXCEPT ![w].at = "written", ![w].ok = ok]
    /\ UNCHANGED <<stMem, stLoad, stTimer, stPending, stSaving, stErr, stWriteMu, stCloser, stFlush>>

\* The end of debouncedFire or of Save. Only a ticket leaves its error behind.
StFinish(w) ==
    /\ stWriter[w].at = "written"
    /\ stWriter' = [stWriter EXCEPT ![w].at = "done"]
    /\ stWriteMu' = {}
    /\ IF w \in StTickets
         THEN /\ stErr' = ~stWriter[w].ok
              /\ stPending' = stPending - 1
              /\ stTimer' = IF stTimer = w THEN NoTicket ELSE stTimer
              /\ UNCHANGED stSaving
         ELSE stSaving' = stSaving - 1 /\ UNCHANGED <<stErr, stPending, stTimer>>
    /\ UNCHANGED <<stMem, stDisk, stLoad, stCloser, stFlush>>

-----------------------------------------
(* Flush and Close. *)

StQuiet == stPending = 0 /\ stSaving = 0

FlushCall ==
    /\ stLoad # "unread" /\ stFlush.at = "idle"
    /\ stFlush' = [at |-> "waiting", covers |-> stMem.n, ok |-> FALSE]
    /\ UNCHANGED <<stMem, stDisk, stLoad, stTimer, stPending, stSaving, stErr, stWriteMu,
                   stWriter, stCloser>>

\* A Flush that a Close overtook is not held to its promise: Close gave the
\* armed ticket back without writing.
FlushReturn ==
    /\ stFlush.at = "waiting" /\ StQuiet
    /\ stFlush' = [stFlush EXCEPT !.at = IF StClosed THEN "overtaken" ELSE "returned",
                                  !.ok = ~stErr]
    /\ UNCHANGED <<stMem, stDisk, stLoad, stTimer, stPending, stSaving, stErr, stWriteMu,
                   stWriter, stCloser>>

\* The compare-and-swap, before mu is taken.
StCloseEnter(c) ==
    /\ stLoad # "unread" /\ stCloser[c] = "idle"
    /\ stCloser' = [stCloser EXCEPT ![c] = IF StClosed THEN "waiting" ELSE "won"]
    /\ UNCHANGED <<stMem, stDisk, stLoad, stTimer, stPending, stSaving, stErr, stWriteMu,
                   stWriter, stFlush>>

StCloseStop(c) ==
    /\ stCloser[c] = "won"
    /\ stCloser' = [stCloser EXCEPT ![c] = "draining"]
    /\ stPending' = stPending - (IF Stopped THEN 1 ELSE 0)
    /\ stWriter' = IF Stopped THEN [stWriter EXCEPT ![stTimer].at = "stopped"] ELSE stWriter
    /\ stTimer' = NoTicket
    /\ UNCHANGED <<stMem, stDisk, stLoad, stSaving, stErr, stWriteMu, stFlush>>

StCloseReturn(c) ==
    /\ \/ stCloser[c] = "draining" /\ StQuiet
       \/ stCloser[c] = "waiting" /\ \E d \in StClosers \ {c} : stCloser[d] = "returned"
    /\ stCloser' = [stCloser EXCEPT ![c] = "returned"]
    /\ UNCHANGED <<stMem, stDisk, stLoad, stTimer, stPending, stSaving, stErr, stWriteMu,
                   stWriter, stFlush>>

StoreNext ==
    \/ StLoadFile \/ MutateAndSave \/ SetSessionSetting \/ FlushCall \/ FlushReturn
    \/ \E t \in StTickets : StFire(t)
    \/ \E w \in StSavers : StSave(w)
    \/ \E w \in StWriters : StLock(w) \/ saveSnapshot(w) \/ StWrite(w) \/ StFinish(w)
    \/ \E c \in StClosers : StCloseEnter(c) \/ StCloseStop(c) \/ StCloseReturn(c)

StoreSpec == StoreInit /\ [][StoreNext]_storeVars

-----------------------------------------
(* Properties. *)

InFlightTickets == {t \in StTickets : stWriter[t].at \notin {"idle", "stopped", "done"}}

\* What the store promises its callers: the counter that Flush and Close wait
\* on counts exactly the tickets that can still write, a Flush that returned
\* without an error left every earlier mutation in the file, the file never
\* goes back to an older state, a file that could not be read is never
\* overwritten, and a written file holds a setting in one representation
\* (scheduleSaveLocked, debouncedFire, Flush, Close, saveSnapshot).
StoreKeepsPromises ==
    /\ stPending = Cardinality(InFlightTickets)
    /\ stFlush.at = "returned" /\ stFlush.ok => stDisk.n >= stFlush.covers
    /\ \A w \in StWriters : stWriter[w].at = "writing" => stWriter[w].snap.n >= stDisk.n
    /\ stLoad = "failed" => stDisk = Corrupt
    /\ stDisk.n > 0 => ~(stDisk.canon /\ stDisk.legacy)
=============================================================================
