-------------------------- MODULE BufferPersistence --------------------------
(***************************************************************************)
(* How the text of the query editor reaches the disk: snapshots are saved   *)
(* by workers chained one after the other, a save is acknowledged on the UI *)
(* goroutine, Close drains the workers and writes what is still dirty, and  *)
(* a connect replaces the buffer by what it read (query_editor_context.go,  *)
(* gui.go saveQueryEditorBuffer and flushQueryEditorBuffer, adapters.go).   *)
(*                                                                          *)
(* A text is a number; typing may bring an earlier text back. Buffers are   *)
(* told apart by the number of loads before them.                           *)
(***************************************************************************)
EXTENDS Integers, Sequences, FiniteSets

CONSTANTS BpTexts,  \* texts
          BpSaves,  \* bound on the saves
          BpLoads   \* bound on the connects

ASSUME BpAssumption == BpTexts # {} /\ BpTexts \subseteq Nat \ {0} /\ BpSaves \in Nat /\ BpLoads \in Nat

VARIABLE bp

BpOld == CHOOSE t \in BpTexts : TRUE
BpInit == bp = [text |-> BpOld, dirty |-> FALSE, obj |-> 0, gen |-> 0,
                disk |-> BpOld, tail |-> <<>>, acks |-> {}, load |-> 0, loads |-> 0,
                close |-> "open", raced |-> FALSE]

BpOpen == bp.close = "open"

BpEdit(t) == /\ BpOpen /\ t # bp.text
             /\ bp' = [bp EXCEPT !.text = t, !.dirty = TRUE]

\* Focus is lost, or a tab of the rail changes.
saveBufferIfDirty ==
    /\ BpOpen /\ bp.dirty /\ bp.gen < BpSaves
    /\ bp' = [bp EXCEPT !.gen = @ + 1,
                        !.tail = Append(@, [text |-> bp.text, gen |-> bp.gen + 1, obj |-> bp.obj])]

\* The worker at the head of the chain writes a temporary file and renames it,
\* or fails; the rename is the write.
SaveBufferContent(ok) ==
    /\ bp.tail # <<>>
    /\ bp' = [bp EXCEPT !.tail = Tail(@),
                        !.disk = IF ok THEN Head(bp.tail).text ELSE @,
                        !.acks = IF BpOpen THEN @ \cup {[save |-> Head(bp.tail), ok |-> ok]} ELSE @]

Acked(a) == [bp EXCEPT !.acks = @ \ {a}]
\* Mutant: an acknowledgement of an older snapshot counts.
ackAnyGeneration(a) ==
    bp' = [Acked(a) EXCEPT !.dirty = @ /\ ~(a.ok /\ a.save.obj = bp.obj /\ a.save.text = bp.text)]
ackSave(a) ==
    bp' = [Acked(a) EXCEPT !.dirty = @ /\ ~(/\ a.ok /\ a.save.gen = bp.gen
                                            /\ a.save.obj = bp.obj /\ a.save.text = bp.text)]
BpAck == BpOpen /\ \E a \in bp.acks : ackSave(a)

\* A connect reads the file on its worker and publishes the buffer later. The
\* read does not wait for the chain of saves.
loadQueryEditorBuffer ==
    /\ BpOpen /\ bp.load = 0 /\ bp.loads < BpLoads
    /\ bp' = [bp EXCEPT !.load = bp.disk, !.loads = @ + 1]
publishQueryEditorBuffer ==
    /\ BpOpen /\ bp.load # 0
    /\ bp' = [bp EXCEPT !.text = bp.load, !.dirty = FALSE, !.obj = @ + 1, !.load = 0,
                        !.raced = @ \/ bp.tail # <<>> \/ bp.disk # bp.load]

\* Close: the workers are waited for, up to a bound; what is dirty is written
\* only when they have all ended.
BpClose == BpOpen /\ bp' = [bp EXCEPT !.close = "draining", !.acks = {}]
flushQueryEditorBuffer(ok) ==
    /\ bp.close = "draining" /\ bp.tail = <<>>
    /\ bp' = [bp EXCEPT !.close = IF ok \/ ~bp.dirty THEN "flushed" ELSE "failed",
                        !.disk = IF ok /\ bp.dirty THEN bp.text ELSE @,
                        !.dirty = @ /\ ~ok]
BpDrainTimeout == /\ bp.close = "draining" /\ bp.tail # <<>>
                  /\ bp' = [bp EXCEPT !.close = "timedOut"]

BpNext == \/ \E t \in BpTexts : BpEdit(t)
          \/ saveBufferIfDirty \/ BpAck
          \/ \E ok \in BOOLEAN : SaveBufferContent(ok) \/ flushQueryEditorBuffer(ok)
          \/ loadQueryEditorBuffer \/ publishQueryEditorBuffer
          \/ BpClose \/ BpDrainTimeout

BpSpec == BpInit /\ [][BpNext]_bp

\* A buffer that is not dirty is on disk, whatever order saves, failures,
\* acknowledgements and edits come in and whether or not Close drained in time
\* (unless a connect read the file while a save of it was under way: the read
\* does not wait for the saves); a Close that flushed left the text on disk.
CleanIsOnDisk ==
    /\ ~bp.dirty /\ ~bp.raced => bp.disk = bp.text
    /\ bp.close = "flushed" /\ ~bp.raced => bp.disk = bp.text /\ ~bp.dirty
=============================================================================
