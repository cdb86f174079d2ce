----------------------------- MODULE UIPublisher -----------------------------
(***************************************************************************)
(* The ordered publisher that carries row deliveries to the main loop:      *)
(* gocuiDriver.publish, settle, retire and publishLoop                      *)
(* (pkg/gui/orchestrator/gocui_driver.go).                                  *)
(*                                                                          *)
(* A publication is accepted, run once on the main loop in FIFO order, and  *)
(* settled exactly once: by the loop, by the cancellation of its context,   *)
(* or by the driver's retirement. d.publications and the main loop's native *)
(* event queue, fed by one goroutine, are one FIFO queue here.              *)
(***************************************************************************)
EXTENDS Integers, Sequences, FiniteSets

CONSTANTS Tasks,   \* the streaming tasks that publish
          None,    \* the nil pointer
          MaxRows  \* bound: rows a task's stream produces

\* A batch of rows of one task, named by its first and last row.
Publication == [task : Tasks, from : 1..MaxRows, upto : 1..MaxRows]

ASSUME PublisherAssumption ==
    /\ None \notin Tasks \cup Publication
    /\ MaxRows \in Nat

VARIABLES
    queue,     \* publications on their way to the main loop
    accepted,  \* gocuiDriver.accepted: admitted and not settled
    running,   \* the publication whose fn the main loop is running, or None
    retiring   \* gocuiDriver.retiring

publisherVars == <<queue, accepted, running, retiring>>

PublisherTypeOK ==
    /\ queue \in Seq(Publication)
    /\ accepted \in SUBSET Publication
    /\ running \in Publication \cup {None}
    /\ retiring \in BOOLEAN

PublisherInit ==
    /\ queue = <<>>
    /\ accepted = {}
    /\ running = None
    /\ retiring = FALSE

\* Mutant: the newest publication goes first.
PublishFront(p) ==
    /\ queue' = IF retiring THEN queue ELSE <<p>> \o queue
    /\ accepted' = IF retiring THEN accepted ELSE accepted \cup {p}
    /\ UNCHANGED <<running, retiring>>

\* publish: a retiring driver settles the publication on the spot.
Publish(p) ==
    /\ queue' = IF retiring THEN queue ELSE Append(queue, p)
    /\ accepted' = IF retiring THEN accepted ELSE accepted \cup {p}
    /\ UNCHANGED <<running, retiring>>

\* settle's once: only a publication that is still accepted is settled.
Settle(p) == accepted' = accepted \ {p}

\* The main loop reaches the next publication; canceled is its context.
Dequeue(canceled) ==
    /\ queue # <<>>
    /\ running = None
    /\ queue' = Tail(queue)
    /\ IF retiring \/ canceled
         THEN Settle(Head(queue)) /\ UNCHANGED running
         ELSE running' = Head(queue) /\ UNCHANGED accepted
    /\ UNCHANGED retiring

\* fn has returned.
Return ==
    /\ running # None
    /\ running' = None
    /\ Settle(running)
    /\ UNCHANGED <<queue, retiring>>

\* retire: every accepted publication is settled as canceled.
RetireDriver ==
    /\ ~retiring
    /\ retiring' = TRUE
    /\ accepted' = {}
    /\ queue' = <<>>
    /\ UNCHANGED running
=============================================================================
