---------------------------- MODULE QueueRunner ----------------------------
(***************************************************************************)
(* QueueRunnerService of the worker process: at start-up it opens a BullMQ *)
(* worker, queue and event stream, degrades when Redis is out of reach and *)
(* closes them again.  The shutdown hook may run while start-up waits.     *)
(* External: BullMQ, whose waits, adds and closes succeed or fail.         *)
(***************************************************************************)

VARIABLES
  connectionState,   \* what getStatus reports
  held,              \* fields of the service that are set
  open,              \* connections that are open
  boot, down,        \* where onApplicationBootstrap, onApplicationShutdown are
  refused            \* history: connections whose close failed

vars == <<connectionState, held, open, boot, down, refused>>

-----------------------------------------------------------------------------
Resource == {"queueEvents", "worker", "queue"}

\* cleanupQueueResources closes them in this order.
After == [queueEvents |-> "worker", worker |-> "queue", queue |-> "done"]

Init ==
  /\ connectionState = "idle"
  /\ held = {} /\ open = {} /\ refused = {}
  /\ boot = "new" /\ down = "no"

Degrade == connectionState' = "degraded" /\ boot' = "queueEvents"

\* The three are constructed, unless REDIS_URL does not parse.
Open ==
  /\ boot = "new"
  /\ \/ /\ held' = Resource /\ open' = Resource /\ boot' = "workerReady"
        /\ UNCHANGED connectionState
     \/ Degrade /\ UNCHANGED <<held, open>>
  /\ UNCHANGED <<down, refused>>

\* The worker is ready; the event stream, unless it was closed meanwhile, is
\* waited for next.
WorkerReady ==
  /\ boot = "workerReady"
  /\ \/ "queueEvents" \in held /\ boot' = "eventsReady" /\ UNCHANGED connectionState
     \/ Degrade
  /\ UNCHANGED <<held, open, down, refused>>

\* The connection counts as up before the bootstrap job is added.
EventsReady ==
  /\ boot = "eventsReady"
  /\ \/ /\ connectionState' = "connected"
        /\ boot' = IF "queue" \in held THEN "job" ELSE "done"
     \/ Degrade
  /\ UNCHANGED <<held, open, down, refused>>

EnsureBootstrapJob ==
  /\ boot = "job"
  /\ (boot' = "done" /\ UNCHANGED connectionState) \/ Degrade
  /\ UNCHANGED <<held, open, down, refused>>

\* Closing r, if it is still held; after the last one all three are forgotten.
\* A close that throws ends the clean-up there.
Closed(r) ==
  /\ open' = open \ (held \cap {r})
  /\ held' = IF r = "queue" THEN {} ELSE held
  /\ UNCHANGED refused
CloseThrows(r) ==
  /\ r \in held
  /\ refused' = refused \cup {r}
  /\ UNCHANGED <<open, held>>

\* Variant: start-up gives up without closing what it opened.
BootForgets ==
  /\ boot \in Resource
  /\ boot' = "done" /\ held' = {}
  /\ UNCHANGED <<open, refused, connectionState, down>>

BootCloses ==
  /\ boot \in Resource
  /\ (Closed(boot) /\ boot' = After[boot]) \/ (CloseThrows(boot) /\ boot' = "done")
  /\ UNCHANGED <<connectionState, down>>

Shutdown ==
  /\ down = "no" /\ boot # "new"
  /\ down' = "queueEvents"
  /\ UNCHANGED <<connectionState, held, open, boot, refused>>

ShutdownCloses ==
  /\ down \in Resource
  /\ (Closed(down) /\ down' = After[down]) \/ (CloseThrows(down) /\ down' = "done")
  /\ UNCHANGED <<connectionState, boot>>

Quiet == boot = "done" /\ down = "done" /\ UNCHANGED vars

Next ==
  Open \/ WorkerReady \/ EventsReady \/ EnsureBootstrapJob \/ BootCloses
    \/ Shutdown \/ ShutdownCloses \/ Quiet

Spec == Init /\ [][Next]_vars

-----------------------------------------------------------------------------
\* A start-up that ended degraded leaves no connection behind, also when the
\* shutdown hook closed some of them beside it; only a close that failed does.
DegradedHoldsNothing ==
  boot = "done" /\ connectionState = "degraded" /\ refused = {} =>
    held = {} /\ open = {}
=============================================================================
