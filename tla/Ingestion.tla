----------------------------- MODULE Ingestion -----------------------------
(***************************************************************************)
(* Captured payloads: IngestionService (createBatch, removeForOrganization) *)
(* over RawDataService, which keeps one object per batch in an S3 bucket   *)
(* and a row that points to it.                                            *)
(*                                                                         *)
(* S3 and the database are written one after the other.  work[h] is the    *)
(* batch a request works on and the call it makes next.  The transaction   *)
(* of a removal is two statements: it deletes the payload rows it sees,    *)
(* then the batch, which fails (and rolls both back) if another payload    *)
(* row was committed meanwhile or the batch is gone.                       *)
(*                                                                         *)
(* External: S3, whose puts may fail or lose their answer and whose        *)
(* deletes may fail.  Bounds: Batch (rows ever created), MaxDeaths.        *)
(***************************************************************************)
EXTENDS Integers, FiniteSets

CONSTANTS
  Worker,    \* requests in flight together
  Batch,     \* batch rows
  NoBatch,
  MaxDeaths  \* deaths of the API process

VARIABLES
  batch,     \* status of every batch row
  payload,   \* batches that have a payload row
  object,    \* batches whose object is in the bucket
  bucket,    \* bucketReadyPromise of this process
  work,      \* requests
  answered,  \* history: batches whose createBatch returned
  asked,     \* history: batches somebody asked to remove
  excused,   \* history: batches whose object S3 failed to delete, or that were
             \* removed while they were being stored
  cut,       \* history: batches whose createBatch died with the process
  deaths

store == <<batch, payload, object>>
history == <<answered, asked, excused, cut, deaths>>
vars == <<store, bucket, work, history>>

-----------------------------------------------------------------------------
Free == [at |-> "idle", b |-> NoBatch, rows |-> FALSE]
Work == [at: {"idle", "retention", "bucket", "put", "row", "fail",
              "removeBucket", "delete", "removeRows", "removeBatch"},
         b: Batch \cup {NoBatch}, rows: BOOLEAN]

Init ==
  /\ batch = [b \in Batch |-> "none"]
  /\ payload = {} /\ object = {}
  /\ bucket = "unset"
  /\ work = [h \in Worker |-> Free]
  /\ answered = {} /\ asked = {} /\ excused = {} /\ cut = {}
  /\ deaths = 0

At(h, l) == work[h].at = l
Goto(h, l) == work' = [work EXCEPT ![h].at = l]
End(h) == work' = [work EXCEPT ![h] = Free]
Storing(b) == \E h \in Worker :
                work[h].b = b /\ work[h].at \in {"retention", "bucket", "put", "row"}

\* The payload matches the extension session and its shop is the
\* organization's; the row is created before anything is stored.
CreateBatch(h) ==
  /\ At(h, "idle") /\ \E b \in Batch : batch[b] = "none"
  /\ LET b == CHOOSE c \in Batch : batch[c] = "none" IN
       /\ batch' = [batch EXCEPT ![b] = "ACCEPTED"]
       /\ work' = [work EXCEPT ![h] = [at |-> "retention", b |-> b, rows |-> FALSE]]
  /\ UNCHANGED <<payload, object, bucket, history>>

\* resolveRetentionDays: the days of the plan, or 30.
Retention(h) ==
  /\ At(h, "retention") /\ Goto(h, "bucket")
  /\ UNCHANGED <<store, bucket, history>>

\* ensureBucketReady starts the check once and awaits its promise from then on,
\* also when it was rejected.
StartBucketCheck(h) ==
  /\ work[h].at \in {"bucket", "removeBucket"} /\ bucket = "unset"
  /\ bucket' = "pending"
  /\ UNCHANGED <<store, work, history>>

\* createBucketIfNeeded: the bucket exists or is created, or neither.
BucketChecked ==
  /\ bucket = "pending"
  /\ bucket' \in {"ready", "failed"}
  /\ UNCHANGED <<store, work, history>>

BucketAwaited(h) ==
  /\ bucket \in {"ready", "failed"}
  /\ \/ At(h, "bucket") /\ Goto(h, IF bucket = "ready" THEN "put" ELSE "fail")
     \/ At(h, "removeBucket") /\ IF bucket = "ready" THEN Goto(h, "delete") ELSE End(h)
  /\ UNCHANGED <<store, bucket, history>>

\* Variant: an upload that failed goes on like one that succeeded.
PutIgnoresFailure(h) ==
  /\ At(h, "put")
  /\ Goto(h, "row")
  /\ object' \in {object, object \cup {work[h].b}}
  /\ UNCHANGED <<batch, payload, bucket, history>>

\* PutObject: stored, stored without the answer, or failed.
Put(h) ==
  /\ At(h, "put")
  /\ \/ Goto(h, "row") /\ object' = object \cup {work[h].b}
     \/ Goto(h, "fail") /\ object' \in {object, object \cup {work[h].b}}
  /\ UNCHANGED <<batch, payload, bucket, history>>

\* The payload row needs its batch; createBatch returns.
CreatePayload(h) ==
  /\ At(h, "row")
  /\ IF batch[work[h].b] = "deleted"
     THEN Goto(h, "fail") /\ UNCHANGED <<payload, answered>>
     ELSE /\ payload' = payload \cup {work[h].b}
          /\ answered' = answered \cup {work[h].b}
          /\ End(h)
  /\ UNCHANGED <<batch, object, bucket, asked, excused, cut, deaths>>

\* The batch is marked and the error rethrown; an update of a row that is gone
\* throws as well.
MarkFailed(h) ==
  /\ At(h, "fail")
  /\ batch' = [batch EXCEPT ![work[h].b] = IF @ = "deleted" THEN @ ELSE "FAILED"]
  /\ End(h)
  /\ UNCHANGED <<payload, object, bucket, history>>

\* Variant: rows first, objects of the rows that are left afterwards.
RemoveReadNoKeys(h) ==
  /\ At(h, "idle")
  /\ \E b \in Batch :
       /\ batch[b] \in {"ACCEPTED", "FAILED"}
       /\ work' = [work EXCEPT ![h] = [at |-> "removeRows", b |-> b, rows |-> FALSE]]
       /\ asked' = asked \cup {b}
       /\ excused' = IF Storing(b) THEN excused \cup {b} ELSE excused
  /\ UNCHANGED <<store, bucket, answered, cut, deaths>>

\* removeForOrganization reads the batch with the keys of its objects.
RemoveRead(h) ==
  /\ At(h, "idle")
  /\ \E b \in Batch :
       /\ batch[b] \in {"ACCEPTED", "FAILED"}
       /\ work' = [work EXCEPT ![h] =
                     [at |-> IF b \in payload THEN "removeBucket" ELSE "removeRows",
                      b |-> b, rows |-> FALSE]]
       /\ asked' = asked \cup {b}
       /\ excused' = IF Storing(b) THEN excused \cup {b} ELSE excused
  /\ UNCHANGED <<store, bucket, answered, cut, deaths>>

\* deleteRawPayload answers false when S3 fails; nobody looks at the answer.
DeleteObject(h) ==
  /\ At(h, "delete") /\ Goto(h, "removeRows")
  /\ \/ object' = object \ {work[h].b} /\ UNCHANGED excused
     \/ object' = object /\ excused' = excused \cup {work[h].b}
  /\ UNCHANGED <<batch, payload, bucket, answered, asked, cut, deaths>>

RemoveRows(h) ==
  /\ At(h, "removeRows")
  /\ work' = [work EXCEPT ![h] = [at |-> "removeBatch", b |-> work[h].b,
                                  rows |-> work[h].b \in payload]]
  /\ UNCHANGED <<store, bucket, history>>

RemoveBatch(h) ==
  LET b == work[h].b
      rolledBack == batch[b] = "deleted" \/ (b \in payload /\ ~work[h].rows)
  IN  /\ At(h, "removeBatch")
      /\ IF rolledBack
         THEN UNCHANGED <<batch, payload>>
         ELSE batch' = [batch EXCEPT ![b] = "deleted"] /\ payload' = payload \ {b}
      /\ End(h)
      /\ UNCHANGED <<object, bucket, history>>

\* The process dies and starts again without its requests and its promise.
Death ==
  /\ deaths < MaxDeaths /\ deaths' = deaths + 1
  /\ bucket' = "unset"
  /\ work' = [h \in Worker |-> Free]
  /\ cut' = cut \cup {b \in Batch : \E h \in Worker : work[h].b = b}
  /\ UNCHANGED <<store, answered, asked, excused>>

Step(h) ==
  \/ CreateBatch(h) \/ Retention(h) \/ StartBucketCheck(h) \/ BucketAwaited(h)
  \/ Put(h) \/ CreatePayload(h) \/ MarkFailed(h)
  \/ RemoveRead(h) \/ DeleteObject(h) \/ RemoveRows(h) \/ RemoveBatch(h)

\* No request is in flight and none need come.
Quiet == (\A h \in Worker : At(h, "idle")) /\ UNCHANGED vars

Next == (\E h \in Worker : Step(h)) \/ BucketChecked \/ Death \/ Quiet

Spec == Init /\ [][Next]_vars

-----------------------------------------------------------------------------
\* Rows, objects and requests have their types.
TypeOK ==
  /\ batch \in [Batch -> {"none", "ACCEPTED", "FAILED", "deleted"}]
  /\ payload \subseteq Batch /\ object \subseteq Batch
  /\ bucket \in {"unset", "pending", "ready", "failed"}
  /\ work \in [Worker -> Work]
  /\ answered \cup asked \cup excused \cup cut \subseteq Batch
  /\ deaths \in 0..MaxDeaths

\* What createBatch has answered for is there, batch, row and object, until
\* somebody asks to remove it, whatever fails, dies or is removed beside it.
AnsweredIsStored ==
  \A b \in answered \ asked : batch[b] = "ACCEPTED" /\ b \in payload \cap object

\* A batch left ACCEPTED without a payload belongs to a request that died with
\* the process or is still running: every failure on the way is recorded as
\* FAILED, a rejected bucket check included (createBatch).
NothingIsLostSilently ==
  \A b \in Batch :
    batch[b] = "ACCEPTED" /\ b \notin payload =>
      \/ b \in cut
      \/ \E h \in Worker : work[h].b = b

\* An object whose batch is gone is there because S3 failed to delete it,
\* because the removal met the upload, or because the upload's answer or its
\* process was lost, and for no other reason (removeForOrganization).
OrphanHasCause ==
  \A b \in object :
    batch[b] = "deleted" => b \in excused \cup cut \/ b \notin answered
=============================================================================
