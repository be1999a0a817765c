----------------------------- MODULE ApiProofs -----------------------------
(***************************************************************************)
(* Proofs about the suite MCApi, for any number of requests, batches, rows *)
(* and sessions: stored batches (Ingestion), the worker's start-up         *)
(* (QueueRunner), the seeding of fees (Catalog), and what AuthSessions     *)
(* promises of the suite's sessions.                                       *)
(***************************************************************************)
EXTENDS MCApi, QuotaProofs, WellFoundedInduction, FiniteSetTheorems

LEMMA PartStays == [ApiNext]_apiVars => part' = part
BY DEF ApiNext, Rest, apiVars

-----------------------------------------------------------------------------
(* Batches.                                                                *)

CreateAt == {"retention", "bucket", "put", "row", "fail"}
RemoveAt == {"removeBucket", "delete", "removeRows", "removeBatch"}
Creating(h) == work[h].at \in CreateAt
Removing(h) == work[h].at \in RemoveAt

BatchTypes ==
  /\ batch \in [Batch -> {"none", "ACCEPTED", "FAILED", "deleted"}]
  /\ work \in [Handler -> Batches!Work]

\* A request that creates has a row of its own that is accepted, if nobody has
\* removed it, and has stored no payload; one that removes works on a row that
\* was asked for.
WorkHeld ==
  /\ \A h \in Handler :
       /\ work[h].at = "idle" => work[h] = Batches!Free
       /\ Creating(h) =>
            /\ work[h].b \in Batch \ (answered \cup payload)
            /\ batch[work[h].b] \in {"ACCEPTED", "deleted"}
       /\ Removing(h) =>
            /\ work[h].b \in asked
            /\ work[h].b \in Batch /\ batch[work[h].b] # "none"
  /\ \A g, h \in Handler : Creating(g) /\ Creating(h) /\ work[g].b = work[h].b => g = h

\* What the tables and the histories say of one another.
RowsFit ==
  /\ answered \cup payload \subseteq Batch
  /\ \A b \in Batch :
       /\ batch[b] = "deleted" => b \in asked
       /\ batch[b] = "none" => b \notin answered \cup payload
       /\ b \in answered => b \in payload \/ batch[b] = "deleted"
  /\ \A h \in Handler : work[h].at = "row" => work[h].b \in object \cup asked

\* An upload and a removal of one batch never meet unexcused.
Unmet(h) ==
  LET b == work[h].b IN
  /\ work[h].at = "removeBucket" => b \in payload \/ batch[b] = "deleted"
  /\ work[h].at \in {"removeBucket", "delete"} => ~Batches!Storing(b)
  /\ work[h].at \in {"removeRows", "removeBatch"} =>
       b \in excused \/ (~Batches!Storing(b) /\ b \notin object \cap answered)
RemovalsUnmet == \A h \in Handler : Unmet(h)

BatchInv ==
  /\ BatchTypes /\ WorkHeld /\ RowsFit /\ RemovalsUnmet
  /\ Batches!AnsweredIsStored /\ Batches!NothingIsLostSilently /\ Batches!OrphanHasCause

LEMMA BatchesInit == part = "batches" /\ ApiInit => BatchInv
<1> SUFFICES ASSUME Batches!Init PROVE BatchInv
  BY DEF ApiInit
<1>. USE DEF Batches!Init
<1>1. BatchTypes
  BY DEF BatchTypes, Batches!Work, Batches!Free
<1>2. WorkHeld /\ RowsFit /\ RemovalsUnmet
  BY DEF WorkHeld, RowsFit, RemovalsUnmet, Unmet, Creating, Removing, CreateAt, RemoveAt,
         Batches!Free
<1>. QED BY <1>1, <1>2 DEF BatchInv, Batches!AnsweredIsStored,
            Batches!NothingIsLostSilently, Batches!OrphanHasCause

LEMMA BatchesMove ==
  part = "batches" /\ [ApiNext]_apiVars => [Batches!Next]_batchVars
BY DEF ApiNext, Rest, apiVars

\* A request that goes on with its batch, and one that ends.
LEMMA WorkGoes ==
  ASSUME BatchTypes, NEW h \in Handler, NEW l \in CreateAt \cup RemoveAt,
         work' = [work EXCEPT ![h].at = l]
  PROVE  /\ work' \in [Handler -> Batches!Work]
         /\ \A g \in Handler \ {h} : work'[g] = work[g]
         /\ work'[h].at = l /\ work'[h].b = work[h].b
BY DEF BatchTypes, Batches!Work, CreateAt, RemoveAt

LEMMA WorkEnds ==
  ASSUME BatchTypes, NEW h \in Handler, work' = [work EXCEPT ![h] = Batches!Free]
  PROVE  /\ work' \in [Handler -> Batches!Work]
         /\ \A g \in Handler \ {h} : work'[g] = work[g]
         /\ work'[h] = Batches!Free
BY DEF BatchTypes, Batches!Work, Batches!Free

LEMMA BatchStep ==
  ASSUME BatchInv, NEW h \in Handler, Batches!Step(h)
  PROVE  BatchInv'
<1>. USE BatchAssumption
<1>1. CASE Batches!CreateBatch(h)
  <2>0. PICK b \in Batch :
             /\ batch[b] = "none" /\ work[h].at = "idle"
             /\ batch' = [batch EXCEPT ![b] = "ACCEPTED"]
             /\ work' = [work EXCEPT ![h] = [at |-> "retention", b |-> b, rows |-> FALSE]]
             /\ UNCHANGED <<payload, object, bucket, answered, asked, excused, cut>>
    <3>1. PICK b : b = CHOOSE c \in Batch : batch[c] = "none"
      OBVIOUS
    <3>2. b \in Batch /\ batch[b] = "none"
      BY <1>1, <3>1 DEF Batches!CreateBatch
    <3>3. /\ batch' = [batch EXCEPT ![b] = "ACCEPTED"]
          /\ work' = [work EXCEPT ![h] = [at |-> "retention", b |-> b, rows |-> FALSE]]
      BY <1>1, <3>1 DEF Batches!CreateBatch
    <3>4. /\ work[h].at = "idle"
          /\ UNCHANGED <<payload, object, bucket, answered, asked, excused, cut>>
      BY <1>1 DEF Batches!CreateBatch, Batches!At, Batches!history
    <3>. QED BY <3>2, <3>3, <3>4
  <2>1. /\ work' \in [Handler -> Batches!Work]
        /\ \A g \in Handler \ {h} : work'[g] = work[g]
        /\ work'[h].at = "retention" /\ work'[h].b = b
    BY <2>0 DEF BatchInv, BatchTypes, Batches!Work
  <2>2. BatchTypes'
    BY <2>0, <2>1 DEF BatchInv, BatchTypes
  <2>3. WorkHeld'
    BY <2>0, <2>1 DEF BatchInv, BatchTypes, WorkHeld, RowsFit, Creating, Removing, CreateAt,
        RemoveAt,
           Batches!Free
  <2>4. RowsFit'
    BY <2>0, <2>1 DEF BatchInv, BatchTypes, WorkHeld, RowsFit, Creating, Removing, CreateAt,
        RemoveAt,
           Batches!Free
  <2>5. RemovalsUnmet'
    BY <2>0, <2>1 DEF BatchInv, BatchTypes, WorkHeld, RowsFit, RemovalsUnmet, Unmet,
           Creating, Removing, CreateAt, RemoveAt, Batches!Free, Batches!Storing
  <2>6. Batches!AnsweredIsStored'
    BY <2>0, <2>1 DEF BatchInv, BatchTypes, WorkHeld, RowsFit, Creating, Removing, CreateAt,
           RemoveAt, Batches!AnsweredIsStored
  <2>7. Batches!NothingIsLostSilently'
    BY <2>0, <2>1 DEF BatchInv, BatchTypes, WorkHeld, RowsFit, RemovalsUnmet, Unmet,
           Creating, Removing, CreateAt, RemoveAt, Batches!Free, Batches!NothingIsLostSilently
  <2>8. Batches!OrphanHasCause'
    BY <2>0, <2>1 DEF BatchInv, BatchTypes, WorkHeld, RowsFit, RemovalsUnmet, Unmet,
           Creating, Removing, CreateAt, RemoveAt, Batches!Free, Batches!OrphanHasCause
  <2>. QED BY <2>2, <2>3, <2>4, <2>5, <2>6, <2>7, <2>8 DEF BatchInv
<1>2. CASE Batches!Retention(h)
  <2>0. /\ work[h].at = "retention" /\ work' = [work EXCEPT ![h].at = "bucket"]
        /\ UNCHANGED <<batch, payload, object, bucket, answered, asked, excused, cut>>
    BY <1>2 DEF Batches!Retention, Batches!At, Batches!Goto, Batches!store, Batches!history
  <2>1. /\ work' \in [Handler -> Batches!Work]
        /\ \A g \in Handler \ {h} : work'[g] = work[g]
        /\ work'[h].at = "bucket" /\ work'[h].b = work[h].b
    BY <2>0 DEF BatchInv, BatchTypes, Batches!Work
  <2>2. BatchTypes'
    BY <2>0, <2>1 DEF BatchInv, BatchTypes
  <2>3. WorkHeld'
    BY <2>0, <2>1 DEF BatchInv, BatchTypes, WorkHeld, RowsFit, Creating, Removing, CreateAt,
        RemoveAt,
           Batches!Free
  <2>4. RowsFit'
    BY <2>0, <2>1 DEF BatchInv, BatchTypes, WorkHeld, RowsFit, Creating, Removing, CreateAt,
        RemoveAt,
           Batches!Free
  <2>5. RemovalsUnmet'
    BY <2>0, <2>1 DEF BatchInv, BatchTypes, WorkHeld, RowsFit, RemovalsUnmet, Unmet,
           Creating, Removing, CreateAt, RemoveAt, Batches!Free, Batches!Storing
  <2>6. Batches!AnsweredIsStored'
    BY <2>0, <2>1 DEF BatchInv, BatchTypes, WorkHeld, RowsFit, Creating, Removing, CreateAt,
           RemoveAt, Batches!AnsweredIsStored
  <2>7. Batches!NothingIsLostSilently'
    BY <2>0, <2>1 DEF BatchInv, BatchTypes, WorkHeld, RowsFit, RemovalsUnmet, Unmet,
           Creating, Removing, CreateAt, RemoveAt, Batches!Free, Batches!NothingIsLostSilently
  <2>8. Batches!OrphanHasCause'
    BY <2>0, <2>1 DEF BatchInv, BatchTypes, WorkHeld, RowsFit, RemovalsUnmet, Unmet,
           Creating, Removing, CreateAt, RemoveAt, Batches!Free, Batches!OrphanHasCause
  <2>. QED BY <2>2, <2>3, <2>4, <2>5, <2>6, <2>7, <2>8 DEF BatchInv
<1>3. CASE Batches!StartBucketCheck(h)
  <2>0. UNCHANGED <<batch, payload, object, work, answered, asked, excused, cut>>
    BY <1>3 DEF Batches!StartBucketCheck, Batches!store, Batches!history
  <2>1. TRUE
    OBVIOUS
  <2>2. BatchTypes'
    BY <2>0, <2>1 DEF BatchInv, BatchTypes
  <2>3. WorkHeld'
    BY <2>0, <2>1 DEF BatchInv, BatchTypes, WorkHeld, RowsFit, Creating, Removing, CreateAt,
        RemoveAt,
           Batches!Free
  <2>4. RowsFit'
    BY <2>0, <2>1 DEF BatchInv, BatchTypes, WorkHeld, RowsFit, Creating, Removing, CreateAt,
        RemoveAt,
           Batches!Free
  <2>5. RemovalsUnmet'
    BY <2>0, <2>1 DEF BatchInv, BatchTypes, WorkHeld, RowsFit, RemovalsUnmet, Unmet,
           Creating, Removing, CreateAt, RemoveAt, Batches!Free, Batches!Storing
  <2>6. Batches!AnsweredIsStored'
    BY <2>0, <2>1 DEF BatchInv, BatchTypes, WorkHeld, RowsFit, Creating, Removing, CreateAt,
           RemoveAt, Batches!AnsweredIsStored
  <2>7. Batches!NothingIsLostSilently'
    BY <2>0, <2>1 DEF BatchInv, BatchTypes, WorkHeld, RowsFit, RemovalsUnmet, Unmet,
           Creating, Removing, CreateAt, RemoveAt, Batches!Free, Batches!NothingIsLostSilently
  <2>8. Batches!OrphanHasCause'
    BY <2>0, <2>1 DEF BatchInv, BatchTypes, WorkHeld, RowsFit, RemovalsUnmet, Unmet,
           Creating, Removing, CreateAt, RemoveAt, Batches!Free, Batches!OrphanHasCause
  <2>. QED BY <2>2, <2>3, <2>4, <2>5, <2>6, <2>7, <2>8 DEF BatchInv
<1>4. CASE Batches!BucketAwaited(h)
  <2>0. /\ \/ /\ work[h].at = "bucket"
              /\ \E l \in {"put", "fail"} : work' = [work EXCEPT ![h].at = l]
           \/ work[h].at = "removeBucket" /\ work' = [work EXCEPT ![h].at = "delete"]
           \/ work[h].at = "removeBucket" /\ work' = [work EXCEPT ![h] = Batches!Free]
        /\ UNCHANGED <<batch, payload, object, bucket, answered, asked, excused, cut>>
    BY <1>4 DEF Batches!BucketAwaited, Batches!At, Batches!Goto, Batches!End, Batches!store,
        Batches!history
  <2>1. /\ work' \in [Handler -> Batches!Work]
        /\ \A g \in Handler \ {h} : work'[g] = work[g]
        /\ \/ /\ work[h].at = "bucket" /\ work'[h].b = work[h].b
              /\ work'[h].at \in {"put", "fail"}
           \/ /\ work[h].at = "removeBucket" /\ work'[h].b = work[h].b
              /\ work'[h].at = "delete"
           \/ work[h].at = "removeBucket" /\ work'[h] = Batches!Free
    BY <2>0, WorkGoes, WorkEnds DEF BatchInv, CreateAt, RemoveAt
  <2>2. BatchTypes'
    BY <2>0, <2>1 DEF BatchInv, BatchTypes
  <2>3. WorkHeld'
    BY <2>0, <2>1 DEF BatchInv, BatchTypes, WorkHeld, RowsFit, Creating, Removing, CreateAt,
        RemoveAt,
           Batches!Free
  <2>4. RowsFit'
    BY <2>0, <2>1 DEF BatchInv, BatchTypes, WorkHeld, RowsFit, Creating, Removing, CreateAt,
        RemoveAt,
           Batches!Free
  <2>5. RemovalsUnmet'
    BY <2>0, <2>1 DEF BatchInv, BatchTypes, WorkHeld, RowsFit, RemovalsUnmet, Unmet,
           Creating, Removing, CreateAt, RemoveAt, Batches!Free, Batches!Storing
  <2>6. Batches!AnsweredIsStored'
    BY <2>0, <2>1 DEF BatchInv, BatchTypes, WorkHeld, RowsFit, Creating, Removing, CreateAt,
           RemoveAt, Batches!AnsweredIsStored
  <2>7. Batches!NothingIsLostSilently'
    BY <2>0, <2>1 DEF BatchInv, BatchTypes, WorkHeld, RowsFit, RemovalsUnmet, Unmet,
           Creating, Removing, CreateAt, RemoveAt, Batches!Free, Batches!NothingIsLostSilently
  <2>8. Batches!OrphanHasCause'
    BY <2>0, <2>1 DEF BatchInv, BatchTypes, WorkHeld, RowsFit, RemovalsUnmet, Unmet,
           Creating, Removing, CreateAt, RemoveAt, Batches!Free, Batches!OrphanHasCause
  <2>. QED BY <2>2, <2>3, <2>4, <2>5, <2>6, <2>7, <2>8 DEF BatchInv
<1>5. CASE Batches!Put(h)
  <2>0. /\ work[h].at = "put"
        /\ object' \in {object, object \cup {work[h].b}}
        /\ \/ work' = [work EXCEPT ![h].at = "row"] /\ object' = object \cup {work[h].b}
           \/ work' = [work EXCEPT ![h].at = "fail"]
        /\ UNCHANGED <<batch, payload, bucket, answered, asked, excused, cut>>
    BY <1>5 DEF Batches!Put, Batches!At, Batches!Goto, Batches!history
  <2>1. /\ work' \in [Handler -> Batches!Work]
        /\ \A g \in Handler \ {h} : work'[g] = work[g]
        /\ work'[h].b = work[h].b
        /\ \/ work'[h].at = "row" /\ work[h].b \in object'
           \/ work'[h].at = "fail"
    BY <2>0 DEF BatchInv, BatchTypes, Batches!Work
  <2>2. BatchTypes'
    BY <2>0, <2>1 DEF BatchInv, BatchTypes
  <2>3. WorkHeld'
    BY <2>0, <2>1 DEF BatchInv, BatchTypes, WorkHeld, RowsFit, Creating, Removing, CreateAt,
        RemoveAt,
           Batches!Free
  <2>4. RowsFit'
    BY <2>0, <2>1 DEF BatchInv, BatchTypes, WorkHeld, RowsFit, Creating, Removing, CreateAt,
        RemoveAt,
           Batches!Free
  <2>5. RemovalsUnmet'
    BY <2>0, <2>1 DEF BatchInv, BatchTypes, WorkHeld, RowsFit, RemovalsUnmet, Unmet,
           Creating, Removing, CreateAt, RemoveAt, Batches!Free, Batches!Storing
  <2>6. Batches!AnsweredIsStored'
    BY <2>0, <2>1 DEF BatchInv, BatchTypes, WorkHeld, RowsFit, Creating, Removing, CreateAt,
           RemoveAt, Batches!AnsweredIsStored
  <2>7. Batches!NothingIsLostSilently'
    BY <2>0, <2>1 DEF BatchInv, BatchTypes, WorkHeld, RowsFit, RemovalsUnmet, Unmet,
           Creating, Removing, CreateAt, RemoveAt, Batches!Free, Batches!NothingIsLostSilently
  <2>8. Batches!OrphanHasCause'
    BY <2>0, <2>1 DEF BatchInv, BatchTypes, WorkHeld, RowsFit, RemovalsUnmet, Unmet,
           Creating, Removing, CreateAt, RemoveAt, Batches!Free, Batches!OrphanHasCause
  <2>. QED BY <2>2, <2>3, <2>4, <2>5, <2>6, <2>7, <2>8 DEF BatchInv
<1>6. CASE Batches!CreatePayload(h)
  <2>0. /\ work[h].at = "row"
        /\ \/ /\ batch[work[h].b] = "deleted" /\ work' = [work EXCEPT ![h].at = "fail"]
              /\ UNCHANGED <<payload, answered>>
           \/ /\ batch[work[h].b] # "deleted" /\ work' = [work EXCEPT ![h] = Batches!Free]
              /\ payload' = payload \cup {work[h].b} /\ answered' = answered \cup {work[h].b}
        /\ UNCHANGED <<batch, object, bucket, asked, excused, cut>>
    BY <1>6 DEF Batches!CreatePayload, Batches!At, Batches!Goto, Batches!End
  <2>1. /\ work' \in [Handler -> Batches!Work]
        /\ \A g \in Handler \ {h} : work'[g] = work[g]
        /\ \/ /\ work'[h].b = work[h].b /\ work'[h].at = "fail"
              /\ batch[work[h].b] = "deleted" /\ UNCHANGED <<payload, answered>>
           \/ /\ work'[h] = Batches!Free /\ batch[work[h].b] # "deleted"
              /\ payload' = payload \cup {work[h].b} /\ answered' = answered \cup {work[h].b}
    BY <2>0, WorkGoes, WorkEnds DEF BatchInv, CreateAt, RemoveAt
  <2>2. BatchTypes'
    BY <2>0, <2>1 DEF BatchInv, BatchTypes
  <2>3. WorkHeld'
    BY <2>0, <2>1 DEF BatchInv, BatchTypes, WorkHeld, RowsFit, Creating, Removing, CreateAt,
        RemoveAt,
           Batches!Free
  <2>4. RowsFit'
    BY <2>0, <2>1 DEF BatchInv, BatchTypes, WorkHeld, RowsFit, Creating, Removing, CreateAt,
        RemoveAt,
           Batches!Free
  <2>5. RemovalsUnmet'
    BY <2>0, <2>1 DEF BatchInv, BatchTypes, WorkHeld, RowsFit, RemovalsUnmet, Unmet,
           Creating, Removing, CreateAt, RemoveAt, Batches!Free, Batches!Storing
  <2>6. Batches!AnsweredIsStored'
    BY <2>0, <2>1 DEF BatchInv, BatchTypes, WorkHeld, RowsFit, Creating, Removing, CreateAt,
           RemoveAt, Batches!AnsweredIsStored
  <2>7. Batches!NothingIsLostSilently'
    BY <2>0, <2>1 DEF BatchInv, BatchTypes, WorkHeld, RowsFit, RemovalsUnmet, Unmet,
           Creating, Removing, CreateAt, RemoveAt, Batches!Free, Batches!NothingIsLostSilently
  <2>8. Batches!OrphanHasCause'
    BY <2>0, <2>1 DEF BatchInv, BatchTypes, WorkHeld, RowsFit, RemovalsUnmet, Unmet,
           Creating, Removing, CreateAt, RemoveAt, Batches!Free, Batches!OrphanHasCause
  <2>. QED BY <2>2, <2>3, <2>4, <2>5, <2>6, <2>7, <2>8 DEF BatchInv
<1>7. CASE Batches!MarkFailed(h)
  <2>0. /\ work[h].at = "fail" /\ work' = [work EXCEPT ![h] = Batches!Free]
        /\ batch' = [batch EXCEPT ![work[h].b] = IF @ = "deleted" THEN @ ELSE "FAILED"]
        /\ UNCHANGED <<payload, object, bucket, answered, asked, excused, cut>>
    BY <1>7 DEF Batches!MarkFailed, Batches!At, Batches!End, Batches!history
  <2>1. /\ work' \in [Handler -> Batches!Work]
        /\ \A g \in Handler \ {h} : work'[g] = work[g]
        /\ work'[h] = Batches!Free
    BY <2>0 DEF BatchInv, BatchTypes, Batches!Work, Batches!Free
  <2>2. BatchTypes'
    BY <2>0, <2>1 DEF BatchInv, BatchTypes
  <2>3. WorkHeld'
    BY <2>0, <2>1 DEF BatchInv, BatchTypes, WorkHeld, RowsFit, Creating, Removing, CreateAt,
        RemoveAt,
           Batches!Free
  <2>4. RowsFit'
    BY <2>0, <2>1 DEF BatchInv, BatchTypes, WorkHeld, RowsFit, Creating, Removing, CreateAt,
        RemoveAt,
           Batches!Free
  <2>5. RemovalsUnmet'
    BY <2>0, <2>1 DEF BatchInv, BatchTypes, WorkHeld, RowsFit, RemovalsUnmet, Unmet,
           Creating, Removing, CreateAt, RemoveAt, Batches!Free, Batches!Storing
  <2>6. Batches!AnsweredIsStored'
    BY <2>0, <2>1 DEF BatchInv, BatchTypes, WorkHeld, RowsFit, Creating, Removing, CreateAt,
           RemoveAt, Batches!AnsweredIsStored
  <2>7. Batches!NothingIsLostSilently'
    BY <2>0, <2>1 DEF BatchInv, BatchTypes, WorkHeld, RowsFit, RemovalsUnmet, Unmet,
           Creating, Removing, CreateAt, RemoveAt, Batches!Free, Batches!NothingIsLostSilently
  <2>8. Batches!OrphanHasCause'
    BY <2>0, <2>1 DEF BatchInv, BatchTypes, WorkHeld, RowsFit, RemovalsUnmet, Unmet,
           Creating, Removing, CreateAt, RemoveAt, Batches!Free, Batches!OrphanHasCause
  <2>. QED BY <2>2, <2>3, <2>4, <2>5, <2>6, <2>7, <2>8 DEF BatchInv
<1>8. CASE Batches!RemoveRead(h)
  <2>0. PICK b \in Batch, l \in {"removeBucket", "removeRows"} :
             /\ batch[b] \in {"ACCEPTED", "FAILED"} /\ work[h].at = "idle"
             /\ work' = [work EXCEPT ![h] = [at |-> l, b |-> b, rows |-> FALSE]]
             /\ l = "removeBucket" <=> b \in payload
             /\ asked' = asked \cup {b}
             /\ excused' = IF Batches!Storing(b) THEN excused \cup {b} ELSE excused
             /\ UNCHANGED <<batch, payload, object, bucket, answered, cut>>
    BY <1>8 DEF Batches!RemoveRead, Batches!At, Batches!store
  <2>1. /\ work' \in [Handler -> Batches!Work]
        /\ \A g \in Handler \ {h} : work'[g] = work[g]
        /\ work'[h].at = l /\ work'[h].b = b
    BY <2>0 DEF BatchInv, BatchTypes, Batches!Work
  <2>2. BatchTypes'
    BY <2>0, <2>1 DEF BatchInv, BatchTypes
  <2>3. WorkHeld'
    BY <2>0, <2>1, ZenonT(40)
    DEF BatchInv, BatchTypes, WorkHeld, RowsFit, Creating, Removing, CreateAt, RemoveAt,
        Batches!Free
  <2>4. RowsFit'
    BY <2>0, <2>1 DEF BatchInv, BatchTypes, WorkHeld, RowsFit, Creating, Removing, CreateAt,
        RemoveAt,
           Batches!Free
  <2>5. RemovalsUnmet'
    BY <2>0, <2>1 DEF BatchInv, BatchTypes, WorkHeld, RowsFit, RemovalsUnmet, Unmet,
           Creating, Removing, CreateAt, RemoveAt, Batches!Free, Batches!Storing
  <2>6. Batches!AnsweredIsStored'
    BY <2>0, <2>1 DEF BatchInv, BatchTypes, WorkHeld, RowsFit, Creating, Removing, CreateAt,
           RemoveAt, Batches!AnsweredIsStored
  <2>7. Batches!NothingIsLostSilently'
    BY <2>0, <2>1 DEF BatchInv, BatchTypes, WorkHeld, RowsFit, RemovalsUnmet, Unmet,
           Creating, Removing, CreateAt, RemoveAt, Batches!Free, Batches!NothingIsLostSilently
  <2>8. Batches!OrphanHasCause'
    BY <2>0, <2>1 DEF BatchInv, BatchTypes, WorkHeld, RowsFit, RemovalsUnmet, Unmet,
           Creating, Removing, CreateAt, RemoveAt, Batches!Free, Batches!OrphanHasCause
  <2>. QED BY <2>2, <2>3, <2>4, <2>5, <2>6, <2>7, <2>8 DEF BatchInv
<1>9. CASE Batches!DeleteObject(h)
  <2>0. /\ work[h].at = "delete" /\ work' = [work EXCEPT ![h].at = "removeRows"]
        /\ \/ object' = object \ {work[h].b} /\ UNCHANGED excused
           \/ object' = object /\ excused' = excused \cup {work[h].b}
        /\ UNCHANGED <<batch, payload, bucket, answered, asked, cut>>
    BY <1>9 DEF Batches!DeleteObject, Batches!At, Batches!Goto
  <2>1. /\ work' \in [Handler -> Batches!Work]
        /\ \A g \in Handler \ {h} : work'[g] = work[g]
        /\ work'[h].at = "removeRows" /\ work'[h].b = work[h].b
    BY <2>0 DEF BatchInv, BatchTypes, Batches!Work
  <2>2. BatchTypes'
    BY <2>0, <2>1 DEF BatchInv, BatchTypes
  <2>3. WorkHeld'
    BY <2>0, <2>1 DEF BatchInv, BatchTypes, WorkHeld, RowsFit, Creating, Removing, CreateAt,
        RemoveAt,
           Batches!Free
  <2>4. RowsFit'
    BY <2>0, <2>1 DEF BatchInv, BatchTypes, WorkHeld, RowsFit, Creating, Removing, CreateAt,
        RemoveAt,
           Batches!Free
  <2>5. RemovalsUnmet'
    BY <2>0, <2>1 DEF BatchInv, BatchTypes, WorkHeld, RowsFit, RemovalsUnmet, Unmet,
           Creating, Removing, CreateAt, RemoveAt, Batches!Free, Batches!Storing
  <2>6. Batches!AnsweredIsStored'
    BY <2>0, <2>1 DEF BatchInv, BatchTypes, WorkHeld, RowsFit, Creating, Removing, CreateAt,
           RemoveAt, Batches!AnsweredIsStored
  <2>7. Batches!NothingIsLostSilently'
    BY <2>0, <2>1 DEF BatchInv, BatchTypes, WorkHeld, RowsFit, RemovalsUnmet, Unmet,
           Creating, Removing, CreateAt, RemoveAt, Batches!Free, Batches!NothingIsLostSilently
  <2>8. Batches!OrphanHasCause'
    BY <2>0, <2>1 DEF BatchInv, BatchTypes, WorkHeld, RowsFit, RemovalsUnmet, Unmet,
           Creating, Removing, CreateAt, RemoveAt, Batches!Free, Batches!OrphanHasCause
  <2>. QED BY <2>2, <2>3, <2>4, <2>5, <2>6, <2>7, <2>8 DEF BatchInv
<1>10. CASE Batches!RemoveRows(h)
  <2>0. /\ work[h].at = "removeRows"
        /\ \E r \in BOOLEAN :
             work' = [work EXCEPT ![h] = [at |-> "removeBatch", b |-> work[h].b, rows |-> r]]
        /\ UNCHANGED <<batch, payload, object, bucket, answered, asked, excused, cut>>
    <3> DEFINE r == work[h].b \in payload
    <3>1. /\ work[h].at = "removeRows"
          /\ work' = [work EXCEPT ![h] = [at |-> "removeBatch", b |-> work[h].b, rows |-> r]]
          /\ UNCHANGED <<batch, payload, object, bucket, answered, asked, excused, cut>>
      BY <1>10 DEF Batches!RemoveRows, Batches!At, Batches!store, Batches!history
    <3>2. r \in BOOLEAN
      OBVIOUS
    <3> HIDE DEF r
    <3>. QED BY <3>1, <3>2
  <2>1. /\ work' \in [Handler -> Batches!Work]
        /\ \A g \in Handler \ {h} : work'[g] = work[g]
        /\ work'[h].at = "removeBatch" /\ work'[h].b = work[h].b
    BY <2>0 DEF BatchInv, BatchTypes, Batches!Work
  <2>2. BatchTypes'
    BY <2>0, <2>1 DEF BatchInv, BatchTypes
  <2>3. WorkHeld'
    BY <2>0, <2>1 DEF BatchInv, BatchTypes, WorkHeld, RowsFit, Creating, Removing, CreateAt,
        RemoveAt,
           Batches!Free
  <2>4. RowsFit'
    BY <2>0, <2>1 DEF BatchInv, BatchTypes, WorkHeld, RowsFit, Creating, Removing, CreateAt,
        RemoveAt,
           Batches!Free
  <2>5. RemovalsUnmet'
    BY <2>0, <2>1 DEF BatchInv, BatchTypes, WorkHeld, RowsFit, RemovalsUnmet, Unmet,
           Creating, Removing, CreateAt, RemoveAt, Batches!Free, Batches!Storing
  <2>6. Batches!AnsweredIsStored'
    BY <2>0, <2>1 DEF BatchInv, BatchTypes, WorkHeld, RowsFit, Creating, Removing, CreateAt,
           RemoveAt, Batches!AnsweredIsStored
  <2>7. Batches!NothingIsLostSilently'
    BY <2>0, <2>1 DEF BatchInv, BatchTypes, WorkHeld, RowsFit, RemovalsUnmet, Unmet,
           Creating, Removing, CreateAt, RemoveAt, Batches!Free, Batches!NothingIsLostSilently
  <2>8. Batches!OrphanHasCause'
    BY <2>0, <2>1 DEF BatchInv, BatchTypes, WorkHeld, RowsFit, RemovalsUnmet, Unmet,
           Creating, Removing, CreateAt, RemoveAt, Batches!Free, Batches!OrphanHasCause
  <2>. QED BY <2>2, <2>3, <2>4, <2>5, <2>6, <2>7, <2>8 DEF BatchInv
<1>11. CASE Batches!RemoveBatch(h)
  <2>0. /\ work[h].at = "removeBatch" /\ work' = [work EXCEPT ![h] = Batches!Free]
        /\ \/ /\ batch[work[h].b] = "deleted" \/ work[h].b \in payload
              /\ UNCHANGED <<batch, payload>>
           \/ /\ batch' = [batch EXCEPT ![work[h].b] = "deleted"]
              /\ payload' = payload \ {work[h].b}
        /\ UNCHANGED <<object, bucket, answered, asked, excused, cut>>
    BY <1>11 DEF Batches!RemoveBatch, Batches!At, Batches!End, Batches!history
  <2>1. /\ work' \in [Handler -> Batches!Work]
        /\ \A g \in Handler \ {h} : work'[g] = work[g]
        /\ work'[h] = Batches!Free
    BY <2>0 DEF BatchInv, BatchTypes, Batches!Work, Batches!Free
  <2>2. BatchTypes'
    BY <2>0, <2>1 DEF BatchInv, BatchTypes
  <2>3. WorkHeld'
    BY <2>0, <2>1 DEF BatchInv, BatchTypes, WorkHeld, RowsFit, Creating, Removing, CreateAt,
        RemoveAt,
           Batches!Free
  <2>4. RowsFit'
    BY <2>0, <2>1 DEF BatchInv, BatchTypes, WorkHeld, RowsFit, Creating, Removing, CreateAt,
        RemoveAt,
           Batches!Free
  <2>5. RemovalsUnmet'
    BY <2>0, <2>1 DEF BatchInv, BatchTypes, WorkHeld, RowsFit, RemovalsUnmet, Unmet,
           Creating, Removing, CreateAt, RemoveAt, Batches!Free, Batches!Storing
  <2>6. Batches!AnsweredIsStored'
    BY <2>0, <2>1 DEF BatchInv, BatchTypes, WorkHeld, RowsFit, Creating, Removing, CreateAt,
           RemoveAt, Batches!AnsweredIsStored
  <2>7. Batches!NothingIsLostSilently'
    BY <2>0, <2>1 DEF BatchInv, BatchTypes, WorkHeld, RowsFit, RemovalsUnmet, Unmet,
           Creating, Removing, CreateAt, RemoveAt, Batches!Free, Batches!NothingIsLostSilently
  <2>8. Batches!OrphanHasCause'
    BY <2>0, <2>1 DEF BatchInv, BatchTypes, WorkHeld, RowsFit, RemovalsUnmet, Unmet,
           Creating, Removing, CreateAt, RemoveAt, Batches!Free, Batches!OrphanHasCause
  <2>. QED BY <2>2, <2>3, <2>4, <2>5, <2>6, <2>7, <2>8 DEF BatchInv
<1>. QED BY <1>1, <1>2, <1>3, <1>4, <1>5, <1>6, <1>7, <1>8, <1>9, <1>10, <1>11
         DEF Batches!Step

LEMMA BatchNext == BatchInv /\ [Batches!Next]_batchVars => BatchInv'
<1> SUFFICES ASSUME BatchInv, [Batches!Next]_batchVars PROVE BatchInv'
  OBVIOUS
<1>. USE DEF BatchInv, BatchTypes, WorkHeld, RowsFit, RemovalsUnmet, Unmet, Creating, Removing,
             CreateAt, RemoveAt, Batches!Storing, Batches!AnsweredIsStored,
             Batches!NothingIsLostSilently, Batches!OrphanHasCause
<1>1. ASSUME NEW h \in Handler, Batches!Step(h) PROVE BatchInv'
  BY <1>1, BatchStep
<1>2. CASE UNCHANGED <<batch, payload, object, work, answered, asked, excused, cut>>
  BY <1>2
<1>3. CASE Batches!Death
  <2>1. /\ work' = [h \in Handler |-> Batches!Free]
        /\ cut' = cut \cup {b \in Batch : \E h \in Handler : work[h].b = b}
        /\ UNCHANGED <<batch, payload, object, answered, asked, excused>>
    BY <1>3 DEF Batches!Death, Batches!store
  <2>2. /\ work' \in [Handler -> Batches!Work]
        /\ \A h \in Handler : work'[h] = Batches!Free /\ work'[h].at = "idle"
    BY <2>1 DEF Batches!Work, Batches!Free
  <2>3. BatchTypes' /\ WorkHeld' /\ RowsFit' /\ RemovalsUnmet'
    BY <2>1, <2>2
  <2>4. /\ Batches!AnsweredIsStored' /\ Batches!NothingIsLostSilently'
        /\ Batches!OrphanHasCause'
    BY <2>1
  <2>. QED BY <2>3, <2>4
<1>4. CASE Batches!BucketChecked \/ Batches!Quiet \/ UNCHANGED batchVars
  BY <1>2, <1>4 DEF Batches!BucketChecked, Batches!Quiet, Batches!vars, Batches!store,
                    Batches!history, batchVars
<1>. QED BY <1>1, <1>3, <1>4 DEF Batches!Next

LEMMA BatchInvariant == ApiSpec => [](part = "batches" => BatchInv)
<1>1. ApiInit => (part = "batches" => BatchInv)
  BY BatchesInit
<1>2. (part = "batches" => BatchInv) /\ [ApiNext]_apiVars => (part = "batches" => BatchInv)'
  BY PartStays, BatchesMove, BatchNext
<1>. QED BY <1>1, <1>2, PTL DEF ApiSpec

\* What createBatch has answered for stays stored, batch, row and object, until
\* somebody asks to remove it, whatever S3 fails and whenever the process dies.
THEOREM AnswersAreStored == ApiSpec => []AnsweredIsStored
<1>1. (part = "batches" => BatchInv) => AnsweredIsStored
  BY DEF AnsweredIsStored, BatchInv
<1>. QED BY <1>1, BatchInvariant, PTL

\* A batch without a payload and an object without a batch have the causes that
\* createBatch and removeForOrganization admit, and no other.
THEOREM LeftoversAreExplained == ApiSpec => []LeftoversHaveCause
<1>1. (part = "batches" => BatchInv) => LeftoversHaveCause
  BY DEF LeftoversHaveCause, BatchInv
<1>. QED BY <1>1, BatchInvariant, PTL

-----------------------------------------------------------------------------
(* The worker's start-up.                                                  *)

\* Which connections a clean-up that has come to label l has closed.
ClosedBefore(l) ==
  /\ l = "worker" => "queueEvents" \notin open
  /\ l = "queue" => open \subseteq {"queue"}

RunnerInv ==
  /\ held \in {{}, Runner!Resource} /\ open \subseteq Runner!Resource
  /\ boot \in {"new", "workerReady", "eventsReady", "job", "done"} \cup Runner!Resource
  /\ down \in {"no", "done"} \cup Runner!Resource
  /\ boot = "new" => down = "no" /\ held = {}
  /\ boot \in Runner!Resource => connectionState = "degraded"
  /\ boot \in {"new", "workerReady", "eventsReady", "job"} => connectionState # "degraded"
  /\ refused = {} =>
       /\ held = {} => open = {}
       /\ ClosedBefore(boot) /\ ClosedBefore(down)
       /\ down = "done" => held = {}
       /\ boot = "done" /\ connectionState = "degraded" => held = {}

LEMMA RunnerNext == RunnerInv /\ [Runner!Next]_queueVars => RunnerInv'
<1> SUFFICES ASSUME RunnerInv, [Runner!Next]_queueVars PROVE RunnerInv'
  OBVIOUS
<1>. USE DEF RunnerInv, ClosedBefore, Runner!Resource, Runner!Degrade, Runner!After
<1>1. CASE Runner!Open
  BY <1>1 DEF Runner!Open
<1>2. CASE Runner!WorkerReady
  BY <1>2 DEF Runner!WorkerReady
<1>3. CASE Runner!EventsReady
  BY <1>3 DEF Runner!EventsReady
<1>4. CASE Runner!EnsureBootstrapJob
  BY <1>4 DEF Runner!EnsureBootstrapJob
<1>5. CASE Runner!BootCloses
  <2>1. CASE Runner!Closed(boot) /\ boot' = Runner!After[boot]
    <3>1. CASE boot = "queueEvents"
      BY <1>5, <2>1, <3>1 DEF Runner!BootCloses, Runner!Closed
    <3>2. CASE boot = "worker"
      BY <1>5, <2>1, <3>2 DEF Runner!BootCloses, Runner!Closed
    <3>3. CASE boot = "queue"
      BY <1>5, <2>1, <3>3 DEF Runner!BootCloses, Runner!Closed
    <3>. QED BY <1>5, <3>1, <3>2, <3>3 DEF Runner!BootCloses
  <2>2. CASE Runner!CloseThrows(boot) /\ boot' = "done"
    BY <1>5, <2>2 DEF Runner!BootCloses, Runner!CloseThrows
  <2>. QED BY <1>5, <2>1, <2>2 DEF Runner!BootCloses
<1>6. CASE Runner!Shutdown
  BY <1>6 DEF Runner!Shutdown
<1>7. CASE Runner!ShutdownCloses
  <2>1. CASE Runner!Closed(down) /\ down' = Runner!After[down]
    <3>1. CASE down = "queueEvents"
      BY <1>7, <2>1, <3>1 DEF Runner!ShutdownCloses, Runner!Closed
    <3>2. CASE down = "worker"
      BY <1>7, <2>1, <3>2 DEF Runner!ShutdownCloses, Runner!Closed
    <3>3. CASE down = "queue"
      BY <1>7, <2>1, <3>3 DEF Runner!ShutdownCloses, Runner!Closed
    <3>. QED BY <1>7, <3>1, <3>2, <3>3 DEF Runner!ShutdownCloses
  <2>2. CASE Runner!CloseThrows(down) /\ down' = "done"
    BY <1>7, <2>2 DEF Runner!ShutdownCloses, Runner!CloseThrows
  <2>. QED BY <1>7, <2>1, <2>2 DEF Runner!ShutdownCloses
<1>8. CASE Runner!Quiet \/ UNCHANGED queueVars
  BY <1>8 DEF Runner!Quiet, Runner!vars, queueVars
<1>. QED BY <1>1, <1>2, <1>3, <1>4, <1>5, <1>6, <1>7, <1>8 DEF Runner!Next

\* A start-up that ended degraded holds no connection open, though the shutdown
\* hook closed some beside it, unless a close failed (cleanupQueueResources).
THEOREM DegradedRunnersAreClosed == ApiSpec => []DegradedHoldsNothing
<1>1. ApiInit => (part = "queue" => RunnerInv)
  BY DEF ApiInit, Runner!Init, RunnerInv, ClosedBefore, Runner!Resource
<1>2. part = "queue" /\ [ApiNext]_apiVars => [Runner!Next]_queueVars
  BY DEF ApiNext, Rest, apiVars
<1>3. (part = "queue" => RunnerInv) /\ [ApiNext]_apiVars => (part = "queue" => RunnerInv)'
  BY <1>2, PartStays, RunnerNext
<1>4. (part = "queue" => RunnerInv) => DegradedHoldsNothing
  BY DEF RunnerInv, DegradedHoldsNothing, Runner!DegradedHoldsNothing
<1>. QED BY <1>1, <1>3, <1>4, PTL DEF ApiSpec

-----------------------------------------------------------------------------
(* The seeding of fees.                                                    *)

Seeding == seed.at \in {"gratis", "entry", "update"}
Row(r) == r = [key |-> r.key, fee |-> r.fee, gratis |-> r.gratis]

\* The table, the process that seeds and what it has read have their shapes.
FeesShaped ==
  /\ fees = [i \in Handler |-> fees[i]]
  /\ \A i \in Handler : fees[i] # Fees!None => Row(fees[i])
  /\ seed = [at |-> seed.at, i |-> seed.i, read |-> seed.read]
  /\ seed.at \in {"dead", "plans", "gratis", "entry", "update"}
  /\ Seeding =>
       /\ seed.i \in Nat \ {0}
       /\ seed.at # "gratis" => seed.i <= Len(Entries)
       /\ seed.at = "update" => ~Fees!BucketExists
       /\ \A i \in Handler : seed.read[i] # Fees!None => Row(seed.read[i])

\* What the seeding may have made of the row that it has read.
AsRead(i) ==
  /\ seed.read[i] # Fees!None
  /\ \/ fees[i] = seed.read[i]
     \/ seed.read[i].gratis = "zero" /\ fees[i] = [seed.read[i] EXCEPT !.gratis = "seed"]

\* A row that this seeding has created, of an entry before its present one.
Seeded(i) ==
  /\ fees[i].gratis \in {"zero", "seed"}
  /\ \E k \in 1..Len(Entries) : k < seed.i /\ fees[i].key = Entries[k].key

FeeInv ==
  /\ FeesShaped
  /\ Seeding => \A i \in Handler :
                  fees[i] # Fees!None /\ i \notin touched => AsRead(i) \/ Seeded(i)

LEMMA FeesInit == ApiInit => FeeInv
BY DEF ApiInit, Fees!Init, Fees!Dead, FeeInv, FeesShaped, Seeding

LEMMA FeesMove == [ApiNext]_apiVars => [Fees!Next]_catalogVars
BY DEF ApiNext, Rest, apiVars

\* What a request of an admin leaves of the seeding's view.
LEMMA AdminStep ==
  ASSUME FeeInv, UNCHANGED seed,
         fees' = [i \in Handler |-> fees'[i]],
         \A i \in Handler : \/ fees'[i] = fees[i]
                            \/ fees'[i] = Fees!None
                            \/ Row(fees'[i]) /\ (Seeding => i \in touched'),
         \A i \in Handler : i \in touched /\ fees'[i] # Fees!None => i \in touched'
  PROVE  FeeInv'
<1>1. Fees!BucketExists' <=> Fees!BucketExists
  BY DEF Fees!BucketExists, Fees!Rows, Fees!Entry
<1>2. FeesShaped'
  BY <1>1 DEF FeeInv, FeesShaped, Seeding
<1>3. Seeding => \A i \in Handler :
                   fees'[i] # Fees!None /\ i \notin touched' => AsRead(i)' \/ Seeded(i)'
  BY DEF FeeInv, Seeding, AsRead, Seeded
<1>. QED BY <1>2, <1>3 DEF FeeInv, Seeding

\* The two writes of the seeding.
WritesGratis(i) ==
  /\ seed.read[i] # Fees!None /\ seed.read[i].gratis = "zero" /\ fees[i] # Fees!None
  /\ fees' = [fees EXCEPT ![i].gratis = "seed"]
WritesFee(i) ==
  /\ seed.at \in {"entry", "update"} /\ ~Fees!BucketExists
  /\ fees[i] # Fees!None => fees[i].key = Entries[seed.i].key
  /\ \E gratis \in {"zero", "seed"} :
       fees' = [fees EXCEPT ![i] = [key |-> Entries[seed.i].key, fee |-> "seed",
                                    gratis |-> gratis]]

LEMMA GratisWrites ==
  ASSUME FeeInv, Fees!SeedGratis
  PROVE  /\ seed.at = "gratis" /\ seed.i <= Len(Entries)
         /\ \/ /\ seed'.at = "entry" /\ seed'.i = seed.i /\ seed'.read = seed.read
               /\ seed' = [at |-> seed'.at, i |-> seed'.i, read |-> seed'.read]
               /\ touched' = touched
               /\ UNCHANGED fees \/ \E i \in Handler : WritesGratis(i)
            \/ seed' = Fees!Dead /\ UNCHANGED fees
<1> DEFINE ToEntry == seed' = [seed EXCEPT !.at = "entry"]
<1>1. seed.at = "gratis" /\ seed.i <= Len(Entries)
  BY DEF Fees!SeedGratis
<1>2. CASE ToEntry
  <2>1. /\ seed'.at = "entry" /\ seed'.i = seed.i /\ seed'.read = seed.read
        /\ seed' = [at |-> seed'.at, i |-> seed'.i, read |-> seed'.read]
    BY <1>2 DEF FeeInv, FeesShaped
  <2>2. touched' = touched
    BY <2>1 DEF Fees!SeedGratis, Fees!SeedGoes, Fees!Dead
  <2>3. UNCHANGED fees \/ \E i \in Handler : WritesGratis(i)
    BY <2>1 DEF Fees!SeedGratis, Fees!Dead, Fees!Existing, Fees!Rows, WritesGratis
  <2>. QED BY <1>1, <2>1, <2>2, <2>3
<1>3. ToEntry \/ (seed' = Fees!Dead /\ UNCHANGED fees)
  <2> DEFINE Left(i) == seed.read[i].gratis # "zero" \/ ~Fees!Entry.gratis
  <2>1. CASE Fees!Existing = {} /\ ToEntry
    BY <2>1
  <2>2. ASSUME NEW i \in Fees!Existing,
               /\ Left(i) => ToEntry
               /\ ~Left(i) /\ fees[i] = Fees!None => seed' = Fees!Dead /\ UNCHANGED fees
               /\ ~Left(i) /\ fees[i] # Fees!None => ToEntry
        PROVE  ToEntry \/ (seed' = Fees!Dead /\ UNCHANGED fees)
    <3> HIDE DEF ToEntry, Left
    <3>. QED BY <2>2
  <2>. QED BY <2>1, <2>2 DEF Fees!SeedGratis
<1>. QED BY <1>1, <1>2, <1>3

LEMMA FeeWrites ==
  ASSUME FeeInv, Fees!SeedFee \/ Fees!SeedUpdate
  PROVE  /\ seed.at \in {"entry", "update"}
         /\ UNCHANGED fees \/ \E i \in Handler : WritesFee(i)
         /\ \/ /\ seed'.at = "gratis" /\ seed'.i = seed.i + 1 /\ seed'.read = seed.read
               /\ seed' = [at |-> seed'.at, i |-> seed'.i, read |-> seed'.read]
               /\ touched' = touched
            \/ /\ seed.at = "entry" /\ ~Fees!BucketExists /\ UNCHANGED fees
               /\ seed' = [seed EXCEPT !.at = "update"] /\ touched' = touched
            \/ seed' = Fees!Dead
<1>1. seed.at \in {"entry", "update"} /\ (seed.at = "update" => ~Fees!BucketExists)
  BY DEF Fees!SeedFee, Fees!SeedUpdate, FeeInv, FeesShaped, Seeding
<1>2. UNCHANGED fees \/ \E i \in Handler : WritesFee(i)
  <2>1. ASSUME NEW i \in Handler, fees[i] = Fees!None \/ Fees!Holds(i), ~Fees!BucketExists,
               fees' = [fees EXCEPT ![i] = Fees!Upserted]
        PROVE  WritesFee(i)
    BY <1>1, <2>1 DEF Fees!Holds, Fees!Upserted, Fees!Entry, WritesFee
  <2>. QED BY <1>1, <2>1 DEF Fees!SeedFee, Fees!SeedUpdate
<1>3. CASE seed' = [seed EXCEPT !.at = "gratis", !.i = @ + 1]
  <2>1. /\ seed'.at = "gratis" /\ seed'.i = seed.i + 1 /\ seed'.read = seed.read
        /\ seed' = [at |-> seed'.at, i |-> seed'.i, read |-> seed'.read]
    BY <1>3 DEF FeeInv, FeesShaped
  <2>2. touched' = touched
    BY <2>1 DEF Fees!SeedFee, Fees!SeedUpdate, Fees!SeedGoes, Fees!Dead
  <2>. QED BY <1>1, <1>2, <2>1, <2>2
<1>4. CASE seed' = [seed EXCEPT !.at = "update"] /\ ~Fees!SeedOn
  <2>1. seed.at = "entry" /\ ~Fees!BucketExists /\ UNCHANGED fees
    BY <1>4 DEF Fees!SeedFee, Fees!SeedUpdate
  <2>2. seed'.at = "update"
    BY <1>4 DEF FeeInv, FeesShaped
  <2>3. touched' = touched
    BY <2>2 DEF Fees!SeedFee, Fees!SeedUpdate, Fees!SeedGoes, Fees!Dead
  <2>. QED BY <1>1, <1>2, <1>4, <2>1, <2>3
<1>5. \/ Fees!SeedOn
      \/ seed' = [seed EXCEPT !.at = "update"] /\ ~Fees!SeedOn
  BY DEF Fees!SeedFee, Fees!SeedUpdate
<1>6. Fees!SeedOn => \/ seed' = [seed EXCEPT !.at = "gratis", !.i = @ + 1]
                     \/ seed' = Fees!Dead
  BY DEF Fees!SeedOn
<1>7. CASE seed' = Fees!Dead
  BY <1>1, <1>2, <1>7
<1>. QED BY <1>3, <1>4, <1>5, <1>6, <1>7

\* The seeding creates the row of an entry; it writes over none that it has seen
\* or created.
LEMMA FeeOverwritesTouched ==
  ASSUME FeeInv, NEW i \in Handler, WritesFee(i), fees[i] # Fees!None
  PROVE  i \in touched
<1> SUFFICES ASSUME i \notin touched PROVE FALSE
  OBVIOUS
<1>1. fees[i].key = Entries[seed.i].key /\ ~Fees!BucketExists /\ Seeding
  BY DEF WritesFee, Seeding
<1>2. AsRead(i) \/ Seeded(i)
  BY <1>1 DEF FeeInv
<1>3. CASE AsRead(i)
  <2>1. seed.read[i] # Fees!None /\ Row(seed.read[i])
    BY <1>1, <1>3 DEF AsRead, FeeInv, FeesShaped
  <2>2. seed.read[i].key = fees[i].key
    BY <1>3, <2>1 DEF AsRead, Row
  <2>3. Fees!BucketExists
    BY <1>1, <2>1, <2>2 DEF Fees!BucketExists, Fees!Rows, Fees!Entry
  <2>. QED BY <1>1, <2>3
<1>4. CASE Seeded(i)
  <2>1. PICK k \in 1..Len(Entries) : k < seed.i /\ fees[i].key = Entries[k].key
    BY <1>4 DEF Seeded
  <2>2. seed.i \in 1..Len(Entries)
    BY <1>1, EntriesAssumption DEF FeeInv, FeesShaped, WritesFee
  <2>3. k = seed.i
    BY <1>1, <2>1, <2>2, EntriesAssumption
  <2>. QED BY <2>1, <2>2, <2>3
<1>. QED BY <1>2, <1>3, <1>4

LEMMA FeesNext == FeeInv /\ [Fees!Next]_catalogVars => FeeInv'
<1> SUFFICES ASSUME FeeInv, [Fees!Next]_catalogVars PROVE FeeInv'
  OBVIOUS
<1>1. ASSUME NEW i \in Handler, Fees!CreateFee(i) PROVE FeeInv'
  BY <1>1, AdminStep DEF FeeInv, FeesShaped, Fees!CreateFee, Fees!Touch, Seeding, Row,
      Fees!AdminUnchanged
<1>2. ASSUME NEW t \in Slot, Fees!FindFee(t) PROVE FeeInv'
  BY <1>2, AdminStep DEF FeeInv, FeesShaped, Fees!FindFee, Fees!AdminUnchanged
<1>3. ASSUME NEW t \in Slot, Fees!UpdateFee(t) PROVE FeeInv'
  BY <1>3, AdminStep DEF FeeInv, FeesShaped, Fees!UpdateFee, Fees!Touch, Seeding, Row,
      Fees!AdminUnchanged
<1>4. ASSUME NEW t \in Slot, Fees!RemoveFee(t) PROVE FeeInv'
  BY <1>4, AdminStep DEF FeeInv, FeesShaped, Fees!RemoveFee, Fees!AdminUnchanged
<1>5. CASE Fees!Deploy
  BY <1>5 DEF Fees!Deploy, Fees!Dead, FeeInv, FeesShaped, Seeding
<1>6. CASE Fees!ReadFees
  BY <1>6 DEF Fees!ReadFees, FeeInv, FeesShaped, Seeding, AsRead
<1>7. CASE Fees!SeedGratis
  <2>1. CASE seed' = Fees!Dead /\ UNCHANGED fees
    BY <2>1 DEF FeeInv, FeesShaped, Fees!Dead, Seeding
  <2>2. CASE UNCHANGED fees /\ seed'.at = "entry"
    BY <1>7, <2>2, GratisWrites DEF FeeInv, FeesShaped, Seeding, AsRead, Seeded, Fees!Dead
  <2>3. ASSUME NEW i \in Handler, WritesGratis(i), seed'.at = "entry" PROVE FeeInv'
    <3>1. Row(fees[i]) /\ Row(seed.read[i]) /\ Seeding
      BY <1>7, <2>3, GratisWrites DEF WritesGratis, FeeInv, FeesShaped, Seeding
    <3>2. /\ fees' = [j \in Handler |-> fees'[j]]
          /\ fees'[i] = [fees[i] EXCEPT !.gratis = "seed"]
          /\ \A j \in Handler \ {i} : fees'[j] = fees[j]
      BY <2>3 DEF WritesGratis, FeeInv, FeesShaped
    <3>3. Row(fees'[i]) /\ fees'[i].gratis = "seed" /\ fees'[i].key = fees[i].key
      BY <3>1, <3>2 DEF Row
    <3>4. FeesShaped'
      BY <1>7, <2>3, <3>2, <3>3, GratisWrites DEF FeeInv, FeesShaped, Seeding, Fees!Dead
    <3>5. ASSUME i \notin touched PROVE AsRead(i)' \/ Seeded(i)'
      <4>1. AsRead(i) \/ Seeded(i)
        BY <2>3, <3>1, <3>5 DEF FeeInv, WritesGratis
      <4>2. CASE AsRead(i)
        <5>1. fees'[i] = [seed.read[i] EXCEPT !.gratis = "seed"]
          BY <3>1, <3>2, <4>2 DEF AsRead, Row
        <5>. QED BY <1>7, <2>3, <5>1, GratisWrites DEF AsRead, WritesGratis, Fees!Dead
      <4>3. CASE Seeded(i)
        BY <1>7, <2>3, <3>3, <4>3, GratisWrites DEF Seeded, Fees!Dead
      <4>. QED BY <4>1, <4>2, <4>3
    <3>6. ASSUME NEW j \in Handler \ {i}, fees[j] # Fees!None, j \notin touched
          PROVE  AsRead(j)' \/ Seeded(j)'
      <4>1. /\ fees'[j] = fees[j] /\ seed'.read = seed.read /\ seed'.i = seed.i
        BY <1>7, <2>3, <3>2, GratisWrites DEF Fees!Dead
      <4>2. AsRead(j) \/ Seeded(j)
        BY <3>1, <3>6 DEF FeeInv
      <4>. QED BY <4>1, <4>2 DEF AsRead, Seeded
    <3>7. touched' = touched
      BY <1>7, <2>3, GratisWrites DEF Fees!Dead
    <3>. QED BY <3>2, <3>4, <3>5, <3>6, <3>7 DEF FeeInv
  <2>. QED BY <1>7, <2>1, <2>2, <2>3, GratisWrites
<1>8. CASE Fees!SeedFee \/ Fees!SeedUpdate
  <2>1. fees' = [i \in Handler |-> fees'[i]]
        /\ \A i \in Handler : fees'[i] # Fees!None => Row(fees'[i])
    <3>1. CASE UNCHANGED fees
      BY <3>1 DEF FeeInv, FeesShaped
    <3>2. ASSUME NEW i \in Handler, WritesFee(i)
          PROVE  /\ fees' = [j \in Handler |-> fees'[j]]
                 /\ \A j \in Handler : fees'[j] # Fees!None => Row(fees'[j])
      BY <3>2 DEF FeeInv, FeesShaped, WritesFee, Row
    <3>. QED BY <1>8, <3>1, <3>2, FeeWrites
  <2>2. CASE seed' = Fees!Dead
    BY <2>1, <2>2 DEF FeeInv, FeesShaped, Fees!Dead, Seeding
  <2>3. CASE seed'.at = "gratis"
    <3>1. /\ seed'.i = seed.i + 1 /\ seed'.read = seed.read /\ touched' = touched
          /\ seed' = [at |-> seed'.at, i |-> seed'.i, read |-> seed'.read]
          /\ Seeding /\ seed.i <= Len(Entries)
      BY <1>8, <2>3, FeeWrites DEF Fees!Dead, FeeInv, FeesShaped, Seeding
    <3>2. FeesShaped'
      BY <2>1, <2>3, <3>1 DEF FeeInv, FeesShaped, Seeding
    <3>3. ASSUME NEW i \in Handler, fees'[i] = fees[i], fees[i] # Fees!None, i \notin touched
          PROVE  AsRead(i)' \/ Seeded(i)'
      BY <3>1, <3>3 DEF FeeInv, FeesShaped, Seeding, AsRead, Seeded
    <3>4. ASSUME NEW i \in Handler, WritesFee(i), i \notin touched PROVE Seeded(i)'
      BY <3>1, <3>4, EntriesAssumption, SMTT(30)
         DEF FeeInv, FeesShaped, Seeding, WritesFee, Seeded
    <3>5. ASSUME NEW i \in Handler, WritesFee(i), NEW j \in Handler \ {i}
          PROVE  fees'[j] = fees[j]
      BY <3>5 DEF FeeInv, FeesShaped, WritesFee
    <3>. QED BY <1>8, <3>1, <3>2, <3>3, <3>4, <3>5, FeeWrites DEF FeeInv
  <2>4. CASE /\ seed.at = "entry" /\ ~Fees!BucketExists /\ UNCHANGED fees
             /\ seed' = [seed EXCEPT !.at = "update"] /\ touched' = touched
    <3>1. /\ seed'.at = "update" /\ seed'.i = seed.i /\ seed'.read = seed.read
          /\ seed' = [at |-> seed'.at, i |-> seed'.i, read |-> seed'.read]
      BY <2>4 DEF FeeInv, FeesShaped
    <3>2. ~Fees!BucketExists'
      BY <2>4, <3>1 DEF Fees!BucketExists, Fees!Rows, Fees!Entry
    <3>. QED BY <2>1, <2>4, <3>1, <3>2 DEF FeeInv, FeesShaped, Seeding, AsRead, Seeded
  <2>. QED BY <1>8, <2>2, <2>3, <2>4, FeeWrites
<1>9. CASE Fees!SeedDies
  BY <1>9 DEF Fees!SeedDies, Fees!Dead, FeeInv, FeesShaped, Seeding
<1>10. CASE UNCHANGED catalogVars
  <2>1. UNCHANGED <<fees, seed, touched>> /\ (Fees!BucketExists' <=> Fees!BucketExists)
    BY <1>10 DEF catalogVars, Fees!BucketExists, Fees!Rows, Fees!Entry
  <2>. QED BY <2>1 DEF FeeInv, FeesShaped, Seeding, AsRead, Seeded
<1>. QED BY <1>1, <1>2, <1>3, <1>4, <1>5, <1>6, <1>7, <1>8, <1>9, <1>10 DEF Fees!Next

LEMMA SeedingKeepsEdits ==
  ASSUME FeeInv, Fees!Next, NEW i \in Handler, fees[i] # Fees!None,
         seed' # seed, fees'[i] # fees[i], i \notin touched
  PROVE  fees[i].gratis = "zero" /\ fees'[i] = [fees[i] EXCEPT !.gratis = "seed"]
<1>1. Fees!SeedGratis \/ Fees!SeedFee \/ Fees!SeedUpdate
  BY DEF Fees!Next, Fees!CreateFee, Fees!FindFee, Fees!UpdateFee, Fees!RemoveFee,
         Fees!AdminUnchanged, Fees!Deploy, Fees!ReadFees, Fees!SeedDies
<1>2. CASE Fees!SeedGratis
  <2>1. WritesGratis(i) /\ Seeding
    BY <1>2, GratisWrites DEF WritesGratis, FeeInv, FeesShaped, Seeding
  <2>2. fees'[i] = [fees[i] EXCEPT !.gratis = "seed"] /\ Row(fees[i])
    BY <2>1 DEF WritesGratis, FeeInv, FeesShaped
  <2>3. AsRead(i) \/ Seeded(i)
    BY <2>1 DEF FeeInv
  <2>4. fees[i].gratis # "seed"
    BY <2>2 DEF Row
  <2>5. Row(seed.read[i])
    BY <2>1 DEF WritesGratis, FeeInv, FeesShaped
  <2>6. fees[i].gratis = "zero"
    BY <2>1, <2>3, <2>4, <2>5 DEF AsRead, Seeded, WritesGratis, Row
  <2>. QED BY <2>2, <2>6
<1>3. CASE Fees!SeedFee \/ Fees!SeedUpdate
  <2>1. WritesFee(i)
    BY <1>3, FeeWrites DEF WritesFee, FeeInv, FeesShaped
  <2>. QED BY <2>1, FeeOverwritesTouched
<1>. QED BY <1>1, <1>2, <1>3

\* However deploys and admins cross, and wherever a deploy dies, seeding changes a
\* fee that it has read or made only by giving it the surcharges it has not
\* (seedShopeeCategoryFees, upsertMarketplaceCategoryFee).
THEOREM SeedingKeepsWhatAdminsWrote == ApiSpec => DeploysKeepEdits
<1> DEFINE EditsKept == \A i \in Fees!Rows(fees) :
                          seed' # seed /\ fees'[i] # fees[i] /\ i \notin touched =>
                            fees[i].gratis = "zero" /\ fees'[i] = [fees[i] EXCEPT !.gratis = "seed"]
<1>1. ApiSpec => []FeeInv
  BY FeesInit, FeesMove, FeesNext, PTL DEF ApiSpec
<1>2. FeeInv /\ [ApiNext]_apiVars => [EditsKept]_catalogVars
  <2> SUFFICES ASSUME FeeInv, Fees!Next PROVE EditsKept
    BY FeesMove DEF catalogVars
  <2>. QED BY SeedingKeepsEdits DEF Fees!Rows
<1>3. ApiSpec => [][EditsKept]_catalogVars
  BY <1>1, <1>2, PTL DEF ApiSpec
<1>. QED BY <1>3, PTL DEF DeploysKeepEdits, Fees!DeploysKeepEdits, catalogVars, Fees!vars

-----------------------------------------------------------------------------
(* Sessions and reset links: the lemmas of AuthSessionsProofs, for the two *)
(* instances of the suite.                                                 *)

LEMMA TokensMove == part = "tokens" /\ [ApiNext]_apiVars => [Tokens!Next]_authVars
BY DEF ApiNext, Rest, apiVars

LEMMA SessionsMove == part = "sessions" /\ [ApiNext]_apiVars => [Sessions!Next]_authVars
BY DEF ApiNext, Rest, apiVars

LEMMA TokensStart == part = "tokens" /\ ApiInit => Tokens!Init
BY DEF ApiInit

LEMMA SessionsStart == part = "sessions" /\ ApiInit => Sessions!Init
BY DEF ApiInit

LEMMA NumberedOrgs == Tokens!Numbered /\ Sessions!Numbered
<1>1. ASSUME NEW S \in SUBSET {1, 2}, S # {}
      PROVE  \E o \in S : \A p \in S : o <= p
  <2>1. CASE 1 \in S
    BY <1>1, <2>1
  <2>2. CASE 1 \notin S
    <3>1. PICK o \in S : TRUE
      BY <1>1
    <3>2. o = 2 /\ \A p \in S : p = 2
      BY <1>1, <2>2, <3>1
    <3>. QED BY <3>1, <3>2
  <2>. QED BY <2>1, <2>2
<1>. QED BY <1>1 DEF Tokens!Numbered, Sessions!Numbered

LEMMA FiniteHandler == Tokens!IsFiniteSet(Handler)
BY HandlerAssumption DEF IsFiniteSet, Tokens!IsFiniteSet

TokensInv ==
  /\ Tokens!TypeOK /\ Tokens!RowInv /\ Tokens!NoSessionOutlivesReset
  /\ Tokens!MadeInv /\ Tokens!UsesInv
SessionsInv ==
  /\ Sessions!TypeOK /\ Sessions!RowInv /\ Sessions!NoSessionOutlivesReset
  /\ Sessions!LapsedInv


LEMMA TokensInvInit == Tokens!Init => TokensInv
BY NumberedOrgs, FiniteHandler, Tokens!TypeInit, Tokens!RowInit, Tokens!ResetInit,
   Tokens!MadeInit, Tokens!UsesInit DEF TokensInv

LEMMA TokensInvNext == TokensInv /\ [Tokens!Next]_authVars => TokensInv'
<1> SUFFICES ASSUME TokensInv, [Tokens!Next]_authVars PROVE TokensInv'
  OBVIOUS
<1>1. [Tokens!Next]_(Tokens!vars)
  BY DEF authVars, Tokens!vars, Tokens!rows
<1>2. Tokens!TypeOK' /\ Tokens!RowInv'
  BY <1>1, NumberedOrgs, SessionAssumption, Tokens!TypeNext, Tokens!RowNext DEF TokensInv
<1>3. Tokens!NoSessionOutlivesReset'
  BY <1>1, <1>2, SessionAssumption, Tokens!ResetNext DEF TokensInv
<1>4. Tokens!MadeInv' /\ Tokens!UsesInv'
  BY <1>1, <1>2, FiniteHandler, Tokens!MadeNext, Tokens!UsesNext DEF TokensInv
<1>. QED BY <1>2, <1>3, <1>4 DEF TokensInv

LEMMA SessionsInvInit == Sessions!Init => SessionsInv
BY NumberedOrgs, Sessions!TypeInit, Sessions!RowInit, Sessions!ResetInit,
   Sessions!LapsedInit DEF SessionsInv

LEMMA SessionsInvNext == SessionsInv /\ [Sessions!Next]_authVars => SessionsInv'
<1> SUFFICES ASSUME SessionsInv, [Sessions!Next]_authVars PROVE SessionsInv'
  OBVIOUS
<1>1. [Sessions!Next]_(Sessions!vars)
  BY DEF authVars, Sessions!vars, Sessions!rows
<1>2. Sessions!TypeOK' /\ Sessions!RowInv'
  BY <1>1, NumberedOrgs, SessionAssumption, Sessions!TypeNext, Sessions!RowNext
     DEF SessionsInv
<1>3. Sessions!NoSessionOutlivesReset'
  BY <1>1, <1>2, SessionAssumption, Sessions!ResetNext DEF SessionsInv
<1>4. Sessions!LapsedInv'
  BY <1>1, <1>2, Sessions!LapsedNext DEF SessionsInv
<1>. QED BY <1>2, <1>3, <1>4 DEF SessionsInv

AuthInv ==
  /\ part = "tokens" => TokensInv
  /\ part = "sessions" => SessionsInv

LEMMA AuthInvariant == ApiSpec => []AuthInv
<1>1. ApiInit => AuthInv
  BY TokensStart, SessionsStart, TokensInvInit, SessionsInvInit DEF AuthInv
<1>2. AuthInv /\ [ApiNext]_apiVars => AuthInv'
  BY PartStays, TokensMove, SessionsMove, TokensInvNext, SessionsInvNext DEF AuthInv
<1>. QED BY <1>1, <1>2, PTL DEF ApiSpec

\* A password reset ends every session there is, web and extension, and no request
\* admitted before it brings one back (resetPassword).
THEOREM ResetsEndTheSessions == ApiSpec => []NoSessionOutlivesReset
BY AuthInvariant, PTL DEF AuthInv, NoSessionOutlivesReset, TokensInv, SessionsInv

\* No more links are open, and no link is used oftener, than requests can be in
\* flight together (requestPasswordReset, resetPassword).
THEOREM LinksAreInFlight == ApiSpec => []ResetLinksAreInFlight
<1>1. (part = "tokens" => TokensInv) => ResetLinksAreInFlight
  BY FiniteHandler, Tokens!MadeBounds, Tokens!UsesBounds
     DEF TokensInv, ResetLinksAreInFlight
<1>. QED BY <1>1, AuthInvariant, PTL DEF AuthInv

\* An extension session that reached its expiry with no request in flight on it is
\* never admitted again (ExtensionAuthGuard, refreshHeartbeat).
THEOREM LapsedSessionsStay == ApiSpec => []LapsedStaysOut
<1>1. (part = "sessions" => SessionsInv) => LapsedStaysOut
  BY Sessions!LapsedOut DEF SessionsInv, LapsedStaysOut
<1>. QED BY <1>1, AuthInvariant, PTL DEF AuthInv

\* A session, web or extension, that was deleted or has expired is never usable
\* again: AuthSessions implements Credential.
THEOREM TheSessionsAreCredentials == ApiSpec => SessionsAreCredentials
<1>1. ApiInit => Bearer!Init
  BY SessionsStart, Sessions!BearerInit DEF Bearer!Init, Sessions!Bearer!Init
<1>2. /\ AuthInv /\ AuthInv' /\ [ApiNext]_apiVars
      => [Bearer!Next]_<<IF part = "sessions" THEN Sessions!UsableBearers ELSE {},
                         IF part = "sessions" THEN Sessions!RevokedBearers ELSE {}>>
  <2> SUFFICES ASSUME AuthInv, AuthInv', [ApiNext]_apiVars
               PROVE  [Bearer!Next]_<<IF part = "sessions" THEN Sessions!UsableBearers ELSE {},
                         IF part = "sessions" THEN Sessions!RevokedBearers ELSE {}>>
    OBVIOUS
  <2>1. CASE part # "sessions"
    BY <2>1, PartStays
  <2>2. CASE part = "sessions"
    <3>1. part' = "sessions" /\ SessionsInv /\ SessionsInv'
      BY <2>2, PartStays DEF AuthInv
    <3>2. [Sessions!Next]_(Sessions!vars)
      BY <2>2, SessionsMove DEF authVars, Sessions!vars, Sessions!rows
    <3>3. [Sessions!Bearer!Next]_<<Sessions!UsableBearers, Sessions!RevokedBearers>>
      BY <3>1, <3>2, SessionAssumption, Sessions!BearerNext DEF SessionsInv
    <3>. QED BY <2>2, <3>1, <3>3
         DEF Bearer!Next, Bearer!Issue, Bearer!Revoke,
             Sessions!Bearer!Next, Sessions!Bearer!Issue, Sessions!Bearer!Revoke
  <2>. QED BY <2>1, <2>2
<1>. QED BY <1>1, <1>2, AuthInvariant, PTL DEF ApiSpec, SessionsAreCredentials, Bearer!Spec

-----------------------------------------------------------------------------
(* The sales history.  A nonempty set of natural numbers has a least one,  *)
(* and so a finite set under a strict order has an element none is before: *)
(* the one with fewest before it.                                          *)

LEMMA LeastNatural ==
  ASSUME NEW S \in SUBSET Nat, S # {}
  PROVE  \E x \in S : \A y \in S : x <= y
<1> DEFINE R == OpToRel(<, Nat)
<1>1. IsWellFoundedOn(R, Nat)
  BY NatLessThanWellFounded
<1>2. \A x, y \in Nat : <<x, y>> \in R <=> x < y
  BY DEF OpToRel
<1> HIDE DEF R
<1>3. PICK x \in S : \A y \in S : ~(<<y, x>> \in R)
  BY <1>1, WFMin
<1>4. ASSUME NEW y \in S PROVE x <= y
  <2>1. x \in Nat /\ y \in Nat
    OBVIOUS
  <2>2. ~(y < x)
    BY <1>2, <1>3, <2>1
  <2>. QED BY <2>1, <2>2
<1>. QED BY <1>4

LEMMA NoneBefore ==
  ASSUME NEW S, IsFiniteSet(S), S # {}, NEW R,
         \A x \in S : <<x, x>> \notin R,
         \A x, y, z \in S : <<x, y>> \in R /\ <<y, z>> \in R => <<x, z>> \in R
  PROVE  \E x \in S : \A y \in S : <<y, x>> \notin R
<1> DEFINE before(x) == {y \in S : <<y, x>> \in R}
           ranks == {Cardinality(before(x)) : x \in S}
<1>1. ASSUME NEW x \in S PROVE IsFiniteSet(before(x)) /\ Cardinality(before(x)) \in Nat
  <2>1. before(x) \in SUBSET S
    OBVIOUS
  <2> HIDE DEF before
  <2>. QED BY <2>1, FS_Subset, FS_CardinalityType
<1>2. ranks \in SUBSET Nat /\ ranks # {}
  <2> HIDE DEF before
  <2>. QED BY <1>1
<1>3. PICK n \in ranks : \A m \in ranks : n <= m
  <2> HIDE DEF ranks
  <2>. QED BY <1>2, LeastNatural
<1>4. PICK x \in S : n = Cardinality(before(x))
  <2> HIDE DEF before
  <2>. QED OBVIOUS
<1>5. ASSUME NEW y \in S, <<y, x>> \in R PROVE FALSE
  <2>1. before(y) \in SUBSET before(x) /\ y \in before(x) /\ y \notin before(y)
    BY <1>5
  <2> HIDE DEF before
  <2>2. /\ Cardinality(before(y)) <= Cardinality(before(x))
        /\ Cardinality(before(y)) # Cardinality(before(x))
    BY <1>1, <2>1, FS_Subset
  <2>3. Cardinality(before(y)) \in ranks
    OBVIOUS
  <2>4. n <= Cardinality(before(y))
    <3> HIDE DEF ranks
    <3>. QED BY <1>3, <2>3
  <2>. QED BY <1>1, <1>4, <2>2, <2>4
<1>. QED BY <1>5

Captures == captured \in Seq(History!Preview)

LEMMA CapturesInit == History!Init => Captures
BY DEF History!Init, Captures

LEMMA CapturesNext == Captures /\ [History!Next]_captured => Captures'
<1> SUFFICES ASSUME Captures, [History!Next]_captured PROVE Captures'
  OBVIOUS
<1> USE DEF Captures
<1>1. CASE History!Capture
  <2>1. PICK b \in History!Preview : captured' = Append(captured, b)
    BY <1>1 DEF History!Capture
  <2> HIDE DEF History!Preview
  <2>. QED BY <2>1
<1>2. CASE History!RemoveBatch
  <2>1. PICK i \in DOMAIN captured :
          captured' = SubSeq(captured, 1, i - 1) \o SubSeq(captured, i + 1, Len(captured))
    BY <1>2 DEF History!RemoveBatch, History!RemoveAt
  <2>2. i \in 1..Len(captured)
    OBVIOUS
  <2> HIDE DEF History!Preview
  <2>3. SubSeq(captured, 1, i - 1) \in Seq(History!Preview)
    BY <2>2
  <2>4. SubSeq(captured, i + 1, Len(captured)) \in Seq(History!Preview)
    BY <2>2
  <2>. QED BY <2>1, <2>3, <2>4
<1>. QED BY <1>1, <1>2 DEF History!Next

LEMMA CaptureFacts ==
  ASSUME Captures, NEW i \in DOMAIN captured
  PROVE  /\ i \in Nat /\ captured[i].day \in Nat
         /\ captured[i].page = "product" =>
              captured[i].sold \in Nat \cup {History!NoCount}
<1>1. i \in 1..Len(captured) /\ captured[i] \in History!Preview
  BY DEF Captures
<1> DEFINE c == captured[i]
<1>2. CASE c \in [page: {"product"}, product: Product, query: Query, day: Day,
                  sold: Sold \cup {History!NoCount}]
  <2>1. c.day \in Day /\ c.sold \in Sold \cup {History!NoCount}
    BY <1>2
  <2> HIDE DEF c
  <2>2. c.day \in Nat
    BY <2>1, HistoryAssumption
  <2>3. i \in Nat
    BY <1>1
  <2>. QED BY <2>1, <2>2, <2>3, HistoryAssumption DEF c
<1>3. CASE c \in [page: {"lost"}, day: Day]
  <2>1. c.day \in Day /\ c.page = "lost"
    BY <1>3
  <2> HIDE DEF c
  <2>2. c.day \in Nat
    BY <2>1, HistoryAssumption
  <2>3. i \in Nat
    BY <1>1
  <2>. QED BY <2>1, <2>2, <2>3, HistoryAssumption DEF c
<1>4. CASE c \in [page: {"search"}, day: {0}]
  BY <1>1, <1>4
<1>. QED BY <1>1, <1>2, <1>3, <1>4 DEF History!Preview

\* Of every nonempty set of captures one is first.
LEMMA FirstIsFirst ==
  ASSUME Captures, NEW S, S \subseteq DOMAIN captured, S # {}
  PROVE  /\ History!First(S) \in S
         /\ \A j \in S : ~History!Before(j, History!First(S))
<1> DEFINE R == {p \in S \X S : History!Before(p[1], p[2])}
<1>1. IsFiniteSet(S)
  <2>1. DOMAIN captured = 1..Len(captured) /\ Len(captured) \in Nat
    BY DEF Captures
  <2>2. IsFiniteSet(1..Len(captured))
    BY <2>1, FS_Interval
  <2>. QED BY <2>1, <2>2, FS_Subset
<1>2. \A x, y \in S : <<x, y>> \in R <=> History!Before(x, y)
  OBVIOUS
<1>3. \A x \in S : x \in Nat /\ captured[x].day \in Nat
  BY CaptureFacts
<1>4. \A x \in S : ~History!Before(x, x)
  BY <1>3 DEF History!Before
<1>5. \A x, y, z \in S : History!Before(x, y) /\ History!Before(y, z) => History!Before(x, z)
  BY <1>3 DEF History!Before
<1> HIDE DEF R
<1>6. \E x \in S : \A y \in S : <<y, x>> \notin R
  BY <1>1, <1>2, <1>4, <1>5, NoneBefore
<1>7. \E x \in S : \A y \in S : ~History!Before(y, x)
  BY <1>2, <1>6
<1>. QED BY <1>7 DEF History!First

LEMMA SameCardinality == ASSUME NEW S PROVE History!Cardinality(S) = Cardinality(S)
BY DEF History!Cardinality, Cardinality

LEMMA MaxOfTwo ==
  ASSUME NEW a \in Int
  PROVE  History!Max({a, 0}) = IF a > 0 THEN a ELSE 0
BY DEF History!Max

\* The captures a window may start from, and the first of them, its baseline.
Base(i, w) == History!First(History!Known(i, w))

LEMMA KnownFacts ==
  ASSUME Captures, NEW i \in History!Targets, NEW w \in Windows
  PROVE  /\ i \in DOMAIN captured /\ captured[i].page = "product"
         /\ captured[i].sold \in Nat \cup {History!NoCount} /\ captured[i].day \in Nat
         /\ \A j \in History!Known(i, w) :
              /\ j \in DOMAIN captured /\ captured[j].page = "product"
              /\ captured[j].product = captured[i].product
              /\ captured[j].sold \in Nat /\ captured[j].sold # History!NoCount
              /\ captured[j].day \in Nat /\ captured[j].day <= captured[i].day - w
<1>1. i \in DOMAIN captured /\ captured[i].page = "product"
  BY DEF History!Targets, History!Shown
<1>2. ASSUME NEW j \in History!Known(i, w)
      PROVE  /\ j \in DOMAIN captured /\ captured[j].page = "product"
             /\ captured[j].product = captured[i].product
             /\ captured[j].sold # History!NoCount
             /\ captured[j].day <= captured[i].day - w
  BY DEF History!Known, History!Points, History!Historical, History!ProductKey
<1>. QED BY <1>1, <1>2, CaptureFacts

LEMMA BaseFacts ==
  ASSUME Captures, NEW i \in History!Targets, NEW w \in Windows, History!Known(i, w) # {}
  PROVE  /\ Base(i, w) \in History!Known(i, w)
         /\ \A j \in History!Known(i, w) :
              ~History!Before(j, Base(i, w))
<1>1. History!Known(i, w) \subseteq DOMAIN captured
  BY KnownFacts
<1>. QED BY <1>1, FirstIsFirst DEF Base

\* An estimate is known where there is a baseline, and is what was sold since.
LEMMA EstimateIs ==
  ASSUME Captures, NEW i \in History!Targets, NEW w \in Windows
  PROVE  /\ History!Estimate(i, w) # History!NoEstimate <=>
              captured[i].sold # History!NoCount /\ History!Known(i, w) # {}
         /\ History!Estimate(i, w) # History!NoEstimate =>
              LET sold == captured[i].sold - captured[Base(i, w)].sold IN
              /\ sold \in Int
              /\ History!Estimate(i, w) = IF sold > 0 THEN sold ELSE 0
<1>1. CASE captured[i].sold = History!NoCount \/ History!Known(i, w) = {}
  BY <1>1 DEF History!Estimate
<1>2. CASE captured[i].sold # History!NoCount /\ History!Known(i, w) # {}
  <2> DEFINE sold == captured[i].sold - captured[Base(i, w)].sold
  <2>1. captured[i].sold \in Nat /\ captured[Base(i, w)].sold \in Nat
    BY <1>2, BaseFacts, KnownFacts
  <2>2. sold \in Int
    BY <2>1
  <2>3. History!Estimate(i, w) = History!Max({sold, 0})
    BY <1>2 DEF History!Estimate, History!Delta, Base
  <2> HIDE DEF sold
  <2>4. History!Estimate(i, w) = IF sold > 0 THEN sold ELSE 0
    BY <2>2, <2>3, MaxOfTwo
  <2>5. History!Estimate(i, w) # History!NoEstimate
    BY <2>2, <2>4 DEF History!NoEstimate
  <2>. QED BY <1>2, <2>2, <2>4, <2>5 DEF sold
<1>. QED BY <1>1, <1>2

\* The baseline of a longer window is old enough for a shorter one, whose own
\* baseline is therefore as new: the same capture, or a later with more sold.
LEMMA NestedWindows == Captures => History!WindowsAreNested
<1> SUFFICES ASSUME Captures, NEW i \in History!Targets,
                    NEW v \in Windows, NEW w \in Windows, v < w,
                    History!Estimate(i, w) # History!NoEstimate
             PROVE  /\ History!Estimate(i, v) # History!NoEstimate
                    /\ History!CountsGrow => History!Estimate(i, v) <= History!Estimate(i, w)
  BY DEF History!WindowsAreNested
<1> DEFINE b == Base(i, w)
           c == Base(i, v)
<1>1. captured[i].sold # History!NoCount /\ History!Known(i, w) # {}
  BY EstimateIs
<1>2. History!Known(i, w) \subseteq History!Known(i, v)
  <2> SUFFICES ASSUME NEW j \in History!Known(i, w) PROVE j \in History!Known(i, v)
    OBVIOUS
  <2>1. captured[j].day \in Nat /\ captured[i].day \in Nat
    BY KnownFacts
  <2>2. captured[j].day <= captured[i].day - w
    BY KnownFacts
  <2>3. captured[j].day <= captured[i].day - v
    BY <2>1, <2>2, HistoryAssumption
  <2>. QED BY <2>3 DEF History!Known
<1>3. b \in History!Known(i, w) /\ c \in History!Known(i, v)
  BY <1>1, <1>2, BaseFacts
<1>4. History!Estimate(i, v) # History!NoEstimate
  BY <1>1, <1>2, EstimateIs
<1>5. ASSUME History!CountsGrow PROVE captured[b].sold <= captured[c].sold
  <2>1. ~History!Before(b, c)
    BY <1>2, <1>3, BaseFacts
  <2>2. /\ b \in DOMAIN captured /\ captured[b].page = "product"
        /\ captured[b].product = captured[i].product
        /\ captured[b].sold \in Nat /\ captured[b].sold # History!NoCount
        /\ captured[b].day \in Nat /\ captured[b].day <= captured[i].day - w
    BY <1>3, KnownFacts
  <2>3. /\ c \in DOMAIN captured /\ captured[c].page = "product"
        /\ captured[c].product = captured[i].product
        /\ captured[c].sold \in Nat /\ captured[c].sold # History!NoCount
        /\ captured[c].day \in Nat
    BY <1>3, KnownFacts
  <2>4. b \in Nat /\ c \in Nat
    BY <2>2, <2>3, CaptureFacts
  <2> HIDE DEF b, c
  <2>5. CASE captured[b].day < captured[c].day
    BY <1>5, <2>2, <2>3, <2>5 DEF History!CountsGrow
  <2>6. CASE captured[b].day = captured[c].day
    <3>1. c \in History!Known(i, w)
      BY <1>3, <2>2, <2>6 DEF History!Known
    <3>2. ~History!Before(c, b)
      BY <1>1, <3>1, BaseFacts DEF b
    <3>3. b = c
      BY <2>1, <2>4, <2>6, <3>2 DEF History!Before
    <3>. QED BY <2>2, <3>3
  <2>7. captured[b].day <= captured[c].day
    BY <2>1, <2>2, <2>3 DEF History!Before
  <2>. QED BY <2>2, <2>3, <2>5, <2>6, <2>7
<1>6. ASSUME History!CountsGrow PROVE History!Estimate(i, v) <= History!Estimate(i, w)
  <2>1. captured[b].sold \in Nat /\ captured[c].sold \in Nat /\ captured[i].sold \in Nat
    BY <1>1, <1>3, KnownFacts
  <2>2. /\ History!Estimate(i, w) = LET d == captured[i].sold - captured[b].sold
                                    IN  IF d > 0 THEN d ELSE 0
        /\ History!Estimate(i, v) = LET d == captured[i].sold - captured[c].sold
                                    IN  IF d > 0 THEN d ELSE 0
    BY <1>4, EstimateIs
  <2>3. captured[b].sold <= captured[c].sold
    BY <1>5, <1>6
  <2> HIDE DEF b, c
  <2>. QED BY <2>1, <2>2, <2>3
<1>. QED BY <1>4, <1>6

\* No more captures than fit a page leave none of them out.
LEMMA AllFit ==
  ASSUME Captures, Len(captured) <= Take, NEW i \in DOMAIN captured,
         captured[i].page # "search", captured[i].day >= History!Since
  PROVE  i \in History!Historical
<1> DEFINE all == {j \in DOMAIN captured : /\ captured[j].page # "search"
                                           /\ captured[j].day >= History!Since}
           newer == {j \in all : History!Before(j, i)}
<1>1. DOMAIN captured = 1..Len(captured) /\ Len(captured) \in Nat
  BY DEF Captures
<1>2. IsFiniteSet(DOMAIN captured) /\ Cardinality(DOMAIN captured) = Len(captured)
  <2>1. /\ IsFiniteSet(1..Len(captured))
        /\ Cardinality(1..Len(captured)) =
             IF 1 > Len(captured) THEN 0 ELSE Len(captured) - 1 + 1
    BY <1>1, FS_Interval
  <2>. QED BY <1>1, <2>1
<1>3. newer \subseteq DOMAIN captured /\ i \notin newer
  BY CaptureFacts DEF History!Before
<1> HIDE DEF newer
<1>4. /\ IsFiniteSet(newer) /\ Cardinality(newer) \in Nat
      /\ Cardinality(newer) < Cardinality(DOMAIN captured)
  <2>1. IsFiniteSet(newer) /\ newer # DOMAIN captured
    BY <1>2, <1>3, FS_Subset
  <2>. QED BY <1>1, <1>2, <1>3, <2>1, FS_Subset, FS_CardinalityType
<1>5. Cardinality(newer) < Take
  BY <1>1, <1>2, <1>4, HistoryAssumption
<1>6. i \in all
  OBVIOUS
<1>7. History!Historical = {k \in all : Cardinality({j \in all : History!Before(j, k)}) < Take}
  BY SameCardinality DEF History!Historical
<1> HIDE DEF all
<1>. QED BY <1>5, <1>6, <1>7 DEF newer

\* The listing looks back at least Lookback from every target.
LEMMA LooksBack ==
  ASSUME Captures, NEW i \in History!Targets
  PROVE  History!Since \in Int /\ History!Since <= captured[i].day - Lookback
<1> DEFINE days == {captured[j].day : j \in History!Targets}
<1>1. days \in SUBSET Nat /\ captured[i].day \in days
  <2>1. \A j \in History!Targets : j \in DOMAIN captured
    BY DEF History!Targets, History!Shown
  <2>. QED BY <2>1, CaptureFacts
<1>2. History!Since = History!Min(days) - Lookback
  BY DEF History!Since
<1> HIDE DEF days
<1>3. \E x \in days : \A y \in days : x <= y
  BY <1>1, LeastNatural
<1>4. History!Min(days) \in days /\ \A y \in days : History!Min(days) <= y
  BY <1>3 DEF History!Min
<1>5. History!Min(days) \in Nat /\ captured[i].day \in Nat
  BY <1>1, <1>4
<1>. QED BY <1>1, <1>2, <1>4, <1>5, HistoryAssumption

LEMMA LatestIsUsed == Captures => History!EstimateUsesLatest
<1> SUFFICES ASSUME Captures, NEW i \in History!Targets, NEW w \in Windows,
                    Len(captured) <= Take, captured[i].sold # History!NoCount,
                    History!LatestOldEnough(i, w) # {}
             PROVE  \E j \in History!LatestOldEnough(i, w) :
                      /\ \A k \in History!LatestOldEnough(i, w) :
                           captured[k].day <= captured[j].day
                      /\ History!Estimate(i, w) = History!Delta(i, j)
  BY DEF History!EstimateUsesLatest
<1> DEFINE b == Base(i, w)
<1>1. i \in DOMAIN captured /\ captured[i].day \in Nat
  BY KnownFacts
<1>2. ASSUME NEW k \in History!LatestOldEnough(i, w)
      PROVE  k \in History!Known(i, w) /\ captured[k].day \in Nat
             /\ captured[i].day - captured[k].day <= Lookback
  <2>1. /\ k \in DOMAIN captured /\ captured[k].page = "product"
        /\ captured[k].product = captured[i].product
        /\ captured[k].sold # History!NoCount
        /\ captured[i].day - captured[k].day \in w..Lookback
    BY DEF History!LatestOldEnough
  <2>2. captured[k].day \in Nat
    BY <2>1, CaptureFacts
  <2>3. /\ captured[k].day <= captured[i].day - w
        /\ captured[k].day >= captured[i].day - Lookback
    BY <1>1, <2>1, <2>2, HistoryAssumption
  <2>4. captured[k].day >= History!Since
    BY <1>1, <2>2, <2>3, LooksBack, HistoryAssumption
  <2>5. k \in History!Historical
    BY <2>1, <2>4, AllFit
  <2>. QED BY <1>1, <2>1, <2>2, <2>3, <2>5, HistoryAssumption
       DEF History!Known, History!Points, History!ProductKey
<1>3. History!Known(i, w) # {}
  BY <1>2
<1>4. b \in History!Known(i, w) /\ \A k \in History!Known(i, w) : ~History!Before(k, b)
  BY <1>3, BaseFacts
<1>5. /\ b \in DOMAIN captured /\ captured[b].page = "product"
      /\ captured[b].product = captured[i].product
      /\ captured[b].sold # History!NoCount
      /\ captured[b].day \in Nat /\ captured[b].day <= captured[i].day - w
  BY <1>4, KnownFacts
<1>6. History!Estimate(i, w) = History!Delta(i, b)
  BY <1>3 DEF History!Estimate, Base
<1> HIDE DEF b
<1>7. ASSUME NEW k \in History!LatestOldEnough(i, w) PROVE captured[k].day <= captured[b].day
  BY <1>2, <1>4, <1>5 DEF History!Before
<1>8. b \in History!LatestOldEnough(i, w)
  <2>1. PICK k : k \in History!LatestOldEnough(i, w)
    OBVIOUS
  <2>2. captured[i].day - captured[b].day \in w..Lookback
    BY <1>1, <1>2, <1>5, <1>7, <2>1, HistoryAssumption
  <2>. QED BY <1>5, <2>2 DEF History!LatestOldEnough
<1>. QED BY <1>6, <1>7, <1>8

\* Whatever was captured late, removed, lost from the bucket or cut off by the
\* size of a page, a longer window never sells less than a shorter one and is
\* never known where the shorter is not, and the baseline of each is the latest
\* known count old enough (buildEstimatedSalesDelta).
THEOREM WindowsFollowTheCaptures == ApiSpec => []WindowsFollowCaptures
<1> DEFINE Typed == part = "history" => Captures
<1>1. ApiInit => Typed
  BY CapturesInit DEF ApiInit
<1>2. Typed /\ [ApiNext]_apiVars => Typed'
  <2>1. part = "history" /\ [ApiNext]_apiVars => [History!Next]_captured
    BY DEF ApiNext, Rest, apiVars
  <2>. QED BY <2>1, PartStays, CapturesNext
<1>3. Typed => WindowsFollowCaptures
  BY NestedWindows, LatestIsUsed DEF WindowsFollowCaptures
<1>. QED BY <1>1, <1>2, <1>3, PTL DEF ApiSpec

-----------------------------------------------------------------------------
(* The suite moves the organization as Quota does.                         *)

LEMMA SuiteIsQuota == ApiSpec => Spec
<1>1. ApiInit => Init
  BY DEF ApiInit
<1>2. [ApiNext]_apiVars => [Next]_vars
  BY DEF ApiNext, Rest, apiVars, Under
<1>. QED BY <1>1, <1>2, PTL DEF ApiSpec, Spec

LEMMA BatchTypesNext ==
  BatchInv /\ Batches!TypeOK /\ [Batches!Next]_batchVars => Batches!TypeOK'
<1> SUFFICES ASSUME BatchInv, BatchInv', Batches!TypeOK, [Batches!Next]_batchVars
             PROVE  Batches!TypeOK'
  BY BatchNext
<1>. USE DEF BatchInv, BatchTypes, Batches!TypeOK
<1>1. ASSUME NEW h \in Handler, Batches!Step(h) PROVE Batches!TypeOK'
  <2>1. work[h].at \notin {"idle"} => work[h].b \in Batch
    BY DEF WorkHeld, Creating, Removing, CreateAt, RemoveAt, Batches!Work
  <2>. QED BY <1>1, <2>1
       DEF Batches!Step, Batches!CreateBatch, Batches!Retention, Batches!StartBucketCheck,
           Batches!BucketAwaited, Batches!Put, Batches!CreatePayload, Batches!MarkFailed,
           Batches!RemoveRead, Batches!DeleteObject, Batches!RemoveRows, Batches!RemoveBatch,
           Batches!At, Batches!store, Batches!history
<1>2. CASE Batches!BucketChecked \/ Batches!Death
  BY <1>2 DEF Batches!BucketChecked, Batches!Death, Batches!store, Batches!history
<1>3. CASE Batches!Quiet \/ UNCHANGED batchVars
  BY <1>3 DEF Batches!Quiet, Batches!vars, Batches!store, Batches!history, batchVars
<1>. QED BY <1>1, <1>2, <1>3 DEF Batches!Next

\* Every table, request and counter of the suite keeps its type, in every part.
THEOREM ApiTypesAreKept == ApiSpec => []ApiTypeOK
<1> DEFINE BTypes == part = "batches" => BatchInv /\ Batches!TypeOK
<1>1. ApiInit => BTypes
  BY BatchesInit DEF ApiInit, Batches!Init, Batches!TypeOK, BatchInv, BatchTypes
<1>2. BTypes /\ [ApiNext]_apiVars => BTypes'
  BY PartStays, BatchesMove, BatchNext, BatchTypesNext
<1>3. ApiSpec => []BTypes
  BY <1>1, <1>2, PTL DEF ApiSpec
<1>4. ApiSpec => []TypeOK
  BY SuiteIsQuota, TypeCorrect, PTL
<1>. QED BY <1>3, <1>4, AuthInvariant, PTL DEF ApiTypeOK, AuthInv, TokensInv, SessionsInv
=============================================================================
