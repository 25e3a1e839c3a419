---------------------------- MODULE Transcription ----------------------------
(***************************************************************************)
(* Transcripts of recordings, made by a third-party provider: the server   *)
(* actions of src/app/actions/transcripts.ts, the finisher that the        *)
(* webhook and the ten-minute sweep share (src/lib/transcription/jobs.ts), *)
(* the trigger that queues provider copies for deletion, and the provider  *)
(* as the code sees it.                                                    *)
(*                                                                         *)
(* Each element of Request is one call of requestTranscript.  It creates   *)
(* at most one row and submits at most one job, so a row's id, its webhook *)
(* secret and the provider's job id are the request they come from.  Every *)
(* database statement, and every call to the provider, is one step; what a *)
(* request read earlier is in its record and may be stale.  A request or a *)
(* finisher may die between two steps (the platform ends it).              *)
(***************************************************************************)
EXTENDS Naturals, FiniteSets

CONSTANTS
  Document,
  Siblings,      \* pairs of documents with one stored file in one scope
  Request,       \* calls of requestTranscript
  Finisher,      \* concurrently running webhook deliveries and sweeps
  Deleter,       \* concurrently running calls of deleteTranscript
  MaxFaults,     \* bound: deaths, lost replies and abandoned purges
  None

ASSUME TranscriptionAssumption ==
  /\ Siblings \subseteq Document \X Document
  /\ MaxFaults \in Nat /\ None \notin Request

InFlight == {"queued", "processing"}
Statuses == InFlight \cup {"completed", "failed"}
Held     == {"running", "completed", "error"}   \* the provider has a copy

\* age of a run in flight: 0 just claimed, 1 older than QUEUED_STALE_MS,
\* 2 older than JOB_TIMEOUT_MS.
\* text: the run whose result the segments are; None until one completes.
Transcript ==
  [id : Request, run : Request, status : Statuses, job : Request \cup {None},
   secret : Request \cup {None}, age : 0 .. 2, corrected : BOOLEAN,
   text : Request \cup {None}]
NoRow      == [status |-> "none"]
NoDocument == [status |-> "no document"]

VARIABLES
  row,        \* per document, its transcript
  provider,   \* per request, the state of the job it submitted
  purges,     \* the transcript_purges table
  request, finisher, deleter,   \* the running processes
  lost,       \* jobs whose id a death, a lost reply or a give-up dropped
  settledBy,  \* history: the run that whoever settled the row had read
  faults

rows  == <<row, settledBy>>
procs == <<request, finisher, deleter>>
vars  == <<rows, provider, purges, procs, lost, faults>>

Idle == [at |-> "idle"]
Done == [at |-> "done"]

Init ==
  /\ row = [d \in Document |-> NoRow]
  /\ provider = [r \in Request |-> "none"]
  /\ purges = {}
  /\ request = [r \in Request |-> Idle]
  /\ finisher = [f \in Finisher |-> Idle]
  /\ deleter = [x \in Deleter |-> Idle]
  /\ lost = {} /\ faults = 0
  /\ settledBy = [d \in Document |-> None]

IsRow(t)      == t.status \in Statuses
IsInFlight(t) == t.status \in InFlight
Settled(t)    == IsRow(t) /\ ~IsInFlight(t)

Goto(r, at) == request' = [request EXCEPT ![r] = [at |-> at, doc |-> @.doc]]
EndRequest(r) == request' = [request EXCEPT ![r] = Done]
FinisherTo(f, at) == finisher' = [finisher EXCEPT ![f].at = at]
DeletesCopy(f) == finisher' = [finisher EXCEPT ![f] = [at |-> "delete copy", job |-> @.job]]
EndFinisher(f)    == finisher' = [finisher EXCEPT ![f] = Idle]

DeleteJobBestEffort(j) ==
  /\ provider' = [provider EXCEPT ![j] = "deleted"] \/ UNCHANGED provider
  /\ UNCHANGED purges

\* deleteJob, whose answer decides whether the job id is queued for the sweep.
\* A refusal is any answer but 2xx or 404, a job that still runs included.
DeleteJobOrQueue(j) ==
  \/ provider' = [provider EXCEPT ![j] = "deleted"] /\ UNCHANGED purges
  \/ provider[j] # "deleted" /\ purges' = purges \cup {j} /\ UNCHANGED provider

(***************************************************************************)
(* requestTranscript                                                       *)
(***************************************************************************)
\* The read of the document's own transcript.  A call refused here (in
\* flight, or corrected and not confirmed) changes nothing and is not shown.
RequestTranscript(r, d, replace) ==
  /\ request[r] = Idle
  /\ row[d] # NoDocument /\ ~IsInFlight(row[d])
  /\ IsRow(row[d]) /\ row[d].corrected => replace
  /\ request' = [request EXCEPT ![r] =
       [at |-> "lookup", doc |-> d, replace |-> replace, existed |-> IsRow(row[d]),
        mayReuse |-> \/ row[d] = NoRow
                     \/ row[d].status = "failed" /\ row[d].text = None]]
  /\ UNCHANGED <<rows, provider, purges, finisher, deleter, lost, faults>>

Copies(d) == {c \in Document : <<d, c>> \in Siblings /\ c # d /\ row[c].status = "completed"}

\* The search for a completed transcript of the same file, else the monthly cap.
LookForCopy(r) ==
  /\ request[r].at = "lookup"
  /\ LET q == request[r]
         found == IF q.mayReuse THEN Copies(q.doc) ELSE {} IN
     \/ \E c \in found :
          request' = [request EXCEPT ![r] =
            [at |-> "copy", doc |-> q.doc, existed |-> q.existed,
             text |-> row[c].text, corrected |-> row[c].corrected]]
     \/ /\ found = {}
        /\ request' = [request EXCEPT ![r] =
             [at |-> "claim", doc |-> q.doc, replace |-> q.replace, existed |-> q.existed]]
     \/ found = {} /\ EndRequest(r)     \* capExceeded
  /\ UNCHANGED <<rows, provider, purges, finisher, deleter, lost, faults>>

\* The row a request may take: the guarded updateMany when it had seen a row,
\* the create (unique on documentId) when it had not.
MayTake(q) == IF q.existed THEN Settled(row[q.doc]) ELSE row[q.doc] = NoRow
RowId(r, d) == IF IsRow(row[d]) THEN row[d].id ELSE r

CopyTranscript(r) ==
  /\ request[r].at = "copy"
  /\ LET q == request[r] IN
     \/ /\ MayTake(q)
        /\ row' = [row EXCEPT ![q.doc] =
             [id |-> RowId(r, q.doc), run |-> r, status |-> "completed", job |-> None,
              secret |-> None, age |-> 0, corrected |-> q.corrected, text |-> q.text]]
        /\ settledBy' = [settledBy EXCEPT ![q.doc] = None]
     \/ ~MayTake(q) /\ UNCHANGED rows
  /\ EndRequest(r)
  /\ UNCHANGED <<provider, purges, finisher, deleter, lost, faults>>

ClaimRowKeepingJob(r) ==
  /\ request[r].at = "claim"
  /\ LET q == request[r]  t == row[q.doc] IN
     \/ /\ MayTake(q)
        /\ row' = [row EXCEPT ![q.doc] =
             [id |-> RowId(r, q.doc), run |-> r, status |-> "queued",
              job |-> IF IsRow(t) THEN t.job ELSE None,
              secret |-> r, age |-> 0, corrected |-> IsRow(t) /\ t.corrected,
              text |-> IF IsRow(t) THEN t.text ELSE None]]
        /\ settledBy' = [settledBy EXCEPT ![q.doc] = None]
        /\ request' = [request EXCEPT ![r] =
             [at |-> "submit", doc |-> q.doc, replace |-> q.replace]]
     \/ ~MayTake(q) /\ EndRequest(r) /\ UNCHANGED rows
  /\ UNCHANGED <<provider, purges, finisher, deleter, lost, faults>>

\* The claim: queued, with a fresh secret and no job id; segments and
\* corrections of an earlier run stay until this one completes.
ClaimRow(r) ==
  /\ request[r].at = "claim"
  /\ LET q == request[r]  t == row[q.doc] IN
     \/ /\ MayTake(q)
        /\ row' = [row EXCEPT ![q.doc] =
             [id |-> RowId(r, q.doc), run |-> r, status |-> "queued", job |-> None,
              secret |-> r, age |-> 0, corrected |-> IsRow(t) /\ t.corrected,
              text |-> IF IsRow(t) THEN t.text ELSE None]]
        /\ settledBy' = [settledBy EXCEPT ![q.doc] = None]
        /\ request' = [request EXCEPT ![r] =
             [at |-> "submit", doc |-> q.doc, replace |-> q.replace]]
     \/ ~MayTake(q) /\ EndRequest(r) /\ UNCHANGED rows
  /\ UNCHANGED <<provider, purges, finisher, deleter, lost, faults>>

SubmitJob(r) ==
  /\ request[r].at = "submit"
  /\ provider' = [provider EXCEPT ![r] = "running"]
  /\ Goto(r, "attach")
  /\ UNCHANGED <<rows, purges, finisher, deleter, lost, faults>>

\* The recording cannot be read or the provider refuses the job.
SubmitRefused(r) ==
  /\ request[r].at = "submit"
  /\ Goto(r, "fail")
  /\ UNCHANGED <<rows, provider, purges, finisher, deleter, lost, faults>>

\* The job is accepted but the answer does not arrive within FETCH_TIMEOUT_MS.
SubmitReplyLost(r) ==
  /\ request[r].at = "submit" /\ faults < MaxFaults
  /\ provider' = [provider EXCEPT ![r] = "running"]
  /\ Goto(r, "fail")
  /\ lost' = lost \cup {r} /\ faults' = faults + 1
  /\ UNCHANGED <<rows, purges, finisher, deleter>>

\* where: { documentId, webhookSecret }
StillClaimed(r) == LET t == row[request[r].doc] IN IsRow(t) /\ t.secret = r

FailJob(r) ==
  /\ request[r].at = "fail"
  /\ LET d == request[r].doc IN
     \/ /\ StillClaimed(r)
        /\ row' = [row EXCEPT ![d].status = "failed", ![d].secret = None, ![d].age = 0]
        /\ settledBy' = [settledBy EXCEPT ![d] = r]
     \/ ~StillClaimed(r) /\ UNCHANGED rows
  /\ EndRequest(r)
  /\ UNCHANGED <<provider, purges, finisher, deleter, lost, faults>>

AttachJobUncompensated(r) ==
  /\ request[r].at = "attach"
  /\ LET d == request[r].doc IN
     \/ /\ StillClaimed(r)
        /\ row' = [row EXCEPT ![d].status = "processing", ![d].job = r]
     \/ ~StillClaimed(r) /\ UNCHANGED row
  /\ EndRequest(r)
  /\ UNCHANGED <<settledBy, provider, purges, finisher, deleter, lost, faults>>

AttachJob(r) ==
  /\ request[r].at = "attach"
  /\ LET d == request[r].doc IN
     \/ /\ StillClaimed(r)
        /\ row' = [row EXCEPT ![d].status = "processing", ![d].job = r]
        /\ EndRequest(r)
     \/ ~StillClaimed(r) /\ Goto(r, "orphan") /\ UNCHANGED row
  /\ UNCHANGED <<settledBy, provider, purges, finisher, deleter, lost, faults>>

PurgeOrphan(r) ==
  /\ request[r].at = "orphan"
  /\ DeleteJobOrQueue(r)
  /\ EndRequest(r)
  /\ UNCHANGED <<rows, finisher, deleter, lost, faults>>

RequestDies(r) ==
  /\ request[r].at \notin {"idle", "done"} /\ faults < MaxFaults
  /\ EndRequest(r)
  /\ lost' = IF request[r].at \in {"attach", "orphan"} THEN lost \cup {r} ELSE lost
  /\ faults' = faults + 1
  /\ UNCHANGED <<rows, provider, purges, finisher, deleter>>

(***************************************************************************)
(* finishTranscriptJob, for the webhook and the sweep                      *)
(***************************************************************************)
\* The sweep takes processing rows and stale queued ones; the webhook takes
\* the processing row its job id and secret name.  What either looked up
\* before is read again here.  A fresh queued row is left pending.
ReadTranscript(f, d) ==
  /\ finisher[f] = Idle
  /\ IsInFlight(row[d]) /\ (row[d].job = None => row[d].age > 0)
  /\ finisher' = [finisher EXCEPT ![f] =
       [at |-> IF row[d].job = None THEN "fail" ELSE "fetch",
        id |-> row[d].id, job |-> row[d].job, run |-> row[d].run,
        timedOut |-> row[d].age = 2]]
  /\ UNCHANGED <<rows, provider, purges, request, deleter, lost, faults>>

FetchJobIgnoringAge(f) ==
  /\ finisher[f].at = "fetch"
  /\ LET job == provider[finisher[f].job] IN
     \/ job = "completed" /\ FinisherTo(f, "complete")
     \/ job = "error" /\ FinisherTo(f, "fail")
     \/ job \notin {"completed", "error"} /\ EndFinisher(f)
  /\ UNCHANGED <<rows, provider, purges, request, deleter, lost, faults>>

\* fetchJob may throw whatever the job's state, and does for a deleted one.
FetchJob(f) ==
  /\ finisher[f].at = "fetch"
  /\ LET job == provider[finisher[f].job]
         timedOut == finisher[f].timedOut IN
     \/ job = "completed" /\ FinisherTo(f, "complete")
     \/ (job = "error" \/ timedOut) /\ FinisherTo(f, "fail")
     \/ ~timedOut /\ EndFinisher(f)
  /\ UNCHANGED <<rows, provider, purges, request, deleter, lost, faults>>

MatchingById(w) == {d \in Document : IsInFlight(row[d]) /\ row[d].id = w.id}

\* The predicate inFlight: this row, this job id, not yet settled.
Matching(w) == {d \in Document : IsInFlight(row[d]) /\ row[d].id = w.id /\ row[d].job = w.job}

CompleteTranscript(f) ==
  /\ finisher[f].at = "complete"
  /\ LET w == finisher[f] IN
     \/ \E d \in Matching(w) :
          /\ row' = [row EXCEPT ![d].status = "completed", ![d].secret = None, ![d].age = 0,
                                ![d].corrected = FALSE, ![d].text = w.job]
          /\ settledBy' = [settledBy EXCEPT ![d] = w.run]
          /\ DeletesCopy(f)
     \/ Matching(w) = {} /\ EndFinisher(f) /\ UNCHANGED rows
  /\ UNCHANGED <<provider, purges, request, deleter, lost, faults>>

\* The completion transaction rolls back: rethrown until the age limit.
CompletionFails(f) ==
  /\ finisher[f].at = "complete"
  /\ \/ finisher[f].timedOut /\ FinisherTo(f, "fail")
     \/ ~finisher[f].timedOut /\ EndFinisher(f)
  /\ UNCHANGED <<rows, provider, purges, request, deleter, lost, faults>>

FailTranscript(f) ==
  /\ finisher[f].at = "fail"
  /\ LET w == finisher[f] IN
     \/ \E d \in Matching(w) :
          /\ row' = [row EXCEPT ![d].status = "failed", ![d].secret = None, ![d].age = 0]
          /\ settledBy' = [settledBy EXCEPT ![d] = w.run]
          /\ IF w.job = None THEN EndFinisher(f) ELSE DeletesCopy(f)
     \/ Matching(w) = {} /\ EndFinisher(f) /\ UNCHANGED rows
  /\ UNCHANGED <<provider, purges, request, deleter, lost, faults>>

DeleteProviderCopy(f) ==
  /\ finisher[f].at = "delete copy"
  /\ DeleteJobOrQueue(finisher[f].job)
  /\ EndFinisher(f)
  /\ UNCHANGED <<rows, request, deleter, lost, faults>>

FinisherDies(f) ==
  /\ finisher[f] # Idle /\ faults < MaxFaults
  /\ EndFinisher(f)
  /\ lost' = IF finisher[f].at = "delete copy" THEN lost \cup {finisher[f].job} ELSE lost
  /\ faults' = faults + 1
  /\ UNCHANGED <<rows, provider, purges, request, deleter>>

(***************************************************************************)
(* drainTranscriptPurges, the trigger, deletions and corrections           *)
(***************************************************************************)
\* A purge row goes once the provider says the copy is gone.
DrainDelete(j) ==
  /\ j \in purges
  /\ provider' = [provider EXCEPT ![j] = "deleted"]
  /\ UNCHANGED <<rows, purges, procs, lost, faults>>
DrainForget(j) ==
  /\ j \in purges /\ provider[j] = "deleted"
  /\ purges' = purges \ {j}
  /\ UNCHANGED <<rows, provider, procs, lost, faults>>

\* Seven days of refusals (PURGE_GIVE_UP_MS).
DrainGiveUp(j) ==
  /\ j \in purges /\ provider[j] # "deleted" /\ faults < MaxFaults
  /\ purges' = purges \ {j}
  /\ lost' = lost \cup {j} /\ faults' = faults + 1
  /\ UNCHANGED <<rows, provider, procs>>

QueuePurgeUnchecked(d) ==
  purges' = IF IsInFlight(row[d]) THEN purges \cup {row[d].job} ELSE purges

\* queue_transcript_purge, run by the database before a row is deleted.
QueuePurge(d) ==
  purges' = IF IsInFlight(row[d]) /\ row[d].job # None
              THEN purges \cup {row[d].job} ELSE purges

DeleteRead(x, d) ==
  /\ deleter[x] = Idle /\ IsRow(row[d])
  /\ deleter' = [deleter EXCEPT ![x] =
       [at |-> "delete", id |-> row[d].id,
        job |-> IF row[d].status = "completed" THEN row[d].job ELSE None]]
  /\ UNCHANGED <<rows, provider, purges, request, finisher, lost, faults>>

DeleteTranscript(x) ==
  /\ deleter[x].at = "delete"
  /\ LET own == {d \in Document : IsRow(row[d]) /\ row[d].id = deleter[x].id} IN
     \/ \E d \in own : /\ QueuePurge(d)
                       /\ row' = [row EXCEPT ![d] = NoRow]
                       /\ settledBy' = [settledBy EXCEPT ![d] = None]
     \/ own = {} /\ UNCHANGED <<rows, purges>>
  /\ deleter' = [deleter EXCEPT ![x] =
       IF @.job = None THEN Idle ELSE [at |-> "delete job", job |-> @.job]]
  /\ UNCHANGED <<provider, request, finisher, lost, faults>>

\* Best effort: nothing is queued when the provider refuses.
DeleteFinishedJob(x) ==
  /\ deleter[x].at = "delete job"
  /\ \/ provider' = [provider EXCEPT ![deleter[x].job] = "deleted"]
     \/ UNCHANGED provider
  /\ deleter' = [deleter EXCEPT ![x] = Idle]
  /\ UNCHANGED <<rows, purges, request, finisher, lost, faults>>

\* The document, or its matter, is deleted and the transcript with it.
DocumentDeleted(d) ==
  /\ row[d] # NoDocument
  /\ QueuePurge(d)
  /\ row' = [row EXCEPT ![d] = NoDocument]
  /\ settledBy' = [settledBy EXCEPT ![d] = None]
  /\ UNCHANGED <<provider, procs, lost, faults>>

\* writeSegment, renameTranscriptSpeaker, changeSpeakerForSelection: under
\* the row lock, only on a completed transcript.
CorrectTranscript(d) ==
  /\ row[d].status = "completed" /\ ~row[d].corrected
  /\ row' = [row EXCEPT ![d].corrected = TRUE]
  /\ UNCHANGED <<settledBy, provider, purges, procs, lost, faults>>

(***************************************************************************)
(* The provider and the clock                                              *)
(***************************************************************************)
JobEnds(r) ==
  /\ provider[r] = "running"
  /\ \E answer \in {"completed", "error"} : provider' = [provider EXCEPT ![r] = answer]
  /\ UNCHANGED <<rows, purges, procs, lost, faults>>

Ages(d) ==
  /\ IsInFlight(row[d]) /\ row[d].age < 2
  /\ row' = [row EXCEPT ![d].age = @ + 1]
  /\ UNCHANGED <<settledBy, provider, purges, procs, lost, faults>>

RequestStep(r) ==
  \/ LookForCopy(r) \/ CopyTranscript(r) \/ ClaimRow(r)
  \/ SubmitJob(r) \/ SubmitRefused(r) \/ SubmitReplyLost(r)
  \/ FailJob(r) \/ AttachJob(r) \/ PurgeOrphan(r) \/ RequestDies(r)

FinisherStep(f) ==
  \/ FetchJob(f) \/ CompleteTranscript(f) \/ CompletionFails(f)
  \/ FailTranscript(f) \/ DeleteProviderCopy(f) \/ FinisherDies(f)

Next ==
  \/ \E r \in Request, d \in Document, replace \in BOOLEAN : RequestTranscript(r, d, replace)
  \/ \E r \in Request : RequestStep(r) \/ JobEnds(r)
  \/ \E f \in Finisher, d \in Document : ReadTranscript(f, d)
  \/ \E f \in Finisher : FinisherStep(f)
  \/ \E j \in Request : DrainDelete(j) \/ DrainForget(j) \/ DrainGiveUp(j)
  \/ \E x \in Deleter, d \in Document : DeleteRead(x, d)
  \/ \E x \in Deleter : DeleteTranscript(x) \/ DeleteFinishedJob(x)
  \/ \E d \in Document : DocumentDeleted(d) \/ CorrectTranscript(d) \/ Ages(d)

Spec == Init /\ [][Next]_vars

\* Requests and finishers go on until they end or die; the cron keeps coming,
\* so a row in flight is read again and again while finishers end; a purge is
\* retried until the provider deletes the copy; the clock moves.
Fairness ==
  /\ \A r \in Request : WF_vars(RequestStep(r))
  /\ \A f \in Finisher : WF_vars(FinisherStep(f))
  /\ \A d \in Document : SF_vars(\E f \in Finisher : ReadTranscript(f, d)) /\ WF_vars(Ages(d))
  /\ \A j \in Request : WF_vars(DrainDelete(j)) /\ WF_vars(DrainForget(j))

FairSpec == Spec /\ Fairness

-----------------------------------------------------------------------------
(* Properties *)

\* Rows have the type of their columns, and a document has one row at most.
TypeOK ==
  /\ row \in [Document -> Transcript \cup {NoRow, NoDocument}]
  /\ provider \in [Request -> Held \cup {"none", "deleted"}]
  /\ purges \subseteq Request /\ lost \subseteq Request
  /\ settledBy \in [Document -> Request \cup {None}]
  /\ faults \in 0 .. MaxFaults

\* Who still knows the job and will have the provider delete its copy.
Tracked(j) ==
  \/ j \in purges
  \/ \E d \in Document : IsInFlight(row[d]) /\ row[d].job = j
  \/ request[j].at \in {"attach", "orphan"}
  \/ \E f \in Finisher : finisher[f].at = "delete copy" /\ finisher[f].job = j

\* No copy of a recording is forgotten at the provider: whatever deletes,
\* claims, failures, timeouts and duplicate webhooks do, its job id is in a
\* row in flight, in the purge queue or in running hands, unless a death, a
\* lost reply or a give-up dropped it.
EveryCopyIsTracked ==
  \A j \in Request : provider[j] \in Held => Tracked(j) \/ j \in lost

\* A transcript shows the result of the latest run of its document, or a
\* sibling's copy, never the late answer of a run that was replaced.
CompletedShowsLatestRun ==
  \A d \in Document : row[d].status = "completed" =>
    \/ row[d].job = None
    \/ row[d].text = row[d].job /\ row[d].job = row[d].run

\* A run that reached the provider is completed or failed only by a finisher
\* that looked at that very run.
AttachedRunsSettleThemselves ==
  \A d \in Document : IsRow(row[d]) /\ row[d].job # None =>
    settledBy[d] \in {None, row[d].run}

\* Every run ends: no transcript stays "Transcribing" for ever.
RunsSettle ==
  \A d \in Document, r \in Request :
    IsInFlight(row[d]) /\ row[d].run = r ~> ~(IsInFlight(row[d]) /\ row[d].run = r)

\* Every copy the provider was given is deleted there in the end.
CopiesAreDeleted ==
  \A j \in Request : provider[j] \in Held ~> provider[j] = "deleted" \/ j \in lost

\* What jobs.ts says of a stale claim: without a job id its request died
\* before it reached the provider.
StaleClaimNeverReachedProvider ==
  \A d \in Document :
    /\ IsInFlight(row[d]) /\ row[d].job = None /\ row[d].age > 0
    /\ request[row[d].run].at = "done"
    => provider[row[d].run] = "none"

\* What the refusal of requestTranscript says: corrections are replaced only
\* by a run whose caller confirmed it.
CorrectionsReplacedOnConsent ==
  \A d \in Document, r \in Request :
    /\ row[d].status = "queued" /\ row[d].run = r /\ row[d].corrected
    /\ request[r].at = "submit"
    => request[r].replace
=============================================================================
