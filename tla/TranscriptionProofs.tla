------------------------ MODULE TranscriptionProofs ------------------------
(***************************************************************************)
(* What Transcription keeps for any documents, requests, finishers and     *)
(* deleters, and any budget of faults.  The argument: while a row is in    *)
(* flight its secret names its run and nobody else settles it; a job id    *)
(* that is in the row is that of the row's run, and by then the request of *)
(* the run has ended (RowsKeepTheirRun), so nothing but a finisher of that *)
(* very job takes the id out of a row in flight, and it has the copy in    *)
(* its hands when it does.                                                 *)
(***************************************************************************)
EXTENDS Transcription, TLAPS

\* What a call of requestTranscript carries from one step to the next.
RequestStates ==
  {Idle, Done}
  \cup [at : {"lookup"}, doc : Document, replace : BOOLEAN, existed : BOOLEAN, mayReuse : BOOLEAN]
  \cup [at : {"copy"}, doc : Document, existed : BOOLEAN, text : Request \cup {None}, corrected : BOOLEAN]
  \cup [at : {"claim"}, doc : Document, replace : BOOLEAN, existed : BOOLEAN]
  \cup [at : {"submit"}, doc : Document, replace : BOOLEAN]
  \cup [at : {"attach", "orphan", "fail"}, doc : Document]

\* What a finisher has read; a job id comes with the run it belongs to.
Readings ==
  {w \in [at : {"fetch", "complete", "fail"}, id : Request, job : Request \cup {None},
          run : Request, timedOut : BOOLEAN] :
     w.job \in {None, w.run} /\ (w.job = None => w.at = "fail")}

FinisherStates == {Idle} \cup Readings \cup [at : {"delete copy"}, job : Request]

DeleterStates ==
  {Idle} \cup [at : {"delete"}, id : Request, job : Request \cup {None}]
         \cup [at : {"delete job"}, job : Request]

ProcTypes ==
  /\ request \in [Request -> RequestStates]
  /\ finisher \in [Finisher -> FinisherStates]
  /\ deleter \in [Deleter -> DeleterStates]

\* In flight, the secret is that of the run and nobody has settled it;
\* settled, there is no secret.  A job id is the run's.
KeepsItsRun(t, by) ==
  IsRow(t) =>
    /\ t.job \in {None, t.run}
    /\ IF IsInFlight(t) THEN t.secret = t.run /\ by = None ELSE t.secret = None

\* An attached job's request has ended.
RowsKeepTheirRun ==
  \A d \in Document :
    /\ KeepsItsRun(row[d], settledBy[d])
    /\ IsInFlight(row[d]) /\ row[d].job # None => request[row[d].job] = Done

IInv ==
  /\ TypeOK /\ ProcTypes /\ RowsKeepTheirRun
  /\ EveryCopyIsTracked /\ CompletedShowsLatestRun /\ AttachedRunsSettleThemselves

-----------------------------------------------------------------------------
\* The fields of what a request carries.
LEMMA RequestFields ==
  ASSUME NEW q \in RequestStates
  PROVE  /\ q.at \notin {"idle", "done"} => q.doc \in Document /\ q # Done
         /\ q.at \in {"lookup", "copy", "claim"} => q.existed \in BOOLEAN
         /\ q.at \in {"lookup", "claim", "submit"} => q.replace \in BOOLEAN
         /\ q.at = "copy" => q.text \in Request \cup {None} /\ q.corrected \in BOOLEAN
  BY DEF RequestStates, Idle, Done

\* The fields of what a finisher holds.
LEMMA FinisherFields ==
  ASSUME NEW w \in FinisherStates
  PROVE  /\ w.at \in {"fetch", "complete", "fail"} => w \in Readings
         /\ w.at \in {"fetch", "complete", "fail"} =>
              /\ w.id \in Request /\ w.run \in Request
              /\ w.job \in {None, w.run} /\ w.timedOut \in BOOLEAN
         /\ w.at \in {"fetch", "complete"} => w.job \in Request
         /\ w.at = "delete copy" => w.job \in Request
  <1>1. CASE w = Idle
    BY <1>1 DEF Idle
  <1>2. CASE w \in Readings
    BY <1>2 DEF Readings
  <1>3. CASE w \in [at : {"delete copy"}, job : Request]
    BY <1>3
  <1> QED BY <1>1, <1>2, <1>3 DEF FinisherStates

\* The fields of what a deleter holds.
LEMMA DeleterFields ==
  ASSUME NEW w \in DeleterStates
  PROVE  /\ w.at = "delete" => w.id \in Request /\ w.job \in Request \cup {None}
         /\ w.at = "delete job" => w.job \in Request
  <1>1. CASE w = Idle
    BY <1>1 DEF Idle
  <1>2. CASE w \in [at : {"delete"}, id : Request, job : Request \cup {None}]
    BY <1>2
  <1>3. CASE w \in [at : {"delete job"}, job : Request]
    BY <1>3
  <1> QED BY <1>1, <1>2, <1>3 DEF DeleterStates

\* The fields of a row.
LEMMA RowFields ==
  ASSUME TypeOK, NEW d \in Document, IsRow(row[d])
  PROVE  /\ row[d] \in Transcript
         /\ row[d].id \in Request /\ row[d].run \in Request /\ row[d].status \in Statuses
         /\ row[d].job \in Request \cup {None} /\ row[d].secret \in Request \cup {None}
         /\ row[d].age \in 0 .. 2 /\ row[d].corrected \in BOOLEAN
         /\ row[d].text \in Request \cup {None}
  <1>1. row[d] \in Transcript \cup {NoRow, NoDocument}
    BY DEF TypeOK
  <1>2. NoRow.status \notin Statuses /\ NoDocument.status \notin Statuses
    BY DEF NoRow, NoDocument, Statuses, InFlight
  <1>3. row[d] \in Transcript
    BY <1>1, <1>2 DEF IsRow
  <1> QED BY <1>3 DEF Transcript

-----------------------------------------------------------------------------
\* What rows say of their runs, of what they show and of who settled them.
RowProperties == RowsKeepTheirRun /\ CompletedShowsLatestRun /\ AttachedRunsSettleThemselves

\* A step that writes no row keeps that, as long as no request that has
\* ended comes back.
LEMMA SameRows ==
  ASSUME RowProperties, TypeOK, UNCHANGED rows,
         \A r \in Request : request[r] = Done => request'[r] = Done
  PROVE  RowProperties'
  <1>1. ASSUME NEW d \in Document, IsInFlight(row[d]), row[d].job # None
        PROVE  request'[row[d].job] = Done
    BY <1>1, RowFields DEF RowProperties, RowsKeepTheirRun, IsInFlight, IsRow, Statuses
  <1> QED
    BY <1>1
    DEF RowProperties, RowsKeepTheirRun, CompletedShowsLatestRun,
        AttachedRunsSettleThemselves, KeepsItsRun, IsRow, IsInFlight, rows

\* A step that writes one row keeps it if the new row does.
LEMMA OneRow ==
  ASSUME RowProperties, TypeOK, NEW d \in Document,
         \A e \in Document \ {d} : row'[e] = row[e] /\ settledBy'[e] = settledBy[e],
         \A r \in Request : request[r] = Done => request'[r] = Done,
         KeepsItsRun(row'[d], settledBy'[d]),
         IsInFlight(row'[d]) /\ row'[d].job # None => request'[row'[d].job] = Done,
         row'[d].status = "completed" =>
           row'[d].job = None \/ (row'[d].text = row'[d].job /\ row'[d].job = row'[d].run),
         IsRow(row'[d]) /\ row'[d].job # None => settledBy'[d] \in {None, row'[d].run}
  PROVE  RowProperties'
  <1>1. ASSUME NEW e \in Document, e # d, IsInFlight(row[e]), row[e].job # None
        PROVE  request'[row[e].job] = Done
    BY <1>1, RowFields DEF RowProperties, RowsKeepTheirRun, IsInFlight, IsRow, Statuses
  <1>2. RowsKeepTheirRun'
    BY <1>1 DEF RowProperties, RowsKeepTheirRun, KeepsItsRun, IsRow, IsInFlight
  <1>3. CompletedShowsLatestRun'
    BY DEF RowProperties, CompletedShowsLatestRun
  <1>4. AttachedRunsSettleThemselves'
    BY DEF RowProperties, AttachedRunsSettleThemselves, IsRow
  <1> QED BY <1>2, <1>3, <1>4 DEF RowProperties

\* A written row is typed if the new one is, and the others stay.
LEMMA OneRowTypes ==
  ASSUME TypeOK, NEW d \in Document, NEW t \in Transcript \cup {NoRow, NoDocument},
         NEW by \in Request \cup {None},
         row' = [row EXCEPT ![d] = t], settledBy' = [settledBy EXCEPT ![d] = by]
  PROVE  /\ row' \in [Document -> Transcript \cup {NoRow, NoDocument}]
         /\ settledBy' \in [Document -> Request \cup {None}]
         /\ row'[d] = t /\ settledBy'[d] = by
         /\ \A e \in Document \ {d} : row'[e] = row[e] /\ settledBy'[e] = settledBy[e]
  BY DEF TypeOK

\* A request is still at the step it was at, or the one that moved has ended
\* or was not in possession of a job.
LEMMA OtherRequests ==
  ASSUME ProcTypes, NEW r \in Request, NEW q \in RequestStates, request[r] # Done,
         request' = [request EXCEPT ![r] = q]
  PROVE  /\ request' \in [Request -> RequestStates]
         /\ request'[r] = q
         /\ \A s \in Request \ {r} : request'[s] = request[s]
         /\ \A s \in Request : request[s] = Done => request'[s] = Done
  BY DEF ProcTypes

-----------------------------------------------------------------------------
\* An empty database satisfies the invariant.
LEMMA InitIInv == Init => IInv
  <1> SUFFICES ASSUME Init PROVE IInv
    OBVIOUS
  <1>1. TypeOK
    BY TranscriptionAssumption DEF Init, TypeOK, Held
  <1>2. ProcTypes
    BY DEF Init, ProcTypes, RequestStates, FinisherStates, DeleterStates
  <1>3. \A d \in Document : ~IsRow(row[d]) /\ row[d].status = "none"
    BY DEF Init, IsRow, NoRow, Statuses, InFlight
  <1>4. RowsKeepTheirRun
    BY <1>3 DEF RowsKeepTheirRun, KeepsItsRun, IsRow, IsInFlight, Statuses
  <1>5. EveryCopyIsTracked
    BY DEF Init, EveryCopyIsTracked, Held
  <1>6. CompletedShowsLatestRun /\ AttachedRunsSettleThemselves
    BY <1>3 DEF CompletedShowsLatestRun, AttachedRunsSettleThemselves
  <1> QED BY <1>1, <1>2, <1>4, <1>5, <1>6 DEF IInv

\* A request that reads or decides, and holds no job, disturbs nothing.
LEMMA RequestMoves ==
  ASSUME IInv, NEW r \in Request, NEW q \in RequestStates,
         request[r] # Done, request[r].at \notin {"attach", "orphan"},
         request' = [request EXCEPT ![r] = q],
         UNCHANGED <<rows, provider, purges, finisher, deleter, lost, faults>>
  PROVE  IInv'
  <1>1. /\ request' \in [Request -> RequestStates]
        /\ \A s \in Request \ {r} : request'[s] = request[s]
        /\ \A s \in Request : request[s] = Done => request'[s] = Done
    BY OtherRequests DEF IInv
  <1>2. TypeOK' /\ ProcTypes'
    BY <1>1 DEF IInv, TypeOK, ProcTypes, rows
  <1>3. RowProperties'
    BY <1>1, SameRows DEF IInv, RowProperties
  <1>4. EveryCopyIsTracked'
    <2> SUFFICES ASSUME NEW j \in Request, provider[j] \in Held, j \notin lost
                 PROVE  Tracked(j)'
      BY DEF EveryCopyIsTracked
    <2>1. Tracked(j)
      BY DEF IInv, EveryCopyIsTracked
    <2> QED BY <2>1, <1>1 DEF Tracked, rows
  <1> QED BY <1>2, <1>3, <1>4 DEF IInv, RowProperties

\* So does a finisher that reads or decides.
LEMMA FinisherMoves ==
  ASSUME IInv, NEW f \in Finisher, NEW w \in FinisherStates,
         finisher[f].at # "delete copy",
         finisher' = [finisher EXCEPT ![f] = w],
         UNCHANGED <<rows, provider, purges, request, deleter, lost, faults>>
  PROVE  IInv'
  <1>1. /\ finisher' \in [Finisher -> FinisherStates]
        /\ \A g \in Finisher \ {f} : finisher'[g] = finisher[g]
    BY DEF IInv, ProcTypes
  <1>2. TypeOK' /\ ProcTypes'
    BY <1>1 DEF IInv, TypeOK, ProcTypes, rows
  <1>3. RowProperties'
    BY SameRows DEF IInv, RowProperties
  <1>4. EveryCopyIsTracked'
    <2> SUFFICES ASSUME NEW j \in Request, provider[j] \in Held, j \notin lost
                 PROVE  Tracked(j)'
      BY DEF EveryCopyIsTracked
    <2>1. Tracked(j)
      BY DEF IInv, EveryCopyIsTracked
    <2> QED BY <2>1, <1>1 DEF Tracked, rows
  <1> QED BY <1>2, <1>3, <1>4 DEF IInv, RowProperties

\* The read of requestTranscript.
LEMMA RequestTranscriptKeepsIInv ==
  ASSUME IInv, NEW r \in Request, NEW d \in Document, NEW replace \in BOOLEAN,
         RequestTranscript(r, d, replace)
  PROVE  IInv'
  <1> DEFINE q == [at |-> "lookup", doc |-> d, replace |-> replace, existed |-> IsRow(row[d]),
                   mayReuse |-> \/ row[d] = NoRow
                                \/ row[d].status = "failed" /\ row[d].text = None]
  <1>1. q \in RequestStates
    BY DEF RequestStates, IsRow
  <1>2. request[r] = Idle /\ request' = [request EXCEPT ![r] = q]
    BY DEF RequestTranscript
  <1>3. request[r] # Done /\ request[r].at \notin {"attach", "orphan"}
    BY <1>2 DEF Idle, Done
  <1> QED BY <1>1, <1>2, <1>3, RequestMoves DEF RequestTranscript

\* The search for a sibling's transcript.
LEMMA LookForCopyKeepsIInv ==
  ASSUME IInv, NEW r \in Request, LookForCopy(r)
  PROVE  IInv'
  <1> DEFINE q == request[r]
  <1>1. /\ q \in RequestStates /\ q.at = "lookup" /\ q # Done
        /\ q.doc \in Document /\ q.existed \in BOOLEAN /\ q.replace \in BOOLEAN
    BY RequestFields DEF LookForCopy, IInv, ProcTypes
  <1>2. ASSUME NEW c \in Copies(q.doc),
               request' = [request EXCEPT ![r] =
                 [at |-> "copy", doc |-> q.doc, existed |-> q.existed,
                  text |-> row[c].text, corrected |-> row[c].corrected]]
        PROVE  IInv'
    <2>1. c \in Document /\ IsRow(row[c])
      BY DEF Copies, IsRow, Statuses
    <2>2. row[c].text \in Request \cup {None} /\ row[c].corrected \in BOOLEAN
      BY <2>1, RowFields DEF IInv
    <2>3. [at |-> "copy", doc |-> q.doc, existed |-> q.existed,
           text |-> row[c].text, corrected |-> row[c].corrected] \in RequestStates
      BY <1>1, <2>2 DEF RequestStates
    <2> QED BY <1>1, <1>2, <2>3, RequestMoves DEF LookForCopy
  <1>3. CASE request' = [request EXCEPT ![r] =
               [at |-> "claim", doc |-> q.doc, replace |-> q.replace, existed |-> q.existed]]
    <2>1. [at |-> "claim", doc |-> q.doc, replace |-> q.replace, existed |-> q.existed] \in RequestStates
      BY <1>1 DEF RequestStates
    <2> QED BY <1>1, <1>3, <2>1, RequestMoves DEF LookForCopy
  <1>4. CASE EndRequest(r)
    <2>1. Done \in RequestStates
      BY DEF RequestStates
    <2> QED BY <1>1, <1>4, <2>1, RequestMoves DEF LookForCopy, EndRequest
  <1> QED BY <1>2, <1>3, <1>4 DEF LookForCopy

\* The provider refuses the job.
LEMMA SubmitRefusedKeepsIInv ==
  ASSUME IInv, NEW r \in Request, SubmitRefused(r)
  PROVE  IInv'
  <1>1. request[r] \in RequestStates /\ request[r].at = "submit"
        /\ request[r] # Done /\ request[r].doc \in Document
    BY RequestFields DEF SubmitRefused, IInv, ProcTypes
  <1>2. [at |-> "fail", doc |-> request[r].doc] \in RequestStates
    BY <1>1 DEF RequestStates
  <1> QED BY <1>1, <1>2, RequestMoves DEF SubmitRefused, Goto

\* A finisher's read of a row in flight.
LEMMA ReadTranscriptKeepsIInv ==
  ASSUME IInv, NEW f \in Finisher, NEW d \in Document, ReadTranscript(f, d)
  PROVE  IInv'
  <1> DEFINE w == [at |-> IF row[d].job = None THEN "fail" ELSE "fetch",
                   id |-> row[d].id, job |-> row[d].job, run |-> row[d].run,
                   timedOut |-> row[d].age = 2]
  <1>1. IsRow(row[d])
    BY DEF ReadTranscript, IsInFlight, IsRow, Statuses
  <1>2. row[d].id \in Request /\ row[d].run \in Request /\ row[d].job \in {None, row[d].run}
    BY <1>1, RowFields DEF IInv, RowsKeepTheirRun, KeepsItsRun
  <1>3. w \in Readings
    BY <1>2 DEF Readings
  <1>4. w \in FinisherStates
    BY <1>3 DEF FinisherStates
  <1>5. finisher[f].at # "delete copy" /\ finisher' = [finisher EXCEPT ![f] = w]
    BY DEF ReadTranscript, Idle
  <1> QED BY <1>4, <1>5, FinisherMoves DEF ReadTranscript

\* A finisher that goes on or ends without having settled anything.
LEMMA FinisherGoesOn ==
  ASSUME IInv, NEW f \in Finisher, finisher[f].at \in {"fetch", "complete"},
         \/ FinisherTo(f, "complete") \/ FinisherTo(f, "fail") \/ EndFinisher(f),
         UNCHANGED <<rows, provider, purges, request, deleter, lost, faults>>
  PROVE  IInv'
  <1>1. finisher[f] \in Readings /\ finisher[f].job # None
    BY FinisherFields, TranscriptionAssumption DEF IInv, ProcTypes
  <1>2. ASSUME NEW at \in {"complete", "fail"}
        PROVE  [finisher[f] EXCEPT !.at = at] \in FinisherStates
    BY <1>1 DEF Readings, FinisherStates
  <1>3. Idle \in FinisherStates
    BY DEF FinisherStates
  <1>4. CASE EndFinisher(f)
    BY <1>3, <1>4, FinisherMoves DEF EndFinisher
  <1>5. ASSUME NEW at \in {"complete", "fail"}, FinisherTo(f, at)
        PROVE  IInv'
    <2>1. finisher' = [finisher EXCEPT ![f] = [finisher[f] EXCEPT !.at = at]]
      BY <1>5 DEF FinisherTo
    <2> QED BY <2>1, <1>2, FinisherMoves
  <1> QED BY <1>4, <1>5

-----------------------------------------------------------------------------
\* A request that has ended its search takes a row that is not in flight,
\* and leaves no job id in it.
LEMMA RowTaken ==
  ASSUME IInv, NEW r \in Request, NEW q \in RequestStates, NEW d \in Document, NEW t \in Transcript,
         request[r].at \in {"copy", "claim"}, ~IsInFlight(row[d]),
         t.job = None, KeepsItsRun(t, None),
         row' = [row EXCEPT ![d] = t], settledBy' = [settledBy EXCEPT ![d] = None],
         request' = [request EXCEPT ![r] = q],
         UNCHANGED <<provider, purges, finisher, deleter, lost, faults>>
  PROVE  IInv'
  <1>1. request[r] # Done
    BY DEF Done
  <1>2. /\ request' \in [Request -> RequestStates]
        /\ \A s \in Request \ {r} : request'[s] = request[s]
        /\ \A s \in Request : request[s] = Done => request'[s] = Done
    BY <1>1, OtherRequests DEF IInv
  <1>3. TypeOK' /\ ProcTypes'
    BY <1>2, OneRowTypes DEF IInv, TypeOK, ProcTypes
  <1>4. RowProperties'
    <2>1. TypeOK /\ RowProperties
      BY DEF IInv, RowProperties
    <2>2. /\ row'[d] = t /\ settledBy'[d] = None
          /\ \A e \in Document \ {d} : row'[e] = row[e] /\ settledBy'[e] = settledBy[e]
      BY <2>1, OneRowTypes
    <2>3. KeepsItsRun(row'[d], settledBy'[d]) /\ row'[d].job = None
      BY <2>2
    <2> QED BY <2>1, <2>2, <2>3, <1>2, OneRow
  <1>5. EveryCopyIsTracked'
    <2> SUFFICES ASSUME NEW j \in Request, provider[j] \in Held, j \notin lost
                 PROVE  Tracked(j)'
      BY DEF EveryCopyIsTracked
    <2>1. Tracked(j)
      BY DEF IInv, EveryCopyIsTracked
    <2>2. \A e \in Document \ {d} : row'[e] = row[e]
      BY DEF IInv, TypeOK
    <2> QED BY <2>1, <2>2, <1>2 DEF Tracked
  <1> QED BY <1>3, <1>4, <1>5 DEF IInv, RowProperties

\* A row that a request may take is not in flight, and its id is a request's.
LEMMA MayTakeFacts ==
  ASSUME IInv, NEW r \in Request, request[r].doc \in Document, MayTake(request[r])
  PROVE  /\ ~IsInFlight(row[request[r].doc])
         /\ RowId(r, request[r].doc) \in Request
  <1> DEFINE d == request[r].doc
  <1>1. ~IsInFlight(row[d])
    BY DEF MayTake, Settled, IsInFlight, NoRow, InFlight
  <1>2. IsRow(row[d]) => row[d].id \in Request
    BY RowFields DEF IInv
  <1> QED BY <1>1, <1>2 DEF RowId

\* A request that may not take the row ends.
LEMMA RequestGivesUp ==
  ASSUME IInv, NEW r \in Request, request[r].at \notin {"done", "attach", "orphan"},
         EndRequest(r), UNCHANGED <<rows, provider, purges, finisher, deleter, lost, faults>>
  PROVE  IInv'
  <1>1. Done \in RequestStates /\ request[r] # Done
    BY DEF RequestStates, Done
  <1> QED BY <1>1, RequestMoves DEF EndRequest

\* A sibling's transcript is copied.
LEMMA CopyTranscriptKeepsIInv ==
  ASSUME IInv, NEW r \in Request, CopyTranscript(r)
  PROVE  IInv'
  <1> DEFINE q == request[r]
             t == [id |-> RowId(r, q.doc), run |-> r, status |-> "completed", job |-> None,
                   secret |-> None, age |-> 0, corrected |-> q.corrected, text |-> q.text]
  <1>1. /\ q \in RequestStates /\ q.at = "copy" /\ q.doc \in Document
        /\ q.text \in Request \cup {None} /\ q.corrected \in BOOLEAN
    BY RequestFields DEF CopyTranscript, IInv, ProcTypes
  <1>2. CASE MayTake(q)
    <2>1. ~IsInFlight(row[q.doc]) /\ RowId(r, q.doc) \in Request
      BY <1>1, <1>2, MayTakeFacts
    <2>2. t \in Transcript
      BY <1>1, <2>1 DEF Transcript, Statuses, InFlight
    <2>3. t.job = None /\ KeepsItsRun(t, None)
      BY DEF KeepsItsRun, IsInFlight, InFlight
    <2>4. Done \in RequestStates
      BY DEF RequestStates
    <2>5. /\ row' = [row EXCEPT ![q.doc] = t] /\ settledBy' = [settledBy EXCEPT ![q.doc] = None]
          /\ request' = [request EXCEPT ![r] = Done]
      BY <1>2 DEF CopyTranscript, EndRequest
    <2> HIDE DEF t
    <2> QED BY <1>1, <2>1, <2>2, <2>3, <2>4, <2>5, RowTaken DEF CopyTranscript
  <1>3. CASE ~MayTake(q)
    BY <1>1, <1>3, RequestGivesUp DEF CopyTranscript
  <1> QED BY <1>2, <1>3

\* The claim of a run.
LEMMA ClaimRowKeepsIInv ==
  ASSUME IInv, NEW r \in Request, ClaimRow(r)
  PROVE  IInv'
  <1> DEFINE q == request[r]
             old == row[q.doc]
             t == [id |-> RowId(r, q.doc), run |-> r, status |-> "queued", job |-> None,
                   secret |-> r, age |-> 0, corrected |-> IsRow(old) /\ old.corrected,
                   text |-> IF IsRow(old) THEN old.text ELSE None]
             next == [at |-> "submit", doc |-> q.doc, replace |-> q.replace]
  <1>1. q \in RequestStates /\ q.at = "claim" /\ q.doc \in Document /\ q.replace \in BOOLEAN
    BY RequestFields DEF ClaimRow, IInv, ProcTypes
  <1>2. CASE MayTake(q)
    <2>1. ~IsInFlight(old) /\ RowId(r, q.doc) \in Request
      BY <1>1, <1>2, MayTakeFacts
    <2>2. t.corrected \in BOOLEAN /\ t.text \in Request \cup {None}
      BY <1>1, RowFields DEF IInv, IsRow
    <2>3. t \in Transcript
      BY <2>1, <2>2 DEF Transcript, Statuses, InFlight
    <2>4. t.job = None /\ KeepsItsRun(t, None)
      BY DEF KeepsItsRun, IsInFlight, InFlight
    <2>5. next \in RequestStates
      BY <1>1 DEF RequestStates
    <2>6. /\ row' = [row EXCEPT ![q.doc] = t] /\ settledBy' = [settledBy EXCEPT ![q.doc] = None]
          /\ request' = [request EXCEPT ![r] = next]
      BY <1>2 DEF ClaimRow
    <2> HIDE DEF t, next
    <2> QED BY <1>1, <2>1, <2>3, <2>4, <2>5, <2>6, RowTaken DEF ClaimRow
  <1>3. CASE ~MayTake(q)
    BY <1>1, <1>3, RequestGivesUp DEF ClaimRow
  <1> QED BY <1>2, <1>3

\* The provider accepts a job: its request has the id in hand, or it is lost.
LEMMA SubmittedKeepsIInv ==
  ASSUME IInv, NEW r \in Request, SubmitJob(r) \/ SubmitReplyLost(r)
  PROVE  IInv'
  <1>1. request[r].at = "submit" /\ request[r].doc \in Document /\ request[r] # Done
    BY RequestFields DEF SubmitJob, SubmitReplyLost, IInv, ProcTypes
  <1>2. \A at \in {"attach", "fail"} : [at |-> at, doc |-> request[r].doc] \in RequestStates
    BY <1>1 DEF RequestStates
  <1>3. PICK at \in {"attach", "fail"} :
          /\ request' = [request EXCEPT ![r] = [at |-> at, doc |-> request[r].doc]]
          /\ at = "attach" \/ r \in lost'
    BY DEF SubmitJob, SubmitReplyLost, Goto
  <1>4. /\ request' \in [Request -> RequestStates] /\ request'[r].at = at
        /\ \A s \in Request \ {r} : request'[s] = request[s]
        /\ \A s \in Request : request[s] = Done => request'[s] = Done
    BY <1>1, <1>2, <1>3, OtherRequests DEF IInv
  <1>5. /\ provider' = [provider EXCEPT ![r] = "running"] /\ lost \subseteq lost'
        /\ lost' \subseteq lost \cup {r} /\ faults' \in 0 .. MaxFaults
        /\ UNCHANGED <<row, settledBy, purges, finisher, deleter>>
    BY TranscriptionAssumption DEF SubmitJob, SubmitReplyLost, rows, IInv, TypeOK
  <1>6. TypeOK' /\ ProcTypes'
    BY <1>4, <1>5 DEF IInv, TypeOK, ProcTypes, Held
  <1>7. RowProperties'
    BY <1>4, <1>5, SameRows DEF IInv, RowProperties, rows
  <1>8. EveryCopyIsTracked'
    <2> SUFFICES ASSUME NEW j \in Request, provider'[j] \in Held, j \notin lost'
                 PROVE  Tracked(j)'
      BY DEF EveryCopyIsTracked
    <2>1. CASE j = r
      BY <2>1, <1>3, <1>4 DEF Tracked
    <2>2. CASE j # r
      <3>1. provider[j] \in Held
        BY <2>2, <1>5 DEF IInv, TypeOK
      <3>2. Tracked(j)
        BY <3>1, <1>5 DEF IInv, EveryCopyIsTracked
      <3> QED BY <3>2, <2>2, <1>4, <1>5 DEF Tracked
    <2> QED BY <2>1, <2>2
  <1> QED BY <1>6, <1>7, <1>8 DEF IInv, RowProperties

-----------------------------------------------------------------------------
\* What a row that is settled without a result looks like.
FailedRow(t) == [t EXCEPT !.status = "failed", !.secret = None, !.age = 0]

\* A row's type, its age set apart: the provers mix up numbers and names.
AgeBand == 0 .. 2

LEMMA TranscriptShape ==
  /\ Transcript = [id : Request, run : Request, status : Statuses, job : Request \cup {None},
                   secret : Request \cup {None}, age : AgeBand, corrected : BOOLEAN,
                   text : Request \cup {None}]
  /\ 0 \in AgeBand /\ "failed" \in Statuses /\ "completed" \in Statuses
  BY DEF Transcript, AgeBand, Statuses

\* It keeps its job id and its run.
LEMMA FailedRowFields ==
  ASSUME NEW t \in Transcript
  PROVE  /\ FailedRow(t) \in Transcript
         /\ FailedRow(t).status = "failed" /\ FailedRow(t).secret = None
         /\ FailedRow(t).job = t.job /\ FailedRow(t).run = t.run
  BY TranscriptShape DEF FailedRow

\* failJob settles a row that its run still claims and that has no job id yet.
LEMMA FailJobKeepsIInv ==
  ASSUME IInv, NEW r \in Request, FailJob(r)
  PROVE  IInv'
  <1> DEFINE d == request[r].doc
  <1>1. /\ request[r] \in RequestStates /\ request[r].at = "fail"
        /\ request[r] # Done /\ d \in Document
    BY RequestFields DEF FailJob, IInv, ProcTypes
  <1>2. CASE ~StillClaimed(r)
    BY <1>1, <1>2, RequestGivesUp DEF FailJob
  <1>3. CASE StillClaimed(r)
    <2>1. IsRow(row[d]) /\ row[d].secret = r
      BY <1>3 DEF StillClaimed
    <2>2. row[d] \in Transcript /\ IsInFlight(row[d]) /\ row[d].run = r /\ row[d].job \in {None, r}
      BY <1>1, <2>1, RowFields, TranscriptionAssumption
      DEF IInv, RowsKeepTheirRun, KeepsItsRun
    <2>3. row[d].job = None
      BY <1>1, <2>2 DEF IInv, RowsKeepTheirRun
    <2>4. row' = [row EXCEPT ![d] = FailedRow(row[d])] /\ settledBy' = [settledBy EXCEPT ![d] = r]
      BY <1>1, <1>3 DEF FailJob, FailedRow, IInv, TypeOK
    <2>5. /\ row' \in [Document -> Transcript \cup {NoRow, NoDocument}]
          /\ settledBy' \in [Document -> Request \cup {None}]
          /\ row'[d] = FailedRow(row[d])
          /\ \A e \in Document \ {d} : row'[e] = row[e] /\ settledBy'[e] = settledBy[e]
      BY <1>1, <2>2, <2>4, FailedRowFields, OneRowTypes DEF IInv
    <2>6. row'[d].status = "failed" /\ row'[d].secret = None /\ row'[d].job = None
      BY <2>2, <2>3, <2>5, FailedRowFields
    <2>7. /\ request' \in [Request -> RequestStates]
          /\ \A s \in Request \ {r} : request'[s] = request[s]
          /\ \A s \in Request : request[s] = Done => request'[s] = Done
      <3>1. Done \in RequestStates
        BY DEF RequestStates
      <3> QED BY <1>1, <3>1, OtherRequests DEF FailJob, EndRequest, IInv
    <2>8. TypeOK' /\ ProcTypes'
      BY <2>5, <2>7 DEF FailJob, IInv, TypeOK, ProcTypes
    <2>9. RowProperties'
      <3>1. ~IsInFlight(row'[d]) /\ KeepsItsRun(row'[d], settledBy'[d])
        BY <2>6 DEF KeepsItsRun, IsInFlight, InFlight
      <3> QED BY <1>1, <2>5, <2>6, <2>7, <3>1, OneRow DEF IInv, RowProperties
    <2>10. EveryCopyIsTracked'
      <3> SUFFICES ASSUME NEW j \in Request, provider[j] \in Held, j \notin lost
                   PROVE  Tracked(j)'
        BY DEF EveryCopyIsTracked, FailJob
      <3>1. Tracked(j) /\ None # j
        BY TranscriptionAssumption DEF IInv, EveryCopyIsTracked
      <3> QED BY <3>1, <1>1, <2>3, <2>5, <2>7 DEF Tracked, FailJob
    <2> QED BY <2>8, <2>9, <2>10 DEF IInv, RowProperties
  <1> QED BY <1>2, <1>3

\* The job id goes into the row that its run still claims; otherwise the
\* request keeps it.
LEMMA AttachJobKeepsIInv ==
  ASSUME IInv, NEW r \in Request, AttachJob(r)
  PROVE  IInv'
  <1> DEFINE d == request[r].doc
  <1>1. /\ request[r] \in RequestStates /\ request[r].at = "attach"
        /\ request[r] # Done /\ d \in Document
    BY RequestFields DEF AttachJob, IInv, ProcTypes
  <1>2. CASE ~StillClaimed(r)
    <2>1. [at |-> "orphan", doc |-> d] \in RequestStates
      BY <1>1 DEF RequestStates
    <2>2. /\ request' \in [Request -> RequestStates]
          /\ request'[r].at = "orphan"
          /\ \A s \in Request \ {r} : request'[s] = request[s]
          /\ \A s \in Request : request[s] = Done => request'[s] = Done
      BY <1>1, <1>2, <2>1, OtherRequests DEF AttachJob, Goto, IInv
    <2>3. UNCHANGED <<rows, provider, purges, finisher, deleter, lost, faults>>
      BY <1>2 DEF AttachJob, rows
    <2>4. TypeOK' /\ ProcTypes'
      BY <2>2, <2>3 DEF IInv, TypeOK, ProcTypes, rows
    <2>5. RowProperties'
      BY <2>2, <2>3, SameRows DEF IInv, RowProperties
    <2>6. EveryCopyIsTracked'
      <3> SUFFICES ASSUME NEW j \in Request, provider[j] \in Held, j \notin lost
                   PROVE  Tracked(j)'
        BY <2>3 DEF EveryCopyIsTracked
      <3>1. Tracked(j)
        BY DEF IInv, EveryCopyIsTracked
      <3> QED BY <3>1, <1>1, <2>2, <2>3 DEF Tracked, rows
    <2> QED BY <2>4, <2>5, <2>6 DEF IInv, RowProperties
  <1>3. CASE StillClaimed(r)
    <2> DEFINE t == [row[d] EXCEPT !.status = "processing", !.job = r]
    <2>1. IsRow(row[d]) /\ row[d].secret = r
      BY <1>3 DEF StillClaimed
    <2>2. /\ row[d] \in Transcript /\ IsInFlight(row[d]) /\ row[d].run = r
          /\ row[d].job \in {None, r} /\ settledBy[d] = None
      BY <1>1, <2>1, RowFields, TranscriptionAssumption
      DEF IInv, RowsKeepTheirRun, KeepsItsRun
    <2>3. row[d].job = None
      BY <1>1, <2>2 DEF IInv, RowsKeepTheirRun
    <2>4. /\ t \in Transcript /\ t.status = "processing" /\ t.job = r /\ t.run = r /\ t.secret = r
      BY <2>1, <2>2 DEF Transcript, Statuses, InFlight
    <2>5. row' = [row EXCEPT ![d] = t] /\ settledBy' = [settledBy EXCEPT ![d] = None]
      BY <1>1, <1>3, <2>2 DEF AttachJob, IInv, TypeOK
    <2> HIDE DEF t
    <2>6. /\ row' \in [Document -> Transcript \cup {NoRow, NoDocument}]
          /\ settledBy' \in [Document -> Request \cup {None}]
          /\ row'[d] = t /\ settledBy'[d] = None
          /\ \A e \in Document \ {d} : row'[e] = row[e] /\ settledBy'[e] = settledBy[e]
      BY <1>1, <2>4, <2>5, OneRowTypes DEF IInv
    <2>7. /\ request' \in [Request -> RequestStates] /\ request'[r] = Done
          /\ \A s \in Request \ {r} : request'[s] = request[s]
          /\ \A s \in Request : request[s] = Done => request'[s] = Done
      <3>1. Done \in RequestStates
        BY DEF RequestStates
      <3> QED BY <1>1, <1>3, <3>1, OtherRequests DEF AttachJob, EndRequest, IInv
    <2>8. TypeOK' /\ ProcTypes'
      BY <2>6, <2>7 DEF AttachJob, IInv, TypeOK, ProcTypes
    <2>9. RowProperties'
      <3>1. KeepsItsRun(row'[d], settledBy'[d]) /\ row'[d].status # "completed"
        BY <2>4, <2>6 DEF KeepsItsRun, IsInFlight, InFlight
      <3> QED BY <1>1, <2>4, <2>6, <2>7, <3>1, OneRow DEF IInv, RowProperties
    <2>10. EveryCopyIsTracked'
      <3> SUFFICES ASSUME NEW j \in Request, provider[j] \in Held, j \notin lost
                   PROVE  Tracked(j)'
        BY DEF EveryCopyIsTracked, AttachJob
      <3>1. Tracked(j) /\ None # j
        BY TranscriptionAssumption DEF IInv, EveryCopyIsTracked
      <3>2. IsInFlight(row'[d]) /\ row'[d].job = r
        BY <2>4, <2>6 DEF IsInFlight, InFlight
      <3> QED BY <3>1, <3>2, <1>1, <2>3, <2>6, <2>7 DEF Tracked, AttachJob
    <2> QED BY <2>8, <2>9, <2>10 DEF IInv, RowProperties
  <1> QED BY <1>2, <1>3

-----------------------------------------------------------------------------
\* deleteJob, or the queue: the one copy is deleted or in the queue, and every
\* other copy is where it was.
LEMMA DeleteJobOrQueueFacts ==
  ASSUME TypeOK, NEW j \in Request, DeleteJobOrQueue(j)
  PROVE  /\ provider' \in [Request -> Held \cup {"none", "deleted"}] /\ purges' \subseteq Request
         /\ purges \subseteq purges'
         /\ \A i \in Request : provider'[i] \in Held => provider[i] \in Held
         /\ provider'[j] \in Held => j \in purges'
  BY DEF DeleteJobOrQueue, TypeOK, Held

\* A request deletes the copy whose id it could not write, or queues it.
LEMMA PurgeOrphanKeepsIInv ==
  ASSUME IInv, NEW r \in Request, PurgeOrphan(r)
  PROVE  IInv'
  <1>1. request[r].at = "orphan" /\ request[r] # Done /\ Done \in RequestStates
    BY DEF PurgeOrphan, Done, RequestStates
  <1>2. /\ request' \in [Request -> RequestStates]
        /\ \A s \in Request \ {r} : request'[s] = request[s]
        /\ \A s \in Request : request[s] = Done => request'[s] = Done
    BY <1>1, OtherRequests DEF PurgeOrphan, EndRequest, IInv
  <1>3. /\ provider' \in [Request -> Held \cup {"none", "deleted"}] /\ purges' \subseteq Request
        /\ purges \subseteq purges'
        /\ \A i \in Request : provider'[i] \in Held => provider[i] \in Held
        /\ provider'[r] \in Held => r \in purges'
    BY DeleteJobOrQueueFacts DEF PurgeOrphan, IInv
  <1>4. TypeOK' /\ ProcTypes'
    BY <1>2, <1>3 DEF PurgeOrphan, IInv, TypeOK, ProcTypes, rows
  <1>5. RowProperties'
    BY <1>2, SameRows DEF PurgeOrphan, IInv, RowProperties
  <1>6. EveryCopyIsTracked'
    <2> SUFFICES ASSUME NEW j \in Request, provider'[j] \in Held, j \notin lost
                 PROVE  Tracked(j)'
      BY DEF EveryCopyIsTracked, PurgeOrphan
    <2>1. Tracked(j)
      BY <1>3 DEF IInv, EveryCopyIsTracked
    <2> QED BY <2>1, <1>2, <1>3 DEF Tracked, PurgeOrphan, rows
  <1> QED BY <1>4, <1>5, <1>6 DEF IInv, RowProperties

\* A request dies; the id it had in hand is lost with it.
LEMMA RequestDiesKeepsIInv ==
  ASSUME IInv, NEW r \in Request, RequestDies(r)
  PROVE  IInv'
  <1>1. request[r] # Done /\ Done \in RequestStates
    BY DEF RequestDies, Done, RequestStates
  <1>2. /\ request' \in [Request -> RequestStates]
        /\ \A s \in Request \ {r} : request'[s] = request[s]
        /\ \A s \in Request : request[s] = Done => request'[s] = Done
    BY <1>1, OtherRequests DEF RequestDies, EndRequest, IInv
  <1>3. /\ lost' \subseteq Request /\ lost \subseteq lost' /\ faults' \in 0 .. MaxFaults
        /\ request[r].at \in {"attach", "orphan"} => r \in lost'
        /\ UNCHANGED <<row, settledBy, provider, purges, finisher, deleter>>
    BY TranscriptionAssumption DEF RequestDies, IInv, TypeOK, rows
  <1>4. TypeOK' /\ ProcTypes'
    BY <1>2, <1>3 DEF IInv, TypeOK, ProcTypes
  <1>5. RowProperties'
    BY <1>2, <1>3, SameRows DEF IInv, RowProperties, rows
  <1>6. EveryCopyIsTracked'
    <2> SUFFICES ASSUME NEW j \in Request, provider[j] \in Held, j \notin lost'
                 PROVE  Tracked(j)'
      BY <1>3 DEF EveryCopyIsTracked
    <2>1. Tracked(j)
      BY <1>3 DEF IInv, EveryCopyIsTracked
    <2> QED BY <2>1, <1>2, <1>3 DEF Tracked
  <1> QED BY <1>4, <1>5, <1>6 DEF IInv, RowProperties

-----------------------------------------------------------------------------
\* A finisher settles the row it matched; if the row had a job id, the
\* finisher holds it now.
LEMMA RowSettled ==
  ASSUME IInv, NEW f \in Finisher, NEW d \in Document,
         finisher[f].at \in {"complete", "fail"}, d \in Matching(finisher[f]),
         row' = [row EXCEPT ![d] = row'[d]], row'[d] \in Transcript,
         row'[d].status \in {"completed", "failed"}, row'[d].secret = None,
         row'[d].job = row[d].job, row'[d].run = row[d].run,
         row'[d].status = "completed" => row'[d].job # None /\ row'[d].text = row'[d].job,
         settledBy' = [settledBy EXCEPT ![d] = finisher[f].run],
         finisher' = [finisher EXCEPT ![f] = finisher'[f]], finisher'[f] \in FinisherStates,
         row[d].job # None => finisher'[f].at = "delete copy" /\ finisher'[f].job = row[d].job,
         UNCHANGED <<provider, purges, request, deleter, lost, faults>>
  PROVE  IInv'
  <1>1. /\ finisher[f] \in FinisherStates /\ finisher[f].run \in Request
        /\ finisher[f].job \in {None, finisher[f].run}
    BY FinisherFields DEF IInv, ProcTypes
  <1>2. IsInFlight(row[d]) /\ IsRow(row[d]) /\ row[d].job = finisher[f].job
    BY DEF Matching, IsInFlight, IsRow, Statuses
  <1>3. row[d].job \in {None, row[d].run} /\ row[d].run \in Request
    BY <1>2, RowFields DEF IInv, RowsKeepTheirRun, KeepsItsRun
  <1>4. row[d].job # None => finisher[f].run = row[d].run
    BY <1>1, <1>2, <1>3
  <1>5. /\ row' \in [Document -> Transcript \cup {NoRow, NoDocument}]
        /\ settledBy' \in [Document -> Request \cup {None}]
        /\ settledBy'[d] = finisher[f].run
        /\ \A e \in Document \ {d} : row'[e] = row[e] /\ settledBy'[e] = settledBy[e]
    BY <1>1, OneRowTypes DEF IInv
  <1>6. /\ finisher' \in [Finisher -> FinisherStates]
        /\ \A g \in Finisher \ {f} : finisher'[g] = finisher[g]
    BY DEF IInv, ProcTypes
  <1>7. TypeOK' /\ ProcTypes'
    BY <1>5, <1>6 DEF IInv, TypeOK, ProcTypes
  <1>8. RowProperties'
    <2>1. ~IsInFlight(row'[d]) /\ KeepsItsRun(row'[d], settledBy'[d])
      BY <1>3, <1>5 DEF KeepsItsRun, IsInFlight, InFlight
    <2>2. row'[d].status = "completed" =>
            row'[d].job = None \/ (row'[d].text = row'[d].job /\ row'[d].job = row'[d].run)
      BY <1>3, <1>5
    <2>3. row'[d].job # None => settledBy'[d] \in {None, row'[d].run}
      BY <1>4, <1>5
    <2> QED BY <1>5, <2>1, <2>2, <2>3, OneRow DEF IInv, RowProperties
  <1>9. EveryCopyIsTracked'
    <2> SUFFICES ASSUME NEW j \in Request, provider[j] \in Held, j \notin lost
                 PROVE  Tracked(j)'
      BY DEF EveryCopyIsTracked
    <2>1. Tracked(j) /\ j # None
      BY TranscriptionAssumption DEF IInv, EveryCopyIsTracked
    <2>2. CASE IsInFlight(row[d]) /\ row[d].job = j
      BY <2>1, <2>2, <1>6 DEF Tracked
    <2>3. CASE ~(IsInFlight(row[d]) /\ row[d].job = j)
      BY <2>1, <2>3, <1>5, <1>6 DEF Tracked
    <2> QED BY <2>2, <2>3
  <1> QED BY <1>7, <1>8, <1>9 DEF IInv, RowProperties

\* A finisher whose row is gone, or that has nothing to delete, ends.
LEMMA FinisherEnds ==
  ASSUME IInv, NEW f \in Finisher, finisher[f].at # "delete copy", EndFinisher(f),
         UNCHANGED <<rows, provider, purges, request, deleter, lost, faults>>
  PROVE  IInv'
  <1>1. Idle \in FinisherStates
    BY DEF FinisherStates
  <1> QED BY <1>1, FinisherMoves DEF EndFinisher

\* The transaction that stores a result.
LEMMA CompleteTranscriptKeepsIInv ==
  ASSUME IInv, NEW f \in Finisher, CompleteTranscript(f)
  PROVE  IInv'
  <1> DEFINE w == finisher[f]
             next == [at |-> "delete copy", job |-> w.job]
  <1>1. w \in FinisherStates /\ w.at = "complete" /\ w.job \in Request
    BY FinisherFields DEF CompleteTranscript, IInv, ProcTypes
  <1>2. CASE EndFinisher(f) /\ UNCHANGED rows
    BY <1>1, <1>2, FinisherEnds DEF CompleteTranscript
  <1>3. ASSUME NEW d \in Matching(w),
               row' = [row EXCEPT ![d].status = "completed", ![d].secret = None, ![d].age = 0,
                                  ![d].corrected = FALSE, ![d].text = w.job],
               settledBy' = [settledBy EXCEPT ![d] = w.run],
               DeletesCopy(f)
        PROVE  IInv'
    <2> DEFINE t == [row[d] EXCEPT !.status = "completed", !.secret = None, !.age = 0,
                                   !.corrected = FALSE, !.text = w.job]
    <2>1. d \in Document /\ IsRow(row[d]) /\ row[d].job = w.job
      BY DEF Matching, IsInFlight, IsRow, Statuses
    <2>2. row[d] \in Transcript
      BY <2>1, RowFields DEF IInv
    <2>3. /\ t \in Transcript /\ t.status = "completed" /\ t.secret = None /\ t.text = w.job
          /\ t.job = row[d].job /\ t.run = row[d].run
      BY <1>1, <2>2, TranscriptShape
    <2>4. row' = [row EXCEPT ![d] = t]
      BY <1>3, <2>1 DEF IInv, TypeOK
    <2>5. next \in FinisherStates /\ next.at = "delete copy" /\ next.job = row[d].job
      BY <1>1, <2>1 DEF FinisherStates
    <2>6. finisher' = [finisher EXCEPT ![f] = next] /\ w.job # None
      BY <1>1, <1>3, TranscriptionAssumption DEF DeletesCopy
    <2>7. row'[d] = t /\ finisher'[f] = next
      BY <2>1, <2>4, <2>6 DEF IInv, TypeOK, ProcTypes
    <2> HIDE DEF t, next
    <2> QED BY <1>1, <1>3, <2>1, <2>3, <2>4, <2>5, <2>6, <2>7, RowSettled DEF CompleteTranscript
  <1> QED BY <1>2, <1>3 DEF CompleteTranscript

\* A finisher fails the run it read.
LEMMA FailTranscriptKeepsIInv ==
  ASSUME IInv, NEW f \in Finisher, FailTranscript(f)
  PROVE  IInv'
  <1> DEFINE w == finisher[f]
             next == IF w.job = None THEN Idle ELSE [at |-> "delete copy", job |-> w.job]
  <1>1. w \in FinisherStates /\ w.at = "fail" /\ w.job \in Request \cup {None}
    BY FinisherFields DEF FailTranscript, IInv, ProcTypes
  <1>2. CASE EndFinisher(f) /\ UNCHANGED rows
    BY <1>1, <1>2, FinisherEnds DEF FailTranscript
  <1>3. ASSUME NEW d \in Matching(w),
               row' = [row EXCEPT ![d].status = "failed", ![d].secret = None, ![d].age = 0],
               settledBy' = [settledBy EXCEPT ![d] = w.run],
               IF w.job = None THEN EndFinisher(f) ELSE DeletesCopy(f)
        PROVE  IInv'
    <2>1. d \in Document /\ IsRow(row[d]) /\ row[d].job = w.job
      BY DEF Matching, IsInFlight, IsRow, Statuses
    <2>2. row[d] \in Transcript
      BY <2>1, RowFields DEF IInv
    <2>3. row' = [row EXCEPT ![d] = FailedRow(row[d])]
      BY <1>3, <2>1 DEF IInv, TypeOK, FailedRow
    <2>4. /\ next \in FinisherStates
          /\ row[d].job # None => next.at = "delete copy" /\ next.job = row[d].job
      BY <1>1, <2>1 DEF FinisherStates
    <2>5. finisher' = [finisher EXCEPT ![f] = next]
      BY <1>3 DEF DeletesCopy, EndFinisher
    <2>6. row'[d] = FailedRow(row[d]) /\ finisher'[f] = next
      BY <2>1, <2>3, <2>5 DEF IInv, TypeOK, ProcTypes
    <2> HIDE DEF next
    <2>7. /\ row'[d] \in Transcript /\ row'[d].status = "failed" /\ row'[d].secret = None
          /\ row'[d].job = row[d].job /\ row'[d].run = row[d].run
      BY <2>2, <2>6, FailedRowFields
    <2> QED BY <1>1, <1>3, <2>1, <2>3, <2>4, <2>5, <2>6, <2>7, RowSettled DEF FailTranscript
  <1> QED BY <1>2, <1>3 DEF FailTranscript

\* A finisher deletes the copy it holds, or queues it.
LEMMA DeleteProviderCopyKeepsIInv ==
  ASSUME IInv, NEW f \in Finisher, DeleteProviderCopy(f)
  PROVE  IInv'
  <1> DEFINE k == finisher[f].job
  <1>1. k \in Request /\ Idle \in FinisherStates
    BY FinisherFields DEF DeleteProviderCopy, FinisherStates, IInv, ProcTypes
  <1>2. /\ finisher' \in [Finisher -> FinisherStates]
        /\ \A g \in Finisher \ {f} : finisher'[g] = finisher[g]
    BY <1>1 DEF DeleteProviderCopy, EndFinisher, IInv, ProcTypes
  <1>3. /\ provider' \in [Request -> Held \cup {"none", "deleted"}] /\ purges' \subseteq Request
        /\ purges \subseteq purges'
        /\ \A i \in Request : provider'[i] \in Held => provider[i] \in Held
        /\ provider'[k] \in Held => k \in purges'
    BY <1>1, DeleteJobOrQueueFacts DEF DeleteProviderCopy, IInv
  <1>4. TypeOK' /\ ProcTypes'
    BY <1>2, <1>3 DEF DeleteProviderCopy, IInv, TypeOK, ProcTypes, rows
  <1>5. RowProperties'
    BY SameRows DEF DeleteProviderCopy, IInv, RowProperties
  <1>6. EveryCopyIsTracked'
    <2> SUFFICES ASSUME NEW j \in Request, provider'[j] \in Held, j \notin lost
                 PROVE  Tracked(j)'
      BY DEF EveryCopyIsTracked, DeleteProviderCopy
    <2>1. Tracked(j)
      BY <1>3 DEF IInv, EveryCopyIsTracked
    <2> QED BY <2>1, <1>2, <1>3 DEF Tracked, DeleteProviderCopy, rows
  <1> QED BY <1>4, <1>5, <1>6 DEF IInv, RowProperties

\* A finisher dies; the copy it was to delete is lost with it.
LEMMA FinisherDiesKeepsIInv ==
  ASSUME IInv, NEW f \in Finisher, FinisherDies(f)
  PROVE  IInv'
  <1>1. Idle \in FinisherStates /\ (finisher[f].at = "delete copy" => finisher[f].job \in Request)
    BY FinisherFields DEF FinisherStates, IInv, ProcTypes
  <1>2. /\ finisher' \in [Finisher -> FinisherStates]
        /\ \A g \in Finisher \ {f} : finisher'[g] = finisher[g]
    BY <1>1 DEF FinisherDies, EndFinisher, IInv, ProcTypes
  <1>3. /\ lost' \subseteq Request /\ lost \subseteq lost' /\ faults' \in 0 .. MaxFaults
        /\ finisher[f].at = "delete copy" => finisher[f].job \in lost'
        /\ UNCHANGED <<row, settledBy, provider, purges, request, deleter>>
    <2>1. faults' \in 0 .. MaxFaults
      <3>1. faults < MaxFaults /\ faults' = faults + 1
        BY DEF FinisherDies
      <3> QED BY <3>1, TranscriptionAssumption DEF IInv, TypeOK
    <2>2. lost' = IF finisher[f].at = "delete copy" THEN lost \cup {finisher[f].job} ELSE lost
      BY DEF FinisherDies
    <2>3. UNCHANGED <<row, settledBy, provider, purges, request, deleter>>
      BY DEF FinisherDies, rows
    <2> QED BY <1>1, <2>1, <2>2, <2>3 DEF IInv, TypeOK
  <1>4. TypeOK' /\ ProcTypes'
    BY <1>2, <1>3 DEF IInv, TypeOK, ProcTypes
  <1>5. RowProperties'
    BY <1>3, SameRows DEF IInv, RowProperties, rows
  <1>6. EveryCopyIsTracked'
    <2> SUFFICES ASSUME NEW j \in Request, provider[j] \in Held, j \notin lost'
                 PROVE  Tracked(j)'
      BY <1>3 DEF EveryCopyIsTracked
    <2>1. Tracked(j)
      BY <1>3 DEF IInv, EveryCopyIsTracked
    <2> QED BY <2>1, <1>2, <1>3 DEF Tracked
  <1> QED BY <1>4, <1>5, <1>6 DEF IInv, RowProperties

-----------------------------------------------------------------------------
\* Copies are only deleted, and only those that are deleted or given up leave
\* the queue.
LEMMA CopiesGo ==
  ASSUME IInv,
         provider' \in [Request -> Held \cup {"none", "deleted"}],
         purges' \subseteq Request, lost' \subseteq Request, faults' \in 0 .. MaxFaults,
         lost \subseteq lost', deleter' \in [Deleter -> DeleterStates],
         \A i \in Request : provider'[i] \in Held => provider[i] \in Held,
         \A i \in purges : provider'[i] \in Held => i \in purges' \cup lost',
         UNCHANGED <<rows, request, finisher>>
  PROVE  IInv'
  <1>1. TypeOK' /\ ProcTypes'
    BY DEF IInv, TypeOK, ProcTypes, rows
  <1>2. RowProperties'
    BY SameRows DEF IInv, RowProperties
  <1>3. EveryCopyIsTracked'
    <2> SUFFICES ASSUME NEW j \in Request, provider'[j] \in Held, j \notin lost'
                 PROVE  Tracked(j)'
      BY DEF EveryCopyIsTracked
    <2>1. Tracked(j)
      BY DEF IInv, EveryCopyIsTracked
    <2> QED BY <2>1 DEF Tracked, rows
  <1> QED BY <1>1, <1>2, <1>3 DEF IInv, RowProperties

\* The sweep's queue.
LEMMA DrainKeepsIInv ==
  ASSUME IInv, NEW j \in Request, DrainDelete(j) \/ DrainForget(j) \/ DrainGiveUp(j)
  PROVE  IInv'
  <1> USE DEF IInv, TypeOK, ProcTypes, Held, procs
  <1>1. CASE DrainDelete(j)
    BY <1>1, CopiesGo DEF DrainDelete
  <1>2. CASE DrainForget(j)
    BY <1>2, CopiesGo DEF DrainForget
  <1>3. CASE DrainGiveUp(j)
    BY <1>3, CopiesGo, TranscriptionAssumption DEF DrainGiveUp
  <1> QED BY <1>1, <1>2, <1>3

\* A job ends at the provider, which keeps its copy.
LEMMA JobEndsKeepsIInv ==
  ASSUME IInv, NEW r \in Request, JobEnds(r)
  PROVE  IInv'
  <1> USE DEF IInv, TypeOK, ProcTypes, Held, procs
  <1> QED BY CopiesGo DEF JobEnds

\* deleteTranscript's read, and the best-effort deletion of a finished job.
LEMMA DeleterKeepsIInv ==
  ASSUME IInv, NEW x \in Deleter,
         (\E d \in Document : DeleteRead(x, d)) \/ DeleteFinishedJob(x)
  PROVE  IInv'
  <1>1. ASSUME NEW d \in Document, DeleteRead(x, d)
        PROVE  IInv'
    <2> DEFINE w == [at |-> "delete", id |-> row[d].id,
                     job |-> IF row[d].status = "completed" THEN row[d].job ELSE None]
    <2>1. IsRow(row[d]) /\ deleter' = [deleter EXCEPT ![x] = w]
      BY <1>1 DEF DeleteRead
    <2>2. w \in DeleterStates
      BY <2>1, RowFields DEF DeleterStates, IInv
    <2> HIDE DEF w
    <2>3. deleter' \in [Deleter -> DeleterStates]
      BY <2>1, <2>2 DEF IInv, ProcTypes
    <2> QED BY <1>1, <2>3, CopiesGo DEF DeleteRead, IInv, TypeOK
  <1>2. CASE DeleteFinishedJob(x)
    <2>1. deleter[x].job \in Request /\ Idle \in DeleterStates
      BY <1>2, DeleterFields DEF DeleteFinishedJob, DeleterStates, IInv, ProcTypes
    <2>2. deleter' \in [Deleter -> DeleterStates]
      BY <1>2, <2>1 DEF DeleteFinishedJob, IInv, ProcTypes
    <2>3. /\ provider' \in [Request -> Held \cup {"none", "deleted"}]
          /\ \A i \in Request : provider'[i] \in Held => provider[i] \in Held
      BY <1>2, <2>1 DEF DeleteFinishedJob, IInv, TypeOK, Held
    <2> QED BY <1>2, <2>2, <2>3, CopiesGo DEF DeleteFinishedJob, IInv, TypeOK
  <1> QED BY <1>1, <1>2

\* A row goes, and the database queues the job id it had in flight.
LEMMA RowGone ==
  ASSUME IInv, NEW d \in Document, NEW t \in {NoRow, NoDocument},
         QueuePurge(d), row' = [row EXCEPT ![d] = t], settledBy' = [settledBy EXCEPT ![d] = None],
         deleter' \in [Deleter -> DeleterStates],
         UNCHANGED <<provider, request, finisher, lost, faults>>
  PROVE  IInv'
  <1>1. /\ row' \in [Document -> Transcript \cup {NoRow, NoDocument}]
        /\ settledBy' \in [Document -> Request \cup {None}]
        /\ row'[d] = t /\ settledBy'[d] = None
        /\ \A e \in Document \ {d} : row'[e] = row[e] /\ settledBy'[e] = settledBy[e]
    BY DEF IInv, TypeOK
  <1>2. ~IsRow(row'[d]) /\ ~IsInFlight(row'[d]) /\ row'[d].status # "completed"
    <2>1. NoRow.status = "none" /\ NoDocument.status = "no document"
      BY DEF NoRow, NoDocument
    <2> QED BY <1>1, <2>1 DEF IsRow, IsInFlight, Statuses, InFlight
  <1>3. /\ purges' \subseteq Request /\ purges \subseteq purges'
        /\ IsInFlight(row[d]) /\ row[d].job # None => row[d].job \in purges'
    BY RowFields DEF QueuePurge, IInv, TypeOK, IsInFlight, IsRow, Statuses
  <1>4. TypeOK' /\ ProcTypes'
    BY <1>1, <1>3 DEF IInv, TypeOK, ProcTypes
  <1>5. RowProperties'
    <2>1. KeepsItsRun(row'[d], settledBy'[d])
      BY <1>2 DEF KeepsItsRun
    <2> QED BY <1>1, <1>2, <2>1, OneRow DEF IInv, RowProperties
  <1>6. EveryCopyIsTracked'
    <2> SUFFICES ASSUME NEW j \in Request, provider[j] \in Held, j \notin lost
                 PROVE  Tracked(j)'
      BY DEF EveryCopyIsTracked
    <2>1. Tracked(j) /\ j # None
      BY TranscriptionAssumption DEF IInv, EveryCopyIsTracked
    <2> QED BY <2>1, <1>1, <1>3 DEF Tracked
  <1> QED BY <1>4, <1>5, <1>6 DEF IInv, RowProperties

\* deleteTranscript's deletion.
LEMMA DeleteTranscriptKeepsIInv ==
  ASSUME IInv, NEW x \in Deleter, DeleteTranscript(x)
  PROVE  IInv'
  <1> DEFINE w == deleter[x]
             next == IF w.job = None THEN Idle ELSE [at |-> "delete job", job |-> w.job]
  <1>1. next \in DeleterStates
    BY DeleterFields DEF DeleteTranscript, DeleterStates, IInv, ProcTypes
  <1>2. deleter' = [deleter EXCEPT ![x] = next]
    BY DEF DeleteTranscript
  <1> HIDE DEF next
  <1>3. deleter' \in [Deleter -> DeleterStates]
    BY <1>1, <1>2 DEF IInv, ProcTypes
  <1>4. CASE UNCHANGED <<rows, purges>>
    BY <1>3, <1>4, CopiesGo DEF DeleteTranscript, IInv, TypeOK
  <1>5. ASSUME NEW d \in Document, QueuePurge(d), row' = [row EXCEPT ![d] = NoRow],
               settledBy' = [settledBy EXCEPT ![d] = None]
        PROVE  IInv'
    BY <1>3, <1>5, RowGone DEF DeleteTranscript
  <1> QED BY <1>4, <1>5 DEF DeleteTranscript

\* A document, or its matter, is deleted.
LEMMA DocumentDeletedKeepsIInv ==
  ASSUME IInv, NEW d \in Document, DocumentDeleted(d)
  PROVE  IInv'
  BY RowGone DEF DocumentDeleted, procs, IInv, ProcTypes

\* A correction, and the clock, leave a row to its run.
LEMMA RowTouched ==
  ASSUME IInv, NEW d \in Document, CorrectTranscript(d) \/ Ages(d)
  PROVE  IInv'
  <1>1. IsRow(row[d])
    BY DEF CorrectTranscript, Ages, IsInFlight, IsRow, Statuses
  <1>2. row[d] \in Transcript /\ row[d].age \in 0 .. 2
    BY <1>1, RowFields DEF IInv
  <1>3. /\ row'[d] \in Transcript
        /\ row'[d].status = row[d].status /\ row'[d].job = row[d].job /\ row'[d].run = row[d].run
        /\ row'[d].secret = row[d].secret /\ row'[d].text = row[d].text
    <2>1. CASE CorrectTranscript(d)
      <3>1. row'[d] = [row[d] EXCEPT !.corrected = TRUE]
        BY <2>1 DEF CorrectTranscript, IInv, TypeOK
      <3> QED BY <1>2, <3>1, TranscriptShape
    <2>2. CASE Ages(d)
      <3>1. row'[d] = [row[d] EXCEPT !.age = row[d].age + 1]
        BY <2>2 DEF Ages, IInv, TypeOK
      <3>2. row[d].age + 1 \in AgeBand
        BY <1>2, <2>2 DEF Ages, AgeBand
      <3> DEFINE a == row[d].age + 1
      <3> HIDE DEF a
      <3>3. row'[d] = [row[d] EXCEPT !.age = a] /\ a \in AgeBand
        BY <3>1, <3>2 DEF a
      <3> QED BY <1>2, <3>3, TranscriptShape
    <2> QED BY <2>1, <2>2
  <1>4. /\ \A e \in Document \ {d} : row'[e] = row[e] /\ settledBy'[e] = settledBy[e]
        /\ settledBy' = settledBy
        /\ UNCHANGED <<provider, purges, request, finisher, deleter, lost, faults>>
    BY DEF CorrectTranscript, Ages, procs, IInv, TypeOK
  <1>5. row' \in [Document -> Transcript \cup {NoRow, NoDocument}]
    BY <1>3 DEF CorrectTranscript, Ages, IInv, TypeOK
  <1>6. TypeOK' /\ ProcTypes'
    BY <1>4, <1>5 DEF IInv, TypeOK, ProcTypes
  <1>7. RowProperties'
    <2>1. KeepsItsRun(row'[d], settledBy'[d])
      BY <1>3, <1>4 DEF KeepsItsRun, IsRow, IsInFlight, IInv, RowsKeepTheirRun
    <2>2. IsInFlight(row'[d]) /\ row'[d].job # None => request'[row'[d].job] = Done
      BY <1>3, <1>4 DEF IsInFlight, IInv, RowsKeepTheirRun
    <2>3. row'[d].status = "completed" =>
            row'[d].job = None \/ (row'[d].text = row'[d].job /\ row'[d].job = row'[d].run)
      BY <1>3 DEF IInv, CompletedShowsLatestRun
    <2>4. IsRow(row'[d]) /\ row'[d].job # None => settledBy'[d] \in {None, row'[d].run}
      BY <1>1, <1>3, <1>4 DEF IInv, AttachedRunsSettleThemselves
    <2> QED BY <1>4, <2>1, <2>2, <2>3, <2>4, OneRow DEF IInv, RowProperties
  <1>8. EveryCopyIsTracked'
    <2> SUFFICES ASSUME NEW j \in Request, provider[j] \in Held, j \notin lost
                 PROVE  Tracked(j)'
      BY <1>4 DEF EveryCopyIsTracked
    <2>1. Tracked(j)
      BY DEF IInv, EveryCopyIsTracked
    <2> QED BY <2>1, <1>3, <1>4 DEF Tracked, IsInFlight
  <1> QED BY <1>6, <1>7, <1>8 DEF IInv, RowProperties

-----------------------------------------------------------------------------
\* Every step keeps the invariant.
LEMMA NextKeepsIInv == IInv /\ [Next]_vars => IInv'
  <1> SUFFICES ASSUME IInv, [Next]_vars PROVE IInv'
    OBVIOUS
  <1>1. CASE UNCHANGED vars
    <2>1. UNCHANGED <<rows, provider, purges, request, finisher, deleter, lost, faults>>
      BY <1>1 DEF vars, procs
    <2> QED BY <2>1, CopiesGo DEF IInv, TypeOK, ProcTypes
  <1>2. ASSUME NEW r \in Request, RequestStep(r) \/ JobEnds(r)
        PROVE  IInv'
    BY <1>2, LookForCopyKeepsIInv, CopyTranscriptKeepsIInv, ClaimRowKeepsIInv,
       SubmittedKeepsIInv, SubmitRefusedKeepsIInv, FailJobKeepsIInv, AttachJobKeepsIInv,
       PurgeOrphanKeepsIInv, RequestDiesKeepsIInv, JobEndsKeepsIInv DEF RequestStep
  <1>3. ASSUME NEW f \in Finisher, FinisherStep(f)
        PROVE  IInv'
    <2>1. CASE FetchJob(f)
      BY <2>1, FinisherGoesOn DEF FetchJob
    <2>2. CASE CompletionFails(f)
      BY <2>2, FinisherGoesOn DEF CompletionFails
    <2> QED
      BY <1>3, <2>1, <2>2, CompleteTranscriptKeepsIInv, FailTranscriptKeepsIInv,
         DeleteProviderCopyKeepsIInv, FinisherDiesKeepsIInv DEF FinisherStep
  <1>4. ASSUME NEW d \in Document, DocumentDeleted(d) \/ CorrectTranscript(d) \/ Ages(d)
        PROVE  IInv'
    BY <1>4, DocumentDeletedKeepsIInv, RowTouched
  <1> QED
    BY <1>1, <1>2, <1>3, <1>4, RequestTranscriptKeepsIInv, ReadTranscriptKeepsIInv,
       DrainKeepsIInv, DeleterKeepsIInv, DeleteTranscriptKeepsIInv DEF Next

\* The inductive invariant holds in every state.
THEOREM Invariance == Spec => []IInv
  <1> QED BY InitIInv, NextKeepsIInv, PTL DEF Spec

\* Rows, jobs and the purge queue keep their types.
THEOREM TypeCorrect == Spec => []TypeOK
  <1>1. IInv => TypeOK
    BY DEF IInv
  <1> QED BY <1>1, Invariance, PTL

\* No copy at the provider is forgotten, but for the mishaps that lost counts.
THEOREM CopiesAreTracked == Spec => []EveryCopyIsTracked
  <1>1. IInv => EveryCopyIsTracked
    BY DEF IInv
  <1> QED BY <1>1, Invariance, PTL

\* A completed transcript shows its latest run, or a sibling's copy.
THEOREM LatestRunIsShown == Spec => []CompletedShowsLatestRun
  <1>1. IInv => CompletedShowsLatestRun
    BY DEF IInv
  <1> QED BY <1>1, Invariance, PTL

\* A run that has a job id is settled by a finisher that read that run.
THEOREM RunsSettleThemselves == Spec => []AttachedRunsSettleThemselves
  <1>1. IInv => AttachedRunsSettleThemselves
    BY DEF IInv
  <1> QED BY <1>1, Invariance, PTL
=============================================================================
