-------------------------- MODULE RecordsRequests --------------------------
(***************************************************************************)
(* Requests for records, the follow-up task that chases each of them, the  *)
(* fee that becomes an expense, and the conversion of an intake lead that  *)
(* carries them to the new matter: records-requests.ts, tasks.ts and the   *)
(* parts of leads.ts that touch them (src/app/actions), and                *)
(* src/lib/records-requests/follow-up.ts.                                  *)
(*                                                                         *)
(* An action of the program is two steps here: what it reads before its    *)
(* transaction, and the transaction, which takes the row lock on its one   *)
(* request first and is one step, since nobody writes a request, or opens  *)
(* its tasks, without that lock.  The conversion takes many locks, and a   *)
(* request inserted after them escapes them: its claim, its locks, its     *)
(* read of the requests, the move and the bookings that end with the       *)
(* commit are steps of their own.  There is one lead and the matter it     *)
(* may become.                                                             *)
(***************************************************************************)
EXTENDS Naturals, FiniteSets

CONSTANTS
  Process,       \* running server actions
  Request, Task, \* row ids
  Fees,          \* amounts of a fee that was paid, in cents
  Asked,         \* statuses somebody asks for, of a request or of a task
  None

ASSUME RecordsAssumption ==
  /\ IsFiniteSet(Request) /\ IsFiniteSet(Task)
  /\ Fees \subseteq Nat \ {0}
  /\ None \notin Process \cup Request \cup Task

Terminal == {"complete", "denied", "withdrawn"}
Chased   == {"sent", "acknowledged", "partial"}
Live     == {"draft"} \cup Chased \cup Terminal   \* statuses of a row that exists

\* "open" stands for open and in_progress, which OPEN_TASK_STATUSES names together.
TaskStatuses == {"open", "in_review", "done", "cancelled"}
TaskClosed   == {"done", "cancelled"}

VARIABLES
  lead,        \* the lead's stage: "active", "declined" or "converted"
  request,     \* rows of RecordsRequest
  expense,     \* per request: the expenses booked from its fee
  task,        \* rows of Task that chase a request
  requestLock, \* the conversion that holds the row lock of a request
  leadLock,    \* the conversion that holds the row lock of the lead
  proc         \* what each running action carries between its statements

vars == <<lead, request, expense, task, requestLock, leadLock, proc>>

Idle == [at |-> "idle"]

\* unlocked is history: a conversion moved the row and had not locked it
\* before it read the requests; no fee was saved since.
NoRequest == [status |-> "none", sent |-> FALSE, matter |-> FALSE, fee |-> 0, unlocked |-> FALSE]
NoExpense == [linked |-> FALSE, booked |-> 0, amount |-> 0, invoiced |-> FALSE, dropped |-> FALSE]
NoTask    == [status |-> "none", request |-> None, rolls |-> 0, revived |-> FALSE]

Init ==
  /\ lead = "active"
  /\ request = [r \in Request |-> NoRequest]
  /\ expense = [r \in Request |-> NoExpense]
  /\ task = [t \in Task |-> NoTask]
  /\ requestLock = [r \in Request |-> None] /\ leadLock = None
  /\ proc = [p \in Process |-> Idle]

-----------------------------------------------------------------------------
\* What an action carries, and the locks it takes and drops.

Start(p, carried) == proc[p] = Idle /\ proc' = [proc EXCEPT ![p] = carried]

At(p, place) == proc[p].at = place

\* lockRecordsRequest waits for the row; a missing row locks nothing.
Locked(r) == r \in Request => requestLock[r] = None

Finish(p) ==
  /\ proc' = [proc EXCEPT ![p] = Idle]
  /\ requestLock' = [r \in Request |-> IF requestLock[r] = p THEN None ELSE requestLock[r]]
  /\ leadLock' = IF leadLock = p THEN None ELSE leadLock

\* The database or the platform gave up: the transaction is rolled back.
Abort(p) ==
  /\ proc[p] /= Idle
  /\ Finish(p)
  /\ UNCHANGED <<lead, request, expense, task>>

-----------------------------------------------------------------------------
\* The helpers of follow-up.ts, on the tasks as a function.

OpenTasks(tasks, r) == {t \in Task : tasks[t].request = r /\ tasks[t].status = "open"}

Closed(tasks, r, how) ==
  [t \in Task |-> IF t \in OpenTasks(tasks, r)
                  THEN [tasks[t] EXCEPT !.status = how, !.rolls = 0, !.revived = FALSE]
                  ELSE tasks[t]]

Fresh(r) == [NoTask EXCEPT !.status = "open", !.request = r]

\* An id nobody remembers; ids run out only in an instance.
Unused(tasks) == {t \in Task : /\ tasks[t].status = "none"
                               /\ \A p \in Process : At(p, "task") => proc[p].t /= t}

\* openFollowUpTask for a request that is chased now.
Opened(tasks, r) ==
  IF OpenTasks(tasks, r) /= {} THEN {tasks}
  ELSE {[tasks EXCEPT ![t] = Fresh(r)] : t \in Unused(tasks)}

-----------------------------------------------------------------------------
\* createRecordsRequest: the scope is checked, and the row inserted, in two steps.

CreateRead(p) ==
  \E r \in Request, m \in BOOLEAN :
    /\ request[r].status = "none"
    /\ (lead = "converted") <=> m
    /\ Start(p, [at |-> "create", r |-> r, matter |-> m])
    /\ UNCHANGED <<lead, request, expense, task, requestLock, leadLock>>

CreateInsert(p) ==
  /\ At(p, "create") /\ request[proc[p].r].status = "none"
  /\ request' = [request EXCEPT ![proc[p].r] =
                   [NoRequest EXCEPT !.status = "draft", !.matter = proc[p].matter]]
  /\ Finish(p)
  /\ UNCHANGED <<lead, expense, task>>

\* updateRecordsRequest writes dates, and the sent date among them, whatever the status.
UpdateRequest(r, sent) ==
  /\ request[r].status \in Live /\ requestLock[r] = None
  /\ request' = [request EXCEPT ![r].sent = sent]
  /\ UNCHANGED <<lead, expense, task, requestLock, leadLock, proc>>

\* assertScopeWritable: what sits on a converted lead is read-only.
ScopeWritable(r) == request[r].matter \/ lead /= "converted"

SendRead(p) ==
  \E r \in Request :
    /\ request[r].status \in Live /\ ScopeWritable(r)
    /\ Start(p, [at |-> "send", r |-> r])
    /\ UNCHANGED <<lead, request, expense, task, requestLock, leadLock>>

\* markRecordsRequestSent
SendCommit(p) ==
  /\ At(p, "send") /\ Locked(proc[p].r)
  /\ LET r == proc[p].r IN
       IF request[r].status = "draft"
       THEN /\ request' = [request EXCEPT ![r].status = "sent", ![r].sent = TRUE]
            /\ task' \in Opened(task, r)
       ELSE UNCHANGED <<request, task>>
  /\ Finish(p)
  /\ UNCHANGED <<lead, expense>>

\* logRecordsFollowUp
LogRead(p) ==
  \E r \in Request :
    /\ request[r].status \in Live \ {"draft"} /\ ScopeWritable(r)
    /\ Start(p, [at |-> "log", r |-> r])
    /\ UNCHANGED <<lead, request, expense, task, requestLock, leadLock>>

\* rollFollowUp: finish what is open, open the next.
Rolled(tasks, r) == Opened(Closed(tasks, r, "done"), r)

\* Mutant: trusts the status read before the lock.
LogCommitUnchecked(p) ==
  /\ At(p, "log") /\ Locked(proc[p].r)
  /\ IF request[proc[p].r].status \in Live
     THEN task' \in Rolled(task, proc[p].r)
     ELSE UNCHANGED task
  /\ Finish(p)
  /\ UNCHANGED <<lead, request, expense>>

LogCommit(p) ==
  /\ At(p, "log") /\ Locked(proc[p].r)
  /\ IF request[proc[p].r].status \in Chased
     THEN task' \in Rolled(task, proc[p].r)
     ELSE UNCHANGED task
  /\ Finish(p)
  /\ UNCHANGED <<lead, request, expense>>

-----------------------------------------------------------------------------
\* setRecordsRequestStatus

StatusRead(p) ==
  \E r \in Request, to \in Live \cap Asked :
    /\ request[r].status \in Live
    /\ Start(p, [at |-> "status", r |-> r, to |-> to])
    /\ UNCHANGED <<lead, request, expense, task, requestLock, leadLock>>

Order(s) == CASE s = "draft" -> 0 [] s = "sent" -> 1 [] s = "acknowledged" -> 2
              [] s = "partial" -> 3 [] OTHER -> 4

\* checkRecordsTransition, and the refusal to send a draft this way.
Allowed(from, to, sent) ==
  CASE from \in Terminal -> to \notin Terminal /\ (sent <=> to /= "draft")
    [] from = "draft"    -> to \in {"denied", "withdrawn"}
    [] OTHER             -> to \in Terminal \/ Order(to) > Order(from)

StatusCommit(p) ==
  /\ At(p, "status") /\ Locked(proc[p].r)
  /\ LET r == proc[p].r
         from == request[r].status
         to == proc[p].to
     IN IF from \in Live /\ Allowed(from, to, request[r].sent)
        THEN /\ request' = [request EXCEPT ![r].status = to]
             /\ task' \in CASE to \in Terminal -> {Closed(task, r, "cancelled")}
                            [] from \in Terminal /\ to /= "draft" -> Opened(task, r)
                            [] OTHER -> {task}
        ELSE UNCHANGED <<request, task>>
  /\ Finish(p)
  /\ UNCHANGED <<lead, expense>>

\* deleteRecordsRequest: tasks are cancelled, then SET NULL cuts them off.
DeleteRead(p) ==
  \E r \in Request :
    /\ request[r].status \in Live
    /\ Start(p, [at |-> "delete", r |-> r])
    /\ UNCHANGED <<lead, request, expense, task, requestLock, leadLock>>

DeleteCommit(p) ==
  LET r == proc[p].r
      cut == Closed(task, r, "cancelled")
  IN /\ At(p, "delete") /\ Locked(r) /\ request[r].status \in Live
     /\ request' = [request EXCEPT ![r] = [NoRequest EXCEPT !.status = "deleted"]]
     /\ expense' = [expense EXCEPT ![r] = [NoExpense EXCEPT !.dropped = TRUE]]
     /\ task' = [t \in Task |-> IF cut[t].request = r THEN [cut[t] EXCEPT !.request = None]
                                ELSE cut[t]]
     /\ Finish(p)
     /\ UNCHANGED lead

-----------------------------------------------------------------------------
\* saveRecordsFee; a fee without a paid date makes no expense and counts as none.

FeeRead(p) ==
  \E r \in Request, fee \in Fees \cup {0} :
    /\ request[r].status \in Live /\ ScopeWritable(r)
    /\ Start(p, [at |-> "fee", r |-> r, fee |-> fee,
                 matter |-> request[r].matter])
    /\ UNCHANGED <<lead, request, expense, task, requestLock, leadLock>>

Booked(x, fee) == [linked |-> TRUE, booked |-> x.booked + 1, amount |-> fee,
                   invoiced |-> FALSE, dropped |-> FALSE]

\* Mutant: does not ask whether the fee was paid.
FeeCommitUnpaid(p) ==
  LET r == proc[p].r
      fee == proc[p].fee
      x == expense[r]
      makes == request[r].matter
      refused == \/ request[r].status \notin Live
                 \/ x.linked /\ ~makes
                 \/ x.linked /\ x.invoiced /\ x.amount /= fee
  IN /\ At(p, "fee") /\ Locked(r)
     /\ IF refused THEN UNCHANGED <<request, expense>>
        ELSE /\ request' = [request EXCEPT ![r].fee = fee, ![r].unlocked = FALSE]
             /\ expense' = IF ~makes THEN expense
                           ELSE [expense EXCEPT ![r] = IF x.linked THEN [x EXCEPT !.amount = fee]
                                                       ELSE Booked(x, fee)]
     /\ Finish(p)
     /\ UNCHANGED <<lead, task>>

FeeCommit(p) ==
  LET r == proc[p].r
      fee == proc[p].fee
      x == expense[r]
      makes == request[r].matter /\ fee > 0
      refused == \/ request[r].status \notin Live
                 \/ x.linked /\ ~makes
                 \/ x.linked /\ x.invoiced /\ x.amount /= fee
  IN /\ At(p, "fee") /\ Locked(r)
     /\ IF refused THEN UNCHANGED <<request, expense>>
        ELSE /\ request' = [request EXCEPT ![r].fee = fee, ![r].unlocked = FALSE]
             /\ expense' = IF ~makes THEN expense
                           ELSE [expense EXCEPT ![r] = IF x.linked THEN [x EXCEPT !.amount = fee]
                                                       ELSE Booked(x, fee)]
     /\ Finish(p)
     /\ UNCHANGED <<lead, task>>

\* Billing takes the expense onto an invoice, gives it back, or its owner deletes it.
InvoiceExpense(r) ==
  /\ expense[r].linked
  /\ expense' = [expense EXCEPT ![r].invoiced = ~@]
  /\ UNCHANGED <<lead, request, task, requestLock, leadLock, proc>>

DeleteExpense(r) ==
  /\ expense[r].linked /\ ~expense[r].invoiced /\ requestLock[r] = None
  /\ expense' = [expense EXCEPT ![r] = [expense[r] EXCEPT
                   !.linked = FALSE, !.booked = @ - 1, !.amount = 0, !.dropped = TRUE]]
  /\ UNCHANGED <<lead, request, task, requestLock, leadLock, proc>>

-----------------------------------------------------------------------------
\* setTaskStatus and updateTask, which may also refuse a form older than the row:
\* that changes nothing, like an Abort.

TaskRead(p) ==
  \E t \in Task, to \in TaskStatuses \cap Asked :
    /\ task[t].status \in TaskStatuses
    /\ Start(p, [at |-> "task", r |-> task[t].request, t |-> t, to |-> to,
                 seen |-> task[t].status])
    /\ UNCHANGED <<lead, request, expense, task, requestLock, leadLock>>

ReopenRefusedIfClosed(t, r) ==   \* mutant: does not look for another open task
  r \in Request /\ request[r].status \in Terminal

\* checkFollowUpReopen
ReopenRefused(t, r) ==
  /\ r \in Request /\ request[r].status \in Live
  /\ request[r].status \in Terminal \/ OpenTasks(task, r) \ {t} /= {}

\* The row of t after a status write; revived tells a reopening nobody checked.
Written(t, to, reopening) ==
  [task EXCEPT ![t].status = to,
               ![t].rolls = IF to = task[t].status THEN @ ELSE 0,
               ![t].revived = to = "open" /\ (@ \/ (task[t].status /= "open" /\ ~reopening))]

\* Mutant: the write that marks a task done is not conditional.
TaskCommitRollsTwice(p) ==
  LET t == proc[p].t
      r == proc[p].r
      to == proc[p].to
      seen == proc[p].seen
      reopening == seen \in TaskClosed /\ to \notin TaskClosed
      completing == to = "done" /\ seen /= "done"
      lost == task[t].status \notin TaskStatuses
      rolls == completing /\ r \in Request /\ request[r].status \in Chased
      row == Written(t, to, reopening)
  IN /\ At(p, "task") /\ Locked(r)
     /\ IF lost \/ (reopening /\ ReopenRefused(t, r)) THEN UNCHANGED task
        ELSE task' \in IF rolls THEN Rolled([row EXCEPT ![t].rolls = @ + 1], r) ELSE {row}
     /\ Finish(p)
     /\ UNCHANGED <<lead, request, expense>>

TaskCommit(p) ==
  LET t == proc[p].t
      r == proc[p].r
      to == proc[p].to
      seen == proc[p].seen
      reopening == seen \in TaskClosed /\ to \notin TaskClosed
      completing == to = "done" /\ seen /= "done"
      lost == \/ task[t].status \notin TaskStatuses
              \/ completing /\ r \in Request /\ task[t].status = "done"
      rolls == completing /\ r \in Request /\ request[r].status \in Chased
      row == Written(t, to, reopening)
  IN /\ At(p, "task") /\ Locked(r)
     /\ IF lost \/ (reopening /\ ReopenRefused(t, r)) THEN UNCHANGED task
        ELSE task' \in IF rolls THEN Rolled([row EXCEPT ![t].rolls = @ + 1], r) ELSE {row}
     /\ Finish(p)
     /\ UNCHANGED <<lead, request, expense>>

\* deleteTask takes no lock but the row's own.
DeleteTask(t) ==
  /\ task[t].status \in TaskStatuses
  /\ task' = [task EXCEPT ![t] = NoTask]
  /\ UNCHANGED <<lead, request, expense, requestLock, leadLock, proc>>

-----------------------------------------------------------------------------
\* convertLeadToMatter, of which only what concerns requests is kept, and declineLead.

ConvertRead(p) ==
  /\ lead /= "converted"
  /\ Start(p, [at |-> "convert", seen |-> lead])
  /\ UNCHANGED <<lead, request, expense, task, requestLock, leadLock>>

ConvertClaim(p) ==
  /\ At(p, "convert") /\ leadLock = None
  /\ IF lead = proc[p].seen
     THEN /\ leadLock' = p
          /\ proc' = [proc EXCEPT ![p] = [at |-> "convert: claimed"]]
          /\ UNCHANGED requestLock
     ELSE Finish(p)
  /\ UNCHANGED <<lead, request, expense, task>>

OnLead == {r \in Request : request[r].status \in Live /\ ~request[r].matter}

\* Mutant: selects the requests without FOR UPDATE.
ConvertLockNothing(p) ==
  /\ At(p, "convert: claimed")
  /\ proc' = [proc EXCEPT ![p] = [at |-> "convert: locked", known |-> OnLead]]
  /\ UNCHANGED <<lead, request, expense, task, requestLock, leadLock>>

\* SELECT ... FOR UPDATE; known is history, the rows it found.
ConvertLock(p) ==
  /\ At(p, "convert: claimed")
  /\ \A r \in OnLead : requestLock[r] = None
  /\ requestLock' = [r \in Request |-> IF r \in OnLead THEN p ELSE requestLock[r]]
  /\ proc' = [proc EXCEPT ![p] = [at |-> "convert: locked", known |-> OnLead]]
  /\ UNCHANGED <<lead, request, expense, task, leadLock>>

\* The requests are read again, those created since the locks among them; of
\* each it keeps the paid fee that is no expense yet.
ConvertReadRequests(p) ==
  /\ At(p, "convert: locked")
  /\ proc' = [proc EXCEPT ![p] =
       [at |-> "convert: read", known |-> @.known,
        fees |-> [r \in Request |-> IF r \in OnLead /\ ~expense[r].linked
                                   THEN request[r].fee ELSE 0]]]
  /\ UNCHANGED <<lead, request, expense, task, requestLock, leadLock>>

\* updateMany moves, and so locks, whatever is on the lead by now; the others
\* see that at the commit.
ConvertMove(p) ==
  /\ At(p, "convert: read")
  /\ \A r \in OnLead : requestLock[r] \in {p, None}
  /\ requestLock' = [r \in Request |-> IF r \in OnLead THEN p ELSE requestLock[r]]
  /\ proc' = [proc EXCEPT ![p] =
       [at |-> "convert: moved", known |-> @.known, fees |-> @.fees, moved |-> OnLead]]
  /\ UNCHANGED <<lead, request, expense, task, leadLock>>

\* The loop books the fees that were read; a request deleted since then fails
\* its update, and with it the transaction (Abort).
ConvertCommit(p) ==
  LET c == proc[p] IN
  /\ At(p, "convert: moved")
  /\ \A r \in Request : c.fees[r] > 0 => r \in c.moved
  /\ lead' = "converted"
  /\ request' = [r \in Request |-> IF r \in c.moved
                   THEN [request[r] EXCEPT !.matter = TRUE, !.unlocked = r \notin c.known]
                   ELSE request[r]]
  /\ expense' = [r \in Request |-> IF c.fees[r] > 0 THEN Booked(expense[r], c.fees[r])
                                   ELSE expense[r]]
  /\ Finish(p)
  /\ UNCHANGED task

DeclineLead ==
  /\ lead = "active" /\ leadLock = None
  /\ lead' = "declined"
  /\ UNCHANGED <<request, expense, task, requestLock, leadLock, proc>>

-----------------------------------------------------------------------------
Step(p) ==
  \/ Abort(p)
  \/ CreateRead(p) \/ CreateInsert(p)
  \/ SendRead(p) \/ SendCommit(p)
  \/ LogRead(p) \/ LogCommit(p)
  \/ StatusRead(p) \/ StatusCommit(p)
  \/ DeleteRead(p) \/ DeleteCommit(p)
  \/ FeeRead(p) \/ FeeCommit(p)
  \/ TaskRead(p) \/ TaskCommit(p)
  \/ ConvertRead(p) \/ ConvertClaim(p) \/ ConvertLock(p)
  \/ ConvertReadRequests(p) \/ ConvertMove(p) \/ ConvertCommit(p)

Next ==
  \/ \E p \in Process : Step(p)
  \/ \E r \in Request : \/ \E sent \in BOOLEAN : UpdateRequest(r, sent)
                        \/ InvoiceExpense(r) \/ DeleteExpense(r)
  \/ \E t \in Task : DeleteTask(t)
  \/ DeclineLead

Spec == Init /\ [][Next]_vars

-----------------------------------------------------------------------------
\* Every variable has the shape the program can give it; an expense is of an
\* amount that was paid.
TypeOK ==
  /\ lead \in {"active", "declined", "converted"}
  /\ request \in [Request -> [status : Live \cup {"none", "deleted"}, sent : BOOLEAN,
                             matter : BOOLEAN, fee : Fees \cup {0}, unlocked : BOOLEAN]]
  /\ expense \in [Request -> [linked : BOOLEAN, booked : Nat, amount : Fees \cup {0},
                             invoiced : BOOLEAN, dropped : BOOLEAN]]
  /\ \A r \in Request : expense[r].linked => expense[r].amount \in Fees
  /\ task \in [Task -> [status : TaskStatuses \cup {"none"}, request : Request \cup {None},
                       rolls : Nat, revived : BOOLEAN]]
  /\ requestLock \in [Request -> Process \cup {None}]
  /\ leadLock \in Process \cup {None}

\* However sends, follow-ups, reopenings and clicks on "done" interleave, they
\* leave at most one open follow-up task per request, those apart that a
\* status write reopened without checkFollowUpReopen.
OneFollowUpPerRequest ==
  \A r \in Request : Cardinality({t \in OpenTasks(task, r) : ~task[t].revived}) <= 1

\* Nobody is asked to chase a closed request: closing cancels its open task, and
\* neither a roll nor a reopening in flight opens another (same exception).
ClosedRequestsAreNotChased ==
  \A r \in Request : request[r].status \in Terminal =>
    \A t \in OpenTasks(task, r) : task[t].revived

\* Of two people who mark one task done, one rolls the chase; the other finds it
\* done.  rolls counts since the task last became done.
OneRollPerCompletion == \A t \in Task : task[t].rolls <= 1

\* A fee paid on the lead reaches the matter, once: a save and the conversion
\* of the lead never both book it, and on the matter it is an expense, unless
\* somebody deleted that expense.  Excepted, until its fee is saved again, is
\* a request inserted after the conversion took its locks.
PaidFeeIsBookedOnce ==
  \A r \in Request :
    /\ expense[r].booked <= 1
    /\ request[r].status \in Live /\ request[r].matter /\ request[r].fee > 0
       => expense[r].linked \/ expense[r].dropped \/ request[r].unlocked

\* "A lead fee save in flight either commits first (and is booked below) or
\* waits and then sees the request on the matter" (leads.ts:517-519).
LeadFeesReachTheMatter ==
  \A r \in Request :
    request[r].status \in Live /\ request[r].matter /\ request[r].fee > 0
      => expense[r].linked \/ expense[r].dropped

\* "At most one open task per request" (follow-up.ts:2-3).
AtMostOneOpenTask == \A r \in Request : Cardinality(OpenTasks(task, r)) <= 1

\* Conversion re-homes every lead-scoped record onto the matter (record-scope.ts:9-10).
NothingStaysOnConvertedLead == lead = "converted" => OnLead = {}
=============================================================================
