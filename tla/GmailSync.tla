------------------------------ MODULE GmailSync ------------------------------
(***************************************************************************)
(* One connected Gmail mailbox: src/lib/google/gmail-sync.ts (the claimed  *)
(* incremental, first and catch-up passes, and the unclaimed backfill of   *)
(* older mail), the credential states of gmail-client.ts, the OAuth        *)
(* callback and disconnectEmailAccount.                                    *)
(*                                                                         *)
(* Google's side is one sequence, hist: record h is a message that arrived *)
(* in a thread, or a label change of it.  A Gmail history id is a position *)
(* in hist, and so are a message and the time it came.  The local side is  *)
(* a row per thread, which records the last message it counted, and the    *)
(* set of the messages really stored: upsertThread writes the row first.   *)
(*                                                                         *)
(* lastSyncAt is not a variable: it is written when historyId is, and a    *)
(* catch-up lists from a day before it, which is never later than the      *)
(* stored history id (a pass lives at most 300 s).                         *)
(***************************************************************************)
EXTENDS Integers, FiniteSets, Sequences, FiniteSetsExt

CONSTANTS
  Pass,            \* runs of syncEmailAccount: cron, "Sync now", page kick
  Click,           \* runs of backfillEmailAccount: "Load older emails"
  Thread,
  Old,             \* records 1..Old are older than FULL_SYNC_MAX_AGE_DAYS
  MaxHistory,      \* bound on hist
  FullCap, CatchUpCap, BackfillCap, IncrementalMax,
  AllFailedMin,    \* ALL_FAILED_ABORT_MIN
  MaxMishaps,      \* bound on deaths, failures, revocations, disconnects
  Calendar         \* whether the calendar scope was granted

ASSUME CapAssumption ==
  {FullCap, CatchUpCap, BackfillCap, IncrementalMax, AllFailedMin} \subseteq Nat \ {0}
ASSUME BoundAssumption == MaxHistory \in Nat \ {0} /\ MaxMishaps \in Nat /\ Old \in Nat
ASSUME CalendarAssumption == Calendar \in BOOLEAN

VARIABLES
  hist,      \* Google: the records of the mailbox
  bad,       \* threads whose content the import or the database rejects
  token,     \* EmailAccount.refreshToken is set
  status,    \* EmailAccount.syncStatus
  age,       \* of EmailAccount.updatedAt under a claim, in five minutes
  cursor,    \* EmailAccount.historyId, 0 when null
  row,       \* EmailThread: its last message, 0 when there is no row
  stored,    \* EmailMessage rows
  job,       \* what each run is doing
  mishaps,   \* faults and disconnects so far
  torn,      \* history: threads whose import broke off after their row
  leftOut    \* history: threads a pass left to the backfill, and no row has
             \* been brought up to date since

vars == <<hist, bad, token, status, age, cursor, row, stored, job, mishaps, torn, leftOut>>
account == <<token, status, age, cursor>>
local == <<row, stored>>
google == <<hist, bad>>

Run == Pass \cup Click
Record == [thread : Thread, mail : BOOLEAN]

Mails(t) == {h \in 1..Len(hist) : hist[h].thread = t /\ hist[h].mail}
LastMailBy(t, n) == Max({h \in Mails(t) : h <= n} \cup {0})
LastMail(t) == LastMailBy(t, Len(hist))
Local == {t \in Thread : row[t] # 0}
Frontier == IF Local = {} THEN 0 ELSE Min({row[t] : t \in Local})

Idle == [pc |-> "idle", kind |-> "none", from |-> 0, prior |-> "connected",
         head |-> 0, floor |-> 0, todo |-> {}, now |-> "none", snap |-> 0,
         synced |-> 0, failed |-> 0, ok |-> FALSE]

Working(p) == job[p].pc \in {"start", "list", "import", "row", "messages"}
Calling(p) == job[p].pc \in {"start", "list", "import"}

Job == [pc : {"idle", "listed", "read", "start", "list", "import", "row", "messages"},
        kind : {"none", "first", "incremental", "catchUp", "backfill"},
        from : 0..Len(hist), prior : {"connected", "error"},
        head : 0..Len(hist), floor : 0..Len(hist),
        todo : SUBSET Thread, now : Thread \cup {"none"}, snap : 0..Len(hist),
        synced : Nat, failed : Nat, ok : BOOLEAN]

TypeOK ==
  /\ hist \in Seq(Record) /\ Len(hist) \in 1..MaxHistory
  /\ bad \subseteq Thread
  /\ token \in BOOLEAN
  /\ status \in {"connected", "syncing", "disconnected", "error"}
  /\ age \in 0..2
  /\ cursor \in 0..Len(hist)
  /\ row \in [Thread -> 0..Len(hist)]
  /\ stored \subseteq 1..Len(hist)
  /\ torn \subseteq Thread /\ leftOut \subseteq Thread
  /\ mishaps \in 0..MaxMishaps
  /\ job \in [Run -> Job]

Init ==
  /\ \E t \in Thread : hist = <<[thread |-> t, mail |-> TRUE]>>
  /\ bad \in SUBSET Thread
  /\ token = TRUE /\ status = "connected" /\ age = 0 /\ cursor = 0
  /\ row = [t \in Thread |-> 0] /\ stored = {}
  /\ job = [p \in Run |-> Idle]
  /\ mishaps = 0 /\ torn = {} /\ leftOut = {}

-----------------------------------------------------------------------------
(* A pass: list the mailboxes, read this one, claim it.                    *)

\* The caller lists the mailboxes with a refresh token, and later takes this
\* one unless the list showed it in error.
ListMailbox(p) ==
  /\ job[p].pc = "idle" /\ token /\ status # "error"
  /\ job' = [job EXCEPT ![p].pc = "listed"]
  /\ UNCHANGED <<google, account, local, mishaps, torn, leftOut>>

\* A claim another run left is not a status to go back to.
priorStatusAsRead == status
priorStatus == IF status = "syncing" THEN "connected" ELSE status

LoadAccount(p) ==
  /\ job[p].pc = "listed"
  /\ job' = [job EXCEPT ![p] =
       IF token THEN [Idle EXCEPT !.pc = "read", !.from = cursor,
                        !.prior = priorStatus]
                ELSE Idle]
  /\ UNCHANGED <<google, account, local, mishaps, torn, leftOut>>

\* SYNC_CLAIM_STALE_MS is ten minutes since anything wrote the account.
ClaimIsForever == FALSE
ClaimIsStale == age = 2
Claimable == token /\ status # "disconnected" /\ (status # "syncing" \/ ClaimIsStale)

Claim(p) ==
  /\ job[p].pc = "read"
  /\ IF Claimable
     THEN /\ status' = "syncing" /\ age' = 0
          /\ job' = [job EXCEPT ![p].pc = "start",
                       ![p].kind = IF job[p].from = 0 THEN "first" ELSE "incremental"]
     ELSE /\ job' = [job EXCEPT ![p] = Idle]
          /\ UNCHANGED <<status, age>>
  /\ UNCHANGED <<google, token, cursor, local, mishaps, torn, leftOut>>

-----------------------------------------------------------------------------
(* What there is to import.                                                *)

ChangedSince(h) == {hist[i].thread : i \in (h + 1)..Len(hist)}
FirstChange(t, h) == Min({i \in (h + 1)..Len(hist) : hist[i].thread = t})

\* history.list from the cursor that was read before the claim.
ReadHistory(p) ==
  LET changed == ChangedSince(job[p].from) IN
  /\ job[p].pc = "start" /\ job[p].kind = "incremental" /\ token
  /\ Cardinality(changed) <= IncrementalMax
  /\ job' = [job EXCEPT ![p].pc = "import", ![p].head = Len(hist), ![p].floor = Frontier,
                        ![p].todo = changed]
  /\ UNCHANGED <<google, account, local, mishaps, torn, leftOut>>

\* Google has dropped the history since the cursor (404), at any time it
\* likes, or too many threads changed.
HistoryExpired(p) ==
  /\ job[p].pc = "start" /\ job[p].kind = "incremental" /\ token
  /\ job[p].from < Len(hist)
  /\ job' = [job EXCEPT ![p].kind = "catchUp"]
  /\ UNCHANGED <<google, account, local, mishaps, torn, leftOut>>

\* Cursor first: what changes during the walk is left to the next pass.
ReadProfile(p) ==
  /\ job[p].pc = "start" /\ job[p].kind \in {"first", "catchUp"} /\ token
  /\ job' = [job EXCEPT ![p].pc = "list", ![p].head = Len(hist)]
  /\ UNCHANGED <<google, account, local, mishaps, torn, leftOut>>

\* The age half of the cap: a first import asks for recent mail, a catch-up
\* for the mail since the last good pass.
Wanted(p) ==
  LET after == IF job[p].kind = "catchUp" THEN job[p].from ELSE Old
  IN  {t \in Thread : LastMail(t) > after}

\* Those of S whose row does not count every message.
Unfetched(S) == {t \in S : row[t] # LastMail(t)}

ListThreads(p) ==
  /\ job[p].pc = "list" /\ token
  /\ job' = [job EXCEPT ![p].pc = "import", ![p].todo = Wanted(p), ![p].from = Len(hist)]
  /\ leftOut' = IF job[p].kind = "first" THEN leftOut \cup Unfetched(Thread \ Wanted(p))
                                        ELSE leftOut
  /\ UNCHANGED <<google, account, local, mishaps, torn>>

\* backfillEmailAccount: no claim; the threads with mail older than anything
\* local, those that have a row left out.  With none it does nothing.
OlderThanLocal == {t \in Thread \ Local : \E h \in Mails(t) : h < Frontier}

StartBackfill(p) ==
  /\ job[p].pc = "idle" /\ token /\ OlderThanLocal # {}
  /\ job' = [job EXCEPT ![p] = [Idle EXCEPT !.pc = "import", !.kind = "backfill",
                               !.todo = OlderThanLocal, !.from = Len(hist)]]
  /\ UNCHANGED <<google, account, local, mishaps, torn, leftOut>>

-----------------------------------------------------------------------------
(* One thread after the other.                                             *)

Capped(p) ==
  \/ job[p].kind = "first" /\ job[p].synced >= FullCap
  \/ job[p].kind = "catchUp" /\ job[p].synced >= CatchUpCap
  \/ job[p].kind = "backfill" /\ job[p].synced >= BackfillCap
Done(p) == job[p].todo = {} \/ Capped(p)

\* History brings the thread first that changed first; a list, the one with
\* the newest mail when it was listed.
ComesBefore(p, t, u) ==
  IF job[p].kind = "incremental" THEN FirstChange(t, job[p].from) < FirstChange(u, job[p].from)
                                 ELSE LastMailBy(t, job[p].from) > LastMailBy(u, job[p].from)
NextInLine(p) == {t \in job[p].todo : \A u \in job[p].todo \ {t} : ComesBefore(p, t, u)}

\* The current thread is behind this run: stored or left out (good), or
\* rejected and noted.
Behind(p, good) ==
  [job EXCEPT ![p].pc = "import", ![p].now = "none", ![p].snap = 0,
              ![p].ok = @ \/ good, ![p].failed = @ + (IF good THEN 0 ELSE 1)]

\* format=minimal: the row already counts every message Google has.
IsThreadUnchanged(t) == row[t] # 0 /\ row[t] = LastMail(t)

FetchThread(p) ==
  /\ job[p].pc = "import" /\ ~Done(p) /\ token
  /\ \E t \in NextInLine(p) :
       job' = IF job[p].kind = "catchUp" /\ IsThreadUnchanged(t)
              THEN [Behind(p, TRUE) EXCEPT ![p].todo = @ \ {t}]
              ELSE [job EXCEPT ![p].pc = "row", ![p].todo = @ \ {t}, ![p].now = t,
                               ![p].snap = LastMail(t)]
  /\ UNCHANGED <<google, account, local, mishaps, torn, leftOut>>

\* upsertThread's row; an incremental pass leaves out an unknown thread that
\* is older than everything local was when it began.
WriteRow(p) ==
  LET t == job[p].now IN
  /\ job[p].pc = "row"
  /\ IF job[p].kind = "incremental" /\ row[t] = 0 /\ job[p].snap < job[p].floor
     THEN job' = Behind(p, TRUE) /\ leftOut' = leftOut \cup {t} /\ UNCHANGED row
     ELSE /\ row' = [row EXCEPT ![t] = job[p].snap]
          /\ job' = [job EXCEPT ![p].pc = "messages"]
          /\ leftOut' = IF job[p].snap = LastMail(t) THEN leftOut \ {t} ELSE leftOut
  /\ UNCHANGED <<google, account, stored, mishaps, torn>>

\* upsertThread's messages, those of the fetched thread.
WriteMessages(p) ==
  LET t == job[p].now IN
  /\ job[p].pc = "messages" /\ t \notin bad
  /\ stored' = stored \cup {h \in Mails(t) : h <= job[p].snap}
  /\ job' = [Behind(p, TRUE) EXCEPT ![p].synced = @ + 1]
  /\ UNCHANGED <<google, account, row, mishaps, torn, leftOut>>

\* A deterministic failure, before the row or after it, skips the thread.
RejectThread(p) ==
  /\ job[p].pc \in {"row", "messages"} /\ job[p].now \in bad
  /\ job' = Behind(p, FALSE)
  /\ UNCHANGED <<google, account, local, mishaps, torn, leftOut>>

-----------------------------------------------------------------------------
(* How a run ends.                                                         *)

AllFailed(p) == job[p].failed >= AllFailedMin /\ ~job[p].ok
TruncatedUnseen(p) == FALSE
Truncated(p) == job[p].kind = "catchUp" /\ job[p].todo # {}
ConnectedAssumed == TRUE
Connected == token /\ status # "disconnected"

FinishPass(p) ==
  /\ job[p].pc = "import" /\ Done(p) /\ ~AllFailed(p) /\ job[p].kind # "backfill"
  /\ IF Connected
     THEN /\ status' = "connected"
          /\ cursor' = IF Truncated(p) THEN cursor ELSE job[p].head
          /\ leftOut' = IF job[p].kind = "first" THEN leftOut \cup Unfetched(job[p].todo)
                                                ELSE leftOut
     ELSE UNCHANGED <<status, cursor, leftOut>>
  /\ job' = [job EXCEPT ![p] = Idle]
  /\ UNCHANGED <<google, token, age, local, mishaps, torn>>

\* A backfill saves its count of threads in the account's row, and so renews a
\* claim that a pass holds, or held when it died.
FinishBackfill(p) ==
  /\ job[p].pc = "import" /\ Done(p) /\ ~AllFailed(p) /\ job[p].kind = "backfill"
  /\ age' = 0
  /\ job' = [job EXCEPT ![p] = Idle]
  /\ UNCHANGED <<google, token, status, cursor, local, mishaps, torn, leftOut>>

\* A transient failure gives the mailbox back as it was read; a backfill
\* never touches the status.  Both note the failure in the account's row.
GiveBack(p) ==
  /\ status' = IF job[p].kind = "backfill" \/ status = "disconnected"
               THEN status ELSE job[p].prior
  /\ age' = 0
  /\ job' = [job EXCEPT ![p] = Idle]
  /\ UNCHANGED <<google, token, cursor, local, leftOut>>

BreakOff(p) ==
  torn' = IF job[p].pc = "messages" THEN torn \cup {job[p].now} ELSE torn

FailTransiently(p) ==
  /\ Working(p) /\ mishaps < MaxMishaps
  /\ mishaps' = mishaps + 1
  /\ BreakOff(p) /\ GiveBack(p)

AbortAllFailed(p) ==
  /\ job[p].pc = "import" /\ Done(p) /\ AllFailed(p)
  /\ GiveBack(p)
  /\ UNCHANGED <<mishaps, torn, leftOut>>

\* Google refuses the credential, or there is none any more: reconnect.
MarkError == status' = IF status = "disconnected" THEN status ELSE "error"

FailAuth(p) ==
  /\ Calling(p)
  /\ IF token THEN mishaps < MaxMishaps /\ mishaps' = mishaps + 1
              ELSE UNCHANGED mishaps
  /\ MarkError
  /\ job' = [job EXCEPT ![p] = Idle]
  /\ UNCHANGED <<google, token, age, cursor, local, torn, leftOut>>

\* The function is killed: nothing is written, a claim stays.
Die(p) ==
  /\ job[p].pc # "idle" /\ mishaps < MaxMishaps
  /\ mishaps' = mishaps + 1
  /\ BreakOff(p)
  /\ job' = [job EXCEPT ![p] = Idle]
  /\ UNCHANGED <<google, account, local, leftOut>>

-----------------------------------------------------------------------------
(* The owner and Google.                                                   *)

\* disconnectEmailAccount: the history id and the mail stay.
Disconnect ==
  /\ token /\ mishaps < MaxMishaps
  /\ mishaps' = mishaps + 1
  /\ token' = FALSE /\ status' = "disconnected"
  /\ UNCHANGED <<google, age, cursor, local, job, torn, leftOut>>

\* The OAuth callback, whatever state the row is in.
Connect ==
  /\ ~(token /\ status = "connected")
  /\ IF status = "syncing" THEN mishaps < MaxMishaps /\ mishaps' = mishaps + 1
                           ELSE UNCHANGED mishaps
  /\ token' = TRUE /\ status' = "connected"
  /\ UNCHANGED <<google, age, cursor, local, job, torn, leftOut>>

\* Write-back, or the calendar, meets a revoked grant.
RecordAuthError ==
  /\ token /\ status # "error" /\ mishaps < MaxMishaps
  /\ mishaps' = mishaps + 1
  /\ MarkError
  /\ UNCHANGED <<google, token, age, cursor, local, job, torn, leftOut>>

\* Five minutes go by under a claim.  A pass lives no longer (maxDuration).
Tick ==
  /\ status = "syncing" /\ age < 2
  /\ \A p \in Pass : ~Working(p)
  /\ age' = age + 1
  /\ UNCHANGED <<google, token, status, cursor, local, job, mishaps, torn, leftOut>>

\* pullCalendarForAccount, in every email-sync cron run after the mail: it
\* saves its sync token, or the note that it failed, in the account's row.
CalendarPull ==
  /\ Calendar /\ token /\ status = "syncing" /\ age > 0
  /\ age' = 0
  /\ UNCHANGED <<google, token, status, cursor, local, job, mishaps, torn, leftOut>>

\* A message, or a label change of a thread that has one.
Change(t, mail) ==
  /\ Len(hist) < MaxHistory
  /\ mail \/ Mails(t) # {}
  /\ hist' = Append(hist, [thread |-> t, mail |-> mail])
  /\ UNCHANGED <<bad, account, local, job, mishaps, torn, leftOut>>

Step(p) ==
  \/ LoadAccount(p) \/ Claim(p) \/ ReadHistory(p) \/ HistoryExpired(p)
  \/ ReadProfile(p) \/ ListThreads(p) \/ FetchThread(p) \/ WriteRow(p)
  \/ WriteMessages(p) \/ RejectThread(p) \/ FinishPass(p) \/ FinishBackfill(p)
  \/ AbortAllFailed(p)

Next ==
  \/ \E p \in Pass : ListMailbox(p)
  \/ \E p \in Click : StartBackfill(p)
  \/ \E p \in Run : Step(p) \/ FailTransiently(p) \/ FailAuth(p) \/ Die(p)
  \/ Disconnect \/ Connect \/ RecordAuthError \/ Tick \/ CalendarPull
  \/ \E t \in Thread, mail \in BOOLEAN : Change(t, mail)

\* Cron lists every mailbox, and pulls every calendar, again and again; a run
\* that is alive goes on; time passes.
Fairness ==
  /\ \A p \in Pass : WF_vars(ListMailbox(p))
  /\ \A p \in Run : WF_vars(Step(p) \/ FailAuth(p))
  /\ WF_vars(Tick) /\ WF_vars(CalendarPull)

Spec == Init /\ [][Next]_vars /\ Fairness

-----------------------------------------------------------------------------
(* What the mailbox promises.                                              *)

\* The next pass looks at the thread again, whole.
Due(t, h) == LastMail(t) > h

BeingStored(h) ==
  \E p \in Run : job[p].pc = "messages" /\ job[p].snap >= h /\ job[p].now = hist[h].thread

\* Stored or about to be; or its thread was rejected, or torn.
Held(h) == h \in stored \/ BeingStored(h) \/ hist[h].thread \in bad \cup torn

\* No gap, whatever passes, backfills, reconnects and deaths overlap: a
\* message the cursor has passed is stored or about to be, or its thread is
\* due again, or a pass left it to the backfill as older, or beyond the first
\* import's cap.  Rejected and torn threads are excepted by name.
Passed(c) ==
  \A h \in 1..c : hist[h].mail =>
    Held(h) \/ Due(hist[h].thread, c) \/ hist[h].thread \in leftOut
NothingFallsBetween == Passed(cursor)

\* "Unknown threads older than the current frontier belong to backfill; known
\* threads and anything newer sync normally" (runIncrementalSync): what a pass
\* left out, and is not due, the backfill's next window lists.
BackfillReaches(t) == row[t] = 0 /\ (Local = {} \/ \E h \in Mails(t) : h < Frontier)
LeftOutBelongsToBackfill ==
  \A t \in leftOut : Due(t, cursor) \/ BackfillReaches(t) \/ t \in bad

\* Skipping a thread that a passing failure broke off "would advance the
\* cursor past mail that was never stored and is never re-fetched"
\* (syncOneThread): a step that moves the cursor passes stored mail only.
CursorPassesStoredMail ==
  [][\A h \in (cursor + 1)..cursor' :
       hist[h].mail => \/ h \in stored \/ BeingStored(h)
                       \/ LET t == hist[h].thread
                          IN  Due(t, cursor') \/ t \in leftOut' \/ t \in bad]_vars

\* Only its owner brings a disconnected mailbox back.
DisconnectedStays ==
  [][status = "disconnected" /\ status' # "disconnected" => token' /\ ~token /\ job' = job]_vars

\* A mailbox that stays connected is caught up with again and again, after
\* deaths, expired cursors and catch-ups that stop at their cap, once its owner
\* stops loading older mail: a backfill's end renews a dead pass's claim.
CatchesUp ==
  <>[](/\ token /\ status \in {"connected", "syncing"}
       /\ Cardinality(bad) < AllFailedMin
       /\ \A p \in Click : job[p].pc = "idle") => []<>(cursor = Len(hist))

=============================================================================
