-------------------------- MODULE NotificationEmail --------------------------
(***************************************************************************)
(* The e-mail outbox of notifications: src/lib/notification-email.ts, its  *)
(* policy, the cron that runs it every five minutes, and the actions that  *)
(* change what it decides on (a notice is read, a category changes mode).  *)
(*                                                                         *)
(* A run claims rows in a short transaction behind an advisory lock, which *)
(* is one step here, commits, and then sends and stamps each e-mail in     *)
(* steps of their own, with other runs in between.  The platform may end a *)
(* run at any step; it ends every run long before its claims count as      *)
(* abandoned (60 s against RECLAIM_AFTER_MS), so only rows that no live    *)
(* run holds are reclaimed.                                                *)
(*                                                                         *)
(* Digest days are counted from digest hour to digest hour, and only the   *)
(* current one is kept: fresh rows were created after today's digest hour. *)
(***************************************************************************)
EXTENDS Naturals, FiniteSets, FiniteSetsExt

CONSTANTS
  Notification,   \* row ids, numbered in the order of createdAt
  User, UserOf,   \* the recipient of each row
  Run,            \* runs that may overlap
  MaxAttempts,    \* NOTIFICATION_EMAIL_MAX_ATTEMPTS
  MaxDeaths, MaxLost, MaxChanges   \* bounds: dead runs, lost replies, mode changes

ASSUME NotificationEmailAssumption ==
  /\ Notification \subseteq Nat /\ IsFiniteSet(Notification)
  /\ UserOf \in [Notification -> User]
  /\ MaxAttempts \in Nat \ {0}
  /\ {MaxDeaths, MaxLost, MaxChanges} \subseteq Nat

States  == {"none", "pending", "held", "sending", "sent", "skipped", "failed"}
Settled == {"sent", "skipped", "failed"}
Modes   == {"off", "instant", "digest"}

VARIABLES
  state,       \* Notification.emailState, "none" before the row exists
  attempts,    \* Notification.emailAttempts
  read,        \* readAt is set
  fresh,       \* created after today's digest hour
  mode,        \* per recipient, the effective e-mail mode
  dayClaimed,  \* per recipient, notificationDigestSentOn is today
  run,         \* the state of each run
  keys,        \* idempotency keys the provider knows
  delivered,   \* per row, how many e-mails carried it
  digested,    \* recipients who got a digest today
  abandoned,   \* recipients whose digest today died with its run
  deaths, lost, changes

rowVars  == <<state, attempts, read, fresh>>
provider == <<keys, delivered, digested>>
mishaps  == <<abandoned, deaths, lost>>
vars     == <<rowVars, mode, dayClaimed, run, provider, mishaps, changes>>

Idle == [at |-> "idle"]

Init ==
  /\ state = [n \in Notification |-> "none"]
  /\ attempts = [n \in Notification |-> 0]
  /\ read = [n \in Notification |-> FALSE] /\ fresh = read
  /\ mode \in [User -> Modes]
  /\ dayClaimed = [u \in User |-> FALSE]
  /\ run = [r \in Run |-> Idle]
  /\ keys = {} /\ delivered = attempts /\ digested = {}
  /\ abandoned = {} /\ deaths = 0 /\ lost = 0 /\ changes = 0

Goto(r, w) == run' = [run EXCEPT ![r] = w]
Mark(S, s) == state' = [n \in Notification |-> IF n \in S THEN s ELSE state[n]]
In(s)      == {n \in Notification : state[n] = s}

\* decideEmail: "send", "hold" or "skip", each of a set of rows.
Skip(S) == {n \in S : read[n] \/ mode[UserOf[n]] = "off"}
Hold(S) == {n \in S \ Skip(S) : mode[UserOf[n]] = "digest"}
Send(S) == {n \in S \ Skip(S) : mode[UserOf[n]] = "instant"}

\* The rows a run has claimed and not yet stamped or given back.
JobRows(jobs) == UNION {j.rows : j \in jobs}
Hands(r) ==
  CASE run[r].at \in {"instant", "stamp"} -> run[r].todo \cup run[r].now
    [] run[r].at \in {"digests", "stamp digest", "release", "unclaim day"} ->
         JobRows(run[r].todo) \cup run[r].now
    [] OTHER -> {}

(***************************************************************************)
(* Notices and recipients                                                  *)
(***************************************************************************)
CreateNotification(n) ==
  /\ state[n] = "none" /\ \A k \in Notification : k < n => state[k] # "none"
  /\ state' = [state EXCEPT ![n] = "pending"]
  /\ fresh' = [fresh EXCEPT ![n] = TRUE]
  /\ UNCHANGED <<attempts, read, mode, dayClaimed, run, provider, mishaps, changes>>

MarkNotificationRead(n) ==
  /\ state[n] # "none" /\ ~read[n]
  /\ read' = [read EXCEPT ![n] = TRUE]
  /\ UNCHANGED <<state, attempts, fresh, mode, dayClaimed, run, provider, mishaps, changes>>

\* Held rows go back to the outbox unless the new mode is the digest.
SetNotificationEmailMode(u, m) ==
  /\ changes < MaxChanges /\ mode[u] # m
  /\ mode' = [mode EXCEPT ![u] = m]
  /\ IF m = "digest" THEN UNCHANGED state
     ELSE Mark({n \in In("held") : UserOf[n] = u}, "pending")
  /\ changes' = changes + 1
  /\ UNCHANGED <<attempts, read, fresh, dayClaimed, run, provider, mishaps>>

\* The digest hour comes round.  A digest is claimed between it and midnight,
\* and its run is over long before the next one.
NewDay ==
  /\ \A r \in Run : run[r].at \in {"idle", "instant", "stamp"}
  /\ fresh' = [n \in Notification |-> FALSE]
  /\ dayClaimed' = [u \in User |-> FALSE]
  /\ keys' = {k \in keys : ~k.digest}
  /\ digested' = {} /\ abandoned' = {}
  /\ UNCHANGED <<state, attempts, read, mode, run, delivered, deaths, lost, changes>>

(***************************************************************************)
(* Instant e-mails                                                         *)
(***************************************************************************)
\* Claimed rows whose run died.
Orphans == In("sending") \ UNION {Hands(r) : r \in Run}

DecideAndClaim(r, S) ==
  /\ run[r] = Idle
  /\ state' = [n \in Notification |->
       CASE n \in Skip(S) -> "skipped" [] n \in Hold(S) -> "held"
         [] n \in Send(S) -> "sending" [] OTHER -> state[n]]
  /\ Goto(r, [at |-> "instant", todo |-> Send(S), now |-> {}])
  /\ UNCHANGED <<attempts, read, fresh, mode, dayClaimed, provider, mishaps, changes>>

ClaimInstantEagerly(r, reclaimed) == DecideAndClaim(r, In("pending") \cup In("sending"))
ClaimInstantOnce(r, reclaimed)    == DecideAndClaim(r, In("pending"))

\* Decide pending rows, and those orphans whose claim is old enough by now.
ClaimInstant(r, reclaimed) == DecideAndClaim(r, In("pending") \cup reclaimed)

\* sendEmail: the provider drops a request whose key it has seen; the answer
\* may be lost after it was accepted, or the provider may refuse.
Deliver(k) ==
  /\ keys' = keys \cup {k}
  /\ delivered' = [n \in Notification |->
       IF n \in k.rows /\ k \notin keys THEN delivered[n] + 1 ELSE delivered[n]]
  /\ digested' = IF k.digest THEN digested \cup {UserOf[n] : n \in k.rows} ELSE digested

SendEmail(k, ok) ==
  \/ ok /\ Deliver(k) /\ UNCHANGED lost
  \/ ~ok /\ lost < MaxLost /\ Deliver(k) /\ lost' = lost + 1
  \/ ~ok /\ UNCHANGED <<provider, lost>>

\* One row at a time, oldest first.
SendInstant(r) ==
  /\ run[r].at = "instant" /\ run[r].todo # {}
  /\ LET n == Min(run[r].todo) IN \E ok \in BOOLEAN :
       /\ SendEmail([digest |-> FALSE, rows |-> {n}], ok)
       /\ Goto(r, [at |-> "stamp", todo |-> run[r].todo \ {n}, now |-> {n}, ok |-> ok])
  /\ UNCHANGED <<rowVars, mode, dayClaimed, abandoned, deaths, changes>>

Sending(S) == S \cap In("sending")

RecordFailureUncapped(S, retry) ==
  /\ attempts' = [n \in Notification |->
       IF n \in Sending(S) THEN attempts[n] + 1 ELSE attempts[n]]
  /\ Mark(Sending(S), retry)

\* An attempt on each row: retried, or "failed" at the cap.
RecordFailure(S, retry) ==
  /\ attempts' = [n \in Notification |->
       IF n \in Sending(S) THEN attempts[n] + 1 ELSE attempts[n]]
  /\ state' = [n \in Notification |->
       IF n \notin Sending(S) THEN state[n]
       ELSE IF attempts[n] + 1 >= MaxAttempts THEN "failed" ELSE retry]

StampInstantBatch(r) ==
  /\ run[r].at = "stamp"
  /\ IF run[r].ok THEN Mark(Sending(run[r].now \cup run[r].todo), "sent") /\ UNCHANGED attempts
     ELSE RecordFailure(run[r].now, "pending")
  /\ Goto(r, [at |-> "instant", todo |-> run[r].todo, now |-> {}])
  /\ UNCHANGED <<read, fresh, mode, dayClaimed, provider, mishaps, changes>>

StampInstant(r) ==
  /\ run[r].at = "stamp"
  /\ IF run[r].ok THEN Mark(Sending(run[r].now), "sent") /\ UNCHANGED attempts
     ELSE RecordFailure(run[r].now, "pending")
  /\ Goto(r, [at |-> "instant", todo |-> run[r].todo, now |-> {}])
  /\ UNCHANGED <<read, fresh, mode, dayClaimed, provider, mishaps, changes>>

\* Over the time budget, or e-mail is not configured: every unsent claim is
\* handed back and the run ends.
ReleaseInstant(r) ==
  /\ run[r].at = "instant" /\ run[r].todo # {}
  /\ Mark(Sending(run[r].todo), "pending")
  /\ Goto(r, Idle)
  /\ UNCHANGED <<attempts, read, fresh, mode, dayClaimed, provider, mishaps, changes>>

(***************************************************************************)
(* Digests                                                                 *)
(***************************************************************************)
HeldFor(u) == {n \in In("held") : UserOf[n] = u /\ ~fresh[n]}
Due        == {u \in User : ~dayClaimed[u] /\ HeldFor(u) # {}}
DigestJobs == {[user |-> u, rows |-> Hold(HeldFor(u))] : u \in {v \in Due : Hold(HeldFor(v)) # {}}}

ClaimDigestsUnmarked(r) ==
  LET S == UNION {HeldFor(u) : u \in Due} IN
  /\ run[r].at = "instant" /\ run[r].todo = {}
  /\ state' = [n \in Notification |->
       CASE n \in Skip(S) -> "skipped" [] n \in Send(S) -> "pending" [] OTHER -> state[n]]
  /\ dayClaimed' = [u \in User |-> dayClaimed[u] \/ \E j \in DigestJobs : j.user = u]
  /\ Goto(r, IF DigestJobs = {} THEN Idle
             ELSE [at |-> "digests", todo |-> DigestJobs, now |-> {}])
  /\ UNCHANGED <<attempts, read, fresh, mode, provider, mishaps, changes>>

\* Re-decide the held rows of every recipient whose digest is due and claim
\* the survivors, and the day, for one digest each.
ClaimDigests(r) ==
  LET S == UNION {HeldFor(u) : u \in Due} IN
  /\ run[r].at = "instant" /\ run[r].todo = {}
  /\ state' = [n \in Notification |->
       CASE n \in Skip(S) -> "skipped" [] n \in Send(S) -> "pending"
         [] n \in Hold(S) -> "sending" [] OTHER -> state[n]]
  /\ dayClaimed' = [u \in User |-> dayClaimed[u] \/ \E j \in DigestJobs : j.user = u]
  /\ Goto(r, IF DigestJobs = {} THEN Idle
             ELSE [at |-> "digests", todo |-> DigestJobs, now |-> {}])
  /\ UNCHANGED <<attempts, read, fresh, mode, provider, mishaps, changes>>

AfterDigest(jobs) == IF jobs = {} THEN Idle ELSE [at |-> "digests", todo |-> jobs, now |-> {}]
AfterRelease(jobs) == IF jobs = {} THEN Idle ELSE [at |-> "release", todo |-> jobs, now |-> {}]

\* The idempotency key of a digest: its recipient, the day and the exact rows.
SendDigest(r) ==
  /\ run[r].at = "digests"
  /\ \E j \in run[r].todo, ok \in BOOLEAN :
       /\ SendEmail([digest |-> TRUE, rows |-> j.rows], ok)
       /\ Goto(r, [at |-> "stamp digest", todo |-> run[r].todo \ {j},
                   now |-> j.rows, user |-> j.user, ok |-> ok])
  /\ UNCHANGED <<rowVars, mode, dayClaimed, abandoned, deaths, changes>>

\* Sent, or a failed attempt after which the day is given back too.
StampDigest(r) ==
  /\ run[r].at = "stamp digest"
  /\ IF run[r].ok
       THEN /\ Mark(Sending(run[r].now), "sent") /\ UNCHANGED attempts
            /\ Goto(r, AfterDigest(run[r].todo))
       ELSE /\ RecordFailure(run[r].now, "held")
            /\ Goto(r, [at |-> "unclaim day", user |-> run[r].user, todo |-> run[r].todo,
                        now |-> {}, next |-> "digests"])
  /\ UNCHANGED <<read, fresh, mode, dayClaimed, provider, mishaps, changes>>

ReleaseDigests(r) ==
  /\ run[r].at = "digests"
  /\ Goto(r, [run[r] EXCEPT !.at = "release"])
  /\ UNCHANGED <<rowVars, mode, dayClaimed, provider, mishaps, changes>>

ReleaseDigestKeepingDay(r) ==
  /\ run[r].at = "release"
  /\ \E j \in run[r].todo :
       /\ Mark(Sending(j.rows), "held")
       /\ Goto(r, AfterRelease(run[r].todo \ {j}))
  /\ UNCHANGED <<attempts, read, fresh, mode, dayClaimed, provider, mishaps, changes>>

ReleaseDigest(r) ==
  /\ run[r].at = "release"
  /\ \E j \in run[r].todo :
       /\ Mark(Sending(j.rows), "held")
       /\ Goto(r, [at |-> "unclaim day", user |-> j.user, todo |-> run[r].todo \ {j},
                   now |-> {}, next |-> "release"])
  /\ UNCHANGED <<attempts, read, fresh, mode, dayClaimed, provider, mishaps, changes>>

\* notificationDigestSentOn goes back to what it was before the claim.
UnclaimDay(r) ==
  /\ run[r].at = "unclaim day"
  /\ dayClaimed' = [dayClaimed EXCEPT ![run[r].user] = FALSE]
  /\ Goto(r, IF run[r].next = "digests" THEN AfterDigest(run[r].todo)
             ELSE AfterRelease(run[r].todo))
  /\ UNCHANGED <<rowVars, mode, provider, mishaps, changes>>

\* Recipients whose day a run has claimed for a digest it still holds.
DigestUsers(r) ==
  CASE run[r].at \in {"digests", "release"} -> {j.user : j \in run[r].todo}
    [] run[r].at \in {"stamp digest", "unclaim day"} ->
         {j.user : j \in run[r].todo} \cup {run[r].user}
    [] OTHER -> {}

RunDies(r) ==
  /\ run[r] # Idle /\ deaths < MaxDeaths
  /\ abandoned' = abandoned \cup DigestUsers(r)
  /\ Goto(r, Idle) /\ deaths' = deaths + 1
  /\ UNCHANGED <<rowVars, mode, dayClaimed, provider, lost, changes>>

RunStep(r) ==
  \/ SendInstant(r) \/ StampInstant(r) \/ ReleaseInstant(r)
  \/ ClaimDigests(r) \/ SendDigest(r) \/ StampDigest(r)
  \/ ReleaseDigests(r) \/ ReleaseDigest(r) \/ UnclaimDay(r) \/ RunDies(r)

Next ==
  \/ \E n \in Notification : CreateNotification(n) \/ MarkNotificationRead(n)
  \/ \E u \in User, m \in Modes : SetNotificationEmailMode(u, m)
  \/ NewDay
  \/ \E r \in Run, S \in SUBSET Orphans : ClaimInstant(r, S)
  \/ \E r \in Run : RunStep(r)

Spec == Init /\ [][Next]_vars

\* The cron starts a run every five minutes, so every abandoned claim is old
\* enough for some run; a run goes on until it ends or dies; e-mail is not out
\* of order, nor over budget, at the same place for ever; days pass.
Fairness ==
  /\ SF_vars(\E r \in Run : ClaimInstant(r, Orphans))
  /\ \A r \in Run : WF_vars(RunStep(r)) /\ SF_vars(SendInstant(r)) /\ SF_vars(SendDigest(r))
  /\ \A r \in Run : SF_vars(ClaimDigests(r))
  /\ SF_vars(NewDay)

FairSpec == Spec /\ Fairness

-----------------------------------------------------------------------------
(* Properties *)

\* Rows have the type of their columns; no row is tried more than
\* NOTIFICATION_EMAIL_MAX_ATTEMPTS times.
TypeOK ==
  /\ state \in [Notification -> States]
  /\ attempts \in [Notification -> 0 .. MaxAttempts]
  /\ read \in [Notification -> BOOLEAN] /\ fresh \in [Notification -> BOOLEAN]
  /\ mode \in [User -> Modes] /\ dayClaimed \in [User -> BOOLEAN]
  /\ delivered \in [Notification -> Nat]

\* A row in a run's hands is marked as claimed and in no other run's hands,
\* whatever recipients change while the e-mails go out.
ClaimsAreExclusive ==
  \A r \in Run : /\ Hands(r) \subseteq In("sending")
                 /\ \A s \in Run \ {r} : Hands(r) \cap Hands(s) = {}

\* A row is stamped sent only if an e-mail carried it.
SentMeansDelivered == \A n \in In("sent") : delivered[n] > 0

\* Overlapping runs, releases, retries and mode changes never e-mail a notice
\* twice: each repetition takes a dead run or a lost reply.
DuplicatesNeedMishaps == \A n \in Notification : delivered[n] <= 1 + deaths + lost

\* A recipient's digest day is claimed only by a digest that went out today,
\* that a run still holds, or that died with its run: a failed or released
\* digest is due again at the next run.
DayClaimIsEarned ==
  \A u \in User : dayClaimed[u] =>
    u \in digested \cup abandoned \cup UNION {DigestUsers(r) : r \in Run}

\* Every notice is e-mailed, skipped or given up: dead runs' claims are taken
\* back, failures end, and nothing waits for a digest for ever.
NoticesSettle == \A n \in Notification : state[n] # "none" ~> state[n] \in Settled

\* What the worker's header says of a run that dies: at worst one duplicate,
\* for the row in flight.
Excess(n) == IF delivered[n] > 1 THEN delivered[n] - 1 ELSE 0
OneDuplicatePerDeath ==
  lost = 0 => MapThenSumSet(Excess, Notification) <= deaths
=============================================================================
