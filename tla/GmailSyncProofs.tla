--------------------------- MODULE GmailSyncProofs ---------------------------
(* Proofs about GmailSync, for any mailbox, any number of passes, backfills  *)
(* and mishaps and any caps.                                                 *)
(*                                                                           *)
(* The argument: what is Held stays held, and a thread that is due stays due *)
(* with respect to a given position of the history; so what was true of the  *)
(* mail below a position when a run read it (Covered) is still true when the *)
(* run makes that position the cursor, whatever the other runs did meanwhile *)
(* and wherever the cursor went.  Each run answers for its own window only.  *)
EXTENDS GmailSync, WellFoundedInduction, TLAPS

-----------------------------------------------------------------------------
(* The inductive invariant.                                                *)

\* The mail up to n is held, or its thread is due beyond n, left out, or in S.
Covered(n, S) ==
  \A h \in 1..n : hist[h].mail =>
    Held(h) \/ Due(hist[h].thread, n) \/ hist[h].thread \in leftOut \cup S

\* A thread's row counts no message that is not held.
RowsAreBacked == \A t \in Thread : \A h \in Mails(t) : h <= row[t] => Held(h)

\* Only its owner brings a disconnected mailbox back: nobody syncs it.
CredentialsOK == status = "disconnected" => ~token

\* What a run still has to bring in.
ToDo(w) == IF w.pc = "row" THEN w.todo \cup {w.now} ELSE w.todo

\* What a run knows: where it is in its course, that what it read the cursor
\* for was passed, that its fetch counts what its window has of the thread,
\* and that what it has not brought in of its window is still before it.
WorkOK(w) ==
  /\ w.pc \in {"start", "list"} => w.kind \in {"first", "incremental", "catchUp"}
  /\ w.pc = "list" => w.kind # "incremental"
  /\ w.pc \in {"import", "row", "messages"} => w.kind # "none"
  /\ w.pc \in {"read", "start", "list"} => Covered(w.from, {})
  /\ w.pc \in {"row", "messages"} =>
       w.now \in Thread /\ \A h \in Mails(w.now) : h <= w.head => h <= w.snap
  /\ w.pc \in {"import", "row", "messages"} /\ w.kind # "backfill" => Covered(w.head, ToDo(w))

IInv ==
  /\ TypeOK
  /\ CredentialsOK
  /\ RowsAreBacked
  /\ Covered(cursor, {})
  /\ \A p \in Run : WorkOK(job[p])

-----------------------------------------------------------------------------
(* The mail of a thread.                                                   *)

\* A set of positions that is not empty has a last one.
LEMMA MaxIn ==
  ASSUME NEW n \in Nat, NEW S \in SUBSET (0..n), S # {}
  PROVE  Max(S) \in S /\ \A x \in S : x <= Max(S)
  <1> DEFINE LT == OpToRel(<, Nat)
             D == {n - x : x \in S}
  <1>1. IsWellFoundedOn(LT, Nat)
    BY NatLessThanWellFounded
  <1>2. \A x, y \in Nat : x < y => <<x, y>> \in LT
    BY SMT DEF OpToRel
  <1>3. D \subseteq Nat /\ D # {}
    <2>1. \A x \in S : n - x \in Nat
      OBVIOUS
    <2>2. PICK x \in S : TRUE
      OBVIOUS
    <2> QED BY <2>1, <2>2
  <1> HIDE DEF LT
  <1>4. PICK d \in D : \A y \in D : ~(<<y, d>> \in LT)
    <2> HIDE DEF D
    <2> QED BY <1>1, <1>3, WFMin, Zenon
  <1>5. \A y \in D : ~(y < d)
    BY <1>2, <1>3, <1>4, Zenon
  <1>6. PICK x \in S : d = n - x
    BY <1>4
  <1>7. \A y \in S : ~(n - y < d)
    BY <1>5
  <1>8. \A y \in S : x >= y
    BY <1>6, <1>7, SMT
  <1>9. Max(S) \in S /\ \A y \in S : Max(S) >= y
    BY <1>8 DEF Max
  <1> QED BY <1>9, SMT

\* The last of a thread's messages.
LEMMA LastIs ==
  ASSUME NEW n \in Nat, NEW M \in SUBSET (1..n), NEW x, x = Max({h \in M : h <= n} \cup {0})
  PROVE  x \in 0..n /\ x \in M \cup {0} /\ \A h \in M : h <= x
  <1> DEFINE S == {h \in M : h <= n} \cup {0}
  <1>1. S \subseteq 0..n /\ 0 \in S /\ S \subseteq M \cup {0}
    <2>1. \A h \in M : h <= n => h \in 0..n
      OBVIOUS
    <2>2. 0 \in 0..n
      OBVIOUS
    <2> QED BY <2>1, <2>2
  <1>2. x = Max(S)
    OBVIOUS
  <1>3. \A h \in M : h \in S
    OBVIOUS
  <1> HIDE DEF S
  <1>4. x \in S /\ \A h \in S : h <= x
    BY <1>1, <1>2, MaxIn
  <1> QED BY <1>1, <1>3, <1>4

\* The same before and after a step.
LEMMA LastMailIs ==
  ASSUME TypeOK, NEW t
  PROVE  /\ LastMail(t) \in 0..Len(hist) /\ LastMail(t) \in Mails(t) \cup {0}
         /\ \A h \in Mails(t) : h <= LastMail(t)
  <1>1. Len(hist) \in Nat
    BY DEF TypeOK
  <1>2. Mails(t) \subseteq 1..Len(hist)
    BY DEF Mails
  <1> QED BY <1>1, <1>2, LastIs DEF LastMail, LastMailBy

LEMMA NextLastMailIs ==
  ASSUME TypeOK', NEW t
  PROVE  /\ LastMail(t)' \in 0..Len(hist') /\ LastMail(t)' \in Mails(t)' \cup {0}
         /\ \A h \in Mails(t)' : h <= LastMail(t)'
  <1>1. Len(hist') \in Nat
    BY DEF TypeOK
  <1>2. Mails(t)' \subseteq 1..Len(hist')
    BY DEF Mails
  <1> QED BY <1>1, <1>2, LastIs DEF LastMail, LastMailBy

\* A thread is due beyond n when a message of it came after n.
LEMMA DueIs ==
  ASSUME NEW t, NEW n \in Nat
  PROVE  /\ TypeOK => (Due(t, n) <=> \E h \in Mails(t) : h > n)
         /\ TypeOK' => (Due(t, n)' <=> \E h \in Mails(t)' : h > n)
  <1>1. ASSUME TypeOK PROVE Due(t, n) <=> \E h \in Mails(t) : h > n
    <2>1. Mails(t) \subseteq Nat
      BY DEF Mails
    <2> QED BY <1>1, <2>1, LastMailIs, SMT DEF Due
  <1>2. ASSUME TypeOK' PROVE Due(t, n)' <=> \E h \in Mails(t)' : h > n
    <2>1. Mails(t)' \subseteq Nat
      BY DEF Mails
    <2> QED BY <1>2, <2>1, NextLastMailIs, SMT DEF Due
  <1> QED BY <1>1, <1>2

-----------------------------------------------------------------------------
(* What every step leaves true.                                            *)

\* The history only grows, what is held stays held, and a thread leaves
\* leftOut only when all its mail is held.
Advances ==
  /\ Len(hist) <= Len(hist') /\ \A h \in 1..Len(hist) : hist'[h] = hist[h]
  /\ \A t \in Thread : \A h \in Mails(t) : Held(h) => Held(h)'
  /\ \A t \in leftOut \ leftOut' : \A h \in Mails(t)' : Held(h)'

LEMMA MailsGrow ==
  ASSUME TypeOK, TypeOK', Advances, NEW t
  PROVE  /\ Mails(t) \subseteq Mails(t)'
         /\ \A h \in Mails(t)' : h <= Len(hist) => h \in Mails(t)
  <1>1. Len(hist) \in Nat /\ Len(hist') \in Nat /\ Len(hist) <= Len(hist')
    BY DEF TypeOK, Advances
  <1>2. \A h \in 1..Len(hist) : hist'[h] = hist[h]
    BY DEF Advances
  <1> QED BY <1>1, <1>2 DEF Mails

\* What a run knows of the mail up to n outlives any step; a thread is taken
\* off its list when it is left out or held.
LEMMA CoveredStays ==
  ASSUME TypeOK, TypeOK', Advances, NEW n \in 0..Len(hist), NEW S, NEW T, Covered(n, S),
         \A t \in (S \ T) \cap Thread : t \in leftOut' \/ \A h \in Mails(t) : h <= n => Held(h)'
  PROVE  Covered(n, T)'
  <1> SUFFICES ASSUME NEW h \in 1..n, hist'[h].mail
               PROVE  Held(h)' \/ Due(hist[h].thread, n)' \/ hist'[h].thread \in leftOut' \cup T
    BY DEF Covered
  <1>1. n \in Nat /\ h \in 1..Len(hist)
    BY DEF TypeOK
  <1>2. hist'[h] = hist[h] /\ hist[h] \in Record
    BY <1>1 DEF Advances, TypeOK
  <1>3. PICK t \in Thread : t = hist[h].thread
    BY <1>2 DEF Record
  <1>4. h \in Mails(t)
    BY <1>1, <1>2, <1>3 DEF Mails
  <1>5. Held(h) \/ Due(t, n) \/ t \in leftOut \cup S
    BY <1>2, <1>3 DEF Covered
  <1>6. Held(h) => Held(h)'
    BY <1>4 DEF Advances
  <1>7. Due(t, n) => Due(t, n)'
    BY <1>1, DueIs, MailsGrow
  <1>8. t \in leftOut => t \in leftOut' \/ Held(h)'
    BY <1>4, MailsGrow DEF Advances
  <1>9. t \in S => t \in T \cup leftOut' \/ Held(h)'
    BY <1>4
  <1> QED BY <1>2, <1>3, <1>5, <1>6, <1>7, <1>8, <1>9

\* So does what a run knows.
LEMMA WorkStays ==
  ASSUME TypeOK, TypeOK', Advances, NEW w \in Job, WorkOK(w)
  PROVE  WorkOK(w)'
  <1>1. w.from \in 0..Len(hist) /\ w.head \in 0..Len(hist)
    BY DEF Job
  <1>2. Covered(w.from, {}) => Covered(w.from, {})'
    BY <1>1, CoveredStays
  <1>3. Covered(w.head, ToDo(w)) => Covered(w.head, ToDo(w))'
    <2> DEFINE S == ToDo(w)
    <2>1. ToDo(w)' = S
      BY DEF ToDo
    <2> HIDE DEF S
    <2>2. Covered(w.head, S) => Covered(w.head, S)'
      BY <1>1, CoveredStays
    <2> QED BY <2>1, <2>2 DEF S
  <1>4. ASSUME w.pc \in {"row", "messages"}, NEW h \in Mails(w.now)', h <= w.head
        PROVE  h <= w.snap
    <2>1. h <= Len(hist)
      BY <1>1, <1>4 DEF TypeOK, Mails
    <2> QED BY <1>4, <2>1, MailsGrow DEF WorkOK
  <1> QED BY <1>2, <1>3, <1>4 DEF WorkOK

-----------------------------------------------------------------------------
(* What a step has to show.                                                *)

\* A run that is about to store messages goes on, or stores them, or its
\* thread is rejected or torn.
KeepsHold(p) ==
  \/ job'[p] = job[p]
  \/ job[p].pc # "messages"
  \/ job[p].now \in bad \cup torn'
  \/ \A h \in Mails(job[p].now) : h <= job[p].snap => h \in stored'

LEMMA HeldStays ==
  ASSUME \A h \in 1..Len(hist) : hist'[h] = hist[h], stored \subseteq stored', bad' = bad,
         torn \subseteq torn', \A p \in Run : KeepsHold(p), NEW t, NEW h \in Mails(t), Held(h)
  PROVE  Held(h)'
  <1>1. h \in 1..Len(hist) /\ hist[h].thread = t /\ hist'[h] = hist[h]
    BY DEF Mails
  <1>2. CASE ~BeingStored(h)
    BY <1>1, <1>2 DEF Held
  <1>3. CASE BeingStored(h)
    <2>1. PICK p \in Run : job[p].pc = "messages" /\ job[p].snap >= h /\ job[p].now = hist[h].thread
      BY <1>3 DEF BeingStored
    <2>2. CASE job'[p] = job[p]
      <3>1. BeingStored(h)'
        BY <1>1, <2>1, <2>2 DEF BeingStored
      <3> QED BY <3>1 DEF Held
    <2>3. CASE job[p].now \in bad \cup torn'
      BY <1>1, <2>1, <2>3 DEF Held
    <2>4. CASE \A g \in Mails(job[p].now) : g <= job[p].snap => g \in stored'
      <3>1. h \in stored'
        BY <1>1, <2>1, <2>4
      <3> QED BY <3>1 DEF Held
    <2> QED BY <2>1, <2>2, <2>3, <2>4 DEF KeepsHold
  <1> QED BY <1>2, <1>3

LEMMA RowsStay ==
  ASSUME TypeOK, TypeOK', Advances, RowsAreBacked, row' = row
  PROVE  RowsAreBacked'
  <1> SUFFICES ASSUME NEW t \in Thread, NEW h \in Mails(t)', h <= row[t] PROVE Held(h)'
    BY DEF RowsAreBacked
  <1>1. h <= Len(hist)
    BY DEF TypeOK, Mails
  <1>2. h \in Mails(t)
    BY <1>1, MailsGrow
  <1> QED BY <1>2 DEF RowsAreBacked, Advances

\* The invariant after a step, from what each action has to show for itself.
LEMMA StepKeeps ==
  ASSUME IInv, TypeOK', CredentialsOK', Advances, RowsAreBacked',
         cursor' = cursor \/ Covered(cursor, {})',
         \A q \in Run : job'[q] = job[q] \/ WorkOK(job[q])'
  PROVE  IInv'
  <1>1. Covered(cursor, {})'
    <2>1. CASE cursor' = cursor
      <3>1. PICK n \in 0..Len(hist) : n = cursor
        BY DEF IInv, TypeOK
      <3>2. Covered(n, {})'
        BY <3>1, CoveredStays DEF IInv
      <3> QED BY <2>1, <3>1, <3>2 DEF Covered
    <2> QED BY <2>1
  <1>2. ASSUME NEW q \in Run PROVE WorkOK(job[q])'
    <2>1. CASE job'[q] = job[q]
      <3>1. PICK w \in Job : w = job[q]
        BY DEF IInv, TypeOK
      <3>2. WorkOK(w)'
        BY <3>1, WorkStays DEF IInv
      <3> QED BY <2>1, <3>1, <3>2
    <2> QED BY <2>1
  <1> QED BY <1>1, <1>2 DEF IInv

\* A step of one run that moves no row, no message and not the history.
LEMMA RunStep ==
  ASSUME IInv, NEW p \in Run, NEW w \in Job, job' = [job EXCEPT ![p] = w],
         UNCHANGED <<hist, bad, row, stored>>,
         torn \subseteq torn', torn' \subseteq Thread,
         leftOut \subseteq leftOut', leftOut' \subseteq Thread,
         token' \in BOOLEAN, status' \in {"connected", "syncing", "disconnected", "error"},
         age' \in 0..2, mishaps' \in 0..MaxMishaps, cursor' \in 0..Len(hist), CredentialsOK',
         job[p].pc = "messages" => job[p].now \in bad \cup torn',
         TypeOK' /\ Advances => cursor' = cursor \/ Covered(cursor, {})',
         TypeOK' /\ Advances => WorkOK(w)'
  PROVE  IInv'
  <1>1. TypeOK'
    BY DEF IInv, TypeOK, Job
  <1>2. job'[p] = w /\ \A q \in Run \ {p} : job'[q] = job[q]
    BY DEF IInv, TypeOK
  <1>3. \A q \in Run : KeepsHold(q)
    BY <1>2 DEF KeepsHold
  <1>4. Advances
    BY <1>3, HeldStays DEF Advances, IInv, TypeOK
  <1>5. RowsAreBacked'
    BY <1>1, <1>4, RowsStay DEF IInv
  <1>6. WorkOK(job[p])'
    BY <1>1, <1>2, <1>4
  <1> QED BY <1>1, <1>2, <1>4, <1>5, <1>6, StepKeeps

\* One that does not even touch the cursor or what was left out.
LEMMA QuietStep ==
  ASSUME IInv, NEW p \in Run, NEW w \in Job, job' = [job EXCEPT ![p] = w],
         UNCHANGED <<hist, bad, row, stored, torn, leftOut, cursor, token>>,
         status' \in {"connected", "syncing", "disconnected", "error"},
         age' \in 0..2, mishaps' \in 0..MaxMishaps, CredentialsOK',
         job[p].pc # "messages", TypeOK' /\ Advances => WorkOK(w)'
  PROVE  IInv'
  <1>1. /\ torn \subseteq torn' /\ torn' \subseteq Thread /\ leftOut \subseteq leftOut'
        /\ leftOut' \subseteq Thread /\ token' \in BOOLEAN /\ cursor' \in 0..Len(hist)
    BY DEF IInv, TypeOK
  <1> QED BY <1>1, RunStep

\* One that writes nothing but its own place.
LEMMA ReadStep ==
  ASSUME IInv, NEW p \in Run, NEW w \in Job, job' = [job EXCEPT ![p] = w],
         UNCHANGED <<google, account, local, mishaps, torn, leftOut>>,
         job[p].pc # "messages", TypeOK' /\ Advances => WorkOK(w)'
  PROVE  IInv'
  <1>1. /\ UNCHANGED <<hist, bad, row, stored, torn, leftOut, cursor, token>>
        /\ UNCHANGED <<status, age, mishaps>>
    BY DEF google, account, local
  <1>2. /\ status' \in {"connected", "syncing", "disconnected", "error"}
        /\ age' \in 0..2 /\ mishaps' \in 0..MaxMishaps
    BY <1>1 DEF IInv, TypeOK
  <1>3. CredentialsOK'
    BY <1>1 DEF IInv, CredentialsOK
  <1> QED BY <1>1, <1>2, <1>3, QuietStep

\* A record for a run is one of its job.
LEMMA JobIs ==
  ASSUME IInv, NEW p \in Run PROVE job[p] \in Job /\ WorkOK(job[p])
  BY DEF IInv, TypeOK

-----------------------------------------------------------------------------
(* A pass: list the mailboxes, read this one, claim it.                    *)

LEMMA IdleIsWork == ASSUME IInv PROVE Idle \in Job /\ WorkOK(Idle) /\ WorkOK(Idle)'
  BY SMT DEF Idle, Job, WorkOK, IInv, TypeOK

LEMMA ListMailboxStep ==
  ASSUME IInv, NEW p \in Pass, ListMailbox(p) PROVE IInv'
  <1>1. p \in Run
    BY DEF Run
  <1>2. job[p].pc = "idle" /\ UNCHANGED <<google, account, local, mishaps, torn, leftOut>>
    BY DEF ListMailbox
  <1>3. PICK w \in Job : w = [job[p] EXCEPT !.pc = "listed"]
    BY <1>1, JobIs DEF Job
  <1>4. job' = [job EXCEPT ![p] = w]
    BY <1>3 DEF ListMailbox
  <1>5. WorkOK(w)'
    BY <1>1, <1>3, JobIs DEF WorkOK, Job
  <1> QED BY <1>1, <1>2, <1>4, <1>5, ReadStep

LEMMA LoadAccountStep ==
  ASSUME IInv, NEW p \in Run, LoadAccount(p) PROVE IInv'
  <1> DEFINE r == [Idle EXCEPT !.pc = "read", !.from = cursor, !.prior = priorStatus]
  <1>1. job[p].pc = "listed" /\ UNCHANGED <<google, account, local, mishaps, torn, leftOut>>
    BY DEF LoadAccount
  <1>2. CASE token
    <2>1. priorStatus \in {"connected", "error"}
      BY <1>2 DEF IInv, TypeOK, CredentialsOK, priorStatus
    <2>2. PICK w \in Job : w = r
      BY <2>1, IdleIsWork DEF Job, Idle, IInv, TypeOK
    <2>3. job' = [job EXCEPT ![p] = w]
      BY <1>2, <2>2 DEF LoadAccount
    <2>4. w.pc = "read" /\ w.from = cursor
      BY <2>2 DEF Idle
    <2>5. WorkOK(w)
      BY <2>4 DEF WorkOK, IInv
    <2>6. TypeOK' /\ Advances => WorkOK(w)'
      BY <2>5, WorkStays DEF IInv
    <2> QED BY <1>1, <2>3, <2>6, ReadStep
  <1>3. CASE ~token
    BY <1>1, <1>3, IdleIsWork, ReadStep DEF LoadAccount
  <1> QED BY <1>2, <1>3

LEMMA ClaimStep ==
  ASSUME IInv, NEW p \in Run, Claim(p) PROVE IInv'
  <1> DEFINE k == IF job[p].from = 0 THEN "first" ELSE "incremental"
  <1>1. /\ job[p].pc = "read" /\ cursor' = cursor
        /\ UNCHANGED <<google, token, cursor, local, mishaps, torn, leftOut>>
    BY DEF Claim
  <1>2. CASE Claimable
    <2>1. PICK w \in Job : w = [job[p] EXCEPT !.pc = "start", !.kind = k]
      BY JobIs DEF Job
    <2>2. job' = [job EXCEPT ![p] = w]
      BY <1>2, <2>1 DEF Claim, IInv, TypeOK
    <2>3. w.pc = "start" /\ w.from = job[p].from /\ w.kind \in {"first", "incremental"}
      BY <2>1, JobIs DEF Job
    <2>4. WorkOK(w)
      BY <1>1, <2>3, JobIs DEF WorkOK
    <2>5. TypeOK' /\ Advances => WorkOK(w)'
      BY <2>4, WorkStays DEF IInv
    <2>6. CredentialsOK' /\ status' = "syncing" /\ age' = 0
      BY <1>2 DEF Claim, CredentialsOK
    <2>7. UNCHANGED <<hist, bad, row, stored, torn, leftOut, cursor, token>>
      BY <1>1 DEF google, local
    <2>8. mishaps' \in 0..MaxMishaps /\ age' \in 0..2
      BY <1>1, <2>6 DEF IInv, TypeOK
    <2> QED BY <1>1, <2>2, <2>5, <2>6, <2>7, <2>8, QuietStep
  <1>3. CASE ~Claimable
    <2>1. job' = [job EXCEPT ![p] = Idle] /\ UNCHANGED account
      BY <1>1, <1>3 DEF Claim, account
    <2> QED BY <1>1, <2>1, IdleIsWork, ReadStep
  <1> QED BY <1>2, <1>3

-----------------------------------------------------------------------------
(* What there is to import.                                                *)

\* The oldest of the local threads.
LEMMA FrontierType == ASSUME IInv PROVE Frontier \in 0..Len(hist)
  <1> DEFINE S == {row[t] : t \in Local}
             LT == OpToRel(<, Nat)
  <1>1. S \subseteq 0..Len(hist) /\ S \subseteq Nat
    BY DEF Local, IInv, TypeOK
  <1>2. CASE Local = {}
    BY <1>2 DEF Frontier, IInv, TypeOK
  <1>3. CASE Local # {}
    <2>1. S # {}
      BY <1>3
    <2>2. IsWellFoundedOn(LT, Nat)
      BY NatLessThanWellFounded
    <2>3. \A x, y \in Nat : x < y => <<x, y>> \in LT
      BY SMT DEF OpToRel
    <2>4. Frontier = Min(S)
      BY <1>3 DEF Frontier
    <2> HIDE DEF LT, S
    <2>5. PICK x \in S : \A y \in S : ~(<<y, x>> \in LT)
      BY <1>1, <2>1, <2>2, WFMin, Zenon
    <2>6. \A y \in S : ~(y < x)
      BY <1>1, <2>3, <2>5, Zenon
    <2>7. \A y \in S : x <= y
      BY <1>1, <2>6, SMT
    <2>8. Min(S) \in S
      BY <2>7 DEF Min
    <2> QED BY <1>1, <2>4, <2>8
  <1> QED BY <1>2, <1>3

\* What changed since a position that was passed completes it up to the end.
LEMMA HistoryCovers ==
  ASSUME IInv, NEW c \in 0..Len(hist), Covered(c, {})
  PROVE  Covered(Len(hist), ChangedSince(c)) /\ ChangedSince(c) \subseteq Thread
  <1>1. \A i \in 1..Len(hist) : hist[i].thread \in Thread
    <2>1. \A i \in 1..Len(hist) : hist[i] \in Record
      BY DEF IInv, TypeOK
    <2> QED BY <2>1 DEF Record
  <1>2. Len(hist) \in Nat /\ c \in Nat
    BY DEF IInv, TypeOK
  <1>3. \A i \in (c + 1)..Len(hist) : i \in 1..Len(hist)
    BY <1>2
  <1>4. ChangedSince(c) \subseteq Thread
    BY <1>1, <1>3 DEF ChangedSince
  <1>5. ASSUME NEW h \in 1..Len(hist), hist[h].mail
        PROVE  Held(h) \/ hist[h].thread \in leftOut \cup ChangedSince(c)
    <2>1. CASE h > c
      BY <1>2, <2>1 DEF ChangedSince
    <2>2. CASE h <= c
      <3>1. Held(h) \/ Due(hist[h].thread, c) \/ hist[h].thread \in leftOut
        BY <1>2, <1>5, <2>2 DEF Covered
      <3>2. ASSUME Due(hist[h].thread, c) PROVE hist[h].thread \in ChangedSince(c)
        <4>1. PICK g \in Mails(hist[h].thread) : g > c
          BY <1>2, <3>2, DueIs DEF IInv
        <4>2. g \in (c + 1)..Len(hist) /\ hist[g].thread = hist[h].thread
          BY <1>2, <4>1 DEF Mails
        <4> QED BY <4>2 DEF ChangedSince
      <3> QED BY <3>1, <3>2
    <2> QED BY <1>2, <2>1, <2>2
  <1> QED BY <1>4, <1>5 DEF Covered

LEMMA ReadHistoryStep ==
  ASSUME IInv, NEW p \in Run, ReadHistory(p) PROVE IInv'
  <1> DEFINE S == ChangedSince(job[p].from)
  <1>1. /\ job[p].pc = "start" /\ job[p].kind = "incremental"
        /\ UNCHANGED <<google, account, local, mishaps, torn, leftOut>>
    BY DEF ReadHistory
  <1>2. Covered(Len(hist), S) /\ S \subseteq Thread
    <2>1. Covered(job[p].from, {}) /\ job[p].from \in 0..Len(hist)
      BY <1>1, JobIs DEF WorkOK, Job
    <2> QED BY <2>1, HistoryCovers
  <1>3. Len(hist) \in 0..Len(hist)
    BY DEF IInv, TypeOK
  <1>4. job' = [job EXCEPT ![p] = [job[p] EXCEPT !.pc = "import", !.head = Len(hist),
                                                  !.floor = Frontier, !.todo = S]]
    BY DEF ReadHistory, IInv, TypeOK
  <1> HIDE DEF S
  <1>5. PICK w \in Job : w = [job[p] EXCEPT !.pc = "import", !.head = Len(hist),
                                            !.floor = Frontier, !.todo = S]
    BY <1>2, <1>3, JobIs, FrontierType DEF Job
  <1>6. w.pc = "import" /\ w.kind = "incremental" /\ w.head = Len(hist) /\ ToDo(w) = S
    BY <1>1, <1>5, JobIs DEF Job, ToDo
  <1>7. WorkOK(w)
    BY <1>2, <1>6 DEF WorkOK
  <1>8. TypeOK' /\ Advances => WorkOK(w)'
    BY <1>7, WorkStays DEF IInv
  <1> QED BY <1>1, <1>4, <1>5, <1>8, ReadStep

LEMMA HistoryExpiredStep ==
  ASSUME IInv, NEW p \in Run, HistoryExpired(p) PROVE IInv'
  <1>1. job[p].pc = "start" /\ UNCHANGED <<google, account, local, mishaps, torn, leftOut>>
    BY DEF HistoryExpired
  <1>2. PICK w \in Job : w = [job[p] EXCEPT !.kind = "catchUp"]
    BY JobIs DEF Job
  <1>3. job' = [job EXCEPT ![p] = w]
    BY <1>2 DEF HistoryExpired
  <1>4. w.pc = "start" /\ w.kind = "catchUp" /\ w.from = job[p].from
    BY <1>1, <1>2, JobIs DEF Job
  <1>5. WorkOK(w)
    BY <1>1, <1>4, JobIs DEF WorkOK
  <1>6. TypeOK' /\ Advances => WorkOK(w)'
    BY <1>5, WorkStays DEF IInv
  <1> QED BY <1>1, <1>3, <1>6, ReadStep

LEMMA ReadProfileStep ==
  ASSUME IInv, NEW p \in Run, ReadProfile(p) PROVE IInv'
  <1>1. /\ job[p].pc = "start" /\ job[p].kind \in {"first", "catchUp"}
        /\ UNCHANGED <<google, account, local, mishaps, torn, leftOut>>
    BY DEF ReadProfile
  <1>2. Len(hist) \in 0..Len(hist)
    BY DEF IInv, TypeOK
  <1>3. PICK w \in Job : w = [job[p] EXCEPT !.pc = "list", !.head = Len(hist)]
    BY <1>2, JobIs DEF Job
  <1>4. job' = [job EXCEPT ![p] = w]
    BY <1>3 DEF ReadProfile, IInv, TypeOK
  <1>5. w.pc = "list" /\ w.kind = job[p].kind /\ w.from = job[p].from
    BY <1>1, <1>3, JobIs DEF Job
  <1>6. WorkOK(w)
    BY <1>1, <1>5, JobIs DEF WorkOK
  <1>7. TypeOK' /\ Advances => WorkOK(w)'
    BY <1>6, WorkStays DEF IInv
  <1> QED BY <1>1, <1>4, <1>7, ReadStep

\* A thread whose row counts every message is held.
LEMMA FetchedIsHeld ==
  ASSUME IInv, NEW t \in Thread, row[t] = LastMail(t)
  PROVE  \A h \in Mails(t) : Held(h)
  BY LastMailIs DEF IInv, RowsAreBacked

\* What a list leaves off its window is held or left out.
LEMMA ListCovers ==
  ASSUME IInv, NEW p \in Run, job[p].pc = "list"
  PROVE  Covered(job[p].head, Wanted(p) \cup (IF job[p].kind = "first"
                                              THEN Unfetched(Thread \ Wanted(p)) ELSE {}))
  <1> DEFINE j == job[p]
             L == IF j.kind = "first" THEN Unfetched(Thread \ Wanted(p)) ELSE {}
  <1>1. /\ j.from \in 0..Len(hist) /\ j.head \in 0..Len(hist) /\ Covered(j.from, {})
        /\ j.kind \in {"first", "catchUp"} /\ Len(hist) \in Nat
    BY JobIs DEF Job, WorkOK, IInv, TypeOK
  <1>2. ASSUME NEW h \in 1..j.head, hist[h].mail
        PROVE  Held(h) \/ hist[h].thread \in leftOut \cup Wanted(p) \cup L
    <2>1. h \in 1..Len(hist) /\ hist[h] \in Record
      BY <1>1 DEF IInv, TypeOK
    <2>2. PICK t \in Thread : t = hist[h].thread
      BY <2>1 DEF Record
    <2>3. h \in Mails(t)
      BY <1>2, <2>1, <2>2 DEF Mails
    <2>4. h <= LastMail(t) /\ LastMail(t) \in 0..Len(hist)
      BY <2>3, LastMailIs DEF IInv
    <2>5. CASE j.kind = "first"
      <3>1. row[t] = LastMail(t) => Held(h)
        BY <2>3, FetchedIsHeld
      <3>2. row[t] # LastMail(t) => t \in Wanted(p) \cup L
        BY <2>5 DEF Unfetched
      <3> QED BY <2>2, <3>1, <3>2
    <2>6. CASE j.kind = "catchUp"
      <3>1. LastMail(t) > j.from => t \in Wanted(p)
        BY <2>6 DEF Wanted
      <3>2. CASE ~(LastMail(t) > j.from)
        <4>1. h \in 1..j.from /\ ~Due(t, j.from)
          BY <1>1, <2>1, <2>4, <3>2 DEF Due
        <4> QED BY <1>1, <1>2, <2>2, <4>1 DEF Covered
      <3> QED BY <2>2, <3>1, <3>2
    <2> QED BY <1>1, <2>5, <2>6
  <1> HIDE DEF L
  <1>3. Covered(j.head, Wanted(p) \cup L)
    BY <1>2 DEF Covered
  <1> QED BY <1>3 DEF L

LEMMA ListThreadsStep ==
  ASSUME IInv, NEW p \in Run, ListThreads(p) PROVE IInv'
  <1>1. job[p].pc = "list" /\ job[p] \in Job
    BY JobIs DEF ListThreads
  <1>2. PICK W \in SUBSET Thread, L \in SUBSET Thread :
          /\ W = Wanted(p)
          /\ L = IF job[p].kind = "first" THEN Unfetched(Thread \ Wanted(p)) ELSE {}
    BY DEF Wanted, Unfetched
  <1>3. PICK n \in 0..Len(hist) : n = job[p].head
    BY <1>1 DEF Job
  <1>4. Covered(n, W \cup L)
    BY <1>1, <1>2, <1>3, ListCovers
  <1>5. leftOut' = leftOut \cup L
    BY <1>2 DEF ListThreads
  <1>6. Len(hist) \in 0..Len(hist)
    BY DEF IInv, TypeOK
  <1>7. PICK w \in Job : w = [job[p] EXCEPT !.pc = "import", !.todo = W, !.from = Len(hist)]
    BY <1>1, <1>6 DEF Job
  <1>8. job' = [job EXCEPT ![p] = w]
    BY <1>2, <1>7 DEF ListThreads, IInv, TypeOK
  <1>9. w.pc = "import" /\ w.kind # "none" /\ w.head = n /\ w.todo = W
    <2>1. w.pc = "import" /\ w.kind = job[p].kind /\ w.head = n /\ w.todo = W
      BY <1>1, <1>3, <1>7 DEF Job
    <2>2. job[p].kind # "none"
      BY <1>1, JobIs DEF WorkOK
    <2> QED BY <2>1, <2>2
  <1>10. ASSUME TypeOK', Advances PROVE WorkOK(w)'
    <2>1. Covered(n, W)'
      BY <1>4, <1>5, <1>10, CoveredStays DEF IInv
    <2>2. ToDo(w)' = W
      BY <1>9 DEF ToDo
    <2> QED BY <1>9, <2>1, <2>2 DEF WorkOK
  <1>11. /\ UNCHANGED <<hist, bad, row, stored, torn, token, status, age, cursor, mishaps>>
         /\ cursor' = cursor
    BY DEF ListThreads, google, account, local
  <1>12. /\ torn \subseteq torn' /\ torn' \subseteq Thread
         /\ leftOut \subseteq leftOut' /\ leftOut' \subseteq Thread
         /\ token' \in BOOLEAN /\ status' \in {"connected", "syncing", "disconnected", "error"}
         /\ age' \in 0..2 /\ mishaps' \in 0..MaxMishaps /\ cursor' \in 0..Len(hist)
    BY <1>5, <1>11 DEF IInv, TypeOK
  <1>13. CredentialsOK'
    BY <1>11 DEF IInv, CredentialsOK
  <1> QED BY <1>1, <1>8, <1>10, <1>11, <1>12, <1>13, RunStep

LEMMA StartBackfillStep ==
  ASSUME IInv, NEW p \in Click, StartBackfill(p) PROVE IInv'
  <1>1. /\ p \in Run /\ job[p].pc = "idle"
        /\ UNCHANGED <<google, account, local, mishaps, torn, leftOut>>
    BY DEF StartBackfill, Run
  <1>2. OlderThanLocal \subseteq Thread /\ Len(hist) \in 0..Len(hist)
    BY DEF OlderThanLocal, IInv, TypeOK
  <1>3. PICK w \in Job : w = [Idle EXCEPT !.pc = "import", !.kind = "backfill",
                                          !.todo = OlderThanLocal, !.from = Len(hist)]
    BY <1>2, IdleIsWork DEF Job, Idle
  <1>4. job' = [job EXCEPT ![p] = w]
    BY <1>3 DEF StartBackfill
  <1>5. w.pc = "import" /\ w.kind = "backfill"
    BY <1>3 DEF Idle
  <1>6. WorkOK(w)'
    BY <1>5 DEF WorkOK
  <1> QED BY <1>1, <1>4, <1>6, ReadStep

-----------------------------------------------------------------------------
(* One thread after the other.                                             *)

\* What Behind makes of a run.
BehindOf(w, good) ==
  [w EXCEPT !.pc = "import", !.now = "none", !.snap = 0, !.ok = w.ok \/ good,
            !.failed = w.failed + (IF good THEN 0 ELSE 1)]

LEMMA BehindIs ==
  ASSUME IInv, NEW p \in Run, NEW good \in BOOLEAN
  PROVE  /\ BehindOf(job[p], good) \in Job
         /\ Behind(p, good) = [job EXCEPT ![p] = BehindOf(job[p], good)]
         /\ BehindOf(job[p], good).pc = "import"
         /\ BehindOf(job[p], good).kind = job[p].kind
         /\ BehindOf(job[p], good).head = job[p].head
         /\ BehindOf(job[p], good).todo = job[p].todo
  <1>1. job[p] \in Job
    BY JobIs
  <1>2. 0 \in 0..Len(hist)
    BY DEF IInv, TypeOK
  <1>3. CASE good
    <2>1. (job[p].ok \/ good) = TRUE
      BY <1>3, Zenon
    <2>2. job[p].failed + (IF good THEN 0 ELSE 1) = job[p].failed
      BY <1>1, <1>3 DEF Job
    <2>3. BehindOf(job[p], good) = [job[p] EXCEPT !.pc = "import", !.now = "none", !.snap = 0,
                                      !.ok = TRUE, !.failed = job[p].failed]
      BY <2>1, <2>2, Zenon DEF BehindOf
    <2>4. Behind(p, good) = [job EXCEPT ![p].pc = "import", ![p].now = "none", ![p].snap = 0,
                                        ![p].ok = TRUE, ![p].failed = job[p].failed]
      BY <2>1, <2>2, Zenon DEF Behind
    <2>5. Behind(p, good) = [job EXCEPT ![p] = BehindOf(job[p], good)]
      BY <1>1, <2>3, <2>4 DEF Job, IInv, TypeOK
    <2> QED BY <1>1, <1>2, <2>3, <2>5 DEF Job
  <1>4. CASE ~good
    <2>1. BehindOf(job[p], good) = [job[p] EXCEPT !.pc = "import", !.now = "none", !.snap = 0,
                                      !.ok = job[p].ok, !.failed = job[p].failed + 1]
      BY <1>1, <1>4 DEF BehindOf, Job
    <2>2. Behind(p, good) = [job EXCEPT ![p].pc = "import", ![p].now = "none", ![p].snap = 0,
                                        ![p].ok = job[p].ok, ![p].failed = job[p].failed + 1]
      BY <1>1, <1>4 DEF Behind, Job
    <2>3. Behind(p, good) = [job EXCEPT ![p] = BehindOf(job[p], good)]
      BY <1>1, <2>1, <2>2 DEF Job, IInv, TypeOK
    <2>4. job[p].failed + 1 \in Nat
      BY <1>1 DEF Job
    <2> QED BY <1>1, <1>2, <2>1, <2>3, <2>4 DEF Job
  <1> QED BY <1>3, <1>4

\* A run has done with a thread: nothing of its window was forgotten.
LEMMA BehindKnows ==
  ASSUME IInv, TypeOK', Advances, NEW p \in Run, NEW w \in Job,
         w.pc = "import", w.kind = job[p].kind, w.head = job[p].head,
         job[p].pc \in {"import", "row", "messages"},
         \A t \in (ToDo(job[p]) \ w.todo) \cap Thread :
            t \in leftOut' \/ \A h \in Mails(t) : h <= job[p].head => Held(h)'
  PROVE  WorkOK(w)'
  <1>1. job[p] \in Job /\ WorkOK(job[p])
    BY JobIs
  <1>2. w.kind # "none"
    BY <1>1 DEF WorkOK
  <1>3. ASSUME w.kind # "backfill" PROVE Covered(w.head, ToDo(w))'
    <2>1. PICK n \in 0..Len(hist), S \in {ToDo(job[p])} : n = job[p].head
      BY <1>1 DEF Job
    <2>2. Covered(n, S)
      BY <1>1, <1>3, <2>1 DEF WorkOK
    <2>3. Covered(n, w.todo)'
      BY <2>1, <2>2, CoveredStays DEF IInv
    <2>4. ToDo(w)' = w.todo
      BY DEF ToDo
    <2> QED BY <2>1, <2>3, <2>4
  <1> QED BY <1>2, <1>3 DEF WorkOK

LEMMA FetchThreadStep ==
  ASSUME IInv, NEW p \in Run, FetchThread(p) PROVE IInv'
  <1>1. /\ job[p].pc = "import" /\ job[p] \in Job /\ WorkOK(job[p])
        /\ UNCHANGED <<google, account, local, mishaps, torn, leftOut>>
    BY JobIs DEF FetchThread
  <1>2. PICK t \in NextInLine(p) :
          job' = IF job[p].kind = "catchUp" /\ IsThreadUnchanged(t)
                 THEN [Behind(p, TRUE) EXCEPT ![p].todo = @ \ {t}]
                 ELSE [job EXCEPT ![p].pc = "row", ![p].todo = @ \ {t}, ![p].now = t,
                                  ![p].snap = LastMail(t)]
    BY DEF FetchThread
  <1>3. t \in job[p].todo /\ t \in Thread
    BY <1>1 DEF NextInLine, Job
  <1>4. CASE job[p].kind = "catchUp" /\ IsThreadUnchanged(t)
    <2> DEFINE b == BehindOf(job[p], TRUE)
    <2>1. /\ b \in Job /\ Behind(p, TRUE) = [job EXCEPT ![p] = b] /\ b.pc = "import"
          /\ b.kind = job[p].kind /\ b.head = job[p].head /\ b.todo = job[p].todo
      BY BehindIs
    <2>2. job' = [[job EXCEPT ![p] = b] EXCEPT ![p].todo = @ \ {t}]
      BY <1>2, <1>4, <2>1
    <2> HIDE DEF b
    <2>3. PICK w \in Job : w = [b EXCEPT !.todo = job[p].todo \ {t}]
      BY <1>1, <2>1 DEF Job
    <2>4. job' = [job EXCEPT ![p] = w]
      BY <2>1, <2>2, <2>3 DEF IInv, TypeOK, Job
    <2>5. /\ w.pc = "import" /\ w.kind = job[p].kind /\ w.head = job[p].head
          /\ w.todo = job[p].todo \ {t}
      BY <2>1, <2>3 DEF Job
    <2>6. ASSUME TypeOK', Advances PROVE WorkOK(w)'
      <3>1. \A h \in Mails(t) : Held(h)'
        BY <1>3, <1>4, <2>6, FetchedIsHeld DEF IsThreadUnchanged, Advances
      <3>2. ToDo(job[p]) \ w.todo \subseteq {t}
        BY <1>1, <2>5 DEF ToDo
      <3> QED BY <1>1, <2>5, <2>6, <3>1, <3>2, BehindKnows
    <2> QED BY <1>1, <2>4, <2>6, ReadStep
  <1>5. CASE ~(job[p].kind = "catchUp" /\ IsThreadUnchanged(t))
    <2>1. PICK w \in Job : w = [job[p] EXCEPT !.pc = "row", !.todo = job[p].todo \ {t},
                                              !.now = t, !.snap = LastMail(t)]
      BY <1>1, <1>3, LastMailIs DEF Job, IInv
    <2>2. job' = [job EXCEPT ![p] = w]
      BY <1>2, <1>5, <2>1 DEF IInv, TypeOK
    <2>3. /\ w.pc = "row" /\ w.kind = job[p].kind /\ w.head = job[p].head /\ w.now = t
          /\ w.snap = LastMail(t) /\ w.todo = job[p].todo \ {t}
      BY <1>1, <2>1 DEF Job
    <2>4. ToDo(w) = ToDo(job[p])
      BY <1>1, <1>3, <2>3 DEF ToDo
    <2>5. \A h \in Mails(t) : h <= w.snap
      BY <2>3, LastMailIs DEF IInv
    <2>6. WorkOK(w)
      BY <1>1, <1>3, <2>3, <2>4, <2>5 DEF WorkOK
    <2>7. TypeOK' /\ Advances => WorkOK(w)'
      BY <2>6, WorkStays DEF IInv
    <2> QED BY <1>1, <2>2, <2>7, ReadStep
  <1> QED BY <1>4, <1>5

LEMMA WriteRowStep ==
  ASSUME IInv, NEW p \in Run, WriteRow(p) PROVE IInv'
  <1> DEFINE t == job[p].now
  <1>1. /\ job[p].pc = "row" /\ job[p] \in Job /\ WorkOK(job[p])
        /\ UNCHANGED <<google, account, stored, mishaps, torn>>
    BY JobIs DEF WriteRow
  <1>2. UNCHANGED <<hist, bad, token, status, age, cursor, stored, mishaps, torn>>
    BY <1>1 DEF google, account
  <1>3. t \in Thread /\ \A h \in Mails(t) : h <= job[p].head => h <= job[p].snap
    BY <1>1 DEF WorkOK
  <1>4. ToDo(job[p]) = job[p].todo \cup {t}
    BY <1>1 DEF ToDo
  <1>5. /\ token' \in BOOLEAN /\ status' \in {"connected", "syncing", "disconnected", "error"}
        /\ age' \in 0..2 /\ mishaps' \in 0..MaxMishaps /\ cursor' \in 0..Len(hist)
        /\ torn \subseteq torn' /\ torn' \subseteq Thread
    BY <1>2 DEF IInv, TypeOK
  <1>6. CredentialsOK'
    BY <1>2 DEF IInv, CredentialsOK
  <1>7. CASE job[p].kind = "incremental" /\ row[t] = 0 /\ job[p].snap < job[p].floor
    <2>1. job' = Behind(p, TRUE) /\ leftOut' = leftOut \cup {t} /\ row' = row
      BY <1>7 DEF WriteRow
    <2>2. PICK w \in Job : /\ w = BehindOf(job[p], TRUE)
                           /\ Behind(p, TRUE) = [job EXCEPT ![p] = w] /\ w.pc = "import"
                           /\ w.kind = job[p].kind /\ w.head = job[p].head
                           /\ w.todo = job[p].todo
      BY BehindIs
    <2>3. TypeOK' /\ Advances => WorkOK(w)'
      BY <1>1, <1>4, <2>1, <2>2, BehindKnows
    <2>4. leftOut \subseteq leftOut' /\ leftOut' \subseteq Thread
      BY <1>3, <2>1 DEF IInv, TypeOK
    <2>5. job' = [job EXCEPT ![p] = w] /\ job[p].pc # "messages" /\ cursor' = cursor
      BY <1>1, <1>2, <2>1, <2>2
    <2> HIDE DEF t
    <2> QED BY <1>2, <1>5, <1>6, <2>1, <2>3, <2>4, <2>5, RunStep
  <1>8. CASE ~(job[p].kind = "incremental" /\ row[t] = 0 /\ job[p].snap < job[p].floor)
    <2>1. /\ row' = [row EXCEPT ![t] = job[p].snap]
          /\ job' = [job EXCEPT ![p].pc = "messages"]
          /\ leftOut' = IF job[p].snap = LastMail(t) THEN leftOut \ {t} ELSE leftOut
      BY <1>8 DEF WriteRow
    <2>2. PICK w \in Job : w = [job[p] EXCEPT !.pc = "messages"]
      BY <1>1 DEF Job
    <2>3. /\ w.pc = "messages" /\ w.kind = job[p].kind /\ w.head = job[p].head /\ w.now = t
          /\ w.snap = job[p].snap /\ w.todo = job[p].todo
      BY <1>1, <2>2 DEF Job
    <2>4. job' = [job EXCEPT ![p] = w] /\ job'[p] = w /\ \A q \in Run \ {p} : job'[q] = job[q]
      BY <2>1, <2>2 DEF IInv, TypeOK
    <2>5. /\ row' \in [Thread -> 0..Len(hist)] /\ row'[t] = job[p].snap
          /\ \A u \in Thread \ {t} : row'[u] = row[u]
      BY <1>1, <1>3, <2>1 DEF IInv, TypeOK, Job
    <2>6. leftOut' \subseteq Thread
      BY <2>1 DEF IInv, TypeOK
    <2>7. TypeOK'
      BY <1>2, <2>4, <2>5, <2>6 DEF IInv, TypeOK, Job
    <2>8. \A u : Mails(u)' = Mails(u)
      BY <1>2 DEF Mails
    <2>9. \A u \in Thread : \A h \in Mails(u) : Held(h) => Held(h)'
      <3>1. \A q \in Run : KeepsHold(q)
        BY <1>1, <2>4 DEF KeepsHold
      <3> QED BY <1>2, <3>1, HeldStays
    <2>10. \A h \in Mails(t) : h <= job[p].snap => Held(h)'
      <3>1. SUFFICES ASSUME NEW h \in Mails(t), h <= job[p].snap PROVE BeingStored(h)'
        BY DEF Held
      <3>2. hist[h].thread = t /\ hist' = hist /\ h \in Nat /\ job[p].snap \in Nat
        BY <1>1, <1>2 DEF Mails, Job
      <3>3. job'[p].pc = "messages" /\ job'[p].snap >= h /\ job'[p].now = hist'[h].thread
        BY <2>3, <2>4, <3>1, <3>2
      <3> QED BY <3>3 DEF BeingStored
    <2>11. Advances
      <3>1. ASSUME NEW u \in leftOut \ leftOut', NEW h \in Mails(u)' PROVE Held(h)'
        <4>1. u = t /\ job[p].snap = LastMail(t)
          BY <2>1, <3>1
        <4>2. h <= job[p].snap
          BY <2>8, <3>1, <4>1, LastMailIs DEF IInv
        <4> QED BY <2>8, <2>10, <3>1, <4>1, <4>2
      <3>2. Len(hist) <= Len(hist') /\ \A h \in 1..Len(hist) : hist'[h] = hist[h]
        BY <1>2 DEF IInv, TypeOK
      <3> QED BY <2>9, <3>1, <3>2 DEF Advances
    <2>12. RowsAreBacked'
      <3> SUFFICES ASSUME NEW u \in Thread, NEW h \in Mails(u), h <= row'[u] PROVE Held(h)'
        BY <2>8 DEF RowsAreBacked
      <3>1. CASE u = t
        BY <2>5, <2>10, <3>1
      <3>2. CASE u # t
        <4>1. h <= row[u]
          BY <2>5, <3>2
        <4> QED BY <2>9, <4>1 DEF IInv, RowsAreBacked
      <3> QED BY <3>1, <3>2
    <2>13. WorkOK(w)'
      <3>1. ASSUME NEW h \in Mails(w.now)', h <= w.head PROVE h <= w.snap
        BY <1>3, <2>3, <2>8, <3>1
      <3>2. ASSUME w.kind # "backfill" PROVE Covered(w.head, ToDo(w))'
        <4>1. PICK n \in 0..Len(hist), S \in {job[p].todo \cup {t}} : n = job[p].head
          BY <1>1 DEF Job
        <4>2. Covered(n, S)
          BY <1>1, <1>4, <2>3, <3>2, <4>1 DEF WorkOK
        <4>3. S \ w.todo \subseteq {t}
          BY <2>3, <4>1
        <4>4. \A h \in Mails(t) : h <= n => Held(h)'
          BY <1>3, <2>10, <4>1
        <4> HIDE DEF t
        <4>5. Covered(n, w.todo)'
          BY <2>7, <2>11, <4>2, <4>3, <4>4, CoveredStays DEF IInv
        <4>6. ToDo(w)' = w.todo
          BY <2>3 DEF ToDo
        <4> QED BY <2>3, <4>1, <4>5, <4>6
      <3>3. w.kind # "none"
        BY <1>1, <2>3 DEF WorkOK
      <3> QED BY <1>3, <2>3, <3>1, <3>2, <3>3 DEF WorkOK
    <2>14. WorkOK(job[p])'
      BY <2>4, <2>13
    <2>15. \A q \in Run : job'[q] = job[q] \/ WorkOK(job[q])'
      BY <2>4, <2>14
    <2> QED BY <1>2, <1>6, <2>7, <2>11, <2>12, <2>15, StepKeeps
  <1> QED BY <1>7, <1>8

LEMMA WriteMessagesStep ==
  ASSUME IInv, NEW p \in Run, WriteMessages(p) PROVE IInv'
  <1> DEFINE t == job[p].now
             b == BehindOf(job[p], TRUE)
  <1>1. /\ job[p].pc = "messages" /\ job[p] \in Job
        /\ stored' = stored \cup {h \in Mails(t) : h <= job[p].snap}
        /\ job' = [Behind(p, TRUE) EXCEPT ![p].synced = @ + 1]
        /\ UNCHANGED <<google, account, row, mishaps, torn, leftOut>>
    BY JobIs DEF WriteMessages
  <1>2. UNCHANGED <<hist, bad, token, status, age, cursor, row, mishaps, torn, leftOut>>
    BY <1>1 DEF google, account
  <1>3. /\ b \in Job /\ Behind(p, TRUE) = [job EXCEPT ![p] = b] /\ b.pc = "import"
        /\ b.kind = job[p].kind /\ b.head = job[p].head /\ b.todo = job[p].todo
    BY BehindIs
  <1> HIDE DEF b
  <1>4. PICK w \in Job : w = [b EXCEPT !.synced = b.synced + 1]
    <2>1. b.synced + 1 \in Nat
      BY <1>3 DEF Job
    <2> QED BY <1>3, <2>1 DEF Job
  <1>5. /\ w.pc = "import" /\ w.kind = job[p].kind /\ w.head = job[p].head
        /\ w.todo = job[p].todo
    BY <1>3, <1>4 DEF Job
  <1>6. job' = [job EXCEPT ![p] = w]
    <2>1. job' = [[job EXCEPT ![p] = b] EXCEPT ![p].synced = @ + 1]
      BY <1>1, <1>3
    <2> QED BY <1>3, <1>4, <2>1 DEF IInv, TypeOK
  <1>7. job'[p] = w /\ \A q \in Run \ {p} : job'[q] = job[q]
    BY <1>6 DEF IInv, TypeOK
  <1>8. stored' \subseteq 1..Len(hist)
    BY <1>1 DEF Mails, IInv, TypeOK
  <1>9. TypeOK'
    BY <1>2, <1>6, <1>8 DEF IInv, TypeOK, Job
  <1>10. \A q \in Run : KeepsHold(q)
    BY <1>1, <1>7 DEF KeepsHold
  <1>11. Advances
    <2>1. \A u \in Thread : \A h \in Mails(u) : Held(h) => Held(h)'
      BY <1>1, <1>2, <1>10, HeldStays
    <2>2. Len(hist) <= Len(hist') /\ \A h \in 1..Len(hist) : hist'[h] = hist[h]
      BY <1>2 DEF IInv, TypeOK
    <2> QED BY <1>2, <2>1, <2>2 DEF Advances
  <1>12. WorkOK(job[p])'
    <2>1. ToDo(job[p]) = w.todo
      BY <1>1, <1>5 DEF ToDo
    <2>2. WorkOK(w)'
      BY <1>1, <1>5, <1>9, <1>11, <2>1, BehindKnows
    <2> QED BY <1>7, <2>2
  <1>13. RowsAreBacked'
    BY <1>2, <1>9, <1>11, RowsStay DEF IInv
  <1>14. CredentialsOK'
    BY <1>2 DEF IInv, CredentialsOK
  <1>15. \A q \in Run : job'[q] = job[q] \/ WorkOK(job[q])'
    BY <1>7, <1>12
  <1> QED BY <1>2, <1>9, <1>11, <1>13, <1>14, <1>15, StepKeeps

LEMMA RejectThreadStep ==
  ASSUME IInv, NEW p \in Run, RejectThread(p) PROVE IInv'
  <1> DEFINE t == job[p].now
  <1>1. /\ job[p].pc \in {"row", "messages"} /\ job[p] \in Job /\ t \in bad
        /\ job' = Behind(p, FALSE)
        /\ UNCHANGED <<google, account, local, mishaps, torn, leftOut>>
    BY JobIs DEF RejectThread
  <1>2. UNCHANGED <<hist, bad, token, status, age, cursor, row, stored, mishaps, torn, leftOut>>
    BY <1>1 DEF google, account, local
  <1>3. PICK w \in Job : /\ w = BehindOf(job[p], FALSE)
                         /\ Behind(p, FALSE) = [job EXCEPT ![p] = w] /\ w.pc = "import"
                         /\ w.kind = job[p].kind /\ w.head = job[p].head
                         /\ w.todo = job[p].todo
    BY BehindIs
  <1>4. \A h \in Mails(t) : Held(h)'
    BY <1>1, <1>2 DEF Mails, Held
  <1>5. ToDo(job[p]) \ w.todo \subseteq {t}
    BY <1>1, <1>3 DEF ToDo
  <1>6. TypeOK' /\ Advances => WorkOK(w)'
    BY <1>1, <1>3, <1>4, <1>5, BehindKnows
  <1>7. /\ token' \in BOOLEAN /\ status' \in {"connected", "syncing", "disconnected", "error"}
        /\ age' \in 0..2 /\ mishaps' \in 0..MaxMishaps /\ cursor' \in 0..Len(hist)
        /\ torn \subseteq torn' /\ torn' \subseteq Thread
        /\ leftOut \subseteq leftOut' /\ leftOut' \subseteq Thread
    BY <1>2 DEF IInv, TypeOK
  <1>8. CredentialsOK'
    BY <1>2 DEF IInv, CredentialsOK
  <1>9. job' = [job EXCEPT ![p] = w] /\ t \in bad \cup torn' /\ cursor' = cursor
    BY <1>1, <1>2, <1>3
  <1> QED BY <1>2, <1>6, <1>7, <1>8, <1>9, RunStep

-----------------------------------------------------------------------------
(* How a run ends.                                                         *)

LEMMA FinishPassStep ==
  ASSUME IInv, NEW p \in Run, FinishPass(p) PROVE IInv'
  <1>1. /\ job[p].pc = "import" /\ job[p].kind # "backfill" /\ job[p] \in Job
        /\ WorkOK(job[p]) /\ job' = [job EXCEPT ![p] = Idle]
        /\ UNCHANGED <<google, token, age, local, mishaps, torn>>
    BY JobIs DEF FinishPass
  <1>2. UNCHANGED <<hist, bad, token, age, row, stored, mishaps, torn>>
    BY <1>1 DEF google, local
  <1>3. CASE Connected
    <2> DEFINE T == job[p].todo
    <2>1. /\ status' = "connected"
          /\ cursor' = IF Truncated(p) THEN cursor ELSE job[p].head
          /\ leftOut' = IF job[p].kind = "first" THEN leftOut \cup Unfetched(T) ELSE leftOut
      BY <1>3 DEF FinishPass
    <2>2. T \subseteq Thread /\ job[p].head \in 0..Len(hist)
      BY <1>1 DEF Job
    <2>3. leftOut \subseteq leftOut' /\ leftOut' \subseteq Thread
      BY <2>1, <2>2 DEF Unfetched, IInv, TypeOK
    <2>4. /\ token' \in BOOLEAN /\ status' \in {"connected", "syncing", "disconnected", "error"}
          /\ age' \in 0..2 /\ mishaps' \in 0..MaxMishaps /\ cursor' \in 0..Len(hist)
          /\ torn \subseteq torn' /\ torn' \subseteq Thread /\ CredentialsOK'
      BY <1>2, <2>1, <2>2 DEF IInv, TypeOK, CredentialsOK
    <2>5. ASSUME TypeOK', Advances PROVE cursor' = cursor \/ Covered(cursor, {})'
      <3>1. CASE Truncated(p)
        BY <2>1, <3>1
      <3>2. CASE ~Truncated(p)
        <4>1. PICK n \in 0..Len(hist), S \in SUBSET Thread : n = job[p].head /\ S = T
          BY <2>2
        <4>2. Covered(n, S)
          BY <1>1, <4>1 DEF WorkOK, ToDo
        <4>3. ASSUME NEW t \in S PROVE t \in leftOut' \/ \A h \in Mails(t) : Held(h)'
          <5>1. CASE row[t] = LastMail(t)
            BY <2>5, <5>1, FetchedIsHeld DEF Advances
          <5>2. CASE row[t] # LastMail(t)
            <6>1. job[p].kind = "first"
              BY <1>1, <3>2, <4>1, <4>3 DEF FinishPass, Done, Capped, Truncated
            <6> QED BY <2>1, <4>1, <5>2, <6>1 DEF Unfetched
          <5> QED BY <5>1, <5>2
        <4>4. Covered(n, {})'
          BY <2>5, <4>2, <4>3, CoveredStays DEF IInv
        <4>5. cursor' = n
          BY <2>1, <3>2, <4>1
        <4> QED BY <4>4, <4>5 DEF Covered
      <3> QED BY <3>1, <3>2
    <2> QED BY <1>1, <1>2, <2>3, <2>4, <2>5, IdleIsWork, RunStep
  <1>4. CASE ~Connected
    <2>1. UNCHANGED <<google, account, local, mishaps, torn, leftOut>>
      BY <1>1, <1>4 DEF FinishPass, account
    <2> QED BY <1>1, <2>1, IdleIsWork, ReadStep
  <1> QED BY <1>3, <1>4

LEMMA FinishBackfillStep ==
  ASSUME IInv, NEW p \in Run, FinishBackfill(p) PROVE IInv'
  <1>1. /\ job[p].pc = "import" /\ job' = [job EXCEPT ![p] = Idle] /\ age' = 0
        /\ UNCHANGED <<google, token, status, cursor, local, mishaps, torn, leftOut>>
    BY DEF FinishBackfill
  <1>2. /\ UNCHANGED <<hist, bad, row, stored, torn, leftOut, cursor, token>>
        /\ status' = status /\ mishaps' = mishaps
    BY <1>1 DEF google, local
  <1>3. /\ status' \in {"connected", "syncing", "disconnected", "error"}
        /\ age' \in 0..2 /\ mishaps' \in 0..MaxMishaps
    BY <1>1, <1>2 DEF IInv, TypeOK
  <1>4. CredentialsOK'
    BY <1>2 DEF IInv, CredentialsOK
  <1> QED BY <1>1, <1>2, <1>3, <1>4, IdleIsWork, QuietStep

\* A run that stops where it is, and tears the thread it was writing.
LEMMA StopStep ==
  ASSUME IInv, NEW p \in Run, job' = [job EXCEPT ![p] = Idle],
         UNCHANGED <<google, token, cursor, local, leftOut>>, age' \in 0..2,
         status' \in {"connected", "syncing", "disconnected", "error"},
         status' = "disconnected" => status = "disconnected",
         mishaps' \in 0..MaxMishaps, BreakOff(p) \/ (torn' = torn /\ job[p].pc # "messages")
  PROVE  IInv'
  <1>1. UNCHANGED <<hist, bad, row, stored, token, cursor, leftOut>>
    BY DEF google, local
  <1>2. job[p].pc = "messages" => job[p].now \in Thread
    BY JobIs DEF WorkOK
  <1>3. /\ torn \subseteq torn' /\ torn' \subseteq Thread
        /\ job[p].pc = "messages" => job[p].now \in bad \cup torn'
    BY <1>2 DEF BreakOff, IInv, TypeOK
  <1>4. CredentialsOK'
    BY <1>1 DEF IInv, CredentialsOK
  <1>5. /\ leftOut \subseteq leftOut' /\ leftOut' \subseteq Thread /\ token' \in BOOLEAN
        /\ cursor' \in 0..Len(hist)
    BY <1>1 DEF IInv, TypeOK
  <1> QED BY <1>1, <1>3, <1>4, <1>5, IdleIsWork, RunStep

\* The status a run gives back is never that of a disconnected mailbox.
LEMMA GiveBackIs ==
  ASSUME IInv, NEW p \in Run, GiveBack(p)
  PROVE  /\ job' = [job EXCEPT ![p] = Idle]
         /\ UNCHANGED <<google, token, cursor, local, leftOut>> /\ age' \in 0..2
         /\ status' \in {"connected", "syncing", "disconnected", "error"}
         /\ status' = "disconnected" => status = "disconnected"
  <1>1. job[p].prior \in {"connected", "error"}
    BY JobIs DEF Job
  <1> QED BY <1>1 DEF GiveBack, IInv, TypeOK

LEMMA FailTransientlyStep ==
  ASSUME IInv, NEW p \in Run, FailTransiently(p) PROVE IInv'
  <1>1. mishaps' \in 0..MaxMishaps /\ BreakOff(p) /\ GiveBack(p)
    BY BoundAssumption DEF FailTransiently, IInv, TypeOK
  <1> QED BY <1>1, GiveBackIs, StopStep

LEMMA AbortAllFailedStep ==
  ASSUME IInv, NEW p \in Run, AbortAllFailed(p) PROVE IInv'
  <1>1. mishaps' \in 0..MaxMishaps /\ GiveBack(p) /\ torn' = torn /\ job[p].pc # "messages"
    BY DEF AbortAllFailed, IInv, TypeOK
  <1> QED BY <1>1, GiveBackIs, StopStep

\* So is the status an authorisation failure writes.
LEMMA MarkErrorIs ==
  ASSUME IInv, MarkError
  PROVE  /\ status' \in {"connected", "syncing", "disconnected", "error"}
         /\ status' = "disconnected" <=> status = "disconnected"
  BY DEF MarkError, IInv, TypeOK

LEMMA FailAuthStep ==
  ASSUME IInv, NEW p \in Run, FailAuth(p) PROVE IInv'
  <1>1. /\ MarkError /\ job' = [job EXCEPT ![p] = Idle] /\ torn' = torn
        /\ job[p].pc # "messages" /\ UNCHANGED <<google, token, age, cursor, local, leftOut>>
    BY DEF FailAuth, Calling
  <1>2. mishaps' \in 0..MaxMishaps /\ age \in 0..2
    BY BoundAssumption DEF FailAuth, IInv, TypeOK
  <1> QED BY <1>1, <1>2, MarkErrorIs, StopStep

LEMMA DieStep ==
  ASSUME IInv, NEW p \in Run, Die(p) PROVE IInv'
  <1>1. /\ job' = [job EXCEPT ![p] = Idle] /\ BreakOff(p)
        /\ UNCHANGED <<google, token, age, cursor, local, leftOut>> /\ status' = status
    BY DEF Die, account
  <1>2. /\ mishaps' \in 0..MaxMishaps /\ age \in 0..2
        /\ status' \in {"connected", "syncing", "disconnected", "error"}
    BY <1>1, BoundAssumption DEF Die, IInv, TypeOK
  <1> QED BY <1>1, <1>2, StopStep

-----------------------------------------------------------------------------
(* The owner and Google.                                                   *)

\* A step of the account only.
LEMMA AccountStep ==
  ASSUME IInv, UNCHANGED <<google, cursor, local, job, torn, leftOut>>,
         token' \in BOOLEAN, status' \in {"connected", "syncing", "disconnected", "error"},
         age' \in 0..2, mishaps' \in 0..MaxMishaps, CredentialsOK'
  PROVE  IInv'
  <1>1. UNCHANGED <<hist, bad, cursor, row, stored, job, torn, leftOut>>
    BY DEF google, local
  <1>2. TypeOK'
    BY <1>1 DEF IInv, TypeOK, Job
  <1>3. \A p \in Run : KeepsHold(p)
    BY <1>1 DEF KeepsHold
  <1>4. Advances
    BY <1>1, <1>3, HeldStays DEF Advances, IInv, TypeOK
  <1>5. RowsAreBacked'
    BY <1>1, <1>2, <1>4, RowsStay DEF IInv
  <1> QED BY <1>1, <1>2, <1>4, <1>5, StepKeeps

LEMMA DisconnectStep ==
  ASSUME IInv, Disconnect PROVE IInv'
  <1>1. /\ UNCHANGED <<google, cursor, local, job, torn, leftOut>>
        /\ token' = FALSE /\ status' = "disconnected" /\ age' = age
    BY DEF Disconnect
  <1>2. mishaps' \in 0..MaxMishaps /\ age' \in 0..2 /\ CredentialsOK'
    BY <1>1, BoundAssumption DEF Disconnect, IInv, TypeOK, CredentialsOK
  <1> QED BY <1>1, <1>2, AccountStep

LEMMA ConnectStep ==
  ASSUME IInv, Connect PROVE IInv'
  <1>1. /\ UNCHANGED <<google, cursor, local, job, torn, leftOut>>
        /\ token' = TRUE /\ status' = "connected" /\ age' = age
    BY DEF Connect
  <1>2. mishaps' \in 0..MaxMishaps /\ age' \in 0..2 /\ CredentialsOK'
    BY <1>1, BoundAssumption DEF Connect, IInv, TypeOK, CredentialsOK
  <1> QED BY <1>1, <1>2, AccountStep

LEMMA RecordAuthErrorStep ==
  ASSUME IInv, RecordAuthError PROVE IInv'
  <1>1. /\ UNCHANGED <<google, cursor, local, job, torn, leftOut>>
        /\ MarkError /\ token' = token /\ age' = age
    BY DEF RecordAuthError
  <1>2. /\ mishaps' \in 0..MaxMishaps /\ age' \in 0..2 /\ token' \in BOOLEAN
    BY <1>1, BoundAssumption DEF RecordAuthError, IInv, TypeOK
  <1>3. CredentialsOK'
    BY <1>1, MarkErrorIs DEF IInv, CredentialsOK
  <1> QED BY <1>1, <1>2, <1>3, MarkErrorIs, AccountStep

LEMMA TickStep ==
  ASSUME IInv, Tick PROVE IInv'
  <1>1. /\ UNCHANGED <<google, cursor, local, job, torn, leftOut>>
        /\ UNCHANGED <<token, status, mishaps>> /\ age' \in 0..2
    BY DEF Tick, IInv, TypeOK
  <1>2. CredentialsOK'
    BY <1>1 DEF IInv, CredentialsOK
  <1> QED BY <1>1, <1>2, AccountStep DEF IInv, TypeOK

LEMMA CalendarPullStep ==
  ASSUME IInv, CalendarPull PROVE IInv'
  <1>1. /\ UNCHANGED <<google, cursor, local, job, torn, leftOut>>
        /\ UNCHANGED <<token, status, mishaps>> /\ age' \in 0..2
    BY DEF CalendarPull
  <1>2. CredentialsOK'
    BY <1>1 DEF IInv, CredentialsOK
  <1> QED BY <1>1, <1>2, AccountStep DEF IInv, TypeOK

LEMMA ChangeStep ==
  ASSUME IInv, NEW t \in Thread, NEW mail \in BOOLEAN, Change(t, mail) PROVE IInv'
  <1>1. /\ Len(hist) < MaxHistory /\ hist' = Append(hist, [thread |-> t, mail |-> mail])
        /\ UNCHANGED <<bad, account, local, job, mishaps, torn, leftOut>>
    BY DEF Change
  <1>2. UNCHANGED <<bad, token, status, age, cursor, row, stored, job, mishaps, torn, leftOut>>
    BY <1>1 DEF account, local
  <1>3. hist \in Seq(Record) /\ [thread |-> t, mail |-> mail] \in Record
    BY DEF IInv, TypeOK, Record
  <1>4. /\ hist' \in Seq(Record) /\ Len(hist') = Len(hist) + 1
        /\ \A h \in 1..Len(hist) : hist'[h] = hist[h]
    BY <1>1, <1>3
  <1>5. Len(hist) \in 1..MaxHistory /\ Len(hist') \in 1..MaxHistory
    BY <1>1, <1>4, BoundAssumption DEF IInv, TypeOK
  <1>6. 0..Len(hist) \subseteq 0..Len(hist') /\ 1..Len(hist) \subseteq 1..Len(hist')
    BY <1>4, <1>5
  <1>7. \A w \in Job : w \in Job'
    BY <1>6 DEF Job
  <1>8. job' \in [Run -> Job']
    BY <1>2, <1>7 DEF IInv, TypeOK
  <1>9. TypeOK'
    BY <1>2, <1>4, <1>5, <1>6, <1>8 DEF IInv, TypeOK
  <1>10. \A p \in Run : KeepsHold(p)
    BY <1>2 DEF KeepsHold
  <1>11. Advances
    <2>1. \A u \in Thread : \A h \in Mails(u) : Held(h) => Held(h)'
      BY <1>2, <1>4, <1>10, HeldStays
    <2>2. Len(hist) <= Len(hist')
      BY <1>4, <1>5
    <2> QED BY <1>2, <1>4, <2>1, <2>2 DEF Advances
  <1>12. RowsAreBacked'
    BY <1>2, <1>9, <1>11, RowsStay DEF IInv
  <1>13. CredentialsOK'
    BY <1>2 DEF IInv, CredentialsOK
  <1> QED BY <1>2, <1>9, <1>11, <1>12, <1>13, StepKeeps

-----------------------------------------------------------------------------
(* The theorems.                                                           *)

LEMMA InitEstablishes == ASSUME Init PROVE IInv
  <1>1. PICK t \in Thread : hist = <<[thread |-> t, mail |-> TRUE]>>
    BY DEF Init
  <1>2. hist \in Seq(Record) /\ Len(hist) = 1 /\ 1 \in 1..MaxHistory
    BY <1>1, BoundAssumption DEF Record
  <1>3. Idle \in Job
    BY <1>2 DEF Idle, Job
  <1>4. TypeOK
    BY <1>2, <1>3, BoundAssumption DEF Init, TypeOK
  <1>5. WorkOK(Idle)
    BY DEF WorkOK, Idle
  <1>6. \A p \in Run : WorkOK(job[p])
    BY <1>5 DEF Init
  <1>7. Covered(cursor, {}) /\ CredentialsOK
    BY DEF Init, Covered, CredentialsOK
  <1>8. RowsAreBacked
    BY DEF Init, RowsAreBacked, Mails
  <1> QED BY <1>4, <1>6, <1>7, <1>8 DEF IInv

LEMMA StutterKeeps == ASSUME IInv, UNCHANGED vars PROVE IInv'
  <1>1. /\ UNCHANGED <<google, cursor, local, job, torn, leftOut>>
        /\ UNCHANGED <<token, status, age, mishaps>>
    BY DEF vars, google, local
  <1>2. CredentialsOK'
    BY <1>1 DEF IInv, CredentialsOK
  <1> QED BY <1>1, <1>2, AccountStep DEF IInv, TypeOK

LEMMA NextKeeps == ASSUME IInv, [Next]_vars PROVE IInv'
  <1>1. ASSUME NEW p \in Run, Step(p) PROVE IInv'
    BY <1>1, LoadAccountStep, ClaimStep, ReadHistoryStep, HistoryExpiredStep, ReadProfileStep,
       ListThreadsStep, FetchThreadStep, WriteRowStep, WriteMessagesStep, RejectThreadStep,
       FinishPassStep, FinishBackfillStep, AbortAllFailedStep DEF Step
  <1>2. ASSUME NEW p \in Run, FailTransiently(p) \/ FailAuth(p) \/ Die(p) PROVE IInv'
    BY <1>2, FailTransientlyStep, FailAuthStep, DieStep
  <1>3. ASSUME NEW p \in Pass, ListMailbox(p) PROVE IInv'
    BY <1>3, ListMailboxStep
  <1>4. ASSUME NEW p \in Click, StartBackfill(p) PROVE IInv'
    BY <1>4, StartBackfillStep
  <1>5. CASE Disconnect \/ Connect \/ RecordAuthError \/ Tick \/ CalendarPull
    BY <1>5, DisconnectStep, ConnectStep, RecordAuthErrorStep, TickStep, CalendarPullStep
  <1>6. ASSUME NEW t \in Thread, NEW mail \in BOOLEAN, Change(t, mail) PROVE IInv'
    BY <1>6, ChangeStep
  <1>7. CASE UNCHANGED vars
    BY <1>7, StutterKeeps
  <1> QED BY <1>1, <1>2, <1>3, <1>4, <1>5, <1>6, <1>7 DEF Next

\* The inductive invariant holds of every behaviour, under any number of
\* passes, backfills and mishaps, and any caps.
THEOREM Invariance == Spec => []IInv
  <1>1. Init => IInv
    BY InitEstablishes
  <1>2. IInv /\ [Next]_vars => IInv'
    BY NextKeeps
  <1> QED BY <1>1, <1>2, PTL DEF Spec

\* Every variable, and every run's place, keeps its type.
THEOREM TypeCorrect == Spec => []TypeOK
  <1>1. IInv => TypeOK
    BY DEF IInv
  <1> QED BY <1>1, Invariance, PTL

\* No gap: whatever passes, backfills, reconnects and deaths overlap, a
\* message the cursor has passed is stored or about to be, or its thread was
\* rejected or torn, is due again, or was left to the backfill.
THEOREM NoGap == Spec => []NothingFallsBetween
  <1>1. IInv => NothingFallsBetween
    BY DEF IInv, Covered, NothingFallsBetween, Passed
  <1> QED BY <1>1, Invariance, PTL

\* A row is written before the messages it counts, and yet counts none that
\* is not stored, being stored, rejected or torn: what lets a catch-up skip a
\* thread whose row is up to date.
THEOREM RowsCountHeldMail == Spec => []RowsAreBacked
  <1>1. IInv => RowsAreBacked
    BY DEF IInv
  <1> QED BY <1>1, Invariance, PTL

\* Only its owner brings a disconnected mailbox back: no pass that was under
\* way when it was disconnected, no claim, failure or late end does.
THEOREM OnlyOwnerReconnects == Spec => DisconnectedStays
  <1> DEFINE Kept == status = "disconnected" /\ status' # "disconnected" =>
                       token' /\ ~token /\ job' = job
  <1>1. ASSUME IInv, Next PROVE Kept
    <2> SUFFICES ASSUME status = "disconnected" PROVE status' = "disconnected" \/ Connect
      BY <1>1 DEF Connect, IInv, CredentialsOK
    <2>1. ~token
      BY <1>1 DEF IInv, CredentialsOK
    <2>2. ASSUME NEW p \in Run, Step(p) PROVE status' = status
      <3>1. CASE Claim(p)
        BY <2>1, <3>1 DEF Claim, Claimable
      <3>2. CASE FinishPass(p)
        BY <2>1, <3>2 DEF FinishPass, Connected
      <3>3. CASE AbortAllFailed(p)
        BY <3>3 DEF AbortAllFailed, GiveBack
      <3>4. CASE LoadAccount(p) \/ ReadHistory(p) \/ HistoryExpired(p) \/ ReadProfile(p)
        BY <3>4 DEF account, LoadAccount, ReadHistory, HistoryExpired, ReadProfile
      <3>5. CASE ListThreads(p) \/ FetchThread(p) \/ FinishBackfill(p)
        BY <3>5 DEF account, ListThreads, FetchThread, FinishBackfill
      <3>6. CASE WriteRow(p) \/ WriteMessages(p) \/ RejectThread(p)
        BY <3>6 DEF account, WriteRow, WriteMessages, RejectThread
      <3> QED BY <2>2, <3>1, <3>2, <3>3, <3>4, <3>5, <3>6 DEF Step
    <2>3. ASSUME NEW p \in Run, FailTransiently(p) \/ FailAuth(p) \/ Die(p)
          PROVE  status' = status
      BY <2>3 DEF FailTransiently, GiveBack, FailAuth, MarkError, Die, account
    <2>4. ASSUME NEW p \in Run, ListMailbox(p) \/ StartBackfill(p) PROVE status' = status
      BY <2>4 DEF ListMailbox, StartBackfill, account
    <2>5. CASE Disconnect \/ RecordAuthError \/ Tick \/ CalendarPull
      BY <2>5 DEF Disconnect, RecordAuthError, MarkError, Tick, CalendarPull
    <2>6. ASSUME NEW t, NEW mail, Change(t, mail) PROVE status' = status
      BY <2>6 DEF Change, account
    <2> QED BY <1>1, <2>2, <2>3, <2>4, <2>5, <2>6 DEF Next, Run
  <1>2. ASSUME UNCHANGED vars PROVE Kept
    BY <1>2 DEF vars
  <1>3. IInv /\ [Next]_vars => [Kept]_vars
    BY <1>1, <1>2
  <1> QED BY <1>3, Invariance, PTL DEF Spec, DisconnectedStays

=============================================================================
