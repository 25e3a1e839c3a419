----------------------- MODULE NotificationEmailProofs -----------------------
(***************************************************************************)
(* What the outbox worker keeps for any number of runs, notices and        *)
(* recipients.  A step of one run is about the rows in its own hands: no   *)
(* other run has them, they are all marked as claimed, and who stamps them *)
(* knows whether an e-mail carried them.                                   *)
(***************************************************************************)
EXTENDS NotificationEmail, WellFoundedInduction, TLAPS

\* A digest is for one recipient, and no two of a run are for the same.
JobsOK(J) ==
  /\ \A j \in J : /\ j.user \in User /\ j.rows \subseteq Notification /\ j.rows # {}
                  /\ \A n \in j.rows : UserOf[n] = j.user
  /\ \A j, k \in J : j.user = k.user => j = k

\* What a run carries at each place.
RunOK(w) ==
  \/ w = Idle
  \/ w.at = "instant" /\ w.todo \subseteq Notification /\ w.now = {}
  \/ /\ w.at = "stamp" /\ w.ok \in BOOLEAN
     /\ w.todo \subseteq Notification /\ w.now \subseteq Notification
     /\ w.now \cap w.todo = {}
  \/ /\ w.at \in {"digests", "release"} /\ JobsOK(w.todo)
     /\ w = [at |-> w.at, todo |-> w.todo, now |-> {}]
  \/ /\ w.at = "stamp digest" /\ w.ok \in BOOLEAN
     /\ JobsOK(w.todo) /\ w.user \in User /\ w.now \subseteq Notification
     /\ \A n \in w.now : UserOf[n] = w.user
     /\ \A j \in w.todo : j.user # w.user
  \/ /\ w.at = "unclaim day" /\ w.next \in {"digests", "release"}
     /\ JobsOK(w.todo) /\ w.user \in User /\ w.now = {}

RunsOK == DOMAIN run = Run /\ \A r \in Run : RunOK(run[r])

\* The run is about to stamp n as sent.
Vouched(r, n) ==
  run[r].at \in {"stamp", "stamp digest"} /\ run[r].ok /\ n \in run[r].now

\* Who is about to stamp has sent; a key that is known stands for mail that went out.
SendsOK ==
  /\ \A r \in Run : \A n \in Notification : Vouched(r, n) => delivered[n] > 0
  /\ \A r \in Run : run[r].at = "stamp digest" /\ run[r].ok => run[r].user \in digested
  /\ \A k \in keys : \A n \in Notification : n \in k.rows => delivered[n] > 0

\* A row that is neither settled nor about to be stamped was carried by no
\* more e-mails than there were mishaps.
OpenRowsOK ==
  /\ deaths \in Nat /\ lost \in Nat
  /\ \A n \in Notification :
       state[n] \notin Settled /\ (\A r \in Run : ~Vouched(r, n))
         => delivered[n] <= deaths + lost

\* A row that can still be tried has an attempt left.
AttemptsOK == \A n \in Notification : state[n] # "failed" => attempts[n] < MaxAttempts

IInv == /\ TypeOK /\ RunsOK /\ ClaimsAreExclusive /\ SendsOK /\ AttemptsOK
        /\ SentMeansDelivered /\ OpenRowsOK /\ DuplicatesNeedMishaps /\ DayClaimIsEarned

\* Hands and DigestUsers of a run, as functions of what it carries.
HandsOf(w) ==
  CASE w.at \in {"instant", "stamp"} -> w.todo \cup w.now
    [] w.at \in {"digests", "stamp digest", "release", "unclaim day"} ->
         JobRows(w.todo) \cup w.now
    [] OTHER -> {}

UsersOf(w) ==
  CASE w.at \in {"digests", "release"} -> {j.user : j \in w.todo}
    [] w.at \in {"stamp digest", "unclaim day"} -> {j.user : j \in w.todo} \cup {w.user}
    [] OTHER -> {}

-----------------------------------------------------------------------------
\* A set of row ids that is not empty has an oldest.
LEMMA MinIn == ASSUME NEW S \in SUBSET Nat, S # {} PROVE Min(S) \in S
  <1> DEFINE LT == OpToRel(<, Nat)
  <1>1. IsWellFoundedOn(LT, Nat)
    BY NatLessThanWellFounded
  <1>2. \A x, y \in Nat : x < y => <<x, y>> \in LT
    BY SMT DEF OpToRel
  <1> HIDE DEF LT
  <1>3. S \subseteq Nat
    OBVIOUS
  <1>4. \E x \in S : \A y \in S : ~(<<y, x>> \in LT)
    BY <1>1, <1>3, WFMin, Zenon
  <1>5. PICK x \in S : \A y \in S : ~(<<y, x>> \in LT)
    BY <1>4
  <1>6. \A y \in S : ~(y < x)
    BY <1>2, <1>3, <1>5, Zenon
  <1>7. \A y \in S : x =< y
    BY <1>3, <1>6, SMT
  <1> QED BY <1>7 DEF Min

\* Hands and DigestUsers in both states.
LEMMA HandsAre ==
  ASSUME NEW r
  PROVE  /\ Hands(r) = HandsOf(run[r]) /\ Hands(r)' = HandsOf(run'[r])
         /\ DigestUsers(r) = UsersOf(run[r]) /\ DigestUsers(r)' = UsersOf(run'[r])
  BY DEF Hands, HandsOf, DigestUsers, UsersOf

\* The rows in hand at each place.
LEMMA HandsAt ==
  ASSUME NEW w
  PROVE  /\ w.at = "idle" => HandsOf(w) = {} /\ UsersOf(w) = {}
         /\ w.at \in {"instant", "stamp"} => HandsOf(w) = w.todo \cup w.now /\ UsersOf(w) = {}
         /\ w.at \in {"digests", "release"} =>
              HandsOf(w) = JobRows(w.todo) \cup w.now /\ UsersOf(w) = {j.user : j \in w.todo}
         /\ w.at \in {"stamp digest", "unclaim day"} =>
              /\ HandsOf(w) = JobRows(w.todo) \cup w.now
              /\ UsersOf(w) = {j.user : j \in w.todo} \cup {w.user}
  <1>1. CASE w.at = "idle"
    BY <1>1 DEF HandsOf, UsersOf
  <1>2. CASE w.at \in {"instant", "stamp"}
    BY <1>2 DEF HandsOf, UsersOf
  <1>3. CASE w.at \in {"digests", "release"}
    BY <1>3 DEF HandsOf, UsersOf
  <1>4. CASE w.at \in {"stamp digest", "unclaim day"}
    BY <1>4 DEF HandsOf, UsersOf
  <1> QED BY <1>1, <1>2, <1>3, <1>4

\* A run without work has no hands.
LEMMA IdleRun == RunOK(Idle) /\ Idle.at = "idle" /\ HandsOf(Idle) = {} /\ UsersOf(Idle) = {}
  BY HandsAt DEF RunOK, Idle

\* The jobs of a run share no rows.
LEMMA JobsApart ==
  ASSUME NEW J, JobsOK(J), NEW j \in J
  PROVE  /\ JobsOK(J \ {j})
         /\ j.rows \cap JobRows(J \ {j}) = {}
         /\ JobRows(J) = j.rows \cup JobRows(J \ {j})
         /\ j.rows \subseteq Notification /\ j.rows # {} /\ j.user \in User
         /\ \A n \in j.rows : UserOf[n] = j.user
         /\ \A k \in J \ {j} : k.user # j.user
         /\ {k.user : k \in J} = {k.user : k \in J \ {j}} \cup {j.user}
  BY DEF JobsOK, JobRows

\* A step of r leaves the other runs where they are.
LEMMA Moved ==
  ASSUME RunsOK, NEW r \in Run, NEW w, RunOK(w), Goto(r, w)
  PROVE  /\ RunsOK' /\ run'[r] = w
         /\ \A s \in Run \ {r} : run'[s] = run[s]
  <1>1. run' = [s \in Run |-> IF s = r THEN w ELSE run[s]]
    BY DEF RunsOK, Goto
  <1>2. DOMAIN run' = Run /\ run'[r] = w /\ \A s \in Run \ {r} : run'[s] = run[s]
    BY <1>1
  <1>3. \A s \in Run : RunOK(run'[s])
    BY <1>2 DEF RunsOK
  <1> QED BY <1>2, <1>3 DEF RunsOK

\* Rows in hand are rows.
LEMMA HandsAreRows ==
  ASSUME NEW w, RunOK(w)
  PROVE  HandsOf(w) \subseteq Notification
  <1>1. CASE w = Idle
    BY <1>1, IdleRun
  <1>2. CASE w.at \in {"instant", "stamp"}
    BY <1>2, HandsAt DEF RunOK, Idle
  <1>3. CASE w.at \in {"digests", "release", "stamp digest", "unclaim day"}
    <2>1. JobsOK(w.todo)
      BY <1>3, IdleRun DEF RunOK
    <2>3. w.now \subseteq Notification
      <3>1. CASE w.at \in {"digests", "release"}
        <4>1. w = [at |-> w.at, todo |-> w.todo, now |-> {}]
          BY <3>1, IdleRun DEF RunOK
        <4> QED BY <4>1
      <3>2. CASE w.at \in {"stamp digest", "unclaim day"}
        BY <3>2, IdleRun DEF RunOK
      <3> QED BY <1>3, <3>1, <3>2
    <2>2. JobRows(w.todo) \subseteq Notification
      BY <2>1 DEF JobsOK, JobRows
    <2> QED BY <1>3, <2>3, <2>2, HandsAt
  <1> QED BY <1>1, <1>2, <1>3 DEF RunOK

\* DayClaimIsEarned, with the runs spelled out, in both states.
LEMMA EarnedIs ==
  /\ DayClaimIsEarned <=>
       \A u \in User : dayClaimed[u] =>
         u \in digested \/ u \in abandoned \/ \E s \in Run : u \in UsersOf(run[s])
  /\ DayClaimIsEarned' <=>
       \A u \in User : dayClaimed'[u] =>
         u \in digested' \/ u \in abandoned' \/ \E s \in Run : u \in UsersOf(run'[s])
  <1>1. \A u : u \in UNION {DigestUsers(s) : s \in Run} <=> \E s \in Run : u \in DigestUsers(s)
    OBVIOUS
  <1>2. \A u : u \in UNION {DigestUsers(s)' : s \in Run} <=> \E s \in Run : u \in DigestUsers(s)'
    OBVIOUS
  <1> QED BY <1>1, <1>2, HandsAre DEF DayClaimIsEarned

\* What is true of the claims when r goes to w: its rows are marked, and no
\* other run's rows are touched or taken.
LEMMA KeepsExclusive ==
  ASSUME RunsOK, ClaimsAreExclusive, NEW r \in Run, NEW w, RunOK(w), Goto(r, w),
         \A n \in HandsOf(w) : state'[n] = "sending",
         \A s \in Run \ {r} : \A n \in Hands(s) : state'[n] = "sending" /\ n \notin HandsOf(w)
  PROVE  ClaimsAreExclusive'
  <1>1. run'[r] = w /\ \A s \in Run \ {r} : run'[s] = run[s]
    BY Moved
  <1>2. Hands(r)' = HandsOf(w) /\ \A s \in Run \ {r} : Hands(s)' = Hands(s)
    BY <1>1, HandsAre
  <1>3. \A s \in Run : Hands(s) \subseteq Notification
    BY DEF ClaimsAreExclusive, In
  <1>4. HandsOf(w) \subseteq Notification
    BY HandsAreRows
  <1>5. \A s \in Run : Hands(s)' \subseteq In("sending")'
    BY <1>2, <1>3, <1>4 DEF In
  <1>6. \A s \in Run : \A q \in Run \ {s} : Hands(s)' \cap Hands(q)' = {}
    BY <1>2 DEF ClaimsAreExclusive
  <1> QED BY <1>5, <1>6 DEF ClaimsAreExclusive

\* A count that only grows stays positive.
LEMMA StaysPositive == ASSUME NEW a \in Nat, NEW b \in Nat, a > 0, a <= b PROVE b > 0
  OBVIOUS

\* A step of a run that sends nothing.
LEMMA QuietStep ==
  ASSUME IInv, NEW r \in Run, NEW w, RunOK(w), Goto(r, w),
         w.at \notin {"stamp", "stamp digest"},
         UNCHANGED <<provider, mishaps>>, TypeOK', AttemptsOK',
         \A n \in HandsOf(w) : state'[n] = "sending",
         \A s \in Run \ {r} : \A n \in Hands(s) : state'[n] = "sending" /\ n \notin HandsOf(w),
         \A n \in Notification : state[n] \in Settled => state'[n] = state[n],
         \A n \in Notification : Vouched(r, n) => state'[n] \in Settled,
         \A n \in Notification : state'[n] = "sent" => state[n] = "sent" \/ Vouched(r, n),
         \A u \in User : dayClaimed'[u] => dayClaimed[u] \/ u \in UsersOf(w),
         \A u \in UsersOf(run[r]) : u \in UsersOf(w) \/ u \in digested \/ ~dayClaimed'[u]
  PROVE  IInv'
  <1> USE DEF IInv
  <1>1. RunsOK' /\ run'[r] = w /\ \A s \in Run \ {r} : run'[s] = run[s]
    BY Moved
  <1>2. ClaimsAreExclusive'
    BY KeepsExclusive
  <1>3. delivered' = delivered /\ digested' = digested /\ keys' = keys
        /\ abandoned' = abandoned /\ deaths' = deaths /\ lost' = lost
    BY DEF provider, mishaps
  <1>4. \A n : ~Vouched(r, n)' /\ \A s \in Run \ {r} : Vouched(s, n)' <=> Vouched(s, n)
    BY <1>1 DEF Vouched
  <1>5. SendsOK'
    <2>1. \A s \in Run : \A n \in Notification : Vouched(s, n)' => delivered'[n] > 0
      BY <1>3, <1>4 DEF SendsOK
    <2>2. \A s \in Run : run'[s].at = "stamp digest" /\ run'[s].ok => run'[s].user \in digested'
      BY <1>1, <1>3 DEF SendsOK
    <2> QED BY <1>3, <2>1, <2>2 DEF SendsOK
  <1>6. SentMeansDelivered'
    BY <1>3 DEF SentMeansDelivered, In, SendsOK
  <1>7. OpenRowsOK'
    <2> SUFFICES ASSUME NEW n \in Notification, state'[n] \notin Settled,
                        \A s \in Run : ~Vouched(s, n)'
                 PROVE  delivered[n] <= deaths + lost
      BY <1>3 DEF OpenRowsOK
    <2>1. state[n] \notin Settled /\ \A s \in Run : ~Vouched(s, n)
      BY <1>4
    <2> QED BY <2>1 DEF OpenRowsOK
  <1>8. DuplicatesNeedMishaps'
    BY <1>3 DEF DuplicatesNeedMishaps
  <1>9. DayClaimIsEarned'
    <2> SUFFICES ASSUME NEW u \in User, dayClaimed'[u]
                 PROVE  u \in digested \/ u \in abandoned \/ \E s \in Run : u \in UsersOf(run'[s])
      BY <1>3, EarnedIs
    <2>1. CASE u \in UsersOf(w)
      BY <1>1, <2>1
    <2>2. CASE u \notin UsersOf(w)
      <3>1. dayClaimed[u] /\ (u \in digested \/ u \notin UsersOf(run[r]))
        BY <2>2
      <3>2. u \in digested \/ u \in abandoned \/ \E s \in Run : u \in UsersOf(run[s])
        BY <3>1, EarnedIs
      <3> QED BY <1>1, <3>1, <3>2
    <2> QED BY <2>1, <2>2
  <1> QED BY <1>1, <1>2, <1>5, <1>6, <1>7, <1>8, <1>9

\* Who is about to stamp a row has it in hand.
LEMMA VouchedInHand ==
  ASSUME NEW r, NEW n, Vouched(r, n)
  PROVE  n \in Hands(r)
  <1>1. run[r].at = "stamp" \/ run[r].at = "stamp digest"
    BY DEF Vouched
  <1>2. n \in run[r].now
    BY DEF Vouched
  <1>3. n \in HandsOf(run[r])
    BY <1>1, <1>2, HandsAt
  <1> QED BY <1>3, HandsAre

\* A row in hand that nobody is about to stamp was mailed only by mishaps.
LEMMA InHandUnvouched ==
  ASSUME IInv, NEW r \in Run, NEW n \in Hands(r), ~Vouched(r, n)
  PROVE  n \in Notification /\ state[n] = "sending" /\ delivered[n] <= deaths + lost
  <1>1. n \in Notification /\ state[n] = "sending"
    BY DEF IInv, ClaimsAreExclusive, In
  <1>2. \A s \in Run \ {r} : n \notin Hands(s)
    BY DEF IInv, ClaimsAreExclusive
  <1>3. \A s \in Run : ~Vouched(s, n)
    BY <1>2, VouchedInHand
  <1> QED BY <1>1, <1>3 DEF IInv, OpenRowsOK, Settled

\* What one call of sendEmail does to the provider's side.
LEMMA SendEmailDoes ==
  ASSUME IInv, NEW k, NEW ok \in BOOLEAN, k.digest \in BOOLEAN, SendEmail(k, ok)
  PROVE  /\ delivered' \in [Notification -> Nat] /\ lost' \in Nat /\ lost <= lost'
         /\ \A n \in Notification :
              /\ delivered[n] <= delivered'[n]
              /\ n \notin k.rows => delivered'[n] = delivered[n]
              /\ ~ok \/ n \notin k.rows =>
                   (delivered[n] <= deaths + lost => delivered'[n] <= deaths + lost')
              /\ delivered[n] <= deaths + lost => delivered'[n] <= 1 + deaths + lost'
              /\ n \notin k.rows =>
                   (delivered[n] <= 1 + deaths + lost => delivered'[n] <= 1 + deaths + lost')
              /\ ok /\ n \in k.rows => delivered'[n] > 0
         /\ \A q \in keys' : \A n \in Notification : n \in q.rows => delivered'[n] > 0
         /\ digested \subseteq digested'
         /\ ok /\ k.digest => \A n \in k.rows : UserOf[n] \in digested'
  <1> USE DEF IInv
  <1>0. delivered \in [Notification -> Nat] /\ lost \in Nat /\ deaths \in Nat
    BY DEF TypeOK, OpenRowsOK
  <1>1. ASSUME Deliver(k)
        PROVE  /\ delivered' \in [Notification -> Nat]
               /\ \A n \in Notification :
                    /\ delivered[n] <= delivered'[n]
                    /\ n \notin k.rows => delivered'[n] = delivered[n]
                    /\ delivered'[n] <= delivered[n] + 1
                    /\ n \in k.rows => delivered'[n] > 0
               /\ \A q \in keys' : \A n \in Notification : n \in q.rows => delivered'[n] > 0
               /\ digested \subseteq digested'
               /\ k.digest => \A n \in k.rows : UserOf[n] \in digested'
    <2>1. delivered' = [n \in Notification |->
            IF n \in k.rows /\ k \notin keys THEN delivered[n] + 1 ELSE delivered[n]]
      BY <1>1 DEF Deliver
    <2>2. delivered' \in [Notification -> Nat]
      BY <1>0, <2>1
    <2>3. \A n \in Notification : /\ delivered[n] <= delivered'[n]
                                  /\ n \notin k.rows => delivered'[n] = delivered[n]
                                  /\ delivered'[n] <= delivered[n] + 1
      BY <1>0, <2>1
    <2>4. \A n \in Notification : n \in k.rows => delivered'[n] > 0
      <3>1. CASE k \in keys
        BY <1>0, <2>1, <3>1 DEF SendsOK
      <3>2. CASE k \notin keys
        BY <1>0, <2>1, <3>2
      <3> QED BY <3>1, <3>2
    <2>5. ASSUME NEW q \in keys, NEW n \in Notification, n \in q.rows PROVE delivered'[n] > 0
      <3>1. delivered[n] > 0
        BY <2>5 DEF SendsOK
      <3>2. delivered[n] \in Nat /\ delivered'[n] \in Nat
        BY <1>0, <2>2
      <3> QED BY <2>3, <3>1, <3>2
    <2>6. keys' = keys \cup {k}
      BY <1>1 DEF Deliver
    <2>8. digested' = IF k.digest THEN digested \cup {UserOf[n] : n \in k.rows} ELSE digested
      BY <1>1 DEF Deliver
    <2>7. digested \subseteq digested' /\ (k.digest => \A n \in k.rows : UserOf[n] \in digested')
      BY <2>8, Zenon
    <2> QED BY <2>2, <2>3, <2>4, <2>5, <2>6, <2>7
  <1>2. CASE ok /\ Deliver(k) /\ lost' = lost
    BY <1>0, <1>1, <1>2
  <1>3. CASE ~ok /\ Deliver(k) /\ lost' = lost + 1
    BY <1>0, <1>1, <1>3
  <1>4. CASE ~ok /\ UNCHANGED <<provider, lost>>
    <2>1. delivered' = delivered /\ keys' = keys /\ digested' = digested /\ lost' = lost
      BY <1>4 DEF provider
    <2>2. \A q \in keys' : \A n \in Notification : n \in q.rows => delivered'[n] > 0
      BY <2>1 DEF SendsOK
    <2> QED BY <1>0, <1>4, <2>1, <2>2
  <1> QED BY <1>2, <1>3, <1>4 DEF SendEmail

\* A run sends an e-mail with rows from its hands, and is then about to stamp them.
LEMMA SendStep ==
  ASSUME IInv, NEW r \in Run, NEW k, NEW ok \in BOOLEAN, NEW w, RunOK(w), Goto(r, w),
         SendEmail(k, ok), k.digest \in BOOLEAN,
         w.at \in {"stamp", "stamp digest"}, w.now = k.rows, w.ok <=> ok,
         run[r].at \notin {"stamp", "stamp digest"},
         k.rows \subseteq Hands(r), HandsOf(w) \subseteq Hands(r),
         UsersOf(run[r]) \subseteq UsersOf(w),
         w.at = "stamp digest" => k.digest /\ \E n \in k.rows : UserOf[n] = w.user,
         UNCHANGED <<rowVars, mode, dayClaimed, abandoned, deaths>>
  PROVE  IInv'
  <1> USE DEF IInv
  <1>1. RunsOK' /\ run'[r] = w /\ \A s \in Run \ {r} : run'[s] = run[s]
    BY Moved
  <1>2. state' = state /\ attempts' = attempts /\ read' = read /\ fresh' = fresh
        /\ mode' = mode /\ dayClaimed' = dayClaimed /\ abandoned' = abandoned
        /\ deaths' = deaths
    BY DEF rowVars
  <1>3. /\ delivered' \in [Notification -> Nat] /\ lost' \in Nat /\ lost <= lost'
        /\ \A n \in Notification :
             /\ delivered[n] <= delivered'[n]
             /\ n \notin k.rows => delivered'[n] = delivered[n]
             /\ ~ok \/ n \notin k.rows =>
                  (delivered[n] <= deaths + lost => delivered'[n] <= deaths + lost')
             /\ delivered[n] <= deaths + lost => delivered'[n] <= 1 + deaths + lost'
             /\ n \notin k.rows =>
                  (delivered[n] <= 1 + deaths + lost => delivered'[n] <= 1 + deaths + lost')
             /\ ok /\ n \in k.rows => delivered'[n] > 0
        /\ \A q \in keys' : \A n \in Notification : n \in q.rows => delivered'[n] > 0
        /\ digested \subseteq digested'
        /\ ok /\ k.digest => \A n \in k.rows : UserOf[n] \in digested'
    BY SendEmailDoes
  <1>4. delivered \in [Notification -> Nat] /\ lost \in Nat /\ deaths \in Nat
    BY DEF TypeOK, OpenRowsOK
  <1>5. /\ \A n : ~Vouched(r, n) /\ (Vouched(r, n)' <=> ok /\ n \in k.rows)
        /\ \A s \in Run \ {r} : \A n : Vouched(s, n)' <=> Vouched(s, n)
    BY <1>1 DEF Vouched
  <1>6. TypeOK' /\ AttemptsOK'
    BY <1>2, <1>3 DEF TypeOK, AttemptsOK
  <1>7. ClaimsAreExclusive'
    <2>1. \A n \in HandsOf(w) : state'[n] = "sending"
      BY <1>2 DEF ClaimsAreExclusive, In
    <2>2. \A s \in Run \ {r} : \A n \in Hands(s) : state'[n] = "sending" /\ n \notin HandsOf(w)
      BY <1>2 DEF ClaimsAreExclusive, In
    <2> QED BY <2>1, <2>2, KeepsExclusive
  <1>8. SendsOK'
    <2>1. ASSUME NEW s \in Run, NEW n \in Notification, Vouched(s, n)' PROVE delivered'[n] > 0
      <3>1. CASE s = r
        BY <1>3, <1>5, <2>1, <3>1
      <3>2. CASE s # r
        <4>1. delivered[n] > 0
          BY <1>5, <2>1, <3>2 DEF SendsOK
        <4>2. delivered[n] \in Nat /\ delivered'[n] \in Nat
          BY <1>3, <1>4
        <4>3. delivered[n] <= delivered'[n]
          BY <1>3, Zenon
        <4> QED BY <4>1, <4>2, <4>3, StaysPositive, Zenon
      <3> QED BY <3>1, <3>2
    <2>2. ASSUME NEW s \in Run, run'[s].at = "stamp digest", run'[s].ok
          PROVE  run'[s].user \in digested'
      <3>1. CASE s = r
        BY <1>1, <1>3, <2>2, <3>1
      <3>2. CASE s # r
        BY <1>1, <1>3, <2>2, <3>2 DEF SendsOK
      <3> QED BY <3>1, <3>2
    <2> QED BY <1>3, <2>1, <2>2 DEF SendsOK
  <1>9. SentMeansDelivered'
    <2> SUFFICES ASSUME NEW n \in Notification, state[n] = "sent" PROVE delivered'[n] > 0
      BY <1>2 DEF SentMeansDelivered, In
    <2>1. delivered[n] > 0
      BY DEF SentMeansDelivered, In
    <2>2. delivered[n] \in Nat /\ delivered'[n] \in Nat
      BY <1>3, <1>4
    <2>3. delivered[n] <= delivered'[n]
      BY <1>3, Zenon
    <2> QED BY <2>1, <2>2, <2>3, StaysPositive, Zenon
  <1>10. \A n \in k.rows : n \in Notification /\ delivered[n] <= deaths + lost
    BY <1>5, InHandUnvouched
  <1>11. OpenRowsOK'
    <2> SUFFICES ASSUME NEW n \in Notification, state[n] \notin Settled,
                        \A s \in Run : ~Vouched(s, n)'
                 PROVE  delivered'[n] <= deaths + lost'
      BY <1>2, <1>3, <1>4 DEF OpenRowsOK
    <2>1. ~ok \/ n \notin k.rows
      BY <1>5
    <2>2. delivered[n] <= deaths + lost
      BY <1>5, <1>10 DEF OpenRowsOK
    <2> QED BY <1>3, <2>1, <2>2, Zenon
  <1>12. DuplicatesNeedMishaps'
    <2> SUFFICES ASSUME NEW n \in Notification PROVE delivered'[n] <= 1 + deaths + lost'
      BY <1>2 DEF DuplicatesNeedMishaps
    <2>1. CASE n \in k.rows
      BY <1>3, <1>10, <2>1, Zenon
    <2>2. CASE n \notin k.rows
      <3>1. delivered[n] <= 1 + deaths + lost
        BY DEF DuplicatesNeedMishaps
      <3> QED BY <1>3, <2>2, <3>1, Zenon
    <2> QED BY <2>1, <2>2
  <1>13. DayClaimIsEarned'
    BY <1>1, <1>2, <1>3, EarnedIs
  <1> QED BY <1>1, <1>6, <1>7, <1>8, <1>9, <1>11, <1>12, <1>13

-----------------------------------------------------------------------------
(* The steps of a run *)

\* What marking rows does to the types.
LEMMA Marked ==
  ASSUME TypeOK, NEW S, NEW x \in States, Mark(S, x)
  PROVE  /\ state' \in [Notification -> States]
         /\ \A n \in Notification : state'[n] = IF n \in S THEN x ELSE state[n]
  BY DEF Mark, TypeOK

\* Rows that may be retried keep an attempt while no failed row is reopened.
LEMMA KeepsAttempts ==
  ASSUME AttemptsOK, UNCHANGED attempts,
         \A n \in Notification : state'[n] # "failed" => state[n] # "failed"
  PROVE  AttemptsOK'
  BY DEF AttemptsOK

\* A failed attempt on rows that are claimed.
LEMMA FailureRecorded ==
  ASSUME TypeOK, AttemptsOK, NEW S, NEW retry \in {"pending", "held"}, RecordFailure(S, retry)
  PROVE  /\ attempts' \in [Notification -> 0 .. MaxAttempts]
         /\ state' \in [Notification -> States] /\ AttemptsOK'
         /\ \A n \in Notification :
              /\ n \notin Sending(S) => state'[n] = state[n]
              /\ n \in Sending(S) => state'[n] \in {"failed", retry}
  <1>1. attempts' = [n \in Notification |->
          IF n \in Sending(S) THEN attempts[n] + 1 ELSE attempts[n]]
    BY DEF RecordFailure
  <1>2. state' = [n \in Notification |->
          IF n \notin Sending(S) THEN state[n]
          ELSE IF attempts[n] + 1 >= MaxAttempts THEN "failed" ELSE retry]
    BY DEF RecordFailure
  <1>3. \A n \in Notification : n \in Sending(S) => state[n] = "sending"
    BY DEF Sending, In
  <1>4. MaxAttempts \in Nat /\ attempts \in [Notification -> 0 .. MaxAttempts]
        /\ state \in [Notification -> States]
    BY NotificationEmailAssumption DEF TypeOK
  <1>5. \A n \in Notification : attempts'[n] \in 0 .. MaxAttempts
    BY <1>1, <1>3, <1>4 DEF AttemptsOK
  <1>6. attempts' \in [Notification -> 0 .. MaxAttempts]
    BY <1>1, <1>5
  <1>7. state' \in [Notification -> States]
    BY <1>2, <1>4 DEF States
  <1>8. AttemptsOK'
    <2> SUFFICES ASSUME NEW n \in Notification, state'[n] # "failed"
                 PROVE  attempts'[n] < MaxAttempts
      BY DEF AttemptsOK
    <2>1. CASE n \in Sending(S)
      BY <1>1, <1>2, <1>4, <2>1
    <2>2. CASE n \notin Sending(S)
      BY <1>1, <1>2, <1>4, <2>2 DEF AttemptsOK
    <2> QED BY <2>1, <2>2
  <1>9. \A n \in Notification : /\ n \notin Sending(S) => state'[n] = state[n]
                                /\ n \in Sending(S) => state'[n] \in {"failed", retry}
    BY <1>2
  <1> QED BY <1>6, <1>7, <1>8, <1>9

\* The three decisions part the rows decided on.
LEMMA Decided ==
  ASSUME NEW S, S \subseteq Notification
  PROVE  /\ Skip(S) \subseteq S /\ Hold(S) \subseteq S /\ Send(S) \subseteq S
         /\ Skip(S) \cap Hold(S) = {} /\ Skip(S) \cap Send(S) = {}
         /\ Hold(S) \cap Send(S) = {}
  BY DEF Skip, Hold, Send

\* Nothing is in an idle run's hands, and nothing is about to be stamped.
LEMMA AtWork ==
  ASSUME NEW r, NEW n, run[r].at \notin {"stamp", "stamp digest"}
  PROVE  ~Vouched(r, n)
  BY DEF Vouched

\* The rows of other runs are claimed rows that are not in r's hands.
LEMMA OthersHands ==
  ASSUME IInv, NEW r \in Run, NEW s \in Run \ {r}, NEW n \in Hands(s)
  PROVE  n \in Notification /\ state[n] = "sending" /\ n \notin Hands(r)
  BY DEF IInv, ClaimsAreExclusive, In

\* A run with instant e-mails to send.
LEMMA InstantRun ==
  ASSUME NEW T \in SUBSET Notification, NEW w, w = [at |-> "instant", todo |-> T, now |-> {}]
  PROVE  RunOK(w) /\ HandsOf(w) = T /\ UsersOf(w) = {} /\ w.at = "instant"
  <1>1. w.at = "instant" /\ w.todo = T /\ w.now = {}
    OBVIOUS
  <1>2. HandsOf(w) = w.todo \cup w.now /\ UsersOf(w) = {}
    BY <1>1, HandsAt
  <1> QED BY <1>1, <1>2 DEF RunOK

\* Claiming takes only rows no run has, decides each once and settles only the skipped.
LEMMA ClaimInstantStep ==
  ASSUME IInv, NEW r \in Run, NEW S \in SUBSET Orphans, ClaimInstant(r, S)
  PROVE  IInv'
  <1> DEFINE D == In("pending") \cup S
             w == [at |-> "instant", todo |-> Send(D), now |-> {}]
  <1>1. /\ run[r] = Idle /\ Goto(r, w)
        /\ state' = [n \in Notification |->
             CASE n \in Skip(D) -> "skipped" [] n \in Hold(D) -> "held"
               [] n \in Send(D) -> "sending" [] OTHER -> state[n]]
        /\ UNCHANGED <<attempts, read, fresh, mode, dayClaimed, provider, mishaps, changes>>
    BY DEF ClaimInstant, DecideAndClaim
  <1>2. D \subseteq Notification /\ \A n \in D : state[n] \in {"pending", "sending"}
    BY DEF In, Orphans
  <1>3. Send(D) \subseteq D /\ Hold(D) \subseteq D /\ Skip(D) \subseteq D
        /\ Skip(D) \cap Send(D) = {} /\ Hold(D) \cap Send(D) = {}
    BY <1>2, Decided
  <1>4. \A n \in Notification : n \notin D => state'[n] = state[n]
    BY <1>1, <1>3
  <1>5. \A n \in Notification : n \in D => state'[n] \in {"skipped", "held", "sending", state[n]}
    BY <1>1
  <1>6. \A n \in Send(D) : state'[n] = "sending"
    BY <1>1, <1>2, <1>3
  <1>7. RunOK(w) /\ HandsOf(w) = Send(D) /\ UsersOf(w) = {} /\ w.at = "instant"
    BY <1>2, <1>3, InstantRun
  <1>8. \A s \in Run \ {r} : \A n \in Hands(s) : n \in Notification /\ n \notin D /\ state[n] = "sending"
    BY OthersHands DEF Orphans, In
  <1>9. TypeOK'
    <2>1. state' \in [Notification -> States]
      BY <1>1 DEF TypeOK, IInv, States
    <2> QED BY <1>1, <2>1 DEF TypeOK, IInv, provider
  <1>10. \A n \in Notification : state[n] \in Settled => state'[n] = state[n]
    BY <1>2, <1>4 DEF Settled
  <1>11. AttemptsOK'
    BY <1>1, <1>10, KeepsAttempts DEF IInv, Settled
  <1>12. \A n : ~Vouched(r, n)
    BY <1>1, IdleRun, AtWork
  <1>13. \A n \in Notification : state'[n] = "sent" => state[n] = "sent"
    BY <1>2, <1>4, <1>5
  <1>14. \A s \in Run \ {r} : \A n \in Hands(s) : state'[n] = "sending" /\ n \notin HandsOf(w)
    BY <1>3, <1>4, <1>7, <1>8
  <1>15. UsersOf(run[r]) = {}
    BY <1>1, IdleRun
  <1> HIDE DEF D, w
  <1> QED BY <1>1, <1>6, <1>7, <1>9, <1>10, <1>11, <1>12, <1>13, <1>14, <1>15, QuietStep

\* A stamp settles the row in flight as sent only if its e-mail went out.
LEMMA StampInstantStep ==
  ASSUME IInv, NEW r \in Run, StampInstant(r)
  PROVE  IInv'
  <1> DEFINE w == [at |-> "instant", todo |-> run[r].todo, now |-> {}]
  <1>1. /\ run[r].at = "stamp" /\ Goto(r, w)
        /\ UNCHANGED <<read, fresh, mode, dayClaimed, provider, mishaps, changes>>
    BY DEF StampInstant
  <1>2. run[r].todo \subseteq Notification /\ run[r].now \cap run[r].todo = {}
    BY <1>1, IdleRun DEF IInv, RunsOK, RunOK
  <1>3. RunOK(w) /\ HandsOf(w) = run[r].todo /\ UsersOf(w) = {} /\ w.at = "instant"
    BY <1>2, InstantRun
  <1>4. Hands(r) = run[r].todo \cup run[r].now /\ UsersOf(run[r]) = {}
    BY <1>1, HandsAre, HandsAt
  <1>5. \A n \in Hands(r) : n \in Notification /\ state[n] = "sending"
    BY DEF IInv, ClaimsAreExclusive, In
  <1>6. Sending(run[r].now) = run[r].now
    BY <1>4, <1>5 DEF Sending, In
  <1>7. /\ TypeOK' /\ AttemptsOK'
        /\ \A n \in Notification : n \notin run[r].now => state'[n] = state[n]
        /\ run[r].ok => \A n \in run[r].now : state'[n] = "sent"
        /\ ~run[r].ok => \A n \in run[r].now : state'[n] \in {"failed", "pending"}
    <2>1. CASE run[r].ok
      <3>1. Mark(run[r].now, "sent") /\ UNCHANGED attempts
        BY <1>6, <2>1 DEF StampInstant
      <3>2. /\ state' \in [Notification -> States]
            /\ \A n \in Notification : state'[n] = IF n \in run[r].now THEN "sent" ELSE state[n]
        BY <3>1, Marked DEF States, IInv
      <3>3. TypeOK'
        BY <1>1, <3>1, <3>2 DEF TypeOK, IInv, provider
      <3>4. \A n \in Notification : state'[n] # "failed" => state[n] # "failed"
        BY <1>4, <1>5, <3>2
      <3>5. AttemptsOK'
        BY <3>1, <3>4, KeepsAttempts DEF IInv
      <3>6. /\ \A n \in Notification : n \notin run[r].now => state'[n] = state[n]
            /\ \A n \in run[r].now : state'[n] = "sent"
        BY <1>4, <1>5, <3>2
      <3> QED BY <2>1, <3>3, <3>5, <3>6, Zenon
    <2>2. CASE ~run[r].ok
      <3>1. RecordFailure(run[r].now, "pending")
        BY <2>2 DEF StampInstant
      <3>2. /\ attempts' \in [Notification -> 0 .. MaxAttempts]
            /\ state' \in [Notification -> States] /\ AttemptsOK'
            /\ \A n \in Notification :
                 /\ n \notin run[r].now => state'[n] = state[n]
                 /\ n \in run[r].now => state'[n] \in {"failed", "pending"}
        BY <1>6, <3>1, FailureRecorded DEF IInv
      <3>3. TypeOK'
        BY <1>1, <3>2 DEF TypeOK, IInv, provider
      <3> QED BY <1>4, <1>5, <2>2, <3>2, <3>3
    <2> QED BY <2>1, <2>2
  <1>8. \A n \in HandsOf(w) : state'[n] = "sending"
    BY <1>2, <1>3, <1>4, <1>5, <1>7
  <1>9. \A s \in Run \ {r} : \A n \in Hands(s) : state'[n] = "sending" /\ n \notin HandsOf(w)
    BY <1>3, <1>4, <1>7, OthersHands
  <1>10. \A n \in Notification : state[n] \in Settled => state'[n] = state[n]
    BY <1>4, <1>5, <1>7 DEF Settled
  <1>11. \A n \in Notification : Vouched(r, n) => state'[n] \in Settled
    BY <1>7 DEF Vouched, Settled
  <1>12. \A n \in Notification : state'[n] = "sent" => state[n] = "sent" \/ Vouched(r, n)
    BY <1>1, <1>7 DEF Vouched
  <1> HIDE DEF w
  <1> QED BY <1>1, <1>3, <1>4, <1>7, <1>8, <1>9, <1>10, <1>11, <1>12, QuietStep

\* Rows handed back are rows no e-mail carried.
LEMMA ReleaseInstantStep ==
  ASSUME IInv, NEW r \in Run, ReleaseInstant(r)
  PROVE  IInv'
  <1>1. /\ run[r].at = "instant" /\ Goto(r, Idle) /\ Mark(Sending(run[r].todo), "pending")
        /\ UNCHANGED <<attempts, read, fresh, mode, dayClaimed, provider, mishaps, changes>>
    BY DEF ReleaseInstant
  <1>2. Hands(r) = run[r].todo \cup run[r].now /\ UsersOf(run[r]) = {}
    BY <1>1, HandsAre, HandsAt
  <1>3. /\ state' \in [Notification -> States]
        /\ \A n \in Notification :
             state'[n] = IF n \in Sending(run[r].todo) THEN "pending" ELSE state[n]
    BY <1>1, Marked DEF States, IInv
  <1>4. \A n \in Sending(run[r].todo) : n \in Hands(r) /\ state[n] = "sending"
    BY <1>2 DEF Sending, In
  <1>5. TypeOK'
    BY <1>1, <1>3 DEF TypeOK, IInv, provider
  <1>6. \A n \in Notification : state[n] \in Settled => state'[n] = state[n]
    BY <1>3, <1>4 DEF Settled
  <1>7. AttemptsOK'
    BY <1>1, <1>6, KeepsAttempts DEF IInv, Settled
  <1>8. \A s \in Run \ {r} : \A n \in Hands(s) : state'[n] = "sending" /\ n \notin HandsOf(Idle)
    BY <1>3, <1>4, OthersHands, IdleRun
  <1>9. \A n : ~Vouched(r, n)
    BY <1>1, AtWork
  <1>10. \A n \in Notification : state'[n] = "sent" => state[n] = "sent"
    BY <1>3
  <1> QED BY <1>1, <1>2, <1>5, <1>6, <1>7, <1>8, <1>9, <1>10, IdleRun, QuietStep

\* A run with digests to send, or to give back.
LEMMA DigestsRun ==
  ASSUME NEW J, JobsOK(J), NEW x \in {"digests", "release"}, NEW w,
         w = [at |-> x, todo |-> J, now |-> {}]
  PROVE  /\ RunOK(w) /\ HandsOf(w) = JobRows(J) /\ UsersOf(w) = {j.user : j \in J}
         /\ w.at \notin {"stamp", "stamp digest"}
  <1>1. w.at = x /\ w.todo = J /\ w.now = {}
    OBVIOUS
  <1>2. HandsOf(w) = JobRows(w.todo) \cup w.now /\ UsersOf(w) = {j.user : j \in w.todo}
    BY <1>1, HandsAt
  <1> QED BY <1>1, <1>2 DEF RunOK

\* No jobs have no rows.
LEMMA NoJobs == JobRows({}) = {}
  BY DEF JobRows

\* The same run when it may have run out of digests.
LEMMA AfterRun ==
  ASSUME NEW J, JobsOK(J), NEW w, w \in {AfterDigest(J), AfterRelease(J)}
  PROVE  /\ RunOK(w) /\ HandsOf(w) = JobRows(J) /\ UsersOf(w) = {j.user : j \in J}
         /\ w.at \notin {"stamp", "stamp digest"}
  <1>1. CASE J = {}
    <2>1. w = Idle
      BY <1>1 DEF AfterDigest, AfterRelease
    <2>2. {j.user : j \in J} = {}
      BY <1>1
    <2> QED BY <1>1, <2>1, <2>2, IdleRun, NoJobs
  <1>2. CASE J # {}
    <2>1. w = [at |-> "digests", todo |-> J, now |-> {}] \/ w = [at |-> "release", todo |-> J, now |-> {}]
      BY <1>2 DEF AfterDigest, AfterRelease
    <2> QED BY <2>1, DigestsRun
  <1> QED BY <1>1, <1>2

\* A run about to give a recipient's day back.
LEMMA UnclaimRun ==
  ASSUME NEW J, JobsOK(J), NEW u \in User, NEW x \in {"digests", "release"}, NEW w,
         w = [at |-> "unclaim day", user |-> u, todo |-> J, now |-> {}, next |-> x]
  PROVE  /\ RunOK(w) /\ HandsOf(w) = JobRows(J) /\ UsersOf(w) = {j.user : j \in J} \cup {u}
         /\ w.at \notin {"stamp", "stamp digest"}
  <1>1. w.at = "unclaim day" /\ w.todo = J /\ w.now = {} /\ w.user = u /\ w.next = x
    OBVIOUS
  <1>2. HandsOf(w) = JobRows(w.todo) \cup w.now
        /\ UsersOf(w) = {j.user : j \in w.todo} \cup {w.user}
    BY <1>1, HandsAt
  <1> QED BY <1>1, <1>2 DEF RunOK

\* The jobs of a claim: one per recipient who is due, of held rows that stay held.
LEMMA DigestJobsAre ==
  ASSUME TypeOK
  PROVE  /\ JobsOK(DigestJobs)
         /\ JobRows(DigestJobs) \subseteq Hold(UNION {HeldFor(u) : u \in Due})
         /\ UNION {HeldFor(u) : u \in Due} \subseteq In("held")
  <1>1. \A u : HeldFor(u) \subseteq In("held") /\ \A n \in HeldFor(u) : UserOf[n] = u
    BY DEF HeldFor
  <1>2. \A u : Hold(HeldFor(u)) \subseteq HeldFor(u)
    BY DEF Hold
  <1>3. \A j \in DigestJobs : \E u \in Due : j.user = u /\ j.rows = Hold(HeldFor(u)) /\ j.rows # {}
                                          /\ j = [user |-> u, rows |-> Hold(HeldFor(u))]
    BY DEF DigestJobs
  <1>4. JobsOK(DigestJobs)
    <2>1. ASSUME NEW j \in DigestJobs
          PROVE  /\ j.user \in User /\ j.rows \subseteq Notification /\ j.rows # {}
                 /\ \A n \in j.rows : UserOf[n] = j.user
      BY <1>1, <1>2, <1>3 DEF Due, In
    <2>2. ASSUME NEW j \in DigestJobs, NEW k \in DigestJobs, j.user = k.user PROVE j = k
      BY <1>3, <2>2
    <2> QED BY <2>1, <2>2 DEF JobsOK
  <1>5. \A u \in Due : Hold(HeldFor(u)) \subseteq Hold(UNION {HeldFor(v) : v \in Due})
    BY DEF Hold, Skip
  <1>6. JobRows(DigestJobs) \subseteq Hold(UNION {HeldFor(u) : u \in Due})
    BY <1>3, <1>5 DEF JobRows
  <1>7. UNION {HeldFor(u) : u \in Due} \subseteq In("held")
    BY <1>1
  <1> QED BY <1>4, <1>6, <1>7

\* A claim of digests takes held rows, and a day for each job it makes.
LEMMA ClaimDigestsStep ==
  ASSUME IInv, NEW r \in Run, ClaimDigests(r)
  PROVE  IInv'
  <1> DEFINE S == UNION {HeldFor(u) : u \in Due}
             w == AfterDigest(DigestJobs)
  <1>1. /\ run[r].at = "instant" /\ run[r].todo = {} /\ Goto(r, w)
        /\ state' = [n \in Notification |->
             CASE n \in Skip(S) -> "skipped" [] n \in Send(S) -> "pending"
               [] n \in Hold(S) -> "sending" [] OTHER -> state[n]]
        /\ dayClaimed' = [u \in User |-> dayClaimed[u] \/ \E j \in DigestJobs : j.user = u]
        /\ UNCHANGED <<attempts, read, fresh, mode, provider, mishaps, changes>>
    BY DEF ClaimDigests, AfterDigest
  <1>2. JobsOK(DigestJobs) /\ JobRows(DigestJobs) \subseteq Hold(S) /\ S \subseteq In("held")
    BY DigestJobsAre DEF IInv
  <1>3. S \subseteq Notification /\ \A n \in S : state[n] = "held"
    BY <1>2 DEF In
  <1>4. Send(S) \subseteq S /\ Hold(S) \subseteq S /\ Skip(S) \subseteq S
        /\ Skip(S) \cap Hold(S) = {} /\ Hold(S) \cap Send(S) = {}
    BY <1>3, Decided
  <1>5. RunOK(w) /\ HandsOf(w) = JobRows(DigestJobs) /\ UsersOf(w) = {j.user : j \in DigestJobs}
        /\ w.at \notin {"stamp", "stamp digest"}
    BY <1>2, AfterRun
  <1>6. \A n \in Notification : n \notin S => state'[n] = state[n]
    BY <1>1, <1>4
  <1>7. \A n \in Notification : n \in S => state'[n] \in {"skipped", "pending", "sending", "held"}
    BY <1>1, <1>3
  <1>8. \A n \in HandsOf(w) : state'[n] = "sending"
    BY <1>1, <1>2, <1>3, <1>4, <1>5
  <1>9. TypeOK'
    <2>1. state' \in [Notification -> States]
      BY <1>1 DEF TypeOK, IInv, States
    <2>2. dayClaimed' \in [User -> BOOLEAN]
      BY <1>1
    <2> QED BY <1>1, <2>1, <2>2 DEF TypeOK, IInv, provider
  <1>10. \A n \in Notification : state[n] \in Settled => state'[n] = state[n]
    BY <1>3, <1>6 DEF Settled
  <1>11. AttemptsOK'
    BY <1>1, <1>10, KeepsAttempts DEF IInv, Settled
  <1>12. \A n : ~Vouched(r, n)
    BY <1>1, AtWork
  <1>13. \A n \in Notification : state'[n] = "sent" => state[n] = "sent"
    BY <1>6, <1>7
  <1>14. \A s \in Run \ {r} : \A n \in Hands(s) : state'[n] = "sending" /\ n \notin HandsOf(w)
    <2>1. \A s \in Run \ {r} : \A n \in Hands(s) : n \in Notification /\ state[n] = "sending"
      BY OthersHands
    <2>2. HandsOf(w) \subseteq S
      BY <1>2, <1>4, <1>5
    <2> QED BY <1>3, <1>6, <2>1, <2>2
  <1>15. UsersOf(run[r]) = {}
    BY <1>1, HandsAt
  <1>16. \A u \in User : dayClaimed'[u] => dayClaimed[u] \/ u \in UsersOf(w)
    BY <1>1, <1>5
  <1> HIDE DEF S, w
  <1> QED BY <1>1, <1>5, <1>8, <1>9, <1>10, <1>11, <1>12, <1>13, <1>14, <1>15, <1>16, QuietStep

\* A digest sent keeps its day; a failed one is about to give it back.
LEMMA StampDigestStep ==
  ASSUME IInv, NEW r \in Run, StampDigest(r)
  PROVE  IInv'
  <1>1. /\ run[r].at = "stamp digest"
        /\ UNCHANGED <<read, fresh, mode, dayClaimed, provider, mishaps, changes>>
    BY DEF StampDigest
  <1>2. /\ JobsOK(run[r].todo) /\ run[r].user \in User /\ run[r].now \subseteq Notification
        /\ \A n \in run[r].now : UserOf[n] = run[r].user
        /\ \A j \in run[r].todo : j.user # run[r].user
    BY <1>1, IdleRun DEF IInv, RunsOK, RunOK
  <1>3. JobRows(run[r].todo) \cap run[r].now = {}
    BY <1>2 DEF JobsOK, JobRows
  <1>4. Hands(r) = JobRows(run[r].todo) \cup run[r].now
        /\ UsersOf(run[r]) = {j.user : j \in run[r].todo} \cup {run[r].user}
    BY <1>1, HandsAre, HandsAt
  <1>5. \A n \in Hands(r) : n \in Notification /\ state[n] = "sending"
    BY DEF IInv, ClaimsAreExclusive, In
  <1>6. Sending(run[r].now) = run[r].now
    BY <1>4, <1>5 DEF Sending, In
  <1>9. \A s \in Run \ {r} : \A n \in Hands(s) :
          n \in Notification /\ state[n] = "sending" /\ n \notin Hands(r)
    BY OthersHands
  <1>7. CASE run[r].ok
    <2> DEFINE w == AfterDigest(run[r].todo)
    <2>1. Mark(run[r].now, "sent") /\ UNCHANGED attempts /\ Goto(r, w)
      BY <1>6, <1>7 DEF StampDigest
    <2>2. RunOK(w) /\ HandsOf(w) = JobRows(run[r].todo)
          /\ UsersOf(w) = {j.user : j \in run[r].todo} /\ w.at \notin {"stamp", "stamp digest"}
      BY <1>2, AfterRun
    <2> HIDE DEF w
    <2>3. /\ state' \in [Notification -> States]
          /\ \A n \in Notification : state'[n] = IF n \in run[r].now THEN "sent" ELSE state[n]
      BY <2>1, Marked DEF States, IInv
    <2>4. TypeOK'
      BY <1>1, <2>1, <2>3 DEF TypeOK, IInv, provider
    <2>5. \A n \in Notification : state[n] \in Settled => state'[n] = state[n]
      BY <1>4, <1>5, <2>3 DEF Settled
    <2>6. \A n \in Notification : state'[n] # "failed" => state[n] # "failed"
      BY <2>5 DEF Settled
    <2>7. AttemptsOK'
      BY <2>1, <2>6, KeepsAttempts DEF IInv
    <2>8. \A n \in Notification : Vouched(r, n) => state'[n] \in Settled
      BY <2>3 DEF Vouched, Settled
    <2>9. \A n \in Notification : state'[n] = "sent" => state[n] = "sent" \/ Vouched(r, n)
      BY <1>1, <1>7, <2>3 DEF Vouched
    <2>10. \A n \in HandsOf(w) : state'[n] = "sending"
      BY <1>3, <1>4, <1>5, <2>2, <2>3
    <2>11. \A s \in Run \ {r} : \A n \in Hands(s) : state'[n] = "sending" /\ n \notin HandsOf(w)
      BY <1>4, <1>9, <2>2, <2>3
    <2>12. run[r].user \in digested
      BY <1>1, <1>7 DEF IInv, SendsOK
    <2>13. \A u \in UsersOf(run[r]) : u \in UsersOf(w) \/ u \in digested
      BY <1>4, <2>2, <2>12
    <2> QED BY <1>1, <2>1, <2>2, <2>4, <2>5, <2>7, <2>8, <2>9, <2>10, <2>11, <2>13, QuietStep
  <1>8. CASE ~run[r].ok
    <2> DEFINE w == [at |-> "unclaim day", user |-> run[r].user, todo |-> run[r].todo,
                     now |-> {}, next |-> "digests"]
    <2>1. RecordFailure(run[r].now, "held") /\ Goto(r, w)
      BY <1>8 DEF StampDigest
    <2>2. RunOK(w) /\ HandsOf(w) = JobRows(run[r].todo)
          /\ UsersOf(w) = {j.user : j \in run[r].todo} \cup {run[r].user}
          /\ w.at \notin {"stamp", "stamp digest"}
      BY <1>2, UnclaimRun
    <2> HIDE DEF w
    <2>3. /\ attempts' \in [Notification -> 0 .. MaxAttempts]
          /\ state' \in [Notification -> States] /\ AttemptsOK'
          /\ \A n \in Notification :
               /\ n \notin run[r].now => state'[n] = state[n]
               /\ n \in run[r].now => state'[n] \in {"failed", "held"}
      BY <1>6, <2>1, FailureRecorded DEF IInv
    <2>4. TypeOK'
      BY <1>1, <2>3 DEF TypeOK, IInv, provider
    <2>5. \A n \in Notification : state[n] \in Settled => state'[n] = state[n]
      BY <1>4, <1>5, <2>3 DEF Settled
    <2>8. \A n : ~Vouched(r, n)
      BY <1>8 DEF Vouched
    <2>9. \A n \in Notification : state'[n] = "sent" => state[n] = "sent"
      BY <2>3
    <2>10. \A n \in HandsOf(w) : state'[n] = "sending"
      BY <1>3, <1>4, <1>5, <2>2, <2>3
    <2>11. \A s \in Run \ {r} : \A n \in Hands(s) : state'[n] = "sending" /\ n \notin HandsOf(w)
      BY <1>4, <1>9, <2>2, <2>3
    <2>13. UsersOf(run[r]) = UsersOf(w)
      BY <1>4, <2>2
    <2> QED BY <1>1, <2>1, <2>2, <2>3, <2>4, <2>5, <2>8, <2>9, <2>10, <2>11, <2>13, QuietStep
  <1> QED BY <1>7, <1>8

\* From sending digests to giving them back: the same rows in hand.
LEMMA ReleaseDigestsStep ==
  ASSUME IInv, NEW r \in Run, ReleaseDigests(r)
  PROVE  IInv'
  <1> DEFINE w == [at |-> "release", todo |-> run[r].todo, now |-> {}]
  <1>1. run[r].at = "digests" /\ UNCHANGED <<rowVars, mode, dayClaimed, provider, mishaps, changes>>
    BY DEF ReleaseDigests
  <1>2. JobsOK(run[r].todo) /\ run[r] = [at |-> run[r].at, todo |-> run[r].todo, now |-> {}]
    BY <1>1, IdleRun DEF IInv, RunsOK, RunOK
  <1>3. [run[r] EXCEPT !.at = "release"] = w
    BY <1>2
  <1>4. Goto(r, w)
    BY <1>3 DEF ReleaseDigests
  <1>5. /\ RunOK(w) /\ HandsOf(w) = JobRows(run[r].todo) /\ UsersOf(w) = {j.user : j \in run[r].todo}
        /\ w.at \notin {"stamp", "stamp digest"}
    BY <1>2, DigestsRun
  <1> HIDE DEF w
  <1>6. Hands(r) = JobRows(run[r].todo) \cup run[r].now /\ UsersOf(run[r]) = UsersOf(w)
    BY <1>1, <1>5, HandsAre, HandsAt
  <1>7. state' = state /\ attempts' = attempts /\ dayClaimed' = dayClaimed
        /\ UNCHANGED <<read, fresh, mode, provider, mishaps>>
    BY <1>1 DEF rowVars
  <1>8. TypeOK' /\ AttemptsOK'
    BY <1>7 DEF TypeOK, AttemptsOK, IInv, provider
  <1>9. \A n : ~Vouched(r, n)
    BY <1>1, AtWork
  <1>10. \A n \in HandsOf(w) : state'[n] = "sending"
    BY <1>5, <1>6, <1>7 DEF IInv, ClaimsAreExclusive, In
  <1>11. \A s \in Run \ {r} : \A n \in Hands(s) : state'[n] = "sending" /\ n \notin HandsOf(w)
    BY <1>5, <1>6, <1>7, OthersHands
  <1> QED BY <1>4, <1>5, <1>6, <1>7, <1>8, <1>9, <1>10, <1>11, QuietStep

\* One digest given back: its rows are held again, its day is about to be free.
LEMMA ReleaseDigestStep ==
  ASSUME IInv, NEW r \in Run, ReleaseDigest(r)
  PROVE  IInv'
  <1>1. run[r].at = "release"
        /\ UNCHANGED <<attempts, read, fresh, mode, dayClaimed, provider, mishaps, changes>>
    BY DEF ReleaseDigest
  <1>2. PICK j \in run[r].todo :
          /\ Mark(Sending(j.rows), "held")
          /\ Goto(r, [at |-> "unclaim day", user |-> j.user, todo |-> run[r].todo \ {j},
                      now |-> {}, next |-> "release"])
    BY DEF ReleaseDigest
  <1> DEFINE J == run[r].todo \ {j}
             w == [at |-> "unclaim day", user |-> j.user, todo |-> J, now |-> {}, next |-> "release"]
  <1>3. JobsOK(run[r].todo)
    BY <1>1, IdleRun DEF IInv, RunsOK, RunOK
  <1>4. /\ JobsOK(J) /\ j.rows \cap JobRows(J) = {} /\ JobRows(run[r].todo) = j.rows \cup JobRows(J)
        /\ j.user \in User /\ {k.user : k \in run[r].todo} = {k.user : k \in J} \cup {j.user}
    BY <1>3, JobsApart
  <1>5. RunOK(w) /\ HandsOf(w) = JobRows(J) /\ UsersOf(w) = {k.user : k \in J} \cup {j.user}
        /\ w.at \notin {"stamp", "stamp digest"}
    BY <1>4, UnclaimRun
  <1>6. Goto(r, w)
    BY <1>2
  <1> HIDE DEF w, J
  <1>7. Hands(r) = JobRows(run[r].todo) \cup run[r].now /\ UsersOf(run[r]) = UsersOf(w)
    BY <1>1, <1>4, <1>5, HandsAre, HandsAt
  <1>8. \A n \in Hands(r) : n \in Notification /\ state[n] = "sending"
    BY DEF IInv, ClaimsAreExclusive, In
  <1>9. Sending(j.rows) = j.rows
    BY <1>4, <1>7, <1>8 DEF Sending, In
  <1>10. /\ state' \in [Notification -> States]
         /\ \A n \in Notification : state'[n] = IF n \in j.rows THEN "held" ELSE state[n]
    <2>1. Mark(j.rows, "held")
      BY <1>2, <1>9
    <2> QED BY <2>1, Marked DEF States, IInv
  <1>11. TypeOK'
    BY <1>1, <1>10 DEF TypeOK, IInv, provider
  <1>12. \A n \in Notification : state[n] \in Settled => state'[n] = state[n]
    BY <1>4, <1>7, <1>8, <1>10 DEF Settled
  <1>13. AttemptsOK'
    BY <1>1, <1>12, KeepsAttempts DEF IInv, Settled
  <1>14. \A n : ~Vouched(r, n)
    BY <1>1, AtWork
  <1>15. \A n \in HandsOf(w) : state'[n] = "sending"
    BY <1>4, <1>5, <1>7, <1>8, <1>10
  <1>16. \A s \in Run \ {r} : \A n \in Hands(s) : state'[n] = "sending" /\ n \notin HandsOf(w)
    BY <1>4, <1>5, <1>7, <1>10, OthersHands
  <1>17. \A n \in Notification : state'[n] = "sent" => state[n] = "sent"
    BY <1>10
  <1> QED BY <1>1, <1>5, <1>6, <1>7, <1>11, <1>12, <1>13, <1>14, <1>15, <1>16, <1>17, QuietStep

\* The day given back is that of the recipient the run just let go.
LEMMA UnclaimDayStep ==
  ASSUME IInv, NEW r \in Run, UnclaimDay(r)
  PROVE  IInv'
  <1> DEFINE w == IF run[r].next = "digests" THEN AfterDigest(run[r].todo)
                  ELSE AfterRelease(run[r].todo)
  <1>1. /\ run[r].at = "unclaim day" /\ Goto(r, w)
        /\ dayClaimed' = [dayClaimed EXCEPT ![run[r].user] = FALSE]
        /\ UNCHANGED <<rowVars, mode, provider, mishaps, changes>>
    BY DEF UnclaimDay
  <1>2. JobsOK(run[r].todo) /\ run[r].user \in User /\ run[r].now = {}
    BY <1>1, IdleRun DEF IInv, RunsOK, RunOK
  <1>3. w \in {AfterDigest(run[r].todo), AfterRelease(run[r].todo)}
    OBVIOUS
  <1> HIDE DEF w
  <1>4. RunOK(w) /\ HandsOf(w) = JobRows(run[r].todo)
        /\ UsersOf(w) = {j.user : j \in run[r].todo} /\ w.at \notin {"stamp", "stamp digest"}
    BY <1>2, <1>3, AfterRun
  <1>5. Hands(r) = JobRows(run[r].todo) \cup run[r].now
        /\ UsersOf(run[r]) = UsersOf(w) \cup {run[r].user}
    BY <1>1, <1>4, HandsAre, HandsAt
  <1>6. state' = state /\ attempts' = attempts /\ UNCHANGED <<read, fresh, mode, provider, mishaps>>
    BY <1>1 DEF rowVars
  <1>7. dayClaimed' = [u \in User |-> IF u = run[r].user THEN FALSE ELSE dayClaimed[u]]
    BY <1>1 DEF IInv, TypeOK
  <1>8. dayClaimed' \in [User -> BOOLEAN]
    BY <1>7 DEF IInv, TypeOK
  <1>9. TypeOK' /\ AttemptsOK'
    BY <1>6, <1>8 DEF TypeOK, AttemptsOK, IInv, provider
  <1>10. \A n : ~Vouched(r, n)
    BY <1>1, AtWork
  <1>11. \A n \in HandsOf(w) : state'[n] = "sending"
    BY <1>4, <1>5, <1>6 DEF IInv, ClaimsAreExclusive, In
  <1>12. \A s \in Run \ {r} : \A n \in Hands(s) : state'[n] = "sending" /\ n \notin HandsOf(w)
    BY <1>4, <1>5, <1>6, OthersHands
  <1>13. \A u \in User : dayClaimed'[u] => dayClaimed[u]
    BY <1>7
  <1>14. \A u \in UsersOf(run[r]) : u \in UsersOf(w) \/ ~dayClaimed'[u]
    BY <1>2, <1>5, <1>7
  <1> QED BY <1>1, <1>4, <1>6, <1>9, <1>10, <1>11, <1>12, <1>13, <1>14, QuietStep

\* The oldest row in hand is mailed.
LEMMA SendInstantStep ==
  ASSUME IInv, NEW r \in Run, SendInstant(r)
  PROVE  IInv'
  <1>1. /\ run[r].at = "instant" /\ run[r].todo # {}
        /\ UNCHANGED <<rowVars, mode, dayClaimed, abandoned, deaths, changes>>
    BY DEF SendInstant
  <1>2. run[r].todo \subseteq Notification /\ run[r].now = {}
    BY <1>1, IdleRun DEF IInv, RunsOK, RunOK
  <1>3. PICK n \in run[r].todo, ok \in BOOLEAN :
          /\ SendEmail([digest |-> FALSE, rows |-> {n}], ok)
          /\ Goto(r, [at |-> "stamp", todo |-> run[r].todo \ {n}, now |-> {n}, ok |-> ok])
    <2>1. run[r].todo \subseteq Nat
      BY <1>2, NotificationEmailAssumption
    <2>2. Min(run[r].todo) \in run[r].todo
      BY <1>1, <2>1, MinIn
    <2> QED BY <2>2 DEF SendInstant
  <1> DEFINE k == [digest |-> FALSE, rows |-> {n}]
             w == [at |-> "stamp", todo |-> run[r].todo \ {n}, now |-> {n}, ok |-> ok]
  <1>4. /\ k.digest \in BOOLEAN /\ k.rows = {n}
        /\ w.at = "stamp" /\ w.todo = run[r].todo \ {n} /\ w.now = {n} /\ w.ok = ok
    OBVIOUS
  <1>5. SendEmail(k, ok) /\ Goto(r, w)
    BY <1>3
  <1> HIDE DEF k, w
  <1>6. RunOK(w)
    <2>1. w.ok \in BOOLEAN
      BY <1>4
    <2> QED BY <1>2, <1>4, <2>1 DEF RunOK
  <1>7. HandsOf(w) = run[r].todo /\ UsersOf(w) = {}
    <2>1. HandsOf(w) = w.todo \cup w.now /\ UsersOf(w) = {}
      BY <1>4, HandsAt
    <2> QED BY <1>4, <2>1
  <1>8. Hands(r) = run[r].todo /\ UsersOf(run[r]) = {}
    <2>1. HandsOf(run[r]) = run[r].todo \cup run[r].now /\ UsersOf(run[r]) = {}
      BY <1>1, HandsAt
    <2> QED BY <1>2, <2>1, HandsAre
  <1>9. w.at \in {"stamp", "stamp digest"} /\ w.at # "stamp digest"
        /\ run[r].at \notin {"stamp", "stamp digest"}
    BY <1>1, <1>4
  <1>10. w.now = k.rows /\ k.rows \subseteq Hands(r) /\ HandsOf(w) \subseteq Hands(r)
         /\ UsersOf(run[r]) \subseteq UsersOf(w)
    BY <1>4, <1>7, <1>8
  <1>11. UNCHANGED <<rowVars, mode, dayClaimed, abandoned, deaths>>
    BY <1>1
  <1>12. w.ok <=> ok
    BY <1>4
  <1> QED BY <1>4, <1>5, <1>6, <1>9, <1>10, <1>11, <1>12, SendStep, Zenon

\* All rows of one job are mailed together.
LEMMA SendDigestStep ==
  ASSUME IInv, NEW r \in Run, SendDigest(r)
  PROVE  IInv'
  <1>1. run[r].at = "digests" /\ UNCHANGED <<rowVars, mode, dayClaimed, abandoned, deaths, changes>>
    BY DEF SendDigest
  <1>2. PICK j \in run[r].todo, ok \in BOOLEAN :
          /\ SendEmail([digest |-> TRUE, rows |-> j.rows], ok)
          /\ Goto(r, [at |-> "stamp digest", todo |-> run[r].todo \ {j},
                      now |-> j.rows, user |-> j.user, ok |-> ok])
    BY DEF SendDigest
  <1> DEFINE J == run[r].todo \ {j}
             k == [digest |-> TRUE, rows |-> j.rows]
             w == [at |-> "stamp digest", todo |-> J, now |-> j.rows, user |-> j.user, ok |-> ok]
  <1>3. JobsOK(run[r].todo)
    BY <1>1, IdleRun DEF IInv, RunsOK, RunOK
  <1>4. /\ JobsOK(J) /\ JobRows(run[r].todo) = j.rows \cup JobRows(J)
        /\ j.rows \subseteq Notification /\ j.rows # {} /\ j.user \in User
        /\ \A n \in j.rows : UserOf[n] = j.user
        /\ \A i \in J : i.user # j.user
        /\ {i.user : i \in run[r].todo} = {i.user : i \in J} \cup {j.user}
    BY <1>3, JobsApart
  <1>5. /\ k.digest = TRUE /\ k.rows = j.rows
        /\ w.at = "stamp digest" /\ w.todo = J /\ w.now = j.rows /\ w.user = j.user /\ w.ok = ok
    OBVIOUS
  <1>6. SendEmail(k, ok) /\ Goto(r, w)
    BY <1>2
  <1> HIDE DEF k, w, J
  <1>7. RunOK(w)
    <2>1. w.ok \in BOOLEAN
      BY <1>5
    <2> QED BY <1>4, <1>5, <2>1 DEF RunOK
  <1>8. HandsOf(w) = JobRows(J) \cup j.rows /\ UsersOf(w) = {i.user : i \in J} \cup {j.user}
    BY <1>5, HandsAt
  <1>9. Hands(r) = JobRows(run[r].todo) \cup run[r].now
        /\ UsersOf(run[r]) = {i.user : i \in run[r].todo}
    BY <1>1, HandsAre, HandsAt
  <1>10. w.at \in {"stamp", "stamp digest"} /\ run[r].at \notin {"stamp", "stamp digest"}
    BY <1>1, <1>5
  <1>11. w.now = k.rows /\ k.rows \subseteq Hands(r) /\ HandsOf(w) \subseteq Hands(r)
         /\ UsersOf(run[r]) \subseteq UsersOf(w)
    BY <1>4, <1>5, <1>8, <1>9
  <1>12. \E n \in k.rows : UserOf[n] = w.user
    BY <1>4, <1>5
  <1>13. k.digest /\ k.digest \in BOOLEAN
    BY <1>5
  <1>14. w.ok <=> ok
    BY <1>5
  <1>15. UNCHANGED <<rowVars, mode, dayClaimed, abandoned, deaths>>
    BY <1>1
  <1> QED BY <1>6, <1>7, <1>10, <1>11, <1>12, <1>13, <1>14, <1>15, SendStep, Zenon

\* A run that dies leaves its claims and its recipients' days behind.
LEMMA RunDiesStep ==
  ASSUME IInv, NEW r \in Run, RunDies(r)
  PROVE  IInv'
  <1> USE DEF IInv
  <1>1. /\ Goto(r, Idle) /\ abandoned' = abandoned \cup DigestUsers(r) /\ deaths' = deaths + 1
        /\ UNCHANGED <<rowVars, mode, dayClaimed, provider, lost>>
    BY DEF RunDies
  <1>2. RunsOK' /\ run'[r] = Idle /\ \A s \in Run \ {r} : run'[s] = run[s]
    BY <1>1, IdleRun, Moved
  <1>3. state' = state /\ attempts' = attempts /\ delivered' = delivered /\ digested' = digested
        /\ keys' = keys /\ lost' = lost /\ dayClaimed' = dayClaimed
        /\ UNCHANGED <<read, fresh, mode>>
    BY <1>1 DEF rowVars, provider
  <1>4. TypeOK' /\ AttemptsOK'
    BY <1>3 DEF TypeOK, AttemptsOK
  <1>5. ClaimsAreExclusive'
    <2>1. \A s \in Run \ {r} : \A n \in Hands(s) : state'[n] = "sending"
      BY <1>3, OthersHands
    <2> QED BY <1>1, <2>1, IdleRun, KeepsExclusive
  <1>6. \A n : ~Vouched(r, n)' /\ \A s \in Run \ {r} : Vouched(s, n)' <=> Vouched(s, n)
    BY <1>2, IdleRun DEF Vouched
  <1>7. SendsOK'
    <2>1. \A s \in Run : \A n \in Notification : Vouched(s, n)' => delivered'[n] > 0
      BY <1>3, <1>6 DEF SendsOK
    <2>2. ASSUME NEW s \in Run, run'[s].at = "stamp digest", run'[s].ok
          PROVE  run'[s].user \in digested'
      <3>1. s # r
        BY <1>2, <2>2, IdleRun
      <3> QED BY <1>2, <1>3, <2>2, <3>1 DEF SendsOK
    <2> QED BY <1>3, <2>1, <2>2 DEF SendsOK
  <1>8. SentMeansDelivered'
    BY <1>3 DEF SentMeansDelivered, In
  <1>9. deaths \in Nat /\ lost \in Nat /\ \A n \in Notification : delivered[n] \in Nat
    BY DEF OpenRowsOK, TypeOK
  <1>10. \A n \in Notification : delivered[n] <= 1 + deaths + lost
    BY DEF DuplicatesNeedMishaps
  <1>11. \A n \in Notification : delivered[n] <= (deaths + 1) + lost
                                /\ delivered[n] <= 1 + (deaths + 1) + lost
    BY <1>9, <1>10
  <1>12. DuplicatesNeedMishaps'
    BY <1>1, <1>3, <1>11 DEF DuplicatesNeedMishaps
  <1>13. OpenRowsOK'
    BY <1>1, <1>3, <1>9, <1>11 DEF OpenRowsOK
  <1>14. DayClaimIsEarned'
    BY <1>1, <1>2, <1>3, EarnedIs, HandsAre
  <1> QED BY <1>2, <1>4, <1>5, <1>7, <1>8, <1>12, <1>13, <1>14

-----------------------------------------------------------------------------
(* The steps of everybody else *)

\* Nobody outside the runs touches a claimed row or settles one.
LEMMA OutsideStep ==
  ASSUME IInv, UNCHANGED <<run, delivered, deaths, lost>>, TypeOK', AttemptsOK', keys' \subseteq keys,
         \A n \in Notification : state[n] \in Settled \cup {"sending"} => state'[n] = state[n],
         \A n \in Notification : state'[n] = "sent" => state[n] = "sent",
         \A s \in Run : run[s].at = "stamp digest" => digested' = digested,
         DayClaimIsEarned'
  PROVE  IInv'
  <1> USE DEF IInv
  <1>1. run' = run /\ delivered' = delivered /\ deaths' = deaths /\ lost' = lost
    OBVIOUS
  <1>2. RunsOK'
    BY <1>1 DEF RunsOK
  <1>3. \A s \in Run : Hands(s)' = Hands(s)
    BY <1>1, HandsAre
  <1>4. \A s, n : Vouched(s, n)' <=> Vouched(s, n)
    BY <1>1 DEF Vouched
  <1>5. In("sending") \subseteq In("sending")'
    BY DEF In
  <1>6. ClaimsAreExclusive'
    BY <1>3, <1>5 DEF ClaimsAreExclusive
  <1>7. SendsOK'
    <2>1. \A s \in Run : \A n \in Notification : Vouched(s, n)' => delivered'[n] > 0
      BY <1>1, <1>4 DEF SendsOK
    <2>2. \A s \in Run : run'[s].at = "stamp digest" /\ run'[s].ok => run'[s].user \in digested'
      BY <1>1 DEF SendsOK
    <2>3. \A k \in keys' : \A n \in Notification : n \in k.rows => delivered'[n] > 0
      BY <1>1 DEF SendsOK
    <2> QED BY <2>1, <2>2, <2>3 DEF SendsOK
  <1>8. SentMeansDelivered'
    BY <1>1 DEF SentMeansDelivered, In
  <1>9. OpenRowsOK'
    BY <1>1, <1>4 DEF OpenRowsOK
  <1>10. DuplicatesNeedMishaps'
    BY <1>1 DEF DuplicatesNeedMishaps
  <1> QED BY <1>2, <1>6, <1>7, <1>8, <1>9, <1>10

\* The days stay earned while nothing they rest on changes.
LEMMA DaysKept ==
  ASSUME DayClaimIsEarned, UNCHANGED <<run, dayClaimed, digested, abandoned>>
  PROVE  DayClaimIsEarned'
  BY EarnedIs

\* A new row is in no hands.
LEMMA CreateNotificationStep ==
  ASSUME IInv, NEW n \in Notification, CreateNotification(n)
  PROVE  IInv'
  <1>1. /\ state[n] = "none" /\ state' = [state EXCEPT ![n] = "pending"]
        /\ fresh' = [fresh EXCEPT ![n] = TRUE]
        /\ UNCHANGED <<attempts, read, mode, dayClaimed, run, provider, mishaps, changes>>
    BY DEF CreateNotification
  <1>2. UNCHANGED <<run, delivered, deaths, lost, keys, digested, abandoned, dayClaimed>>
    BY <1>1 DEF provider, mishaps
  <1>3. \A q \in Notification : state'[q] = IF q = n THEN "pending" ELSE state[q]
    BY <1>1 DEF IInv, TypeOK
  <1>4. TypeOK'
    BY <1>1, <1>2 DEF TypeOK, IInv, States
  <1>5. \A q \in Notification : state[q] \in Settled \cup {"sending"} => state'[q] = state[q]
    BY <1>1, <1>3 DEF Settled
  <1>6. AttemptsOK'
    BY <1>1, <1>3, KeepsAttempts DEF IInv
  <1>7. DayClaimIsEarned'
    BY <1>2, DaysKept DEF IInv
  <1>8. \A q \in Notification : state'[q] = "sent" => state[q] = "sent"
    BY <1>3
  <1> QED BY <1>2, <1>4, <1>5, <1>6, <1>7, <1>8, OutsideStep

\* Reading a notice changes none of the facts the worker relies on.
LEMMA MarkReadStep ==
  ASSUME IInv, NEW n \in Notification, MarkNotificationRead(n)
  PROVE  IInv'
  <1>1. /\ read' = [read EXCEPT ![n] = TRUE]
        /\ UNCHANGED <<state, attempts, fresh, mode, dayClaimed, run, provider, mishaps, changes>>
    BY DEF MarkNotificationRead
  <1>2. UNCHANGED <<run, delivered, deaths, lost, keys, digested, abandoned, dayClaimed, state>>
    BY <1>1 DEF provider, mishaps
  <1>3. TypeOK'
    BY <1>1, <1>2 DEF TypeOK, IInv
  <1>4. AttemptsOK'
    BY <1>1 DEF AttemptsOK, IInv
  <1>5. DayClaimIsEarned'
    BY <1>2, DaysKept DEF IInv
  <1> QED BY <1>2, <1>3, <1>4, <1>5, OutsideStep

\* A mode change touches held rows only.
LEMMA SetModeStep ==
  ASSUME IInv, NEW u \in User, NEW m \in Modes, SetNotificationEmailMode(u, m)
  PROVE  IInv'
  <1>1. /\ mode' = [mode EXCEPT ![u] = m]
        /\ UNCHANGED <<attempts, read, fresh, dayClaimed, run, provider, mishaps>>
    BY DEF SetNotificationEmailMode
  <1>2. UNCHANGED <<run, delivered, deaths, lost, keys, digested, abandoned, dayClaimed>>
    BY <1>1 DEF provider, mishaps
  <1>3. /\ state' \in [Notification -> States]
        /\ \A n \in Notification : state'[n] = state[n] \/ (state[n] = "held" /\ state'[n] = "pending")
    <2>1. CASE m = "digest"
      <3>1. state' = state
        BY <2>1 DEF SetNotificationEmailMode
      <3>2. state' \in [Notification -> States]
        BY <3>1 DEF IInv, TypeOK
      <3> QED BY <3>1, <3>2, Zenon
    <2>2. CASE m # "digest"
      <3> DEFINE S == {n \in In("held") : UserOf[n] = u}
      <3>1. Mark(S, "pending")
        BY <2>2 DEF SetNotificationEmailMode
      <3>2. \A n \in S : state[n] = "held"
        BY DEF In
      <3> HIDE DEF S
      <3>3. /\ state' \in [Notification -> States]
            /\ \A n \in Notification : state'[n] = IF n \in S THEN "pending" ELSE state[n]
        BY <3>1, Marked DEF States, IInv
      <3>4. \A n \in Notification : state'[n] = state[n] \/ (state[n] = "held" /\ state'[n] = "pending")
        BY <3>2, <3>3
      <3> QED BY <3>3, <3>4, Zenon
    <2> QED BY <2>1, <2>2
  <1>4. TypeOK'
    BY <1>1, <1>2, <1>3 DEF TypeOK, IInv
  <1>5. \A n \in Notification : state[n] \in Settled \cup {"sending"} => state'[n] = state[n]
    BY <1>3 DEF Settled
  <1>6. \A n \in Notification : /\ state'[n] = "sent" => state[n] = "sent"
                                /\ state'[n] # "failed" => state[n] # "failed"
    BY <1>3
  <1>7. AttemptsOK'
    BY <1>1, <1>6, KeepsAttempts DEF IInv
  <1>8. DayClaimIsEarned'
    BY <1>2, DaysKept DEF IInv
  <1> QED BY <1>2, <1>4, <1>5, <1>6, <1>7, <1>8, OutsideStep

\* A new day finds no digest in hand.
LEMMA NewDayStep ==
  ASSUME IInv, NewDay
  PROVE  IInv'
  <1>1. /\ \A r \in Run : run[r].at \in {"idle", "instant", "stamp"}
        /\ fresh' = [n \in Notification |-> FALSE] /\ dayClaimed' = [u \in User |-> FALSE]
        /\ keys' = {k \in keys : ~k.digest}
        /\ UNCHANGED <<state, attempts, read, mode, run, delivered, deaths, lost>>
    BY DEF NewDay
  <1>2. TypeOK'
    BY <1>1 DEF TypeOK, IInv
  <1>3. AttemptsOK'
    BY <1>1 DEF AttemptsOK, IInv
  <1>4. DayClaimIsEarned'
    BY <1>1, EarnedIs
  <1>5. keys' \subseteq keys /\ \A s \in Run : run[s].at # "stamp digest"
    BY <1>1
  <1> QED BY <1>1, <1>2, <1>3, <1>4, <1>5, OutsideStep

-----------------------------------------------------------------------------
(* The theorems *)

\* The worker starts with empty hands.
LEMMA Initially == Init => IInv
  <1> SUFFICES ASSUME Init PROVE IInv
    OBVIOUS
  <1>1. /\ state = [n \in Notification |-> "none"] /\ attempts = [n \in Notification |-> 0]
        /\ read = [n \in Notification |-> FALSE] /\ fresh = read /\ mode \in [User -> Modes]
        /\ dayClaimed = [u \in User |-> FALSE] /\ run = [r \in Run |-> Idle]
        /\ keys = {} /\ delivered = attempts /\ digested = {} /\ abandoned = {}
        /\ deaths = 0 /\ lost = 0
    BY DEF Init
  <1>2. MaxAttempts \in Nat \ {0}
    BY NotificationEmailAssumption
  <1>3. TypeOK /\ AttemptsOK
    BY <1>1, <1>2 DEF TypeOK, AttemptsOK, States
  <1>4. DOMAIN run = Run /\ \A r \in Run : run[r] = Idle
    BY <1>1
  <1>5. RunsOK
    BY <1>4, IdleRun DEF RunsOK
  <1>6. \A r \in Run : Hands(r) = {}
    BY <1>4, IdleRun, HandsAre
  <1>7. ClaimsAreExclusive
    BY <1>6 DEF ClaimsAreExclusive
  <1>8. \A r \in Run : run[r].at = "idle"
    BY <1>4, IdleRun
  <1>9. SendsOK
    BY <1>1, <1>8 DEF SendsOK, Vouched
  <1>10. SentMeansDelivered
    BY <1>1 DEF SentMeansDelivered, In
  <1>11. OpenRowsOK /\ DuplicatesNeedMishaps
    BY <1>1 DEF OpenRowsOK, DuplicatesNeedMishaps
  <1>12. DayClaimIsEarned
    BY <1>1, EarnedIs
  <1> QED BY <1>3, <1>5, <1>7, <1>9, <1>10, <1>11, <1>12 DEF IInv

\* Every step keeps the invariant.
LEMMA Inductive == IInv /\ [Next]_vars => IInv'
  <1> SUFFICES ASSUME IInv, [Next]_vars PROVE IInv'
    OBVIOUS
  <1>1. ASSUME NEW n \in Notification, CreateNotification(n) PROVE IInv'
    BY <1>1, CreateNotificationStep
  <1>2. ASSUME NEW n \in Notification, MarkNotificationRead(n) PROVE IInv'
    BY <1>2, MarkReadStep
  <1>3. ASSUME NEW u \in User, NEW m \in Modes, SetNotificationEmailMode(u, m) PROVE IInv'
    BY <1>3, SetModeStep
  <1>4. CASE NewDay
    BY <1>4, NewDayStep
  <1>5. ASSUME NEW r \in Run, NEW S \in SUBSET Orphans, ClaimInstant(r, S) PROVE IInv'
    BY <1>5, ClaimInstantStep
  <1>6. ASSUME NEW r \in Run, RunStep(r) PROVE IInv'
    BY <1>6, SendInstantStep, StampInstantStep, ReleaseInstantStep, ClaimDigestsStep,
       SendDigestStep, StampDigestStep, ReleaseDigestsStep, ReleaseDigestStep,
       UnclaimDayStep, RunDiesStep DEF RunStep
  <1>7. CASE UNCHANGED vars
    <2>1. UNCHANGED <<state, attempts, read, fresh, mode, dayClaimed, run, keys, delivered,
                      digested, abandoned, deaths, lost>>
      BY <1>7 DEF vars, rowVars, provider, mishaps
    <2>2. TypeOK' /\ AttemptsOK'
      BY <2>1 DEF TypeOK, AttemptsOK, IInv
    <2>3. DayClaimIsEarned'
      BY <2>1, DaysKept DEF IInv
    <2> QED BY <2>1, <2>2, <2>3, OutsideStep
  <1> QED BY <1>1, <1>2, <1>3, <1>4, <1>5, <1>6, <1>7 DEF Next

\* The invariant the properties of the worker follow from.
THEOREM Invariance == Spec => []IInv
  BY Initially, Inductive, PTL DEF Spec

\* Rows keep their types, and no row is tried more often than
\* NOTIFICATION_EMAIL_MAX_ATTEMPTS allows.
THEOREM TypeCorrect == Spec => []TypeOK
  <1>1. IInv => TypeOK
    BY DEF IInv
  <1> QED BY <1>1, Invariance, PTL

\* No row is in two runs' hands, and none in hand is decided on again, however
\* many runs overlap, die and are taken over.
THEOREM ClaimsHold == Spec => []ClaimsAreExclusive
  <1>1. IInv => ClaimsAreExclusive
    BY DEF IInv
  <1> QED BY <1>1, Invariance, PTL

\* A row stamped sent was carried by an e-mail.
THEOREM SentIsSent == Spec => []SentMeansDelivered
  <1>1. IInv => SentMeansDelivered
    BY DEF IInv
  <1> QED BY <1>1, Invariance, PTL

\* No notice is e-mailed more often than once and once more for each dead run
\* and each lost reply.
THEOREM DuplicatesAreMishaps == Spec => []DuplicatesNeedMishaps
  <1>1. IInv => DuplicatesNeedMishaps
    BY DEF IInv
  <1> QED BY <1>1, Invariance, PTL

\* A digest day that is claimed has a digest: sent, in hand, or lost with its run.
THEOREM DaysAreEarned == Spec => []DayClaimIsEarned
  <1>1. IInv => DayClaimIsEarned
    BY DEF IInv
  <1> QED BY <1>1, Invariance, PTL
=============================================================================
