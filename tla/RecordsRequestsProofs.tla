----------------------- MODULE RecordsRequestsProofs -----------------------
(***************************************************************************)
(* What RecordsRequests keeps for any number of actions, requests, tasks   *)
(* and fees.  The argument is that whoever opens a task reads the request  *)
(* and its tasks in the step that writes (its row lock), so a chase is     *)
(* rolled or opened only where no open task is left; and that a task which *)
(* an action has in its hands stays with the request it was read with, or  *)
(* is cut off (Sound), so a reopening looks at the right request.  What a  *)
(* conversion found when it locked the lead's requests stays on the lead,  *)
(* locked and with the fee it reads, until it commits (Moves).             *)
(***************************************************************************)
EXTENDS RecordsRequests, FiniteSetTheorems, TLAPS

\* An amount that a fee column holds; 0 stands for a fee that was not paid.
Amount == Fees \cup {0}

\* What an action carries from its read to its transaction, a conversion also
\* from statement to statement.
Carried ==
  {Idle}
  \cup [at : {"create"}, r : Request, matter : BOOLEAN]
  \cup [at : {"send", "log", "delete"}, r : Request]
  \cup [at : {"status"}, r : Request, to : Live]
  \cup [at : {"fee"}, r : Request, fee : Fees \cup {0}, matter : BOOLEAN]
  \cup [at : {"task"}, r : Request \cup {None}, t : Task, to : TaskStatuses, seen : TaskStatuses]
  \cup [at : {"convert"}, seen : {"active", "declined"}]
  \cup [at : {"convert: claimed"}]
  \cup [at : {"convert: locked"}, known : SUBSET Request]
  \cup [at : {"convert: read"}, known : SUBSET Request, fees : [Request -> Amount]]
  \cup [at : {"convert: moved"}, known : SUBSET Request, fees : [Request -> Amount],
        moved : SUBSET Request]

ProcTypes == proc \in [Process -> Carried]

\* The columns of a task.
TaskRow == [status : TaskStatuses \cup {"none"}, request : Request \cup {None},
            rolls : Nat, revived : BOOLEAN]

\* Of the open tasks of a request those that the rules opened.
Checked(tasks, r) == {t \in OpenTasks(tasks, r) : ~tasks[t].revived}

\* What holds of the tasks, before and within a step: one checked task per
\* request at most, tasks belong to requests that exist, and a task that an
\* action has read is still its request's, or nobody's.
Sound(tasks) ==
  /\ tasks \in [Task -> TaskRow]
  /\ \A t \in Task : tasks[t].rolls <= 1
  /\ \A r \in Request : \A t, u \in Checked(tasks, r) : t = u
  /\ \A t \in Task : tasks[t].request \in Request => request[tasks[t].request].status \in Live
  /\ \A p \in Process : At(p, "task") => tasks[proc[p].t].request \in {None, proc[p].r}

\* Nobody is asked to chase r by the rules.
NotChased(tasks, r) == \A t \in OpenTasks(tasks, r) : tasks[t].revived

\* An expense is booked once exactly while it is linked, and only for a request
\* on the matter; a paid fee of such a request is, or was, linked, unless the
\* conversion had not locked the request.
FeeInv ==
  \A r \in Request :
    /\ expense[r].booked = IF expense[r].linked THEN 1 ELSE 0
    /\ request[r].status \notin Live => ~request[r].matter
    /\ ~request[r].matter => ~expense[r].linked
    /\ request[r].status \in Live /\ request[r].matter /\ request[r].fee > 0
       => expense[r].linked \/ expense[r].dropped \/ request[r].unlocked

IInv == TypeOK /\ ProcTypes /\ Sound(task) /\ ClosedRequestsAreNotChased /\ FeeInv

\* Where a conversion holds the locks of the requests it knows.
Locking == {"convert: locked", "convert: read", "convert: moved"}

\* What it locked is still on the lead, with the fee it read; what it moved
\* is all of that, and locked too.
MoveOK(p) ==
  LET c == proc[p] IN
  /\ c.at \in Locking => \A r \in c.known : r \in OnLead /\ requestLock[r] = p
  /\ c.at \in {"convert: read", "convert: moved"} => \A r \in c.known : c.fees[r] = request[r].fee
  /\ c.at = "convert: moved" => /\ c.known \subseteq c.moved
                               /\ \A r \in c.moved : r \in OnLead /\ requestLock[r] = p

Moves == \A p \in Process : MoveOK(p)

-----------------------------------------------------------------------------
\* The fields of what an action carries.
LEMMA CarriedFields ==
  ASSUME NEW c \in Carried
  PROVE  /\ c.at \in {"create", "send", "log", "delete", "status", "fee"} => c.r \in Request
         /\ c.at = "create" => c.matter \in BOOLEAN
         /\ c.at = "status" => c.to \in Live
         /\ c.at = "fee" => c.fee \in Fees \cup {0}
         /\ c.at = "task" => /\ c.r \in Request \cup {None} /\ c.t \in Task
                             /\ c.to \in TaskStatuses /\ c.seen \in TaskStatuses
         /\ c.at \in Locking => c.known \in SUBSET Request
         /\ c.at \in {"convert: read", "convert: moved"} => c.fees \in [Request -> Amount]
         /\ c.at = "convert: moved" => c.moved \in SUBSET Request
  <1>1. CASE c \in [at : {"send", "log", "delete"}, r : Request]
    BY <1>1 DEF Locking
  <1>10. CASE c = Idle
    BY <1>10 DEF Idle, Locking
  <1>9. CASE c \in [at : {"create"}, r : Request, matter : BOOLEAN]
    BY <1>9 DEF Locking
  <1>2. CASE c \in [at : {"status"}, r : Request, to : Live]
    BY <1>2 DEF Locking
  <1>3. CASE c \in [at : {"fee"}, r : Request, fee : Fees \cup {0}, matter : BOOLEAN]
    BY <1>3 DEF Locking
  <1>4. CASE c \in [at : {"task"}, r : Request \cup {None}, t : Task, to : TaskStatuses, seen : TaskStatuses]
    BY <1>4 DEF Locking
  <1>5. CASE c \in [at : {"convert"}, seen : {"active", "declined"}]
                \cup [at : {"convert: claimed"}]
    BY <1>5 DEF Locking
  <1>6. CASE c \in [at : {"convert: locked"}, known : SUBSET Request]
    BY <1>6 DEF Locking
  <1>7. CASE c \in [at : {"convert: read"}, known : SUBSET Request, fees : [Request -> Amount]]
    BY <1>7 DEF Locking
  <1>8. CASE c \in [at : {"convert: moved"}, known : SUBSET Request, fees : [Request -> Amount],
                  moved : SUBSET Request]
    BY <1>8 DEF Locking
  <1> QED BY <1>1, <1>2, <1>3, <1>4, <1>5, <1>6, <1>7, <1>8, <1>9, <1>10 DEF Carried

\* A task's type, its counter set apart: the provers mix up numbers and names.
Count == Nat

LEMMA TaskRowShape ==
  /\ TaskRow = [status : TaskStatuses \cup {"none"}, request : Request \cup {None},
                rolls : Count, revived : BOOLEAN]
  /\ 0 \in Count /\ {"open", "done", "cancelled"} \subseteq TaskStatuses
  BY DEF TaskRow, Count, TaskStatuses

\* The fields of a task.
LEMMA TaskFields ==
  ASSUME NEW tasks \in [Task -> TaskRow], NEW t \in Task
  PROVE  /\ tasks[t].status \in TaskStatuses \cup {"none"}
         /\ tasks[t].request \in Request \cup {None}
         /\ tasks[t].rolls \in Nat /\ tasks[t].revived \in BOOLEAN
  BY DEF TaskRow

\* Ending an action drops its locks and what it carried.
LEMMA FinishFacts ==
  ASSUME TypeOK, ProcTypes, NEW p \in Process, Finish(p)
  PROVE  /\ proc' \in [Process -> Carried] /\ proc'[p] = Idle
         /\ \A q \in Process \ {p} : proc'[q] = proc[q]
         /\ \A q \in Process : (At(q, "task"))' => At(q, "task") /\ proc'[q] = proc[q]
         /\ requestLock' \in [Request -> Process \cup {None}]
         /\ leadLock' \in Process \cup {None}
  <1>1. Idle \in Carried /\ Idle.at # "task"
    BY DEF Carried, Idle
  <1>2. /\ proc' \in [Process -> Carried] /\ proc'[p] = Idle
        /\ \A q \in Process \ {p} : proc'[q] = proc[q]
    BY <1>1 DEF Finish, ProcTypes
  <1>3. requestLock' \in [Request -> Process \cup {None}] /\ leadLock' \in Process \cup {None}
    BY DEF Finish, TypeOK
  <1> QED BY <1>1, <1>2, <1>3 DEF At

-----------------------------------------------------------------------------
\* Closing the open tasks of a request leaves none, and touches no other.
LEMMA ClosedSound ==
  ASSUME ProcTypes, NEW tasks, Sound(tasks), NEW r \in Request, NEW how \in {"done", "cancelled"}
  PROVE  /\ Sound(Closed(tasks, r, how))
         /\ OpenTasks(Closed(tasks, r, how), r) = {}
         /\ \A q \in Request : NotChased(tasks, q) => NotChased(Closed(tasks, r, how), q)
         /\ \A t \in Task : Closed(tasks, r, how)[t].request = tasks[t].request
  <1> DEFINE new == Closed(tasks, r, how)
  <1>1. tasks \in [Task -> TaskRow]
    BY DEF Sound
  <1>2. ASSUME NEW t \in Task
        PROVE  /\ new[t] \in TaskRow
               /\ new[t].request = tasks[t].request
               /\ t \in OpenTasks(tasks, r) => new[t].status = how /\ new[t].rolls = 0
               /\ t \notin OpenTasks(tasks, r) => new[t] = tasks[t]
    <2>1. CASE t \in OpenTasks(tasks, r)
      <3>1. new[t] = [tasks[t] EXCEPT !.status = how, !.rolls = 0, !.revived = FALSE]
        BY <2>1 DEF Closed
      <3>2. tasks[t] \in TaskRow
        BY <1>1
      <3> QED BY <2>1, <3>1, <3>2, TaskRowShape
    <2>2. CASE t \notin OpenTasks(tasks, r)
      BY <1>1, <2>2 DEF Closed
    <2> QED BY <2>1, <2>2
  <1>3. new \in [Task -> TaskRow]
    BY <1>2 DEF Closed
  <1> HIDE DEF new
  <1>4. OpenTasks(new, r) = {}
    BY <1>2 DEF OpenTasks
  <1>5. \A q \in Request : OpenTasks(new, q) \subseteq OpenTasks(tasks, q) \ OpenTasks(tasks, r)
    BY <1>2 DEF OpenTasks
  <1>6. \A t \in Task : new[t].rolls <= 1
    BY <1>2 DEF Sound
  <1>7. \A q \in Request : \A t, u \in Checked(new, q) : t = u
    BY <1>2, <1>5 DEF Sound, Checked, OpenTasks
  <1>8. \A t \in Task : new[t].request \in Request => request[new[t].request].status \in Live
    BY <1>2 DEF Sound
  <1>9. Sound(new)
    <2>1. ASSUME NEW p \in Process, At(p, "task")
          PROVE  new[proc[p].t].request = tasks[proc[p].t].request
      BY <1>2, <2>1, CarriedFields DEF ProcTypes, At
    <2> QED BY <1>3, <1>6, <1>7, <1>8, <2>1 DEF Sound
  <1>10. \A q \in Request : NotChased(tasks, q) => NotChased(new, q)
    BY <1>2, <1>5 DEF NotChased, OpenTasks
  <1> QED BY <1>2, <1>4, <1>9, <1>10 DEF new

\* Opening a task for a request that exists gives it one if it has none, and
\* takes a row that no action has read.
LEMMA OpenedSound ==
  ASSUME ProcTypes, NEW tasks, Sound(tasks), NEW r \in Request, request[r].status \in Live,
         NEW new \in Opened(tasks, r)
  PROVE  /\ Sound(new)
         /\ \A q \in Request \ {r} : NotChased(tasks, q) => NotChased(new, q)
  <1>1. tasks \in [Task -> TaskRow] /\ None \notin Request
    BY RecordsAssumption DEF Sound
  <1>2. CASE OpenTasks(tasks, r) # {}
    <2>1. new = tasks
      BY <1>2 DEF Opened
    <2> QED BY <2>1
  <1>3. CASE OpenTasks(tasks, r) = {}
    <2>1. PICK t \in Unused(tasks) : new = [tasks EXCEPT ![t] = Fresh(r)]
      BY <1>3 DEF Opened
    <2>2. t \in Task /\ \A p \in Process : At(p, "task") => proc[p].t # t
      BY DEF Unused
    <2>3. /\ Fresh(r) \in TaskRow /\ Fresh(r).status = "open" /\ Fresh(r).request = r
          /\ Fresh(r).rolls = 0 /\ ~Fresh(r).revived
      BY DEF Fresh, NoTask, TaskRow, TaskStatuses
    <2>4. /\ new \in [Task -> TaskRow] /\ new[t] = Fresh(r)
          /\ \A u \in Task \ {t} : new[u] = tasks[u]
      BY <1>1, <2>1, <2>2, <2>3
    <2>5. OpenTasks(new, r) = {t}
      BY <1>3, <2>2, <2>3, <2>4 DEF OpenTasks
    <2>6. \A q \in Request \ {r} : OpenTasks(new, q) \subseteq OpenTasks(tasks, q) \ {t}
      BY <2>3, <2>4 DEF OpenTasks
    <2>7. \A u \in Task : new[u].rolls <= 1
      BY <2>3, <2>4 DEF Sound
    <2>8. \A q \in Request : \A u, v \in Checked(new, q) : u = v
      BY <2>4, <2>5, <2>6 DEF Sound, Checked, OpenTasks
    <2>9. \A u \in Task : new[u].request \in Request => request[new[u].request].status \in Live
      BY <2>3, <2>4 DEF Sound
    <2>10. \A p \in Process : At(p, "task") => new[proc[p].t].request \in {None, proc[p].r}
      BY <2>2, <2>4, CarriedFields DEF Sound, ProcTypes, At
    <2>11. Sound(new)
      BY <2>4, <2>7, <2>8, <2>9, <2>10 DEF Sound
    <2>12. \A q \in Request \ {r} : NotChased(tasks, q) => NotChased(new, q)
      BY <2>4, <2>6 DEF NotChased, OpenTasks
    <2> QED BY <2>11, <2>12
  <1> QED BY <1>2, <1>3

\* Rolling a chase finishes what is open and opens the next.
LEMMA RolledSound ==
  ASSUME ProcTypes, NEW tasks, Sound(tasks), NEW r \in Request, request[r].status \in Live,
         NEW new \in Rolled(tasks, r)
  PROVE  /\ Sound(new)
         /\ \A q \in Request \ {r} : NotChased(tasks, q) => NotChased(new, q)
  <1>1. Sound(Closed(tasks, r, "done"))
    BY ClosedSound
  <1>2. \A q \in Request : NotChased(tasks, q) => NotChased(Closed(tasks, r, "done"), q)
    BY ClosedSound
  <1>3. new \in Opened(Closed(tasks, r, "done"), r)
    BY DEF Rolled
  <1> QED BY <1>1, <1>2, <1>3, OpenedSound

-----------------------------------------------------------------------------
\* What a step leaves of the tasks is sound in the next state, too.
LEMMA SoundNext ==
  ASSUME Sound(task'),
         \A r \in Request : request[r].status \in Live => request'[r].status \in Live,
         \A p \in Process : (At(p, "task"))' => At(p, "task") /\ proc'[p] = proc[p]
  PROVE  Sound(task)'
  <1>1. \A t \in Task : task'[t].request \in Request => request'[task'[t].request].status \in Live
    BY DEF Sound
  <1>2. \A p \in Process : (At(p, "task"))' => task'[proc'[p].t].request \in {None, proc'[p].r}
    BY DEF Sound
  <1>3. \A r \in Request : \A t, u \in (Checked(task, r))' : t = u
    BY DEF Sound, Checked, OpenTasks
  <1> QED BY <1>1, <1>2, <1>3 DEF Sound

\* A step that leaves the tasks, and no request becomes closed by it, keeps
\* what holds of them.
LEMMA TasksSame ==
  ASSUME IInv, UNCHANGED task,
         \A r \in Request : request[r].status \in Live => request'[r].status \in Live,
         \A r \in Request : request'[r].status \in Terminal => request[r].status \in Terminal,
         \A p \in Process : (At(p, "task"))' => At(p, "task") /\ proc'[p] = proc[p]
  PROVE  Sound(task)' /\ ClosedRequestsAreNotChased'
  <1>1. Sound(task')
    BY DEF IInv
  <1>2. Sound(task)'
    BY <1>1, SoundNext
  <1>3. ClosedRequestsAreNotChased'
    BY DEF IInv, ClosedRequestsAreNotChased, OpenTasks
  <1> QED BY <1>2, <1>3

\* The invariant says of every closed request that it is not chased.
LEMMA NotChasedNow ==
  ASSUME IInv, NEW r \in Request, request[r].status \in Terminal
  PROVE  NotChased(task, r)
  BY DEF IInv, ClosedRequestsAreNotChased, NotChased

\* A step on one request: what it leaves is not chased if it is closed.
LEMMA NotChasedNext ==
  ASSUME IInv, NEW r \in Request,
         \A q \in Request \ {r} : request'[q] = request[q],
         \A q \in Request \ {r} : NotChased(task, q) => NotChased(task', q),
         request'[r].status \in Terminal => NotChased(task', r)
  PROVE  ClosedRequestsAreNotChased'
  <1> SUFFICES ASSUME NEW q \in Request, request'[q].status \in Terminal
               PROVE  \A t \in (OpenTasks(task, q))' : task'[t].revived
    BY DEF ClosedRequestsAreNotChased
  <1>1. NotChased(task', q)
    BY NotChasedNow
  <1> QED BY <1>1 DEF NotChased, OpenTasks

\* Fees and expenses do not change.
LEMMA FeesSame ==
  ASSUME IInv, UNCHANGED expense,
         \A r \in Request : /\ request'[r].fee = request[r].fee
                            /\ request'[r].status \in Live <=> request[r].status \in Live
                            /\ request'[r].matter = request[r].matter
                            /\ request'[r].unlocked = request[r].unlocked
  PROVE  FeeInv'
  BY DEF IInv, FeeInv

-----------------------------------------------------------------------------
\* A step that only reads, waits or gives up: nothing but what actions carry,
\* and their locks, changes.
LEMMA CarriesOn ==
  ASSUME IInv, UNCHANGED <<lead, request, expense, task>>, ProcTypes',
         requestLock' \in [Request -> Process \cup {None}], leadLock' \in Process \cup {None},
         \A p \in Process : (At(p, "task"))' => task[proc'[p].t].request \in {None, proc'[p].r}
  PROVE  IInv'
  <1>1. TypeOK'
    BY DEF IInv, TypeOK
  <1>2. Sound(task)'
    BY DEF IInv, Sound, Checked, OpenTasks
  <1>3. ClosedRequestsAreNotChased'
    BY DEF IInv, ClosedRequestsAreNotChased, OpenTasks
  <1>4. FeeInv'
    BY DEF IInv, FeeInv
  <1> QED BY <1>1, <1>2, <1>3, <1>4 DEF IInv

\* The first half of an action: it takes up what it has read.
LEMMA StartKeeps ==
  ASSUME IInv, UNCHANGED <<lead, request, expense, task, requestLock, leadLock>>,
         NEW p \in Process, NEW c \in Carried, Start(p, c),
         c.at = "task" => task[c.t].request \in {None, c.r}
  PROVE  IInv'
  <1>1. /\ proc' \in [Process -> Carried] /\ proc'[p] = c
        /\ \A q \in Process \ {p} : proc'[q] = proc[q]
    BY DEF IInv, ProcTypes, Start
  <1>2. \A q \in Process : (At(q, "task"))' => task[proc'[q].t].request \in {None, proc'[q].r}
    <2> TAKE q \in Process
    <2>1. CASE q = p
      BY <1>1, <2>1 DEF At
    <2>2. CASE q # p
      BY <1>1, <2>2 DEF IInv, Sound, At
    <2> QED BY <2>1, <2>2
  <1> QED BY <1>1, <1>2, CarriesOn DEF IInv, TypeOK, ProcTypes

LEMMA CreateReadKeeps ==
  ASSUME IInv, NEW p \in Process, CreateRead(p)
  PROVE  IInv'
  <1>1. PICK r \in Request, m \in BOOLEAN :
          /\ Start(p, [at |-> "create", r |-> r, matter |-> m])
          /\ UNCHANGED <<lead, request, expense, task, requestLock, leadLock>>
    BY DEF CreateRead
  <1> DEFINE c == [at |-> "create", r |-> r, matter |-> m]
  <1>2. c \in Carried /\ c.at = "create"
    BY DEF Carried
  <1> HIDE DEF c
  <1>3. Start(p, c)
    BY <1>1 DEF c
  <1> QED BY <1>1, <1>2, <1>3, StartKeeps

LEMMA SendReadKeeps ==
  ASSUME IInv, NEW p \in Process, SendRead(p) \/ LogRead(p) \/ DeleteRead(p)
  PROVE  IInv'
  <1>1. PICK r \in Request, at \in {"send", "log", "delete"} :
          /\ Start(p, [at |-> at, r |-> r])
          /\ UNCHANGED <<lead, request, expense, task, requestLock, leadLock>>
    BY DEF SendRead, LogRead, DeleteRead
  <1> DEFINE c == [at |-> at, r |-> r]
  <1>2. c \in Carried /\ c.at # "task"
    BY DEF Carried
  <1> HIDE DEF c
  <1>3. Start(p, c)
    BY <1>1 DEF c
  <1> QED BY <1>1, <1>2, <1>3, StartKeeps

LEMMA StatusReadKeeps ==
  ASSUME IInv, NEW p \in Process, StatusRead(p)
  PROVE  IInv'
  <1>1. PICK r \in Request, to \in Live \cap Asked :
          /\ Start(p, [at |-> "status", r |-> r, to |-> to])
          /\ UNCHANGED <<lead, request, expense, task, requestLock, leadLock>>
    BY DEF StatusRead
  <1> DEFINE c == [at |-> "status", r |-> r, to |-> to]
  <1>2. c \in Carried /\ c.at = "status"
    BY DEF Carried
  <1> HIDE DEF c
  <1>3. Start(p, c)
    BY <1>1 DEF c
  <1> QED BY <1>1, <1>2, <1>3, StartKeeps

LEMMA FeeReadKeeps ==
  ASSUME IInv, NEW p \in Process, FeeRead(p)
  PROVE  IInv'
  <1>1. PICK r \in Request, fee \in Fees \cup {0} :
          /\ Start(p, [at |-> "fee", r |-> r, fee |-> fee, matter |-> request[r].matter])
          /\ UNCHANGED <<lead, request, expense, task, requestLock, leadLock>>
    BY DEF FeeRead
  <1>2. request[r].matter \in BOOLEAN
    BY DEF IInv, TypeOK
  <1> DEFINE c == [at |-> "fee", r |-> r, fee |-> fee, matter |-> request[r].matter]
  <1>3. c \in Carried /\ c.at = "fee"
    BY <1>2 DEF Carried
  <1> HIDE DEF c
  <1>4. Start(p, c)
    BY <1>1 DEF c
  <1> QED BY <1>1, <1>3, <1>4, StartKeeps

LEMMA TaskReadKeeps ==
  ASSUME IInv, NEW p \in Process, TaskRead(p)
  PROVE  IInv'
  <1>1. PICK t \in Task, to \in TaskStatuses \cap Asked :
          /\ task[t].status \in TaskStatuses
          /\ Start(p, [at |-> "task", r |-> task[t].request, t |-> t, to |-> to,
                       seen |-> task[t].status])
          /\ UNCHANGED <<lead, request, expense, task, requestLock, leadLock>>
    BY DEF TaskRead
  <1>2. task[t].request \in Request \cup {None}
    BY TaskFields DEF IInv, Sound
  <1> DEFINE c == [at |-> "task", r |-> task[t].request, t |-> t, to |-> to,
                   seen |-> task[t].status]
  <1>3. c \in Carried /\ c.t = t /\ c.r = task[t].request
    BY <1>1, <1>2 DEF Carried
  <1> HIDE DEF c
  <1>4. Start(p, c)
    BY <1>1 DEF c
  <1> QED BY <1>1, <1>3, <1>4, StartKeeps

LEMMA ConvertReadKeeps ==
  ASSUME IInv, NEW p \in Process, ConvertRead(p)
  PROVE  IInv'
  <1> DEFINE c == [at |-> "convert", seen |-> lead]
  <1>1. c \in Carried /\ c.at = "convert"
    BY DEF Carried, ConvertRead, IInv, TypeOK
  <1>2. Start(p, c)
    BY DEF ConvertRead
  <1> HIDE DEF c
  <1> QED BY <1>1, <1>2, StartKeeps DEF ConvertRead

\* What ends without a write leaves all as it was.
LEMMA FinishKeeps ==
  ASSUME IInv, NEW p \in Process, Finish(p), UNCHANGED <<lead, request, expense, task>>
  PROVE  IInv'
  <1>1. /\ proc' \in [Process -> Carried]
        /\ \A q \in Process : (At(q, "task"))' => At(q, "task") /\ proc'[q] = proc[q]
        /\ requestLock' \in [Request -> Process \cup {None}]
        /\ leadLock' \in Process \cup {None}
    BY FinishFacts DEF IInv
  <1>2. \A q \in Process : (At(q, "task"))' => task[proc'[q].t].request \in {None, proc'[q].r}
    BY <1>1 DEF IInv, Sound
  <1> QED BY <1>1, <1>2, CarriesOn DEF ProcTypes

LEMMA ConvertClaimKeeps ==
  ASSUME IInv, NEW p \in Process, ConvertClaim(p)
  PROVE  IInv'
  <1>1. CASE lead = proc[p].seen
    <2>1. /\ leadLock' = p /\ proc' = [proc EXCEPT ![p] = [at |-> "convert: claimed"]]
          /\ UNCHANGED <<lead, request, expense, task, requestLock>>
      BY <1>1 DEF ConvertClaim
    <2>2. [at |-> "convert: claimed"] \in Carried
      BY DEF Carried
    <2>3. ProcTypes'
      BY <2>1, <2>2 DEF IInv, ProcTypes
    <2>4. \A q \in Process : (At(q, "task"))' => task[proc'[q].t].request \in {None, proc'[q].r}
      BY <2>1 DEF IInv, Sound, At, ProcTypes
    <2> QED BY <2>1, <2>3, <2>4, CarriesOn DEF IInv, TypeOK
  <1>2. CASE lead # proc[p].seen
    BY <1>2, FinishKeeps DEF ConvertClaim
  <1> QED BY <1>1, <1>2

\* A conversion's next place, carrying more.
LEMMA CarryOn ==
  ASSUME IInv, NEW p \in Process, NEW c \in Carried, c.at # "task",
         proc' = [proc EXCEPT ![p] = c], UNCHANGED <<lead, request, expense, task, leadLock>>,
         requestLock' \in [Request -> Process \cup {None}]
  PROVE  IInv'
  <1>1. ProcTypes'
    BY DEF IInv, ProcTypes
  <1>2. \A q \in Process : (At(q, "task"))' => task[proc'[q].t].request \in {None, proc'[q].r}
    BY DEF IInv, Sound, At, ProcTypes
  <1> QED BY <1>1, <1>2, CarriesOn DEF IInv, TypeOK

LEMMA OnLeadType == OnLead \in SUBSET Request
  BY DEF OnLead

LEMMA ConvertLockKeeps ==
  ASSUME IInv, NEW p \in Process, ConvertLock(p)
  PROVE  IInv'
  <1> DEFINE c == [at |-> "convert: locked", known |-> OnLead]
  <1>1. proc' = [proc EXCEPT ![p] = c] /\ UNCHANGED <<lead, request, expense, task, leadLock>>
    BY DEF ConvertLock
  <1>2. requestLock' \in [Request -> Process \cup {None}]
    BY DEF ConvertLock, IInv, TypeOK
  <1>3. c \in Carried /\ c.at = "convert: locked"
    BY OnLeadType DEF Carried
  <1> HIDE DEF c
  <1> QED BY <1>1, <1>2, <1>3, CarryOn

\* What a conversion carries after it read the requests, and after the move.
AfterRead(p) ==
  [at |-> "convert: read", known |-> proc[p].known,
   fees |-> [r \in Request |-> IF r \in OnLead /\ ~expense[r].linked THEN request[r].fee ELSE 0]]
AfterMove(p) ==
  [at |-> "convert: moved", known |-> proc[p].known, fees |-> proc[p].fees, moved |-> OnLead]

LEMMA ConvertReadStep ==
  ASSUME IInv, NEW p \in Process, ConvertReadRequests(p)
  PROVE  /\ proc' = [proc EXCEPT ![p] = AfterRead(p)]
         /\ AfterRead(p) \in Carried /\ AfterRead(p).at = "convert: read"
         /\ At(p, "convert: locked") /\ proc[p].known \in SUBSET Request
         /\ UNCHANGED <<lead, request, expense, task, requestLock, leadLock>>
  <1>1. /\ At(p, "convert: locked")
        /\ UNCHANGED <<lead, request, expense, task, requestLock, leadLock>>
    BY DEF ConvertReadRequests
  <1>2. proc' = [proc EXCEPT ![p] = AfterRead(p)]
    BY DEF ConvertReadRequests, AfterRead, IInv, ProcTypes
  <1>3. proc[p].known \in SUBSET Request
    BY <1>1, CarriedFields DEF At, Locking, IInv, ProcTypes
  <1>4. \A r \in Request : request[r].fee \in Amount
    BY DEF IInv, TypeOK, Amount
  <1>5. AfterRead(p).fees \in [Request -> Amount]
    BY <1>4 DEF AfterRead, Amount
  <1> QED BY <1>1, <1>2, <1>3, <1>5 DEF AfterRead, Carried

LEMMA ConvertReadRequestsKeeps ==
  ASSUME IInv, NEW p \in Process, ConvertReadRequests(p)
  PROVE  IInv'
  BY ConvertReadStep, CarryOn DEF IInv, TypeOK

LEMMA ConvertMoveStep ==
  ASSUME IInv, NEW p \in Process, ConvertMove(p)
  PROVE  /\ proc' = [proc EXCEPT ![p] = AfterMove(p)]
         /\ AfterMove(p) \in Carried /\ AfterMove(p).at = "convert: moved"
         /\ At(p, "convert: read") /\ proc[p].known \in SUBSET Request
         /\ \A r \in OnLead : requestLock[r] \in {p, None}
         /\ requestLock' = [r \in Request |-> IF r \in OnLead THEN p ELSE requestLock[r]]
         /\ UNCHANGED <<lead, request, expense, task, leadLock>>
  <1>1. /\ At(p, "convert: read")
        /\ \A r \in OnLead : requestLock[r] \in {p, None}
        /\ requestLock' = [r \in Request |-> IF r \in OnLead THEN p ELSE requestLock[r]]
        /\ UNCHANGED <<lead, request, expense, task, leadLock>>
    BY DEF ConvertMove
  <1>2. proc' = [proc EXCEPT ![p] = AfterMove(p)]
    BY DEF ConvertMove, AfterMove, IInv, ProcTypes
  <1>3. proc[p].known \in SUBSET Request /\ proc[p].fees \in [Request -> Amount]
    BY <1>1, CarriedFields DEF At, Locking, IInv, ProcTypes
  <1> QED BY <1>1, <1>2, <1>3, OnLeadType DEF AfterMove, Carried

LEMMA ConvertMoveKeeps ==
  ASSUME IInv, NEW p \in Process, ConvertMove(p)
  PROVE  IInv'
  <1>1. requestLock \in [Request -> Process \cup {None}]
    BY DEF IInv, TypeOK
  <1>2. requestLock' = [r \in Request |-> IF r \in OnLead THEN p ELSE requestLock[r]]
    BY ConvertMoveStep
  <1>3. requestLock' \in [Request -> Process \cup {None}]
    BY <1>1, <1>2
  <1> QED BY <1>3, ConvertMoveStep, CarryOn

-----------------------------------------------------------------------------
\* A request's type, its fee set apart for the same reason, and an expense's.
RequestRow == [status : Live \cup {"none", "deleted"}, sent : BOOLEAN, matter : BOOLEAN,
               fee : Amount, unlocked : BOOLEAN]

ExpenseRow == {x \in [linked : BOOLEAN, booked : Nat, amount : Fees \cup {0},
                      invoiced : BOOLEAN, dropped : BOOLEAN] :
                 x.linked => x.amount \in Fees}

LEMMA ExpenseShape ==
  ASSUME NEW rows
  PROVE  rows \in [Request -> ExpenseRow]
           <=> /\ rows \in [Request -> [linked : BOOLEAN, booked : Nat, amount : Fees \cup {0},
                                       invoiced : BOOLEAN, dropped : BOOLEAN]]
               /\ \A r \in Request : rows[r].linked => rows[r].amount \in Fees
  BY DEF ExpenseRow

LEMMA RequestShape ==
  /\ TypeOK <=> /\ lead \in {"active", "declined", "converted"}
                /\ request \in [Request -> RequestRow]
                /\ expense \in [Request -> ExpenseRow]
                /\ task \in [Task -> TaskRow]
                /\ requestLock \in [Request -> Process \cup {None}]
                /\ leadLock \in Process \cup {None}
  /\ 0 \in Amount
  /\ {"draft", "sent"} \subseteq Live /\ Terminal \subseteq Live /\ Chased \subseteq Live
  /\ {"none", "deleted", "draft", "sent"} \cap Terminal = {}
  /\ {"none", "deleted"} \cap Live = {} /\ Chased \cap Terminal = {}
  BY ExpenseShape DEF TypeOK, RequestRow, Amount, TaskRow, Live, Chased, Terminal

\* The second half of an action that writes the tasks of one request, and of
\* the request itself its status and sent date.
LEMMA CommitKeeps ==
  ASSUME IInv, NEW p \in Process, Finish(p), UNCHANGED <<lead, expense>>, NEW r \in Request,
         request' \in [Request -> RequestRow],
         \A q \in Request \ {r} : request'[q] = request[q],
         request'[r].status \in Live <=> request[r].status \in Live,
         request'[r].fee = request[r].fee, request'[r].matter = request[r].matter,
         request'[r].unlocked = request[r].unlocked,
         Sound(task'), \A q \in Request \ {r} : NotChased(task, q) => NotChased(task', q),
         request'[r].status \in Terminal => NotChased(task', r)
  PROVE  IInv'
  <1>1. /\ proc' \in [Process -> Carried]
        /\ \A q \in Process : (At(q, "task"))' => At(q, "task") /\ proc'[q] = proc[q]
        /\ requestLock' \in [Request -> Process \cup {None}]
        /\ leadLock' \in Process \cup {None}
    BY FinishFacts DEF IInv
  <1>2. TypeOK'
    BY <1>1 DEF IInv, TypeOK, Sound, TaskRow, RequestRow, Amount
  <1>3. Sound(task)'
    BY <1>1, SoundNext
  <1>4. ClosedRequestsAreNotChased'
    BY NotChasedNext
  <1>5. FeeInv'
    BY FeesSame
  <1> QED BY <1>1, <1>2, <1>3, <1>4, <1>5 DEF IInv, ProcTypes

LEMMA SendCommitKeeps ==
  ASSUME IInv, NEW p \in Process, SendCommit(p)
  PROVE  IInv'
  <1> DEFINE r == proc[p].r
  <1>1. r \in Request
    BY CarriedFields DEF SendCommit, At, IInv, ProcTypes
  <1>2. CASE request[r].status = "draft"
    <2>1. /\ request' = [request EXCEPT ![r].status = "sent", ![r].sent = TRUE]
          /\ task' \in Opened(task, r) /\ Finish(p) /\ UNCHANGED <<lead, expense>>
      BY <1>2 DEF SendCommit
    <2> HIDE DEF r
    <2>2. request \in [Request -> RequestRow]
      BY RequestShape DEF IInv
    <2> DEFINE row == [request[r] EXCEPT !.status = "sent", !.sent = TRUE]
    <2>row. request' = [request EXCEPT ![r] = row]
      BY <1>1, <2>1, <2>2
    <2>fields. /\ row \in RequestRow /\ row.status = "sent" /\ row.fee = request[r].fee
          /\ row.matter = request[r].matter /\ row.unlocked = request[r].unlocked
      BY <1>1, <2>2, RequestShape DEF RequestRow
    <2> HIDE DEF row
    <2>3. /\ request' \in [Request -> RequestRow]
          /\ request'[r].status = "sent" /\ request'[r].fee = request[r].fee
          /\ request'[r].matter = request[r].matter /\ request'[r].unlocked = request[r].unlocked
          /\ \A q \in Request \ {r} : request'[q] = request[q]
      BY <1>1, <2>row, <2>fields, <2>2
    <2>4. Sound(task') /\ \A q \in Request \ {r} : NotChased(task, q) => NotChased(task', q)
      BY <1>1, <1>2, <2>1, OpenedSound, RequestShape DEF IInv
    <2> QED BY <1>1, <1>2, <2>1, <2>3, <2>4, CommitKeeps, RequestShape
  <1>3. CASE request[r].status # "draft"
    BY <1>3, FinishKeeps DEF SendCommit
  <1> QED BY <1>2, <1>3

LEMMA LogCommitKeeps ==
  ASSUME IInv, NEW p \in Process, LogCommit(p)
  PROVE  IInv'
  <1> DEFINE r == proc[p].r
  <1>1. r \in Request
    BY CarriedFields DEF LogCommit, At, IInv, ProcTypes
  <1>2. CASE request[r].status \in Chased
    <2>1. task' \in Rolled(task, r) /\ Finish(p) /\ UNCHANGED <<lead, request, expense>>
      BY <1>2 DEF LogCommit
    <2> HIDE DEF r
    <2>2. Sound(task') /\ \A q \in Request \ {r} : NotChased(task, q) => NotChased(task', q)
      BY <1>1, <1>2, <2>1, RolledSound, RequestShape DEF IInv
    <2>3. request \in [Request -> RequestRow] /\ request[r].status \notin Terminal
      BY <1>2, RequestShape DEF IInv
    <2> QED BY <1>1, <2>1, <2>2, <2>3, CommitKeeps
  <1>3. CASE request[r].status \notin Chased
    BY <1>3, FinishKeeps DEF LogCommit
  <1> QED BY <1>2, <1>3

\* Closing cancels the open task; reopening to a chased status opens one.
LEMMA StatusCommitKeeps ==
  ASSUME IInv, NEW p \in Process, StatusCommit(p)
  PROVE  IInv'
  <1> DEFINE r == proc[p].r
             to == proc[p].to
             from == request[r].status
  <1>1. r \in Request /\ to \in Live
    BY CarriedFields DEF StatusCommit, At, IInv, ProcTypes
  <1>2. CASE from \in Live /\ Allowed(from, to, request[r].sent)
    <2>1. /\ request' = [request EXCEPT ![r].status = to]
          /\ Finish(p) /\ UNCHANGED <<lead, expense>>
      BY <1>2 DEF StatusCommit
    <2>closed. to \in Terminal => from \notin Terminal
      BY <1>2 DEF Allowed, Terminal
    <2>cancels. to \in Terminal => task' \in {Closed(task, r, "cancelled")}
      BY <1>2, <2>closed, Zenon DEF StatusCommit
    <2>reopens. to \notin Terminal /\ from \in Terminal /\ to # "draft" => task' \in Opened(task, r)
      BY <1>2, Zenon DEF StatusCommit
    <2>leaves. to \notin Terminal /\ ~(from \in Terminal /\ to # "draft") => task' \in {task}
      BY <1>2, Zenon DEF StatusCommit
    <2>2. request \in [Request -> RequestRow] /\ Sound(task) /\ ProcTypes
      BY RequestShape DEF IInv
    <2> HIDE DEF r, to
    <2>3. /\ request' \in [Request -> RequestRow]
          /\ request'[r].status = to /\ request'[r].fee = request[r].fee
          /\ request'[r].matter = request[r].matter /\ request'[r].unlocked = request[r].unlocked
          /\ \A q \in Request \ {r} : request'[q] = request[q]
      BY <1>1, <2>1, <2>2 DEF RequestRow
    <2>4. CASE to \in Terminal
      <3>1. task' = Closed(task, r, "cancelled")
        BY <2>cancels, <2>4
      <3>2. /\ Sound(task') /\ OpenTasks(task', r) = {}
            /\ \A q \in Request : NotChased(task, q) => NotChased(task', q)
        BY <1>1, <2>2, <3>1, ClosedSound
      <3>3. NotChased(task', r)
        BY <3>2 DEF NotChased
      <3> QED BY <1>1, <1>2, <2>1, <2>3, <3>2, <3>3, CommitKeeps
    <2>5. CASE to \notin Terminal /\ from \in Terminal /\ to # "draft"
      <3>1. task' \in Opened(task, r)
        BY <2>reopens, <2>5
      <3>2. Sound(task') /\ \A q \in Request \ {r} : NotChased(task, q) => NotChased(task', q)
        BY <1>1, <1>2, <2>2, <3>1, OpenedSound
      <3> QED BY <1>1, <1>2, <2>1, <2>3, <2>5, <3>2, CommitKeeps
    <2>6. CASE to \notin Terminal /\ ~(from \in Terminal /\ to # "draft")
      <3>1. task' = task
        BY <2>leaves, <2>6
      <3> QED BY <1>1, <1>2, <2>1, <2>2, <2>3, <2>6, <3>1, CommitKeeps
    <2> QED BY <2>4, <2>5, <2>6
  <1>3. CASE ~(from \in Live /\ Allowed(from, to, request[r].sent))
    BY <1>3, FinishKeeps DEF StatusCommit
  <1> QED BY <1>2, <1>3

\* A new row has no fee and is nobody's request yet.
LEMMA CreateInsertKeeps ==
  ASSUME IInv, NEW p \in Process, CreateInsert(p)
  PROVE  IInv'
  <1> DEFINE r == proc[p].r
             row == [NoRequest EXCEPT !.status = "draft", !.matter = proc[p].matter]
  <1>1. /\ r \in Request /\ request[r].status = "none"
        /\ request' = [request EXCEPT ![r] = row]
        /\ Finish(p) /\ UNCHANGED <<lead, expense, task>>
    BY CarriedFields DEF CreateInsert, At, IInv, ProcTypes
  <1>2. row \in RequestRow /\ row.status = "draft" /\ row.fee = 0
    BY CarriedFields, RequestShape DEF CreateInsert, At, IInv, ProcTypes, RequestRow, NoRequest
  <1> HIDE DEF r, row
  <1>3. request \in [Request -> RequestRow]
    BY RequestShape DEF IInv
  <1>4. /\ request' \in [Request -> RequestRow] /\ request'[r] = row
        /\ \A q \in Request \ {r} : request'[q] = request[q]
    BY <1>1, <1>2, <1>3
  <1>5. /\ proc' \in [Process -> Carried]
        /\ \A q \in Process : (At(q, "task"))' => At(q, "task") /\ proc'[q] = proc[q]
        /\ requestLock' \in [Request -> Process \cup {None}]
        /\ leadLock' \in Process \cup {None}
    BY <1>1, FinishFacts DEF IInv
  <1>6. TypeOK'
    BY <1>1, <1>4, <1>5 DEF IInv, TypeOK, RequestRow, Amount
  <1>7. Sound(task)' /\ ClosedRequestsAreNotChased'
    BY <1>1, <1>2, <1>4, <1>5, TasksSame, RequestShape
  <1>8. FeeInv'
    BY <1>1, <1>2, <1>4, RequestShape DEF IInv, FeeInv
  <1> QED BY <1>5, <1>6, <1>7, <1>8 DEF IInv, ProcTypes

\* Dates may be written whatever the status.
LEMMA UpdateRequestKeeps ==
  ASSUME IInv, NEW r \in Request, NEW sent \in BOOLEAN, UpdateRequest(r, sent)
  PROVE  IInv'
  <1>1. request \in [Request -> RequestRow]
    BY RequestShape DEF IInv
  <1>2. /\ request' \in [Request -> RequestRow]
        /\ \A q \in Request : /\ request'[q].status = request[q].status
                              /\ request'[q].fee = request[q].fee
                              /\ request'[q].matter = request[q].matter
                              /\ request'[q].unlocked = request[q].unlocked
    BY <1>1 DEF UpdateRequest, RequestRow
  <1>3. UNCHANGED <<lead, expense, task, requestLock, leadLock, proc>>
    BY DEF UpdateRequest
  <1>4. TypeOK' /\ ProcTypes'
    BY <1>2, <1>3 DEF IInv, TypeOK, RequestRow, Amount, ProcTypes
  <1>5. Sound(task)' /\ ClosedRequestsAreNotChased'
    BY <1>2, <1>3, TasksSame DEF At
  <1>6. FeeInv'
    BY <1>2, <1>3, FeesSame
  <1> QED BY <1>4, <1>5, <1>6 DEF IInv

\* Deleting a request cuts its tasks off: none is left that names it.
LEMMA DeleteCommitKeeps ==
  ASSUME IInv, NEW p \in Process, DeleteCommit(p)
  PROVE  IInv'
  <1> DEFINE r == proc[p].r
             cut == Closed(task, r, "cancelled")
             gone == [NoRequest EXCEPT !.status = "deleted"]
             none == [NoExpense EXCEPT !.dropped = TRUE]
  <1>1. /\ request' = [request EXCEPT ![r] = gone] /\ expense' = [expense EXCEPT ![r] = none]
        /\ task' = [t \in Task |-> IF cut[t].request = r THEN [cut[t] EXCEPT !.request = None]
                                   ELSE cut[t]]
        /\ Finish(p) /\ UNCHANGED lead
    BY DEF DeleteCommit
  <1>2. r \in Request
    BY CarriedFields DEF DeleteCommit, At, IInv, ProcTypes
  <1>3. gone \in RequestRow /\ gone.status = "deleted" /\ ~gone.matter
    BY RequestShape DEF RequestRow, NoRequest
  <1>4. none \in ExpenseRow /\ ~none.linked /\ none.booked = 0
    BY DEF NoExpense, ExpenseRow
  <1>5. Sound(cut) /\ \A q \in Request : NotChased(task, q) => NotChased(cut, q)
    BY <1>2, ClosedSound DEF IInv
  <1> HIDE DEF r, cut, gone, none
  <1>6. request \in [Request -> RequestRow] /\ None \notin Request /\ cut \in [Task -> TaskRow]
    BY <1>5, RequestShape, RecordsAssumption DEF IInv, Sound
  <1>7. ASSUME NEW t \in Task
        PROVE  /\ task'[t] \in TaskRow /\ task'[t].status = cut[t].status
               /\ task'[t].rolls = cut[t].rolls /\ task'[t].revived = cut[t].revived
               /\ task'[t].request = IF cut[t].request = r THEN None ELSE cut[t].request
    <2>1. cut[t] \in TaskRow
      BY <1>6
    <2>2. CASE cut[t].request = r
      <3>1. task'[t] = [cut[t] EXCEPT !.request = None]
        BY <1>1, <2>2
      <3> QED BY <2>1, <2>2, <3>1, TaskRowShape
    <2>3. CASE cut[t].request # r
      BY <1>1, <2>1, <2>3
    <2> QED BY <2>2, <2>3
  <1>8. task' \in [Task -> TaskRow]
    BY <1>1, <1>7
  <1>9. /\ request' \in [Request -> RequestRow] /\ request'[r].status = "deleted"
        /\ ~request'[r].matter
        /\ \A q \in Request \ {r} : request'[q] = request[q]
    BY <1>1, <1>2, <1>3, <1>6
  <1>10. \A q \in Request \ {r} : OpenTasks(task', q) = OpenTasks(cut, q)
    BY <1>6, <1>7 DEF OpenTasks
  <1>11. OpenTasks(task', r) = {}
    BY <1>2, <1>6, <1>7 DEF OpenTasks
  <1>12. /\ proc' \in [Process -> Carried]
         /\ \A q \in Process : (At(q, "task"))' => At(q, "task") /\ proc'[q] = proc[q]
         /\ requestLock' \in [Request -> Process \cup {None}]
         /\ leadLock' \in Process \cup {None}
    BY <1>1, FinishFacts DEF IInv
  <1>13. TypeOK'
    <2>1. expense \in [Request -> ExpenseRow]
      BY RequestShape DEF IInv
    <2>2. expense' \in [Request -> ExpenseRow]
      BY <1>1, <1>2, <1>4, <2>1
    <2>3. lead \in {"active", "declined", "converted"}
      BY DEF IInv, TypeOK
    <2> QED BY <1>1, <1>8, <1>9, <1>12, <2>2, <2>3, ExpenseShape DEF TypeOK, TaskRow, RequestRow, Amount
  <1>14. Sound(task)'
    <2>1. \A t \in Task : task'[t].rolls <= 1
      BY <1>5, <1>7 DEF Sound
    <2>2. \A q \in Request : \A t, u \in (Checked(task, q))' : t = u
      BY <1>5, <1>7, <1>10, <1>11 DEF Sound, Checked, OpenTasks
    <2>3. \A t \in Task : task'[t].request \in Request => request'[task'[t].request].status \in Live
      BY <1>5, <1>6, <1>7, <1>9 DEF Sound
    <2>4. ASSUME NEW q \in Process, (At(q, "task"))'
          PROVE  task'[proc'[q].t].request \in {None, proc'[q].r}
      <3>1. proc[q].t \in Task /\ At(q, "task") /\ proc'[q] = proc[q]
        BY <1>12, <2>4, CarriedFields DEF IInv, ProcTypes, At
      <3>2. cut[proc[q].t].request \in {None, proc[q].r}
        BY <1>5, <3>1 DEF Sound
      <3> QED BY <1>7, <3>1, <3>2
    <2> QED BY <1>8, <2>1, <2>2, <2>3, <2>4 DEF Sound
  <1>15. ClosedRequestsAreNotChased'
    <2>1. \A q \in Request \ {r} : NotChased(task, q) => NotChased(task', q)
      BY <1>5, <1>7, <1>10 DEF NotChased, OpenTasks
    <2> QED BY <1>2, <1>9, <2>1, NotChasedNext, RequestShape
  <1>16. FeeInv'
    <2>1. expense'[r] = none /\ \A q \in Request \ {r} : expense'[q] = expense[q]
      BY <1>1, <1>2, RequestShape DEF IInv
    <2> QED BY <1>4, <1>9, <2>1, RequestShape DEF IInv, FeeInv
  <1> QED BY <1>12, <1>13, <1>14, <1>15, <1>16 DEF IInv, ProcTypes

-----------------------------------------------------------------------------
\* A step that moves money, or requests to the matter, and leaves the tasks.
LEMMA MoneyKeeps ==
  ASSUME IInv, UNCHANGED task, lead' \in {"active", "declined", "converted"},
         request' \in [Request -> RequestRow], expense' \in [Request -> ExpenseRow],
         \A r \in Request : request'[r].status = request[r].status,
         proc' \in [Process -> Carried],
         \A p \in Process : (At(p, "task"))' => At(p, "task") /\ proc'[p] = proc[p],
         requestLock' \in [Request -> Process \cup {None}], leadLock' \in Process \cup {None},
         FeeInv'
  PROVE  IInv'
  <1>1. TypeOK'
    BY DEF IInv, TypeOK, RequestRow, Amount, ExpenseRow
  <1>2. Sound(task)' /\ ClosedRequestsAreNotChased'
    BY TasksSame
  <1> QED BY <1>1, <1>2 DEF IInv, ProcTypes

\* A save books a fee on a request of the matter, and is refused where that
\* would drop what is booked.
LEMMA FeeCommitKeeps ==
  ASSUME IInv, NEW p \in Process, FeeCommit(p)
  PROVE  IInv'
  <1> DEFINE r == proc[p].r
             fee == proc[p].fee
             x == expense[r]
             makes == request[r].matter /\ fee > 0
             refused == \/ request[r].status \notin Live
                        \/ x.linked /\ ~makes
                        \/ x.linked /\ x.invoiced /\ x.amount # fee
             row == IF x.linked THEN [x EXCEPT !.amount = fee] ELSE Booked(x, fee)
  <1>1. CASE refused
    BY <1>1, FinishKeeps DEF FeeCommit
  <1>2. CASE ~refused
    <2>1. /\ request' = [request EXCEPT ![r].fee = fee, ![r].unlocked = FALSE]
          /\ expense' = IF ~makes THEN expense ELSE [expense EXCEPT ![r] = row]
          /\ Finish(p) /\ UNCHANGED <<lead, task>>
      BY <1>2 DEF FeeCommit
    <2>2. r \in Request /\ fee \in Fees \cup {0}
      BY CarriedFields DEF FeeCommit, At, IInv, ProcTypes
    <2>3. /\ x \in ExpenseRow /\ x.booked = IF x.linked THEN 1 ELSE 0
      BY <2>2 DEF IInv, TypeOK, ExpenseRow, FeeInv
    <2>4. makes => row \in ExpenseRow /\ row.linked /\ row.booked = 1
      <3>1. makes => fee \in Fees
        BY <2>2
      <3>2. row.amount = fee /\ row.linked
        BY <2>3 DEF ExpenseRow, Booked
      <3>3. row.booked = 1
        BY <2>3 DEF ExpenseRow, Booked
      <3>4. row \in [linked : BOOLEAN, booked : Nat, amount : Fees \cup {0},
                    invoiced : BOOLEAN, dropped : BOOLEAN]
        BY <2>2, <2>3 DEF ExpenseRow, Booked
      <3> QED BY <3>1, <3>2, <3>3, <3>4 DEF ExpenseRow
    <2>5. (x.linked => makes) /\ request[r].status \in Live
      BY <1>2
    <2>6. request \in [Request -> RequestRow] /\ expense \in [Request -> ExpenseRow] /\ FeeInv
      BY RequestShape DEF IInv, TypeOK, ExpenseRow
    <2> HIDE DEF r, fee, row
    <2>7. /\ request' \in [Request -> RequestRow]
          /\ request'[r].fee = fee /\ request'[r].matter = request[r].matter
          /\ \A q \in Request \ {r} : request'[q] = request[q]
          /\ \A q \in Request : request'[q].status = request[q].status
      BY <2>1, <2>2, <2>6 DEF RequestRow, Amount
    <2>8. expense' \in [Request -> ExpenseRow]
      BY <2>1, <2>2, <2>4, <2>6
    <2>9. /\ proc' \in [Process -> Carried]
          /\ \A q \in Process : (At(q, "task"))' => At(q, "task") /\ proc'[q] = proc[q]
          /\ requestLock' \in [Request -> Process \cup {None}]
          /\ leadLock' \in Process \cup {None}
      BY <2>1, FinishFacts DEF IInv
    <2>10. FeeInv'
      <3>1. CASE makes
        BY <2>1, <2>2, <2>4, <2>5, <2>6, <2>7, <3>1 DEF FeeInv
      <3>2. CASE ~makes
        BY <2>1, <2>2, <2>5, <2>6, <2>7, <3>2 DEF FeeInv
      <3> QED BY <3>1, <3>2
    <2> QED BY <2>1, <2>7, <2>8, <2>9, <2>10, MoneyKeeps DEF IInv, TypeOK
  <1> QED BY <1>1, <1>2

\* Billing moves the expense on and off an invoice.
LEMMA InvoiceExpenseKeeps ==
  ASSUME IInv, NEW r \in Request, InvoiceExpense(r)
  PROVE  IInv'
  <1>1. expense \in [Request -> ExpenseRow] /\ request \in [Request -> RequestRow] /\ FeeInv
    BY RequestShape DEF IInv, TypeOK, ExpenseRow
  <1>2. /\ expense' \in [Request -> ExpenseRow]
        /\ \A q \in Request : /\ expense'[q].linked = expense[q].linked
                              /\ expense'[q].booked = expense[q].booked
                              /\ expense'[q].dropped = expense[q].dropped
    BY <1>1 DEF InvoiceExpense, ExpenseRow
  <1>3. UNCHANGED <<lead, request, task, requestLock, leadLock, proc>>
    BY DEF InvoiceExpense
  <1>4. FeeInv'
    BY <1>1, <1>2, <1>3 DEF FeeInv
  <1> QED BY <1>1, <1>2, <1>3, <1>4, MoneyKeeps DEF IInv, TypeOK, ProcTypes, At

\* Who deletes the expense drops it for good, and it was booked once.
LEMMA DeleteExpenseKeeps ==
  ASSUME IInv, NEW r \in Request, DeleteExpense(r)
  PROVE  IInv'
  <1> DEFINE x == expense[r]
             row == [x EXCEPT !.linked = FALSE, !.booked = 0, !.amount = 0, !.dropped = TRUE]
  <1>1. expense \in [Request -> ExpenseRow] /\ request \in [Request -> RequestRow] /\ FeeInv
    BY RequestShape DEF IInv, TypeOK, ExpenseRow
  <1>2. x \in ExpenseRow /\ x.booked = 1 /\ x.booked - 1 = 0
    BY <1>1 DEF DeleteExpense, FeeInv
  <1>3. expense' = [expense EXCEPT ![r] = row]
    <2>1. expense' = [expense EXCEPT ![r] = [x EXCEPT !.linked = FALSE, !.booked = x.booked - 1,
                                                     !.amount = 0, !.dropped = TRUE]]
      BY DEF DeleteExpense
    <2> QED BY <1>2, <2>1
  <1>4. row \in ExpenseRow /\ ~row.linked /\ row.booked = 0 /\ row.dropped
    BY <1>2 DEF ExpenseRow
  <1>5. UNCHANGED <<lead, request, task, requestLock, leadLock, proc>>
    BY DEF DeleteExpense
  <1> HIDE DEF row
  <1>6. /\ expense' \in [Request -> ExpenseRow] /\ expense'[r] = row
        /\ \A q \in Request \ {r} : expense'[q] = expense[q]
    BY <1>1, <1>3, <1>4
  <1>7. FeeInv'
    BY <1>1, <1>4, <1>5, <1>6 DEF FeeInv
  <1> QED BY <1>1, <1>5, <1>6, <1>7, MoneyKeeps DEF IInv, TypeOK, ProcTypes, At

\* The conversion books the fees it read; of the requests it locked these are
\* all that were paid, and nobody booked one meanwhile.
LEMMA ConvertCommitKeeps ==
  ASSUME IInv, Moves, NEW p \in Process, ConvertCommit(p)
  PROVE  IInv'
  <1> DEFINE c == proc[p]
             Moved(r) == [request[r] EXCEPT !.matter = TRUE, !.unlocked = r \notin c.known]
  <1>1. /\ lead' = "converted" /\ Finish(p) /\ UNCHANGED task /\ c.at = "convert: moved"
        /\ \A r \in Request : c.fees[r] > 0 => r \in c.moved
        /\ request' = [r \in Request |-> IF r \in c.moved THEN Moved(r) ELSE request[r]]
        /\ expense' = [r \in Request |-> IF c.fees[r] > 0 THEN Booked(expense[r], c.fees[r])
                                         ELSE expense[r]]
    BY DEF ConvertCommit, At
  <1>2. expense \in [Request -> ExpenseRow] /\ request \in [Request -> RequestRow] /\ FeeInv
    BY RequestShape DEF IInv
  <1>3. c.known \in SUBSET Request /\ c.fees \in [Request -> Amount] /\ c.moved \in SUBSET Request
    BY <1>1, CarriedFields DEF IInv, ProcTypes, Locking
  <1>4. /\ c.known \subseteq c.moved /\ \A r \in c.moved : r \in OnLead
        /\ \A r \in c.known : c.fees[r] = request[r].fee
    BY <1>1 DEF Moves, MoveOK
  <1>5. \A r \in c.moved : request[r].status \in Live /\ ~expense[r].linked
    BY <1>2, <1>4 DEF FeeInv, OnLead
  <1> HIDE DEF c
  <1>6. ASSUME NEW r \in Request
        PROVE  /\ request'[r] \in RequestRow
               /\ request'[r].status = request[r].status /\ request'[r].fee = request[r].fee
               /\ r \in c.moved => /\ request'[r].matter
                                   /\ request'[r].unlocked = (r \notin c.known)
               /\ r \notin c.moved => request'[r] = request[r]
    <2>1. request[r] \in RequestRow
      BY <1>2
    <2>2. CASE r \in c.moved
      <3>1. request'[r] = Moved(r)
        BY <1>1, <2>2
      <3> QED BY <2>1, <2>2, <3>1 DEF RequestRow
    <2>3. CASE r \notin c.moved
      BY <1>1, <2>1, <2>3
    <2> QED BY <2>2, <2>3
  <1>7. ASSUME NEW r \in Request
        PROVE  /\ expense'[r] \in ExpenseRow
               /\ expense'[r].booked = IF expense'[r].linked THEN 1 ELSE 0
               /\ c.fees[r] > 0 => expense'[r].linked
               /\ ~(c.fees[r] > 0) => expense'[r] = expense[r]
    <2>1. expense[r] \in ExpenseRow /\ expense[r].booked = IF expense[r].linked THEN 1 ELSE 0
      BY <1>2 DEF FeeInv
    <2>2. CASE c.fees[r] > 0
      <3>1. expense'[r] = Booked(expense[r], c.fees[r]) /\ expense[r].booked = 0
        BY <1>1, <1>5, <2>1, <2>2
      <3>2. c.fees[r] \in Fees
        <4>1. c.fees[r] \in Fees \cup {0}
          BY <1>3 DEF Amount
        <4> QED BY <2>2, <4>1
      <3> QED BY <2>2, <3>1, <3>2 DEF Booked, ExpenseRow
    <2>3. CASE ~(c.fees[r] > 0)
      BY <1>1, <2>1, <2>3
    <2> QED BY <2>2, <2>3
  <1>8. request' \in [Request -> RequestRow] /\ expense' \in [Request -> ExpenseRow]
    BY <1>1, <1>6, <1>7
  <1>9. FeeInv'
    <2> SUFFICES ASSUME NEW r \in Request
                 PROVE  /\ expense'[r].booked = IF expense'[r].linked THEN 1 ELSE 0
                        /\ request'[r].status \notin Live => ~request'[r].matter
                        /\ ~request'[r].matter => ~expense'[r].linked
                        /\ request'[r].status \in Live /\ request'[r].matter /\ request'[r].fee > 0
                           => \/ expense'[r].linked \/ expense'[r].dropped
                              \/ request'[r].unlocked
      BY DEF FeeInv
    <2>1. CASE r \in c.moved
      <3>1. r \in c.known => c.fees[r] = request'[r].fee
        BY <1>4, <1>6
      <3> QED BY <1>5, <1>6, <1>7, <2>1, <3>1
    <2>2. CASE r \notin c.moved
      <3>1. request'[r] = request[r] /\ expense'[r] = expense[r]
        BY <1>1, <1>6, <1>7, <2>2
      <3> QED BY <1>2, <3>1 DEF FeeInv
    <2> QED BY <2>1, <2>2
  <1>10. /\ proc' \in [Process -> Carried]
         /\ \A q \in Process : (At(q, "task"))' => At(q, "task") /\ proc'[q] = proc[q]
         /\ requestLock' \in [Request -> Process \cup {None}]
         /\ leadLock' \in Process \cup {None}
    BY <1>1, FinishFacts DEF IInv
  <1> QED BY <1>1, <1>6, <1>8, <1>9, <1>10, MoneyKeeps

LEMMA DeclineLeadKeeps ==
  ASSUME IInv, DeclineLead
  PROVE  IInv'
  <1>1. lead' = "declined" /\ UNCHANGED <<request, expense, task, requestLock, leadLock, proc>>
    BY DEF DeclineLead
  <1>2. FeeInv'
    BY <1>1 DEF IInv, FeeInv
  <1>3. request \in [Request -> RequestRow] /\ expense \in [Request -> ExpenseRow]
    BY RequestShape DEF IInv, TypeOK, ExpenseRow
  <1> QED BY <1>1, <1>2, <1>3, MoneyKeeps DEF IInv, TypeOK, ProcTypes, At

-----------------------------------------------------------------------------
\* A step that writes tasks only.
LEMMA TaskWriteKeeps ==
  ASSUME IInv, UNCHANGED <<lead, request, expense>>,
         proc' \in [Process -> Carried],
         \A p \in Process : (At(p, "task"))' => At(p, "task") /\ proc'[p] = proc[p],
         requestLock' \in [Request -> Process \cup {None}], leadLock' \in Process \cup {None},
         Sound(task'), \A r \in Request : request[r].status \in Terminal => NotChased(task', r)
  PROVE  IInv'
  <1>1. TypeOK'
    BY DEF IInv, TypeOK, Sound, TaskRow
  <1>2. Sound(task)'
    BY SoundNext
  <1>3. ClosedRequestsAreNotChased'
    BY DEF ClosedRequestsAreNotChased, NotChased, OpenTasks
  <1>4. FeeInv'
    BY DEF IInv, FeeInv
  <1> QED BY <1>1, <1>2, <1>3, <1>4 DEF IInv, ProcTypes

LEMMA DeleteTaskKeeps ==
  ASSUME IInv, NEW t \in Task, DeleteTask(t)
  PROVE  IInv'
  <1>1. task' = [task EXCEPT ![t] = NoTask]
        /\ UNCHANGED <<lead, request, expense, requestLock, leadLock, proc>>
    BY DEF DeleteTask
  <1>2. /\ NoTask \in TaskRow /\ NoTask.status = "none" /\ NoTask.request = None
        /\ NoTask.rolls = 0
    BY TaskRowShape DEF NoTask
  <1>3. Sound(task) /\ task \in [Task -> TaskRow] /\ None \notin Request
    BY RecordsAssumption DEF IInv, Sound
  <1>4. /\ task' \in [Task -> TaskRow] /\ task'[t] = NoTask
        /\ \A u \in Task \ {t} : task'[u] = task[u]
    BY <1>1, <1>2, <1>3
  <1>5. \A r \in Request : OpenTasks(task', r) \subseteq OpenTasks(task, r) \ {t}
    BY <1>2, <1>4 DEF OpenTasks
  <1>6. Sound(task')
    <2>1. \A u \in Task : task'[u].rolls <= 1
      BY <1>2, <1>3, <1>4 DEF Sound
    <2>2. \A r \in Request : \A u, v \in Checked(task', r) : u = v
      BY <1>3, <1>4, <1>5 DEF Sound, Checked, OpenTasks
    <2>3. \A u \in Task : task'[u].request \in Request => request[task'[u].request].status \in Live
      BY <1>2, <1>3, <1>4 DEF Sound
    <2>4. \A p \in Process : At(p, "task") => task'[proc[p].t].request \in {None, proc[p].r}
      BY <1>2, <1>3, <1>4, CarriedFields DEF Sound, IInv, ProcTypes, At
    <2> QED BY <1>4, <2>1, <2>2, <2>3, <2>4 DEF Sound
  <1>7. \A r \in Request : request[r].status \in Terminal => NotChased(task', r)
    BY <1>4, <1>5, NotChasedNow DEF NotChased, OpenTasks
  <1> QED BY <1>1, <1>6, <1>7, TaskWriteKeeps DEF IInv, TypeOK, ProcTypes, At

\* What TaskCommit writes of the task itself: a reopening leaves its request
\* open and finds no other open task; one that nobody checked is marked.
LEMMA WrittenSound ==
  ASSUME IInv, NEW p \in Process, At(p, "task"), NEW reopening \in BOOLEAN,
         reopening => ~ReopenRefused(proc[p].t, proc[p].r)
  PROVE  LET t == proc[p].t
             row == Written(t, proc[p].to, reopening)
         IN /\ Sound(row)
            /\ \A r \in Request : request[r].status \in Terminal => NotChased(row, r)
            /\ row[t].status = proc[p].to
            /\ proc[p].to # task[t].status => row[t].rolls = 0
  <1> DEFINE t == proc[p].t
             r == proc[p].r
             to == proc[p].to
             row == Written(t, to, reopening)
  <1>1. t \in Task /\ to \in TaskStatuses /\ r \in Request \cup {None}
    BY CarriedFields DEF At, IInv, ProcTypes
  <1>2. Sound(task) /\ task \in [Task -> TaskRow] /\ None \notin Request
    BY RecordsAssumption DEF IInv, Sound
  <1>3. task[t].request \in {None, r}
    BY DEF IInv, Sound
  <1>4. r \in Request /\ task[t].request = r /\ reopening
          => request[r].status \notin Terminal /\ OpenTasks(task, r) \subseteq {t}
    BY <1>1, <1>2 DEF Sound, ReopenRefused
  <1> DEFINE rolls == IF to = task[t].status THEN task[t].rolls ELSE 0
             revived == to = "open" /\ (task[t].revived \/ (task[t].status # "open" /\ ~reopening))
             new == [task[t] EXCEPT !.status = to, !.rolls = rolls, !.revived = revived]
  <1>5. rolls \in Count /\ rolls <= 1 /\ revived \in BOOLEAN
    BY <1>1, <1>2, TaskFields DEF Sound, Count
  <1>6. row = [task EXCEPT ![t] = new]
    BY <1>1, <1>2 DEF Written
  <1> HIDE DEF rolls, revived
  <1>7. /\ new \in TaskRow /\ new.status = to /\ new.rolls = rolls /\ new.revived = revived
        /\ new.request = task[t].request
    <2>1. task[t] \in TaskRow
      BY <1>1, <1>2
    <2> QED BY <1>1, <1>5, <2>1, TaskRowShape
  <1> HIDE DEF t, r, to, row, new
  <1>8. /\ row \in [Task -> TaskRow] /\ row[t] = new
        /\ \A u \in Task \ {t} : row[u] = task[u]
    BY <1>1, <1>2, <1>6, <1>7
  <1>9. \A u \in Task : row[u].request = task[u].request
    BY <1>7, <1>8
  <1>10. \A q \in Request : OpenTasks(row, q) \subseteq OpenTasks(task, q) \cup {t}
    BY <1>8 DEF OpenTasks
  <1>11. ASSUME NEW q \in Request, t \in OpenTasks(row, q), ~row[t].revived
         PROVE  \/ t \in OpenTasks(task, q) /\ ~task[t].revived
                \/ q = r /\ request[r].status \notin Terminal /\ OpenTasks(task, q) \subseteq {t}
    <2>1. to = "open" /\ task[t].request = q /\ ~revived
      BY <1>7, <1>8, <1>11 DEF OpenTasks
    <2>2. ~task[t].revived /\ (task[t].status = "open" \/ reopening)
      BY <1>5, <2>1 DEF revived
    <2> QED BY <1>1, <1>2, <1>3, <1>4, <2>1, <2>2 DEF OpenTasks
  <1>12. Sound(row)
    <2>1. \A u \in Task : row[u].rolls <= 1
      BY <1>2, <1>5, <1>7, <1>8 DEF Sound
    <2>2. ASSUME NEW q \in Request, NEW u \in Checked(row, q), NEW v \in Checked(row, q)
          PROVE  u = v
      <3>1. \A w \in Checked(row, q) : w # t => w \in Checked(task, q)
        BY <1>8 DEF Checked, OpenTasks
      <3>2. CASE t \in Checked(row, q)
        BY <1>2, <1>11, <3>1, <3>2 DEF Sound, Checked
      <3>3. CASE t \notin Checked(row, q)
        BY <1>2, <3>1, <3>3 DEF Sound
      <3> QED BY <3>2, <3>3
    <2>3. \A u \in Task : row[u].request \in Request => request[row[u].request].status \in Live
      BY <1>2, <1>9 DEF Sound
    <2>4. \A q \in Process : At(q, "task") => row[proc[q].t].request \in {None, proc[q].r}
      BY <1>2, <1>9, CarriedFields DEF Sound, IInv, ProcTypes, At
    <2> QED BY <1>8, <2>1, <2>2, <2>3, <2>4 DEF Sound
  <1>13. ASSUME NEW q \in Request, request[q].status \in Terminal
         PROVE  NotChased(row, q)
    <2>1. NotChased(task, q)
      BY <1>13, NotChasedNow
    <2> SUFFICES ASSUME NEW u \in OpenTasks(row, q), ~row[u].revived
                 PROVE  FALSE
      BY DEF NotChased
    <2>2. CASE u = t
      BY <1>11, <1>13, <2>1, <2>2 DEF NotChased
    <2>3. CASE u # t
      BY <1>8, <2>1, <2>3 DEF NotChased, OpenTasks
    <2> QED BY <2>2, <2>3
  <1>14. row[t].status = to /\ (to # task[t].status => row[t].rolls = 0)
    BY <1>7, <1>8 DEF rolls
  <1> QED BY <1>12, <1>13, <1>14 DEF row, t, to

\* Completing a task rolls the chase once: the count starts over when the
\* task becomes done, and who finds it done writes nothing.
LEMMA TaskCommitKeeps ==
  ASSUME IInv, NEW p \in Process, TaskCommit(p)
  PROVE  IInv'
  <1> DEFINE t == proc[p].t
             r == proc[p].r
             to == proc[p].to
             seen == proc[p].seen
             reopening == seen \in TaskClosed /\ to \notin TaskClosed
             completing == to = "done" /\ seen # "done"
             lost == \/ task[t].status \notin TaskStatuses
                     \/ completing /\ r \in Request /\ task[t].status = "done"
             rolls == completing /\ r \in Request /\ request[r].status \in Chased
             row == Written(t, to, reopening)
             counted == [row EXCEPT ![t].rolls = @ + 1]
  <1>1. Finish(p) /\ At(p, "task") /\ UNCHANGED <<lead, request, expense>>
    BY DEF TaskCommit
  <1>2. /\ proc' \in [Process -> Carried]
        /\ \A q \in Process : (At(q, "task"))' => At(q, "task") /\ proc'[q] = proc[q]
        /\ requestLock' \in [Request -> Process \cup {None}]
        /\ leadLock' \in Process \cup {None}
    BY <1>1, FinishFacts DEF IInv
  <1>3. CASE lost \/ (reopening /\ ReopenRefused(t, r))
    BY <1>1, <1>3, FinishKeeps DEF TaskCommit
  <1>4. CASE ~(lost \/ (reopening /\ ReopenRefused(t, r)))
    <2>1. task' \in IF rolls THEN Rolled(counted, r) ELSE {row}
      BY <1>4 DEF TaskCommit
    <2>2. t \in Task
      BY <1>1, CarriedFields DEF At, IInv, ProcTypes
    <2>3. /\ Sound(row)
          /\ \A q \in Request : request[q].status \in Terminal => NotChased(row, q)
          /\ row[t].status = to /\ (to # task[t].status => row[t].rolls = 0)
      BY <1>1, <1>4, WrittenSound
    <2> HIDE DEF row
    <2>4. CASE ~rolls
      BY <1>1, <1>2, <2>1, <2>3, <2>4, TaskWriteKeeps
    <2>5. CASE rolls
      <3>1. r \in Request /\ request[r].status \in Live \ Terminal /\ row[t].rolls = 0
        BY <1>4, <2>3, <2>5, RequestShape
      <3> HIDE DEF t, r, rolls
      <3>2. row \in [Task -> TaskRow]
        BY <2>3 DEF Sound
      <3>3. /\ counted \in [Task -> TaskRow] /\ counted[t].rolls = 1
            /\ counted[t].status = row[t].status /\ counted[t].request = row[t].request
            /\ counted[t].revived = row[t].revived
            /\ \A u \in Task \ {t} : counted[u] = row[u]
        <4> DEFINE new == [row[t] EXCEPT !.rolls = 1]
        <4>1. 1 \in Count
          BY DEF Count
        <4>2. new \in TaskRow /\ new.rolls = 1
          BY <2>2, <3>2, <4>1, TaskRowShape
        <4>3. /\ new.status = row[t].status /\ new.request = row[t].request
              /\ new.revived = row[t].revived
          BY <2>2, <3>2, TaskRowShape
        <4>4. counted = [row EXCEPT ![t] = new]
          BY <2>2, <3>1, <3>2
        <4> HIDE DEF new, counted
        <4> QED BY <2>2, <3>2, <4>2, <4>3, <4>4
      <3> HIDE DEF counted
      <3>4. \A q \in Request : OpenTasks(counted, q) = OpenTasks(row, q)
        BY <3>3 DEF OpenTasks
      <3>5. Sound(counted)
        <4>1. \A u \in Task : counted[u].rolls <= 1
          BY <2>3, <3>3 DEF Sound
        <4>2. \A q \in Request : Checked(counted, q) = Checked(row, q)
          BY <3>3, <3>4 DEF Checked, OpenTasks
        <4>3. \A u \in Task : counted[u].request = row[u].request
          BY <3>3
        <4>4. \A q \in Process : At(q, "task") => counted[proc[q].t].request \in {None, proc[q].r}
          BY <2>3, <4>3, CarriedFields DEF Sound, At, IInv, ProcTypes
        <4> QED BY <2>3, <3>3, <4>1, <4>2, <4>3, <4>4 DEF Sound
      <3>6. \A q \in Request : NotChased(row, q) => NotChased(counted, q)
        BY <3>3, <3>4 DEF NotChased, OpenTasks
      <3>7. task' \in Rolled(counted, r)
        BY <2>1, <2>5
      <3>8. Sound(task') /\ \A q \in Request \ {r} : NotChased(counted, q) => NotChased(task', q)
        BY <3>1, <3>5, <3>7, RolledSound DEF IInv
      <3>9. \A q \in Request : request[q].status \in Terminal => NotChased(task', q)
        BY <2>3, <3>1, <3>6, <3>8
      <3> QED BY <1>1, <1>2, <3>8, <3>9, TaskWriteKeeps
    <2> QED BY <2>4, <2>5
  <1> QED BY <1>3, <1>4

-----------------------------------------------------------------------------
LEMMA InitIInv == Init => IInv
  <1> SUFFICES ASSUME Init PROVE IInv
    OBVIOUS
  <1>1. /\ NoRequest \in RequestRow /\ NoTask \in TaskRow /\ NoExpense \in ExpenseRow
        /\ NoTask.request = None /\ NoTask.rolls = 0 /\ NoTask.status = "none"
        /\ NoRequest.status = "none" /\ ~NoRequest.matter
        /\ ~NoExpense.linked /\ NoExpense.booked = 0
    BY RequestShape, TaskRowShape DEF NoRequest, NoTask, NoExpense, RequestRow, ExpenseRow
  <1>2. Idle \in Carried /\ Idle.at # "task"
    BY DEF Carried, Idle
  <1>3. TypeOK
    BY <1>1 DEF Init, TypeOK, RequestRow, Amount, TaskRow, ExpenseRow
  <1>4. ProcTypes
    BY <1>2 DEF Init, ProcTypes
  <1>5. \A r \in Request : OpenTasks(task, r) = {}
    BY <1>1 DEF Init, OpenTasks
  <1>6. Sound(task)
    BY <1>1, <1>2, <1>5, RecordsAssumption DEF Init, Sound, Checked, At
  <1>7. ClosedRequestsAreNotChased
    BY <1>5 DEF ClosedRequestsAreNotChased
  <1>8. FeeInv
    BY <1>1, RequestShape DEF Init, FeeInv
  <1> QED BY <1>3, <1>4, <1>6, <1>7, <1>8 DEF IInv

LEMMA NextKeepsIInv == IInv /\ Moves /\ [Next]_vars => IInv'
  <1> SUFFICES ASSUME IInv, Moves, [Next]_vars PROVE IInv'
    OBVIOUS
  <1>1. ASSUME NEW p \in Process, Step(p)
        PROVE  IInv'
    <2>1. CASE Abort(p)
      BY <2>1, FinishKeeps DEF Abort
    <2>2. CASE CreateRead(p) \/ CreateInsert(p)
      BY <2>2, CreateReadKeeps, CreateInsertKeeps
    <2>3. CASE SendRead(p) \/ LogRead(p) \/ DeleteRead(p)
      BY <2>3, SendReadKeeps
    <2>4. CASE SendCommit(p) \/ LogCommit(p) \/ DeleteCommit(p)
      BY <2>4, SendCommitKeeps, LogCommitKeeps, DeleteCommitKeeps
    <2>5. CASE StatusRead(p) \/ StatusCommit(p)
      BY <2>5, StatusReadKeeps, StatusCommitKeeps
    <2>6. CASE FeeRead(p) \/ FeeCommit(p)
      BY <2>6, FeeReadKeeps, FeeCommitKeeps
    <2>7. CASE TaskRead(p) \/ TaskCommit(p)
      BY <2>7, TaskReadKeeps, TaskCommitKeeps
    <2>8. CASE ConvertRead(p) \/ ConvertClaim(p) \/ ConvertLock(p)
      BY <2>8, ConvertReadKeeps, ConvertClaimKeeps, ConvertLockKeeps
    <2>9. CASE ConvertReadRequests(p) \/ ConvertMove(p) \/ ConvertCommit(p)
      BY <2>9, ConvertReadRequestsKeeps, ConvertMoveKeeps, ConvertCommitKeeps
    <2> QED BY <1>1, <2>1, <2>2, <2>3, <2>4, <2>5, <2>6, <2>7, <2>8, <2>9 DEF Step
  <1>2. ASSUME NEW r \in Request,
               \/ \E sent \in BOOLEAN : UpdateRequest(r, sent)
               \/ InvoiceExpense(r) \/ DeleteExpense(r)
        PROVE  IInv'
    BY <1>2, UpdateRequestKeeps, InvoiceExpenseKeeps, DeleteExpenseKeeps
  <1>3. ASSUME NEW t \in Task, DeleteTask(t)
        PROVE  IInv'
    BY <1>3, DeleteTaskKeeps
  <1>4. CASE DeclineLead
    BY <1>4, DeclineLeadKeeps
  <1>5. CASE UNCHANGED vars
    <2>1. UNCHANGED <<lead, request, expense, task, requestLock, leadLock, proc>>
      BY <1>5 DEF vars
    <2>2. \A p \in Process : (At(p, "task"))' => task[proc'[p].t].request \in {None, proc'[p].r}
      BY <2>1 DEF IInv, Sound, At
    <2> QED BY <2>1, <2>2, CarriesOn DEF IInv, TypeOK, ProcTypes
  <1> QED BY <1>1, <1>2, <1>3, <1>4, <1>5 DEF Next

-----------------------------------------------------------------------------
\* A step that leaves to every conversion its locks, and as they are the
\* requests it has locked.
LEMMA MovesStay ==
  ASSUME IInv, Moves,
         \A q \in Process : proc'[q].at \in Locking => proc'[q] = proc[q],
         \A q \in Process, r \in OnLead :
           proc'[q].at \in Locking /\ requestLock[r] = q
             => requestLock'[r] = q /\ request'[r] = request[r]
  PROVE  Moves'
  <1> SUFFICES ASSUME NEW q \in Process PROVE MoveOK(q)'
    BY DEF Moves
  <1>1. CASE proc'[q].at \notin Locking
    BY <1>1 DEF MoveOK, Locking
  <1>2. CASE proc'[q].at \in Locking
    <2>1. proc'[q] = proc[q] /\ MoveOK(q)
      BY <1>2 DEF Moves
    <2>2. \A r \in OnLead : requestLock[r] = q
            => requestLock'[r] = q /\ request'[r] = request[r] /\ r \in OnLead'
      BY <1>2 DEF OnLead
    <2> QED BY <1>2, <2>1, <2>2 DEF MoveOK
  <1> QED BY <1>1, <1>2

\* A step that no conversion takes past its claim, and that writes no request.
LEMMA MovesAside ==
  ASSUME IInv, Moves, NEW p \in Process, NEW c \in Carried, c.at \notin Locking,
         proc' = [proc EXCEPT ![p] = c], UNCHANGED <<request, requestLock>>
  PROVE  Moves'
  <1>1. proc'[p] = c /\ \A q \in Process \ {p} : proc'[q] = proc[q]
    BY DEF IInv, ProcTypes
  <1>2. \A q \in Process : proc'[q].at \in Locking => proc'[q] = proc[q]
    BY <1>1
  <1> QED BY <1>2, MovesStay

\* The end of an action that wrote only requests nobody held, or its own.
LEMMA MovesFinish ==
  ASSUME IInv, Moves, NEW p \in Process, Finish(p),
         \A r \in OnLead : requestLock[r] \notin {None, p} => request'[r] = request[r]
  PROVE  Moves'
  <1>1. Idle.at \notin Locking /\ None \notin Process
    BY RecordsAssumption DEF Idle, Locking
  <1>2. proc'[p] = Idle /\ \A q \in Process \ {p} : proc'[q] = proc[q]
    BY FinishFacts DEF IInv
  <1>3. \A q \in Process : proc'[q].at \in Locking => q # p /\ proc'[q] = proc[q]
    BY <1>1, <1>2
  <1>4. \A r \in Request : requestLock[r] # p => requestLock'[r] = requestLock[r]
    BY DEF Finish
  <1>5. \A q \in Process, r \in OnLead :
          proc'[q].at \in Locking /\ requestLock[r] = q
            => requestLock'[r] = q /\ request'[r] = request[r]
    BY <1>1, <1>3, <1>4 DEF OnLead
  <1> QED BY <1>3, <1>5, MovesStay

\* A statement of its own, on a request that nobody holds if it writes one.
LEMMA MovesStatement ==
  ASSUME IInv, Moves, UNCHANGED <<proc, requestLock>>,
         \A r \in OnLead : requestLock[r] # None => request'[r] = request[r]
  PROVE  Moves'
  <1>1. None \notin Process
    BY RecordsAssumption
  <1> QED BY <1>1, MovesStay

LEMMA ReadsKeepMoves ==
  ASSUME IInv, Moves, NEW p \in Process,
         \/ CreateRead(p) \/ SendRead(p) \/ LogRead(p) \/ StatusRead(p) \/ DeleteRead(p)
         \/ FeeRead(p) \/ TaskRead(p) \/ ConvertRead(p)
  PROVE  Moves'
  <1> DEFINE Starts(at) == proc'[p].at = at /\ \A q \in Process \ {p} : proc'[q] = proc[q]
  <1>1. CreateRead(p) => Starts("create")
    BY DEF CreateRead, Start, IInv, ProcTypes
  <1>2. /\ SendRead(p) => Starts("send")
        /\ LogRead(p) => Starts("log")
        /\ DeleteRead(p) => Starts("delete")
    BY DEF SendRead, LogRead, DeleteRead, Start, IInv, ProcTypes
  <1>3. StatusRead(p) => Starts("status")
    BY DEF StatusRead, Start, IInv, ProcTypes
  <1>4. FeeRead(p) => Starts("fee")
    BY DEF FeeRead, Start, IInv, ProcTypes
  <1>5. TaskRead(p) => Starts("task")
    BY DEF TaskRead, Start, IInv, ProcTypes
  <1>6. ConvertRead(p) => Starts("convert")
    BY DEF ConvertRead, Start, IInv, ProcTypes
  <1>7. \A q \in Process : proc'[q].at \in Locking => proc'[q] = proc[q]
    BY <1>1, <1>2, <1>3, <1>4, <1>5, <1>6 DEF Locking
  <1>8. UNCHANGED <<request, requestLock>>
    BY DEF CreateRead, SendRead, LogRead, StatusRead, DeleteRead, FeeRead, TaskRead, ConvertRead
  <1> QED BY <1>7, <1>8, MovesStay

LEMMA CommitsKeepMoves ==
  ASSUME IInv, Moves, NEW p \in Process,
         \/ Abort(p) \/ CreateInsert(p) \/ SendCommit(p) \/ LogCommit(p) \/ StatusCommit(p)
         \/ DeleteCommit(p) \/ FeeCommit(p) \/ TaskCommit(p) \/ ConvertCommit(p)
  PROVE  Moves'
  <1> DEFINE Same == \A r \in OnLead : requestLock[r] \notin {None, p} => request'[r] = request[r]
  <1>1. Finish(p)
    BY DEF Abort, CreateInsert, SendCommit, LogCommit, StatusCommit, DeleteCommit, FeeCommit,
           TaskCommit, ConvertCommit
  <1>2. request \in [Request -> RequestRow]
    BY RequestShape DEF IInv
  <1>3. CASE Abort(p) \/ LogCommit(p) \/ TaskCommit(p)
    <2>1. request' = request
      BY <1>3 DEF Abort, LogCommit, TaskCommit
    <2> QED BY <1>1, <2>1, MovesFinish
  <1>4. CASE CreateInsert(p)
    <2>1. request[proc[p].r].status = "none"
          /\ request' = [request EXCEPT ![proc[p].r] =
                           [NoRequest EXCEPT !.status = "draft", !.matter = proc[p].matter]]
      BY <1>4 DEF CreateInsert
    <2>2. proc[p].r \notin OnLead
      BY <2>1, RequestShape DEF OnLead
    <2>3. Same
      BY <1>2, <2>1, <2>2 DEF OnLead
    <2> QED BY <1>1, <2>3, MovesFinish
  <1>5. CASE SendCommit(p) \/ StatusCommit(p) \/ DeleteCommit(p) \/ FeeCommit(p)
    <2>1. Locked(proc[p].r) /\ \A r \in Request \ {proc[p].r} : request'[r] = request[r]
      BY <1>2, <1>5 DEF SendCommit, StatusCommit, DeleteCommit, FeeCommit
    <2>2. Same
      BY <2>1 DEF Locked, OnLead
    <2> QED BY <1>1, <2>2, MovesFinish
  <1>6. CASE ConvertCommit(p)
    <2>1. At(p, "convert: moved")
          /\ request' = [r \in Request |-> IF r \in proc[p].moved
                           THEN [request[r] EXCEPT !.matter = TRUE, !.unlocked = r \notin proc[p].known]
                           ELSE request[r]]
      BY <1>6 DEF ConvertCommit
    <2>2. \A r \in proc[p].moved : requestLock[r] = p
      BY <2>1 DEF Moves, MoveOK, At
    <2>3. Same
      BY <1>2, <2>1, <2>2 DEF OnLead
    <2> QED BY <1>1, <2>3, MovesFinish
  <1> QED BY <1>3, <1>4, <1>5, <1>6

LEMMA ClaimKeepsMoves ==
  ASSUME IInv, Moves, NEW p \in Process, ConvertClaim(p)
  PROVE  Moves'
  <1>1. CASE lead = proc[p].seen
    <2> DEFINE c == [at |-> "convert: claimed"]
    <2>1. proc' = [proc EXCEPT ![p] = c] /\ UNCHANGED <<request, requestLock>>
      BY <1>1 DEF ConvertClaim
    <2>2. c \in Carried /\ c.at \notin Locking
      BY DEF Carried, Locking
    <2> HIDE DEF c
    <2> QED BY <2>1, <2>2, MovesAside
  <1>2. CASE lead # proc[p].seen
    BY <1>2, MovesFinish DEF ConvertClaim
  <1> QED BY <1>1, <1>2

\* A conversion locks every request of the lead, and nobody held one of them.
LEMMA LockKeepsMoves ==
  ASSUME IInv, Moves, NEW p \in Process, ConvertLock(p)
  PROVE  Moves'
  <1> DEFINE c == [at |-> "convert: locked", known |-> OnLead]
  <1>1. /\ \A r \in OnLead : requestLock[r] = None
        /\ requestLock' = [r \in Request |-> IF r \in OnLead THEN p ELSE requestLock[r]]
        /\ proc' = [proc EXCEPT ![p] = c] /\ request' = request
        /\ c.at = "convert: locked" /\ c.known = OnLead
    BY DEF ConvertLock
  <1> HIDE DEF c
  <1>2. proc'[p] = c /\ \A q \in Process \ {p} : proc'[q] = proc[q]
    BY <1>1 DEF IInv, ProcTypes
  <1>3. OnLead' = OnLead /\ OnLead \subseteq Request /\ None \notin Process
    BY <1>1, RecordsAssumption DEF OnLead
  <1>4. MoveOK(p)'
    <2>1. \A r \in OnLead : requestLock'[r] = p
      BY <1>1, <1>3
    <2> QED BY <1>1, <1>2, <1>3, <2>1 DEF MoveOK
  <1>5. ASSUME NEW q \in Process \ {p} PROVE MoveOK(q)'
    <2>1. MoveOK(q) /\ proc'[q] = proc[q]
      BY <1>2 DEF Moves
    <2>2. \A r \in OnLead : requestLock[r] # q
      BY <1>1, <1>3
    <2> QED BY <1>1, <1>3, <2>1, <2>2 DEF MoveOK, Locking
  <1> QED BY <1>4, <1>5 DEF Moves

\* Of what it locked a conversion reads the fee, since none of it is booked.
LEMMA ReadKeepsMoves ==
  ASSUME IInv, Moves, NEW p \in Process, ConvertReadRequests(p)
  PROVE  Moves'
  <1> DEFINE c == AfterRead(p)
  <1>1. /\ proc' = [proc EXCEPT ![p] = c] /\ c.at = "convert: read" /\ c.known = proc[p].known
        /\ proc[p].at = "convert: locked" /\ UNCHANGED <<request, expense, requestLock>>
    BY ConvertReadStep DEF AfterRead, At
  <1>2. proc'[p] = c /\ \A q \in Process \ {p} : proc'[q] = proc[q]
    BY <1>1 DEF IInv, ProcTypes
  <1>3. OnLead' = OnLead /\ OnLead \subseteq Request
    BY <1>1 DEF OnLead
  <1>4. \A r \in OnLead : ~expense[r].linked
    BY DEF OnLead, IInv, FeeInv
  <1>5. \A r \in c.known : r \in OnLead /\ requestLock[r] = p
    BY <1>1 DEF Moves, MoveOK, Locking
  <1>6. \A r \in c.known : c.fees[r] = request[r].fee
    BY <1>3, <1>4, <1>5 DEF AfterRead
  <1> HIDE DEF c
  <1>7. MoveOK(p)'
    BY <1>1, <1>2, <1>3, <1>5, <1>6 DEF MoveOK
  <1>8. ASSUME NEW q \in Process \ {p} PROVE MoveOK(q)'
    <2>1. MoveOK(q) /\ proc'[q] = proc[q]
      BY <1>2 DEF Moves
    <2> QED BY <1>1, <1>3, <2>1 DEF MoveOK
  <1> QED BY <1>7, <1>8 DEF Moves

\* The move locks what is left of the lead's requests, and takes all along.
LEMMA MoveKeepsMoves ==
  ASSUME IInv, Moves, NEW p \in Process, ConvertMove(p)
  PROVE  Moves'
  <1> DEFINE c == AfterMove(p)
  <1>1. /\ proc' = [proc EXCEPT ![p] = c] /\ proc[p].at = "convert: read"
        /\ \A r \in OnLead : requestLock[r] \in {p, None}
        /\ requestLock' = [r \in Request |-> IF r \in OnLead THEN p ELSE requestLock[r]]
        /\ request' = request
    BY ConvertMoveStep DEF At
  <1>2. /\ c.at = "convert: moved" /\ c.known = proc[p].known /\ c.fees = proc[p].fees
        /\ c.moved = OnLead
    BY DEF AfterMove
  <1>3. proc'[p] = c /\ \A q \in Process \ {p} : proc'[q] = proc[q]
    BY <1>1 DEF IInv, ProcTypes
  <1>4. OnLead' = OnLead /\ OnLead \subseteq Request /\ None \notin Process
    BY <1>1, RecordsAssumption DEF OnLead
  <1>5. \A r \in c.known : r \in OnLead /\ c.fees[r] = request[r].fee
    <2>1. \A r \in proc[p].known : r \in OnLead /\ proc[p].fees[r] = request[r].fee
      BY <1>1 DEF Moves, MoveOK, Locking
    <2> HIDE DEF c
    <2> QED BY <1>2, <2>1
  <1>6. \A r \in OnLead : requestLock'[r] = p
    BY <1>1, <1>4
  <1> HIDE DEF c
  <1>7. MoveOK(p)'
    BY <1>1, <1>2, <1>3, <1>4, <1>5, <1>6 DEF MoveOK
  <1>8. ASSUME NEW q \in Process \ {p} PROVE MoveOK(q)'
    <2>1. MoveOK(q) /\ proc'[q] = proc[q]
      BY <1>3 DEF Moves
    <2>2. \A r \in OnLead : requestLock[r] # q
      BY <1>1, <1>4
    <2> QED BY <1>1, <1>4, <2>1, <2>2 DEF MoveOK, Locking
  <1> QED BY <1>7, <1>8 DEF Moves

LEMMA InitMoves == Init => Moves
  <1>1. Init => \A p \in Process : proc[p].at = "idle"
    BY DEF Init, Idle
  <1> QED BY <1>1 DEF Moves, MoveOK, Locking

LEMMA NextKeepsMoves == IInv /\ Moves /\ [Next]_vars => Moves'
  <1> SUFFICES ASSUME IInv, Moves, [Next]_vars PROVE Moves'
    OBVIOUS
  <1>1. ASSUME NEW p \in Process, Step(p)
        PROVE  Moves'
    BY <1>1, ReadsKeepMoves, CommitsKeepMoves, ClaimKeepsMoves, LockKeepsMoves, ReadKeepsMoves,
       MoveKeepsMoves DEF Step
  <1>2. ASSUME NEW r \in Request, NEW sent \in BOOLEAN, UpdateRequest(r, sent)
        PROVE  Moves'
    <2>1. requestLock[r] = None /\ \A q \in Request \ {r} : request'[q] = request[q]
      BY <1>2, RequestShape DEF UpdateRequest, IInv
    <2> QED BY <1>2, <2>1, MovesStatement DEF UpdateRequest, OnLead
  <1>3. ASSUME UNCHANGED <<request, requestLock, proc>>
        PROVE  Moves'
    BY <1>3, MovesStatement
  <1>4. CASE \/ \E r \in Request : InvoiceExpense(r) \/ DeleteExpense(r)
             \/ \E t \in Task : DeleteTask(t)
             \/ DeclineLead \/ UNCHANGED vars
    BY <1>3, <1>4 DEF InvoiceExpense, DeleteExpense, DeleteTask, DeclineLead, vars
  <1> QED BY <1>1, <1>2, <1>4 DEF Next

\* The two hold together for any number of actions, requests, tasks and fees.
THEOREM Invariance == Spec => [](IInv /\ Moves)
  BY InitIInv, InitMoves, NextKeepsIInv, NextKeepsMoves, PTL DEF Spec

\* Every variable keeps its shape, whatever interleaves.
THEOREM TypeCorrect == Spec => []TypeOK
  <1>1. IInv => TypeOK
    BY DEF IInv
  <1> QED BY <1>1, Invariance, PTL

\* A set of tasks whose members are all the same has one member at most.
LEMMA AtMostOne ==
  ASSUME NEW S \in SUBSET Task, \A t, u \in S : t = u
  PROVE  Cardinality(S) <= 1
  <1>1. CASE S = {}
    BY <1>1, FS_EmptySet
  <1>2. CASE S # {}
    <2>1. PICK t \in S : S = {t}
      BY <1>2
    <2> QED BY <2>1, FS_Singleton
  <1> QED BY <1>1, <1>2

\* However sends, follow-ups, reopenings and clicks on "done" interleave, they
\* leave a request one open task at most, those apart that a status write
\* reopened without checkFollowUpReopen.
THEOREM FollowUpsAreSingle == Spec => []OneFollowUpPerRequest
  <1>1. IInv => OneFollowUpPerRequest
    <2> SUFFICES ASSUME IInv, NEW r \in Request
                 PROVE  Cardinality({t \in OpenTasks(task, r) : ~task[t].revived}) <= 1
      BY DEF OneFollowUpPerRequest
    <2>1. Checked(task, r) \in SUBSET Task /\ \A t, u \in Checked(task, r) : t = u
      BY DEF IInv, Sound, Checked, OpenTasks
    <2>2. Cardinality(Checked(task, r)) <= 1
      BY <2>1, AtMostOne
    <2> QED BY <2>2 DEF Checked
  <1> QED BY <1>1, Invariance, PTL

\* Nobody is asked to chase a closed request, with the same exception: closing
\* cancels the open task, and no action in flight opens another.
THEOREM ClosedStayUnchased == Spec => []ClosedRequestsAreNotChased
  <1>1. IInv => ClosedRequestsAreNotChased
    BY DEF IInv
  <1> QED BY <1>1, Invariance, PTL

\* Of two people who mark one task done, one rolls the chase (TaskCommit's
\* conditional write).
THEOREM CompletionsRollOnce == Spec => []OneRollPerCompletion
  <1>1. IInv => OneRollPerCompletion
    BY DEF IInv, Sound, OneRollPerCompletion
  <1> QED BY <1>1, Invariance, PTL

\* A paid fee reaches the matter, and once: a save and the conversion of the
\* lead never both book it.
THEOREM FeesAreBookedOnce == Spec => []PaidFeeIsBookedOnce
  <1>1. IInv => PaidFeeIsBookedOnce
    <2> SUFFICES ASSUME IInv, NEW r \in Request
                 PROVE  /\ expense[r].booked <= 1
                        /\ request[r].status \in Live /\ request[r].matter /\ request[r].fee > 0
                           => expense[r].linked \/ expense[r].dropped \/ request[r].unlocked
      BY DEF PaidFeeIsBookedOnce
    <2> QED BY DEF IInv, FeeInv
  <1> QED BY <1>1, Invariance, PTL
=============================================================================
