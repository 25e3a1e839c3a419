------------------------ MODULE InvoiceFilingProofs ------------------------
(***************************************************************************)
(* What InvoiceFiling keeps for any number of requests, rows, files and    *)
(* faults.  The argument: a key that was just made is known to one request *)
(* only until a row has it (NewKeysAreOwn), so its undo takes nobody's     *)
(* bytes; a key found without a row gets one again by a late copy only     *)
(* (GoneKeys); and one void at most ever gets through, so what it lists    *)
(* carries no stamp yet and everything it listed is stamped, reported or   *)
(* still to do (OneVoid, Progress).                                        *)
(***************************************************************************)
EXTENDS InvoiceFiling, WellFoundedInduction, TLAPS

Todos == SUBSET (Doc \X Key)
Seen  == [at : {"check"}, stamps : BOOLEAN, counted : BOOLEAN, found : BOOLEAN, fresh : BOOLEAN]

\* What a request is at, and what it carries.
Work ==
  {Idle}
  \cup [at : {"store"}, bytes : {"plain", "stamped"}]
  \cup [at : {"file"}, new : Key]
  \cup [at : {"drop"}, new : Key, todo : Todos]
  \cup [at : {"count", "count late", "list"}]
  \cup Seen
  \cup [at : {"claim"}, from : {"approved", "sent"}, seen : Seen]
  \cup [at : {"stamp"}, todo : Todos \ {{}}]
  \cup [at : {"swap"}, doc : Doc, key : Key, new : Key, todo : Todos]
  \cup [at : {"old", "delete old"}, key : Key, todo : Todos]
  \cup [at : {"copy"}, key : Key]
  \cup [at : {"delete"}, doc : Doc, key : Key]

ReqTypes == req \in [Request -> Work]

\* Of a request in state w: the key it has just made, the rows it has still to
\* stamp, and the other keys it knows.
New(w)   == IF w.at \in {"file", "swap", "drop"} THEN {w.new} ELSE {}
Todo(w)  == IF w.at \in {"drop", "stamp", "swap", "old", "delete old"} THEN w.todo ELSE {}
Known(w) == (IF w.at \in {"swap", "old", "delete old", "copy", "delete"} THEN {w.key} ELSE {})
            \cup {e[2] : e \in Todo(w)}

\* Rows and files are numbered as they are made; a row that exists has a key.
Numbered ==
  /\ lastKey <= MaxKeys /\ lastDoc <= MaxDocs
  /\ \A k \in Key : k > lastKey => store[k] = "none"
  /\ \A d \in Doc : /\ d > lastDoc => docs[d] = NoRow
                    /\ docs[d].key <= lastKey
                    /\ docs[d].key = 0 => docs[d] = NoRow
  /\ \A p \in Request : \A k \in New(req[p]) \cup Known(req[p]) : k <= lastKey

\* Nobody but its request knows a key that no row has had yet.
NewKeysAreOwn ==
  \A p \in Request : \A k \in New(req[p]) :
    /\ ~IsStoredFileReferenced(k)
    /\ \A q \in Request : k \notin Known(req[q]) /\ (q # p => k \notin New(req[q]))
    /\ req[p].at = "file" => store[k] # "none"
    /\ req[p].at = "swap" => store[k] = "stamped"

\* Bytes about to be removed are those of late copies at most.
GoneKeys ==
  \A p \in Request : req[p].at = "delete old" =>
    \A d \in Doc : docs[d].key = req[p].key => ~docs[d].filed /\ req[p].key \in late

\* The work of the void that got through, a stamped copy of its own included.
VoidWork(w) ==
  \/ w.at \in {"count late", "list", "stamp", "swap"}
  \/ w.at \in {"old", "delete old", "drop"} /\ w.todo # {}
  \/ w.at = "store" /\ w.bytes = "stamped"

Unstamped == \A k \in Key : store[k] # "stamped"

\* Only a void of a sent invoice counts its copies.
Counted(seen, now) ==
  /\ seen.found => seen.stamps /\ seen.counted
  /\ seen.counted => now # "approved"

\* One void at most gets through; until it lists the copies none is stamped.
OneVoid ==
  /\ \A p \in Request : VoidWork(req[p]) => status = "void"
  /\ \A p, q \in Request : VoidWork(req[p]) /\ VoidWork(req[q]) => p = q
  /\ status # "void" => Unstamped
  /\ \A p \in Request :
       /\ req[p].at \in {"count late", "list"} => Unstamped
       /\ req[p].at = "count late" => ~voided.found
       /\ \A e \in Todo(req[p]) : store[e[2]] # "stamped"
       /\ req[p].at = "count" => status # "approved"
       /\ req[p].at = "check" => Counted(req[p], status)
       /\ req[p].at = "claim" => /\ Counted(req[p].seen, status)
                                 /\ req[p].seen.counted => req[p].from = "sent"

\* The void has still to deal with row d.
Left(w, d) ==
  \/ w.at = "list"
  \/ \E e \in Todo(w) : e[1] = d
  \/ w.at = "swap" /\ w.doc = d

Progress ==
  /\ voided.rows \subseteq Doc
  /\ \A d \in voided.rows : d <= lastDoc /\ (docs[d] = NoRow \/ docs[d].filed)
  /\ voided.found /\ ~voided.died =>
       \A d \in voided.rows : Stamped(d) \/ d \in voided.failed \/ \E p \in Request : Left(req[p], d)

VoidedType == voided \in [rows : SUBSET Doc, failed : SUBSET Doc, stamps : BOOLEAN, found : BOOLEAN,
                          died : BOOLEAN]

Bytes ==
  /\ docs \in [Doc -> [key : Key \cup {0}, filed : BOOLEAN]]
  /\ store \in [Key -> {"none", "plain", "stamped"}]
  /\ lastDoc \in Nat /\ lastKey \in Nat /\ stray \cup late \subseteq Key
  /\ ReqTypes /\ Numbered /\ NewKeysAreOwn /\ GoneKeys /\ BytesAndRowsAgree

IInv == TypeOK /\ VoidedType /\ Bytes /\ OneVoid /\ Progress

\* InHand, as a function of what the request is at.
Hand(w) ==
  IF w.at \in {"file", "swap", "drop"} THEN {w.new}
  ELSE IF w.at \in {"old", "delete old"} THEN {w.key} ELSE {}

-----------------------------------------------------------------------------
\* The fields of what a request carries.
LEMMA WorkFields ==
  ASSUME NEW w \in Work
  PROVE  /\ w.at = "store" => w.bytes \in {"plain", "stamped"}
         /\ w.at \in {"file", "swap", "drop"} => w.new \in Key
         /\ w.at \in {"drop", "stamp", "swap", "old", "delete old"} => w.todo \in Todos
         /\ w.at \in {"swap", "old", "delete old", "copy", "delete"} => w.key \in Key
         /\ w.at \in {"swap", "delete"} => w.doc \in Doc
         /\ w.at = "stamp" => w.todo # {}
         /\ w.at = "check" => w \in Seen
         /\ w.at \in {"old", "delete old"} => w \in [at : {"old", "delete old"}, key : Key, todo : Todos]
         /\ w.at = "claim" => w.from \in {"approved", "sent"} /\ w.seen \in Seen
  <1>0. CASE w = Idle
    BY <1>0 DEF Idle
  <1>1. CASE w \in [at : {"store"}, bytes : {"plain", "stamped"}]
                \cup [at : {"count", "count late", "list"}]
    BY <1>1
  <1>2. CASE w \in [at : {"file"}, new : Key] \cup [at : {"drop"}, new : Key, todo : Todos]
    BY <1>2
  <1>3. CASE w \in Seen
    BY <1>3 DEF Seen
  <1>4. CASE w \in [at : {"claim"}, from : {"approved", "sent"}, seen : Seen]
    BY <1>4
  <1>5. CASE w \in [at : {"stamp"}, todo : Todos \ {{}}]
                \cup [at : {"swap"}, doc : Doc, key : Key, new : Key, todo : Todos]
    BY <1>5
  <1>6. CASE w \in [at : {"old", "delete old"}, key : Key, todo : Todos]
    BY <1>6
  <1>7. CASE w \in [at : {"copy"}, key : Key] \cup [at : {"delete"}, doc : Doc, key : Key]
    BY <1>7
  <1> QED BY <1>0, <1>1, <1>2, <1>3, <1>4, <1>5, <1>6, <1>7 DEF Work

\* The keys a request carries are keys.
LEMMA CarriedKeys ==
  ASSUME NEW w \in Work
  PROVE  New(w) \subseteq Key /\ Known(w) \subseteq Key /\ Todo(w) \in Todos /\ Hand(w) \subseteq Key
  <1>1. Todo(w) \in Todos
    BY WorkFields DEF Todo, Todos
  <1>2. {e[2] : e \in Todo(w)} \subseteq Key
    BY <1>1 DEF Todos
  <1> QED BY <1>1, <1>2, WorkFields DEF New, Known, Hand

\* In both states, InHand is what Hand says.
LEMMA HandsAre ==
  ASSUME NEW p \in Request
  PROVE  InHand(p) = Hand(req[p]) /\ InHand(p)' = Hand(req'[p])
  BY DEF InHand, Hand

\* In both states, bytes without a row are accounted for.
LEMMA StrayForm ==
  /\ NoStrayBytes <=> \A k \in Key : store[k] # "none" /\ ~IsStoredFileReferenced(k) =>
                        k \in stray \/ \E p \in Request : k \in Hand(req[p])
  /\ NoStrayBytes' <=> \A k \in Key : store'[k] # "none" /\ ~IsStoredFileReferenced(k)' =>
                         k \in stray' \/ \E p \in Request : k \in Hand(req'[p])
  <1>1. UNION {InHand(p) : p \in Request} = UNION {Hand(req[p]) : p \in Request}
    BY HandsAre
  <1>2. (UNION {InHand(p) : p \in Request})' = UNION {Hand(req'[p]) : p \in Request}
    <2>1. (UNION {InHand(p) : p \in Request})' = UNION {InHand(p)' : p \in Request}
      OBVIOUS
    <2> QED BY <2>1, HandsAre
  <1>3. \A k : k \in UNION {Hand(req[p]) : p \in Request} <=> \E p \in Request : k \in Hand(req[p])
    OBVIOUS
  <1>4. \A k : k \in UNION {Hand(req'[p]) : p \in Request} <=> \E p \in Request : k \in Hand(req'[p])
    OBVIOUS
  <1> QED BY <1>1, <1>2, <1>3, <1>4 DEF NoStrayBytes

\* A list of rows that is not empty has an oldest.
LEMMA OldestOf ==
  ASSUME NEW S \in Todos, S # {}
  PROVE  \E f \in S : \A g \in S : f[1] <= g[1]
  <1> DEFINE LT == OpToRel(<, Nat)
             T == {e[1] : e \in S}
  <1>1. IsWellFoundedOn(LT, Nat)
    BY NatLessThanWellFounded
  <1>2. \A x, y \in Nat : x < y => <<x, y>> \in LT
    BY SMT DEF OpToRel
  <1> HIDE DEF LT
  <1>3. T \subseteq Nat /\ T # {}
    BY InvoiceFilingAssumption DEF Todos, Doc
  <1>4. PICK x \in T : \A y \in T : ~(<<y, x>> \in LT)
    <2> HIDE DEF T
    <2>1. \E x \in T : \A y \in T : ~(<<y, x>> \in LT)
      BY <1>1, <1>3, WFMin, Zenon
    <2> QED BY <2>1
  <1>5. \A y \in T : ~(y < x)
    BY <1>2, <1>3, <1>4, Zenon
  <1>6. \A y \in T : x <= y
    BY <1>3, <1>5, SMT
  <1>7. PICK f \in S : f[1] = x
    BY <1>4
  <1> QED BY <1>6, <1>7

\* A request moves on.
LEMMA GotoFacts ==
  ASSUME ReqTypes, NEW p \in Request, NEW w \in Work, Goto(p, w)
  PROVE  ReqTypes' /\ req'[p] = w /\ \A q \in Request \ {p} : req'[q] = req[q]
  BY DEF ReqTypes, Goto

-----------------------------------------------------------------------------
\* A step of p that neither makes nor removes rows or bytes: p lets go of no
\* bytes that nobody else accounts for, and learns keys from rows only.
LEMMA QuietBytes ==
  ASSUME Bytes, UNCHANGED <<docs, store, lastDoc, lastKey, late>>,
         stray \subseteq stray', stray' \subseteq Key,
         NEW p \in Request, ReqTypes', \A q \in Request \ {p} : req'[q] = req[q],
         New(req'[p]) \subseteq New(req[p]), req'[p].at \notin {"file", "swap"},
         \A k \in Known(req'[p]) : k \in Known(req[p]) \/ IsStoredFileReferenced(k),
         req'[p].at = "delete old" => ~IsStoredFileReferenced(req'[p].key),
         \A k \in Hand(req[p]) : \/ k \in Hand(req'[p]) \cup stray'
                                 \/ IsStoredFileReferenced(k) \/ store[k] = "none"
  PROVE  Bytes'
  <1>1. docs \in [Doc -> [key : Key \cup {0}, filed : BOOLEAN]]
    BY DEF Bytes
  <1>2. Numbered'
    <2>1. ASSUME NEW q \in Request, NEW k \in New(req'[q]) \cup Known(req'[q])
          PROVE  k <= lastKey
      <3>1. CASE q # p
        BY <2>1, <3>1 DEF Bytes, Numbered
      <3>2. CASE q = p /\ k \in New(req[p]) \cup Known(req[p])
        BY <3>2 DEF Bytes, Numbered
      <3>3. CASE q = p /\ IsStoredFileReferenced(k)
        BY <3>3 DEF Bytes, Numbered, IsStoredFileReferenced
      <3> QED BY <2>1, <3>1, <3>2, <3>3
    <2> QED BY <2>1 DEF Bytes, Numbered
  <1>3. NewKeysAreOwn'
    <2> SUFFICES ASSUME NEW q \in Request, NEW k \in New(req'[q])
                 PROVE  /\ ~IsStoredFileReferenced(k)
                        /\ \A o \in Request : k \notin Known(req'[o]) /\ (o # q => k \notin New(req'[o]))
                        /\ req'[q].at = "file" => store[k] # "none"
                        /\ req'[q].at = "swap" => store[k] = "stamped"
      BY DEF NewKeysAreOwn, IsStoredFileReferenced
    <2>1. k \in New(req[q])
      OBVIOUS
    <2>2. /\ ~IsStoredFileReferenced(k)
          /\ \A o \in Request : k \notin Known(req[o]) /\ (o # q => k \notin New(req[o]))
          /\ req[q].at = "file" => store[k] # "none"
          /\ req[q].at = "swap" => store[k] = "stamped"
      BY <2>1 DEF Bytes, NewKeysAreOwn
    <2> QED BY <2>2
  <1>4. GoneKeys'
    <2> SUFFICES ASSUME NEW q \in Request, req'[q].at = "delete old",
                        NEW d \in Doc, docs[d].key = req'[q].key
                 PROVE  ~docs[d].filed /\ req'[q].key \in late
      BY DEF GoneKeys
    <2> QED BY DEF Bytes, GoneKeys, IsStoredFileReferenced
  <1>5. BytesAndRowsAgree'
    <2>1. BytesOutliveRows'
      BY DEF Bytes, BytesAndRowsAgree, BytesOutliveRows
    <2>2. ASSUME NEW k \in Key, store[k] # "none", ~IsStoredFileReferenced(k)
          PROVE  k \in stray' \/ \E q \in Request : k \in Hand(req'[q])
      <3>1. k \in stray \/ \E q \in Request : k \in Hand(req[q])
        BY <2>2, StrayForm DEF Bytes, BytesAndRowsAgree
      <3> QED BY <2>2, <3>1
    <2>3. \A k \in Key : IsStoredFileReferenced(k)' <=> IsStoredFileReferenced(k)
      BY DEF IsStoredFileReferenced
    <2>4. NoStrayBytes'
      BY <2>2, <2>3, StrayForm
    <2> QED BY <2>1, <2>4 DEF BytesAndRowsAgree
  <1> QED BY <1>2, <1>3, <1>4, <1>5 DEF Bytes

\* A request that is not at the void's work has no row to stamp.
LEMMA NoVoidWork ==
  ASSUME NEW w, ~VoidWork(w)
  PROVE  Todo(w) = {} /\ w.at \notin {"count late", "list", "stamp", "swap"}
  BY DEF VoidWork, Todo

\* A step of p in which no void gets through.  The void that did may stamp.
LEMMA VoidKept ==
  ASSUME OneVoid, ReqTypes, NEW p \in Request, ReqTypes', \A q \in Request \ {p} : req'[q] = req[q],
         status' = "void" <=> status = "void", status' = "approved" => status = "approved",
         VoidWork(req'[p]) => VoidWork(req[p]),
         \/ VoidWork(req[p])
         \/ /\ voided'.found = voided.found
            /\ \A k \in Key : store'[k] = "stamped" => store[k] = "stamped",
         req'[p].at # "count late", req'[p].at = "list" => Unstamped',
         \A e \in Todo(req'[p]) : store'[e[2]] # "stamped",
         req'[p].at = "count" => status' # "approved",
         req'[p].at = "check" => Counted(req'[p], status'),
         req'[p].at = "claim" => /\ Counted(req'[p].seen, status')
                                 /\ req'[p].seen.counted => req'[p].from = "sent"
  PROVE  OneVoid'
  <1>1. \A q \in Request : VoidWork(req'[q]) => VoidWork(req[q])
    OBVIOUS
  <1>2. \A q \in Request : VoidWork(req'[q]) => status' = "void"
    BY <1>1 DEF OneVoid
  <1>3. \A q, o \in Request : VoidWork(req'[q]) /\ VoidWork(req'[o]) => q = o
    BY <1>1 DEF OneVoid
  <1>4. status' # "void" => Unstamped'
    BY DEF OneVoid, Unstamped
  <1>5. ASSUME NEW q \in Request, q # p
        PROVE  /\ req'[q].at \in {"count late", "list"} => Unstamped'
               /\ req'[q].at = "count late" => ~voided'.found
               /\ \A e \in Todo(req'[q]) : store'[e[2]] # "stamped"
    <2>1. req'[q] = req[q] /\ req[q] \in Work
      BY <1>5 DEF ReqTypes
    <2>2. /\ req[q].at \in {"count late", "list"} => Unstamped
          /\ req[q].at = "count late" => ~voided.found
          /\ \A e \in Todo(req[q]) : store[e[2]] # "stamped"
      BY DEF OneVoid
    <2>3. CASE VoidWork(req[p])
      <3>1. ~VoidWork(req[q])
        BY <1>5, <2>3 DEF OneVoid
      <3> QED BY <2>1, <3>1, NoVoidWork
    <2>4. CASE /\ voided'.found = voided.found
               /\ \A k \in Key : store'[k] = "stamped" => store[k] = "stamped"
      <3>1. \A e \in Todo(req[q]) : e[2] \in Key
        BY <2>1, CarriedKeys DEF Todos
      <3> QED BY <2>1, <2>2, <2>4, <3>1 DEF Unstamped
    <2> QED BY <2>3, <2>4
  <1>6. ASSUME NEW q \in Request
        PROVE  /\ req'[q].at = "count" => status' # "approved"
               /\ req'[q].at = "check" => Counted(req'[q], status')
               /\ req'[q].at = "claim" => /\ Counted(req'[q].seen, status')
                                          /\ req'[q].seen.counted => req'[q].from = "sent"
    BY DEF OneVoid, Counted
  <1> QED BY <1>2, <1>3, <1>4, <1>5, <1>6 DEF OneVoid

\* A step of p that neither claims the void nor unfiles or unstamps a row that
\* stays: what p drops from its list is stamped, reported, or p died.
LEMMA ProgressKept ==
  ASSUME Progress, NEW p \in Request, \A q \in Request \ {p} : req'[q] = req[q],
         voided'.rows = voided.rows, voided.failed \subseteq voided'.failed,
         voided'.found => voided.found \/ req'[p].at = "list", voided.died => voided'.died,
         lastDoc \in Nat, lastDoc' \in Nat, lastDoc <= lastDoc',
         \A d \in voided.rows : docs'[d] = NoRow \/ docs'[d].filed,
         \A d \in voided.rows : Stamped(d) => (docs'[d] # NoRow => store'[docs'[d].key] = "stamped"),
         ~voided'.died =>
           \A d \in voided.rows : Left(req[p], d) =>
             \/ Left(req'[p], d) \/ d \in voided'.failed
             \/ docs'[d] # NoRow => store'[docs'[d].key] = "stamped"
  PROVE  Progress'
  <1>1. voided'.rows \subseteq Doc
    BY DEF Progress
  <1>2. \A d \in voided'.rows : d <= lastDoc' /\ (docs'[d] = NoRow \/ docs'[d].filed)
    BY InvoiceFilingAssumption DEF Progress, Doc
  <1>3. ASSUME voided'.found, ~voided'.died, NEW d \in voided.rows
        PROVE  \/ docs'[d] # NoRow => store'[docs'[d].key] = "stamped"
               \/ d \in voided'.failed \/ \E q \in Request : Left(req'[q], d)
    <2>1. CASE req'[p].at = "list"
      BY <2>1 DEF Left
    <2>2. CASE voided.found
      <3>1. Stamped(d) \/ d \in voided.failed \/ \E q \in Request : Left(req[q], d)
        BY <1>3, <2>2 DEF Progress
      <3>2. ASSUME NEW q \in Request, Left(req[q], d)
            PROVE  \/ docs'[d] # NoRow => store'[docs'[d].key] = "stamped"
                   \/ d \in voided'.failed \/ \E o \in Request : Left(req'[o], d)
        <4>1. CASE q = p
          BY <1>3, <3>2, <4>1
        <4>2. CASE q # p
          BY <3>2, <4>2
        <4> QED BY <4>1, <4>2
      <3> QED BY <1>3, <3>1, <3>2
    <2> QED BY <1>3, <2>1, <2>2
  <1> QED BY <1>1, <1>2, <1>3 DEF Progress, Stamped

\* A step that reads, or gives up with nothing in its hands.
LEMMA ReadKeeps ==
  ASSUME IInv, UNCHANGED <<docs, store, lastDoc, lastKey, history>>,
         status' \in {"approved", "sent", "paid", "void"}, faults' \in Nat,
         status' = "void" <=> status = "void", status' = "approved" => status = "approved",
         NEW p \in Request, ReqTypes', \A q \in Request \ {p} : req'[q] = req[q],
         Hand(req[p]) = {}, Todo(req[p]) = {}, req[p].at \notin {"list", "swap"},
         New(req'[p]) = {}, Todo(req'[p]) = {},
         \A k \in Known(req'[p]) : IsStoredFileReferenced(k),
         VoidWork(req'[p]) => VoidWork(req[p]),
         req'[p].at \notin {"file", "swap", "delete old", "count late", "list"},
         req'[p].at = "count" => status' # "approved",
         req'[p].at = "check" => Counted(req'[p], status'),
         req'[p].at = "claim" => /\ Counted(req'[p].seen, status')
                                 /\ req'[p].seen.counted => req'[p].from = "sent"
  PROVE  IInv'
  <1>1. UNCHANGED <<voided, stray, late>>
    BY DEF history
  <1>2. TypeOK' /\ VoidedType'
    BY <1>1 DEF IInv, TypeOK, VoidedType
  <1>3. Bytes'
    BY <1>1, QuietBytes DEF IInv, Bytes
  <1>4. OneVoid'
    BY <1>1, VoidKept DEF IInv, Bytes
  <1>5. Progress'
    <2>1. \A d \in voided.rows : ~Left(req[p], d)
      BY DEF Left
    <2> QED BY <1>1, <2>1, ProgressKept DEF IInv, Bytes, Progress, Stamped
  <1> QED BY <1>2, <1>3, <1>4, <1>5 DEF IInv

\* What is neither listed, stamped nor in a request's hands at rest.
LEMMA IdleFacts ==
  /\ Idle \in Work /\ New(Idle) = {} /\ Todo(Idle) = {} /\ Known(Idle) = {} /\ Hand(Idle) = {}
  /\ ~VoidWork(Idle) /\ Idle.at = "idle"
  BY DEF Idle, Work, New, Todo, Known, Hand, VoidWork

\* Filing starts, or does not, after the status is committed.
LEMMA TellKeeps ==
  ASSUME IInv, NEW p \in Request,
         SendInvoice(p) \/ RecordInvoicePayment(p) \/ ResendInvoiceEmail(p)
  PROVE  IInv'
  <1>1. PICK w \in {ToFile("plain"), Idle} : Goto(p, w)
    BY DEF SendInvoice, RecordInvoicePayment, ResendInvoiceEmail
  <1>2. /\ req[p] = Idle /\ status # "void" /\ status' \in {"sent", "paid"}
        /\ UNCHANGED <<docs, store, lastDoc, lastKey, faults, history>>
    BY DEF SendInvoice, RecordInvoicePayment, ResendInvoiceEmail
  <1>3. w \in Work /\ New(w) = {} /\ Todo(w) = {} /\ Known(w) = {} /\ ~VoidWork(w)
        /\ w.at \in {"idle", "store"}
    <2>1. ToFile("plain") \in Work /\ ToFile("plain").at = "store" /\ ToFile("plain").bytes = "plain"
      BY DEF ToFile, Work
    <2>2. CASE w = ToFile("plain")
      BY <2>1, <2>2 DEF New, Todo, Known, VoidWork
    <2>3. CASE w = Idle
      BY <2>3, IdleFacts
    <2> QED BY <1>1, <2>2, <2>3
  <1>4. ReqTypes' /\ req'[p] = w /\ \A q \in Request \ {p} : req'[q] = req[q]
    BY <1>1, <1>3, GotoFacts DEF IInv, Bytes
  <1> QED BY <1>2, <1>3, <1>4, IdleFacts, ReadKeeps DEF IInv, TypeOK

\* Both ways to void an invoice start with a read.
LEMMA VoidStartKeeps ==
  ASSUME IInv, NEW p \in Request, SetInvoiceStatus(p) \/ VoidInvoice(p)
  PROVE  IInv'
  <1>1. PICK w : /\ Goto(p, w)
                 /\ \/ w = [at |-> "count"] /\ status = "sent"
                    \/ w = Unprepared
                    \/ w = [Unprepared EXCEPT !.stamps = TRUE]
    BY DEF SetInvoiceStatus, VoidInvoice
  <1>2. req[p] = Idle /\ UNCHANGED <<status, docs, store, lastDoc, lastKey, faults, history>>
    BY DEF SetInvoiceStatus, VoidInvoice
  <1>3. /\ w \in Work /\ New(w) = {} /\ Todo(w) = {} /\ Known(w) = {} /\ ~VoidWork(w)
        /\ w.at \in {"count", "check"} /\ (w.at = "count" => status = "sent")
        /\ w.at = "check" => Counted(w, status)
    <2>1. CASE w = [at |-> "count"] /\ status = "sent"
      BY <2>1 DEF Work, New, Todo, Known, VoidWork
    <2>2. CASE w = Unprepared \/ w = [Unprepared EXCEPT !.stamps = TRUE]
      <3>1. w \in Seen /\ w.at = "check" /\ ~w.found /\ ~w.counted
        <4>1. PICK b \in BOOLEAN : w = [at |-> "check", stamps |-> b, counted |-> FALSE,
                                       found |-> FALSE, fresh |-> FALSE]
          BY <2>2 DEF Unprepared
        <4> QED BY <4>1 DEF Seen
      <3>2. w \in Work
        BY <3>1 DEF Work
      <3> QED BY <3>1, <3>2 DEF New, Todo, Known, VoidWork, Counted
    <2> QED BY <1>1, <2>1, <2>2
  <1>4. ReqTypes' /\ req'[p] = w /\ \A q \in Request \ {p} : req'[q] = req[q]
    BY <1>1, <1>3, GotoFacts DEF IInv, Bytes
  <1>5. status \in {"approved", "sent", "paid", "void"} /\ faults' \in Nat
    BY <1>2 DEF IInv, TypeOK
  <1> QED BY <1>2, <1>3, <1>4, <1>5, IdleFacts, ReadKeeps

LEMMA CountFiledKeeps ==
  ASSUME IInv, NEW p \in Request, CountFiled(p)
  PROVE  IInv'
  <1>1. PICK fresh \in BOOLEAN :
          /\ Goto(p, [at |-> "check", stamps |-> TRUE, counted |-> TRUE, found |-> Filed # {},
                      fresh |-> fresh])
          /\ IF Filed = {} /\ ~fresh THEN Fault ELSE UNCHANGED faults
    BY DEF CountFiled
  <1>2. req[p].at = "count" /\ UNCHANGED <<status, docs, store, lastDoc, lastKey, history>>
    BY DEF CountFiled
  <1> DEFINE w == [at |-> "check", stamps |-> TRUE, counted |-> TRUE, found |-> Filed # {},
                   fresh |-> fresh]
  <1>3. w \in Work /\ w.at = "check" /\ w.stamps /\ w.counted
    <2>1. w \in Seen
      BY DEF Seen
    <2> QED BY <2>1 DEF Work
  <1>4. ReqTypes' /\ req'[p] = w /\ \A q \in Request \ {p} : req'[q] = req[q]
    <2>1. Goto(p, w)
      BY <1>1
    <2> HIDE DEF w
    <2> QED BY <1>3, <2>1, GotoFacts DEF IInv, Bytes
  <1>5. status # "approved"
    BY <1>2 DEF IInv, OneVoid
  <1> HIDE DEF w
  <1>6. Counted(w, status)
    BY <1>3, <1>5 DEF Counted
  <1>7. New(w) = {} /\ Todo(w) = {} /\ Known(w) = {} /\ ~VoidWork(w)
    BY <1>3 DEF New, Todo, Known, VoidWork
  <1>8. Hand(req[p]) = {} /\ Todo(req[p]) = {}
    BY <1>2 DEF Hand, Todo
  <1>9. status' \in {"approved", "sent", "paid", "void"} /\ faults' \in Nat
    BY <1>1, <1>2 DEF IInv, TypeOK, Fault
  <1> QED BY <1>2, <1>3, <1>4, <1>6, <1>7, <1>8, <1>9, ReadKeeps

\* A void that counted copies finds the invoice sent, or sent no longer.
LEMMA CheckVoidKeeps ==
  ASSUME IInv, NEW p \in Request, CheckVoid(p)
  PROVE  IInv'
  <1> DEFINE w == IF status \in {"approved", "sent"}
                  THEN [at |-> "claim", from |-> status, seen |-> req[p]] ELSE Idle
  <1>1. /\ req[p].at = "check" /\ Goto(p, w)
        /\ UNCHANGED <<status, docs, store, lastDoc, lastKey, faults, history>>
    BY DEF CheckVoid
  <1>2. req[p] \in Seen /\ Counted(req[p], status)
    BY <1>1, WorkFields DEF IInv, Bytes, ReqTypes, OneVoid
  <1>3. /\ w \in Work /\ New(w) = {} /\ Todo(w) = {} /\ Known(w) = {} /\ ~VoidWork(w)
        /\ w.at \in {"idle", "claim"}
        /\ w.at = "claim" => Counted(w.seen, status) /\ (w.seen.counted => w.from = "sent")
    <2>1. CASE status \in {"approved", "sent"}
      <3> DEFINE c == [at |-> "claim", from |-> status, seen |-> req[p]]
      <3>1. c \in Work /\ c.at = "claim" /\ c.from = status /\ c.seen = req[p]
        BY <1>2, <2>1 DEF Work
      <3>2. w = c
        BY <2>1
      <3> HIDE DEF c, w
      <3> QED BY <1>2, <2>1, <3>1, <3>2 DEF New, Todo, Known, VoidWork, Counted
    <2>2. CASE status \notin {"approved", "sent"}
      BY <2>2, IdleFacts
    <2> QED BY <2>1, <2>2
  <1> HIDE DEF w
  <1>4. ReqTypes' /\ req'[p] = w /\ \A q \in Request \ {p} : req'[q] = req[q]
    BY <1>1, <1>3, GotoFacts DEF IInv, Bytes
  <1>5. Hand(req[p]) = {} /\ Todo(req[p]) = {}
    BY <1>1 DEF Hand, Todo
  <1>6. status' \in {"approved", "sent", "paid", "void"} /\ faults' \in Nat
    BY <1>1 DEF IInv, TypeOK
  <1> QED BY <1>1, <1>3, <1>4, <1>5, <1>6, ReadKeeps

\* Copying and deleting start with a row and its key.
LEMMA ReadRowKeeps ==
  ASSUME IInv, NEW p \in Request, NEW d \in Doc,
         CopyDocumentToFolder(p, d) \/ DeleteDocument(p, d)
  PROVE  IInv'
  <1>1. PICK w : /\ Goto(p, w)
                 /\ \/ w = [at |-> "copy", key |-> docs[d].key]
                    \/ w = [at |-> "delete", doc |-> d, key |-> docs[d].key]
    BY DEF CopyDocumentToFolder, DeleteDocument
  <1>2. /\ req[p] = Idle /\ docs[d] # NoRow
        /\ UNCHANGED <<status, docs, store, lastDoc, lastKey, faults, history>>
    BY DEF CopyDocumentToFolder, DeleteDocument
  <1>3. docs[d].key \in Key
    BY <1>2 DEF IInv, Bytes, Numbered
  <1>4. w \in Work /\ w.at \in {"copy", "delete"} /\ w.key = docs[d].key
    <2>1. CASE w = [at |-> "copy", key |-> docs[d].key]
      BY <1>3, <2>1 DEF Work
    <2>2. CASE w = [at |-> "delete", doc |-> d, key |-> docs[d].key]
      BY <1>3, <2>2 DEF Work
    <2> QED BY <1>1, <2>1, <2>2
  <1>5. ReqTypes' /\ req'[p] = w /\ \A q \in Request \ {p} : req'[q] = req[q]
    BY <1>1, <1>4, GotoFacts DEF IInv, Bytes
  <1>6. New(w) = {} /\ Todo(w) = {} /\ Known(w) = {docs[d].key} /\ ~VoidWork(w)
    BY <1>4 DEF New, Todo, Known, VoidWork
  <1>7. \A k \in Known(w) : IsStoredFileReferenced(k)
    BY <1>6 DEF IsStoredFileReferenced
  <1>8. status \in {"approved", "sent", "paid", "void"} /\ faults' \in Nat
    BY <1>2 DEF IInv, TypeOK
  <1> QED BY <1>2, <1>4, <1>5, <1>6, <1>7, <1>8, IdleFacts, ReadKeeps

-----------------------------------------------------------------------------
\* What is left to do of a list.
LEMMA RestFacts ==
  ASSUME NEW todo \in Todos
  PROVE  /\ Rest(todo) \in Work /\ New(Rest(todo)) = {} /\ Hand(Rest(todo)) = {}
         /\ Todo(Rest(todo)) = todo /\ Known(Rest(todo)) = {e[2] : e \in todo}
         /\ VoidWork(Rest(todo)) <=> todo # {}
         /\ Rest(todo).at \in {"idle", "stamp"}
  <1>1. CASE todo = {}
    BY <1>1, IdleFacts DEF Rest
  <1>2. CASE todo # {}
    <2> DEFINE w == [at |-> "stamp", todo |-> todo]
    <2>1. w \in Work /\ w.at = "stamp" /\ w.todo = todo
      BY <1>2 DEF Work
    <2>2. Rest(todo) = w
      BY <1>2 DEF Rest
    <2> HIDE DEF w
    <2> QED BY <1>2, <2>1, <2>2 DEF New, Hand, Todo, Known, VoidWork
  <1> QED BY <1>1, <1>2

\* Which copies a void deals with.
LEMMA StampingFacts ==
  ASSUME NEW found \in BOOLEAN, NEW fresh \in BOOLEAN
  PROVE  LET w == Stamping(found, fresh) IN
         /\ w \in Work /\ New(w) = {} /\ Todo(w) = {} /\ Known(w) = {} /\ Hand(w) = {}
         /\ w.at \in {"idle", "store", "list"} /\ (found => w.at = "list")
  <1>1. CASE found
    <2> DEFINE w == [at |-> "list"]
    <2>1. w \in Work /\ w.at = "list"
      BY DEF Work
    <2>2. Stamping(found, fresh) = w
      BY <1>1 DEF Stamping
    <2> HIDE DEF w
    <2> QED BY <2>1, <2>2 DEF New, Todo, Known, Hand
  <1>2. CASE ~found /\ fresh
    <2> DEFINE w == ToFile("stamped")
    <2>1. w \in Work /\ w.at = "store"
      BY DEF Work, ToFile
    <2>2. Stamping(found, fresh) = w
      BY <1>2 DEF Stamping
    <2> HIDE DEF w
    <2> QED BY <1>2, <2>1, <2>2 DEF New, Todo, Known, Hand
  <1>3. CASE ~found /\ ~fresh
    BY <1>3, IdleFacts DEF Stamping
  <1> QED BY <1>1, <1>2, <1>3

\* The void gets through: it is the first, and if it found copies it lists them.
LEMMA ClaimVoidKeeps ==
  ASSUME IInv, NEW p \in Request, ClaimVoid(p)
  PROVE  IInv'
  <1> DEFINE seen == req[p].seen
             w == CASE req[p].from # "sent" \/ ~seen.stamps -> Idle
                    [] req[p].from = "sent" /\ seen.stamps /\ ~seen.counted -> [at |-> "count late"]
                    [] OTHER -> Stamping(seen.found, seen.fresh)
  <1>1. /\ req[p].at = "claim"
        /\ UNCHANGED <<docs, store, lastDoc, lastKey, faults, stray, late>>
    BY DEF ClaimVoid
  <1>2. /\ req[p].from \in {"approved", "sent"} /\ seen \in Seen /\ Counted(seen, status)
        /\ seen.counted => req[p].from = "sent"
    BY <1>1, WorkFields DEF IInv, Bytes, ReqTypes, OneVoid
  <1>3. Hand(req[p]) = {} /\ New(req[p]) = {} /\ Todo(req[p]) = {}
    BY <1>1 DEF Hand, New, Todo
  <1>4. CASE ~Unmoved(p)
    <2>1. Goto(p, Idle) /\ UNCHANGED <<status, docs, store, lastDoc, lastKey, faults, history>>
      BY <1>1, <1>4 DEF ClaimVoid, history
    <2>2. ReqTypes' /\ req'[p] = Idle /\ \A q \in Request \ {p} : req'[q] = req[q]
      BY <2>1, GotoFacts, IdleFacts DEF IInv, Bytes
    <2>3. status \in {"approved", "sent", "paid", "void"} /\ faults' \in Nat
      BY <2>1 DEF IInv, TypeOK
    <2> QED BY <1>1, <1>3, <2>1, <2>2, <2>3, IdleFacts, ReadKeeps
  <1>5. CASE Unmoved(p)
    <2>1. /\ status = req[p].from /\ status' = "void" /\ Goto(p, w)
          /\ voided' = [voided EXCEPT !.rows = Filed, !.stamps = seen.stamps, !.found = seen.found]
      BY <1>5 DEF ClaimVoid, Unmoved
    <2>2. status # "void" /\ \A q \in Request : ~VoidWork(req[q])
      BY <1>2, <2>1 DEF IInv, OneVoid
    <2>3. {seen.stamps, seen.counted, seen.found, seen.fresh} \subseteq BOOLEAN
      BY <1>2 DEF Seen
    <2>4. /\ w \in Work /\ New(w) = {} /\ Todo(w) = {} /\ Known(w) = {} /\ Hand(w) = {}
          /\ w.at \in {"idle", "store", "list", "count late"}
          /\ (w.at = "count late" => ~seen.found) /\ (seen.found => w.at = "list")
      <3>1. CASE req[p].from # "sent" \/ ~seen.stamps
        <4>1. w = Idle /\ ~seen.found
          BY <1>2, <3>1 DEF Counted
        <4> QED BY <4>1, IdleFacts
      <3>2. CASE req[p].from = "sent" /\ seen.stamps /\ ~seen.counted
        <4> DEFINE c == [at |-> "count late"]
        <4>1. w = c /\ ~seen.found
          BY <1>2, <3>2 DEF Counted
        <4>2. c \in Work /\ c.at = "count late"
          BY DEF Work
        <4> HIDE DEF c, w
        <4> QED BY <4>1, <4>2 DEF New, Todo, Known, Hand
      <3>3. CASE req[p].from = "sent" /\ seen.stamps /\ seen.counted
        <4>1. w = Stamping(seen.found, seen.fresh)
          BY <3>3
        <4> HIDE DEF w
        <4> QED BY <2>3, <4>1, StampingFacts
      <3> QED BY <2>3, <3>1, <3>2, <3>3
    <2> HIDE DEF w
    <2>5. ReqTypes' /\ req'[p] = w /\ \A q \in Request \ {p} : req'[q] = req[q]
      BY <2>1, <2>4, GotoFacts DEF IInv, Bytes
    <2>6. /\ voided' \in [rows : SUBSET Doc, failed : SUBSET Doc, stamps : BOOLEAN, found : BOOLEAN,
                          died : BOOLEAN]
          /\ voided'.rows = Filed /\ voided'.found = seen.found
      BY <2>1, <2>3 DEF IInv, VoidedType, Filed
    <2>7. TypeOK' /\ VoidedType'
      BY <1>1, <2>1, <2>6 DEF IInv, TypeOK, VoidedType
    <2>8. Bytes'
      BY <1>1, <1>3, <2>4, <2>5, QuietBytes DEF IInv, Bytes
    <2>9. OneVoid'
      <3>1. Unstamped'
        BY <1>1, <2>2 DEF IInv, OneVoid, Unstamped
      <3>2. \A q \in Request : VoidWork(req'[q]) => q = p
        BY <2>2, <2>5
      <3>3. \A q \in Request : Todo(req'[q]) = {}
        BY <2>2, <2>4, <2>5, NoVoidWork
      <3>4. \A q \in Request : req'[q].at = "count late" => ~voided'.found
        BY <2>2, <2>4, <2>5, <2>6, NoVoidWork
      <3>5. \A q \in Request :
              /\ req'[q].at = "check" => Counted(req'[q], status')
              /\ req'[q].at = "claim" => /\ Counted(req'[q].seen, status')
                                         /\ req'[q].seen.counted => req'[q].from = "sent"
        BY <2>1, <2>4, <2>5 DEF IInv, OneVoid, Counted
      <3>6. \A q \in Request :
              /\ req'[q].at \in {"count late", "list"} => Unstamped'
              /\ \A e \in Todo(req'[q]) : store'[e[2]] # "stamped"
              /\ req'[q].at = "count" => status' # "approved"
        BY <2>1, <3>1, <3>3
      <3>7. /\ \A q \in Request : VoidWork(req'[q]) => status' = "void"
            /\ \A q, o \in Request : VoidWork(req'[q]) /\ VoidWork(req'[o]) => q = o
            /\ status' # "void" => Unstamped'
        BY <2>1, <3>1, <3>2
      <3> HIDE DEF seen
      <3> QED BY <3>4, <3>5, <3>6, <3>7 DEF OneVoid
    <2>10. Progress'
      <3>1. ASSUME NEW d \in Filed PROVE d \in Doc /\ docs[d].filed /\ d <= lastDoc
        <4>1. d \in Doc /\ docs[d].filed /\ d \in Nat /\ lastDoc \in Nat
          BY InvoiceFilingAssumption DEF Filed, Doc, IInv, Bytes
        <4>2. docs[d] # NoRow
          BY <4>1 DEF NoRow
        <4>3. ~(d > lastDoc)
          BY <4>1, <4>2 DEF IInv, Bytes, Numbered
        <4> QED BY <4>1, <4>3
      <3>2. voided'.found => \A d : Left(req'[p], d)
        BY <2>4, <2>5, <2>6 DEF Left
      <3> QED BY <1>1, <2>6, <3>1, <3>2 DEF Progress
    <2> QED BY <2>7, <2>8, <2>9, <2>10 DEF IInv
  <1> QED BY <1>4, <1>5

\* The copies are counted late, and listed if there are any.
LEMMA CountLateKeeps ==
  ASSUME IInv, NEW p \in Request, CountLate(p)
  PROVE  IInv'
  <1> DEFINE w == Stamping(Filed # {}, FALSE)
  <1>1. /\ req[p].at = "count late" /\ Goto(p, w)
        /\ voided' = [voided EXCEPT !.found = Filed # {}]
        /\ UNCHANGED <<status, docs, store, lastDoc, lastKey, faults, stray, late>>
    BY DEF CountLate
  <1>2. /\ w \in Work /\ New(w) = {} /\ Todo(w) = {} /\ Known(w) = {} /\ Hand(w) = {}
        /\ w.at \in {"idle", "store", "list"} /\ (Filed # {} => w.at = "list")
    BY StampingFacts
  <1> HIDE DEF w
  <1>3. ReqTypes' /\ req'[p] = w /\ \A q \in Request \ {p} : req'[q] = req[q]
    BY <1>1, <1>2, GotoFacts DEF IInv, Bytes
  <1>4. Hand(req[p]) = {} /\ Todo(req[p]) = {} /\ VoidWork(req[p]) /\ ~Left(req[p], 0)
    BY <1>1 DEF Hand, Todo, VoidWork, Left
  <1>5. /\ voided' \in [rows : SUBSET Doc, failed : SUBSET Doc, stamps : BOOLEAN, found : BOOLEAN,
                        died : BOOLEAN]
        /\ voided'.rows = voided.rows /\ voided.failed \subseteq voided'.failed
        /\ (voided.died => voided'.died) /\ (voided'.found => w.at = "list")
    BY <1>1, <1>2 DEF IInv, VoidedType
  <1>6. TypeOK' /\ VoidedType'
    BY <1>1, <1>5 DEF IInv, TypeOK, VoidedType
  <1>7. Bytes'
    BY <1>1, <1>2, <1>3, <1>4, QuietBytes DEF IInv, Bytes
  <1>8. OneVoid'
    <2>1. Unstamped'
      BY <1>1 DEF IInv, OneVoid, Unstamped
    <2> QED BY <1>1, <1>2, <1>3, <1>4, <2>1, VoidKept DEF IInv, Bytes
  <1>9. Progress'
    <2>1. \A d \in voided.rows : ~Left(req[p], d)
      BY <1>1, <1>4 DEF Left
    <2>2. \A d \in voided.rows : docs'[d] = NoRow \/ docs'[d].filed
      BY <1>1 DEF IInv, Progress
    <2>3. \A d \in voided.rows : Stamped(d) => (docs'[d] # NoRow => store'[docs'[d].key] = "stamped")
      BY <1>1 DEF Stamped
    <2>4. voided'.found => voided.found \/ req'[p].at = "list"
      BY <1>3, <1>5
    <2>5. lastDoc' = lastDoc
      BY <1>1
    <2>6. Progress /\ lastDoc \in Nat /\ lastDoc' \in Nat /\ lastDoc <= lastDoc'
      BY <2>5 DEF IInv, Bytes
    <2> QED BY <1>3, <1>5, <2>1, <2>2, <2>3, <2>4, <2>6, ProgressKept
  <1> QED BY <1>6, <1>7, <1>8, <1>9 DEF IInv

\* What is listed carries no stamp, and leaves out deleted rows only.
LEMMA ListFiledKeeps ==
  ASSUME IInv, NEW p \in Request, ListFiled(p)
  PROVE  IInv'
  <1>1. /\ req[p].at = "list" /\ Goto(p, Rest(Listed))
        /\ UNCHANGED <<status, docs, store, lastDoc, lastKey, faults, voided, stray, late>>
    BY DEF ListFiled, Rest, history
  <1>2. \A d \in Filed : d \in Doc /\ docs[d].filed /\ docs[d].key \in Key
    <2>1. \A d \in Doc : docs[d].filed => docs[d] # NoRow
      BY DEF NoRow
    <2> QED BY <2>1 DEF Filed, IInv, Bytes, Numbered
  <1>3. Listed \in Todos
    BY <1>2 DEF Listed, Todos
  <1>4. ReqTypes' /\ req'[p] = Rest(Listed) /\ \A q \in Request \ {p} : req'[q] = req[q]
    BY <1>1, <1>3, GotoFacts, RestFacts DEF IInv, Bytes
  <1>5. \A k \in Known(req'[p]) : IsStoredFileReferenced(k)
    <2>1. Known(req'[p]) = {e[2] : e \in Listed}
      BY <1>3, <1>4, RestFacts
    <2> QED BY <1>2, <2>1 DEF Listed, IsStoredFileReferenced
  <1>6. Hand(req[p]) = {} /\ VoidWork(req[p])
    BY <1>1 DEF Hand, VoidWork
  <1>7. TypeOK' /\ VoidedType'
    BY <1>1 DEF IInv, TypeOK, VoidedType
  <1>8. Bytes'
    BY <1>1, <1>3, <1>4, <1>5, <1>6, QuietBytes, RestFacts DEF IInv, Bytes
  <1>9. OneVoid'
    <2>1. ASSUME NEW e \in Listed PROVE store[e[2]] # "stamped"
      <3>1. PICK d \in Filed : e = <<d, docs[d].key>>
        BY DEF Listed
      <3>2. e[2] \in Key
        BY <1>2, <3>1
      <3> QED BY <1>1, <3>2 DEF IInv, OneVoid, Unstamped
    <2>2. Todo(req'[p]) = Listed /\ req'[p].at \in {"idle", "stamp"}
      BY <1>3, <1>4, RestFacts
    <2> QED BY <1>1, <1>4, <1>6, <2>1, <2>2, VoidKept DEF IInv, Bytes
  <1>10. Progress'
    <2>1. ASSUME NEW d \in voided.rows, docs[d] # NoRow
          PROVE  Left(req'[p], d)
      <3>1. <<d, docs[d].key>> \in Listed
        BY <2>1 DEF Listed, Filed, IInv, Progress
      <3> QED BY <1>3, <1>4, <3>1, RestFacts DEF Left
    <2> QED BY <1>1, <1>4, <2>1, ProgressKept DEF IInv, Bytes, Progress, Stamped
  <1> QED BY <1>7, <1>8, <1>9, <1>10 DEF IInv

\* The old bytes are found to have a row, or not, or nobody can tell.
LEMMA CheckOldKeeps ==
  ASSUME IInv, NEW p \in Request, CheckOld(p)
  PROVE  IInv'
  <1> DEFINE w == req[p]
             gone == [w EXCEPT !.at = "delete old"]
  <1>1. /\ w.at = "old"
        /\ UNCHANGED <<status, docs, store, lastDoc, lastKey, voided, late>>
        /\ \/ IsStoredFileReferenced(w.key) /\ Goto(p, Rest(w.todo)) /\ UNCHANGED <<stray, faults>>
           \/ ~IsStoredFileReferenced(w.key) /\ Goto(p, gone) /\ UNCHANGED <<stray, faults>>
           \/ Fault /\ stray' = stray \cup {w.key} /\ Goto(p, Rest(w.todo))
    BY DEF CheckOld
  <1>2. w \in Work
    BY DEF IInv, Bytes, ReqTypes
  <1>3. w.key \in Key /\ w.todo \in Todos
    BY <1>1, <1>2, WorkFields
  <1>4. gone \in Work /\ gone.at = "delete old" /\ gone.key = w.key /\ gone.todo = w.todo
    <2>1. w \in [at : {"old", "delete old"}, key : Key, todo : Todos]
      BY <1>1, <1>2, WorkFields
    <2> QED BY <1>1, <2>1 DEF Work
  <1> HIDE DEF gone
  <1>5. PICK v \in {Rest(w.todo), gone} : Goto(p, v) /\ (v = gone => ~IsStoredFileReferenced(w.key))
    <2>1. gone # Rest(w.todo)
      BY <1>3, <1>4, RestFacts
    <2> QED BY <1>1, <2>1
  <1>6. /\ v \in Work /\ New(v) = {} /\ Todo(v) = w.todo /\ Known(v) \subseteq Known(w)
        /\ (VoidWork(v) <=> w.todo # {}) /\ v.at \in {"idle", "stamp", "delete old"}
    <2>1. Known(w) = {w.key} \cup {e[2] : e \in w.todo}
      BY <1>1 DEF Known, Todo
    <2>2. CASE v = Rest(w.todo)
      BY <1>3, <2>1, <2>2, RestFacts
    <2>3. CASE v = gone
      BY <1>4, <2>1, <2>3 DEF New, Todo, Known, VoidWork
    <2> QED BY <2>2, <2>3
  <1>7. ReqTypes' /\ req'[p] = v /\ \A q \in Request \ {p} : req'[q] = req[q]
    BY <1>5, <1>6, GotoFacts DEF IInv, Bytes
  <1>8. /\ Hand(w) = {w.key} /\ Todo(w) = w.todo /\ (VoidWork(w) <=> w.todo # {})
    BY <1>1 DEF Hand, Todo, VoidWork
  <1>9. stray \subseteq stray' /\ stray' \subseteq Key /\ faults' \in Nat
    BY <1>1, <1>3 DEF IInv, TypeOK, Fault
  <1>10. w.key \in Hand(v) \cup stray' \/ IsStoredFileReferenced(w.key)
    <2>1. CASE Goto(p, gone)
      <3>1. v = gone
        BY <1>4, <1>7, <2>1, GotoFacts DEF IInv, Bytes
      <3> QED BY <1>4, <3>1 DEF Hand
    <2>2. CASE ~Goto(p, gone)
      BY <1>1, <2>2
    <2> QED BY <2>1, <2>2
  <1>11. v.at = "delete old" => v.key = w.key /\ ~IsStoredFileReferenced(w.key)
    BY <1>3, <1>4, <1>5, RestFacts
  <1>12. TypeOK' /\ VoidedType'
    BY <1>1, <1>9 DEF IInv, TypeOK, VoidedType
  <1>13. Bytes'
    BY <1>1, <1>6, <1>7, <1>8, <1>9, <1>10, <1>11, QuietBytes DEF IInv, Bytes
  <1>14. OneVoid'
    <2>1. \A e \in w.todo : store[e[2]] # "stamped"
      BY <1>8 DEF IInv, OneVoid
    <2> QED BY <1>1, <1>6, <1>7, <1>8, <2>1, VoidKept DEF IInv, Bytes
  <1>15. Progress'
    <2>1. \A d \in voided.rows : Left(w, d) => Left(v, d)
      BY <1>1, <1>6, <1>8 DEF Left
    <2> QED BY <1>1, <1>7, <2>1, ProgressKept DEF IInv, Bytes, Progress, Stamped
  <1> QED BY <1>12, <1>13, <1>14, <1>15 DEF IInv

-----------------------------------------------------------------------------
\* The next key is a key, and none that was made before.
LEMMA NextKey ==
  ASSUME lastKey \in Nat, lastKey < MaxKeys
  PROVE  /\ lastKey + 1 \in Key /\ lastKey + 1 \in Nat /\ lastKey + 1 <= MaxKeys
         /\ \A k \in Key \cup {0} : k <= lastKey => k # lastKey + 1 /\ k <= lastKey + 1
         /\ \A k \in Key : k > lastKey + 1 => k > lastKey /\ k # lastKey + 1
         /\ lastKey + 1 <= lastKey + 1
  <1>1. MaxKeys \in Nat
    BY InvoiceFilingAssumption
  <1> QED BY <1>1 DEF Key

\* p stores bytes under a key of their own, which nobody else knows.
LEMMA StoreBytes ==
  ASSUME Bytes, UNCHANGED <<docs, lastDoc, late, stray>>,
         lastKey < MaxKeys, lastKey' = lastKey + 1,
         store' \in [Key -> {"none", "plain", "stamped"}], store'[lastKey + 1] # "none",
         \A k \in Key \ {lastKey + 1} : store'[k] = store[k],
         NEW p \in Request, ReqTypes', \A q \in Request \ {p} : req'[q] = req[q],
         New(req'[p]) = {lastKey + 1}, Known(req'[p]) \subseteq Known(req[p]),
         Hand(req[p]) = {}, Hand(req'[p]) = {lastKey + 1},
         req'[p].at = "swap" => store'[lastKey + 1] = "stamped", req'[p].at # "delete old"
  PROVE  /\ Bytes'
         /\ \A d \in Doc : docs[d] # NoRow => store'[docs[d].key] = store[docs[d].key]
         /\ \A k \in Known(req[p]) : store'[k] = store[k]
  <1> DEFINE n == lastKey + 1
  <1>1. /\ n \in Key /\ n \in Nat /\ n <= MaxKeys /\ n <= n /\ lastKey' = n
        /\ \A k \in Key \cup {0} : k <= lastKey => k # n /\ k <= n
        /\ \A k \in Key : k > n => k > lastKey /\ k # n
    <2>1. lastKey \in Nat
      BY DEF Bytes
    <2> QED BY <2>1, NextKey
  <1> HIDE DEF n
  <1>2. \A k \in Key : k # n => store'[k] = store[k]
    BY DEF n
  <1>3. \A d \in Doc : docs[d].key # n /\ docs[d].key <= lastKey'
    <2>1. \A d \in Doc : docs[d].key \in Key \cup {0} /\ docs[d].key <= lastKey
      BY DEF Bytes, Numbered
    <2> QED BY <1>1, <2>1
  <1>4. \A d \in Doc : docs[d] # NoRow => docs[d].key \in Key /\ store'[docs[d].key] = store[docs[d].key]
    <2>1. \A d \in Doc : docs[d] # NoRow => docs[d].key \in Key
      BY DEF Bytes, Numbered
    <2> QED BY <1>2, <1>3, <2>1
  <1>5. \A q \in Request : \A k \in New(req[q]) \cup Known(req[q]) : k \in Key /\ k <= lastKey
    BY CarriedKeys DEF Bytes, Numbered, ReqTypes
  <1>6. \A q \in Request : \A k \in New(req[q]) \cup Known(req[q]) :
          k # n /\ store'[k] = store[k] /\ k <= lastKey'
    BY <1>1, <1>2, <1>5
  <1>7. ~IsStoredFileReferenced(n)
    BY <1>3 DEF IsStoredFileReferenced
  <1>8. Numbered'
    <2>1. \A k \in Key : k > lastKey' => store'[k] = "none"
      BY <1>1, <1>2 DEF Bytes, Numbered
    <2>2. New(req'[p]) = {n}
      BY DEF n
    <2>3. \A q \in Request : \A k \in New(req'[q]) \cup Known(req'[q]) : k <= lastKey'
      BY <1>1, <1>6, <2>2
    <2> QED BY <1>1, <1>3, <2>1, <2>3 DEF Bytes, Numbered
  <1>9. New(req'[p]) = {n} /\ Hand(req'[p]) = {n} /\ store'[n] # "none"
        /\ (req'[p].at = "swap" => store'[n] = "stamped")
    BY DEF n
  <1>10. NewKeysAreOwn'
    <2> SUFFICES ASSUME NEW q \in Request, NEW k \in New(req'[q])
                 PROVE  /\ ~IsStoredFileReferenced(k)
                        /\ \A o \in Request : k \notin Known(req'[o]) /\ (o # q => k \notin New(req'[o]))
                        /\ req'[q].at = "file" => store'[k] # "none"
                        /\ req'[q].at = "swap" => store'[k] = "stamped"
      BY DEF NewKeysAreOwn, IsStoredFileReferenced
    <2>1. CASE q = p
      <3>1. k = n
        BY <1>9, <2>1
      <3>2. \A o \in Request : k \notin Known(req'[o]) /\ (o # q => k \notin New(req'[o]))
        BY <1>6, <2>1, <3>1
      <3> QED BY <1>7, <1>9, <2>1, <3>1, <3>2
    <2>2. CASE q # p
      <3>1. k \in New(req[q]) /\ k # n /\ store'[k] = store[k]
        BY <1>6, <2>2
      <3>2. /\ ~IsStoredFileReferenced(k)
            /\ \A o \in Request : k \notin Known(req[o]) /\ (o # q => k \notin New(req[o]))
            /\ req[q].at = "file" => store[k] # "none"
            /\ req[q].at = "swap" => store[k] = "stamped"
        BY <3>1 DEF Bytes, NewKeysAreOwn
      <3> QED BY <1>9, <2>2, <3>1, <3>2
    <2> QED BY <2>1, <2>2
  <1>11. GoneKeys'
    <2> SUFFICES ASSUME NEW q \in Request, req'[q].at = "delete old",
                        NEW d \in Doc, docs[d].key = req'[q].key
                 PROVE  ~docs[d].filed /\ req'[q].key \in late
      BY DEF GoneKeys
    <2> QED BY DEF Bytes, GoneKeys
  <1>12. BytesAndRowsAgree'
    <2>1. BytesOutliveRows'
      BY <1>4 DEF Bytes, BytesAndRowsAgree, BytesOutliveRows
    <2>2. ASSUME NEW k \in Key, store'[k] # "none", ~IsStoredFileReferenced(k)
          PROVE  k \in stray \/ \E q \in Request : k \in Hand(req'[q])
      <3>1. CASE k = n
        BY <1>9, <3>1
      <3>2. CASE k # n
        <4>1. store[k] # "none"
          BY <2>2, <3>2 DEF n
        <4>2. k \in stray \/ \E q \in Request : k \in Hand(req[q])
          BY <2>2, <4>1, StrayForm DEF Bytes, BytesAndRowsAgree
        <4> QED BY <4>2
      <3> QED BY <3>1, <3>2
    <2>3. \A k \in Key : IsStoredFileReferenced(k)' <=> IsStoredFileReferenced(k)
      BY DEF IsStoredFileReferenced
    <2>4. NoStrayBytes'
      BY <2>2, <2>3, StrayForm
    <2> QED BY <2>1, <2>4 DEF BytesAndRowsAgree
  <1>13. lastKey' \in Nat
    BY <1>1
  <1> QED BY <1>4, <1>6, <1>8, <1>10, <1>11, <1>12, <1>13 DEF Bytes

LEMMA StoreFiledKeeps ==
  ASSUME IInv, NEW p \in Request, StoreFiled(p)
  PROVE  IInv'
  <1>1. /\ req[p].at = "store" /\ UNCHANGED <<status, docs, lastDoc, history>>
        /\ \/ /\ StoreFile(req[p].bytes) /\ UNCHANGED faults
              /\ Goto(p, [at |-> "file", new |-> lastKey + 1])
           \/ Fault /\ Goto(p, Idle) /\ UNCHANGED <<store, lastKey>>
    BY DEF StoreFiled
  <1>2. UNCHANGED <<voided, stray, late>>
    BY <1>1 DEF history
  <1>3. /\ Hand(req[p]) = {} /\ Todo(req[p]) = {} /\ \A d : ~Left(req[p], d)
        /\ req[p].bytes \in {"plain", "stamped"} /\ (req[p].bytes = "stamped" => VoidWork(req[p]))
    BY <1>1, WorkFields DEF Hand, Todo, Left, VoidWork, IInv, Bytes, ReqTypes
  <1>4. CASE Fault /\ Goto(p, Idle) /\ UNCHANGED <<store, lastKey>>
    <2>1. ReqTypes' /\ req'[p] = Idle /\ \A q \in Request \ {p} : req'[q] = req[q]
      BY <1>4, GotoFacts, IdleFacts DEF IInv, Bytes
    <2>2. status \in {"approved", "sent", "paid", "void"} /\ faults' \in Nat
      BY <1>4 DEF IInv, TypeOK, Fault
    <2> QED BY <1>1, <1>3, <1>4, <2>1, <2>2, IdleFacts, ReadKeeps
  <1>5. CASE /\ StoreFile(req[p].bytes) /\ UNCHANGED faults
             /\ Goto(p, [at |-> "file", new |-> lastKey + 1])
    <2> DEFINE w == [at |-> "file", new |-> lastKey + 1]
    <2>1. lastKey \in Nat /\ lastKey < MaxKeys /\ lastKey' = lastKey + 1
      BY <1>5 DEF StoreFile, IInv, Bytes
    <2>2. w \in Work /\ w.at = "file" /\ w.new = lastKey + 1
      BY <2>1, NextKey DEF Work
    <2>3. Goto(p, w)
      BY <1>5
    <2> HIDE DEF w
    <2>4. /\ New(w) = {lastKey + 1} /\ Hand(w) = {lastKey + 1} /\ Todo(w) = {} /\ Known(w) = {}
          /\ ~VoidWork(w)
      BY <2>2 DEF New, Hand, Todo, Known, VoidWork
    <2>5. ReqTypes' /\ req'[p] = w /\ \A q \in Request \ {p} : req'[q] = req[q]
      BY <2>2, <2>3, GotoFacts DEF IInv, Bytes
    <2>6. /\ store' \in [Key -> {"none", "plain", "stamped"}]
          /\ store'[lastKey + 1] = req[p].bytes
          /\ \A k \in Key \ {lastKey + 1} : store'[k] = store[k]
      <3> DEFINE n == lastKey + 1
      <3>1. n \in Key /\ store' = [store EXCEPT ![n] = req[p].bytes]
        BY <1>5, <2>1, NextKey DEF StoreFile
      <3> HIDE DEF n
      <3>2. store \in [Key -> {"none", "plain", "stamped"}]
        BY DEF IInv, Bytes
      <3>3. /\ store' \in [Key -> {"none", "plain", "stamped"}]
            /\ store'[n] = req[p].bytes /\ \A k \in Key \ {n} : store'[k] = store[k]
        BY <1>3, <3>1, <3>2
      <3> QED BY <3>3 DEF n
    <2>7. /\ Bytes'
          /\ \A d \in Doc : docs[d] # NoRow => store'[docs[d].key] = store[docs[d].key]
      <3>1. store'[lastKey + 1] # "none"
        BY <1>3, <2>6
      <3> QED BY <1>1, <1>2, <1>3, <2>1, <2>2, <2>4, <2>5, <2>6, <3>1, StoreBytes DEF IInv
    <2>8. TypeOK' /\ VoidedType'
      <3>1. lastKey' \in Nat
        BY <2>1, NextKey
      <3> QED BY <1>1, <1>2, <1>5, <2>6, <3>1 DEF IInv, TypeOK, VoidedType
    <2>9. OneVoid'
      <3>1. \/ VoidWork(req[p])
            \/ \A k \in Key : store'[k] = "stamped" => store[k] = "stamped"
        BY <1>3, <2>6
      <3> QED BY <1>1, <1>2, <2>2, <2>4, <2>5, <3>1, VoidKept DEF IInv, Bytes
    <2>10. Progress'
      <3>1. \A d \in voided.rows : Stamped(d) => (docs'[d] # NoRow => store'[docs'[d].key] = "stamped")
        BY <1>1, <2>7 DEF Stamped, IInv, Progress
      <3> QED BY <1>1, <1>2, <1>3, <2>5, <3>1, ProgressKept DEF IInv, Bytes, Progress
    <2> QED BY <2>7, <2>8, <2>9, <2>10 DEF IInv
  <1> QED BY <1>1, <1>4, <1>5

\* A row that could not be stamped is reported.
LEMMA FailedFacts ==
  ASSUME VoidedType, NEW d \in Doc, Failed(d)
  PROVE  /\ VoidedType' /\ voided'.rows = voided.rows /\ d \in voided'.failed
         /\ voided.failed \subseteq voided'.failed
         /\ voided'.found = voided.found /\ (voided.died => voided'.died)
  BY DEF VoidedType, Failed

\* The oldest copy on the list gets a stamped file of its own, or is reported.
LEMMA StampFiledKeeps ==
  ASSUME IInv, NEW p \in Request, StampFiled(p)
  PROVE  IInv'
  <1> DEFINE todo == req[p].todo
             e == CHOOSE f \in todo : \A g \in todo : f[1] <= g[1]
             rest == todo \ {e}
  <1>1. /\ req[p].at = "stamp" /\ UNCHANGED <<status, docs, lastDoc, stray, late>>
        /\ \/ /\ store[e[2]] # "none" /\ StoreFile(StampVoid(store[e[2]]))
              /\ Goto(p, [at |-> "swap", doc |-> e[1], key |-> e[2], new |-> lastKey + 1, todo |-> rest])
              /\ UNCHANGED <<faults, voided>>
           \/ /\ IF store[e[2]] = "none" THEN UNCHANGED faults ELSE Fault
              /\ Failed(e[1]) /\ Goto(p, Rest(rest))
              /\ UNCHANGED <<store, lastKey>>
    BY DEF StampFiled
  <1>2. todo \in Todos /\ todo # {}
    BY <1>1, WorkFields DEF IInv, Bytes, ReqTypes
  <1>3. e \in todo
    BY <1>2, OldestOf
  <1> HIDE DEF e
  <1>4. e[1] \in Doc /\ e[2] \in Key /\ rest \in Todos
    BY <1>2, <1>3 DEF Todos
  <1>5. /\ Hand(req[p]) = {} /\ New(req[p]) = {} /\ Todo(req[p]) = todo
        /\ Known(req[p]) = {f[2] : f \in todo} /\ VoidWork(req[p])
    BY <1>1 DEF Hand, New, Todo, Known, VoidWork
  <1>6. \A f \in todo : store[f[2]] # "stamped"
    BY <1>5 DEF IInv, OneVoid
  <1>7. \A d : Left(req[p], d) => d = e[1] \/ \E f \in rest : f[1] = d
    BY <1>1, <1>5 DEF Left
  <1> HIDE DEF todo, rest
  <1>8. {f[2] : f \in rest} \subseteq Known(req[p]) /\ e[2] \in Known(req[p]) /\ rest \subseteq todo
    BY <1>3, <1>5 DEF rest
  <1>9. CASE /\ IF store[e[2]] = "none" THEN UNCHANGED faults ELSE Fault
             /\ Failed(e[1]) /\ Goto(p, Rest(rest))
             /\ UNCHANGED <<store, lastKey>>
    <2>1. ReqTypes' /\ req'[p] = Rest(rest) /\ \A q \in Request \ {p} : req'[q] = req[q]
      BY <1>4, <1>9, GotoFacts, RestFacts DEF IInv, Bytes
    <2>2. /\ New(req'[p]) = {} /\ Todo(req'[p]) = rest /\ Known(req'[p]) = {f[2] : f \in rest}
          /\ req'[p].at \in {"idle", "stamp"}
      BY <1>4, <2>1, RestFacts
    <2>3. /\ VoidedType' /\ voided'.rows = voided.rows /\ e[1] \in voided'.failed
          /\ voided.failed \subseteq voided'.failed
          /\ voided'.found = voided.found /\ (voided.died => voided'.died)
      BY <1>4, <1>9, FailedFacts DEF IInv
    <2>4. TypeOK'
      BY <1>1, <1>9 DEF IInv, TypeOK, Fault
    <2>5. Bytes'
      <3>1. stray \subseteq stray' /\ stray' \subseteq Key
        BY <1>1 DEF IInv, Bytes
      <3> QED BY <1>1, <1>5, <1>8, <1>9, <2>1, <2>2, <3>1, QuietBytes DEF IInv
    <2>6. OneVoid'
      BY <1>1, <1>5, <1>6, <1>8, <1>9, <2>1, <2>2, <2>3, VoidKept DEF IInv, Bytes
    <2>7. Progress'
      <3>1. \A d \in voided.rows : Left(req[p], d) => Left(req'[p], d) \/ d \in voided'.failed
        BY <1>7, <2>2, <2>3 DEF Left
      <3>2. lastDoc' = lastDoc /\ lastDoc \in Nat
        BY <1>1 DEF IInv, Bytes
      <3>3. lastDoc <= lastDoc'
        BY <3>2
      <3>4. \A d \in voided.rows : docs'[d] = NoRow \/ docs'[d].filed
        BY <1>1 DEF IInv, Progress
      <3>5. \A d \in voided.rows : Stamped(d) => (docs'[d] # NoRow => store'[docs'[d].key] = "stamped")
        BY <1>1, <1>9 DEF Stamped
      <3>6. Progress
        BY DEF IInv
      <3> QED BY <2>1, <2>3, <3>1, <3>2, <3>3, <3>4, <3>5, <3>6, ProgressKept
    <2> QED BY <2>3, <2>4, <2>5, <2>6, <2>7 DEF IInv
  <1>10. CASE /\ store[e[2]] # "none" /\ StoreFile(StampVoid(store[e[2]]))
              /\ Goto(p, [at |-> "swap", doc |-> e[1], key |-> e[2], new |-> lastKey + 1, todo |-> rest])
              /\ UNCHANGED <<faults, voided>>
    <2> DEFINE n == lastKey + 1
               w == [at |-> "swap", doc |-> e[1], key |-> e[2], new |-> n, todo |-> rest]
    <2>1. lastKey \in Nat /\ lastKey < MaxKeys /\ lastKey' = n
      BY <1>10 DEF StoreFile, IInv, Bytes
    <2>2. n \in Key
      BY <2>1, NextKey
    <2>3. StampVoid(store[e[2]]) = "stamped"
      <3>1. store[e[2]] = "plain"
        BY <1>3, <1>4, <1>6, <1>10 DEF IInv, Bytes
      <3> QED BY <3>1 DEF StampVoid
    <2>4. store' = [store EXCEPT ![n] = "stamped"]
      BY <1>10, <2>3 DEF StoreFile
    <2>5. Goto(p, w)
      BY <1>10
    <2> HIDE DEF n
    <2>6. w \in Work /\ w.at = "swap" /\ w.doc = e[1] /\ w.key = e[2] /\ w.new = n /\ w.todo = rest
      BY <1>4, <2>2 DEF Work
    <2> HIDE DEF w
    <2>7. /\ New(w) = {n} /\ Hand(w) = {n} /\ Todo(w) = rest
          /\ Known(w) = {e[2]} \cup {f[2] : f \in rest}
      BY <2>6 DEF New, Hand, Todo, Known
    <2>8. ReqTypes' /\ req'[p] = w /\ \A q \in Request \ {p} : req'[q] = req[q]
      BY <2>5, <2>6, GotoFacts DEF IInv, Bytes
    <2>9. /\ store' \in [Key -> {"none", "plain", "stamped"}] /\ store'[n] = "stamped"
          /\ \A k \in Key \ {n} : store'[k] = store[k]
      BY <2>2, <2>4 DEF IInv, Bytes
    <2>10. /\ Bytes'
           /\ \A d \in Doc : docs[d] # NoRow => store'[docs[d].key] = store[docs[d].key]
           /\ \A k \in Known(req[p]) : store'[k] = store[k]
      <3>1. Known(w) \subseteq Known(req[p])
        BY <1>8, <2>7
      <3>2. /\ Bytes /\ UNCHANGED <<docs, lastDoc, late, stray>> /\ lastKey < MaxKeys
            /\ lastKey' = lastKey + 1 /\ store'[lastKey + 1] # "none"
            /\ \A k \in Key \ {lastKey + 1} : store'[k] = store[k]
            /\ New(req'[p]) = {lastKey + 1} /\ Hand(req'[p]) = {lastKey + 1}
            /\ (req'[p].at = "swap" => store'[lastKey + 1] = "stamped") /\ req'[p].at # "delete old"
        BY <1>1, <2>1, <2>6, <2>7, <2>8, <2>9 DEF n, IInv
      <3> QED BY <1>5, <2>8, <2>9, <3>1, <3>2, StoreBytes
    <2>11. TypeOK' /\ VoidedType'
      <3>1. lastKey' \in Nat
        BY <2>1, NextKey DEF n
      <3> QED BY <1>1, <1>10, <2>9, <3>1 DEF IInv, TypeOK, VoidedType
    <2>12. OneVoid'
      <3>1. \A f \in rest : store'[f[2]] # "stamped"
        BY <1>6, <1>8, <2>10
      <3> QED BY <1>1, <1>5, <2>6, <2>7, <2>8, <3>1, VoidKept DEF IInv, Bytes
    <2>13. Progress'
      <3>1. \A d \in voided.rows : Left(req[p], d) => Left(req'[p], d)
        BY <1>7, <2>6, <2>7, <2>8 DEF Left
      <3>2. \A d \in voided.rows : Stamped(d) => (docs'[d] # NoRow => store'[docs'[d].key] = "stamped")
        BY <1>1, <2>10 DEF Stamped, IInv, Progress
      <3> QED BY <1>1, <1>10, <2>8, <3>1, <3>2, ProgressKept DEF IInv, Bytes, Progress
    <2> QED BY <2>10, <2>11, <2>12, <2>13 DEF IInv
  <1> QED BY <1>1, <1>9, <1>10
-----------------------------------------------------------------------------
\* The next row id is one, and no row has it.
LEMMA NextDoc ==
  ASSUME lastDoc \in Nat, lastDoc < MaxDocs
  PROVE  /\ lastDoc + 1 \in Doc /\ lastDoc + 1 \in Nat /\ lastDoc + 1 <= MaxDocs
         /\ lastDoc + 1 > lastDoc /\ lastDoc <= lastDoc + 1
         /\ \A d \in Doc : d > lastDoc + 1 => d > lastDoc /\ d # lastDoc + 1
         /\ \A d \in Doc : d <= lastDoc => d # lastDoc + 1
  <1>1. MaxDocs \in Nat
    BY InvoiceFilingAssumption
  <1> QED BY <1>1 DEF Doc

LEMMA NoKeyIsZero == 0 \notin Key
  BY DEF Key

LEMMA ZeroIsLeast == lastKey \in Nat => 0 <= lastKey
  OBVIOUS

\* What CreateRow leaves of the rows.
LEMMA RowFacts ==
  ASSUME Bytes, NEW k \in Key, NEW f \in BOOLEAN, CreateRow(k, f)
  PROVE  \E n \in Doc :
           /\ docs' \in [Doc -> [key : Key \cup {0}, filed : BOOLEAN]]
           /\ lastDoc' = n /\ n \in Nat /\ n <= MaxDocs /\ n > lastDoc /\ lastDoc <= n
           /\ \A d \in Doc : d > n => d > lastDoc /\ d # n
           /\ \A d \in Doc : d <= lastDoc => d # n
           /\ docs'[n].key = k /\ docs'[n].filed = f /\ docs'[n] # NoRow /\ docs[n] = NoRow
           /\ \A d \in Doc \ {n} : docs'[d] = docs[d]
           /\ \A j \in Key : IsStoredFileReferenced(j)' <=> IsStoredFileReferenced(j) \/ j = k
  <1> DEFINE n == lastDoc + 1
             r == [key |-> k, filed |-> f]
  <1>1. lastDoc \in Nat /\ lastDoc < MaxDocs /\ lastDoc' = n /\ docs' = [docs EXCEPT ![n] = r]
    BY DEF CreateRow, Bytes
  <1>2. /\ n \in Doc /\ n \in Nat /\ n <= MaxDocs /\ n > lastDoc /\ lastDoc <= n
        /\ \A d \in Doc : d > n => d > lastDoc /\ d # n
        /\ \A d \in Doc : d <= lastDoc => d # n
    BY <1>1, NextDoc
  <1>3. 0 \notin Key
    BY NoKeyIsZero
  <1>4. r \in [key : Key \cup {0}, filed : BOOLEAN] /\ r.key = k /\ r.filed = f
    OBVIOUS
  <1>5. r # NoRow
    BY <1>3 DEF NoRow
  <1> HIDE DEF n, r
  <1>6. docs \in [Doc -> [key : Key \cup {0}, filed : BOOLEAN]]
    BY DEF Bytes
  <1>7. /\ docs' \in [Doc -> [key : Key \cup {0}, filed : BOOLEAN]]
        /\ docs'[n] = r /\ \A d \in Doc \ {n} : docs'[d] = docs[d]
    BY <1>1, <1>2, <1>4, <1>6
  <1>8. docs[n] = NoRow /\ docs[n].key = 0
    <2>1. docs[n] = NoRow
      BY <1>2 DEF Bytes, Numbered
    <2> QED BY <2>1 DEF NoRow
  <1>9. \A j \in Key : IsStoredFileReferenced(j)' <=> IsStoredFileReferenced(j) \/ j = k
    BY <1>2, <1>3, <1>4, <1>7, <1>8 DEF IsStoredFileReferenced
  <1> QED BY <1>1, <1>2, <1>4, <1>5, <1>7, <1>8, <1>9

\* p gives a row to key k, which nobody else has just made, and which others
\* are about to remove only as that of a late copy.
RowFor(p, k, isFiled) ==
  /\ CreateRow(k, isFiled) /\ k <= lastKey /\ Hand(req[p]) \subseteq {k}
  /\ \A q \in Request \ {p} : k \notin New(req[q])
  /\ \A q \in Request \ {p} :
       req[q].at = "delete old" /\ req[q].key = k => isFiled = FALSE /\ k \in late'
  /\ store[k] = "none" => k \in late'

LEMMA RowBytes ==
  ASSUME Bytes, UNCHANGED <<store, lastKey, stray>>, late \subseteq late', late' \subseteq Key,
         NEW p \in Request, ReqTypes', \A q \in Request \ {p} : req'[q] = req[q], req'[p] = Idle,
         NEW k \in Key, NEW f \in BOOLEAN, RowFor(p, k, f)
  PROVE  Bytes'
  <1>0. /\ CreateRow(k, f) /\ k <= lastKey /\ Hand(req[p]) \subseteq {k}
        /\ \A q \in Request \ {p} : k \notin New(req[q])
        /\ \A q \in Request \ {p} :
             req[q].at = "delete old" /\ req[q].key = k => f = FALSE /\ k \in late'
        /\ store[k] = "none" => k \in late'
    BY DEF RowFor
  <1>1. PICK n \in Doc :
          /\ docs' \in [Doc -> [key : Key \cup {0}, filed : BOOLEAN]]
          /\ lastDoc' = n /\ n \in Nat /\ n <= MaxDocs /\ n > lastDoc /\ lastDoc <= n
          /\ \A d \in Doc : d > n => d > lastDoc /\ d # n
          /\ \A d \in Doc : d <= lastDoc => d # n
          /\ docs'[n].key = k /\ docs'[n].filed = f /\ docs'[n] # NoRow /\ docs[n] = NoRow
          /\ \A d \in Doc \ {n} : docs'[d] = docs[d]
          /\ \A j \in Key : IsStoredFileReferenced(j)' <=> IsStoredFileReferenced(j) \/ j = k
    BY <1>0, RowFacts
  <1>2. New(req'[p]) = {} /\ Known(req'[p]) = {} /\ Hand(req'[p]) = {} /\ req'[p].at = "idle"
    BY IdleFacts
  <1>3. k # 0
    BY NoKeyIsZero
  <1>4. Numbered'
    <2>1. \A d \in Doc : /\ d > n => docs'[d] = NoRow
                         /\ docs'[d].key <= lastKey
                         /\ docs'[d].key = 0 => docs'[d] = NoRow
      <3>1. ASSUME NEW d \in Doc, d # n
            PROVE  /\ d > n => docs'[d] = NoRow
                   /\ docs'[d].key <= lastKey
                   /\ docs'[d].key = 0 => docs'[d] = NoRow
        <4>1. docs'[d] = docs[d] /\ (d > n => d > lastDoc)
          BY <1>1, <3>1
        <4> QED BY <4>1 DEF Bytes, Numbered
      <3>2. ~(n > n) /\ docs'[n].key <= lastKey /\ docs'[n].key # 0
        BY <1>0, <1>1, <1>3
      <3> QED BY <3>1, <3>2
    <2>2. \A q \in Request : \A j \in New(req'[q]) \cup Known(req'[q]) : j <= lastKey
      BY <1>2 DEF Bytes, Numbered
    <2>3. lastKey <= MaxKeys /\ \A j \in Key : j > lastKey => store[j] = "none"
      BY DEF Bytes, Numbered
    <2> QED BY <1>1, <2>1, <2>2, <2>3 DEF Numbered
  <1>5. NewKeysAreOwn'
    <2> SUFFICES ASSUME NEW q \in Request, NEW j \in New(req'[q])
                 PROVE  /\ ~IsStoredFileReferenced(j)'
                        /\ \A o \in Request : j \notin Known(req'[o]) /\ (o # q => j \notin New(req'[o]))
                        /\ req'[q].at = "file" => store[j] # "none"
                        /\ req'[q].at = "swap" => store[j] = "stamped"
      BY DEF NewKeysAreOwn
    <2>1. q # p /\ req'[q] = req[q] /\ j \in New(req[q]) /\ j # k
      BY <1>0, <1>2
    <2>2. j \in Key
      BY <2>1, CarriedKeys DEF Bytes, ReqTypes
    <2>3. /\ ~IsStoredFileReferenced(j)
          /\ \A o \in Request : j \notin Known(req[o]) /\ (o # q => j \notin New(req[o]))
          /\ req[q].at = "file" => store[j] # "none"
          /\ req[q].at = "swap" => store[j] = "stamped"
      BY <2>1 DEF Bytes, NewKeysAreOwn
    <2> QED BY <1>1, <1>2, <2>1, <2>2, <2>3
  <1>6. GoneKeys'
    <2> SUFFICES ASSUME NEW q \in Request, req'[q].at = "delete old",
                        NEW d \in Doc, docs'[d].key = req'[q].key
                 PROVE  ~docs'[d].filed /\ req'[q].key \in late'
      BY DEF GoneKeys
    <2>1. q # p /\ req'[q] = req[q]
      BY <1>2
    <2>2. CASE d = n
      <3>1. docs'[d].key = k /\ docs'[d].filed = f
        BY <1>1, <2>2
      <3>2. req[q].at = "delete old" /\ req[q].key = k
        BY <2>1, <3>1
      <3>3. f = FALSE /\ k \in late'
        BY <1>0, <2>1, <3>2
      <3> QED BY <2>1, <3>1, <3>2, <3>3
    <2>3. CASE d # n
      BY <1>1, <2>1, <2>3 DEF Bytes, GoneKeys
    <2> QED BY <2>2, <2>3
  <1>7. BytesAndRowsAgree'
    <2>1. BytesOutliveRows'
      <3> SUFFICES ASSUME NEW d \in Doc, docs'[d] # NoRow, store[docs'[d].key] = "none"
                   PROVE  docs'[d].key \in late'
        BY DEF BytesOutliveRows
      <3>1. CASE d = n
        BY <1>0, <1>1, <3>1
      <3>2. CASE d # n
        BY <1>1, <3>2 DEF Bytes, BytesAndRowsAgree, BytesOutliveRows
      <3> QED BY <3>1, <3>2
    <2>2. ASSUME NEW j \in Key, store'[j] # "none", ~IsStoredFileReferenced(j)'
          PROVE  j \in stray' \/ \E q \in Request : j \in Hand(req'[q])
      <3>1. j # k /\ ~IsStoredFileReferenced(j)
        BY <1>1, <2>2
      <3>2. j \in stray \/ \E q \in Request : j \in Hand(req[q])
        BY <2>2, <3>1, StrayForm DEF Bytes, BytesAndRowsAgree
      <3>3. j \notin Hand(req[p])
        BY <1>0, <3>1
      <3> QED BY <3>2, <3>3
    <2>3. NoStrayBytes'
      BY <2>2, StrayForm
    <2> QED BY <2>1, <2>3 DEF BytesAndRowsAgree
  <1>8. lastDoc' \in Nat
    BY <1>1
  <1> QED BY <1>1, <1>4, <1>5, <1>6, <1>7, <1>8 DEF Bytes

\* p removes bytes that no row needs, or leaves them behind.
LEMMA DroppedBytes ==
  ASSUME Bytes, UNCHANGED <<docs, lastDoc, lastKey, late>>,
         NEW p \in Request, ReqTypes', \A q \in Request \ {p} : req'[q] = req[q],
         NEW k \in Key, DeleteFile(k), Hand(req[p]) = {k}, New(req'[p]) = {},
         Known(req'[p]) \subseteq Known(req[p]), req'[p].at \in {"idle", "stamp"},
         \A q \in Request \ {p} : k \notin New(req[q]),
         \A d \in Doc : docs[d].key = k => ~docs[d].filed /\ k \in late
  PROVE  /\ Bytes' /\ \A j \in Key : store'[j] = "stamped" => store[j] = "stamped"
         /\ \A d \in Doc : docs[d].filed => store'[docs[d].key] = store[docs[d].key]
  <1>1. CASE Fault /\ stray' = stray \cup {k} /\ UNCHANGED store
    <2>1. stray \subseteq stray' /\ stray' \subseteq Key
      BY <1>1 DEF Bytes
    <2>2. Bytes'
      BY <1>1, <2>1, QuietBytes
    <2> QED BY <1>1, <2>2
  <1>2. CASE store' = [store EXCEPT ![k] = "none"] /\ UNCHANGED <<stray, faults>>
    <2>1. /\ store' \in [Key -> {"none", "plain", "stamped"}] /\ store'[k] = "none"
          /\ \A j \in Key \ {k} : store'[j] = store[j]
      BY <1>2 DEF Bytes
    <2>2. \A d \in Doc : docs[d].key \in Key \cup {0} /\ (docs[d] # NoRow => docs[d].key \in Key)
      BY DEF Bytes, Numbered
    <2>3. \A d \in Doc : docs[d].filed => store'[docs[d].key] = store[docs[d].key]
      <3>1. \A d \in Doc : docs[d].filed => docs[d] # NoRow
        BY DEF NoRow
      <3> QED BY <2>1, <2>2, <3>1
    <2>4. Numbered'
      <3>1. \A j \in Key : j > lastKey => store'[j] = "none"
        BY <2>1 DEF Bytes, Numbered
      <3>2. \A q \in Request : \A j \in New(req'[q]) \cup Known(req'[q]) : j <= lastKey
        BY DEF Bytes, Numbered
      <3> QED BY <3>1, <3>2 DEF Bytes, Numbered
    <2>5. NewKeysAreOwn'
      <3> SUFFICES ASSUME NEW q \in Request, NEW j \in New(req'[q])
                   PROVE  /\ ~IsStoredFileReferenced(j)
                          /\ \A o \in Request : j \notin Known(req'[o]) /\ (o # q => j \notin New(req'[o]))
                          /\ req'[q].at = "file" => store'[j] # "none"
                          /\ req'[q].at = "swap" => store'[j] = "stamped"
        BY DEF NewKeysAreOwn, IsStoredFileReferenced
      <3>1. q # p /\ req'[q] = req[q] /\ j \in New(req[q]) /\ j # k
        OBVIOUS
      <3>2. j \in Key
        BY <3>1, CarriedKeys DEF Bytes, ReqTypes
      <3>3. /\ ~IsStoredFileReferenced(j)
            /\ \A o \in Request : j \notin Known(req[o]) /\ (o # q => j \notin New(req[o]))
            /\ req[q].at = "file" => store[j] # "none"
            /\ req[q].at = "swap" => store[j] = "stamped"
        BY <3>1 DEF Bytes, NewKeysAreOwn
      <3> QED BY <2>1, <3>1, <3>2, <3>3
    <2>6. GoneKeys'
      <3> SUFFICES ASSUME NEW q \in Request, req'[q].at = "delete old",
                          NEW d \in Doc, docs[d].key = req'[q].key
                   PROVE  ~docs[d].filed /\ req'[q].key \in late
        BY DEF GoneKeys
      <3> QED BY DEF Bytes, GoneKeys
    <2>7. BytesAndRowsAgree'
      <3>1. BytesOutliveRows'
        BY <2>1, <2>2 DEF Bytes, BytesAndRowsAgree, BytesOutliveRows
      <3>2. ASSUME NEW j \in Key, store'[j] # "none", ~IsStoredFileReferenced(j)
            PROVE  j \in stray \/ \E q \in Request : j \in Hand(req'[q])
        <4>1. j # k /\ store[j] # "none"
          BY <2>1, <3>2
        <4>2. j \in stray \/ \E q \in Request : j \in Hand(req[q])
          BY <3>2, <4>1, StrayForm DEF Bytes, BytesAndRowsAgree
        <4>3. j \notin Hand(req[p])
          BY <4>1
        <4> QED BY <4>2, <4>3
      <3>3. \A j \in Key : IsStoredFileReferenced(j)' <=> IsStoredFileReferenced(j)
        BY DEF IsStoredFileReferenced
      <3>4. NoStrayBytes'
        BY <1>2, <3>2, <3>3, StrayForm
      <3> QED BY <3>1, <3>4 DEF BytesAndRowsAgree
    <2>8. Bytes'
      BY <1>2, <2>1, <2>4, <2>5, <2>6, <2>7 DEF Bytes
    <2> QED BY <2>1, <2>3, <2>8
  <1> QED BY <1>1, <1>2 DEF DeleteFile
\* A request that gives a key a row, and is done.
LEMMA RowKeeps ==
  ASSUME IInv, UNCHANGED <<status, store, lastKey, faults, voided, stray>>,
         late \subseteq late', late' \subseteq Key,
         NEW p \in Request, req[p].at \in {"file", "copy"}, Goto(p, Idle),
         NEW k \in Key, NEW f \in BOOLEAN, RowFor(p, k, f)
  PROVE  IInv'
  <1>1. ReqTypes' /\ req'[p] = Idle /\ \A q \in Request \ {p} : req'[q] = req[q]
    BY GotoFacts, IdleFacts DEF IInv, Bytes
  <1>2. Bytes'
    <2>1. Bytes
      BY DEF IInv
    <2>2. UNCHANGED <<store, lastKey, stray>>
      OBVIOUS
    <2> QED BY <1>1, <2>1, <2>2, RowBytes
  <1>3. PICK n \in Doc :
          /\ docs' \in [Doc -> [key : Key \cup {0}, filed : BOOLEAN]]
          /\ lastDoc' = n /\ n \in Nat /\ n <= MaxDocs /\ n > lastDoc /\ lastDoc <= n
          /\ \A d \in Doc : d > n => d > lastDoc /\ d # n
          /\ \A d \in Doc : d <= lastDoc => d # n
          /\ docs'[n].key = k /\ docs'[n].filed = f /\ docs'[n] # NoRow /\ docs[n] = NoRow
          /\ \A d \in Doc \ {n} : docs'[d] = docs[d]
          /\ \A j \in Key : IsStoredFileReferenced(j)' <=> IsStoredFileReferenced(j) \/ j = k
    BY RowFacts DEF IInv, RowFor
  <1>4. TypeOK' /\ VoidedType'
    BY <1>3 DEF IInv, TypeOK, VoidedType
  <1>5. Todo(req[p]) = {} /\ \A d : ~Left(req[p], d)
    BY DEF Todo, Left
  <1>6. OneVoid'
    BY <1>1, IdleFacts, VoidKept DEF IInv, Bytes
  <1>7. Progress'
    <2>1. \A d \in voided.rows : d \in Doc /\ docs'[d] = docs[d] /\ (docs[d] = NoRow \/ docs[d].filed)
      BY <1>3 DEF IInv, Progress
    <2>2. \A d \in voided.rows : Stamped(d) => (docs'[d] # NoRow => store'[docs'[d].key] = "stamped")
      BY <2>1 DEF Stamped
    <2>3. Progress /\ lastDoc \in Nat /\ lastDoc' \in Nat /\ lastDoc <= lastDoc'
      BY <1>3 DEF IInv, Bytes
    <2>4. \A d \in voided.rows : docs'[d] = NoRow \/ docs'[d].filed
      BY <2>1
    <2> QED BY <1>1, <1>5, <2>2, <2>3, <2>4, ProgressKept
  <1> QED BY <1>2, <1>4, <1>6, <1>7 DEF IInv

\* The new copy gets its row, or its bytes are to go again.
LEMMA FileRowKeeps ==
  ASSUME IInv, NEW p \in Request, FileRow(p)
  PROVE  IInv'
  <1> DEFINE k == req[p].new
  <1>1. req[p].at = "file" /\ UNCHANGED <<status, store, lastKey, voided, stray, late>>
    BY DEF FileRow, history
  <1>2. k \in Key /\ New(req[p]) = {k} /\ Hand(req[p]) = {k}
    BY <1>1, WorkFields DEF IInv, Bytes, ReqTypes, New, Hand
  <1>3. Todo(req[p]) = {} /\ \A d : ~Left(req[p], d)
    BY <1>1 DEF Todo, Left
  <1> HIDE DEF k
  <1>4. CASE CreateRow(k, TRUE) /\ Goto(p, Idle) /\ UNCHANGED faults
    <2>1. k <= lastKey
      BY <1>2 DEF IInv, Bytes, Numbered
    <2>2. /\ store[k] # "none"
          /\ \A q \in Request : k \notin Known(req[q]) /\ (q # p => k \notin New(req[q]))
      BY <1>1, <1>2 DEF IInv, Bytes, NewKeysAreOwn
    <2>3. \A q \in Request : ~(req[q].at = "delete old" /\ req[q].key = k)
      BY <2>2 DEF Known
    <2>4. late \subseteq late' /\ late' \subseteq Key
      BY <1>1 DEF IInv, Bytes
    <2>5. UNCHANGED <<status, store, lastKey, faults, voided, stray>> /\ TRUE \in BOOLEAN
      BY <1>1, <1>4
    <2>6. RowFor(p, k, TRUE)
      BY <1>2, <1>4, <2>1, <2>2, <2>3 DEF RowFor
    <2> QED BY <1>1, <1>2, <1>4, <2>4, <2>5, <2>6, RowKeeps
  <1>5. CASE Fault /\ Goto(p, [at |-> "drop", new |-> k, todo |-> {}]) /\ UNCHANGED <<docs, lastDoc>>
    <2> DEFINE w == [at |-> "drop", new |-> k, todo |-> {}]
    <2>1. w \in Work /\ w.at = "drop" /\ w.new = k /\ w.todo = {}
      BY <1>2 DEF Work, Todos
    <2>2. Goto(p, w)
      BY <1>5
    <2> HIDE DEF w
    <2>3. New(w) = {k} /\ Hand(w) = {k} /\ Todo(w) = {} /\ Known(w) = {} /\ ~VoidWork(w)
      BY <2>1 DEF New, Hand, Todo, Known, VoidWork
    <2>4. ReqTypes' /\ req'[p] = w /\ \A q \in Request \ {p} : req'[q] = req[q]
      BY <2>1, <2>2, GotoFacts DEF IInv, Bytes
    <2>5. TypeOK' /\ VoidedType'
      BY <1>1, <1>5 DEF IInv, TypeOK, VoidedType, Fault
    <2>6. Bytes'
      <3>1. stray \subseteq stray' /\ stray' \subseteq Key
        BY <1>1 DEF IInv, Bytes
      <3> QED BY <1>1, <1>2, <1>5, <2>1, <2>3, <2>4, <3>1, QuietBytes DEF IInv
    <2>7. OneVoid'
      BY <1>1, <2>1, <2>3, <2>4, VoidKept DEF IInv, Bytes
    <2>8. Progress'
      BY <1>1, <1>3, <1>5, <2>4, ProgressKept DEF IInv, Bytes, Progress, Stamped
    <2> QED BY <2>5, <2>6, <2>7, <2>8 DEF IInv
  <1> QED BY <1>4, <1>5 DEF FileRow, k

\* A copy gets its row: if no row has the key any more, that is late.
LEMMA InsertCopyKeeps ==
  ASSUME IInv, NEW p \in Request, InsertCopy(p)
  PROVE  IInv'
  <1> DEFINE k == req[p].key
  <1>1. /\ req[p].at = "copy" /\ CreateRow(k, FALSE) /\ Goto(p, Idle)
        /\ late' = IF IsStoredFileReferenced(k) THEN late ELSE late \cup {k}
        /\ UNCHANGED <<status, store, lastKey, faults, voided, stray>>
    BY DEF InsertCopy
  <1>2. k \in Key /\ k \in Known(req[p]) /\ Hand(req[p]) = {}
    BY <1>1, WorkFields DEF IInv, Bytes, ReqTypes, Known, Hand
  <1> HIDE DEF k
  <1>3. k <= lastKey
    BY <1>2 DEF IInv, Bytes, Numbered
  <1>4. \A q \in Request : k \notin New(req[q])
    BY <1>2 DEF IInv, Bytes, NewKeysAreOwn
  <1>5. late \subseteq late' /\ late' \subseteq Key
    BY <1>1, <1>2 DEF IInv, Bytes
  <1>6. ASSUME NEW q \in Request, req[q].at = "delete old", req[q].key = k
        PROVE  k \in late'
    BY <1>1, <1>6 DEF IInv, Bytes, GoneKeys, IsStoredFileReferenced
  <1>7. ASSUME store[k] = "none"
        PROVE  k \in late'
    <2>1. CASE IsStoredFileReferenced(k)
      <3>1. PICK d \in Doc : docs[d].key = k
        BY <2>1 DEF IsStoredFileReferenced
      <3>2. docs[d] # NoRow
        BY <1>2, <3>1, NoKeyIsZero DEF NoRow
      <3> QED BY <1>5, <1>7, <3>1, <3>2 DEF IInv, Bytes, BytesAndRowsAgree, BytesOutliveRows
    <2>2. CASE ~IsStoredFileReferenced(k)
      BY <1>1, <2>2
    <2> QED BY <2>1, <2>2
  <1>8. RowFor(p, k, FALSE) /\ FALSE \in BOOLEAN
    BY <1>1, <1>2, <1>3, <1>4, <1>6, <1>7 DEF RowFor
  <1> QED BY <1>1, <1>2, <1>5, <1>8, RowKeeps

\* Bytes go that were made for nothing, or that no row was found to need.
LEMMA DropKeeps ==
  ASSUME IInv, NEW p \in Request, DropNew(p) \/ DeleteOld(p)
  PROVE  IInv'
  <1> DEFINE todo == req[p].todo
  <1>1. /\ Goto(p, Rest(todo)) /\ UNCHANGED <<status, docs, lastDoc, lastKey, voided, late>>
        /\ req[p].at \in {"drop", "delete old"}
    BY DEF DropNew, DeleteOld
  <1>2. PICK k : /\ DeleteFile(k)
                 /\ \/ req[p].at = "drop" /\ k = req[p].new
                    \/ req[p].at = "delete old" /\ k = req[p].key
    BY DEF DropNew, DeleteOld
  <1>3. k \in Key /\ todo \in Todos /\ Hand(req[p]) = {k}
    BY <1>2, WorkFields DEF IInv, Bytes, ReqTypes, Hand
  <1>4. /\ Todo(req[p]) = todo /\ (VoidWork(req[p]) <=> todo # {})
        /\ {e[2] : e \in todo} \subseteq Known(req[p])
    BY <1>1 DEF Todo, VoidWork, Known
  <1>5. \A d : Left(req[p], d) => \E e \in todo : e[1] = d
    BY <1>1, <1>4 DEF Left
  <1>6. /\ \A q \in Request \ {p} : k \notin New(req[q])
        /\ \A d \in Doc : docs[d].key = k => ~docs[d].filed /\ k \in late
    <2>1. CASE req[p].at = "drop"
      <3>1. k \in New(req[p])
        BY <1>2, <2>1 DEF New
      <3> QED BY <3>1 DEF IInv, Bytes, NewKeysAreOwn, IsStoredFileReferenced
    <2>2. CASE req[p].at = "delete old"
      <3>1. k \in Known(req[p]) /\ k = req[p].key
        BY <1>2, <2>2 DEF Known
      <3> QED BY <2>2, <3>1 DEF IInv, Bytes, NewKeysAreOwn, GoneKeys
    <2> QED BY <1>1, <2>1, <2>2
  <1> HIDE DEF todo
  <1>7. ReqTypes' /\ req'[p] = Rest(todo) /\ \A q \in Request \ {p} : req'[q] = req[q]
    BY <1>1, <1>3, GotoFacts, RestFacts DEF IInv, Bytes
  <1>8. /\ New(req'[p]) = {} /\ Todo(req'[p]) = todo /\ Known(req'[p]) = {e[2] : e \in todo}
        /\ (VoidWork(req'[p]) <=> todo # {}) /\ req'[p].at \in {"idle", "stamp"}
    BY <1>3, <1>7, RestFacts
  <1>9. /\ Bytes' /\ \A j \in Key : store'[j] = "stamped" => store[j] = "stamped"
        /\ \A d \in Doc : docs[d].filed => store'[docs[d].key] = store[docs[d].key]
    BY <1>1, <1>2, <1>3, <1>4, <1>6, <1>7, <1>8, DroppedBytes DEF IInv
  <1>10. TypeOK' /\ VoidedType'
    <2>1. faults' \in Nat
      <3>1. faults \in Nat
        BY DEF IInv, TypeOK
      <3>2. faults' = faults \/ faults' = faults + 1
        BY <1>2 DEF DeleteFile, Fault
      <3> QED BY <3>1, <3>2
    <2> QED BY <1>1, <1>9, <2>1 DEF IInv, TypeOK, VoidedType, Bytes
  <1>11. OneVoid'
    <2>1. \A e \in todo : e[2] \in Key /\ store[e[2]] # "stamped"
      BY <1>3, <1>4 DEF Todos, IInv, OneVoid
    <2>2. \A e \in Todo(req'[p]) : store'[e[2]] # "stamped"
      BY <1>8, <1>9, <2>1
    <2> QED BY <1>1, <1>4, <1>7, <1>8, <1>9, <2>2, VoidKept DEF IInv, Bytes
  <1>12. Progress'
    <2>1. \A d \in voided.rows : d \in Doc /\ (docs[d] = NoRow \/ docs[d].filed)
      BY DEF IInv, Progress
    <2>2. \A d \in voided.rows : Stamped(d) => (docs'[d] # NoRow => store'[docs'[d].key] = "stamped")
      BY <1>1, <1>9, <2>1 DEF Stamped
    <2>3. \A d \in voided.rows : Left(req[p], d) => Left(req'[p], d)
      BY <1>5, <1>8 DEF Left
    <2>4. Progress /\ lastDoc \in Nat /\ lastDoc' = lastDoc
      BY <1>1 DEF IInv, Bytes
    <2>5. lastDoc <= lastDoc'
      BY <2>4
    <2> QED BY <1>1, <1>7, <2>1, <2>2, <2>3, <2>4, <2>5, ProgressKept
  <1> QED BY <1>9, <1>10, <1>11, <1>12 DEF IInv
\* Row x loses its key, or gets the one that p has made for it; the old key is
\* in p's hands, or left behind.
LEMMA RekeyedBytes ==
  ASSUME Bytes, UNCHANGED <<store, lastDoc, lastKey, late>>, stray \subseteq stray', stray' \subseteq Key,
         NEW p \in Request, ReqTypes', \A q \in Request \ {p} : req'[q] = req[q],
         New(req'[p]) = {}, Known(req'[p]) \subseteq Known(req[p]), req'[p].at # "delete old",
         docs' \in [Doc -> [key : Key \cup {0}, filed : BOOLEAN]],
         NEW x \in Doc, docs[x] # NoRow, \A e \in Doc \ {x} : docs'[e] = docs[e],
         \/ docs'[x] = NoRow
         \/ docs'[x].key \in New(req[p]) /\ store[docs'[x].key] # "none",
         \A j \in Hand(req[p]) : j = docs'[x].key, docs[x].key \in Hand(req'[p]) \cup stray'
  PROVE  Bytes'
  <1>0. PICK k, n : k = docs[x].key /\ n = docs'[x].key
    OBVIOUS
  <1>1. k \in Key /\ x \in Doc /\ ~(x > lastDoc)
    BY <1>0 DEF Bytes, Numbered
  <1>2. \/ n = 0 /\ docs'[x] = NoRow
        \/ /\ n \in Key /\ n \in New(req[p]) /\ store[n] # "none" /\ docs'[x] # NoRow
    <2>1. NoRow.key = 0
      BY DEF NoRow
    <2>2. New(req[p]) \subseteq Key
      BY CarriedKeys DEF Bytes, ReqTypes
    <2> QED BY <1>0, <2>1, <2>2, NoKeyIsZero
  <1>3. \A j \in Key : /\ IsStoredFileReferenced(j)' => IsStoredFileReferenced(j) \/ j = n
                       /\ IsStoredFileReferenced(j) /\ j # k => IsStoredFileReferenced(j)'
    BY <1>0 DEF IsStoredFileReferenced
  <1>4. n \in Key => IsStoredFileReferenced(n)'
    BY <1>0 DEF IsStoredFileReferenced
  <1>5. Numbered'
    <2>1. n <= lastKey
      <3>1. CASE n = 0
        BY <3>1, ZeroIsLeast DEF Bytes
      <3>2. CASE n \in New(req[p])
        BY <3>2 DEF Bytes, Numbered
      <3> QED BY <1>2, <3>1, <3>2
    <2>2. \A e \in Doc : /\ e > lastDoc => docs'[e] = NoRow
                         /\ docs'[e].key <= lastKey
                         /\ docs'[e].key = 0 => docs'[e] = NoRow
      <3>1. ASSUME NEW e \in Doc, e # x
            PROVE  /\ e > lastDoc => docs'[e] = NoRow
                   /\ docs'[e].key <= lastKey
                   /\ docs'[e].key = 0 => docs'[e] = NoRow
        <4>1. docs'[e] = docs[e]
          BY <3>1
        <4> QED BY <4>1 DEF Bytes, Numbered
      <3>2. docs'[x].key <= lastKey /\ (docs'[x].key = 0 => docs'[x] = NoRow)
        <4>1. docs'[x].key = n
          BY <1>0
        <4> QED BY <1>2, <2>1, <4>1, NoKeyIsZero
      <3> QED BY <1>1, <3>1, <3>2
    <2>3. \A q \in Request : \A j \in New(req'[q]) \cup Known(req'[q]) : j <= lastKey
      BY DEF Bytes, Numbered
    <2> QED BY <2>2, <2>3 DEF Bytes, Numbered
  <1>6. NewKeysAreOwn'
    <2> SUFFICES ASSUME NEW q \in Request, NEW j \in New(req'[q])
                 PROVE  /\ ~IsStoredFileReferenced(j)'
                        /\ \A o \in Request : j \notin Known(req'[o]) /\ (o # q => j \notin New(req'[o]))
                        /\ req'[q].at = "file" => store[j] # "none"
                        /\ req'[q].at = "swap" => store[j] = "stamped"
      BY DEF NewKeysAreOwn
    <2>1. q # p /\ req'[q] = req[q] /\ j \in New(req[q])
      OBVIOUS
    <2>2. j \in Key
      BY <2>1, CarriedKeys DEF Bytes, ReqTypes
    <2>3. /\ ~IsStoredFileReferenced(j)
          /\ \A o \in Request : j \notin Known(req[o]) /\ (o # q => j \notin New(req[o]))
          /\ req[q].at = "file" => store[j] # "none"
          /\ req[q].at = "swap" => store[j] = "stamped"
      BY <2>1 DEF Bytes, NewKeysAreOwn
    <2>4. j # n
      BY <1>2, <2>1, <2>2, <2>3, NoKeyIsZero
    <2> QED BY <1>3, <2>1, <2>2, <2>3, <2>4
  <1>7. GoneKeys'
    <2> SUFFICES ASSUME NEW q \in Request, req'[q].at = "delete old",
                        NEW e \in Doc, docs'[e].key = req'[q].key
                 PROVE  ~docs'[e].filed /\ req'[q].key \in late
      BY DEF GoneKeys
    <2>1. q # p /\ req'[q] = req[q]
      OBVIOUS
    <2>2. req[q].key \in Known(req[q]) /\ req[q].key \in Key
      BY <2>1, WorkFields DEF Known, Bytes, ReqTypes
    <2>3. e # x
      <3>1. NewKeysAreOwn
        BY DEF Bytes
      <3>2. n \in New(req[p]) => n \notin Known(req[q])
        BY <3>1 DEF NewKeysAreOwn
      <3>3. req[q].key # n
        BY <1>2, <2>2, <3>2, NoKeyIsZero, Zenon
      <3> QED BY <1>0, <2>1, <3>3
    <2>4. docs[e].key = req[q].key /\ docs'[e] = docs[e] /\ req[q].at = "delete old"
      BY <2>1, <2>3
    <2>5. ~docs[e].filed /\ req[q].key \in late
      <3>1. GoneKeys
        BY DEF Bytes
      <3> QED BY <2>4, <3>1 DEF GoneKeys
    <2> QED BY <2>1, <2>4, <2>5
  <1>8. BytesAndRowsAgree'
    <2>1. BytesOutliveRows'
      <3> SUFFICES ASSUME NEW e \in Doc, docs'[e] # NoRow, store[docs'[e].key] = "none"
                   PROVE  docs'[e].key \in late
        BY DEF BytesOutliveRows
      <3>1. e # x
        BY <1>0, <1>2
      <3> QED BY <3>1 DEF Bytes, BytesAndRowsAgree, BytesOutliveRows
    <2>2. ASSUME NEW j \in Key, store'[j] # "none", ~IsStoredFileReferenced(j)'
          PROVE  j \in stray' \/ \E q \in Request : j \in Hand(req'[q])
      <3>1. CASE j = k
        BY <1>0, <3>1
      <3>2. CASE j # k
        <4>1. ~IsStoredFileReferenced(j) /\ j # n
          BY <1>3, <1>4, <2>2, <3>2
        <4>2. j \in stray \/ \E q \in Request : j \in Hand(req[q])
          BY <2>2, <4>1, StrayForm DEF Bytes, BytesAndRowsAgree
        <4>3. j \notin Hand(req[p])
          BY <1>0, <4>1
        <4> QED BY <4>2, <4>3
      <3> QED BY <3>1, <3>2
    <2>3. NoStrayBytes'
      BY <2>2, StrayForm
    <2> QED BY <2>1, <2>3 DEF BytesAndRowsAgree
  <1> QED BY <1>5, <1>6, <1>7, <1>8 DEF Bytes

\* The row gets the stamped file if it still has the file that was stamped.
LEMMA SwapKeyKeeps ==
  ASSUME IInv, NEW p \in Request, SwapKey(p)
  PROVE  IInv'
  <1> DEFINE w == req[p]
             d == w.doc
             k == w.key
             n == w.new
             todo == w.todo
  <1>1. /\ w.at = "swap" /\ UNCHANGED <<status, store, lastDoc, lastKey, stray, late>>
        /\ \/ /\ docs[d].key = k /\ docs' = [docs EXCEPT ![d].key = n]
              /\ Goto(p, [at |-> "old", key |-> k, todo |-> todo]) /\ UNCHANGED <<faults, voided>>
           \/ /\ IF docs[d].key = k THEN Fault ELSE UNCHANGED faults
              /\ Failed(d) /\ Goto(p, [at |-> "drop", new |-> n, todo |-> todo]) /\ UNCHANGED docs
    BY DEF SwapKey
  <1>2. d \in Doc /\ k \in Key /\ n \in Key /\ todo \in Todos
    BY <1>1, WorkFields DEF IInv, Bytes, ReqTypes
  <1>3. /\ New(w) = {n} /\ Hand(w) = {n} /\ Todo(w) = todo /\ VoidWork(w)
        /\ Known(w) = {k} \cup {e[2] : e \in todo}
    BY <1>1 DEF New, Hand, Todo, VoidWork, Known
  <1>4. \A x : Left(w, x) => x = d \/ \E e \in todo : e[1] = x
    BY <1>1, <1>3 DEF Left
  <1>5. \A e \in todo : store[e[2]] # "stamped"
    BY <1>3 DEF IInv, OneVoid
  <1>6. store[n] = "stamped"
    BY <1>1, <1>3 DEF IInv, Bytes, NewKeysAreOwn
  <1>7. stray \subseteq stray' /\ stray' \subseteq Key /\ Bytes /\ Progress
    BY <1>1 DEF IInv, Bytes
  <1>8. lastDoc \in Nat /\ lastDoc' = lastDoc
    BY <1>1 DEF IInv, Bytes
  <1>9. lastDoc <= lastDoc'
    BY <1>8
  <1> HIDE DEF d, k, n, todo
  <1>10. CASE /\ docs[d].key = k /\ docs' = [docs EXCEPT ![d].key = n]
              /\ Goto(p, [at |-> "old", key |-> k, todo |-> todo]) /\ UNCHANGED <<faults, voided>>
    <2> DEFINE v == [at |-> "old", key |-> k, todo |-> todo]
    <2>1. v \in Work /\ v.at = "old" /\ v.key = k /\ v.todo = todo
      BY <1>2 DEF Work
    <2>2. Goto(p, v)
      BY <1>10
    <2> HIDE DEF v
    <2>3. /\ New(v) = {} /\ Hand(v) = {k} /\ Todo(v) = todo /\ Known(v) = {k} \cup {e[2] : e \in todo}
      BY <2>1 DEF New, Hand, Todo, Known
    <2>4. ReqTypes' /\ req'[p] = v /\ \A q \in Request \ {p} : req'[q] = req[q]
      BY <1>7, <2>1, <2>2, GotoFacts DEF Bytes
    <2>5. /\ docs' \in [Doc -> [key : Key \cup {0}, filed : BOOLEAN]]
          /\ \A e \in Doc \ {d} : docs'[e] = docs[e]
          /\ docs'[d].key = n /\ docs'[d].filed = docs[d].filed
      BY <1>2, <1>10 DEF IInv, Bytes
    <2>6. docs[d] # NoRow
      BY <1>2, <1>10, NoKeyIsZero DEF NoRow
    <2>7. Bytes'
      <3>1. docs'[d].key \in New(req[p]) /\ store[docs'[d].key] # "none"
        BY <1>3, <1>6, <2>5
      <3>2. (\A j \in Hand(req[p]) : j = docs'[d].key) /\ docs[d].key \in Hand(req'[p]) \cup stray'
        BY <1>3, <1>10, <2>3, <2>4, <2>5
      <3>3. New(req'[p]) = {} /\ Known(req'[p]) \subseteq Known(req[p]) /\ req'[p].at # "delete old"
        BY <1>3, <2>1, <2>3, <2>4
      <3>4. UNCHANGED <<store, lastDoc, lastKey, late>>
        BY <1>1
      <3> QED BY <1>2, <1>7, <2>4, <2>5, <2>6, <3>1, <3>2, <3>3, <3>4, RekeyedBytes
    <2>8. TypeOK' /\ VoidedType'
      BY <1>1, <1>10, <2>5 DEF IInv, TypeOK, VoidedType
    <2>9. OneVoid'
      BY <1>1, <1>3, <1>5, <1>10, <2>1, <2>3, <2>4, VoidKept DEF IInv, Bytes
    <2>10. Progress'
      <3>1. \A x \in voided.rows : x \in Doc /\ (docs[x] = NoRow \/ docs[x].filed)
        BY <1>7 DEF Progress
      <3>2. \A x \in voided.rows : docs'[x] = NoRow \/ docs'[x].filed
        BY <2>5, <2>6, <3>1
      <3>3. \A x \in voided.rows : Stamped(x) => (docs'[x] # NoRow => store'[docs'[x].key] = "stamped")
        BY <1>1, <1>6, <2>5, <3>1 DEF Stamped
      <3>4. \A x \in voided.rows : Left(req[p], x) =>
              Left(req'[p], x) \/ (docs'[x] # NoRow => store'[docs'[x].key] = "stamped")
        BY <1>1, <1>4, <1>6, <2>3, <2>4, <2>5 DEF Left
      <3> QED BY <1>7, <1>8, <1>9, <1>10, <2>4, <3>2, <3>3, <3>4, ProgressKept
    <2> QED BY <2>7, <2>8, <2>9, <2>10 DEF IInv
  <1>11. CASE /\ IF docs[d].key = k THEN Fault ELSE UNCHANGED faults
              /\ Failed(d) /\ Goto(p, [at |-> "drop", new |-> n, todo |-> todo]) /\ UNCHANGED docs
    <2> DEFINE v == [at |-> "drop", new |-> n, todo |-> todo]
    <2>1. v \in Work /\ v.at = "drop" /\ v.new = n /\ v.todo = todo
      BY <1>2 DEF Work
    <2>2. Goto(p, v)
      BY <1>11
    <2> HIDE DEF v
    <2>3. /\ New(v) = {n} /\ Hand(v) = {n} /\ Todo(v) = todo /\ Known(v) = {e[2] : e \in todo}
      BY <2>1 DEF New, Hand, Todo, Known
    <2>4. ReqTypes' /\ req'[p] = v /\ \A q \in Request \ {p} : req'[q] = req[q]
      BY <1>7, <2>1, <2>2, GotoFacts DEF Bytes
    <2>5. /\ VoidedType' /\ voided'.rows = voided.rows /\ d \in voided'.failed
          /\ voided.failed \subseteq voided'.failed
          /\ voided'.found = voided.found /\ (voided.died => voided'.died)
      BY <1>2, <1>11, FailedFacts DEF IInv
    <2>6. TypeOK'
      BY <1>1, <1>11 DEF IInv, TypeOK, Fault
    <2>7. Bytes'
      BY <1>1, <1>3, <1>7, <1>11, <2>1, <2>3, <2>4, QuietBytes
    <2>8. OneVoid'
      BY <1>1, <1>3, <1>5, <1>11, <2>1, <2>3, <2>4, <2>5, VoidKept DEF IInv, Bytes
    <2>9. Progress'
      <3>1. \A x \in voided.rows : docs'[x] = NoRow \/ docs'[x].filed
        BY <1>7, <1>11 DEF Progress
      <3>2. \A x \in voided.rows : Stamped(x) => (docs'[x] # NoRow => store'[docs'[x].key] = "stamped")
        BY <1>1, <1>11 DEF Stamped
      <3>3. \A x \in voided.rows : Left(req[p], x) => Left(req'[p], x) \/ x \in voided'.failed
        BY <1>4, <2>3, <2>4, <2>5 DEF Left
      <3> QED BY <1>7, <1>8, <1>9, <2>4, <2>5, <3>1, <3>2, <3>3, ProgressKept
    <2> QED BY <2>5, <2>6, <2>7, <2>8, <2>9 DEF IInv
  <1> QED BY <1>1, <1>10, <1>11

\* The row goes with whatever file it has by now.
LEMMA DeleteRowKeeps ==
  ASSUME IInv, NEW p \in Request, DeleteRow(p)
  PROVE  IInv'
  <1> DEFINE w == req[p]
             d == w.doc
             k == w.key
  <1>1. w.at = "delete" /\ UNCHANGED <<status, store, lastDoc, lastKey, faults, voided, late>>
    BY DEF DeleteRow
  <1>2. d \in Doc /\ k \in Key
    BY <1>1, WorkFields DEF IInv, Bytes, ReqTypes
  <1>3. /\ New(w) = {} /\ Hand(w) = {} /\ Todo(w) = {} /\ Known(w) = {k} /\ \A x : ~Left(w, x)
    BY <1>1 DEF New, Hand, Todo, Known, Left
  <1>4. status \in {"approved", "sent", "paid", "void"} /\ faults' \in Nat
    BY <1>1 DEF IInv, TypeOK
  <1>5. CASE docs[d] = NoRow
    <2>1. Goto(p, Idle) /\ UNCHANGED <<docs, stray>>
      BY <1>5 DEF DeleteRow
    <2>2. ReqTypes' /\ req'[p] = Idle /\ \A q \in Request \ {p} : req'[q] = req[q]
      BY <2>1, GotoFacts, IdleFacts DEF IInv, Bytes
    <2>3. UNCHANGED history
      BY <1>1, <2>1 DEF history
    <2> QED BY <1>1, <1>3, <1>4, <2>1, <2>2, <2>3, IdleFacts, ReadKeeps
  <1>6. CASE docs[d] # NoRow
    <2> DEFINE v == [at |-> "old", key |-> k, todo |-> {}]
    <2>1. /\ docs' = [docs EXCEPT ![d] = NoRow] /\ Goto(p, v)
          /\ stray' = IF docs[d].key = k THEN stray ELSE stray \cup {docs[d].key}
      BY <1>6 DEF DeleteRow
    <2>2. v \in Work /\ v.at = "old" /\ v.key = k /\ v.todo = {}
      BY <1>2 DEF Work, Todos
    <2> HIDE DEF v, d, k
    <2>3. /\ New(v) = {} /\ Hand(v) = {k} /\ Todo(v) = {} /\ Known(v) = {k} /\ ~VoidWork(v)
      BY <2>2 DEF New, Hand, Todo, Known, VoidWork
    <2>4. ReqTypes' /\ req'[p] = v /\ \A q \in Request \ {p} : req'[q] = req[q]
      BY <2>1, <2>2, GotoFacts DEF IInv, Bytes
    <2>5. /\ docs' \in [Doc -> [key : Key \cup {0}, filed : BOOLEAN]]
          /\ \A e \in Doc \ {d} : docs'[e] = docs[e]
          /\ docs'[d] = NoRow
      <3>1. NoRow \in [key : Key \cup {0}, filed : BOOLEAN]
        BY DEF NoRow
      <3> QED BY <1>2, <2>1, <3>1 DEF IInv, Bytes
    <2>6. docs[d].key \in Key
      BY <1>2, <1>6 DEF IInv, Bytes, Numbered, d
    <2>7. stray \subseteq stray' /\ stray' \subseteq Key /\ docs[d].key \in Hand(req'[p]) \cup stray'
      BY <2>1, <2>3, <2>4, <2>6 DEF IInv, Bytes
    <2>8. Bytes'
      <3>1. docs[d] # NoRow
        BY <1>6 DEF d
      <3>2. New(req'[p]) = {} /\ Known(req'[p]) \subseteq Known(req[p]) /\ req'[p].at # "delete old"
        BY <1>3, <2>2, <2>3, <2>4
      <3>3. UNCHANGED <<store, lastDoc, lastKey, late>> /\ (\A j \in Hand(req[p]) : j = docs'[d].key) /\ Bytes
        BY <1>1, <1>3 DEF IInv
      <3> QED BY <1>2, <2>4, <2>5, <2>7, <3>1, <3>2, <3>3, RekeyedBytes
    <2>9. TypeOK' /\ VoidedType'
      BY <1>1, <2>5, <2>7 DEF IInv, TypeOK, VoidedType
    <2>10. OneVoid'
      BY <1>1, <2>2, <2>3, <2>4, VoidKept DEF IInv, Bytes
    <2>11. Progress'
      <3>1. \A x \in voided.rows : x \in Doc /\ (docs[x] = NoRow \/ docs[x].filed)
        BY DEF IInv, Progress
      <3>2. \A x \in voided.rows : docs'[x] = NoRow \/ docs'[x].filed
        BY <2>5, <3>1
      <3>3. \A x \in voided.rows : Stamped(x) => (docs'[x] # NoRow => store'[docs'[x].key] = "stamped")
        BY <1>1, <2>5, <3>1 DEF Stamped
      <3>4. Progress /\ lastDoc \in Nat /\ lastDoc' = lastDoc
        BY <1>1 DEF IInv, Bytes
      <3>5. lastDoc <= lastDoc'
        BY <3>4
      <3> QED BY <1>1, <1>3, <2>4, <3>2, <3>3, <3>4, <3>5, ProgressKept
    <2> QED BY <2>8, <2>9, <2>10, <2>11 DEF IInv
  <1> QED BY <1>5, <1>6

\* A request dies: what it had in its hands stays behind.
LEMMA RequestDiesKeeps ==
  ASSUME IInv, NEW p \in Request, RequestDies(p)
  PROVE  IInv'
  <1>1. /\ Goto(p, Idle) /\ Fault /\ stray' = stray \cup Hand(req[p])
        /\ voided' = [voided EXCEPT !.died = voided.died \/ Voiding(p)]
        /\ UNCHANGED <<status, docs, store, lastDoc, lastKey, late>>
    BY HandsAre DEF RequestDies
  <1>2. ReqTypes' /\ req'[p] = Idle /\ \A q \in Request \ {p} : req'[q] = req[q]
    BY <1>1, GotoFacts, IdleFacts DEF IInv, Bytes
  <1>3. stray \subseteq stray' /\ stray' \subseteq Key
    <2>1. Hand(req[p]) \subseteq Key
      BY CarriedKeys DEF IInv, Bytes, ReqTypes
    <2> QED BY <1>1, <2>1 DEF IInv, Bytes
  <1>4. /\ VoidedType' /\ voided'.rows = voided.rows /\ voided'.failed = voided.failed
        /\ voided'.found = voided.found /\ (voided.died => voided'.died) /\ (Voiding(p) => voided'.died)
    <2>1. (voided.died \/ Voiding(p)) \in BOOLEAN
      BY DEF Voiding, IInv, VoidedType
    <2> QED BY <1>1, <2>1 DEF IInv, VoidedType
  <1>5. \A d : Left(req[p], d) => Voiding(p)
    BY DEF Left, Voiding, Todo
  <1>6. TypeOK'
    BY <1>1, <1>3 DEF IInv, TypeOK, Fault
  <1>7. Bytes'
    BY <1>1, <1>2, <1>3, IdleFacts, QuietBytes DEF IInv
  <1>8. OneVoid'
    BY <1>1, <1>2, <1>4, IdleFacts, VoidKept DEF IInv, Bytes
  <1>9. Progress'
    BY <1>1, <1>2, <1>4, <1>5, ProgressKept DEF IInv, Bytes, Progress, Stamped
  <1> QED BY <1>4, <1>6, <1>7, <1>8, <1>9 DEF IInv
-----------------------------------------------------------------------------
LEMMA InitIInv == Init => IInv
  <1> SUFFICES ASSUME Init PROVE IInv
    OBVIOUS
  <1>1. /\ docs = [d \in Doc |-> NoRow] /\ NoRow.key = 0 /\ ~NoRow.filed
        /\ NoRow \in [key : Key \cup {0}, filed : BOOLEAN]
    BY DEF Init, NoRow
  <1>2. \A p \in Request : req[p] = Idle
    BY DEF Init
  <1>3. TypeOK /\ VoidedType
    BY <1>1 DEF Init, TypeOK, VoidedType
  <1>4. Bytes
    <2>1. ReqTypes
      BY IdleFacts DEF Init, ReqTypes
    <2>2. Numbered
      <3>1. lastKey = 0 /\ lastDoc = 0 /\ 0 <= MaxKeys /\ 0 <= MaxDocs
        BY InvoiceFilingAssumption DEF Init
      <3>2. \A d \in Doc : docs[d] = NoRow /\ docs[d].key <= lastKey
        BY <1>1, <3>1
      <3>3. \A k \in Key : store[k] = "none"
        BY DEF Init
      <3> QED BY <1>2, <3>1, <3>2, <3>3, IdleFacts DEF Numbered
    <2>3. NewKeysAreOwn /\ GoneKeys
      BY <1>2, IdleFacts DEF NewKeysAreOwn, GoneKeys
    <2>4. BytesAndRowsAgree
      BY <1>1 DEF Init, BytesAndRowsAgree, BytesOutliveRows, NoStrayBytes
    <2> QED BY <1>1, <2>1, <2>2, <2>3, <2>4 DEF Init, Bytes
  <1>5. OneVoid
    <2>1. Unstamped
      BY DEF Init, Unstamped
    <2> QED BY <1>2, <2>1, IdleFacts DEF OneVoid, Init
  <1>6. Progress
    BY DEF Init, Progress
  <1> QED BY <1>3, <1>4, <1>5, <1>6 DEF IInv

LEMMA NextKeepsIInv == IInv /\ [Next]_vars => IInv'
  <1> SUFFICES ASSUME IInv, [Next]_vars PROVE IInv'
    OBVIOUS
  <1>1. ASSUME NEW p \in Request, Step(p) PROVE IInv'
    <2>1. CASE SendInvoice(p) \/ RecordInvoicePayment(p) \/ ResendInvoiceEmail(p)
      BY <2>1, TellKeeps
    <2>2. CASE StoreFiled(p)
      BY <2>2, StoreFiledKeeps
    <2>3. CASE FileRow(p)
      BY <2>3, FileRowKeeps
    <2>4. CASE SetInvoiceStatus(p) \/ VoidInvoice(p)
      BY <2>4, VoidStartKeeps
    <2>5. CASE CountFiled(p)
      BY <2>5, CountFiledKeeps
    <2>6. CASE CheckVoid(p)
      BY <2>6, CheckVoidKeeps
    <2>7. CASE ClaimVoid(p)
      BY <2>7, ClaimVoidKeeps
    <2>8. CASE CountLate(p)
      BY <2>8, CountLateKeeps
    <2>9. CASE ListFiled(p)
      BY <2>9, ListFiledKeeps
    <2>10. CASE StampFiled(p)
      BY <2>10, StampFiledKeeps
    <2>11. CASE SwapKey(p)
      BY <2>11, SwapKeyKeeps
    <2>12. CASE DropNew(p) \/ DeleteOld(p)
      BY <2>12, DropKeeps
    <2>13. CASE CheckOld(p)
      BY <2>13, CheckOldKeeps
    <2>14. CASE \E d \in Doc : CopyDocumentToFolder(p, d) \/ DeleteDocument(p, d)
      BY <2>14, ReadRowKeeps
    <2>15. CASE InsertCopy(p)
      BY <2>15, InsertCopyKeeps
    <2>16. CASE DeleteRow(p)
      BY <2>16, DeleteRowKeeps
    <2>17. CASE RequestDies(p)
      BY <2>17, RequestDiesKeeps
    <2> QED BY <1>1, <2>1, <2>2, <2>3, <2>4, <2>5, <2>6, <2>7, <2>8, <2>9, <2>10, <2>11, <2>12, <2>13,
               <2>14, <2>15, <2>16, <2>17 DEF Step
  <1>2. CASE UNCHANGED vars
    <2>1. UNCHANGED <<status, docs, store, req, lastDoc, lastKey, faults, voided, stray, late>>
      BY <1>2 DEF vars, history
    <2>2. TypeOK' /\ VoidedType'
      BY <2>1 DEF IInv, TypeOK, VoidedType
    <2>3. Bytes'
      <3>1. \A k : IsStoredFileReferenced(k)' <=> IsStoredFileReferenced(k)
        BY <2>1 DEF IsStoredFileReferenced
      <3>2. NoStrayBytes'
        BY <2>1, <3>1, StrayForm DEF IInv, Bytes, BytesAndRowsAgree
      <3>3. BytesAndRowsAgree'
        BY <2>1, <3>2 DEF IInv, Bytes, BytesAndRowsAgree, BytesOutliveRows
      <3>4. ReqTypes' /\ Numbered' /\ GoneKeys'
        BY <2>1 DEF IInv, Bytes, ReqTypes, Numbered, GoneKeys
      <3>5. NewKeysAreOwn'
        BY <2>1 DEF IInv, Bytes, NewKeysAreOwn, IsStoredFileReferenced
      <3> QED BY <2>1, <3>3, <3>4, <3>5 DEF IInv, Bytes
    <2>4. OneVoid'
      BY <2>1 DEF IInv, OneVoid, Unstamped
    <2>5. Progress'
      BY <2>1 DEF IInv, Progress, Stamped
    <2> QED BY <2>2, <2>3, <2>4, <2>5 DEF IInv
  <1> QED BY <1>1, <1>2 DEF Next

\* Whatever requests do to the copies of an invoice, and wherever they fail or
\* die, the invariant holds.
THEOREM Invariance == Spec => []IInv
  BY InitIInv, NextKeepsIInv, PTL DEF Spec

\* Rows, bytes and counters have their types; in particular stampVoid never
\* puts a VOID over a VOID.
THEOREM TypeCorrect == Spec => []TypeOK
  <1>1. IInv => TypeOK
    BY DEF IInv
  <1> QED BY <1>1, Invariance, PTL

\* No deletion, stamp or undo takes the bytes of a row of another request,
\* except those of a copy written when nothing pointed at them any more; and
\* bytes that no row points at are in a request's hands, unless something failed.
THEOREM RowsAndBytesAgree == Spec => []BytesAndRowsAgree
  <1>1. IInv => BytesAndRowsAgree
    BY DEF IInv, Bytes
  <1> QED BY <1>1, Invariance, PTL

\* A void that found filed copies leaves every copy filed before it stamped,
\* deleted or reported.
THEOREM VoidStampsWhatItFound == Spec => []FiledCopiesAreStamped
  <1>1. IInv => FiledCopiesAreStamped
    <2> SUFFICES ASSUME IInv, VoidIsOver, voided.found, NEW d \in voided.rows
                 PROVE  Stamped(d) \/ d \in voided.failed
      BY DEF FiledCopiesAreStamped
    <2>1. ASSUME NEW p \in Request PROVE ~Left(req[p], d)
      BY DEF VoidIsOver, Voiding, Left, Todo
    <2> QED BY <2>1 DEF IInv, Progress, VoidIsOver
  <1> QED BY <1>1, Invariance, PTL
=============================================================================
