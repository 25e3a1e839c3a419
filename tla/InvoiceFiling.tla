---------------------------- MODULE InvoiceFiling ----------------------------
(***************************************************************************)
(* The PDF copies of one client invoice: filed when the invoice is sent,   *)
(* paid or sent again (src/lib/billing/invoice-filing.ts), replaced by     *)
(* VOID-stamped ones when it is voided (void-filing.ts), and copied and    *)
(* deleted like any document (src/app/actions/documents.ts).  Rows share   *)
(* stored bytes, and bytes are removed by whoever finds no row that points *)
(* at them (src/lib/stored-file-refs.ts).                                  *)
(*                                                                         *)
(* A request reads, writes the database and calls the file storage in      *)
(* steps of their own, with other requests in between; a call may fail and *)
(* a request may die at any step.  What is written in one transaction or   *)
(* one conditional update is one step.  E-mails are left out: nothing that *)
(* is stored depends on them.                                              *)
(***************************************************************************)
EXTENDS Naturals, FiniteSetsExt

CONSTANTS
  Request,            \* requests that may be under way together
  MaxDocs, MaxKeys,   \* bounds: document rows and stored files ever made
  MaxFaults           \* bound: failed calls and dead requests

ASSUME InvoiceFilingAssumption == {MaxDocs, MaxKeys, MaxFaults} \subseteq Nat

Doc == 1 .. MaxDocs   \* row ids, in the order of createdAt
Key == 1 .. MaxKeys   \* storage keys; a key is never made twice

VARIABLES
  status,     \* Invoice.status, "paid" for partial and paid
  docs,       \* Document rows: key is fileUrl, filed says that invoiceId is set
  store,      \* what is stored under each key
  req,        \* the state of each request
  lastDoc, lastKey, faults,
  \* History:
  voided,     \* of the void: rows filed by then, rows it could not stamp, whether
              \* it stamps at all, found any to stamp, or died
  stray,      \* keys left behind by a failure, or by deleting a row whose file was swapped
  late        \* keys that a copy gave to a row when no other row had them any more

history == <<voided, stray, late>>
vars == <<status, docs, store, req, lastDoc, lastKey, faults, history>>

NoRow == [key |-> 0, filed |-> FALSE]
Idle == [at |-> "idle"]

Init ==
  /\ status = "approved"
  /\ docs = [d \in Doc |-> NoRow] /\ store = [k \in Key |-> "none"]
  /\ req = [p \in Request |-> Idle]
  /\ lastDoc = 0 /\ lastKey = 0 /\ faults = 0
  /\ voided = [rows |-> {}, failed |-> {}, stamps |-> FALSE, found |-> FALSE, died |-> FALSE]
  /\ stray = {} /\ late = {}

Goto(p, w) == req' = [req EXCEPT ![p] = w]
Fault == faults < MaxFaults /\ faults' = faults + 1
Filed == {d \in Doc : docs[d].filed}

\* Some row points at the key (a sent e-mail that carries it is not modelled).
IsStoredFileReferenced(k) == \E d \in Doc : docs[d].key = k

\* storeFile: the bytes get a new key.
StoreFile(bytes) ==
  /\ lastKey < MaxKeys
  /\ lastKey' = lastKey + 1
  /\ store' = [store EXCEPT ![lastKey + 1] = bytes]

\* deleteFile, at best: a failure leaves the bytes behind.
DeleteFile(k) ==
  \/ store' = [store EXCEPT ![k] = "none"] /\ UNCHANGED <<stray, faults>>
  \/ Fault /\ stray' = stray \cup {k} /\ UNCHANGED store

CreateRow(k, isFiled) ==
  /\ lastDoc < MaxDocs
  /\ lastDoc' = lastDoc + 1
  /\ docs' = [docs EXCEPT ![lastDoc + 1] = [key |-> k, filed |-> isFiled]]

(***************************************************************************)
(* Filing                                                                  *)
(***************************************************************************)
ToFile(bytes) == [at |-> "store", bytes |-> bytes]

\* After the status is committed the PDF is filed, unless the client is told
\* through the portal.
SendInvoice(p) ==
  /\ req[p] = Idle /\ status = "approved"
  /\ status' \in {"sent", "paid"}
  /\ \E w \in {ToFile("plain"), Idle} : Goto(p, w)
  /\ UNCHANGED <<docs, store, lastDoc, lastKey, faults, history>>

\* "Send updated invoice" files a new copy.
RecordInvoicePayment(p) ==
  /\ req[p] = Idle /\ status \in {"sent", "paid"}
  /\ status' = "paid"
  /\ \E w \in {ToFile("plain"), Idle} : Goto(p, w)
  /\ UNCHANGED <<docs, store, lastDoc, lastKey, faults, history>>

ResendInvoiceEmail(p) ==
  /\ req[p] = Idle /\ status \in {"sent", "paid"}
  /\ Goto(p, ToFile("plain"))
  /\ UNCHANGED <<status, docs, store, lastDoc, lastKey, faults, history>>

\* Nothing looks at the status again.  Rendering or storing may fail.  "plain"
\* is any PDF without the stamp.
StoreFiled(p) ==
  /\ req[p].at = "store"
  /\ \/ /\ StoreFile(req[p].bytes)
        /\ Goto(p, [at |-> "file", new |-> lastKey + 1])
        /\ UNCHANGED faults
     \/ Fault /\ Goto(p, Idle) /\ UNCHANGED <<store, lastKey>>
  /\ UNCHANGED <<status, docs, lastDoc, history>>

FileRow(p) ==
  /\ req[p].at = "file"
  /\ \/ CreateRow(req[p].new, TRUE) /\ Goto(p, Idle) /\ UNCHANGED faults
     \/ Fault /\ Goto(p, [at |-> "drop", new |-> req[p].new, todo |-> {}]) /\ UNCHANGED <<docs, lastDoc>>
  /\ UNCHANGED <<status, store, lastKey, history>>

(***************************************************************************)
(* Voiding                                                                 *)
(***************************************************************************)
Unprepared == [at |-> "check", stamps |-> FALSE, counted |-> FALSE, found |-> FALSE, fresh |-> FALSE]

\* What the page of an approved invoice calls: it never stamps.
SetInvoiceStatus(p) ==
  /\ req[p] = Idle
  /\ Goto(p, Unprepared)
  /\ UNCHANGED <<status, docs, store, lastDoc, lastKey, faults, history>>

\* voidInvoice reads the invoice; an approved one has nothing filed to stamp.
VoidInvoice(p) ==
  /\ req[p] = Idle /\ status \in {"approved", "sent"}
  /\ Goto(p, IF status = "sent" THEN [at |-> "count"]
             ELSE [Unprepared EXCEPT !.stamps = TRUE])
  /\ UNCHANGED <<status, docs, store, lastDoc, lastKey, faults, history>>

\* prepare: are there filed copies?  If not, one is rendered, which may fail.
CountFiled(p) ==
  /\ req[p].at = "count"
  /\ \E fresh \in BOOLEAN :
       /\ fresh => Filed = {}
       /\ IF Filed = {} /\ ~fresh THEN Fault ELSE UNCHANGED faults
       /\ Goto(p, [at |-> "check", stamps |-> TRUE, counted |-> TRUE,
                   found |-> Filed # {}, fresh |-> fresh])
  /\ UNCHANGED <<status, docs, store, lastDoc, lastKey, history>>

\* setInvoiceStatusUnchecked: read again, then write if nothing moved.
CheckVoid(p) ==
  /\ req[p].at = "check"
  /\ Goto(p, IF status \in {"approved", "sent"}
             THEN [at |-> "claim", from |-> status, seen |-> req[p]]
             ELSE Idle)
  /\ UNCHANGED <<status, docs, store, lastDoc, lastKey, faults, history>>

\* Which copies a void deals with, once it knows whether any were filed.
Stamping(found, fresh) ==
  CASE found           -> [at |-> "list"]
    [] ~found /\ fresh -> ToFile("stamped")
    [] OTHER           -> Idle

\* Mutant: a second void gets through.
UnmovedOrVoided(p) == status \in {req[p].from, "void"}
Unmoved(p) == status = req[p].from

ClaimVoid(p) ==
  LET seen == req[p].seen IN
  /\ req[p].at = "claim"
  /\ IF Unmoved(p)
       THEN /\ status' = "void"
            /\ voided' = [voided EXCEPT !.rows = Filed, !.stamps = seen.stamps, !.found = seen.found]
            /\ Goto(p, CASE req[p].from # "sent" \/ ~seen.stamps -> Idle
                         [] req[p].from = "sent" /\ seen.stamps /\ ~seen.counted -> [at |-> "count late"]
                         [] OTHER -> Stamping(seen.found, seen.fresh))
       ELSE Goto(p, Idle) /\ UNCHANGED <<status, voided>>
  /\ UNCHANGED <<docs, store, lastDoc, lastKey, faults, stray, late>>

\* The invoice was sent between the first read and the void.
CountLate(p) ==
  /\ req[p].at = "count late"
  /\ voided' = [voided EXCEPT !.found = Filed # {}]
  /\ Goto(p, Stamping(Filed # {}, FALSE))
  /\ UNCHANGED <<status, docs, store, lastDoc, lastKey, faults, stray, late>>

\* Mutant: only the first copy is stamped.
ListedOldest == {<<d, docs[d].key>> : d \in {e \in Filed : e = Min(Filed)}}

\* stampFiledInvoicePdfs: the filed rows with their keys, one after the other.
Listed == {<<d, docs[d].key>> : d \in Filed}

ListFiled(p) ==
  /\ req[p].at = "list"
  /\ Goto(p, IF Listed = {} THEN Idle ELSE [at |-> "stamp", todo |-> Listed])
  /\ UNCHANGED <<status, docs, store, lastDoc, lastKey, faults, history>>

Rest(todo) == IF todo = {} THEN Idle ELSE [at |-> "stamp", todo |-> todo]
Failed(d) == voided' = [voided EXCEPT !.failed = @ \cup {d}]
StampVoid(bytes) == IF bytes = "plain" THEN "stamped" ELSE "stamped twice"

StampFiled(p) ==
  LET e    == CHOOSE f \in req[p].todo : \A g \in req[p].todo : f[1] <= g[1]
      rest == req[p].todo \ {e} IN
  /\ req[p].at = "stamp"
  /\ \/ /\ store[e[2]] # "none"
        /\ StoreFile(StampVoid(store[e[2]]))
        /\ Goto(p, [at |-> "swap", doc |-> e[1], key |-> e[2], new |-> lastKey + 1, todo |-> rest])
        /\ UNCHANGED <<faults, voided>>
     \/ /\ IF store[e[2]] = "none" THEN UNCHANGED faults ELSE Fault
        /\ Failed(e[1]) /\ Goto(p, Rest(rest))
        /\ UNCHANGED <<store, lastKey>>
  /\ UNCHANGED <<status, docs, lastDoc, stray, late>>

\* The row gets the new key if it still has the old one.
SwapKey(p) ==
  LET w == req[p] IN
  /\ w.at = "swap"
  /\ \/ /\ docs[w.doc].key = w.key
        /\ docs' = [docs EXCEPT ![w.doc].key = w.new]
        /\ Goto(p, [at |-> "old", key |-> w.key, todo |-> w.todo])
        /\ UNCHANGED <<faults, voided>>
     \/ /\ IF docs[w.doc].key = w.key THEN Fault ELSE UNCHANGED faults
        /\ Failed(w.doc)
        /\ Goto(p, [at |-> "drop", new |-> w.new, todo |-> w.todo])
        /\ UNCHANGED docs
  /\ UNCHANGED <<status, store, lastDoc, lastKey, stray, late>>

\* Bytes whose row could not be written go again.
DropNew(p) ==
  /\ req[p].at = "drop"
  /\ DeleteFile(req[p].new)
  /\ Goto(p, Rest(req[p].todo))
  /\ UNCHANGED <<status, docs, lastDoc, lastKey, voided, late>>

\* Mutant: the old bytes go, whoever else has them.
CheckNoRow(p) ==
  /\ req[p].at = "old"
  /\ Goto(p, [req[p] EXCEPT !.at = "delete old"])
  /\ UNCHANGED <<status, docs, store, lastDoc, lastKey, faults, history>>

\* The old bytes go if no row points at them any more; when that cannot be
\* found out they stay.
CheckOld(p) ==
  LET w == req[p] IN
  /\ w.at = "old"
  /\ \/ /\ Goto(p, IF IsStoredFileReferenced(w.key) THEN Rest(w.todo)
                     ELSE [w EXCEPT !.at = "delete old"])
        /\ UNCHANGED <<stray, faults>>
     \/ Fault /\ stray' = stray \cup {w.key} /\ Goto(p, Rest(w.todo))
  /\ UNCHANGED <<status, docs, store, lastDoc, lastKey, voided, late>>

DeleteOld(p) ==
  /\ req[p].at = "delete old"
  /\ DeleteFile(req[p].key)
  /\ Goto(p, Rest(req[p].todo))
  /\ UNCHANGED <<status, docs, lastDoc, lastKey, voided, late>>

(***************************************************************************)
(* Documents                                                               *)
(***************************************************************************)
\* A copy shares the stored file and does not belong to the invoice.
CopyDocumentToFolder(p, d) ==
  /\ req[p] = Idle /\ docs[d] # NoRow
  /\ Goto(p, [at |-> "copy", key |-> docs[d].key])
  /\ UNCHANGED <<status, docs, store, lastDoc, lastKey, faults, history>>

InsertCopy(p) ==
  /\ req[p].at = "copy"
  /\ CreateRow(req[p].key, FALSE) /\ Goto(p, Idle)
  /\ late' = IF IsStoredFileReferenced(req[p].key) THEN late ELSE late \cup {req[p].key}
  /\ UNCHANGED <<status, store, lastKey, faults, voided, stray>>

DeleteDocument(p, d) ==
  /\ req[p] = Idle /\ docs[d] # NoRow
  /\ Goto(p, [at |-> "delete", doc |-> d, key |-> docs[d].key])
  /\ UNCHANGED <<status, docs, store, lastDoc, lastKey, faults, history>>

\* The row goes, whatever file it has by now; what is looked after is the
\* file it had when it was read.
DeleteRow(p) ==
  LET w == req[p] IN
  /\ w.at = "delete"
  /\ IF docs[w.doc] = NoRow THEN Goto(p, Idle) /\ UNCHANGED <<docs, stray>>
     ELSE /\ docs' = [docs EXCEPT ![w.doc] = NoRow]
          /\ stray' = IF docs[w.doc].key = w.key THEN stray ELSE stray \cup {docs[w.doc].key}
          /\ Goto(p, [at |-> "old", key |-> w.key, todo |-> {}])
  /\ UNCHANGED <<status, store, lastDoc, lastKey, faults, voided, late>>

(***************************************************************************)
(* Requests die                                                            *)
(***************************************************************************)
\* The stored bytes a request is about to give a row, or to remove.
InHand(p) ==
  CASE req[p].at \in {"file", "swap", "drop"} -> {req[p].new}
    [] req[p].at \in {"old", "delete old"}    -> {req[p].key}
    [] OTHER                                  -> {}

\* The void that got through is still at work.
Voiding(p) ==
  \/ req[p].at \in {"count late", "list", "stamp", "swap"}
  \/ req[p].at \in {"old", "delete old", "drop"} /\ req[p].todo # {}

RequestDies(p) ==
  /\ req[p] # Idle /\ Fault
  /\ stray' = stray \cup InHand(p)
  /\ voided' = [voided EXCEPT !.died = @ \/ Voiding(p)]
  /\ Goto(p, Idle)
  /\ UNCHANGED <<status, docs, store, lastDoc, lastKey, late>>

Step(p) ==
  \/ SendInvoice(p) \/ RecordInvoicePayment(p) \/ ResendInvoiceEmail(p)
  \/ StoreFiled(p) \/ FileRow(p)
  \/ SetInvoiceStatus(p) \/ VoidInvoice(p) \/ CountFiled(p) \/ CheckVoid(p) \/ ClaimVoid(p) \/ CountLate(p)
  \/ ListFiled(p) \/ StampFiled(p) \/ SwapKey(p) \/ DropNew(p) \/ CheckOld(p) \/ DeleteOld(p)
  \/ \E d \in Doc : CopyDocumentToFolder(p, d) \/ DeleteDocument(p, d)
  \/ InsertCopy(p) \/ DeleteRow(p) \/ RequestDies(p)

Next == \E p \in Request : Step(p)

Spec == Init /\ [][Next]_vars

-----------------------------------------------------------------------------
(* Properties *)

\* Rows and bytes have their types; in particular no PDF is stamped twice
\* (lifecycle.ts: "a VOID can never be stamped over a VOID").
TypeOK ==
  /\ status \in {"approved", "sent", "paid", "void"}
  /\ docs \in [Doc -> [key : Key \cup {0}, filed : BOOLEAN]]
  /\ store \in [Key -> {"none", "plain", "stamped"}]
  /\ {lastDoc, lastKey, faults} \subseteq Nat
  /\ stray \cup late \subseteq Key

\* Rows and stored bytes, which no transaction ties together, agree: no row
\* loses its bytes to a deletion, a stamp or an undo of another request, except
\* a copy that was written when nothing pointed at them any more; and bytes
\* that no row points at are in some request's hands, unless a call failed, a
\* request died, or a row was deleted whose file was just swapped.
BytesOutliveRows ==
  \A d \in Doc : docs[d] # NoRow /\ store[docs[d].key] = "none" => docs[d].key \in late
NoStrayBytes ==
  \A k \in Key : store[k] # "none" /\ ~IsStoredFileReferenced(k) =>
    k \in stray \cup UNION {InHand(p) : p \in Request}
BytesAndRowsAgree == BytesOutliveRows /\ NoStrayBytes

\* A void that found filed copies leaves every copy filed before it stamped,
\* deleted or reported.
Stamped(d) == docs[d] # NoRow => store[docs[d].key] = "stamped"
VoidIsOver == status = "void" /\ ~voided.died /\ \A p \in Request : ~Voiding(p)
FiledCopiesAreStamped ==
  VoidIsOver /\ voided.found => \A d \in voided.rows : Stamped(d) \/ d \in voided.failed

\* What copyDocumentToFolder says: deleting one keeps the bytes while the
\* other still uses them.
RowsHaveBytes == \A d \in Doc : docs[d] # NoRow => store[docs[d].key] # "none"

\* What voidInvoice says: the filed PDFs are stamped, and a fresh copy is
\* filed when none exist.
VoidStampsFiledCopies ==
  VoidIsOver /\ voided.stamps => \A d \in voided.rows : Stamped(d) \/ d \in voided.failed
=============================================================================
