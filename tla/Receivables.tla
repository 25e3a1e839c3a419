----------------------------- MODULE Receivables -----------------------------
(* What billing promises the client, with no requests, locks or databases:  *)
(* an account per invoice and a trust balance per matter.  Each of the      *)
(* steps happens at once; trust money leaves a balance only by a withdrawal *)
(* or by paying, in the same step, that much of an invoice of the matter.   *)
(* Module Billing implements this.                                          *)
EXTENDS Integers

CONSTANTS Matter, Invoice, MaxMoney, None

VARIABLES
  trust,     \* per matter, the client's money held in trust
  account    \* per invoice, what the client was charged and paid

Amount    == 0 .. MaxMoney
NotIssued == [state |-> "not issued", matter |-> None, charged |-> 0,
              collected |-> 0, fromTrust |-> 0]
Cancelled == [NotIssued EXCEPT !.state = "cancelled"]
Issued    == [state : {"issued"}, matter : Matter, charged : Amount \ {0},
              collected : Amount, fromTrust : Amount]

Init == /\ trust = [m \in Matter |-> 0]
        /\ account = [i \in Invoice |-> NotIssued]

\* A deposit (amt > 0), or a disbursement or refund.
Transfer(m, amt) ==
  /\ trust[m] + amt \in Amount
  /\ trust' = [trust EXCEPT ![m] = @ + amt]
  /\ UNCHANGED account

\* The invoice is sent, with part of it paid from trust at once.
Issue(i, m, charged, applied) ==
  /\ account[i] = NotIssued
  /\ applied <= trust[m] /\ applied <= charged
  /\ trust' = [trust EXCEPT ![m] = @ - applied]
  /\ account' = [account EXCEPT ![i] =
       [state |-> "issued", matter |-> m, charged |-> charged,
        collected |-> applied, fromTrust |-> applied]]

Collect(i, amt, fromTrust) ==
  LET a == account[i] m == a.matter IN
  /\ a.state = "issued"
  /\ a.collected + amt <= a.charged /\ (fromTrust => amt <= trust[m])
  /\ trust' = IF fromTrust THEN [trust EXCEPT ![m] = @ - amt] ELSE trust
  /\ account' = [account EXCEPT ![i] =
       [a EXCEPT !.collected = @ + amt, !.fromTrust = IF fromTrust THEN @ + amt ELSE @]]

\* Only an invoice nothing was collected on can be voided.
Cancel(i) ==
  /\ \/ account[i] = NotIssued
     \/ account[i].state = "issued" /\ account[i].collected = 0
  /\ account' = [account EXCEPT ![i] = Cancelled]
  /\ UNCHANGED trust

Next ==
  \/ \E m \in Matter, amt \in -MaxMoney .. MaxMoney : Transfer(m, amt)
  \/ \E i \in Invoice, m \in Matter, charged \in Amount \ {0}, applied \in Amount :
       Issue(i, m, charged, applied)
  \/ \E i \in Invoice, amt \in Amount \ {0}, fromTrust \in BOOLEAN : Collect(i, amt, fromTrust)
  \/ \E i \in Invoice : Cancel(i)

Spec == Init /\ [][Next]_<<trust, account>>
=============================================================================
