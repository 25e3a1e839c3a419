--------------------------- MODULE MCBillingDrift ---------------------------
(* Stored amounts against what they are computed from: one matter with a    *)
(* time entry and an expense, one invoice, and two requests at a time.      *)
EXTENDS Billing

CONSTANTS p1, p2, m1, i1, e1, x1

MCMatterOfEntry   == [e \in {e1} |-> m1]
MCMatterOfExpense == [x \in {x1} |-> m1]
MCLineOps == {"createTimeEntry", "updateTimeEntry", "generateInvoiceFromWip",
              "updateInvoiceLineItem", "deleteInvoice"}
MCMintOps == {"createExpense", "updateExpense", "generateInvoiceFromWip"}
=============================================================================
