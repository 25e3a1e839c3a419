--------------------------- MODULE MCBillingMoney ---------------------------
(* Invoices and trust of one matter: two invoices competing for its trust   *)
(* balance, two requests at a time.  The lines are expenses.                *)
EXTENDS Billing, TLC

CONSTANTS p1, p2, m1, i1, i2, x1, x2

MCMatterOfEntry   == <<>>
MCMatterOfExpense == [x \in {x1, x2} |-> m1]
MCOps == {"createExpense", "generateInvoiceFromWip", "bundleAsInternalRecord",
          "approveInvoice", "sendInvoice", "recordInvoicePayment", "setInvoiceStatus",
          "deleteInvoice", "addTrustTransaction"}
MCSymmetry == Permutations({p1, p2}) \cup Permutations({i1, i2})
                \cup Permutations({x1, x2})
=============================================================================
