--------------------------- MODULE PaymentLedger ---------------------------
(***************************************************************************)
(* What the accounts-payable workflow promises its controller, with no     *)
(* graph, checkpoint or status in sight: an invoice is registered before   *)
(* it is cleared; clearing it without a human requires that no other run   *)
(* over the same invoice was cleared that way; a human may release any     *)
(* registered invoice; only a cleared or released run is paid, and a       *)
(* reference is paid once and never reversed.                              *)
(***************************************************************************)
CONSTANTS Runs, Invoices, FingerprintOf, Documents, NoInvoice, Free, Manual

VARIABLES
  registered,   \* the invoice a run has registered
  cleared,      \* runs cleared for posting by the match
  released,     \* runs released by an approver
  ledger        \* who was paid under each reference

ledgerVars == <<registered, cleared, released, ledger>>

Init ==
  /\ registered = [r \in Runs |-> NoInvoice]
  /\ cleared = {}
  /\ released = {}
  /\ ledger = [doc \in Documents |-> Free]

Register(r, i) ==
  /\ registered[r] = NoInvoice
  /\ registered' = [registered EXCEPT ![r] = i]
  /\ UNCHANGED <<cleared, released, ledger>>

Clear(r) ==
  /\ registered[r] # NoInvoice
  /\ \A s \in cleared \ {r} :
       FingerprintOf[registered[s]] # FingerprintOf[registered[r]]
  /\ cleared' = cleared \cup {r}
  /\ UNCHANGED <<registered, released, ledger>>

Release(r) ==
  /\ registered[r] # NoInvoice
  /\ released' = released \cup {r}
  /\ UNCHANGED <<registered, cleared, ledger>>

Pay(r, doc) ==
  /\ r \in cleared \cup released
  /\ ledger[doc] = Free
  /\ ledger' = [ledger EXCEPT ![doc] = r]
  /\ UNCHANGED <<registered, cleared, released>>

BookByHand(doc) ==
  /\ ledger[doc] = Free
  /\ ledger' = [ledger EXCEPT ![doc] = Manual]
  /\ UNCHANGED <<registered, cleared, released>>

Next ==
  \/ \E r \in Runs, i \in Invoices : Register(r, i)
  \/ \E r \in Runs : Clear(r) \/ Release(r)
  \/ \E r \in Runs, doc \in Documents : Pay(r, doc)
  \/ \E doc \in Documents : BookByHand(doc)

Spec == Init /\ [][Next]_ledgerVars
=============================================================================
