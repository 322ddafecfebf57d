---------------------------- MODULE ErpContract ----------------------------
(***************************************************************************)
(* The ERP as the workflows rely on it, one request a step: a document is  *)
(* booked under a reference nobody used and a number nobody had; cash is   *)
(* applied to what is open, and to no more of it; seeding the ERP anew     *)
(* forgets all of that.                                                    *)
(***************************************************************************)
EXTENDS Integers

CONSTANTS
  References, Items, Amounts,
  Original     \* what each receivable was issued over

VARIABLES
  documents,   \* pairs of a number and the reference it was booked under
  receivable   \* what is still open of each item

contractVars == <<documents, receivable>>

Init ==
  /\ documents = {}
  /\ receivable = Original

Book(reference) ==
  /\ \E d \in documents' :
       /\ d[2] = reference
       /\ \A e \in documents : e[1] # d[1] /\ e[2] # reference
       /\ documents' = documents \cup {d}
  /\ UNCHANGED receivable

Apply(item, amount) ==
  /\ receivable[item] > 0
  /\ receivable' = [receivable EXCEPT ![item] = IF amount < @ THEN @ - amount ELSE 0]
  /\ UNCHANGED documents

Reseed ==
  /\ documents' = {}
  /\ receivable' = Original

Next ==
  \/ \E reference \in References : Book(reference)
  \/ \E item \in Items, amount \in Amounts : Apply(item, amount)
  \/ Reseed
=============================================================================
