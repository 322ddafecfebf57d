----------------------------- MODULE AuditTrail -----------------------------
(***************************************************************************)
(* The audit trail (WorkflowRepository.append_audit): the events of a run  *)
(* carry a sequence number, one above the highest number the appending     *)
(* transaction has seen.  The number is read in one statement and written  *)
(* in another, audit_events has an index but no unique constraint on       *)
(* (run_id, sequence), and nothing serialises two coroutines that append   *)
(* to one run.                                                             *)
(***************************************************************************)
EXTENDS Naturals, Sequences, FiniteSetsExt

CONSTANTS
  Runs,
  Writers,   \* coroutines: each awaits its append before it begins another
  NoAppend   \* no append is under way

Actions == {"email_received", "node", "human_decision"}

ASSUME NoAppendAssumption ==
  NoAppend \notin [run : Runs, sequence : Nat, action : Actions]

VARIABLES
  trail,     \* committed events of a run, in the order of their commits
  pending    \* the event a writer has numbered and not yet committed

auditVars == <<trail, pending>>

(* The numbers in use by a run; the next one, coalesce(max, 0) + 1.        *)
Numbers(r) == {trail[r][i].sequence : i \in DOMAIN trail[r]}

(* Mutants: the last number is given again; the query is not restricted to *)
(* the run.                                                                *)
NextSequenceRepeated(r) == Max(Numbers(r) \cup {0})
NextSequenceOfTable(r) == Max(UNION {Numbers(q) : q \in Runs} \cup {0}) + 1

NextSequence(r) == Max(Numbers(r) \cup {0}) + 1

AuditInit ==
  /\ trail = [r \in Runs |-> <<>>]
  /\ pending = [w \in Writers |-> NoAppend]

ReadSequence(w, r, action) ==
  /\ pending[w] = NoAppend
  /\ pending' = [pending EXCEPT ![w] =
       [run |-> r, sequence |-> NextSequence(r), action |-> action]]
  /\ UNCHANGED trail

CommitEvent(w) ==
  /\ pending[w] # NoAppend
  /\ trail' = [trail EXCEPT ![pending[w].run] =
       Append(@, [sequence |-> pending[w].sequence, action |-> pending[w].action,
                  writer |-> w])]
  /\ pending' = [pending EXCEPT ![w] = NoAppend]

(* The transaction fails, or its process dies.                             *)
LoseEvent(w) ==
  /\ pending' = [pending EXCEPT ![w] = NoAppend]
  /\ UNCHANGED trail

AuditNext ==
  \E w \in Writers :
    \/ \E r \in Runs, action \in Actions : ReadSequence(w, r, action)
    \/ CommitEvent(w)
    \/ LoseEvent(w)

AuditSpec == AuditInit /\ [][AuditNext]_auditVars
-----------------------------------------------------------------------------
(* The numbers of a run are 1..k without a gap, whatever appends overlap   *)
(* or fail: a missing number is never a hidden event.                      *)
SequencesDense ==
  \A r \in Runs : \E k \in 0 .. Len(trail[r]) : Numbers(r) = 1 .. k

(* What one coroutine does on a run is numbered in the order it was done.  *)
(* Two events share a number only if two coroutines drove the run at once, *)
(* so an auditor who sorts by sequence never sees a decision's steps, or a *)
(* driver's, out of their order.                                           *)
WriterOrdered ==
  \A r \in Runs : \A i, j \in DOMAIN trail[r] :
    i < j /\ trail[r][i].writer = trail[r][j].writer
      => trail[r][i].sequence < trail[r][j].sequence
=============================================================================
