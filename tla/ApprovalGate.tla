---------------------------- MODULE ApprovalGate ----------------------------
(***************************************************************************)
(* What the platform promises about the human gate, and nothing of how:    *)
(* people decide, a decision is never changed or lost, and a consequence   *)
(* (closing a case, finalizing its report, alerting someone) only follows  *)
(* a decision that allows it.                                              *)
(***************************************************************************)
CONSTANTS Requests   \* the decisions that may be taken

VARIABLES
  decided,  \* what each request decided, "none" while it has not
  final,    \* is the report final?
  closed,   \* is the case closed?
  paged     \* the decisions under which an alert went out

vars == <<decided, final, closed, paged>>

Kinds == {"approve", "edit", "reject", "redirect"}

Init ==
  /\ decided = [r \in Requests |-> "none"]
  /\ final = FALSE
  /\ closed = FALSE
  /\ paged = {}

Decide(r, k) ==
  /\ decided[r] = "none"
  /\ decided' = [decided EXCEPT ![r] = k]
  /\ UNCHANGED <<final, closed, paged>>

\* The outcome of r's decision: the case may close, and on an approval its
\* report may become final.  Neither is ever undone.
Outcome(r) ==
  /\ decided[r] # "none"
  /\ closed' \in {closed, TRUE}
  /\ final' \in {final, decided[r] = "approve" \/ final}
  /\ UNCHANGED <<decided, paged>>

Page(r) ==
  /\ decided[r] = "approve"
  /\ paged' = paged \cup {r}
  /\ UNCHANGED <<decided, final, closed>>

Next ==
  \E r \in Requests :
    \/ \E k \in Kinds : Decide(r, k)
    \/ Outcome(r)
    \/ Page(r)

Spec == Init /\ [][Next]_vars
=============================================================================
