--------------------------- MODULE MCInvestigation ---------------------------
(***************************************************************************)
(* Model-checking instance of Investigation for what holds without faults. *)
(* A history variable remembers whether requests and the worker ever       *)
(* overlapped, so that one run tells what needs one runner at a time from  *)
(* what does not.                                                          *)
(***************************************************************************)
EXTENDS Investigation

VARIABLE overlapped   \* did a request start while another runner was active?

\* A request passes the status check beside an active runner.
Overtakes ==
  /\ ~Quiescent
  /\ \E r \in Requests : pc[r] = "idle" /\ pc'[r] = "record"

MCInit == Init /\ overlapped = FALSE
MCNext == Next /\ overlapped' = (overlapped \/ Overtakes)
MCSpec == MCInit /\ [][MCNext]_<<vars, overlapped>> /\ Fairness

\* As long as one request at a time is decided, the case record and the graph come
\* to rest together: AWAITING_APPROVAL at the open gate, CLOSED at the end, FINAL
\* exactly if the closing decision approved (decide, resume, run_investigation).
SerialRecordMatchesGraph == overlapped \/ RecordMatchesGraph

\* A recorded approval closes the case and its alert goes out, unless another
\* request overlaps with it (decide, resume, notify, deliver_alert).
SerialApprovalTakesEffect ==
  \A r \in Requests :
    decided[r] = "approve" ~> (overlapped \/ (status = "closed" /\ r \in paged))
=============================================================================
