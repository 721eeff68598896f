---------------------------- MODULE Investigation ----------------------------
(***************************************************************************)
(* One investigation of the SOC analyst platform: the LangGraph pipeline   *)
(* (graph/), the background worker that runs it up to the human gate and   *)
(* persists every stage (backend/workers/investigations.py), and the       *)
(* decision requests that resume it (backend/api/routes/investigations.py).*)
(*                                                                         *)
(* A RUNNER drives the graph: the worker once, from the start, and every   *)
(* decision request once, from the latest checkpoint.  A runner reads the  *)
(* checkpoint when it begins and works on its own copy; each node it       *)
(* finishes is first reported to its on_node callback and then saved as    *)
(* the latest checkpoint of the thread.  Runners overlap freely: the API   *)
(* takes no lock on an investigation.                                      *)
(***************************************************************************)
EXTENDS Integers, FiniteSets

CONSTANTS
  Requests,  \* calls of POST /investigations/{id}/decision, one decision each
  Worker,    \* the background task that executes run_investigation
  Faults,    \* the faults the environment may inject, a subset of FaultKinds
  Overlap,   \* may a request start while another runner is active?
  Durable    \* TRUE: the postgres checkpointer, FALSE: the in-memory one

FaultKinds == {"node",     \* a graph node, or the checkpointer, raises
               "persist",  \* the on_node callback's transaction fails
               "db",       \* a transaction of a handler or of the worker fails
               "crash"}    \* the process dies and is started again

ASSUME WorkerIsNoRequest == Worker \notin Requests
ASSUME FaultsKnown == Faults \subseteq FaultKinds
ASSUME SwitchesBoolean == Overlap \in BOOLEAN /\ Durable \in BOOLEAN

-----------------------------------------------------------------------------
(***************************************************************************)
(* The graph.                                                              *)
(***************************************************************************)
Decisions == {"approve", "edit", "reject", "redirect"}
Verdicts  == {"benign", "suspicious"}   \* "suspicious" stands for malicious too

\* The agent stages the case record shows, in pipeline order (STAGES).
Stages == {"log_analysis", "threat_detection", "cve_research", "report",
           "remediation"}

Nodes == Stages \cup {"ingest_seed", "triage", "human_gate", "notify", "close"}

Runners == Requests \cup {Worker}

(***************************************************************************)
(* What the properties tell apart in a checkpointed graph state: the node  *)
(* to run next, the assessment's verdict, the last human decision of the   *)
(* conversation (the only one route_after_gate reads), whether the gate's  *)
(* interrupt is pending on this checkpoint, and which runner wrote it.     *)
(***************************************************************************)
GraphState == [next    : Nodes \cup {"end", "none"},
               verdict : Verdicts \cup {"unset"},
               last    : Decisions \cup {"none"},
               paused  : BOOLEAN,
               by      : Runners]

NoThread == [next |-> "none", verdict |-> "unset", last |-> "none",
             paused |-> FALSE, by |-> Worker]

new_state == [NoThread EXCEPT !.next = "ingest_seed"]

\* Variant for the mutants: every verdict gets research.
route_always_research(v) == "cve_research"

route_after_threat(v) ==
  IF v = "benign" THEN "report" ELSE "cve_research"

\* Variant for the mutants: an approval alerts nobody.
route_never_notifies(decision) ==
  IF decision = "redirect" THEN "triage" ELSE "close"

route_after_gate(decision) ==
  CASE decision = "redirect" -> "triage"
    [] decision = "approve"  -> "notify"
    [] OTHER                 -> "close"

\* The edges of build_investigation_graph that no condition guards.
Edge == [ingest_seed  |-> "log_analysis",
         log_analysis |-> "threat_detection",
         cve_research |-> "report",
         report       |-> "remediation",
         remediation  |-> "triage",
         triage       |-> "human_gate",
         notify       |-> "close",
         close        |-> "end"]

(***************************************************************************)
(* The states a node other than the gate can leave behind: only the threat *)
(* detector's verdict is open.                                             *)
(***************************************************************************)
AfterNode(g) ==
  IF g.next = "threat_detection"
  THEN {[g EXCEPT !.verdict = v, !.next = route_after_threat(v)] : v \in Verdicts}
  ELSE {[g EXCEPT !.next = Edge[g.next]]}

\* human_gate, resumed with a decision: recorded in the conversation, routed on.
AfterGate(g, decision) ==
  [g EXCEPT !.last = decision, !.next = route_after_gate(decision)]

-----------------------------------------------------------------------------
VARIABLES
  \* the database
  status,    \* investigations.status
  pipeline,  \* investigations.pipeline: each stage's recorded outcome
  verdict,   \* the recorded threat assessment's verdict
  report,    \* the current report version's status
  decided,   \* human_decisions: the decision each request recorded
  \* the checkpointer
  ckpt,      \* the latest checkpoint of the investigation's thread
  \* the runners
  pc,        \* where each runner is
  local,     \* the graph state each runner works on
  ran,       \* the node the worker ran last and has yet to report
  kind,      \* the decision each request carries (body.decision)
  alerts,    \* the requests that collected an alert from notify
  rests,     \* the requests whose run came to rest awaiting a human
  \* the outside
  queue,     \* scheduled deliver_alert tasks, by approval id
  paged      \* the approvals under which an alert was dispatched

db    == <<status, pipeline, verdict, report, decided>>
procs == <<pc, local, ran, kind, alerts, rests>>
vars  == <<db, ckpt, procs, queue, paged>>

Statuses == {"none", "open", "in_progress", "awaiting_approval", "closed"}
Outcomes == {"none", "complete", "skipped", "failed"}
PCs == {"idle", "mark", "record", "resume", "resumed", "run", "report", "save",
        "result", "commit", "failed", "done"}

TypeOK ==
  /\ status \in Statuses
  /\ pipeline \in [Stages -> Outcomes]
  /\ verdict \in Verdicts \cup {"unset"}
  /\ report \in {"none", "draft", "final"}
  /\ decided \in [Requests -> Decisions \cup {"none"}]
  /\ ckpt \in GraphState
  /\ pc \in [Runners -> PCs]
  /\ local \in [Runners -> GraphState]
  /\ ran \in Nodes
  /\ kind \in [Requests -> Decisions \cup {"none"}]
  /\ alerts \subseteq Requests
  /\ rests \subseteq Requests
  /\ queue \subseteq Requests
  /\ paged \subseteq Requests

Init ==
  /\ status = "none"
  /\ pipeline = [s \in Stages |-> "none"]
  /\ verdict = "unset"
  /\ report = "none"
  /\ decided = [r \in Requests |-> "none"]
  /\ ckpt = NoThread
  /\ pc = [r \in Runners |-> "idle"]
  /\ local = [r \in Runners |-> NoThread]
  /\ ran = "ingest_seed"
  /\ kind = [r \in Requests |-> "none"]
  /\ alerts = {}
  /\ rests = {}
  /\ queue = {}
  /\ paged = {}

Active(r)    == pc[r] \notin {"idle", "done"}
Quiescent    == \A r \in Runners : ~Active(r)
Goto(r, l)   == pc' = [pc EXCEPT ![r] = l]

-----------------------------------------------------------------------------
(***************************************************************************)
(* The worker: create_investigation schedules it, run_investigation is it. *)
(***************************************************************************)

\* The case is committed as OPEN before the background task is scheduled.
create_investigation ==
  /\ status = "none"
  /\ status' = "open"
  /\ Goto(Worker, "mark")
  /\ UNCHANGED <<pipeline, verdict, report, decided, ckpt, local, ran, kind,
                 alerts, rests, queue, paged>>

\* IN_PROGRESS in its own transaction, then graph.start on a fresh state.
StartRun ==
  /\ pc[Worker] = "mark"
  /\ status' = "in_progress"
  /\ local' = [local EXCEPT ![Worker] = new_state]
  /\ ckpt' = new_state
  /\ Goto(Worker, "run")
  /\ UNCHANGED <<pipeline, verdict, report, decided, ran, kind, alerts, rests,
                 queue, paged>>

\* mark_status is outside the try: a failure ends the task with the case OPEN.
StartRunFails ==
  /\ "db" \in Faults
  /\ pc[Worker] = "mark"
  /\ Goto(Worker, "done")
  /\ UNCHANGED <<db, ckpt, local, ran, kind, alerts, rests, queue, paged>>

-----------------------------------------------------------------------------
(***************************************************************************)
(* Driving the graph: InvestigationGraphService._run, the same for all.    *)
(***************************************************************************)

\* Where a runner goes when its stream is exhausted: the worker is done, a
\* request goes on to read the result.
Exhausted(r) == IF r = Worker THEN "done" ELSE "result"

\* A node other than the gate, and what becomes of the update it reports: the
\* worker persists it in a transaction of its own, a request's collect keeps the
\* alert of notify.  A resume value still pending is lost with the first node.
RunNode(r) ==
  /\ pc[r] \in {"run", "resumed"}
  /\ local[r].next \in Nodes \ {"human_gate"}
  /\ \E g \in AfterNode(local[r]) : local' = [local EXCEPT ![r] = g]
  /\ IF r = Worker
     THEN ran' = local[r].next /\ alerts' = alerts /\ Goto(r, "report")
     ELSE /\ alerts' = IF local[r].next = "notify" THEN alerts \cup {r} ELSE alerts
          /\ ran' = ran
          /\ Goto(r, "save")
  /\ UNCHANGED <<db, ckpt, kind, rests, queue, paged>>

\* human_gate on a resumed run: interrupt() returns the decision.
PassGate(r) ==
  /\ pc[r] = "resumed"
  /\ local[r].next = "human_gate"
  /\ local' = [local EXCEPT ![r] = AfterGate(local[r], kind[r])]
  /\ Goto(r, "save")
  /\ UNCHANGED <<db, ckpt, ran, kind, alerts, rests, queue, paged>>

\* human_gate with nothing to return: interrupt() pauses the run.  The pending
\* interrupt belongs to the checkpoint this runner wrote, latest or not.
Interrupt(r) ==
  /\ pc[r] = "run"
  /\ local[r].next = "human_gate"
  /\ ckpt' = [ckpt EXCEPT !.paused = (ckpt.by = r) \/ ckpt.paused]
  /\ Goto(r, Exhausted(r))
  /\ UNCHANGED <<db, local, ran, kind, alerts, rests, queue, paged>>

\* The checkpoint after a node, which becomes the thread's latest.
SaveCheckpoint(r) ==
  /\ pc[r] = "save"
  /\ ckpt' = [local[r] EXCEPT !.paused = FALSE, !.by = r]
  /\ Goto(r, IF local[r].next = "end" THEN Exhausted(r) ELSE "run")
  /\ UNCHANGED <<db, local, ran, kind, alerts, rests, queue, paged>>

\* Variant for the mutants: a failing node is run again without a limit.
RetryForever(r) ==
  /\ "node" \in Faults
  /\ pc[r] \in {"run", "resumed", "save"}
  /\ Goto(r, "run")
  /\ UNCHANGED <<db, ckpt, local, ran, kind, alerts, rests, queue, paged>>

\* A node (after its retries) or the checkpointer raises out of the stream: the
\* worker goes on to record it, a request's response is an error.
RunFails(r) ==
  /\ "node" \in Faults
  /\ pc[r] \in {"run", "resumed", "save"}
  /\ Goto(r, IF r = Worker THEN "failed" ELSE "done")
  /\ UNCHANGED <<db, ckpt, local, ran, kind, alerts, rests, queue, paged>>

-----------------------------------------------------------------------------
(***************************************************************************)
(* The worker's on_node callback: one transaction per node.                *)
(***************************************************************************)

\* Variant for the mutants: triage does not surface the gate.
PersistNoGate(node, v) ==
  /\ status' = status
  /\ pipeline' = [s \in Stages |-> IF s = node THEN "complete" ELSE pipeline[s]]
  /\ verdict' = IF node = "threat_detection" THEN v ELSE verdict
  /\ report'  = IF node = "report" THEN "draft" ELSE report

_persist(node, v) ==
  /\ status' = CASE node = "triage" -> "awaiting_approval"
                 [] node = "close"  -> "closed"
                 [] OTHER           -> status
  /\ pipeline' = [s \in Stages |->
       IF s = node THEN "complete"
       ELSE IF s = "cve_research" /\ node = "threat_detection" /\ v = "benign"
            THEN "skipped" ELSE pipeline[s]]
  /\ verdict' = IF node = "threat_detection" THEN v ELSE verdict
  /\ report'  = IF node = "report" THEN "draft" ELSE report

ReportToWorker ==
  /\ pc[Worker] = "report"
  /\ _persist(ran, local[Worker].verdict)
  /\ Goto(Worker, "save")
  /\ UNCHANGED <<decided, ckpt, local, ran, kind, alerts, rests, queue, paged>>

\* _report_node: a raising callback is logged and the pipeline goes on.
ReportToWorkerFails ==
  /\ "persist" \in Faults
  /\ pc[Worker] = "report"
  /\ Goto(Worker, "save")
  /\ UNCHANGED <<db, ckpt, local, ran, kind, alerts, rests, queue, paged>>

\* _failed_stage: the first stage whose outcome is neither complete nor skipped.
StageOrder == <<"log_analysis", "threat_detection", "cve_research", "report",
                "remediation">>

\* Variant for the mutants: a skipped stage counts as one that has no outcome.
FailedStageIgnoresSkips ==
  LET open == {i \in 1..5 : pipeline[StageOrder[i]] # "complete"}
  IN  IF open = {} THEN "remediation"
      ELSE StageOrder[CHOOSE i \in open : \A j \in open : i <= j]

_failed_stage ==
  LET open == {i \in 1..5 : pipeline[StageOrder[i]] \notin {"complete", "skipped"}}
  IN  IF open = {} THEN "remediation"
      ELSE StageOrder[CHOOSE i \in open : \A j \in open : i <= j]

RecordFailure ==
  /\ pc[Worker] = "failed"
  /\ pipeline' = [pipeline EXCEPT ![_failed_stage] = "failed"]
  /\ Goto(Worker, "done")
  /\ UNCHANGED <<status, verdict, report, decided, ckpt, local, ran, kind,
                 alerts, rests, queue, paged>>

RecordFailureFails ==
  /\ "db" \in Faults
  /\ pc[Worker] = "failed"
  /\ Goto(Worker, "done")
  /\ UNCHANGED <<db, ckpt, local, ran, kind, alerts, rests, queue, paged>>

-----------------------------------------------------------------------------
(***************************************************************************)
(* The decision request: decide, step by step.                             *)
(***************************************************************************)

\* The status check, on a row that stays in the request's session.
DecideCheck(r) ==
  /\ pc[r] = "idle"
  /\ Overlap \/ Quiescent
  /\ status = "awaiting_approval"
  /\ \E d \in Decisions : kind' = [kind EXCEPT ![r] = d]
  /\ Goto(r, "record")
  /\ UNCHANGED <<db, ckpt, local, ran, alerts, rests, queue, paged>>

\* 404 before the case exists and 409 while it is not awaiting approval.
DecideRefused(r) ==
  /\ pc[r] = "idle"
  /\ status # "awaiting_approval"
  /\ Goto(r, "done")
  /\ UNCHANGED <<db, ckpt, local, ran, kind, alerts, rests, queue, paged>>

\* Variant for the mutants: the decision is left to the teardown's commit.
RecordUncommitted(r) ==
  /\ pc[r] = "record"
  /\ Goto(r, "resume")
  /\ UNCHANGED <<db, ckpt, local, ran, kind, alerts, rests, queue, paged>>

\* record_gate_decision and the audit entry, committed before the resume.
RecordDecision(r) ==
  /\ pc[r] = "record"
  /\ decided' = [decided EXCEPT ![r] = kind[r]]
  /\ Goto(r, "resume")
  /\ UNCHANGED <<status, pipeline, verdict, report, ckpt, local, ran, kind,
                 alerts, rests, queue, paged>>

RecordDecisionFails(r) ==
  /\ "db" \in Faults
  /\ pc[r] = "record"
  /\ Goto(r, "done")
  /\ UNCHANGED <<db, ckpt, local, ran, kind, alerts, rests, queue, paged>>

\* graph.resume: any pending node of the latest checkpoint will do.
Resume(r) ==
  /\ pc[r] = "resume"
  /\ ckpt.next \in Nodes
  /\ local' = [local EXCEPT ![r] = ckpt]
  /\ Goto(r, "resumed")
  /\ UNCHANGED <<db, ckpt, ran, kind, alerts, rests, queue, paged>>

\* InvalidResumeError: nothing is pending, the request ends in an error.
InvalidResume(r) ==
  /\ pc[r] = "resume"
  /\ ckpt.next \notin Nodes
  /\ Goto(r, "done")
  /\ UNCHANGED <<db, ckpt, local, ran, kind, alerts, rests, queue, paged>>

\* _result reads the latest checkpoint, whose pending interrupt is
\* awaiting_human; then the outcome is flushed and the alert scheduled.  The
\* teardown's commit and the background task follow in either order.
Result(r) ==
  /\ pc[r] = "result"
  /\ rests' = IF ckpt.paused THEN rests \cup {r} ELSE rests
  /\ queue' = IF r \in alerts THEN queue \cup {r} ELSE queue
  /\ Goto(r, "commit")
  /\ UNCHANGED <<db, ckpt, local, ran, kind, alerts, paged>>

\* Variants for the mutants: an edit finalizes too, only an approval closes, and
\* the row is read again so that AWAITING_APPROVAL is written.
OutcomeFinalizesEdit(r) ==
  /\ status' = IF r \in rests THEN status ELSE "closed"
  /\ report' = IF kind[r] \in {"approve", "edit"} /\ report # "none"
               THEN "final" ELSE report

OutcomeApprovalCloses(r) ==
  /\ status' = IF kind[r] = "approve" THEN "closed" ELSE status
  /\ report' = IF kind[r] = "approve" /\ report # "none" THEN "final" ELSE report

OutcomeRewritesStatus(r) ==
  /\ status' = IF r \in rests THEN "awaiting_approval" ELSE "closed"
  /\ report' = IF kind[r] = "approve" /\ report # "none" THEN "final" ELSE report

(***************************************************************************)
(* apply_gate_outcome.  The session still holds the row it loaded as       *)
(* AWAITING_APPROVAL (expire_on_commit=False), so setting that value again *)
(* is no change and emits no UPDATE: only CLOSED is ever written.          *)
(***************************************************************************)
apply_gate_outcome(r) ==
  /\ status' = IF r \in rests THEN status ELSE "closed"
  /\ report' = IF kind[r] = "approve" /\ report # "none" THEN "final" ELSE report

Commit(r) ==
  /\ pc[r] = "commit"
  /\ apply_gate_outcome(r)
  /\ Goto(r, "done")
  /\ UNCHANGED <<pipeline, verdict, decided, ckpt, local, ran, kind, alerts,
                 rests, queue, paged>>

\* A failing flush ends the handler before it schedules anything, a failing
\* commit after it: both roll the outcome back.
OutcomeFails(r) ==
  /\ "db" \in Faults
  /\ pc[r] \in {"result", "commit"}
  /\ Goto(r, "done")
  /\ UNCHANGED <<db, ckpt, local, ran, kind, alerts, rests, queue, paged>>

-----------------------------------------------------------------------------
(***************************************************************************)
(* deliver_alert, seen from the gate: an alert leaves only under a         *)
(* recorded approval.  Module Dispatch has the delivery itself.            *)
(***************************************************************************)
verify_approval(r) == decided[r] = "approve"

deliver_alert(r) ==
  /\ r \in queue
  /\ verify_approval(r)
  /\ paged' = paged \cup {r}
  /\ queue' = queue \ {r}
  /\ UNCHANGED <<db, ckpt, procs>>

\* UnapprovedDispatchError is logged and the task ends.
AlertRefused(r) ==
  /\ r \in queue
  /\ ~verify_approval(r)
  /\ queue' = queue \ {r}
  /\ UNCHANGED <<db, ckpt, procs, paged>>

\* A malformed payload or a failing transaction loses the alert.
AlertLost(r) ==
  /\ "db" \in Faults
  /\ r \in queue
  /\ queue' = queue \ {r}
  /\ UNCHANGED <<db, ckpt, procs, paged>>

-----------------------------------------------------------------------------
(***************************************************************************)
(* The process dies: every request, the worker and the scheduled tasks die *)
(* with it, and nothing restarts them.  Requests not yet made survive.     *)
(***************************************************************************)
Crash ==
  /\ "crash" \in Faults
  /\ pc' = [r \in Runners |-> IF pc[r] = "idle" THEN "idle" ELSE "done"]
  /\ queue' = {}
  /\ ckpt' = IF Durable THEN ckpt ELSE NoThread
  /\ UNCHANGED <<db, local, ran, kind, alerts, rests, paged>>

RunnerStep(r) ==
  RunNode(r) \/ Interrupt(r) \/ SaveCheckpoint(r) \/ RunFails(r)

WorkerStep ==
  \/ StartRun \/ StartRunFails
  \/ RunnerStep(Worker)
  \/ ReportToWorker \/ ReportToWorkerFails
  \/ RecordFailure \/ RecordFailureFails

RequestStep(r) ==
  \/ RecordDecision(r) \/ RecordDecisionFails(r)
  \/ Resume(r) \/ InvalidResume(r)
  \/ RunnerStep(r) \/ PassGate(r)
  \/ Result(r) \/ Commit(r) \/ OutcomeFails(r)

DeliveryStep(r) == deliver_alert(r) \/ AlertRefused(r) \/ AlertLost(r)

Next ==
  \/ create_investigation
  \/ WorkerStep
  \/ \E r \in Requests : DecideCheck(r) \/ DecideRefused(r)
  \/ \E r \in Requests : RequestStep(r)
  \/ \E r \in Requests : DeliveryStep(r)
  \/ Crash

Spec == Init /\ [][Next]_vars

(***************************************************************************)
(* Threads of a live process run on: the worker, an accepted request and a *)
(* scheduled task each take their next step.  Nothing makes an analyst     *)
(* send a request.                                                         *)
(***************************************************************************)
Fairness ==
  /\ WF_vars(WorkerStep)
  /\ \A r \in Requests : WF_vars(RequestStep(r)) /\ WF_vars(DeliveryStep(r))

FairSpec == Spec /\ Fairness
-----------------------------------------------------------------------------
(***************************************************************************)
(* The abstract gate this module implements.                               *)
(***************************************************************************)
Gate == INSTANCE ApprovalGate WITH
          final <- report = "final", closed <- status = "closed"

\* Every step of the worker, the requests and the delivery tasks, in whatever
\* order they come, is a step of the abstract gate or changes nothing it shows:
\* decisions, finalization, closing and paging of investigations.py.
GateRefinement == Gate!Spec

(***************************************************************************)
(* The inductive invariant behind the safety properties.                   *)
(***************************************************************************)
RequestPCs == PCs \ {"mark", "report", "failed"}
WorkerPCs  == {"idle", "mark", "run", "report", "save", "failed", "done"}

\* A request's decision is recorded once, as the request carries it, and before
\* anything the graph does for it.
DecisionsInOrder ==
  \A r \in Requests :
    /\ pc[r] \in RequestPCs
    /\ Active(r) => kind[r] # "none"
    /\ pc[r] \in {"idle", "record"} => decided[r] = "none"
    /\ Active(r) /\ pc[r] # "record" => decided[r] = kind[r]

\* The worker goes no further than the gate: it has nothing to close.
WorkerStopsAtGate ==
  /\ pc[Worker] \in WorkerPCs
  /\ local[Worker].next \notin {"notify", "close", "end"}
  /\ ran \notin {"notify", "close"}
  /\ pc[Worker] = "report" /\ ran = "triage" => local[Worker].next = "human_gate"

\* The gate is surfaced only after the worker's last write to the case, and only
\* then does any request get past the status check.
GateSurfacedLast ==
  /\ status \in {"awaiting_approval", "closed"} =>
       \/ pc[Worker] \in {"failed", "done"}
       \/ pc[Worker] \in {"run", "save"} /\ local[Worker].next = "human_gate"
  /\ report = "final" => status \in {"awaiting_approval", "closed"}
  /\ \A r \in Requests : Active(r) => status \in {"awaiting_approval", "closed"}

(***************************************************************************)
(* Safety, under every fault and every overlap.                            *)
(***************************************************************************)

\* A report is FINAL only if some request recorded an approval: finalize_report
\* promotes "only on a recorded human decision" (services/report.py).
FinalReportHasApproval ==
  report = "final" => \E r \in Requests : decided[r] = "approve"

\* An alert went out under decision r only if r is a recorded approval, although
\* a request can collect another one's alert by resuming the run at notify.
PageHasApproval == \A r \in paged : decided[r] = "approve"

\* The graph acts only on decisions that are already committed: the last
\* decision of the checkpoint and of every running copy is one some request
\* recorded (decide commits before graph.resume).
DecisionBeforeEffect ==
  \A g \in {ckpt} \cup {local[r] : r \in Runners} :
    g.last # "none" => \E r \in Requests : decided[r] = g.last

\* A case shown as CLOSED has a human decision behind it, even if the requests
\* that closed it overlapped or died half way.
ClosedByHuman ==
  status = "closed" => \E r \in Requests : decided[r] # "none"

\* No late write reopens a closed case: a request whose run came to rest at the
\* gate commits after another one's CLOSED without undoing it.
ClosedStaysClosed == [][status = "closed" => status' = "closed"]_vars

\* Once no runner is active, a case awaiting approval has its gate open in the
\* checkpoint, so that the next decision can be applied.
AwaitingMeansOpenGate ==
  (Quiescent /\ status = "awaiting_approval")
    => ckpt.next = "human_gate" /\ ckpt.paused

\* CVE research is shown as skipped exactly where the recorded verdict is benign:
\* a benign case never shows research as done, a flagged one never as skipped.
ResearchMatchesVerdict ==
  /\ pipeline["cve_research"] = "skipped" => verdict = "benign"
  /\ pipeline["cve_research"] = "complete" => verdict # "benign"

\* The stage shown as failed is the agent the run stopped at, whatever had been
\* skipped before it (_failed_stage).
FailedStageIsWhereRunStopped ==
  \A s \in Stages :
    (pipeline[s] = "failed" /\ local[Worker].next \in Stages)
      => s = local[Worker].next

\* What the gate promises at every moment: a final report, an alert, a closed case
\* and whatever the graph acts on have a committed human decision behind them.
\* With the types and the order of the worker's and the requests' steps it is
\* inductive: no step of the worker, a request, a delivery task or a crash leads
\* from a state that satisfies it to one that does not.
GateInv ==
  /\ TypeOK
  /\ DecisionsInOrder
  /\ WorkerStopsAtGate
  /\ GateSurfacedLast
  /\ FinalReportHasApproval
  /\ PageHasApproval
  /\ DecisionBeforeEffect
  /\ ClosedByHuman

(***************************************************************************)
(* One request at a time, no faults.                                       *)
(***************************************************************************)

\* The case record and the graph come to rest together: AWAITING_APPROVAL at the
\* open gate, CLOSED at the end, FINAL exactly if the closing decision approved.
RecordMatchesGraph ==
  (Quiescent /\ status \in {"awaiting_approval", "closed"}) =>
    /\ status = "closed" <=> ckpt.next = "end"
    /\ status = "awaiting_approval" <=> ckpt.paused
    /\ report = "final" <=> (status = "closed" /\ ckpt.last = "approve")

\* A gate is decided once: after a decision that disposes of the case every other
\* one is refused.
DecidedOnce ==
  Cardinality({r \in Requests : decided[r] \in {"approve", "edit", "reject"}}) <= 1

(***************************************************************************)
(* Liveness, under FairSpec.                                               *)
(***************************************************************************)

\* The worker always brings a created case to the gate.
ReachesGate == status = "open" ~> status = "awaiting_approval"

\* However runs fail, every accepted request is answered and the worker ends.
EveryRunnerEnds == \A r \in Runners : Active(r) ~> pc[r] = "done"
=============================================================================
