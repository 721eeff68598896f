------------------------- MODULE InvestigationProofs -------------------------
(***************************************************************************)
(* The gate's safety, for any number of decision requests and every choice *)
(* of faults, overlap and checkpointer.                                    *)
(***************************************************************************)
EXTENDS Investigation, FiniteSetTheorems, TLAPS

\* A node leaves a well-formed graph state behind.
LEMMA AfterNodeType ==
  ASSUME NEW g \in GraphState, g.next \in Nodes \ {"human_gate"},
         NEW h \in AfterNode(g)
  PROVE  h \in GraphState
<1>1. CASE g.next = "threat_detection"
  <2>1. PICK v \in Verdicts :
          h = [g EXCEPT !.verdict = v, !.next = route_after_threat(v)]
    BY <1>1 DEF AfterNode
  <2>2. route_after_threat(v) \in Nodes
    BY DEF route_after_threat, Nodes, Stages
  <2> QED  BY <2>1, <2>2 DEF GraphState
<1>2. CASE g.next # "threat_detection"
  <2>1. h = [g EXCEPT !.next = Edge[g.next]]
    BY <1>2 DEF AfterNode
  <2>2. Edge[g.next] \in Nodes \cup {"end"}
    BY <1>2 DEF Edge, Nodes, Stages
  <2> QED  BY <2>1, <2>2 DEF GraphState
<1> QED  BY <1>1, <1>2

\* So does the gate, whatever the decision.
LEMMA AfterGateType ==
  ASSUME NEW g \in GraphState, NEW d \in Decisions \cup {"none"}
  PROVE  AfterGate(g, d) \in GraphState
<1>1. route_after_gate(d) \in Nodes
  BY DEF route_after_gate, Nodes, Stages
<1> QED  BY <1>1 DEF AfterGate, GraphState

\* TypeOK is preserved by every step of the worker, of a request, of a delivery
\* task and by a crash.
LEMMA TypeStep ==
  ASSUME TypeOK, Next
  PROVE  TypeOK'
<1> USE DEF TypeOK, Runners, PCs, Statuses, Outcomes, Goto, db, procs, vars
<1>1. NoThread \in GraphState /\ new_state \in GraphState
  BY DEF NoThread, new_state, GraphState, Nodes
<1>2. CASE create_investigation
  BY <1>2 DEF create_investigation
<1>3. CASE StartRun
  BY <1>1, <1>3 DEF StartRun
<1>4. CASE StartRunFails
  BY <1>4 DEF StartRunFails
<1>5. ASSUME NEW r \in Runners, RunNode(r)
      PROVE  TypeOK'
  <2>1. PICK h \in AfterNode(local[r]) : local' = [local EXCEPT ![r] = h]
    BY <1>5 DEF RunNode
  <2>2. local[r] \in GraphState /\ local[r].next \in Nodes \ {"human_gate"}
    BY <1>5 DEF RunNode
  <2>3. local' \in [Runners -> GraphState]
    BY <2>1, <2>2, AfterNodeType
  <2>4. ran' \in Nodes /\ alerts' \subseteq Requests /\ pc' \in [Runners -> PCs]
    BY <1>5, <2>2 DEF RunNode
  <2> QED  BY <1>5, <2>3, <2>4 DEF RunNode
<1>6. ASSUME NEW r \in Runners, Interrupt(r)
      PROVE  TypeOK'
  <2>1. ckpt' \in GraphState
    BY <1>6 DEF Interrupt, GraphState
  <2> QED  BY <1>6, <2>1 DEF Interrupt, Exhausted
<1>7. ASSUME NEW r \in Runners, SaveCheckpoint(r)
      PROVE  TypeOK'
  <2>1. \A g \in GraphState : [g EXCEPT !.paused = FALSE, !.by = r] \in GraphState
    BY DEF GraphState
  <2>2. ckpt' \in GraphState
    BY <1>7, <2>1 DEF SaveCheckpoint
  <2> QED  BY <1>7, <2>2 DEF SaveCheckpoint, Exhausted
<1>8. ASSUME NEW r \in Runners, RunFails(r)
      PROVE  TypeOK'
  BY <1>8 DEF RunFails
<1>9. CASE ReportToWorker
  <2>1. local[Worker].verdict \in Verdicts \cup {"unset"}
    BY DEF GraphState
  <2>2. verdict' \in Verdicts \cup {"unset"}
    BY <1>9, <2>1 DEF ReportToWorker, _persist
  <2>3. pipeline' \in [Stages -> Outcomes]
    BY <1>9 DEF ReportToWorker, _persist
  <2> QED  BY <1>9, <2>2, <2>3 DEF ReportToWorker, _persist
<1>10. CASE ReportToWorkerFails
  BY <1>10 DEF ReportToWorkerFails
<1>11. CASE RecordFailure
  BY <1>11 DEF RecordFailure
<1>12. CASE RecordFailureFails
  BY <1>12 DEF RecordFailureFails
<1>13. ASSUME NEW r \in Requests, DecideCheck(r) \/ DecideRefused(r)
       PROVE  TypeOK'
  BY <1>13 DEF DecideCheck, DecideRefused
<1>14. ASSUME NEW r \in Requests, RecordDecision(r) \/ RecordDecisionFails(r)
       PROVE  TypeOK'
  BY <1>14 DEF RecordDecision, RecordDecisionFails
<1>15. ASSUME NEW r \in Requests, Resume(r) \/ InvalidResume(r)
       PROVE  TypeOK'
  BY <1>15 DEF Resume, InvalidResume
<1>16. ASSUME NEW r \in Requests, PassGate(r)
       PROVE  TypeOK'
  <2>1. AfterGate(local[r], kind[r]) \in GraphState
    BY AfterGateType
  <2> QED  BY <1>16, <2>1 DEF PassGate
<1>17. ASSUME NEW r \in Requests, Result(r) \/ OutcomeFails(r)
       PROVE  TypeOK'
  BY <1>17 DEF Result, OutcomeFails
<1>18. ASSUME NEW r \in Requests, Commit(r)
       PROVE  TypeOK'
  BY <1>18 DEF Commit, apply_gate_outcome
<1>19. ASSUME NEW r \in Requests, DeliveryStep(r)
       PROVE  TypeOK'
  BY <1>19 DEF DeliveryStep, deliver_alert, AlertRefused, AlertLost
<1>20. CASE Crash
  BY <1>1, <1>20 DEF Crash
<1> QED
  BY <1>2, <1>3, <1>4, <1>5, <1>6, <1>7, <1>8, <1>9, <1>10, <1>11, <1>12,
     <1>13, <1>14, <1>15, <1>16, <1>17, <1>18, <1>19, <1>20
     DEF Next, WorkerStep, RequestStep, RunnerStep

\* Type correctness of the worker, the requests and the database rows.
THEOREM TypeCorrect == Spec => []TypeOK
<1>1. Init => TypeOK
  BY DEF Init, TypeOK, NoThread, GraphState, Runners, Nodes, Stages, Outcomes,
         Statuses, PCs
<1>2. TypeOK /\ [Next]_vars => TypeOK'
  <2>1. TypeOK /\ UNCHANGED vars => TypeOK'
    BY DEF TypeOK, vars, db, procs
  <2> QED  BY <2>1, TypeStep
<1> QED  BY <1>1, <1>2, PTL DEF Spec

-----------------------------------------------------------------------------
(***************************************************************************)
(* GateInv, part by part.  Each lemma has one case per group of actions    *)
(* that move the same actor.                                               *)
(***************************************************************************)

\* The steps of the worker move the worker only.
LEMMA WorkerFrame ==
  ASSUME TypeOK, WorkerStep \/ create_investigation
  PROVE  /\ \A r \in Requests : pc'[r] = pc[r]
         /\ UNCHANGED <<decided, kind, paged>>
<1> USE WorkerIsNoRequest DEF TypeOK, Runners, Goto, db, procs
<1>1. CASE create_investigation
  BY <1>1 DEF create_investigation
<1>2. CASE StartRun \/ StartRunFails
  BY <1>2 DEF StartRun, StartRunFails
<1>3. CASE RunnerStep(Worker)
  BY <1>3 DEF RunnerStep, RunNode, Interrupt, SaveCheckpoint, RunFails
<1>4. CASE ReportToWorker \/ ReportToWorkerFails
  BY <1>4 DEF ReportToWorker, ReportToWorkerFails, _persist
<1>5. CASE RecordFailure \/ RecordFailureFails
  BY <1>5 DEF RecordFailure, RecordFailureFails
<1> QED  BY <1>1, <1>2, <1>3, <1>4, <1>5 DEF WorkerStep

\* The steps of a request move that request only.
LEMMA RequestFrame ==
  ASSUME TypeOK, NEW r \in Requests,
         DecideCheck(r) \/ DecideRefused(r) \/ RequestStep(r)
  PROVE  /\ \A q \in Runners \ {r} : pc'[q] = pc[q] /\ local'[q] = local[q]
         /\ \A q \in Requests \ {r} : decided'[q] = decided[q] /\ kind'[q] = kind[q]
         /\ UNCHANGED <<ran, paged, verdict, pipeline>>
<1> USE WorkerIsNoRequest DEF TypeOK, Runners, Goto, db, procs
<1>1. CASE DecideCheck(r) \/ DecideRefused(r)
  BY <1>1 DEF DecideCheck, DecideRefused
<1>2. CASE RecordDecision(r) \/ RecordDecisionFails(r)
  BY <1>2 DEF RecordDecision, RecordDecisionFails
<1>3. CASE Resume(r) \/ InvalidResume(r)
  BY <1>3 DEF Resume, InvalidResume
<1>4. CASE RunnerStep(r)
  BY <1>4 DEF RunnerStep, RunNode, Interrupt, SaveCheckpoint, RunFails
<1>5. CASE PassGate(r)
  BY <1>5 DEF PassGate
<1>6. CASE Result(r) \/ Commit(r) \/ OutcomeFails(r)
  BY <1>6 DEF Result, Commit, OutcomeFails, apply_gate_outcome
<1> QED  BY <1>1, <1>2, <1>3, <1>4, <1>5, <1>6 DEF RequestStep

\* Decisions are recorded once, in order and as the requests carry them.
LEMMA DecisionsStep ==
  ASSUME TypeOK, DecisionsInOrder, Next
  PROVE  DecisionsInOrder'
<1> USE WorkerIsNoRequest DEF DecisionsInOrder, Active, RequestPCs, PCs
<1>1. CASE create_investigation \/ WorkerStep
  BY <1>1, WorkerFrame
<1>2. ASSUME NEW r \in Requests,
             DecideCheck(r) \/ DecideRefused(r) \/ RequestStep(r)
      PROVE  DecisionsInOrder'
  <2> USE DEF TypeOK, Runners, Goto, db, procs
  <2>1. SUFFICES
          /\ pc'[r] \in RequestPCs
          /\ Active(r)' => kind'[r] # "none"
          /\ pc'[r] \in {"idle", "record"} => decided'[r] = "none"
          /\ Active(r)' /\ pc'[r] # "record" => decided'[r] = kind'[r]
    BY <1>2, RequestFrame
  <2>2. CASE DecideCheck(r) \/ DecideRefused(r)
    BY <2>2 DEF DecideCheck, DecideRefused, Decisions
  <2>3. CASE RecordDecision(r) \/ RecordDecisionFails(r)
    BY <2>3 DEF RecordDecision, RecordDecisionFails
  <2>4. CASE Resume(r) \/ InvalidResume(r)
    BY <2>4 DEF Resume, InvalidResume
  <2>5. CASE RunnerStep(r)
    BY <2>5 DEF RunnerStep, RunNode, Interrupt, SaveCheckpoint, RunFails, Exhausted
  <2>6. CASE PassGate(r)
    BY <2>6 DEF PassGate
  <2>7. CASE Result(r) \/ Commit(r) \/ OutcomeFails(r)
    BY <2>7 DEF Result, Commit, OutcomeFails, apply_gate_outcome
  <2> QED  BY <1>2, <2>2, <2>3, <2>4, <2>5, <2>6, <2>7 DEF RequestStep
<1>3. ASSUME NEW r \in Requests, DeliveryStep(r)
      PROVE  DecisionsInOrder'
  BY <1>3 DEF DeliveryStep, deliver_alert, AlertRefused, AlertLost, db, procs
<1>4. CASE Crash
  BY <1>4 DEF Crash, db, TypeOK, Runners
<1> QED  BY <1>1, <1>2, <1>3, <1>4 DEF Next

\* Before the gate a node leads to another node before the gate, or to it.
LEMMA BeforeGate ==
  ASSUME NEW g \in GraphState,
         g.next \in Nodes \ {"human_gate", "notify", "close"},
         NEW h \in AfterNode(g)
  PROVE  /\ h.next \notin {"notify", "close", "end"}
         /\ g.next = "triage" => h.next = "human_gate"
<1>1. CASE g.next = "threat_detection"
  <2>1. PICK v \in Verdicts :
          h = [g EXCEPT !.verdict = v, !.next = route_after_threat(v)]
    BY <1>1 DEF AfterNode
  <2>2. h.next = route_after_threat(v)
    BY <2>1 DEF GraphState
  <2> QED  BY <1>1, <2>2 DEF route_after_threat
<1>2. CASE g.next # "threat_detection"
  <2>1. h = [g EXCEPT !.next = Edge[g.next]]
    BY <1>2 DEF AfterNode
  <2>2. h.next = Edge[g.next]
    BY <2>1 DEF GraphState
  <2> QED  BY <1>2, <2>2 DEF Edge, Nodes, Stages
<1> QED  BY <1>1, <1>2

\* The worker goes no further than the gate.
LEMMA WorkerAtGateStep ==
  ASSUME TypeOK, WorkerStopsAtGate, Next
  PROVE  WorkerStopsAtGate'
<1> USE WorkerIsNoRequest DEF WorkerStopsAtGate, WorkerPCs
<1>1. CASE create_investigation \/ StartRun \/ StartRunFails
  BY <1>1 DEF create_investigation, StartRun, StartRunFails, new_state, NoThread,
              TypeOK, Runners, Goto, db
<1>2. CASE RunNode(Worker)
  <2> USE DEF TypeOK, Runners, Goto
  <2>1. PICK h \in AfterNode(local[Worker]) : local' = [local EXCEPT ![Worker] = h]
    BY <1>2 DEF RunNode
  <2>2. local[Worker] \in GraphState /\ local'[Worker] = h
    BY <2>1
  <2>3. local[Worker].next \in Nodes \ {"human_gate", "notify", "close"}
    BY <1>2 DEF RunNode
  <2>4. ran' = local[Worker].next /\ pc'[Worker] = "report"
    BY <1>2 DEF RunNode
  <2> QED  BY <2>2, <2>3, <2>4, BeforeGate
<1>3. CASE Interrupt(Worker) \/ SaveCheckpoint(Worker) \/ RunFails(Worker)
  BY <1>3 DEF Interrupt, SaveCheckpoint, RunFails, Exhausted, TypeOK, Runners, Goto, db
<1>4. CASE ReportToWorker \/ ReportToWorkerFails
  BY <1>4 DEF ReportToWorker, ReportToWorkerFails, TypeOK, Runners, Goto, db
<1>5. CASE RecordFailure \/ RecordFailureFails
  BY <1>5 DEF RecordFailure, RecordFailureFails, TypeOK, Runners, Goto, db
<1>6. ASSUME NEW r \in Requests,
             DecideCheck(r) \/ DecideRefused(r) \/ RequestStep(r)
      PROVE  WorkerStopsAtGate'
  BY <1>6, RequestFrame DEF Runners
<1>7. ASSUME NEW r \in Requests, DeliveryStep(r)
      PROVE  WorkerStopsAtGate'
  BY <1>7 DEF DeliveryStep, deliver_alert, AlertRefused, AlertLost, procs
<1>8. CASE Crash
  BY <1>8 DEF Crash, TypeOK, Runners
<1> QED
  BY <1>1, <1>2, <1>3, <1>4, <1>5, <1>6, <1>7, <1>8 DEF Next, WorkerStep, RunnerStep

\* The case reaches its requests only after the worker's last write to it.
LEMMA SurfacedStep ==
  ASSUME TypeOK, DecisionsInOrder, WorkerStopsAtGate, GateSurfacedLast, Next
  PROVE  GateSurfacedLast'
<1> USE WorkerIsNoRequest DEF GateSurfacedLast, Active
<1>1. CASE create_investigation \/ StartRun \/ StartRunFails
  <2>1. status \notin {"awaiting_approval", "closed"}
    BY <1>1 DEF create_investigation, StartRun, StartRunFails
  <2>2. status' \notin {"awaiting_approval", "closed"} /\ report' = report
    BY <1>1, <2>1 DEF create_investigation, StartRun, StartRunFails, db
  <2> QED  BY <1>1, <2>1, <2>2, WorkerFrame DEF WorkerStep
<1>2. CASE RunNode(Worker)
  <2>1. status \notin {"awaiting_approval", "closed"} /\ UNCHANGED <<status, report>>
    BY <1>2 DEF RunNode, WorkerStopsAtGate, WorkerPCs, db
  <2> QED  BY <1>2, <2>1, WorkerFrame DEF WorkerStep, RunnerStep
<1>3. CASE Interrupt(Worker) \/ SaveCheckpoint(Worker) \/ RunFails(Worker)
  <2>1. UNCHANGED <<status, report>>
    BY <1>3 DEF Interrupt, SaveCheckpoint, RunFails, db
  <2>2. \/ pc'[Worker] \in {"failed", "done"}
        \/ pc'[Worker] = "run" /\ local' = local /\ pc[Worker] = "save"
    BY <1>3 DEF Interrupt, SaveCheckpoint, RunFails, Exhausted, TypeOK, Runners, Goto, db
  <2> QED  BY <1>3, <2>1, <2>2, WorkerFrame DEF WorkerStep, RunnerStep
<1>4. CASE ReportToWorker \/ ReportToWorkerFails
  <2>1. status \notin {"awaiting_approval", "closed"} /\ report # "final"
    BY <1>4 DEF ReportToWorker, ReportToWorkerFails
  <2>2. /\ local' = local /\ pc'[Worker] = "save" /\ report' # "final"
        /\ status' \in {status, "awaiting_approval"}
        /\ status' = "awaiting_approval" => local[Worker].next = "human_gate"
    BY <1>4, <2>1 DEF ReportToWorker, ReportToWorkerFails, _persist,
                     WorkerStopsAtGate, TypeOK, Runners, Goto, db
  <2> QED  BY <1>4, <2>1, <2>2, WorkerFrame DEF WorkerStep
<1>5. CASE RecordFailure \/ RecordFailureFails
  <2>1. UNCHANGED <<status, report>> /\ pc'[Worker] = "done"
    BY <1>5 DEF RecordFailure, RecordFailureFails, TypeOK, Runners, Goto, db
  <2> QED  BY <1>5, <2>1, WorkerFrame DEF WorkerStep
<1>6. ASSUME NEW r \in Requests, DecideCheck(r) \/ DecideRefused(r)
      PROVE  GateSurfacedLast'
  BY <1>6 DEF DecideCheck, DecideRefused, TypeOK, Runners, Goto, db
<1>7. ASSUME NEW r \in Requests, RequestStep(r)
      PROVE  GateSurfacedLast'
  <2>1. Active(r)
    BY <1>7 DEF RequestStep, RecordDecision, RecordDecisionFails, Resume,
                InvalidResume, RunnerStep, RunNode, Interrupt, SaveCheckpoint,
                RunFails, PassGate, Result, Commit, OutcomeFails
  <2>2. status' \in {status, "closed"}
    BY <1>7 DEF RequestStep, RecordDecision, RecordDecisionFails, Resume,
                InvalidResume, RunnerStep, RunNode, Interrupt, SaveCheckpoint,
                RunFails, PassGate, Result, Commit, OutcomeFails,
                apply_gate_outcome, db
  <2>3. status \in {"awaiting_approval", "closed"}
    BY <2>1
  <2>4. pc'[Worker] = pc[Worker] /\ local'[Worker] = local[Worker]
    BY <1>7, RequestFrame DEF Runners
  <2> QED  BY <2>2, <2>3, <2>4
<1>8. ASSUME NEW r \in Requests, DeliveryStep(r)
      PROVE  GateSurfacedLast'
  BY <1>8 DEF DeliveryStep, deliver_alert, AlertRefused, AlertLost, db, procs
<1>9. CASE Crash
  BY <1>9 DEF Crash, db, TypeOK, Runners, WorkerStopsAtGate, WorkerPCs
<1> QED
  BY <1>1, <1>2, <1>3, <1>4, <1>5, <1>6, <1>7, <1>8, <1>9 DEF Next, WorkerStep, RunnerStep

\* A recorded decision stays as it is.
LEMMA DecidedStays ==
  ASSUME TypeOK, DecisionsInOrder, Next, NEW q \in Requests, decided[q] # "none"
  PROVE  decided'[q] = decided[q]
<1>1. CASE create_investigation \/ WorkerStep
  BY <1>1, WorkerFrame
<1>2. ASSUME NEW r \in Requests, DecideCheck(r) \/ DecideRefused(r) \/ RequestStep(r)
      PROVE  decided'[q] = decided[q]
  <2>1. CASE RecordDecision(r)
    <3>1. decided[r] = "none"
      BY <2>1 DEF RecordDecision, DecisionsInOrder
    <3> QED  BY <1>2, <3>1, RequestFrame
  <2>2. CASE ~RecordDecision(r)
    BY <1>2, <2>2 DEF DecideCheck, DecideRefused, RequestStep, RecordDecisionFails,
         Resume, InvalidResume, RunnerStep, RunNode, Interrupt, SaveCheckpoint,
         RunFails, PassGate, Result, Commit, OutcomeFails, apply_gate_outcome, db
  <2> QED  BY <2>1, <2>2
<1>3. ASSUME NEW r \in Requests, DeliveryStep(r)
      PROVE  decided'[q] = decided[q]
  BY <1>3 DEF DeliveryStep, deliver_alert, AlertRefused, AlertLost, db
<1>4. CASE Crash
  BY <1>4 DEF Crash, db
<1> QED  BY <1>1, <1>2, <1>3, <1>4 DEF Next

\* A report becomes final, and a case closes, only by a request that commits its
\* outcome; an alert leaves only by a delivery task under a recorded approval.
LEMMA Consequences ==
  ASSUME TypeOK, DecisionsInOrder, WorkerStopsAtGate, GateSurfacedLast, Next
  PROVE  /\ status' = "closed" /\ status # "closed"
              => \E r \in Requests : decided[r] # "none" /\ Commit(r)
         /\ report' = "final" /\ report # "final"
              => \E r \in Requests : decided[r] = "approve" /\ Commit(r)
         /\ \A q \in paged' : q \in paged \/ (q \in Requests /\ decided[q] = "approve")
<1>1. CASE create_investigation \/ WorkerStep
  <2>1. UNCHANGED paged
    BY <1>1, WorkerFrame
  <2>2. CASE ReportToWorker
    BY <2>1, <2>2 DEF ReportToWorker, _persist, WorkerStopsAtGate
  <2>3. CASE ~ReportToWorker
    BY <1>1, <2>1, <2>3 DEF create_investigation, WorkerStep, StartRun,
         StartRunFails, RunnerStep, RunNode, Interrupt, SaveCheckpoint, RunFails,
         ReportToWorkerFails, RecordFailure, RecordFailureFails, db
  <2> QED  BY <2>2, <2>3
<1>2. ASSUME NEW r \in Requests, Commit(r)
      PROVE  /\ decided[r] # "none" /\ UNCHANGED paged
             /\ report' = "final" /\ report # "final" => decided[r] = "approve"
  BY <1>2 DEF Commit, apply_gate_outcome, DecisionsInOrder, Active
<1>3. ASSUME NEW r \in Requests, ~Commit(r),
             DecideCheck(r) \/ DecideRefused(r) \/ RequestStep(r)
      PROVE  UNCHANGED <<status, report, paged>>
  BY <1>3 DEF DecideCheck, DecideRefused, RequestStep, RecordDecision,
       RecordDecisionFails, Resume, InvalidResume, RunnerStep, RunNode, Interrupt,
       SaveCheckpoint, RunFails, PassGate, Result, OutcomeFails, db
<1>4. ASSUME NEW r \in Requests, DeliveryStep(r)
      PROVE  /\ UNCHANGED <<status, report>>
             /\ paged' = paged \/ (paged' = paged \cup {r} /\ decided[r] = "approve")
  BY <1>4 DEF DeliveryStep, deliver_alert, AlertRefused, AlertLost, verify_approval, db
<1>5. CASE Crash
  BY <1>5 DEF Crash, db
<1> QED  BY <1>1, <1>2, <1>3, <1>4, <1>5 DEF Next

\* A graph state that appears in a step carries a decision already carried, or the
\* recorded decision of the request that passed the gate.
LEMMA GraphStep ==
  ASSUME TypeOK, DecisionsInOrder, DecisionBeforeEffect, Next
  PROVE  DecisionBeforeEffect'
<1> DEFINE Backed(g) == g.last # "none" => \E q \in Requests : decided[q] = g.last
           Backed2(g) == g.last # "none" => \E q \in Requests : decided'[q] = g.last
<1>1. Backed(ckpt) /\ \A r \in Runners : Backed(local[r])
  BY DEF DecisionBeforeEffect
<1>2. \A g : Backed(g) => Backed2(g)
  BY DecidedStays
<1>3. SUFFICES Backed(ckpt') /\ \A r \in Runners : Backed(local'[r])
  BY <1>2 DEF DecisionBeforeEffect
<1>4. Backed(NoThread) /\ Backed(new_state)
  BY DEF NoThread, new_state
<1>5. ASSUME NEW r \in Runners, RunNode(r)
      PROVE  Backed(ckpt') /\ \A q \in Runners : Backed(local'[q])
  <2>1. PICK h \in AfterNode(local[r]) : local' = [local EXCEPT ![r] = h]
    BY <1>5 DEF RunNode
  <2>2. local[r] \in GraphState
    BY DEF TypeOK
  <2>3. h.last = local[r].last
    BY <2>2 DEF AfterNode, GraphState
  <2> QED  BY <1>1, <1>5, <2>1, <2>3 DEF RunNode, TypeOK
<1>6. ASSUME NEW r \in Runners, Interrupt(r) \/ SaveCheckpoint(r) \/ RunFails(r)
      PROVE  Backed(ckpt') /\ \A q \in Runners : Backed(local'[q])
  <2>1. local' = local
    BY <1>6 DEF Interrupt, SaveCheckpoint, RunFails
  <2>2. ckpt'.last = ckpt.last \/ ckpt'.last = local[r].last
    <3>1. \A g \in GraphState, b \in BOOLEAN :
            /\ [g EXCEPT !.paused = b].last = g.last
            /\ [g EXCEPT !.paused = b, !.by = r].last = g.last
      BY DEF GraphState
    <3>2. local[r] \in GraphState /\ ckpt \in GraphState
      BY DEF TypeOK
    <3> QED  BY <1>6, <3>1, <3>2 DEF Interrupt, SaveCheckpoint, RunFails, GraphState
  <2> QED  BY <1>1, <2>1, <2>2
<1>7. ASSUME NEW r \in Requests, PassGate(r)
      PROVE  Backed(ckpt') /\ \A q \in Runners : Backed(local'[q])
  <2>1. decided[r] = kind[r]
    BY <1>7 DEF PassGate, DecisionsInOrder, Active
  <2>2. local[r] \in GraphState
    BY DEF TypeOK, Runners
  <2>3. AfterGate(local[r], kind[r]).last = kind[r]
    BY <2>2 DEF AfterGate, GraphState
  <2> QED  BY <1>1, <1>7, <2>1, <2>3 DEF PassGate, TypeOK, Runners
<1>8. ASSUME NEW r \in Requests, Resume(r)
      PROVE  Backed(ckpt') /\ \A q \in Runners : Backed(local'[q])
  BY <1>1, <1>8 DEF Resume, TypeOK, Runners
<1>9. CASE StartRun \/ Crash
  BY <1>1, <1>4, <1>9 DEF StartRun, Crash, TypeOK, Runners
<1>10. CASE UNCHANGED <<ckpt, local>>
  BY <1>1, <1>10
<1>11. create_investigation \/ StartRunFails \/ ReportToWorker
         \/ ReportToWorkerFails \/ RecordFailure \/ RecordFailureFails
         => UNCHANGED <<ckpt, local>>
  BY DEF create_investigation, StartRunFails, ReportToWorker, ReportToWorkerFails,
         RecordFailure, RecordFailureFails
<1>12. \A r \in Requests :
         DecideCheck(r) \/ DecideRefused(r) \/ RecordDecision(r)
           \/ RecordDecisionFails(r) \/ InvalidResume(r) \/ Result(r) \/ Commit(r)
           \/ OutcomeFails(r) \/ DeliveryStep(r)
         => UNCHANGED <<ckpt, local>>
  BY DEF DecideCheck, DecideRefused, RecordDecision, RecordDecisionFails,
         InvalidResume, Result, Commit, OutcomeFails, DeliveryStep, deliver_alert,
         AlertRefused, AlertLost, procs
<1> QED
  BY <1>5, <1>6, <1>7, <1>8, <1>9, <1>10, <1>11, <1>12
     DEF Next, WorkerStep, RequestStep, RunnerStep, Runners

-----------------------------------------------------------------------------
\* Every state any number of requests, the worker, the delivery tasks and crashes
\* can lead to satisfies the inductive invariant.
THEOREM GateInvariant == Spec => []GateInv
<1>1. Init => GateInv
  <2> SUFFICES ASSUME Init PROVE GateInv
    OBVIOUS
  <2>1. TypeOK
    BY DEF Init, TypeOK, NoThread, GraphState, Runners, Nodes, Stages, Outcomes,
           Statuses, PCs
  <2>2. DecisionsInOrder /\ WorkerStopsAtGate /\ GateSurfacedLast
    BY DEF Init, DecisionsInOrder, WorkerStopsAtGate, GateSurfacedLast, Active,
           Runners, RequestPCs, PCs, WorkerPCs, NoThread
  <2>3. FinalReportHasApproval /\ PageHasApproval /\ ClosedByHuman
    BY DEF Init, FinalReportHasApproval, PageHasApproval, ClosedByHuman
  <2>4. DecisionBeforeEffect
    BY DEF Init, DecisionBeforeEffect, NoThread
  <2> QED  BY <2>1, <2>2, <2>3, <2>4 DEF GateInv
<1>2. GateInv /\ [Next]_vars => GateInv'
  <2>1. ASSUME GateInv, Next
        PROVE  GateInv'
    <3>1. TypeOK' /\ DecisionsInOrder' /\ WorkerStopsAtGate' /\ GateSurfacedLast'
      BY <2>1, TypeStep, DecisionsStep, WorkerAtGateStep, SurfacedStep DEF GateInv
    <3>2. \A q \in Requests : decided[q] # "none" => decided'[q] = decided[q]
      BY <2>1, DecidedStays DEF GateInv
    <3>3. FinalReportHasApproval'
      BY <2>1, <3>2, Consequences DEF GateInv, FinalReportHasApproval
    <3>4. PageHasApproval'
      BY <2>1, <3>2, Consequences DEF GateInv, PageHasApproval, TypeOK
    <3>5. ClosedByHuman'
      BY <2>1, <3>2, Consequences DEF GateInv, ClosedByHuman
    <3>6. DecisionBeforeEffect'
      BY <2>1, GraphStep DEF GateInv
    <3> QED  BY <3>1, <3>3, <3>4, <3>5, <3>6 DEF GateInv
  <2>2. GateInv /\ UNCHANGED vars => GateInv'
    BY DEF GateInv, TypeOK, DecisionsInOrder, WorkerStopsAtGate, GateSurfacedLast,
           FinalReportHasApproval, PageHasApproval, ClosedByHuman,
           DecisionBeforeEffect, Active, vars, db, procs
  <2> QED  BY <2>1, <2>2
<1> QED  BY <1>1, <1>2, PTL DEF Spec

\* No report is FINAL without a recorded approval.
THEOREM FinalSafety == Spec => []FinalReportHasApproval
<1>1. GateInv => FinalReportHasApproval
  BY DEF GateInv
<1> QED  BY <1>1, GateInvariant, PTL

\* No alert goes out but under a recorded approval.
THEOREM PageSafety == Spec => []PageHasApproval
<1>1. GateInv => PageHasApproval
  BY DEF GateInv
<1> QED  BY <1>1, GateInvariant, PTL

\* The graph never acts on a decision before it is committed.
THEOREM DecisionSafety == Spec => []DecisionBeforeEffect
<1>1. GateInv => DecisionBeforeEffect
  BY DEF GateInv
<1> QED  BY <1>1, GateInvariant, PTL

\* No case is CLOSED without a recorded human decision.
THEOREM ClosedSafety == Spec => []ClosedByHuman
<1>1. GateInv => ClosedByHuman
  BY DEF GateInv
<1> QED  BY <1>1, GateInvariant, PTL

\* Under the inductive invariant a step neither reopens a closed case nor takes
\* back a final report.
LEMMA NothingUndone ==
  ASSUME GateInv, Next
  PROVE  /\ status = "closed" => status' = "closed"
         /\ report = "final" => report' = "final"
<1> USE DEF GateInv
<1>1. CASE create_investigation \/ WorkerStep
  <2>1. CASE ReportToWorker \/ StartRun \/ create_investigation
    BY <2>1 DEF ReportToWorker, StartRun, create_investigation, GateSurfacedLast
  <2>2. CASE ~(ReportToWorker \/ StartRun \/ create_investigation)
    BY <1>1, <2>2 DEF WorkerStep, StartRunFails, RunnerStep, RunNode, Interrupt,
         SaveCheckpoint, RunFails, ReportToWorkerFails, RecordFailure,
         RecordFailureFails, db
  <2> QED  BY <2>1, <2>2
<1>2. ASSUME NEW r \in Requests, DecideCheck(r) \/ DecideRefused(r) \/ RequestStep(r)
      PROVE  /\ status = "closed" => status' = "closed"
             /\ report = "final" => report' = "final"
  BY <1>2 DEF DecideCheck, DecideRefused, RequestStep, RecordDecision,
       RecordDecisionFails, Resume, InvalidResume, RunnerStep, RunNode, Interrupt,
       SaveCheckpoint, RunFails, PassGate, Result, Commit, OutcomeFails,
       apply_gate_outcome, db
<1>3. ASSUME NEW r \in Requests, DeliveryStep(r)
      PROVE  UNCHANGED <<status, report>>
  BY <1>3 DEF DeliveryStep, deliver_alert, AlertRefused, AlertLost, db
<1>4. CASE Crash
  BY <1>4 DEF Crash, db
<1> QED  BY <1>1, <1>2, <1>3, <1>4 DEF Next

\* No late write reopens a closed case.
THEOREM ClosedIsFinal == Spec => ClosedStaysClosed
<1>1. GateInv /\ [Next]_vars => [status = "closed" => status' = "closed"]_vars
  BY NothingUndone
<1> QED  BY <1>1, GateInvariant, PTL DEF Spec, ClosedStaysClosed

\* The worker, the requests, the delivery tasks and crashes together implement the
\* abstract gate.
THEOREM Refinement == Spec => GateRefinement
<1>1. Init => Gate!Init
  BY DEF Init, Gate!Init
<1>2. GateInv /\ [Next]_vars => [Gate!Next]_Gate!vars
  <2>1. ASSUME GateInv, Next
        PROVE  Gate!Next \/ UNCHANGED Gate!vars
    <3> DEFINE fin == report = "final"
               clo == status = "closed"
    <3>1. CASE create_investigation \/ WorkerStep
      <4>1. UNCHANGED <<decided, paged>>
        BY <2>1, <3>1, WorkerFrame DEF GateInv
      <4>2. fin' = fin /\ clo' = clo
        <5>1. \A r \in Requests : ~Commit(r)
          BY <2>1, <3>1, WorkerFrame DEF GateInv, Commit, Goto, TypeOK, Runners
        <5> QED  BY <2>1, <5>1, NothingUndone, Consequences DEF GateInv
      <4> QED  BY <4>1, <4>2 DEF Gate!vars
    <3>2. ASSUME NEW r \in Requests, RecordDecision(r)
          PROVE  Gate!Next
      <4>1. decided[r] = "none" /\ kind[r] \in Gate!Kinds
        BY <2>1, <3>2 DEF RecordDecision, GateInv, DecisionsInOrder, Active, TypeOK,
                          Decisions, Gate!Kinds
      <4>2. Gate!Decide(r, kind[r])
        BY <3>2, <4>1 DEF RecordDecision, Gate!Decide
      <4> QED  BY <4>1, <4>2 DEF Gate!Next
    <3>3. ASSUME NEW r \in Requests, Commit(r)
          PROVE  Gate!Next
      <4>1. decided[r] # "none" /\ decided[r] = kind[r]
        BY <2>1, <3>3 DEF Commit, GateInv, DecisionsInOrder, Active
      <4>2. clo' \in {clo, TRUE} /\ fin' \in {fin, decided[r] = "approve" \/ fin}
        BY <3>3, <4>1 DEF Commit, apply_gate_outcome
      <4>3. Gate!Outcome(r)
        BY <3>3, <4>1, <4>2 DEF Commit, Gate!Outcome
      <4> QED  BY <4>3 DEF Gate!Next
    <3>4. ASSUME NEW r \in Requests, ~RecordDecision(r), ~Commit(r),
                 DecideCheck(r) \/ DecideRefused(r) \/ RequestStep(r)
          PROVE  UNCHANGED Gate!vars
      BY <3>4 DEF DecideCheck, DecideRefused, RequestStep, RecordDecisionFails, Resume,
           InvalidResume, RunnerStep, RunNode, Interrupt, SaveCheckpoint, RunFails,
           PassGate, Result, OutcomeFails, db, Gate!vars
    <3>5. ASSUME NEW r \in Requests, DeliveryStep(r)
          PROVE  Gate!Next \/ UNCHANGED Gate!vars
      <4>1. CASE deliver_alert(r)
        <5>1. Gate!Page(r)
          BY <4>1 DEF deliver_alert, verify_approval, db, Gate!Page
        <5> QED  BY <5>1 DEF Gate!Next
      <4>2. CASE AlertRefused(r) \/ AlertLost(r)
        BY <4>2 DEF AlertRefused, AlertLost, db, Gate!vars
      <4> QED  BY <3>5, <4>1, <4>2 DEF DeliveryStep
    <3>6. CASE Crash
      BY <3>6 DEF Crash, db, Gate!vars
    <3> QED  BY <2>1, <3>1, <3>2, <3>3, <3>4, <3>5, <3>6 DEF Next
  <2>2. UNCHANGED vars => UNCHANGED Gate!vars
    BY DEF vars, db, procs, Gate!vars
  <2> QED  BY <2>1, <2>2
<1> QED  BY <1>1, <1>2, GateInvariant, PTL DEF Spec, GateRefinement, Gate!Spec


-----------------------------------------------------------------------------
(***************************************************************************)
(* What the case record says about the worker's run.                       *)
(***************************************************************************)

\* Where the worker is: nothing has run before graph.start, and an update that is
\* yet to be reported is the one of the node before the next.
WorkerInStep ==
  /\ status = "none" => pc[Worker] = "idle"
  /\ pc[Worker] \in {"idle", "mark"} => local[Worker].next = "none"
  /\ pc[Worker] = "report" =>
       /\ ran \in Stages \cup {"ingest_seed", "triage"}
       /\ local[Worker].next = IF ran = "threat_detection"
                               THEN route_after_threat(local[Worker].verdict)
                               ELSE Edge[ran]

\* A node of the worker's run: what it leaves to report.
LEMMA WorkerRuns ==
  ASSUME TypeOK, WorkerStopsAtGate, RunNode(Worker)
  PROVE  /\ pc[Worker] = "run" /\ pc'[Worker] = "report"
         /\ ran' = local[Worker].next
         /\ ran' \in Stages \cup {"ingest_seed", "triage"}
         /\ local'[Worker].next = IF ran' = "threat_detection"
                                  THEN route_after_threat(local'[Worker].verdict)
                                  ELSE Edge[ran']
         /\ ran' # "threat_detection" => local'[Worker].verdict = local[Worker].verdict
         /\ UNCHANGED <<status, pipeline, verdict, report, ckpt, rests>>
<1> USE DEF TypeOK, Runners, Goto
<1>1. PICK h \in AfterNode(local[Worker]) : local' = [local EXCEPT ![Worker] = h]
  BY DEF RunNode
<1>2. local[Worker] \in GraphState /\ local'[Worker] = h
  BY <1>1
<1>3. ran' = local[Worker].next /\ pc'[Worker] = "report" /\ pc[Worker] = "run"
  BY DEF RunNode, WorkerStopsAtGate, WorkerPCs
<1>4. ran' \in Stages \cup {"ingest_seed", "triage"}
  BY <1>3 DEF RunNode, WorkerStopsAtGate, Nodes
<1>5. UNCHANGED <<status, pipeline, verdict, report, ckpt, rests>>
  BY DEF RunNode, db
<1>6. CASE ran' = "threat_detection"
  <2>1. PICK v \in Verdicts :
          h = [local[Worker] EXCEPT !.verdict = v, !.next = route_after_threat(v)]
    BY <1>1, <1>3, <1>6 DEF AfterNode
  <2>2. h.next = route_after_threat(v) /\ h.verdict = v
    BY <1>2, <2>1 DEF GraphState
  <2> QED  BY <1>2, <1>3, <1>4, <1>5, <1>6, <2>2
<1>7. CASE ran' # "threat_detection"
  <2>1. h = [local[Worker] EXCEPT !.next = Edge[ran']]
    BY <1>1, <1>3, <1>7 DEF AfterNode
  <2>2. h.next = Edge[ran'] /\ h.verdict = local[Worker].verdict
    BY <1>2, <2>1 DEF GraphState
  <2> QED  BY <1>2, <1>3, <1>4, <1>5, <1>7, <2>2
<1> QED  BY <1>6, <1>7

\* Nobody but the worker touches the worker's run or what it records of it; a crash
\* ends it.
LEMMA WorkerUntouched ==
  ASSUME TypeOK, Next, ~create_investigation, ~WorkerStep
  PROVE  /\ UNCHANGED <<pipeline, verdict, ran>>
         /\ local'[Worker] = local[Worker]
         /\ pc'[Worker] = pc[Worker] \/ (pc[Worker] # "idle" /\ pc'[Worker] = "done")
         /\ status' = status \/ status' = "closed"
<1> USE WorkerIsNoRequest DEF Runners
<1>1. ASSUME NEW r \in Requests, DecideCheck(r) \/ DecideRefused(r) \/ RequestStep(r)
      PROVE  status' = status \/ status' = "closed"
  BY <1>1 DEF DecideCheck, DecideRefused, RequestStep, RecordDecision,
       RecordDecisionFails, Resume, InvalidResume, RunnerStep, RunNode, Interrupt,
       SaveCheckpoint, RunFails, PassGate, Result, Commit, OutcomeFails,
       apply_gate_outcome, db
<1>2. ASSUME NEW r \in Requests, DecideCheck(r) \/ DecideRefused(r) \/ RequestStep(r)
      PROVE  /\ UNCHANGED <<pipeline, verdict, ran>>
             /\ local'[Worker] = local[Worker] /\ pc'[Worker] = pc[Worker]
  BY <1>2, RequestFrame
<1>3. ASSUME NEW r \in Requests, DeliveryStep(r)
      PROVE  UNCHANGED <<status, pipeline, verdict, ran, local, pc>>
  BY <1>3 DEF DeliveryStep, deliver_alert, AlertRefused, AlertLost, db, procs
<1>4. CASE Crash
  BY <1>4 DEF Crash, db, TypeOK
<1> QED  BY <1>1, <1>2, <1>3, <1>4 DEF Next

\* The worker's steps other than its nodes and its reports.
LEMMA WorkerMoves ==
  ASSUME TypeOK, WorkerStopsAtGate,
         \/ StartRunFails \/ Interrupt(Worker) \/ SaveCheckpoint(Worker)
         \/ RunFails(Worker) \/ RecordFailureFails
  PROVE  /\ UNCHANGED <<db, local, ran, rests>>
         /\ \/ pc[Worker] = "save" /\ pc'[Worker] = "run"
            \/ pc[Worker] \notin {"idle", "report", "done"} /\ pc'[Worker] = "done"
            \/ pc[Worker] \in {"run", "save"} /\ pc'[Worker] = "failed"
<1> USE DEF TypeOK, Runners, Goto, WorkerStopsAtGate, WorkerPCs
<1>1. CASE StartRunFails \/ RecordFailureFails
  BY <1>1 DEF StartRunFails, RecordFailureFails
<1>2. CASE Interrupt(Worker)
  BY <1>2 DEF Interrupt, Exhausted
<1>3. CASE SaveCheckpoint(Worker)
  BY <1>3 DEF SaveCheckpoint, Exhausted
<1>4. CASE RunFails(Worker)
  BY <1>4 DEF RunFails
<1> QED  BY <1>1, <1>2, <1>3, <1>4

\* WorkerInStep is preserved by every step.
LEMMA WorkerInStepStep ==
  ASSUME TypeOK, WorkerStopsAtGate, WorkerInStep, Next
  PROVE  WorkerInStep'
<1> USE DEF WorkerInStep
<1>1. CASE create_investigation
  BY <1>1 DEF create_investigation, TypeOK, Runners, Goto
<1>2. CASE StartRun
  BY <1>2 DEF StartRun, TypeOK, Runners, Goto
<1>3. CASE RunNode(Worker)
  BY <1>3, WorkerRuns
<1>4. CASE ReportToWorker
  BY <1>4 DEF ReportToWorker, _persist, TypeOK, Runners, Goto
<1>5. CASE ReportToWorkerFails
  BY <1>5 DEF ReportToWorkerFails, TypeOK, Runners, Goto, db
<1>6. CASE RecordFailure
  BY <1>6 DEF RecordFailure, TypeOK, Runners, Goto
<1>7. CASE \/ StartRunFails \/ Interrupt(Worker) \/ SaveCheckpoint(Worker)
           \/ RunFails(Worker) \/ RecordFailureFails
  BY <1>7, WorkerMoves DEF db
<1>8. CASE ~create_investigation /\ ~WorkerStep
  BY <1>8, WorkerUntouched
<1> QED
  BY <1>1, <1>2, <1>3, <1>4, <1>5, <1>6, <1>7, <1>8 DEF WorkerStep, RunnerStep

-----------------------------------------------------------------------------
Settled == {"complete", "skipped"}

\* The verdict on record and the research shown belong to the verdict the worker's
\* run has come to, and neither is there before the detector's report.
VerdictInStep ==
  /\ \/ local[Worker].next \in {"none", "ingest_seed", "log_analysis", "threat_detection"}
     \/ pc[Worker] = "report" /\ ran = "threat_detection"
     => verdict = "unset" /\ pipeline["cve_research"] \notin Settled
  /\ verdict \in {"unset", local[Worker].verdict}
  /\ \/ local[Worker].next = "cve_research"
     \/ pc[Worker] = "report" /\ ran = "cve_research"
     => local[Worker].verdict # "benign"
  /\ pipeline["cve_research"] = "skipped" => verdict = "benign"
  /\ pipeline["cve_research"] = "complete" => local[Worker].verdict # "benign"

\* VerdictInStep is preserved by every step.
LEMMA VerdictStep ==
  ASSUME TypeOK, WorkerStopsAtGate, WorkerInStep, VerdictInStep, Next
  PROVE  VerdictInStep'
<1> USE DEF VerdictInStep, Settled
<1>1. CASE create_investigation
  BY <1>1 DEF create_investigation, TypeOK, Runners, Goto
<1>2. CASE StartRun
  <2>1. verdict = "unset" /\ pipeline["cve_research"] \notin Settled
    BY <1>2 DEF StartRun, WorkerInStep
  <2>2. local'[Worker].next = "ingest_seed" /\ pc'[Worker] = "run"
    BY <1>2 DEF StartRun, TypeOK, Runners, Goto, new_state, NoThread
  <2> QED  BY <1>2, <2>1, <2>2 DEF StartRun
<1>3. CASE RunNode(Worker)
  BY <1>3, WorkerRuns DEF Edge, Stages, route_after_threat
<1>4. CASE ReportToWorker
  <2>1. /\ pc[Worker] = "report" /\ pc'[Worker] = "save" /\ local' = local
        /\ verdict' = IF ran = "threat_detection" THEN local[Worker].verdict ELSE verdict
    BY <1>4 DEF ReportToWorker, _persist, TypeOK, Runners, Goto
  <2>2. pipeline'["cve_research"] =
          IF ran = "cve_research" THEN "complete"
          ELSE IF ran = "threat_detection" /\ local[Worker].verdict = "benign"
               THEN "skipped" ELSE pipeline["cve_research"]
    BY <1>4 DEF ReportToWorker, _persist, Stages
  <2>3. CASE ran = "threat_detection"
    BY <2>1, <2>2, <2>3 DEF WorkerInStep, route_after_threat
  <2>4. CASE ran = "cve_research"
    BY <2>1, <2>2, <2>4 DEF WorkerInStep, Edge
  <2>5. CASE ran \notin {"threat_detection", "cve_research"}
    BY <2>1, <2>2, <2>5
  <2> QED  BY <2>3, <2>4, <2>5
<1>5. CASE ReportToWorkerFails
  BY <1>5 DEF ReportToWorkerFails, TypeOK, Runners, Goto, db
<1>6. CASE RecordFailure
  <2>1. pipeline'["cve_research"] \in {pipeline["cve_research"], "failed"}
    BY <1>6 DEF RecordFailure, TypeOK, Stages
  <2> QED  BY <1>6, <2>1 DEF RecordFailure, TypeOK, Runners, Goto
<1>7. CASE \/ StartRunFails \/ Interrupt(Worker) \/ SaveCheckpoint(Worker)
           \/ RunFails(Worker) \/ RecordFailureFails
  BY <1>7, WorkerMoves DEF db
<1>8. CASE ~create_investigation /\ ~WorkerStep
  BY <1>8, WorkerUntouched
<1> QED
  BY <1>1, <1>2, <1>3, <1>4, <1>5, <1>6, <1>7, <1>8 DEF WorkerStep, RunnerStep

\* CVE research is shown as skipped exactly where the recorded verdict is benign,
\* under every fault, callbacks that fail and crashes between the steps included.
THEOREM ResearchFollowsVerdict == Spec => []ResearchMatchesVerdict
<1> DEFINE Inv == WorkerInStep /\ VerdictInStep
<1>1. Init => Inv
  BY DEF Init, WorkerInStep, VerdictInStep, Settled, NoThread, Runners, Stages
<1>2. GateInv /\ Inv /\ [Next]_vars => Inv'
  <2>1. Inv /\ UNCHANGED vars => Inv'
    BY DEF WorkerInStep, VerdictInStep, vars, db, procs
  <2> QED  BY <2>1, WorkerInStepStep, VerdictStep DEF GateInv
<1>3. Inv => ResearchMatchesVerdict
  BY DEF VerdictInStep, Settled, ResearchMatchesVerdict
<1> QED  BY <1>1, <1>2, <1>3, GateInvariant, PTL DEF Spec

-----------------------------------------------------------------------------
\* The stages behind a node of the worker's run.
Behind == [none             |-> {},
           ingest_seed      |-> {},
           log_analysis     |-> {},
           threat_detection |-> {"log_analysis"},
           cve_research     |-> {"log_analysis", "threat_detection"},
           report           |-> {"log_analysis", "threat_detection", "cve_research"},
           remediation      |-> Stages \ {"remediation"},
           triage           |-> Stages,
           human_gate       |-> Stages]

\* The stages with an outcome are exactly the ones behind node n, and none failed.
ShownUpTo(n) ==
  \A s \in Stages : /\ pipeline[s] # "failed"
                    /\ pipeline[s] \in Settled <=> s \in Behind[n]

\* Where every report of a node is recorded, the pipeline shown follows the worker's
\* run, one stage late between a node and its report.
StagesInStep ==
  /\ pc[Worker] \notin {"report", "done"} => ShownUpTo(local[Worker].next)
  /\ pc[Worker] = "report" => ShownUpTo(ran)
  /\ pc[Worker] = "done" => FailedStageIsWhereRunStopped

\* _failed_stage names the next agent of the run.
LEMMA FailedStageIsNext ==
  ASSUME NEW n \in Stages, ShownUpTo(n)
  PROVE  _failed_stage = n
<1> DEFINE open == {i \in 1..5 : pipeline[StageOrder[i]] \notin {"complete", "skipped"}}
<1>1. \A i \in 1..5 : i \in open <=> StageOrder[i] \notin Behind[n]
  <2>1. \A i \in 1..5 : StageOrder[i] \in Stages
    BY DEF StageOrder, Stages
  <2> QED  BY <2>1 DEF ShownUpTo, Settled
<1>2. \E k \in 1..5 : /\ StageOrder[k] = n
                      /\ \A i \in 1..5 : StageOrder[i] \notin Behind[n] <=> k <= i
  <2>1. CASE n = "log_analysis"
    <3>1. StageOrder[1] = n /\ \A i \in 1..5 : StageOrder[i] \notin Behind[n] <=> 1 <= i
      BY <2>1 DEF StageOrder, Behind, Stages
    <3> QED  BY <3>1
  <2>2. CASE n = "threat_detection"
    <3>1. StageOrder[2] = n /\ \A i \in 1..5 : StageOrder[i] \notin Behind[n] <=> 2 <= i
      BY <2>2 DEF StageOrder, Behind, Stages
    <3> QED  BY <3>1
  <2>3. CASE n = "cve_research"
    <3>1. StageOrder[3] = n /\ \A i \in 1..5 : StageOrder[i] \notin Behind[n] <=> 3 <= i
      BY <2>3 DEF StageOrder, Behind, Stages
    <3> QED  BY <3>1
  <2>4. CASE n = "report"
    <3>1. StageOrder[4] = n /\ \A i \in 1..5 : StageOrder[i] \notin Behind[n] <=> 4 <= i
      BY <2>4 DEF StageOrder, Behind, Stages
    <3> QED  BY <3>1
  <2>5. CASE n = "remediation"
    <3>1. StageOrder[5] = n /\ \A i \in 1..5 : StageOrder[i] \notin Behind[n] <=> 5 <= i
      BY <2>5 DEF StageOrder, Behind, Stages
    <3> QED  BY <3>1
  <2> QED  BY <2>1, <2>2, <2>3, <2>4, <2>5 DEF Stages
<1>3. PICK k \in 1..5 : /\ StageOrder[k] = n
                        /\ \A i \in 1..5 : StageOrder[i] \notin Behind[n] <=> k <= i
  BY <1>2
<1>4. k \in open /\ \A j \in open : k <= j
  BY <1>1, <1>3
<1>5. (CHOOSE i \in open : \A j \in open : i <= j) = k
  <2>1. \A i \in open : (\A j \in open : i <= j) => i = k
    BY <1>4
  <2> QED  BY <1>4, <2>1
<1> QED  BY <1>3, <1>4, <1>5 DEF _failed_stage

\* StagesInStep is preserved by every step, if callbacks do not fail.
LEMMA StagesStep ==
  ASSUME "persist" \notin Faults, TypeOK, WorkerStopsAtGate, WorkerInStep,
         StagesInStep, Next
  PROVE  StagesInStep'
<1> USE DEF StagesInStep
<1>1. CASE create_investigation
  <2>1. pc[Worker] = "idle" /\ pc'[Worker] = "mark" /\ UNCHANGED <<pipeline, local>>
    BY <1>1 DEF create_investigation, WorkerInStep, TypeOK, Runners, Goto
  <2> QED  BY <2>1 DEF ShownUpTo
<1>2. CASE StartRun
  <2>1. /\ pc[Worker] = "mark" /\ pc'[Worker] = "run" /\ UNCHANGED pipeline
        /\ local[Worker].next = "none" /\ local'[Worker].next = "ingest_seed"
    BY <1>2 DEF StartRun, WorkerInStep, TypeOK, Runners, Goto, new_state, NoThread
  <2> QED  BY <2>1 DEF ShownUpTo, Behind
<1>3. CASE RunNode(Worker)
  <2>1. /\ pc[Worker] = "run" /\ pc'[Worker] = "report" /\ UNCHANGED pipeline
        /\ ran' = local[Worker].next
    BY <1>3, WorkerRuns
  <2> QED  BY <2>1 DEF ShownUpTo
<1>4. CASE ReportToWorker
  <2>1. pc[Worker] = "report" /\ pc'[Worker] = "save" /\ local' = local
    BY <1>4 DEF ReportToWorker, TypeOK, Runners, Goto
  <2>2. pipeline' = [s \in Stages |->
          IF s = ran THEN "complete"
          ELSE IF s = "cve_research" /\ ran = "threat_detection"
                    /\ local[Worker].verdict = "benign"
               THEN "skipped" ELSE pipeline[s]]
    BY <1>4 DEF ReportToWorker, _persist
  <2>3. ShownUpTo(ran)
    BY <2>1
  <2>4. SUFFICES ASSUME NEW s \in Stages
                 PROVE  /\ pipeline'[s] # "failed"
                        /\ pipeline'[s] \in Settled <=> s \in Behind[local[Worker].next]
    BY <2>1 DEF ShownUpTo
  <2>5. CASE ran = "threat_detection"
    <3>1. local[Worker].next = route_after_threat(local[Worker].verdict)
      BY <2>1, <2>5 DEF WorkerInStep
    <3> QED  BY <2>2, <2>3, <2>5, <3>1 DEF ShownUpTo, Settled, Behind, Stages, route_after_threat
  <2>6. CASE ran # "threat_detection"
    <3>1. local[Worker].next = Edge[ran] /\ ran \in Stages \cup {"ingest_seed", "triage"}
      BY <2>1, <2>6 DEF WorkerInStep
    <3>2. pipeline'[s] = IF s = ran THEN "complete" ELSE pipeline[s]
      BY <2>2, <2>6
    <3>3. s \in Behind[Edge[ran]] <=> s = ran \/ s \in Behind[ran]
      BY <2>6, <3>1 DEF Behind, Edge, Stages
    <3> QED  BY <2>3, <3>1, <3>2, <3>3 DEF ShownUpTo, Settled
  <2> QED  BY <2>5, <2>6
<1>5. CASE RecordFailure
  <2>1. pc'[Worker] = "done" /\ local' = local /\ ShownUpTo(local[Worker].next)
    BY <1>5 DEF RecordFailure, TypeOK, Runners, Goto
  <2>2. SUFFICES ASSUME NEW s \in Stages, pipeline'[s] = "failed",
                        local[Worker].next \in Stages
                 PROVE  s = local[Worker].next
    BY <2>1 DEF FailedStageIsWhereRunStopped
  <2>3. pipeline' = [pipeline EXCEPT ![local[Worker].next] = "failed"]
    BY <1>5, <2>1, <2>2, FailedStageIsNext DEF RecordFailure
  <2> QED  BY <2>1, <2>2, <2>3 DEF ShownUpTo, TypeOK
<1>6. CASE \/ StartRunFails \/ Interrupt(Worker) \/ SaveCheckpoint(Worker)
           \/ RunFails(Worker) \/ RecordFailureFails
  <2>1. UNCHANGED <<pipeline, local>> /\ ShownUpTo(local[Worker].next)
    BY <1>6, WorkerMoves DEF db
  <2>2. pc'[Worker] \in {"run", "done", "failed"}
    BY <1>6, WorkerMoves
  <2> QED  BY <2>1, <2>2 DEF ShownUpTo, FailedStageIsWhereRunStopped
<1>7. CASE ~create_investigation /\ ~WorkerStep
  <2>1. /\ UNCHANGED <<pipeline, ran>> /\ local'[Worker] = local[Worker]
        /\ pc'[Worker] = pc[Worker] \/ pc'[Worker] = "done"
    BY <1>7, WorkerUntouched
  <2>2. FailedStageIsWhereRunStopped
    BY DEF ShownUpTo, FailedStageIsWhereRunStopped
  <2> QED  BY <2>1, <2>2 DEF ShownUpTo, FailedStageIsWhereRunStopped
<1> QED
  BY <1>1, <1>2, <1>3, <1>4, <1>5, <1>6, <1>7
     DEF WorkerStep, RunnerStep, ReportToWorkerFails

\* The stage shown as failed is the agent the run stopped at, as long as the worker's
\* reports are recorded: with a callback that fails the code names an earlier stage.
THEOREM FailureIsShownWhereItHappened ==
  "persist" \notin Faults => (Spec => []FailedStageIsWhereRunStopped)
<1> SUFFICES ASSUME "persist" \notin Faults
             PROVE  Spec => []FailedStageIsWhereRunStopped
  OBVIOUS
<1> DEFINE Inv == WorkerInStep /\ StagesInStep
<1>1. Init => Inv
  BY DEF Init, WorkerInStep, StagesInStep, ShownUpTo, Settled, Behind, NoThread, Runners
<1>2. GateInv /\ Inv /\ [Next]_vars => Inv'
  <2>1. Inv /\ UNCHANGED vars => Inv'
    BY DEF WorkerInStep, StagesInStep, ShownUpTo, FailedStageIsWhereRunStopped,
           vars, db, procs
  <2> QED  BY <2>1, WorkerInStepStep, StagesStep DEF GateInv
<1>3. Inv => FailedStageIsWhereRunStopped
  BY DEF StagesInStep, ShownUpTo, FailedStageIsWhereRunStopped
<1> QED  BY <1>1, <1>2, <1>3, GateInvariant, PTL DEF Spec

-----------------------------------------------------------------------------
(***************************************************************************)
(* The open gate, where no run is cut short: only callbacks may fail.      *)
(***************************************************************************)
Uncut == Faults \subseteq {"persist"}

\* The latest checkpoint and the runner that wrote it.
WriterInStep ==
  /\ ckpt.paused => ckpt.next = "human_gate"
  /\ \A r \in Runners : ckpt.by = r /\ pc[r] = "run" => ckpt.next = local[r].next
  /\ \A r \in Requests :
       ckpt.by = r => /\ pc[r] \in {"run", "save", "result", "commit", "done"}
                      /\ status \in {"awaiting_approval", "closed"}
  /\ \A r \in rests : pc[r] \in {"commit", "done"}

\* A case that awaits approval has its gate open, or the writer of the latest
\* checkpoint is on its way to the gate, or is about to close the case.
OpenOrMoving ==
  status = "awaiting_approval" =>
    \/ ckpt.next = "human_gate" /\ ckpt.paused
    \/ pc[ckpt.by] \in {"run", "report", "save"}
    \/ /\ ckpt.next = "end" /\ ckpt.by \in Requests
       /\ \/ pc[ckpt.by] = "result"
          \/ pc[ckpt.by] = "commit" /\ ckpt.by \notin rests

\* Nothing is cut short: the steps that need a fault other than a failing callback.
LEMMA NothingIsCut ==
  ASSUME Uncut
  PROVE  /\ ~StartRunFails /\ ~RecordFailureFails /\ ~Crash
         /\ \A r \in Runners : ~RunFails(r)
         /\ \A r \in Requests : ~RecordDecisionFails(r) /\ ~OutcomeFails(r) /\ ~AlertLost(r)
BY DEF Uncut, StartRunFails, RecordFailureFails, Crash, RunFails, RecordDecisionFails,
       OutcomeFails, AlertLost

\* WriterInStep and OpenOrMoving are preserved by every step.
LEMMA WriterStep ==
  ASSUME Uncut, GateInv, WorkerInStep, WriterInStep, OpenOrMoving, Next
  PROVE  WriterInStep' /\ OpenOrMoving'
<1> USE WorkerIsNoRequest DEF GateInv, WriterInStep, OpenOrMoving
<1>1. ckpt \in GraphState /\ ckpt.by \in Runners /\ \A r \in Runners : local[r] \in GraphState
  BY DEF TypeOK, GraphState
<1>2. \A r \in Requests : pc[r] \in RequestPCs
  BY DEF DecisionsInOrder
<1>3. pc[Worker] \in WorkerPCs
  BY DEF WorkerStopsAtGate
<1>4. CASE create_investigation
  BY <1>1, <1>4 DEF create_investigation, TypeOK, Runners, Goto
<1>5. CASE StartRun
  <2>1. /\ ckpt' = new_state /\ local'[Worker] = new_state /\ pc'[Worker] = "run"
        /\ \A r \in Requests : pc'[r] = pc[r] /\ local'[r] = local[r]
        /\ rests' = rests /\ status' = "in_progress"
    BY <1>5 DEF StartRun, TypeOK, Runners, Goto
  <2>2. ~new_state.paused /\ new_state.by = Worker
    BY DEF new_state, NoThread
  <2> QED  BY <2>1, <2>2 DEF TypeOK, Runners
<1>6. ASSUME NEW r \in Runners, RunNode(r)
      PROVE  WriterInStep' /\ OpenOrMoving'
  <2>1. /\ pc[r] \in {"run", "resumed"}
        /\ pc'[r] = (IF r = Worker THEN "report" ELSE "save")
        /\ \A q \in Runners \ {r} : pc'[q] = pc[q] /\ local'[q] = local[q]
        /\ UNCHANGED <<ckpt, status, rests>>
    BY <1>6 DEF RunNode, TypeOK, Runners, Goto, db
  <2> QED  BY <1>1, <1>3, <2>1 DEF Runners, WorkerPCs, TypeOK
<1>7. ASSUME NEW r \in Runners, Interrupt(r)
      PROVE  WriterInStep' /\ OpenOrMoving'
  <2>1. /\ pc[r] = "run" /\ local[r].next = "human_gate"
        /\ pc'[r] = Exhausted(r)
        /\ \A q \in Runners \ {r} : pc'[q] = pc[q]
        /\ UNCHANGED <<local, status, rests>>
    BY <1>7 DEF Interrupt, TypeOK, Runners, Goto, db
  <2>2. /\ ckpt'.next = ckpt.next /\ ckpt'.by = ckpt.by
        /\ ckpt'.paused <=> (ckpt.by = r) \/ ckpt.paused
    BY <1>1, <1>7 DEF Interrupt, GraphState
  <2> QED  BY <1>1, <2>1, <2>2 DEF Runners, Exhausted, TypeOK
<1>8. ASSUME NEW r \in Runners, SaveCheckpoint(r)
      PROVE  WriterInStep' /\ OpenOrMoving'
  <2>1. /\ pc[r] = "save"
        /\ pc'[r] = (IF local[r].next = "end" THEN Exhausted(r) ELSE "run")
        /\ \A q \in Runners \ {r} : pc'[q] = pc[q]
        /\ UNCHANGED <<local, status, rests>>
    BY <1>8 DEF SaveCheckpoint, TypeOK, Runners, Goto, db
  <2>2. ckpt'.next = local[r].next /\ ckpt'.by = r /\ ~ckpt'.paused
    BY <1>1, <1>8 DEF SaveCheckpoint, GraphState
  <2>3. r = Worker => local[r].next # "end"
    BY DEF WorkerStopsAtGate
  <2>4. r \in Requests => status \in {"awaiting_approval", "closed"}
    BY <2>1 DEF GateSurfacedLast, Active
  <2> QED  BY <2>1, <2>2, <2>3, <2>4 DEF Runners, Exhausted, TypeOK
<1>9. CASE ReportToWorker \/ ReportToWorkerFails
  <2>1. /\ pc[Worker] = "report" /\ pc'[Worker] = "save"
        /\ \A q \in Requests : pc'[q] = pc[q]
        /\ UNCHANGED <<local, ckpt, rests>>
    BY <1>9 DEF ReportToWorker, ReportToWorkerFails, TypeOK, Runners, Goto
  <2>2. ckpt.by = Worker
    BY <1>1, <2>1 DEF GateSurfacedLast, Runners
  <2> QED  BY <2>1, <2>2 DEF Runners, TypeOK
<1>10. CASE RecordFailure
  <2>1. UNCHANGED <<local, ckpt, rests, status>> /\ pc'[Worker] = "done"
        /\ pc[Worker] = "failed" /\ \A q \in Requests : pc'[q] = pc[q]
    BY <1>10 DEF RecordFailure, TypeOK, Runners, Goto
  <2> QED  BY <1>1, <2>1 DEF Runners, TypeOK
<1>11. ASSUME NEW r \in Requests,
              \/ DecideCheck(r) \/ DecideRefused(r) \/ RecordDecision(r)
              \/ Resume(r) \/ InvalidResume(r) \/ PassGate(r)
       PROVE  WriterInStep' /\ OpenOrMoving'
  <2>1. /\ pc[r] \in {"idle", "record", "resume", "resumed"}
        /\ pc'[r] \in {"record", "resume", "resumed", "save", "done"}
        /\ \A q \in Runners \ {r} : pc'[q] = pc[q] /\ local'[q] = local[q]
        /\ UNCHANGED <<ckpt, status, rests>>
    BY <1>11 DEF DecideCheck, DecideRefused, RecordDecision, Resume, InvalidResume,
         PassGate, TypeOK, Runners, Goto, db
  <2> QED  BY <1>1, <2>1 DEF Runners, TypeOK
<1>12. ASSUME NEW r \in Requests, Result(r)
       PROVE  WriterInStep' /\ OpenOrMoving'
  <2>1. /\ pc[r] = "result" /\ pc'[r] = "commit"
        /\ \A q \in Runners \ {r} : pc'[q] = pc[q]
        /\ UNCHANGED <<ckpt, status, local>>
        /\ rests' = IF ckpt.paused THEN rests \cup {r} ELSE rests
    BY <1>12 DEF Result, TypeOK, Runners, Goto, db
  <2>2. r \notin rests
    BY <2>1
  <2> QED  BY <1>1, <2>1, <2>2 DEF Runners, TypeOK
<1>13. ASSUME NEW r \in Requests, Commit(r)
       PROVE  WriterInStep' /\ OpenOrMoving'
  <2>1. /\ pc[r] = "commit" /\ pc'[r] = "done"
        /\ \A q \in Runners \ {r} : pc'[q] = pc[q]
        /\ UNCHANGED <<ckpt, rests, local>>
        /\ status' = IF r \in rests THEN status ELSE "closed"
    BY <1>13 DEF Commit, apply_gate_outcome, TypeOK, Runners, Goto
  <2> QED  BY <1>1, <2>1 DEF Runners, TypeOK
<1>14. ASSUME NEW r \in Requests, DeliveryStep(r)
       PROVE  WriterInStep' /\ OpenOrMoving'
  <2>1. UNCHANGED <<ckpt, pc, local, rests, status>>
    BY <1>14 DEF DeliveryStep, deliver_alert, AlertRefused, AlertLost, db, procs
  <2> QED  BY <2>1
<1> QED
  BY <1>4, <1>5, <1>6, <1>7, <1>8, <1>9, <1>10, <1>11, <1>12, <1>13, <1>14, NothingIsCut
     DEF Next, WorkerStep, RequestStep, RunnerStep, Runners

\* WriterInStep and OpenOrMoving hold from the start.
LEMMA WriterInit ==
  ASSUME Init
  PROVE  WorkerInStep /\ WriterInStep /\ OpenOrMoving
BY WorkerIsNoRequest
   DEF Init, WorkerInStep, WriterInStep, OpenOrMoving, NoThread, Runners

\* They depend on nothing but the variables.
LEMMA WriterStutter ==
  ASSUME WorkerInStep, WriterInStep, OpenOrMoving, UNCHANGED vars
  PROVE  WorkerInStep' /\ WriterInStep' /\ OpenOrMoving'
BY DEF WorkerInStep, WriterInStep, OpenOrMoving, vars, db, procs

\* However requests overlap, a case left awaiting approval has its gate open in the
\* checkpoint, if no run is cut short by a failing node, a rollback or a crash.
THEOREM GateStaysOpen == Uncut => (Spec => []AwaitingMeansOpenGate)
<1> SUFFICES ASSUME Uncut
             PROVE  Spec => []AwaitingMeansOpenGate
  OBVIOUS
<1> DEFINE Inv == WorkerInStep /\ WriterInStep /\ OpenOrMoving
<1>1. Init => Inv
  BY WriterInit
<1>2. GateInv /\ Inv /\ [Next]_vars => Inv'
  BY WorkerInStepStep, WriterStep, WriterStutter DEF GateInv
<1>3. GateInv /\ Inv => AwaitingMeansOpenGate
  BY DEF AwaitingMeansOpenGate, OpenOrMoving, Quiescent, Active, GateInv, TypeOK,
         GraphState, Runners
<1> QED  BY <1>1, <1>2, <1>3, GateInvariant, PTL DEF Spec, Uncut

-----------------------------------------------------------------------------
(***************************************************************************)
(* One runner at a time and no faults: the case record and the graph.      *)
(***************************************************************************)
Serial == Faults = {} /\ Overlap = FALSE

OneAtATime == \A r, q \in Runners : Active(r) /\ Active(q) => r = q

\* Until it rests at the gate the worker is the only one to write checkpoints, and
\* the draft is on record when it gets there.
WorkerAlone ==
  /\ Active(Worker) => /\ ckpt.by = Worker /\ pc[Worker] # "failed"
                       /\ status # "closed" /\ report # "final"
  /\ \/ local[Worker].next \in {"triage", "human_gate"}
     \/ local[Worker].next = "remediation" /\ pc[Worker] # "report"
     => report # "none"
  /\ pc[Worker] = "done" => local[Worker].next = "human_gate"

\* What a request in progress has done, from the open gate to its outcome.
Progress(r) ==
  /\ status = "awaiting_approval" /\ report # "final"
  /\ pc[r] \in {"record", "resume", "resumed"} => ckpt.next = "human_gate" /\ ckpt.paused
  /\ pc[r] = "resumed" => local[r].next = "human_gate"
  /\ pc[r] \in {"run", "save"} =>
       /\ local[r].last = kind[r]
       /\ IF kind[r] = "redirect" THEN local[r].next \in {"triage", "human_gate"}
                                  ELSE local[r].next \in {"notify", "close", "end"}
  /\ pc[r] = "run" => /\ ckpt.by = r /\ ckpt.last = kind[r]
                      /\ ckpt.next = local[r].next /\ ckpt.next # "end"
  /\ pc[r] \in {"result", "commit"} =>
       /\ ckpt.last = kind[r]
       /\ IF kind[r] = "redirect" THEN ckpt.next = "human_gate" /\ ckpt.paused
                                  ELSE ckpt.next = "end" /\ ~ckpt.paused
  /\ pc[r] = "commit" => (r \in rests <=> ckpt.paused)

RequestInStep == \A r \in Requests : Active(r) => Progress(r)

\* The case at rest.
CaseAtRest ==
  Quiescent =>
    /\ status = "awaiting_approval" =>
         ckpt.next = "human_gate" /\ ckpt.paused /\ report # "final"
    /\ status = "closed" =>
         ckpt.next = "end" /\ ~ckpt.paused /\ (report = "final" <=> ckpt.last = "approve")

SerialInv == OneAtATime /\ WorkerAlone /\ RequestInStep /\ CaseAtRest

\* The worker's steps keep it.
LEMMA SerialWorkerStep ==
  ASSUME Serial, GateInv, WorkerInStep, WriterInStep, SerialInv,
         create_investigation \/ WorkerStep
  PROVE  SerialInv'
<1> USE WorkerIsNoRequest DEF GateInv
<1>1. \A r \in Requests : pc'[r] = pc[r] /\ ~Active(r)
  <2>1. \A r \in Requests : pc'[r] = pc[r]
    BY WorkerFrame
  <2>2. CASE create_investigation
    BY <2>1, <2>2 DEF create_investigation, GateSurfacedLast
  <2>3. CASE WorkerStep
    <3>1. Active(Worker)
      BY <2>3 DEF WorkerStep, StartRun, StartRunFails, RunnerStep, RunNode, Interrupt,
           SaveCheckpoint, RunFails, ReportToWorker, ReportToWorkerFails,
           RecordFailure, RecordFailureFails, Active
    <3> QED  BY <2>1, <3>1 DEF SerialInv, OneAtATime, Runners
  <2> QED  BY <2>2, <2>3
<1>2. OneAtATime' /\ RequestInStep'
  BY <1>1 DEF OneAtATime, RequestInStep, Active, Runners
<1>3. ckpt \in GraphState /\ local[Worker] \in GraphState
  BY DEF TypeOK, Runners
<1>4. SUFFICES WorkerAlone' /\ (pc'[Worker] = "done" => CaseAtRest')
  <2>1. pc'[Worker] # "done" => Active(Worker)'
    <3>1. pc'[Worker] # "idle"
      BY DEF create_investigation, WorkerStep, StartRun, StartRunFails, RunnerStep,
           RunNode, Interrupt, SaveCheckpoint, RunFails, ReportToWorker,
           ReportToWorkerFails, RecordFailure, RecordFailureFails, Goto, TypeOK,
           Runners, Exhausted
    <3> QED  BY <3>1 DEF Active
  <2>2. Active(Worker)' => CaseAtRest'
    BY DEF CaseAtRest, Quiescent, Runners
  <2> QED  BY <1>2, <2>1, <2>2 DEF SerialInv
<1>5. CASE create_investigation
  <2>1. /\ pc[Worker] = "idle" /\ pc'[Worker] = "mark"
        /\ status = "none" /\ status' = "open"
        /\ UNCHANGED <<ckpt, local, report>>
    BY <1>5 DEF create_investigation, WorkerInStep, TypeOK, Runners, Goto
  <2>2. ckpt.by = Worker
    BY <1>3, <2>1 DEF WriterInStep, GraphState, Runners
  <2>3. report # "final" /\ local[Worker].next = "none"
    BY <2>1 DEF GateSurfacedLast, WorkerInStep
  <2> QED  BY <2>1, <2>2, <2>3 DEF WorkerAlone
<1>6. CASE StartRun
  <2>1. /\ pc[Worker] = "mark" /\ pc'[Worker] = "run" /\ status' = "in_progress"
        /\ ckpt' = new_state /\ local'[Worker] = new_state /\ UNCHANGED report
    BY <1>6 DEF StartRun, TypeOK, Runners, Goto
  <2>2. new_state.by = Worker /\ new_state.next = "ingest_seed"
    BY DEF new_state, NoThread
  <2> QED  BY <2>1, <2>2 DEF WorkerAlone, SerialInv, Active
<1>7. CASE RunNode(Worker)
  <2>1. /\ pc[Worker] = "run" /\ pc'[Worker] = "report"
        /\ ran' = local[Worker].next /\ ran' \in Stages \cup {"ingest_seed", "triage"}
        /\ local'[Worker].next = IF ran' = "threat_detection"
                                 THEN route_after_threat(local'[Worker].verdict)
                                 ELSE Edge[ran']
        /\ UNCHANGED <<status, report, ckpt>>
    BY <1>7, WorkerRuns
  <2>2. local'[Worker].next = "triage" => local[Worker].next = "remediation"
    BY <2>1 DEF Edge, Stages, route_after_threat
  <2>3. local'[Worker].next = "human_gate" => local[Worker].next = "triage"
    BY <2>1 DEF Edge, Stages, route_after_threat
  <2> QED  BY <2>1, <2>2, <2>3 DEF WorkerAlone, SerialInv, Active
<1>8. CASE Interrupt(Worker)
  <2>1. /\ pc[Worker] = "run" /\ pc'[Worker] = "done" /\ local[Worker].next = "human_gate"
        /\ UNCHANGED <<status, report, local>>
    BY <1>8 DEF Interrupt, Exhausted, TypeOK, Runners, Goto, db
  <2>2. ckpt.by = Worker /\ status # "closed" /\ report # "final" /\ report # "none"
    BY <2>1 DEF SerialInv, WorkerAlone, Active
  <2>3. ckpt'.next = ckpt.next /\ ckpt'.paused
    BY <1>3, <1>8, <2>2 DEF Interrupt, GraphState
  <2>4. ckpt.next = "human_gate"
    BY <2>1, <2>2 DEF WriterInStep, Runners
  <2> QED  BY <2>1, <2>2, <2>3, <2>4 DEF WorkerAlone, CaseAtRest, Active
<1>9. CASE SaveCheckpoint(Worker)
  <2>1. /\ pc[Worker] = "save" /\ pc'[Worker] = "run"
        /\ UNCHANGED <<status, report, local>>
    BY <1>9 DEF SaveCheckpoint, Exhausted, TypeOK, Runners, Goto, db, WorkerStopsAtGate
  <2>2. ckpt'.by = Worker
    BY <1>3, <1>9 DEF SaveCheckpoint, GraphState
  <2> QED  BY <2>1, <2>2 DEF WorkerAlone, SerialInv, Active
<1>10. CASE ReportToWorker
  <2>1. /\ pc[Worker] = "report" /\ pc'[Worker] = "save" /\ UNCHANGED <<local, ckpt>>
        /\ status' = CASE ran = "triage" -> "awaiting_approval"
                       [] ran = "close"  -> "closed"
                       [] OTHER          -> status
        /\ report' = IF ran = "report" THEN "draft" ELSE report
    BY <1>10 DEF ReportToWorker, _persist, TypeOK, Runners, Goto
  <2>2. ran # "close" /\ status' # "closed"
    BY <2>1 DEF WorkerStopsAtGate, SerialInv, WorkerAlone, Active
  <2>3. CASE ran = "remediation" \/ ran = "triage"
    <3>1. local[Worker].next \in {"triage", "human_gate"}
      BY <2>1, <2>3 DEF WorkerInStep, Edge
    <3> QED  BY <2>1, <2>2, <2>3, <3>1 DEF WorkerAlone, SerialInv, Active
  <2>4. CASE ran = "report"
    BY <2>1, <2>2, <2>4 DEF WorkerAlone, SerialInv, Active
  <2>5. CASE ran \notin {"report", "remediation", "triage"}
    <3>1. local[Worker].next \notin {"remediation", "triage", "human_gate"}
      BY <2>1, <2>5 DEF WorkerInStep, Edge, Stages, route_after_threat
    <3> QED  BY <2>1, <2>2, <2>5, <3>1 DEF WorkerAlone, SerialInv, Active
  <2> QED  BY <2>3, <2>4, <2>5
<1>11. CASE RecordFailure
  BY <1>11 DEF RecordFailure, SerialInv, WorkerAlone, Active
<1>12. ~StartRunFails /\ ~RunFails(Worker) /\ ~ReportToWorkerFails /\ ~RecordFailureFails
  BY DEF Serial, StartRunFails, RunFails, ReportToWorkerFails, RecordFailureFails
<1> QED
  BY <1>5, <1>6, <1>7, <1>8, <1>9, <1>10, <1>11, <1>12 DEF WorkerStep, RunnerStep

\* A request's steps keep it: each is the only runner.
LEMMA SerialRequestStep ==
  ASSUME Serial, GateInv, WriterInStep, SerialInv, NEW r \in Requests,
         DecideCheck(r) \/ RequestStep(r)
  PROVE  SerialInv'
<1> USE WorkerIsNoRequest DEF GateInv
<1>1. \A q \in Runners \ {r} : pc'[q] = pc[q] /\ local'[q] = local[q] /\ ~Active(q)
  <2>1. \A q \in Runners \ {r} : pc'[q] = pc[q] /\ local'[q] = local[q]
    BY RequestFrame
  <2>2. CASE DecideCheck(r)
    BY <2>1, <2>2 DEF DecideCheck, Serial, Quiescent
  <2>3. CASE RequestStep(r)
    <3>1. Active(r)
      BY <2>3 DEF RequestStep, RecordDecision, RecordDecisionFails, Resume,
           InvalidResume, RunnerStep, RunNode, Interrupt, SaveCheckpoint, RunFails,
           PassGate, Result, Commit, OutcomeFails, Active
    <3> QED  BY <2>1, <3>1 DEF SerialInv, OneAtATime, Runners
  <2> QED  BY <2>2, <2>3
<1>2. \A q \in Runners \ {r} : ~Active(q)'
  BY <1>1 DEF Active
<1>3. OneAtATime'
  BY <1>2 DEF OneAtATime
<1>4. Worker \in Runners \ {r} /\ ~Active(Worker)
  BY <1>1 DEF Runners
<1>5. SUFFICES /\ report # "none" => report' # "none"
               /\ Active(r)' => Progress(r)'
               /\ ~Active(r)' => CaseAtRest'
  <2>1. WorkerAlone'
    BY <1>1, <1>2, <1>4, <1>5 DEF WorkerAlone, SerialInv, Active
  <2>2. RequestInStep'
    BY <1>2, <1>5 DEF RequestInStep, Runners
  <2>3. CaseAtRest'
    BY <1>5 DEF CaseAtRest, Quiescent, Runners
  <2> QED  BY <1>3, <2>1, <2>2, <2>3 DEF SerialInv
<1>6. ckpt \in GraphState /\ local[r] \in GraphState /\ kind[r] \in Decisions \cup {"none"}
  BY DEF TypeOK, Runners
<1>7. CASE DecideCheck(r)
  <2>1. /\ pc'[r] = "record" /\ status = "awaiting_approval" /\ Quiescent
        /\ UNCHANGED <<status, report, ckpt>>
    BY <1>7 DEF DecideCheck, Serial, TypeOK, Runners, Goto, db
  <2> QED  BY <2>1 DEF SerialInv, CaseAtRest, Progress, Active
<1> SUFFICES ASSUME RequestStep(r)
             PROVE  /\ report # "none" => report' # "none"
                    /\ Active(r)' => Progress(r)'
                    /\ ~Active(r)' => CaseAtRest'
  BY <1>7
<1>8. Active(r) /\ Progress(r)
  <2>1. Active(r)
    BY DEF RequestStep, RecordDecision, RecordDecisionFails, Resume,
         InvalidResume, RunnerStep, RunNode, Interrupt, SaveCheckpoint, RunFails,
         PassGate, Result, Commit, OutcomeFails, Active
  <2> QED  BY <2>1 DEF SerialInv, RequestInStep
<1>9. CASE RecordDecision(r)
  <2>1. pc[r] = "record" /\ pc'[r] = "resume" /\ UNCHANGED <<status, report, ckpt>>
    BY <1>9 DEF RecordDecision, TypeOK, Runners, Goto
  <2> QED  BY <1>8, <2>1 DEF Progress, Active
<1>10. CASE Resume(r)
  <2>1. /\ pc[r] = "resume" /\ pc'[r] = "resumed" /\ local'[r] = ckpt
        /\ UNCHANGED <<status, report, ckpt>>
    BY <1>10 DEF Resume, TypeOK, Runners, Goto, db
  <2> QED  BY <1>8, <2>1 DEF Progress, Active
<1>11. ~InvalidResume(r)
  BY <1>8 DEF InvalidResume, Progress, Nodes
<1>12. CASE PassGate(r)
  <2>1. /\ pc[r] = "resumed" /\ pc'[r] = "save"
        /\ local'[r] = AfterGate(local[r], kind[r])
        /\ UNCHANGED <<status, report, ckpt, kind>>
    BY <1>12 DEF PassGate, TypeOK, Runners, Goto, db
  <2>2. local'[r].last = kind[r] /\ local'[r].next = route_after_gate(kind[r])
    BY <1>6, <2>1 DEF AfterGate, GraphState
  <2> QED  BY <1>8, <2>1, <2>2 DEF Progress, Active, route_after_gate
<1>13. CASE RunNode(r)
  <2>1. /\ pc[r] \in {"run", "resumed"} /\ pc'[r] = "save"
        /\ local[r].next \in Nodes \ {"human_gate"}
        /\ \E g \in AfterNode(local[r]) : local'[r] = g
        /\ UNCHANGED <<status, report, ckpt, kind>>
    BY <1>13 DEF RunNode, TypeOK, Runners, Goto, db
  <2>2. /\ pc[r] = "run" /\ local[r].last = kind[r]
        /\ local[r].next \in {"triage", "notify", "close"}
        /\ local[r].next = "triage" <=> kind[r] = "redirect"
    BY <1>8, <2>1 DEF Progress, Nodes
  <2>3. local'[r] = [local[r] EXCEPT !.next = Edge[local[r].next]]
    BY <2>1, <2>2 DEF AfterNode
  <2>4. local'[r].last = kind[r] /\ local'[r].next = Edge[local[r].next]
    BY <1>6, <2>2, <2>3 DEF GraphState
  <2>5. IF kind[r] = "redirect" THEN local'[r].next \in {"triage", "human_gate"}
                                ELSE local'[r].next \in {"notify", "close", "end"}
    BY <2>2, <2>4 DEF Edge
  <2> QED  BY <1>8, <2>1, <2>2, <2>4, <2>5 DEF Progress, Active
<1>14. CASE Interrupt(r)
  <2>1. /\ pc[r] = "run" /\ pc'[r] = "result" /\ local[r].next = "human_gate"
        /\ UNCHANGED <<status, report, kind>>
    BY <1>14 DEF Interrupt, Exhausted, TypeOK, Runners, Goto, db
  <2>2. kind[r] = "redirect" /\ ckpt.by = r /\ ckpt.next = "human_gate" /\ ckpt.last = kind[r]
    BY <1>8, <2>1 DEF Progress
  <2>3. ckpt'.next = ckpt.next /\ ckpt'.last = ckpt.last /\ ckpt'.paused
    BY <1>6, <1>14, <2>2 DEF Interrupt, GraphState
  <2> QED  BY <1>8, <2>1, <2>2, <2>3 DEF Progress, Active
<1>15. CASE SaveCheckpoint(r)
  <2>1. /\ pc[r] = "save"
        /\ pc'[r] = (IF local[r].next = "end" THEN "result" ELSE "run")
        /\ UNCHANGED <<status, report, kind, local>>
    BY <1>15 DEF SaveCheckpoint, Exhausted, TypeOK, Runners, Goto, db
  <2>2. /\ ckpt'.next = local[r].next /\ ckpt'.last = local[r].last
        /\ ckpt'.by = r /\ ~ckpt'.paused
    BY <1>6, <1>15 DEF SaveCheckpoint, GraphState
  <2> QED  BY <1>8, <2>1, <2>2 DEF Progress, Active
<1>16. CASE Result(r)
  <2>1. /\ pc[r] = "result" /\ pc'[r] = "commit"
        /\ rests' = IF ckpt.paused THEN rests \cup {r} ELSE rests
        /\ UNCHANGED <<status, report, kind, ckpt>>
    BY <1>16 DEF Result, TypeOK, Runners, Goto, db
  <2>2. r \notin rests
    BY <2>1 DEF WriterInStep
  <2> QED  BY <1>8, <2>1, <2>2 DEF Progress, Active
<1>17. CASE Commit(r)
  <2>1. /\ pc[r] = "commit" /\ pc'[r] = "done" /\ UNCHANGED ckpt
        /\ status' = IF r \in rests THEN status ELSE "closed"
        /\ report' = IF kind[r] = "approve" /\ report # "none" THEN "final" ELSE report
    BY <1>17 DEF Commit, apply_gate_outcome, TypeOK, Runners, Goto
  <2>2. /\ status = "awaiting_approval" /\ report # "final" /\ ckpt.last = kind[r]
        /\ r \in rests <=> ckpt.paused
        /\ IF kind[r] = "redirect" THEN ckpt.next = "human_gate" /\ ckpt.paused
                                   ELSE ckpt.next = "end" /\ ~ckpt.paused
    BY <1>8, <2>1 DEF Progress
  <2>3. report # "none"
    <3>1. pc[Worker] = "done"
      BY <1>4, <2>2 DEF GateSurfacedLast, Active
    <3> QED  BY <3>1 DEF SerialInv, WorkerAlone
  <2> QED  BY <2>1, <2>2, <2>3 DEF CaseAtRest, Active
<1>18. ~RecordDecisionFails(r) /\ ~RunFails(r) /\ ~OutcomeFails(r)
  BY DEF Serial, RecordDecisionFails, RunFails, OutcomeFails
<1> QED
  BY <1>9, <1>10, <1>11, <1>12, <1>13, <1>14, <1>15, <1>16, <1>17, <1>18
     DEF RequestStep, RunnerStep

\* A refused request and a delivery task leave the case and everyone at work alone.
LEMMA SerialOtherStep ==
  ASSUME TypeOK, SerialInv, NEW r \in Requests, DecideRefused(r) \/ DeliveryStep(r)
  PROVE  SerialInv'
<1>1. /\ UNCHANGED <<status, report, ckpt, local, rests, kind>>
      /\ \A q \in Runners : pc'[q] = pc[q] \/ (pc[q] = "idle" /\ pc'[q] = "done" /\ q # Worker)
  <2>1. CASE DecideRefused(r)
    BY <2>1, WorkerIsNoRequest DEF DecideRefused, TypeOK, Runners, Goto, db
  <2>2. CASE DeliveryStep(r)
    BY <2>2 DEF DeliveryStep, deliver_alert, AlertRefused, AlertLost, db, procs
  <2> QED  BY <2>1, <2>2
<1>2. \A q \in Runners : (Active(q)' <=> Active(q)) /\ (Active(q)' => pc'[q] = pc[q])
  BY <1>1 DEF Active
<1>3. pc'[Worker] = pc[Worker]
  BY <1>1 DEF Runners
<1>4. OneAtATime'
  BY <1>2 DEF OneAtATime, SerialInv
<1>5. WorkerAlone'
  BY <1>1, <1>3 DEF WorkerAlone, SerialInv, Active
<1>6. RequestInStep'
  BY <1>1, <1>2 DEF RequestInStep, Progress, SerialInv, Runners
<1>7. CaseAtRest'
  BY <1>1, <1>2 DEF CaseAtRest, Quiescent, SerialInv
<1> QED  BY <1>4, <1>5, <1>6, <1>7 DEF SerialInv

SerialCase == WorkerInStep /\ WriterInStep /\ OpenOrMoving /\ SerialInv

\* The inductive invariant of a case handled one runner at a time.
LEMMA SerialInvariant == Serial => (Spec => [](GateInv /\ SerialCase))
<1> SUFFICES ASSUME Serial
             PROVE  Spec => [](GateInv /\ SerialCase)
  OBVIOUS
<1> USE DEF SerialCase
<1>1. Init => SerialCase
  <2>1. Init => SerialInv
    BY DEF Init, SerialInv, OneAtATime, WorkerAlone, RequestInStep, CaseAtRest, Active,
           NoThread, Runners
  <2> QED  BY <2>1, WriterInit
<1>2. GateInv /\ SerialCase /\ [Next]_vars => SerialCase'
  <2>1. ASSUME GateInv, SerialCase, Next
        PROVE  SerialCase'
    <3>1. WorkerInStep' /\ WriterInStep' /\ OpenOrMoving'
      BY <2>1, WorkerInStepStep, WriterStep DEF GateInv, Serial, Uncut
    <3>2. ~Crash
      BY DEF Serial, Crash
    <3> QED  BY <2>1, <3>1, <3>2, SerialWorkerStep, SerialRequestStep, SerialOtherStep
             DEF Next, GateInv
  <2>2. SerialInv /\ UNCHANGED vars => SerialInv'
    BY DEF SerialInv, OneAtATime, WorkerAlone, RequestInStep, Progress, CaseAtRest,
           Quiescent, Active, vars, db, procs
  <2> QED  BY <2>1, <2>2, WriterStutter
<1> QED  BY <1>1, <1>2, GateInvariant, PTL DEF Spec, Serial

\* Handled one at a time and without faults, decisions leave the case record and the
\* graph in agreement: AWAITING_APPROVAL at the open gate, CLOSED at the end of the
\* graph, FINAL exactly if the closing decision approved.
THEOREM RecordFollowsGraph == Serial => (Spec => []RecordMatchesGraph)
<1>1. GateInv /\ SerialCase => RecordMatchesGraph
  BY DEF RecordMatchesGraph, SerialCase, SerialInv, CaseAtRest, GateInv, TypeOK
<1> QED  BY <1>1, SerialInvariant, PTL DEF Serial

-----------------------------------------------------------------------------
Disposing == {"approve", "edit", "reject"}

\* A decision that disposes of the case is the only one, and either the request that
\* recorded it is still at work or the case is closed.
DisposedOnce ==
  \A r \in Requests : decided[r] \in Disposing =>
    /\ status = "closed" \/ (Active(r) /\ pc[r] # "record")
    /\ \A q \in Requests : decided[q] \in Disposing => q = r

\* DisposedOnce is preserved by every step.
LEMMA DisposedStep ==
  ASSUME Serial, GateInv, SerialCase, DisposedOnce, Next
  PROVE  DisposedOnce'
<1> USE WorkerIsNoRequest DEF GateInv, SerialCase
<1>1. status = "closed" => status' = "closed"
  BY NothingUndone
<1>2. CASE create_investigation \/ WorkerStep
  BY <1>1, <1>2, WorkerFrame DEF DisposedOnce, Active
<1>3. ASSUME NEW r \in Requests, RecordDecision(r)
      PROVE  DisposedOnce'
  <2>1. /\ pc[r] = "record" /\ pc'[r] = "resume" /\ UNCHANGED status
        /\ decided' = [decided EXCEPT ![r] = kind[r]]
        /\ \A q \in Requests \ {r} : pc'[q] = pc[q]
    BY <1>3 DEF RecordDecision, TypeOK, Runners, Goto
  <2>2. status # "closed"
    BY <2>1 DEF SerialInv, RequestInStep, Progress, Active
  <2>3. \A q \in Requests : decided[q] \notin Disposing
    <3>1. \A q \in Requests \ {r} : ~Active(q)
      BY <2>1 DEF SerialInv, OneAtATime, Active, Runners
    <3>2. decided[r] \notin Disposing
      BY <2>1 DEF DecisionsInOrder, Disposing
    <3> QED  BY <2>2, <3>1, <3>2 DEF DisposedOnce
  <2> QED  BY <2>1, <2>3 DEF DisposedOnce, Active, TypeOK
<1>4. ASSUME NEW r \in Requests, Commit(r)
      PROVE  DisposedOnce'
  <2>1. /\ pc[r] = "commit" /\ UNCHANGED decided
        /\ status' = IF r \in rests THEN status ELSE "closed"
        /\ \A q \in Requests \ {r} : pc'[q] = pc[q]
    BY <1>4 DEF Commit, apply_gate_outcome, TypeOK, Runners, Goto
  <2>2. decided[r] \in Disposing => r \notin rests
    <3>1. decided[r] = kind[r]
      BY <2>1 DEF DecisionsInOrder, Active
    <3> QED  BY <2>1, <3>1 DEF SerialInv, RequestInStep, Progress, Active, Disposing
  <2> QED  BY <1>1, <2>1, <2>2 DEF DisposedOnce, Active
<1>5. ASSUME NEW r \in Requests, ~RecordDecision(r), ~Commit(r),
             DecideCheck(r) \/ RequestStep(r)
      PROVE  DisposedOnce'
  <2>1. \A q \in Requests \ {r} : pc'[q] = pc[q]
    BY <1>5, RequestFrame DEF Runners
  <2>2. UNCHANGED decided
    BY <1>5 DEF DecideCheck, RequestStep, RecordDecisionFails, Resume, InvalidResume,
         RunnerStep, RunNode, Interrupt, SaveCheckpoint, RunFails, PassGate, Result,
         OutcomeFails, db
  <2>3. CASE DecideCheck(r)
    <3>1. decided[r] \notin Disposing
      BY <2>3 DEF DecideCheck, DecisionsInOrder, Disposing
    <3> QED  BY <1>1, <2>1, <2>2, <3>1 DEF DisposedOnce, Active
  <2>4. CASE RequestStep(r)
    <3>1. ~InvalidResume(r)
      BY DEF InvalidResume, SerialInv, RequestInStep, Progress, Active, Nodes
    <3>2. pc'[r] \in {"resumed", "save", "run", "result", "commit"}
      BY <1>5, <2>4, <3>1 DEF RequestStep, RunnerStep, RecordDecisionFails, RunFails,
           OutcomeFails, Serial, Resume, RunNode, Interrupt, SaveCheckpoint, PassGate,
           Result, Exhausted, TypeOK, Runners, Goto
    <3> QED  BY <1>1, <2>1, <2>2, <3>2 DEF DisposedOnce, Active
  <2> QED  BY <1>5, <2>3, <2>4
<1>6. ASSUME NEW r \in Requests, DecideRefused(r)
      PROVE  DisposedOnce'
  <2>1. /\ pc[r] = "idle" /\ UNCHANGED <<decided, status>>
        /\ \A q \in Requests \ {r} : pc'[q] = pc[q]
    BY <1>6 DEF DecideRefused, TypeOK, Runners, Goto, db
  <2>2. decided[r] \notin Disposing
    BY <2>1 DEF DecisionsInOrder, Disposing
  <2> QED  BY <2>1, <2>2 DEF DisposedOnce, Active
<1>7. ASSUME NEW r \in Requests, DeliveryStep(r)
      PROVE  DisposedOnce'
  BY <1>7 DEF DeliveryStep, deliver_alert, AlertRefused, AlertLost, db, procs,
              DisposedOnce, Active
<1>8. ~Crash
  BY DEF Serial, Crash
<1> QED  BY <1>2, <1>3, <1>4, <1>5, <1>6, <1>7, <1>8 DEF Next

\* Handled one at a time, a gate is decided once: that two overlapping requests can
\* both decide it is the overlap's doing and nothing else's.
THEOREM OneDecisionPerGate == Serial => (Spec => []DecidedOnce)
<1> SUFFICES ASSUME Serial
             PROVE  Spec => []DecidedOnce
  OBVIOUS
<1>1. Init => DisposedOnce
  BY DEF Init, DisposedOnce, Disposing
<1>2. GateInv /\ SerialCase /\ DisposedOnce /\ [Next]_vars => DisposedOnce'
  <2>1. DisposedOnce /\ UNCHANGED vars => DisposedOnce'
    BY DEF DisposedOnce, Active, vars, db, procs
  <2> QED  BY <2>1, DisposedStep
<1>3. DisposedOnce => DecidedOnce
  <2> SUFFICES ASSUME DisposedOnce
               PROVE  DecidedOnce
    OBVIOUS
  <2> DEFINE S == {r \in Requests : decided[r] \in {"approve", "edit", "reject"}}
  <2>1. CASE S = {}
    BY <2>1, FS_EmptySet DEF DecidedOnce
  <2>2. ASSUME NEW x \in S
        PROVE  DecidedOnce
    <3>1. S = {x}
      BY <2>2 DEF DisposedOnce, Disposing
    <3> QED  BY <3>1, FS_Singleton DEF DecidedOnce
  <2> QED  BY <2>1, <2>2
<1> QED  BY <1>1, <1>2, <1>3, SerialInvariant, PTL DEF Spec, Serial
==============================================================================
