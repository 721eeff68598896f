------------------------------ MODULE Dispatch ------------------------------
(***************************************************************************)
(* Delivering approved alerts: dispatch_alert and retry_delivery           *)
(* (backend/services/notifications.py), the background task around the     *)
(* first (backend/workers/notifications.py) and the endpoint around the    *)
(* second (backend/api/routes/notifications.py).                           *)
(*                                                                         *)
(* A dispatch is one transaction: its rows become visible when it commits, *)
(* the messages it sent went out before.  The unique dedupe key makes the  *)
(* insertion of a row wait for another transaction that holds the key.     *)
(***************************************************************************)
EXTENDS Integers, Sequences

CONSTANTS
  Approvals,      \* ids of human decisions alerts are dispatched under
  ChannelOrder,   \* settings.notification_channel_order
  Addresses,      \* settings.email_recipients
  Urgencies,      \* the triage priorities alerts come with
  MinPriority,    \* settings.notification_min_priority
  MaxAttempts,    \* settings.notification_max_attempts
  MaxDispatch,    \* how often one approval is dispatched
  Retries,        \* calls of POST /notifications/{id}/retry
  Faulty          \* may a transaction fail after messages went out?

_PRIORITY_RANK == [low |-> 0, medium |-> 1, high |-> 2, urgent |-> 3]

\* No channel is unknown, listed twice, or listed without anyone to write to.
_validate_notification_channels ==
  /\ \A i, j \in DOMAIN ChannelOrder : ChannelOrder[i] = ChannelOrder[j] => i = j
  /\ (\E i \in DOMAIN ChannelOrder : ChannelOrder[i] = "email") => Addresses # <<>>

ASSUME ChannelsKnown ==
  /\ ChannelOrder \in Seq({"slack", "email"})
  /\ Addresses \in Seq({Addresses[j] : j \in DOMAIN Addresses})
ASSUME ChannelsValid == _validate_notification_channels
ASSUME PrioritiesKnown ==
  Urgencies \cup {MinPriority} \subseteq DOMAIN _PRIORITY_RANK
ASSUME LimitsPositive == MaxAttempts \in Nat \ {0}
\* The decision endpoint schedules one task for its decision (background.add_task); the
\* dedupe keys are there for a re-run of it.
ASSUME DispatchedAtMostTwice == MaxDispatch \in 1..2
ASSUME FaultyBoolean == Faulty \in BOOLEAN

-----------------------------------------------------------------------------
(***************************************************************************)
(* Targets and tiers (services/notifications.py).                          *)
(***************************************************************************)
is_worth_alerting(priority) == _PRIORITY_RANK[priority] >= _PRIORITY_RANK[MinPriority]

\* The targets of a channel: everybody e-mail is sent to, or the one webhook.
resolve_targets(channel) ==
  IF channel = "slack"
  THEN << [channel |-> channel, recipient |-> "slack-webhook"] >>
  ELSE [j \in DOMAIN Addresses |-> [channel |-> channel, recipient |-> Addresses[j]]]

\* failover_plan: the tiers, in order.  No channel is listed twice, so that each is
\* a tier of its own.
Plan == [i \in DOMAIN ChannelOrder |-> resolve_targets(ChannelOrder[i])]

Targets == UNION {{Plan[k][j] : j \in DOMAIN Plan[k]} : k \in DOMAIN Plan}

-----------------------------------------------------------------------------
Tasks == Approvals \X (1..MaxDispatch)   \* the n-th dispatch under an approval

Authorities == {"approve", "reject",  \* a decision on this investigation
                "foreign",            \* a decision on another one
                "missing"}            \* no decision at all

RowStatus == {"none", "pending", "sent", "failed", "dead_letter"}

VARIABLES
  authority,  \* what each approval id stands for
  urgency,    \* the priority of the alert under each approval id
  rows,       \* the committed notifications, by approval and target
  pc,         \* where each dispatch task is
  at,         \* the tier and the position in it the task works on
  tries,      \* sends on the current target
  sess,       \* the task's uncommitted rows ("none": untouched)
  attempted,  \* has the task an outcome for some target?
  reached,    \* has one of them been delivered?
  rpc,        \* where each retry request is
  rrow,       \* the row it retries, and the status it loaded
  rtries,     \* its sends
  delivered,  \* messages that arrived, by approval and target
  hit,        \* the targets each dispatch reached
  lost        \* the approvals under which a transaction failed

taskVars  == <<pc, at, tries, sess, attempted, reached>>
retryVars == <<rpc, rrow, rtries>>
outside   == <<delivered, hit, lost>>
vars == <<authority, urgency, rows, taskVars, retryVars, outside>>

NoRow  == [t \in Targets |-> "none"]
Loaded == [approval : Approvals, target : Targets, status : RowStatus]

TypeOK ==
  /\ authority \in [Approvals -> Authorities]
  /\ urgency \in [Approvals -> Urgencies]
  /\ rows \in [Approvals -> [Targets -> RowStatus \ {"pending"}]]
  /\ pc \in [Tasks -> {"idle", "next", "insert", "send", "commit", "done"}]
  /\ at \in [Tasks -> [tier : 1..(Len(Plan) + 1), pos : Nat \ {0}]]
  /\ tries \in [Tasks -> 0..(MaxAttempts - 1)]
  /\ sess \in [Tasks -> [Targets -> RowStatus]]
  /\ attempted \in [Tasks -> BOOLEAN]
  /\ reached \in [Tasks -> BOOLEAN]
  /\ rpc \in [Retries -> {"idle", "send", "delivered", "undelivered", "done"}]
  /\ rrow \in [Retries -> Loaded \cup {<<>>}]
  /\ rtries \in [Retries -> 0..(MaxAttempts - 1)]
  /\ delivered \in [Approvals -> [Targets -> Nat]]
  /\ hit \in [Tasks -> SUBSET Targets]
  /\ lost \subseteq Approvals

Init ==
  /\ authority \in [Approvals -> Authorities]
  /\ urgency \in [Approvals -> Urgencies]
  /\ rows = [a \in Approvals |-> NoRow]
  /\ pc = [d \in Tasks |-> "idle"]
  /\ at = [d \in Tasks |-> [tier |-> 1, pos |-> 1]]
  /\ tries = [d \in Tasks |-> 0]
  /\ sess = [d \in Tasks |-> NoRow]
  /\ attempted = [d \in Tasks |-> FALSE]
  /\ reached = [d \in Tasks |-> FALSE]
  /\ rpc = [q \in Retries |-> "idle"]
  /\ rrow = [q \in Retries |-> <<>>]
  /\ rtries = [q \in Retries |-> 0]
  /\ delivered = [a \in Approvals |-> [t \in Targets |-> 0]]
  /\ hit = [d \in Tasks |-> {}]
  /\ lost = {}

Goto(d, l) == pc' = [pc EXCEPT ![d] = l]

\* Variant for the mutants: the decision only has to exist.
VerifyExists(a) == authority[a] # "missing"

\* The decision exists, belongs to this investigation and is an approval.
verify_approval(a) == authority[a] = "approve"

-----------------------------------------------------------------------------
(***************************************************************************)
(* dispatch_alert in the background task deliver_alert.                    *)
(***************************************************************************)

\* An assumption on the callers: none of them dispatches an approval again, so the
\* repeated dispatches the dedupe key is for are not mixed with retries.
NotRetried(a) == \A q \in Retries : rpc[q] # "idle" => rrow[q].approval # a
Settled(a)    == \A d \in Tasks : d[1] = a => pc[d] \in {"idle", "done"}

\* Refused without an approval, suppressed below the priority floor, and not
\* attempted when no channel is configured: all of these end the task.
StartDispatch(d) ==
  /\ pc[d] = "idle"
  /\ NotRetried(d[1])
  /\ Goto(d, IF /\ verify_approval(d[1])
                /\ is_worth_alerting(urgency[d[1]])
                /\ Plan # <<>>
             THEN "next" ELSE "done")
  /\ UNCHANGED <<authority, urgency, rows, at, tries, sess, attempted, reached,
                 retryVars, outside>>

Target(d) == Plan[at[d].tier][at[d].pos]

\* The session sees its own rows and, beneath them, the committed ones.
View(d, t) == IF sess[d][t] # "none" THEN sess[d][t] ELSE rows[d[1]][t]

\* The position after the current one: the next of this tier or the next tier.
Following(d) ==
  IF at[d].pos < Len(Plan[at[d].tier])
  THEN [at[d] EXCEPT !.pos = @ + 1]
  ELSE [tier |-> at[d].tier + 1, pos |-> 1]

\* Variant for the mutants: a delivery does not end the failover.
NeverOver(d) == at[d].tier > Len(Plan)

\* No tier is left, or an earlier tier reached someone.
PlanOver(d) == at[d].tier > Len(Plan) \/ (at[d].pos = 1 /\ reached[d])

\* _deliver, the lookup by dedupe key: a SENT row is deduplicated, another one is
\* reused, and without one a row is inserted.
Lookup(d) ==
  /\ pc[d] = "next"
  /\ ~PlanOver(d)
  /\ LET v == View(d, Target(d)) IN
     /\ at' = IF v = "sent" THEN [at EXCEPT ![d] = Following(d)] ELSE at
     /\ Goto(d, CASE v = "sent" -> "next" [] v = "none" -> "insert" [] OTHER -> "send")
  /\ UNCHANGED <<authority, urgency, rows, tries, sess, attempted, reached,
                 retryVars, outside>>

\* Another open transaction has inserted the same dedupe key.
KeyHeld(d) ==
  \E e \in Tasks \ {d} : /\ e[1] = d[1]
                         /\ sess[e][Target(d)] # "none"
                         /\ rows[d[1]][Target(d)] = "none"

\* Variant for the mutants: no unique constraint on the dedupe key.
InsertUnchecked(d) ==
  /\ pc[d] = "insert"
  /\ sess' = [sess EXCEPT ![d][Target(d)] = "pending"]
  /\ Goto(d, "send")
  /\ UNCHANGED <<authority, urgency, rows, at, tries, attempted, reached,
                 retryVars, outside>>

\* The PENDING row: the insert waits for a transaction that holds the key, and
\* if that one committed it the flush raises and the whole dispatch rolls back.
InsertRow(d) ==
  /\ pc[d] = "insert"
  /\ ~KeyHeld(d)
  /\ IF rows[d[1]][Target(d)] = "none"
     THEN sess' = [sess EXCEPT ![d][Target(d)] = "pending"] /\ Goto(d, "send")
     ELSE sess' = [sess EXCEPT ![d] = NoRow] /\ Goto(d, "done")
  /\ UNCHANGED <<authority, urgency, rows, at, tries, attempted, reached,
                 retryVars, outside>>

\* A failed send is tried again on the same channel; a refusal is not.
Again(result, n) == result = "failed" /\ n + 1 < MaxAttempts

Arrived(a, t) == delivered' = [delivered EXCEPT ![a][t] = @ + 1]

\* One adapter.send and, unless it is tried again, the row's new status.
Send(d, result) ==
  /\ pc[d] = "send"
  /\ IF result = "delivered"
     THEN /\ Arrived(d[1], Target(d))
          /\ hit' = [hit EXCEPT ![d] = @ \cup {Target(d)}]
     ELSE UNCHANGED <<delivered, hit>>
  /\ IF Again(result, tries[d])
     THEN /\ tries' = [tries EXCEPT ![d] = @ + 1]
          /\ UNCHANGED <<pc, at, sess, attempted, reached>>
     ELSE /\ tries' = [tries EXCEPT ![d] = 0]
          /\ sess' = [sess EXCEPT ![d][Target(d)] =
                        IF result = "delivered" THEN "sent" ELSE "failed"]
          /\ attempted' = [attempted EXCEPT ![d] = TRUE]
          /\ reached' = [reached EXCEPT ![d] = @ \/ result = "delivered"]
          /\ at' = [at EXCEPT ![d] = Following(d)]
          /\ Goto(d, "next")
  /\ UNCHANGED <<authority, urgency, rows, retryVars, lost>>

\* Variants for the mutants: only the last target's row is dead-lettered, or none.
DeadLetterLast(d) ==
  [sess[d] EXCEPT ![Plan[Len(Plan)][Len(Plan[Len(Plan)])]] = "dead_letter"]

DeadLetterNothing(d) == sess[d]

\* Every FAILED row of the approval becomes a dead letter.
_dead_letter(d) ==
  [t \in Targets |-> IF View(d, t) = "failed" THEN "dead_letter" ELSE sess[d][t]]

\* The end of dispatch_alert: dead letters if something was attempted and
\* nobody was reached.
FinishDispatch(d) ==
  /\ pc[d] = "next"
  /\ PlanOver(d)
  /\ sess' = IF attempted[d] /\ ~reached[d]
             THEN [sess EXCEPT ![d] = _dead_letter(d)] ELSE sess
  /\ Goto(d, "commit")
  /\ UNCHANGED <<authority, urgency, rows, at, tries, attempted, reached,
                 retryVars, outside>>

CommitDispatch(d) ==
  /\ pc[d] = "commit"
  /\ rows' = [rows EXCEPT ![d[1]] = [t \in Targets |-> View(d, t)]]
  /\ sess' = [sess EXCEPT ![d] = NoRow]
  /\ Goto(d, "done")
  /\ UNCHANGED <<authority, urgency, at, tries, attempted, reached, retryVars,
                 outside>>

\* Any exception rolls the rows back; the messages stay sent.
DispatchFails(d) ==
  /\ Faulty
  /\ pc[d] \in {"next", "insert", "send", "commit"}
  /\ sess' = [sess EXCEPT ![d] = NoRow]
  /\ lost' = lost \cup {d[1]}
  /\ Goto(d, "done")
  /\ UNCHANGED <<authority, urgency, rows, at, tries, attempted, reached,
                 retryVars, delivered, hit>>

-----------------------------------------------------------------------------
(***************************************************************************)
(* retry_delivery in the request retry_notification.                       *)
(***************************************************************************)

\* A delivered row is refused, and so is one whose approval does not hold up.
StartRetry(q, a, t) ==
  /\ rpc[q] = "idle"
  /\ Settled(a)
  /\ rows[a][t] # "none"
  /\ rrow' = [rrow EXCEPT ![q] = [approval |-> a, target |-> t, status |-> rows[a][t]]]
  /\ rpc' = [rpc EXCEPT ![q] =
               IF rows[a][t] # "sent" /\ verify_approval(a) THEN "send" ELSE "done"]
  /\ UNCHANGED <<authority, urgency, rows, taskVars, rtries, outside>>

RetrySend(q, result) ==
  /\ rpc[q] = "send"
  /\ IF result = "delivered"
     THEN Arrived(rrow[q].approval, rrow[q].target)
     ELSE UNCHANGED delivered
  /\ IF Again(result, rtries[q])
     THEN rtries' = [rtries EXCEPT ![q] = @ + 1] /\ UNCHANGED rpc
     ELSE /\ rtries' = [rtries EXCEPT ![q] = 0]
          /\ rpc' = [rpc EXCEPT ![q] =
                       IF result = "delivered" THEN "delivered" ELSE "undelivered"]
  /\ UNCHANGED <<authority, urgency, rows, taskVars, rrow, hit, lost>>

\* Variants for the mutants: a failed retry writes the status it loaded, and a
\* successful one writes nothing.
RetryRewrites(q) ==
  /\ rpc[q] \in {"delivered", "undelivered"}
  /\ rows' = [rows EXCEPT ![rrow[q].approval][rrow[q].target] =
                IF rpc[q] = "delivered" THEN "sent" ELSE rrow[q].status]
  /\ rpc' = [rpc EXCEPT ![q] = "done"]
  /\ UNCHANGED <<authority, urgency, taskVars, rrow, rtries, outside>>

RetryForgets(q) ==
  /\ rpc[q] \in {"delivered", "undelivered"}
  /\ rpc' = [rpc EXCEPT ![q] = "done"]
  /\ UNCHANGED <<authority, urgency, rows, taskVars, rrow, rtries, outside>>

\* A failed retry leaves FAILED or DEAD_LETTER as the session loaded it, which
\* is no change and writes nothing.
CommitRetry(q) ==
  /\ rpc[q] \in {"delivered", "undelivered"}
  /\ rows' = IF rpc[q] = "delivered"
             THEN [rows EXCEPT ![rrow[q].approval][rrow[q].target] = "sent"]
             ELSE rows
  /\ rpc' = [rpc EXCEPT ![q] = "done"]
  /\ UNCHANGED <<authority, urgency, taskVars, rrow, rtries, outside>>

RetryFails(q) ==
  /\ Faulty
  /\ rpc[q] \in {"send", "delivered", "undelivered"}
  /\ rpc' = [rpc EXCEPT ![q] = "done"]
  /\ lost' = lost \cup {rrow[q].approval}
  /\ UNCHANGED <<authority, urgency, rows, taskVars, rrow, rtries, delivered, hit>>

-----------------------------------------------------------------------------
Results == {"delivered", "failed", "refused"}

TaskStep(d) ==
  \/ StartDispatch(d) \/ Lookup(d) \/ InsertRow(d)
  \/ \E result \in Results : Send(d, result)
  \/ FinishDispatch(d) \/ CommitDispatch(d) \/ DispatchFails(d)

RetryStep(q) ==
  \/ \E result \in Results : RetrySend(q, result)
  \/ CommitRetry(q) \/ RetryFails(q)

Next ==
  \/ \E d \in Tasks : TaskStep(d)
  \/ \E q \in Retries : RetryStep(q)
  \/ \E q \in Retries, a \in Approvals, t \in Targets : StartRetry(q, a, t)

Spec == Init /\ [][Next]_vars

\* Background tasks and accepted retries run on; nobody has to ask for a retry.
FairSpec ==
  /\ Spec
  /\ \A d \in Tasks : WF_vars(TaskStep(d))
  /\ \A q \in Retries : WF_vars(RetryStep(q))

-----------------------------------------------------------------------------
Active(d) == pc[d] \in {"next", "insert", "send", "commit"}

\* No message arrives, by dispatch or by retry, unless the decision it cites
\* exists, is about this investigation and is an approval (verify_approval).
OnlyApprovedArrives ==
  \A a \in Approvals, t \in Targets : delivered[a][t] > 0 => authority[a] = "approve"

\* Two channels deliver under one approval only by two dispatches, the second of which
\* delivers when the first is over: within a dispatch the next channel is tried only if
\* the one before reached nobody, and while a dispatch is under way the unique key
\* makes another one wait.  Such a second dispatch passes over the SENT rows of the
\* first without counting anybody as reached and goes on to the fallback channel,
\* although a re-run is called a no-op (services/notifications.py:20-21).
SecondChannelIsARerun ==
  \A d, e \in Tasks : \A t \in hit[d], u \in hit[e] :
    (d[1] = e[1] /\ t.channel # u.channel) => d # e /\ ~(Active(d) /\ Active(e))

\* Repeated and overlapping dispatches of an approval deliver to a target once: the
\* dedupe key holds unless a transaction failed after its messages went out.
DispatchedOnce ==
  \A d, e \in Tasks :
    (d # e /\ d[1] = e[1] /\ d[1] \notin lost) => hit[d] \cap hit[e] = {}

\* An alert on record that reached nobody is a dead letter in full, and a dead
\* letter is an alert that some dispatch could not deliver to anybody.
DeadLetterMeansNobody ==
  \A a \in Approvals :
    /\ (\E t \in Targets : rows[a][t] # "none")
       /\ (\A t \in Targets : rows[a][t] # "sent")
         => \A t \in Targets : rows[a][t] = "dead_letter"
    /\ (\E t \in Targets : rows[a][t] = "dead_letter")
         => \E d \in Tasks : d[1] = a /\ pc[d] = "done" /\ hit[d] = {}

\* A delivery on record stays on record, however late a failing retry commits.
SentStaysSent ==
  [][\A a \in Approvals, t \in Targets :
       rows[a][t] = "sent" => rows'[a][t] = "sent"]_vars

\* Once the tasks and retries are over, what arrived is on record as sent, unless
\* a transaction failed.
ArrivedIsRecorded ==
  (/\ \A d \in Tasks : pc[d] \in {"idle", "done"}
   /\ \A q \in Retries : rpc[q] \in {"idle", "done"})
    => \A a \in Approvals \ lost, t \in Targets :
         delivered[a][t] > 0 => rows[a][t] = "sent"

(***************************************************************************)
(* Why, as parts of one inductive invariant.                               *)
(***************************************************************************)
\* The committed rows of the task's approval.
Committed(d) == rows[d[1]]

\* Whoever acts does so under an approval, and nobody retries what is dispatched.
Authorised ==
  /\ \A d \in Tasks : Active(d) => authority[d[1]] = "approve"
  /\ \A q \in Retries : rpc[q] # "idle" => rrow[q] \in Loaded /\ Settled(rrow[q].approval)
  /\ \A q \in Retries : rpc[q] \in {"send", "delivered", "undelivered"} =>
       authority[rrow[q].approval] = "approve" /\ rows[rrow[q].approval][rrow[q].target] # "none"

\* A task is at a target of the plan or at its end, and where it is and what it has
\* done fit together.
TaskInStep(d) ==
  /\ \/ at[d].tier = Len(Plan) + 1 /\ at[d].pos = 1 /\ pc[d] \notin {"insert", "send"}
     \/ at[d].tier \in DOMAIN Plan /\ at[d].pos \in DOMAIN Plan[at[d].tier]
  /\ pc[d] \in {"insert", "send"} /\ at[d].pos = 1 => ~reached[d]
  /\ pc[d] = "commit" => at[d].pos = 1 /\ (reached[d] \/ at[d].tier = Len(Plan) + 1)
  /\ pc[d] = "idle" => hit[d] = {} /\ at[d] = [tier |-> 1, pos |-> 1]
  /\ reached[d] <=> hit[d] # {}
  /\ \A t \in hit[d] : at[d].pos > 1 => t.channel = Target(d).channel

\* The rows of its session say what a task has done.
SessionInStep(d) ==
  /\ ~Active(d) => sess[d] = NoRow
  /\ \A t \in Targets :
       /\ Active(d) => (t \in hit[d] <=> sess[d][t] = "sent")
       /\ sess[d][t] = "pending" => pc[d] = "send" /\ t = Target(d)
       /\ sess[d][t] = "dead_letter" => pc[d] = "commit" /\ ~reached[d]
       /\ ~attempted[d] => sess[d][t] \in {"none", "pending"}
       /\ pc[d] = "commit" /\ attempted[d] /\ ~reached[d] => View(d, t) # "failed"
       /\ Active(d) /\ Committed(d)[t] = "sent" => sess[d][t] = "none"
  /\ pc[d] = "insert" => sess[d][Target(d)] = "none"
  /\ pc[d] = "send" => View(d, Target(d)) \notin {"none", "sent"}

\* What a task has passed has a row, and what lies ahead of it is untouched; within
\* a tier it goes on inserting only while it alone holds the tier's first key.
KeysInOrder(d) ==
  /\ Active(d) => \A k \in DOMAIN Plan : \A j \in DOMAIN Plan[k] :
       /\ k < at[d].tier \/ (k = at[d].tier /\ j < at[d].pos) => View(d, Plan[k][j]) # "none"
       /\ k > at[d].tier \/ (k = at[d].tier /\ at[d].pos = 1 /\ pc[d] # "send")
            => sess[d][Plan[k][j]] = "none"
  /\ pc[d] = "insert" /\ at[d].pos > 1 => Committed(d)[Plan[at[d].tier][1]] = "none"

\* A tier is committed as a whole, by a task that is over.
TiersCommitted ==
  \A a \in Approvals :
    /\ \A k \in DOMAIN Plan : \A i, j \in DOMAIN Plan[k] :
         rows[a][Plan[k][i]] = "none" => rows[a][Plan[k][j]] = "none"
    /\ (\E t \in Targets : rows[a][t] # "none") => \E f \in Tasks : f[1] = a /\ pc[f] = "done"

\* Two tasks have an uncommitted row for one key only if it was on record before.
KeyUnique ==
  \A d, e \in Tasks : \A t \in Targets :
    d # e /\ d[1] = e[1] /\ sess[d][t] # "none" /\ sess[e][t] # "none" => Committed(d)[t] # "none"

\* What arrived is on record, is about to be, or was lost with its transaction.
Accounted ==
  /\ \A d \in Tasks : pc[d] = "done" => \A t \in hit[d] : d[1] \in lost \/ Committed(d)[t] = "sent"
  /\ \A a \in Approvals \ lost : \A t \in Targets : delivered[a][t] > 0 =>
       \/ rows[a][t] = "sent"
       \/ \E d \in Tasks : d[1] = a /\ t \in hit[d]
       \/ \E q \in Retries : rpc[q] = "delivered" /\ rrow[q].approval = a /\ rrow[q].target = t

\* At every moment of any overlap of tasks and retries: the state is well formed,
\* whatever arrived had an approval of this investigation behind it, and sessions,
\* keys and committed rows are in step.
DispatchInv ==
  /\ TypeOK
  /\ OnlyApprovedArrives
  /\ Authorised
  /\ \A d \in Tasks : TaskInStep(d) /\ SessionInStep(d) /\ KeysInOrder(d)
  /\ TiersCommitted
  /\ KeyUnique
  /\ Accounted

\* An approved alert above the floor ends delivered or as a dead letter, unless a
\* transaction failed.
AlertSettles ==
  \A a \in Approvals :
    (authority[a] = "approve" /\ is_worth_alerting(urgency[a]))
      ~> (a \in lost \/ \E t \in Targets : rows[a][t] \in {"sent", "dead_letter"})
=============================================================================
