--------------------------- MODULE DispatchProofs ---------------------------
(***************************************************************************)
(* Delivery of approved alerts, for any channels, recipients, approvals    *)
(* and retries: the inductive invariant of Dispatch and what follows.      *)
(***************************************************************************)
EXTENDS Dispatch, SequenceTheorems, TLAPS

\* The plan: every listed channel is a tier of at least one target, tiers have no
\* target in common, and every target is on one of them.
LEMMA PlanFacts ==
  /\ Len(Plan) \in Nat /\ DOMAIN Plan = 1..Len(Plan)
  /\ \A k \in DOMAIN Plan : Len(Plan[k]) \in Nat \ {0} /\ DOMAIN Plan[k] = 1..Len(Plan[k])
  /\ \A k \in DOMAIN Plan : \A j \in DOMAIN Plan[k] :
       Plan[k][j] \in Targets /\ Plan[k][j].channel = ChannelOrder[k]
  /\ \A k, l \in DOMAIN Plan : \A i \in DOMAIN Plan[k] : \A j \in DOMAIN Plan[l] :
       Plan[k][i] = Plan[l][j] => k = l
  /\ \A t \in Targets : \E k \in DOMAIN Plan : \E j \in DOMAIN Plan[k] : t = Plan[k][j]
  /\ Plan # <<>> => Len(Plan) >= 1
<1>1. Len(ChannelOrder) \in Nat /\ DOMAIN ChannelOrder = 1..Len(ChannelOrder)
  BY ChannelsKnown, LenProperties
<1>2. Len(Addresses) \in Nat /\ DOMAIN Addresses = 1..Len(Addresses)
  BY ChannelsKnown, LenProperties
<1>3. DOMAIN Plan = 1..Len(ChannelOrder) /\ \A k \in DOMAIN Plan : Plan[k] = resolve_targets(ChannelOrder[k])
  BY <1>1 DEF Plan
<1>4. Plan \in Seq({Plan[k] : k \in DOMAIN Plan}) /\ Len(Plan) = Len(ChannelOrder)
  <2>1. Plan \in [1..Len(ChannelOrder) -> {Plan[k] : k \in DOMAIN Plan}]
    BY <1>1 DEF Plan
  <2> QED  BY <1>1, <2>1, IsASeq
<1>5. ASSUME NEW k \in DOMAIN Plan
      PROVE  /\ Len(Plan[k]) \in Nat \ {0} /\ DOMAIN Plan[k] = 1..Len(Plan[k])
             /\ \A j \in DOMAIN Plan[k] : Plan[k][j].channel = ChannelOrder[k]
  <2>1. CASE ChannelOrder[k] = "slack"
    <3>1. PICK w : Plan[k] = <<w>> /\ w.channel = "slack"
      BY <1>3, <1>5, <2>1 DEF resolve_targets
    <3>2. Len(Plan[k]) = 1 /\ DOMAIN Plan[k] = 1..1 /\ Plan[k][1] = w
      BY <3>1
    <3> QED  BY <2>1, <3>1, <3>2
  <2>2. CASE ChannelOrder[k] # "slack"
    <3>1. ChannelOrder[k] = "email" /\ k \in DOMAIN ChannelOrder
      BY <1>1, <1>3, <1>5, <2>2, ChannelsKnown
    <3>2. Len(Addresses) # 0
      BY <1>2, <3>1, ChannelsKnown, ChannelsValid, EmptySeq DEF _validate_notification_channels
    <3>3. Plan[k] = [j \in 1..Len(Addresses) |-> [channel |-> ChannelOrder[k], recipient |-> Addresses[j]]]
      BY <1>2, <1>3, <1>5, <2>2 DEF resolve_targets
    <3>4. Plan[k] \in Seq({Plan[k][j] : j \in 1..Len(Addresses)}) /\ Len(Plan[k]) = Len(Addresses)
      BY <1>2, <3>3, IsASeq
    <3> QED  BY <1>2, <3>2, <3>3, <3>4
  <2> QED  BY <2>1, <2>2
<1>6. \A k \in DOMAIN Plan : \A j \in DOMAIN Plan[k] : Plan[k][j] \in Targets
  BY DEF Targets
<1>7. \A t \in Targets : \E k \in DOMAIN Plan : \E j \in DOMAIN Plan[k] : t = Plan[k][j]
  BY DEF Targets
<1>8. \A k, l \in DOMAIN Plan : ChannelOrder[k] = ChannelOrder[l] => k = l
  BY <1>1, <1>3, ChannelsValid DEF _validate_notification_channels
<1>9. Plan # <<>> => Len(Plan) >= 1
  BY <1>1, <1>4, EmptySeq
<1>10. \A k, l \in DOMAIN Plan : \A i \in DOMAIN Plan[k] : \A j \in DOMAIN Plan[l] :
         Plan[k][i] = Plan[l][j] => k = l
  BY <1>5, <1>8
<1> QED  BY <1>1, <1>3, <1>4, <1>5, <1>6, <1>7, <1>9, <1>10

\* A task is under one approval, and an approval has no third task.
LEMMA TaskFacts ==
  /\ \A d \in Tasks : d[1] \in Approvals
  /\ \A d, e, f \in Tasks : d[1] = e[1] /\ e[1] = f[1] => d = e \/ e = f \/ d = f
<1>1. \A d \in Tasks : d[1] \in Approvals /\ d[2] \in 1..2 /\ d = <<d[1], d[2]>>
  BY DispatchedAtMostTwice DEF Tasks
<1> QED  BY <1>1

\* The position that follows a target of the plan.
LEMMA FollowingFacts ==
  ASSUME TypeOK, NEW d \in Tasks,
         at[d].tier \in DOMAIN Plan, at[d].pos \in DOMAIN Plan[at[d].tier]
  PROVE  /\ Following(d) \in [tier : 1..(Len(Plan) + 1), pos : Nat \ {0}]
         /\ \/ /\ Following(d).tier = at[d].tier /\ Following(d).pos = at[d].pos + 1
               /\ Following(d).pos \in DOMAIN Plan[at[d].tier]
            \/ /\ Following(d).tier = at[d].tier + 1 /\ Following(d).pos = 1
               /\ at[d].pos = Len(Plan[at[d].tier])
               /\ Following(d).tier = Len(Plan) + 1
                  \/ (Following(d).tier \in DOMAIN Plan /\ Following(d).pos \in DOMAIN Plan[Following(d).tier])
<1>1. at[d] \in [tier : 1..(Len(Plan) + 1), pos : Nat \ {0}]
  BY DEF TypeOK
<1>2. PICK k, j : at[d].tier = k /\ at[d].pos = j /\ k \in 1..Len(Plan) /\ j \in 1..Len(Plan[k])
  BY ZenonT(60), PlanFacts
<1>3. Len(Plan) \in Nat /\ Len(Plan[k]) \in Nat \ {0} /\ DOMAIN Plan[k] = 1..Len(Plan[k])
  BY <1>2, PlanFacts
<1>4. CASE j < Len(Plan[k])
  <2>1. Following(d) = [at[d] EXCEPT !.pos = @ + 1]
    BY <1>2, <1>4 DEF Following
  <2>2. Following(d).tier = k /\ Following(d).pos = j + 1 /\ Following(d) \in [tier : 1..(Len(Plan) + 1), pos : Nat \ {0}]
    BY <1>1, <1>2, <1>3, <2>1
  <2>3. j + 1 \in 1..Len(Plan[k])
    BY <1>2, <1>3, <1>4
  <2> QED  BY <1>2, <1>3, <2>2, <2>3
<1>5. CASE ~(j < Len(Plan[k]))
  <2>1. Following(d) = [tier |-> k + 1, pos |-> 1] /\ j = Len(Plan[k])
    BY <1>2, <1>3, <1>5 DEF Following
  <2>2. Following(d).tier = k + 1 /\ Following(d).pos = 1 /\ Following(d) \in [tier : 1..(Len(Plan) + 1), pos : Nat \ {0}]
    BY <1>2, <1>3, <2>1
  <2>3. k + 1 # Len(Plan) + 1 => k + 1 \in DOMAIN Plan /\ 1 \in DOMAIN Plan[k + 1]
    <3>1. k + 1 # Len(Plan) + 1 => k + 1 \in 1..Len(Plan)
      BY <1>2, <1>3
    <3> QED  BY <3>1, PlanFacts
  <2> QED  BY <1>2, <2>1, <2>2, <2>3
<1> QED  BY <1>4, <1>5

\* Going on, a task leaves one more target behind and has nothing new ahead.
LEMMA Advance ==
  ASSUME TypeOK, NEW d \in Tasks,
         at[d].tier \in DOMAIN Plan, at[d].pos \in DOMAIN Plan[at[d].tier],
         NEW k \in DOMAIN Plan, NEW j \in DOMAIN Plan[k]
  PROVE  /\ k < Following(d).tier \/ (k = Following(d).tier /\ j < Following(d).pos) =>
              k < at[d].tier \/ (k = at[d].tier /\ (j < at[d].pos \/ j = at[d].pos))
         /\ k > Following(d).tier \/ (k = Following(d).tier /\ Following(d).pos = 1) => k > at[d].tier
<1>0. at[d].tier \in 1..Len(Plan) /\ at[d].pos \in 1..Len(Plan[at[d].tier])
  BY PlanFacts
<1>1. PICK k0, j0 : at[d].tier = k0 /\ at[d].pos = j0 /\ k0 \in 1..Len(Plan) /\ j0 \in 1..Len(Plan[k0])
  BY <1>0
<1>2. Len(Plan) \in Nat /\ k \in 1..Len(Plan) /\ Len(Plan[k]) \in Nat /\ j \in 1..Len(Plan[k]) /\ Len(Plan[k0]) \in Nat
  BY <1>1, PlanFacts
<1>3. CASE Following(d).tier = k0 /\ Following(d).pos = j0 + 1
  BY <1>1, <1>2, <1>3
<1>4. CASE Following(d).tier = k0 + 1 /\ Following(d).pos = 1 /\ j0 = Len(Plan[k0])
  <2>1. ~(j < 1)
    BY <1>2
  <2>2. k < k0 + 1 => k < k0 \/ k = k0
    BY <1>1, <1>2
  <2>3. k = k0 => j < j0 \/ j = j0
    BY <1>1, <1>2, <1>4
  <2>4. k > k0 + 1 \/ k = k0 + 1 => k > k0
    BY <1>1, <1>2
  <2> QED  BY <1>1, <1>4, <2>1, <2>2, <2>3, <2>4
<1> QED  BY <1>1, <1>3, <1>4, FollowingFacts

\* A task that is not at the end is at a target.
LEMMA TargetFacts ==
  ASSUME TypeOK, NEW d \in Tasks, TaskInStep(d), pc[d] \in {"insert", "send"} \/ (pc[d] = "next" /\ ~PlanOver(d))
  PROVE  /\ at[d].tier \in DOMAIN Plan /\ at[d].pos \in DOMAIN Plan[at[d].tier]
         /\ Target(d) \in Targets
         /\ at[d].pos = 1 => ~reached[d]
         /\ Target(d).channel = ChannelOrder[at[d].tier]
<1>1. at[d].tier \in DOMAIN Plan /\ at[d].pos \in DOMAIN Plan[at[d].tier]
  BY PlanFacts DEF TaskInStep, PlanOver
<1>2. at[d].pos = 1 => ~reached[d]
  BY DEF TaskInStep, PlanOver
<1> QED  BY <1>1, <1>2, PlanFacts DEF Target

\* A step of a task leaves the other tasks, the retries and the decisions alone; rows
\* change when it commits, and only those of its approval.
LEMMA TaskFrame ==
  ASSUME TypeOK, NEW d \in Tasks, TaskStep(d)
  PROVE  /\ \A e \in Tasks \ {d} :
              /\ pc'[e] = pc[e] /\ at'[e] = at[e] /\ sess'[e] = sess[e]
              /\ hit'[e] = hit[e] /\ (attempted'[e] <=> attempted[e]) /\ (reached'[e] <=> reached[e])
         /\ authority' = authority /\ rpc' = rpc /\ rrow' = rrow
         /\ \A a \in Approvals : a # d[1] => rows'[a] = rows[a] /\ delivered'[a] = delivered[a]
         /\ pc[d] # "commit" => rows' = rows
         /\ lost \subseteq lost' /\ lost' \subseteq lost \cup {d[1]}
         /\ pc[d] # "done" /\ pc'[d] # "idle"
<1> DEFINE Framed ==
         /\ \A e \in Tasks \ {d} :
              /\ pc'[e] = pc[e] /\ at'[e] = at[e] /\ sess'[e] = sess[e]
              /\ hit'[e] = hit[e] /\ (attempted'[e] <=> attempted[e]) /\ (reached'[e] <=> reached[e])
         /\ authority' = authority /\ rpc' = rpc /\ rrow' = rrow
         /\ \A a \in Approvals : a # d[1] => rows'[a] = rows[a] /\ delivered'[a] = delivered[a]
         /\ pc[d] # "commit" => rows' = rows
         /\ lost \subseteq lost' /\ lost' \subseteq lost \cup {d[1]}
         /\ pc[d] # "done" /\ pc'[d] # "idle"
<1> SUFFICES Framed
  OBVIOUS
<1> USE DEF TypeOK, retryVars, outside, Goto
<1>1. CASE StartDispatch(d)
  BY <1>1 DEF StartDispatch
<1>2. CASE Lookup(d)
  BY <1>2 DEF Lookup
<1>3. CASE InsertRow(d)
  BY <1>3 DEF InsertRow
<1>4. ASSUME NEW result \in Results, Send(d, result)
      PROVE  Framed
  <2>1. /\ authority' = authority /\ rpc' = rpc /\ rrow' = rrow /\ rows' = rows /\ lost' = lost
        /\ pc[d] = "send" /\ (pc' = pc \/ pc' = [pc EXCEPT ![d] = "next"])
    BY <1>4 DEF Send
  <2>2. \A a \in Approvals : a # d[1] => delivered'[a] = delivered[a]
    BY <1>4 DEF Send, Arrived
  <2>3. \A e \in Tasks \ {d} : at'[e] = at[e] /\ sess'[e] = sess[e] /\ hit'[e] = hit[e]
    BY <1>4 DEF Send
  <2>4. \A e \in Tasks \ {d} : attempted'[e] <=> attempted[e]
    BY <1>4 DEF Send
  <2>5. \A e \in Tasks \ {d} : reached'[e] <=> reached[e]
    BY <1>4 DEF Send
  <2> QED  BY <2>1, <2>2, <2>3, <2>4, <2>5
<1>5. CASE FinishDispatch(d)
  BY <1>5 DEF FinishDispatch
<1>6. CASE CommitDispatch(d)
  BY <1>6 DEF CommitDispatch
<1>7. CASE DispatchFails(d)
  BY <1>7 DEF DispatchFails
<1> QED  BY <1>1, <1>2, <1>3, <1>4, <1>5, <1>6, <1>7 DEF TaskStep

\* A commit writes a settled status for every target.
LEMMA ViewType ==
  ASSUME TypeOK, NEW d \in Tasks, SessionInStep(d), NEW t \in Targets
  PROVE  /\ View(d, t) \in RowStatus
         /\ pc[d] # "send" => View(d, t) \in RowStatus \ {"pending"}
<1>1. sess[d][t] \in RowStatus /\ rows[d[1]][t] \in RowStatus \ {"pending"}
  BY TaskFacts DEF TypeOK
<1>2. pc[d] # "send" => sess[d][t] # "pending"
  BY DEF SessionInStep
<1> QED  BY <1>1, <1>2 DEF View

-----------------------------------------------------------------------------
(***************************************************************************)
(* The state stays well formed.                                            *)
(***************************************************************************)
LEMMA TaskType ==
  ASSUME TypeOK, NEW d \in Tasks, TaskInStep(d), SessionInStep(d), TaskStep(d)
  PROVE  TypeOK'
<1> USE DEF TypeOK, retryVars, outside, Goto
<1>0. NoRow \in [Targets -> RowStatus] /\ d[1] \in Approvals
  BY TaskFacts DEF NoRow, RowStatus
<1>1. CASE StartDispatch(d)
  BY <1>1 DEF StartDispatch
<1>2. CASE Lookup(d)
  <2>1. Following(d) \in [tier : 1..(Len(Plan) + 1), pos : Nat \ {0}]
    BY <1>2, TargetFacts, FollowingFacts DEF Lookup
  <2> HIDE DEF View
  <2>2. at' \in [Tasks -> [tier : 1..(Len(Plan) + 1), pos : Nat \ {0}]]
    BY <1>2, <2>1 DEF Lookup
  <2>3. PICK v : pc' = [pc EXCEPT ![d] = CASE v = "sent" -> "next" [] v = "none" -> "insert" [] OTHER -> "send"]
    BY <1>2 DEF Lookup
  <2>4. pc' \in [Tasks -> {"idle", "next", "insert", "send", "commit", "done"}]
    BY <2>3
  <2> QED  BY <1>2, <2>2, <2>4 DEF Lookup
<1>3. CASE InsertRow(d)
  <2>1. sess' \in [Tasks -> [Targets -> RowStatus]]
    <3>1. sess' = [sess EXCEPT ![d][Target(d)] = "pending"] \/ sess' = [sess EXCEPT ![d] = NoRow]
      BY <1>3 DEF InsertRow
    <3>2. "pending" \in RowStatus
      BY DEF RowStatus
    <3>3. sess \in [Tasks -> [Targets -> RowStatus]]
      OBVIOUS
    <3> HIDE DEF TypeOK
    <3>4. [sess[d] EXCEPT ![Target(d)] = "pending"] \in [Targets -> RowStatus]
      BY <3>2, <3>3
    <3> QED  BY <1>0, <3>1, <3>3, <3>4
  <2> QED  BY <1>3, <2>1 DEF InsertRow
<1>4. ASSUME NEW result \in Results, Send(d, result)
      PROVE  TypeOK'
  <2>1. /\ Following(d) \in [tier : 1..(Len(Plan) + 1), pos : Nat \ {0}]
        /\ Target(d) \in Targets /\ pc[d] = "send"
    BY <1>4, TargetFacts, FollowingFacts DEF Send
  <2>2. delivered' \in [Approvals -> [Targets -> Nat]]
    <3>1. delivered' = delivered \/ delivered' = [delivered EXCEPT ![d[1]][Target(d)] = delivered[d[1]][Target(d)] + 1]
      BY <1>4 DEF Send, Arrived
    <3>2. delivered \in [Approvals -> [Targets -> Nat]] /\ delivered[d[1]][Target(d)] \in Nat
      BY <1>0, <2>1
    <3> HIDE DEF TypeOK
    <3>3. [delivered[d[1]] EXCEPT ![Target(d)] = delivered[d[1]][Target(d)] + 1] \in [Targets -> Nat]
      <4>1. delivered[d[1]][Target(d)] + 1 \in Nat /\ delivered[d[1]] \in [Targets -> Nat]
        BY <1>0, <3>2
      <4> QED  BY <4>1
    <3> QED  BY <1>0, <3>1, <3>2, <3>3
  <2>3. hit' \in [Tasks -> SUBSET Targets]
    <3>1. hit' = hit \/ hit' = [hit EXCEPT ![d] = hit[d] \cup {Target(d)}]
      BY <1>4 DEF Send
    <3>2. hit \in [Tasks -> SUBSET Targets]
      OBVIOUS
    <3> HIDE DEF TypeOK
    <3> QED  BY <2>1, <3>1, <3>2
  <2>4. at' \in [Tasks -> [tier : 1..(Len(Plan) + 1), pos : Nat \ {0}]]
    BY <1>4, <2>1 DEF Send
  <2>5. tries' \in [Tasks -> 0..(MaxAttempts - 1)]
    BY SMTT(30), <1>4, LimitsPositive DEF Send, Again
  <2>6. sess' \in [Tasks -> [Targets -> RowStatus]]
    <3>1. sess' = sess \/ \E v \in {"sent", "failed"} : sess' = [sess EXCEPT ![d][Target(d)] = v]
      BY <1>4 DEF Send
    <3>2. {"sent", "failed"} \subseteq RowStatus
      BY DEF RowStatus
    <3>3. sess \in [Tasks -> [Targets -> RowStatus]]
      OBVIOUS
    <3> HIDE DEF TypeOK
    <3>4. \A v \in {"sent", "failed"} : [sess[d] EXCEPT ![Target(d)] = v] \in [Targets -> RowStatus]
      BY <3>2, <3>3
    <3> QED  BY <3>1, <3>3, <3>4
  <2>7. attempted' \in [Tasks -> BOOLEAN]
    BY <1>4 DEF Send
  <2>8. reached' \in [Tasks -> BOOLEAN]
    <3>1. reached' = reached \/ \E b \in BOOLEAN : reached' = [reached EXCEPT ![d] = b]
      BY <1>4 DEF Send
    <3> QED  BY <3>1
  <2>9. pc' \in [Tasks -> {"idle", "next", "insert", "send", "commit", "done"}]
    BY <1>4 DEF Send
  <2> QED  BY <1>4, <2>2, <2>3, <2>4, <2>5, <2>6, <2>7, <2>8, <2>9 DEF Send
<1>5. CASE FinishDispatch(d)
  <2>1. _dead_letter(d) \in [Targets -> RowStatus]
    BY DEF _dead_letter, RowStatus
  <2>2. sess' \in [Tasks -> [Targets -> RowStatus]]
    BY <1>5, <2>1 DEF FinishDispatch
  <2> QED  BY <1>5, <2>2 DEF FinishDispatch
<1>6. CASE CommitDispatch(d)
  <2>1. \A t \in Targets : View(d, t) \in RowStatus \ {"pending"}
    BY <1>6, ViewType DEF CommitDispatch
  <2>2. rows' \in [Approvals -> [Targets -> RowStatus \ {"pending"}]]
    BY <1>6, <2>1 DEF CommitDispatch
  <2>3. sess' \in [Tasks -> [Targets -> RowStatus]]
    BY <1>0, <1>6 DEF CommitDispatch
  <2> QED  BY <1>6, <2>2, <2>3 DEF CommitDispatch
<1>7. CASE DispatchFails(d)
  <2>1. sess' \in [Tasks -> [Targets -> RowStatus]]
    BY <1>0, <1>7 DEF DispatchFails
  <2> QED  BY <1>0, <1>7, <2>1 DEF DispatchFails
<1> QED  BY <1>1, <1>2, <1>3, <1>4, <1>5, <1>6, <1>7 DEF TaskStep

\* What a step of a retry leaves alone.
LEMMA RetryFrame ==
  ASSUME TypeOK, Authorised,
         \/ \E q \in Retries : RetryStep(q)
         \/ \E q \in Retries, a \in Approvals, t \in Targets : StartRetry(q, a, t)
  PROVE  /\ TypeOK'
         /\ pc' = pc /\ at' = at /\ sess' = sess /\ attempted' = attempted /\ reached' = reached
         /\ authority' = authority /\ hit' = hit /\ lost \subseteq lost'
<1> DEFINE Framed ==
         /\ pc' = pc /\ at' = at /\ sess' = sess /\ attempted' = attempted /\ reached' = reached
         /\ authority' = authority /\ hit' = hit /\ lost \subseteq lost'
<1> SUFFICES TypeOK' /\ Framed
  OBVIOUS
<1> USE DEF TypeOK, taskVars, outside
<1>1. \A q \in Retries : rpc[q] # "idle" => rrow[q].approval \in Approvals /\ rrow[q].target \in Targets
  BY DEF Authorised, Loaded
<1>2. ASSUME NEW q \in Retries, NEW result \in Results, RetrySend(q, result)
      PROVE  TypeOK' /\ Framed
  <2>1. delivered' \in [Approvals -> [Targets -> Nat]]
    <3>1. PICK a \in Approvals, t \in Targets : rrow[q].approval = a /\ rrow[q].target = t
      BY <1>1, <1>2 DEF RetrySend
    <3>2. delivered' = delivered \/ delivered' = [delivered EXCEPT ![a][t] = delivered[a][t] + 1]
      BY <1>2, <3>1 DEF RetrySend, Arrived
    <3>3. delivered \in [Approvals -> [Targets -> Nat]] /\ delivered[a][t] + 1 \in Nat
      OBVIOUS
    <3> HIDE DEF TypeOK
    <3>4. [delivered[a] EXCEPT ![t] = delivered[a][t] + 1] \in [Targets -> Nat]
      BY <3>3
    <3> QED  BY <3>2, <3>3, <3>4
  <2>2. rtries' \in [Retries -> 0..(MaxAttempts - 1)]
    <3>1. MaxAttempts \in Nat \ {0} /\ rtries[q] \in 0..(MaxAttempts - 1)
      BY LimitsPositive
    <3>2. \/ rtries[q] + 1 < MaxAttempts /\ rtries' = [rtries EXCEPT ![q] = rtries[q] + 1]
          \/ rtries' = [rtries EXCEPT ![q] = 0]
      BY <1>2 DEF RetrySend, Again
    <3>3. rtries \in [Retries -> 0..(MaxAttempts - 1)]
      OBVIOUS
    <3> HIDE DEF TypeOK
    <3> QED  BY <3>1, <3>2, <3>3
  <2> QED  BY <1>2, <2>1, <2>2 DEF RetrySend
<1>3. ASSUME NEW q \in Retries, CommitRetry(q)
      PROVE  TypeOK' /\ Framed
  <2>1. rows' \in [Approvals -> [Targets -> RowStatus \ {"pending"}]]
    BY <1>1, <1>3 DEF CommitRetry, RowStatus
  <2> QED  BY <1>3, <2>1 DEF CommitRetry
<1>4. ASSUME NEW q \in Retries, RetryFails(q)
      PROVE  TypeOK' /\ Framed
  BY <1>1, <1>4 DEF RetryFails
<1>5. ASSUME NEW q \in Retries, NEW a \in Approvals, NEW t \in Targets, StartRetry(q, a, t)
      PROVE  TypeOK' /\ Framed
  <2>1. [approval |-> a, target |-> t, status |-> rows[a][t]] \in Loaded
    BY DEF Loaded
  <2> QED  BY <1>5, <2>1 DEF StartRetry
<1> QED  BY <1>2, <1>3, <1>4, <1>5 DEF RetryStep

-----------------------------------------------------------------------------
(***************************************************************************)
(* The task that takes the step.                                           *)
(***************************************************************************)

\* Where a task is and what it has done still fit together.
LEMMA OwnPlace ==
  ASSUME TypeOK, NEW d \in Tasks, TaskInStep(d), TaskStep(d)
  PROVE  TaskInStep(d)'
<1> DEFINE cell == at[d]
<1>0. /\ cell.tier \in 1..(Len(Plan) + 1) /\ cell.pos \in Nat \ {0} /\ reached[d] \in BOOLEAN
      /\ hit[d] \subseteq Targets
  BY DEF TypeOK
<1> USE DEF retryVars, outside, Goto
<1>1. CASE StartDispatch(d)
  <2>1. at' = at /\ reached' = reached /\ hit' = hit /\ Target(d)' = Target(d) /\ pc'[d] \in {"next", "done"}
    BY <1>1 DEF StartDispatch, Target, TypeOK
  <2> QED  BY <2>1 DEF TaskInStep
<1>2. CASE Lookup(d)
  <2>1. pc[d] = "next" /\ ~PlanOver(d) /\ reached' = reached /\ hit' = hit
    BY <1>2 DEF Lookup
  <2>2. \/ at' = at /\ pc'[d] \in {"insert", "send"}
        \/ at' = [at EXCEPT ![d] = Following(d)] /\ pc'[d] = "next"
    <3>1. CASE View(d, Target(d)) = "sent"
      BY <1>2, <3>1 DEF Lookup, TypeOK
    <3>2. CASE View(d, Target(d)) # "sent"
      BY <1>2, <3>2 DEF Lookup, TypeOK
    <3> QED  BY <3>1, <3>2
  <2>3. /\ cell.tier \in DOMAIN Plan /\ cell.pos \in DOMAIN Plan[cell.tier]
        /\ cell.pos = 1 => ~reached[d]
        /\ Target(d).channel = ChannelOrder[cell.tier]
    BY <2>1, TargetFacts
  <2>4. CASE at' = at /\ pc'[d] \in {"insert", "send"}
    <3>1. Target(d)' = Target(d)
      BY <2>4 DEF Target
    <3> QED  BY <2>1, <2>3, <2>4, <3>1 DEF TaskInStep
  <2>5. CASE at' = [at EXCEPT ![d] = Following(d)] /\ pc'[d] = "next"
    <3>1. at'[d] = Following(d)
      BY <2>5 DEF TypeOK
    <3>2. ASSUME at'[d].pos > 1, NEW t \in hit[d]
          PROVE  t.channel = Target(d)'.channel
      <4>1. at'[d].tier = cell.tier /\ at'[d].pos = cell.pos + 1 /\ at'[d].pos \in DOMAIN Plan[cell.tier]
        BY <2>3, <3>1, <3>2, FollowingFacts
      <4>2. Target(d)'.channel = ChannelOrder[cell.tier]
        BY SMTT(30), <2>3, <4>1, PlanFacts DEF Target
      <4>3. cell.pos # 1
        BY <2>3, <3>2 DEF TaskInStep
      <4> QED  BY <1>0, <2>3, <3>2, <4>2, <4>3 DEF TaskInStep
    <3>3. \/ at'[d].tier = Len(Plan) + 1 /\ at'[d].pos = 1
          \/ at'[d].tier \in DOMAIN Plan /\ at'[d].pos \in DOMAIN Plan[at'[d].tier]
      BY <2>3, <3>1, FollowingFacts
    <3> QED  BY <2>1, <2>5, <3>2, <3>3 DEF TaskInStep
  <2> QED  BY <2>2, <2>4, <2>5
<1>3. CASE InsertRow(d)
  <2>1. at' = at /\ reached' = reached /\ hit' = hit /\ Target(d)' = Target(d) /\ pc'[d] \in {"send", "done"} /\ pc[d] = "insert"
    BY <1>3 DEF InsertRow, Target, TypeOK
  <2> QED  BY <2>1 DEF TaskInStep
<1>4. ASSUME NEW result \in Results, Send(d, result)
      PROVE  TaskInStep(d)'
  <2>1. /\ pc[d] = "send"
        /\ cell.tier \in DOMAIN Plan /\ cell.pos \in DOMAIN Plan[cell.tier]
        /\ cell.pos = 1 => ~reached[d]
        /\ Target(d) \in Targets /\ Target(d).channel = ChannelOrder[cell.tier]
    BY <1>4, TargetFacts DEF Send
  <2>2. CASE Again(result, tries[d])
    <3>1. pc' = pc /\ at' = at /\ reached' = reached /\ hit' = hit /\ Target(d)' = Target(d)
      BY <1>4, <2>2 DEF Send, Target, Again
    <3> QED  BY <3>1 DEF TaskInStep
  <2>3. CASE ~Again(result, tries[d])
    <3>1. at'[d] = Following(d) /\ pc'[d] = "next"
      BY <1>4, <2>3 DEF Send, TypeOK
    <3>2. reached'[d] <=> reached[d] \/ result = "delivered"
      BY <1>4, <2>3 DEF Send, TypeOK
    <3>3. hit'[d] = IF result = "delivered" THEN hit[d] \cup {Target(d)} ELSE hit[d]
      BY <1>4 DEF Send, TypeOK
    <3>4. ASSUME at'[d].pos > 1, NEW t \in hit'[d]
          PROVE  t.channel = Target(d)'.channel
      <4>1. at'[d].tier = cell.tier /\ at'[d].pos = cell.pos + 1 /\ at'[d].pos \in DOMAIN Plan[cell.tier]
        BY <2>1, <3>1, <3>4, FollowingFacts
      <4>2. Target(d)'.channel = ChannelOrder[cell.tier]
        BY SMTT(30), <2>1, <4>1, PlanFacts DEF Target
      <4>3. t = Target(d) \/ (t \in hit[d] /\ cell.pos # 1)
        BY <2>1, <3>3, <3>4 DEF TaskInStep
      <4> QED  BY <1>0, <2>1, <3>4, <4>2, <4>3 DEF TaskInStep
    <3>5. \/ at'[d].tier = Len(Plan) + 1 /\ at'[d].pos = 1
          \/ at'[d].tier \in DOMAIN Plan /\ at'[d].pos \in DOMAIN Plan[at'[d].tier]
      BY <2>1, <3>1, FollowingFacts
    <3>6. reached'[d] <=> hit'[d] # {}
      BY <3>2, <3>3 DEF TaskInStep
    <3> QED  BY <3>1, <3>4, <3>5, <3>6 DEF TaskInStep
  <2> QED  BY <2>2, <2>3
<1>5. CASE FinishDispatch(d)
  <2>1. at' = at /\ reached' = reached /\ hit' = hit /\ Target(d)' = Target(d) /\ pc'[d] = "commit" /\ PlanOver(d)
    BY <1>5 DEF FinishDispatch, Target, TypeOK
  <2>2. cell.pos = 1 /\ (reached[d] \/ cell.tier = Len(Plan) + 1)
    BY <1>0, <2>1, PlanFacts DEF TaskInStep, PlanOver
  <2> QED  BY <2>1, <2>2 DEF TaskInStep
<1>6. CASE CommitDispatch(d) \/ DispatchFails(d)
  <2>1. at' = at /\ reached' = reached /\ hit' = hit /\ Target(d)' = Target(d) /\ pc'[d] = "done"
    BY <1>6 DEF CommitDispatch, DispatchFails, Target, TypeOK
  <2> QED  BY <2>1 DEF TaskInStep
<1> QED  BY <1>1, <1>2, <1>3, <1>4, <1>5, <1>6 DEF TaskStep

\* Its session still says what it has done.
LEMMA OwnSession ==
  ASSUME TypeOK, TypeOK', NEW d \in Tasks, TaskInStep(d), SessionInStep(d), TaskStep(d)
  PROVE  SessionInStep(d)'
<1> USE DEF retryVars, outside, Goto
<1>0. d[1] \in Approvals /\ NoRow' = NoRow /\ sess[d] \in [Targets -> RowStatus]
  BY TaskFacts DEF TypeOK, NoRow
<1>1. CASE pc'[d] = "done"
  <2>1. sess'[d] = NoRow
    <3>1. StartDispatch(d) => sess' = sess /\ pc[d] = "idle"
      BY DEF StartDispatch
    <3>2. InsertRow(d) /\ pc'[d] = "done" => sess'[d] = NoRow
      BY DEF InsertRow, TypeOK
    <3>3. CommitDispatch(d) \/ DispatchFails(d) => sess'[d] = NoRow
      BY DEF CommitDispatch, DispatchFails, TypeOK
    <3>4. ~Lookup(d) /\ ~FinishDispatch(d)
      BY <1>1 DEF Lookup, FinishDispatch, TypeOK
    <3>5. \A result \in Results : ~Send(d, result)
      BY <1>1 DEF Send, TypeOK
    <3> QED  BY <1>1, <3>1, <3>2, <3>3, <3>4, <3>5 DEF TaskStep, SessionInStep, Active
  <2>2. ~Active(d)'
    BY <1>1 DEF Active
  <2>3. \A t \in Targets : sess'[d][t] = "none"
    BY <2>1 DEF NoRow
  <2> QED  BY <1>0, <1>1, <2>1, <2>2, <2>3 DEF SessionInStep
<1>2. CASE StartDispatch(d) /\ pc'[d] # "done"
  <2>1. /\ pc[d] = "idle" /\ pc'[d] = "next" /\ sess' = sess /\ rows' = rows /\ hit' = hit
        /\ at' = at /\ attempted' = attempted /\ reached' = reached
    BY <1>2 DEF StartDispatch, TypeOK
  <2>2. \A t \in Targets : sess[d][t] = "none" /\ t \notin hit[d]
    BY <2>1 DEF SessionInStep, TaskInStep, Active, NoRow
  <2> QED  BY <2>1, <2>2 DEF SessionInStep, Active
<1>3. CASE Lookup(d)
  <2>1. pc[d] = "next" /\ sess' = sess /\ rows' = rows /\ hit' = hit /\ attempted' = attempted /\ reached' = reached
    BY <1>3 DEF Lookup
  <2>2. /\ pc'[d] \in {"next", "insert", "send"}
        /\ pc'[d] = "send" => at' = at /\ View(d, Target(d)) \notin {"none", "sent"}
    <3>1. CASE View(d, Target(d)) = "sent"
      BY <1>3, <3>1 DEF Lookup, TypeOK
    <3>2. CASE View(d, Target(d)) = "none"
      BY <1>3, <3>2 DEF Lookup, TypeOK
    <3>3. CASE View(d, Target(d)) \notin {"none", "sent"}
      BY <1>3, <3>3 DEF Lookup, TypeOK
    <3> QED  BY <3>1, <3>2, <3>3
  <2>3. \A t \in Targets : sess[d][t] \notin {"pending", "dead_letter"}
    BY SMTT(30), <2>1 DEF SessionInStep
  <2>4. pc'[d] = "send" => View(d, Target(d))' \notin {"none", "sent"}
    BY <2>1, <2>2 DEF View, Target
  <2>5. pc'[d] = "insert" => sess'[d][Target(d)'] = "none"
    <3>1. pc'[d] = "insert" => at' = at /\ View(d, Target(d)) = "none"
      BY <1>3 DEF Lookup, TypeOK
    <3> QED  BY <2>1, <3>1 DEF View, Target
  <2> QED  BY <2>1, <2>2, <2>3, <2>4, <2>5 DEF SessionInStep, Active, Committed
<1>4. CASE InsertRow(d) /\ pc'[d] # "done"
  <2>1. /\ pc[d] = "insert" /\ rows[d[1]][Target(d)] = "none" /\ pc'[d] = "send" /\ at' = at
        /\ rows' = rows /\ hit' = hit /\ attempted' = attempted /\ reached' = reached
        /\ sess'[d] = [sess[d] EXCEPT ![Target(d)] = "pending"]
    BY <1>4 DEF InsertRow, TypeOK
  <2>2. Target(d) \in Targets /\ Target(d)' = Target(d)
    BY <2>1, TargetFacts DEF Target
  <2>3. \A t \in Targets : sess'[d][t] = IF t = Target(d) THEN "pending" ELSE sess[d][t]
    BY <1>0, <2>1
  <2>4. Target(d) \notin hit[d] /\ sess[d][Target(d)] = "none"
    BY <2>1, <2>2 DEF SessionInStep, Active
  <2>5. \A t \in Targets : sess[d][t] \notin {"pending", "dead_letter"}
    BY <2>1 DEF SessionInStep
  <2>6. View(d, Target(d))' = "pending"
    BY <2>2, <2>3 DEF View
  <2> QED  BY <2>1, <2>2, <2>3, <2>4, <2>5, <2>6 DEF SessionInStep, Active, Committed
<1>5. ASSUME NEW result \in Results, Send(d, result)
      PROVE  SessionInStep(d)'
  <2>1. pc[d] = "send" /\ Target(d) \in Targets /\ rows' = rows
    BY <1>5, TargetFacts DEF Send
  <2>2. CASE Again(result, tries[d])
    <3>1. /\ pc' = pc /\ at' = at /\ sess' = sess /\ attempted' = attempted /\ reached' = reached /\ hit' = hit
          /\ Target(d)' = Target(d) /\ View(d, Target(d))' = View(d, Target(d))
      BY <1>5, <2>1, <2>2 DEF Send, Again, Target, View
    <3> QED  BY <2>1, <3>1 DEF SessionInStep, Active, Committed
  <2>3. CASE ~Again(result, tries[d])
    <3>1. pc'[d] = "next" /\ sess'[d] = [sess[d] EXCEPT ![Target(d)] = IF result = "delivered" THEN "sent" ELSE "failed"]
      BY <1>5, <2>3 DEF Send, TypeOK
    <3>2. attempted'[d] = TRUE
      BY <1>5, <2>3 DEF Send, TypeOK
    <3>3. hit'[d] = IF result = "delivered" THEN hit[d] \cup {Target(d)} ELSE hit[d]
      BY <1>5 DEF Send, TypeOK
    <3>4. \A t \in Targets : t # Target(d) => sess'[d][t] = sess[d][t] /\ sess[d][t] \notin {"pending", "dead_letter"}
      BY <1>0, <2>1, <3>1 DEF SessionInStep
    <3>5. sess'[d][Target(d)] = IF result = "delivered" THEN "sent" ELSE "failed"
      BY <1>0, <2>1, <3>1
    <3>6. View(d, Target(d)) # "sent"
      BY <2>1 DEF SessionInStep
    <3>7. Target(d) \notin hit[d] /\ Committed(d)[Target(d)] # "sent"
      BY <2>1, <3>6 DEF SessionInStep, Active, View, Committed
    <3>8. \A t \in Targets : t \in hit'[d] <=> sess'[d][t] = "sent"
      BY <2>1, <3>3, <3>4, <3>5, <3>7 DEF SessionInStep, Active
    <3>9. \A t \in Targets : sess'[d][t] \notin {"pending", "dead_letter"}
      BY <3>4, <3>5
    <3>10. \A t \in Targets : Committed(d)'[t] = "sent" => sess'[d][t] = "none"
      BY <2>1, <3>4, <3>7 DEF SessionInStep, Active, Committed
    <3> QED  BY <3>1, <3>2, <3>8, <3>9, <3>10 DEF SessionInStep, Active
  <2> QED  BY <2>2, <2>3
<1>6. CASE FinishDispatch(d)
  <2>1. /\ pc[d] = "next" /\ pc'[d] = "commit" /\ rows' = rows /\ hit' = hit
        /\ attempted' = attempted /\ reached' = reached
    BY <1>6 DEF FinishDispatch, TypeOK
  <2>2. \A t \in Targets : sess[d][t] \notin {"pending", "dead_letter"}
    BY <2>1 DEF SessionInStep
  <2>3. CASE attempted[d] /\ ~reached[d]
    <3>1. \A t \in Targets : sess'[d][t] = IF View(d, t) = "failed" THEN "dead_letter" ELSE sess[d][t]
      BY <1>6, <2>3 DEF FinishDispatch, _dead_letter, TypeOK
    <3>2. \A t \in Targets : sess'[d][t] = "sent" <=> sess[d][t] = "sent"
      BY <3>1 DEF View
    <3>3. \A t \in Targets : Committed(d)'[t] = "sent" => sess'[d][t] = "none"
      BY <2>1, <3>1 DEF SessionInStep, Active, Committed, View
    <3>4. \A t \in Targets : View(d, t)' # "failed"
      BY <2>1, <3>1 DEF View
    <3>5. \A t \in Targets : sess'[d][t] # "pending"
      BY <2>2, <3>1
    <3> QED  BY <2>1, <2>3, <3>2, <3>3, <3>4, <3>5 DEF SessionInStep, Active
  <2>4. CASE ~(attempted[d] /\ ~reached[d])
    <3>1. sess' = sess
      BY <1>6, <2>4 DEF FinishDispatch
    <3> QED  BY <2>1, <2>2, <2>4, <3>1 DEF SessionInStep, Active, Committed
  <2> QED  BY <2>3, <2>4
<1>7. CASE CommitDispatch(d) \/ DispatchFails(d)
  BY <1>1, <1>7 DEF CommitDispatch, DispatchFails, TypeOK
<1> QED  BY <1>1, <1>2, <1>3, <1>4, <1>5, <1>6, <1>7 DEF TaskStep

\* Its keys are still in order.
LEMMA OwnKeys ==
  ASSUME TypeOK, TypeOK', NEW d \in Tasks, TaskInStep(d), SessionInStep(d), KeysInOrder(d), TiersCommitted, TaskStep(d)
  PROVE  KeysInOrder(d)'
<1> USE DEF retryVars, outside, Goto
<1> DEFINE k0 == at[d].tier
           j0 == at[d].pos
<1>0. /\ d[1] \in Approvals /\ sess[d] \in [Targets -> RowStatus]
      /\ Len(Plan) \in Nat /\ k0 \in 1..(Len(Plan) + 1) /\ j0 \in Nat \ {0}
      /\ \A k \in DOMAIN Plan : k \in 1..Len(Plan) /\ \A j \in DOMAIN Plan[k] : j \in 1..Len(Plan[k]) /\ Plan[k][j] \in Targets
  BY SMTT(30), TaskFacts, PlanFacts DEF TypeOK
<1>1. CASE pc'[d] = "done"
  BY <1>1 DEF KeysInOrder, Active
<1>2. CASE StartDispatch(d) /\ pc'[d] # "done"
  <2>1. pc[d] = "idle" /\ pc'[d] = "next" /\ sess' = sess /\ rows' = rows /\ at' = at
    BY <1>2 DEF StartDispatch, TypeOK
  <2>2. \A t \in Targets : sess[d][t] = "none"
    BY <2>1 DEF SessionInStep, Active, NoRow
  <2>3. k0 = 1 /\ j0 = 1
    BY <2>1 DEF TaskInStep
  <2>4. \A k \in DOMAIN Plan : \A j \in DOMAIN Plan[k] : ~(k < 1) /\ ~(j < 1)
    <3>1. \A k \in DOMAIN Plan : Len(Plan[k]) \in Nat
      BY PlanFacts
    <3> QED  BY <1>0, <3>1
  <2> QED  BY <1>0, <2>1, <2>2, <2>3, <2>4 DEF KeysInOrder
<1>3. CASE Lookup(d)
  <2>1. pc[d] = "next" /\ ~PlanOver(d) /\ sess' = sess /\ rows' = rows
    BY <1>3 DEF Lookup
  <2>2. \A t \in Targets : View(d, t)' = View(d, t)
    BY <2>1 DEF View
  <2>3. k0 \in DOMAIN Plan /\ j0 \in DOMAIN Plan[k0] /\ Target(d) \in Targets /\ Target(d) = Plan[k0][j0]
    BY <2>1, TargetFacts DEF Target
  <2>4. CASE View(d, Target(d)) = "sent"
    <3>1. at'[d] = Following(d) /\ pc'[d] = "next"
      BY <1>3, <2>4 DEF Lookup, TypeOK
    <3>2. ASSUME NEW k \in DOMAIN Plan, NEW j \in DOMAIN Plan[k],
                 k < at'[d].tier \/ (k = at'[d].tier /\ j < at'[d].pos)
          PROVE  View(d, Plan[k][j])' # "none"
      <4>1. k < k0 \/ (k = k0 /\ (j < j0 \/ j = j0))
        BY <2>3, <3>1, <3>2, Advance
      <4> QED  BY <1>0, <2>1, <2>2, <2>3, <2>4, <4>1 DEF KeysInOrder, Active
    <3>3. ASSUME NEW k \in DOMAIN Plan, NEW j \in DOMAIN Plan[k],
                 k > at'[d].tier \/ (k = at'[d].tier /\ at'[d].pos = 1)
          PROVE  sess'[d][Plan[k][j]] = "none"
      <4>1. k > k0
        BY <2>3, <3>1, <3>3, Advance
      <4> QED  BY <2>1, <4>1 DEF KeysInOrder, Active
    <3> QED  BY <3>1, <3>2, <3>3 DEF KeysInOrder
  <2>5. CASE View(d, Target(d)) # "sent"
    <3>1. /\ at' = at /\ pc'[d] \in {"insert", "send"}
          /\ pc'[d] = "insert" => View(d, Target(d)) = "none"
      BY <1>3, <2>5 DEF Lookup, TypeOK
    <3>2. pc'[d] = "insert" => Committed(d)[Plan[k0][1]] = "none"
      <4>1. pc'[d] = "insert" => rows[d[1]][Plan[k0][j0]] = "none"
        BY <2>3, <3>1 DEF View
      <4>2. 1 \in DOMAIN Plan[k0]
        BY <2>3, PlanFacts
      <4> QED  BY SMTT(30), <1>0, <2>3, <4>1, <4>2 DEF TiersCommitted, Committed
    <3> QED  BY <1>0, <2>1, <2>2, <3>1, <3>2 DEF KeysInOrder, Active, Committed
  <2> QED  BY <2>4, <2>5
<1>4. CASE InsertRow(d) /\ pc'[d] # "done"
  <2>1. /\ pc[d] = "insert" /\ pc'[d] = "send" /\ at' = at /\ rows' = rows
        /\ sess'[d] = [sess[d] EXCEPT ![Target(d)] = "pending"]
    BY <1>4 DEF InsertRow, TypeOK
  <2>2. k0 \in DOMAIN Plan /\ j0 \in DOMAIN Plan[k0] /\ Target(d) \in Targets /\ Target(d) = Plan[k0][j0]
    BY <2>1, TargetFacts DEF Target
  <2>3. \A t \in Targets : sess'[d][t] = IF t = Target(d) THEN "pending" ELSE sess[d][t]
    BY <1>0, <2>1
  <2>4. \A t \in Targets : View(d, t) # "none" => View(d, t)' # "none"
    BY <2>1, <2>3 DEF View
  <2>5. \A k \in DOMAIN Plan : \A j \in DOMAIN Plan[k] : k > k0 => sess'[d][Plan[k][j]] = sess[d][Plan[k][j]]
    <3>1. \A k \in DOMAIN Plan : \A j \in DOMAIN Plan[k] : Plan[k][j] = Plan[k0][j0] => k = k0
      BY SMTT(30), <2>2, PlanFacts
    <3>2. \A k \in DOMAIN Plan : k > k0 => k # k0
      BY <1>0
    <3> QED  BY <1>0, <2>2, <2>3, <3>1, <3>2
  <2> QED  BY <1>0, <2>1, <2>4, <2>5 DEF KeysInOrder, Active
<1>5. ASSUME NEW result \in Results, Send(d, result)
      PROVE  KeysInOrder(d)'
  <2>1. pc[d] = "send" /\ rows' = rows
    BY <1>5 DEF Send
  <2>2. k0 \in DOMAIN Plan /\ j0 \in DOMAIN Plan[k0] /\ Target(d) \in Targets /\ Target(d) = Plan[k0][j0]
    BY <2>1, TargetFacts DEF Target
  <2>3. CASE Again(result, tries[d])
    <3>1. pc' = pc /\ at' = at /\ sess' = sess
      BY <1>5, <2>3 DEF Send
    <3>2. \A t \in Targets : View(d, t)' = View(d, t)
      BY <2>1, <3>1 DEF View
    <3> QED  BY <1>0, <2>1, <3>1, <3>2 DEF KeysInOrder, Active
  <2>4. CASE ~Again(result, tries[d])
    <3>1. /\ at'[d] = Following(d) /\ pc'[d] = "next"
          /\ sess'[d] = [sess[d] EXCEPT ![Target(d)] = IF result = "delivered" THEN "sent" ELSE "failed"]
      BY <1>5, <2>4 DEF Send, TypeOK
    <3>2. \A t \in Targets : t # Target(d) => sess'[d][t] = sess[d][t]
      BY <1>0, <3>1
    <3>3. sess'[d][Target(d)] # "none"
      BY <1>0, <2>2, <3>1
    <3>4. ASSUME NEW k \in DOMAIN Plan, NEW j \in DOMAIN Plan[k],
                 k < at'[d].tier \/ (k = at'[d].tier /\ j < at'[d].pos)
          PROVE  View(d, Plan[k][j])' # "none"
      <4>1. k < k0 \/ (k = k0 /\ (j < j0 \/ j = j0))
        BY <2>2, <3>1, <3>4, Advance
      <4>2. View(d, Plan[k][j]) # "none" \/ Plan[k][j] = Target(d)
        BY <2>1, <2>2, <4>1 DEF KeysInOrder, Active
      <4>3. Plan[k][j] \in Targets
        BY <1>0
      <4> QED  BY <2>1, <3>2, <3>3, <4>2, <4>3 DEF View
    <3>5. ASSUME NEW k \in DOMAIN Plan, NEW j \in DOMAIN Plan[k],
                 k > at'[d].tier \/ (k = at'[d].tier /\ at'[d].pos = 1)
          PROVE  sess'[d][Plan[k][j]] = "none"
      <4>1. k > k0
        BY <2>2, <3>1, <3>5, Advance
      <4>2. Plan[k][j] # Target(d) /\ Plan[k][j] \in Targets
        <5>1. k # k0
          BY <1>0, <4>1
        <5> QED  BY SMTT(30), <1>0, <2>2, <5>1, PlanFacts
      <4> QED  BY <2>1, <3>2, <4>1, <4>2 DEF KeysInOrder, Active
    <3> QED  BY <3>1, <3>4, <3>5 DEF KeysInOrder
  <2> QED  BY <2>3, <2>4
<1>6. CASE FinishDispatch(d)
  <2>1. pc[d] = "next" /\ PlanOver(d) /\ pc'[d] = "commit" /\ rows' = rows /\ at' = at
    BY <1>6 DEF FinishDispatch, TypeOK
  <2>2. CASE attempted[d] /\ ~reached[d]
    <3>1. \A t \in Targets : sess'[d][t] = IF View(d, t) = "failed" THEN "dead_letter" ELSE sess[d][t]
      BY <1>6, <2>2 DEF FinishDispatch, _dead_letter, TypeOK
    <3>2. \A t \in Targets : View(d, t) # "none" => View(d, t)' # "none"
      BY <2>1, <3>1 DEF View
    <3>3. \A k \in DOMAIN Plan : ~(k > k0) /\ k # k0
      BY <1>0, <2>1, <2>2 DEF PlanOver
    <3> QED  BY <1>0, <2>1, <3>2, <3>3 DEF KeysInOrder, Active
  <2>3. CASE ~(attempted[d] /\ ~reached[d])
    <3>1. sess' = sess
      BY <1>6, <2>3 DEF FinishDispatch
    <3>2. \A t \in Targets : View(d, t)' = View(d, t)
      BY <2>1, <3>1 DEF View
    <3> QED  BY <1>0, <2>1, <3>1, <3>2 DEF KeysInOrder, Active
  <2> QED  BY <2>2, <2>3
<1>7. CASE CommitDispatch(d) \/ DispatchFails(d)
  BY <1>1, <1>7 DEF CommitDispatch, DispatchFails, TypeOK
<1> QED  BY <1>1, <1>2, <1>3, <1>4, <1>5, <1>6, <1>7 DEF TaskStep

-----------------------------------------------------------------------------
(***************************************************************************)
(* The other task of the approval.                                         *)
(***************************************************************************)

\* Nothing is on record while both tasks of an approval are under way.
LEMMA BothActive ==
  ASSUME TypeOK, TiersCommitted, NEW d \in Tasks, NEW e \in Tasks, d # e, d[1] = e[1], Active(d), Active(e)
  PROVE  \A t \in Targets : rows[d[1]][t] = "none"
<1>1. pc[d] # "done" /\ pc[e] # "done"
  BY DEF Active
<1>2. \A f \in Tasks : f[1] = d[1] => pc[f] # "done"
  BY <1>1, TaskFacts
<1> QED  BY <1>2, TaskFacts DEF TiersCommitted

\* A task that is ready to commit has a row for the first target of the plan.
LEMMA FirstKey ==
  ASSUME TypeOK, NEW d \in Tasks, TaskInStep(d), SessionInStep(d), KeysInOrder(d), pc[d] = "commit", Targets # {}
  PROVE  /\ 1 \in DOMAIN Plan /\ 1 \in DOMAIN Plan[1]
         /\ View(d, Plan[1][1]) # "none"
<1>1. Len(Plan) \in Nat /\ DOMAIN Plan = 1..Len(Plan) /\ \E k \in DOMAIN Plan : TRUE
  BY PlanFacts
<1>2. 1 \in DOMAIN Plan
  BY <1>1
<1>3. 1 \in DOMAIN Plan[1]
  BY <1>2, PlanFacts
<1>4. PICK k0 : at[d].tier = k0 /\ k0 \in 1..(Len(Plan) + 1)
  BY DEF TypeOK
<1>5. k0 > 1
  <2>1. CASE k0 = Len(Plan) + 1
    BY <1>1, <1>2, <2>1
  <2>2. CASE k0 # Len(Plan) + 1
    <3>1. at[d].pos = 1 /\ hit[d] # {}
      BY <1>4, <2>2 DEF TaskInStep
    <3>2. PICK t \in Targets : sess[d][t] = "sent"
      BY <3>1 DEF SessionInStep, Active, TypeOK
    <3>3. PICK k \in DOMAIN Plan : \E j \in DOMAIN Plan[k] : t = Plan[k][j]
      BY PlanFacts
    <3>4. ~(k > k0) /\ k # k0
      BY <1>4, <3>1, <3>2, <3>3 DEF KeysInOrder, Active
    <3>5. k \in 1..Len(Plan)
      BY <1>1
    <3> QED  BY <1>1, <1>4, <3>4, <3>5
  <2> QED  BY <2>1, <2>2
<1>6. 1 < k0
  BY <1>4, <1>5, <1>1
<1> QED  BY <1>2, <1>3, <1>4, <1>6 DEF KeysInOrder, Active

\* While one task is ready to commit, the other has not got past the first target.
LEMMA Overlap ==
  ASSUME TypeOK, TiersCommitted, KeyUnique,
         NEW d \in Tasks, TaskInStep(d), SessionInStep(d), KeysInOrder(d),
         NEW e \in Tasks, TaskInStep(e), SessionInStep(e), KeysInOrder(e),
         d # e, d[1] = e[1], pc[d] = "commit", Active(e), NEW t \in Targets
  PROVE  /\ sess[e][t] = "none"
         /\ at[e].tier = 1 /\ at[e].pos = 1 /\ pc[e] \in {"next", "insert"}
<1>1. \A u \in Targets : rows[d[1]][u] = "none" /\ rows[e[1]][u] = "none"
  BY BothActive DEF Active
<1>2. 1 \in DOMAIN Plan /\ 1 \in DOMAIN Plan[1] /\ Plan[1][1] \in Targets /\ View(d, Plan[1][1]) # "none"
  BY FirstKey, PlanFacts
<1>3. sess[d][Plan[1][1]] # "none"
  BY <1>1, <1>2 DEF View
<1>4. sess[e][Plan[1][1]] = "none"
  BY <1>1, <1>2, <1>3 DEF KeyUnique, Committed
<1>5. View(e, Plan[1][1]) = "none"
  BY <1>1, <1>2, <1>4 DEF View
<1>6. PICK k0, j0 : at[e].tier = k0 /\ at[e].pos = j0 /\ k0 \in 1..(Len(Plan) + 1) /\ j0 \in Nat \ {0} /\ Len(Plan) \in Nat
  BY PlanFacts DEF TypeOK
<1>7. ~(1 < k0 \/ (1 = k0 /\ 1 < j0))
  BY <1>2, <1>5, <1>6 DEF KeysInOrder
<1>8. k0 = 1 /\ j0 = 1
  BY <1>6, <1>7
<1>9. pc[e] # "send"
  BY <1>5, <1>6, <1>8 DEF SessionInStep, Target
<1>10. pc[e] # "commit"
  <2>1. pc[e] = "commit" => View(e, Plan[1][1]) # "none"
    BY FirstKey
  <2> QED  BY <1>5, <2>1
<1>11. PICK k \in DOMAIN Plan : \E j \in DOMAIN Plan[k] : t = Plan[k][j]
  BY PlanFacts
<1>12. k > 1 \/ k = 1
  BY <1>11, PlanFacts
<1>13. sess[e][t] = "none"
  BY <1>6, <1>8, <1>9, <1>11, <1>12 DEF KeysInOrder
<1> QED  BY <1>6, <1>8, <1>9, <1>10, <1>13 DEF Active

\* A task that does not step stays in step.
LEMMA OtherTask ==
  ASSUME TypeOK, TiersCommitted, KeyUnique, NEW d \in Tasks, TaskStep(d),
         \A f \in Tasks : TaskInStep(f) /\ SessionInStep(f) /\ KeysInOrder(f),
         NEW e \in Tasks, e # d
  PROVE  TaskInStep(e)' /\ SessionInStep(e)' /\ KeysInOrder(e)'
<1>1. /\ pc'[e] = pc[e] /\ at'[e] = at[e] /\ sess'[e] = sess[e]
      /\ hit'[e] = hit[e] /\ (attempted'[e] <=> attempted[e]) /\ (reached'[e] <=> reached[e])
  BY TaskFrame
<1>2. Target(e)' = Target(e) /\ NoRow' = NoRow /\ (Active(e)' <=> Active(e))
  BY <1>1 DEF Target, NoRow, Active
<1>3. TaskInStep(e)'
  BY <1>1, <1>2 DEF TaskInStep
<1>4. CASE rows'[e[1]] = rows[e[1]]
  <2>1. \A t \in Targets : View(e, t)' = View(e, t)
    BY <1>1, <1>4 DEF View
  <2>2. Committed(e)' = Committed(e)
    BY <1>4 DEF Committed
  <2>3. View(e, Target(e))' = View(e, Target(e))
    BY <1>1, <1>2, <1>4 DEF View
  <2>4. SessionInStep(e)'
    BY <1>1, <1>2, <2>1, <2>2, <2>3 DEF SessionInStep
  <2>5. KeysInOrder(e)'
    BY <1>1, <1>2, <2>1, <2>2, PlanFacts DEF KeysInOrder
  <2> QED  BY <1>3, <2>4, <2>5
<1>5. CASE rows'[e[1]] # rows[e[1]]
  <2>1. pc[d] = "commit" /\ d[1] = e[1]
    BY <1>5, TaskFrame, TaskFacts
  <2>2. CASE ~Active(e)
    <3>1. sess[e] = NoRow /\ pc[e] \notin {"next", "insert", "send", "commit"}
      BY <2>2 DEF SessionInStep, Active
    <3>2. \A t \in Targets : sess'[e][t] = "none"
      BY <1>1, <3>1 DEF NoRow
    <3>3. SessionInStep(e)'
      BY <1>1, <1>2, <2>2, <3>1, <3>2 DEF SessionInStep
    <3>4. KeysInOrder(e)'
      BY <1>1, <1>2, <2>2, <3>1 DEF KeysInOrder
    <3> QED  BY <1>3, <3>3, <3>4
  <2>3. CASE Active(e)
    <3>1. \A t \in Targets : sess[e][t] = "none" /\ at[e].tier = 1 /\ at[e].pos = 1 /\ pc[e] \in {"next", "insert"}
      BY <2>1, <2>3, Overlap
    <3>2. pc[e] \in {"insert", "send"} => Target(e) \in Targets
      BY TargetFacts
    <3>3. \A t \in Targets : t \notin hit[e]
      BY <2>3, <3>1 DEF SessionInStep
    <3>4. SessionInStep(e)'
      BY <1>1, <1>2, <2>3, <3>1, <3>2, <3>3 DEF SessionInStep
    <3>5. \A k \in DOMAIN Plan : \A j \in DOMAIN Plan[k] : Plan[k][j] \in Targets /\ ~(k < 1) /\ ~(j < 1)
      <4>1. \A k \in DOMAIN Plan : k \in 1..Len(Plan) /\ Len(Plan) \in Nat /\ Len(Plan[k]) \in Nat
                                   /\ \A j \in DOMAIN Plan[k] : Plan[k][j] \in Targets /\ j \in 1..Len(Plan[k])
        BY PlanFacts
      <4> QED  BY <4>1
    <3>6. KeysInOrder(e)'
      <4>1. pc[e] = "insert" => at[e].pos = 1
        BY <3>1, <3>2
      <4> QED  BY <1>1, <3>1, <3>5, <4>1 DEF KeysInOrder
    <3> QED  BY <1>3, <3>4, <3>6
  <2> QED  BY <2>2, <2>3
<1> QED  BY <1>4, <1>5

-----------------------------------------------------------------------------
(***************************************************************************)
(* The approvals and the records under a task's step.                      *)
(***************************************************************************)

\* What a task's commit makes of the rows of its approval.
LEMMA CommittedRows ==
  ASSUME TypeOK, NEW d \in Tasks, SessionInStep(d), TaskStep(d), NEW a \in Approvals, NEW t \in Targets
  PROVE  /\ rows'[a][t] = rows[a][t] \/ (CommitDispatch(d) /\ a = d[1] /\ rows'[a][t] = View(d, t))
         /\ rows[a][t] # "none" => rows'[a][t] # "none"
         /\ rows[a][t] = "sent" => rows'[a][t] = "sent"
<1>1. CASE CommitDispatch(d)
  <2>1. a # d[1] => rows'[a] = rows[a]
    BY TaskFrame
  <2>2. a = d[1] => rows'[a][t] = View(d, t)
    BY <1>1, TaskFacts DEF CommitDispatch, TypeOK
  <2>3. rows[d[1]][t] = "sent" => sess[d][t] = "none"
    BY <1>1 DEF CommitDispatch, SessionInStep, Active, Committed
  <2> QED  BY <1>1, <2>1, <2>2, <2>3 DEF View
<1>2. CASE ~CommitDispatch(d)
  <2>1. rows' = rows
    BY <1>2 DEF TaskStep, StartDispatch, Lookup, InsertRow, Send, FinishDispatch, DispatchFails
  <2> QED  BY <2>1
<1> QED  BY <1>1, <1>2

\* Messages arrive under approvals, and nobody retries what is dispatched.
LEMMA TaskAuthorised ==
  ASSUME TypeOK, Authorised, OnlyApprovedArrives, NEW d \in Tasks, TaskInStep(d), SessionInStep(d), TaskStep(d)
  PROVE  Authorised' /\ OnlyApprovedArrives'
<1>0. /\ d[1] \in Approvals /\ authority' = authority /\ rpc' = rpc /\ rrow' = rrow
      /\ \A e \in Tasks \ {d} : pc'[e] = pc[e]
      /\ \A a \in Approvals : a # d[1] => delivered'[a] = delivered[a]
  BY TaskFrame, TaskFacts
<1>1. pc[d] = "idle" => StartDispatch(d)
  BY DEF TaskStep, Lookup, InsertRow, Send, FinishDispatch, CommitDispatch, DispatchFails
<1>2. pc[d] # "idle" => Active(d)
  BY TaskFrame DEF TypeOK, Active
<1>3. Active(d)' => authority[d[1]] = "approve"
  <2>1. StartDispatch(d) /\ Active(d)' => authority[d[1]] = "approve"
    BY DEF StartDispatch, verify_approval, Goto, Active, TypeOK
  <2> QED  BY <1>1, <1>2, <2>1 DEF Authorised
<1>4. ASSUME NEW e \in Tasks, Active(e)'
      PROVE  authority'[e[1]] = "approve"
  BY <1>0, <1>3, <1>4 DEF Authorised, Active
<1>5. ASSUME NEW q \in Retries, rpc'[q] # "idle"
      PROVE  rrow'[q] \in Loaded /\ Settled(rrow[q].approval)' /\ rrow'[q].approval # d[1]
  <2>1. rrow[q] \in Loaded /\ Settled(rrow[q].approval)
    BY <1>0, <1>5 DEF Authorised
  <2>2. rrow[q].approval # d[1]
    <3>1. CASE pc[d] = "idle"
      BY <1>0, <1>1, <1>5, <3>1 DEF StartDispatch, NotRetried
    <3>2. CASE pc[d] # "idle"
      BY <1>2, <2>1, <3>2 DEF Settled, Active
    <3> QED  BY <3>1, <3>2
  <2>3. \A e \in Tasks : e[1] = rrow[q].approval => pc'[e] \in {"idle", "done"}
    BY <1>0, <2>1, <2>2 DEF Settled
  <2> QED  BY <1>0, <2>1, <2>2, <2>3 DEF Settled
<1>6. ASSUME NEW q \in Retries, rpc'[q] \in {"send", "delivered", "undelivered"}
      PROVE  authority'[rrow'[q].approval] = "approve" /\ rows'[rrow'[q].approval][rrow'[q].target] # "none"
  <2>1. /\ rrow[q].approval \in Approvals /\ rrow[q].target \in Targets
        /\ authority[rrow[q].approval] = "approve" /\ rows[rrow[q].approval][rrow[q].target] # "none"
    BY <1>0, <1>6 DEF Authorised, Loaded
  <2> QED  BY <1>0, <2>1, CommittedRows
<1>7. Authorised'
  <2>1. \A q \in Retries : rpc'[q] # "idle" => rrow'[q] \in Loaded /\ Settled(rrow[q].approval)'
    BY <1>5
  <2> QED  BY <1>4, <1>6, <2>1 DEF Authorised
<1>8. OnlyApprovedArrives'
  <2>1. ASSUME NEW a \in Approvals, NEW t \in Targets, delivered'[a][t] > 0
        PROVE  authority'[a] = "approve"
    <3>1. CASE delivered'[a] = delivered[a]
      BY <1>0, <2>1, <3>1 DEF OnlyApprovedArrives
    <3>2. CASE delivered'[a] # delivered[a]
      <4>1. a = d[1]
        BY <1>0, <3>2
      <4>2. pc[d] # "idle"
        BY <1>1, <3>2 DEF StartDispatch, outside
      <4> QED  BY <1>0, <1>2, <4>1, <4>2 DEF Authorised
    <3> QED  BY <3>1, <3>2
  <2> QED  BY <2>1 DEF OnlyApprovedArrives
<1> QED  BY <1>7, <1>8

\* Tiers are committed as a whole.
LEMMA TaskTiers ==
  ASSUME TypeOK, TiersCommitted, NEW d \in Tasks, TaskInStep(d), SessionInStep(d), KeysInOrder(d), TaskStep(d)
  PROVE  TiersCommitted'
<1>0. d[1] \in Approvals /\ \A e \in Tasks \ {d} : pc'[e] = pc[e]
  BY TaskFrame, TaskFacts
<1>1. pc[d] # "done" /\ (CommitDispatch(d) => pc[d] = "commit" /\ pc'[d] = "done")
  BY TaskFrame DEF CommitDispatch, Goto, TypeOK
<1>2. \A f \in Tasks : pc[f] = "done" => pc'[f] = "done"
  BY <1>0, <1>1
<1>3. ASSUME NEW a \in Approvals, NEW t \in Targets, rows'[a][t] # "none"
      PROVE  \E f \in Tasks : f[1] = a /\ pc'[f] = "done"
  <2>1. CASE rows[a][t] # "none"
    BY <1>2, <2>1 DEF TiersCommitted
  <2>2. CASE rows[a][t] = "none"
    BY <1>1, <1>3, <2>2, CommittedRows
  <2> QED  BY <2>1, <2>2
<1>4. ASSUME NEW a \in Approvals, NEW k \in DOMAIN Plan, NEW i \in DOMAIN Plan[k], NEW j \in DOMAIN Plan[k],
             rows'[a][Plan[k][i]] = "none"
      PROVE  rows'[a][Plan[k][j]] = "none"
  <2>1. Plan[k][i] \in Targets /\ Plan[k][j] \in Targets
    BY PlanFacts
  <2>2. rows[a][Plan[k][j]] = "none"
    BY <1>4, <2>1, CommittedRows DEF TiersCommitted
  <2>3. CASE CommitDispatch(d) /\ a = d[1]
    <3>1. rows'[a][Plan[k][i]] = View(d, Plan[k][i])
      BY <2>1, <2>3 DEF CommitDispatch, TypeOK
    <3>2. ~(k < at[d].tier) /\ at[d].pos = 1
      BY <1>1, <1>4, <2>3, <3>1 DEF KeysInOrder, Active, TaskInStep
    <3>3. k > at[d].tier \/ k = at[d].tier
      BY <3>2, PlanFacts DEF TypeOK
    <3>4. sess[d][Plan[k][j]] = "none"
      BY <1>1, <2>3, <3>2, <3>3 DEF KeysInOrder, Active
    <3>5. View(d, Plan[k][j]) = "none"
      BY <2>2, <2>3, <3>4 DEF View
    <3> QED  BY <2>1, <2>2, <2>3, <3>5, CommittedRows
  <2>4. CASE ~(CommitDispatch(d) /\ a = d[1])
    BY <2>1, <2>2, <2>4, CommittedRows
  <2> QED  BY <2>3, <2>4
<1> QED  BY <1>3, <1>4 DEF TiersCommitted

\* No two tasks have an uncommitted row for a key that is not on record.
LEMMA TaskKeys ==
  ASSUME TypeOK, KeyUnique, NEW d \in Tasks, TaskInStep(d), SessionInStep(d), TaskStep(d)
  PROVE  KeyUnique'
<1>0. d[1] \in Approvals /\ \A e \in Tasks \ {d} : sess'[e] = sess[e]
  BY TaskFrame, TaskFacts
<1>1. ASSUME NEW t \in Targets, sess'[d][t] # "none"
      PROVE  \/ sess[d][t] # "none" \/ rows[d[1]][t] # "none"
             \/ \A e \in Tasks \ {d} : e[1] = d[1] => sess[e][t] = "none"
  <2> USE DEF TypeOK
  <2>1. CASE StartDispatch(d) \/ Lookup(d)
    BY <1>1, <2>1 DEF StartDispatch, Lookup
  <2>2. CASE InsertRow(d)
    <3>1. CASE t # Target(d)
      BY <1>1, <2>2, <3>1 DEF InsertRow, NoRow
    <3>2. CASE t = Target(d)
      BY <1>1, <2>2, <3>2 DEF InsertRow, KeyHeld
    <3> QED  BY <3>1, <3>2
  <2>3. ASSUME NEW result \in Results, Send(d, result)
        PROVE  sess[d][t] # "none" \/ rows[d[1]][t] # "none"
    <3>1. CASE t # Target(d)
      BY <1>1, <2>3, <3>1 DEF Send
    <3>2. CASE t = Target(d)
      BY <2>3, <3>2 DEF Send, SessionInStep, View
    <3> QED  BY <3>1, <3>2
  <2>4. CASE FinishDispatch(d)
    <3>1. sess'[d][t] = sess[d][t] \/ View(d, t) = "failed"
      BY <2>4 DEF FinishDispatch, _dead_letter
    <3> QED  BY <1>1, <3>1 DEF View
  <2>5. CASE CommitDispatch(d) \/ DispatchFails(d)
    BY <1>1, <2>5 DEF CommitDispatch, DispatchFails, NoRow
  <2> QED  BY <2>1, <2>2, <2>3, <2>4, <2>5 DEF TaskStep
<1>2. ASSUME NEW e \in Tasks, NEW f \in Tasks, NEW t \in Targets,
             e # f, e[1] = f[1], sess'[e][t] # "none", sess'[f][t] # "none"
      PROVE  rows'[e[1]][t] # "none"
  <2>1. rows[e[1]][t] # "none"
    BY <1>0, <1>1, <1>2 DEF KeyUnique, Committed
  <2> QED  BY <2>1, CommittedRows, TaskFacts
<1> QED  BY <1>2 DEF KeyUnique, Committed

\* What a step of a task adds to the messages that arrived.
LEMMA TaskArrivals ==
  ASSUME TypeOK, NEW d \in Tasks, TaskInStep(d), TaskStep(d)
  PROVE  /\ \A t \in hit'[d] : t \in hit[d] \/ (pc[d] = "send" /\ pc'[d] = "next" /\ t = Target(d))
         /\ \A e \in Tasks : hit[e] \subseteq hit'[e]
         /\ \A a \in Approvals, t \in Targets :
              delivered'[a][t] = delivered[a][t] \/ (a = d[1] /\ t \in hit'[d])
<1> USE DEF TypeOK
<1>1. ASSUME NEW result \in Results, Send(d, result)
      PROVE  /\ \A t \in hit'[d] : t \in hit[d] \/ (pc[d] = "send" /\ pc'[d] = "next" /\ t = Target(d))
             /\ \A e \in Tasks : hit[e] \subseteq hit'[e]
             /\ \A a \in Approvals, t \in Targets :
                  delivered'[a][t] = delivered[a][t] \/ (a = d[1] /\ t \in hit'[d])
  <2>1. pc[d] = "send" /\ d[1] \in Approvals /\ Target(d) \in Targets
    BY <1>1, TargetFacts, TaskFacts DEF Send
  <2>2. CASE result = "delivered"
    <3>1. hit' = [hit EXCEPT ![d] = hit[d] \cup {Target(d)}] /\ pc' = [pc EXCEPT ![d] = "next"]
      BY <1>1, <2>2 DEF Send, Again, Goto
    <3>2. delivered' = [delivered EXCEPT ![d[1]][Target(d)] = @ + 1]
      BY <1>1, <2>2 DEF Send, Arrived
    <3>3. \A a \in Approvals, t \in Targets :
             delivered'[a][t] = delivered[a][t] \/ (a = d[1] /\ t = Target(d))
      BY <2>1, <3>2
    <3> QED  BY <2>1, <3>1, <3>3
  <2>3. CASE result # "delivered"
    BY <1>1, <2>3 DEF Send
  <2> QED  BY <2>2, <2>3
<1>2. CASE hit' = hit /\ delivered' = delivered
  BY <1>2
<1> QED  BY <1>1, <1>2 DEF TaskStep, StartDispatch, Lookup, InsertRow, FinishDispatch, CommitDispatch, DispatchFails, outside

\* A task that is over has its deliveries on record, or its transaction failed.
LEMMA TaskAccounted ==
  ASSUME TypeOK, TypeOK', Accounted, TiersCommitted, NEW d \in Tasks,
         TaskInStep(d), SessionInStep(d), KeysInOrder(d), TaskStep(d)
  PROVE  Accounted'
<1>0. /\ d[1] \in Approvals /\ rpc' = rpc /\ rrow' = rrow /\ lost \subseteq lost'
      /\ \A e \in Tasks \ {d} : pc'[e] = pc[e] /\ hit'[e] = hit[e]
  BY TaskFrame, TaskFacts
<1>1. ASSUME NEW a \in Approvals \ lost', NEW t \in Targets, delivered'[a][t] > 0
      PROVE  \/ rows'[a][t] = "sent"
             \/ \E e \in Tasks : e[1] = a /\ t \in hit'[e]
             \/ \E q \in Retries : rpc'[q] = "delivered" /\ rrow'[q].approval = a /\ rrow'[q].target = t
  <2>1. CASE delivered'[a][t] = delivered[a][t]
    <3>1. \/ rows[a][t] = "sent"
          \/ \E e \in Tasks : e[1] = a /\ t \in hit[e]
          \/ \E q \in Retries : rpc[q] = "delivered" /\ rrow[q].approval = a /\ rrow[q].target = t
      BY <1>0, <1>1, <2>1 DEF Accounted
    <3>2. rows[a][t] = "sent" => rows'[a][t] = "sent"
      BY CommittedRows
    <3> QED  BY <1>0, <3>1, <3>2, TaskArrivals
  <2>2. CASE delivered'[a][t] # delivered[a][t]
    BY <2>2, TaskArrivals
  <2> QED  BY <2>1, <2>2
<1>2. ASSUME NEW t \in hit[d], pc'[d] = "done", d[1] \notin lost'
      PROVE  rows'[d[1]][t] = "sent"
  <2>0. t \in Targets
    BY DEF TypeOK
  <2>1. CASE StartDispatch(d)
    BY <1>2, <2>1 DEF StartDispatch, TaskInStep
  <2>2. CASE InsertRow(d)
    <3>1. pc[d] = "insert" /\ rows[d[1]][Target(d)] # "none"
      BY <1>2, <2>2 DEF InsertRow, Goto, TypeOK
    <3>2. /\ at[d].tier \in DOMAIN Plan /\ at[d].pos \in DOMAIN Plan[at[d].tier] /\ 1 \in DOMAIN Plan[at[d].tier]
          /\ at[d].pos \in Nat \ {0} /\ Target(d) = Plan[at[d].tier][at[d].pos]
      <4>1. at[d].tier \in DOMAIN Plan /\ at[d].pos \in DOMAIN Plan[at[d].tier]
        BY <3>1, TargetFacts
      <4>2. at[d].pos \in Nat \ {0}
        BY DEF TypeOK
      <4> QED  BY <4>1, <4>2, PlanFacts DEF Target
    <3>3. ~(at[d].pos > 1)
      BY <1>0, <3>1, <3>2 DEF KeysInOrder, TiersCommitted, Committed
    <3>4. at[d].pos = 1
      BY <3>2, <3>3
    <3> QED  BY <1>2, <3>1, <3>4 DEF TaskInStep
  <2>3. CASE CommitDispatch(d)
    <3>1. sess[d][t] = "sent" /\ rows'[d[1]][t] = View(d, t)
      BY <1>0, <1>2, <2>0, <2>3 DEF CommitDispatch, SessionInStep, Active, TypeOK
    <3> QED  BY <3>1 DEF View
  <2>4. CASE DispatchFails(d)
    BY <1>2, <2>4 DEF DispatchFails
  <2>5. ~Lookup(d) /\ ~FinishDispatch(d)
    BY <1>2 DEF Lookup, FinishDispatch, Goto, TypeOK
  <2>6. \A result \in Results : ~Send(d, result)
    BY <1>2 DEF Send, Goto, TypeOK
  <2> QED  BY <2>1, <2>2, <2>3, <2>4, <2>5, <2>6 DEF TaskStep
<1>3. ASSUME NEW e \in Tasks, pc'[e] = "done", NEW t \in hit'[e], e[1] \notin lost'
      PROVE  rows'[e[1]][t] = "sent"
  <2>1. CASE e = d
    BY <1>2, <1>3, <2>1, TaskArrivals
  <2>2. CASE e # d
    <3>1. rows[e[1]][t] = "sent" /\ t \in Targets /\ e[1] \in Approvals
      BY <1>0, <1>3, <2>2, TaskFacts DEF Accounted, Committed, TypeOK
    <3> QED  BY <3>1, CommittedRows
  <2> QED  BY <2>1, <2>2
<1> QED  BY <1>1, <1>3 DEF Accounted, Committed

-----------------------------------------------------------------------------
(***************************************************************************)
(* The retries.                                                            *)
(***************************************************************************)
SomeRetry ==
  \/ \E q \in Retries : RetryStep(q)
  \/ \E q \in Retries, a \in Approvals, t \in Targets : StartRetry(q, a, t)

\* A retry changes rows and arrivals of one approval, which nobody dispatches, and of
\* a target that is on record.
LEMMA RetryRows ==
  ASSUME TypeOK, Authorised, SomeRetry
  PROVE  /\ \A a \in Approvals, t \in Targets :
              /\ rows'[a][t] # rows[a][t] => rows'[a][t] = "sent"
              /\ rows'[a][t] = "none" <=> rows[a][t] = "none"
         /\ \A d \in Tasks : Active(d) => rows'[d[1]] = rows[d[1]]
         /\ \A a \in Approvals, t \in Targets : delivered'[a][t] # delivered[a][t] =>
              /\ authority[a] = "approve"
              /\ \E q \in Retries : rpc'[q] = "delivered" /\ rrow'[q].approval = a /\ rrow'[q].target = t
<1> DEFINE Good ==
         /\ \A a \in Approvals, t \in Targets :
              /\ rows'[a][t] # rows[a][t] => rows'[a][t] = "sent"
              /\ rows'[a][t] = "none" <=> rows[a][t] = "none"
         /\ \A d \in Tasks : Active(d) => rows'[d[1]] = rows[d[1]]
         /\ \A a \in Approvals, t \in Targets : delivered'[a][t] # delivered[a][t] =>
              /\ authority[a] = "approve"
              /\ \E q \in Retries : rpc'[q] = "delivered" /\ rrow'[q].approval = a /\ rrow'[q].target = t
<1> SUFFICES Good
  OBVIOUS
<1>1. ASSUME NEW q \in Retries, NEW result \in Results, RetrySend(q, result)
      PROVE  Good
  <2>1. rows' = rows /\ rrow' = rrow /\ rpc[q] = "send"
    BY <1>1 DEF RetrySend
  <2>2. PICK b \in Approvals, u \in Targets : rrow[q].approval = b /\ rrow[q].target = u /\ authority[b] = "approve"
    BY <2>1 DEF Authorised, Loaded
  <2>3. CASE result = "delivered"
    <3>1. delivered' = [delivered EXCEPT ![b][u] = @ + 1]
      BY <1>1, <2>2, <2>3 DEF RetrySend, Arrived
    <3>2. rpc'[q] = "delivered"
      BY <1>1, <2>3 DEF RetrySend, Again, TypeOK
    <3>3. \A a \in Approvals, t \in Targets : delivered'[a][t] # delivered[a][t] => a = b /\ t = u
      BY <3>1 DEF TypeOK
    <3> QED  BY <2>1, <2>2, <3>2, <3>3
  <2>4. CASE result # "delivered"
    BY <1>1, <2>1, <2>4 DEF RetrySend
  <2> QED  BY <2>3, <2>4
<1>2. ASSUME NEW q \in Retries, CommitRetry(q)
      PROVE  Good
  <2>1. rpc[q] \in {"delivered", "undelivered"} /\ delivered' = delivered
    BY <1>2 DEF CommitRetry, outside
  <2>2. PICK b \in Approvals, u \in Targets : rrow[q].approval = b /\ rrow[q].target = u
    BY <2>1 DEF Authorised, Loaded
  <2>3. rows[b][u] # "none" /\ Settled(b)
    BY <2>1, <2>2 DEF Authorised
  <2>4. rows' = rows \/ rows' = [rows EXCEPT ![b][u] = "sent"]
    BY <1>2, <2>2 DEF CommitRetry
  <2>5. \A a \in Approvals, t \in Targets : rows'[a][t] = rows[a][t] \/ (a = b /\ t = u /\ rows'[a][t] = "sent")
    BY <2>4 DEF TypeOK
  <2>6. \A d \in Tasks : Active(d) => d[1] # b
    BY <2>3 DEF Settled, Active
  <2>7. \A d \in Tasks : Active(d) => rows'[d[1]] = rows[d[1]]
    BY <2>4, <2>6, TaskFacts DEF TypeOK
  <2> QED  BY <2>1, <2>3, <2>5, <2>7
<1>3. ASSUME NEW q \in Retries, RetryFails(q)
      PROVE  Good
  BY <1>3 DEF RetryFails
<1>4. ASSUME NEW q \in Retries, NEW a \in Approvals, NEW t \in Targets, StartRetry(q, a, t)
      PROVE  Good
  BY <1>4 DEF StartRetry, outside
<1> QED  BY <1>1, <1>2, <1>3, <1>4 DEF SomeRetry, RetryStep

\* Retries act under an approval, on rows that are on record, one target each.
LEMMA RetryAuthorised ==
  ASSUME TypeOK, Authorised, SomeRetry
  PROVE  Authorised'
<1>0. pc' = pc /\ authority' = authority
  BY RetryFrame DEF SomeRetry
<1>1. \A d \in Tasks : Active(d)' => authority'[d[1]] = "approve"
  BY <1>0 DEF Authorised, Active
<1>2. ASSUME NEW q \in Retries
      PROVE  \/ rrow'[q] = rrow[q] /\ rpc[q] # "idle" /\ rpc'[q] # "idle"
                /\ (rpc'[q] \in {"send", "delivered", "undelivered"} => rpc[q] \in {"send", "delivered", "undelivered"})
             \/ rrow'[q] = rrow[q] /\ rpc'[q] = rpc[q]
             \/ /\ rrow'[q] \in Loaded /\ Settled(rrow'[q].approval)
                /\ rpc'[q] = "send" => /\ authority[rrow'[q].approval] = "approve"
                                       /\ rows[rrow'[q].approval][rrow'[q].target] # "none"
                /\ rpc'[q] \in {"send", "done"}
  <2> USE DEF TypeOK
  <2>1. ASSUME NEW p \in Retries, NEW result \in Results, RetrySend(p, result)
        PROVE  rrow' = rrow /\ (p # q => rpc'[q] = rpc[q]) /\ rpc[p] = "send" /\ rpc'[p] \in {"send", "delivered", "undelivered"}
    BY <2>1 DEF RetrySend
  <2>2. ASSUME NEW p \in Retries, CommitRetry(p) \/ RetryFails(p)
        PROVE  rrow' = rrow /\ (p # q => rpc'[q] = rpc[q]) /\ rpc[p] # "idle" /\ rpc'[p] = "done"
    BY <2>2 DEF CommitRetry, RetryFails
  <2>3. ASSUME NEW p \in Retries, NEW a \in Approvals, NEW t \in Targets, StartRetry(p, a, t)
        PROVE  /\ p # q => rrow'[q] = rrow[q] /\ rpc'[q] = rpc[q]
               /\ rrow'[p] \in Loaded /\ Settled(rrow'[p].approval)
               /\ rpc'[p] = "send" => /\ authority[rrow'[p].approval] = "approve"
                                      /\ rows[rrow'[p].approval][rrow'[p].target] # "none"
               /\ rpc'[p] \in {"send", "done"}
    <3>1. rrow'[p] = [approval |-> a, target |-> t, status |-> rows[a][t]] /\ (p # q => rrow'[q] = rrow[q] /\ rpc'[q] = rpc[q])
      BY <2>3 DEF StartRetry
    <3>2. rrow'[p] \in Loaded /\ rrow'[p].approval = a /\ rrow'[p].target = t
      BY <3>1 DEF Loaded
    <3>3. rpc'[p] \in {"send", "done"} /\ (rpc'[p] = "send" => authority[a] = "approve") /\ Settled(a) /\ rows[a][t] # "none"
      BY <2>3 DEF StartRetry, verify_approval
    <3> QED  BY <3>1, <3>2, <3>3
  <2> QED  BY <2>1, <2>2, <2>3 DEF SomeRetry, RetryStep
<1>3. ASSUME NEW q \in Retries, rpc'[q] # "idle"
      PROVE  rrow'[q] \in Loaded /\ Settled(rrow'[q].approval)
  BY <1>2, <1>3 DEF Authorised
<1>4. ASSUME NEW q \in Retries, rpc'[q] \in {"send", "delivered", "undelivered"}
      PROVE  authority[rrow'[q].approval] = "approve" /\ rows'[rrow'[q].approval][rrow'[q].target] # "none"
  <2>1. authority[rrow'[q].approval] = "approve" /\ rows[rrow'[q].approval][rrow'[q].target] # "none"
    BY <1>2, <1>4 DEF Authorised
  <2>2. rrow'[q].approval \in Approvals /\ rrow'[q].target \in Targets
    BY <1>3, <1>4 DEF Loaded
  <2> QED  BY <2>1, <2>2, RetryRows
<1>5. \A q \in Retries : rpc'[q] # "idle" => rrow'[q] \in Loaded /\ Settled(rrow[q].approval)'
  BY <1>0, <1>3 DEF Settled
<1> QED  BY <1>0, <1>1, <1>4, <1>5 DEF Authorised

\* The tasks and the records under a retry.
LEMMA RetryKeepsTasks ==
  ASSUME TypeOK, Authorised, OnlyApprovedArrives, TiersCommitted, KeyUnique,
         \A d \in Tasks : TaskInStep(d) /\ SessionInStep(d) /\ KeysInOrder(d), SomeRetry
  PROVE  /\ OnlyApprovedArrives' /\ TiersCommitted' /\ KeyUnique'
         /\ \A d \in Tasks : TaskInStep(d)' /\ SessionInStep(d)' /\ KeysInOrder(d)'
<1>0. /\ pc' = pc /\ at' = at /\ sess' = sess /\ attempted' = attempted /\ reached' = reached
      /\ authority' = authority /\ hit' = hit
  BY RetryFrame DEF SomeRetry
<1>1. OnlyApprovedArrives'
  BY <1>0, RetryRows DEF OnlyApprovedArrives
<1>2. TiersCommitted'
  <2>1. \A k \in DOMAIN Plan : \A j \in DOMAIN Plan[k] : Plan[k][j] \in Targets
    BY PlanFacts
  <2> QED  BY <1>0, <2>1, RetryRows DEF TiersCommitted
<1>3. KeyUnique'
  <2>1. ASSUME NEW d \in Tasks, NEW e \in Tasks, NEW t \in Targets,
               d # e, d[1] = e[1], sess'[d][t] # "none", sess'[e][t] # "none"
        PROVE  rows'[d[1]][t] # "none"
    <3>1. rows[d[1]][t] # "none"
      BY <1>0, <2>1 DEF KeyUnique, Committed
    <3> QED  BY <3>1, RetryRows, TaskFacts
  <2> QED  BY <2>1 DEF KeyUnique, Committed
<1>4. ASSUME NEW d \in Tasks
      PROVE  TaskInStep(d)' /\ SessionInStep(d)' /\ KeysInOrder(d)'
  <2>1. Target(d)' = Target(d) /\ NoRow' = NoRow /\ (Active(d)' <=> Active(d))
    BY <1>0 DEF Target, NoRow, Active
  <2>2. TaskInStep(d)'
    BY <1>0, <2>1 DEF TaskInStep
  <2>3. CASE Active(d)
    <3>1. rows'[d[1]] = rows[d[1]]
      BY <2>3, RetryRows
    <3>2. \A t \in Targets : View(d, t)' = View(d, t)
      BY <1>0, <3>1 DEF View
    <3>3. Committed(d)' = Committed(d)
      BY <3>1 DEF Committed
    <3>4. View(d, Target(d))' = View(d, Target(d))
      BY <1>0, <2>1, <3>1 DEF View
    <3>5. SessionInStep(d)'
      BY <1>0, <2>1, <3>2, <3>3, <3>4 DEF SessionInStep
    <3>6. KeysInOrder(d)'
      BY <1>0, <2>1, <3>2, <3>3, PlanFacts DEF KeysInOrder
    <3> QED  BY <2>2, <3>5, <3>6
  <2>4. CASE ~Active(d)
    <3>1. sess[d] = NoRow /\ pc[d] \notin {"next", "insert", "send", "commit"}
      BY <2>4 DEF SessionInStep, Active
    <3>2. \A t \in Targets : sess'[d][t] = "none"
      BY <1>0, <3>1 DEF NoRow
    <3>3. SessionInStep(d)'
      BY <1>0, <2>1, <2>4, <3>1, <3>2 DEF SessionInStep
    <3>4. KeysInOrder(d)'
      BY <1>0, <2>1, <2>4, <3>1 DEF KeysInOrder
    <3> QED  BY <2>2, <3>3, <3>4
  <2> QED  BY <2>3, <2>4
<1> QED  BY <1>1, <1>2, <1>3, <1>4

\* What a retry delivers is on record once it is over, or its transaction failed.
LEMMA RetryAccounted ==
  ASSUME TypeOK, Authorised, Accounted, SomeRetry
  PROVE  Accounted'
<1>0. pc' = pc /\ hit' = hit /\ lost \subseteq lost'
  BY RetryFrame DEF SomeRetry
<1>1. \A a \in Approvals, t \in Targets : rows[a][t] = "sent" => rows'[a][t] = "sent"
  BY RetryRows
<1>2. ASSUME NEW d \in Tasks, pc'[d] = "done", NEW t \in hit'[d], d[1] \notin lost'
      PROVE  rows'[d[1]][t] = "sent"
  <2>1. rows[d[1]][t] = "sent" /\ d[1] \in Approvals /\ t \in Targets
    BY <1>0, <1>2, TaskFacts DEF Accounted, Committed, TypeOK
  <2> QED  BY <1>1, <2>1
<1>3. ASSUME NEW q \in Retries, rpc[q] = "delivered",
             NEW a \in Approvals \ lost', NEW t \in Targets, rrow[q].approval = a, rrow[q].target = t
      PROVE  rows'[a][t] = "sent" \/ (rpc'[q] = "delivered" /\ rrow'[q] = rrow[q])
  <2> USE DEF TypeOK
  <2>1. ASSUME NEW p \in Retries, NEW result \in Results, RetrySend(p, result)
        PROVE  rpc'[q] = "delivered" /\ rrow'[q] = rrow[q]
    BY <1>3, <2>1 DEF RetrySend
  <2>2. ASSUME NEW p \in Retries, CommitRetry(p)
        PROVE  rows'[a][t] = "sent" \/ (rpc'[q] = "delivered" /\ rrow'[q] = rrow[q])
    <3>1. CASE p = q
      BY <1>3, <2>2, <3>1 DEF CommitRetry
    <3>2. CASE p # q
      BY <1>3, <2>2, <3>2 DEF CommitRetry
    <3> QED  BY <3>1, <3>2
  <2>3. ASSUME NEW p \in Retries, RetryFails(p)
        PROVE  rpc'[q] = "delivered" /\ rrow'[q] = rrow[q]
    BY <1>3, <2>3 DEF RetryFails
  <2>4. ASSUME NEW p \in Retries, NEW b \in Approvals, NEW u \in Targets, StartRetry(p, b, u)
        PROVE  rpc'[q] = "delivered" /\ rrow'[q] = rrow[q]
    BY <1>3, <2>4 DEF StartRetry
  <2> QED  BY <2>1, <2>2, <2>3, <2>4 DEF SomeRetry, RetryStep
<1>4. ASSUME NEW a \in Approvals \ lost', NEW t \in Targets, delivered'[a][t] > 0
      PROVE  \/ rows'[a][t] = "sent"
             \/ \E e \in Tasks : e[1] = a /\ t \in hit'[e]
             \/ \E q \in Retries : rpc'[q] = "delivered" /\ rrow'[q].approval = a /\ rrow'[q].target = t
  <2>1. CASE delivered'[a][t] = delivered[a][t]
    <3>1. \/ rows[a][t] = "sent"
          \/ \E e \in Tasks : e[1] = a /\ t \in hit[e]
          \/ \E q \in Retries : rpc[q] = "delivered" /\ rrow[q].approval = a /\ rrow[q].target = t
      BY <1>0, <1>4, <2>1 DEF Accounted
    <3> QED  BY <1>0, <1>1, <1>3, <3>1
  <2>2. CASE delivered'[a][t] # delivered[a][t]
    BY <2>2, RetryRows
  <2> QED  BY <2>1, <2>2
<1> QED  BY <1>2, <1>4 DEF Accounted, Committed

-----------------------------------------------------------------------------
(***************************************************************************)
(* The invariant.                                                          *)
(***************************************************************************)

\* Before anything is dispatched.
LEMMA InitSound == Init => DispatchInv
<1> SUFFICES ASSUME Init PROVE DispatchInv
  OBVIOUS
<1>0. /\ Len(Plan) \in Nat /\ NoRow \in [Targets -> RowStatus \ {"pending"}]
      /\ \A t \in Targets : NoRow[t] = "none"
  BY PlanFacts DEF NoRow, RowStatus
<1>1. TypeOK
  <2>1. at \in [Tasks -> [tier : 1..(Len(Plan) + 1), pos : Nat \ {0}]]
    <3>1. [tier |-> 1, pos |-> 1] \in [tier : 1..(Len(Plan) + 1), pos : Nat \ {0}]
      BY <1>0
    <3> QED  BY <3>1 DEF Init
  <2>2. tries \in [Tasks -> 0..(MaxAttempts - 1)] /\ rtries \in [Retries -> 0..(MaxAttempts - 1)]
    BY LimitsPositive DEF Init
  <2>3. delivered \in [Approvals -> [Targets -> Nat]]
    BY DEF Init
  <2> QED  BY <1>0, <2>1, <2>2, <2>3 DEF Init, TypeOK
<1>2. OnlyApprovedArrives
  BY DEF Init, OnlyApprovedArrives
<1>3. Authorised
  BY DEF Init, Authorised, Active
<1>4. ASSUME NEW d \in Tasks
      PROVE  TaskInStep(d) /\ SessionInStep(d) /\ KeysInOrder(d)
  <2>1. pc[d] = "idle" /\ at[d] = [tier |-> 1, pos |-> 1] /\ hit[d] = {} /\ sess[d] = NoRow
    BY DEF Init
  <2>2. ~reached[d] /\ ~attempted[d]
    BY DEF Init
  <2>3. (1 = Len(Plan) + 1) \/ (1 \in DOMAIN Plan /\ 1 \in DOMAIN Plan[1])
    <3>1. 1 = Len(Plan) + 1 \/ 1 \in 1..Len(Plan)
      BY <1>0
    <3> QED  BY <3>1, PlanFacts
  <2>4. TaskInStep(d)
    BY <2>1, <2>2, <2>3 DEF TaskInStep
  <2>5. SessionInStep(d)
    BY <1>0, <2>1 DEF SessionInStep, Active
  <2> QED  BY <2>1, <2>4, <2>5 DEF KeysInOrder, Active
<1>5. TiersCommitted
  <2>1. \A a \in Approvals, t \in Targets : rows[a][t] = "none"
    BY <1>0 DEF Init
  <2> QED  BY ZenonT(60), <2>1, PlanFacts DEF TiersCommitted
<1>6. KeyUnique
  BY <1>0 DEF Init, KeyUnique
<1>7. Accounted
  BY DEF Init, Accounted
<1> QED  BY <1>1, <1>2, <1>3, <1>4, <1>5, <1>6, <1>7 DEF DispatchInv

\* Every step of a task or of a retry preserves it.
LEMMA StepSound == DispatchInv /\ [Next]_vars => DispatchInv'
<1> SUFFICES ASSUME DispatchInv, [Next]_vars PROVE DispatchInv'
  OBVIOUS
<1> USE DEF DispatchInv
<1>1. ASSUME NEW d \in Tasks, TaskStep(d)
      PROVE  DispatchInv'
  <2>1. TypeOK'
    BY <1>1, TaskType
  <2>2. Authorised' /\ OnlyApprovedArrives'
    BY <1>1, TaskAuthorised
  <2>3. TaskInStep(d)' /\ SessionInStep(d)' /\ KeysInOrder(d)'
    BY <1>1, <2>1, OwnPlace, OwnSession, OwnKeys
  <2>4. \A e \in Tasks : e # d => TaskInStep(e)' /\ SessionInStep(e)' /\ KeysInOrder(e)'
    BY <1>1, OtherTask
  <2>5. TiersCommitted'
    BY <1>1, TaskTiers
  <2>6. KeyUnique'
    BY <1>1, TaskKeys
  <2>7. Accounted'
    BY <1>1, <2>1, TaskAccounted
  <2> QED  BY <2>1, <2>2, <2>3, <2>4, <2>5, <2>6, <2>7
<1>2. CASE SomeRetry
  <2>1. TypeOK'
    BY <1>2, RetryFrame DEF SomeRetry
  <2>2. Authorised'
    BY <1>2, RetryAuthorised
  <2>3. /\ OnlyApprovedArrives' /\ TiersCommitted' /\ KeyUnique'
        /\ \A d \in Tasks : TaskInStep(d)' /\ SessionInStep(d)' /\ KeysInOrder(d)'
    BY <1>2, RetryKeepsTasks
  <2>4. Accounted'
    BY <1>2, RetryAccounted
  <2> QED  BY <2>1, <2>2, <2>3, <2>4
<1>3. CASE UNCHANGED vars
  <2>1. /\ authority' = authority /\ urgency' = urgency /\ rows' = rows /\ pc' = pc /\ at' = at
        /\ tries' = tries /\ sess' = sess /\ attempted' = attempted /\ reached' = reached /\ rpc' = rpc
        /\ rrow' = rrow /\ rtries' = rtries /\ delivered' = delivered /\ hit' = hit /\ lost' = lost
    BY <1>3 DEF vars, taskVars, retryVars, outside
  <2>2. TypeOK'
    BY <2>1 DEF TypeOK
  <2>3. OnlyApprovedArrives' /\ Authorised'
    BY <2>1 DEF OnlyApprovedArrives, Authorised, Settled, Active
  <2>4. ASSUME NEW d \in Tasks
        PROVE  TaskInStep(d)' /\ SessionInStep(d)' /\ KeysInOrder(d)'
    <3>1. TaskInStep(d)'
      BY <2>1 DEF TaskInStep, Target
    <3>2. SessionInStep(d)'
      BY ZenonT(60), <2>1 DEF SessionInStep, Active, View, Committed, Target, NoRow
    <3>3. KeysInOrder(d)'
      BY <2>1 DEF KeysInOrder, Active, View, Committed
    <3> QED  BY <3>1, <3>2, <3>3
  <2>5. TiersCommitted' /\ KeyUnique'
    BY <2>1 DEF TiersCommitted, KeyUnique, Committed
  <2>6. Accounted'
    BY <2>1 DEF Accounted, Committed
  <2> QED  BY <2>2, <2>3, <2>4, <2>5, <2>6
<1> QED  BY <1>1, <1>2, <1>3 DEF Next, SomeRetry

\* Dispatch and retry, in any overlap and with transactions failing at any point, keep
\* sessions, dedupe keys and committed rows in step, and nothing arrives without an
\* approval of this investigation (dispatch_alert, retry_delivery).
THEOREM DispatchIsSound == Spec => []DispatchInv
<1>1. Init => DispatchInv
  BY InitSound
<1>2. DispatchInv /\ [Next]_vars => DispatchInv'
  BY StepSound
<1> QED  BY <1>1, <1>2, PTL DEF Spec

\* A message the code of dispatch_alert or retry_delivery lets out has a decision of
\* this investigation behind it that is an approval.
THEOREM ApprovedOnly == Spec => []OnlyApprovedArrives
<1>1. DispatchInv => OnlyApprovedArrives
  BY DEF DispatchInv
<1> QED  BY <1>1, DispatchIsSound, PTL

\* What arrived is on record as sent once tasks and retries are over, unless a
\* transaction failed in between.
THEOREM DeliveriesAreOnRecord == Spec => []ArrivedIsRecorded
<1>1. DispatchInv => ArrivedIsRecorded
  <2> SUFFICES ASSUME DispatchInv,
                      \A d \in Tasks : pc[d] \in {"idle", "done"}, \A q \in Retries : rpc[q] \in {"idle", "done"},
                      NEW a \in Approvals \ lost, NEW t \in Targets, delivered[a][t] > 0
               PROVE  rows[a][t] = "sent"
    BY DEF ArrivedIsRecorded
  <2>1. rows[a][t] = "sent" \/ \E d \in Tasks : d[1] = a /\ t \in hit[d]
    BY DEF DispatchInv, Accounted
  <2>2. \A d \in Tasks : pc[d] = "idle" => hit[d] = {}
    BY DEF DispatchInv, TaskInStep
  <2> QED  BY <2>1, <2>2 DEF DispatchInv, Accounted, Committed
<1> QED  BY <1>1, DispatchIsSound, PTL

\* A row that says SENT says so forever: no dispatch of the same approval and no
\* failing retry that commits late takes it back.
THEOREM SentForGood == Spec => SentStaysSent
<1>1. ASSUME DispatchInv, [Next]_vars, NEW a \in Approvals, NEW t \in Targets, rows[a][t] = "sent"
      PROVE  rows'[a][t] = "sent"
  <2>1. ASSUME NEW d \in Tasks, TaskStep(d)
        PROVE  rows'[a][t] = "sent"
    BY <1>1, <2>1, CommittedRows DEF DispatchInv
  <2>2. CASE SomeRetry
    BY <1>1, <2>2, RetryRows DEF DispatchInv
  <2>3. CASE UNCHANGED vars
    BY <1>1, <2>3 DEF vars
  <2> QED  BY <1>1, <2>1, <2>2, <2>3 DEF Next, SomeRetry
<1>2. DispatchInv /\ [Next]_vars => [\A a \in Approvals, t \in Targets : rows[a][t] = "sent" => rows'[a][t] = "sent"]_vars
  BY <1>1
<1> QED  BY <1>2, DispatchIsSound, PTL DEF Spec, SentStaysSent

\* What one dispatch delivers is on one channel: the next tier is tried only if nobody
\* was reached on the one before (failover_plan's order).
OneChannel == \A d \in Tasks : \A t, u \in hit[d] : t.channel = u.channel

LEMMA OneChannelPerDispatch == Spec => []OneChannel
<1>1. Init => OneChannel
  BY DEF Init, OneChannel
<1>2. DispatchInv /\ OneChannel /\ [Next]_vars => OneChannel'
  <2> SUFFICES ASSUME DispatchInv, OneChannel, [Next]_vars,
                      NEW e \in Tasks, NEW t \in hit'[e], NEW u \in hit'[e]
               PROVE  t.channel = u.channel
    BY DEF OneChannel
  <2>1. ASSUME NEW d \in Tasks, TaskStep(d)
        PROVE  t.channel = u.channel
    <3>1. CASE e # d
      <4>1. hit'[e] = hit[e]
        BY <2>1, <3>1, TaskFrame DEF DispatchInv
      <4> QED  BY <4>1 DEF OneChannel
    <3>2. CASE e = d
      <4>1. \A v \in hit'[d] : v \in hit[d] \/ (pc[d] = "send" /\ v = Target(d))
        BY <2>1, TaskArrivals DEF DispatchInv
      <4>2. pc[d] = "send" => \A v \in hit[d] : v.channel = Target(d).channel
        <5>1. at[d].pos \in Nat \ {0} /\ TaskInStep(d)
          BY DEF DispatchInv, TypeOK
        <5>2. CASE at[d].pos = 1
          BY <5>1, <5>2 DEF TaskInStep
        <5>3. CASE at[d].pos > 1
          BY <5>1, <5>3 DEF TaskInStep
        <5> QED  BY <5>1, <5>2, <5>3
      <4> QED  BY <3>2, <4>1, <4>2 DEF OneChannel
    <3> QED  BY <3>1, <3>2
  <2>2. CASE SomeRetry
    <3>1. hit' = hit
      BY <2>2, RetryFrame DEF SomeRetry, DispatchInv
    <3> QED  BY <3>1 DEF OneChannel
  <2>3. CASE UNCHANGED vars
    BY <2>3 DEF vars, outside, OneChannel
  <2> QED  BY <2>1, <2>2, <2>3 DEF Next, SomeRetry
<1> QED  BY <1>1, <1>2, DispatchIsSound, PTL DEF Spec

\* A dispatch under way that has delivered holds a row for the plan's first target.
LEMMA FirstKeyPassed ==
  ASSUME DispatchInv, NEW d \in Tasks, Active(d), hit[d] # {}
  PROVE  1 \in DOMAIN Plan /\ 1 \in DOMAIN Plan[1] /\ View(d, Plan[1][1]) # "none"
<1>1. TaskInStep(d) /\ SessionInStep(d) /\ KeysInOrder(d)
  BY DEF DispatchInv
<1>2. PICK t \in hit[d] : TRUE
  OBVIOUS
<1>3. t \in Targets
  BY <1>2 DEF DispatchInv, TypeOK
<1>4. PICK k \in DOMAIN Plan : \E j \in DOMAIN Plan[k] : t = Plan[k][j]
  BY <1>3 DEF Targets
<1>5. PICK j \in DOMAIN Plan[k] : t = Plan[k][j]
  BY <1>4
<1>6. sess[d][t] # "none"
  BY <1>1, <1>2, <1>3 DEF SessionInStep
<1>7. reached[d]
  BY <1>1, <1>2 DEF TaskInStep
<1>8. ~(k > at[d].tier) /\ ~(k = at[d].tier /\ at[d].pos = 1)
  BY <1>1, <1>5, <1>6, <1>7 DEF KeysInOrder, TaskInStep
<1>9. at[d].tier \in Nat /\ at[d].pos \in Nat \ {0}
  BY DEF DispatchInv, TypeOK
<1>10. k \in Nat \ {0} /\ 1 \in DOMAIN Plan
  BY <1>4, ChannelsKnown DEF Plan
<1>11. 1 < at[d].tier \/ (1 = at[d].tier /\ 1 < at[d].pos)
  BY <1>8, <1>9, <1>10
<1>12. 1 \in DOMAIN Plan[1]
  BY <1>10, PlanFacts
<1> QED  BY <1>1, <1>10, <1>11, <1>12 DEF KeysInOrder

\* Two channels deliver under one approval only by two dispatches, the second of which
\* delivers when the first is over (dispatch_alert, the unique dedupe key).
THEOREM SecondChannelNeedsRerun == Spec => []SecondChannelIsARerun
<1>1. DispatchInv /\ OneChannel => SecondChannelIsARerun
  <2> SUFFICES ASSUME DispatchInv, OneChannel, NEW d \in Tasks, NEW e \in Tasks,
                      NEW t \in hit[d], NEW u \in hit[e], d[1] = e[1], t.channel # u.channel
               PROVE  d # e /\ ~(Active(d) /\ Active(e))
    BY DEF SecondChannelIsARerun
  <2>1. d # e
    BY DEF OneChannel
  <2>2. ASSUME Active(d), Active(e)
        PROVE  FALSE
    <3> DEFINE first == Plan[1][1]
    <3>1. first \in Targets /\ View(d, first) # "none" /\ View(e, first) # "none"
      BY <2>2, FirstKeyPassed DEF Targets
    <3>2. rows[d[1]][first] = "none" /\ rows[e[1]][first] = "none"
      BY <2>1, <2>2, <3>1, BothActive DEF DispatchInv
    <3>3. sess[d][first] # "none" /\ sess[e][first] # "none"
      BY <3>1, <3>2 DEF View
    <3> QED  BY <2>1, <3>1, <3>2, <3>3 DEF DispatchInv, KeyUnique, Committed
  <2> QED  BY <2>1, <2>2
<1> QED  BY <1>1, DispatchIsSound, OneChannelPerDispatch, PTL

\* Two dispatches of an approval, one after the other or at once, never deliver to the
\* same target, unless a transaction failed after its messages went out.
THEOREM NobodyIsPagedTwice == Spec => []DispatchedOnce
<1>1. Init => DispatchedOnce
  BY DEF Init, DispatchedOnce
<1>2. DispatchInv /\ DispatchedOnce /\ [Next]_vars => DispatchedOnce'
  <2> SUFFICES ASSUME DispatchInv, DispatchedOnce, [Next]_vars
               PROVE  DispatchedOnce'
    OBVIOUS
  <2>1. ASSUME NEW d \in Tasks, TaskStep(d)
        PROVE  DispatchedOnce'
    <3>1. lost \subseteq lost' /\ \A e \in Tasks \ {d} : hit'[e] = hit[e]
      BY <2>1, TaskFrame DEF DispatchInv
    <3>2. ASSUME NEW e \in Tasks, e # d, e[1] = d[1], d[1] \notin lost', NEW t \in hit'[d], t \in hit[e]
          PROVE  FALSE
      <4>1. t \notin hit[d]
        BY <3>1, <3>2 DEF DispatchedOnce
      <4>2. pc[d] = "send" /\ t = Target(d)
        BY <2>1, <3>2, <4>1, TaskArrivals DEF DispatchInv
      <4>3. t \in Targets
        BY <3>2 DEF DispatchInv, TypeOK
      <4>4. View(d, t) # "none" /\ View(d, t) # "sent"
        BY <4>2 DEF DispatchInv, SessionInStep
      <4>5. rows[d[1]][t] # "sent"
        BY <4>2, <4>3, <4>4 DEF DispatchInv, SessionInStep, Active, Committed, View
      <4>6. pc[e] # "done" /\ pc[e] # "idle"
        BY <3>1, <3>2, <4>5 DEF DispatchInv, Accounted, Committed, TaskInStep
      <4>7. Active(d) /\ Active(e)
        BY <4>2, <4>6 DEF DispatchInv, TypeOK, Active
      <4>8. rows[d[1]][t] = "none"
        BY <3>2, <4>3, <4>7, BothActive DEF DispatchInv
      <4>9. sess[e][t] = "sent" /\ sess[d][t] # "none"
        BY <3>2, <4>3, <4>4, <4>7, <4>8 DEF DispatchInv, SessionInStep, View
      <4> QED  BY <3>2, <4>3, <4>8, <4>9 DEF DispatchInv, KeyUnique, Committed
    <3> QED  BY <3>1, <3>2 DEF DispatchedOnce
  <2>2. CASE SomeRetry
    <3>1. hit' = hit /\ lost \subseteq lost'
      BY <2>2, RetryFrame DEF SomeRetry, DispatchInv
    <3> QED  BY <3>1 DEF DispatchedOnce
  <2>3. CASE UNCHANGED vars
    BY <2>3 DEF vars, outside, DispatchedOnce
  <2> QED  BY <2>1, <2>2, <2>3 DEF Next, SomeRetry
<1> QED  BY <1>1, <1>2, DispatchIsSound, PTL DEF Spec

\* Dead letters: an alert on record that reached nobody is one in full, and where there
\* is one, some dispatch delivered nothing (_dead_letter at the end of dispatch_alert).
THEOREM DeadLettersAreHonest == Spec => []DeadLetterMeansNobody
<1>1. Init => DeadLetterMeansNobody
  <2> SUFFICES ASSUME Init PROVE DeadLetterMeansNobody
    OBVIOUS
  <2>1. \A a \in Approvals, t \in Targets : rows[a][t] = "none"
    BY DEF Init, NoRow
  <2> QED  BY <2>1 DEF DeadLetterMeansNobody
<1>2. DispatchInv /\ DeadLetterMeansNobody /\ [Next]_vars => DeadLetterMeansNobody'
  <2> SUFFICES ASSUME DispatchInv, DeadLetterMeansNobody, [Next]_vars,
                      NEW a \in Approvals
               PROVE  /\ (\E t \in Targets : rows'[a][t] # "none") /\ (\A t \in Targets : rows'[a][t] # "sent")
                           => \A t \in Targets : rows'[a][t] = "dead_letter"
                      /\ (\E t \in Targets : rows'[a][t] = "dead_letter")
                           => \E d \in Tasks : d[1] = a /\ pc'[d] = "done" /\ hit'[d] = {}
    BY DEF DeadLetterMeansNobody
  <2>1. ASSUME NEW d \in Tasks, TaskStep(d), CommitDispatch(d), a = d[1]
        PROVE  /\ (\E t \in Targets : rows'[a][t] # "none") /\ (\A t \in Targets : rows'[a][t] # "sent")
                    => \A t \in Targets : rows'[a][t] = "dead_letter"
               /\ (\E t \in Targets : rows'[a][t] = "dead_letter")
                    => \E e \in Tasks : e[1] = a /\ pc'[e] = "done" /\ hit'[e] = {}
    <3>1. /\ pc[d] = "commit" /\ pc'[d] = "done" /\ hit' = hit
          /\ \A t \in Targets : rows'[a][t] = View(d, t)
          /\ \A e \in Tasks : pc[e] = "done" => pc'[e] = "done"
      BY <2>1 DEF CommitDispatch, Goto, outside, DispatchInv, TypeOK
    <3>2. TypeOK /\ TaskInStep(d) /\ SessionInStep(d) /\ KeysInOrder(d)
      BY DEF DispatchInv
    <3>3. ASSUME \A t \in Targets : rows'[a][t] # "sent", \E t \in Targets : rows'[a][t] # "none", NEW t \in Targets
          PROVE  rows'[a][t] = "dead_letter"
      <4>1. \A u \in Targets : sess[d][u] # "sent"
        BY <3>1, <3>3 DEF View
      <4>2. ~reached[d]
        BY <3>1, <3>2, <4>1 DEF TaskInStep, SessionInStep, Active, TypeOK
      <4>3. at[d].tier = Len(Plan) + 1
        BY <3>1, <3>2, <4>2 DEF TaskInStep
      <4>4. View(d, t) # "none"
        <5>1. PICK k \in DOMAIN Plan : \E j \in DOMAIN Plan[k] : t = Plan[k][j]
          BY PlanFacts
        <5>2. k < at[d].tier
          BY <4>3, <5>1, PlanFacts
        <5> QED  BY <3>1, <3>2, <5>1, <5>2 DEF KeysInOrder, Active
      <4>5. CASE attempted[d]
        <5>1. View(d, t) # "failed" /\ View(d, t) \in RowStatus \ {"pending"}
          BY <3>1, <3>2, <4>2, <4>5, ViewType DEF SessionInStep
        <5> QED  BY <3>1, <3>3, <4>4, <5>1 DEF RowStatus
      <4>6. CASE ~attempted[d]
        <5>1. \A u \in Targets : sess[d][u] = "none"
          BY <3>1, <3>2, <4>6 DEF SessionInStep
        <5>2. \A u \in Targets : rows'[a][u] = rows[a][u]
          BY <2>1, <3>1, <5>1 DEF View
        <5> QED  BY <3>3, <5>2 DEF DeadLetterMeansNobody
      <4> QED  BY <4>5, <4>6
    <3>4. ASSUME NEW t \in Targets, rows'[a][t] = "dead_letter"
          PROVE  \E e \in Tasks : e[1] = a /\ pc'[e] = "done" /\ hit'[e] = {}
      <4>1. CASE sess[d][t] = "none"
        <5>1. rows[a][t] = "dead_letter"
          BY <2>1, <3>1, <3>4, <4>1 DEF View
        <5> QED  BY <3>1, <5>1 DEF DeadLetterMeansNobody
      <4>2. CASE sess[d][t] # "none"
        <5>1. sess[d][t] = "dead_letter"
          BY <3>1, <3>4, <4>2 DEF View
        <5>2. hit[d] = {}
          BY <3>2, <5>1 DEF SessionInStep, TaskInStep
        <5> QED  BY <2>1, <3>1, <5>2
      <4> QED  BY <4>1, <4>2
    <3> QED  BY <3>3, <3>4
  <2>2. ASSUME NEW d \in Tasks, TaskStep(d), ~(CommitDispatch(d) /\ a = d[1])
        PROVE  /\ \A t \in Targets : rows'[a][t] = rows[a][t]
               /\ \A e \in Tasks : pc[e] = "done" => pc'[e] = "done" /\ hit'[e] = hit[e]
    <3>1. \A t \in Targets : rows'[a][t] = rows[a][t]
      BY <2>2, CommittedRows DEF DispatchInv
    <3>2. pc[d] # "done" /\ \A e \in Tasks \ {d} : pc'[e] = pc[e] /\ hit'[e] = hit[e]
      BY <2>2, TaskFrame DEF DispatchInv
    <3> QED  BY <3>1, <3>2
  <2>3. ASSUME SomeRetry \/ UNCHANGED vars
        PROVE  /\ \A t \in Targets : (rows'[a][t] # rows[a][t] => rows'[a][t] = "sent") /\ (rows'[a][t] = "none" <=> rows[a][t] = "none")
               /\ pc' = pc /\ hit' = hit
    <3>1. CASE SomeRetry
      BY <3>1, RetryRows, RetryFrame DEF SomeRetry, DispatchInv
    <3>2. CASE UNCHANGED vars
      BY <3>2 DEF vars, taskVars, outside
    <3> QED  BY <2>3, <3>1, <3>2
  <2>4. CASE SomeRetry \/ UNCHANGED vars
    <3>1. (\A t \in Targets : rows'[a][t] # "sent") => \A t \in Targets : rows'[a][t] = rows[a][t]
      BY <2>3, <2>4
    <3>2. \A t \in Targets : rows'[a][t] = "dead_letter" => rows[a][t] = "dead_letter"
      BY <2>3, <2>4
    <3> QED  BY <2>3, <2>4, <3>1, <3>2 DEF DeadLetterMeansNobody
  <2>5. ASSUME NEW d \in Tasks, TaskStep(d), ~(CommitDispatch(d) /\ a = d[1])
        PROVE  /\ (\E t \in Targets : rows'[a][t] # "none") /\ (\A t \in Targets : rows'[a][t] # "sent")
                    => \A t \in Targets : rows'[a][t] = "dead_letter"
               /\ (\E t \in Targets : rows'[a][t] = "dead_letter")
                    => \E e \in Tasks : e[1] = a /\ pc'[e] = "done" /\ hit'[e] = {}
    BY <2>2, <2>5 DEF DeadLetterMeansNobody
  <2> QED  BY <2>1, <2>4, <2>5 DEF Next, SomeRetry
<1> QED  BY <1>1, <1>2, DispatchIsSound, PTL DEF Spec
=============================================================================
