----------------------------- MODULE MCDispatch -----------------------------
(***************************************************************************)
(* Instances of Dispatch: Slack first, e-mail to two addresses behind it.  *)
(* Here, too, the two loops that compute the plan, to compare it with them.*)
(***************************************************************************)
EXTENDS Dispatch, SequencesExt

SlackThenEmail == <<"slack", "email">>
TwoAddresses   == <<"lead", "oncall">>

\* resolve_targets: the targets of all channels in one list.
AllTargets == FlattenSeq([i \in DOMAIN ChannelOrder |-> resolve_targets(ChannelOrder[i])])

\* Consecutive targets of one channel form a tier.
failover_plan(targets) ==
  FoldLeft(LAMBDA tiers, target :
             IF tiers # <<>> /\ Last(tiers)[1].channel = target.channel
             THEN Append(Front(tiers), Append(Last(tiers), target))
             ELSE Append(tiers, <<target>>),
           <<>>, targets)

ASSUME PlanIsFailoverPlan == failover_plan(AllTargets) = Plan
=============================================================================
