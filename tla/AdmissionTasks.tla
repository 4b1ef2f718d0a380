--------------------------- MODULE AdmissionTasks ---------------------------
(***************************************************************************)
(* The daemon serves every connection in a task of its own on a            *)
(* multi-threaded runtime, over a store with no lock between statements.   *)
(* Here the owner admits a joiner step by step (handle_redeem_group_invite *)
(* after redeem_group_invite): the transaction, the roster read, the bump, *)
(* the push and the reply.  Other admissions, kicks and whole handlers of  *)
(* GroupRoster run between the steps.  Contributions do not change.        *)
(***************************************************************************)
EXTENDS GroupRoster

CONSTANT MaxTasks  \* bound: admissions in progress

ASSUME AdmissionTasksAssumption == MaxTasks \in Nat

VARIABLE tasks  \* the admissions in progress: peer, step, roster and epoch read

taskVars == <<vars, tasks>>

Advance(t, next) == tasks' = (tasks \ {t}) \cup next

Joining(d) == \E t \in tasks : t.peer = d

-----------------------------------------------------------------------------
(* The transaction of redeem_group_invite. *)
BeginAdmission(m) ==
  /\ m \in msgs
  /\ m.type = "redeem"
  /\ Owner \in hasGroup
  /\ members' = [members EXCEPT ![Owner] = @ \cup {m.from}]
  /\ contrib' = [contrib EXCEPT ![Owner][m.from] = @ \cup m.slots]
  /\ grants' = [grants EXCEPT ![Owner] = @ \cup GrantsFor(Owner, Own(Owner), {m.from})]
  /\ Exchange({m}, {})
  /\ Cardinality(tasks) < MaxTasks
  /\ tasks' = tasks \cup {[peer |-> m.from, slots |-> m.slots,
                            step |-> "roster", roster |-> {}, epoch |-> 0]}
  /\ UNCHANGED <<hasGroup, epoch, versions>>

(* Its last statement, after the commit: the roster to push and answer. *)
ReadRoster(t) ==
  /\ t.step = "roster" /\ Owner \in hasGroup
  /\ Advance(t, {[t EXCEPT !.step = "bump", !.roster = members[Owner]]})
  /\ UNCHANGED vars

(* bump_roster_epoch is one statement, UPDATE ... RETURNING.  A slip reads *)
(* the epoch and leaves the update to another statement.                   *)
EpochRead == epoch[Owner]
EpochReturned == epoch'[Owner]

BumpForAdmission(t) ==
  /\ t.step = "bump" /\ Owner \in hasGroup
  /\ BumpEpoch(members[Owner])
  /\ Advance(t, {[t EXCEPT !.step = "send", !.epoch = EpochReturned]})
  /\ UNCHANGED <<hasGroup, members, contrib, grants, msgs>>

(* The shares and the recipients are read last. *)
SendAdmission(t) ==
  /\ t.step = "send" /\ Owner \in hasGroup
  /\ LET carried == [members: {t.roster}, contrib: {RosterShares(t.roster)}, epoch: {t.epoch}]
     IN Send({[type |-> "memberAdded", to |-> p, members |-> r.members,
               contrib |-> r.contrib, epoch |-> r.epoch] :
                 p \in members[Owner] \ {Owner, t.peer}, r \in carried}
             \cup {[type |-> "joined", to |-> t.peer, slots |-> t.slots, members |-> r.members,
                    contrib |-> r.contrib, epoch |-> r.epoch] : r \in carried})
  /\ Advance(t, {})
  /\ UNCHANGED <<stores, versions>>

(* A statement fails (the store is busy, the group has been dropped), or   *)
(* the daemon stops: the steps left do not happen.                         *)
FailTask(t) ==
  /\ Advance(t, {})
  /\ UNCHANGED vars

-----------------------------------------------------------------------------
TaskInit == Init /\ tasks = {}

(* What other handlers and the network do, whole, between two steps. *)
Whole ==
  \/ \E d \in Others \ hasGroup : ~Joining(d) /\ \E slots \in SUBSET Slots : StartJoin(d, slots)
  \/ \E d \in Peers : Leave(d) \/ StartSync(d) \/ Kick(d)
  \/ Disband
  \/ \E m \in msgs :
       \/ m.type # "redeem" /\ Deliver(m)
       \/ Owner \notin hasGroup /\ HandleRedeem(m)
       \/ Lose(m)

Step(t) == ReadRoster(t) \/ BumpForAdmission(t) \/ SendAdmission(t) \/ FailTask(t)

TaskNext ==
  \/ Whole /\ UNCHANGED tasks
  \/ \E m \in msgs : BeginAdmission(m)
  \/ \E t \in tasks : Step(t)

TaskSpec == TaskInit /\ [][TaskNext]_taskVars

Settled(m) == Lose(m) \/ (m.type # "redeem" /\ Deliver(m))

(* A handler goes on until it is done or fails; the rest as in GroupRoster. *)
TaskFairness ==
  /\ WF_taskVars(\E t \in tasks : Step(t))
  /\ WF_taskVars(\E m \in msgs : m.type \notin {"sync", "synced"} /\ Settled(m) /\ UNCHANGED tasks)
  /\ \A d \in Others :
    /\ SF_taskVars(StartSync(d) /\ UNCHANGED tasks)
    /\ SF_taskVars(/\ \E m \in msgs : m.type = "sync" /\ m.from = d /\ HandleSync(m)
                   /\ UNCHANGED tasks)
    /\ SF_taskVars(/\ \E m \in msgs : m.type = "synced" /\ m.to = d /\ HandleSynced(m)
                   /\ UNCHANGED tasks)

TaskFairSpec == TaskSpec /\ TaskFairness

-----------------------------------------------------------------------------
(* No two pushes of different rosters share an epoch, however their        *)
(* handlers interleave: a receiver may discard an equal epoch as a         *)
(* duplicate.                                                              *)
OneRosterPerEpoch ==
  \A m, n \in msgs :
    /\ m.type \in {"joined", "memberAdded"}
    /\ n.type \in {"joined", "memberAdded", "memberRemoved"}
    /\ m.epoch = n.epoch
    => n.type # "memberRemoved" /\ m.members = n.members
=============================================================================
