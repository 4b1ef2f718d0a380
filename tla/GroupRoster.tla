---------------------------- MODULE GroupRoster ----------------------------
(***************************************************************************)
(* The roster protocol of one sharing group: src/src/remote/groups.rs over *)
(* the tables of src/src/remote/state/group.rs, one store per device.      *)
(*                                                                         *)
(* The owner's store is the source of truth.  Membership changes raise the *)
(* owner's roster epoch and are pushed to the members; members pull the    *)
(* roster when their copy is old; every device lists the shares it         *)
(* contributes and hands every other member a read grant on them.          *)
(*                                                                         *)
(* An action is one whole handler.  The network loses, delays and reorders *)
(* requests and replies (every exchange is a connection and a task of its  *)
(* own, with a time limit).  Handlers of one device that overlap inside a  *)
(* handler are the subject of AdmissionTasks.                              *)
(***************************************************************************)
EXTENDS Naturals, Sequences, FiniteSets

CONSTANTS
  Peers,     \* devices, each known by its transport identity
  Owner,     \* the device that created the group
  Slots,     \* workspaces a device can contribute: its share ids are <<device, slot>>
  MaxEpoch,  \* bound: roster versions the owner creates
  MaxMsgs    \* bound: requests and replies in flight

ASSUME GroupRosterAssumption ==
  /\ Owner \in Peers
  /\ MaxEpoch \in Nat
  /\ MaxMsgs \in Nat

VARIABLES
  hasGroup,  \* the devices whose store has the group's row
  epoch,     \* groups.roster_epoch of each device
  members,   \* group_members of each device
  contrib,   \* group_shares: contrib[d][p] is what d's store lists for p
  grants,    \* <<slot, peer>> in grants[d]: d's slot may be read by peer through the group
  msgs,      \* requests and replies in flight
  versions   \* history: the owner's member list at each epoch it has reached

vars == <<hasGroup, epoch, members, contrib, grants, msgs, versions>>
stores == <<hasGroup, epoch, members, contrib, grants>>

Others == Peers \ {Owner}
Contribution == [Peers -> SUBSET Slots]
NoContribution == [p \in Peers |-> {}]

Redeem == [type: {"redeem"}, from: Peers, slots: SUBSET Slots]
Joined == [type: {"joined"}, to: Peers, slots: SUBSET Slots,
           members: SUBSET Peers, contrib: Contribution, epoch: Nat]
MemberAdded == [type: {"memberAdded"}, to: Peers,
                members: SUBSET Peers, contrib: Contribution, epoch: Nat]
MemberRemoved == [type: {"memberRemoved"}, to: Peers, peer: Peers, epoch: Nat]
ShareChange == [type: {"shareAdded", "shareRemoved"}, from: Peers, to: Peers, slot: Slots]
LeaveRequest == [type: {"leave"}, from: Peers]
Sync == [type: {"sync"}, from: Peers, slots: SUBSET Slots]
Synced == [type: {"synced"}, to: Peers, member: BOOLEAN,
           members: SUBSET Peers, contrib: Contribution, epoch: Nat]
Message == Redeem \cup Joined \cup MemberAdded \cup MemberRemoved
             \cup ShareChange \cup LeaveRequest \cup Sync \cup Synced

-----------------------------------------------------------------------------
(* The network.  A broadcast is one message to every peer of a list: the   *)
(* set of records that differ in "to" alone.  A handler consumes the       *)
(* message it answers and puts its own in flight; a message that is lost   *)
(* is never handled.                                                       *)

Exchange(consumed, sent) ==
  /\ msgs' = (msgs \ consumed) \cup sent
  /\ Cardinality(msgs') <= MaxMsgs

Send(sent) == Exchange({}, sent)

(* A slip: the removal goes out under the epoch before the bump. *)
RemovalEarly(peers, peer, e) ==
  [type: {"memberRemoved"}, to: peers \ {Owner}, peer: {peer}, epoch: {e - 1}]
Removal(peers, peer, e) ==
  [type: {"memberRemoved"}, to: peers \ {Owner}, peer: {peer}, epoch: {e}]

Lose(m) ==
  /\ m \in msgs
  /\ msgs' = msgs \ {m}
  /\ UNCHANGED <<stores, versions>>

-----------------------------------------------------------------------------
(* Store operations on device d's tables.                                  *)

Own(d) == contrib[d][d]

(* Grants d gives on slots to every peer listed, itself excepted.  The     *)
(* slip writes the columns the other way round.                            *)
GrantsSwapped(d, slots, peers) == (peers \ {d}) \X slots
GrantsFor(d, slots, peers) == slots \X (peers \ {d})

(* revoke_member_access for d's own shares.  Two slips: nothing is revoked *)
(* and the grants of every peer are.                                       *)
NothingRevoked(d, peers) == grants[d]
AllRevoked(d, peers) == IF Own(d) = {} THEN grants[d] ELSE {}
Revoked(d, peers) == grants[d] \ GrantsFor(d, Own(d), peers)

(* require_group_owner on d's store, and the member rule of the router; a  *)
(* slip lets every sender through.                                         *)
FromOwner(d) == d \in hasGroup /\ Owner \in members[d]
AnySender(d, sender) == d \in hasGroup
FromMember(d, sender) == d \in hasGroup /\ sender \in members[d]

(* A slip the epoch guard exists to prevent: every push is applied. *)
AnyEpoch(d, e) == TRUE
Newer(d, e) == e > epoch[d]

(* A slip: the next epoch is stored, not the one observed. *)
AdoptNextEpoch(d, e) == epoch' = [epoch EXCEPT ![d] = e + 1]
AdoptEpoch(d, e) ==
  epoch' = [epoch EXCEPT ![d] = IF e > @ THEN e ELSE @]

(* bump_roster_epoch, always by the owner; next is its member list then. *)
BumpEpoch(next) ==
  /\ Len(versions) < MaxEpoch
  /\ epoch' = [epoch EXCEPT ![Owner] = @ + 1]
  /\ versions' = Append(versions, next)

(* upsert_roster_sql: the shares to grant are read before the rows are     *)
(* written, and the rows of d itself are written like any other.           *)
Upserted(d, own, cs) == [p \in Peers |-> contrib[d][p] \cup cs[p] \cup (IF p = d THEN own ELSE {})]

UpsertRoster(d, own, ms, cs) ==
  /\ members' = [members EXCEPT ![d] = @ \cup ms]
  /\ contrib' = [contrib EXCEPT ![d] = Upserted(d, own, cs)]
  /\ grants' = [grants EXCEPT ![d] = @ \cup GrantsFor(d, own, ms)]

(* apply_roster_reconcile: upsert, prune what the roster does not list for *)
(* the others, and drop the members it no longer lists with their grants.  *)
ReconcileRoster(d, ms, cs) ==
  LET own == Own(d) \cup cs[d]
      gone == members[d] \ ms
  IN /\ members' = [members EXCEPT ![d] = ms]
     /\ contrib' = [contrib EXCEPT ![d] = [p \in Peers |-> IF p = d THEN own ELSE cs[p]]]
     /\ grants' = [grants EXCEPT ![d] =
                     (@ \cup GrantsFor(d, Own(d), ms)) \ GrantsFor(d, own, gone)]

(* A slip: the member row goes and the contribution rows stay. *)
RowsKept(d, p) == contrib
RowsRemoved(d, p) == [contrib EXCEPT ![d][p] = {}]

(* revoke_member_access, then remove_member. *)
RemoveMember(d, p) ==
  /\ grants' = [grants EXCEPT ![d] = Revoked(d, {p})]
  /\ members' = [members EXCEPT ![d] = @ \ {p}]
  /\ contrib' = RowsRemoved(d, p)

(* drop_group: revoke, then delete the row; its tables cascade. *)
DropGroup(d) ==
  /\ grants' = [grants EXCEPT ![d] = Revoked(d, members[d])]
  /\ hasGroup' = hasGroup \ {d}
  /\ members' = [members EXCEPT ![d] = {}]
  /\ contrib' = [contrib EXCEPT ![d] = NoContribution]
  /\ epoch' = [epoch EXCEPT ![d] = 0]

(* member_info_from_store for every member of the owner's store. *)
RosterShares(ms) == [p \in Peers |-> IF p \in ms THEN contrib[Owner][p] ELSE {}]

-----------------------------------------------------------------------------
(* Joining.                                                                *)

JoinPending(d) == \E m \in msgs : \/ m.type = "redeem" /\ m.from = d
                                  \/ m.type = "joined" /\ m.to = d

(* local_group_join on a device that is not in the group: the ticket goes  *)
(* to the owner with the workspaces to contribute.  One join at a time.    *)
StartJoin(d, slots) ==
  /\ d \in Others \ hasGroup
  /\ ~JoinPending(d)
  /\ slots # {}
  /\ Send({[type |-> "redeem", from |-> d, slots |-> slots]})
  /\ UNCHANGED <<stores, versions>>

(* handle_redeem_group_invite: admit the joiner (again, if it retries),    *)
(* grant it the owner's shares, bump, push the roster, reply with it.      *)
Admit(m, ms, cs) ==
  LET d == m.from
      e == epoch[Owner] + 1
  IN /\ members' = [members EXCEPT ![Owner] = ms]
     /\ contrib' = [contrib EXCEPT ![Owner][d] = cs[d]]
     /\ grants' = [grants EXCEPT ![Owner] = @ \cup GrantsFor(Owner, Own(Owner), {d})]
     /\ BumpEpoch(ms)
     /\ Exchange({m}, [type: {"memberAdded"}, to: ms \ {Owner, d},
                        members: {ms}, contrib: {cs}, epoch: {e}]
                        \cup {[type |-> "joined", to |-> d, slots |-> m.slots,
                               members |-> ms, contrib |-> cs, epoch |-> e]})
     /\ UNCHANGED hasGroup

HandleRedeem(m) ==
  /\ m \in msgs
  /\ m.type = "redeem"
  /\ \/ /\ Owner \in hasGroup
        /\ LET ms == members[Owner] \cup {m.from}
           IN Admit(m, ms, [RosterShares(ms) EXCEPT ![m.from] = @ \cup m.slots])
     \/ /\ Owner \notin hasGroup
        /\ Exchange({m}, {})
        /\ UNCHANGED <<stores, versions>>

(* The rest of redeem_group_remote: the group row, this device's member    *)
(* row and shares, then the owner's roster and its epoch.                  *)
HandleJoined(m) ==
  /\ m \in msgs
  /\ m.type = "joined"
  /\ hasGroup' = hasGroup \cup {m.to}
  /\ UpsertRoster(m.to, Own(m.to) \cup m.slots, m.members \cup {m.to}, m.contrib)
  /\ AdoptEpoch(m.to, m.epoch)
  /\ Exchange({m}, {})
  /\ UNCHANGED versions

-----------------------------------------------------------------------------
(* Membership pushes.                                                      *)

(* merge_member, behind the owner rule of the router. *)
HandleMemberAdded(m) ==
  /\ m \in msgs
  /\ m.type = "memberAdded"
  /\ \/ /\ FromOwner(m.to)
        /\ Newer(m.to, m.epoch)
        /\ UpsertRoster(m.to, Own(m.to), m.members, m.contrib)
        /\ AdoptEpoch(m.to, m.epoch)
        /\ UNCHANGED hasGroup
     \/ /\ ~(FromOwner(m.to) /\ Newer(m.to, m.epoch))
        /\ UNCHANGED stores
  /\ Exchange({m}, {})
  /\ UNCHANGED versions

(* handle_member_removed: the removed device drops the group, the others   *)
(* drop the member.                                                        *)
HandleMemberRemoved(m) ==
  /\ m \in msgs
  /\ m.type = "memberRemoved"
  /\ \/ /\ FromOwner(m.to)
        /\ Newer(m.to, m.epoch)
        /\ \/ /\ m.peer = m.to
              /\ DropGroup(m.to)
           \/ /\ m.peer # m.to
              /\ RemoveMember(m.to, m.peer)
              /\ AdoptEpoch(m.to, m.epoch)
              /\ UNCHANGED hasGroup
     \/ /\ ~(FromOwner(m.to) /\ Newer(m.to, m.epoch))
        /\ UNCHANGED stores
  /\ Exchange({m}, {})
  /\ UNCHANGED versions

(* remove_group_member: the owner's kick, pushed to the list before it. *)
Kick(peer) ==
  /\ Owner \in hasGroup
  /\ peer \in members[Owner] \ {Owner}
  /\ RemoveMember(Owner, peer)
  /\ BumpEpoch(members[Owner] \ {peer})
  /\ Send(Removal(members[Owner], peer, epoch[Owner] + 1))
  /\ UNCHANGED hasGroup

(* local_group_rename: the name travels with the next pull. *)
Rename ==
  /\ Owner \in hasGroup
  /\ BumpEpoch(members[Owner])
  /\ UNCHANGED <<hasGroup, members, contrib, grants, msgs>>

(* leave_group on a member: drop first, then tell the owner. *)
Leave(d) ==
  /\ d \in hasGroup \ {Owner}
  /\ DropGroup(d)
  /\ Send(IF Owner \in members[d] THEN {[type |-> "leave", from |-> d]} ELSE {})
  /\ UNCHANGED versions

(* leave_group on the owner: every member is sent its own removal under a  *)
(* fresh epoch, then the owner's copy goes.                                *)
Disband ==
  /\ Owner \in hasGroup
  /\ Len(versions) < MaxEpoch
  /\ DropGroup(Owner)
  /\ versions' = Append(versions, {})
  /\ Send(UNION {Removal({p}, p, epoch[Owner] + 1) : p \in members[Owner]})

(* handle_leave on the owner, behind the member rule of the router. *)
HandleLeave(m) ==
  /\ m \in msgs
  /\ m.type = "leave"
  /\ \/ /\ FromMember(Owner, m.from)
        /\ RemoveMember(Owner, m.from)
        /\ BumpEpoch(members[Owner] \ {m.from})
        /\ Exchange({m}, Removal(members[Owner], m.from, epoch[Owner] + 1))
        /\ UNCHANGED hasGroup
     \/ /\ ~FromMember(Owner, m.from)
        /\ Exchange({m}, {})
        /\ UNCHANGED <<stores, versions>>

-----------------------------------------------------------------------------
(* Contribution changes.                                                   *)

Announce(type, d, slot) == [type: {type}, from: {d}, to: members[d] \ {d}, slot: {slot}]

(* adjust_group_shares with one box newly checked ... *)
AddShare(d, slot) ==
  /\ d \in hasGroup
  /\ slot \notin Own(d)
  /\ contrib' = [contrib EXCEPT ![d][d] = @ \cup {slot}]
  /\ grants' = [grants EXCEPT ![d] = @ \cup GrantsFor(d, {slot}, members[d])]
  /\ Send(Announce("shareAdded", d, slot))
  /\ UNCHANGED <<hasGroup, epoch, members, versions>>

(* ... and with one box cleared, never the last. *)
WithdrawShare(d, slot) ==
  /\ d \in hasGroup
  /\ slot \in Own(d)
  /\ Own(d) # {slot}
  /\ contrib' = [contrib EXCEPT ![d][d] = @ \ {slot}]
  /\ grants' = [grants EXCEPT ![d] = @ \ GrantsFor(d, {slot}, members[d])]
  /\ Send(Announce("shareRemoved", d, slot))
  /\ UNCHANGED <<hasGroup, epoch, members, versions>>

(* handle_share_added and handle_share_removed, behind the member rule. *)
ApplyShareChange(m) ==
  contrib' = [contrib EXCEPT ![m.to][m.from] =
                IF m.type = "shareAdded" THEN @ \cup {m.slot} ELSE @ \ {m.slot}]

HandleShareChange(m) ==
  /\ m \in msgs
  /\ m.type \in {"shareAdded", "shareRemoved"}
  /\ \/ FromMember(m.to, m.from) /\ ApplyShareChange(m)
     \/ ~FromMember(m.to, m.from) /\ UNCHANGED contrib
  /\ Exchange({m}, {})
  /\ UNCHANGED <<hasGroup, epoch, members, grants, versions>>

-----------------------------------------------------------------------------
(* Pulling the roster.                                                     *)

(* sync_group on a member; on the owner it only stamps the time. *)
StartSync(d) ==
  /\ d \in hasGroup \ {Owner}
  /\ Owner \in members[d]
  /\ Send({[type |-> "sync", from |-> d, slots |-> Own(d)]})
  /\ UNCHANGED <<stores, versions>>

Answer(d, member, ms, cs) ==
  [type |-> "synced", to |-> d, member |-> member,
   members |-> ms, contrib |-> cs, epoch |-> epoch[Owner]]

(* A peer the owner does not list, or a group it does not know. *)
RefuseSync(m) ==
  /\ ~FromMember(Owner, m.from)
  /\ UNCHANGED stores
  /\ Exchange({m}, {Answer(m.from, FALSE, {}, NoContribution)})

(* sync_member_shares when the member reports a share the owner's store    *)
(* lacks: the row is added, the grant of a share that is not in the        *)
(* owner's own shares table breaks its foreign key, the request fails.     *)
FailSync(m) ==
  /\ FromMember(Owner, m.from)
  /\ \E slot \in m.slots \ contrib[Owner][m.from] :
       contrib' = [contrib EXCEPT ![Owner][m.from] = @ \cup {slot}]
  /\ UNCHANGED <<hasGroup, epoch, members, grants>>
  /\ Exchange({m}, {})

(* Otherwise what the member no longer reports is withdrawn, and the reply *)
(* carries the roster. *)
AnswerSync(m) ==
  /\ FromMember(Owner, m.from)
  /\ m.slots \subseteq contrib[Owner][m.from]
  /\ contrib' = [contrib EXCEPT ![Owner][m.from] = m.slots]
  /\ UNCHANGED <<hasGroup, epoch, members, grants>>
  /\ Exchange({m}, {Answer(m.from, TRUE, members[Owner],
                           [RosterShares(members[Owner]) EXCEPT ![m.from] = m.slots])})

HandleSync(m) ==
  /\ m \in msgs
  /\ m.type = "sync"
  /\ RefuseSync(m) \/ FailSync(m) \/ AnswerSync(m)
  /\ UNCHANGED versions

(* A slip: a device the owner no longer lists keeps its copy. *)
KeepGroup(d) == UNCHANGED stores
GroupGone(d) == DropGroup(d)

(* The rest of sync_group: not a member any more, a roster no newer than   *)
(* the watermark, or one to reconcile with.                                *)
HandleSynced(m) ==
  /\ m \in msgs
  /\ m.type = "synced"
  /\ \/ /\ m.to \in hasGroup /\ ~m.member
        /\ GroupGone(m.to)
     \/ /\ m.to \in hasGroup /\ m.member /\ Newer(m.to, m.epoch)
        /\ ReconcileRoster(m.to, m.members, m.contrib)
        /\ AdoptEpoch(m.to, m.epoch)
        /\ UNCHANGED hasGroup
     \/ /\ ~(m.to \in hasGroup /\ (m.member => Newer(m.to, m.epoch)))
        /\ UNCHANGED stores
  /\ Exchange({m}, {})
  /\ UNCHANGED versions

-----------------------------------------------------------------------------
(* The group just created: the owner, its first contribution, epoch 0.     *)
Init ==
  /\ hasGroup = {Owner}
  /\ epoch = [p \in Peers |-> 0]
  /\ members = [p \in Peers |-> IF p = Owner THEN {Owner} ELSE {}]
  /\ \E slot \in Slots :
       contrib = [p \in Peers |-> [q \in Peers |->
                    IF p = Owner /\ q = Owner THEN {slot} ELSE {}]]
  /\ grants = [p \in Peers |-> {}]
  /\ msgs = {}
  /\ versions = <<>>

Deliver(m) ==
  \/ HandleRedeem(m)
  \/ HandleJoined(m)
  \/ HandleMemberAdded(m)
  \/ HandleMemberRemoved(m)
  \/ HandleLeave(m)
  \/ HandleShareChange(m)
  \/ HandleSync(m)
  \/ HandleSynced(m)

Command ==
  \/ \E d \in Peers, slots \in SUBSET Slots : StartJoin(d, slots)
  \/ \E d \in Peers : Leave(d) \/ StartSync(d) \/ Kick(d)
  \/ \E d \in Peers, slot \in Slots : AddShare(d, slot) \/ WithdrawShare(d, slot)
  \/ Rename
  \/ Disband

Next ==
  \/ Command
  \/ \E m \in msgs : Deliver(m) \/ Lose(m)

Spec == Init /\ [][Next]_vars

(* A device in use asks again whenever its roster is older than            *)
(* SYNC_TTL_SECS (every listing and every query starts a pull), and a      *)
(* link that is tried again and again gets a request or a reply through    *)
(* now and then.  Any other exchange ends, handled or timed out.           *)
Fairness ==
  /\ WF_vars(\E m \in msgs : m.type \notin {"sync", "synced"} /\ (Deliver(m) \/ Lose(m)))
  /\ \A d \in Others :
    /\ SF_vars(StartSync(d))
    /\ SF_vars(\E m \in msgs : m.type = "sync" /\ m.from = d /\ HandleSync(m))
    /\ SF_vars(\E m \in msgs : m.type = "synced" /\ m.to = d /\ HandleSynced(m))

FairSpec == Spec /\ Fairness

-----------------------------------------------------------------------------
TypeOK ==
  /\ hasGroup \subseteq Peers
  /\ epoch \in [Peers -> Nat]
  /\ members \in [Peers -> SUBSET Peers]
  /\ contrib \in [Peers -> Contribution]
  /\ grants \in [Peers -> SUBSET (Slots \X Peers)]
  /\ msgs \subseteq Message
  /\ versions \in Seq(SUBSET Peers)

CarriesEpoch(m) == m.type \in {"joined", "memberAdded", "memberRemoved", "synced"}

(* A watermark never runs ahead of the owner: no device and no message     *)
(* carries an epoch the owner has not reached, so no later push of the     *)
(* owner can be taken for stale by a device that has seen only its epochs. *)
EpochsAreOwners ==
  /\ \A d \in Peers : epoch[d] <= Len(versions)
  /\ Owner \in hasGroup => epoch[Owner] = Len(versions)
  /\ \A m \in msgs : CarriesEpoch(m) => m.epoch <= Len(versions)

CarriesRoster(m) == m.type \in {"joined", "memberAdded"} \/ (m.type = "synced" /\ m.member)

(* Every roster in flight is the owner's member list of the epoch it       *)
(* carries: a newer snapshot supersedes an older one.                      *)
SnapshotsAreVersions ==
  /\ Owner \in hasGroup /\ versions # <<>> => members[Owner] = versions[Len(versions)]
  /\ \A m \in msgs : CarriesRoster(m) =>
       m.epoch \in DOMAIN versions /\ m.members = versions[m.epoch]
  /\ \A m \in msgs : m.type = "memberRemoved" =>
       m.epoch \in DOMAIN versions /\ m.peer \notin versions[m.epoch]

(* A device that has the group lists itself and the owner, whatever was    *)
(* lost or reordered: it can still be told, and can still ask.             *)
OwnerAndSelfListed ==
  \A d \in Peers : IF d \in hasGroup THEN {d, Owner} \subseteq members[d] ELSE members[d] = {}

(* Rows of a contribution are only kept for listed members, so a peer that *)
(* comes back with other workspaces does not find its old ones listed.     *)
NoOrphanContribution ==
  \A d, p \in Peers : p \notin members[d] => contrib[d][p] = {}

(* A device's group grants are on what it contributes, and to the members  *)
(* it lists: removal, withdrawal, leaving and disbanding leave no access   *)
(* behind on the device that does them.                                    *)
GrantsSound ==
  \A d \in Peers : grants[d] \subseteq GrantsFor(d, Own(d), members[d])

(* At the owner nothing is missing either: every member reads every        *)
(* contribution of the owner.                                              *)
OwnerGrantsComplete ==
  grants[Owner] = GrantsFor(Owner, Own(Owner), members[Owner])

(* A member's list follows the owner's: a peer enters or leaves it only    *)
(* with a newer epoch, and only as the owner's list of that epoch says, so *)
(* no delayed push or reply readmits a kicked peer or undoes a rejoin.     *)
ChangesFollowOwner ==
  [][\A d \in (hasGroup \cap hasGroup') \ {Owner} :
       members'[d] # members[d] =>
         /\ epoch'[d] > epoch[d]
         /\ members'[d] \ members[d] \subseteq versions'[epoch'[d]]
         /\ (members[d] \ members'[d]) \cap versions'[epoch'[d]] = {}]_vars

(* A device that is not a member any more does not keep the group: even if *)
(* every push about it was lost, a pull makes it drop its copy (unless it  *)
(* is admitted again first).                                               *)
ExpelledLeaves ==
  \A d \in Others :
    d \in hasGroup /\ d \notin members[Owner] ~> d \notin hasGroup \/ d \in members[Owner]
=============================================================================
