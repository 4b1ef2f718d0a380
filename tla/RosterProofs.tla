---------------------------- MODULE RosterProofs ----------------------------
(* The roster protocol, for any devices, slots, epochs and messages: first  *)
(* with whole handlers (Spec), then with any number of admissions taken     *)
(* apart (TaskSpec).                                                        *)
EXTENDS AdmissionTasks, TLAPS

-----------------------------------------------------------------------------
(* Type correctness.                                                       *)

LEMMA RosterTypes ==
  ASSUME TypeOK, NEW ms \in SUBSET Peers
  PROVE  RosterShares(ms) \in Contribution
BY GroupRosterAssumption DEF TypeOK, RosterShares, Contribution

LEMMA GrantTypes ==
  ASSUME NEW d \in Peers, NEW slots \in SUBSET Slots, NEW peers \in SUBSET Peers
  PROVE  GrantsFor(d, slots, peers) \in SUBSET (Slots \X Peers)
BY DEF GrantsFor

LEMMA OwnType ==
  ASSUME TypeOK, NEW d \in Peers
  PROVE  Own(d) \in SUBSET Slots
BY DEF TypeOK, Own, Contribution

LEMMA UpsertTypes ==
  ASSUME TypeOK, NEW d \in Peers, NEW own \in SUBSET Slots,
         NEW ms \in SUBSET Peers, NEW cs \in Contribution,
         UpsertRoster(d, own, ms, cs)
  PROVE  /\ members' \in [Peers -> SUBSET Peers]
         /\ contrib' \in [Peers -> Contribution]
         /\ grants' \in [Peers -> SUBSET (Slots \X Peers)]
<1>1. Upserted(d, own, cs) \in Contribution
  BY DEF TypeOK, Upserted, Contribution
<1>2. GrantsFor(d, own, ms) \in SUBSET (Slots \X Peers)
  BY GrantTypes
<1>3. QED
  BY <1>1, <1>2 DEF TypeOK, UpsertRoster

LEMMA ReconcileTypes ==
  ASSUME TypeOK, NEW d \in Peers, NEW ms \in SUBSET Peers, NEW cs \in Contribution,
         ReconcileRoster(d, ms, cs)
  PROVE  /\ members' \in [Peers -> SUBSET Peers]
         /\ contrib' \in [Peers -> Contribution]
         /\ grants' \in [Peers -> SUBSET (Slots \X Peers)]
<1>1. Own(d) \in SUBSET Slots /\ cs[d] \in SUBSET Slots
  BY OwnType DEF Contribution
<1>2. GrantsFor(d, Own(d), ms) \in SUBSET (Slots \X Peers)
  BY <1>1, GrantTypes
<1>3. [p \in Peers |-> IF p = d THEN Own(d) \cup cs[d] ELSE cs[p]] \in Contribution
  BY <1>1 DEF Contribution
<1>4. QED
  BY <1>2, <1>3 DEF TypeOK, ReconcileRoster

LEMMA RemoveTypes ==
  ASSUME TypeOK, NEW d \in Peers, NEW p \in Peers, RemoveMember(d, p)
  PROVE  /\ members' \in [Peers -> SUBSET Peers]
         /\ contrib' \in [Peers -> Contribution]
         /\ grants' \in [Peers -> SUBSET (Slots \X Peers)]
<1>1. Revoked(d, {p}) \in SUBSET (Slots \X Peers)
  BY DEF TypeOK, Revoked
<1>2. RowsRemoved(d, p) \in [Peers -> Contribution]
  BY DEF TypeOK, RowsRemoved, Contribution
<1>3. QED
  BY <1>1, <1>2 DEF TypeOK, RemoveMember

LEMMA DropTypes ==
  ASSUME TypeOK, NEW d \in Peers, DropGroup(d)
  PROVE  /\ hasGroup' \subseteq Peers
         /\ epoch' \in [Peers -> Nat]
         /\ members' \in [Peers -> SUBSET Peers]
         /\ contrib' \in [Peers -> Contribution]
         /\ grants' \in [Peers -> SUBSET (Slots \X Peers)]
<1>1. Revoked(d, members[d]) \in SUBSET (Slots \X Peers)
  BY DEF TypeOK, Revoked
<1>2. NoContribution \in Contribution
  BY DEF NoContribution, Contribution
<1>3. QED
  BY <1>1, <1>2 DEF TypeOK, DropGroup

LEMMA AdoptTypes ==
  ASSUME TypeOK, NEW d \in Peers, NEW e \in Nat, AdoptEpoch(d, e)
  PROVE  epoch' \in [Peers -> Nat]
BY DEF TypeOK, AdoptEpoch

LEMMA BumpTypes ==
  ASSUME TypeOK, NEW next \in SUBSET Peers, BumpEpoch(next)
  PROVE  epoch' \in [Peers -> Nat] /\ versions' \in Seq(SUBSET Peers)
BY GroupRosterAssumption DEF TypeOK, BumpEpoch

(* A message in flight has the fields its type says. *)
LEMMA FieldTypes ==
  ASSUME TypeOK, NEW m \in msgs
  PROVE  /\ m.type = "redeem" => m.from \in Peers /\ m.slots \in SUBSET Slots
         /\ m.type = "joined" => /\ m.to \in Peers /\ m.slots \in SUBSET Slots
                                 /\ m.members \in SUBSET Peers /\ m.contrib \in Contribution
                                 /\ m.epoch \in Nat
         /\ m.type = "memberAdded" => /\ m.to \in Peers /\ m.members \in SUBSET Peers
                                      /\ m.contrib \in Contribution /\ m.epoch \in Nat
         /\ m.type = "memberRemoved" => m.to \in Peers /\ m.peer \in Peers /\ m.epoch \in Nat
         /\ m.type \in {"shareAdded", "shareRemoved"} =>
              m.from \in Peers /\ m.to \in Peers /\ m.slot \in Slots
         /\ m.type = "leave" => m.from \in Peers
         /\ m.type = "sync" => m.from \in Peers /\ m.slots \in SUBSET Slots
         /\ m.type = "synced" => /\ m.to \in Peers /\ m.member \in BOOLEAN
                                 /\ m.members \in SUBSET Peers /\ m.contrib \in Contribution
                                 /\ m.epoch \in Nat
BY DEF TypeOK, Message, Redeem, Joined, MemberAdded, MemberRemoved, ShareChange,
       LeaveRequest, Sync, Synced

LEMMA ExchangeTypes ==
  ASSUME TypeOK, NEW consumed, NEW sent \in SUBSET Message, Exchange(consumed, sent)
  PROVE  msgs' \subseteq Message
BY DEF TypeOK, Exchange

LEMMA RemovalTypes ==
  ASSUME NEW peers \in SUBSET Peers, NEW peer \in Peers, NEW e \in Nat
  PROVE  Removal(peers, peer, e) \subseteq Message
BY DEF Removal, Message, MemberRemoved

LEMMA AnnounceTypes ==
  ASSUME TypeOK, NEW type \in {"shareAdded", "shareRemoved"}, NEW d \in Peers, NEW slot \in Slots
  PROVE  Announce(type, d, slot) \subseteq Message
BY DEF TypeOK, Announce, Message, ShareChange

LEMMA AnswerTypes ==
  ASSUME TypeOK, NEW d \in Peers, NEW member \in BOOLEAN,
         NEW ms \in SUBSET Peers, NEW cs \in Contribution
  PROVE  {Answer(d, member, ms, cs)} \subseteq Message
BY GroupRosterAssumption DEF TypeOK, Answer, Message, Synced

LEMMA AdmitTypes ==
  ASSUME TypeOK, NEW m \in msgs, m.type = "redeem", NEW ms \in SUBSET Peers,
         NEW cs \in Contribution, NEW e \in Nat
  PROVE  [type: {"memberAdded"}, to: ms \ {Owner, m.from}, members: {ms},
          contrib: {cs}, epoch: {e}]
           \cup {[type |-> "joined", to |-> m.from, slots |-> m.slots,
                  members |-> ms, contrib |-> cs, epoch |-> e]}
           \subseteq Message
BY FieldTypes DEF Message, MemberAdded, Joined

LEMMA InitTypes == Init => TypeOK
<1> SUFFICES ASSUME Init PROVE TypeOK
  OBVIOUS
<1>1. contrib \in [Peers -> Contribution]
  BY DEF Init, Contribution
<1>2. members \in [Peers -> SUBSET Peers]
  BY GroupRosterAssumption DEF Init
<1>3. versions \in Seq(SUBSET Peers)
  BY DEF Init
<1>4. QED
  BY GroupRosterAssumption, <1>1, <1>2, <1>3 DEF Init, TypeOK

-----------------------------------------------------------------------------
(* Every action keeps the types.                                           *)

LEMMA TypesLose ==
  ASSUME TypeOK, NEW m \in msgs, Lose(m)
  PROVE  TypeOK'
BY DEF TypeOK, Lose, stores

LEMMA TypesStartJoin ==
  ASSUME TypeOK, NEW d \in Peers, NEW slots \in SUBSET Slots, StartJoin(d, slots)
  PROVE  TypeOK'
<1>1. {[type |-> "redeem", from |-> d, slots |-> slots]} \subseteq Message
  BY DEF Message, Redeem
<1>2. msgs' \subseteq Message
  BY <1>1, ExchangeTypes DEF StartJoin, Send
<1>3. QED
  BY <1>2 DEF TypeOK, StartJoin, stores

LEMMA TypesRedeem ==
  ASSUME TypeOK, NEW m \in msgs, HandleRedeem(m)
  PROVE  TypeOK'
<1>1. m.type = "redeem" /\ m.from \in Peers /\ m.slots \in SUBSET Slots
  BY FieldTypes DEF HandleRedeem
<1>2. CASE Owner \in hasGroup
  <2> DEFINE ms == members[Owner] \cup {m.from}
             cs == [RosterShares(ms) EXCEPT ![m.from] = @ \cup m.slots]
  <2>1. Admit(m, ms, cs)
    BY <1>2 DEF HandleRedeem
  <2>2. ms \in SUBSET Peers
    BY <1>1, GroupRosterAssumption DEF TypeOK
  <2>3. cs \in Contribution
    BY <1>1, <2>2, RosterTypes DEF Contribution
  <2> HIDE DEF ms, cs
  <2>4. epoch[Owner] + 1 \in Nat
    BY GroupRosterAssumption DEF TypeOK
  <2>5. members' \in [Peers -> SUBSET Peers] /\ hasGroup' \subseteq Peers
    BY <2>1, <2>2 DEF TypeOK, Admit
  <2>6. contrib' \in [Peers -> Contribution]
    BY <2>1, <2>3, <1>1 DEF TypeOK, Admit, Contribution
  <2>7. grants' \in [Peers -> SUBSET (Slots \X Peers)]
    <3>1. GrantsFor(Owner, Own(Owner), {m.from}) \in SUBSET (Slots \X Peers)
      BY <1>1, OwnType, GrantTypes, GroupRosterAssumption
    <3>2. QED
      BY <2>1, <3>1 DEF TypeOK, Admit
  <2>8. epoch' \in [Peers -> Nat] /\ versions' \in Seq(SUBSET Peers)
    BY <2>1, <2>2, BumpTypes DEF Admit
  <2>9. msgs' \subseteq Message
    BY <1>1, <2>1, <2>2, <2>3, <2>4, AdmitTypes, ExchangeTypes DEF Admit
  <2>10. QED
    BY <2>5, <2>6, <2>7, <2>8, <2>9 DEF TypeOK
<1>3. CASE Owner \notin hasGroup
  BY <1>3, ExchangeTypes DEF HandleRedeem, TypeOK, stores
<1>4. QED
  BY <1>2, <1>3

LEMMA TypesJoined ==
  ASSUME TypeOK, NEW m \in msgs, HandleJoined(m)
  PROVE  TypeOK'
<1>1. /\ m.to \in Peers /\ m.slots \in SUBSET Slots /\ m.epoch \in Nat
      /\ m.members \in SUBSET Peers /\ m.contrib \in Contribution
  BY FieldTypes DEF HandleJoined
<1>2. Own(m.to) \cup m.slots \in SUBSET Slots /\ m.members \cup {m.to} \in SUBSET Peers
  BY <1>1, OwnType
<1>3. /\ members' \in [Peers -> SUBSET Peers]
      /\ contrib' \in [Peers -> Contribution]
      /\ grants' \in [Peers -> SUBSET (Slots \X Peers)]
  BY <1>1, <1>2, UpsertTypes DEF HandleJoined
<1>4. epoch' \in [Peers -> Nat]
  BY <1>1, AdoptTypes DEF HandleJoined
<1>5. msgs' \subseteq Message
  BY ExchangeTypes DEF HandleJoined
<1>6. QED
  BY <1>1, <1>3, <1>4, <1>5 DEF TypeOK, HandleJoined

LEMMA TypesMemberAdded ==
  ASSUME TypeOK, NEW m \in msgs, HandleMemberAdded(m)
  PROVE  TypeOK'
<1>1. /\ m.to \in Peers /\ m.epoch \in Nat
      /\ m.members \in SUBSET Peers /\ m.contrib \in Contribution
  BY FieldTypes DEF HandleMemberAdded
<1>2. msgs' \subseteq Message /\ versions' = versions
  BY ExchangeTypes DEF HandleMemberAdded
<1>3. CASE UpsertRoster(m.to, Own(m.to), m.members, m.contrib)
           /\ AdoptEpoch(m.to, m.epoch) /\ UNCHANGED hasGroup
  <2>1. /\ members' \in [Peers -> SUBSET Peers]
        /\ contrib' \in [Peers -> Contribution]
        /\ grants' \in [Peers -> SUBSET (Slots \X Peers)]
    BY <1>1, <1>3, OwnType, UpsertTypes
  <2>2. epoch' \in [Peers -> Nat]
    BY <1>1, <1>3, AdoptTypes
  <2>3. QED
    BY <1>2, <1>3, <2>1, <2>2 DEF TypeOK
<1>4. CASE UNCHANGED stores
  BY <1>2, <1>4 DEF TypeOK, stores
<1>5. QED
  BY <1>3, <1>4 DEF HandleMemberAdded

LEMMA TypesMemberRemoved ==
  ASSUME TypeOK, NEW m \in msgs, HandleMemberRemoved(m)
  PROVE  TypeOK'
<1>1. m.to \in Peers /\ m.peer \in Peers /\ m.epoch \in Nat
  BY FieldTypes DEF HandleMemberRemoved
<1>2. msgs' \subseteq Message /\ versions' = versions
  BY ExchangeTypes DEF HandleMemberRemoved
<1>3. CASE DropGroup(m.to)
  BY <1>1, <1>2, <1>3, DropTypes DEF TypeOK
<1>4. CASE RemoveMember(m.to, m.peer) /\ AdoptEpoch(m.to, m.epoch) /\ UNCHANGED hasGroup
  BY <1>1, <1>2, <1>4, RemoveTypes, AdoptTypes DEF TypeOK
<1>5. CASE UNCHANGED stores
  BY <1>2, <1>5 DEF TypeOK, stores
<1>6. QED
  BY <1>3, <1>4, <1>5 DEF HandleMemberRemoved

LEMMA TypesKick ==
  ASSUME TypeOK, NEW d \in Peers, Kick(d)
  PROVE  TypeOK'
<1>1. Owner \in Peers /\ members[Owner] \in SUBSET Peers /\ epoch[Owner] + 1 \in Nat
  BY GroupRosterAssumption DEF TypeOK
<1>2. msgs' \subseteq Message
  BY <1>1, RemovalTypes, ExchangeTypes DEF Kick, Send
<1>3. epoch' \in [Peers -> Nat] /\ versions' \in Seq(SUBSET Peers)
  BY <1>1, BumpTypes DEF Kick
<1>4. QED
  BY <1>1, <1>2, <1>3, RemoveTypes DEF TypeOK, Kick

LEMMA TypesRename ==
  ASSUME TypeOK, Rename
  PROVE  TypeOK'
<1>1. members[Owner] \in SUBSET Peers
  BY GroupRosterAssumption DEF TypeOK
<1>2. QED
  BY <1>1, BumpTypes DEF TypeOK, Rename

LEMMA TypesLeave ==
  ASSUME TypeOK, NEW d \in Peers, Leave(d)
  PROVE  TypeOK'
<1>1. (IF Owner \in members[d] THEN {[type |-> "leave", from |-> d]} ELSE {}) \subseteq Message
  BY DEF Message, LeaveRequest
<1>2. msgs' \subseteq Message
  BY <1>1, ExchangeTypes DEF Leave, Send
<1>3. QED
  BY <1>2, DropTypes DEF TypeOK, Leave

LEMMA TypesDisband ==
  ASSUME TypeOK, Disband
  PROVE  TypeOK'
<1>1. Owner \in Peers /\ members[Owner] \in SUBSET Peers /\ epoch[Owner] + 1 \in Nat
  BY GroupRosterAssumption DEF TypeOK
<1>2. ASSUME NEW p \in members[Owner]
      PROVE  Removal({p}, p, epoch[Owner] + 1) \subseteq Message
  BY <1>1, RemovalTypes
<1>3. UNION {Removal({p}, p, epoch[Owner] + 1) : p \in members[Owner]} \subseteq Message
  BY <1>2
<1>4. msgs' \subseteq Message
  BY <1>3, ExchangeTypes DEF Disband, Send
<1>5. versions' \in Seq(SUBSET Peers)
  BY DEF TypeOK, Disband
<1>6. QED
  BY <1>1, <1>4, <1>5, DropTypes DEF TypeOK, Disband

LEMMA TypesHandleLeave ==
  ASSUME TypeOK, NEW m \in msgs, HandleLeave(m)
  PROVE  TypeOK'
<1>1. /\ Owner \in Peers /\ members[Owner] \in SUBSET Peers /\ epoch[Owner] + 1 \in Nat
      /\ m.from \in Peers
  BY GroupRosterAssumption, FieldTypes DEF TypeOK, HandleLeave
<1>2. CASE FromMember(Owner, m.from)
  <2>1. msgs' \subseteq Message
    BY <1>1, <1>2, RemovalTypes, ExchangeTypes DEF HandleLeave
  <2>2. epoch' \in [Peers -> Nat] /\ versions' \in Seq(SUBSET Peers)
    BY <1>1, <1>2, BumpTypes DEF HandleLeave
  <2>3. QED
    BY <1>1, <1>2, <2>1, <2>2, RemoveTypes DEF TypeOK, HandleLeave
<1>3. CASE ~FromMember(Owner, m.from)
  BY <1>3, ExchangeTypes DEF TypeOK, HandleLeave, stores
<1>4. QED
  BY <1>2, <1>3

LEMMA TypesAddShare ==
  ASSUME TypeOK, NEW d \in Peers, NEW slot \in Slots, AddShare(d, slot)
  PROVE  TypeOK'
<1>1. msgs' \subseteq Message
  BY AnnounceTypes, ExchangeTypes DEF AddShare, Send
<1>2. contrib' \in [Peers -> Contribution]
  BY DEF TypeOK, AddShare, Contribution
<1>3. GrantsFor(d, {slot}, members[d]) \in SUBSET (Slots \X Peers)
  BY GrantTypes DEF TypeOK
<1>4. QED
  BY <1>1, <1>2, <1>3 DEF TypeOK, AddShare

LEMMA TypesWithdrawShare ==
  ASSUME TypeOK, NEW d \in Peers, NEW slot \in Slots, WithdrawShare(d, slot)
  PROVE  TypeOK'
<1>1. msgs' \subseteq Message
  BY AnnounceTypes, ExchangeTypes DEF WithdrawShare, Send
<1>2. contrib' \in [Peers -> Contribution]
  BY DEF TypeOK, WithdrawShare, Contribution
<1>3. QED
  BY <1>1, <1>2 DEF TypeOK, WithdrawShare

LEMMA TypesShareChange ==
  ASSUME TypeOK, NEW m \in msgs, HandleShareChange(m)
  PROVE  TypeOK'
<1>1. m.from \in Peers /\ m.to \in Peers /\ m.slot \in Slots
  BY FieldTypes DEF HandleShareChange
<1>2. msgs' \subseteq Message
  BY ExchangeTypes DEF HandleShareChange
<1>3. contrib' \in [Peers -> Contribution]
  <2>1. CASE contrib' = contrib
    BY <2>1 DEF TypeOK
  <2>2. CASE contrib' = [contrib EXCEPT ![m.to][m.from] = @ \cup {m.slot}]
    BY <1>1, <2>2 DEF TypeOK, Contribution
  <2>3. CASE contrib' = [contrib EXCEPT ![m.to][m.from] = @ \ {m.slot}]
    BY <1>1, <2>3 DEF TypeOK, Contribution
  <2>4. QED
    <3>1. CASE m.type = "shareAdded"
      BY <3>1, <2>1, <2>2 DEF HandleShareChange, ApplyShareChange
    <3>2. CASE m.type # "shareAdded"
      BY <3>2, <2>1, <2>3 DEF HandleShareChange, ApplyShareChange
    <3>3. QED
      BY <3>1, <3>2
<1>4. QED
  BY <1>2, <1>3 DEF TypeOK, HandleShareChange

LEMMA TypesStartSync ==
  ASSUME TypeOK, NEW d \in Peers, StartSync(d)
  PROVE  TypeOK'
<1>1. {[type |-> "sync", from |-> d, slots |-> Own(d)]} \subseteq Message
  BY OwnType DEF Message, Sync
<1>2. msgs' \subseteq Message
  BY <1>1, ExchangeTypes DEF StartSync, Send
<1>3. QED
  BY <1>2 DEF TypeOK, StartSync, stores

LEMMA TypesSync ==
  ASSUME TypeOK, NEW m \in msgs, HandleSync(m)
  PROVE  TypeOK'
<1>1. m.from \in Peers /\ m.slots \in SUBSET Slots /\ members[Owner] \in SUBSET Peers
  BY FieldTypes, GroupRosterAssumption DEF HandleSync, TypeOK
<1>2. CASE RefuseSync(m)
  <2>1. NoContribution \in Contribution
    BY DEF NoContribution, Contribution
  <2>2. {Answer(m.from, FALSE, {}, NoContribution)} \subseteq Message
    BY <1>1, <2>1, AnswerTypes
  <2>3. msgs' \subseteq Message
    BY <1>2, <2>2, ExchangeTypes DEF RefuseSync
  <2>4. QED
    BY <1>2, <2>3 DEF TypeOK, HandleSync, RefuseSync, stores
<1>3. CASE FailSync(m)
  <2>1. msgs' \subseteq Message
    BY <1>3, ExchangeTypes DEF FailSync
  <2>2. PICK slot \in m.slots \ contrib[Owner][m.from] :
          contrib' = [contrib EXCEPT ![Owner][m.from] = @ \cup {slot}]
    BY <1>3 DEF FailSync
  <2>3. contrib' \in [Peers -> Contribution]
    BY <1>1, <2>2 DEF TypeOK, Contribution
  <2>4. QED
    BY <1>3, <2>1, <2>3 DEF TypeOK, HandleSync, FailSync
<1>4. CASE AnswerSync(m)
  <2> DEFINE cs == [RosterShares(members[Owner]) EXCEPT ![m.from] = m.slots]
  <2>1. cs \in Contribution
    BY <1>1, RosterTypes DEF Contribution
  <2>2. {Answer(m.from, TRUE, members[Owner], cs)} \subseteq Message
    BY <1>1, <2>1, AnswerTypes
  <2>3. msgs' \subseteq Message
    BY <1>4, <2>2, ExchangeTypes DEF AnswerSync
  <2>4. contrib' \in [Peers -> Contribution]
    BY <1>1, <1>4 DEF TypeOK, AnswerSync, Contribution
  <2>5. QED
    BY <1>4, <2>3, <2>4 DEF TypeOK, HandleSync, AnswerSync
<1>5. QED
  BY <1>2, <1>3, <1>4 DEF HandleSync

LEMMA TypesSynced ==
  ASSUME TypeOK, NEW m \in msgs, HandleSynced(m)
  PROVE  TypeOK'
<1>1. /\ m.to \in Peers /\ m.epoch \in Nat
      /\ m.members \in SUBSET Peers /\ m.contrib \in Contribution
  BY FieldTypes DEF HandleSynced
<1>2. msgs' \subseteq Message /\ versions' = versions
  BY ExchangeTypes DEF HandleSynced
<1>3. CASE DropGroup(m.to)
  BY <1>1, <1>2, <1>3, DropTypes DEF TypeOK
<1>4. CASE /\ ReconcileRoster(m.to, m.members, m.contrib)
           /\ AdoptEpoch(m.to, m.epoch) /\ UNCHANGED hasGroup
  BY <1>1, <1>2, <1>4, ReconcileTypes, AdoptTypes DEF TypeOK
<1>5. CASE UNCHANGED stores
  BY <1>2, <1>5 DEF TypeOK, stores
<1>6. QED
  BY <1>3, <1>4, <1>5 DEF HandleSynced, GroupGone

LEMMA TypesNext == TypeOK /\ [Next]_vars => TypeOK'
<1> SUFFICES ASSUME TypeOK, [Next]_vars PROVE TypeOK'
  OBVIOUS
<1>1. CASE UNCHANGED vars
  BY <1>1 DEF TypeOK, vars
<1>2. CASE Command
  BY <1>2, TypesStartJoin, TypesLeave, TypesStartSync, TypesKick, TypesAddShare,
     TypesWithdrawShare, TypesRename, TypesDisband DEF Command
<1>3. ASSUME NEW m \in msgs, Deliver(m)
      PROVE  TypeOK'
  BY <1>3, TypesRedeem, TypesJoined, TypesMemberAdded, TypesMemberRemoved, TypesHandleLeave,
     TypesShareChange, TypesSync, TypesSynced DEF Deliver
<1>4. ASSUME NEW m \in msgs, Lose(m)
      PROVE  TypeOK'
  BY <1>4, TypesLose
<1>5. QED
  BY <1>1, <1>2, <1>3, <1>4 DEF Next

(* The state always has the types the module declares: what a store lists  *)
(* are devices and slots, and every message has the fields of its type.    *)
THEOREM TypeCorrect == Spec => []TypeOK
  BY InitTypes, TypesNext, PTL DEF Spec

-----------------------------------------------------------------------------
(* Safety.                                                                 *)

(* What holds of a message from its sending to its delivery: it can only   *)
(* tell of versions the owner has reached.                                 *)
GoodMsg(m) ==
  /\ m.type \in {"redeem", "sync", "leave"} => m.from # Owner
  /\ CarriesEpoch(m) => m.to # Owner /\ m.epoch <= Len(versions)
  /\ CarriesRoster(m) => /\ {m.to, Owner} \subseteq m.members
                         /\ m.epoch \in 1 .. Len(versions)
                         /\ m.members = versions[m.epoch]
                         /\ \A p \in Peers \ m.members : m.contrib[p] = {}
  /\ m.type = "memberRemoved" => /\ m.peer # Owner
                                 /\ m.epoch \in 1 .. Len(versions)
                                 /\ m.peer \notin versions[m.epoch]

GoodMessages == \A m \in msgs : GoodMsg(m)

Watermarks ==
  /\ \A d \in Peers : epoch[d] <= Len(versions)
  /\ Owner \in hasGroup => epoch[Owner] = Len(versions)

(* The owner's list is its last version; before the first, itself alone. *)
OwnerVersion ==
  Owner \in hasGroup =>
    IF versions = <<>> THEN members[Owner] = {Owner}
                       ELSE members[Owner] = versions[Len(versions)]

RosterInv == TypeOK /\ GoodMessages /\ Watermarks /\ OwnerVersion /\ OwnerAndSelfListed

Grown == versions' = versions \/ \E next \in SUBSET Peers : versions' = Append(versions, next)

LEMMA GrownVersions ==
  ASSUME TypeOK, TypeOK', Grown
  PROVE  /\ Len(versions) \in Nat /\ Len(versions)' \in Nat
         /\ Len(versions) <= Len(versions)'
         /\ \A i \in 1 .. Len(versions) : i \in 1 .. Len(versions)' /\ versions'[i] = versions[i]
<1>1. CASE versions' = versions
  BY <1>1 DEF TypeOK
<1>2. ASSUME NEW next \in SUBSET Peers, versions' = Append(versions, next)
      PROVE  /\ Len(versions)' = Len(versions) + 1
             /\ \A i \in 1 .. Len(versions) : versions'[i] = versions[i]
  BY <1>2 DEF TypeOK
<1>3. QED
  BY <1>1, <1>2 DEF Grown, TypeOK

LEMMA GoodKept ==
  ASSUME TypeOK, TypeOK', Grown, NEW m \in msgs, GoodMsg(m)
  PROVE  GoodMsg(m)'
<1>1. CarriesEpoch(m) => m.epoch \in Nat
  BY FieldTypes DEF CarriesEpoch
<1>2. QED
  BY <1>1, GrownVersions DEF GoodMsg, CarriesEpoch, CarriesRoster

LEMMA GoodExchange ==
  ASSUME TypeOK, TypeOK', Grown, GoodMessages, NEW consumed, NEW sent,
         Exchange(consumed, sent), \A m \in sent : GoodMsg(m)'
  PROVE  GoodMessages'
BY GoodKept DEF GoodMessages, Exchange

LEMMA GoodLess ==
  ASSUME TypeOK, TypeOK', Grown, GoodMessages, msgs' \subseteq msgs
  PROVE  GoodMessages'
BY GoodKept DEF GoodMessages

LEMMA SafeLose ==
  ASSUME RosterInv, TypeOK', NEW m \in msgs, Lose(m)
  PROVE  RosterInv'
<1>1. GoodMessages'
  BY GoodLess DEF RosterInv, Lose, Grown
<1>2. QED
  BY <1>1 DEF RosterInv, Lose, stores, Watermarks, OwnerVersion, OwnerAndSelfListed

LEMMA SafeStartJoin ==
  ASSUME RosterInv, TypeOK', NEW d \in Peers, NEW slots \in SUBSET Slots, StartJoin(d, slots)
  PROVE  RosterInv'
<1>1. GoodMsg([type |-> "redeem", from |-> d, slots |-> slots])'
  BY DEF StartJoin, Others, GoodMsg, CarriesEpoch, CarriesRoster
<1>2. GoodMessages'
  BY <1>1, GoodExchange DEF RosterInv, StartJoin, Send, Grown
<1>3. QED
  BY <1>2 DEF RosterInv, StartJoin, stores, Watermarks, OwnerVersion, OwnerAndSelfListed

LEMMA SafeStartSync ==
  ASSUME RosterInv, TypeOK', NEW d \in Peers, StartSync(d)
  PROVE  RosterInv'
<1>1. ASSUME NEW n, n = [type |-> "sync", from |-> d, slots |-> Own(d)]
      PROVE  GoodMsg(n)'
  BY <1>1 DEF StartSync, GoodMsg, CarriesEpoch, CarriesRoster
<1>2. GoodMessages'
  BY <1>1, GoodExchange DEF RosterInv, StartSync, Send, Grown
<1>3. QED
  BY <1>2 DEF RosterInv, StartSync, stores, Watermarks, OwnerVersion, OwnerAndSelfListed

LEMMA SafeShares ==
  ASSUME RosterInv, TypeOK', NEW d \in Peers, NEW slot \in Slots,
         AddShare(d, slot) \/ WithdrawShare(d, slot)
  PROVE  RosterInv'
<1>1. ASSUME NEW type \in {"shareAdded", "shareRemoved"}, NEW n \in Announce(type, d, slot)
      PROVE  GoodMsg(n)'
  BY <1>1 DEF Announce, GoodMsg, CarriesEpoch, CarriesRoster
<1>2. GoodMessages'
  BY <1>1, GoodExchange DEF RosterInv, AddShare, WithdrawShare, Send, Grown
<1>3. QED
  BY <1>2 DEF RosterInv, AddShare, WithdrawShare, Watermarks, OwnerVersion, OwnerAndSelfListed

LEMMA SafeShareChange ==
  ASSUME RosterInv, TypeOK', NEW m \in msgs, HandleShareChange(m)
  PROVE  RosterInv'
<1>1. GoodMessages'
  BY GoodExchange DEF RosterInv, HandleShareChange, Grown
<1>2. QED
  BY <1>1 DEF RosterInv, HandleShareChange, Watermarks, OwnerVersion, OwnerAndSelfListed

LEMMA SafeRedeem ==
  ASSUME RosterInv, TypeOK', NEW m \in msgs, HandleRedeem(m)
  PROVE  RosterInv'
<1>1. m.type = "redeem" /\ m.from \in Peers /\ m.from # Owner /\ m.slots \in SUBSET Slots
  BY FieldTypes DEF HandleRedeem, RosterInv, GoodMessages, GoodMsg
<1>2. CASE Owner \in hasGroup
  <2> DEFINE ms == members[Owner] \cup {m.from}
             cs == [RosterShares(ms) EXCEPT ![m.from] = @ \cup m.slots]
  <2>1. Admit(m, ms, cs)
    BY <1>2 DEF HandleRedeem
  <2>2. {m.from, Owner} \subseteq ms /\ ms \in SUBSET Peers
    BY <1>1, <1>2, GroupRosterAssumption DEF RosterInv, OwnerAndSelfListed, TypeOK
  <2>3. \A p \in Peers \ ms : cs[p] = {}
    BY <1>1 DEF RosterShares
  <2> HIDE DEF ms, cs
  <2>4. /\ epoch[Owner] + 1 = Len(versions')
        /\ Len(versions') \in 1 .. Len(versions')
        /\ versions'[Len(versions')] = ms
        /\ versions' # <<>>
        /\ epoch' = [epoch EXCEPT ![Owner] = Len(versions')]
        /\ Len(versions) <= Len(versions')
    <3>1. epoch[Owner] = Len(versions) /\ versions \in Seq(SUBSET Peers)
      BY <1>2 DEF RosterInv, TypeOK, Watermarks
    <3>2. versions' = Append(versions, ms) /\ epoch' = [epoch EXCEPT ![Owner] = @ + 1]
      BY <2>1 DEF Admit, BumpEpoch
    <3>3. /\ Len(versions') = Len(versions) + 1 /\ versions'[Len(versions) + 1] = ms
          /\ Len(versions) \in Nat /\ versions' # <<>>
      BY <2>2, <3>1, <3>2
    <3>4. QED
      BY <3>1, <3>2, <3>3
  <2>5. Grown
    BY <2>1, <2>2 DEF Grown, Admit, BumpEpoch
  <2> DEFINE sent == [type: {"memberAdded"}, to: ms \ {Owner, m.from}, members: {ms},
                      contrib: {cs}, epoch: {epoch[Owner] + 1}]
                       \cup {[type |-> "joined", to |-> m.from, slots |-> m.slots,
                              members |-> ms, contrib |-> cs, epoch |-> epoch[Owner] + 1]}
  <2>6. ASSUME NEW n \in sent
        PROVE  GoodMsg(n)'
    <3>1. /\ n.type \in {"memberAdded", "joined"} /\ n.to \in ms /\ n.to # Owner
          /\ n.members = ms /\ n.contrib = cs /\ n.epoch = Len(versions')
      BY <1>1, <2>2, <2>4
    <3>2. QED
      BY <3>1, <2>2, <2>3, <2>4 DEF GoodMsg, CarriesEpoch, CarriesRoster
  <2>7. Exchange({m}, sent)
    BY <2>1 DEF Admit
  <2> HIDE DEF sent
  <2>8. GoodMessages'
    BY <2>5, <2>6, <2>7, GoodExchange DEF RosterInv
  <2>9. Watermarks'
    BY <2>4, GroupRosterAssumption DEF RosterInv, TypeOK, Watermarks
  <2>10. OwnerVersion' /\ OwnerAndSelfListed'
    BY <2>1, <2>2, <2>4, <1>2, GroupRosterAssumption
    DEF RosterInv, TypeOK, OwnerVersion, OwnerAndSelfListed, Admit
  <2>11. QED
    BY <2>8, <2>9, <2>10 DEF RosterInv
<1>3. CASE Owner \notin hasGroup
  <2>1. Exchange({m}, {}) /\ UNCHANGED <<stores, versions>>
    BY <1>3 DEF HandleRedeem
  <2>2. GoodMessages'
    BY <2>1, GoodExchange DEF RosterInv, Grown
  <2>3. QED
    BY <2>1, <2>2 DEF RosterInv, stores, Watermarks, OwnerVersion, OwnerAndSelfListed
<1>4. QED
  BY <1>2, <1>3

LEMMA SafeJoined ==
  ASSUME RosterInv, TypeOK', NEW m \in msgs, HandleJoined(m)
  PROVE  RosterInv'
<1>1. /\ m.to \in Peers /\ m.to # Owner /\ m.epoch \in Nat /\ m.epoch <= Len(versions)
      /\ {m.to, Owner} \subseteq m.members
  BY FieldTypes DEF HandleJoined, RosterInv, GoodMessages, GoodMsg, CarriesEpoch, CarriesRoster
<1>2. GoodMessages'
  BY GoodExchange DEF RosterInv, HandleJoined, Grown
<1>3. Watermarks'
  BY <1>1, GroupRosterAssumption DEF RosterInv, TypeOK, Watermarks, HandleJoined, AdoptEpoch
<1>4. OwnerVersion' /\ OwnerAndSelfListed'
  BY <1>1, GroupRosterAssumption
  DEF RosterInv, TypeOK, HandleJoined, UpsertRoster, OwnerVersion, OwnerAndSelfListed
<1>5. QED
  BY <1>2, <1>3, <1>4 DEF RosterInv

LEMMA SafeMemberAdded ==
  ASSUME RosterInv, TypeOK', NEW m \in msgs, HandleMemberAdded(m)
  PROVE  RosterInv'
<1>1. /\ m.to \in Peers /\ m.to # Owner /\ m.epoch \in Nat /\ m.epoch <= Len(versions)
      /\ m.members \in SUBSET Peers
  BY FieldTypes DEF HandleMemberAdded, RosterInv, GoodMessages, GoodMsg, CarriesEpoch, CarriesRoster
<1>2. GoodMessages'
  BY GoodExchange DEF RosterInv, HandleMemberAdded, Grown
<1>3. CASE /\ FromOwner(m.to) /\ UpsertRoster(m.to, Own(m.to), m.members, m.contrib)
           /\ AdoptEpoch(m.to, m.epoch) /\ UNCHANGED <<hasGroup, versions>>
  <2>1. Watermarks'
    BY <1>1, <1>3, GroupRosterAssumption DEF RosterInv, TypeOK, Watermarks, AdoptEpoch
  <2>2. OwnerVersion' /\ OwnerAndSelfListed'
    BY <1>1, <1>3, GroupRosterAssumption
    DEF RosterInv, TypeOK, UpsertRoster, OwnerVersion, OwnerAndSelfListed, FromOwner
  <2>3. QED
    BY <1>2, <2>1, <2>2 DEF RosterInv
<1>4. CASE UNCHANGED <<stores, versions>>
  BY <1>2, <1>4 DEF RosterInv, stores, Watermarks, OwnerVersion, OwnerAndSelfListed
<1>5. QED
  BY <1>3, <1>4 DEF HandleMemberAdded

LEMMA SafeMemberRemoved ==
  ASSUME RosterInv, TypeOK', NEW m \in msgs, HandleMemberRemoved(m)
  PROVE  RosterInv'
<1>1. /\ m.to \in Peers /\ m.to # Owner /\ m.epoch \in Nat /\ m.epoch <= Len(versions)
      /\ m.peer \in Peers /\ m.peer # Owner
  BY FieldTypes DEF HandleMemberRemoved, RosterInv, GoodMessages, GoodMsg, CarriesEpoch
<1>2. GoodMessages'
  BY GoodExchange DEF RosterInv, HandleMemberRemoved, Grown
<1>3. CASE DropGroup(m.to) /\ UNCHANGED versions
  BY <1>1, <1>2, <1>3, GroupRosterAssumption
  DEF RosterInv, TypeOK, DropGroup, Watermarks, OwnerVersion, OwnerAndSelfListed
<1>4. CASE /\ m.peer # m.to /\ RemoveMember(m.to, m.peer)
           /\ AdoptEpoch(m.to, m.epoch) /\ UNCHANGED <<hasGroup, versions>>
  <2>1. Watermarks'
    BY <1>1, <1>4, GroupRosterAssumption DEF RosterInv, TypeOK, Watermarks, AdoptEpoch
  <2>2. OwnerVersion' /\ OwnerAndSelfListed'
    BY <1>1, <1>4, GroupRosterAssumption
    DEF RosterInv, TypeOK, RemoveMember, OwnerVersion, OwnerAndSelfListed
  <2>3. QED
    BY <1>2, <2>1, <2>2 DEF RosterInv
<1>5. CASE UNCHANGED <<stores, versions>>
  BY <1>2, <1>5 DEF RosterInv, stores, Watermarks, OwnerVersion, OwnerAndSelfListed
<1>6. QED
  BY <1>3, <1>4, <1>5 DEF HandleMemberRemoved

(* What a bump leaves: one version more, the owner's epoch its number. *)
LEMMA Bumped ==
  ASSUME RosterInv, TypeOK', Owner \in hasGroup, NEW next \in SUBSET Peers,
         versions' = Append(versions, next)
  PROVE  /\ Grown
         /\ epoch[Owner] + 1 = Len(versions')
         /\ Len(versions') \in 1 .. Len(versions')
         /\ versions'[Len(versions')] = next
         /\ versions' # <<>>
         /\ Len(versions) <= Len(versions')
<1>1. epoch[Owner] = Len(versions) /\ versions \in Seq(SUBSET Peers)
  BY DEF RosterInv, TypeOK, Watermarks
<1>2. /\ Len(versions') = Len(versions) + 1 /\ versions'[Len(versions) + 1] = next
      /\ Len(versions) \in Nat /\ versions' # <<>>
  BY <1>1
<1>3. QED
  BY <1>1, <1>2 DEF Grown

(* Dropping a member at the owner, by a kick or a request to leave. *)
LEMMA SafeRemoval ==
  ASSUME RosterInv, TypeOK', Owner \in hasGroup, NEW peer \in Peers \ {Owner},
         RemoveMember(Owner, peer), BumpEpoch(members[Owner] \ {peer}),
         NEW consumed, Exchange(consumed, Removal(members[Owner], peer, epoch[Owner] + 1)),
         hasGroup' = hasGroup
  PROVE  RosterInv'
<1> DEFINE next == members[Owner] \ {peer}
<1>1. next \in SUBSET Peers /\ Owner \in next /\ peer \notin next
  BY GroupRosterAssumption DEF RosterInv, TypeOK, OwnerAndSelfListed
<1>2. versions' = Append(versions, next) /\ epoch' = [epoch EXCEPT ![Owner] = @ + 1]
  BY DEF BumpEpoch
<1>3. members' = [members EXCEPT ![Owner] = next]
  BY DEF RemoveMember
<1> HIDE DEF next
<1>4. /\ Grown
      /\ epoch[Owner] + 1 = Len(versions')
      /\ Len(versions') \in 1 .. Len(versions')
      /\ versions'[Len(versions')] = next
      /\ versions' # <<>>
      /\ Len(versions) <= Len(versions')
  BY <1>1, <1>2, Bumped
<1>5. ASSUME NEW n \in Removal(members[Owner], peer, epoch[Owner] + 1)
      PROVE  GoodMsg(n)'
  <2>1. /\ n.type = "memberRemoved" /\ n.to # Owner /\ n.peer = peer
        /\ n.epoch = Len(versions')
    BY <1>4 DEF Removal
  <2>2. QED
    BY <2>1, <1>1, <1>4 DEF GoodMsg, CarriesEpoch, CarriesRoster
<1>6. GoodMessages'
  BY <1>4, <1>5, GoodExchange DEF RosterInv
<1>7. Watermarks'
  BY <1>2, <1>4, GroupRosterAssumption DEF RosterInv, TypeOK, Watermarks
<1>8. OwnerVersion' /\ OwnerAndSelfListed'
  BY <1>1, <1>3, <1>4, GroupRosterAssumption
  DEF RosterInv, TypeOK, OwnerVersion, OwnerAndSelfListed
<1>9. QED
  BY <1>6, <1>7, <1>8 DEF RosterInv

LEMMA SafeKick ==
  ASSUME RosterInv, TypeOK', NEW peer \in Peers, Kick(peer)
  PROVE  RosterInv'
BY SafeRemoval DEF Kick, Send

LEMMA SafeHandleLeave ==
  ASSUME RosterInv, TypeOK', NEW m \in msgs, HandleLeave(m)
  PROVE  RosterInv'
<1>1. m.from \in Peers \ {Owner}
  BY FieldTypes DEF HandleLeave, RosterInv, GoodMessages, GoodMsg
<1>2. CASE FromMember(Owner, m.from)
  <2>1. /\ Owner \in hasGroup /\ RemoveMember(Owner, m.from)
        /\ BumpEpoch(members[Owner] \ {m.from})
        /\ Exchange({m}, Removal(members[Owner], m.from, epoch[Owner] + 1))
        /\ hasGroup' = hasGroup
    BY <1>2 DEF HandleLeave, FromMember
  <2>2. QED
    BY <1>1, <2>1, SafeRemoval
<1>3. CASE ~FromMember(Owner, m.from)
  <2>1. Exchange({m}, {}) /\ UNCHANGED <<stores, versions>>
    BY <1>3 DEF HandleLeave
  <2>2. GoodMessages'
    BY <2>1, GoodExchange DEF RosterInv, Grown
  <2>3. QED
    BY <2>1, <2>2 DEF RosterInv, stores, Watermarks, OwnerVersion, OwnerAndSelfListed
<1>4. QED
  BY <1>2, <1>3

LEMMA SafeRename ==
  ASSUME RosterInv, TypeOK', Rename
  PROVE  RosterInv'
<1>1. /\ Owner \in hasGroup /\ UNCHANGED <<hasGroup, members, msgs>>
      /\ epoch' = [epoch EXCEPT ![Owner] = @ + 1]
      /\ versions' = Append(versions, members[Owner])
      /\ members[Owner] \in SUBSET Peers
  BY GroupRosterAssumption DEF Rename, BumpEpoch, RosterInv, TypeOK
<1>2. /\ Grown
      /\ epoch[Owner] + 1 = Len(versions')
      /\ versions'[Len(versions')] = members[Owner]
      /\ versions' # <<>>
      /\ Len(versions) <= Len(versions')
  BY <1>1, Bumped
<1>3. GoodMessages'
  BY <1>1, <1>2, GoodLess DEF RosterInv
<1>4. Watermarks'
  BY <1>1, <1>2, GroupRosterAssumption DEF RosterInv, TypeOK, Watermarks
<1>5. OwnerVersion' /\ OwnerAndSelfListed'
  BY <1>1, <1>2 DEF RosterInv, OwnerVersion, OwnerAndSelfListed
<1>6. QED
  BY <1>3, <1>4, <1>5 DEF RosterInv

LEMMA SafeLeave ==
  ASSUME RosterInv, TypeOK', NEW d \in Peers, Leave(d)
  PROVE  RosterInv'
<1>1. d # Owner /\ DropGroup(d) /\ versions' = versions
  BY DEF Leave
<1>2. ASSUME NEW n, n = [type |-> "leave", from |-> d]
      PROVE  GoodMsg(n)'
  BY <1>1, <1>2 DEF GoodMsg, CarriesEpoch, CarriesRoster
<1>3. GoodMessages'
  BY <1>1, <1>2, GoodExchange DEF RosterInv, Leave, Send, Grown
<1>4. Watermarks' /\ OwnerVersion' /\ OwnerAndSelfListed'
  BY <1>1, GroupRosterAssumption
  DEF RosterInv, TypeOK, DropGroup, Watermarks, OwnerVersion, OwnerAndSelfListed
<1>5. QED
  BY <1>3, <1>4 DEF RosterInv

LEMMA SafeDisband ==
  ASSUME RosterInv, TypeOK', Disband
  PROVE  RosterInv'
<1>1. /\ Owner \in hasGroup /\ DropGroup(Owner) /\ versions' = Append(versions, {})
      /\ Send(UNION {Removal({p}, p, epoch[Owner] + 1) : p \in members[Owner]})
  BY DEF Disband
<1>2. /\ Grown
      /\ epoch[Owner] + 1 = Len(versions')
      /\ Len(versions') \in 1 .. Len(versions')
      /\ versions'[Len(versions')] = {}
      /\ Len(versions) <= Len(versions')
  BY <1>1, Bumped
<1>3. ASSUME NEW n \in UNION {Removal({p}, p, epoch[Owner] + 1) : p \in members[Owner]}
      PROVE  GoodMsg(n)'
  <2>1. /\ n.type = "memberRemoved" /\ n.to # Owner /\ n.peer = n.to
        /\ n.epoch = Len(versions')
    BY <1>2 DEF Removal
  <2>2. QED
    BY <2>1, <1>2 DEF GoodMsg, CarriesEpoch, CarriesRoster
<1>4. GoodMessages'
  BY <1>1, <1>2, <1>3, GoodExchange DEF RosterInv, Send
<1>5. Watermarks' /\ OwnerVersion' /\ OwnerAndSelfListed'
  BY <1>1, <1>2, GroupRosterAssumption
  DEF RosterInv, TypeOK, DropGroup, Watermarks, OwnerVersion, OwnerAndSelfListed
<1>6. QED
  BY <1>4, <1>5 DEF RosterInv

LEMMA SafeSync ==
  ASSUME RosterInv, TypeOK', NEW m \in msgs, HandleSync(m)
  PROVE  RosterInv'
<1>1. m.from \in Peers \ {Owner} /\ UNCHANGED <<hasGroup, epoch, members, versions>>
  BY FieldTypes
  DEF HandleSync, RefuseSync, FailSync, AnswerSync, stores, RosterInv, GoodMessages, GoodMsg
<1>2. Grown
  BY <1>1 DEF Grown
<1>3. GoodMessages'
  <2>1. CASE RefuseSync(m)
    <3>1. ASSUME NEW n, n = Answer(m.from, FALSE, {}, NoContribution)
          PROVE  GoodMsg(n)'
      BY <1>1, <3>1, GroupRosterAssumption
      DEF Answer, GoodMsg, CarriesEpoch, CarriesRoster, RosterInv, Watermarks
    <3>2. QED
      BY <2>1, <3>1, <1>2, GoodExchange DEF RosterInv, RefuseSync
  <2>2. CASE FailSync(m)
    BY <2>2, <1>2, GoodExchange DEF RosterInv, FailSync
  <2>3. CASE AnswerSync(m)
    <3> DEFINE cs == [RosterShares(members[Owner]) EXCEPT ![m.from] = m.slots]
    <3>1. ASSUME NEW n, n = Answer(m.from, TRUE, members[Owner], cs)
          PROVE  GoodMsg(n)'
      <4>1. /\ n.type = "synced" /\ n.to = m.from /\ n.members = members[Owner]
            /\ n.contrib = cs /\ n.epoch = epoch[Owner]
        BY <3>1 DEF Answer
      <4>2. Owner \in hasGroup /\ m.from \in members[Owner] /\ Owner \in members[Owner]
        BY <2>3, GroupRosterAssumption DEF AnswerSync, FromMember, RosterInv, OwnerAndSelfListed
      <4>3. /\ epoch[Owner] = Len(versions) /\ Len(versions) \in 1 .. Len(versions)
            /\ members[Owner] = versions[Len(versions)]
        <5>1. versions # <<>>
          BY <1>1, <4>2 DEF RosterInv, OwnerVersion
        <5>2. QED
          BY <5>1, <4>2 DEF RosterInv, TypeOK, Watermarks, OwnerVersion
      <4>4. \A p \in Peers \ members[Owner] : cs[p] = {}
        BY <4>2 DEF RosterShares
      <4> HIDE DEF cs
      <4>5. QED
        BY <1>1, <4>1, <4>2, <4>3, <4>4 DEF GoodMsg, CarriesEpoch, CarriesRoster
    <3>2. QED
      BY <2>3, <3>1, <1>2, GoodExchange DEF RosterInv, AnswerSync
  <2>4. QED
    BY <2>1, <2>2, <2>3 DEF HandleSync
<1>4. QED
  BY <1>1, <1>3 DEF RosterInv, Watermarks, OwnerVersion, OwnerAndSelfListed

LEMMA SafeSynced ==
  ASSUME RosterInv, TypeOK', NEW m \in msgs, HandleSynced(m)
  PROVE  RosterInv'
<1>1. /\ m.to \in Peers /\ m.to # Owner /\ m.epoch \in Nat /\ m.epoch <= Len(versions)
      /\ m.member => {m.to, Owner} \subseteq m.members
  BY FieldTypes DEF HandleSynced, RosterInv, GoodMessages, GoodMsg, CarriesEpoch, CarriesRoster
<1>2. GoodMessages'
  BY GoodExchange DEF RosterInv, HandleSynced, Grown
<1>3. CASE DropGroup(m.to) /\ UNCHANGED versions
  BY <1>1, <1>2, <1>3, GroupRosterAssumption
  DEF RosterInv, TypeOK, DropGroup, Watermarks, OwnerVersion, OwnerAndSelfListed
<1>4. CASE /\ m.member /\ ReconcileRoster(m.to, m.members, m.contrib)
           /\ m.to \in hasGroup /\ AdoptEpoch(m.to, m.epoch)
           /\ UNCHANGED <<hasGroup, versions>>
  <2>1. Watermarks'
    BY <1>1, <1>4, GroupRosterAssumption DEF RosterInv, TypeOK, Watermarks, AdoptEpoch
  <2>2. OwnerVersion' /\ OwnerAndSelfListed'
    BY <1>1, <1>4, GroupRosterAssumption
    DEF RosterInv, TypeOK, ReconcileRoster, OwnerVersion, OwnerAndSelfListed
  <2>3. QED
    BY <1>2, <2>1, <2>2 DEF RosterInv
<1>5. CASE UNCHANGED <<stores, versions>>
  BY <1>2, <1>5 DEF RosterInv, stores, Watermarks, OwnerVersion, OwnerAndSelfListed
<1>6. QED
  BY <1>3, <1>4, <1>5 DEF HandleSynced, GroupGone

LEMMA SafeInit == Init => RosterInv
<1>1. SUFFICES ASSUME Init PROVE RosterInv
  OBVIOUS
<1>2. TypeOK
  BY <1>1, InitTypes
<1>3. GoodMessages /\ OwnerVersion /\ OwnerAndSelfListed
  BY <1>1, GroupRosterAssumption DEF Init, GoodMessages, OwnerVersion, OwnerAndSelfListed
<1>4. Watermarks
  <2>1. versions = <<>> /\ Len(versions) = 0 /\ \A d \in Peers : epoch[d] = 0
    BY <1>1 DEF Init
  <2>2. QED
    BY <2>1, GroupRosterAssumption DEF Watermarks
<1>5. QED
  BY <1>2, <1>3, <1>4 DEF RosterInv

LEMMA SafeNext == RosterInv /\ [Next]_vars => RosterInv'
<1>1. SUFFICES ASSUME RosterInv, [Next]_vars PROVE RosterInv'
  OBVIOUS
<1>2. TypeOK'
  BY <1>1, TypesNext DEF RosterInv
<1>3. CASE UNCHANGED vars
  BY <1>1, <1>3
  DEF vars, RosterInv, TypeOK, GoodMessages, GoodMsg, CarriesEpoch, CarriesRoster,
      Watermarks, OwnerVersion, OwnerAndSelfListed, Contribution
<1>4. CASE Command
  BY <1>1, <1>2, <1>4, SafeStartJoin, SafeLeave, SafeStartSync, SafeKick, SafeShares,
     SafeRename, SafeDisband DEF Command
<1>5. ASSUME NEW m \in msgs, Deliver(m) \/ Lose(m) PROVE RosterInv'
  BY <1>1, <1>2, <1>5, SafeRedeem, SafeJoined, SafeMemberAdded, SafeMemberRemoved,
     SafeHandleLeave, SafeShareChange, SafeSync, SafeSynced, SafeLose DEF Deliver
<1>6. QED
  BY <1>1, <1>3, <1>4, <1>5 DEF Next

(* What is in flight and what is stored never contradicts the owner's     *)
(* history of the roster: the inductive invariant of the protocol.         *)
THEOREM RosterInvariant == Spec => []RosterInv
<1>1. QED
  BY SafeInit, SafeNext, PTL DEF Spec

LEMMA RosterConsequences ==
  RosterInv => EpochsAreOwners /\ SnapshotsAreVersions /\ OwnerAndSelfListed
<1>1. SUFFICES ASSUME RosterInv
               PROVE  EpochsAreOwners /\ SnapshotsAreVersions /\ OwnerAndSelfListed
  OBVIOUS
<1>2. EpochsAreOwners
  BY <1>1 DEF RosterInv, GoodMessages, GoodMsg, Watermarks, EpochsAreOwners
<1>3. SnapshotsAreVersions
  BY <1>1 DEF RosterInv, TypeOK, GoodMessages, GoodMsg, OwnerVersion, SnapshotsAreVersions
<1>4. QED
  BY <1>1, <1>2, <1>3 DEF RosterInv

(* No watermark, stored or in flight, runs ahead of the owner's epoch. *)
THEOREM EpochsCorrect == Spec => []EpochsAreOwners
<1>1. QED
  BY RosterInvariant, RosterConsequences, PTL

(* Every roster in flight is the owner's list of the epoch it carries. *)
THEOREM SnapshotsCorrect == Spec => []SnapshotsAreVersions
<1>1. QED
  BY RosterInvariant, RosterConsequences, PTL

(* A device that has the group lists itself and the owner. *)
THEOREM ListedCorrect == Spec => []OwnerAndSelfListed
<1>1. QED
  BY RosterInvariant, RosterConsequences, PTL

-----------------------------------------------------------------------------
(* Joins and announcements.  A device has at most one join under way, and   *)
(* none once it has the group; a device announces its own changes to        *)
(* others only.                                                             *)
JoinOf(m) == IF m.type = "redeem" THEN {m.from} ELSE IF m.type = "joined" THEN {m.to} ELSE {}

JoinsAlone ==
  /\ \A m \in msgs : JoinOf(m) \cap hasGroup = {}
  /\ \A m, n \in msgs : JoinOf(m) \cap JoinOf(n) # {} => m = n

ToAnother(m) == m.type \in {"shareAdded", "shareRemoved"} => m.from # m.to
AnnouncedToOthers == \A m \in msgs : ToAnother(m)

InFlight == JoinsAlone /\ AnnouncedToOthers

LEMMA FlightKept ==
  ASSUME InFlight, hasGroup' \subseteq hasGroup,
         \A n \in msgs' : n \in msgs \/ (JoinOf(n) = {} /\ ToAnother(n))
  PROVE  InFlight'
<1>1. \A n \in msgs' : JoinOf(n) # {} => n \in msgs
  OBVIOUS
<1>2. JoinsAlone'
  BY <1>1 DEF InFlight, JoinsAlone, JoinOf
<1>3. AnnouncedToOthers'
  BY DEF InFlight, AnnouncedToOthers, ToAnother
<1>4. QED
  BY <1>2, <1>3 DEF InFlight

LEMMA FlightSent ==
  ASSUME InFlight, hasGroup' \subseteq hasGroup, NEW consumed, NEW sent, Exchange(consumed, sent),
         \A n \in sent : JoinOf(n) = {} /\ ToAnother(n)
  PROVE  InFlight'
BY FlightKept DEF Exchange

LEMMA FlightRemoval ==
  ASSUME NEW peers, NEW peer, NEW e, NEW n \in Removal(peers, peer, e)
  PROVE  JoinOf(n) = {} /\ ToAnother(n)
BY DEF Removal, JoinOf, ToAnother

LEMMA FlightNext == TypeOK /\ InFlight /\ [Next]_vars => InFlight'
<1>0. SUFFICES ASSUME TypeOK, InFlight, [Next]_vars PROVE InFlight'
  OBVIOUS
<1>1. ASSUME NEW d \in Peers, NEW slots \in SUBSET Slots, StartJoin(d, slots) PROVE InFlight'
  <2> DEFINE new == [type |-> "redeem", from |-> d, slots |-> slots]
  <2>1. msgs' = msgs \cup {new} /\ hasGroup' = hasGroup /\ d \notin hasGroup
    BY <1>1 DEF StartJoin, Send, Exchange, stores
  <2>2. \A m \in msgs : d \notin JoinOf(m)
    BY <1>1 DEF StartJoin, JoinPending, JoinOf
  <2>3. JoinOf(new) = {d} /\ ToAnother(new)
    BY DEF JoinOf, ToAnother
  <2> HIDE DEF new
  <2>4. JoinsAlone'
    BY <1>0, <2>1, <2>2, <2>3 DEF InFlight, JoinsAlone, JoinOf
  <2>5. AnnouncedToOthers'
    BY <1>0, <2>1, <2>3 DEF InFlight, AnnouncedToOthers, ToAnother
  <2>6. QED
    BY <2>4, <2>5 DEF InFlight
<1>2. ASSUME NEW d \in Peers, Leave(d) PROVE InFlight'
  BY <1>0, <1>2, FlightSent DEF Leave, DropGroup, Send, JoinOf, ToAnother
<1>3. ASSUME NEW d \in Peers, StartSync(d) PROVE InFlight'
  BY <1>0, <1>3, FlightSent DEF StartSync, Send, stores, JoinOf, ToAnother
<1>4. ASSUME NEW d \in Peers, Kick(d) PROVE InFlight'
  <2>1. Exchange({}, Removal(members[Owner], d, epoch[Owner] + 1)) /\ hasGroup' = hasGroup
    BY <1>4 DEF Kick, Send
  <2>2. QED
    BY <1>0, <2>1, FlightRemoval, FlightSent
<1>5. ASSUME NEW d \in Peers, NEW slot \in Slots, AddShare(d, slot) \/ WithdrawShare(d, slot)
      PROVE  InFlight'
  <2>1. ASSUME NEW type \in {"shareAdded", "shareRemoved"}, NEW n \in Announce(type, d, slot)
        PROVE  JoinOf(n) = {} /\ ToAnother(n)
    BY <2>1 DEF Announce, JoinOf, ToAnother
  <2>2. QED
    BY <1>0, <1>5, <2>1, FlightSent DEF AddShare, WithdrawShare, Send
<1>6. ASSUME Rename PROVE InFlight'
  BY <1>0, <1>6, FlightKept DEF Rename
<1>7. ASSUME Disband PROVE InFlight'
  BY <1>0, <1>7, FlightSent DEF Disband, DropGroup, Send, Removal, JoinOf, ToAnother
<1>8. ASSUME NEW m \in msgs, HandleRedeem(m) PROVE InFlight'
  <2>1. CASE Owner \in hasGroup
    <3> DEFINE ms == members[Owner] \cup {m.from}
               cs == [RosterShares(ms) EXCEPT ![m.from] = @ \cup m.slots]
               e == epoch[Owner] + 1
               new == [type |-> "joined", to |-> m.from, slots |-> m.slots,
                       members |-> ms, contrib |-> cs, epoch |-> e]
               pushed == [type: {"memberAdded"}, to: ms \ {Owner, m.from}, members: {ms},
                          contrib: {cs}, epoch: {e}]
    <3>1. msgs' = (msgs \ {m}) \cup (pushed \cup {new}) /\ hasGroup' = hasGroup
      BY <1>8, <2>1 DEF HandleRedeem, Admit, Exchange
    <3>2. JoinOf(new) = {m.from} /\ ToAnother(new) /\ JoinOf(m) = {m.from}
      BY <1>8 DEF HandleRedeem, JoinOf, ToAnother
    <3>3. \A n \in pushed : JoinOf(n) = {} /\ ToAnother(n)
      BY DEF JoinOf, ToAnother
    <3> HIDE DEF new, pushed
    <3>4. \A n \in msgs : n # m => m.from \notin JoinOf(n)
      BY <1>0, <3>2 DEF InFlight, JoinsAlone
    <3>5. m.from \notin hasGroup
      BY <1>0, <1>8, <3>2 DEF InFlight, JoinsAlone
    <3>6. JoinsAlone'
      <4>1. \A n \in msgs' : JoinOf(n) \cap hasGroup' = {}
        BY <1>0, <3>1, <3>2, <3>3, <3>5 DEF InFlight, JoinsAlone
      <4>2. \A n \in msgs' : n = new \/ (m.from \notin JoinOf(n) /\ (n \in msgs \/ JoinOf(n) = {}))
        BY <3>1, <3>3, <3>4
      <4>3. \A n, k \in msgs' : JoinOf(n) \cap JoinOf(k) # {} => n = k
        BY <1>0, <3>2, <4>2 DEF InFlight, JoinsAlone
      <4>4. QED
        BY <4>1, <4>3 DEF JoinsAlone, JoinOf
    <3>7. AnnouncedToOthers'
      BY <1>0, <3>1, <3>2, <3>3 DEF InFlight, AnnouncedToOthers, ToAnother
    <3>8. QED
      BY <3>6, <3>7 DEF InFlight
  <2>2. CASE Owner \notin hasGroup
    BY <1>0, <1>8, <2>2, FlightSent DEF HandleRedeem, stores
  <2>3. QED
    BY <2>1, <2>2
<1>9. ASSUME NEW m \in msgs, HandleJoined(m) PROVE InFlight'
  <2>1. msgs' = msgs \ {m} /\ hasGroup' = hasGroup \cup {m.to} /\ JoinOf(m) = {m.to}
    BY <1>9 DEF HandleJoined, Exchange, JoinOf
  <2>2. \A n \in msgs' : m.to \notin JoinOf(n)
    BY <1>0, <2>1 DEF InFlight, JoinsAlone
  <2>3. JoinsAlone'
    BY <1>0, <2>1, <2>2 DEF InFlight, JoinsAlone, JoinOf
  <2>4. AnnouncedToOthers'
    BY <1>0, <2>1 DEF InFlight, AnnouncedToOthers, ToAnother
  <2>5. QED
    BY <2>3, <2>4 DEF InFlight
<1>10. ASSUME NEW m \in msgs, HandleMemberAdded(m) \/ HandleShareChange(m) PROVE InFlight'
  BY <1>0, <1>10, FlightSent DEF HandleMemberAdded, HandleShareChange, stores
<1>11. ASSUME NEW m \in msgs, HandleMemberRemoved(m) \/ HandleSynced(m) PROVE InFlight'
  <2>1. Exchange({m}, {}) /\ hasGroup' \subseteq hasGroup
    BY <1>11 DEF HandleMemberRemoved, HandleSynced, GroupGone, DropGroup, stores
  <2>2. QED
    BY <1>0, <2>1, FlightSent
<1>12. ASSUME NEW m \in msgs, HandleLeave(m) PROVE InFlight'
  <2>1. /\ hasGroup' = hasGroup
        /\ \/ Exchange({m}, Removal(members[Owner], m.from, epoch[Owner] + 1))
           \/ Exchange({m}, {})
    BY <1>12 DEF HandleLeave, stores
  <2>2. QED
    BY <1>0, <2>1, FlightRemoval, FlightSent
<1>13. ASSUME NEW m \in msgs, HandleSync(m) PROVE InFlight'
  <2>1. ASSUME NEW member, NEW ms, NEW cs, Exchange({m}, {Answer(m.from, member, ms, cs)}),
               hasGroup' = hasGroup
        PROVE  InFlight'
    <3>1. ASSUME NEW n, n = Answer(m.from, member, ms, cs) PROVE JoinOf(n) = {} /\ ToAnother(n)
      BY <3>1 DEF Answer, JoinOf, ToAnother
    <3>2. QED
      BY <1>0, <2>1, <3>1, FlightSent
  <2>2. CASE RefuseSync(m)
    BY <2>1, <2>2 DEF RefuseSync, stores
  <2>3. CASE FailSync(m)
    BY <1>0, <2>3, FlightSent DEF FailSync
  <2>4. CASE AnswerSync(m)
    BY <2>1, <2>4 DEF AnswerSync
  <2>5. QED
    BY <1>13, <2>2, <2>3, <2>4 DEF HandleSync
<1>14. ASSUME NEW m \in msgs, Lose(m) PROVE InFlight'
  BY <1>0, <1>14, FlightKept DEF Lose, stores
<1>15. CASE UNCHANGED vars
  BY <1>0, <1>15, FlightKept DEF vars
<1>16. QED
  BY <1>0, <1>1, <1>2, <1>3, <1>4, <1>5, <1>6, <1>7, <1>8, <1>9, <1>10, <1>11, <1>12, <1>13,
     <1>14, <1>15
  DEF Next, Command, Deliver

(* A device has at most one join under way, and none once it has the       *)
(* group; nobody announces a change to itself.                             *)
THEOREM FlightInvariant == Spec => []InFlight
<1>1. Init => InFlight
  BY DEF Init, InFlight, JoinsAlone, AnnouncedToOthers
<1>2. QED
  BY <1>1, FlightNext, TypeCorrect, PTL DEF Spec

-----------------------------------------------------------------------------
(* A member's list follows the owner's.                                    *)
FollowsOwner(d) ==
  members'[d] # members[d] =>
    /\ epoch'[d] > epoch[d]
    /\ members'[d] \ members[d] \subseteq versions'[epoch'[d]]
    /\ (members[d] \ members'[d]) \cap versions'[epoch'[d]] = {}

(* A push is applied under a newer epoch, which the device adopts. *)
LEMMA FollowAdopted ==
  ASSUME RosterInv, NEW d \in Peers, NEW e \in Nat, Newer(d, e), AdoptEpoch(d, e),
         NEW k \in Peers, k # Owner, versions' = versions,
         \A x \in Peers : x # d => members'[x] = members[x],
         members'[d] \ members[d] \subseteq versions[e],
         (members[d] \ members'[d]) \cap versions[e] = {}
  PROVE  FollowsOwner(k)
<1>1. epoch'[d] = e /\ e > epoch[d] /\ epoch[d] \in Nat
  BY DEF RosterInv, TypeOK, AdoptEpoch, Newer
<1>2. QED
  BY <1>1 DEF FollowsOwner

LEMMA FollowNext == RosterInv /\ InFlight /\ [Next]_vars =>
                      \A d \in (hasGroup \cap hasGroup') \ {Owner} : FollowsOwner(d)
<1>0. SUFFICES ASSUME RosterInv, InFlight, [Next]_vars,
                      NEW k \in (hasGroup \cap hasGroup') \ {Owner}
               PROVE  FollowsOwner(k)
  OBVIOUS
<1> k \in Peers /\ k # Owner /\ k \in hasGroup /\ k \in hasGroup'
  BY <1>0 DEF RosterInv, TypeOK
<1>1. CASE members' = members
  BY <1>1 DEF FollowsOwner
<1>2. ASSUME NEW d \in Peers, DropGroup(d) PROVE FollowsOwner(k)
  BY <1>0, <1>2 DEF DropGroup, FollowsOwner, RosterInv, TypeOK
<1>3. ASSUME NEW p, RemoveMember(Owner, p) PROVE FollowsOwner(k)
  BY <1>0, <1>3 DEF RemoveMember, FollowsOwner, RosterInv, TypeOK
<1>4. ASSUME NEW m \in msgs, HandleRedeem(m) PROVE FollowsOwner(k)
  BY <1>0, <1>1, <1>4 DEF HandleRedeem, Admit, stores, FollowsOwner, RosterInv, TypeOK
<1>5. ASSUME NEW m \in msgs, HandleJoined(m) PROVE FollowsOwner(k)
  <2>1. m.to \notin hasGroup
    BY <1>0, <1>5 DEF InFlight, JoinsAlone, JoinOf, HandleJoined
  <2>2. QED
    BY <1>0, <1>5, <2>1 DEF HandleJoined, UpsertRoster, FollowsOwner, RosterInv, TypeOK
<1>6. ASSUME NEW m \in msgs, HandleMemberAdded(m) PROVE FollowsOwner(k)
  <2>1. /\ m.to \in Peers /\ m.epoch \in Nat /\ m.members = versions[m.epoch]
        /\ versions' = versions
    BY <1>0, <1>6, FieldTypes
    DEF HandleMemberAdded, RosterInv, GoodMessages, GoodMsg, CarriesRoster
  <2>2. CASE /\ Newer(m.to, m.epoch) /\ AdoptEpoch(m.to, m.epoch)
             /\ UpsertRoster(m.to, Own(m.to), m.members, m.contrib)
    <3>1. members' = [members EXCEPT ![m.to] = @ \cup m.members]
      BY <2>2 DEF UpsertRoster
    <3>2. /\ \A x \in Peers : x # m.to => members'[x] = members[x]
          /\ members'[m.to] = members[m.to] \cup versions[m.epoch]
      BY <1>0, <2>1, <3>1 DEF RosterInv, TypeOK
    <3>3. QED
      BY <1>0, <2>1, <2>2, <3>2, FollowAdopted
  <2>3. QED
    BY <1>1, <1>6, <2>2 DEF HandleMemberAdded, stores
<1>7. ASSUME NEW m \in msgs, HandleMemberRemoved(m) PROVE FollowsOwner(k)
  <2>1. /\ m.to \in Peers /\ m.epoch \in Nat /\ m.peer \notin versions[m.epoch]
        /\ versions' = versions
    BY <1>0, <1>7, FieldTypes DEF HandleMemberRemoved, RosterInv, GoodMessages, GoodMsg
  <2>2. CASE /\ Newer(m.to, m.epoch) /\ AdoptEpoch(m.to, m.epoch)
             /\ RemoveMember(m.to, m.peer)
    <3>1. members' = [members EXCEPT ![m.to] = @ \ {m.peer}]
      BY <2>2 DEF RemoveMember
    <3>2. /\ \A x \in Peers : x # m.to => members'[x] = members[x]
          /\ members'[m.to] = members[m.to] \ {m.peer}
      BY <1>0, <2>1, <3>1 DEF RosterInv, TypeOK
    <3>3. QED
      BY <1>0, <2>1, <2>2, <3>2, FollowAdopted
  <2>3. QED
    BY <1>1, <1>2, <1>7, <2>1, <2>2 DEF HandleMemberRemoved, stores
<1>8. ASSUME NEW m \in msgs, HandleSynced(m) PROVE FollowsOwner(k)
  <2>1. /\ m.to \in Peers /\ m.epoch \in Nat /\ versions' = versions
        /\ m.member => m.members = versions[m.epoch]
    BY <1>0, <1>8, FieldTypes DEF HandleSynced, RosterInv, GoodMessages, GoodMsg, CarriesRoster
  <2>2. CASE /\ m.member /\ Newer(m.to, m.epoch) /\ AdoptEpoch(m.to, m.epoch)
             /\ ReconcileRoster(m.to, m.members, m.contrib)
    <3>1. members' = [members EXCEPT ![m.to] = m.members]
      BY <2>2 DEF ReconcileRoster
    <3>2. /\ \A x \in Peers : x # m.to => members'[x] = members[x]
          /\ members'[m.to] = versions[m.epoch]
      BY <1>0, <2>1, <2>2, <3>1 DEF RosterInv, TypeOK
    <3>3. QED
      BY <1>0, <2>1, <2>2, <3>2, FollowAdopted
  <2>3. QED
    BY <1>1, <1>2, <1>8, <2>1, <2>2 DEF HandleSynced, GroupGone, stores
<1>9. ASSUME NEW m \in msgs, HandleLeave(m) PROVE FollowsOwner(k)
  BY <1>1, <1>3, <1>9 DEF HandleLeave, stores
<1>10. ASSUME NEW m \in msgs, HandleSync(m) \/ HandleShareChange(m) \/ Lose(m)
       PROVE  FollowsOwner(k)
  BY <1>1, <1>10
  DEF HandleSync, RefuseSync, FailSync, AnswerSync, HandleShareChange, Lose, stores
<1>11. CASE Command
  BY <1>1, <1>2, <1>3, <1>11, GroupRosterAssumption
  DEF Command, StartJoin, Leave, StartSync, Kick, AddShare, WithdrawShare, Rename, Disband, stores
<1>12. QED
  BY <1>0, <1>1, <1>4, <1>5, <1>6, <1>7, <1>8, <1>9, <1>10, <1>11 DEF Next, Deliver, vars

(* No delayed push or reply readmits a kicked peer or undoes a rejoin: a    *)
(* member's list changes only with a newer epoch, as the owner's list of    *)
(* that epoch says.                                                         *)
THEOREM ChangesCorrect == Spec => ChangesFollowOwner
<1>1. RosterInv /\ InFlight /\ [Next]_vars =>
        [\A d \in (hasGroup \cap hasGroup') \ {Owner} :
           members'[d] # members[d] =>
             /\ epoch'[d] > epoch[d]
             /\ members'[d] \ members[d] \subseteq versions'[epoch'[d]]
             /\ (members[d] \ members'[d]) \cap versions'[epoch'[d]] = {}]_vars
  BY FollowNext DEF FollowsOwner
<1>2. QED
  BY <1>1, RosterInvariant, FlightInvariant, PTL DEF Spec, ChangesFollowOwner

-----------------------------------------------------------------------------
(* Contributions and grants, one device at a time: rows are kept for        *)
(* listed members, grants are on the device's contributions to the members  *)
(* it lists, and at the owner none of these is missing.                     *)
Rows(d) ==
  /\ \A p \in Peers : p \notin members[d] => contrib[d][p] = {}
  /\ grants[d] \subseteq GrantsFor(d, Own(d), members[d])
  /\ d = Owner => GrantsFor(d, Own(d), members[d]) \subseteq grants[d]

AllRows == \A d \in Peers : Rows(d)

(* An operation works on the tables of one device. *)
AtOnly(d) ==
  \A x \in Peers : x # d =>
    members'[x] = members[x] /\ contrib'[x] = contrib[x] /\ grants'[x] = grants[x]

LEMMA RowsAt ==
  ASSUME AllRows, NEW d \in Peers, AtOnly(d), Rows(d)'
  PROVE  AllRows'
<1>1. ASSUME NEW x \in Peers, x # d PROVE Rows(x)'
  BY <1>1 DEF AllRows, AtOnly, Rows, Own
<1>2. QED
  BY <1>1 DEF AllRows

LEMMA RowsUpsert ==
  ASSUME TypeOK, AllRows, NEW d \in Peers, d # Owner, NEW own \in SUBSET Slots,
         NEW ms \in SUBSET Peers, NEW cs \in Contribution, UpsertRoster(d, own, ms, cs),
         d \in ms \cup members[d], \A p \in Peers \ ms : cs[p] = {}
  PROVE  AllRows'
<1>1. /\ members'[d] = members[d] \cup ms
      /\ \A p \in Peers : contrib'[d][p] = contrib[d][p] \cup cs[p] \cup IF p = d THEN own ELSE {}
      /\ grants'[d] = grants[d] \cup GrantsFor(d, own, ms)
  BY DEF TypeOK, UpsertRoster, Upserted
<1>2. Own(d)' = Own(d) \cup cs[d] \cup own
  BY <1>1 DEF Own
<1>3. AtOnly(d)
  BY DEF TypeOK, UpsertRoster, AtOnly
<1>4. Rows(d)
  BY DEF AllRows
<1>5. Rows(d)'
  BY <1>1, <1>2, <1>4 DEF Rows, GrantsFor
<1>6. QED
  BY <1>3, <1>5, RowsAt

LEMMA RowsReconcile ==
  ASSUME TypeOK, AllRows, NEW d \in Peers, d # Owner, NEW ms \in SUBSET Peers,
         NEW cs \in Contribution, ReconcileRoster(d, ms, cs),
         d \in ms, \A p \in Peers \ ms : cs[p] = {}
  PROVE  AllRows'
<1>1. /\ members'[d] = ms
      /\ \A p \in Peers : contrib'[d][p] = IF p = d THEN Own(d) \cup cs[d] ELSE cs[p]
      /\ grants'[d] = (grants[d] \cup GrantsFor(d, Own(d), ms))
                        \ GrantsFor(d, Own(d) \cup cs[d], members[d] \ ms)
  BY DEF TypeOK, ReconcileRoster
<1>2. Own(d)' = Own(d) \cup cs[d]
  BY <1>1 DEF Own
<1>3. AtOnly(d)
  BY DEF TypeOK, ReconcileRoster, AtOnly
<1>4. Rows(d)
  BY DEF AllRows
<1>5. Rows(d)'
  BY <1>1, <1>2, <1>4 DEF Rows, GrantsFor
<1>6. QED
  BY <1>3, <1>5, RowsAt

LEMMA RowsRemove ==
  ASSUME TypeOK, AllRows, NEW d \in Peers, NEW p \in Peers, p # d, RemoveMember(d, p)
  PROVE  AllRows'
<1>1. /\ members'[d] = members[d] \ {p}
      /\ \A q \in Peers : contrib'[d][q] = IF q = p THEN {} ELSE contrib[d][q]
      /\ grants'[d] = grants[d] \ GrantsFor(d, Own(d), {p})
  BY DEF TypeOK, RemoveMember, RowsRemoved, Revoked, Contribution
<1>2. Own(d)' = Own(d)
  BY <1>1 DEF Own
<1>3. AtOnly(d)
  BY DEF TypeOK, RemoveMember, RowsRemoved, AtOnly
<1>4. Rows(d)
  BY DEF AllRows
<1>5. Rows(d)'
  BY <1>1, <1>2, <1>4 DEF Rows, GrantsFor
<1>6. QED
  BY <1>3, <1>5, RowsAt

LEMMA RowsDrop ==
  ASSUME TypeOK, AllRows, NEW d \in Peers, DropGroup(d)
  PROVE  AllRows'
<1>1. /\ members'[d] = {}
      /\ \A q \in Peers : contrib'[d][q] = {}
      /\ grants'[d] = grants[d] \ GrantsFor(d, Own(d), members[d])
  BY DEF TypeOK, DropGroup, NoContribution, Revoked
<1>2. Own(d)' = {}
  BY <1>1 DEF Own
<1>3. AtOnly(d)
  BY DEF TypeOK, DropGroup, AtOnly
<1>4. Rows(d)
  BY DEF AllRows
<1>5. Rows(d)'
  BY <1>1, <1>2, <1>4 DEF Rows, GrantsFor
<1>6. QED
  BY <1>3, <1>5, RowsAt

(* What a peer of d contributes, as d lists it, is no business of d's       *)
(* grants.                                                                  *)
LEMMA RowsContrib ==
  ASSUME TypeOK, AllRows, NEW d \in Peers, NEW p \in members[d], p # d, NEW slots,
         contrib' = [contrib EXCEPT ![d][p] = slots], UNCHANGED <<members, grants>>
  PROVE  AllRows'
<1>1. \A q \in Peers : contrib'[d][q] = IF q = p THEN slots ELSE contrib[d][q]
  BY DEF TypeOK, Contribution
<1>2. Own(d)' = Own(d)
  BY <1>1 DEF Own
<1>3. AtOnly(d)
  BY DEF TypeOK, AtOnly
<1>4. Rows(d)
  BY DEF AllRows
<1>5. Rows(d)'
  BY <1>1, <1>2, <1>4 DEF Rows, GrantsFor
<1>6. QED
  BY <1>3, <1>5, RowsAt

LEMMA RowsSame ==
  ASSUME AllRows, UNCHANGED <<members, contrib, grants>>
  PROVE  AllRows'
BY DEF AllRows, Rows, Own

LEMMA RowsShares ==
  ASSUME RosterInv, AllRows, NEW d \in Peers, NEW slot \in Slots,
         AddShare(d, slot) \/ WithdrawShare(d, slot)
  PROVE  AllRows'
<1>1. d \in members[d]
  BY DEF RosterInv, OwnerAndSelfListed, AddShare, WithdrawShare
<1>2. AtOnly(d) /\ members' = members
  BY DEF RosterInv, TypeOK, AtOnly, AddShare, WithdrawShare
<1>3. Rows(d)
  BY DEF AllRows
<1>4. CASE AddShare(d, slot)
  <2>1. /\ \A q \in Peers : contrib'[d][q] = IF q = d THEN Own(d) \cup {slot} ELSE contrib[d][q]
        /\ grants'[d] = grants[d] \cup GrantsFor(d, {slot}, members[d])
    BY <1>4 DEF RosterInv, TypeOK, AddShare, Contribution, Own
  <2>2. Own(d)' = Own(d) \cup {slot}
    BY <2>1 DEF Own
  <2>3. QED
    BY <1>1, <1>2, <1>3, <2>1, <2>2, RowsAt DEF Rows, GrantsFor
<1>5. CASE WithdrawShare(d, slot)
  <2>1. /\ \A q \in Peers : contrib'[d][q] = IF q = d THEN Own(d) \ {slot} ELSE contrib[d][q]
        /\ grants'[d] = grants[d] \ GrantsFor(d, {slot}, members[d])
    BY <1>5 DEF RosterInv, TypeOK, WithdrawShare, Contribution, Own
  <2>2. Own(d)' = Own(d) \ {slot}
    BY <2>1 DEF Own
  <2>3. QED
    BY <1>1, <1>2, <1>3, <2>1, <2>2, RowsAt DEF Rows, GrantsFor
<1>6. QED
  BY <1>4, <1>5

LEMMA RowsAdmit ==
  ASSUME RosterInv, AllRows, NEW m \in msgs, HandleRedeem(m), Owner \in hasGroup
  PROVE  AllRows'
<1> DEFINE ms == members[Owner] \cup {m.from}
           cs == [RosterShares(ms) EXCEPT ![m.from] = @ \cup m.slots]
<1>1. Admit(m, ms, cs)
  BY DEF HandleRedeem
<1>2. m.from \in Peers /\ m.from # Owner /\ Owner \in Peers
  BY FieldTypes, GroupRosterAssumption DEF HandleRedeem, RosterInv, GoodMessages, GoodMsg
<1> HIDE DEF cs
<1>3. /\ members'[Owner] = members[Owner] \cup {m.from}
      /\ \A q \in Peers : contrib'[Owner][q] = IF q = m.from THEN cs[q] ELSE contrib[Owner][q]
      /\ grants'[Owner] = grants[Owner] \cup GrantsFor(Owner, Own(Owner), {m.from})
  BY <1>1, <1>2 DEF RosterInv, TypeOK, Admit, Contribution
<1>4. Own(Owner)' = Own(Owner)
  BY <1>2, <1>3 DEF Own
<1>5. AtOnly(Owner)
  BY <1>1 DEF RosterInv, TypeOK, Admit, AtOnly
<1>6. Rows(Owner)
  BY <1>2 DEF AllRows
<1>7. Rows(Owner)'
  BY <1>3, <1>4, <1>6 DEF Rows, GrantsFor
<1>8. QED
  BY <1>2, <1>5, <1>7, RowsAt

LEMMA RowsNext == RosterInv /\ InFlight /\ AllRows /\ [Next]_vars => AllRows'
<1>0. SUFFICES ASSUME RosterInv, InFlight, AllRows, [Next]_vars PROVE AllRows'
  OBVIOUS
<1> TypeOK
  BY <1>0 DEF RosterInv
<1>1. CASE UNCHANGED <<members, contrib, grants>>
  BY <1>0, <1>1, RowsSame
<1>2. ASSUME NEW m \in msgs, HandleRedeem(m) PROVE AllRows'
  BY <1>0, <1>1, <1>2, RowsAdmit DEF HandleRedeem, stores
<1>3. ASSUME NEW m \in msgs, HandleJoined(m) PROVE AllRows'
  <2>1. /\ m.to \in Peers /\ m.to # Owner /\ m.slots \in SUBSET Slots
        /\ m.members \in SUBSET Peers /\ m.contrib \in Contribution
        /\ \A p \in Peers \ m.members : m.contrib[p] = {}
    BY <1>0, <1>3, FieldTypes
    DEF HandleJoined, RosterInv, GoodMessages, GoodMsg, CarriesEpoch, CarriesRoster
  <2>2. /\ Own(m.to) \cup m.slots \in SUBSET Slots
        /\ m.members \cup {m.to} \in SUBSET Peers
    BY <2>1, OwnType
  <2>3. UpsertRoster(m.to, Own(m.to) \cup m.slots, m.members \cup {m.to}, m.contrib)
    BY <1>3 DEF HandleJoined
  <2>4. QED
    BY <1>0, <2>1, <2>2, <2>3, RowsUpsert
<1>4. ASSUME NEW m \in msgs, HandleMemberAdded(m) PROVE AllRows'
  <2>1. /\ m.to \in Peers /\ m.to # Owner
        /\ m.members \in SUBSET Peers /\ m.contrib \in Contribution
        /\ {m.to, Owner} \subseteq m.members
        /\ \A p \in Peers \ m.members : m.contrib[p] = {}
    BY <1>0, <1>4, FieldTypes
    DEF HandleMemberAdded, RosterInv, GoodMessages, GoodMsg, CarriesEpoch, CarriesRoster
  <2>2. Own(m.to) \in SUBSET Slots
    BY <2>1, OwnType
  <2>3. QED
    BY <1>0, <1>1, <1>4, <2>1, <2>2, RowsUpsert DEF HandleMemberAdded, stores
<1>5. ASSUME NEW m \in msgs, HandleMemberRemoved(m) PROVE AllRows'
  <2>1. m.to \in Peers /\ m.peer \in Peers
    BY <1>5, FieldTypes DEF HandleMemberRemoved
  <2>2. QED
    BY <1>0, <1>1, <1>5, <2>1, RowsDrop, RowsRemove DEF HandleMemberRemoved, stores
<1>6. ASSUME NEW m \in msgs, HandleLeave(m) PROVE AllRows'
  <2>1. m.from \in Peers /\ m.from # Owner /\ Owner \in Peers
    BY <1>0, <1>6, FieldTypes, GroupRosterAssumption
    DEF HandleLeave, RosterInv, GoodMessages, GoodMsg
  <2>2. QED
    BY <1>0, <1>1, <1>6, <2>1, RowsRemove DEF HandleLeave, stores
<1>7. ASSUME NEW m \in msgs, HandleShareChange(m) PROVE AllRows'
  <2>1. m.from \in Peers /\ m.to \in Peers /\ m.from # m.to
    BY <1>0, <1>7, FieldTypes DEF HandleShareChange, InFlight, AnnouncedToOthers, ToAnother
  <2>2. CASE FromMember(m.to, m.from) /\ ApplyShareChange(m)
    <3>1. PICK slots : contrib' = [contrib EXCEPT ![m.to][m.from] = slots]
      <4>1. CASE m.type = "shareAdded"
        BY <2>2, <4>1 DEF ApplyShareChange
      <4>2. CASE m.type # "shareAdded"
        BY <2>2, <4>2 DEF ApplyShareChange
      <4>3. QED
        BY <4>1, <4>2
    <3>2. m.from \in members[m.to] /\ UNCHANGED <<members, grants>>
      BY <1>7, <2>2 DEF HandleShareChange, FromMember
    <3>3. QED
      BY <1>0, <2>1, <3>1, <3>2, RowsContrib
  <2>3. QED
    BY <1>1, <1>7, <2>2 DEF HandleShareChange
<1>8. ASSUME NEW m \in msgs, HandleSync(m) PROVE AllRows'
  <2>1. m.from \in Peers /\ m.from # Owner /\ Owner \in Peers
    BY <1>0, <1>8, FieldTypes, GroupRosterAssumption
    DEF HandleSync, RosterInv, GoodMessages, GoodMsg
  <2>2. ASSUME NEW slots, contrib' = [contrib EXCEPT ![Owner][m.from] = slots],
               FromMember(Owner, m.from), UNCHANGED <<members, grants>>
        PROVE  AllRows'
    BY <1>0, <2>1, <2>2, RowsContrib DEF FromMember
  <2>3. CASE RefuseSync(m)
    BY <1>1, <2>3 DEF RefuseSync, stores
  <2>4. CASE FailSync(m)
    BY <2>2, <2>4 DEF FailSync
  <2>5. CASE AnswerSync(m)
    BY <2>2, <2>5 DEF AnswerSync
  <2>6. QED
    BY <1>8, <2>3, <2>4, <2>5 DEF HandleSync
<1>9. ASSUME NEW m \in msgs, HandleSynced(m) PROVE AllRows'
  <2>1. /\ m.to \in Peers /\ m.to # Owner
        /\ m.members \in SUBSET Peers /\ m.contrib \in Contribution
        /\ m.member => /\ {m.to, Owner} \subseteq m.members
                       /\ \A p \in Peers \ m.members : m.contrib[p] = {}
    BY <1>0, <1>9, FieldTypes
    DEF HandleSynced, RosterInv, GoodMessages, GoodMsg, CarriesEpoch, CarriesRoster
  <2>2. QED
    BY <1>0, <1>1, <1>9, <2>1, RowsDrop, RowsReconcile DEF HandleSynced, GroupGone, stores
<1>10. ASSUME NEW d \in Peers, Kick(d) PROVE AllRows'
  BY <1>0, <1>10, RowsRemove, GroupRosterAssumption DEF Kick
<1>11. CASE Command
  BY <1>0, <1>1, <1>10, <1>11, RowsDrop, RowsShares, GroupRosterAssumption
  DEF Command, StartJoin, Leave, StartSync, Rename, Disband, stores
<1>12. QED
  BY <1>0, <1>1, <1>2, <1>3, <1>4, <1>5, <1>6, <1>7, <1>8, <1>9, <1>11
  DEF Next, Deliver, Lose, vars, stores

LEMMA RowsInit == Init => AllRows
<1>1. SUFFICES ASSUME Init, NEW d \in Peers PROVE Rows(d)
  BY DEF AllRows
<1>2. /\ grants[d] = {} /\ (d = Owner => members[d] = {d})
      /\ \A p \in Peers : p \notin members[d] => contrib[d][p] = {}
  BY <1>1, GroupRosterAssumption DEF Init
<1>3. QED
  BY <1>2 DEF Rows, GrantsFor

(* Contributions and grants stay in step with the lists they follow. *)
THEOREM RowsInvariant == Spec => []AllRows
<1>1. QED
  BY RowsInit, RowsNext, RosterInvariant, FlightInvariant, PTL DEF Spec

LEMMA RowsConsequences ==
  AllRows => NoOrphanContribution /\ GrantsSound /\ OwnerGrantsComplete
<1>1. SUFFICES ASSUME AllRows PROVE NoOrphanContribution /\ GrantsSound /\ OwnerGrantsComplete
  OBVIOUS
<1>2. Rows(Owner)
  BY <1>1, GroupRosterAssumption DEF AllRows
<1>3. grants[Owner] = GrantsFor(Owner, Own(Owner), members[Owner])
  BY <1>2 DEF Rows
<1>4. QED
  BY <1>1, <1>3 DEF AllRows, Rows, NoOrphanContribution, GrantsSound, OwnerGrantsComplete

(* Contributions are kept for listed members only. *)
THEOREM ContributionsCorrect == Spec => []NoOrphanContribution
<1>1. QED
  BY RowsInvariant, RowsConsequences, PTL

(* A device's group grants are on what it contributes, to members it lists. *)
THEOREM GrantsCorrect == Spec => []GrantsSound
<1>1. QED
  BY RowsInvariant, RowsConsequences, PTL

(* At the owner, every member reads every contribution of the owner. *)
THEOREM OwnerGrantsCorrect == Spec => []OwnerGrantsComplete
<1>1. QED
  BY RowsInvariant, RowsConsequences, PTL

-----------------------------------------------------------------------------
(* Admissions step by step.  Between the transaction of an admission and    *)
(* its bump the owner's list is not that of its epoch, so RosterInv does    *)
(* not hold here.                                                           *)

TasksOK ==
  tasks \subseteq [peer: Others, slots: SUBSET Slots, step: {"roster", "bump", "send"},
                   roster: SUBSET Peers, epoch: Nat]

IsPush(m) == m.type \in {"joined", "memberAdded", "memberRemoved"}

(* The owner asks itself nothing and tells itself nothing. *)
Addressed(m) ==
  /\ m.type \in {"redeem", "sync"} => m.from # Owner
  /\ CarriesEpoch(m) => m.to # Owner

OwnerEpoch == Owner \in hasGroup => epoch[Owner] = Len(versions)

(* An admission that has its epoch shares it with no other admission and    *)
(* with no push.                                                            *)
EpochTaken ==
  \A t \in tasks : t.step = "send" =>
    /\ t.epoch <= Len(versions)
    /\ \A u \in tasks : u.step = "send" /\ u.epoch = t.epoch => u = t
    /\ \A m \in msgs : IsPush(m) => m.epoch # t.epoch

Pushes == \A m \in msgs : Addressed(m) /\ (IsPush(m) => m.epoch <= Len(versions))

TaskInv == TypeOK /\ TasksOK /\ OwnerEpoch /\ EpochTaken /\ Pushes /\ OneRosterPerEpoch

LEMMA PushTypes ==
  ASSUME TypeOK, NEW m \in msgs, IsPush(m)
  PROVE  m.epoch \in Nat
BY FieldTypes DEF IsPush

LEMMA VersionTypes == TypeOK => Len(versions) \in Nat
BY DEF TypeOK

(* No push is sent and no epoch is given to an admission. *)
LEMMA QuietStep ==
  ASSUME TaskInv, TypeOK', Len(versions) <= Len(versions)',
         \A n \in msgs' : n \in msgs \/ (Addressed(n) /\ ~IsPush(n)),
         \A t \in tasks' : t.step = "send" => t \in tasks
  PROVE  EpochTaken' /\ Pushes' /\ OneRosterPerEpoch'
<1>1. \A n \in msgs' : IsPush(n) => n \in msgs
  OBVIOUS
<1>2. Len(versions) \in Nat /\ Len(versions)' \in Nat
  BY VersionTypes DEF TaskInv, TypeOK
<1>3. \A m \in msgs : IsPush(m) => m.epoch \in Nat /\ m.epoch <= Len(versions)
  BY PushTypes DEF TaskInv, Pushes
<1>4. EpochTaken'
  <2>1. \A t \in tasks : t.epoch \in Nat
    BY DEF TaskInv, TasksOK
  <2>2. QED
    BY <1>1, <1>2, <2>1 DEF TaskInv, EpochTaken, IsPush
<1>5. Pushes'
  BY <1>2, <1>3 DEF TaskInv, Pushes, Addressed, CarriesEpoch, IsPush
<1>6. OneRosterPerEpoch'
  BY <1>1 DEF TaskInv, OneRosterPerEpoch, IsPush
<1>7. QED
  BY <1>4, <1>5, <1>6

(* Removals go out under an epoch that is new to every push and admission. *)
LEMMA RemovalStep ==
  ASSUME TaskInv, TypeOK', Len(versions)' = Len(versions) + 1, tasks' = tasks,
         \A n \in msgs' : n \in msgs \/ (/\ n.type = "memberRemoved" /\ n.to # Owner
                                         /\ n.epoch = Len(versions)')
  PROVE  EpochTaken' /\ Pushes' /\ OneRosterPerEpoch'
<1>1. Len(versions) \in Nat /\ \A t \in tasks : t.epoch \in Nat
  BY VersionTypes DEF TaskInv, TasksOK
<1>2. \A m \in msgs : IsPush(m) => m.epoch \in Nat /\ m.epoch <= Len(versions)
  BY PushTypes DEF TaskInv, Pushes
<1>3. EpochTaken'
  BY <1>1 DEF TaskInv, EpochTaken, IsPush
<1>4. Pushes'
  BY <1>1, <1>2 DEF TaskInv, Pushes, Addressed, CarriesEpoch, IsPush
<1>5. OneRosterPerEpoch'
  <2>1. SUFFICES ASSUME NEW m \in msgs', NEW n \in msgs', m.epoch = n.epoch,
                        m.type \in {"joined", "memberAdded"}, IsPush(n)
                 PROVE  n.type # "memberRemoved" /\ m.members = n.members
    BY DEF OneRosterPerEpoch, IsPush
  <2>2. m \in msgs /\ m.epoch \in Nat /\ m.epoch <= Len(versions)
    BY <1>2, <2>1 DEF IsPush
  <2>3. n \in msgs
    BY <1>1, <2>1, <2>2
  <2>4. QED
    BY <2>1, <2>2, <2>3 DEF TaskInv, OneRosterPerEpoch, IsPush
<1>6. QED
  BY <1>3, <1>4, <1>5

LEMMA RemovalSent ==
  ASSUME TaskInv, TypeOK', NEW peers, NEW peer, NEW next \in SUBSET Peers, NEW consumed,
         Owner \in hasGroup, tasks' = tasks, BumpEpoch(next), hasGroup' = hasGroup,
         Exchange(consumed, Removal(peers, peer, epoch[Owner] + 1))
  PROVE  TaskInv'
<1>1. epoch[Owner] = Len(versions) /\ Len(versions)' = Len(versions) + 1
      /\ epoch'[Owner] = Len(versions) + 1
  BY GroupRosterAssumption DEF TaskInv, TypeOK, OwnerEpoch, BumpEpoch
<1>2. \A n \in Removal(peers, peer, epoch[Owner] + 1) :
        n.type = "memberRemoved" /\ n.to # Owner /\ n.epoch = Len(versions)'
  BY <1>1 DEF Removal
<1>3. EpochTaken' /\ Pushes' /\ OneRosterPerEpoch'
  BY <1>1, <1>2, RemovalStep DEF Exchange
<1>4. QED
  BY <1>1, <1>3 DEF TaskInv, TasksOK, OwnerEpoch

-----------------------------------------------------------------------------
(* The owner's epoch is only moved by the owner's bumps. *)
LEMMA OwnerEpochKept ==
  ASSUME TaskInv, NEW d \in Peers, d # Owner,
         \A x \in Peers : x # d => epoch'[x] = epoch[x],
         \A x \in Peers : x # d => (x \in hasGroup' <=> x \in hasGroup), versions' = versions
  PROVE  OwnerEpoch'
BY GroupRosterAssumption DEF TaskInv, OwnerEpoch

LEMMA SendsQuiet ==
  ASSUME TaskInv, TypeOK', NEW consumed, NEW sent, Exchange(consumed, sent),
         \A n \in sent : Addressed(n) /\ ~IsPush(n), versions' = versions, tasks' = tasks,
         OwnerEpoch'
  PROVE  TaskInv'
<1>1. Len(versions) \in Nat
  BY VersionTypes DEF TaskInv
<1>2. EpochTaken' /\ Pushes' /\ OneRosterPerEpoch'
  BY <1>1, QuietStep DEF Exchange
<1>3. QED
  BY <1>2 DEF TaskInv, TasksOK

LEMMA SafeHandlers ==
  ASSUME TaskInv, TypeOK', tasks' = tasks, NEW m \in msgs, m.type # "redeem", Deliver(m)
  PROVE  TaskInv'
<1>0. TypeOK /\ Addressed(m) /\ Owner \in Peers
  BY GroupRosterAssumption DEF TaskInv, Pushes
<1>1. CASE HandleJoined(m)
  <2>1. m.to \in Peers /\ m.to # Owner
    BY <1>0, <1>1, FieldTypes DEF HandleJoined, Addressed, CarriesEpoch
  <2>2. OwnerEpoch'
    BY <1>0, <1>1, <2>1, OwnerEpochKept DEF HandleJoined, AdoptEpoch, TypeOK
  <2>3. QED
    BY <1>1, <2>2, SendsQuiet DEF HandleJoined
<1>2. CASE HandleMemberAdded(m)
  <2>1. m.to \in Peers /\ m.to # Owner
    BY <1>0, <1>2, FieldTypes DEF HandleMemberAdded, Addressed, CarriesEpoch
  <2>2. OwnerEpoch'
    BY <1>0, <1>2, <2>1, OwnerEpochKept DEF HandleMemberAdded, AdoptEpoch, TypeOK, stores
  <2>3. QED
    BY <1>2, <2>2, SendsQuiet DEF HandleMemberAdded
<1>3. CASE HandleMemberRemoved(m)
  <2>1. m.to \in Peers /\ m.to # Owner
    BY <1>0, <1>3, FieldTypes DEF HandleMemberRemoved, Addressed, CarriesEpoch
  <2>2. OwnerEpoch'
    BY <1>0, <1>3, <2>1, OwnerEpochKept
    DEF HandleMemberRemoved, DropGroup, AdoptEpoch, TypeOK, stores
  <2>3. QED
    BY <1>3, <2>2, SendsQuiet DEF HandleMemberRemoved
<1>4. CASE HandleSynced(m)
  <2>1. m.to \in Peers /\ m.to # Owner
    BY <1>0, <1>4, FieldTypes DEF HandleSynced, Addressed, CarriesEpoch
  <2>2. OwnerEpoch'
    BY <1>0, <1>4, <2>1, OwnerEpochKept
    DEF HandleSynced, GroupGone, DropGroup, AdoptEpoch, TypeOK, stores
  <2>3. QED
    BY <1>4, <2>2, SendsQuiet DEF HandleSynced
<1>5. CASE HandleShareChange(m)
  <2>1. OwnerEpoch'
    BY <1>5 DEF TaskInv, OwnerEpoch, HandleShareChange
  <2>2. QED
    BY <1>5, <2>1, SendsQuiet DEF HandleShareChange
<1>6. CASE HandleSync(m)
  <2>1. m.from \in Peers /\ m.from # Owner
    BY <1>0, <1>6, FieldTypes DEF HandleSync, Addressed
  <2>2. OwnerEpoch' /\ versions' = versions
    BY <1>6 DEF TaskInv, OwnerEpoch, HandleSync, RefuseSync, FailSync, AnswerSync, stores
  <2>3. ASSUME NEW member, NEW ms, NEW cs, Exchange({m}, {Answer(m.from, member, ms, cs)})
        PROVE  TaskInv'
    <3>1. \A n \in {Answer(m.from, member, ms, cs)} : Addressed(n) /\ ~IsPush(n)
      BY <2>1 DEF Answer, Addressed, IsPush
    <3>2. QED
      BY <2>2, <2>3, <3>1, SendsQuiet
  <2>4. CASE FailSync(m)
    BY <2>2, <2>4, SendsQuiet DEF FailSync
  <2>5. QED
    BY <1>6, <2>3, <2>4 DEF HandleSync, RefuseSync, AnswerSync
<1>7. CASE HandleLeave(m)
  <2>1. CASE FromMember(Owner, m.from)
    <3>1. /\ Owner \in hasGroup /\ BumpEpoch(members[Owner] \ {m.from}) /\ hasGroup' = hasGroup
          /\ Exchange({m}, Removal(members[Owner], m.from, epoch[Owner] + 1))
          /\ members[Owner] \ {m.from} \in SUBSET Peers
      BY <1>0, <1>7, <2>1 DEF HandleLeave, FromMember, TypeOK
    <3>2. QED
      BY <3>1, RemovalSent
  <2>2. CASE ~FromMember(Owner, m.from)
    <3>1. Exchange({m}, {}) /\ UNCHANGED <<stores, versions>>
      BY <1>7, <2>2 DEF HandleLeave
    <3>2. OwnerEpoch'
      BY <3>1 DEF TaskInv, OwnerEpoch, stores
    <3>3. QED
      BY <3>1, <3>2, SendsQuiet
  <2>3. QED
    BY <2>1, <2>2
<1>8. QED
  BY <1>1, <1>2, <1>3, <1>4, <1>5, <1>6, <1>7 DEF Deliver, HandleRedeem

LEMMA SafeWhole ==
  ASSUME TaskInv, TypeOK', tasks' = tasks, Whole
  PROVE  TaskInv'
<1>0. TypeOK /\ Owner \in Peers /\ members[Owner] \in SUBSET Peers
  BY GroupRosterAssumption DEF TaskInv, TypeOK
<1>1. ASSUME NEW d \in Others, NEW slots, StartJoin(d, slots) PROVE TaskInv'
  <2>1. OwnerEpoch' /\ versions' = versions
    BY <1>1 DEF TaskInv, OwnerEpoch, StartJoin, stores
  <2>2. ASSUME NEW n, n = [type |-> "redeem", from |-> d, slots |-> slots]
        PROVE  Addressed(n) /\ ~IsPush(n)
    BY <1>1, <2>2 DEF Others, Addressed, CarriesEpoch, IsPush
  <2>3. QED
    BY <1>1, <2>1, <2>2, SendsQuiet DEF StartJoin, Send
<1>2. ASSUME NEW d \in Peers, Leave(d) PROVE TaskInv'
  <2>1. OwnerEpoch' /\ versions' = versions
    BY <1>0, <1>2, OwnerEpochKept DEF Leave, DropGroup, TypeOK
  <2>2. ASSUME NEW n, n = [type |-> "leave", from |-> d]
        PROVE  Addressed(n) /\ ~IsPush(n)
    BY <2>2 DEF Addressed, CarriesEpoch, IsPush
  <2>3. QED
    BY <1>2, <2>1, <2>2, SendsQuiet DEF Leave, Send
<1>3. ASSUME NEW d \in Peers, StartSync(d) PROVE TaskInv'
  <2>1. OwnerEpoch' /\ versions' = versions /\ d # Owner
    BY <1>3 DEF TaskInv, OwnerEpoch, StartSync, stores
  <2>2. ASSUME NEW n, n = [type |-> "sync", from |-> d, slots |-> Own(d)]
        PROVE  Addressed(n) /\ ~IsPush(n)
    BY <2>1, <2>2 DEF Addressed, CarriesEpoch, IsPush
  <2>3. QED
    BY <1>3, <2>1, <2>2, SendsQuiet DEF StartSync, Send
<1>4. ASSUME NEW d \in Peers, Kick(d) PROVE TaskInv'
  <2>1. /\ Owner \in hasGroup /\ BumpEpoch(members[Owner] \ {d}) /\ hasGroup' = hasGroup
        /\ Exchange({}, Removal(members[Owner], d, epoch[Owner] + 1))
        /\ members[Owner] \ {d} \in SUBSET Peers
    BY <1>0, <1>4 DEF Kick, Send
  <2>2. QED
    BY <2>1, RemovalSent
<1>5. ASSUME Disband PROVE TaskInv'
  <2>1. /\ Owner \in hasGroup /\ DropGroup(Owner) /\ versions' = Append(versions, {})
        /\ msgs' = msgs \cup UNION {Removal({p}, p, epoch[Owner] + 1) : p \in members[Owner]}
    BY <1>5 DEF Disband, Send, Exchange
  <2>2. /\ epoch[Owner] = Len(versions) /\ Len(versions)' = Len(versions) + 1
        /\ Owner \notin hasGroup'
    BY <1>0, <2>1 DEF TaskInv, TypeOK, OwnerEpoch, DropGroup
  <2>3. \A n \in msgs' : n \in msgs \/ (/\ n.type = "memberRemoved" /\ n.to # Owner
                                         /\ n.epoch = Len(versions)')
    BY <2>1, <2>2 DEF Removal
  <2>4. QED
    BY <2>2, <2>3, RemovalStep DEF TaskInv, TasksOK, OwnerEpoch
<1>6. ASSUME NEW m \in msgs, Lose(m) PROVE TaskInv'
  <2>1. OwnerEpoch' /\ versions' = versions /\ msgs' \subseteq msgs
    BY <1>6 DEF TaskInv, OwnerEpoch, Lose, stores
  <2>2. QED
    BY <1>0, <2>1, QuietStep, VersionTypes DEF TaskInv, TasksOK
<1>7. ASSUME NEW m \in msgs, Owner \notin hasGroup, HandleRedeem(m) PROVE TaskInv'
  <2>1. OwnerEpoch' /\ versions' = versions /\ Exchange({m}, {})
    BY <1>7 DEF TaskInv, OwnerEpoch, HandleRedeem, stores
  <2>2. QED
    BY <2>1, SendsQuiet
<1>8. QED
  BY <1>1, <1>2, <1>3, <1>4, <1>5, <1>6, <1>7, SafeHandlers DEF Whole

LEMMA SafeBegin ==
  ASSUME TaskInv, NEW m \in msgs, BeginAdmission(m)
  PROVE  TaskInv'
<1>1. m.from \in Peers /\ m.from # Owner /\ m.slots \in SUBSET Slots /\ Owner \in Peers
  BY FieldTypes, GroupRosterAssumption DEF BeginAdmission, TaskInv, Pushes, Addressed
<1>2. TypeOK'
  <2>1. contrib' \in [Peers -> Contribution]
    BY <1>1 DEF TaskInv, TypeOK, BeginAdmission, Contribution
  <2>2. GrantsFor(Owner, Own(Owner), {m.from}) \in SUBSET (Slots \X Peers)
    BY <1>1, OwnType, GrantTypes DEF TaskInv
  <2>3. msgs' \subseteq Message
    BY DEF TaskInv, TypeOK, BeginAdmission, Exchange
  <2>4. QED
    BY <1>1, <2>1, <2>2, <2>3 DEF TaskInv, TypeOK, BeginAdmission
<1>3. TasksOK'
  BY <1>1 DEF TaskInv, TasksOK, BeginAdmission, Others
<1>4. OwnerEpoch' /\ versions' = versions
  BY DEF TaskInv, OwnerEpoch, BeginAdmission
<1>5. EpochTaken' /\ Pushes' /\ OneRosterPerEpoch'
  <2>1. msgs' \subseteq msgs /\ Len(versions) \in Nat
    BY VersionTypes DEF BeginAdmission, Exchange, TaskInv
  <2>2. \A t \in tasks' : t.step = "send" => t \in tasks
    BY DEF BeginAdmission
  <2>3. QED
    BY <1>2, <1>4, <2>1, <2>2, QuietStep
<1>6. QED
  BY <1>2, <1>3, <1>4, <1>5 DEF TaskInv

LEMMA SafeRead ==
  ASSUME TaskInv, NEW t \in tasks, ReadRoster(t) \/ FailTask(t)
  PROVE  TaskInv'
<1>1. TypeOK' /\ OwnerEpoch' /\ UNCHANGED <<msgs, versions>>
  BY DEF TaskInv, TypeOK, Contribution, OwnerEpoch, ReadRoster, FailTask, vars
<1>2. /\ TasksOK'
      /\ \A u \in tasks' : u.step = "send" => u \in tasks
  <2>1. CASE ReadRoster(t)
    <3> DEFINE u == [t EXCEPT !.step = "bump", !.roster = members[Owner]]
    <3>1. /\ u.step = "bump"
          /\ u \in [peer: Others, slots: SUBSET Slots, step: {"roster", "bump", "send"},
                    roster: SUBSET Peers, epoch: Nat]
      BY GroupRosterAssumption DEF TaskInv, TypeOK, TasksOK
    <3>2. tasks' = (tasks \ {t}) \cup {u}
      BY <2>1 DEF ReadRoster, Advance
    <3> HIDE DEF u
    <3>3. QED
      BY <3>1, <3>2 DEF TaskInv, TasksOK
  <2>2. CASE FailTask(t)
    BY <2>2 DEF TaskInv, TasksOK, FailTask, Advance
  <2>3. QED
    BY <2>1, <2>2
<1>3. EpochTaken' /\ Pushes' /\ OneRosterPerEpoch'
  BY <1>1, <1>2, QuietStep, VersionTypes DEF TaskInv
<1>4. QED
  BY <1>1, <1>2, <1>3 DEF TaskInv

LEMMA SafeBump ==
  ASSUME TaskInv, NEW t \in tasks, BumpForAdmission(t)
  PROVE  TaskInv'
<1> DEFINE u == [t EXCEPT !.step = "send", !.epoch = Len(versions) + 1]
<1>1. /\ epoch[Owner] = Len(versions) /\ Len(versions)' = Len(versions) + 1
      /\ epoch'[Owner] = Len(versions) + 1 /\ Len(versions) \in Nat
      /\ msgs' = msgs /\ hasGroup' = hasGroup
  BY GroupRosterAssumption, VersionTypes
  DEF TaskInv, TypeOK, OwnerEpoch, BumpForAdmission, BumpEpoch
<1>2. TypeOK'
  <2>1. members[Owner] \in SUBSET Peers
    BY GroupRosterAssumption DEF TaskInv, TypeOK
  <2>2. epoch' \in [Peers -> Nat] /\ versions' \in Seq(SUBSET Peers)
    BY <2>1, BumpTypes DEF TaskInv, BumpForAdmission
  <2>3. QED
    BY <2>2 DEF TaskInv, TypeOK, BumpForAdmission
<1>3. /\ tasks' = (tasks \ {t}) \cup {u} /\ u.step = "send" /\ u.epoch = Len(versions) + 1
      /\ u \in [peer: Others, slots: SUBSET Slots, step: {"roster", "bump", "send"},
                roster: SUBSET Peers, epoch: Nat]
  <2>1. tasks' = (tasks \ {t}) \cup {u}
    BY <1>1 DEF BumpForAdmission, Advance, EpochReturned
  <2>2. t \in [peer: Others, slots: SUBSET Slots, step: {"roster", "bump", "send"},
               roster: SUBSET Peers, epoch: Nat]
    BY DEF TaskInv, TasksOK
  <2>3. Len(versions) + 1 \in Nat
    BY <1>1
  <2>4. u.step = "send" /\ u.epoch = Len(versions) + 1
    BY <2>2
  <2>5. u \in [peer: Others, slots: SUBSET Slots, step: {"roster", "bump", "send"},
               roster: SUBSET Peers, epoch: Nat]
    BY <2>2, <2>3
  <2>6. QED
    BY <2>1, <2>4, <2>5
<1> HIDE DEF u
<1>4. TasksOK'
  BY <1>3 DEF TaskInv, TasksOK
<1>5. \A k \in tasks : k.step = "send" => k.epoch \in Nat /\ k.epoch <= Len(versions)
  BY DEF TaskInv, TasksOK, EpochTaken
<1>6. \A m \in msgs : IsPush(m) => m.epoch \in Nat /\ m.epoch <= Len(versions)
  BY PushTypes DEF TaskInv, Pushes
<1>7. EpochTaken'
  <2>1. ASSUME NEW k \in tasks', k.step = "send"
        PROVE  /\ k.epoch <= Len(versions)'
               /\ \A l \in tasks' : l.step = "send" /\ l.epoch = k.epoch => l = k
               /\ \A m \in msgs : IsPush(m) => m.epoch # k.epoch
    <3>1. CASE k = u
      BY <1>1, <1>3, <1>5, <1>6, <3>1
    <3>2. CASE k # u
      <4>1. k \in tasks
        BY <1>3, <2>1, <3>2
      <4>2. QED
        BY <1>1, <1>3, <1>5, <2>1, <4>1 DEF TaskInv, EpochTaken
    <3>3. QED
      BY <3>1, <3>2
  <2>2. QED
    BY <1>1, <2>1 DEF EpochTaken, IsPush
<1>8. Pushes' /\ OneRosterPerEpoch' /\ OwnerEpoch'
  BY <1>1, <1>6
  DEF TaskInv, Pushes, OneRosterPerEpoch, OwnerEpoch, Addressed, CarriesEpoch, IsPush
<1>9. QED
  BY <1>2, <1>4, <1>7, <1>8 DEF TaskInv

LEMMA SafeSend ==
  ASSUME TaskInv, NEW t \in tasks, SendAdmission(t)
  PROVE  TaskInv'
<1> DEFINE cs == RosterShares(t.roster)
           carried == [members: {t.roster}, contrib: {cs}, epoch: {t.epoch}]
           pushed == {[type |-> "memberAdded", to |-> p, members |-> r.members,
                       contrib |-> r.contrib, epoch |-> r.epoch] :
                         p \in members[Owner] \ {Owner, t.peer}, r \in carried}
           reply == {[type |-> "joined", to |-> t.peer, slots |-> t.slots, members |-> r.members,
                      contrib |-> r.contrib, epoch |-> r.epoch] : r \in carried}
<1>1. /\ t.peer \in Peers /\ t.peer # Owner /\ t.slots \in SUBSET Slots /\ t.step = "send"
      /\ t.roster \in SUBSET Peers /\ t.epoch \in Nat /\ members[Owner] \in SUBSET Peers
      /\ TypeOK
  BY GroupRosterAssumption DEF TaskInv, TypeOK, TasksOK, SendAdmission, Others
<1>2. cs \in Contribution
  BY <1>1, RosterTypes
<1>3. msgs' = msgs \cup pushed \cup reply /\ tasks' = tasks \ {t} /\ UNCHANGED <<stores, versions>>
  BY DEF SendAdmission, Send, Exchange, Advance
<1> HIDE DEF cs
<1>4. \A n \in pushed \cup reply :
        /\ n.type \in {"joined", "memberAdded"} /\ n.members = t.roster /\ n.epoch = t.epoch
        /\ n.to \in Peers /\ n.to # Owner
  BY <1>1
<1>5. pushed \subseteq MemberAdded /\ reply \subseteq Joined
  BY <1>1, <1>2 DEF MemberAdded, Joined
<1> HIDE DEF pushed, reply
<1>6. TypeOK'
  BY <1>1, <1>3, <1>5 DEF TypeOK, stores, Message
<1>7. TasksOK' /\ OwnerEpoch'
  BY <1>3 DEF TaskInv, TasksOK, OwnerEpoch, stores
<1>8. /\ t.epoch <= Len(versions)
      /\ \A k \in tasks : k.step = "send" /\ k.epoch = t.epoch => k = t
      /\ \A m \in msgs : IsPush(m) => m.epoch # t.epoch
  BY <1>1 DEF TaskInv, EpochTaken
<1>9. EpochTaken'
  BY <1>3, <1>4, <1>8 DEF TaskInv, EpochTaken, IsPush
<1>10. Pushes'
  BY <1>3, <1>4, <1>8 DEF TaskInv, Pushes, Addressed, CarriesEpoch, IsPush
<1>11. OneRosterPerEpoch'
  BY <1>3, <1>4, <1>8 DEF TaskInv, OneRosterPerEpoch, IsPush
<1>12. QED
  BY <1>6, <1>7, <1>9, <1>10, <1>11 DEF TaskInv

LEMMA TaskInitial == TaskInit => TaskInv
<1>1. SUFFICES ASSUME TaskInit PROVE TaskInv
  OBVIOUS
<1>2. TypeOK /\ msgs = {} /\ tasks = {}
  BY <1>1, InitTypes DEF TaskInit, Init
<1>3. OwnerEpoch
  <2>1. versions = <<>> /\ Len(versions) = 0 /\ epoch[Owner] = 0
    BY <1>1, GroupRosterAssumption DEF TaskInit, Init
  <2>2. QED
    BY <2>1 DEF OwnerEpoch
<1>4. QED
  BY <1>2, <1>3 DEF TaskInv, TasksOK, EpochTaken, Pushes, OneRosterPerEpoch

LEMMA TaskStep == TaskInv /\ [TaskNext]_taskVars => TaskInv'
<1>1. SUFFICES ASSUME TaskInv, [TaskNext]_taskVars PROVE TaskInv'
  OBVIOUS
<1>2. CASE Whole /\ UNCHANGED tasks
  <2>1. [Next]_vars
    BY <1>2 DEF Whole, Next, Command, Deliver, Others
  <2>2. QED
    BY <1>1, <1>2, <2>1, TypesNext, SafeWhole DEF TaskInv
<1>3. CASE UNCHANGED taskVars
  BY <1>1, <1>3
  DEF taskVars, vars, TaskInv, TypeOK, Contribution, TasksOK, OwnerEpoch, EpochTaken, Pushes,
      Addressed, CarriesEpoch, IsPush, OneRosterPerEpoch
<1>4. QED
  BY <1>1, <1>2, <1>3, SafeBegin, SafeRead, SafeBump, SafeSend DEF TaskNext, Step

(* An epoch belongs to one admission or one removal: the inductive          *)
(* invariant of the interleaved admissions.                                 *)
THEOREM TaskInvariant == TaskSpec => []TaskInv
<1>1. QED
  BY TaskInitial, TaskStep, PTL DEF TaskSpec

(* No two pushes of different rosters share an epoch. *)
THEOREM OneRosterCorrect == TaskSpec => []OneRosterPerEpoch
<1>1. TaskInv => OneRosterPerEpoch
  BY DEF TaskInv
<1>2. QED
  BY <1>1, TaskInvariant, PTL
=============================================================================
