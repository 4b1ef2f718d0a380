----------------------------- MODULE GrantStore -----------------------------
(***************************************************************************)
(* The access tables of one device: shares, peers, grants, grant_sources,  *)
(* invites and the group rows they follow (src/src/remote/state/mod.rs and *)
(* state/group.rs).  One row of grants says whether a peer reads a share,  *)
(* whatever the number of groups and invitations that gave the access; the *)
(* rows of grant_sources say which of them did.                            *)
(*                                                                         *)
(* An action is a whole operation of the daemon.                           *)
(***************************************************************************)
EXTENDS Naturals

CONSTANTS
  Shares,  \* ids of this device's shares, each created at most once
  Peers,   \* the other devices
  Groups,  \* groups this device may be in
  Direct   \* grant_sources.via of a redeemed invitation

ASSUME GrantStoreAssumption == Direct \notin Groups

VARIABLES
  shares,   \* rows of shares
  removed,  \* history: ids of removed shares
  enabled,  \* shares.enabled
  invites,  \* shares with an unused invitation
  peers,    \* rows of peers
  active,   \* <<share, peer>>: rows of grants that are not revoked
  sources,  \* <<share, peer, group or Direct>>: rows of grant_sources
  members,  \* group_members of each group, this device left out
  contrib,  \* group_shares of each group for this device
  listed    \* history: what the owner's roster may still list for this device

vars == <<shares, removed, enabled, invites, peers, active, sources, members, contrib, listed>>
shareVars == <<shares, removed, enabled>>
groupVars == <<members, contrib, listed>>

Reasons(sh, p) == {v \in Groups \cup {Direct} : <<sh, p, v>> \in sources}

-----------------------------------------------------------------------------
(* Statements on the two grant tables.                                     *)

(* group_grant_sql for every pair: a source, and the row made active. *)
Grant(g, shs, ps) ==
  /\ sources' = sources \cup (shs \X ps \X {g})
  /\ active' = active \cup (shs \X ps)

(* revoke_group_grant_sql: the group's source goes; the row is revoked,    *)
(* with what is left of its sources, unless another one justifies it.  Two *)
(* slips: the group's source is left where another one stands, and the     *)
(* other sources are not looked at.                                        *)
SourceLeft(g, shs, ps) == {}
SourceOf(g, shs, ps) == shs \X ps \X {g}

NoOtherReason(g, sh, p) == FALSE
OtherReason(g, sh, p) == Reasons(sh, p) \ {g} # {}

RevokeRows(g, shs, ps, srcs, act) ==
  LET gone == {sp \in shs \X ps : ~OtherReason(g, sp[1], sp[2])}
  IN /\ sources' = {r \in srcs \ SourceOf(g, shs, ps) : <<r[1], r[2]>> \notin gone}
     /\ active' = act \ gone
Revoke(g, shs, ps) == RevokeRows(g, shs, ps, sources, active)

-----------------------------------------------------------------------------
(* Shares, invitations, peers.                                             *)

AddShare(sh) ==
  /\ sh \notin shares \cup removed
  /\ shares' = shares \cup {sh}
  /\ enabled' = enabled \cup {sh}
  /\ UNCHANGED <<removed, invites, peers, active, sources, groupVars>>

SetEnabled(sh, on) ==
  /\ sh \in shares
  /\ enabled' = IF on THEN enabled \cup {sh} ELSE enabled \ {sh}
  /\ UNCHANGED <<shares, removed, invites, peers, active, sources, groupVars>>

(* The grants of a share go with its row; a slip forgets the cascade. *)
GrantsKept(sh) == active
GrantsOfOthers(sh) == {sp \in active : sp[1] # sh}

(* Refused while a group lists it.  Grants and invitations cascade, the    *)
(* sources have no foreign key and stay. *)
RemoveShare(sh) ==
  /\ sh \in shares
  /\ \A g \in Groups : sh \notin contrib[g]
  /\ shares' = shares \ {sh}
  /\ removed' = removed \cup {sh}
  /\ enabled' = enabled \ {sh}
  /\ invites' = invites \ {sh}
  /\ active' = GrantsOfOthers(sh)
  /\ UNCHANGED <<peers, sources, groupVars>>

CreateInvite(sh) ==
  /\ sh \in enabled
  /\ invites' = invites \cup {sh}
  /\ UNCHANGED <<shareVars, peers, active, sources, groupVars>>

(* An invitation that expires is never redeemed. *)
RedeemInvite(sh, p) ==
  /\ sh \in invites \cap enabled
  /\ invites' = invites \ {sh}
  /\ peers' = peers \cup {p}
  /\ Grant(Direct, {sh}, {p})
  /\ UNCHANGED <<shareVars, groupVars>>

(* The explicit revoke of an active grant; refused when there is none. *)
RevokeShare(sh, p) ==
  /\ <<sh, p>> \in active
  /\ active' = active \ {<<sh, p>>}
  /\ sources' = {r \in sources : <<r[1], r[2]>> # <<sh, p>>}
  /\ UNCHANGED <<shareVars, invites, peers, groupVars>>

(* The sources forget_peer deletes, by hand for want of a foreign key; a   *)
(* slip leaves them to the cascade. *)
SourcesKept(p) == sources
SourcesForgotten(p) == {r \in sources : r[2] # p}

(* Refused while the peer is in a group. *)
ForgetPeer(p) ==
  /\ p \in peers
  /\ \A g \in Groups : p \notin members[g]
  /\ peers' = peers \ {p}
  /\ active' = {sp \in active : sp[2] # p}
  /\ sources' = SourcesForgotten(p)
  /\ UNCHANGED <<shareVars, invites, groupVars>>

-----------------------------------------------------------------------------
(* Groups.                                                                 *)

(* adjust_group_shares, one share added ... *)
Contribute(g, sh) ==
  /\ sh \in shares \ contrib[g]
  /\ contrib' = [contrib EXCEPT ![g] = @ \cup {sh}]
  /\ listed' = [listed EXCEPT ![g] = @ \cup {sh}]
  /\ Grant(g, {sh}, members[g])
  /\ UNCHANGED <<shareVars, invites, peers, members>>

(* ... and one withdrawn, never the last. *)
Withdraw(g, sh) ==
  /\ sh \in contrib[g]
  /\ contrib[g] # {sh}
  /\ contrib' = [contrib EXCEPT ![g] = @ \ {sh}]
  /\ Revoke(g, {sh}, members[g])
  /\ UNCHANGED <<shareVars, invites, peers, members, listed>>

(* apply_roster_add_only and apply_roster_reconcile, each a transaction:   *)
(* the shares to grant are read first, the roster may list again what was  *)
(* withdrawn, and a grant on a share that is gone fails the whole of it.   *)
ApplyRoster(g, ms, own, pruned) ==
  LET granted == contrib[g] \X ms \X {g}
  IN /\ contrib[g] \subseteq shares
     /\ peers' = peers \cup ms
     /\ members' = [members EXCEPT ![g] = IF pruned THEN ms ELSE @ \cup ms]
     /\ contrib' = [contrib EXCEPT ![g] = @ \cup own]
     /\ RevokeRows(g, contrib[g] \cup own, IF pruned THEN members[g] \ ms ELSE {},
                   sources \cup granted, active \cup (contrib[g] \X ms))
     /\ UNCHANGED <<shareVars, invites, listed>>

(* revoke_member_access, then remove_member. *)
RemoveMember(g, p) ==
  /\ p \in members[g]
  /\ members' = [members EXCEPT ![g] = @ \ {p}]
  /\ Revoke(g, contrib[g], {p})
  /\ UNCHANGED <<shareVars, invites, peers, contrib, listed>>

(* drop_group. *)
DropGroup(g) ==
  /\ Revoke(g, contrib[g], members[g])
  /\ members' = [members EXCEPT ![g] = {}]
  /\ contrib' = [contrib EXCEPT ![g] = {}]
  /\ UNCHANGED <<shareVars, invites, peers, listed>>

-----------------------------------------------------------------------------
Init ==
  /\ shares = {} /\ removed = {} /\ enabled = {} /\ invites = {} /\ peers = {}
  /\ active = {} /\ sources = {}
  /\ members = [g \in Groups |-> {}]
  /\ contrib = [g \in Groups |-> {}]
  /\ listed = [g \in Groups |-> {}]

ShareOperation ==
  \E sh \in Shares :
    \/ AddShare(sh)
    \/ \E on \in BOOLEAN : SetEnabled(sh, on)
    \/ RemoveShare(sh)
    \/ CreateInvite(sh)
    \/ \E p \in Peers : RedeemInvite(sh, p) \/ RevokeShare(sh, p)

GroupOperation ==
  \E g \in Groups :
    \/ \E sh \in Shares : Contribute(g, sh) \/ Withdraw(g, sh)
    \/ \E ms \in SUBSET Peers, own \in SUBSET listed[g], pruned \in BOOLEAN :
         ApplyRoster(g, ms, own, pruned)
    \/ \E p \in Peers : RemoveMember(g, p)
    \/ DropGroup(g)

Next ==
  \/ ShareOperation
  \/ GroupOperation
  \/ \E p \in Peers : ForgetPeer(p)

Spec == Init /\ [][Next]_vars

-----------------------------------------------------------------------------
TypeOK ==
  /\ shares \subseteq Shares /\ removed \subseteq Shares
  /\ enabled \subseteq shares /\ invites \subseteq shares
  /\ peers \subseteq Peers
  /\ active \subseteq shares \X peers
  /\ sources \subseteq Shares \X Peers \X (Groups \cup {Direct})
  /\ members \in [Groups -> SUBSET peers]
  /\ contrib \in [Groups -> SUBSET Shares]
  /\ listed \in [Groups -> SUBSET Shares]

(* Sources of shares that exist; the others can never be granted again. *)
LiveSources == {r \in sources : r[1] \in shares}

(* One row, many reasons: a share is readable by a peer exactly as long as *)
(* a group or an invitation says so.  Withdrawing, kicking, disbanding,    *)
(* revoking and forgetting in any order neither strand a reader without a  *)
(* reason nor cut one that has another.                                    *)
GrantsJustified == active = {<<r[1], r[2]>> : r \in LiveSources}

(* What a group justifies ends with it: its sources name its members and   *)
(* what this device contributes to it, so nobody reads through a group he  *)
(* was removed from, and a kept source never outlives a withdrawal.        *)
GroupSourcesCurrent ==
  \A r \in LiveSources : r[3] # Direct =>
    r[2] \in members[r[3]] /\ r[1] \in contrib[r[3]]

InCommon == {r \in Shares \X Peers \X Groups : r[1] \in contrib[r[3]] /\ r[2] \in members[r[3]]}

Access == INSTANCE ReadAccess
            WITH common <- InCommon, reasons <- LiveSources, readers <- active

(* The tables implement ReadAccess: no operation of a group touches what   *)
(* an invitation gave.                                                     *)
ImplementsReadAccess == Access!Spec
=============================================================================
