--------------------------- MODULE RosterClaims ----------------------------
(* What a comment of the code says of the roster protocol, and the         *)
(* protocol does not do.                                                   *)
EXTENDS MCGroupRoster

(* The roster a reply carries is the whole truth, and the latest: what the *)
(* owner lists now, and what every listed member itself contributes now.   *)
(* Nothing else is on its way.                                             *)
Truth(m) ==
  /\ Owner \in hasGroup
  /\ msgs = {m}
  /\ m.epoch = epoch[Owner]
  /\ m.members = members[Owner]
  /\ m.contrib = RosterShares(members[Owner])
  /\ \A p \in m.members : m.contrib[p] = Own(p)

(* groups.rs: "a share change whose broadcast was missed while the owner   *)
(* was offline still converges on the next pull", "Offline members         *)
(* reconcile on their next sync".  A pull that is answered with the truth  *)
(* leaves the device listing it.                                           *)
PullConverges ==
  [][\A m \in msgs :
       HandleSynced(m) /\ m.to \in hasGroup /\ m.member /\ Truth(m) =>
         /\ members'[m.to] = m.members
         /\ contrib'[m.to] = m.contrib]_vars
=============================================================================
