----------------------------- MODULE ReadAccess -----------------------------
(***************************************************************************)
(* What the grant tables promise: a peer reads a share exactly as long as  *)
(* some reason for it stands - a group that has both, or an invitation the *)
(* peer redeemed - and what happens to groups leaves invitations alone.    *)
(***************************************************************************)
CONSTANTS
  Shares,
  Peers,
  Direct   \* the reason of a redeemed invitation; not a group

VARIABLES
  common,   \* <<share, peer, group>>: what groups have in common with a peer
  reasons,  \* <<share, peer, group or Direct>>: why peer may read share
  readers   \* <<share, peer>>: who may read what

Pairs(rs) == {<<r[1], r[2]>> : r \in rs}
Directs(rs) == {r \in rs : r[3] = Direct}

Init ==
  /\ common = {}
  /\ reasons = {}
  /\ readers = {}

(* A group gives and takes its own reasons, for what it still has. *)
GroupsChange ==
  /\ Directs(reasons') = Directs(reasons)
  /\ reasons' \ Directs(reasons') \subseteq common'

(* An invitation is redeemed: one reason more. *)
Redeem ==
  /\ common' = common
  /\ \E share \in Shares, peer \in Peers : reasons' = reasons \cup {<<share, peer, Direct>>}

(* Access is cut: every reason of a pair goes. *)
Cut ==
  /\ common' = common
  /\ reasons' \subseteq reasons
  /\ Pairs(reasons \ reasons') \cap Pairs(reasons') = {}

Next ==
  /\ GroupsChange \/ Redeem \/ Cut
  /\ readers' = Pairs(reasons')

Spec == Init /\ [][Next]_<<common, reasons, readers>>
=============================================================================
