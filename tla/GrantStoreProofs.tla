-------------------------- MODULE GrantStoreProofs --------------------------
(* For any shares, peers and groups: a peer reads a share exactly as long  *)
(* as a reason stands, and a group's reasons are current.                  *)
EXTENDS GrantStore, TLAPS

Vias == Groups \cup {Direct}

(* A source names a share that exists or existed: the id of a share that   *)
(* is gone is not used again, so its sources justify nothing.              *)
Known ==
  \A sh \in Shares, p \in Peers, v \in Vias :
    <<sh, p, v>> \in sources => sh \in shares \cup removed

(* GrantsJustified and GroupSourcesCurrent, row by row. *)
Justified ==
  \A sh \in Shares, p \in Peers :
    <<sh, p>> \in active <=> sh \in shares /\ \E v \in Vias : <<sh, p, v>> \in sources

Current ==
  \A sh \in shares, p \in Peers, g \in Groups :
    <<sh, p, g>> \in sources => p \in members[g] /\ sh \in contrib[g]

StoreInv == TypeOK /\ Known /\ Justified /\ Current

LEMMA GrantedRows ==
  ASSUME NEW g \in Vias, NEW shs \in SUBSET Shares, NEW ps \in SUBSET Peers, Grant(g, shs, ps)
  PROVE  /\ \A sh \in Shares, p \in Peers, v \in Vias :
              <<sh, p, v>> \in sources' <=>
                <<sh, p, v>> \in sources \/ (sh \in shs /\ p \in ps /\ v = g)
         /\ \A sh \in Shares, p \in Peers :
              <<sh, p>> \in active' <=> <<sh, p>> \in active \/ (sh \in shs /\ p \in ps)
BY DEF Grant

(* The rows after a revocation: the group's source goes, and the row with  *)
(* every other source of it when there is no other reason.                 *)
LEMMA RevokedRows ==
  ASSUME NEW g \in Groups, NEW shs \in SUBSET Shares, NEW ps \in SUBSET Peers,
         NEW srcs, NEW act, RevokeRows(g, shs, ps, srcs, act)
  PROVE  /\ \A sh \in Shares, p \in Peers, v \in Vias :
              <<sh, p, v>> \in sources' <=>
                /\ <<sh, p, v>> \in srcs
                /\ sh \in shs /\ p \in ps => v # g /\ OtherReason(g, sh, p)
         /\ \A sh \in Shares, p \in Peers :
              <<sh, p>> \in active' <=>
                /\ <<sh, p>> \in act
                /\ sh \in shs /\ p \in ps => OtherReason(g, sh, p)
         /\ sources' \subseteq srcs /\ active' \subseteq act
<1> DEFINE gone == {sp \in shs \X ps : ~OtherReason(g, sp[1], sp[2])}
<1>1. /\ sources' = {r \in srcs \ (shs \X ps \X {g}) : <<r[1], r[2]>> \notin gone}
      /\ active' = act \ gone
  BY DEF RevokeRows, SourceOf
<1>2. ASSUME NEW sh, NEW p
      PROVE  <<sh, p>> \in gone <=> sh \in shs /\ p \in ps /\ ~OtherReason(g, sh, p)
  OBVIOUS
<1> HIDE DEF gone
<1>3. ASSUME NEW sh, NEW p, NEW v
      PROVE  <<sh, p, v>> \in shs \X ps \X {g} <=> sh \in shs /\ p \in ps /\ v = g
  OBVIOUS
<1>4. QED
  BY <1>1, <1>2, <1>3

LEMMA OtherReasons ==
  ASSUME NEW g \in Groups, NEW sh, NEW p
  PROVE  OtherReason(g, sh, p) <=> \E v \in Vias : v # g /\ <<sh, p, v>> \in sources
BY DEF OtherReason, Reasons, Vias

(* What every operation that revokes for a group preserves, when it tells  *)
(* the group's members and contributions apart from the rows it revokes.   *)
LEMMA RevokeKeeps ==
  ASSUME StoreInv, NEW g \in Groups, NEW shs \in SUBSET Shares, NEW ps \in SUBSET Peers,
         Revoke(g, shs, ps),
         shares' = shares, removed' = removed, peers' = peers,
         \A h \in Groups, sh \in Shares, p \in Peers :
           p \in members[h] /\ sh \in contrib[h] =>
             \/ p \in members'[h] /\ sh \in contrib'[h]
             \/ h = g /\ sh \in shs /\ p \in ps
  PROVE  /\ Known' /\ Justified' /\ Current'
         /\ active' \subseteq shares \X peers
         /\ sources' \subseteq Shares \X Peers \X Vias
<1>1. RevokeRows(g, shs, ps, sources, active)
  BY DEF Revoke
<1>2. /\ \A sh \in Shares, p \in Peers, v \in Vias :
           <<sh, p, v>> \in sources' <=>
             /\ <<sh, p, v>> \in sources
             /\ sh \in shs /\ p \in ps => v # g /\ OtherReason(g, sh, p)
      /\ \A sh \in Shares, p \in Peers :
           <<sh, p>> \in active' <=>
             /\ <<sh, p>> \in active
             /\ sh \in shs /\ p \in ps => OtherReason(g, sh, p)
      /\ sources' \subseteq sources /\ active' \subseteq active
  BY <1>1, RevokedRows
<1>3. Known'
  BY <1>2 DEF StoreInv, Known
<1>4. Justified'
  <2>1. ASSUME NEW sh \in Shares, NEW p \in Peers
        PROVE  <<sh, p>> \in active' <=>
                 sh \in shares' /\ \E v \in Vias : <<sh, p, v>> \in sources'
    <3>1. CASE sh \in shs /\ p \in ps
      BY <1>2, <3>1, OtherReasons DEF StoreInv, Justified
    <3>2. CASE ~(sh \in shs /\ p \in ps)
      BY <1>2, <3>2 DEF StoreInv, Justified
    <3>3. QED
      BY <3>1, <3>2
  <2>2. QED
    BY <2>1 DEF Justified
<1>5. Current'
  <2>1. ASSUME NEW sh \in shares, NEW p \in Peers, NEW h \in Groups, <<sh, p, h>> \in sources'
        PROVE  p \in members'[h] /\ sh \in contrib'[h]
    <3>1. sh \in Shares /\ h \in Vias
      BY DEF StoreInv, TypeOK, Vias
    <3>2. <<sh, p, h>> \in sources /\ (sh \in shs /\ p \in ps => h # g)
      BY <1>2, <2>1, <3>1
    <3>3. p \in members[h] /\ sh \in contrib[h]
      BY <3>2 DEF StoreInv, Current
    <3>4. QED
      BY <3>1, <3>2, <3>3
  <2>2. QED
    BY <2>1 DEF Current
<1>6. QED
  BY <1>2, <1>3, <1>4, <1>5 DEF StoreInv, TypeOK, Vias

LEMMA KeepAddShare ==
  ASSUME StoreInv, NEW sh \in Shares, AddShare(sh)
  PROVE  StoreInv'
<1>1. TypeOK'
  BY DEF StoreInv, TypeOK, AddShare, groupVars
<1>2. \A p \in Peers, v \in Vias : <<sh, p, v>> \notin sources
  BY DEF AddShare, StoreInv, Known
<1>3. Known' /\ Justified'
  BY <1>2 DEF StoreInv, TypeOK, AddShare, groupVars, Known, Justified
<1>4. Current'
  BY <1>2 DEF StoreInv, TypeOK, AddShare, groupVars, Current, Vias
<1>5. QED
  BY <1>1, <1>3, <1>4 DEF StoreInv

LEMMA KeepSetEnabled ==
  ASSUME StoreInv, NEW sh \in Shares, NEW on \in BOOLEAN, SetEnabled(sh, on)
  PROVE  StoreInv'
BY DEF StoreInv, TypeOK, SetEnabled, groupVars, Known, Justified, Current

LEMMA KeepCreateInvite ==
  ASSUME StoreInv, NEW sh \in Shares, CreateInvite(sh)
  PROVE  StoreInv'
BY DEF StoreInv, TypeOK, CreateInvite, shareVars, groupVars, Known, Justified, Current

LEMMA KeepRemoveShare ==
  ASSUME StoreInv, NEW sh \in Shares, RemoveShare(sh)
  PROVE  StoreInv'
<1>1. TypeOK'
  BY DEF StoreInv, TypeOK, RemoveShare, GrantsOfOthers, groupVars
<1>2. Known' /\ Current'
  BY DEF StoreInv, TypeOK, RemoveShare, groupVars, Known, Current
<1>3. Justified'
  BY DEF StoreInv, TypeOK, RemoveShare, GrantsOfOthers, groupVars, Justified
<1>4. QED
  BY <1>1, <1>2, <1>3 DEF StoreInv

LEMMA KeepRedeemInvite ==
  ASSUME StoreInv, NEW sh \in Shares, NEW p \in Peers, RedeemInvite(sh, p)
  PROVE  StoreInv'
<1>1. /\ sh \in shares /\ Direct \in Vias /\ Grant(Direct, {sh}, {p})
      /\ {sh} \in SUBSET Shares /\ {p} \in SUBSET Peers
  BY DEF StoreInv, TypeOK, RedeemInvite, Vias
<1>2. TypeOK'
  BY <1>1 DEF StoreInv, TypeOK, RedeemInvite, Grant, shareVars, groupVars
<1>3. /\ \A s \in Shares, q \in Peers, v \in Vias :
           <<s, q, v>> \in sources' <=>
             <<s, q, v>> \in sources \/ (s \in {sh} /\ q \in {p} /\ v = Direct)
      /\ \A s \in Shares, q \in Peers :
           <<s, q>> \in active' <=> <<s, q>> \in active \/ (s \in {sh} /\ q \in {p})
  <2> DEFINE S == {sh}
             P == {p}
  <2>1. S \in SUBSET Shares /\ P \in SUBSET Peers /\ Direct \in Vias /\ Grant(Direct, S, P)
    BY <1>1
  <2> HIDE DEF S, P
  <2>2. /\ \A s \in Shares, q \in Peers, v \in Vias :
             <<s, q, v>> \in sources' <=>
               <<s, q, v>> \in sources \/ (s \in S /\ q \in P /\ v = Direct)
        /\ \A s \in Shares, q \in Peers :
             <<s, q>> \in active' <=> <<s, q>> \in active \/ (s \in S /\ q \in P)
    BY <2>1, GrantedRows
  <2>3. QED
    BY <2>2 DEF S, P
<1>4. UNCHANGED <<shares, removed, members, contrib>>
  BY DEF RedeemInvite, shareVars, groupVars
<1>5. Known' /\ Justified'
  BY <1>1, <1>3, <1>4 DEF StoreInv, Known, Justified
<1>6. Current'
  BY <1>3, <1>4, GrantStoreAssumption DEF StoreInv, TypeOK, Current, Vias
<1>7. QED
  BY <1>2, <1>5, <1>6 DEF StoreInv

LEMMA KeepRevokeShare ==
  ASSUME StoreInv, NEW sh \in Shares, NEW p \in Peers, RevokeShare(sh, p)
  PROVE  StoreInv'
<1>1. TypeOK'
  BY DEF StoreInv, TypeOK, RevokeShare, shareVars, groupVars
<1>2. /\ \A s \in Shares, q \in Peers, v \in Vias :
           <<s, q, v>> \in sources' <=> <<s, q, v>> \in sources /\ ~(s = sh /\ q = p)
      /\ \A s \in Shares, q \in Peers :
           <<s, q>> \in active' <=> <<s, q>> \in active /\ ~(s = sh /\ q = p)
  BY DEF RevokeShare
<1>3. UNCHANGED <<shares, removed, members, contrib>>
  BY DEF RevokeShare, shareVars, groupVars
<1>4. Known' /\ Justified'
  BY <1>2, <1>3 DEF StoreInv, Known, Justified
<1>5. Current'
  BY <1>2, <1>3 DEF StoreInv, TypeOK, Current, Vias
<1>6. QED
  BY <1>1, <1>4, <1>5 DEF StoreInv

LEMMA KeepForgetPeer ==
  ASSUME StoreInv, NEW p \in Peers, ForgetPeer(p)
  PROVE  StoreInv'
<1>1. TypeOK'
  BY DEF StoreInv, TypeOK, ForgetPeer, SourcesForgotten, shareVars, groupVars
<1>2. /\ \A s \in Shares, q \in Peers, v \in Vias :
           <<s, q, v>> \in sources' <=> <<s, q, v>> \in sources /\ q # p
      /\ \A s \in Shares, q \in Peers :
           <<s, q>> \in active' <=> <<s, q>> \in active /\ q # p
  BY DEF ForgetPeer, SourcesForgotten
<1>3. UNCHANGED <<shares, removed, members, contrib>>
  BY DEF ForgetPeer, shareVars, groupVars
<1>4. Known' /\ Justified'
  BY <1>2, <1>3 DEF StoreInv, Known, Justified
<1>5. Current'
  BY <1>2, <1>3 DEF StoreInv, TypeOK, Current, Vias
<1>6. QED
  BY <1>1, <1>4, <1>5 DEF StoreInv

LEMMA KeepContribute ==
  ASSUME StoreInv, NEW g \in Groups, NEW sh \in Shares, Contribute(g, sh)
  PROVE  StoreInv'
<1>1. /\ sh \in shares /\ g \in Vias /\ Grant(g, {sh}, members[g])
      /\ {sh} \in SUBSET Shares /\ members[g] \in SUBSET Peers
  BY DEF StoreInv, TypeOK, Contribute, Vias
<1>2. TypeOK'
  BY <1>1 DEF StoreInv, TypeOK, Contribute, Grant, shareVars
<1>3. /\ \A s \in Shares, q \in Peers, v \in Vias :
           <<s, q, v>> \in sources' <=>
             <<s, q, v>> \in sources \/ (s \in {sh} /\ q \in members[g] /\ v = g)
      /\ \A s \in Shares, q \in Peers :
           <<s, q>> \in active' <=> <<s, q>> \in active \/ (s \in {sh} /\ q \in members[g])
  <2> DEFINE S == {sh}
             P == members[g]
  <2>1. S \in SUBSET Shares /\ P \in SUBSET Peers /\ g \in Vias /\ Grant(g, S, P)
    BY <1>1
  <2> HIDE DEF S, P
  <2>2. /\ \A s \in Shares, q \in Peers, v \in Vias :
             <<s, q, v>> \in sources' <=>
               <<s, q, v>> \in sources \/ (s \in S /\ q \in P /\ v = g)
        /\ \A s \in Shares, q \in Peers :
             <<s, q>> \in active' <=> <<s, q>> \in active \/ (s \in S /\ q \in P)
    BY <2>1, GrantedRows
  <2>3. QED
    BY <2>2 DEF S, P
<1>4. /\ UNCHANGED <<shares, removed, members>>
      /\ contrib' = [contrib EXCEPT ![g] = @ \cup {sh}]
  BY DEF Contribute, shareVars
<1>5. Known' /\ Justified'
  BY <1>1, <1>3, <1>4 DEF StoreInv, Known, Justified
<1>6. Current'
  BY <1>1, <1>3, <1>4 DEF StoreInv, TypeOK, Current, Vias
<1>7. QED
  BY <1>2, <1>5, <1>6 DEF StoreInv

LEMMA KeepWithdraw ==
  ASSUME StoreInv, NEW g \in Groups, NEW sh \in Shares, Withdraw(g, sh)
  PROVE  StoreInv'
<1>1. /\ Revoke(g, {sh}, members[g]) /\ {sh} \in SUBSET Shares /\ members[g] \in SUBSET Peers
      /\ UNCHANGED <<shares, removed, peers, members>>
      /\ contrib' = [contrib EXCEPT ![g] = @ \ {sh}]
  BY DEF StoreInv, TypeOK, Withdraw, shareVars
<1>2. \A h \in Groups, s \in Shares, p \in Peers :
        p \in members[h] /\ s \in contrib[h] =>
          \/ p \in members'[h] /\ s \in contrib'[h]
          \/ h = g /\ s \in {sh} /\ p \in members[g]
  BY <1>1 DEF StoreInv, TypeOK
<1>3. /\ Known' /\ Justified' /\ Current'
      /\ active' \subseteq shares \X peers
      /\ sources' \subseteq Shares \X Peers \X Vias
  BY <1>1, <1>2, RevokeKeeps
<1>4. TypeOK'
  BY <1>1, <1>3 DEF StoreInv, TypeOK, Withdraw, shareVars, Vias
<1>5. QED
  BY <1>3, <1>4 DEF StoreInv

LEMMA KeepRemoveMember ==
  ASSUME StoreInv, NEW g \in Groups, NEW p \in Peers, RemoveMember(g, p)
  PROVE  StoreInv'
<1>1. /\ Revoke(g, contrib[g], {p}) /\ contrib[g] \in SUBSET Shares /\ {p} \in SUBSET Peers
      /\ UNCHANGED <<shares, removed, peers, contrib>>
      /\ members' = [members EXCEPT ![g] = @ \ {p}]
  BY DEF StoreInv, TypeOK, RemoveMember, shareVars
<1>2. \A h \in Groups, s \in Shares, q \in Peers :
        q \in members[h] /\ s \in contrib[h] =>
          \/ q \in members'[h] /\ s \in contrib'[h]
          \/ h = g /\ s \in contrib[g] /\ q \in {p}
  BY <1>1 DEF StoreInv, TypeOK
<1>3. /\ Known' /\ Justified' /\ Current'
      /\ active' \subseteq shares \X peers
      /\ sources' \subseteq Shares \X Peers \X Vias
  BY <1>1, <1>2, RevokeKeeps
<1>4. TypeOK'
  BY <1>1, <1>3 DEF StoreInv, TypeOK, RemoveMember, shareVars, Vias
<1>5. QED
  BY <1>3, <1>4 DEF StoreInv

LEMMA KeepDropGroup ==
  ASSUME StoreInv, NEW g \in Groups, DropGroup(g)
  PROVE  StoreInv'
<1>1. /\ Revoke(g, contrib[g], members[g])
      /\ contrib[g] \in SUBSET Shares /\ members[g] \in SUBSET Peers
      /\ UNCHANGED <<shares, removed, peers>>
      /\ contrib' = [contrib EXCEPT ![g] = {}]
      /\ members' = [members EXCEPT ![g] = {}]
  BY DEF StoreInv, TypeOK, DropGroup, shareVars
<1>2. \A h \in Groups, s \in Shares, p \in Peers :
        p \in members[h] /\ s \in contrib[h] =>
          \/ p \in members'[h] /\ s \in contrib'[h]
          \/ h = g /\ s \in contrib[g] /\ p \in members[g]
  BY <1>1 DEF StoreInv, TypeOK
<1>3. /\ Known' /\ Justified' /\ Current'
      /\ active' \subseteq shares \X peers
      /\ sources' \subseteq Shares \X Peers \X Vias
  BY <1>1, <1>2, RevokeKeeps
<1>4. TypeOK'
  BY <1>1, <1>3 DEF StoreInv, TypeOK, DropGroup, shareVars, Vias
<1>5. QED
  BY <1>3, <1>4 DEF StoreInv

LEMMA KeepApplyRoster ==
  ASSUME StoreInv, NEW g \in Groups, NEW ms \in SUBSET Peers, NEW own \in SUBSET listed[g],
         NEW pruned \in BOOLEAN, ApplyRoster(g, ms, own, pruned)
  PROVE  StoreInv'
<1>0. PICK gone, shs, srcs, act :
        /\ gone = IF pruned THEN members[g] \ ms ELSE {}
        /\ shs = contrib[g] \cup own
        /\ srcs = sources \cup (contrib[g] \X ms \X {g})
        /\ act = active \cup (contrib[g] \X ms)
  OBVIOUS
<1>1. /\ contrib[g] \subseteq shares /\ shares \subseteq Shares /\ own \subseteq Shares
      /\ shs \in SUBSET Shares /\ gone \in SUBSET Peers /\ gone \cap ms = {}
      /\ g \in Vias
  BY <1>0 DEF StoreInv, TypeOK, ApplyRoster, Vias
<1>2. /\ RevokeRows(g, shs, gone, srcs, act)
      /\ peers' = peers \cup ms
      /\ members' = [members EXCEPT ![g] = IF pruned THEN ms ELSE @ \cup ms]
      /\ contrib' = [contrib EXCEPT ![g] = @ \cup own]
      /\ UNCHANGED <<shareVars, invites, listed>>
  BY <1>0 DEF ApplyRoster
<1>3. /\ \A s \in Shares, q \in Peers, v \in Vias :
           <<s, q, v>> \in srcs <=>
             <<s, q, v>> \in sources \/ (s \in contrib[g] /\ q \in ms /\ v = g)
      /\ \A s \in Shares, q \in Peers :
           <<s, q>> \in act <=> <<s, q>> \in active \/ (s \in contrib[g] /\ q \in ms)
      /\ srcs \subseteq Shares \X Peers \X Vias /\ act \subseteq shares \X peers'
  BY <1>0, <1>1, <1>2 DEF StoreInv, TypeOK, Vias
<1>4. /\ \A s \in Shares, q \in Peers, v \in Vias :
           <<s, q, v>> \in sources' <=>
             /\ <<s, q, v>> \in srcs
             /\ s \in shs /\ q \in gone => v # g /\ OtherReason(g, s, q)
      /\ \A s \in Shares, q \in Peers :
           <<s, q>> \in active' <=>
             /\ <<s, q>> \in act
             /\ s \in shs /\ q \in gone => OtherReason(g, s, q)
      /\ sources' \subseteq srcs /\ active' \subseteq act
  <2> DEFINE cut == {sp \in shs \X gone : ~OtherReason(g, sp[1], sp[2])}
  <2>1. /\ sources' = {r \in srcs \ (shs \X gone \X {g}) : <<r[1], r[2]>> \notin cut}
        /\ active' = act \ cut
    BY <1>2 DEF RevokeRows, SourceOf
  <2>2. ASSUME NEW s, NEW q
        PROVE  <<s, q>> \in cut <=> s \in shs /\ q \in gone /\ ~OtherReason(g, s, q)
    OBVIOUS
  <2> HIDE DEF cut
  <2>3. ASSUME NEW s, NEW q, NEW v
        PROVE  <<s, q, v>> \in shs \X gone \X {g} <=> s \in shs /\ q \in gone /\ v = g
    OBVIOUS
  <2>4. QED
    BY <2>1, <2>2, <2>3
<1>5. /\ \A h \in Groups, q \in Peers :
           q \in members'[h] <=> IF h = g THEN q \in ms \/ (q \in members[g] /\ q \notin gone)
                                          ELSE q \in members[h]
      /\ \A h \in Groups, s \in Shares :
           s \in contrib'[h] <=> s \in contrib[h] \/ (h = g /\ s \in own)
  BY <1>0, <1>2 DEF StoreInv, TypeOK
<1>6. TypeOK'
  <2>1. active' \subseteq shares' \X peers' /\ sources' \subseteq Shares \X Peers \X Vias
    BY <1>2, <1>3, <1>4 DEF shareVars
  <2>2. peers' \subseteq Peers /\ members' \in [Groups -> SUBSET peers']
    BY <1>2 DEF StoreInv, TypeOK
  <2>3. contrib' \in [Groups -> SUBSET Shares]
    BY <1>1, <1>2 DEF StoreInv, TypeOK
  <2>4. QED
    BY <1>2, <2>1, <2>2, <2>3 DEF StoreInv, TypeOK, shareVars, Vias
<1>7. \A s \in contrib[g] : s \in shares /\ s \in shs
  BY <1>0, <1>1
<1>8. shares' = shares /\ removed' = removed
  BY <1>2 DEF shareVars
<1>9. Known'
  BY <1>3, <1>4, <1>7, <1>8 DEF StoreInv, Known
<1>10. Justified'
  <2>1. ASSUME NEW s \in Shares, NEW q \in Peers
        PROVE  <<s, q>> \in active' <=> s \in shares /\ \E v \in Vias : <<s, q, v>> \in sources'
    <3>1. CASE s \in shs /\ q \in gone
      <4>1. q \notin ms
        BY <1>1, <3>1
      <4>2. QED
        BY <1>3, <1>4, <3>1, <4>1, OtherReasons DEF StoreInv, Justified
    <3>2. CASE ~(s \in shs /\ q \in gone)
      BY <1>1, <1>3, <1>4, <1>7, <3>2 DEF StoreInv, Justified
    <3>3. QED
      BY <3>1, <3>2
  <2>2. QED
    BY <1>8, <2>1 DEF Justified
<1>11. Current'
  <2>1. ASSUME NEW s \in shares, NEW q \in Peers, NEW h \in Groups, <<s, q, h>> \in sources'
        PROVE  q \in members'[h] /\ s \in contrib'[h]
    <3>1. s \in Shares /\ h \in Vias
      BY <1>1 DEF Vias
    <3>2. CASE <<s, q, h>> \in sources
      <4>1. q \in members[h] /\ s \in contrib[h]
        BY <3>2 DEF StoreInv, Current
      <4>2. h = g => q \notin gone
        BY <1>4, <1>7, <2>1, <3>1, <4>1
      <4>3. QED
        BY <1>5, <3>1, <4>1, <4>2
    <3>3. CASE s \in contrib[g] /\ q \in ms /\ h = g
      BY <1>5, <3>1, <3>3
    <3>4. QED
      BY <1>3, <1>4, <2>1, <3>1, <3>2, <3>3
  <2>2. QED
    BY <1>8, <2>1 DEF Current
<1>12. QED
  BY <1>6, <1>9, <1>10, <1>11 DEF StoreInv

LEMMA KeepInit == Init => StoreInv
BY DEF Init, StoreInv, TypeOK, Known, Justified, Current

LEMMA KeepNext == StoreInv /\ [Next]_vars => StoreInv'
<1>1. SUFFICES ASSUME StoreInv, [Next]_vars PROVE StoreInv'
  OBVIOUS
<1>2. CASE ShareOperation
  BY <1>1, <1>2, KeepAddShare, KeepSetEnabled, KeepRemoveShare, KeepCreateInvite,
     KeepRedeemInvite, KeepRevokeShare DEF ShareOperation
<1>3. CASE GroupOperation
  BY <1>1, <1>3, KeepContribute, KeepWithdraw, KeepApplyRoster, KeepRemoveMember, KeepDropGroup
  DEF GroupOperation
<1>4. CASE \E p \in Peers : ForgetPeer(p)
  BY <1>1, <1>4, KeepForgetPeer
<1>5. CASE UNCHANGED vars
  BY <1>1, <1>5 DEF vars, StoreInv, TypeOK, Known, Justified, Current
<1>6. QED
  BY <1>1, <1>2, <1>3, <1>4, <1>5 DEF Next

(* The inductive invariant of the tables. *)
THEOREM StoreInvariant == Spec => []StoreInv
<1>1. QED
  BY KeepInit, KeepNext, PTL DEF Spec

LEMMA RowsAsSets == StoreInv => GrantsJustified /\ GroupSourcesCurrent
<1>1. SUFFICES ASSUME StoreInv PROVE GrantsJustified /\ GroupSourcesCurrent
  OBVIOUS
<1>2. GrantsJustified
  <2>1. ASSUME NEW sp \in active
        PROVE  sp \in {<<r[1], r[2]>> : r \in LiveSources}
    <3>1. PICK sh \in shares, p \in Peers : sp = <<sh, p>>
      BY <1>1, <2>1 DEF StoreInv, TypeOK
    <3>2. PICK v \in Vias : <<sh, p, v>> \in sources
      BY <1>1, <2>1, <3>1 DEF StoreInv, TypeOK, Justified
    <3>3. <<sh, p, v>> \in LiveSources
      BY <3>1, <3>2 DEF LiveSources
    <3>4. QED
      BY <3>1, <3>3
  <2>2. ASSUME NEW r \in LiveSources
        PROVE  <<r[1], r[2]>> \in active
    <3>1. /\ r[1] \in shares /\ r[1] \in Shares /\ r[2] \in Peers /\ r[3] \in Vias
          /\ r = <<r[1], r[2], r[3]>> /\ r \in sources
      BY <1>1, <2>2 DEF StoreInv, TypeOK, LiveSources, Vias
    <3>2. QED
      BY <1>1, <3>1 DEF StoreInv, Justified
  <2>3. QED
    BY <2>1, <2>2 DEF GrantsJustified
<1>3. GroupSourcesCurrent
  <2>1. ASSUME NEW r \in LiveSources, r[3] # Direct
        PROVE  r[2] \in members[r[3]] /\ r[1] \in contrib[r[3]]
    <3>1. /\ r[1] \in shares /\ r[2] \in Peers /\ r[3] \in Groups
          /\ r = <<r[1], r[2], r[3]>> /\ r \in sources
      BY <1>1, <2>1 DEF StoreInv, TypeOK, LiveSources
    <3>2. QED
      BY <1>1, <3>1 DEF StoreInv, Current
  <2>2. QED
    BY <2>1 DEF GroupSourcesCurrent
<1>4. QED
  BY <1>2, <1>3

(* A peer reads a share exactly as long as a reason stands. *)
THEOREM JustifiedCorrect == Spec => []GrantsJustified
<1>1. QED
  BY StoreInvariant, RowsAsSets, PTL

(* A group's reasons are on its contributions, to its members. *)
THEOREM CurrentCorrect == Spec => []GroupSourcesCurrent
<1>1. QED
  BY StoreInvariant, RowsAsSets, PTL

-----------------------------------------------------------------------------
(* The tables implement ReadAccess.  Whatever an operation does, the rows   *)
(* it leaves are the pairs that have a reason, so a step maps to one of     *)
(* ReadAccess as soon as its effect on the reasons does.                    *)
LEMMA ReadersFollow ==
  ASSUME StoreInv', Access!GroupsChange \/ Access!Redeem \/ Access!Cut
  PROVE  Access!Next
<1>1. GrantsJustified'
  BY RowsAsSets, PTL
<1>2. active' = Access!Pairs(LiveSources)'
  BY <1>1 DEF GrantsJustified, Access!Pairs
<1>3. QED
  BY <1>2 DEF Access!Next, Access!Pairs

(* The reasons of groups are always in common. *)
ReasonsInCommon == \A r \in LiveSources : r[3] # Direct => r \in InCommon

LEMMA GroupReasonsInCommon == StoreInv => ReasonsInCommon
<1>1. SUFFICES ASSUME StoreInv, NEW r \in LiveSources, r[3] # Direct PROVE r \in InCommon
  BY DEF ReasonsInCommon
<1>2. /\ r[1] \in Shares /\ r[2] \in Peers /\ r[3] \in Groups
      /\ r = <<r[1], r[2], r[3]>>
  BY <1>1 DEF StoreInv, TypeOK, LiveSources
<1>3. r[2] \in members[r[3]] /\ r[1] \in contrib[r[3]]
  BY <1>1, RowsAsSets DEF GroupSourcesCurrent
<1>4. QED
  BY <1>2, <1>3 DEF InCommon

(* A step that leaves what invitations gave is one of the groups. *)
LEMMA DirectsStay ==
  ASSUME StoreInv',
         \A r : r \in LiveSources' /\ r[3] = Direct <=> r \in LiveSources /\ r[3] = Direct
  PROVE  Access!Next
<1>1. ReasonsInCommon'
  BY GroupReasonsInCommon, PTL
<1>2. Access!GroupsChange
  BY <1>1 DEF Access!GroupsChange, Access!Directs, ReasonsInCommon
<1>3. QED
  BY <1>2, ReadersFollow

(* A revocation for a group takes no invitation's source. *)
LEMMA RevokeLeavesDirects ==
  ASSUME StoreInv, NEW g \in Groups, NEW shs \in SUBSET Shares, NEW ps \in SUBSET Peers,
         NEW srcs, NEW act, RevokeRows(g, shs, ps, srcs, act),
         srcs \subseteq Shares \X Peers \X Vias,
         \A r : r[3] = Direct => (r \in srcs <=> r \in sources)
  PROVE  \A r : r[3] = Direct => (r \in sources' <=> r \in sources)
<1>1. /\ \A sh \in Shares, p \in Peers, v \in Vias :
           <<sh, p, v>> \in srcs /\ v # g /\ OtherReason(g, sh, p) => <<sh, p, v>> \in sources'
      /\ sources' \subseteq srcs
  <2> DEFINE cut == {sp \in shs \X ps : ~OtherReason(g, sp[1], sp[2])}
  <2>1. sources' = {r \in srcs \ (shs \X ps \X {g}) : <<r[1], r[2]>> \notin cut}
    BY DEF RevokeRows, SourceOf
  <2>2. ASSUME NEW s, NEW q, <<s, q>> \in cut PROVE ~OtherReason(g, s, q)
    BY <2>2
  <2> HIDE DEF cut
  <2>3. QED
    BY <2>1, <2>2
<1>2. g # Direct /\ Direct \in Vias
  BY GrantStoreAssumption DEF Vias
<1>3. SUFFICES ASSUME NEW r, r[3] = Direct PROVE r \in sources' <=> r \in sources
  OBVIOUS
<1>4. CASE r \in srcs
  <2>1. PICK sh \in Shares, p \in Peers : r = <<sh, p, Direct>>
    BY <1>3, <1>4
  <2>2. r \in sources
    BY <1>3, <1>4
  <2>3. OtherReason(g, sh, p)
    BY <1>2, <2>1, <2>2, OtherReasons
  <2>4. QED
    BY <1>1, <1>2, <1>4, <2>1, <2>2, <2>3
<1>5. CASE r \notin srcs
  BY <1>1, <1>3, <1>5
<1>6. QED
  BY <1>4, <1>5

LEMMA RevokeRefines ==
  ASSUME StoreInv, StoreInv', NEW g \in Groups, NEW shs \in SUBSET Shares,
         NEW ps \in SUBSET Peers, Revoke(g, shs, ps), shares' = shares
  PROVE  Access!Next
<1>1. RevokeRows(g, shs, ps, sources, active) /\ sources \subseteq Shares \X Peers \X Vias
  BY DEF Revoke, StoreInv, TypeOK, Vias
<1>2. \A r : r[3] = Direct => (r \in sources' <=> r \in sources)
  BY <1>1, RevokeLeavesDirects
<1>3. QED
  BY <1>2, DirectsStay DEF LiveSources

(* One lemma per operation of groups ... *)
LEMMA GroupRefines ==
  ASSUME StoreInv, StoreInv', GroupOperation
  PROVE  Access!Next
<1>1. ASSUME NEW g \in Groups, NEW sh \in Shares, Contribute(g, sh) PROVE Access!Next
  <2>1. \A r : r[3] = Direct => (r \in sources' <=> r \in sources)
    BY <1>1, GrantStoreAssumption DEF Contribute, Grant
  <2>2. shares' = shares
    BY <1>1 DEF Contribute, shareVars
  <2>3. QED
    BY <2>1, <2>2, DirectsStay DEF LiveSources
<1>2. ASSUME NEW g \in Groups, NEW sh \in Shares, Withdraw(g, sh) PROVE Access!Next
  <2>1. /\ Revoke(g, {sh}, members[g]) /\ {sh} \in SUBSET Shares
        /\ members[g] \in SUBSET Peers /\ shares' = shares
    BY <1>2 DEF StoreInv, TypeOK, Withdraw, shareVars
  <2>2. QED
    BY <2>1, RevokeRefines
<1>3. ASSUME NEW g \in Groups, NEW p \in Peers, RemoveMember(g, p) PROVE Access!Next
  <2>1. /\ Revoke(g, contrib[g], {p}) /\ contrib[g] \in SUBSET Shares
        /\ {p} \in SUBSET Peers /\ shares' = shares
    BY <1>3 DEF StoreInv, TypeOK, RemoveMember, shareVars
  <2>2. QED
    BY <2>1, RevokeRefines
<1>4. ASSUME NEW g \in Groups, DropGroup(g) PROVE Access!Next
  <2>1. /\ Revoke(g, contrib[g], members[g]) /\ contrib[g] \in SUBSET Shares
        /\ members[g] \in SUBSET Peers /\ shares' = shares
    BY <1>4 DEF StoreInv, TypeOK, DropGroup, shareVars
  <2>2. QED
    BY <2>1, RevokeRefines
<1>5. ASSUME NEW g \in Groups, NEW ms \in SUBSET Peers, NEW own \in SUBSET listed[g],
             NEW pruned \in BOOLEAN, ApplyRoster(g, ms, own, pruned)
      PROVE  Access!Next
  <2> DEFINE srcs == sources \cup (contrib[g] \X ms \X {g})
             act == active \cup (contrib[g] \X ms)
             gone == IF pruned THEN members[g] \ ms ELSE {}
  <2>1. RevokeRows(g, contrib[g] \cup own, gone, srcs, act) /\ shares' = shares
    BY <1>5 DEF ApplyRoster, shareVars
  <2>2. contrib[g] \cup own \in SUBSET Shares /\ gone \in SUBSET Peers
    BY DEF StoreInv, TypeOK
  <2>3. srcs \subseteq Shares \X Peers \X Vias
    BY DEF StoreInv, TypeOK, Vias
  <2>4. \A r : r[3] = Direct => (r \in srcs <=> r \in sources)
    BY GrantStoreAssumption
  <2> HIDE DEF srcs, act, gone
  <2>5. \A r : r[3] = Direct => (r \in sources' <=> r \in sources)
    BY <2>1, <2>2, <2>3, <2>4, RevokeLeavesDirects
  <2>6. QED
    BY <2>1, <2>5, DirectsStay DEF LiveSources
<1>6. QED
  BY <1>1, <1>2, <1>3, <1>4, <1>5 DEF GroupOperation

(* ... and one step per operation of shares, invitations and peers. *)
LEMMA CutRefines ==
  ASSUME StoreInv, StoreInv', UNCHANGED <<members, contrib>>,
         LiveSources' \subseteq LiveSources,
         \A r \in LiveSources \ LiveSources', s \in LiveSources' :
           <<r[1], r[2]>> # <<s[1], s[2]>>
  PROVE  Access!Next
<1>1. InCommon' = InCommon
  BY DEF InCommon
<1>2. Access!Cut
  BY <1>1 DEF Access!Cut, Access!Pairs
<1>3. QED
  BY <1>2, ReadersFollow

LEMMA ShareRefines ==
  ASSUME StoreInv, StoreInv', ShareOperation
  PROVE  Access!Next
<1>1. ASSUME NEW sh \in Shares, AddShare(sh) PROVE Access!Next
  <2>1. shares' = shares \cup {sh} /\ sources' = sources
    BY <1>1 DEF AddShare
  <2>2. \A p \in Peers, v \in Vias : <<sh, p, v>> \notin sources
    BY <1>1 DEF AddShare, StoreInv, Known
  <2>3. \A r \in sources : r[1] # sh
    BY <2>2 DEF StoreInv, TypeOK, Vias
  <2>4. LiveSources' = LiveSources
    BY <2>1, <2>3 DEF LiveSources
  <2>5. QED
    BY <2>4, DirectsStay
<1>2. ASSUME NEW sh \in Shares, NEW on \in BOOLEAN, SetEnabled(sh, on) PROVE Access!Next
  <2>1. LiveSources' = LiveSources
    BY <1>2 DEF SetEnabled, LiveSources
  <2>2. QED
    BY <2>1, DirectsStay
<1>3. ASSUME NEW sh \in Shares, RemoveShare(sh) PROVE Access!Next
  <2>1. /\ UNCHANGED <<members, contrib>> /\ shares' = shares \ {sh} /\ sources' = sources
    BY <1>3 DEF RemoveShare, groupVars
  <2>2. QED
    BY <2>1, CutRefines DEF LiveSources
<1>4. ASSUME NEW sh \in Shares, CreateInvite(sh) PROVE Access!Next
  <2>1. LiveSources' = LiveSources
    BY <1>4 DEF CreateInvite, shareVars, LiveSources
  <2>2. QED
    BY <2>1, DirectsStay
<1>5. ASSUME NEW sh \in Shares, NEW p \in Peers, RedeemInvite(sh, p) PROVE Access!Next
  <2>1. /\ UNCHANGED <<members, contrib, shares>> /\ sh \in shares
        /\ sources' = sources \cup ({sh} \X {p} \X {Direct})
    BY <1>5 DEF RedeemInvite, groupVars, shareVars, Grant, StoreInv, TypeOK
  <2>2. LiveSources' = LiveSources \cup {<<sh, p, Direct>>}
    BY <2>1 DEF LiveSources
  <2>3. InCommon' = InCommon
    BY <2>1 DEF InCommon
  <2>4. Access!Redeem
    BY <2>2, <2>3 DEF Access!Redeem
  <2>5. QED
    BY <2>4, ReadersFollow
<1>6. ASSUME NEW sh \in Shares, NEW p \in Peers, RevokeShare(sh, p) PROVE Access!Next
  <2>1. /\ UNCHANGED <<members, contrib, shares>>
        /\ sources' = {r \in sources : <<r[1], r[2]>> # <<sh, p>>}
    BY <1>6 DEF RevokeShare, groupVars, shareVars
  <2>2. QED
    BY <2>1, CutRefines DEF LiveSources
<1>7. QED
  BY <1>1, <1>2, <1>3, <1>4, <1>5, <1>6 DEF ShareOperation

LEMMA ForgetRefines ==
  ASSUME StoreInv, StoreInv', NEW p \in Peers, ForgetPeer(p)
  PROVE  Access!Next
<1>1. /\ UNCHANGED <<members, contrib, shares>>
      /\ sources' = {r \in sources : r[2] # p}
  BY DEF ForgetPeer, SourcesForgotten, groupVars, shareVars
<1>2. QED
  BY <1>1, CutRefines DEF LiveSources

(* The grant tables implement ReadAccess, step by step. *)
THEOREM AccessImplemented == Spec => ImplementsReadAccess
<1>1. Init => Access!Init
  BY DEF Init, Access!Init, InCommon, LiveSources
<1>2. StoreInv /\ StoreInv' /\ [Next]_vars =>
        [Access!Next]_<<InCommon, LiveSources, active>>
  <2>1. SUFFICES ASSUME StoreInv, StoreInv', [Next]_vars
                 PROVE  [Access!Next]_<<InCommon, LiveSources, active>>
    OBVIOUS
  <2>2. CASE UNCHANGED vars
    BY <2>2 DEF vars, InCommon, LiveSources
  <2>3. CASE Next
    BY <2>1, <2>3, ShareRefines, GroupRefines, ForgetRefines DEF Next
  <2>4. QED
    BY <2>1, <2>2, <2>3
<1>3. QED
  BY <1>1, <1>2, StoreInvariant, PTL DEF Spec, ImplementsReadAccess, Access!Spec

(* Rows, members and contributions keep their types. *)
THEOREM TypeCorrect == Spec => []TypeOK
<1>1. StoreInv => TypeOK
  BY DEF StoreInv
<1>2. QED
  BY <1>1, StoreInvariant, PTL
=============================================================================
