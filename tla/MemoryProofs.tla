---------------------------- MODULE MemoryProofs ----------------------------
(* Transcripts, marks and variables, for any blocks and any bounds.        *)
EXTENDS Memory, StepInduction, FiniteSetTheorems, TLAPS

-----------------------------------------------------------------------------
(* The scan for turns.                                                     *)

ScanStates == [ranges : Seq(Nat \X Nat), start : Nat, answered : BOOLEAN]

LEMMA ScanBlockTypes ==
  ASSUME NEW blocks, NEW scan \in ScanStates, NEW i \in Nat \ {0}
  PROVE  ScanBlock(blocks, scan, i) \in ScanStates
<1>1. Append(scan.ranges, <<scan.start, i - 1>>) \in Seq(Nat \X Nat)
  BY DEF ScanStates
<1>2. CASE blocks[i].kind = "user"
  BY <1>1, <1>2 DEF ScanBlock, ScanStates
<1>3. CASE blocks[i].kind # "user"
  BY <1>3 DEF ScanBlock, ScanStates
<1>4. QED
  BY <1>2, <1>3

NoTurn == [ranges |-> <<>>, start |-> 0, answered |-> FALSE]

(* The scan is what it is defined to be, block by block.                   *)
LEMMA ScanSteps ==
  ASSUME NEW B, NEW blocks \in Seq(B)
  PROVE  /\ Scan(blocks)[0] = NoTurn
         /\ \A i \in 1..Len(blocks) :
              Scan(blocks)[i] = ScanBlock(blocks, Scan(blocks)[i - 1], i)
         /\ \A i \in 0..Len(blocks) : Scan(blocks)[i] \in ScanStates
<1> DEFINE L == Len(blocks)
           Def(g) == [i \in 0..L |-> IF i = 0 THEN NoTurn ELSE ScanBlock(blocks, g[i - 1], i)]
           step == [x \in ScanStates \X (0..L) |->
                      IF x[2] = 0 THEN NoTurn ELSE ScanBlock(blocks, x[1], x[2])]
<1>1. L \in Nat /\ NoTurn \in ScanStates
  BY DEF ScanStates, NoTurn
<1>2. step \in [ScanStates \X (0..L) -> ScanStates]
  BY <1>1, ScanBlockTypes
<1>3. \A s \in ScanStates, i \in 1..L : step[<<s, i>>] = ScanBlock(blocks, s, i)
  BY <1>1
<1> HIDE DEF step
<1>4. PICK g \in [0..L -> ScanStates] : Stepwise(g, 0, L, NoTurn, step)
  <2>1. 0 \in Int /\ L \in Int /\ 0 <= L
    BY <1>1
  <2> HIDE DEF L
  <2>2. QED
    BY <1>1, <1>2, <2>1, Iterated
<1>5. g = Def(g)
  <2>1. \A i \in 0..L : i # 0 => i \in 1..L /\ i - 1 \in 0..L
    BY <1>1
  <2> HIDE DEF L
  <2>2. \A i \in 0..L : i # 0 => g[i] = ScanBlock(blocks, g[i - 1], i)
    BY <1>3, <1>4, <2>1 DEF Stepwise
  <2>3. \A i \in 0..L : g[i] = IF i = 0 THEN NoTurn ELSE ScanBlock(blocks, g[i - 1], i)
    BY <1>4, <2>2 DEF Stepwise
  <2>4. QED
    BY <2>3
<1>6. Scan(blocks) = CHOOSE f : f = Def(f)
  BY DEF Scan, NoTurn
<1> HIDE DEF Def
<1>7. Scan(blocks) = Def(Scan(blocks))
  BY <1>5, <1>6
<1> USE DEF Def
<1>8. Scan(blocks)[0] = NoTurn
  <2>1. 0 \in 0..L
    BY <1>1
  <2>2. QED
    BY <1>7, <2>1
<1>9. \A i \in 1..L : Scan(blocks)[i] = ScanBlock(blocks, Scan(blocks)[i - 1], i)
  <2>1. \A i \in 1..L : i \in 0..L /\ i # 0
    BY <1>1
  <2> HIDE DEF L
  <2>2. QED
    BY <1>7, <2>1
<1>10. \A i \in 0..L : Scan(blocks)[i] \in ScanStates
  <2> DEFINE T == {i \in 0..L : Scan(blocks)[i] \in ScanStates}
  <2>1. 0 \in T
    BY <1>1, <1>8
  <2>2. \A i \in 0..L : i # 0 /\ i - 1 \in T => i \in T
    BY <1>1, <1>9, ScanBlockTypes
  <2>3. 0 \in Int /\ L \in Int
    BY <1>1
  <2> HIDE DEF T, L
  <2>4. 0..L \subseteq T
    BY <2>1, <2>2, <2>3, Upwards, ZenonT(30)
  <2>5. QED
    BY <2>4 DEF T
<1>11. QED
  BY <1>8, <1>9, <1>10

-----------------------------------------------------------------------------
(* The turns the scan has closed, and the one it is in.                    *)

User(blocks, i) == blocks[i].kind = "user"

\* From u to e there is one user block, the first.
OneTurn(blocks, u, e) ==
  u <= e /\ User(blocks, u) /\ \A i \in (u + 1)..e : ~User(blocks, i)

Answered(blocks, u, e) == \E i \in u..e : blocks[i].kind = "assistant"

Closed(blocks, u, e) ==
  OneTurn(blocks, u, e) /\ User(blocks, e + 1) /\ Answered(blocks, u, e)

ScanStart(blocks, s, n) ==
  /\ s.start <= n
  /\ s.start # 0 => User(blocks, s.start)
  /\ \A i \in (s.start + 1)..n : ~User(blocks, i)

ScanAnswered(blocks, s, n) ==
  s.answered <=> s.start # 0 /\ Answered(blocks, s.start, n)

ScanClosed(blocks, s) ==
  \A k \in DOMAIN s.ranges :
    /\ Closed(blocks, s.ranges[k][1], s.ranges[k][2])
    /\ s.ranges[k][1] # 0 /\ s.ranges[k][2] < s.start

ScanAll(blocks, s) ==
  \A u, e \in Nat : u # 0 /\ e < s.start /\ Closed(blocks, u, e)
                      => \E k \in DOMAIN s.ranges : s.ranges[k][1] = u /\ s.ranges[k][2] = e

Ordered(ranges) ==
  \A k, m \in DOMAIN ranges : k < m => ranges[k][2] < ranges[m][1]

ScanInv(blocks, s, n) ==
  /\ s \in ScanStates
  /\ ScanStart(blocks, s, n) /\ ScanAnswered(blocks, s, n)
  /\ ScanClosed(blocks, s) /\ ScanAll(blocks, s) /\ Ordered(s.ranges)
  /\ s.start = 0 => s.ranges = <<>>
  /\ s.start # 0 => Len(s.ranges) < s.start

LEMMA ScanBlockKeeps ==
  ASSUME NEW blocks, NEW n \in Nat \ {0}, NEW s, ScanInv(blocks, s, n - 1)
  PROVE  ScanInv(blocks, ScanBlock(blocks, s, n), n)
<1> DEFINE t == ScanBlock(blocks, s, n)
<1>0. s \in ScanStates /\ t \in ScanStates
  BY ScanBlockTypes DEF ScanInv
<1>1. /\ s.ranges \in Seq(Nat \X Nat) /\ s.start \in Nat /\ s.answered \in BOOLEAN
      /\ t.ranges \in Seq(Nat \X Nat) /\ t.start \in Nat /\ t.answered \in BOOLEAN
  BY <1>0 DEF ScanStates
<1>2. CASE User(blocks, n) /\ s.answered
  <2>1. t.start = n /\ t.answered = FALSE /\ t.ranges = Append(s.ranges, <<s.start, n - 1>>)
    BY <1>2 DEF ScanBlock, User
  <2> DEFINE L == Len(s.ranges)
  <2>2. /\ DOMAIN s.ranges = 1..L /\ L \in Nat
        /\ DOMAIN t.ranges = 1..(L + 1)
        /\ \A k \in 1..L : t.ranges[k] = s.ranges[k] /\ s.ranges[k] \in Nat \X Nat
        /\ t.ranges[L + 1] = <<s.start, n - 1>>
        /\ Len(t.ranges) = L + 1
    BY <1>1, <2>1
  <2>3. s.start # 0 /\ Answered(blocks, s.start, n - 1) /\ s.start <= n - 1
    BY <1>2 DEF ScanInv, ScanAnswered, ScanStart
  <2>4. Closed(blocks, s.start, n - 1)
    BY <1>1, <1>2, <2>3 DEF ScanInv, ScanStart, Closed, OneTurn, User
  <2> HIDE DEF L, t
  <2>5. ScanStart(blocks, t, n)
    BY <1>2, <2>1 DEF ScanStart
  <2>6. ScanAnswered(blocks, t, n)
    BY <1>2, <2>1 DEF ScanAnswered, Answered, User
  <2>7. ScanClosed(blocks, t)
    <3> SUFFICES ASSUME NEW k \in 1..(L + 1)
                 PROVE  /\ Closed(blocks, t.ranges[k][1], t.ranges[k][2])
                        /\ t.ranges[k][1] # 0 /\ t.ranges[k][2] < t.start
      BY <2>2 DEF ScanClosed
    <3>1. CASE k = L + 1
      BY <1>1, <2>1, <2>2, <2>3, <2>4, <3>1
    <3>2. CASE k \in 1..L
      <4>1. t.ranges[k] = s.ranges[k] /\ s.ranges[k] \in Nat \X Nat
        BY <2>2, <3>2
      <4>2. /\ Closed(blocks, s.ranges[k][1], s.ranges[k][2])
            /\ s.ranges[k][1] # 0 /\ s.ranges[k][2] < s.start
        BY <2>2, <3>2 DEF ScanInv, ScanClosed
      <4>3. s.ranges[k][2] < n
        <5>1. s.ranges[k][2] \in Nat
          BY <4>1
        <5>2. QED
          BY <1>1, <2>3, <4>2, <5>1
      <4>4. QED
        BY <2>1, <4>1, <4>2, <4>3
    <3>3. QED
      BY <2>2, <3>1, <3>2
  <2>8. ScanAll(blocks, t)
    <3> SUFFICES ASSUME NEW u \in Nat, NEW e \in Nat,
                        u # 0, e < n, Closed(blocks, u, e)
                 PROVE  \E k \in DOMAIN t.ranges : t.ranges[k][1] = u /\ t.ranges[k][2] = e
      BY <2>1 DEF ScanAll
    <3>1. CASE e < s.start
      <4>1. PICK k \in DOMAIN s.ranges : s.ranges[k][1] = u /\ s.ranges[k][2] = e
        BY <3>1 DEF ScanInv, ScanAll
      <4>2. k \in 1..L
        BY <2>2, <4>1
      <4>3. k \in DOMAIN t.ranges /\ t.ranges[k] = s.ranges[k]
        BY <2>2, <4>2
      <4>4. QED
        BY <4>1, <4>3
    <3>2. CASE e >= s.start
      <4>1. e = n - 1
        <5>1. e # n - 1 => e + 1 \in (s.start + 1)..(n - 1)
          BY <1>1, <3>2
        <5>2. User(blocks, e + 1)
          BY DEF Closed
        <5>3. QED
          BY <5>1, <5>2 DEF ScanInv, ScanStart
      <4>2. u = s.start
        BY <1>1, <2>3, <2>4, <4>1 DEF Closed, OneTurn
      <4>3. L + 1 \in DOMAIN t.ranges /\ t.ranges[L + 1][1] = u /\ t.ranges[L + 1][2] = e
        BY <2>2, <4>1, <4>2
      <4>4. QED
        BY <4>3
    <3>3. QED
      BY <1>1, <3>1, <3>2
  <2>9. Ordered(t.ranges)
    <3> SUFFICES ASSUME NEW k \in 1..(L + 1), NEW m \in 1..(L + 1), k < m
                 PROVE  t.ranges[k][2] < t.ranges[m][1]
      BY <2>2 DEF Ordered
    <3>1. k \in 1..L
      BY <2>2
    <3>2. CASE m = L + 1
      <4>1. t.ranges[m][1] = s.start /\ t.ranges[k] = s.ranges[k]
        BY <2>2, <3>1, <3>2
      <4>2. s.ranges[k][2] < s.start
        BY <2>2, <3>1 DEF ScanInv, ScanClosed
      <4>3. QED
        BY <4>1, <4>2
    <3>3. CASE m \in 1..L
      BY <2>2, <3>1, <3>3 DEF ScanInv, Ordered
    <3>4. QED
      BY <2>2, <3>2, <3>3
  <2>10. t.start # 0 /\ Len(t.ranges) < t.start
    BY <1>1, <2>1, <2>2, <2>3 DEF ScanInv, L
  <2>11. QED
    BY <1>0, <2>5, <2>6, <2>7, <2>8, <2>9, <2>10 DEF ScanInv, t
<1>3. CASE User(blocks, n) /\ ~s.answered
  <2>1. t.start = n /\ t.answered = FALSE /\ t.ranges = s.ranges
    BY <1>3 DEF ScanBlock, User
  <2> HIDE DEF t
  <2>2. s.start <= n - 1 /\ DOMAIN s.ranges = 1..Len(s.ranges)
    BY <1>1 DEF ScanInv, ScanStart
  <2>5. ScanStart(blocks, t, n)
    BY <1>3, <2>1 DEF ScanStart
  <2>6. ScanAnswered(blocks, t, n)
    BY <1>3, <2>1 DEF ScanAnswered, Answered, User
  <2>7. ScanClosed(blocks, t)
    <3> SUFFICES ASSUME NEW k \in DOMAIN s.ranges
                 PROVE  /\ Closed(blocks, s.ranges[k][1], s.ranges[k][2])
                        /\ s.ranges[k][1] # 0 /\ s.ranges[k][2] < n
      BY <2>1 DEF ScanClosed
    <3>1. s.ranges[k] \in Nat \X Nat
      BY <1>1
    <3>2. QED
      BY <1>1, <2>2, <3>1 DEF ScanInv, ScanClosed
  <2>8. ScanAll(blocks, t)
    <3> SUFFICES ASSUME NEW u \in Nat, NEW e \in Nat,
                        u # 0, e < n, Closed(blocks, u, e)
                 PROVE  \E k \in DOMAIN s.ranges : s.ranges[k][1] = u /\ s.ranges[k][2] = e
      BY <2>1 DEF ScanAll
    <3>1. CASE e < s.start
      BY <3>1 DEF ScanInv, ScanAll
    <3>2. CASE e >= s.start
      <4>1. e = n - 1
        <5>1. e # n - 1 => e + 1 \in (s.start + 1)..(n - 1)
          BY <1>1, <3>2
        <5>2. User(blocks, e + 1)
          BY DEF Closed
        <5>3. QED
          BY <5>1, <5>2 DEF ScanInv, ScanStart
      <4>2. u = s.start
        BY <1>1, <2>2, <4>1 DEF ScanInv, ScanStart, Closed, OneTurn
      <4>3. QED
        BY <1>3, <4>1, <4>2 DEF ScanInv, ScanAnswered, Closed
    <3>3. QED
      BY <1>1, <3>1, <3>2
  <2>9. Len(t.ranges) < t.start /\ t.start # 0
    BY <1>1, <2>1, <2>2 DEF ScanInv
  <2>10. QED
    BY <1>0, <2>1, <2>5, <2>6, <2>7, <2>8, <2>9 DEF ScanInv, t
<1>4. CASE ~User(blocks, n)
  <2>1. /\ t.start = s.start /\ t.ranges = s.ranges
        /\ t.answered <=> s.answered \/ (s.start # 0 /\ blocks[n].kind = "assistant")
    BY <1>0, <1>4 DEF ScanBlock, User, ScanStates
  <2> HIDE DEF t
  <2>2. s.start <= n - 1
    BY <1>1 DEF ScanInv, ScanStart
  <2>3. ScanStart(blocks, t, n)
    BY <1>1, <1>4, <2>1, <2>2 DEF ScanInv, ScanStart, User
  <2>4. ScanAnswered(blocks, t, n)
    <3>1. Answered(blocks, s.start, n)
            <=> Answered(blocks, s.start, n - 1) \/ blocks[n].kind = "assistant"
      BY <1>1, <2>2 DEF Answered
    <3>2. QED
      BY <2>1, <3>1 DEF ScanInv, ScanAnswered
  <2>5. ScanClosed(blocks, t) /\ ScanAll(blocks, t)
    BY <2>1 DEF ScanInv, ScanClosed, ScanAll
  <2>6. QED
    BY <1>0, <2>1, <2>3, <2>4, <2>5 DEF ScanInv, t
<1>5. QED
  BY <1>2, <1>3, <1>4

LEMMA Scanned ==
  ASSUME NEW B, NEW blocks \in Seq(B), NEW n \in 0..Len(blocks)
  PROVE  ScanInv(blocks, Scan(blocks)[n], n)
<1> DEFINE L == Len(blocks)
           T == {i \in 0..L : ScanInv(blocks, Scan(blocks)[i], i)}
<1>1. L \in Nat /\ 0 \in Int /\ L \in Int
  OBVIOUS
<1>2. 0 \in T
  <2>1. ScanInv(blocks, NoTurn, 0)
    BY DEF ScanInv, NoTurn, ScanStates, ScanStart, ScanAnswered, ScanClosed, ScanAll, Ordered
  <2>2. QED
    BY <1>1, <2>1, ScanSteps
<1>3. ASSUME NEW i \in 0..L, i # 0 /\ i - 1 \in T PROVE i \in T
  <2>1. i \in 1..L /\ i \in Nat \ {0} /\ ScanInv(blocks, Scan(blocks)[i - 1], i - 1)
    BY <1>1, <1>3
  <2>2. ScanInv(blocks, ScanBlock(blocks, Scan(blocks)[i - 1], i), i)
    BY <2>1, ScanBlockKeeps
  <2>3. QED
    BY <2>1, <2>2, ScanSteps
<1> HIDE DEF T, L
<1>4. 0..L \subseteq T
  BY <1>1, <1>2, <1>3, Upwards, ZenonT(30)
<1>5. QED
  BY <1>4 DEF T, L

(* A turn is over at the next user block or at the end of the file.        *)
Ends(blocks, e) == e = Len(blocks) \/ (e < Len(blocks) /\ User(blocks, e + 1))

Counts(blocks, u, e) ==
  Answered(blocks, u, e) \/ (e = Len(blocks) /\ OnlyStructureAfter(blocks, u))

Turn(blocks, u, e) ==
  /\ u \in 1..Len(blocks) /\ e \in 1..Len(blocks)
  /\ OneTurn(blocks, u, e) /\ Ends(blocks, e) /\ Counts(blocks, u, e)

LEMMA Ranges ==
  ASSUME NEW B, NEW blocks \in Seq(B)
  PROVE  LET ranges == TurnRanges(blocks)
         IN /\ ranges \in Seq(Nat \X Nat) /\ Len(ranges) <= Len(blocks)
            /\ Ordered(ranges)
            /\ \A k \in DOMAIN ranges : Turn(blocks, ranges[k][1], ranges[k][2])
            /\ \A u, e \in Nat : Turn(blocks, u, e) =>
                 \E k \in DOMAIN ranges : ranges[k][1] = u /\ ranges[k][2] = e
<1> DEFINE L == Len(blocks)
           s == Scan(blocks)[L]
           open == s.start # 0 /\ (s.answered \/ OnlyStructureAfter(blocks, s.start))
           ranges == TurnRanges(blocks)
<1>1. L \in Nat /\ ScanInv(blocks, s, L)
  BY Scanned
<1>2. ranges = IF open THEN Append(s.ranges, <<s.start, L>>) ELSE s.ranges
  BY DEF TurnRanges
<1> HIDE DEF ranges, s
<1>3. /\ s.ranges \in Seq(Nat \X Nat) /\ s.start \in Nat /\ s.answered \in BOOLEAN
      /\ s.start <= L /\ DOMAIN s.ranges = 1..Len(s.ranges) /\ Len(s.ranges) \in Nat
  BY <1>1 DEF ScanInv, ScanStates, ScanStart
<1>4. ASSUME NEW k \in DOMAIN s.ranges
      PROVE  /\ s.ranges[k] \in Nat \X Nat /\ s.ranges[k][1] \in Nat /\ s.ranges[k][2] \in Nat
             /\ s.ranges[k][2] < s.start /\ Turn(blocks, s.ranges[k][1], s.ranges[k][2])
  <2>1. s.ranges[k] \in Nat \X Nat
    BY <1>3
  <2>2. /\ Closed(blocks, s.ranges[k][1], s.ranges[k][2])
        /\ s.ranges[k][1] # 0 /\ s.ranges[k][2] < s.start
    BY <1>1 DEF ScanInv, ScanClosed
  <2> DEFINE u == s.ranges[k][1]
             e == s.ranges[k][2]
  <2>3. u \in Nat /\ e \in Nat
    BY <2>1
  <2> HIDE DEF u, e
  <2>4. Closed(blocks, u, e) /\ u # 0 /\ e < s.start
    BY <2>2 DEF u, e
  <2>5. Turn(blocks, u, e)
    BY <1>1, <1>3, <2>3, <2>4 DEF Turn, Closed, OneTurn, Ends, Counts
  <2>6. QED
    BY <2>1, <2>3, <2>4, <2>5 DEF u, e
<1>5. ASSUME NEW u \in Nat, NEW e \in Nat, Turn(blocks, u, e), e < s.start
      PROVE  \E k \in DOMAIN s.ranges : s.ranges[k][1] = u /\ s.ranges[k][2] = e
  <2>1. Closed(blocks, u, e) /\ u # 0
    BY <1>1, <1>3, <1>5 DEF Turn, Closed, Ends, Counts
  <2>2. QED
    BY <1>1, <1>5, <2>1 DEF ScanInv, ScanAll
<1>6. ASSUME NEW u \in Nat, NEW e \in Nat, Turn(blocks, u, e), ~(e < s.start)
      PROVE  e = L /\ u = s.start /\ open
  <2>1. e = L
    <3>1. e # L => e + 1 \in (s.start + 1)..L /\ User(blocks, e + 1)
      BY <1>1, <1>3, <1>6 DEF Turn, Ends
    <3>2. QED
      BY <1>1, <3>1 DEF ScanInv, ScanStart
  <2>2. u \in 1..L /\ User(blocks, u) /\ \A i \in (u + 1)..L : ~User(blocks, i)
    BY <1>6, <2>1 DEF Turn, OneTurn
  <2>3. ~(u < s.start)
    BY <1>1, <1>3, <2>2 DEF ScanInv, ScanStart
  <2>4. ~(u > s.start)
    BY <1>1, <1>3, <2>2 DEF ScanInv, ScanStart
  <2>5. u = s.start /\ s.start # 0
    BY <1>3, <2>2, <2>3, <2>4
  <2>6. Counts(blocks, u, e)
    BY <1>6 DEF Turn
  <2>7. QED
    BY <1>1, <2>1, <2>5, <2>6 DEF Counts, ScanInv, ScanAnswered
<1>7. CASE ~open
  <2>1. ranges = s.ranges
    BY <1>2, <1>7
  <2>2. Len(s.ranges) <= L
    BY <1>1, <1>3 DEF ScanInv
  <2>3. Ordered(ranges)
    BY <1>1, <2>1 DEF ScanInv
  <2>4. \A u, e \in Nat : Turn(blocks, u, e) =>
          \E k \in DOMAIN ranges : ranges[k][1] = u /\ ranges[k][2] = e
    BY <1>5, <1>6, <1>7, <2>1
  <2>5. /\ ranges \in Seq(Nat \X Nat) /\ Len(ranges) <= L
        /\ \A k \in DOMAIN ranges : Turn(blocks, ranges[k][1], ranges[k][2])
    BY <1>3, <1>4, <2>1, <2>2
  <2>6. QED
    BY <2>3, <2>4, <2>5 DEF ranges
<1>8. CASE open
  <2> DEFINE n == Len(s.ranges)
  <2>1. ranges = Append(s.ranges, <<s.start, L>>)
    BY <1>2, <1>8
  <2>2. /\ n \in Nat /\ DOMAIN s.ranges = 1..n
        /\ DOMAIN ranges = 1..(n + 1) /\ Len(ranges) = n + 1
        /\ \A k \in 1..n : ranges[k] = s.ranges[k]
        /\ ranges[n + 1] = <<s.start, L>> /\ ranges \in Seq(Nat \X Nat)
    BY <1>1, <1>3, <2>1
  <2>3. n < s.start /\ s.start # 0
    BY <1>1, <1>8 DEF ScanInv
  <2>4. Turn(blocks, s.start, L)
    BY <1>1, <1>3, <1>8, <2>3
       DEF Turn, OneTurn, Ends, Counts, ScanInv, ScanStart, ScanAnswered
  <2> HIDE DEF n
  <2>5. ASSUME NEW k \in DOMAIN ranges PROVE Turn(blocks, ranges[k][1], ranges[k][2])
    <3>1. CASE k = n + 1
      BY <2>2, <2>4, <3>1
    <3>2. CASE k # n + 1
      <4>1. k \in DOMAIN s.ranges /\ ranges[k] = s.ranges[k]
        BY <2>2, <3>2
      <4>2. QED
        BY <1>4, <4>1
    <3>3. QED
      BY <3>1, <3>2
  <2>6. ASSUME NEW u \in Nat, NEW e \in Nat, Turn(blocks, u, e)
        PROVE  \E k \in DOMAIN ranges : ranges[k][1] = u /\ ranges[k][2] = e
    <3>1. CASE e < s.start
      <4>1. PICK k \in DOMAIN s.ranges : s.ranges[k][1] = u /\ s.ranges[k][2] = e
        BY <1>5, <2>6, <3>1
      <4>2. k \in DOMAIN ranges /\ ranges[k] = s.ranges[k]
        BY <2>2
      <4>3. QED
        BY <4>1, <4>2
    <3>2. CASE ~(e < s.start)
      <4>1. e = L /\ u = s.start
        BY <1>6, <2>6, <3>2
      <4>2. n + 1 \in DOMAIN ranges /\ ranges[n + 1][1] = u /\ ranges[n + 1][2] = e
        BY <2>2, <4>1
      <4>3. QED
        BY <4>2
    <3>3. QED
      BY <3>1, <3>2
  <2>7. Ordered(ranges)
    <3> SUFFICES ASSUME NEW k \in 1..(n + 1), NEW m \in 1..(n + 1), k < m
                 PROVE  ranges[k][2] < ranges[m][1]
      BY <2>2 DEF Ordered
    <3>1. k \in 1..n /\ k \in DOMAIN s.ranges /\ ranges[k] = s.ranges[k]
      <4>1. n \in Nat /\ 1..n = DOMAIN s.ranges
        BY <2>2
      <4>2. k \in 1..n
        BY <4>1
      <4>3. QED
        BY <2>2, <4>1, <4>2
    <3>2. CASE m = n + 1
      <4>1. ranges[m][1] = s.start
        BY <2>2, <3>2
      <4>2. s.ranges[k][2] < s.start
        BY <1>4, <3>1
      <4>3. QED
        BY <3>1, <4>1, <4>2
    <3>3. CASE m \in 1..n
      <4>1. m \in DOMAIN s.ranges /\ ranges[m] = s.ranges[m]
        BY <2>2, <3>3
      <4>2. QED
        BY <1>1, <3>1, <4>1 DEF ScanInv, Ordered
    <3>4. QED
      BY <2>2, <3>2, <3>3
  <2>8. Len(ranges) <= L
    BY <1>1, <1>3, <2>2, <2>3
  <2>9. QED
    BY <2>2, <2>5, <2>6, <2>7, <2>8 DEF ranges
<1>9. QED
  BY <1>7, <1>8

LEMMA LeastIsMin ==
  ASSUME NEW S \in SUBSET Nat, S # {}
  PROVE  Min(S) \in S /\ \A x \in S : Min(S) <= x
BY NatLeast DEF Min

LEMMA TurnsFound == log \in Seq(Blocks) => TurnsByDefinition
<1> SUFFICES ASSUME log \in Seq(Blocks) PROVE TurnsByDefinition
  OBVIOUS
<1> DEFINE L == Len(log)
           users == {n \in DOMAIN log : log[n].kind = "user"}
           later(s) == {n \in users : n > s} \cup {L + 1}
           next(s) == Min(later(s)) - 1
           answered(s) == \E n \in s..next(s) : log[n].kind = "assistant"
           counts(s) == answered(s) \/ (next(s) = L /\ OnlyStructureAfter(log, s))
           ranges == TurnRanges(log)
<1>1. L \in Nat /\ DOMAIN log = 1..L
  OBVIOUS
<1>2. ASSUME NEW s \in users
      PROVE  /\ next(s) \in 1..L /\ OneTurn(log, s, next(s)) /\ Ends(log, next(s))
  <2>1. later(s) \in SUBSET Nat /\ later(s) # {} /\ \A n \in later(s) : n > s /\ n <= L + 1
    BY <1>1
  <2> HIDE DEF next
  <2>2. Min(later(s)) \in later(s) /\ \A x \in later(s) : Min(later(s)) <= x
    BY <2>1, LeastIsMin
  <2> DEFINE m == Min(later(s))
  <2>3. m \in later(s) /\ m \in Nat /\ m > s /\ m <= L + 1 /\ s \in 1..L /\ next(s) = m - 1
    BY <1>1, <2>1, <2>2 DEF next
  <2>4. \A i \in (s + 1)..(m - 1) : ~User(log, i)
    <3> SUFFICES ASSUME NEW i \in (s + 1)..(m - 1), User(log, i) PROVE FALSE
      OBVIOUS
    <3>1. i \in 1..L /\ i > s /\ i < m
      BY <1>1, <2>3
    <3>2. i \in later(s)
      BY <1>1, <3>1 DEF User
    <3>3. m <= i
      BY <2>2, <3>2
    <3>4. QED
      BY <2>3, <3>1, <3>3
  <2>5. m # L + 1 => User(log, m)
    BY <2>3 DEF User
  <2> HIDE DEF m
  <2>6. OneTurn(log, s, m - 1) /\ Ends(log, m - 1) /\ m - 1 \in 1..L
    BY <1>1, <2>3, <2>4, <2>5 DEF OneTurn, Ends, User
  <2>7. QED
    BY <2>3, <2>6
<1>3. ASSUME NEW s \in 1..L, NEW e \in 1..L, OneTurn(log, s, e), Ends(log, e)
      PROVE  s \in users /\ next(s) = e
  <2>1. s \in users
    BY <1>1, <1>3 DEF OneTurn, User
  <2>2. next(s) \in 1..L /\ OneTurn(log, s, next(s)) /\ Ends(log, next(s))
    BY <1>2, <2>1
  <2> HIDE DEF next
  <2>3. ~(next(s) < e)
    <3>1. next(s) < e => next(s) + 1 \in (s + 1)..e /\ next(s) # L
      BY <1>1, <2>2 DEF OneTurn
    <3>2. QED
      BY <1>3, <2>2, <3>1 DEF OneTurn, Ends
  <2>4. ~(e < next(s))
    <3>1. s <= e
      BY <1>3 DEF OneTurn
    <3>2. PICK f \in 1..L : f = next(s)
      BY <2>2
    <3>3. /\ s \in Int /\ e \in Int /\ f \in Int /\ L \in Int
          /\ e <= L /\ f <= L
      BY <1>1
    <3> HIDE DEF L
    <3>4. e < f => e + 1 \in (s + 1)..f
      BY <3>1, <3>3
    <3>5. e < f => e # L
      BY <3>3
    <3> USE DEF L
    <3>6. QED
      BY <1>3, <2>2, <3>2, <3>4, <3>5 DEF OneTurn, Ends
  <2>5. QED
    BY <2>1, <2>2, <2>3, <2>4
<1> HIDE DEF next
<1>4. /\ ranges \in Seq(Nat \X Nat) /\ Ordered(ranges)
      /\ \A k \in DOMAIN ranges : Turn(log, ranges[k][1], ranges[k][2])
      /\ \A u, e \in Nat : Turn(log, u, e) =>
           \E k \in DOMAIN ranges : ranges[k][1] = u /\ ranges[k][2] = e
  BY Ranges
<1> HIDE DEF ranges
<1>5. ASSUME NEW k \in DOMAIN ranges
      PROVE  \E s \in {n \in users : counts(n)} : ranges[k] = <<s, next(s)>>
  <2> DEFINE s == ranges[k][1]
             e == ranges[k][2]
  <2>1. Turn(log, s, e) /\ ranges[k] = <<s, e>>
    BY <1>4
  <2> HIDE DEF s, e
  <2>2. s \in users /\ next(s) = e /\ s \in 1..L
    BY <1>3, <2>1 DEF Turn
  <2>3. counts(s)
    BY <2>1, <2>2 DEF Turn, Counts, Answered
  <2>4. QED
    BY <2>1, <2>2, <2>3
<1>6. ASSUME NEW s \in users, counts(s)
      PROVE  \E k \in DOMAIN ranges : ranges[k] = <<s, next(s)>>
  <2>1. Turn(log, s, next(s))
    BY <1>1, <1>2, <1>6 DEF Turn, Counts, Answered
  <2>2. s \in Nat /\ next(s) \in Nat
    BY <1>1, <1>2
  <2>3. PICK k \in DOMAIN ranges : ranges[k][1] = s /\ ranges[k][2] = next(s)
    BY <1>4, <2>1, <2>2
  <2>4. ranges[k] \in Nat \X Nat
    BY <1>4
  <2>5. QED
    BY <2>3, <2>4
<1>7. {ranges[k] : k \in DOMAIN ranges} = {<<s, next(s)>> : s \in {n \in users : counts(n)}}
  <2> HIDE DEF users, counts
  <2>1. QED
    BY <1>5, <1>6
<1>8. \A k, m \in DOMAIN ranges : k < m => ranges[k][2] < ranges[m][1]
  BY <1>4 DEF Ordered
<1>9. QED
  BY <1>7, <1>8 DEF TurnsByDefinition, next, ranges

-----------------------------------------------------------------------------
(* The parts of a turn.                                                    *)

LEMMA GreatestIsMax ==
  ASSUME NEW N \in Nat, NEW S \in SUBSET (1..N), S # {}
  PROVE  Max(S) \in S
<1> DEFINE D == {d \in Nat : N - d \in S}
<1>1. D # {}
  <2>1. PICK x \in S : x \in 1..N
    OBVIOUS
  <2>2. N - x \in Nat /\ N - (N - x) = x
    BY <2>1
  <2>3. QED
    BY <2>1, <2>2
<1>2. PICK d \in D : \A e \in D : d <= e
  BY <1>1, NatLeast
<1>3. \A y \in S : y <= N - d
  <2> SUFFICES ASSUME NEW y \in S PROVE y <= N - d
    OBVIOUS
  <2>1. y \in 1..N /\ N - y \in Nat /\ N - (N - y) = y
    OBVIOUS
  <2>2. d <= N - y
    BY <1>2, <2>1
  <2>3. QED
    BY <2>1, <2>2
<1>4. N - d \in S /\ \A y \in S : N - d >= y
  BY <1>3
<1>5. QED
  BY <1>4 DEF Max

Pushed(blocks, parts, n) ==
  IF blocks[n].blank THEN parts ELSE PushPart(parts, EventOf(parts, blocks[n], n), n)

PartIds(B) == {NoId} \cup ({"action"} \X Nat) \cup ({"call"} \X {b.id : b \in B})

PartType(B) ==
  [seq : Nat, kind : Kinds \cup {"action"}, id : PartIds(B), input : Nat,
   output : Seq(Nat), status : {"none", "in_progress", "completed"}]

Typed(B) == \A b \in B : b.kind \in Kinds

Same(parts, event) ==
  {j \in DOMAIN parts : parts[j].kind = "action" /\ parts[j].id = event.id}

LEMMA EventTypes ==
  ASSUME NEW B, Typed(B), NEW parts \in Seq(PartType(B)), NEW block \in B, NEW n \in Nat
  PROVE  EventOf(parts, block, n) \in PartType(B)
<1>1. ActionId(parts, block) \in PartIds(B) /\ NoId \in PartIds(B)
  BY DEF ActionId, PartIds
<1>2. <<>> \in Seq(Nat) /\ <<n>> \in Seq(Nat)
  OBVIOUS
<1>3. block.kind \in Kinds
  BY DEF Typed
<1> HIDE DEF PartIds
<1>4. CASE block.kind = "call"
  BY <1>1, <1>2, <1>4 DEF EventOf, PartType
<1>5. CASE block.kind = "output"
  BY <1>1, <1>2, <1>5 DEF EventOf, PartType
<1>6. CASE block.kind # "call" /\ block.kind # "output"
  BY <1>1, <1>2, <1>3, <1>6 DEF EventOf, PartType
<1>7. QED
  BY <1>4, <1>5, <1>6

LEMMA FoldTypes ==
  ASSUME NEW B, NEW part \in PartType(B), NEW event \in PartType(B)
  PROVE  /\ Fold(part, event) \in PartType(B)
         /\ Fold(part, event).seq = part.seq /\ Fold(part, event).kind = part.kind
         /\ Fold(part, event).id = part.id
         /\ Fold(part, event).input = IF part.input = 0 THEN event.input ELSE part.input
         /\ Fold(part, event).output = part.output \o event.output
<1>1. part.output \o event.output \in Seq(Nat)
  BY DEF PartType
<1>2. QED
  BY <1>1 DEF Fold, PartType

LEMMA PushTypes ==
  ASSUME NEW B, NEW parts \in Seq(PartType(B)), NEW event \in PartType(B), NEW n
  PROVE  PushPart(parts, event, n) \in Seq(PartType(B))
<1>1. Len(parts) \in Nat /\ DOMAIN parts = 1..Len(parts)
  OBVIOUS
<1>2. CASE event.kind # "action" \/ Same(parts, event) = {}
  <2>1. [event EXCEPT !.seq = PartSeq(parts, n)] \in PartType(B)
    <3>1. PartSeq(parts, n) \in Nat
      BY <1>1 DEF PartSeq
    <3>2. QED
      BY <3>1 DEF PartType
  <2>2. PushPart(parts, event, n) = Append(parts, [event EXCEPT !.seq = PartSeq(parts, n)])
    BY <1>2 DEF PushPart, Same
  <2>3. QED
    BY <2>1, <2>2
<1>3. CASE ~(event.kind # "action" \/ Same(parts, event) = {})
  <2> DEFINE m == Max(Same(parts, event))
  <2>1. m \in 1..Len(parts)
    BY <1>1, <1>3, GreatestIsMax DEF Same
  <2>2. PushPart(parts, event, n) = [parts EXCEPT ![m] = Fold(parts[m], event)]
    BY <1>3, <2>1 DEF PushPart, Same
  <2>3. Fold(parts[m], event) \in PartType(B)
    <3>1. parts[m] \in PartType(B)
      BY <1>1, <2>1
    <3>2. QED
      BY <3>1, FoldTypes
  <2>4. QED
    BY <2>1, <2>2, <2>3
<1>4. QED
  BY <1>2, <1>3

LEMMA PushedTypes ==
  ASSUME NEW B, Typed(B), NEW blocks \in Seq(B), NEW parts \in Seq(PartType(B)),
         NEW n \in 1..Len(blocks)
  PROVE  Pushed(blocks, parts, n) \in Seq(PartType(B))
<1>1. n \in Nat /\ blocks[n] \in B
  OBVIOUS
<1>2. EventOf(parts, blocks[n], n) \in PartType(B)
  BY <1>1, EventTypes
<1>3. PushPart(parts, EventOf(parts, blocks[n], n), n) \in Seq(PartType(B))
  BY <1>2, PushTypes
<1>4. QED
  BY <1>3 DEF Pushed

LEMMA PartsSteps ==
  ASSUME NEW B, Typed(B), NEW blocks \in Seq(B), NEW first \in 1..Len(blocks)
  PROVE  /\ Parts(blocks, first)[first - 1] = <<>>
         /\ \A n \in first..Len(blocks) :
              Parts(blocks, first)[n] = Pushed(blocks, Parts(blocks, first)[n - 1], n)
         /\ \A n \in (first - 1)..Len(blocks) :
              Parts(blocks, first)[n] \in Seq(PartType(B))
<1> DEFINE L == Len(blocks)
           f == first - 1
           S == Seq(PartType(B))
           Def(g) == [n \in f..L |-> IF n < first THEN <<>> ELSE Pushed(blocks, g[n - 1], n)]
           step == [x \in S \X (f..L) |->
                      IF x[2] = f THEN <<>> ELSE Pushed(blocks, x[1], x[2])]
           none == <<>>
<1>1. f \in Int /\ L \in Int /\ f <= L /\ f \in Nat /\ none \in S
  OBVIOUS
<1>2. \A n \in f..L : n # f => n \in first..L /\ n \in 1..L /\ n - 1 \in f..L /\ ~(n < first)
  OBVIOUS
<1>3. \A s \in S, n \in f..L : n # f => Pushed(blocks, s, n) \in S
  BY <1>2, PushedTypes
<1>4. step \in [S \X (f..L) -> S]
  <2> HIDE DEF S, f, L
  <2>1. QED
    BY <1>1, <1>3
<1>5. \A s \in S, n \in f..L : n # f => step[<<s, n>>] = Pushed(blocks, s, n)
  OBVIOUS
<1> HIDE DEF step
<1>6. PICK g \in [f..L -> S] : Stepwise(g, f, L, none, step)
  <2> HIDE DEF f, L, S, none
  <2>1. QED
    BY <1>1, <1>4, Iterated
<1>7. g = Def(g)
  <2>1. \A n \in f..L : g[n] = IF n = f THEN <<>> ELSE step[<<g[n - 1], n>>]
    BY <1>6 DEF Stepwise
  <2>2. \A n \in f..L : n # f => g[n] = Pushed(blocks, g[n - 1], n)
    <3> HIDE DEF f, L, S
    <3>1. QED
      BY <1>2, <1>5, <1>6, <2>1
  <2>3. \A n \in f..L : g[n] = IF n < first THEN <<>> ELSE Pushed(blocks, g[n - 1], n)
    <3>1. \A n \in f..L : n < first <=> n = f
      OBVIOUS
    <3> HIDE DEF f, L
    <3>2. QED
      BY <2>1, <2>2, <3>1
  <2>4. QED
    BY <2>3
<1>8. Parts(blocks, first) = CHOOSE h : h = Def(h)
  BY DEF Parts, Pushed
<1> HIDE DEF Def
<1>9. Parts(blocks, first) = Def(Parts(blocks, first))
  BY <1>7, <1>8
<1> USE DEF Def
<1>10. Parts(blocks, first)[f] = <<>>
  <2>1. f \in f..L /\ f < first
    BY <1>1
  <2>2. QED
    BY <1>9, <2>1
<1>11. \A n \in f..L : n # f =>
         Parts(blocks, first)[n] = Pushed(blocks, Parts(blocks, first)[n - 1], n)
  <2> HIDE DEF f, L
  <2>1. QED
    BY <1>2, <1>9
<1>12. \A n \in f..L : Parts(blocks, first)[n] \in S
  <2> DEFINE T == {n \in f..L : Parts(blocks, first)[n] \in S}
  <2>1. f \in T
    <3>1. f \in f..L
      BY <1>1
    <3> HIDE DEF f, L, S
    <3>2. QED
      BY <1>1, <1>10, <3>1
  <2>2. \A n \in f..L : n # f /\ n - 1 \in T => n \in T
    <3> HIDE DEF f, L, S
    <3>1. QED
      BY <1>3, <1>11
  <2> HIDE DEF T, f, L
  <2>3. f..L \subseteq T
    BY <1>1, <2>1, <2>2, Upwards, ZenonT(30)
  <2>4. QED
    BY <2>3 DEF T
<1>13. \A n \in first..L : n \in f..L /\ n # f
  OBVIOUS
<1>14. QED
  BY <1>10, <1>11, <1>12, <1>13

\* The positions of the texts a part holds.
Events(part) == ({part.input} \ {0}) \cup {part.output[k] : k \in DOMAIN part.output}

OneEvent(part) == \E e : Events(part) = {e}

\* A part is of one block, or an action of one given id.
PartInv(blocks, first, n, part, j) ==
  /\ part.seq = j
  /\ Events(part) \subseteq first..n
  /\ \/ OneEvent(part) /\ (part.kind # "action" \/ part.id = <<"action", j>>)
     \/ /\ part.kind = "action"
        /\ \E x : x # NoId /\ part.id = <<"call", x>> /\ \A e \in Events(part) : blocks[e].id = x
  /\ part.kind # "action" =>
       part.input \in first..n /\ blocks[part.input].kind = part.kind

PartsInv(blocks, first, n, parts) ==
  /\ Len(parts) <= n - first + 1
  /\ \A j \in DOMAIN parts : PartInv(blocks, first, n, parts[j], j)

LEMMA EventFacts ==
  ASSUME NEW parts, NEW block, NEW n \in Nat \ {0}, block.kind \in Kinds,
         NEW event, event = EventOf(parts, block, n)
  PROVE  /\ Events(event) = {n} /\ event.seq = 0
         /\ event.kind = "action" => event.id = ActionId(parts, block)
         /\ event.kind # "action" => event.input = n /\ event.kind = block.kind
<1>1. DOMAIN <<>> = {} /\ DOMAIN <<n>> = {1} /\ <<n>>[1] = n
  OBVIOUS
<1>2. CASE block.kind = "call"
  <2>1. /\ event.seq = 0 /\ event.kind = "action" /\ event.id = ActionId(parts, block)
        /\ event.input = n /\ event.output = <<>>
    BY <1>2 DEF EventOf
  <2>2. QED
    BY <1>1, <2>1 DEF Events
<1>3. CASE block.kind = "output"
  <2>1. /\ event.seq = 0 /\ event.kind = "action" /\ event.id = ActionId(parts, block)
        /\ event.input = 0 /\ event.output = <<n>>
    BY <1>3 DEF EventOf
  <2>2. {event.output[k] : k \in DOMAIN event.output} = {n}
    BY <1>1, <2>1
  <2>3. QED
    BY <2>1, <2>2 DEF Events
<1>4. CASE block.kind # "call" /\ block.kind # "output"
  <2>1. /\ event.seq = 0 /\ event.kind = block.kind
        /\ event.input = n /\ event.output = <<>>
    BY <1>4 DEF EventOf
  <2>2. block.kind # "action"
    BY DEF Kinds
  <2>3. QED
    BY <1>1, <2>1, <2>2 DEF Events
<1>5. QED
  BY <1>2, <1>3, <1>4

LEMMA Joined ==
  ASSUME NEW S, NEW a \in Seq(S), NEW b \in Seq(S), NEW c, c = a \o b
  PROVE  /\ IsPrefix(a, c)
         /\ \A k \in DOMAIN c :
              \/ k \in DOMAIN a /\ c[k] = a[k]
              \/ k - Len(a) \in DOMAIN b /\ c[k] = b[k - Len(a)]
<1>1. /\ Len(a) \in Nat /\ Len(b) \in Nat /\ DOMAIN a = 1..Len(a) /\ DOMAIN b = 1..Len(b)
      /\ c \in Seq(S) /\ Len(c) = Len(a) + Len(b) /\ DOMAIN c = 1..(Len(a) + Len(b))
  OBVIOUS
<1>2. ASSUME NEW k \in 1..(Len(a) + Len(b))
      PROVE  c[k] = IF k <= Len(a) THEN a[k] ELSE b[k - Len(a)]
  BY <1>1
<1>3. ASSUME NEW k \in DOMAIN c
      PROVE  \/ k \in DOMAIN a /\ c[k] = a[k]
             \/ k - Len(a) \in DOMAIN b /\ c[k] = b[k - Len(a)]
  <2>1. k \in 1..(Len(a) + Len(b))
    BY <1>1
  <2>2. k <= Len(a) => k \in 1..Len(a)
    BY <1>1, <2>1
  <2>3. ~(k <= Len(a)) => k - Len(a) \in 1..Len(b)
    BY <1>1, <2>1
  <2>4. QED
    BY <1>1, <1>2, <2>1, <2>2, <2>3
<1>4. SubSeq(a, 1, Len(a)) = SubSeq(c, 1, Len(a))
  BY <1>1, <1>2
<1>5. QED
  BY <1>1, <1>3, <1>4 DEF IsPrefix

LEMMA FoldEvents ==
  ASSUME NEW B, NEW part \in PartType(B), NEW event \in PartType(B)
  PROVE  Events(Fold(part, event)) \subseteq Events(part) \cup Events(event)
<1>1. PICK f : f = Fold(part, event)
  OBVIOUS
<1>2. PICK a, b, c : a = part.output /\ b = event.output /\ c = f.output
  OBVIOUS
<1>3. f.input \in {part.input, event.input} /\ c = a \o b
  BY <1>1, <1>2, FoldTypes
<1>4. a \in Seq(Nat) /\ b \in Seq(Nat)
  BY <1>2 DEF PartType
<1>5. \A k \in DOMAIN c :
        \/ k \in DOMAIN a /\ c[k] = a[k]
        \/ k - Len(a) \in DOMAIN b /\ c[k] = b[k - Len(a)]
  BY <1>3, <1>4, Joined
<1>6. ASSUME NEW k \in DOMAIN c
      PROVE  c[k] \in Events(part) \cup Events(event)
  BY <1>2, <1>5 DEF Events
<1>7. Events(f) \subseteq Events(part) \cup Events(event)
  BY <1>2, <1>3, <1>6 DEF Events
<1>8. QED
  BY <1>1, <1>7

LEMMA PushedKeeps ==
  ASSUME NEW B, Typed(B), NEW blocks \in Seq(B), NEW first \in 1..Len(blocks),
         NEW n \in first..Len(blocks), NEW parts \in Seq(PartType(B)),
         PartsInv(blocks, first, n - 1, parts)
  PROVE  PartsInv(blocks, first, n, Pushed(blocks, parts, n))
<1> DEFINE event == EventOf(parts, blocks[n], n)
           later == Pushed(blocks, parts, n)
<1>1. /\ Len(parts) \in Nat /\ DOMAIN parts = 1..Len(parts) /\ Len(parts) <= n - first
      /\ n \in Nat \ {0} /\ first \in Nat \ {0} /\ blocks[n] \in B /\ blocks[n].kind \in Kinds
  BY DEF PartsInv, Typed
<1>2. event \in PartType(B)
  BY <1>1, EventTypes
<1>3. /\ Events(event) = {n} /\ event.seq = 0
      /\ event.kind = "action" => event.id = ActionId(parts, blocks[n])
      /\ event.kind # "action" => event.input = n /\ event.kind = blocks[n].kind
  BY <1>1, EventFacts
<1>4. later = IF blocks[n].blank THEN parts ELSE PushPart(parts, event, n)
  BY DEF Pushed
<1> HIDE DEF event, later
<1>5. ASSUME NEW j \in DOMAIN parts PROVE PartInv(blocks, first, n, parts[j], j)
  <2>1. PartInv(blocks, first, n - 1, parts[j], j)
    BY DEF PartsInv
  <2>2. first..(n - 1) \subseteq first..n
    BY <1>1
  <2>3. QED
    BY <2>1, <2>2 DEF PartInv
<1>6. CASE later = parts
  BY <1>1, <1>5, <1>6 DEF PartsInv, later
<1>7. CASE ~blocks[n].blank /\ (event.kind # "action" \/ Same(parts, event) = {})
  <2> DEFINE k == Len(parts) + 1
  <2>1. PICK new : new = [event EXCEPT !.seq = k]
    OBVIOUS
  <2>2. later = Append(parts, new)
    BY <1>4, <1>7, <2>1 DEF PushPart, Same, PartSeq
  <2>3. /\ new.seq = k /\ new.kind = event.kind /\ new.id = event.id
        /\ new.input = event.input /\ new.output = event.output
    BY <1>1, <1>2, <2>1 DEF PartType
  <2>4. Events(new) = {n}
    BY <1>3, <2>3 DEF Events
  <2>5. Len(later) = k /\ DOMAIN later = 1..k /\ later[k] = new
        /\ \A j \in 1..Len(parts) : later[j] = parts[j]
    BY <1>1, <2>2
  <2>6. OneEvent(new) /\ Events(new) \subseteq first..n
    <3>1. n \in first..n
      BY <1>1
    <3>2. OneEvent(new)
      BY <2>4, Zenon DEF OneEvent
    <3>3. QED
      BY <2>4, <3>1, <3>2
  <2>7. new.kind # "action" => new.input \in first..n /\ blocks[new.input].kind = new.kind
    BY <1>1, <1>3, <2>3
  <2>8. new.kind = "action" =>
          \/ new.id = <<"action", k>>
          \/ \E x : x # NoId /\ new.id = <<"call", x>> /\ \A e \in Events(new) : blocks[e].id = x
    BY <1>3, <2>3, <2>4 DEF ActionId
  <2>9. PartInv(blocks, first, n, new, k)
    BY <2>3, <2>6, <2>7, <2>8 DEF PartInv
  <2>10. \A j \in DOMAIN later : PartInv(blocks, first, n, later[j], j)
    <3>1. \A j \in 1..k : j = k \/ j \in 1..Len(parts)
      BY <1>1
    <3> HIDE DEF k
    <3>2. QED
      BY <1>1, <1>5, <2>5, <2>9, <3>1
  <2>11. Len(later) <= n - first + 1
    BY <1>1, <2>5
  <2>12. QED
    BY <2>10, <2>11 DEF PartsInv, later
<1>8. CASE ~blocks[n].blank /\ event.kind = "action" /\ Same(parts, event) # {}
  <2> DEFINE m == Max(Same(parts, event))
  <2>1. m \in Same(parts, event)
    BY <1>1, <1>8, GreatestIsMax DEF Same
  <2>2. m \in 1..Len(parts) /\ parts[m].kind = "action" /\ parts[m].id = event.id
    BY <1>1, <2>1 DEF Same
  <2> HIDE DEF m
  <2>3. later = [parts EXCEPT ![m] = Fold(parts[m], event)]
    BY <1>4, <1>8, <2>2 DEF PushPart, Same, m
  <2>4. /\ Len(later) = Len(parts) /\ DOMAIN later = DOMAIN parts
        /\ later[m] = Fold(parts[m], event)
        /\ \A j \in DOMAIN parts : j # m => later[j] = parts[j]
    BY <1>1, <2>2, <2>3
  <2>5. parts[m] \in PartType(B)
    BY <1>1, <2>2
  <2> DEFINE new == Fold(parts[m], event)
  <2>6. /\ new.seq = parts[m].seq /\ new.kind = parts[m].kind /\ new.id = parts[m].id
        /\ Events(new) \subseteq Events(parts[m]) \cup {n}
    <3>1. new.seq = parts[m].seq /\ new.kind = parts[m].kind /\ new.id = parts[m].id
      BY <1>2, <2>5, FoldTypes
    <3>2. Events(new) \subseteq Events(parts[m]) \cup Events(event)
      BY <1>2, <2>5, FoldEvents
    <3>3. QED
      BY <1>3, <3>1, <3>2
  <2> HIDE DEF new
  <2>7. PartInv(blocks, first, n - 1, parts[m], m)
    BY <1>1, <2>2 DEF PartsInv
  <2>8. event.id # <<"action", m>>
    BY <1>1, <1>3, <1>8, <2>2 DEF ActionId
  <2>9. PICK x : x # NoId /\ parts[m].id = <<"call", x>> /\ \A e \in Events(parts[m]) : blocks[e].id = x
    BY <2>2, <2>7, <2>8 DEF PartInv
  <2>10. blocks[n].id = x
    BY <1>3, <1>8, <2>2, <2>9 DEF ActionId
  <2>11. \A e \in Events(new) : blocks[e].id = x
    BY <2>6, <2>9, <2>10
  <2>12. Events(new) \subseteq first..n
    BY <1>1, <2>6, <2>7 DEF PartInv
  <2>13. PartInv(blocks, first, n, new, m)
    BY <2>2, <2>6, <2>7, <2>9, <2>11, <2>12 DEF PartInv
  <2>14. \A j \in DOMAIN later : PartInv(blocks, first, n, later[j], j)
    BY <1>5, <2>4, <2>13 DEF new
  <2>15. QED
    BY <1>1, <2>4, <2>14 DEF PartsInv, later
<1>9. QED
  BY <1>4, <1>6, <1>7, <1>8

LEMMA PartsMade ==
  ASSUME NEW B, Typed(B), NEW blocks \in Seq(B), NEW first \in 1..Len(blocks),
         NEW last \in (first - 1)..Len(blocks)
  PROVE  /\ PartsInv(blocks, first, last, Parts(blocks, first)[last])
         /\ Parts(blocks, first)[last] \in Seq(PartType(B))
<1> DEFINE L == Len(blocks)
           f == first - 1
           P(n) == Parts(blocks, first)[n]
           T == {n \in f..L : PartsInv(blocks, first, n, P(n))}
<1>1. f \in Int /\ L \in Int /\ f <= L /\ f \in f..L
  OBVIOUS
<1>2. f \in T
  <2>1. P(f) = <<>>
    BY PartsSteps
  <2>2. PartsInv(blocks, first, f, <<>>)
    BY <1>1 DEF PartsInv
  <2>3. QED
    BY <1>1, <2>1, <2>2
<1>3. ASSUME NEW n \in f..L, n # f /\ n - 1 \in T PROVE n \in T
  <2>1. n \in first..L /\ n - 1 \in f..L /\ PartsInv(blocks, first, n - 1, P(n - 1))
    BY <1>3
  <2>2. P(n - 1) \in Seq(PartType(B)) /\ P(n) = Pushed(blocks, P(n - 1), n)
    BY <2>1, PartsSteps
  <2>3. PartsInv(blocks, first, n, Pushed(blocks, P(n - 1), n))
    BY <2>1, <2>2, PushedKeeps
  <2>4. QED
    BY <2>2, <2>3
<1> HIDE DEF T, f, L
<1>4. f..L \subseteq T
  BY <1>1, <1>2, <1>3, Upwards, ZenonT(30)
<1>5. QED
  BY <1>4, PartsSteps DEF T, f, L

-----------------------------------------------------------------------------
(* What one more block changes.                                            *)

Grown(blocks, later, b) == later = Append(blocks, b)

LEMMA ScanPrefix ==
  ASSUME NEW B, NEW blocks \in Seq(B), NEW b \in B, NEW later, Grown(blocks, later, b),
         NEW n \in 0..Len(blocks)
  PROVE  Scan(later)[n] = Scan(blocks)[n]
<1> DEFINE L == Len(blocks)
           T == {i \in 0..L : Scan(later)[i] = Scan(blocks)[i]}
<1>1. /\ L \in Nat /\ 0 \in Int /\ L \in Int /\ later \in Seq(B) /\ Len(later) = L + 1
      /\ \A i \in 1..L : later[i] = blocks[i]
  BY DEF Grown
<1>2. 0 \in T
  <2>1. Scan(later)[0] = NoTurn
    BY <1>1, ScanSteps
  <2>2. Scan(blocks)[0] = NoTurn
    BY ScanSteps
  <2>3. QED
    BY <1>1, <2>1, <2>2
<1>3. ASSUME NEW i \in 0..L, i # 0 /\ i - 1 \in T PROVE i \in T
  <2>1. i \in 1..L /\ i \in 1..Len(later) /\ Scan(later)[i - 1] = Scan(blocks)[i - 1]
    BY <1>1, <1>3
  <2>2. PICK s : s = Scan(blocks)[i - 1]
    OBVIOUS
  <2>3. Scan(later)[i] = ScanBlock(later, s, i) /\ Scan(blocks)[i] = ScanBlock(blocks, s, i)
    <3>1. Scan(later)[i] = ScanBlock(later, Scan(later)[i - 1], i)
      BY <1>1, <2>1, ScanSteps
    <3>2. Scan(blocks)[i] = ScanBlock(blocks, Scan(blocks)[i - 1], i)
      BY <2>1, ScanSteps
    <3>3. QED
      BY <2>1, <2>2, <3>1, <3>2
  <2>4. later[i] = blocks[i]
    BY <1>1, <2>1
  <2>5. ScanBlock(later, s, i) = ScanBlock(blocks, s, i)
    BY <2>4 DEF ScanBlock
  <2>6. QED
    BY <2>3, <2>5
<1> HIDE DEF T, L
<1>4. 0..L \subseteq T
  BY <1>1, <1>2, <1>3, Upwards, ZenonT(30)
<1>5. QED
  BY <1>4 DEF T, L

LEMMA PartsPrefix ==
  ASSUME NEW B, Typed(B), NEW blocks \in Seq(B), NEW b \in B,
         NEW later, later = Append(blocks, b),
         NEW first \in 1..Len(blocks), NEW n \in (first - 1)..Len(blocks)
  PROVE  Parts(later, first)[n] = Parts(blocks, first)[n]
<1> DEFINE L == Len(blocks)
           f == first - 1
           T == {i \in f..L : Parts(later, first)[i] = Parts(blocks, first)[i]}
<1>1. /\ f \in Int /\ L \in Int /\ f \in f..L /\ later \in Seq(B) /\ Len(later) = L + 1
      /\ \A i \in 1..L : later[i] = blocks[i]
      /\ first \in 1..Len(later)
  OBVIOUS
<1>2. f \in T
  <2>1. Parts(later, first)[f] = <<>>
    BY <1>1, PartsSteps
  <2>2. Parts(blocks, first)[f] = <<>>
    BY PartsSteps
  <2>3. QED
    BY <1>1, <2>1, <2>2
<1>3. ASSUME NEW i \in f..L, i # f /\ i - 1 \in T PROVE i \in T
  <2>1. /\ i \in first..L /\ i \in first..Len(later) /\ i \in 1..L
        /\ Parts(later, first)[i - 1] = Parts(blocks, first)[i - 1]
    BY <1>1, <1>3
  <2>2. PICK s : s = Parts(blocks, first)[i - 1]
    OBVIOUS
  <2>3. Parts(later, first)[i] = Pushed(later, s, i) /\ Parts(blocks, first)[i] = Pushed(blocks, s, i)
    <3>1. Parts(later, first)[i] = Pushed(later, Parts(later, first)[i - 1], i)
      BY <1>1, <2>1, PartsSteps
    <3>2. Parts(blocks, first)[i] = Pushed(blocks, Parts(blocks, first)[i - 1], i)
      BY <2>1, PartsSteps
    <3>3. QED
      BY <2>1, <2>2, <3>1, <3>2
  <2>4. later[i] = blocks[i]
    BY <1>1, <2>1
  <2>5. Pushed(later, s, i) = Pushed(blocks, s, i)
    BY <2>4 DEF Pushed
  <2>6. QED
    BY <2>3, <2>5
<1> HIDE DEF T, L, f
<1>4. f..L \subseteq T
  BY <1>1, <1>2, <1>3, Upwards, ZenonT(30)
<1>5. QED
  BY <1>4 DEF T, L, f

LEMMA Appended ==
  ASSUME NEW S, NEW q \in Seq(S), NEW x \in S, NEW r, r = q \/ r = Append(q, x)
  PROVE  \A i \in DOMAIN q : i \in DOMAIN r /\ r[i] = q[i]
<1>1. \A i \in DOMAIN q : i \in DOMAIN Append(q, x) /\ Append(q, x)[i] = q[i]
  OBVIOUS
<1>2. QED
  BY <1>1

StartsAt(blocks, k, u) == TurnRanges(blocks)[k][1] = u

EndsAt(blocks, k, e) == TurnRanges(blocks)[k][2] = e

(* An answered turn keeps its index and where it starts; only the last one *)
(* grows.                                                                  *)
LEMMA RangesKeep ==
  ASSUME NEW B, NEW blocks \in Seq(B), NEW b \in B, NEW later, Grown(blocks, later, b),
         NEW k \in DOMAIN TurnRanges(blocks), NEW u \in Nat, NEW e \in Nat,
         StartsAt(blocks, k, u), EndsAt(blocks, k, e), Answered(blocks, u, e)
  PROVE  /\ k \in DOMAIN TurnRanges(later) /\ StartsAt(later, k, u)
         /\ EndsAt(later, k, e) \/ (e = Len(blocks) /\ EndsAt(later, k, e + 1))
<1> DEFINE L == Len(blocks)
<1>1. PICK s, t, R, Q : /\ s = Scan(blocks)[L] /\ t = Scan(later)[L + 1]
                        /\ R = TurnRanges(blocks) /\ Q = TurnRanges(later)
  OBVIOUS
<1> SUFFICES ASSUME R[k][1] = u, R[k][2] = e, k \in DOMAIN R
             PROVE  /\ k \in DOMAIN Q /\ Q[k][1] = u
                    /\ Q[k][2] = e \/ (e = Len(blocks) /\ Q[k][2] = e + 1)
  BY <1>1 DEF StartsAt, EndsAt
<1>2. /\ L \in Nat /\ later \in Seq(B) /\ Len(later) = L + 1 /\ later[L + 1] = b
      /\ later = Append(blocks, b)
  BY DEF Grown
<1>3. ScanInv(blocks, s, L) /\ s \in ScanStates
  BY <1>1, <1>2, Scanned DEF ScanInv
<1>4. t = ScanBlock(later, s, L + 1) /\ t \in ScanStates
  <2>1. Scan(later)[L] = s
    <3>1. L \in 0..Len(blocks)
      BY <1>2
    <3>2. Scan(later)[L] = Scan(blocks)[L]
      BY <3>1, ScanPrefix, Zenon
    <3>3. QED
      BY <1>1, <3>2
  <2>2. L + 1 \in 1..Len(later) /\ L + 1 \in 0..Len(later) /\ (L + 1) - 1 = L
    BY <1>2
  <2>3. /\ Scan(later)[L + 1] = ScanBlock(later, Scan(later)[(L + 1) - 1], L + 1)
        /\ Scan(later)[L + 1] \in ScanStates
    BY <1>2, <2>2, ScanSteps
  <2>4. QED
    BY <1>1, <2>1, <2>2, <2>3
<1>5. /\ R = IF s.start # 0 /\ (s.answered \/ OnlyStructureAfter(blocks, s.start))
             THEN Append(s.ranges, <<s.start, L>>) ELSE s.ranges
      /\ Q = IF t.start # 0 /\ (t.answered \/ OnlyStructureAfter(later, t.start))
             THEN Append(t.ranges, <<t.start, L + 1>>) ELSE t.ranges
  BY <1>1, <1>2 DEF TurnRanges
<1>6. PICK r, n : /\ r = s.ranges /\ n = Len(r) /\ r \in Seq(Nat \X Nat) /\ n \in Nat
                  /\ DOMAIN r = 1..n
  <2>1. s.ranges \in Seq(Nat \X Nat)
    BY <1>3 DEF ScanStates
  <2>2. Len(s.ranges) \in Nat /\ DOMAIN s.ranges = 1..Len(s.ranges)
    BY <2>1
  <2>3. QED
    BY <2>1, <2>2, Zenon
<1>7. t.ranges \in Seq(Nat \X Nat)
  BY <1>4 DEF ScanStates
<1>8. t.ranges = r \/ t.ranges = Append(r, <<s.start, L>>)
  <2>1. (L + 1) - 1 = L
    BY <1>2
  <2>2. t.ranges \in {s.ranges, Append(s.ranges, <<s.start, L>>)}
    <3>1. CASE later[L + 1].kind = "user"
      BY <1>4, <2>1, <3>1 DEF ScanBlock
    <3>2. CASE later[L + 1].kind # "user"
      BY <1>3, <1>4, <3>2 DEF ScanBlock, ScanStates
    <3>3. QED
      BY <3>1, <3>2
  <2>3. QED
    BY <1>6, <2>2
<1>9. \A i \in 1..n : i \in DOMAIN t.ranges /\ t.ranges[i] = r[i]
  <2>1. PICK x, q : q = t.ranges /\ x = <<s.start, L>>
    OBVIOUS
  <2>2. x \in Nat \X Nat
    BY <1>2, <1>3, <2>1 DEF ScanStates
  <2>3. q = r \/ q = Append(r, x)
    BY <1>8, <2>1
  <2>4. \A i \in DOMAIN r : i \in DOMAIN q /\ q[i] = r[i]
    <3>1. r \in Seq(Nat \X Nat)
      BY <1>6
    <3>2. QED
      BY <2>2, <2>3, <3>1, Appended, Zenon
  <2>5. QED
    BY <1>6, <2>1, <2>4
<1>10. \A i \in DOMAIN t.ranges : i \in DOMAIN Q /\ Q[i] = t.ranges[i]
  <2>1. PICK q : q = t.ranges /\ q \in Seq(Nat \X Nat)
    BY <1>7
  <2>2. PICK x : x = <<t.start, L + 1>>
    OBVIOUS
  <2>3. x \in Nat \X Nat
    BY <1>2, <1>4, <2>2 DEF ScanStates
  <2>4. Q = q \/ Q = Append(q, x)
    BY <1>5, <2>1, <2>2
  <2>5. \A i \in DOMAIN q : i \in DOMAIN Q /\ Q[i] = q[i]
    <3>1. q \in Seq(Nat \X Nat)
      BY <2>1
    <3>2. QED
      BY <2>3, <2>4, <3>1, Appended
  <2>6. QED
    BY <2>1, <2>5
<1>11. CASE k \in 1..n
  <2>1. R[k] = r[k]
    BY <1>5, <1>6, <1>11
  <2>2. k \in DOMAIN Q /\ Q[k] = r[k]
    BY <1>9, <1>10, <1>11
  <2>3. QED
    BY <1>1, <2>1, <2>2
<1>12. CASE k \notin 1..n
  <2>1. s.start # 0 /\ k = n + 1 /\ R[k] = <<s.start, L>>
    <3>1. R # r
      BY <1>1, <1>6, <1>12
    <3>2. s.start # 0 /\ R = Append(r, <<s.start, L>>)
      BY <1>5, <1>6, <3>1
    <3>3. k \in 1..(n + 1)
      BY <1>1, <1>6, <3>2
    <3>4. k = n + 1
      <4>1. n \in Nat
        BY <1>6
      <4>2. QED
        BY <1>12, <3>3, <4>1
    <3>5. QED
      BY <1>6, <3>2, <3>4
  <2>2. u = s.start /\ e = L /\ s.answered
    BY <1>1, <1>3, <2>1 DEF ScanInv, ScanAnswered
  <2>3. CASE b.kind = "user"
    <3>1. t.ranges = Append(r, <<u, e>>)
      <4>1. later[L + 1].kind = "user" /\ (L + 1) - 1 = L
        BY <1>2, <2>3
      <4>2. t.ranges = Append(s.ranges, <<s.start, L>>)
        BY <1>4, <2>2, <4>1 DEF ScanBlock
      <4>3. QED
        BY <1>6, <2>2, <4>2
    <3>2. k \in DOMAIN t.ranges /\ t.ranges[k] = <<u, e>>
      BY <1>6, <2>1, <3>1
    <3>3. k \in DOMAIN Q /\ Q[k] = <<u, e>>
      BY <1>10, <3>2
    <3>4. QED
      BY <1>1, <3>3
  <2>4. CASE b.kind # "user"
    <3>1. t.ranges = r /\ t.start = u /\ t.answered
      BY <1>2, <1>3, <1>4, <1>6, <2>2, <2>4 DEF ScanBlock, ScanStates
    <3>2. Q = Append(r, <<u, L + 1>>)
      BY <1>5, <2>1, <2>2, <3>1
    <3>3. k \in DOMAIN Q /\ Q[k] = <<u, L + 1>>
      BY <1>6, <2>1, <3>2
    <3>4. QED
      BY <1>1, <2>2, <3>3
  <2>5. QED
    BY <2>3, <2>4
<1>13. QED
  BY <1>11, <1>12

LEMMA ExtendsItself ==
  ASSUME NEW B, NEW part \in PartType(B)
  PROVE  Extends(part, part)
<1>1. part.output \in Seq(Nat)
  BY DEF PartType
<1>2. IsPrefix(part.output, part.output)
  <2>1. Len(part.output) \in Nat
    BY <1>1
  <2>2. QED
    BY <2>1 DEF IsPrefix
<1>3. QED
  BY <1>2 DEF Extends

LEMMA PushedExtends ==
  ASSUME NEW B, Typed(B), NEW blocks \in Seq(B), NEW parts \in Seq(PartType(B)),
         NEW n \in 1..Len(blocks), NEW j \in DOMAIN parts
  PROVE  j \in DOMAIN Pushed(blocks, parts, n) /\ Extends(Pushed(blocks, parts, n)[j], parts[j])
<1>1. PICK event, later : event = EventOf(parts, blocks[n], n) /\ later = Pushed(blocks, parts, n)
  OBVIOUS
<1>2. n \in Nat /\ blocks[n] \in B /\ Len(parts) \in Nat /\ DOMAIN parts = 1..Len(parts)
      /\ parts[j] \in PartType(B)
  OBVIOUS
<1>3. event \in PartType(B) /\ Extends(parts[j], parts[j])
  BY <1>1, <1>2, EventTypes, ExtendsItself
<1>4. later = IF blocks[n].blank THEN parts ELSE PushPart(parts, event, n)
  BY <1>1 DEF Pushed
<1>5. CASE later = parts
  BY <1>1, <1>3, <1>5
<1>6. CASE ~blocks[n].blank /\ (event.kind # "action" \/ Same(parts, event) = {})
  <2>1. PICK new : later = Append(parts, new)
    BY <1>4, <1>6 DEF PushPart, Same
  <2>2. j \in DOMAIN later /\ later[j] = parts[j]
    BY <1>2, <2>1
  <2>3. QED
    BY <1>1, <1>3, <2>2
<1>7. CASE ~blocks[n].blank /\ event.kind = "action" /\ Same(parts, event) # {}
  <2>1. PICK m : m = Max(Same(parts, event))
    OBVIOUS
  <2>2. m \in Same(parts, event)
    BY <1>2, <1>7, <2>1, GreatestIsMax DEF Same
  <2>3. m \in 1..Len(parts) /\ parts[m] \in PartType(B)
    BY <1>2, <2>2 DEF Same
  <2>4. later = [parts EXCEPT ![m] = Fold(parts[m], event)]
    BY <1>4, <1>7, <2>1, <2>3 DEF PushPart, Same
  <2>5. Extends(Fold(parts[m], event), parts[m])
    <3>1. PICK p, q : p = parts[m] /\ q = Fold(p, event)
      OBVIOUS
    <3>2. PICK a, c, d : a = p.output /\ c = q.output /\ d = event.output
      OBVIOUS
    <3>3. /\ q.kind = p.kind /\ q.id = p.id /\ c = a \o d
          /\ q.input = IF p.input = 0 THEN event.input ELSE p.input
      <4>1. p \in PartType(B)
        BY <2>3, <3>1
      <4>2. /\ Fold(p, event).kind = p.kind /\ Fold(p, event).id = p.id
            /\ Fold(p, event).output = p.output \o event.output
            /\ Fold(p, event).input = IF p.input = 0 THEN event.input ELSE p.input
        BY <1>3, <4>1, FoldTypes
      <4>3. QED
        BY <3>1, <3>2, <4>2
    <3>4. a \in Seq(Nat) /\ d \in Seq(Nat)
      BY <1>3, <2>3, <3>1, <3>2 DEF PartType
    <3>5. IsPrefix(a, c)
      BY <3>3, <3>4, Joined
    <3>6. QED
      BY <3>1, <3>2, <3>3, <3>5 DEF Extends
  <2>6. j \in DOMAIN later /\ later[j] = IF j = m THEN Fold(parts[m], event) ELSE parts[j]
    BY <1>2, <2>4
  <2>7. QED
    BY <1>1, <1>3, <2>5, <2>6
<1>8. QED
  BY <1>4, <1>5, <1>6, <1>7

-----------------------------------------------------------------------------
(* The records of a session.                                               *)

LEMMA ChatFacts ==
  ASSUME NEW B, Typed(B), NEW blocks \in Seq(B),
         NEW R, R = TurnRanges(blocks), NEW T, T = ChatTurns(blocks)
  PROVE  /\ DOMAIN T \subseteq DOMAIN R /\ DOMAIN R \subseteq 1..Len(blocks)
         /\ \A i \in DOMAIN R :
              /\ R[i][1] \in 1..Len(blocks) /\ R[i][2] \in R[i][1]..Len(blocks)
              /\ Says(AgentParts(blocks, R[i][1], R[i][2]), "assistant") => i \in DOMAIN T
         /\ \A i \in DOMAIN T :
              /\ T[i] = AgentParts(blocks, R[i][1], R[i][2])
              /\ T[i] \in Seq(PartType(B)) /\ PartsInv(blocks, R[i][1], R[i][2], T[i])
<1> DEFINE L == Len(blocks)
           P(i) == AgentParts(blocks, R[i][1], R[i][2])
           parts == [i \in DOMAIN R |-> P(i)]
<1>1. L \in Nat /\ R \in Seq(Nat \X Nat) /\ Len(R) <= L
      /\ \A i \in DOMAIN R : Turn(blocks, R[i][1], R[i][2])
  BY Ranges
<1>2. DOMAIN R \subseteq 1..L
  <2>1. Len(R) \in Nat /\ DOMAIN R = 1..Len(R)
    BY <1>1
  <2>2. QED
    BY <1>1, <2>1
<1>3. \A i \in DOMAIN R : R[i][1] \in 1..L /\ R[i][2] \in R[i][1]..L
  <2> SUFFICES ASSUME NEW i \in DOMAIN R PROVE R[i][1] \in 1..L /\ R[i][2] \in R[i][1]..L
    OBVIOUS
  <2>1. R[i][1] \in 1..L /\ R[i][2] \in 1..L /\ R[i][1] <= R[i][2]
    BY <1>1 DEF Turn, OneTurn
  <2>2. QED
    BY <2>1
<1> HIDE DEF P
<1>4. T = [i \in {j \in DOMAIN R : Recorded(blocks, R[j], parts[j])} |-> parts[i]]
  BY DEF ChatTurns, P
<1>5. /\ DOMAIN T = {j \in DOMAIN R : Recorded(blocks, R[j], P(j))}
      /\ \A i \in DOMAIN T : T[i] = P(i)
  BY <1>4
<1>6. \A i \in DOMAIN R : Says(P(i), "assistant") => i \in DOMAIN T
  BY <1>5 DEF Recorded
<1>7. \A i \in DOMAIN R : P(i) \in Seq(PartType(B)) /\ PartsInv(blocks, R[i][1], R[i][2], P(i))
  <2> SUFFICES ASSUME NEW i \in DOMAIN R
               PROVE  P(i) \in Seq(PartType(B)) /\ PartsInv(blocks, R[i][1], R[i][2], P(i))
    OBVIOUS
  <2>1. PICK u, e : u = R[i][1] /\ e = R[i][2]
    OBVIOUS
  <2>2. u \in 1..L /\ e \in u..L /\ e \in (u - 1)..L
    BY <1>3, <2>1
  <2>3. /\ PartsInv(blocks, u, e, Parts(blocks, u)[e])
        /\ Parts(blocks, u)[e] \in Seq(PartType(B))
    BY <2>2, PartsMade
  <2>4. QED
    BY <2>1, <2>3 DEF P, AgentParts
<1>8. QED
  BY <1>2, <1>3, <1>5, <1>6, <1>7 DEF P

LEMMA ChatParts ==
  ASSUME NEW B, Typed(B), NEW blocks \in Seq(B),
         NEW i \in DOMAIN ChatTurns(blocks)
  PROVE  ChatTurns(blocks)[i] =
           AgentParts(blocks, TurnRanges(blocks)[i][1], TurnRanges(blocks)[i][2])
BY ChatFacts

LEMMA SaysMeans ==
  ASSUME NEW blocks, NEW u \in Nat, NEW e \in Nat, NEW parts,
         PartsInv(blocks, u, e, parts), Says(parts, "assistant")
  PROVE  Answered(blocks, u, e)
<1>1. PICK j \in DOMAIN parts : parts[j].kind = "assistant"
  BY DEF Says
<1>2. PartInv(blocks, u, e, parts[j], j)
  BY DEF PartsInv
<1>3. parts[j].input \in u..e /\ blocks[parts[j].input].kind = "assistant"
  BY <1>1, <1>2 DEF PartInv
<1>4. QED
  BY <1>3 DEF Answered

LEMMA TurnsKept ==
  ASSUME NEW B, Typed(B), NEW blocks \in Seq(B), NEW b \in B,
         NEW later, later = Append(blocks, b)
  PROVE  TurnsKeep(ChatTurns(blocks), ChatTurns(later))
<1>1. PICK R, Q, T, U : /\ R = TurnRanges(blocks) /\ Q = TurnRanges(later)
                        /\ T = ChatTurns(blocks) /\ U = ChatTurns(later)
  OBVIOUS
<1>2. later \in Seq(B) /\ Len(later) = Len(blocks) + 1 /\ Len(blocks) \in Nat
  OBVIOUS
<1>3. ASSUME NEW i \in DOMAIN T, Says(T[i], "assistant")
      PROVE  /\ i \in DOMAIN U
             /\ \A j \in DOMAIN T[i] : j \in DOMAIN U[i] /\ Extends(U[i][j], T[i][j])
  <2>1. PICK u, e, P : u = R[i][1] /\ e = R[i][2] /\ P = T[i]
    OBVIOUS
  <2>2. /\ i \in DOMAIN R /\ u \in 1..Len(blocks) /\ e \in u..Len(blocks)
        /\ P = AgentParts(blocks, u, e)
        /\ P \in Seq(PartType(B)) /\ PartsInv(blocks, u, e, P)
    BY <1>1, <2>1, ChatFacts
  <2>3. u \in Nat /\ e \in Nat /\ e \in (u - 1)..Len(blocks) /\ u \in 1..Len(later)
    BY <1>2, <2>2
  <2>4. Answered(blocks, u, e)
    BY <1>3, <2>1, <2>2, <2>3, SaysMeans
  <2>5. /\ i \in DOMAIN Q /\ Q[i][1] = u
        /\ Q[i][2] = e \/ (e = Len(blocks) /\ Q[i][2] = e + 1)
    <3>1. /\ i \in DOMAIN TurnRanges(blocks) /\ u \in Nat /\ e \in Nat
          /\ StartsAt(blocks, i, u) /\ EndsAt(blocks, i, e) /\ Grown(blocks, later, b)
      BY <1>1, <2>1, <2>2, <2>3 DEF StartsAt, EndsAt, Grown
    <3>2. /\ i \in DOMAIN TurnRanges(later) /\ StartsAt(later, i, u)
          /\ EndsAt(later, i, e) \/ (e = Len(blocks) /\ EndsAt(later, i, e + 1))
      BY <2>4, <3>1, RangesKeep, Zenon
    <3>3. QED
      BY <1>1, <3>2 DEF StartsAt, EndsAt
  <2>6. PICK N : N = AgentParts(later, u, Q[i][2])
    OBVIOUS
  <2>7. Parts(later, u)[e] = P
    BY <2>2, <2>3, PartsPrefix DEF AgentParts
  <2>8. \A j \in DOMAIN P : j \in DOMAIN N /\ Extends(N[j], P[j])
    <3> SUFFICES ASSUME NEW j \in DOMAIN P PROVE j \in DOMAIN N /\ Extends(N[j], P[j])
      OBVIOUS
    <3>1. CASE Q[i][2] = e
      <4>1. N = P
        BY <2>6, <2>7, <3>1 DEF AgentParts
      <4>2. P[j] \in PartType(B)
        BY <2>2
      <4>3. QED
        BY <4>1, <4>2, ExtendsItself
    <3>2. CASE e = Len(blocks) /\ Q[i][2] = e + 1
      <4>1. e + 1 \in u..Len(later) /\ e + 1 \in 1..Len(later) /\ (e + 1) - 1 = e
        BY <1>2, <2>2, <2>3, <3>2
      <4>2. Parts(later, u)[e + 1] = Pushed(later, Parts(later, u)[(e + 1) - 1], e + 1)
        BY <1>2, <2>3, <4>1, PartsSteps
      <4>3. N = Pushed(later, P, e + 1)
        BY <2>6, <2>7, <3>2, <4>1, <4>2 DEF AgentParts
      <4>4. QED
        BY <1>2, <2>2, <4>1, <4>3, PushedExtends
    <3>3. QED
      BY <2>5, <3>1, <3>2
  <2>9. Says(N, "assistant")
    BY <1>3, <2>1, <2>8 DEF Says, Extends
  <2>10. i \in DOMAIN U
    <3>1. Says(AgentParts(later, Q[i][1], Q[i][2]), "assistant")
      BY <2>5, <2>6, <2>9
    <3>2. QED
      BY <1>1, <1>2, <2>5, <3>1, ChatFacts
  <2>11. U[i] = N
    <3>1. U[i] = AgentParts(later, Q[i][1], Q[i][2])
      <4>1. later \in Seq(B) /\ i \in DOMAIN ChatTurns(later)
        BY <1>1, <1>2, <2>10
      <4>2. ChatTurns(later)[i] =
              AgentParts(later, TurnRanges(later)[i][1], TurnRanges(later)[i][2])
        BY <4>1, ChatParts, Zenon
      <4>3. QED
        BY <1>1, <4>2
    <3>2. QED
      BY <2>5, <2>6, <2>10, <3>1
  <2>12. QED
    BY <2>1, <2>8, <2>10, <2>11
<1>4. TurnsKeep(T, U)
  BY <1>3 DEF TurnsKeep
<1>5. QED
  BY <1>1, <1>4

-----------------------------------------------------------------------------
(* The session.                                                            *)

LogInv == log \in Seq(Blocks) /\ Len(log) <= MaxBlocks /\ turns = ChatTurns(log)

LEMMA BlocksTyped == Typed(Blocks)
BY BlocksAssumption DEF Typed

LEMMA LogInit == Init => LogInv
<1> SUFFICES ASSUME Init PROVE LogInv
  OBVIOUS
<1>1. PICK none, R, T : none = <<>> /\ R = TurnRanges(none) /\ T = ChatTurns(none)
  OBVIOUS
<1>2. none \in Seq(Blocks) /\ Len(none) = 0
  BY <1>1
<1>3. DOMAIN T \subseteq DOMAIN R /\ DOMAIN R \subseteq 1..Len(none)
  <2> HIDE <1>1
  <2>1. R = TurnRanges(none) /\ T = ChatTurns(none) /\ Typed(Blocks)
    BY <1>1, BlocksTyped
  <2>2. QED
    BY <1>2, <2>1, ChatFacts
<1>4. DOMAIN T = {}
  <2>1. 1..0 = {}
    OBVIOUS
  <2>2. QED
    BY <1>2, <1>3, <2>1
<1>5. T = <<>>
  <2>1. T = [i \in DOMAIN T |-> T[i]]
    BY <1>1 DEF ChatTurns
  <2>2. QED
    BY <1>4, <2>1
<1>6. 0 <= MaxBlocks
  BY SizesAssumption
<1>7. QED
  BY <1>1, <1>2, <1>5, <1>6 DEF Init, LogInv

LEMMA LogNext == LogInv /\ [Next]_vars => LogInv'
<1> SUFFICES ASSUME LogInv, [Next]_vars PROVE LogInv'
  OBVIOUS
<1>1. ASSUME NEW b \in Blocks, Write(b) PROVE LogInv'
  <2>1. /\ Len(log) < MaxBlocks /\ log' = Append(log, b) /\ turns' = ChatTurns(log')
        /\ log \in Seq(Blocks)
    BY <1>1 DEF Write, LogInv
  <2>2. log' \in Seq(Blocks) /\ Len(log') = Len(log) + 1 /\ Len(log) \in Nat
    BY <2>1
  <2>3. Len(log') <= MaxBlocks
    BY <2>1, <2>2, SizesAssumption
  <2>4. QED
    BY <2>1, <2>2, <2>3 DEF LogInv
<1>2. CASE log' = log /\ turns' = turns
  BY <1>2 DEF LogInv
<1>3. QED
  BY <1>1, <1>2 DEF Next, Read, Marks, ToggleBlock, ToggleRows, Vars, VarSet, VarMerge, VarDrop, VarRm, vars

LEMMA LogAlways == Spec => []LogInv
BY LogInit, LogNext, PTL DEF Spec

(* The one-pass scan finds the turns the code's tests describe.            *)
THEOREM TurnsCorrect == Spec => []TurnsByDefinition
<1>1. LogInv => TurnsByDefinition
  BY TurnsFound DEF LogInv
<1>2. QED
  BY <1>1, LogAlways, PTL

(* push_agent_part never guesses a pairing.                                *)
THEOREM PairingCorrect == Spec => []NoGuessedPairing
<1>1. LogInv => NoGuessedPairing
  <2> SUFFICES ASSUME LogInv, NEW i \in DOMAIN turns, NEW j \in DOMAIN turns[i]
               PROVE  LET E == Events(turns[i][j])
                      IN /\ \E id \in {NoId} \cup {b.id : b \in Blocks} : \A n \in E : log[n].id = id
                         /\ (\E n \in E : log[n].id = NoId) => Cardinality(E) = 1
    BY DEF NoGuessedPairing, Events
  <2>1. PICK R, part, E : /\ R = TurnRanges(log) /\ part = turns[i][j] /\ E = Events(part)
    OBVIOUS
  <2>2. /\ log \in Seq(Blocks) /\ DOMAIN log = 1..Len(log) /\ Len(log) \in Nat
        /\ turns = ChatTurns(log)
    BY DEF LogInv
  <2>3. /\ i \in DOMAIN R /\ R[i][1] \in 1..Len(log) /\ R[i][2] \in R[i][1]..Len(log)
        /\ PartsInv(log, R[i][1], R[i][2], turns[i])
    BY <2>1, <2>2, BlocksTyped, ChatFacts
  <2>4. PartInv(log, R[i][1], R[i][2], part, j)
    BY <2>1, <2>3 DEF PartsInv
  <2>5. E \subseteq DOMAIN log
    BY <2>1, <2>2, <2>3, <2>4 DEF PartInv
  <2>6. \A n \in E : log[n].id \in {b.id : b \in Blocks}
    BY <2>2, <2>5
  <2>7. CASE OneEvent(part)
    <3>1. PICK e : E = {e}
      BY <2>1, <2>7 DEF OneEvent
    <3>2. Cardinality(E) = 1
      BY <3>1, FS_Singleton
    <3>3. log[e].id \in {b.id : b \in Blocks} /\ \A n \in E : log[n].id = log[e].id
      BY <2>6, <3>1
    <3>4. QED
      BY <2>1, <3>2, <3>3
  <2>8. CASE ~OneEvent(part)
    <3>1. PICK x : x # NoId /\ \A e \in E : log[e].id = x
      BY <2>1, <2>4, <2>8 DEF PartInv
    <3>2. \E id \in {NoId} \cup {b.id : b \in Blocks} : \A n \in E : log[n].id = id
      <4>1. CASE E = {}
        BY <4>1
      <4>2. CASE E # {}
        BY <2>6, <3>1, <4>2
      <4>3. QED
        BY <4>1, <4>2
    <3>3. QED
      BY <2>1, <3>1, <3>2
  <2>9. QED
    BY <2>7, <2>8
<1>2. QED
  BY <1>1, LogAlways, PTL

(* A reference to a part of an answered turn keeps its meaning while the   *)
(* agent writes on.                                                        *)
THEOREM RefsCorrect == Spec => RefsKeep
<1>1. LogInv /\ [Next]_vars => [TurnsKeep(turns, turns')]_turns
  <2> SUFFICES ASSUME LogInv, [Next]_vars, turns' # turns PROVE TurnsKeep(turns, turns')
    OBVIOUS
  <2>1. PICK b \in Blocks : Write(b)
    BY DEF Next, Read, Marks, ToggleBlock, ToggleRows, Vars, VarSet, VarMerge, VarDrop, VarRm, vars
  <2>2. /\ log' = Append(log, b) /\ turns' = ChatTurns(log')
        /\ log \in Seq(Blocks) /\ turns = ChatTurns(log)
    BY <2>1 DEF Write, LogInv
  <2>3. QED
    BY <2>2, BlocksTyped, TurnsKept
<1>2. QED
  BY <1>1, LogAlways, PTL DEF Spec, RefsKeep

-----------------------------------------------------------------------------
(* WorkSets, mark by mark.                                                 *)

Idx == 1..MaxBlocks
Num == 0..MaxBlocks

In(w, i, s) == <<i, s>> \in w.anchors

\* CanonicalSet in terms of single marks.
OneWay(w, i) ==
  /\ In(w, i, 0) => \A s \in Num : In(w, i, s) => s = 0
  /\ w.records[i] > 0 => \E s \in 1..w.records[i] : ~In(w, i, s)

Marked(w, i) == \E s \in Num : In(w, i, s)

Points(w) ==
  /\ \A i \in DOMAIN w.records : OneWay(w, i)
  /\ \A i \in Idx : i \in DOMAIN w.records <=> Marked(w, i)

GoodSet(w) == IsSet(w) /\ Points(w)

LEMMA PairOf ==
  ASSUME NEW w, IsSet(w), NEW a \in w.anchors
  PROVE  a[1] \in Idx /\ a[2] \in Num /\ a = <<a[1], a[2]>>
BY DEF IsSet, Idx, Num

LEMMA RefsMarked ==
  ASSUME NEW w, IsSet(w)
  PROVE  Refs(w.anchors) = {i \in Idx : Marked(w, i)}
<1>1. ASSUME NEW i \in Refs(w.anchors) PROVE i \in Idx /\ Marked(w, i)
  <2>1. PICK a \in w.anchors : a[1] = i
    BY DEF Refs
  <2>2. QED
    BY <2>1, PairOf DEF Marked, In
<1>2. ASSUME NEW i \in Idx, Marked(w, i) PROVE i \in Refs(w.anchors)
  <2>1. PICK s \in Num : <<i, s>> \in w.anchors
    BY <1>2 DEF Marked, In
  <2>2. <<i, s>>[1] = i
    OBVIOUS
  <2>3. QED
    BY <2>1, <2>2 DEF Refs
<1>3. QED
  BY <1>1, <1>2

LEMMA GoodIsCanonical ==
  ASSUME NEW w, GoodSet(w)
  PROVE  CanonicalSet(w)
<1>1. IsSet(w) /\ Points(w)
  BY DEF GoodSet
<1>2. Refs(w.anchors) = DOMAIN w.records
  <2>1. DOMAIN w.records \subseteq Idx
    BY <1>1 DEF IsSet, Idx
  <2>2. QED
    BY <1>1, <2>1, RefsMarked DEF Points
<1>3. ASSUME NEW i \in DOMAIN w.records, NEW marks, marks = {a[2] : a \in {b \in w.anchors : b[1] = i}}
      PROVE  /\ Whole \in marks => marks = {Whole}
             /\ w.records[i] > 0 => ~(1..w.records[i] \subseteq marks)
  <2>1. \A s \in marks : s \in Num /\ In(w, i, s)
    BY <1>1, <1>3, PairOf DEF In
  <2>2. OneWay(w, i)
    BY <1>1 DEF Points
  <2>3. QED
    BY <2>1, <2>2 DEF OneWay, Whole
<1>4. QED
  BY <1>2, <1>3 DEF CanonicalSet

\* Every part of the record is marked, one by one.
Complete(w, i) ==
  /\ i \in DOMAIN w.records /\ w.records[i] > 0 /\ ~In(w, i, 0)
  /\ \A s \in 1..w.records[i] : In(w, i, s)

LEMMA NormalPoints ==
  ASSUME NEW w, IsSet(w), NEW n, n = Normalized(w)
  PROVE  /\ n.records = w.records /\ IsSet(n)
         /\ \A i \in Idx : In(n, i, 0) <=> In(w, i, 0) \/ Complete(w, i)
         /\ \A i \in Idx : \A s \in 1..MaxBlocks :
              In(n, i, s) <=> In(w, i, s) /\ ~In(w, i, 0) /\ ~Complete(w, i)
<1> DEFINE kept == {a \in w.anchors : a[2] = Whole \/ ~WholeIn(w, a[1])}
           complete == {i \in DOMAIN w.records :
                          w.records[i] > 0 /\ Anchors({i}, 1..w.records[i]) \subseteq kept}
           left == {a \in kept : a[1] \notin complete}
<1>1. n = [records |-> w.records, anchors |-> left \cup Anchors(complete, {Whole})]
  BY DEF Normalized, WorkSet
<1>2. n.records = w.records /\ n.anchors = left \cup Anchors(complete, {Whole})
  BY <1>1
<1>3. \A i \in Idx, s \in Num : <<i, s>> \in kept <=> In(w, i, s) /\ (s = 0 \/ ~In(w, i, 0))
  <2> SUFFICES ASSUME NEW i \in Idx, NEW s \in Num
               PROVE  <<i, s>> \in kept <=> In(w, i, s) /\ (s = 0 \/ ~In(w, i, 0))
    OBVIOUS
  <2>1. <<i, s>>[1] = i /\ <<i, s>>[2] = s
    OBVIOUS
  <2>2. QED
    BY <2>1 DEF In, WholeIn, Whole
<1>4. \A i \in Idx : i \in complete <=> Complete(w, i)
  <2> SUFFICES ASSUME NEW i \in Idx PROVE i \in complete <=> Complete(w, i)
    OBVIOUS
  <2>1. CASE i \in DOMAIN w.records /\ w.records[i] > 0
    <3>1. w.records[i] \in Num /\ 1 \in 1..w.records[i] /\ 1..w.records[i] \subseteq 1..MaxBlocks
      BY <2>1, SizesAssumption DEF IsSet, Num
    <3>2. Anchors({i}, 1..w.records[i]) \subseteq kept
            <=> \A s \in 1..w.records[i] : <<i, s>> \in kept
      BY DEF Anchors
    <3>3. \A s \in 1..w.records[i] : s \in Num /\ s # 0
      BY <3>1 DEF Num
    <3> HIDE DEF kept
    <3>4. QED
      BY <1>3, <2>1, <3>1, <3>2, <3>3 DEF Complete
  <2>2. CASE ~(i \in DOMAIN w.records /\ w.records[i] > 0)
    BY <2>2 DEF Complete
  <2>3. QED
    BY <2>1, <2>2
<1>5. complete \subseteq Idx
  BY DEF IsSet, Idx
<1>6. \A i \in Idx, s \in Num : <<i, s>> \in left <=> <<i, s>> \in kept /\ ~Complete(w, i)
  <2> SUFFICES ASSUME NEW i \in Idx, NEW s \in Num
               PROVE  <<i, s>> \in left <=> <<i, s>> \in kept /\ ~Complete(w, i)
    OBVIOUS
  <2>1. <<i, s>>[1] = i
    OBVIOUS
  <2> HIDE DEF kept, complete
  <2>2. QED
    BY <1>4, <2>1
<1>7. left \subseteq w.anchors
  OBVIOUS
<1> HIDE DEF kept, complete, left
<1>8. \A i \in Idx, s \in Num : <<i, s>> \in Anchors(complete, {Whole}) <=> Complete(w, i) /\ s = 0
  BY <1>4 DEF Anchors, Whole
<1>9. \A i \in Idx, s \in Num :
        In(n, i, s) <=> \/ In(w, i, s) /\ (s = 0 \/ ~In(w, i, 0)) /\ ~Complete(w, i)
                        \/ Complete(w, i) /\ s = 0
  BY <1>2, <1>3, <1>6, <1>8 DEF In
<1>10. Anchors(complete, {Whole}) \subseteq Idx \X Num
  <2>1. 0 \in Num
    BY SizesAssumption DEF Num
  <2>2. QED
    BY <1>5, <2>1 DEF Anchors, Whole
<1>11. IsSet(n)
  BY <1>2, <1>7, <1>10 DEF IsSet, Idx, Num
<1>12. 0 \in Num /\ \A s \in 1..MaxBlocks : s \in Num /\ s # 0
  BY SizesAssumption DEF Num
<1>13. QED
  BY <1>2, <1>9, <1>11, <1>12

LEMMA NumSplit == \A s \in Num : s = 0 \/ s \in 1..MaxBlocks
BY SizesAssumption DEF Num

\* What normalize_anchors gives: it only joins what is complete.
LEMMA NormalGood ==
  ASSUME NEW w, IsSet(w), \A i \in Idx : Marked(w, i) => i \in DOMAIN w.records,
         NEW n, n = Normalized(w)
  PROVE  /\ \A i \in DOMAIN n.records : OneWay(n, i)
         /\ \A i \in Idx : Marked(n, i) <=> Marked(w, i)
<1>1. /\ n.records = w.records /\ IsSet(n)
      /\ \A i \in Idx : In(n, i, 0) <=> In(w, i, 0) \/ Complete(w, i)
      /\ \A i \in Idx : \A s \in 1..MaxBlocks :
           In(n, i, s) <=> In(w, i, s) /\ ~In(w, i, 0) /\ ~Complete(w, i)
  BY NormalPoints
<1>2. ASSUME NEW i \in DOMAIN w.records PROVE OneWay(n, i)
  <2>1. i \in Idx /\ w.records[i] \in Num
    BY DEF IsSet, Idx, Num
  <2>2. In(n, i, 0) => \A s \in Num : In(n, i, s) => s = 0
    BY <1>1, <2>1, NumSplit
  <2>3. w.records[i] > 0 => \E s \in 1..w.records[i] : ~In(n, i, s)
    <3> SUFFICES ASSUME w.records[i] > 0 PROVE \E s \in 1..w.records[i] : ~In(n, i, s)
      OBVIOUS
    <3>1. 1 \in 1..w.records[i] /\ 1..w.records[i] \subseteq 1..MaxBlocks
      BY <2>1, SizesAssumption DEF Num
    <3>2. CASE In(w, i, 0) \/ Complete(w, i)
      BY <1>1, <2>1, <3>1, <3>2
    <3>3. CASE ~In(w, i, 0) /\ ~Complete(w, i)
      <4>1. PICK s \in 1..w.records[i] : ~In(w, i, s)
        BY <2>1, <3>3 DEF Complete
      <4>2. QED
        BY <1>1, <2>1, <3>1, <4>1
    <3>4. QED
      BY <3>2, <3>3
  <2>4. QED
    BY <1>1, <2>2, <2>3 DEF OneWay
<1>3. ASSUME NEW i \in Idx PROVE Marked(n, i) <=> Marked(w, i)
  <2>1. 0 \in Num /\ 1..MaxBlocks \subseteq Num
    BY SizesAssumption DEF Num
  <2>2. Complete(w, i) => Marked(w, i)
    <3>1. Complete(w, i) => 1 \in 1..w.records[i] /\ w.records[i] \in Num
      BY DEF Complete, IsSet, Num
    <3>2. Complete(w, i) => In(w, i, 1) /\ 1 \in Num
      BY <3>1, SizesAssumption DEF Complete, Num
    <3>3. QED
      BY <3>2 DEF Marked
  <2>3. Marked(n, i) => Marked(w, i)
    BY <1>1, <2>1, <2>2, NumSplit DEF Marked
  <2>4. Marked(w, i) => Marked(n, i)
    BY <1>1, <2>1, NumSplit DEF Marked
  <2>5. QED
    BY <2>3, <2>4
<1>4. QED
  BY <1>1, <1>2, <1>3

LEMMA WorkSetFields ==
  ASSUME NEW records, NEW anchors
  PROVE  WorkSet(records, anchors).records = records /\ WorkSet(records, anchors).anchors = anchors
BY DEF WorkSet

\* A record read without its parts is marked whole.
ZeroWhole(w) == \A i \in DOMAIN w.records : w.records[i] = 0 => In(w, i, 0)

LEMMA OnlyFacts ==
  ASSUME NEW records, NEW I
  PROVE  /\ DOMAIN Only(records, I) = DOMAIN records \cap I
         /\ \A i \in DOMAIN Only(records, I) : Only(records, I)[i] = records[i]
BY DEF Only

LEMMA NormalizedGood ==
  ASSUME NEW w, IsSet(w), \A i \in Idx : i \in DOMAIN w.records <=> Marked(w, i),
         NEW n, n = Normalized(w)
  PROVE  GoodSet(n) /\ n.records = w.records /\ (ZeroWhole(w) => ZeroWhole(n))
<1>1. /\ n.records = w.records /\ IsSet(n)
      /\ \A i \in Idx : In(n, i, 0) <=> In(w, i, 0) \/ Complete(w, i)
  BY NormalPoints
<1>2. /\ \A i \in DOMAIN n.records : OneWay(n, i)
      /\ \A i \in Idx : Marked(n, i) <=> Marked(w, i)
  BY NormalGood
<1>3. DOMAIN w.records \subseteq Idx
  BY DEF IsSet, Idx
<1>4. QED
  BY <1>1, <1>2, <1>3 DEF GoodSet, Points, ZeroWhole

LEMMA RebuiltGood ==
  ASSUME NEW records, NEW anchors, NEW w, w = WorkSet(records, anchors),
         IsSet(w), Refs(anchors) \subseteq DOMAIN records,
         NEW n, n = Rebuilt(records, anchors)
  PROVE  /\ GoodSet(n)
         /\ (\A i \in Refs(anchors) : records[i] = 0 => In(w, i, 0)) => ZeroWhole(n)
<1>1. PICK r, v : r = Only(records, Refs(anchors)) /\ v = WorkSet(r, anchors)
  OBVIOUS
<1>2. /\ w.records = records /\ w.anchors = anchors /\ v.records = r /\ v.anchors = anchors
      /\ DOMAIN r = Refs(anchors) /\ \A i \in DOMAIN r : r[i] = records[i]
  <2>1. w.records = records /\ w.anchors = anchors /\ v.records = r /\ v.anchors = anchors
    BY <1>1, WorkSetFields
  <2>2. DOMAIN r = Refs(anchors) /\ \A i \in DOMAIN r : r[i] = records[i]
    BY <1>1, OnlyFacts
  <2>3. QED
    BY <2>1, <2>2
<1>3. IsSet(v)
  BY <1>2 DEF IsSet
<1>4. \A i \in Idx : i \in DOMAIN v.records <=> Marked(v, i)
  <2>1. Refs(v.anchors) = {i \in Idx : Marked(v, i)}
    BY <1>3, RefsMarked
  <2>2. QED
    BY <1>2, <2>1
<1>5. n = Normalized(v)
  BY <1>1 DEF Rebuilt, FromParts
<1>6. (\A i \in Refs(anchors) : records[i] = 0 => In(w, i, 0)) => ZeroWhole(v)
  BY <1>2 DEF ZeroWhole, In
<1>7. QED
  BY <1>3, <1>4, <1>5, <1>6, NormalizedGood

LEMMA ExcludeGood ==
  ASSUME NEW w, IsSet(w), NEW I, \A i \in DOMAIN w.records : OneWay(w, i),
         \A i \in Idx : i \notin I => (i \in DOMAIN w.records <=> Marked(w, i)),
         NEW n, n = Exclude(w, I)
  PROVE  /\ GoodSet(n) /\ \A i \in DOMAIN n.records : n.records[i] = w.records[i]
         /\ DOMAIN n.records = DOMAIN w.records \ I
         /\ \A i \in Idx, s \in Num : In(n, i, s) <=> In(w, i, s) /\ i \notin I
<1>1. /\ n.records = Only(w.records, DOMAIN w.records \ I)
      /\ n.anchors = {a \in w.anchors : a[1] \notin I}
  BY DEF Exclude, WorkSet
<1>2. /\ DOMAIN n.records = DOMAIN w.records \ I
      /\ \A i \in DOMAIN n.records : n.records[i] = w.records[i]
  <2>1. PICK r : r = Only(w.records, DOMAIN w.records \ I)
    OBVIOUS
  <2>2. DOMAIN r = DOMAIN w.records \ I /\ \A i \in DOMAIN r : r[i] = w.records[i]
    BY <2>1 DEF Only
  <2>3. QED
    BY <1>1, <2>1, <2>2
<1>3. ASSUME NEW i \in Idx, NEW s \in Num PROVE In(n, i, s) <=> In(w, i, s) /\ i \notin I
  <2>1. <<i, s>>[1] = i
    OBVIOUS
  <2>2. QED
    BY <1>1, <2>1 DEF In
<1>5. IsSet(n)
  BY <1>1, <1>2 DEF IsSet
<1>6. \A i \in DOMAIN n.records : OneWay(n, i)
  <2> SUFFICES ASSUME NEW i \in DOMAIN n.records PROVE OneWay(n, i)
    OBVIOUS
  <2>1. i \in Idx /\ w.records[i] \in Num /\ OneWay(w, i) /\ n.records[i] = w.records[i]
    BY <1>2 DEF IsSet, Idx, Num
  <2>2. \A s \in Num : In(n, i, s) => In(w, i, s)
    BY <1>3, <2>1
  <2>3. 0 \in Num /\ 1..w.records[i] \subseteq Num
    BY <2>1, SizesAssumption DEF Num
  <2>4. QED
    BY <2>1, <2>2, <2>3 DEF OneWay
<1>7. \A i \in Idx : i \in DOMAIN n.records <=> Marked(n, i)
  BY <1>2, <1>3 DEF Marked
<1>8. QED
  BY <1>2, <1>3, <1>5, <1>6, <1>7 DEF GoodSet, Points

\* Records read by the browser: their parts are counted.
Counted(records) == \A i \in DOMAIN records : i \in Idx /\ records[i] \in Num

LEMMA IncludeWholeGood ==
  ASSUME NEW w, GoodSet(w), NEW new, Counted(new), NEW n, n = IncludeWhole(w, new)
  PROVE  GoodSet(n)
<1>1. PICK x : x = Exclude(w, DOMAIN new)
  OBVIOUS
<1>2. /\ GoodSet(x)
      /\ \A i \in Idx, s \in Num : In(x, i, s) <=> In(w, i, s) /\ i \notin DOMAIN new
  BY <1>1, ExcludeGood DEF GoodSet, Points
<1>3. /\ n.records = Over(new, w.records)
      /\ n.anchors = x.anchors \cup Anchors(DOMAIN new, {Whole})
  BY <1>1 DEF IncludeWhole, WorkSet
<1>4. /\ DOMAIN n.records = DOMAIN new \cup DOMAIN w.records
      /\ \A i \in DOMAIN n.records :
           n.records[i] = IF i \in DOMAIN new THEN new[i] ELSE w.records[i]
  <2>1. PICK r : r = Over(new, w.records)
    OBVIOUS
  <2>2. /\ DOMAIN r = DOMAIN new \cup DOMAIN w.records
        /\ \A i \in DOMAIN r : r[i] = IF i \in DOMAIN new THEN new[i] ELSE w.records[i]
    BY <2>1 DEF Over
  <2>3. QED
    BY <1>3, <2>1, <2>2
<1>5. 0 \in Num
  BY SizesAssumption DEF Num
<1>6. ASSUME NEW i \in Idx, NEW s \in Num
      PROVE  In(n, i, s) <=> IF i \in DOMAIN new THEN s = 0 ELSE In(w, i, s)
  BY <1>2, <1>3 DEF In, Anchors, Whole
<1>7. IsSet(w) /\ Points(w) /\ IsSet(x)
  BY <1>2 DEF GoodSet
<1>8. IsSet(n)
  <2>1. Anchors(DOMAIN new, {Whole}) \subseteq Idx \X Num
    BY <1>5 DEF Anchors, Whole, Counted
  <2>2. QED
    BY <1>3, <1>4, <1>7, <2>1 DEF IsSet, Counted, Idx, Num
<1>9. \A i \in DOMAIN n.records : OneWay(n, i)
  <2> SUFFICES ASSUME NEW i \in DOMAIN n.records PROVE OneWay(n, i)
    OBVIOUS
  <2>1. i \in Idx /\ n.records[i] \in Num
    BY <1>8 DEF IsSet, Idx, Num
  <2>2. 1..n.records[i] \subseteq Num
    BY <2>1, SizesAssumption DEF Num
  <2>3. CASE i \in DOMAIN new
    <3>1. n.records[i] > 0 => 1 \in 1..n.records[i] /\ 1 \in Num
      BY <2>1, <2>2 DEF Num
    <3>2. QED
      BY <1>6, <2>1, <2>3, <3>1 DEF OneWay
  <2>4. CASE i \notin DOMAIN new
    <3>1. OneWay(w, i) /\ n.records[i] = w.records[i]
      BY <1>4, <1>7, <2>4 DEF Points
    <3>2. \A s \in Num : In(n, i, s) <=> In(w, i, s)
      BY <1>6, <2>1, <2>4
    <3>3. QED
      BY <1>5, <2>2, <3>1, <3>2 DEF OneWay
  <2>5. QED
    BY <2>3, <2>4
<1>10. \A i \in Idx : i \in DOMAIN n.records <=> Marked(n, i)
  BY <1>4, <1>5, <1>6, <1>7 DEF Points, Marked
<1>11. QED
  BY <1>8, <1>9, <1>10 DEF GoodSet, Points

LEMMA ToggleRecordsGood ==
  ASSUME NEW w, GoodSet(w), NEW new, Counted(new), NEW n, n = ToggleRecords(w, new)
  PROVE  GoodSet(n)
<1>1. n = Exclude(w, DOMAIN new) \/ n = IncludeWhole(w, new)
  BY DEF ToggleRecords
<1>2. CASE n = Exclude(w, DOMAIN new)
  BY <1>2, ExcludeGood DEF GoodSet, Points
<1>3. CASE n = IncludeWhole(w, new)
  BY <1>3, IncludeWholeGood
<1>4. QED
  BY <1>1, <1>2, <1>3

\* What the user sees as marked.
Cov(w, i, s) == In(w, i, s) \/ In(w, i, 0)

LEMMA NormalCovers ==
  ASSUME NEW w, IsSet(w), NEW n, n = Normalized(w), NEW i \in Idx, NEW s \in 1..MaxBlocks,
         ~Complete(w, i) \/ s <= w.records[i]
  PROVE  Cov(n, i, s) <=> Cov(w, i, s)
<1>1. /\ In(n, i, 0) <=> In(w, i, 0) \/ Complete(w, i)
      /\ In(n, i, s) <=> In(w, i, s) /\ ~In(w, i, 0) /\ ~Complete(w, i)
  BY NormalPoints
<1>2. Complete(w, i) => In(w, i, s)
  <2>1. Complete(w, i) => w.records[i] \in Int /\ s \in 1..w.records[i]
    BY DEF Complete, IsSet
  <2>2. QED
    BY <2>1 DEF Complete
<1>3. QED
  BY <1>1, <1>2 DEF Cov

LEMMA NotComplete ==
  ASSUME NEW w, NEW i \in DOMAIN w.records, OneWay(w, i)
  PROVE  ~Complete(w, i)
BY DEF OneWay, Complete

\* A record's marks and parts are the same in both.
SameAt(v, w, i) ==
  /\ i \in DOMAIN v.records <=> i \in DOMAIN w.records
  /\ i \in DOMAIN v.records => v.records[i] = w.records[i]
  /\ \A s \in Num : In(v, i, s) <=> In(w, i, s)

LEMMA SameKept ==
  ASSUME NEW w, GoodSet(w), NEW x, IsSet(x), NEW j \in Idx, SameAt(x, w, j),
         NEW n, n = Normalized(x)
  PROVE  /\ j \in DOMAIN x.records <=> Marked(x, j)
         /\ \A s \in 1..MaxBlocks : Cov(n, j, s) <=> Cov(w, j, s)
<1>1. IsSet(w) /\ Points(w)
  BY DEF GoodSet
<1>2. 0 \in Num /\ 1..MaxBlocks \subseteq Num
  BY SizesAssumption DEF Num
<1>3. Marked(x, j) <=> Marked(w, j)
  BY DEF Marked, SameAt
<1>4. j \in DOMAIN x.records <=> Marked(x, j)
  BY <1>1, <1>3 DEF Points, SameAt
<1>5. ~Complete(x, j)
  <2> SUFFICES ASSUME Complete(x, j) PROVE FALSE
    OBVIOUS
  <2>1. /\ j \in DOMAIN w.records /\ w.records[j] = x.records[j] /\ w.records[j] > 0
        /\ w.records[j] \in Num
    BY <1>1 DEF Complete, SameAt, IsSet, Num
  <2>2. 1..w.records[j] \subseteq Num
    BY <2>1, SizesAssumption DEF Num
  <2>3. PICK s \in 1..w.records[j] : ~In(w, j, s)
    BY <1>1, <2>1 DEF Points, OneWay
  <2>4. In(x, j, s)
    BY <2>1, <2>3 DEF Complete
  <2>5. QED
    BY <2>2, <2>3, <2>4 DEF SameAt
<1>6. \A s \in 1..MaxBlocks : Cov(n, j, s) <=> Cov(x, j, s)
  BY <1>5, NormalCovers
<1>7. \A s \in 1..MaxBlocks : Cov(x, j, s) <=> Cov(w, j, s)
  BY <1>2 DEF Cov, SameAt
<1>8. QED
  BY <1>4, <1>6, <1>7

\* include_parts
LEMMA IncludeGood ==
  ASSUME NEW w, GoodSet(w), NEW i \in Idx, NEW n \in Num, NEW ps \in SUBSET (1..n), ps # {},
         NEW v, v = IncludeParts(w, i, n, ps)
  PROVE  /\ GoodSet(v)
         /\ (i \in DOMAIN w.records => w.records[i] = n) =>
              \A s \in 1..n : Cov(v, i, s) <=> Cov(w, i, s) \/ s \in ps
         /\ \A j \in Idx \ {i} : \A s \in 1..MaxBlocks : Cov(v, j, s) <=> Cov(w, j, s)
<1>1. PICK x : x = WorkSet(Over(w.records, Record(i, n)), w.anchors \cup Anchors({i}, ps))
  OBVIOUS
<1>2. v = Normalized(x)
  BY <1>1 DEF IncludeParts
<1>3. /\ x.records = Over(w.records, Record(i, n))
      /\ x.anchors = w.anchors \cup Anchors({i}, ps)
  BY <1>1, WorkSetFields
<1>4. /\ DOMAIN x.records = DOMAIN w.records \cup {i}
      /\ \A j \in DOMAIN w.records : x.records[j] = w.records[j]
      /\ i \notin DOMAIN w.records => x.records[i] = n
  BY <1>3 DEF Over, Record
<1>5. IsSet(w) /\ Points(w) /\ 0 \in Num /\ 1..n \subseteq 1..MaxBlocks /\ 1..n \subseteq Num
  BY SizesAssumption DEF GoodSet, Num
<1>6. \A j \in Idx, s \in Num : In(x, j, s) <=> In(w, j, s) \/ (j = i /\ s \in ps)
  BY <1>3 DEF In, Anchors
<1>7. IsSet(x)
  <2>1. Anchors({i}, ps) \subseteq Idx \X Num
    BY <1>5 DEF Anchors
  <2>2. QED
    BY <1>3, <1>4, <1>5, <2>1 DEF IsSet, Idx, Num
<1>8. ASSUME NEW j \in Idx \ {i} PROVE SameAt(x, w, j)
  BY <1>4, <1>6 DEF SameAt
<1>9. i \in DOMAIN x.records /\ Marked(x, i)
  BY <1>4, <1>5, <1>6 DEF Marked
<1>10. \A j \in Idx : j \in DOMAIN x.records <=> Marked(x, j)
  BY <1>2, <1>7, <1>8, <1>9, SameKept
<1>11. GoodSet(v)
  BY <1>2, <1>7, <1>10, NormalizedGood
<1>12. \A j \in Idx \ {i} : \A s \in 1..MaxBlocks : Cov(v, j, s) <=> Cov(w, j, s)
  BY <1>2, <1>7, <1>8, SameKept
<1>13. ASSUME i \in DOMAIN w.records => w.records[i] = n, NEW s \in 1..n
       PROVE  Cov(v, i, s) <=> Cov(w, i, s) \/ s \in ps
  <2>1. x.records[i] = n /\ s <= n /\ s \in 1..MaxBlocks /\ s \in Num /\ 0 \notin ps
    BY <1>4, <1>5, <1>13
  <2>2. Cov(v, i, s) <=> Cov(x, i, s)
    BY <1>2, <1>7, <2>1, NormalCovers
  <2>3. Cov(x, i, s) <=> Cov(w, i, s) \/ s \in ps
    BY <1>5, <1>6, <2>1 DEF Cov
  <2>4. QED
    BY <2>2, <2>3
<1>14. QED
  BY <1>11, <1>12, <1>13

\* A part key takes marks back: what toggle_parts does then.
Rest(w, i, n, ps) ==
  Normalized(WorkSet(w.records, {a \in w.anchors : a[1] # i} \cup Remaining(w, i, n, ps)))

Back(w, i, n, ps) ==
  IF i \in Refs(Rest(w, i, n, ps).anchors) THEN Rest(w, i, n, ps)
  ELSE Exclude(Rest(w, i, n, ps), {i})

LEMMA TakenBack ==
  ASSUME NEW w, GoodSet(w), NEW i \in DOMAIN w.records, NEW n \in Num, NEW ps \in SUBSET (1..n),
         NEW v, v = Back(w, i, n, ps)
  PROVE  /\ GoodSet(v)
         /\ w.records[i] = n =>
              \A s \in 1..n : Cov(v, i, s) <=> s \notin ps /\ Cov(w, i, s)
         /\ \A j \in Idx \ {i} : \A s \in 1..MaxBlocks : Cov(v, j, s) <=> Cov(w, j, s)
<1>1. PICK others, left : others = {a \in w.anchors : a[1] # i} /\ left = Remaining(w, i, n, ps)
  OBVIOUS
<1>2. PICK x, rest : x = WorkSet(w.records, others \cup left) /\ rest = Rest(w, i, n, ps)
  OBVIOUS
<1>3. rest = Normalized(x) /\ x.records = w.records /\ x.anchors = others \cup left
  <2>1. rest = Normalized(x)
    BY <1>1, <1>2 DEF Rest
  <2>2. QED
    BY <1>2, <2>1, WorkSetFields
<1>4. /\ IsSet(w) /\ Points(w) /\ 0 \in Num /\ 1..MaxBlocks \subseteq Num
      /\ 1..n \subseteq 1..MaxBlocks /\ 1..n \subseteq Num /\ i \in Idx
  BY SizesAssumption DEF GoodSet, Num, IsSet, Idx
<1>5. \A j \in Idx, s \in Num : <<j, s>> \in others <=> In(w, j, s) /\ j # i
  <2> SUFFICES ASSUME NEW j \in Idx, NEW s \in Num
               PROVE  <<j, s>> \in others <=> In(w, j, s) /\ j # i
    OBVIOUS
  <2>1. <<j, s>>[1] = j
    OBVIOUS
  <2>2. QED
    BY <1>1, <2>1 DEF In
<1>6. /\ left \subseteq Idx \X Num
      /\ \A j \in Idx, s \in Num : <<j, s>> \in left <=>
           j = i /\ IF In(w, i, 0) THEN s \in (1..n) \ ps ELSE In(w, i, s) /\ s \notin ps
  <2>1. CASE In(w, i, 0)
    <3>1. left = {i} \X ((1..n) \ ps)
      BY <1>1, <2>1 DEF Remaining, WholeIn, In, Whole, Anchors
    <3>2. QED
      BY <1>4, <2>1, <3>1
  <2>2. CASE ~In(w, i, 0)
    <3>1. left = {a \in w.anchors : a[1] = i /\ a[2] \notin ps}
      BY <1>1, <2>2 DEF Remaining, WholeIn, In, Whole
    <3>2. ASSUME NEW j \in Idx, NEW s \in Num
          PROVE  <<j, s>> \in left <=> In(w, j, s) /\ j = i /\ s \notin ps
      <4>1. <<j, s>>[1] = j /\ <<j, s>>[2] = s
        OBVIOUS
      <4>2. QED
        BY <3>1, <4>1 DEF In
    <3>3. left \subseteq Idx \X Num
      BY <1>4, <3>1 DEF IsSet, Idx, Num
    <3>4. QED
      BY <2>2, <3>2, <3>3
  <2>3. QED
    BY <2>1, <2>2
<1>7. \A j \in Idx, s \in Num : In(x, j, s) <=>
        IF j # i THEN In(w, j, s)
        ELSE IF In(w, i, 0) THEN s \in (1..n) \ ps ELSE In(w, i, s) /\ s \notin ps
  BY <1>3, <1>5, <1>6 DEF In
<1>8. IsSet(x)
  <2>1. others \subseteq w.anchors
    BY <1>1
  <2>2. QED
    BY <1>3, <1>4, <1>6, <2>1 DEF IsSet, Idx, Num
<1>9. ASSUME NEW j \in Idx \ {i}
      PROVE  /\ j \in DOMAIN x.records <=> Marked(x, j)
             /\ \A s \in 1..MaxBlocks : Cov(rest, j, s) <=> Cov(w, j, s)
  <2>1. SameAt(x, w, j)
    BY <1>3, <1>7 DEF SameAt
  <2>2. QED
    BY <1>3, <1>8, <2>1, SameKept
<1>10. \A j \in Idx : Marked(x, j) => j \in DOMAIN x.records
  BY <1>3, <1>9
<1>11. /\ \A j \in DOMAIN rest.records : OneWay(rest, j)
       /\ \A j \in Idx : Marked(rest, j) <=> Marked(x, j)
  BY <1>3, <1>8, <1>10, NormalGood
<1>12. IsSet(rest) /\ rest.records = w.records
  BY <1>3, <1>8, NormalPoints
<1>13. i \in Refs(rest.anchors) <=> Marked(rest, i)
  BY <1>4, <1>12, RefsMarked
<1>14. \A j \in Idx : j # i => (j \in DOMAIN rest.records <=> Marked(rest, j))
  BY <1>3, <1>9, <1>11, <1>12
<1>15. ASSUME w.records[i] = n, NEW s \in 1..n
       PROVE  Cov(rest, i, s) <=> s \notin ps /\ Cov(w, i, s)
  <2>1. x.records[i] = n /\ s <= n /\ s \in 1..MaxBlocks /\ s \in Num /\ 0 \notin 1..n
    BY <1>3, <1>4, <1>15
  <2>2. Cov(rest, i, s) <=> Cov(x, i, s)
    BY <1>3, <1>4, <1>8, <2>1, NormalCovers
  <2>3. Cov(x, i, s) <=> s \notin ps /\ Cov(w, i, s)
    BY <1>4, <1>7, <2>1 DEF Cov
  <2>4. QED
    BY <2>2, <2>3
<1>16. CASE Marked(rest, i)
  <2>1. v = rest
    BY <1>2, <1>13, <1>16 DEF Back
  <2>2. GoodSet(v)
    BY <1>3, <1>11, <1>12, <1>14, <1>16, <2>1 DEF GoodSet, Points
  <2>3. QED
    BY <1>9, <1>15, <2>1, <2>2
<1>17. CASE ~Marked(rest, i)
  <2>1. v = Exclude(rest, {i})
    BY <1>2, <1>13, <1>17 DEF Back
  <2>2. /\ GoodSet(v)
        /\ \A j \in Idx, s \in Num : In(v, j, s) <=> In(rest, j, s) /\ j \notin {i}
    <3>1. \A j \in Idx : j \notin {i} => (j \in DOMAIN rest.records <=> Marked(rest, j))
      BY <1>14
    <3>2. QED
      BY <1>11, <1>12, <2>1, <3>1, ExcludeGood
  <2>3. \A s \in Num : ~In(rest, i, s)
    BY <1>17 DEF Marked
  <2>4. \A j \in Idx, s \in 1..MaxBlocks : Cov(v, j, s) <=> Cov(rest, j, s)
    BY <1>4, <2>2, <2>3 DEF Cov
  <2>5. QED
    BY <1>4, <1>9, <1>15, <2>2, <2>4
<1>18. QED
  BY <1>16, <1>17

LEMMA ToggleMeans ==
  ASSUME NEW w, GoodSet(w), NEW i \in Idx, NEW n \in Num, NEW ps \in SUBSET (1..n), ps # {},
         NEW v, v = ToggleParts(w, i, n, ps)
  PROVE  /\ GoodSet(v)
         /\ (i \in DOMAIN w.records => w.records[i] = n) =>
              \A s \in 1..n : Cov(v, i, s) <=>
                IF \A p \in ps : Cov(w, i, p) THEN Cov(w, i, s) /\ s \notin ps
                                              ELSE Cov(w, i, s) \/ s \in ps
         /\ \A j \in Idx \ {i} : \A s \in 1..MaxBlocks : Cov(v, j, s) <=> Cov(w, j, s)
<1>1. (\A s \in ps : Covers(w, <<i, s>>)) <=> \A s \in ps : Cov(w, i, s)
  <2>1. \A s \in ps : <<i, s>>[1] = i
    OBVIOUS
  <2>2. QED
    BY <2>1 DEF Covers, WholeIn, Whole, Cov, In
<1>2. CASE \A s \in ps : Cov(w, i, s)
  <2>1. v = ToggleParts(w, i, n, ps) /\ ps # {} /\ \A s \in ps : Covers(w, <<i, s>>)
    BY <1>1, <1>2
  <2>2. v = Back(w, i, n, ps)
    BY <2>1 DEF ToggleParts, Back, Rest
  <2>3. i \in DOMAIN w.records
    <3>1. 1..n \subseteq Num /\ 0 \in Num
      BY SizesAssumption DEF Num
    <3>2. Marked(w, i)
      BY <1>2, <3>1 DEF Marked, Cov
    <3>3. QED
      BY <3>2 DEF GoodSet, Points
  <2>4. QED
    BY <1>2, <2>2, <2>3, TakenBack
<1>3. CASE ~(\A s \in ps : Cov(w, i, s))
  <2>1. v = IncludeParts(w, i, n, ps)
    BY <1>1, <1>3 DEF ToggleParts
  <2>2. QED
    BY <1>3, <2>1, IncludeGood
<1>4. QED
  BY <1>2, <1>3

LEMMA MaterializedGood ==
  ASSUME NEW w, GoodSet(w), ZeroWhole(w), NEW now, Counted(now),
         w = [records |-> w.records, anchors |-> w.anchors],
         NEW v, v = Materialized(w, now)
  PROVE  GoodSet(v) /\ ZeroWhole(v)
<1>1. /\ v.anchors = w.anchors /\ DOMAIN v.records = DOMAIN w.records
      /\ \A i \in DOMAIN w.records : v.records[i] =
           IF w.records[i] = 0 /\ i \in DOMAIN now THEN now[i] ELSE w.records[i]
  BY DEF Materialized
<1>2. IsSet(w) /\ Points(w)
  BY DEF GoodSet
<1>3. IsSet(v)
  BY <1>1, <1>2 DEF IsSet, Counted, Num
<1>4. \A i \in Idx, s \in Num : In(v, i, s) <=> In(w, i, s)
  BY <1>1 DEF In
<1>5. 0 \in Num /\ DOMAIN w.records \subseteq Idx
  BY <1>2, SizesAssumption DEF Num, IsSet, Idx
<1>6. \A i \in DOMAIN v.records : OneWay(v, i)
  <2> SUFFICES ASSUME NEW i \in DOMAIN v.records PROVE OneWay(v, i)
    OBVIOUS
  <2>1. i \in Idx /\ OneWay(w, i) /\ v.records[i] \in Num
    BY <1>1, <1>2, <1>3, <1>5 DEF Points, IsSet, Num
  <2>2. 1..v.records[i] \subseteq Num
    BY <2>1, SizesAssumption DEF Num
  <2>3. CASE w.records[i] = 0
    <3>1. In(w, i, 0)
      BY <1>1, <2>3 DEF ZeroWhole
    <3>2. v.records[i] > 0 => 1 \in 1..v.records[i] /\ 1 \in Num
      BY <2>1, <2>2 DEF Num
    <3>3. QED
      BY <1>4, <2>1, <2>2, <3>1, <3>2 DEF OneWay
  <2>4. CASE w.records[i] # 0
    <3>1. v.records[i] = w.records[i]
      BY <1>1, <2>4
    <3>2. QED
      BY <1>4, <1>5, <2>1, <2>2, <3>1 DEF OneWay
  <2>5. QED
    BY <2>3, <2>4
<1>7. \A i \in Idx : i \in DOMAIN v.records <=> Marked(v, i)
  BY <1>1, <1>2, <1>4 DEF Points, Marked
<1>8. ZeroWhole(v)
  BY <1>1, <1>4, <1>5 DEF ZeroWhole
<1>9. QED
  BY <1>3, <1>6, <1>7, <1>8 DEF GoodSet, Points

\* Some anchors of a set: a slice, or what a drop leaves.
LEMMA SubsetGood ==
  ASSUME NEW w, GoodSet(w), ZeroWhole(w), NEW anchors \in SUBSET w.anchors,
         NEW n, n = Rebuilt(w.records, anchors)
  PROVE  GoodSet(n) /\ ZeroWhole(n)
<1>1. PICK x : x = WorkSet(w.records, anchors)
  OBVIOUS
<1>2. x.records = w.records /\ x.anchors = anchors
  BY <1>1, WorkSetFields
<1>3. IsSet(w) /\ Points(w)
  BY DEF GoodSet
<1>4. IsSet(x)
  BY <1>2, <1>3 DEF IsSet
<1>5. Refs(anchors) \subseteq DOMAIN w.records
  <2>1. Refs(anchors) = {i \in Idx : Marked(x, i)}
    BY <1>2, <1>4, RefsMarked
  <2>2. \A i \in Idx : Marked(x, i) => Marked(w, i)
    BY <1>2 DEF Marked, In
  <2>3. QED
    BY <1>3, <2>1, <2>2 DEF Points
<1>6. ASSUME NEW i \in Refs(anchors), w.records[i] = 0 PROVE In(x, i, 0)
  <2>1. i \in DOMAIN w.records /\ In(w, i, 0) /\ OneWay(w, i)
    BY <1>3, <1>5, <1>6 DEF ZeroWhole, Points
  <2>2. i \in Idx /\ Marked(x, i)
    BY <1>2, <1>4, <1>6, RefsMarked
  <2>3. PICK s \in Num : In(x, i, s)
    BY <2>2 DEF Marked
  <2>4. In(w, i, s)
    BY <1>2, <2>3 DEF In
  <2>5. s = 0
    BY <2>1, <2>4 DEF OneWay
  <2>6. QED
    BY <2>3, <2>5
<1>7. QED
  BY <1>1, <1>4, <1>5, <1>6, RebuiltGood

LEMMA MergedGood ==
  ASSUME NEW base, GoodSet(base), ZeroWhole(base), NEW addition, GoodSet(addition),
         ZeroWhole(addition), NEW n, n = Merged(base, addition)
  PROVE  GoodSet(n) /\ ZeroWhole(n)
<1>1. PICK r, anchors : /\ r = Over(base.records, addition.records)
                        /\ anchors = base.anchors \cup addition.anchors
  OBVIOUS
<1>2. PICK x : x = WorkSet(r, anchors)
  OBVIOUS
<1>3. x.records = r /\ x.anchors = anchors /\ n = Rebuilt(r, anchors)
  BY <1>1, <1>2, WorkSetFields DEF Merged
<1>4. /\ DOMAIN r = DOMAIN base.records \cup DOMAIN addition.records
      /\ \A i \in DOMAIN r : r[i] = IF i \in DOMAIN base.records THEN base.records[i]
                                                                 ELSE addition.records[i]
  BY <1>1 DEF Over
<1>5. IsSet(base) /\ Points(base) /\ IsSet(addition) /\ Points(addition)
  BY DEF GoodSet
<1>6. IsSet(x)
  BY <1>1, <1>3, <1>4, <1>5 DEF IsSet
<1>7. \A i, s : In(x, i, s) <=> In(base, i, s) \/ In(addition, i, s)
  BY <1>1, <1>3 DEF In
<1>8. Refs(anchors) \subseteq DOMAIN r
  <2>1. Refs(anchors) = {i \in Idx : Marked(x, i)}
    BY <1>3, <1>6, RefsMarked
  <2>2. \A i \in Idx : Marked(x, i) => Marked(base, i) \/ Marked(addition, i)
    BY <1>7 DEF Marked
  <2>3. QED
    BY <1>4, <1>5, <2>1, <2>2 DEF Points
<1>9. ASSUME NEW i \in Refs(anchors), r[i] = 0 PROVE In(x, i, 0)
  <2>1. CASE i \in DOMAIN base.records
    BY <1>4, <1>7, <1>8, <1>9, <2>1 DEF ZeroWhole
  <2>2. CASE i \notin DOMAIN base.records
    BY <1>4, <1>7, <1>8, <1>9, <2>2 DEF ZeroWhole
  <2>3. QED
    BY <2>1, <2>2
<1>10. QED
  BY <1>2, <1>3, <1>6, <1>8, <1>9, RebuiltGood

\* A source that is turns, read without their parts.
LEMMA TurnsGood ==
  ASSUME NEW I \in SUBSET Idx, NEW n, n = FromParts([i \in I |-> 0], Anchors(I, {Whole}))
  PROVE  GoodSet(n) /\ ZeroWhole(n)
<1>1. PICK x : x = WorkSet([i \in I |-> 0], Anchors(I, {Whole}))
  OBVIOUS
<1>2. DOMAIN x.records = I /\ x.anchors = I \X {0} /\ \A i \in I : x.records[i] = 0
  BY <1>1, WorkSetFields DEF Anchors, Whole
<1>3. 0 \in Num
  BY SizesAssumption DEF Num
<1>4. IsSet(x)
  BY <1>2, <1>3 DEF IsSet, Idx, Num
<1>5. \A i \in Idx, s \in Num : In(x, i, s) <=> i \in I /\ s = 0
  BY <1>2 DEF In
<1>6. ZeroWhole(x) /\ \A i \in Idx : i \in DOMAIN x.records <=> Marked(x, i)
  BY <1>2, <1>3, <1>5 DEF ZeroWhole, Marked
<1>7. n = Normalized(x)
  BY <1>1 DEF FromParts
<1>8. QED
  BY <1>4, <1>6, <1>7, NormalizedGood

\* A source that is one part.
LEMMA PartGood ==
  ASSUME NEW i \in Idx, NEW m \in Num, NEW s \in 1..m,
         NEW n, n = FromParts(Record(i, m), {<<i, s>>})
  PROVE  GoodSet(n) /\ ZeroWhole(n)
<1>1. PICK x : x = WorkSet(Record(i, m), {<<i, s>>})
  OBVIOUS
<1>2. DOMAIN x.records = {i} /\ x.anchors = {<<i, s>>} /\ x.records[i] = m
  BY <1>1, WorkSetFields DEF Record
<1>3. s \in Num /\ m # 0
  BY SizesAssumption DEF Num
<1>4. IsSet(x)
  BY <1>2, <1>3 DEF IsSet, Idx, Num
<1>5. \A j \in Idx, t \in Num : In(x, j, t) <=> j = i /\ t = s
  BY <1>2 DEF In
<1>6. ZeroWhole(x) /\ \A j \in Idx : j \in DOMAIN x.records <=> Marked(x, j)
  BY <1>2, <1>3, <1>5 DEF ZeroWhole, Marked
<1>7. n = Normalized(x)
  BY <1>1 DEF FromParts
<1>8. QED
  BY <1>4, <1>6, <1>7, NormalizedGood

-----------------------------------------------------------------------------
(* Marks and variables.                                                    *)

Kept(w) == GoodSet(w) /\ ZeroWhole(w)

MemoryInv ==
  /\ LogInv
  /\ DOMAIN shown \subseteq DOMAIN log /\ Counted(shown)
  /\ GoodSet(selection)
  /\ saved # None => Kept(saved)

LEMMA NowCounts ==
  ASSUME LogInv
  PROVE  /\ Counted(Now) /\ DOMAIN Now = DOMAIN turns
         /\ DOMAIN turns \subseteq DOMAIN log /\ DOMAIN turns \subseteq Idx
<1>1. PICK R : R = TurnRanges(log)
  OBVIOUS
<1>2. /\ log \in Seq(Blocks) /\ DOMAIN log = 1..Len(log) /\ Len(log) \in Nat
      /\ turns = ChatTurns(log) /\ Len(log) <= MaxBlocks
  BY DEF LogInv
<1>3. DOMAIN turns \subseteq DOMAIN log /\ DOMAIN turns \subseteq Idx
  <2>1. DOMAIN turns \subseteq 1..Len(log)
    BY <1>1, <1>2, BlocksTyped, ChatFacts
  <2>2. QED
    BY <1>2, <2>1, SizesAssumption DEF Idx
<1>4. \A i \in DOMAIN turns : Len(turns[i]) \in Num
  <2> SUFFICES ASSUME NEW i \in DOMAIN turns PROVE Len(turns[i]) \in Num
    OBVIOUS
  <2>1. PICK u, e : u = R[i][1] /\ e = R[i][2]
    OBVIOUS
  <2>2. /\ u \in 1..Len(log) /\ e \in u..Len(log)
        /\ turns[i] \in Seq(PartType(Blocks)) /\ PartsInv(log, u, e, turns[i])
    BY <1>1, <1>2, <2>1, BlocksTyped, ChatFacts
  <2>3. Len(turns[i]) \in Nat /\ Len(turns[i]) <= e - u + 1
    BY <2>2 DEF PartsInv
  <2>4. QED
    BY <1>2, <2>2, <2>3, SizesAssumption DEF Num
<1>5. Counted(Now) /\ DOMAIN Now = DOMAIN turns
  BY <1>3, <1>4 DEF Now, Counted
<1>6. QED
  BY <1>3, <1>5

LEMMA AnswersKept ==
  ASSUME MemoryInv, NEW answer \in Answers
  PROVE  Kept(answer)
<1>1. /\ Counted(Now) /\ DOMAIN Now = DOMAIN turns /\ DOMAIN turns \subseteq Idx
  BY NowCounts DEF MemoryInv
<1>2. CASE \E I \in (SUBSET DOMAIN turns) \ {{}} :
             answer = FromParts([i \in I |-> 0], Anchors(I, {Whole}))
  BY <1>1, <1>2, TurnsGood DEF Kept
<1>3. CASE \E a \in {p \in (DOMAIN turns) \X (1..MaxBlocks) : p[2] <= Now[p[1]]} :
             answer = FromParts(Record(a[1], Now[a[1]]), {a})
  <2>1. PICK a \in (DOMAIN turns) \X (1..MaxBlocks) :
          /\ a[2] <= Now[a[1]]
          /\ answer = FromParts(Record(a[1], Now[a[1]]), {a})
    BY <1>3
  <2>2. PICK i, s, m : i = a[1] /\ s = a[2] /\ m = Now[i]
    OBVIOUS
  <2>3. i \in Idx /\ m \in Num /\ s \in 1..m /\ a = <<i, s>>
    BY <1>1, <2>1, <2>2 DEF Counted, Num
  <2>4. answer = FromParts(Record(i, m), {<<i, s>>})
    BY <2>1, <2>2, <2>3
  <2>5. QED
    BY <2>3, <2>4, PartGood DEF Kept
<1>4. CASE Readable /\ \E as \in (SUBSET saved.anchors) \ {{}} : answer = SelectAnchors(saved, as)
  <2>1. PICK as \in SUBSET saved.anchors : answer = Rebuilt(saved.records, as)
    BY <1>4 DEF SelectAnchors
  <2>2. Kept(saved)
    BY <1>4 DEF MemoryInv, Readable
  <2>3. QED
    BY <2>1, <2>2, SubsetGood DEF Kept
<1>5. QED
  BY <1>2, <1>3, <1>4 DEF Answers

LEMMA MemoryInit == Init => MemoryInv
<1> SUFFICES ASSUME Init PROVE MemoryInv
  OBVIOUS
<1>1. LogInv
  BY LogInit
<1>2. DOMAIN shown = {} /\ log = <<>> /\ DOMAIN log = {}
  BY DEF Init
<1>3. selection.records = <<>> /\ selection.anchors = {}
  BY WorkSetFields DEF Init, EmptySet
<1>4. GoodSet(selection)
  BY <1>3 DEF GoodSet, IsSet, Points, OneWay, Marked, In
<1>5. QED
  BY <1>1, <1>2, <1>4 DEF MemoryInv, Counted, Init

LEMMA MemoryNext == MemoryInv /\ [Next]_vars => MemoryInv'
<1> SUFFICES ASSUME MemoryInv, [Next]_vars PROVE MemoryInv'
  OBVIOUS
<1>1. LogInv'
  BY LogNext DEF MemoryInv
<1>2. ASSUME NEW b \in Blocks, Write(b) PROVE MemoryInv'
  <2>1. /\ shown' = shown /\ selection' = selection /\ saved' = saved
        /\ log' = Append(log, b) /\ log \in Seq(Blocks)
    BY <1>2 DEF Write, MemoryInv, LogInv
  <2>2. DOMAIN log \subseteq DOMAIN log'
    BY <2>1
  <2>3. QED
    BY <1>1, <2>1, <2>2 DEF MemoryInv, GoodSet, IsSet, Points, OneWay, Marked, In
<1>3. CASE Read
  <2>1. /\ shown' = Now /\ log' = log /\ selection' = selection /\ saved' = saved
    BY <1>3 DEF Read
  <2>2. DOMAIN Now \subseteq DOMAIN log /\ Counted(Now)
    BY NowCounts DEF MemoryInv
  <2>3. QED
    BY <1>1, <2>1, <2>2 DEF MemoryInv
<1>4. ASSUME NEW i \in DOMAIN shown, NEW ps \in (SUBSET (1..shown[i])) \ {{}}, ToggleBlock(i, ps)
      PROVE  MemoryInv'
  <2>1. /\ selection' = ToggleParts(selection, i, shown[i], ps)
        /\ shown' = shown /\ log' = log /\ saved' = saved
    BY <1>4 DEF ToggleBlock
  <2>2. i \in Idx /\ shown[i] \in Num /\ ps \in SUBSET (1..shown[i]) /\ ps # {}
    <3>1. i \in Idx /\ shown[i] \in Num
      BY <1>4 DEF MemoryInv, Counted
    <3>2. QED
      BY <1>4, <3>1
  <2>3. GoodSet(selection')
    BY <2>1, <2>2, ToggleMeans DEF MemoryInv
  <2>4. QED
    BY <1>1, <2>1, <2>3 DEF MemoryInv
<1>5. ASSUME NEW I \in SUBSET DOMAIN shown, ToggleRows(I) PROVE MemoryInv'
  <2>1. /\ selection' = ToggleRecords(selection, Only(shown, I))
        /\ shown' = shown /\ log' = log /\ saved' = saved
    BY <1>5 DEF ToggleRows
  <2>2. PICK new : new = Only(shown, I)
    OBVIOUS
  <2>3. DOMAIN new \subseteq DOMAIN shown /\ \A i \in DOMAIN new : new[i] = shown[i]
    BY <2>2 DEF Only
  <2>4. Counted(new)
    BY <2>3 DEF MemoryInv, Counted
  <2>5. GoodSet(selection')
    BY <2>1, <2>2, <2>4, ToggleRecordsGood DEF MemoryInv
  <2>6. QED
    BY <1>1, <2>1, <2>5 DEF MemoryInv
<1>6. CASE Vars
  <2>1. log' = log /\ shown' = shown /\ selection' = selection
    BY <1>6 DEF Vars, VarSet, VarMerge, VarDrop, VarRm
  <2>2. saved' # None => Kept(saved')
    <3>1. CASE VarSet
      <4>1. PICK answer \in Answers :
              saved' = Materialized(Rebuilt(answer.records, answer.anchors), Now)
        BY <3>1 DEF VarSet
      <4>2. PICK w : w = Rebuilt(answer.records, answer.anchors)
        OBVIOUS
      <4>3. Kept(w)
        BY <4>2, AnswersKept, SubsetGood DEF Kept
      <4>4. w = [records |-> w.records, anchors |-> w.anchors]
        BY <4>2 DEF Rebuilt, FromParts, Normalized, WorkSet
      <4>5. Counted(Now)
        BY NowCounts DEF MemoryInv
      <4>6. QED
        BY <4>1, <4>2, <4>3, <4>4, <4>5, MaterializedGood DEF Kept
    <3>2. CASE VarMerge
      <4>1. PICK first, second \in Answers :
              saved' = Merged(Merged(saved, first), second) /\ saved # None
        BY <3>2 DEF VarMerge, Readable
      <4>2. PICK w : w = Merged(saved, first)
        OBVIOUS
      <4>3. Kept(w)
        BY <4>1, <4>2, AnswersKept, MergedGood DEF Kept, MemoryInv
      <4>4. QED
        BY <4>1, <4>2, <4>3, AnswersKept, MergedGood DEF Kept
    <3>3. CASE VarDrop
      <4>1. PICK answer \in Answers :
              saved' = Rebuilt(saved.records, saved.anchors \ answer.anchors) /\ saved # None
        BY <3>3 DEF VarDrop, Readable
      <4>2. Kept(saved) /\ saved.anchors \ answer.anchors \in SUBSET saved.anchors
        BY <4>1 DEF MemoryInv
      <4>3. QED
        BY <4>1, <4>2, SubsetGood DEF Kept
    <3>4. CASE VarRm
      BY <3>4 DEF VarRm
    <3>5. QED
      BY <1>6, <3>1, <3>2, <3>3, <3>4 DEF Vars
  <2>3. QED
    BY <1>1, <2>1, <2>2 DEF MemoryInv, GoodSet, IsSet, Points, OneWay, Marked, In
<1>7. CASE UNCHANGED vars
  BY <1>1, <1>7 DEF vars, MemoryInv, Kept
<1>8. QED
  BY <1>2, <1>3, <1>4, <1>5, <1>6, <1>7 DEF Next, Marks

(* The transcript is its blocks, and every set is canonical mark by mark.  *)
THEOREM MemoryInvariant == Spec => []MemoryInv
BY MemoryInit, MemoryNext, PTL DEF Spec

(* The parts of a turn are numbered from 1 in order, and every set, in     *)
(* memory or on disk, holds turns and parts the session has had.           *)
THEOREM MemoryTypes == Spec => []TypeOK
<1>1. MemoryInv => TypeOK
  <2> SUFFICES ASSUME MemoryInv PROVE TypeOK
    OBVIOUS
  <2>1. DOMAIN turns \subseteq DOMAIN log
    BY NowCounts DEF MemoryInv
  <2>2. ASSUME NEW i \in DOMAIN turns, NEW j \in DOMAIN turns[i] PROVE turns[i][j].seq = j
    <3>1. PICK R : R = TurnRanges(log)
      OBVIOUS
    <3>2. log \in Seq(Blocks) /\ turns = ChatTurns(log)
      BY DEF MemoryInv, LogInv
    <3>3. PartsInv(log, R[i][1], R[i][2], turns[i])
      BY <3>1, <3>2, BlocksTyped, ChatFacts
    <3>4. QED
      BY <3>3 DEF PartsInv, PartInv
  <2>3. QED
    BY <2>1, <2>2 DEF MemoryInv, LogInv, TypeOK, GoodSet, Kept
<1>2. QED
  BY <1>1, MemoryInvariant, PTL

(* However the marks and the variable came about, a WorkSet says each      *)
(* thing in one way.                                                       *)
THEOREM CanonicalCorrect == Spec => []Canonical
<1>1. MemoryInv => Canonical
  BY GoodIsCanonical DEF MemoryInv, Kept, Canonical
<1>2. QED
  BY <1>1, MemoryInvariant, PTL

(* A key on a block changes the marks of exactly its parts.                *)
THEOREM MarksCorrect == Spec => []MarksMeanParts
<1>1. MemoryInv => MarksMeanParts
  <2> SUFFICES ASSUME MemoryInv, NEW i \in DOMAIN shown,
                      NEW ps \in (SUBSET (1..shown[i])) \ {{}}, AsShown(i),
                      NEW before, before = Covered(selection, i),
                      NEW after, after = ToggleParts(selection, i, shown[i], ps)
               PROVE  /\ Covered(after, i) = IF ps \subseteq before THEN before \ ps
                                                                    ELSE before \cup ps
                      /\ \A j \in DOMAIN shown \ {i} : Covered(after, j) = Covered(selection, j)
    BY DEF MarksMeanParts
  <2>1. PICK n : n = shown[i]
    OBVIOUS
  <2>2. /\ i \in Idx /\ n \in Num /\ ps \in SUBSET (1..n) /\ ps # {} /\ GoodSet(selection)
        /\ (i \in DOMAIN selection.records => selection.records[i] = n)
    <3>1. i \in Idx /\ shown[i] \in Num /\ GoodSet(selection)
      BY DEF MemoryInv, Counted
    <3>2. ps \in SUBSET (1..shown[i]) /\ ps # {}
      OBVIOUS
    <3>3. QED
      BY <2>1, <3>1, <3>2 DEF AsShown
  <2>3. after = ToggleParts(selection, i, n, ps)
    BY <2>1
  <2>4. /\ \A s \in 1..n : Cov(after, i, s) <=>
             IF \A p \in ps : Cov(selection, i, p) THEN Cov(selection, i, s) /\ s \notin ps
                                                   ELSE Cov(selection, i, s) \/ s \in ps
        /\ \A j \in Idx \ {i} : \A s \in 1..MaxBlocks : Cov(after, j, s) <=> Cov(selection, j, s)
    BY <2>2, <2>3, ToggleMeans
  <2>5. \A w, j : Covered(w, j) = {s \in 1..shown[j] : Cov(w, j, s)}
    <3> SUFFICES ASSUME NEW w, NEW j, NEW s \in 1..shown[j]
                 PROVE  Covers(w, <<j, s>>) <=> Cov(w, j, s)
      BY DEF Covered
    <3>1. <<j, s>>[1] = j
      OBVIOUS
    <3>2. QED
      BY <3>1 DEF Covers, WholeIn, Whole, Cov, In
  <2>6. before = {s \in 1..n : Cov(selection, i, s)} /\ Covered(after, i) = {s \in 1..n : Cov(after, i, s)}
    BY <2>1, <2>5
  <2>7. (\A p \in ps : Cov(selection, i, p)) <=> ps \subseteq before
    BY <2>2, <2>6
  <2>8. Covered(after, i) = IF ps \subseteq before THEN before \ ps ELSE before \cup ps
    BY <2>2, <2>4, <2>6, <2>7
  <2>9. ASSUME NEW j \in DOMAIN shown \ {i} PROVE Covered(after, j) = Covered(selection, j)
    <3>1. j \in Idx \ {i} /\ 1..shown[j] \subseteq 1..MaxBlocks
      BY SizesAssumption DEF MemoryInv, Counted, Num
    <3>2. \A s \in 1..shown[j] : Cov(after, j, s) <=> Cov(selection, j, s)
      BY <2>4, <3>1
    <3>3. QED
      BY <2>5, <3>2
  <2>10. QED
    BY <2>8, <2>9
<1>2. QED
  BY <1>1, MemoryInvariant, PTL

=============================================================================
