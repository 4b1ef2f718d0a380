----------------------------- MODULE Transcript -----------------------------
(***************************************************************************)
(* How an agent's session file becomes records: the blocks a provider      *)
(* parses are cut into chat turns, and the blocks of a turn become typed   *)
(* parts, a tool's call and its outputs joined into one action by their    *)
(* id.  A block is its kind, the id the provider gave it and whether its   *)
(* text is blank; its text is known by its position.                       *)
(***************************************************************************)
EXTENDS Integers, SequencesExt

CONSTANT NoId  \* a block or a part without an id

Kinds == {"user", "assistant", "call", "output", "thinking"}

\* AgentBlockKind::is_structure: not dialogue.
IsStructure(kind) == kind \notin {"user", "assistant"}

OnlyStructureAfter(blocks, i) ==
  \A j \in (i + 1)..Len(blocks) : IsStructure(blocks[j].kind)

-----------------------------------------------------------------------------
(* record/model.rs: chat_turn_ranges.                                      *)

\* A slip: the answer is not taken back.
ScanBlockOn(blocks, scan, i) ==
  [ranges |-> IF blocks[i].kind = "user" /\ scan.answered
              THEN Append(scan.ranges, <<scan.start, i - 1>>) ELSE scan.ranges,
   start |-> IF blocks[i].kind = "user" THEN i ELSE scan.start,
   answered |-> scan.answered \/ (scan.start # 0 /\ blocks[i].kind = "assistant")]

\* One pass over the blocks: a user block closes the turn before it if that
\* one was answered, and opens the next.
ScanBlock(blocks, scan, i) ==
  IF blocks[i].kind = "user"
  THEN [ranges |-> IF scan.answered THEN Append(scan.ranges, <<scan.start, i - 1>>)
                                    ELSE scan.ranges,
        start |-> i, answered |-> FALSE]
  ELSE [scan EXCEPT !.answered =
          @ \/ (scan.start # 0 /\ blocks[i].kind = "assistant")]

\* The scan after each block; the 0th is before the first.
Scan(blocks) ==
  LET scan[i \in 0..Len(blocks)] ==
        IF i = 0 THEN [ranges |-> <<>>, start |-> 0, answered |-> FALSE]
        ELSE ScanBlock(blocks, scan[i - 1], i)
  IN scan

\* The last turn counts when answered, or when only structure follows it.
TurnRanges(blocks) ==
  LET scan == Scan(blocks)[Len(blocks)]
      open == scan.start # 0 /\ (scan.answered \/ OnlyStructureAfter(blocks, scan.start))
  IN IF open THEN Append(scan.ranges, <<scan.start, Len(blocks)>>) ELSE scan.ranges

-----------------------------------------------------------------------------
(* agent_parts and push_agent_part.                                        *)

\* A slip: calls and outputs without an id are paired.
ActionIdGuessed(parts, block) ==
  IF block.id = NoId THEN <<"action", 1>> ELSE <<"call", block.id>>

\* A block without an id makes an action of its own, named by its place.
ActionId(parts, block) ==
  IF block.id = NoId THEN <<"action", Len(parts) + 1>> ELSE <<"call", block.id>>

\* The event a block stands for, not numbered yet; n is the position of its text.
EventOf(parts, block, n) ==
  CASE block.kind = "call" ->
         [seq |-> 0, kind |-> "action", id |-> ActionId(parts, block), input |-> n,
          output |-> <<>>, status |-> "in_progress"]
    [] block.kind = "output" ->
         [seq |-> 0, kind |-> "action", id |-> ActionId(parts, block), input |-> 0,
          output |-> <<n>>, status |-> "completed"]
    [] OTHER ->
         [seq |-> 0, kind |-> block.kind, id |-> NoId, input |-> n, output |-> <<>>,
          status |-> "none"]

\* A slip: the event replaces what the action held.
FoldOver(part, event) ==
  [part EXCEPT !.input = event.input, !.output = event.output,
               !.status = event.status]

\* An event of an action already there folds into the last part of its id:
\* the input stays, outputs append, the status is the event's.
Fold(part, event) ==
  [part EXCEPT !.input = IF @ = 0 THEN event.input ELSE @,
               !.output = @ \o event.output,
               !.status = event.status]

\* A slip: parts are numbered by their block.
BlockSeq(parts, n) == n

\* A part is numbered by its place in the turn.
PartSeq(parts, n) == Len(parts) + 1

PushPart(parts, event, n) ==
  LET same == {j \in DOMAIN parts : parts[j].kind = "action" /\ parts[j].id = event.id}
  IN IF event.kind # "action" \/ same = {}
     THEN Append(parts, [event EXCEPT !.seq = PartSeq(parts, n)])
     ELSE [parts EXCEPT ![Max(same)] = Fold(@, event)]

\* The parts of the blocks from first on, after each; blank blocks are skipped.
Parts(blocks, first) ==
  LET parts[n \in (first - 1)..Len(blocks)] ==
        IF n < first THEN <<>>
        ELSE IF blocks[n].blank THEN parts[n - 1]
        ELSE LET before == parts[n - 1] IN PushPart(before, EventOf(before, blocks[n], n), n)
  IN parts

AgentParts(blocks, first, last) == Parts(blocks, first)[last]

-----------------------------------------------------------------------------
(* WorkRecord::chat_turns.                                                 *)

Says(parts, role) == \E j \in DOMAIN parts : parts[j].kind = role

\* chat_turn: a turn nobody said anything in is no record, nor one without an
\* answer whose last user block is followed by more than structure.
Recorded(blocks, range, parts) ==
  LET turn == SubSeq(blocks, range[1], range[2])
      users == {j \in DOMAIN turn : turn[j].kind = "user"}
  IN \/ Says(parts, "assistant")
     \/ Says(parts, "user") /\ users # {} /\ OnlyStructureAfter(turn, Max(users))

\* The records by their index, which counts the ranges before the filter.
ChatTurns(blocks) ==
  LET ranges == TurnRanges(blocks)
      parts == [i \in DOMAIN ranges |-> AgentParts(blocks, ranges[i][1], ranges[i][2])]
  IN [i \in {j \in DOMAIN ranges : Recorded(blocks, ranges[j], parts[j])} |-> parts[i]]

=============================================================================
