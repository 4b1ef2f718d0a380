------------------------------- MODULE Memory -------------------------------
(***************************************************************************)
(* Marks and variables over a session that is still being written.  An     *)
(* agent appends blocks to its file; the browser marks turns and parts of  *)
(* the records it last read; `sivtr var` keeps a named WorkSet on disk,    *)
(* with the records as they were when it was saved.                        *)
(***************************************************************************)
EXTENDS Transcript, WorkSets

CONSTANTS
  Blocks,     \* the blocks an agent may append
  MaxBlocks,  \* bound on the length of the session's file
  MaxEdits,   \* bound on marks and on changes of the variable
  None        \* no such variable

ASSUME SizesAssumption == MaxBlocks \in Nat /\ MaxEdits \in Nat
ASSUME BlocksAssumption == \A b \in Blocks : b.kind \in Kinds  \* AgentBlockKind

VARIABLES
  log,        \* the session's file: its blocks so far
  turns,      \* the records a query finds in it, by index
  shown,      \* the browser's records: how many parts each turn was read with
  selection,  \* the browser's WorkSet
  saved,      \* the variable's file
  edits       \* marks and changes left

vars == <<log, turns, shown, selection, saved, edits>>

\* How many parts each record has now.
Now == [i \in DOMAIN turns |-> Len(turns[i])]

\* Every action a user takes uses one edit.
Edit == edits > 0 /\ edits' = edits - 1

-----------------------------------------------------------------------------
Write(b) ==
  /\ Len(log) < MaxBlocks
  /\ log' = Append(log, b)
  /\ turns' = ChatTurns(log')
  /\ UNCHANGED <<shown, selection, saved, edits>>

\* The browser's loader reads the session again.
Read ==
  /\ shown # Now
  /\ shown' = Now
  /\ UNCHANGED <<log, turns, selection, saved, edits>>

\* A block of the content pane, or a range of its blocks: parts of one turn.
ToggleBlock(i, ps) ==
  /\ Edit
  /\ selection' = ToggleParts(selection, i, shown[i], ps)
  /\ UNCHANGED <<log, turns, shown, saved>>

\* One row or many: a turn, a range of turns, a session, a source.
ToggleRows(I) ==
  /\ Edit
  /\ selection' = ToggleRecords(selection, Only(shown, I))
  /\ UNCHANGED <<log, turns, shown, saved>>

-----------------------------------------------------------------------------
(* var.rs and workset/: the named variable.                                *)

Readable == saved # None /\ Valid(saved)

\* What a source resolves to: turns are loaded without their parts, a part
\* with its whole turn, a slice of the variable from its file.
Answers ==
  {FromParts([i \in I |-> 0], Anchors(I, {Whole})) : I \in (SUBSET DOMAIN turns) \ {{}}}
  \cup {FromParts(Record(a[1], Now[a[1]]), {a}) :
          a \in {p \in (DOMAIN turns) \X (1..MaxBlocks) : p[2] <= Now[p[1]]}}
  \cup IF Readable
       THEN {SelectAnchors(saved, as) : as \in (SUBSET saved.anchors) \ {{}}}
       ELSE {}

\* merge_sets: a record the variable already holds stays as it was saved.
Merged(base, addition) ==
  Rebuilt(Over(base.records, addition.records), base.anchors \cup addition.anchors)

\* `sivtr var set`, a search or a publication saved under a name: save_as.
VarSet ==
  /\ Edit
  /\ \E answer \in Answers :
       LET set == Materialized(Rebuilt(answer.records, answer.anchors), Now)
       IN Valid(set) /\ saved' = set
  /\ UNCHANGED <<log, turns, shown, selection>>

\* `sivtr var merge` with one or two sources.
VarMerge ==
  /\ Edit /\ Readable
  /\ \E first, second \in Answers : saved' = Merged(Merged(saved, first), second)
  /\ UNCHANGED <<log, turns, shown, selection>>

\* `sivtr var drop`: the anchors the source names, letter by letter (several
\* sources are as many drops).
VarDrop ==
  /\ Edit /\ Readable
  /\ \E answer \in Answers : saved' = Rebuilt(saved.records, saved.anchors \ answer.anchors)
  /\ UNCHANGED <<log, turns, shown, selection>>

\* `sivtr var rm` and `sivtr var cleanup` delete the file, read or not.
VarRm ==
  /\ Edit /\ saved # None
  /\ saved' = None
  /\ UNCHANGED <<log, turns, shown, selection>>

-----------------------------------------------------------------------------
Init ==
  /\ log = <<>>
  /\ turns = <<>>
  /\ shown = <<>>
  /\ selection = EmptySet
  /\ saved = None
  /\ edits = MaxEdits

Marks ==
  \/ \E i \in DOMAIN shown : \E ps \in (SUBSET (1..shown[i])) \ {{}} : ToggleBlock(i, ps)
  \/ \E I \in (SUBSET DOMAIN shown) \ {{}} : ToggleRows(I)

Vars == VarSet \/ VarMerge \/ VarDrop \/ VarRm

Next == (\E b \in Blocks : Write(b)) \/ Read \/ Marks \/ Vars

Spec == Init /\ [][Next]_vars

-----------------------------------------------------------------------------
IsSet(w) ==
  /\ DOMAIN w.records \subseteq 1..MaxBlocks
  /\ \A i \in DOMAIN w.records : w.records[i] \in 0..MaxBlocks
  /\ w.anchors \subseteq (1..MaxBlocks) \X (0..MaxBlocks)

\* Every set in memory or on disk holds turns and parts the session has had, and
\* the parts of a turn are numbered from 1 in order, as the anchors assume.
TypeOK ==
  /\ log \in Seq(Blocks)
  /\ DOMAIN turns \subseteq DOMAIN log
  /\ \A i \in DOMAIN turns : \A j \in DOMAIN turns[i] : turns[i][j].seq = j
  /\ DOMAIN shown \subseteq DOMAIN log
  /\ IsSet(selection) /\ (saved # None => IsSet(saved))

\* However the marks and the variable came about, a WorkSet says each thing in
\* one way: no part beside its Whole, no record whose parts are all marked one
\* by one, and exactly the records its anchors name.
CanonicalSet(w) ==
  /\ \A i \in DOMAIN w.records :
       LET marks == {a[2] : a \in {b \in w.anchors : b[1] = i}}
       IN /\ Whole \in marks => marks = {Whole}
          /\ w.records[i] > 0 => ~(1..w.records[i] \subseteq marks)
  /\ Refs(w.anchors) = DOMAIN w.records

Canonical == CanonicalSet(selection) /\ (saved # None => CanonicalSet(saved))

\* A key on a block changes the marks of exactly its parts: it takes them back
\* when all are marked and marks them otherwise, also when the turn was marked
\* whole, as long as the selection holds the turn as it is shown.
Covered(w, i) == {s \in 1..shown[i] : Covers(w, <<i, s>>)}

AsShown(i) == i \in DOMAIN selection.records => selection.records[i] = shown[i]

MarksMeanParts ==
  \A i \in DOMAIN shown : \A ps \in (SUBSET (1..shown[i])) \ {{}} :
    AsShown(i) =>
      LET before == Covered(selection, i)
          after == ToggleParts(selection, i, shown[i], ps)
      IN /\ Covered(after, i) = IF ps \subseteq before THEN before \ ps ELSE before \cup ps
         /\ \A j \in DOMAIN shown \ {i} : Covered(after, j) = Covered(selection, j)

\* The turns the one-pass scan finds are the ones the code's tests describe: from
\* a user block to the next, with an answer in it; and the last also when
\* nothing but tools and thinking follow it.
TurnsByDefinition ==
  LET users == {n \in DOMAIN log : log[n].kind = "user"}
      next(s) == Min({n \in users : n > s} \cup {Len(log) + 1}) - 1
      answered(s) == \E n \in s..next(s) : log[n].kind = "assistant"
      counts(s) == answered(s) \/ (next(s) = Len(log) /\ OnlyStructureAfter(log, s))
      ranges == TurnRanges(log)
  IN /\ {ranges[k] : k \in DOMAIN ranges} = {<<s, next(s)>> : s \in {n \in users : counts(n)}}
     /\ \A k, m \in DOMAIN ranges : k < m => ranges[k][2] < ranges[m][1]

\* push_agent_part's promise: pairing is never guessed.  A call or output
\* without an id is a part of its own, and an action holds the events of one id.
NoGuessedPairing ==
  \A i \in DOMAIN turns : \A j \in DOMAIN turns[i] :
    LET part == turns[i][j]
        events == ({part.input} \ {0}) \cup {part.output[k] : k \in DOMAIN part.output}
    IN /\ \E id \in {NoId} \cup {b.id : b \in Blocks} : \A n \in events : log[n].id = id
       /\ (\E n \in events : log[n].id = NoId) => Cardinality(events) = 1

\* A reference to a part of an answered turn keeps its meaning while the agent
\* goes on: the turn keeps its index, the part its number, kind and input, and
\* its outputs only grow.
Extends(later, part) ==
  /\ later.kind = part.kind /\ later.id = part.id
  /\ part.input # 0 => later.input = part.input
  /\ IsPrefix(part.output, later.output)

TurnsKeep(before, after) ==
  \A i \in DOMAIN before :
    Says(before[i], "assistant") =>
      /\ i \in DOMAIN after
      /\ \A j \in DOMAIN before[i] :
           j \in DOMAIN after[i] /\ Extends(after[i][j], before[i][j])

RefsKeep == [][TurnsKeep(turns, turns')]_turns

\* workset/mod.rs says validate rejects a malformed set before it hits disk: a
\* variable that was saved can be loaded.
SavedIsReadable == saved # None => Valid(saved)

=============================================================================
