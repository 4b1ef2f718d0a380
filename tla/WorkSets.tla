------------------------------ MODULE WorkSets ------------------------------
(***************************************************************************)
(* WorkSet: the selection that the browser, the commands and the MCP       *)
(* server share.  It holds records and anchors.  A record is known by its  *)
(* index and by how many parts it had when it was read (0 when loaded      *)
(* without its parts); an anchor is a record's index and a part's number,  *)
(* or Whole.  The order of anchors is left out.                            *)
(***************************************************************************)
EXTENDS Integers

Whole == 0

WorkSet(records, anchors) == [records |-> records, anchors |-> anchors]

EmptySet == WorkSet(<<>>, {})

WholeIn(w, i) == <<i, Whole>> \in w.anchors

\* contains: Whole covers every part of its record.
Covers(w, a) == a \in w.anchors \/ WholeIn(w, a[1])

Only(records, I) == [i \in DOMAIN records \cap I |-> records[i]]

\* The records of both; where both have one, that of the first.
Over(first, second) ==
  [i \in DOMAIN first \cup DOMAIN second |-> IF i \in DOMAIN first THEN first[i] ELSE second[i]]

Record(i, n) == [k \in {i} |-> n]

Refs(anchors) == {a[1] : a \in anchors}

Anchors(I, ps) == I \X ps

\* A slip: normalization only removes what Whole shadows.
Unshadowed(w) ==
  WorkSet(w.records, {a \in w.anchors : a[2] = Whole \/ ~WholeIn(w, a[1])})

\* normalize_anchors: Whole replaces its parts, and every part of a record
\* taken one by one becomes Whole.
Normalized(w) ==
  LET kept == {a \in w.anchors : a[2] = Whole \/ ~WholeIn(w, a[1])}
      complete == {i \in DOMAIN w.records :
                     w.records[i] > 0 /\ Anchors({i}, 1..w.records[i]) \subseteq kept}
  IN WorkSet(w.records,
             {a \in kept : a[1] \notin complete} \cup Anchors(complete, {Whole}))

\* from_parts, and records_for_anchors before it.
FromParts(records, anchors) == Normalized(WorkSet(records, anchors))

Rebuilt(records, anchors) == FromParts(Only(records, Refs(anchors)), anchors)

SelectAnchors(w, anchors) == Rebuilt(w.records, anchors)

\* validate, which every load runs.
Valid(w) ==
  \A a \in w.anchors :
    /\ a[2] # Whole => ~WholeIn(w, a[1])
    /\ a[1] \in DOMAIN w.records
    /\ a[2] <= w.records[a[1]] \/ a[2] = Whole

-----------------------------------------------------------------------------
(* apply_target, one operator per target and action.                       *)

\* exclude
Exclude(w, I) ==
  WorkSet(Only(w.records, DOMAIN w.records \ I), {a \in w.anchors : a[1] \notin I})

\* include_whole, for the records read as new.
IncludeWhole(w, new) ==
  WorkSet(Over(new, w.records),
          Exclude(w, DOMAIN new).anchors \cup Anchors(DOMAIN new, {Whole}))

\* include_parts: a record the set already holds stays as it was read.
IncludeParts(w, i, n, ps) ==
  IF ps = {} THEN w
  ELSE Normalized(WorkSet(Over(w.records, Record(i, n)), w.anchors \cup Anchors({i}, ps)))

\* toggle_whole, toggle_records: only a selection that is already whole in
\* every record is taken back.
ToggleRecords(w, new) ==
  IF \A i \in DOMAIN new : WholeIn(w, i) THEN Exclude(w, DOMAIN new)
                                         ELSE IncludeWhole(w, new)

\* A slip: a part is taken back by its anchor, which Whole does not hold.
RemainingMarks(w, i, n, ps) == {a \in w.anchors : a[1] = i /\ a[2] \notin ps}

\* What stays of a record when the marked parts ps are taken back: the other
\* marks or, of a record marked whole, every other part it is shown with.
Remaining(w, i, n, ps) ==
  IF WholeIn(w, i) THEN Anchors({i}, (1..n) \ ps)
  ELSE {a \in w.anchors : a[1] = i /\ a[2] \notin ps}

\* toggle_parts
ToggleParts(w, i, n, ps) ==
  IF ps # {} /\ \A s \in ps : Covers(w, <<i, s>>)
  THEN LET rest == Normalized(WorkSet(w.records,
                     {a \in w.anchors : a[1] # i} \cup Remaining(w, i, n, ps)))
       IN IF i \in Refs(rest.anchors) THEN rest ELSE Exclude(rest, {i})
  ELSE IncludeParts(w, i, n, ps)

\* materialize_parts: the parts of a record loaded without them, as the
\* session's file has them now.
Materialized(w, now) ==
  [w EXCEPT !.records =
     [i \in DOMAIN @ |-> IF @[i] = 0 /\ i \in DOMAIN now THEN now[i] ELSE @[i]]]

=============================================================================
