------------------------- MODULE SessionLoaderProofs -------------------------
(* The loader of the session column, for any number of sources, sessions,   *)
(* body threads, generations, faults and inputs.                            *)
EXTENDS SessionLoader, FiniteSetTheorems, TLAPS

Bodies == Body \cup {None}
Rows == UNION {[listed -> Bodies] : listed \in SUBSET Sessions}

-----------------------------------------------------------------------------
(* The pane of one source.                                                 *)

LEMMA RowsRead ==
  ASSUME NEW p \in Pane
  PROVE  /\ Listed(p) \in SUBSET Sessions
         /\ \A k \in Listed(p) : p.rows[k] \in Bodies
BY DEF Pane, Listed, Rows, Bodies

LEMMA PaneEmpty == EmptyPane \in Pane
<1>1. [k \in {} |-> None] \in Rows
  BY DEF Rows, Bodies
<1>2. QED
  BY <1>1, SizesAssumption DEF EmptyPane, Pane, Rows, Bodies

LEMMA GenNext ==
  ASSUME NEW p \in Pane
  PROVE  NextGen(p) \in 1 .. MaxGen
<1>1. p.gen \in Nat /\ MaxGen \in Nat /\ MaxGen > 0
  BY SizesAssumption DEF Pane
<1>2. p.gen % MaxGen \in 0 .. (MaxGen - 1)
  BY <1>1
<1>3. QED
  BY <1>1, <1>2 DEF NextGen

LEMMA PaneBegin ==
  ASSUME NEW p \in Pane
  PROVE  /\ BeginMeta(p) \in Pane /\ BeginMeta(p).rows = p.rows
         /\ BeginMeta(p).inflight /\ BeginMeta(p).gen = NextGen(p)
<1>1. PICK phase \in {"idle", "booting", "ready", "failed"} :
        BeginMeta(p) = [p EXCEPT !.gen = NextGen(p), !.inflight = TRUE, !.phase = phase]
  BY DEF BeginMeta, Pane
<1>2. NextGen(p) \in 0 .. MaxGen
  BY GenNext, SizesAssumption
<1>3. QED
  BY <1>1, <1>2 DEF Pane

LEMMA PaneListing ==
  ASSUME NEW p \in Pane, NEW answer \in SUBSET Sessions,
         NEW q \in {[p EXCEPT !.inflight = FALSE], ApplyMetaOk(p, answer), ApplyMetaErr(p)}
  PROVE  /\ q \in Pane /\ q.inflight = FALSE
         /\ \A k \in Listed(q) : \/ q.rows[k] = None /\ k \notin Listed(p)
                                 \/ k \in Listed(p) /\ q.rows[k] = p.rows[k]
<1>1. CASE q = [p EXCEPT !.inflight = FALSE]
  BY <1>1 DEF Pane, Listed
<1>2. CASE q = ApplyMetaOk(p, answer)
  <2> DEFINE rows == [k \in answer |-> IF k \in Listed(p) THEN p.rows[k] ELSE None]
             full == Cardinality(answer) < Page
  <2>1. q = [p EXCEPT !.rows = rows, !.exhausted = full, !.inflight = FALSE, !.phase = "ready"]
    BY <1>2 DEF ApplyMetaOk
  <2>2. full \in BOOLEAN /\ rows \in Rows /\ DOMAIN rows = answer
    BY RowsRead DEF Rows, Bodies
  <2> HIDE DEF full
  <2>3. q \in Pane /\ q.inflight = FALSE /\ q.rows = rows
    <3> HIDE DEF rows
    <3> QED
      BY <2>1, <2>2 DEF Pane, Rows, Bodies
  <2>4. QED
    BY <2>2, <2>3 DEF Listed
<1>3. CASE q = ApplyMetaErr(p)
  BY <1>3 DEF ApplyMetaErr, Pane, Listed
<1>4. QED
  BY <1>1, <1>2, <1>3

LEMMA PaneBody ==
  ASSUME NEW p \in Pane, NEW k \in Sessions, NEW body \in Bodies
  PROVE  LET q == ApplyBody(p, k, body)
         IN /\ q \in Pane /\ q.inflight = p.inflight /\ q.gen = p.gen
            /\ Listed(q) = Listed(p)
            /\ \A l \in Listed(p) : q.rows[l] = IF l = k THEN body ELSE p.rows[l]
<1>1. CASE k \notin Listed(p)
  BY <1>1 DEF ApplyBody
<1>2. CASE k \in Listed(p)
  <2>1. [p.rows EXCEPT ![k] = body] \in Rows
    BY <1>2 DEF Pane, Listed, Rows, Bodies
  <2>2. QED
    BY <1>2, <2>1 DEF ApplyBody, Pane, Listed, Rows, Bodies
<1>3. QED
  BY <1>1, <1>2

LEMMA PaneClear ==
  ASSUME NEW p \in Pane, NEW keep
  PROVE  LET q == ClearBodiesOutside(p, keep)
         IN /\ q \in Pane /\ q.inflight = p.inflight /\ q.gen = p.gen
            /\ Listed(q) = Listed(p)
            /\ \A k \in Listed(p) : q.rows[k] = IF k \in keep THEN p.rows[k] ELSE None
<1>1. [k \in Listed(p) |-> IF k \in keep THEN p.rows[k] ELSE None] \in Rows
  BY RowsRead DEF Rows, Bodies
<1>2. QED
  BY <1>1 DEF ClearBodiesOutside, Pane, Listed, Rows, Bodies

-----------------------------------------------------------------------------
(* The invariant.                                                          *)
KeyOf(j) == <<j.source, j.session>>
Reports(j) == j.kind = "body" /\ j.live

ListingComes ==
  \A s \in Sources : pane[s].inflight =>
    \E j \in jobs : j.kind = "meta" /\ j.source = s /\ j.live /\ j.gen = pane[s].gen

BodiesCome == inflight = {KeyOf(j) : j \in {i \in jobs : Reports(i)}}

(* A key is under way once: its answer ends the wait for it. *)
OneReport == \A i, j \in jobs : Reports(i) /\ Reports(j) /\ KeyOf(i) = KeyOf(j) => i = j

(* A body that will be shown was read in the current selection. *)
Answers == \A j \in jobs : Reports(j) => j.answer \in {None, selection[j.source]}

(* A pane without its source in scope shows nothing once the frame is drawn, *)
(* and nothing of it will land: selecting the source again starts anew.      *)
LeftBehind ==
  frame = "idle" => \A s \in Sources \ scope :
    /\ \A k \in Listed(pane[s]) : pane[s].rows[k] = None
    /\ \A j \in jobs : Reports(j) => j.source # s

Shown ==
  \A s \in Sources : \A k \in Listed(pane[s]) : pane[s].rows[k] \in {None, selection[s]}

Budget == \A s \in Sources : selection[s] + inputs <= MaxInputs

Coming == ListingComes /\ BodiesCome /\ OneReport
Current == Answers /\ LeftBehind /\ Shown
LoaderInv == TypeOK /\ Budget /\ Coming /\ Current

LEMMA JobTypes ==
  ASSUME TypeOK, NEW j \in jobs
  PROVE  /\ j \in Job /\ j.source \in Sources /\ j.live \in BOOLEAN /\ j.done \in Outcome
         /\ j.kind \in {"meta", "body"}
         /\ j.kind = "meta" => j.gen \in 1 .. MaxGen /\ j.answer \in SUBSET Sessions
         /\ j.kind = "body" => j.session \in Sessions /\ j.answer \in Bodies
                               /\ KeyOf(j) \in Keys
BY DEF TypeOK, Job, Bodies, KeyOf, Keys

LEMMA PaneTypes == TypeOK => \A s \in Sources : pane[s] \in Pane
BY DEF TypeOK

LEMMA KeepAnswer ==
  ASSUME LoaderInv, NEW j \in jobs, Answer(j)
  PROVE  LoaderInv'
<1>0. TypeOK
  BY DEF LoaderInv
<1>1. UNCHANGED <<archive, scope, pane, inflight, wanted, failed, frame, inputs, selection>>
  BY DEF Answer
<1>2. PICK i :
        /\ jobs' = (jobs \ {j}) \cup {i} /\ i \in Job
        /\ i.kind = j.kind /\ i.source = j.source /\ i.live = j.live
        /\ j.kind = "meta" => i.gen = j.gen
        /\ j.kind = "body" => i.session = j.session /\ KeyOf(i) = KeyOf(j)
        /\ Reports(j) => i.answer \in {None, selection[j.source]}
  <2>1. CASE j.kind = "body"
    <3>1. j \in [kind : {"body"}, source : Sources, session : Sessions, done : Outcome,
                 answer : Bodies, live : BOOLEAN]
      BY <1>0, <2>1 DEF TypeOK, Job, Bodies
    <3>2. selection[j.source] \in Bodies
      BY <1>0, <3>1 DEF TypeOK, Bodies
    <3>3. ASSUME NEW body \in {None, selection[j.source]},
                 jobs' = (jobs \ {j}) \cup {[j EXCEPT !.done = "ok", !.answer = body]}
          PROVE  \E i : /\ jobs' = (jobs \ {j}) \cup {i} /\ i \in Job
                        /\ i.kind = "body" /\ i.source = j.source /\ i.live = j.live
                        /\ i.session = j.session
                        /\ i.answer = body
      <4> DEFINE i == [j EXCEPT !.done = "ok", !.answer = body]
      <4>1. /\ i \in Job /\ i.kind = "body" /\ i.source = j.source /\ i.live = j.live
            /\ i.session = j.session /\ i.answer = body
        BY <3>1, <3>2, <3>3 DEF Job, Bodies, Outcome
      <4>2. QED
        BY <3>3, <4>1
    <3>4. ASSUME jobs' = (jobs \ {j}) \cup {[j EXCEPT !.done = "err"]}
          PROVE  \E i : /\ jobs' = (jobs \ {j}) \cup {i} /\ i \in Job
                        /\ i.kind = "body" /\ i.source = j.source /\ i.live = j.live
                        /\ i.session = j.session
                        /\ i.answer = j.answer
      <4> DEFINE i == [j EXCEPT !.done = "err"]
      <4>1. /\ i \in Job /\ i.kind = "body" /\ i.source = j.source /\ i.live = j.live
            /\ i.session = j.session /\ i.answer = j.answer
        BY <3>1 DEF Job, Bodies, Outcome
      <4>2. QED
        BY <3>4, <4>1
    <3>5. \/ \E body \in {None, selection[j.source]} :
               jobs' = (jobs \ {j}) \cup {[j EXCEPT !.done = "ok", !.answer = body]}
          \/ jobs' = (jobs \ {j}) \cup {[j EXCEPT !.done = "err"]}
      BY <2>1 DEF Answer
    <3>6. Reports(j) => j.answer \in {None, selection[j.source]}
      BY DEF LoaderInv, Current, Answers
    <3>7. PICK i : /\ jobs' = (jobs \ {j}) \cup {i} /\ i \in Job
                   /\ i.kind = "body" /\ i.source = j.source /\ i.live = j.live
                   /\ i.session = j.session
                   /\ i.answer \in {None, selection[j.source], j.answer}
      BY <3>3, <3>4, <3>5
    <3>8. Reports(j) => i.answer \in {None, selection[j.source]}
      BY <3>6, <3>7
    <3>9. KeyOf(i) = KeyOf(j)
      BY <3>7 DEF KeyOf
    <3>10. QED
      BY <2>1, <3>7, <3>8, <3>9
  <2>2. CASE j.kind = "meta"
    <3>1. j \in [kind : {"meta"}, source : Sources, gen : 1..MaxGen, done : Outcome,
                 answer : SUBSET Sessions, live : BOOLEAN]
      BY <1>0, <2>2 DEF TypeOK, Job
    <3>2. archive[j.source] \in SUBSET Sessions
      BY <1>0, <3>1 DEF TypeOK
    <3>3. PICK i : /\ jobs' = (jobs \ {j}) \cup {i}
                   /\ \/ i = [j EXCEPT !.done = "err"]
                      \/ \E page \in SUBSET archive[j.source] :
                           i = [j EXCEPT !.done = "ok", !.answer = page]
      BY <2>2 DEF Answer
    <3>4. i \in Job /\ i.kind = "meta" /\ i.source = j.source /\ i.live = j.live /\ i.gen = j.gen
      BY <3>1, <3>2, <3>3 DEF Job, Outcome
    <3>5. QED
      BY <2>2, <3>3, <3>4 DEF Reports
  <2>3. QED
    BY <1>0, <2>1, <2>2, JobTypes
<1>3. TypeOK'
  <2>1. faults' \in 0 .. MaxFaults
    <3>1. faults' = faults \/ (faults > 0 /\ faults' = faults - 1)
      BY Zenon DEF Answer
    <3>2. QED
      BY <1>0, <3>1, SizesAssumption DEF TypeOK
  <2>2. jobs' \subseteq Job
    BY <1>0, <1>2 DEF TypeOK
  <2>3. QED
    BY <1>0, <1>1, <2>1, <2>2 DEF TypeOK
<1>4. Budget'
  BY <1>1 DEF LoaderInv, Budget
<1>5. ListingComes'
  BY <1>1, <1>2 DEF LoaderInv, Coming, ListingComes
<1>6. BodiesCome' /\ OneReport'
  BY <1>1, <1>2 DEF LoaderInv, Coming, BodiesCome, OneReport, Reports, KeyOf
<1>7. Answers' /\ LeftBehind' /\ Shown'
  BY <1>1, <1>2 DEF LoaderInv, Current, Answers, LeftBehind, Shown, Reports
<1>8. QED
  BY <1>3, <1>4, <1>5, <1>6, <1>7 DEF LoaderInv, Coming, Current

LEMMA KeepApplyListing ==
  ASSUME LoaderInv, NEW j \in jobs, ApplyListing(j)
  PROVE  LoaderInv'
<1> DEFINE s == j.source
           q == ApplyMeta(pane[s], j.gen, j.done = "ok", j.answer)
<1>0. TypeOK /\ j.kind = "meta"
  BY DEF LoaderInv, ApplyListing
<1>1. /\ UNCHANGED <<archive, scope, inflight, wanted, failed, faults, inputs, selection>>
      /\ jobs' = jobs \ {j} /\ pane' = [pane EXCEPT ![s] = q]
      /\ frame' \in {"same", "moved"}
  BY <1>0 DEF ApplyListing, TypeOK
<1>2. s \in Sources /\ pane[s] \in Pane /\ j.answer \in SUBSET Sessions
  BY <1>0, JobTypes DEF TypeOK
<1>3. /\ q \in Pane /\ q.inflight = FALSE
      /\ \A k \in Listed(q) : \/ q.rows[k] = None /\ k \notin Listed(pane[s])
                              \/ k \in Listed(pane[s]) /\ q.rows[k] = pane[s].rows[k]
  <2>1. q \in {[pane[s] EXCEPT !.inflight = FALSE], ApplyMetaOk(pane[s], j.answer),
              ApplyMetaErr(pane[s])}
    BY DEF ApplyMeta
  <2> HIDE DEF q
  <2>2. QED
    BY <1>2, <2>1, PaneListing
<1> HIDE DEF s, q
<1>4. \A x \in Sources : pane'[x] = IF x = s THEN q ELSE pane[x]
  BY <1>0, <1>1 DEF TypeOK
<1>5. TypeOK'
  BY <1>0, <1>1, <1>2, <1>3 DEF TypeOK
<1>6. Budget'
  BY <1>1 DEF LoaderInv, Budget
<1>7. ListingComes'
  BY <1>1, <1>3, <1>4 DEF LoaderInv, Coming, ListingComes, s
<1>8. BodiesCome' /\ OneReport'
  BY <1>0, <1>1 DEF LoaderInv, Coming, BodiesCome, OneReport, Reports, KeyOf
<1>9. Answers' /\ LeftBehind'
  BY <1>1 DEF LoaderInv, Current, Answers, LeftBehind, Reports
<1>10. Shown'
  BY <1>1, <1>2, <1>3, <1>4 DEF LoaderInv, Current, Shown
<1>11. QED
  BY <1>5, <1>6, <1>7, <1>8, <1>9, <1>10 DEF LoaderInv, Coming, Current

LEMMA KeepApplyRecords ==
  ASSUME LoaderInv, NEW j \in jobs, ApplyRecords(j)
  PROVE  LoaderInv'
<1> DEFINE s == j.source
           k == j.session
           found == j.done = "ok" /\ j.answer # None /\ k \in Listed(pane[s])
           q == ApplyBody(pane[s], k, j.answer)
<1>0. TypeOK /\ j.kind = "body"
  BY DEF LoaderInv, ApplyRecords
<1>1. /\ s \in Sources /\ k \in Sessions /\ j.answer \in Bodies /\ <<s, k>> \in Keys
      /\ pane[s] \in Pane /\ j.live \in BOOLEAN
  BY <1>0, JobTypes DEF TypeOK, Keys
<1>2. /\ UNCHANGED <<archive, scope, wanted, faults, inputs, selection>>
      /\ jobs' = jobs \ {j} /\ frame' \in {"same", "moved"}
      /\ inflight' = IF j.live THEN inflight \ {<<s, k>>} ELSE inflight
      /\ failed' \in {failed, failed \cup {<<s, k>>}}
      /\ \/ pane' = pane
         \/ j.live /\ j.answer # None /\ pane' = [pane EXCEPT ![s] = q]
  BY <1>0 DEF ApplyRecords, TypeOK, Lands
<1>3. /\ q \in Pane /\ q.inflight = pane[s].inflight /\ q.gen = pane[s].gen
      /\ Listed(q) = Listed(pane[s])
      /\ \A l \in Listed(pane[s]) : q.rows[l] = IF l = k THEN j.answer ELSE pane[s].rows[l]
  BY <1>1, PaneBody
<1>4. KeyOf(j) = <<s, k>>
  BY DEF KeyOf
<1>5. Reports(j) <=> j.live
  BY <1>0 DEF Reports
<1>6. j.live => j.answer \in {None, selection[s]}
  BY <1>5 DEF LoaderInv, Current, Answers
<1> HIDE DEF s, k, found, q
<1>7. \A x \in Sources : pane'[x] = pane[x] \/ (x = s /\ j.live /\ pane'[x] = q)
  BY <1>0, <1>1, <1>2 DEF TypeOK
<1>8. TypeOK'
  <2>1. pane' \in [Sources -> Pane]
    BY <1>0, <1>2, <1>3 DEF TypeOK
  <2>2. inflight' \subseteq inflight /\ failed' \subseteq Keys /\ inflight' \subseteq Keys
    BY <1>0, <1>1, <1>2 DEF TypeOK
  <2>3. IsFiniteSet(inflight)
    <3>1. IsFiniteSet(Sources)
      BY FS_Interval, SizesAssumption DEF Sources
    <3>2. IsFiniteSet(Keys)
      BY <3>1, FS_Product, SizesAssumption DEF Keys
    <3>3. QED
      BY <1>0, <3>2, FS_Subset DEF TypeOK
  <2>4. Cardinality(inflight') <= Cap
    BY <1>0, <2>2, <2>3, FS_Subset, FS_CardinalityType, SizesAssumption DEF TypeOK
  <2>5. QED
    BY <1>0, <1>2, <2>1, <2>2, <2>4 DEF TypeOK
<1>9. Budget'
  BY <1>2 DEF LoaderInv, Budget
<1>10. ListingComes'
  <2>1. \A x \in Sources : pane'[x].inflight = pane[x].inflight /\ pane'[x].gen = pane[x].gen
    BY <1>3, <1>7
  <2>2. QED
    BY <1>0, <1>2, <2>1 DEF LoaderInv, Coming, ListingComes
<1>11. BodiesCome'
  <2>1. CASE j.live
    <3>1. \A i \in jobs : Reports(i) /\ i # j => KeyOf(i) # <<s, k>>
      BY <1>4, <1>5, <2>1 DEF LoaderInv, Coming, OneReport
    <3>2. {KeyOf(i) : i \in {l \in jobs' : Reports(l)}} =
            {KeyOf(i) : i \in {l \in jobs : Reports(l)}} \ {<<s, k>>}
      BY <1>2, <1>4, <1>5, <2>1, <3>1
    <3>3. QED
      BY <1>2, <2>1, <3>2 DEF LoaderInv, Coming, BodiesCome, KeyOf, Reports
  <2>2. CASE ~j.live
    <3>1. {i \in jobs' : Reports(i)} = {i \in jobs : Reports(i)}
      BY <1>2, <1>5, <2>2
    <3>2. QED
      BY <1>2, <2>2, <3>1 DEF LoaderInv, Coming, BodiesCome, KeyOf, Reports
  <2>3. QED
    BY <2>1, <2>2
<1>12. OneReport'
  BY <1>2 DEF LoaderInv, Coming, OneReport, Reports, KeyOf
<1>13. Answers' /\ LeftBehind'
  BY <1>2 DEF LoaderInv, Current, Answers, LeftBehind, Reports
<1>14. Shown'
  <2>1. ASSUME NEW x \in Sources, NEW l \in Listed(pane'[x])
        PROVE  pane'[x].rows[l] \in {None, selection[x]}
    <3>1. CASE pane'[x] = pane[x]
      BY <2>1, <3>1 DEF LoaderInv, Current, Shown
    <3>2. CASE x = s /\ j.live /\ pane'[x] = q
      BY <1>1, <1>3, <1>6, <2>1, <3>2 DEF LoaderInv, Current, Shown
    <3>3. QED
      BY <1>7, <3>1, <3>2
  <2>2. QED
    BY <1>2, <2>1 DEF Shown
<1>15. QED
  BY <1>8, <1>9, <1>10, <1>11, <1>12, <1>13, <1>14 DEF LoaderInv, Coming, Current

LEMMA KeepScroll ==
  ASSUME LoaderInv, Scroll
  PROVE  LoaderInv'
<1>1. /\ UNCHANGED <<archive, scope, pane, jobs, inflight, wanted, failed, faults, selection>>
      /\ frame' = "moved" /\ inputs > 0 /\ inputs' = inputs - 1
  BY DEF Scroll
<1>2. inputs \in 0 .. MaxInputs /\ MaxInputs \in Nat /\ \A s \in Sources : selection[s] \in Nat
  BY SizesAssumption DEF LoaderInv, TypeOK, Body
<1>3. TypeOK'
  BY <1>1, <1>2 DEF LoaderInv, TypeOK
<1>4. Budget'
  BY <1>1, <1>2 DEF LoaderInv, Budget
<1>5. Coming'
  BY <1>1 DEF LoaderInv, Coming, ListingComes, BodiesCome, OneReport, Reports, KeyOf
<1>6. Current'
  BY <1>1 DEF LoaderInv, Current, Answers, LeftBehind, Shown, Reports
<1>7. QED
  BY <1>3, <1>4, <1>5, <1>6 DEF LoaderInv

(* A source selected anew starts with no body and none on its way. *)
LEMMA KeepMarkSources ==
  ASSUME LoaderInv, MarkSources
  PROVE  LoaderInv'
<1>1. /\ UNCHANGED <<archive, pane, jobs, inflight, wanted, failed, faults>>
      /\ frame = "idle" /\ frame' = "moved" /\ inputs > 0 /\ inputs' = inputs - 1
  BY DEF MarkSources
<1>2. PICK marks \in SUBSET Sources :
        /\ scope' = marks
        /\ selection' = [s \in Sources |->
                          IF s \in marks \ scope THEN selection[s] + 1 ELSE selection[s]]
  BY DEF MarkSources
<1>3. inputs \in 0 .. MaxInputs /\ MaxInputs \in Nat /\ \A s \in Sources : selection[s] \in Nat
  BY SizesAssumption DEF LoaderInv, TypeOK, Body
<1>4. \A s \in Sources : /\ selection'[s] \in {selection[s], selection[s] + 1}
                         /\ s \in scope => selection'[s] = selection[s]
  BY <1>2
<1>5. Budget'
  BY <1>1, <1>3, <1>4 DEF LoaderInv, Budget
<1>6. TypeOK'
  <2>1. inputs' \in 0 .. MaxInputs
    BY <1>1, <1>3
  <2>2. \A s \in Sources : selection'[s] \in Body
    BY <1>3, <1>4, <1>5, <2>1 DEF Body, Budget
  <2>3. selection' \in [Sources -> Body]
    BY <1>2, <2>2
  <2>4. QED
    BY <1>1, <1>2, <2>1, <2>3 DEF LoaderInv, TypeOK
<1>7. Coming'
  BY <1>1 DEF LoaderInv, Coming, ListingComes, BodiesCome, OneReport, Reports, KeyOf
<1>8. \A s \in Sources \ scope :
        /\ \A k \in Listed(pane[s]) : pane[s].rows[k] = None
        /\ \A j \in jobs : Reports(j) => j.source # s
  BY <1>1 DEF LoaderInv, Current, LeftBehind
<1>9. Answers'
  <2>1. \A j \in jobs : j.source \in Sources
    BY JobTypes DEF LoaderInv
  <2>2. QED
    BY <1>1, <1>4, <1>8, <2>1 DEF LoaderInv, Current, Answers, Reports
<1>10. Shown' /\ LeftBehind'
  BY <1>1, <1>4, <1>8 DEF LoaderInv, Current, Shown, LeftBehind
<1>11. QED
  BY <1>5, <1>6, <1>7, <1>9, <1>10 DEF LoaderInv, Current

LEMMA KeepNewSession ==
  ASSUME LoaderInv, NEW s \in Sources, NEW k \in Sessions, NewSession(s, k)
  PROVE  LoaderInv'
<1>1. /\ UNCHANGED <<scope, pane, jobs, inflight, wanted, failed, frame, faults, inputs, selection>>
      /\ archive' = [archive EXCEPT ![s] = @ \cup {k}]
  BY DEF NewSession
<1>2. TypeOK'
  BY <1>1 DEF LoaderInv, TypeOK
<1>3. Budget' /\ Coming'
  BY <1>1 DEF LoaderInv, Budget, Coming, ListingComes, BodiesCome, OneReport, Reports, KeyOf
<1>4. Current'
  BY <1>1 DEF LoaderInv, Current, Answers, LeftBehind, Shown, Reports
<1>5. QED
  BY <1>2, <1>3, <1>4 DEF LoaderInv

-----------------------------------------------------------------------------
(* Threads that are started, and threads that are cancelled.               *)
LEMMA MetaStarted ==
  ASSUME NEW s \in Sources, NEW gen \in 1 .. MaxGen
  PROVE  /\ MetaJob(s, gen) \in Job /\ MetaJob(s, gen).kind = "meta"
         /\ MetaJob(s, gen).source = s /\ MetaJob(s, gen).gen = gen /\ MetaJob(s, gen).live
BY DEF MetaJob, Job, Outcome

LEMMA BodyStarted ==
  ASSUME NEW k \in Keys
  PROVE  /\ BodyJob(k) \in Job /\ Reports(BodyJob(k)) /\ BodyJob(k).source = k[1]
         /\ KeyOf(BodyJob(k)) = k /\ BodyJob(k).answer = None
BY DEF BodyJob, Job, Outcome, Keys, Reports, KeyOf, Bodies

LEMMA JobsCancelled ==
  ASSUME TypeOK
  PROVE  /\ Cancelled(jobs) \subseteq Job
         /\ \A c \in Cancelled(jobs) : c.live => c \in jobs /\ ~Dropped(c.source)
         /\ \A j \in jobs : ~Dropped(j.source) => j \in Cancelled(jobs)
<1>1. ASSUME NEW j \in jobs
      PROVE  LET c == [j EXCEPT !.live = FALSE] IN c \in Job /\ c.live = FALSE
  BY JobTypes DEF Job
<1>2. jobs \subseteq Job
  BY DEF TypeOK
<1>3. QED
  BY <1>1, <1>2 DEF Cancelled

(* Listings that are started: each pane waits for its own. *)
LEMMA KeepRefresh ==
  ASSUME LoaderInv, Refresh
  PROVE  LoaderInv'
<1>0. TypeOK
  BY DEF LoaderInv
<1>1. PICK reload \in SUBSET Sources :
        LET start == {s \in reload : ~pane[s].inflight}
        IN /\ pane' = [s \in Sources |-> IF s \in start THEN BeginMeta(pane[s]) ELSE pane[s]]
           /\ jobs' = jobs \cup {MetaJob(s, NextGen(pane[s])) : s \in start}
           /\ failed' = {k \in failed : k[1] \notin reload}
  BY DEF Refresh
<1>2. /\ UNCHANGED <<archive, scope, inflight, wanted, faults, selection>>
      /\ frame' = "moved" /\ inputs > 0 /\ inputs' = inputs - 1
  BY DEF Refresh
<1> DEFINE start == {s \in reload : ~pane[s].inflight}
           new == {MetaJob(s, NextGen(pane[s])) : s \in start}
<1>3. start \subseteq Sources /\ jobs' = jobs \cup new /\ failed' \subseteq failed
  BY <1>1
<1>4. /\ pane' = [s \in Sources |-> IF s \in start THEN BeginMeta(pane[s]) ELSE pane[s]]
      /\ \A s \in Sources : pane[s] \in Pane
  BY <1>0, <1>1 DEF TypeOK
<1> HIDE DEF start
<1>5. ASSUME NEW s \in start
      PROVE  /\ MetaJob(s, NextGen(pane[s])) \in Job
             /\ MetaJob(s, NextGen(pane[s])).kind = "meta"
             /\ MetaJob(s, NextGen(pane[s])).source = s
             /\ MetaJob(s, NextGen(pane[s])).gen = NextGen(pane[s])
             /\ MetaJob(s, NextGen(pane[s])).live
  BY <1>3, <1>4, GenNext, MetaStarted
<1>6. \A j \in new : j \in Job /\ ~Reports(j)
  BY <1>5 DEF Reports
<1>7. \A s \in Sources :
        /\ pane'[s] \in Pane /\ Listed(pane'[s]) = Listed(pane[s])
        /\ pane'[s].rows = pane[s].rows
        /\ s \in start => pane'[s].gen = NextGen(pane[s])
        /\ s \notin start => pane'[s] = pane[s]
  BY <1>4, PaneBegin DEF Listed
<1>8. inputs \in 0 .. MaxInputs /\ MaxInputs \in Nat /\ \A s \in Sources : selection[s] \in Nat
  BY <1>0, SizesAssumption DEF TypeOK, Body
<1>9. Budget'
  BY <1>2, <1>8 DEF LoaderInv, Budget
<1>10. TypeOK'
  <2>1. pane' \in [Sources -> Pane] /\ jobs' \subseteq Job /\ inputs' \in 0 .. MaxInputs
    BY <1>0, <1>2, <1>3, <1>4, <1>6, <1>7, <1>8 DEF TypeOK
  <2>2. QED
    BY <1>0, <1>2, <1>3, <2>1 DEF TypeOK
<1>11. ListingComes'
  <2>1. ASSUME NEW s \in Sources, pane'[s].inflight
        PROVE  \E j \in jobs' : j.kind = "meta" /\ j.source = s /\ j.live /\ j.gen = pane'[s].gen
    <3>1. CASE s \in start
      BY <1>3, <1>5, <1>7, <3>1
    <3>2. CASE s \notin start
      BY <1>3, <1>7, <2>1, <3>2 DEF LoaderInv, Coming, ListingComes
    <3>3. QED
      BY <3>1, <3>2
  <2>2. QED
    BY <2>1 DEF ListingComes
<1> HIDE DEF new
<1>12. BodiesCome'
  <2>1. {i \in jobs' : Reports(i)} = {i \in jobs : Reports(i)}
    BY <1>3, <1>6
  <2>2. QED
    BY <1>2, <2>1 DEF LoaderInv, Coming, BodiesCome, KeyOf, Reports
<1>13. OneReport'
  BY <1>3, <1>6 DEF LoaderInv, Coming, OneReport, Reports, KeyOf
<1>14. Answers' /\ LeftBehind'
  BY <1>2, <1>3, <1>6 DEF LoaderInv, Current, Answers, LeftBehind, Reports
<1>15. Shown'
  BY <1>2, <1>7 DEF LoaderInv, Current, Shown
<1>16. QED
  BY <1>9, <1>10, <1>11, <1>12, <1>13, <1>14, <1>15 DEF LoaderInv, Coming, Current

(* What a frame makes of a pane before it evicts. *)
LEMMA PaneKicked ==
  ASSUME TypeOK, NEW s \in Sources
  PROVE  /\ Kick(s) \in Pane
         /\ Dropped(s) => Listed(Kick(s)) = {} /\ ~Kick(s).inflight
         /\ ~Dropped(s) => Kick(s).rows = pane[s].rows
         /\ Kicked(s) => Kick(s).gen = NextGen(pane[s])
         /\ ~Dropped(s) /\ ~Kicked(s) => Kick(s) = pane[s]
<1>1. pane[s] \in Pane
  BY DEF TypeOK
<1>2. CASE Dropped(s)
  BY <1>2, PaneEmpty DEF Kick, Kicked, Dropped, EmptyPane, Listed
<1>3. CASE ~Dropped(s) /\ Kicked(s)
  BY <1>1, <1>3, PaneBegin DEF Kick
<1>4. CASE ~Dropped(s) /\ ~Kicked(s)
  BY <1>1, <1>4 DEF Kick
<1>5. QED
  BY <1>2, <1>3, <1>4

LEMMA KeysFinite == IsFiniteSet(Keys)
<1>1. IsFiniteSet(Sources)
  BY FS_Interval, SizesAssumption DEF Sources
<1>2. QED
  BY <1>1, FS_Product, SizesAssumption DEF Keys

(* The cap: a pass starts no body thread that finds it reached. *)
LEMMA CapKept ==
  ASSUME TypeOK, NEW running \in SUBSET inflight, NEW spawn \in SUBSET Keys,
         \A k \in spawn : Room((running \cup spawn) \ {k})
  PROVE  Cardinality(running \cup spawn) <= Cap
<1>1. IsFiniteSet(inflight) /\ IsFiniteSet(running \cup spawn)
  BY KeysFinite, FS_Subset DEF TypeOK
<1>2. CASE spawn = {}
  <2>1. running \cup spawn \subseteq inflight
    BY <1>2
  <2>2. QED
    BY <1>1, <2>1, FS_Subset, FS_CardinalityType, SizesAssumption DEF TypeOK
<1>3. ASSUME NEW k \in spawn
      PROVE  Cardinality(running \cup spawn) <= Cap
  <2>1. Cardinality((running \cup spawn) \ {k}) = Cardinality(running \cup spawn) - 1
    BY <1>1, FS_RemoveElement
  <2>2. Cardinality((running \cup spawn) \ {k}) < Cap
    BY DEF Room
  <2>3. QED
    BY <1>1, <2>1, <2>2, FS_CardinalityType, SizesAssumption
<1>4. QED
  BY <1>2, <1>3

(* The sessions of a source whose bodies the window keeps. *)
KeptOf(s, keys) == {k \in Sessions : <<s, k>> \in keys}

(* A frame: what left the scope is dropped and its jobs cancelled, what is   *)
(* missing gets a thread, what is not wanted is evicted.                     *)
LEMMA KeepEnsure ==
  ASSUME LoaderInv, Ensure
  PROVE  LoaderInv'
<1>0. TypeOK
  BY DEF LoaderInv
<1> DEFINE running == {k \in inflight : ~Dropped(k[1])}
           lost == {k \in failed : ~Dropped(k[1])}
           rows == {k \in Keys : ~Dropped(k[1]) /\ k[2] \in Listed(pane[k[1]])}
           metas == {MetaJob(s, NextGen(pane[s])) : s \in {t \in Sources : Kicked(t)}}
<1>1. PICK keep \in SUBSET rows, stop \in 1..(N + 1), spawn \in SUBSET Keys :
        /\ spawn \subseteq keep /\ SyncBodies(keep, running, lost, spawn, stop)
        /\ wanted' = keep /\ inflight' = running \cup spawn /\ failed' = lost
        /\ pane' = [s \in Sources |-> IF s > stop THEN Kick(s)
                                      ELSE ClearBodiesOutside(Kick(s), KeptOf(s, keep))]
        /\ jobs' = Cancelled(jobs) \cup metas \cup {BodyJob(k) : k \in spawn}
  BY DEF Ensure, KeptOf
<1>2. frame' = "idle" /\ UNCHANGED <<archive, scope, faults, inputs, selection>>
  BY DEF Ensure
<1>3. /\ spawn \subseteq Keys /\ keep \subseteq Keys /\ running \subseteq inflight
      /\ spawn \cap running = {} /\ \A k \in spawn : ~Dropped(k[1])
      /\ \A k \in spawn : Room((running \cup spawn) \ {k})
  BY <1>1 DEF SyncBodies
<1>4. \A k \in running : k \in inflight /\ ~Dropped(k[1])
  OBVIOUS
<1>5. \A k \in inflight : ~Dropped(k[1]) => k \in running
  OBVIOUS
<1>6. lost \subseteq Keys
  BY <1>0 DEF TypeOK
<1> HIDE DEF running, lost, rows
<1>7. ASSUME NEW s \in Sources
      PROVE  /\ pane'[s] \in Pane /\ pane'[s].inflight = Kick(s).inflight
             /\ pane'[s].gen = Kick(s).gen /\ Listed(pane'[s]) = Listed(Kick(s))
             /\ \A k \in Listed(Kick(s)) : pane'[s].rows[k] \in {None, Kick(s).rows[k]}
  <2>1. Kick(s) \in Pane
    BY <1>0, PaneKicked
  <2>2. CASE s > stop
    BY <1>1, <2>1, <2>2
  <2>3. CASE ~(s > stop)
    <3>1. pane'[s] = ClearBodiesOutside(Kick(s), KeptOf(s, keep))
      BY <1>1, <2>3
    <3>2. QED
      BY <2>1, <3>1, PaneClear
  <2>4. QED
    BY <2>2, <2>3
<1>8. ASSUME NEW s \in Sources, Kicked(s)
      PROVE  /\ MetaJob(s, NextGen(pane[s])) \in Job
             /\ MetaJob(s, NextGen(pane[s])).kind = "meta"
             /\ MetaJob(s, NextGen(pane[s])).source = s
             /\ MetaJob(s, NextGen(pane[s])).gen = NextGen(pane[s])
             /\ MetaJob(s, NextGen(pane[s])).live
  BY <1>0, <1>8, GenNext, MetaStarted DEF TypeOK
<1>9. \A j \in metas : j \in Job /\ ~Reports(j)
  BY <1>8 DEF Reports
<1>10. \A j \in jobs' : Reports(j) <=> \/ j \in jobs /\ Reports(j) /\ ~Dropped(j.source)
                                       \/ \E k \in spawn : j = BodyJob(k)
  <2>1. ASSUME NEW j \in jobs', Reports(j)
        PROVE  \/ j \in jobs /\ Reports(j) /\ ~Dropped(j.source)
               \/ \E k \in spawn : j = BodyJob(k)
    BY <1>0, <1>1, <1>9, <2>1, JobsCancelled DEF Reports
  <2>2. \A k \in spawn : Reports(BodyJob(k))
    BY <1>3, BodyStarted
  <2>3. QED
    BY <2>1, <2>2
<1>11. \A j \in jobs : Reports(j) /\ ~Dropped(j.source) => j \in jobs'
  BY <1>0, <1>1, JobsCancelled
<1>12. \A k \in spawn : BodyJob(k) \in jobs'
  BY <1>1
<1>13. TypeOK'
  <2>1. jobs' \subseteq Job
    <3>1. \A k \in spawn : BodyJob(k) \in Job
      BY <1>3, BodyStarted
    <3>2. QED
      BY <1>0, <1>1, <1>9, <3>1, JobsCancelled
  <2>2. pane' \in [Sources -> Pane]
    BY <1>1, <1>7
  <2>3. Cardinality(inflight') <= Cap
    BY <1>0, <1>1, <1>3, CapKept
  <2>4. QED
    BY <1>0, <1>1, <1>2, <1>3, <1>6, <2>1, <2>2, <2>3 DEF TypeOK
<1>14. Budget'
  BY <1>2 DEF LoaderInv, Budget
<1>15. ListingComes'
  <2>1. ASSUME NEW s \in Sources, pane'[s].inflight
        PROVE  \E j \in jobs' : j.kind = "meta" /\ j.source = s /\ j.live /\ j.gen = pane'[s].gen
    <3>1. Kick(s).inflight /\ pane'[s].gen = Kick(s).gen /\ ~Dropped(s)
      BY <1>0, <1>7, <2>1, PaneKicked
    <3>2. CASE Kicked(s)
      BY <1>0, <1>1, <1>8, <3>1, <3>2, PaneKicked
    <3>3. CASE ~Kicked(s)
      <4>1. pane[s].inflight /\ pane[s].gen = pane'[s].gen
        BY <1>0, <3>1, <3>3, PaneKicked
      <4>2. PICK j \in jobs : j.kind = "meta" /\ j.source = s /\ j.live /\ j.gen = pane[s].gen
        BY <4>1 DEF LoaderInv, Coming, ListingComes
      <4>3. j \in jobs'
        BY <1>0, <1>1, <3>1, <4>2, JobsCancelled
      <4>4. QED
        BY <4>1, <4>2, <4>3
    <3>4. QED
      BY <3>2, <3>3
  <2>2. QED
    BY <2>1 DEF ListingComes
<1>16. BodiesCome'
  <2>1. ASSUME NEW k \in inflight'
        PROVE  \E j \in jobs' : Reports(j) /\ KeyOf(j) = k
    <3>1. CASE k \in running
      <4>1. PICK j \in jobs : Reports(j) /\ KeyOf(j) = k
        BY <1>4, <3>1 DEF LoaderInv, Coming, BodiesCome
      <4>2. j.source = k[1]
        BY <4>1 DEF KeyOf
      <4>3. QED
        BY <1>4, <1>11, <3>1, <4>1, <4>2
    <3>2. CASE k \in spawn
      BY <1>3, <1>12, <3>2, BodyStarted
    <3>3. QED
      BY <1>1, <2>1, <3>1, <3>2
  <2>2. ASSUME NEW j \in jobs', Reports(j)
        PROVE  KeyOf(j) \in inflight'
    <3>1. CASE j \in jobs /\ ~Dropped(j.source)
      <4>1. KeyOf(j) \in inflight /\ KeyOf(j)[1] = j.source
        BY <2>2, <3>1 DEF LoaderInv, Coming, BodiesCome, KeyOf
      <4>2. QED
        BY <1>1, <1>5, <3>1, <4>1
    <3>2. ASSUME NEW k \in spawn, j = BodyJob(k)
          PROVE  KeyOf(j) \in inflight'
      BY <1>1, <1>3, <3>2, BodyStarted
    <3>3. QED
      BY <1>10, <2>2, <3>1, <3>2
  <2>3. QED
    BY <2>1, <2>2 DEF BodiesCome, KeyOf, Reports
<1>17. OneReport'
  <2>1. ASSUME NEW i \in jobs', NEW j \in jobs', Reports(i), Reports(j), KeyOf(i) = KeyOf(j)
        PROVE  i = j
    <3>1. \A l \in jobs : Reports(l) /\ ~Dropped(l.source) => KeyOf(l) \in running
      <4>1. ASSUME NEW l \in jobs, Reports(l), ~Dropped(l.source) PROVE KeyOf(l) \in running
        <5>1. KeyOf(l) \in inflight /\ KeyOf(l)[1] = l.source
          BY <4>1 DEF LoaderInv, Coming, BodiesCome, KeyOf
        <5>2. QED
          BY <1>5, <4>1, <5>1
      <4>2. QED
        BY <4>1
    <3>2. \A k \in spawn : KeyOf(BodyJob(k)) = k
      BY <1>3, BodyStarted
    <3>3. QED
      BY <1>3, <1>10, <2>1, <3>1, <3>2 DEF LoaderInv, Coming, OneReport
  <2>2. QED
    BY <2>1 DEF OneReport, Reports, KeyOf
<1>18. Answers'
  <2>1. \A k \in spawn : BodyJob(k).answer = None
    BY <1>3, BodyStarted
  <2>2. QED
    BY <1>2, <1>10, <2>1 DEF LoaderInv, Current, Answers, Reports
<1>19. LeftBehind'
  <2>1. ASSUME NEW s \in Sources \ scope
        PROVE  Listed(pane'[s]) = {} /\ \A j \in jobs' : Reports(j) => j.source # s
    <3>1. Dropped(s)
      BY DEF Dropped
    <3>2. Listed(pane'[s]) = {}
      BY <1>0, <1>7, <3>1, PaneKicked
    <3>3. \A k \in spawn : BodyJob(k).source # s
      BY <1>3, <3>1, BodyStarted
    <3>4. QED
      BY <1>10, <3>1, <3>2, <3>3
  <2>2. QED
    BY <1>2, <2>1 DEF LeftBehind, Reports
<1>20. Shown'
  <2>1. ASSUME NEW s \in Sources, NEW k \in Listed(pane'[s])
        PROVE  pane'[s].rows[k] \in {None, selection[s]}
    <3>1. k \in Listed(Kick(s)) /\ pane'[s].rows[k] \in {None, Kick(s).rows[k]} /\ ~Dropped(s)
      BY <1>0, <1>7, <2>1, PaneKicked
    <3>2. Kick(s).rows = pane[s].rows
      BY <1>0, <3>1, PaneKicked
    <3>3. QED
      BY <3>1, <3>2 DEF LoaderInv, Current, Shown, Listed
  <2>2. QED
    BY <1>2, <2>1 DEF Shown
<1>21. QED
  BY <1>13, <1>14, <1>15, <1>16, <1>17, <1>18, <1>19, <1>20 DEF LoaderInv, Coming, Current

LEMMA LoaderInit == Init => LoaderInv
<1>1. SUFFICES ASSUME Init PROVE LoaderInv
  OBVIOUS
<1>2. \A s \in Sources : pane[s] = EmptyPane /\ Listed(pane[s]) = {} /\ ~pane[s].inflight
  BY <1>1 DEF Init, EmptyPane, Listed
<1>3. TypeOK
  <2>1. Cardinality({}) <= Cap
    BY FS_EmptySet, SizesAssumption
  <2>2. pane \in [Sources -> Pane]
    BY <1>1, PaneEmpty DEF Init
  <2>3. QED
    BY <1>1, <2>1, <2>2, SizesAssumption DEF Init, TypeOK, Body
<1>4. Budget
  BY <1>1, SizesAssumption DEF Init, Budget
<1>5. Coming
  BY <1>1, <1>2 DEF Init, Coming, ListingComes, BodiesCome, OneReport
<1>6. Current
  BY <1>1, <1>2 DEF Init, Current, Answers, LeftBehind, Shown
<1>7. QED
  BY <1>3, <1>4, <1>5, <1>6 DEF LoaderInv

LEMMA LoaderNext == LoaderInv /\ [Next]_vars => LoaderInv'
<1>1. SUFFICES ASSUME LoaderInv, [Next]_vars PROVE LoaderInv'
  OBVIOUS
<1>2. CASE UNCHANGED vars
  BY <1>1, <1>2
  DEF vars, LoaderInv, TypeOK, Budget, Coming, ListingComes, BodiesCome, OneReport, Reports, KeyOf,
      Current, Answers, LeftBehind, Shown
<1>3. QED
  BY <1>1, <1>2, KeepAnswer, KeepApplyListing, KeepApplyRecords, KeepEnsure, KeepScroll,
     KeepMarkSources, KeepRefresh, KeepNewSession
  DEF Next, Apply

(* Panes, threads and what is waited for stay in step: the inductive         *)
(* invariant of the loader.                                                  *)
THEOREM LoaderInvariant == Spec => []LoaderInv
<1>1. QED
  BY LoaderInit, LoaderNext, PTL DEF Spec

(* Types, and no more body threads than the cap. *)
THEOREM LoaderTypes == Spec => []TypeOK
<1>1. LoaderInv => TypeOK
  BY DEF LoaderInv
<1>2. QED
  BY <1>1, LoaderInvariant, PTL

(* The loader waits only for answers that will come. *)
THEOREM WaitsCorrect == Spec => []WaitsHaveJobs
<1>1. LoaderInv => WaitsHaveJobs
  BY DEF LoaderInv, Coming, ListingComes, BodiesCome, Reports, KeyOf, WaitsHaveJobs
<1>2. QED
  BY <1>1, LoaderInvariant, PTL

(* A body on screen was read in the current selection of its source. *)
THEOREM BodiesCorrect == Spec => []BodiesOfThisSelection
<1>1. LoaderInv => BodiesOfThisSelection
  BY DEF LoaderInv, Current, Shown, Keys, Loaded, BodiesOfThisSelection
<1>2. QED
  BY <1>1, LoaderInvariant, PTL

(* One step keeps the bodies that are shown, wanted before and after, of a   *)
(* source in scope whose pane still lists them.                              *)
Kept(k) ==
  /\ Loaded(k) /\ k \in wanted /\ k \in wanted' /\ k[1] \in scope
  /\ k[2] \in DOMAIN pane'[k[1]].rows
  => Loaded(k)'

(* A pane whose rows a step leaves alone. *)
LEMMA SameRowsKept ==
  ASSUME NEW k \in Keys, pane'[k[1]].rows = pane[k[1]].rows
  PROVE  Kept(k)
BY DEF Kept, Loaded, Listed

LEMMA KeptByListing ==
  ASSUME LoaderInv, NEW k \in Keys, NEW j \in jobs, ApplyListing(j)
  PROVE  Kept(k)
<1>0. TypeOK /\ k[1] \in Sources
  BY DEF LoaderInv, Keys
<1>1. /\ j.source \in Sources /\ pane \in [Sources -> Pane] /\ j.answer \in SUBSET Sessions
      /\ pane' = [pane EXCEPT ![j.source] = ApplyMeta(@, j.gen, j.done = "ok", j.answer)]
  BY <1>0, JobTypes DEF ApplyListing, TypeOK
<1>2. CASE k[1] # j.source
  BY <1>0, <1>1, <1>2, SameRowsKept
<1>3. CASE k[1] = j.source
  <2> DEFINE p == pane[j.source]
             q == pane'[j.source]
  <2>1. q \in {[p EXCEPT !.inflight = FALSE], ApplyMetaOk(p, j.answer), ApplyMetaErr(p)}
    BY <1>1 DEF ApplyMeta
  <2>2. p \in Pane
    BY <1>1
  <2>3. \A l \in Listed(q) : \/ q.rows[l] = None /\ l \notin Listed(p)
                             \/ l \in Listed(p) /\ q.rows[l] = p.rows[l]
    <3> HIDE DEF p, q
    <3> QED
      BY <1>1, <2>1, <2>2, PaneListing
  <2>4. QED
    BY <1>3, <2>3 DEF Kept, Loaded, Listed
<1>4. QED
  BY <1>2, <1>3

LEMMA KeptByRecords ==
  ASSUME LoaderInv, NEW k \in Keys, NEW j \in jobs, ApplyRecords(j)
  PROVE  Kept(k)
<1>0. TypeOK /\ k[1] \in Sources
  BY DEF LoaderInv, Keys
<1>1. CASE pane' = pane
  BY <1>1, SameRowsKept
<1>2. CASE /\ j.answer # None
           /\ pane' = [pane EXCEPT ![j.source] = ApplyBody(@, j.session, j.answer)]
  <2>1. /\ j.source \in Sources /\ pane \in [Sources -> Pane] /\ j.session \in Sessions
        /\ j.answer \in Bodies
    BY <1>0, JobTypes DEF ApplyRecords, TypeOK
  <2>2. CASE k[1] # j.source
    BY <1>0, <1>2, <2>1, <2>2, SameRowsKept
  <2>3. CASE k[1] = j.source
    <3>1. /\ Listed(pane'[j.source]) = Listed(pane[j.source])
          /\ \A l \in Listed(pane[j.source]) :
               pane'[j.source].rows[l] = IF l = j.session THEN j.answer
                                         ELSE pane[j.source].rows[l]
      BY <1>2, <2>1, PaneBody
    <3>2. QED
      BY <1>2, <2>3, <3>1 DEF Kept, Loaded, Listed
  <2>4. QED
    BY <2>2, <2>3
<1>3. QED
  BY <1>1, <1>2 DEF ApplyRecords

LEMMA KeptByEnsure ==
  ASSUME LoaderInv, NEW k \in Keys, Ensure
  PROVE  Kept(k)
<1>0. TypeOK /\ k[1] \in Sources /\ k[2] \in Sessions /\ k = <<k[1], k[2]>>
  BY DEF LoaderInv, Keys
<1>1. PICK keep \in SUBSET Keys, stop \in 1..(N + 1) :
        /\ wanted' = keep
        /\ pane' = [s \in Sources |-> IF s > stop THEN Kick(s)
                                      ELSE ClearBodiesOutside(Kick(s), KeptOf(s, keep))]
  BY DEF Ensure, KeptOf
<1>2. CASE k[1] \in scope
  <2>1. Kick(k[1]) \in Pane /\ Kick(k[1]).rows = pane[k[1]].rows
    BY <1>0, <1>2, PaneKicked DEF Dropped
  <2>2. CASE k[1] > stop
    BY <1>0, <1>1, <2>1, <2>2, SameRowsKept
  <2>3. CASE ~(k[1] > stop)
    <3>1. pane'[k[1]] = ClearBodiesOutside(Kick(k[1]), KeptOf(k[1], keep))
      BY <1>0, <1>1, <2>3
    <3>2. /\ Listed(pane'[k[1]]) = Listed(Kick(k[1]))
          /\ \A l \in Listed(Kick(k[1])) :
               pane'[k[1]].rows[l] = IF l \in KeptOf(k[1], keep) THEN Kick(k[1]).rows[l] ELSE None
      BY <2>1, <3>1, PaneClear
    <3>3. k \in wanted' => k[2] \in KeptOf(k[1], keep)
      BY <1>0, <1>1 DEF KeptOf
    <3>4. QED
      BY <2>1, <3>2, <3>3 DEF Kept, Loaded, Listed
  <2>4. QED
    BY <2>2, <2>3
<1>3. CASE k[1] \notin scope
  BY <1>3 DEF Kept
<1>4. QED
  BY <1>2, <1>3

LEMMA KeptByRefresh ==
  ASSUME LoaderInv, NEW k \in Keys, Refresh
  PROVE  Kept(k)
<1>0. k[1] \in Sources /\ pane[k[1]] \in Pane
  BY DEF LoaderInv, Keys, TypeOK
<1>1. PICK start : pane' = [s \in Sources |-> IF s \in start THEN BeginMeta(pane[s]) ELSE pane[s]]
  BY DEF Refresh
<1>2. pane'[k[1]].rows = pane[k[1]].rows
  BY <1>0, <1>1, PaneBegin
<1>3. QED
  BY <1>2, SameRowsKept

LEMMA NeverBlanked ==
  LoaderInv /\ [Next]_vars =>
    [\A k \in Keys :
       /\ Loaded(k) /\ k \in wanted /\ k \in wanted'
       /\ k[1] \in scope /\ k[2] \in DOMAIN pane'[k[1]].rows
       => Loaded(k)']_vars
<1>1. SUFFICES ASSUME LoaderInv, [Next]_vars, NEW k \in Keys PROVE Kept(k)
  BY DEF Kept
<1>2. CASE UNCHANGED pane
  BY <1>2, SameRowsKept
<1>3. ASSUME NEW j \in jobs, Answer(j) PROVE UNCHANGED pane
  BY <1>3 DEF Answer
<1>4. Scroll \/ MarkSources => UNCHANGED pane
  BY DEF Scroll, MarkSources
<1>5. ASSUME NEW s \in Sources, NEW l \in Sessions, NewSession(s, l) PROVE UNCHANGED pane
  BY <1>5 DEF NewSession
<1>6. QED
  BY <1>1, <1>2, <1>3, <1>4, <1>5, KeptByListing, KeptByRecords, KeptByEnsure, KeptByRefresh
  DEF Next, Apply, vars

(* No listing, reload or other body takes a wanted body off the screen. *)
THEOREM BlanksCorrect == Spec => NeverBlanks
<1>1. QED
  BY LoaderInvariant, NeverBlanked, PTL DEF Spec, NeverBlanks
=============================================================================
