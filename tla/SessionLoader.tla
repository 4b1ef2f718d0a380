---------------------------- MODULE SessionLoader ----------------------------
(***************************************************************************)
(* The session column of the browser: one sliding pane per source, filled  *)
(* by loader threads.  A listing thread fetches the sessions of a source   *)
(* that is in scope; body threads fetch the records of the sessions around *)
(* the cursor.  The user moves, marks, reloads and changes the scope while *)
(* threads run, and their answers arrive over one channel in any order.    *)
(*                                                                         *)
(* Sources are 1..N, in the order of the source list.                      *)
(***************************************************************************)
EXTENDS Integers, FiniteSets

CONSTANTS
  N,           \* number of sources
  Sessions,    \* session ids
  Cap,         \* BODY_FETCH_CAP
  Page,        \* FETCH_CEILING: sessions one listing returns at most
  NeedEnd,     \* rows the visible window and its prefetch want
  MaxGen,      \* bound on listing generations told apart
  MaxFaults,   \* bound on failing answers
  None,        \* no body
  MaxInputs    \* bound on the user's moves, changes of scope and reloads

ASSUME SizesAssumption ==
  /\ N \in Nat \ {0} /\ Cap \in Nat \ {0} /\ Page \in Nat \ {0} /\ NeedEnd \in Nat
  /\ MaxGen \in Nat \ {0} /\ MaxFaults \in Nat
  /\ MaxInputs \in Nat
  /\ IsFiniteSet(Sessions)

VARIABLES
  archive,  \* what queries see: the sessions of each source
  scope,    \* the sources the user has marked
  pane,     \* SlidingStore of each source
  jobs,     \* loader threads whose answer has not been applied
  inflight, \* body_inflight
  wanted,   \* body_wanted
  failed,   \* body_failed
  frame,    \* what the loop has to redraw for: nothing, bodies, rows or cursor
  faults, inputs,  \* failing answers and user inputs left
  selection \* history: how often each source has been selected anew

vars == <<archive, scope, pane, jobs, inflight, wanted, failed, frame, faults,
          inputs, selection>>

Sources == 1..N
Keys == Sources \X Sessions

-----------------------------------------------------------------------------
(* store.rs, sliding.rs: the pane of one source.  Its rows map the listed  *)
(* sessions to the body they hold.  A body is known by the selection of    *)
(* its source in which it was read; None is no body.                       *)

EmptyPane == [rows |-> [k \in {} |-> None], phase |-> "idle", exhausted |-> FALSE,
              inflight |-> FALSE, gen |-> 0]

Listed(p) == DOMAIN p.rows

NeedsMeta(p) ==
  /\ ~p.inflight /\ ~p.exhausted
  /\ p.phase \in {"idle", "booting"} \/ Cardinality(Listed(p)) < NeedEnd

\* Generations wrap; a number is not reused while its job is under way.
NextGen(p) == (p.gen % MaxGen) + 1

BeginMeta(p) ==
  [p EXCEPT !.gen = NextGen(p), !.inflight = TRUE,
            !.phase = IF Listed(p) = {} /\ @ # "ready" THEN "booting" ELSE @]

\* A slip: a page blanks the bodies on screen.
BlankingMetaOk(p, answer) ==
  [p EXCEPT !.rows = [k \in answer |-> None], !.exhausted = Cardinality(answer) < Page,
            !.inflight = FALSE, !.phase = "ready"]

\* A page replaces the rows; sessions listed before keep their body.
ApplyMetaOk(p, answer) ==
  [p EXCEPT !.rows = [k \in answer |-> IF k \in Listed(p) THEN p.rows[k] ELSE None],
            !.exhausted = Cardinality(answer) < Page,
            !.inflight = FALSE, !.phase = "ready"]

ApplyMetaErr(p) ==
  [p EXCEPT !.inflight = FALSE, !.phase = IF Listed(p) = {} THEN "failed" ELSE @]

\* An answer of another generation is dropped, and ends the wait for it.
ApplyMeta(p, gen, ok, answer) ==
  IF gen # p.gen THEN [p EXCEPT !.inflight = FALSE]
  ELSE IF ok THEN ApplyMetaOk(p, answer) ELSE ApplyMetaErr(p)

ApplyBody(p, k, body) ==
  IF k \in Listed(p) THEN [p EXCEPT !.rows[k] = body] ELSE p

ClearBodiesOutside(p, keep) ==
  [p EXCEPT !.rows = [k \in Listed(p) |-> IF k \in keep THEN p.rows[k] ELSE None]]

\* A slip: the loop stops polling while bodies are under way.
OnlyListings == \E s \in Sources : pane[s].inflight \/ pane[s].phase = "booting"

IsFetching ==
  (\E s \in Sources : pane[s].inflight \/ pane[s].phase = "booting") \/ inflight # {}

-----------------------------------------------------------------------------
(* load.rs: threads.  A job of a source that left the scope is cancelled.  *)

MetaJob(s, gen) == [kind |-> "meta", source |-> s, gen |-> gen, done |-> "no",
                    answer |-> {}, live |-> TRUE]
BodyJob(k) == [kind |-> "body", source |-> k[1], session |-> k[2], done |-> "no",
               answer |-> None, live |-> TRUE]

GenFree(s, gen) ==
  \A j \in jobs : ~(j.kind = "meta" /\ j.source = s /\ j.live /\ j.gen = gen)

\* A thread reads the archive (or a mount), some time before its answer is
\* applied; or its query or even its spawn fails.
Answer(j) ==
  /\ j.done = "no"
  /\ \/ /\ \E answer \in
             IF j.kind = "body" THEN {IF j.session \in archive[j.source] THEN selection[j.source] ELSE None}
             ELSE {page \in SUBSET archive[j.source] :
                     Cardinality(page) = Page \/ page = archive[j.source]} :
             jobs' = (jobs \ {j}) \cup {[j EXCEPT !.done = "ok", !.answer = answer]}
        /\ UNCHANGED faults
     \/ /\ faults > 0 /\ faults' = faults - 1
        /\ jobs' = (jobs \ {j}) \cup {[j EXCEPT !.done = "err"]}
  /\ UNCHANGED <<archive, scope, pane, inflight, wanted, failed, frame, inputs, selection>>

\* The loop drains one listing answer.
ApplyListing(j) ==
  /\ j.kind = "meta" /\ j.done # "no"
  /\ pane' = [pane EXCEPT ![j.source] = ApplyMeta(@, j.gen, j.done = "ok", j.answer)]
  /\ jobs' = jobs \ {j}
  /\ frame' = IF j.gen = pane[j.source].gen THEN "moved"
              ELSE IF frame = "idle" THEN "same" ELSE frame
  /\ UNCHANGED <<archive, scope, inflight, wanted, failed, faults, inputs, selection>>

\* A body answer counts if its job was not cancelled and the cursor has not
\* moved on.
LandsLate(j) == <<j.source, j.session>> \in wanted   \* a slip: cancelled or not
Lands(j) == j.live /\ <<j.source, j.session>> \in wanted

\* The loop drains one body answer; a body that is not there, like an error, is
\* final until the next reload.
ApplyRecords(j) ==
  /\ j.kind = "body" /\ j.done # "no"
  /\ jobs' = jobs \ {j}
  /\ LET k     == <<j.source, j.session>>
         found == j.done = "ok" /\ j.answer # None /\ j.session \in Listed(pane[j.source])
     IN  /\ inflight' = IF j.live THEN inflight \ {k} ELSE inflight
         /\ failed' = IF Lands(j) /\ ~found THEN failed \cup {k} ELSE failed
         /\ pane' = IF Lands(j) /\ found
                    THEN [pane EXCEPT ![j.source] = ApplyBody(@, j.session, j.answer)]
                    ELSE pane
  /\ frame' = IF frame = "idle" THEN "same" ELSE frame
  /\ UNCHANGED <<archive, scope, wanted, faults, inputs, selection>>

Apply(j) == ApplyListing(j) \/ ApplyRecords(j)

-----------------------------------------------------------------------------
(* One frame: SessionColumn::ensure.                                       *)

\* drop_unselected
Dropped(s) == s \notin scope
Uncancelled(js) == js   \* a slip: body_generation is not raised
Cancelled(js) == {IF Dropped(j.source) THEN [j EXCEPT !.live = FALSE] ELSE j : j \in js}

\* kick: which sources start a listing, and their pane then.
Kicked(s) == s \in scope /\ NeedsMeta(pane[s])
Kick(s) == IF Dropped(s) THEN EmptyPane
           ELSE IF Kicked(s) THEN BeginMeta(pane[s]) ELSE pane[s]

\* Whether one more body thread may start beside those that are counted.
RoomAnew(taken) == Cardinality(taken \ inflight) < Cap  \* a slip: this pass's only
Room(taken) == Cardinality(taken) < Cap

\* sync_bodies visits the sources in order, evicts what is not wanted and
\* spawns a thread per missing body; at the first missing body that finds the
\* cap reached it returns, and the sources from `stop` on are left as they are
\* (but for `stop` itself, evicted already).
SyncBodies(keep, running, lost, spawn, stop) ==
  LET missing == {k \in keep : pane[k[1]].rows[k[2]] = None}
      fresh   == missing \ (running \cup lost)
      before(s) == running \cup {k \in spawn : k[1] < s}
  IN  /\ spawn \subseteq fresh
      /\ \A k \in spawn : k[1] <= stop /\ Room((running \cup spawn) \ {k})
      /\ \A k \in fresh : k[1] < stop => k \in spawn
      /\ \A k \in missing : k[1] < stop => Room(before(k[1]))
      /\ stop <= N => /\ ~Room(running \cup spawn)
                      /\ \E k \in missing \ spawn : k[1] = stop

Ensure ==
  /\ frame # "idle"
  /\ \A s \in Sources : Kicked(s) => GenFree(s, NextGen(pane[s]))
  /\ LET running == {k \in inflight : ~Dropped(k[1])}
         lost    == {k \in failed : ~Dropped(k[1])}
         rows    == {k \in Keys : ~Dropped(k[1]) /\ k[2] \in Listed(pane[k[1]])}
     IN  \E keep \in SUBSET rows, stop \in 1..(N + 1) : \E spawn \in SUBSET keep :
           /\ rows # {} => keep # {}
           /\ frame = "same" => keep = wanted
           /\ SyncBodies(keep, running, lost, spawn, stop)
           /\ wanted' = keep
           /\ inflight' = running \cup spawn
           /\ failed' = lost
           /\ pane' = [s \in Sources |->
                         IF s > stop THEN Kick(s)
                         ELSE ClearBodiesOutside(Kick(s), {k \in Sessions : <<s, k>> \in keep})]
           /\ jobs' = Cancelled(jobs)
                        \cup {MetaJob(s, NextGen(pane[s])) : s \in {t \in Sources : Kicked(t)}}
                        \cup {BodyJob(k) : k \in spawn}
  /\ frame' = "idle"
  /\ UNCHANGED <<archive, scope, faults, inputs, selection>>

-----------------------------------------------------------------------------
(* The user, one event between two frames; agents that go on writing.      *)

Scroll ==
  /\ frame = "idle" /\ frame' = "moved" /\ inputs > 0 /\ inputs' = inputs - 1
  /\ UNCHANGED <<archive, scope, pane, jobs, inflight, wanted, failed, faults, selection>>

MarkSources ==
  /\ frame = "idle" /\ frame' = "moved" /\ inputs > 0 /\ inputs' = inputs - 1
  /\ \E marks \in SUBSET Sources :
       /\ scope' = marks
       /\ selection' = [s \in Sources |->
                         IF s \in marks \ scope THEN selection[s] + 1 ELSE selection[s]]
  /\ UNCHANGED <<archive, pane, jobs, inflight, wanted, failed, faults>>

\* refresh_next_level: `R` on the marked sources, on the one under the cursor
\* when none is marked, or on the parents of the active sessions.
Refresh ==
  /\ frame = "idle" /\ frame' = "moved" /\ inputs > 0 /\ inputs' = inputs - 1
  /\ \E reload \in (SUBSET Sources) \ {{}} :
       /\ \/ reload = scope
          \/ scope = {} /\ Cardinality(reload) = 1
          \/ reload \subseteq {s \in scope : Listed(pane[s]) # {}}
       /\ LET start == {s \in reload : ~pane[s].inflight} IN
            /\ \A s \in start : GenFree(s, NextGen(pane[s]))
            /\ pane' = [s \in Sources |-> IF s \in start THEN BeginMeta(pane[s]) ELSE pane[s]]
            /\ jobs' = jobs \cup {MetaJob(s, NextGen(pane[s])) : s \in start}
       /\ failed' = {k \in failed : k[1] \notin reload}
  /\ UNCHANGED <<archive, scope, inflight, wanted, faults, selection>>

NewSession(s, k) ==
  /\ k \notin archive[s]
  /\ archive' = [archive EXCEPT ![s] = @ \cup {k}]
  /\ UNCHANGED <<scope, pane, jobs, inflight, wanted, failed, frame, faults,
                 inputs, selection>>

Init ==
  /\ archive \in [Sources -> SUBSET Sessions] /\ selection = [s \in Sources |-> 0]
  /\ scope \in SUBSET Sources
  /\ pane = [s \in Sources |-> EmptyPane]
  /\ jobs = {} /\ inflight = {} /\ wanted = {} /\ failed = {}
  /\ frame = "moved" /\ faults = MaxFaults /\ inputs = MaxInputs

Next ==
  \/ \E j \in jobs : Answer(j) \/ Apply(j)
  \/ Ensure \/ Scroll \/ MarkSources \/ Refresh
  \/ \E s \in Sources, k \in Sessions : NewSession(s, k)

Spec == Init /\ [][Next]_vars

-----------------------------------------------------------------------------
\* Threads end: every query has a time limit.  The loop redraws what changed;
\* it looks at the channel again and again only while IsFetching says so.
ListingsOf(s, gen) == {j \in jobs : j.kind = "meta" /\ j.source = s /\ j.gen = gen}
RecordsOf(k) == {j \in jobs : j.kind = "body" /\ <<j.source, j.session>> = k /\ j.live}

Fairness ==
  /\ WF_vars(Ensure)
  /\ \A s \in Sources, gen \in 1..MaxGen :
       /\ WF_vars(\E j \in ListingsOf(s, gen) : Answer(j))
       /\ WF_vars(IsFetching /\ \E j \in ListingsOf(s, gen) : ApplyListing(j))
  /\ \A k \in Keys :
       /\ WF_vars(\E j \in RecordsOf(k) : Answer(j))
       /\ WF_vars(IsFetching /\ \E j \in RecordsOf(k) : ApplyRecords(j))

FairSpec == Spec /\ Fairness
-----------------------------------------------------------------------------
Body == 0..MaxInputs

Pane == [rows : UNION {[listed -> Body \cup {None}] : listed \in SUBSET Sessions},
         phase : {"idle", "booting", "ready", "failed"}, exhausted : BOOLEAN,
         inflight : BOOLEAN, gen : 0..MaxGen]

Outcome == {"no", "ok", "err"}
Job == [kind : {"meta"}, source : Sources, gen : 1..MaxGen, done : Outcome,
        answer : SUBSET Sessions, live : BOOLEAN]
       \cup [kind : {"body"}, source : Sources, session : Sessions, done : Outcome,
             answer : Body \cup {None}, live : BOOLEAN]

\* The loader's state is well formed, and no more than Cap bodies are waited for.
TypeOK ==
  /\ archive \in [Sources -> SUBSET Sessions] /\ scope \subseteq Sources
  /\ pane \in [Sources -> Pane] /\ jobs \subseteq Job
  /\ inflight \subseteq Keys /\ wanted \subseteq Keys /\ failed \subseteq Keys
  /\ frame \in {"idle", "same", "moved"} /\ faults \in 0..MaxFaults
  /\ inputs \in 0..MaxInputs /\ selection \in [Sources -> Body]
  /\ Cardinality(inflight) <= Cap

Loaded(k) == k[2] \in Listed(pane[k[1]]) /\ pane[k[1]].rows[k[2]] # None

\* The loader waits only for what will come: a pane waits for a listing that is
\* under way and that it will accept, and body_inflight names exactly the body
\* jobs that will report, however often sources were dropped, reselected and
\* reloaded meanwhile (SourceLoadPump).
WaitsHaveJobs ==
  /\ \A s \in Sources : pane[s].inflight =>
       \E j \in jobs : /\ j.kind = "meta" /\ j.source = s /\ j.live
                       /\ j.gen = pane[s].gen
  /\ inflight = {<<j.source, j.session>> : j \in {i \in jobs : i.kind = "body" /\ i.live}}

\* A body on screen was read after its source was last selected: nothing a
\* cancelled job read is shown in a newer selection (body_generation).
BodiesOfThisSelection ==
  \A k \in Keys : Loaded(k) => pane[k[1]].rows[k[2]] = selection[k[1]]

\* A listing, a reload or another body never takes away the body of a session
\* that is still listed, in scope and wanted (merge_by_key, begin_meta).
NeverBlanks ==
  [][\A k \in Keys :
       /\ Loaded(k) /\ k \in wanted /\ k \in wanted'
       /\ k[1] \in scope /\ k[2] \in DOMAIN pane'[k[1]].rows
       => Loaded(k)']_vars

\* A body the window wants is loaded or reported as failed, unless the user
\* moves on: no answer waits undrained while the loop sleeps, no wanted session
\* is left behind by the cap (sync_bodies, is_fetching).
BodySettles ==
  \A k \in Keys : k \in wanted ~> (k \notin wanted \/ k \in failed \/ Loaded(k))
=============================================================================
