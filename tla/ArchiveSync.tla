----------------------------- MODULE ArchiveSync -----------------------------
(***************************************************************************)
(* The session archive (archive.db): one row per source file, refreshed by *)
(* sync passes that list the source, compare stamps and parse what changed *)
(* while agents go on writing the files and other processes (command line, *)
(* MCP server, daemon) run passes of their own over the same database.     *)
(*                                                                         *)
(* One namespace is modelled.  A file is its version: the clock value of   *)
(* its last write stands for its (mtime, size) stamp and for its content.  *)
(***************************************************************************)
EXTENDS Integers

CONSTANTS
  Readers,      \* threads that run passes, for a query or as `sivtr sync`
  FullSyncs,    \* those that are `sivtr sync --full`
  ProcessOf,    \* the operating system process each reader belongs to
  Files,        \* source files of the namespace
  Captures,     \* virtual capture:// paths of `sivtr run` and `sivtr pipe`
  Ids,          \* session ids that transcripts carry
  OldArchive,   \* the archive was created by a build before the migration
  None,         \* no file, no row
  MaxClock      \* bound on the number of writes to source files

ASSUME ReadersAssumption ==
  FullSyncs \subseteq Readers /\ ProcessOf \in [Readers -> {ProcessOf[q] : q \in Readers}]
ASSUME PathsAssumption == Files \cap Captures = {} /\ Ids \cap Captures = {}
ASSUME NoneAssumption == None \notin Files \cup Captures
ASSUME ClockAssumption == MaxClock \in Nat \ {0} /\ OldArchive \in BOOLEAN

VARIABLES
  file,     \* file[f]: its version and the session id it carries; or None
  clock,    \* version of the newest write to any file
  rows,     \* the sessions table with its records and usage events
  synced,   \* last_sync_at is younger than max_age_secs
  migrated, \* the one-time stamp invalidation has been claimed
  pass      \* pass[q]: where reader q is and what its stack holds

vars == <<file, clock, rows, synced, migrated, pass>>

Paths == Files \cup Captures
Versions == 0..MaxClock
Existing == {f \in Files : file[f] # None}

\* `gone` is history: the files that did not exist when the pass listed.
Idle == [pc |-> "idle", todo |-> {}, keep |-> {}, gone |-> {},
         stamps |-> [f \in Files |-> 0], cur |-> None, stamp |-> 0,
         body |-> 0, sid |-> None, dirty |-> FALSE]

-----------------------------------------------------------------------------
(* store.rs: statements and transactions over the sessions table.          *)

\* The row an upsert keeps (at most one): the file's own row before the row
\* of the session id.
Kept(tab, path, sid) ==
  LET idRow   == {r \in tab : r.sid = sid}
      pathRow == {r \in tab : r.path = path}
  IN  IF pathRow # {} THEN pathRow ELSE idRow

\* A slip: the row that loses the id stays.
UpsertedBeside(tab, path, sid, stamp, body, usage) ==
  (tab \ Kept(tab, path, sid))
    \cup {[path |-> path, sid |-> sid, stamp |-> stamp, body |-> body,
           usage |-> usage, star |-> \E r \in Kept(tab, path, sid) : r.star]}

\* Insert or replace one session: the file's row adopts the id, and a row of
\* another file that held the id is deleted.
Upserted(tab, path, sid, stamp, body, usage) ==
  {r \in tab : r.path # path /\ r.sid # sid}
    \cup {[path |-> path, sid |-> sid, stamp |-> stamp, body |-> body,
           usage |-> usage, star |-> \E r \in Kept(tab, path, sid) : r.star]}

WithoutOthers(tab, keep) == {r \in tab : r.path \in keep}   \* a slip: captures too

\* Delete the rows of files the listing did not return; captures stay.
WithoutMissing(tab, keep) == {r \in tab : r.path \in keep \cup Captures}

\* provider_stamps: the stamp each file had at its last sync.
StampOf(f) == LET row == {r \in rows : r.path = f}
              IN  IF row = {} THEN 0 ELSE (CHOOSE r \in row : TRUE).stamp

-----------------------------------------------------------------------------
(* The world: agents append to, rewrite and delete their transcripts.      *)

WriteFile(f) ==
  /\ clock < MaxClock
  /\ clock' = clock + 1
  /\ \E sid \in Ids : file' = [file EXCEPT ![f] = [ver |-> clock + 1, sid |-> sid]]
  /\ UNCHANGED <<rows, synced, migrated, pass>>

DeleteFile(f) ==
  /\ file[f] # None
  /\ file' = [file EXCEPT ![f] = None]
  /\ UNCHANGED <<clock, rows, synced, migrated, pass>>

\* max_age_secs go by since the last clean pass.
Expire ==
  /\ synced
  /\ synced' = FALSE
  /\ UNCHANGED <<file, clock, rows, migrated, pass>>

-----------------------------------------------------------------------------
(* Commands that write the archive outside a pass.                         *)

Capture(c) ==
  /\ \A r \in rows : r.path # c
  /\ rows' = Upserted(rows, c, c, 0, 0, 0)
  /\ UNCHANGED <<file, clock, synced, migrated, pass>>

SetStarred(sid, on) ==
  /\ \E r \in rows : r.sid = sid
  /\ rows' = {IF r.sid = sid THEN [r EXCEPT !.star = on] ELSE r : r \in rows}
  /\ UNCHANGED <<file, clock, synced, migrated, pass>>

\* First open by a build with the repaired parser: forget the stamps and the
\* freshness mark, keep records, stars and captures.
Migrate ==
  /\ ~migrated
  /\ migrated' = TRUE
  /\ rows' = {IF r.path \in Files THEN [r EXCEPT !.stamp = 0] ELSE r : r \in rows}
  /\ synced' = FALSE
  /\ UNCHANGED <<file, clock, pass>>

-----------------------------------------------------------------------------
(* sync.rs: one pass.  Each step is one file system or database call.      *)

InPass(q) == pass[q].pc # "idle"

At(q, pc) == pass[q].pc = pc

Go(q, next) == pass' = [pass EXCEPT ![q] = next]

Ungated(q) == FALSE   \* a slip: no gate

\* FRESH_GATE: a query of the same process is already running a pass.
Gated(q) == \E p \in Readers \ FullSyncs : ProcessOf[p] = ProcessOf[q] /\ InPass(p)

\* A query runs a pass unless the gate is held or the last pass is recent (it
\* then reads the archive as it is); `sivtr sync --full` always runs one.
StartPass(q) ==
  /\ At(q, "idle")
  /\ q \in FullSyncs \/ (~Gated(q) /\ ~synced)
  /\ Go(q, [Idle EXCEPT !.pc = "list"])
  /\ UNCHANGED <<file, clock, rows, synced, migrated>>

\* source_paths, which decides what is removed at the end; a failing listing
\* removes nothing.
SeenOnly(seen, error) == seen   \* a slip: failing or not
SourcePaths(seen, error) == IF error THEN Files ELSE seen

\* The listing returns every file, or fails for the whole source or for some
\* workspaces of it; what a failing listing did return is still synced.  The
\* stamps are read right after (newer ones only make the pass skip more); a
\* full sync ignores them.
List(q) ==
  /\ At(q, "list")
  /\ \E seen \in SUBSET Existing, error \in BOOLEAN :
       /\ ~error => seen = Existing
       /\ Go(q, [pass[q] EXCEPT !.pc = "files", !.todo = seen,
                !.keep = SourcePaths(seen, error), !.gone = Files \ Existing,
                !.stamps = [f \in Files |-> IF q \notin FullSyncs /\ f \in seen
                                           THEN StampOf(f) ELSE 0],
                !.dirty = error])
  /\ UNCHANGED <<file, clock, rows, synced, migrated>>

SeenBefore(q, f) == pass[q].stamps[f] # 0   \* a slip: synced once is enough
Unchanged(q, f) == pass[q].stamps[f] = file[f].ver

\* The next listed file: gone, unchanged since its last sync, or to parse.
StatFile(q, f) ==
  /\ At(q, "files") /\ f \in pass[q].todo
  /\ LET rest == [pass[q] EXCEPT !.todo = @ \ {f}, !.stamps[f] = 0] IN
       Go(q, IF file[f] = None THEN [rest EXCEPT !.dirty = TRUE]
             ELSE IF Unchanged(q, f) THEN rest
             ELSE [rest EXCEPT !.pc = "parse", !.cur = f, !.stamp = file[f].ver])
  /\ UNCHANGED <<file, clock, rows, synced, migrated>>

\* A slip: a failed file's locals stay.
NextFileAs(q, dirty) == [pass[q] EXCEPT !.pc = "files", !.dirty = @ \/ dirty]

NextFile(q, dirty) == [pass[q] EXCEPT !.pc = "files", !.cur = None, !.stamp = 0,
                                      !.body = 0, !.sid = None, !.dirty = @ \/ dirty]

\* sync_session reads the transcript for its records and its session id; a
\* half-written one or one without an id fails, and its row stays ...
ParseFile(q) ==
  /\ At(q, "parse")
  /\ LET now == file[pass[q].cur] IN
       \/ /\ now # None
          /\ Go(q, [pass[q] EXCEPT !.pc = "store", !.body = now.ver, !.sid = now.sid])
       \/ Go(q, NextFile(q, TRUE))
  /\ UNCHANGED <<file, clock, rows, synced, migrated>>

\* The stamp of the row is the one taken before the file was read.
StampNow(p) == file[p.cur].ver   \* a slip: taken when it is stored
RowStamp(p) == p.stamp

\* ... reads it again for its token usage, and stores records, usage and the
\* stamp in one transaction; both may fail, the transaction when another
\* process writes between its reads and its first write.
StoreSession(q) ==
  /\ At(q, "store")
  /\ LET p == pass[q]
         now == file[p.cur] IN
     \/ /\ now # None
        /\ rows' = Upserted(rows, p.cur, p.sid, RowStamp(p), p.body, now.ver)
        /\ Go(q, NextFile(q, FALSE))
     \/ /\ Go(q, NextFile(q, TRUE))
        /\ UNCHANGED rows
  /\ UNCHANGED <<file, clock, synced, migrated>>

\* Reconcile removals against this pass's listing.
RemoveMissing(q) ==
  /\ At(q, "files") /\ pass[q].todo = {}
  /\ rows' = WithoutMissing(rows, pass[q].keep)
  /\ Go(q, [Idle EXCEPT !.pc = "finish", !.dirty = pass[q].dirty])
  /\ UNCHANGED <<file, clock, synced, migrated>>

\* The freshness mark is set last, and only by a clean pass.
FinishPass(q) ==
  /\ At(q, "finish")
  /\ synced' = (synced \/ ~pass[q].dirty)
  /\ Go(q, Idle)
  /\ UNCHANGED <<file, clock, rows, migrated>>

\* The process is interrupted; its database transactions were all committed.
Interrupt(q) ==
  /\ InPass(q)
  /\ Go(q, Idle)
  /\ UNCHANGED <<file, clock, rows, synced, migrated>>

PassStep(q) ==
  \/ StartPass(q)     \/ List(q)        \/ ParseFile(q) \/ StoreSession(q)
  \/ RemoveMissing(q) \/ FinishPass(q)  \/ Interrupt(q)
  \/ \E f \in Files : StatFile(q, f)

Outside ==
  \/ Expire \/ Migrate
  \/ \E f \in Files : WriteFile(f) \/ DeleteFile(f)
  \/ \E c \in Captures : Capture(c)
  \/ \E sid \in Ids, on \in BOOLEAN : SetStarred(sid, on)

Init ==
  /\ file \in [Files -> {None} \cup [ver : {1}, sid : Ids]]
  /\ clock = 1 /\ rows = {} /\ synced = FALSE /\ migrated = ~OldArchive
  /\ pass = [q \in Readers |-> Idle]

Next == Outside \/ \E q \in Readers : PassStep(q)

Spec == Init /\ [][Next]_vars

\* Queries keep coming and time passes; an interrupted or failed step that is
\* tried again and again succeeds at times.
Listed(q) == List(q) /\ ~pass'[q].dirty
Parsed(q, f) == pass[q].cur = f /\ ParseFile(q) /\ pass'[q].pc = "store"
Removed(q) == RemoveMissing(q) /\ rows' # rows
Stored(q, f) == pass[q].cur = f /\ StoreSession(q) /\ rows' # rows

Fairness ==
  /\ WF_vars(Expire)
  /\ WF_vars(\E q \in Readers : StartPass(q))
  /\ \A q \in Readers :
       /\ WF_vars(PassStep(q)) /\ SF_vars(Listed(q)) /\ SF_vars(Removed(q))
       /\ \A f \in Files :
            SF_vars(StatFile(q, f)) /\ SF_vars(Parsed(q, f)) /\ SF_vars(Stored(q, f))

FairSpec == Spec /\ Fairness

-----------------------------------------------------------------------------
FileState == {None} \cup [ver : 1..MaxClock, sid : Ids]

Row == [path : Paths, sid : Ids \cup Captures, stamp : Versions,
        body : Versions, usage : Versions, star : BOOLEAN]

Pass == [pc : {"idle", "list", "files", "parse", "store", "finish"},
         todo : SUBSET Files, keep : SUBSET Files, gone : SUBSET Files,
         stamps : [Files -> Versions], cur : Files \cup {None}, stamp : Versions,
         body : Versions, sid : Ids \cup {None}, dirty : BOOLEAN]

\* The tables and the stacks hold what the code can put there; no row is newer
\* than the file ever was.
TypeOK ==
  /\ file \in [Files -> FileState] /\ clock \in Versions
  /\ \A r \in rows : r \in Row /\ r.stamp <= r.body /\ r.body <= r.usage /\ r.usage <= clock
  /\ synced \in BOOLEAN /\ migrated \in BOOLEAN
  /\ pass \in [Readers -> Pass]
  /\ \A q \in Readers : (pass[q].cur # None) = (pass[q].pc \in {"parse", "store"})

\* One row per source file and per session id, whichever id a
\* file's transcript claims and whoever claimed it before (upsert_session).
OneRowPerFile ==
  \A r, s \in rows : r.path = s.path \/ r.sid = s.sid => r = s

\* A row whose stamp is the file's present stamp holds the file's present
\* records, id and usage: what a pass skips as unchanged, and what a load
\* accepts as fresh, is never an older parse (sync_provider, fresh_session_row).
FreshRowIsCurrent ==
  \A r \in rows : r.path \in Existing =>
    (r.stamp = file[r.path].ver =>
       r.body = r.stamp /\ r.usage = r.stamp /\ r.sid = file[r.path].sid)

\* Output of `sivtr run` and `sivtr pipe` has no source file to come back
\* from: no pass and no migration ever removes it (remove_missing_sessions).
CapturesKept ==
  [][\A r \in rows : r.path \in Captures => r \in rows']_vars

\* A star goes away only by the user's hand, when another file takes over the
\* session id, when the file changes its id, or when a pass did not find the
\* file: never because a listing failed, a transcript was half written or a
\* pass was interrupted.
StarsKept ==
  [][\A r \in rows : r.star /\ (\A s \in rows' : s.sid = r.sid => ~s.star) =>
       \/ SetStarred(r.sid, FALSE)
       \/ \E s \in rows' : (s.path = r.path) # (s.sid = r.sid)
       \/ \E q \in Readers : r.path \in pass[q].gone]_vars

\* The passes of one process never take a session's records back to an older
\* parse (FRESH_GATE).
NoRegress ==
  [][\A r \in rows, s \in rows' : r.path = s.path => r.body <= s.body]_vars

Unrivalled(f) == \A g \in Existing \ {f} : file[g].sid # file[f].sid
Archived(f) == \E r \in rows : /\ r.path = f /\ r.sid = file[f].sid
                               /\ r.body = file[f].ver /\ r.usage = file[f].ver

\* When files stop changing, the archive becomes what they say and stays so,
\* whatever failed, was skipped or was interrupted before (sync_sources).
CatchesUp ==
  \A f \in Files :
    /\ <>[](f \in Existing /\ Unrivalled(f) => Archived(f))
    /\ <>[](f \notin Existing => \A r \in rows : r.path # f)
=============================================================================
