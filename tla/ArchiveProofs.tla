---------------------------- MODULE ArchiveProofs ----------------------------
(* For any readers, processes, files, captures and ids: the archive holds    *)
(* one row per file, a row that looks fresh is, captures and stars stay, and *)
(* the passes of one process never take a row back.                          *)
EXTENDS ArchiveSync, TLAPS

(* A row is never newer than its file, and has the file's id when it holds   *)
(* what the file holds; a capture's id is its path.                          *)
RowGood(r) ==
  /\ r \in Row /\ r.stamp <= r.body /\ r.body <= r.usage /\ r.usage <= clock
  /\ r.path \in Captures => r.sid = r.path
  /\ r.path \in Files => r.sid \in Ids
  /\ r.path \in Existing => r.usage <= file[r.path].ver
  /\ r.path \in Existing /\ r.body = file[r.path].ver => r.sid = file[r.path].sid

(* What a reader has on its stack is no newer than the file is; the stamp    *)
(* was taken before the records, the records came with their id.             *)
PassGood(p) ==
  /\ p \in Pass /\ ((p.cur # None) = (p.pc \in {"parse", "store"}))
  /\ p.stamp <= clock /\ p.body <= clock
  /\ p.pc \in {"parse", "store"} /\ p.cur \in Existing => p.stamp <= file[p.cur].ver
  /\ p.pc = "store" =>
       /\ p.sid \in Ids /\ p.stamp <= p.body
       /\ p.cur \in Existing => p.body <= file[p.cur].ver
       /\ p.cur \in Existing /\ p.body = file[p.cur].ver => p.sid = file[p.cur].sid

FilesGood ==
  /\ file \in [Files -> FileState] /\ clock \in Versions
  /\ \A f \in Existing : file[f].ver <= clock

PassesGood == pass \in [Readers -> Pass] /\ \A q \in Readers : PassGood(pass[q])

ArchiveInv ==
  /\ FilesGood /\ PassesGood /\ OneRowPerFile
  /\ \A r \in rows : RowGood(r)
  /\ synced \in BOOLEAN /\ migrated \in BOOLEAN

-----------------------------------------------------------------------------
(* Steps that leave the files alone: one reader moves. *)
LEMMA KeepGo ==
  ASSUME ArchiveInv, NEW q \in Readers, NEW next, PassGood(next), Go(q, next),
         UNCHANGED <<file, clock>>
  PROVE  FilesGood' /\ PassesGood' /\ (\A r : RowGood(r) => RowGood(r)')
<1>1. next \in Pass
  BY DEF PassGood
<1>2. pass' \in [Readers -> Pass]
  BY <1>1 DEF ArchiveInv, PassesGood, Go
<1>3. ASSUME NEW p, PassGood(p) PROVE PassGood(p)'
  BY <1>3 DEF PassGood, Existing
<1>4. ASSUME NEW p \in Readers PROVE PassGood(pass'[p])
  BY DEF ArchiveInv, PassesGood, Go
<1>5. PassesGood'
  BY <1>2, <1>3, <1>4 DEF PassesGood
<1>6. FilesGood'
  BY DEF ArchiveInv, FilesGood, Existing
<1>7. QED
  BY <1>5, <1>6 DEF RowGood, Existing

(* Steps of commands: no reader moves. *)
LEMMA KeepStill ==
  ASSUME ArchiveInv, UNCHANGED <<file, clock, pass>>
  PROVE  FilesGood' /\ PassesGood' /\ (\A r : RowGood(r) => RowGood(r)')
BY DEF ArchiveInv, FilesGood, PassesGood, PassGood, RowGood, Existing

(* What upsert_session leaves: rows of other files and ids, and the new one. *)
LEMMA UpsertedRows ==
  ASSUME NEW tab, NEW path, NEW sid, NEW stamp, NEW body, NEW usage
  PROVE  \E new :
           /\ \E star \in BOOLEAN :
                new = [path |-> path, sid |-> sid, stamp |-> stamp, body |-> body,
                       usage |-> usage, star |-> star]
           /\ Upserted(tab, path, sid, stamp, body, usage)
                = {r \in tab : r.path # path /\ r.sid # sid} \cup {new}
<1> DEFINE star == \E r \in Kept(tab, path, sid) : r.star
           new == [path |-> path, sid |-> sid, stamp |-> stamp, body |-> body,
                   usage |-> usage, star |-> star]
<1>1. star \in BOOLEAN
  OBVIOUS
<1>2. Upserted(tab, path, sid, stamp, body, usage)
        = {r \in tab : r.path # path /\ r.sid # sid} \cup {new}
  BY DEF Upserted
<1>3. QED
  <2> HIDE DEF star
  <2>1. QED
    BY <1>1, <1>2

(* An upsert keeps one row per file and per id. *)
LEMMA UpsertKeepsOne ==
  ASSUME OneRowPerFile, NEW path, NEW sid, NEW stamp, NEW body, NEW usage,
         rows' = Upserted(rows, path, sid, stamp, body, usage)
  PROVE  OneRowPerFile'
<1>1. PICK new :
        /\ \E star \in BOOLEAN :
             new = [path |-> path, sid |-> sid, stamp |-> stamp, body |-> body,
                    usage |-> usage, star |-> star]
        /\ rows' = {r \in rows : r.path # path /\ r.sid # sid} \cup {new}
  BY UpsertedRows
<1>2. new.path = path /\ new.sid = sid
  BY <1>1
<1>3. QED
  BY <1>1, <1>2 DEF OneRowPerFile

-----------------------------------------------------------------------------
LEMMA KeepWrite ==
  ASSUME ArchiveInv, NEW f \in Files, WriteFile(f)
  PROVE  ArchiveInv'
<1>1. PICK sid \in Ids : file' = [file EXCEPT ![f] = [ver |-> clock + 1, sid |-> sid]]
  BY DEF WriteFile
<1>2. /\ clock \in Versions /\ clock < MaxClock /\ clock' = clock + 1
      /\ UNCHANGED <<rows, synced, migrated, pass>>
  BY DEF WriteFile, ArchiveInv, FilesGood
<1>3. clock + 1 \in 1..MaxClock /\ clock \in Nat /\ clock + 1 \in Versions
  BY <1>2, ClockAssumption DEF Versions
<1>4. file' \in [Files -> FileState] /\ clock' \in Versions
  BY <1>1, <1>2, <1>3 DEF ArchiveInv, FilesGood, FileState
<1>5. /\ file'[f].ver = clock + 1
      /\ \A g \in Files \ {f} : file'[g] = file[g]
  BY <1>1 DEF ArchiveInv, FilesGood
<1>6. \A g \in Existing' : g \in Files /\ (g # f => g \in Existing)
  BY <1>5 DEF Existing
<1>7. \A g \in Existing : file[g].ver \in Nat /\ file[g].ver <= clock
  BY ClockAssumption DEF ArchiveInv, FilesGood, FileState, Existing
<1>8. FilesGood'
  BY <1>2, <1>3, <1>4, <1>5, <1>6, <1>7 DEF FilesGood
<1>9. ASSUME NEW r, RowGood(r) PROVE RowGood(r)'
  <2>1. r.usage \in Nat /\ r.body \in Nat /\ r.body <= r.usage /\ r.usage <= clock
    BY <1>9 DEF RowGood, Row, Versions
  <2>2. /\ r.path \in Existing' => r.usage <= file'[r.path].ver
        /\ r.path \in Existing' /\ r.body = file'[r.path].ver => r.sid = file'[r.path].sid
    <3>1. CASE r.path = f
      BY <1>3, <1>5, <2>1, <3>1
    <3>2. CASE r.path # f
      BY <1>5, <1>6, <1>9, <3>2 DEF RowGood
    <3>3. QED
      BY <3>1, <3>2
  <2>3. QED
    BY <1>2, <1>3, <1>9, <2>1, <2>2 DEF RowGood
<1>10. ASSUME NEW p, PassGood(p) PROVE PassGood(p)'
  <2>1. p.stamp \in Nat /\ p.body \in Nat /\ p.stamp <= clock /\ p.body <= clock
    BY <1>10 DEF PassGood, Pass, Versions
  <2>2. p.cur \in Existing' =>
          \/ p.cur = f /\ file'[p.cur].ver = clock + 1
          \/ p.cur \in Existing /\ file'[p.cur] = file[p.cur]
    BY <1>5, <1>6
  <2>3. QED
    BY <1>2, <1>3, <1>10, <2>1, <2>2 DEF PassGood
<1>11. QED
  BY <1>2, <1>8, <1>9, <1>10 DEF ArchiveInv, PassesGood, OneRowPerFile

LEMMA KeepDelete ==
  ASSUME ArchiveInv, NEW f \in Files, DeleteFile(f)
  PROVE  ArchiveInv'
<1>1. /\ file' = [file EXCEPT ![f] = None]
      /\ UNCHANGED <<clock, rows, synced, migrated, pass>>
  BY DEF DeleteFile
<1>2. file' \in [Files -> FileState]
  BY <1>1 DEF ArchiveInv, FilesGood, FileState
<1>3. \A g \in Existing' : g \in Existing /\ file'[g] = file[g]
  BY <1>1 DEF Existing, ArchiveInv, FilesGood
<1>4. FilesGood'
  BY <1>1, <1>2, <1>3 DEF ArchiveInv, FilesGood
<1>5. ASSUME NEW r, RowGood(r) PROVE RowGood(r)'
  BY <1>1, <1>3, <1>5 DEF RowGood
<1>6. ASSUME NEW p, PassGood(p) PROVE PassGood(p)'
  BY <1>1, <1>3, <1>6 DEF PassGood
<1>7. QED
  BY <1>1, <1>4, <1>5, <1>6 DEF ArchiveInv, PassesGood, OneRowPerFile

-----------------------------------------------------------------------------
LEMMA KeepCapture ==
  ASSUME ArchiveInv, NEW c \in Captures, Capture(c)
  PROVE  ArchiveInv'
<1>1. /\ rows' = Upserted(rows, c, c, 0, 0, 0)
      /\ UNCHANGED <<file, clock, synced, migrated, pass>>
  BY DEF Capture
<1>2. FilesGood' /\ PassesGood' /\ \A r : RowGood(r) => RowGood(r)'
  BY <1>1, KeepStill
<1>3. OneRowPerFile'
  BY <1>1, UpsertKeepsOne DEF ArchiveInv
<1>4. PICK new :
        /\ \E star \in BOOLEAN : new = [path |-> c, sid |-> c, stamp |-> 0, body |-> 0,
                                      usage |-> 0, star |-> star]
        /\ rows' = {r \in rows : r.path # c /\ r.sid # c} \cup {new}
  BY <1>1, UpsertedRows
<1>5. new \in Row
  BY <1>4, ClockAssumption DEF Row, Paths, Versions
<1>6. RowGood(new)
  BY <1>4, <1>5, PathsAssumption, ClockAssumption
  DEF RowGood, Existing, ArchiveInv, FilesGood, Versions
<1>7. QED
  BY <1>1, <1>2, <1>3, <1>4, <1>6 DEF ArchiveInv

(* A command that rewrites rows in place keeps them one per file. *)
LEMMA KeepStarred ==
  ASSUME ArchiveInv, NEW sid \in Ids, NEW on \in BOOLEAN, SetStarred(sid, on)
  PROVE  ArchiveInv'
<1> DEFINE new(r) == IF r.sid = sid THEN [r EXCEPT !.star = on] ELSE r
<1>1. /\ rows' = {new(r) : r \in rows}
      /\ UNCHANGED <<file, clock, synced, migrated, pass>>
  BY DEF SetStarred
<1>2. FilesGood' /\ PassesGood' /\ \A r : RowGood(r) => RowGood(r)'
  BY <1>1, KeepStill
<1>3. ASSUME NEW r \in Row
      PROVE  /\ new(r) \in Row /\ new(r).path = r.path /\ new(r).sid = r.sid
             /\ new(r).stamp = r.stamp /\ new(r).body = r.body /\ new(r).usage = r.usage
  BY <1>3 DEF Row
<1>4. \A r \in rows : r \in Row /\ RowGood(r)
  BY DEF ArchiveInv, RowGood
<1> HIDE DEF new
<1>5. ASSUME NEW r \in rows PROVE RowGood(new(r))
  BY <1>3, <1>4 DEF RowGood
<1>6. OneRowPerFile'
  BY <1>1, <1>3, <1>4 DEF OneRowPerFile, ArchiveInv
<1>7. QED
  BY <1>1, <1>2, <1>5, <1>6 DEF ArchiveInv

LEMMA KeepMigrate ==
  ASSUME ArchiveInv, Migrate
  PROVE  ArchiveInv'
<1> DEFINE new(r) == IF r.path \in Files THEN [r EXCEPT !.stamp = 0] ELSE r
<1>1. /\ rows' = {new(r) : r \in rows} /\ migrated' = TRUE /\ synced' = FALSE
      /\ UNCHANGED <<file, clock, pass>>
  BY DEF Migrate
<1>2. FilesGood' /\ PassesGood' /\ \A r : RowGood(r) => RowGood(r)'
  BY <1>1, KeepStill
<1>3. ASSUME NEW r \in Row
      PROVE  /\ new(r) \in Row /\ new(r).path = r.path /\ new(r).sid = r.sid
             /\ new(r).stamp \in {0, r.stamp} /\ new(r).body = r.body
             /\ new(r).usage = r.usage
  BY <1>3, ClockAssumption DEF Row, Versions
<1>4. \A r \in rows : r \in Row /\ RowGood(r)
  BY DEF ArchiveInv, RowGood
<1> HIDE DEF new
<1>5. ASSUME NEW r \in rows PROVE RowGood(new(r))
  BY <1>3, <1>4, ClockAssumption DEF RowGood, Row, Versions
<1>6. OneRowPerFile'
  BY <1>1, <1>3, <1>4 DEF OneRowPerFile, ArchiveInv
<1>7. QED
  BY <1>1, <1>2, <1>5, <1>6 DEF ArchiveInv

-----------------------------------------------------------------------------
(* A reader that holds no file. *)
LEMMA EmptyHanded ==
  ASSUME FilesGood, NEW p \in Pass, p.cur = None, p.pc \notin {"parse", "store"},
         p.stamp = 0, p.body = 0
  PROVE  PassGood(p)
<1>1. 0 <= clock
  BY ClockAssumption DEF Versions, FilesGood
<1>2. QED
  BY <1>1 DEF PassGood

LEMMA IdleTyped ==
  ASSUME NEW pc \in {"idle", "list", "finish"}, NEW dirty \in BOOLEAN
  PROVE  /\ [Idle EXCEPT !.pc = pc, !.dirty = dirty] \in Pass
         /\ Idle \in Pass /\ [Idle EXCEPT !.pc = pc] \in Pass
<1> DEFINE none == [f \in Files |-> 0]
<1>1. 0 \in Versions
  BY ClockAssumption DEF Versions
<1>2. none \in [Files -> Versions]
  BY <1>1
<1>3. Idle = [pc |-> "idle", todo |-> {}, keep |-> {}, gone |-> {}, stamps |-> none,
              cur |-> None, stamp |-> 0, body |-> 0, sid |-> None, dirty |-> FALSE]
  BY DEF Idle
<1> HIDE DEF none
<1>4. Idle \in Pass
  BY <1>1, <1>2, <1>3 DEF Pass
<1>5. QED
  BY <1>4 DEF Pass

LEMMA IdleGood ==
  ASSUME FilesGood
  PROVE  PassGood(Idle) /\ PassGood([Idle EXCEPT !.pc = "list"])
<1>1. Idle \in Pass /\ [Idle EXCEPT !.pc = "list"] \in Pass
  BY IdleTyped
<1>2. Idle.cur = None /\ Idle.pc = "idle" /\ Idle.stamp = 0 /\ Idle.body = 0
  BY DEF Idle
<1>3. /\ [Idle EXCEPT !.pc = "list"].cur = None /\ [Idle EXCEPT !.pc = "list"].pc = "list"
      /\ [Idle EXCEPT !.pc = "list"].stamp = 0 /\ [Idle EXCEPT !.pc = "list"].body = 0
  BY DEF Idle
<1>4. QED
  BY <1>1, <1>2, <1>3, EmptyHanded

LEMMA KeepStart ==
  ASSUME ArchiveInv, NEW q \in Readers, StartPass(q)
  PROVE  ArchiveInv'
<1>1. /\ Go(q, [Idle EXCEPT !.pc = "list"])
      /\ UNCHANGED <<file, clock, rows, synced, migrated>>
  BY DEF StartPass
<1>2. FilesGood' /\ PassesGood' /\ \A r : RowGood(r) => RowGood(r)'
  BY <1>1, IdleGood, KeepGo DEF ArchiveInv
<1>3. QED
  BY <1>1, <1>2 DEF ArchiveInv, OneRowPerFile

LEMMA KeepInterrupt ==
  ASSUME ArchiveInv, NEW q \in Readers, Interrupt(q)
  PROVE  ArchiveInv'
<1>1. Go(q, Idle) /\ UNCHANGED <<file, clock, rows, synced, migrated>>
  BY DEF Interrupt
<1>2. FilesGood' /\ PassesGood' /\ \A r : RowGood(r) => RowGood(r)'
  BY <1>1, IdleGood, KeepGo DEF ArchiveInv
<1>3. QED
  BY <1>1, <1>2 DEF ArchiveInv, OneRowPerFile

LEMMA KeepFinish ==
  ASSUME ArchiveInv, NEW q \in Readers, FinishPass(q)
  PROVE  ArchiveInv'
<1>1. /\ Go(q, Idle) /\ UNCHANGED <<file, clock, rows, migrated>>
      /\ synced' = (synced \/ ~pass[q].dirty)
  BY DEF FinishPass
<1>2. FilesGood' /\ PassesGood' /\ \A r : RowGood(r) => RowGood(r)'
  BY <1>1, IdleGood, KeepGo DEF ArchiveInv
<1>3. QED
  BY <1>1, <1>2 DEF ArchiveInv, OneRowPerFile

LEMMA KeepRemove ==
  ASSUME ArchiveInv, NEW q \in Readers, RemoveMissing(q)
  PROVE  ArchiveInv'
<1> DEFINE next == [Idle EXCEPT !.pc = "finish", !.dirty = pass[q].dirty]
<1>1. /\ Go(q, next) /\ UNCHANGED <<file, clock, synced, migrated>>
      /\ rows' \subseteq rows
  BY DEF RemoveMissing, WithoutMissing
<1>2. pass[q].dirty \in BOOLEAN
  BY DEF ArchiveInv, PassesGood, Pass
<1>3. PassGood(next)
  <2>1. next \in Pass
    BY <1>2, IdleTyped
  <2>2. next.cur = None /\ next.pc = "finish" /\ next.stamp = 0 /\ next.body = 0
    BY DEF Idle
  <2>3. QED
    BY <2>1, <2>2, EmptyHanded DEF ArchiveInv
<1> HIDE DEF next
<1>4. FilesGood' /\ PassesGood' /\ \A r : RowGood(r) => RowGood(r)'
  BY <1>1, <1>3, KeepGo
<1>5. QED
  BY <1>1, <1>4 DEF ArchiveInv, OneRowPerFile

LEMMA StampTyped ==
  ASSUME ArchiveInv, NEW f
  PROVE  StampOf(f) \in Versions
<1>1. \A r \in rows : r.stamp \in Versions
  BY DEF ArchiveInv, RowGood, Row
<1>2. QED
  BY <1>1, ClockAssumption DEF StampOf, Versions

LEMMA KeepList ==
  ASSUME ArchiveInv, NEW q \in Readers, List(q)
  PROVE  ArchiveInv'
<1>1. PICK seen \in SUBSET Existing, error \in BOOLEAN :
        Go(q, [pass[q] EXCEPT !.pc = "files", !.todo = seen,
                !.keep = SourcePaths(seen, error), !.gone = Files \ Existing,
                !.stamps = [f \in Files |-> IF q \notin FullSyncs /\ f \in seen
                                           THEN StampOf(f) ELSE 0],
                !.dirty = error])
  BY DEF List
<1> DEFINE stamps == [f \in Files |-> IF q \notin FullSyncs /\ f \in seen
                                       THEN StampOf(f) ELSE 0]
           next == [pass[q] EXCEPT !.pc = "files", !.todo = seen,
                      !.keep = SourcePaths(seen, error), !.gone = Files \ Existing,
                      !.stamps = stamps, !.dirty = error]
<1>2. UNCHANGED <<file, clock, rows, synced, migrated>> /\ pass[q].pc = "list"
  BY DEF List, At
<1>3. stamps \in [Files -> Versions]
  BY StampTyped, ClockAssumption DEF Versions
<1>4. seen \subseteq Files /\ SourcePaths(seen, error) \subseteq Files
  BY DEF Existing, SourcePaths
<1>5. PassGood(pass[q])
  BY DEF ArchiveInv, PassesGood
<1> HIDE DEF stamps
<1>6. PassGood(next)
  <2>1. next \in Pass
    BY <1>3, <1>4, <1>5 DEF PassGood, Pass
  <2>2. /\ next.cur = pass[q].cur /\ next.stamp = pass[q].stamp
        /\ next.body = pass[q].body /\ next.pc = "files"
    BY <1>5 DEF PassGood, Pass
  <2>3. QED
    BY <1>2, <1>5, <2>1, <2>2 DEF PassGood
<1>7. FilesGood' /\ PassesGood' /\ \A r : RowGood(r) => RowGood(r)'
  BY <1>1, <1>2, <1>6, KeepGo DEF stamps
<1>8. QED
  BY <1>2, <1>7 DEF ArchiveInv, OneRowPerFile

LEMMA KeepStat ==
  ASSUME ArchiveInv, NEW q \in Readers, NEW f \in Files, StatFile(q, f)
  PROVE  ArchiveInv'
<1> DEFINE rest == [pass[q] EXCEPT !.todo = @ \ {f}, !.stamps[f] = 0]
           gone == [rest EXCEPT !.dirty = TRUE]
           found == [rest EXCEPT !.pc = "parse", !.cur = f, !.stamp = file[f].ver]
<1>1. /\ pass[q].pc = "files" /\ UNCHANGED <<file, clock, rows, synced, migrated>>
      /\ Go(q, IF file[f] = None THEN gone ELSE IF Unchanged(q, f) THEN rest ELSE found)
  BY DEF StatFile, At
<1>2. PassGood(pass[q])
  BY DEF ArchiveInv, PassesGood
<1>3. 0 \in Versions
  BY ClockAssumption DEF Versions
<1>4. /\ rest \in Pass /\ rest.pc = "files" /\ rest.cur = pass[q].cur
      /\ rest.stamp = pass[q].stamp /\ rest.body = pass[q].body
  BY <1>1, <1>2, <1>3 DEF PassGood, Pass
<1> HIDE DEF rest
<1>5. PassGood(rest)
  BY <1>1, <1>2, <1>4 DEF PassGood
<1>6. PassGood(gone)
  BY <1>4, <1>5 DEF PassGood, Pass
<1>7. ASSUME file[f] # None PROVE PassGood(found)
  <2>1. /\ f \in Existing /\ file[f].ver \in 1..MaxClock /\ file[f].ver <= clock
    BY <1>7 DEF ArchiveInv, FilesGood, FileState, Existing
  <2>2. file[f].ver \in Versions
    BY <2>1, ClockAssumption DEF Versions
  <2>3. /\ found \in Pass /\ found.pc = "parse" /\ found.cur = f
        /\ found.stamp = file[f].ver /\ found.body = rest.body
    BY <1>4, <2>2 DEF Pass
  <2>4. file[f].ver <= file[f].ver
    BY <2>1
  <2>5. QED
    BY <1>5, <2>1, <2>3, <2>4, NoneAssumption DEF PassGood
<1> HIDE DEF gone, found
<1>8. FilesGood' /\ PassesGood' /\ \A r : RowGood(r) => RowGood(r)'
  BY <1>1, <1>5, <1>6, <1>7, KeepGo
<1>9. QED
  BY <1>1, <1>8 DEF ArchiveInv, OneRowPerFile

LEMMA NextFileGood ==
  ASSUME ArchiveInv, NEW q \in Readers, NEW dirty \in BOOLEAN
  PROVE  PassGood(NextFile(q, dirty))
<1>1. pass[q] \in Pass /\ 0 \in Versions
  BY ClockAssumption DEF ArchiveInv, PassesGood, Versions
<1>2. /\ NextFile(q, dirty) \in Pass /\ NextFile(q, dirty).cur = None
      /\ NextFile(q, dirty).pc = "files" /\ NextFile(q, dirty).stamp = 0
      /\ NextFile(q, dirty).body = 0
  BY <1>1 DEF NextFile, Pass
<1>3. QED
  BY <1>2, EmptyHanded DEF ArchiveInv

LEMMA KeepParse ==
  ASSUME ArchiveInv, NEW q \in Readers, ParseFile(q)
  PROVE  ArchiveInv'
<1> DEFINE now == file[pass[q].cur]
           parsed == [pass[q] EXCEPT !.pc = "store", !.body = now.ver, !.sid = now.sid]
<1>1. /\ pass[q].pc = "parse" /\ UNCHANGED <<file, clock, rows, synced, migrated>>
      /\ (now # None /\ Go(q, parsed)) \/ Go(q, NextFile(q, TRUE))
  BY DEF ParseFile, At
<1>2. PassGood(pass[q])
  BY DEF ArchiveInv, PassesGood
<1>3. ASSUME now # None PROVE PassGood(parsed)
  <2>1. pass[q].cur \in Existing
    BY <1>1, <1>2, <1>3, NoneAssumption DEF PassGood, Pass, Existing
  <2>2. now.ver \in 1..MaxClock /\ now.sid \in Ids /\ now.ver <= clock
    BY <1>3, <2>1 DEF ArchiveInv, FilesGood, FileState, Existing
  <2>3. now.ver \in Versions /\ now.ver <= now.ver
    BY <2>2, ClockAssumption DEF Versions
  <2> HIDE DEF now
  <2>4. /\ parsed \in Pass /\ parsed.pc = "store" /\ parsed.cur = pass[q].cur
        /\ parsed.stamp = pass[q].stamp /\ parsed.body = now.ver /\ parsed.sid = now.sid
    BY <1>2, <2>2, <2>3 DEF PassGood, Pass
  <2> HIDE DEF parsed
  <2>5. pass[q].stamp <= now.ver
    BY <1>1, <1>2, <2>1 DEF PassGood, now
  <2>6. QED
    BY <1>1, <1>2, <2>1, <2>2, <2>3, <2>4, <2>5 DEF PassGood, now
<1> HIDE DEF now, parsed
<1>4. FilesGood' /\ PassesGood' /\ \A r : RowGood(r) => RowGood(r)'
  BY <1>1, <1>3, NextFileGood, KeepGo
<1>5. QED
  BY <1>1, <1>4 DEF ArchiveInv, OneRowPerFile

LEMMA KeepStore ==
  ASSUME ArchiveInv, NEW q \in Readers, StoreSession(q)
  PROVE  ArchiveInv'
<1> DEFINE p == pass[q]
           now == file[p.cur]
<1>1. /\ p.pc = "store" /\ UNCHANGED <<file, clock, synced, migrated>>
      /\ Go(q, NextFile(q, FALSE)) \/ Go(q, NextFile(q, TRUE))
      /\ \/ now # None /\ rows' = Upserted(rows, p.cur, p.sid, p.stamp, p.body, now.ver)
         \/ rows' = rows
  BY DEF StoreSession, At, RowStamp
<1>2. PassGood(p)
  BY DEF ArchiveInv, PassesGood
<1>3. FilesGood' /\ PassesGood' /\ \A r : RowGood(r) => RowGood(r)'
  BY <1>1, NextFileGood, KeepGo
<1>4. CASE rows' = rows
  BY <1>1, <1>3, <1>4 DEF ArchiveInv, OneRowPerFile
<1>5. CASE now # None /\ rows' = Upserted(rows, p.cur, p.sid, p.stamp, p.body, now.ver)
  <2>1. OneRowPerFile'
    BY <1>5, UpsertKeepsOne DEF ArchiveInv
  <2>2. PICK new :
          /\ \E star \in BOOLEAN : new = [path |-> p.cur, sid |-> p.sid, stamp |-> p.stamp,
                                        body |-> p.body, usage |-> now.ver, star |-> star]
          /\ rows' = {r \in rows : r.path # p.cur /\ r.sid # p.sid} \cup {new}
    BY <1>5, UpsertedRows
  <2>3. p.cur \in Existing /\ p.cur \in Files /\ p.cur \notin Captures
    BY <1>1, <1>2, <1>5, PathsAssumption DEF PassGood, Pass, Existing
  <2>4. now.ver \in 1..MaxClock /\ now.ver <= clock
    BY <2>3 DEF ArchiveInv, FilesGood, FileState, Existing
  <2>5. now.ver \in Versions /\ now.ver <= now.ver
    BY <2>4, ClockAssumption DEF Versions
  <2>6. /\ p.sid \in Ids /\ p.stamp <= p.body /\ p.body <= now.ver
        /\ p.body = now.ver => p.sid = now.sid
        /\ p.stamp \in Versions /\ p.body \in Versions
    BY <1>1, <1>2, <2>3 DEF PassGood, Pass
  <2> HIDE DEF now, p
  <2>7. new \in Row
    BY <2>2, <2>3, <2>5, <2>6 DEF Row, Paths
  <2>8. /\ new.path = p.cur /\ new.sid = p.sid /\ new.stamp = p.stamp
        /\ new.body = p.body /\ new.usage = now.ver
    BY <2>2
  <2>9. RowGood(new)
    BY <2>3, <2>4, <2>5, <2>6, <2>7, <2>8 DEF RowGood, now
  <2>10. QED
    BY <1>1, <1>3, <2>1, <2>2, <2>9 DEF ArchiveInv
<1>6. QED
  BY <1>1, <1>4, <1>5

-----------------------------------------------------------------------------
LEMMA KeepInit == Init => ArchiveInv
<1>1. SUFFICES ASSUME Init PROVE ArchiveInv
  OBVIOUS
<1>2. clock = 1 /\ 1 \in Versions /\ 1 \in 1..MaxClock
  BY <1>1, ClockAssumption DEF Init, Versions
<1>3. FilesGood
  BY <1>1, <1>2 DEF Init, FilesGood, FileState, Existing
<1>4. PassGood(Idle) /\ Idle \in Pass
  BY <1>3, IdleGood, IdleTyped
<1>5. PassesGood
  BY <1>1, <1>4 DEF Init, PassesGood
<1>6. QED
  BY <1>1, <1>3, <1>5, ClockAssumption DEF Init, ArchiveInv, OneRowPerFile

LEMMA KeepNext == ArchiveInv /\ [Next]_vars => ArchiveInv'
<1>1. SUFFICES ASSUME ArchiveInv, [Next]_vars PROVE ArchiveInv'
  OBVIOUS
<1>2. CASE Outside
  <2>1. CASE Expire
    <3>1. UNCHANGED <<file, clock, rows, migrated, pass>> /\ synced' = FALSE
      BY <2>1 DEF Expire
    <3>2. FilesGood' /\ PassesGood' /\ \A r : RowGood(r) => RowGood(r)'
      BY <1>1, <3>1, KeepStill
    <3>3. QED
      BY <1>1, <3>1, <3>2 DEF ArchiveInv, OneRowPerFile
  <2>2. QED
    BY <1>1, <1>2, <2>1, KeepMigrate, KeepWrite, KeepDelete, KeepCapture, KeepStarred
    DEF Outside
<1>3. CASE \E q \in Readers : PassStep(q)
  BY <1>1, <1>3, KeepStart, KeepList, KeepParse, KeepStore, KeepRemove, KeepFinish,
     KeepInterrupt, KeepStat DEF PassStep
<1>4. CASE UNCHANGED vars
  <2>1. UNCHANGED <<file, clock, rows, synced, migrated, pass>>
    BY <1>4 DEF vars
  <2>2. FilesGood' /\ PassesGood' /\ \A r : RowGood(r) => RowGood(r)'
    BY <1>1, <2>1, KeepStill
  <2>3. QED
    BY <1>1, <2>1, <2>2 DEF ArchiveInv, OneRowPerFile
<1>5. QED
  BY <1>1, <1>2, <1>3, <1>4 DEF Next

(* The inductive invariant of the archive: rows and stacks are behind their  *)
(* files and carry the id of what they hold.                                 *)
THEOREM ArchiveInvariant == Spec => []ArchiveInv
<1>1. QED
  BY KeepInit, KeepNext, PTL DEF Spec

LEMMA InvImplies == ArchiveInv => TypeOK /\ OneRowPerFile /\ FreshRowIsCurrent
<1>1. SUFFICES ASSUME ArchiveInv PROVE TypeOK /\ OneRowPerFile /\ FreshRowIsCurrent
  OBVIOUS
<1>2. TypeOK
  BY <1>1 DEF ArchiveInv, FilesGood, PassesGood, PassGood, RowGood, TypeOK
<1>3. FreshRowIsCurrent
  <2>1. ASSUME NEW r \in rows, r.path \in Existing, r.stamp = file[r.path].ver
        PROVE  r.body = r.stamp /\ r.usage = r.stamp /\ r.sid = file[r.path].sid
    <3>1. /\ r.stamp \in Nat /\ r.body \in Nat /\ r.usage \in Nat
          /\ r.stamp <= r.body /\ r.body <= r.usage /\ r.usage <= r.stamp
      BY <1>1, <2>1, ClockAssumption DEF ArchiveInv, RowGood, Row, Versions
    <3>2. r.body = r.stamp /\ r.usage = r.stamp
      BY <3>1
    <3>3. QED
      BY <1>1, <2>1, <3>2 DEF ArchiveInv, RowGood
  <2>2. QED
    BY <2>1 DEF FreshRowIsCurrent
<1>4. QED
  BY <1>1, <1>2, <1>3 DEF ArchiveInv

(* Tables and stacks keep their types; no row is newer than any write. *)
THEOREM TypeCorrect == Spec => []TypeOK
<1>1. QED
  BY ArchiveInvariant, InvImplies, PTL

(* One row per source file and per session id, whoever claims it. *)
THEOREM OneRowCorrect == Spec => []OneRowPerFile
<1>1. QED
  BY ArchiveInvariant, InvImplies, PTL

(* What a pass skips as unchanged holds what the file holds. *)
THEOREM FreshCorrect == Spec => []FreshRowIsCurrent
<1>1. QED
  BY ArchiveInvariant, InvImplies, PTL

-----------------------------------------------------------------------------
(* Captures: only a command with the same path, or a session with the same   *)
(* id, could take one away, and no other row has either.                     *)
LEMMA StepKeepsCaptures ==
  ASSUME ArchiveInv, [Next]_vars, NEW r \in rows, r.path \in Captures
  PROVE  r \in rows'
<1>1. r \in Row /\ r.sid = r.path /\ r.sid \notin Ids /\ r.path \notin Files
  BY PathsAssumption DEF ArchiveInv, RowGood
<1>2. CASE rows' = rows
  BY <1>2
<1>3. ASSUME NEW c \in Captures, Capture(c) PROVE r \in rows'
  BY <1>1, <1>3 DEF Capture, Upserted
<1>4. ASSUME NEW sid \in Ids, NEW on \in BOOLEAN, SetStarred(sid, on) PROVE r \in rows'
  BY <1>1, <1>4 DEF SetStarred
<1>5. ASSUME Migrate PROVE r \in rows'
  BY <1>1, <1>5 DEF Migrate
<1>6. ASSUME NEW q \in Readers, RemoveMissing(q) PROVE r \in rows'
  BY <1>6 DEF RemoveMissing, WithoutMissing
<1>7. ASSUME NEW q \in Readers, StoreSession(q) PROVE r \in rows'
  <2>1. pass[q].pc = "store" /\ PassGood(pass[q])
    BY <1>7 DEF StoreSession, At, ArchiveInv, PassesGood
  <2>2. pass[q].sid \in Ids /\ pass[q].cur \in Files
    BY <2>1 DEF PassGood, Pass
  <2>3. r.path # pass[q].cur /\ r.sid # pass[q].sid
    BY <1>1, <2>2
  <2>4. QED
    BY <1>7, <2>3 DEF StoreSession, Upserted
<1>8. CASE Outside
  BY <1>2, <1>3, <1>4, <1>5, <1>8 DEF Outside, Expire, WriteFile, DeleteFile
<1>9. CASE \E q \in Readers : PassStep(q)
  BY <1>2, <1>6, <1>7, <1>9
  DEF PassStep, StartPass, List, ParseFile, FinishPass, Interrupt, StatFile
<1>10. QED
  BY <1>2, <1>8, <1>9 DEF Next, vars

(* No pass, no migration and no other session removes a capture. *)
THEOREM CapturesCorrect == Spec => CapturesKept
<1>1. ArchiveInv /\ [Next]_vars => [\A r \in rows : r.path \in Captures => r \in rows']_vars
  BY StepKeepsCaptures
<1>2. QED
  BY <1>1, ArchiveInvariant, PTL DEF Spec, CapturesKept

-----------------------------------------------------------------------------
(* The gate: queries of one process, and no full sync beside them. *)
GatedQueries == FullSyncs = {} /\ \A p, q \in Readers : ProcessOf[p] = ProcessOf[q]

(* At most one pass is under way, so what it parsed is not behind its row. *)
AtMostOnePass == \A p, q \in Readers : InPass(p) /\ InPass(q) => p = q

ParsedNotBehind ==
  \A q \in Readers : pass[q].pc = "store" =>
    \A r \in rows : r.path = pass[q].cur => r.body <= pass[q].body

GateInv == ArchiveInv /\ AtMostOnePass /\ ParsedNotBehind

LEMMA GateInit == ArchiveInv /\ Init => GateInv
BY DEF Init, GateInv, AtMostOnePass, ParsedNotBehind, InPass, Idle

(* A step of one reader's pass leaves the other readers where they are, and  *)
(* only a reader that finds no pass under way starts one.                    *)
LEMMA OthersStay ==
  ASSUME ArchiveInv, NEW q \in Readers, PassStep(q)
  PROVE  /\ \A p \in Readers \ {q} : pass'[p] = pass[p]
         /\ InPass(q) \/ StartPass(q)
<1>1. pass \in [Readers -> Pass]
  BY DEF ArchiveInv, PassesGood
<1>2. ASSUME NEW next, Go(q, next) PROVE \A p \in Readers \ {q} : pass'[p] = pass[p]
  BY <1>1, <1>2 DEF Go
<1>3. CASE StartPass(q)
  BY <1>2, <1>3 DEF StartPass
<1>4. CASE List(q)
  BY <1>2, <1>4 DEF List, At, InPass
<1>5. CASE ParseFile(q)
  BY <1>2, <1>5 DEF ParseFile, At, InPass
<1>6. CASE StoreSession(q)
  BY <1>2, <1>6 DEF StoreSession, At, InPass
<1>7. CASE RemoveMissing(q)
  BY <1>2, <1>7 DEF RemoveMissing, At, InPass
<1>8. CASE FinishPass(q)
  BY <1>2, <1>8 DEF FinishPass, At, InPass
<1>9. CASE Interrupt(q)
  BY <1>2, <1>9 DEF Interrupt
<1>10. ASSUME NEW f \in Files, StatFile(q, f)
       PROVE  (\A p \in Readers \ {q} : pass'[p] = pass[p]) /\ InPass(q)
  BY <1>2, <1>10 DEF StatFile, At, InPass
<1>11. QED
  BY <1>3, <1>4, <1>5, <1>6, <1>7, <1>8, <1>9, <1>10 DEF PassStep

LEMMA OutsideStays ==
  ASSUME Outside
  PROVE  pass' = pass
BY DEF Outside, Expire, Migrate, WriteFile, DeleteFile, Capture, SetStarred

LEMMA GateKeepsOne ==
  ASSUME GatedQueries, GateInv, [Next]_vars
  PROVE  AtMostOnePass'
<1>1. ASSUME NEW q \in Readers, PassStep(q) PROVE AtMostOnePass'
  <2>1. /\ \A p \in Readers \ {q} : pass'[p] = pass[p]
        /\ InPass(q) \/ StartPass(q)
    BY <1>1, OthersStay DEF GateInv
  <2>2. \A p \in Readers \ {q} : ~InPass(p)
    <3>1. CASE InPass(q)
      BY <3>1 DEF GateInv, AtMostOnePass
    <3>2. CASE StartPass(q)
      BY <3>2 DEF StartPass, Gated, GatedQueries
    <3>3. QED
      BY <2>1, <3>1, <3>2
  <2>3. \A p \in Readers \ {q} : ~InPass(p)'
    BY <2>1, <2>2 DEF InPass
  <2>4. QED
    BY <2>3 DEF AtMostOnePass
<1>2. CASE pass' = pass
  BY <1>2 DEF GateInv, AtMostOnePass, InPass
<1>3. QED
  BY <1>1, <1>2, OutsideStays DEF Next, vars

-----------------------------------------------------------------------------
(* Every step but the end of a store keeps each row's records.              *)
LEMMA RewritesKeepBody ==
  ASSUME ArchiveInv, [Next]_vars, NEW s \in rows',
         ~ \E q \in Readers : StoreSession(q)
  PROVE  \/ \E r \in rows : r.path = s.path /\ r.body = s.body
         \/ s.path \in Captures /\ \A r \in rows : r.path # s.path
<1>1. CASE rows' = rows
  BY <1>1
<1>2. ASSUME NEW c \in Captures, Capture(c)
      PROVE  \/ \E r \in rows : r.path = s.path /\ r.body = s.body
             \/ s.path \in Captures /\ \A r \in rows : r.path # s.path
  BY <1>2 DEF Capture, Upserted
<1>3. ASSUME NEW sid \in Ids, NEW on \in BOOLEAN, SetStarred(sid, on)
      PROVE  \E r \in rows : r.path = s.path /\ r.body = s.body
  <2>1. PICK r \in rows : s = IF r.sid = sid THEN [r EXCEPT !.star = on] ELSE r
    BY <1>3 DEF SetStarred
  <2>2. r \in Row
    BY DEF ArchiveInv, RowGood
  <2>3. s.path = r.path /\ s.body = r.body
    BY <2>1, <2>2 DEF Row
  <2>4. QED
    BY <2>3
<1>4. ASSUME Migrate
      PROVE  \E r \in rows : r.path = s.path /\ r.body = s.body
  <2>1. PICK r \in rows : s = IF r.path \in Files THEN [r EXCEPT !.stamp = 0] ELSE r
    BY <1>4 DEF Migrate
  <2>2. r \in Row
    BY DEF ArchiveInv, RowGood
  <2>3. s.path = r.path /\ s.body = r.body
    BY <2>1, <2>2 DEF Row
  <2>4. QED
    BY <2>3
<1>5. ASSUME NEW q \in Readers, RemoveMissing(q)
      PROVE  \E r \in rows : r.path = s.path /\ r.body = s.body
  BY <1>5 DEF RemoveMissing, WithoutMissing
<1>6. CASE Outside
  BY <1>1, <1>2, <1>3, <1>4, <1>6 DEF Outside, Expire, WriteFile, DeleteFile
<1>7. CASE \E q \in Readers : PassStep(q)
  BY <1>1, <1>5, <1>7
  DEF PassStep, StartPass, List, ParseFile, FinishPass, Interrupt, StatFile
<1>8. QED
  BY <1>1, <1>6, <1>7 DEF Next, vars

(* What a store leaves: the new row with what was parsed, and old rows.     *)
LEMMA StoreLeaves ==
  ASSUME ArchiveInv, NEW q \in Readers, StoreSession(q), NEW s \in rows'
  PROVE  \/ s \in rows
         \/ s.path = pass[q].cur /\ s.body = pass[q].body
<1> DEFINE p == pass[q]
<1>1. CASE rows' = rows
  BY <1>1
<1>2. CASE rows' = Upserted(rows, p.cur, p.sid, RowStamp(p), p.body, file[p.cur].ver)
  <2>1. PICK new :
          /\ \E star \in BOOLEAN :
               new = [path |-> p.cur, sid |-> p.sid, stamp |-> RowStamp(p),
                      body |-> p.body, usage |-> file[p.cur].ver, star |-> star]
          /\ rows' = {r \in rows : r.path # p.cur /\ r.sid # p.sid} \cup {new}
    BY <1>2, UpsertedRows
  <2>2. new.path = p.cur /\ new.body = p.body
    BY <2>1
  <2>3. QED
    BY <2>1, <2>2
<1>3. QED
  BY <1>1, <1>2 DEF StoreSession

LEMMA StoreMoves ==
  ASSUME ArchiveInv, NEW q \in Readers, StoreSession(q)
  PROVE  pass[q].pc = "store" /\ pass'[q].pc = "files"
<1>1. pass \in [Readers -> Pass] /\ pass[q] \in Pass
  BY DEF ArchiveInv, PassesGood
<1>2. \E dirty \in BOOLEAN : pass'[q] = NextFile(q, dirty)
  BY <1>1 DEF StoreSession, Go
<1>3. QED
  BY <1>1, <1>2 DEF StoreSession, At, NextFile, Pass

LEMMA GateKeepsParsed ==
  ASSUME GatedQueries, GateInv, [Next]_vars
  PROVE  ParsedNotBehind'
<1> SUFFICES ASSUME NEW q \in Readers, pass'[q].pc = "store",
                    NEW s \in rows', s.path = pass'[q].cur
             PROVE  s.body <= pass'[q].body
  BY DEF ParsedNotBehind
<1>1. ArchiveInv /\ ArchiveInv' /\ AtMostOnePass'
  BY KeepNext, GateKeepsOne DEF GateInv
<1>2. /\ pass'[q].cur \in Files /\ s.path \notin Captures
  <2>1. PassGood(pass[q])'
    BY <1>1 DEF ArchiveInv, PassesGood
  <2>2. pass'[q].cur \in Files
    BY <2>1 DEF PassGood, Pass
  <2>3. QED
    BY <2>2, PathsAssumption
<1>3. CASE pass'[q] = pass[q] /\ ~ \E p \in Readers : StoreSession(p)
  <2>1. PICK r \in rows : r.path = s.path /\ r.body = s.body
    BY <1>1, <1>2, <1>3, RewritesKeepBody
  <2>2. QED
    BY <1>3, <2>1 DEF GateInv, ParsedNotBehind
<1>4. ASSUME NEW p \in Readers, PassStep(p), p # q PROVE FALSE
  <2>1. InPass(p) \/ StartPass(p)
    BY <1>1, <1>4, OthersStay
  <2>2. pass'[q] = pass[q] /\ InPass(q)
    BY <1>1, <1>4, OthersStay DEF InPass
  <2>3. ~InPass(p)
    BY <1>4, <2>2 DEF GateInv, AtMostOnePass
  <2>4. Gated(p)
    BY <2>2 DEF Gated, GatedQueries
  <2>5. QED
    BY <2>1, <2>3, <2>4 DEF StartPass, GatedQueries
<1>5. CASE PassStep(q)
  <2>1. pass \in [Readers -> Pass]
    BY <1>1 DEF ArchiveInv, PassesGood
  <2>2. ParseFile(q)
    <3>1. ASSUME NEW next, Go(q, next) PROVE pass'[q] = next
      BY <2>1, <3>1 DEF Go
    <3>2. ~StartPass(q) /\ ~Interrupt(q) /\ ~FinishPass(q) /\ ~RemoveMissing(q)
      <4>1. Idle.pc = "idle" /\ [Idle EXCEPT !.pc = "list"].pc = "list"
        BY DEF Idle
      <4>2. [Idle EXCEPT !.pc = "finish", !.dirty = pass[q].dirty].pc = "finish"
        BY DEF Idle
      <4>3. ~StartPass(q)
        BY <3>1, <4>1 DEF StartPass
      <4>4. ~Interrupt(q) /\ ~FinishPass(q)
        BY <3>1, <4>1 DEF Interrupt, FinishPass
      <4>5. ~RemoveMissing(q)
        BY <3>1, <4>2 DEF RemoveMissing
      <4>6. QED
        BY <4>3, <4>4, <4>5
    <3>3. pass[q] \in Pass
      BY <2>1
    <3>4. ~List(q) /\ ~StoreSession(q)
      BY <3>1, <3>3 DEF List, StoreSession, NextFile, Pass
    <3>5. ASSUME NEW f \in Files, StatFile(q, f) PROVE FALSE
      BY <3>1, <3>3, <3>5 DEF StatFile, At, Pass
    <3>6. QED
      BY <1>5, <3>2, <3>4, <3>5 DEF PassStep
  <2>3. /\ rows' = rows /\ pass'[q].cur \in Existing
        /\ pass'[q].body = file[pass'[q].cur].ver
    <3>1. pass[q] \in Pass /\ pass[q].cur \in Files
      BY <1>1, <2>1, <2>2 DEF ParseFile, At, ArchiveInv, PassesGood, PassGood, Pass
    <3>2. NextFile(q, TRUE).pc = "files"
      BY <3>1 DEF NextFile, Pass
    <3>3. pass' # [pass EXCEPT ![q] = NextFile(q, TRUE)]
      BY <2>1, <3>2
    <3>4. /\ file[pass[q].cur] # None /\ rows' = rows
          /\ pass'[q] = [pass[q] EXCEPT !.pc = "store", !.body = file[pass[q].cur].ver,
                                       !.sid = file[pass[q].cur].sid]
      BY <2>1, <2>2, <3>3 DEF ParseFile, Go
    <3>5. pass'[q].cur = pass[q].cur /\ pass'[q].body = file[pass[q].cur].ver
      BY <3>1, <3>4 DEF Pass
    <3>6. QED
      BY <3>1, <3>4, <3>5 DEF Existing
  <2>4. RowGood(s)
    BY <1>1, <2>3 DEF ArchiveInv
  <2>5. s.usage <= pass'[q].body /\ s.body <= s.usage
    BY <2>3, <2>4 DEF RowGood
  <2>6. /\ s.body \in Int /\ s.usage \in Int
    BY <2>4, ClockAssumption DEF RowGood, Row, Versions
  <2>7. pass'[q].body \in Int
    <3>1. PassGood(pass[q])'
      BY <1>1 DEF ArchiveInv, PassesGood
    <3>2. QED
      BY <3>1, ClockAssumption DEF PassGood, Pass, Versions
  <2>8. QED
    BY <2>5, <2>6, <2>7
<1>6. CASE Outside
  BY <1>1, <1>3, <1>6, OutsideStays, StoreMoves
<1>7. CASE UNCHANGED vars
  BY <1>1, <1>3, <1>7, StoreMoves DEF vars
<1>8. QED
  BY <1>4, <1>5, <1>6, <1>7 DEF Next

(* One pass at a time, and its parse is not behind the row it replaces. *)
THEOREM GateInvariant == ASSUME GatedQueries PROVE Spec => []GateInv
<1>1. Init => GateInv
  BY KeepInit, GateInit
<1>2. GateInv /\ [Next]_vars => GateInv'
  <2>1. ASSUME GateInv, [Next]_vars PROVE GateInv'
    BY <2>1, KeepNext, GateKeepsOne, GateKeepsParsed DEF GateInv
  <2>2. QED
    BY <2>1
<1>3. QED
  BY <1>1, <1>2, PTL DEF Spec

LEMMA StepNoRegress ==
  ASSUME GateInv, [Next]_vars, NEW r \in rows, NEW s \in rows', r.path = s.path
  PROVE  r.body <= s.body
<1>1. ArchiveInv /\ r \in Row
  BY DEF GateInv, ArchiveInv, RowGood
<1>2. r.body \in Int
  BY <1>1, ClockAssumption DEF Row, Versions
<1>3. \A t \in rows : t.path = s.path => t = r
  BY <1>1 DEF ArchiveInv, OneRowPerFile
<1>4. ASSUME NEW q \in Readers, StoreSession(q) PROVE r.body <= s.body
  <2>1. CASE s \in rows
    BY <1>2, <1>3, <2>1
  <2>2. CASE s.path = pass[q].cur /\ s.body = pass[q].body
    <3>1. pass[q].pc = "store"
      BY <1>1, <1>4, StoreMoves
    <3>2. QED
      BY <2>2, <3>1 DEF GateInv, ParsedNotBehind
  <2>3. QED
    BY <1>1, <1>4, <2>1, <2>2, StoreLeaves
<1>5. CASE ~ \E q \in Readers : StoreSession(q)
  BY <1>1, <1>2, <1>3, <1>5, RewritesKeepBody
<1>6. QED
  BY <1>4, <1>5

(* With the gate, no query takes a session's records back to an older parse. *)
THEOREM NoRegressCorrect == ASSUME GatedQueries PROVE Spec => NoRegress
<1>1. GateInv /\ [Next]_vars =>
        [\A r \in rows, s \in rows' : r.path = s.path => r.body <= s.body]_vars
  BY StepNoRegress
<1>2. QED
  BY <1>1, GateInvariant, PTL DEF Spec, NoRegress

-----------------------------------------------------------------------------
(* Stars.  A pass removes only what its listing did not see. *)
ListedKept ==
  \A q \in Readers : pass[q].pc \in {"files", "parse", "store"} =>
    Files \ pass[q].keep \subseteq pass[q].gone

LEMMA StepKeepsListed ==
  ASSUME ArchiveInv, ListedKept, [Next]_vars
  PROVE  ListedKept'
<1> DEFINE Good(p) == p.pc \in {"files", "parse", "store"} => Files \ p.keep \subseteq p.gone
<1>1. pass \in [Readers -> Pass] /\ \A q \in Readers : Good(pass[q])
  BY DEF ArchiveInv, PassesGood, ListedKept
<1>2. ASSUME NEW q \in Readers, NEW next, Go(q, next), Good(next) PROVE ListedKept'
  <2>1. \A p \in Readers : Good(pass'[p])
    BY <1>1, <1>2 DEF Go
  <2>2. QED
    BY <2>1 DEF ListedKept
<1>3. CASE pass' = pass
  BY <1>3 DEF ListedKept
<1>4. ASSUME NEW q \in Readers, PassStep(q) PROVE ListedKept'
  <2>1. Good(Idle) /\ Good([Idle EXCEPT !.pc = "list"])
    BY DEF Idle
  <2>2. Good([Idle EXCEPT !.pc = "finish", !.dirty = pass[q].dirty])
    BY DEF Idle
  <2>3. pass[q] \in Pass /\ Good(pass[q])
    BY <1>1
  <2>4. CASE List(q)
    <3>1. PICK seen \in SUBSET Existing, error \in BOOLEAN :
            /\ ~error => seen = Existing
            /\ Go(q, [pass[q] EXCEPT !.pc = "files", !.todo = seen,
                      !.keep = SourcePaths(seen, error), !.gone = Files \ Existing,
                      !.stamps = [f \in Files |-> IF q \notin FullSyncs /\ f \in seen
                                                 THEN StampOf(f) ELSE 0],
                      !.dirty = error])
      BY <2>4 DEF List
    <3> DEFINE stamps == [f \in Files |-> IF q \notin FullSyncs /\ f \in seen
                                           THEN StampOf(f) ELSE 0]
               next == [pass[q] EXCEPT !.pc = "files", !.todo = seen,
                          !.keep = SourcePaths(seen, error), !.gone = Files \ Existing,
                          !.stamps = stamps, !.dirty = error]
    <3>2. Files \ SourcePaths(seen, error) \subseteq Files \ Existing
      BY <3>1 DEF SourcePaths
    <3> HIDE DEF stamps
    <3>3. next.keep = SourcePaths(seen, error) /\ next.gone = Files \ Existing
      BY <2>3 DEF Pass
    <3>4. Good(next)
      BY <3>2, <3>3
    <3>5. Go(q, next)
      BY <3>1 DEF stamps
    <3> HIDE DEF next, Good
    <3>6. QED
      BY <1>2, <3>4, <3>5
  <2>5. ASSUME NEW f \in Files, StatFile(q, f) PROVE ListedKept'
    <3> DEFINE rest == [pass[q] EXCEPT !.todo = @ \ {f}, !.stamps[f] = 0]
               gone == [rest EXCEPT !.dirty = TRUE]
               found == [rest EXCEPT !.pc = "parse", !.cur = f, !.stamp = file[f].ver]
    <3>1. /\ pass[q].pc = "files"
          /\ Go(q, IF file[f] = None THEN gone ELSE IF Unchanged(q, f) THEN rest ELSE found)
      BY <2>5 DEF StatFile, At
    <3>2. rest.keep = pass[q].keep /\ rest.gone = pass[q].gone
      BY <2>3 DEF Pass
    <3>3. gone.keep = pass[q].keep /\ gone.gone = pass[q].gone
      BY <2>3 DEF Pass
    <3>4. found.keep = pass[q].keep /\ found.gone = pass[q].gone
      BY <2>3 DEF Pass
    <3> HIDE DEF rest, gone, found
    <3>5. Good(rest) /\ Good(gone) /\ Good(found)
      BY <2>3, <3>1, <3>2, <3>3, <3>4
    <3> HIDE DEF Good
    <3>6. QED
      BY <1>2, <3>1, <3>5
  <2>6. ASSUME NEW dirty \in BOOLEAN, pass[q].pc \in {"parse", "store"}
        PROVE  Good(NextFile(q, dirty))
    <3>1. /\ NextFile(q, dirty).keep = pass[q].keep
          /\ NextFile(q, dirty).gone = pass[q].gone
      BY <2>3 DEF NextFile, Pass
    <3>2. QED
      BY <2>3, <2>6, <3>1
  <2>7. CASE ParseFile(q)
    <3> DEFINE read == [pass[q] EXCEPT !.pc = "store", !.body = file[pass[q].cur].ver,
                                       !.sid = file[pass[q].cur].sid]
    <3>1. pass[q].pc = "parse" /\ (Go(q, read) \/ Go(q, NextFile(q, TRUE)))
      BY <2>7 DEF ParseFile, At
    <3>2. read.keep = pass[q].keep /\ read.gone = pass[q].gone
      BY <2>3 DEF Pass
    <3> HIDE DEF read
    <3>3. Good(read) /\ Good(NextFile(q, TRUE))
      BY <2>3, <2>6, <3>1, <3>2
    <3> HIDE DEF Good
    <3>4. QED
      BY <1>2, <3>1, <3>3
  <2>8. CASE StoreSession(q)
    <3>1. /\ pass[q].pc = "store"
          /\ Go(q, NextFile(q, FALSE)) \/ Go(q, NextFile(q, TRUE))
      BY <2>8 DEF StoreSession, At
    <3>2. Good(NextFile(q, FALSE)) /\ Good(NextFile(q, TRUE))
      BY <2>6, <3>1
    <3> HIDE DEF Good
    <3>3. QED
      BY <1>2, <3>1, <3>2
  <2> HIDE DEF Good
  <2>9. CASE StartPass(q) \/ FinishPass(q) \/ Interrupt(q)
    BY <1>2, <2>1, <2>9 DEF StartPass, FinishPass, Interrupt
  <2>10. CASE RemoveMissing(q)
    BY <1>2, <2>2, <2>10 DEF RemoveMissing
  <2>11. QED
    BY <1>4, <2>4, <2>5, <2>7, <2>8, <2>9, <2>10 DEF PassStep
<1>5. QED
  BY <1>3, <1>4, OutsideStays DEF Next, vars

(* Who takes a star away: the rows a step leaves say so. *)
StarAccounted(r) ==
  \/ \E s \in rows' : s.sid = r.sid /\ s.star
  \/ SetStarred(r.sid, FALSE)
  \/ \E s \in rows' : (s.path = r.path) # (s.sid = r.sid)
  \/ \E q \in Readers : r.path \in pass[q].gone

LEMMA UpsertKeepsStar ==
  ASSUME ArchiveInv, NEW r \in rows, r.star,
         NEW path, NEW sid, NEW stamp, NEW body, NEW usage,
         rows' = Upserted(rows, path, sid, stamp, body, usage)
  PROVE  StarAccounted(r)
<1> DEFINE star == \E k \in Kept(rows, path, sid) : k.star
           new == [path |-> path, sid |-> sid, stamp |-> stamp, body |-> body,
                   usage |-> usage, star |-> star]
<1>1. rows' = {k \in rows : k.path # path /\ k.sid # sid} \cup {new}
  BY DEF Upserted
<1>2. new \in rows' /\ new.path = path /\ new.sid = sid /\ new.star = star
  BY <1>1
<1>3. CASE r.path = path /\ r.sid = sid
  <2>1. r \in Kept(rows, path, sid)
    BY <1>3 DEF Kept
  <2>2. star
    BY <2>1
  <2> HIDE DEF star, new
  <2>3. QED
    BY <1>2, <1>3, <2>2 DEF StarAccounted
<1> HIDE DEF star, new
<1>4. CASE r.path = path /\ r.sid # sid
  BY <1>2, <1>4 DEF StarAccounted
<1>5. CASE r.path # path /\ r.sid = sid
  BY <1>2, <1>5 DEF StarAccounted
<1>6. CASE r.path # path /\ r.sid # sid
  BY <1>1, <1>6 DEF StarAccounted
<1>7. QED
  BY <1>3, <1>4, <1>5, <1>6

LEMMA StepKeepsStars ==
  ASSUME ArchiveInv, ListedKept, [Next]_vars, NEW r \in rows, r.star
  PROVE  StarAccounted(r)
<1>1. r \in Row
  BY DEF ArchiveInv, RowGood
<1>2. CASE rows' = rows
  BY <1>2 DEF StarAccounted
<1>3. ASSUME NEW c \in Captures, Capture(c) PROVE StarAccounted(r)
  BY <1>3, UpsertKeepsStar DEF Capture
<1>4. ASSUME NEW sid \in Ids, NEW on \in BOOLEAN, SetStarred(sid, on)
      PROVE  StarAccounted(r)
  <2>1. rows' = {IF k.sid = sid THEN [k EXCEPT !.star = on] ELSE k : k \in rows}
    BY <1>4 DEF SetStarred
  <2>2. CASE r.sid = sid /\ ~on
    <3>1. on = FALSE
      BY <2>2
    <3>2. QED
      BY <1>4, <2>2, <3>1 DEF StarAccounted
  <2>3. CASE r.sid = sid /\ on
    <3>1. [r EXCEPT !.star = on] \in rows'
      BY <2>1, <2>3
    <3>2. [r EXCEPT !.star = on].sid = r.sid /\ [r EXCEPT !.star = on].star = on
      BY <1>1 DEF Row
    <3>3. QED
      BY <2>3, <3>1, <3>2 DEF StarAccounted
  <2>4. CASE r.sid # sid
    BY <2>1, <2>4 DEF StarAccounted
  <2>5. QED
    BY <2>2, <2>3, <2>4
<1>5. ASSUME Migrate PROVE StarAccounted(r)
  <2> DEFINE new == IF r.path \in Files THEN [r EXCEPT !.stamp = 0] ELSE r
  <2>1. new \in rows'
    BY <1>5 DEF Migrate
  <2>2. new.sid = r.sid /\ new.star = r.star
    BY <1>1 DEF Row
  <2> HIDE DEF new
  <2>3. QED
    BY <2>1, <2>2 DEF StarAccounted
<1>6. ASSUME NEW q \in Readers, RemoveMissing(q) PROVE StarAccounted(r)
  <2>1. CASE r.path \in pass[q].keep \cup Captures
    BY <1>6, <2>1 DEF RemoveMissing, WithoutMissing, StarAccounted
  <2>2. CASE r.path \notin pass[q].keep \cup Captures
    <3>1. r.path \in Files \ pass[q].keep
      BY <1>1, <2>2 DEF Row, Paths
    <3>2. pass[q].pc = "files"
      BY <1>6 DEF RemoveMissing, At
    <3>3. QED
      BY <3>1, <3>2 DEF ListedKept, StarAccounted
  <2>3. QED
    BY <2>1, <2>2
<1>7. ASSUME NEW q \in Readers, StoreSession(q) PROVE StarAccounted(r)
  <2> DEFINE p == pass[q]
  <2>1. \/ rows' = rows
        \/ rows' = Upserted(rows, p.cur, p.sid, RowStamp(p), p.body, file[p.cur].ver)
    BY <1>7 DEF StoreSession
  <2> HIDE DEF p
  <2>2. QED
    BY <1>2, <2>1, UpsertKeepsStar
<1>8. CASE Outside
  BY <1>2, <1>3, <1>4, <1>5, <1>8 DEF Outside, Expire, WriteFile, DeleteFile
<1>9. CASE \E q \in Readers : PassStep(q)
  BY <1>2, <1>6, <1>7, <1>9
  DEF PassStep, StartPass, List, ParseFile, FinishPass, Interrupt, StatFile
<1>10. QED
  BY <1>2, <1>8, <1>9 DEF Next, vars

(* A star goes only by the user's hand, with its id or its file. *)
THEOREM StarsCorrect == Spec => StarsKept
<1>1. Init => ListedKept
  BY DEF Init, ListedKept, Idle
<1>2. ArchiveInv /\ ListedKept /\ [Next]_vars => ListedKept'
  BY StepKeepsListed
<1>3. ArchiveInv /\ ListedKept /\ [Next]_vars =>
        [\A r \in rows : r.star /\ (\A s \in rows' : s.sid = r.sid => ~s.star) =>
           \/ SetStarred(r.sid, FALSE)
           \/ \E s \in rows' : (s.path = r.path) # (s.sid = r.sid)
           \/ \E q \in Readers : r.path \in pass[q].gone]_vars
  BY StepKeepsStars DEF StarAccounted
<1>4. QED
  BY <1>1, <1>2, <1>3, ArchiveInvariant, PTL DEF Spec, StarsKept
=============================================================================
