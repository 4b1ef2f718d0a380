---------------------------- MODULE ShareService ----------------------------
(***************************************************************************)
(* The self-hosted publication service (share-web/server/self-host.mjs).   *)
(* A publication is two files, an envelope and its metadata.  Requests     *)
(* interleave with each other and with the periodic cleanup at every await *)
(* of a file operation; the server may stop between any two.               *)
(***************************************************************************)
EXTENDS Naturals, FiniteSets

CONSTANTS
  Ids,          \* publication ids; random, so each is put at most once
  Clients,      \* the publisher's processes
  Nobody,       \* the client of a viewer's request, or one that hung up
  MaxRequests,  \* bound: requests in progress
  MaxCrashes    \* bound: crashes of the server

ASSUME ShareServiceAssumption == Nobody \notin Clients /\ MaxCrashes \in Nat

VARIABLES
  envelope,  \* contents of <random>.bin, by id
  metadata,  \* contents of <random>.json
  old,       \* ids whose envelope was last written five minutes ago or more
  expired,   \* ids past their expires_at
  requests,  \* requests in progress, and answers not read yet
  cleaner,   \* the pass of cleanupExpired in progress
  up,        \* the server listens: its first cleanup is over
  crashes,
  deleted    \* history: ids whose deletion was answered with 204

files == <<envelope, metadata>>
serviceVars == <<envelope, metadata, old, expired, requests, cleaner, up, crashes, deleted>>

Contents == {"absent", "partial", "whole"}
Kinds == {"envelope", "metadata"}
Answers == {"created", "deleted", "refused"}
Steps == {"arrived", "writing", "written", "describing", "reading", "unlinking"}

Requests ==
  [op: {"put", "get", "delete"}, id: Ids, client: Clients \cup {Nobody},
   step: Steps \cup Answers, unlink: SUBSET Kinds, answer: Answers, late: BOOLEAN]

Request(op, id, client) ==
  [op |-> op, id |-> id, client |-> client, step |-> "arrived",
   unlink |-> {}, answer |-> "refused", late |-> id \in deleted]

Moved(r, next) == (requests \ {r}) \cup {next}

(* The answer waits for its client, if it still has one. *)
Answered(r, answer) ==
  IF r.client = Nobody THEN requests \ {r}
  ELSE Moved(r, [r EXCEPT !.step = answer, !.unlink = {}])

Unlinking(r, kinds, answer) == [r EXCEPT !.step = "unlinking", !.unlink = kinds, !.answer = answer]

Filled(file, id) == IF file[id] = "absent" THEN file ELSE [file EXCEPT ![id] = "whole"]

(* safeUnlink. *)
Unlink(id, kind) ==
  /\ envelope' = IF kind = "envelope" THEN [envelope EXCEPT ![id] = "absent"] ELSE envelope
  /\ metadata' = IF kind = "metadata" THEN [metadata EXCEPT ![id] = "absent"] ELSE metadata
  /\ old' = IF kind = "envelope" THEN old \ {id} ELSE old

-----------------------------------------------------------------------------
(* Requests.  Each step ends at an await.                                  *)

(* A limit, a check of the request or an I/O error before any effect. *)
Refuse(r) ==
  /\ r.step = "arrived"
  /\ requests' = Answered(r, "refused")
  /\ UNCHANGED <<files, old, expired, cleaner, up, crashes, deleted>>

(* putPublication: the envelope is created exclusively ... *)
PutOpen(r) ==
  /\ r.op = "put" /\ r.step = "arrived"
  /\ r.id \notin expired
  /\ IF envelope[r.id] = "absent"
     THEN /\ envelope' = [envelope EXCEPT ![r.id] = "partial"]
          /\ requests' = Moved(r, [r EXCEPT !.step = "writing"])
     ELSE /\ requests' = Answered(r, "refused")
          /\ UNCHANGED envelope
  /\ UNCHANGED <<metadata, old, expired, cleaner, up, crashes, deleted>>

(* ... and written to the end before anything names it; a slip does not    *)
(* wait for the write.  A write that fails leaves what it wrote. *)
EnvelopeOpened(id) == envelope
EnvelopeWritten(id) == Filled(envelope, id)

PutEnvelope(r) ==
  /\ r.step = "writing"
  /\ \/ /\ envelope' = EnvelopeWritten(r.id)
        /\ requests' = Moved(r, [r EXCEPT !.step = "written"])
     \/ /\ requests' = Answered(r, "refused")
        /\ UNCHANGED envelope
  /\ UNCHANGED <<metadata, old, expired, cleaner, up, crashes, deleted>>

(* The metadata is created; when it cannot be, the envelope is removed. *)
PutDescribe(r) ==
  /\ r.step = "written"
  /\ \/ /\ metadata[r.id] = "absent"
        /\ metadata' = [metadata EXCEPT ![r.id] = "partial"]
        /\ requests' = Moved(r, [r EXCEPT !.step = "describing"])
     \/ /\ requests' = Moved(r, Unlinking(r, {"envelope"}, "refused"))
        /\ UNCHANGED metadata
  /\ UNCHANGED <<envelope, old, expired, cleaner, up, crashes, deleted>>

PutMetadata(r) ==
  /\ r.step = "describing"
  /\ \/ /\ metadata' = Filled(metadata, r.id)
        /\ requests' = Answered(r, "created")
     \/ /\ requests' = Moved(r, Unlinking(r, {"envelope"}, "refused"))
        /\ UNCHANGED metadata
  /\ UNCHANGED <<envelope, old, expired, cleaner, up, crashes, deleted>>

(* What deletePublication awaits before it answers; a slip awaits nothing. *)
NotAwaited == {}
BothFiles == Kinds

(* loadActiveMetadata, and what get and delete do with it: metadata that   *)
(* does not parse is as good as none, an expired publication is removed. *)
Load(r) ==
  /\ r.op \in {"get", "delete"} /\ r.step = "arrived"
  /\ requests' =
       IF metadata[r.id] # "whole" THEN Answered(r, "refused")
       ELSE Moved(r, IF r.id \in expired THEN Unlinking(r, Kinds, "refused")
                     ELSE IF r.op = "delete" THEN Unlinking(r, BothFiles, "deleted")
                     ELSE [r EXCEPT !.step = "reading"])
  /\ UNCHANGED <<files, old, expired, cleaner, up, crashes, deleted>>

UnlinkOne(r) ==
  /\ r.step = "unlinking"
  /\ \E kind \in r.unlink :
       /\ Unlink(r.id, kind)
       /\ requests' = Moved(r, [r EXCEPT !.unlink = @ \ {kind}])
  /\ UNCHANGED <<expired, cleaner, up, crashes, deleted>>

AnswerUnlinked(r) ==
  /\ r.step = "unlinking" /\ r.unlink = {}
  /\ requests' = Answered(r, r.answer)
  /\ deleted' = IF r.answer = "deleted" THEN deleted \cup {r.id} ELSE deleted
  /\ UNCHANGED <<files, old, expired, cleaner, up, crashes>>

(* The envelope, or nothing if it is gone; viewers' answers are not kept. *)
GetEnvelope(r) ==
  /\ r.step = "reading"
  /\ requests' = Answered(r, "refused")
  /\ UNCHANGED <<files, old, expired, cleaner, up, crashes, deleted>>

(* A viewer asks for a publication. *)
View(id) ==
  /\ up
  /\ Cardinality(requests) < MaxRequests
  /\ requests' = requests \cup {Request("get", id, Nobody)}
  /\ UNCHANGED <<files, old, expired, cleaner, up, crashes, deleted>>

-----------------------------------------------------------------------------
(* cleanupExpired: at startup, then periodically.                          *)

Idle == [phase |-> "idle", names |-> {}, todo |-> {}, unlink |-> {}]

Present == {f \in Ids \X Kinds : IF f[2] = "envelope" THEN envelope[f[1]] # "absent"
                                                      ELSE metadata[f[1]] # "absent"}

(* The names are read once; the files change afterwards. *)
ListFiles ==
  /\ cleaner.phase = "idle"
  /\ cleaner' = [phase |-> "pairs", names |-> Present, unlink |-> {},
                 todo |-> {id \in Ids : <<id, "metadata">> \in Present}]
  /\ UNCHANGED <<files, old, expired, requests, up, crashes, deleted>>

CheckPair(id) ==
  /\ cleaner.phase = "pairs" /\ cleaner.unlink = {} /\ id \in cleaner.todo
  /\ cleaner' =
       [cleaner EXCEPT
          !.todo = @ \ {id},
          !.unlink = IF \/ metadata[id] # "whole"
                        \/ id \in expired
                        \/ <<id, "envelope">> \notin cleaner.names
                     THEN {id} \X Kinds ELSE {}]
  /\ UNCHANGED <<files, old, expired, requests, up, crashes, deleted>>

CleanerUnlinks ==
  /\ \E f \in cleaner.unlink :
       /\ Unlink(f[1], f[2])
       /\ cleaner' = [cleaner EXCEPT !.unlink = @ \ {f}]
  /\ UNCHANGED <<expired, requests, up, crashes, deleted>>

(* Envelopes listed without metadata; a slip forgets them. *)
NoneLeftOver(names) == {}
LeftOver(names) == {id \in Ids : <<id, "envelope">> \in names /\ <<id, "metadata">> \notin names}

TurnToEnvelopes ==
  /\ cleaner.phase = "pairs" /\ cleaner.unlink = {} /\ cleaner.todo = {}
  /\ cleaner' = [cleaner EXCEPT !.phase = "envelopes", !.names = {},
                            !.todo = LeftOver(cleaner.names)]
  /\ UNCHANGED <<files, old, expired, requests, up, crashes, deleted>>

(* stat fails, and the pass with it, when the envelope is gone by now. *)
CheckEnvelope(id) ==
  /\ cleaner.phase = "envelopes" /\ cleaner.unlink = {} /\ id \in cleaner.todo
  /\ cleaner' =
       IF envelope[id] = "absent" THEN Idle
       ELSE [cleaner EXCEPT !.todo = @ \ {id},
                            !.unlink = IF id \in old THEN {<<id, "envelope">>} ELSE {}]
  /\ UNCHANGED <<files, old, expired, requests, up, crashes, deleted>>

EndCleanup ==
  /\ cleaner.phase = "envelopes" /\ cleaner.unlink = {} /\ cleaner.todo = {}
  /\ cleaner' = Idle
  /\ up' = TRUE
  /\ UNCHANGED <<files, old, expired, requests, crashes, deleted>>

-----------------------------------------------------------------------------
(* Time, and crashes.                                                      *)

Expire(id) ==
  /\ id \notin expired
  /\ expired' = expired \cup {id}
  /\ UNCHANGED <<files, old, requests, cleaner, up, crashes, deleted>>

(* Neither a put nor a cleanup lasts five minutes. *)
Age(id) ==
  /\ envelope[id] # "absent" /\ id \notin old
  /\ cleaner = Idle
  /\ \A r \in requests : r.op = "put" /\ r.id = id => r.step \in Answers
  /\ old' = old \cup {id}
  /\ UNCHANGED <<files, expired, requests, cleaner, up, crashes, deleted>>

(* Requests in progress die with the server; a slip lets them go on. *)
RequestsKept == requests
ConnectionsLost ==
  {[r EXCEPT !.step = IF @ \in Answers THEN @ ELSE "refused", !.unlink = {}] :
     r \in {q \in requests : q.client # Nobody}}

Crash ==
  /\ crashes < MaxCrashes
  /\ crashes' = crashes + 1
  /\ up' = FALSE
  /\ requests' = ConnectionsLost
  /\ cleaner' = Idle
  /\ UNCHANGED <<files, old, expired, deleted>>

-----------------------------------------------------------------------------
ServiceInit ==
  /\ envelope = [id \in Ids |-> "absent"] /\ metadata = [id \in Ids |-> "absent"]
  /\ old = {} /\ expired = {} /\ requests = {}
  /\ cleaner = Idle /\ up = FALSE /\ crashes = 0
  /\ deleted = {}

Handle(r) ==
  \/ PutOpen(r) \/ PutEnvelope(r) \/ PutDescribe(r) \/ PutMetadata(r)
  \/ Load(r) \/ UnlinkOne(r) \/ AnswerUnlinked(r) \/ GetEnvelope(r)

Cleanup ==
  \/ ListFiles \/ CleanerUnlinks \/ TurnToEnvelopes \/ EndCleanup
  \/ \E id \in Ids : CheckPair(id) \/ CheckEnvelope(id)

Service ==
  \/ \E r \in requests : Handle(r) \/ Refuse(r)
  \/ Cleanup
  \/ \E id \in Ids : View(id) \/ Expire(id) \/ Age(id)
  \/ Crash

(* The event loop serves every request, the interval timer fires again and *)
(* again, and files age in the hour between two passes. *)
ServiceFairness ==
  /\ \A op \in {"put", "get", "delete"}, id \in Ids :
       WF_serviceVars(\E r \in requests : r.op = op /\ r.id = id /\ Handle(r))
  /\ WF_serviceVars(Cleanup)
  /\ \A id \in Ids : SF_serviceVars(Age(id))

-----------------------------------------------------------------------------
ServiceTypeOK ==
  /\ envelope \in [Ids -> Contents] /\ metadata \in [Ids -> Contents]
  /\ old \subseteq {id \in Ids : envelope[id] # "absent"}
  /\ expired \subseteq Ids
  /\ requests \subseteq Requests
  /\ cleaner \in [phase: {"idle", "pairs", "envelopes"}, names: SUBSET (Ids \X Kinds),
                  todo: SUBSET Ids, unlink: SUBSET (Ids \X Kinds)]
  /\ up \in BOOLEAN /\ crashes \in 0 .. MaxCrashes
  /\ deleted \subseteq Ids
  /\ ~up => \A r \in requests : r.step \in Answers

(* The pair a viewer can fetch. *)
Readable(id) == envelope[id] = "whole" /\ metadata[id] = "whole" /\ id \notin expired

(* A viewer never gets a torn envelope, nor one whose deletion had been    *)
(* answered when it asked. *)
ServedIsCurrent ==
  \A r \in requests : r.step = "reading" /\ envelope[r.id] # "absent" =>
    envelope[r.id] = "whole" /\ ~r.late

(* Whatever dies, fails or races, the files of a publication are gone some *)
(* time after it expires, and stay away. *)
ExpiredIsErased ==
  \A id \in Ids :
    id \in expired ~> [](envelope[id] = "absent" /\ metadata[id] = "absent")
=============================================================================
