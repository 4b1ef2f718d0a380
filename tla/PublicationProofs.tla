-------------------------- MODULE PublicationProofs --------------------------
(* For any publications and client processes, and any number of requests   *)
(* and crashes: what can be fetched can be revoked.                        *)
EXTENDS Publication, TLAPS

(* A put that may still create the publication. *)
Live(r) == r.op = "put" /\ r.step \in {"arrived", "writing", "written", "describing"}

Publishing(c) == command[c].op = "publish" /\ command[c].step = "ready"

NotComing(id) ==
  /\ \A r \in requests : r.id = id => ~Live(r)
  /\ \A c \in Clients : id \in command[c].ids => ~Publishing(c)

(* A deletion that found the publication: it has come, and cannot come     *)
(* again. *)
Erasing(r) ==
  /\ r.op = "delete"
  /\ r.step = "deleted" \/ (r.step = "unlinking" /\ r.answer = "deleted")

GoodRequest(r) ==
  /\ r.step \in {"writing", "written", "describing"} => r.op = "put"
  /\ r.op = "delete" => r.step # "created" /\ r.answer # "created"
  /\ Erasing(r) =>
       /\ NotComing(r.id) /\ rows[r.id] # "none"
       /\ r.step = "deleted" \/ "metadata" \notin r.unlink => metadata[r.id] # "whole"
  /\ r.client \in Clients =>
       /\ command[r.client].step = "waiting" /\ command[r.client].ids = {r.id}
       /\ command[r.client].op = "revoke" => r.op = "delete"

GoodRequests == \A r \in requests : GoodRequest(r)

OnePut ==
  /\ \A r, s \in requests : Live(r) /\ Live(s) /\ r.id = s.id => r = s
  /\ \A r, s \in requests : r.client = s.client /\ r.client \in Clients => r = s
  /\ \A c \in Clients : Publishing(c) => \A id \in command[c].ids :
       /\ \A r \in requests : r.id = id => ~Live(r)
       /\ \A d \in Clients : Publishing(d) /\ id \in command[d].ids => d = c
       /\ rows[id] # "none"

Settled == \A id \in Ids : metadata[id] = "whole" => NotComing(id)

WrittenOff ==
  \A id \in Ids : rows[id] \in {"none", "revoked"} => NotComing(id) /\ metadata[id] # "whole"

PubInv == TypeOK /\ GoodRequests /\ OnePut /\ Settled /\ WrittenOff
-----------------------------------------------------------------------------
(* Type correctness.                                                       *)

LEMMA RequestTypes ==
  ASSUME TypeOK, NEW op \in {"put", "get", "delete"}, NEW id \in Ids,
         NEW client \in Clients \cup {Nobody}
  PROVE  Request(op, id, client) \in Requests
BY DEF Request, Requests, Steps, Answers, Kinds

LEMMA AnswerTypes ==
  ASSUME TypeOK, NEW r \in requests, NEW answer \in Answers
  PROVE  /\ Answered(r, answer) \subseteq Requests
         /\ \A q \in Answered(r, answer) : q \in requests \/ q.step \in Answers
BY DEF TypeOK, ServiceTypeOK, Answered, Moved, Requests, Steps, Answers, Kinds

LEMMA FileTypes ==
  ASSUME TypeOK, NEW id \in Ids
  PROVE  /\ Filled(envelope, id) \in [Ids -> Contents]
         /\ Filled(metadata, id) \in [Ids -> Contents]
         /\ \A i \in Ids : Filled(envelope, id)[i] = "absent" <=> envelope[i] = "absent"
BY DEF TypeOK, ServiceTypeOK, Filled, Contents

LEMMA UnlinkTypes ==
  ASSUME TypeOK, NEW id \in Ids, NEW kind, Unlink(id, kind)
  PROVE  /\ envelope' \in [Ids -> Contents] /\ metadata' \in [Ids -> Contents]
         /\ old' \subseteq {i \in Ids : envelope'[i] # "absent"}
BY DEF TypeOK, ServiceTypeOK, Unlink, Contents

LEMMA TypesRequest ==
  ASSUME TypeOK, NEW r \in requests, Handle(r) \/ Refuse(r), UNCHANGED <<rows, command>>
  PROVE  TypeOK'
<1>1. r \in Requests /\ r.id \in Ids /\ (~up => r.step \in Answers)
  BY DEF TypeOK, ServiceTypeOK, Requests
<1>2. CASE Refuse(r)
  BY <1>2, AnswerTypes DEF Refuse, TypeOK, ServiceTypeOK, files, Answers
<1>3. CASE PutOpen(r)
  <2>1. [r EXCEPT !.step = "writing"] \in Requests
    BY <1>1 DEF Requests, Steps
  <2>2. QED
    BY <1>1, <1>3, <2>1, AnswerTypes DEF PutOpen, Moved, TypeOK, ServiceTypeOK, Contents, Answers
<1>4. CASE PutEnvelope(r)
  <2>1. [r EXCEPT !.step = "written"] \in Requests
    BY <1>1 DEF Requests, Steps
  <2>2. QED
    <3>1. CASE requests' = Answered(r, "refused") /\ envelope' = envelope
      BY <1>1, <1>4, <3>1, AnswerTypes DEF PutEnvelope, TypeOK, ServiceTypeOK, Answers
    <3>2. CASE requests' = Moved(r, [r EXCEPT !.step = "written"]) /\ envelope' = Filled(envelope, r.id)
      BY <1>1, <1>4, <2>1, <3>2, FileTypes DEF PutEnvelope, Moved, TypeOK, ServiceTypeOK, Answers
    <3>3. QED
      BY <1>4, <3>1, <3>2 DEF PutEnvelope, EnvelopeWritten
<1>5. CASE PutDescribe(r)
  <2>1. /\ [r EXCEPT !.step = "describing"] \in Requests
        /\ Unlinking(r, {"envelope"}, "refused") \in Requests
    BY <1>1 DEF Requests, Steps, Unlinking, Kinds, Answers
  <2>2. QED
    BY <1>1, <1>5, <2>1 DEF PutDescribe, Moved, TypeOK, ServiceTypeOK, Contents, Answers
<1>6. CASE PutMetadata(r)
  <2>1. Unlinking(r, {"envelope"}, "refused") \in Requests
    BY <1>1 DEF Requests, Steps, Unlinking, Kinds, Answers
  <2>2. QED
    BY <1>1, <1>6, <2>1, AnswerTypes, FileTypes DEF PutMetadata, Moved, TypeOK, ServiceTypeOK, Answers
<1>7. CASE Load(r)
  <2>1. /\ [r EXCEPT !.step = "reading"] \in Requests
        /\ Unlinking(r, Kinds, "refused") \in Requests
        /\ Unlinking(r, BothFiles, "deleted") \in Requests
    BY <1>1 DEF Requests, Steps, Unlinking, Kinds, Answers, BothFiles
  <2>2. QED
    BY <1>1, <1>7, <2>1, AnswerTypes DEF Load, Moved, files, TypeOK, ServiceTypeOK, Answers
<1>8. CASE UnlinkOne(r)
  <2>1. PICK kind \in r.unlink : Unlink(r.id, kind) /\ requests' = Moved(r, [r EXCEPT !.unlink = @ \ {kind}])
    BY <1>8 DEF UnlinkOne
  <2>2. [r EXCEPT !.unlink = @ \ {kind}] \in Requests
    BY <1>1 DEF Requests
  <2>3. QED
    BY <1>1, <1>8, <2>1, <2>2, UnlinkTypes DEF UnlinkOne, Moved, TypeOK, ServiceTypeOK, Answers
<1>9. CASE AnswerUnlinked(r)
  <2>1. r.answer \in Answers
    BY <1>1 DEF Requests
  <2>2. QED
    BY <1>1, <1>9, <2>1, AnswerTypes DEF AnswerUnlinked, files, TypeOK, ServiceTypeOK, Answers
<1>10. CASE GetEnvelope(r)
  BY <1>10, AnswerTypes DEF GetEnvelope, files, TypeOK, ServiceTypeOK, Answers
<1>11. QED
  BY <1>2, <1>3, <1>4, <1>5, <1>6, <1>7, <1>8, <1>9, <1>10 DEF Handle

LEMMA TypesCleanup ==
  ASSUME TypeOK, Cleanup, UNCHANGED <<rows, command>>
  PROVE  TypeOK'
<1>1. CASE ListFiles
  BY <1>1 DEF ListFiles, Present, files, TypeOK, ServiceTypeOK, Kinds
<1>2. CASE CleanerUnlinks
  <2>1. PICK f \in cleaner.unlink :
          Unlink(f[1], f[2]) /\ cleaner' = [cleaner EXCEPT !.unlink = @ \ {f}]
    BY <1>2 DEF CleanerUnlinks
  <2>2. f[1] \in Ids
    BY DEF TypeOK, ServiceTypeOK
  <2>3. QED
    BY <1>2, <2>1, <2>2, UnlinkTypes DEF CleanerUnlinks, TypeOK, ServiceTypeOK
<1>3. CASE TurnToEnvelopes
  BY <1>3 DEF TurnToEnvelopes, LeftOver, files, TypeOK, ServiceTypeOK
<1>4. CASE EndCleanup
  BY <1>4 DEF EndCleanup, Idle, files, TypeOK, ServiceTypeOK
<1>5. ASSUME NEW id \in Ids, CheckPair(id) PROVE TypeOK'
  BY <1>5 DEF CheckPair, files, TypeOK, ServiceTypeOK
<1>6. ASSUME NEW id \in Ids, CheckEnvelope(id) PROVE TypeOK'
  <2>1. CASE envelope[id] = "absent"
    BY <1>6, <2>1 DEF CheckEnvelope, Idle, files, TypeOK, ServiceTypeOK
  <2>2. CASE envelope[id] # "absent"
    <3>1. PICK unlink : /\ unlink = IF id \in old THEN {<<id, "envelope">>} ELSE {}
                        /\ cleaner' = [cleaner EXCEPT !.todo = @ \ {id}, !.unlink = unlink]
      BY <1>6, <2>2 DEF CheckEnvelope
    <3>2. unlink \in SUBSET (Ids \X Kinds)
      BY <3>1 DEF Kinds
    <3>3. cleaner' \in [phase: {"idle", "pairs", "envelopes"}, names: SUBSET (Ids \X Kinds),
                        todo: SUBSET Ids, unlink: SUBSET (Ids \X Kinds)]
      BY <3>1, <3>2 DEF TypeOK, ServiceTypeOK
    <3>4. QED
      BY <1>6, <3>3 DEF CheckEnvelope, files, TypeOK, ServiceTypeOK
  <2>3. QED
    BY <2>1, <2>2
<1>7. QED
  BY <1>1, <1>2, <1>3, <1>4, <1>5, <1>6 DEF Cleanup

LEMMA TypesEnvironment ==
  ASSUME TypeOK, NEW id \in Ids, View(id) \/ Expire(id) \/ Age(id),
         UNCHANGED <<rows, command>>
  PROVE  TypeOK'
<1>1. CASE View(id)
  BY <1>1, RequestTypes DEF View, files, TypeOK, ServiceTypeOK
<1>2. CASE Expire(id)
  BY <1>2 DEF Expire, files, TypeOK, ServiceTypeOK
<1>3. CASE Age(id)
  BY <1>3 DEF Age, files, TypeOK, ServiceTypeOK
<1>4. QED
  BY <1>1, <1>2, <1>3

LEMMA TypesCrash ==
  ASSUME TypeOK, Crash, UNCHANGED <<rows, command>>
  PROVE  TypeOK'
<1>1. ASSUME NEW r \in ConnectionsLost
      PROVE  r \in Requests /\ r.step \in Answers
  <2>1. PICK q \in requests :
          r = [q EXCEPT !.step = IF @ \in Answers THEN @ ELSE "refused", !.unlink = {}]
    BY DEF ConnectionsLost
  <2>2. q \in Requests
    BY DEF TypeOK, ServiceTypeOK
  <2>3. QED
    BY <2>1, <2>2 DEF Requests, Answers
<1>2. requests' = ConnectionsLost /\ cleaner' = Idle /\ up' = FALSE /\ crashes' \in 0 .. MaxCrashes
      /\ UNCHANGED <<envelope, metadata, old, expired, deleted, rows, command>>
  BY ShareServiceAssumption DEF Crash, files, TypeOK, ServiceTypeOK
<1>3. Idle \in [phase: {"idle", "pairs", "envelopes"}, names: SUBSET (Ids \X Kinds),
                 todo: SUBSET Ids, unlink: SUBSET (Ids \X Kinds)]
  BY DEF Idle
<1>4. QED
  BY <1>1, <1>2, <1>3 DEF TypeOK, ServiceTypeOK

LEMMA StatusTypes ==
  ASSUME TypeOK, NEW id \in Ids, NEW status \in Statuses
  PROVE  /\ WithStatus(id, status) \in [Ids -> Statuses]
         /\ \A i \in Ids : WithStatus(id, status)[i] =
              IF i = id /\ rows[i] # "none" THEN status ELSE rows[i]
BY DEF TypeOK, WithStatus

LEMMA FinishTypes ==
  ASSUME TypeOK, NEW c \in Clients, NEW success \in BOOLEAN, Finish(c, success)
  PROVE  rows' \in [Ids -> Statuses] /\ command' = [command EXCEPT ![c] = Free]
<1>1. PICK id \in command[c].ids :
        rows' = IF command[c].op = "publish" THEN WithStatus(id, IF success THEN "active" ELSE "failed")
                ELSE IF success THEN WithStatus(id, "revoked") ELSE rows
  BY DEF Finish
<1>2. id \in Ids
  BY DEF TypeOK, Commands
<1>3. QED
  BY <1>1, <1>2, StatusTypes DEF Finish, Done, Statuses, TypeOK

LEMMA HungUpTypes ==
  ASSUME TypeOK, NEW c \in Clients, NEW q \in HungUp(c)
  PROVE  \E r \in requests :
           /\ q = r \/ q = [r EXCEPT !.client = Nobody]
           /\ q \in Requests /\ q.id = r.id /\ q.op = r.op /\ q.step = r.step
           /\ q.unlink = r.unlink /\ q.answer = r.answer
           /\ q.client \in {r.client, Nobody} /\ q.client # c
<1>1. PICK r \in requests : q = IF r.client = c THEN [r EXCEPT !.client = Nobody] ELSE r
  BY DEF HungUp
<1>2. r \in Requests
  BY DEF TypeOK, ServiceTypeOK
<1>3. QED
  BY <1>1, <1>2, ShareServiceAssumption DEF Requests

LEMMA CommandTypes ==
  ASSUME TypeOK, NEW c \in Clients, NEW next \in Commands,
         next.step \in {"ready", "waiting"} =>
           next.op \in {"publish", "revoke"} /\ \E id \in Ids : next.ids = {id},
         command' = [command EXCEPT ![c] = next],
         rows' \in [Ids -> Statuses], requests' \subseteq Requests,
         ~up => \A r \in requests' : r.step \in Answers,
         UNCHANGED serviceButRequests
  PROVE  TypeOK'
BY DEF TypeOK, ServiceTypeOK, serviceButRequests, files

LEMMA TypesCommand ==
  ASSUME TypeOK, NEW c \in Clients, Command(c)
  PROVE  TypeOK'
<1>1. /\ command[c] \in Commands /\ requests \subseteq Requests /\ rows \in [Ids -> Statuses]
      /\ command[c].step \in {"ready", "waiting"} =>
           command[c].op \in {"publish", "revoke"} /\ \E id \in Ids : command[c].ids = {id}
      /\ ~up => \A r \in requests : r.step \in Answers
  BY DEF TypeOK, ServiceTypeOK
<1>2. Free \in Commands /\ Free.step = "free"
  BY DEF Free, Commands
<1>3. ASSUME NEW id \in Ids, StartPublish(c, id) PROVE TypeOK'
  <2>1. /\ [op |-> "publish", ids |-> {id}, step |-> "ready"] \in Commands
        /\ PendingRow(id) \in [Ids -> Statuses]
    BY <1>1 DEF Commands, PendingRow, Statuses
  <2>2. QED
    BY <1>1, <1>3, <2>1, CommandTypes DEF StartPublish, serviceVars, serviceButRequests, files
<1>4. ASSUME NEW id \in Ids, StartRevoke(c, id) PROVE TypeOK'
  <2>1. [op |-> "revoke", ids |-> {id}, step |-> "ready"] \in Commands
    BY DEF Commands
  <2>2. QED
    BY <1>1, <1>4, <2>1, CommandTypes DEF StartRevoke, serviceVars, serviceButRequests, files
<1>5. CASE StartList(c)
  <2>1. PICK lapsed \in SUBSET Ids :
          command' = [command EXCEPT ![c] = [op |-> "list", ids |-> lapsed, step |-> "refreshing"]]
    BY <1>5 DEF StartList
  <2>2. [op |-> "list", ids |-> lapsed, step |-> "refreshing"] \in Commands
    BY DEF Commands
  <2>3. QED
    BY <1>1, <1>5, <2>1, <2>2, CommandTypes DEF StartList, serviceVars, serviceButRequests, files
<1>6. CASE MarkExpired(c)
  <2>1. PICK id \in command[c].ids :
          /\ rows' = WithStatus(id, "expired")
          /\ command' = [command EXCEPT ![c].ids = @ \ {id}]
    BY <1>6 DEF MarkExpired
  <2>2. /\ id \in Ids /\ [command[c] EXCEPT !.ids = @ \ {id}] \in Commands
        /\ command' = [command EXCEPT ![c] = [command[c] EXCEPT !.ids = @ \ {id}]]
        /\ [command[c] EXCEPT !.ids = @ \ {id}].step = "refreshing"
    BY <1>1, <1>6, <2>1 DEF Commands, MarkExpired, TypeOK
  <2>3. rows' \in [Ids -> Statuses]
    BY <2>1, <2>2, StatusTypes DEF Statuses
  <2>4. QED
    BY <1>1, <1>6, <2>2, <2>3, CommandTypes DEF MarkExpired, serviceVars, serviceButRequests, files
<1>7. CASE EndList(c)
  BY <1>1, <1>2, <1>7, CommandTypes DEF EndList, Done, serviceVars, serviceButRequests, files
<1>8. CASE Send(c)
  <2>1. CASE Finish(c, FALSE) /\ UNCHANGED requests
    BY <1>1, <1>2, <1>8, <2>1, FinishTypes, CommandTypes DEF Send
  <2>2. CASE ~(Finish(c, FALSE) /\ UNCHANGED requests)
    <3>1. PICK id \in command[c].ids :
            requests' = requests \cup
              {Request(IF command[c].op = "publish" THEN "put" ELSE "delete", id, c)}
      BY <1>8, <2>2 DEF Send
    <3>2. /\ up /\ UNCHANGED rows
          /\ command' = [command EXCEPT ![c] = [command[c] EXCEPT !.step = "waiting"]]
          /\ [command[c] EXCEPT !.step = "waiting"] \in Commands
          /\ [command[c] EXCEPT !.step = "waiting"].ids = command[c].ids
          /\ [command[c] EXCEPT !.step = "waiting"].op = command[c].op
      BY <1>1, <1>8, <2>2 DEF Send, Commands, TypeOK
    <3>3. id \in Ids
      BY <1>1 DEF Commands
    <3>4. requests' \subseteq Requests
      BY <1>1, <3>1, <3>3, RequestTypes
    <3>5. QED
      BY <1>1, <1>8, <3>2, <3>4, CommandTypes DEF Send
  <2>3. QED
    BY <2>1, <2>2
<1>9. CASE ReadAnswer(c)
  <2>1. PICK r \in requests : requests' = requests \ {r} /\ Finish(c, r.step # "refused")
    BY <1>9 DEF ReadAnswer
  <2>2. QED
    BY <1>1, <1>2, <1>9, <2>1, FinishTypes, CommandTypes DEF ReadAnswer
<1>10. requests' = HungUp(c) =>
         requests' \subseteq Requests /\ (~up => \A r \in requests' : r.step \in Answers)
  BY <1>1, HungUpTypes
<1>11. CASE TimeOut(c)
  BY <1>2, <1>10, <1>11, FinishTypes, CommandTypes DEF TimeOut
<1>12. CASE Stop(c)
  BY <1>1, <1>2, <1>10, <1>12, CommandTypes DEF Stop, Done
<1>13. QED
  BY <1>3, <1>4, <1>5, <1>6, <1>7, <1>8, <1>9, <1>11, <1>12 DEF Command

LEMMA InitTypes == Init => TypeOK
<1> SUFFICES ASSUME Init PROVE TypeOK
  OBVIOUS
<1>1. /\ cleaner \in [phase: {"idle", "pairs", "envelopes"}, names: SUBSET (Ids \X Kinds),
                       todo: SUBSET Ids, unlink: SUBSET (Ids \X Kinds)]
      /\ crashes \in 0 .. MaxCrashes
  BY ShareServiceAssumption DEF Init, ServiceInit, Idle
<1>2. /\ envelope \in [Ids -> Contents] /\ metadata \in [Ids -> Contents]
      /\ rows \in [Ids -> Statuses]
  BY DEF Init, ServiceInit, Contents, Statuses
<1>3. /\ command \in [Clients -> Commands]
      /\ \A c \in Clients : command[c].step = "free"
  BY DEF Init, Free, Commands
<1>4. QED
  BY <1>1, <1>2, <1>3 DEF Init, ServiceInit, TypeOK, ServiceTypeOK

LEMMA TypesNext == TypeOK /\ [Next]_vars => TypeOK'
<1> SUFFICES ASSUME TypeOK, [Next]_vars PROVE TypeOK'
  OBVIOUS
<1>1. CASE Service /\ UNCHANGED <<rows, command>>
  BY <1>1, TypesRequest, TypesCleanup, TypesEnvironment, TypesCrash DEF Service
<1>2. CASE \E c \in Clients : Command(c)
  BY <1>2, TypesCommand
<1>3. CASE UNCHANGED vars
  BY <1>3 DEF vars, serviceVars, TypeOK, ServiceTypeOK
<1>4. QED
  BY <1>1, <1>2, <1>3 DEF Next

-----------------------------------------------------------------------------
(* The invariant.                                                          *)

(* A publication does not come back when no put appears and no command     *)
(* begins to publish. *)
LEMMA NotComingKept ==
  ASSUME NEW id, NotComing(id),
         \A q \in requests' : Live(q) /\ q.id = id => \E r \in requests : Live(r) /\ r.id = id,
         \A c \in Clients : Publishing(c)' => command'[c] = command[c]
  PROVE  NotComing(id)'
BY DEF NotComing, Publishing

(* What the service must respect when it replaces a request by next. *)
Fits(next) ==
  /\ next.step \in {"writing", "written", "describing"} => next.op = "put"
  /\ next.op = "delete" => next.step # "created" /\ next.answer # "created"
  /\ Erasing(next) =>
       /\ NotComing(next.id) /\ rows[next.id] # "none"
       /\ next.step = "deleted" \/ "metadata" \notin next.unlink => metadata'[next.id] # "whole"

LEMMA StepKeeps ==
  ASSUME PubInv, TypeOK', UNCHANGED <<rows, command>>,
         NEW r \in requests, NEW next,
         next.id = r.id, next.op = r.op, next.client = r.client, Live(next) => Live(r),
         requests' \subseteq (requests \ {r}) \cup {next},
         \A i \in Ids : metadata'[i] = "whole" => metadata[i] = "whole",
         Fits(next)
  PROVE  PubInv'
<1>1. \A q \in requests' : Live(q) => \E s \in requests : Live(s) /\ s.id = q.id
  OBVIOUS
<1>2. \A id : NotComing(id) => NotComing(id)'
  BY <1>1, NotComingKept
<1>3. \A q \in requests : q.id \in Ids
  BY DEF PubInv, TypeOK, ServiceTypeOK, Requests
<1>4. GoodRequests'
  <2>1. ASSUME NEW q \in requests', q \in requests
        PROVE  GoodRequest(q)'
    BY <1>2, <1>3, <2>1 DEF PubInv, GoodRequests, GoodRequest
  <2>2. GoodRequest(next)'
    BY <1>2 DEF PubInv, GoodRequests, GoodRequest, Fits
  <2>3. QED
    BY <2>1, <2>2 DEF GoodRequests
<1>5. OnePut'
  <2>1. /\ \A p, q \in requests' : Live(p) /\ Live(q) /\ p.id = q.id => p = q
        /\ \A p, q \in requests' : p.client = q.client /\ p.client \in Clients => p = q
    BY DEF PubInv, OnePut
  <2>2. QED
    BY <1>1, <2>1 DEF PubInv, OnePut, Publishing
<1>6. Settled' /\ WrittenOff'
  BY <1>2 DEF PubInv, Settled, WrittenOff
<1>7. QED
  BY <1>4, <1>5, <1>6 DEF PubInv

(* The same for an answer that goes to its client or to nobody. *)
LEMMA AnswerKeeps ==
  ASSUME PubInv, TypeOK', UNCHANGED <<rows, command>>,
         NEW r \in requests, NEW answer \in Answers, requests' = Answered(r, answer),
         \A i \in Ids : metadata'[i] = "whole" => metadata[i] = "whole",
         r.op = "delete" => answer # "created",
         answer = "deleted" /\ r.op = "delete" =>
           NotComing(r.id) /\ rows[r.id] # "none" /\ metadata'[r.id] # "whole"
  PROVE  PubInv'
<1>1. r \in Requests
  BY DEF PubInv, TypeOK, ServiceTypeOK
<1>2. PICK next : next = [r EXCEPT !.step = answer, !.unlink = {}]
  OBVIOUS
<1>3. /\ next.id = r.id /\ next.op = r.op /\ next.client = r.client
      /\ next.step = answer /\ next.unlink = {} /\ next.answer = r.answer
  BY <1>1, <1>2 DEF Requests
<1>4. requests' \subseteq (requests \ {r}) \cup {next}
  BY <1>2 DEF Answered, Moved
<1>5. Fits(next)
  BY <1>3 DEF Fits, Erasing, Answers, PubInv, GoodRequests, GoodRequest
<1>6. ~Live(next)
  BY <1>3 DEF Live, Answers
<1>7. QED
  BY <1>3, <1>4, <1>5, <1>6, StepKeeps

LEMMA KeepRefuse ==
  ASSUME PubInv, TypeOK', NEW r \in requests, Refuse(r), UNCHANGED <<rows, command>>
  PROVE  PubInv'
BY AnswerKeeps DEF Refuse, files, Answers

LEMMA KeepPutOpen ==
  ASSUME PubInv, TypeOK', NEW r \in requests, PutOpen(r), UNCHANGED <<rows, command>>
  PROVE  PubInv'
<1>1. CASE requests' = Answered(r, "refused")
  BY <1>1, AnswerKeeps DEF PutOpen, Answers
<1>2. CASE requests' = Moved(r, [r EXCEPT !.step = "writing"])
  <2>1. PICK next : next = [r EXCEPT !.step = "writing"]
    OBVIOUS
  <2>2. r \in Requests
    BY DEF PubInv, TypeOK, ServiceTypeOK
  <2>3. /\ next.id = r.id /\ next.op = r.op /\ next.client = r.client /\ next.step = "writing"
        /\ requests' \subseteq (requests \ {r}) \cup {next}
    BY <1>2, <2>1, <2>2 DEF Requests, Moved
  <2>4. Fits(next) /\ Live(r)
    BY <2>3 DEF Fits, Erasing, Live, PutOpen
  <2>5. QED
    BY <2>3, <2>4, StepKeeps DEF PutOpen
<1>3. QED
  BY <1>1, <1>2 DEF PutOpen

LEMMA KeepPutEnvelope ==
  ASSUME PubInv, TypeOK', NEW r \in requests, PutEnvelope(r), UNCHANGED <<rows, command>>
  PROVE  PubInv'
<1>1. CASE requests' = Answered(r, "refused")
  BY <1>1, AnswerKeeps DEF PutEnvelope, Answers
<1>2. CASE requests' = Moved(r, [r EXCEPT !.step = "written"])
  <2>1. PICK next : next = [r EXCEPT !.step = "written"]
    OBVIOUS
  <2>2. r \in Requests /\ r.op = "put"
    BY DEF PubInv, TypeOK, ServiceTypeOK, PutEnvelope, GoodRequests, GoodRequest
  <2>3. /\ next.id = r.id /\ next.op = r.op /\ next.client = r.client /\ next.step = "written"
        /\ requests' \subseteq (requests \ {r}) \cup {next}
    BY <1>2, <2>1, <2>2 DEF Requests, Moved
  <2>4. Fits(next) /\ Live(r)
    BY <2>2, <2>3 DEF Fits, Erasing, Live, PutEnvelope
  <2>5. QED
    BY <2>3, <2>4, StepKeeps DEF PutEnvelope
<1>3. QED
  BY <1>1, <1>2 DEF PutEnvelope

(* A put that failed and removes its envelope. *)
LEMMA KeepGivingUp ==
  ASSUME PubInv, TypeOK', NEW r \in requests, r.step \in {"written", "describing"},
         requests' = Moved(r, Unlinking(r, {"envelope"}, "refused")),
         metadata' = metadata, UNCHANGED <<rows, command>>
  PROVE  PubInv'
<1>1. PICK next : next = Unlinking(r, {"envelope"}, "refused")
  OBVIOUS
<1>2. r \in Requests /\ r.op = "put"
  BY DEF PubInv, TypeOK, ServiceTypeOK, GoodRequests, GoodRequest
<1>3. /\ next.id = r.id /\ next.op = r.op /\ next.client = r.client /\ next.step = "unlinking"
      /\ requests' \subseteq (requests \ {r}) \cup {next}
  BY <1>1, <1>2 DEF Requests, Moved, Unlinking
<1>4. Fits(next) /\ ~Live(next)
  BY <1>2, <1>3 DEF Fits, Erasing, Live
<1>5. QED
  BY <1>3, <1>4, StepKeeps

LEMMA KeepPutDescribe ==
  ASSUME PubInv, TypeOK', NEW r \in requests, PutDescribe(r), UNCHANGED <<rows, command>>
  PROVE  PubInv'
<1>1. CASE requests' = Moved(r, Unlinking(r, {"envelope"}, "refused")) /\ metadata' = metadata
  BY <1>1, KeepGivingUp DEF PutDescribe
<1>2. CASE /\ requests' = Moved(r, [r EXCEPT !.step = "describing"])
           /\ metadata' = [metadata EXCEPT ![r.id] = "partial"]
  <2>1. PICK next : next = [r EXCEPT !.step = "describing"]
    OBVIOUS
  <2>2. r \in Requests /\ r.op = "put"
    BY DEF PubInv, TypeOK, ServiceTypeOK, PutDescribe, GoodRequests, GoodRequest
  <2>3. /\ next.id = r.id /\ next.op = r.op /\ next.client = r.client /\ next.step = "describing"
        /\ requests' \subseteq (requests \ {r}) \cup {next}
    BY <1>2, <2>1, <2>2 DEF Requests, Moved
  <2>4. Fits(next) /\ Live(r)
    BY <2>2, <2>3 DEF Fits, Erasing, Live, PutDescribe
  <2>5. \A i \in Ids : metadata'[i] = "whole" => metadata[i] = "whole"
    BY <1>2 DEF PubInv, TypeOK, ServiceTypeOK
  <2>6. QED
    BY <2>3, <2>4, <2>5, StepKeeps
<1>3. QED
  BY <1>1, <1>2 DEF PutDescribe

(* The publication appears: no other put of it is on its way, its row is   *)
(* there and not written off, and nobody is deleting it. *)
LEMMA KeepPutMetadata ==
  ASSUME PubInv, TypeOK', NEW r \in requests, PutMetadata(r), UNCHANGED <<rows, command>>
  PROVE  PubInv'
<1>1. CASE requests' = Moved(r, Unlinking(r, {"envelope"}, "refused")) /\ metadata' = metadata
  BY <1>1, KeepGivingUp DEF PutMetadata
<1>2. CASE requests' = Answered(r, "created") /\ metadata' = Filled(metadata, r.id)
  <2>1. r \in Requests /\ r.op = "put" /\ r.id \in Ids /\ Live(r)
    BY DEF PubInv, TypeOK, ServiceTypeOK, PutMetadata, GoodRequests, GoodRequest, Requests, Live
  <2>2. PICK next : next = [r EXCEPT !.step = "created", !.unlink = {}]
    OBVIOUS
  <2>3. /\ next.id = r.id /\ next.op = "put" /\ next.client = r.client /\ next.step = "created"
        /\ requests' \subseteq (requests \ {r}) \cup {next}
    BY <1>2, <2>1, <2>2 DEF Requests, Answered, Moved
  <2>4. \A i \in Ids : metadata'[i] = "whole" => metadata[i] = "whole" \/ i = r.id
    BY <1>2, <2>1 DEF Filled, PubInv, TypeOK, ServiceTypeOK
  <2>5. /\ ~NotComing(r.id) /\ rows[r.id] \notin {"none", "revoked"}
        /\ \A q \in requests : Erasing(q) => q.id # r.id
    BY <2>1 DEF NotComing, PubInv, WrittenOff, GoodRequests, GoodRequest
  <2>6. \A q \in requests' : Live(q) => q \in requests /\ q # r
    BY <2>3 DEF Live
  <2>7. \A id : NotComing(id) => NotComing(id)'
    BY <2>6, NotComingKept
  <2>8. NotComing(r.id)'
    <3>1. \A q \in requests' : q.id = r.id => ~Live(q)
      BY <2>1, <2>6 DEF PubInv, OnePut
    <3>2. \A c \in Clients : r.id \in command[c].ids => ~Publishing(c)
      BY <2>1 DEF PubInv, OnePut
    <3>3. QED
      BY <3>1, <3>2 DEF NotComing, Publishing
  <2>9. GoodRequests'
    <3>1. ASSUME NEW q \in requests', q \in requests
          PROVE  GoodRequest(q)'
      <4>1. q.id \in Ids
        BY <3>1 DEF PubInv, TypeOK, ServiceTypeOK, Requests
      <4>2. QED
        BY <2>4, <2>5, <2>7, <3>1, <4>1 DEF PubInv, GoodRequests, GoodRequest
    <3>2. GoodRequest(next)'
      BY <2>1, <2>3 DEF PubInv, GoodRequests, GoodRequest, Erasing
    <3>3. QED
      BY <2>3, <3>1, <3>2 DEF GoodRequests
  <2>10. OnePut'
    <3>1. /\ \A p, q \in requests' : Live(p) /\ Live(q) /\ p.id = q.id => p = q
          /\ \A p, q \in requests' : p.client = q.client /\ p.client \in Clients => p = q
      BY <2>3, <2>6 DEF PubInv, OnePut
    <3>2. QED
      BY <2>6, <3>1 DEF PubInv, OnePut, Publishing
  <2>11. Settled' /\ WrittenOff'
    BY <2>4, <2>5, <2>7, <2>8 DEF PubInv, Settled, WrittenOff
  <2>12. QED
    BY <2>9, <2>10, <2>11 DEF PubInv
<1>3. QED
  BY <1>1, <1>2 DEF PutMetadata

LEMMA KeepLoad ==
  ASSUME PubInv, TypeOK', NEW r \in requests, Load(r), UNCHANGED <<rows, command>>
  PROVE  PubInv'
<1>1. /\ r \in Requests /\ r.id \in Ids /\ r.step = "arrived" /\ r.op \in {"get", "delete"}
      /\ metadata' = metadata
  BY DEF PubInv, TypeOK, ServiceTypeOK, Load, files, Requests
<1>2. CASE requests' = Answered(r, "refused")
  BY <1>1, <1>2, AnswerKeeps DEF Answers
<1>3. CASE requests' = Moved(r, Unlinking(r, Kinds, "refused"))
  <2>1. PICK next : next = Unlinking(r, Kinds, "refused")
    OBVIOUS
  <2>2. /\ next.id = r.id /\ next.op = r.op /\ next.client = r.client
        /\ next.step = "unlinking" /\ next.answer = "refused"
        /\ requests' \subseteq (requests \ {r}) \cup {next}
    BY <1>1, <1>3, <2>1 DEF Requests, Moved, Unlinking
  <2>3. Fits(next) /\ ~Live(next)
    BY <2>2 DEF Fits, Erasing, Live
  <2>4. QED
    BY <1>1, <2>2, <2>3, StepKeeps
<1>4. CASE /\ requests' = Moved(r, Unlinking(r, BothFiles, "deleted"))
           /\ metadata[r.id] = "whole"
  <2>1. PICK next : next = Unlinking(r, BothFiles, "deleted")
    OBVIOUS
  <2>2. /\ next.id = r.id /\ next.op = r.op /\ next.client = r.client
        /\ next.step = "unlinking" /\ next.answer = "deleted" /\ "metadata" \in next.unlink
        /\ requests' \subseteq (requests \ {r}) \cup {next}
    BY <1>1, <1>4, <2>1 DEF Requests, Moved, Unlinking, BothFiles, Kinds
  <2>3. NotComing(r.id) /\ rows[r.id] # "none"
    BY <1>1, <1>4 DEF PubInv, Settled, WrittenOff
  <2>4. Fits(next) /\ ~Live(next)
    BY <2>2, <2>3 DEF Fits, Live
  <2>5. QED
    BY <1>1, <2>2, <2>4, StepKeeps
<1>5. CASE requests' = Moved(r, [r EXCEPT !.step = "reading"])
  <2>1. PICK next : next = [r EXCEPT !.step = "reading"]
    OBVIOUS
  <2>2. /\ next.id = r.id /\ next.op = r.op /\ next.client = r.client
        /\ next.step = "reading" /\ next.answer = r.answer
        /\ requests' \subseteq (requests \ {r}) \cup {next}
    BY <1>1, <1>5, <2>1 DEF Requests, Moved
  <2>3. Fits(next) /\ ~Live(next)
    BY <2>2 DEF Fits, Erasing, Live, PubInv, GoodRequests, GoodRequest
  <2>4. QED
    BY <1>1, <2>2, <2>3, StepKeeps
<1>6. QED
  BY <1>2, <1>3, <1>4, <1>5 DEF Load

LEMMA KeepUnlinkOne ==
  ASSUME PubInv, TypeOK', NEW r \in requests, UnlinkOne(r), UNCHANGED <<rows, command>>
  PROVE  PubInv'
<1>1. PICK kind \in r.unlink :
        Unlink(r.id, kind) /\ requests' = Moved(r, [r EXCEPT !.unlink = @ \ {kind}])
  BY DEF UnlinkOne
<1>2. r \in Requests /\ r.id \in Ids
  BY DEF PubInv, TypeOK, ServiceTypeOK, Requests
<1>3. PICK next : next = [r EXCEPT !.unlink = @ \ {kind}]
  OBVIOUS
<1>4. /\ next.id = r.id /\ next.op = r.op /\ next.client = r.client /\ next.step = r.step
      /\ next.answer = r.answer /\ next.unlink = r.unlink \ {kind}
      /\ requests' \subseteq (requests \ {r}) \cup {next}
  BY <1>1, <1>2, <1>3 DEF Requests, Moved
<1>5. /\ \A i \in Ids : metadata'[i] = "whole" => metadata[i] = "whole"
      /\ kind = "metadata" => metadata'[r.id] # "whole"
  BY <1>1, <1>2 DEF Unlink, PubInv, TypeOK, ServiceTypeOK
<1>6. Fits(next)
  BY <1>2, <1>4, <1>5 DEF Fits, Erasing, PubInv, GoodRequests, GoodRequest
<1>7. Live(next) => Live(r)
  BY <1>4 DEF Live
<1>8. QED
  BY <1>4, <1>5, <1>6, <1>7, StepKeeps

LEMMA KeepAnswerUnlinked ==
  ASSUME PubInv, TypeOK', NEW r \in requests, AnswerUnlinked(r), UNCHANGED <<rows, command>>
  PROVE  PubInv'
<1>1. /\ r.answer \in Answers /\ requests' = Answered(r, r.answer) /\ metadata' = metadata
      /\ r.step = "unlinking" /\ r.unlink = {}
  BY DEF PubInv, TypeOK, ServiceTypeOK, Requests, AnswerUnlinked, files
<1>2. r.op = "delete" => r.answer # "created"
  BY DEF PubInv, GoodRequests, GoodRequest
<1>3. r.answer = "deleted" /\ r.op = "delete" =>
        NotComing(r.id) /\ rows[r.id] # "none" /\ metadata[r.id] # "whole"
  BY <1>1 DEF PubInv, GoodRequests, GoodRequest, Erasing
<1>4. QED
  BY <1>1, <1>2, <1>3, AnswerKeeps

LEMMA KeepGetEnvelope ==
  ASSUME PubInv, TypeOK', NEW r \in requests, GetEnvelope(r), UNCHANGED <<rows, command>>
  PROVE  PubInv'
BY AnswerKeeps DEF GetEnvelope, files, Answers

(* No request is involved, and no publication appears: the cleanup, and    *)
(* time. *)
LEMMA KeepQuiet ==
  ASSUME PubInv, TypeOK', UNCHANGED <<requests, rows, command>>,
         \A i \in Ids : metadata'[i] = "whole" => metadata[i] = "whole"
  PROVE  PubInv'
<1>1. \A id : NotComing(id) => NotComing(id)'
  BY NotComingKept
<1>2. \A q \in requests : q.id \in Ids
  BY DEF PubInv, TypeOK, ServiceTypeOK, Requests
<1>3. GoodRequests'
  BY <1>1, <1>2 DEF PubInv, GoodRequests, GoodRequest
<1>4. OnePut'
  BY DEF PubInv, OnePut, Publishing
<1>5. QED
  BY <1>1, <1>3, <1>4 DEF PubInv, Settled, WrittenOff

LEMMA KeepCleanup ==
  ASSUME PubInv, TypeOK', Cleanup, UNCHANGED <<rows, command>>
  PROVE  PubInv'
<1>1. UNCHANGED requests
  BY DEF Cleanup, ListFiles, CleanerUnlinks, TurnToEnvelopes, EndCleanup, CheckPair, CheckEnvelope
<1>2. \A i \in Ids : metadata'[i] = "whole" => metadata[i] = "whole"
  <2>1. CASE CleanerUnlinks
    BY <2>1 DEF CleanerUnlinks, Unlink, PubInv, TypeOK, ServiceTypeOK
  <2>2. CASE ~CleanerUnlinks
    BY <2>2 DEF Cleanup, ListFiles, TurnToEnvelopes, EndCleanup, CheckPair, CheckEnvelope, files
  <2>3. QED
    BY <2>1, <2>2
<1>3. QED
  BY <1>1, <1>2, KeepQuiet

LEMMA KeepTime ==
  ASSUME PubInv, TypeOK', NEW id \in Ids, Expire(id) \/ Age(id), UNCHANGED <<rows, command>>
  PROVE  PubInv'
BY KeepQuiet DEF Expire, Age, files

LEMMA KeepView ==
  ASSUME PubInv, TypeOK', NEW id \in Ids, View(id), UNCHANGED <<rows, command>>
  PROVE  PubInv'
<1>1. PICK new : new = Request("get", id, Nobody)
  OBVIOUS
<1>2. /\ requests' = requests \cup {new} /\ metadata' = metadata
      /\ new.op = "get" /\ new.step = "arrived" /\ new.client \notin Clients
  BY <1>1, ShareServiceAssumption DEF View, Request, files
<1>3. \A q \in requests' : Live(q) => q \in requests
  BY <1>2 DEF Live
<1>4. \A i : NotComing(i) => NotComing(i)'
  BY <1>3, NotComingKept
<1>5. GoodRequests'
  <2>1. GoodRequest(new)'
    BY <1>2 DEF GoodRequest, Erasing
  <2>2. \A q \in requests : GoodRequest(q)'
    BY <1>2, <1>4 DEF PubInv, GoodRequests, GoodRequest
  <2>3. QED
    BY <1>2, <2>1, <2>2 DEF GoodRequests
<1>6. OnePut'
  <2>1. \A p, q \in requests' : p.client = q.client /\ p.client \in Clients => p = q
    BY <1>2 DEF PubInv, OnePut
  <2>2. QED
    BY <1>3, <2>1 DEF PubInv, OnePut, Publishing
<1>7. QED
  BY <1>2, <1>4, <1>5, <1>6 DEF PubInv, Settled, WrittenOff

LEMMA KeepCrash ==
  ASSUME PubInv, TypeOK', Crash, UNCHANGED <<rows, command>>
  PROVE  PubInv'
<1>1. requests' = ConnectionsLost /\ metadata' = metadata
  BY DEF Crash, files
<1>2. ASSUME NEW q \in ConnectionsLost
      PROVE  \E r \in requests :
               /\ q = [r EXCEPT !.step = IF @ \in Answers THEN @ ELSE "refused", !.unlink = {}]
               /\ q.id = r.id /\ q.op = r.op /\ q.client = r.client /\ q.answer = r.answer
               /\ q.step \in Answers /\ (q.step # "refused" => q.step = r.step)
  <2>1. PICK r \in requests :
          q = [r EXCEPT !.step = IF @ \in Answers THEN @ ELSE "refused", !.unlink = {}]
    BY DEF ConnectionsLost
  <2>2. r \in Requests
    BY DEF PubInv, TypeOK, ServiceTypeOK
  <2>3. QED
    BY <2>1, <2>2 DEF Requests, Answers
<1>3. \A q \in requests' : ~Live(q)
  BY <1>1, <1>2 DEF Live, Answers
<1>4. \A i : NotComing(i) => NotComing(i)'
  BY <1>3, NotComingKept
<1>5. GoodRequests'
  <2>1. ASSUME NEW q \in ConnectionsLost PROVE GoodRequest(q)'
    <3>1. PICK r \in requests :
             /\ q.id = r.id /\ q.op = r.op /\ q.client = r.client /\ q.answer = r.answer
             /\ q.step \in Answers /\ (q.step # "refused" => q.step = r.step)
      BY <1>2
    <3>2. GoodRequest(r)
      BY DEF PubInv, GoodRequests
    <3>3. Erasing(q) => q.step = "deleted" /\ Erasing(r) /\ r.step = "deleted"
      BY <3>1 DEF Erasing, Answers
    <3>4. QED
      BY <1>1, <1>4, <3>1, <3>2, <3>3 DEF GoodRequest, Answers
  <2>2. QED
    BY <1>1, <2>1 DEF GoodRequests
<1>6. OnePut'
  <2>1. ASSUME NEW p \in ConnectionsLost, NEW q \in ConnectionsLost, p.client = q.client, p.client \in Clients
        PROVE  p = q
    <3>1. PICK r \in requests :
            /\ p = [r EXCEPT !.step = IF @ \in Answers THEN @ ELSE "refused", !.unlink = {}]
            /\ p.client = r.client
      BY <1>2
    <3>2. PICK s \in requests :
            /\ q = [s EXCEPT !.step = IF @ \in Answers THEN @ ELSE "refused", !.unlink = {}]
            /\ q.client = s.client
      BY <1>2
    <3>3. r = s
      BY <2>1, <3>1, <3>2 DEF PubInv, OnePut
    <3>4. QED
      BY <3>1, <3>2, <3>3
  <2>2. QED
    BY <1>1, <1>3, <2>1 DEF PubInv, OnePut, Publishing
<1>7. QED
  BY <1>1, <1>4, <1>5, <1>6 DEF PubInv, Settled, WrittenOff

-----------------------------------------------------------------------------
(* The commands.                                                           *)

(* The request of c, if it had one, is answered or nobody's any more. *)
LetGo(c) ==
  /\ \A q \in requests' : \E r \in requests :
       /\ q = r \/ (r.client = c /\ q = [r EXCEPT !.client = Nobody])
       /\ q.id = r.id /\ q.op = r.op /\ q.step = r.step
       /\ q.unlink = r.unlink /\ q.answer = r.answer
       /\ q.client \in Clients => q = r /\ q.client # c
  /\ \A p, q \in requests' : Live(p) /\ Live(q) /\ p.id = q.id => p = q

(* No row appears, and only what was deleted is written off. *)
RowsStand ==
  /\ \A i \in Ids : rows'[i] = "none" <=> rows[i] = "none"
  /\ \A i \in Ids : rows'[i] = "revoked" =>
       rows[i] = "revoked" \/ (NotComing(i) /\ metadata[i] # "whole")

(* A command turns to something else than publishing. *)
LEMMA CommandKeeps ==
  ASSUME PubInv, TypeOK', NEW c \in Clients, NEW next,
         command' = [command EXCEPT ![c] = next],
         ~(next.op = "publish" /\ next.step = "ready"),
         metadata' = metadata,
         LetGo(c), RowsStand
  PROVE  PubInv'
<1>1. /\ \A d \in Clients : d # c => command'[d] = command[d]
      /\ command'[c] = next
      /\ \A d \in Clients : Publishing(d)' => d # c /\ Publishing(d)
  BY DEF PubInv, TypeOK, Publishing
<1>2. \A q \in requests' : Live(q) => \E r \in requests : Live(r) /\ r.id = q.id
  BY DEF Live, LetGo
<1>3. \A i : NotComing(i) => NotComing(i)'
  BY <1>1, <1>2, NotComingKept
<1>4. \A q \in requests : q.id \in Ids
  BY DEF PubInv, TypeOK, ServiceTypeOK, Requests
<1>5. GoodRequests'
  <2>1. ASSUME NEW q \in requests' PROVE GoodRequest(q)'
    <3>1. PICK r \in requests :
            /\ q.id = r.id /\ q.op = r.op /\ q.step = r.step
            /\ q.unlink = r.unlink /\ q.answer = r.answer
            /\ q.client \in Clients => q = r /\ q.client # c
      BY DEF LetGo
    <3>2. GoodRequest(r) /\ (Erasing(q) => Erasing(r))
      BY <3>1 DEF PubInv, GoodRequests, Erasing
    <3>3. QED
      BY <1>1, <1>3, <1>4, <3>1, <3>2 DEF GoodRequest, RowsStand
  <2>2. QED
    BY <2>1 DEF GoodRequests
<1>6. OnePut'
  <2>1. \A p, q \in requests' : p.client = q.client /\ p.client \in Clients => p = q
    BY DEF PubInv, OnePut, LetGo
  <2>2. ASSUME NEW d \in Clients, Publishing(d)', NEW id \in command'[d].ids
        PROVE  /\ \A r \in requests' : r.id = id => ~Live(r)
               /\ \A e \in Clients : Publishing(e)' /\ id \in command'[e].ids => e = d
               /\ rows'[id] # "none"
    <3>1. id \in Ids /\ Publishing(d) /\ id \in command[d].ids
      BY <1>1, <2>2 DEF PubInv, TypeOK, Commands
    <3>2. QED
      BY <1>1, <1>2, <3>1 DEF PubInv, OnePut, RowsStand
  <2>3. QED
    BY <2>1, <2>2 DEF OnePut, LetGo
<1>7. QED
  BY <1>3, <1>5, <1>6 DEF PubInv, Settled, WrittenOff, RowsStand

(* Nobody waits for the request of c any more. *)
LEMMA HangingUp ==
  ASSUME PubInv, NEW c \in Clients, requests' = HungUp(c)
  PROVE  LetGo(c)
<1>1. ASSUME NEW q \in HungUp(c)
      PROVE  \E r \in requests :
               /\ q = IF r.client = c THEN [r EXCEPT !.client = Nobody] ELSE r
               /\ q = r \/ (r.client = c /\ q = [r EXCEPT !.client = Nobody])
               /\ q.id = r.id /\ q.op = r.op /\ q.step = r.step
               /\ q.unlink = r.unlink /\ q.answer = r.answer
               /\ q.client \in Clients => q = r /\ q.client # c
  <2>1. PICK r \in requests : q = IF r.client = c THEN [r EXCEPT !.client = Nobody] ELSE r
    BY DEF HungUp
  <2>2. r \in Requests
    BY DEF PubInv, TypeOK, ServiceTypeOK
  <2>3. QED
    BY <2>1, <2>2, ShareServiceAssumption DEF Requests
<1>2. ASSUME NEW p \in HungUp(c), NEW q \in HungUp(c), Live(p), Live(q), p.id = q.id
      PROVE  p = q
  <2>1. PICK r \in requests : /\ p = IF r.client = c THEN [r EXCEPT !.client = Nobody] ELSE r
                              /\ p.id = r.id /\ p.op = r.op /\ p.step = r.step
    BY <1>1
  <2>2. PICK s \in requests : /\ q = IF s.client = c THEN [s EXCEPT !.client = Nobody] ELSE s
                              /\ q.id = s.id /\ q.op = s.op /\ q.step = s.step
    BY <1>1
  <2>3. r = s
    BY <1>2, <2>1, <2>2 DEF Live, PubInv, OnePut
  <2>4. QED
    BY <2>1, <2>2, <2>3
<1>3. QED
  BY <1>1, <1>2 DEF LetGo

(* No request of c, or none left. *)
LEMMA LettingGo ==
  ASSUME PubInv, NEW c \in Clients, requests' \subseteq requests,
         \A q \in requests' : q.client # c
  PROVE  LetGo(c)
BY DEF PubInv, OnePut, LetGo

LEMMA NotWaiting ==
  ASSUME PubInv, NEW c \in Clients, command[c].step # "waiting"
  PROVE  \A q \in requests : q.client # c
BY DEF PubInv, GoodRequests, GoodRequest

(* The rows after a command: only an answered deletion writes one off. *)
LEMMA FinishedRows ==
  ASSUME PubInv, NEW c \in Clients, NEW success \in BOOLEAN, Finish(c, success),
         command[c].op # "publish" /\ success =>
           \A id \in command[c].ids : NotComing(id) /\ metadata[id] # "whole"
  PROVE  RowsStand /\ command' = [command EXCEPT ![c] = Free]
<1>1. PICK id \in command[c].ids :
        rows' = IF command[c].op = "publish" THEN WithStatus(id, IF success THEN "active" ELSE "failed")
                ELSE IF success THEN WithStatus(id, "revoked") ELSE rows
  BY DEF Finish
<1>2. id \in Ids /\ TypeOK
  BY DEF PubInv, TypeOK, Commands
<1>3. \A status \in {"active", "failed", "revoked"}, i \in Ids :
        WithStatus(id, status)[i] = IF i = id /\ rows[i] # "none" THEN status ELSE rows[i]
  BY <1>2, StatusTypes DEF Statuses
<1>4. CASE command[c].op = "publish"
  BY <1>1, <1>3, <1>4 DEF Finish, Done, RowsStand
<1>5. CASE command[c].op # "publish" /\ success
  BY <1>1, <1>3, <1>5 DEF Finish, Done, RowsStand
<1>6. CASE command[c].op # "publish" /\ ~success
  BY <1>1, <1>6 DEF Finish, Done, RowsStand
<1>7. QED
  BY <1>4, <1>5, <1>6

LEMMA KeepStartPublish ==
  ASSUME PubInv, TypeOK', NEW c \in Clients, NEW id \in Ids, StartPublish(c, id)
  PROVE  PubInv'
<1>1. PICK next : next = [op |-> "publish", ids |-> {id}, step |-> "ready"]
  OBVIOUS
<1>2. /\ next.op = "publish" /\ next.ids = {id} /\ next.step = "ready"
      /\ command' = [command EXCEPT ![c] = next] /\ rows' = [rows EXCEPT ![id] = "pending"]
      /\ requests' = requests /\ metadata' = metadata
      /\ rows[id] = "none" /\ command[c] = Free
      /\ \A d \in Clients : id \notin command[d].ids
  BY <1>1 DEF StartPublish, PendingRow, serviceVars
<1>3. /\ \A d \in Clients : d # c => command'[d] = command[d]
      /\ command'[c] = next /\ command[c].step = "free"
      /\ \A i \in Ids : rows'[i] = IF i = id THEN "pending" ELSE rows[i]
  BY <1>2 DEF PubInv, TypeOK, Free
<1>4. NotComing(id) /\ metadata[id] # "whole" /\ \A q \in requests : Erasing(q) => q.id # id
  BY <1>2 DEF PubInv, WrittenOff, GoodRequests, GoodRequest
<1>5. \A i : i # id /\ NotComing(i) => NotComing(i)'
  BY <1>2, <1>3 DEF NotComing, Publishing
<1>6. GoodRequests'
  <2>1. ASSUME NEW q \in requests PROVE GoodRequest(q)'
    <3>1. q.id \in Ids /\ GoodRequest(q)
      BY DEF PubInv, TypeOK, ServiceTypeOK, Requests, GoodRequests
    <3>2. QED
      BY <1>2, <1>3, <1>4, <1>5, <3>1 DEF GoodRequest
  <2>2. QED
    BY <1>2, <2>1 DEF GoodRequests
<1>7. OnePut'
  <2>1. /\ \A p, q \in requests' : Live(p) /\ Live(q) /\ p.id = q.id => p = q
        /\ \A p, q \in requests' : p.client = q.client /\ p.client \in Clients => p = q
    BY <1>2 DEF PubInv, OnePut
  <2>2. ASSUME NEW d \in Clients, Publishing(d)', NEW i \in command'[d].ids
        PROVE  /\ \A r \in requests' : r.id = i => ~Live(r)
               /\ \A e \in Clients : Publishing(e)' /\ i \in command'[e].ids => e = d
               /\ rows'[i] # "none"
    <3>1. CASE d = c
      BY <1>2, <1>3, <1>4, <2>2, <3>1 DEF NotComing
    <3>2. CASE d # c
      <4>1. i \in Ids /\ i # id /\ Publishing(d) /\ i \in command[d].ids
        BY <1>2, <1>3, <2>2, <3>2 DEF PubInv, TypeOK, Commands, Publishing
      <4>2. QED
        BY <1>2, <1>3, <4>1 DEF PubInv, OnePut, Publishing
    <3>3. QED
      BY <3>1, <3>2
  <2>3. QED
    BY <2>1, <2>2 DEF OnePut
<1>8. QED
  BY <1>2, <1>3, <1>4, <1>5, <1>6, <1>7 DEF PubInv, Settled, WrittenOff

(* A put goes out in place of the intention to publish. *)
LEMMA KeepSendPut ==
  ASSUME PubInv, TypeOK', NEW c \in Clients, NEW id \in Ids, Publishing(c), command[c].ids = {id},
         requests' = requests \cup {Request("put", id, c)},
         command' = [command EXCEPT ![c].step = "waiting"],
         UNCHANGED <<rows, metadata>>
  PROVE  PubInv'
<1>1. PICK new : new = Request("put", id, c)
  OBVIOUS
<1>2. /\ new.op = "put" /\ new.id = id /\ new.client = c /\ new.step = "arrived"
      /\ requests' = requests \cup {new}
  BY <1>1 DEF Request
<1>3. /\ \A d \in Clients : d # c => command'[d] = command[d]
      /\ command'[c].step = "waiting" /\ command'[c].op = "publish" /\ command'[c].ids = {id}
      /\ \A d \in Clients : Publishing(d)' => d # c /\ Publishing(d)
  BY DEF PubInv, TypeOK, Commands, Publishing
<1>4. ~NotComing(id) /\ metadata[id] # "whole" /\ rows[id] \notin {"none", "revoked"}
  BY DEF NotComing, PubInv, Settled, WrittenOff
<1>5. \A i : i # id /\ NotComing(i) => NotComing(i)'
  BY <1>2, <1>3 DEF NotComing
<1>6. \A q \in requests : q.client # c /\ q.id \in Ids
  BY NotWaiting DEF Publishing, PubInv, TypeOK, ServiceTypeOK, Requests
<1>7. GoodRequests'
  <2>1. GoodRequest(new)'
    BY <1>2, <1>3 DEF GoodRequest, Erasing
  <2>2. ASSUME NEW q \in requests PROVE GoodRequest(q)'
    <3>1. GoodRequest(q)
      BY DEF PubInv, GoodRequests
    <3>2. QED
      BY <1>3, <1>4, <1>5, <1>6, <3>1 DEF GoodRequest
  <2>3. QED
    BY <1>2, <2>1, <2>2 DEF GoodRequests
<1>8. OnePut'
  <2>1. \A q \in requests : q.id = id => ~Live(q)
    BY DEF PubInv, OnePut
  <2>2. /\ \A p, q \in requests' : Live(p) /\ Live(q) /\ p.id = q.id => p = q
        /\ \A p, q \in requests' : p.client = q.client /\ p.client \in Clients => p = q
    BY <1>2, <1>6, <2>1 DEF PubInv, OnePut
  <2>3. ASSUME NEW d \in Clients, Publishing(d)', NEW i \in command'[d].ids
        PROVE  /\ \A r \in requests' : r.id = i => ~Live(r)
               /\ \A e \in Clients : Publishing(e)' /\ i \in command'[e].ids => e = d
               /\ rows'[i] # "none"
    <3>1. d # c /\ Publishing(d) /\ i \in command[d].ids
      BY <1>3, <2>3
    <3>2. i # id
      BY <1>3, <3>1 DEF PubInv, OnePut
    <3>3. QED
      BY <1>2, <1>3, <3>1, <3>2 DEF PubInv, OnePut
  <2>4. QED
    BY <2>2, <2>3 DEF OnePut
<1>9. QED
  BY <1>4, <1>5, <1>7, <1>8 DEF PubInv, Settled, WrittenOff

LEMMA KeepSendDelete ==
  ASSUME PubInv, TypeOK', NEW c \in Clients, NEW id \in Ids,
         command[c].step = "ready", command[c].op # "publish", command[c].ids = {id},
         requests' = requests \cup {Request("delete", id, c)},
         command' = [command EXCEPT ![c].step = "waiting"],
         UNCHANGED <<rows, metadata>>
  PROVE  PubInv'
<1>1. PICK new : new = Request("delete", id, c)
  OBVIOUS
<1>2. /\ new.op = "delete" /\ new.id = id /\ new.client = c /\ new.step = "arrived"
      /\ new.answer = "refused" /\ requests' = requests \cup {new}
  BY <1>1 DEF Request
<1>3. /\ \A d \in Clients : d # c => command'[d] = command[d]
      /\ command'[c].step = "waiting" /\ command'[c].ids = {id}
      /\ \A d \in Clients : Publishing(d)' => d # c /\ Publishing(d)
  BY DEF PubInv, TypeOK, Commands, Publishing
<1>4. \A q \in requests' : Live(q) => q \in requests
  BY <1>2 DEF Live
<1>5. \A i : NotComing(i) => NotComing(i)'
  BY <1>3, <1>4, NotComingKept
<1>6. \A q \in requests : q.client # c
  BY NotWaiting
<1>7. GoodRequests'
  <2>1. GoodRequest(new)'
    BY <1>2, <1>3 DEF GoodRequest, Erasing
  <2>2. ASSUME NEW q \in requests PROVE GoodRequest(q)'
    <3>1. GoodRequest(q)
      BY DEF PubInv, GoodRequests
    <3>2. QED
      BY <1>3, <1>5, <1>6, <3>1 DEF GoodRequest
  <2>3. QED
    BY <1>2, <2>1, <2>2 DEF GoodRequests
<1>8. OnePut'
  <2>1. \A p, q \in requests' : p.client = q.client /\ p.client \in Clients => p = q
    BY <1>2, <1>6 DEF PubInv, OnePut
  <2>2. ASSUME NEW d \in Clients, Publishing(d)', NEW i \in command'[d].ids
        PROVE  /\ \A r \in requests' : r.id = i => ~Live(r)
               /\ \A e \in Clients : Publishing(e)' /\ i \in command'[e].ids => e = d
               /\ rows'[i] # "none"
    <3>1. Publishing(d) /\ i \in command[d].ids
      BY <1>3, <2>2
    <3>2. QED
      BY <1>3, <1>4, <3>1 DEF PubInv, OnePut
  <2>3. QED
    BY <1>4, <2>1, <2>2 DEF PubInv, OnePut
<1>9. QED
  BY <1>5, <1>7, <1>8 DEF PubInv, Settled, WrittenOff

LEMMA KeepSend ==
  ASSUME PubInv, TypeOK', NEW c \in Clients, Send(c)
  PROVE  PubInv'
<1>1. command[c].step = "ready" /\ metadata' = metadata
  BY DEF Send, serviceButRequests, files
<1>2. PICK id \in Ids : command[c].ids = {id}
  BY <1>1 DEF PubInv, TypeOK
<1>3. CASE Finish(c, FALSE) /\ UNCHANGED requests
  <2>1. \A q \in requests' : q.client # c
    BY <1>1, <1>3, NotWaiting
  <2>2. LetGo(c)
    BY <1>3, <2>1, LettingGo
  <2>3. RowsStand /\ command' = [command EXCEPT ![c] = Free]
    BY <1>3, FinishedRows
  <2>4. QED
    BY <1>1, <2>2, <2>3, CommandKeeps DEF Free
<1>4. CASE ~(Finish(c, FALSE) /\ UNCHANGED requests)
  <2>1. /\ requests' = requests \cup
             {Request(IF command[c].op = "publish" THEN "put" ELSE "delete", id, c)}
        /\ command' = [command EXCEPT ![c].step = "waiting"] /\ UNCHANGED rows
    BY <1>2, <1>4 DEF Send
  <2>2. CASE command[c].op = "publish"
    BY <1>1, <1>2, <2>1, <2>2, KeepSendPut DEF Publishing
  <2>3. CASE command[c].op # "publish"
    BY <1>1, <1>2, <2>1, <2>3, KeepSendDelete
  <2>4. QED
    BY <2>2, <2>3
<1>5. QED
  BY <1>3, <1>4

LEMMA KeepReadAnswer ==
  ASSUME PubInv, TypeOK', NEW c \in Clients, ReadAnswer(c)
  PROVE  PubInv'
<1>1. PICK r \in requests :
        /\ r.client = c /\ r.step \in Answers /\ requests' = requests \ {r}
        /\ Finish(c, r.step # "refused")
  BY DEF ReadAnswer
<1>2. \A q \in requests' : q.client # c
  BY <1>1 DEF PubInv, OnePut
<1>3. metadata' = metadata /\ Free.op = "none"
  BY DEF ReadAnswer, serviceButRequests, files, Free
<1>4. command[c].op # "publish" /\ r.step # "refused" =>
        \A id \in command[c].ids : NotComing(id) /\ metadata[id] # "whole"
  <2>1. GoodRequest(r) /\ command[c].ids = {r.id} /\ command[c].step = "waiting"
    BY <1>1 DEF PubInv, GoodRequests, GoodRequest
  <2>2. command[c].op # "publish" => command[c].op = "revoke"
    BY <2>1 DEF PubInv, TypeOK
  <2>3. QED
    BY <1>1, <2>1, <2>2 DEF GoodRequest, Erasing, Answers
<1>5. requests' \subseteq requests
  BY <1>1
<1>6. QED
  <2>1. LetGo(c)
    BY <1>2, <1>5, LettingGo
  <2>2. RowsStand /\ command' = [command EXCEPT ![c] = Free]
    BY <1>1, <1>4, FinishedRows
  <2>3. QED
    BY <1>3, <2>1, <2>2, CommandKeeps

LEMMA KeepOthers ==
  ASSUME PubInv, TypeOK', NEW c \in Clients, TimeOut(c) \/ Stop(c)
  PROVE  PubInv'
<1>1. metadata' = metadata /\ Free.op = "none" /\ requests' = HungUp(c)
  BY DEF TimeOut, Stop, serviceButRequests, files, Free
<1>2. CASE TimeOut(c)
  <2>1. Finish(c, FALSE)
    BY <1>2 DEF TimeOut
  <2>2. QED
    <3>1. LetGo(c)
      BY <1>1, HangingUp
    <3>2. RowsStand /\ command' = [command EXCEPT ![c] = Free]
      BY <2>1, FinishedRows
    <3>3. QED
      BY <1>1, <3>1, <3>2, CommandKeeps
<1>3. CASE Stop(c)
  <2>1. command' = [command EXCEPT ![c] = Free] /\ rows' = rows
    BY <1>3 DEF Stop, Done
  <2>2. QED
    <3>1. LetGo(c) /\ RowsStand
      BY <1>1, <2>1, HangingUp DEF RowsStand
    <3>2. QED
      BY <1>1, <2>1, <3>1, CommandKeeps
<1>4. QED
  BY <1>2, <1>3

LEMMA KeepRefresh ==
  ASSUME PubInv, TypeOK', NEW c \in Clients,
         StartList(c) \/ MarkExpired(c) \/ EndList(c) \/ \E id \in Ids : StartRevoke(c, id)
  PROVE  PubInv'
<1>1. /\ requests' = requests /\ metadata' = metadata
      /\ command[c] = Free \/ command[c].step = "refreshing"
  BY DEF StartList, MarkExpired, EndList, StartRevoke, serviceVars
<1>2. command[c].step # "waiting"
  BY <1>1 DEF Free
<1>3. \A q \in requests' : q.client # c
  BY <1>1, <1>2, NotWaiting
<1>4. LetGo(c)
  BY <1>1, <1>3, LettingGo
<1>5. CASE MarkExpired(c)
  <2>1. PICK id \in command[c].ids :
          /\ rows' = WithStatus(id, "expired")
          /\ command' = [command EXCEPT ![c].ids = @ \ {id}]
    BY <1>5 DEF MarkExpired
  <2>2. id \in Ids /\ TypeOK /\ command[c] \in Commands
    BY DEF PubInv, TypeOK, Commands
  <2>3. RowsStand
    <3>1. \A i \in Ids : rows'[i] = IF i = id /\ rows[i] # "none" THEN "expired" ELSE rows[i]
      BY <2>1, <2>2, StatusTypes DEF Statuses
    <3>2. QED
      BY <3>1 DEF RowsStand
  <2>4. PICK next : next = [command[c] EXCEPT !.ids = @ \ {id}]
    OBVIOUS
  <2>5. command' = [command EXCEPT ![c] = next] /\ next.step = "refreshing"
    BY <1>5, <2>1, <2>2, <2>4 DEF MarkExpired, Commands, TypeOK
  <2>6. QED
    BY <1>1, <1>4, <2>3, <2>5, CommandKeeps
<1>6. rows' = rows => RowsStand
  BY DEF RowsStand
<1>7. CASE StartList(c)
  <2>1. PICK lapsed :
          command' = [command EXCEPT ![c] = [op |-> "list", ids |-> lapsed, step |-> "refreshing"]]
    BY <1>7 DEF StartList
  <2>2. PICK next : next = [op |-> "list", ids |-> lapsed, step |-> "refreshing"]
    OBVIOUS
  <2>3. command' = [command EXCEPT ![c] = next] /\ next.op = "list" /\ RowsStand
    BY <1>6, <1>7, <2>1, <2>2 DEF StartList
  <2>4. QED
    BY <1>1, <1>4, <2>3, CommandKeeps
<1>8. CASE EndList(c)
  <2>1. command' = [command EXCEPT ![c] = Free] /\ Free.op = "none" /\ RowsStand
    BY <1>6, <1>8 DEF EndList, Done, Free
  <2>2. QED
    BY <1>1, <1>4, <2>1, CommandKeeps
<1>9. ASSUME NEW id \in Ids, StartRevoke(c, id) PROVE PubInv'
  <2>1. PICK next : next = [op |-> "revoke", ids |-> {id}, step |-> "ready"]
    OBVIOUS
  <2>2. command' = [command EXCEPT ![c] = next] /\ next.op = "revoke" /\ RowsStand
    BY <1>6, <1>9, <2>1 DEF StartRevoke
  <2>3. QED
    BY <1>1, <1>4, <2>2, CommandKeeps
<1>10. QED
  BY <1>5, <1>7, <1>8, <1>9

LEMMA KeepCommand ==
  ASSUME PubInv, TypeOK', NEW c \in Clients, Command(c)
  PROVE  PubInv'
BY KeepStartPublish, KeepSend, KeepReadAnswer, KeepOthers, KeepRefresh DEF Command

LEMMA KeepNext == PubInv /\ [Next]_vars => PubInv'
<1> SUFFICES ASSUME PubInv, [Next]_vars PROVE PubInv'
  OBVIOUS
<1>1. TypeOK'
  BY TypesNext DEF PubInv
<1>2. CASE \E c \in Clients : Command(c)
  BY <1>1, <1>2, KeepCommand
<1>3. CASE Service /\ UNCHANGED <<rows, command>>
  <2>1. ASSUME NEW r \in requests, Handle(r) \/ Refuse(r) PROVE PubInv'
    BY <1>1, <1>3, <2>1, KeepRefuse, KeepPutOpen, KeepPutEnvelope, KeepPutDescribe, KeepPutMetadata,
       KeepLoad, KeepUnlinkOne, KeepAnswerUnlinked, KeepGetEnvelope DEF Handle
  <2>2. QED
    BY <1>1, <1>3, <2>1, KeepCleanup, KeepTime, KeepView, KeepCrash DEF Service
<1>4. CASE UNCHANGED vars
  BY <1>1, <1>4 DEF vars, serviceVars, PubInv, GoodRequests, GoodRequest, Erasing, NotComing,
                    Publishing, OnePut, Settled, WrittenOff
<1>5. QED
  BY <1>2, <1>3, <1>4 DEF Next

-----------------------------------------------------------------------------
(* The type invariant holds: in particular, a server that is down works on *)
(* no request, and a command on its way has one publication. *)
THEOREM TypeCorrect == Spec => []TypeOK
  BY InitTypes, TypesNext, PTL DEF Spec

(* The invariant of the put, the delete and the registry row: at most one  *)
(* put can create a publication, none once its metadata was written or     *)
(* deleted, and a row is written off when it neither is nor will be there. *)
THEOREM PublicationInvariant == Spec => []PubInv
<1>1. Init => PubInv
  <2> SUFFICES ASSUME Init PROVE PubInv
    OBVIOUS
  <2>1. TypeOK
    BY InitTypes
  <2>2. QED
    BY <2>1 DEF Init, ServiceInit, PubInv, GoodRequests, OnePut, Settled, WrittenOff, NotComing,
                Publishing, Free
<1>2. QED
  BY <1>1, KeepNext, PTL DEF Spec

(* A publication that can be fetched has its token in the registry, in a   *)
(* row that is not written off, whatever command, server, answer or        *)
(* deadline was lost on the way. *)
THEOREM RevocableCorrect == Spec => []ReadableIsRevocable
<1>1. PubInv => ReadableIsRevocable
  BY DEF PubInv, WrittenOff, ReadableIsRevocable, Readable
<1>2. QED
  BY <1>1, PublicationInvariant, PTL

-----------------------------------------------------------------------------
(* What a viewer gets.                                                     *)

(* The publication came, or never will. *)
Settling(id) == NotComing(id) /\ rows[id] # "none"

(* A put that finished its envelope finished it; a reader found metadata,  *)
(* so the envelope was whole, will not be written again, and had not been  *)
(* deleted when the reader asked. *)
ServedRequest(r) ==
  /\ r.late => r.id \in deleted
  /\ r.answer = "deleted" => r.op = "delete"
  /\ r.step \in {"written", "describing"} => envelope[r.id] # "partial"
  /\ r.step = "reading" => Settling(r.id) /\ envelope[r.id] # "partial" /\ ~r.late

Described == \A id \in Ids : metadata[id] = "whole" => envelope[id] # "partial"

DeletedIsGone == \A id \in deleted : Settling(id) /\ metadata[id] # "whole"

ServedInv == (\A r \in requests : ServedRequest(r)) /\ Described /\ DeletedIsGone

(* The same request, or its answer. *)
SameRequest(q, r) ==
  /\ q.id = r.id /\ q.op = r.op /\ q.late = r.late /\ q.answer = r.answer
  /\ q.step = r.step \/ q.step \in Answers

(* What a step must respect: an envelope is opened and metadata completed  *)
(* only for a publication to come.                                         *)
LEMMA ServedKept ==
  ASSUME PubInv, ServedInv,
         \A i \in Ids : Settling(i) => Settling(i)',
         \A q \in requests' : \/ q.id \in Ids /\ ServedRequest(q)'
                              \/ \E r \in requests : SameRequest(q, r),
         \A i \in Ids : envelope'[i] = "partial" => \/ envelope[i] = "partial"
                                                    \/ /\ ~NotComing(i)
                                                       /\ \A q \in requests' : q.id = i =>
                                                            q.step \notin {"written", "describing"},
         \A i \in Ids : metadata'[i] = "whole" => \/ metadata[i] = "whole"
                                                  \/ ~NotComing(i) /\ envelope'[i] # "partial",
         deleted \subseteq deleted',
         \A i \in deleted' \ deleted : i \in Ids /\ Settling(i) /\ metadata'[i] # "whole"
  PROVE  ServedInv'
<1>1. \A r \in requests : r.id \in Ids /\ deleted \subseteq Ids
  BY DEF PubInv, TypeOK, ServiceTypeOK, Requests
<1>2. ASSUME NEW q \in requests', NEW r \in requests, SameRequest(q, r)
      PROVE  ServedRequest(q)'
  <2>1. ServedRequest(r) /\ r.id \in Ids
    BY <1>1 DEF ServedInv
  <2>2. q.step \in {"written", "describing"} => envelope'[q.id] # "partial"
    BY <1>2, <2>1 DEF SameRequest, ServedRequest, Answers
  <2>3. q.step = "reading" => Settling(q.id)' /\ envelope'[q.id] # "partial" /\ ~q.late
    BY <1>2, <2>1 DEF SameRequest, ServedRequest, Answers, Settling
  <2>4. QED
    BY <1>2, <2>1, <2>2, <2>3 DEF SameRequest, ServedRequest
<1>3. \A q \in requests' : ServedRequest(q)'
  BY <1>2
<1>4. Described'
  BY DEF PubInv, Settled, ServedInv, Described
<1>5. DeletedIsGone'
  BY <1>1 DEF ServedInv, DeletedIsGone, Settling, PubInv, TypeOK, ServiceTypeOK
<1>6. QED
  BY <1>3, <1>4, <1>5 DEF ServedInv

(* A request is replaced by next, or leaves. *)
LEMMA ServedStep ==
  ASSUME PubInv, ServedInv, UNCHANGED <<rows, command, deleted>>, NEW r \in requests, NEW next,
         next.id = r.id, next.late = r.late, next.op = r.op, Live(next) => Live(r),
         next.answer = r.answer \/ next.answer = "refused" \/ next.op = "delete",
         requests' \subseteq (requests \ {r}) \cup {next},
         next.step \in {"written", "describing"} => envelope'[next.id] # "partial",
         next.step = "reading" => Settling(next.id) /\ envelope'[next.id] # "partial" /\ ~next.late,
         \A i \in Ids : envelope'[i] = "partial" =>
           envelope[i] = "partial" \/ (i = r.id /\ Live(r) /\ next.step = "writing"),
         \A i \in Ids : metadata'[i] = "whole" =>
           metadata[i] = "whole" \/ (i = r.id /\ Live(r) /\ envelope'[i] # "partial")
  PROVE  ServedInv'
<1>1. r.id \in Ids /\ ServedRequest(r)
  BY DEF PubInv, TypeOK, ServiceTypeOK, Requests, ServedInv
<1>2. \A q \in requests' : Live(q) => \E s \in requests : Live(s) /\ s.id = q.id
  OBVIOUS
<1>3. \A i : Settling(i) => Settling(i)'
  BY <1>2, NotComingKept DEF Settling
<1>4. ServedRequest(next)'
  BY <1>1, <1>3 DEF ServedRequest
<1>5. \A q \in requests : SameRequest(q, q)
  BY DEF SameRequest
<1>6. Live(r) => ~NotComing(r.id)
  BY DEF NotComing
<1>7. Live(r) /\ next.step = "writing" =>
        \A q \in requests' : q.id = r.id => q.step \notin {"written", "describing"}
  BY DEF PubInv, OnePut, GoodRequests, GoodRequest, Live
<1>8. QED
  BY <1>1, <1>3, <1>4, <1>5, <1>6, <1>7, ServedKept

(* The files only shrink, and the request is answered or goes on. *)
LEMMA ServedAnswer ==
  ASSUME PubInv, ServedInv, UNCHANGED <<rows, command, deleted>>, NEW r \in requests,
         NEW answer \in Answers, requests' = Answered(r, answer),
         UNCHANGED envelope,
         \A i \in Ids : metadata'[i] = "whole" =>
           metadata[i] = "whole" \/ (i = r.id /\ Live(r) /\ envelope'[i] # "partial")
  PROVE  ServedInv'
<1>1. r \in Requests
  BY DEF PubInv, TypeOK, ServiceTypeOK
<1>2. PICK next : next = [r EXCEPT !.step = answer, !.unlink = {}]
  OBVIOUS
<1>3. /\ next.id = r.id /\ next.op = r.op /\ next.late = r.late /\ next.answer = r.answer
      /\ next.step \in Answers
      /\ requests' \subseteq (requests \ {r}) \cup {next}
  BY <1>1, <1>2 DEF Requests, Answered, Moved
<1>4. ~Live(next) /\ next.step \notin {"writing", "written", "describing", "reading"}
  BY <1>3 DEF Live, Answers
<1>5. QED
  BY <1>3, <1>4, ServedStep

LEMMA ServedMove ==
  ASSUME PubInv, ServedInv, UNCHANGED <<rows, command, deleted>>, NEW r \in requests,
         NEW step \in Steps \ {"arrived"}, requests' = Moved(r, [r EXCEPT !.step = step]),
         step \in {"writing", "written", "describing"} => Live(r),
         step \in {"written", "describing"} => envelope'[r.id] # "partial",
         step = "reading" => Settling(r.id) /\ envelope'[r.id] # "partial" /\ ~r.late,
         \A i \in Ids : envelope'[i] = "partial" =>
           envelope[i] = "partial" \/ (i = r.id /\ Live(r) /\ step = "writing"),
         \A i \in Ids : metadata'[i] = "whole" => metadata[i] = "whole"
  PROVE  ServedInv'
<1>1. r \in Requests
  BY DEF PubInv, TypeOK, ServiceTypeOK
<1>2. PICK next : next = [r EXCEPT !.step = step]
  OBVIOUS
<1>3. /\ next.id = r.id /\ next.op = r.op /\ next.late = r.late /\ next.answer = r.answer
      /\ next.step = step
      /\ requests' \subseteq (requests \ {r}) \cup {next}
  BY <1>1, <1>2 DEF Requests, Moved
<1>4. Live(next) => Live(r)
  BY <1>3 DEF Live
<1>5. QED
  BY <1>3, <1>4, ServedStep

LEMMA ServedUnlinking ==
  ASSUME PubInv, ServedInv, UNCHANGED <<rows, command, deleted, envelope, metadata>>,
         NEW r \in requests, NEW kinds, NEW answer, answer = "refused" \/ r.op = "delete",
         requests' = Moved(r, Unlinking(r, kinds, answer))
  PROVE  ServedInv'
<1>1. r \in Requests
  BY DEF PubInv, TypeOK, ServiceTypeOK
<1>2. PICK next : next = Unlinking(r, kinds, answer)
  OBVIOUS
<1>3. /\ next.id = r.id /\ next.op = r.op /\ next.late = r.late /\ next.answer = answer
      /\ next.step = "unlinking" /\ ~Live(next)
      /\ requests' \subseteq (requests \ {r}) \cup {next}
  BY <1>1, <1>2 DEF Requests, Moved, Unlinking, Live
<1>4. QED
  BY <1>3, ServedStep

LEMMA ServeRequest ==
  ASSUME PubInv, ServedInv, NEW r \in requests, Handle(r) \/ Refuse(r),
         UNCHANGED <<rows, command>>
  PROVE  ServedInv'
<1>1. /\ r \in Requests /\ r.id \in Ids /\ ServedRequest(r) /\ GoodRequest(r)
      /\ envelope \in [Ids -> Contents] /\ metadata \in [Ids -> Contents]
  BY DEF PubInv, TypeOK, ServiceTypeOK, Requests, ServedInv, GoodRequests
<1>2. CASE Refuse(r)
  BY <1>2, ServedAnswer DEF Refuse, files, Answers
<1>3. CASE PutOpen(r)
  <2>1. CASE requests' = Answered(r, "refused") /\ UNCHANGED envelope
    BY <1>3, <2>1, ServedAnswer DEF PutOpen, Answers
  <2>2. CASE /\ envelope' = [envelope EXCEPT ![r.id] = "partial"]
             /\ requests' = Moved(r, [r EXCEPT !.step = "writing"])
    <3>1. Live(r) /\ UNCHANGED <<metadata, deleted>>
      BY <1>3 DEF PutOpen, Live
    <3>2. \A i \in Ids : envelope'[i] = "partial" => envelope[i] = "partial" \/ i = r.id
      BY <1>1, <2>2
    <3>3. QED
      BY <2>2, <3>1, <3>2, ServedMove DEF Steps
  <2>3. QED
    BY <1>3, <2>1, <2>2 DEF PutOpen
<1>4. CASE PutEnvelope(r)
  <2>1. CASE requests' = Answered(r, "refused") /\ UNCHANGED envelope
    BY <1>4, <2>1, ServedAnswer DEF PutEnvelope, Answers
  <2>2. CASE envelope' = Filled(envelope, r.id) /\ requests' = Moved(r, [r EXCEPT !.step = "written"])
    <3>1. Live(r) /\ UNCHANGED <<metadata, deleted>>
      BY <1>1, <1>4 DEF PutEnvelope, Live, GoodRequest
    <3>2. /\ envelope'[r.id] # "partial"
          /\ \A i \in Ids : envelope'[i] = "partial" => envelope[i] = "partial"
      BY <1>1, <2>2 DEF Filled
    <3>3. QED
      BY <2>2, <3>1, <3>2, ServedMove DEF Steps
  <2>3. QED
    BY <1>4, <2>1, <2>2 DEF PutEnvelope, EnvelopeWritten
<1>5. CASE PutDescribe(r)
  <2>1. CASE requests' = Moved(r, Unlinking(r, {"envelope"}, "refused")) /\ UNCHANGED metadata
    BY <1>5, <2>1, ServedUnlinking DEF PutDescribe
  <2>2. CASE /\ metadata' = [metadata EXCEPT ![r.id] = "partial"]
             /\ requests' = Moved(r, [r EXCEPT !.step = "describing"])
    <3>1. Live(r) /\ UNCHANGED <<envelope, deleted>> /\ envelope[r.id] # "partial"
      BY <1>1, <1>5 DEF PutDescribe, Live, GoodRequest, ServedRequest
    <3>2. \A i \in Ids : metadata'[i] = "whole" => metadata[i] = "whole"
      BY <1>1, <2>2
    <3>3. QED
      BY <2>2, <3>1, <3>2, ServedMove DEF Steps
  <2>3. QED
    BY <1>5, <2>1, <2>2 DEF PutDescribe
<1>6. CASE PutMetadata(r)
  <2>1. CASE requests' = Moved(r, Unlinking(r, {"envelope"}, "refused")) /\ UNCHANGED metadata
    BY <1>6, <2>1, ServedUnlinking DEF PutMetadata
  <2>2. CASE metadata' = Filled(metadata, r.id) /\ requests' = Answered(r, "created")
    <3>1. Live(r) /\ UNCHANGED <<envelope, deleted>> /\ envelope[r.id] # "partial"
      BY <1>1, <1>6 DEF PutMetadata, Live, GoodRequest, ServedRequest
    <3>2. \A i \in Ids : metadata'[i] = "whole" => metadata[i] = "whole" \/ i = r.id
      BY <1>1, <2>2 DEF Filled
    <3>3. QED
      BY <2>2, <3>1, <3>2, ServedAnswer DEF Answers
  <2>3. QED
    BY <1>6, <2>1, <2>2 DEF PutMetadata
<1>7. CASE Load(r)
  <2>1. r.step = "arrived" /\ UNCHANGED <<envelope, metadata, deleted>>
    BY <1>7 DEF Load, files
  <2>2. CASE requests' = Answered(r, "refused")
    BY <2>1, <2>2, ServedAnswer DEF Answers
  <2>3. CASE requests' = Moved(r, Unlinking(r, Kinds, "refused"))
    BY <2>1, <2>3, ServedUnlinking
  <2>4. CASE r.op = "delete" /\ requests' = Moved(r, Unlinking(r, BothFiles, "deleted"))
    BY <2>1, <2>4, ServedUnlinking
  <2>5. CASE metadata[r.id] = "whole" /\ requests' = Moved(r, [r EXCEPT !.step = "reading"])
    <3>1. Settling(r.id) /\ envelope[r.id] # "partial" /\ ~r.late
      BY <1>1, <2>5 DEF PubInv, Settled, WrittenOff, Settling, ServedInv, Described, DeletedIsGone,
                        ServedRequest, Requests
    <3>2. QED
      BY <2>1, <2>5, <3>1, ServedMove DEF Steps
  <2>6. QED
    BY <1>7, <2>2, <2>3, <2>4, <2>5 DEF Load
<1>8. CASE UnlinkOne(r)
  <2>1. PICK kind \in r.unlink :
          Unlink(r.id, kind) /\ requests' = Moved(r, [r EXCEPT !.unlink = @ \ {kind}])
    BY <1>8 DEF UnlinkOne
  <2>2. PICK next : next = [r EXCEPT !.unlink = @ \ {kind}]
    OBVIOUS
  <2>3. /\ next.id = r.id /\ next.op = r.op /\ next.late = r.late /\ next.answer = r.answer
        /\ next.step = "unlinking" /\ ~Live(next) /\ UNCHANGED deleted
        /\ requests' \subseteq (requests \ {r}) \cup {next}
    BY <1>1, <1>8, <2>1, <2>2 DEF Requests, Moved, UnlinkOne, Live
  <2>4. /\ \A i \in Ids : envelope'[i] = "partial" => envelope[i] = "partial"
        /\ \A i \in Ids : metadata'[i] = "whole" => metadata[i] = "whole"
    BY <1>1, <2>1 DEF Unlink
  <2>5. QED
    BY <2>3, <2>4, ServedStep
<1>9. CASE AnswerUnlinked(r)
  <2>1. /\ r.step = "unlinking" /\ r.unlink = {} /\ UNCHANGED <<envelope, metadata>>
        /\ requests' = Answered(r, r.answer) /\ r.answer \in Answers
        /\ deleted' = IF r.answer = "deleted" THEN deleted \cup {r.id} ELSE deleted
    BY <1>1, <1>9 DEF AnswerUnlinked, files, Requests
  <2>2. PICK next : next = [r EXCEPT !.step = r.answer, !.unlink = {}]
    OBVIOUS
  <2>3. /\ SameRequest(next, r) /\ ~Live(next)
        /\ requests' \subseteq (requests \ {r}) \cup {next}
    BY <1>1, <2>1, <2>2 DEF Requests, Answered, Moved, SameRequest, Live, Answers
  <2>4. r.answer = "deleted" => Settling(r.id) /\ metadata[r.id] # "whole"
    BY <1>1, <2>1 DEF ServedRequest, GoodRequest, Erasing, Settling
  <2>5. \A q \in requests' : Live(q) => \E s \in requests : Live(s) /\ s.id = q.id
    BY <2>3
  <2>6. \A i : Settling(i) => Settling(i)'
    BY <2>5, NotComingKept DEF Settling
  <2>7. \A q \in requests' : \E s \in requests : SameRequest(q, s)
    BY <2>3 DEF SameRequest
  <2>8. QED
    BY <1>1, <2>1, <2>4, <2>6, <2>7, ServedKept
<1>10. CASE GetEnvelope(r)
  BY <1>10, ServedAnswer DEF GetEnvelope, files, Answers
<1>11. QED
  BY <1>2, <1>3, <1>4, <1>5, <1>6, <1>7, <1>8, <1>9, <1>10 DEF Handle

LEMMA ServeOther ==
  ASSUME PubInv, ServedInv, UNCHANGED <<rows, command>>,
         Cleanup \/ Crash \/ \E id \in Ids : View(id) \/ Expire(id) \/ Age(id)
  PROVE  ServedInv'
<1>1. \A r \in requests : r \in Requests
  BY DEF PubInv, TypeOK, ServiceTypeOK
<1>2. /\ UNCHANGED deleted
      /\ \A i \in Ids : envelope'[i] = "partial" => envelope[i] = "partial"
      /\ \A i \in Ids : metadata'[i] = "whole" => metadata[i] = "whole"
  <2>1. CASE CleanerUnlinks
    BY <2>1 DEF CleanerUnlinks, Unlink, PubInv, TypeOK, ServiceTypeOK
  <2>2. CASE ~CleanerUnlinks
    BY <2>2 DEF Cleanup, ListFiles, TurnToEnvelopes, EndCleanup, CheckPair, CheckEnvelope, Crash,
                View, Expire, Age, files
  <2>3. QED
    BY <2>1, <2>2
<1>3. ASSUME NEW q \in requests'
      PROVE  /\ \/ q.id \in Ids /\ ServedRequest(q)'
                \/ \E r \in requests : SameRequest(q, r)
             /\ Live(q) => \E s \in requests : Live(s) /\ s.id = q.id
  <2>1. CASE q \in requests
    BY <2>1 DEF SameRequest
  <2>2. ASSUME NEW id \in Ids, View(id), q \notin requests
        PROVE  q.id \in Ids /\ ServedRequest(q)' /\ ~Live(q)
    <3>1. q = Request("get", id, Nobody)
      BY <1>3, <2>2 DEF View
    <3>2. /\ q.id = id /\ q.op = "get" /\ q.step = "arrived" /\ q.answer = "refused"
          /\ q.late = (id \in deleted)
      BY <3>1 DEF Request
    <3>3. QED
      BY <1>2, <3>2 DEF ServedRequest, Live
  <2>3. CASE Crash
    <3>1. PICK r \in requests :
            q = [r EXCEPT !.step = IF @ \in Answers THEN @ ELSE "refused", !.unlink = {}]
      BY <1>3, <2>3 DEF Crash, ConnectionsLost
    <3>2. SameRequest(q, r) /\ ~Live(q)
      BY <1>1, <3>1 DEF Requests, SameRequest, Live, Answers
    <3>3. QED
      BY <3>2
  <2>4. UNCHANGED requests \/ Crash \/ \E id \in Ids : View(id)
    BY DEF Cleanup, ListFiles, CleanerUnlinks, TurnToEnvelopes, EndCleanup, CheckPair,
           CheckEnvelope, Expire, Age
  <2>5. QED
    BY <1>3, <2>1, <2>2, <2>3, <2>4
<1>4. \A i : Settling(i) => Settling(i)'
  BY <1>3, NotComingKept DEF Settling
<1>5. QED
  BY <1>2, <1>3, <1>4, ServedKept

(* A command: no publication that came or never will is put again. *)
LEMMA ServeCommand ==
  ASSUME PubInv, ServedInv, TypeOK', NEW c \in Clients, Command(c)
  PROVE  ServedInv'
<1>1. UNCHANGED <<envelope, metadata, deleted>> /\ command[c] \in Commands
  BY DEF Command, StartPublish, StartRevoke, StartList, MarkExpired, EndList, Send, ReadAnswer,
         TimeOut, Stop, serviceVars, serviceButRequests, files, PubInv, TypeOK
<1>2. ASSUME NEW q \in requests'
      PROVE  \/ \E r \in requests : SameRequest(q, r) /\ (Live(q) => Live(r))
             \/ /\ q.id \in Ids /\ ServedRequest(q)'
                /\ Live(q) => Publishing(c) /\ q.id \in command[c].ids
  <2>1. CASE q \in requests
    BY <2>1 DEF SameRequest
  <2>2. CASE q \in HungUp(c)
    <3>1. PICK r \in requests : q = IF r.client = c THEN [r EXCEPT !.client = Nobody] ELSE r
      BY <2>2 DEF HungUp
    <3>2. r \in Requests
      BY DEF PubInv, TypeOK, ServiceTypeOK
    <3>3. SameRequest(q, r) /\ (Live(q) => Live(r))
      BY <3>1, <3>2 DEF Requests, SameRequest, Live
    <3>4. QED
      BY <3>3
  <2>3. ASSUME NEW id \in command[c].ids, NEW op \in {"put", "delete"},
               command[c].step = "ready", op = "put" => command[c].op = "publish",
               q = Request(op, id, c)
        PROVE  /\ q.id \in Ids /\ ServedRequest(q)'
               /\ Live(q) => Publishing(c) /\ q.id \in command[c].ids
    <3>1. /\ q.id = id /\ q.op = op /\ q.step = "arrived" /\ q.answer = "refused"
          /\ q.late = (id \in deleted)
      BY <2>3 DEF Request
    <3>2. QED
      BY <1>1, <2>3, <3>1 DEF ServedRequest, Live, Publishing, Commands
  <2>4. \/ q \in requests \/ q \in HungUp(c)
        \/ /\ command[c].step = "ready"
           /\ \E id \in command[c].ids :
                q = Request(IF command[c].op = "publish" THEN "put" ELSE "delete", id, c)
    BY <1>2 DEF Command, StartPublish, StartRevoke, StartList, MarkExpired, EndList, Send,
                ReadAnswer, TimeOut, Stop, serviceVars
  <2>5. QED
    BY <2>1, <2>2, <2>3, <2>4
<1>3. \A i \in Ids : rows[i] # "none" => rows'[i] # "none"
  <2>1. \A i \in Ids, status \in {"active", "failed", "revoked", "expired"} :
          \A k \in Ids : rows[k] # "none" => WithStatus(i, status)[k] # "none"
    BY DEF WithStatus, PubInv, TypeOK
  <2>2. ASSUME NEW success \in BOOLEAN, Finish(c, success)
        PROVE  \A i \in Ids : rows[i] # "none" => rows'[i] # "none"
    BY <1>1, <2>1, <2>2 DEF Finish, Commands
  <2>3. CASE \E id \in Ids : StartPublish(c, id)
    BY <2>3 DEF StartPublish, PendingRow, PubInv, TypeOK
  <2>4. CASE MarkExpired(c)
    BY <1>1, <2>1, <2>4 DEF MarkExpired, Commands
  <2>5. CASE Send(c)
    BY <2>2, <2>5 DEF Send
  <2>6. CASE ReadAnswer(c)
    BY <2>2, <2>6 DEF ReadAnswer
  <2>7. CASE TimeOut(c)
    BY <2>2, <2>7 DEF TimeOut
  <2>8. QED
    BY <2>3, <2>4, <2>5, <2>6, <2>7 DEF Command, StartRevoke, StartList, EndList, Stop
<1>4. ASSUME NEW d \in Clients, Publishing(d)', NEW i \in command'[d].ids
      PROVE  (Publishing(d) /\ i \in command[d].ids) \/ rows[i] = "none"
  <2>1. CASE d # c \/ command' = command
    BY <1>4, <2>1 DEF Publishing, Command, StartPublish, StartRevoke, StartList, MarkExpired,
                      EndList, Send, ReadAnswer, TimeOut, Stop, Finish, Done, PubInv, TypeOK
  <2>2. CASE d = c /\ \E id \in Ids : StartPublish(c, id)
    BY <1>4, <2>2 DEF StartPublish, Publishing, PubInv, TypeOK
  <2>3. CASE d = c /\ ~\E id \in Ids : StartPublish(c, id)
    <3>1. ~Publishing(c)'
      BY <1>1, <2>3 DEF Publishing, Command, StartRevoke, StartList, MarkExpired, EndList, Send,
                   ReadAnswer, TimeOut, Stop, Finish, Done, Free, Commands, PubInv, TypeOK
    <3>2. QED
      BY <1>4, <2>3, <3>1
  <2>4. QED
    BY <2>1, <2>2, <2>3
<1>5. ASSUME NEW i \in Ids, Settling(i) PROVE Settling(i)'
  <2>1. \A q \in requests' : q.id = i => ~Live(q)
    BY <1>2, <1>5 DEF Settling, NotComing, SameRequest
  <2>2. \A d \in Clients : i \in command'[d].ids => ~Publishing(d)'
    BY <1>4, <1>5 DEF Settling, NotComing
  <2>3. QED
    BY <1>3, <1>5, <2>1, <2>2 DEF Settling, NotComing
<1>6. QED
  BY <1>1, <1>2, <1>5, ServedKept

LEMMA ServeNext == PubInv /\ ServedInv /\ [Next]_vars => ServedInv'
<1> SUFFICES ASSUME PubInv, ServedInv, [Next]_vars PROVE ServedInv'
  OBVIOUS
<1>1. CASE \E c \in Clients : Command(c)
  BY <1>1, TypesNext, ServeCommand DEF PubInv
<1>2. CASE Service /\ UNCHANGED <<rows, command>>
  BY <1>2, ServeRequest, ServeOther DEF Service
<1>3. CASE UNCHANGED vars
  BY <1>3 DEF vars, serviceVars, ServedInv, ServedRequest, Described, DeletedIsGone, Settling,
              NotComing, Publishing
<1>4. QED
  BY <1>1, <1>2, <1>3 DEF Next

(* A viewer gets the whole envelope of a publication that had not been     *)
(* deleted when it asked, or nothing, however puts, deletions, the cleanup *)
(* and crashes interleave. *)
THEOREM ServedCorrect == Spec => []ServedIsCurrent
<1>1. Init => ServedInv
  BY DEF Init, ServiceInit, ServedInv, Described, DeletedIsGone
<1>2. PubInv /\ ServedInv => ServedIsCurrent
  <2> SUFFICES ASSUME PubInv, ServedInv, NEW r \in requests, r.step = "reading",
                      envelope[r.id] # "absent"
               PROVE  envelope[r.id] = "whole" /\ ~r.late
    BY DEF ServedIsCurrent
  <2>1. envelope[r.id] \in Contents
    BY DEF PubInv, TypeOK, ServiceTypeOK, Requests
  <2>2. QED
    BY <2>1 DEF ServedInv, ServedRequest, Contents
<1>3. QED
  BY <1>1, <1>2, ServeNext, PublicationInvariant, PTL DEF Spec
=============================================================================
