---------------------------- MODULE Publication ----------------------------
(***************************************************************************)
(* `sivtr publish`: the commands, each a process of its own, share a       *)
(* registry (publication-state.db) and talk to the publication service.    *)
(* The registry keeps the token a revocation needs.  A command may stop at *)
(* any point, and gives up on a request after thirty seconds.              *)
(***************************************************************************)
EXTENDS ShareService

VARIABLES
  rows,    \* status of each publication in the registry
  command  \* what each client process does

vars == <<serviceVars, rows, command>>

Statuses == {"none", "pending", "active", "revoked", "expired", "failed"}

Free == [op |-> "none", ids |-> {}, step |-> "free"]

Commands ==
  [op: {"none", "publish", "list", "revoke"}, ids: SUBSET Ids,
   step: {"free", "ready", "refreshing", "waiting"}]

(* update_status: an UPDATE of a row that is not there does nothing. *)
WithStatus(id, status) == IF rows[id] = "none" THEN rows ELSE [rows EXCEPT ![id] = status]

Done(c) == command' = [command EXCEPT ![c] = Free]

(* mark_active, mark_failed and mark_revoked; the error of a revocation is *)
(* recorded next to the status, which stays. *)
Finish(c, success) ==
  /\ \E id \in command[c].ids :
       rows' = IF command[c].op = "publish" THEN WithStatus(id, IF success THEN "active" ELSE "failed")
               ELSE IF success THEN WithStatus(id, "revoked") ELSE rows
  /\ Done(c)

serviceButRequests == <<files, old, expired, cleaner, up, crashes, deleted>>

-----------------------------------------------------------------------------
(* mint_draft: the row, with its token, comes before the upload; a slip    *)
(* leaves it for later.                                                    *)
RowLater(id) == rows
PendingRow(id) == [rows EXCEPT ![id] = "pending"]

StartPublish(c, id) ==
  /\ command[c] = Free
  /\ rows[id] = "none" /\ id \notin expired
  /\ \A d \in Clients : id \notin command[d].ids
  /\ rows' = PendingRow(id)
  /\ command' = [command EXCEPT ![c] = [op |-> "publish", ids |-> {id}, step |-> "ready"]]
  /\ UNCHANGED serviceVars

(* The request goes out; nothing listens while the server is down.  An    *)
(* envelope may also fail to be sealed. *)
Send(c) ==
  /\ command[c].step = "ready"
  /\ \/ /\ up
        /\ Cardinality(requests) < MaxRequests
        /\ \E id \in command[c].ids :
             requests' = requests \cup
               {Request(IF command[c].op = "publish" THEN "put" ELSE "delete", id, c)}
        /\ command' = [command EXCEPT ![c].step = "waiting"]
        /\ UNCHANGED rows
     \/ /\ ~up \/ command[c].op = "publish"
        /\ Finish(c, FALSE)
        /\ UNCHANGED requests
  /\ UNCHANGED serviceButRequests

(* upload and delete_remote: the answer is read ... *)
ReadAnswer(c) ==
  /\ command[c].step = "waiting"
  /\ \E r \in requests :
       /\ r.client = c /\ r.step \in Answers
       /\ requests' = requests \ {r}
       /\ Finish(c, r.step # "refused")
  /\ UNCHANGED serviceButRequests

(* ... or nobody waits for it any more. *)
HungUp(c) ==
  {IF r.client = c THEN [r EXCEPT !.client = Nobody] ELSE r :
     r \in {q \in requests : ~(q.client = c /\ q.step \in Answers)}}

TimeOut(c) ==
  /\ command[c].step = "waiting"
  /\ requests' = HungUp(c)
  /\ Finish(c, FALSE)
  /\ UNCHANGED serviceButRequests

-----------------------------------------------------------------------------
(* list and link, and revoke once its publication is chosen: the rows past *)
(* their time, by a clock that need not be the service's, are read, then   *)
(* updated one by one.                                                     *)
StartList(c) ==
  /\ command[c] = Free
  /\ \E lapsed \in SUBSET {id \in Ids : rows[id] \in {"pending", "active"}} :
       command' = [command EXCEPT ![c] = [op |-> "list", ids |-> lapsed, step |-> "refreshing"]]
  /\ UNCHANGED <<serviceVars, rows>>

MarkExpired(c) ==
  /\ command[c].step = "refreshing"
  /\ \E id \in command[c].ids :
       /\ rows' = WithStatus(id, "expired")
       /\ command' = [command EXCEPT ![c].ids = @ \ {id}]
  /\ UNCHANGED serviceVars

EndList(c) ==
  /\ command[c].step = "refreshing" /\ command[c].ids = {}
  /\ Done(c)
  /\ UNCHANGED <<serviceVars, rows>>

(* revoke goes on from there; the user may take his time to confirm. *)
StartRevoke(c, id) ==
  /\ command[c].step = "refreshing" /\ command[c].ids = {}
  /\ rows[id] \notin {"none", "revoked"}
  /\ command' = [command EXCEPT ![c] = [op |-> "revoke", ids |-> {id}, step |-> "ready"]]
  /\ UNCHANGED <<serviceVars, rows>>

(* A command is killed, or cannot write the registry. *)
Stop(c) ==
  /\ command[c] # Free
  /\ requests' = HungUp(c)
  /\ Done(c)
  /\ UNCHANGED <<serviceButRequests, rows>>

-----------------------------------------------------------------------------
Init ==
  /\ ServiceInit
  /\ rows = [id \in Ids |-> "none"]
  /\ command = [c \in Clients |-> Free]

Command(c) ==
  \/ \E id \in Ids : StartPublish(c, id) \/ StartRevoke(c, id)
  \/ StartList(c) \/ MarkExpired(c) \/ EndList(c)
  \/ Send(c) \/ ReadAnswer(c) \/ TimeOut(c) \/ Stop(c)

Next ==
  \/ Service /\ UNCHANGED <<rows, command>>
  \/ \E c \in Clients : Command(c)

Spec == Init /\ [][Next]_vars
FairSpec == Spec /\ ServiceFairness

-----------------------------------------------------------------------------
TypeOK ==
  /\ ServiceTypeOK
  /\ rows \in [Ids -> Statuses]
  /\ command \in [Clients -> Commands]
  /\ \A c \in Clients : command[c].step \in {"ready", "waiting"} =>
       command[c].op \in {"publish", "revoke"} /\ \E id \in Ids : command[c].ids = {id}

(* What can be fetched can be revoked: its row, and with it the only copy  *)
(* of its token, is in the registry, and not written off.  So a lost       *)
(* answer, a timeout or a killed command never strands a public snapshot.  *)
ReadableIsRevocable == \A id \in Ids : Readable(id) => rows[id] \notin {"none", "revoked"}
=============================================================================
