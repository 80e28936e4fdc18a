------------------------------- MODULE AgentRequests -------------------------------
(***************************************************************************)
(* Requests about users, workspaces, agents and their versions             *)
(* (routers/agents.py, services/agents.py, repositories) with the          *)
(* idempotency record that is looked up first and stored last in the same  *)
(* transaction, and the launch of a rehearsal, which the engine stores in  *)
(* a transaction of its own (workflows/rehearsal.py).                      *)
(***************************************************************************)
EXTENDS ControlStore

CreateAgent(r) == ask[r].op = "create agent"
CreateVersion(r) == ask[r].op = "create version"
Archive(r) == ask[r].op = "archive agent"
Rehearse(r) == ask[r].op = "rehearse"

Name(r) == ask[r].agent

OpenAgentRequest(r) ==
  \/ CreateAgent(r) /\ Open(r, "agent:create")
  \/ CreateVersion(r) /\ Open(r, "agent:update")
  \/ Archive(r) /\ Open(r, "agent:archive")
  \/ Rehearse(r) /\ Open(r, "run:start")

-------------------------------------------------------------------------------
(* Idempotency records *)

Endpoint(r) == <<ask[r].op, IF CreateVersion(r) THEN Name(r) ELSE "">>

(* An expired record is treated as missing, though its row is still there. *)
Remembered(k) == Stored("keys", k) /\ now < rows["keys"][k].expires

LookUp(r) ==
  LET k == ask[r].key
      row == rows["keys"][k]
  IN /\ At(r, "begin") /\ (CreateAgent(r) \/ CreateVersion(r))
     /\ IF k = NoKey \/ ~Remembered(k) THEN Go(r, "work")
        ELSE IF row.body # ask[r].body \/ row.endpoint # Endpoint(r) THEN Fail(r, 409)
        ELSE Return(r, row.made)
     /\ UNCHANGED <<ask, rows, now>>

(* Mutant: the insert becomes an update. *)
StoreResultAgain(r) ==
  /\ At(r, "worked")
  /\ ~Blocked(r, {<<"keys", ask[r].key>>})
  /\ tx' = [tx EXCEPT ![r].pc = "returned", ![r].answer = [status |-> 200, made |-> r],
                      ![r].writes = Over(Write("keys", ask[r].key,
                                               [endpoint |-> Endpoint(r), body |-> ask[r].body,
                                                made |-> r, expires |-> now + Retention]), @)]
  /\ UNCHANGED <<ask, rows, now>>

(* purge_expired is never called: the insert fails on a record that has expired, and with it the
   request.                                                                                     *)
StoreResult(r) ==
  /\ At(r, "worked")
  /\ IF ask[r].key = NoKey THEN Return(r, r)
     ELSE Insert(r, Write("keys", ask[r].key,
                           [endpoint |-> Endpoint(r), body |-> ask[r].body, made |-> r,
                            expires |-> now + Retention]),
                 ServerError, "returned")
  /\ UNCHANGED <<ask, rows, now>>

-------------------------------------------------------------------------------
(* Agents *)

VersionRow(r, n) == Write("versions", <<Name(r), n>>, [spec |-> ask[r].body, by |-> ask[r].user])

(* Mutant: the version is not made current. *)
WriteAgentOnly(r) ==
  /\ At(r, "work") /\ CreateAgent(r)
  /\ Insert(r, Over(Write("agents", Name(r), [current |-> 0, archived |-> FALSE]), VersionRow(r, 1)),
            409, "worked")
  /\ UNCHANGED <<ask, rows, now>>

(* The agent and its first version.  The name is looked up before it is inserted; a name found
   taken either way is a conflict.                                                             *)
WriteAgent(r) ==
  /\ At(r, "work") /\ CreateAgent(r)
  /\ Insert(r, Over(Write("agents", Name(r), [current |-> 1, archived |-> FALSE]),
                    Over(VersionRow(r, 1), Audit(r, "agent_version_created", <<Name(r), 1>>))),
            409, "worked")
  /\ UNCHANGED <<ask, rows, now>>

(* lock_agent: the row as it is once no other transaction holds it. *)
AgentRow(r) == <<"agents", Name(r)>>

(* Mutant: the row is read and not locked. *)
ReadAgent(r) ==
  /\ At(r, "work") /\ CreateVersion(r)
  /\ IF ~Stored("agents", Name(r)) THEN Fail(r, 404)
     ELSE IF rows["agents"][Name(r)].archived THEN Fail(r, 409)
     ELSE tx' = [tx EXCEPT ![r].pc = "locked", ![r].note = <<rows["agents"][Name(r)].current>>]
  /\ UNCHANGED <<ask, rows, now>>

LockAgent(r) ==
  /\ At(r, "work") /\ CreateVersion(r)
  /\ ~Blocked(r, {AgentRow(r)})
  /\ IF ~Stored("agents", Name(r)) THEN Fail(r, 404)
     ELSE IF rows["agents"][Name(r)].archived THEN Fail(r, 409)
     ELSE tx' = [tx EXCEPT ![r].pc = "locked", ![r].locks = @ \cup {AgentRow(r)},
                           ![r].note = <<rows["agents"][Name(r)].current>>]
  /\ UNCHANGED <<ask, rows, now>>

(* The next version, inserted and made current in the locked row. *)
WriteVersion(r) ==
  LET n == tx[r].note[1] + 1
      inserts == Over(VersionRow(r, n), Audit(r, "agent_version_created", <<Name(r), n>>))
      update == Write("agents", Name(r), [rows["agents"][Name(r)] EXCEPT !.current = n])
  IN /\ At(r, "locked") /\ CreateVersion(r)
     /\ ~Blocked(r, Keyed(inserts))
     /\ IF Stored("versions", <<Name(r), n>>) THEN Fail(r, ServerError)
        ELSE tx' = [tx EXCEPT ![r].writes = Over(inserts, update),
                              ![r].locks = @ \cup Keyed(inserts) \cup {AgentRow(r)},
                              ![r].pc = "worked"]
     /\ UNCHANGED <<ask, rows, now>>

(* One UPDATE of a row that is not yet archived. *)
ArchiveAgent(r) ==
  /\ At(r, "begin") /\ Archive(r)
  /\ ~Blocked(r, {AgentRow(r)})
  /\ IF ~Stored("agents", Name(r)) \/ rows["agents"][Name(r)].archived THEN Fail(r, 404)
     ELSE tx' = [tx EXCEPT ![r].pc = "returned", ![r].locks = {AgentRow(r)},
                           ![r].answer = [status |-> 200, made |-> r],
                           ![r].writes = Over(Audit(r, "agent_archived", <<Name(r), 0>>),
                             Write("agents", Name(r),
                                   [rows["agents"][Name(r)] EXCEPT !.archived = TRUE]))]
  /\ UNCHANGED <<ask, rows, now>>

-------------------------------------------------------------------------------
(* Users and workspaces: no permission is needed *)

SignIn(r) == ask[r].op = "sign in"
CreateWorkspace(r) == ask[r].op = "create workspace"

(* ensure_user: the row is read, and written only when it is missing or out of date. *)
ReadUser(r) ==
  LET id == ask[r].user
  IN /\ At(r, "idle") /\ SignIn(r)
     /\ IF Stored("users", id) /\ rows["users"][id].email = ask[r].body
        THEN Return(r, rows["users"][id].made)
        ELSE tx' = [tx EXCEPT ![r].pc = IF Stored("users", id) THEN "update" ELSE "upsert"]
     /\ UNCHANGED <<ask, rows, now>>

(* The insert that becomes an update when another first request of the account won, and the update
   of a known user, whose answer is the row as it was read.                                       *)
WriteUser(r) ==
  LET id == ask[r].user
      made == IF Stored("users", id) THEN rows["users"][id].made ELSE r
  IN /\ tx[r].pc \in {"update", "upsert"}
     /\ ~Blocked(r, {<<"users", id>>})
     /\ tx' = [tx EXCEPT ![r].pc = "returned", ![r].locks = {<<"users", id>>},
                         ![r].answer = [status |-> 200, made |-> made],
                         ![r].writes = Write("users", id, [made |-> made, email |-> ask[r].body])]
     /\ UNCHANGED <<ask, rows, now>>

(* The workspace and its owner, in one transaction; the slug is unique. *)
WriteWorkspace(r) ==
  /\ At(r, "idle") /\ CreateWorkspace(r)
  /\ Insert(r, Write("workspaces", ask[r].body, [made |-> r, owner |-> ask[r].user]),
            409, "returned")
  /\ UNCHANGED <<ask, rows, now>>

-------------------------------------------------------------------------------
(* Rehearsals *)

RunOf(r) == ask[r].key
Note(source) == IF source = "testnet" THEN "testnet_evidence_rehearsal" ELSE "synthetic_rehearsal_only"

(* The version must exist and its agent not be archived; it is then frozen. *)
FreezeVersion(r) ==
  /\ At(r, "begin") /\ Rehearse(r)
  /\ IF ~Stored("versions", ask[r].version) \/ rows["agents"][ask[r].version[1]].archived
     THEN Fail(r, 404)
     ELSE Go(r, IF ask[r].source = "testnet" THEN "sample" ELSE "persist")
  /\ UNCHANGED <<ask, rows, now>>

(* A bounded sample of the test network, complete or not. *)
Sample(r) ==
  /\ At(r, "sample")
  /\ Go(r, "persist") \/ Fail(r, 503)
  /\ UNCHANGED <<ask, rows, now>>

(* build_rehearsal: the evidence names a provider nobody licenses, and the account may not trade. *)
RehearsalRun(r) ==
  [version |-> ask[r].version, notes |-> {Note(ask[r].source)}, status |-> "queued", made |-> r,
   licenses |-> <<IF ask[r].source = "testnet" THEN "binance-spot-testnet" ELSE "kavrigo-synthetic">>,
   asOf |-> now, agentJob |-> TRUE]

(* persist_rehearsal: under the lock of its run, the run of an earlier request with the key, when
   it is of the same version and kind, or account, run and outbox event, committed at once.      *)
Persist(r) ==
  LET old == rows["runs"][RunOf(r)]
  IN /\ At(r, "persist")
     /\ IF ~Stored("runs", RunOf(r))
        THEN /\ rows' = [rows EXCEPT !["runs"] = Over([id \in {RunOf(r)} |-> RehearsalRun(r)], @)]
             /\ tx' = [tx EXCEPT ![r].pc = "dispatch", ![r].note = <<r>>]
        ELSE /\ IF /\ old.agentJob /\ old.version = ask[r].version
                   /\ Note(ask[r].source) \in old.notes
                THEN tx' = [tx EXCEPT ![r].pc = "dispatch", ![r].note = <<old.made>>]
                ELSE Fail(r, 409)
             /\ UNCHANGED rows
     /\ UNCHANGED <<ask, now>>

(* dispatch_run, which may fail and leaves the event to the dispatcher. *)
DispatchRehearsal(r) ==
  /\ At(r, "dispatch")
  /\ Return(r, tx[r].note[1])
  /\ UNCHANGED <<ask, rows, now>>

(* The engine works on a stored run. *)
RunEnds(id) ==
  /\ rows["runs"][id].status = "queued"
  /\ \E status \in {"completed", "failed"} : rows' = [rows EXCEPT !["runs"][id].status = status]
  /\ UNCHANGED <<ask, tx, now>>

AgentStep(r) ==
  \/ OpenAgentRequest(r) \/ LookUp(r) \/ StoreResult(r)
  \/ WriteAgent(r) \/ LockAgent(r) \/ WriteVersion(r) \/ ArchiveAgent(r)
  \/ ReadUser(r) \/ WriteUser(r) \/ WriteWorkspace(r)
  \/ FreezeVersion(r) \/ Sample(r) \/ Persist(r) \/ DispatchRehearsal(r)
===================================================================================
