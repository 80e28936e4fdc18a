------------------------------- MODULE ControlStore -------------------------------
(***************************************************************************)
(* The control plane's database and the transactions of its requests.      *)
(* A request runs in one transaction (db/session.py) of which other        *)
(* requests see nothing before it commits; every statement sees what has   *)
(* committed by then (READ COMMITTED).  An insert waits while another open *)
(* transaction has inserted the same key, a row lock or an advisory lock   *)
(* while another holds it; all are kept until the transaction ends.        *)
(*                                                                         *)
(* The response may leave before the transaction commits: dependencies     *)
(* with yield end after it is sent.  Fresh identifiers and times of a row  *)
(* are named by the request that made it.                                  *)
(***************************************************************************)
EXTENDS Naturals, FiniteSets, Sequences, Access, Entitlements

CONSTANTS
  Requests,     \* requests that arrive, in any order and at once
  Scenarios,    \* what they ask and what is stored before: records [ask, rows]
  Role, Mfa,    \* per user: the role in the workspace, "none" outside it, and a second factor
  Retention,    \* how long a stored response replays
  MaxNow        \* bound: the clock

Nobody == "nobody"
NoKey == "no key"
Users == DOMAIN Role

AppendOnlyTables ==
  {"versions", "bundles", "reviews", "approvals", "assessments", "events", "audit"}
Tables == AppendOnlyTables \cup {"users", "workspaces", "agents", "keys", "runs"}

VARIABLES
  ask,      \* what each request asks
  rows,     \* per table: the committed rows by their key
  tx,       \* per request: where its handler is, its locks, writes and answer
  now       \* the clock

vars == <<ask, rows, tx, now>>
Asked == DOMAIN ask

NoAnswer == [status |-> 0, made |-> Nobody]
Fresh == [pc |-> "idle", at |-> 0, locks |-> {}, writes |-> <<>>, answer |-> NoAnswer, note |-> <<>>]

Init ==
  /\ \E s \in Scenarios : ask = s.ask /\ rows = s.rows
  /\ tx = [r \in Requests |-> Fresh]
  /\ now = 1

-------------------------------------------------------------------------------
(* Rows *)

Stored(t, id) == id \in DOMAIN rows[t]

(* The locks of other transactions are in the way. *)
Blocked(r, resources) == \E q \in Requests \ {r} : tx[q].locks \cap resources # {}

(* Writes of a transaction: per table, rows by their key. *)
Write(t, id, row) == [table \in {t} |-> [key \in {id} |-> row]]

(* f, and g where f says nothing. *)
Over(f, g) == [x \in DOMAIN f \cup DOMAIN g |-> IF x \in DOMAIN f THEN f[x] ELSE g[x]]

Applied(writes) ==
  [t \in Tables |-> Over(IF t \in DOMAIN writes THEN writes[t] ELSE <<>>, rows[t])]

(* AuditRepository.record: one event, in the transaction of the change. *)
Audit(r, action, subject) == Write("audit", r, [action |-> action, subject |-> subject])

-------------------------------------------------------------------------------
(* The life of a request *)

At(r, pc) == tx[r].pc = pc
Go(r, pc) == tx' = [tx EXCEPT ![r].pc = pc]

(* An error ends the request and undoes its transaction. *)
Fail(r, status) ==
  tx' = [tx EXCEPT ![r] = [Fresh EXCEPT !.pc = "done", !.at = tx[r].at,
                                        !.answer = [status |-> status, made |-> Nobody]]]

(* A violated constraint the handler does not expect. *)
ServerError == 500

Return(r, made) ==
  tx' = [tx EXCEPT ![r].pc = "returned", ![r].answer = [status |-> 200, made |-> made]]

(* Rows r inserts.  A key another transaction is inserting is waited for; one that is stored
   violates its constraint and ends the request with status; otherwise the handler goes on to pc. *)
Keyed(writes) ==
  UNION {{<<t, id>> : id \in DOMAIN writes[t]} : t \in DOMAIN writes \ {"audit"}}

Insert(r, writes, status, pc) ==
  /\ ~Blocked(r, Keyed(writes))
  /\ IF \E k \in Keyed(writes) : Stored(k[1], k[2]) THEN Fail(r, status)
     ELSE tx' = [tx EXCEPT ![r].writes = Over(writes, @), ![r].locks = @ \cup Keyed(writes),
                           ![r].pc = pc, ![r].answer = [status |-> 200, made |-> r]]

Lock(r, resource, pc) ==
  /\ ~Blocked(r, {resource})
  /\ tx' = [tx EXCEPT ![r].locks = @ \cup {resource}, ![r].pc = pc]

(* current_principal, workspace_context and require: the caller is known, a member and allowed. *)
Open(r, permission) ==
  LET user == ask[r].user
      role == Role[user]
  IN /\ At(r, "idle")
     /\ IF role = "none" THEN Fail(r, 404)
        ELSE IF ~Has(role, Mfa[user], permission) THEN Fail(r, 403)
        ELSE tx' = [tx EXCEPT ![r].pc = "begin", ![r].at = now]
     /\ UNCHANGED <<ask, rows, now>>

(* The transaction of a request that has answered. *)
Commit(r) ==
  /\ At(r, "returned")
  /\ rows' = Applied(tx[r].writes)
  /\ tx' = [tx EXCEPT ![r].pc = "done", ![r].locks = {}, ![r].writes = <<>>]
  /\ UNCHANGED <<ask, now>>

(* The process or its connection dies before the commit, with or without an answer given. *)
Lose(r) ==
  /\ tx[r].pc \notin {"idle", "done", "lost"}
  /\ tx' = [tx EXCEPT ![r] = [Fresh EXCEPT !.pc = "lost", !.at = tx[r].at]]
  /\ UNCHANGED <<ask, rows, now>>

Tick ==
  /\ now < MaxNow
  /\ now' = now + 1
  /\ UNCHANGED <<ask, rows, tx>>

(* Every request is over. *)
Quiet ==
  /\ \A r \in Asked : tx[r].pc \in {"done", "lost"}
  /\ UNCHANGED vars

(* r was told of a success that has committed. *)
Succeeded(r) == At(r, "done") /\ tx[r].answer.status = 200
===================================================================================
