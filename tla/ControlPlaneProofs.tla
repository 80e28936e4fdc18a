---------------------------- MODULE ControlPlaneProofs ----------------------------
(***************************************************************************)
(* What holds of the control plane for every set of requests, whatever they *)
(* ask and whatever was stored before: the tables stay sound, a repeated    *)
(* request is told the same, an archived agent is frozen, an approval has   *)
(* four eyes behind it and an assessment its grants.                        *)
(*                                                                         *)
(* The argument: what a transaction has written it holds the lock of, no    *)
(* two transactions hold a lock both, and what is inserted is not stored;   *)
(* so a commit changes no row that another transaction has written or has   *)
(* locked, and no row at all of the tables that are only appended to.  What *)
(* a handler has read of those is then still true when it writes.           *)
(***************************************************************************)
EXTENDS ControlPlane, TLAPS

(* Rows of these are inserted and never changed. *)
Inserted == {"workspaces", "versions", "keys", "bundles", "reviews", "approvals", "events",
             "assessments"}

(* r is about to commit a row id of t. *)
Holds(writes, t, id) == t \in DOMAIN writes /\ id \in DOMAIN writes[t]
Pending(r, t, id) == Holds(tx[r].writes, t, id)

-------------------------------------------------------------------------------
(* The inductive invariant: the store *)

StoreIsSound ==
  /\ RowsOK(rows)
  /\ \A b \in DOMAIN rows["approvals"] : Vouched(rows, b, rows["approvals"][b])
  /\ \A k \in DOMAIN rows["assessments"] : Earned(rows, rows["assessments"][k])

ContextIsSound ==
  /\ Asked \subseteq Requests
  /\ \A r \in Asked : AskOK(ask[r])
  /\ now \in 1..MaxNow

TxFields == {"pc", "at", "locks", "writes", "answer", "note"}
TxShape == DOMAIN tx = Requests /\ \A r \in Requests : DOMAIN tx[r] = TxFields

LocksExclusive == \A r, q \in Requests : r # q => tx[r].locks \cap tx[q].locks = {}

-------------------------------------------------------------------------------
(* The inductive invariant: each transaction *)

(* An agent is written unless it is archived: with its next version, or with none. *)
Latest(a) == IF Stored("agents", a) THEN rows["agents"][a].current ELSE 0

AgentWrite(a, row, writes) ==
  /\ Stored("agents", a) => ~rows["agents"][a].archived
  /\ \/ /\ Stored("agents", a) /\ row.current = Latest(a)
        /\ \A v : Holds(writes, "versions", v) => v[1] # a
     \/ /\ row.current = Latest(a) + 1
        /\ \A v : Holds(writes, "versions", v) /\ v[1] = a <=> v = <<a, row.current>>

(* What r has written in table t under id. *)
WriteOK(t, id, row, writes, locks) ==
  /\ t # "audit" => <<t, id>> \in locks
  /\ t \in Inserted => ~Stored(t, id)
  /\ RowOK(rows, t, id, row)
  /\ t = "users" /\ Stored(t, id) => row.made = rows[t][id].made
  /\ t = "agents" => AgentWrite(id, row, writes)
  /\ t = "versions" => Holds(writes, "agents", id[1])
  /\ t = "approvals" => Vouched(rows, id, row)
  /\ t = "assessments" => Earned(rows, row)

WritesOK(writes, locks) ==
  /\ DOMAIN writes \subseteq Tables \ {"runs"}
  /\ \A t, id : Holds(writes, t, id) => WriteOK(t, id, writes[t][id], writes, locks)

(* What a handler relies on at each point, of what it read before. *)
ReadIsTrue(r) ==
  /\ tx[r].pc \in {"begin", "work", "locked", "bind", "insert"} => tx[r].at \in 1..MaxNow
  /\ At(r, "locked") /\ CreateVersion(r) =>
       /\ AgentRow(r) \in tx[r].locks
       /\ Stored("agents", Name(r)) /\ ~rows["agents"][Name(r)].archived
       /\ tx[r].note[1] = rows["agents"][Name(r)].current
  /\ At(r, "bind") => Assess(r)
  /\ At(r, "worked") => CreateAgent(r) \/ CreateVersion(r)
  /\ tx[r].pc \in {"update", "upsert"} => SignIn(r)
  /\ tx[r].pc \in {"sample", "persist", "dispatch"} => Rehearse(r)
  /\ At(r, "dispatch") =>
       Stored("runs", RunOf(r)) /\ rows["runs"][RunOf(r)].made = tx[r].note[1]
  /\ At(r, "reviewed") => (CreateBundle(r) \/ ReadBundle(r)) /\ Stored("bundles", Bundle(r))
  /\ At(r, "insert") /\ ReviewBundle(r) => Stored("bundles", Bundle(r))
  /\ At(r, "insert") /\ ApproveBundle(r) =>
       ReviewHolds(Bundle(r)) /\ ReviewOf(Bundle(r)).advance /\ ask[r].user = ReviewOf(Bundle(r)).by
  /\ tx[r].pc \in {"bind", "insert"} /\ Assess(r) => Stored("versions", ask[r].version)
  /\ At(r, "insert") /\ Assess(r) => ApprovalHolds(Bundle(r)) /\ Stored("runs", ask[r].run)

(* made is who made the row id of t, which is stored or which r is about to commit. *)
MadeBy(r, t, id, made) ==
  \/ Pending(r, t, id) /\ tx[r].writes[t][id].made = made
  \/ Stored(t, id) /\ rows[t][id].made = made

(* r makes, or finds made, the row id of t. *)
Makes(r, t, id) ==
  \/ t = "keys" /\ id = ask[r].key /\ id # NoKey /\ (CreateAgent(r) \/ CreateVersion(r))
  \/ t = "bundles" /\ id = ask[r].key /\ CreateBundle(r)
  \/ t = "reviews" /\ id = ask[r].bundle /\ ReviewBundle(r)
  \/ t = "approvals" /\ id = ask[r].bundle /\ ApproveBundle(r)
  \/ t = "assessments" /\ id = ask[r].key /\ Assess(r)
  \/ t = "runs" /\ id = ask[r].key /\ Rehearse(r)
  \/ t = "users" /\ id = ask[r].user /\ SignIn(r)

AnswerIsTrue(r) ==
  tx[r].pc \in {"returned", "done"} /\ tx[r].answer.status = 200 =>
    \A t, id : Makes(r, t, id) => MadeBy(r, t, id, tx[r].answer.made)

Sound(r) ==
  /\ WritesOK(tx[r].writes, tx[r].locks)
  /\ tx[r].pc = "done" => DOMAIN tx[r].writes = {}
  /\ ReadIsTrue(r)
  /\ AnswerIsTrue(r)

TransactionsAreSound == \A r \in Asked : Sound(r)

(* A request that has not come has touched nothing. *)
OthersAreFresh == \A r \in Requests \ Asked : tx[r] = Fresh

IInv ==
  /\ StoreIsSound
  /\ ContextIsSound
  /\ TxShape
  /\ LocksExclusive
  /\ TransactionsAreSound
  /\ OthersAreFresh

-------------------------------------------------------------------------------
(* Writes *)

LEMMA OneWrite ==
  ASSUME NEW t, NEW id, NEW row
  PROVE  /\ DOMAIN Write(t, id, row) = {t}
         /\ Write(t, id, row)[t][id] = row
         /\ \A u, k : Holds(Write(t, id, row), u, k) <=> u = t /\ k = id
  BY DEF Write, Holds

LEMMA OverIs ==
  ASSUME NEW f, NEW g
  PROVE  /\ DOMAIN Over(f, g) = DOMAIN f \cup DOMAIN g
         /\ \A x \in DOMAIN f : Over(f, g)[x] = f[x]
         /\ \A x \in DOMAIN g : x \notin DOMAIN f => Over(f, g)[x] = g[x]
  BY DEF Over

LEMMA OverHolds ==
  ASSUME NEW f, NEW g
  PROVE  \A t, id : Holds(Over(f, g), t, id)
                      <=> \/ t \in DOMAIN f /\ Holds(f, t, id)
                          \/ t \notin DOMAIN f /\ Holds(g, t, id)
<1>1. TAKE t, id
<1> DEFINE h == Over(f, g)
<1>2. /\ DOMAIN h = DOMAIN f \cup DOMAIN g
      /\ \A x \in DOMAIN f : h[x] = f[x]
      /\ \A x \in DOMAIN g : x \notin DOMAIN f => h[x] = g[x]
  BY OverIs
<1> HIDE DEF h
<1>3. Holds(h, t, id) <=> \/ t \in DOMAIN f /\ Holds(f, t, id)
                          \/ t \notin DOMAIN f /\ Holds(g, t, id)
  BY <1>2 DEF Holds
<1>4. QED
  BY <1>3 DEF h

LEMMA KeyedIs ==
  ASSUME NEW writes
  PROVE  /\ \A t, id : <<t, id>> \in Keyed(writes) <=> t # "audit" /\ Holds(writes, t, id)
         /\ \A k \in Keyed(writes) : k = <<k[1], k[2]>> /\ k[1] # "audit" /\ Holds(writes, k[1], k[2])
  BY DEF Keyed, Holds

LEMMA AppliedIs ==
  ASSUME NEW writes, NEW t \in Tables
  PROVE  /\ DOMAIN Applied(writes) = Tables
         /\ \A id : id \in DOMAIN Applied(writes)[t] <=> Holds(writes, t, id) \/ Stored(t, id)
         /\ \A id : Holds(writes, t, id) => Applied(writes)[t][id] = writes[t][id]
         /\ \A id : ~Holds(writes, t, id) /\ Stored(t, id) => Applied(writes)[t][id] = rows[t][id]
<1> DEFINE f == IF t \in DOMAIN writes THEN writes[t] ELSE <<>>
<1>1. Applied(writes)[t] = Over(f, rows[t]) /\ DOMAIN Applied(writes) = Tables
  BY DEF Applied
<1>2. \A id : id \in DOMAIN f <=> Holds(writes, t, id)
  BY DEF Holds
<1>3. \A id : Holds(writes, t, id) => f[id] = writes[t][id]
  BY DEF Holds
<1> HIDE DEF f
<1> DEFINE h == Over(f, rows[t])
<1>4. /\ DOMAIN h = DOMAIN f \cup DOMAIN rows[t]
      /\ \A x \in DOMAIN f : h[x] = f[x]
      /\ \A x \in DOMAIN rows[t] : x \notin DOMAIN f => h[x] = rows[t][x]
  BY OverIs
<1>5. Applied(writes)[t] = h
  BY <1>1
<1> HIDE DEF h
<1>6. QED
  BY <1>1, <1>2, <1>3, <1>4, <1>5 DEF Stored

-------------------------------------------------------------------------------
(* Steps of one request *)

OnlyTx(r) ==
  /\ UNCHANGED <<ask, rows, now>>
  /\ DOMAIN tx' = Requests /\ DOMAIN tx'[r] = TxFields
  /\ \A q \in Requests : q # r => tx'[q] = tx[q]

LEMMA MakesKept ==
  ASSUME ask' = ask, NEW r
  PROVE  \A t, id : Makes(r, t, id)' <=> Makes(r, t, id)
  BY DEF Makes, NoKey, CreateVersion, CreateAgent, SignIn, Rehearse, CreateBundle, ReviewBundle,
         ApproveBundle, Assess

LEMMA SoundKept ==
  ASSUME IInv, NEW q \in Asked, UNCHANGED <<ask, rows>>, tx'[q] = tx[q]
  PROVE  Sound(q)'
<1>1. Sound(q)
  BY DEF IInv, TransactionsAreSound
<1>2. WritesOK(tx[q].writes, tx[q].locks)'
  <2>1. WritesOK(tx[q].writes, tx[q].locks)
    BY <1>1 DEF Sound
  <2>2. QED
    BY <2>1 DEF WritesOK, WriteOK, AgentWrite, Latest, Stored
<1>3. ReadIsTrue(q)'
  <2>1. ReadIsTrue(q)
    BY <1>1 DEF Sound
  <2>2. QED
    BY <2>1 DEF ReadIsTrue, At, Stored, CreateVersion, CreateAgent, AgentRow, Name, SignIn, Rehearse,
                RunOf, CreateBundle, ReadBundle, Bundle, ReviewBundle, ApproveBundle, Assess,
                ReviewHolds, ReviewOf, BundleOf, ApprovalHolds, ApprovalOf
<1>4. AnswerIsTrue(q)'
  <2>1. AnswerIsTrue(q)
    BY <1>1 DEF Sound
  <2>2. \A t, id : Makes(q, t, id)' <=> Makes(q, t, id)
    BY MakesKept
  <2>3. \A t, id, made : MadeBy(q, t, id, made)' <=> MadeBy(q, t, id, made)
    BY DEF MadeBy, Pending, Stored
  <2>4. QED
    BY <2>1, <2>2, <2>3 DEF AnswerIsTrue
<1>5. QED
  BY <1>1, <1>2, <1>3, <1>4 DEF Sound

LEMMA OneMoves ==
  ASSUME IInv, NEW r \in Asked, OnlyTx(r), Sound(r)',
         \A q \in Requests : q # r => tx'[r].locks \cap tx[q].locks = {}
  PROVE  IInv'
<1>1. r \in Requests
  BY DEF IInv, ContextIsSound
<1>2. StoreIsSound'
  <2>1. StoreIsSound
    BY DEF IInv
  <2>2. QED
    BY <2>1 DEF OnlyTx, StoreIsSound
<1>3. ContextIsSound'
  BY DEF IInv, OnlyTx, ContextIsSound, Asked
<1>4. TxShape'
  BY <1>1 DEF IInv, OnlyTx, TxShape
<1>5. LocksExclusive'
  BY <1>1 DEF IInv, OnlyTx, LocksExclusive
<1>6. TransactionsAreSound'
  <2>1. ASSUME NEW q \in Asked, q # r
        PROVE  Sound(q)'
    BY <2>1, SoundKept DEF OnlyTx, IInv, ContextIsSound
  <2>2. Asked' = Asked
    BY DEF OnlyTx, Asked
  <2>3. QED
    BY <2>1, <2>2 DEF TransactionsAreSound
<1>7. OthersAreFresh'
  BY DEF IInv, OnlyTx, OthersAreFresh, Asked, Fresh, NoAnswer
<1>8. QED
  BY <1>2, <1>3, <1>4, <1>5, <1>6, <1>7 DEF IInv

LEMMA WritesStay ==
  ASSUME IInv, NEW r \in Asked, OnlyTx(r), tx'[r].writes = tx[r].writes, tx[r].locks \subseteq tx'[r].locks
  PROVE  WritesOK(tx[r].writes, tx[r].locks)'
<1>1. WritesOK(tx[r].writes, tx[r].locks)
  BY DEF IInv, TransactionsAreSound, Sound
<1>2. QED
  BY <1>1 DEF OnlyTx, WritesOK, WriteOK, AgentWrite, Latest, Stored

(* The handler goes on, with the writes it has. *)
LEMMA GoesOn ==
  ASSUME IInv, NEW r \in Asked, OnlyTx(r), tx'[r].writes = tx[r].writes,
         tx[r].locks \subseteq tx'[r].locks,
         \A q \in Requests : q # r => tx'[r].locks \cap tx[q].locks = {},
         tx'[r].pc \notin {"done", "returned"}, ReadIsTrue(r)'
  PROVE  IInv'
<1>1. AnswerIsTrue(r)'
  BY DEF AnswerIsTrue
<1>2. Sound(r)'
  BY <1>1, WritesStay DEF Sound
<1>3. QED
  BY <1>2, OneMoves

(* The handler answers, with the writes it has. *)
LEMMA Answers ==
  ASSUME IInv, NEW r \in Asked, OnlyTx(r), tx'[r].writes = tx[r].writes, tx'[r].locks = tx[r].locks,
         tx'[r].pc = "returned",
         \A t, id : Makes(r, t, id) => MadeBy(r, t, id, tx'[r].answer.made)
  PROVE  IInv'
<1>1. \A q \in Requests : q # r => tx'[r].locks \cap tx[q].locks = {}
  BY DEF IInv, LocksExclusive, ContextIsSound
<1>2. ReadIsTrue(r)'
  BY DEF ReadIsTrue, At
<1>3. AnswerIsTrue(r)'
  <2>1. \A t, id : Makes(r, t, id)' <=> Makes(r, t, id)
    BY MakesKept DEF OnlyTx
  <2>2. \A t, id, made : MadeBy(r, t, id, made)' <=> MadeBy(r, t, id, made)
    BY DEF OnlyTx, MadeBy, Pending, Stored
  <2>3. QED
    BY <2>1, <2>2 DEF AnswerIsTrue
<1>4. Sound(r)'
  BY <1>2, <1>3, WritesStay DEF Sound
<1>5. QED
  BY <1>1, <1>4, OneMoves

(* The transaction is undone. *)
LEMMA IsUndone ==
  ASSUME IInv, NEW r \in Asked, OnlyTx(r), DOMAIN tx'[r].writes = {}, tx'[r].locks = {},
         \/ tx'[r].pc = "done" /\ tx'[r].answer.status # 200
         \/ tx'[r].pc = "lost"
  PROVE  IInv'
<1>1. WritesOK(tx[r].writes, tx[r].locks)'
  BY DEF WritesOK, Holds
<1>2. ReadIsTrue(r)' /\ AnswerIsTrue(r)'
  BY DEF ReadIsTrue, AnswerIsTrue, At
<1>3. Sound(r)'
  BY <1>1, <1>2 DEF Sound
<1>4. QED
  BY <1>3, OneMoves

LEMMA FailStep ==
  ASSUME IInv, NEW r \in Asked, NEW status, status # 200, Fail(r, status), UNCHANGED <<ask, rows, now>>
  PROVE  IInv'
<1> DEFINE w == [Fresh EXCEPT !.pc = "done", !.at = tx[r].at,
                              !.answer = [status |-> status, made |-> Nobody]]
<1>1. r \in Requests /\ DOMAIN tx = Requests
  BY DEF IInv, ContextIsSound, TxShape
<1>2. /\ w.pc = "done" /\ w.answer.status = status /\ w.locks = {} /\ DOMAIN w.writes = {}
      /\ DOMAIN w = TxFields
  BY DEF Fresh, TxFields
<1>3. tx' = [tx EXCEPT ![r] = w]
  BY DEF Fail
<1> HIDE DEF w
<1>4. OnlyTx(r) /\ tx'[r] = w
  BY <1>1, <1>2, <1>3 DEF OnlyTx
<1>5. QED
  BY <1>2, <1>4, IsUndone

LEMMA ReturnStep ==
  ASSUME IInv, NEW r \in Asked, NEW made, Return(r, made), UNCHANGED <<ask, rows, now>>,
         \A t, id : Makes(r, t, id) => MadeBy(r, t, id, made)
  PROVE  IInv'
<1>1. r \in Requests /\ DOMAIN tx = Requests /\ DOMAIN tx[r] = TxFields
  BY DEF IInv, ContextIsSound, TxShape
<1>2. /\ OnlyTx(r) /\ tx'[r].writes = tx[r].writes /\ tx'[r].locks = tx[r].locks
      /\ tx'[r].pc = "returned" /\ tx'[r].answer.made = made
  BY <1>1 DEF Return, OnlyTx, TxFields
<1>3. QED
  BY <1>2, Answers

-------------------------------------------------------------------------------
(* Inserts *)

(* The rows a handler inserts are sound; an agent is inserted with its first version. *)
RowsAreNew(writes) ==
  /\ DOMAIN writes \subseteq Inserted \cup {"agents", "audit"}
  /\ "agents" \in DOMAIN writes <=> "versions" \in DOMAIN writes
  /\ \A t, id : Holds(writes, t, id) =>
       /\ RowOK(rows, t, id, writes[t][id])
       /\ t = "approvals" => Vouched(rows, id, writes[t][id])
       /\ t = "assessments" => Earned(rows, writes[t][id])
       /\ t = "versions" => Holds(writes, "agents", id[1])
       /\ t = "agents" => /\ writes[t][id].current = 1
                          /\ \A v : Holds(writes, "versions", v) /\ v[1] = id <=> v = <<id, 1>>

(* One row that is inserted, with the record of it for the audit or without. *)
LEMMA OneRow ==
  ASSUME NEW t, NEW id, NEW row, t \in Inserted, t # "versions", RowOK(rows, t, id, row),
         t = "approvals" => Vouched(rows, id, row), t = "assessments" => Earned(rows, row)
  PROVE  /\ RowsAreNew(Write(t, id, row))
         /\ Holds(Write(t, id, row), t, id) /\ Write(t, id, row)[t][id] = row
<1> DEFINE writes == Write(t, id, row)
<1>1. DOMAIN writes = {t} /\ writes[t][id] = row
  BY DEF Write
<1>2. \A u, k : Holds(writes, u, k) <=> u = t /\ k = id
  BY OneWrite
<1> HIDE DEF writes
<1>3. RowsAreNew(writes)
  BY <1>1, <1>2 DEF RowsAreNew, Inserted
<1>4. QED
  BY <1>1, <1>2, <1>3 DEF writes

LEMMA OneAuditedRow ==
  ASSUME NEW t, NEW id, NEW row, t \in Inserted, t # "versions", RowOK(rows, t, id, row),
         t = "approvals" => Vouched(rows, id, row), t = "assessments" => Earned(rows, row),
         NEW r, NEW action, NEW subject
  PROVE  LET writes == Over(Write(t, id, row), Audit(r, action, subject))
         IN RowsAreNew(writes) /\ Holds(writes, t, id) /\ writes[t][id] = row
<1> DEFINE w == Write(t, id, row)
           a == Audit(r, action, subject)
           writes == Over(w, a)
<1>1. DOMAIN w = {t} /\ w[t][id] = row
  BY DEF Write
<1>2. \A u, k : Holds(w, u, k) <=> u = t /\ k = id
  BY OneWrite
<1>3. DOMAIN a = {"audit"}
  BY DEF Write, Audit
<1>4. \A u, k : Holds(a, u, k) => u = "audit"
  BY DEF Write, Audit, Holds
<1> HIDE DEF w, a
<1>5. /\ DOMAIN writes = DOMAIN w \cup DOMAIN a
      /\ \A x \in DOMAIN w : writes[x] = w[x]
  BY OverIs
<1>6. \A u, k : Holds(writes, u, k) <=>
             \/ u \in DOMAIN w /\ Holds(w, u, k)
             \/ u \notin DOMAIN w /\ Holds(a, u, k)
  BY OverHolds
<1> HIDE DEF writes
<1>7. \A k : RowOK(rows, "audit", k, writes["audit"][k])
  BY DEF RowOK
<1>8. RowsAreNew(writes)
  BY <1>1, <1>2, <1>3, <1>4, <1>5, <1>6, <1>7 DEF RowsAreNew, Inserted
<1>9. Holds(writes, t, id) /\ writes[t][id] = row
  BY <1>1, <1>2, <1>5, <1>6
<1>10. QED
  BY <1>8, <1>9 DEF writes, w, a

LEMMA InsertKeeps ==
  ASSUME NEW old, NEW locks, NEW writes, WritesOK(old, locks), RowsAreNew(writes),
         \A k \in Keyed(writes) : ~Stored(k[1], k[2])
  PROVE  WritesOK(Over(writes, old), locks \cup Keyed(writes))
<1> DEFINE all == Over(writes, old)
           held == locks \cup Keyed(writes)
<1>1. \A t, id : Holds(all, t, id) <=> \/ t \in DOMAIN writes /\ Holds(writes, t, id)
                                       \/ t \notin DOMAIN writes /\ Holds(old, t, id)
  BY OverHolds
<1>2. /\ DOMAIN all = DOMAIN writes \cup DOMAIN old
      /\ \A t \in DOMAIN writes : all[t] = writes[t]
      /\ \A t \in DOMAIN old : t \notin DOMAIN writes => all[t] = old[t]
  BY OverIs
<1>3. \A t, id : Holds(writes, t, id) /\ t # "audit" => <<t, id>> \in held /\ ~Stored(t, id)
  BY KeyedIs
<1>4. locks \subseteq held
  OBVIOUS
<1> HIDE DEF all, held
<1>5. DOMAIN all \subseteq Tables \ {"runs"}
  BY <1>2 DEF WritesOK, RowsAreNew, Inserted, Tables, AppendOnlyTables
<1>6. ASSUME NEW t, NEW id, t \in DOMAIN writes, Holds(writes, t, id)
      PROVE  WriteOK(t, id, all[t][id], all, held)
  <2>1. all[t][id] = writes[t][id]
    BY <1>2, <1>6
  <2>2. t = "agents" => AgentWrite(id, writes[t][id], all)
    <3>1. SUFFICES ASSUME t = "agents"
                   PROVE  AgentWrite(id, writes[t][id], all)
      OBVIOUS
    <3>2. ~Stored("agents", id)
      BY <1>3, <1>6, <3>1
    <3>3. "versions" \in DOMAIN writes
      BY <1>6, <3>1 DEF RowsAreNew
    <3>4. \A v : Holds(all, "versions", v) <=> Holds(writes, "versions", v)
      BY <1>1, <3>3
    <3>5. writes[t][id].current = 1 /\ \A v : Holds(writes, "versions", v) /\ v[1] = id <=> v = <<id, 1>>
      BY <1>6, <3>1 DEF RowsAreNew
    <3>6. QED
      BY <3>2, <3>4, <3>5 DEF AgentWrite, Latest
  <2>3. t = "versions" => Holds(all, "agents", id[1])
    BY <1>1, <1>6 DEF RowsAreNew
  <2>4. t # "audit" => <<t, id>> \in held /\ ~Stored(t, id)
    BY <1>3, <1>6
  <2>5. t # "users" /\ (t \in Inserted => t # "audit")
    BY <1>6 DEF RowsAreNew, Inserted
  <2>6. QED
    BY <1>6, <2>1, <2>2, <2>3, <2>4, <2>5 DEF WriteOK, RowsAreNew
<1>7. ASSUME NEW t, NEW id, t \notin DOMAIN writes, Holds(old, t, id)
      PROVE  WriteOK(t, id, all[t][id], all, held)
  <2>1. all[t][id] = old[t][id]
    BY <1>2, <1>7 DEF Holds
  <2>2. WriteOK(t, id, old[t][id], old, locks)
    BY <1>7 DEF WritesOK
  <2>3. t = "agents" \/ t = "versions" => /\ \A v : Holds(all, "versions", v) <=> Holds(old, "versions", v)
                                          /\ \A a : Holds(all, "agents", a) <=> Holds(old, "agents", a)
    BY <1>1, <1>7 DEF RowsAreNew
  <2>4. t = "agents" => AgentWrite(id, old[t][id], all)
    BY <2>2, <2>3 DEF WriteOK, AgentWrite
  <2>5. t = "versions" => Holds(all, "agents", id[1])
    BY <2>2, <2>3 DEF WriteOK
  <2>6. QED
    BY <1>4, <2>1, <2>2, <2>4, <2>5 DEF WriteOK
<1>8. WritesOK(all, held)
  BY <1>1, <1>5, <1>6, <1>7 DEF WritesOK
<1>9. QED
  BY <1>8 DEF all, held

LEMMA InsertStep ==
  ASSUME IInv, NEW r \in Asked, NEW writes, NEW status, NEW pc, Insert(r, writes, status, pc),
         UNCHANGED <<ask, rows, now>>, status # 200, RowsAreNew(writes), pc \in {"worked", "returned"},
         pc = "worked" => CreateAgent(r),
         pc = "returned" => \A t, id : Makes(r, t, id) => Holds(writes, t, id) /\ writes[t][id].made = r
  PROVE  IInv'
<1>1. /\ r \in Requests /\ DOMAIN tx = Requests /\ DOMAIN tx[r] = TxFields
      /\ WritesOK(tx[r].writes, tx[r].locks)
      /\ \A q \in Requests : q # r => tx[r].locks \cap tx[q].locks = {}
  BY DEF IInv, ContextIsSound, TxShape, TransactionsAreSound, Sound, LocksExclusive
<1>2. CASE Fail(r, status)
  BY <1>2, FailStep
<1>3. CASE ~Fail(r, status)
  <2> DEFINE all == Over(writes, tx[r].writes)
             held == tx[r].locks \cup Keyed(writes)
  <2>1. /\ \A k \in Keyed(writes) : ~Stored(k[1], k[2])
        /\ tx' = [tx EXCEPT ![r].writes = all, ![r].locks = held,
                            ![r].pc = pc, ![r].answer = [status |-> 200, made |-> r]]
        /\ ~Blocked(r, Keyed(writes))
    BY <1>3 DEF Insert
  <2>2. WritesOK(all, held)
    BY <1>1, <2>1, InsertKeeps
  <2>3. \A q \in Requests : q # r => held \cap tx[q].locks = {}
    BY <1>1, <2>1 DEF Blocked
  <2>4. /\ \A t, id : Holds(all, t, id) <=>
                       \/ t \in DOMAIN writes /\ Holds(writes, t, id)
                       \/ t \notin DOMAIN writes /\ Holds(tx[r].writes, t, id)
        /\ \A t \in DOMAIN writes : all[t] = writes[t]
    <3>1. \A t, id : Holds(Over(writes, tx[r].writes), t, id) <=>
                       \/ t \in DOMAIN writes /\ Holds(writes, t, id)
                       \/ t \notin DOMAIN writes /\ Holds(tx[r].writes, t, id)
      BY OverHolds
    <3>2. ASSUME NEW t \in DOMAIN writes PROVE Over(writes, tx[r].writes)[t] = writes[t]
      BY DEF Over
    <3>3. QED
      BY <3>1, <3>2
  <2> HIDE DEF all, held
  <2>5. /\ OnlyTx(r) /\ tx'[r].writes = all /\ tx'[r].locks = held /\ tx'[r].pc = pc
        /\ tx'[r].answer.made = r
    BY <1>1, <2>1 DEF OnlyTx, TxFields
  <2>6. WritesOK(tx[r].writes, tx[r].locks)'
    BY <2>2, <2>5 DEF OnlyTx, WritesOK, WriteOK, AgentWrite, Latest, Stored
  <2>7. ReadIsTrue(r)'
    BY <2>5 DEF ReadIsTrue, At, OnlyTx, CreateAgent
  <2>8. AnswerIsTrue(r)'
    <3>1. \A t, id : Makes(r, t, id)' <=> Makes(r, t, id)
      BY <2>5, MakesKept DEF OnlyTx
    <3>2. pc = "returned" => \A t, id : Makes(r, t, id) => Holds(all, t, id) /\ all[t][id].made = r
      BY <2>4 DEF Holds
    <3>3. QED
      BY <2>5, <3>1, <3>2 DEF AnswerIsTrue, MadeBy, Pending
  <2>9. Sound(r)'
    BY <2>5, <2>6, <2>7, <2>8 DEF Sound
  <2>10. QED
    BY <2>3, <2>5, <2>9, OneMoves
<1>4. QED
  BY <1>2, <1>3

-------------------------------------------------------------------------------
(* The handlers of AgentRequests *)

LEMMA About ==
  ASSUME IInv, NEW r \in Asked
  PROVE  /\ r \in Requests /\ DOMAIN tx = Requests /\ DOMAIN tx[r] = TxFields
         /\ ReadIsTrue(r)
         /\ WritesOK(tx[r].writes, tx[r].locks)
         /\ \A q \in Requests : q # r => tx[r].locks \cap tx[q].locks = {}
  BY DEF IInv, ContextIsSound, TxShape, TransactionsAreSound, Sound, LocksExclusive

(* The handler goes on to pc, whose reads are true. *)
LEMMA GoStep ==
  ASSUME IInv, NEW r \in Asked, NEW pc, Go(r, pc), UNCHANGED <<ask, rows, now>>,
         pc \notin {"done", "returned"}, ReadIsTrue(r)'
  PROVE  IInv'
<1>1. /\ OnlyTx(r) /\ tx'[r].writes = tx[r].writes /\ tx'[r].locks = tx[r].locks /\ tx'[r].pc = pc
  BY About DEF Go, OnlyTx, TxFields
<1>2. QED
  BY <1>1, About, GoesOn

LEMMA GoFields ==
  ASSUME IInv, NEW r \in Asked, NEW pc, Go(r, pc)
  PROVE  /\ tx'[r].pc = pc /\ tx'[r].at = tx[r].at /\ tx'[r].locks = tx[r].locks
         /\ tx'[r].note = tx[r].note
  BY About DEF Go, TxFields

LEMMA OpenStep ==
  ASSUME IInv, NEW r \in Asked, NEW permission, Open(r, permission)
  PROVE  IInv'
<1>1. CASE Fail(r, 404) \/ Fail(r, 403)
  BY <1>1, FailStep DEF Open
<1>2. CASE ~(Fail(r, 404) \/ Fail(r, 403))
  <2>1. tx' = [tx EXCEPT ![r].pc = "begin", ![r].at = now] /\ UNCHANGED <<ask, rows, now>>
    BY <1>2 DEF Open
  <2>2. /\ OnlyTx(r) /\ tx'[r].writes = tx[r].writes /\ tx'[r].locks = tx[r].locks
        /\ tx'[r].pc = "begin" /\ tx'[r].at = now
    BY <2>1, About DEF OnlyTx, TxFields
  <2>3. ReadIsTrue(r)'
    BY <2>2 DEF ReadIsTrue, At, IInv, ContextIsSound
  <2>4. QED
    BY <2>2, <2>3, About, GoesOn
<1>3. QED
  BY <1>1, <1>2

LEMMA OpenAgentRequestStep ==
  ASSUME IInv, NEW r \in Asked, OpenAgentRequest(r)
  PROVE  IInv'
  BY OpenStep DEF OpenAgentRequest

LEMMA LookUpStep ==
  ASSUME IInv, NEW r \in Asked, LookUp(r)
  PROVE  IInv'
<1> DEFINE k == ask[r].key
<1>1. UNCHANGED <<ask, rows, now>> /\ At(r, "begin") /\ (CreateAgent(r) \/ CreateVersion(r))
  BY DEF LookUp
<1>2. CASE k = NoKey \/ ~Remembered(k)
  <2>1. Go(r, "work")
    BY <1>2 DEF LookUp
  <2>2. ReadIsTrue(r)'
    BY <1>1, <2>1, About, GoFields DEF ReadIsTrue, At
  <2>3. QED
    BY <1>1, <2>1, <2>2, GoStep
<1>3. CASE k # NoKey /\ Remembered(k)
  <2>1. CASE Fail(r, 409)
    BY <1>1, <2>1, FailStep
  <2>2. CASE ~Fail(r, 409)
    <3>1. Return(r, rows["keys"][k].made)
      BY <1>3, <2>2 DEF LookUp
    <3>2. \A t, id : Makes(r, t, id) => MadeBy(r, t, id, rows["keys"][k].made)
      BY <1>1, <1>3 DEF Makes, MadeBy, Remembered, CreateAgent, CreateVersion, CreateBundle, ReviewBundle,
                        ApproveBundle, Assess, Rehearse, SignIn
    <3>3. QED
      BY <1>1, <3>1, <3>2, ReturnStep
  <2>3. QED
    BY <2>1, <2>2
<1>4. QED
  BY <1>2, <1>3

LEMMA StoreResultStep ==
  ASSUME IInv, NEW r \in Asked, StoreResult(r)
  PROVE  IInv'
<1>1. UNCHANGED <<ask, rows, now>> /\ (CreateAgent(r) \/ CreateVersion(r))
  BY About DEF StoreResult, ReadIsTrue
<1>2. \A t, id : Makes(r, t, id) => t = "keys" /\ id = ask[r].key /\ id # NoKey
  BY <1>1 DEF Makes, CreateAgent, CreateVersion, CreateBundle, ReviewBundle, ApproveBundle, Assess,
              Rehearse, SignIn
<1>3. CASE ask[r].key = NoKey
  BY <1>1, <1>2, <1>3, ReturnStep DEF StoreResult
<1>4. CASE ask[r].key # NoKey
  <2> DEFINE row == [endpoint |-> Endpoint(r), body |-> ask[r].body, made |-> r,
                     expires |-> now + Retention]
             writes == Write("keys", ask[r].key, row)
  <2>1. Insert(r, writes, 500, "returned")
    BY <1>4 DEF StoreResult, ServerError
  <2>2. row.made = r /\ row.expires = now + Retention
    OBVIOUS
  <2> HIDE DEF row
  <2>3. RowOK(rows, "keys", ask[r].key, row)
    BY <2>2, About, ControlAssumption DEF RowOK, KeyRow, Made, IInv, ContextIsSound
  <2>4. /\ RowsAreNew(writes)
        /\ Holds(writes, "keys", ask[r].key) /\ writes["keys"][ask[r].key] = row
    BY <2>3, OneRow DEF Inserted
  <2> HIDE DEF writes
  <2>5. QED
    BY <1>1, <1>2, <2>1, <2>2, <2>4, InsertStep
<1>5. QED
  BY <1>3, <1>4

(* The writes of an agent and of a version of it, in either order. *)
AgentAndVersion(writes, a, row, version, by) ==
  /\ DOMAIN writes = {"agents", "versions", "audit"}
  /\ \A k : Holds(writes, "agents", k) <=> k = a
  /\ \A k : Holds(writes, "versions", k) <=> k = <<a, row.current>>
  /\ writes["agents"][a] = row
  /\ writes["versions"][<<a, row.current>>] = version
  /\ version.by = by

LEMMA TheirDomains ==
  ASSUME NEW r, NEW a, NEW n, NEW row, NEW version, NEW action, NEW subject, NEW by,
         row.current = n, version.by = by
  PROVE  LET agent == Write("agents", a, row)
             added == Write("versions", <<a, n>>, version)
             audit == Audit(r, action, subject)
         IN /\ AgentAndVersion(Over(agent, Over(added, audit)), a, row, version, by)
            /\ AgentAndVersion(Over(Over(added, audit), agent), a, row, version, by)
<1> DEFINE agent == Write("agents", a, row)
           added == Write("versions", <<a, n>>, version)
           audit == Audit(r, action, subject)
<1>1. /\ DOMAIN agent = {"agents"} /\ DOMAIN agent["agents"] = {a} /\ agent["agents"][a] = row
      /\ DOMAIN added = {"versions"} /\ DOMAIN added["versions"] = {<<a, n>>}
      /\ added["versions"][<<a, n>>] = version
      /\ DOMAIN audit = {"audit"}
  BY DEF Write, Audit
<1> HIDE DEF agent, added, audit
<1>2. ASSUME NEW writes, DOMAIN writes = {"agents", "versions", "audit"},
             writes["agents"] = agent["agents"], writes["versions"] = added["versions"]
      PROVE  AgentAndVersion(writes, a, row, version, by)
  BY <1>1, <1>2 DEF AgentAndVersion, Holds
<1>3. AgentAndVersion(Over(agent, Over(added, audit)), a, row, version, by)
  <2> DEFINE w == Over(agent, Over(added, audit))
  <2>1. DOMAIN w = {"agents", "versions", "audit"} /\ w["agents"] = agent["agents"]
        /\ w["versions"] = added["versions"]
    BY <1>1 DEF Over
  <2> HIDE DEF w
  <2>2. AgentAndVersion(w, a, row, version, by)
    BY <1>2, <2>1
  <2>3. QED
    BY <2>2 DEF w
<1>4. AgentAndVersion(Over(Over(added, audit), agent), a, row, version, by)
  <2> DEFINE w == Over(Over(added, audit), agent)
  <2>1. DOMAIN w = {"agents", "versions", "audit"} /\ w["agents"] = agent["agents"]
        /\ w["versions"] = added["versions"]
    BY <1>1 DEF Over
  <2> HIDE DEF w
  <2>2. AgentAndVersion(w, a, row, version, by)
    BY <1>2, <2>1
  <2>3. QED
    BY <2>2 DEF w
<1>5. QED
  BY <1>3, <1>4 DEF agent, added, audit

LEMMA AskersAreUsers ==
  ASSUME IInv, NEW r \in Asked
  PROVE  ask[r].op # "sign in" => ask[r].user \in Users
  BY DEF IInv, ContextIsSound, AskOK

LEMMA WriteAgentStep ==
  ASSUME IInv, NEW r \in Asked, WriteAgent(r)
  PROVE  IInv'
<1> DEFINE a == Name(r)
           row == [current |-> 1, archived |-> FALSE]
           version == [spec |-> ask[r].body, by |-> ask[r].user]
           writes == Over(Write("agents", a, row),
                          Over(VersionRow(r, 1), Audit(r, "agent_version_created", <<a, 1>>)))
<1>1. Insert(r, writes, 409, "worked") /\ UNCHANGED <<ask, rows, now>> /\ CreateAgent(r)
  BY DEF WriteAgent
<1>2. row.current = 1 /\ row \in [current : Nat \ {0}, archived : BOOLEAN] /\ version.by = ask[r].user
  OBVIOUS
<1>3. ask[r].user \in Users
  BY <1>1, AskersAreUsers DEF CreateAgent
<1> HIDE DEF row, version
<1>4. AgentAndVersion(writes, a, row, version, ask[r].user)
  BY <1>2, TheirDomains DEF VersionRow, version
<1> HIDE DEF writes, a
<1>5. RowsAreNew(writes)
  <2>1. DOMAIN writes \subseteq Inserted \cup {"agents", "audit"}
        /\ ("agents" \in DOMAIN writes <=> "versions" \in DOMAIN writes)
    BY <1>4 DEF AgentAndVersion, Inserted
  <2>2. RowOK(rows, "agents", a, row)
    BY <1>2 DEF RowOK, AgentRowOK
  <2>3. RowOK(rows, "versions", <<a, 1>>, version)
    BY <1>2, <1>3 DEF RowOK, VersionRowOK
  <2>4. \A k : RowOK(rows, "audit", k, writes["audit"][k])
    BY DEF RowOK
  <2>5. \A t, id : Holds(writes, t, id) => \/ t = "agents" /\ id = a
                                           \/ t = "versions" /\ id = <<a, 1>>
                                           \/ t = "audit"
    BY <1>2, <1>4 DEF AgentAndVersion, Holds
  <2>6. /\ writes["agents"][a] = row /\ writes["versions"][<<a, 1>>] = version
        /\ \A v : Holds(writes, "versions", v) <=> v = <<a, 1>>
        /\ Holds(writes, "agents", a)
    BY <1>2, <1>4 DEF AgentAndVersion
  <2>7. QED
    BY <1>2, <2>1, <2>2, <2>3, <2>4, <2>5, <2>6 DEF RowsAreNew
<1>6. QED
  BY <1>1, <1>5, InsertStep

LEMMA LockAgentStep ==
  ASSUME IInv, NEW r \in Asked, LockAgent(r)
  PROVE  IInv'
<1>1. UNCHANGED <<ask, rows, now>> /\ CreateVersion(r) /\ At(r, "work") /\ ~Blocked(r, {AgentRow(r)})
  BY DEF LockAgent
<1>2. CASE Fail(r, 404) \/ Fail(r, 409)
  BY <1>1, <1>2, FailStep
<1>3. CASE ~(Fail(r, 404) \/ Fail(r, 409))
  <2>1. /\ Stored("agents", Name(r)) /\ ~rows["agents"][Name(r)].archived
        /\ tx' = [tx EXCEPT ![r].pc = "locked", ![r].locks = @ \cup {AgentRow(r)},
                            ![r].note = <<rows["agents"][Name(r)].current>>]
    BY <1>3 DEF LockAgent
  <2>2. /\ OnlyTx(r) /\ tx'[r].writes = tx[r].writes /\ tx'[r].locks = tx[r].locks \cup {AgentRow(r)}
        /\ tx'[r].pc = "locked" /\ tx'[r].at = tx[r].at
        /\ tx'[r].note = <<rows["agents"][Name(r)].current>>
    BY <1>1, <2>1, About DEF OnlyTx, TxFields
  <2>3. \A q \in Requests : q # r => tx'[r].locks \cap tx[q].locks = {}
    BY <1>1, <2>2, About DEF Blocked
  <2>4. ReadIsTrue(r)'
    <3>1. tx[r].at \in 1..MaxNow
      BY <1>1, About DEF ReadIsTrue, At
    <3>2. tx'[r].note[1] = rows["agents"][Name(r)].current /\ AgentRow(r) \in tx'[r].locks
      BY <2>2
    <3>3. ask' = ask /\ rows' = rows /\ Name(r)' = Name(r) /\ AgentRow(r)' = AgentRow(r)
      BY <1>1 DEF Name, AgentRow
    <3>4. QED
      BY <2>1, <2>2, <3>1, <3>2, <3>3 DEF ReadIsTrue, At, Stored
  <2>5. QED
    BY <2>2, <2>3, <2>4, GoesOn
<1>4. QED
  BY <1>2, <1>3

(* The handler writes rows of its own choice, under the locks it then holds. *)
LEMMA Rewrites ==
  ASSUME IInv, NEW r \in Asked, OnlyTx(r), NEW writes, NEW locks, WritesOK(writes, locks),
         tx'[r].writes = writes, tx'[r].locks = locks,
         \A q \in Requests : q # r => locks \cap tx[q].locks = {},
         tx'[r].pc # "done", ReadIsTrue(r)', AnswerIsTrue(r)'
  PROVE  IInv'
<1>1. WritesOK(tx[r].writes, tx[r].locks)'
  BY DEF OnlyTx, WritesOK, WriteOK, AgentWrite, Latest, Stored
<1>2. Sound(r)'
  BY <1>1 DEF Sound
<1>3. QED
  BY <1>2, OneMoves

LEMMA TheAgentIsStored ==
  ASSUME IInv, NEW a, Stored("agents", a)
  PROVE  rows["agents"][a] \in [current : Nat \ {0}, archived : BOOLEAN]
  BY DEF IInv, StoreIsSound, RowsOK, RowOK, AgentRowOK, Stored, Tables

LEMMA WriteVersionStep ==
  ASSUME IInv, NEW r \in Asked, WriteVersion(r)
  PROVE  IInv'
<1> DEFINE a == Name(r)
           old == rows["agents"][a]
           n == tx[r].note[1] + 1
           row == [old EXCEPT !.current = n]
           version == [spec |-> ask[r].body, by |-> ask[r].user]
           inserts == Over(VersionRow(r, n), Audit(r, "agent_version_created", <<a, n>>))
           writes == Over(inserts, Write("agents", a, row))
           locks == tx[r].locks \cup Keyed(inserts) \cup {AgentRow(r)}
<1>1. /\ UNCHANGED <<ask, rows, now>> /\ CreateVersion(r) /\ At(r, "locked")
      /\ ~Blocked(r, Keyed(inserts))
  BY DEF WriteVersion
<1>2. CASE Fail(r, 500)
  BY <1>1, <1>2, FailStep
<1>3. CASE ~Fail(r, 500)
  <2>1. /\ ~Stored("versions", <<a, n>>)
        /\ tx' = [tx EXCEPT ![r].writes = writes, ![r].locks = locks, ![r].pc = "worked"]
    BY <1>3 DEF WriteVersion, ServerError
  <2>2. /\ AgentRow(r) \in tx[r].locks
        /\ Stored("agents", a) /\ ~old.archived /\ tx[r].note[1] = old.current
    BY <1>1, About DEF ReadIsTrue
  <2>3. old \in [current : Nat \ {0}, archived : BOOLEAN]
    BY <2>2, TheAgentIsStored
  <2>4. /\ n = old.current + 1 /\ n \in Nat \ {0}
        /\ row.current = n /\ row \in [current : Nat \ {0}, archived : BOOLEAN]
    BY <2>2, <2>3
  <2>5. version.by = ask[r].user /\ ask[r].user \in Users
    BY <1>1, AskersAreUsers DEF CreateVersion
  <2>6. AgentRow(r) = <<"agents", a>> /\ VersionRow(r, n) = Write("versions", <<a, n>>, version)
    BY DEF AgentRow, VersionRow
  <2> HIDE DEF n, old, row, version
  <2>7. AgentAndVersion(writes, a, row, version, ask[r].user)
    BY <2>4, <2>5, <2>6, TheirDomains
  <2>8. <<"versions", <<a, n>>>> \in Keyed(inserts)
    <3>1. "versions" \in DOMAIN inserts /\ inserts["versions"] = VersionRow(r, n)["versions"]
          /\ DOMAIN VersionRow(r, n)["versions"] = {<<a, n>>}
      BY <2>6 DEF Over, Write
    <3>2. Holds(inserts, "versions", <<a, n>>)
      BY <3>1 DEF Holds
    <3>3. QED
      BY <3>2, KeyedIs
  <2> HIDE DEF a, inserts
  <2>9. <<"versions", <<a, n>>>> \in locks /\ <<"agents", a>> \in locks
    BY <2>6, <2>8
  <2>10. \A q \in Requests : q # r => locks \cap tx[q].locks = {}
    BY <1>1, <2>2, About DEF Blocked
  <2> HIDE DEF writes, locks
  <2>11. /\ writes["agents"][a] = row /\ writes["versions"][<<a, n>>] = version
         /\ \A v : Holds(writes, "versions", v) <=> v = <<a, n>>
         /\ \A k : Holds(writes, "agents", k) <=> k = a
         /\ DOMAIN writes = {"agents", "versions", "audit"}
    BY <2>4, <2>7 DEF AgentAndVersion
  <2>12. WritesOK(writes, locks)
    <3>1. DOMAIN writes \subseteq Tables \ {"runs"}
      BY <2>11 DEF Tables, AppendOnlyTables
    <3>2. WriteOK("agents", a, row, writes, locks)
      <4>1. AgentWrite(a, row, writes)
        BY <2>2, <2>4, <2>11 DEF AgentWrite, Latest, old
      <4>2. QED
        BY <2>4, <2>9, <4>1 DEF WriteOK, RowOK, AgentRowOK, Inserted
    <3>3. WriteOK("versions", <<a, n>>, version, writes, locks)
      <4>1. RowOK(rows, "versions", <<a, n>>, version)
        BY <2>5 DEF RowOK, VersionRowOK
      <4>2. QED
        BY <2>1, <2>9, <2>11, <4>1 DEF WriteOK
    <3>4. \A k : WriteOK("audit", k, writes["audit"][k], writes, locks)
      BY DEF WriteOK, RowOK, Inserted
    <3>5. \A t, id : Holds(writes, t, id) => \/ t = "agents" /\ id = a
                                             \/ t = "versions" /\ id = <<a, n>>
                                             \/ t = "audit"
      BY <2>11 DEF Holds
    <3>6. QED
      BY <2>11, <3>1, <3>2, <3>3, <3>4, <3>5 DEF WritesOK
  <2>13. /\ OnlyTx(r) /\ tx'[r].writes = writes /\ tx'[r].locks = locks /\ tx'[r].pc = "worked"
    BY <1>1, <2>1, About DEF OnlyTx, TxFields
  <2>14. ReadIsTrue(r)' /\ AnswerIsTrue(r)'
    BY <1>1, <2>13 DEF ReadIsTrue, AnswerIsTrue, At, CreateVersion
  <2>15. QED
    BY <2>10, <2>12, <2>13, <2>14, Rewrites
<1>4. QED
  BY <1>2, <1>3

LEMMA ArchiveAgentStep ==
  ASSUME IInv, NEW r \in Asked, ArchiveAgent(r)
  PROVE  IInv'
<1> DEFINE a == Name(r)
           old == rows["agents"][a]
           row == [old EXCEPT !.archived = TRUE]
           audit == Audit(r, "agent_archived", <<a, 0>>)
           writes == Over(audit, Write("agents", a, row))
           locks == {AgentRow(r)}
<1>1. /\ UNCHANGED <<ask, rows, now>> /\ Archive(r) /\ ~Blocked(r, locks)
  BY DEF ArchiveAgent
<1>2. CASE Fail(r, 404)
  BY <1>1, <1>2, FailStep
<1>3. CASE ~Fail(r, 404)
  <2>1. /\ Stored("agents", a) /\ ~old.archived
        /\ tx' = [tx EXCEPT ![r].pc = "returned", ![r].locks = locks,
                            ![r].answer = [status |-> 200, made |-> r], ![r].writes = writes]
    BY <1>3 DEF ArchiveAgent
  <2>2. old \in [current : Nat \ {0}, archived : BOOLEAN]
    BY <2>1, TheAgentIsStored
  <2>3. row.current = old.current /\ row \in [current : Nat \ {0}, archived : BOOLEAN]
    BY <2>2
  <2>4. /\ DOMAIN writes = {"audit", "agents"} /\ writes["agents"][a] = row
        /\ DOMAIN writes["agents"] = {a}
    BY DEF Over, Write, Audit
  <2>5. <<"agents", a>> \in locks
    BY DEF AgentRow
  <2>6. \A q \in Requests : q # r => locks \cap tx[q].locks = {}
    BY <1>1 DEF Blocked
  <2> HIDE DEF writes, locks, row
  <2>7. WritesOK(writes, locks)
    <3>1. DOMAIN writes \subseteq Tables \ {"runs"}
      BY <2>4 DEF Tables, AppendOnlyTables
    <3>2. WriteOK("agents", a, row, writes, locks)
      <4>1. AgentWrite(a, row, writes)
        BY <2>1, <2>3, <2>4 DEF AgentWrite, Latest, Holds
      <4>2. QED
        BY <2>3, <2>5, <4>1 DEF WriteOK, RowOK, AgentRowOK, Inserted
    <3>3. \A k : WriteOK("audit", k, writes["audit"][k], writes, locks)
      BY DEF WriteOK, RowOK, Inserted
    <3>4. \A t, id : Holds(writes, t, id) => (t = "agents" /\ id = a) \/ t = "audit"
      BY <2>4 DEF Holds
    <3>5. QED
      BY <2>4, <3>1, <3>2, <3>3, <3>4 DEF WritesOK
  <2>8. /\ OnlyTx(r) /\ tx'[r].writes = writes /\ tx'[r].locks = locks /\ tx'[r].pc = "returned"
    BY <1>1, <2>1, About DEF OnlyTx, TxFields
  <2>9. ReadIsTrue(r)'
    BY <2>8 DEF ReadIsTrue, At
  <2>10. AnswerIsTrue(r)'
    <3>1. \A t, id : ~Makes(r, t, id)
      BY <1>1 DEF Makes, Archive, CreateAgent, CreateVersion, CreateBundle, ReviewBundle,
                  ApproveBundle, Assess, Rehearse, SignIn
    <3>2. \A t, id : ~Makes(r, t, id)'
      BY <1>1, <3>1, MakesKept
    <3>3. QED
      BY <3>2 DEF AnswerIsTrue
  <2>11. QED
    BY <2>6, <2>7, <2>8, <2>9, <2>10, Rewrites
<1>4. QED
  BY <1>2, <1>3

LEMMA ReadUserStep ==
  ASSUME IInv, NEW r \in Asked, ReadUser(r)
  PROVE  IInv'
<1> DEFINE id == ask[r].user
<1>1. UNCHANGED <<ask, rows, now>> /\ SignIn(r)
  BY DEF ReadUser
<1>2. CASE Stored("users", id) /\ rows["users"][id].email = ask[r].body
  <2>1. Return(r, rows["users"][id].made)
    BY <1>2 DEF ReadUser
  <2>2. \A t, k : Makes(r, t, k) => t = "users" /\ k = id
    BY <1>1 DEF Makes, CreateAgent, CreateVersion, CreateBundle, ReviewBundle, ApproveBundle, Assess,
                Rehearse, SignIn
  <2>3. QED
    BY <1>1, <1>2, <2>1, <2>2, ReturnStep DEF MadeBy
<1>3. CASE ~(Stored("users", id) /\ rows["users"][id].email = ask[r].body)
  <2>1. PICK pc \in {"update", "upsert"} : tx' = [tx EXCEPT ![r].pc = pc]
    BY <1>3 DEF ReadUser
  <2>2. Go(r, pc)
    BY <2>1 DEF Go
  <2>3. ReadIsTrue(r)'
    BY <1>1, <2>1, <2>2, GoFields DEF ReadIsTrue, At, SignIn
  <2>4. QED
    BY <1>1, <2>2, <2>3, GoStep
<1>4. QED
  BY <1>2, <1>3

LEMMA WriteUserStep ==
  ASSUME IInv, NEW r \in Asked, WriteUser(r)
  PROVE  IInv'
<1> DEFINE id == ask[r].user
           made == IF Stored("users", id) THEN rows["users"][id].made ELSE r
           row == [made |-> made, email |-> ask[r].body]
           writes == Write("users", id, row)
           locks == {<<"users", id>>}
<1>1. /\ UNCHANGED <<ask, rows, now>> /\ ~Blocked(r, locks) /\ tx[r].pc \in {"update", "upsert"}
      /\ tx' = [tx EXCEPT ![r].pc = "returned", ![r].locks = locks,
                          ![r].answer = [status |-> 200, made |-> made], ![r].writes = writes]
  BY DEF WriteUser
<1>2. SignIn(r)
  BY <1>1, About DEF ReadIsTrue
<1>3. row.made = made /\ made \in Made /\ (Stored("users", id) => made = rows["users"][id].made)
  BY About DEF Made, IInv, StoreIsSound, RowsOK, RowOK, UserRow, Stored, Tables
<1> HIDE DEF made, row
<1>4. DOMAIN writes = {"users"} /\ DOMAIN writes["users"] = {id} /\ writes["users"][id] = row
  BY DEF Write
<1>5. \A q \in Requests : q # r => locks \cap tx[q].locks = {}
  BY <1>1 DEF Blocked
<1>6. <<"users", id>> \in locks
  OBVIOUS
<1> HIDE DEF writes, locks
<1>7. WritesOK(writes, locks)
  <2>1. DOMAIN writes \subseteq Tables \ {"runs"}
    BY <1>4 DEF Tables
  <2>2. WriteOK("users", id, row, writes, locks)
    BY <1>3, <1>6 DEF WriteOK, RowOK, UserRow, Inserted
  <2>3. \A t, k : Holds(writes, t, k) => t = "users" /\ k = id
    BY <1>4 DEF Holds
  <2>4. QED
    BY <1>4, <2>1, <2>2, <2>3 DEF WritesOK
<1>8. /\ OnlyTx(r) /\ tx'[r].writes = writes /\ tx'[r].locks = locks /\ tx'[r].pc = "returned"
      /\ tx'[r].answer.made = made
  BY <1>1, About DEF OnlyTx, TxFields
<1>9. ReadIsTrue(r)'
  BY <1>8 DEF ReadIsTrue, At
<1>10. AnswerIsTrue(r)'
  <2>1. \A t, k : Makes(r, t, k) => t = "users" /\ k = id
    BY <1>2 DEF Makes, CreateAgent, CreateVersion, CreateBundle, ReviewBundle, ApproveBundle, Assess,
                Rehearse, SignIn
  <2>2. \A t, k : Makes(r, t, k)' <=> Makes(r, t, k)
    BY <1>1, MakesKept
  <2>3. QED
    BY <1>3, <1>4, <1>8, <2>1, <2>2 DEF AnswerIsTrue, MadeBy, Pending, Holds
<1>11. QED
  BY <1>5, <1>7, <1>8, <1>9, <1>10, Rewrites

LEMMA WriteWorkspaceStep ==
  ASSUME IInv, NEW r \in Asked, WriteWorkspace(r)
  PROVE  IInv'
<1> DEFINE row == [made |-> r, owner |-> ask[r].user]
           writes == Write("workspaces", ask[r].body, row)
<1>1. /\ Insert(r, writes, 409, "returned") /\ UNCHANGED <<ask, rows, now>> /\ CreateWorkspace(r)
  BY DEF WriteWorkspace
<1>2. ask[r].user \in Users
  BY <1>1, AskersAreUsers DEF CreateWorkspace
<1>3. RowOK(rows, "workspaces", ask[r].body, row)
  BY <1>2, About DEF RowOK, WorkspaceRow, Made
<1> HIDE DEF row
<1>4. RowsAreNew(writes)
  BY <1>3, OneRow DEF Inserted
<1> HIDE DEF writes
<1>5. \A t, id : ~Makes(r, t, id)
  BY <1>1 DEF Makes, CreateWorkspace, CreateAgent, CreateVersion, CreateBundle, ReviewBundle,
              ApproveBundle, Assess, Rehearse, SignIn
<1>6. QED
  BY <1>1, <1>4, <1>5, InsertStep

LEMMA FreezeVersionStep ==
  ASSUME IInv, NEW r \in Asked, FreezeVersion(r)
  PROVE  IInv'
<1>1. UNCHANGED <<ask, rows, now>> /\ Rehearse(r)
  BY DEF FreezeVersion
<1>2. CASE Fail(r, 404)
  BY <1>1, <1>2, FailStep
<1>3. CASE ~Fail(r, 404)
  <2>1. PICK pc \in {"sample", "persist"} : Go(r, pc)
    BY <1>3 DEF FreezeVersion
  <2>2. ReadIsTrue(r)'
    BY <1>1, <2>1, GoFields DEF ReadIsTrue, At, Rehearse
  <2>3. QED
    BY <1>1, <2>1, <2>2, GoStep
<1>4. QED
  BY <1>2, <1>3

LEMMA SampleStep ==
  ASSUME IInv, NEW r \in Asked, Sample(r)
  PROVE  IInv'
<1>1. UNCHANGED <<ask, rows, now>> /\ Rehearse(r)
  BY About DEF Sample, ReadIsTrue, At
<1>2. CASE Go(r, "persist")
  <2>1. ReadIsTrue(r)'
    BY <1>1, <1>2, GoFields DEF ReadIsTrue, At, Rehearse
  <2>2. QED
    BY <1>1, <1>2, <2>1, GoStep
<1>3. CASE Fail(r, 503)
  BY <1>1, <1>3, FailStep
<1>4. QED
  BY <1>2, <1>3 DEF Sample

LEMMA DispatchRehearsalStep ==
  ASSUME IInv, NEW r \in Asked, DispatchRehearsal(r)
  PROVE  IInv'
<1>1. /\ UNCHANGED <<ask, rows, now>> /\ Return(r, tx[r].note[1]) /\ Rehearse(r)
      /\ Stored("runs", ask[r].key) /\ rows["runs"][ask[r].key].made = tx[r].note[1]
  BY About DEF DispatchRehearsal, ReadIsTrue, At, RunOf
<1>2. \A t, k : Makes(r, t, k) => t = "runs" /\ k = ask[r].key
  BY <1>1 DEF Makes, CreateAgent, CreateVersion, CreateBundle, ReviewBundle, ApproveBundle, Assess,
              Rehearse, SignIn
<1>3. QED
  BY <1>1, <1>2, ReturnStep DEF MadeBy

-------------------------------------------------------------------------------
(* The handlers of PolicyRequests *)

LEMMA OpenPolicyRequestStep ==
  ASSUME IInv, NEW r \in Asked, OpenPolicyRequest(r)
  PROVE  IInv'
<1>1. CASE Fail(r, 400) /\ UNCHANGED <<ask, rows, now>>
  BY <1>1, FailStep
<1>2. CASE ~(Fail(r, 400) /\ UNCHANGED <<ask, rows, now>>)
  BY <1>2, OpenStep DEF OpenPolicyRequest
<1>3. QED
  BY <1>1, <1>2

LEMMA TakeLockStep ==
  ASSUME IInv, NEW r \in Asked, TakeLock(r)
  PROVE  IInv'
<1>1. /\ UNCHANGED <<ask, rows, now>> /\ Lock(r, AdvisoryLock(r), "locked") /\ At(r, "begin")
      /\ ~CreateVersion(r)
  BY DEF TakeLock, CreateBundle, ReviewBundle, ApproveBundle, Assess, CreateVersion
<1> DEFINE locks == tx[r].locks \cup {AdvisoryLock(r)}
<1>2. /\ ~Blocked(r, {AdvisoryLock(r)})
      /\ tx' = [tx EXCEPT ![r].locks = locks, ![r].pc = "locked"]
  BY <1>1 DEF Lock
<1>3. \A q \in Requests : q # r => locks \cap tx[q].locks = {}
  BY <1>2, About DEF Blocked
<1>4. tx[r].locks \subseteq locks
  OBVIOUS
<1> HIDE DEF locks
<1>5. /\ OnlyTx(r) /\ tx'[r].writes = tx[r].writes /\ tx'[r].locks = locks
      /\ tx'[r].pc = "locked" /\ tx'[r].at = tx[r].at
  BY <1>1, <1>2, About DEF OnlyTx, TxFields
<1>6. ReadIsTrue(r)'
  BY <1>1, <1>5, About DEF ReadIsTrue, At, CreateVersion
<1>7. QED
  BY <1>3, <1>4, <1>5, <1>6, GoesOn

LEMMA FindBundleStep ==
  ASSUME IInv, NEW r \in Asked, FindBundle(r)
  PROVE  IInv'
<1>1. UNCHANGED <<ask, rows, now>> /\ CreateBundle(r) /\ At(r, "locked")
  BY DEF FindBundle
<1>2. CASE Fail(r, 409)
  BY <1>1, <1>2, FailStep
<1>3. CASE ~Fail(r, 409)
  <2>1. PICK pc \in {"insert", "read"} : Go(r, pc)
    BY <1>3 DEF FindBundle
  <2>2. ReadIsTrue(r)'
    <3>1. tx'[r].pc = pc /\ tx'[r].at = tx[r].at /\ tx[r].pc = "locked"
      BY <1>1, <2>1, GoFields DEF At
    <3>2. tx[r].at \in 1..MaxNow
      BY <3>1, About DEF ReadIsTrue
    <3>3. ~ReviewBundle(r)' /\ ~ApproveBundle(r)' /\ ~Assess(r)'
      BY <1>1 DEF CreateBundle, ReviewBundle, ApproveBundle, Assess
    <3>4. QED
      BY <2>1, <3>1, <3>2, <3>3 DEF ReadIsTrue, At
  <2>3. QED
    BY <1>1, <2>1, <2>2, GoStep
<1>4. QED
  BY <1>2, <1>3

LEMMA InsertBundleStep ==
  ASSUME IInv, NEW r \in Asked, InsertBundle(r)
  PROVE  IInv'
<1> DEFINE row == [documents |-> ask[r].body, by |-> ask[r].user, made |-> r]
           writes == Over(Write("bundles", Bundle(r), row),
                          Audit(r, "paper_policy_candidate_created", Bundle(r)))
<1>1. /\ Insert(r, writes, 500, "returned") /\ UNCHANGED <<ask, rows, now>> /\ CreateBundle(r)
  BY DEF InsertBundle, ServerError
<1>2. ask[r].user \in Users
  BY <1>1, AskersAreUsers DEF CreateBundle
<1>3. RowOK(rows, "bundles", Bundle(r), row) /\ row.made = r
  BY <1>2, About DEF RowOK, BundleRow, Made
<1> HIDE DEF row
<1>4. /\ RowsAreNew(writes)
      /\ Holds(writes, "bundles", Bundle(r)) /\ writes["bundles"][Bundle(r)] = row
  BY <1>3, OneAuditedRow DEF Inserted
<1> HIDE DEF writes
<1>5. \A t, id : Makes(r, t, id) => t = "bundles" /\ id = Bundle(r)
  BY <1>1 DEF Makes, Bundle, CreateAgent, CreateVersion, CreateBundle, ReviewBundle,
              ApproveBundle, Assess, Rehearse, SignIn
<1>6. QED
  BY <1>1, <1>3, <1>4, <1>5, InsertStep

LEMMA ReadReviewStep ==
  ASSUME IInv, NEW r \in Asked, ReadReview(r)
  PROVE  IInv'
<1>1. UNCHANGED <<ask, rows, now>> /\ (CreateBundle(r) \/ ReadBundle(r))
  BY DEF ReadReview
<1>2. CASE Fail(r, 404)
  BY <1>1, <1>2, FailStep
<1>3. CASE ~Fail(r, 404)
  <2>1. /\ Stored("bundles", Bundle(r))
        /\ tx' = [tx EXCEPT ![r].pc = "reviewed", ![r].note = <<Stored("reviews", Bundle(r))>>]
    BY <1>3 DEF ReadReview
  <2>2. /\ OnlyTx(r) /\ tx'[r].writes = tx[r].writes /\ tx'[r].locks = tx[r].locks
        /\ tx'[r].pc = "reviewed"
    BY <1>1, <2>1, About DEF OnlyTx, TxFields
  <2>3. ReadIsTrue(r)'
    <3>1. ask' = ask /\ rows' = rows
      BY <1>1
    <3>2. QED
      BY <1>1, <2>1, <2>2, <3>1 DEF ReadIsTrue, At, CreateBundle, ReadBundle, Bundle, Stored
  <2>4. QED
    BY <2>2, <2>3, About, GoesOn
<1>4. QED
  BY <1>2, <1>3

LEMMA ReadApprovalStep ==
  ASSUME IInv, NEW r \in Asked, ReadApproval(r)
  PROVE  IInv'
<1> DEFINE b == Bundle(r)
<1>1. /\ UNCHANGED <<ask, rows, now>> /\ (CreateBundle(r) \/ ReadBundle(r)) /\ Stored("bundles", b)
  BY About DEF ReadApproval, ReadIsTrue
<1>2. CASE Fail(r, 409)
  BY <1>1, <1>2, FailStep
<1>3. CASE ~Fail(r, 409)
  <2>1. PICK note : tx' = [tx EXCEPT ![r].pc = "returned", ![r].note = note,
                           ![r].answer = [status |-> 200, made |-> rows["bundles"][b].made]]
    BY <1>3 DEF ReadApproval, BundleOf
  <2>2. /\ OnlyTx(r) /\ tx'[r].writes = tx[r].writes /\ tx'[r].locks = tx[r].locks
        /\ tx'[r].pc = "returned" /\ tx'[r].answer.made = rows["bundles"][b].made
    BY <1>1, <2>1, About DEF OnlyTx, TxFields
  <2>3. \A t, k : Makes(r, t, k) => t = "bundles" /\ k = b
    BY <1>1 DEF Makes, Bundle, ReadBundle, CreateAgent, CreateVersion, CreateBundle, ReviewBundle,
                ApproveBundle, Assess, Rehearse, SignIn
  <2>4. QED
    BY <1>1, <2>2, <2>3, Answers DEF MadeBy
<1>4. QED
  BY <1>2, <1>3

LEMMA FindReviewStep ==
  ASSUME IInv, NEW r \in Asked, FindReview(r)
  PROVE  IInv'
<1> DEFINE b == Bundle(r)
<1>1. UNCHANGED <<ask, rows, now>> /\ ReviewBundle(r) /\ At(r, "locked")
  BY DEF FindReview
<1>2. b = ask[r].bundle
  BY <1>1 DEF Bundle, CreateBundle, ReviewBundle
<1>3. CASE Fail(r, 404) \/ Fail(r, 403) \/ Fail(r, 409)
  BY <1>1, <1>3, FailStep
<1>4. CASE ~(Fail(r, 404) \/ Fail(r, 403) \/ Fail(r, 409))
  <2>1. /\ Stored("bundles", b)
        /\ \/ Go(r, "insert")
           \/ Stored("reviews", b) /\ Return(r, rows["reviews"][b].made)
    BY <1>4 DEF FindReview, ReviewOf
  <2>2. CASE Go(r, "insert")
    <3>1. ask' = ask /\ rows' = rows
      BY <1>1
    <3>2. tx[r].at \in 1..MaxNow
      BY <1>1, About DEF ReadIsTrue, At
    <3>3. tx'[r].pc = "insert" /\ tx'[r].at = tx[r].at
      BY <2>2, GoFields
    <3>4. ReadIsTrue(r)'
      BY <1>1, <2>1, <3>1, <3>2, <3>3
         DEF ReadIsTrue, At, Stored, Bundle, CreateBundle, ReviewBundle, ApproveBundle, Assess
    <3>5. QED
      BY <1>1, <2>2, <3>4, GoStep
  <2>3. CASE Stored("reviews", b) /\ Return(r, rows["reviews"][b].made)
    <3>1. \A t, k : Makes(r, t, k) => t = "reviews" /\ k = b
      BY <1>1, <1>2 DEF Makes, CreateAgent, CreateVersion, CreateBundle, ReviewBundle, ApproveBundle,
                        Assess, Rehearse, SignIn
    <3>2. QED
      BY <1>1, <2>3, <3>1, ReturnStep DEF MadeBy
  <2>4. QED
    BY <2>1, <2>2, <2>3
<1>5. QED
  BY <1>3, <1>4

LEMMA InsertReviewStep ==
  ASSUME IInv, NEW r \in Asked, InsertReview(r)
  PROVE  IInv'
<1> DEFINE b == Bundle(r)
           row == [advance |-> ask[r].body.advance, documents |-> BundleOf(b).documents,
                   key |-> ask[r].key, request |-> ask[r].body, by |-> ask[r].user, made |-> r]
           writes == Over(Write("reviews", b, row), Audit(r, "paper_policy_candidate_reviewed", b))
<1>1. /\ Insert(r, writes, 500, "returned") /\ UNCHANGED <<ask, rows, now>> /\ ReviewBundle(r)
      /\ At(r, "insert")
  BY DEF InsertReview, ServerError
<1>2. ask[r].user \in Users /\ row.advance \in BOOLEAN
  BY <1>1, AskersAreUsers DEF ReviewBundle, IInv, ContextIsSound, AskOK
<1>3. Stored("bundles", b)
  BY <1>1, About DEF ReadIsTrue
<1>4. RowOK(rows, "reviews", b, row) /\ row.made = r
  BY <1>2, <1>3, About DEF RowOK, ReviewRow, Stored
<1> HIDE DEF row
<1>5. RowsAreNew(writes) /\ Holds(writes, "reviews", b) /\ writes["reviews"][b] = row
  BY <1>4, OneAuditedRow DEF Inserted
<1> HIDE DEF writes
<1>6. \A t, id : Makes(r, t, id) => t = "reviews" /\ id = b
  BY <1>1 DEF Makes, Bundle, CreateAgent, CreateVersion, CreateBundle, ReviewBundle,
              ApproveBundle, Assess, Rehearse, SignIn
<1>7. QED
  BY <1>1, <1>4, <1>5, <1>6, InsertStep

LEMMA FindApprovalStep ==
  ASSUME IInv, NEW r \in Asked, FindApproval(r)
  PROVE  IInv'
<1> DEFINE b == Bundle(r)
<1>1. UNCHANGED <<ask, rows, now>> /\ ApproveBundle(r) /\ At(r, "locked")
  BY DEF FindApproval
<1>2. b = ask[r].bundle
  BY <1>1 DEF Bundle, CreateBundle, ApproveBundle
<1>3. CASE Fail(r, 404) \/ Fail(r, 403) \/ Fail(r, 409)
  BY <1>1, <1>3, FailStep
<1>4. CASE ~(Fail(r, 404) \/ Fail(r, 403) \/ Fail(r, 409))
  <2>1. /\ ReviewHolds(b) /\ ReviewOf(b).advance /\ ask[r].user = ReviewOf(b).by
        /\ \/ Go(r, "insert")
           \/ Stored("approvals", b) /\ Return(r, rows["approvals"][b].made)
    BY <1>4 DEF FindApproval, ApprovalOf
  <2>2. CASE Go(r, "insert")
    <3>1. ask' = ask /\ rows' = rows
      BY <1>1
    <3>2. tx[r].at \in 1..MaxNow
      BY <1>1, About DEF ReadIsTrue, At
    <3>3. tx'[r].pc = "insert" /\ tx'[r].at = tx[r].at
      BY <2>2, GoFields
    <3>4. ReadIsTrue(r)'
      BY <1>1, <2>1, <3>1, <3>2, <3>3
         DEF ReadIsTrue, At, Stored, Bundle, CreateBundle, ReviewBundle, ApproveBundle, Assess,
             ReviewHolds, ReviewOf, BundleOf
    <3>5. QED
      BY <1>1, <2>2, <3>4, GoStep
  <2>3. CASE Stored("approvals", b) /\ Return(r, rows["approvals"][b].made)
    <3>1. \A t, k : Makes(r, t, k) => t = "approvals" /\ k = b
      BY <1>1, <1>2 DEF Makes, CreateAgent, CreateVersion, CreateBundle, ReviewBundle, ApproveBundle,
                        Assess, Rehearse, SignIn
    <3>2. QED
      BY <1>1, <2>3, <3>1, ReturnStep DEF MadeBy
  <2>4. QED
    BY <2>1, <2>2, <2>3
<1>5. QED
  BY <1>3, <1>4

LEMMA InsertApprovalStep ==
  ASSUME IInv, NEW r \in Asked, InsertApproval(r)
  PROVE  IInv'
<1> DEFINE b == Bundle(r)
           row == [documents |-> BundleOf(b).documents, key |-> ask[r].key,
                   request |-> ask[r].body, by |-> ask[r].user, made |-> r]
           writes == Over(Write("approvals", b, row), Audit(r, "paper_policy_approved", b))
<1>1. /\ Insert(r, writes, 500, "returned") /\ UNCHANGED <<ask, rows, now>> /\ ApproveBundle(r)
      /\ At(r, "insert")
  BY DEF InsertApproval, ServerError
<1>2. ask[r].user \in Users
  BY <1>1, AskersAreUsers DEF ApproveBundle
<1>3. ReviewHolds(b) /\ ReviewOf(b).advance /\ ask[r].user = ReviewOf(b).by
  BY <1>1, About DEF ReadIsTrue
<1>4. RowOK(rows, "approvals", b, row) /\ row.made = r
  BY <1>2, <1>3, About DEF RowOK, ApprovalRow, Stored, ReviewHolds
<1>5. Vouched(rows, b, row)
  BY <1>3 DEF Vouched, ReviewHolds, ReviewOf, BundleOf, Stored
<1> HIDE DEF row
<1>6. RowsAreNew(writes) /\ Holds(writes, "approvals", b) /\ writes["approvals"][b] = row
  BY <1>4, <1>5, OneAuditedRow DEF Inserted
<1> HIDE DEF writes
<1>7. \A t, id : Makes(r, t, id) => t = "approvals" /\ id = b
  BY <1>1 DEF Makes, Bundle, CreateAgent, CreateVersion, CreateBundle, ReviewBundle,
              ApproveBundle, Assess, Rehearse, SignIn
<1>8. QED
  BY <1>1, <1>4, <1>6, <1>7, InsertStep

LEMMA FindAssessmentStep ==
  ASSUME IInv, NEW r \in Asked, FindAssessment(r)
  PROVE  IInv'
<1> DEFINE k == ask[r].key
<1>1. UNCHANGED <<ask, rows, now>> /\ Assess(r) /\ At(r, "locked")
  BY DEF FindAssessment
<1>2. CASE Fail(r, 404) \/ Fail(r, 409)
  BY <1>1, <1>2, FailStep
<1>3. CASE ~(Fail(r, 404) \/ Fail(r, 409))
  <2>1. \/ Stored("versions", ask[r].version) /\ Go(r, "bind")
        \/ Stored("assessments", k) /\ Return(r, rows["assessments"][k].made)
    BY <1>3 DEF FindAssessment
  <2>2. CASE Stored("versions", ask[r].version) /\ Go(r, "bind")
    <3>1. ask' = ask /\ rows' = rows
      BY <1>1
    <3>2. tx[r].at \in 1..MaxNow
      BY <1>1, About DEF ReadIsTrue, At
    <3>3. tx'[r].pc = "bind" /\ tx'[r].at = tx[r].at
      BY <2>2, GoFields
    <3>4. ReadIsTrue(r)'
      BY <1>1, <2>2, <3>1, <3>2, <3>3 DEF ReadIsTrue, At, Stored, Assess
    <3>5. QED
      BY <1>1, <2>2, <3>4, GoStep
  <2>3. CASE Stored("assessments", k) /\ Return(r, rows["assessments"][k].made)
    <3>1. \A t, id : Makes(r, t, id) => t = "assessments" /\ id = k
      BY <1>1 DEF Makes, CreateAgent, CreateVersion, CreateBundle, ReviewBundle, ApproveBundle,
                  Assess, Rehearse, SignIn
    <3>2. QED
      BY <1>1, <2>3, <3>1, ReturnStep DEF MadeBy
  <2>4. QED
    BY <2>1, <2>2, <2>3
<1>4. QED
  BY <1>2, <1>3

LEMMA BindPolicyAndRunStep ==
  ASSUME IInv, NEW r \in Asked, BindPolicyAndRun(r)
  PROVE  IInv'
<1>1. /\ UNCHANGED <<ask, rows, now>> /\ Assess(r) /\ tx[r].at \in 1..MaxNow
      /\ Stored("versions", ask[r].version)
  BY About DEF BindPolicyAndRun, ReadIsTrue, At
<1>2. CASE Fail(r, 404) \/ Fail(r, 409)
  BY <1>1, <1>2, FailStep
<1>3. CASE ~(Fail(r, 404) \/ Fail(r, 409))
  <2>1. /\ ApprovalHolds(Bundle(r)) /\ Stored("runs", ask[r].run)
        /\ tx' = [tx EXCEPT ![r].pc = "insert", ![r].note = <<Run(r).status>>]
    BY <1>3 DEF BindPolicyAndRun
  <2>2. /\ OnlyTx(r) /\ tx'[r].writes = tx[r].writes /\ tx'[r].locks = tx[r].locks
        /\ tx'[r].pc = "insert" /\ tx'[r].at = tx[r].at
    BY <1>1, <2>1, About DEF OnlyTx, TxFields
  <2>3. ask' = ask /\ rows' = rows
    BY <1>1
  <2>4. ReadIsTrue(r)'
    BY <1>1, <2>1, <2>2, <2>3
       DEF ReadIsTrue, At, Stored, Bundle, Assess, CreateBundle, ReviewBundle, ApproveBundle,
           ApprovalHolds, ReviewHolds, ReviewOf, BundleOf, ApprovalOf
  <2>5. QED
    BY <2>2, <2>4, About, GoesOn
<1>4. QED
  BY <1>2, <1>3

LEMMA RecordEventStep ==
  ASSUME IInv, NEW r \in Asked, RecordEvent(r)
  PROVE  IInv'
<1> DEFINE e == ask[r].event
           writes == Write("events", EventKey(e), e)
<1>1. /\ Insert(r, writes, 409, "returned") /\ UNCHANGED <<ask, rows, now>>
      /\ ask[r].op = "record event" /\ WellFormed(e)
  BY DEF RecordEvent
<1>2. e.from \in Int
  BY <1>1 DEF IInv, ContextIsSound, AskOK
<1>3. RowOK(rows, "events", EventKey(e), e)
  BY <1>1, <1>2 DEF RowOK, EventRow
<1>4. RowsAreNew(writes)
  BY <1>3, OneRow DEF Inserted
<1> HIDE DEF writes, e
<1>5. \A t, id : ~Makes(r, t, id)
  BY <1>1 DEF Makes, CreateAgent, CreateVersion, CreateBundle, ReviewBundle,
              ApproveBundle, Assess, Rehearse, SignIn
<1>6. Insert(r, writes, 409, "returned") /\ UNCHANGED <<ask, rows, now>>
  BY <1>1
<1>7. QED
  BY <1>4, <1>5, <1>6, InsertStep

-------------------------------------------------------------------------------
(* What an evaluation that passes has found *)

LEMMA FirstOfSix ==
  ASSUME NEW S \in SUBSET (1..6), S # {}
  PROVE  First(S) \in S
<1>1. \E i \in S : \A j \in S : i <= j
  <2>1. S \subseteq {1, 2, 3, 4, 5, 6}
    OBVIOUS
  <2>2. CASE 1 \in S
    BY <2>1, <2>2
  <2>3. CASE 1 \notin S /\ 2 \in S
    BY <2>1, <2>3
  <2>4. CASE 1 \notin S /\ 2 \notin S /\ 3 \in S
    BY <2>1, <2>4
  <2>5. CASE 1 \notin S /\ 2 \notin S /\ 3 \notin S /\ 4 \in S
    BY <2>1, <2>5
  <2>6. CASE 1 \notin S /\ 2 \notin S /\ 3 \notin S /\ 4 \notin S /\ 5 \in S
    BY <2>1, <2>6
  <2>7. CASE 1 \notin S /\ 2 \notin S /\ 3 \notin S /\ 4 \notin S /\ 5 \notin S
    <3>1. S = {6}
      BY <2>1, <2>7
    <3>2. QED
      BY <3>1
  <2>8. QED
    BY <2>2, <2>3, <2>4, <2>5, <2>6, <2>7
<1>2. QED
  BY <1>1 DEF First

(* A licence is verified only when a grant for everyone and one for the workspace were in force at
   both times.                                                                                     *)
LEMMA VerifiedMeansGranted ==
  ASSUME NEW events, NEW workspace, NEW license, NEW packs, NEW then, NEW moment,
         Verdict(events, workspace, license, packs, then, moment) = Verified,
         NEW tenant \in {Everyone, workspace}, NEW at \in {then, moment}
  PROVE  Effective(events, tenant, license, at) # {}
<1> DEFINE platformThen == Effective(events, Everyone, license, then)
           platformNow == Effective(events, Everyone, license, moment)
           tenantThen == Effective(events, workspace, license, then)
           tenantNow == Effective(events, workspace, license, moment)
           covered == Packs(platformThen) \cap Packs(platformNow)
                        \cap Packs(tenantThen) \cap Packs(tenantNow)
           tests ==
             << <<"provider_license_not_effective_for_evidence", platformThen # {}>>,
                <<"provider_license_inactive", platformNow # {}>>,
                <<"provider_rights_insufficient",
                  \A e \in platformThen \cup platformNow : RequiredRights \subseteq e.rights>>,
                <<"workspace_entitlement_not_effective_for_evidence", tenantThen # {}>>,
                <<"workspace_entitlement_inactive", tenantNow # {}>>,
                <<"data_pack_not_entitled", packs \subseteq covered>> >>
           failed == {i \in DOMAIN tests : ~tests[i][2]}
<1>1. Verdict(events, workspace, license, packs, then, moment)
        = IF failed = {} THEN Verified ELSE tests[First(failed)][1]
  BY DEF Verdict
<1>2. DOMAIN tests = 1..6
  OBVIOUS
<1>3. \A i \in 1..6 : tests[i][1] # Verified
  <2>1. ASSUME NEW i \in 1..6
        PROVE  tests[i][1] # Verified
    <3>1. i = 1 \/ i = 2 \/ i = 3 \/ i = 4 \/ i = 5 \/ i = 6
      OBVIOUS
    <3>2. QED
      BY <3>1 DEF Verified
  <2>2. QED
    BY <2>1
<1>4. /\ tests[1][2] <=> platformThen # {}
      /\ tests[2][2] <=> platformNow # {}
      /\ tests[4][2] <=> tenantThen # {}
      /\ tests[5][2] <=> tenantNow # {}
  OBVIOUS
<1> HIDE DEF tests, platformThen, platformNow, tenantThen, tenantNow
<1>5. failed = {}
  <2>1. failed \in SUBSET (1..6)
    BY <1>2
  <2> HIDE DEF failed
  <2>2. QED
    BY <1>1, <1>3, <2>1, FirstOfSix
<1>6. platformThen # {} /\ platformNow # {} /\ tenantThen # {} /\ tenantNow # {}
  <2>1. \A i \in 1..6 : tests[i][2]
    BY <1>2, <1>5
  <2>2. tests[1][2] /\ tests[2][2] /\ tests[4][2] /\ tests[5][2]
    BY <2>1
  <2>3. QED
    BY <1>4, <2>2
<1>7. QED
  BY <1>6 DEF platformThen, platformNow, tenantThen, tenantNow

LEMMA EvaluatePasses ==
  ASSUME NEW events, NEW workspace, NEW licenses, NEW packs, NEW then, NEW moment,
         Evaluate(events, workspace, licenses, packs, then, moment).passed,
         NEW i \in DOMAIN licenses, NEW tenant \in {Everyone, workspace}, NEW at \in {then, moment}
  PROVE  \E e \in Effective(events, tenant, licenses[i], at) :
           EventKey(e) \in Evaluate(events, workspace, licenses, packs, then, moment).refs
<1> DEFINE verdict == [k \in DOMAIN licenses |->
                         Verdict(events, workspace, licenses[k], packs, then, moment)]
           refused == {k \in DOMAIN licenses : verdict[k] # Verified}
           refs == UNION {{EventKey(e) : e \in Grounds(events, workspace, licenses[k], then, moment)} :
                             k \in DOMAIN licenses}
           result == Evaluate(events, workspace, licenses, packs, then, moment)
<1>1. result = IF licenses = <<>> THEN Refused("provider_evidence_missing")
               ELSE IF refused # {} THEN Refused(verdict[First(refused)])
               ELSE [passed |-> TRUE, reason |-> Verified, refs |-> refs]
  BY DEF Evaluate
<1>2. \A reason : Refused(reason).passed = FALSE
  BY DEF Refused
<1> HIDE DEF refs
<1>3. refused = {} /\ result.refs = refs
  <2> HIDE DEF refused, verdict
  <2>1. QED
    BY <1>1, <1>2
<1>4. Verdict(events, workspace, licenses[i], packs, then, moment) = Verified
  BY <1>3
<1>5. Effective(events, tenant, licenses[i], at) # {}
  BY <1>4, VerifiedMeansGranted
<1>6. PICK e : e \in Effective(events, tenant, licenses[i], at)
  BY <1>5
<1>7. e \in Grounds(events, workspace, licenses[i], then, moment)
  BY <1>6 DEF Grounds
<1>8. EventKey(e) \in refs
  BY <1>7 DEF refs
<1>9. QED
  BY <1>3, <1>6, <1>8

LEMMA StoredEvents ==
  ASSUME IInv
  PROVE  \A k \in DOMAIN rows["events"] :
           k = EventKey(rows["events"][k]) /\ rows["events"][k].from \in Int
  BY DEF IInv, StoreIsSound, RowsOK, RowOK, EventRow, Tables, AppendOnlyTables

LEMMA StoredRuns ==
  ASSUME IInv, NEW k, Stored("runs", k)
  PROVE  RunRow(rows["runs"][k])
  BY DEF IInv, StoreIsSound, RowsOK, RowOK, Tables, Stored

(* The events an entitlement refers to are stored. *)
LEMMA RefsAreStored ==
  ASSUME IInv, NEW r
  PROVE  Entitlement(r).refs \subseteq DOMAIN rows["events"]
<1>1. \A e \in Events : EventKey(e) \in DOMAIN rows["events"]
  BY StoredEvents DEF Events
<1>2. \A tenant, license, at : Effective(Events, tenant, license, at) \subseteq Events
  BY DEF Effective, Candidates
<1>3. \A reason : Refused(reason).refs = {}
  BY DEF Refused
<1>4. ASSUME NEW events, NEW workspace, NEW licenses, NEW packs, NEW then, NEW moment,
             events = Events
      PROVE  Evaluate(events, workspace, licenses, packs, then, moment).refs \subseteq DOMAIN rows["events"]
  <2> DEFINE refs == UNION {{EventKey(e) : e \in Grounds(events, workspace, licenses[i], then, moment)} :
                               i \in DOMAIN licenses}
             result == Evaluate(events, workspace, licenses, packs, then, moment)
  <2>1. \A i : Grounds(events, workspace, licenses[i], then, moment) \subseteq Events
    BY <1>2, <1>4 DEF Grounds
  <2>2. refs \subseteq DOMAIN rows["events"]
    BY <1>1, <2>1
  <2>3. \/ \E reason : result = Refused(reason)
        \/ result = [passed |-> TRUE, reason |-> Verified, refs |-> refs]
    BY DEF Evaluate
  <2> HIDE DEF refs, result
  <2>4. result.refs \subseteq DOMAIN rows["events"]
    BY <1>3, <2>2, <2>3
  <2>5. QED
    BY <2>4 DEF result
<1>5. \/ Entitlement(r) = Refused("provider_scope_not_eligible")
      \/ Entitlement(r) = Evaluate(Events, Workspace, Run(r).licenses, VersionOf(r).spec.packs,
                                   Run(r).asOf, tx[r].at)
  BY DEF Entitlement
<1>6. QED
  BY <1>3, <1>4, <1>5

(* An event that assessment a names grants the licence to the tenant at that time, and none it
   knows of revokes it since.                                                                  *)
Supports(rs, a, license, tenant, at) ==
  \E e \in a.refs :
    LET grant == rs["events"][e]
    IN /\ grant.action = "grant" /\ e[1] = tenant /\ e[2] = license
       /\ grant.from <= at /\ at < grant.until
       /\ ~\E o \in a.known : /\ o[1] = tenant /\ o[2] = license
                              /\ grant.from < o[3] /\ o[3] <= at
                              /\ rs["events"][o].action = "revoke"

LEMMA EarnedIs ==
  ASSUME NEW rs, NEW a, NEW run, run = rs["runs"][a.run]
  PROVE  Earned(rs, a) <=>
           /\ run.notes \cap Rehearsed # {} => ~a.gates.evidence /\ ~a.gates.entitlement
           /\ a.gates.entitlement =>
                \A i \in DOMAIN run.licenses, tenant \in {Everyone, Workspace},
                   at \in {run.asOf, a.at} : Supports(rs, a, run.licenses[i], tenant, at)
  BY DEF Earned, Supports

(* What an assessment claims when it is made. *)
LEMMA AssessmentIsEarned ==
  ASSUME IInv, NEW r, Stored("runs", ask[r].run), NEW row,
         row.run = ask[r].run, row.gates = Gates(r), row.refs = Entitlement(r).refs,
         row.at = tx[r].at, row.known = DOMAIN rows["events"]
  PROVE  Earned(rows, row)
<1> DEFINE run == Run(r)
<1>1. run = rows["runs"][row.run] /\ RunRow(run)
  BY StoredRuns DEF Run
<1>2. ASSUME run.notes \cap Rehearsed # {}
      PROVE  ~row.gates.evidence /\ ~row.gates.entitlement
  <2>1. PICK i \in DOMAIN run.licenses : run.licenses[i] \in Ineligible
    BY <1>1, <1>2 DEF RunRow
  <2>2. run.licenses # <<>>
    BY <2>1
  <2>3. Entitlement(r) = Refused("provider_scope_not_eligible")
    BY <2>1, <2>2 DEF Entitlement
  <2>4. Gates(r).evidence = (run.notes \cap Rehearsed = {} /\ run.licenses # <<>>)
    BY DEF Gates
  <2>5. Gates(r).entitlement = FALSE
    BY <2>3 DEF Gates, Refused
  <2>6. QED
    BY <1>2, <2>4, <2>5
<1>3. ASSUME row.gates.entitlement, NEW i \in DOMAIN run.licenses, NEW tenant \in {Everyone, Workspace},
             NEW at \in {run.asOf, row.at}
      PROVE  Supports(rows, row, run.licenses[i], tenant, at)
  <2> DEFINE result == Evaluate(Events, Workspace, run.licenses, VersionOf(r).spec.packs, run.asOf, tx[r].at)
  <2>1. Entitlement(r).passed
    BY <1>3 DEF Gates
  <2>2. Entitlement(r) = result
    BY <2>1 DEF Entitlement, Refused
  <2> HIDE DEF run
  <2>3. PICK grant \in Effective(Events, tenant, run.licenses[i], at) : EventKey(grant) \in result.refs
    BY <1>3, <2>1, <2>2, EvaluatePasses
  <2> HIDE DEF result
  <2>4. PICK e \in DOMAIN rows["events"] : grant = rows["events"][e]
    BY <2>3 DEF Effective, Candidates, Events
  <2>5. e = <<grant.tenant, grant.license, grant.from>> /\ grant.from \in Int
    BY <2>4, StoredEvents DEF EventKey
  <2>6. e \in row.refs
    BY <2>2, <2>3, <2>5 DEF EventKey
  <2>7. /\ grant.action = "grant" /\ grant.tenant = tenant /\ grant.license = run.licenses[i]
        /\ grant.from <= at /\ at < grant.until
        /\ \A other \in Candidates(Events, tenant, run.licenses[i], at) : other.from <= grant.from
    BY <2>3 DEF Effective, Candidates
  <2>8. ASSUME NEW o \in row.known, o[1] = tenant, o[2] = run.licenses[i], o[3] <= at
        PROVE  ~(grant.from < o[3])
    <3> DEFINE other == rows["events"][o]
    <3>1. other \in Events /\ o = <<other.tenant, other.license, other.from>> /\ other.from \in Int
      BY <2>8, StoredEvents DEF Events, EventKey
    <3>2. other.tenant = tenant /\ other.license = run.licenses[i] /\ other.from = o[3]
      BY <2>8, <3>1
    <3>3. other \in Candidates(Events, tenant, run.licenses[i], at)
      BY <2>8, <3>1, <3>2 DEF Candidates
    <3>4. other.from <= grant.from
      BY <2>7, <3>3
    <3> HIDE DEF other
    <3>5. QED
      BY <2>5, <3>1, <3>2, <3>4
  <2>9. e[1] = tenant /\ e[2] = run.licenses[i]
    BY <2>5, <2>7
  <2>10. QED
    BY <2>4, <2>6, <2>7, <2>8, <2>9 DEF Supports
<1> HIDE DEF run
<1>4. \A i \in DOMAIN run.licenses, tenant \in {Everyone, Workspace}, at \in {run.asOf, row.at} :
        row.gates.entitlement => Supports(rows, row, run.licenses[i], tenant, at)
  BY <1>3
<1>5. QED
  BY <1>1, <1>2, <1>4, EarnedIs

LEMMA InsertAssessmentStep ==
  ASSUME IInv, NEW r \in Asked, InsertAssessment(r)
  PROVE  IInv'
<1> DEFINE k == ask[r].key
           row == [key |-> k, request |-> ask[r].body, by |-> ask[r].user, made |-> r,
                   version |-> ask[r].version, bundle |-> Bundle(r), run |-> ask[r].run,
                   gates |-> Gates(r), refs |-> Entitlement(r).refs, at |-> tx[r].at,
                   known |-> DOMAIN rows["events"]]
           writes == Over(Write("assessments", k, row),
                          Audit(r, "paper_activation_assessed", ask[r].version))
<1>1. /\ Insert(r, writes, 500, "returned") /\ UNCHANGED <<ask, rows, now>> /\ Assess(r)
      /\ At(r, "insert")
  BY DEF InsertAssessment, ServerError
<1>2. /\ Stored("versions", ask[r].version) /\ ApprovalHolds(Bundle(r)) /\ Stored("runs", ask[r].run)
      /\ tx[r].at \in 1..MaxNow
  BY <1>1, About DEF ReadIsTrue, At
<1>3. /\ row.version = ask[r].version /\ row.bundle = Bundle(r) /\ row.run = ask[r].run
      /\ row.gates = Gates(r) /\ row.refs = Entitlement(r).refs /\ row.at = tx[r].at
      /\ row.known = DOMAIN rows["events"] /\ row.made = r
  OBVIOUS
<1> HIDE DEF row
<1>4. RowOK(rows, "assessments", k, row)
  BY <1>2, <1>3, RefsAreStored DEF RowOK, AssessmentRow, ApprovalHolds, Stored
<1>5. Earned(rows, row)
  BY <1>2, <1>3, AssessmentIsEarned
<1>6. RowsAreNew(writes) /\ Holds(writes, "assessments", k) /\ writes["assessments"][k] = row
  BY <1>4, <1>5, OneAuditedRow DEF Inserted
<1> HIDE DEF writes
<1>7. \A t, id : Makes(r, t, id) => t = "assessments" /\ id = k
  BY <1>1 DEF Makes, CreateAgent, CreateVersion, CreateBundle, ReviewBundle,
              ApproveBundle, Assess, Rehearse, SignIn
<1>8. Insert(r, writes, 500, "returned") /\ UNCHANGED <<ask, rows, now>>
  BY <1>1
<1>9. QED
  BY <1>3, <1>6, <1>7, <1>8, InsertStep

-------------------------------------------------------------------------------
(* Steps that change the store *)

(* rs2 has the rows of rs, of which what others refer to is as it was. *)
Grows(rs, rs2) ==
  /\ DOMAIN rs = Tables /\ DOMAIN rs2 = Tables
  /\ \A t \in Tables : DOMAIN rs[t] \subseteq DOMAIN rs2[t]
  /\ \A t \in Inserted : \A id \in DOMAIN rs[t] : rs2[t][id] = rs[t][id]
  /\ \A id \in DOMAIN rs["users"] : rs2["users"][id].made = rs["users"][id].made
  /\ \A id \in DOMAIN rs["runs"] : /\ rs2["runs"][id].made = rs["runs"][id].made
                                   /\ rs2["runs"][id].notes = rs["runs"][id].notes
                                   /\ rs2["runs"][id].licenses = rs["runs"][id].licenses
                                   /\ rs2["runs"][id].asOf = rs["runs"][id].asOf

LEMMA RowOKGrows ==
  ASSUME NEW rs, NEW rs2, Grows(rs, rs2), NEW t, NEW id, NEW row, RowOK(rs, t, id, row)
  PROVE  RowOK(rs2, t, id, row)
  BY DEF Grows, Tables, AppendOnlyTables, RowOK, ReviewRow, ApprovalRow, AssessmentRow

LEMMA VouchedGrows ==
  ASSUME NEW rs, NEW rs2, Grows(rs, rs2), NEW b, NEW row, Vouched(rs, b, row)
  PROVE  Vouched(rs2, b, row)
  BY DEF Grows, Tables, AppendOnlyTables, Inserted, Vouched

LEMMA EarnedGrows ==
  ASSUME NEW rs, NEW rs2, Grows(rs, rs2), NEW row, AssessmentRow(rs, row), Earned(rs, row)
  PROVE  Earned(rs2, row)
<1>1. /\ rs2["runs"][row.run].notes = rs["runs"][row.run].notes
      /\ rs2["runs"][row.run].licenses = rs["runs"][row.run].licenses
      /\ rs2["runs"][row.run].asOf = rs["runs"][row.run].asOf
  BY DEF Grows, AssessmentRow
<1>2. \A e \in row.refs \cup row.known : rs2["events"][e] = rs["events"][e]
  BY DEF Grows, AssessmentRow, Inserted
<1>3. ASSUME NEW license, NEW tenant, NEW at, Supports(rs, row, license, tenant, at)
      PROVE  Supports(rs2, row, license, tenant, at)
  <2>1. PICK e \in row.refs :
          /\ rs["events"][e].action = "grant" /\ e[1] = tenant /\ e[2] = license
          /\ rs["events"][e].from <= at /\ at < rs["events"][e].until
          /\ ~\E o \in row.known : /\ o[1] = tenant /\ o[2] = license
                                   /\ rs["events"][e].from < o[3] /\ o[3] <= at
                                   /\ rs["events"][o].action = "revoke"
    BY <1>3 DEF Supports
  <2>2. /\ rs2["events"][e] = rs["events"][e]
        /\ \A o \in row.known : rs2["events"][o] = rs["events"][o]
    BY <1>2
  <2>3. QED
    BY <2>1, <2>2 DEF Supports
<1>4. PICK run, run2 : run = rs["runs"][row.run] /\ run2 = rs2["runs"][row.run]
  OBVIOUS
<1>5. run2.notes = run.notes /\ run2.licenses = run.licenses /\ run2.asOf = run.asOf
  BY <1>1, <1>4
<1>6. /\ run.notes \cap Rehearsed # {} => ~row.gates.evidence /\ ~row.gates.entitlement
      /\ row.gates.entitlement =>
           \A i \in DOMAIN run.licenses, tenant \in {Everyone, Workspace},
              at \in {run.asOf, row.at} : Supports(rs, row, run.licenses[i], tenant, at)
  BY <1>4, EarnedIs
<1>7. row.gates.entitlement =>
        \A i \in DOMAIN run2.licenses, tenant \in {Everyone, Workspace},
           at \in {run2.asOf, row.at} : Supports(rs2, row, run2.licenses[i], tenant, at)
  BY <1>3, <1>5, <1>6
<1>8. run2.notes \cap Rehearsed # {} => ~row.gates.evidence /\ ~row.gates.entitlement
  BY <1>5, <1>6
<1>9. QED
  BY <1>4, <1>7, <1>8, EarnedIs

LEMMA StoreGrows ==
  ASSUME IInv, Grows(rows, rows'),
         \A t \in Tables : \A id \in DOMAIN rows'[t] :
           \/ id \in DOMAIN rows[t] /\ rows'[t][id] = rows[t][id]
           \/ /\ RowOK(rows, t, id, rows'[t][id])
              /\ t = "approvals" => Vouched(rows, id, rows'[t][id])
              /\ t = "assessments" => Earned(rows, rows'[t][id]),
         HistoryIsWhole(rows')
  PROVE  StoreIsSound'
<1>1. /\ \A t \in Tables : \A id \in DOMAIN rows[t] : RowOK(rows, t, id, rows[t][id])
      /\ \A b \in DOMAIN rows["approvals"] : Vouched(rows, b, rows["approvals"][b])
      /\ \A k \in DOMAIN rows["assessments"] : Earned(rows, rows["assessments"][k])
  BY DEF IInv, StoreIsSound, RowsOK
<1>2. "approvals" \in Tables /\ "assessments" \in Tables
  BY DEF Tables, AppendOnlyTables
<1>3. \A t \in Tables : \A id \in DOMAIN rows'[t] : RowOK(rows, t, id, rows'[t][id])
  BY <1>1
<1>4. \A t \in Tables : \A id \in DOMAIN rows'[t] : RowOK(rows', t, id, rows'[t][id])
  BY <1>3, RowOKGrows
<1>5. \A b \in DOMAIN rows'["approvals"] : Vouched(rows', b, rows'["approvals"][b])
  <2>1. \A b \in DOMAIN rows'["approvals"] : Vouched(rows, b, rows'["approvals"][b])
    BY <1>1, <1>2
  <2>2. QED
    BY <2>1, VouchedGrows
<1>6. \A k \in DOMAIN rows'["assessments"] : Earned(rows', rows'["assessments"][k])
  <2>1. \A k \in DOMAIN rows'["assessments"] :
          Earned(rows, rows'["assessments"][k]) /\ AssessmentRow(rows, rows'["assessments"][k])
    BY <1>1, <1>2, <1>3 DEF RowOK
  <2>2. QED
    BY <2>1, EarnedGrows
<1>7. RowsOK(rows')
  BY <1>4 DEF RowsOK, Grows
<1>8. QED
  BY <1>5, <1>6, <1>7 DEF StoreIsSound

(* What q has locked is as it was. *)
Untouched(q) ==
  \A t \in Tables \ {"audit", "runs"} : \A id : <<t, id>> \in tx[q].locks =>
    /\ id \in DOMAIN rows'[t] <=> Stored(t, id)
    /\ Stored(t, id) => rows'[t][id] = rows[t][id]

LEMMA WritesGrow ==
  ASSUME IInv, NEW q \in Asked, tx'[q].writes = tx[q].writes, tx'[q].locks = tx[q].locks,
         Grows(rows, rows'), Untouched(q)
  PROVE  WritesOK(tx[q].writes, tx[q].locks)'
<1> DEFINE writes == tx[q].writes
           locks == tx[q].locks
<1>1. WritesOK(writes, locks)
  BY About
<1>2. ASSUME NEW t, NEW id, Holds(writes, t, id), NEW row, row = writes[t][id]
      PROVE  /\ t # "audit" => <<t, id>> \in locks
             /\ t \in Inserted => id \notin DOMAIN rows'[t]
             /\ RowOK(rows', t, id, row)
             /\ t = "users" /\ id \in DOMAIN rows'[t] => row.made = rows'[t][id].made
             /\ t = "agents" =>
                  /\ id \in DOMAIN rows'["agents"] <=> Stored("agents", id)
                  /\ Stored("agents", id) => rows'["agents"][id] = rows["agents"][id]
                  /\ AgentWrite(id, row, writes)
             /\ t = "versions" => Holds(writes, "agents", id[1])
             /\ t = "approvals" => Vouched(rows', id, row)
             /\ t = "assessments" => Earned(rows', row)
  <2>1. WriteOK(t, id, row, writes, locks) /\ t \in Tables \ {"runs"}
    BY <1>1, <1>2 DEF WritesOK, Holds
  <2>2. t # "audit" => /\ id \in DOMAIN rows'[t] <=> Stored(t, id)
                       /\ Stored(t, id) => rows'[t][id] = rows[t][id]
    BY <2>1 DEF WriteOK, Untouched
  <2>3. RowOK(rows', t, id, row) /\ (t = "approvals" => Vouched(rows', id, row))
    BY <2>1, RowOKGrows, VouchedGrows DEF WriteOK
  <2>4. t = "assessments" => Earned(rows', row)
    BY <2>1, EarnedGrows DEF WriteOK, RowOK
  <2>5. "audit" \notin Inserted
    BY DEF Inserted
  <2>6. QED
    BY <2>1, <2>2, <2>3, <2>4, <2>5 DEF WriteOK
<1>3. ASSUME NEW t, NEW id, Holds(writes, t, id)
      PROVE  WriteOK(t, id, writes[t][id], writes, locks)'
  <2>1. PICK row : row = writes[t][id]
    OBVIOUS
  <2>2. t = "agents" => (AgentWrite(id, row, writes))'
    <3>1. SUFFICES ASSUME t = "agents"
                   PROVE  (AgentWrite(id, row, writes))'
      OBVIOUS
    <3>2. /\ id \in DOMAIN rows'["agents"] <=> id \in DOMAIN rows["agents"]
          /\ id \in DOMAIN rows["agents"] => rows'["agents"][id] = rows["agents"][id]
          /\ AgentWrite(id, row, writes)
      BY <1>2, <1>3, <2>1, <3>1 DEF Stored
    <3>3. Latest(id)' = Latest(id)
      BY <3>2 DEF Latest, Stored
    <3>4. writes' = writes
      OBVIOUS
    <3>5. QED
      BY <3>2, <3>3, <3>4 DEF AgentWrite, Stored
  <2>3. QED
    BY <1>2, <1>3, <2>1, <2>2 DEF WriteOK, Stored
<1>4. QED
  BY <1>1, <1>3 DEF WritesOK

LEMMA SoundGrows ==
  ASSUME IInv, NEW q \in Asked, ask' = ask, tx'[q] = tx[q], Grows(rows, rows'), Untouched(q)
  PROVE  Sound(q)'
<1>1. Sound(q)
  BY DEF IInv, TransactionsAreSound
<1>2. WritesOK(tx[q].writes, tx[q].locks)'
  BY WritesGrow
<1>3. \A t \in Inserted : \A id : Stored(t, id) => id \in DOMAIN rows'[t] /\ rows'[t][id] = rows[t][id]
  BY DEF Grows, Stored, Inserted, Tables, AppendOnlyTables
<1>4. ReadIsTrue(q)'
  <2>1. ReadIsTrue(q)
    BY <1>1 DEF Sound
  <2>2. At(q, "locked") /\ CreateVersion(q) =>
          /\ Name(q) \in DOMAIN rows'["agents"]
          /\ rows'["agents"][Name(q)] = rows["agents"][Name(q)]
    BY <2>1 DEF ReadIsTrue, AgentRow, Untouched, Tables
  <2>3. \A id : Stored("runs", id) =>
          id \in DOMAIN rows'["runs"] /\ rows'["runs"][id].made = rows["runs"][id].made
    BY DEF Grows, Stored, Tables
  <2>4. \A id :
          /\ Stored("bundles", id) =>
               id \in DOMAIN rows'["bundles"] /\ rows'["bundles"][id] = rows["bundles"][id]
          /\ Stored("reviews", id) =>
               id \in DOMAIN rows'["reviews"] /\ rows'["reviews"][id] = rows["reviews"][id]
          /\ Stored("approvals", id) =>
               id \in DOMAIN rows'["approvals"] /\ rows'["approvals"][id] = rows["approvals"][id]
          /\ Stored("versions", id) => id \in DOMAIN rows'["versions"]
    BY <1>3 DEF Inserted
  <2>5. (/\ At(q, "locked") /\ CreateVersion(q) =>
              /\ AgentRow(q) \in tx[q].locks
              /\ Stored("agents", Name(q)) /\ ~rows["agents"][Name(q)].archived
              /\ tx[q].note[1] = rows["agents"][Name(q)].current
         /\ At(q, "dispatch") =>
              Stored("runs", RunOf(q)) /\ rows["runs"][RunOf(q)].made = tx[q].note[1])'
    BY <2>1, <2>2, <2>3 DEF ReadIsTrue, At, Stored, CreateVersion, AgentRow, Name, RunOf
  <2>6. PICK b : b = Bundle(q)
    OBVIOUS
  <2>7. Bundle(q)' = b
    BY <2>6 DEF Bundle, CreateBundle
  <2>8. /\ Stored("bundles", b) =>
             b \in DOMAIN rows'["bundles"] /\ rows'["bundles"][b] = rows["bundles"][b]
        /\ Stored("reviews", b) =>
             b \in DOMAIN rows'["reviews"] /\ rows'["reviews"][b] = rows["reviews"][b]
        /\ Stored("approvals", b) =>
             b \in DOMAIN rows'["approvals"] /\ rows'["approvals"][b] = rows["approvals"][b]
        /\ Stored("versions", ask[q].version) => ask[q].version \in DOMAIN rows'["versions"]
        /\ Stored("runs", ask[q].run) => ask[q].run \in DOMAIN rows'["runs"]
    BY <2>3, <2>4
  <2>9. ReviewHolds(b) => /\ b \in DOMAIN rows'["bundles"] /\ rows'["bundles"][b] = rows["bundles"][b]
                          /\ b \in DOMAIN rows'["reviews"] /\ rows'["reviews"][b] = rows["reviews"][b]
                          /\ ReviewHolds(b)'
    BY <2>8 DEF ReviewHolds, ReviewOf, BundleOf, Stored
  <2>10. ApprovalHolds(b) => ApprovalHolds(b)'
    BY <2>8, <2>9 DEF ApprovalHolds, ApprovalOf, ReviewOf, BundleOf, Stored
  <2>11. (/\ At(q, "reviewed") => (CreateBundle(q) \/ ReadBundle(q)) /\ Stored("bundles", b)
          /\ At(q, "insert") /\ ReviewBundle(q) => Stored("bundles", b)
          /\ tx[q].pc \in {"bind", "insert"} /\ Assess(q) => Stored("versions", ask[q].version)
          /\ At(q, "insert") /\ Assess(q) => ApprovalHolds(b) /\ Stored("runs", ask[q].run))'
    BY <2>1, <2>6, <2>8, <2>10
       DEF ReadIsTrue, At, Stored, CreateBundle, ReadBundle, ReviewBundle, Assess
  <2>12. (At(q, "insert") /\ ApproveBundle(q) =>
            ReviewHolds(b) /\ ReviewOf(b).advance /\ ask[q].user = ReviewOf(b).by)'
    BY <2>1, <2>6, <2>9 DEF ReadIsTrue, At, ApproveBundle, ReviewOf
  <2>13. QED
    BY <2>1, <2>5, <2>7, <2>11, <2>12
       DEF ReadIsTrue, At, CreateVersion, CreateAgent, SignIn, Rehearse, Assess, Stored, ReviewHolds,
           ReviewOf, BundleOf, ApprovalHolds, ApprovalOf
<1>5. AnswerIsTrue(q)'
  <2>1. AnswerIsTrue(q)
    BY <1>1 DEF Sound
  <2>2. \A t, id : Makes(q, t, id)' <=> Makes(q, t, id)
    BY MakesKept
  <2>3. \A t, id : Makes(q, t, id) => t \in {"keys", "bundles", "reviews", "approvals", "assessments",
                                            "runs", "users"}
    BY DEF Makes
  <2>4. ASSUME NEW t, NEW id, NEW made, MadeBy(q, t, id, made),
               t \in {"keys", "bundles", "reviews", "approvals", "assessments", "runs", "users"}
        PROVE  MadeBy(q, t, id, made)'
    <3>1. Stored(t, id) => id \in DOMAIN rows'[t] /\ rows'[t][id].made = rows[t][id].made
      BY <1>3, <2>4 DEF Grows, Stored, Inserted, Tables
    <3>2. QED
      BY <2>4, <3>1 DEF MadeBy, Pending, Stored
  <2>5. QED
    BY <2>1, <2>2, <2>3, <2>4 DEF AnswerIsTrue
<1>6. QED
  BY <1>1, <1>2, <1>4, <1>5 DEF Sound

(* What the commit of c does to the rows. *)
LEMMA CommitRows ==
  ASSUME IInv, NEW c \in Asked, Commit(c)
  PROVE  /\ DOMAIN rows' = Tables
         /\ \A t \in Tables : \A id : id \in DOMAIN rows'[t] <=> Pending(c, t, id) \/ Stored(t, id)
         /\ \A t \in Tables : \A id : Pending(c, t, id) => rows'[t][id] = tx[c].writes[t][id]
         /\ \A t \in Tables : \A id : ~Pending(c, t, id) /\ Stored(t, id) => rows'[t][id] = rows[t][id]
<1>1. rows' = Applied(tx[c].writes)
  BY DEF Commit
<1>2. DOMAIN rows' = Tables
  BY <1>1 DEF Applied
<1>3. ASSUME NEW t \in Tables, NEW id
      PROVE  /\ id \in DOMAIN rows'[t] <=> Pending(c, t, id) \/ Stored(t, id)
             /\ Pending(c, t, id) => rows'[t][id] = tx[c].writes[t][id]
             /\ ~Pending(c, t, id) /\ Stored(t, id) => rows'[t][id] = rows[t][id]
  <2> DEFINE writes == tx[c].writes
  <2>1. /\ \A k : k \in DOMAIN Applied(writes)[t] <=> Holds(writes, t, k) \/ Stored(t, k)
        /\ \A k : Holds(writes, t, k) => Applied(writes)[t][k] = writes[t][k]
        /\ \A k : ~Holds(writes, t, k) /\ Stored(t, k) => Applied(writes)[t][k] = rows[t][k]
    BY AppliedIs
  <2>2. QED
    BY <1>1, <2>1 DEF Pending
<1>4. QED
  BY <1>2, <1>3

LEMMA CommitGrows ==
  ASSUME IInv, NEW c \in Asked, Commit(c)
  PROVE  Grows(rows, rows')
<1>1. DOMAIN rows = Tables
  BY DEF IInv, StoreIsSound, RowsOK
<1>2. \A t, id : Pending(c, t, id) => WriteOK(t, id, tx[c].writes[t][id], tx[c].writes, tx[c].locks)
  BY About DEF WritesOK, Pending
<1>3. Inserted \subseteq Tables /\ "users" \in Tables /\ "runs" \in Tables
  BY DEF Inserted, Tables, AppendOnlyTables
<1>4. \A t \in Inserted : \A id \in DOMAIN rows[t] : rows'[t][id] = rows[t][id]
  <2>1. \A t \in Inserted : \A id : Pending(c, t, id) => ~Stored(t, id)
    BY <1>2 DEF WriteOK
  <2>2. ASSUME NEW t \in Inserted, NEW id \in DOMAIN rows[t]
        PROVE  rows'[t][id] = rows[t][id]
    <3>1. Stored(t, id) /\ t \in Tables
      BY <1>3 DEF Stored
    <3>2. ~Pending(c, t, id)
      BY <2>1, <3>1
    <3>3. QED
      BY <3>1, <3>2, CommitRows
  <2>3. QED
    BY <2>2
<1>5. \A id \in DOMAIN rows["users"] : rows'["users"][id].made = rows["users"][id].made
  <2>1. ASSUME NEW id \in DOMAIN rows["users"]
        PROVE  rows'["users"][id].made = rows["users"][id].made
    <3>1. Stored("users", id)
      BY DEF Stored
    <3>2. CASE Pending(c, "users", id)
      <4>1. tx[c].writes["users"][id].made = rows["users"][id].made
        BY <1>2, <3>1, <3>2 DEF WriteOK
      <4>2. QED
        BY <1>3, <3>2, <4>1, CommitRows
    <3>3. CASE ~Pending(c, "users", id)
      BY <1>3, <3>1, <3>3, CommitRows
    <3>4. QED
      BY <3>2, <3>3
  <2>2. QED
    BY <2>1
<1>6. \A id : ~Pending(c, "runs", id)
  BY About DEF WritesOK, Pending, Holds
<1>7. \A id \in DOMAIN rows["runs"] : rows'["runs"][id] = rows["runs"][id]
  BY <1>3, <1>6, CommitRows DEF Stored
<1>8. \A t \in Tables : DOMAIN rows[t] \subseteq DOMAIN rows'[t]
  BY CommitRows DEF Stored
<1>9. QED
  BY <1>1, <1>4, <1>5, <1>7, <1>8, CommitRows DEF Grows

(* Histories stay whole: an agent that c has written gets the next version, or none; the versions
   that c has written are of agents it has written.                                                *)
LEMMA CommitHistory ==
  ASSUME IInv, NEW c \in Asked, Commit(c)
  PROVE  HistoryIsWhole(rows')
<1> DEFINE writes == tx[c].writes
           Of(rs, a) == {id[2] : id \in {v \in DOMAIN rs["versions"] : v[1] = a}}
<1>1. /\ \A id \in DOMAIN rows["versions"] : id[1] \in DOMAIN rows["agents"]
      /\ \A a \in DOMAIN rows["agents"] : Of(rows, a) = 1..rows["agents"][a].current
  BY DEF IInv, StoreIsSound, RowsOK, HistoryIsWhole
<1>2. "versions" \in Tables /\ "agents" \in Tables
  BY DEF Tables, AppendOnlyTables
<1>3. /\ \A id : id \in DOMAIN rows'["versions"] <=> Holds(writes, "versions", id) \/ id \in DOMAIN rows["versions"]
      /\ \A a : a \in DOMAIN rows'["agents"] <=> Holds(writes, "agents", a) \/ a \in DOMAIN rows["agents"]
      /\ \A a : Holds(writes, "agents", a) => rows'["agents"][a] = writes["agents"][a]
      /\ \A a \in DOMAIN rows["agents"] : ~Holds(writes, "agents", a) =>
           rows'["agents"][a] = rows["agents"][a]
  BY <1>2, CommitRows DEF Pending, Stored
<1>4. /\ \A id : Holds(writes, "versions", id) => Holds(writes, "agents", id[1])
      /\ \A a : Holds(writes, "agents", a) => AgentWrite(a, writes["agents"][a], writes)
  BY About DEF WritesOK, WriteOK
<1>5. \A id \in DOMAIN rows'["versions"] : id[1] \in DOMAIN rows'["agents"]
  BY <1>1, <1>3, <1>4
<1>6. ASSUME NEW a \in DOMAIN rows'["agents"]
      PROVE  Of(rows', a) = 1..rows'["agents"][a].current
  <2>1. CASE ~Holds(writes, "agents", a)
    <3>1. \A v : v[1] = a => (v \in DOMAIN rows'["versions"] <=> v \in DOMAIN rows["versions"])
      BY <1>3, <1>4, <2>1
    <3>2. Of(rows', a) = Of(rows, a)
      BY <3>1
    <3>3. a \in DOMAIN rows["agents"] /\ rows'["agents"][a] = rows["agents"][a]
      BY <1>3, <1>6, <2>1
    <3>4. QED
      BY <1>1, <3>2, <3>3
  <2>2. CASE Holds(writes, "agents", a)
    <3> DEFINE row == writes["agents"][a]
    <3>1. rows'["agents"][a] = row /\ AgentWrite(a, row, writes)
      BY <1>3, <1>4, <2>2
    <3>2. Of(rows, a) = 1..Latest(a) /\ Latest(a) \in Nat
      <4>1. CASE Stored("agents", a)
        BY <1>1, <4>1, TheAgentIsStored DEF Latest, Stored
      <4>2. CASE ~Stored("agents", a)
        <5>1. \A v \in DOMAIN rows["versions"] : v[1] # a
          BY <1>1, <4>2 DEF Stored
        <5>2. Of(rows, a) = {}
          BY <5>1
        <5>3. QED
          BY <4>2, <5>2 DEF Latest
      <4>3. QED
        BY <4>1, <4>2
    <3> HIDE DEF row
    <3>3. CASE row.current = Latest(a) /\ \A v : Holds(writes, "versions", v) => v[1] # a
      <4>1. \A v : v[1] = a => (v \in DOMAIN rows'["versions"] <=> v \in DOMAIN rows["versions"])
        BY <1>3, <3>3
      <4>2. Of(rows', a) = Of(rows, a)
        BY <4>1
      <4>3. QED
        BY <3>1, <3>2, <3>3, <4>2
    <3>4. CASE /\ row.current = Latest(a) + 1
               /\ \A v : Holds(writes, "versions", v) /\ v[1] = a <=> v = <<a, row.current>>
      <4> DEFINE new == <<a, row.current>>
      <4>1. new[1] = a /\ new[2] = row.current
        OBVIOUS
      <4> HIDE DEF new
      <4>2. \A v : v \in DOMAIN rows'["versions"] /\ v[1] = a
                     <=> (v \in DOMAIN rows["versions"] /\ v[1] = a) \/ v = new
        BY <1>3, <3>4, <4>1 DEF new
      <4>3. Of(rows', a) = Of(rows, a) \cup {new[2]}
        BY <4>2
      <4>4. (1..Latest(a)) \cup {Latest(a) + 1} = 1..(Latest(a) + 1)
        BY <3>2
      <4>5. QED
        BY <3>1, <3>2, <3>4, <4>1, <4>3, <4>4
    <3>5. QED
      BY <3>1, <3>3, <3>4 DEF AgentWrite
  <2>3. QED
    BY <2>1, <2>2
<1>7. QED
  BY <1>5, <1>6 DEF HistoryIsWhole

LEMMA CommitStep ==
  ASSUME IInv, NEW c \in Asked, Commit(c)
  PROVE  IInv'
<1>1. /\ At(c, "returned") /\ UNCHANGED <<ask, now>>
      /\ tx' = [tx EXCEPT ![c].pc = "done", ![c].locks = {}, ![c].writes = <<>>]
  BY DEF Commit
<1>2. /\ DOMAIN tx' = Requests /\ DOMAIN tx'[c] = TxFields
      /\ tx'[c].pc = "done" /\ tx'[c].locks = {} /\ DOMAIN tx'[c].writes = {}
      /\ tx'[c].answer = tx[c].answer
      /\ \A q \in Requests : q # c => tx'[q] = tx[q]
  BY <1>1, About DEF TxFields
<1>3. Grows(rows, rows')
  BY CommitGrows
<1>4. \A t, id : Pending(c, t, id) => WriteOK(t, id, tx[c].writes[t][id], tx[c].writes, tx[c].locks)
  BY About DEF WritesOK, Pending
<1>5. StoreIsSound'
  <2>1. ASSUME NEW t \in Tables, NEW id \in DOMAIN rows'[t]
        PROVE  \/ id \in DOMAIN rows[t] /\ rows'[t][id] = rows[t][id]
               \/ /\ RowOK(rows, t, id, rows'[t][id])
                  /\ t = "approvals" => Vouched(rows, id, rows'[t][id])
                  /\ t = "assessments" => Earned(rows, rows'[t][id])
    <3>1. CASE Pending(c, t, id)
      <4>1. rows'[t][id] = tx[c].writes[t][id]
        BY <3>1, CommitRows
      <4>2. QED
        BY <1>4, <3>1, <4>1 DEF WriteOK
    <3>2. CASE ~Pending(c, t, id)
      BY <3>2, CommitRows DEF Stored
    <3>3. QED
      BY <3>1, <3>2
  <2>2. QED
    BY <1>3, <2>1, CommitHistory, StoreGrows
<1>6. ContextIsSound'
  BY <1>1 DEF IInv, ContextIsSound, Asked
<1>7. TxShape'
  BY <1>2 DEF IInv, TxShape
<1>8. LocksExclusive'
  BY <1>2 DEF IInv, LocksExclusive
<1>9. OthersAreFresh'
  BY <1>1, <1>2 DEF IInv, OthersAreFresh, Asked, Fresh, NoAnswer
<1>10. TransactionsAreSound'
  <2>1. ASSUME NEW q \in Asked, q # c
        PROVE  Sound(q)'
    <3>1. tx[q].locks \cap tx[c].locks = {}
      BY <2>1, About
    <3>2. Untouched(q)
      <4>1. ASSUME NEW t \in Tables \ {"audit", "runs"}, NEW id, <<t, id>> \in tx[q].locks
            PROVE  /\ id \in DOMAIN rows'[t] <=> Stored(t, id)
                   /\ Stored(t, id) => rows'[t][id] = rows[t][id]
        <5>1. ~Pending(c, t, id)
          BY <1>4, <3>1, <4>1 DEF WriteOK
        <5>2. QED
          BY <5>1, CommitRows
      <4>2. QED
        BY <4>1 DEF Untouched
    <3>3. tx'[q] = tx[q]
      BY <1>2, <2>1, About
    <3>4. QED
      BY <1>1, <1>3, <3>2, <3>3, SoundGrows
  <2>2. Sound(c)'
    <3>1. WritesOK(tx[c].writes, tx[c].locks)'
      BY <1>2 DEF WritesOK, Holds
    <3>2. ReadIsTrue(c)'
      BY <1>2 DEF ReadIsTrue, At
    <3>3. AnswerIsTrue(c)'
      <4>1. AnswerIsTrue(c)
        BY DEF IInv, TransactionsAreSound, Sound
      <4>2. \A t, id : Makes(c, t, id)' <=> Makes(c, t, id)
        BY <1>1, MakesKept
      <4>3. ASSUME NEW t, NEW id, NEW made, MadeBy(c, t, id, made), Makes(c, t, id)
            PROVE  MadeBy(c, t, id, made)'
        <5>1. t \in Tables /\ (t \in Inserted \/ t = "runs" \/ t = "users")
          BY <4>3 DEF Makes, Inserted, Tables, AppendOnlyTables
        <5>2. CASE Pending(c, t, id) /\ tx[c].writes[t][id].made = made
          BY <5>1, <5>2, CommitRows DEF MadeBy, Stored
        <5>3. CASE Stored(t, id) /\ rows[t][id].made = made
          <6>1. rows'[t][id].made = rows[t][id].made /\ id \in DOMAIN rows'[t]
            BY <1>3, <5>1, <5>3 DEF Grows, Stored
          <6>2. QED
            BY <5>3, <6>1 DEF MadeBy, Stored
        <5>4. QED
          BY <4>3, <5>2, <5>3 DEF MadeBy
      <4>4. QED
        BY <1>1, <1>2, <4>1, <4>2, <4>3 DEF AnswerIsTrue, At
    <3>4. QED
      BY <1>2, <3>1, <3>2, <3>3 DEF Sound
  <2>3. Asked' = Asked
    BY <1>1 DEF Asked
  <2>4. QED
    BY <2>1, <2>2, <2>3 DEF TransactionsAreSound
<1>11. QED
  BY <1>5, <1>6, <1>7, <1>8, <1>9, <1>10 DEF IInv

(* Only runs change: the old ones keep what is known of them. *)
LEMMA RunsChange ==
  ASSUME IInv, NEW runs, rows' = [rows EXCEPT !["runs"] = runs],
         \A id \in DOMAIN runs : RunRow(runs[id]),
         \A id \in DOMAIN rows["runs"] :
           /\ id \in DOMAIN runs
           /\ runs[id].made = rows["runs"][id].made
           /\ runs[id].notes = rows["runs"][id].notes
           /\ runs[id].licenses = rows["runs"][id].licenses
           /\ runs[id].asOf = rows["runs"][id].asOf
  PROVE  Grows(rows, rows') /\ StoreIsSound' /\ \A q : Untouched(q)
<1>1. DOMAIN rows = Tables /\ HistoryIsWhole(rows)
  BY DEF IInv, StoreIsSound, RowsOK
<1>2. DOMAIN rows' = Tables /\ rows'["runs"] = runs /\ \A t \in Tables : t # "runs" => rows'[t] = rows[t]
  BY <1>1 DEF Tables
<1>3. Grows(rows, rows')
  BY <1>1, <1>2 DEF Grows, Inserted, Tables, AppendOnlyTables
<1>4. HistoryIsWhole(rows')
  BY <1>1, <1>2 DEF HistoryIsWhole, Tables, AppendOnlyTables
<1>5. \A id \in DOMAIN runs : RowOK(rows, "runs", id, runs[id])
  BY DEF RowOK
<1>6. StoreIsSound'
  <2>1. ASSUME NEW t \in Tables, NEW id \in DOMAIN rows'[t]
        PROVE  \/ id \in DOMAIN rows[t] /\ rows'[t][id] = rows[t][id]
               \/ /\ RowOK(rows, t, id, rows'[t][id])
                  /\ t = "approvals" => Vouched(rows, id, rows'[t][id])
                  /\ t = "assessments" => Earned(rows, rows'[t][id])
    BY <1>2, <1>5
  <2>2. QED
    BY <1>3, <1>4, <2>1, StoreGrows
<1>7. \A q : Untouched(q)
  BY <1>2 DEF Untouched, Stored
<1>8. QED
  BY <1>3, <1>6, <1>7

LEMMA RunEndsStep ==
  ASSUME IInv, NEW id \in DOMAIN rows["runs"], RunEnds(id)
  PROVE  IInv'
<1>1. UNCHANGED <<ask, tx, now>>
  BY DEF RunEnds
<1>2. PICK status \in {"completed", "failed"} : rows' = [rows EXCEPT !["runs"][id].status = status]
  BY DEF RunEnds
<1> DEFINE run == [rows["runs"][id] EXCEPT !.status = status]
           runs == [rows["runs"] EXCEPT ![id] = run]
<1>3. rows' = [rows EXCEPT !["runs"] = runs]
  BY <1>2
<1>4. \A k \in DOMAIN rows["runs"] : RunRow(rows["runs"][k])
  BY StoredRuns DEF Stored
<1>5. /\ DOMAIN run = DOMAIN rows["runs"][id]
      /\ run.made = rows["runs"][id].made /\ run.notes = rows["runs"][id].notes
      /\ run.licenses = rows["runs"][id].licenses /\ run.asOf = rows["runs"][id].asOf
  BY <1>4 DEF RunRow
<1> HIDE DEF run
<1>6. RunRow(run)
  BY <1>4, <1>5 DEF RunRow
<1>7. /\ \A k \in DOMAIN runs : RunRow(runs[k])
      /\ \A k \in DOMAIN rows["runs"] :
           /\ k \in DOMAIN runs
           /\ runs[k].made = rows["runs"][k].made
           /\ runs[k].notes = rows["runs"][k].notes
           /\ runs[k].licenses = rows["runs"][k].licenses
           /\ runs[k].asOf = rows["runs"][k].asOf
  BY <1>4, <1>5, <1>6
<1> HIDE DEF runs
<1>8. Grows(rows, rows') /\ StoreIsSound' /\ \A q : Untouched(q)
  BY <1>3, <1>7, RunsChange
<1>9. TransactionsAreSound'
  <2>1. \A q \in Asked : Sound(q)'
    BY <1>1, <1>8, SoundGrows
  <2>2. QED
    BY <1>1, <2>1 DEF TransactionsAreSound, Asked
<1>10. ContextIsSound' /\ TxShape' /\ LocksExclusive' /\ OthersAreFresh'
  BY <1>1 DEF IInv, ContextIsSound, TxShape, LocksExclusive, OthersAreFresh, Asked, Fresh, NoAnswer
<1>11. QED
  BY <1>8, <1>9, <1>10 DEF IInv

LEMMA PersistStep ==
  ASSUME IInv, NEW r \in Asked, Persist(r)
  PROVE  IInv'
<1> DEFINE k == RunOf(r)
           old == rows["runs"][k]
<1>1. UNCHANGED <<ask, now>> /\ Rehearse(r) /\ k = ask[r].key
  BY About DEF Persist, ReadIsTrue, At, RunOf
<1>2. CASE Stored("runs", k)
  <2>1. rows' = rows
    BY <1>2 DEF Persist
  <2>2. CASE Fail(r, 409)
    BY <1>1, <2>1, <2>2, FailStep
  <2>3. CASE ~Fail(r, 409)
    <3>1. tx' = [tx EXCEPT ![r].pc = "dispatch", ![r].note = <<old.made>>]
      BY <1>2, <2>3 DEF Persist
    <3>2. /\ OnlyTx(r) /\ tx'[r].writes = tx[r].writes /\ tx'[r].locks = tx[r].locks
          /\ tx'[r].pc = "dispatch" /\ tx'[r].note = <<old.made>>
      BY <1>1, <2>1, <3>1, About DEF OnlyTx, TxFields
    <3>3. ReadIsTrue(r)'
      BY <1>1, <1>2, <2>1, <3>2 DEF ReadIsTrue, At, Rehearse, RunOf, Stored
    <3>4. QED
      BY <3>2, <3>3, About, GoesOn
  <2>4. QED
    BY <2>2, <2>3
<1>3. CASE ~Stored("runs", k)
  <2> DEFINE run == RehearsalRun(r)
             runs == Over([id \in {k} |-> run], rows["runs"])
  <2>1. /\ rows' = [rows EXCEPT !["runs"] = runs]
        /\ tx' = [tx EXCEPT ![r].pc = "dispatch", ![r].note = <<r>>]
    BY <1>3 DEF Persist
  <2>2. RunRow(run) /\ run.made = r
    <3> DEFINE license == IF ask[r].source = "testnet" THEN "binance-spot-testnet" ELSE "kavrigo-synthetic"
    <3>1. /\ DOMAIN run = {"version", "notes", "status", "made", "licenses", "asOf", "agentJob"}
          /\ run.made = r /\ run.licenses = <<license>>
      BY DEF RehearsalRun
    <3>2. license \in Ineligible
      BY DEF Ineligible
    <3> HIDE DEF license, run
    <3>3. 1 \in DOMAIN run.licenses /\ run.licenses[1] \in Ineligible
      BY <3>1, <3>2
    <3>4. r \in Made
      BY About DEF Made
    <3>5. QED
      BY <3>1, <3>3, <3>4 DEF RunRow
  <2> HIDE DEF run
  <2>3. \A id \in DOMAIN rows["runs"] : RunRow(rows["runs"][id])
    BY StoredRuns DEF Stored
  <2>4. /\ DOMAIN runs = {k} \cup DOMAIN rows["runs"] /\ runs[k] = run
        /\ \A id \in DOMAIN rows["runs"] : runs[id] = rows["runs"][id]
    BY <1>3 DEF Over, Stored
  <2> HIDE DEF runs
  <2>5. \A id \in DOMAIN runs : RunRow(runs[id])
    BY <2>2, <2>3, <2>4
  <2>6. Grows(rows, rows') /\ StoreIsSound' /\ \A q : Untouched(q)
    BY <2>1, <2>4, <2>5, RunsChange
  <2>7. /\ DOMAIN tx' = Requests /\ DOMAIN tx'[r] = TxFields
        /\ tx'[r].writes = tx[r].writes /\ tx'[r].locks = tx[r].locks
        /\ tx'[r].pc = "dispatch" /\ tx'[r].note = <<r>>
        /\ \A q \in Requests : q # r => tx'[q] = tx[q]
    BY <2>1, About DEF TxFields
  <2>8. "runs" \in DOMAIN rows
    BY DEF IInv, StoreIsSound, RowsOK, Tables
  <2>9. k \in DOMAIN rows'["runs"] /\ rows'["runs"][k].made = r
    BY <2>1, <2>2, <2>4, <2>8
  <2>10. Sound(r)'
    <3>1. WritesOK(tx[r].writes, tx[r].locks)'
      BY <2>6, <2>7, WritesGrow
    <3>2. ReadIsTrue(r)'
      BY <1>1, <2>7, <2>9 DEF ReadIsTrue, At, Rehearse, RunOf, Stored
    <3>3. AnswerIsTrue(r)'
      BY <2>7 DEF AnswerIsTrue
    <3>4. QED
      BY <2>7, <3>1, <3>2, <3>3 DEF Sound
  <2>11. TransactionsAreSound'
    <3>1. ASSUME NEW q \in Asked, q # r
          PROVE  Sound(q)'
      BY <1>1, <2>6, <2>7, <3>1, About, SoundGrows
    <3>2. QED
      BY <1>1, <2>10, <3>1 DEF TransactionsAreSound, Asked
  <2>12. ContextIsSound' /\ TxShape' /\ LocksExclusive'
    BY <1>1, <2>7, About DEF IInv, ContextIsSound, TxShape, LocksExclusive, Asked
  <2>13. OthersAreFresh'
    BY <1>1, <2>7 DEF IInv, OthersAreFresh, Asked, Fresh, NoAnswer
  <2>14. QED
    BY <2>6, <2>11, <2>12, <2>13 DEF IInv
<1>4. QED
  BY <1>2, <1>3

LEMMA LoseStep ==
  ASSUME IInv, NEW r \in Asked, Lose(r)
  PROVE  IInv'
<1> DEFINE w == [Fresh EXCEPT !.pc = "lost", !.at = tx[r].at]
<1>1. w.pc = "lost" /\ w.locks = {} /\ DOMAIN w.writes = {} /\ DOMAIN w = TxFields
  BY DEF Fresh, TxFields
<1>2. tx' = [tx EXCEPT ![r] = w] /\ UNCHANGED <<ask, rows, now>>
  BY DEF Lose
<1> HIDE DEF w
<1>3. OnlyTx(r) /\ tx'[r] = w
  BY <1>1, <1>2, About DEF OnlyTx
<1>4. QED
  BY <1>1, <1>3, IsUndone

LEMMA NothingMoves ==
  ASSUME IInv, UNCHANGED <<ask, rows, tx>>, now' \in 1..MaxNow
  PROVE  IInv'
<1>1. TransactionsAreSound'
  <2>1. \A q \in Asked : Sound(q)'
    BY SoundKept
  <2>2. QED
    BY <2>1 DEF TransactionsAreSound, Asked
<1>2. StoreIsSound'
  BY DEF IInv, StoreIsSound
<1>3. ContextIsSound' /\ TxShape' /\ LocksExclusive' /\ OthersAreFresh'
  BY DEF IInv, ContextIsSound, TxShape, LocksExclusive, OthersAreFresh, Asked, Fresh, NoAnswer
<1>4. QED
  BY <1>1, <1>2, <1>3 DEF IInv

-------------------------------------------------------------------------------
(* The theorems *)

LEMMA InitIInv == Init => IInv
<1>1. SUFFICES ASSUME Init
               PROVE  IInv
  OBVIOUS
<1>2. PICK s \in Scenarios : ask = s.ask /\ rows = s.rows
  BY <1>1 DEF Init
<1>3. StartsSound(s) /\ MaxNow \in Nat \ {0}
  BY ControlAssumption
<1>4. tx = [r \in Requests |-> Fresh] /\ now = 1
  BY <1>1 DEF Init
<1>5. /\ Fresh.pc = "idle" /\ Fresh.locks = {} /\ DOMAIN Fresh.writes = {} /\ DOMAIN Fresh = TxFields
  BY DEF Fresh, TxFields
<1>6. StoreIsSound
  BY <1>2, <1>3 DEF StoreIsSound, StartsSound
<1>7. ContextIsSound
  BY <1>2, <1>3, <1>4 DEF ContextIsSound, StartsSound, Asked
<1>8. TxShape /\ LocksExclusive /\ OthersAreFresh
  BY <1>4, <1>5 DEF TxShape, LocksExclusive, OthersAreFresh
<1>9. TransactionsAreSound
  <2>1. ASSUME NEW r \in Asked
        PROVE  Sound(r)
    <3>1. tx[r] = Fresh
      BY <1>4, <1>7 DEF ContextIsSound
    <3>2. WritesOK(tx[r].writes, tx[r].locks)
      BY <1>5, <3>1 DEF WritesOK, Holds
    <3>3. ReadIsTrue(r) /\ AnswerIsTrue(r)
      BY <1>5, <3>1 DEF ReadIsTrue, AnswerIsTrue, At
    <3>4. QED
      BY <1>5, <3>1, <3>2, <3>3 DEF Sound
  <2>2. QED
    BY <2>1 DEF TransactionsAreSound
<1>10. QED
  BY <1>6, <1>7, <1>8, <1>9 DEF IInv

LEMMA NextIInv == IInv /\ [Next]_vars => IInv'
<1>1. SUFFICES ASSUME IInv, [Next]_vars
               PROVE  IInv'
  OBVIOUS
<1>2. CASE UNCHANGED vars
  BY <1>1, <1>2, NothingMoves DEF vars, IInv, ContextIsSound
<1>3. ASSUME NEW r \in Asked, AgentStep(r)
      PROVE  IInv'
  BY <1>1, <1>3, OpenAgentRequestStep, LookUpStep, StoreResultStep, WriteAgentStep, LockAgentStep,
     WriteVersionStep, ArchiveAgentStep, ReadUserStep, WriteUserStep, WriteWorkspaceStep,
     FreezeVersionStep, SampleStep, PersistStep, DispatchRehearsalStep DEF AgentStep
<1>4. ASSUME NEW r \in Asked, PolicyStep(r)
      PROVE  IInv'
  BY <1>1, <1>4, OpenPolicyRequestStep, TakeLockStep, FindBundleStep, InsertBundleStep,
     ReadReviewStep, ReadApprovalStep, FindReviewStep, InsertReviewStep, FindApprovalStep,
     InsertApprovalStep, FindAssessmentStep, BindPolicyAndRunStep, InsertAssessmentStep,
     RecordEventStep DEF PolicyStep
<1>5. ASSUME NEW r \in Asked, Commit(r) \/ Lose(r)
      PROVE  IInv'
  BY <1>1, <1>5, CommitStep, LoseStep
<1>6. ASSUME NEW id \in DOMAIN rows["runs"], RunEnds(id)
      PROVE  IInv'
  BY <1>1, <1>6, RunEndsStep
<1>7. CASE Tick
  <2>1. now' \in 1..MaxNow
    BY <1>1, <1>7, ControlAssumption DEF Tick, IInv, ContextIsSound
  <2>2. QED
    BY <1>1, <1>7, <2>1, NothingMoves DEF Tick
<1>8. CASE Quiet
  BY <1>2, <1>8 DEF Quiet
<1>9. QED
  BY <1>1, <1>2, <1>3, <1>4, <1>5, <1>6, <1>7, <1>8 DEF Next

(* The inductive invariant holds of every request's transaction, at every moment. *)
THEOREM Invariance == Spec => []IInv
<1>1. QED
  BY InitIInv, NextIInv, PTL DEF Spec

(* Every row is of its type, every reference leads to a row and every agent has all its versions:
   the store stays whole whatever requests race or are lost (db/models.py, services/agents.py).  *)
THEOREM TypeCorrect == Spec => []TypeOK
<1>1. IInv => TypeOK
  BY DEF IInv, StoreIsSound, TypeOK
<1>2. QED
  BY <1>1, Invariance, PTL

(* Nobody approves alone: behind an approval there is a review of the approving person, which
   advanced somebody else's documents (routers/paper_policies.py).                               *)
THEOREM ApprovalsHaveFourEyes == Spec => []FourEyes
<1>1. IInv => FourEyes
  BY DEF IInv, StoreIsSound, Vouched, FourEyes, ApprovalHolds, ReviewHolds, ApprovalOf, ReviewOf,
         BundleOf, Stored
<1>2. QED
  BY <1>1, Invariance, PTL

(* An assessment that finds the data entitled names a grant for each licence, tenant and time, and
   nothing it knew revoked it; a rehearsal is never promotable (routers/paper_activation.py).     *)
THEOREM AssessmentsAreEarned == Spec => []VerdictsAreEarned
<1>1. IInv => VerdictsAreEarned
  BY DEF IInv, StoreIsSound, VerdictsAreEarned
<1>2. QED
  BY <1>1, Invariance, PTL

(* Whoever repeats a request is told of the same row, at whatever time and however the two race
   (services/idempotency.py, repositories/idempotency.py).                                        *)
THEOREM RepetitionsAgree == Spec => []RepeatsAgree
<1>1. IInv => RepeatsAgree
  <2>1. SUFFICES ASSUME IInv, NEW r \in Asked, NEW q \in Asked, Repeats(r, q), Succeeded(r), Succeeded(q)
                 PROVE  tx[r].answer.made = tx[q].answer.made
    BY DEF RepeatsAgree
  <2>2. PICK t, id : Makes(r, t, id) /\ Makes(q, t, id)
    <3>1. \/ SignIn(r) /\ SignIn(q) /\ ask[r].user = ask[q].user
          \/ /\ ask[r].op \in OncePerKey /\ ask[r].key # NoKey /\ ask[r].key = ask[q].key
             /\ ask[r].op = ask[q].op
             /\ ask[r].op \in {"review", "approve"} => ask[r].bundle = ask[q].bundle
      BY <2>1 DEF Repeats, SignIn
    <3>2. QED
      BY <3>1 DEF OncePerKey, Makes, CreateAgent, CreateVersion, CreateBundle, ReviewBundle,
                  ApproveBundle, Assess, Rehearse, SignIn
  <2>3. ASSUME NEW p \in Asked, Succeeded(p), Makes(p, t, id)
        PROVE  rows[t][id].made = tx[p].answer.made
    <3>1. MadeBy(p, t, id, tx[p].answer.made) /\ DOMAIN tx[p].writes = {}
      BY <2>1, <2>3 DEF IInv, TransactionsAreSound, Sound, AnswerIsTrue, Succeeded, At
    <3>2. QED
      BY <3>1 DEF MadeBy, Pending, Holds
  <2>4. QED
    BY <2>1, <2>2, <2>3
<1>2. QED
  BY <1>1, Invariance, PTL

(* Only a commit changes agents and versions. *)
LEMMA RowsOfAgentsStay ==
  ASSUME IInv, [Next]_vars, ~\E c \in Asked : Commit(c)
  PROVE  rows'["agents"] = rows["agents"] /\ rows'["versions"] = rows["versions"]
<1>1. DOMAIN rows = Tables /\ {"agents", "versions", "runs"} \subseteq Tables
  BY DEF IInv, StoreIsSound, RowsOK, Tables, AppendOnlyTables
<1>2. ASSUME NEW r \in Asked, AgentStep(r), ~Persist(r)
      PROVE  rows' = rows
  BY <1>2 DEF AgentStep, OpenAgentRequest, Open, LookUp, StoreResult, WriteAgent, LockAgent, WriteVersion,
              ArchiveAgent, ReadUser, WriteUser, WriteWorkspace, FreezeVersion, Sample, DispatchRehearsal
<1>3. ASSUME NEW r \in Asked, PolicyStep(r)
      PROVE  rows' = rows
  BY <1>3 DEF PolicyStep, OpenPolicyRequest, Open, TakeLock, FindBundle, InsertBundle, ReadReview,
              ReadApproval, FindReview, InsertReview, FindApproval, InsertApproval, FindAssessment,
              BindPolicyAndRun, InsertAssessment, RecordEvent
<1>4. ASSUME NEW r \in Asked, Persist(r)
      PROVE  rows'["agents"] = rows["agents"] /\ rows'["versions"] = rows["versions"]
  BY <1>1, <1>4 DEF Persist
<1>5. QED
  BY <1>1, <1>2, <1>3, <1>4 DEF Next, vars, Lose, Tick, Quiet, RunEnds

(* A step changes no archived agent and adds no version to it, whatever was under way when it was
   archived (services/agents.py, routers/agents.py).                                             *)
THEOREM ArchivedAgentsAreFrozen == Spec => ArchivedIsFrozen
<1>1. IInv /\ [Next]_vars =>
        [\A a \in DOMAIN rows["agents"] :
           rows["agents"][a].archived =>
             /\ rows'["agents"][a] = rows["agents"][a]
             /\ \A id \in DOMAIN rows'["versions"] : id[1] = a => Stored("versions", id)]_vars
  <2>1. SUFFICES ASSUME IInv, [Next]_vars, NEW a \in DOMAIN rows["agents"], rows["agents"][a].archived
                 PROVE  /\ rows'["agents"][a] = rows["agents"][a]
                        /\ \A id \in DOMAIN rows'["versions"] : id[1] = a => Stored("versions", id)
    OBVIOUS
  <2>2. CASE ~\E c \in Asked : Commit(c)
    BY <2>1, <2>2, RowsOfAgentsStay DEF Stored
  <2>3. ASSUME NEW c \in Asked, Commit(c)
        PROVE  /\ rows'["agents"][a] = rows["agents"][a]
               /\ \A id \in DOMAIN rows'["versions"] : id[1] = a => Stored("versions", id)
    <3>1. "agents" \in Tables /\ "versions" \in Tables
      BY DEF Tables, AppendOnlyTables
    <3>2. ~Pending(c, "agents", a)
      BY <2>1, About DEF WritesOK, WriteOK, AgentWrite, Pending, Stored
    <3>3. \A id : Pending(c, "versions", id) => Pending(c, "agents", id[1])
      BY <2>1, About DEF WritesOK, WriteOK, Pending
    <3>4. rows'["agents"][a] = rows["agents"][a]
      BY <2>1, <2>3, <3>1, <3>2, CommitRows DEF Stored
    <3>5. \A id \in DOMAIN rows'["versions"] : Pending(c, "versions", id) \/ Stored("versions", id)
      BY <2>1, <2>3, <3>1, CommitRows
    <3>6. QED
      BY <3>2, <3>3, <3>4, <3>5
  <2>4. QED
    BY <2>2, <2>3
<1>2. QED
  BY <1>1, Invariance, PTL DEF Spec, ArchivedIsFrozen
==================================================================================
