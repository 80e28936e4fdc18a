------------------------------- MODULE ControlPlane -------------------------------
(***************************************************************************)
(* The control plane: the requests of AgentRequests and PolicyRequests     *)
(* over one store, and the engine that ends the runs it was given.         *)
(***************************************************************************)
EXTENDS AgentRequests, PolicyRequests

Next ==
  \/ \E r \in Asked : AgentStep(r) \/ PolicyStep(r) \/ Commit(r) \/ Lose(r)
  \/ \E id \in DOMAIN rows["runs"] : RunEnds(id)
  \/ Tick
  \/ Quiet

Spec == Init /\ [][Next]_vars

-------------------------------------------------------------------------------
(* What the tables hold (db/models.py).  Names are those of the scenarios. *)

Made == Requests \cup {Nobody}

UserRow(u) == u.made \in Made
WorkspaceRow(w) == w.made \in Made /\ w.owner \in Users
AgentRowOK(a) == a \in [current : Nat \ {0}, archived : BOOLEAN]
VersionRowOK(id, v) == id = <<id[1], id[2]>> /\ v.by \in Users
KeyRow(k) == k.made \in Made /\ k.expires \in Nat
BundleRow(b) == b.by \in Users /\ b.made \in Made
ReviewRow(rs, b, v) == b \in DOMAIN rs["bundles"] /\ v.advance \in BOOLEAN /\ v.by \in Users
ApprovalRow(rs, b, a) == b \in DOMAIN rs["reviews"] /\ a.by \in Users
EventRow(k, e) == WellFormed(e) /\ e.from \in Int /\ k = EventKey(e)
AssessmentRow(rs, a) ==
  /\ a.version \in DOMAIN rs["versions"]
  /\ a.bundle \in DOMAIN rs["approvals"]
  /\ a.run \in DOMAIN rs["runs"]
  /\ a.refs \cup a.known \subseteq DOMAIN rs["events"]
  /\ a.at \in 1..MaxNow

(* The evidence of a rehearsal names a provider nobody licenses (workflows/rehearsal.py). *)
RunRow(u) ==
  /\ DOMAIN u = {"version", "notes", "status", "made", "licenses", "asOf", "agentJob"}
  /\ u.made \in Made
  /\ u.notes \cap Rehearsed # {} => \E i \in DOMAIN u.licenses : u.licenses[i] \in Ineligible

(* A row of table t, with references to rows of rs. *)
RowOK(rs, t, id, row) ==
  /\ t = "users" => UserRow(row)
  /\ t = "workspaces" => WorkspaceRow(row)
  /\ t = "agents" => AgentRowOK(row)
  /\ t = "versions" => VersionRowOK(id, row)
  /\ t = "keys" => KeyRow(row)
  /\ t = "bundles" => BundleRow(row)
  /\ t = "reviews" => ReviewRow(rs, id, row)
  /\ t = "approvals" => ApprovalRow(rs, id, row)
  /\ t = "events" => EventRow(id, row)
  /\ t = "assessments" => AssessmentRow(rs, row)
  /\ t = "runs" => RunRow(row)

(* The versions of an agent are numbered without gaps up to the current one (agents.py).           *)
HistoryIsWhole(rs) ==
  /\ \A id \in DOMAIN rs["versions"] : id[1] \in DOMAIN rs["agents"]
  /\ \A a \in DOMAIN rs["agents"] :
       {id[2] : id \in {v \in DOMAIN rs["versions"] : v[1] = a}} = 1..rs["agents"][a].current

RowsOK(rs) ==
  /\ DOMAIN rs = Tables
  /\ \A t \in Tables : \A id \in DOMAIN rs[t] : RowOK(rs, t, id, rs[t][id])
  /\ HistoryIsWhole(rs)

(* Every row is of its type and every reference between tables leads to a row: the foreign keys of
   versions, reviews, approvals and assessments, the entitlement events an assessment names, and
   all the versions of an agent, whatever requests raced or were lost.                            *)
TypeOK == RowsOK(rows)

-------------------------------------------------------------------------------
(* Properties *)

(* What the key of a request makes once: a record of its answer, or a row whose identifier follows
   from the key or from the bundle it is about.                                                   *)
OncePerKey == {"create agent", "create version", "create bundle", "review", "approve", "assess",
               "rehearse"}

Repeats(r, q) ==
  /\ ask[r].op = ask[q].op /\ ask[r].user = ask[q].user
  /\ \/ SignIn(r)
     \/ /\ ask[r].op \in OncePerKey /\ ask[r].key # NoKey /\ ask[r].key = ask[q].key
        /\ ask[r].op \in {"review", "approve"} => ask[r].bundle = ask[q].bundle

(* A request and its repetition, once both have been told of success and committed, were told of
   the same thing: a key acts once, at whatever time the second arrives and whether the first
   record has expired or not (idempotency.py, the identifiers derived from keys, ensure_user).   *)
RepeatsAgree ==
  \A r, q \in Asked :
    Repeats(r, q) /\ Succeeded(r) /\ Succeeded(q) => tx[r].answer.made = tx[q].answer.made

(* An archived agent stays archived and gets no version any more, although a request to add one may
   be under way when it is archived.                                                             *)
ArchivedIsFrozen ==
  [][\A a \in DOMAIN rows["agents"] :
       rows["agents"][a].archived =>
         /\ rows'["agents"][a] = rows["agents"][a]
         /\ \A id \in DOMAIN rows'["versions"] : id[1] = a => Stored("versions", id)]_vars

(* An approval rests on the approving person's own review, which advanced exactly these documents,
   and that person did not write them, however reviews and approvals of several people race.     *)
FourEyes ==
  \A b \in DOMAIN rows["approvals"] :
    /\ ApprovalHolds(b)
    /\ ApprovalOf(b).by # BundleOf(b).by

(* What assessment a claims of the rows of rs. *)
Earned(rs, a) ==
  LET run == rs["runs"][a.run]
      earned(license, tenant, at) ==
        \E e \in a.refs :
          LET grant == rs["events"][e]
          IN /\ grant.action = "grant" /\ e[1] = tenant /\ e[2] = license
             /\ grant.from <= at /\ at < grant.until
             /\ ~\E o \in a.known : /\ o[1] = tenant /\ o[2] = license
                                    /\ grant.from < o[3] /\ o[3] <= at
                                    /\ rs["events"][o].action = "revoke"
  IN /\ run.notes \cap Rehearsed # {} => ~a.gates.evidence /\ ~a.gates.entitlement
     /\ a.gates.entitlement =>
          \A i \in DOMAIN run.licenses, tenant \in {Everyone, Workspace}, at \in {run.asOf, a.at} :
            earned(run.licenses[i], tenant, at)

(* An assessment that finds the data entitled rests, for every licence, tenant and time it is about,
   on a grant it names, in force then, with no revocation after it among the events known when the
   ledger was read; and no rehearsal's evidence is ever promotable (paper_activation.py).         *)
VerdictsAreEarned == \A k \in DOMAIN rows["assessments"] : Earned(rows, rows["assessments"][k])

-------------------------------------------------------------------------------
(* What is asked, and what earlier requests left behind *)

(* An approval of b that rests on a review of somebody else's bundle. *)
Vouched(rs, b, approval) ==
  LET bundle == rs["bundles"][b]
      review == rs["reviews"][b]
  IN /\ b \in DOMAIN rs["bundles"] /\ b \in DOMAIN rs["reviews"]
     /\ review.documents = bundle.documents /\ review.by # bundle.by /\ review.advance
     /\ approval.documents = bundle.documents /\ approval.by = review.by

AskOK(a) ==
  /\ a.op # "sign in" => a.user \in Users
  /\ a.op = "review" => a.body.advance \in BOOLEAN
  /\ a.op = "record event" => a.event.from \in Int

StartsSound(s) ==
  /\ DOMAIN s.ask \subseteq Requests
  /\ \A r \in DOMAIN s.ask : AskOK(s.ask[r])
  /\ RowsOK(s.rows)
  /\ \A b \in DOMAIN s.rows["approvals"] : Vouched(s.rows, b, s.rows["approvals"][b])
  /\ \A k \in DOMAIN s.rows["assessments"] : Earned(s.rows, s.rows["assessments"][k])

ASSUME ControlAssumption ==
  /\ Retention \in Nat /\ MaxNow \in Nat \ {0}
  /\ \A s \in Scenarios : StartsSound(s)
===================================================================================
