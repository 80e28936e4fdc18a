------------------------------- MODULE PolicyRequests -------------------------------
(***************************************************************************)
(* Requests about paper policies: candidate bundles, their review by a     *)
(* second person, the approval by the reviewer (routers/paper_policies.py, *)
(* services/paper_policy_integrity.py), and the assessment whether an      *)
(* agent version could be activated (routers/paper_activation.py).  Each   *)
(* writes under an advisory lock of its own, and its identifier follows    *)
(* from its key or its bundle.  A document and its hash are one value.     *)
(***************************************************************************)
EXTENDS ControlStore

CONSTANT Workspace   \* the workspace all requests are made in

CreateBundle(r) == ask[r].op = "create bundle"
ReviewBundle(r) == ask[r].op = "review"
ApproveBundle(r) == ask[r].op = "approve"
ReadBundle(r) == ask[r].op = "read bundle"
Assess(r) == ask[r].op = "assess"

(* The key is mandatory for everything that writes. *)
OpenPolicyRequest(r) ==
  \/ ReadBundle(r) /\ Open(r, "risk_policy:read")
  \/ Assess(r) /\ Open(r, "agent:promote")
  \/ /\ ask[r].op \in {"create bundle", "review", "approve"}
     /\ IF ask[r].key = NoKey THEN At(r, "idle") /\ Fail(r, 400) /\ UNCHANGED <<ask, rows, now>>
        ELSE Open(r, "risk_policy:write")

Bundle(r) == IF CreateBundle(r) THEN ask[r].key ELSE ask[r].bundle

AdvisoryLock(r) ==
  CASE CreateBundle(r) -> <<"bundle lock", Bundle(r)>>
    [] ReviewBundle(r) -> <<"review lock", Bundle(r)>>
    [] ApproveBundle(r) -> <<"approval lock", Bundle(r)>>
    [] Assess(r) -> <<"assessment lock", ask[r].key>>

TakeLock(r) ==
  /\ At(r, "begin") /\ (CreateBundle(r) \/ ReviewBundle(r) \/ ApproveBundle(r) \/ Assess(r))
  /\ Lock(r, AdvisoryLock(r), "locked")
  /\ UNCHANGED <<ask, rows, now>>

-------------------------------------------------------------------------------
(* Integrity of what is stored *)

BundleOf(b) == rows["bundles"][b]
ReviewOf(b) == rows["reviews"][b]
ApprovalOf(b) == rows["approvals"][b]

ReviewHolds(b) ==
  /\ Stored("reviews", b) /\ Stored("bundles", b)
  /\ ReviewOf(b).documents = BundleOf(b).documents
  /\ ReviewOf(b).by # BundleOf(b).by

ApprovalHolds(b) ==
  /\ Stored("approvals", b) /\ ReviewHolds(b)
  /\ ReviewOf(b).advance
  /\ ApprovalOf(b).documents = BundleOf(b).documents
  /\ ApprovalOf(b).by = ReviewOf(b).by

(* What a response shows of a bundle whose review was read before its approval. *)
Status(b, review, approval) ==
  IF approval THEN "approved"
  ELSE IF ~review THEN "unapproved"
  ELSE IF ReviewOf(b).advance THEN "reviewed" ELSE "changes_requested"

-------------------------------------------------------------------------------
(* Candidates *)

(* A bundle of the key, once found, is answered with its review and approval, when it was made
   from the same body.                                                                        *)
FindBundle(r) ==
  LET b == Bundle(r)
  IN /\ At(r, "locked") /\ CreateBundle(r)
     /\ IF ~Stored("bundles", b) THEN Go(r, "insert")
        ELSE IF BundleOf(b).documents # ask[r].body THEN Fail(r, 409)
        ELSE Go(r, "read")
     /\ UNCHANGED <<ask, rows, now>>

InsertBundle(r) ==
  /\ At(r, "insert") /\ CreateBundle(r)
  /\ Insert(r, Over(Write("bundles", Bundle(r),
                          [documents |-> ask[r].body, by |-> ask[r].user, made |-> r]),
                    Audit(r, "paper_policy_candidate_created", Bundle(r))),
            ServerError, "returned")
  /\ UNCHANGED <<ask, rows, now>>

(* Two statements read the review and then the approval. *)
ReadReview(r) ==
  /\ \/ At(r, "begin") /\ ReadBundle(r)
     \/ At(r, "read") /\ CreateBundle(r)
  /\ IF ~Stored("bundles", Bundle(r)) THEN Fail(r, 404)
     ELSE tx' = [tx EXCEPT ![r].pc = "reviewed", ![r].note = <<Stored("reviews", Bundle(r))>>]
  /\ UNCHANGED <<ask, rows, now>>

(* _response refuses an approval it has no review for. *)
ReadApproval(r) ==
  LET approved == Stored("approvals", Bundle(r))
  IN /\ At(r, "reviewed")
     /\ IF approved /\ ~tx[r].note[1] THEN Fail(r, 409)
        ELSE IF (tx[r].note[1] => ReviewHolds(Bundle(r))) /\ (approved => ApprovalHolds(Bundle(r)))
        THEN tx' = [tx EXCEPT ![r].pc = "returned",
                              ![r].note = <<Status(Bundle(r), tx[r].note[1], approved)>>,
                              ![r].answer = [status |-> 200, made |-> BundleOf(Bundle(r)).made]]
        ELSE Fail(r, 409)
     /\ UNCHANGED <<ask, rows, now>>

-------------------------------------------------------------------------------
(* Review *)

SameRequest(row, r) ==
  row.key = ask[r].key /\ row.request = ask[r].body /\ row.by = ask[r].user

FindReview(r) ==
  LET b == Bundle(r)
  IN /\ At(r, "locked") /\ ReviewBundle(r)
     /\ IF ~Stored("bundles", b) THEN Fail(r, 404)
        ELSE IF BundleOf(b).by = ask[r].user THEN Fail(r, 403)
        ELSE IF ask[r].body.documents # BundleOf(b).documents THEN Fail(r, 409)
        ELSE IF ~Stored("reviews", b) THEN Go(r, "insert")
        ELSE IF SameRequest(ReviewOf(b), r) /\ ReviewHolds(b) THEN Return(r, ReviewOf(b).made)
        ELSE Fail(r, 409)
     /\ UNCHANGED <<ask, rows, now>>

InsertReview(r) ==
  LET b == Bundle(r)
  IN /\ At(r, "insert") /\ ReviewBundle(r)
     /\ Insert(r, Over(Write("reviews", b,
                             [advance |-> ask[r].body.advance, documents |-> BundleOf(b).documents,
                              key |-> ask[r].key, request |-> ask[r].body, by |-> ask[r].user,
                              made |-> r]),
                       Audit(r, "paper_policy_candidate_reviewed", b)),
               ServerError, "returned")
     /\ UNCHANGED <<ask, rows, now>>

-------------------------------------------------------------------------------
(* Approval *)

(* Mutant: anybody else may approve. *)
FindApprovalByAnyone(r) ==
  LET b == Bundle(r)
  IN /\ At(r, "locked") /\ ApproveBundle(r)
     /\ IF ~Stored("bundles", b) \/ Stored("approvals", b) THEN Fail(r, 409)
        ELSE IF ~ReviewHolds(b) \/ ~ReviewOf(b).advance THEN Fail(r, 409)
        ELSE Go(r, "insert")
     /\ UNCHANGED <<ask, rows, now>>

FindApproval(r) ==
  LET b == Bundle(r)
  IN /\ At(r, "locked") /\ ApproveBundle(r)
     /\ IF ~Stored("bundles", b) THEN Fail(r, 404)
        ELSE IF ~ReviewHolds(b) \/ ~ReviewOf(b).advance THEN Fail(r, 409)
        ELSE IF ask[r].user # ReviewOf(b).by THEN Fail(r, 403)
        ELSE IF ask[r].body.documents # BundleOf(b).documents THEN Fail(r, 409)
        ELSE IF ~Stored("approvals", b) THEN Go(r, "insert")
        ELSE IF SameRequest(ApprovalOf(b), r) THEN Return(r, ApprovalOf(b).made)
        ELSE Fail(r, 409)
     /\ UNCHANGED <<ask, rows, now>>

InsertApproval(r) ==
  LET b == Bundle(r)
  IN /\ At(r, "insert") /\ ApproveBundle(r)
     /\ Insert(r, Over(Write("approvals", b,
                             [documents |-> BundleOf(b).documents, key |-> ask[r].key,
                              request |-> ask[r].body, by |-> ask[r].user, made |-> r]),
                       Audit(r, "paper_policy_approved", b)),
               ServerError, "returned")
     /\ UNCHANGED <<ask, rows, now>>

-------------------------------------------------------------------------------
(* Activation assessments.  The requests of a scenario name versions and runs whose identifiers
   and hashes match; a mismatch is refused like a missing row.                                 *)

VersionOf(r) == rows["versions"][ask[r].version]
Run(r) == rows["runs"][ask[r].run]

(* An assessment of the key, else the agent and its version. *)
FindAssessment(r) ==
  LET k == ask[r].key
  IN /\ At(r, "locked") /\ Assess(r)
     /\ IF Stored("assessments", k)
        THEN IF SameRequest(rows["assessments"][k], r) THEN Return(r, rows["assessments"][k].made)
             ELSE Fail(r, 409)
        ELSE IF ~Stored("versions", ask[r].version) \/ rows["agents"][ask[r].version[1]].archived
        THEN Fail(r, 404)
        ELSE Go(r, "bind")
     /\ UNCHANGED <<ask, rows, now>>

(* The approved policy and the run.  Its status and receipt are read here: the run may end later.
   A bundle is never approved before it is reviewed, so reading the three rows at once only
   spares the request a refusal.                                                                *)
BindPolicyAndRun(r) ==
  /\ At(r, "bind")
  /\ IF ~ApprovalHolds(Bundle(r)) THEN Fail(r, 409)
     ELSE IF ~Stored("runs", ask[r].run) THEN Fail(r, 404)
     ELSE tx' = [tx EXCEPT ![r].pc = "insert", ![r].note = <<Run(r).status>>]
  /\ UNCHANGED <<ask, rows, now>>

Rehearsed == {"synthetic_rehearsal_only", "testnet_evidence_rehearsal"}
Ineligible == {"kavrigo-synthetic", "binance-spot-testnet"}

Events == {rows["events"][k] : k \in DOMAIN rows["events"]}

Entitlement(r) ==
  IF Run(r).licenses # <<>> /\ \E i \in DOMAIN Run(r).licenses : Run(r).licenses[i] \in Ineligible
  THEN Refused("provider_scope_not_eligible")
  ELSE Evaluate(Events, Workspace, Run(r).licenses, VersionOf(r).spec.packs, Run(r).asOf, tx[r].at)

Gates(r) ==
  [policyBinding |-> VersionOf(r).spec.policy = Bundle(r),
   completion |-> Run(r).agentJob /\ tx[r].note[1] = "completed",
   versionBinding |-> Run(r).agentJob /\ Run(r).version = ask[r].version,
   evidence |-> Run(r).notes \cap Rehearsed = {} /\ Run(r).licenses # <<>>,
   entitlement |-> Entitlement(r).passed,
   support |-> FALSE]

(* The entitlements are read and the assessment is stored, dated when the request began: before it
   waited for its lock.  The row also remembers the events known at the time (history).          *)
InsertAssessment(r) ==
  /\ At(r, "insert") /\ Assess(r)
  /\ Insert(r, Over(Write("assessments", ask[r].key,
                          [key |-> ask[r].key, request |-> ask[r].body, by |-> ask[r].user, made |-> r,
                           version |-> ask[r].version, bundle |-> Bundle(r), run |-> ask[r].run,
                           gates |-> Gates(r), refs |-> Entitlement(r).refs, at |-> tx[r].at,
                           known |-> DOMAIN rows["events"]]),
                    Audit(r, "paper_activation_assessed", ask[r].version)),
            ServerError, "returned")
  /\ UNCHANGED <<ask, rows, now>>

(* An operator appends an event to the ledger; no request may. *)
RecordEvent(r) ==
  LET e == ask[r].event
  IN /\ At(r, "idle") /\ ask[r].op = "record event"
     /\ WellFormed(e)
     /\ Insert(r, Write("events", EventKey(e), e), 409, "returned")
     /\ UNCHANGED <<ask, rows, now>>

PolicyStep(r) ==
  \/ OpenPolicyRequest(r) \/ TakeLock(r)
  \/ FindBundle(r) \/ InsertBundle(r) \/ ReadReview(r) \/ ReadApproval(r)
  \/ FindReview(r) \/ InsertReview(r) \/ FindApproval(r) \/ InsertApproval(r)
  \/ FindAssessment(r) \/ BindPolicyAndRun(r) \/ InsertAssessment(r) \/ RecordEvent(r)
===================================================================================
