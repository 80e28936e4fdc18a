------------------------------- MODULE Entitlements -------------------------------
(***************************************************************************)
(* The ledger of data entitlements and its evaluation at two points in     *)
(* time (services/provider_entitlements.py).  An event grants or revokes   *)
(* one provider licence, for everyone or for one workspace.  A provider    *)
(* and its licence reference are one value here; Everyone stands for the   *)
(* missing workspace of a platform event and Forever for no expiry.        *)
(***************************************************************************)
EXTENDS Integers, FiniteSets, Sequences

Everyone == "everyone"
Forever == 1000
RequiredRights == {"application_display", "derived_data", "agent_decision", "historical_storage"}

WellFormed(e) ==
  /\ e.from < e.until
  /\ IF e.action = "revoke" THEN e.rights = {} /\ e.packs = {} /\ ~e.contract
     ELSE /\ e.packs # {}
          /\ IF e.tenant = Everyone THEN e.rights # {} /\ e.contract
             ELSE e.rights = {} /\ ~e.contract

(* data_entitlement_events has one row per tenant, licence and effective time, and its unique
   constraint counts the missing workspace as a value: effective times alone order the events of
   a licence, and the event identifiers never decide.                                           *)
EventKey(e) == <<e.tenant, e.license, e.from>>

Candidates(events, tenant, license, at) ==
  {e \in events : e.tenant = tenant /\ e.license = license /\ e.from <= at}

(* Mutant: the latest grant, whatever came after it. *)
LatestGrant(events, tenant, license, at) ==
  LET grants == {e \in Candidates(events, tenant, license, at) : e.action = "grant"}
  IN {e \in grants : at < e.until /\ \A other \in grants : other.from <= e.from}

(* The grant in force, as a set of at most one event. *)
Effective(events, tenant, license, at) ==
  {e \in Candidates(events, tenant, license, at) :
     /\ \A other \in Candidates(events, tenant, license, at) : other.from <= e.from
     /\ e.action = "grant" /\ at < e.until}

Packs(grants) == UNION {e.packs : e \in grants}

Verified == "provider_entitlement_verified"

First(S) == CHOOSE i \in S : \A j \in S : i <= j

(* What one licence of the evidence is refused for: the first test it fails. *)
Verdict(events, workspace, license, packs, then, now) ==
  LET platformThen == Effective(events, Everyone, license, then)
      platformNow == Effective(events, Everyone, license, now)
      tenantThen == Effective(events, workspace, license, then)
      tenantNow == Effective(events, workspace, license, now)
      covered == Packs(platformThen) \cap Packs(platformNow)
                   \cap Packs(tenantThen) \cap Packs(tenantNow)
      tests ==
        << <<"provider_license_not_effective_for_evidence", platformThen # {}>>,
           <<"provider_license_inactive", platformNow # {}>>,
           <<"provider_rights_insufficient",
             \A e \in platformThen \cup platformNow : RequiredRights \subseteq e.rights>>,
           <<"workspace_entitlement_not_effective_for_evidence", tenantThen # {}>>,
           <<"workspace_entitlement_inactive", tenantNow # {}>>,
           <<"data_pack_not_entitled", packs \subseteq covered>> >>
      failed == {i \in DOMAIN tests : ~tests[i][2]}
  IN IF failed = {} THEN Verified ELSE tests[First(failed)][1]

(* The events an approving evaluation rests on. *)
Grounds(events, workspace, license, then, now) ==
  UNION {Effective(events, tenant, license, at) :
           tenant \in {Everyone, workspace}, at \in {then, now}}

Refused(reason) == [passed |-> FALSE, reason |-> reason, refs |-> {}]

(* Licences are taken in their order and the first refusal is the answer. *)
Evaluate(events, workspace, licenses, packs, then, now) ==
  LET verdict == [i \in DOMAIN licenses |->
                    Verdict(events, workspace, licenses[i], packs, then, now)]
      refused == {i \in DOMAIN licenses : verdict[i] # Verified}
  IN IF licenses = <<>> THEN Refused("provider_evidence_missing")
     ELSE IF refused # {} THEN Refused(verdict[First(refused)])
     ELSE [passed |-> TRUE, reason |-> Verified,
           refs |-> UNION {{EventKey(e) : e \in Grounds(events, workspace, licenses[i], then, now)} :
                             i \in DOMAIN licenses}]
===================================================================================
