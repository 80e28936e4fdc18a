------------------------------ MODULE MCControlPlane ------------------------------
(* Scenarios of at most four requests that race over one store. *)
EXTENDS ControlPlane, TLC

CONSTANTS r1, r2, r3, r4

MCRequests == {r1, r2, r3, r4}

(* Three administrators, a viewer, an administrator without a second factor, and a stranger. *)
MCRole == [ann |-> "admin", bob |-> "admin", cat |-> "owner", vic |-> "viewer", mob |-> "admin",
           out |-> "none"]
MCMfa == [u \in DOMAIN MCRole |-> u # "mob"]

Ask(op, user, key, more) == [op |-> op, user |-> user, key |-> key] @@ more
Asks(a, b, c, d) == r1 :> a @@ r2 :> b @@ r3 :> c @@ r4 :> d

None == [t \in Tables |-> <<>>]
Holding(tables) == tables @@ None
Scenario(tables, asks) == [rows |-> Holding(tables), ask |-> asks]

Spec1 == [policy |-> "b", packs |-> {"pack"}]
Spec2 == [policy |-> "c", packs |-> {"pack"}]

Agent == [agents |-> "a" :> [current |-> 1, archived |-> FALSE],
          versions |-> <<"a", 1>> :> [spec |-> Spec1, by |-> "ann"]]
Bundle1 == [bundles |-> "b" :> [documents |-> "d1", by |-> "ann", made |-> Nobody]]
Advance == [advance |-> TRUE, documents |-> "d1"]
Change == [advance |-> FALSE, documents |-> "d1"]
Approve == [documents |-> "d1"]
Approved ==
  Bundle1 @@ [reviews |-> "b" :> [advance |-> TRUE, documents |-> "d1", key |-> "kr",
                                  request |-> Advance, by |-> "bob", made |-> Nobody],
              approvals |-> "b" :> [documents |-> "d1", key |-> "ka", request |-> Approve,
                                    by |-> "bob", made |-> Nobody]]

Event(action, tenant, from, until) ==
  [action |-> action, tenant |-> tenant, license |-> "l", from |-> from, until |-> until,
   rights |-> IF action = "grant" /\ tenant = Everyone THEN RequiredRights ELSE {},
   packs |-> IF action = "grant" THEN {"pack"} ELSE {},
   contract |-> action = "grant" /\ tenant = Everyone]
Ledger(events) == [events |-> [k \in {EventKey(e) : e \in events} |->
                                 CHOOSE e \in events : EventKey(e) = k]]
Granted == {Event("grant", Everyone, 0, Forever), Event("grant", "acme", 1, Forever)}
Expiring == {Event("grant", Everyone, 0, Forever), Event("grant", "acme", 0, 2)}
Evaluated == [runs |-> "run" :> [version |-> <<"a", 1>>, notes |-> {}, status |-> "queued",
                                 made |-> Nobody, licenses |-> <<"l">>, asOf |-> 1,
                                 agentJob |-> TRUE]]

Create(user, key, name, spec) == Ask("create agent", user, key, [agent |-> name, body |-> spec])
Version(user, key, spec) == Ask("create version", user, key, [agent |-> "a", body |-> spec])
ArchiveIt(user) == Ask("archive agent", user, NoKey, [agent |-> "a"])
Candidate(user, key, documents) == Ask("create bundle", user, key, [body |-> documents])
ReviewIt(user, key, body) == Ask("review", user, key, [bundle |-> "b", body |-> body])
ApproveIt(user, key) == Ask("approve", user, key, [bundle |-> "b", body |-> Approve])
Look == Ask("read bundle", "vic", NoKey, [bundle |-> "b"])
AssessIt(user, run) ==
  Ask("assess", user, "k", [version |-> <<"a", 1>>, bundle |-> "b", run |-> run, body |-> run])
Launch(source) == Ask("rehearse", "ann", "k", [version |-> <<"a", 1>>, source |-> source])
Record(e) == Ask("record event", "ann", NoKey, [event |-> e])
Enter(email) == Ask("sign in", "new", NoKey, [body |-> email])
Found(user) == Ask("create workspace", user, NoKey, [body |-> "acme"])

MCScenarios ==
  { (* agents: a repeated key, a name asked for twice, a key reused for another agent *)
    Scenario(None, Asks(Create("ann", "k", "a", Spec1), Create("ann", "k", "a", Spec1),
                        Create("bob", NoKey, "a", Spec2), Create("ann", "k", "b", Spec2))),
    Scenario(Agent, Asks(Version("ann", "k", Spec2), Version("ann", "k", Spec2),
                         Version("bob", NoKey, Spec2), ArchiveIt("cat"))),
    (* policies *)
    Scenario(None, Asks(Candidate("ann", "b", "d1"), Candidate("ann", "b", "d1"),
                        Candidate("bob", "b", "d2"), Look)),
    Scenario(None, Asks(Candidate("ann", "b", "d1"), ReviewIt("bob", "kr", Advance),
                        ApproveIt("bob", "ka"), Look)),
    Scenario(Bundle1, Asks(ReviewIt("bob", "kr", Advance), ReviewIt("cat", "kc", Change),
                           ApproveIt("bob", "ka"), Look)),
    Scenario(Bundle1, Asks(ReviewIt("ann", "kr", Advance), ReviewIt("bob", "kr", Advance),
                           ApproveIt("bob", "ka"), ApproveIt("cat", "kb"))),
    Scenario(Approved, Asks(ReviewIt("bob", "kr", Advance), ApproveIt("bob", "ka"),
                            Candidate("ann", "b", "d1"), Look)),
    (* assessments, against a ledger that changes *)
    Scenario(Agent @@ Approved @@ Evaluated @@ Ledger(Granted),
             Asks(AssessIt("ann", "run"), AssessIt("ann", "run"),
                  Record(Event("revoke", "acme", 2, Forever)),
                  Record(Event("grant", "acme", 2, Forever)))),
    Scenario(Agent @@ Approved @@ Evaluated @@ Ledger(Expiring),
             Asks(AssessIt("ann", "run"), Record(Event("revoke", Everyone, 1, Forever)),
                  Record(Event("grant", Everyone, 2, Forever)), ArchiveIt("cat"))),
    Scenario(Agent @@ Approved @@ Ledger(Granted),
             Asks(Launch("synthetic"), Launch("testnet"), AssessIt("ann", "k"), ArchiveIt("cat"))),
    Scenario(Agent, Asks(Launch("testnet"), Launch("testnet"), Launch("synthetic"), ArchiveIt("cat"))),
    (* accounts, and who may do what *)
    Scenario(None, Asks(Enter("x"), Enter("y"), Found("ann"), Found("bob"))),
    Scenario(Agent, Asks(Create("vic", "k", "b", Spec1), Candidate("mob", "b", "d1"),
                         ArchiveIt("out"), Candidate("ann", NoKey, "d1"))) }
===================================================================================
