---------------------------- MODULE RunLifecycle ----------------------------
(***************************************************************************)
(* Durable runs (services/workflows: runs.py, activities.py, workflows.py, *)
(* dispatch.py): a frozen run is queued in PostgreSQL, dispatched to a     *)
(* Temporal workflow, and executed by activity attempts whose results are  *)
(* stage rows. Temporal gives up on an attempt that does not report in     *)
(* time and starts another one; the old attempt may still be running, its  *)
(* worker may be dead, and its answer may arrive for nothing. The paper    *)
(* account appears only as its lease and the set of commands it applied    *)
(* (see DurableAccount).                                                   *)
(***************************************************************************)
EXTENDS Integers, Sequences, FiniteSets

CONSTANTS
  Runs,         \* the runs of one workspace that share one paper account
  JobKinds,     \* the kinds of runs explored
  Cycles,       \* reconciliation cycles of a supervision run
  Other,        \* any other writer of the account
  NoStep,       \* no engine_steps row
  Plans,        \* bound: Plans[k] holds, for runs of kind k, the attempts per activity
                \* (3 in workflows.py) in every start of its workflow, one after the other
  MaxOther      \* bound: the other writer takes no lease beyond this token

Kinds  == {"agent", "supervision", "backtest", "health"}
Status == {"completed", "refused", "uncertain"}
Activities == {"evaluate", "execute", "supervise", "backtest", "health", "finish"}

ASSUME RunsAssumption ==
  /\ JobKinds \subseteq Kinds /\ Cycles \in Nat \ {0}
  /\ Other \notin Runs
  /\ MaxOther \in Nat
  /\ \A k \in JobKinds : Plans[k] \subseteq Seq(Nat \ {0})
  /\ NoStep \notin [status : Status \union {"started"},
                     attempt : [run : Runs, stage : Activities \X Nat, start : Nat, try : Nat]]

VARIABLES
  kind,      \* the kind of job in engine_runs.definition
  tries,     \* bound: tries[r][n], the attempts per activity in the n-th start
  status,    \* engine_runs.status; other than "queued": final_receipt is set
  steps,     \* steps[r][s]: the engine_steps row [status, attempt], or NoStep
  event,     \* the run.queued outbox event: "none", "pending", "delivered"
  acking,    \* runs whose start the dispatcher has not acknowledged yet
  wf,        \* wf[r]: the Temporal workflow [state, stage, start, try]
  act,       \* act[a]: the execution of attempt a on a worker
  account,   \* the account's lease [owner, token, live, by]
  applied,   \* the account commands in the journal, <<run, stage>>
  calls      \* history: model dispatches of each run

vars == <<kind, tries, status, steps, event, acking, wf, act, account, applied, calls>>

dbVars == <<kind, tries, status, steps>>
temporalVars == <<event, acking, wf>>
-----------------------------------------------------------------------------
(* Stages a workflow passes; every stage but resolve has a stage row.      *)
FirstStage(r) == CASE kind[r] = "agent"       -> <<"evaluate", 0>>
                   [] kind[r] = "supervision" -> <<"supervise", 0>>
                   [] kind[r] = "backtest"    -> <<"backtest", 0>>
                   [] kind[r] = "health"      -> <<"health", 0>>

Evaluate  == <<"evaluate", 0>>
Execute   == <<"execute", 0>>
Finish    == <<"finish", 0>>
Resolve   == <<"resolve", 0>>
Over      == <<"over", 0>>

StagesOf(r) == {Finish} \union
  CASE kind[r] = "agent"       -> {Evaluate, Execute}
    [] kind[r] = "supervision" -> {<<"supervise", i>> : i \in 0..(Cycles - 1)}
    [] OTHER                   -> {FirstStage(r)}

Stages   == UNION {StagesOf(r) : r \in Runs}
Attempts == UNION {UNION {[run : {r}, stage : StagesOf(r), start : {n}, try : 1..tries[r][n]]
                     : n \in 1..Len(tries[r])} : r \in Runs}

Idle == [pc |-> "none", result |-> "none", token |-> 0, fresh |-> FALSE]

PCs == {"none", "begun", "unsaved", "claimed", "calling", "answered", "leased", "releasing",
        "reporting", "gone"}

Results == Status \union {"none", "retry", "fatal"}

Row == [status : Status \union {"started"}, attempt : Attempts]

TypeOK ==
  /\ kind \in [Runs -> JobKinds] /\ tries \in [Runs -> Seq(Nat \ {0})]
  /\ status \in [Runs -> Status \union {"absent", "queued"}]
  /\ steps \in [Runs -> [Stages -> Row \union {NoStep}]]
  /\ event \in [Runs -> {"none", "pending", "delivered"}]
  /\ acking \subseteq Runs
  /\ wf \in [Runs -> [state : {"none", "running", "failed", "completed"},
                     stage : Stages \union {Resolve, Over}, start : Nat, try : Nat]]
  /\ \A r \in Runs : /\ wf[r].stage \in StagesOf(r) \union {Resolve, Over}
                     /\ wf[r].start <= Len(tries[r])
                     /\ wf[r].start > 0 => wf[r].try \in 1..tries[r][wf[r].start]
  /\ act \in [Attempts -> [pc : PCs, result : Results, token : Nat, fresh : BOOLEAN]]
  /\ account \in [owner : Runs \union {Other}, token : Nat, live : BOOLEAN,
                  by : Attempts \union {Other}]
  /\ applied \subseteq Runs \X Stages
  /\ calls \in [Runs -> Nat]

Init ==
  /\ kind \in [Runs -> JobKinds]
  /\ tries \in [Runs -> UNION {Plans[k] : k \in JobKinds}]
  /\ \A r \in Runs : tries[r] \in Plans[kind[r]]
  /\ status = [r \in Runs |-> "absent"]
  /\ steps = [r \in Runs |-> [s \in Stages |-> NoStep]]
  /\ event = [r \in Runs |-> "none"]
  /\ acking = {}
  /\ wf = [r \in Runs |-> [state |-> "none", stage |-> Over, start |-> 0, try |-> 1]]
  /\ act = [a \in Attempts |-> Idle]
  /\ account = [owner |-> Other, token |-> 0, live |-> FALSE, by |-> Other]
  /\ applied = {}
  /\ calls = [r \in Runs |-> 0]
-----------------------------------------------------------------------------
(* Creation and dispatch.                                                  *)

(* RunRepository.create: the run and its outbox event appear together.     *)
Create(r) ==
  /\ status[r] = "absent"
  /\ status' = [status EXCEPT ![r] = "queued"]
  /\ event' = [event EXCEPT ![r] = "pending"]
  /\ UNCHANGED <<kind, tries, steps, acking, wf, act, account, applied, calls>>

StartOnlyNew(r) ==
  /\ event[r] = "pending" /\ r \notin acking
  /\ wf[r].state = "none" /\ wf[r].start < Len(tries[r])
  /\ wf' = [wf EXCEPT ![r] = [state |-> "running", stage |-> Resolve,
                              start |-> wf[r].start + 1, try |-> 1]]
  /\ acking' = acking \union {r}
  /\ UNCHANGED <<dbVars, event, act, account, applied, calls>>

(* dispatch_pending reads an undelivered event and start_run starts the    *)
(* workflow; an id that was started before is rejected, which is success.  *)
DispatchStart(r) ==
  /\ event[r] = "pending" /\ r \notin acking
  /\ \/ wf[r].state # "none" /\ UNCHANGED wf
     \/ /\ wf[r].state = "none" /\ wf[r].start < Len(tries[r])
        /\ wf' = [wf EXCEPT ![r] = [state |-> "running", stage |-> Resolve,
                                    start |-> wf[r].start + 1, try |-> 1]]
  /\ acking' = acking \union {r}
  /\ UNCHANGED <<dbVars, event, act, account, applied, calls>>

DispatchAck(r) ==
  /\ r \in acking
  /\ event' = [event EXCEPT ![r] = "delivered"]
  /\ acking' = acking \ {r}
  /\ UNCHANGED <<dbVars, wf, act, account, applied, calls>>

(* The dispatcher fails between the start and its acknowledgement.         *)
DispatchLost(r) ==
  /\ r \in acking
  /\ acking' = acking \ {r}
  /\ UNCHANGED <<dbVars, event, wf, act, account, applied, calls>>

(* Temporal forgets a closed workflow after its retention period: the id   *)
(* can be started again.                                                   *)
HistoryExpires(r) ==
  /\ wf[r].state \in {"failed", "completed"} /\ wf[r].start < Len(tries[r])
  /\ wf' = [wf EXCEPT ![r].state = "none"]
  /\ UNCHANGED <<dbVars, event, acking, act, account, applied, calls>>
-----------------------------------------------------------------------------
(* The workflow, on Temporal's side.                                       *)

Current(r) == [run |-> r, stage |-> wf[r].stage, start |-> wf[r].start, try |-> wf[r].try]

IsCurrent(a) ==
  wf[a.run].state = "running" /\ wf[a.run].stage # Resolve /\ a = Current(a.run)

(* workflows.py: the stage after s, given the status s returned.           *)
NextStage(r, s, st) ==
  CASE s = Evaluate /\ st = "completed" -> Execute
    [] s[1] = "supervise" /\ st = "completed" /\ s[2] + 1 < Cycles
                                        -> <<"supervise", s[2] + 1>>
    [] s = Finish                       -> Over
    [] OTHER                            -> Finish

Advance(r, stage) ==
  wf' = [wf EXCEPT ![r].stage = stage, ![r].try = 1,
                   ![r].state = IF stage = Over THEN "completed" ELSE "running"]

FailWorkflow(r) == wf' = [wf EXCEPT ![r].state = "failed"]

(* A try is used up: another one, or the activity fails and with it the    *)
(* workflow, which nothing catches.                                        *)
RetryOrFail(r) ==
  IF wf[r].try < tries[r][wf[r].start] THEN wf' = [wf EXCEPT ![r].try = wf[r].try + 1]
                          ELSE FailWorkflow(r)

ResolveRun(r) ==
  /\ wf[r].state = "running" /\ wf[r].stage = Resolve
  /\ Advance(r, FirstStage(r)) \/ FailWorkflow(r)
  /\ UNCHANGED <<dbVars, event, acking, act, account, applied, calls>>

(* The current attempt has begun and does not report in time, whatever has *)
(* become of it; or the activity, its attempts and their queueing together *)
(* have taken too long.                                                    *)
Timeout(r) ==
  /\ wf[r].state = "running" /\ wf[r].stage # Resolve
  /\ \/ act[Current(r)].pc # "none" /\ RetryOrFail(r)
     \/ FailWorkflow(r)
  /\ UNCHANGED <<dbVars, event, acking, act, account, applied, calls>>

(* An attempt reports; Temporal ignores one it has given up.               *)
Report(a) ==
  /\ act[a].pc = "reporting"
  /\ act' = [act EXCEPT ![a] = [Idle EXCEPT !.pc = "gone"]]
  /\ \/ ~IsCurrent(a) /\ UNCHANGED wf
     \/ IsCurrent(a) /\ act[a].result = "retry" /\ RetryOrFail(a.run)
     \/ IsCurrent(a) /\ act[a].result = "fatal" /\ FailWorkflow(a.run)
     \/ /\ IsCurrent(a) /\ act[a].result \in Status
        /\ Advance(a.run, NextStage(a.run, a.stage, act[a].result))
  /\ UNCHANGED <<dbVars, event, acking, account, applied, calls>>
-----------------------------------------------------------------------------
(* Activity attempts on the workers.                                       *)

At(a, pc) == act[a].pc = pc

(* An attempt moves on; its lease object matters no longer than it writes. *)
Goto(a, pc, result) ==
  act' = [act EXCEPT ![a] =
            [pc |-> pc, result |-> result,
             token |-> IF pc = "releasing" THEN @.token ELSE 0, fresh |-> FALSE]]

Step(a) == steps[a.run][a.stage]

Record(a, st) ==
  steps' = [steps EXCEPT ![a.run][a.stage] = [status |-> st, attempt |-> a]]

(* The worker receives the task.                                           *)
Begin(a) ==
  /\ At(a, "none") /\ IsCurrent(a)
  /\ Goto(a, "begun", "none")
  /\ UNCHANGED <<dbVars, temporalVars, account, applied, calls>>

(* A worker dies, or hangs for good: what the attempt holds in memory is   *)
(* lost, its lease is not.                                                 *)
Crash(a) ==
  /\ act[a].pc \notin {"none", "gone"}
  /\ Goto(a, "gone", "none")
  /\ UNCHANGED <<dbVars, temporalVars, account, applied, calls>>

(* A database or provider failure: the attempt reports a retryable error,  *)
(* after the finally clause if it holds a lease.                           *)
Unavailable(a) ==
  /\ \/ act[a].pc \in {"begun", "unsaved", "claimed", "calling", "answered"}
        /\ Goto(a, "reporting", "retry")
     \/ At(a, "leased") /\ Goto(a, "releasing", "retry")
  /\ UNCHANGED <<dbVars, temporalVars, account, applied, calls>>

ClaimAgain(a) ==
  /\ a.stage = Evaluate /\ At(a, "begun")
  /\ IF Step(a) = NoStep \/ Step(a).status = "started"
     THEN Record(a, "started") /\ Goto(a, "claimed", "none")
     ELSE UNCHANGED steps /\ Goto(a, "reporting", Step(a).status)
  /\ UNCHANGED <<kind, tries, status, temporalVars, account, applied, calls>>

(* claim_dispatch: the marker is committed before the provider is called.  *)
(* Finding an earlier marker without a receipt records uncertain, under    *)
(* the earlier attempt's id.                                               *)
Claim(a) ==
  /\ a.stage = Evaluate /\ At(a, "begun")
  /\ \/ /\ Step(a) = NoStep
        /\ Record(a, "started") /\ Goto(a, "claimed", "none")
     \/ /\ Step(a) # NoStep /\ Step(a).status = "started"
        /\ steps' = [steps EXCEPT ![a.run][a.stage].status = "uncertain"]
        /\ Goto(a, "reporting", "uncertain")
     \/ /\ Step(a) # NoStep /\ Step(a).status # "started"
        /\ UNCHANGED steps /\ Goto(a, "reporting", Step(a).status)
  /\ UNCHANGED <<kind, tries, status, temporalVars, account, applied, calls>>

(* The provider is called, or no runtime is configured.                    *)
Dispatch(a) ==
  /\ At(a, "claimed")
  /\ \/ calls' = [calls EXCEPT ![a.run] = @ + 1] /\ Goto(a, "calling", "none")
     \/ Goto(a, "answered", "refused") /\ UNCHANGED calls
  /\ UNCHANGED <<dbVars, temporalVars, account, applied>>

(* The model answers; a result that does not match the request is refused  *)
(* for good and leaves the marker behind.                                  *)
ModelAnswers(a) ==
  /\ At(a, "calling")
  /\ \/ \E st \in {"completed", "refused"} : Goto(a, "answered", st)
     \/ Goto(a, "reporting", "fatal")
  /\ UNCHANGED <<dbVars, temporalVars, account, applied, calls>>

LateAnswerWins(a) ==
  /\ At(a, "answered")
  /\ Record(a, act[a].result) /\ Goto(a, "reporting", act[a].result)
  /\ UNCHANGED <<kind, tries, status, temporalVars, account, applied, calls>>

(* finish_stage for the answer: only the attempt that owns the marker may  *)
(* replace it, and a terminal row is returned as it is.                    *)
FinishEvaluate(a) ==
  /\ At(a, "answered")
  /\ \/ /\ Step(a) # NoStep /\ Step(a).status = "started" /\ Step(a).attempt = a
        /\ Record(a, act[a].result) /\ Goto(a, "reporting", act[a].result)
     \/ /\ Step(a) # NoStep /\ Step(a).status = "started" /\ Step(a).attempt # a
        /\ UNCHANGED steps /\ Goto(a, "reporting", "fatal")
     \/ /\ Step(a) # NoStep /\ Step(a).status # "started"
        /\ UNCHANGED steps /\ Goto(a, "reporting", Step(a).status)
  /\ UNCHANGED <<kind, tries, status, temporalVars, account, applied, calls>>
-----------------------------------------------------------------------------
(* Stages that write to the account: execute and supervise.                *)

Writes(a) == a.stage = Execute \/ a.stage[1] = "supervise"

(* A stage already recorded is returned.                                   *)
LookUpStage(a) ==
  /\ Writes(a) /\ At(a, "begun")
  /\ IF Step(a) # NoStep THEN Goto(a, "reporting", Step(a).status)
                         ELSE Goto(a, "unsaved", "none")
  /\ UNCHANGED <<dbVars, temporalVars, account, applied, calls>>

(* The account is leased for the run, or is busy.                          *)
AcquireLease(a) ==
  /\ At(a, "unsaved")
  /\ \/ /\ account.live /\ account.owner # a.run
        /\ Goto(a, "reporting", "retry")
        /\ UNCHANGED account
     \/ /\ ~(account.live /\ account.owner # a.run)
        /\ LET token == IF account.live THEN account.token ELSE account.token + 1 IN
             /\ account' = [owner |-> a.run, token |-> token, live |-> TRUE, by |-> a]
             /\ act' = [act EXCEPT ![a] = [pc |-> "leased", result |-> "none",
                                           token |-> token, fresh |-> TRUE]]
  /\ UNCHANGED <<dbVars, temporalVars, applied, calls>>

(* The lease check of commit_in_transaction.                               *)
Leased(a) ==
  /\ account.live /\ account.owner = a.run
  /\ account.token = act[a].token /\ act[a].fresh

ApplyAndRecord(a, st) ==
  /\ applied' = applied \union {<<a.run, a.stage>>}
  /\ Record(a, st)
  /\ Goto(a, "releasing", st)

RefuseWrite(a) ==
  Goto(a, "releasing", "fatal") /\ UNCHANGED <<steps, applied>>

EvaluationCompleted(r) ==
  steps[r][Evaluate] # NoStep /\ steps[r][Evaluate].status = "completed"

WriteStageInTwo(a) ==
  /\ Writes(a) /\ At(a, "leased")
  /\ a.stage = Execute => EvaluationCompleted(a.run)
  /\ \/ Step(a) = NoStep /\ Leased(a) /\ ApplyAndRecord(a, "completed")
     \/ /\ Step(a) = NoStep /\ Leased(a)
        /\ applied' = applied \union {<<a.run, a.stage>>}
        /\ Goto(a, "releasing", "retry") /\ UNCHANGED steps
     \/ RefuseWrite(a)
  /\ UNCHANGED <<kind, tries, status, temporalVars, account, calls>>

(* The stage transaction: run row locked, stage looked up again, command   *)
(* and stage row written together, so a command is never found recorded    *)
(* without its row. An abstention writes the row alone; a missing or       *)
(* incomplete evaluation, a stale lease, a changed portfolio or a refusal  *)
(* of the machine write nothing and are final.                             *)
WriteStage(a) ==
  /\ Writes(a) /\ At(a, "leased")
  /\ \/ /\ Step(a) # NoStep
        /\ Goto(a, "releasing", Step(a).status) /\ UNCHANGED <<steps, applied>>
     \/ /\ Step(a) = NoStep /\ a.stage = Execute /\ EvaluationCompleted(a.run)
        /\ Record(a, "completed") /\ Goto(a, "releasing", "completed")
        /\ UNCHANGED applied
     \/ /\ Step(a) = NoStep
        /\ a.stage = Execute => EvaluationCompleted(a.run)
        /\ Leased(a)
        /\ \E st \in (IF a.stage = Execute THEN {"completed"} ELSE {"completed", "refused"}) :
             ApplyAndRecord(a, st)
     \/ Step(a) = NoStep /\ RefuseWrite(a)
  /\ UNCHANGED <<kind, tries, status, temporalVars, account, calls>>

(* The finally clause ends the lease if the row still has it. When that    *)
(* fails too, its error is what the attempt reports.                       *)
ReleaseLease(a) ==
  /\ At(a, "releasing")
  /\ \/ /\ account' = IF account.owner = a.run /\ account.token = act[a].token
                      THEN [account EXCEPT !.live = FALSE] ELSE account
        /\ Goto(a, "reporting", act[a].result)
     \/ UNCHANGED account /\ Goto(a, "reporting", "retry")
  /\ UNCHANGED <<dbVars, temporalVars, applied, calls>>

(* Time: the lease runs out for everyone, or only for a holder whose lease *)
(* a sibling attempt has extended.                                         *)
LeaseExpires ==
  /\ account.live
  /\ account' = [account EXCEPT !.live = FALSE]
  /\ act' = [a \in Attempts |-> IF act[a].token = account.token
                                THEN [act[a] EXCEPT !.fresh = FALSE] ELSE act[a]]
  /\ UNCHANGED <<dbVars, temporalVars, applied, calls>>

HolderExpires(a) ==
  /\ At(a, "leased") /\ act[a].fresh /\ account.by # a
  /\ act' = [act EXCEPT ![a].fresh = FALSE]
  /\ UNCHANGED <<dbVars, temporalVars, account, applied, calls>>

OtherAcquires ==
  /\ ~account.live /\ account.token < MaxOther
  /\ account' = [owner |-> Other, token |-> account.token + 1, live |-> TRUE, by |-> Other]
  /\ UNCHANGED <<dbVars, temporalVars, act, applied, calls>>
-----------------------------------------------------------------------------
(* Stages of one transaction: backtest, health and finish.                 *)

RunOnce(a) ==
  /\ a.stage[1] \in {"backtest", "health"} /\ At(a, "begun")
  /\ \/ /\ Step(a) # NoStep
        /\ Goto(a, "reporting", Step(a).status) /\ UNCHANGED steps
     \/ /\ Step(a) = NoStep
        /\ \E st \in {"completed", "refused"} :
             Record(a, st) /\ Goto(a, "reporting", st)
     \/ /\ Step(a) = NoStep /\ a.stage[1] = "backtest"
        /\ Goto(a, "reporting", "fatal") /\ UNCHANGED steps
  /\ UNCHANGED <<kind, tries, status, temporalVars, account, applied, calls>>

Recorded(r) == {s \in StagesOf(r) : steps[r][s] # NoStep}

StatusOf(r, s) == steps[r][s].status

(* The stages finish_run insists on.                                       *)
Complete(r) ==
  /\ FirstStage(r) \in Recorded(r)
  /\ kind[r] = "agent" /\ StatusOf(r, Evaluate) = "completed" => Execute \in Recorded(r)
  /\ kind[r] = "supervision" /\ (\A s \in Recorded(r) : StatusOf(r, s) = "completed")
       => StagesOf(r) \ {Finish} \subseteq Recorded(r)

FinalStatusOptimistic(r) ==
  IF \E s \in Recorded(r) : StatusOf(r, s) = "refused" THEN "refused" ELSE "completed"

FinalStatus(r) ==
  IF \E s \in Recorded(r) : StatusOf(r, s) \in {"started", "uncertain"} THEN "uncertain"
  ELSE IF \E s \in Recorded(r) : StatusOf(r, s) = "refused" THEN "refused"
  ELSE "completed"

(* finish_run: the final receipt is written once and then returned.        *)
FinishRun(a) ==
  /\ a.stage = Finish /\ At(a, "begun")
  /\ \/ /\ status[a.run] # "queued"
        /\ Goto(a, "reporting", status[a.run])
        /\ UNCHANGED dbVars
     \/ /\ status[a.run] = "queued" /\ Complete(a.run)
        /\ status' = [status EXCEPT ![a.run] = FinalStatus(a.run)]
        /\ Record(a, FinalStatus(a.run))
        /\ Goto(a, "reporting", FinalStatus(a.run))
        /\ UNCHANGED <<kind, tries>>
     \/ /\ status[a.run] = "queued" /\ ~Complete(a.run)
        /\ Goto(a, "reporting", "fatal")
        /\ UNCHANGED dbVars
  /\ UNCHANGED <<temporalVars, account, applied, calls>>
-----------------------------------------------------------------------------
AttemptStep(a) ==
  \/ Begin(a) \/ Crash(a) \/ Unavailable(a) \/ Report(a)
  \/ Claim(a) \/ Dispatch(a) \/ ModelAnswers(a) \/ FinishEvaluate(a)
  \/ LookUpStage(a) \/ AcquireLease(a) \/ WriteStage(a) \/ ReleaseLease(a)
  \/ HolderExpires(a)
  \/ RunOnce(a) \/ FinishRun(a)

Next ==
  \/ \E r \in Runs : \/ Create(r) \/ DispatchStart(r) \/ DispatchAck(r) \/ DispatchLost(r)
                     \/ HistoryExpires(r) \/ ResolveRun(r) \/ Timeout(r)
  \/ \E a \in Attempts : AttemptStep(a)
  \/ LeaseExpires \/ OtherAcquires

Spec == Init /\ [][Next]_vars

(* The dispatch loop runs every two seconds and loses its acknowledgement  *)
(* only now and then; Temporal resolves, and gives up on every attempt     *)
(* that does not report (start_to_close_timeout). Workers, the provider    *)
(* and the database owe nothing.                                           *)
Fairness ==
  \A r \in Runs : /\ WF_vars(DispatchStart(r)) /\ SF_vars(DispatchAck(r))
                  /\ WF_vars(ResolveRun(r)) /\ WF_vars(Timeout(r))

FairSpec == Spec /\ Fairness
-----------------------------------------------------------------------------
(* Properties.                                                             *)

(* "Unknown model dispatch is never repeated" (runs.py:1): crashes,        *)
(* retries, stalled attempts and a second start of the workflow together   *)
(* reach the provider at most once per run.                                *)
OneModelDispatch == \A r \in Runs : calls[r] <= 1

(* Orders reach the account only for an evaluation that is, and stays,     *)
(* completed.                                                              *)
OrdersNeedEvaluation ==
  \A r \in Runs : <<r, Execute>> \in applied =>
    EvaluationCompleted(r) /\ steps[r][Execute] # NoStep

(* A final status tells what happened to every stage of the run, and a     *)
(* workflow completes only over a run that has one.                        *)
FinalStatusIsTrue ==
  \A r \in Runs : status[r] \in Status =>
    /\ \A s \in Stages : <<r, s>> \in applied => steps[r][s] # NoStep
    /\ status[r] = "completed" <=>
         \A s \in StagesOf(r) : steps[r][s] # NoStep /\ StatusOf(r, s) = "completed"
    /\ status[r] = "uncertain" <=>
         \E s \in Recorded(r) \ {Finish} : StatusOf(r, s) = "uncertain"

CompletedMeansFinished ==
  \A r \in Runs : wf[r].state = "completed" => status[r] \in Status

(* What is recorded is what happened: an uncertain or refused evaluation   *)
(* trades nothing even if the provider's answer arrives later              *)
(* (durable-workflows.md:28-31), a completed run is one that ran all its   *)
(* stages, and no completed workflow leaves its run open.                  *)
RecordsAreTrue ==
  OrdersNeedEvaluation /\ FinalStatusIsTrue /\ CompletedMeansFinished

(* Nothing is added to a finished run and no terminal stage result is ever *)
(* rewritten, whatever stalled attempts still do.                          *)
ResultsAreFinal ==
  [][\A r \in Runs :
       /\ status[r] \in Status => status'[r] = status[r] /\ steps'[r] = steps[r]
       /\ \A s \in Stages : steps[r][s] # NoStep /\ StatusOf(r, s) # "started" =>
            steps'[r][s] = steps[r][s]]_vars

(* Every queued run is handed to Temporal, and its workflow comes to an    *)
(* end, however many attempts die or hang.                                 *)
EveryRunEnds ==
  \A r \in Runs :
    /\ (event[r] = "pending") ~> (event[r] = "delivered")
    /\ (wf[r].state = "running") ~> (wf[r].state \in {"completed", "failed"})
=============================================================================
