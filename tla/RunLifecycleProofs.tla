--------------------------- MODULE RunLifecycleProofs ---------------------------
(***************************************************************************)
(* Proofs about RunLifecycle, for any runs, attempts, starts and cycles.   *)
(* IInv rests on two facts: the attempt named by the dispatch marker is    *)
(* the only one that may still call the provider, and an attempt of a      *)
(* stage has only ever begun over terminal rows of the stages before it.   *)
(***************************************************************************)
EXTENDS RunLifecycle, TLAPS

Terminal(r, s) == steps[r][s] # NoStep /\ StatusOf(r, s) \in Status

Completed(r, s) == steps[r][s] # NoStep /\ StatusOf(r, s) = "completed"

(* The stage is the last one of its workflow, or ended it.                 *)
Ends(r, s) == NextStage(r, s, StatusOf(r, s)) = Finish

(* What a workflow has seen of the stages before s when it comes to s.     *)
Before(r, s) ==
  /\ s = Execute => Completed(r, Evaluate)
  /\ s[1] = "supervise" => \A i \in 0..(s[2] - 1) : Completed(r, <<"supervise", i>>)

Settled(r) ==
  \E s \in StagesOf(r) \ {Finish} : Before(r, s) /\ Terminal(r, s) /\ Ends(r, s)

Ready(r, s) == Before(r, s) /\ (s = Finish => Settled(r))

(* An attempt that may still call the provider, or hold its answer, is the
   one the marker names.                                                   *)
MarkerIsOwned ==
  /\ \A a \in Attempts : act[a].pc \in {"claimed", "calling", "answered"} =>
       /\ a.stage = Evaluate
       /\ steps[a.run][Evaluate] # NoStep /\ steps[a.run][Evaluate].attempt = a
  /\ \A a \in Attempts : act[a].pc = "claimed" => calls[a.run] = 0
  /\ \A r \in Runs : /\ calls[r] <= 1
                     /\ kind[r] = "agent" /\ steps[r][Evaluate] = NoStep => calls[r] = 0

RowsAreSound ==
  /\ \A r \in Runs : \A s \in StagesOf(r) : steps[r][s] # NoStep /\ s # Evaluate => Terminal(r, s)
  /\ \A r \in Runs :
       IF status[r] \in Status THEN steps[r][Finish] # NoStep /\ StatusOf(r, Finish) = status[r]
       ELSE steps[r][Finish] = NoStep
  /\ \A r \in Runs, s \in Stages : <<r, s>> \in applied => steps[r][s] # NoStep

ResultsAreRecorded ==
  /\ \A a \in Attempts : act[a].pc \in {"releasing", "reporting"} => act[a].result # "none"
  /\ \A a \in Attempts : act[a].pc = "answered" => act[a].result \in Status
  /\ \A a \in Attempts : act[a].pc \in {"releasing", "reporting"} /\ act[a].result \in Status =>
       IF a.stage = Finish THEN status[a.run] \in Status
       ELSE Terminal(a.run, a.stage) /\ StatusOf(a.run, a.stage) = act[a].result

StagesInOrder ==
  /\ \A a \in Attempts : act[a].pc # "none" => Ready(a.run, a.stage)
  /\ \A r \in Runs : wf[r].stage \in StagesOf(r) => Ready(r, wf[r].stage)
  /\ \A r \in Runs : status[r] \in Status => Settled(r)

(* Nothing is known of a run that was not created.                         *)
RunsExist ==
  /\ \A r \in Runs : status[r] = "absent" =>
       event[r] = "none" /\ r \notin acking /\ wf[r].state = "none"
  /\ \A a \in Attempts : act[a].pc # "none" => status[a.run] # "absent"

IInv ==
  /\ TypeOK
  /\ RunsExist
  /\ MarkerIsOwned
  /\ RowsAreSound
  /\ ResultsAreRecorded
  /\ StagesInOrder
  /\ RecordsAreTrue

-----------------------------------------------------------------------------
(* Stages.                                                                 *)

LEMMA StageNames ==
  /\ Evaluate # Execute /\ Evaluate # Finish /\ Execute # Finish
  /\ Resolve \notin {Evaluate, Execute, Finish, Over} /\ Over \notin {Evaluate, Execute, Finish}
  /\ \A n : /\ <<n, 0>>[1] = n
            /\ n \notin {"evaluate", "execute", "finish", "resolve", "over"} =>
                 \A i \in Int : <<n, i>> \notin {Evaluate, Execute, Finish, Resolve, Over}
  /\ Evaluate[1] = "evaluate" /\ Execute[1] = "execute" /\ Finish[1] = "finish"
BY DEF Evaluate, Execute, Finish, Resolve, Over

Supervised == {<<"supervise", i>> : i \in 0..(Cycles - 1)}
Backtest == <<"backtest", 0>>
Health == <<"health", 0>>

LEMMA StagesByKind ==
  ASSUME TypeOK, NEW r \in Runs
  PROVE  /\ kind[r] \in {"agent", "supervision", "backtest", "health"}
         /\ kind[r] = "agent" =>
              StagesOf(r) = {Evaluate, Execute, Finish} /\ FirstStage(r) = Evaluate
         /\ kind[r] = "supervision" =>
              StagesOf(r) = Supervised \union {Finish} /\ FirstStage(r) = <<"supervise", 0>>
         /\ kind[r] = "backtest" => StagesOf(r) = {Backtest, Finish} /\ FirstStage(r) = Backtest
         /\ kind[r] = "health" => StagesOf(r) = {Health, Finish} /\ FirstStage(r) = Health
<1>1. kind[r] \in {"agent", "supervision", "backtest", "health"}
  BY RunsAssumption DEF TypeOK, Kinds
<1>2. CASE kind[r] = "agent"
  BY <1>2 DEF StagesOf, FirstStage, Evaluate, Execute
<1>3. CASE kind[r] = "supervision"
  BY <1>3 DEF StagesOf, FirstStage, Supervised
<1>4. CASE kind[r] = "backtest"
  BY <1>4 DEF StagesOf, FirstStage, Backtest
<1>5. CASE kind[r] = "health"
  BY <1>5 DEF StagesOf, FirstStage, Health
<1>6. QED
  BY <1>1, <1>2, <1>3, <1>4, <1>5

LEMMA StageShape ==
  ASSUME TypeOK, NEW r \in Runs
  PROVE  /\ StagesOf(r) \subseteq Stages /\ Finish \in StagesOf(r) /\ FirstStage(r) \in StagesOf(r)
         /\ FirstStage(r) # Finish
         /\ Evaluate \in StagesOf(r) <=> kind[r] = "agent"
         /\ Execute \in StagesOf(r) <=> kind[r] = "agent"
         /\ \A s \in StagesOf(r) : /\ s \notin {Resolve, Over}
                                   /\ s[1] = "supervise" <=> s \in Supervised /\ kind[r] = "supervision"
                                   /\ s[1] \in {"backtest", "health"} => s = FirstStage(r)
<1>1. 0 \in 0..(Cycles - 1)
  BY RunsAssumption
<1>2. Finish \in StagesOf(r) /\ FirstStage(r) \in StagesOf(r) /\ FirstStage(r) # Finish
  BY <1>1, StagesByKind DEF Supervised, Backtest, Health, Evaluate, Finish
<1>3. StagesOf(r) \subseteq Stages
  BY DEF Stages
<1>4. /\ Evaluate \in StagesOf(r) <=> kind[r] = "agent"
      /\ Execute \in StagesOf(r) <=> kind[r] = "agent"
  BY StagesByKind DEF Supervised, Backtest, Health, Evaluate, Execute, Finish
<1>5. \A s \in StagesOf(r) : s \notin {Resolve, Over}
  BY StagesByKind DEF Supervised, Backtest, Health, Evaluate, Execute, Finish, Resolve, Over
<1>6. \A s \in StagesOf(r) : s[1] = "supervise" <=> s \in Supervised /\ kind[r] = "supervision"
  BY StagesByKind DEF Supervised, Backtest, Health, Evaluate, Execute, Finish
<1>7. \A s \in StagesOf(r) : s[1] \in {"backtest", "health"} => s = FirstStage(r)
  BY StagesByKind DEF Supervised, Backtest, Health, Evaluate, Execute, Finish
<1>8. QED
  BY <1>2, <1>3, <1>4, <1>5, <1>6, <1>7

(* A workflow goes on to a stage whose predecessors it has seen, and is over only after finish. *)
LEMMA NextStageReady ==
  ASSUME TypeOK, NEW r \in Runs, NEW s \in StagesOf(r), NEW st \in Status
  PROVE  LET next == NextStage(r, s, st)
         IN  /\ s = Finish => next = Over
             /\ s # Finish => next \in StagesOf(r)
             /\ s # Finish /\ Before(r, s) /\ Terminal(r, s) /\ StatusOf(r, s) = st => Ready(r, next)
<1> DEFINE next == NextStage(r, s, st)
<1>1. CASE s = Finish
  <2>1. next = Over
    BY <1>1, StageNames DEF NextStage, Finish, Evaluate
  <2>2. QED
    BY <1>1, <2>1
<1>2. CASE s = Evaluate /\ st = "completed"
  <2>1. next = Execute
    BY <1>2, StageNames DEF NextStage
  <2>2. Execute \in StagesOf(r)
    BY <1>2, StageShape
  <2>3. Terminal(r, s) /\ StatusOf(r, s) = st => Completed(r, Evaluate)
    BY <1>2 DEF Terminal, Completed
  <2>4. QED
    BY <1>2, <2>1, <2>2, <2>3, StageNames DEF Ready, Before
<1>3. CASE s[1] = "supervise" /\ st = "completed" /\ s[2] + 1 < Cycles
  <2>1. PICK i \in 0..(Cycles - 1) : s = <<"supervise", i>> /\ kind[r] = "supervision"
    BY <1>3, StageShape DEF Supervised
  <2>2. next = <<"supervise", i + 1>>
    BY <1>3, <2>1, StageNames DEF NextStage, Evaluate
  <2>3. i + 1 \in 0..(Cycles - 1)
    BY <1>3, <2>1, RunsAssumption
  <2>4. next \in StagesOf(r)
    BY <2>1, <2>2, <2>3, StagesByKind DEF Supervised
  <2>5. s # Finish /\ next # Execute /\ next # Finish
    BY <2>1, <2>2 DEF Finish, Execute
  <2>6. ASSUME Before(r, s), Terminal(r, s), StatusOf(r, s) = st PROVE Ready(r, next)
    <3>1. \A j \in 0..(i - 1) : Completed(r, <<"supervise", j>>)
      BY <2>1, <2>6 DEF Before
    <3>2. Completed(r, <<"supervise", i>>)
      BY <1>3, <2>1, <2>6 DEF Terminal, Completed
    <3>3. \A j \in 0..i : Completed(r, <<"supervise", j>>)
      <4>1. \A j \in 0..i : j \in 0..(i - 1) \/ j = i
        BY RunsAssumption
      <4>2. QED
        BY <3>1, <3>2, <4>1
    <3>4. next[1] = "supervise" /\ next[2] - 1 = i
      BY <2>2
    <3>5. QED
      BY <2>5, <3>3, <3>4 DEF Ready, Before
  <2>7. QED
    BY <2>4, <2>5, <2>6
<1>4. CASE /\ s # Finish /\ ~(s = Evaluate /\ st = "completed")
           /\ ~(s[1] = "supervise" /\ st = "completed" /\ s[2] + 1 < Cycles)
  <2>1. next = Finish
    BY <1>4, StageNames DEF NextStage
  <2>2. Finish \in StagesOf(r)
    BY StageShape
  <2>3. ASSUME Before(r, s), Terminal(r, s), StatusOf(r, s) = st PROVE Ready(r, next)
    <3>1. Ends(r, s)
      BY <2>1, <2>3 DEF Ends
    <3>2. Settled(r)
      BY <1>4, <2>3, <3>1 DEF Settled
    <3>3. QED
      BY <2>1, <3>2, StageNames DEF Ready, Before
  <2>4. QED
    BY <1>4, <2>1, <2>2, <2>3
<1>5. QED
  BY <1>1, <1>2, <1>3, <1>4

(* Over settled stages no stage is both ready and unrecorded.              *)
LEMMA SettledIsClosed ==
  ASSUME TypeOK, NEW r \in Runs, Settled(r), NEW s \in StagesOf(r) \ {Finish}, Ready(r, s)
  PROVE  Terminal(r, s)
<1>1. PICK last \in StagesOf(r) \ {Finish} : Before(r, last) /\ Terminal(r, last) /\ Ends(r, last)
  BY DEF Settled
<1>2. CASE kind[r] = "agent"
  <2>1. s \in {Evaluate, Execute} /\ last \in {Evaluate, Execute}
    BY <1>2, StagesByKind
  <2>2. CASE last = Evaluate /\ s = Execute
    <3>1. Completed(r, Evaluate)
      BY <2>2 DEF Ready, Before
    <3>2. NextStage(r, Evaluate, StatusOf(r, Evaluate)) = Execute
      <4>1. NextStage(r, Evaluate, "completed") = Execute
        BY StageNames DEF NextStage
      <4>2. QED
        BY <3>1, <4>1 DEF Completed
    <3>3. QED
      BY <1>1, <2>2, <3>2, StageNames DEF Ends
  <2>3. CASE last = Execute /\ s = Evaluate
    BY <1>1, <2>3 DEF Before, Completed, Terminal, Status
  <2>4. QED
    BY <1>1, <2>1, <2>2, <2>3
<1>3. CASE kind[r] = "supervision"
  <2>1. PICK i \in 0..(Cycles - 1) : s = <<"supervise", i>>
    BY <1>3, StagesByKind DEF Supervised
  <2>2. PICK k \in 0..(Cycles - 1) : last = <<"supervise", k>>
    BY <1>3, StagesByKind DEF Supervised
  <2>3. CASE i < k
    <3>1. Completed(r, s)
      BY <1>1, <2>1, <2>2, <2>3, RunsAssumption DEF Before
    <3>2. QED
      BY <3>1 DEF Completed, Terminal, Status
  <2>4. CASE i > k
    <3>1. Completed(r, last)
      BY <2>1, <2>2, <2>4, RunsAssumption DEF Ready, Before
    <3>2. k + 1 < Cycles
      BY <2>4, RunsAssumption
    <3>3. NextStage(r, last, StatusOf(r, last)) = <<"supervise", k + 1>>
      BY <2>2, <3>1, <3>2 DEF NextStage, Completed, Evaluate
    <3>4. QED
      BY <1>1, <3>3 DEF Ends, Finish
  <2>5. CASE i = k
    BY <1>1, <2>1, <2>2, <2>5
  <2>6. QED
    BY <2>3, <2>4, <2>5, RunsAssumption
<1>4. CASE kind[r] \in {"backtest", "health"}
  <2>1. s = last
    BY <1>4, StagesByKind
  <2>2. QED
    BY <1>1, <2>1
<1>5. QED
  BY <1>2, <1>3, <1>4, StagesByKind

-----------------------------------------------------------------------------
(* What a step may do.                                                     *)

LEMMA Frozen ==
  ASSUME kind' = kind, tries' = tries
  PROVE  /\ \A r : StagesOf(r)' = StagesOf(r) /\ FirstStage(r)' = FirstStage(r)
         /\ Stages' = Stages /\ Attempts' = Attempts
<1>1. \A r : FirstStage(r)' = FirstStage(r)
  BY DEF FirstStage
<1>2. \A r : StagesOf(r)' = StagesOf(r)
  BY <1>1 DEF StagesOf
<1>3. Stages' = Stages
  BY <1>2 DEF Stages
<1>4. Attempts' = Attempts
  BY <1>2 DEF Attempts
<1>5. QED
  BY <1>1, <1>2, <1>3, <1>4

LEMMA NothingElseMoves == [Next]_vars => kind' = kind /\ tries' = tries
BY DEF Next, AttemptStep, vars, dbVars, temporalVars, Create, DispatchStart, DispatchAck,
       DispatchLost, HistoryExpires, ResolveRun, Timeout, Begin, Crash, Unavailable, Report,
       Claim, Dispatch, ModelAnswers, FinishEvaluate, LookUpStage, AcquireLease, WriteStage,
       ReleaseLease, HolderExpires, RunOnce, FinishRun, LeaseExpires, OtherAcquires

ActRecord == [pc : PCs, result : Results, token : Nat, fresh : BOOLEAN]

Moves(a, pc, result) ==
  /\ act' \in [Attempts -> ActRecord]
  /\ act'[a].pc = pc /\ act'[a].result = result
  /\ \A b \in Attempts \ {a} : act'[b] = act[b]

LEMMA AttemptTypes ==
  ASSUME TypeOK, NEW a \in Attempts
  PROVE  /\ a.run \in Runs /\ a.stage \in StagesOf(a.run) /\ a.stage \in Stages
         /\ act[a] \in ActRecord
         /\ Step(a) \in Row \union {NoStep}
<1>1. a.run \in Runs /\ a.stage \in StagesOf(a.run)
  BY DEF Attempts
<1>2. a.stage \in Stages
  BY <1>1 DEF Stages
<1>3. QED
  BY <1>1, <1>2 DEF TypeOK, ActRecord, Step

LEMMA GotoMoves ==
  ASSUME TypeOK, NEW a \in Attempts, NEW pc \in PCs, NEW result \in Results, Goto(a, pc, result)
  PROVE  Moves(a, pc, result)
<1>1. act \in [Attempts -> ActRecord]
  BY DEF TypeOK, ActRecord
<1>2. PICK token \in Nat : token = IF pc = "releasing" THEN act[a].token ELSE 0
  BY <1>1 DEF ActRecord
<1>3. act' = [act EXCEPT ![a] = [pc |-> pc, result |-> result, token |-> token, fresh |-> FALSE]]
  BY <1>2 DEF Goto
<1>4. QED
  BY <1>1, <1>3 DEF Moves, ActRecord

Holds(a, st) ==
  IF a.stage = Finish THEN status[a.run] \in Status
  ELSE Terminal(a.run, a.stage) /\ StatusOf(a.run, a.stage) = st

WfStays ==
  \A r \in Runs : /\ wf'[r].stage \in {wf[r].stage, Resolve, FirstStage(r)}
                  /\ wf'[r].state = "completed" => wf[r].state = "completed"

WfAdvances(a) ==
  /\ act[a].pc = "reporting" /\ act[a].result \in Status
  /\ Advance(a.run, NextStage(a.run, a.stage, act[a].result))

(* No attempt moves.                                                       *)
Outside ==
  /\ act' \in [Attempts -> ActRecord]
  /\ \A a \in Attempts : act'[a].pc = act[a].pc /\ act'[a].result = act[a].result
  /\ UNCHANGED <<steps, applied, calls>>
  /\ \A r \in Runs : status'[r] = status[r] \/ (status[r] = "absent" /\ status'[r] = "queued")

(* An attempt moves and records nothing.                                   *)
QuietMove(a) ==
  /\ \E pc \in PCs \ {"none", "claimed"}, result \in Results :
       /\ Moves(a, pc, result)
       /\ pc \in {"calling", "answered"} => act[a].pc \in {"claimed", "calling"}
       /\ pc = "answered" => result \in Status
       /\ pc \in {"releasing", "reporting"} =>
            result # "none" /\ (result \in Status => Holds(a, result))
  /\ act[a].pc = "none" => IsCurrent(a)
  /\ UNCHANGED <<steps, status, applied, calls>>

Asks(a) ==
  /\ act[a].pc = "claimed" /\ Moves(a, "calling", "none")
  /\ calls' = [calls EXCEPT ![a.run] = @ + 1]
  /\ UNCHANGED <<steps, status, applied, wf>>

(* An attempt records st under the name of b, over no row or over the marker b has left. *)
RowWrite(a, b, st, pc) ==
  /\ act[a].pc # "none"
  /\ steps' = [steps EXCEPT ![a.run][a.stage] = [status |-> st, attempt |-> b]]
  /\ \/ Step(a) = NoStep
     \/ /\ a.stage = Evaluate /\ Step(a) # NoStep
        /\ Step(a).status = "started" /\ Step(a).attempt = b
  /\ \/ /\ a.stage = Evaluate /\ Step(a) = NoStep /\ b = a
        /\ st = "started" /\ Moves(a, "claimed", "none") /\ pc = "claimed"
     \/ st \in Status /\ pc \in {"releasing", "reporting"} /\ Moves(a, pc, st)
  /\ a.stage = Execute => EvaluationCompleted(a.run)
  /\ IF a.stage = Finish
     THEN /\ status[a.run] = "queued" /\ Complete(a.run) /\ st = FinalStatus(a.run)
          /\ status' = [status EXCEPT ![a.run] = st]
     ELSE status' = status
  /\ applied' \in {applied, applied \union {<<a.run, a.stage>>}}
  /\ UNCHANGED <<wf, calls>>

RowIsWritten(a) ==
  \E b \in Attempts, st \in Status \union {"started"}, pc \in PCs : RowWrite(a, b, st, pc)

WfRecord ==
  [state : {"none", "running", "failed", "completed"}, stage : Stages \union {Resolve, Over},
   start : Nat, try : Nat]

LEMMA AdvanceMoves ==
  ASSUME TypeOK, NEW r \in Runs, NEW stage \in Stages \union {Resolve, Over}, Advance(r, stage)
  PROVE  /\ wf' \in [Runs -> WfRecord]
         /\ wf'[r].stage = stage /\ wf'[r].try = 1 /\ wf'[r].start = wf[r].start
         /\ wf'[r].state = IF stage = Over THEN "completed" ELSE "running"
         /\ \A q \in Runs \ {r} : wf'[q] = wf[q]
<1>1. wf \in [Runs -> WfRecord]
  BY DEF TypeOK, WfRecord
<1>2. PICK state \in {"completed", "running"} :
        state = IF stage = Over THEN "completed" ELSE "running"
  OBVIOUS
<1>3. wf' = [wf EXCEPT ![r].stage = stage, ![r].try = 1, ![r].state = state]
  BY <1>2 DEF Advance
<1>4. QED
  BY <1>1, <1>2, <1>3 DEF WfRecord

LEMMA RetryMoves ==
  ASSUME TypeOK, NEW r \in Runs, RetryOrFail(r) \/ FailWorkflow(r)
  PROVE  /\ wf' \in [Runs -> WfRecord]
         /\ wf'[r].stage = wf[r].stage /\ wf'[r].start = wf[r].start
         /\ wf'[r].state \in {wf[r].state, "failed"}
         /\ \/ wf'[r].try = wf[r].try
            \/ wf[r].try < tries[r][wf[r].start] /\ wf'[r].try = wf[r].try + 1
         /\ \A q \in Runs \ {r} : wf'[q] = wf[q]
<1>1. wf \in [Runs -> WfRecord]
  BY DEF TypeOK, WfRecord
<1>2. CASE FailWorkflow(r)
  BY <1>1, <1>2 DEF FailWorkflow, WfRecord
<1>3. CASE /\ wf[r].try < tries[r][wf[r].start]
           /\ wf' = [wf EXCEPT ![r].try = wf[r].try + 1]
  <2>1. PICK n \in Nat : n = wf[r].try + 1
    BY <1>1 DEF WfRecord
  <2>2. wf' = [wf EXCEPT ![r].try = n]
    BY <1>3, <2>1
  <2>3. /\ wf' \in [Runs -> WfRecord] /\ wf'[r].stage = wf[r].stage
        /\ wf'[r].start = wf[r].start /\ wf'[r].state = wf[r].state /\ wf'[r].try = n
        /\ \A q \in Runs \ {r} : wf'[q] = wf[q]
    BY <1>1, <2>2 DEF WfRecord
  <2>4. wf[r].try < tries[r][wf[r].start]
    BY <1>3
  <2>5. QED
    BY <2>1, <2>3, <2>4
<1>4. QED
  BY <1>2, <1>3 DEF RetryOrFail

LEMMA OutsideSteps ==
  ASSUME TypeOK,
         \/ \E r \in Runs : \/ Create(r) \/ DispatchStart(r) \/ DispatchAck(r) \/ DispatchLost(r)
                            \/ HistoryExpires(r) \/ ResolveRun(r) \/ Timeout(r)
         \/ LeaseExpires \/ OtherAcquires \/ UNCHANGED vars
         \/ \E a \in Attempts : HolderExpires(a)
  PROVE  Outside /\ WfStays
<1>1. act \in [Attempts -> ActRecord] /\ wf \in [Runs -> WfRecord]
      /\ status \in [Runs -> Status \union {"absent", "queued"}]
  BY DEF TypeOK, ActRecord, WfRecord
<1>2. ASSUME wf' = wf PROVE WfStays
  BY <1>2 DEF WfStays
<1>3. ASSUME act' = act, status' = status, UNCHANGED <<steps, applied, calls>> PROVE Outside
  BY <1>1, <1>3 DEF Outside
<1>4. ASSUME NEW r \in Runs, Create(r) PROVE Outside /\ WfStays
  BY <1>1, <1>2, <1>4 DEF Create, Outside
<1>5. ASSUME NEW r \in Runs, DispatchAck(r) \/ DispatchLost(r) PROVE Outside /\ WfStays
  <2>1. act' = act /\ status' = status /\ UNCHANGED <<steps, applied, calls>> /\ wf' = wf
    BY <1>5 DEF DispatchAck, DispatchLost, dbVars
  <2>2. QED
    BY <1>2, <1>3, <2>1
<1>6. ASSUME NEW r \in Runs, DispatchStart(r) \/ HistoryExpires(r) \/ ResolveRun(r) \/ Timeout(r)
      PROVE  Outside /\ WfStays
  <2>1. act' = act /\ status' = status /\ UNCHANGED <<steps, applied, calls>>
    BY <1>6 DEF DispatchStart, HistoryExpires, ResolveRun, Timeout, dbVars
  <2>2. WfStays
    <3>1. CASE DispatchStart(r)
      BY <1>1, <1>2, <3>1 DEF DispatchStart, WfStays, WfRecord
    <3>2. CASE HistoryExpires(r)
      BY <1>1, <3>2 DEF HistoryExpires, WfStays, WfRecord
    <3>3. CASE ResolveRun(r)
      <4>1. FirstStage(r) # Over
        BY StageShape
      <4>2. CASE Advance(r, FirstStage(r))
        BY <4>1, <4>2, StageShape, AdvanceMoves DEF WfStays
      <4>3. CASE FailWorkflow(r)
        BY <4>3, RetryMoves DEF WfStays
      <4>4. QED
        BY <3>3, <4>2, <4>3 DEF ResolveRun
    <3>4. CASE Timeout(r)
      <4>1. RetryOrFail(r) \/ FailWorkflow(r)
        BY <3>4 DEF Timeout
      <4>2. QED
        BY <4>1, RetryMoves DEF WfStays
    <3>5. QED
      BY <1>6, <3>1, <3>2, <3>3, <3>4
  <2>3. QED
    BY <1>3, <2>1, <2>2
<1>7. CASE LeaseExpires
  <2>1. act' = [a \in Attempts |-> IF act[a].token = account.token
                                   THEN [act[a] EXCEPT !.fresh = FALSE] ELSE act[a]]
        /\ UNCHANGED <<steps, status, wf, applied, calls>>
    BY <1>7 DEF LeaseExpires, dbVars, temporalVars
  <2>2. \A a \in Attempts : /\ act'[a] \in ActRecord
                            /\ act'[a].pc = act[a].pc /\ act'[a].result = act[a].result
    BY <1>1, <2>1 DEF ActRecord
  <2>3. QED
    BY <1>2, <2>1, <2>2 DEF Outside
<1>8. ASSUME NEW a \in Attempts, HolderExpires(a) PROVE Outside /\ WfStays
  <2>1. act' = [act EXCEPT ![a].fresh = FALSE] /\ UNCHANGED <<steps, status, wf, applied, calls>>
    BY <1>8 DEF HolderExpires, dbVars, temporalVars
  <2>2. /\ act' \in [Attempts -> ActRecord]
        /\ \A b \in Attempts : act'[b].pc = act[b].pc /\ act'[b].result = act[b].result
    BY <1>1, <2>1 DEF ActRecord
  <2>3. QED
    BY <1>2, <2>1, <2>2 DEF Outside
<1>9. CASE OtherAcquires \/ UNCHANGED vars
  BY <1>2, <1>3, <1>9 DEF OtherAcquires, vars, dbVars, temporalVars
<1>10. QED
  BY <1>4, <1>5, <1>6, <1>7, <1>8, <1>9

AttemptMoves(a) ==
  \/ QuietMove(a) /\ (WfStays \/ WfAdvances(a))
  \/ Asks(a)
  \/ RowIsWritten(a)

LEMMA AttemptSteps ==
  ASSUME IInv, NEW a \in Attempts, AttemptStep(a), ~HolderExpires(a)
  PROVE  AttemptMoves(a)
<1>1. TypeOK /\ MarkerIsOwned /\ RowsAreSound /\ ResultsAreRecorded /\ RunsExist
  BY DEF IInv
<1>2. /\ a.run \in Runs /\ a.stage \in StagesOf(a.run) /\ act[a] \in ActRecord
      /\ Step(a) \in Row \union {NoStep}
  BY <1>1, AttemptTypes
<1>3. ASSUME wf' = wf PROVE WfStays
  BY <1>3 DEF WfStays
<1>4. ASSUME NEW pc \in PCs \ {"none", "claimed"}, NEW result \in Results, Goto(a, pc, result),
             pc \notin {"calling", "answered"},
             pc \in {"releasing", "reporting"} =>
               result # "none" /\ (result \in Status => Holds(a, result)),
             act[a].pc = "none" => IsCurrent(a),
             UNCHANGED <<steps, status, applied, calls, wf>>
      PROVE  AttemptMoves(a)
  BY <1>1, <1>3, <1>4, GotoMoves DEF AttemptMoves, QuietMove
<1>5. Step(a) # NoStep /\ a.stage # Finish /\ Step(a).status # "started" =>
        /\ Step(a).status \in Results /\ Step(a).status # "none" /\ Holds(a, Step(a).status)
  <2>1. Step(a) # NoStep => Step(a).status \in Status \union {"started"}
    BY <1>2 DEF Row
  <2>2. QED
    BY <2>1 DEF Holds, Terminal, StatusOf, Step, Results, Status
<1>6. a.stage # Finish /\ a.stage # Evaluate /\ Step(a) # NoStep => Step(a).status # "started"
  BY <1>1, <1>2 DEF RowsAreSound, Terminal, Step, StatusOf, Status
<1>7. {"begun", "gone", "reporting", "releasing", "unsaved", "leased"} \subseteq PCs \ {"none", "claimed"}
      /\ {"none", "retry", "fatal"} \subseteq Results /\ {"retry", "fatal", "none"} \cap Status = {}
      /\ Status \subseteq Results
  BY DEF PCs, Results, Status
<1>8. CASE Begin(a)
  <2>1. /\ Goto(a, "begun", "none") /\ IsCurrent(a)
        /\ UNCHANGED <<steps, status, applied, calls, wf>>
    BY <1>8 DEF Begin, dbVars, temporalVars
  <2>2. QED
    BY <1>4, <1>7, <2>1
<1>9. CASE Crash(a)
  <2>1. /\ Goto(a, "gone", "none") /\ act[a].pc # "none"
        /\ UNCHANGED <<steps, status, applied, calls, wf>>
    BY <1>9 DEF Crash, dbVars, temporalVars
  <2>2. QED
    BY <1>4, <1>7, <2>1
<1>10. CASE Unavailable(a)
  <2>1. /\ Goto(a, "reporting", "retry") \/ Goto(a, "releasing", "retry")
        /\ act[a].pc # "none"
        /\ UNCHANGED <<steps, status, applied, calls, wf>>
    BY <1>10 DEF Unavailable, At, dbVars, temporalVars
  <2>2. QED
    BY <1>4, <1>7, <2>1
<1>11. CASE Report(a)
  <2>1. /\ act' = [act EXCEPT ![a] = [Idle EXCEPT !.pc = "gone"]]
        /\ act[a].pc = "reporting" /\ UNCHANGED <<steps, status, applied, calls>>
    BY <1>11 DEF Report, dbVars
  <2>2. Moves(a, "gone", "none")
    BY <1>1, <2>1 DEF TypeOK, Moves, ActRecord, Idle, PCs, Results
  <2>3. QuietMove(a)
    BY <1>7, <2>1, <2>2 DEF QuietMove
  <2>4. WfStays \/ WfAdvances(a)
    <3>1. CASE RetryOrFail(a.run) \/ FailWorkflow(a.run)
      BY <1>1, <1>2, <3>1, RetryMoves DEF WfStays
    <3>2. CASE act[a].result \in Status
                 /\ Advance(a.run, NextStage(a.run, a.stage, act[a].result))
      BY <2>1, <3>2 DEF WfAdvances
    <3>3. QED
      BY <1>3, <1>11, <3>1, <3>2 DEF Report
  <2>5. QED
    BY <2>3, <2>4 DEF AttemptMoves
<1>12. CASE Claim(a)
  <2>1. /\ a.stage = Evaluate /\ act[a].pc = "begun"
        /\ UNCHANGED <<status, applied, calls, wf>>
    BY <1>12 DEF Claim, At, temporalVars
  <2>2. CASE Step(a) = NoStep /\ Record(a, "started") /\ Goto(a, "claimed", "none")
    <3>1. Moves(a, "claimed", "none")
      BY <1>1, <1>7, <2>2, GotoMoves DEF PCs
    <3>2. RowWrite(a, a, "started", "claimed")
      BY <2>1, <2>2, <3>1, StageNames DEF RowWrite, Record
    <3>3. QED
      BY <3>2 DEF AttemptMoves, RowIsWritten, PCs
  <2>3. CASE /\ Step(a) # NoStep /\ Step(a).status = "started"
             /\ steps' = [steps EXCEPT ![a.run][a.stage].status = "uncertain"]
             /\ Goto(a, "reporting", "uncertain")
    <3>1. PICK b \in Attempts : Step(a).attempt = b /\ Step(a) \in Row
      BY <1>2, <2>3 DEF Row
    <3>2. steps' = [steps EXCEPT ![a.run][a.stage] = [status |-> "uncertain", attempt |-> b]]
      <4>1. [Step(a) EXCEPT !.status = "uncertain"] = [status |-> "uncertain", attempt |-> b]
        BY <3>1 DEF Row
      <4>2. steps' = [steps EXCEPT ![a.run][a.stage] = [Step(a) EXCEPT !.status = "uncertain"]]
        BY <2>3 DEF Step
      <4>3. QED
        BY <4>1, <4>2
    <3>3. Moves(a, "reporting", "uncertain")
      BY <1>1, <1>7, <2>3, GotoMoves DEF Status, Results
    <3>4. RowWrite(a, b, "uncertain", "reporting")
      BY <2>1, <2>3, <3>1, <3>2, <3>3, StageNames DEF RowWrite, Status
    <3>5. QED
      BY <3>4 DEF AttemptMoves, RowIsWritten, PCs, Status
  <2>4. CASE Step(a) # NoStep /\ Step(a).status # "started" /\ UNCHANGED steps
             /\ Goto(a, "reporting", Step(a).status)
    BY <1>4, <1>5, <1>7, <2>1, <2>4, StageNames
  <2>5. QED
    BY <1>12, <2>2, <2>3, <2>4 DEF Claim
<1>13. CASE Dispatch(a)
  <2>1. act[a].pc = "claimed" /\ UNCHANGED <<steps, status, applied, wf>>
    BY <1>13 DEF Dispatch, At, dbVars, temporalVars
  <2>2. CASE calls' = [calls EXCEPT ![a.run] = @ + 1] /\ Goto(a, "calling", "none")
    <3>1. Moves(a, "calling", "none")
      BY <1>1, <1>7, <2>2, GotoMoves DEF PCs
    <3>2. QED
      BY <2>1, <2>2, <3>1 DEF AttemptMoves, Asks
  <2>3. CASE Goto(a, "answered", "refused") /\ UNCHANGED calls
    <3>1. Moves(a, "answered", "refused")
      BY <1>1, <2>3, GotoMoves DEF PCs, Results, Status
    <3>2. QED
      BY <1>3, <2>1, <2>3, <3>1 DEF AttemptMoves, QuietMove, PCs, Results, Status
  <2>4. QED
    BY <1>13, <2>2, <2>3 DEF Dispatch
<1>14. CASE ModelAnswers(a)
  <2>1. act[a].pc = "calling" /\ UNCHANGED <<steps, status, applied, calls, wf>>
    BY <1>14 DEF ModelAnswers, At, dbVars, temporalVars
  <2>2. ASSUME NEW st \in {"completed", "refused"}, Goto(a, "answered", st) PROVE AttemptMoves(a)
    <3>1. Moves(a, "answered", st)
      BY <1>1, <2>2, GotoMoves DEF PCs, Results, Status
    <3>2. QED
      BY <1>3, <2>1, <3>1 DEF AttemptMoves, QuietMove, PCs, Results, Status
  <2>3. CASE Goto(a, "reporting", "fatal")
    BY <1>4, <1>7, <2>1, <2>3
  <2>4. QED
    BY <1>14, <2>2, <2>3 DEF ModelAnswers
<1>15. CASE FinishEvaluate(a)
  <2>1. /\ act[a].pc = "answered" /\ UNCHANGED <<status, applied, calls, wf>>
        /\ a.stage = Evaluate /\ act[a].result \in Status
    BY <1>1, <1>15 DEF FinishEvaluate, At, temporalVars, MarkerIsOwned, ResultsAreRecorded
  <2>2. CASE /\ Step(a) # NoStep /\ Step(a).status = "started" /\ Step(a).attempt = a
             /\ Record(a, act[a].result) /\ Goto(a, "reporting", act[a].result)
    <3>1. Moves(a, "reporting", act[a].result)
      BY <1>1, <1>7, <2>1, <2>2, GotoMoves
    <3>2. RowWrite(a, a, act[a].result, "reporting")
      BY <2>1, <2>2, <3>1, StageNames DEF RowWrite, Record
    <3>3. QED
      BY <2>1, <3>2 DEF AttemptMoves, RowIsWritten, PCs
  <2>3. CASE UNCHANGED steps /\ Goto(a, "reporting", "fatal")
    BY <1>4, <1>7, <2>1, <2>3
  <2>4. CASE Step(a) # NoStep /\ Step(a).status # "started" /\ UNCHANGED steps
             /\ Goto(a, "reporting", Step(a).status)
    BY <1>4, <1>5, <1>7, <2>1, <2>4, StageNames
  <2>5. QED
    BY <1>15, <2>2, <2>3, <2>4 DEF FinishEvaluate
<1>16. CASE LookUpStage(a)
  <2>1. /\ Writes(a) /\ act[a].pc = "begun" /\ UNCHANGED <<steps, status, applied, calls, wf>>
        /\ IF Step(a) # NoStep THEN Goto(a, "reporting", Step(a).status)
                               ELSE Goto(a, "unsaved", "none")
    BY <1>16 DEF LookUpStage, At, dbVars, temporalVars
  <2>2. a.stage # Finish /\ a.stage # Evaluate
    BY <2>1, StageNames DEF Writes
  <2>3. QED
    BY <1>4, <1>5, <1>6, <1>7, <2>1, <2>2
<1>17. CASE AcquireLease(a)
  <2>1. act[a].pc = "unsaved" /\ UNCHANGED <<steps, status, applied, calls, wf>>
    BY <1>17 DEF AcquireLease, At, dbVars, temporalVars
  <2>2. CASE Goto(a, "reporting", "retry")
    BY <1>4, <1>7, <2>1, <2>2
  <2>3. ASSUME NEW token \in Nat,
               act' = [act EXCEPT ![a] = [pc |-> "leased", result |-> "none", token |-> token,
                                          fresh |-> TRUE]]
        PROVE  AttemptMoves(a)
    <3>1. Moves(a, "leased", "none")
      BY <1>1, <2>3 DEF TypeOK, Moves, ActRecord, PCs, Results
    <3>2. QED
      BY <1>3, <1>7, <2>1, <3>1 DEF AttemptMoves, QuietMove
  <2>4. (IF account.live THEN account.token ELSE account.token + 1) \in Nat
    BY <1>1 DEF TypeOK
  <2>5. QED
    BY <1>17, <2>2, <2>3, <2>4 DEF AcquireLease
<1>18. CASE WriteStage(a)
  <2>1. /\ Writes(a) /\ act[a].pc = "leased" /\ UNCHANGED <<status, calls, wf>>
    BY <1>18 DEF WriteStage, At, dbVars, temporalVars
  <2>2. a.stage # Finish /\ a.stage # Evaluate
    BY <2>1, StageNames DEF Writes
  <2>3. ASSUME NEW st \in Status, Step(a) = NoStep, a.stage = Execute => EvaluationCompleted(a.run),
               Record(a, st), Goto(a, "releasing", st),
               applied' \in {applied, applied \union {<<a.run, a.stage>>}}
        PROVE  AttemptMoves(a)
    <3>1. Moves(a, "releasing", st)
      BY <1>1, <1>7, <2>3, GotoMoves
    <3>2. RowWrite(a, a, st, "releasing")
      BY <2>1, <2>2, <2>3, <3>1 DEF RowWrite, Record
    <3>3. QED
      BY <3>2 DEF AttemptMoves, RowIsWritten, PCs
  <2>4. CASE Step(a) # NoStep /\ Goto(a, "releasing", Step(a).status) /\ UNCHANGED <<steps, applied>>
    BY <1>4, <1>5, <1>6, <1>7, <2>1, <2>2, <2>4
  <2>5. CASE RefuseWrite(a)
    BY <1>4, <1>7, <2>1, <2>5 DEF RefuseWrite
  <2>6. CASE /\ Step(a) = NoStep /\ a.stage = Execute /\ EvaluationCompleted(a.run)
             /\ Record(a, "completed") /\ Goto(a, "releasing", "completed")
             /\ UNCHANGED applied
    BY <2>3, <2>6 DEF Status
  <2>7. ASSUME Step(a) = NoStep, a.stage = Execute => EvaluationCompleted(a.run),
               NEW st \in Status, ApplyAndRecord(a, st)
        PROVE  AttemptMoves(a)
    BY <2>3, <2>7 DEF ApplyAndRecord
  <2>8. {"completed", "refused"} \subseteq Status
    BY DEF Status
  <2>9. QED
    BY <1>18, <2>4, <2>5, <2>6, <2>7, <2>8 DEF WriteStage
<1>19. CASE ReleaseLease(a)
  <2>1. act[a].pc = "releasing" /\ UNCHANGED <<steps, status, applied, calls, wf>>
    BY <1>19 DEF ReleaseLease, At, dbVars, temporalVars
  <2>2. /\ act[a].result \in Results /\ act[a].result # "none"
        /\ act[a].result \in Status => Holds(a, act[a].result)
    BY <1>1, <1>2, <2>1 DEF ActRecord, ResultsAreRecorded, Holds
  <2>3. Goto(a, "reporting", act[a].result) \/ Goto(a, "reporting", "retry")
    BY <1>19 DEF ReleaseLease
  <2>4. QED
    BY <1>4, <1>7, <2>1, <2>2, <2>3
<1>20. CASE RunOnce(a)
  <2>1. /\ a.stage[1] \in {"backtest", "health"} /\ act[a].pc = "begun"
        /\ UNCHANGED <<status, applied, calls, wf>>
    BY <1>20 DEF RunOnce, At, temporalVars
  <2>2. a.stage # Finish /\ a.stage # Evaluate /\ a.stage # Execute
    BY <2>1, StageNames
  <2>3. CASE Step(a) # NoStep /\ Goto(a, "reporting", Step(a).status) /\ UNCHANGED steps
    BY <1>4, <1>5, <1>6, <1>7, <2>1, <2>2, <2>3
  <2>4. CASE Goto(a, "reporting", "fatal") /\ UNCHANGED steps
    BY <1>4, <1>7, <2>1, <2>4
  <2>5. ASSUME Step(a) = NoStep, NEW st \in {"completed", "refused"},
               Record(a, st), Goto(a, "reporting", st)
        PROVE  AttemptMoves(a)
    <3>1. st \in Status
      BY DEF Status
    <3>2. Moves(a, "reporting", st)
      BY <1>1, <1>7, <2>5, <3>1, GotoMoves
    <3>3. RowWrite(a, a, st, "reporting")
      BY <2>1, <2>2, <2>5, <3>1, <3>2 DEF RowWrite, Record
    <3>4. QED
      BY <3>1, <3>3 DEF AttemptMoves, RowIsWritten, PCs
  <2>6. QED
    BY <1>20, <2>3, <2>4, <2>5 DEF RunOnce
<1>21. CASE FinishRun(a)
  <2>1. /\ a.stage = Finish /\ act[a].pc = "begun" /\ UNCHANGED <<applied, calls, wf>>
    BY <1>21 DEF FinishRun, At, temporalVars
  <2>2. CASE /\ status[a.run] # "queued" /\ Goto(a, "reporting", status[a.run])
             /\ UNCHANGED dbVars
    <3>1. status[a.run] \in Status
      BY <1>1, <1>2, <2>1, <2>2 DEF TypeOK, RunsExist
    <3>2. QED
      BY <1>4, <1>7, <2>1, <2>2, <3>1 DEF Holds, dbVars
  <2>3. CASE Goto(a, "reporting", "fatal") /\ UNCHANGED dbVars
    BY <1>4, <1>7, <2>1, <2>3 DEF dbVars
  <2>4. CASE /\ status[a.run] = "queued" /\ Complete(a.run)
             /\ status' = [status EXCEPT ![a.run] = FinalStatus(a.run)]
             /\ Record(a, FinalStatus(a.run))
             /\ Goto(a, "reporting", FinalStatus(a.run))
    <3>1. FinalStatus(a.run) \in Status
      BY DEF FinalStatus, Status
    <3>2. Moves(a, "reporting", FinalStatus(a.run))
      BY <1>1, <1>7, <2>4, <3>1, GotoMoves
    <3>3. Step(a) = NoStep
      BY <1>1, <1>2, <2>1, <2>4 DEF RowsAreSound, Step, Status
    <3>4. RowWrite(a, a, FinalStatus(a.run), "reporting")
      BY <2>1, <2>4, <3>1, <3>2, <3>3, StageNames DEF RowWrite, Record
    <3>5. QED
      BY <3>1, <3>4 DEF AttemptMoves, RowIsWritten, PCs
  <2>5. QED
    BY <1>21, <2>2, <2>3, <2>4 DEF FinishRun
<1>22. QED
  BY <1>8, <1>9, <1>10, <1>11, <1>12, <1>13, <1>14, <1>15, <1>16, <1>17, <1>18, <1>19, <1>20,
     <1>21 DEF AttemptStep

LEMMA StepKinds ==
  ASSUME IInv, [Next]_vars
  PROVE  \/ Outside /\ WfStays
         \/ \E a \in Attempts : QuietMove(a) /\ (WfStays \/ WfAdvances(a))
         \/ \E a \in Attempts : Asks(a)
         \/ \E a \in Attempts : RowIsWritten(a)
<1>1. TypeOK
  BY DEF IInv
<1>2. ASSUME NEW a \in Attempts, AttemptStep(a), ~HolderExpires(a) PROVE AttemptMoves(a)
  BY <1>2, AttemptSteps
<1>3. QED
  BY <1>1, <1>2, OutsideSteps DEF Next, AttemptMoves

-----------------------------------------------------------------------------
(* Each part of the invariant, step by step.                               *)

LEMMA RunsExistStep == IInv /\ [Next]_vars => RunsExist'
<1> SUFFICES ASSUME IInv, [Next]_vars PROVE RunsExist'
  OBVIOUS
<1>1. TypeOK /\ RunsExist
  BY DEF IInv
<1>2. Attempts' = Attempts /\ \A a \in Attempts : a.run \in Runs
  BY <1>1, NothingElseMoves, Frozen, AttemptTypes
<1>3. \A r \in Runs : status'[r] = "absent" => status[r] = "absent"
  <2>1. CASE Outside
    BY <2>1 DEF Outside
  <2>2. ASSUME NEW a \in Attempts, QuietMove(a) \/ Asks(a)
        PROVE  \A r \in Runs : status'[r] = "absent" => status[r] = "absent"
    BY <2>2 DEF QuietMove, Asks
  <2>3. ASSUME NEW a \in Attempts, RowIsWritten(a)
        PROVE  \A r \in Runs : status'[r] = "absent" => status[r] = "absent"
    <3>1. PICK st : status' = status \/ (st # "absent" /\ status' = [status EXCEPT ![a.run] = st])
      <4>1. FinalStatus(a.run) # "absent"
        BY DEF FinalStatus
      <4>2. QED
        BY <2>3, <4>1 DEF RowIsWritten, RowWrite
    <3>2. QED
      BY <1>1, <3>1 DEF TypeOK
  <2>4. QED
    BY <2>1, <2>2, <2>3, StepKinds
<1>4. ASSUME NEW a \in Attempts, act'[a].pc # "none" PROVE status'[a.run] # "absent"
  <2>1. CASE act[a].pc # "none"
    BY <1>1, <1>2, <1>3, <2>1 DEF RunsExist
  <2>2. CASE act[a].pc = "none"
    <3>1. ~Outside
      BY <1>4, <2>2 DEF Outside
    <3>2. ASSUME NEW b \in Attempts, QuietMove(b) \/ Asks(b) \/ RowIsWritten(b)
          PROVE  b = a /\ QuietMove(b)
      <4>1. \A c \in Attempts \ {b} : act'[c] = act[c]
        BY <3>2 DEF QuietMove, Asks, RowIsWritten, RowWrite, Moves
      <4>2. b = a
        BY <1>4, <2>2, <4>1
      <4>3. QED
        BY <2>2, <3>2, <4>2 DEF Asks, RowIsWritten, RowWrite
    <3>3. IsCurrent(a)
      BY <2>2, <3>1, <3>2, StepKinds DEF QuietMove
    <3>4. wf[a.run].state = "running"
      BY <3>3 DEF IsCurrent
    <3>5. QED
      BY <1>1, <1>2, <1>3, <3>4 DEF RunsExist
  <2>3. QED
    BY <2>1, <2>2
<1>5. ASSUME NEW q \in Runs, status'[q] = "absent"
      PROVE  event'[q] = "none" /\ q \notin acking' /\ wf'[q].state = "none"
  <2>1. event[q] = "none" /\ q \notin acking /\ wf[q].state = "none"
    BY <1>1, <1>3, <1>5 DEF RunsExist
  <2>2. ASSUME NEW r \in Runs, Create(r)
        PROVE  event'[q] = "none" /\ q \notin acking' /\ wf'[q].state = "none"
    BY <1>1, <1>5, <2>1, <2>2 DEF Create, TypeOK
  <2>3. ASSUME NEW r \in Runs, DispatchStart(r) \/ DispatchAck(r) \/ DispatchLost(r)
        PROVE  event'[q] = "none" /\ q \notin acking' /\ wf'[q].state = "none"
    <3>1. r # q
      BY <2>1, <2>3 DEF DispatchStart, DispatchAck, DispatchLost
    <3>2. /\ event'[q] = event[q] /\ (q \in acking' => q \in acking) /\ wf'[q] = wf[q]
      BY <1>1, <2>3, <3>1 DEF DispatchStart, DispatchAck, DispatchLost, TypeOK
    <3>3. QED
      BY <2>1, <3>2
  <2>4. ASSUME NEW r \in Runs, HistoryExpires(r) \/ ResolveRun(r) \/ Timeout(r)
        PROVE  event'[q] = "none" /\ q \notin acking' /\ wf'[q].state = "none"
    <3>1. r # q /\ UNCHANGED <<event, acking>>
      BY <2>1, <2>4 DEF HistoryExpires, ResolveRun, Timeout
    <3>2. wf'[q] = wf[q]
      BY <1>1, <2>4, <3>1
         DEF HistoryExpires, ResolveRun, Timeout, Advance, RetryOrFail, FailWorkflow, TypeOK
    <3>3. QED
      BY <2>1, <3>1, <3>2
  <2>5. ASSUME NEW a \in Attempts, AttemptStep(a)
        PROVE  event'[q] = "none" /\ q \notin acking' /\ wf'[q].state = "none"
    <3>1. UNCHANGED <<event, acking>>
      BY <2>5 DEF AttemptStep, temporalVars, Begin, Crash, Unavailable, Report, Claim, Dispatch,
                  ModelAnswers, FinishEvaluate, LookUpStage, AcquireLease, WriteStage,
                  ReleaseLease, HolderExpires, RunOnce, FinishRun
    <3>2. wf'[q] = wf[q]
      <4>1. CASE Report(a)
        <5>1. wf' = wf \/ a.run # q
          BY <2>1, <4>1 DEF Report, IsCurrent
        <5>2. QED
          BY <1>1, <4>1, <5>1 DEF Report, Advance, RetryOrFail, FailWorkflow, TypeOK
      <4>2. CASE ~Report(a)
        BY <2>5, <4>2 DEF AttemptStep, temporalVars, Begin, Crash, Unavailable, Claim, Dispatch,
                  ModelAnswers, FinishEvaluate, LookUpStage, AcquireLease, WriteStage,
                  ReleaseLease, HolderExpires, RunOnce, FinishRun
      <4>3. QED
        BY <4>1, <4>2
    <3>3. QED
      BY <2>1, <3>1, <3>2
  <2>6. CASE LeaseExpires \/ OtherAcquires \/ UNCHANGED vars
    BY <2>1, <2>6 DEF LeaseExpires, OtherAcquires, vars, temporalVars
  <2>7. QED
    BY <2>2, <2>3, <2>4, <2>5, <2>6 DEF Next
<1>6. QED
  BY <1>2, <1>4, <1>5 DEF RunsExist

LEMMA RowsAreNotNoStep ==
  ASSUME TypeOK
  PROVE  Attempts \subseteq [run : Runs, stage : Activities \X Nat, start : Nat, try : Nat]
         /\ NoStep \notin Row
<1>1. ASSUME NEW a \in Attempts
      PROVE  a \in [run : Runs, stage : Activities \X Nat, start : Nat, try : Nat]
  <2>1. PICK r \in Runs : \E n \in 1..Len(tries[r]) :
          a \in [run : {r}, stage : StagesOf(r), start : {n}, try : 1..tries[r][n]]
    BY DEF Attempts
  <2>2. PICK n \in 1..Len(tries[r]) :
          a \in [run : {r}, stage : StagesOf(r), start : {n}, try : 1..tries[r][n]]
    BY <2>1
  <2>3. tries[r] \in Seq(Nat \ {0})
    BY DEF TypeOK
  <2>4. tries[r][n] \in Nat /\ n \in Nat
    BY <2>3
  <2>5. StagesOf(r) \subseteq Activities \X Nat
    <3>1. {Evaluate, Execute, Finish, Backtest, Health} \subseteq Activities \X Nat
      BY DEF Evaluate, Execute, Finish, Backtest, Health, Activities
    <3>2. Supervised \subseteq Activities \X Nat
      BY RunsAssumption DEF Supervised, Activities
    <3>3. QED
      BY <3>1, <3>2, StagesByKind
  <2>6. QED
    BY <2>2, <2>4, <2>5
<1>2. NoStep \notin Row
  <2> DEFINE Names == [run : Runs, stage : Activities \X Nat, start : Nat, try : Nat]
  <2>1. Attempts \subseteq Names
    BY <1>1
  <2>2. NoStep \notin [status : Status \union {"started"}, attempt : Names]
    BY RunsAssumption
  <2> HIDE DEF Names
  <2>3. ASSUME NEW row \in Row PROVE row \in [status : Status \union {"started"}, attempt : Names]
    BY <2>1 DEF Row
  <2>4. QED
    BY <2>2, <2>3
<1>3. QED
  BY <1>1, <1>2

LEMMA RowEffect ==
  ASSUME TypeOK, NEW a \in Attempts, NEW b \in Attempts, NEW st \in Status \union {"started"},
         NEW pc, RowWrite(a, b, st, pc)
  PROVE  /\ steps' \in [Runs -> [Stages -> Row \union {NoStep}]]
         /\ steps'[a.run][a.stage] = [status |-> st, attempt |-> b]
         /\ steps'[a.run][a.stage] # NoStep /\ StatusOf(a.run, a.stage)' = st
         /\ \A r \in Runs, s \in Stages :
              r # a.run \/ s # a.stage => steps'[r][s] = steps[r][s]
<1>1. PICK row \in Row : row = [status |-> st, attempt |-> b] /\ row # NoStep
  <2>1. [status |-> st, attempt |-> b] \in Row
    BY DEF Row
  <2>2. QED
    BY <2>1, RowsAreNotNoStep
<1>2. steps' = [steps EXCEPT ![a.run][a.stage] = row]
  BY <1>1 DEF RowWrite
<1>3. a.run \in Runs /\ a.stage \in Stages /\ steps \in [Runs -> [Stages -> Row \union {NoStep}]]
  BY AttemptTypes DEF TypeOK
<1>4. /\ steps' \in [Runs -> [Stages -> Row \union {NoStep}]] /\ steps'[a.run][a.stage] = row
      /\ \A r \in Runs, s \in Stages :
              r # a.run \/ s # a.stage => steps'[r][s] = steps[r][s]
  BY <1>2, <1>3
<1>5. QED
  BY <1>1, <1>4 DEF StatusOf

(* Terminal rows are never rewritten, and a row never goes away.           *)
LEMMA RowsAreKept ==
  ASSUME IInv, [Next]_vars, NEW r \in Runs, NEW s \in Stages, steps[r][s] # NoStep
  PROVE  /\ steps'[r][s] # NoStep
         /\ Terminal(r, s) => steps'[r][s] = steps[r][s]
<1>1. TypeOK
  BY DEF IInv
<1>2. CASE steps' = steps
  BY <1>2
<1>3. ASSUME NEW a \in Attempts, RowIsWritten(a)
      PROVE  /\ steps'[r][s] # NoStep /\ (Terminal(r, s) => steps'[r][s] = steps[r][s])
  <2>1. PICK b \in Attempts, st \in Status \union {"started"}, pc \in PCs : RowWrite(a, b, st, pc)
    BY <1>3 DEF RowIsWritten
  <2>2. CASE r = a.run /\ s = a.stage
    <3>1. ~Terminal(r, s)
      BY <2>1, <2>2 DEF RowWrite, Step, Terminal, StatusOf, Status
    <3>2. QED
      BY <1>1, <2>1, <2>2, <3>1, RowEffect
  <2>3. CASE r # a.run \/ s # a.stage
    BY ZenonT(60), <1>1, <2>1, <2>3, RowEffect
  <2>4. QED
    BY <2>2, <2>3
<1>4. QED
  BY <1>2, <1>3, StepKinds DEF Outside, QuietMove, Asks

LEMMA FactsAreKept ==
  ASSUME IInv, [Next]_vars, NEW r \in Runs
  PROVE  /\ \A s \in StagesOf(r) : Terminal(r, s) => Terminal(r, s)' /\ StatusOf(r, s)' = StatusOf(r, s)
         /\ \A s \in StagesOf(r) : Completed(r, s) => Completed(r, s)'
         /\ \A s \in StagesOf(r) : Ready(r, s) => Ready(r, s)'
         /\ Settled(r) => Settled(r)'
<1>1. TypeOK /\ StagesOf(r)' = StagesOf(r)
  BY NothingElseMoves, Frozen DEF IInv
<1>2. ASSUME NEW s \in StagesOf(r), Terminal(r, s)
      PROVE  Terminal(r, s)' /\ StatusOf(r, s)' = StatusOf(r, s)
  <2>1. s \in Stages /\ steps[r][s] # NoStep
    BY <1>1, <1>2, StageShape DEF Terminal
  <2>2. steps'[r][s] = steps[r][s]
    BY <1>2, <2>1, RowsAreKept
  <2>3. QED
    BY <1>2, <2>2 DEF Terminal, StatusOf
<1>3. ASSUME NEW s \in StagesOf(r), Completed(r, s) PROVE Completed(r, s)'
  <2>1. Terminal(r, s)
    BY <1>3 DEF Completed, Terminal, Status
  <2>2. QED
    BY <1>2, <1>3, <2>1 DEF Completed, Terminal
<1>4. ASSUME NEW s \in StagesOf(r), Before(r, s) PROVE Before(r, s)'
  <2>1. s = Execute => Completed(r, Evaluate)'
    <3>1. s = Execute => Evaluate \in StagesOf(r)
      BY <1>1, StageShape
    <3>2. QED
      BY <1>3, <1>4, <3>1 DEF Before
  <2>2. s[1] = "supervise" => \A i \in 0..(s[2] - 1) : Completed(r, <<"supervise", i>>)'
    <3> SUFFICES ASSUME s[1] = "supervise", NEW i \in 0..(s[2] - 1)
                 PROVE  Completed(r, <<"supervise", i>>)'
      OBVIOUS
    <3>1. s \in Supervised /\ kind[r] = "supervision"
      BY <1>1, StageShape
    <3>2. i \in 0..(Cycles - 1)
      BY <3>1, RunsAssumption DEF Supervised
    <3>3. <<"supervise", i>> \in StagesOf(r)
      BY <1>1, <3>1, <3>2, StagesByKind DEF Supervised
    <3>4. QED
      BY <1>3, <1>4, <3>3 DEF Before
  <2>3. QED
    BY <2>1, <2>2 DEF Before
<1>5. Settled(r) => Settled(r)'
  <2>1. ASSUME NEW s \in StagesOf(r) \ {Finish}, Before(r, s), Terminal(r, s), Ends(r, s)
        PROVE  Settled(r)'
    <3>1. Before(r, s)' /\ Terminal(r, s)' /\ StatusOf(r, s)' = StatusOf(r, s)
      BY <1>2, <1>4, <2>1
    <3>2. Ends(r, s)'
      BY <2>1, <3>1 DEF Ends, NextStage
    <3>3. QED
      BY <1>1, <3>1, <3>2 DEF Settled
  <2>2. QED
    BY <2>1 DEF Settled
<1>6. \A s \in StagesOf(r) : Ready(r, s) => Ready(r, s)'
  BY <1>4, <1>5 DEF Ready
<1>7. QED
  BY <1>2, <1>3, <1>5, <1>6

LEMMA MarkerStep == IInv /\ [Next]_vars => MarkerIsOwned'
<1> SUFFICES ASSUME IInv, [Next]_vars PROVE MarkerIsOwned'
  OBVIOUS
<1>1. TypeOK /\ MarkerIsOwned /\ kind' = kind /\ Attempts' = Attempts
  BY NothingElseMoves, Frozen DEF IInv
<1>2. /\ \A a \in Attempts : a.run \in Runs /\ a.stage \in StagesOf(a.run) /\ a.stage \in Stages
      /\ \A r \in Runs : calls[r] \in Nat
  BY <1>1, AttemptTypes DEF TypeOK
<1>3. CASE Outside
  BY <1>1, <1>3 DEF Outside, MarkerIsOwned
<1>4. ASSUME NEW a \in Attempts, QuietMove(a) PROVE MarkerIsOwned'
  <2>1. PICK pc \in PCs \ {"none", "claimed"}, result \in Results :
          /\ Moves(a, pc, result)
          /\ pc \in {"calling", "answered"} => act[a].pc \in {"claimed", "calling"}
    BY <1>4 DEF QuietMove
  <2>2. UNCHANGED <<steps, calls>>
    BY <1>4 DEF QuietMove
  <2>3. QED
    BY <1>1, <2>1, <2>2 DEF Moves, MarkerIsOwned
<1>5. ASSUME NEW a \in Attempts, Asks(a) PROVE MarkerIsOwned'
  <2>1. /\ act[a].pc = "claimed" /\ act'[a].pc = "calling" /\ steps' = steps
        /\ \A c \in Attempts \ {a} : act'[c] = act[c]
        /\ calls' = [calls EXCEPT ![a.run] = @ + 1]
    BY <1>5 DEF Asks, Moves
  <2>2. /\ a.stage = Evaluate /\ steps[a.run][Evaluate] # NoStep
        /\ steps[a.run][Evaluate].attempt = a /\ calls[a.run] = 0
    BY <1>1, <2>1 DEF MarkerIsOwned
  <2>3. calls'[a.run] = 1 /\ \A r \in Runs \ {a.run} : calls'[r] = calls[r]
    BY <1>1, <1>2, <2>1, <2>2 DEF TypeOK
  <2>4. \A c \in Attempts \ {a} : act[c].pc = "claimed" => c.run # a.run
    BY <1>1, <2>2 DEF MarkerIsOwned
  <2>5. QED
    BY <1>1, <1>2, <2>1, <2>2, <2>3, <2>4 DEF MarkerIsOwned
<1>6. ASSUME NEW a \in Attempts, RowIsWritten(a) PROVE MarkerIsOwned'
  <2>1. PICK b \in Attempts, st \in Status \union {"started"}, pc \in PCs : RowWrite(a, b, st, pc)
    BY <1>6 DEF RowIsWritten
  <2>2. /\ steps'[a.run][a.stage] = [status |-> st, attempt |-> b]
        /\ steps'[a.run][a.stage] # NoStep
        /\ \A r \in Runs, s \in Stages : r # a.run \/ s # a.stage => steps'[r][s] = steps[r][s]
    BY <1>1, <2>1, RowEffect
  <2>3. /\ calls' = calls /\ \A c \in Attempts \ {a} : act'[c] = act[c]
        /\ \/ Step(a) = NoStep
           \/ a.stage = Evaluate /\ Step(a) # NoStep /\ Step(a).attempt = b
        /\ \/ a.stage = Evaluate /\ Step(a) = NoStep /\ b = a
           \/ act'[a].pc \in {"releasing", "reporting"}
    BY <2>1 DEF RowWrite, Moves
  <2>4. ASSUME NEW c \in Attempts, act'[c].pc \in {"claimed", "calling", "answered"}
        PROVE  /\ c.stage = Evaluate
               /\ steps'[c.run][Evaluate] # NoStep /\ steps'[c.run][Evaluate].attempt = c
               /\ act'[c].pc = "claimed" => calls'[c.run] = 0
    <3>1. CASE c = a
      <4>1. a.stage = Evaluate /\ Step(a) = NoStep /\ b = a
        BY <2>3, <2>4, <3>1
      <4>2. kind[a.run] = "agent"
        BY <1>1, <1>2, <4>1, StageShape
      <4>3. QED
        BY <1>1, <1>2, <2>2, <2>3, <3>1, <4>1, <4>2 DEF MarkerIsOwned, Step
    <3>2. CASE c # a
      <4>1. /\ c.stage = Evaluate /\ steps[c.run][Evaluate] # NoStep
            /\ steps[c.run][Evaluate].attempt = c
            /\ act[c].pc = "claimed" => calls[c.run] = 0
        BY <1>1, <2>3, <2>4, <3>2 DEF MarkerIsOwned
      <4>2. CASE c.run = a.run /\ a.stage = Evaluate
        BY <2>2, <2>3, <3>2, <2>4, <4>1, <4>2 DEF Step
      <4>3. CASE c.run # a.run \/ a.stage # Evaluate
        BY <1>2, <2>2, <2>3, <2>4, <3>2, <4>1, <4>3
      <4>4. QED
        BY <4>2, <4>3
    <3>3. QED
      BY <3>1, <3>2
  <2>5. ASSUME NEW r \in Runs, kind[r] = "agent", steps'[r][Evaluate] = NoStep
        PROVE  calls'[r] = 0
    <3>1. Evaluate \in Stages
      BY <1>1, <2>5, StageShape
    <3>2. steps[r][Evaluate] = NoStep
      BY <2>5, <3>1, RowsAreKept
    <3>3. QED
      BY <1>1, <2>3, <2>5, <3>2 DEF MarkerIsOwned
  <2>6. QED
    BY <1>1, <2>3, <2>4, <2>5 DEF MarkerIsOwned
<1>7. QED
  BY <1>3, <1>4, <1>5, <1>6, StepKinds

LEMMA RowsStep == IInv /\ [Next]_vars => RowsAreSound'
<1> SUFFICES ASSUME IInv, [Next]_vars PROVE RowsAreSound'
  OBVIOUS
<1>1. /\ TypeOK /\ RowsAreSound /\ Stages' = Stages
      /\ \A r \in Runs : /\ StagesOf(r)' = StagesOf(r) /\ StagesOf(r) \subseteq Stages
                         /\ Finish \in StagesOf(r)
  BY NothingElseMoves, Frozen, StageShape DEF IInv
<1>2. CASE UNCHANGED <<steps, applied>> /\
           \A r \in Runs : status'[r] = status[r] \/ (status[r] = "absent" /\ status'[r] = "queued")
  <2>1. \A r \in Runs : /\ status'[r] \in Status <=> status[r] \in Status
                        /\ status[r] \in Status => status'[r] = status[r]
    BY <1>2 DEF Status
  <2>2. QED
    BY <1>1, <1>2, <2>1 DEF RowsAreSound, Terminal, StatusOf
<1>3. ASSUME NEW a \in Attempts, RowIsWritten(a) PROVE RowsAreSound'
  <2>1. PICK b \in Attempts, st \in Status \union {"started"}, pc \in PCs : RowWrite(a, b, st, pc)
    BY <1>3 DEF RowIsWritten
  <2>2. /\ steps'[a.run][a.stage] # NoStep /\ StatusOf(a.run, a.stage)' = st
        /\ \A r \in Runs, s \in Stages : r # a.run \/ s # a.stage => steps'[r][s] = steps[r][s]
    BY <1>1, <2>1, RowEffect
  <2>3. a.run \in Runs /\ a.stage \in StagesOf(a.run)
    BY <1>1, AttemptTypes
  <2>4. ASSUME NEW r \in Runs, NEW s \in StagesOf(r), steps'[r][s] # NoStep, s # Evaluate
        PROVE  Terminal(r, s)'
    <3>1. CASE r = a.run /\ s = a.stage
      BY <2>1, <2>2, <2>4, <3>1 DEF RowWrite, Terminal
    <3>2. CASE r # a.run \/ s # a.stage
      <4>1. steps'[r][s] = steps[r][s]
        BY <1>1, <2>2, <3>2
      <4>2. QED
        BY <1>1, <2>4, <4>1 DEF RowsAreSound, Terminal, StatusOf
    <3>3. QED
      BY <3>1, <3>2
  <2>5. ASSUME NEW r \in Runs
        PROVE  IF status'[r] \in Status
               THEN steps'[r][Finish] # NoStep /\ StatusOf(r, Finish)' = status'[r]
               ELSE steps'[r][Finish] = NoStep
    <3>1. CASE a.stage = Finish /\ r = a.run
      <4>1. status' = [status EXCEPT ![a.run] = st] /\ st \in Status
        BY <2>1, <3>1, StageNames DEF RowWrite
      <4>2. status'[r] = st
        BY <1>1, <3>1, <4>1 DEF TypeOK
      <4>3. QED
        BY <2>2, <3>1, <4>1, <4>2
    <3>2. CASE a.stage # Finish \/ r # a.run
      <4>1. status'[r] = status[r]
        BY <1>1, <2>1, <3>2 DEF RowWrite, TypeOK
      <4>2. steps'[r][Finish] = steps[r][Finish]
        BY <1>1, <2>2, <3>2
      <4>3. QED
        BY <1>1, <4>1, <4>2 DEF RowsAreSound, StatusOf
    <3>3. QED
      BY <3>1, <3>2
  <2>6. ASSUME NEW r \in Runs, NEW s \in Stages, <<r, s>> \in applied' PROVE steps'[r][s] # NoStep
    <3>1. CASE <<r, s>> \in applied
      BY <1>1, <3>1, RowsAreKept DEF RowsAreSound
    <3>2. CASE <<r, s>> = <<a.run, a.stage>>
      BY <2>2, <3>2
    <3>3. QED
      BY <2>1, <2>6, <3>1, <3>2 DEF RowWrite
  <2>7. QED
    BY <1>1, <2>4, <2>5, <2>6 DEF RowsAreSound
<1>4. QED
  BY <1>2, <1>3, StepKinds DEF Outside, QuietMove, Asks

LEMMA StatusIsKept ==
  ASSUME IInv, [Next]_vars, NEW r \in Runs, status[r] \in Status
  PROVE  status'[r] = status[r]
<1>1. TypeOK
  BY DEF IInv
<1>2. ASSUME NEW a \in Attempts, RowIsWritten(a) PROVE status'[r] = status[r]
  <2>1. status' = status \/ (status[a.run] = "queued" /\ \E st : status' = [status EXCEPT ![a.run] = st])
    BY <1>2 DEF RowIsWritten, RowWrite
  <2>2. QED
    BY <1>1, <2>1 DEF TypeOK, Status
<1>3. QED
  BY <1>2, StepKinds DEF Outside, QuietMove, Asks, Status

HoldsNext(a, st) ==
  IF a.stage = Finish THEN status'[a.run] \in Status
  ELSE steps'[a.run][a.stage] # NoStep /\ steps'[a.run][a.stage].status = st

LEMMA ResultsStep == IInv /\ [Next]_vars => ResultsAreRecorded'
<1> SUFFICES ASSUME IInv, [Next]_vars PROVE ResultsAreRecorded'
  OBVIOUS
<1>1. TypeOK /\ ResultsAreRecorded /\ Attempts' = Attempts
  BY NothingElseMoves, Frozen DEF IInv
<1>2. /\ \A a \in Attempts : a.run \in Runs /\ a.stage \in StagesOf(a.run)
  BY <1>1, AttemptTypes
<1>3. ASSUME NEW a \in Attempts, NEW st \in Status, Holds(a, st) PROVE HoldsNext(a, st)
  <2>1. a.run \in Runs /\ a.stage \in StagesOf(a.run)
    BY <1>2
  <2>2. CASE a.stage = Finish
    BY <1>3, <2>1, <2>2, StatusIsKept DEF Holds, HoldsNext
  <2>3. CASE a.stage # Finish
    BY <1>3, <2>1, <2>3, FactsAreKept DEF Holds, HoldsNext, Terminal, StatusOf
  <2>4. QED
    BY <2>2, <2>3
<1> DEFINE Sound(a, pc, result) ==
      /\ pc \in {"releasing", "reporting"} => result # "none"
      /\ pc = "answered" => result \in Status
      /\ pc \in {"releasing", "reporting"} /\ result \in Status => HoldsNext(a, result)
<1>4. \A a \in Attempts : Sound(a, act[a].pc, act[a].result)
  <2>1. ASSUME NEW a \in Attempts, act[a].pc \in {"releasing", "reporting"}, act[a].result \in Status
        PROVE  Holds(a, act[a].result)
    BY <1>1, <2>1 DEF ResultsAreRecorded, Holds
  <2>2. QED
    BY <1>1, <1>3, <2>1 DEF ResultsAreRecorded
<1>5. ASSUME \A a \in Attempts : Sound(a, act'[a].pc, act'[a].result) PROVE ResultsAreRecorded'
  <2>1. ASSUME NEW a \in Attempts, act'[a].pc \in {"releasing", "reporting"},
               act'[a].result \in Status, a.stage # Finish
        PROVE  Terminal(a.run, a.stage)' /\ StatusOf(a.run, a.stage)' = act'[a].result
    <3>1. HoldsNext(a, act'[a].result)
      BY <1>5, <2>1
    <3>2. QED
      BY <2>1, <3>1 DEF HoldsNext, Terminal, StatusOf
  <2>2. ASSUME NEW a \in Attempts, act'[a].pc \in {"releasing", "reporting"},
               act'[a].result \in Status, a.stage = Finish
        PROVE  status'[a.run] \in Status
    BY <1>5, <2>2 DEF HoldsNext
  <2>3. /\ \A a \in Attempts : act'[a].pc \in {"releasing", "reporting"} => act'[a].result # "none"
        /\ \A a \in Attempts : act'[a].pc = "answered" => act'[a].result \in Status
    BY <1>5
  <2> HIDE DEF Sound
  <2>4. QED
    BY <1>1, <2>1, <2>2, <2>3 DEF ResultsAreRecorded
<1>6. CASE Outside
  <2>1. \A a \in Attempts : Sound(a, act'[a].pc, act'[a].result)
    BY <1>4, <1>6 DEF Outside
  <2>2. QED
    BY <1>5, <2>1
<1>7. ASSUME NEW a \in Attempts, QuietMove(a) PROVE ResultsAreRecorded'
  <2>1. PICK pc \in PCs \ {"none", "claimed"}, result \in Results :
          /\ Moves(a, pc, result)
          /\ pc = "answered" => result \in Status
          /\ pc \in {"releasing", "reporting"} =>
               result # "none" /\ (result \in Status => Holds(a, result))
    BY <1>7 DEF QuietMove
  <2>2. Sound(a, act'[a].pc, act'[a].result)
    BY <1>3, <2>1 DEF Moves
  <2>3. \A c \in Attempts \ {a} : Sound(c, act'[c].pc, act'[c].result)
    BY <1>4, <2>1 DEF Moves
  <2>4. QED
    BY <1>5, <2>2, <2>3
<1>8. ASSUME NEW a \in Attempts, Asks(a) PROVE ResultsAreRecorded'
  <2>1. Moves(a, "calling", "none")
    BY <1>8 DEF Asks
  <2>2. \A c \in Attempts : Sound(c, act'[c].pc, act'[c].result)
    BY <1>4, <2>1 DEF Moves
  <2>3. QED
    BY <1>5, <2>2
<1>9. ASSUME NEW a \in Attempts, RowIsWritten(a) PROVE ResultsAreRecorded'
  <2>1. PICK b \in Attempts, st \in Status \union {"started"}, pc \in PCs : RowWrite(a, b, st, pc)
    BY <1>9 DEF RowIsWritten
  <2>2. \A c \in Attempts \ {a} : Sound(c, act'[c].pc, act'[c].result)
    BY <1>4, <2>1 DEF RowWrite, Moves
  <2>3. Sound(a, act'[a].pc, act'[a].result)
    <3>1. CASE act'[a].pc = "claimed"
      BY <3>1
    <3>2. CASE st \in Status /\ pc \in {"releasing", "reporting"} /\ Moves(a, pc, st)
      <4>1. st # "none"
        BY <3>2 DEF Status
      <4>2. HoldsNext(a, st)
        <5>1. CASE a.stage = Finish
          <6>1. status' = [status EXCEPT ![a.run] = st]
            BY <2>1, <5>1 DEF RowWrite
          <6>2. QED
            BY <1>1, <1>2, <3>2, <5>1, <6>1 DEF TypeOK, HoldsNext
        <5>2. CASE a.stage # Finish
          <6>1. steps'[a.run][a.stage] # NoStep /\ StatusOf(a.run, a.stage)' = st
            BY <1>1, <2>1, RowEffect
          <6>2. QED
            BY <3>2, <5>2, <6>1 DEF HoldsNext, StatusOf
        <5>3. QED
          BY <5>1, <5>2
      <4>3. QED
        BY <3>2, <4>1, <4>2 DEF Moves
    <3>3. QED
      BY <2>1, <3>1, <3>2 DEF RowWrite, Moves
  <2>4. QED
    BY <1>5, <2>2, <2>3
<1>10. QED
  BY <1>6, <1>7, <1>8, <1>9, StepKinds

LEMMA OrderStep == IInv /\ [Next]_vars => StagesInOrder'
<1> SUFFICES ASSUME IInv, [Next]_vars PROVE StagesInOrder'
  OBVIOUS
<1>1. /\ TypeOK /\ ResultsAreRecorded /\ StagesInOrder /\ Attempts' = Attempts
      /\ \A r \in Runs : StagesOf(r)' = StagesOf(r) /\ FirstStage(r)' = FirstStage(r)
  BY NothingElseMoves, Frozen DEF IInv
<1>2. \A a \in Attempts : a.run \in Runs /\ a.stage \in StagesOf(a.run)
  BY <1>1, AttemptTypes
<1>3. \A r \in Runs : Ready(r, FirstStage(r))
  <2> SUFFICES ASSUME NEW r \in Runs PROVE Ready(r, FirstStage(r))
    OBVIOUS
  <2>1. FirstStage(r) # Finish /\ FirstStage(r) # Execute
    BY <1>1, StageShape, StagesByKind, StageNames DEF Backtest, Health, Execute
  <2>2. FirstStage(r)[1] = "supervise" => FirstStage(r) = <<"supervise", 0>>
    BY <1>1, StagesByKind DEF Backtest, Health, Evaluate
  <2>3. QED
    BY <2>1, <2>2 DEF Ready, Before
<1>4. ASSUME NEW a \in Attempts, act'[a].pc # "none" PROVE Ready(a.run, a.stage)'
  <2>1. Ready(a.run, a.stage)
    <3>1. CASE act[a].pc # "none"
      BY <1>1, <3>1 DEF StagesInOrder
    <3>2. CASE act[a].pc = "none"
      <4>1. ~Outside
        BY <1>4, <3>2 DEF Outside
      <4>2. ASSUME NEW b \in Attempts, QuietMove(b) \/ Asks(b) \/ RowIsWritten(b)
            PROVE  b = a /\ QuietMove(b)
        <5>1. \A c \in Attempts \ {b} : act'[c] = act[c]
          BY <4>2 DEF QuietMove, Asks, RowIsWritten, RowWrite, Moves
        <5>2. b = a
          BY <1>4, <3>2, <5>1
        <5>3. QED
          BY <3>2, <4>2, <5>2 DEF Asks, RowIsWritten, RowWrite
      <4>3. IsCurrent(a)
        BY <3>2, <4>1, <4>2, StepKinds DEF QuietMove
      <4>4. a.stage = wf[a.run].stage
        BY <4>3 DEF IsCurrent, Current
      <4>5. QED
        BY <1>1, <1>2, <4>4 DEF StagesInOrder
    <3>3. QED
      BY <3>1, <3>2
  <2>2. QED
    BY <1>2, <2>1, FactsAreKept
<1>5. ASSUME NEW r \in Runs, NEW s \in StagesOf(r), s = wf'[r].stage PROVE Ready(r, s)'
  <2>1. CASE wf'[r].stage \in {wf[r].stage, Resolve, FirstStage(r)}
    <3>1. wf'[r].stage # Resolve
      BY <1>1, <1>5, StageShape
    <3>2. Ready(r, s)
      BY <1>1, <1>3, <1>5, <2>1, <3>1 DEF StagesInOrder
    <3>3. QED
      BY <3>2, FactsAreKept
  <2>2. ASSUME NEW a \in Attempts, QuietMove(a), WfAdvances(a) PROVE Ready(r, s)'
    <3>1. PICK next : next = NextStage(a.run, a.stage, act[a].result)
      OBVIOUS
    <3>2. /\ act[a].pc = "reporting" /\ act[a].result \in Status /\ Advance(a.run, next)
      BY <2>2, <3>1 DEF WfAdvances
    <3>3. next \in StagesOf(a.run) \union {Over}
      BY <1>1, <1>2, <3>1, <3>2, NextStageReady
    <3>4. /\ wf'[a.run].stage = next /\ \A q \in Runs \ {a.run} : wf'[q] = wf[q]
      BY <1>1, <1>2, <3>2, <3>3, StageShape, AdvanceMoves
    <3>5. CASE r = a.run
      <4>1. next = s
        BY <1>5, <3>4, <3>5
      <4>2. next \in StagesOf(r) /\ a.stage # Finish
        <5>1. a.stage = Finish => next = Over
          BY <1>1, <1>2, <3>1, <3>2, NextStageReady
        <5>2. s # Over
          BY <1>1, StageShape
        <5>3. QED
          BY <4>1, <5>1, <5>2
      <4>3. Terminal(r, a.stage) /\ StatusOf(r, a.stage) = act[a].result
        BY <1>1, <3>2, <3>5, <4>2 DEF ResultsAreRecorded
      <4>4. Before(r, a.stage)
        BY <1>1, <3>2, <3>5 DEF StagesInOrder, Ready
      <4>5. Ready(r, next)
        BY <1>1, <1>2, <3>1, <3>2, <3>5, <4>2, <4>3, <4>4, NextStageReady
      <4>6. QED
        BY <4>1, <4>2, <4>5, FactsAreKept
    <3>6. CASE r # a.run
      BY <1>1, <1>5, <2>1, <3>4, <3>6
    <3>7. QED
      BY <3>5, <3>6
  <2>3. QED
    BY ZenonT(40), <2>1, <2>2, StepKinds DEF WfStays, Asks, RowIsWritten, RowWrite
<1>6. ASSUME NEW r \in Runs, status'[r] \in Status PROVE Settled(r)'
  <2>1. CASE status[r] \in Status
    BY <1>1, <2>1, FactsAreKept DEF StagesInOrder
  <2>2. CASE status[r] \notin Status
    <3>1. ~Outside
      BY <1>6, <2>2 DEF Outside, Status
    <3>2. ASSUME NEW a \in Attempts, QuietMove(a) \/ Asks(a) PROVE FALSE
      BY <1>6, <2>2, <3>2 DEF QuietMove, Asks
    <3>3. PICK a \in Attempts : RowIsWritten(a)
      BY <3>1, <3>2, StepKinds
    <3>4. a.stage = Finish /\ a.run = r /\ act[a].pc # "none"
      <4>1. status' # status
        BY <1>6, <2>2
      <4>2. a.stage = Finish /\ act[a].pc # "none"
           /\ \E st : status' = [status EXCEPT ![a.run] = st]
        BY <3>3, <4>1 DEF RowIsWritten, RowWrite
      <4>3. QED
        BY <1>1, <1>6, <2>2, <4>2 DEF TypeOK
    <3>5. Settled(r)
      BY <1>1, <3>4 DEF StagesInOrder, Ready
    <3>6. QED
      BY <3>5, FactsAreKept
  <2>3. QED
    BY <2>1, <2>2
<1>7. \A r \in Runs : \A s \in StagesOf(r) : s = wf'[r].stage => Ready(r, s)'
  BY <1>5
<1>8. /\ \A a \in Attempts : act'[a].pc # "none" => Ready(a.run, a.stage)'
      /\ \A r \in Runs : status'[r] \in Status => Settled(r)'
  BY <1>4, <1>6
<1>9. QED
  BY <1>1, <1>7, <1>8 DEF StagesInOrder

(* A finished run is settled, so every attempt that is still under way     *)
(* finds the row of its stage.                                             *)
LEMMA FinishedIsFrozen ==
  ASSUME IInv, [Next]_vars, NEW r \in Runs, status[r] \in Status
  PROVE  status'[r] = status[r] /\ steps'[r] = steps[r]
<1>1. TypeOK /\ RowsAreSound /\ StagesInOrder
  BY DEF IInv
<1>2. status'[r] = status[r]
  BY StatusIsKept
<1>3. ASSUME NEW a \in Attempts, RowIsWritten(a) PROVE a.run # r
  <2>1. PICK b \in Attempts, st \in Status \union {"started"}, pc \in PCs : RowWrite(a, b, st, pc)
    BY <1>3 DEF RowIsWritten
  <2>2. ~Terminal(a.run, a.stage)
    BY <2>1 DEF RowWrite, Step, Terminal, StatusOf, Status
  <2>3. a.stage \in StagesOf(a.run)
    BY <1>1, AttemptTypes
  <2> SUFFICES ASSUME a.run = r PROVE FALSE
    OBVIOUS
  <2>4. CASE a.stage = Finish
    <3>1. steps[r][Finish] # NoStep
      BY <1>1 DEF RowsAreSound
    <3>2. QED
      BY <2>1, <2>4, <3>1, StageNames DEF RowWrite, Step
  <2>5. CASE a.stage # Finish
    <3>1. Ready(r, a.stage) /\ Settled(r)
      BY <1>1, <2>1 DEF StagesInOrder, RowWrite
    <3>2. Terminal(r, a.stage)
      BY <1>1, <2>3, <2>5, <3>1, SettledIsClosed
    <3>3. QED
      BY <2>2, <3>2
  <2>6. QED
    BY <2>4, <2>5
<1>4. CASE steps' = steps
  BY <1>2, <1>4
<1>5. ASSUME NEW a \in Attempts, RowIsWritten(a) PROVE steps'[r] = steps[r]
  <2>1. a.run # r
    BY <1>3, <1>5
  <2>2. PICK row : steps' = [steps EXCEPT ![a.run][a.stage] = row]
    BY <1>5 DEF RowIsWritten, RowWrite
  <2>3. QED
    BY <1>1, <2>1, <2>2 DEF TypeOK
<1>6. QED
  BY <1>2, <1>4, <1>5, StepKinds DEF Outside, QuietMove, Asks

(* A run gets its final status from the attempt of its finish stage.       *)
LEMMA FinishWrites ==
  ASSUME IInv, [Next]_vars, NEW r \in Runs, status[r] \notin Status, status'[r] \in Status
  PROVE  /\ Complete(r) /\ Settled(r) /\ status'[r] = FinalStatus(r)
         /\ steps'[r][Finish] # NoStep /\ StatusOf(r, Finish)' = FinalStatus(r)
         /\ \A s \in StagesOf(r) \ {Finish} : steps'[r][s] = steps[r][s]
<1>1. /\ TypeOK /\ StagesInOrder
      /\ StagesOf(r) \subseteq Stages /\ Finish \in StagesOf(r)
  BY StageShape DEF IInv
<1>2. ~Outside
  BY DEF Outside, Status
<1>3. ASSUME NEW a \in Attempts, QuietMove(a) \/ Asks(a) PROVE FALSE
  BY <1>3 DEF QuietMove, Asks
<1>4. PICK a \in Attempts, b \in Attempts, st \in Status \union {"started"}, pc \in PCs :
        RowWrite(a, b, st, pc)
  BY <1>2, <1>3, StepKinds DEF RowIsWritten
<1>5. status' # status
  OBVIOUS
<1>6. /\ a.stage = Finish /\ act[a].pc # "none" /\ Complete(a.run) /\ st = FinalStatus(a.run)
      /\ status' = [status EXCEPT ![a.run] = st]
  BY <1>4, <1>5 DEF RowWrite
<1>7. a.run = r
  BY <1>1, <1>6 DEF TypeOK
<1>8. Settled(r)
  BY <1>1, <1>6, <1>7 DEF StagesInOrder, Ready
<1>9. status'[r] = st
  BY <1>1, <1>6, <1>7 DEF TypeOK
<1>10. /\ steps'[r][Finish] # NoStep /\ StatusOf(r, Finish)' = st
       /\ \A s \in StagesOf(r) \ {Finish} : steps'[r][s] = steps[r][s]
  <2>1. /\ steps'[a.run][a.stage] # NoStep /\ StatusOf(a.run, a.stage)' = st
        /\ \A q \in Runs, s \in Stages : q # a.run \/ s # a.stage => steps'[q][s] = steps[q][s]
    BY <1>1, <1>4, RowEffect
  <2>2. StatusOf(a.run, a.stage)' = steps'[a.run][a.stage].status
        /\ StatusOf(r, Finish)' = steps'[r][Finish].status
    BY DEF StatusOf
  <2>3. QED
    BY <1>1, <1>6, <1>7, <2>1, <2>2
<1>11. QED
  BY <1>6, <1>7, <1>8, <1>9, <1>10

LEMMA FinalStatusStep == IInv /\ [Next]_vars => FinalStatusIsTrue'
<1> SUFFICES ASSUME IInv, [Next]_vars PROVE FinalStatusIsTrue'
  OBVIOUS
<1> SUFFICES ASSUME NEW r \in Runs, status'[r] \in Status
             PROVE  /\ \A s \in Stages : <<r, s>> \in applied' => steps'[r][s] # NoStep
                    /\ status'[r] = "completed" <=>
                         \A s \in StagesOf(r) : steps'[r][s] # NoStep /\ StatusOf(r, s)' = "completed"
                    /\ status'[r] = "uncertain" <=>
                         \E s \in StagesOf(r) \ {Finish} :
                           steps'[r][s] # NoStep /\ StatusOf(r, s)' = "uncertain"
  <2>1. Stages' = Stages /\ \A q \in Runs : StagesOf(q)' = StagesOf(q)
    BY NothingElseMoves, Frozen
  <2>2. QED
    BY <2>1 DEF FinalStatusIsTrue, Recorded
<1>1. TypeOK /\ RowsAreSound /\ FinalStatusIsTrue
  BY DEF IInv, RecordsAreTrue
<1>2. \A s \in Stages : <<r, s>> \in applied' => steps'[r][s] # NoStep
  <2>1. Stages' = Stages
    BY NothingElseMoves, Frozen
  <2>2. QED
    BY <2>1, RowsStep DEF RowsAreSound
<1>3. CASE status[r] \in Status
  <2>1. status'[r] = status[r] /\ steps'[r] = steps[r]
    BY <1>3, FinishedIsFrozen
  <2>2. /\ status[r] = "completed" <=>
             \A s \in StagesOf(r) : steps[r][s] # NoStep /\ StatusOf(r, s) = "completed"
        /\ status[r] = "uncertain" <=>
             \E s \in StagesOf(r) \ {Finish} : steps[r][s] # NoStep /\ StatusOf(r, s) = "uncertain"
    BY <1>1, <1>3 DEF FinalStatusIsTrue, Recorded
  <2>3. QED
    BY <1>2, <2>1, <2>2 DEF StatusOf
<1>4. CASE status[r] \notin Status
  <2>1. /\ Complete(r) /\ Settled(r) /\ status'[r] = FinalStatus(r)
        /\ steps'[r][Finish] # NoStep /\ StatusOf(r, Finish)' = FinalStatus(r)
        /\ \A s \in StagesOf(r) \ {Finish} :
             steps'[r][s] = steps[r][s] /\ StatusOf(r, s)' = StatusOf(r, s)
    BY <1>4, FinishWrites DEF StatusOf
  <2>2. steps[r][Finish] = NoStep
    BY <1>1, <1>4 DEF RowsAreSound
  <2>3. ASSUME NEW s \in Recorded(r) PROVE s \in StagesOf(r) \ {Finish} /\ StatusOf(r, s) \in Status
    <3>1. s \in StagesOf(r) \ {Finish} /\ steps[r][s] # NoStep
      BY <2>2 DEF Recorded
    <3>2. CASE s = Evaluate
      <4>1. Ready(r, s)
        BY <3>2, StageNames DEF Ready, Before
      <4>2. QED
        BY <1>1, <2>1, <3>1, <4>1, SettledIsClosed DEF Terminal
    <3>3. CASE s # Evaluate
      BY <1>1, <3>1, <3>3 DEF RowsAreSound, Terminal
    <3>4. QED
      BY <3>1, <3>2, <3>3
  <2>4. FinalStatus(r) = "uncertain" <=> \E s \in Recorded(r) : StatusOf(r, s) = "uncertain"
    BY <2>3 DEF FinalStatus, Status
  <2>5. FinalStatus(r) = "completed" <=> \A s \in Recorded(r) : StatusOf(r, s) = "completed"
    BY <2>3 DEF FinalStatus, Status
  <2>6. (\A s \in Recorded(r) : StatusOf(r, s) = "completed") => StagesOf(r) \ {Finish} \subseteq Recorded(r)
    BY <1>1, <2>1, StagesByKind DEF Complete
  <2>7. Recorded(r) \subseteq StagesOf(r) \ {Finish}
    BY <2>3
  <2>8. \A s \in StagesOf(r) \ {Finish} : s \in Recorded(r) <=> steps'[r][s] # NoStep
    BY <2>1 DEF Recorded
  <2>9. status'[r] = "completed" <=>
          \A s \in StagesOf(r) : steps'[r][s] # NoStep /\ StatusOf(r, s)' = "completed"
    <3>1. ASSUME status'[r] = "completed", NEW s \in StagesOf(r)
          PROVE  steps'[r][s] # NoStep /\ StatusOf(r, s)' = "completed"
      BY <2>1, <2>5, <2>6, <2>8, <3>1
    <3>2. ASSUME \A s \in StagesOf(r) : steps'[r][s] # NoStep /\ StatusOf(r, s)' = "completed"
          PROVE  status'[r] = "completed"
      BY <2>1, <2>5, <2>7, <3>2
    <3>3. QED
      BY <3>1, <3>2
  <2>10. status'[r] = "uncertain" <=>
           \E s \in StagesOf(r) \ {Finish} : steps'[r][s] # NoStep /\ StatusOf(r, s)' = "uncertain"
    BY <2>1, <2>4, <2>7, <2>8
  <2>11. QED
    BY <1>2, <2>9, <2>10
<1>5. QED
  BY <1>3, <1>4

LEMMA RecordsStep == IInv /\ [Next]_vars => RecordsAreTrue'
<1> SUFFICES ASSUME IInv, [Next]_vars PROVE RecordsAreTrue'
  OBVIOUS
<1>1. /\ TypeOK /\ RowsAreSound /\ ResultsAreRecorded /\ RecordsAreTrue
      /\ Stages' = Stages /\ Attempts' = Attempts
  BY NothingElseMoves, Frozen DEF IInv
<1>2. ASSUME NEW r \in Runs, <<r, Execute>> \in applied'
      PROVE  EvaluationCompleted(r)' /\ steps'[r][Execute] # NoStep
  <2>1. Execute \in Stages
    <3>1. applied \subseteq Runs \X Stages
      BY <1>1 DEF TypeOK
    <3>2. CASE <<r, Execute>> \in applied
      BY <3>1, <3>2
    <3>3. CASE <<r, Execute>> \notin applied
      <4>1. PICK a \in Attempts : applied' = applied \union {<<a.run, a.stage>>}
        BY ZenonT(40), <1>2, <3>3, StepKinds DEF Outside, QuietMove, Asks, RowIsWritten, RowWrite
      <4>2. a.stage = Execute
        BY <1>2, <3>3, <4>1
      <4>3. QED
        BY <1>1, <4>2, AttemptTypes
    <3>4. QED
      BY <3>2, <3>3
  <2>2. PICK q \in Runs : Execute \in StagesOf(q)
    BY <2>1 DEF Stages
  <2>3. Evaluate \in Stages
    BY <1>1, <2>2, StageShape
  <2>4. EvaluationCompleted(r)
    <3>1. CASE <<r, Execute>> \in applied
      BY <1>1, <3>1 DEF RecordsAreTrue, OrdersNeedEvaluation
    <3>2. CASE <<r, Execute>> \notin applied
      <4>1. PICK a \in Attempts : /\ applied' = applied \union {<<a.run, a.stage>>}
                                  /\ a.stage = Execute => EvaluationCompleted(a.run)
        BY ZenonT(40), <1>2, <3>2, StepKinds DEF Outside, QuietMove, Asks, RowIsWritten, RowWrite
      <4>2. a.stage = Execute /\ a.run = r
        BY <1>2, <3>2, <4>1
      <4>3. QED
        BY <4>1, <4>2
    <3>3. QED
      BY <3>1, <3>2
  <2>5. steps[r][Evaluate] # NoStep /\ Terminal(r, Evaluate)
    BY <2>4 DEF EvaluationCompleted, Terminal, StatusOf, Status
  <2>6. steps'[r][Evaluate] = steps[r][Evaluate]
    BY <2>3, <2>5, RowsAreKept
  <2>7. EvaluationCompleted(r)'
    BY <2>4, <2>6 DEF EvaluationCompleted
  <2>8. steps'[r][Execute] # NoStep
    BY <1>1, <1>2, <2>1, RowsStep DEF RowsAreSound
  <2>9. QED
    BY <2>7, <2>8
<1>3. ASSUME NEW r \in Runs, wf'[r].state = "completed" PROVE status'[r] \in Status
  <2>1. CASE wf[r].state = "completed"
    BY <1>1, <2>1, StatusIsKept DEF RecordsAreTrue, CompletedMeansFinished
  <2>2. CASE wf[r].state # "completed"
    <3>1. ~WfStays /\ wf' # wf
      BY <1>3, <2>2 DEF WfStays
    <3>2. PICK a \in Attempts : QuietMove(a) /\ WfAdvances(a)
      BY <3>1, StepKinds DEF Asks, RowIsWritten, RowWrite
    <3>3. a.run \in Runs /\ a.stage \in StagesOf(a.run)
      BY <1>1, AttemptTypes
    <3>4. PICK next : next = NextStage(a.run, a.stage, act[a].result)
      OBVIOUS
    <3>5. /\ act[a].pc = "reporting" /\ act[a].result \in Status /\ Advance(a.run, next)
      BY <3>2, <3>4 DEF WfAdvances
    <3>6. /\ a.stage = Finish => next = Over
          /\ a.stage # Finish => next \in StagesOf(a.run)
      BY <1>1, <3>3, <3>4, <3>5, NextStageReady
    <3>7. StagesOf(a.run) \subseteq Stages /\ Over \notin StagesOf(a.run)
      BY <1>1, <3>3, StageShape
    <3>8. /\ wf'[a.run].state = IF next = Over THEN "completed" ELSE "running"
          /\ \A q \in Runs \ {a.run} : wf'[q] = wf[q]
      BY <1>1, <3>3, <3>5, <3>6, <3>7, AdvanceMoves
    <3>9. r = a.run /\ next = Over
      BY <1>3, <2>2, <3>8
    <3>10. a.stage = Finish
      BY <3>6, <3>7, <3>9
    <3>11. status[r] \in Status
      BY <1>1, <3>5, <3>9, <3>10 DEF ResultsAreRecorded
    <3>12. QED
      BY <3>11, StatusIsKept
  <2>3. QED
    BY <2>1, <2>2
<1>4. QED
  BY <1>2, <1>3, FinalStatusStep DEF RecordsAreTrue, OrdersNeedEvaluation, CompletedMeansFinished

-----------------------------------------------------------------------------
(* Types.                                                                  *)

LEMMA StatusType == IInv /\ [Next]_vars => status' \in [Runs -> Status \union {"absent", "queued"}]
<1> SUFFICES ASSUME IInv, [Next]_vars PROVE status' \in [Runs -> Status \union {"absent", "queued"}]
  OBVIOUS
<1>1. status \in [Runs -> Status \union {"absent", "queued"}]
  BY DEF IInv, TypeOK
<1>2. status' = status \/ (\E r \in Runs : Create(r)) \/ (\E a \in Attempts : FinishRun(a))
  BY DEF Next, AttemptStep, vars, dbVars, DispatchStart, DispatchAck, DispatchLost,
         HistoryExpires, ResolveRun, Timeout, Begin, Crash, Unavailable, Report, Claim, Dispatch,
         ModelAnswers, FinishEvaluate, LookUpStage, AcquireLease, WriteStage, ReleaseLease,
         HolderExpires, RunOnce, LeaseExpires, OtherAcquires
<1>3. ASSUME NEW r \in Runs, Create(r) PROVE status' \in [Runs -> Status \union {"absent", "queued"}]
  BY <1>1, <1>3 DEF Create
<1>4. ASSUME NEW a \in Attempts, FinishRun(a)
      PROVE  status' \in [Runs -> Status \union {"absent", "queued"}]
  <2>1. PICK st \in Status : status' = status \/ status' = [status EXCEPT ![a.run] = st]
    <3>1. FinalStatus(a.run) \in Status
      BY DEF FinalStatus, Status
    <3>2. QED
      BY <1>4, <3>1 DEF FinishRun, dbVars
  <2>2. QED
    BY <1>1, <2>1
<1>5. QED
  BY <1>1, <1>2, <1>3, <1>4

StartsAndTries(r) ==
  /\ wf[r].stage \in StagesOf(r) \union {Resolve, Over}
  /\ wf[r].start <= Len(tries[r])
  /\ wf[r].start > 0 => wf[r].try \in 1..tries[r][wf[r].start]

LEMMA WorkflowType ==
  IInv /\ [Next]_vars => wf' \in [Runs -> WfRecord] /\ \A r \in Runs : StartsAndTries(r)'
<1> SUFFICES ASSUME IInv, [Next]_vars
             PROVE  wf' \in [Runs -> WfRecord] /\ \A r \in Runs : StartsAndTries(r)'
  OBVIOUS
<1>1. /\ TypeOK /\ wf \in [Runs -> WfRecord] /\ \A r \in Runs : StartsAndTries(r)
      /\ \A r \in Runs : StagesOf(r)' = StagesOf(r)
      /\ tries' = tries /\ tries \in [Runs -> Seq(Nat \ {0})]
  BY NothingElseMoves, Frozen DEF IInv, TypeOK, WfRecord, StartsAndTries
<1>2. \A r \in Runs : /\ wf[r].start \in Nat /\ wf[r].try \in Nat /\ Len(tries[r]) \in Nat
                      /\ \A n \in 1..Len(tries[r]) : tries[r][n] \in Nat \ {0}
  BY <1>1 DEF WfRecord
<1>3. ASSUME NEW q \in Runs, wf' \in [Runs -> WfRecord], \A r \in Runs \ {q} : wf'[r] = wf[r],
             StartsAndTries(q)'
      PROVE  \A r \in Runs : StartsAndTries(r)'
  <2>1. \A r \in Runs \ {q} : StartsAndTries(r)'
    BY <1>1, <1>3 DEF StartsAndTries
  <2>2. QED
    BY <1>3, <2>1
<1>4. CASE wf' = wf
  BY <1>1, <1>4 DEF StartsAndTries
<1>5. ASSUME NEW q \in Runs, NEW stage \in StagesOf(q) \union {Over}, Advance(q, stage)
      PROVE  wf' \in [Runs -> WfRecord] /\ \A r \in Runs : StartsAndTries(r)'
  <2>1. stage \in Stages \union {Resolve, Over}
    BY <1>1, <1>5, StageShape
  <2>2. /\ wf' \in [Runs -> WfRecord] /\ \A r \in Runs \ {q} : wf'[r] = wf[r]
        /\ wf'[q].stage = stage /\ wf'[q].try = 1 /\ wf'[q].start = wf[q].start
    BY <1>1, <1>5, <2>1, AdvanceMoves
  <2>3. wf[q].start > 0 => tries[q][wf[q].start] \in Nat \ {0}
    BY <1>1, <1>2 DEF StartsAndTries
  <2>4. StartsAndTries(q)'
    BY <1>1, <1>2, <2>2, <2>3 DEF StartsAndTries
  <2>5. QED
    BY <1>3, <2>2, <2>4
<1>6. ASSUME NEW q \in Runs, RetryOrFail(q) \/ FailWorkflow(q)
      PROVE  wf' \in [Runs -> WfRecord] /\ \A r \in Runs : StartsAndTries(r)'
  <2>1. /\ wf' \in [Runs -> WfRecord] /\ \A r \in Runs \ {q} : wf'[r] = wf[r]
        /\ wf'[q].stage = wf[q].stage /\ wf'[q].start = wf[q].start
        /\ \/ wf'[q].try = wf[q].try
           \/ wf[q].try < tries[q][wf[q].start] /\ wf'[q].try = wf[q].try + 1
    BY <1>1, <1>6, RetryMoves
  <2>2. wf[q].start > 0 => tries[q][wf[q].start] \in Nat \ {0}
    BY <1>1, <1>2 DEF StartsAndTries
  <2>3. wf'[q].start > 0 => wf'[q].try \in 1..tries[q][wf'[q].start]
    BY <1>1, <1>2, <2>1, <2>2 DEF StartsAndTries
  <2>4. StartsAndTries(q)'
    BY <1>1, <2>1, <2>3 DEF StartsAndTries
  <2>5. QED
    BY <1>3, <2>1, <2>4
<1>7. ASSUME NEW q \in Runs, DispatchStart(q)
      PROVE  wf' \in [Runs -> WfRecord] /\ \A r \in Runs : StartsAndTries(r)'
  <2>1. CASE /\ wf[q].start < Len(tries[q])
             /\ wf' = [wf EXCEPT ![q] = [state |-> "running", stage |-> Resolve,
                                         start |-> wf[q].start + 1, try |-> 1]]
    <3>1. PICK n \in 1..Len(tries[q]) : n = wf[q].start + 1
      BY <1>2, <2>1
    <3>2. [state |-> "running", stage |-> Resolve, start |-> n, try |-> 1] \in WfRecord
      BY <1>2 DEF WfRecord
    <3>3. wf' = [wf EXCEPT ![q] = [state |-> "running", stage |-> Resolve, start |-> n, try |-> 1]]
      BY <2>1, <3>1
    <3>4. /\ wf' \in [Runs -> WfRecord] /\ \A r \in Runs \ {q} : wf'[r] = wf[r]
          /\ wf'[q].stage = Resolve /\ wf'[q].start = n /\ wf'[q].try = 1
      BY <1>1, <3>2, <3>3
    <3>5. StartsAndTries(q)'
      BY <1>1, <1>2, <3>4 DEF StartsAndTries
    <3>6. QED
      BY <1>3, <3>4, <3>5
  <2>2. QED
    BY <1>4, <1>7, <2>1 DEF DispatchStart
<1>8. ASSUME NEW q \in Runs, HistoryExpires(q)
      PROVE  wf' \in [Runs -> WfRecord] /\ \A r \in Runs : StartsAndTries(r)'
  <2>1. /\ wf' \in [Runs -> WfRecord] /\ \A r \in Runs \ {q} : wf'[r] = wf[r]
        /\ wf'[q].stage = wf[q].stage /\ wf'[q].start = wf[q].start /\ wf'[q].try = wf[q].try
    BY <1>1, <1>8 DEF HistoryExpires, WfRecord
  <2>2. StartsAndTries(q)'
    BY <1>1, <2>1 DEF StartsAndTries
  <2>3. QED
    BY <1>3, <2>1, <2>2
<1>9. ASSUME NEW q \in Runs, ResolveRun(q)
      PROVE  wf' \in [Runs -> WfRecord] /\ \A r \in Runs : StartsAndTries(r)'
  BY <1>1, <1>5, <1>6, <1>9, StageShape DEF ResolveRun
<1>10. ASSUME NEW q \in Runs, Timeout(q)
       PROVE  wf' \in [Runs -> WfRecord] /\ \A r \in Runs : StartsAndTries(r)'
  BY <1>6, <1>10 DEF Timeout
<1>11. ASSUME NEW a \in Attempts, Report(a)
       PROVE  wf' \in [Runs -> WfRecord] /\ \A r \in Runs : StartsAndTries(r)'
  <2>1. a.run \in Runs /\ a.stage \in StagesOf(a.run)
    BY <1>1, AttemptTypes
  <2>2. ASSUME act[a].result \in Status
        PROVE  NextStage(a.run, a.stage, act[a].result) \in StagesOf(a.run) \union {Over}
    BY <1>1, <2>1, <2>2, NextStageReady
  <2>3. QED
    BY <1>4, <1>5, <1>6, <1>11, <2>1, <2>2 DEF Report
<1>12. \/ wf' = wf
       \/ \E q \in Runs : DispatchStart(q) \/ HistoryExpires(q) \/ ResolveRun(q) \/ Timeout(q)
       \/ \E a \in Attempts : Report(a)
  BY DEF Next, AttemptStep, vars, temporalVars, Create, DispatchAck, DispatchLost,
         Begin, Crash, Unavailable, Claim, Dispatch, ModelAnswers, FinishEvaluate, LookUpStage,
         AcquireLease, WriteStage, ReleaseLease, HolderExpires, RunOnce, FinishRun,
         LeaseExpires, OtherAcquires
<1>13. QED
  BY <1>4, <1>7, <1>8, <1>9, <1>10, <1>11, <1>12

AccountRecord ==
  [owner : Runs \union {Other}, token : Nat, live : BOOLEAN, by : Attempts \union {Other}]

LEMMA AccountType == IInv /\ [Next]_vars => account' \in AccountRecord
<1> SUFFICES ASSUME IInv, [Next]_vars PROVE account' \in AccountRecord
  OBVIOUS
<1>1. TypeOK /\ account \in AccountRecord
  BY DEF IInv, TypeOK, AccountRecord
<1>2. \/ account' = account \/ LeaseExpires \/ OtherAcquires
      \/ \E a \in Attempts : AcquireLease(a) \/ ReleaseLease(a)
  BY DEF Next, AttemptStep, vars, Create, DispatchStart, DispatchAck, DispatchLost,
         HistoryExpires, ResolveRun, Timeout, Begin, Crash, Unavailable, Report, Claim, Dispatch,
         ModelAnswers, FinishEvaluate, LookUpStage, WriteStage, HolderExpires, RunOnce, FinishRun
<1>3. CASE LeaseExpires
  BY <1>1, <1>3 DEF LeaseExpires, AccountRecord
<1>4. CASE OtherAcquires
  BY <1>1, <1>4, RunsAssumption DEF OtherAcquires, AccountRecord
<1>5. ASSUME NEW a \in Attempts, AcquireLease(a) PROVE account' \in AccountRecord
  <2>1. a.run \in Runs
    BY <1>1, AttemptTypes
  <2>2. (IF account.live THEN account.token ELSE account.token + 1) \in Nat
    BY <1>1 DEF AccountRecord
  <2>3. \/ account' = account
        \/ \E token \in Nat : account' = [owner |-> a.run, token |-> token, live |-> TRUE, by |-> a]
    BY <1>5, <2>2 DEF AcquireLease
  <2>4. \A token \in Nat :
          [owner |-> a.run, token |-> token, live |-> TRUE, by |-> a] \in AccountRecord
    BY <1>5, <2>1 DEF AccountRecord
  <2>5. QED
    BY <1>1, <2>3, <2>4
<1>6. ASSUME NEW a \in Attempts, ReleaseLease(a) PROVE account' \in AccountRecord
  BY <1>1, <1>6 DEF ReleaseLease, AccountRecord
<1>7. QED
  BY <1>1, <1>2, <1>3, <1>4, <1>5, <1>6

LEMMA EventType ==
  TypeOK /\ [Next]_vars =>
    event' \in [Runs -> {"none", "pending", "delivered"}] /\ acking' \subseteq Runs
<1> SUFFICES ASSUME TypeOK, [Next]_vars
             PROVE  event' \in [Runs -> {"none", "pending", "delivered"}] /\ acking' \subseteq Runs
  OBVIOUS
<1>1. event \in [Runs -> {"none", "pending", "delivered"}] /\ acking \subseteq Runs
  BY DEF TypeOK
<1>2. \/ event' = event /\ acking' = acking
      \/ \E r \in Runs : \/ event' = event /\ acking' \in {acking \union {r}, acking \ {r}}
                         \/ event' = [event EXCEPT ![r] = "pending"] /\ acking' = acking
                         \/ event' = [event EXCEPT ![r] = "delivered"] /\ acking' = acking \ {r}
  BY ZenonT(40)
     DEF Next, AttemptStep, vars, temporalVars, Create, DispatchStart, DispatchAck, DispatchLost,
         HistoryExpires, ResolveRun, Timeout, Begin, Crash, Unavailable, Report, Claim, Dispatch,
         ModelAnswers, FinishEvaluate, LookUpStage, AcquireLease, WriteStage, ReleaseLease,
         HolderExpires, RunOnce, FinishRun, LeaseExpires, OtherAcquires
<1>3. QED
  BY <1>1, <1>2

LEMMA TypeStep == IInv /\ [Next]_vars => TypeOK'
<1> SUFFICES ASSUME IInv, [Next]_vars PROVE TypeOK'
  OBVIOUS
<1>1. TypeOK /\ kind' = kind /\ tries' = tries /\ Stages' = Stages /\ Attempts' = Attempts
  BY NothingElseMoves, Frozen DEF IInv
<1>2. kind' \in [Runs -> JobKinds] /\ tries' \in [Runs -> Seq(Nat \ {0})]
  BY <1>1 DEF TypeOK
<1>3. steps' \in [Runs -> [Stages -> Row \union {NoStep}]] /\ Row' = Row
  <2>1. steps \in [Runs -> [Stages -> Row \union {NoStep}]]
    BY <1>1 DEF TypeOK
  <2>2. ASSUME NEW a \in Attempts, RowIsWritten(a)
        PROVE  steps' \in [Runs -> [Stages -> Row \union {NoStep}]]
    <3>1. PICK b \in Attempts, st \in Status \union {"started"}, pc \in PCs :
            RowWrite(a, b, st, pc)
      BY <2>2 DEF RowIsWritten
    <3>2. QED
      BY <1>1, <3>1, RowEffect
  <2>3. Row' = Row
    BY <1>1 DEF Row
  <2>4. steps' = steps \/ \E a \in Attempts : RowIsWritten(a)
    BY StepKinds DEF Outside, QuietMove, Asks
  <2>5. QED
    BY <2>1, <2>2, <2>3, <2>4
<1>4. act' \in [Attempts -> ActRecord]
  <2>1. ASSUME NEW a \in Attempts, QuietMove(a) PROVE act' \in [Attempts -> ActRecord]
    BY <2>1 DEF QuietMove, Moves
  <2>2. ASSUME NEW a \in Attempts, Asks(a) PROVE act' \in [Attempts -> ActRecord]
    BY <2>2 DEF Asks, Moves
  <2>3. ASSUME NEW a \in Attempts, RowIsWritten(a) PROVE act' \in [Attempts -> ActRecord]
    <3>1. PICK b \in Attempts, st \in Status \union {"started"}, pc \in PCs : RowWrite(a, b, st, pc)
      BY <2>3 DEF RowIsWritten
    <3>2. QED
      BY <3>1 DEF RowWrite, Moves
  <2>4. CASE Outside
    BY <2>4 DEF Outside
  <2>5. \/ Outside
        \/ \E a \in Attempts : QuietMove(a) \/ Asks(a) \/ RowIsWritten(a)
    BY StepKinds
  <2>6. QED
    BY <2>1, <2>2, <2>3, <2>4, <2>5
<1>5. applied' \subseteq Runs \X Stages
  <2>1. applied \subseteq Runs \X Stages
    BY <1>1 DEF TypeOK
  <2>2. applied' = applied \/ \E a \in Attempts : applied' = applied \union {<<a.run, a.stage>>}
    BY ZenonT(40), StepKinds DEF Outside, QuietMove, Asks, RowIsWritten, RowWrite
  <2>3. QED
    BY <1>1, <2>1, <2>2, AttemptTypes
<1>6. calls' \in [Runs -> Nat]
  <2>1. calls \in [Runs -> Nat]
    BY <1>1 DEF TypeOK
  <2>2. calls' = calls \/ \E a \in Attempts : calls' = [calls EXCEPT ![a.run] = @ + 1]
    BY ZenonT(40), StepKinds DEF Outside, QuietMove, Asks, RowIsWritten, RowWrite
  <2>3. QED
    BY <1>1, <2>1, <2>2, AttemptTypes
<1>7. account' \in AccountRecord
  BY AccountType
<1>8. event' \in [Runs -> {"none", "pending", "delivered"}] /\ acking' \subseteq Runs
  BY <1>1, EventType
<1>9. status' \in [Runs -> Status \union {"absent", "queued"}]
  BY StatusType
<1>10. wf' \in [Runs -> WfRecord] /\ \A r \in Runs : StartsAndTries(r)'
  BY WorkflowType
<1>11. QED
  BY <1>1, <1>2, <1>3, <1>4, <1>5, <1>6, <1>7, <1>8, <1>9, <1>10
     DEF TypeOK, ActRecord, AccountRecord, WfRecord, StartsAndTries

-----------------------------------------------------------------------------
(* The invariant and what it shows.                                        *)

LEMMA InitIInv == Init => IInv
<1> SUFFICES ASSUME Init PROVE IInv
  OBVIOUS
<1>1. /\ tries \in [Runs -> Seq(Nat \ {0})] /\ kind \in [Runs -> JobKinds]
      /\ status = [r \in Runs |-> "absent"]
      /\ steps = [r \in Runs |-> [s \in Stages |-> NoStep]]
      /\ event = [r \in Runs |-> "none"] /\ acking = {}
      /\ wf = [r \in Runs |-> [state |-> "none", stage |-> Over, start |-> 0, try |-> 1]]
      /\ act = [a \in Attempts |-> Idle]
      /\ applied = {} /\ calls = [r \in Runs |-> 0]
  BY RunsAssumption DEF Init
<1>2. TypeOK
  <2>1. \A r \in Runs : Len(tries[r]) \in Nat
    BY <1>1
  <2>2. account \in [owner : Runs \union {Other}, token : Nat, live : BOOLEAN,
                     by : Attempts \union {Other}]
    BY DEF Init
  <2>3. act \in [Attempts -> [pc : PCs, result : Results, token : Nat, fresh : BOOLEAN]]
    BY <1>1 DEF Idle, PCs, Results
  <2>4. QED
    BY <1>1, <2>1, <2>2, <2>3 DEF TypeOK
<1>3. \A r \in Runs : /\ StagesOf(r) \subseteq Stages /\ Finish \in StagesOf(r)
                      /\ Over \notin StagesOf(r)
                      /\ kind[r] = "agent" => Evaluate \in StagesOf(r)
  BY <1>2, StageShape
<1>4. \A r \in Runs : \A s \in StagesOf(r) : steps[r][s] = NoStep
  BY <1>1, <1>3
<1>5. \A a \in Attempts : act[a].pc = "none" /\ a.run \in Runs
  BY <1>1, <1>2, AttemptTypes DEF Idle
<1>6. RunsExist
  BY <1>1, <1>5 DEF RunsExist
<1>7. MarkerIsOwned
  BY <1>1, <1>5 DEF MarkerIsOwned
<1>8. RowsAreSound
  BY <1>1, <1>3, <1>4 DEF RowsAreSound, Status
<1>9. ResultsAreRecorded
  BY <1>5 DEF ResultsAreRecorded
<1>10. StagesInOrder
  BY <1>1, <1>3, <1>5 DEF StagesInOrder, Status
<1>11. RecordsAreTrue
  BY <1>1 DEF RecordsAreTrue, OrdersNeedEvaluation, FinalStatusIsTrue, CompletedMeansFinished, Status
<1>12. QED
  BY <1>2, <1>6, <1>7, <1>8, <1>9, <1>10, <1>11 DEF IInv

LEMMA StepIInv == IInv /\ [Next]_vars => IInv'
<1> SUFFICES ASSUME IInv, [Next]_vars PROVE IInv'
  OBVIOUS
<1>1. TypeOK' /\ RunsExist' /\ MarkerIsOwned' /\ RowsAreSound'
  BY TypeStep, RunsExistStep, MarkerStep, RowsStep
<1>2. ResultsAreRecorded' /\ StagesInOrder' /\ RecordsAreTrue'
  BY ResultsStep, OrderStep, RecordsStep
<1>3. QED
  BY <1>1, <1>2 DEF IInv

(* The inductive invariant holds in every reachable state.                 *)
THEOREM Invariance == Spec => []IInv
BY InitIInv, StepIInv, PTL DEF Spec

(* Every variable keeps its type, and every stage of a workflow is one of its run's stages. *)
THEOREM TypeCorrect == Spec => []TypeOK
<1>1. IInv => TypeOK
  BY DEF IInv
<1>2. QED
  BY <1>1, Invariance, PTL

(* The provider is asked at most once per run: the dispatch marker of      *)
(* claim_dispatch is committed first and never given away, however often   *)
(* attempts crash, time out, answer late or start again.                   *)
THEOREM ProviderAskedOnce == Spec => []OneModelDispatch
<1>1. IInv => OneModelDispatch
  BY DEF IInv, MarkerIsOwned, OneModelDispatch
<1>2. QED
  BY <1>1, Invariance, PTL

(* Orders need a completed evaluation, the final status finish_run derives *)
(* tells what became of every stage, and a workflow that completed left a  *)
(* finished run.                                                           *)
THEOREM RecordsTellTheTruth == Spec => []RecordsAreTrue
<1>1. IInv => RecordsAreTrue
  BY DEF IInv
<1>2. QED
  BY <1>1, Invariance, PTL

(* No step of any attempt, stalled or current, rewrites a terminal stage   *)
(* row or adds anything to a finished run.                                 *)
THEOREM NothingIsRewritten == Spec => ResultsAreFinal
<1> DEFINE Kept == \A r \in Runs :
             /\ status[r] \in Status => status'[r] = status[r] /\ steps'[r] = steps[r]
             /\ \A s \in Stages : steps[r][s] # NoStep /\ StatusOf(r, s) # "started" =>
                  steps'[r][s] = steps[r][s]
<1>1. IInv /\ [Next]_vars => Kept
  <2> SUFFICES ASSUME IInv, [Next]_vars, NEW r \in Runs
               PROVE  /\ status[r] \in Status => status'[r] = status[r] /\ steps'[r] = steps[r]
                      /\ \A s \in Stages : steps[r][s] # NoStep /\ StatusOf(r, s) # "started" =>
                           steps'[r][s] = steps[r][s]
    OBVIOUS
  <2>1. TypeOK
    BY DEF IInv
  <2>2. ASSUME NEW s \in Stages, steps[r][s] # NoStep, StatusOf(r, s) # "started"
        PROVE  steps'[r][s] = steps[r][s]
    <3>1. steps[r][s] \in Row
      BY <2>1, <2>2 DEF TypeOK
    <3>2. Terminal(r, s)
      BY <2>2, <3>1 DEF Terminal, Row, StatusOf
    <3>3. QED
      BY <2>2, <3>2, RowsAreKept
  <2>3. QED
    BY <2>2, FinishedIsFrozen
<1>2. IInv /\ [Next]_vars => [Kept]_vars
  BY <1>1
<1>3. QED
  BY <1>2, Invariance, PTL DEF Spec, ResultsAreFinal
=============================================================================
