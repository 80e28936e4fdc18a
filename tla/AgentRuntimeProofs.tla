--------------------------- MODULE AgentRuntimeProofs ---------------------------
(***************************************************************************)
(* Proofs about AgentRuntime, for any callers, requests, versions, models  *)
(* and policy, and any number of steps of the clock, forward or back.      *)
(***************************************************************************)
EXTENDS AgentRuntime, TotalsProofs, SequenceTheorems

Fields == {"pc", "request", "now", "selected", "contexts", "decisions", "calls", "sent", "out"}
Working == {"claimed", "cycle", "asking"}

Openings ==
  [key : {KeyOf(RequestOf[id]) : id \in Ids}, agent : {AgentOf(VersionOf[v]) : v \in DOMAIN VersionOf},
   version : DOMAIN VersionOf, now : Nat, slots : Nat]

RunIs(c) ==
  /\ DOMAIN run[c] = Fields
  /\ run[c].pc \in {"idle", "valid", "done"} \cup Working
  /\ run[c].pc \in {"valid"} \cup Working =>
       run[c].request \in Ids /\ Registered(RequestAt(c)) /\ run[c].now \in Nat

TypeOK ==
  /\ asked \in Scenarios /\ clock \in Nat
  /\ \A agent \in DOMAIN last : last[agent] \in Nat
  /\ opened \in Seq(Openings)
  /\ \A k \in DOMAIN cache : DOMAIN cache[k] = {"request", "result"}
  /\ run \in [Callers -> Range(run)]
  /\ \A c \in Callers : RunIs(c)

(* What the cache says of a key is what one caller at work on it is about to change.             *)
ClaimIs(c) ==
  /\ KeyOf(RequestAt(c)) \in DOMAIN cache
  /\ cache[KeyOf(RequestAt(c))].request = run[c].request
  /\ cache[KeyOf(RequestAt(c))].result = NoResult

ClaimsAreOwned ==
  /\ \A c \in Callers : run[c].pc \in Working => ClaimIs(c)
  /\ \A c, d \in Callers :
       run[c].pc \in Working /\ run[d].pc \in Working /\ KeyOf(RequestAt(c)) = KeyOf(RequestAt(d))
       => c = d
  /\ \A key \in DOMAIN cache : KeyOf(RequestOf[cache[key].request]) = key

(* An answer that was computed, or completed, is the one its key keeps.                          *)
AnswerIs(c) ==
  /\ KeyOf(RequestAt(c)) \in DOMAIN cache
  /\ cache[KeyOf(RequestAt(c))].request = run[c].request
  /\ cache[KeyOf(RequestAt(c))].result = run[c].out
  /\ run[c].out.status # "none"

AnswersAreKept ==
  \A c \in Callers :
    Done(c) /\ (run[c].selected # <<>> \/ run[c].out.status = "completed") => AnswerIs(c)

(* The calls a result will tell of are those that were sent, but for the one under way.          *)
CallsOf(c) ==
  /\ run[c].pc \in {"idle", "valid"} => run[c].selected = <<>>
  /\ run[c].pc \in {"idle", "valid", "claimed"} => run[c].sent = {} /\ run[c].calls = {}
  /\ run[c].pc = "cycle" => run[c].sent = run[c].calls
  /\ run[c].pc = "asking" => run[c].sent = run[c].calls \cup {Current(c)}
  /\ Done(c) /\ run[c].selected # <<>> => run[c].out.calls = run[c].sent

CallsAreTrue == \A c \in Callers : CallsOf(c)

(* Every evaluation that was started is still known by its key, and is the only one of it.       *)
KeysAreOpenedOnce ==
  /\ \A i \in DOMAIN opened : opened[i].key \in DOMAIN cache
  /\ \A i, j \in DOMAIN opened : opened[i].key = opened[j].key => i = j

(* The pace is that of the last evaluation of an agent, which is the latest.                     *)
PaceIsKept ==
  /\ \A i \in DOMAIN opened :
       opened[i].agent \in DOMAIN last /\ opened[i].now <= last[opened[i].agent]
  /\ \A i, j \in DOMAIN opened :
       i < j /\ opened[i].agent = opened[j].agent
       => opened[j].now >= opened[i].now + VersionOf[opened[j].version].interval

(* The slots taken of a day are those of the evaluations started in it.                          *)
DayIs(opening) == <<opening.agent[1], opening.agent[2], opening.now \div DayLength>>
OnDay(starts, day, n) == {j \in 1..n : DayIs(starts[j]) = day}
SlotsOn(starts, day, n) == Total([j \in OnDay(starts, day, n) |-> starts[j].slots])

SlotsAreCounted ==
  /\ \A day \in DOMAIN counts : counts[day] = SlotsOn(opened, day, Len(opened))
  /\ \A i \in DOMAIN opened : DayIs(opened[i]) \in DOMAIN counts
  /\ \A i \in DOMAIN opened :
       SlotsOn(opened, DayIs(opened[i]), i) <= VersionOf[opened[i].version].perDay

IInv ==
  /\ TypeOK
  /\ ClaimsAreOwned
  /\ AnswersAreKept
  /\ CallsAreTrue
  /\ ClaimsAreWorkedOn
  /\ KeysAreOpenedOnce
  /\ PaceIsKept
  /\ SlotsAreCounted

-----------------------------------------------------------------------------
(* What the step of one caller leaves to the others.                       *)
Alone(c) ==
  /\ run' \in [Callers -> Range(run')]
  /\ DOMAIN run'[c] = Fields
  /\ \A d \in Callers \ {c} : run'[d] = run[d]

LEMMA RunStep ==
  ASSUME TypeOK, NEW c \in Callers, NEW r, run' = [run EXCEPT ![c] = r], DOMAIN r = Fields
  PROVE  Alone(c) /\ run'[c] = r
<1>1. run \in [Callers -> Range(run)]
  BY DEF TypeOK
<1>2. run' = [d \in Callers |-> run'[d]] /\ run'[c] = r
      /\ \A d \in Callers \ {c} : run'[d] = run[d]
  BY <1>1
<1>3. run' \in [Callers -> Range(run')]
  BY <1>2 DEF Range
<1>4. QED
  BY <1>2, <1>3 DEF Alone

LEMMA OthersKeep ==
  ASSUME NEW c \in Callers, Alone(c), NEW d \in Callers \ {c}
  PROVE  /\ run'[d] = run[d] /\ RequestAt(d)' = RequestAt(d) /\ Current(d)' = Current(d)
         /\ Done(d)' = Done(d) /\ RunIs(d)' = RunIs(d) /\ CallsOf(d)' = CallsOf(d)
<1>1. run'[d] = run[d]
  BY DEF Alone
<1>2. RequestAt(d)' = RequestAt(d) /\ Current(d)' = Current(d) /\ Done(d)' = Done(d)
  BY <1>1 DEF RequestAt, Current, Done
<1>3. RunIs(d)' = RunIs(d)
  BY <1>1, <1>2 DEF RunIs
<1>4. CallsOf(d)' = CallsOf(d)
  BY <1>1, <1>2 DEF CallsOf
<1>5. QED
  BY <1>1, <1>2, <1>3, <1>4

(* A step that touches neither the cache nor what was opened, of a caller that holds no claim:
   it looks a key up, is refused or may go on.                                                    *)
Shared == <<asked, cache, counts, last, opened>>

Answered(c) ==
  /\ Alone(c) /\ run[c].pc \notin Working /\ UNCHANGED Shared /\ clock' = clock
  /\ run'[c].pc \in {"valid", "done"}
  /\ RunIs(c)' /\ CallsOf(c)' /\ run'[c].selected = <<>>
  /\ run'[c].pc = "done" /\ run'[c].out.status = "completed" => AnswerIs(c)'

LEMMA AnsweredKeeps == ASSUME IInv, NEW c \in Callers, Answered(c) PROVE IInv'
<1>1. /\ \A d \in Callers \ {c} : /\ run'[d] = run[d] /\ RequestAt(d)' = RequestAt(d)
                                  /\ Done(d)' = Done(d) /\ RunIs(d)' = RunIs(d)
                                  /\ CallsOf(d)' = CallsOf(d)
      /\ run[c].pc \notin Working /\ run'[c].pc \notin Working
      /\ UNCHANGED <<asked, cache, counts, last, opened, clock>>
  BY OthersKeep DEF Answered, Shared, Working
<1>2. TypeOK'
  <2>1. \A d \in Callers : RunIs(d)'
    BY <1>1 DEF Answered, IInv, TypeOK
  <2>2. run' \in [Callers -> Range(run')]
    BY DEF Answered, Alone
  <2>3. QED
    BY <1>1, <2>1, <2>2 DEF IInv, TypeOK
<1>3. ClaimsAreOwned'
  <2>1. \A d \in Callers : run'[d].pc \in Working =>
          run'[d] = run[d] /\ RequestAt(d)' = RequestAt(d) /\ d # c
    BY <1>1
  <2>2. \A d \in Callers : run'[d].pc \in Working => ClaimIs(d)'
    BY <1>1, <2>1 DEF IInv, ClaimsAreOwned, ClaimIs
  <2>3. \A d, e \in Callers :
          run'[d].pc \in Working /\ run'[e].pc \in Working
          /\ KeyOf(RequestAt(d)') = KeyOf(RequestAt(e)') => d = e
    BY <2>1 DEF IInv, ClaimsAreOwned
  <2>4. \A d \in Callers : KeyOf(RequestAt(d))' = KeyOf(RequestAt(d)')
    BY DEF KeyOf
  <2>5. QED
    BY <1>1, <2>2, <2>3, <2>4 DEF IInv, ClaimsAreOwned
<1>4. AnswersAreKept'
  <2> SUFFICES ASSUME NEW d \in Callers, Done(d)',
                      run'[d].selected # <<>> \/ run'[d].out.status = "completed"
               PROVE  AnswerIs(d)'
    BY DEF AnswersAreKept
  <2>1. CASE d = c
    BY <2>1 DEF Answered, Done
  <2>2. CASE d # c
    BY <1>1, <2>2 DEF IInv, AnswersAreKept, AnswerIs
  <2>3. QED
    BY <2>1, <2>2
<1>5. CallsAreTrue'
  BY <1>1 DEF IInv, CallsAreTrue, Answered
<1>6. ClaimsAreWorkedOn'
  BY <1>1 DEF IInv, ClaimsAreWorkedOn, Working
<1>7. KeysAreOpenedOnce' /\ PaceIsKept'
  BY <1>1 DEF IInv, KeysAreOpenedOnce, PaceIsKept
<1>8. SlotsAreCounted'
  BY <1>1 DEF IInv, SlotsAreCounted
<1>9. QED
  BY <1>2, <1>3, <1>4, <1>5, <1>6, <1>7, <1>8 DEF IInv

(* An answer without a claim keeps what a step of its kind must.           *)
LEMMA AnswerIsAnswered ==
  ASSUME IInv, NEW c \in Callers, run[c].pc \in {"idle", "valid"}, NEW id, NEW result,
         Answer(c, id, result), UNCHANGED Shared, clock' = clock,
         result.status = "completed" => /\ KeyOf(RequestOf[id]) \in DOMAIN cache
                                        /\ cache[KeyOf(RequestOf[id])].request = id
                                        /\ cache[KeyOf(RequestOf[id])].result = result
  PROVE  IInv'
<1> DEFINE r == [run[c] EXCEPT !.pc = "done", !.request = id, !.out = result]
<1>1. DOMAIN run[c] = Fields
  BY DEF IInv, TypeOK, RunIs
<1>2. /\ DOMAIN r = Fields /\ r.pc = "done" /\ r.request = id /\ r.out = result
      /\ r.selected = run[c].selected
  BY <1>1 DEF Fields
<1>3. run' = [run EXCEPT ![c] = r]
  <2>1. run' = [run EXCEPT ![c].pc = "done", ![c].request = id, ![c].out = result]
    BY DEF Answer
  <2>2. DOMAIN run = Callers
    BY DEF IInv, TypeOK
  <2>3. QED
    BY <1>1, <2>1, <2>2 DEF Fields
<1> HIDE DEF r
<1>4. Alone(c) /\ run'[c] = r
  BY <1>2, <1>3, RunStep DEF IInv
<1>5. r.selected = <<>>
  BY <1>2 DEF IInv, CallsAreTrue, CallsOf
<1>6. RunIs(c)'
  BY <1>2, <1>4 DEF RunIs, Working
<1>7. CallsOf(c)'
  BY <1>2, <1>4, <1>5 DEF CallsOf
<1>8. result.status = "completed" => AnswerIs(c)'
  BY <1>2, <1>4 DEF AnswerIs, RequestAt, Shared
<1>9. Answered(c)
  BY <1>2, <1>4, <1>5, <1>6, <1>7, <1>8 DEF Answered, Working
<1>10. QED
  BY <1>9, AnsweredKeeps

LEMMA RefusalKeeps ==
  ASSUME IInv, NEW c \in Callers, run[c].pc \in {"idle", "valid"}, NEW id, NEW status, NEW reason,
         status \in {"refused", "in_progress"},
         Answer(c, id, Result(status, reason)), UNCHANGED Shared, clock' = clock
  PROVE  IInv'
<1>1. Result(status, reason).status = status
  BY DEF Result
<1>2. QED
  BY <1>1, AnswerIsAnswered

LEMMA FindCachedKeeps ==
  ASSUME IInv, NEW c \in Callers, run[c].pc = "idle", NEW id,
         KeyOf(RequestOf[id]) \in DOMAIN cache, FindCached(c, id), UNCHANGED Shared, clock' = clock
  PROVE  IInv'
<1> DEFINE entry == cache[KeyOf(RequestOf[id])]
<1>1. CASE entry.request # id
  BY <1>1, RefusalKeeps DEF FindCached, Refuse
<1>2. CASE entry.request = id /\ entry.result = NoResult
  BY <1>2, RefusalKeeps DEF FindCached
<1>3. CASE entry.request = id /\ entry.result # NoResult
  <2>1. Answer(c, id, entry.result)
    BY <1>3 DEF FindCached
  <2>2. QED
    BY <1>3, <2>1, AnswerIsAnswered
<1>4. QED
  BY <1>1, <1>2, <1>3

LEMMA ExamineKeeps ==
  ASSUME IInv, NEW c \in Callers, run[c].pc = "idle", NEW id \in Ids, Registered(RequestOf[id]),
         Examine(c, id), UNCHANGED Shared, clock' = clock
  PROVE  IInv'
<1>1. CASE \E reason : Refuse(c, id, reason)
  BY <1>1, RefusalKeeps DEF Refuse
<1>2. CASE run' = [run EXCEPT ![c].pc = "valid", ![c].request = id, ![c].now = clock]
  <2> DEFINE r == [run[c] EXCEPT !.pc = "valid", !.request = id, !.now = clock]
  <2>1. DOMAIN run[c] = Fields /\ CallsOf(c) /\ clock \in Nat /\ DOMAIN run = Callers
    BY DEF IInv, TypeOK, RunIs, CallsAreTrue
  <2>2. /\ DOMAIN r = Fields /\ r.pc = "valid" /\ r.request = id /\ r.now = clock
        /\ r.selected = run[c].selected /\ r.calls = run[c].calls /\ r.sent = run[c].sent
    BY <2>1 DEF Fields
  <2>3. run' = [run EXCEPT ![c] = r]
    BY <1>2, <2>1 DEF Fields
  <2> HIDE DEF r
  <2>4. Alone(c) /\ run'[c] = r
    BY <2>2, <2>3, RunStep DEF IInv
  <2>5. r.selected = <<>> /\ r.sent = {} /\ r.calls = {}
    BY <2>1, <2>2 DEF CallsOf
  <2>6. RunIs(c)'
    BY <2>1, <2>2, <2>4 DEF RunIs, RequestAt
  <2>7. CallsOf(c)'
    BY <2>2, <2>4, <2>5 DEF CallsOf, Done
  <2>8. QED
    BY <2>2, <2>4, <2>5, <2>6, <2>7, AnsweredKeeps DEF Answered, Working
<1>3. QED
  BY <1>1, <1>2 DEF Examine

LEMMA ArriveKeeps == ASSUME IInv, NEW c \in Callers, Arrive(c) PROVE IInv'
<1>1. PICK id \in asked.requests :
        /\ run[c].pc = "idle"
        /\ IF ~Registered(RequestOf[id]) THEN Refuse(c, id, "unauthorized_version")
           ELSE IF KeyOf(RequestOf[id]) \in DOMAIN cache THEN FindCached(c, id)
           ELSE Examine(c, id)
        /\ UNCHANGED <<asked, clock, stepsBack, cache, counts, last, opened>>
  BY DEF Arrive
<1>2. UNCHANGED Shared /\ clock' = clock
  BY <1>1 DEF Shared
<1>3. id \in Ids
  BY DEF IInv, TypeOK, Ids
<1>4. CASE ~Registered(RequestOf[id])
  BY <1>1, <1>2, <1>4, RefusalKeeps DEF Refuse
<1>5. CASE Registered(RequestOf[id]) /\ KeyOf(RequestOf[id]) \in DOMAIN cache
  BY <1>1, <1>2, <1>5, FindCachedKeeps
<1>6. CASE Registered(RequestOf[id]) /\ KeyOf(RequestOf[id]) \notin DOMAIN cache
  BY <1>1, <1>2, <1>3, <1>6, ExamineKeeps
<1>7. QED
  BY <1>4, <1>5, <1>6

LEMMA NotClaimedKeeps == ASSUME IInv, NEW c \in Callers, NotClaimed(c) PROVE IInv'
<1> DEFINE status == IF ClaimRefusal(c) = "evaluation_in_progress" THEN "in_progress" ELSE "refused"
<1>1. run[c].pc = "valid" /\ Answer(c, run[c].request, Result(status, ClaimRefusal(c)))
      /\ UNCHANGED Shared /\ clock' = clock
  BY DEF NotClaimed, Shared
<1>2. status \in {"refused", "in_progress"}
  OBVIOUS
<1> HIDE DEF status
<1>3. QED
  BY <1>1, <1>2, RefusalKeeps

-----------------------------------------------------------------------------
(* The steps of a caller that holds the claim of its key.                  *)
LEMMA OpenedKeeps ==
  ASSUME IInv, UNCHANGED <<counts, last, opened>>, DOMAIN cache' = DOMAIN cache
  PROVE  KeysAreOpenedOnce' /\ PaceIsKept' /\ SlotsAreCounted'
<1>1. KeysAreOpenedOnce' /\ PaceIsKept'
  BY DEF IInv, KeysAreOpenedOnce, PaceIsKept
<1>2. SlotsAreCounted'
  BY DEF IInv, SlotsAreCounted
<1>3. QED
  BY <1>1, <1>2

LEMMA ProgressKeeps ==
  ASSUME IInv, NEW c \in Callers, run[c].pc \in Working, NEW changed, Progress(c, changed),
         DOMAIN changed = Fields, changed.pc \in Working, changed.request = run[c].request,
         changed.now = run[c].now, CallsOf(c)'
  PROVE  IInv'
<1>1. Alone(c) /\ run'[c] = changed /\ UNCHANGED <<asked, clock, cache, counts, last, opened>>
  BY RunStep DEF IInv, Progress
<1>2. \A d \in Callers : RequestAt(d)' = RequestAt(d) /\ run'[d].request = run[d].request
  BY <1>1, OthersKeep DEF RequestAt
<1>3. \A d \in Callers \ {c} : run'[d] = run[d] /\ RunIs(d)' = RunIs(d) /\ CallsOf(d)' = CallsOf(d)
  BY <1>1, OthersKeep
<1>4. \A d \in Callers : /\ run'[d].pc \in Working <=> run[d].pc \in Working
                         /\ Done(d)' <=> Done(d)
                         /\ Done(d) => run'[d] = run[d]
  BY <1>1, <1>3 DEF Done, Working
<1>5. TypeOK'
  <2>1. RunIs(c)'
    BY <1>1, <1>2 DEF RunIs, IInv, TypeOK
  <2>2. \A d \in Callers : RunIs(d)'
    BY <1>3, <2>1 DEF IInv, TypeOK
  <2>3. QED
    BY <1>1, <2>2 DEF IInv, TypeOK, Alone
<1>6. ClaimsAreOwned'
  <2>1. \A d \in Callers : ClaimIs(d)' <=> ClaimIs(d)
    BY <1>1, <1>2 DEF ClaimIs
  <2>2. \A d \in Callers : KeyOf(RequestAt(d))' = KeyOf(RequestAt(d))
    BY <1>2 DEF KeyOf
  <2>3. QED
    BY <1>1, <1>4, <2>1, <2>2 DEF IInv, ClaimsAreOwned
<1>7. AnswersAreKept'
  <2>1. \A d \in Callers : Done(d) => (AnswerIs(d)' <=> AnswerIs(d))
    BY <1>1, <1>2, <1>4 DEF AnswerIs
  <2>2. QED
    BY <1>4, <2>1 DEF IInv, AnswersAreKept
<1>8. CallsAreTrue'
  BY <1>3 DEF IInv, CallsAreTrue
<1>9. ClaimsAreWorkedOn'
  BY <1>1, <1>2, <1>4 DEF IInv, ClaimsAreWorkedOn, Working
<1>10. QED
  BY <1>1, <1>5, <1>6, <1>7, <1>8, <1>9, OpenedKeeps DEF IInv

LEMMA SettleKeeps ==
  ASSUME IInv, NEW c \in Callers, run[c].pc \in Working, NEW result, Settle(c, result),
         result.status \in {"refused", "completed"}, result.calls = run[c].sent
  PROVE  IInv'
<1> DEFINE r == [run[c] EXCEPT !.pc = "done", !.out = result]
           key == KeyOf(RequestAt(c))
<1>1. DOMAIN run[c] = Fields /\ DOMAIN run = Callers
  BY DEF IInv, TypeOK, RunIs
<1>2. /\ DOMAIN r = Fields /\ r.pc = "done" /\ r.out = result /\ r.request = run[c].request
      /\ r.selected = run[c].selected /\ r.sent = run[c].sent
  BY <1>1 DEF Fields
<1>3. run' = [run EXCEPT ![c] = r]
  BY <1>1 DEF Settle, Fields
<1> HIDE DEF r
<1>4. Alone(c) /\ run'[c] = r
  BY <1>2, <1>3, RunStep DEF IInv
<1>5. ClaimIs(c) /\ key \in DOMAIN cache /\ DOMAIN cache[key] = {"request", "result"}
  BY DEF IInv, ClaimsAreOwned, ClaimIs, TypeOK
<1>6. cache' = [cache EXCEPT ![key] = [cache[key] EXCEPT !.result = result]]
  BY DEF Settle, Store
<1>7. /\ DOMAIN cache' = DOMAIN cache /\ DOMAIN cache'[key] = {"request", "result"}
      /\ cache'[key].request = run[c].request /\ cache'[key].result = result
      /\ \A k \in DOMAIN cache \ {key} : cache'[k] = cache[k]
  BY <1>5, <1>6 DEF ClaimIs
<1>8. UNCHANGED <<asked, clock, counts, last, opened>>
  BY DEF Settle
<1>9. \A d \in Callers : RequestAt(d)' = RequestAt(d) /\ KeyOf(RequestAt(d))' = KeyOf(RequestAt(d))
  BY <1>2, <1>4, OthersKeep DEF RequestAt, KeyOf
<1>10. \A d \in Callers \ {c} : /\ run'[d] = run[d] /\ RunIs(d)' = RunIs(d)
                                /\ CallsOf(d)' = CallsOf(d) /\ Done(d)' = Done(d)
  BY <1>4, OthersKeep
<1>11. \A d \in Callers \ {c} : run[d].pc \in Working => KeyOf(RequestAt(d)) # key
  BY DEF IInv, ClaimsAreOwned
<1>12. run'[c].pc \notin Working /\ Done(c)'
  BY <1>2, <1>4 DEF Working, Done
<1> HIDE DEF key
<1>13. TypeOK'
  <2>1. RunIs(c)'
    BY <1>2, <1>4 DEF RunIs, Working
  <2>2. \A d \in Callers : RunIs(d)'
    BY <1>10, <2>1 DEF IInv, TypeOK
  <2>3. \A k \in DOMAIN cache' : DOMAIN cache'[k] = {"request", "result"}
    BY <1>7 DEF IInv, TypeOK
  <2>4. run' \in [Callers -> Range(run')]
    BY <1>4 DEF Alone
  <2>5. QED
    BY <1>8, <2>2, <2>3, <2>4 DEF IInv, TypeOK
<1>14. ClaimsAreOwned'
  <2>1. ASSUME NEW d \in Callers, run'[d].pc \in Working
        PROVE  ClaimIs(d)'
    <3>1. d # c /\ run'[d] = run[d] /\ KeyOf(RequestAt(d)) # key /\ ClaimIs(d)
      BY <1>10, <1>11, <1>12, <2>1 DEF IInv, ClaimsAreOwned
    <3>2. QED
      BY <1>7, <1>9, <3>1 DEF ClaimIs
  <2>2. \A d, e \in Callers :
          run'[d].pc \in Working /\ run'[e].pc \in Working
          /\ KeyOf(RequestAt(d))' = KeyOf(RequestAt(e))' => d = e
    BY <1>9, <1>10, <1>12 DEF IInv, ClaimsAreOwned
  <2>3. \A k \in DOMAIN cache' : KeyOf(RequestOf[cache'[k].request]) = k
    <3>1. KeyOf(RequestOf[run[c].request]) = key
      BY DEF key, RequestAt
    <3>2. QED
      BY <1>7, <3>1 DEF IInv, ClaimsAreOwned
  <2>4. QED
    BY <2>1, <2>2, <2>3 DEF ClaimsAreOwned
<1>15. AnswersAreKept'
  <2> SUFFICES ASSUME NEW d \in Callers, Done(d)',
                      run'[d].selected # <<>> \/ run'[d].out.status = "completed"
               PROVE  AnswerIs(d)'
    BY DEF AnswersAreKept
  <2>1. CASE d = c
    <3>1. KeyOf(RequestAt(c))' = key
      BY <1>9 DEF key
    <3>2. run'[c].request = run[c].request /\ run'[c].out = result
      BY <1>2, <1>4
    <3>3. QED
      BY <1>5, <1>7, <2>1, <3>1, <3>2 DEF AnswerIs
  <2>2. CASE d # c
    <3>1. AnswerIs(d) /\ run'[d] = run[d]
      BY <1>10, <2>2 DEF IInv, AnswersAreKept
    <3>2. NoResult.status = "none"
      BY DEF NoResult
    <3>3. KeyOf(RequestAt(d)) # key
      BY <1>5, <3>1, <3>2 DEF AnswerIs, ClaimIs, key
    <3>4. QED
      BY <1>7, <1>9, <3>1, <3>3 DEF AnswerIs
  <2>3. QED
    BY <2>1, <2>2
<1>16. CallsAreTrue'
  <2>1. CallsOf(c)'
    BY <1>2, <1>4 DEF CallsOf
  <2>2. QED
    BY <1>10, <2>1 DEF IInv, CallsAreTrue
<1>17. ClaimsAreWorkedOn'
  <2> SUFFICES ASSUME NEW k \in DOMAIN cache', cache'[k].result = NoResult
               PROVE  \E d \in Callers : run'[d].pc \in Working /\ run'[d].request = cache'[k].request
    BY DEF ClaimsAreWorkedOn, Working
  <2>1. k # key
    BY <1>7 DEF NoResult
  <2>2. cache'[k] = cache[k]
    BY <1>7, <2>1
  <2>3. PICK d \in Callers : run[d].pc \in Working /\ run[d].request = cache[k].request
    BY <1>7, <2>2 DEF IInv, ClaimsAreWorkedOn, Working
  <2>4. KeyOf(RequestAt(d)) = k
    BY <1>7, <2>3 DEF IInv, ClaimsAreOwned, RequestAt
  <2>5. d # c
    BY <2>1, <2>4 DEF key
  <2>6. QED
    BY <1>10, <2>2, <2>3, <2>5
<1>18. KeysAreOpenedOnce' /\ PaceIsKept' /\ SlotsAreCounted'
  BY <1>7, <1>8, OpenedKeeps
<1>19. QED
  BY <1>13, <1>14, <1>15, <1>16, <1>17, <1>18 DEF IInv

-----------------------------------------------------------------------------
(* The claim of a key.                                                     *)
(* Checks that give no reason have all passed.                             *)
LEMMA NoReasonMeansNone ==
  ASSUME NEW checks, DOMAIN checks \subseteq Nat, \A i \in DOMAIN checks : checks[i][2] # NoReason,
         FirstReason(checks) = NoReason
  PROVE  \A i \in DOMAIN checks : ~checks[i][1]
<1> DEFINE failing == {i \in DOMAIN checks : checks[i][1]}
<1>1. ASSUME failing # {} PROVE FALSE
  <2>1. PICK m \in failing : \A y \in failing : m <= y
    BY <1>1, LeastExists
  <2>2. Min(failing) \in failing
    BY <2>1 DEF Min
  <2>3. FirstReason(checks) = checks[Min(failing)][2]
    BY <1>1 DEF FirstReason
  <2>4. QED
    BY <2>2, <2>3
<1>2. QED
  BY <1>1

LEMMA ClaimIsFree ==
  ASSUME NEW c \in Callers, ClaimRefusal(c) = NoReason
  PROVE  KeyOf(RequestAt(c)) \notin DOMAIN cache /\ ~TooSoon(c) /\ ~(Remaining(c) <= 0)
<1> DEFINE known == KeyOf(RequestAt(c)) \in DOMAIN cache
           full == Cardinality(DOMAIN cache) >= asked.capacity
           soon == TooSoon(c)
           spent == Remaining(c) <= 0
           checks == << <<known, "evaluation_in_progress">>, <<full, "runtime_capacity">>,
                        <<soon, "decision_interval">>, <<spent, "daily_decision_budget">> >>
<1>1. FirstReason(checks) = NoReason
  BY DEF ClaimRefusal
<1> HIDE DEF known, full, soon, spent
<1>2. DOMAIN checks = 1..4
  OBVIOUS
<1>3. \A i \in 1..4 : checks[i][2] # NoReason
  BY DEF NoReason
<1>4. \A i \in DOMAIN checks : ~checks[i][1]
  BY <1>1, <1>2, <1>3, NoReasonMeansNone
<1>5. checks[1][1] = known /\ checks[3][1] = soon /\ checks[4][1] = spent
  OBVIOUS
<1>6. ~known /\ ~soon /\ ~spent
  BY <1>2, <1>4, <1>5
<1>7. QED
  BY <1>6 DEF known, soon, spent

LEMMA SlotsType ==
  ASSUME NEW c \in Callers, RequestAt(c).version \in DOMAIN VersionOf,
         Remaining(c) \in Int, ~(Remaining(c) <= 0)
  PROVE  Slots(c) \in Nat /\ Slots(c) <= Remaining(c)
<1>1. IsFiniteSet(Found(RequestAt(c), VersionAt(c)))
  <2>1. IsFiniteSet(VersionAt(c).universe)
    BY RuntimeAssumption DEF VersionAt
  <2>2. Found(RequestAt(c), VersionAt(c)) \subseteq VersionAt(c).universe
    BY DEF Found
  <2>3. QED
    BY <2>1, <2>2, FS_Subset
<1>2. Cardinality(Found(RequestAt(c), VersionAt(c))) \in Nat
  BY <1>1, FS_CardinalityType
<1>3. Scanned(RequestAt(c), VersionAt(c)) \in Nat
  <2>1. \A m, n \in Nat : Min({m, n}) \in Nat
    BY DEF Min
  <2>2. QED
    BY <1>2, <2>1, PolicyAssumption DEF Scanned
<1>4. \A l, m, n \in Nat : Min({l, m, n}) \in Nat /\ Min({l, m, n}) <= m
  <2> SUFFICES ASSUME NEW l \in Nat, NEW m \in Nat, NEW n \in Nat
               PROVE  Min({l, m, n}) \in Nat /\ Min({l, m, n}) <= m
    OBVIOUS
  <2>1. \E x \in {l, m, n} : \A y \in {l, m, n} : x <= y
    OBVIOUS
  <2>2. QED
    BY <2>1 DEF Min
<1>5. Remaining(c) \in Nat /\ Policy.calls \in Nat
  BY PolicyAssumption
<1>6. QED
  BY <1>3, <1>4, <1>5 DEF Slots

LEMMA SlotsOnType ==
  ASSUME NEW starts \in Seq(Openings), NEW day, NEW n \in 0..Len(starts)
  PROVE  /\ IsFiniteSet(OnDay(starts, day, n))
         /\ [j \in OnDay(starts, day, n) |-> starts[j].slots] \in [OnDay(starts, day, n) -> Nat]
         /\ SlotsOn(starts, day, n) \in Nat
<1>1. OnDay(starts, day, n) \subseteq 1..n /\ 1..n \subseteq 1..Len(starts)
  BY DEF OnDay
<1>2. IsFiniteSet(1..n)
  BY FS_Interval
<1>3. IsFiniteSet(OnDay(starts, day, n))
  BY <1>1, <1>2, FS_Subset
<1>4. \A j \in OnDay(starts, day, n) : starts[j].slots \in Nat
  <2>1. \A j \in 1..Len(starts) : starts[j] \in Openings
    OBVIOUS
  <2>2. \A o \in Openings : o.slots \in Nat
    BY DEF Openings
  <2>3. QED
    BY <1>1, <2>1, <2>2
<1>5. [j \in OnDay(starts, day, n) |-> starts[j].slots] \in [OnDay(starts, day, n) -> Nat]
  BY <1>4
<1>6. QED
  BY <1>3, <1>5, UnitsFinite DEF SlotsOn

(* One more evaluation adds its slots to its day, and no others.           *)
LEMMA SlotsOnGrow ==
  ASSUME NEW starts, starts \in Seq(Openings), NEW o \in Openings, NEW day
  PROVE  /\ \A m \in 0..Len(starts) : SlotsOn(Append(starts, o), day, m) = SlotsOn(starts, day, m)
         /\ SlotsOn(Append(starts, o), day, Len(starts) + 1)
              = SlotsOn(starts, day, Len(starts)) + (IF DayIs(o) = day THEN o.slots ELSE 0)
<1> DEFINE more == Append(starts, o)
           n == Len(starts)
<1>1. /\ n \in Nat /\ more \in Seq(Openings) /\ Len(more) = n + 1 /\ more[n + 1] = o
      /\ \A j \in 1..n : more[j] = starts[j]
  OBVIOUS
<1> HIDE DEF more
<1>2. ASSUME NEW m \in 0..n
      PROVE  SlotsOn(more, day, m) = SlotsOn(starts, day, m)
  <2>1. 1..m \subseteq 1..n
    BY <1>1
  <2>2. OnDay(more, day, m) = OnDay(starts, day, m)
    BY <1>1, <2>1 DEF OnDay
  <2>3. [j \in OnDay(more, day, m) |-> more[j].slots] = [j \in OnDay(starts, day, m) |-> starts[j].slots]
    BY <1>1, <2>1, <2>2 DEF OnDay
  <2>4. QED
    BY <2>3 DEF SlotsOn
<1>3. 1..(n + 1) = 1..n \cup {n + 1} /\ n + 1 \notin 1..n
  BY <1>1
<1>4. CASE DayIs(o) # day
  <2>1. OnDay(more, day, n + 1) = OnDay(more, day, n)
    BY <1>1, <1>3, <1>4 DEF OnDay
  <2>2. SlotsOn(more, day, n + 1) = SlotsOn(starts, day, n)
    BY <1>1, <1>2, <2>1 DEF SlotsOn
  <2>3. SlotsOn(starts, day, n) \in Nat
    BY <1>1, SlotsOnType
  <2>4. QED
    BY <1>2, <1>4, <2>2, <2>3 DEF more
<1>5. CASE DayIs(o) = day
  <2> DEFINE S == OnDay(more, day, n)
             f == [j \in S |-> more[j].slots]
             g == [j \in OnDay(more, day, n + 1) |-> more[j].slots]
  <2>1. OnDay(more, day, n + 1) = S \union {n + 1} /\ n + 1 \notin S
    BY <1>1, <1>3, <1>5 DEF OnDay
  <2>2. IsFiniteSet(S) /\ f \in [S -> Nat] /\ g \in [OnDay(more, day, n + 1) -> Nat]
    BY <1>1, SlotsOnType
  <2>3. g[n + 1] = o.slots /\ \A j \in S : g[j] = f[j]
    BY <1>1, <2>1
  <2>4. g \in [S \union {n + 1} -> Nat]
    BY <2>1, <2>2
  <2>5. SlotsOn(more, day, n + 1) = Total(g) /\ SlotsOn(more, day, n) = Total(f)
    BY DEF SlotsOn
  <2> HIDE DEF S, f, g
  <2>6. Total(g) = Total(f) + g[n + 1]
    <3>1. PICK k : k = n + 1
      OBVIOUS
    <3>2. k \notin S /\ IsFiniteSet(S) /\ f \in [S -> Nat] /\ g \in [S \union {k} -> Nat]
      BY <2>1, <2>2, <2>4, <3>1
    <3>3. \A j \in S : g[j] = f[j]
      BY <2>3
    <3>4. Total(g) = Total(f) + g[k]
      BY ONLY <3>2, <3>3, TotalAdd
    <3>5. QED
      BY <3>1, <3>4
  <2>7. QED
    BY <1>1, <1>2, <1>5, <2>3, <2>5, <2>6 DEF more
<1>6. QED
  BY <1>4, <1>5

Opening(c) ==
  [key |-> KeyOf(RequestAt(c)), agent |-> AgentOf(VersionAt(c)), version |-> RequestAt(c).version,
   now |-> run[c].now, slots |-> Slots(c)]

LEMMA TakenIsCounted ==
  ASSUME IInv, NEW day
  PROVE  Taken(day) = SlotsOn(opened, day, Len(opened)) /\ Taken(day) \in Nat
<1>1. opened \in Seq(Openings) /\ Len(opened) \in Nat
  BY DEF IInv, TypeOK
<1>2. SlotsOn(opened, day, Len(opened)) \in Nat
  BY <1>1, SlotsOnType
<1>3. CASE day \in DOMAIN counts
  BY <1>2, <1>3 DEF IInv, SlotsAreCounted, Taken
<1>4. CASE day \notin DOMAIN counts
  <2>1. OnDay(opened, day, Len(opened)) = {}
    BY <1>1, <1>4 DEF IInv, SlotsAreCounted, OnDay
  <2>2. SlotsOn(opened, day, Len(opened)) = 0
    BY <2>1, TotalEmpty DEF SlotsOn
  <2>3. QED
    BY <1>4, <2>2 DEF Taken
<1>5. QED
  BY <1>3, <1>4

LEMMA ClaimFacts ==
  ASSUME IInv, NEW c \in Callers, Claim(c)
  PROVE  /\ KeyOf(RequestAt(c)) \notin DOMAIN cache /\ ~TooSoon(c)
         /\ run[c].pc = "valid" /\ Opening(c) \in Openings /\ DayIs(Opening(c)) = DayOf(VersionAt(c), run[c].now)
         /\ RequestAt(c).version \in DOMAIN VersionOf
         /\ Taken(DayOf(VersionAt(c), run[c].now)) + Slots(c) <= VersionAt(c).perDay
         /\ ChargedSlots(c) = Taken(DayOf(VersionAt(c), run[c].now)) + Slots(c)
         /\ opened' = Append(opened, Opening(c))
<1>1. run[c].pc = "valid" /\ ClaimRefusal(c) = NoReason /\ opened' = Append(opened, Opening(c))
  BY DEF Claim, Opening
<1>2. KeyOf(RequestAt(c)) \notin DOMAIN cache /\ ~TooSoon(c) /\ ~(Remaining(c) <= 0)
  BY <1>1, ClaimIsFree
<1>3. run[c].request \in Ids /\ RequestAt(c).version \in DOMAIN VersionOf /\ run[c].now \in Nat
  BY <1>1 DEF IInv, TypeOK, RunIs, Registered
<1>4. VersionAt(c).perDay \in Nat
  BY <1>3, RuntimeAssumption DEF VersionAt
<1>5. Taken(DayOf(VersionAt(c), run[c].now)) \in Nat
  BY TakenIsCounted
<1>6. Remaining(c) = VersionAt(c).perDay - Taken(DayOf(VersionAt(c), run[c].now))
  BY DEF Remaining
<1>7. Slots(c) \in Nat /\ Slots(c) <= Remaining(c)
  BY <1>2, <1>3, <1>4, <1>5, <1>6, SlotsType
<1>8. Opening(c) \in Openings
  <2>1. KeyOf(RequestAt(c)) \in {KeyOf(RequestOf[id]) : id \in Ids}
    BY <1>3 DEF RequestAt
  <2>2. AgentOf(VersionAt(c)) \in {AgentOf(VersionOf[v]) : v \in DOMAIN VersionOf}
    BY <1>3 DEF VersionAt
  <2>3. QED
    BY <1>3, <1>7, <2>1, <2>2 DEF Opening, Openings
<1>9. DayIs(Opening(c)) = DayOf(VersionAt(c), run[c].now)
  BY DEF DayIs, Opening, AgentOf, DayOf
<1>10. ChargedSlots(c) = Taken(DayOf(VersionAt(c), run[c].now)) + Slots(c)
  BY DEF ChargedSlots
<1>11. QED
  BY <1>1, <1>2, <1>3, <1>4, <1>5, <1>6, <1>7, <1>8, <1>9, <1>10

LEMMA OpenedGrows ==
  ASSUME TypeOK, NEW o \in Openings, opened' = Append(opened, o)
  PROVE  /\ opened' \in Seq(Openings) /\ Len(opened) \in Nat /\ Len(opened') = Len(opened) + 1
         /\ DOMAIN opened = 1..Len(opened) /\ DOMAIN opened' = DOMAIN opened \cup {Len(opened) + 1}
         /\ opened'[Len(opened) + 1] = o
         /\ \A i \in DOMAIN opened : opened'[i] = opened[i] /\ i < Len(opened) + 1 /\ i \in Nat
BY DEF TypeOK

LEMMA ClaimCounts ==
  ASSUME IInv, NEW c \in Callers, Claim(c)
  PROVE  SlotsAreCounted'
<1> DEFINE o == Opening(c)
           n == Len(opened)
           d == DayIs(o)
<1>1. /\ o \in Openings /\ opened' = Append(opened, o)
      /\ counts' = [x \in DOMAIN counts \cup {d} |-> IF x = d THEN Taken(d) + Slots(c) ELSE counts[x]]
      /\ Taken(d) + o.slots <= VersionOf[o.version].perDay /\ o.slots = Slots(c)
  BY ClaimFacts DEF Claim, Put, Opening, VersionAt
<1>2. /\ opened \in Seq(Openings) /\ n \in Nat /\ Len(opened') = n + 1
      /\ DOMAIN opened = 1..n /\ DOMAIN opened' = 1..n \cup {n + 1} /\ opened'[n + 1] = o
      /\ \A i \in 1..n : opened'[i] = opened[i]
  BY <1>1, OpenedGrows DEF IInv, TypeOK
<1> HIDE DEF o
<1>3. \A day : /\ \A m \in 0..n : SlotsOn(opened', day, m) = SlotsOn(opened, day, m)
               /\ SlotsOn(opened', day, n + 1)
                    = SlotsOn(opened, day, n) + (IF DayIs(o) = day THEN o.slots ELSE 0)
  BY <1>1, <1>2, SlotsOnGrow
<1>4. \A day : SlotsOn(opened, day, n) = Taken(day) /\ Taken(day) \in Nat
  BY TakenIsCounted
<1> HIDE DEF n
<1>5. \A day \in DOMAIN counts' : counts'[day] = SlotsOn(opened', day, Len(opened'))
  <2> SUFFICES ASSUME NEW day \in DOMAIN counts'
               PROVE  counts'[day] = SlotsOn(opened', day, n + 1)
    BY <1>2
  <2>1. SlotsOn(opened', day, n + 1) = Taken(day) + (IF d = day THEN Slots(c) ELSE 0)
    BY <1>1, <1>3, <1>4
  <2>2. CASE day = d
    BY <1>1, <2>1, <2>2
  <2>3. CASE day # d
    <3>1. counts'[day] = counts[day] /\ day \in DOMAIN counts
      BY <1>1, <2>3
    <3>2. Taken(day) = counts[day]
      BY <3>1 DEF Taken
    <3>3. QED
      BY <1>4, <2>1, <2>3, <3>1, <3>2
  <2>4. QED
    BY <2>2, <2>3
<1>6. \A i \in DOMAIN opened' : DayIs(opened'[i]) \in DOMAIN counts'
  BY <1>1, <1>2 DEF IInv, SlotsAreCounted
<1>7. \A i \in DOMAIN opened' :
        SlotsOn(opened', DayIs(opened'[i]), i) <= VersionOf[opened'[i].version].perDay
  <2> SUFFICES ASSUME NEW i \in DOMAIN opened'
               PROVE  SlotsOn(opened', DayIs(opened'[i]), i) <= VersionOf[opened'[i].version].perDay
    OBVIOUS
  <2>1. CASE i \in 1..n
    <3>1. opened'[i] = opened[i] /\ i \in DOMAIN opened /\ i \in 0..n
      BY <1>2, <2>1
    <3>2. SlotsOn(opened', DayIs(opened[i]), i) = SlotsOn(opened, DayIs(opened[i]), i)
      BY <1>3, <3>1
    <3>3. QED
      BY <3>1, <3>2 DEF IInv, SlotsAreCounted
  <2>2. CASE i = n + 1
    <3>1. SlotsOn(opened', d, n + 1) = Taken(d) + o.slots
      BY <1>3, <1>4
    <3>2. QED
      BY <1>1, <1>2, <2>2, <3>1
  <2>3. QED
    BY <1>2, <2>1, <2>2
<1>8. QED
  BY <1>5, <1>6, <1>7 DEF SlotsAreCounted

LEMMA ClaimPaces ==
  ASSUME IInv, NEW c \in Callers, Claim(c)
  PROVE  PaceIsKept' /\ (\A agent \in DOMAIN last' : last'[agent] \in Nat)
<1> DEFINE o == Opening(c)
           a == AgentOf(VersionAt(c))
           n == Len(opened)
<1>1. /\ o \in Openings /\ opened' = Append(opened, o) /\ o.agent = a /\ o.now = run[c].now
      /\ o.version \in DOMAIN VersionOf /\ VersionOf[o.version] = VersionAt(c) /\ o.now \in Nat
      /\ last' = [x \in DOMAIN last \cup {a} |-> IF x = a THEN o.now ELSE last[x]]
  BY ClaimFacts DEF Claim, Put, Opening, VersionAt, Openings
<1>2. /\ n \in Nat /\ DOMAIN opened = 1..n /\ DOMAIN opened' = 1..n \cup {n + 1} /\ opened'[n + 1] = o
      /\ \A i \in 1..n : opened'[i] = opened[i] /\ opened[i].now \in Nat
  <2>1. /\ n \in Nat /\ DOMAIN opened = 1..n /\ DOMAIN opened' = 1..n \cup {n + 1} /\ opened'[n + 1] = o
        /\ \A i \in 1..n : opened'[i] = opened[i]
    BY <1>1, OpenedGrows DEF IInv
  <2>2. opened \in Seq(Openings) /\ \A x \in Openings : x.now \in Nat
    BY DEF IInv, TypeOK, Openings
  <2>3. QED
    BY <2>1, <2>2
<1>3. VersionAt(c).interval \in Nat
  BY <1>1, RuntimeAssumption
<1>4. a \in DOMAIN last => o.now - last[a] >= VersionAt(c).interval /\ last[a] \in Nat
  <2>1. ~TooSoon(c) /\ run[c].now \in Nat
    BY <1>1, ClaimFacts
  <2>2. a \in DOMAIN last => last[a] \in Nat
    BY DEF IInv, TypeOK
  <2>3. QED
    BY <1>1, <1>3, <2>1, <2>2 DEF TooSoon
<1> HIDE DEF o, a
<1>5. \A i \in 1..n : opened[i].agent \in DOMAIN last /\ opened[i].now <= last[opened[i].agent]
  BY <1>2 DEF IInv, PaceIsKept
<1>6. \A i \in 1..n : opened[i].agent = a => o.now >= opened[i].now + VersionAt(c).interval
  BY <1>1, <1>2, <1>3, <1>4, <1>5
<1>7. \A i \in DOMAIN opened' :
        opened'[i].agent \in DOMAIN last' /\ opened'[i].now <= last'[opened'[i].agent]
  <2> SUFFICES ASSUME NEW i \in DOMAIN opened'
               PROVE  opened'[i].agent \in DOMAIN last' /\ opened'[i].now <= last'[opened'[i].agent]
    OBVIOUS
  <2>1. CASE i = n + 1
    BY <1>1, <1>2, <2>1
  <2>2. CASE i \in 1..n /\ opened[i].agent = a
    BY <1>1, <1>2, <1>3, <1>6, <2>2
  <2>3. CASE i \in 1..n /\ opened[i].agent # a
    BY <1>1, <1>2, <1>5, <2>3
  <2>4. QED
    BY <1>2, <2>1, <2>2, <2>3
<1>8. \A i, j \in DOMAIN opened' :
        i < j /\ opened'[i].agent = opened'[j].agent
        => opened'[j].now >= opened'[i].now + VersionOf[opened'[j].version].interval
  <2> SUFFICES ASSUME NEW i \in DOMAIN opened', NEW j \in DOMAIN opened', i < j,
                      opened'[i].agent = opened'[j].agent
               PROVE  opened'[j].now >= opened'[i].now + VersionOf[opened'[j].version].interval
    OBVIOUS
  <2>1. i \in 1..n
    BY <1>2
  <2>2. CASE j = n + 1
    BY <1>1, <1>2, <1>6, <2>1, <2>2
  <2>3. CASE j \in 1..n
    BY <1>2, <2>1, <2>3 DEF IInv, PaceIsKept
  <2>4. QED
    BY <1>2, <2>2, <2>3
<1>9. \A agent \in DOMAIN last' : last'[agent] \in Nat
  BY <1>1 DEF IInv, TypeOK
<1>10. QED
  BY <1>7, <1>8, <1>9 DEF PaceIsKept

LEMMA ClaimKeeps == ASSUME IInv, NEW c \in Callers, Claim(c) PROVE IInv'
<1> DEFINE key == KeyOf(RequestAt(c))
           entry == [request |-> run[c].request, result |-> NoResult]
           r == [run[c] EXCEPT !.pc = "claimed", !.selected = Selected(c)]
<1>1. /\ key \notin DOMAIN cache /\ run[c].pc = "valid" /\ Opening(c) \in Openings
      /\ Opening(c).key = key /\ opened' = Append(opened, Opening(c))
      /\ cache' = [x \in DOMAIN cache \cup {key} |-> IF x = key THEN entry ELSE cache[x]]
      /\ UNCHANGED <<asked, clock>>
  BY ClaimFacts DEF Claim, Put, Opening
<1>2. DOMAIN run[c] = Fields /\ DOMAIN run = Callers /\ CallsOf(c) /\ RunIs(c)
  BY DEF IInv, TypeOK, RunIs, CallsAreTrue
<1>3. /\ DOMAIN r = Fields /\ r.pc = "claimed" /\ r.request = run[c].request /\ r.now = run[c].now
      /\ r.sent = run[c].sent /\ r.calls = run[c].calls
  BY <1>2 DEF Fields
<1>4. run' = [run EXCEPT ![c] = r]
  BY <1>2 DEF Claim, Fields
<1>5. DOMAIN entry = {"request", "result"} /\ entry.request = run[c].request /\ entry.result = NoResult
  OBVIOUS
<1> HIDE DEF r, entry
<1>6. Alone(c) /\ run'[c] = r
  BY <1>3, <1>4, RunStep DEF IInv
<1>7. \A d \in Callers : RequestAt(d)' = RequestAt(d) /\ KeyOf(RequestAt(d))' = KeyOf(RequestAt(d))
  BY <1>3, <1>6, OthersKeep DEF RequestAt, KeyOf
<1>8. \A d \in Callers \ {c} : /\ run'[d] = run[d] /\ RunIs(d)' = RunIs(d)
                               /\ CallsOf(d)' = CallsOf(d) /\ Done(d)' = Done(d)
  BY <1>6, OthersKeep
<1>9. \A d \in Callers \ {c} : run[d].pc \in Working => KeyOf(RequestAt(d)) # key /\ ClaimIs(d)
  BY <1>1 DEF IInv, ClaimsAreOwned, ClaimIs
<1>10. KeyOf(RequestOf[run[c].request]) = key
  BY DEF RequestAt
<1> HIDE DEF key
<1>11. TypeOK'
  <2>1. RunIs(c)'
    BY <1>1, <1>2, <1>3, <1>6, <1>7 DEF RunIs, Working
  <2>2. \A d \in Callers : RunIs(d)'
    BY <1>8, <2>1 DEF IInv, TypeOK
  <2>3. \A k \in DOMAIN cache' : DOMAIN cache'[k] = {"request", "result"}
    BY <1>1, <1>5 DEF IInv, TypeOK
  <2>4. run' \in [Callers -> Range(run')]
    BY <1>6 DEF Alone
  <2>5. opened' \in Seq(Openings)
    BY <1>1, OpenedGrows DEF IInv
  <2>6. \A agent \in DOMAIN last' : last'[agent] \in Nat
    BY ClaimPaces
  <2>7. asked' \in Scenarios /\ clock' \in Nat
    BY <1>1 DEF IInv, TypeOK
  <2>8. QED
    BY <2>2, <2>3, <2>4, <2>5, <2>6, <2>7 DEF TypeOK
<1>12. ClaimsAreOwned'
  <2>1. ClaimIs(c)'
    BY <1>1, <1>3, <1>5, <1>6, <1>7 DEF ClaimIs, key
  <2>2. ASSUME NEW d \in Callers \ {c}, run'[d].pc \in Working
        PROVE  ClaimIs(d)'
    BY <1>1, <1>7, <1>8, <1>9, <2>2 DEF ClaimIs
  <2>3. \A d, e \in Callers :
          run'[d].pc \in Working /\ run'[e].pc \in Working
          /\ KeyOf(RequestAt(d))' = KeyOf(RequestAt(e))' => d = e
    BY <1>7, <1>8, <1>9 DEF IInv, ClaimsAreOwned, key
  <2>4. \A k \in DOMAIN cache' : KeyOf(RequestOf[cache'[k].request]) = k
    BY <1>1, <1>5, <1>10 DEF IInv, ClaimsAreOwned
  <2>5. QED
    BY <2>1, <2>2, <2>3, <2>4 DEF ClaimsAreOwned
<1>13. AnswersAreKept'
  <2> SUFFICES ASSUME NEW d \in Callers, Done(d)',
                      run'[d].selected # <<>> \/ run'[d].out.status = "completed"
               PROVE  AnswerIs(d)'
    BY DEF AnswersAreKept
  <2>1. d # c
    BY <1>3, <1>6 DEF Done
  <2>2. AnswerIs(d) /\ run'[d] = run[d]
    BY <1>8, <2>1 DEF IInv, AnswersAreKept
  <2>3. QED
    BY <1>1, <1>7, <2>2 DEF AnswerIs
<1>14. CallsAreTrue'
  <2>1. CallsOf(c)'
    BY <1>1, <1>2, <1>3, <1>6 DEF CallsOf, Done
  <2>2. QED
    BY <1>8, <2>1 DEF IInv, CallsAreTrue
<1>15. ClaimsAreWorkedOn'
  <2> SUFFICES ASSUME NEW k \in DOMAIN cache', cache'[k].result = NoResult
               PROVE  \E d \in Callers : run'[d].pc \in Working /\ run'[d].request = cache'[k].request
    BY DEF ClaimsAreWorkedOn, Working
  <2>1. CASE k = key
    BY <1>1, <1>3, <1>5, <1>6, <2>1 DEF Working
  <2>2. CASE k # key
    <3>1. k \in DOMAIN cache /\ cache'[k] = cache[k]
      BY <1>1, <2>2
    <3>2. PICK d \in Callers : run[d].pc \in Working /\ run[d].request = cache[k].request
      BY <3>1 DEF IInv, ClaimsAreWorkedOn, Working
    <3>3. d # c
      BY <1>1, <3>2 DEF Working
    <3>4. QED
      BY <1>8, <3>1, <3>2, <3>3
  <2>3. QED
    BY <2>1, <2>2
<1>16. KeysAreOpenedOnce'
  <2>1. /\ Len(opened) \in Nat /\ DOMAIN opened' = DOMAIN opened \cup {Len(opened) + 1}
        /\ opened'[Len(opened) + 1].key = key
        /\ \A i \in DOMAIN opened : opened'[i] = opened[i]
    BY <1>1, OpenedGrows DEF IInv
  <2>2. \A i \in DOMAIN opened : opened[i].key \in DOMAIN cache /\ opened[i].key # key
    BY <1>1 DEF IInv, KeysAreOpenedOnce
  <2>3. \A i \in DOMAIN opened' : opened'[i].key \in DOMAIN cache'
    BY <1>1, <2>1, <2>2
  <2>4. \A i, j \in DOMAIN opened' : opened'[i].key = opened'[j].key => i = j
    BY <2>1, <2>2 DEF IInv, KeysAreOpenedOnce
  <2>5. QED
    BY <2>3, <2>4 DEF KeysAreOpenedOnce
<1>17. QED
  BY <1>11, <1>12, <1>13, <1>14, <1>15, <1>16, ClaimPaces, ClaimCounts DEF IInv

-----------------------------------------------------------------------------
(* The cycle.                                                              *)
LEMMA ConcludeKeeps ==
  ASSUME IInv, NEW c \in Callers, run[c].pc \in Working, NEW proposal, NEW calls,
         Conclude(c, proposal, calls), run[c].sent = calls
  PROVE  IInv'
<1> DEFINE r == [run[c] EXCEPT !.pc = "cycle", !.calls = calls,
                               !.decisions = Append(@, Bind(c, proposal))]
<1>1. DOMAIN run[c] = Fields
  BY DEF IInv, TypeOK, RunIs
<1>2. /\ DOMAIN r = Fields /\ r.pc = "cycle" /\ r.calls = calls /\ r.request = run[c].request
      /\ r.now = run[c].now /\ r.sent = run[c].sent
  BY <1>1 DEF Fields
<1>3. Progress(c, r)
  BY DEF Conclude
<1> HIDE DEF r
<1>4. run'[c] = r
  BY <1>2, <1>3, RunStep DEF Progress, IInv
<1>5. CallsOf(c)'
  BY <1>2, <1>4 DEF CallsOf, Done
<1>6. QED
  BY <1>2, <1>3, <1>5, ProgressKeeps DEF Working

LEMMA ResultFields ==
  ASSUME NEW status, NEW reason
  PROVE  Result(status, reason).status = status /\ Result(status, reason).calls = {}
BY DEF Result

LEMMA BeginKeeps == ASSUME IInv, NEW c \in Callers, Begin(c) PROVE IInv'
<1>1. run[c].pc = "claimed" /\ run[c].pc \in Working /\ run[c].sent = {} /\ run[c].calls = {}
  BY DEF Begin, Working, IInv, CallsAreTrue, CallsOf
<1>2. CASE \E reason : Settle(c, Result("refused", reason))
  BY <1>1, <1>2, ResultFields, SettleKeeps
<1>3. ASSUME NEW contexts, Progress(c, [run[c] EXCEPT !.pc = "cycle", !.contexts = contexts])
      PROVE  IInv'
  <2> DEFINE r == [run[c] EXCEPT !.pc = "cycle", !.contexts = contexts]
  <2>1. DOMAIN run[c] = Fields
    BY DEF IInv, TypeOK, RunIs
  <2>2. /\ DOMAIN r = Fields /\ r.pc = "cycle" /\ r.calls = run[c].calls /\ r.request = run[c].request
        /\ r.now = run[c].now /\ r.sent = run[c].sent
    BY <2>1 DEF Fields
  <2>3. Progress(c, r)
    BY <1>3
  <2> HIDE DEF r
  <2>4. run'[c] = r
    BY <2>2, <2>3, RunStep DEF Progress, IInv
  <2>5. CallsOf(c)'
    BY <1>1, <2>2, <2>4 DEF CallsOf, Done
  <2>6. QED
    BY <1>1, <2>2, <2>3, <2>5, ProgressKeeps DEF Working
<1>4. QED
  BY <1>2, <1>3 DEF Begin

LEMMA AskKeeps == ASSUME IInv, NEW c \in Callers, Ask(c) PROVE IInv'
<1> DEFINE r == [run[c] EXCEPT !.pc = "asking", !.sent = @ \cup {Current(c)}]
<1>1. run[c].pc = "cycle" /\ Progress(c, r)
  BY DEF Ask, Considering
<1>2. DOMAIN run[c] = Fields /\ run[c].sent = run[c].calls
  BY <1>1 DEF IInv, TypeOK, RunIs, CallsAreTrue, CallsOf
<1>3. /\ DOMAIN r = Fields /\ r.pc = "asking" /\ r.calls = run[c].calls /\ r.request = run[c].request
      /\ r.now = run[c].now /\ r.sent = run[c].sent \cup {Current(c)}
      /\ r.selected = run[c].selected /\ r.decisions = run[c].decisions
  BY <1>2 DEF Fields
<1> HIDE DEF r
<1>4. run'[c] = r
  BY <1>1, <1>3, RunStep DEF Progress, IInv
<1>5. Current(c)' = Current(c)
  BY <1>3, <1>4 DEF Current
<1>6. CallsOf(c)'
  BY <1>2, <1>3, <1>4, <1>5 DEF CallsOf, Done
<1>7. QED
  BY <1>1, <1>3, <1>6, ProgressKeeps DEF Working

LEMMA WorksKeeps == ASSUME IInv, NEW c \in Callers, Works(c) PROVE IInv'
<1>1. CASE ContextsUnavailable(c)
  <2>1. run[c].pc = "claimed" /\ run[c].sent = {} /\ Settle(c, Result("refused", "network_unavailable"))
    BY <1>1 DEF ContextsUnavailable, IInv, CallsAreTrue, CallsOf
  <2>2. QED
    BY <2>1, ResultFields, SettleKeeps DEF Working
<1>2. CASE Skip(c) \/ GatewayRefuses(c)
  <2>1. run[c].pc = "cycle" /\ run[c].sent = run[c].calls
    BY <1>2 DEF Skip, GatewayRefuses, Considering, IInv, CallsAreTrue, CallsOf
  <2>2. \E proposal : Conclude(c, proposal, run[c].calls)
    BY <1>2 DEF Skip, GatewayRefuses
  <2>3. QED
    BY <2>1, <2>2, ConcludeKeeps DEF Working
<1>3. CASE Complete(c)
  <2> DEFINE result == [Result("completed", NoReason) EXCEPT
                          !.decisions = run[c].decisions,
                          !.allocations = Allocate(run[c].decisions, RequestAt(c).portfolio),
                          !.calls = run[c].calls]
  <2>1. run[c].pc = "cycle" /\ run[c].sent = run[c].calls /\ Settle(c, result)
    BY <1>3 DEF Complete, IInv, CallsAreTrue, CallsOf
  <2>2. result.status = "completed" /\ result.calls = run[c].calls
    BY DEF Result
  <2> HIDE DEF result
  <2>3. QED
    BY <2>1, <2>2, SettleKeeps DEF Working
<1>4. QED
  BY <1>1, <1>2, <1>3, NotClaimedKeeps, ClaimKeeps, BeginKeeps, AskKeeps DEF Works

LEMMA CallEndsKeeps == ASSUME IInv, NEW c \in Callers, CallEnds(c) PROVE IInv'
<1>1. run[c].pc = "asking" /\ run[c].pc \in Working /\ run[c].sent = WithCall(c)
  <2>1. run[c].pc = "asking"
    BY DEF CallEnds, Replies, GatewayFails, TimesOut, Cancelled
  <2>2. QED
    BY <2>1 DEF Working, WithCall, IInv, CallsAreTrue, CallsOf
<1>2. CASE Replies(c) \/ GatewayFails(c)
  <2>1. \E proposal : Conclude(c, proposal, WithCall(c))
    BY <1>2 DEF Replies, GatewayFails
  <2>2. QED
    BY <1>1, <2>1, ConcludeKeeps
<1>3. CASE TimesOut(c) \/ Cancelled(c)
  <2>1. PICK reason : Settle(c, Interrupted(c, reason))
    BY <1>3 DEF TimesOut, Cancelled
  <2>2. Interrupted(c, reason).status = "refused" /\ Interrupted(c, reason).calls = WithCall(c)
    BY DEF Interrupted, Result
  <2>3. QED
    BY <1>1, <2>1, <2>2, SettleKeeps
<1>4. QED
  BY <1>2, <1>3 DEF CallEnds
-----------------------------------------------------------------------------
LEMMA InitInv == Init => IInv
<1> SUFFICES ASSUME Init PROVE IInv
  OBVIOUS
<1>1. /\ asked \in Scenarios /\ clock = 0 /\ cache = <<>> /\ counts = <<>> /\ last = <<>>
      /\ opened = <<>> /\ run = [c \in Callers |-> Idle]
  BY DEF Init
<1>2. /\ DOMAIN Idle = Fields /\ Idle.pc = "idle" /\ Idle.selected = <<>> /\ Idle.sent = {}
      /\ Idle.calls = {}
  BY DEF Idle, Fields
<1>3. \A c \in Callers : run[c] = Idle /\ run[c].pc \notin Working /\ ~Done(c)
  BY <1>1, <1>2 DEF Working, Done
<1>4. TypeOK
  <2>1. \A c \in Callers : RunIs(c)
    BY <1>2, <1>3 DEF RunIs, Working
  <2>2. run \in [Callers -> Range(run)]
    BY <1>1 DEF Range
  <2>3. opened \in Seq(Openings)
    BY <1>1
  <2>4. QED
    BY <1>1, <2>1, <2>2, <2>3 DEF TypeOK
<1>5. CallsAreTrue
  BY <1>2, <1>3 DEF CallsAreTrue, CallsOf
<1>6. ClaimsAreOwned /\ AnswersAreKept /\ ClaimsAreWorkedOn
  BY <1>1, <1>3 DEF ClaimsAreOwned, AnswersAreKept, ClaimsAreWorkedOn
<1>7. KeysAreOpenedOnce /\ PaceIsKept /\ SlotsAreCounted
  BY <1>1 DEF KeysAreOpenedOnce, PaceIsKept, SlotsAreCounted
<1>8. QED
  BY <1>4, <1>5, <1>6, <1>7 DEF IInv

LEMMA ClockKeeps ==
  ASSUME IInv, clock' \in Nat, UNCHANGED <<asked, cache, counts, last, run, opened>>
  PROVE  IInv'
<1>1. \A c \in Callers : /\ RequestAt(c)' = RequestAt(c) /\ RunIs(c)' = RunIs(c)
                         /\ CallsOf(c)' = CallsOf(c) /\ Done(c)' = Done(c)
                         /\ ClaimIs(c)' = ClaimIs(c) /\ AnswerIs(c)' = AnswerIs(c)
  BY DEF RequestAt, RunIs, CallsOf, Done, ClaimIs, AnswerIs, Current
<1>2. TypeOK' /\ CallsAreTrue'
  BY <1>1 DEF IInv, TypeOK, CallsAreTrue
<1>3. ClaimsAreOwned'
  BY <1>1 DEF IInv, ClaimsAreOwned, KeyOf
<1>4. AnswersAreKept' /\ ClaimsAreWorkedOn'
  BY <1>1 DEF IInv, AnswersAreKept, ClaimsAreWorkedOn
<1>5. QED
  BY <1>2, <1>3, <1>4, OpenedKeeps DEF IInv

LEMMA NextKeeps == ASSUME IInv, [Next]_vars PROVE IInv'
<1>1. CASE \E c \in Callers : Arrive(c) \/ Works(c) \/ CallEnds(c)
  BY <1>1, ArriveKeeps, WorksKeeps, CallEndsKeeps
<1>2. CASE Tick \/ StepBack
  <2>1. clock' \in Nat
    BY <1>2 DEF Tick, StepBack, IInv, TypeOK
  <2>2. QED
    BY <1>2, <2>1, ClockKeeps DEF Tick, StepBack
<1>3. CASE UNCHANGED vars
  <2>1. clock' \in Nat
    BY <1>3 DEF vars, IInv, TypeOK
  <2>2. QED
    BY <1>3, <2>1, ClockKeeps DEF vars
<1>4. QED
  BY <1>1, <1>2, <1>3 DEF Next

-----------------------------------------------------------------------------
(* IInv holds in every state the runtime can reach.                        *)
THEOREM Invariance == Spec => []IInv
<1>1. Init => IInv
  BY InitInv
<1>2. IInv /\ [Next]_vars => IInv'
  BY NextKeeps
<1>3. QED
  BY <1>1, <1>2, PTL DEF Spec

(* One evaluation is started per key, and whoever asks with the key again gets its final answer
   or none (runtime.py, both looks at the cache).                                                *)
THEOREM OneAnswer == Spec => []OneAnswerPerKey
<1>1. IInv => OneAnswerPerKey
  <2> SUFFICES ASSUME IInv
               PROVE  OneAnswerPerKey
    OBVIOUS
  <2>1. \A c \in Callers : Completed(c) => AnswerIs(c)
    BY DEF IInv, AnswersAreKept, Completed
  <2>2. QED
    BY <2>1 DEF IInv, KeysAreOpenedOnce, OneAnswerPerKey, AnswerIs
<1>2. QED
  BY <1>1, Invariance, PTL

(* However a cycle ends, its key has a result that tells of every call it paid for, and as long
   as it has none, somebody is at work on it (runtime.py:285-337).                                *)
THEOREM ClaimsAccountedFor == Spec => []ClaimsAreAccountedFor
<1>1. IInv => ClaimsAreAccountedFor
  <2> SUFFICES ASSUME IInv
               PROVE  ClaimsAreWorkedOn /\ CallsAreReported
    BY DEF ClaimsAreAccountedFor
  <2>1. \A c \in Callers : Done(c) /\ run[c].selected # <<>> => AnswerIs(c) /\ CallsOf(c)
    BY DEF IInv, AnswersAreKept, CallsAreTrue
  <2>2. QED
    BY <2>1 DEF IInv, CallsAreReported, AnswerIs, CallsOf
<1>2. QED
  BY <1>1, Invariance, PTL

(* An agent keeps its pace and its slots of a day whatever interleaves, fails or is cancelled,
   across midnight and a clock that is stepped back (runtime.py:144-163).                         *)
THEOREM AgentsKeepTheirPace == Spec => []PaceHolds
<1>1. IInv => PaceHolds
  <2> SUFFICES ASSUME IInv
               PROVE  PaceHolds
    OBVIOUS
  <2>1. opened \in Seq(Openings) /\ DOMAIN opened = 1..Len(opened)
    BY DEF IInv, TypeOK
  <2>2. ASSUME NEW i \in DOMAIN opened
        PROVE  Total([j \in {j \in 1..i : /\ opened[j].agent = opened[i].agent
                                          /\ opened[j].now \div DayLength = opened[i].now \div DayLength}
                        |-> opened[j].slots])
                 <= VersionOf[opened[i].version].perDay
    <3> DEFINE day == DayIs(opened[i])
               S == {j \in 1..i : /\ opened[j].agent = opened[i].agent
                                  /\ opened[j].now \div DayLength = opened[i].now \div DayLength}
               T == OnDay(opened, day, i)
               f == [j \in S |-> opened[j].slots]
               g == [j \in T |-> opened[j].slots]
    <3>1. i \in 0..Len(opened)
      BY <2>1
    <3>2. IsFiniteSet(T) /\ g \in [T -> Nat] /\ SlotsOn(opened, day, i) \in Nat
      BY <2>1, <3>1, SlotsOnType
    <3>3. S \subseteq T
      BY DEF OnDay, DayIs
    <3>4. f \in [S -> Nat] /\ \A j \in S : f[j] <= g[j]
      <4>1. \A j \in S : g[j] \in Nat /\ g[j] = opened[j].slots
        BY <3>2, <3>3
      <4> HIDE DEF S, T, g
      <4>2. QED
        BY <4>1
    <3>5. SlotsOn(opened, day, i) = Total(g)
      BY DEF SlotsOn
    <3>6. Total(f) \in Nat
      BY <3>2, <3>3, <3>4, FS_Subset, UnitsFinite
    <3>7. VersionOf[opened[i].version].perDay \in Nat
      <4>1. opened[i] \in Openings
        BY <2>1
      <4>2. opened[i].version \in DOMAIN VersionOf
        BY <4>1 DEF Openings
      <4>3. QED
        BY <4>2, RuntimeAssumption
    <3>8. SlotsOn(opened, day, i) <= VersionOf[opened[i].version].perDay
      BY DEF IInv, SlotsAreCounted
    <3> HIDE DEF day, S, T, f, g
    <3>9. Total(f) <= Total(g)
      BY <3>2, <3>3, <3>4, TotalMonotone
    <3>10. Total(f) <= VersionOf[opened[i].version].perDay
      BY <3>2, <3>5, <3>6, <3>7, <3>8, <3>9
    <3>11. QED
      BY <3>10 DEF f, S
  <2>3. QED
    BY <2>2 DEF IInv, PaceIsKept, PaceHolds
<1>2. QED
  BY <1>1, Invariance, PTL

-----------------------------------------------------------------------------
(* The candidates of a scan.                                               *)
LEMMA LargestOfMany ==
  ASSUME NEW S \in SUBSET Int, IsFiniteSet(S), S # {}
  PROVE  Max(S) \in S
<1> DEFINE Above(x) == {y \in S : y > x}
           ranks == {Cardinality(Above(x)) : x \in S}
<1>1. \A x \in S : IsFiniteSet(Above(x)) /\ Cardinality(Above(x)) \in Nat
  BY FS_Subset, FS_CardinalityType
<1>2. PICK x \in S : \A y \in S : Cardinality(Above(x)) <= Cardinality(Above(y))
  <2>1. ranks \in SUBSET Nat /\ ranks # {}
    BY <1>1
  <2> HIDE DEF Above
  <2>2. PICK r \in ranks : \A s \in ranks : r <= s
    BY <2>1, LeastExists
  <2>3. QED
    BY <2>2
<1>3. \A y \in S : x >= y
  <2> SUFFICES ASSUME NEW y \in S, y > x PROVE FALSE
    OBVIOUS
  <2>1. Above(y) \subseteq Above(x) /\ Above(y) # Above(x)
    <3>1. y \in Above(x) /\ y \notin Above(y)
      OBVIOUS
    <3>2. ASSUME NEW z \in Above(y) PROVE z \in Above(x)
      <4>1. z \in Int /\ y \in Int /\ x \in Int /\ z > y /\ z \in S
        OBVIOUS
      <4>2. QED
        BY <4>1
    <3>3. QED
      BY <3>1, <3>2
  <2>2. Cardinality(Above(y)) < Cardinality(Above(x))
    BY <1>1, <2>1, FS_Subset
  <2>3. QED
    BY <1>1, <1>2, <2>2
<1>4. QED
  BY <1>3 DEF Max

IsFeatures(request) ==
  \A i \in DOMAIN request.features : \A f \in DOMAIN request.features[i] :
    request.features[i][f] \in Int

LEMMA InterestType ==
  ASSUME NEW values, \A f \in DOMAIN values : values[f] \in Int
  PROVE  Interest(values) \in Int
<1> DEFINE scores == {values[f] * (Policy.unit \div Policy.thresholds[f]) : f \in Hits(values)}
<1>1. IsFiniteSet(Hits(values)) /\ Hits(values) \subseteq DOMAIN values
      /\ Hits(values) \subseteq DOMAIN Policy.thresholds
  BY PolicyAssumption, FS_Subset DEF Hits
<1>2. \A f \in Hits(values) : values[f] * (Policy.unit \div Policy.thresholds[f]) \in Int
  <2> SUFFICES ASSUME NEW f \in Hits(values)
               PROVE  values[f] * (Policy.unit \div Policy.thresholds[f]) \in Int
    OBVIOUS
  <2>1. values[f] \in Int /\ Policy.unit \in Nat /\ Policy.thresholds[f] \in Nat \ {0}
    BY <1>1, PolicyAssumption
  <2>2. Policy.unit \div Policy.thresholds[f] \in Int
    BY <2>1
  <2>3. QED
    BY <2>1, <2>2
<1>3. IsFiniteSet(scores)
  <2> DEFINE h == [f \in Hits(values) |-> values[f] * (Policy.unit \div Policy.thresholds[f])]
  <2>1. h \in Surjection(Hits(values), scores)
    BY DEF Surjection
  <2>2. QED
    BY <1>1, <2>1, FS_Surjection
<1>4. scores \in SUBSET Int
  BY <1>2
<1>5. CASE scores = {}
  BY <1>5 DEF Interest
<1>6. CASE scores # {}
  <2>1. Interest(values) = Max(scores)
    BY <1>6 DEF Interest
  <2> HIDE DEF scores
  <2>2. QED
    BY <1>3, <1>4, <1>6, <2>1, LargestOfMany
<1>7. QED
  BY <1>5, <1>6

(* There is a candidate for every place of a scan.                         *)
LEMMA ScanFinds ==
  ASSUME NEW request, NEW version, IsFeatures(request), IsFiniteSet(version.universe),
         version.universe \in SUBSET Instruments,
         NEW n \in 1..Scanned(request, version)
  PROVE  Scan(request, version)[n] \in Nat
<1> DEFINE S == Found(request, version)
           N == Cardinality(S)
           T == 0..(N - 1)
           place == [i \in S |-> Cardinality(Ahead(request, version, i))]
           interest(j) == Interest(request.features[j])
<1>1. IsFiniteSet(S) /\ S \subseteq Nat /\ N \in Nat
  BY PolicyAssumption, FS_Subset, FS_CardinalityType DEF Found
<1>2. \A i \in S : interest(i) \in Int
  BY InterestType DEF Found, IsFeatures
<1>3. \A i \in S : Ahead(request, version, i) =
        {j \in S : interest(j) > interest(i) \/ (interest(j) = interest(i) /\ j < i)}
  BY DEF Ahead
<1> HIDE DEF S, interest
<1>4. \A i \in S : /\ Ahead(request, version, i) \subseteq S
                   /\ i \notin Ahead(request, version, i)
  BY <1>1, <1>2, <1>3
<1>5. \A i, j \in S : i # j =>
        /\ i \in Ahead(request, version, j) \/ j \in Ahead(request, version, i)
        /\ i \in Ahead(request, version, j)
             => Ahead(request, version, i) \subseteq Ahead(request, version, j)
  <2> SUFFICES ASSUME NEW i \in S, NEW j \in S, i # j
               PROVE  /\ i \in Ahead(request, version, j) \/ j \in Ahead(request, version, i)
                      /\ i \in Ahead(request, version, j)
                           => Ahead(request, version, i) \subseteq Ahead(request, version, j)
    OBVIOUS
  <2>1. i \in Nat /\ j \in Nat /\ interest(i) \in Int /\ interest(j) \in Int
    BY <1>1, <1>2
  <2>2. i \in Ahead(request, version, j) \/ j \in Ahead(request, version, i)
    BY <1>3, <2>1
  <2>3. i \in Ahead(request, version, j)
          => Ahead(request, version, i) \subseteq Ahead(request, version, j)
    <3> SUFFICES ASSUME i \in Ahead(request, version, j), NEW k \in Ahead(request, version, i)
                 PROVE  k \in Ahead(request, version, j)
      OBVIOUS
    <3>1. k \in S /\ k \in Nat /\ interest(k) \in Int
      BY <1>1, <1>2, <1>3
    <3>2. interest(k) > interest(i) \/ (interest(k) = interest(i) /\ k < i)
      BY <1>3
    <3>3. interest(i) > interest(j) \/ (interest(i) = interest(j) /\ i < j)
      BY <1>3
    <3>4. interest(k) > interest(j) \/ (interest(k) = interest(j) /\ k < j)
      BY <2>1, <3>1, <3>2, <3>3
    <3>5. QED
      BY <1>3, <3>1, <3>4
  <2>4. QED
    BY <2>2, <2>3
<1>6. \A i \in S : IsFiniteSet(Ahead(request, version, i)) /\ place[i] \in Nat /\ place[i] < N
  <2> SUFFICES ASSUME NEW i \in S
               PROVE  IsFiniteSet(Ahead(request, version, i)) /\ place[i] \in Nat /\ place[i] < N
    OBVIOUS
  <2>1. IsFiniteSet(Ahead(request, version, i)) /\ Ahead(request, version, i) # S
    BY <1>1, <1>4, FS_Subset
  <2>2. Cardinality(Ahead(request, version, i)) < N
    BY <1>1, <1>4, <2>1, FS_Subset, FS_CardinalityType
  <2>3. QED
    BY <2>1, <2>2, FS_CardinalityType
<1>7. \A i, j \in S : i \in Ahead(request, version, j) => place[i] < place[j]
  <2> SUFFICES ASSUME NEW i \in S, NEW j \in S, i \in Ahead(request, version, j)
               PROVE  place[i] < place[j]
    OBVIOUS
  <2>1. i # j
    BY <1>4
  <2>2. Ahead(request, version, i) \subseteq Ahead(request, version, j)
        /\ Ahead(request, version, i) # Ahead(request, version, j)
    BY <1>4, <1>5, <2>1
  <2>3. QED
    BY <1>6, <2>2, FS_Subset
<1>8. place \in Injection(S, T)
  <2>1. place \in [S -> T]
    BY <1>1, <1>6
  <2>2. \A i, j \in S : place[i] = place[j] => i = j
    <3> SUFFICES ASSUME NEW i \in S, NEW j \in S, i # j PROVE place[i] # place[j]
      OBVIOUS
    <3>1. place[i] \in Nat /\ place[j] \in Nat
      BY <1>6
    <3>2. place[i] < place[j] \/ place[j] < place[i]
      BY <1>5, <1>7
    <3>3. QED
      BY <3>1, <3>2
  <2>3. QED
    BY <2>1, <2>2 DEF Injection, IsInjective
<1>9. IsFiniteSet(T) /\ Cardinality(T) = N
  <2>1. 0 \in Int /\ N - 1 \in Int /\ N - 1 - 0 + 1 = N /\ (0 > N - 1 => N = 0)
    BY <1>1
  <2>2. QED
    BY <2>1, FS_Interval
<1>10. place \in Surjection(S, T)
  <2> HIDE DEF place, T, N
  <2>1. QED
    BY <1>1, <1>8, <1>9, FS_Injection DEF N
<1>11. Scanned(request, version) <= N /\ n - 1 \in T
  <2>1. Scanned(request, version) = Min({N, Policy.candidates})
    BY DEF Scanned, S
  <2>2. \E x \in {N, Policy.candidates} : \A y \in {N, Policy.candidates} : x <= y
    BY <1>1, PolicyAssumption
  <2>3. Scanned(request, version) \in Nat /\ Scanned(request, version) <= N
    BY <1>1, <2>1, <2>2, PolicyAssumption DEF Min
  <2>4. QED
    BY <1>1, <2>3
<1>12. PICK i \in S : place[i] = n - 1
  BY <1>10, <1>11 DEF Surjection
<1>13. Scan(request, version)[n] \in S
  BY <1>12 DEF Scan, S
<1>14. QED
  BY <1>1, <1>13

-----------------------------------------------------------------------------
(* The division of the money.                                              *)
Groups == {Policy.groups[i] : i \in DOMAIN Policy.groups}

FundsOf(p) == [cash : Nat, remaining : Nat, room : [Groups -> Int], held : [DOMAIN p.held -> Nat]]

Givings ==
  [instrument : Nat, action : {"buy", "sell", "reduce", "close"}, requested : Nat, amount : Nat]

IsDecision(d) ==
  d.amount \in Nat /\ d.rank \in Int /\ d.cost \in Int /\ d.instrument \in Nat

AreDecisions(decisions) ==
  /\ IsFiniteSet(DOMAIN decisions)
  /\ \A k \in Proposed(decisions) : IsDecision(decisions[k])

(* A portfolio whose positions have a value, which is what a valid request has. *)
IsPortfolio(p) ==
  /\ p.cash \in Nat /\ p.available \in Nat /\ p.equity \in Nat
  /\ IsFiniteSet(DOMAIN p.held) /\ \A i \in DOMAIN p.held : p.held[i].value \in Nat

Blocked(p) == PortfolioReasons(p) # {}

LEMMA SmallestIs ==
  ASSUME NEW S, \E x \in S : \A y \in S : x <= y
  PROVE  Min(S) \in S /\ \A y \in S : Min(S) <= y
BY DEF Min

LEMMA PositivePartIs ==
  ASSUME NEW n \in Int
  PROVE  PositivePart(n) = IF n > 0 THEN n ELSE 0
<1>1. \A x \in {0, n} : (\A y \in {0, n} : x >= y) => x = (IF n > 0 THEN n ELSE 0)
  OBVIOUS
<1>2. \E x \in {0, n} : \A y \in {0, n} : x >= y
  OBVIOUS
<1>3. QED
  BY <1>1, <1>2 DEF PositivePart, Max

LEMMA QuotientIs ==
  ASSUME NEW a \in Nat, NEW b \in Nat, b > 0
  PROVE  a \div b \in Nat /\ (a \div b) * b <= a
OBVIOUS

(* What a buy is given there is, and a sale is of what is held.            *)
LEMMA BuyIs ==
  ASSUME NEW p, NEW funds \in FundsOf(p), NEW d, d.amount \in Nat,
         d.instrument \in DOMAIN Policy.groups
  PROVE  /\ BuyAmount(d, funds) \in Nat
         /\ BuyAmount(d, funds) * (100 + Policy.bufferPct) <= funds.cash
         /\ BuyAmount(d, funds) <= funds.remaining
         /\ BuyAmount(d, funds) = 0
              \/ BuyAmount(d, funds) <= funds.room[Policy.groups[d.instrument]]
<1> DEFINE factor == 100 + Policy.bufferPct
           worth == funds.cash \div factor
           room == funds.room[Policy.groups[d.instrument]]
           least == Min({d.amount, worth, funds.remaining, room})
<1>1. factor \in Nat /\ factor > 0
  BY PolicyAssumption
<1>2. funds.cash \in Nat /\ funds.remaining \in Nat /\ room \in Int
  BY DEF FundsOf, Groups
<1>3. worth \in Nat /\ worth * factor <= funds.cash
  BY <1>1, <1>2, QuotientIs
<1>4. BuyAmount(d, funds) = PositivePart(least)
  BY DEF BuyAmount
<1> HIDE DEF factor, worth, room
<1>5. /\ least \in {d.amount, worth, funds.remaining, room}
      /\ \A y \in {d.amount, worth, funds.remaining, room} : least <= y
  <2>1. PICK S : S = {d.amount, worth, funds.remaining, room}
    OBVIOUS
  <2>2. \E x \in S : \A y \in S : x <= y
    BY <1>2, <1>3, <2>1
  <2>3. Min(S) \in S /\ \A y \in S : Min(S) <= y
    BY <2>2, SmallestIs
  <2>4. QED
    BY <2>1, <2>3
<1>6. least \in Int /\ least <= worth /\ least <= funds.remaining /\ least <= room
  BY <1>2, <1>3, <1>5
<1> HIDE DEF least
<1>7. BuyAmount(d, funds) = IF least > 0 THEN least ELSE 0
  BY <1>4, <1>6, PositivePartIs
<1>8. PICK amount : amount = BuyAmount(d, funds)
  OBVIOUS
<1>9. /\ amount \in Nat /\ amount <= worth /\ amount <= funds.remaining
      /\ amount = 0 \/ amount <= room
  BY <1>2, <1>3, <1>6, <1>7, <1>8
<1>10. amount * factor <= worth * factor
  BY <1>1, <1>3, <1>9
<1>11. amount * factor <= funds.cash
  <2>1. amount * factor \in Int /\ worth * factor \in Int
    BY <1>1, <1>3, <1>9
  <2>2. QED
    BY <1>2, <1>3, <1>10, <2>1
<1>12. QED
  BY <1>8, <1>9, <1>11 DEF factor, room

LEMMA SellIs ==
  ASSUME NEW p, NEW funds \in FundsOf(p), NEW d, d.amount \in Nat
  PROVE  /\ SellAmount(d, funds) \in Nat
         /\ d.instrument \notin DOMAIN p.held => SellAmount(d, funds) = 0
         /\ d.instrument \in DOMAIN p.held => SellAmount(d, funds) <= funds.held[d.instrument]
<1>1. funds.held \in [DOMAIN p.held -> Nat]
  BY DEF FundsOf
<1>2. CASE d.instrument \in DOMAIN p.held
  <2>1. funds.held[d.instrument] \in Nat
    BY <1>1, <1>2
  <2>2. SellAmount(d, funds) = Min({d.amount, funds.held[d.instrument]})
    BY <1>1, <1>2 DEF SellAmount
  <2>3. PICK S : S = {d.amount, funds.held[d.instrument]}
    OBVIOUS
  <2>4. \E x \in S : \A y \in S : x <= y
    BY <2>1, <2>3
  <2>5. Min(S) \in S /\ \A y \in S : Min(S) <= y
    BY <2>4, SmallestIs
  <2>6. QED
    BY <1>2, <2>1, <2>2, <2>3, <2>5
<1>3. CASE d.instrument \notin DOMAIN p.held
  BY <1>1, <1>3 DEF SellAmount
<1>4. QED
  BY <1>2, <1>3

-----------------------------------------------------------------------------
(* The turns of a division: who is next, and what a group was promised.    *)
LEMMA ForemostIs ==
  ASSUME NEW decisions, NEW left, IsFiniteSet(left), left # {},
         \A k \in left : IsDecision(decisions[k])
  PROVE  Foremost(decisions, left) \in left
<1> DEFINE Above(k) == {j \in left : Outranks(decisions[j], decisions[k])}
           sizes == {Cardinality(Above(k)) : k \in left}
<1>1. \A k \in left : Above(k) \subseteq left /\ IsFiniteSet(Above(k)) /\ Cardinality(Above(k)) \in Nat
  BY FS_Subset, FS_CardinalityType
<1>2. \A i, j, k \in left :
        /\ ~Outranks(decisions[i], decisions[i])
        /\ Outranks(decisions[i], decisions[j]) /\ Outranks(decisions[j], decisions[k])
             => Outranks(decisions[i], decisions[k])
  <2> SUFFICES ASSUME NEW i \in left, NEW j \in left, NEW k \in left
               PROVE  /\ ~Outranks(decisions[i], decisions[i])
                      /\ Outranks(decisions[i], decisions[j]) /\ Outranks(decisions[j], decisions[k])
                           => Outranks(decisions[i], decisions[k])
    OBVIOUS
  <2>1. PICK d, e, f : d = decisions[i] /\ e = decisions[j] /\ f = decisions[k]
    OBVIOUS
  <2>2. IsDecision(d) /\ IsDecision(e) /\ IsDecision(f)
    BY <2>1
  <2>3. ~Outranks(d, d) /\ (Outranks(d, e) /\ Outranks(e, f) => Outranks(d, f))
    BY <2>2 DEF IsDecision, Outranks
  <2>4. QED
    BY <2>1, <2>3
<1>3. PICK k \in left : \A j \in left : Cardinality(Above(k)) <= Cardinality(Above(j))
  <2>1. sizes \in SUBSET Nat /\ sizes # {}
    BY <1>1
  <2> HIDE DEF Above
  <2>2. PICK s \in sizes : \A t \in sizes : s <= t
    BY <2>1, LeastExists
  <2>3. QED
    BY <2>2
<1>4. ASSUME NEW j \in left, Outranks(decisions[j], decisions[k])
      PROVE  FALSE
  <2>1. Above(j) \subseteq Above(k) /\ j \in Above(k) /\ j \notin Above(j)
    BY <1>2, <1>4
  <2> HIDE DEF Above
  <2>2. Cardinality(Above(j)) < Cardinality(Above(k))
    BY <1>1, <2>1, FS_Subset, FS_CardinalityType
  <2>3. QED
    BY <1>1, <1>3, <2>2
<1>5. QED
  BY <1>4 DEF Foremost

(* What was given by then, and what is left of the funds.                  *)
Buys(g) == g.action = "buy"
InGroup(g, group) == g.instrument \in DOMAIN Policy.groups /\ Policy.groups[g.instrument] = group

Bought(given) == [j \in DOMAIN given |-> IF Buys(given[j]) THEN given[j].amount ELSE 0]
BoughtIn(given, group) ==
  [j \in DOMAIN given |-> IF Buys(given[j]) /\ InGroup(given[j], group) THEN given[j].amount ELSE 0]

Grounded(g, decisions, p) ==
  /\ \E k \in Proposed(decisions) :
       g.instrument = decisions[k].instrument /\ g.action = decisions[k].action
  /\ g.amount > 0 =>
       /\ ~Blocked(p) /\ g.instrument \in DOMAIN Policy.groups
       /\ g.action # "buy" =>
            g.instrument \in DOMAIN p.held /\ g.amount <= p.held[g.instrument].value

Booked(so, p) ==
  /\ so.funds.cash + Total(Bought(so.given)) * (100 + Policy.bufferPct) = Funds(p).cash
  /\ so.funds.remaining + Total(Bought(so.given)) = Funds(p).remaining
  /\ \A group \in Groups :
       /\ so.funds.room[group] + Total(BoughtIn(so.given, group)) = Funds(p).room[group]
       /\ Total(BoughtIn(so.given, group)) = 0 \/ so.funds.room[group] >= 0
  /\ \A i \in DOMAIN p.held : so.funds.held[i] <= p.held[i].value

Turn(so, decisions, p, n) ==
  /\ so.left \subseteq Proposed(decisions)
  /\ Cardinality(so.left) = Cardinality(Proposed(decisions)) - n
  /\ so.funds \in FundsOf(p)
  /\ so.given \in Seq(Givings) /\ Len(so.given) = n
  /\ \A j \in DOMAIN so.given : Grounded(so.given[j], decisions, p)
  /\ Booked(so, p)

LEMMA BoughtIs ==
  ASSUME NEW given \in Seq(Givings), NEW group
  PROVE  /\ IsFiniteSet(DOMAIN given) /\ DOMAIN given = 1..Len(given) /\ Len(given) \in Nat
         /\ Bought(given) \in [DOMAIN given -> Nat] /\ Total(Bought(given)) \in Nat
         /\ BoughtIn(given, group) \in [DOMAIN given -> Nat] /\ Total(BoughtIn(given, group)) \in Nat
<1>1. DOMAIN given = 1..Len(given) /\ Len(given) \in Nat /\ \A j \in DOMAIN given : given[j] \in Givings
  OBVIOUS
<1>2. IsFiniteSet(DOMAIN given)
  BY <1>1, FS_Interval
<1>3. \A j \in DOMAIN given : given[j].amount \in Nat
  BY <1>1 DEF Givings
<1>4. Bought(given) \in [DOMAIN given -> Nat] /\ BoughtIn(given, group) \in [DOMAIN given -> Nat]
  BY <1>3 DEF Bought, BoughtIn
<1>5. QED
  BY <1>1, <1>2, <1>4, UnitsFinite

LEMMA BoughtGrows ==
  ASSUME NEW given \in Seq(Givings), NEW a \in Givings, NEW group, NEW more, more = Append(given, a)
  PROVE  /\ Total(Bought(more)) = Total(Bought(given)) + (IF Buys(a) THEN a.amount ELSE 0)
         /\ Total(BoughtIn(more, group))
              = Total(BoughtIn(given, group)) + (IF Buys(a) /\ InGroup(a, group) THEN a.amount ELSE 0)
<1>1. PICK n : n = Len(given) + 1
  OBVIOUS
<1>2. /\ more \in Seq(Givings) /\ DOMAIN more = (DOMAIN given) \cup {n} /\ n \notin DOMAIN given
      /\ more[n] = a /\ \A j \in DOMAIN given : more[j] = given[j]
  BY <1>1
<1>3. Total(Bought(more)) = Total(Bought(given)) + Bought(more)[n]
  <2>1. PICK f, g, S : f = Bought(given) /\ g = Bought(more) /\ S = DOMAIN given
    OBVIOUS
  <2>2. /\ IsFiniteSet(S) /\ n \notin S /\ f \in [S -> Nat] /\ g \in [S \cup {n} -> Nat]
        /\ \A j \in S : g[j] = f[j]
    <3>1. IsFiniteSet(S) /\ f \in [S -> Nat] /\ g \in [S \cup {n} -> Nat]
      BY <1>2, <2>1, BoughtIs
    <3>2. \A j \in S : g[j] = f[j]
      BY <1>2, <2>1 DEF Bought
    <3>3. QED
      BY <1>2, <2>1, <3>1, <3>2
  <2>3. Total(g) = Total(f) + g[n]
    <3>1. Adds(S, n, f, g)
      BY <2>2 DEF Adds
    <3>2. QED
      BY <3>1, TotalJoins
  <2>4. QED
    BY <2>1, <2>3
<1>4. Total(BoughtIn(more, group)) = Total(BoughtIn(given, group)) + BoughtIn(more, group)[n]
  <2>1. PICK f, g, S : f = BoughtIn(given, group) /\ g = BoughtIn(more, group) /\ S = DOMAIN given
    OBVIOUS
  <2>2. /\ IsFiniteSet(S) /\ n \notin S /\ f \in [S -> Nat] /\ g \in [S \cup {n} -> Nat]
        /\ \A j \in S : g[j] = f[j]
    <3>1. IsFiniteSet(S) /\ f \in [S -> Nat] /\ g \in [S \cup {n} -> Nat]
      BY <1>2, <2>1, BoughtIs
    <3>2. \A j \in S : g[j] = f[j]
      BY <1>2, <2>1 DEF BoughtIn
    <3>3. QED
      BY <1>2, <2>1, <3>1, <3>2
  <2>3. Total(g) = Total(f) + g[n]
    <3>1. Adds(S, n, f, g)
      BY <2>2 DEF Adds
    <3>2. QED
      BY <3>1, TotalJoins
  <2>4. QED
    BY <2>1, <2>3
<1>5. Bought(more)[n] = IF Buys(a) THEN a.amount ELSE 0
  BY <1>2 DEF Bought
<1>6. BoughtIn(more, group)[n] = IF Buys(a) /\ InGroup(a, group) THEN a.amount ELSE 0
  BY <1>2 DEF BoughtIn
<1>7. QED
  BY <1>3, <1>4, <1>5, <1>6

LEMMA BoughtSame ==
  ASSUME NEW given \in Seq(Givings), NEW a \in Givings, ~Buys(a) \/ a.amount = 0,
         NEW group, NEW more, more = Append(given, a)
  PROVE  /\ Total(Bought(more)) = Total(Bought(given))
         /\ Total(BoughtIn(more, group)) = Total(BoughtIn(given, group))
<1>1. Total(Bought(given)) \in Nat /\ Total(BoughtIn(given, group)) \in Nat
  BY BoughtIs
<1>2. /\ Total(Bought(more)) = Total(Bought(given)) + (IF Buys(a) THEN a.amount ELSE 0)
      /\ Total(BoughtIn(more, group))
           = Total(BoughtIn(given, group)) + (IF Buys(a) /\ InGroup(a, group) THEN a.amount ELSE 0)
  BY BoughtGrows
<1>3. QED
  BY <1>1, <1>2

LEMMA BoughtMore ==
  ASSUME NEW given \in Seq(Givings), NEW a \in Givings, Buys(a),
         NEW group, InGroup(a, group), NEW more, more = Append(given, a)
  PROVE  /\ Total(Bought(more)) = Total(Bought(given)) + a.amount
         /\ Total(BoughtIn(more, group)) = Total(BoughtIn(given, group)) + a.amount
<1>1. /\ Total(Bought(more)) = Total(Bought(given)) + (IF Buys(a) THEN a.amount ELSE 0)
      /\ Total(BoughtIn(more, group))
           = Total(BoughtIn(given, group)) + (IF Buys(a) /\ InGroup(a, group) THEN a.amount ELSE 0)
  BY BoughtGrows
<1>2. QED
  BY <1>1

LEMMA BoughtElsewhere ==
  ASSUME NEW given \in Seq(Givings), NEW a \in Givings, NEW group, ~InGroup(a, group),
         NEW more, more = Append(given, a)
  PROVE  Total(BoughtIn(more, group)) = Total(BoughtIn(given, group))
<1>1. Total(BoughtIn(given, group)) \in Nat
  BY BoughtIs
<1>2. Total(BoughtIn(more, group))
        = Total(BoughtIn(given, group)) + (IF Buys(a) /\ InGroup(a, group) THEN a.amount ELSE 0)
  BY BoughtGrows
<1>3. QED
  BY <1>1, <1>2

-----------------------------------------------------------------------------
(* What the funds of a portfolio are, and what one turn takes from them.    *)
LEMMA ValueIs ==
  ASSUME NEW p, IsPortfolio(p), NEW S \in SUBSET DOMAIN p.held
  PROVE  Value(p, S) \in Nat
<1> DEFINE f == [i \in S |-> p.held[i].value]
<1>1. IsFiniteSet(S) /\ f \in [S -> Nat]
  BY FS_Subset DEF IsPortfolio
<1>2. Value(p, S) = Total(f)
  BY DEF Value
<1> HIDE DEF f
<1>3. QED
  BY <1>1, <1>2, UnitsFinite

(* The funds of a portfolio whose positions have a value.                  *)
LEMMA FundsAre ==
  ASSUME NEW p, IsPortfolio(p)
  PROVE  /\ Funds(p) \in FundsOf(p)
         /\ Funds(p).cash = p.available * 100
         /\ Funds(p).remaining = (p.equity * Policy.newPct) \div 100
         /\ Funds(p).remaining * 100 <= p.equity * Policy.newPct
         /\ \A group \in Groups :
              /\ Value(p, HeldIn(p, group)) \in Nat
              /\ Funds(p).room[group] \in Int
              /\ (Funds(p).room[group] + Value(p, HeldIn(p, group))) * 100 <= p.equity * Policy.groupPct
         /\ \A i \in DOMAIN p.held : Funds(p).held[i] = p.held[i].value
<1> DEFINE fresh == p.equity * Policy.newPct
           share == p.equity * Policy.groupPct
<1>1. p.available \in Nat /\ p.equity \in Nat /\ Policy.newPct \in Nat /\ Policy.groupPct \in Nat
  BY PolicyAssumption DEF IsPortfolio
<1>2. fresh \in Nat /\ share \in Nat
  BY <1>1
<1> HIDE DEF fresh, share
<1>3. /\ fresh \div 100 \in Nat /\ (fresh \div 100) * 100 <= fresh
      /\ share \div 100 \in Nat /\ (share \div 100) * 100 <= share
  BY <1>2, QuotientIs
<1>4. /\ PositivePart(p.available) = p.available /\ PositivePart(fresh \div 100) = fresh \div 100
      /\ PositivePart(share \div 100) = share \div 100
  BY <1>1, <1>3, PositivePartIs
<1>5. \A group \in Groups : Value(p, HeldIn(p, group)) \in Nat
  BY ValueIs DEF HeldIn
<1>6. Funds(p) = [cash |-> p.available * 100, remaining |-> fresh \div 100,
                  room |-> [g \in Groups |-> (share \div 100) - Value(p, HeldIn(p, g))],
                  held |-> [i \in DOMAIN p.held |-> p.held[i].value]]
  BY <1>4 DEF Funds, Groups, fresh, share
<1>7. \A group \in Groups : Funds(p).room[group] = (share \div 100) - Value(p, HeldIn(p, group))
  BY <1>6
<1>8. \A group \in Groups : (share \div 100) - Value(p, HeldIn(p, group)) \in Int
  BY <1>3, <1>5
<1>9. \A i \in DOMAIN p.held : p.held[i].value \in Nat
  BY DEF IsPortfolio
<1>10. Funds(p) \in FundsOf(p)
  <2>1. [g \in Groups |-> (share \div 100) - Value(p, HeldIn(p, g))] \in [Groups -> Int]
    BY <1>8
  <2>2. [i \in DOMAIN p.held |-> p.held[i].value] \in [DOMAIN p.held -> Nat]
    BY <1>9
  <2>3. QED
    BY <1>1, <1>3, <1>6, <2>1, <2>2 DEF FundsOf
<1>11. \A group \in Groups : (Funds(p).room[group] + Value(p, HeldIn(p, group))) * 100 <= share
  <2> SUFFICES ASSUME NEW group \in Groups
               PROVE  (Funds(p).room[group] + Value(p, HeldIn(p, group))) * 100 <= share
    OBVIOUS
  <2>1. Funds(p).room[group] + Value(p, HeldIn(p, group)) = share \div 100
    BY <1>3, <1>5, <1>7
  <2>2. QED
    BY <1>3, <2>1
<1>12. QED
  BY <1>3, <1>5, <1>6, <1>7, <1>8, <1>10, <1>11 DEF fresh, share

LEMMA TurnBegins ==
  ASSUME NEW decisions, AreDecisions(decisions), NEW p, IsPortfolio(p)
  PROVE  Turn([left |-> Proposed(decisions), funds |-> Funds(p), given |-> <<>>], decisions, p, 0)
<1> DEFINE so == [left |-> Proposed(decisions), funds |-> Funds(p), given |-> <<>>]
<1>1. so.left = Proposed(decisions) /\ so.funds = Funds(p) /\ so.given = <<>>
  OBVIOUS
<1> HIDE DEF so
<1>2. so.given \in Seq(Givings) /\ Len(so.given) = 0 /\ DOMAIN so.given = {}
  BY <1>1
<1>3. Total(Bought(so.given)) = 0 /\ \A group : Total(BoughtIn(so.given, group)) = 0
  <2>1. DOMAIN Bought(so.given) = {} /\ \A group : DOMAIN BoughtIn(so.given, group) = {}
    BY <1>2 DEF Bought, BoughtIn
  <2>2. QED
    BY <2>1, TotalEmpty
<1>4. Cardinality(Proposed(decisions)) \in Nat
  BY FS_Subset, FS_CardinalityType DEF AreDecisions, Proposed
<1>5. /\ Funds(p) \in FundsOf(p) /\ Funds(p).cash \in Int /\ Funds(p).remaining \in Int
      /\ \A group \in Groups : Funds(p).room[group] \in Int
      /\ \A i \in DOMAIN p.held : Funds(p).held[i] = p.held[i].value /\ p.held[i].value \in Nat
  BY FundsAre DEF FundsOf, IsPortfolio
<1>6. Booked(so, p)
  <2>1. 0 * (100 + Policy.bufferPct) = 0
    BY PolicyAssumption
  <2>2. QED
    BY <1>1, <1>3, <1>5, <2>1 DEF Booked
<1>7. Turn(so, decisions, p, 0)
  BY <1>1, <1>2, <1>4, <1>5, <1>6 DEF Turn
<1>8. QED
  BY <1>7 DEF so

(* What a decision is given there is.                                      *)
Gets(d, funds, p, amount) ==
  /\ amount \in Nat
  /\ amount > 0 => /\ ~Blocked(p) /\ d.instrument \in DOMAIN Policy.groups
                   /\ d.action # "buy" => /\ d.instrument \in DOMAIN p.held
                                          /\ amount <= funds.held[d.instrument]
                   /\ d.action = "buy" =>
                        /\ amount * (100 + Policy.bufferPct) <= funds.cash
                        /\ amount <= funds.remaining
                        /\ amount <= funds.room[Policy.groups[d.instrument]]

LEMMA AmountIs ==
  ASSUME NEW p, NEW funds \in FundsOf(p), NEW d, IsDecision(d), NEW amount,
         amount = Amount(d, funds, Blocked(p))
  PROVE  Gets(d, funds, p, amount)
<1>1. CASE Blocked(p) \/ d.instrument \notin DOMAIN Policy.groups
  BY <1>1 DEF Amount, Gets
<1>2. CASE ~Blocked(p) /\ d.instrument \in DOMAIN Policy.groups /\ d.action = "buy"
  <2>1. amount = BuyAmount(d, funds)
    BY <1>2 DEF Amount
  <2>2. QED
    BY <1>2, <2>1, BuyIs DEF Gets, IsDecision
<1>3. CASE ~Blocked(p) /\ d.instrument \in DOMAIN Policy.groups /\ d.action # "buy"
  <2>1. amount = SellAmount(d, funds)
    BY <1>3 DEF Amount
  <2>2. QED
    BY <1>3, <2>1, SellIs DEF Gets, IsDecision
<1>4. QED
  BY <1>1, <1>2, <1>3

LEMMA SpendOnBuy ==
  ASSUME NEW p, NEW funds \in FundsOf(p), NEW d, NEW amount \in Nat, amount > 0,
         Gets(d, funds, p, amount), d.action = "buy", NEW rest, rest = Spend(funds, d, amount)
  PROVE  /\ rest \in FundsOf(p)
         /\ rest.cash = funds.cash - amount * (100 + Policy.bufferPct)
         /\ rest.remaining = funds.remaining - amount
         /\ rest.held = funds.held
         /\ Policy.groups[d.instrument] \in Groups
         /\ rest.room[Policy.groups[d.instrument]] = funds.room[Policy.groups[d.instrument]] - amount
         /\ \A group \in Groups \ {Policy.groups[d.instrument]} : rest.room[group] = funds.room[group]
<1> DEFINE cost == amount * (100 + Policy.bufferPct)
           mine == Policy.groups[d.instrument]
<1>1. /\ funds.cash \in Nat /\ funds.remaining \in Nat /\ funds.room \in [Groups -> Int]
      /\ funds.held \in [DOMAIN p.held -> Nat] /\ DOMAIN funds = {"cash", "remaining", "room", "held"}
  BY DEF FundsOf
<1>2. cost \in Nat
  BY PolicyAssumption
<1>3. cost <= funds.cash /\ amount <= funds.remaining /\ mine \in Groups
  BY DEF Gets, Groups
<1>4. rest = [funds EXCEPT !.cash = @ - cost, !.remaining = @ - amount,
                           !.room = [funds.room EXCEPT ![mine] = @ - amount]]
  BY <1>1 DEF Spend
<1> HIDE DEF cost, mine
<1>5. /\ DOMAIN rest = {"cash", "remaining", "room", "held"}
      /\ rest.cash = funds.cash - cost /\ rest.remaining = funds.remaining - amount
      /\ rest.held = funds.held /\ rest.room = [funds.room EXCEPT ![mine] = @ - amount]
  BY <1>1, <1>4
<1>6. rest.cash \in Nat /\ rest.remaining \in Nat
  BY <1>1, <1>2, <1>3, <1>5
<1>7. /\ rest.room \in [Groups -> Int] /\ rest.room[mine] = funds.room[mine] - amount
      /\ \A group \in Groups \ {mine} : rest.room[group] = funds.room[group]
  BY <1>1, <1>3, <1>5
<1>8. rest = [cash |-> rest.cash, remaining |-> rest.remaining, room |-> rest.room, held |-> rest.held]
  BY <1>1, <1>4
<1>9. rest \in FundsOf(p)
  BY <1>1, <1>5, <1>6, <1>7, <1>8 DEF FundsOf
<1>10. QED
  BY <1>3, <1>5, <1>7, <1>9 DEF cost, mine

LEMMA SpendOnSale ==
  ASSUME NEW p, NEW funds \in FundsOf(p), NEW d, NEW amount \in Nat, amount > 0,
         Gets(d, funds, p, amount), d.action # "buy", NEW rest, rest = Spend(funds, d, amount)
  PROVE  /\ rest \in FundsOf(p) /\ rest.cash = funds.cash /\ rest.remaining = funds.remaining
         /\ rest.room = funds.room
         /\ \A i \in DOMAIN p.held : rest.held[i] <= funds.held[i]
<1> DEFINE i == d.instrument
<1>1. /\ funds.cash \in Nat /\ funds.remaining \in Nat /\ funds.room \in [Groups -> Int]
      /\ funds.held \in [DOMAIN p.held -> Nat] /\ DOMAIN funds = {"cash", "remaining", "room", "held"}
  BY DEF FundsOf
<1>2. i \in DOMAIN p.held /\ amount <= funds.held[i]
  BY DEF Gets
<1>3. rest = [funds EXCEPT !.held = [funds.held EXCEPT ![i] = @ - amount]]
  BY <1>1, <1>2 DEF Spend
<1> HIDE DEF i
<1>4. /\ DOMAIN rest = {"cash", "remaining", "room", "held"}
      /\ rest.cash = funds.cash /\ rest.remaining = funds.remaining
      /\ rest.room = funds.room /\ rest.held = [funds.held EXCEPT ![i] = @ - amount]
  BY <1>1, <1>3
<1>5. rest.held \in [DOMAIN p.held -> Nat] /\ \A k \in DOMAIN p.held : rest.held[k] <= funds.held[k]
  BY <1>1, <1>2, <1>4
<1>6. rest = [cash |-> rest.cash, remaining |-> rest.remaining, room |-> rest.room, held |-> rest.held]
  BY <1>1, <1>3
<1>7. rest \in FundsOf(p)
  BY <1>1, <1>4, <1>5, <1>6 DEF FundsOf
<1>8. QED
  BY <1>4, <1>5, <1>7

-----------------------------------------------------------------------------
(* The books of a division balance in every turn.                          *)
LEMMA GivingIs ==
  ASSUME NEW decisions, AreDecisions(decisions), NEW p, IsPortfolio(p), NEW k \in Proposed(decisions),
         NEW funds \in FundsOf(p), \A i \in DOMAIN p.held : funds.held[i] <= p.held[i].value,
         NEW amount, Gets(decisions[k], funds, p, amount),
         NEW a, a = [instrument |-> decisions[k].instrument, action |-> decisions[k].action,
                     requested |-> decisions[k].amount, amount |-> amount]
  PROVE  a \in Givings /\ Grounded(a, decisions, p)
<1>1. IsDecision(decisions[k]) /\ RequiresOrder(decisions[k])
  BY DEF AreDecisions, Proposed
<1>2. a \in Givings
  BY <1>1 DEF IsDecision, RequiresOrder, Givings, Gets
<1>3. \A i \in DOMAIN p.held : funds.held[i] \in Nat /\ p.held[i].value \in Nat
  BY DEF FundsOf, IsPortfolio
<1>4. a.amount > 0 =>
        /\ ~Blocked(p) /\ a.instrument \in DOMAIN Policy.groups
        /\ a.action # "buy" => a.instrument \in DOMAIN p.held /\ a.amount <= p.held[a.instrument].value
  <2> SUFFICES ASSUME amount > 0
               PROVE  /\ ~Blocked(p) /\ decisions[k].instrument \in DOMAIN Policy.groups
                      /\ decisions[k].action # "buy" =>
                           /\ decisions[k].instrument \in DOMAIN p.held
                           /\ amount <= p.held[decisions[k].instrument].value
    OBVIOUS
  <2>1. amount \in Nat /\ ~Blocked(p) /\ decisions[k].instrument \in DOMAIN Policy.groups
    BY DEF Gets
  <2>2. ASSUME decisions[k].action # "buy"
        PROVE  /\ decisions[k].instrument \in DOMAIN p.held
               /\ amount <= p.held[decisions[k].instrument].value
    <3>1. PICK i : i = decisions[k].instrument
      OBVIOUS
    <3>2. i \in DOMAIN p.held /\ amount <= funds.held[i]
      BY <2>2, <3>1 DEF Gets
    <3>3. PICK x, y : x = funds.held[i] /\ y = p.held[i].value
      OBVIOUS
    <3>4. x \in Nat /\ y \in Nat /\ x <= y /\ amount <= x
      BY <1>3, <3>2, <3>3
    <3>5. QED
      BY <2>1, <3>1, <3>2, <3>3, <3>4
  <2>3. QED
    BY <2>1, <2>2
<1>5. QED
  BY <1>2, <1>4 DEF Grounded

(* A giving of nothing leaves the books as they were.                      *)
LEMMA NothingBooked ==
  ASSUME NEW p, NEW funds \in FundsOf(p), NEW given \in Seq(Givings), NEW a \in Givings, a.amount = 0,
         NEW so, so.funds = funds, so.given = given, Booked(so, p),
         NEW next, next.funds = funds, next.given = Append(given, a)
  PROVE  Booked(next, p)
<1>2. /\ Total(Bought(next.given)) = Total(Bought(given))
      /\ \A group : Total(BoughtIn(next.given, group)) = Total(BoughtIn(given, group))
  BY BoughtSame
<1>3. QED
  BY <1>2 DEF Booked

LEMMA SaleBooked ==
  ASSUME NEW p, IsPortfolio(p), NEW so, so.funds \in FundsOf(p), so.given \in Seq(Givings), NEW a \in Givings,
         a.action # "buy", Booked(so, p),
         NEW next, next.given = Append(so.given, a), next.funds \in FundsOf(p),
         next.funds.cash = so.funds.cash, next.funds.remaining = so.funds.remaining,
         next.funds.room = so.funds.room, \A i \in DOMAIN p.held : next.funds.held[i] <= so.funds.held[i]
  PROVE  Booked(next, p)
<1>2. /\ Total(Bought(next.given)) = Total(Bought(so.given))
      /\ \A group : Total(BoughtIn(next.given, group)) = Total(BoughtIn(so.given, group))
  BY BoughtSame DEF Buys
<1>3. \A i \in DOMAIN p.held : next.funds.held[i] <= p.held[i].value
  <2> SUFFICES ASSUME NEW i \in DOMAIN p.held PROVE next.funds.held[i] <= p.held[i].value
    OBVIOUS
  <2>1. PICK x, y, z : x = next.funds.held[i] /\ y = so.funds.held[i] /\ z = p.held[i].value
    OBVIOUS
  <2>2. x \in Nat /\ y \in Nat /\ z \in Nat
    BY <2>1 DEF FundsOf, IsPortfolio
  <2>3. x <= y /\ y <= z
    BY <2>1 DEF Booked
  <2>4. QED
    BY <2>1, <2>2, <2>3
<1>4. QED
  BY <1>2, <1>3 DEF Booked

LEMMA BuyBooked ==
  ASSUME NEW p, IsPortfolio(p), NEW so, so.funds \in FundsOf(p), so.given \in Seq(Givings), NEW a \in Givings,
         a.action = "buy", Booked(so, p),
         a.amount > 0, a.instrument \in DOMAIN Policy.groups,
         NEW mine, mine = Policy.groups[a.instrument], mine \in Groups, a.amount <= so.funds.room[mine],
         NEW next, next.given = Append(so.given, a), next.funds \in FundsOf(p),
         next.funds.cash = so.funds.cash - a.amount * (100 + Policy.bufferPct),
         next.funds.remaining = so.funds.remaining - a.amount,
         next.funds.room[mine] = so.funds.room[mine] - a.amount,
         \A group \in Groups \ {mine} : next.funds.room[group] = so.funds.room[group],
         next.funds.held = so.funds.held
  PROVE  Booked(next, p)
<1>1. Total(Bought(so.given)) \in Nat /\ \A group : Total(BoughtIn(so.given, group)) \in Nat
  BY BoughtIs
<1>2. /\ Total(Bought(next.given)) = Total(Bought(so.given)) + a.amount
      /\ Total(BoughtIn(next.given, mine)) = Total(BoughtIn(so.given, mine)) + a.amount
  <2>1. Buys(a) /\ InGroup(a, mine)
    BY DEF Buys, InGroup
  <2>2. QED
    BY ONLY so.given \in Seq(Givings), a \in Givings, next.given = Append(so.given, a), <2>1, BoughtMore
<1>3. \A group \in Groups \ {mine} : Total(BoughtIn(next.given, group)) = Total(BoughtIn(so.given, group))
  <2> SUFFICES ASSUME NEW group \in Groups \ {mine}
               PROVE  Total(BoughtIn(next.given, group)) = Total(BoughtIn(so.given, group))
    OBVIOUS
  <2>1. ~InGroup(a, group)
    BY DEF InGroup
  <2>2. PICK more, given : more = next.given /\ given = so.given
    OBVIOUS
  <2>3. given \in Seq(Givings) /\ more = Append(given, a)
    BY <2>2
  <2>4. Total(BoughtIn(more, group)) = Total(BoughtIn(given, group))
    <3>1. a \in Givings
      OBVIOUS
    <3>2. QED
      BY ONLY <2>1, <2>3, <3>1, BoughtElsewhere
  <2>5. QED
    BY <2>2, <2>4
<1>4. next.funds.cash + Total(Bought(next.given)) * (100 + Policy.bufferPct) = Funds(p).cash
  <2>1. PICK m, t, f, c : /\ m = a.amount /\ t = Total(Bought(so.given))
                          /\ f = 100 + Policy.bufferPct /\ c = so.funds.cash
    OBVIOUS
  <2>2. m \in Nat /\ t \in Nat /\ f \in Nat /\ c \in Nat
    <3>1. m \in Nat /\ c \in Nat
      BY <2>1 DEF Givings, FundsOf
    <3>2. f \in Nat
      BY <2>1, PolicyAssumption
    <3>3. QED
      BY <1>1, <2>1, <3>1, <3>2
  <2>3. (c - m * f) + (t + m) * f = c + t * f
    <3>1. m * f \in Int /\ t * f \in Int /\ (t + m) * f = t * f + m * f
      BY <2>2
    <3>2. QED
      BY <2>2, <3>1
  <2>4. c + t * f = Funds(p).cash
    BY <2>1 DEF Booked
  <2>5. QED
    BY <1>2, <2>1, <2>3, <2>4
<1>5. next.funds.remaining + Total(Bought(next.given)) = Funds(p).remaining
  <2>1. PICK m, t, r : m = a.amount /\ t = Total(Bought(so.given)) /\ r = so.funds.remaining
    OBVIOUS
  <2>2. m \in Nat /\ t \in Nat /\ r \in Nat
    BY <1>1, <2>1 DEF Givings, FundsOf
  <2>3. r + t = Funds(p).remaining
    BY <2>1 DEF Booked
  <2>4. QED
    BY <1>2, <2>1, <2>2, <2>3
<1>6. ASSUME NEW group \in Groups
      PROVE  /\ next.funds.room[group] + Total(BoughtIn(next.given, group)) = Funds(p).room[group]
             /\ Total(BoughtIn(next.given, group)) = 0 \/ next.funds.room[group] >= 0
  <2>1. PICK t, r : t = Total(BoughtIn(so.given, group)) /\ r = so.funds.room[group]
    OBVIOUS
  <2>2. t \in Nat /\ r \in Int /\ a.amount \in Nat
    BY <1>1, <2>1 DEF Givings, FundsOf
  <2>3. r + t = Funds(p).room[group] /\ (t = 0 \/ r >= 0)
    BY <2>1 DEF Booked
  <2>4. CASE group = mine
    BY <1>2, <2>1, <2>2, <2>3, <2>4
  <2>5. CASE group # mine
    BY <1>3, <2>1, <2>3, <2>5
  <2>6. QED
    BY <2>4, <2>5
<1>7. \A i \in DOMAIN p.held : next.funds.held[i] <= p.held[i].value
  BY DEF Booked
<1>8. QED
  BY <1>4, <1>5, <1>6, <1>7 DEF Booked

LEMMA AllotKeeps ==
  ASSUME NEW decisions, AreDecisions(decisions), NEW p, IsPortfolio(p),
         NEW n \in Nat, n < Cardinality(Proposed(decisions)),
         NEW so, Turn(so, decisions, p, n), NEW next, next = Allot(so, decisions, Blocked(p))
  PROVE  Turn(next, decisions, p, n + 1)
<1>1. /\ so.left \subseteq Proposed(decisions) /\ so.funds \in FundsOf(p) /\ so.given \in Seq(Givings)
      /\ Len(so.given) = n /\ Cardinality(so.left) = Cardinality(Proposed(decisions)) - n
      /\ \A j \in DOMAIN so.given : Grounded(so.given[j], decisions, p)
      /\ Booked(so, p)
  BY DEF Turn
<1>2. /\ IsFiniteSet(Proposed(decisions)) /\ IsFiniteSet(so.left)
      /\ Cardinality(Proposed(decisions)) \in Nat
  BY <1>1, FS_Subset, FS_CardinalityType DEF AreDecisions, Proposed
<1>3. so.left # {}
  BY <1>1, <1>2, FS_EmptySet
<1>4. PICK k : k = Foremost(decisions, so.left)
  OBVIOUS
<1>5. k \in so.left /\ k \in Proposed(decisions) /\ IsDecision(decisions[k])
  BY <1>1, <1>2, <1>3, <1>4, ForemostIs DEF AreDecisions
<1>6. PICK d, amount, a : /\ d = decisions[k] /\ amount = Amount(d, so.funds, Blocked(p))
                          /\ a = [instrument |-> d.instrument, action |-> d.action,
                                  requested |-> d.amount, amount |-> amount]
  OBVIOUS
<1>7. /\ next.left = so.left \ {k} /\ next.given = Append(so.given, a)
      /\ next.funds = IF amount = 0 THEN so.funds ELSE Spend(so.funds, d, amount)
  BY <1>4, <1>6 DEF Allot
<1>8. Gets(d, so.funds, p, amount)
  BY <1>1, <1>5, <1>6, AmountIs
<1>9. \A i \in DOMAIN p.held : so.funds.held[i] <= p.held[i].value
  BY <1>1 DEF Booked
<1>10. a \in Givings /\ Grounded(a, decisions, p)
  BY <1>1, <1>5, <1>6, <1>8, <1>9, GivingIs
<1>11. amount \in Nat /\ a.amount = amount /\ a.action = d.action /\ a.instrument = d.instrument
  BY <1>6, <1>8 DEF Gets
<1>12. next.funds \in FundsOf(p) /\ Booked(next, p)
  <2>1. CASE amount = 0
    <3>1. next.funds = so.funds
      BY <1>7, <2>1
    <3>2. Booked(next, p)
      BY <1>1, <1>7, <1>10, <1>11, <2>1, <3>1, NothingBooked
    <3>3. QED
      BY <1>1, <3>1, <3>2
  <2>2. CASE amount > 0 /\ d.action = "buy"
    <3>1. next.funds = Spend(so.funds, d, amount)
      BY <1>7, <2>2
    <3>2. PICK mine : mine = Policy.groups[d.instrument]
      OBVIOUS
    <3>3. /\ next.funds \in FundsOf(p)
          /\ next.funds.cash = so.funds.cash - amount * (100 + Policy.bufferPct)
          /\ next.funds.remaining = so.funds.remaining - amount
          /\ next.funds.held = so.funds.held
          /\ mine \in Groups
          /\ next.funds.room[mine] = so.funds.room[mine] - amount
          /\ \A group \in Groups \ {mine} : next.funds.room[group] = so.funds.room[group]
      BY <1>1, <1>8, <1>11, <2>2, <3>1, <3>2, SpendOnBuy
    <3>4. d.instrument \in DOMAIN Policy.groups /\ amount <= so.funds.room[mine]
      BY <1>8, <2>2, <3>2 DEF Gets
    <3>5. /\ a.action = "buy" /\ a.amount > 0 /\ a.instrument \in DOMAIN Policy.groups
          /\ mine = Policy.groups[a.instrument] /\ a.amount <= so.funds.room[mine]
          /\ next.funds.cash = so.funds.cash - a.amount * (100 + Policy.bufferPct)
          /\ next.funds.remaining = so.funds.remaining - a.amount
          /\ next.funds.room[mine] = so.funds.room[mine] - a.amount
      BY <1>11, <2>2, <3>2, <3>3, <3>4
    <3>6. next.given = Append(so.given, a)
      BY <1>7
    <3>7. Booked(next, p)
      BY ONLY IsPortfolio(p), <1>1, <1>10, <3>3, <3>5, <3>6, BuyBooked
    <3>8. QED
      BY <3>3, <3>7
  <2>3. CASE amount > 0 /\ d.action # "buy"
    <3>1. next.funds = Spend(so.funds, d, amount)
      BY <1>7, <2>3
    <3>2. /\ next.funds \in FundsOf(p) /\ next.funds.cash = so.funds.cash
          /\ next.funds.remaining = so.funds.remaining /\ next.funds.room = so.funds.room
          /\ \A i \in DOMAIN p.held : next.funds.held[i] <= so.funds.held[i]
      BY <1>1, <1>8, <1>11, <2>3, <3>1, SpendOnSale
    <3>3. a.action # "buy" /\ next.given = Append(so.given, a)
      BY <1>7, <1>11, <2>3
    <3>4. Booked(next, p)
      BY <1>1, <1>10, <3>2, <3>3, SaleBooked
    <3>5. QED
      BY <3>2, <3>4
  <2>4. QED
    BY <1>11, <2>1, <2>2, <2>3
<1>13. Cardinality(next.left) = Cardinality(Proposed(decisions)) - (n + 1)
  <2>1. Cardinality(so.left \ {k}) = Cardinality(so.left) - 1
    BY <1>2, <1>5, FS_RemoveElement
  <2>2. QED
    BY <1>1, <1>2, <1>7, <2>1
<1>14. next.given \in Seq(Givings) /\ Len(next.given) = n + 1
       /\ \A j \in DOMAIN next.given : Grounded(next.given[j], decisions, p)
  <2>1. next.given \in Seq(Givings) /\ Len(next.given) = n + 1
    BY <1>1, <1>7, <1>10
  <2>2. \A j \in DOMAIN next.given : next.given[j] = a \/ (j \in DOMAIN so.given /\ next.given[j] = so.given[j])
    BY <1>1, <1>7, <1>10
  <2>3. QED
    BY <1>1, <1>10, <2>1, <2>2
<1>15. next.left \subseteq Proposed(decisions)
  BY <1>1, <1>7
<1>16. QED
  BY <1>12, <1>13, <1>14, <1>15 DEF Turn

LEMMA AllottedInTurnIs ==
  ASSUME NEW decisions, NEW p, NEW N \in Nat, N = Cardinality(Proposed(decisions))
  PROVE  LET f == AllottedInTurn(decisions, p)
         IN  /\ f[0] = [left |-> Proposed(decisions), funds |-> Funds(p), given |-> <<>>]
             /\ \A n \in 1..N : f[n] = Allot(f[n - 1], decisions, Blocked(p))
<1> DEFINE Start == [left |-> Proposed(decisions), funds |-> Funds(p), given |-> <<>>]
           Is(f, k) ==
             f = [n \in 0..k |-> IF n = 0 THEN Start ELSE Allot(f[n - 1], decisions, Blocked(p))]
           T == {k \in 0..N : ~\E f : Is(f, k)}
<1> HIDE DEF Start
<1>1. T = {}
  <2>1. SUFFICES ASSUME T # {} PROVE FALSE
    OBVIOUS
  <2>2. PICK k \in T : \A y \in T : k <= y
    <3> HIDE DEF Is
    <3>1. T \in SUBSET Nat
      OBVIOUS
    <3>2. QED
      BY <2>1, <3>1, LeastExists
  <2>3. CASE k = 0
    <3> DEFINE g == [n \in 0..0 |-> Start]
    <3>1. Is(g, 0)
      OBVIOUS
    <3>2. QED
      BY <2>2, <2>3, <3>1
  <2>4. CASE k # 0
    <3>1. k - 1 \in 0..N /\ k - 1 \notin T
      <4> HIDE DEF Is
      <4>1. QED
        BY <2>2, <2>4
    <3>2. PICK f : Is(f, k - 1)
      BY <3>1
    <3> DEFINE g == [n \in 0..k |-> IF n = k THEN Allot(f[k - 1], decisions, Blocked(p)) ELSE f[n]]
    <3>3. Is(g, k)
      BY <2>4, <3>2
    <3>4. QED
      BY <2>2, <3>3
  <2>5. QED
    BY <2>3, <2>4
<1>2. \E f : Is(f, N)
  BY <1>1
<1>3. Is(AllottedInTurn(decisions, p), N)
  BY <1>2 DEF AllottedInTurn, Blocked, Start
<1>4. QED
  BY <1>3 DEF Start

(* The whole division, by least counterexample on the number of turns.     *)
LEMMA AllocateIs ==
  ASSUME NEW decisions, AreDecisions(decisions), NEW p, IsPortfolio(p)
  PROVE  \E so : /\ Turn(so, decisions, p, Cardinality(Proposed(decisions)))
                 /\ Allocate(decisions, p) = so.given
<1> DEFINE N == Cardinality(Proposed(decisions))
           Start == [left |-> Proposed(decisions), funds |-> Funds(p), given |-> <<>>]
           after == AllottedInTurn(decisions, p)
<1>1. N \in Nat
  BY FS_Subset, FS_CardinalityType DEF AreDecisions, Proposed
<1>2. after[0] = Start /\ \A n \in 1..N : after[n] = Allot(after[n - 1], decisions, Blocked(p))
  BY <1>1, AllottedInTurnIs
<1> HIDE DEF after
<1>3. Turn(after[0], decisions, p, 0)
  BY <1>2, TurnBegins
<1> HIDE DEF Start, N
<1>4. \A n \in 0..N : Turn(after[n], decisions, p, n)
  <2> DEFINE bad == {n \in 0..N : ~Turn(after[n], decisions, p, n)}
  <2> SUFFICES ASSUME bad # {} PROVE FALSE
    OBVIOUS
  <2>1. PICK m \in bad : \A y \in bad : m <= y
    <3>1. bad \in SUBSET Nat
      BY <1>1
    <3> HIDE DEF bad
    <3>2. QED
      BY <3>1, LeastExists
  <2>2. m \in 1..N /\ m - 1 \in 0..N /\ m - 1 \in Nat /\ m - 1 < N /\ (m - 1) + 1 = m
    BY <1>1, <1>3, <2>1
  <2>3. PICK k : k = m - 1
    OBVIOUS
  <2>4. Turn(after[k], decisions, p, k)
    BY <2>1, <2>2, <2>3
  <2>5. PICK next : next = Allot(after[k], decisions, Blocked(p))
    OBVIOUS
  <2>6. Turn(next, decisions, p, k + 1)
    BY <2>2, <2>3, <2>4, <2>5, AllotKeeps DEF N
  <2>7. after[m] = next
    BY <1>2, <2>2, <2>3, <2>5
  <2>8. QED
    BY <2>1, <2>2, <2>3, <2>6, <2>7
<1>5. N \in 0..N
  BY <1>1
<1>6. Allocate(decisions, p) = after[N].given
  BY DEF Allocate, after, N
<1>7. QED
  BY <1>4, <1>5, <1>6 DEF N

-----------------------------------------------------------------------------
(* What a whole division hands out.                                        *)
(* A set of givings is worth no more than the givings themselves, of which two may be alike. *)
LEMMA WorthOfGivings ==
  ASSUME NEW given \in Seq(Givings), NEW S \in SUBSET Range(given), NEW f \in [DOMAIN given -> Nat],
         \A j \in DOMAIN given : given[j] \in S => given[j].amount <= f[j]
  PROVE  Worth(S) \in Nat /\ Worth(S) <= Total(f)
<1> DEFINE g == [a \in S |-> a.amount]
           h == [a \in S |-> CHOOSE j \in DOMAIN given : given[j] = a]
<1>1. /\ IsFiniteSet(DOMAIN given) /\ \A j \in DOMAIN given : given[j] \in Givings
  BY BoughtIs
<1>2. \A a \in S : \E j \in DOMAIN given : given[j] = a
  BY DEF Range
<1>3. \A a \in S : h[a] \in DOMAIN given /\ given[h[a]] = a
  BY <1>2
<1>4. g \in [S -> Nat]
  BY <1>1, <1>2 DEF Givings
<1>5. IsFiniteSet(S)
  <2> DEFINE r == [j \in DOMAIN given |-> given[j]]
  <2>1. r \in Surjection(DOMAIN given, Range(given))
    BY DEF Surjection, Range
  <2>2. IsFiniteSet(Range(given))
    BY <1>1, <2>1, FS_Surjection
  <2>3. QED
    BY <2>2, FS_Subset
<1>6. \A a \in S : g[a] <= f[h[a]]
  <2> SUFFICES ASSUME NEW a \in S PROVE g[a] <= f[h[a]]
    OBVIOUS
  <2>1. PICK j : j = h[a]
    OBVIOUS
  <2>2. j \in DOMAIN given /\ given[j] = a
    BY <1>3, <2>1
  <2>3. a.amount <= f[j]
    BY <2>2
  <2>4. QED
    BY <2>1, <2>3
<1>7. h \in [S -> DOMAIN given] /\ \A a, b \in S : h[a] = h[b] => a = b
  BY <1>3
<1>8. Worth(S) = Total(g)
  BY DEF Worth
<1> HIDE DEF g, h
<1>9. Total(g) <= Total(f)
  <2>1. PICK T : T = DOMAIN given
    OBVIOUS
  <2>2. IsFiniteSet(T) /\ f \in [T -> Nat] /\ h \in [S -> T]
    BY <1>1, <1>7, <2>1
  <2>3. QED
    BY <1>4, <1>6, <1>7, <2>2, TotalInjection
<1>10. Total(g) \in Nat
  BY <1>4, <1>5, UnitsFinite
<1>11. QED
  BY <1>8, <1>9, <1>10

PaidOf(allocations) == {a \in Range(allocations) : a.amount > 0}

LEMMA PaidIs ==
  ASSUME NEW decisions, AreDecisions(decisions), NEW p, IsPortfolio(p),
         NEW so, Turn(so, decisions, p, Cardinality(Proposed(decisions))),
         NEW a \in PaidOf(so.given)
  PROVE  /\ a \in Givings /\ Grounded(a, decisions, p) /\ ~Blocked(p)
         /\ a.instrument \in DOMAIN Policy.groups
         /\ a.action # "buy" =>
              a.instrument \in DOMAIN p.held /\ a.amount <= p.held[a.instrument].value
<1>1. PICK j \in DOMAIN so.given : so.given[j] = a /\ a.amount > 0
  BY DEF PaidOf, Range
<1>2. a \in Givings /\ Grounded(a, decisions, p)
  BY <1>1 DEF Turn
<1>3. QED
  BY <1>1, <1>2 DEF Grounded

(* What a portfolio is asked for by the whole division is there.           *)
LEMMA DivisionIsAffordable ==
  ASSUME NEW decisions, AreDecisions(decisions), NEW p, IsPortfolio(p)
  PROVE  Affordable(p, PaidOf(Allocate(decisions, p)))
<1>1. PICK so : /\ Turn(so, decisions, p, Cardinality(Proposed(decisions)))
                /\ Allocate(decisions, p) = so.given
  BY AllocateIs
<1> DEFINE paid == PaidOf(so.given)
           buys == {a \in paid : a.action = "buy"}
           factor == 100 + Policy.bufferPct
<1>2. so.given \in Seq(Givings) /\ so.funds \in FundsOf(p) /\ Booked(so, p)
  BY <1>1 DEF Turn
<1>3. \A a \in paid : /\ a \in Givings /\ a.amount > 0 /\ ~Blocked(p)
                      /\ a.instrument \in DOMAIN Policy.groups
                      /\ a.action # "buy" =>
                           a.instrument \in DOMAIN p.held /\ a.amount <= p.held[a.instrument].value
  BY <1>1, PaidIs DEF PaidOf
<1>4. buys \in SUBSET Range(so.given)
  BY DEF PaidOf
<1> HIDE DEF paid
<1>5. /\ Bought(so.given) \in [DOMAIN so.given -> Nat] /\ Total(Bought(so.given)) \in Nat
      /\ \A group : /\ BoughtIn(so.given, group) \in [DOMAIN so.given -> Nat]
                    /\ Total(BoughtIn(so.given, group)) \in Nat
  BY <1>2, BoughtIs
<1>6. Worth(buys) \in Nat /\ Worth(buys) <= Total(Bought(so.given))
  <2>1. \A j \in DOMAIN so.given : so.given[j] \in buys => so.given[j].amount <= Bought(so.given)[j]
    BY <1>2, <1>3 DEF Bought, Buys, Givings
  <2> HIDE DEF buys
  <2>2. PICK given, f : given = so.given /\ f = Bought(so.given)
    OBVIOUS
  <2>3. Worth(buys) \in Nat /\ Worth(buys) <= Total(f)
    BY <1>2, <1>4, <1>5, <2>1, <2>2, WorthOfGivings
  <2>4. QED
    BY <2>2, <2>3
<1>7. PICK w, t : w = Worth(buys) /\ t = Total(Bought(so.given))
  OBVIOUS
<1>8. w \in Nat /\ t \in Nat /\ w <= t
  BY <1>5, <1>6, <1>7
<1>9. w * factor <= p.available * 100
  <2>1. so.funds.cash + t * factor = p.available * 100 /\ so.funds.cash \in Nat
    BY <1>2, <1>7, FundsAre DEF Booked, FundsOf
  <2>2. factor \in Nat
    BY PolicyAssumption
  <2>3. p.available \in Nat
    BY DEF IsPortfolio
  <2> HIDE DEF factor
  <2>4. w * factor <= t * factor /\ w * factor \in Int /\ t * factor \in Int
    BY <1>8, <2>2
  <2>5. QED
    BY <2>1, <2>3, <2>4
<1>10. w * 100 <= p.equity * Policy.newPct
  <2>1. so.funds.remaining + t = Funds(p).remaining /\ so.funds.remaining \in Nat
    BY <1>2, <1>7 DEF Booked, FundsOf
  <2>2. Funds(p).remaining \in Nat /\ Funds(p).remaining * 100 <= p.equity * Policy.newPct
    BY FundsAre DEF FundsOf
  <2>3. p.equity * Policy.newPct \in Int
    BY PolicyAssumption DEF IsPortfolio
  <2>4. QED
    BY <1>8, <2>1, <2>2, <2>3
<1>11. ASSUME NEW a \in buys, NEW group, group = Policy.groups[a.instrument]
       PROVE  100 * (Worth({b \in buys : Policy.groups[b.instrument] = group}) + Value(p, HeldIn(p, group)))
                <= p.equity * Policy.groupPct
  <2> DEFINE S == {b \in buys : Policy.groups[b.instrument] = group}
             f == BoughtIn(so.given, group)
  <2>1. \A b \in buys : InGroup(b, group) <=> b \in S
    BY <1>3 DEF InGroup
  <2>2. \A j \in DOMAIN so.given : so.given[j] \in S => so.given[j].amount <= f[j]
    <3> SUFFICES ASSUME NEW j \in DOMAIN so.given, so.given[j] \in S
                 PROVE  so.given[j].amount <= f[j]
      OBVIOUS
    <3>1. so.given[j] \in buys /\ InGroup(so.given[j], group) /\ so.given[j].action = "buy"
      BY <2>1
    <3>2. f[j] = so.given[j].amount
      BY <3>1 DEF BoughtIn, Buys
    <3>3. so.given[j].amount \in Nat
      BY <1>3, <3>1 DEF Givings
    <3>4. QED
      BY <3>2, <3>3
  <2>3. S \in SUBSET Range(so.given) /\ a \in S
    BY <1>4, <1>11
  <2>4. group \in Groups
    BY <1>3, <1>11 DEF Groups
  <2>5. PICK j \in DOMAIN so.given : so.given[j] = a
    BY <2>3 DEF Range
  <2>6. f \in [DOMAIN so.given -> Nat] /\ IsFiniteSet(DOMAIN so.given)
    BY <1>2, BoughtIs
  <2> HIDE DEF S, f, buys
  <2>7. Worth(S) \in Nat /\ Worth(S) <= Total(f)
    <3>1. PICK given : given = so.given
      OBVIOUS
    <3>2. QED
      BY <1>2, <2>2, <2>3, <2>6, <3>1, WorthOfGivings
  <2>8. Total(f) # 0 /\ Total(f) \in Nat
    <3>1. PICK D : D = DOMAIN so.given
      OBVIOUS
    <3>2. f[j] <= Total(f)
      BY <2>5, <2>6, <3>1, TotalPart
    <3>3. f[j] \in Nat /\ a.amount <= f[j] /\ a.amount > 0 /\ a.amount \in Nat
      BY <1>3, <1>11, <2>2, <2>3, <2>5, <2>6 DEF Givings, buys
    <3>4. Total(f) \in Nat
      BY <1>5 DEF f
    <3>5. QED
      BY <3>2, <3>3, <3>4
  <2>9. PICK x, y, v, r, e : /\ x = Worth(S) /\ y = Total(f) /\ v = Value(p, HeldIn(p, group))
                             /\ r = Funds(p).room[group] /\ e = p.equity * Policy.groupPct
    OBVIOUS
  <2>10. so.funds.room[group] + y = r /\ so.funds.room[group] >= 0
    BY <1>2, <2>4, <2>8, <2>9 DEF Booked, f
  <2>11. so.funds.room[group] \in Int
    BY <1>2, <2>4 DEF FundsOf
  <2>12. v \in Nat /\ r \in Int /\ (r + v) * 100 <= e
    BY <2>4, <2>9, FundsAre
  <2>13. e \in Int
    BY <2>9, PolicyAssumption DEF IsPortfolio
  <2>14. x \in Nat /\ y \in Nat /\ x <= y
    BY <2>7, <2>8, <2>9
  <2>15. 100 * (x + v) <= e
    BY <2>10, <2>11, <2>12, <2>13, <2>14
  <2>16. QED
    BY <2>9, <2>15 DEF S
<1>12. p.pending > 0 \/ p.reconciled = Unknown => Blocked(p)
  <2>1. ASSUME p.pending > 0 PROVE "pending_orders" \in PortfolioReasons(p)
    BY <2>1 DEF PortfolioReasons
  <2>2. ASSUME p.reconciled = Unknown PROVE "unknown_portfolio" \in PortfolioReasons(p)
    BY <2>2 DEF PortfolioReasons
  <2>3. QED
    BY <2>1, <2>2 DEF Blocked
<1>13. p.pending > 0 \/ p.reconciled = Unknown => paid = {}
  BY <1>3, <1>12
<1>14. \A a \in paid \ buys : a.instrument \in DOMAIN p.held /\ a.amount <= p.held[a.instrument].value
  BY <1>3
<1>15. \A a \in buys :
         100 * (Worth({b \in buys : Policy.groups[b.instrument] = Policy.groups[a.instrument]})
                  + Value(p, HeldIn(p, Policy.groups[a.instrument])))
           <= p.equity * Policy.groupPct
  BY <1>11
<1>16. Affordable(p, paid)
  BY <1>7, <1>9, <1>10, <1>13, <1>14, <1>15 DEF Affordable
<1>17. QED
  BY <1>1, <1>16 DEF paid

-----------------------------------------------------------------------------
(* What the checks of a request, of a proposal and of a candidate leave.   *)
RequestIsFit(request) ==
  /\ IsPortfolio(request.portfolio)
  /\ \A e \in request.evidence : e.ingested \in Int /\ e.ingested <= request.asOf

LEMMA ValidIsFit ==
  ASSUME NEW request, NEW version, NEW now, IsRequest(request),
         InputReason(request, version, now) = NoReason
  PROVE  RequestIsFit(request)
<1> DEFINE p == request.portfolio
           positions == {p.held[i] : i \in DOMAIN p.held}
           valued == \A position \in positions : position.quantity >= 0 /\ position.value # Unknown
           b1 == request.asOf > now
           b2 == p.workspace # version.workspace
           b3 == p.mode # version.mode
           b4 == p.currency # "USD"
           b5 == ~valued
           b6 == \E position \in positions : position.opened > request.asOf
           b7 == valued /\ p.equity # p.cash + Exposure(p)
           b8 == request.horizon \notin version.horizons
           b9 == p.asOf > request.asOf
           b10 == request.asOf - p.asOf > Policy.portfolioAge
           b11 == now - request.asOf > Policy.snapshotAge
           b12 == p.reconciled # Unknown /\ p.reconciled > request.asOf
           b13 == p.reconciled = Unknown
           b14 == now - p.reconciled > Policy.portfolioAge
           b15 == ~request.intact
           b16 == request.featureSet # version.featureSet
           b17 == request.cited # {e.id : e \in request.evidence}
           b18 == \E e \in request.evidence : e.ingested > request.asOf \/ e.observed > request.asOf
           b19 == ~request.healthy
           checks ==
             << <<b1, "future_snapshot">>, <<b2, "workspace_mismatch">>, <<b3, "mode_mismatch">>,
                <<b4, "unsupported_valuation_currency">>, <<b5, "unknown_position_valuation">>,
                <<b6, "future_position">>, <<b7, "inconsistent_portfolio">>,
                <<b8, "unsupported_horizon">>, <<b9, "future_portfolio">>, <<b10, "stale_portfolio">>,
                <<b11, "stale_snapshot">>, <<b12, "future_reconciliation">>,
                <<b13, "unknown_portfolio">>, <<b14, "stale_reconciliation">>,
                <<b15, "snapshot_hash_mismatch">>, <<b16, "feature_version_mismatch">>,
                <<b17, "evidence_snapshot_mismatch">>, <<b18, "future_evidence">>,
                <<b19, "unhealthy_snapshot">> >>
<1>1. FirstReason(checks) = NoReason
  BY DEF InputReason
<1> HIDE DEF b1, b2, b3, b4, b5, b6, b7, b8, b9, b10, b11, b12, b13, b14, b15, b16, b17, b18, b19
<1>2. DOMAIN checks = 1..19
  OBVIOUS
<1>3. \A i \in 1..19 : checks[i][2] # NoReason
  BY DEF NoReason
<1>4. checks[5][1] = b5 /\ checks[7][1] = b7 /\ checks[18][1] = b18
  OBVIOUS
<1> HIDE DEF checks
<1>5. \A i \in DOMAIN checks : ~checks[i][1]
  BY <1>1, <1>2, <1>3, NoReasonMeansNone
<1>6. 5 \in DOMAIN checks /\ 7 \in DOMAIN checks /\ 18 \in DOMAIN checks
  BY <1>2
<1>7. ~b5 /\ ~b7 /\ ~b18
  BY <1>4, <1>5, <1>6
<1>8. /\ p.cash \in Nat /\ p.available \in Nat /\ IsFiniteSet(DOMAIN p.held) /\ request.asOf \in Int
      /\ \A i \in DOMAIN p.held :
           p.held[i].quantity >= 0 => p.held[i].value \in Nat \cup {Unknown}
      /\ \A e \in request.evidence : e.ingested \in Int
  BY DEF IsRequest
<1>9. \A i \in DOMAIN p.held : p.held[i].value \in Nat
  BY <1>7, <1>8 DEF b5
<1>10. Exposure(p) \in Nat
  <2> DEFINE f == [i \in DOMAIN p.held |-> p.held[i].value]
  <2>1. f \in [DOMAIN p.held -> Nat]
    BY <1>9
  <2>2. Exposure(p) = Total(f)
    BY DEF Exposure, Value
  <2> HIDE DEF f
  <2>3. QED
    BY <1>8, <2>1, <2>2, UnitsFinite
<1>11. p.equity = p.cash + Exposure(p)
  BY <1>7 DEF b5, b7
<1>12. IsPortfolio(p)
  BY <1>8, <1>9, <1>10, <1>11 DEF IsPortfolio
<1>13. \A e \in request.evidence : e.ingested <= request.asOf
  BY <1>7, <1>8 DEF b18
<1>14. QED
  BY <1>8, <1>12, <1>13 DEF RequestIsFit

LEMMA AcceptedProposal ==
  ASSUME NEW proposal, IsProposal(proposal), RequiresOrder(proposal), NEW evidence, NEW request,
         NEW version, version.minEvidence \in Nat,
         ProposalReason(proposal, evidence, request, version) = NoReason
  PROVE  /\ proposal.for \cup proposal.against \subseteq {e.id : e \in evidence}
         /\ Cardinality(proposal.for \cup proposal.against) >= version.minEvidence
         /\ proposal.for # {}
         /\ version.contradiction => proposal.against # {}
<1> DEFINE known == {e.id : e \in evidence}
           cited == proposal.for \cup proposal.against
           b1 == ~(cited \subseteq known) \/ proposal.for \cap proposal.against # {}
           b2 == proposal.horizon # request.horizon
           b3 == RequiresOrder(proposal) /\ (Cardinality(cited) < version.minEvidence \/ proposal.for = {})
           b4 == RequiresOrder(proposal) /\ version.contradiction /\ proposal.against = {}
           b5 == RequiresOrder(proposal) /\ proposal.cost < 0
           checks == << <<b1, "unsupported_evidence_reference">>, <<b2, "horizon_mismatch">>,
                        <<b3, "insufficient_supported_evidence">>,
                        <<b4, "missing_contradicting_evidence">>, <<b5, "unknown_estimated_cost">> >>
<1>1. FirstReason(checks) = NoReason
  BY DEF ProposalReason
<1> HIDE DEF b1, b2, b3, b4, b5
<1>2. DOMAIN checks = 1..5
  OBVIOUS
<1>3. \A i \in 1..5 : checks[i][2] # NoReason
  BY DEF NoReason
<1>4. checks[1][1] = b1 /\ checks[3][1] = b3 /\ checks[4][1] = b4
  OBVIOUS
<1> HIDE DEF checks
<1>5. \A i \in DOMAIN checks : ~checks[i][1]
  BY <1>1, <1>2, <1>3, NoReasonMeansNone
<1>6. ~b1 /\ ~b3 /\ ~b4
  BY <1>2, <1>4, <1>5
<1>7. Cardinality(cited) \in Nat
  <2>1. IsFiniteSet(cited)
    BY FS_Union DEF IsProposal
  <2>2. QED
    BY <2>1, FS_CardinalityType
<1>8. cited \subseteq known /\ ~(Cardinality(cited) < version.minEvidence) /\ proposal.for # {}
      /\ (version.contradiction => proposal.against # {})
  BY <1>6 DEF b1, b3, b4
<1> HIDE DEF cited
<1>9. Cardinality(cited) >= version.minEvidence
  BY <1>7, <1>8
<1>10. QED
  BY <1>8, <1>9 DEF cited

NetworkIsKnown(c) ==
  VersionAt(c).network => Contexts(c) # {} /\ \A x \in Contexts(c) : x.health = "normal"

LEMMA NotWithheld ==
  ASSUME NEW c \in Callers, Withheld(c) = NoReason
  PROVE  NetworkIsKnown(c)
<1> DEFINE b1 == clock >= ExpiresAt(RequestAt(c))
           b2 == ~VersionAt(c).analyzer
           b3 == Cardinality(Evidence(c)) < VersionAt(c).minEvidence
           b4 == VersionAt(c).network /\ (Contexts(c) = {} \/ \E x \in Contexts(c) : x.health # "normal")
           checks == << <<b1, "candidate_expired">>, <<b2, "analyzer_disabled">>,
                        <<b3, "insufficient_evidence">>, <<b4, "unknown_network_context">> >>
<1>1. FirstReason(checks) = NoReason
  BY DEF Withheld
<1> HIDE DEF b1, b2, b3, b4
<1>2. DOMAIN checks = 1..4
  OBVIOUS
<1>3. \A i \in 1..4 : checks[i][2] # NoReason
  BY DEF NoReason
<1>4. checks[4][1] = b4
  OBVIOUS
<1> HIDE DEF checks
<1>5. \A i \in DOMAIN checks : ~checks[i][1]
  BY <1>1, <1>2, <1>3, NoReasonMeansNone
<1>6. ~b4
  BY <1>2, <1>4, <1>5
<1>7. QED
  BY <1>6 DEF b4, NetworkIsKnown

LEMMA SelectedIs ==
  ASSUME IInv, NEW c \in Callers, Claim(c)
  PROVE  Selected(c) \in Seq(Nat)
<1>1. /\ run[c].request \in Ids /\ RequestAt(c).version \in DOMAIN VersionOf
      /\ Remaining(c) \in Int /\ ~(Remaining(c) <= 0)
  <2>1. run[c].pc = "valid" /\ ClaimRefusal(c) = NoReason
    BY DEF Claim
  <2>2. run[c].request \in Ids /\ RequestAt(c).version \in DOMAIN VersionOf
    BY <2>1 DEF IInv, TypeOK, RunIs, Registered
  <2>3. Remaining(c) \in Int
    BY <2>2, TakenIsCounted, RuntimeAssumption DEF Remaining, VersionAt
  <2>4. QED
    BY <2>1, <2>2, <2>3, ClaimIsFree
<1>2. IsFeatures(RequestAt(c))
  BY <1>1, RuntimeAssumption DEF IsRequest, IsFeatures, RequestAt
<1>3. IsFiniteSet(VersionAt(c).universe) /\ VersionAt(c).universe \in SUBSET Instruments
  BY <1>1, RuntimeAssumption DEF VersionAt
<1>4. PICK m : m = Scanned(RequestAt(c), VersionAt(c))
  OBVIOUS
<1>5. m \in Nat /\ Slots(c) \in Nat /\ Slots(c) <= m
  <2>1. Cardinality(Found(RequestAt(c), VersionAt(c))) \in Nat
    <3>1. Found(RequestAt(c), VersionAt(c)) \subseteq VersionAt(c).universe
      BY DEF Found
    <3>2. QED
      BY <1>3, <3>1, FS_Subset, FS_CardinalityType
  <2>2. m \in Nat
    <3>1. \A x, y \in Nat : Min({x, y}) \in Nat
      BY DEF Min
    <3>2. QED
      BY <1>4, <2>1, <3>1, PolicyAssumption DEF Scanned
  <2>3. PICK S : S = {m, Remaining(c), Policy.calls}
    OBVIOUS
  <2>4. \E x \in S : \A y \in S : x <= y
    BY <1>1, <2>2, <2>3, PolicyAssumption
  <2>5. Min(S) \in S /\ \A y \in S : Min(S) <= y
    BY <2>4, SmallestIs
  <2>6. Slots(c) = Min(S)
    BY <1>4, <2>3 DEF Slots
  <2>7. QED
    BY <1>1, <2>2, <2>3, <2>5, <2>6, PolicyAssumption
<1>6. PICK s, n : s = Candidates(c) /\ n = Slots(c)
  OBVIOUS
<1>7. s \in Seq(Nat) /\ Len(s) = m
  <2>1. \A i \in 1..m : Scan(RequestAt(c), VersionAt(c))[i] \in Nat
    BY <1>2, <1>3, <1>4, ScanFinds
  <2>2. s \in [1..m -> Nat]
    BY <1>4, <1>6, <2>1 DEF Candidates, Scan
  <2>3. QED
    BY <1>5, <2>2
<1>8. 1 \in 1..(Len(s) + 1) /\ n \in (1 - 1)..Len(s)
  BY <1>5, <1>6, <1>7
<1>9. SubSeq(s, 1, n) \in Seq(Nat)
  BY <1>7, <1>8, SubSeqProperties
<1>10. QED
  BY <1>6, <1>9 DEF Selected

-----------------------------------------------------------------------------
(* The cycles of the runtime.                                              *)
(* What a cycle decided so far: an order it may come to is one the agent can answer for.         *)
Decides(c, d) == RequiresOrder(d) => IsDecision(d) /\ Founded(c, d)

IsSequence(s) == s \in Seq(Range(s))

(* The money of a result is that of a completed cycle, decided and there.                        *)
ResultIs(id, result) ==
  /\ result.allocations # NoAllocation =>
       /\ result.status = "completed"
       /\ \A a \in PaidOf(result.allocations) :
            \E d \in Range(result.decisions) : d.instrument = a.instrument /\ RequiresOrder(d)
  /\ result.status = "completed" => Affordable(RequestOf[id].portfolio, PaidOf(result.allocations))

CycleIs(c) ==
  /\ run[c].pc \in {"idle", "valid", "claimed"} => run[c].decisions = <<>>
  /\ run[c].pc \in {"valid"} \cup Working => RequestIsFit(RequestAt(c))
  /\ run[c].pc \in Working =>
       /\ run[c].selected \in Seq(Nat) /\ IsSequence(run[c].decisions)
       /\ \A d \in Range(run[c].decisions) : Decides(c, d)
  /\ run[c].pc \in {"cycle", "asking"} => \A x \in run[c].contexts : x.until \in Int
  /\ run[c].pc = "asking" => Len(run[c].decisions) < Len(run[c].selected) /\ NetworkIsKnown(c)
  /\ Done(c) =>
       /\ ResultIs(run[c].request, run[c].out)
       /\ run[c].selected # <<>> /\ run[c].out.status = "completed" =>
            \A d \in Range(run[c].out.decisions) : Decides(c, d)

CyclesAreSound ==
  /\ \A c \in Callers : CycleIs(c)
  /\ \A k \in DOMAIN cache :
       cache[k].result # NoResult => ResultIs(cache[k].request, cache[k].result)

(* CycleIs looks at its caller only.                                       *)
LEMMA CycleUnchanged ==
  ASSUME NEW d \in Callers, run'[d] = run[d], CycleIs(d)
  PROVE  CycleIs(d)'
<1>1. /\ RequestAt(d)' = RequestAt(d) /\ VersionAt(d)' = VersionAt(d) /\ Contexts(d)' = Contexts(d)
      /\ Done(d)' = Done(d)
  BY DEF RequestAt, VersionAt, Contexts, Current, Done
<1>2. \A x : Founded(d, x)' = Founded(d, x)
  BY <1>1 DEF Founded
<1>3. \A x : Decides(d, x)' = Decides(d, x)
  BY <1>2 DEF Decides
<1>4. NetworkIsKnown(d)' = NetworkIsKnown(d)
  BY <1>1 DEF NetworkIsKnown
<1>5. QED
  BY <1>1, <1>3, <1>4 DEF CycleIs

(* A step of one caller that leaves the cache alone.                       *)
LEMMA OneSteps ==
  ASSUME CyclesAreSound, NEW c \in Callers, Alone(c), cache' = cache, CycleIs(c)'
  PROVE  CyclesAreSound'
<1>1. \A d \in Callers \ {c} : CycleIs(d)'
  BY CycleUnchanged DEF CyclesAreSound, Alone
<1>2. \A d \in Callers : CycleIs(d)'
  BY <1>1
<1>3. \A k \in DOMAIN cache' :
        cache'[k].result # NoResult => ResultIs(cache'[k].request, cache'[k].result)
  BY DEF CyclesAreSound
<1>4. QED
  BY <1>2, <1>3 DEF CyclesAreSound

LEMMA RefusedResult ==
  ASSUME NEW id, NEW result, result.allocations = NoAllocation, result.status # "completed"
  PROVE  ResultIs(id, result)
BY DEF ResultIs

LEMMA AnswerSound ==
  ASSUME IInv, CyclesAreSound, NEW c \in Callers, run[c].pc \in {"idle", "valid"}, NEW id, NEW result,
         Answer(c, id, result), cache' = cache, ResultIs(id, result)
  PROVE  CyclesAreSound'
<1> DEFINE r == [run[c] EXCEPT !.pc = "done", !.request = id, !.out = result]
<1>1. DOMAIN run[c] = Fields
  BY DEF IInv, TypeOK, RunIs
<1>2. /\ DOMAIN r = Fields /\ r.pc = "done" /\ r.request = id /\ r.out = result
      /\ r.selected = run[c].selected
  BY <1>1 DEF Fields
<1>3. run' = [run EXCEPT ![c] = r]
  <2>1. run' = [run EXCEPT ![c].pc = "done", ![c].request = id, ![c].out = result]
    BY DEF Answer
  <2>2. DOMAIN run = Callers
    BY DEF IInv, TypeOK
  <2>3. QED
    BY <1>1, <2>1, <2>2 DEF Fields
<1> HIDE DEF r
<1>4. Alone(c) /\ run'[c] = r
  BY <1>2, <1>3, RunStep DEF IInv
<1>5. r.selected = <<>>
  BY <1>2 DEF IInv, CallsAreTrue, CallsOf
<1>6. CycleIs(c)'
  BY <1>2, <1>4, <1>5 DEF CycleIs, Working, Done
<1>7. QED
  BY <1>4, <1>6, OneSteps

LEMMA RefuseSound ==
  ASSUME IInv, CyclesAreSound, NEW c \in Callers, run[c].pc \in {"idle", "valid"}, NEW id, NEW status,
         NEW reason, status # "completed", Answer(c, id, Result(status, reason)), cache' = cache
  PROVE  CyclesAreSound'
<1>1. Result(status, reason).allocations = NoAllocation /\ Result(status, reason).status = status
  BY DEF Result
<1>2. ResultIs(id, Result(status, reason))
  BY <1>1, RefusedResult
<1>3. QED
  BY <1>2, AnswerSound

LEMMA ArriveSound ==
  ASSUME IInv, CyclesAreSound, NEW c \in Callers, Arrive(c)
  PROVE  CyclesAreSound'
<1>1. PICK id \in asked.requests :
        /\ run[c].pc = "idle"
        /\ IF ~Registered(RequestOf[id]) THEN Refuse(c, id, "unauthorized_version")
           ELSE IF KeyOf(RequestOf[id]) \in DOMAIN cache THEN FindCached(c, id)
           ELSE Examine(c, id)
        /\ UNCHANGED <<asked, clock, stepsBack, cache, counts, last, opened>>
  BY DEF Arrive
<1>2. id \in Ids /\ cache' = cache
  BY <1>1 DEF IInv, TypeOK, Ids
<1>3. CASE \E reason : Refuse(c, id, reason)
  BY <1>1, <1>2, <1>3, RefuseSound DEF Refuse
<1>4. CASE KeyOf(RequestOf[id]) \in DOMAIN cache /\ FindCached(c, id)
  <2> DEFINE entry == cache[KeyOf(RequestOf[id])]
  <2>1. CASE entry.request # id
    BY <1>1, <1>2, <1>4, <2>1, RefuseSound DEF FindCached, Refuse
  <2>2. CASE entry.request = id /\ entry.result = NoResult
    BY <1>1, <1>2, <1>4, <2>2, RefuseSound DEF FindCached
  <2>3. CASE entry.request = id /\ entry.result # NoResult
    <3>1. Answer(c, id, entry.result)
      BY <1>4, <2>3 DEF FindCached
    <3>2. ResultIs(id, entry.result)
      BY <1>4, <2>3 DEF CyclesAreSound
    <3>3. QED
      BY <1>1, <1>2, <3>1, <3>2, AnswerSound
  <2>4. QED
    BY <2>1, <2>2, <2>3
<1>5. CASE /\ Registered(RequestOf[id])
           /\ InputReason(RequestOf[id], VersionOf[RequestOf[id].version], clock) = NoReason
           /\ run' = [run EXCEPT ![c].pc = "valid", ![c].request = id, ![c].now = clock]
  <2> DEFINE r == [run[c] EXCEPT !.pc = "valid", !.request = id, !.now = clock]
  <2>1. DOMAIN run[c] = Fields /\ DOMAIN run = Callers /\ CycleIs(c)
    BY DEF IInv, TypeOK, RunIs, CyclesAreSound
  <2>2. /\ DOMAIN r = Fields /\ r.pc = "valid" /\ r.request = id /\ r.decisions = run[c].decisions
    BY <2>1 DEF Fields
  <2>3. run' = [run EXCEPT ![c] = r]
    BY <1>5, <2>1 DEF Fields
  <2> HIDE DEF r
  <2>4. Alone(c) /\ run'[c] = r
    BY <2>2, <2>3, RunStep DEF IInv
  <2>5. r.decisions = <<>>
    BY <1>1, <2>1, <2>2 DEF CycleIs
  <2>6. IsRequest(RequestOf[id])
    BY <1>2, RuntimeAssumption
  <2>7. RequestIsFit(RequestOf[id])
    BY <1>5, <2>6, ValidIsFit
  <2>8. CycleIs(c)'
    BY <2>2, <2>4, <2>5, <2>7 DEF CycleIs, Working, Done, RequestAt
  <2>9. QED
    BY <1>2, <2>4, <2>8, OneSteps
<1>6. QED
  BY <1>1, <1>3, <1>4, <1>5 DEF Examine

LEMMA ClaimSound ==
  ASSUME IInv, CyclesAreSound, NEW c \in Callers, Claim(c)
  PROVE  CyclesAreSound'
<1> DEFINE key == KeyOf(RequestAt(c))
           entry == [request |-> run[c].request, result |-> NoResult]
           r == [run[c] EXCEPT !.pc = "claimed", !.selected = Selected(c)]
<1>1. /\ key \notin DOMAIN cache /\ run[c].pc = "valid"
      /\ cache' = [x \in DOMAIN cache \cup {key} |-> IF x = key THEN entry ELSE cache[x]]
  BY ClaimFacts DEF Claim, Put
<1>2. DOMAIN run[c] = Fields /\ DOMAIN run = Callers /\ CycleIs(c)
  BY DEF IInv, TypeOK, RunIs, CyclesAreSound
<1>3. /\ DOMAIN r = Fields /\ r.pc = "claimed" /\ r.request = run[c].request
      /\ r.selected = Selected(c) /\ r.decisions = run[c].decisions
  BY <1>2 DEF Fields
<1>4. run' = [run EXCEPT ![c] = r]
  BY <1>2 DEF Claim, Fields
<1>5. entry.result = NoResult
  OBVIOUS
<1> HIDE DEF r, entry
<1>6. Alone(c) /\ run'[c] = r
  BY <1>3, <1>4, RunStep DEF IInv
<1>7. r.decisions = <<>> /\ RequestIsFit(RequestAt(c)) /\ r.selected \in Seq(Nat)
  BY <1>1, <1>2, <1>3, SelectedIs DEF CycleIs
<1>8. RequestAt(c)' = RequestAt(c)
  BY <1>3, <1>6 DEF RequestAt
<1>9. CycleIs(c)'
  <2>1. IsSequence(run'[c].decisions) /\ Range(run'[c].decisions) = {}
    BY <1>6, <1>7 DEF IsSequence, Range
  <2>2. QED
    BY <1>3, <1>6, <1>7, <1>8, <2>1 DEF CycleIs, Working, Done
<1>10. \A d \in Callers : CycleIs(d)'
  BY <1>6, <1>9, CycleUnchanged DEF CyclesAreSound, Alone
<1>11. \A k \in DOMAIN cache' :
         cache'[k].result # NoResult => ResultIs(cache'[k].request, cache'[k].result)
  BY <1>1, <1>5 DEF CyclesAreSound
<1>12. QED
  BY <1>10, <1>11 DEF CyclesAreSound

(* A cycle that ends.                                                      *)
LEMMA SettleSound ==
  ASSUME IInv, CyclesAreSound, NEW c \in Callers, run[c].pc \in Working, NEW result, Settle(c, result),
         ResultIs(run[c].request, result),
         result.status = "completed" => result.decisions = run[c].decisions
  PROVE  CyclesAreSound'
<1> DEFINE r == [run[c] EXCEPT !.pc = "done", !.out = result]
           key == KeyOf(RequestAt(c))
<1>1. DOMAIN run[c] = Fields /\ DOMAIN run = Callers /\ CycleIs(c)
  BY DEF IInv, TypeOK, RunIs, CyclesAreSound
<1>2. /\ DOMAIN r = Fields /\ r.pc = "done" /\ r.out = result /\ r.request = run[c].request
      /\ r.now = run[c].now /\ r.contexts = run[c].contexts
  BY <1>1 DEF Fields
<1>3. run' = [run EXCEPT ![c] = r]
  BY <1>1 DEF Settle, Fields
<1> HIDE DEF r
<1>4. Alone(c) /\ run'[c] = r
  BY <1>2, <1>3, RunStep DEF IInv
<1>5. key \in DOMAIN cache /\ cache[key].request = run[c].request /\ DOMAIN cache[key] = {"request", "result"}
  BY DEF IInv, ClaimsAreOwned, ClaimIs, TypeOK
<1>6. cache' = [cache EXCEPT ![key] = [cache[key] EXCEPT !.result = result]]
  BY DEF Settle, Store
<1> HIDE DEF key
<1>7. /\ DOMAIN cache' = DOMAIN cache
      /\ cache'[key].request = run[c].request /\ cache'[key].result = result
      /\ \A k \in DOMAIN cache \ {key} : cache'[k] = cache[k]
  BY <1>5, <1>6
<1>8. RequestAt(c)' = RequestAt(c) /\ VersionAt(c)' = VersionAt(c)
  BY <1>2, <1>4 DEF RequestAt, VersionAt
<1>9. \A x : Founded(c, x)' = Founded(c, x)
  <2>1. run'[c].now = run[c].now /\ run'[c].contexts = run[c].contexts
    BY <1>2, <1>4
  <2>2. QED
    BY ONLY <1>8, <2>1 DEF Founded
<1>10. \A x : Decides(c, x)' = Decides(c, x)
  BY <1>9 DEF Decides
<1>11. \A d \in Range(run[c].decisions) : Decides(c, d)
  BY <1>1 DEF CycleIs
<1>12. CycleIs(c)'
  BY <1>2, <1>4, <1>10, <1>11 DEF CycleIs, Working, Done
<1>13. \A d \in Callers : CycleIs(d)'
  BY <1>4, <1>12, CycleUnchanged DEF CyclesAreSound, Alone
<1>14. \A k \in DOMAIN cache' :
         cache'[k].result # NoResult => ResultIs(cache'[k].request, cache'[k].result)
  BY <1>7 DEF CyclesAreSound
<1>15. QED
  BY <1>13, <1>14 DEF CyclesAreSound

-----------------------------------------------------------------------------
(* A cycle's money, step by step.                                          *)
(* A decision on an order that a model came to in time is founded.         *)
LEMMA BoundIsFounded ==
  ASSUME IInv, CyclesAreSound, NEW c \in Callers, run[c].pc = "asking", NEW proposal \in Proposals,
         ProposalReason(proposal, Evidence(c), RequestAt(c), VersionAt(c)) = NoReason,
         NEW d, d = Bind(c, proposal)
  PROVE  Decides(c, d)
<1> SUFFICES ASSUME RequiresOrder(d) PROVE IsDecision(d) /\ Founded(c, d)
  BY DEF Decides
<1>1. ~DecisionExpired(c)
  <2>1. ASSUME DecisionExpired(c) PROVE FALSE
    <3>1. d.action = "no_trade"
      BY <2>1 DEF Bind, Abstain
    <3>2. QED
      BY <3>1 DEF RequiresOrder
  <2>2. QED
    BY <2>1
<1>2. /\ d.action = proposal.action /\ d.for = proposal.for /\ d.against = proposal.against
      /\ d.amount = proposal.amount /\ d.cost = proposal.cost /\ d.rank = proposal.rank
      /\ d.instrument = Current(c) /\ d.decided = DecidedAt(c)
  BY <1>1 DEF Bind
<1>3. /\ run[c].request \in Ids /\ RequestAt(c).version \in DOMAIN VersionOf /\ run[c].now \in Nat
      /\ clock \in Nat
  BY DEF IInv, TypeOK, RunIs, Registered, Working
<1>4. IsProposal(proposal) /\ VersionAt(c).minEvidence \in Nat
  BY <1>3, RuntimeAssumption DEF VersionAt
<1>5. RequiresOrder(proposal)
  BY <1>2 DEF RequiresOrder
<1>6. /\ proposal.for \cup proposal.against \subseteq {e.id : e \in Evidence(c)}
      /\ Cardinality(proposal.for \cup proposal.against) >= VersionAt(c).minEvidence
      /\ proposal.for # {}
      /\ VersionAt(c).contradiction => proposal.against # {}
  BY <1>4, <1>5, AcceptedProposal
<1>7. CycleIs(c) /\ RequestIsFit(RequestAt(c)) /\ NetworkIsKnown(c)
  BY DEF CyclesAreSound, CycleIs, Working
<1>8. /\ run[c].selected \in Seq(Nat) /\ IsSequence(run[c].decisions)
      /\ Len(run[c].decisions) < Len(run[c].selected)
  BY DEF CyclesAreSound, CycleIs, Working
<1>9. Current(c) \in Nat
  <2>1. Len(run[c].decisions) \in Nat /\ Len(run[c].selected) \in Nat
    BY <1>8 DEF IsSequence
  <2>2. Len(run[c].decisions) + 1 \in 1..Len(run[c].selected)
    BY <1>8, <2>1
  <2>3. QED
    BY <1>8, <2>2 DEF Current
<1>10. IsDecision(d)
  BY <1>2, <1>4, <1>9 DEF IsDecision, IsProposal
<1>11. RequestAt(c).asOf \in Int
  BY <1>3, RuntimeAssumption DEF IsRequest, RequestAt
<1>12. /\ ~(clock < run[c].now) /\ ~(clock >= ExpiresAt(RequestAt(c)))
       /\ ~(clock - RequestAt(c).asOf > Policy.snapshotAge)
       /\ \A x \in Contexts(c) : ~(x.until <= clock)
  BY <1>1 DEF DecisionExpired
<1>13. d.decided = clock
  <2>1. PICK S : S = {run[c].now, clock}
    OBVIOUS
  <2>2. clock >= run[c].now
    BY <1>3, <1>12
  <2>3. \A x \in S : (\A y \in S : x >= y) => x = clock
    BY <1>3, <2>1, <2>2
  <2>4. \E x \in S : \A y \in S : x >= y
    BY <1>3, <2>1, <2>2
  <2>5. Max(S) = clock
    BY <2>3, <2>4 DEF Max
  <2>6. QED
    BY <1>2, <2>1, <2>5 DEF DecidedAt
<1>14. /\ d.decided >= run[c].now /\ d.decided < RequestAt(c).asOf + Policy.ttl
       /\ d.decided - RequestAt(c).asOf <= Policy.snapshotAge
  BY <1>3, <1>11, <1>12, <1>13, PolicyAssumption DEF ExpiresAt
<1> DEFINE allowed == {e \in RequestAt(c).evidence :
                         /\ ~e.injected /\ e.quality >= VersionAt(c).minQuality /\ e.pack \in VersionAt(c).packs
                         /\ e.about # {} => d.instrument \in e.about}
<1>15. Evidence(c) = allowed
  BY <1>2 DEF Evidence, Relevant, Eligible
<1>16. \A e \in allowed : e.ingested <= RequestAt(c).asOf
  BY <1>7 DEF RequestIsFit
<1>17. ASSUME VersionAt(c).network
       PROVE  /\ \E x \in run[c].contexts : d.instrument \in x.about
              /\ \A x \in run[c].contexts :
                   d.instrument \in x.about /\ x.until > RequestAt(c).asOf
                   => x.health = "normal" /\ d.decided < x.until
  <2>1. Contexts(c) = {x \in run[c].contexts : d.instrument \in x.about /\ x.until > RequestAt(c).asOf}
    BY <1>2 DEF Contexts
  <2>2. Contexts(c) # {} /\ \A x \in Contexts(c) : x.health = "normal"
    BY <1>7, <1>17 DEF NetworkIsKnown
  <2>3. \A x \in Contexts(c) : x.until \in Int
    BY <1>7, <2>1 DEF CycleIs
  <2>4. QED
    BY <1>3, <1>12, <1>13, <2>1, <2>2, <2>3
<1>18. Founded(c, d)
  BY <1>2, <1>6, <1>14, <1>15, <1>16, <1>17 DEF Founded
<1>19. QED
  BY <1>10, <1>18

LEMMA SequenceGrows ==
  ASSUME NEW s, IsSequence(s), NEW x, NEW t, t = Append(s, x)
  PROVE  IsSequence(t) /\ \A y \in Range(t) : y = x \/ y \in Range(s)
<1>1. s \in Seq(Range(s)) /\ Range(s) \subseteq Range(s) \cup {x}
  BY DEF IsSequence
<1>2. s \in Seq(Range(s) \cup {x})
  BY <1>1
<1>3. t \in Seq(Range(s) \cup {x}) /\ DOMAIN t = 1..Len(t)
      /\ \A i \in DOMAIN t : t[i] = x \/ (i \in DOMAIN s /\ t[i] = s[i])
  BY <1>2
<1>4. t \in Seq(Range(t))
  BY <1>3 DEF Range
<1>5. QED
  BY <1>3, <1>4 DEF IsSequence, Range

LEMMA ConcludeSound ==
  ASSUME IInv, CyclesAreSound, NEW c \in Callers, run[c].pc \in {"cycle", "asking"}, NEW proposal, NEW calls,
         Conclude(c, proposal, calls), Decides(c, Bind(c, proposal))
  PROVE  CyclesAreSound'
<1> DEFINE r == [run[c] EXCEPT !.pc = "cycle", !.calls = calls,
                               !.decisions = Append(@, Bind(c, proposal))]
<1>1. DOMAIN run[c] = Fields /\ CycleIs(c)
  BY DEF IInv, TypeOK, RunIs, CyclesAreSound
<1>2. /\ DOMAIN r = Fields /\ r.pc = "cycle" /\ r.request = run[c].request /\ r.now = run[c].now
      /\ r.contexts = run[c].contexts /\ r.selected = run[c].selected
      /\ r.decisions = Append(run[c].decisions, Bind(c, proposal))
  BY <1>1 DEF Fields
<1>3. run' = [run EXCEPT ![c] = r] /\ cache' = cache
  BY DEF Conclude, Progress
<1> HIDE DEF r
<1>4. Alone(c) /\ run'[c] = r
  BY <1>2, <1>3, RunStep DEF IInv
<1>5. RequestAt(c)' = RequestAt(c) /\ VersionAt(c)' = VersionAt(c)
  BY <1>2, <1>4 DEF RequestAt, VersionAt
<1>6. \A x : Founded(c, x)' = Founded(c, x)
  BY <1>2, <1>4, <1>5 DEF Founded
<1>7. \A x : Decides(c, x)' = Decides(c, x)
  BY <1>6 DEF Decides
<1>8. IsSequence(r.decisions) /\ \A x \in Range(r.decisions) : Decides(c, x)
  <2>1. IsSequence(run[c].decisions) /\ \A x \in Range(run[c].decisions) : Decides(c, x)
    BY <1>1 DEF CycleIs, Working
  <2>2. QED
    BY <1>2, <2>1, SequenceGrows
<1>9. CycleIs(c)'
  BY <1>1, <1>2, <1>4, <1>5, <1>7, <1>8 DEF CycleIs, Working, Done
<1>10. QED
  BY <1>3, <1>4, <1>9, OneSteps

LEMMA AbstentionSound ==
  ASSUME IInv, CyclesAreSound, NEW c \in Callers, run[c].pc \in {"cycle", "asking"}, NEW reason, NEW calls,
         Conclude(c, Abstain(reason), calls)
  PROVE  CyclesAreSound'
<1>1. Bind(c, Abstain(reason)).action = "no_trade"
  BY DEF Bind, Abstain
<1>2. Decides(c, Bind(c, Abstain(reason)))
  BY <1>1 DEF Decides, RequiresOrder
<1>3. QED
  BY <1>2, ConcludeSound

LEMMA BeginSound ==
  ASSUME IInv, CyclesAreSound, NEW c \in Callers, Begin(c)
  PROVE  CyclesAreSound'
<1>1. run[c].pc = "claimed" /\ run[c].pc \in Working
  BY DEF Begin, Working
<1>2. ASSUME NEW reason, Settle(c, Result("refused", reason)) PROVE CyclesAreSound'
  <2>1. ResultIs(run[c].request, Result("refused", reason)) /\ Result("refused", reason).status # "completed"
    BY RefusedResult DEF Result
  <2>2. QED
    BY <1>1, <1>2, <2>1, SettleSound
<1>3. ASSUME NEW contexts \in IF VersionAt(c).network THEN ContextSets ELSE {{}},
             Progress(c, [run[c] EXCEPT !.pc = "cycle", !.contexts = contexts])
      PROVE  CyclesAreSound'
  <2> DEFINE r == [run[c] EXCEPT !.pc = "cycle", !.contexts = contexts]
  <2>1. DOMAIN run[c] = Fields /\ CycleIs(c)
    BY DEF IInv, TypeOK, RunIs, CyclesAreSound
  <2>2. /\ DOMAIN r = Fields /\ r.pc = "cycle" /\ r.request = run[c].request
        /\ r.selected = run[c].selected /\ r.decisions = run[c].decisions /\ r.contexts = contexts
        /\ \A x \in contexts : x.until \in Int
    BY <1>3, <2>1, RuntimeAssumption DEF Fields
  <2>3. run' = [run EXCEPT ![c] = r] /\ cache' = cache
    BY <1>3 DEF Progress
  <2> HIDE DEF r
  <2>4. Alone(c) /\ run'[c] = r
    BY <2>2, <2>3, RunStep DEF IInv
  <2>5. RequestAt(c)' = RequestAt(c)
    BY <2>2, <2>4 DEF RequestAt
  <2>6. run[c].decisions = <<>> /\ IsSequence(run[c].decisions) /\ Range(run[c].decisions) = {}
    BY <1>1, <2>1 DEF CycleIs, Range
  <2>7. CycleIs(c)'
    BY <1>1, <2>1, <2>2, <2>4, <2>5, <2>6 DEF CycleIs, Working, Done
  <2>8. QED
    BY <2>3, <2>4, <2>7, OneSteps
<1>4. QED
  BY <1>2, <1>3 DEF Begin

LEMMA AskSound ==
  ASSUME IInv, CyclesAreSound, NEW c \in Callers, Ask(c)
  PROVE  CyclesAreSound'
<1> DEFINE r == [run[c] EXCEPT !.pc = "asking", !.sent = @ \cup {Current(c)}]
<1>1. /\ run[c].pc = "cycle" /\ Len(run[c].decisions) < Len(run[c].selected)
      /\ Withheld(c) = NoReason /\ cache' = cache
  BY DEF Ask, Considering, Progress
<1>2. DOMAIN run[c] = Fields /\ CycleIs(c)
  BY DEF IInv, TypeOK, RunIs, CyclesAreSound
<1>3. /\ DOMAIN r = Fields /\ r.pc = "asking" /\ r.request = run[c].request /\ r.now = run[c].now
      /\ r.contexts = run[c].contexts /\ r.selected = run[c].selected /\ r.decisions = run[c].decisions
  BY <1>2 DEF Fields
<1>4. run' = [run EXCEPT ![c] = r]
  BY DEF Ask, Progress
<1> HIDE DEF r
<1>5. Alone(c) /\ run'[c] = r
  BY <1>3, <1>4, RunStep DEF IInv
<1>6. RequestAt(c)' = RequestAt(c) /\ VersionAt(c)' = VersionAt(c) /\ Contexts(c)' = Contexts(c)
  BY <1>3, <1>5 DEF RequestAt, VersionAt, Contexts, Current
<1>7. \A x : Founded(c, x)' = Founded(c, x)
  BY <1>3, <1>5, <1>6 DEF Founded
<1>8. \A x : Decides(c, x)' = Decides(c, x)
  BY <1>7 DEF Decides
<1>9. NetworkIsKnown(c)'
  <2>1. NetworkIsKnown(c)
    BY <1>1, NotWithheld
  <2>2. QED
    BY <1>6, <2>1 DEF NetworkIsKnown
<1>10. CycleIs(c)'
  BY <1>1, <1>2, <1>3, <1>5, <1>6, <1>8, <1>9 DEF CycleIs, Working, Done
<1>11. QED
  BY <1>1, <1>5, <1>10, OneSteps

LEMMA CompleteSound ==
  ASSUME IInv, CyclesAreSound, NEW c \in Callers, Complete(c)
  PROVE  CyclesAreSound'
<1> DEFINE p == RequestAt(c).portfolio
           decisions == run[c].decisions
           result == [Result("completed", NoReason) EXCEPT
                        !.decisions = run[c].decisions,
                        !.allocations = Allocate(run[c].decisions, RequestAt(c).portfolio),
                        !.calls = run[c].calls]
<1>1. run[c].pc \in Working /\ Settle(c, result) /\ CycleIs(c)
  BY DEF Complete, Working, CyclesAreSound
<1>2. result.status = "completed" /\ result.decisions = decisions /\ result.allocations = Allocate(decisions, p)
  BY DEF Result
<1> HIDE DEF result
<1>3. IsPortfolio(p) /\ IsSequence(decisions) /\ \A d \in Range(decisions) : Decides(c, d)
  BY <1>1 DEF CycleIs, RequestIsFit
<1> HIDE DEF p, decisions
<1>4. AreDecisions(decisions)
  <2>1. IsFiniteSet(DOMAIN decisions)
    <3>1. DOMAIN decisions = 1..Len(decisions) /\ Len(decisions) \in Nat
      BY <1>3 DEF IsSequence
    <3>2. QED
      BY <3>1, FS_Interval
  <2>2. \A k \in Proposed(decisions) : IsDecision(decisions[k])
    BY <1>3 DEF Proposed, Decides, Range
  <2>3. QED
    BY <2>1, <2>2 DEF AreDecisions
<1>5. Affordable(p, PaidOf(result.allocations))
  BY <1>2, <1>3, <1>4, DivisionIsAffordable
<1>6. \A a \in PaidOf(result.allocations) :
        \E d \in Range(result.decisions) : d.instrument = a.instrument /\ RequiresOrder(d)
  <2>1. PICK so : /\ Turn(so, decisions, p, Cardinality(Proposed(decisions)))
                  /\ Allocate(decisions, p) = so.given
    BY <1>3, <1>4, AllocateIs
  <2> SUFFICES ASSUME NEW a \in PaidOf(so.given)
               PROVE  \E d \in Range(decisions) : d.instrument = a.instrument /\ RequiresOrder(d)
    BY <1>2, <2>1
  <2>2. Grounded(a, decisions, p)
    BY <1>3, <1>4, <2>1, PaidIs
  <2>3. PICK k \in Proposed(decisions) : a.instrument = decisions[k].instrument
    BY <2>2 DEF Grounded
  <2>4. QED
    BY <2>3 DEF Proposed, Range
<1>7. ResultIs(run[c].request, result)
  BY <1>2, <1>5, <1>6 DEF ResultIs, p, RequestAt
<1>8. QED
  BY <1>1, <1>2, <1>7, SettleSound DEF decisions

LEMMA NotClaimedSound ==
  ASSUME IInv, CyclesAreSound, NEW c \in Callers, NotClaimed(c)
  PROVE  CyclesAreSound'
<1> DEFINE status == IF ClaimRefusal(c) = "evaluation_in_progress" THEN "in_progress" ELSE "refused"
<1>1. run[c].pc = "valid" /\ Answer(c, run[c].request, Result(status, ClaimRefusal(c))) /\ cache' = cache
  BY DEF NotClaimed
<1>2. status # "completed"
  OBVIOUS
<1> HIDE DEF status
<1>3. QED
  BY <1>1, <1>2, RefuseSound

LEMMA CallerSound ==
  ASSUME IInv, CyclesAreSound, NEW c \in Callers, Works(c) \/ CallEnds(c)
  PROVE  CyclesAreSound'
<1>1. CASE ContextsUnavailable(c)
  <2>1. run[c].pc \in Working /\ Settle(c, Result("refused", "network_unavailable"))
    BY <1>1 DEF ContextsUnavailable, Working
  <2>2. /\ ResultIs(run[c].request, Result("refused", "network_unavailable"))
        /\ Result("refused", "network_unavailable").status # "completed"
    BY RefusedResult DEF Result
  <2>3. QED
    BY <2>1, <2>2, SettleSound
<1>2. CASE Skip(c) \/ GatewayRefuses(c) \/ GatewayFails(c)
  <2>1. run[c].pc \in {"cycle", "asking"} /\ \E reason, calls : Conclude(c, Abstain(reason), calls)
    BY <1>2 DEF Skip, GatewayRefuses, GatewayFails, Considering
  <2>2. QED
    BY <2>1, AbstentionSound
<1>3. CASE Replies(c)
  <2>1. run[c].pc = "asking"
    BY <1>3 DEF Replies
  <2>2. PICK proposal \in Proposals :
          LET reason == ProposalReason(proposal, Evidence(c), RequestAt(c), VersionAt(c))
          IN  Conclude(c, IF reason # NoReason THEN Abstain(reason) ELSE proposal, WithCall(c))
    BY <1>3 DEF Replies
  <2>3. PICK reason : reason = ProposalReason(proposal, Evidence(c), RequestAt(c), VersionAt(c))
    OBVIOUS
  <2>4. CASE reason # NoReason
    BY <2>1, <2>2, <2>3, <2>4, AbstentionSound
  <2>5. CASE reason = NoReason
    <3>1. Decides(c, Bind(c, proposal))
      BY <2>1, <2>3, <2>5, BoundIsFounded
    <3>2. Conclude(c, proposal, WithCall(c))
      BY <2>2, <2>3, <2>5
    <3>3. QED
      BY <2>1, <3>1, <3>2, ConcludeSound
  <2>6. QED
    BY <2>4, <2>5
<1>4. CASE TimesOut(c) \/ Cancelled(c)
  <2>1. run[c].pc \in Working
    BY <1>4 DEF TimesOut, Cancelled, Working
  <2>2. PICK reason : Settle(c, Interrupted(c, reason))
    BY <1>4 DEF TimesOut, Cancelled
  <2>3. Interrupted(c, reason).allocations = NoAllocation /\ Interrupted(c, reason).status # "completed"
    BY DEF Interrupted, Result
  <2>4. ResultIs(run[c].request, Interrupted(c, reason))
    BY <2>3, RefusedResult
  <2>5. QED
    BY <2>1, <2>2, <2>3, <2>4, SettleSound
<1>5. QED
  BY <1>1, <1>2, <1>3, <1>4, NotClaimedSound, ClaimSound, BeginSound, AskSound, CompleteSound
     DEF Works, CallEnds

LEMMA CyclesBegin == Init => CyclesAreSound
<1> SUFFICES ASSUME Init PROVE CyclesAreSound
  OBVIOUS
<1>1. cache = <<>> /\ run = [c \in Callers |-> Idle]
  BY DEF Init
<1>2. Idle.pc = "idle" /\ Idle.decisions = <<>>
  BY DEF Idle
<1>3. \A c \in Callers : run[c] = Idle
  BY <1>1
<1>4. \A c \in Callers : CycleIs(c)
  BY <1>2, <1>3 DEF CycleIs, Working, Done
<1>5. QED
  BY <1>1, <1>4 DEF CyclesAreSound

LEMMA CyclesStaySound == ASSUME IInv, CyclesAreSound, [Next]_vars PROVE CyclesAreSound'
<1>1. CASE \E c \in Callers : Arrive(c) \/ Works(c) \/ CallEnds(c)
  BY <1>1, ArriveSound, CallerSound
<1>2. CASE Tick \/ StepBack \/ UNCHANGED vars
  <2>1. run' = run /\ cache' = cache
    BY <1>2 DEF Tick, StepBack, vars
  <2>2. \A c \in Callers : CycleIs(c)'
    BY <2>1, CycleUnchanged DEF CyclesAreSound
  <2>3. QED
    BY <2>1, <2>2 DEF CyclesAreSound
<1>3. QED
  BY <1>1, <1>2 DEF Next

-----------------------------------------------------------------------------
(* What a completed cycle sets aside was decided, in time, on evidence and contexts that are good
   (runtime.py:298-314), and is there: the buys fit the cash with its buffer, the budget and the
   limit of each overlap group, a sale its position (portfolio.py:53-113).                       *)
THEOREM MoneySound == Spec => []MoneyIsSound
<1>1. IInv /\ CyclesAreSound => MoneyIsSound
  <2> SUFFICES ASSUME CyclesAreSound PROVE MoneyIsFounded /\ MoneyIsThere
    BY DEF MoneyIsSound
  <2>1. \A c \in Callers : Paid(c) = PaidOf(run[c].out.allocations)
    BY DEF Paid, PaidOf
  <2>2. MoneyIsFounded
    <3> SUFFICES ASSUME NEW c \in Callers, Done(c), run[c].out.allocations # NoAllocation
                 PROVE  /\ run[c].out.status = "completed"
                        /\ \A a \in Paid(c) :
                             \E d \in Range(run[c].out.decisions) :
                               d.instrument = a.instrument /\ (run[c].selected # <<>> => Founded(c, d))
      BY DEF MoneyIsFounded
    <3>1. CycleIs(c)
      BY DEF CyclesAreSound
    <3>2. /\ run[c].out.status = "completed"
          /\ \A a \in PaidOf(run[c].out.allocations) :
               \E d \in Range(run[c].out.decisions) : d.instrument = a.instrument /\ RequiresOrder(d)
      BY <3>1 DEF CycleIs, ResultIs
    <3>3. run[c].selected # <<>> =>
            \A d \in Range(run[c].out.decisions) : RequiresOrder(d) => Founded(c, d)
      BY <3>1, <3>2 DEF CycleIs, Decides
    <3>4. QED
      BY <2>1, <3>2, <3>3
  <2>3. MoneyIsThere
    BY <2>1 DEF MoneyIsThere, CyclesAreSound, CycleIs, ResultIs, Completed, RequestAt
  <2>4. QED
    BY <2>2, <2>3
<1>2. IInv /\ CyclesAreSound /\ [Next]_vars => CyclesAreSound'
  BY CyclesStaySound
<1>3. QED
  BY <1>1, <1>2, CyclesBegin, Invariance, PTL DEF Spec
=============================================================================
