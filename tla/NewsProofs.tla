----------------------------- MODULE NewsProofs -----------------------------
(***************************************************************************)
(* Proofs about News, for any collectors, batches, sources and models, and *)
(* any number of steps of the clock.                                       *)
(***************************************************************************)
EXTENDS News, FiniteSetTheorems, TLAPS

Open == {"screened", "asking", "waiting"}
Working == {"asking", "waiting"}

TypeOK ==
  /\ clock \in Nat
  /\ IsFiniteSet(DOMAIN seen) /\ IsFiniteSet(pending)
  /\ work \in [Collectors -> Range(work)]
  /\ \A c \in Collectors :
       /\ DOMAIN work[c] = {"pc", "source", "scope", "queue", "started", "results"}
       /\ work[c].queue \in Seq(Articles)
  /\ \A k \in DOMAIN calls :
       /\ DOMAIN calls[k] = {"request", "outcome"}
       /\ calls[k].outcome = Running
          \/ (\E code : calls[k].outcome = Failure(code))
          \/ (\E output \in Outputs : calls[k].outcome = Success(output))

(* Work that passed the screening is on an article of a registered source that was seen before
   the work on it began.                                                                         *)
Screened(c) ==
  /\ work[c].pc \in Open \cup {"screening"} => work[c].queue # <<>> /\ work[c].source \in DOMAIN Sources
  /\ work[c].pc \in Open => /\ work[c].started \in Int
                            /\ Article(c).published <= Article(c).seen
                            /\ Article(c).seen <= work[c].started

WorkIsScreened == \A c \in Collectors : Screened(c)

(* Each key being extracted has one collector at work on it, and is not in the index.            *)
PendingIsOwned ==
  /\ pending = {Key(c) : c \in {d \in Collectors : work[d].pc \in Working}}
  /\ \A c, d \in Collectors :
       work[c].pc \in Working /\ work[d].pc \in Working /\ Key(c) = Key(d) => c = d
  /\ pending \cap DOMAIN seen = {}
  /\ Cardinality(DOMAIN seen \cup pending) <= Capacity

(* A collector that waits for a provider has opened its call, and nobody else closed it.         *)
CallsAreOpen ==
  \A c \in Collectors :
    work[c].pc = "waiting" => CallKey(c) \in DOMAIN calls /\ calls[CallKey(c)].outcome = Running

(* The index holds the record of every key that has one.                                         *)
IndexIsTrue == \A r \in records : r.key \in DOMAIN seen /\ seen[r.key] = r

IInv ==
  /\ TypeOK
  /\ WorkIsScreened
  /\ PendingIsOwned
  /\ CallsAreOpen
  /\ IndexIsTrue
  /\ RecordsAreFounded

-----------------------------------------------------------------------------
(* What one collector's step leaves to the others.                         *)

Fields == {"pc", "source", "scope", "queue", "started", "results"}

(* Only the work of c changes, and it stays what TypeOK says of it.        *)
Alone(c) ==
  /\ work' \in [Collectors -> Range(work')]
  /\ \A d \in Collectors \ {c} : work'[d] = work[d]
  /\ DOMAIN work'[c] = Fields
  /\ work'[c].queue \in Seq(Articles)

(* The batch of c went on with its next article, or is over.               *)
Moved(c) ==
  /\ Alone(c)
  /\ work'[c].pc \in {"done", "screening"}
  /\ work'[c].pc = "screening" => work'[c].queue # <<>>
  /\ work'[c].source = work[c].source

LEMMA RangeType ==
  ASSUME NEW f, NEW S, f = [x \in S |-> f[x]]
  PROVE  f \in [S -> Range(f)]
BY DEF Range

LEMMA ArticleType ==
  ASSUME TypeOK, NEW c \in Collectors, work[c].queue # <<>>
  PROVE  /\ Article(c) \in Articles /\ Article(c).published \in Int /\ Article(c).seen \in Int
         /\ Tail(work[c].queue) \in Seq(Articles)
<1>1. work[c].queue \in Seq(Articles)
  BY DEF TypeOK
<1>2. Head(work[c].queue) \in Articles /\ Tail(work[c].queue) \in Seq(Articles)
  BY <1>1
<1>3. QED
  BY <1>2, NewsAssumption DEF Article

LEMMA MoveMoves ==
  ASSUME TypeOK, NEW c \in Collectors, work[c].queue # <<>>, NEW result, Move(c, result, TRUE)
  PROVE  Moved(c)
<1> DEFINE rest == Tail(work[c].queue)
           next == [work[c] EXCEPT !.results = Append(@, result), !.queue = rest, !.started = Never,
                                   !.pc = IF rest = <<>> THEN "done" ELSE "screening"]
<1>1. work' = [work EXCEPT ![c] = next]
  BY DEF Move
<1>2. work \in [Collectors -> Range(work)] /\ DOMAIN work[c] = Fields
  BY DEF TypeOK, Fields
<1>3. /\ DOMAIN next = Fields /\ next.queue = rest /\ next.source = work[c].source
      /\ next.pc = IF rest = <<>> THEN "done" ELSE "screening"
  BY <1>2 DEF Fields
<1> HIDE DEF next
<1>4. work' = [d \in Collectors |-> work'[d]] /\ work'[c] = next
      /\ \A d \in Collectors \ {c} : work'[d] = work[d]
  BY <1>1, <1>2
<1>5. rest \in Seq(Articles)
  BY ArticleType
<1>6. work' \in [Collectors -> Range(work')]
  BY <1>4, RangeType
<1>7. QED
  BY <1>3, <1>4, <1>5, <1>6 DEF Moved, Alone

(* A collector left the extraction, however it ended: its key is free, and its call, if it waited
   for one, is closed.                                                                            *)
Left(c) ==
  /\ work[c].pc \in Working /\ work'[c].pc \notin Working
  /\ Alone(c) /\ Release(c)
  /\ calls' = calls \/ (work[c].pc = "waiting" /\ \E o : Finish(c, o))

LEMMA OthersKeep ==
  ASSUME NEW c \in Collectors, Alone(c)
  PROVE  \A d \in Collectors \ {c} :
           /\ work'[d] = work[d] /\ Key(d)' = Key(d) /\ CallKey(d)' = CallKey(d)
           /\ Article(d)' = Article(d) /\ Request(d)' = Request(d)
BY DEF Alone, Key, CallKey, Article, Request

LEMMA OwnedByOne ==
  ASSUME PendingIsOwned, NEW c \in Collectors, work[c].pc \in Working
  PROVE  /\ Key(c) \in pending /\ Key(c) \notin DOMAIN seen
         /\ pending \ {Key(c)} = {Key(d) : d \in {e \in Collectors \ {c} : work[e].pc \in Working}}
<1>1. Key(c) \in pending
  BY DEF PendingIsOwned
<1>2. \A d \in Collectors \ {c} : work[d].pc \in Working => Key(d) # Key(c)
  BY DEF PendingIsOwned
<1>3. pending \ {Key(c)} = {Key(d) : d \in {e \in Collectors \ {c} : work[e].pc \in Working}}
  BY <1>2 DEF PendingIsOwned
<1>4. QED
  BY <1>1, <1>3 DEF PendingIsOwned

LEMMA LeavingKeepsCalls ==
  ASSUME CallsAreOpen, PendingIsOwned, TypeOK, NEW c \in Collectors, Left(c)
  PROVE  CallsAreOpen'
<1> SUFFICES ASSUME NEW d \in Collectors, work'[d].pc = "waiting"
             PROVE  CallKey(d)' \in DOMAIN calls' /\ calls'[CallKey(d)'].outcome = Running
  BY DEF CallsAreOpen
<1>1. d # c /\ work'[d] = work[d] /\ CallKey(d)' = CallKey(d)
  BY OthersKeep DEF Left, Working
<1>2. CallKey(d) \in DOMAIN calls /\ calls[CallKey(d)].outcome = Running
  BY <1>1 DEF CallsAreOpen
<1>3. Key(c) # Key(d)
  BY <1>1 DEF PendingIsOwned, Left, Working
<1>4. CallKey(c) # CallKey(d)
  BY <1>3 DEF CallKey
<1>5. DOMAIN calls' = DOMAIN calls /\ calls'[CallKey(d)] = calls[CallKey(d)]
  <2>1. CASE calls' = calls
    BY <2>1
  <2>2. CASE \E o : Finish(c, o)
    <3>1. PICK o : calls' = [calls EXCEPT ![CallKey(c)] = [calls[CallKey(c)] EXCEPT !.outcome = o]]
      BY <2>2 DEF Finish
    <3>2. QED
      BY <1>2, <1>4, <3>1
  <2>3. QED
    BY <2>1, <2>2 DEF Left
<1>6. QED
  BY <1>1, <1>2, <1>5

LEMMA LeavingFrees ==
  ASSUME PendingIsOwned, NEW c \in Collectors, Left(c)
  PROVE  /\ pending' = {Key(d)' : d \in {e \in Collectors : work'[e].pc \in Working}}
         /\ \A d, e \in Collectors :
              work'[d].pc \in Working /\ work'[e].pc \in Working /\ Key(d)' = Key(e)' => d = e
         /\ pending' = pending \ {Key(c)}
<1>1. \A d \in Collectors \ {c} : work'[d] = work[d] /\ Key(d)' = Key(d)
  BY OthersKeep DEF Left
<1>2. work'[c].pc \notin Working /\ pending' = pending \ {Key(c)}
  BY DEF Left, Release
<1>3. pending' = {Key(d) : d \in {e \in Collectors \ {c} : work[e].pc \in Working}}
  BY <1>2, OwnedByOne DEF Left
<1>4. pending' = {Key(d)' : d \in {e \in Collectors : work'[e].pc \in Working}}
  BY <1>1, <1>2, <1>3
<1>5. ASSUME NEW d \in Collectors, NEW e \in Collectors,
             work'[d].pc \in Working, work'[e].pc \in Working, Key(d)' = Key(e)'
      PROVE  d = e
  BY <1>1, <1>2, <1>5 DEF PendingIsOwned
<1>6. QED
  BY <1>2, <1>4, <1>5

(* An answer becomes the record of its key.                                *)
Indexed(c, record) ==
  /\ record.key = Key(c) /\ seen' = Put(seen, Key(c), record) /\ records' = records \cup {record}

LEMMA IndexedEffect ==
  ASSUME NEW c \in Collectors, NEW r, Indexed(c, r)
  PROVE  /\ DOMAIN seen' = DOMAIN seen \cup {Key(c)} /\ seen'[Key(c)] = r
         /\ \A k \in DOMAIN seen \ {Key(c)} : seen'[k] = seen[k]
<1>1. seen' = [x \in DOMAIN seen \cup {Key(c)} |-> IF x = Key(c) THEN r ELSE seen[x]]
  BY DEF Indexed, Put
<1>2. QED
  BY <1>1

LEMMA LeavingIsOwned ==
  ASSUME PendingIsOwned, TypeOK, NEW c \in Collectors, Left(c),
         seen' = seen \/ (\E r : Indexed(c, r))
  PROVE  PendingIsOwned'
<1>1. /\ pending' = {Key(d)' : d \in {e \in Collectors : work'[e].pc \in Working}}
      /\ \A d, e \in Collectors :
           work'[d].pc \in Working /\ work'[e].pc \in Working /\ Key(d)' = Key(e)' => d = e
      /\ pending' = pending \ {Key(c)}
  BY LeavingFrees
<1>2. Key(c) \in pending /\ Key(c) \notin DOMAIN seen
  BY OwnedByOne DEF Left
<1>3. DOMAIN seen' = DOMAIN seen \/ DOMAIN seen' = DOMAIN seen \cup {Key(c)}
  BY IndexedEffect
<1>4. pending' \cap DOMAIN seen' = {}
  BY <1>1, <1>2, <1>3 DEF PendingIsOwned
<1>5. Cardinality(DOMAIN seen' \cup pending') <= Capacity
  <2>1. DOMAIN seen' \cup pending' \subseteq DOMAIN seen \cup pending
    BY <1>1, <1>2, <1>3
  <2>2. IsFiniteSet(DOMAIN seen \cup pending)
    BY FS_Union DEF TypeOK
  <2>3. /\ Cardinality(DOMAIN seen \cup pending) \in Nat
        /\ Cardinality(DOMAIN seen' \cup pending') \in Nat
        /\ Cardinality(DOMAIN seen' \cup pending') <= Cardinality(DOMAIN seen \cup pending)
    BY <2>1, <2>2, FS_Subset, FS_CardinalityType
  <2>4. QED
    BY <2>3, NewsAssumption DEF PendingIsOwned
<1>6. QED
  BY <1>1, <1>4, <1>5 DEF PendingIsOwned

LEMMA LeavingKeepsIndex ==
  ASSUME PendingIsOwned, IndexIsTrue, NEW c \in Collectors, Left(c), NEW r, Indexed(c, r)
  PROVE  IndexIsTrue'
<1>1. Key(c) \notin DOMAIN seen
  BY OwnedByOne DEF Left
<1>2. /\ DOMAIN seen' = DOMAIN seen \cup {Key(c)} /\ seen'[Key(c)] = r
      /\ \A k \in DOMAIN seen : seen'[k] = seen[k]
  BY <1>1, IndexedEffect
<1>3. QED
  BY <1>2 DEF Indexed, IndexIsTrue

LEMMA LeavingIsTyped ==
  ASSUME PendingIsOwned, TypeOK, NEW c \in Collectors, Left(c), clock' = clock,
         seen' = seen \/ (\E r : Indexed(c, r)),
         \A k \in DOMAIN calls' :
           /\ DOMAIN calls'[k] = {"request", "outcome"}
           /\ calls'[k].outcome = Running
              \/ (\E code : calls'[k].outcome = Failure(code))
              \/ (\E output \in Outputs : calls'[k].outcome = Success(output))
  PROVE  TypeOK'
<1>1. DOMAIN seen' = DOMAIN seen \/ DOMAIN seen' = DOMAIN seen \cup {Key(c)}
  BY IndexedEffect
<1>2. IsFiniteSet(DOMAIN seen') /\ IsFiniteSet(pending')
  <2>1. IsFiniteSet(DOMAIN seen) /\ IsFiniteSet(pending) /\ pending' = pending \ {Key(c)}
    BY DEF TypeOK, Left, Release
  <2>2. IsFiniteSet(DOMAIN seen \cup {Key(c)}) /\ IsFiniteSet(pending \ {Key(c)})
    BY <2>1, FS_AddElement, FS_RemoveElement
  <2>3. QED
    BY <1>1, <2>1, <2>2
<1>3. \A d \in Collectors : DOMAIN work'[d] = Fields /\ work'[d].queue \in Seq(Articles)
  BY DEF TypeOK, Left, Alone, Fields
<1>4. work' \in [Collectors -> Range(work')]
  BY DEF Left, Alone
<1>5. clock' \in Nat
  BY DEF TypeOK
<1>6. QED
  BY <1>2, <1>3, <1>4, <1>5 DEF TypeOK, Fields

LEMMA OthersStayScreened ==
  ASSUME WorkIsScreened, NEW c \in Collectors, Alone(c), Screened(c)'
  PROVE  WorkIsScreened'
<1> SUFFICES ASSUME NEW d \in Collectors \ {c}
             PROVE  Screened(d)'
  BY DEF WorkIsScreened
<1>1. work'[d] = work[d] /\ Article(d)' = Article(d)
  BY OthersKeep
<1>2. Screened(d)
  BY DEF WorkIsScreened
<1>3. QED
  BY <1>1, <1>2 DEF Screened

LEMMA MovedIsScreened ==
  ASSUME WorkIsScreened, NEW c \in Collectors, Moved(c), work[c].pc \in Open \cup {"screening"}
  PROVE  WorkIsScreened'
<1>1. Screened(c)
  BY DEF WorkIsScreened
<1>2. Screened(c)'
  BY <1>1 DEF Screened, Moved, Open
<1>3. QED
  BY <1>2, OthersStayScreened DEF Moved

(* A step of a collector that extracts nothing, before and after it.       *)
Outside(c) ==
  /\ Alone(c) /\ work[c].pc \notin Working /\ work'[c].pc \notin Working
  /\ UNCHANGED <<clock, seen, pending, calls, records>>

LEMMA OutsideKeeps ==
  ASSUME IInv, NEW c \in Collectors, Outside(c), WorkIsScreened'
  PROVE  IInv'
<1>1. \A d \in Collectors \ {c} : work'[d] = work[d] /\ Key(d)' = Key(d) /\ CallKey(d)' = CallKey(d)
  BY OthersKeep DEF Outside
<1>2. UNCHANGED <<clock, seen, pending, calls, records>> /\ work'[c].pc \notin Working
      /\ work[c].pc \notin Working
  BY DEF Outside
<1>3. TypeOK'
  <2>1. \A d \in Collectors : DOMAIN work'[d] = Fields /\ work'[d].queue \in Seq(Articles)
    BY DEF IInv, TypeOK, Outside, Alone, Fields
  <2>2. work' \in [Collectors -> Range(work')]
    BY DEF Outside, Alone
  <2>3. QED
    BY <1>2, <2>1, <2>2 DEF IInv, TypeOK, Fields
<1>4. PendingIsOwned'
  <2>1. {Key(d)' : d \in {e \in Collectors : work'[e].pc \in Working}}
          = {Key(d) : d \in {e \in Collectors : work[e].pc \in Working}}
    BY <1>1, <1>2
  <2>2. \A d, e \in Collectors :
          work'[d].pc \in Working /\ work'[e].pc \in Working /\ Key(d)' = Key(e)' => d = e
    BY <1>1, <1>2 DEF IInv, PendingIsOwned
  <2>3. QED
    BY <1>2, <2>1, <2>2 DEF IInv, PendingIsOwned
<1>5. CallsAreOpen'
  BY <1>1, <1>2 DEF IInv, CallsAreOpen, Working
<1>6. IndexIsTrue' /\ RecordsAreFounded'
  BY <1>2 DEF IInv, IndexIsTrue, RecordsAreFounded
<1>7. QED
  BY <1>3, <1>4, <1>5, <1>6 DEF IInv

LEMMA RecordIsFounded ==
  ASSUME TypeOK, WorkIsScreened, NEW c \in Collectors, work[c].pc \in Working,
         NEW output \in Outputs, Rejection(c, output) = "none"
  PROVE  LET r == Record(c, output)
         IN  /\ r.article.text \in r.output.inTexts /\ ~r.output.signals
             /\ Range(r.output.entities) \subseteq r.output.mentions
             /\ r.article.published <= r.article.seen /\ r.article.seen <= r.ingested
             /\ r.certainty <= Sources[r.source].quality
             /\ r.key = Key(c)
<1> DEFINE r == Record(c, output)
<1>1. /\ r.article = Article(c) /\ r.output = output /\ r.source = work[c].source /\ r.key = Key(c)
      /\ r.ingested = clock /\ r.certainty = Min({output.certainty, Sources[work[c].source].quality})
  BY DEF Record, AvailableAt
<1> HIDE DEF r
<1>2. Quoted(c, output) /\ Supported(output) /\ ~(clock < work[c].started)
  BY DEF Rejection
<1>3. Screened(c) /\ work[c].pc \in Open /\ clock \in Nat
  BY DEF WorkIsScreened, Working, Open, TypeOK
<1>4. /\ work[c].queue # <<>> /\ work[c].source \in DOMAIN Sources /\ work[c].started \in Int
      /\ Article(c).published <= Article(c).seen /\ Article(c).seen <= work[c].started
  BY <1>3 DEF Screened
<1>5. Article(c).seen \in Int
  BY <1>4, ArticleType
<1>6. r.article.published <= r.article.seen /\ r.article.seen <= r.ingested
  BY <1>1, <1>2, <1>3, <1>4, <1>5
<1>7. r.certainty <= Sources[r.source].quality
  <2>1. output.certainty \in Int /\ Sources[work[c].source].quality \in Int
    BY <1>4, NewsAssumption
  <2>2. \A m, n \in Int : Min({m, n}) <= n
    BY DEF Min
  <2>3. QED
    BY <1>1, <2>1, <2>2
<1>8. QED
  BY <1>1, <1>2, <1>6, <1>7 DEF Quoted, Supported, r

(* The invariant over the end of an extraction, with a record or without.  *)
Outcome(o) ==
  \/ \E code : o = Failure(code)
  \/ \E output \in Outputs : o = Success(output)

Closed(c) ==
  \/ calls' = calls
  \/ work[c].pc = "waiting" /\ \E o : Outcome(o) /\ Finish(c, o)

LEMMA ClosedIsTyped ==
  ASSUME TypeOK, CallsAreOpen, NEW c \in Collectors, Closed(c)
  PROVE  \A k \in DOMAIN calls' :
           /\ DOMAIN calls'[k] = {"request", "outcome"}
           /\ calls'[k].outcome = Running
              \/ (\E code : calls'[k].outcome = Failure(code))
              \/ (\E output \in Outputs : calls'[k].outcome = Success(output))
<1>1. CASE calls' = calls
  BY <1>1 DEF TypeOK
<1>2. CASE work[c].pc = "waiting" /\ \E o : Outcome(o) /\ Finish(c, o)
  <2>1. PICK o : /\ Outcome(o)
                 /\ calls' = [calls EXCEPT ![CallKey(c)] = [calls[CallKey(c)] EXCEPT !.outcome = o]]
    BY <1>2 DEF Finish
  <2>2. CallKey(c) \in DOMAIN calls /\ DOMAIN calls[CallKey(c)] = {"request", "outcome"}
    BY <1>2 DEF CallsAreOpen, TypeOK
  <2>3. /\ DOMAIN calls' = DOMAIN calls
        /\ DOMAIN calls'[CallKey(c)] = {"request", "outcome"} /\ calls'[CallKey(c)].outcome = o
        /\ \A k \in DOMAIN calls \ {CallKey(c)} : calls'[k] = calls[k]
    BY <2>1, <2>2
  <2>4. QED
    BY <2>1, <2>3 DEF TypeOK, Outcome
<1>3. QED
  BY <1>1, <1>2 DEF Closed

(* The ways a record can be added, or not.                                 *)
Added(c) ==
  \/ UNCHANGED <<seen, records>>
  \/ \E output \in Outputs : Rejection(c, output) = "none" /\ Indexed(c, Record(c, output))

LEMMA LeavingKeeps ==
  ASSUME IInv, NEW c \in Collectors, Left(c), Closed(c), Added(c), WorkIsScreened', clock' = clock
  PROVE  IInv'
<1> USE DEF IInv
<1>1. seen' = seen \/ \E r : Indexed(c, r)
  BY DEF Added
<1>2. TypeOK'
  BY <1>1, LeavingIsTyped, ClosedIsTyped
<1>3. PendingIsOwned'
  BY <1>1, LeavingIsOwned
<1>4. CallsAreOpen'
  BY LeavingKeepsCalls
<1>5. IndexIsTrue' /\ RecordsAreFounded'
  <2>1. CASE UNCHANGED <<seen, records>>
    BY <2>1 DEF IndexIsTrue, RecordsAreFounded
  <2>2. CASE \E output \in Outputs : Rejection(c, output) = "none" /\ Indexed(c, Record(c, output))
    <3>1. PICK output \in Outputs : Rejection(c, output) = "none" /\ Indexed(c, Record(c, output))
      BY <2>2
    <3>2. IndexIsTrue'
      BY <3>1, LeavingKeepsIndex
    <3>3. records' = records \cup {Record(c, output)}
      BY <3>1 DEF Indexed
    <3>4. RecordsAreFounded'
      BY <3>1, <3>3, RecordIsFounded DEF RecordsAreFounded, Left
    <3>5. QED
      BY <3>2, <3>4
  <2>3. QED
    BY <2>1, <2>2 DEF Added
<1>6. QED
  BY <1>2, <1>3, <1>4, <1>5

(* A batch that goes on, whatever else its step does.                      *)
LEMMA MovesOn ==
  ASSUME NEW c \in Collectors, NEW result, Move(c, result, Release(c))
  PROVE  Move(c, result, TRUE) /\ Release(c)
BY DEF Move

LEMMA UnavailableKeeps ==
  ASSUME IInv, NEW c \in Collectors, work[c].pc \in Working, NEW result,
         Move(c, result, Release(c)), Closed(c), Added(c), clock' = clock
  PROVE  IInv'
<1>1. Move(c, result, TRUE) /\ Release(c) /\ work[c].queue # <<>>
  BY MovesOn DEF IInv, WorkIsScreened, Screened, Open, Working
<1>2. Moved(c)
  BY <1>1, MoveMoves DEF IInv
<1>3. Left(c)
  BY <1>1, <1>2 DEF Left, Moved, Working, Closed
<1>4. WorkIsScreened'
  BY <1>2, MovedIsScreened DEF IInv, Open, Working
<1>5. QED
  BY <1>3, <1>4, LeavingKeeps

LEMMA ExtractKeeps ==
  ASSUME IInv, NEW c \in Collectors, work[c].pc \in Working, NEW output \in Outputs,
         Extract(c, output), Closed(c), clock' = clock
  PROVE  IInv'
<1>1. CASE Rejection(c, output) # "none"
  <2>1. /\ Move(c, Status("quarantined", Rejection(c, output)), Release(c))
        /\ UNCHANGED <<seen, records>>
    BY <1>1 DEF Extract
  <2>2. QED
    BY <2>1, UnavailableKeeps DEF Added
<1>2. CASE Rejection(c, output) = "none"
  <2>1. /\ Move(c, Status("extracted", Record(c, output)), Release(c))
        /\ seen' = Put(seen, Key(c), Record(c, output)) /\ records' = records \cup {Record(c, output)}
    BY <1>2 DEF Extract
  <2>2. Record(c, output).key = Key(c)
    BY DEF Record
  <2>3. Added(c)
    BY <1>2, <2>1, <2>2 DEF Added, Indexed
  <2>4. QED
    BY <2>1, <2>3, UnavailableKeeps
<1>3. QED
  BY <1>1, <1>2

-----------------------------------------------------------------------------
(* One lemma per kind of step.                                             *)

(* What an assignment to the work of one collector leaves.                 *)
LEMMA WorkStep ==
  ASSUME TypeOK, NEW c \in Collectors, NEW w, work' = [work EXCEPT ![c] = w],
         DOMAIN w = Fields, w.queue \in Seq(Articles)
  PROVE  Alone(c) /\ work'[c] = w
<1>1. work \in [Collectors -> Range(work)]
  BY DEF TypeOK
<1>2. work' = [d \in Collectors |-> work'[d]] /\ work'[c] = w
      /\ \A d \in Collectors \ {c} : work'[d] = work[d]
  BY <1>1
<1>3. work' \in [Collectors -> Range(work')]
  BY <1>2 DEF Range
<1>4. QED
  BY <1>2, <1>3 DEF Alone

LEMMA CollectKeeps == ASSUME IInv, NEW c \in Collectors, Collect(c) PROVE IInv'
<1>1. PICK batch \in Batches[c] :
        work' = [work EXCEPT ![c] =
          IF batch.source \notin DOMAIN Sources
          THEN [Idle EXCEPT !.pc = "done", !.results = <<Status("quarantined", "unknown_source")>>]
          ELSE [Idle EXCEPT !.pc = IF batch.articles = <<>> THEN "done" ELSE "screening",
                            !.source = batch.source, !.scope = batch.scope, !.queue = batch.articles]]
  BY DEF Collect
<1>2. batch.articles \in Seq(Articles)
  BY NewsAssumption DEF AllBatches
<1>3. PICK w : /\ work' = [work EXCEPT ![c] = w]
               /\ DOMAIN w = Fields /\ w.queue \in Seq(Articles) /\ w.pc \in {"done", "screening"}
               /\ w.pc = "screening" => w.queue # <<>> /\ w.source \in DOMAIN Sources
  <2>1. CASE batch.source \notin DOMAIN Sources
    <3> DEFINE w == [Idle EXCEPT !.pc = "done", !.results = <<Status("quarantined", "unknown_source")>>]
    <3>1. DOMAIN w = Fields /\ w.queue = <<>> /\ w.pc = "done"
      BY DEF Idle, Fields
    <3>2. work' = [work EXCEPT ![c] = w]
      BY <1>1, <2>1
    <3> HIDE DEF w
    <3>3. w.queue \in Seq(Articles)
      BY <3>1
    <3>4. QED
      BY <3>1, <3>2, <3>3
  <2>2. CASE batch.source \in DOMAIN Sources
    <3> DEFINE w == [Idle EXCEPT !.pc = IF batch.articles = <<>> THEN "done" ELSE "screening",
                                 !.source = batch.source, !.scope = batch.scope, !.queue = batch.articles]
    <3>1. /\ DOMAIN w = Fields /\ w.queue = batch.articles /\ w.source = batch.source
          /\ w.pc = IF batch.articles = <<>> THEN "done" ELSE "screening"
      BY DEF Idle, Fields
    <3>2. work' = [work EXCEPT ![c] = w]
      BY <1>1, <2>2
    <3> HIDE DEF w
    <3>3. QED
      BY <1>2, <2>2, <3>1, <3>2
  <2>3. QED
    BY <2>1, <2>2
<1>4. Alone(c) /\ work'[c] = w
  BY <1>3, WorkStep DEF IInv
<1>5. Outside(c)
  BY <1>3, <1>4 DEF Outside, Collect, Working
<1>6. Screened(c)'
  BY <1>3, <1>4 DEF Screened, Open
<1>7. QED
  BY <1>4, <1>5, <1>6, OthersStayScreened, OutsideKeeps DEF IInv

LEMMA RefusedKeeps ==
  ASSUME IInv, NEW c \in Collectors, work[c].pc \in {"screening", "screened"}, NEW result,
         Move(c, result, TRUE), UNCHANGED <<clock, seen, pending, calls, records>>
  PROVE  IInv'
<1>1. work[c].queue # <<>>
  BY DEF IInv, WorkIsScreened, Screened, Open
<1>2. Moved(c)
  BY <1>1, MoveMoves DEF IInv
<1>3. Outside(c)
  BY <1>2 DEF Moved, Outside, Working
<1>4. WorkIsScreened'
  BY <1>2, MovedIsScreened DEF IInv, Open
<1>5. QED
  BY <1>3, <1>4, OutsideKeeps

(* A collector that goes on to its next stage with the article it has.     *)
GoesOn(c, pc) ==
  /\ Alone(c)
  /\ work'[c].pc = pc /\ work'[c].queue = work[c].queue
  /\ work'[c].source = work[c].source /\ work'[c].scope = work[c].scope

LEMMA GoingOnKeepsKey ==
  ASSUME NEW c \in Collectors, NEW pc, GoesOn(c, pc)
  PROVE  /\ Article(c)' = Article(c) /\ Key(c)' = Key(c) /\ CallKey(c)' = CallKey(c)
         /\ \A d \in Collectors : Key(d)' = Key(d) /\ CallKey(d)' = CallKey(d)
<1>1. Article(c)' = Article(c) /\ Key(c)' = Key(c) /\ CallKey(c)' = CallKey(c)
  BY DEF GoesOn, Article, Key, CallKey
<1>2. QED
  BY <1>1, OthersKeep DEF GoesOn

LEMMA PcStep ==
  ASSUME TypeOK, NEW c \in Collectors, NEW pc, work' = [work EXCEPT ![c].pc = pc]
  PROVE  GoesOn(c, pc) /\ work'[c].started = work[c].started
<1> DEFINE w == [work[c] EXCEPT !.pc = pc]
<1>1. DOMAIN work[c] = Fields /\ work[c].queue \in Seq(Articles)
  BY DEF TypeOK, Fields
<1>2. /\ DOMAIN w = Fields /\ w.queue = work[c].queue /\ w.pc = pc /\ w.source = work[c].source
      /\ w.scope = work[c].scope /\ w.started = work[c].started
  BY <1>1 DEF Fields
<1>3. work' = [work EXCEPT ![c] = w]
  OBVIOUS
<1> HIDE DEF w
<1>4. Alone(c) /\ work'[c] = w
  BY <1>1, <1>2, <1>3, WorkStep
<1>5. QED
  BY <1>2, <1>4 DEF GoesOn

LEMMA ScreenKeeps == ASSUME IInv, NEW c \in Collectors, Screen(c) PROVE IInv'
<1>1. work[c].pc = "screening" /\ UNCHANGED <<clock, seen, pending, calls, records>>
  BY DEF Screen
<1>2. CASE ScreenReason(c) # "none"
  BY <1>1, <1>2, RefusedKeeps DEF Screen
<1>3. CASE ScreenReason(c) = "none"
  <2> DEFINE w == [work[c] EXCEPT !.pc = "screened", !.started = clock]
  <2>1. DOMAIN work[c] = Fields /\ work[c].queue \in Seq(Articles) /\ work[c].queue # <<>>
        /\ work[c].source \in DOMAIN Sources
    BY <1>1 DEF IInv, TypeOK, Fields, WorkIsScreened, Screened
  <2>2. /\ DOMAIN w = Fields /\ w.queue = work[c].queue /\ w.pc = "screened" /\ w.source = work[c].source
        /\ w.started = clock
    BY <2>1 DEF Fields
  <2>3. work' = [work EXCEPT ![c] = w]
    <3>1. work' = [work EXCEPT ![c].pc = "screened", ![c].started = clock]
      BY <1>3 DEF Screen
    <3>2. DOMAIN work = Collectors
      BY DEF IInv, TypeOK
    <3>3. QED
      BY <2>1, <3>1, <3>2 DEF Fields
  <2> HIDE DEF w
  <2>4. Alone(c) /\ work'[c] = w
    BY <2>1, <2>2, <2>3, WorkStep DEF IInv
  <2>5. Outside(c)
    BY <1>1, <2>2, <2>4 DEF Outside, Working
  <2>6. Article(c).published <= Article(c).seen /\ Article(c).seen <= clock
    <3>1. ~(Article(c).published > Article(c).seen \/ Article(c).seen > clock)
      BY <1>3 DEF ScreenReason
    <3>2. Article(c).published \in Int /\ Article(c).seen \in Int /\ clock \in Int
      BY <2>1, ArticleType DEF IInv, TypeOK
    <3>3. QED
      BY <3>1, <3>2
  <2>7. Article(c)' = Article(c)
    BY <2>2, <2>4 DEF Article
  <2>8. clock \in Int
    BY DEF IInv, TypeOK
  <2>9. Screened(c)'
    BY <2>1, <2>2, <2>4, <2>6, <2>7, <2>8 DEF Screened
  <2>10. QED
    BY <2>4, <2>5, <2>9, OthersStayScreened, OutsideKeeps DEF IInv
<1>4. QED
  BY <1>2, <1>3

LEMMA GoingOnStaysScreened ==
  ASSUME IInv, NEW c \in Collectors, NEW pc \in Working, GoesOn(c, pc),
         work'[c].started = work[c].started, work[c].pc \in Open
  PROVE  WorkIsScreened'
<1>1. Article(c)' = Article(c)
  BY GoingOnKeepsKey
<1>2. Screened(c)
  BY DEF IInv, WorkIsScreened
<1>3. Screened(c)'
  BY <1>1, <1>2 DEF Screened, GoesOn, Open, Working
<1>4. QED
  BY <1>3, OthersStayScreened DEF IInv, GoesOn

LEMMA AdmitKeeps == ASSUME IInv, NEW c \in Collectors, Admit(c) PROVE IInv'
<1>1. work[c].pc = "screened" /\ UNCHANGED <<clock, seen, calls, records>>
  BY DEF Admit
<1>2. CASE Admission(c).status # "admitted"
  <2>1. Move(c, Admission(c), pending' = pending)
    BY <1>2 DEF Admit
  <2>2. Move(c, Admission(c), TRUE) /\ pending' = pending
    BY <2>1 DEF Move
  <2>3. QED
    BY <1>1, <2>2, RefusedKeeps
<1>3. CASE Admission(c).status = "admitted"
  <2>1. pending' = pending \cup {Key(c)} /\ work' = [work EXCEPT ![c].pc = "asking"]
    BY <1>3 DEF Admit
  <2>2. GoesOn(c, "asking") /\ work'[c].started = work[c].started
    BY <2>1, PcStep DEF IInv
  <2>3. \A d \in Collectors : Key(d)' = Key(d) /\ CallKey(d)' = CallKey(d)
    BY <2>2, GoingOnKeepsKey
  <2>4. \A d \in Collectors \ {c} : work'[d] = work[d]
    BY <2>2 DEF GoesOn, Alone
  <2>5. work'[c].pc = "asking"
    BY <2>2 DEF GoesOn
  <2>6. /\ Key(c) \notin DOMAIN seen /\ Key(c) \notin pending
        /\ ~(Cardinality(DOMAIN seen) + Cardinality(pending) >= Capacity)
    BY <1>3 DEF Admission, Status
  <2>7. IsFiniteSet(DOMAIN seen) /\ IsFiniteSet(pending) /\ IsFiniteSet(pending')
    BY <2>1, FS_AddElement DEF IInv, TypeOK
  <2>8. TypeOK'
    <3>1. \A d \in Collectors : DOMAIN work'[d] = Fields /\ work'[d].queue \in Seq(Articles)
      BY <2>2 DEF IInv, TypeOK, GoesOn, Alone, Fields
    <3>2. work' \in [Collectors -> Range(work')]
      BY <2>2 DEF GoesOn, Alone
    <3>3. QED
      BY <1>1, <2>7, <3>1, <3>2 DEF IInv, TypeOK, Fields
  <2>9. PendingIsOwned'
    <3>1. \A d \in Collectors : work'[d].pc \in Working <=> d = c \/ work[d].pc \in Working
      BY <2>4, <2>5 DEF Working
    <3>2. pending' = {Key(d)' : d \in {e \in Collectors : work'[e].pc \in Working}}
      BY <2>1, <2>3, <3>1 DEF IInv, PendingIsOwned
    <3>3. \A d, e \in Collectors :
            work'[d].pc \in Working /\ work'[e].pc \in Working /\ Key(d)' = Key(e)' => d = e
      BY <2>3, <2>6, <3>1 DEF IInv, PendingIsOwned
    <3>4. pending' \cap DOMAIN seen' = {}
      BY <1>1, <2>1, <2>6 DEF IInv, PendingIsOwned
    <3>5. Cardinality(DOMAIN seen' \cup pending') <= Capacity
      <4>1. Cardinality(pending') = Cardinality(pending) + 1
        BY <2>1, <2>6, <2>7, FS_AddElement
      <4>2. Cardinality(DOMAIN seen \cup pending')
              = Cardinality(DOMAIN seen) + Cardinality(pending') - Cardinality(DOMAIN seen \cap pending')
        BY <2>7, FS_Union
      <4>3. /\ Cardinality(DOMAIN seen) \in Nat /\ Cardinality(pending) \in Nat
            /\ Cardinality(DOMAIN seen \cap pending') \in Nat
        BY <2>7, FS_CardinalityType, FS_Intersection
      <4>4. QED
        BY <1>1, <2>6, <4>1, <4>2, <4>3, NewsAssumption
    <3>6. QED
      BY <3>2, <3>3, <3>4, <3>5 DEF PendingIsOwned
  <2>10. CallsAreOpen'
    BY <1>1, <2>3, <2>4, <2>5 DEF IInv, CallsAreOpen
  <2>11. IndexIsTrue' /\ RecordsAreFounded'
    BY <1>1 DEF IInv, IndexIsTrue, RecordsAreFounded
  <2>12. WorkIsScreened'
    BY <1>1, <2>2, GoingOnStaysScreened DEF Open, Working
  <2>13. QED
    BY <2>8, <2>9, <2>10, <2>11, <2>12 DEF IInv
<1>4. QED
  BY <1>2, <1>3

LEMMA AskKeeps == ASSUME IInv, NEW c \in Collectors, Ask(c) PROVE IInv'
<1> DEFINE call == [request |-> Request(c), outcome |-> Running]
<1>1. /\ work[c].pc = "asking" /\ CallKey(c) \notin DOMAIN calls
      /\ calls' = [k \in DOMAIN calls \cup {CallKey(c)} |-> IF k = CallKey(c) THEN call ELSE calls[k]]
      /\ UNCHANGED <<clock, seen, pending, records>>
  BY DEF Ask, Put
<1>2. GoesOn(c, "waiting") /\ work'[c].started = work[c].started
  BY PcStep DEF IInv, Ask
<1>3. \A d \in Collectors : Key(d)' = Key(d) /\ CallKey(d)' = CallKey(d)
  BY <1>2, GoingOnKeepsKey
<1>4. /\ \A d \in Collectors \ {c} : work'[d] = work[d]
      /\ work'[c].pc = "waiting"
  BY <1>2 DEF GoesOn, Alone
<1>5. DOMAIN call = {"request", "outcome"} /\ call.outcome = Running
  OBVIOUS
<1> HIDE DEF call
<1>6. TypeOK'
  <2>1. \A d \in Collectors : DOMAIN work'[d] = Fields /\ work'[d].queue \in Seq(Articles)
    BY <1>2 DEF IInv, TypeOK, GoesOn, Alone, Fields
  <2>2. work' \in [Collectors -> Range(work')]
    BY <1>2 DEF GoesOn, Alone
  <2>3. \A k \in DOMAIN calls' :
          /\ DOMAIN calls'[k] = {"request", "outcome"}
          /\ calls'[k].outcome = Running
             \/ (\E code : calls'[k].outcome = Failure(code))
             \/ (\E output \in Outputs : calls'[k].outcome = Success(output))
    BY <1>1, <1>5 DEF IInv, TypeOK
  <2>4. QED
    BY <1>1, <2>1, <2>2, <2>3 DEF IInv, TypeOK, Fields
<1>7. PendingIsOwned'
  <2>1. \A d \in Collectors : work'[d].pc \in Working <=> work[d].pc \in Working
    BY <1>1, <1>4 DEF Working
  <2>2. pending' = {Key(d)' : d \in {e \in Collectors : work'[e].pc \in Working}}
    BY <1>1, <1>3, <2>1 DEF IInv, PendingIsOwned
  <2>3. \A d, e \in Collectors :
          work'[d].pc \in Working /\ work'[e].pc \in Working /\ Key(d)' = Key(e)' => d = e
    BY <1>3, <2>1 DEF IInv, PendingIsOwned
  <2>4. QED
    BY <1>1, <2>2, <2>3 DEF IInv, PendingIsOwned
<1>8. CallsAreOpen'
  <2> SUFFICES ASSUME NEW d \in Collectors, work'[d].pc = "waiting"
               PROVE  CallKey(d) \in DOMAIN calls' /\ calls'[CallKey(d)].outcome = Running
    BY <1>3 DEF CallsAreOpen
  <2>1. CASE d = c
    BY <1>1, <1>5, <2>1
  <2>2. CASE d # c
    <3>1. CallKey(d) \in DOMAIN calls /\ calls[CallKey(d)].outcome = Running
      BY <1>4, <2>2 DEF IInv, CallsAreOpen
    <3>2. QED
      BY <1>1, <3>1
  <2>3. QED
    BY <2>1, <2>2
<1>9. IndexIsTrue' /\ RecordsAreFounded'
  BY <1>1 DEF IInv, IndexIsTrue, RecordsAreFounded
<1>10. WorkIsScreened'
  BY <1>1, <1>2, GoingOnStaysScreened DEF Open, Working
<1>11. QED
  BY <1>6, <1>7, <1>8, <1>9, <1>10 DEF IInv

LEMMA AskAgainKeeps == ASSUME IInv, NEW c \in Collectors, AskAgain(c) PROVE IInv'
<1>1. /\ work[c].pc \in Working /\ CallKey(c) \in DOMAIN calls
      /\ clock' = clock /\ Closed(c)
  BY DEF AskAgain, Working, Closed
<1>2. CASE \E code : Unavailable(c, code)
  BY <1>1, <1>2, UnavailableKeeps DEF Unavailable, Added
<1>3. CASE /\ calls[CallKey(c)].outcome # Running /\ calls[CallKey(c)].outcome.status # "failure"
           /\ Extract(c, calls[CallKey(c)].outcome.output)
  <2>1. PICK output \in Outputs : calls[CallKey(c)].outcome = Success(output)
    <3>1. \A code : Failure(code).status = "failure"
      BY DEF Failure
    <3>2. QED
      BY <1>1, <1>3, <3>1 DEF IInv, TypeOK
  <2>2. Extract(c, output)
    BY <1>3, <2>1 DEF Success
  <2>3. QED
    BY <1>1, <2>2, ExtractKeeps
<1>4. QED
  BY <1>2, <1>3 DEF AskAgain

LEMMA AnswerKeeps == ASSUME IInv, NEW c \in Collectors, Answer(c) PROVE IInv'
<1>1. work[c].pc \in Working /\ work[c].pc = "waiting" /\ clock' = clock
  BY DEF Answer, Working
<1>2. PICK output \in Outputs : Finish(c, Success(output)) /\ Extract(c, output)
  BY DEF Answer
<1>3. Outcome(Success(output))
  BY DEF Outcome
<1>4. Closed(c)
  BY <1>1, <1>2, <1>3 DEF Closed
<1>5. QED
  BY <1>1, <1>2, <1>4, ExtractKeeps

LEMMA FailKeeps == ASSUME IInv, NEW c \in Collectors, Fail(c) PROVE IInv'
<1>1. work[c].pc \in Working /\ work[c].pc = "waiting" /\ clock' = clock
  BY DEF Fail, Working
<1>2. PICK code \in Codes : Finish(c, Failure(code)) /\ Unavailable(c, code)
  BY DEF Fail
<1>3. Outcome(Failure(code))
  BY DEF Outcome
<1>4. Closed(c)
  BY <1>1, <1>2, <1>3 DEF Closed
<1>5. QED
  BY <1>1, <1>2, <1>4, UnavailableKeeps DEF Unavailable, Added

LEMMA CancelledKeeps == ASSUME IInv, NEW c \in Collectors, Cancelled(c) PROVE IInv'
<1>1. /\ work[c].pc = "waiting" /\ Finish(c, Failure("cancelled")) /\ Release(c)
      /\ UNCHANGED <<clock, seen, records>>
  BY DEF Cancelled
<1>2. GoesOn(c, "cancelled")
  BY PcStep DEF IInv, Cancelled
<1>3. Closed(c)
  BY <1>1 DEF Closed, Outcome
<1>4. Left(c)
  BY <1>1, <1>2 DEF Left, GoesOn, Working
<1>5. Screened(c)'
  BY <1>2 DEF Screened, GoesOn, Open
<1>6. QED
  BY <1>1, <1>2, <1>3, <1>4, <1>5, OthersStayScreened, LeavingKeeps DEF GoesOn, Added, IInv

LEMMA CollectAgainKeeps == ASSUME IInv, NEW c \in Collectors, CollectAgain(c) PROVE IInv'
<1>1. work[c].pc = "cancelled" /\ work' = [work EXCEPT ![c] = Idle]
  BY DEF CollectAgain
<1>2. DOMAIN Idle = Fields /\ Idle.queue \in Seq(Articles) /\ Idle.pc = "idle"
  BY DEF Idle, Fields
<1>3. Alone(c) /\ work'[c] = Idle
  BY <1>1, <1>2, WorkStep DEF IInv
<1>4. Outside(c)
  BY <1>1, <1>2, <1>3 DEF Outside, CollectAgain, Working
<1>5. Screened(c)'
  BY <1>2, <1>3 DEF Screened, Open
<1>6. QED
  BY <1>3, <1>4, <1>5, OthersStayScreened, OutsideKeeps DEF IInv
-----------------------------------------------------------------------------
LEMMA InitInv == Init => IInv
<1> SUFFICES ASSUME Init PROVE IInv
  OBVIOUS
<1>1. /\ clock = 0 /\ seen = <<>> /\ pending = {} /\ calls = <<>> /\ records = {}
      /\ work = [c \in Collectors |-> Idle]
  BY DEF Init
<1>2. DOMAIN Idle = Fields /\ Idle.queue \in Seq(Articles) /\ Idle.pc = "idle"
  BY DEF Idle, Fields
<1>3. \A c \in Collectors : work[c] = Idle /\ work[c].pc \notin Open \cup {"screening"}
  BY <1>1, <1>2 DEF Open
<1>4. TypeOK
  <2>1. IsFiniteSet(DOMAIN seen) /\ IsFiniteSet(pending)
    BY <1>1, FS_EmptySet
  <2>2. work \in [Collectors -> Range(work)]
    BY <1>1 DEF Range
  <2>3. QED
    BY <1>1, <1>2, <1>3, <2>1, <2>2 DEF TypeOK, Fields
<1>5. PendingIsOwned
  <2>1. Cardinality(DOMAIN seen \cup pending) = 0
    BY <1>1, FS_EmptySet
  <2>2. QED
    BY <1>1, <1>3, <2>1, NewsAssumption DEF PendingIsOwned, Open, Working
<1>6. WorkIsScreened /\ CallsAreOpen
  BY <1>3 DEF WorkIsScreened, Screened, CallsAreOpen, Open
<1>7. IndexIsTrue /\ RecordsAreFounded
  BY <1>1 DEF IndexIsTrue, RecordsAreFounded
<1>8. QED
  BY <1>4, <1>5, <1>6, <1>7 DEF IInv

LEMMA ClockKeeps ==
  ASSUME IInv, clock' \in Nat, UNCHANGED <<seen, pending, calls, work, records>>
  PROVE  IInv'
<1>1. TypeOK'
  BY DEF IInv, TypeOK
<1>2. \A c \in Collectors : Key(c)' = Key(c) /\ CallKey(c)' = CallKey(c) /\ Article(c)' = Article(c)
  BY DEF Key, CallKey, Article
<1>3. WorkIsScreened'
  BY <1>2 DEF IInv, WorkIsScreened, Screened
<1>4. PendingIsOwned'
  BY <1>2 DEF IInv, PendingIsOwned
<1>5. CallsAreOpen' /\ IndexIsTrue' /\ RecordsAreFounded'
  BY <1>2 DEF IInv, CallsAreOpen, IndexIsTrue, RecordsAreFounded
<1>6. QED
  BY <1>1, <1>3, <1>4, <1>5 DEF IInv

LEMMA NextKeeps == ASSUME IInv, [Next]_vars PROVE IInv'
<1>1. ASSUME NEW c \in Collectors,
             \/ Collect(c) \/ Screen(c) \/ Admit(c) \/ Ask(c) \/ AskAgain(c)
             \/ Answer(c) \/ Fail(c) \/ Cancelled(c) \/ CollectAgain(c)
      PROVE  IInv'
  BY <1>1, CollectKeeps, ScreenKeeps, AdmitKeeps, AskKeeps, AskAgainKeeps, AnswerKeeps, FailKeeps,
     CancelledKeeps, CollectAgainKeeps
<1>2. CASE Tick \/ StepBack
  <2>1. clock' \in Nat
    BY <1>2 DEF Tick, StepBack, IInv, TypeOK
  <2>2. QED
    BY <1>2, <2>1, ClockKeeps DEF Tick, StepBack
<1>3. CASE UNCHANGED vars
  <2>1. clock' \in Nat
    BY <1>3 DEF vars, IInv, TypeOK
  <2>2. QED
    BY <1>3, <2>1, ClockKeeps DEF vars
<1>4. QED
  BY <1>1, <1>2, <1>3 DEF Next

-----------------------------------------------------------------------------
(* IInv holds in every state the pipeline can reach.                       *)
THEOREM Invariance == Spec => []IInv
<1>1. Init => IInv
  BY InitInv
<1>2. IInv /\ [Next]_vars => IInv'
  BY NextKeeps
<1>3. QED
  BY <1>1, <1>2, PTL DEF Spec

(* A text becomes evidence once per agent version, whichever collectors bring it at a time, and
   evidence is founded on its own article (pipeline.py:162-185, 207-241, 298).                    *)
THEOREM EvidenceIsSound == Spec => []RecordsAreSound
<1>1. IInv => RecordsAreSound
  BY DEF IInv, IndexIsTrue, RecordsAreSound, OneRecordPerText
<1>2. QED
  BY <1>1, Invariance, PTL

(* A key is pending exactly while one collector extracts it, and the index with what is on its
   way fits its capacity (pipeline.py:176-185, 303-307).                                          *)
THEOREM NothingIsSuppressed == Spec => []NothingStaysPending
<1>1. IInv => NothingStaysPending
  BY DEF IInv, PendingIsOwned, NothingStaysPending, Working
<1>2. QED
  BY <1>1, Invariance, PTL

(* A step adds the record of one answer at most, dated by the clock it is read at.                *)
LEMMA RecordsGrow ==
  ASSUME [Next]_vars, NEW r \in records' \ records
  PROVE  r.ingested = clock
<1>1. ASSUME NEW c \in Collectors, NEW output, Extract(c, output)
      PROVE  r.ingested = clock
  <2>1. r = Record(c, output)
    BY <1>1 DEF Extract
  <2>2. QED
    BY <2>1 DEF Record, AvailableAt
<1>2. ASSUME NEW c \in Collectors, AskAgain(c)
      PROVE  r.ingested = clock
  <2>1. ~(\E code : Unavailable(c, code))
    BY DEF Unavailable
  <2>2. Extract(c, calls[CallKey(c)].outcome.output)
    BY <1>2, <2>1 DEF AskAgain
  <2>3. QED
    BY <1>1, <2>2
<1>3. ASSUME NEW c \in Collectors, Answer(c)
      PROVE  r.ingested = clock
  BY <1>1, <1>3 DEF Answer
<1>4. \A c \in Collectors : ~(Collect(c) \/ Screen(c) \/ Admit(c) \/ Ask(c) \/ Fail(c) \/ Cancelled(c)
                              \/ CollectAgain(c))
  BY DEF Collect, Screen, Admit, Ask, Fail, Cancelled, CollectAgain, Unavailable
<1>5. ~(Tick \/ StepBack \/ UNCHANGED vars)
  BY DEF Tick, StepBack, vars
<1>6. QED
  BY <1>2, <1>3, <1>4, <1>5 DEF Next

(* Fresh extraction is never backdated: what a decision at an earlier time may cite stays as it
   was, however long the calls take and however the clock is corrected (pipeline.py:217, 310-322). *)
THEOREM EvidenceIsDatedWhenItCame == Spec => NeverBackdated
<1> DEFINE Dated == \A r \in records' \ records, asOf \in 0..(clock - 1) :
                      ~(r.ingested <= asOf)
<1>1. IInv /\ [Next]_vars => Dated
  <2> SUFFICES ASSUME IInv, [Next]_vars, NEW r \in records' \ records, NEW asOf \in 0..(clock - 1)
               PROVE  ~(r.ingested <= asOf)
    OBVIOUS
  <2>1. r.ingested = clock
    BY RecordsGrow
  <2>2. clock \in Nat
    BY DEF IInv, TypeOK
  <2>3. QED
    BY <2>1, <2>2
<1>2. Dated => [\A r \in records' \ records, asOf \in 0..(clock - 1) :
                  r \notin Available(r.workspace, asOf)']_records
  BY DEF Available
<1>3. QED
  BY <1>1, <1>2, Invariance, PTL DEF Spec, NeverBackdated
=============================================================================
