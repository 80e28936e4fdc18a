----------------------------- MODULE ModelBudgetProofs -----------------------------
(***************************************************************************)
(* Proofs about ModelBudget, for any calls, keys, agents, decisions,       *)
(* limits and minute.  IInv says what the counters of the ledger stand     *)
(* for: each equals the total of the tickets charged to it.                *)
(***************************************************************************)
EXTENDS ModelBudget, TotalsProofs

KeyOf(a) == RequestOf[a].key

Active(a) == call[a].pc \in {"reserved", "waiting"}

(* A call that has reserved owns the ticket of its key, which is open until it settles; only then
   may the provider have billed anything, and never more than the ticket then says.              *)
TicketsAreOwned ==
  /\ \A a \in Attempts : Active(a) => /\ KeyOf(a) \in DOMAIN tickets
                                      /\ tickets[KeyOf(a)].open
                                      /\ tickets[KeyOf(a)].fingerprint = RequestOf[a]
  /\ \A a, b \in Attempts : Active(a) /\ Active(b) /\ KeyOf(a) = KeyOf(b) => a = b
  /\ \A a \in Attempts : call[a].pc = "reserved" => billed[KeyOf(a)].asked = 0
  /\ \A k \in Keys \ DOMAIN tickets : billed[k].asked = 0 /\ billed[k].units = 0
  /\ \A k \in DOMAIN tickets :
       /\ tickets[k].at <= clock
       /\ CycleOf(tickets[k].fingerprint) \in DOMAIN cycles
       /\ tickets[k].open => tickets[k].actual = tickets[k].reserved /\ billed[k].units = 0
       /\ billed[k].units <= tickets[k].actual

Charged(keys) == Total([k \in keys |-> tickets[k].actual])

(* Every counter is the total of the tickets it was charged for.           *)
BooksAreTrue ==
  /\ \A s \in Scopes, d \in Days :
       /\ days[s][d].units = Charged(TicketsOf(s, d))
       /\ days[s][d].calls = Cardinality(TicketsOf(s, d))
  /\ \A c \in DOMAIN cycles :
       /\ cycles[c].units = Charged(TicketsIn(c))
       /\ cycles[c].calls = Cardinality(TicketsIn(c))

Since(s, n) ==
  {k \in DOMAIN tickets : s \in ScopesOf(tickets[k].fingerprint) /\ tickets[k].at > n}

(* What is left of a list of times after any of them accounts for every call that is younger, so
   that what pruning takes away no window of the last minute misses.                             *)
RatesAreKept ==
  \A s \in Scopes : \A j \in 0..Len(rates[s]) : \A n \in Int :
    n >= clock - Minute /\ (j # 0 => rates[s][j] <= n)
      => Cardinality(Since(s, n)) <= Len(rates[s]) - j

IInv ==
  /\ TypeOK
  /\ TicketsAreOwned
  /\ BooksAreTrue
  /\ RatesAreKept
  /\ LimitsHold
  /\ RateHolds
  /\ AskedOnce
-----------------------------------------------------------------------------
(* What the operators of the model return.                                 *)

LEMMA RequestTypes ==
  ASSUME NEW a \in Attempts
  PROVE  /\ RequestOf[a] \in Requests /\ KeyOf(a) \in Keys
         /\ RequestOf[a].bound \in Nat /\ RequestOf[a].version \in Versions
         /\ ScopesOf(RequestOf[a]) \subseteq Scopes
         /\ CycleOf(RequestOf[a]) \in Agents \X Decisions
BY BudgetAssumption DEF Requests, KeyOf, Keys, ScopesOf, Scopes, CycleOf

LEMMA BoundTypes ==
  /\ MaxDay \in Nat
  /\ {CycleUnits, CycleCalls, CycleTime, Minute, CallTimeout, Capacity, Overrun} \subseteq Nat
  /\ \A s \in Scopes : {DailyUnits[s], DailyCalls[s], MinuteCalls[s]} \subseteq Nat
BY BudgetAssumption

LEMMA CycleType ==
  ASSUME TypeOK, NEW a \in Attempts
  PROVE  Cycle(RequestOf[a]) \in [version : Versions, deadline : Nat, units : Int, calls : Nat]
BY RequestTypes, BoundTypes DEF TypeOK, Cycle

(* Pruning takes a number of times away from the front, all a minute old.  *)
LEMMA RecentIsSuffix ==
  ASSUME TypeOK, NEW s \in Scopes
  PROVE  \E d \in 0..Len(rates[s]) :
           /\ Recent(s) \in Seq(Nat) /\ Len(Recent(s)) = Len(rates[s]) - d
           /\ \A j \in 1..(Len(rates[s]) - d) : Recent(s)[j] = rates[s][j + d]
           /\ d # 0 => rates[s][d] <= clock - Minute
<1>1. rates[s] \in Seq(Nat) /\ Len(rates[s]) \in Nat
  BY DEF TypeOK
<1>2. Old(s) \in SUBSET (1..Len(rates[s])) /\ \A i \in Old(s) : \A j \in 1..i : j \in Old(s)
  BY SMTT(40), <1>1 DEF Old
<1>3. Cardinality(Old(s)) \in 0..Len(rates[s]) /\ Old(s) = 1..Cardinality(Old(s))
  BY <1>1, <1>2, PrefixIsInterval
<1>4. PICK d \in 0..Len(rates[s]) : d = Cardinality(Old(s)) /\ Old(s) = 1..d
  BY <1>3
<1>5. d # 0 => rates[s][d] <= clock - Minute
  <2>1. d # 0 => d \in 1..d
    BY <1>1
  <2>2. QED
    BY <1>4, <2>1 DEF Old
<1>6. Recent(s) = SubSeq(rates[s], d + 1, Len(rates[s]))
  BY <1>4 DEF Recent, Kept
<1>7. /\ Recent(s) \in Seq(Nat) /\ Len(Recent(s)) = Len(rates[s]) - d
      /\ \A j \in 1..(Len(rates[s]) - d) : Recent(s)[j] = rates[s][j + d]
  BY <1>1, <1>6
<1>8. QED
  BY <1>5, <1>7

LEMMA RecentType ==
  ASSUME TypeOK, NEW s \in Scopes
  PROVE  Recent(s) \in Seq(Nat) /\ Len(Recent(s)) \in Nat
BY RecentIsSuffix

Bill == [asked : Nat, units : Nat, priced : BOOLEAN]

(* A call that ends with its reservation settled, however it ended.        *)
Settles(a, usage, outcome) ==
  /\ Active(a) /\ Finish(a, usage, outcome)
  /\ billed' \in [Keys -> Bill]
  /\ \A k \in Keys : billed'[k].asked = billed[k].asked
  /\ \A k \in Keys \ {KeyOf(a)} : billed'[k].units = billed[k].units
  /\ billed'[KeyOf(a)].units
       <= billed[KeyOf(a)].units + SettledCharge(tickets[KeyOf(a)], usage)
  /\ UNCHANGED <<clock, day>>

Settled(a) ==
  \E usage \in Nat \union {Unknown}, outcome \in {"success", "failure"} : Settles(a, usage, outcome)

LEMMA BilledMore ==
  ASSUME NEW b \in [Keys -> Bill], NEW k \in Keys, NEW n \in Nat
  PROVE  LET c == [b EXCEPT ![k].units = @ + n]
         IN  /\ c \in [Keys -> Bill] /\ \A j \in Keys : c[j].asked = b[j].asked
             /\ c[k].units = b[k].units + n /\ \A j \in Keys \ {k} : c[j] = b[j]
BY DEF Bill

LEMMA Mispriced ==
  ASSUME NEW b \in [Keys -> Bill], NEW k \in Keys
  PROVE  LET c == [b EXCEPT ![k].priced = FALSE]
         IN  /\ c \in [Keys -> Bill]
             /\ \A j \in Keys : c[j].asked = b[j].asked /\ c[j].units = b[j].units
BY DEF Bill

LEMMA EndsSettle ==
  ASSUME TypeOK, TicketsAreOwned, NEW a \in Attempts,
         \/ TooLate(a)
         \/ \E units \in 0..MaxBound + Overrun, valid, same \in BOOLEAN : Answer(a, units, valid, same)
         \/ \E units \in 0..MaxBound : NoUsage(a, units)
  PROVE  Settled(a)
<1>1. /\ KeyOf(a) \in Keys /\ billed \in [Keys -> Bill]
      /\ Active(a) => KeyOf(a) \in DOMAIN tickets /\ tickets[KeyOf(a)] \in Ticket
  BY RequestTypes DEF TicketsAreOwned, TypeOK, Bill
<1>2. CASE TooLate(a)
  <2>1. Active(a) /\ UNCHANGED <<clock, day, billed>> /\ Finish(a, Unknown, "failure")
    BY <1>2 DEF TooLate, Active
  <2>2. SettledCharge(tickets[KeyOf(a)], Unknown) \in Nat
    BY <1>1, <2>1 DEF SettledCharge, Ticket
  <2>3. Settles(a, Unknown, "failure")
    BY <1>1, <2>1, <2>2 DEF Settles, Bill
  <2>4. QED
    BY <2>3 DEF Settled
<1>3. ASSUME NEW units \in 0..MaxBound + Overrun, NEW valid \in BOOLEAN, NEW same \in BOOLEAN,
             Answer(a, units, valid, same)
      PROVE  Settled(a)
  <2>1. Active(a) /\ UNCHANGED <<clock, day>> /\ units \in Nat
    BY <1>3 DEF Answer, Active
  <2>2. PICK outcome \in {"success", "failure"} : Finish(a, UsageOf(a, units, same), outcome)
    BY <1>3 DEF Answer
  <2>3. UsageOf(a, units, same) \in Nat \union {Unknown}
    BY <2>1 DEF UsageOf
  <2>4. SettledCharge(tickets[KeyOf(a)], UsageOf(a, units, same)) \in Nat
    BY <1>1, <2>1, <2>3 DEF SettledCharge, Ticket, Unknown
  <2>5. same => SettledCharge(tickets[KeyOf(a)], UsageOf(a, units, same)) = units
    BY <2>1 DEF SettledCharge, UsageOf, Unknown
  <2>6. Settles(a, UsageOf(a, units, same), outcome)
    <3>1. CASE same
      <4>1. /\ billed' \in [Keys -> Bill] /\ \A j \in Keys : billed'[j].asked = billed[j].asked
            /\ billed'[KeyOf(a)].units = billed[KeyOf(a)].units + units
            /\ \A j \in Keys \ {KeyOf(a)} : billed'[j] = billed[j]
        <5>1. billed' = [billed EXCEPT ![KeyOf(a)].units = @ + units]
          BY <1>3, <3>1 DEF Answer, Bills, KeyOf
        <5>2. QED
          BY <1>1, <2>1, <5>1, BilledMore
      <4>2. SettledCharge(tickets[KeyOf(a)], UsageOf(a, units, same)) = units
        BY <2>5, <3>1
      <4>3. billed[KeyOf(a)].units \in Nat
        BY <1>1 DEF Bill
      <4>4. QED
        BY <2>1, <2>2, <4>1, <4>2, <4>3 DEF Settles
    <3>2. CASE ~same
      <4>1. /\ billed' \in [Keys -> Bill]
            /\ \A j \in Keys : /\ billed'[j].asked = billed[j].asked
                               /\ billed'[j].units = billed[j].units
        <5>1. billed' = [billed EXCEPT ![KeyOf(a)].priced = FALSE]
          BY <1>3, <3>2 DEF Answer, Misprices, KeyOf
        <5>2. QED
          BY <1>1, <5>1, Mispriced
      <4>2. QED
        BY <1>1, <2>1, <2>2, <2>4, <4>1 DEF Settles, Bill
    <3>3. QED
      BY <3>1, <3>2
  <2>7. QED
    BY <2>2, <2>3, <2>6 DEF Settled
<1>4. ASSUME NEW units \in 0..MaxBound, NoUsage(a, units) PROVE Settled(a)
  <2>1. /\ Active(a) /\ UNCHANGED <<clock, day>> /\ units \in Nat
        /\ Finish(a, Unknown, "failure") /\ units <= tickets[KeyOf(a)].reserved
        /\ billed' = [billed EXCEPT ![KeyOf(a)].units = @ + units]
    BY <1>4 DEF NoUsage, Active, Bills, KeyOf
  <2>2. SettledCharge(tickets[KeyOf(a)], Unknown) = tickets[KeyOf(a)].reserved
    BY DEF SettledCharge
  <2>3. /\ billed' \in [Keys -> Bill] /\ \A j \in Keys : billed'[j].asked = billed[j].asked
        /\ billed'[KeyOf(a)].units = billed[KeyOf(a)].units + units
        /\ \A j \in Keys \ {KeyOf(a)} : billed'[j] = billed[j]
    BY <1>1, <2>1, BilledMore
  <2>4. Settles(a, Unknown, "failure")
    BY <1>1, <2>1, <2>2, <2>3 DEF Settles, Bill, Ticket
  <2>5. QED
    BY <2>4 DEF Settled
<1>5. QED
  BY <1>2, <1>3, <1>4

Counter == [units : Int, calls : Nat]
CycleRecord == [version : Versions, deadline : Nat, units : Int, calls : Nat]

LEMMA ChargedCounter ==
  ASSUME NEW c \in Counter, NEW n \in Int
  PROVE  /\ Charge(c, n) \in Counter
         /\ Charge(c, n).units = c.units + n /\ Charge(c, n).calls = c.calls + 1
<1>1. PICK x \in Int, y \in Nat : x = c.units + n /\ y = c.calls + 1
  BY DEF Counter
<1>2. Charge(c, n) = [c EXCEPT !.units = x, !.calls = y]
  BY <1>1 DEF Charge
<1>3. QED
  BY <1>1, <1>2 DEF Counter

LEMMA ChargedCycle ==
  ASSUME NEW c \in CycleRecord, NEW n \in Int
  PROVE  /\ Charge(c, n) \in CycleRecord
         /\ Charge(c, n).units = c.units + n /\ Charge(c, n).calls = c.calls + 1
<1>1. PICK x \in Int, y \in Nat : x = c.units + n /\ y = c.calls + 1
  BY DEF CycleRecord
<1>2. Charge(c, n) = [c EXCEPT !.units = x, !.calls = y]
  BY <1>1 DEF Charge
<1>3. QED
  BY <1>1, <1>2 DEF CycleRecord

(* A reservation adds one ticket and charges it to its scopes of the day and to its decision. *)
LEMMA ReservedTicket ==
  ASSUME TypeOK, NEW a \in Attempts, Reserve(a)
  PROVE  /\ KeyOf(a) \in Keys /\ KeyOf(a) \notin DOMAIN tickets
         /\ DOMAIN tickets' = DOMAIN tickets \union {KeyOf(a)}
         /\ IsFiniteSet(DOMAIN tickets') /\ tickets' \in [DOMAIN tickets' -> Ticket]
         /\ tickets'[KeyOf(a)].fingerprint = RequestOf[a] /\ tickets'[KeyOf(a)].open
         /\ tickets'[KeyOf(a)].reserved = RequestOf[a].bound
         /\ tickets'[KeyOf(a)].actual = RequestOf[a].bound
         /\ tickets'[KeyOf(a)].day = day /\ tickets'[KeyOf(a)].at = clock
         /\ \A k \in DOMAIN tickets : tickets'[k] = tickets[k]
<1>1. KeyOf(a) \in Keys /\ KeyOf(a) \notin DOMAIN tickets
  BY RequestTypes DEF Reserve, KeyOf
<1>2. tickets' = [j \in DOMAIN tickets \union {KeyOf(a)} |->
                    IF j = KeyOf(a) THEN NewTicket(RequestOf[a]) ELSE tickets[j]]
  BY DEF Reserve, Put, KeyOf
<1>3. NewTicket(RequestOf[a]) \in Ticket
  <2>1. Cycle(RequestOf[a]).deadline \in Nat
    BY CycleType
  <2>2. QED
    BY <2>1, RequestTypes DEF NewTicket, Ticket, TypeOK, Outcomes
<1>4. DOMAIN tickets' = DOMAIN tickets \union {KeyOf(a)}
  BY <1>2
<1>5. IsFiniteSet(DOMAIN tickets')
  <2>1. IsFiniteSet(DOMAIN tickets)
    BY DEF TypeOK
  <2>2. IsFiniteSet(DOMAIN tickets \union {KeyOf(a)})
    BY <2>1, FS_AddElement
  <2>3. QED
    BY <1>4, <2>2
<1>6. tickets' \in [DOMAIN tickets' -> Ticket]
  BY <1>2, <1>3 DEF TypeOK
<1>7. tickets'[KeyOf(a)] = NewTicket(RequestOf[a])
  BY <1>2
<1>8. \A k \in DOMAIN tickets : tickets'[k] = tickets[k]
  BY <1>1, <1>2
<1>9. QED
  BY <1>1, <1>4, <1>5, <1>6, <1>7, <1>8 DEF NewTicket

LEMMA ReservedCounters ==
  ASSUME TypeOK, NEW a \in Attempts, Reserve(a)
  PROVE  /\ days' \in [Scopes -> [Days -> Counter]]
         /\ \A s \in Scopes, d \in Days :
              days'[s][d] = IF s \in ScopesOf(RequestOf[a]) /\ d = day
                            THEN Charge(days[s][d], RequestOf[a].bound) ELSE days[s][d]
<1>1. days \in [Scopes -> [Days -> Counter]] /\ day \in Days
  BY DEF TypeOK, Counter
<1>2. days' = [s \in Scopes |-> IF s \in ScopesOf(RequestOf[a])
                 THEN [days[s] EXCEPT ![day] = Charge(days[s][day], RequestOf[a].bound)]
                 ELSE days[s]]
  BY DEF Reserve
<1>3. \A s \in Scopes : Charge(days[s][day], RequestOf[a].bound) \in Counter
  BY <1>1, RequestTypes, ChargedCounter
<1>4. QED
  BY <1>1, <1>2, <1>3

LEMMA ReservedCycle ==
  ASSUME TypeOK, NEW a \in Attempts, Reserve(a)
  PROVE  /\ DOMAIN cycles' = DOMAIN cycles \union {CycleOf(RequestOf[a])}
         /\ cycles' \in [DOMAIN cycles' -> CycleRecord]
         /\ cycles'[CycleOf(RequestOf[a])] = Charge(Cycle(RequestOf[a]), RequestOf[a].bound)
         /\ \A c \in DOMAIN cycles \ {CycleOf(RequestOf[a])} : cycles'[c] = cycles[c]
<1> DEFINE c == CycleOf(RequestOf[a])
           v == Charge(Cycle(RequestOf[a]), RequestOf[a].bound)
<1>1. cycles' = [j \in DOMAIN cycles \union {c} |-> IF j = c THEN v ELSE cycles[j]]
  BY DEF Reserve, Put
<1>2. v \in CycleRecord
  <2>1. Cycle(RequestOf[a]) \in CycleRecord /\ RequestOf[a].bound \in Int
    BY CycleType, RequestTypes DEF CycleRecord
  <2>2. QED
    BY <2>1, ChargedCycle
<1>3. cycles \in [DOMAIN cycles -> CycleRecord]
  BY DEF TypeOK, CycleRecord
<1> HIDE DEF c, v
<1>4. /\ DOMAIN cycles' = DOMAIN cycles \union {c} /\ cycles' \in [DOMAIN cycles' -> CycleRecord]
      /\ cycles'[c] = v /\ \A j \in DOMAIN cycles \ {c} : cycles'[j] = cycles[j]
  BY <1>1, <1>2, <1>3
<1>5. QED
  BY <1>4 DEF c, v

(* Settling replaces what one open ticket says it cost, and corrects its counters by as much. *)
LEMMA SettledTicket ==
  ASSUME TypeOK, TicketsAreOwned, NEW a \in Attempts,
         NEW usage \in Nat \union {Unknown}, NEW outcome \in {"success", "failure"},
         Settles(a, usage, outcome)
  PROVE  /\ KeyOf(a) \in DOMAIN tickets /\ tickets[KeyOf(a)].fingerprint = RequestOf[a]
         /\ tickets[KeyOf(a)].open
         /\ DOMAIN tickets' = DOMAIN tickets /\ tickets' \in [DOMAIN tickets' -> Ticket]
         /\ SettledCharge(tickets[KeyOf(a)], usage) \in Nat
         /\ tickets'[KeyOf(a)].actual = SettledCharge(tickets[KeyOf(a)], usage)
         /\ \A k \in DOMAIN tickets : /\ tickets'[k].fingerprint = tickets[k].fingerprint
                                      /\ tickets'[k].reserved = tickets[k].reserved
                                      /\ tickets'[k].day = tickets[k].day
                                      /\ tickets'[k].at = tickets[k].at
         /\ \A k \in DOMAIN tickets \ {KeyOf(a)} : tickets'[k] = tickets[k]
         /\ ~tickets'[KeyOf(a)].open
<1>1. /\ KeyOf(a) \in DOMAIN tickets /\ tickets[KeyOf(a)].fingerprint = RequestOf[a]
      /\ tickets[KeyOf(a)].open
  BY DEF TicketsAreOwned, Settles
<1>2. tickets \in [DOMAIN tickets -> Ticket]
  BY DEF TypeOK
<1>3. SettledCharge(tickets[KeyOf(a)], usage) \in Nat
  BY <1>1, <1>2 DEF SettledCharge, Ticket, Unknown
<1>4. PICK charge \in Nat : charge = SettledCharge(tickets[KeyOf(a)], usage)
  BY <1>3
<1>5. tickets' = [tickets EXCEPT ![KeyOf(a)].open = FALSE, ![KeyOf(a)].actual = charge,
                                 ![KeyOf(a)].outcome = outcome]
  BY <1>4 DEF Settles, Finish, KeyOf
<1>6. /\ DOMAIN tickets' = DOMAIN tickets /\ tickets' \in [DOMAIN tickets -> Ticket]
      /\ tickets'[KeyOf(a)].actual = charge /\ ~tickets'[KeyOf(a)].open
      /\ tickets'[KeyOf(a)].fingerprint = tickets[KeyOf(a)].fingerprint
      /\ tickets'[KeyOf(a)].reserved = tickets[KeyOf(a)].reserved
      /\ tickets'[KeyOf(a)].day = tickets[KeyOf(a)].day
      /\ tickets'[KeyOf(a)].at = tickets[KeyOf(a)].at
      /\ \A k \in DOMAIN tickets \ {KeyOf(a)} : tickets'[k] = tickets[k]
  <2>1. PICK k \in DOMAIN tickets : k = KeyOf(a)
    BY <1>1
  <2>2. PICK old \in Ticket : old = tickets[k]
    BY <1>2
  <2>3. PICK new : new = [old EXCEPT !.open = FALSE, !.actual = charge, !.outcome = outcome]
    OBVIOUS
  <2>4. new \in Ticket
    BY <2>3 DEF Ticket, Outcomes
  <2>5. /\ new.actual = charge /\ ~new.open /\ new.fingerprint = old.fingerprint
        /\ new.reserved = old.reserved /\ new.day = old.day /\ new.at = old.at
    BY <2>3 DEF Ticket
  <2>6. tickets' = [tickets EXCEPT ![k] = new]
    BY <1>2, <1>5, <2>1, <2>2, <2>3 DEF Ticket
  <2>7. /\ DOMAIN tickets' = DOMAIN tickets /\ tickets' \in [DOMAIN tickets -> Ticket]
        /\ tickets'[k] = new
        /\ \A j \in DOMAIN tickets \ {k} : tickets'[j] = tickets[j]
    BY <1>2, <2>4, <2>6
  <2>8. QED
    BY <2>1, <2>2, <2>5, <2>7
<1>7. QED
  BY <1>1, <1>3, <1>4, <1>6

LEMMA SettledCounters ==
  ASSUME TypeOK, TicketsAreOwned, NEW a \in Attempts,
         NEW usage \in Nat \union {Unknown}, NEW outcome \in {"success", "failure"},
         Settles(a, usage, outcome)
  PROVE  LET k == KeyOf(a)
             change == SettledCharge(tickets[k], usage) - tickets[k].reserved
         IN  /\ days' \in [Scopes -> [Days -> Counter]]
             /\ \A s \in Scopes, d \in Days :
                  /\ days'[s][d].calls = days[s][d].calls
                  /\ days'[s][d].units = IF s \in ScopesOf(RequestOf[a]) /\ d = tickets[k].day
                                         THEN days[s][d].units + change ELSE days[s][d].units
             /\ DOMAIN cycles' = DOMAIN cycles /\ cycles' \in [DOMAIN cycles -> CycleRecord]
             /\ \A c \in DOMAIN cycles :
                  /\ cycles'[c].calls = cycles[c].calls
                  /\ cycles'[c].units = IF c = CycleOf(RequestOf[a])
                                        THEN cycles[c].units + change ELSE cycles[c].units
<1> DEFINE k == KeyOf(a)
<1>1. /\ k \in DOMAIN tickets /\ tickets[k] \in Ticket /\ SettledCharge(tickets[k], usage) \in Nat
      /\ tickets[k].fingerprint = RequestOf[a]
  BY SettledTicket DEF TypeOK
<1>2. CycleOf(RequestOf[a]) \in DOMAIN cycles
  BY <1>1 DEF TicketsAreOwned
<1>3. PICK change \in Int, on \in Days :
        change = SettledCharge(tickets[k], usage) - tickets[k].reserved /\ on = tickets[k].day
  BY <1>1 DEF Ticket
<1>4. days' = [s \in Scopes |-> IF s \in ScopesOf(RequestOf[a])
                 THEN [days[s] EXCEPT ![on].units = @ + change] ELSE days[s]]
  BY <1>3 DEF Settles, Finish, KeyOf, SettlementDay
<1>5. cycles' = [cycles EXCEPT ![CycleOf(RequestOf[a])].units = @ + change]
  BY <1>3 DEF Settles, Finish, KeyOf
<1>6. days \in [Scopes -> [Days -> Counter]] /\ cycles \in [DOMAIN cycles -> CycleRecord]
  BY DEF TypeOK, Counter, CycleRecord
<1>7. /\ days' \in [Scopes -> [Days -> Counter]]
      /\ \A s \in Scopes, d \in Days :
           /\ days'[s][d].calls = days[s][d].calls
           /\ days'[s][d].units = IF s \in ScopesOf(RequestOf[a]) /\ d = on
                                  THEN days[s][d].units + change ELSE days[s][d].units
  BY SMTT(40), <1>3, <1>4, <1>6 DEF Counter
<1>8. /\ DOMAIN cycles' = DOMAIN cycles /\ cycles' \in [DOMAIN cycles -> CycleRecord]
      /\ \A c \in DOMAIN cycles :
           /\ cycles'[c].calls = cycles[c].calls
           /\ cycles'[c].units = IF c = CycleOf(RequestOf[a])
                                 THEN cycles[c].units + change ELSE cycles[c].units
  BY <1>2, <1>3, <1>5, <1>6 DEF CycleRecord
<1>9. QED
  BY <1>3, <1>7, <1>8

-----------------------------------------------------------------------------
(* The steps that write neither tickets nor counters.                      *)

Quiet == UNCHANGED <<tickets, days, cycles>>

LEMMA StepKinds ==
  ASSUME TypeOK, TicketsAreOwned, [Next]_vars
  PROVE  \/ \E a \in Attempts : Reserve(a)
         \/ \E a \in Attempts : Settled(a)
         \/ Quiet
<1>1. ASSUME NEW a \in Attempts,
             \/ TooLate(a)
             \/ \E units \in 0..MaxBound + Overrun, valid, same \in BOOLEAN :
                  Answer(a, units, valid, same)
             \/ \E units \in 0..MaxBound : NoUsage(a, units)
      PROVE  Settled(a)
  BY <1>1, EndsSettle
<1>2. ASSUME NEW a \in Attempts, Refuse(a) \/ FindTicket(a) \/ Dispatch(a) PROVE Quiet
  BY <1>2 DEF Refuse, FindTicket, Dispatch, Quiet, ledger
<1>3. CASE ClockTicks \/ Midnight \/ UNCHANGED vars
  BY <1>3 DEF ClockTicks, Midnight, vars, Quiet, ledger
<1>4. QED
  BY <1>1, <1>2, <1>3 DEF Next

LEMMA TypeStep == TypeOK /\ TicketsAreOwned /\ [Next]_vars => TypeOK'
<1> SUFFICES ASSUME TypeOK, TicketsAreOwned, [Next]_vars PROVE TypeOK'
  OBVIOUS
<1>1. ASSUME NEW a \in Attempts, Reserve(a) PROVE TypeOK'
  <2>1. UNCHANGED <<clock, day, billed>>
    BY <1>1 DEF Reserve
  <2>2. call' \in [Attempts -> [pc : {"idle", "reserved", "waiting", "done"}, since : Nat,
                                result : Outcomes]]
    BY <1>1 DEF Reserve, TypeOK
  <2>3. rates' \in [Scopes -> Seq(Nat)]
    <3>1. rates' = [s \in Scopes |-> IF s \in ScopesOf(RequestOf[a])
                                     THEN Append(Recent(s), clock) ELSE rates[s]]
      BY <1>1 DEF Reserve
    <3>2. \A s \in Scopes : Append(Recent(s), clock) \in Seq(Nat)
      BY RecentType DEF TypeOK
    <3>3. QED
      BY <3>1, <3>2 DEF TypeOK
  <2>4. DOMAIN tickets' \subseteq Keys
    BY <1>1, ReservedTicket DEF TypeOK
  <2>5. DOMAIN cycles' \subseteq Agents \X Decisions
    <3>1. CycleOf(RequestOf[a]) \in Agents \X Decisions
      BY RequestTypes
    <3>2. DOMAIN cycles \subseteq Agents \X Decisions
      BY DEF TypeOK
    <3>3. DOMAIN cycles' = DOMAIN cycles \union {CycleOf(RequestOf[a])}
      BY <1>1, ReservedCycle
    <3>4. QED
      BY <3>1, <3>2, <3>3
  <2>6. IsFiniteSet(DOMAIN tickets') /\ tickets' \in [DOMAIN tickets' -> Ticket]
    BY <1>1, ReservedTicket
  <2>7. days' \in [Scopes -> [Days -> Counter]]
    BY <1>1, ReservedCounters
  <2>8. cycles' \in [DOMAIN cycles' -> CycleRecord]
    BY <1>1, ReservedCycle
  <2>9. QED
    BY <2>1, <2>2, <2>3, <2>4, <2>5, <2>6, <2>7, <2>8 DEF TypeOK, Counter, CycleRecord
<1>2. ASSUME NEW a \in Attempts, Settled(a) PROVE TypeOK'
  <2>1. PICK usage \in Nat \union {Unknown}, outcome \in {"success", "failure"} :
          Settles(a, usage, outcome)
    BY <1>2 DEF Settled
  <2>2. call' = [call EXCEPT ![a].pc = "done", ![a].result = outcome] /\ UNCHANGED rates
    BY <2>1 DEF Settles, Finish, Returns
  <2>3. call' \in [Attempts -> [pc : {"idle", "reserved", "waiting", "done"}, since : Nat,
                                result : Outcomes]]
    <3> DEFINE Called == [pc : {"idle", "reserved", "waiting", "done"}, since : Nat,
                          result : Outcomes]
    <3>1. call \in [Attempts -> Called] /\ outcome \in Outcomes
      BY DEF TypeOK, Outcomes
    <3>2. PICK old \in Called : old = call[a]
      BY <3>1
    <3>3. PICK new : new = [old EXCEPT !.pc = "done", !.result = outcome]
      OBVIOUS
    <3>4. new \in Called
      BY <3>1, <3>3
    <3>5. call' = [call EXCEPT ![a] = new]
      BY <2>2, <3>1, <3>2, <3>3
    <3> HIDE DEF Called
    <3>6. call' \in [Attempts -> Called]
      BY <3>1, <3>4, <3>5
    <3>7. QED
      BY <3>6 DEF Called
  <2>4. /\ DOMAIN tickets' = DOMAIN tickets /\ tickets' \in [DOMAIN tickets' -> Ticket]
        /\ days' \in [Scopes -> [Days -> Counter]]
        /\ DOMAIN cycles' = DOMAIN cycles /\ cycles' \in [DOMAIN cycles -> CycleRecord]
    BY <2>1, SettledTicket, SettledCounters
  <2>5. billed' \in [Keys -> Bill] /\ UNCHANGED <<clock, day>>
    BY <2>1 DEF Settles
  <2>6. QED
    BY <2>2, <2>3, <2>4, <2>5 DEF TypeOK, Counter, CycleRecord, Bill
<1>3. ASSUME NEW a \in Attempts, Refuse(a) PROVE TypeOK'
  <2>1. PICK looked \in {{}, {Workspace}, ScopesOf(RequestOf[a])} :
          rates' = [s \in Scopes |-> IF s \in looked THEN Recent(s) ELSE rates[s]]
    BY <1>3 DEF Refuse
  <2>2. rates' \in [Scopes -> Seq(Nat)]
    BY <2>1, RecentType DEF TypeOK
  <2>3. call' = [call EXCEPT ![a].pc = "done", ![a].result = "refused"]
        /\ UNCHANGED <<clock, day, tickets, days, cycles, billed>>
    BY <1>3 DEF Refuse, Returns
  <2>4. QED
    BY ZenonT(60), <2>2, <2>3 DEF TypeOK, Outcomes
<1>4. ASSUME NEW a \in Attempts, FindTicket(a) PROVE TypeOK'
  <2>1. /\ RequestOf[a].key \in DOMAIN tickets
        /\ UNCHANGED <<clock, day, tickets, days, rates, cycles, billed>>
    BY <1>4 DEF FindTicket, ledger
  <2>2. PICK result \in Outcomes : call' = [call EXCEPT ![a].pc = "done", ![a].result = result]
    <3>1. tickets[RequestOf[a].key].outcome \in Outcomes
      BY <2>1 DEF TypeOK, Ticket
    <3>2. \E result \in Outcomes : Returns(a, result)
      BY <1>4, <3>1 DEF FindTicket, Outcomes
    <3>3. QED
      BY <3>2 DEF Returns
  <2>3. QED
    BY <2>1, <2>2 DEF TypeOK
<1>5. ASSUME NEW a \in Attempts, Dispatch(a) PROVE TypeOK'
  <2>1. /\ call' = [call EXCEPT ![a].pc = "waiting", ![a].since = clock]
        /\ billed' = [billed EXCEPT ![RequestOf[a].key].asked = @ + 1]
        /\ UNCHANGED <<clock, day, tickets, days, rates, cycles>>
    BY <1>5 DEF Dispatch, ledger
  <2>2. billed' \in [Keys -> Bill]
    <3>1. billed \in [Keys -> Bill] /\ RequestOf[a].key \in Keys
      BY RequestTypes DEF TypeOK, Bill, KeyOf
    <3>2. PICK n \in Nat : n = billed[RequestOf[a].key].asked + 1
      BY <3>1 DEF Bill
    <3>3. billed' = [billed EXCEPT ![RequestOf[a].key].asked = n]
      BY <2>1, <3>2
    <3>4. QED
      BY <3>1, <3>3 DEF Bill
  <2>3. call' \in [Attempts -> [pc : {"idle", "reserved", "waiting", "done"}, since : Nat,
                                result : Outcomes]]
    BY <2>1 DEF TypeOK
  <2>4. QED
    BY <2>1, <2>2, <2>3 DEF TypeOK, Bill
<1>6. CASE ClockTicks
  <2>1. UNCHANGED <<day, tickets, days, rates, cycles, call, billed>> /\ clock' \in Nat
    BY <1>6 DEF ClockTicks, TypeOK, ledger
  <2>2. QED
    BY <2>1 DEF TypeOK
<1>7. CASE Midnight
  <2>1. UNCHANGED <<clock, tickets, days, rates, cycles, call, billed>> /\ day' \in Days
    BY <1>7, BoundTypes DEF Midnight, TypeOK, ledger, Days
  <2>2. QED
    BY <2>1 DEF TypeOK
<1>8. CASE UNCHANGED vars
  BY <1>8 DEF vars, TypeOK
<1>9. QED
  BY <1>1, <1>2, <1>3, <1>4, <1>5, <1>6, <1>7, <1>8, EndsSettle DEF Next

(* A settlement or a reservation of one call leaves the tickets of the others owned as they were. *)
LEMMA OwnedStep ==
  TypeOK /\ TicketsAreOwned /\ AskedOnce /\ [Next]_vars => TicketsAreOwned' /\ AskedOnce'
<1> SUFFICES ASSUME TypeOK, TicketsAreOwned, AskedOnce, [Next]_vars
             PROVE  TicketsAreOwned' /\ AskedOnce'
  OBVIOUS
<1>1. /\ \A a \in Attempts : KeyOf(a) \in Keys /\ KeyOf(a)' = KeyOf(a)
      /\ \A k \in Keys : billed[k] \in Bill
      /\ \A k \in DOMAIN tickets : tickets[k] \in Ticket /\ k \in Keys
      /\ call \in [Attempts -> [pc : {"idle", "reserved", "waiting", "done"}, since : Nat,
                                result : Outcomes]]
  BY RequestTypes DEF TypeOK, Bill, KeyOf
<1>2. ASSUME NEW a \in Attempts, Reserve(a) PROVE TicketsAreOwned' /\ AskedOnce'
  <2>1. call[a].pc = "idle" /\ call' = [call EXCEPT ![a].pc = "reserved"] /\ UNCHANGED <<billed, clock>>
    BY <1>2 DEF Reserve
  <2>2. /\ \A b \in Attempts \ {a} : call'[b].pc = call[b].pc
        /\ call'[a].pc = "reserved"
    BY <1>1, <2>1
  <2>3. \A b \in Attempts : Active(b)' <=> b = a \/ Active(b)
    BY <2>1, <2>2 DEF Active
  <2>4. \A b \in Attempts : Active(b) => KeyOf(b) # KeyOf(a)
    BY <1>2, ReservedTicket DEF TicketsAreOwned
  <2>5. \A k \in DOMAIN tickets' :
          /\ tickets'[k].at <= clock'
          /\ CycleOf(tickets'[k].fingerprint) \in DOMAIN cycles'
          /\ tickets'[k].open => tickets'[k].actual = tickets'[k].reserved /\ billed'[k].units = 0
          /\ billed'[k].units <= tickets'[k].actual
    <3>1. RequestOf[a].bound \in Nat /\ clock \in Nat
      BY RequestTypes DEF TypeOK
    <3>2. DOMAIN cycles' = DOMAIN cycles \union {CycleOf(RequestOf[a])}
      BY <1>2, ReservedCycle
    <3>3. KeyOf(a) \in Keys \ DOMAIN tickets
      BY <1>2, ReservedTicket
    <3>4. billed[KeyOf(a)].units = 0
      BY <3>3 DEF TicketsAreOwned
    <3>5. \A k \in DOMAIN tickets :
            /\ tickets[k].at <= clock
            /\ CycleOf(tickets[k].fingerprint) \in DOMAIN cycles
            /\ tickets[k].open => tickets[k].actual = tickets[k].reserved /\ billed[k].units = 0
            /\ billed[k].units <= tickets[k].actual
      BY DEF TicketsAreOwned
    <3>6. \A k \in DOMAIN tickets' : k = KeyOf(a) \/ (k \in DOMAIN tickets /\ tickets'[k] = tickets[k])
      BY <1>2, ReservedTicket
    <3>7. /\ tickets'[KeyOf(a)].fingerprint = RequestOf[a] /\ tickets'[KeyOf(a)].at = clock
          /\ tickets'[KeyOf(a)].actual = RequestOf[a].bound
          /\ tickets'[KeyOf(a)].reserved = RequestOf[a].bound
      BY <1>2, ReservedTicket
    <3>8. QED
      BY <2>1, <3>1, <3>2, <3>4, <3>5, <3>6, <3>7
  <2>6. \A b \in Attempts : Active(b)' => /\ KeyOf(b) \in DOMAIN tickets'
                                          /\ tickets'[KeyOf(b)].open
                                          /\ tickets'[KeyOf(b)].fingerprint = RequestOf[b]
    BY <1>2, <2>3, ReservedTicket DEF TicketsAreOwned
  <2>7. \A b, c \in Attempts : Active(b)' /\ Active(c)' /\ KeyOf(b) = KeyOf(c) => b = c
    BY <2>3, <2>4 DEF TicketsAreOwned
  <2>8. \A b \in Attempts : call'[b].pc = "reserved" => billed'[KeyOf(b)].asked = 0
    BY <1>1, <1>2, <2>1, <2>2, ReservedTicket DEF TicketsAreOwned
  <2>9. \A k \in Keys \ DOMAIN tickets' : billed'[k].asked = 0 /\ billed'[k].units = 0
    BY <1>2, <2>1, ReservedTicket DEF TicketsAreOwned
  <2>10. QED
    BY <1>1, <2>1, <2>5, <2>6, <2>7, <2>8, <2>9 DEF TicketsAreOwned, AskedOnce
<1>3. ASSUME NEW a \in Attempts, Settled(a) PROVE TicketsAreOwned' /\ AskedOnce'
  <2>1. PICK usage \in Nat \union {Unknown}, outcome \in {"success", "failure"} :
          Settles(a, usage, outcome)
    BY <1>3 DEF Settled
  <2>2. call' = [call EXCEPT ![a].pc = "done", ![a].result = outcome] /\ Active(a)
        /\ clock' = clock
    BY <2>1 DEF Settles, Finish, Returns
  <2>3. /\ \A b \in Attempts \ {a} : call'[b].pc = call[b].pc
        /\ call'[a].pc = "done"
    BY <1>1, <2>2
  <2>4. \A b \in Attempts : Active(b)' <=> b # a /\ Active(b)
    BY <2>3 DEF Active
  <2>5. \A b \in Attempts : Active(b)' => KeyOf(b) # KeyOf(a)
    BY <2>2, <2>4 DEF TicketsAreOwned
  <2>6. /\ \A k \in Keys : billed'[k].asked = billed[k].asked
        /\ \A k \in Keys \ {KeyOf(a)} : billed'[k].units = billed[k].units
        /\ billed'[KeyOf(a)].units <= tickets'[KeyOf(a)].actual
    BY <1>1, <2>1, SettledTicket DEF Settles, TicketsAreOwned
  <2>7. \A k \in DOMAIN tickets' :
          /\ tickets'[k].at <= clock'
          /\ CycleOf(tickets'[k].fingerprint) \in DOMAIN cycles'
          /\ tickets'[k].open => tickets'[k].actual = tickets'[k].reserved /\ billed'[k].units = 0
          /\ billed'[k].units <= tickets'[k].actual
    <3>1. /\ DOMAIN tickets' = DOMAIN tickets /\ ~tickets'[KeyOf(a)].open
          /\ \A k \in DOMAIN tickets : /\ tickets'[k].fingerprint = tickets[k].fingerprint
                                       /\ tickets'[k].at = tickets[k].at
          /\ \A k \in DOMAIN tickets \ {KeyOf(a)} : tickets'[k] = tickets[k]
      BY <2>1, SettledTicket
    <3>2. DOMAIN cycles' = DOMAIN cycles
      BY <2>1, SettledCounters
    <3>3. \A k \in DOMAIN tickets :
            /\ tickets[k].at <= clock
            /\ CycleOf(tickets[k].fingerprint) \in DOMAIN cycles
            /\ tickets[k].open => tickets[k].actual = tickets[k].reserved /\ billed[k].units = 0
            /\ billed[k].units <= tickets[k].actual
      BY DEF TicketsAreOwned
    <3>4. QED
      BY <1>1, <2>2, <2>6, <3>1, <3>2, <3>3
  <2>8. \A b \in Attempts : Active(b)' => /\ KeyOf(b) \in DOMAIN tickets'
                                          /\ tickets'[KeyOf(b)].open
                                          /\ tickets'[KeyOf(b)].fingerprint = RequestOf[b]
    BY <2>1, <2>4, <2>5, SettledTicket DEF TicketsAreOwned
  <2>9. \A b \in Attempts : call'[b].pc = "reserved" => billed'[KeyOf(b)].asked = 0
    BY <1>1, <2>3, <2>6 DEF TicketsAreOwned
  <2>10. \A k \in Keys \ DOMAIN tickets' : billed'[k].asked = 0 /\ billed'[k].units = 0
    BY <2>1, <2>6, SettledTicket DEF TicketsAreOwned
  <2>11. \A b, c \in Attempts : Active(b)' /\ Active(c)' /\ KeyOf(b) = KeyOf(c) => b = c
    BY <2>4 DEF TicketsAreOwned
  <2>12. QED
    BY <1>1, <2>6, <2>7, <2>8, <2>9, <2>10, <2>11 DEF TicketsAreOwned, AskedOnce
<1>4. ASSUME NEW a \in Attempts, Refuse(a) \/ FindTicket(a) PROVE TicketsAreOwned' /\ AskedOnce'
  <2>1. PICK result : call' = [call EXCEPT ![a].pc = "done", ![a].result = result]
    BY <1>4 DEF Refuse, FindTicket, Returns
  <2>2. call[a].pc = "idle" /\ UNCHANGED <<tickets, cycles, billed, clock>>
    BY <1>4 DEF Refuse, FindTicket, ledger
  <2>3. /\ \A b \in Attempts \ {a} : call'[b].pc = call[b].pc
        /\ call'[a].pc = "done"
    BY <1>1, <2>1
  <2>4. \A b \in Attempts : Active(b)' <=> Active(b)
    BY <2>2, <2>3 DEF Active
  <2>5. \A b \in Attempts : call'[b].pc = "reserved" => call[b].pc = "reserved"
    BY <2>3
  <2>6. QED
    BY <1>1, <2>2, <2>4, <2>5 DEF TicketsAreOwned, AskedOnce
<1>5. ASSUME NEW a \in Attempts, Dispatch(a) PROVE TicketsAreOwned' /\ AskedOnce'
  <2>1. /\ call[a].pc = "reserved" /\ UNCHANGED <<tickets, cycles, clock>>
        /\ call' = [call EXCEPT ![a].pc = "waiting", ![a].since = clock]
        /\ billed' = [billed EXCEPT ![KeyOf(a)].asked = @ + 1]
    BY <1>5 DEF Dispatch, ledger, KeyOf
  <2>2. /\ \A b \in Attempts \ {a} : call'[b].pc = call[b].pc
        /\ call'[a].pc = "waiting"
    BY <1>1, <2>1
  <2>3. \A b \in Attempts : Active(b)' <=> Active(b)
    BY <2>1, <2>2 DEF Active
  <2>4. Active(a) /\ billed[KeyOf(a)].asked = 0 /\ KeyOf(a) \in DOMAIN tickets
    BY <2>1 DEF Active, TicketsAreOwned
  <2>5. /\ \A k \in Keys : billed'[k].units = billed[k].units
        /\ \A k \in Keys \ {KeyOf(a)} : billed'[k].asked = billed[k].asked
        /\ billed'[KeyOf(a)].asked = 1
    <3>1. billed \in [Keys -> Bill] /\ KeyOf(a) \in Keys
      BY <1>1 DEF TypeOK, Bill
    <3>2. QED
      BY <2>1, <2>4, <3>1 DEF Bill
  <2>6. \A b \in Attempts : call'[b].pc = "reserved" => billed'[KeyOf(b)].asked = 0
    <3>1. \A b \in Attempts : call'[b].pc = "reserved" => b # a /\ call[b].pc = "reserved" /\ Active(b)
      BY <2>2 DEF Active
    <3>2. QED
      BY <1>1, <2>4, <2>5, <3>1 DEF TicketsAreOwned
  <2>7. \A k \in Keys \ DOMAIN tickets : billed'[k].asked = 0 /\ billed'[k].units = 0
    BY <2>4, <2>5 DEF TicketsAreOwned
  <2>8. \A k \in Keys : billed'[k].asked <= 1
    BY <2>5 DEF AskedOnce
  <2>9. QED
    BY <1>1, <2>1, <2>3, <2>5, <2>6, <2>7, <2>8 DEF TicketsAreOwned, AskedOnce
<1>6. CASE ClockTicks \/ Midnight \/ UNCHANGED vars
  <2>1. UNCHANGED <<tickets, cycles, call, billed>> /\ clock' >= clock /\ clock' \in Nat
    BY <1>6 DEF ClockTicks, Midnight, vars, ledger, TypeOK
  <2>2. \A k \in DOMAIN tickets : tickets[k].at <= clock'
    BY <1>1, <2>1 DEF TicketsAreOwned, Ticket, TypeOK
  <2>3. QED
    BY <1>1, <2>1, <2>2 DEF TicketsAreOwned, AskedOnce, Active
<1>7. QED
  BY <1>2, <1>3, <1>4, <1>5, <1>6, EndsSettle DEF Next

-----------------------------------------------------------------------------
(* What a step does to the totals of any set of tickets.                   *)

LEMMA SumTypes ==
  ASSUME TypeOK, NEW P \in SUBSET DOMAIN tickets
  PROVE  /\ IsFiniteSet(P) /\ Cardinality(P) \in Nat
         /\ [k \in P |-> tickets[k].actual] \in [P -> Nat]
         /\ [k \in P |-> ExcessOf(k)] \in [P -> Nat]
         /\ Charged(P) \in Nat /\ Excess(P) \in Nat
<1>1. IsFiniteSet(P) /\ Cardinality(P) \in Nat
  <2>1. IsFiniteSet(DOMAIN tickets)
    BY DEF TypeOK
  <2>2. IsFiniteSet(P)
    BY <2>1, FS_Subset
  <2>3. QED
    BY <2>2, FS_CardinalityType
<1>2. \A k \in P : tickets[k].actual \in Nat /\ tickets[k].reserved \in Nat
  BY DEF TypeOK, Ticket
<1>3. \A k \in P : ExcessOf(k) \in Nat
  BY <1>2 DEF ExcessOf
<1>4. /\ [k \in P |-> tickets[k].actual] \in [P -> Nat]
      /\ [k \in P |-> ExcessOf(k)] \in [P -> Nat]
  BY <1>2, <1>3
<1>5. QED
  BY <1>1, <1>4, UnitsFinite DEF Charged, Excess

LEMMA ReservedSums ==
  ASSUME TypeOK, NEW a \in Attempts, Reserve(a), NEW P \in SUBSET DOMAIN tickets
  PROVE  LET k == KeyOf(a)
         IN  /\ Total([j \in P |-> tickets'[j].actual]) = Charged(P)
             /\ Total([j \in P |-> ExcessOf(j)']) = Excess(P)
             /\ Total([j \in P \union {k} |-> tickets'[j].actual])
                  = Charged(P) + RequestOf[a].bound
             /\ Total([j \in P \union {k} |-> ExcessOf(j)']) = Excess(P)
             /\ Cardinality(P \union {k}) = Cardinality(P) + 1
<1> DEFINE k == KeyOf(a)
           f == [j \in P |-> tickets[j].actual]
           e == [j \in P |-> ExcessOf(j)]
           g == [j \in P \union {k} |-> tickets'[j].actual]
           h == [j \in P \union {k} |-> ExcessOf(j)']
<1>1. /\ k \notin P /\ tickets'[k].actual = RequestOf[a].bound
      /\ tickets'[k].reserved = RequestOf[a].bound
      /\ \A j \in P : tickets'[j] = tickets[j]
  BY ReservedTicket
<1>2. RequestOf[a].bound \in Nat
  BY RequestTypes
<1>3. \A j \in P : ExcessOf(j)' = ExcessOf(j)
  BY <1>1 DEF ExcessOf
<1>4. ExcessOf(k)' = 0
  BY <1>1, <1>2 DEF ExcessOf
<1>5. IsFiniteSet(P) /\ f \in [P -> Nat] /\ e \in [P -> Nat] /\ Charged(P) \in Nat /\ Excess(P) \in Nat
  BY SumTypes
<1>6. Cardinality(P \union {k}) = Cardinality(P) + 1
  BY <1>1, <1>5, FS_AddElement
<1>7. [j \in P |-> tickets'[j].actual] = f /\ [j \in P |-> ExcessOf(j)'] = e
  BY <1>1, <1>3
<1>8. /\ g \in [P \union {k} -> Nat] /\ \A j \in P : g[j] = f[j]
      /\ g[k] = RequestOf[a].bound
  BY <1>1, <1>2, <1>5
<1>9. h \in [P \union {k} -> Nat] /\ (\A j \in P : h[j] = e[j]) /\ h[k] = 0
  BY <1>3, <1>4, <1>5
<1>10. Charged(P) = Total(f) /\ Excess(P) = Total(e)
  BY DEF Charged, Excess
<1> HIDE DEF k, f, e, g, h
<1>11. Total(g) = Total(f) + g[k]
  BY SMTT(40), <1>1, <1>5, <1>8, TotalAdd
<1>12. Total(h) = Total(e) + h[k]
  <2>1. k \notin P /\ IsFiniteSet(P) /\ e \in [P -> Nat] /\ h \in [P \union {k} -> Nat]
    BY <1>1, <1>5, <1>9
  <2>2. \A j \in P : h[j] = e[j]
    BY <1>9
  <2>3. QED
    BY <2>1, <2>2, TotalAdd
<1>13. Total(g) = Charged(P) + RequestOf[a].bound /\ Total(h) = Excess(P)
  BY <1>5, <1>8, <1>9, <1>10, <1>11, <1>12
<1>14. QED
  BY <1>6, <1>7, <1>10, <1>13 DEF k, f, e, g, h

LEMMA SettledSums ==
  ASSUME TypeOK, TicketsAreOwned, NEW a \in Attempts,
         NEW usage \in Nat \union {Unknown}, NEW outcome \in {"success", "failure"},
         Settles(a, usage, outcome), NEW P \in SUBSET DOMAIN tickets
  PROVE  LET k == KeyOf(a)
             change == SettledCharge(tickets[k], usage) - tickets[k].reserved
             charged == Total([j \in P |-> tickets'[j].actual])
             excess == Total([j \in P |-> ExcessOf(j)'])
         IN  /\ charged \in Nat /\ excess \in Nat
             /\ k \notin P => charged = Charged(P) /\ excess = Excess(P)
             /\ k \in P => /\ charged = Charged(P) + change
                           /\ excess >= Excess(P) + change /\ excess >= Excess(P)
<1> DEFINE k == KeyOf(a)
           charge == SettledCharge(tickets[k], usage)
           f == [j \in P |-> tickets[j].actual]
           e == [j \in P |-> ExcessOf(j)]
           g == [j \in P |-> tickets'[j].actual]
           h == [j \in P |-> ExcessOf(j)']
<1>1. /\ k \in DOMAIN tickets /\ tickets'[k].actual = charge /\ charge \in Nat
      /\ tickets'[k].reserved = tickets[k].reserved
      /\ \A j \in P \ {k} : tickets'[j] = tickets[j]
  BY SettledTicket
<1>2. tickets[k].reserved \in Nat /\ tickets[k].actual = tickets[k].reserved
  <2>1. tickets[k].open /\ tickets[k] \in Ticket
    BY <1>1, SettledTicket DEF TypeOK
  <2>2. QED
    BY <1>1, <2>1 DEF TicketsAreOwned, Ticket
<1>3. \A j \in P \ {k} : ExcessOf(j)' = ExcessOf(j)
  BY <1>1 DEF ExcessOf
<1>4. /\ ExcessOf(k) = 0 /\ ExcessOf(k)' \in Nat /\ ExcessOf(k)' >= charge - tickets[k].reserved
  BY <1>1, <1>2 DEF ExcessOf
<1>5. IsFiniteSet(P) /\ f \in [P -> Nat] /\ e \in [P -> Nat] /\ Charged(P) \in Nat /\ Excess(P) \in Nat
  BY SumTypes
<1>6. \A j \in P \ {k} : tickets[j].actual \in Nat /\ ExcessOf(j) \in Nat
  BY <1>5
<1>7. g \in [P -> Nat] /\ \A j \in P \ {k} : g[j] = f[j]
  BY <1>1, <1>6
<1>8. h \in [P -> Nat] /\ \A j \in P \ {k} : h[j] = e[j]
  BY <1>3, <1>4, <1>6
<1>9. k \in P => g[k] = charge /\ f[k] = tickets[k].reserved
  BY <1>1, <1>2
<1>10. k \in P => h[k] \in Nat /\ h[k] >= charge - tickets[k].reserved /\ e[k] = 0
  BY <1>4
<1>11. Charged(P) = Total(f) /\ Excess(P) = Total(e)
  BY DEF Charged, Excess
<1>12. PICK r \in Nat, c \in Nat : r = tickets[k].reserved /\ c = charge
  BY <1>1, <1>2
<1> HIDE DEF k, charge, f, e, g, h
<1>13. CASE k \notin P
  <2>1. f = g /\ e = h
    BY <1>5, <1>7, <1>8, <1>13
  <2>2. QED
    BY <1>5, <1>11, <1>13, <2>1 DEF k, charge, f, e, g, h
<1>14. CASE k \in P
  <2>1. Total(g) = Total(f) + g[k] - f[k]
    BY <1>5, <1>7, <1>14, TotalUpdate
  <2>2. Total(h) = Total(e) + h[k] - e[k]
    BY <1>5, <1>8, <1>14, TotalUpdate
  <2>3. Total(g) \in Nat /\ Total(h) \in Nat
    BY <1>5, <1>7, <1>8, UnitsFinite
  <2>4. Total(g) = Charged(P) + (c - r)
    BY <1>5, <1>9, <1>11, <1>12, <1>14, <2>1
  <2>5. Total(h) >= Excess(P) + (c - r) /\ Total(h) >= Excess(P)
    BY <1>5, <1>10, <1>11, <1>12, <1>14, <2>2
  <2>6. QED
    BY <1>12, <1>14, <2>3, <2>4, <2>5 DEF k, charge, f, e, g, h
<1>15. QED
  BY <1>13, <1>14

LEMMA TicketSets ==
  ASSUME TypeOK
  PROVE  /\ \A s \in Scopes, d \in Days : TicketsOf(s, d) \in SUBSET DOMAIN tickets
         /\ \A c : TicketsIn(c) \in SUBSET DOMAIN tickets
BY DEF TicketsOf, TicketsIn

LEMMA ReservedSets ==
  ASSUME TypeOK, NEW a \in Attempts, Reserve(a)
  PROVE  /\ \A s \in Scopes, d \in Days :
              TicketsOf(s, d)' = IF s \in ScopesOf(RequestOf[a]) /\ d = day
                                 THEN TicketsOf(s, d) \union {KeyOf(a)} ELSE TicketsOf(s, d)
         /\ \A c : TicketsIn(c)' = IF c = CycleOf(RequestOf[a])
                                   THEN TicketsIn(c) \union {KeyOf(a)} ELSE TicketsIn(c)
<1>1. /\ KeyOf(a) \notin DOMAIN tickets /\ DOMAIN tickets' = DOMAIN tickets \union {KeyOf(a)}
      /\ tickets'[KeyOf(a)].fingerprint = RequestOf[a] /\ tickets'[KeyOf(a)].day = day
      /\ \A k \in DOMAIN tickets : tickets'[k] = tickets[k]
  BY ReservedTicket
<1>2. \A s \in Scopes, d \in Days : \A k :
        k \in TicketsOf(s, d)' <=>
          \/ k \in TicketsOf(s, d)
          \/ k = KeyOf(a) /\ s \in ScopesOf(RequestOf[a]) /\ d = day
  BY <1>1 DEF TicketsOf
<1>3. \A c : \A k : k \in TicketsIn(c)' <=>
          \/ k \in TicketsIn(c)
          \/ k = KeyOf(a) /\ c = CycleOf(RequestOf[a])
  BY <1>1 DEF TicketsIn
<1>4. ASSUME NEW s \in Scopes, NEW d \in Days
      PROVE  TicketsOf(s, d)' = IF s \in ScopesOf(RequestOf[a]) /\ d = day
                                THEN TicketsOf(s, d) \union {KeyOf(a)} ELSE TicketsOf(s, d)
  <2>1. CASE s \in ScopesOf(RequestOf[a]) /\ d = day
    <3>1. TicketsOf(s, d)' = TicketsOf(s, d) \union {KeyOf(a)}
      BY <1>2, <2>1
    <3>2. QED
      BY <2>1, <3>1
  <2>2. CASE ~(s \in ScopesOf(RequestOf[a]) /\ d = day)
    <3>1. TicketsOf(s, d)' = TicketsOf(s, d)
      BY <1>2, <2>2
    <3>2. QED
      BY <2>2, <3>1
  <2>3. QED
    BY <2>1, <2>2
<1>5. ASSUME NEW c
      PROVE  TicketsIn(c)' = IF c = CycleOf(RequestOf[a])
                             THEN TicketsIn(c) \union {KeyOf(a)} ELSE TicketsIn(c)
  <2>1. CASE c = CycleOf(RequestOf[a])
    <3>1. TicketsIn(c)' = TicketsIn(c) \union {KeyOf(a)}
      BY <1>3, <2>1
    <3>2. QED
      BY <2>1, <3>1
  <2>2. CASE c # CycleOf(RequestOf[a])
    <3>1. TicketsIn(c)' = TicketsIn(c)
      BY <1>3, <2>2
    <3>2. QED
      BY <2>2, <3>1
  <2>3. QED
    BY <2>1, <2>2
<1>6. QED
  BY <1>4, <1>5

LEMMA SettledSets ==
  ASSUME TypeOK, TicketsAreOwned, NEW a \in Attempts,
         NEW usage \in Nat \union {Unknown}, NEW outcome \in {"success", "failure"},
         Settles(a, usage, outcome)
  PROVE  /\ \A s \in Scopes, d \in Days :
              /\ TicketsOf(s, d)' = TicketsOf(s, d)
              /\ KeyOf(a) \in TicketsOf(s, d)
                   <=> s \in ScopesOf(RequestOf[a]) /\ d = tickets[KeyOf(a)].day
         /\ \A c : /\ TicketsIn(c)' = TicketsIn(c)
                   /\ KeyOf(a) \in TicketsIn(c) <=> c = CycleOf(RequestOf[a])
<1>1. /\ KeyOf(a) \in DOMAIN tickets /\ tickets[KeyOf(a)].fingerprint = RequestOf[a]
      /\ DOMAIN tickets' = DOMAIN tickets
      /\ \A k \in DOMAIN tickets : /\ tickets'[k].fingerprint = tickets[k].fingerprint
                                   /\ tickets'[k].day = tickets[k].day
  BY SettledTicket
<1>2. QED
  BY <1>1 DEF TicketsOf, TicketsIn

(* A decision that has no cycle yet has no tickets.                        *)
LEMMA FirstOfCycle ==
  ASSUME TypeOK, TicketsAreOwned, BooksAreTrue, NEW a \in Attempts
  PROVE  LET c == CycleOf(RequestOf[a])
         IN  /\ Cycle(RequestOf[a]).units = Charged(TicketsIn(c))
             /\ Cycle(RequestOf[a]).calls = Cardinality(TicketsIn(c))
<1> DEFINE c == CycleOf(RequestOf[a])
<1>1. CASE c \in DOMAIN cycles
  BY <1>1 DEF BooksAreTrue, Cycle
<1>2. CASE c \notin DOMAIN cycles
  <2>1. TicketsIn(c) = {}
    BY <1>2 DEF TicketsIn, TicketsAreOwned
  <2>2. Charged({}) = 0
    BY TotalEmpty DEF Charged
  <2>3. QED
    BY <1>2, <2>1, <2>2, FS_EmptySet DEF Cycle
<1>3. QED
  BY <1>1, <1>2

LEMMA BooksStep == TypeOK /\ TicketsAreOwned /\ BooksAreTrue /\ [Next]_vars => BooksAreTrue'
<1> SUFFICES ASSUME TypeOK, TicketsAreOwned, BooksAreTrue, [Next]_vars PROVE BooksAreTrue'
  OBVIOUS
<1>1. ASSUME NEW a \in Attempts, Reserve(a) PROVE BooksAreTrue'
  <2> DEFINE n == RequestOf[a].bound
             k == KeyOf(a)
  <2>1. n \in Nat /\ day \in Days
    BY RequestTypes DEF TypeOK
  <2>2. ASSUME NEW s \in Scopes, NEW d \in Days
        PROVE  /\ days'[s][d].units = Charged(TicketsOf(s, d))'
               /\ days'[s][d].calls = Cardinality(TicketsOf(s, d))'
    <3>1. /\ days[s][d] \in Counter /\ days[s][d].units = Charged(TicketsOf(s, d))
          /\ days[s][d].calls = Cardinality(TicketsOf(s, d))
      BY DEF TypeOK, Counter, BooksAreTrue
    <3>2. TicketsOf(s, d) \in SUBSET DOMAIN tickets
      BY TicketSets
    <3>3. CASE s \in ScopesOf(RequestOf[a]) /\ d = day
      <4>1. /\ days'[s][d].units = days[s][d].units + n
            /\ days'[s][d].calls = days[s][d].calls + 1
        <5>1. days'[s][d] = Charge(days[s][d], n)
          BY <1>1, <3>3, ReservedCounters
        <5>2. n \in Int
          BY <2>1
        <5> HIDE DEF n
        <5>3. QED
          BY <3>1, <5>1, <5>2, ChargedCounter
      <4>2. TicketsOf(s, d)' = TicketsOf(s, d) \union {k}
        BY <1>1, <3>3, ReservedSets
      <4>3. /\ Total([j \in TicketsOf(s, d) \union {k} |-> tickets'[j].actual])
                 = Charged(TicketsOf(s, d)) + n
            /\ Cardinality(TicketsOf(s, d) \union {k}) = Cardinality(TicketsOf(s, d)) + 1
        BY <1>1, <3>2, ReservedSums
      <4>4. QED
        BY <3>1, <4>1, <4>2, <4>3 DEF Charged
    <3>4. CASE ~(s \in ScopesOf(RequestOf[a]) /\ d = day)
      <4>1. days'[s][d] = days[s][d]
        BY <1>1, <3>4, ReservedCounters
      <4>2. TicketsOf(s, d)' = TicketsOf(s, d)
        BY <1>1, <3>4, ReservedSets
      <4>3. Total([j \in TicketsOf(s, d) |-> tickets'[j].actual]) = Charged(TicketsOf(s, d))
        BY <1>1, <3>2, ReservedSums
      <4>4. QED
        BY <3>1, <4>1, <4>2, <4>3 DEF Charged
    <3>5. QED
      BY <3>3, <3>4
  <2>3. ASSUME NEW c \in DOMAIN cycles'
        PROVE  /\ cycles'[c].units = Charged(TicketsIn(c))'
               /\ cycles'[c].calls = Cardinality(TicketsIn(c))'
    <3>1. TicketsIn(c) \in SUBSET DOMAIN tickets
      BY TicketSets
    <3>2. CASE c = CycleOf(RequestOf[a])
      <4>1. Cycle(RequestOf[a]) \in CycleRecord
        BY CycleType DEF CycleRecord
      <4>2. cycles'[c] = Charge(Cycle(RequestOf[a]), n)
        BY <1>1, <3>2, ReservedCycle
      <4>3. /\ cycles'[c].units = Cycle(RequestOf[a]).units + n
            /\ cycles'[c].calls = Cycle(RequestOf[a]).calls + 1
        <5>1. n \in Int
          BY <2>1
        <5> HIDE DEF n
        <5>2. QED
          BY <4>1, <4>2, <5>1, ChargedCycle
      <4>4. TicketsIn(c)' = TicketsIn(c) \union {k}
        BY <1>1, <3>2, ReservedSets
      <4>5. /\ Total([j \in TicketsIn(c) \union {k} |-> tickets'[j].actual])
                 = Charged(TicketsIn(c)) + n
            /\ Cardinality(TicketsIn(c) \union {k}) = Cardinality(TicketsIn(c)) + 1
        BY <1>1, <3>1, ReservedSums
      <4>6. /\ Cycle(RequestOf[a]).units = Charged(TicketsIn(c))
            /\ Cycle(RequestOf[a]).calls = Cardinality(TicketsIn(c))
        BY <3>2, FirstOfCycle
      <4>7. QED
        BY <4>3, <4>4, <4>5, <4>6 DEF Charged
    <3>3. CASE c # CycleOf(RequestOf[a])
      <4>1. c \in DOMAIN cycles /\ cycles'[c] = cycles[c]
        BY <1>1, <3>3, ReservedCycle
      <4>2. TicketsIn(c)' = TicketsIn(c)
        BY <1>1, <3>3, ReservedSets
      <4>3. Total([j \in TicketsIn(c) |-> tickets'[j].actual]) = Charged(TicketsIn(c))
        BY <1>1, <3>1, ReservedSums
      <4>4. QED
        BY <4>1, <4>2, <4>3 DEF Charged, BooksAreTrue
    <3>4. QED
      BY <3>2, <3>3
  <2>4. QED
    BY <2>2, <2>3 DEF BooksAreTrue
<1>2. ASSUME NEW a \in Attempts, Settled(a) PROVE BooksAreTrue'
  <2>1. PICK usage \in Nat \union {Unknown}, outcome \in {"success", "failure"} :
          Settles(a, usage, outcome)
    BY <1>2 DEF Settled
  <2> DEFINE k == KeyOf(a)
             change == SettledCharge(tickets[k], usage) - tickets[k].reserved
  <2>2. ASSUME NEW s \in Scopes, NEW d \in Days
        PROVE  /\ days'[s][d].units = Charged(TicketsOf(s, d))'
               /\ days'[s][d].calls = Cardinality(TicketsOf(s, d))'
    <3>1. /\ days[s][d].units = Charged(TicketsOf(s, d))
          /\ days[s][d].calls = Cardinality(TicketsOf(s, d))
      BY DEF BooksAreTrue
    <3>2. TicketsOf(s, d) \in SUBSET DOMAIN tickets
      BY TicketSets
    <3>3. TicketsOf(s, d)' = TicketsOf(s, d)
      BY <2>1, SettledSets
    <3>4. Total([j \in TicketsOf(s, d) |-> tickets'[j].actual])
            = IF k \in TicketsOf(s, d) THEN Charged(TicketsOf(s, d)) + change
              ELSE Charged(TicketsOf(s, d))
      BY <2>1, <3>2, SettledSums
    <3>5. /\ days'[s][d].calls = days[s][d].calls
          /\ days'[s][d].units = IF s \in ScopesOf(RequestOf[a]) /\ d = tickets[k].day
                                 THEN days[s][d].units + change ELSE days[s][d].units
      BY <2>1, SettledCounters
    <3>6. k \in TicketsOf(s, d) <=> s \in ScopesOf(RequestOf[a]) /\ d = tickets[k].day
      BY <2>1, SettledSets
    <3> HIDE DEF k, change
    <3>7. QED
      BY <3>1, <3>3, <3>4, <3>5, <3>6 DEF Charged
  <2>3. ASSUME NEW c \in DOMAIN cycles'
        PROVE  /\ cycles'[c].units = Charged(TicketsIn(c))'
               /\ cycles'[c].calls = Cardinality(TicketsIn(c))'
    <3>1. /\ c \in DOMAIN cycles /\ cycles'[c].calls = cycles[c].calls
          /\ cycles'[c].units = IF c = CycleOf(RequestOf[a])
                                THEN cycles[c].units + change ELSE cycles[c].units
      BY <2>1, SettledCounters
    <3>2. /\ cycles[c].units = Charged(TicketsIn(c))
          /\ cycles[c].calls = Cardinality(TicketsIn(c))
      BY <3>1 DEF BooksAreTrue
    <3>3. TicketsIn(c) \in SUBSET DOMAIN tickets
      BY TicketSets
    <3>4. TicketsIn(c)' = TicketsIn(c) /\ (k \in TicketsIn(c) <=> c = CycleOf(RequestOf[a]))
      BY <2>1, SettledSets
    <3>5. Total([j \in TicketsIn(c) |-> tickets'[j].actual])
            = IF k \in TicketsIn(c) THEN Charged(TicketsIn(c)) + change
              ELSE Charged(TicketsIn(c))
      BY <2>1, <3>3, SettledSums
    <3> HIDE DEF k, change
    <3>6. QED
      BY <3>1, <3>2, <3>4, <3>5 DEF Charged
  <2>4. QED
    BY <2>2, <2>3 DEF BooksAreTrue
<1>3. CASE Quiet
  <2>1. tickets' = tickets /\ days' = days /\ cycles' = cycles
    BY <1>3 DEF Quiet
  <2>2. /\ \A s \in Scopes, d \in Days : TicketsOf(s, d)' = TicketsOf(s, d)
        /\ \A c : TicketsIn(c)' = TicketsIn(c)
    BY <2>1 DEF TicketsOf, TicketsIn
  <2>3. \A P : Total([k \in P |-> tickets'[k].actual]) = Total([k \in P |-> tickets[k].actual])
    BY <2>1
  <2>4. /\ \A s \in Scopes, d \in Days : Charged(TicketsOf(s, d))' = Charged(TicketsOf(s, d))
        /\ \A c : Charged(TicketsIn(c))' = Charged(TicketsIn(c))
    BY <2>2, <2>3 DEF Charged
  <2>5. QED
    BY <2>1, <2>2, <2>4 DEF BooksAreTrue
<1>4. QED
  BY <1>1, <1>2, <1>3, StepKinds

LEMMA LimitsStep ==
  TypeOK /\ TicketsAreOwned /\ BooksAreTrue /\ LimitsHold /\ [Next]_vars => LimitsHold'
<1> SUFFICES ASSUME TypeOK, TicketsAreOwned, BooksAreTrue, LimitsHold, [Next]_vars
             PROVE  LimitsHold'
  OBVIOUS
<1>1. ASSUME NEW a \in Attempts, Reserve(a) PROVE LimitsHold'
  <2> DEFINE n == RequestOf[a].bound
             k == KeyOf(a)
  <2>1. n \in Nat /\ n \in Int /\ day \in Days
    BY RequestTypes DEF TypeOK
  <2>2. /\ \A s \in ScopesOf(RequestOf[a]) : /\ days[s][day].units + n <= DailyUnits[s]
                                             /\ days[s][day].calls < DailyCalls[s]
        /\ Cycle(RequestOf[a]).units + n <= CycleUnits
        /\ Cycle(RequestOf[a]).calls < CycleCalls
    BY <1>1 DEF Reserve, Admitted, WithinDay, WithinCycle
  <2>3. ASSUME NEW s \in Scopes, NEW d \in Days
        PROVE  /\ days'[s][d].units <= DailyUnits[s] + Excess(TicketsOf(s, d))'
               /\ days'[s][d].calls <= DailyCalls[s]
    <3>1. days[s][d] \in Counter /\ DailyUnits[s] \in Nat /\ DailyCalls[s] \in Nat
      BY BoundTypes DEF TypeOK, Counter
    <3>2. TicketsOf(s, d) \in SUBSET DOMAIN tickets
      BY TicketSets
    <3>3. Excess(TicketsOf(s, d)) \in Nat
      BY <3>2, SumTypes
    <3>4. CASE s \in ScopesOf(RequestOf[a]) /\ d = day
      <4>1. days'[s][d] = Charge(days[s][d], n)
        BY <1>1, <3>4, ReservedCounters
      <4>2. TicketsOf(s, d)' = TicketsOf(s, d) \union {k}
        BY <1>1, <3>4, ReservedSets
      <4>3. Total([j \in TicketsOf(s, d) \union {k} |-> ExcessOf(j)']) = Excess(TicketsOf(s, d))
        BY <1>1, <3>2, ReservedSums
      <4>4. Excess(TicketsOf(s, d))' = Excess(TicketsOf(s, d))
        BY <4>2, <4>3 DEF Excess
      <4>5. days[s][d].units + n <= DailyUnits[s] /\ days[s][d].calls < DailyCalls[s]
        BY <2>2, <3>4
      <4> HIDE DEF n, k
      <4>6. days'[s][d].units = days[s][d].units + n /\ days'[s][d].calls = days[s][d].calls + 1
        <5>1. days[s][d] \in Counter /\ n \in Int
          BY <2>1, <3>1
        <5>2. QED
          BY <4>1, <5>1, ChargedCounter
      <4>7. days[s][d].units \in Int /\ days[s][d].calls \in Nat
        BY <3>1 DEF Counter
      <4>8. QED
        BY <2>1, <3>1, <3>3, <4>4, <4>5, <4>6, <4>7
    <3>5. CASE ~(s \in ScopesOf(RequestOf[a]) /\ d = day)
      <4>1. days'[s][d] = days[s][d]
        BY <1>1, <3>5, ReservedCounters
      <4>2. TicketsOf(s, d)' = TicketsOf(s, d)
        BY <1>1, <3>5, ReservedSets
      <4>3. Total([j \in TicketsOf(s, d) |-> ExcessOf(j)']) = Excess(TicketsOf(s, d))
        BY <1>1, <3>2, ReservedSums
      <4>4. Excess(TicketsOf(s, d))' = Excess(TicketsOf(s, d))
        BY <4>2, <4>3 DEF Excess
      <4>5. QED
        BY <4>1, <4>4 DEF LimitsHold
    <3>6. QED
      BY <3>4, <3>5
  <2>4. ASSUME NEW c \in DOMAIN cycles'
        PROVE  /\ cycles'[c].units <= CycleUnits + Excess(TicketsIn(c))'
               /\ Cardinality(TicketsIn(c))' <= CycleCalls
    <3>1. TicketsIn(c) \in SUBSET DOMAIN tickets
      BY TicketSets
    <3>2. Excess(TicketsIn(c)) \in Nat /\ Cardinality(TicketsIn(c)) \in Nat
      BY <3>1, SumTypes
    <3>3. CycleUnits \in Nat /\ CycleCalls \in Nat
      BY BoundTypes
    <3>4. CASE c = CycleOf(RequestOf[a])
      <4>1. TicketsIn(c)' = TicketsIn(c) \union {k}
        BY <1>1, <3>4, ReservedSets
      <4>2. /\ Total([j \in TicketsIn(c) \union {k} |-> ExcessOf(j)']) = Excess(TicketsIn(c))
            /\ Cardinality(TicketsIn(c) \union {k}) = Cardinality(TicketsIn(c)) + 1
        BY <1>1, <3>1, ReservedSums
      <4>3. Excess(TicketsIn(c))' = Excess(TicketsIn(c))
        BY <4>1, <4>2 DEF Excess
      <4>4. Cycle(RequestOf[a]) \in CycleRecord
        BY CycleType DEF CycleRecord
      <4>5. cycles'[c] = Charge(Cycle(RequestOf[a]), n)
        BY <1>1, <3>4, ReservedCycle
      <4>6. Cycle(RequestOf[a]).calls = Cardinality(TicketsIn(c))
        BY <3>4, FirstOfCycle
      <4> HIDE DEF n, k
      <4>7. cycles'[c].units = Cycle(RequestOf[a]).units + n
        BY <2>1, <4>4, <4>5, ChargedCycle
      <4>8. Cycle(RequestOf[a]).units \in Int
        BY <4>4 DEF CycleRecord
      <4>9. QED
        BY <2>1, <2>2, <3>2, <3>3, <4>1, <4>2, <4>3, <4>6, <4>7, <4>8
    <3>5. CASE c # CycleOf(RequestOf[a])
      <4>1. c \in DOMAIN cycles /\ cycles'[c] = cycles[c]
        BY <1>1, <3>5, ReservedCycle
      <4>2. TicketsIn(c)' = TicketsIn(c)
        BY <1>1, <3>5, ReservedSets
      <4>3. Total([j \in TicketsIn(c) |-> ExcessOf(j)']) = Excess(TicketsIn(c))
        BY <1>1, <3>1, ReservedSums
      <4>4. Excess(TicketsIn(c))' = Excess(TicketsIn(c))
        BY <4>2, <4>3 DEF Excess
      <4>5. QED
        BY <4>1, <4>2, <4>4 DEF LimitsHold
    <3>6. QED
      BY <3>4, <3>5
  <2>5. QED
    BY <2>3, <2>4 DEF LimitsHold
<1>2. ASSUME NEW a \in Attempts, Settled(a) PROVE LimitsHold'
  <2>1. PICK usage \in Nat \union {Unknown}, outcome \in {"success", "failure"} :
          Settles(a, usage, outcome)
    BY <1>2 DEF Settled
  <2> DEFINE k == KeyOf(a)
             change == SettledCharge(tickets[k], usage) - tickets[k].reserved
  <2>2. change \in Int
    BY SMTT(40), <2>1, SettledTicket DEF TypeOK, Ticket
  <2>3. ASSUME NEW s \in Scopes, NEW d \in Days
        PROVE  /\ days'[s][d].units <= DailyUnits[s] + Excess(TicketsOf(s, d))'
               /\ days'[s][d].calls <= DailyCalls[s]
    <3>1. /\ days[s][d].units \in Int /\ DailyUnits[s] \in Nat
          /\ days[s][d].units <= DailyUnits[s] + Excess(TicketsOf(s, d))
          /\ days[s][d].calls <= DailyCalls[s]
      BY BoundTypes DEF TypeOK, Counter, LimitsHold
    <3>2. TicketsOf(s, d) \in SUBSET DOMAIN tickets
      BY TicketSets
    <3>3. Excess(TicketsOf(s, d)) \in Nat
      BY <3>2, SumTypes
    <3>4. /\ TicketsOf(s, d)' = TicketsOf(s, d)
          /\ k \in TicketsOf(s, d) <=> s \in ScopesOf(RequestOf[a]) /\ d = tickets[k].day
      BY <2>1, SettledSets
    <3>5. PICK excess \in Nat :
            /\ excess = Total([j \in TicketsOf(s, d) |-> ExcessOf(j)'])
            /\ k \notin TicketsOf(s, d) => excess = Excess(TicketsOf(s, d))
            /\ k \in TicketsOf(s, d) => excess >= Excess(TicketsOf(s, d)) + change
      BY <2>1, <3>2, SettledSums
    <3>6. /\ days'[s][d].calls = days[s][d].calls
          /\ days'[s][d].units = IF s \in ScopesOf(RequestOf[a]) /\ d = tickets[k].day
                                 THEN days[s][d].units + change ELSE days[s][d].units
      BY <2>1, SettledCounters
    <3>7. Excess(TicketsOf(s, d))' = excess
      BY <3>4, <3>5 DEF Excess
    <3> HIDE DEF k, change
    <3>8. QED
      BY <2>2, <3>1, <3>3, <3>4, <3>5, <3>6, <3>7
  <2>4. ASSUME NEW c \in DOMAIN cycles'
        PROVE  /\ cycles'[c].units <= CycleUnits + Excess(TicketsIn(c))'
               /\ Cardinality(TicketsIn(c))' <= CycleCalls
    <3>1. /\ c \in DOMAIN cycles
          /\ cycles'[c].units = IF c = CycleOf(RequestOf[a])
                                THEN cycles[c].units + change ELSE cycles[c].units
      BY <2>1, SettledCounters
    <3>2. /\ cycles[c].units \in Int /\ CycleUnits \in Nat
          /\ cycles[c].units <= CycleUnits + Excess(TicketsIn(c))
          /\ Cardinality(TicketsIn(c)) <= CycleCalls
      BY <3>1, BoundTypes DEF TypeOK, LimitsHold
    <3>3. TicketsIn(c) \in SUBSET DOMAIN tickets
      BY TicketSets
    <3>4. Excess(TicketsIn(c)) \in Nat
      BY <3>3, SumTypes
    <3>5. TicketsIn(c)' = TicketsIn(c) /\ (k \in TicketsIn(c) <=> c = CycleOf(RequestOf[a]))
      BY <2>1, SettledSets
    <3>6. PICK excess \in Nat :
            /\ excess = Total([j \in TicketsIn(c) |-> ExcessOf(j)'])
            /\ k \notin TicketsIn(c) => excess = Excess(TicketsIn(c))
            /\ k \in TicketsIn(c) => excess >= Excess(TicketsIn(c)) + change
      BY <2>1, <3>3, SettledSums
    <3>7. Excess(TicketsIn(c))' = excess
      BY <3>5, <3>6 DEF Excess
    <3> HIDE DEF k, change
    <3>8. QED
      BY <2>2, <3>1, <3>2, <3>4, <3>5, <3>6, <3>7
  <2>5. QED
    BY <2>3, <2>4 DEF LimitsHold
<1>3. CASE Quiet
  <2>1. tickets' = tickets /\ days' = days /\ cycles' = cycles
    BY <1>3 DEF Quiet
  <2>2. /\ \A s \in Scopes, d \in Days : TicketsOf(s, d)' = TicketsOf(s, d)
        /\ \A c : TicketsIn(c)' = TicketsIn(c)
    BY <2>1 DEF TicketsOf, TicketsIn
  <2>3. \A k : ExcessOf(k)' = ExcessOf(k)
    BY <2>1 DEF ExcessOf
  <2>4. \A P : Total([k \in P |-> ExcessOf(k)']) = Total([k \in P |-> ExcessOf(k)])
    BY <2>3
  <2>5. /\ \A s \in Scopes, d \in Days : Excess(TicketsOf(s, d))' = Excess(TicketsOf(s, d))
        /\ \A c : Excess(TicketsIn(c))' = Excess(TicketsIn(c))
    BY <2>2, <2>4 DEF Excess
  <2>6. QED
    BY <2>1, <2>2, <2>5 DEF LimitsHold
<1>4. QED
  BY <1>1, <1>2, <1>3, StepKinds

-----------------------------------------------------------------------------
(* The rate of a scope.                                                    *)

LEMMA SinceTypes ==
  ASSUME TypeOK, NEW s \in Scopes, NEW n \in Int
  PROVE  IsFiniteSet(Since(s, n)) /\ Cardinality(Since(s, n)) \in Nat
<1>1. Since(s, n) \in SUBSET DOMAIN tickets
  BY DEF Since
<1>2. QED
  BY <1>1, SumTypes

(* Pruning loses no call that is younger than a minute.                    *)
LEMMA KeptByPruning ==
  ASSUME TypeOK, RatesAreKept, NEW s \in Scopes, NEW j \in 0..Len(Recent(s)), NEW n \in Int,
         n >= clock - Minute, j # 0 => Recent(s)[j] <= n
  PROVE  Cardinality(Since(s, n)) <= Len(Recent(s)) - j
<1>1. PICK d \in 0..Len(rates[s]) :
        /\ Recent(s) \in Seq(Nat) /\ Len(Recent(s)) = Len(rates[s]) - d
        /\ \A i \in 1..(Len(rates[s]) - d) : Recent(s)[i] = rates[s][i + d]
        /\ d # 0 => rates[s][d] <= clock - Minute
  BY RecentIsSuffix
<1>2. /\ rates[s] \in Seq(Nat) /\ Len(rates[s]) \in Nat /\ clock \in Nat /\ Minute \in Nat
      /\ \A i \in 1..Len(rates[s]) : rates[s][i] \in Nat
  <2>1. rates[s] \in Seq(Nat) /\ clock \in Nat /\ Minute \in Nat
    BY BoundTypes DEF TypeOK
  <2>2. QED
    BY <2>1
<1>3. j + d \in 0..Len(rates[s])
  BY <1>1, <1>2
<1>4. j + d # 0 => rates[s][j + d] <= n
  <2>1. CASE j = 0
    <3>1. d # 0 => rates[s][d] \in Nat
      BY <1>2
    <3>2. QED
      BY <1>1, <1>2, <2>1, <3>1
  <2>2. CASE j # 0
    <3>1. j \in 1..(Len(rates[s]) - d) /\ Recent(s)[j] <= n
      BY <1>1, <1>2, <2>2
    <3>2. QED
      BY <1>1, <3>1
  <2>3. QED
    BY <2>1, <2>2
<1>5. Cardinality(Since(s, n)) <= Len(rates[s]) - (j + d)
  BY <1>3, <1>4 DEF RatesAreKept
<1>6. QED
  BY <1>1, <1>2, <1>5, SinceTypes

LEMMA RatesStep ==
  /\ TypeOK /\ TicketsAreOwned /\ RatesAreKept /\ [Next]_vars /\ TypeOK' /\ TicketsAreOwned'
  => RatesAreKept'
<1> SUFFICES ASSUME TypeOK, TicketsAreOwned, RatesAreKept, [Next]_vars, TypeOK', TicketsAreOwned',
                    NEW s \in Scopes, NEW j \in 0..Len(rates'[s]), NEW n \in Int,
                    n >= clock' - Minute, j # 0 => rates'[s][j] <= n
             PROVE  Cardinality(Since(s, n)') <= Len(rates'[s]) - j
  BY DEF RatesAreKept
<1>1. clock \in Nat /\ Minute \in Nat
  BY BoundTypes DEF TypeOK
<1>2. ASSUME NEW a \in Attempts, Reserve(a)
      PROVE  Cardinality(Since(s, n)') <= Len(rates'[s]) - j
  <2>1. /\ clock' = clock
        /\ rates'[s] = IF s \in ScopesOf(RequestOf[a]) THEN Append(Recent(s), clock) ELSE rates[s]
    BY <1>2 DEF Reserve
  <2>2. /\ KeyOf(a) \notin DOMAIN tickets /\ DOMAIN tickets' = DOMAIN tickets \union {KeyOf(a)}
        /\ tickets'[KeyOf(a)].fingerprint = RequestOf[a]
        /\ \A k \in DOMAIN tickets : tickets'[k] = tickets[k]
    BY <1>2, ReservedTicket
  <2>3. CASE s \in ScopesOf(RequestOf[a])
    <3>1. Recent(s) \in Seq(Nat) /\ Len(Recent(s)) \in Nat
      BY RecentType
    <3>2. rates'[s] = Append(Recent(s), clock)
      BY <2>1, <2>3
    <3>3. /\ Len(rates'[s]) = Len(Recent(s)) + 1 /\ rates'[s][Len(Recent(s)) + 1] = clock
          /\ \A i \in 1..Len(Recent(s)) : rates'[s][i] = Recent(s)[i]
      BY <1>1, <3>1, <3>2
    <3>4. CASE j \in 0..Len(Recent(s))
      <4>1. j # 0 => Recent(s)[j] <= n
        BY <3>1, <3>3, <3>4
      <4>2. Cardinality(Since(s, n)) <= Len(Recent(s)) - j
        BY <2>1, <3>4, <4>1, KeptByPruning
      <4>3. Since(s, n)' \subseteq Since(s, n) \union {KeyOf(a)}
        BY <2>2 DEF Since
      <4>4. IsFiniteSet(Since(s, n)) /\ Cardinality(Since(s, n)) \in Nat
        BY SinceTypes
      <4>5. /\ IsFiniteSet(Since(s, n) \union {KeyOf(a)})
            /\ Cardinality(Since(s, n) \union {KeyOf(a)}) <= Cardinality(Since(s, n)) + 1
            /\ Cardinality(Since(s, n) \union {KeyOf(a)}) \in Nat
        <5>1. KeyOf(a) \notin Since(s, n)
          BY <2>2 DEF Since
        <5>2. /\ IsFiniteSet(Since(s, n) \union {KeyOf(a)})
              /\ Cardinality(Since(s, n) \union {KeyOf(a)}) = Cardinality(Since(s, n)) + 1
          BY <4>4, <5>1, FS_AddElement
        <5>3. QED
          BY <4>4, <5>2
      <4>6. /\ Cardinality(Since(s, n)') <= Cardinality(Since(s, n) \union {KeyOf(a)})
            /\ Cardinality(Since(s, n)') \in Nat
        BY <4>3, <4>5, FS_Subset, FS_CardinalityType
      <4>7. QED
        BY <3>1, <3>3, <3>4, <4>2, <4>4, <4>5, <4>6
    <3>5. CASE j = Len(Recent(s)) + 1
      <4>1. n >= clock
        BY <3>1, <3>3, <3>5
      <4>2. \A k \in DOMAIN tickets' : tickets'[k].at <= clock /\ tickets'[k].at \in Nat
        BY <2>1 DEF TicketsAreOwned, TypeOK, Ticket
      <4>3. Since(s, n)' = {}
        BY <1>1, <4>1, <4>2 DEF Since
      <4>4. QED
        BY <3>1, <3>3, <3>5, <4>3, FS_EmptySet
    <3>6. QED
      BY <3>1, <3>3, <3>4, <3>5
  <2>4. CASE s \notin ScopesOf(RequestOf[a])
    <3>1. Since(s, n)' = Since(s, n)
      BY <2>2, <2>4 DEF Since
    <3>2. rates'[s] = rates[s]
      BY <2>1, <2>4
    <3>3. Cardinality(Since(s, n)) <= Len(rates[s]) - j
      BY <2>1, <3>2 DEF RatesAreKept
    <3>4. QED
      BY <3>1, <3>2, <3>3
  <2>5. QED
    BY <2>3, <2>4
<1>3. ASSUME \/ rates'[s] = rates[s] /\ clock' >= clock
             \/ rates'[s] = Recent(s) /\ clock' = clock,
             Since(s, n)' = Since(s, n)
      PROVE  Cardinality(Since(s, n)') <= Len(rates'[s]) - j
  <2>1. CASE rates'[s] = rates[s] /\ clock' >= clock
    <3>1. n >= clock - Minute
      BY <1>1, <2>1 DEF TypeOK
    <3>2. j \in 0..Len(rates[s]) /\ (j # 0 => rates[s][j] <= n)
      BY <2>1
    <3>3. Cardinality(Since(s, n)) <= Len(rates[s]) - j
      BY <3>1, <3>2 DEF RatesAreKept
    <3>4. QED
      BY <1>3, <2>1, <3>3
  <2>2. CASE rates'[s] = Recent(s) /\ clock' = clock
    <3>1. /\ j \in 0..Len(Recent(s)) /\ (j # 0 => Recent(s)[j] <= n)
          /\ n >= clock - Minute
      BY <2>2
    <3>2. Cardinality(Since(s, n)) <= Len(Recent(s)) - j
      BY <3>1, KeptByPruning
    <3>3. QED
      BY <1>3, <2>2, <3>2
  <2>3. QED
    BY <1>3, <2>1, <2>2
<1>4. ASSUME NEW a \in Attempts, Settled(a)
      PROVE  Cardinality(Since(s, n)') <= Len(rates'[s]) - j
  <2>1. PICK usage \in Nat \union {Unknown}, outcome \in {"success", "failure"} :
          Settles(a, usage, outcome)
    BY <1>4 DEF Settled
  <2>2. rates' = rates /\ clock' = clock
    BY <2>1 DEF Settles, Finish
  <2>3. Since(s, n)' = Since(s, n)
    <3>1. /\ DOMAIN tickets' = DOMAIN tickets
          /\ \A k \in DOMAIN tickets : /\ tickets'[k].fingerprint = tickets[k].fingerprint
                                       /\ tickets'[k].at = tickets[k].at
      BY <2>1, SettledTicket
    <3>2. QED
      BY <3>1 DEF Since
  <2>4. QED
    BY <1>1, <1>3, <2>2, <2>3
<1>5. ASSUME NEW a \in Attempts, Refuse(a)
      PROVE  Cardinality(Since(s, n)') <= Len(rates'[s]) - j
  <2>1. /\ clock' = clock /\ tickets' = tickets
        /\ rates'[s] = Recent(s) \/ rates'[s] = rates[s]
    BY <1>5 DEF Refuse
  <2>2. Since(s, n)' = Since(s, n)
    BY <2>1 DEF Since
  <2>3. QED
    BY <1>1, <1>3, <2>1, <2>2
<1>6. ASSUME NEW a \in Attempts, FindTicket(a) \/ Dispatch(a)
      PROVE  Cardinality(Since(s, n)') <= Len(rates'[s]) - j
  <2>1. clock' = clock /\ tickets' = tickets /\ rates' = rates
    BY <1>6 DEF FindTicket, Dispatch, ledger
  <2>2. Since(s, n)' = Since(s, n)
    BY <2>1 DEF Since
  <2>3. QED
    BY <1>1, <1>3, <2>1, <2>2
<1>7. CASE ClockTicks \/ Midnight \/ UNCHANGED vars
  <2>1. clock' >= clock /\ tickets' = tickets /\ rates' = rates
    BY <1>1, <1>7 DEF ClockTicks, Midnight, vars, ledger
  <2>2. Since(s, n)' = Since(s, n)
    BY <2>1 DEF Since
  <2>3. QED
    BY <1>3, <2>1, <2>2
<1>8. QED
  BY <1>2, <1>4, <1>5, <1>6, <1>7, EndsSettle DEF Next

LEMMA RateStep ==
  TypeOK /\ TicketsAreOwned /\ RatesAreKept /\ RateHolds /\ [Next]_vars => RateHolds'
<1> SUFFICES ASSUME TypeOK, TicketsAreOwned, RatesAreKept, RateHolds, [Next]_vars,
                    NEW s \in Scopes, NEW t \in 0..MaxClock
             PROVE  Cardinality(StartedIn(s, t)') <= MinuteCalls[s]
  BY DEF RateHolds
<1>1. /\ clock \in Nat /\ Minute \in Nat /\ MinuteCalls[s] \in Nat /\ t \in Int
      /\ Cardinality(StartedIn(s, t)) <= MinuteCalls[s]
      /\ StartedIn(s, t) \in SUBSET DOMAIN tickets
  <2>1. clock \in Nat /\ Minute \in Nat /\ MinuteCalls[s] \in Nat
    BY BoundTypes DEF TypeOK
  <2>2. Cardinality(StartedIn(s, t)) <= MinuteCalls[s]
    BY DEF RateHolds
  <2>3. StartedIn(s, t) \in SUBSET DOMAIN tickets
    BY DEF StartedIn
  <2>4. QED
    BY <2>1, <2>2, <2>3
<1>2. ASSUME NEW a \in Attempts, Reserve(a)
      PROVE  Cardinality(StartedIn(s, t)') <= MinuteCalls[s]
  <2>1. /\ KeyOf(a) \notin DOMAIN tickets /\ DOMAIN tickets' = DOMAIN tickets \union {KeyOf(a)}
        /\ tickets'[KeyOf(a)].fingerprint = RequestOf[a] /\ tickets'[KeyOf(a)].at = clock
        /\ \A k \in DOMAIN tickets : tickets'[k] = tickets[k]
    BY <1>2, ReservedTicket
  <2>2. CASE s \in ScopesOf(RequestOf[a]) /\ clock \in t..(t + Minute - 1)
    <3>1. Recent(s) \in Seq(Nat) /\ Len(Recent(s)) \in Nat /\ Len(Recent(s)) < MinuteCalls[s]
      BY <1>2, <2>2, RecentType DEF Reserve, Admitted, WithinDay
    <3>2. Cardinality(Since(s, clock - Minute)) <= Len(Recent(s))
      <4>1. clock - Minute \in Int /\ 0 \in 0..Len(Recent(s)) /\ clock - Minute >= clock - Minute
        BY <1>1, <3>1
      <4>2. Cardinality(Since(s, clock - Minute)) <= Len(Recent(s)) - 0
        BY <4>1, KeptByPruning
      <4>3. QED
        BY <3>1, <4>2
    <3>3. StartedIn(s, t) \subseteq Since(s, clock - Minute)
      <4>1. \A k \in DOMAIN tickets : tickets[k].at \in Nat
        BY DEF TypeOK, Ticket
      <4>2. QED
        BY <1>1, <2>2, <4>1 DEF StartedIn, Since
    <3>4. /\ IsFiniteSet(Since(s, clock - Minute))
          /\ Cardinality(Since(s, clock - Minute)) \in Nat
      <4>1. clock - Minute \in Int
        BY <1>1
      <4>2. QED
        BY <4>1, SinceTypes
    <3>5. /\ IsFiniteSet(StartedIn(s, t)) /\ Cardinality(StartedIn(s, t)) \in Nat
          /\ Cardinality(StartedIn(s, t)) <= Cardinality(Since(s, clock - Minute))
      BY <3>3, <3>4, FS_Subset, FS_CardinalityType
    <3>6. StartedIn(s, t)' = StartedIn(s, t) \union {KeyOf(a)}
      BY <2>1, <2>2 DEF StartedIn
    <3>7. Cardinality(StartedIn(s, t) \union {KeyOf(a)}) = Cardinality(StartedIn(s, t)) + 1
      <4>1. KeyOf(a) \notin StartedIn(s, t)
        BY <1>1, <2>1
      <4>2. QED
        BY <3>5, <4>1, FS_AddElement
    <3>8. QED
      BY <1>1, <3>1, <3>2, <3>4, <3>5, <3>6, <3>7
  <2>3. CASE ~(s \in ScopesOf(RequestOf[a]) /\ clock \in t..(t + Minute - 1))
    <3>1. StartedIn(s, t)' = StartedIn(s, t)
      BY <2>1, <2>3 DEF StartedIn
    <3>2. QED
      BY <1>1, <3>1
  <2>4. QED
    BY <2>2, <2>3
<1>3. ASSUME NEW a \in Attempts, Settled(a)
      PROVE  Cardinality(StartedIn(s, t)') <= MinuteCalls[s]
  <2>1. PICK usage \in Nat \union {Unknown}, outcome \in {"success", "failure"} :
          Settles(a, usage, outcome)
    BY <1>3 DEF Settled
  <2>2. StartedIn(s, t)' = StartedIn(s, t)
    <3>1. /\ DOMAIN tickets' = DOMAIN tickets
          /\ \A k \in DOMAIN tickets : /\ tickets'[k].fingerprint = tickets[k].fingerprint
                                       /\ tickets'[k].at = tickets[k].at
      BY <2>1, SettledTicket
    <3>2. QED
      BY <3>1 DEF StartedIn
  <2>3. QED
    BY <1>1, <2>2
<1>4. CASE Quiet
  <2>1. StartedIn(s, t)' = StartedIn(s, t)
    BY <1>4 DEF Quiet, StartedIn
  <2>2. QED
    BY <1>1, <2>1
<1>5. QED
  BY <1>2, <1>3, <1>4, StepKinds
-----------------------------------------------------------------------------
LEMMA InitIInv == Init => IInv
<1> SUFFICES ASSUME Init PROVE IInv
  OBVIOUS
<1>1. /\ tickets = <<>> /\ DOMAIN tickets = {} /\ cycles = <<>> /\ DOMAIN cycles = {}
      /\ clock = 0 /\ day = 1 /\ 1 \in Days
  BY BoundTypes, BudgetAssumption DEF Init, Days
<1>2. TypeOK
  <2>1. tickets \in [DOMAIN tickets -> Ticket] /\ IsFiniteSet(DOMAIN tickets)
    BY <1>1, FS_EmptySet
  <2>2. cycles \in [DOMAIN cycles -> CycleRecord]
    BY <1>1
  <2>3. days \in [Scopes -> [Days -> Counter]]
    BY DEF Init, Zero, Counter
  <2>4. /\ rates \in [Scopes -> Seq(Nat)]
        /\ call \in [Attempts -> [pc : {"idle", "reserved", "waiting", "done"}, since : Nat,
                                  result : Outcomes]]
    BY DEF Init, Outcomes
  <2>5. billed \in [Keys -> Bill]
    BY DEF Init, Bill
  <2>6. QED
    BY <1>1, <2>1, <2>2, <2>3, <2>4, <2>5 DEF TypeOK, Counter, CycleRecord, Bill
<1>3. TicketsAreOwned /\ AskedOnce
  <2>1. /\ \A a \in Attempts : call[a].pc = "idle" /\ KeyOf(a) \in Keys
        /\ \A k \in Keys : billed[k].asked = 0 /\ billed[k].units = 0
    BY RequestTypes DEF Init
  <2>2. QED
    BY <1>1, <2>1 DEF TicketsAreOwned, Active, AskedOnce
<1>4. /\ \A s \in Scopes, d \in Days : TicketsOf(s, d) = {} /\ days[s][d] = Zero
      /\ \A s \in Scopes, n \in Int : Since(s, n) = {}
      /\ \A s \in Scopes : rates[s] = <<>>
      /\ \A s \in Scopes, t \in 0..MaxClock : StartedIn(s, t) = {}
  BY <1>1 DEF TicketsOf, Since, StartedIn, Init
<1>5. Charged({}) = 0 /\ Excess({}) = 0 /\ Cardinality({}) = 0
  BY TotalEmpty, FS_EmptySet DEF Charged, Excess
<1>6. BooksAreTrue /\ LimitsHold
  <2>1. \A s \in Scopes, d \in Days : /\ days[s][d].units = 0 /\ days[s][d].calls = 0
                                       /\ TicketsOf(s, d) = {}
    BY <1>4 DEF Zero
  <2>2. \A s \in Scopes : DailyUnits[s] \in Nat /\ DailyCalls[s] \in Nat
    BY BoundTypes
  <2>3. \A s \in Scopes, d \in Days :
          /\ Charged(TicketsOf(s, d)) = 0 /\ Excess(TicketsOf(s, d)) = 0
          /\ Cardinality(TicketsOf(s, d)) = 0
    BY <1>5, <2>1
  <2>4. QED
    BY <1>1, <2>1, <2>2, <2>3 DEF BooksAreTrue, LimitsHold
<1>7. RatesAreKept
  <2> SUFFICES ASSUME NEW s \in Scopes, NEW j \in 0..Len(rates[s]), NEW n \in Int
               PROVE  Cardinality(Since(s, n)) <= Len(rates[s]) - j
    BY DEF RatesAreKept
  <2>1. Len(rates[s]) = 0 /\ j = 0
    BY <1>4
  <2>2. Cardinality(Since(s, n)) = 0
    BY <1>4, <1>5
  <2>3. QED
    BY <2>1, <2>2
<1>8. RateHolds
  <2>1. \A s \in Scopes : MinuteCalls[s] \in Nat
    BY BoundTypes
  <2>2. \A s \in Scopes, t \in 0..MaxClock : Cardinality(StartedIn(s, t)) = 0
    BY <1>4, <1>5
  <2>3. QED
    BY <2>1, <2>2 DEF RateHolds
<1>9. QED
  BY <1>2, <1>3, <1>6, <1>7, <1>8 DEF IInv

LEMMA NextIInv == IInv /\ [Next]_vars => IInv'
<1> SUFFICES ASSUME IInv, [Next]_vars PROVE IInv'
  OBVIOUS
<1>1. TypeOK' /\ TicketsAreOwned' /\ AskedOnce'
  BY TypeStep, OwnedStep DEF IInv
<1>2. BooksAreTrue' /\ LimitsHold'
  BY BooksStep, LimitsStep DEF IInv
<1>3. RatesAreKept' /\ RateHolds'
  BY <1>1, RatesStep, RateStep DEF IInv
<1>4. QED
  BY <1>1, <1>2, <1>3 DEF IInv

LEMMA BilledIsCharged ==
  ASSUME TypeOK, TicketsAreOwned, NEW P \in SUBSET DOMAIN tickets
  PROVE  Billed(P) <= Charged(P)
<1> DEFINE f == [k \in P |-> billed[k].units]
           g == [k \in P |-> tickets[k].actual]
<1>1. \A k \in P : billed[k].units \in Nat /\ billed[k].units <= tickets[k].actual
  BY DEF TypeOK, TicketsAreOwned
<1>2. IsFiniteSet(P) /\ g \in [P -> Nat]
  BY SumTypes
<1>3. f \in [P -> Nat] /\ \A k \in P : f[k] <= g[k]
  BY <1>1
<1> HIDE DEF f, g
<1>4. Total(f) <= Total(g)
  BY <1>2, <1>3, TotalMonotone
<1>5. QED
  BY <1>4 DEF Billed, Charged, f, g

LEMMA BooksCoverBills == IInv => SpendIsCovered
<1> SUFFICES ASSUME IInv PROVE SpendIsCovered
  OBVIOUS
<1>1. TypeOK /\ TicketsAreOwned /\ BooksAreTrue
  BY DEF IInv
<1>2. \A s \in Scopes, d \in Days : Billed(TicketsOf(s, d)) <= days[s][d].units
  <2> SUFFICES ASSUME NEW s \in Scopes, NEW d \in Days
               PROVE  Billed(TicketsOf(s, d)) <= days[s][d].units
    OBVIOUS
  <2>1. TicketsOf(s, d) \in SUBSET DOMAIN tickets
    BY <1>1, TicketSets
  <2>2. Billed(TicketsOf(s, d)) <= Charged(TicketsOf(s, d))
    BY <1>1, <2>1, BilledIsCharged
  <2>3. QED
    BY <1>1, <2>2 DEF BooksAreTrue
<1>3. \A c \in DOMAIN cycles : Billed(TicketsIn(c)) <= cycles[c].units
  <2> SUFFICES ASSUME NEW c \in DOMAIN cycles PROVE Billed(TicketsIn(c)) <= cycles[c].units
    OBVIOUS
  <2>1. TicketsIn(c) \in SUBSET DOMAIN tickets
    BY <1>1, TicketSets
  <2>2. Billed(TicketsIn(c)) <= Charged(TicketsIn(c))
    BY <1>1, <2>1, BilledIsCharged
  <2>3. QED
    BY <1>1, <2>2 DEF BooksAreTrue
<1>4. QED
  BY <1>2, <1>3 DEF SpendIsCovered
-----------------------------------------------------------------------------
THEOREM Invariance == Spec => []IInv
<1>1. QED
  BY InitIInv, NextIInv, PTL DEF Spec

(* The ledger's variables keep their types, for any limits and any calls.  *)
THEOREM TypeCorrect == Spec => []TypeOK
<1>1. IInv => TypeOK
  BY DEF IInv
<1>2. QED
  BY <1>1, Invariance, PTL

(* The counter of a day, scope or decision never says less than providers charged for its calls,
   for any number of calls in flight: an unknown usage is settled at its full reservation, and the
   correction goes to the day of the reservation (budget.py:152-189).                             *)
THEOREM SpendIsAlwaysCovered == Spec => []SpendIsCovered
<1>1. QED
  BY BooksCoverBills, Invariance, PTL

(* No day, decision or minute admits more than its limits, however many calls reserve and settle
   between its reading of the counters and the provider's answer (budget.py:122-150).             *)
THEOREM BudgetsAlwaysHold == Spec => []BudgetsHold
<1>1. IInv => BudgetsHold
  BY DEF IInv, BudgetsHold
<1>2. QED
  BY <1>1, Invariance, PTL

(* However often one key is presented, its provider is asked at most once (budget.py:99-107).      *)
THEOREM AskedAtMostOnce == Spec => []AskedOnce
<1>1. IInv => AskedOnce
  BY DEF IInv
<1>2. QED
  BY <1>1, Invariance, PTL
=============================================================================
