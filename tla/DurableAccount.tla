--------------------------- MODULE DurableAccount ---------------------------
(***************************************************************************)
(* The PostgreSQL authority of one paper account                           *)
(* (services/workflows/src/kavrigo_workflows/accounts.py): leases by the   *)
(* database clock, a fencing token, an idempotent command journal, and     *)
(* callers that crash, stall, lose acknowledgements and retry.             *)
(*                                                                         *)
(* A transaction that writes holds the account row's lock (SELECT ... FOR  *)
(* UPDATE) from its first statement to COMMIT, but the database clock      *)
(* moves between its statements: that is why commit_in_transaction is      *)
(* several steps here. What a command does to orders, cash and risk is the *)
(* subject of the paper account model; here the machine is its journal.    *)
(***************************************************************************)
EXTENDS Integers, Sequences, FiniteSets

CONSTANTS
  Procs,             \* activity attempts, each with its own Lease object
  Owner,             \* Owner[p]: the run on whose behalf p leases the account
  NoOwner,           \* lease_owner of a row that was never leased
  Commands,          \* the commands callers may send
  NoBook,            \* book of a command that is not a market observation
  NoTxn,             \* nobody holds the row lock for a commit
  NoLease,           \* a caller that holds no Lease object
  NoReply,           \* no receipt is on its way to the caller
  LeaseTime,         \* length of a lease (30 s in the code), in ticks
  MaxHead,           \* journal capacity (1000 in the code)
  MaxClock,          \* bound: the database clock stops here
  MaxToken,          \* bound: no new lease beyond this token
  ClockMayStepBack   \* whether the host's clock may be set back

Owners   == {Owner[p] : p \in Procs}
Instants == 0..MaxClock
Expiries == 0..(MaxClock + LeaseTime)
Leases   == [owner : Owners, token : 1..MaxToken, expires : Expiries]
Rows     == [owner : Owners \union {NoOwner}, token : 0..MaxToken,
             until : Expiries, head : 0..MaxHead]
Receipts == [cmd : Commands, seq : 1..MaxHead]
Txns     == [proc : Procs, cmd : Commands, at : Instants,
             step : {"admitted", "applied", "staged", "checked"}]

(* by and until are history: the owner of the lease a record was written   *)
(* under and the expiry the transaction compared the clock with.           *)
Records == [cmd : Commands, at : Instants, token : 1..MaxToken,
            by : Owners, until : Expiries]

ASSUME BoundsAssumption ==
  /\ LeaseTime \in Nat \ {0} /\ MaxHead \in Nat
  /\ MaxClock \in Nat /\ MaxToken \in Nat
  /\ ClockMayStepBack \in BOOLEAN

(* A command is its key, generation, kind and book: what accounts.py looks *)
(* at. Two commands have one request hash exactly when they are equal.     *)
ASSUME CommandsAssumption ==
  \A c \in Commands : c.generation \in Nat \ {0}

ASSUME SentinelsAssumption ==
  /\ NoOwner \notin Owners /\ NoTxn \notin Txns
  /\ NoLease \notin Leases /\ NoReply \notin Receipts

VARIABLES
  clock,      \* clock_timestamp() of the database
  row,        \* the engine_accounts row: owner, token, until, head
  journal,    \* engine_commands of the account, by sequence
  outbox,     \* sequences announced by account.updated events
  txn,        \* the commit transaction that holds the row lock, or NoTxn
  lease,      \* lease[p]: the Lease object p holds, stale or not, or NoLease
  reply,      \* reply[p]: the receipt of p's finished commit, on its way
  answered    \* history: the receipts that reached their callers

vars == <<clock, row, journal, outbox, txn, lease, reply, answered>>

TypeOK ==
  /\ clock \in Instants
  /\ row \in Rows
  /\ journal \in Seq(Records)
  /\ outbox \in SUBSET (1..MaxHead)
  /\ txn \in Txns \union {NoTxn}
  /\ lease \in [Procs -> Leases \union {NoLease}]
  /\ reply \in [Procs -> Receipts \union {NoReply}]
  /\ answered \in SUBSET Receipts

(* The row create() inserts: no lease yet (lease_until NULL is 0, which no *)
(* clock is below), an empty journal, and no caller active.                *)
Init ==
  /\ clock = 0
  /\ row = [owner |-> NoOwner, token |-> 0, until |-> 0, head |-> 0]
  /\ journal = <<>>
  /\ outbox = {}
  /\ txn = NoTxn
  /\ lease = [p \in Procs |-> NoLease]
  /\ reply = [p \in Procs |-> NoReply]
  /\ answered = {}
-----------------------------------------------------------------------------
(* The account machine as accounts.py sees it: rebuilt from the journal.   *)

SameObservation(c, d) ==
  c.book # NoBook /\ d.book # NoBook /\ c.book = d.book

SameSlot(c, d) ==
  c.book # NoBook /\ d.book # NoBook /\ c.book.slot = d.book.slot

(* The generation of a machine that has replayed the first n records.      *)
GenerationAt(n) ==
  1 + Cardinality({i \in 1..n : journal[i].cmd.kind = "advance"})

(* machine.now after the first n records; the account is created at 0.     *)
MachineNow(n) == IF n = 0 THEN 0 ELSE journal[n].at

(* reconstruct and the head comparison of _machine: replay rejects a       *)
(* record of another generation or of an earlier time than its             *)
(* predecessor, and the head must be the last record.                      *)
Recoverable ==
  /\ row.head = Len(journal)
  /\ \A i \in 1..Len(journal) :
       /\ journal[i].cmd.generation = GenerationAt(i - 1)
       /\ journal[i].at >= MachineNow(i - 1)
-----------------------------------------------------------------------------
(* Leases.                                                                 *)

(* No commit holds the row lock.                                           *)
Unlocked == txn = NoTxn

(* The commit transaction is p's.                                          *)
InTxn(p) == txn # NoTxn /\ txn.proc = p

(* p has no call in flight.                                                *)
Idle(p) == reply[p] = NoReply /\ ~InTxn(p)

Active == row.until > clock

BusyIsIgnored(p) == FALSE

Busy(p) == Active /\ row.owner # Owner[p]

NewToken == IF Active THEN row.token ELSE row.token + 1

LeaseEnd == clock + LeaseTime

(* acquire: the active owner extends its lease under the same token, an    *)
(* expired lease is replaced under the next one, and a lease another owner *)
(* still holds is busy. The caller may never see the answer.               *)
Acquire(p, delivered) ==
  /\ Unlocked /\ Idle(p)
  /\ ~Busy(p)
  /\ NewToken <= MaxToken
  /\ row' = [row EXCEPT !.owner = Owner[p], !.token = NewToken, !.until = LeaseEnd]
  /\ lease' = IF delivered
              THEN [lease EXCEPT ![p] = [owner |-> Owner[p], token |-> NewToken,
                                         expires |-> LeaseEnd]]
              ELSE lease
  /\ UNCHANGED <<clock, journal, outbox, txn, reply, answered>>

OwnsAnyway(l) == TRUE

Owns(l) == row.token = l.token /\ row.owner = l.owner

(* release: ends the lease at the current time if the row still has it.    *)
Release(p) ==
  /\ Unlocked /\ Idle(p) /\ lease[p] # NoLease
  /\ row' = IF Owns(lease[p]) THEN [row EXCEPT !.until = clock] ELSE row
  /\ lease' = [lease EXCEPT ![p] = NoLease]
  /\ UNCHANGED <<clock, journal, outbox, txn, reply, answered>>

Earlier(a, b) == IF a < b THEN a ELSE b

(* The expiry a command of lease l is held to.                             *)
Deadline(l) == Earlier(row.until, l.expires)

Unexpired(l) == clock < Deadline(l)
-----------------------------------------------------------------------------
(* commit_in_transaction, in the order of its statements.                  *)

NothingRecorded(c) == FALSE

KeyRecorded(c) == \E i \in 1..Len(journal) : journal[i].cmd.key = c.key

SlotRecorded(c) == \E i \in 1..Len(journal) : SameSlot(journal[i].cmd, c)

AnswersSameKey(i, c) ==
  \/ journal[i].cmd.key = c.key
  \/ ~KeyRecorded(c) /\ SameObservation(journal[i].cmd, c)

(* The record whose stored receipt answers c: the one of its key if that   *)
(* holds the same command, else, when the key is new, the one that holds   *)
(* the same observation.                                                   *)
Answers(i, c) ==
  \/ journal[i].cmd = c
  \/ ~KeyRecorded(c) /\ SameObservation(journal[i].cmd, c)

(* A recorded command is answered from the journal, whatever the lease.    *)
Replay(p, c) ==
  /\ Unlocked /\ Idle(p) /\ lease[p] # NoLease
  /\ \E i \in 1..Len(journal) :
       /\ Answers(i, c)
       /\ reply' = [reply EXCEPT ![p] = [cmd |-> c, seq |-> i]]
  /\ UNCHANGED <<clock, row, journal, outbox, txn, lease, answered>>

(* A command the journal does not hold passes the lease and capacity       *)
(* checks; a recorded key or slot with another payload, a stale lease and  *)
(* a full journal raise and change nothing.                                *)
Admit(p, c) ==
  /\ Unlocked /\ Idle(p) /\ lease[p] # NoLease
  /\ ~KeyRecorded(c) /\ ~SlotRecorded(c)
  /\ Owns(lease[p]) /\ Unexpired(lease[p])
  /\ row.head < MaxHead
  /\ txn' = [proc |-> p, cmd |-> c, at |-> 0, step |-> "admitted"]
  /\ UNCHANGED <<clock, row, journal, outbox, lease, reply, answered>>

AppliesAnyGeneration(c) == clock >= MachineNow(row.head)

(* The first checks of AccountMachine.apply.                               *)
Applies(c) ==
  /\ c.generation = GenerationAt(row.head)
  /\ clock >= MachineNow(row.head)

(* The machine is rebuilt and applies the command at a second reading of   *)
(* the clock.                                                              *)
Apply ==
  /\ txn # NoTxn /\ txn.step = "admitted"
  /\ Recoverable
  /\ Applies(txn.cmd)
  /\ txn' = [txn EXCEPT !.at = clock, !.step = "applied"]
  /\ UNCHANGED <<clock, row, journal, outbox, lease, reply, answered>>

(* The expiry check before the INSERT ...                                  *)
Stage ==
  /\ txn # NoTxn /\ txn.step = "applied"
  /\ Unexpired(lease[txn.proc])
  /\ txn' = [txn EXCEPT !.step = "staged"]
  /\ UNCHANGED <<clock, row, journal, outbox, lease, reply, answered>>

(* ... and the one after the last statement.                               *)
Recheck ==
  /\ txn # NoTxn /\ txn.step = "staged"
  /\ Unexpired(lease[txn.proc])
  /\ txn' = [txn EXCEPT !.step = "checked"]
  /\ UNCHANGED <<clock, row, journal, outbox, lease, reply, answered>>

(* COMMIT: journal row, head and account.updated event appear at once. No  *)
(* clock is read any more: the lease may have run out since the recheck,   *)
(* but nobody could take it over while the row was locked.                 *)
Commit ==
  /\ txn # NoTxn /\ txn.step = "checked"
  /\ LET l == lease[txn.proc]
         seq == row.head + 1 IN
       /\ row' = [row EXCEPT !.head = seq]
       /\ journal' = Append(journal, [cmd |-> txn.cmd, at |-> txn.at, token |-> l.token,
                                      by |-> l.owner, until |-> Deadline(l)])
       /\ outbox' = outbox \union {seq}
       /\ reply' = [reply EXCEPT ![txn.proc] = [cmd |-> txn.cmd, seq |-> seq]]
  /\ txn' = NoTxn
  /\ UNCHANGED <<clock, lease, answered>>

(* An exception rolls the transaction back: an expired lease, a refusal of *)
(* the machine, the byte limit, a statement or connection failure.         *)
Rollback ==
  /\ txn # NoTxn
  /\ txn' = NoTxn
  /\ UNCHANGED <<clock, row, journal, outbox, lease, reply, answered>>
-----------------------------------------------------------------------------
(* The callers and the clock.                                              *)

Deliver(p) ==
  /\ reply[p] # NoReply
  /\ answered' = answered \union {reply[p]}
  /\ reply' = [reply EXCEPT ![p] = NoReply]
  /\ UNCHANGED <<clock, row, journal, outbox, txn, lease>>

(* The acknowledgement is lost; the caller keeps its lease and may retry.  *)
Lose(p) ==
  /\ reply[p] # NoReply
  /\ reply' = [reply EXCEPT ![p] = NoReply]
  /\ UNCHANGED <<clock, row, journal, outbox, txn, lease, answered>>

(* The process dies: its Lease object and its open transaction are gone,   *)
(* the row keeps the lease until it expires.                               *)
Crash(p) ==
  /\ lease[p] # NoLease \/ reply[p] # NoReply
  /\ lease' = [lease EXCEPT ![p] = NoLease]
  /\ reply' = [reply EXCEPT ![p] = NoReply]
  /\ txn' = IF InTxn(p) THEN NoTxn ELSE txn
  /\ UNCHANGED <<clock, row, journal, outbox, answered>>

Tick ==
  /\ clock < MaxClock
  /\ clock' = clock + 1
  /\ UNCHANGED <<row, journal, outbox, txn, lease, reply, answered>>

StepBack ==
  /\ ClockMayStepBack /\ clock > 0
  /\ clock' = clock - 1
  /\ UNCHANGED <<row, journal, outbox, txn, lease, reply, answered>>

Next ==
  \/ \E p \in Procs, d \in BOOLEAN : Acquire(p, d)
  \/ \E p \in Procs : Release(p) \/ Deliver(p) \/ Lose(p) \/ Crash(p)
  \/ \E p \in Procs, c \in Commands : Replay(p, c) \/ Admit(p, c)
  \/ Apply \/ Stage \/ Recheck \/ Commit \/ Rollback
  \/ Tick \/ StepBack

Spec == Init /\ [][Next]_vars
-----------------------------------------------------------------------------
(* Properties.                                                             *)

(* The fencing token fences: along the journal the lease token never       *)
(* decreases, and all records of one token were written for one owner, so  *)
(* no interleaving of expiry, takeover and stalled callers mixes the       *)
(* writes of two runs (accounts.py:96, 221-227).                           *)
FencedJournal ==
  \A i, j \in 1..Len(journal) : i < j =>
    /\ journal[i].token <= journal[j].token
    /\ journal[i].token = journal[j].token => journal[i].by = journal[j].by

(* However often a command is retried after a lost acknowledgement, its    *)
(* key and its place in the market feed enter the journal at most once.    *)
AppliedOnce ==
  \A i, j \in 1..Len(journal) : i # j =>
    /\ journal[i].cmd.key # journal[j].cmd.key
    /\ ~SameSlot(journal[i].cmd, journal[j].cmd)

(* A receipt in flight or delivered names a durable record of the caller's *)
(* own command, or of the observation its command repeats: no rollback,    *)
(* crash or replay ever hands out a receipt for something not recorded.    *)
Receipted(r) ==
  /\ r.seq <= Len(journal)
  /\ \/ journal[r.seq].cmd = r.cmd
     \/ SameObservation(journal[r.seq].cmd, r.cmd)

ReceiptsAreDurable ==
  /\ \A p \in Procs : reply[p] # NoReply => Receipted(reply[p])
  /\ \A r \in answered : Receipted(r)

(* A restart can always rebuild the machine from what earlier processes    *)
(* committed (machine.py:167-178, accounts.py:160-165), and every record   *)
(* has been announced exactly once.                                        *)
RecoverySucceeds == Recoverable /\ outbox = 1..row.head

(* While the database clock is not set back, a command takes effect at a   *)
(* time at which its lease was still running, although three readings of   *)
(* the clock lie between the admission and the commit.                     *)
CommittedUnderLease ==
  ClockMayStepBack \/ \A i \in 1..Len(journal) : journal[i].at < journal[i].until

(* Once another run has taken the account over, even before it writes      *)
(* anything, a holder of the previous lease appends nothing more.          *)
NoStaleWrite ==
  [][Len(journal') > Len(journal) =>
       /\ journal'[Len(journal')].token = row.token
       /\ journal'[Len(journal')].by = row.owner]_vars

(* The account keeps its promise to its callers.                           *)
Log == INSTANCE AccountLog WITH
  log <- [i \in 1..Len(journal) |-> [cmd |-> journal[i].cmd, at |-> journal[i].at]]

KeepsAccountLog == Log!Spec
=============================================================================
