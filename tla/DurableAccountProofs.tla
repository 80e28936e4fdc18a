------------------------ MODULE DurableAccountProofs ------------------------
(***************************************************************************)
(* Proofs about DurableAccount, for any set of processes, owners and       *)
(* commands, any lease length and any bounds. The inductive invariant      *)
(* IInv says what the row lock protects: while a commit holds it, nothing  *)
(* that the commit has checked can change.                                 *)
(***************************************************************************)
EXTENDS DurableAccount, TLAPS

(* What an open commit transaction has established so far, and keeps.      *)
TxnInv ==
  txn # NoTxn =>
    /\ lease[txn.proc] # NoLease
    /\ Owns(lease[txn.proc])
    /\ reply[txn.proc] = NoReply
    /\ ~KeyRecorded(txn.cmd) /\ ~SlotRecorded(txn.cmd)
    /\ row.head < MaxHead
    /\ txn.step # "admitted" =>
         /\ txn.cmd.generation = GenerationAt(row.head)
         /\ txn.at >= MachineNow(row.head)
    /\ txn.step # "admitted" /\ ~ClockMayStepBack => txn.at <= clock
    /\ txn.step \in {"staged", "checked"} /\ ~ClockMayStepBack =>
         txn.at < Deadline(lease[txn.proc])

(* The row names the newest lease that was ever granted.                   *)
NewestLease ==
  /\ row.token = 0 => row.until = 0
  /\ \A i \in 1..Len(journal) :
       /\ journal[i].token <= row.token
       /\ journal[i].token = row.token => journal[i].by = row.owner

(* Records are in time order, not only each with its predecessor.          *)
TimeOrdered ==
  \A i, j \in 1..Len(journal) : i < j => journal[i].at <= journal[j].at

IInv ==
  /\ TypeOK
  /\ TimeOrdered
  /\ TxnInv
  /\ NewestLease
  /\ FencedJournal
  /\ AppliedOnce
  /\ ReceiptsAreDurable
  /\ RecoverySucceeds
  /\ CommittedUnderLease
-----------------------------------------------------------------------------
(* The steps that leave the journal, the row and the transaction alone.    *)

LEMMA InitIInv == Init => IInv
<1> SUFFICES ASSUME Init PROVE IInv
  OBVIOUS
<1> USE BoundsAssumption DEF Init
<1>1. TypeOK
  BY DEF TypeOK, Rows, Instants, Expiries
<1>2. Recoverable /\ outbox = 1..row.head
  BY DEF Recoverable
<1>3. QED
  BY <1>1, <1>2 DEF IInv, TxnInv, NewestLease, FencedJournal, AppliedOnce, TimeOrdered,
     ReceiptsAreDurable, RecoverySucceeds, CommittedUnderLease

(* Every step keeps the types.                                             *)
LEMMA TypeStep == IInv /\ [Next]_vars => TypeOK'
<1> SUFFICES ASSUME TypeOK, TxnInv, NewestLease, RecoverySucceeds, [Next]_vars
             PROVE  TypeOK'
  BY DEF IInv
<1> USE BoundsAssumption DEF TypeOK
<1>1. ASSUME NEW p \in Procs, NEW d \in BOOLEAN, Acquire(p, d) PROVE TypeOK'
  <2>1. NewToken \in 1..MaxToken /\ LeaseEnd \in Expiries /\ Owner[p] \in Owners
    <3>1. row.token \in Nat /\ clock \in Nat /\ (Active => row.token # 0)
      BY DEF NewestLease, Active, Instants, Rows
    <3>2. NewToken \in 1..MaxToken
      BY <1>1, <3>1 DEF Acquire, NewToken
    <3>3. LeaseEnd \in Expiries
      BY DEF LeaseEnd, Expiries, Instants
    <3>4. QED
      BY <3>2, <3>3 DEF Owners
  <2>2. row' \in Rows
    <3>1. row' = [owner |-> Owner[p], token |-> NewToken, until |-> LeaseEnd,
                  head |-> row.head]
      BY <1>1 DEF Acquire, Rows
    <3>2. row.head \in 0..MaxHead /\ NewToken \in 0..MaxToken
      BY <2>1 DEF Rows
    <3>3. QED
      BY <2>1, <3>1, <3>2 DEF Rows
  <2>3. lease' \in [Procs -> Leases \union {NoLease}]
    BY <1>1, <2>1 DEF Acquire, Leases
  <2>4. QED
    BY <1>1, <2>2, <2>3 DEF Acquire
<1>2. ASSUME NEW p \in Procs, Release(p) PROVE TypeOK'
  BY SMTT(40), <1>2 DEF Release, Rows, Instants, Expiries
<1>3. ASSUME NEW p \in Procs, Deliver(p) PROVE TypeOK'
  BY <1>3 DEF Deliver
<1>4. ASSUME NEW p \in Procs, Lose(p) PROVE TypeOK'
  BY <1>4 DEF Lose
<1>5. ASSUME NEW p \in Procs, Crash(p) PROVE TypeOK'
  BY <1>5 DEF Crash
<1>6. ASSUME NEW p \in Procs, NEW c \in Commands, Replay(p, c) PROVE TypeOK'
  <2>1. Len(journal) <= MaxHead
    BY DEF RecoverySucceeds, Recoverable
  <2>2. \A i \in 1..Len(journal) : [cmd |-> c, seq |-> i] \in Receipts
    BY <2>1 DEF Receipts
  <2>3. QED
    BY <1>6, <2>2 DEF Replay
<1>7. ASSUME NEW p \in Procs, NEW c \in Commands, Admit(p, c) PROVE TypeOK'
  BY <1>7 DEF Admit, Txns, Instants
<1>8. CASE Apply
  BY <1>8 DEF Apply, Txns, Instants
<1>9. CASE Stage
  BY <1>9 DEF Stage, Txns
<1>10. CASE Recheck
  BY <1>10 DEF Recheck, Txns
<1>11. CASE Commit
  <2>1. txn \in Txns /\ txn.proc \in Procs /\ txn.cmd \in Commands /\ txn.at \in Instants
    BY <1>11 DEF Commit, Txns
  <2>2. lease[txn.proc] \in Leases
    BY <1>11, <2>1 DEF Commit, TxnInv
  <2>3. Deadline(lease[txn.proc]) \in Expiries
    BY <2>2 DEF Deadline, Earlier, Leases, Rows
  <2>4. row.head + 1 \in 1..MaxHead
    BY <1>11, <2>1 DEF Commit, TxnInv, Rows
  <2>5. journal' \in Seq(Records)
    <3> DEFINE l == lease[txn.proc]
               r == [cmd |-> txn.cmd, at |-> txn.at, token |-> l.token,
                     by |-> l.owner, until |-> Deadline(l)]
    <3>1. r \in Records
      BY <2>1, <2>2, <2>3 DEF Records, Leases
    <3>2. QED
      BY <1>11, <3>1 DEF Commit
  <2>6. reply' \in [Procs -> Receipts \union {NoReply}]
    BY <1>11, <2>1, <2>4 DEF Commit, Receipts
  <2>7. row' \in Rows
    <3>1. row' = [row EXCEPT !.head = row.head + 1]
      BY <1>11 DEF Commit
    <3>2. row.head + 1 \in 0..MaxHead
      BY <2>4
    <3>3. QED
      BY <3>1, <3>2 DEF Rows
  <2>8. outbox' \in SUBSET (1..MaxHead) /\ txn' = NoTxn
    BY <1>11, <2>4 DEF Commit
  <2>9. QED
    BY <1>11, <2>5, <2>6, <2>7, <2>8 DEF Commit
<1>12. CASE Rollback
  BY <1>12 DEF Rollback
<1>13. CASE Tick
  BY <1>13 DEF Tick, Instants
<1>14. CASE StepBack
  BY <1>14 DEF StepBack, Instants
<1>15. CASE UNCHANGED vars
  BY <1>15 DEF vars
<1>16. QED
  BY <1>1, <1>2, <1>3, <1>4, <1>5, <1>6, <1>7, <1>8, <1>9, <1>10, <1>11,
     <1>12, <1>13, <1>14, <1>15 DEF Next

(* An open transaction keeps what it has checked: it alone moves.          *)
LEMMA TxnStep == IInv /\ [Next]_vars => TxnInv'
<1> SUFFICES ASSUME TypeOK, TxnInv, RecoverySucceeds, [Next]_vars, txn' # NoTxn
             PROVE  TxnInv'
  BY DEF IInv, TxnInv
<1> USE BoundsAssumption
(* A step that moves neither the row, the journal nor the transaction.     *)
<1>1. ASSUME UNCHANGED <<clock, row, journal, txn>>, txn # NoTxn,
             lease'[txn.proc] = lease[txn.proc], reply'[txn.proc] = NoReply
      PROVE  TxnInv'
  BY <1>1 DEF TxnInv, Owns, KeyRecorded, SlotRecorded, GenerationAt, MachineNow,
     Deadline, Earlier
<1>2. ASSUME NEW p \in Procs, NEW d \in BOOLEAN, Acquire(p, d) PROVE TxnInv'
  BY <1>2 DEF Acquire, Unlocked, TxnInv
<1>3. ASSUME NEW p \in Procs, Release(p) PROVE TxnInv'
  BY <1>3 DEF Release, Unlocked, TxnInv
<1>4. ASSUME NEW p \in Procs, Deliver(p) PROVE TxnInv'
  <2>1. txn # NoTxn /\ txn.proc # p
    BY <1>4 DEF Deliver, TxnInv
  <2>2. txn.proc \in Procs
    BY <2>1 DEF TypeOK, Txns
  <2>3. reply'[txn.proc] = NoReply
    BY <1>4, <2>1, <2>2 DEF Deliver, TxnInv, TypeOK
  <2>4. QED
    BY <1>1, <1>4, <2>1, <2>3 DEF Deliver
<1>5. ASSUME NEW p \in Procs, Lose(p) PROVE TxnInv'
  <2>1. txn # NoTxn /\ txn.proc # p
    BY <1>5 DEF Lose, TxnInv
  <2>2. txn.proc \in Procs
    BY <2>1 DEF TypeOK, Txns
  <2>3. reply'[txn.proc] = NoReply
    BY <1>5, <2>1, <2>2 DEF Lose, TxnInv, TypeOK
  <2>4. QED
    BY <1>1, <1>5, <2>1, <2>3 DEF Lose
<1>6. ASSUME NEW p \in Procs, Crash(p) PROVE TxnInv'
  <2>1. txn # NoTxn /\ txn.proc # p /\ txn' = txn
    BY <1>6 DEF Crash, InTxn
  <2>2. txn.proc \in Procs
    BY <2>1 DEF TypeOK, Txns
  <2>3. reply'[txn.proc] = NoReply /\ lease'[txn.proc] = lease[txn.proc]
    BY <1>6, <2>1, <2>2 DEF Crash, TxnInv, TypeOK
  <2>4. QED
    BY <1>1, <1>6, <2>1, <2>3 DEF Crash
<1>7. ASSUME NEW p \in Procs, NEW c \in Commands, Replay(p, c) PROVE TxnInv'
  BY <1>7 DEF Replay, Unlocked, TxnInv
<1>8. ASSUME NEW p \in Procs, NEW c \in Commands, Admit(p, c) PROVE TxnInv'
  BY <1>8 DEF Admit, Unlocked, Idle, TxnInv, Owns, KeyRecorded, SlotRecorded
<1>9. CASE Apply
  BY <1>9 DEF Apply, Applies, TxnInv, Owns, KeyRecorded, SlotRecorded,
     GenerationAt, MachineNow, TypeOK, Txns, Instants
<1>10. CASE Stage
  BY <1>10 DEF Stage, Unexpired, TxnInv, Owns, KeyRecorded, SlotRecorded,
     GenerationAt, MachineNow, Deadline, Earlier, TypeOK, Txns, Instants, Rows,
     Expiries, Leases
<1>11. CASE Recheck
  BY <1>11 DEF Recheck, TxnInv, Owns, KeyRecorded, SlotRecorded,
     GenerationAt, MachineNow, Deadline, Earlier, TypeOK, Txns
<1>12. CASE Commit
  BY <1>12 DEF Commit
<1>13. CASE Rollback
  BY <1>13 DEF Rollback
<1>14. CASE Tick
  BY <1>14 DEF Tick, TxnInv, Owns, KeyRecorded, SlotRecorded,
     GenerationAt, MachineNow, Deadline, Earlier, TypeOK, Txns, Instants
<1>15. CASE StepBack
  BY <1>15 DEF StepBack, TxnInv, Owns, KeyRecorded, SlotRecorded,
     GenerationAt, MachineNow
<1>16. CASE UNCHANGED vars
  BY <1>1, <1>16 DEF vars, TxnInv
<1>17. QED
  BY <1>2, <1>3, <1>4, <1>5, <1>6, <1>7, <1>8, <1>9, <1>10, <1>11, <1>12,
     <1>13, <1>14, <1>15, <1>16 DEF Next
-----------------------------------------------------------------------------
(* The journal changes by Commit alone, which appends one record.          *)

NewRecord ==
  [cmd |-> txn.cmd, at |-> txn.at, token |-> lease[txn.proc].token,
   by |-> lease[txn.proc].owner, until |-> Deadline(lease[txn.proc])]

LEMMA OnlyCommitWrites ==
  ASSUME TypeOK, [Next]_vars, ~Commit
  PROVE  UNCHANGED <<journal, outbox>> /\ row'.head = row.head
<1>1. UNCHANGED <<journal, outbox>>
  BY DEF Next, vars, Acquire, Release, Deliver, Lose, Crash, Replay, Admit, Apply,
     Stage, Recheck, Rollback, Tick, StepBack
<1>2. ASSUME NEW p \in Procs, NEW d \in BOOLEAN, Acquire(p, d)
      PROVE  row'.head = row.head
  BY <1>2 DEF Acquire, TypeOK, Rows
<1>3. ASSUME NEW p \in Procs, Release(p) PROVE row'.head = row.head
  BY <1>3 DEF Release, TypeOK, Rows
<1>4. \/ \E q \in Procs, d \in BOOLEAN : Acquire(q, d)
      \/ \E q \in Procs : Release(q)
      \/ UNCHANGED row
  BY DEF Next, vars, Deliver, Lose, Crash, Replay, Admit, Apply, Stage, Recheck,
     Rollback, Tick, StepBack
<1>5. row'.head = row.head
  BY <1>2, <1>3, <1>4
<1>6. QED
  BY <1>1, <1>5

(* What Commit appends, in terms of the row it was locked under.           *)
LEMMA CommitAppends ==
  ASSUME TypeOK, TxnInv, RecoverySucceeds, Commit
  PROVE  /\ NewRecord \in Records
         /\ journal' = Append(journal, NewRecord)
         /\ Len(journal') = Len(journal) + 1
         /\ journal'[Len(journal) + 1] = NewRecord
         /\ \A i \in 1..Len(journal) : journal'[i] = journal[i]
         /\ NewRecord.token = row.token /\ NewRecord.by = row.owner
         /\ row' = [row EXCEPT !.head = row.head + 1]
         /\ row.head = Len(journal) /\ row.head \in Nat
<1>1. txn \in Txns /\ txn # NoTxn /\ txn.step = "checked"
  BY DEF Commit, TypeOK
<1>2. lease[txn.proc] \in Leases
  BY <1>1 DEF TxnInv, TypeOK, Txns
<1>3. Deadline(lease[txn.proc]) \in Expiries
  BY <1>2 DEF Deadline, Earlier, Leases, TypeOK, Rows
<1>4. NewRecord \in Records
  BY <1>1, <1>2, <1>3 DEF NewRecord, Records, Leases, Txns
<1>5. journal' = Append(journal, NewRecord) /\ row' = [row EXCEPT !.head = row.head + 1]
  BY DEF Commit, NewRecord
<1>6. NewRecord.token = row.token /\ NewRecord.by = row.owner
  BY <1>1 DEF NewRecord, TxnInv, Owns
<1>7. journal \in Seq(Records) /\ row.head = Len(journal)
  BY DEF TypeOK, RecoverySucceeds, Recoverable
<1>8. QED
  BY <1>4, <1>5, <1>6, <1>7

LEMMA NewestLeaseStep == IInv /\ [Next]_vars => NewestLease'
<1> SUFFICES ASSUME TypeOK, TxnInv, NewestLease, RecoverySucceeds, [Next]_vars
             PROVE  NewestLease'
  BY DEF IInv
<1> USE BoundsAssumption
<1>1. \A i \in 1..Len(journal) : journal[i].token \in Nat
  <2>1. \A i \in 1..Len(journal) : journal[i] \in Records
    BY DEF TypeOK
  <2>2. QED
    BY <2>1 DEF Records
<1>2. row.token \in Nat /\ clock \in Nat
  BY DEF TypeOK, Rows, Instants
<1>3. ASSUME NEW p \in Procs, NEW d \in BOOLEAN, Acquire(p, d) PROVE NewestLease'
  <2>1. row'.token = NewToken /\ row'.owner = Owner[p] /\ journal' = journal
    BY <1>3 DEF Acquire, TypeOK, Rows
  <2>2. CASE Active
    BY <1>2, <1>3, <2>1, <2>2 DEF NewestLease, NewToken, Acquire, Busy, Active
  <2>3. CASE ~Active
    BY <1>1, <1>2, <2>1, <2>3 DEF NewestLease, NewToken
  <2>4. QED
    BY <2>2, <2>3
<1>4. ASSUME NEW p \in Procs, Release(p) PROVE NewestLease'
  <2>1. CASE Owns(lease[p])
    <3>1. lease[p].token # 0
      BY <1>4 DEF Release, TypeOK, Leases
    <3>2. row' = [row EXCEPT !.until = clock] /\ journal' = journal
      BY <1>4, <2>1 DEF Release
    <3>3. QED
      BY <2>1, <3>1, <3>2 DEF NewestLease, Owns, TypeOK, Rows
  <2>2. CASE ~Owns(lease[p])
    BY <1>4, <2>2 DEF NewestLease, Release
  <2>3. QED
    BY <2>1, <2>2
<1>5. CASE Commit
  <2>1. row'.token = row.token /\ row'.owner = row.owner /\ row'.until = row.until
    BY <1>5, CommitAppends DEF TypeOK, Rows
  <2>2. \A i \in 1..Len(journal') :
          i \in 1..Len(journal) \/ journal'[i] = NewRecord
    BY <1>5, CommitAppends
  <2>3. QED
    BY <1>2, <1>5, <2>1, <2>2, CommitAppends DEF NewestLease
<1>6. CASE UNCHANGED <<row, journal>>
  BY <1>6 DEF NewestLease
<1>7. QED
  BY <1>3, <1>4, <1>5, <1>6 DEF Next, vars, Deliver, Lose, Crash, Replay, Admit,
     Apply, Stage, Recheck, Rollback, Tick, StepBack

LEMMA FencedStep == IInv /\ [Next]_vars => FencedJournal'
<1> SUFFICES ASSUME IInv, [Next]_vars PROVE FencedJournal'
  OBVIOUS
<1>1. CASE Commit
  BY <1>1, CommitAppends DEF IInv, FencedJournal, NewestLease
<1>2. CASE ~Commit
  BY <1>2, OnlyCommitWrites DEF IInv, FencedJournal
<1>3. QED
  BY <1>1, <1>2

LEMMA TimeOrderedStep == IInv /\ [Next]_vars => TimeOrdered'
<1> SUFFICES ASSUME IInv, [Next]_vars PROVE TimeOrdered'
  OBVIOUS
<1>1. CASE Commit
  <2>1. NewRecord.at >= MachineNow(row.head)
    BY <1>1 DEF NewRecord, IInv, TxnInv, Commit
  <2>2. Len(journal) \in Nat /\ \A i \in 1..Len(journal) : journal[i].at \in Nat
    <3>1. \A i \in 1..Len(journal) : journal[i] \in Records
      BY DEF IInv, TypeOK
    <3>2. QED
      BY <3>1 DEF Records, Instants, IInv, TypeOK
  <2>3. NewRecord.at \in Nat
    BY <1>1, CommitAppends DEF Records, Instants, IInv
  <2>4. \A i \in 1..Len(journal) : journal[i].at <= NewRecord.at
    BY SMTT(40), <1>1, <2>1, <2>2, <2>3, CommitAppends DEF IInv, TimeOrdered, MachineNow
  <2>5. QED
    BY <1>1, <2>2, <2>4, CommitAppends DEF IInv, TimeOrdered
<1>2. CASE ~Commit
  BY <1>2, OnlyCommitWrites DEF IInv, TimeOrdered
<1>3. QED
  BY <1>1, <1>2

LEMMA AppliedOnceStep == IInv /\ [Next]_vars => AppliedOnce'
<1> SUFFICES ASSUME IInv, [Next]_vars PROVE AppliedOnce'
  OBVIOUS
<1>1. CASE Commit
  <2>1. NewRecord.cmd = txn.cmd /\ ~KeyRecorded(txn.cmd) /\ ~SlotRecorded(txn.cmd)
    BY <1>1 DEF NewRecord, IInv, TxnInv, Commit
  <2>2. QED
    BY <1>1, <2>1, CommitAppends
    DEF IInv, AppliedOnce, KeyRecorded, SlotRecorded, SameSlot
<1>2. CASE ~Commit
  BY <1>2, OnlyCommitWrites DEF IInv, AppliedOnce
<1>3. QED
  BY <1>1, <1>2

LEMMA UnderLeaseStep == IInv /\ [Next]_vars => CommittedUnderLease'
<1> SUFFICES ASSUME IInv, [Next]_vars PROVE CommittedUnderLease'
  OBVIOUS
<1>1. CASE Commit
  <2>1. ClockMayStepBack \/ NewRecord.at < NewRecord.until
    BY <1>1 DEF NewRecord, IInv, TxnInv, Commit
  <2>2. QED
    BY <1>1, <2>1, CommitAppends DEF IInv, CommittedUnderLease
<1>2. CASE ~Commit
  BY <1>2, OnlyCommitWrites DEF IInv, CommittedUnderLease
<1>3. QED
  BY <1>1, <1>2

LEMMA RecoveryStep == IInv /\ [Next]_vars => RecoverySucceeds'
<1> SUFFICES ASSUME IInv, [Next]_vars PROVE RecoverySucceeds'
  OBVIOUS
<1>1. CASE Commit
  <2>1. NewRecord.cmd.generation = GenerationAt(row.head)
        /\ NewRecord.at >= MachineNow(row.head)
    BY <1>1 DEF NewRecord, IInv, TxnInv, Commit
  <2> USE <1>1, CommitAppends DEF IInv
  <2>2. \A n \in 0..Len(journal) : GenerationAt(n)' = GenerationAt(n)
    <3> TAKE n \in 0..Len(journal)
    <3>1. {i \in 1..n : journal'[i].cmd.kind = "advance"} =
          {i \in 1..n : journal[i].cmd.kind = "advance"}
      OBVIOUS
    <3>2. QED
      BY <3>1 DEF GenerationAt
  <2>3. \A n \in 0..Len(journal) : MachineNow(n)' = MachineNow(n)
    BY DEF MachineNow
  <2>4. outbox' = outbox \union {row.head + 1} /\ row'.head = row.head + 1
    BY DEF Commit, TypeOK, Rows
  <2>5. Recoverable'
    BY <2>1, <2>2, <2>3, <2>4 DEF RecoverySucceeds, Recoverable
  <2>6. QED
    BY <2>4, <2>5 DEF RecoverySucceeds
<1>2. CASE ~Commit
  BY <1>2, OnlyCommitWrites
  DEF IInv, RecoverySucceeds, Recoverable, GenerationAt, MachineNow
<1>3. QED
  BY <1>1, <1>2

LEMMA ReceiptsStep == IInv /\ [Next]_vars => ReceiptsAreDurable'
<1> SUFFICES ASSUME IInv, [Next]_vars PROVE ReceiptsAreDurable'
  OBVIOUS
<1>1. CASE Commit
  <2> USE <1>1, CommitAppends DEF IInv
  <2>1. \A r \in Receipts : Receipted(r) => Receipted(r)'
    BY DEF Receipted, Receipts
  <2>2. PICK new : new = [cmd |-> txn.cmd, seq |-> row.head + 1]
    OBVIOUS
  <2>3. Receipted(new)'
    <3>1. journal'[row.head + 1].cmd = txn.cmd
      BY DEF NewRecord
    <3>2. new.cmd = txn.cmd /\ new.seq = row.head + 1 /\ row.head + 1 <= Len(journal')
      BY <2>2
    <3>3. QED
      BY <3>1, <3>2 DEF Receipted
  <2>4. reply' = [reply EXCEPT ![txn.proc] = new] /\ answered' = answered
    BY <2>2 DEF Commit
  <2>5. \A p \in Procs : reply'[p] = new \/ reply'[p] = reply[p]
    BY <2>4 DEF TypeOK
  <2>6. \A p \in Procs : reply[p] # NoReply => reply[p] \in Receipts
    BY DEF TypeOK
  <2>7. answered \in SUBSET Receipts
    BY DEF TypeOK
  <2>8. QED
    BY <2>1, <2>3, <2>4, <2>5, <2>6, <2>7 DEF ReceiptsAreDurable
<1>2. CASE ~Commit
  <2> USE <1>2, OnlyCommitWrites DEF IInv
  <2>1. \A r : Receipted(r)' <=> Receipted(r)
    BY DEF Receipted
  <2>2. ASSUME NEW p \in Procs, NEW c \in Commands, Replay(p, c)
        PROVE  ReceiptsAreDurable'
    <3>1. PICK i \in 1..Len(journal) :
            Answers(i, c) /\ reply' = [reply EXCEPT ![p] = [cmd |-> c, seq |-> i]]
      BY <2>2 DEF Replay
    <3>2. Receipted([cmd |-> c, seq |-> i])
      BY <3>1 DEF Receipted, Answers
    <3>3. answered' = answered
      BY <2>2 DEF Replay
    <3>4. QED
      BY <2>1, <3>1, <3>2, <3>3 DEF ReceiptsAreDurable, TypeOK
  <2>3. ASSUME NEW p \in Procs, Deliver(p) PROVE ReceiptsAreDurable'
    BY <2>1, <2>3 DEF Deliver, ReceiptsAreDurable, TypeOK
  <2>4. ASSUME NEW p \in Procs, Lose(p) \/ Crash(p) PROVE ReceiptsAreDurable'
    BY <2>1, <2>4 DEF Lose, Crash, ReceiptsAreDurable, TypeOK
  <2>5. CASE UNCHANGED <<reply, answered>>
    BY <2>1, <2>5 DEF ReceiptsAreDurable
  <2>6. QED
    BY <2>2, <2>3, <2>4, <2>5 DEF Next, vars, Acquire, Release, Admit,
       Apply, Stage, Recheck, Rollback, Tick, StepBack
<1>3. QED
  BY <1>1, <1>2
-----------------------------------------------------------------------------
(* The theorems.                                                           *)

(* Every reachable state satisfies the inductive invariant: what the row   *)
(* lock, the token and the idempotency lookups protect together.           *)
THEOREM Invariance == Spec => []IInv
<1>1. IInv /\ [Next]_vars => IInv'
  BY TypeStep, TxnStep, NewestLeaseStep, FencedStep, AppliedOnceStep, TimeOrderedStep,
     ReceiptsStep, RecoveryStep, UnderLeaseStep DEF IInv
<1>2. QED
  BY InitIInv, <1>1, PTL DEF Spec

(* The account row, the journal and every receipt keep their types: in     *)
(* particular the journal never outgrows its capacity.                     *)
THEOREM TypeCorrect == Spec => []TypeOK
BY Invariance, PTL DEF IInv

(* Lease tokens never decrease along the journal and one token never       *)
(* carries the writes of two owners, for any number of runs and attempts.  *)
THEOREM Fenced == Spec => []FencedJournal
BY Invariance, PTL DEF IInv

(* No key and no place of the market feed is applied twice, however many   *)
(* acknowledgements are lost.                                              *)
THEOREM AppliesOnce == Spec => []AppliedOnce
BY Invariance, PTL DEF IInv

(* Every receipt handed out names a durable record.                        *)
THEOREM ReceiptsDurable == Spec => []ReceiptsAreDurable
BY Invariance, PTL DEF IInv

(* The journal can be replayed into the machine after any crash.           *)
THEOREM Recovers == Spec => []RecoverySucceeds
BY Invariance, PTL DEF IInv

(* With a clock that is never set back, every command takes effect before  *)
(* the lease it was written under runs out.                                *)
THEOREM UnderLease == Spec => []CommittedUnderLease
BY Invariance, PTL DEF IInv

(* A stale holder appends nothing once another lease has been granted.     *)
THEOREM StaleWritesNothing == Spec => NoStaleWrite
<1>1. IInv /\ [Next]_vars =>
        [Len(journal') > Len(journal) =>
           /\ journal'[Len(journal')].token = row.token
           /\ journal'[Len(journal')].by = row.owner]_vars
  <2> SUFFICES ASSUME IInv, [Next]_vars, Len(journal') > Len(journal)
               PROVE  /\ journal'[Len(journal')].token = row.token
                      /\ journal'[Len(journal')].by = row.owner
    OBVIOUS
  <2>1. Commit
    <3>1. ~Commit => journal' = journal
      BY OnlyCommitWrites DEF IInv
    <3>2. Len(journal) \in Nat
      BY DEF IInv, TypeOK
    <3>3. QED
      BY <3>1, <3>2
  <2>2. QED
    BY <2>1, CommitAppends DEF IInv
<1>2. QED
  BY <1>1, Invariance, PTL DEF Spec, NoStaleWrite
-----------------------------------------------------------------------------
(* Refinement of AccountLog: Commit is Accept, Deliver is Answer, and no   *)
(* other step is visible to the callers as a group.                        *)

Entry(r) == [cmd |-> r.cmd, at |-> r.at]

MappedLog == [i \in 1..Len(journal) |-> Entry(journal[i])]

LEMMA FunctionIsSeq ==
  ASSUME NEW S, NEW n \in Nat, NEW f \in [1..n -> S]
  PROVE  f \in Seq(S) /\ Len(f) = n /\ DOMAIN f = 1..n
OBVIOUS

LEMMA SameEntries ==
  ASSUME NEW S, NEW s \in Seq(S), NEW t \in Seq(S),
         Len(s) = Len(t), \A i \in 1..Len(s) : s[i] = t[i]
  PROVE  s = t
OBVIOUS

LEMMA MappedAppend ==
  ASSUME TypeOK, NEW r \in Records, journal' = Append(journal, r)
  PROVE  MappedLog' = Append(MappedLog, Entry(r))
<1>1. journal \in Seq(Records) /\ Len(journal) \in Nat
  BY DEF TypeOK
<1>2. /\ Len(journal') = Len(journal) + 1
      /\ \A i \in 1..Len(journal) : journal'[i] = journal[i]
      /\ journal'[Len(journal) + 1] = r
  BY <1>1
<1> DEFINE E == [cmd : Commands, at : Instants]
           n == Len(journal)
<1>3. \A s \in Records : Entry(s) \in E
  BY DEF Entry, Records
<1>4. MappedLog \in Seq(E) /\ Len(MappedLog) = n
  <2>1. \A i \in 1..n : journal[i] \in Records
    BY <1>1
  <2>2. MappedLog \in [1..n -> E]
    BY <1>3, <2>1 DEF MappedLog
  <2>3. QED
    BY <1>1, <2>2, FunctionIsSeq
<1>5. PICK new : new = [i \in 1..(n + 1) |-> Entry(journal'[i])]
  OBVIOUS
<1>6. MappedLog' = new
  BY <1>2, <1>5 DEF MappedLog
<1>7. new \in Seq(E) /\ Len(new) = n + 1
  <2>1. \A i \in 1..(n + 1) : journal'[i] \in Records
    BY <1>1, <1>2
  <2>2. new \in [1..(n + 1) -> E]
    BY <1>3, <1>5, <2>1
  <2>3. n + 1 \in Nat
    BY <1>1
  <2>4. QED
    BY <2>2, <2>3, FunctionIsSeq
<1>8. /\ Append(MappedLog, Entry(r)) \in Seq(E)
      /\ Len(Append(MappedLog, Entry(r))) = n + 1
      /\ \A i \in 1..n : Append(MappedLog, Entry(r))[i] = MappedLog[i]
      /\ Append(MappedLog, Entry(r))[n + 1] = Entry(r)
  <2>1. Entry(r) \in E
    BY <1>3
  <2> HIDE DEF E
  <2>2. QED
    BY <1>1, <1>4, <2>1
<1>9. \A i \in 1..n : MappedLog[i] = Entry(journal[i])
  BY DEF MappedLog
<1>10. \A i \in 1..(n + 1) : new[i] = Append(MappedLog, Entry(r))[i]
  BY <1>1, <1>2, <1>5, <1>8, <1>9
<1>11. new = Append(MappedLog, Entry(r))
  BY <1>7, <1>8, <1>10, SameEntries
<1>12. QED
  BY <1>6, <1>11

LEMMA RefinementInit == Init => Log!Init
BY DEF Init, Log!Init

LEMMA RefinementStep == IInv /\ [Next]_vars => [Log!Next]_(Log!vars)
<1> SUFFICES ASSUME IInv, [Next]_vars PROVE [Log!Next]_(Log!vars)
  OBVIOUS
<1> USE DEF IInv
<1>1. CASE Commit
  <2>1. txn.cmd \in Commands /\ txn.at \in Instants /\ txn # NoTxn
    BY <1>1 DEF Commit, TypeOK, Txns
  <2>2. \A i \in 1..Len(journal) :
          journal[i].cmd.key # txn.cmd.key /\ ~Log!SameSlot(journal[i].cmd, txn.cmd)
    BY <2>1 DEF TxnInv, KeyRecorded, SlotRecorded, SameSlot, Log!SameSlot
  <2>3. \A i \in 1..Len(journal) : journal[i].at <= txn.at
    <3>1. IInv'
      BY TypeStep, TxnStep, NewestLeaseStep, FencedStep, AppliedOnceStep, TimeOrderedStep,
         ReceiptsStep, RecoveryStep, UnderLeaseStep
    <3>2. TimeOrdered'
      BY <3>1
    <3>3. Len(journal) \in Nat /\ NewRecord.at = txn.at
      BY DEF TypeOK, NewRecord
    <3>4. QED
      BY SMTT(40), <1>1, <3>2, <3>3, CommitAppends DEF TimeOrdered
  <2>4. MappedLog' = Append(MappedLog, [cmd |-> txn.cmd, at |-> txn.at])
    BY <1>1, CommitAppends, MappedAppend DEF NewRecord, Entry
  (* Accept takes rigid arguments: name the values the transaction has now. *)
  <2>5. PICK c \in Commands, t \in Instants : c = txn.cmd /\ t = txn.at
    BY <2>1
  <2>6. Log!Accept(c, t)
    BY <1>1, <2>2, <2>3, <2>4, <2>5 DEF Log!Accept, MappedLog, Entry, Commit
  <2>7. Log!Next
    BY <2>6 DEF Log!Next
  <2>8. QED
    BY <2>7
<1>2. ASSUME NEW p \in Procs, Deliver(p) PROVE Log!Next
  <2>1. reply[p] \in Receipts /\ Receipted(reply[p])
    BY <1>2 DEF Deliver, TypeOK, ReceiptsAreDurable
  <2>2. PICK c \in Commands, i \in 1..Len(journal) : reply[p] = [cmd |-> c, seq |-> i]
    BY <2>1 DEF Receipted, Receipts, TypeOK
  <2>3. Log!Answer(c, i)
    BY <1>2, <2>1, <2>2
    DEF Deliver, Log!Answer, Receipted, SameObservation, Log!SameObservation
  <2>4. QED
    BY <2>3 DEF Log!Next
<1>3. CASE UNCHANGED <<journal, answered>>
  BY <1>3 DEF Log!vars
<1>4. QED
  BY <1>1, <1>2, <1>3 DEF Next, vars, Acquire, Release, Lose, Crash, Replay, Admit,
     Apply, Stage, Recheck, Rollback, Tick, StepBack

(* The account implements the abstract log: each command accepted at most  *)
(* once, in time order, and every answer naming an accepted entry.         *)
THEOREM ImplementsAccountLog == Spec => KeepsAccountLog
BY Invariance, RefinementInit, RefinementStep, PTL
DEF Spec, KeepsAccountLog, Log!Spec
=============================================================================
