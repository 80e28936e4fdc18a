----------------------------- MODULE AccountLog -----------------------------
(***************************************************************************)
(* What the durable paper account promises its callers, whoever they are   *)
(* and however often they crash or retry: one totally ordered log of       *)
(* commands, each accepted at most once, in the generation it was written  *)
(* for, at times that never run backwards; and every receipt a caller has  *)
(* ever been handed names an entry of that log (docs/product/              *)
(* durable-workflows.md, "Account ownership and recovery").                *)
(*                                                                         *)
(* DurableAccount, the model of kavrigo_workflows/accounts.py, implements  *)
(* this specification.                                                     *)
(***************************************************************************)
EXTENDS Integers, Sequences

CONSTANTS
  Commands,   \* the account commands callers may send
  NoBook,     \* the book of a command that is not a market observation
  Instants    \* the readings of the database clock

VARIABLES
  log,        \* sequence of [cmd, at]: the accepted commands, oldest first
  answered    \* set of [cmd, seq]: the receipts callers have been handed

vars == <<log, answered>>

(* Two commands carry the same market observation.                         *)
SameObservation(c, d) ==
  c.book # NoBook /\ d.book # NoBook /\ c.book = d.book

(* Two commands name the same place of one instrument's feed.              *)
SameSlot(c, d) ==
  c.book # NoBook /\ d.book # NoBook /\ c.book.slot = d.book.slot

Init == log = <<>> /\ answered = {}

(* A command new to the account is accepted.                               *)
Accept(c, t) ==
  /\ \A i \in DOMAIN log :
       /\ log[i].cmd.key # c.key
       /\ ~SameSlot(log[i].cmd, c)
       /\ log[i].at <= t
  /\ log' = Append(log, [cmd |-> c, at |-> t])
  /\ UNCHANGED answered

(* A caller is handed the receipt of the entry that holds its command, or  *)
(* the market observation its command repeats.                             *)
Answer(c, i) ==
  /\ i \in DOMAIN log
  /\ log[i].cmd = c \/ SameObservation(log[i].cmd, c)
  /\ answered' = answered \union {[cmd |-> c, seq |-> i]}
  /\ UNCHANGED log

Next ==
  \/ \E c \in Commands, t \in Instants : Accept(c, t)
  \/ \E c \in Commands, i \in DOMAIN log : Answer(c, i)

Spec == Init /\ [][Next]_vars
=============================================================================
