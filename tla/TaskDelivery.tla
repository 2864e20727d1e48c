----------------------------- MODULE TaskDelivery -----------------------------
(***************************************************************************)
(* What the web engine and its background worker promise together about    *)
(* the tasks a request enqueues: a task the server has taken upon itself   *)
(* is owed until it has been performed, it is performed once, and the      *)
(* server only reports a clean stop when it owes nothing.  A stop that     *)
(* times out may leave owed tasks behind; that is why it is reported as a  *)
(* failure.                                                                *)
(***************************************************************************)
CONSTANT Task   \* every task any request may enqueue

VARIABLES
  owed,         \* tasks handed over by a finished transaction, not performed yet
  performed,    \* tasks a worker has run, whatever their outcome
  state         \* "up", "stopped" (clean) or "failed" (gave up waiting)

tdVars == <<owed, performed, state>>

TDInit ==
  /\ owed = {}
  /\ performed = {}
  /\ state = "up"

\* A request ends well and hands over the tasks it collected.
Promise(tasks) ==
  /\ state = "up"
  /\ tasks \cap (owed \cup performed) = {}
  /\ owed' = owed \cup tasks
  /\ UNCHANGED <<performed, state>>

Perform(t) ==
  /\ state = "up"
  /\ t \in owed
  /\ owed' = owed \ {t}
  /\ performed' = performed \cup {t}
  /\ UNCHANGED state

StopCleanly ==
  /\ state = "up"
  /\ owed = {}
  /\ state' = "stopped"
  /\ UNCHANGED <<owed, performed>>

GiveUp ==
  /\ state = "up"
  /\ state' = "failed"
  /\ UNCHANGED <<owed, performed>>

TDNext ==
  \/ \E tasks \in SUBSET Task : Promise(tasks)
  \/ \E t \in Task : Perform(t)
  \/ StopCleanly
  \/ GiveUp

TDSpec == TDInit /\ [][TDNext]_tdVars
===============================================================================
