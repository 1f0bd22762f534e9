----------------------------- MODULE Deliveries -----------------------------
(***************************************************************************)
(* What becomes of a queued message: Celery runs notifications.tasks       *)
(* debug_sms or send_arrival_email, and runs it again after any exception, *)
(* five times at most.  An exception may come although the provider took   *)
(* the message, so it can arrive twice; the pauses between the tries let   *)
(* messages overtake each other.  A worker that dies has taken the task    *)
(* off the broker already.                                                 *)
(***************************************************************************)
EXTENDS Accounts

CONSTANT MaxRetries  \* retry_kwargs: 5

ASSUME DeliveriesConstantsOK == MaxRetries \in Nat

VARIABLE task  \* what the workers made of each message of texts

\* tries made, messages taken by the provider
Task == [state : {"queued", "done", "given up", "worker died"},
         tries : 0..MaxRetries + 1, taken : 0..MaxRetries + 1]

DeliveryInit ==
  task = [m \in Message |-> [state |-> "queued", tries |-> 0, taken |-> 0]]

Waiting(m) == "deliver" \in mix.calls /\ m \in texts /\ task[m].state = "queued"

\* One try succeeds.
Sent(m) ==
  /\ Waiting(m)
  /\ task' = [task EXCEPT ![m].state = "done", ![m].tries = @ + 1, ![m].taken = @ + 1]
  /\ UNCHANGED vars

\* One try raises, before the provider took the message or after.
LastTry(n) == n > MaxRetries
Raises(m, taken) ==
  /\ Waiting(m)
  /\ task' = [task EXCEPT ![m].state = IF LastTry(task[m].tries + 1) THEN "given up" ELSE @,
                          ![m].tries = @ + 1, ![m].taken = @ + taken]
  /\ UNCHANGED vars

WorkerDies(m) ==
  /\ Waiting(m)
  /\ task' = [task EXCEPT ![m].state = "worker died"]
  /\ UNCHANGED vars

Work(m) == Sent(m) \/ \E taken \in {0, 1} : Raises(m, taken)

DeliveryStep == \E m \in texts : Work(m) \/ WorkerDies(m)

-----------------------------------------------------------------------------
DeliveryTypeOK == task \in [Message -> Task]
=============================================================================
