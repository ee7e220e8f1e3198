------------------------------ MODULE JobQueue ------------------------------
(***************************************************************************)
(* The job queue (jobs/queue.py): at-least-once delivery with visibility   *)
(* timeouts, receipts and a dead-letter queue. Every method holds the      *)
(* queue's lock throughout, so each is one operator here; the components   *)
(* that call them decide when. The clock is abstracted to its effect: a    *)
(* hidden message may become visible at any moment (Expire).               *)
(***************************************************************************)
EXTENDS Naturals, FiniteSets

CONSTANTS
    Messages,      \* the messages that may be sent, one per idempotency key
    QueueBudget    \* max_receives of the queue (the redrive policy)

ASSUME QueueBudgetAssumption == QueueBudget \in Nat \ {0}

VARIABLES
    place,      \* where each message is
    received,   \* entry.receive_count
    receipt     \* entry.receipt: the receive it was issued by, 0 for None

queueVars == <<place, received, receipt>>

(* "visible" and "hidden" are entries whose visible_at is past or future.  *)
Places == {"unsent", "visible", "hidden", "deleted", "dead"}
Queued == {"visible", "hidden"}

(* A Delivery: receipts are fresh at every receive, so the receive count   *)
(* of a message names its receipt.                                         *)
Deliveries == [msg : Messages, count : 1 .. QueueBudget]

QueueInit ==
    /\ place = [m \in Messages |-> "unsent"]
    /\ received = [m \in Messages |-> 0]
    /\ receipt = [m \in Messages |-> 0]

-----------------------------------------------------------------------------
Move(ms, to) ==
    place' = [m \in Messages |-> IF m \in ms THEN to ELSE place[m]]

(* send_raw: a key that was seen before, even of a message long settled,   *)
(* adds nothing.                                                           *)
Send(m) ==
    /\ place[m] = "unsent"
    /\ Move({m}, "visible")
    /\ UNCHANGED <<received, receipt>>

(* visible_at passes: a visibility timeout or a retry delay runs out. The  *)
(* receipt stays the current one until the message is received again.      *)
Expire(m) ==
    /\ place[m] = "hidden"
    /\ Move({m}, "visible")
    /\ UNCHANGED <<received, receipt>>

Due       == {m \in Messages : place[m] = "visible"}
Exhausted == {m \in Due : received[m] + 1 > QueueBudget}

(* Fault: a delivery is not counted. *)
ReceiveUncounted(ms, dead) ==
    /\ place' = [m \in Messages |-> IF m \in ms THEN "hidden"
                                    ELSE IF m \in dead THEN "dead"
                                    ELSE place[m]]
    /\ receipt' = [m \in Messages |->
                       IF m \in ms THEN received[m] + 1 ELSE receipt[m]]
    /\ UNCHANGED received

(* receive: the messages of ms are delivered and hidden; of the exhausted  *)
(* ones it meets (all of them, unless it fills its batch first) the dead   *)
(* ones go to the dead-letter queue.                                       *)
Receive(ms, dead) ==
    /\ place' = [m \in Messages |-> IF m \in ms THEN "hidden"
                                    ELSE IF m \in dead THEN "dead"
                                    ELSE place[m]]
    /\ received' = [m \in Messages |->
                        IF m \in ms THEN received[m] + 1 ELSE received[m]]
    /\ receipt' = [m \in Messages |->
                       IF m \in ms THEN received'[m] ELSE receipt[m]]

(* _current: otherwise StaleReceiptError, and nothing changes. *)
Current(d) == place[d.msg] \in Queued /\ receipt[d.msg] = d.count

Ack(d) ==
    /\ Current(d)
    /\ Move({d.msg}, "deleted")
    /\ UNCHANGED <<received, receipt>>

(* nack: visible after a delay (or at once), and the receipt is void. *)
Nack(d, delayed) ==
    /\ Current(d)
    /\ Move({d.msg}, IF delayed THEN "hidden" ELSE "visible")
    /\ receipt' = [receipt EXCEPT ![d.msg] = 0]
    /\ UNCHANGED received

(* extend: also takes back a message that has timed out, as long as nobody *)
(* has received it since.                                                  *)
Extend(d) ==
    /\ Current(d)
    /\ Move({d.msg}, "hidden")
    /\ UNCHANGED <<received, receipt>>

Reject(d) ==
    /\ Current(d)
    /\ Move({d.msg}, "dead")
    /\ UNCHANGED <<received, receipt>>
=============================================================================
