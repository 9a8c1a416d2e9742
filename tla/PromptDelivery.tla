--------------------------- MODULE PromptDelivery ---------------------------
(***************************************************************************)
(* What the agent promises about the messages handed to it, whatever it is *)
(* doing: each message waits in one of two lanes or is taken at once, is   *)
(* taken from its lane oldest first, and is then delivered to the          *)
(* transcript, once and in order.  It disappears only when it is withdrawn *)
(* by the caller or, if MayLose, when the run that had taken it fails.     *)
(* Messages are numbered in the order they were handed over.               *)
(***************************************************************************)
EXTENDS Naturals

CONSTANT MayLose   \* TRUE when a run may fail and lose what it had taken

VARIABLES
  next,       \* the number of the next message
  waiting,    \* for each lane, the messages waiting in it
  taken,      \* messages taken and not yet delivered
  delivered,  \* messages in the transcript
  gone        \* messages withdrawn or lost

delivery == <<next, waiting, taken, delivered, gone>>

QueueLane == {"steer", "followUp"}

Init ==
  /\ next = 1
  /\ waiting = [l \in QueueLane |-> {}]
  /\ taken = {} /\ delivered = {} /\ gone = {}

(* A message arrives: in a lane, taken at once, or already delivered. *)
Enqueue(l) ==
  /\ next' = next + 1
  /\ waiting' = [waiting EXCEPT ![l] = @ \union {next}]
  /\ UNCHANGED <<taken, delivered, gone>>

TakeNew ==
  /\ taken = {}
  /\ next' = next + 1
  /\ taken' = {next}
  /\ UNCHANGED <<waiting, delivered, gone>>

DeliverNew ==
  /\ taken = {}
  /\ next' = next + 1
  /\ delivered' = delivered \union {next}
  /\ UNCHANGED <<waiting, taken, gone>>

Older(a, b) == a < b

(* The oldest messages of a lane are taken together. *)
Take(l) ==
  /\ taken = {}
  /\ \E S \in SUBSET waiting[l] :
       /\ \A a \in waiting[l] \ S, b \in S : Older(b, a)
       /\ taken' = S
       /\ waiting' = [waiting EXCEPT ![l] = @ \ S]
  /\ UNCHANGED <<next, delivered, gone>>

Deliver ==
  \E m \in taken :
    /\ \A b \in taken : b = m \/ Older(m, b)
    /\ taken' = taken \ {m}
    /\ delivered' = delivered \union {m}
    /\ UNCHANGED <<next, waiting, gone>>

Withdraw(l) ==
  /\ gone' = gone \union waiting[l]
  /\ waiting' = [waiting EXCEPT ![l] = {}]
  /\ UNCHANGED <<next, taken, delivered>>

(* The caller forgets the conversation. *)
Forget ==
  /\ gone' = gone \union delivered \union waiting["steer"] \union waiting["followUp"]
  /\ waiting' = [l \in QueueLane |-> {}]
  /\ delivered' = {}
  /\ UNCHANGED <<next, taken>>

Lose ==
  /\ MayLose
  /\ gone' = gone \union taken
  /\ taken' = {}
  /\ UNCHANGED <<next, waiting, delivered>>

Next ==
  \/ \E l \in QueueLane : Enqueue(l) \/ Take(l) \/ Withdraw(l)
  \/ TakeNew \/ DeliverNew \/ Deliver \/ Forget \/ Lose

Spec == Init /\ [][Next]_delivery

(* What was taken is delivered, or lost. *)
FairSpec == Spec /\ WF_delivery(Deliver \/ Lose)
=============================================================================
