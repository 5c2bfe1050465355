---------------------------- MODULE TriggerIntake ----------------------------
(***************************************************************************)
(* What the webhook receiver promises to the scheduler, with every request *)
(* answered in one step: a request is refused or enters the channel, once  *)
(* and only if there is room, and is answered with success if and only if  *)
(* it has.  Only a restart takes away what has entered.                    *)
(***************************************************************************)
EXTENDS Naturals, Sequences

CONSTANTS
  Requests,
  Capacity  \* of the channel

VARIABLES
  request,  \* "new", "sending", "accepted" or "refused"
  channel   \* the accepted requests that nobody has taken yet

intakeVars == <<request, channel>>

Init ==
  /\ request = [r \in Requests |-> "new"]
  /\ channel = <<>>

(* The request is read: it is refused, or will be sent to the channel.     *)
Answer(r) ==
  /\ request[r] = "new"
  /\ \E outcome \in {"sending", "refused"} : request' = [request EXCEPT ![r] = outcome]
  /\ UNCHANGED channel

Accept(r) ==
  /\ request[r] = "sending"
  /\ Len(channel) < Capacity
  /\ channel' = Append(channel, r)
  /\ request' = [request EXCEPT ![r] = "accepted"]

Take ==
  /\ channel # <<>>
  /\ channel' = Tail(channel)
  /\ UNCHANGED request

(* What is in the channel is lost; who waits for it gets no answer, nor    *)
(* does who is cut off before.                                             *)
Lose ==
  /\ channel' = <<>>
  /\ \E cut \in SUBSET {r \in Requests : request[r] = "new"} :
       request' = [r \in Requests |-> IF request[r] = "sending" \/ r \in cut
                                      THEN "refused" ELSE request[r]]

Next ==
  \/ \E r \in Requests : Answer(r) \/ Accept(r)
  \/ Take
  \/ Lose

Spec == Init /\ [][Next]_intakeVars

=============================================================================
