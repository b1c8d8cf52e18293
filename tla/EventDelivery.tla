---------------------------- MODULE EventDelivery ----------------------------
(***************************************************************************)
(* What the outbox promises a handler that commits a domain event.  A      *)
(* relay takes pending events in hand, possibly several relays the same    *)
(* one.  Only an event in hand is delivered, and only its verdict changes: *)
(* to PUBLISHED behind a delivery to every carrier, to FAILED behind       *)
(* MaxAttempts failed ones, or back to PENDING.  A settled event that      *)
(* nobody has in hand is never taken again: its verdict is final.          *)
(*                                                                         *)
(* A carrier is the in-process emitter, whose listeners were called but    *)
(* need not have succeeded, and the broker.  How often, by whom and in     *)
(* which order events are delivered is left open.                          *)
(***************************************************************************)
EXTENDS Naturals

CONSTANTS Events, MaxAttempts

VARIABLES
  verdict,    \* what the outbox says of each event
  inHand,     \* events some relay works on
  delivered,  \* events delivered to every carrier at least once
  failures    \* failed deliveries of each event

vars == <<verdict, inHand, delivered, failures>>

Init == /\ verdict   = [e \in Events |-> "ABSENT"]
        /\ inHand    = {}
        /\ delivered = {}
        /\ failures  = [e \in Events |-> 0]

Commit(S) == /\ \A e \in S : verdict[e] = "ABSENT"
             /\ verdict' = [e \in Events |-> IF e \in S THEN "PENDING" ELSE verdict[e]]
             /\ UNCHANGED <<inHand, delivered, failures>>

Take(S) == /\ \A e \in S : verdict[e] = "PENDING"
           /\ inHand' = inHand \cup S
           /\ UNCHANGED <<verdict, delivered, failures>>

Release(S) == /\ inHand' = inHand \ S
              /\ UNCHANGED <<verdict, delivered, failures>>

(* A delivery may reach every carrier, and may be reported failed although *)
(* it did.                                                                 *)
Deliver(e) == /\ e \in inHand
              /\ delivered' \in {delivered, delivered \cup {e}}
              /\ failures' \in {failures, [failures EXCEPT ![e] = @ + 1]}
              /\ UNCHANGED <<verdict, inHand>>

(* A relay settles an event it has in hand; another may still have it.     *)
Settle(e, v) == /\ e \in inHand
                /\ verdict' = [verdict EXCEPT ![e] = v]
                /\ inHand' \in {inHand, inHand \ {e}}
                /\ UNCHANGED <<delivered, failures>>

Publish(e)  == e \in delivered /\ Settle(e, "PUBLISHED")
GiveUp(e)   == failures[e] >= MaxAttempts /\ Settle(e, "FAILED")
Postpone(e) == failures[e] > 0 /\ Settle(e, "PENDING")

Next == \/ \E S \in SUBSET Events : Commit(S) \/ Take(S) \/ Release(S)
        \/ \E e \in Events : Deliver(e) \/ Publish(e) \/ GiveUp(e) \/ Postpone(e)

Spec == Init /\ [][Next]_vars
=============================================================================
