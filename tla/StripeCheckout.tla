-------------------------- MODULE StripeCheckout --------------------------
(***************************************************************************)
(* Stripe, as the web service meets it (external): a Checkout Session for  *)
(* each payment, and webhook events that are delivered until they are      *)
(* answered with a 2xx, possibly several times, concurrently and in any    *)
(* order.  An event carries the snapshot of the session it was made with.  *)
(***************************************************************************)
EXTENDS Naturals

CONSTANTS
    Payments,       \* what is paid for: plan purchase orders or top-ups
    MaxRedeliveries \* bound on deliveries of an event already acknowledged

VARIABLES
    session,        \* state of the Checkout Session of each payment
    unacked,        \* events that are still being delivered
    acked,          \* events that were answered with a 2xx
    redeliveries

stripeVars == <<session, unacked, acked, redeliveries>>

\* Events the webhook completes a payment on.
PaidEvents == {"completed", "async_payment_succeeded"}

\* Events the webhook closes a payment on.
TerminalEvents == {"async_payment_failed", "expired"}

\* "completed_unpaid" is a checkout.session.completed whose snapshot of the
\* session is not paid yet (an asynchronous payment method).
Events == PaidEvents \union TerminalEvents \union {"completed_unpaid"}

Init ==
    /\ session = [o \in Payments |-> "none"]
    /\ unacked = [o \in Payments |-> {}]
    /\ acked = [o \in Payments |-> {}]
    /\ redeliveries = 0

\* Creating a session: the idempotency key is the payment, so a retry gets
\* the session that is there.
CreateSession(o) ==
    /\ session' = [session EXCEPT ![o] = IF @ = "none" THEN "open" ELSE @]
    /\ UNCHANGED <<unacked, acked, redeliveries>>

Becomes(o, s, e) ==
    /\ session' = [session EXCEPT ![o] = s]
    /\ unacked' = [unacked EXCEPT ![o] = @ \union {e}]
    /\ UNCHANGED <<acked, redeliveries>>

\* The customer pays with a synchronous method, or submits an asynchronous
\* one that is settled later.
Pay(o) ==
    /\ session[o] = "open"
    /\ \/ Becomes(o, "paid", "completed")
       \/ Becomes(o, "processing", "completed_unpaid")

AsyncSettles(o) ==
    /\ session[o] = "processing"
    /\ \/ Becomes(o, "paid", "async_payment_succeeded")
       \/ Becomes(o, "failed", "async_payment_failed")

SessionExpires(o) == session[o] = "open" /\ Becomes(o, "expired", "expired")

\* A delivery of e: a retry, or a duplicate of one that was acknowledged.
Deliver(o, e) ==
    /\ \/ e \in unacked[o] /\ redeliveries' = redeliveries
       \/ /\ e \in acked[o] /\ redeliveries < MaxRedeliveries
          /\ redeliveries' = redeliveries + 1
    /\ UNCHANGED <<session, unacked, acked>>

\* The webhook answers e with a 2xx.
Acknowledge(o, e) ==
    /\ unacked' = [unacked EXCEPT ![o] = @ \ {e}]
    /\ acked' = [acked EXCEPT ![o] = @ \union {e}]
    /\ UNCHANGED <<session, redeliveries>>
=============================================================================
