--------------------------- MODULE PlanPurchase ---------------------------
(***************************************************************************)
(* Buying a prepaid Plan: the Stripe Checkout of a plan purchase order and *)
(* its webhook, the purchase out of the credit balance, the Plan Card an   *)
(* order is fulfilled with, and what a card can then become: sent, used,   *)
(* replaced by a card of a newer plan version, or invalidated.             *)
(*                                                                         *)
(* Every operation is one transaction at READ COMMITTED.  One that locks   *)
(* the rows it decides on is a single action.  The others read first and   *)
(* write later, so they are two actions of a process p whose tx[p] is the  *)
(* snapshot it read; what the second one writes still goes through the     *)
(* unique indexes and the transition triggers of the database.             *)
(***************************************************************************)
EXTENDS Integers, FiniteSets

CONSTANTS
    Orders,         \* plan purchase orders (one idempotency key each)
    Users,          \* users who may own a card
    Buyer,          \* Buyer[o]: the user who places order o
    Balance,        \* subset of Orders paid out of the credit balance
    MaxCards,       \* bound on the cards ever issued
    Procs,          \* concurrent requests to the web and admin services
    Funds,          \* initial credit of every user, in plan prices
    MaxRedeliveries,\* bound on deliveries of an event already acknowledged
    Setups          \* what the behaviours are about, see below

\* A setup fixes for one behaviour which of the optional operations are used,
\* the values of useImmediately a buyer asks for, whether acknowledged events
\* are delivered again, and the bound on web processes lost within a request.
Setup == [features : SUBSET {"send", "revise", "replace", "reverse", "cancelSub"},
          useNow : SUBSET BOOLEAN, duplicates : BOOLEAN, maxCrashes : 0 .. 1]

ASSUME PlanPurchaseAssumption ==
    /\ Buyer \in [Orders -> Users]
    /\ IsFiniteSet(Orders)
    /\ Balance \subseteq Orders
    /\ MaxCards \in Nat /\ Funds \in Nat /\ MaxRedeliveries \in Nat
    /\ Setups \subseteq Setup

VARIABLES
    order,      \* plan_purchase_orders
    session,    \* external: Stripe's Checkout Session of each order
    unacked,    \* external: events Stripe keeps delivering
    acked,      \* external: events Stripe got a 2xx for
    inbox,      \* stripe_webhook_events: status of each event, by order
    cards,      \* cards issued so far, numbered in order of creation
    sub,        \* plan_subscriptions, by the card each originated from
    credit,     \* balance of each user, in plan prices
    revenue,    \* seller revenue recorded for an order, in plan prices
    planStatus, \* plan_status of the two plan versions
    tx,         \* the request each process is serving
    crashes, redeliveries,
    setup       \* the member of Setups this behaviour is about; never changes

vars == <<order, session, unacked, acked, inbox, cards, sub, credit, revenue,
          planStatus, tx, crashes, redeliveries, setup>>

stripeVars == <<session, unacked, acked, redeliveries>>

\* Stripe's side of the orders that are not paid out of the credit balance.
Stripe == INSTANCE StripeCheckout WITH Payments <- Orders

(***************************************************************************)
(* Plan version 1 is the one on sale, version 2 its successor.             *)
(***************************************************************************)
Plans == {1, 2}

OrderStatus == {"none", "pending_payment", "fulfilled", "payment_failed",
                "cancelled", "expired", "reversed"}

NoSub == [state |-> "none", user |-> "none", plan |-> 0]

Idle == [op |-> "idle"]

NumCards == Cardinality(DOMAIN cards)

----------------------------------------------------------------------------
(* Cards. *)

Replaced(c) == \E d \in DOMAIN cards : cards[d].replaces = c

\* Mutant: the replacement of a card is not looked for.
Available_replaced(c) == ~cards[c].used /\ ~cards[c].invalidated

\* The checks of useCard and sendCard, made under the card's row lock.
Available(c) == ~cards[c].used /\ ~cards[c].invalidated /\ ~Replaced(c)

\* The card an order was fulfilled with and every card that replaced it.
Lineage(o) == {c \in DOMAIN cards : cards[c].order = o}

Leaf(o) == CHOOSE c \in Lineage(o) : ~Replaced(c)

Roots(o) == {c \in Lineage(o) : cards[c].replaces = 0}

NewCard(o, p, owner, replaced, used) ==
    [order |-> o, plan |-> p, owner |-> owner, replaces |-> replaced,
     used |-> used, invalidated |-> FALSE]

\* createPlanSubscription refuses a period that overlaps an active one.
Overlaps(u, p) ==
    \E c \in DOMAIN sub : sub[c].state = "active" /\ sub[c].user = u /\ sub[c].plan = p

\* Terms useCard checks: a disabled plan's card cannot be used.
PlanUsable(p) == planStatus[p] # "disabled"

(***************************************************************************)
(* The transition trigger of plan_purchase_orders: a terminal order never  *)
(* changes its status, a card is set once.                                 *)
(***************************************************************************)
StatusMayBecome(from, to) ==
    \/ from = to
    \/ from = "pending_payment" /\ to \in {"fulfilled", "payment_failed", "cancelled", "expired"}
    \/ from = "fulfilled" /\ to = "reversed"

\* Mutant: the trigger lets a card be set again.
CardMayBeSet_again(o) == TRUE

CardMayBeSet(o) == order[o].card = 0

----------------------------------------------------------------------------
Init ==
    /\ order = [o \in Orders |-> [status |-> "none", attached |-> FALSE,
                                  url |-> FALSE, useNow |-> FALSE, card |-> 0]]
    /\ Stripe!Init
    /\ inbox = [o \in Orders |-> [e \in Stripe!Events |-> "none"]]
    /\ cards = [c \in {} |-> NoSub]
    /\ sub = [c \in 1 .. MaxCards |-> NoSub]
    /\ credit = [u \in Users |-> Funds]
    /\ revenue = [o \in Orders |-> 0]
    /\ planStatus = [p \in Plans |-> "enabled"]
    /\ tx = [p \in Procs |-> Idle]
    /\ crashes = 0
    /\ setup \in Setups

----------------------------------------------------------------------------
\* The customer has the Checkout URL; Stripe settles or expires the session.
StripeSide(o) ==
    /\ \/ order[o].url /\ Stripe!Pay(o)
       \/ Stripe!AsyncSettles(o)
       \/ Stripe!SessionExpires(o)
    /\ UNCHANGED <<order, inbox, cards, sub, credit, revenue, planStatus, tx, crashes, setup>>

----------------------------------------------------------------------------
(* Placing an order. *)

Begin(p, record) == tx[p] = Idle /\ tx' = [tx EXCEPT ![p] = record]

End(p) == tx' = [tx EXCEPT ![p] = Idle]

\* createPlanPurchaseOrder for a Stripe listing; a replay of its idempotency
\* key finds the order that is there.
StartCheckout(p, o) ==
    /\ o \notin Balance
    /\ \/ /\ order[o].status = "none" /\ planStatus[1] = "enabled"
          /\ \E now \in setup.useNow :
                order' = [order EXCEPT ![o].status = "pending_payment", ![o].useNow = now]
       \/ /\ order[o].status = "pending_payment" /\ ~order[o].url
          /\ order' = order
    /\ Begin(p, [op |-> "session", o |-> o])
    /\ UNCHANGED <<stripeVars, inbox, cards, sub, credit, revenue, planStatus, crashes, setup>>

\* The Stripe call between the two transactions of the checkout route.
CreateSession(p) ==
    /\ tx[p].op = "session"
    /\ Stripe!CreateSession(tx[p].o)
    /\ tx' = [tx EXCEPT ![p] = [op |-> "attach", o |-> tx[p].o]]
    /\ UNCHANGED <<order, inbox, cards, sub, credit, revenue, planStatus, crashes, setup>>

\* attachStripePlanCheckoutSession reads the order without a lock ...
ReadAttach(p) ==
    /\ tx[p].op = "attach"
    /\ LET o == tx[p].o IN
       tx' = [tx EXCEPT ![p] =
                IF order[o].attached \/ order[o].status = "pending_payment"
                THEN [op |-> "attachWrite", o |-> o] ELSE Idle]
    /\ UNCHANGED <<order, stripeVars, inbox, cards, sub, credit, revenue, planStatus, crashes, setup>>

\* ... and writes whatever the order has become; the response then gives the
\* customer the Checkout URL.
WriteAttach(p) ==
    /\ tx[p].op = "attachWrite"
    /\ order' = [order EXCEPT ![tx[p].o].attached = TRUE, ![tx[p].o].url = TRUE]
    /\ End(p)
    /\ UNCHANGED <<stripeVars, inbox, cards, sub, credit, revenue, planStatus, crashes, setup>>

\* cancelUserPlanPurchaseOrder: the trigger repeats the check it makes
\* without a lock, so a late cancellation is refused.
Cancel(o) ==
    /\ o \notin Balance /\ order[o].status = "pending_payment"
    /\ StatusMayBecome(order[o].status, "cancelled")
    /\ order' = [order EXCEPT ![o].status = "cancelled"]
    /\ UNCHANGED <<stripeVars, inbox, cards, sub, credit, revenue, planStatus, tx, crashes, setup>>

----------------------------------------------------------------------------
(* Issuing and using a card. *)

\* Fulfilling order o with a new card; when the card is used at once, the
\* subscription and the seller's revenue are part of the same transaction.
Fulfil(o, useNow) ==
    LET c == NumCards + 1
        u == Buyer[o]
    IN /\ c <= MaxCards
       /\ cards' = [d \in DOMAIN cards \union {c} |->
                      IF d = c THEN NewCard(o, 1, u, 0, useNow) ELSE cards[d]]
       /\ order' = [order EXCEPT ![o].status = "fulfilled", ![o].card = c, ![o].useNow = useNow]
       /\ sub' = IF useNow
                 THEN [sub EXCEPT ![c] = [state |-> "active", user |-> u, plan |-> 1]]
                 ELSE sub
       /\ revenue' = [revenue EXCEPT ![o] = IF useNow THEN @ + 1 ELSE @]

\* createPlanPurchaseOrder out of the credit balance, first half: terms and
\* the overlap check of an immediate use.
ReadCreditPurchase(p, o) ==
    /\ o \in Balance /\ order[o].status = "none" /\ planStatus[1] = "enabled"
    /\ \E now \in setup.useNow :
          /\ now => ~Overlaps(Buyer[o], 1)
          /\ Begin(p, [op |-> "creditPurchase", o |-> o, useNow |-> now])
    /\ UNCHANGED <<order, stripeVars, inbox, cards, sub, credit, revenue, planStatus, crashes, setup>>

\* Second half, with the account row locked: debit, card and order together.
\* The order id is the idempotency key, unique per buyer.
WriteCreditPurchase(p) ==
    /\ tx[p].op = "creditPurchase"
    /\ LET o == tx[p].o IN
       \/ /\ credit[Buyer[o]] >= 1 /\ order[o].status = "none"
          /\ Fulfil(o, tx[p].useNow)
          /\ credit' = [credit EXCEPT ![Buyer[o]] = @ - 1]
       \/ /\ credit[Buyer[o]] < 1 \/ order[o].status # "none"
          /\ UNCHANGED <<order, cards, sub, revenue, credit>>
    /\ End(p)
    /\ UNCHANGED <<stripeVars, inbox, planStatus, crashes, setup>>

\* useCard: the overlap check reads subscriptions without a lock ...
ReadUse(p, c) ==
    /\ c \in DOMAIN cards /\ Available(c)
    /\ PlanUsable(cards[c].plan) /\ ~Overlaps(cards[c].owner, cards[c].plan)
    /\ Begin(p, [op |-> "use", c |-> c, u |-> cards[c].owner])
    /\ UNCHANGED <<order, stripeVars, inbox, cards, sub, credit, revenue, planStatus, crashes, setup>>

\* Mutant: the order is looked up by the used card, not by its chain's root.
WriteUse_noRoot(p) ==
    /\ tx[p].op = "use"
    /\ LET c == tx[p].c
           o == cards[c].order
       IN IF Available(c) /\ cards[c].owner = tx[p].u
          THEN /\ cards' = [cards EXCEPT ![c].used = TRUE]
               /\ sub' = [sub EXCEPT ![c] = [state |-> "active", user |-> tx[p].u,
                                             plan |-> cards[c].plan]]
               /\ revenue' = [revenue EXCEPT ![o] = IF order[o].card = c THEN @ + 1 ELSE @]
          ELSE UNCHANGED <<cards, sub, revenue>>
    /\ End(p)
    /\ UNCHANGED <<order, stripeVars, inbox, credit, planStatus, crashes, setup>>

\* ... while the card itself is locked: it is still available when it is
\* marked used.  Revenue is recorded for the order of the chain's root card
\* if that order is still fulfilled.
WriteUse(p) ==
    /\ tx[p].op = "use"
    /\ LET c == tx[p].c
           o == cards[c].order
       IN IF Available(c) /\ cards[c].owner = tx[p].u
          THEN /\ cards' = [cards EXCEPT ![c].used = TRUE]
               /\ sub' = [sub EXCEPT ![c] = [state |-> "active", user |-> tx[p].u,
                                             plan |-> cards[c].plan]]
               /\ revenue' = [revenue EXCEPT ![o] =
                                IF order[o].status = "fulfilled" THEN @ + 1 ELSE @]
          ELSE UNCHANGED <<cards, sub, revenue>>
    /\ End(p)
    /\ UNCHANGED <<order, stripeVars, inbox, credit, planStatus, crashes, setup>>

\* sendCard, under the card's row lock.
SendCard(c, u) ==
    /\ "send" \in setup.features
    /\ c \in DOMAIN cards /\ Available(c) /\ cards[c].owner # u
    /\ planStatus[cards[c].plan] = "enabled"
    /\ cards' = [cards EXCEPT ![c].owner = u]
    /\ UNCHANGED <<order, stripeVars, inbox, sub, credit, revenue, planStatus, tx, crashes, setup>>

\* The subscription's period ends, or an administrator cancels it.
SubscriptionEnds(c) ==
    /\ c \in DOMAIN cards /\ sub[c].state = "active"
    /\ sub' = [sub EXCEPT ![c].state = "ended"]
    /\ UNCHANGED <<order, stripeVars, inbox, cards, credit, revenue, planStatus, tx, crashes, setup>>

CancelPlanSubscription(c) ==
    /\ "cancelSub" \in setup.features
    /\ c \in DOMAIN cards /\ sub[c].state = "active"
    /\ sub' = [sub EXCEPT ![c].state = "canceled"]
    /\ UNCHANGED <<order, stripeVars, inbox, cards, credit, revenue, planStatus, tx, crashes, setup>>

----------------------------------------------------------------------------
(* The plan and its cards. *)

\* getPlanCommerceReferenceFacts: an order still waiting for its payment is
\* not an outstanding entitlement.
OutstandingEntitlements(p) ==
    \/ \E c \in DOMAIN cards : cards[c].plan = p /\ Available(c)
    \/ \E c \in DOMAIN sub : sub[c].state = "active" /\ sub[c].plan = p

\* revisePlanDefinition: the lifecycle of a plan version.
RevisePlan(p, s) ==
    /\ "revise" \in setup.features /\ s # planStatus[p]
    /\ ~(planStatus[p] = "enabled" /\ s = "disabled")
    /\ ~(planStatus[p] = "disabled" /\ s = "closed")
    /\ planStatus[p] = "closed" /\ s = "disabled" => ~OutstandingEntitlements(p)
    /\ planStatus' = [planStatus EXCEPT ![p] = s]
    /\ UNCHANGED <<order, stripeVars, inbox, cards, sub, credit, revenue, tx, crashes, setup>>

\* replaceAvailablePlanCards, with every available card of the closed plan
\* locked: each gets a card of the successor with the same owner.
ReplaceAvailablePlanCards ==
    /\ "replace" \in setup.features
    /\ planStatus[1] = "closed" /\ planStatus[2] = "enabled"
    /\ LET old == {c \in DOMAIN cards : cards[c].plan = 1 /\ Available(c)}
           n == NumCards
           rank(c) == Cardinality({d \in old : d <= c})
           new == n + 1 .. n + Cardinality(old)
           source(d) == CHOOSE c \in old : rank(c) = d - n
       IN /\ old # {} /\ n + Cardinality(old) <= MaxCards
          /\ cards' = [d \in DOMAIN cards \union new |->
                IF d \in new
                THEN NewCard(cards[source(d)].order, 2, cards[source(d)].owner, source(d), FALSE)
                ELSE cards[d]]
    /\ UNCHANGED <<order, stripeVars, inbox, sub, credit, revenue, planStatus, tx, crashes, setup>>

----------------------------------------------------------------------------
(* The webhook. *)

\* A delivery starts a transaction that reads the event row and the order
\* without a lock.  Acknowledged events may be delivered again.
Deliver(p, o, e) ==
    /\ e # "completed_unpaid" /\ Stripe!Deliver(o, e)
    /\ e \in unacked[o] \/ setup.duplicates
    /\ Begin(p, [op |-> IF e \in Stripe!PaidEvents THEN "complete" ELSE "terminal", o |-> o, e |-> e,
                 prior |-> inbox[o][e], status |-> order[o].status,
                 attached |-> order[o].attached])
    /\ UNCHANGED <<order, inbox, cards, sub, credit, revenue, planStatus, crashes, setup>>

SetEvent(o, e, s) == inbox' = [inbox EXCEPT ![o][e] = s]

\* The transaction throws: the handler records the failure and answers 500.
Throw(p) == tx' = [tx EXCEPT ![p] = [op |-> "failure", o |-> tx[p].o, e |-> tx[p].e]]

\* Inserting the event row when none was read: its primary key refuses a row
\* another delivery has inserted meanwhile.
EventRowFree(p) == tx[p].prior # "none" \/ inbox[tx[p].o][tx[p].e] = "none"

\* Mutant: any closed order is taken for a replay of its completion.
AlreadyComplete_closed(s) == s \notin {"none", "pending_payment"}

\* The statuses completeStripePlanPurchaseOrder takes for a replay.
AlreadyComplete(s) == s \in {"fulfilled", "reversed"}

\* The transaction does not commit: the session is not attached, the order
\* is over, or the database refuses the event row or the order's transition.
CompleteThrows(p) ==
    LET o == tx[p].o IN
    \/ ~tx[p].attached
    \/ /\ tx[p].prior # "succeeded" /\ ~AlreadyComplete(tx[p].status)
       /\ \/ ~EventRowFree(p)
          \/ tx[p].status # "pending_payment"
          \/ ~StatusMayBecome(order[o].status, "fulfilled")
          \/ ~CardMayBeSet(o)

\* completeStripePlanPurchaseOrder when the snapshot says the order is done:
\* the event row, if there is one, is marked succeeded.
ReplayComplete(p) ==
    /\ tx[p].op = "complete" /\ ~CompleteThrows(p)
    /\ tx[p].prior = "succeeded" \/ AlreadyComplete(tx[p].status)
    /\ LET o == tx[p].o  e == tx[p].e IN
       /\ SetEvent(o, e, IF inbox[o][e] = "none" THEN "none" ELSE "succeeded")
       /\ Stripe!Acknowledge(o, e)
    /\ End(p)
    /\ UNCHANGED <<order, cards, sub, credit, revenue, planStatus, crashes, setup>>

\* completeStripePlanPurchaseOrder otherwise: the checks of an immediate use
\* are reads of their own, before the commit.
CheckComplete(p) ==
    /\ tx[p].op = "complete" /\ ~CompleteThrows(p)
    /\ tx[p].prior # "succeeded" /\ tx[p].status = "pending_payment"
    /\ IF order[tx[p].o].useNow /\ (Overlaps(Buyer[tx[p].o], 1) \/ ~PlanUsable(1))
       THEN Throw(p)
       ELSE tx' = [tx EXCEPT ![p].op = "completeWrite"]
    /\ UNCHANGED <<order, stripeVars, inbox, cards, sub, credit, revenue, planStatus, crashes, setup>>

WriteComplete(p) ==
    /\ tx[p].op = "completeWrite" /\ ~CompleteThrows(p)
    /\ LET o == tx[p].o  e == tx[p].e IN
       /\ Fulfil(o, order[o].useNow)
       /\ SetEvent(o, e, "succeeded")
       /\ Stripe!Acknowledge(o, e)
    /\ End(p)
    /\ UNCHANGED <<credit, planStatus, crashes, setup>>

RejectComplete(p) ==
    /\ tx[p].op \in {"complete", "completeWrite"} /\ CompleteThrows(p)
    /\ Throw(p)
    /\ UNCHANGED <<order, stripeVars, inbox, cards, sub, credit, revenue, planStatus, crashes, setup>>

\* recordStripePlanPurchaseTerminal
TerminalStatus(e) == IF e = "expired" THEN "expired" ELSE "payment_failed"

RecordTerminal(p) ==
    /\ tx[p].op = "terminal"
    /\ LET o == tx[p].o
           e == tx[p].e
           closes == tx[p].status = "pending_payment"
       IN IF tx[p].attached /\ EventRowFree(p)
                /\ (closes => StatusMayBecome(order[o].status, TerminalStatus(e)))
          THEN /\ order' = [order EXCEPT ![o].status = IF closes THEN TerminalStatus(e) ELSE @]
               /\ SetEvent(o, e, "succeeded")
               /\ Stripe!Acknowledge(o, e)
               /\ End(p)
          ELSE /\ Throw(p)
               /\ UNCHANGED <<order, inbox, stripeVars>>
    /\ UNCHANGED <<cards, sub, credit, revenue, planStatus, crashes, setup>>

\* recordStripeWebhookIgnored: an unpaid completion is recorded and
\* acknowledged; the payment itself arrives as another event.
IgnoreUnpaid(o) ==
    /\ "completed_unpaid" \in unacked[o]
    /\ SetEvent(o, "completed_unpaid", "ignored")
    /\ Stripe!Acknowledge(o, "completed_unpaid")
    /\ UNCHANGED <<order, cards, sub, credit, revenue, planStatus, tx, crashes, setup>>

\* recordStripeWebhookFailure reads the event row without a lock and leaves
\* a succeeded one alone ...
ReadFailure(p) ==
    /\ tx[p].op = "failure"
    /\ LET o == tx[p].o  e == tx[p].e IN
       tx' = [tx EXCEPT ![p] = IF inbox[o][e] = "succeeded" THEN Idle
                               ELSE [op |-> "failureWrite", o |-> o, e |-> e, prior |-> inbox[o][e]]]
    /\ UNCHANGED <<order, stripeVars, inbox, cards, sub, credit, revenue, planStatus, crashes, setup>>

\* ... updates a row it found, and inserts one otherwise.
WriteFailure(p) ==
    /\ tx[p].op = "failureWrite"
    /\ SetEvent(tx[p].o, tx[p].e, IF EventRowFree(p) THEN "failed" ELSE inbox[tx[p].o][tx[p].e])
    /\ End(p)
    /\ UNCHANGED <<order, stripeVars, cards, sub, credit, revenue, planStatus, crashes, setup>>

----------------------------------------------------------------------------
(* reversePlanPurchaseOrder: the order and the leaf of its card chain are  *)
(* read without a lock ...                                                 *)
ReadReverse(p, o) ==
    /\ "reverse" \in setup.features
    /\ o \notin Balance /\ order[o].status = "fulfilled"
    /\ LET leaf == Leaf(o) IN
       Begin(p, [op |-> "reverse", o |-> o, leaf |-> leaf, used |-> cards[leaf].used])
    /\ UNCHANGED <<order, stripeVars, inbox, cards, sub, credit, revenue, planStatus, crashes, setup>>

\* ... and a leaf read as unused is invalidated if it still is unused; the
\* subscription is only looked for when the leaf was read as used.
WriteReverse(p) ==
    /\ tx[p].op = "reverse"
    /\ LET leaf == tx[p].leaf IN
       /\ cards' = [cards EXCEPT ![leaf].invalidated =
                      @ \/ (~tx[p].used /\ ~cards[leaf].used)]
       /\ sub' = [sub EXCEPT ![leaf].state =
                      IF tx[p].used /\ @ = "active" THEN "canceled" ELSE @]
       /\ order' = [order EXCEPT ![tx[p].o].status = "reversed"]
    /\ End(p)
    /\ UNCHANGED <<stripeVars, inbox, credit, revenue, planStatus, crashes, setup>>

\* The process serving p is lost: its transaction is rolled back.
Crash(p) ==
    /\ tx[p] # Idle /\ crashes < setup.maxCrashes
    /\ crashes' = crashes + 1
    /\ End(p)
    /\ UNCHANGED <<order, stripeVars, inbox, cards, sub, credit, revenue, planStatus, setup>>

----------------------------------------------------------------------------
Checkout == \E p \in Procs :
    \/ \E o \in Orders : StartCheckout(p, o) \/ ReadCreditPurchase(p, o)
    \/ CreateSession(p) \/ ReadAttach(p) \/ WriteAttach(p) \/ WriteCreditPurchase(p)

Webhook == \/ \E p \in Procs :
                  \/ \E o \in Orders, e \in Stripe!Events : Deliver(p, o, e)
                  \/ ReplayComplete(p) \/ CheckComplete(p) \/ WriteComplete(p)
                  \/ RejectComplete(p) \/ RecordTerminal(p) \/ ReadFailure(p) \/ WriteFailure(p)
           \/ \E o \in Orders : IgnoreUnpaid(o)

CardUse == \/ \E p \in Procs : WriteUse(p) \/ \E c \in 1 .. MaxCards : ReadUse(p, c)
           \/ \E c \in 1 .. MaxCards :
                  \/ SubscriptionEnds(c) \/ CancelPlanSubscription(c)
                  \/ \E u \in Users : SendCard(c, u)

Owner == \/ \E p \in Procs : WriteReverse(p) \/ \E o \in Orders : ReadReverse(p, o)
         \/ \E v \in Plans, s \in {"enabled", "closed", "disabled"} : RevisePlan(v, s)
         \/ ReplaceAvailablePlanCards

Next == (\E o \in Orders : StripeSide(o)) \/ Checkout \/ Webhook \/ CardUse \/ Owner
        \/ (\E o \in Orders : Cancel(o)) \/ (\E p \in Procs : Crash(p))

Spec == Init /\ [][Next]_vars

----------------------------------------------------------------------------
(* Properties. *)

\* Orders, cards, subscriptions and events have the shape of their tables.
TypeOK ==
    /\ \A o \in Orders : /\ order[o].status \in OrderStatus
                         /\ order[o].card \in 0 .. MaxCards
                         /\ inbox[o] \in [Stripe!Events -> {"none", "failed", "ignored", "succeeded"}]
                         /\ unacked[o] \subseteq Stripe!Events /\ acked[o] \subseteq Stripe!Events
    /\ DOMAIN cards = 1 .. NumCards /\ NumCards <= MaxCards
    /\ \A c \in DOMAIN cards : /\ cards[c].order \in Orders /\ cards[c].owner \in Users
                               /\ cards[c].plan \in Plans
                               /\ cards[c].replaces \in 0 .. c - 1
    /\ \A u \in Users : credit[u] \in 0 .. Funds

\* Whatever the order and repetition of webhook deliveries, an order is
\* fulfilled exactly when one card was issued for it, and a card is issued
\* for a Stripe order only once its Checkout Session was paid, for a balance
\* order together with its one debit
\* (completeStripePlanPurchaseOrder, createPlanPurchaseOrder, and the trigger on the order).
OneCardPerPayment ==
    /\ \A o \in Orders :
        /\ Cardinality(Roots(o)) = (IF order[o].status \in {"fulfilled", "reversed"} THEN 1 ELSE 0)
        /\ Roots(o) # {} => Roots(o) = {order[o].card}
        /\ Roots(o) # {} /\ o \notin Balance => session[o] = "paid"
    /\ \A u \in Users :
        credit[u] = Funds - Cardinality({o \in Balance : Buyer[o] = u /\ Roots(o) # {}})

\* A purchase entitles its buyer once: of the card an order was fulfilled
\* with and the cards that replaced it, at most one is ever used, and none
\* that was replaced or invalidated (useCard, replaceAvailablePlanCards).
OneUsePerPurchase ==
    \A o \in Orders :
        /\ Cardinality({c \in Lineage(o) : sub[c].state # "none"}) <= 1
        /\ \A c \in Lineage(o) : sub[c].state # "none" => ~Replaced(c) /\ ~cards[c].invalidated

\* The seller's revenue of an order is recorded once, with the use of its
\* card, and every use of a purchase that still stands has it
\* (recordPrepaidSellerRevenue from useCard).
RevenueFollowsUse ==
    \A o \in Orders :
        LET uses == Cardinality({c \in Lineage(o) : sub[c].state # "none"}) IN
        /\ revenue[o] <= uses
        /\ order[o].status = "fulfilled" => revenue[o] = uses

\* A paid event that Stripe stops delivering was answered by a card: no
\* acknowledged payment is without its entitlement.
AcknowledgedPaymentIsFulfilled ==
    \A o \in Orders : acked[o] \intersect Stripe!PaidEvents # {}
                      => order[o].status \in {"fulfilled", "reversed"}

\* The record of an event that succeeded or was ignored is final: a failing
\* delivery of it changes nothing (recordStripeWebhookFailure).
InboxIsFinal ==
    [][\A o \in Orders, e \in Stripe!Events :
         inbox[o][e] \in {"succeeded", "ignored"} => inbox'[o][e] = inbox[o][e]]_vars

\* Reversing a purchase takes the entitlement back: no card of its chain is
\* available and no subscription it started is active
\* (reversePlanPurchaseOrder).
ReversedHasNoEntitlement ==
    \A o \in Orders : order[o].status = "reversed" =>
        \A c \in Lineage(o) : ~Available(c) /\ sub[c].state # "active"

\* A user has at most one active subscription to a plan at a time
\* (the overlap check of createPlanSubscription).
NoOverlappingSubscriptions ==
    \A c, d \in DOMAIN cards :
        (c # d /\ sub[c].state = "active" /\ sub[d].state = "active")
        => <<sub[c].user, sub[c].plan>> # <<sub[d].user, sub[d].plan>>

\* A plan that has available cards or active subscriptions is not disabled
\* (the guard of revisePlanDefinition).
DisabledPlanIsUnused ==
    \A v \in Plans : planStatus[v] = "disabled" => ~OutstandingEntitlements(v)
=============================================================================
