---------------------------- MODULE CreditTopup ----------------------------
(***************************************************************************)
(* Buying credit: top-ups that an owner reviews by hand, top-ups paid at   *)
(* Stripe Checkout, the Credit Card a paid top-up is fulfilled with, and   *)
(* the credit ledger the card is redeemed into.                            *)
(*                                                                         *)
(* The card of a top-up carries the top-up's name here.  Operations that   *)
(* lock the row they decide on, or repeat the decision in the WHERE of     *)
(* their UPDATE, are single actions; creating a top-up and submitting a    *)
(* payment reference count and look for rows that nothing locks, and are   *)
(* two actions of a process p.                                             *)
(***************************************************************************)
EXTENDS Integers, FiniteSets

CONSTANTS
    Topups,         \* credit top-ups (one idempotency key each)
    Users,
    Mode,           \* Mode[t]: "manual_review", "stripe_checkout", or "legacy"
    Payer,          \* Payer[t]: the user who creates top-up t
    Amount,         \* credit a top-up is worth
    Refs,           \* payment references a user may submit
    Procs,          \* concurrent requests of users
    MaxRedeliveries,
    MaxSpend        \* bound on credit used up or transferred

ASSUME CreditTopupAssumption ==
    /\ Mode \in [Topups -> {"manual_review", "stripe_checkout", "legacy"}]
    /\ Payer \in [Topups -> Users]
    /\ "none" \notin Users
    /\ Amount \in Nat \ {0}
    /\ MaxRedeliveries \in Nat /\ MaxSpend \in Nat

VARIABLES
    topup,      \* credit_topups
    card,       \* the card issued for each top-up
    balance,    \* balance_snap_units of each user's credit account
    ledger,     \* credit_ledger_events that stem from a top-up
    spent,      \* ghost: number of charges and transfers so far
    inbox,      \* stripe_webhook_events
    tx,         \* the request each process is serving
    session, unacked, acked, redeliveries

stripeVars == <<session, unacked, acked, redeliveries>>

vars == <<topup, card, balance, ledger, spent, inbox, tx, session, unacked, acked, redeliveries>>

Stripe == INSTANCE StripeCheckout WITH Payments <- Topups

OpenStatus == {"pending_payment", "pending_review"}

ClosedStatus == {"expired", "payment_failed", "cancelled", "rejected", "reversed"}

MaxOpen == 2    \* open top-ups a user may have

NoCard == [owner |-> "none", used |-> FALSE, invalidated |-> FALSE]

NoEntry == [credits |-> 0, debits |-> 0, account |-> "none"]

Idle == [op |-> "idle"]

\* A legacy top-up predates cards: it is credited to its account directly.
Init ==
    /\ topup = [t \in Topups |->
                  [status |-> IF Mode[t] = "legacy" THEN "pending_review" ELSE "none",
                   ref |-> "none", evidence |-> Mode[t] = "legacy", late |-> FALSE,
                   url |-> FALSE, useNow |-> FALSE]]
    /\ card = [t \in Topups |-> NoCard]
    /\ balance = [u \in Users |-> 0]
    /\ ledger = [t \in Topups |-> NoEntry]
    /\ spent = 0
    /\ inbox = [t \in Topups |-> [e \in Stripe!Events |-> "none"]]
    /\ tx = [p \in Procs |-> Idle]
    /\ Stripe!Init

----------------------------------------------------------------------------
(* Creating a top-up. *)

OpenOf(u) == {t \in Topups : Payer[t] = u /\ topup[t].status \in OpenStatus}

\* createUserCreditTopup first expires the user's own late manual top-ups ...
Expired(u, t) ==
    /\ Payer[t] = u /\ Mode[t] = "manual_review"
    /\ topup[t].status = "pending_payment" /\ topup[t].late

\* ... then counts the open ones; the write that follows is not guarded by
\* the count.
ReadCreate(p, t) ==
    /\ tx[p] = Idle /\ topup[t].status = "none"
    /\ Cardinality({s \in OpenOf(Payer[t]) : ~Expired(Payer[t], s)}) < MaxOpen
    /\ tx' = [tx EXCEPT ![p] = [op |-> "create", t |-> t]]
    /\ UNCHANGED <<topup, card, balance, ledger, spent, inbox, stripeVars>>

WriteCreate(p) ==
    /\ tx[p].op = "create"
    /\ LET t == tx[p].t
           aged == [s \in Topups |-> IF Expired(Payer[t], s)
                                     THEN [topup[s] EXCEPT !.status = "expired"] ELSE topup[s]]
       IN \/ /\ topup[t].status = "none"
             /\ \E now \in IF Mode[t] = "stripe_checkout" THEN {FALSE} ELSE BOOLEAN :
                   topup' = [aged EXCEPT ![t].status = "pending_payment", ![t].useNow = now]
          \/ topup[t].status # "none" /\ topup' = topup
    /\ tx' = [tx EXCEPT ![p] = Idle]
    /\ UNCHANGED <<card, balance, ledger, spent, inbox, stripeVars>>

\* The day a manual top-up may wait for its payment is over.
TimePasses(t) ==
    /\ topup[t].status = "pending_payment" /\ ~topup[t].late
    /\ topup' = [topup EXCEPT ![t].late = TRUE]
    /\ UNCHANGED <<card, balance, ledger, spent, inbox, tx, stripeVars>>

\* cancelUserCreditTopup
CancelTopup(t) ==
    /\ topup[t].status = "pending_payment"
    /\ topup' = [topup EXCEPT ![t].status = "cancelled"]
    /\ UNCHANGED <<card, balance, ledger, spent, inbox, tx, stripeVars>>

----------------------------------------------------------------------------
(* Manual review. *)

\* submitCreditTopupPaymentReference looks for another top-up with the same
\* reference.  A late submission is refused, and the expiry it writes is
\* rolled back with the refusal.
ReadSubmit(p, t, r) ==
    /\ tx[p] = Idle /\ Mode[t] = "manual_review"
    /\ topup[t].status = "pending_payment" /\ ~topup[t].late
    /\ \A s \in Topups \ {t} : topup[s].ref # r
    /\ tx' = [tx EXCEPT ![p] = [op |-> "submit", t |-> t, r |-> r]]
    /\ UNCHANGED <<topup, card, balance, ledger, spent, inbox, stripeVars>>

WriteSubmit(p) ==
    /\ tx[p].op = "submit"
    /\ LET t == tx[p].t IN
       topup' = IF topup[t].status = "pending_payment"
                THEN [topup EXCEPT ![t].status = "pending_review", ![t].ref = tx[p].r]
                ELSE topup
    /\ tx' = [tx EXCEPT ![p] = Idle]
    /\ UNCHANGED <<card, balance, ledger, spent, inbox, stripeVars>>

\* createCreditTopupAttachment with payment evidence
UploadEvidence(t) ==
    /\ Mode[t] = "manual_review" /\ topup[t].status = "pending_payment" /\ ~topup[t].late
    /\ topup' = [topup EXCEPT ![t].status = "pending_review", ![t].evidence = TRUE]
    /\ UNCHANGED <<card, balance, ledger, spent, inbox, tx, stripeVars>>

\* createCreditLedgerEvent for a credit: event and balance in one write.
Credit(t, u) ==
    /\ ledger' = [ledger EXCEPT ![t].credits = @ + 1, ![t].account = u]
    /\ balance' = [balance EXCEPT ![u] = @ + Amount]

\* createCreditLedgerEvent for a reversal.
Debit(t, u) ==
    /\ ledger' = [ledger EXCEPT ![t].debits = @ + 1]
    /\ balance' = [balance EXCEPT ![u] = @ - Amount]

\* createCard, and useCard in the same transaction for an immediate use.
IssueCard(t) ==
    /\ card' = [card EXCEPT ![t] = [owner |-> Payer[t], used |-> topup[t].useNow,
                                    invalidated |-> FALSE]]
    /\ IF topup[t].useNow THEN Credit(t, Payer[t]) ELSE UNCHANGED <<balance, ledger>>

\* approveCreditTopup, under the top-up's row lock: a second approval finds
\* it fulfilled or credited and changes nothing.
Approve(t) ==
    /\ Mode[t] # "stripe_checkout" /\ topup[t].status = "pending_review"
    /\ topup[t].ref # "none" \/ topup[t].evidence
    /\ \/ /\ Mode[t] = "manual_review"
          /\ topup' = [topup EXCEPT ![t].status = "fulfilled"]
          /\ IssueCard(t)
       \/ /\ Mode[t] = "legacy"
          /\ topup' = [topup EXCEPT ![t].status = "credited"]
          /\ Credit(t, Payer[t]) /\ UNCHANGED card
    /\ UNCHANGED <<spent, inbox, tx, stripeVars>>

\* rejectCreditTopup
Reject(t) ==
    /\ topup[t].status = "pending_review"
    /\ topup' = [topup EXCEPT ![t].status = "rejected"]
    /\ UNCHANGED <<card, balance, ledger, spent, inbox, tx, stripeVars>>

----------------------------------------------------------------------------
(* Stripe Checkout. *)

\* The session is created for a top-up that createUserCreditTopup returned.
CreateCheckoutSession(t) ==
    /\ Mode[t] = "stripe_checkout" /\ topup[t].status # "none" /\ ~topup[t].url
    /\ Stripe!CreateSession(t) /\ session[t] = "none"
    /\ UNCHANGED <<topup, card, balance, ledger, spent, inbox, tx>>

\* attachStripeCheckoutSession: only a pending top-up gets its session, and
\* the customer its URL.
AttachSession(t) ==
    /\ session[t] # "none" /\ topup[t].status = "pending_payment" /\ ~topup[t].url
    /\ topup' = [topup EXCEPT ![t].ref = "session", ![t].url = TRUE]
    /\ UNCHANGED <<card, balance, ledger, spent, inbox, tx, stripeVars>>

StripeSide(t) ==
    /\ \/ topup[t].url /\ Stripe!Pay(t)
       \/ Stripe!AsyncSettles(t)
       \/ Stripe!SessionExpires(t)
    /\ UNCHANGED <<topup, card, balance, ledger, spent, inbox, tx>>

SetEvent(t, e, s) == inbox' = [inbox EXCEPT ![t][e] = s]

\* A delivery changes nothing when its process is lost, or when a concurrent
\* delivery of the event holds its row: it is answered with an error.
Delivering(t, e) == e \in unacked[t] \/ (e \in acked[t] /\ redeliveries < MaxRedeliveries)

Answer(t, e) ==
    /\ unacked' = [unacked EXCEPT ![t] = @ \ {e}]
    /\ acked' = [acked EXCEPT ![t] = @ \union {e}]
    /\ redeliveries' = IF e \in unacked[t] THEN redeliveries ELSE redeliveries + 1
    /\ session' = session

\* Mutant: an event whose row is there already is taken for processed.
CompleteTopup_answersOnly(t, e) ==
    /\ e \in Stripe!PaidEvents /\ Delivering(t, e)
    /\ IF topup[t].status = "pending_payment" /\ inbox[t]["completed_unpaid"] = "none"
       THEN /\ topup' = [topup EXCEPT ![t].status = "fulfilled", ![t].ref = "session"]
            /\ IssueCard(t)
       ELSE UNCHANGED <<topup, card, balance, ledger>>
    /\ SetEvent(t, e, "succeeded") /\ Answer(t, e)
    /\ UNCHANGED <<spent, tx>>

\* completeStripeCreditTopup, under the top-up's row lock: only a pending
\* top-up is fulfilled, any other status is taken for a replay, and the
\* event succeeds either way.
CompleteTopup(t, e) ==
    /\ e \in Stripe!PaidEvents /\ Delivering(t, e)
    /\ IF topup[t].status = "pending_payment"
       THEN /\ topup' = [topup EXCEPT ![t].status = "fulfilled", ![t].ref = "session"]
            /\ IssueCard(t)
       ELSE UNCHANGED <<topup, card, balance, ledger>>
    /\ SetEvent(t, e, "succeeded") /\ Answer(t, e)
    /\ UNCHANGED <<spent, tx>>

\* recordStripeCreditTopupTerminal, under the same lock: it needs the session
\* to be attached, and fails the event otherwise.
RecordTopupTerminal(t, e) ==
    /\ e \in Stripe!TerminalEvents /\ Delivering(t, e)
    /\ \/ /\ topup[t].ref = "session"
          /\ topup' = [topup EXCEPT ![t].status =
                IF @ # "pending_payment" THEN @
                ELSE IF e = "expired" THEN "expired" ELSE "payment_failed"]
          /\ SetEvent(t, e, "succeeded") /\ Answer(t, e)
       \/ /\ topup[t].ref # "session" /\ inbox[t][e] # "failed"
          /\ SetEvent(t, e, "failed")
          /\ UNCHANGED <<topup, stripeVars>>
    /\ UNCHANGED <<card, balance, ledger, spent, tx>>

\* recordStripeWebhookIgnored
IgnoreUnpaid(t) ==
    /\ "completed_unpaid" \in unacked[t]
    /\ SetEvent(t, "completed_unpaid", "ignored") /\ Answer(t, "completed_unpaid")
    /\ UNCHANGED <<topup, card, balance, ledger, spent, tx>>

----------------------------------------------------------------------------
(* The card and the credit. *)

CardAvailable(t) == card[t].owner # "none" /\ ~card[t].used /\ ~card[t].invalidated

\* Mutant: the card is claimed although it was invalidated.
UseCard_invalidated(t) ==
    /\ card[t].owner # "none" /\ ~card[t].used
    /\ card' = [card EXCEPT ![t].used = TRUE]
    /\ Credit(t, card[t].owner)
    /\ UNCHANGED <<topup, spent, inbox, tx, stripeVars>>

\* useCard for a credit card, under the card's row lock.
UseCard(t) ==
    /\ CardAvailable(t)
    /\ card' = [card EXCEPT ![t].used = TRUE]
    /\ Credit(t, card[t].owner)
    /\ UNCHANGED <<topup, spent, inbox, tx, stripeVars>>

\* sendCard, under the card's row lock.
SendCard(t, u) ==
    /\ CardAvailable(t) /\ card[t].owner # u
    /\ card' = [card EXCEPT ![t].owner = u]
    /\ UNCHANGED <<topup, balance, ledger, spent, inbox, tx, stripeVars>>

\* transferCredit to another user, or another debit of createCreditLedgerEvent
\* (a card bought with credit): under the account's row lock, neither takes
\* the balance below zero.  Metered charges are ProviderInvocation's.
Spend(u) ==
    /\ balance[u] > 0 /\ spent < MaxSpend
    /\ spent' = spent + 1
    /\ \/ balance' = [balance EXCEPT ![u] = @ - 1]
       \/ \E v \in Users \ {u} : balance' = [balance EXCEPT ![u] = @ - 1, ![v] = @ + 1]
    /\ UNCHANGED <<topup, card, ledger, inbox, tx, stripeVars>>

\* reverseCreditTopup, under the top-up's and the card's row lock: a credited
\* legacy top-up needs the balance; the unused card of a Stripe top-up is
\* invalidated; a used one is debited where it was redeemed, below zero if
\* need be.
ReverseTopup(t) ==
    /\ \/ /\ topup[t].status = "credited" /\ balance[ledger[t].account] >= Amount
          /\ Debit(t, ledger[t].account) /\ UNCHANGED card
       \/ /\ topup[t].status = "fulfilled" /\ Mode[t] = "stripe_checkout" /\ ~card[t].used
          /\ card' = [card EXCEPT ![t].invalidated = TRUE]
          /\ UNCHANGED <<balance, ledger>>
       \/ /\ topup[t].status = "fulfilled" /\ Mode[t] = "stripe_checkout" /\ card[t].used
          /\ Debit(t, ledger[t].account) /\ UNCHANGED card
    /\ topup' = [topup EXCEPT ![t].status = "reversed"]
    /\ UNCHANGED <<spent, inbox, tx, stripeVars>>

----------------------------------------------------------------------------
Next ==
    \/ \E p \in Procs : \/ WriteCreate(p) \/ WriteSubmit(p)
                        \/ \E t \in Topups : \/ ReadCreate(p, t)
                                             \/ \E r \in Refs : ReadSubmit(p, t, r)
    \/ \E t \in Topups :
          \/ TimePasses(t) \/ CancelTopup(t) \/ UploadEvidence(t) \/ Approve(t) \/ Reject(t)
          \/ CreateCheckoutSession(t) \/ AttachSession(t) \/ StripeSide(t) \/ IgnoreUnpaid(t)
          \/ \E e \in Stripe!Events : CompleteTopup(t, e) \/ RecordTopupTerminal(t, e)
          \/ UseCard(t) \/ ReverseTopup(t) \/ \E u \in Users : SendCard(t, u)
    \/ \E u \in Users : Spend(u)

Spec == Init /\ [][Next]_vars

\* Stripe delivers a paid event until it is acknowledged.
FairSpec ==
    Spec /\ \A t \in Topups, e \in Stripe!PaidEvents : WF_vars(e \in unacked[t] /\ CompleteTopup(t, e))

----------------------------------------------------------------------------
(* Properties. *)

\* Top-ups, cards and the ledger have the shape of their tables.
TypeOK ==
    /\ \A t \in Topups :
          /\ topup[t].status \in {"none", "credited", "fulfilled"} \union OpenStatus \union ClosedStatus
          /\ topup[t].ref \in Refs \union {"none", "session"}
          /\ card[t].owner \in Users \union {"none"}
          /\ ledger[t].credits \in 0 .. 1 /\ ledger[t].debits \in 0 .. 1
          /\ ledger[t].account \in Users \union {"none"}
    /\ \A u \in Users : balance[u] \in Int

\* What a top-up is worth exists once: as an available card or as credit on
\* one account, exactly while the top-up is fulfilled or credited, and not at
\* all before that, when it was refused or after its reversal - whoever the
\* card was sent to meanwhile, and however often Stripe delivered its event.
\* And a top-up by Stripe is worth nothing before its session was paid.
TopupIsWorthOnce ==
    \A t \in Topups :
        /\ (IF CardAvailable(t) THEN 1 ELSE 0) + ledger[t].credits - ledger[t].debits
           = (IF topup[t].status \in {"fulfilled", "credited"} THEN 1 ELSE 0)
        /\ topup[t].status = "fulfilled" /\ Mode[t] = "stripe_checkout" => session[t] = "paid"

\* A paid top-up does not stay pending: it is fulfilled in the end, unless it
\* was closed before the event arrived.
PaidTopupIsSettled ==
    \A t \in Topups : session[t] = "paid" ~> topup[t].status # "pending_payment"

\* A payment reference belongs to one top-up
\* (the duplicate check of submitCreditTopupPaymentReference).
ReferenceIsUnique ==
    \A s, t \in Topups : (s # t /\ topup[s].ref \in Refs) => topup[s].ref # topup[t].ref

\* A user has at most two open top-ups (the limit of createUserCreditTopup).
AtMostTwoOpen == \A u \in Users : Cardinality(OpenOf(u)) <= MaxOpen
=============================================================================
