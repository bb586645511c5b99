------------------------ MODULE PlanPurchaseProofs ------------------------
(* Plan purchases for any number of orders, users and concurrent requests: *)
(* a payment is answered by one card, which entitles its buyer once.       *)
EXTENDS PlanPurchase, FiniteSetTheorems, TLAPS

Row == [status : OrderStatus, attached : BOOLEAN, url : BOOLEAN, useNow : BOOLEAN,
        card : 0 .. MaxCards]

Card == [order : Orders, plan : Plans, owner : Users, replaces : 0 .. MaxCards,
         used : BOOLEAN, invalidated : BOOLEAN]

Subscription == [state : {"none", "active", "ended", "canceled"},
                 user : Users \union {"none"}, plan : 0 .. 2]

EventStatus == {"none", "failed", "ignored", "succeeded"}

Sessions == {"none", "open", "processing", "paid", "failed", "expired"}

\* What a request has read so far.
Request ==
    {Idle} \union [op : {"session", "attach", "attachWrite"}, o : Orders]
    \union [op : {"creditPurchase"}, o : Orders, useNow : BOOLEAN]
    \union [op : {"use"}, c : 1 .. MaxCards, u : Users]
    \union [op : {"complete", "terminal", "completeWrite"}, o : Orders, e : Stripe!Events,
            prior : EventStatus, status : OrderStatus, attached : BOOLEAN]
    \union [op : {"failure"}, o : Orders, e : Stripe!Events]
    \union [op : {"failureWrite"}, o : Orders, e : Stripe!Events, prior : EventStatus]
    \union [op : {"reverse"}, o : Orders, leaf : 1 .. MaxCards, used : BOOLEAN]

CardTable == NumCards \in 0 .. MaxCards /\ cards \in [1 .. NumCards -> Card]

StripeTables ==
    /\ session \in [Orders -> Sessions]
    /\ unacked \in [Orders -> SUBSET Stripe!Events]
    /\ acked \in [Orders -> SUBSET Stripe!Events]

OtherTables ==
    /\ inbox \in [Orders -> [Stripe!Events -> EventStatus]]
    /\ tx \in [Procs -> Request]
    /\ setup \in Setups

Tables ==
    /\ order \in [Orders -> Row]
    /\ CardTable
    /\ sub \in [1 .. MaxCards -> Subscription]
    /\ credit \in [Users -> 0 .. Funds]
    /\ revenue \in [Orders -> {0, 1}]

Done(o) == order[o].status \in {"fulfilled", "reversed"}

(* An order that is done names its card, the root of its chain; no other   *)
(* order has a card, and every other card replaced an earlier one.         *)
Rooted ==
    /\ \A o \in Orders :
        /\ Done(o) <=> order[o].card # 0
        /\ Done(o) => /\ order[o].card \in DOMAIN cards
                      /\ cards[order[o].card].order = o
                      /\ cards[order[o].card].replaces = 0
    /\ \A c \in DOMAIN cards :
        /\ Done(cards[c].order)
        /\ cards[c].replaces \in 0 .. c - 1
        /\ cards[c].replaces = 0 => order[cards[c].order].card = c

(* The cards of an order that were not replaced are one ...                *)
OneLeaf ==
    \A c, d \in DOMAIN cards :
        cards[c].order = cards[d].order /\ ~Replaced(c) /\ ~Replaced(d) => c = d

(* ... and there is always one, which is what a reversal looks for.        *)
HasLeaf == \A o \in Orders : Done(o) => \E c \in Lineage(o) : ~Replaced(c)

(* A subscription exists exactly for a used card.                          *)
UsedIsSubscribed ==
    /\ \A c \in DOMAIN cards :
        /\ cards[c].used <=> sub[c].state # "none"
        /\ cards[c].used => ~Replaced(c) /\ ~cards[c].invalidated
    /\ \A c \in 1 .. MaxCards : c \notin DOMAIN cards => sub[c].state = "none"

(* Revenue, before anything is counted.                                    *)
UsedIn(o) == \E c \in Lineage(o) : cards[c].used

Earned ==
    \A o \in Orders :
        /\ revenue[o] = 1 => UsedIn(o)
        /\ order[o].status = "fulfilled" /\ UsedIn(o) => revenue[o] = 1

(* The balance orders of a user that are done, each debited once.          *)
Debited(u) == {o \in Balance : Buyer[o] = u /\ order[o].card # 0}

Debits == \A u \in Users : credit[u] = Funds - Cardinality(Debited(u))

(* Stripe announces a payment only of a session that was paid; what the    *)
(* webhook answered or recorded as succeeded is done.                      *)
Payments ==
    \A o \in Orders :
        /\ (unacked[o] \union acked[o]) \intersect Stripe!PaidEvents # {} => session[o] = "paid"
        /\ acked[o] \intersect Stripe!PaidEvents # {} => Done(o)
        /\ \A e \in Stripe!PaidEvents : inbox[o][e] = "succeeded" => Done(o)
        /\ session[o] # "none" => o \notin Balance
        /\ Done(o) /\ o \notin Balance => session[o] = "paid"

(* What a request still knows of the rows it read without a lock: given    *)
(* are the sessions, the orders and the numbers of the cards.              *)
Remembers(t, sessions, orders, numbers) ==
    /\ t.op = "session" => t.o \notin Balance
    /\ t.op = "creditPurchase" => t.o \in Balance
    /\ t.op = "use" => t.c \in numbers
    /\ t.op \in {"complete", "completeWrite"} =>
         /\ t.e \in Stripe!PaidEvents /\ sessions[t.o] = "paid"
         /\ t.prior = "succeeded" \/ AlreadyComplete(t.status)
              => orders[t.o].status \in {"fulfilled", "reversed"}
    /\ t.op = "completeWrite" => t.prior # "succeeded" /\ t.status = "pending_payment"
    /\ t.op = "terminal" => t.e \in Stripe!TerminalEvents
    /\ t.op = "reverse" => orders[t.o].status \in {"fulfilled", "reversed"} /\ t.leaf \in numbers

Knows(t) == Remembers(t, session, order, DOMAIN cards)

Snapshots == \A p \in Procs : Knows(tx[p])

Entitlements ==
    Tables /\ Rooted /\ OneLeaf /\ HasLeaf /\ UsedIsSubscribed /\ Earned /\ Debits

IInv == Entitlements /\ StripeTables /\ OtherTables /\ Payments /\ Snapshots

----------------------------------------------------------------------------
(* Cards are numbered.                                                     *)
LEMMA Numbered ==
  ASSUME CardTable
  PROVE  /\ NumCards \in Nat /\ DOMAIN cards = 1 .. NumCards
         /\ \A c \in DOMAIN cards : cards[c] \in Card /\ c \in 1 .. MaxCards
BY PlanPurchaseAssumption DEF CardTable

(* A table of m cards has that many.                                       *)
LEMMA Renumbered ==
  ASSUME NEW m \in 0 .. MaxCards, cards' \in [1 .. m -> Card]
  PROVE  CardTable' /\ NumCards' = m /\ DOMAIN cards' = 1 .. m
<1>1. m \in Nat /\ Cardinality(1 .. m) = m
  BY FS_Interval, PlanPurchaseAssumption
<1>2. DOMAIN cards' = 1 .. m
  OBVIOUS
<1> QED BY <1>1, <1>2 DEF CardTable, NumCards

(* Whatever changes of the orders, a step that leaves cards and accounts   *)
(* alone, and which orders are done, keeps all entitlements.               *)
Calm ==
  /\ order' \in [Orders -> Row]
  /\ UNCHANGED <<cards, sub, credit, revenue>>
  /\ \A o \in Orders :
       /\ order'[o].card = order[o].card
       /\ Done(o)' <=> Done(o)
       /\ order'[o].status = "fulfilled" => order[o].status = "fulfilled"

LEMMA CalmKeeps ==
  ASSUME Entitlements, Calm
  PROVE  Entitlements'
<1> USE DEF Entitlements, Calm
<1>1. cards' = cards /\ sub' = sub /\ credit' = credit /\ revenue' = revenue /\ NumCards' = NumCards
      /\ \A c : Replaced(c)' = Replaced(c)
  BY DEF NumCards, Replaced
<1>2. DOMAIN cards = 1 .. NumCards /\ \A c \in DOMAIN cards : cards[c] \in Card
  BY Numbered DEF Tables
<1>3. Tables'
  BY <1>1 DEF Tables, CardTable
<1>4. \A o : Lineage(o)' = Lineage(o)
  BY <1>1 DEF Lineage
<1>5. Rooted'
  BY <1>1, <1>2 DEF Rooted, Card
<1>6. OneLeaf'
  BY <1>1 DEF OneLeaf
<1>7. HasLeaf'
  BY <1>1, <1>4 DEF HasLeaf
<1>8. UsedIsSubscribed'
  BY <1>1 DEF UsedIsSubscribed
<1>9. Earned'
  BY <1>1, <1>4 DEF Earned, UsedIn
<1>10. Debits'
  <2>1. \A u : Debited(u)' = Debited(u)
    BY PlanPurchaseAssumption DEF Debited
  <2> QED BY <1>1, <2>1 DEF Debits
<1> QED BY <1>3, <1>5, <1>6, <1>7, <1>8, <1>9, <1>10

(* Placing and closing an order that nobody has paid for.                  *)
LEMMA StatusCalm ==
  ASSUME order \in [Orders -> Row], UNCHANGED <<cards, sub, credit, revenue>>,
         NEW o \in Orders, ~Done(o), NEW now \in BOOLEAN,
         NEW s \in OrderStatus \ {"fulfilled", "reversed"},
         order' = [order EXCEPT ![o].status = s, ![o].useNow = now]
  PROVE  Calm
<1> DEFINE y == [order[o] EXCEPT !.status = s, !.useNow = now]
<1>1. y \in Row /\ y.card = order[o].card /\ y.status = s
  BY DEF Row
<1>2. order' = [order EXCEPT ![o] = y]
  BY DEF Row
<1> HIDE DEF y
<1> QED BY <1>1, <1>2 DEF Calm, Done

LEMMA CancelCalm ==
  ASSUME Entitlements, NEW o \in Orders, Cancel(o)
  PROVE  Calm
<1> DEFINE y == [order[o] EXCEPT !.status = "cancelled"]
<1>1. order \in [Orders -> Row] /\ ~Done(o) /\ UNCHANGED <<cards, sub, credit, revenue>>
  BY DEF Cancel, Entitlements, Tables, Done
<1>2. y \in Row /\ y.status = "cancelled" /\ y.card = order[o].card
  BY <1>1 DEF Row, OrderStatus
<1>3. order' = [order EXCEPT ![o] = y]
  BY <1>1 DEF Cancel, Row
<1> HIDE DEF y
<1> QED BY <1>1, <1>2, <1>3 DEF Calm, Done

LEMMA CalmOrders ==
  ASSUME Entitlements, setup \in Setups, NEW p \in Procs, NEW o \in Orders, tx[p] \in Request,
         tx[p].op = "terminal" => tx[p].e \in Stripe!TerminalEvents,
         StartCheckout(p, o) \/ WriteAttach(p) \/ RecordTerminal(p)
  PROVE  Calm
<1>0. order \in [Orders -> Row] /\ setup.useNow \subseteq BOOLEAN
  BY PlanPurchaseAssumption DEF Entitlements, Tables, Setup
<1>1. order' = order /\ UNCHANGED <<cards, sub, credit, revenue>> => Calm
  BY <1>0 DEF Calm, Done
<1>2. ASSUME StartCheckout(p, o) PROVE Calm
  <2>1. UNCHANGED <<cards, sub, credit, revenue>>
    BY <1>2 DEF StartCheckout
  <2>2. CASE order' = order
    BY <2>1, <2>2, <1>1
  <2>3. ASSUME NEW now \in setup.useNow, order[o].status = "none",
               order' = [order EXCEPT ![o].status = "pending_payment", ![o].useNow = now]
        PROVE  Calm
    <3>1. ~Done(o) /\ "pending_payment" \in OrderStatus \ {"fulfilled", "reversed"} /\ now \in BOOLEAN
      BY <1>0, <2>3 DEF Done, OrderStatus
    <3> QED BY <1>0, <2>1, <2>3, <3>1, StatusCalm
  <2> QED BY <1>2, <2>2, <2>3 DEF StartCheckout
<1>3. ASSUME WriteAttach(p) PROVE Calm
  <2> DEFINE a == tx[p].o
             y == [order[a] EXCEPT !.attached = TRUE, !.url = TRUE]
  <2>1. a \in Orders
    BY <1>3 DEF WriteAttach, Request, Idle
  <2>2. y \in Row /\ y.status = order[a].status /\ y.card = order[a].card
    BY <1>0, <2>1 DEF Row
  <2>3. order' = [order EXCEPT ![a] = y] /\ UNCHANGED <<cards, sub, credit, revenue>>
    BY <1>0, <1>3, <2>1 DEF WriteAttach, Row
  <2> HIDE DEF y, a
  <2> QED BY <1>0, <2>1, <2>2, <2>3 DEF Calm, Done
<1>4. ASSUME NEW a \in Orders, ~Done(a), NEW s \in OrderStatus \ {"fulfilled", "reversed"},
             order' = [order EXCEPT ![a].status = s], UNCHANGED <<cards, sub, credit, revenue>>
      PROVE  Calm
  <2> DEFINE y == [order[a] EXCEPT !.status = s]
  <2>1. y \in Row /\ y.status = s /\ y.card = order[a].card
    BY <1>0, <1>4 DEF Row
  <2>2. order' = [order EXCEPT ![a] = y]
    BY <1>0, <1>4 DEF Row
  <2> HIDE DEF y
  <2> QED BY <1>0, <1>4, <2>1, <2>2 DEF Calm, Done
<1>6. ASSUME RecordTerminal(p) PROVE Calm
  <2> DEFINE a == tx[p].o
             s == TerminalStatus(tx[p].e)
  <2>1. a \in Orders /\ s \in {"expired", "payment_failed"}
    BY <1>6 DEF RecordTerminal, Request, Idle, TerminalStatus
  <2>2. UNCHANGED <<cards, sub, credit, revenue>>
    BY <1>6 DEF RecordTerminal
  <2>3. CASE order' = order
    BY <1>1, <2>2, <2>3
  <2>4. CASE tx[p].status = "pending_payment" /\ StatusMayBecome(order[a].status, s)
             /\ order' = [order EXCEPT ![a].status = s]
    <3>1. ~Done(a) /\ s \in OrderStatus \ {"fulfilled", "reversed"}
      BY <2>1, <2>4 DEF Done, OrderStatus, StatusMayBecome
    <3> HIDE DEF s, a
    <3> QED BY <1>4, <2>1, <2>2, <2>4, <3>1
  <2>5. CASE tx[p].status # "pending_payment" /\ order' = [order EXCEPT ![a].status = @]
    <3>1. order' = order
      BY <1>0, <2>1, <2>5 DEF Row
    <3> QED BY <3>1, <2>3
  <2> QED BY <1>6, <2>3, <2>4, <2>5 DEF RecordTerminal
<1> QED BY <1>2, <1>3, <1>6

(* Steps that touch none of the tables of entitlements.                    *)
LEMMA Untouched ==
  ASSUME Entitlements, UNCHANGED <<order, cards, sub, credit, revenue>>
  PROVE  Calm
BY DEF Calm, Done, Entitlements, Tables

----------------------------------------------------------------------------
(* Writing one card that is there: its order and the card it replaces stay. *)
LEMMA OneCard ==
  ASSUME Tables, NEW c \in DOMAIN cards, NEW y \in Card, cards' = [cards EXCEPT ![c] = y],
         y.order = cards[c].order, y.replaces = cards[c].replaces
  PROVE  /\ CardTable' /\ NumCards' = NumCards /\ DOMAIN cards' = DOMAIN cards
         /\ \A d \in DOMAIN cards : /\ cards'[d].order = cards[d].order
                                    /\ cards'[d].replaces = cards[d].replaces
                                    /\ d # c => cards'[d] = cards[d]
         /\ cards'[c] = y
         /\ \A d : Replaced(d)' <=> Replaced(d)
         /\ \A o : Lineage(o)' = Lineage(o)
<1>1. NumCards \in 0 .. MaxCards /\ cards \in [1 .. NumCards -> Card]
  BY DEF Tables, CardTable
<1>2. DOMAIN cards' = DOMAIN cards /\ cards' \in [1 .. NumCards -> Card]
  BY <1>1
<1>3. CardTable' /\ NumCards' = NumCards
  BY <1>1, <1>2, Renumbered
<1>4. \A d \in DOMAIN cards : /\ cards'[d].order = cards[d].order
                              /\ cards'[d].replaces = cards[d].replaces
                              /\ d # c => cards'[d] = cards[d]
  BY <1>1
<1>5. cards'[c] = y
  BY <1>1
<1>6. \A d : Replaced(d)' <=> Replaced(d)
  BY <1>2, <1>4 DEF Replaced
<1>7. \A o : Lineage(o)' = Lineage(o)
  BY <1>2, <1>4 DEF Lineage
<1> QED BY <1>2, <1>3, <1>4, <1>5, <1>6, <1>7

(* With the orders as they are, the chains are then as they were.          *)
LEMMA OneCardKeeps ==
  ASSUME Entitlements, NEW c \in DOMAIN cards, NEW y \in Card, cards' = [cards EXCEPT ![c] = y],
         y.order = cards[c].order, y.replaces = cards[c].replaces,
         \A o \in Orders : order'[o].card = order[o].card /\ (Done(o)' <=> Done(o))
  PROVE  Rooted' /\ OneLeaf' /\ HasLeaf' /\ CardTable'
<1>1. Tables /\ Rooted /\ OneLeaf /\ HasLeaf
  BY DEF Entitlements
<1>2. \A d \in DOMAIN cards : cards[d] \in Card
  BY <1>1, Numbered DEF Tables
<1>3. /\ CardTable' /\ DOMAIN cards' = DOMAIN cards
      /\ \A d \in DOMAIN cards : /\ cards'[d].order = cards[d].order
                                 /\ cards'[d].replaces = cards[d].replaces
      /\ \A d : Replaced(d)' <=> Replaced(d)
      /\ \A o : Lineage(o)' = Lineage(o)
  BY <1>1, OneCard
<1>4. Rooted'
  BY <1>1, <1>2, <1>3 DEF Rooted, Card, Done
<1>5. OneLeaf'
  BY <1>1, <1>3 DEF OneLeaf
<1>6. HasLeaf'
  BY <1>1, <1>3 DEF HasLeaf
<1> QED BY <1>3, <1>4, <1>5, <1>6

(* A subscription that is there may end, none may appear.                  *)
LEMMA SubscriptionKeeps ==
  ASSUME Entitlements, UNCHANGED <<order, cards, credit, revenue>>,
         sub' \in [1 .. MaxCards -> Subscription],
         \A c \in 1 .. MaxCards : sub'[c].state = "none" <=> sub[c].state = "none"
  PROVE  Entitlements'
<1>1. /\ NumCards' = NumCards /\ \A c : Replaced(c)' <=> Replaced(c)
      /\ \A o : Lineage(o)' = Lineage(o)
      /\ \A o : Done(o)' <=> Done(o)
  BY DEF NumCards, Replaced, Lineage, Done
<1>2. \A c \in DOMAIN cards : c \in 1 .. MaxCards
  BY Numbered DEF Entitlements, Tables
<1>3. Tables'
  BY <1>1 DEF Entitlements, Tables, CardTable
<1>4. Rooted' /\ OneLeaf'
  BY <1>1 DEF Entitlements, Rooted, OneLeaf, Done, Replaced
<1>5. HasLeaf'
  BY <1>1 DEF Entitlements, HasLeaf
<1>6. UsedIsSubscribed'
  BY <1>1, <1>2 DEF Entitlements, UsedIsSubscribed
<1>7. Earned'
  BY <1>1 DEF Entitlements, Earned, UsedIn
<1>8. Debits'
  BY DEF Entitlements, Debits, Debited
<1> QED BY <1>3, <1>4, <1>5, <1>6, <1>7, <1>8 DEF Entitlements

LEMMA SubscriptionActions ==
  ASSUME Entitlements, NEW c \in 1 .. MaxCards, SubscriptionEnds(c) \/ CancelPlanSubscription(c)
  PROVE  Entitlements'
<1>1. PICK s \in {"ended", "canceled"} :
        sub[c].state = "active" /\ sub' = [sub EXCEPT ![c].state = s]
  BY DEF SubscriptionEnds, CancelPlanSubscription
<1> DEFINE y == [sub[c] EXCEPT !.state = s]
<1>2. sub \in [1 .. MaxCards -> Subscription]
  BY DEF Entitlements, Tables
<1>3. y \in Subscription /\ y.state = s
  BY <1>2 DEF Subscription
<1>4. sub' = [sub EXCEPT ![c] = y]
  BY <1>1, <1>2 DEF Subscription
<1> HIDE DEF y
<1>5. /\ sub' \in [1 .. MaxCards -> Subscription]
      /\ \A d \in 1 .. MaxCards : sub'[d].state = "none" <=> sub[d].state = "none"
  BY <1>1, <1>2, <1>3, <1>4
<1>6. UNCHANGED <<order, cards, credit, revenue>>
  BY DEF SubscriptionEnds, CancelPlanSubscription
<1> QED BY <1>5, <1>6, SubscriptionKeeps

LEMMA SendKeeps ==
  ASSUME Entitlements, NEW c \in 1 .. MaxCards, NEW u \in Users, SendCard(c, u)
  PROVE  Entitlements'
<1> DEFINE y == [cards[c] EXCEPT !.owner = u]
<1>1. c \in DOMAIN cards /\ UNCHANGED <<order, sub, credit, revenue>>
      /\ cards' = [cards EXCEPT ![c].owner = u]
  BY DEF SendCard
<1>2. Tables /\ \A d \in DOMAIN cards : cards[d] \in Card
  BY Numbered DEF Entitlements, Tables
<1>3. /\ y \in Card /\ y.order = cards[c].order /\ y.replaces = cards[c].replaces
      /\ y.used = cards[c].used /\ y.invalidated = cards[c].invalidated
  BY <1>1, <1>2 DEF Card
<1>4. cards' = [cards EXCEPT ![c] = y]
  BY <1>1, <1>2, Numbered DEF Tables, CardTable, Card
<1> HIDE DEF y
<1>5. /\ DOMAIN cards' = DOMAIN cards /\ \A d : Replaced(d)' <=> Replaced(d)
      /\ \A d \in DOMAIN cards : cards'[d].used = cards[d].used
                                 /\ cards'[d].invalidated = cards[d].invalidated
      /\ \A o : Lineage(o)' = Lineage(o)
  BY <1>1, <1>2, <1>3, <1>4, OneCard
<1>6. \A o : order'[o].card = order[o].card /\ (Done(o)' <=> Done(o))
  BY <1>1 DEF Done
<1>7. Rooted' /\ OneLeaf' /\ HasLeaf' /\ CardTable'
  BY <1>1, <1>3, <1>4, <1>6, OneCardKeeps
<1>8. Tables'
  BY <1>1, <1>7 DEF Entitlements, Tables
<1>9. UsedIsSubscribed'
  BY <1>1, <1>5 DEF Entitlements, UsedIsSubscribed
<1>10. \A o : UsedIn(o)' <=> UsedIn(o)
  BY <1>5 DEF UsedIn, Lineage
<1>11. Earned'
  BY <1>1, <1>10 DEF Entitlements, Earned
<1>12. Debits'
  BY <1>1 DEF Entitlements, Debits, Debited
<1> QED BY <1>7, <1>8, <1>9, <1>11, <1>12 DEF Entitlements

(* A card that is available is the one leaf of its order, so no card of    *)
(* the order was used before it.                                           *)
LEMMA AvailableIsUnused ==
  ASSUME Entitlements, NEW c \in DOMAIN cards, Available(c)
  PROVE  /\ cards[c].order \in Orders /\ Done(cards[c].order)
         /\ ~UsedIn(cards[c].order) /\ revenue[cards[c].order] = 0
<1> DEFINE o == cards[c].order
<1>1. o \in Orders /\ Done(o)
  BY Numbered DEF Entitlements, Tables, Rooted, Card
<1>2. ASSUME NEW d \in Lineage(o), cards[d].used PROVE FALSE
  <2>1. d \in DOMAIN cards /\ cards[d].order = cards[c].order /\ ~Replaced(d)
    BY <1>2 DEF Lineage, Entitlements, UsedIsSubscribed
  <2>2. d = c
    BY <2>1 DEF Entitlements, OneLeaf, Available
  <2> QED BY <1>2, <2>2 DEF Available
<1>3. ~UsedIn(o)
  BY <1>2 DEF UsedIn
<1>4. revenue[o] = 0
  BY <1>1, <1>3 DEF Entitlements, Earned, Tables
<1> QED BY <1>1, <1>3, <1>4

LEMMA UseKeeps ==
  ASSUME Entitlements, NEW p \in Procs, WriteUse(p), tx[p] \in Request, tx[p].c \in DOMAIN cards
  PROVE  Entitlements'
<1> DEFINE c == tx[p].c
           o == cards[c].order
           y == [cards[c] EXCEPT !.used = TRUE]
           z == [state |-> "active", user |-> tx[p].u, plan |-> cards[c].plan]
<1>1. UNCHANGED <<order, credit>> /\ tx[p].u \in Users
  BY DEF WriteUse, Request, Idle
<1>2. Tables /\ (\A d \in DOMAIN cards : cards[d] \in Card) /\ c \in 1 .. MaxCards /\ c \in DOMAIN cards
  BY Numbered DEF Entitlements, Tables
<1>3. CASE UNCHANGED <<cards, sub, revenue>>
  BY <1>1, <1>3, Untouched, CalmKeeps
<1>4. ASSUME Available(c),
             cards' = [cards EXCEPT ![c].used = TRUE], sub' = [sub EXCEPT ![c] = z],
             revenue' = [revenue EXCEPT ![o] = IF order[o].status = "fulfilled" THEN @ + 1 ELSE @]
      PROVE  Entitlements'
  <2>0. o \in Orders /\ Done(o) /\ ~UsedIn(o) /\ revenue[o] = 0
    BY <1>2, <1>4, AvailableIsUnused
  <2>1. /\ y \in Card /\ y.order = cards[c].order /\ y.replaces = cards[c].replaces
        /\ y.used /\ y.invalidated = cards[c].invalidated
    BY <1>2 DEF Card
  <2>2. cards' = [cards EXCEPT ![c] = y]
    BY <1>2, <1>4 DEF Tables, CardTable, Card
  <2>3. z \in Subscription /\ z.state = "active"
    BY <1>1, <1>2 DEF Subscription, Card, Plans
  <2> HIDE DEF y, z
  <2>4. /\ DOMAIN cards' = DOMAIN cards /\ \A d : Replaced(d)' <=> Replaced(d)
        /\ \A d \in DOMAIN cards : d # c => cards'[d] = cards[d]
        /\ cards'[c] = y /\ \A a : Lineage(a)' = Lineage(a)
    BY <1>2, <2>1, <2>2, OneCard
  <2>5. \A a : order'[a].card = order[a].card /\ (Done(a)' <=> Done(a))
    BY <1>1 DEF Done
  <2>6. Rooted' /\ OneLeaf' /\ HasLeaf' /\ CardTable'
    BY <1>2, <2>1, <2>2, <2>5, OneCardKeeps
  <2>7. revenue' = [revenue EXCEPT ![o] = IF order[o].status = "fulfilled" THEN 1 ELSE 0]
    BY <1>4, <2>0
  <2>8. Tables'
    BY <1>1, <1>2, <1>4, <2>3, <2>6, <2>7 DEF Tables
  <2>9. UsedIsSubscribed'
    BY <1>2, <1>4, <2>1, <2>3, <2>4 DEF Entitlements, UsedIsSubscribed, Available, Tables
  <2>10. \A a \in Orders : UsedIn(a)' <=> (UsedIn(a) \/ a = o)
    BY <1>2, <2>1, <2>4 DEF UsedIn, Lineage
  <2>11. Earned'
    BY <1>1, <1>2, <2>0, <2>7, <2>10 DEF Entitlements, Earned, Tables
  <2>12. Debits'
    BY <1>1 DEF Entitlements, Debits, Debited
  <2> QED BY <2>6, <2>8, <2>9, <2>11, <2>12 DEF Entitlements
<1> QED BY <1>3, <1>4 DEF WriteUse

(* Reversing: the leaf that was read loses its value unless it was used.   *)
LEMMA ReverseKeeps ==
  ASSUME Entitlements, NEW p \in Procs, WriteReverse(p), tx[p] \in Request, Knows(tx[p])
  PROVE  Entitlements' /\ (\A o \in Orders : Done(o)' <=> Done(o)) /\ DOMAIN cards' = DOMAIN cards
<1> DEFINE c == tx[p].leaf
           a == tx[p].o
           v == cards[c].invalidated \/ (~tx[p].used /\ ~cards[c].used)
           s == IF tx[p].used /\ sub[c].state = "active" THEN "canceled" ELSE sub[c].state
           y == [cards[c] EXCEPT !.invalidated = v]
           z == [sub[c] EXCEPT !.state = s]
           w == [order[a] EXCEPT !.status = "reversed"]
<1>1. UNCHANGED <<revenue, credit>> /\ a \in Orders /\ c \in DOMAIN cards /\ Done(a)
  BY DEF WriteReverse, Request, Idle, Knows, Remembers, Done
<1>2. Tables /\ (\A d \in DOMAIN cards : cards[d] \in Card) /\ c \in 1 .. MaxCards
  BY <1>1, Numbered DEF Entitlements, Tables
<1>3. v \in BOOLEAN /\ (v => cards[c].invalidated \/ ~cards[c].used)
  OBVIOUS
<1>4. cards' = [cards EXCEPT ![c].invalidated = v]
  BY DEF WriteReverse
<1>5. s \in {"none", "active", "ended", "canceled"} /\ (s = "none" <=> sub[c].state = "none")
  BY <1>2 DEF Tables, Subscription
<1>6. sub' = [sub EXCEPT ![c].state = s]
  BY DEF WriteReverse
<1> HIDE DEF v, s
<1>7. /\ y \in Card /\ y.order = cards[c].order /\ y.replaces = cards[c].replaces
      /\ y.used = cards[c].used /\ y.invalidated = v /\ cards' = [cards EXCEPT ![c] = y]
  BY <1>1, <1>2, <1>3, <1>4 DEF Card
<1>8. z \in Subscription /\ z.state = s /\ sub' = [sub EXCEPT ![c] = z]
  BY <1>2, <1>5, <1>6 DEF Tables, Subscription
<1>9. w \in Row /\ w.card = order[a].card /\ w.status = "reversed" /\ order' = [order EXCEPT ![a] = w]
  BY <1>1, <1>2 DEF WriteReverse, Tables, Row, OrderStatus
<1> HIDE DEF y, z, w
<1>10. \A o \in Orders : /\ order'[o].card = order[o].card /\ (Done(o)' <=> Done(o))
                         /\ order'[o].status = "fulfilled" => order[o].status = "fulfilled"
  BY <1>1, <1>2, <1>9 DEF Tables, Done
<1>11. /\ DOMAIN cards' = DOMAIN cards /\ \A d : Replaced(d)' <=> Replaced(d)
       /\ \A d \in DOMAIN cards : d # c => cards'[d] = cards[d]
       /\ cards'[c] = y /\ \A o : Lineage(o)' = Lineage(o)
  BY <1>1, <1>2, <1>7, OneCard
<1>12. Rooted' /\ OneLeaf' /\ HasLeaf' /\ CardTable'
  BY <1>1, <1>7, <1>10, OneCardKeeps
<1>13. Tables'
  BY <1>1, <1>2, <1>8, <1>9, <1>12 DEF Tables
<1>14. UsedIsSubscribed'
  <2>1. /\ sub'[c].state = "none" <=> sub[c].state = "none"
        /\ \A d \in 1 .. MaxCards : d # c => sub'[d] = sub[d]
    BY <1>2, <1>5, <1>8 DEF Tables
  <2>2. \A d \in DOMAIN cards : cards'[d].used = cards[d].used
    BY <1>7, <1>11
  <2>3. \A d \in DOMAIN cards : cards[d].used /\ cards'[d].invalidated => cards[d].invalidated
    BY <1>3, <1>7, <1>11
  <2>4. \A d \in DOMAIN cards : d \in 1 .. MaxCards
    BY <1>2, Numbered DEF Tables
  <2> QED BY <1>11, <2>1, <2>2, <2>3, <2>4 DEF Entitlements, UsedIsSubscribed
<1>15. \A o : UsedIn(o)' <=> UsedIn(o)
  BY <1>7, <1>11 DEF UsedIn, Lineage
<1>16. Earned'
  BY <1>1, <1>10, <1>15 DEF Entitlements, Earned
<1>17. Debits'
  <2>1. \A u : Debited(u)' = Debited(u)
    BY <1>10, PlanPurchaseAssumption DEF Debited
  <2> QED BY <1>1, <2>1 DEF Entitlements, Debits
<1> QED BY <1>10, <1>11, <1>12, <1>13, <1>14, <1>16, <1>17 DEF Entitlements

(* Fulfilling an order that is not done: one more card, the root of a new  *)
(* chain, used at once or not.                                             *)
Issued(o, now, c) ==
  /\ c \in 1 .. MaxCards /\ c = NumCards + 1 /\ NumCards' = c /\ CardTable'
  /\ DOMAIN cards' = DOMAIN cards \union {c} /\ c \notin DOMAIN cards
  /\ \A d \in DOMAIN cards : cards'[d] = cards[d]
  /\ cards'[c] = NewCard(o, 1, Buyer[o], 0, now) /\ NewCard(o, 1, Buyer[o], 0, now) \in Card
  /\ order' \in [Orders -> Row] /\ order'[o].status = "fulfilled" /\ order'[o].card = c
  /\ \A a \in Orders : a # o => order'[a] = order[a]
  /\ sub' \in [1 .. MaxCards -> Subscription]
  /\ \A d \in 1 .. MaxCards : d # c => sub'[d] = sub[d]
  /\ sub'[c].state # "none" <=> now
  /\ revenue' \in [Orders -> {0, 1}] /\ revenue[o] = 0
  /\ \A a \in Orders : a # o => revenue'[a] = revenue[a]
  /\ revenue'[o] = 1 <=> now

LEMMA FulfilEffect ==
  ASSUME Entitlements, NEW o \in Orders, ~Done(o), NEW now \in BOOLEAN, Fulfil(o, now)
  PROVE  \E c : Issued(o, now, c)
<1> DEFINE c == NumCards + 1
           x == NewCard(o, 1, Buyer[o], 0, now)
           y == [order[o] EXCEPT !.status = "fulfilled", !.card = c, !.useNow = now]
           z == [state |-> "active", user |-> Buyer[o], plan |-> 1]
<1>1. /\ Tables /\ NumCards \in Nat /\ DOMAIN cards = 1 .. NumCards /\ cards \in [1 .. NumCards -> Card]
      /\ MaxCards \in Nat /\ Buyer[o] \in Users
  BY Numbered, PlanPurchaseAssumption DEF Entitlements, Tables, CardTable
<1>2. c \in 1 .. MaxCards /\ c \notin DOMAIN cards /\ 1 .. c = DOMAIN cards \union {c}
  BY <1>1 DEF Fulfil
<1>3. x \in Card
  BY <1>1 DEF NewCard, Card, Plans
<1>4. cards' = [d \in DOMAIN cards \union {c} |-> IF d = c THEN x ELSE cards[d]]
  BY DEF Fulfil
<1> HIDE DEF c
<1>5. y \in Row /\ y.status = "fulfilled" /\ y.card = c
  <2>1. order[o] \in Row /\ c \in 0 .. MaxCards /\ "fulfilled" \in OrderStatus
    BY <1>1, <1>2 DEF Tables, OrderStatus
  <2> QED BY <2>1 DEF Row
<1>6. order' = [order EXCEPT ![o] = y]
  BY <1>1 DEF Fulfil, Tables, Row, c
<1>7. z \in Subscription /\ z.state = "active"
  BY <1>1 DEF Subscription
<1>8. sub' = IF now THEN [sub EXCEPT ![c] = z] ELSE sub
  BY DEF Fulfil, c
<1>9. sub[c].state = "none"
  BY <1>2 DEF Entitlements, UsedIsSubscribed
<1>10. revenue[o] = 0
  BY <1>1 DEF Entitlements, Tables, Earned, Rooted, UsedIn, Lineage
<1>11. revenue' = [revenue EXCEPT ![o] = IF now THEN 1 ELSE 0]
  BY <1>1, <1>10 DEF Fulfil, Tables
<1> HIDE DEF x, y, z
<1>12. cards' \in [1 .. c -> Card] /\ cards'[c] = x /\ \A d \in DOMAIN cards : cards'[d] = cards[d]
  BY <1>1, <1>2, <1>3, <1>4
<1>13. CardTable' /\ NumCards' = c /\ DOMAIN cards' = 1 .. c
  BY <1>1, <1>2, <1>12, Renumbered
<1>14. /\ order' \in [Orders -> Row] /\ order'[o].status = "fulfilled" /\ order'[o].card = c
       /\ \A a \in Orders : a # o => order'[a] = order[a]
  BY <1>1, <1>5, <1>6 DEF Tables
<1>15. /\ sub' \in [1 .. MaxCards -> Subscription]
       /\ \A d \in 1 .. MaxCards : d # c => sub'[d] = sub[d]
       /\ sub'[c].state # "none" <=> now
  BY <1>1, <1>2, <1>7, <1>8, <1>9 DEF Tables
<1>16. /\ revenue' \in [Orders -> {0, 1}]
       /\ \A a \in Orders : a # o => revenue'[a] = revenue[a]
       /\ revenue'[o] = 1 <=> now
  BY <1>1, <1>11 DEF Tables
<1>17. c = NumCards + 1
  BY DEF c
<1>18. /\ cards'[c] = NewCard(o, 1, Buyer[o], 0, now) /\ NewCard(o, 1, Buyer[o], 0, now) \in Card
       /\ DOMAIN cards' = DOMAIN cards \union {c} /\ \A d \in DOMAIN cards : cards'[d] = cards[d]
  BY <1>2, <1>3, <1>12, <1>13 DEF x
<1>19. Issued(o, now, c)
  BY <1>2, <1>10, <1>13, <1>14, <1>15, <1>16, <1>17, <1>18 DEF Issued
<1> QED BY <1>19

LEMMA FulfilKeeps ==
  ASSUME Entitlements, NEW o \in Orders, ~Done(o), NEW now \in BOOLEAN, Fulfil(o, now)
  PROVE  /\ Rooted' /\ OneLeaf' /\ HasLeaf' /\ UsedIsSubscribed' /\ Earned'
         /\ credit' \in [Users -> 0 .. Funds] => Tables'
         /\ Done(o)' /\ \A a \in Orders : a # o => (Done(a)' <=> Done(a))
         /\ DOMAIN cards \subseteq DOMAIN cards'
<1>0. PICK c : Issued(o, now, c)
  BY FulfilEffect
<1>1. /\ c \in 1 .. MaxCards /\ c = NumCards + 1 /\ CardTable'
      /\ DOMAIN cards' = DOMAIN cards \union {c} /\ c \notin DOMAIN cards
      /\ \A d \in DOMAIN cards : cards'[d] = cards[d]
      /\ cards'[c] = NewCard(o, 1, Buyer[o], 0, now) /\ NewCard(o, 1, Buyer[o], 0, now) \in Card
      /\ order' \in [Orders -> Row] /\ order'[o].status = "fulfilled" /\ order'[o].card = c
      /\ \A a \in Orders : a # o => order'[a] = order[a]
      /\ sub' \in [1 .. MaxCards -> Subscription]
      /\ \A d \in 1 .. MaxCards : d # c => sub'[d] = sub[d]
      /\ sub'[c].state # "none" <=> now
      /\ revenue' \in [Orders -> {0, 1}] /\ revenue[o] = 0
      /\ \A a \in Orders : a # o => revenue'[a] = revenue[a]
      /\ revenue'[o] = 1 <=> now
  BY <1>0 DEF Issued
<1>2. PICK x \in Card : /\ x = cards'[c] /\ x.order = o /\ x.replaces = 0
                        /\ x.used <=> now
                        /\ ~x.invalidated
  BY <1>1 DEF NewCard
<1>7. /\ Tables /\ c # 0 /\ NumCards \in Nat /\ DOMAIN cards = 1 .. NumCards
      /\ \A d \in DOMAIN cards : cards[d] \in Card
  BY <1>1, Numbered DEF Entitlements, Tables
<1>8. Done(o)' /\ \A a \in Orders : a # o => (Done(a)' <=> Done(a))
  BY <1>1 DEF Done
<1>9. \A d \in DOMAIN cards : d # c /\ cards[d].order \in Orders \ {o} /\ cards[d].replaces # c
  BY <1>1, <1>7 DEF Entitlements, Rooted, Card
<1>10. \A d : Replaced(d)' <=> Replaced(d) \/ d = 0
  BY <1>1, <1>2 DEF Replaced
<1>11. ~Replaced(c)
  BY <1>9 DEF Replaced
<1>12. \A a \in Orders : Lineage(a)' = IF a = o THEN {c} ELSE Lineage(a)
  BY <1>1, <1>2, <1>9 DEF Lineage
<1>13. Rooted'
  BY <1>1, <1>2, <1>7, <1>8, <1>9 DEF Entitlements, Rooted, Done
<1>14. OneLeaf'
  BY <1>1, <1>2, <1>9, <1>10, <1>7 DEF Entitlements, OneLeaf
<1>15. HasLeaf'
  BY <1>7, <1>8, <1>10, <1>11, <1>12, <1>1 DEF Entitlements, HasLeaf, Lineage
<1>16. UsedIsSubscribed'
  <2>1. \A d \in DOMAIN cards : d \in 1 .. MaxCards /\ d # 0
    BY <1>7, Numbered DEF Tables
  <2>2. ASSUME NEW d \in DOMAIN cards
        PROVE  /\ cards'[d].used <=> sub'[d].state # "none"
               /\ cards'[d].used => ~Replaced(d)' /\ ~cards'[d].invalidated
    BY <1>1, <1>9, <1>10, <2>1, <2>2 DEF Entitlements, UsedIsSubscribed
  <2>3. /\ cards'[c].used <=> sub'[c].state # "none"
        /\ ~Replaced(c)' /\ ~cards'[c].invalidated
    BY <1>1, <1>2, <1>7, <1>10, <1>11
  <2>4. \A d \in 1 .. MaxCards : d \notin DOMAIN cards' => sub'[d].state = "none"
    BY <1>1 DEF Entitlements, UsedIsSubscribed
  <2> QED BY <1>1, <2>2, <2>3, <2>4 DEF UsedIsSubscribed
<1>17. /\ UsedIn(o)' <=> now
       /\ \A a \in Orders : a # o => (UsedIn(a)' <=> UsedIn(a))
  BY <1>1, <1>2, <1>12 DEF UsedIn, Lineage
<1>18. Earned'
  BY <1>1, <1>17 DEF Entitlements, Earned
<1> QED BY <1>1, <1>8, <1>13, <1>14, <1>15, <1>16, <1>18 DEF Tables

----------------------------------------------------------------------------
(* Replacing: the available cards of the closed plan, in their order, and  *)
(* the card each new one stands for.                                       *)
Old == {c \in DOMAIN cards : cards[c].plan = 1 /\ Available(c)}

Rank(c) == Cardinality({d \in Old : d <= c})

Source(d) == CHOOSE c \in Old : Rank(c) = d - NumCards

(* Each number up to Cardinality(Old) is the rank of one old card.         *)
LEMMA RankIsOnto ==
  ASSUME CardTable
  PROVE  /\ IsFiniteSet(Old) /\ Cardinality(Old) \in Nat
         /\ \A k \in 1 .. Cardinality(Old) : \E c \in Old : Rank(c) = k
<1>1. NumCards \in Nat /\ DOMAIN cards = 1 .. NumCards /\ IsFiniteSet(1 .. NumCards)
  BY Numbered, FS_Interval
<1>2. Old \in SUBSET (1 .. NumCards) /\ \A c \in Old : c \in Nat
  BY <1>1 DEF Old
<1>3. IsFiniteSet(Old) /\ Cardinality(Old) \in Nat
  BY <1>1, <1>2, FS_Subset, FS_CardinalityType
<1> DEFINE N == Cardinality(Old)
           upTo(c) == {d \in Old : d <= c}
           f == [c \in Old |-> Cardinality(upTo(c))]
<1>4. \A c \in Old : /\ upTo(c) \in SUBSET Old /\ c \in upTo(c) /\ IsFiniteSet(upTo(c))
                     /\ Cardinality(upTo(c)) \in 1 .. N
  <2> TAKE c \in Old
  <2>1. upTo(c) \in SUBSET Old /\ c \in upTo(c)
    BY <1>2
  <2> HIDE DEF upTo
  <2>2. IsFiniteSet(upTo(c)) /\ Cardinality(upTo(c)) <= N
    BY <1>3, <2>1, FS_Subset
  <2>3. Cardinality(upTo(c)) \in Nat /\ Cardinality(upTo(c)) # 0
    BY <2>1, <2>2, FS_CardinalityType, FS_EmptySet
  <2> QED BY <1>3, <2>1, <2>2, <2>3
<1>5. ASSUME NEW c \in Old, NEW d \in Old, c < d PROVE Cardinality(upTo(c)) # Cardinality(upTo(d))
  <2>0. c \in Nat /\ d \in Nat /\ \A b \in Old : b \in Nat
    BY <1>2
  <2>1. \A b \in upTo(c) : b \in upTo(d)
    BY <1>5, <2>0
  <2>3. d \in upTo(d) /\ d \notin upTo(c)
    BY <1>5, <2>0
  <2>2. IsFiniteSet(upTo(d))
    BY <1>4
  <2> HIDE DEF upTo
  <2>4. upTo(c) \in SUBSET upTo(d) /\ upTo(c) # upTo(d)
    BY <2>1, <2>3
  <2> QED BY <2>2, <2>4, FS_Subset
<1>6. f \in Injection(Old, 1 .. N)
  <2>1. f \in [Old -> 1 .. N]
    BY <1>4
  <2>2. \A c, d \in Old : c < d => f[c] # f[d]
    BY <1>5
  <2> HIDE DEF f
  <2>3. \A c, d \in Old : f[c] = f[d] => c = d
    BY <1>2, <2>2
  <2> QED BY <2>1, <2>3 DEF Injection, IsInjective
<1>7. IsFiniteSet(1 .. N) /\ Cardinality(1 .. N) = N
  BY <1>3, FS_Interval
<1>8. f \in Surjection(Old, 1 .. N)
  <2> HIDE DEF f
  <2> QED BY <1>6, <1>7, FS_Injection
<1>9. \A k \in 1 .. N : \E c \in Old : f[c] = k
  <2> HIDE DEF f
  <2> QED BY <1>8 DEF Surjection
<1>10. \A c \in Old : f[c] = Rank(c)
  BY DEF Rank
<1> QED BY <1>3, <1>9, <1>10

(* The new cards follow the others, and each replaces an old one of its own. *)
LEMMA ReplaceEffect ==
  ASSUME Tables, ReplaceAvailablePlanCards
  PROVE  \E m \in 0 .. MaxCards :
         /\ NumCards <= m /\ CardTable' /\ DOMAIN cards' = 1 .. m
         /\ \A d \in DOMAIN cards : cards'[d] = cards[d]
         /\ \A d \in (1 .. m) \ DOMAIN cards :
              /\ cards'[d].replaces \in Old
              /\ cards'[d].order = cards[cards'[d].replaces].order
              /\ ~cards'[d].used /\ ~cards'[d].invalidated
         /\ \A d, e \in (1 .. m) \ DOMAIN cards : cards'[d].replaces = cards'[e].replaces => d = e
<1> DEFINE n == NumCards
           m == n + Cardinality(Old)
           x(d) == NewCard(cards[Source(d)].order, 2, cards[Source(d)].owner, Source(d), FALSE)
<1>1. /\ CardTable /\ n \in Nat /\ DOMAIN cards = 1 .. n /\ cards \in [1 .. n -> Card]
      /\ \A c \in DOMAIN cards : cards[c] \in Card /\ c \in 1 .. MaxCards
  BY Numbered DEF Tables, CardTable
<1>2. /\ Cardinality(Old) \in Nat
      /\ \A k \in 1 .. Cardinality(Old) : \E c \in Old : Rank(c) = k
  BY <1>1, RankIsOnto
<1>3. m <= MaxCards /\ m \in 0 .. MaxCards /\ n <= m
  BY <1>1, <1>2, PlanPurchaseAssumption DEF ReplaceAvailablePlanCards, Old
<1>4. cards' = [d \in DOMAIN cards \union (n + 1 .. m) |->
                  IF d \in n + 1 .. m THEN x(d) ELSE cards[d]]
  BY DEF ReplaceAvailablePlanCards, Old, Rank, Source
<1>5. \A d \in n + 1 .. m : Source(d) \in Old /\ Rank(Source(d)) = d - n
  <2> TAKE d \in n + 1 .. m
  <2>1. d - n \in 1 .. Cardinality(Old)
    BY <1>1, <1>2
  <2> QED BY <1>2, <2>1 DEF Source
<1>6. \A d \in n + 1 .. m :
        /\ x(d) \in Card /\ x(d).replaces = Source(d) /\ x(d).order = cards[Source(d)].order
        /\ ~x(d).used /\ ~x(d).invalidated
  <2> TAKE d \in n + 1 .. m
  <2>1. Source(d) \in DOMAIN cards
    BY <1>5 DEF Old
  <2>2. Source(d) \in 0 .. MaxCards /\ cards[Source(d)] \in Card
    BY <1>1, <2>1, PlanPurchaseAssumption
  <2> QED BY <2>2 DEF NewCard, Card, Plans
<1>7. \A d, e \in n + 1 .. m : Source(d) = Source(e) => d = e
  BY <1>1, <1>2, <1>5
<1> HIDE DEF n, m, x
<1>8. 1 .. m = DOMAIN cards \union (n + 1 .. m) /\ (1 .. m) \ DOMAIN cards = n + 1 .. m
  BY <1>1, <1>3, PlanPurchaseAssumption
<1>9. /\ \A d \in n + 1 .. m : cards'[d] = x(d)
      /\ \A d \in DOMAIN cards : cards'[d] = cards[d]
      /\ cards' \in [1 .. m -> Card]
  <2>1. \A d \in DOMAIN cards : d \notin n + 1 .. m
    BY <1>1
  <2> QED BY <1>1, <1>4, <1>6, <1>8, <2>1
<1>10. CardTable' /\ DOMAIN cards' = 1 .. m
  BY <1>3, <1>9, Renumbered
<1>11. n <= m /\ n = NumCards
  BY <1>3 DEF n
<1> QED BY <1>3, <1>5, <1>6, <1>7, <1>8, <1>9, <1>10, <1>11

LEMMA ReplaceKeeps ==
  ASSUME Entitlements, ReplaceAvailablePlanCards
  PROVE  Entitlements' /\ (\A o \in Orders : Done(o)' <=> Done(o)) /\ DOMAIN cards \subseteq DOMAIN cards'
<1>1. UNCHANGED <<order, sub, credit, revenue>>
  BY DEF ReplaceAvailablePlanCards
<1>2. PICK m \in 0 .. MaxCards :
         /\ NumCards <= m /\ CardTable' /\ DOMAIN cards' = 1 .. m
         /\ \A d \in DOMAIN cards : cards'[d] = cards[d]
         /\ \A d \in (1 .. m) \ DOMAIN cards :
              /\ cards'[d].replaces \in Old
              /\ cards'[d].order = cards[cards'[d].replaces].order
              /\ ~cards'[d].used /\ ~cards'[d].invalidated
         /\ \A d, e \in (1 .. m) \ DOMAIN cards : cards'[d].replaces = cards'[e].replaces => d = e
  BY ReplaceEffect DEF Entitlements
<1> DEFINE New == (1 .. m) \ DOMAIN cards
<1>3. /\ Tables /\ NumCards \in Nat /\ DOMAIN cards = 1 .. NumCards
      /\ \A c \in DOMAIN cards : cards[c] \in Card /\ c \in 1 .. MaxCards
  BY Numbered DEF Entitlements, Tables
<1>4. DOMAIN cards \subseteq DOMAIN cards' /\ DOMAIN cards' = DOMAIN cards \union New
  BY <1>2, <1>3
<1>5. \A d \in New : d > NumCards /\ d \in Nat /\ d \notin DOMAIN cards /\ d \in 1 .. MaxCards
  BY <1>2, <1>3, PlanPurchaseAssumption
<1>6. \A c \in Old : c \in DOMAIN cards /\ ~Replaced(c) /\ ~cards[c].used /\ c \in 1 .. NumCards
  BY <1>3 DEF Old, Available
<1> HIDE DEF New
<1>7. \A o : Done(o)' <=> Done(o)
  BY <1>1 DEF Done
<1>8. \A c \in DOMAIN cards : cards[c].order \in Orders /\ Done(cards[c].order) /\ cards[c].replaces \in 0 .. c - 1
  BY <1>3 DEF Entitlements, Rooted, Card
(* A card is replaced if it was, or if it is the source of a new card.     *)
<1>9. \A c : Replaced(c)' <=> Replaced(c) \/ \E d \in New : cards'[d].replaces = c
  BY <1>2, <1>4 DEF Replaced
<1>10. \A d \in New : ~Replaced(d)'
  <2> SUFFICES ASSUME NEW d \in New, NEW e \in DOMAIN cards', cards'[e].replaces = d PROVE FALSE
    BY DEF Replaced
  <2>1. CASE e \in DOMAIN cards
    BY <1>2, <1>3, <1>5, <1>8, <2>1
  <2>2. CASE e \in New
    BY <1>2, <1>3, <1>5, <1>6, <2>2 DEF New
  <2> QED BY <1>4, <2>1, <2>2
<1>11. \A d \in New : cards'[d].order \in Orders /\ Done(cards'[d].order)
                      /\ cards'[d].replaces \in 1 .. NumCards /\ ~cards'[d].used /\ ~cards'[d].invalidated
  BY <1>2, <1>6, <1>8 DEF New
<1>12. Rooted'
  <2>1. \A o \in Orders :
          /\ order'[o].card # 0 <=> Done(o)'
          /\ Done(o)' => /\ order'[o].card \in DOMAIN cards'
                         /\ cards'[order'[o].card].order = o
                         /\ cards'[order'[o].card].replaces = 0
    BY <1>1, <1>2, <1>4, <1>7 DEF Entitlements, Rooted
  <2>2. ASSUME NEW c \in DOMAIN cards
        PROVE  /\ order'[cards'[c].order].status \in {"fulfilled", "reversed"}
               /\ cards'[c].replaces \in 0 .. c - 1
               /\ cards'[c].replaces = 0 => order'[cards'[c].order].card = c
    BY <1>1, <1>2, <2>2 DEF Entitlements, Rooted, Done
  <2>3. ASSUME NEW c \in New
        PROVE  /\ order'[cards'[c].order].status \in {"fulfilled", "reversed"}
               /\ cards'[c].replaces \in 0 .. c - 1
               /\ cards'[c].replaces = 0 => order'[cards'[c].order].card = c
    BY <1>1, <1>3, <1>5, <1>11, <2>3 DEF Done
  <2> QED BY <1>4, <2>1, <2>2, <2>3 DEF Rooted, Done
<1>13. OneLeaf'
  <2>1. ASSUME NEW c \in DOMAIN cards, NEW d \in New,
               cards'[c].order = cards'[d].order, ~Replaced(c)'
        PROVE  FALSE
    <3> DEFINE s == cards'[d].replaces
    <3>1. s \in DOMAIN cards /\ ~Replaced(s) /\ cards[s].order = cards[c].order /\ ~Replaced(c)
      BY <1>2, <1>6, <1>9, <2>1 DEF New
    <3>2. c = s
      BY <3>1 DEF Entitlements, OneLeaf
    <3> QED BY <1>9, <2>1, <3>2
  <2>2. ASSUME NEW c \in New, NEW d \in New, cards'[c].order = cards'[d].order
        PROVE  c = d
    <3>1. /\ cards'[c].replaces \in Old /\ cards'[d].replaces \in Old
          /\ cards[cards'[c].replaces].order = cards[cards'[d].replaces].order
      BY <1>2, <2>2 DEF New
    <3>2. cards'[c].replaces = cards'[d].replaces
      BY <1>6, <3>1 DEF Entitlements, OneLeaf
    <3> QED BY <1>2, <2>2, <3>2 DEF New
  <2>3. ASSUME NEW c \in DOMAIN cards, NEW d \in DOMAIN cards,
               cards'[c].order = cards'[d].order, ~Replaced(c)', ~Replaced(d)'
        PROVE  c = d
    BY <1>2, <1>9, <2>3 DEF Entitlements, OneLeaf
  <2> SUFFICES ASSUME NEW c \in DOMAIN cards', NEW d \in DOMAIN cards',
                      cards'[c].order = cards'[d].order, ~Replaced(c)', ~Replaced(d)'
               PROVE  c = d
    BY DEF OneLeaf
  <2> QED BY <1>4, <2>1, <2>2, <2>3
<1>14. HasLeaf'
  <2> SUFFICES ASSUME NEW o \in Orders, Done(o)
               PROVE  \E c \in DOMAIN cards' : cards'[c].order = o /\ ~Replaced(c)'
    BY <1>7 DEF HasLeaf, Lineage
  <2>1. PICK c \in DOMAIN cards : cards[c].order = o /\ ~Replaced(c)
    BY DEF Entitlements, HasLeaf, Lineage
  <2>2. CASE ~Replaced(c)'
    BY <1>2, <1>4, <2>1, <2>2
  <2>3. ASSUME NEW d \in New, cards'[d].replaces = c PROVE cards'[d].order = o /\ ~Replaced(d)'
    BY <1>2, <1>10, <2>1, <2>3 DEF New
  <2> QED BY <1>4, <1>9, <2>1, <2>2, <2>3
<1>15. UsedIsSubscribed'
  <2>1. ASSUME NEW c \in DOMAIN cards
        PROVE  /\ cards'[c].used <=> sub'[c].state # "none"
               /\ cards'[c].used => ~Replaced(c)' /\ ~cards'[c].invalidated
    BY <1>1, <1>2, <1>6, <1>9, <2>1 DEF Entitlements, UsedIsSubscribed, New
  <2>2. ASSUME NEW c \in New
        PROVE  ~cards'[c].used /\ sub'[c].state = "none"
    BY <1>1, <1>5, <1>11, <2>2 DEF Entitlements, UsedIsSubscribed
  <2>3. \A c \in 1 .. MaxCards : c \notin DOMAIN cards' => sub'[c].state = "none"
    BY <1>1, <1>4 DEF Entitlements, UsedIsSubscribed
  <2> QED BY <1>4, <2>1, <2>2, <2>3 DEF UsedIsSubscribed
<1>16. Earned'
  <2>1. \A o : UsedIn(o)' <=> UsedIn(o)
    BY <1>2, <1>4, <1>11 DEF UsedIn, Lineage
  <2> QED BY <1>1, <2>1 DEF Entitlements, Earned
<1>17. Debits' /\ Tables'
  BY <1>1, <1>2 DEF Entitlements, Debits, Debited, Tables
<1> QED BY <1>4, <1>7, <1>12, <1>13, <1>14, <1>15, <1>16, <1>17 DEF Entitlements

----------------------------------------------------------------------------
(* Paid through Stripe, an order debits nobody ...                         *)
LEMMA StripeFulfilKeeps ==
  ASSUME Entitlements, NEW o \in Orders \ Balance, ~Done(o), NEW now \in BOOLEAN, Fulfil(o, now),
         UNCHANGED credit
  PROVE  /\ Entitlements' /\ Done(o)' /\ DOMAIN cards \subseteq DOMAIN cards'
         /\ \A a \in Orders : a # o => (Done(a)' <=> Done(a))
<1>1. /\ Rooted' /\ OneLeaf' /\ HasLeaf' /\ UsedIsSubscribed' /\ Earned' /\ Tables'
      /\ Done(o)' /\ \A a \in Orders : a # o => (Done(a)' <=> Done(a))
      /\ DOMAIN cards \subseteq DOMAIN cards'
  BY FulfilKeeps DEF Entitlements, Tables
<1>2. PICK c : Issued(o, now, c)
  BY FulfilEffect
<1>3. \A u : Debited(u)' = Debited(u)
  BY <1>2, PlanPurchaseAssumption DEF Issued, Debited
<1>4. Debits'
  BY <1>3 DEF Entitlements, Debits
<1> QED BY <1>1, <1>4 DEF Entitlements

(* ... and out of the balance it debits its buyer once.                    *)
LEMMA CreditFulfilKeeps ==
  ASSUME Entitlements, NEW o \in Balance, ~Done(o), NEW now \in BOOLEAN, Fulfil(o, now),
         credit[Buyer[o]] >= 1, credit' = [credit EXCEPT ![Buyer[o]] = @ - 1]
  PROVE  /\ Entitlements' /\ Done(o)' /\ DOMAIN cards \subseteq DOMAIN cards'
         /\ \A a \in Orders : a # o => (Done(a)' <=> Done(a))
<1>0. o \in Orders /\ Buyer[o] \in Users /\ Funds \in Nat /\ IsFiniteSet(Balance) /\ credit \in [Users -> 0 .. Funds]
  BY PlanPurchaseAssumption, FS_Subset DEF Entitlements, Tables
<1>1. /\ Rooted' /\ OneLeaf' /\ HasLeaf' /\ UsedIsSubscribed' /\ Earned' /\ Tables'
      /\ Done(o)' /\ \A a \in Orders : a # o => (Done(a)' <=> Done(a))
      /\ DOMAIN cards \subseteq DOMAIN cards'
  <2>1. credit' \in [Users -> 0 .. Funds]
    BY <1>0
  <2> QED BY <1>0, <2>1, FulfilKeeps
<1>2. PICK c : Issued(o, now, c)
  BY <1>0, FulfilEffect
<1>3. \A u : Debited(u)' = IF u = Buyer[o] THEN Debited(u) \union {o} ELSE Debited(u)
  BY <1>0, <1>2, PlanPurchaseAssumption DEF Issued, Debited
<1>4. \A u : o \notin Debited(u) /\ IsFiniteSet(Debited(u))
  <2>1. order[o].card = 0
    BY <1>0 DEF Entitlements, Rooted
  <2>2. \A u : Debited(u) \in SUBSET Balance
    BY DEF Debited
  <2> QED BY <1>0, <2>1, <2>2, FS_Subset DEF Debited
<1>5. ASSUME NEW u \in Users PROVE credit'[u] = Funds - Cardinality(Debited(u)')
  <2>1. credit[u] = Funds - Cardinality(Debited(u)) /\ Cardinality(Debited(u)) \in Nat
    BY <1>4, FS_CardinalityType DEF Entitlements, Debits
  <2>2. Cardinality(Debited(u) \union {o}) = Cardinality(Debited(u)) + 1
    BY <1>4, FS_AddElement
  <2>3. CASE u = Buyer[o]
    <3>1. Debited(u)' = Debited(u) \union {o} /\ credit'[u] = credit[u] - 1
      BY <1>0, <1>3, <2>3
    <3> QED BY <1>0, <2>1, <2>2, <3>1
  <2>4. CASE u # Buyer[o]
    <3>1. Debited(u)' = Debited(u) /\ credit'[u] = credit[u]
      BY <1>0, <1>3, <2>4
    <3> QED BY <2>1, <3>1
  <2> QED BY <2>3, <2>4
<1>6. Debits'
  BY <1>5 DEF Debits
<1> QED BY <1>1, <1>6 DEF Entitlements

(* What every step does with the rows others may have read: an order that  *)
(* is done stays so, it became done by a payment or out of the balance, and *)
(* no card disappears.                                                     *)
Grown ==
  /\ \A o \in Orders : Done(o) => Done(o)'
  /\ \A o \in Orders : Done(o)' => Done(o) \/ o \in Balance \/ session[o] = "paid"
  /\ DOMAIN cards \subseteq DOMAIN cards'

LEMMA CalmGrows ==
  ASSUME Entitlements, Calm
  PROVE  Entitlements' /\ Grown
<1>1. Entitlements'
  BY CalmKeeps
<1> QED BY <1>1 DEF Calm, Grown

LEMMA Known ==
  ASSUME IInv, NEW p \in Procs
  PROVE  tx[p] \in Request /\ Knows(tx[p])
BY DEF IInv, OtherTables, Snapshots

LEMMA CompleteGrows ==
  ASSUME IInv, NEW p \in Procs, WriteComplete(p)
  PROVE  Entitlements' /\ Grown /\ order'[tx[p].o].status \in {"fulfilled", "reversed"}
<1>1. tx[p] \in Request /\ Knows(tx[p]) /\ tx[p].op = "completeWrite" /\ Entitlements /\ Payments
  BY Known DEF WriteComplete, IInv
<1>2. PICK o \in Orders : o = tx[p].o
  BY <1>1 DEF Request, Idle
<1>3. session[o] = "paid" /\ tx[p].prior # "succeeded" /\ ~AlreadyComplete(tx[p].status)
  BY <1>1, <1>2 DEF Knows, Remembers, AlreadyComplete
<1>4. StatusMayBecome(order[o].status, "fulfilled") /\ order[o].card = 0
  BY <1>2, <1>3 DEF WriteComplete, CompleteThrows, CardMayBeSet
<1>5. ~Done(o) /\ o \notin Balance
  BY <1>1, <1>3, <1>4 DEF Entitlements, Rooted, Payments
<1>6. Fulfil(o, order[o].useNow) /\ order[o].useNow \in BOOLEAN /\ UNCHANGED credit
  BY <1>1, <1>2 DEF WriteComplete, Entitlements, Tables, Row
<1>7. /\ Entitlements' /\ Done(o)' /\ DOMAIN cards \subseteq DOMAIN cards'
      /\ \A a \in Orders : a # o => (Done(a)' <=> Done(a))
  BY <1>1, <1>5, <1>6, StripeFulfilKeeps
<1>8. Grown
  BY <1>3, <1>7 DEF Grown
<1>9. order'[o].status \in {"fulfilled", "reversed"}
  BY <1>7 DEF Done
<1> QED BY <1>2, <1>7, <1>8, <1>9

LEMMA CreditGrows ==
  ASSUME IInv, NEW p \in Procs, WriteCreditPurchase(p)
  PROVE  Entitlements' /\ Grown
<1>1. tx[p] \in Request /\ Knows(tx[p]) /\ tx[p].op = "creditPurchase" /\ Entitlements
  BY Known DEF WriteCreditPurchase, IInv
<1>2. PICK o \in Balance : o = tx[p].o
  BY <1>1 DEF Knows, Remembers
<1>3. PICK now \in BOOLEAN : now = tx[p].useNow
  BY <1>1 DEF Request, Idle
<1>4. CASE UNCHANGED <<order, cards, sub, revenue, credit>>
  BY <1>1, <1>4, Untouched, CalmGrows
<1>5. CASE /\ credit[Buyer[o]] >= 1 /\ order[o].status = "none" /\ Fulfil(o, now)
           /\ credit' = [credit EXCEPT ![Buyer[o]] = @ - 1]
  <2>1. ~Done(o)
    BY <1>5 DEF Done
  <2>2. /\ Entitlements' /\ Done(o)' /\ DOMAIN cards \subseteq DOMAIN cards'
        /\ \A a \in Orders : a # o => (Done(a)' <=> Done(a))
    BY <1>1, <1>5, <2>1, CreditFulfilKeeps
  <2> QED BY <2>2 DEF Grown
<1> QED BY <1>2, <1>3, <1>4, <1>5 DEF WriteCreditPurchase

LEMMA CardsGrow ==
  ASSUME IInv, \/ \E p \in Procs : WriteUse(p) \/ WriteReverse(p)
               \/ \E c \in 1 .. MaxCards : \/ SubscriptionEnds(c) \/ CancelPlanSubscription(c)
                                           \/ \E u \in Users : SendCard(c, u)
               \/ ReplaceAvailablePlanCards
  PROVE  Entitlements' /\ Grown
<1>1. Entitlements
  BY DEF IInv
<1>2. ASSUME NEW p \in Procs, WriteUse(p) PROVE Entitlements' /\ Grown
  <2>1. tx[p] \in Request /\ tx[p].c \in DOMAIN cards
    BY <1>2, Known DEF WriteUse, Knows, Remembers
  <2>2. Entitlements'
    BY <1>1, <1>2, <2>1, UseKeeps
  <2>3. UNCHANGED order /\ DOMAIN cards' = DOMAIN cards
    BY <1>2 DEF WriteUse
  <2> QED BY <2>2, <2>3 DEF Grown, Done
<1>3. ASSUME NEW p \in Procs, WriteReverse(p) PROVE Entitlements' /\ Grown
  BY <1>1, <1>3, Known, ReverseKeeps DEF Grown
<1>4. ASSUME NEW c \in 1 .. MaxCards, SubscriptionEnds(c) \/ CancelPlanSubscription(c)
      PROVE  Entitlements' /\ Grown
  <2>1. UNCHANGED <<order, cards>>
    BY <1>4 DEF SubscriptionEnds, CancelPlanSubscription
  <2> QED BY <1>1, <1>4, <2>1, SubscriptionActions DEF Grown, Done
<1>5. ASSUME NEW c \in 1 .. MaxCards, NEW u \in Users, SendCard(c, u) PROVE Entitlements' /\ Grown
  <2>1. UNCHANGED order /\ DOMAIN cards' = DOMAIN cards
    BY <1>5 DEF SendCard
  <2> QED BY <1>1, <1>5, <2>1, SendKeeps DEF Grown, Done
<1>6. ASSUME ReplaceAvailablePlanCards PROVE Entitlements' /\ Grown
  BY <1>1, <1>6, ReplaceKeeps DEF Grown
<1> QED BY <1>2, <1>3, <1>4, <1>5, <1>6

LEMMA CalmGrow ==
  ASSUME IInv, \/ \E o \in Orders : StripeSide(o) \/ IgnoreUnpaid(o) \/ Cancel(o)
               \/ \E p \in Procs : \/ \E o \in Orders : \/ StartCheckout(p, o) \/ ReadCreditPurchase(p, o)
                                                        \/ ReadReverse(p, o)
                                                        \/ \E e \in Stripe!Events : Deliver(p, o, e)
                                   \/ CreateSession(p) \/ ReadAttach(p) \/ WriteAttach(p)
                                   \/ ReplayComplete(p) \/ CheckComplete(p) \/ RejectComplete(p)
                                   \/ RecordTerminal(p) \/ ReadFailure(p) \/ WriteFailure(p) \/ Crash(p)
                                   \/ \E c \in 1 .. MaxCards : ReadUse(p, c)
               \/ \E v \in Plans, s \in {"enabled", "closed", "disabled"} : RevisePlan(v, s)
  PROVE  Entitlements' /\ Grown
<1>1. Entitlements /\ setup \in Setups
  BY DEF IInv, OtherTables
<1>2. UNCHANGED <<order, cards, sub, credit, revenue>> => Entitlements' /\ Grown
  BY <1>1, Untouched, CalmGrows
<1>3. ASSUME NEW o \in Orders, StripeSide(o) \/ IgnoreUnpaid(o) PROVE Entitlements' /\ Grown
  BY <1>2, <1>3 DEF StripeSide, IgnoreUnpaid
<1>4. ASSUME NEW o \in Orders, Cancel(o) PROVE Entitlements' /\ Grown
  <2>1. Calm
    BY <1>1, <1>4, CancelCalm
  <2> QED BY <1>1, <2>1, CalmGrows
<1>5. ASSUME NEW p \in Procs, NEW o \in Orders,
             StartCheckout(p, o) \/ WriteAttach(p) \/ RecordTerminal(p)
      PROVE  Entitlements' /\ Grown
  <2>1. tx[p] \in Request /\ (tx[p].op = "terminal" => tx[p].e \in Stripe!TerminalEvents)
    BY Known DEF Knows, Remembers
  <2>2. Calm
    BY <1>1, <1>5, <2>1, CalmOrders
  <2> QED BY <1>1, <2>2, CalmGrows
<1>6. ASSUME NEW p \in Procs, NEW o \in Orders,
             \/ ReadCreditPurchase(p, o) \/ ReadReverse(p, o)
             \/ \E e \in Stripe!Events : Deliver(p, o, e)
      PROVE  Entitlements' /\ Grown
  BY <1>2, <1>6 DEF ReadCreditPurchase, ReadReverse, Deliver
<1>7. ASSUME NEW p \in Procs, CreateSession(p) \/ ReadAttach(p) \/ ReplayComplete(p) \/ CheckComplete(p)
      PROVE  Entitlements' /\ Grown
  BY <1>2, <1>7 DEF CreateSession, ReadAttach, ReplayComplete, CheckComplete
<1>8. ASSUME NEW p \in Procs, \/ RejectComplete(p) \/ ReadFailure(p) \/ WriteFailure(p) \/ Crash(p)
                              \/ \E c \in 1 .. MaxCards : ReadUse(p, c)
      PROVE  Entitlements' /\ Grown
  BY <1>2, <1>8 DEF RejectComplete, ReadFailure, WriteFailure, Crash, ReadUse
<1>9. ASSUME NEW v \in Plans, NEW s \in {"enabled", "closed", "disabled"}, RevisePlan(v, s)
      PROVE  Entitlements' /\ Grown
  BY <1>2, <1>9 DEF RevisePlan
<1>10. ASSUME NEW p \in Procs, WriteAttach(p) \/ RecordTerminal(p) PROVE \E o \in Orders : TRUE
  BY <1>10, Known DEF WriteAttach, RecordTerminal, Request, Idle
<1> QED BY <1>3, <1>4, <1>5, <1>6, <1>7, <1>8, <1>9, <1>10

LEMMA EntitlementStep ==
  ASSUME IInv, Next
  PROVE  Entitlements' /\ Grown
BY CalmGrow, CardsGrow, CompleteGrows, CreditGrows DEF Next, Checkout, Webhook, CardUse, Owner

----------------------------------------------------------------------------
(* What a step may do with Stripe's events and the record of them.         *)
Honest ==
  /\ \A o \in Orders : session[o] = "paid" => session'[o] = "paid"
  /\ \A o \in Orders : session'[o] # "none" => session[o] # "none" \/ o \notin Balance
  /\ \A o \in Orders, e \in Stripe!PaidEvents :
       /\ e \in unacked'[o] => e \in unacked[o] \/ e \in acked[o] \/ session'[o] = "paid"
       /\ e \in acked'[o] => e \in acked[o] \/ (session[o] = "paid" /\ Done(o)')
       /\ inbox'[o][e] = "succeeded" => inbox[o][e] = "succeeded" \/ Done(o)'

Books ==
  /\ StripeTables' /\ Honest /\ setup' = setup
  /\ inbox' \in [Orders -> [Stripe!Events -> EventStatus]]

LEMMA BooksKeepPayments ==
  ASSUME IInv, Grown, Books
  PROVE  Payments'
<1>1. Payments
  BY DEF IInv
<1> SUFFICES ASSUME NEW o \in Orders
             PROVE  /\ (unacked'[o] \union acked'[o]) \intersect Stripe!PaidEvents # {} => session'[o] = "paid"
                    /\ acked'[o] \intersect Stripe!PaidEvents # {} => Done(o)'
                    /\ \A e \in Stripe!PaidEvents : inbox'[o][e] = "succeeded" => Done(o)'
                    /\ session'[o] # "none" => o \notin Balance
                    /\ Done(o)' /\ o \notin Balance => session'[o] = "paid"
  BY DEF Payments
<1>2. \A e \in Stripe!PaidEvents : e \in unacked[o] \/ e \in acked[o] => session[o] = "paid"
  BY <1>1 DEF Payments
<1>3. \A e \in Stripe!PaidEvents : e \in acked[o] => Done(o)
  BY <1>1 DEF Payments
<1>4. \A e \in Stripe!PaidEvents :
        /\ e \in unacked'[o] => session'[o] = "paid"
        /\ e \in acked'[o] => session'[o] = "paid" /\ Done(o)'
  BY <1>2, <1>3 DEF Books, Honest, Grown
<1>5. \A e \in Stripe!PaidEvents : inbox'[o][e] = "succeeded" => Done(o)'
  BY <1>1 DEF Books, Honest, Grown, Payments
<1>6. session'[o] # "none" => o \notin Balance
  BY <1>1 DEF Books, Honest, Payments
<1>7. Done(o)' /\ o \notin Balance => session'[o] = "paid"
  BY <1>1 DEF Books, Honest, Grown, Payments
<1> QED BY <1>4, <1>5, <1>6, <1>7

LEMMA BooksUntouched ==
  ASSUME IInv, UNCHANGED <<session, unacked, acked, inbox, setup>>
  PROVE  Books
BY DEF IInv, StripeTables, OtherTables, Books, Honest

(* Recording an event and answering it with a 2xx: a paid one was a replay *)
(* of a payment that is done, or completes it.                             *)
LEMMA BooksAnswered ==
  ASSUME IInv, NEW o \in Orders, NEW e \in Stripe!Events, NEW s \in EventStatus,
         e \in Stripe!PaidEvents => session[o] = "paid" /\ Done(o)',
         SetEvent(o, e, s), Stripe!Acknowledge(o, e), setup' = setup
  PROVE  Books
<1>1. /\ inbox \in [Orders -> [Stripe!Events -> EventStatus]] /\ session \in [Orders -> Sessions]
      /\ unacked \in [Orders -> SUBSET Stripe!Events] /\ acked \in [Orders -> SUBSET Stripe!Events]
  BY DEF IInv, StripeTables, OtherTables
<1>2. /\ session' = session /\ inbox' = [inbox EXCEPT ![o][e] = s]
      /\ unacked' = [unacked EXCEPT ![o] = @ \ {e}]
      /\ acked' = [acked EXCEPT ![o] = @ \union {e}]
  BY DEF SetEvent, Stripe!Acknowledge
<1> DEFINE x == [inbox[o] EXCEPT ![e] = s]
<1>3. /\ x \in [Stripe!Events -> EventStatus]
      /\ \A f \in Stripe!Events : x[f] = "succeeded" => inbox[o][f] = "succeeded" \/ f = e
  BY <1>1
<1>4. inbox' = [inbox EXCEPT ![o] = x]
  BY <1>1, <1>2
<1> HIDE DEF x
<1>5. Stripe!PaidEvents \subseteq Stripe!Events
  BY DEF Stripe!Events
<1>6. StripeTables' /\ inbox' \in [Orders -> [Stripe!Events -> EventStatus]]
  BY <1>1, <1>2, <1>3, <1>4 DEF StripeTables
<1>7. \A a \in Orders, f \in Stripe!PaidEvents :
        /\ f \in unacked'[a] => f \in unacked[a]
        /\ f \in acked'[a] => f \in acked[a] \/ (a = o /\ f = e)
        /\ inbox'[a][f] = "succeeded" => inbox[a][f] = "succeeded" \/ (a = o /\ f = e)
  BY <1>1, <1>2, <1>3, <1>4, <1>5
<1>8. Honest
  BY <1>2, <1>7 DEF Honest
<1> QED BY <1>6, <1>8 DEF Books

(* Stripe's side of it: sessions are paid once and say so.                 *)
LEMMA BooksOfStripe ==
  ASSUME IInv, NEW o \in Orders, NEW s \in Sessions, NEW e \in Stripe!Events,
         Stripe!Becomes(o, s, e), session[o] \in {"open", "processing"},
         e \in Stripe!PaidEvents => s = "paid", UNCHANGED <<inbox, setup>>
  PROVE  Books
<1>1. /\ inbox \in [Orders -> [Stripe!Events -> EventStatus]] /\ session \in [Orders -> Sessions]
      /\ unacked \in [Orders -> SUBSET Stripe!Events] /\ acked \in [Orders -> SUBSET Stripe!Events]
  BY DEF IInv, StripeTables, OtherTables
<1>2. /\ session' = [session EXCEPT ![o] = s] /\ unacked' = [unacked EXCEPT ![o] = @ \union {e}]
      /\ acked' = acked
  BY DEF Stripe!Becomes
<1>3. StripeTables'
  BY <1>1, <1>2 DEF StripeTables
<1>4. Honest
  BY <1>1, <1>2 DEF Honest
<1> QED BY <1>1, <1>3, <1>4 DEF Books

LEMMA StripeBooks ==
  ASSUME IInv, NEW o \in Orders, StripeSide(o)
  PROVE  Books /\ tx' = tx
<1>1. /\ "completed" \in Stripe!Events /\ "completed_unpaid" \in Stripe!Events
      /\ "async_payment_succeeded" \in Stripe!Events /\ "async_payment_failed" \in Stripe!Events
      /\ "expired" \in Stripe!Events /\ "completed_unpaid" \notin Stripe!PaidEvents
      /\ "async_payment_failed" \notin Stripe!PaidEvents /\ "expired" \notin Stripe!PaidEvents
      /\ {"paid", "processing", "failed", "expired"} \subseteq Sessions
  BY DEF Stripe!Events, Stripe!PaidEvents, Stripe!TerminalEvents, Sessions
<1>2. UNCHANGED <<inbox, setup>> /\ tx' = tx
  BY DEF StripeSide
<1>3. ASSUME Stripe!Pay(o) PROVE Books
  BY <1>1, <1>2, <1>3, BooksOfStripe DEF Stripe!Pay
<1>4. ASSUME Stripe!AsyncSettles(o) PROVE Books
  BY <1>1, <1>2, <1>4, BooksOfStripe DEF Stripe!AsyncSettles
<1>5. ASSUME Stripe!SessionExpires(o) PROVE Books
  BY <1>1, <1>2, <1>5, BooksOfStripe DEF Stripe!SessionExpires
<1> QED BY <1>2, <1>3, <1>4, <1>5 DEF StripeSide

(* The session of an order is made by the request that placed it.          *)
LEMMA CreateSessionBooks ==
  ASSUME IInv, NEW p \in Procs, CreateSession(p)
  PROVE  Books
<1>1. tx[p] \in Request /\ Knows(tx[p]) /\ tx[p].op = "session"
  BY Known DEF CreateSession
<1>2. PICK o \in Orders : o = tx[p].o
  BY <1>1 DEF Request, Idle
<1>3. o \notin Balance
  BY <1>1, <1>2 DEF Knows, Remembers
<1>4. /\ session' = [session EXCEPT ![o] = IF @ = "none" THEN "open" ELSE @]
      /\ UNCHANGED <<unacked, acked, inbox, setup>>
  BY <1>2 DEF CreateSession, Stripe!CreateSession
<1>5. /\ inbox \in [Orders -> [Stripe!Events -> EventStatus]] /\ session \in [Orders -> Sessions]
      /\ unacked \in [Orders -> SUBSET Stripe!Events] /\ acked \in [Orders -> SUBSET Stripe!Events]
  BY DEF IInv, StripeTables, OtherTables
<1>6. session' \in [Orders -> Sessions]
  BY <1>4, <1>5 DEF Sessions
<1>7. Honest
  BY <1>3, <1>4, <1>5 DEF Honest
<1> QED BY <1>4, <1>5, <1>6, <1>7 DEF Books, StripeTables

----------------------------------------------------------------------------
(* A request goes on with what it then knows.                              *)
Answers(p) ==
  \E x \in Request : /\ tx' = [tx EXCEPT ![p] = x]
                     /\ Remembers(x, session', order', DOMAIN cards')

(* What the others know stays true: orders that are done stay done.        *)
LEMMA Remembered ==
  ASSUME IInv, Grown, Books, NEW q \in Procs
  PROVE  Remembers(tx[q], session', order', DOMAIN cards')
<1>1. PICK t \in Request : t = tx[q] /\ Remembers(t, session, order, DOMAIN cards)
  BY Known DEF Knows
<1>2. t.op \in {"complete", "completeWrite", "reverse"} => t.o \in Orders
  BY DEF Request, Idle
<1>3. \A o \in Orders : /\ session[o] = "paid" => session'[o] = "paid"
                        /\ order[o].status \in {"fulfilled", "reversed"}
                             => order'[o].status \in {"fulfilled", "reversed"}
  BY DEF Books, Honest, Grown, Done
<1>4. DOMAIN cards \subseteq DOMAIN cards'
  BY DEF Grown
<1>5. Remembers(t, session', order', DOMAIN cards')
  BY <1>1, <1>2, <1>3, <1>4 DEF Remembers
<1> QED BY <1>1, <1>5

LEMMA AnswersKeep ==
  ASSUME IInv, Grown, Books, tx' = tx \/ \E p \in Procs : Answers(p)
  PROVE  Snapshots' /\ OtherTables'
<1>0. tx \in [Procs -> Request] /\ setup \in Setups
  BY DEF IInv, OtherTables
<1>1. tx' \in [Procs -> Request] /\ \A q \in Procs : Remembers(tx'[q], session', order', DOMAIN cards')
  <2>1. CASE tx' = tx
    BY <1>0, <2>1, Remembered
  <2>2. ASSUME NEW p \in Procs, NEW x \in Request, tx' = [tx EXCEPT ![p] = x],
               Remembers(x, session', order', DOMAIN cards')
        PROVE  tx' \in [Procs -> Request] /\ \A q \in Procs : Remembers(tx'[q], session', order', DOMAIN cards')
    <3>1. tx' \in [Procs -> Request] /\ tx'[p] = x /\ \A q \in Procs : q # p => tx'[q] = tx[q]
      BY <1>0, <2>2
    <3>2. ASSUME NEW q \in Procs PROVE Remembers(tx'[q], session', order', DOMAIN cards')
      BY <2>2, <3>1, Remembered
    <3> QED BY <3>1, <3>2
  <2> QED BY <2>1, <2>2 DEF Answers
<1> QED BY <1>0, <1>1 DEF Snapshots, OtherTables, Books, Knows

LEMMA EndAnswers ==
  ASSUME NEW p \in Procs, End(p)
  PROVE  Answers(p)
<1>1. Idle \in Request /\ Idle.op = "idle"
  BY DEF Request, Idle
<1>2. Remembers(Idle, session', order', DOMAIN cards')
  BY <1>1 DEF Remembers
<1> QED BY <1>1, <1>2 DEF End, Answers

LEMMA ThrowAnswers ==
  ASSUME IInv, NEW p \in Procs, Throw(p), tx[p].op \in {"complete", "completeWrite", "terminal"}
  PROVE  Answers(p)
<1>1. tx[p].o \in Orders /\ tx[p].e \in Stripe!Events
  BY Known DEF Request, Idle
<1>2. PICK x : x = [op |-> "failure", o |-> tx[p].o, e |-> tx[p].e]
  OBVIOUS
<1>3. x \in Request /\ x.op = "failure"
  BY <1>1, <1>2 DEF Request
<1>4. Remembers(x, session', order', DOMAIN cards')
  BY <1>3 DEF Remembers
<1> QED BY <1>2, <1>3, <1>4 DEF Throw, Answers

(* Placing an order.                                                       *)
LEMMA CheckoutAnswers ==
  ASSUME IInv, NEW p \in Procs, NEW o \in Orders,
         \/ StartCheckout(p, o) \/ ReadCreditPurchase(p, o)
         \/ CreateSession(p) \/ ReadAttach(p) \/ WriteAttach(p) \/ WriteCreditPurchase(p)
  PROVE  Books /\ Answers(p)
<1>0. tx[p] \in Request /\ setup.useNow \subseteq BOOLEAN
  BY Known, PlanPurchaseAssumption DEF IInv, OtherTables, Setup
<1>1. ASSUME StartCheckout(p, o) PROVE Books /\ Answers(p)
  <2>1. PICK x : x = [op |-> "session", o |-> o]
    OBVIOUS
  <2>2. x \in Request /\ x.op = "session" /\ x.o \notin Balance
    BY <1>1, <2>1 DEF Request, StartCheckout
  <2>3. Remembers(x, session', order', DOMAIN cards')
    BY <2>2 DEF Remembers
  <2>4. Books
    BY <1>1, BooksUntouched DEF StartCheckout, stripeVars
  <2> QED BY <1>1, <2>1, <2>2, <2>3, <2>4 DEF StartCheckout, Begin, Answers
<1>2. ASSUME ReadCreditPurchase(p, o) PROVE Books /\ Answers(p)
  <2>1. PICK now \in BOOLEAN : Begin(p, [op |-> "creditPurchase", o |-> o, useNow |-> now])
    BY <1>0, <1>2 DEF ReadCreditPurchase
  <2>2. PICK x : x = [op |-> "creditPurchase", o |-> o, useNow |-> now]
    OBVIOUS
  <2>3. x \in Request /\ x.op = "creditPurchase" /\ x.o \in Balance
    BY <1>2, <2>2 DEF Request, ReadCreditPurchase
  <2>4. Remembers(x, session', order', DOMAIN cards')
    BY <2>3 DEF Remembers
  <2>5. Books
    BY <1>2, BooksUntouched DEF ReadCreditPurchase, stripeVars
  <2> QED BY <2>1, <2>2, <2>3, <2>4, <2>5 DEF Begin, Answers
<1>3. ASSUME CreateSession(p) PROVE Books /\ Answers(p)
  <2>1. PICK x : x = [op |-> "attach", o |-> tx[p].o]
    OBVIOUS
  <2>2. x \in Request /\ x.op = "attach"
    BY <1>0, <1>3, <2>1 DEF Request, CreateSession, Idle
  <2>3. Remembers(x, session', order', DOMAIN cards')
    BY <2>2 DEF Remembers
  <2> QED BY <1>3, <2>1, <2>2, <2>3, CreateSessionBooks DEF CreateSession, Answers
<1>4. ASSUME ReadAttach(p) PROVE Books /\ Answers(p)
  <2>1. PICK x : x = [op |-> "attachWrite", o |-> tx[p].o]
    OBVIOUS
  <2>2. x \in Request /\ x.op = "attachWrite"
    BY <1>0, <1>4, <2>1 DEF Request, ReadAttach, Idle
  <2>3. Remembers(x, session', order', DOMAIN cards')
    BY <2>2 DEF Remembers
  <2>4. tx' = [tx EXCEPT ![p] = x] \/ End(p)
    BY <1>4, <2>1 DEF ReadAttach, End
  <2>5. Answers(p)
    BY <2>2, <2>3, <2>4, EndAnswers DEF Answers
  <2>6. Books
    BY <1>4, BooksUntouched DEF ReadAttach, stripeVars
  <2> QED BY <2>5, <2>6
<1>5. ASSUME WriteAttach(p) \/ WriteCreditPurchase(p) PROVE Books /\ Answers(p)
  BY <1>5, BooksUntouched, EndAnswers DEF WriteAttach, WriteCreditPurchase, stripeVars
<1> QED BY <1>1, <1>2, <1>3, <1>4, <1>5

(* Cards: the request that uses one, and the one that reverses an order.   *)
LEMMA CardAnswers ==
  ASSUME IInv, Grown, NEW p \in Procs,
         \/ WriteUse(p) \/ WriteReverse(p) \/ Crash(p)
         \/ \E c \in 1 .. MaxCards : ReadUse(p, c)
         \/ \E o \in Orders : ReadReverse(p, o)
  PROVE  Books /\ Answers(p)
<1>0. /\ Entitlements /\ \A c \in DOMAIN cards : cards[c] \in Card /\ c \in 1 .. MaxCards
      /\ DOMAIN cards \subseteq DOMAIN cards'
  BY Numbered DEF IInv, Entitlements, Tables, Grown
<1>1. ASSUME WriteUse(p) \/ WriteReverse(p) \/ Crash(p) PROVE Books /\ Answers(p)
  BY <1>1, BooksUntouched, EndAnswers DEF WriteUse, WriteReverse, Crash, stripeVars
<1>2. ASSUME NEW c \in 1 .. MaxCards, ReadUse(p, c) PROVE Books /\ Answers(p)
  <2>1. PICK x : x = [op |-> "use", c |-> c, u |-> cards[c].owner]
    OBVIOUS
  <2>2. x \in Request /\ x.op = "use" /\ x.c \in DOMAIN cards
    BY <1>0, <1>2, <2>1 DEF Request, ReadUse, Card
  <2>3. Remembers(x, session', order', DOMAIN cards')
    BY <1>0, <2>2 DEF Remembers
  <2>4. Books
    BY <1>2, BooksUntouched DEF ReadUse, stripeVars
  <2> QED BY <1>2, <2>1, <2>2, <2>3, <2>4 DEF ReadUse, Begin, Answers
<1>3. ASSUME NEW o \in Orders, ReadReverse(p, o) PROVE Books /\ Answers(p)
  <2>1. order[o].status = "fulfilled" /\ Done(o) /\ UNCHANGED <<order, cards>>
    BY <1>3 DEF ReadReverse, Done
  <2>2. Leaf(o) \in DOMAIN cards
    BY <1>0, <2>1 DEF Entitlements, HasLeaf, Leaf, Lineage
  <2>3. PICK x : x = [op |-> "reverse", o |-> o, leaf |-> Leaf(o), used |-> cards[Leaf(o)].used]
    OBVIOUS
  <2>4. x \in Request /\ x.op = "reverse" /\ x.o = o /\ x.leaf = Leaf(o)
    BY <1>0, <2>2, <2>3 DEF Request, Card
  <2>5. Remembers(x, session', order', DOMAIN cards')
    BY <2>1, <2>2, <2>4 DEF Remembers
  <2>6. Books
    BY <1>3, BooksUntouched DEF ReadReverse, stripeVars
  <2> QED BY <1>3, <2>3, <2>4, <2>5, <2>6 DEF ReadReverse, Begin, Answers
<1> QED BY <1>1, <1>2, <1>3

(* A delivery learns what the event and the order were, without a lock.    *)
LEMMA DeliverAnswers ==
  ASSUME IInv, NEW p \in Procs, NEW o \in Orders, NEW e \in Stripe!Events, Deliver(p, o, e)
  PROVE  Books /\ Answers(p)
<1>1. PICK x : x = [op |-> IF e \in Stripe!PaidEvents THEN "complete" ELSE "terminal", o |-> o, e |-> e,
                    prior |-> inbox[o][e], status |-> order[o].status, attached |-> order[o].attached]
  OBVIOUS
<1>2. /\ inbox[o][e] \in EventStatus /\ order[o].status \in OrderStatus /\ order[o].attached \in BOOLEAN
      /\ Payments
  BY DEF IInv, OtherTables, Entitlements, Tables, Row
<1>3. x \in Request
  BY <1>1, <1>2 DEF Request
<1>4. /\ x.op = (IF e \in Stripe!PaidEvents THEN "complete" ELSE "terminal")
      /\ x.o = o /\ x.e = e /\ x.prior = inbox[o][e] /\ x.status = order[o].status
  BY <1>1
<1>5. UNCHANGED <<session, order, cards, unacked, acked, inbox, setup>> /\ tx' = [tx EXCEPT ![p] = x]
  BY <1>1 DEF Deliver, Begin, Stripe!Deliver
<1>6. e \in unacked[o] \union acked[o] /\ e # "completed_unpaid"
  BY DEF Deliver, Stripe!Deliver
<1>7. ASSUME e \in Stripe!PaidEvents
      PROVE  /\ session[o] = "paid"
             /\ x.prior = "succeeded" \/ AlreadyComplete(x.status) => order[o].status \in {"fulfilled", "reversed"}
  BY <1>2, <1>4, <1>6, <1>7 DEF Payments, AlreadyComplete, Done
<1>8. e \notin Stripe!PaidEvents => e \in Stripe!TerminalEvents
  BY <1>6 DEF Stripe!Events
<1>9. Remembers(x, session', order', DOMAIN cards')
  BY <1>4, <1>5, <1>7, <1>8 DEF Remembers
<1> QED BY <1>3, <1>5, <1>9, BooksUntouched DEF Answers

(* What a delivery of a paid event knows when it comes to write.           *)
LEMMA CompleteKnows ==
  ASSUME IInv, NEW p \in Procs, tx[p].op \in {"complete", "completeWrite"}
  PROVE  /\ tx[p].o \in Orders /\ tx[p].e \in Stripe!PaidEvents /\ tx[p].e \in Stripe!Events
         /\ session[tx[p].o] = "paid"
         /\ tx[p].prior = "succeeded" \/ AlreadyComplete(tx[p].status) => Done(tx[p].o)
BY Known DEF Knows, Remembers, Request, Idle, Done, Stripe!Events

LEMMA WebhookAnswers ==
  ASSUME IInv, Grown, NEW p \in Procs,
         \/ ReplayComplete(p) \/ CheckComplete(p) \/ WriteComplete(p) \/ RejectComplete(p)
         \/ RecordTerminal(p) \/ ReadFailure(p) \/ WriteFailure(p)
  PROVE  Books /\ Answers(p)
<1>0. tx[p] \in Request /\ Knows(tx[p]) /\ inbox \in [Orders -> [Stripe!Events -> EventStatus]]
  BY Known DEF IInv, OtherTables
<1>1. ASSUME ReplayComplete(p) PROVE Books /\ Answers(p)
  <2>1. PICK o \in Orders, e \in Stripe!PaidEvents :
          /\ o = tx[p].o /\ e = tx[p].e /\ e \in Stripe!Events /\ session[o] = "paid" /\ Done(o)
    BY <1>1, CompleteKnows DEF ReplayComplete
  <2>2. PICK s : s = (IF inbox[o][e] = "none" THEN "none" ELSE "succeeded")
    OBVIOUS
  <2>3. s \in EventStatus /\ SetEvent(o, e, s) /\ Stripe!Acknowledge(o, e) /\ setup' = setup
    BY <1>1, <2>1, <2>2 DEF ReplayComplete, EventStatus
  <2>4. Done(o)'
    BY <2>1 DEF Grown
  <2>5. Books
    BY <2>1, <2>3, <2>4, BooksAnswered
  <2> QED BY <1>1, <2>5, EndAnswers DEF ReplayComplete
<1>2. ASSUME CheckComplete(p) PROVE Books /\ Answers(p)
  <2>1. tx[p].op = "complete" /\ tx[p].prior # "succeeded" /\ tx[p].status = "pending_payment"
        /\ UNCHANGED <<session, order, cards, unacked, acked, inbox, setup>>
    BY <1>2 DEF CheckComplete, stripeVars
  <2>2. Books
    BY <2>1, BooksUntouched
  <2>3. CASE Throw(p)
    BY <2>1, <2>2, <2>3, ThrowAnswers
  <2>4. CASE tx' = [tx EXCEPT ![p].op = "completeWrite"]
    <3>1. PICK x : x = [tx[p] EXCEPT !.op = "completeWrite"]
      OBVIOUS
    <3>2. tx[p] \in [op : {"complete", "terminal", "completeWrite"}, o : Orders, e : Stripe!Events,
                     prior : EventStatus, status : OrderStatus, attached : BOOLEAN]
      BY <1>0, <2>1 DEF Request, Idle
    <3>3. /\ x \in [op : {"complete", "terminal", "completeWrite"}, o : Orders, e : Stripe!Events,
                    prior : EventStatus, status : OrderStatus, attached : BOOLEAN]
          /\ x.op = "completeWrite" /\ x.o = tx[p].o /\ x.e = tx[p].e
          /\ x.prior = tx[p].prior /\ x.status = tx[p].status
      BY <3>1, <3>2
    <3>4. Remembers(x, session', order', DOMAIN cards')
      BY <1>0, <2>1, <3>3 DEF Knows, Remembers
    <3>5. x \in Request
      BY <3>3 DEF Request
    <3>6. tx' = [tx EXCEPT ![p] = x]
      BY <2>4, <3>1 DEF IInv, OtherTables
    <3> QED BY <2>2, <3>4, <3>5, <3>6 DEF Answers
  <2> QED BY <1>2, <2>3, <2>4 DEF CheckComplete
<1>3. ASSUME WriteComplete(p) PROVE Books /\ Answers(p)
  <2>1. PICK o \in Orders, e \in Stripe!PaidEvents :
          o = tx[p].o /\ e = tx[p].e /\ e \in Stripe!Events /\ session[o] = "paid"
    BY <1>3, CompleteKnows DEF WriteComplete
  <2>2. Done(o)'
    BY <1>3, <2>1, CompleteGrows DEF Done
  <2>3. SetEvent(o, e, "succeeded") /\ Stripe!Acknowledge(o, e) /\ setup' = setup /\ "succeeded" \in EventStatus
    BY <1>3, <2>1 DEF WriteComplete, EventStatus
  <2>4. Books
    BY <2>1, <2>2, <2>3, BooksAnswered
  <2> QED BY <1>3, <2>4, EndAnswers DEF WriteComplete
<1>4. ASSUME RejectComplete(p) PROVE Books /\ Answers(p)
  BY <1>4, BooksUntouched, ThrowAnswers DEF RejectComplete, stripeVars
<1>5. ASSUME RecordTerminal(p) PROVE Books /\ Answers(p)
  <2>1. tx[p].op = "terminal" /\ setup' = setup
    BY <1>5 DEF RecordTerminal
  <2>2. PICK o \in Orders, e \in Stripe!TerminalEvents : o = tx[p].o /\ e = tx[p].e /\ e \in Stripe!Events
    BY <1>0, <2>1 DEF Knows, Remembers, Request, Idle
  <2>3. e \notin Stripe!PaidEvents /\ "succeeded" \in EventStatus
    BY DEF Stripe!PaidEvents, Stripe!TerminalEvents, EventStatus
  <2>4. CASE SetEvent(o, e, "succeeded") /\ Stripe!Acknowledge(o, e) /\ End(p)
    BY <2>1, <2>2, <2>3, <2>4, BooksAnswered, EndAnswers
  <2>5. CASE Throw(p) /\ UNCHANGED <<inbox, stripeVars>>
    BY <2>1, <2>5, BooksUntouched, ThrowAnswers DEF stripeVars
  <2> QED BY <1>5, <2>2, <2>4, <2>5 DEF RecordTerminal
<1>6. ASSUME ReadFailure(p) PROVE Books /\ Answers(p)
  <2>1. PICK o \in Orders, e \in Stripe!Events : o = tx[p].o /\ e = tx[p].e
    BY <1>0, <1>6 DEF ReadFailure, Request, Idle
  <2>2. PICK x : x = [op |-> "failureWrite", o |-> o, e |-> e, prior |-> inbox[o][e]]
    OBVIOUS
  <2>3. x \in Request /\ x.op = "failureWrite"
    BY <1>0, <2>2 DEF Request
  <2>4. Remembers(x, session', order', DOMAIN cards')
    BY <2>3 DEF Remembers
  <2>5. tx' = [tx EXCEPT ![p] = x] \/ End(p)
    BY <1>6, <2>1, <2>2 DEF ReadFailure, End
  <2>6. Answers(p)
    BY <2>3, <2>4, <2>5, EndAnswers DEF Answers
  <2>7. Books
    BY <1>6, BooksUntouched DEF ReadFailure, stripeVars
  <2> QED BY <2>6, <2>7
<1>7. ASSUME WriteFailure(p) PROVE Books /\ Answers(p)
  <2>1. PICK o \in Orders, e \in Stripe!Events : o = tx[p].o /\ e = tx[p].e
    BY <1>0, <1>7 DEF WriteFailure, Request, Idle
  <2>2. PICK s : s = (IF EventRowFree(p) THEN "failed" ELSE inbox[o][e])
    OBVIOUS
  <2>3. s \in EventStatus /\ (s = "succeeded" => inbox[o][e] = "succeeded")
    BY <1>0, <2>2 DEF EventStatus
  <2>4. inbox' = [inbox EXCEPT ![o][e] = s] /\ UNCHANGED <<session, unacked, acked, setup>> /\ End(p)
    BY <1>7, <2>1, <2>2 DEF WriteFailure, SetEvent, stripeVars
  <2> DEFINE x == [inbox[o] EXCEPT ![e] = s]
  <2>5. /\ x \in [Stripe!Events -> EventStatus]
        /\ \A f \in Stripe!Events : x[f] = "succeeded" => inbox[o][f] = "succeeded"
    BY <1>0, <2>3
  <2>6. inbox' = [inbox EXCEPT ![o] = x]
    BY <1>0, <2>4
  <2> HIDE DEF x
  <2>7. /\ inbox' \in [Orders -> [Stripe!Events -> EventStatus]]
        /\ \A a \in Orders, f \in Stripe!Events : inbox'[a][f] = "succeeded" => inbox[a][f] = "succeeded"
    BY <1>0, <2>5, <2>6
  <2>8. Honest
    BY <2>4, <2>7 DEF Honest, Stripe!Events
  <2>9. StripeTables'
    BY <2>4 DEF IInv, StripeTables
  <2> QED BY <2>4, <2>7, <2>8, <2>9, EndAnswers DEF Books
<1> QED BY <1>1, <1>2, <1>3, <1>4, <1>5, <1>6, <1>7

(* Everything else leaves the requests alone.                              *)
LEMMA OthersBooks ==
  ASSUME IInv, \/ \E o \in Orders : IgnoreUnpaid(o) \/ Cancel(o)
               \/ \E c \in 1 .. MaxCards : \/ SubscriptionEnds(c) \/ CancelPlanSubscription(c)
                                           \/ \E u \in Users : SendCard(c, u)
               \/ \E v \in Plans, s \in {"enabled", "closed", "disabled"} : RevisePlan(v, s)
               \/ ReplaceAvailablePlanCards
  PROVE  Books /\ tx' = tx
<1>1. ASSUME NEW o \in Orders, IgnoreUnpaid(o) PROVE Books /\ tx' = tx
  <2>1. /\ "completed_unpaid" \in Stripe!Events /\ "completed_unpaid" \notin Stripe!PaidEvents
        /\ "ignored" \in EventStatus
    BY DEF Stripe!Events, Stripe!PaidEvents, EventStatus
  <2> QED BY <1>1, <2>1, BooksAnswered DEF IgnoreUnpaid
<1>2. ASSUME NEW o \in Orders, Cancel(o) PROVE Books /\ tx' = tx
  BY <1>2, BooksUntouched DEF Cancel, stripeVars
<1>3. ASSUME NEW c \in 1 .. MaxCards, \/ SubscriptionEnds(c) \/ CancelPlanSubscription(c)
                                      \/ \E u \in Users : SendCard(c, u)
      PROVE  Books /\ tx' = tx
  BY <1>3, BooksUntouched DEF SubscriptionEnds, CancelPlanSubscription, SendCard, stripeVars
<1>4. ASSUME NEW v \in Plans, NEW s \in {"enabled", "closed", "disabled"}, RevisePlan(v, s)
      PROVE  Books /\ tx' = tx
  BY <1>4, BooksUntouched DEF RevisePlan, stripeVars
<1>5. ASSUME ReplaceAvailablePlanCards PROVE Books /\ tx' = tx
  BY <1>5, BooksUntouched DEF ReplaceAvailablePlanCards, stripeVars
<1> QED BY <1>1, <1>2, <1>3, <1>4, <1>5

LEMMA BookStep ==
  ASSUME IInv, Grown, Next
  PROVE  Books /\ (tx' = tx \/ \E p \in Procs : Answers(p))
<1>1. ASSUME NEW o \in Orders, StripeSide(o)
      PROVE  Books /\ (tx' = tx \/ \E p \in Procs : Answers(p))
  BY <1>1, StripeBooks
<1>2. ASSUME Checkout PROVE Books /\ \E p \in Procs : Answers(p)
  <2>1. ASSUME NEW p \in Procs, NEW o \in Orders, StartCheckout(p, o) \/ ReadCreditPurchase(p, o)
        PROVE  Books /\ Answers(p)
    BY <2>1, CheckoutAnswers
  <2>2. ASSUME NEW p \in Procs, \/ CreateSession(p) \/ ReadAttach(p) \/ WriteAttach(p)
                                \/ WriteCreditPurchase(p)
        PROVE  Books /\ Answers(p)
    <3>1. PICK o \in Orders : TRUE
      BY <2>2, Known DEF CreateSession, ReadAttach, WriteAttach, WriteCreditPurchase, Request, Idle
    <3> QED BY <2>2, <3>1, CheckoutAnswers
  <2> QED BY <1>2, <2>1, <2>2 DEF Checkout
<1>3. ASSUME Webhook PROVE Books /\ (tx' = tx \/ \E p \in Procs : Answers(p))
  BY <1>3, DeliverAnswers, WebhookAnswers, OthersBooks DEF Webhook
<1>4. ASSUME CardUse \/ Owner PROVE Books /\ (tx' = tx \/ \E p \in Procs : Answers(p))
  BY <1>4, CardAnswers, OthersBooks DEF CardUse, Owner
<1>5. ASSUME (\E o \in Orders : Cancel(o)) \/ (\E p \in Procs : Crash(p))
      PROVE  Books /\ (tx' = tx \/ \E p \in Procs : Answers(p))
  BY <1>5, CardAnswers, OthersBooks
<1> QED BY <1>1, <1>2, <1>3, <1>4, <1>5 DEF Next

----------------------------------------------------------------------------
LEMMA InitInv ==
  ASSUME Init
  PROVE  IInv
<1>1. cards = [c \in {} |-> NoSub] /\ DOMAIN cards = {} /\ NumCards = 0
  BY FS_EmptySet DEF Init, NumCards
<1>2. Tables
  <2>1. order \in [Orders -> Row]
    BY PlanPurchaseAssumption DEF Init, Row, OrderStatus
  <2>2. CardTable
    <3>1. 1 .. 0 = {} /\ 0 \in 0 .. MaxCards
      BY PlanPurchaseAssumption
    <3> QED BY <1>1, <3>1 DEF CardTable
  <2>3. sub \in [1 .. MaxCards -> Subscription] /\ credit \in [Users -> 0 .. Funds]
        /\ revenue \in [Orders -> {0, 1}]
    BY PlanPurchaseAssumption DEF Init, Subscription, NoSub
  <2> QED BY <2>1, <2>2, <2>3 DEF Tables
<1>3. \A o \in Orders : ~Done(o) /\ order[o].card = 0 /\ revenue[o] = 0
  BY DEF Init, Done
<1>4. Rooted /\ OneLeaf /\ HasLeaf
  BY <1>1, <1>3 DEF Rooted, OneLeaf, HasLeaf
<1>5. UsedIsSubscribed /\ Earned
  BY <1>1, <1>3 DEF UsedIsSubscribed, Earned, UsedIn, Lineage, Init, NoSub
<1>6. Debits
  <2>1. \A u : Debited(u) = {}
    BY <1>3, PlanPurchaseAssumption DEF Debited
  <2>2. \A u \in Users : credit[u] = Funds
    BY DEF Init
  <2> QED BY <2>1, <2>2, FS_EmptySet, PlanPurchaseAssumption DEF Debits
<1>7. StripeTables /\ OtherTables
  <2>1. StripeTables
    BY DEF Init, Stripe!Init, StripeTables, Sessions
  <2>2. inbox \in [Orders -> [Stripe!Events -> EventStatus]] /\ setup \in Setups
    BY DEF Init, EventStatus
  <2>3. tx \in [Procs -> Request]
    BY DEF Init, Request
  <2> QED BY <2>1, <2>2, <2>3 DEF OtherTables
<1>8. Payments
  BY <1>3 DEF Init, Stripe!Init, Payments, Stripe!Events
<1>9. Snapshots
  BY DEF Init, Snapshots, Knows, Remembers, Idle
<1> QED BY <1>2, <1>4, <1>5, <1>6, <1>7, <1>8, <1>9 DEF IInv, Entitlements

(* The invariant holds whichever checkouts, deliveries, uses and reversals *)
(* run at once, and wherever a web process is lost.                        *)
THEOREM Invariance == Spec => []IInv
<1>1. IInv /\ [Next]_vars => IInv'
  <2>1. ASSUME IInv, Next PROVE IInv'
    <3>1. Entitlements' /\ Grown
      BY <2>1, EntitlementStep
    <3>2. Books /\ (tx' = tx \/ \E p \in Procs : Answers(p))
      BY <2>1, <3>1, BookStep
    <3>3. Payments' /\ Snapshots' /\ OtherTables'
      BY <2>1, <3>1, <3>2, BooksKeepPayments, AnswersKeep
    <3> QED BY <3>1, <3>2, <3>3 DEF Books, IInv
  <2>2. ASSUME IInv, UNCHANGED vars PROVE IInv'
    <3>1. Entitlements' /\ Grown
      BY <2>2, Untouched, CalmGrows DEF vars, IInv
    <3>2. Books /\ tx' = tx
      BY <2>2, BooksUntouched DEF vars
    <3>3. Payments' /\ Snapshots' /\ OtherTables'
      BY <2>2, <3>1, <3>2, BooksKeepPayments, AnswersKeep
    <3> QED BY <3>1, <3>2, <3>3 DEF Books, IInv
  <2> QED BY <2>1, <2>2
<1> QED BY <1>1, InitInv, PTL DEF Spec

(* Orders, cards, subscriptions and events keep the shape of their tables, *)
(* and nobody's balance is overdrawn.                                      *)
THEOREM TypeCorrect == Spec => []TypeOK
<1>1. IInv => TypeOK
  <2> SUFFICES ASSUME IInv PROVE TypeOK
    OBVIOUS
  <2>1. \A o \in Orders : /\ order[o].status \in OrderStatus /\ order[o].card \in 0 .. MaxCards
                          /\ inbox[o] \in [Stripe!Events -> {"none", "failed", "ignored", "succeeded"}]
                          /\ unacked[o] \subseteq Stripe!Events /\ acked[o] \subseteq Stripe!Events
    BY DEF IInv, Entitlements, Tables, Row, OtherTables, StripeTables, EventStatus
  <2>2. /\ DOMAIN cards = 1 .. NumCards /\ NumCards <= MaxCards
        /\ \A c \in DOMAIN cards : cards[c] \in Card
    BY Numbered, PlanPurchaseAssumption DEF IInv, Entitlements, Tables, CardTable
  <2>3. \A c \in DOMAIN cards : /\ cards[c].order \in Orders /\ cards[c].owner \in Users
                                /\ cards[c].plan \in Plans /\ cards[c].replaces \in 0 .. c - 1
    BY <2>2 DEF IInv, Entitlements, Rooted, Card
  <2>4. \A u \in Users : credit[u] \in 0 .. Funds
    BY DEF IInv, Entitlements, Tables
  <2> QED BY <2>1, <2>2, <2>3, <2>4 DEF TypeOK
<1> QED BY <1>1, Invariance, PTL

(* However deliveries, purchases and cancellations interleave, an order is *)
(* fulfilled with one card, after its payment or with its one debit        *)
(* (completeStripePlanPurchaseOrder, createPlanPurchaseOrder).             *)
THEOREM OneCardEach == Spec => []OneCardPerPayment
<1>1. IInv => OneCardPerPayment
  <2> SUFFICES ASSUME IInv PROVE OneCardPerPayment
    OBVIOUS
  <2>0. Entitlements /\ Payments
    BY DEF IInv
  <2>1. ASSUME NEW o \in Orders PROVE Roots(o) = IF Done(o) THEN {order[o].card} ELSE {}
    BY <2>0 DEF Entitlements, Rooted, Roots, Lineage
  <2>2. ASSUME NEW o \in Orders
        PROVE  /\ Cardinality(Roots(o)) = (IF order[o].status \in {"fulfilled", "reversed"} THEN 1 ELSE 0)
               /\ Roots(o) # {} => Roots(o) = {order[o].card}
               /\ Roots(o) # {} /\ o \notin Balance => session[o] = "paid"
    <3>1. CASE Done(o)
      BY <2>0, <2>1, <3>1, FS_Singleton DEF Done, Payments
    <3>2. CASE ~Done(o)
      BY <2>1, <3>2, FS_EmptySet DEF Done
    <3> QED BY <3>1, <3>2
  <2>3. ASSUME NEW u \in Users
        PROVE  credit[u] = Funds - Cardinality({o \in Balance : Buyer[o] = u /\ Roots(o) # {}})
    <3>1. \A o \in Balance : Roots(o) # {} <=> order[o].card # 0
      BY <2>0, <2>1, PlanPurchaseAssumption DEF Entitlements, Rooted
    <3>2. {o \in Balance : Buyer[o] = u /\ Roots(o) # {}} = Debited(u)
      BY <3>1 DEF Debited
    <3> QED BY <2>0, <3>2 DEF Entitlements, Debits
  <2> QED BY <2>2, <2>3 DEF OneCardPerPayment
<1> QED BY <1>1, Invariance, PTL

(* An acknowledged paid event has its card, however often and late it was  *)
(* delivered.                                                              *)
THEOREM AcknowledgedIsFulfilled == Spec => []AcknowledgedPaymentIsFulfilled
<1>1. IInv => AcknowledgedPaymentIsFulfilled
  BY DEF IInv, Payments, Done, AcknowledgedPaymentIsFulfilled
<1> QED BY <1>1, Invariance, PTL

(* The used cards of an order are none or one.                             *)
LEMMA Uses ==
  ASSUME IInv, NEW o \in Orders
  PROVE  Cardinality({c \in Lineage(o) : sub[c].state # "none"}) = IF UsedIn(o) THEN 1 ELSE 0
<1> DEFINE U == {c \in Lineage(o) : sub[c].state # "none"}
<1>0. Entitlements
  BY DEF IInv
<1>1. \A c \in Lineage(o) : sub[c].state # "none" <=> cards[c].used
  BY <1>0 DEF Entitlements, UsedIsSubscribed, Lineage
<1>2. \A c, d \in U : c = d
  BY <1>0, <1>1 DEF Entitlements, UsedIsSubscribed, OneLeaf, Lineage
<1>3. UsedIn(o) <=> U # {}
  BY <1>1 DEF UsedIn
<1>4. CASE U = {}
  BY <1>3, <1>4, FS_EmptySet
<1>5. ASSUME NEW c \in U PROVE U = {c}
  BY <1>2
<1>6. CASE U # {}
  <2>1. PICK c \in U : U = {c}
    BY <1>5, <1>6
  <2>2. Cardinality(U) = 1
    BY <2>1, FS_Singleton
  <2> QED BY <1>3, <1>6, <2>2
<1> QED BY <1>4, <1>6

(* Of all the cards an order ever had one is used at most, and none that   *)
(* was replaced or invalidated, whichever requests use, send, replace and  *)
(* reverse them at once.                                                   *)
THEOREM OneUse == Spec => []OneUsePerPurchase
<1>1. IInv => OneUsePerPurchase
  <2> SUFFICES ASSUME IInv, NEW o \in Orders
               PROVE  /\ Cardinality({c \in Lineage(o) : sub[c].state # "none"}) <= 1
                      /\ \A c \in Lineage(o) : sub[c].state # "none" => ~Replaced(c) /\ ~cards[c].invalidated
    BY DEF OneUsePerPurchase
  <2>1. Cardinality({c \in Lineage(o) : sub[c].state # "none"}) <= 1
    BY Uses
  <2>2. \A c \in Lineage(o) : sub[c].state # "none" => ~Replaced(c) /\ ~cards[c].invalidated
    BY DEF IInv, Entitlements, UsedIsSubscribed, Lineage
  <2> QED BY <2>1, <2>2
<1> QED BY <1>1, Invariance, PTL

(* The seller has the revenue of an order once its card was used, and once *)
(* only (recordPrepaidSellerRevenue).                                      *)
THEOREM RevenueIsEarned == Spec => []RevenueFollowsUse
<1>1. IInv => RevenueFollowsUse
  <2> SUFFICES ASSUME IInv, NEW o \in Orders
               PROVE  LET uses == Cardinality({c \in Lineage(o) : sub[c].state # "none"}) IN
                      /\ revenue[o] <= uses
                      /\ order[o].status = "fulfilled" => revenue[o] = uses
    BY DEF RevenueFollowsUse
  <2>1. revenue[o] \in {0, 1} /\ Earned
    BY DEF IInv, Entitlements, Tables
  <2>2. (revenue[o] = 1 => UsedIn(o)) /\ (order[o].status = "fulfilled" /\ UsedIn(o) => revenue[o] = 1)
    BY <2>1 DEF Earned
  <2> QED BY <2>1, <2>2, Uses
<1> QED BY <1>1, Invariance, PTL

(* An order that is done stays done, it became done by its payment or out  *)
(* of the balance, and a card that was issued is never dropped.            *)
DoneStaysDone == [][Grown]_vars

THEOREM DoneIsFinal == Spec => DoneStaysDone
<1>1. IInv /\ [Next]_vars => [Grown]_vars
  BY EntitlementStep
<1> QED BY <1>1, Invariance, PTL DEF Spec, DoneStaysDone
=============================================================================
