------------------------- MODULE CreditTopupProofs -------------------------
(* Credit top-ups for any number of top-ups, users and concurrent          *)
(* requests: what a top-up is worth exists once.                           *)
EXTENDS CreditTopup, TLAPS

Statuses == {"none", "credited", "fulfilled"} \union OpenStatus \union ClosedStatus

Row == [status : Statuses, ref : Refs \union {"none", "session"}, evidence : BOOLEAN,
        late : BOOLEAN, url : BOOLEAN, useNow : BOOLEAN]

Card == [owner : Users \union {"none"}, used : BOOLEAN, invalidated : BOOLEAN]

Entry == [credits : 0 .. 1, debits : 0 .. 1, account : Users \union {"none"}]

Request == {Idle} \union [op : {"create"}, t : Topups] \union [op : {"submit"}, t : Topups, r : Refs]

Sessions == {"none", "open", "processing", "paid", "failed", "expired"}

Shape ==
  /\ topup \in [Topups -> Row]
  /\ card \in [Topups -> Card]
  /\ balance \in [Users -> Int]
  /\ ledger \in [Topups -> Entry]
  /\ tx \in [Procs -> Request]
  /\ session \in [Topups -> Sessions]
  /\ unacked \in [Topups -> SUBSET Stripe!Events]
  /\ acked \in [Topups -> SUBSET Stripe!Events]

(* Top-up, card and ledger entry agree.  Before it is paid, and when it is *)
(* refused, a top-up has neither card nor credit ...                       *)
Worthless(c, l) == c = NoCard /\ l.credits = 0 /\ l.debits = 0

(* ... a fulfilled one has a card, and credit once the card was used ...   *)
HasCard(c, l) ==
  c.owner # "none" /\ ~c.invalidated /\ l.credits = (IF c.used THEN 1 ELSE 0) /\ l.debits = 0

(* ... and a reversed one lost the card or had the credit debited.         *)
TakenBack(c, l) == (c.owner = "none" \/ c.used \/ c.invalidated) /\ l.credits = l.debits

Agree(status, c, l) ==
  CASE status = "fulfilled" -> HasCard(c, l)
    [] status = "credited" -> c = NoCard /\ l.credits = 1 /\ l.debits = 0
    [] status = "reversed" -> TakenBack(c, l)
    [] OTHER -> Worthless(c, l)

StagesAgree == \A t \in Topups : Agree(topup[t].status, card[t], ledger[t])

CreditedSomewhere == \A t \in Topups : ledger[t].credits = 1 => ledger[t].account \in Users

(* Stripe announces a payment only for a session that was paid.            *)
EventsAreTrue ==
  \A t \in Topups : (unacked[t] \union acked[t]) \intersect Stripe!PaidEvents # {} => session[t] = "paid"

PaidForStripe ==
  \A t \in Topups : topup[t].status = "fulfilled" /\ Mode[t] = "stripe_checkout" => session[t] = "paid"

IInv ==
  /\ Shape
  /\ StagesAgree
  /\ CreditedSomewhere
  /\ EventsAreTrue
  /\ PaidForStripe

-----------------------------------------------------------------------------
(* The steps of requests, of Stripe and of the owner: what each does to    *)
(* the rows.                                                               *)

(* Statuses of a top-up that is undecided, and of one that is worth        *)
(* nothing and was not reversed.                                           *)
Undecided == {"none"} \union OpenStatus
Plain == Undecided \union (ClosedStatus \ {"reversed"})

LEMMA RowUpdates ==
  ASSUME NEW r \in Row, NEW s \in Statuses, NEW f \in Refs \union {"none", "session"}, NEW b \in BOOLEAN
  PROVE  /\ [r EXCEPT !.status = s] \in Row /\ [r EXCEPT !.status = s].status = s
         /\ [r EXCEPT !.status = s, !.ref = f] \in Row /\ [r EXCEPT !.status = s, !.ref = f].status = s
         /\ [r EXCEPT !.status = s, !.useNow = b] \in Row /\ [r EXCEPT !.status = s, !.useNow = b].status = s
BY DEF Row

(* A step that only opens, closes or notes something about one top-up.     *)
PlainStep ==
  /\ topup' \in [Topups -> Row]
  /\ \A x \in Topups : topup'[x].status = topup[x].status \/ (topup[x].status \in Undecided /\ topup'[x].status \in Plain)
  /\ UNCHANGED <<card, ledger>>

LEMMA PlainSteps ==
  ASSUME Shape, NEW t \in Topups
  PROVE  /\ TimePasses(t) \/ CancelTopup(t) \/ UploadEvidence(t) \/ Reject(t) \/ AttachSession(t) => PlainStep
         /\ CreateCheckoutSession(t) \/ StripeSide(t) \/ IgnoreUnpaid(t) => PlainStep
         /\ \A e \in Stripe!Events : RecordTopupTerminal(t, e) => PlainStep
<1> DEFINE Sets(row) == topup' = [topup EXCEPT ![t] = row]
<1> USE DEF Plain, Undecided, OpenStatus, ClosedStatus
<1>1. ASSUME NEW row \in Row, Sets(row), UNCHANGED <<card, ledger>>,
             row.status = topup[t].status \/ (topup[t].status \in Undecided /\ row.status \in Plain)
      PROVE  PlainStep
  BY <1>1 DEF Shape, PlainStep
<1>2. topup[t] \in Row
  BY DEF Shape
<1>3. ASSUME TimePasses(t) PROVE PlainStep
  <2> DEFINE row == [topup[t] EXCEPT !.late = TRUE]
  <2>1. row \in Row /\ Sets(row) /\ row.status = topup[t].status
    BY <1>2, <1>3 DEF TimePasses, Row, Shape
  <2> QED BY <1>1, <1>3, <2>1 DEF TimePasses
<1>4. ASSUME CancelTopup(t) PROVE PlainStep
  <2> DEFINE row == [topup[t] EXCEPT !.status = "cancelled"]
  <2>1. row \in Row /\ Sets(row) /\ row.status = "cancelled"
    BY <1>2, <1>4 DEF CancelTopup, Row, Shape, Statuses
  <2> QED BY <1>1, <1>4, <2>1 DEF CancelTopup
<1>5. ASSUME UploadEvidence(t) PROVE PlainStep
  <2> DEFINE row == [topup[t] EXCEPT !.status = "pending_review", !.evidence = TRUE]
  <2>1. row \in Row /\ Sets(row) /\ row.status = "pending_review"
    BY <1>2, <1>5 DEF UploadEvidence, Row, Shape, Statuses
  <2> QED BY <1>1, <1>5, <2>1 DEF UploadEvidence
<1>6. ASSUME Reject(t) PROVE PlainStep
  <2> DEFINE row == [topup[t] EXCEPT !.status = "rejected"]
  <2>1. row \in Row /\ Sets(row) /\ row.status = "rejected"
    BY <1>2, <1>6 DEF Reject, Row, Shape, Statuses
  <2> QED BY <1>1, <1>6, <2>1 DEF Reject
<1>7. ASSUME AttachSession(t) PROVE PlainStep
  <2> DEFINE row == [topup[t] EXCEPT !.ref = "session", !.url = TRUE]
  <2>1. row \in Row /\ Sets(row) /\ row.status = topup[t].status
    BY <1>2, <1>7 DEF AttachSession, Row, Shape
  <2> QED BY <1>1, <1>7, <2>1 DEF AttachSession
<1>8. ASSUME CreateCheckoutSession(t) \/ StripeSide(t) \/ IgnoreUnpaid(t) PROVE PlainStep
  BY <1>8 DEF CreateCheckoutSession, StripeSide, IgnoreUnpaid, PlainStep, Shape
<1>9. ASSUME NEW e \in Stripe!Events, RecordTopupTerminal(t, e) PROVE PlainStep
  <2>1. CASE topup' = topup
    BY <1>9, <2>1 DEF RecordTopupTerminal, PlainStep, Shape
  <2>2. CASE topup' # topup
    <3> DEFINE status == IF topup[t].status # "pending_payment" THEN topup[t].status
                         ELSE IF e = "expired" THEN "expired" ELSE "payment_failed"
               row == [topup[t] EXCEPT !.status = status]
    <3>1. row \in Row /\ row.status = status
      BY <1>2 DEF Row, Statuses
    <3>2. Sets(row)
      BY <1>9, <2>2 DEF RecordTopupTerminal
    <3>3. row.status = topup[t].status \/ (topup[t].status \in Undecided /\ row.status \in Plain)
      BY <3>1
    <3> HIDE DEF row
    <3> QED BY <1>1, <1>9, <3>1, <3>2, <3>3 DEF RecordTopupTerminal
  <2> QED BY <2>1, <2>2
<1> QED BY <1>3, <1>4, <1>5, <1>6, <1>7, <1>8, <1>9

LEMMA RequestSteps ==
  ASSUME Shape, NEW p \in Procs
  PROVE  /\ WriteCreate(p) \/ WriteSubmit(p) => PlainStep /\ tx' \in [Procs -> Request]
         /\ \A t \in Topups : ReadCreate(p, t) => PlainStep /\ tx' \in [Procs -> Request]
         /\ \A t \in Topups, r \in Refs : ReadSubmit(p, t, r) => PlainStep /\ tx' \in [Procs -> Request]
<1> USE DEF Plain, Undecided, OpenStatus, ClosedStatus
<1>1. ASSUME WriteCreate(p) PROVE PlainStep /\ tx' \in [Procs -> Request]
  <2> DEFINE t == tx[p].t
             aged == [s \in Topups |-> IF Expired(Payer[t], s)
                                       THEN [topup[s] EXCEPT !.status = "expired"] ELSE topup[s]]
  <2>1. t \in Topups
    BY <1>1 DEF WriteCreate, Shape, Request, Idle
  <2>2. aged \in [Topups -> Row]
    BY DEF Shape, Row, Statuses
  <2>3. \A x \in Topups : aged[x].status = topup[x].status \/ (topup[x].status \in Undecided /\ aged[x].status \in Plain)
    BY DEF Shape, Row, Expired
  <2>4. tx' \in [Procs -> Request]
    BY <1>1 DEF WriteCreate, Shape, Request
  <2>5. CASE topup' = topup
    BY <1>1, <2>4, <2>5 DEF WriteCreate, PlainStep, Shape
  <2>6. CASE topup' # topup
    <3>1. PICK now \in BOOLEAN : /\ topup' = [aged EXCEPT ![t].status = "pending_payment", ![t].useNow = now]
                                 /\ topup[t].status = "none"
      BY <1>1, <2>6 DEF WriteCreate
    <3> DEFINE row == [aged[t] EXCEPT !.status = "pending_payment", !.useNow = now]
    <3>2. row \in Row /\ row.status = "pending_payment"
      <4>1. aged[t] \in Row
        BY <2>1, <2>2
      <4>2. "pending_payment" \in Statuses
        BY DEF Statuses, OpenStatus
      <4> HIDE DEF aged, t
      <4> QED BY ONLY <4>1, <4>2, now \in BOOLEAN DEF Row
    <3> HIDE DEF t
    <3>3. topup' = [aged EXCEPT ![t] = row]
      BY <2>1, <3>1
    <3> HIDE DEF aged, row
    <3> QED BY <1>1, <2>1, <2>2, <2>3, <2>4, <3>1, <3>2, <3>3 DEF PlainStep, WriteCreate
  <2> QED BY <2>5, <2>6
<1>2. ASSUME WriteSubmit(p) PROVE PlainStep /\ tx' \in [Procs -> Request]
  <2> DEFINE t == tx[p].t
             row == [topup[t] EXCEPT !.status = "pending_review", !.ref = tx[p].r]
  <2>1. t \in Topups /\ tx[p].r \in Refs
    BY <1>2 DEF WriteSubmit, Shape, Request, Idle
  <2>2. row \in Row /\ row.status = "pending_review"
    <3>1. topup[t] \in Row
      BY <2>1 DEF Shape
    <3> HIDE DEF t
    <3> QED BY <2>1, <3>1, RowUpdates DEF Statuses
  <2>3. tx' \in [Procs -> Request]
    BY <1>2 DEF WriteSubmit, Shape, Request
  <2>4. topup' = topup \/ (topup' = [topup EXCEPT ![t] = row] /\ topup[t].status = "pending_payment")
    BY <1>2 DEF WriteSubmit
  <2> HIDE DEF row
  <2> QED BY <1>2, <2>1, <2>2, <2>3, <2>4 DEF PlainStep, WriteSubmit, Shape
<1>3. ASSUME NEW t \in Topups, ReadCreate(p, t) PROVE PlainStep /\ tx' \in [Procs -> Request]
  BY <1>3 DEF ReadCreate, PlainStep, Shape, Request
<1>4. ASSUME NEW t \in Topups, NEW r \in Refs, ReadSubmit(p, t, r) PROVE PlainStep /\ tx' \in [Procs -> Request]
  BY <1>4 DEF ReadSubmit, PlainStep, Shape, Request
<1> QED BY <1>1, <1>2, <1>3, <1>4

(* A step that fulfils, credits or reverses one top-up, or uses or sends   *)
(* its card.                                                               *)
WorthOf(t, row, c, l) ==
  /\ topup' = [topup EXCEPT ![t] = row] /\ card' = [card EXCEPT ![t] = c]
  /\ ledger' = [ledger EXCEPT ![t] = l] /\ balance' \in [Users -> Int]

Worth == /\ topup' \in [Topups -> Row] /\ card' \in [Topups -> Card] /\ ledger' \in [Topups -> Entry]
         /\ balance' \in [Users -> Int]
         /\ StagesAgree' /\ CreditedSomewhere'

LEMMA OneTopup ==
  ASSUME Shape, StagesAgree, CreditedSomewhere, NEW t \in Topups, NEW row \in Row, NEW c \in Card, NEW l \in Entry,
         WorthOf(t, row, c, l), Agree(row.status, c, l), l.credits = 1 => l.account \in Users
  PROVE  Worth
BY DEF Shape, Worth, WorthOf, StagesAgree, CreditedSomewhere

LEMMA PlainWorth ==
  ASSUME Shape, StagesAgree, CreditedSomewhere, PlainStep, balance' \in [Users -> Int]
  PROVE  Worth
BY DEF Shape, Worth, PlainStep, StagesAgree, CreditedSomewhere, Agree, Plain, Undecided,
   OpenStatus, ClosedStatus

(* createCreditLedgerEvent.                                                *)
LEMMA CreditEffect ==
  ASSUME Shape, NEW t \in Topups, NEW u \in Users, ledger[t].credits = 0, ledger[t].debits = 0, Credit(t, u)
  PROVE  /\ \E l \in Entry : /\ ledger' = [ledger EXCEPT ![t] = l]
                            /\ l.credits = 1 /\ l.debits = 0 /\ l.account = u
         /\ balance' \in [Users -> Int]
<1> DEFINE l == [ledger[t] EXCEPT !.credits = ledger[t].credits + 1, !.account = u]
<1>1. ledger[t] \in Entry /\ Amount \in Int
  BY CreditTopupAssumption DEF Shape
<1>2. l \in Entry /\ l.credits = 1 /\ l.debits = 0 /\ l.account = u
  <2>1. ASSUME NEW old \in Entry, NEW n \in 0 .. 1
        PROVE  LET new == [old EXCEPT !.credits = n, !.account = u]
               IN new \in Entry /\ new.credits = n /\ new.debits = old.debits /\ new.account = u
    BY DEF Entry
  <2>2. ledger[t].credits + 1 = 1 /\ 1 \in 0 .. 1
    OBVIOUS
  <2>3. l = [ledger[t] EXCEPT !.credits = 1, !.account = u]
    BY <2>2, Zenon
  <2> HIDE DEF l
  <2> QED BY <1>1, <2>1, <2>2, <2>3
<1>3. ledger' = [ledger EXCEPT ![t] = l]
  BY DEF Credit, Shape
<1>4. balance' \in [Users -> Int]
  BY <1>1 DEF Credit, Shape
<1> QED BY <1>2, <1>3, <1>4

LEMMA DebitEffect ==
  ASSUME Shape, NEW t \in Topups, NEW u \in Users, ledger[t].credits = 1, ledger[t].debits = 0, Debit(t, u)
  PROVE  /\ \E l \in Entry : /\ ledger' = [ledger EXCEPT ![t] = l]
                            /\ l.credits = 1 /\ l.debits = 1 /\ l.account = ledger[t].account
         /\ balance' \in [Users -> Int]
<1> DEFINE l == [ledger[t] EXCEPT !.debits = ledger[t].debits + 1]
<1>1. ledger[t] \in Entry /\ Amount \in Int
  BY CreditTopupAssumption DEF Shape
<1>2. l \in Entry /\ l.credits = 1 /\ l.debits = 1 /\ l.account = ledger[t].account
  BY <1>1 DEF Entry
<1>3. ledger' = [ledger EXCEPT ![t] = l]
  BY DEF Debit, Shape
<1>4. balance' \in [Users -> Int]
  BY <1>1 DEF Debit, Shape
<1> QED BY <1>2, <1>3, <1>4

(* createCard, with the immediate use of the card.                         *)
LEMMA Issues ==
  ASSUME Shape, NEW t \in Topups, Agree(topup[t].status, card[t], ledger[t]), topup[t].status \in Plain, IssueCard(t)
  PROVE  \E c \in Card, l \in Entry :
           /\ card' = [card EXCEPT ![t] = c] /\ ledger' = [ledger EXCEPT ![t] = l]
           /\ HasCard(c, l) /\ (l.credits = 1 => l.account \in Users) /\ balance' \in [Users -> Int]
<1> DEFINE c == [owner |-> Payer[t], used |-> topup[t].useNow, invalidated |-> FALSE]
<1>1. Payer[t] \in Users /\ Payer[t] # "none" /\ topup[t].useNow \in BOOLEAN
  BY CreditTopupAssumption DEF Shape, Row
<1>2. Worthless(card[t], ledger[t])
  BY DEF Agree, Plain, Undecided, OpenStatus, ClosedStatus
<1>3. c \in Card /\ card' = [card EXCEPT ![t] = c]
  BY <1>1 DEF Card, IssueCard
<1>4. \E l \in Entry :
        /\ ledger' = [ledger EXCEPT ![t] = l]
        /\ l.credits = (IF topup[t].useNow THEN 1 ELSE 0) /\ l.debits = 0
        /\ l.credits = 1 => l.account \in Users
  <2>1. CASE topup[t].useNow
    BY <1>1, <1>2, <2>1, CreditEffect DEF IssueCard, Worthless
  <2>2. CASE ~topup[t].useNow
    BY <1>2, <2>2 DEF IssueCard, Worthless, Shape
  <2> QED BY <2>1, <2>2
<1>5. balance' \in [Users -> Int]
  BY <1>1, <1>2, CreditEffect DEF IssueCard, Shape, Worthless
<1> QED BY <1>1, <1>3, <1>4, <1>5 DEF HasCard

LEMMA ApproveWorth ==
  ASSUME Shape, StagesAgree, CreditedSomewhere, NEW t \in Topups, Approve(t) PROVE Worth
<1>1. Agree(topup[t].status, card[t], ledger[t]) /\ topup[t] \in Row /\ topup[t].status = "pending_review"
  BY DEF StagesAgree, Shape, Approve
<1>2. CASE Mode[t] = "manual_review"
  <2> DEFINE row == [topup[t] EXCEPT !.status = "fulfilled"]
  <2>1. row \in Row /\ row.status = "fulfilled" /\ topup' = [topup EXCEPT ![t] = row] /\ IssueCard(t)
    BY <1>1, <1>2, RowUpdates DEF Approve, Statuses, Row
  <2>2. PICK c \in Card, l \in Entry :
           /\ card' = [card EXCEPT ![t] = c] /\ ledger' = [ledger EXCEPT ![t] = l]
           /\ HasCard(c, l) /\ (l.credits = 1 => l.account \in Users) /\ balance' \in [Users -> Int]
    BY <1>1, <2>1, Issues DEF Plain, Undecided, OpenStatus
  <2>3. WorthOf(t, row, c, l) /\ Agree(row.status, c, l)
    BY <2>1, <2>2 DEF WorthOf, Agree
  <2> QED BY <2>1, <2>2, <2>3, OneTopup
<1>3. CASE Mode[t] = "legacy"
  <2> DEFINE row == [topup[t] EXCEPT !.status = "credited"]
  <2>1. Payer[t] \in Users
    BY CreditTopupAssumption
  <2>2. row \in Row /\ row.status = "credited" /\ topup' = [topup EXCEPT ![t] = row] /\ card' = card /\ Credit(t, Payer[t])
    BY <1>1, <1>3 DEF Approve, Statuses, Row
  <2>3. Worthless(card[t], ledger[t])
    BY <1>1 DEF Agree
  <2>4. PICK l \in Entry : /\ ledger' = [ledger EXCEPT ![t] = l]
                           /\ l.credits = 1 /\ l.debits = 0 /\ l.account = Payer[t]
    BY <2>1, <2>2, <2>3, CreditEffect DEF Worthless
  <2>5. balance' \in [Users -> Int]
    BY <2>1, <2>2, <2>3, CreditEffect DEF Worthless
  <2>6. WorthOf(t, row, card[t], l) /\ card[t] \in Card /\ Agree(row.status, card[t], l)
    BY <2>2, <2>3, <2>4, <2>5 DEF WorthOf, Agree, Worthless, Shape
  <2> HIDE DEF row
  <2> QED BY <2>1, <2>2, <2>4, <2>6, OneTopup
<1> QED BY <1>2, <1>3, CreditTopupAssumption DEF Approve

LEMMA CompleteWorth ==
  ASSUME Shape, StagesAgree, CreditedSomewhere, NEW t \in Topups, NEW e \in Stripe!Events, CompleteTopup(t, e)
  PROVE  Worth
<1>1. Agree(topup[t].status, card[t], ledger[t]) /\ topup[t] \in Row
  BY DEF StagesAgree, Shape
<1>2. CASE topup[t].status # "pending_payment"
  <2>1. UNCHANGED <<topup, card, ledger, balance>>
    BY <1>2 DEF CompleteTopup
  <2> QED BY <2>1, PlainWorth DEF PlainStep, Shape
<1>3. CASE topup[t].status = "pending_payment"
  <2> DEFINE row == [topup[t] EXCEPT !.status = "fulfilled", !.ref = "session"]
  <2>1. row \in Row /\ row.status = "fulfilled" /\ topup' = [topup EXCEPT ![t] = row] /\ IssueCard(t)
    BY <1>1, <1>3 DEF CompleteTopup, Statuses, Row
  <2>2. PICK c \in Card, l \in Entry :
           /\ card' = [card EXCEPT ![t] = c] /\ ledger' = [ledger EXCEPT ![t] = l]
           /\ HasCard(c, l) /\ (l.credits = 1 => l.account \in Users) /\ balance' \in [Users -> Int]
    BY <1>1, <1>3, <2>1, Issues DEF Plain, Undecided, OpenStatus
  <2>3. WorthOf(t, row, c, l) /\ Agree(row.status, c, l)
    BY <2>1, <2>2 DEF WorthOf, Agree
  <2> HIDE DEF row
  <2> QED BY <2>1, <2>2, <2>3, OneTopup
<1> QED BY <1>2, <1>3

LEMMA CardWorth ==
  ASSUME Shape, StagesAgree, CreditedSomewhere, NEW t \in Topups,
         UseCard(t) \/ \E u \in Users : SendCard(t, u)
  PROVE  Worth
<1>1. /\ Agree(topup[t].status, card[t], ledger[t]) /\ topup[t] \in Row /\ card[t] \in Card /\ ledger[t] \in Entry
      /\ CardAvailable(t) /\ card[t].owner \in Users
  BY DEF StagesAgree, Shape, UseCard, SendCard, CardAvailable, Card
<1>2. topup[t].status = "fulfilled" /\ HasCard(card[t], ledger[t]) /\ ~card[t].used
  BY <1>1 DEF Agree, CardAvailable, Worthless, TakenBack, NoCard
<1>3. topup' = [topup EXCEPT ![t] = topup[t]]
  BY DEF UseCard, SendCard, Shape
<1>4. CASE UseCard(t)
  <2> DEFINE c == [card[t] EXCEPT !.used = TRUE]
  <2>1. c \in Card /\ card' = [card EXCEPT ![t] = c] /\ c.owner = card[t].owner /\ c.used /\ ~c.invalidated
    BY <1>1, <1>2, <1>4 DEF UseCard, Card, HasCard
  <2>2. PICK l \in Entry : /\ ledger' = [ledger EXCEPT ![t] = l]
                           /\ l.credits = 1 /\ l.debits = 0 /\ l.account = card[t].owner
    BY <1>1, <1>2, <1>4, CreditEffect DEF UseCard, HasCard
  <2>3. balance' \in [Users -> Int]
    BY <1>1, <1>2, <1>4, CreditEffect DEF UseCard, HasCard
  <2> HIDE DEF c
  <2>4. WorthOf(t, topup[t], c, l) /\ Agree(topup[t].status, c, l)
    BY <1>2, <1>3, <2>1, <2>2, <2>3 DEF WorthOf, Agree, HasCard
  <2> QED BY <1>1, <2>1, <2>2, <2>4, OneTopup
<1>5. ASSUME NEW u \in Users, SendCard(t, u) PROVE Worth
  <2> DEFINE c == [card[t] EXCEPT !.owner = u]
  <2>1. c \in Card /\ card' = [card EXCEPT ![t] = c] /\ c.owner = u /\ ~c.used /\ ~c.invalidated
    BY <1>1, <1>2, <1>5 DEF SendCard, Card, HasCard
  <2>2. ledger' = [ledger EXCEPT ![t] = ledger[t]] /\ balance' \in [Users -> Int]
    BY <1>5 DEF SendCard, Shape
  <2> HIDE DEF c
  <2>3. WorthOf(t, topup[t], c, ledger[t]) /\ Agree(topup[t].status, c, ledger[t])
    BY <1>2, <1>3, <2>1, <2>2, CreditTopupAssumption DEF WorthOf, Agree, HasCard
  <2>4. ledger[t].credits = 0
    BY <1>2 DEF HasCard
  <2> QED BY <1>1, <2>1, <2>3, <2>4, OneTopup
<1> QED BY <1>4, <1>5

LEMMA ReverseWorth ==
  ASSUME Shape, StagesAgree, CreditedSomewhere, NEW t \in Topups, ReverseTopup(t) PROVE Worth
<1> DEFINE row == [topup[t] EXCEPT !.status = "reversed"]
<1>1. /\ Agree(topup[t].status, card[t], ledger[t]) /\ topup[t] \in Row /\ card[t] \in Card /\ ledger[t] \in Entry
      /\ ledger[t].credits = 1 => ledger[t].account \in Users
  BY DEF StagesAgree, Shape, CreditedSomewhere
<1>2. row \in Row /\ row.status = "reversed" /\ topup' = [topup EXCEPT ![t] = row]
  BY <1>1 DEF ReverseTopup, Statuses, ClosedStatus, Row
<1> HIDE DEF row
<1>3. CASE topup[t].status = "fulfilled" /\ ~card[t].used
  <2> DEFINE c == [card[t] EXCEPT !.invalidated = TRUE]
  <2>1. HasCard(card[t], ledger[t])
    BY <1>1, <1>3 DEF Agree
  <2>2. c \in Card /\ card' = [card EXCEPT ![t] = c] /\ c.invalidated
    BY <1>1, <1>3 DEF ReverseTopup, Card
  <2>3. ledger' = [ledger EXCEPT ![t] = ledger[t]] /\ balance' \in [Users -> Int]
    BY <1>3 DEF ReverseTopup, Shape
  <2> HIDE DEF c
  <2>4. WorthOf(t, row, c, ledger[t]) /\ Agree(row.status, c, ledger[t])
    BY <1>2, <1>3, <2>1, <2>2, <2>3 DEF WorthOf, Agree, HasCard, TakenBack
  <2> QED BY <1>1, <1>2, <2>2, <2>4, OneTopup
<1>4. CASE topup[t].status = "credited" \/ (topup[t].status = "fulfilled" /\ card[t].used)
  <2>1. /\ ledger[t].credits = 1 /\ ledger[t].debits = 0 /\ (card[t].used \/ card[t].owner = "none")
    BY <1>1, <1>4 DEF Agree, HasCard, NoCard
  <2>2. Debit(t, ledger[t].account) /\ card' = [card EXCEPT ![t] = card[t]]
    BY <1>4 DEF ReverseTopup, Shape
  <2>3. PICK l \in Entry : /\ ledger' = [ledger EXCEPT ![t] = l]
                           /\ l.credits = 1 /\ l.debits = 1 /\ l.account = ledger[t].account
    BY <1>1, <2>1, <2>2, DebitEffect
  <2>4. balance' \in [Users -> Int]
    BY <1>1, <2>1, <2>2, DebitEffect
  <2>5. WorthOf(t, row, card[t], l) /\ Agree(row.status, card[t], l)
    BY <1>2, <2>1, <2>2, <2>3, <2>4 DEF WorthOf, Agree, TakenBack
  <2> QED BY <1>1, <1>2, <2>1, <2>3, <2>5, OneTopup
<1> QED BY <1>3, <1>4 DEF ReverseTopup

(* Every step of the system.                                               *)
PlainAction(t) ==
  \/ TimePasses(t) \/ CancelTopup(t) \/ UploadEvidence(t) \/ Reject(t) \/ AttachSession(t)
  \/ CreateCheckoutSession(t) \/ StripeSide(t) \/ IgnoreUnpaid(t)
  \/ \E e \in Stripe!Events : RecordTopupTerminal(t, e)

RequestAction(p) ==
  \/ WriteCreate(p) \/ WriteSubmit(p)
  \/ \E t \in Topups : ReadCreate(p, t) \/ \E r \in Refs : ReadSubmit(p, t, r)

CardAction(t) == UseCard(t) \/ ReverseTopup(t) \/ \E u \in Users : SendCard(t, u)

LEMMA StepCases ==
  ASSUME [Next]_vars
  PROVE  \/ \E p \in Procs : RequestAction(p)
         \/ \E t \in Topups : PlainAction(t) \/ Approve(t) \/ CardAction(t)
         \/ \E t \in Topups, e \in Stripe!Events : CompleteTopup(t, e)
         \/ \E u \in Users : Spend(u)
         \/ UNCHANGED vars
BY DEF Next, RequestAction, PlainAction, CardAction

LEMMA SpendWorth == ASSUME Shape, NEW u \in Users, Spend(u) PROVE PlainStep /\ balance' \in [Users -> Int]
BY DEF Spend, PlainStep, Shape

LEMMA WorthNext == ASSUME Shape, StagesAgree, CreditedSomewhere, [Next]_vars PROVE Worth /\ tx' \in [Procs -> Request]
<1>1. ASSUME NEW p \in Procs, RequestAction(p) PROVE Worth /\ tx' \in [Procs -> Request]
  <2>1. PlainStep /\ tx' \in [Procs -> Request]
    BY <1>1, RequestSteps DEF RequestAction
  <2>2. balance' \in [Users -> Int]
    BY <1>1 DEF RequestAction, WriteCreate, WriteSubmit, ReadCreate, ReadSubmit, Shape
  <2> QED BY <2>1, <2>2, PlainWorth
<1>2. ASSUME NEW t \in Topups, PlainAction(t) PROVE Worth /\ tx' \in [Procs -> Request]
  <2>1. PlainStep
    BY <1>2, PlainSteps DEF PlainAction
  <2>2. balance' \in [Users -> Int] /\ tx' = tx
    BY <1>2 DEF PlainAction, TimePasses, CancelTopup, UploadEvidence, Reject, AttachSession,
       CreateCheckoutSession, StripeSide, IgnoreUnpaid, RecordTopupTerminal, Shape
  <2> QED BY <2>1, <2>2, PlainWorth DEF Shape
<1>3. ASSUME NEW t \in Topups, Approve(t) \/ CardAction(t) PROVE Worth /\ tx' \in [Procs -> Request]
  <2>1. tx' = tx
    BY <1>3 DEF Approve, CardAction, UseCard, ReverseTopup, SendCard
  <2> QED BY <1>3, <2>1, ApproveWorth, CardWorth, ReverseWorth DEF CardAction, Shape
<1>4. ASSUME NEW t \in Topups, NEW e \in Stripe!Events, CompleteTopup(t, e) PROVE Worth /\ tx' \in [Procs -> Request]
  BY <1>4, CompleteWorth DEF CompleteTopup, Shape
<1>5. ASSUME NEW u \in Users, Spend(u) PROVE Worth /\ tx' \in [Procs -> Request]
  BY <1>5, SpendWorth, PlainWorth DEF Spend, Shape
<1>6. CASE UNCHANGED vars
  <2>1. PlainStep /\ balance' = balance /\ tx' = tx
    BY <1>6 DEF vars, PlainStep, Shape
  <2> QED BY <2>1, PlainWorth DEF Shape
<1> QED BY <1>1, <1>2, <1>3, <1>4, <1>5, <1>6, StepCases

(* Stripe and the webhook: events follow payments, and a paid session      *)
(* stays paid.                                                             *)
StripeKept ==
  /\ session' \in [Topups -> Sessions]
  /\ unacked' \in [Topups -> SUBSET Stripe!Events] /\ acked' \in [Topups -> SUBSET Stripe!Events]
  /\ EventsAreTrue'
  /\ \A x \in Topups : session[x] = "paid" => session'[x] = "paid"

LEMMA AnswerKept ==
  ASSUME Shape, EventsAreTrue, NEW t \in Topups, NEW e \in Stripe!Events, Delivering(t, e), Answer(t, e)
  PROVE  StripeKept
BY DEF Shape, EventsAreTrue, Delivering, Answer, StripeKept

LEMMA StripeNext == ASSUME Shape, EventsAreTrue, [Next]_vars PROVE StripeKept
<1>1. ASSUME UNCHANGED stripeVars PROVE StripeKept
  BY <1>1 DEF stripeVars, StripeKept, Shape, EventsAreTrue
<1>2. ASSUME NEW t \in Topups, CreateCheckoutSession(t) PROVE StripeKept
  BY <1>2 DEF CreateCheckoutSession, Stripe!CreateSession, StripeKept, Shape, EventsAreTrue,
     Sessions
<1>3. ASSUME NEW t \in Topups, NEW s \in {"paid", "processing", "failed", "expired"}, NEW e \in Stripe!Events,
             Stripe!Becomes(t, s, e), session[t] # "paid", e \in Stripe!PaidEvents => s = "paid"
      PROVE  StripeKept
  BY <1>3 DEF Stripe!Becomes, StripeKept, Shape, EventsAreTrue, Sessions
<1>4. ASSUME NEW t \in Topups, StripeSide(t) PROVE StripeKept
  BY <1>3, <1>4 DEF StripeSide, Stripe!Pay, Stripe!AsyncSettles, Stripe!SessionExpires,
     Stripe!Events, Stripe!PaidEvents, Stripe!TerminalEvents
<1>5. ASSUME NEW t \in Topups, PlainAction(t) PROVE StripeKept
  <2>1. ASSUME IgnoreUnpaid(t) PROVE StripeKept
    BY <2>1, AnswerKept DEF IgnoreUnpaid, Delivering, Stripe!Events
  <2>2. ASSUME NEW e \in Stripe!Events, RecordTopupTerminal(t, e) PROVE StripeKept
    BY <1>1, <2>2, AnswerKept DEF RecordTopupTerminal
  <2> QED BY <1>1, <1>2, <1>4, <1>5, <2>1, <2>2 DEF PlainAction, TimePasses, CancelTopup,
     UploadEvidence,
          Reject, AttachSession
<1>6. ASSUME NEW t \in Topups, NEW e \in Stripe!Events, CompleteTopup(t, e) PROVE StripeKept
  BY <1>6, AnswerKept DEF CompleteTopup
<1>7. ASSUME NEW p \in Procs, RequestAction(p) PROVE StripeKept
  BY <1>1, <1>7 DEF RequestAction, WriteCreate, WriteSubmit, ReadCreate, ReadSubmit
<1>8. ASSUME NEW t \in Topups, Approve(t) \/ CardAction(t) PROVE StripeKept
  BY <1>1, <1>8 DEF Approve, CardAction, UseCard, ReverseTopup, SendCard
<1> QED BY <1>1, <1>5, <1>6, <1>7, <1>8, StepCases DEF Spend, vars, stripeVars

(* A top-up by Stripe is fulfilled by the webhook only.                    *)
LEMMA PaidNext == ASSUME IInv, [Next]_vars PROVE PaidForStripe'
<1>1. SUFFICES ASSUME NEW x \in Topups, topup'[x].status = "fulfilled", Mode[x] = "stripe_checkout",
                      topup[x].status # "fulfilled"
               PROVE  session[x] = "paid"
  BY StripeNext DEF IInv, PaidForStripe, StripeKept
<1>2. ~PlainStep
  BY <1>1 DEF PlainStep, Plain, Undecided, OpenStatus, ClosedStatus
<1>3. ASSUME NEW t \in Topups, NEW e \in Stripe!Events, CompleteTopup(t, e) PROVE session[x] = "paid"
  <2>1. x = t
    BY <1>1, <1>3 DEF CompleteTopup, IInv, Shape
  <2> QED BY <1>3, <2>1 DEF CompleteTopup, Delivering, IInv, EventsAreTrue
<1>4. ASSUME NEW t \in Topups, Approve(t) PROVE FALSE
  BY <1>1, <1>4 DEF Approve, IInv, Shape
<1>5. ASSUME NEW t \in Topups, CardAction(t) PROVE FALSE
  <2>1. topup' = topup \/ topup' = [topup EXCEPT ![t].status = "reversed"]
    BY <1>5 DEF CardAction, UseCard, ReverseTopup, SendCard
  <2> QED BY <1>1, <2>1 DEF IInv, Shape, Row
<1>6. ~UNCHANGED vars
  BY <1>1 DEF vars
<1> QED BY <1>2, <1>3, <1>4, <1>5, <1>6, StepCases, PlainSteps, RequestSteps, SpendWorth
        DEF PlainAction, RequestAction, IInv

LEMMA InitInv == Init => IInv
<1> SUFFICES ASSUME Init PROVE IInv
  OBVIOUS
<1>1. topup \in [Topups -> Row] /\ \A t \in Topups : topup[t].status \in {"none", "pending_review"}
  BY DEF Init, Row, Statuses, OpenStatus
<1>2. card \in [Topups -> Card] /\ ledger \in [Topups -> Entry]
  BY DEF Init, Card, Entry, NoCard, NoEntry
<1>3. Shape
  BY <1>1, <1>2 DEF Init, Shape, Request, Stripe!Init, Sessions
<1> QED BY <1>1, <1>3 DEF Init, IInv, StagesAgree, Agree, Worthless, NoEntry, CreditedSomewhere,
        EventsAreTrue, PaidForStripe, Stripe!Init

(* Rows, cards and ledger agree at any time, whichever requests,           *)
(* deliveries and reviews interleave.                                      *)
THEOREM Invariance == Spec => []IInv
<1>1. IInv /\ [Next]_vars => IInv'
  BY WorthNext, StripeNext, PaidNext DEF IInv, Shape, Worth, StripeKept
<1> QED BY <1>1, InitInv, PTL DEF Spec

(* Top-ups, cards and the ledger keep the shape of their tables.           *)
THEOREM TypeCorrect == Spec => []TypeOK
<1>1. IInv => TypeOK
  BY DEF IInv, Shape, TypeOK, Row, Card, Entry, Statuses
<1> QED BY <1>1, Invariance, PTL

(* What a top-up is worth exists once, as a card or as credit, and a       *)
(* top-up by Stripe is worth nothing before it was paid                    *)
(* (completeStripeCreditTopup, approveCreditTopup, useCard,                *)
(* reverseCreditTopup).                                                    *)
THEOREM WorthOnce == Spec => []TopupIsWorthOnce
<1>1. IInv => TopupIsWorthOnce
  <2> SUFFICES ASSUME IInv, NEW t \in Topups
               PROVE  /\ (IF CardAvailable(t) THEN 1 ELSE 0) + ledger[t].credits - ledger[t].debits
                         = (IF topup[t].status \in {"fulfilled", "credited"} THEN 1 ELSE 0)
                      /\ topup[t].status = "fulfilled" /\ Mode[t] = "stripe_checkout" => session[t] = "paid"
    BY DEF TopupIsWorthOnce
  <2>1. Agree(topup[t].status, card[t], ledger[t]) /\ card[t] \in Card /\ ledger[t] \in Entry
    BY DEF IInv, StagesAgree, Shape
  <2>2. topup[t].status = "fulfilled" /\ Mode[t] = "stripe_checkout" => session[t] = "paid"
    BY DEF IInv, PaidForStripe
  <2>3. CASE topup[t].status = "fulfilled"
    BY <2>1, <2>2, <2>3 DEF Agree, HasCard, CardAvailable, Card, Entry
  <2>4. CASE topup[t].status = "credited"
    BY <2>1, <2>2, <2>4 DEF Agree, NoCard, CardAvailable
  <2>5. CASE topup[t].status = "reversed"
    BY <2>1, <2>2, <2>5 DEF Agree, TakenBack, CardAvailable, Entry
  <2>6. CASE topup[t].status \notin {"fulfilled", "credited", "reversed"}
    BY <2>1, <2>2, <2>6 DEF Agree, Worthless, NoCard, CardAvailable
  <2> QED BY <2>3, <2>4, <2>5, <2>6
<1> QED BY <1>1, Invariance, PTL

(* A decision on a top-up is final, across the requests that read it       *)
(* before it was made: what was refused, cancelled, expired or reversed    *)
(* stays so, what was granted can only be reversed, and credit, once       *)
(* given, stays booked on the account it went to.                          *)
Final(x) ==
  /\ topup[x].status \in ClosedStatus => topup'[x].status = topup[x].status
  /\ topup[x].status \in {"fulfilled", "credited"} => topup'[x].status \in {topup[x].status, "reversed"}
  /\ ledger[x].credits = 1 => ledger'[x].credits = 1 /\ ledger'[x].account = ledger[x].account
  /\ ledger[x].debits = 1 => ledger'[x].debits = 1

DecisionIsFinal == [][\A x \in Topups : Final(x)]_vars

LEMMA FinalStep == ASSUME IInv, [Next]_vars, NEW x \in Topups PROVE Final(x)
<1>1. Agree(topup[x].status, card[x], ledger[x]) /\ ledger[x] \in Entry /\ topup[x] \in Row
  BY DEF IInv, StagesAgree, Shape
<1>2. ASSUME PlainStep PROVE Final(x)
  BY <1>2 DEF PlainStep, Final, Undecided, OpenStatus, ClosedStatus
<1>3. ASSUME topup'[x] = topup[x], ledger'[x] = ledger[x] PROVE Final(x)
  BY <1>3 DEF Final
<1>4. ASSUME topup[x].status \in {"pending_payment", "pending_review"} PROVE Final(x)
  BY <1>1, <1>4 DEF Final, ClosedStatus, Agree, Worthless
<1>5. ASSUME NEW t \in Topups, Approve(t) \/ \E e \in Stripe!Events : CompleteTopup(t, e) PROVE Final(x)
  <2>1. CASE x = t /\ topup[x].status \in {"pending_payment", "pending_review"}
    BY <1>4, <2>1
  <2>2. CASE x # t \/ topup[x].status \notin {"pending_payment", "pending_review"}
    <3>1. topup'[x] = topup[x] /\ ledger'[x] = ledger[x]
      BY <1>5, <2>2 DEF Approve, CompleteTopup, IssueCard, Credit, IInv, Shape
    <3> QED BY <1>3, <3>1
  <2> QED BY <2>1, <2>2
<1>6. ASSUME NEW t \in Topups, UseCard(t) \/ \E u \in Users : SendCard(t, u) PROVE Final(x)
  <2>1. CASE x # t
    BY <1>3, <1>6, <2>1 DEF UseCard, SendCard, Credit, IInv, Shape
  <2>2. CASE x = t
    <3>1. topup' = topup /\ ledger[x].credits = 0 /\ ledger[x].debits = 0
      BY <1>1, <1>6, <2>2 DEF UseCard, SendCard, CardAvailable, Agree, HasCard, TakenBack,
         Worthless, NoCard
    <3> QED BY <3>1 DEF Final
  <2> QED BY <2>1, <2>2
<1>7. ASSUME NEW t \in Topups, ReverseTopup(t) PROVE Final(x)
  <2>1. CASE x # t
    BY <1>3, <1>7, <2>1 DEF ReverseTopup, Debit, IInv, Shape
  <2>2. CASE x = t
    <3>1. topup[x].status \in {"fulfilled", "credited"} /\ topup'[x].status = "reversed"
      BY <1>1, <1>7, <2>2 DEF ReverseTopup, IInv, Shape, Row
    <3>2. ledger[x].debits = 0
      BY <1>1, <3>1 DEF Agree, HasCard
    <3>3. ledger'[x].credits = ledger[x].credits /\ ledger'[x].account = ledger[x].account
      BY <1>1, <1>7, <2>2 DEF ReverseTopup, Debit, IInv, Shape, Entry
    <3> QED BY <3>1, <3>2, <3>3 DEF Final, ClosedStatus
  <2> QED BY <2>1, <2>2
<1>8. CASE UNCHANGED vars
  BY <1>3, <1>8 DEF vars
<1> QED BY <1>2, <1>5, <1>6, <1>7, <1>8, StepCases, PlainSteps, RequestSteps, SpendWorth
        DEF PlainAction, RequestAction, CardAction, IInv

(* No late submission, delivery, review or redemption overrides a decision *)
(* (the row locks and the WHERE of the updates).                           *)
THEOREM DecisionsAreFinal == Spec => DecisionIsFinal
<1>1. IInv /\ [Next]_vars => [\A x \in Topups : Final(x)]_vars
  BY FinalStep
<1> QED BY <1>1, Invariance, PTL DEF Spec, DecisionIsFinal
=============================================================================
