---------------------------- MODULE Subscriptions ----------------------------
(***************************************************************************)
(* The fixed-deposit page of one customer and the endpoints it posts to:   *)
(* a subscription is chosen, confirmed in a dialog, sent with a request id *)
(* as its idempotency key, booked by the server in steps, and answered.    *)
(* Answers arrive in any order or not at all, and the customer may confirm *)
(* again, close any dialog, or leave the page and come back meanwhile.     *)
(***************************************************************************)
CONSTANTS
  Product,    \* products
  Renewable,  \* the products that may renew by themselves
  Amount,     \* amounts within a product's limits
  Key,        \* bound: the request ids generateRequestId can still draw
  OrderId,    \* bound: the orders that can be made
  Call,       \* requests in flight at once
  None

VARIABLES
  onSale,     \* server: the products with status 1
  order,      \* server: wealth_order
  record,     \* server: the idempotency records, of Redis or of the table
  page, tab,  \* the page shown, and its activeTab
  assets,     \* whether the customer's assets have been fetched
  products, orders,                    \* the lists fetched
  selectedProduct, amount, autoRenew,  \* the form
  selectedOrder,
  open,           \* the dialogs open
  requestIdRef,   \* with it isSubscribing, set and reset together
  spent,          \* the request ids drawn
  call,       \* requests, until the server is done and the page has its answer
  first       \* history: the request id a confirmation was first sent with

server == <<onSale, order, record>>
form == <<selectedProduct, amount, autoRenew>>
lists == <<assets, products, orders>>
client == <<page, tab, lists, form, selectedOrder, open, requestIdRef, spent, first>>
vars == <<server, client, call>>

Dialog == {"subscribe", "confirm", "redeem"}
Kind == {"assets", "products", "orders", "subscribe", "redeem"}
Order == [product: Product, amount: Amount, renew: BOOLEAN, key: Key, first: Key,
          active: BOOLEAN]
Request == [kind: Kind, by: {"page", "subscribe", "redeem"},
            product: Product \cup {None}, amount: Amount \cup {None}, renew: BOOLEAN,
            key: Key \cup {None}, first: Key \cup {None}, id: OrderId \cup {None},
            stage: {"sent", "allowed", "refused", "booked", "unjournaled"},
            reply: {"none", "ok", "refused", "denied"},
            products: SUBSET Product, orders: SUBSET OrderId, here: BOOLEAN]

TypeOK ==
  /\ onSale \in SUBSET Product
  /\ order \in [OrderId -> Order \cup {None}]
  /\ record \in [Key -> {"none", "processing", "completed", "failed"}]
  /\ page \in {"other", "deposit"} /\ tab \in {"products", "history"}
  /\ assets \in BOOLEAN /\ products \in SUBSET Product /\ orders \in SUBSET OrderId
  /\ selectedProduct \in Product \cup {None} /\ amount \in Amount \cup {None}
  /\ autoRenew \in BOOLEAN /\ selectedOrder \in OrderId \cup {None}
  /\ open \in SUBSET Dialog
  /\ requestIdRef \in Key \cup {None} /\ spent \in SUBSET Key
  /\ call \in [Call -> Request \cup {None}]
  /\ first \in Key \cup {None}

Init ==
  /\ onSale = Product
  /\ order = [o \in OrderId |-> None]
  /\ record = [k \in Key |-> "none"]
  /\ page = "other" /\ tab = "products"
  /\ assets = FALSE /\ products = {} /\ orders = {}
  /\ selectedProduct = None /\ amount = None /\ autoRenew = FALSE
  /\ selectedOrder = None /\ open = {}
  /\ requestIdRef = None /\ spent = {}
  /\ call = [c \in Call |-> None]
  /\ first = None

-----------------------------------------------------------------------------
\* Requests.

Blank == [kind |-> "assets", by |-> "page", product |-> None, amount |-> None,
          renew |-> FALSE, key |-> None, first |-> None, id |-> None, stage |-> "sent",
          reply |-> "none", products |-> {}, orders |-> {}, here |-> TRUE]
Read(kind, by) == [Blank EXCEPT !.kind = kind, !.by = by]
TabRead(t) == Read(IF t = "products" THEN "products" ELSE "orders", "page")
Ask(r) == \E c \in Call : call[c] = None /\ call' = [call EXCEPT ![c] = r]
\* Whatever the handler awaits after its own request counts with it.
Awaited(by) == {c \in Call : call[c] # None /\ call[c].here /\ call[c].by = by}

-----------------------------------------------------------------------------
\* The customer.

\* The answers of a page that was left find no component.
Left == [c \in Call |-> IF call[c] = None THEN None ELSE [call[c] EXCEPT !.here = FALSE]]

Visit ==
  /\ page = "other" /\ page' = "deposit" /\ tab' = "products"
  /\ assets' = FALSE /\ products' = {} /\ orders' = {}
  /\ selectedProduct' = None /\ amount' = None /\ autoRenew' = FALSE
  /\ selectedOrder' = None /\ open' = {} /\ requestIdRef' = None /\ first' = None
  /\ Ask(Read("assets", "page"))
  /\ UNCHANGED <<server, spent>>

Leave ==
  /\ page = "deposit" /\ page' = "other"
  /\ call' = Left
  /\ UNCHANGED <<server, tab, lists, form, selectedOrder, open, requestIdRef, spent, first>>

\* A dialog is modal: the page under it cannot be used.
AtPage == page = "deposit" /\ open = {}

\* The effects of the tab and of the currency filter fetch the list shown.
Look(t) ==
  /\ AtPage /\ tab' = t
  /\ IF assets THEN Ask(TabRead(t)) ELSE call' = call
  /\ UNCHANGED <<server, page, lists, form, selectedOrder, open, requestIdRef, spent, first>>

\* The amount and the switch stay as they were.
Select(p) ==
  /\ AtPage /\ tab = "products" /\ p \in products
  /\ selectedProduct' = p
  /\ UNCHANGED <<server, page, tab, lists, amount, autoRenew, selectedOrder, open,
                 requestIdRef, spent, call, first>>

Shows(d) == open' = open \cup {d} /\ UNCHANGED <<server, page, tab, lists, requestIdRef, spent, call>>
OpenSubscribe ==
  /\ AtPage /\ tab = "products" /\ selectedProduct # None /\ requestIdRef = None
  /\ Shows("subscribe")
  /\ UNCHANGED <<form, selectedOrder, first>>

\* The form stays open under the confirmation.
AtForm == page = "deposit" /\ open = {"subscribe"}
EnterAmount(x) ==
  /\ AtForm /\ amount' = x
  /\ UNCHANGED <<server, page, tab, lists, selectedProduct, autoRenew, selectedOrder, open,
                 requestIdRef, spent, call, first>>

\* The switch is shown for a product that may renew, and remembered for all.
ToggleAutoRenew ==
  /\ AtForm /\ selectedProduct \in Renewable
  /\ autoRenew' = ~autoRenew
  /\ UNCHANGED <<server, page, tab, lists, selectedProduct, amount, selectedOrder, open,
                 requestIdRef, spent, call, first>>

Submit ==
  /\ AtForm /\ amount # None /\ requestIdRef = None
  /\ Shows("confirm") /\ first' = None
  /\ UNCHANGED <<form, selectedOrder>>

\* Only the Cancel button is disabled while a subscription is under way.
Close(d) ==
  /\ page = "deposit" /\ d \in open /\ (d = "subscribe" => "confirm" \notin open)
  /\ open' = open \ {d}
  /\ first' = IF d = "confirm" THEN None ELSE first
  /\ UNCHANGED <<server, page, tab, lists, form, selectedOrder, requestIdRef, spent, call>>

\* The confirmation stays open until a subscription succeeds.
HandleSubscribe ==
  /\ page = "deposit" /\ "confirm" \in open /\ requestIdRef = None
  /\ selectedProduct # None /\ amount # None
  /\ \E k \in Key \ spent :
       /\ requestIdRef' = k /\ spent' = spent \cup {k}
       /\ first' = IF first = None THEN k ELSE first
       /\ Ask([Blank EXCEPT !.kind = "subscribe", !.by = "subscribe",
                 !.product = selectedProduct, !.amount = amount, !.renew = autoRenew,
                 !.key = k, !.first = first'])
  /\ UNCHANGED <<server, page, tab, lists, form, selectedOrder, open>>

OpenRedeem(o) ==
  /\ AtPage /\ tab = "history" /\ o \in orders
  /\ Shows("redeem") /\ selectedOrder' = o
  /\ UNCHANGED <<form, first>>

\* A redemption carries no key.
HandleRedeem ==
  /\ page = "deposit" /\ "redeem" \in open /\ selectedOrder # None
  /\ Awaited("redeem") = {}
  /\ Ask([Blank EXCEPT !.kind = "redeem", !.by = "redeem", !.id = selectedOrder])
  /\ UNCHANGED <<server, client>>

-----------------------------------------------------------------------------
\* The server.

At(c, kind, stage) ==
  /\ call[c] # None /\ call[c].kind = kind /\ call[c].stage = stage /\ call[c].reply = "none"
Reply(c, reply) == call' = [call EXCEPT ![c] = [@ EXCEPT !.reply = reply]]
Active == {o \in OrderId : order[o] # None /\ order[o].active}

\* The token is refused before the handler runs.
Deny(c) ==
  /\ \E kind \in Kind : At(c, kind, "sent")
  /\ Reply(c, "denied")
  /\ UNCHANGED <<server, client>>

AnswerRead(c) ==
  /\ \E kind \in {"assets", "products", "orders"} : At(c, kind, "sent")
  /\ call' = [call EXCEPT ![c] = [@ EXCEPT !.reply = "ok", !.products = onSale,
                                    !.orders = Active]]
  /\ UNCHANGED <<server, client>>

\* A record found answers for the request. It may be overlooked: Redis reads a
\* missing key as an empty text that does not parse, a read may fail, and in the
\* table a record is taken for abandoned after five minutes. A request that goes
\* ahead may leave no record either.
CheckOrCreate(c) ==
  LET k == call[c].key IN
  /\ At(c, "subscribe", "sent")
  /\ \/ /\ record[k] # "none" /\ record' = record
        /\ \E reply \in CASE record[k] = "completed" -> {"ok"}
                          [] record[k] = "failed" -> {"refused"}
                          [] OTHER -> {"ok", "refused"} : Reply(c, reply)
     \/ /\ record' \in {record, [record EXCEPT ![k] = "processing"]}
        /\ call' = [call EXCEPT ![c] = [@ EXCEPT !.stage = "allowed"]]
  /\ UNCHANGED <<onSale, order, client>>

\* Refused as well when the balance or the quota does not allow it. An order whose
\* journal row cannot be written stays, and the request fails.
Subscribe(c) ==
  LET r == call[c]
      Stage(s) == call' = [call EXCEPT ![c] = [@ EXCEPT !.stage = s]]
  IN  /\ At(c, "subscribe", "allowed")
      /\ \/ Stage("refused") /\ order' = order
         \/ /\ r.product \in onSale
            /\ Stage("booked") \/ Stage("unjournaled")
            /\ \E o \in OrderId :
                 /\ order[o] = None
                 /\ order' = [order EXCEPT ![o] =
                      [product |-> r.product, amount |-> r.amount, renew |-> r.renew,
                       key |-> r.key, first |-> r.first, active |-> TRUE]]
      /\ UNCHANGED <<onSale, record, client>>

\* Complete and Fail update a record that exists, if the store allows it.
Conclude(c) ==
  LET k == call[c].key
      ok == call[c].stage = "booked"
      status == IF ok THEN "completed" ELSE "failed"
  IN  /\ \E s \in {"booked", "refused", "unjournaled"} : At(c, "subscribe", s)
      /\ Reply(c, IF ok THEN "ok" ELSE "refused")
      /\ record' \in {record} \cup
           (IF record[k] = "none" THEN {} ELSE {[record EXCEPT ![k] = status]})
      /\ UNCHANGED <<onSale, order, client>>

Ends(o) == order' = [order EXCEPT ![o] = [@ EXCEPT !.active = FALSE]]
AnswerRedeem(c) ==
  LET o == call[c].id IN
  /\ At(c, "redeem", "sent")
  /\ \/ o \in Active /\ Ends(o) /\ Reply(c, "ok")
     \/ order' = order /\ Reply(c, "refused")
  /\ UNCHANGED <<onSale, record, client>>

\* The daily run settles an order that has matured.
Mature(o) ==
  /\ o \in Active /\ Ends(o)
  /\ UNCHANGED <<onSale, record, client, call>>

OffSale(p) ==
  /\ p \in onSale /\ onSale' = onSale \ {p}
  /\ UNCHANGED <<order, record, client, call>>

-----------------------------------------------------------------------------
\* Answers reach the page that asked.

Answered(c, kind, reply) ==
  call[c] # None /\ call[c].here /\ call[c].kind = kind /\ call[c].reply = reply
Settled(c) == [call EXCEPT ![c] = None]
\* What handleSubscribe does at last, when nothing it awaits is left.
Finally(c) ==
  requestIdRef' = IF Awaited("subscribe") = {c} THEN None ELSE requestIdRef

\* A change in the number of assets makes the effects fetch the tab's list.
AssetsLoaded(c) ==
  /\ Answered(c, "assets", "ok")
  /\ \/ call' = Settled(c) /\ assets' = assets
     \/ call' = [call EXCEPT ![c] = TabRead(tab)] /\ assets' = TRUE
  /\ Finally(c)
  /\ UNCHANGED <<server, page, tab, products, orders, form, selectedOrder, open, spent, first>>

ListLoaded(c) ==
  /\ \/ Answered(c, "products", "ok") /\ products' = call[c].products /\ orders' = orders
     \/ Answered(c, "orders", "ok") /\ orders' = call[c].orders /\ products' = products
  /\ call' = Settled(c)
  /\ Finally(c)
  /\ UNCHANGED <<server, page, tab, assets, form, selectedOrder, open, spent, first>>

\* Any successful status counts, also that of a request being processed.
Subscribed(c) ==
  /\ Answered(c, "subscribe", "ok")
  /\ open' = open \ {"confirm", "subscribe"} /\ first' = None
  /\ selectedProduct' = None /\ amount' = None /\ autoRenew' = FALSE
  /\ \E d \in Call :
       /\ call[d] = None
       /\ call' = [call EXCEPT ![c] = Read("assets", "subscribe"),
                               ![d] = Read("orders", "subscribe")]
  /\ UNCHANGED <<server, page, tab, lists, selectedOrder, requestIdRef, spent>>

Redeemed(c) ==
  /\ Answered(c, "redeem", "ok")
  /\ open' = open \ {"redeem"}
  /\ \E d \in Call :
       /\ call[d] = None
       /\ call' = [call EXCEPT ![c] = Read("orders", "page"), ![d] = Read("assets", "page")]
  /\ UNCHANGED <<server, page, tab, lists, form, selectedOrder, requestIdRef, spent, first>>

\* Only a message is shown.
Refused(c) ==
  /\ Answered(c, "subscribe", "refused") \/ Answered(c, "redeem", "refused")
  /\ call' = Settled(c)
  /\ Finally(c)
  /\ UNCHANGED <<server, page, tab, lists, form, selectedOrder, open, spent, first>>

\* The page forgets the token and goes to the login page.
Denied(c) ==
  /\ \E kind \in Kind : Answered(c, kind, "denied")
  /\ page' = "other"
  /\ call' = [Left EXCEPT ![c] = None]
  /\ UNCHANGED <<server, tab, lists, form, selectedOrder, open, requestIdRef, spent, first>>

\* The request or its answer is lost: the page is told so, the server may go on.
Lost(c) ==
  /\ call[c] # None /\ call[c].here
  /\ call' = [call EXCEPT ![c] = [@ EXCEPT !.here = FALSE]]
  /\ Finally(c)
  /\ UNCHANGED <<server, page, tab, lists, form, selectedOrder, open, spent, first>>

Dropped(c) ==
  /\ call[c] # None /\ ~call[c].here
  /\ call[c].reply # "none" \/ call[c].stage = "sent"
  /\ call' = Settled(c)
  /\ UNCHANGED <<server, client>>

Next ==
  \/ Visit \/ Leave \/ OpenSubscribe \/ ToggleAutoRenew \/ Submit
  \/ HandleSubscribe \/ HandleRedeem
  \/ \E t \in {"products", "history"} : Look(t)
  \/ \E p \in Product : Select(p) \/ OffSale(p)
  \/ \E x \in Amount \cup {None} : EnterAmount(x)
  \/ \E d \in Dialog : Close(d)
  \/ \E o \in OrderId : OpenRedeem(o) \/ Mature(o)
  \/ \E c \in Call :
       \/ Deny(c) \/ AnswerRead(c) \/ CheckOrCreate(c) \/ Subscribe(c) \/ Conclude(c)
       \/ AnswerRedeem(c) \/ AssetsLoaded(c) \/ ListLoaded(c) \/ Subscribed(c)
       \/ Redeemed(c) \/ Refused(c) \/ Denied(c) \/ Lost(c) \/ Dropped(c)

Spec == Init /\ [][Next]_vars

-----------------------------------------------------------------------------
\* Properties.

Made == {o \in OrderId : order[o] # None}
IsSubscribe(c) == call[c] # None /\ call[c].kind = "subscribe"

\* One confirmation makes one order, however often it is clicked: the request id is
\* drawn at the first attempt, a retry uses it again and the server charges once.
OneOrderPerConfirmation ==
  \A o, p \in Made : order[o].first = order[p].first => o = p

\* A request id is charged once.
OneOrderPerKey == \A o, p \in Made : order[o].key = order[p].key => o = p

\* The check for an earlier request with the same id is never one that finds it: the
\* page draws a new id for every attempt, so the mechanism cannot stop a retry.
RecordIsNeverFound ==
  \A c \in Call : At(c, "subscribe", "sent") => record[call[c].key] = "none"
=============================================================================
