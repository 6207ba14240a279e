------------------------- MODULE SubscriptionsProofs -------------------------
(***************************************************************************)
(* Proofs about Subscriptions, for any number of products, request ids,    *)
(* orders and requests.  First the types; then what a step may do to a     *)
(* request (its fate); and last that a request id belongs to one request   *)
(* and to one order, though answers are lost and confirmations repeated.   *)
(***************************************************************************)
EXTENDS Subscriptions, TLAPS

Calls == [Call -> Request \cup {None}]

LEMMA ReadTyped ==
  ASSUME NEW kind \in {"assets", "products", "orders"}, NEW by \in {"page", "subscribe"}
  PROVE  /\ Read(kind, by) \in Request
         /\ Read(kind, by).kind = kind /\ Read(kind, by).by = by
BY DEF Read, Blank, Request, Kind

LEMMA TabReadTyped ==
  ASSUME NEW t
  PROVE  /\ TabRead(t) \in Request
         /\ TabRead(t).kind # "subscribe" /\ TabRead(t).by = "page"
<1> DEFINE k == IF t = "products" THEN "products" ELSE "orders"
<1>1. k \in {"assets", "products", "orders"}
  OBVIOUS
<1>2. TabRead(t) = Read(k, "page")
  BY DEF TabRead
<1> HIDE DEF k
<1> QED
  BY <1>1, <1>2, ReadTyped

LEMMA CallFields ==
  ASSUME call \in Calls, NEW c \in Call, call[c] # None
  PROVE  /\ call[c] \in Request
         /\ call[c].kind \in Kind /\ call[c].by \in {"page", "subscribe", "redeem"}
         /\ call[c].product \in Product \cup {None} /\ call[c].amount \in Amount \cup {None}
         /\ call[c].renew \in BOOLEAN
         /\ call[c].key \in Key \cup {None} /\ call[c].first \in Key \cup {None}
         /\ call[c].id \in OrderId \cup {None}
         /\ call[c].stage \in {"sent", "allowed", "refused", "booked", "unjournaled"}
         /\ call[c].reply \in {"none", "ok", "refused", "denied"}
         /\ call[c].products \in SUBSET Product /\ call[c].orders \in SUBSET OrderId
         /\ call[c].here \in BOOLEAN
<1>1. call[c] \in Request
  BY DEF Calls
<1> QED
  BY <1>1 DEF Request

LEMMA PutTyped ==
  ASSUME call \in Calls, NEW c \in Call, NEW x \in Request \cup {None}
  PROVE  [call EXCEPT ![c] = x] \in Calls
BY DEF Calls

LEMMA AskTyped ==
  ASSUME call \in Calls, NEW r \in Request, Ask(r)
  PROVE  call' \in Calls
BY DEF Ask, Calls

LEMMA ChangedTyped ==
  ASSUME call \in Calls, NEW c \in Call, call[c] # None,
         NEW reply \in {"none", "ok", "refused", "denied"},
         NEW stage \in {"sent", "allowed", "refused", "booked", "unjournaled"}
  PROVE  /\ [call[c] EXCEPT !.reply = reply] \in Request
         /\ [call[c] EXCEPT !.stage = stage] \in Request
         /\ [call[c] EXCEPT !.here = FALSE] \in Request
<1>1. call[c] \in Request
  BY CallFields
<1>2. [call[c] EXCEPT !.reply = reply] \in Request
  BY <1>1, Zenon DEF Request
<1>3. [call[c] EXCEPT !.stage = stage] \in Request
  BY <1>1, Zenon DEF Request
<1>4. [call[c] EXCEPT !.here = FALSE] \in Request
  BY <1>1, Zenon DEF Request
<1> QED
  BY <1>2, <1>3, <1>4

LEMMA ReplyTyped ==
  ASSUME call \in Calls, NEW c \in Call, call[c] # None,
         NEW reply \in {"none", "ok", "refused", "denied"}, Reply(c, reply)
  PROVE  call' \in Calls
<1>1. [call[c] EXCEPT !.reply = reply] \in Request
  BY ChangedTyped
<1> QED
  BY <1>1, PutTyped DEF Reply

LEMMA LeftTyped ==
  ASSUME call \in Calls
  PROVE  Left \in Calls
<1>1. \A c \in Call : call[c] # None => [call[c] EXCEPT !.here = FALSE] \in Request
  BY ChangedTyped
<1> QED
  BY <1>1 DEF Left, Calls

LEMMA OrderFields ==
  ASSUME TypeOK, NEW o \in OrderId, order[o] # None
  PROVE  /\ order[o] \in Order
         /\ order[o].key \in Key /\ order[o].first \in Key
         /\ [order[o] EXCEPT !.active = FALSE] \in Order
<1>1. order[o] \in Order
  BY DEF TypeOK
<1> QED
  BY <1>1 DEF Order

LEMMA EndsTyped ==
  ASSUME TypeOK, NEW o \in Active, Ends(o)
  PROVE  order' \in [OrderId -> Order \cup {None}]
<1>1. o \in OrderId /\ order[o] # None
  BY DEF Active
<1>2. [order[o] EXCEPT !.active = FALSE] \in Order
  BY <1>1, OrderFields
<1> QED
  BY <1>2 DEF TypeOK, Ends

-----------------------------------------------------------------------------
\* Types. A request for a subscription is complete.

Whole ==
  \A c \in Call : IsSubscribe(c) =>
    call[c].amount \in Amount /\ call[c].key \in spent /\ call[c].first \in spent

LEMMA TypeStep ==
  ASSUME onSale' \in SUBSET Product, order' \in [OrderId -> Order \cup {None}],
         record' \in [Key -> {"none", "processing", "completed", "failed"}],
         page' \in {"other", "deposit"}, tab' \in {"products", "history"},
         assets' \in BOOLEAN, products' \in SUBSET Product, orders' \in SUBSET OrderId,
         selectedProduct' \in Product \cup {None}, amount' \in Amount \cup {None},
         autoRenew' \in BOOLEAN, selectedOrder' \in OrderId \cup {None},
         open' \in SUBSET Dialog, requestIdRef' \in Key \cup {None},
         spent' \in SUBSET Key, call' \in Calls, first' \in Key \cup {None}
  PROVE  TypeOK'
BY DEF TypeOK, Calls

LEMMA TypeInit == Init => TypeOK
BY DEF Init, TypeOK

LEMMA TypeNext == TypeOK /\ Whole /\ [Next]_vars => TypeOK'
<1> SUFFICES ASSUME TypeOK, Whole, [Next]_vars PROVE TypeOK'
  OBVIOUS
<1> USE DEF server, client, lists, form
<1>0. call \in Calls
  BY DEF TypeOK, Calls
<1>1. ASSUME Visit PROVE TypeOK'
  <2>1. call' \in Calls
    BY <1>0, <1>1, ReadTyped, AskTyped DEF Visit
  <2> QED
    BY <1>1, <2>1, TypeStep DEF TypeOK, Visit
<1>2. ASSUME Leave PROVE TypeOK'
  BY <1>0, <1>2, LeftTyped, TypeStep DEF TypeOK, Leave
<1>3. ASSUME NEW t \in {"products", "history"}, Look(t) PROVE TypeOK'
  <2>1. call' \in Calls
    BY <1>0, <1>3, TabReadTyped, AskTyped DEF Look
  <2> QED
    BY <1>3, <2>1, TypeStep DEF TypeOK, Look
<1>4. ASSUME NEW p \in Product, Select(p) PROVE TypeOK'
  BY <1>0, <1>4, TypeStep DEF TypeOK, Select
<1>5. ASSUME OpenSubscribe PROVE TypeOK'
  BY <1>0, <1>5, TypeStep DEF TypeOK, OpenSubscribe, Shows, Dialog
<1>6. ASSUME NEW x \in Amount \cup {None}, EnterAmount(x) PROVE TypeOK'
  BY <1>0, <1>6, TypeStep DEF TypeOK, EnterAmount
<1>7. ASSUME ToggleAutoRenew PROVE TypeOK'
  BY <1>0, <1>7, TypeStep DEF TypeOK, ToggleAutoRenew
<1>8. ASSUME Submit PROVE TypeOK'
  BY <1>0, <1>8, TypeStep DEF TypeOK, Submit, Shows, Dialog
<1>9. ASSUME NEW d \in Dialog, Close(d) PROVE TypeOK'
  BY <1>0, <1>9, TypeStep DEF TypeOK, Close
<1>10. ASSUME HandleSubscribe PROVE TypeOK'
  <2>1. PICK k \in Key \ spent :
          /\ requestIdRef' = k /\ spent' = spent \cup {k}
          /\ first' = IF first = None THEN k ELSE first
          /\ Ask([Blank EXCEPT !.kind = "subscribe", !.by = "subscribe",
                    !.product = selectedProduct, !.amount = amount, !.renew = autoRenew,
                    !.key = k, !.first = first'])
    BY <1>10 DEF HandleSubscribe
  <2>2. first' \in Key \cup {None}
    BY <2>1 DEF TypeOK
  <2>3. [Blank EXCEPT !.kind = "subscribe", !.by = "subscribe",
           !.product = selectedProduct, !.amount = amount, !.renew = autoRenew,
           !.key = k, !.first = first'] \in Request
    <3>1. /\ selectedProduct \in Product \cup {None} /\ amount \in Amount \cup {None}
          /\ autoRenew \in BOOLEAN /\ k \in Key \cup {None}
      BY <2>1 DEF TypeOK
    <3>2. "subscribe" \in Kind
      BY DEF Kind
    <3>3. Blank \in Request
      BY DEF Blank, Request, Kind
    <3> QED
      BY <2>2, <3>1, <3>2, <3>3, Zenon DEF Request
  <2>4. call' \in Calls
    BY <1>0, <2>1, <2>3, AskTyped
  <2> QED
    BY <1>10, <2>1, <2>2, <2>4, TypeStep DEF TypeOK, HandleSubscribe
<1>11. ASSUME NEW o \in OrderId, OpenRedeem(o) PROVE TypeOK'
  BY <1>0, <1>11, TypeStep DEF TypeOK, OpenRedeem, Shows, Dialog
<1>12. ASSUME HandleRedeem PROVE TypeOK'
  <2>1. [Blank EXCEPT !.kind = "redeem", !.by = "redeem", !.id = selectedOrder] \in Request
    BY DEF TypeOK, Blank, Request, Kind
  <2>2. call' \in Calls
    BY <1>0, <1>12, <2>1, AskTyped DEF HandleRedeem
  <2> QED
    BY <1>12, <2>2, TypeStep DEF TypeOK, HandleRedeem
<1>13. ASSUME NEW c \in Call, Deny(c) PROVE TypeOK'
  <2>1. call' \in Calls
    BY <1>0, <1>13, ReplyTyped DEF Deny, At
  <2> QED
    BY <1>13, <2>1, TypeStep DEF TypeOK, Deny
<1>14. ASSUME NEW c \in Call, AnswerRead(c) PROVE TypeOK'
  <2>1. [call[c] EXCEPT !.reply = "ok", !.products = onSale, !.orders = Active] \in Request
    <3>1. call[c] \in Request
      BY <1>0, <1>14, CallFields DEF AnswerRead, At
    <3>2. onSale \in SUBSET Product /\ Active \in SUBSET OrderId
      BY DEF TypeOK, Active
    <3> QED
      BY <3>1, <3>2, Zenon DEF Request
  <2>2. call' \in Calls
    BY <1>0, <1>14, <2>1, PutTyped DEF AnswerRead
  <2> QED
    BY <1>14, <2>2, TypeStep DEF TypeOK, AnswerRead
<1>15. ASSUME NEW c \in Call, CheckOrCreate(c) PROVE TypeOK'
  <2> DEFINE k == call[c].key
  <2>1. call[c] # None /\ IsSubscribe(c)
    BY <1>15 DEF CheckOrCreate, At, IsSubscribe
  <2>2. k \in Key
    BY <2>1 DEF Whole, TypeOK
  <2>3. record' \in {record, [record EXCEPT ![k] = "processing"]}
    BY <1>15 DEF CheckOrCreate
  <2>4. CASE \E reply \in {"ok", "refused"} : Reply(c, reply)
    <3>1. call' \in Calls
      BY <1>0, <2>1, <2>4, ReplyTyped
    <3> QED
      BY <1>15, <2>2, <2>3, <3>1, TypeStep DEF TypeOK, CheckOrCreate
  <2>5. CASE call' = [call EXCEPT ![c] = [@ EXCEPT !.stage = "allowed"]]
    <3>1. call' \in Calls
      BY <1>0, <2>1, <2>5, ChangedTyped, PutTyped
    <3> QED
      BY <1>15, <2>2, <2>3, <3>1, TypeStep DEF TypeOK, CheckOrCreate
  <2> QED
    BY <1>15, <2>4, <2>5 DEF CheckOrCreate
<1>16. ASSUME NEW c \in Call, Subscribe(c) PROVE TypeOK'
  <2>1. call[c] # None /\ IsSubscribe(c)
    BY <1>16 DEF Subscribe, At, IsSubscribe
  <2>2. \E stage \in {"refused", "booked", "unjournaled"} :
          call' = [call EXCEPT ![c] = [@ EXCEPT !.stage = stage]]
    BY <1>16 DEF Subscribe
  <2>3. call' \in Calls
    <3>1. PICK stage \in {"refused", "booked", "unjournaled"} :
            call' = [call EXCEPT ![c] = [@ EXCEPT !.stage = stage]]
      BY <2>2
    <3>2. [call[c] EXCEPT !.stage = stage] \in Request
      BY <1>0, <2>1, ChangedTyped
    <3> QED
      BY <1>0, <3>1, <3>2, PutTyped
  <2>4. order' \in [OrderId -> Order \cup {None}]
    <3>1. CASE order' = order
      BY <3>1 DEF TypeOK
    <3>2. CASE order' # order
      <4> DEFINE new == [product |-> call[c].product, amount |-> call[c].amount,
                         renew |-> call[c].renew, key |-> call[c].key,
                         first |-> call[c].first, active |-> TRUE]
      <4>1. call[c].product \in Product /\ \E o \in OrderId : order' = [order EXCEPT ![o] = new]
        BY <1>16, <3>2 DEF Subscribe, TypeOK
      <4>2. new \in Order
        BY <1>0, <2>1, <4>1, CallFields DEF Whole, TypeOK, Order
      <4> HIDE DEF new
      <4> QED
        BY <4>1, <4>2 DEF TypeOK
    <3> QED
      BY <3>1, <3>2
  <2> QED
    BY <1>16, <2>3, <2>4, TypeStep DEF TypeOK, Subscribe
<1>17. ASSUME NEW c \in Call, Conclude(c) PROVE TypeOK'
  <2> DEFINE k == call[c].key
  <2>1. call[c] # None /\ IsSubscribe(c)
    BY <1>17 DEF Conclude, At, IsSubscribe
  <2>2. k \in Key
    BY <2>1 DEF Whole, TypeOK
  <2>3. \E status \in {"completed", "failed"} :
          record' = record \/ record' = [record EXCEPT ![k] = status]
    BY <1>17 DEF Conclude
  <2>4. \E reply \in {"ok", "refused"} : Reply(c, reply)
    BY <1>17 DEF Conclude
  <2>5. call' \in Calls
    BY <1>0, <2>1, <2>4, ReplyTyped
  <2>6. record' \in [Key -> {"none", "processing", "completed", "failed"}]
    BY <2>2, <2>3 DEF TypeOK
  <2> QED
    BY <1>17, <2>5, <2>6, TypeStep DEF TypeOK, Conclude
<1>18. ASSUME NEW c \in Call, AnswerRedeem(c) PROVE TypeOK'
  <2>1. \E reply \in {"ok", "refused"} : Reply(c, reply)
    BY <1>18 DEF AnswerRedeem
  <2>2. call' \in Calls
    BY <1>0, <1>18, <2>1, ReplyTyped DEF AnswerRedeem, At
  <2>3. order' \in [OrderId -> Order \cup {None}]
    BY <1>18, EndsTyped DEF AnswerRedeem, TypeOK
  <2> QED
    BY <1>18, <2>2, <2>3, TypeStep DEF TypeOK, AnswerRedeem
<1>19. ASSUME NEW o \in OrderId, Mature(o) PROVE TypeOK'
  BY <1>0, <1>19, EndsTyped, TypeStep DEF TypeOK, Mature
<1>20. ASSUME NEW p \in Product, OffSale(p) PROVE TypeOK'
  BY <1>0, <1>20, TypeStep DEF TypeOK, OffSale
<1>21. ASSUME NEW c \in Call, AssetsLoaded(c) PROVE TypeOK'
  <2>1. call' \in Calls
    BY <1>0, <1>21, TabReadTyped, PutTyped DEF AssetsLoaded, Settled
  <2> QED
    BY <1>21, <2>1, TypeStep DEF TypeOK, AssetsLoaded, Finally
<1>22. ASSUME NEW c \in Call, ListLoaded(c) PROVE TypeOK'
  <2>1. call' \in Calls
    BY <1>0, <1>22, PutTyped DEF ListLoaded, Settled
  <2>2. products' \in SUBSET Product /\ orders' \in SUBSET OrderId
    BY <1>0, <1>22, CallFields DEF ListLoaded, Answered, TypeOK
  <2> QED
    BY <1>22, <2>1, <2>2, TypeStep DEF TypeOK, ListLoaded, Finally
<1>23. ASSUME NEW c \in Call, Subscribed(c) PROVE TypeOK'
  <2>1. PICK d \in Call : call' = [call EXCEPT ![c] = Read("assets", "subscribe"), ![d] = Read("orders", "subscribe")]
    BY <1>23 DEF Subscribed
  <2>2. call' \in Calls
    BY <1>0, <2>1, ReadTyped DEF Calls
  <2> QED
    BY <1>23, <2>2, TypeStep DEF TypeOK, Subscribed
<1>24. ASSUME NEW c \in Call, Redeemed(c) PROVE TypeOK'
  <2>1. PICK d \in Call : call' = [call EXCEPT ![c] = Read("orders", "page"), ![d] = Read("assets", "page")]
    BY <1>24 DEF Redeemed
  <2>2. call' \in Calls
    BY <1>0, <2>1, ReadTyped DEF Calls
  <2> QED
    BY <1>24, <2>2, TypeStep DEF TypeOK, Redeemed
<1>25. ASSUME NEW c \in Call, Refused(c) PROVE TypeOK'
  <2>1. call' \in Calls
    BY <1>0, <1>25, PutTyped DEF Refused, Settled
  <2> QED
    BY <1>25, <2>1, TypeStep DEF TypeOK, Refused, Finally
<1>26. ASSUME NEW c \in Call, Denied(c) PROVE TypeOK'
  <2>1. call' \in Calls
    BY <1>0, <1>26, LeftTyped DEF Denied, Calls
  <2> QED
    BY <1>26, <2>1, TypeStep DEF TypeOK, Denied
<1>27. ASSUME NEW c \in Call, Lost(c) PROVE TypeOK'
  <2>1. call' \in Calls
    BY <1>0, <1>27, ChangedTyped, PutTyped DEF Lost
  <2> QED
    BY <1>27, <2>1, TypeStep DEF TypeOK, Lost, Finally
<1>28. ASSUME NEW c \in Call, Dropped(c) PROVE TypeOK'
  <2>1. call' \in Calls
    BY <1>0, <1>28, PutTyped DEF Dropped, Settled
  <2> QED
    BY <1>28, <2>1, TypeStep DEF TypeOK, Dropped
<1>29. CASE UNCHANGED vars
  BY <1>0, <1>29, TypeStep DEF TypeOK, vars
<1> QED
  BY <1>1, <1>2, <1>3, <1>4, <1>5, <1>6, <1>7, <1>8, <1>9, <1>10, <1>11, <1>12, <1>13, <1>14, <1>15, <1>16, <1>17, <1>18, <1>19, <1>20, <1>21, <1>22, <1>23, <1>24, <1>25, <1>26, <1>27, <1>28, <1>29 DEF Next

-----------------------------------------------------------------------------
\* Most steps draw no request id, book nothing, and await nothing more for a
\* subscription: they are plain.

Carried(c) ==
  /\ call[c] # None
  /\ call'[c].kind = call[c].kind /\ call'[c].by = call[c].by
  /\ call'[c].amount = call[c].amount /\ call'[c].key = call[c].key
  /\ call'[c].first = call[c].first /\ call'[c].stage = call[c].stage
  /\ call'[c].here => call[c].here
  /\ call'[c].reply = call[c].reply \/ call[c].kind # "subscribe" \/ call'[c].reply = "denied"
Reading(c) == call'[c].kind # "subscribe" /\ call'[c].by # "subscribe"
Fate == \A c \in Call : call'[c] # None => Carried(c) \/ Reading(c)

\* The orders stay whose they are.
SameOrders ==
  \A o \in OrderId : order'[o] # None =>
    order[o] # None /\ order'[o].key = order[o].key /\ order'[o].first = order[o].first

Plain ==
  /\ spent' = spent /\ record' = record /\ SameOrders /\ Fate
  /\ first' = first \/ first' = None

LEMMA SameFate == call' = call => Fate
BY DEF Fate, Carried

LEMMA AskFate ==
  ASSUME call \in Calls, NEW r \in Request, Ask(r), r.kind # "subscribe", r.by # "subscribe"
  PROVE  Fate
BY DEF Ask, Fate, Carried, Reading, Calls

LEMMA PutFate ==
  ASSUME call \in Calls, NEW c \in Call, NEW x, call' = [call EXCEPT ![c] = x],
         x # None => x.kind # "subscribe" /\ x.by # "subscribe"
  PROVE  Fate
BY DEF Fate, Carried, Reading, Calls

LEMMA ReplyFate ==
  ASSUME call \in Calls, NEW c \in Call, call[c] # None, NEW reply, Reply(c, reply),
         call[c].kind # "subscribe" \/ reply = "denied"
  PROVE  Fate
<1>1. call[c] \in Request
  BY DEF Calls
<1>2. call'[c] = [call[c] EXCEPT !.reply = reply] /\ \A d \in Call : d # c => call'[d] = call[d]
  BY DEF Reply, Calls
<1>3. Carried(c)
  BY <1>1, <1>2 DEF Carried, Request
<1> QED
  BY <1>2, <1>3 DEF Fate, Carried

LEMMA LeftFate ==
  ASSUME call \in Calls,
         \A c \in Call : call'[c] # None => call[c] # None /\ call'[c] = [call[c] EXCEPT !.here = FALSE]
  PROVE  Fate /\ \A c \in Call : call'[c] # None => ~call'[c].here
<1> SUFFICES ASSUME NEW c \in Call, call'[c] # None PROVE Carried(c) /\ ~call'[c].here
  BY DEF Fate
<1>1. call[c] \in Request /\ call'[c] = [call[c] EXCEPT !.here = FALSE] /\ call[c] # None
  BY DEF Calls
<1> QED
  BY <1>1 DEF Carried, Request

LEMMA LeftShape ==
  ASSUME call \in Calls, NEW c \in Call
  PROVE  Left[c] # None => call[c] # None /\ Left[c] = [call[c] EXCEPT !.here = FALSE]
BY DEF Left

LEMMA EndsSame ==
  ASSUME TypeOK, NEW o \in Active, Ends(o)
  PROVE  SameOrders
<1>1. o \in OrderId /\ order[o] # None /\ order[o] \in Order
  BY OrderFields DEF Active
<1>2. order'[o] = [order[o] EXCEPT !.active = FALSE]
      /\ \A q \in OrderId : q # o => order'[q] = order[q]
  BY <1>1 DEF Ends, TypeOK
<1>3. order'[o].key = order[o].key /\ order'[o].first = order[o].first
  BY <1>1, <1>2 DEF Order
<1> QED
  BY <1>1, <1>2, <1>3 DEF SameOrders

Draws == HandleSubscribe \/ \E c \in Call :
           CheckOrCreate(c) \/ Subscribe(c) \/ Conclude(c) \/ Subscribed(c)

LEMMA PlainNext == TypeOK /\ [Next]_vars => Plain \/ Draws
<1> SUFFICES ASSUME TypeOK, [Next]_vars PROVE Plain \/ Draws
  OBVIOUS
<1> USE DEF server, client, lists, form
<1>0. call \in Calls /\ (order' = order => SameOrders)
  BY DEF TypeOK, Calls, SameOrders
<1>1. ASSUME Visit PROVE Plain
  <2>1. Fate
    BY <1>0, <1>1, ReadTyped, AskFate DEF Visit
  <2> QED
    BY <1>0, <1>1, <2>1 DEF Plain, Visit
<1>2. ASSUME Leave PROVE Plain
  <2>1. Fate
    BY <1>0, <1>2, LeftShape, LeftFate DEF Leave
  <2> QED
    BY <1>0, <1>2, <2>1 DEF Plain, Leave
<1>3. ASSUME NEW t \in {"products", "history"}, Look(t) PROVE Plain
  <2>1. Fate
    BY <1>0, <1>3, TabReadTyped, AskFate, SameFate DEF Look
  <2> QED
    BY <1>0, <1>3, <2>1 DEF Plain, Look
<1>4. ASSUME NEW p \in Product, Select(p) PROVE Plain
  BY <1>0, <1>4, SameFate DEF Plain, Select
<1>5. ASSUME OpenSubscribe PROVE Plain
  BY <1>0, <1>5, SameFate DEF Plain, OpenSubscribe, Shows
<1>6. ASSUME NEW x \in Amount \cup {None}, EnterAmount(x) PROVE Plain
  BY <1>0, <1>6, SameFate DEF Plain, EnterAmount
<1>7. ASSUME ToggleAutoRenew PROVE Plain
  BY <1>0, <1>7, SameFate DEF Plain, ToggleAutoRenew
<1>8. ASSUME Submit PROVE Plain
  BY <1>0, <1>8, SameFate DEF Plain, Submit, Shows
<1>9. ASSUME NEW d \in Dialog, Close(d) PROVE Plain
  BY <1>0, <1>9, SameFate DEF Plain, Close
<1>10. ASSUME HandleSubscribe PROVE Draws
  BY <1>10 DEF Draws
<1>11. ASSUME NEW o \in OrderId, OpenRedeem(o) PROVE Plain
  BY <1>0, <1>11, SameFate DEF Plain, OpenRedeem, Shows
<1>12. ASSUME HandleRedeem PROVE Plain
  <2> DEFINE r == [Blank EXCEPT !.kind = "redeem", !.by = "redeem", !.id = selectedOrder]
  <2>1. r \in Request /\ r.kind = "redeem" /\ r.by = "redeem"
    BY DEF TypeOK, Blank, Request, Kind
  <2>2. Ask(r)
    BY <1>12 DEF HandleRedeem
  <2> HIDE DEF r
  <2>3. Fate
    BY <1>0, <2>1, <2>2, AskFate
  <2> QED
    BY <1>0, <1>12, <2>3 DEF Plain, HandleRedeem
<1>13. ASSUME NEW c \in Call, Deny(c) PROVE Plain
  <2>1. Fate
    BY <1>0, <1>13, ReplyFate DEF Deny, At
  <2> QED
    BY <1>0, <1>13, <2>1 DEF Plain, Deny
<1>14. ASSUME NEW c \in Call, AnswerRead(c) PROVE Plain
  <2>1. call[c] \in Request /\ call[c] # None /\ call[c].kind # "subscribe"
    BY <1>0, <1>14, CallFields DEF AnswerRead, At
  <2>2. call'[c] = [call[c] EXCEPT !.reply = "ok", !.products = onSale, !.orders = Active]
        /\ \A d \in Call : d # c => call'[d] = call[d]
    BY <1>0, <1>14 DEF AnswerRead, Calls
  <2>3. Carried(c)
    BY <2>1, <2>2 DEF Carried, Request
  <2>4. Fate
    BY <2>2, <2>3 DEF Fate, Carried
  <2> QED
    BY <1>0, <1>14, <2>4 DEF Plain, AnswerRead
<1>15. ASSUME NEW c \in Call, CheckOrCreate(c) PROVE Draws
  BY <1>15 DEF Draws
<1>16. ASSUME NEW c \in Call, Subscribe(c) PROVE Draws
  BY <1>16 DEF Draws
<1>17. ASSUME NEW c \in Call, Conclude(c) PROVE Draws
  BY <1>17 DEF Draws
<1>18. ASSUME NEW c \in Call, AnswerRedeem(c) PROVE Plain
  <2>1. Fate
    BY <1>0, <1>18, ReplyFate DEF AnswerRedeem, At
  <2>2. SameOrders
    BY <1>0, <1>18, EndsSame DEF AnswerRedeem
  <2> QED
    BY <1>0, <1>18, <2>1, <2>2 DEF Plain, AnswerRedeem
<1>19. ASSUME NEW o \in OrderId, Mature(o) PROVE Plain
  BY <1>0, <1>19, EndsSame, SameFate DEF Plain, Mature
<1>20. ASSUME NEW p \in Product, OffSale(p) PROVE Plain
  BY <1>0, <1>20, SameFate DEF Plain, OffSale
<1>21. ASSUME NEW c \in Call, AssetsLoaded(c) PROVE Plain
  <2>1. Fate
    BY <1>0, <1>21, TabReadTyped, PutFate DEF AssetsLoaded, Settled
  <2> QED
    BY <1>0, <1>21, <2>1 DEF Plain, AssetsLoaded
<1>22. ASSUME NEW c \in Call, ListLoaded(c) PROVE Plain
  <2>1. Fate
    BY <1>0, <1>22, PutFate DEF ListLoaded, Settled
  <2> QED
    BY <1>0, <1>22, <2>1 DEF Plain, ListLoaded
<1>23. ASSUME NEW c \in Call, Subscribed(c) PROVE Draws
  BY <1>23 DEF Draws
<1>24. ASSUME NEW c \in Call, Redeemed(c) PROVE Plain
  <2>1. PICK d \in Call : call' = [call EXCEPT ![c] = Read("orders", "page"),
                                              ![d] = Read("assets", "page")]
    BY <1>24 DEF Redeemed
  <2>2. Fate
    BY <1>0, <2>1, ReadTyped DEF Fate, Carried, Reading, Calls
  <2> QED
    BY <1>0, <1>24, <2>2 DEF Plain, Redeemed
<1>25. ASSUME NEW c \in Call, Refused(c) PROVE Plain
  <2>1. Fate
    BY <1>0, <1>25, PutFate DEF Refused, Settled
  <2> QED
    BY <1>0, <1>25, <2>1 DEF Plain, Refused
<1>26. ASSUME NEW c \in Call, Denied(c) PROVE Plain
  <2>1. \A d \in Call : call'[d] # None => call'[d] = Left[d]
    BY <1>26 DEF Denied, Left
  <2>2. Fate
    BY <1>0, <2>1, LeftShape, LeftFate
  <2> QED
    BY <1>0, <1>26, <2>2 DEF Plain, Denied
<1>27. ASSUME NEW c \in Call, Lost(c) PROVE Plain
  <2>1. call[c] \in Request /\ call[c] # None
    BY <1>0, <1>27, CallFields DEF Lost
  <2>2. call'[c] = [call[c] EXCEPT !.here = FALSE]
        /\ \A d \in Call : d # c => call'[d] = call[d]
    BY <1>0, <1>27 DEF Lost, Calls
  <2>3. Carried(c)
    BY <2>1, <2>2 DEF Carried, Request
  <2>4. Fate
    BY <2>2, <2>3 DEF Fate, Carried
  <2> QED
    BY <1>0, <1>27, <2>4 DEF Plain, Lost
<1>28. ASSUME NEW c \in Call, Dropped(c) PROVE Plain
  <2>1. Fate
    BY <1>0, <1>28, PutFate DEF Dropped, Settled
  <2> QED
    BY <1>0, <1>28, <2>1 DEF Plain, Dropped
<1>29. CASE UNCHANGED vars
  BY <1>0, <1>29, SameFate DEF Plain, vars
<1> QED
  BY <1>1, <1>2, <1>3, <1>4, <1>5, <1>6, <1>7, <1>8, <1>9, <1>10, <1>11, <1>12, <1>13, <1>14, <1>15, <1>16, <1>17, <1>18, <1>19, <1>20, <1>21, <1>22, <1>23, <1>24, <1>25, <1>26, <1>27, <1>28, <1>29 DEF Next

-----------------------------------------------------------------------------
\* A request id belongs to one request and at most one order, and while the request
\* has not been looked at there is no record of it.

Ids ==
  /\ Whole
  /\ first # None => first \in spent
  /\ \A o \in Made : order[o].key \in spent /\ order[o].first \in spent
  /\ \A k \in Key : record[k] # "none" => k \in spent
  /\ \A c, d \in Call : IsSubscribe(c) /\ IsSubscribe(d) /\ call[c].key = call[d].key => c = d
  /\ \A c \in Call, o \in Made : IsSubscribe(c) /\ call[c].key = order[o].key
       => call[c].stage \in {"booked", "unjournaled"}
  /\ OneOrderPerKey /\ RecordIsNeverFound
  /\ \A c \in Call : IsSubscribe(c) /\ call[c].reply = "refused" => call[c].stage # "booked"

LEMMA IdsInit == Init => Ids
BY DEF Init, Ids, Whole, Made, IsSubscribe, OneOrderPerKey, RecordIsNeverFound, At

LEMMA PlainIds == TypeOK /\ Ids /\ Plain => Ids'
<1> SUFFICES ASSUME TypeOK, Ids, Plain PROVE Ids'
  OBVIOUS
<1>1. \A c \in Call : IsSubscribe(c)' =>
        /\ IsSubscribe(c) /\ call'[c].amount = call[c].amount /\ call'[c].key = call[c].key
        /\ call'[c].first = call[c].first /\ call'[c].stage = call[c].stage
        /\ call'[c].reply = call[c].reply \/ call'[c].reply = "denied"
  BY DEF Plain, Fate, Carried, Reading, IsSubscribe
<1>2. \A o \in Made' : o \in Made /\ order'[o].key = order[o].key /\ order'[o].first = order[o].first
  BY DEF Plain, SameOrders, Made
<1>3. spent' = spent /\ record' = record /\ (first' = first \/ first' = None)
  BY DEF Plain
<1>4. Whole'
  BY <1>1, <1>3 DEF Ids, Whole
<1>5. OneOrderPerKey'
  BY <1>2 DEF Ids, OneOrderPerKey
<1>6. RecordIsNeverFound'
  <2> SUFFICES ASSUME NEW c \in Call, At(c, "subscribe", "sent")'
               PROVE  record'[call'[c].key] = "none"
    BY DEF RecordIsNeverFound
  <2>1. At(c, "subscribe", "sent") /\ call'[c].key = call[c].key
    BY <1>1 DEF At, IsSubscribe
  <2> QED
    BY <1>3, <2>1 DEF Ids, RecordIsNeverFound
<1> QED
  BY <1>1, <1>2, <1>3, <1>4, <1>5, <1>6 DEF Ids

\* What a step does that changes one request for a subscription and leaves the others.
Alone(c) ==
  /\ IsSubscribe(c) /\ \A d \in Call : d # c => call'[d] = call[d]
  /\ call'[c].kind = "subscribe" /\ call'[c].by = call[c].by
  /\ call'[c].amount = call[c].amount /\ call'[c].key = call[c].key
  /\ call'[c].first = call[c].first /\ call'[c].here = call[c].here

LEMMA ReplyAlone ==
  ASSUME call \in Calls, NEW c \in Call, IsSubscribe(c), NEW reply, Reply(c, reply)
  PROVE  Alone(c) /\ call'[c].reply = reply /\ call'[c].stage = call[c].stage
<1>1. call[c] \in Request
  BY DEF Calls, IsSubscribe
<1>2. call'[c] = [call[c] EXCEPT !.reply = reply] /\ \A d \in Call : d # c => call'[d] = call[d]
  BY DEF Reply, Calls
<1> QED
  BY <1>1, <1>2 DEF Alone, Request, IsSubscribe

LEMMA StageAlone ==
  ASSUME call \in Calls, NEW c \in Call, IsSubscribe(c), NEW stage,
         call' = [call EXCEPT ![c] = [@ EXCEPT !.stage = stage]]
  PROVE  Alone(c) /\ call'[c].stage = stage /\ call'[c].reply = call[c].reply
<1>1. call[c] \in Request
  BY DEF Calls, IsSubscribe
<1>2. call'[c] = [call[c] EXCEPT !.stage = stage] /\ \A d \in Call : d # c => call'[d] = call[d]
  BY DEF Calls
<1> QED
  BY <1>1, <1>2 DEF Alone, Request, IsSubscribe

LEMMA CheckFacts ==
  ASSUME TypeOK, NEW c \in Call, CheckOrCreate(c)
  PROVE  /\ Alone(c) /\ IsSubscribe(c) /\ call[c].stage = "sent" /\ call[c].reply = "none"
         /\ \/ call'[c].stage = "sent" /\ call'[c].reply \in {"ok", "refused"}
            \/ call'[c].stage = "allowed" /\ call'[c].reply = "none"
         /\ record' \in {record, [record EXCEPT ![call[c].key] = "processing"]}
<1>1. call \in Calls /\ IsSubscribe(c) /\ call[c].stage = "sent" /\ call[c].reply = "none"
  BY DEF CheckOrCreate, At, IsSubscribe, TypeOK, Calls
<1>2. CASE \E reply \in {"ok", "refused"} : Reply(c, reply)
  BY <1>1, <1>2, ReplyAlone DEF CheckOrCreate
<1>3. CASE call' = [call EXCEPT ![c] = [@ EXCEPT !.stage = "allowed"]]
  BY <1>1, <1>3, StageAlone DEF CheckOrCreate
<1> QED
  BY <1>2, <1>3 DEF CheckOrCreate

LEMMA SubscribeFacts ==
  ASSUME TypeOK, NEW c \in Call, Subscribe(c)
  PROVE  /\ Alone(c) /\ IsSubscribe(c) /\ call[c].stage = "allowed" /\ call[c].reply = "none"
         /\ call'[c].reply = "none"
         /\ \/ call'[c].stage = "refused" /\ order' = order
            \/ /\ call'[c].stage \in {"booked", "unjournaled"}
               /\ \E o \in OrderId :
                    /\ order[o] = None /\ \A q \in OrderId : q # o => order'[q] = order[q]
                    /\ order'[o].key = call[c].key /\ order'[o].first = call[c].first
<1>1. call \in Calls /\ IsSubscribe(c) /\ call[c].stage = "allowed" /\ call[c].reply = "none"
  BY DEF Subscribe, At, IsSubscribe, TypeOK, Calls
<1>2. CASE call' = [call EXCEPT ![c] = [@ EXCEPT !.stage = "refused"]] /\ order' = order
  BY <1>1, <1>2, StageAlone
<1>3. ASSUME NEW stage \in {"booked", "unjournaled"},
             call' = [call EXCEPT ![c] = [@ EXCEPT !.stage = stage]], NEW o \in OrderId,
             order[o] = None,
             order' = [order EXCEPT ![o] =
               [product |-> call[c].product, amount |-> call[c].amount,
                renew |-> call[c].renew, key |-> call[c].key,
                first |-> call[c].first, active |-> TRUE]]
      PROVE  /\ Alone(c) /\ call'[c].reply = "none" /\ call'[c].stage \in {"booked", "unjournaled"}
             /\ \A q \in OrderId : q # o => order'[q] = order[q]
             /\ order'[o].key = call[c].key /\ order'[o].first = call[c].first
  BY <1>1, <1>3, StageAlone DEF TypeOK
<1> QED
  BY <1>1, <1>2, <1>3 DEF Subscribe

LEMMA ConcludeFacts ==
  ASSUME TypeOK, NEW c \in Call, Conclude(c)
  PROVE  /\ Alone(c) /\ IsSubscribe(c) /\ call[c].reply = "none"
         /\ call[c].stage \in {"booked", "refused", "unjournaled"}
         /\ call'[c].stage = call[c].stage
         /\ call'[c].reply = IF call[c].stage = "booked" THEN "ok" ELSE "refused"
         /\ \/ record' = record
            \/ record[call[c].key] # "none" /\ \E s : record' = [record EXCEPT ![call[c].key] = s]
<1>1. call \in Calls /\ IsSubscribe(c) /\ call[c].reply = "none"
      /\ call[c].stage \in {"booked", "refused", "unjournaled"}
  BY DEF Conclude, At, IsSubscribe, TypeOK, Calls
<1>2. Reply(c, IF call[c].stage = "booked" THEN "ok" ELSE "refused")
  BY DEF Conclude
<1>3. \/ record' = record
      \/ record[call[c].key] # "none" /\ \E s : record' = [record EXCEPT ![call[c].key] = s]
  BY DEF Conclude
<1> QED
  BY <1>1, <1>2, <1>3, ReplyAlone

LEMMA HandleFacts ==
  ASSUME TypeOK, HandleSubscribe
  PROVE  /\ page = "deposit" /\ page' = page /\ requestIdRef = None
         /\ order' = order /\ record' = record
         /\ \E k \in Key \ spent, c \in Call :
              /\ requestIdRef' = k /\ spent' = spent \cup {k}
              /\ first' = IF first = None THEN k ELSE first
              /\ call[c] = None /\ \A d \in Call : d # c => call'[d] = call[d]
              /\ call'[c].kind = "subscribe" /\ call'[c].by = "subscribe"
              /\ call'[c].amount \in Amount /\ call'[c].key = k /\ call'[c].first = first'
              /\ call'[c].stage = "sent" /\ call'[c].reply = "none" /\ call'[c].here
<1>1. PICK k \in Key \ spent :
        /\ requestIdRef' = k /\ spent' = spent \cup {k}
        /\ first' = IF first = None THEN k ELSE first
        /\ Ask([Blank EXCEPT !.kind = "subscribe", !.by = "subscribe",
                  !.product = selectedProduct, !.amount = amount, !.renew = autoRenew,
                  !.key = k, !.first = first'])
  BY DEF HandleSubscribe
<1> DEFINE r == [Blank EXCEPT !.kind = "subscribe", !.by = "subscribe",
                   !.product = selectedProduct, !.amount = amount, !.renew = autoRenew,
                   !.key = k, !.first = first']
<1>2. /\ r.kind = "subscribe" /\ r.by = "subscribe" /\ r.amount \in Amount /\ r.key = k
      /\ r.first = first' /\ r.stage = "sent" /\ r.reply = "none" /\ r.here
  BY DEF HandleSubscribe, TypeOK, Blank
<1>3. Ask(r)
  BY <1>1
<1> HIDE DEF r
<1>4. PICK c \in Call : call[c] = None /\ call' = [call EXCEPT ![c] = r]
  BY <1>3 DEF Ask
<1>5. call'[c] = r /\ \A d \in Call : d # c => call'[d] = call[d]
  BY <1>4 DEF TypeOK
<1> QED
  BY <1>1, <1>2, <1>4, <1>5 DEF HandleSubscribe, server

LEMMA SubscribedFacts ==
  ASSUME TypeOK, NEW c \in Call, Subscribed(c)
  PROVE  /\ call[c].here /\ IsSubscribe(c) /\ page' = page /\ requestIdRef' = requestIdRef
         /\ spent' = spent /\ order' = order /\ record' = record /\ first' = None
         /\ \A d \in Call : call'[d] # None =>
              (call'[d] = call[d] /\ d # c) \/ call'[d].kind # "subscribe"
<1>1. PICK d \in Call : call' = [call EXCEPT ![c] = Read("assets", "subscribe"),
                                           ![d] = Read("orders", "subscribe")]
  BY DEF Subscribed
<1>2. /\ Read("assets", "subscribe").kind # "subscribe"
      /\ Read("orders", "subscribe").kind # "subscribe"
  BY ReadTyped
<1>3. \A e \in Call : \/ e # c /\ call'[e] = call[e]
                      \/ call'[e] = Read("assets", "subscribe")
                      \/ call'[e] = Read("orders", "subscribe")
  BY <1>1 DEF TypeOK
<1> QED
  BY <1>2, <1>3 DEF Subscribed, Answered, IsSubscribe, server

LEMMA IdsNext == TypeOK /\ Ids /\ [Next]_vars => Ids'
<1> SUFFICES ASSUME TypeOK, Ids, [Next]_vars PROVE Ids'
  OBVIOUS
<1>0. TypeOK' /\ \A c \in Call : IsSubscribe(c) => call[c].key \in Key
  BY TypeNext DEF Ids, Whole, TypeOK
<1>1. CASE Plain
  BY <1>1, PlainIds
<1>2. CASE HandleSubscribe
  <2>1. PICK k \in Key \ spent, c \in Call :
          /\ spent' = spent \cup {k} /\ first' = IF first = None THEN k ELSE first
          /\ call[c] = None /\ \A d \in Call : d # c => call'[d] = call[d]
          /\ call'[c].amount \in Amount /\ call'[c].key = k /\ call'[c].first = first'
          /\ call'[c].stage = "sent" /\ call'[c].reply = "none"
    BY <1>2, HandleFacts
  <2>a. \A d \in Call : d # c => call'[d] = call[d]
    BY <2>1
  <2>b. call'[c].amount \in Amount /\ call'[c].key = k /\ call'[c].first = first'
    BY <2>1
  <2>c. call'[c].stage = "sent" /\ call'[c].reply = "none" /\ spent' = spent \cup {k}
    BY <2>1
  <2>2. order' = order /\ record' = record /\ Made' = Made
    BY <1>2, HandleFacts DEF Made
  <2>3. \A d \in Call : d # c /\ IsSubscribe(d)' => IsSubscribe(d) /\ call'[d] = call[d]
    <3> SUFFICES ASSUME NEW d \in Call, d # c, IsSubscribe(d)'
                 PROVE  IsSubscribe(d) /\ call'[d] = call[d]
      OBVIOUS
    <3>1. call'[d] = call[d]
      BY <2>a
    <3> QED
      BY <3>1 DEF IsSubscribe
  <2>d. first' \in spent'
    BY <2>1 DEF Ids
  <2>4. Whole'
    BY <2>3, <2>b, <2>c, <2>d DEF Ids, Whole
  <2>5. OneOrderPerKey'
    BY <2>2 DEF Ids, OneOrderPerKey
  <2>6. RecordIsNeverFound'
    <3> SUFFICES ASSUME NEW d \in Call, At(d, "subscribe", "sent")'
                 PROVE  record[call'[d].key] = "none"
      BY <2>2 DEF RecordIsNeverFound
    <3>1. CASE d = c
      BY <2>b, <3>1 DEF Ids, TypeOK
    <3>2. CASE d # c
      BY <2>a, <3>2 DEF Ids, RecordIsNeverFound, At
    <3> QED
      BY <3>1, <3>2
  <2>7. \A d, e \in Call : IsSubscribe(d)' /\ IsSubscribe(e)' /\ call'[d].key = call'[e].key => d = e
    <3>1. \A d \in Call : d # c /\ IsSubscribe(d)' => call'[d].key # k
      BY <2>3 DEF Ids, Whole
    <3>2. \A d, e \in Call : d # c /\ e # c /\ IsSubscribe(d)' /\ IsSubscribe(e)'
            /\ call'[d].key = call'[e].key => d = e
      BY <2>3 DEF Ids
    <3> QED
      BY <2>b, <3>1, <3>2
  <2>8. \A d \in Call, q \in Made' : IsSubscribe(d)' /\ call'[d].key = order'[q].key
          => call'[d].stage \in {"booked", "unjournaled"}
    <3> SUFFICES ASSUME NEW d \in Call, NEW q \in Made, IsSubscribe(d)', call'[d].key = order[q].key
                 PROVE  call'[d].stage \in {"booked", "unjournaled"}
      BY <2>2
    <3>1. d # c
      BY <2>b DEF Ids
    <3> QED
      BY <2>3, <3>1 DEF Ids
  <2>9. \A d \in Call : IsSubscribe(d)' /\ call'[d].reply = "refused" => call'[d].stage # "booked"
    BY <2>3, <2>c DEF Ids
  <2>10. \A q \in Made' : order'[q].key \in spent' /\ order'[q].first \in spent'
    BY <2>2, <2>c DEF Ids
  <2>11. \A j \in Key : record'[j] # "none" => j \in spent'
    BY <2>2, <2>c DEF Ids
  <2> QED
    BY <2>4, <2>5, <2>6, <2>7, <2>8, <2>9, <2>10, <2>11, <2>d DEF Ids
<1>3. ASSUME NEW c \in Call, CheckOrCreate(c) PROVE Ids'
  <2>1. spent' = spent /\ first' = first /\ order' = order /\ Made' = Made
    BY <1>3 DEF CheckOrCreate, client, Made
  <2>2. Alone(c) /\ IsSubscribe(c) /\ call[c].stage = "sent"
    BY <1>3, CheckFacts
  <2>3. \/ call'[c].stage = "sent" /\ call'[c].reply \in {"ok", "refused"}
        \/ call'[c].stage = "allowed" /\ call'[c].reply = "none"
    BY <1>3, CheckFacts
  <2>4. \A k \in Key : k # call[c].key => record'[k] = record[k]
    BY <1>3, CheckFacts DEF TypeOK
  <2>5. \A d \in Call : IsSubscribe(d)' =>
          /\ IsSubscribe(d) /\ call'[d].amount = call[d].amount
          /\ call'[d].key = call[d].key /\ call'[d].first = call[d].first
          /\ d # c => call'[d] = call[d]
    BY <2>2 DEF Alone, IsSubscribe
  <2>6. Whole' /\ OneOrderPerKey'
    BY <2>1, <2>5 DEF Ids, Whole, OneOrderPerKey
  <2>7. RecordIsNeverFound'
    <3> SUFFICES ASSUME NEW d \in Call, At(d, "subscribe", "sent")'
                 PROVE  record'[call'[d].key] = "none"
      BY DEF RecordIsNeverFound
    <3>1. d # c
      BY <2>3 DEF At
    <3>2. At(d, "subscribe", "sent") /\ IsSubscribe(d) /\ call'[d] = call[d]
      BY <2>2, <3>1 DEF At, Alone, IsSubscribe
    <3>3. call[d].key # call[c].key /\ record[call[d].key] = "none"
      BY <2>2, <3>1, <3>2 DEF Ids, RecordIsNeverFound
    <3> QED
      BY <1>0, <2>4, <3>2, <3>3
  <2>8. \A k \in Key : record'[k] # "none" => k \in spent'
    BY <2>1, <2>2, <2>4 DEF Ids, Whole
  <2> QED
    BY <2>1, <2>2, <2>3, <2>5, <2>6, <2>7, <2>8 DEF Ids
<1>4. ASSUME NEW c \in Call, Subscribe(c) PROVE Ids'
  <2>1. spent' = spent /\ first' = first /\ record' = record
    BY <1>4 DEF Subscribe, client
  <2>2. Alone(c) /\ IsSubscribe(c) /\ call[c].stage = "allowed" /\ call'[c].reply = "none"
    BY <1>4, SubscribeFacts
  <2>3. \A d \in Call : IsSubscribe(d)' =>
          /\ IsSubscribe(d) /\ call'[d].amount = call[d].amount
          /\ call'[d].key = call[d].key /\ call'[d].first = call[d].first
          /\ d # c => call'[d] = call[d]
    BY <2>2 DEF Alone, IsSubscribe
  <2>4. Whole'
    BY <2>1, <2>3 DEF Ids, Whole
  <2>5. RecordIsNeverFound'
    <3> SUFFICES ASSUME NEW d \in Call, At(d, "subscribe", "sent")'
                 PROVE  record[call'[d].key] = "none"
      BY <2>1 DEF RecordIsNeverFound
    <3>1. d # c
      BY <1>4, SubscribeFacts DEF At
    <3> QED
      BY <2>2, <3>1 DEF At, Alone, Ids, RecordIsNeverFound
  <2>6. CASE order' = order /\ call'[c].stage = "refused"
    <3>1. Made' = Made /\ OneOrderPerKey'
      BY <2>6 DEF Made, Ids, OneOrderPerKey
    <3> QED
      BY <2>1, <2>2, <2>3, <2>4, <2>5, <2>6, <3>1 DEF Ids
  <2>7. ASSUME call'[c].stage \in {"booked", "unjournaled"}, NEW o \in OrderId,
               order[o] = None, \A q \in OrderId : q # o => order'[q] = order[q],
               order'[o].key = call[c].key, order'[o].first = call[c].first
        PROVE  Ids'
    <3>1. ASSUME NEW q \in Made', q # o PROVE q \in Made /\ order'[q] = order[q]
      <4>1. q \in OrderId /\ order'[q] # None
        BY DEF Made
      <4>2. order'[q] = order[q]
        BY <2>7, <3>1, <4>1
      <4> QED
        BY <4>1, <4>2 DEF Made
    <3>2. \A q \in Made : order[q].key # call[c].key
      BY <2>2 DEF Ids
    <3>3. OneOrderPerKey'
      BY <2>7, <3>1, <3>2 DEF Ids, OneOrderPerKey
    <3>4. \A q \in Made' : order'[q].key \in spent' /\ order'[q].first \in spent'
      BY <2>1, <2>2, <2>7, <3>1 DEF Ids, Whole
    <3>5. \A d \in Call, q \in Made' : IsSubscribe(d)' /\ call'[d].key = order'[q].key
            => call'[d].stage \in {"booked", "unjournaled"}
      BY <2>2, <2>3, <2>7, <3>1, <3>2 DEF Ids
    <3> QED
      BY <2>1, <2>2, <2>3, <2>4, <2>5, <3>3, <3>4, <3>5 DEF Ids
  <2> QED
    BY <1>4, <2>6, <2>7, SubscribeFacts
<1>5. ASSUME NEW c \in Call, Conclude(c) PROVE Ids'
  <2>1. spent' = spent /\ first' = first /\ order' = order /\ Made' = Made
    BY <1>5 DEF Conclude, client, Made
  <2>2. Alone(c) /\ IsSubscribe(c) /\ call'[c].stage = call[c].stage
        /\ call'[c].reply = IF call[c].stage = "booked" THEN "ok" ELSE "refused"
    BY <1>5, ConcludeFacts
  <2>3. \A k \in Key : record[k] = "none" => record'[k] = "none"
    BY <1>5, ConcludeFacts DEF TypeOK
  <2>4. \A d \in Call : IsSubscribe(d)' =>
          /\ IsSubscribe(d) /\ call'[d].amount = call[d].amount /\ call'[d].stage = call[d].stage
          /\ call'[d].key = call[d].key /\ call'[d].first = call[d].first
          /\ d # c => call'[d] = call[d]
    BY <2>2 DEF Alone, IsSubscribe
  <2>5. Whole' /\ OneOrderPerKey'
    BY <2>1, <2>4 DEF Ids, Whole, OneOrderPerKey
  <2>6. RecordIsNeverFound'
    <3> SUFFICES ASSUME NEW d \in Call, At(d, "subscribe", "sent")'
                 PROVE  record'[call'[d].key] = "none"
      BY DEF RecordIsNeverFound
    <3>1. At(d, "subscribe", "sent") /\ IsSubscribe(d) /\ call'[d] = call[d]
      BY <2>2 DEF At, Alone, IsSubscribe
    <3> QED
      BY <1>0, <2>3, <3>1 DEF Ids, RecordIsNeverFound
  <2> QED
    BY <2>1, <2>2, <2>3, <2>4, <2>5, <2>6 DEF Ids
<1>6. ASSUME NEW c \in Call, Subscribed(c) PROVE Ids'
  <2>1. /\ spent' = spent /\ first' = None /\ record' = record /\ order' = order /\ Made' = Made
    BY <1>6, SubscribedFacts DEF Made
  <2>2. \A d \in Call : IsSubscribe(d)' => IsSubscribe(d) /\ call'[d] = call[d]
    BY <1>6, SubscribedFacts DEF IsSubscribe
  <2>3. Whole' /\ OneOrderPerKey'
    BY <2>1, <2>2 DEF Ids, Whole, OneOrderPerKey
  <2>4. RecordIsNeverFound'
    BY <2>1, <2>2 DEF Ids, RecordIsNeverFound, At, IsSubscribe
  <2> QED
    BY <2>1, <2>2, <2>3, <2>4 DEF Ids
<1> QED
  BY <1>1, <1>2, <1>3, <1>4, <1>5, <1>6, PlainNext DEF Draws

\* The types of the page, of the requests and of the orders.
THEOREM SubscriptionsTyped == Spec => []TypeOK
<1>1. Init => TypeOK /\ Ids
  BY TypeInit, IdsInit
<1>2. TypeOK /\ Ids /\ [Next]_vars => TypeOK' /\ Ids'
  BY TypeNext, IdsNext DEF Ids
<1> QED
  BY <1>1, <1>2, PTL DEF Spec

\* Whatever is lost, late or repeated, a request id never makes two orders.
THEOREM KeysAreChargedOnce == Spec => []OneOrderPerKey
<1>1. Init => TypeOK /\ Ids
  BY TypeInit, IdsInit
<1>2. TypeOK /\ Ids /\ [Next]_vars => TypeOK' /\ Ids'
  BY TypeNext, IdsNext DEF Ids
<1>3. Ids => OneOrderPerKey
  BY DEF Ids
<1> QED
  BY <1>1, <1>2, <1>3, PTL DEF Spec

\* And that is not the work of the idempotency records: for the ids of this page the
\* check of the server finds none, so it cannot stop a second order.
THEOREM RecordsAreNeverFound == Spec => []RecordIsNeverFound
<1>1. Init => TypeOK /\ Ids
  BY TypeInit, IdsInit
<1>2. TypeOK /\ Ids /\ [Next]_vars => TypeOK' /\ Ids'
  BY TypeNext, IdsNext DEF Ids
<1>3. Ids => RecordIsNeverFound
  BY DEF Ids
<1> QED
  BY <1>1, <1>2, <1>3, PTL DEF Spec

=============================================================================
