-------------------------- MODULE WealthOrdersProofs --------------------------
(***************************************************************************)
(* Proofs about fixed-term orders, for any numbers of customers, requests, *)
(* schedulers, orders and days.  Money that several jobs and orders share  *)
(* is a sum over them; the provers cannot add up an unknown number of      *)
(* terms, but they can count, so that a sum is the number of its units.    *)
(***************************************************************************)
EXTENDS WealthOrders, FiniteSetTheorems, WellFoundedInduction, TLAPS

-----------------------------------------------------------------------------
\* Sums

\* One pair for every unit of every f[x].
Units(f) == {e \in (DOMAIN f) \X (Nat \ {0}) : e[2] <= f[e[1]]}
Total(f) == Cardinality(Units(f))

\* The units at one place.
LEMMA ColumnSize ==
  ASSUME NEW x, NEW n \in Nat
  PROVE  IsFiniteSet({x} \X (1..n)) /\ Cardinality({x} \X (1..n)) = n
<1>1. IsFiniteSet(1..n) /\ Cardinality(1..n) = n
  BY FS_Interval
<1>2. IsFiniteSet({x}) /\ Cardinality({x}) = 1
  BY FS_Singleton
<1>3. /\ IsFiniteSet({x} \X (1..n))
      /\ Cardinality({x} \X (1..n)) = Cardinality({x}) * Cardinality(1..n)
  BY <1>1, <1>2, FS_Product
<1> QED
  BY <1>1, <1>2, <1>3

LEMMA Disjoint ==
  ASSUME NEW S, NEW T, IsFiniteSet(S), IsFiniteSet(T), S \cap T = {}
  PROVE  IsFiniteSet(S \cup T) /\ Cardinality(S \cup T) = Cardinality(S) + Cardinality(T)
<1>1. /\ IsFiniteSet(S \cup T)
      /\ Cardinality(S \cup T) = Cardinality(S) + Cardinality(T) - Cardinality(S \cap T)
  BY FS_Union
<1>2. Cardinality(S \cap T) = 0
  BY FS_EmptySet
<1>3. Cardinality(S) \in Nat /\ Cardinality(T) \in Nat
  BY FS_CardinalityType
<1> QED
  BY <1>1, <1>2, <1>3

\* A sum in which one term is another changes by the difference of the two.
LEMMA TotalStep ==
  ASSUME NEW S, NEW f \in [S -> Nat], NEW g \in [S -> Nat], NEW x \in S,
         \A y \in S \ {x} : g[y] = f[y], IsFiniteSet(Units(f))
  PROVE  /\ IsFiniteSet(Units(g)) /\ Total(f) \in Nat /\ Total(g) \in Nat
         /\ Total(g) + f[x] = Total(f) + g[x]
<1> DEFINE Rest == {e \in Units(f) : e[1] # x}
           F == {x} \X (1..f[x])
           G == {x} \X (1..g[x])
<1>1. f[x] \in Nat /\ g[x] \in Nat
  OBVIOUS
<1>2. Units(f) = Rest \cup F /\ Rest \cap F = {}
  BY <1>1 DEF Units
<1>3. Units(g) = Rest \cup G /\ Rest \cap G = {}
  BY <1>1 DEF Units
<1>4. /\ IsFiniteSet(F) /\ Cardinality(F) = f[x]
      /\ IsFiniteSet(G) /\ Cardinality(G) = g[x]
  BY <1>1, ColumnSize
<1>5. IsFiniteSet(Rest) /\ Cardinality(Rest) \in Nat
  BY FS_Subset, FS_CardinalityType
<1> HIDE DEF Rest, F, G
<1>7. Cardinality(Rest \cup F) = Cardinality(Rest) + f[x]
  BY <1>2, <1>4, <1>5, Disjoint
<1>8. /\ IsFiniteSet(Rest \cup G)
      /\ Cardinality(Rest \cup G) = Cardinality(Rest) + g[x]
  BY <1>3, <1>4, <1>5, Disjoint
<1> QED
  BY <1>1, <1>2, <1>3, <1>5, <1>7, <1>8 DEF Total

LEMMA TotalZero ==
  ASSUME NEW S, NEW f \in [S -> Nat], \A x \in S : f[x] = 0
  PROVE  IsFiniteSet(Units(f)) /\ Total(f) = 0
<1>1. Units(f) = {}
  BY DEF Units
<1> QED
  BY <1>1, FS_EmptySet DEF Total

-----------------------------------------------------------------------------
\* Rows and jobs

LEMMA RowRewritten ==
  ASSUME TypeOK, NEW i \in OrderIds, NEW o \in Order, orders' = [orders EXCEPT ![i] = o]
  PROVE  /\ orders' \in Seq(Order) /\ Len(orders') = Len(orders)
         /\ orders'[i] = o /\ \A k \in OrderIds \ {i} : orders'[k] = orders[k]
BY DEF TypeOK, OrderIds

LEMMA RowAppended ==
  ASSUME TypeOK, NEW o \in Order, orders' = Append(orders, o)
  PROVE  /\ orders' \in Seq(Order) /\ Len(orders') = Len(orders) + 1
         /\ orders'[Len(orders) + 1] = o
         /\ \A k \in OrderIds : orders'[k] = orders[k]
BY DEF TypeOK, OrderIds

\* What a job keeps from its first step to its last.
Kept(j, k) ==
  /\ k.op = j.op /\ k.user = j.user /\ k.amount = j.amount /\ k.text = j.text
  /\ k.order = j.order
  /\ k.close = j.close /\ k.interest = j.interest /\ k.paid = j.paid

Others(p) == \A q \in Process \ {p} : job'[q] = job[q]

LEMMA NoJobTyped == NoJob \in Job
BY DEF NoJob, Job, Step, Status, Pending, Running, Settled, Redeemed

LEMMA JobFields ==
  ASSUME TypeOK, NEW p \in Process
  PROVE  /\ job[p] \in Job /\ job[p].step \in Step
         /\ job[p].op \in {"none", "subscribe", "redeem", "settle", "renew", "accrue"}
         /\ job[p].user \in User \cup {NoUser} /\ job[p].amount \in Nat
         /\ job[p].renew \in BOOLEAN /\ job[p].order \in Nat /\ job[p].close \in Status
         /\ job[p].interest \in Nat /\ job[p].paid \in Nat /\ job[p].today \in Nat
         /\ job[p].made \in Nat
<1>1. job[p] \in Job
  BY DEF TypeOK
<1> QED
  BY <1>1 DEF Job

LEMMA StepKeeps ==
  ASSUME NEW j \in Job, NEW step \in Step
  PROVE  /\ [j EXCEPT !.step = step] \in Job /\ [j EXCEPT !.step = step].step = step
         /\ Kept(j, [j EXCEPT !.step = step])
<1>1. [j EXCEPT !.step = step] \in Job
  BY Zenon DEF Job
<1>2. [j EXCEPT !.step = step].step = step /\ Kept(j, [j EXCEPT !.step = step])
  BY DEF Job, Kept
<1> QED
  BY <1>1, <1>2

LEMMA Put ==
  ASSUME TypeOK, NEW p \in Process, NEW j \in Job, job' = [job EXCEPT ![p] = j]
  PROVE  job' \in [Process -> Job] /\ job'[p] = j /\ Others(p)
BY DEF TypeOK, Others

LEMMA Goes ==
  ASSUME TypeOK, NEW p \in Process, NEW step \in Step, GoTo(p, step)
  PROVE  /\ job' \in [Process -> Job] /\ Others(p)
         /\ job'[p].step = step /\ Kept(job[p], job'[p])
<1>1. job[p] \in Job
  BY JobFields
<1>2. job' = [job EXCEPT ![p] = [job[p] EXCEPT !.step = step]]
  BY DEF GoTo
<1> QED
  BY <1>1, <1>2, StepKeeps, Put

LEMMA Returns ==
  ASSUME TypeOK, NEW p \in Process, Return(p)
  PROVE  /\ job' \in [Process -> Job] /\ Others(p)
         /\ IF job[p].op = "subscribe"
            THEN job'[p].step = "clear" /\ Kept(job[p], job'[p])
            ELSE job'[p] = NoJob
<1>1. job[p] \in Job
  BY JobFields
<1>2. CASE job[p].op = "subscribe"
  <2>1. job' = [job EXCEPT ![p] = [job[p] EXCEPT !.step = "clear"]]
    BY <1>2 DEF Return
  <2>2. "clear" \in Step
    BY DEF Step
  <2> QED
    BY <1>1, <1>2, <2>1, <2>2, StepKeeps, Put
<1>3. CASE job[p].op # "subscribe"
  BY <1>3, NoJobTyped, Put DEF Return
<1> QED
  BY <1>2, <1>3

\* A row with one or two columns written.
LEMMA RowTyped ==
  ASSUME NEW o \in Order, NEW n \in Nat, NEW m \in Nat, NEW st \in Status
  PROVE  /\ [o EXCEPT !.returned = n] \in Order
         /\ [o EXCEPT !.payments = n, !.credited = m] \in Order
         /\ [o EXCEPT !.to = n] \in Order
         /\ [o EXCEPT !.status = st] \in Order
         /\ [o EXCEPT !.accrued = n] \in Order
         /\ [o EXCEPT !.recorded = n] \in Order
         /\ [o EXCEPT !.status = st, !.accrued = n, !.paid = m] \in Order
<1>1. [o EXCEPT !.returned = n] \in Order
  BY Zenon DEF Order
<1>2. [o EXCEPT !.payments = n, !.credited = m] \in Order
  BY Zenon DEF Order
<1>3. [o EXCEPT !.to = n] \in Order
  BY Zenon DEF Order
<1>4. [o EXCEPT !.status = st] \in Order
  BY Zenon DEF Order
<1>5. [o EXCEPT !.accrued = n] \in Order
  BY Zenon DEF Order
<1>6. [o EXCEPT !.recorded = n] \in Order
  BY Zenon DEF Order
<1>7. [o EXCEPT !.status = st, !.accrued = n, !.paid = m] \in Order
  BY Zenon DEF Order
<1> QED
  BY <1>1, <1>2, <1>3, <1>4, <1>5, <1>6, <1>7

LEMMA OrderFields ==
  ASSUME TypeOK, NEW i \in OrderIds
  PROVE  /\ orders[i] \in Order /\ orders[i].user \in User /\ orders[i].amount \in Nat
         /\ orders[i].renew \in BOOLEAN /\ orders[i].status \in Status
         /\ orders[i].start \in Nat /\ orders[i].end \in Nat /\ orders[i].accrued \in Nat
         /\ orders[i].paid \in Nat /\ orders[i].to \in Nat /\ orders[i].returned \in Nat
         /\ orders[i].payments \in Nat /\ orders[i].credited \in Nat
         /\ orders[i].recorded \in Nat
<1>1. orders[i] \in Order
  BY DEF TypeOK, OrderIds
<1> QED
  BY <1>1 DEF Order

LEMMA NewOrderTyped ==
  ASSUME NEW j \in Job, j.user \in User
  PROVE  /\ NewOrder(j) \in Order /\ NewOrder(j).end = NewOrder(j).start + Duration
         /\ NewOrder(j).accrued = 0 /\ NewOrder(j).status = Pending
<1>1. /\ j.amount \in Nat /\ j.renew \in BOOLEAN /\ j.today \in Nat /\ Duration \in Nat
  BY WealthAssumption DEF Job
<1> QED
  BY <1>1 DEF NewOrder, Order, Status, Pending, Running, Settled, Redeemed

-----------------------------------------------------------------------------
\* Types

Placed == {"getLock", "lock", "mark", "product", "account", "freeze", "create", "quota", "book", "clear"}
Returning == {"unfreeze", "bookPrincipal", "pay", "bookInterest", "close"}
Renewing == {"pay", "bookInterest", "renew", "link", "close"}
Ending == {"redeem", "settle", "renew"}

Subscribes(p, j) ==
  /\ j.op = "subscribe" /\ p \in Call
  /\ j.step \in Placed /\ j.user \in User /\ j.amount \in Amount /\ j.text \in Text

EndsOrder(p, j) ==
  /\ j.op \in Ending /\ j.user \in User /\ j.order \in OrderIds
  /\ IF j.op = "redeem" THEN p \in Call ELSE p \in Scheduler
  /\ IF j.op = "renew" THEN j.step \in Renewing ELSE j.step \in Returning

Records(p, j) ==
  j.op = "accrue" /\ p \in Scheduler /\ j.step = "record" /\ j.order \in OrderIds

\* The step of a process belongs to its operation, and what the step needs is there.
Fits(p, j) == j = NoJob \/ Subscribes(p, j) \/ EndsOrder(p, j) \/ Records(p, j)

Jobs == \A p \in Process : Fits(p, job[p])

Terms == \A i \in OrderIds : orders[i].end = orders[i].start + Duration

Lists == \A s \in Scheduler : \A x \in run[s].todo : x.order \in OrderIds

TypeInv == TypeOK /\ Jobs /\ Terms /\ Lists

\* Orders are added and written, never deleted; the term of one does not change.
Grows ==
  /\ orders' \in Seq(Order) /\ Len(orders') >= Len(orders)
  /\ Terms'

LEMMA SameRows ==
  ASSUME TypeInv, orders' = orders
  PROVE  Grows
BY DEF TypeInv, TypeOK, Grows, Terms, OrderIds

LEMMA RowGrows ==
  ASSUME TypeInv, NEW i \in OrderIds, NEW o \in Order, orders' = [orders EXCEPT ![i] = o],
         o.start = orders[i].start, o.end = orders[i].end
  PROVE  Grows /\ Len(orders') = Len(orders)
<1>1. /\ orders' \in Seq(Order) /\ Len(orders') = Len(orders)
      /\ orders'[i] = o /\ \A k \in OrderIds \ {i} : orders'[k] = orders[k]
  BY RowRewritten DEF TypeInv
<1> QED
  BY <1>1 DEF TypeInv, TypeOK, Grows, Terms, OrderIds

LEMMA AppendGrows ==
  ASSUME TypeInv, NEW j \in Job, j.user \in User, orders' = Append(orders, NewOrder(j))
  PROVE  Grows
<1>1. NewOrder(j) \in Order /\ NewOrder(j).end = NewOrder(j).start + Duration
  BY NewOrderTyped
<1>2. /\ orders' \in Seq(Order) /\ Len(orders') = Len(orders) + 1
      /\ orders'[Len(orders) + 1] = NewOrder(j)
      /\ \A k \in OrderIds : orders'[k] = orders[k]
  BY <1>1, RowAppended DEF TypeInv
<1>3. Len(orders) \in Nat
  BY DEF TypeInv, TypeOK
<1> QED
  BY <1>1, <1>2, <1>3 DEF TypeInv, Grows, Terms, OrderIds

\* What one process did, and the lists, keep the jobs in shape.
LEMMA JobsKept ==
  ASSUME TypeInv, Grows, NEW p \in Process, Others(p), Fits(p, job[p])'
  PROVE  Jobs'
<1>1. Len(orders) \in Nat /\ Len(orders') \in Nat /\ OrderIds \subseteq OrderIds'
  BY DEF Grows, OrderIds, TypeInv, TypeOK
<1>2. ASSUME NEW q \in Process PROVE Fits(q, job[q])'
  <2>1. CASE q = p
    BY <2>1
  <2>2. CASE q # p
    <3>1. job'[q] = job[q] /\ Fits(q, job[q])
      BY <2>2 DEF Others, TypeInv, Jobs
    <3> QED
      BY <1>1, <3>1 DEF Fits, Subscribes, EndsOrder, Records
  <2> QED
    BY <2>1, <2>2
<1> QED
  BY <1>2 DEF Jobs

\* The scalar variables and the tables other than orders.
Tables ==
  /\ day' \in 1 .. MaxDay /\ maintenance' \in BOOLEAN
  /\ product' \in [onSale: BOOLEAN, renewable: BOOLEAN, sold: Nat]
  /\ account' \in [User -> Account] /\ service' \in Service
  /\ faults' \in 0 .. MaxFaults /\ crashes' \in 0 .. MaxCrashes

LEMMA ListsKept ==
  ASSUME TypeInv, Grows, run' = run
  PROVE  run' \in [Scheduler -> Run] /\ Lists'
<1>1. OrderIds \subseteq OrderIds'
  BY DEF Grows, OrderIds, TypeInv, TypeOK
<1> QED
  BY <1>1 DEF TypeInv, TypeOK, Lists

\* A step of one process that leaves the lists alone.
LEMMA TypeStep ==
  ASSUME TypeInv, Grows, Tables, run' = run,
         NEW p \in Process, job' \in [Process -> Job], Others(p), Fits(p, job[p])'
  PROVE  TypeInv'
BY JobsKept, ListsKept DEF TypeInv, TypeOK, Grows, Tables

\* A job that goes on, or returns, is in shape if its next step is one of its operation's.
LEMMA GoesFits ==
  ASSUME TypeInv, Grows, NEW p \in Process, NEW step \in Step, GoTo(p, step),
         \/ Subscribes(p, job[p]) /\ step \in Placed
         \/ /\ EndsOrder(p, job[p])
            /\ IF job[p].op = "renew" THEN step \in Renewing ELSE step \in Returning
  PROVE  job' \in [Process -> Job] /\ Others(p) /\ Fits(p, job[p])'
<1>1. /\ job' \in [Process -> Job] /\ Others(p)
      /\ job'[p].step = step /\ Kept(job[p], job'[p])
  BY Goes DEF TypeInv
<1>2. OrderIds \subseteq OrderIds'
  BY DEF Grows, OrderIds, TypeInv, TypeOK
<1> QED
  BY <1>1, <1>2 DEF Kept, Fits, Subscribes, EndsOrder

LEMMA ReturnFits ==
  ASSUME TypeInv, NEW p \in Process, Return(p), job[p].op = "subscribe" => Subscribes(p, job[p])
  PROVE  job' \in [Process -> Job] /\ Others(p) /\ Fits(p, job[p])'
<1>1. /\ job' \in [Process -> Job] /\ Others(p)
      /\ IF job[p].op = "subscribe"
         THEN job'[p].step = "clear" /\ Kept(job[p], job'[p])
         ELSE job'[p] = NoJob
  BY Returns DEF TypeInv
<1> QED
  BY <1>1 DEF Kept, Fits, Subscribes, Placed

LEMMA SetFits ==
  ASSUME TypeInv, Grows, NEW p \in Process, NEW j \in Job, Fits(p, j),
         job' = [job EXCEPT ![p] = j]
  PROVE  job' \in [Process -> Job] /\ Others(p) /\ Fits(p, job[p])'
<1>1. job' \in [Process -> Job] /\ Others(p) /\ job'[p] = j
  BY Put DEF TypeInv
<1>2. OrderIds \subseteq OrderIds'
  BY DEF Grows, OrderIds, TypeInv, TypeOK
<1> QED
  BY <1>1, <1>2 DEF Fits, Subscribes, EndsOrder, Records

\* What a step says of its process.
LEMMA AtStep ==
  ASSUME TypeInv, NEW p \in Process
  PROVE  /\ job[p].step \in {"getLock", "lock", "mark", "product", "account", "freeze",
                            "create", "quota", "book", "clear"}
              => Subscribes(p, job[p])
         /\ job[p].step \in {"unfreeze", "bookPrincipal"}
              => EndsOrder(p, job[p]) /\ job[p].op # "renew"
         /\ job[p].step \in {"pay", "bookInterest", "close"} => EndsOrder(p, job[p])
         /\ job[p].step \in {"renew", "link"} => EndsOrder(p, job[p]) /\ job[p].op = "renew"
         /\ job[p].step = "record" => Records(p, job[p])
         /\ job[p].op = "subscribe" => Subscribes(p, job[p])
<1>1. Fits(p, job[p])
  BY DEF TypeInv, Jobs
<1> QED
  BY <1>1 DEF Fits, NoJob, Subscribes, EndsOrder, Records, Placed, Returning, Renewing, Ending

LEMMA AccountTyped ==
  ASSUME TypeOK, NEW u \in User, NEW n \in Int
  PROVE  /\ [account EXCEPT ![u].frozen = @ + n] \in [User -> Account]
         /\ [account EXCEPT ![u].frozen = @ - n] \in [User -> Account]
         /\ [account EXCEPT ![u].balance = @ + n] \in [User -> Account]
         /\ [account EXCEPT ![u].journal = @ + n] \in [User -> Account]
<1>1. account[u] \in Account
  BY DEF TypeOK
<1>2. /\ account[u].frozen + n \in Int /\ account[u].frozen - n \in Int
      /\ account[u].balance + n \in Int /\ account[u].journal + n \in Int
  BY <1>1 DEF Account
<1>3. ASSUME NEW m \in Int
      PROVE  /\ [account[u] EXCEPT !.frozen = m] \in Account
             /\ [account[u] EXCEPT !.balance = m] \in Account
             /\ [account[u] EXCEPT !.journal = m] \in Account
  BY <1>1 DEF Account
<1>4. /\ [account[u] EXCEPT !.frozen = @ + n] \in Account
      /\ [account[u] EXCEPT !.frozen = @ - n] \in Account
      /\ [account[u] EXCEPT !.balance = @ + n] \in Account
      /\ [account[u] EXCEPT !.journal = @ + n] \in Account
  BY <1>2, <1>3, Zenon
<1> QED
  BY <1>4 DEF TypeOK

LEMMA InterestNat ==
  ASSUME NEW n \in Nat, NEW d \in Nat
  PROVE  Interest(n, d) \in Nat
BY DEF Interest

-----------------------------------------------------------------------------
\* Subscribing keeps the types.

LEMMA NewServiceTyped == NewService \in Service
BY DEF NewService, Service

\* The job that Subscribe begins.
LEMMA SubscribeBegins ==
  ASSUME TypeInv, NEW p \in Call, NEW u \in User, NEW a \in Amount, NEW r \in AutoRenew,
         NEW t \in Text, Subscribe(p, u, a, r, t)
  PROVE  \E j \in Job :
           /\ job' = [job EXCEPT ![p] = j]
           /\ j.op = "subscribe" /\ j.user = u /\ j.amount = a /\ j.text = t
           /\ j.step \in {"getLock", "lock"} /\ j.interest = 0 /\ j.order = 0
<1> DEFINE mutex == service.mu[<<u, a, t>>]
           step == IF mutex = None THEN "getLock" ELSE "lock"
           j == [NoJob EXCEPT !.op = "subscribe", !.user = u, !.amount = a, !.renew = r,
                              !.text = t, !.mutex = mutex, !.step = step]
<1>1. mutex \in Call \cup {None}
  BY DEF TypeInv, TypeOK, Service, Keys
<1>2. a \in Nat /\ r \in BOOLEAN /\ step \in Step /\ step \in {"getLock", "lock"}
  BY WealthAssumption DEF Step
<1>3. job' = [job EXCEPT ![p] = j]
  BY DEF Subscribe
<1> HIDE DEF step, mutex
<1>4. j \in Job
  BY <1>1, <1>2, NoJobTyped, Zenon DEF Job
<1>5. /\ j.op = "subscribe" /\ j.user = u /\ j.amount = a /\ j.text = t /\ j.step = step
      /\ j.interest = 0 /\ j.order = 0
  BY DEF NoJob
<1> QED
  BY <1>2, <1>3, <1>4, <1>5

LEMMA SubscribeTypes ==
  ASSUME TypeInv, NEW p \in Call, NEW u \in User, NEW a \in Amount, NEW r \in AutoRenew,
         NEW t \in Text, Subscribe(p, u, a, r, t)
  PROVE  TypeInv'
<1>1. PICK j \in Job : /\ job' = [job EXCEPT ![p] = j]
                       /\ j.op = "subscribe" /\ j.user = u /\ j.amount = a /\ j.text = t
                       /\ j.step \in {"getLock", "lock"}
  BY SubscribeBegins
<1>2. Fits(p, j) /\ p \in Process
  BY <1>1 DEF Fits, Subscribes, Placed, Process
<1>3. Grows
  BY SameRows DEF Subscribe
<1>4. job' \in [Process -> Job] /\ Others(p) /\ Fits(p, job[p])'
  BY <1>1, <1>2, <1>3, SetFits
<1>5. Tables
  BY DEF Subscribe, Tables, TypeInv, TypeOK
<1> QED
  BY <1>2, <1>3, <1>4, <1>5, TypeStep DEF Subscribe

\* getLock's second half, Lock and the duplicate check.
Acquires(p) == MakeMutex(p) \/ Lock(p) \/ Mark(p)

LEMMA ServiceTyped ==
  ASSUME TypeInv, NEW k, NEW p \in Call
  PROVE  /\ k \in Keys => [service EXCEPT !.mu[k] = p] \in Service
         /\ k \in Keys => [service EXCEPT !.lockMap = @ \cup {k}] \in Service
         /\ [service EXCEPT !.lockMap = @ \ {k}] \in Service
BY DEF TypeInv, TypeOK, Service

LEMMA AcquireTypes ==
  ASSUME TypeInv, NEW p \in Process, Acquires(p)
  PROVE  TypeInv'
<1>1. Subscribes(p, job[p]) /\ p \in Call /\ Key(job[p]) \in Keys
  BY AtStep DEF Acquires, MakeMutex, Lock, Mark, Subscribes, Key, Keys
<1>2. Grows /\ run' = run
  BY SameRows DEF Acquires, MakeMutex, Lock, Mark
<1>3. Tables
  <2>1. service' \in Service
    <3>1. CASE MakeMutex(p)
      BY <1>1, <3>1, ServiceTyped DEF MakeMutex
    <3>2. CASE Lock(p)
      BY <3>2 DEF Lock, TypeInv, TypeOK
    <3>3. CASE Mark(p)
      BY <1>1, <3>3, ServiceTyped DEF Mark
    <3> QED
      BY <3>1, <3>2, <3>3 DEF Acquires
  <2> QED
    BY <2>1 DEF Acquires, MakeMutex, Lock, Mark, Tables, TypeInv, TypeOK
<1>4. CASE MakeMutex(p)
  <2> DEFINE j == [job[p] EXCEPT !.step = "lock", !.mutex = p]
  <2>1. job[p] \in Job /\ "lock" \in Step /\ p \in Call \cup {None}
    BY <1>1, JobFields DEF Step, TypeInv
  <2>2. j \in Job
    BY <2>1, Zenon DEF Job
  <2>3. Kept(job[p], j) /\ j.step = "lock"
    BY <2>1 DEF Job, Kept
  <2>4. job' = [job EXCEPT ![p] = j]
    BY <1>4 DEF MakeMutex
  <2> HIDE DEF j
  <2>5. Fits(p, j)
    BY <1>1, <2>3 DEF Fits, Subscribes, Kept, Placed
  <2>6. job' \in [Process -> Job] /\ Others(p) /\ Fits(p, job[p])'
    BY <1>2, <2>2, <2>4, <2>5, SetFits
  <2> QED
    BY <1>2, <1>3, <2>6, TypeStep
<1>5. CASE Lock(p) \/ Mark(p)
  <2>1. GoTo(p, "mark") \/ GoTo(p, "product") \/ Return(p)
    BY <1>5 DEF Lock, Mark
  <2>2. job' \in [Process -> Job] /\ Others(p) /\ Fits(p, job[p])'
    BY <1>1, <1>2, <2>1, GoesFits, ReturnFits DEF Step, Placed
  <2> QED
    BY <1>2, <1>3, <2>2, TypeStep
<1> QED
  BY <1>4, <1>5 DEF Acquires

LEMMA ClearTypes ==
  ASSUME TypeInv, NEW p \in Process, ClearLock(p)
  PROVE  TypeInv'
<1>1. job' = [job EXCEPT ![p] = NoJob] /\ Fits(p, NoJob)
  BY DEF ClearLock, Fits
<1>3. Grows /\ Tables
  BY SameRows, ServiceTyped, WealthAssumption DEF ClearLock, Tables, TypeInv, TypeOK
<1>2. job' \in [Process -> Job] /\ Others(p) /\ Fits(p, job[p])'
  BY <1>1, <1>3, NoJobTyped, SetFits
<1> QED
  BY <1>2, <1>3, TypeStep DEF ClearLock

LEMMA ReadTypes ==
  ASSUME TypeInv, NEW p \in Process, ReadProduct(p) \/ ReadAccount(p)
  PROVE  TypeInv'
<1>1. Subscribes(p, job[p])
  BY AtStep DEF ReadProduct, ReadAccount
<1>2. Grows /\ Tables /\ run' = run
  BY SameRows DEF ReadProduct, ReadAccount, Tables, TypeInv, TypeOK
<1>3. GoTo(p, "account") \/ GoTo(p, "freeze") \/ Return(p)
  BY DEF ReadProduct, ReadAccount
<1>4. job' \in [Process -> Job] /\ Others(p) /\ Fits(p, job[p])'
  BY <1>1, <1>2, <1>3, GoesFits, ReturnFits DEF Step, Placed
<1> QED
  BY <1>2, <1>4, TypeStep

LEMMA FreezeTypes ==
  ASSUME TypeInv, NEW p \in Process, Freeze(p)
  PROVE  TypeInv'
<1> DEFINE j == [job[p] EXCEPT !.step = "create", !.today = day]
<1>1. Subscribes(p, job[p]) /\ job[p] \in Job /\ day \in Nat /\ job[p].amount \in Int
  BY AtStep, JobFields DEF Freeze, TypeInv, TypeOK
<1>2. "create" \in Step /\ "create" \in Placed
  BY DEF Step, Placed
<1>3. j \in Job
  BY <1>1, <1>2, Zenon DEF Job
<1>4. /\ j.op = "subscribe" /\ j.step = "create" /\ j.user \in User /\ j.amount \in Amount
      /\ j.text \in Text
  BY <1>1 DEF Subscribes, Job
<1>5. job' = [job EXCEPT ![p] = j]
  BY DEF Freeze
<1> HIDE DEF j
<1>6. Fits(p, j)
  BY <1>1, <1>2, <1>4 DEF Fits, Subscribes
<1>7. Grows
  BY SameRows DEF Freeze
<1>8. job' \in [Process -> Job] /\ Others(p) /\ Fits(p, job[p])'
  BY <1>3, <1>5, <1>6, <1>7, SetFits
<1>9. Tables
  BY <1>1, AccountTyped DEF Freeze, FreezeBalance, Subscribes, Tables, TypeInv, TypeOK
<1> QED
  BY <1>7, <1>8, <1>9, TypeStep DEF Freeze

LEMMA CreateTypes ==
  ASSUME TypeInv, NEW p \in Process, CreateOrder(p) \/ CreateOrderFails(p)
  PROVE  TypeInv'
<1>1. Subscribes(p, job[p]) /\ job[p] \in Job /\ job[p].user \in User /\ job[p].amount \in Int
  BY AtStep, JobFields DEF CreateOrder, CreateOrderFails, Subscribes, TypeInv
<1>2. CASE CreateOrder(p)
  <2>1. Grows /\ Tables
    BY <1>1, <1>2, AppendGrows DEF CreateOrder, Tables, TypeInv, TypeOK
  <2>2. job' \in [Process -> Job] /\ Others(p) /\ Fits(p, job[p])'
    BY <1>1, <1>2, <2>1, GoesFits DEF CreateOrder, Step, Placed
  <2> QED
    BY <1>2, <2>1, <2>2, TypeStep DEF CreateOrder
<1>3. CASE CreateOrderFails(p)
  <2>1. account' \in [User -> Account]
    <3>1. \/ account' = [account EXCEPT ![job[p].user].frozen = @ - job[p].amount]
          \/ account' = account
      BY <1>3 DEF CreateOrderFails, UnfreezeBalance
    <3>2. TypeOK /\ account \in [User -> Account]
      BY DEF TypeInv, TypeOK
    <3>3. [account EXCEPT ![job[p].user].frozen = @ - job[p].amount] \in [User -> Account]
      BY <1>1, <3>2, AccountTyped
    <3> QED
      BY <3>1, <3>2, <3>3, Zenon
  <2>2. faults' \in 0 .. MaxFaults
    BY <1>3, WealthAssumption DEF CreateOrderFails, TypeInv, TypeOK
  <2>3. Grows /\ Tables
    BY <1>3, <2>1, <2>2, SameRows DEF CreateOrderFails, Tables, TypeInv, TypeOK
  <2>4. job' \in [Process -> Job] /\ Others(p) /\ Fits(p, job[p])'
    BY <1>1, <1>3, ReturnFits DEF CreateOrderFails
  <2> QED
    BY <1>3, <2>3, <2>4, TypeStep DEF CreateOrderFails
<1> QED
  BY <1>2, <1>3

LEMMA FailsTyped ==
  ASSUME TypeOK, Fails \/ UNCHANGED faults
  PROVE  faults' \in 0 .. MaxFaults
BY WealthAssumption DEF Fails, TypeOK

LEMMA QuotaTypes ==
  ASSUME TypeInv, NEW p \in Process, UpdateProductSoldQuota(p) \/ BookSubscription(p)
  PROVE  TypeInv'
<1>1. Subscribes(p, job[p]) /\ job[p].user \in User /\ job[p].amount \in Nat
  BY AtStep, JobFields DEF UpdateProductSoldQuota, BookSubscription, Subscribes, TypeInv
<1>2. CASE UpdateProductSoldQuota(p)
  <2>1. product' \in [onSale: BOOLEAN, renewable: BOOLEAN, sold: Nat]
    BY <1>1, <1>2 DEF UpdateProductSoldQuota, TypeInv, TypeOK
  <2>2. Grows /\ Tables
    BY <1>2, <2>1, SameRows, FailsTyped DEF UpdateProductSoldQuota, Tables, TypeInv, TypeOK
  <2>3. job' \in [Process -> Job] /\ Others(p) /\ Fits(p, job[p])'
    BY <1>1, <1>2, <2>2, GoesFits DEF UpdateProductSoldQuota, Step, Placed
  <2> QED
    BY <1>2, <2>2, <2>3, TypeStep DEF UpdateProductSoldQuota
<1>3. CASE BookSubscription(p)
  <2>1. -job[p].amount \in Int
    BY <1>1
  <2>2. account' \in [User -> Account]
    BY <1>1, <1>3, <2>1, AccountTyped DEF BookSubscription, CreateJournalRecord, TypeInv
  <2>3. Grows /\ Tables
    BY <1>3, <2>2, SameRows DEF BookSubscription, Tables, TypeInv, TypeOK
  <2>4. job' \in [Process -> Job] /\ Others(p) /\ Fits(p, job[p])'
    BY <1>1, <1>3, ReturnFits DEF BookSubscription
  <2> QED
    BY <1>3, <2>3, <2>4, TypeStep DEF BookSubscription
<1> QED
  BY <1>2, <1>3

-----------------------------------------------------------------------------
\* Giving back and renewing keep the types.

LEMMA RedeemTypes ==
  ASSUME TypeInv, NEW p \in Call, NEW id \in OrderIds, Redeem(p, id)
  PROVE  TypeInv'
<1> DEFINE o == orders[id]
           due == DueToCustomer(o)
           close == IF day > o.end THEN Settled ELSE Redeemed
           j == [NoJob EXCEPT !.op = "redeem", !.step = "unfreeze", !.user = o.user,
                              !.amount = o.amount, !.order = id, !.paid = o.paid,
                              !.interest = due, !.close = close]
<1>1. /\ o.user \in User /\ o.amount \in Nat /\ o.paid \in Nat /\ o.accrued \in Nat
      /\ id \in Nat /\ p \in Process
  BY OrderFields DEF OrderIds, Process, TypeInv
<1>2. due \in Nat /\ close \in Status
  BY <1>1 DEF DueToCustomer, Status
<1>3. job' = [job EXCEPT ![p] = j]
  BY DEF Redeem
<1> HIDE DEF due, close, o
<1>4. "redeem" \in {"none", "subscribe", "redeem", "settle", "renew", "accrue"}
      /\ "unfreeze" \in Step
  BY DEF Step
<1>5. j \in Job
  BY <1>1, <1>2, <1>4, NoJobTyped, Zenon DEF Job
<1>6. j.op = "redeem" /\ j.step = "unfreeze" /\ j.user = o.user /\ j.order = id
  BY DEF NoJob
<1> HIDE DEF j
<1>7. Fits(p, j)
  BY <1>1, <1>6 DEF Fits, EndsOrder, Ending, Returning
<1>8. Grows /\ Tables
  BY SameRows DEF Redeem, Tables, TypeInv, TypeOK
<1>9. job' \in [Process -> Job] /\ Others(p) /\ Fits(p, job[p])'
  BY <1>1, <1>3, <1>5, <1>7, <1>8, SetFits
<1> QED
  BY <1>1, <1>8, <1>9, TypeStep DEF Redeem

\* What a job that ends an order has at hand.
LEMMA EndsFacts ==
  ASSUME TypeInv, NEW p \in Process, EndsOrder(p, job[p])
  PROVE  /\ job[p].order \in OrderIds /\ job[p].user \in User /\ job[p].amount \in Nat
         /\ job[p].interest \in Nat /\ job[p].paid \in Nat /\ job[p].close \in Status
         /\ job[p].made \in Nat /\ Interest(job[p].amount, job[p].interest) \in Nat
         /\ job[p].op # "subscribe" /\ job[p] # NoJob
<1>1. job[p].amount \in Nat /\ job[p].interest \in Nat
  BY JobFields DEF TypeInv
<1>2. NoJob.op = "none"
  BY DEF NoJob
<1>3. /\ job[p].paid \in Nat /\ job[p].close \in Status /\ job[p].made \in Nat
      /\ Interest(job[p].amount, job[p].interest) \in Nat
  BY <1>1, JobFields, InterestNat DEF TypeInv
<1>4. job[p].op # "subscribe" /\ job[p].op # "none"
  BY DEF EndsOrder, Ending
<1> QED
  BY <1>1, <1>2, <1>3, <1>4 DEF EndsOrder

LEMMA UnfreezeTypes ==
  ASSUME TypeInv, NEW p \in Process, Unfreeze(p)
  PROVE  TypeInv'
<1> DEFINE i == job[p].order
           o == [orders[i] EXCEPT !.returned = @ + 1]
<1>1. EndsOrder(p, job[p]) /\ job[p].op # "renew"
  BY AtStep DEF Unfreeze
<1>2. i \in OrderIds /\ job[p].user \in User /\ job[p].amount \in Int
  BY <1>1, EndsFacts
<1>3. orders[i] \in Order /\ orders[i].returned + 1 \in Nat
  BY <1>2, OrderFields DEF TypeInv
<1>4. o \in Order /\ o.start = orders[i].start /\ o.end = orders[i].end
  BY <1>3, RowTyped DEF Order, Status
<1>5. orders' = [orders EXCEPT ![i] = o]
  BY DEF Unfreeze
<1>6. Grows
  BY <1>2, <1>4, <1>5, RowGrows
<1>7. Tables
  BY <1>2, AccountTyped DEF Unfreeze, UnfreezeBalance, Tables, TypeInv, TypeOK
<1>8. job' \in [Process -> Job] /\ Others(p) /\ Fits(p, job[p])'
  BY <1>1, <1>6, GoesFits DEF Unfreeze, Step, Returning
<1> QED
  BY <1>6, <1>7, <1>8, TypeStep DEF Unfreeze

LEMMA BookTypes ==
  ASSUME TypeInv, NEW p \in Process, BookPrincipal(p) \/ BookInterest(p) \/ JournalLost(p)
  PROVE  TypeInv'
<1>1. /\ EndsOrder(p, job[p])
      /\ job[p].step = "bookPrincipal" => job[p].op # "renew"
  BY AtStep DEF BookPrincipal, BookInterest, JournalLost
<1>2. /\ job[p].user \in User /\ job[p].amount \in Int
      /\ Interest(job[p].amount, job[p].interest) \in Int
  BY <1>1, EndsFacts
<1>3. Grows /\ UNCHANGED <<day, maintenance, product, service, run, crashes>>
  BY SameRows DEF BookPrincipal, BookInterest, JournalLost
<1>4. account' \in [User -> Account]
  <2>1. TypeOK /\ account \in [User -> Account]
    BY DEF TypeInv, TypeOK
  <2>2. CASE BookPrincipal(p)
    BY <1>2, <2>1, <2>2, AccountTyped DEF BookPrincipal, CreateJournalRecord
  <2>3. CASE BookInterest(p)
    BY <1>2, <2>1, <2>3, AccountTyped DEF BookInterest, CreateJournalRecord
  <2>4. CASE JournalLost(p)
    BY <2>1, <2>4 DEF JournalLost
  <2> QED
    BY <2>2, <2>3, <2>4
<1>5. Tables
  BY <1>3, <1>4, FailsTyped DEF BookPrincipal, BookInterest, JournalLost, Tables, TypeInv, TypeOK
<1>6. \/ job[p].step = "bookPrincipal" /\ GoTo(p, AfterPrincipal(job[p]))
      \/ job[p].step = "bookInterest" /\ GoTo(p, AfterInterest(job[p]))
  BY DEF BookPrincipal, BookInterest, JournalLost
<1>7. job' \in [Process -> Job] /\ Others(p) /\ Fits(p, job[p])'
  <2>1. CASE job[p].step = "bookPrincipal" /\ GoTo(p, AfterPrincipal(job[p]))
    <3>1. AfterPrincipal(job[p]) \in Returning /\ AfterPrincipal(job[p]) \in Step
      BY DEF AfterPrincipal, Returning, Step
    <3> QED
      BY <1>1, <1>3, <2>1, <3>1, GoesFits
  <2>2. CASE job[p].step = "bookInterest" /\ GoTo(p, AfterInterest(job[p]))
    <3>1. /\ AfterInterest(job[p]) \in Step
          /\ IF job[p].op = "renew" THEN AfterInterest(job[p]) \in Renewing
             ELSE AfterInterest(job[p]) \in Returning
      BY DEF AfterInterest, Returning, Renewing, Step
    <3> QED
      BY <1>1, <1>3, <2>2, <3>1, GoesFits
  <2> QED
    BY <1>6, <2>1, <2>2
<1> QED
  BY <1>3, <1>5, <1>7, TypeStep

LEMMA PayTypes ==
  ASSUME TypeInv, NEW p \in Process, PayInterest(p)
  PROVE  TypeInv'
<1> DEFINE i == job[p].order
           o == [orders[i] EXCEPT !.payments = @ + 1, !.credited = @ + job[p].interest]
<1>1. EndsOrder(p, job[p])
  BY AtStep DEF PayInterest
<1>2. /\ i \in OrderIds /\ job[p].user \in User /\ job[p].interest \in Nat
      /\ Interest(job[p].amount, job[p].interest) \in Int
  BY <1>1, EndsFacts
<1>3. /\ orders[i] \in Order /\ orders[i].payments + 1 \in Nat
      /\ orders[i].credited + job[p].interest \in Nat
  BY <1>2, OrderFields DEF TypeInv
<1>4. o \in Order /\ o.start = orders[i].start /\ o.end = orders[i].end
  <2>1. Pending \in Status
    BY DEF Status
  <2> QED
    BY <1>3, <2>1, RowTyped DEF Order
<1>5. orders' = [orders EXCEPT ![i] = o]
  <2>1. i \in DOMAIN orders
    BY <1>2 DEF OrderIds, TypeInv, TypeOK
  <2> QED
    BY <2>1 DEF PayInterest, TypeInv, TypeOK
<1> HIDE DEF o
<1>6. Grows
  BY <1>2, <1>4, <1>5, RowGrows
<1>7. Tables
  BY <1>2, AccountTyped DEF PayInterest, AddBalance, Tables, TypeInv, TypeOK
<1>8. job' \in [Process -> Job] /\ Others(p) /\ Fits(p, job[p])'
  BY <1>1, <1>6, GoesFits DEF PayInterest, Step, Returning, Renewing
<1> QED
  BY <1>6, <1>7, <1>8, TypeStep DEF PayInterest

LEMMA RenewedTypes ==
  ASSUME TypeInv, NEW p \in Process, CreateRenewedOrder(p)
  PROVE  TypeInv'
<1> DEFINE j == [job[p] EXCEPT !.step = "link", !.made = Len(orders) + 1]
<1>1. EndsOrder(p, job[p]) /\ job[p].op = "renew" /\ job[p] \in Job /\ job[p].user \in User
  BY AtStep, JobFields DEF CreateRenewedOrder, EndsOrder, TypeInv
<1>2. Len(orders) + 1 \in Nat /\ "link" \in Step
  BY DEF TypeInv, TypeOK, Step
<1>3. j \in Job
  BY <1>1, <1>2, Zenon DEF Job
<1>4. j.op = "renew" /\ j.step = "link" /\ j.user = job[p].user /\ j.order = job[p].order
  BY <1>1 DEF Job
<1>5. job' = [job EXCEPT ![p] = j]
  BY DEF CreateRenewedOrder
<1> HIDE DEF j
<1>6. Fits(p, j)
  BY <1>1, <1>4 DEF Fits, EndsOrder, Ending, Renewing
<1>7. Grows
  BY <1>1, AppendGrows DEF CreateRenewedOrder
<1>8. Tables
  BY DEF CreateRenewedOrder, Tables, TypeInv, TypeOK
<1>9. job' \in [Process -> Job] /\ Others(p) /\ Fits(p, job[p])'
  BY <1>3, <1>5, <1>6, <1>7, SetFits
<1> QED
  BY <1>7, <1>8, <1>9, TypeStep DEF CreateRenewedOrder

LEMMA LinkTypes ==
  ASSUME TypeInv, NEW p \in Process, LinkRenewedOrder(p)
  PROVE  TypeInv'
<1> DEFINE i == job[p].order
           o == [orders[i] EXCEPT !.to = job[p].made]
<1>1. EndsOrder(p, job[p]) /\ job[p].op = "renew"
  BY AtStep DEF LinkRenewedOrder
<1>2. i \in OrderIds /\ job[p].made \in Nat
  BY <1>1, EndsFacts
<1>3. orders[i] \in Order
  BY <1>2, OrderFields DEF TypeInv
<1>4. o \in Order /\ o.start = orders[i].start /\ o.end = orders[i].end
  <2>1. Pending \in Status
    BY DEF Status
  <2> QED
    BY <1>2, <1>3, <2>1, RowTyped DEF Order
<1>5. orders' = [orders EXCEPT ![i] = o]
  BY DEF LinkRenewedOrder
<1> HIDE DEF o
<1>6. Grows
  BY <1>2, <1>4, <1>5, RowGrows
<1>7. Tables
  BY DEF LinkRenewedOrder, Tables, TypeInv, TypeOK
<1>8. job' \in [Process -> Job] /\ Others(p) /\ Fits(p, job[p])'
  BY <1>1, <1>6, GoesFits DEF LinkRenewedOrder, Step, Renewing
<1> QED
  BY <1>6, <1>7, <1>8, TypeStep DEF LinkRenewedOrder

\* The row as Redeem, or SettleOrder, leaves it.
LEMMA ClosedTyped ==
  ASSUME NEW o \in Order, NEW j \in Job
  PROVE  /\ Closed(o, j) \in Order
         /\ Closed(o, j).start = o.start /\ Closed(o, j).end = o.end
         /\ Closed(o, j).user = o.user /\ Closed(o, j).amount = o.amount
         /\ Closed(o, j).returned = o.returned /\ Closed(o, j).payments = o.payments
         /\ Closed(o, j).credited = o.credited /\ Closed(o, j).recorded = o.recorded
         /\ Closed(o, j).accrued = 0
         /\ Closed(o, j).status = IF j.op = "redeem" THEN j.close ELSE Settled
         /\ Closed(o, j).paid = IF j.op # "redeem" THEN o.paid + j.interest
                                ELSE IF j.interest > 0 THEN j.interest ELSE j.paid
<1> DEFINE paid == IF j.interest > 0 THEN j.interest ELSE j.paid
<1>1. /\ j.close \in Status /\ j.interest \in Nat /\ j.paid \in Nat /\ o.paid \in Nat
      /\ Settled \in Status /\ 0 \in Nat
  BY DEF Job, Order, Status
<1>2. paid \in Nat /\ o.paid + j.interest \in Nat
  BY <1>1
<1>3. CASE j.op = "redeem"
  <2>1. Closed(o, j) = [o EXCEPT !.status = j.close, !.accrued = 0, !.paid = paid]
    BY <1>3 DEF Closed
  <2> HIDE DEF paid
  <2>2. Closed(o, j) \in Order
    BY <1>1, <1>2, <2>1, Zenon DEF Order
  <2> QED
    BY <1>3, <2>1, <2>2 DEF Order, paid
<1>4. CASE j.op # "redeem"
  <2>1. Closed(o, j) = [o EXCEPT !.status = Settled, !.accrued = 0, !.paid = o.paid + j.interest]
    BY <1>4 DEF Closed
  <2>2. Closed(o, j) \in Order
    BY <1>1, <1>2, <2>1, Zenon DEF Order
  <2> QED
    BY <1>1, <1>2, <1>4, <2>1, <2>2 DEF Order
<1> QED
  BY <1>3, <1>4

LEMMA CloseTypes ==
  ASSUME TypeInv, NEW p \in Process, Close(p)
  PROVE  TypeInv'
<1> DEFINE i == job[p].order
           o == Closed(orders[i], job[p])
<1>1. EndsOrder(p, job[p]) /\ job[p] \in Job
  BY AtStep, JobFields DEF Close, TypeInv
<1>2. i \in OrderIds /\ job[p].op # "subscribe"
  BY <1>1, EndsFacts
<1>3. orders[i] \in Order
  BY <1>2, OrderFields DEF TypeInv
<1>4. o \in Order /\ o.start = orders[i].start /\ o.end = orders[i].end
  BY <1>1, <1>3, ClosedTyped
<1>5. orders' = [orders EXCEPT ![i] = o]
  BY DEF Close
<1> HIDE DEF o
<1>6. Grows
  BY <1>2, <1>4, <1>5, RowGrows
<1>7. Tables
  BY DEF Close, Tables, TypeInv, TypeOK
<1>8. job' \in [Process -> Job] /\ Others(p) /\ Fits(p, job[p])'
  BY <1>2, ReturnFits DEF Close
<1> QED
  BY <1>6, <1>7, <1>8, TypeStep DEF Close

LEMMA FailTypes ==
  ASSUME TypeInv, NEW p \in Process, StatementFails(p)
  PROVE  TypeInv'
<1>1. job' \in [Process -> Job] /\ Others(p) /\ Fits(p, job[p])'
  BY AtStep, ReturnFits DEF StatementFails
<1>2. Grows
  BY SameRows DEF StatementFails
<1>3. Tables
  BY FailsTyped DEF StatementFails, Tables, TypeInv, TypeOK
<1> QED
  BY <1>1, <1>2, <1>3, TypeStep DEF StatementFails

-----------------------------------------------------------------------------
\* The lists of the daily run

\* A set of natural numbers has a least element: what follows of it needs no induction.
LEMMA Least ==
  ASSUME NEW T, T \subseteq Nat, T # {}
  PROVE  \E x \in T : \A y \in T : x <= y
<1> DEFINE R == {e \in Nat \X Nat : e[1] < e[2]}
<1>1. OpToRel(<, Nat) = R
  BY Zenon DEF OpToRel
<1>2. IsWellFoundedOn(R, Nat)
  BY <1>1, NatLessThanWellFounded, Zenon
<1> HIDE DEF R
<1>3. \E x \in T : \A y \in T : <<y, x>> \notin R
  BY <1>2, WFMin, Zenon
<1>4. PICK x \in T : \A y \in T : <<y, x>> \notin R
  BY <1>3
<1>5. ASSUME NEW y \in T PROVE x <= y
  <2>1. x \in Nat /\ y \in Nat /\ <<y, x>> \notin R
    BY <1>4
  <2> QED
    BY <2>1 DEF R
<1> QED
  BY <1>5

\* The scheduler finds a next order on every list that is not empty.
LEMMA NextListedIn ==
  ASSUME TypeInv, NEW s \in Scheduler, run[s].todo # {}
  PROVE  NextListed(s) \in run[s].todo
<1> DEFINE todo == run[s].todo
           T == {n \in Nat : \E x \in todo : n = Len(orders) - x.order}
<1>1. Len(orders) \in Nat /\ \A x \in todo : x.order \in OrderIds
  BY DEF TypeInv, TypeOK, Lists
<1>2. \A x \in todo : Len(orders) - x.order \in T
  BY <1>1 DEF OrderIds
<1>3. T \subseteq Nat /\ T # {}
  BY <1>2
<1>4. PICK n \in T : \A m \in T : n <= m
  BY <1>3, Least
<1>5. PICK x \in todo : n = Len(orders) - x.order
  BY <1>4
<1>6. ASSUME NEW y \in todo PROVE y.order <= x.order
  <2>1. n <= Len(orders) - y.order
    BY <1>2, <1>4
  <2>2. x.order \in Int /\ y.order \in Int
    BY <1>1 DEF OrderIds
  <2> QED
    BY <1>1, <1>5, <2>1, <2>2
<1>7. \E x1 \in run[s].todo : \A y \in run[s].todo : y.order <= x1.order
  BY <1>5, <1>6
<1> QED
  BY <1>7, Zenon DEF NextListed

LEMMA RunFields ==
  ASSUME TypeOK, NEW s \in Scheduler
  PROVE  /\ run[s] \in Run /\ run[s].day \in Nat
         /\ run[s].phase \in {"idle", "activate", "accrue", "settle"}
         /\ run[s].todo \subseteq Listed
         /\ \A x \in run[s].todo :
              /\ x.order \in Nat /\ x.renew \in BOOLEAN /\ x.accrued \in Nat
              /\ x.paid \in Nat /\ x.days \in Nat
<1>1. run[s] \in Run
  BY DEF TypeOK
<1>2. run[s].todo \subseteq Listed
  BY <1>1 DEF Run
<1> QED
  BY <1>1, <1>2 DEF Run, Listed

LEMMA ListTyped ==
  ASSUME TypeInv, NEW ids, ids \subseteq OrderIds, \A i \in ids : orders[i].start <= day
  PROVE  List(ids) \subseteq Listed /\ \A x \in List(ids) : x.order \in ids
<1> DEFINE row(i) == [order |-> i, renew |-> orders[i].renew, accrued |-> orders[i].accrued,
                      paid |-> orders[i].paid, days |-> day - orders[i].start]
<1>1. ASSUME NEW i \in ids PROVE row(i) \in Listed /\ row(i).order = i
  <2>1. /\ i \in Nat /\ orders[i].renew \in BOOLEAN /\ orders[i].accrued \in Nat
        /\ orders[i].paid \in Nat /\ orders[i].start \in Nat
    BY OrderFields DEF OrderIds, TypeInv
  <2>2. day \in Nat
    BY DEF TypeInv, TypeOK
  <2>3. day - orders[i].start \in Nat
    BY <2>1, <2>2
  <2> QED
    BY <2>1, <2>3 DEF Listed
<1>2. List(ids) = {row(i) : i \in ids}
  BY DEF List
<1> HIDE DEF row
<1> QED
  BY <1>1, <1>2

\* The run of one scheduler is another; those of the others are what they were.
LEMMA RunPut ==
  ASSUME TypeOK, NEW s \in Scheduler, NEW r \in Run, run' = [run EXCEPT ![s] = r]
  PROVE  /\ run' \in [Scheduler -> Run] /\ run'[s] = r
         /\ \A t \in Scheduler \ {s} : run'[t] = run[t]
BY DEF TypeOK

LEMMA EnterTyped ==
  ASSUME TypeInv, Grows, NEW s \in Scheduler, NEW ids, ids \subseteq OrderIds,
         \A i \in ids : orders[i].start <= day,
         NEW phase \in {"activate", "accrue", "settle"}, Enter(s, phase, ids)
  PROVE  run' \in [Scheduler -> Run] /\ Lists' /\ faults' \in 0 .. MaxFaults
<1>1. \E todo \in {List(ids), {}} :
        run' = [run EXCEPT ![s] = [phase |-> phase, day |-> day, todo |-> todo]]
  BY DEF Enter
<1>2. PICK todo \in {List(ids), {}} :
        run' = [run EXCEPT ![s] = [phase |-> phase, day |-> day, todo |-> todo]]
  BY <1>1
<1>3. todo \subseteq Listed /\ \A x \in todo : x.order \in OrderIds
  BY ListTyped
<1>4. [phase |-> phase, day |-> day, todo |-> todo] \in Run
  BY <1>3 DEF Run, TypeInv, TypeOK
<1>5. /\ run' \in [Scheduler -> Run]
      /\ run'[s] = [phase |-> phase, day |-> day, todo |-> todo]
      /\ \A t \in Scheduler \ {s} : run'[t] = run[t]
  BY <1>2, <1>4, RunPut DEF TypeInv
<1>6. OrderIds \subseteq OrderIds'
  BY DEF Grows, OrderIds, TypeInv, TypeOK
<1>7. Lists'
  <2>1. ASSUME NEW t \in Scheduler, NEW x \in run'[t].todo PROVE x.order \in OrderIds'
    <3>1. CASE t = s
      BY <1>3, <1>5, <1>6, <2>1, <3>1
    <3>2. CASE t # s
      BY <1>5, <1>6, <2>1, <3>2 DEF TypeInv, Lists
    <3> QED
      BY <3>1, <3>2
  <2> QED
    BY <2>1 DEF Lists
<1>8. faults' \in 0 .. MaxFaults
  BY FailsTyped DEF Enter, TypeInv
<1> QED
  BY <1>5, <1>7, <1>8

\* One order less on a list.
LEMMA DoneTyped ==
  ASSUME TypeInv, Grows, NEW s \in Scheduler, run' = Done(s)
  PROVE  /\ run' \in [Scheduler -> Run] /\ Lists'
         /\ run'[s].todo = run[s].todo \ {NextListed(s)}
         /\ run'[s].phase = run[s].phase /\ run'[s].day = run[s].day
         /\ \A t \in Scheduler \ {s} : run'[t] = run[t]
<1> DEFINE r == [run[s] EXCEPT !.todo = @ \ {NextListed(s)}]
<1>1. run[s] \in Run
  BY RunFields DEF TypeInv
<1>2. r \in Run /\ r.todo = run[s].todo \ {NextListed(s)}
      /\ r.phase = run[s].phase /\ r.day = run[s].day
  BY <1>1 DEF Run
<1>3. run' = [run EXCEPT ![s] = r]
  BY DEF Done
<1> HIDE DEF r
<1>4. /\ run' \in [Scheduler -> Run] /\ run'[s] = r
      /\ \A t \in Scheduler \ {s} : run'[t] = run[t]
  BY <1>2, <1>3, RunPut DEF TypeInv
<1>5. OrderIds \subseteq OrderIds'
  BY DEF Grows, OrderIds, TypeInv, TypeOK
<1>6. Lists'
  <2>1. ASSUME NEW t \in Scheduler, NEW x \in run'[t].todo PROVE x.order \in OrderIds'
    <3>1. x \in run[t].todo
      BY <1>2, <1>4, <2>1
    <3> QED
      BY <1>5, <3>1 DEF TypeInv, Lists
  <2> QED
    BY <2>1 DEF Lists
<1> QED
  BY <1>2, <1>4, <1>6

-----------------------------------------------------------------------------
\* The daily run keeps the types.

LEMMA JobsSame ==
  ASSUME TypeInv, Grows, job' = job
  PROVE  job' \in [Process -> Job] /\ Jobs'
<1>1. OrderIds \subseteq OrderIds'
  BY DEF Grows, OrderIds, TypeInv, TypeOK
<1> QED
  BY <1>1 DEF TypeInv, TypeOK, Jobs, Fits, Subscribes, EndsOrder, Records

LEMMA ListTypes ==
  ASSUME TypeInv, NEW s \in Scheduler,
         StartRun(s) \/ ListActiveOrders(s) \/ ListExpiredOrders(s)
  PROVE  TypeInv'
<1>1. Grows
  BY SameRows DEF StartRun, ListActiveOrders, ListExpiredOrders
<1>2. \A i \in OrderIds : orders[i].start \in Nat /\ orders[i].end \in Nat
                          /\ orders[i].end = orders[i].start + Duration
  BY OrderFields DEF TypeInv, Terms
<1>3. day \in Nat /\ Duration \in Nat
  BY WealthAssumption DEF TypeInv, TypeOK
<1>4. \E phase \in {"activate", "accrue", "settle"}, ids \in SUBSET OrderIds :
        /\ \A i \in ids : orders[i].start <= day
        /\ Enter(s, phase, ids)
  <2>1. CASE StartRun(s)
    <3>1. Enter(s, "activate",
                {i \in OrderIds : orders[i].status = Pending /\ orders[i].start <= day})
      BY <2>1 DEF StartRun
    <3> QED
      BY <3>1
  <2>2. CASE ListActiveOrders(s)
    <3>1. Enter(s, "accrue", {i \in OrderIds : Accrues(orders[i])})
      BY <2>2 DEF ListActiveOrders
    <3>2. \A i \in {k \in OrderIds : Accrues(orders[k])} : orders[i].start <= day
      BY <1>2, <1>3 DEF Accrues
    <3> QED
      BY <3>1, <3>2
  <2>3. CASE ListExpiredOrders(s)
    <3>1. Enter(s, "settle", {i \in OrderIds : Matured(orders[i])})
      BY <2>3 DEF ListExpiredOrders
    <3>2. \A i \in {k \in OrderIds : Matured(orders[k])} : orders[i].start <= day
      BY <1>2, <1>3 DEF Matured
    <3> QED
      BY <3>1, <3>2
  <2> QED
    BY <2>1, <2>2, <2>3
<1>5. run' \in [Scheduler -> Run] /\ Lists' /\ faults' \in 0 .. MaxFaults
  BY <1>1, <1>4, EnterTyped
<1>6. job' \in [Process -> Job] /\ Jobs'
  BY <1>1, JobsSame DEF StartRun, ListActiveOrders, ListExpiredOrders
<1>7. Tables
  BY <1>5 DEF StartRun, ListActiveOrders, ListExpiredOrders, Tables, TypeInv, TypeOK
<1> QED
  BY <1>1, <1>5, <1>6, <1>7 DEF TypeInv, TypeOK, Grows, Tables

LEMMA NextListedFacts ==
  ASSUME TypeInv, NEW s \in Scheduler, run[s].todo # {}
  PROVE  /\ NextListed(s) \in run[s].todo /\ NextListed(s).order \in OrderIds
         /\ NextListed(s).order \in Nat /\ NextListed(s).accrued \in Nat
         /\ NextListed(s).days \in Nat /\ NextListed(s).renew \in BOOLEAN
<1>1. NextListed(s) \in run[s].todo
  BY NextListedIn
<1>2. NextListed(s).order \in OrderIds
  BY <1>1 DEF TypeInv, Lists
<1> QED
  BY <1>1, <1>2, RunFields DEF TypeInv

LEMMA ActivateTypes ==
  ASSUME TypeInv, NEW s \in Scheduler, ActivateOrder(s)
  PROVE  TypeInv'
<1> DEFINE i == NextListed(s).order
           o == [orders[i] EXCEPT !.status = Running]
<1>1. i \in OrderIds
  BY NextListedFacts DEF ActivateOrder
<1>2. orders[i] \in Order /\ Running \in Status /\ 0 \in Nat
  BY <1>1, OrderFields DEF TypeInv, Status
<1>3. o \in Order /\ o.start = orders[i].start /\ o.end = orders[i].end
  BY <1>2, RowTyped DEF Order
<1>4. orders' = [orders EXCEPT ![i] = o] \/ orders' = orders
  BY DEF ActivateOrder
<1> HIDE DEF o, i
<1>5. Grows
  BY <1>1, <1>3, <1>4, RowGrows, SameRows
<1>6. run' \in [Scheduler -> Run] /\ Lists'
  BY <1>5, DoneTyped DEF ActivateOrder
<1>7. job' \in [Process -> Job] /\ Jobs'
  BY <1>5, JobsSame DEF ActivateOrder
<1>8. Tables
  BY FailsTyped DEF ActivateOrder, Tables, TypeInv, TypeOK
<1> QED
  BY <1>5, <1>6, <1>7, <1>8 DEF TypeInv, TypeOK, Grows, Tables

LEMMA AccrueTypes ==
  ASSUME TypeInv, NEW s \in Scheduler, UpdateInterestAccrued(s)
  PROVE  TypeInv'
<1> DEFINE x == NextListed(s)
           i == x.order
           o == [orders[i] EXCEPT !.accrued = x.days]
           j == [NoJob EXCEPT !.op = "accrue", !.step = "record",
                              !.order = i, !.interest = x.days - x.accrued]
<1>1. i \in OrderIds /\ i \in Nat /\ x.days \in Nat /\ x.accrued \in Nat
  BY NextListedFacts DEF UpdateInterestAccrued
<1>2. orders[i] \in Order /\ Pending \in Status
  BY <1>1, OrderFields DEF TypeInv, Status
<1>3. o \in Order /\ o.start = orders[i].start /\ o.end = orders[i].end
  BY <1>1, <1>2, RowTyped DEF Order
<1>4. /\ orders' = [orders EXCEPT ![i] = o] \/ orders' = orders
      /\ \/ job' = job
         \/ x.days > x.accrued /\ job' = [job EXCEPT ![s] = j]
  <2> HIDE DEF o, j
  <2>1. \/ /\ orders' = [orders EXCEPT ![i] = o]
           /\ job' = IF x.days > x.accrued THEN [job EXCEPT ![s] = j] ELSE job
        \/ orders' = orders /\ job' = job
    BY Zenon DEF UpdateInterestAccrued, o, j
  <2>2. CASE x.days > x.accrued
    BY <2>1, <2>2, Zenon
  <2>3. CASE ~(x.days > x.accrued)
    BY <2>1, <2>3, Zenon
  <2> QED
    BY <2>2, <2>3
<1>5. x.days > x.accrued => j \in Job
  <2>1. ASSUME x.days > x.accrued PROVE j \in Job
    <3>1. x.days - x.accrued \in Nat
      BY <1>1, <2>1
    <3>2. "accrue" \in {"none", "subscribe", "redeem", "settle", "renew", "accrue"}
          /\ "record" \in Step
      BY DEF Step
    <3> HIDE DEF x
    <3> QED
      BY <1>1, <3>1, <3>2, NoJobTyped, Zenon DEF Job
  <2> QED
    BY <2>1
<1>6. j.op = "accrue" /\ j.step = "record" /\ j.order = i
  BY DEF NoJob
<1> HIDE DEF o, i, j, x
<1>7. Grows
  BY <1>1, <1>3, <1>4, RowGrows, SameRows
<1>8. run' \in [Scheduler -> Run] /\ Lists'
  BY <1>7, DoneTyped DEF UpdateInterestAccrued
<1>9. job' \in [Process -> Job] /\ Jobs'
  <2>1. CASE job' = job
    BY <1>7, <2>1, JobsSame
  <2>2. CASE x.days > x.accrued /\ job' = [job EXCEPT ![s] = j]
    <3>1. j \in Job /\ s \in Process /\ Fits(s, j)
      BY <1>1, <1>5, <1>6, <2>2 DEF Fits, Records, Process
    <3>2. job' \in [Process -> Job] /\ Others(s) /\ Fits(s, job[s])'
      BY <1>7, <2>2, <3>1, SetFits
    <3> QED
      BY <1>7, <3>1, <3>2, JobsKept
  <2> QED
    BY <1>4, <2>1, <2>2
<1>10. Tables
  BY FailsTyped DEF UpdateInterestAccrued, Tables, TypeInv, TypeOK
<1> QED
  BY <1>7, <1>8, <1>9, <1>10 DEF TypeInv, TypeOK, Grows, Tables

LEMMA RecordTypes ==
  ASSUME TypeInv, NEW s \in Scheduler, RecordDailyInterest(s)
  PROVE  TypeInv'
<1> DEFINE i == job[s].order
           o == [orders[i] EXCEPT !.recorded = @ + job[s].interest]
<1>1. s \in Process /\ Records(s, job[s])
  BY AtStep DEF RecordDailyInterest, Process
<1>2. i \in OrderIds /\ job[s].interest \in Nat
  BY <1>1, JobFields DEF Records, TypeInv
<1>3. orders[i] \in Order /\ orders[i].recorded + job[s].interest \in Nat
  BY <1>2, OrderFields DEF TypeInv
<1>4. o \in Order /\ o.start = orders[i].start /\ o.end = orders[i].end
  <2>1. Pending \in Status
    BY DEF Status
  <2> QED
    BY <1>3, <2>1, RowTyped DEF Order
<1>5. orders' = [orders EXCEPT ![i] = o]
  BY DEF RecordDailyInterest, DailyAmount
<1> HIDE DEF o
<1>6. Grows
  BY <1>2, <1>4, <1>5, RowGrows
<1>7. Tables
  BY DEF RecordDailyInterest, Tables, TypeInv, TypeOK
<1>8. job' \in [Process -> Job] /\ Others(s) /\ Fits(s, job[s])'
  BY <1>1, ReturnFits DEF RecordDailyInterest, Records
<1> QED
  BY <1>1, <1>6, <1>7, <1>8, TypeStep DEF RecordDailyInterest

\* The job of a settlement or a renewal.
LEMMA RepaymentTyped ==
  ASSUME TypeInv, NEW op \in {"settle", "renew"}, NEW step \in {"unfreeze", "pay", "renew"},
         NEW id \in OrderIds, NEW n \in Nat
  PROVE  LET j == Repayment(op, step, id, n) IN
         /\ j \in Job /\ j.op = op /\ j.step = step /\ j.user = orders[id].user
         /\ j.amount = orders[id].amount /\ j.order = id /\ j.close = Settled
         /\ j.interest = n /\ j.today = day /\ j.paid = 0
<1> DEFINE o == orders[id]
           j == [NoJob EXCEPT !.op = op, !.step = step, !.user = o.user,
                !.amount = o.amount, !.renew = o.renew, !.order = id,
                !.close = Settled, !.interest = n, !.today = day]
<1>1. /\ o.user \in User /\ o.amount \in Nat /\ o.renew \in BOOLEAN
      /\ id \in Nat /\ day \in Nat /\ Settled \in Status
  BY OrderFields DEF OrderIds, TypeInv, TypeOK, Status
<1>2. op \in {"none", "subscribe", "redeem", "settle", "renew", "accrue"} /\ step \in Step
  BY DEF Step
<1>3. Repayment(op, step, id, n) = j
  BY DEF Repayment
<1>4. /\ j.op = op /\ j.step = step /\ j.user = o.user
      /\ j.amount = o.amount /\ j.order = id /\ j.close = Settled
      /\ j.interest = n /\ j.today = day /\ j.paid = 0
  BY DEF NoJob
<1> HIDE DEF o
<1>5. j \in Job
  BY <1>1, <1>2, NoJobTyped, Zenon DEF Job
<1> QED
  BY <1>3, <1>4, <1>5 DEF o

LEMMA RepayTypes ==
  ASSUME TypeInv, NEW s \in Scheduler, SettleOrder(s) \/ RenewOrder(s)
  PROVE  TypeInv'
<1> DEFINE i == NextListed(s).order
<1>1. run[s].todo # {} /\ i \in OrderIds /\ NextListed(s).accrued \in Nat /\ s \in Process
  BY NextListedFacts DEF SettleOrder, RenewOrder, Process
<1>2. Grows
  BY SameRows DEF SettleOrder, RenewOrder
<1>3. run' \in [Scheduler -> Run] /\ Lists'
  BY <1>2, DoneTyped DEF SettleOrder, RenewOrder
<1>4. Tables
  BY DEF SettleOrder, RenewOrder, Tables, TypeInv, TypeOK
<1>5. CASE job' = job
  BY <1>2, <1>3, <1>4, <1>5, JobsSame DEF TypeInv, TypeOK, Grows, Tables
<1>6. CASE SettleOrder(s) /\ job' = [job EXCEPT ![s] = Repayment("settle", "unfreeze", i,
                                                               orders[i].accrued)]
  <2> DEFINE j == Repayment("settle", "unfreeze", i, orders[i].accrued)
  <2>1. orders[i].accrued \in Nat /\ orders[i].user \in User
    BY <1>1, OrderFields DEF TypeInv
  <2>2. j \in Job /\ j.op = "settle" /\ j.step = "unfreeze" /\ j.order = i
        /\ j.user = orders[i].user
    BY <1>1, <2>1, RepaymentTyped
  <2> HIDE DEF j
  <2>3. Fits(s, j)
    BY <1>1, <2>1, <2>2 DEF Fits, EndsOrder, Ending, Returning
  <2>4. job' = [job EXCEPT ![s] = j]
    BY <1>6 DEF j
  <2>5. job' \in [Process -> Job] /\ Others(s) /\ Fits(s, job[s])'
    BY <1>1, <1>2, <2>2, <2>3, <2>4, SetFits
  <2> QED
    BY <1>1, <1>2, <1>3, <1>4, <2>5, JobsKept DEF TypeInv, TypeOK, Grows, Tables
<1>7. CASE RenewOrder(s) /\ job' = [job EXCEPT ![s] =
        Repayment("renew", IF NextListed(s).accrued > 0 THEN "pay" ELSE "renew",
                  i, NextListed(s).accrued)]
  <2> DEFINE step == IF NextListed(s).accrued > 0 THEN "pay" ELSE "renew"
             j == Repayment("renew", step, i, NextListed(s).accrued)
  <2>1. orders[i].user \in User /\ step \in {"pay", "renew"}
    BY <1>1, OrderFields DEF TypeInv
  <2>2. job' = [job EXCEPT ![s] = j]
    BY <1>7
  <2> HIDE DEF step
  <2>3. j \in Job /\ j.op = "renew" /\ j.step = step /\ j.order = i
        /\ j.user = orders[i].user
    BY <1>1, <2>1, RepaymentTyped
  <2> HIDE DEF j
  <2>4. Fits(s, j)
    BY <1>1, <2>1, <2>3 DEF Fits, EndsOrder, Ending, Renewing
  <2>5. job' \in [Process -> Job] /\ Others(s) /\ Fits(s, job[s])'
    BY <1>1, <1>2, <2>2, <2>3, <2>4, SetFits
  <2> QED
    BY <1>1, <1>2, <1>3, <1>4, <2>5, JobsKept DEF TypeInv, TypeOK, Grows, Tables
<1>8. \/ job' = job
      \/ SettleOrder(s) /\ job' = [job EXCEPT ![s] = Repayment("settle", "unfreeze", i,
                                                               orders[i].accrued)]
      \/ RenewOrder(s) /\ job' = [job EXCEPT ![s] =
           Repayment("renew", IF NextListed(s).accrued > 0 THEN "pay" ELSE "renew",
                     i, NextListed(s).accrued)]
  <2>1. CASE SettleOrder(s)
    BY <2>1, Zenon DEF SettleOrder
  <2>2. CASE RenewOrder(s)
    BY <2>2, Zenon DEF RenewOrder
  <2> QED
    BY <2>1, <2>2
<1> QED
  BY <1>5, <1>6, <1>7, <1>8

LEMMA EndRunTypes ==
  ASSUME TypeInv, NEW s \in Scheduler, EndRun(s)
  PROVE  TypeInv'
<1> DEFINE r == [run[s] EXCEPT !.phase = "idle", !.day = day]
<1>1. run[s] \in Run /\ run[s].todo = {} /\ day \in Nat
  BY RunFields DEF EndRun, TypeInv, TypeOK
<1>2. r \in Run /\ r.todo = {}
  BY <1>1 DEF Run
<1>3. run' = [run EXCEPT ![s] = r]
  BY DEF EndRun
<1> HIDE DEF r
<1>4. /\ run' \in [Scheduler -> Run] /\ run'[s] = r
      /\ \A t \in Scheduler \ {s} : run'[t] = run[t]
  BY <1>2, <1>3, RunPut DEF TypeInv
<1>5. Grows
  BY SameRows DEF EndRun
<1>6. Lists'
  <2>1. OrderIds' = OrderIds
    BY DEF EndRun, OrderIds
  <2>2. ASSUME NEW t \in Scheduler, NEW x \in run'[t].todo PROVE x.order \in OrderIds
    BY <1>2, <1>4, <2>2 DEF TypeInv, Lists
  <2> QED
    BY <2>1, <2>2 DEF Lists
<1>7. job' \in [Process -> Job] /\ Jobs'
  BY <1>5, JobsSame DEF EndRun
<1>8. Tables
  BY DEF EndRun, Tables, TypeInv, TypeOK
<1> QED
  BY <1>4, <1>5, <1>6, <1>7, <1>8 DEF TypeInv, TypeOK, Grows, Tables

-----------------------------------------------------------------------------
\* So does the environment.

LEMMA SameJobsTypes ==
  ASSUME TypeInv, Tables, UNCHANGED <<orders, job, run>>
  PROVE  TypeInv'
<1>1. Grows
  BY SameRows
<1>2. run' \in [Scheduler -> Run] /\ Lists'
  BY <1>1, ListsKept
<1>3. job' \in [Process -> Job] /\ Jobs'
  BY <1>1, JobsSame
<1> QED
  BY <1>1, <1>2, <1>3 DEF TypeInv, TypeOK, Grows, Tables

LEMMA CalendarTypes ==
  ASSUME TypeInv, Midnight \/ EndMaintenance \/ ChangeProduct
  PROVE  TypeInv'
<1>1. day' \in 1 .. MaxDay
  BY WealthAssumption DEF Midnight, EndMaintenance, ChangeProduct, TypeInv, TypeOK
<1>2. product' \in [onSale: BOOLEAN, renewable: BOOLEAN, sold: Nat]
  BY DEF Midnight, EndMaintenance, ChangeProduct, TypeInv, TypeOK
<1>3. UNCHANGED <<orders, job, run>>
  BY DEF Midnight, EndMaintenance, ChangeProduct
<1>4. Tables
  BY <1>1, <1>2 DEF Midnight, EndMaintenance, ChangeProduct, Tables, TypeInv, TypeOK
<1> QED
  BY <1>3, <1>4, SameJobsTypes

LEMMA RestartTypes ==
  ASSUME TypeInv, Restart
  PROVE  TypeInv'
<1>1. Grows
  BY SameRows DEF Restart
<1>2. PICK late \in BOOLEAN :
        run' = [s \in Scheduler |->
                  [phase |-> "idle", todo |-> {},
                   day |-> IF late \/ run[s].phase # "idle" THEN day ELSE run[s].day]]
  BY DEF Restart
<1>3. run' \in [Scheduler -> Run] /\ Lists'
  <2>1. ASSUME NEW s \in Scheduler PROVE run'[s] \in Run /\ run'[s].todo = {}
    <3>1. run[s].day \in Nat /\ day \in Nat
      BY RunFields DEF TypeInv, TypeOK
    <3> QED
      BY <1>2, <3>1 DEF Run
  <2> QED
    BY <1>2, <2>1 DEF Lists
<1>4. job' \in [Process -> Job] /\ Jobs'
  BY NoJobTyped DEF Restart, Jobs, Fits
<1>5. Tables
  BY WealthAssumption, NewServiceTyped DEF Restart, Tables, TypeInv, TypeOK
<1> QED
  BY <1>1, <1>3, <1>4, <1>5 DEF TypeInv, TypeOK, Grows, Tables

LEMMA TypeInit ==
  ASSUME Init
  PROVE  TypeInv
<1>1. account \in [User -> Account]
  BY WealthAssumption DEF Init, Account
<1>2. orders \in Seq(Order) /\ OrderIds = {}
  BY DEF Init, OrderIds
<1>3. job \in [Process -> Job] /\ Jobs
  BY NoJobTyped DEF Init, Jobs, Fits
<1>4. run \in [Scheduler -> Run] /\ Lists
  BY DEF Init, Run, Lists
<1>5. /\ day \in 1 .. MaxDay /\ faults \in 0 .. MaxFaults /\ crashes \in 0 .. MaxCrashes
  BY WealthAssumption DEF Init
<1>6. maintenance \in BOOLEAN /\ service \in Service
  BY NewServiceTyped DEF Init
<1>7. product \in [onSale: BOOLEAN, renewable: BOOLEAN, sold: Nat]
  BY DEF Init
<1> QED
  BY <1>1, <1>2, <1>3, <1>4, <1>5, <1>6, <1>7 DEF TypeInv, TypeOK, Terms

LEMMA TypeNext ==
  ASSUME TypeInv, [Next]_vars
  PROVE  TypeInv'
<1>1. CASE UNCHANGED vars
  <2>1. UNCHANGED <<orders, job, run>> /\ Tables
    BY <1>1 DEF vars, Tables, TypeInv, TypeOK
  <2> QED
    BY <2>1, SameJobsTypes
<1>2. ASSUME NEW p \in Call, Serve(p) PROVE TypeInv'
  BY <1>2, SubscribeTypes, RedeemTypes DEF Serve
<1>3. ASSUME NEW p \in Process, Advance(p) PROVE TypeInv'
  BY <1>3, AcquireTypes, ClearTypes, ReadTypes, FreezeTypes, CreateTypes, QuotaTypes, UnfreezeTypes,
     BookTypes, PayTypes, RenewedTypes, LinkTypes, CloseTypes DEF Advance, Acquires
<1>4. ASSUME NEW p \in Process, Disturb(p) PROVE TypeInv'
  BY <1>4, CreateTypes, BookTypes, FailTypes DEF Disturb
<1>5. ASSUME NEW s \in Scheduler, Daily(s) PROVE TypeInv'
  BY <1>5, ListTypes, ActivateTypes, AccrueTypes, RecordTypes, RepayTypes, EndRunTypes
     DEF Daily
<1>6. CASE Midnight \/ EndMaintenance \/ ChangeProduct \/ Restart \/ LastDay
  BY <1>1, <1>6, CalendarTypes, RestartTypes DEF LastDay
<1> QED
  BY <1>1, <1>2, <1>3, <1>4, <1>5, <1>6 DEF Next

LEMMA Typed == Spec => []TypeInv
<1> QED
  BY TypeInit, TypeNext, PTL DEF Spec

\* Every variable keeps its type; a process is only ever at a step of its own
\* operation, for a row that exists (EndsOrder, Records), the term of an order
\* stays what it was, and the scheduler's lists name rows that exist.
THEOREM WealthTyped == Spec => []TypeOK
<1>1. TypeInv => TypeOK
  BY DEF TypeInv
<1> QED
  BY <1>1, Typed, PTL

-----------------------------------------------------------------------------
\* What every action does, field by field

\* The job of p is at another step, or over; no other job changed.
Steps(p, step) == Others(p) /\ job'[p].step = step /\ Kept(job[p], job'[p])
Ends(p) == Others(p) /\ job'[p] = NoJob
Leaves(p) == IF job[p].op = "subscribe" THEN Steps(p, "clear") ELSE Ends(p)

\* One account row moved: by b, f and n in its three columns.
Moves(u, b, f, n) ==
  /\ account'[u].balance = account[u].balance + b
  /\ account'[u].frozen = account[u].frozen + f
  /\ account'[u].journal = account[u].journal + n
  /\ \A v \in User \ {u} : account'[v] = account[v]

\* One order row was written, in columns other than the customer's choice.
Writes(i) ==
  /\ Len(orders') = Len(orders) /\ \A k \in OrderIds \ {i} : orders'[k] = orders[k]
  /\ orders'[i].user = orders[i].user /\ orders'[i].amount = orders[i].amount
  /\ orders'[i].start = orders[i].start /\ orders'[i].end = orders[i].end

\* The columns a property counts by.
SameCounts(i) ==
  /\ orders'[i].returned = orders[i].returned /\ orders'[i].payments = orders[i].payments
  /\ orders'[i].credited = orders[i].credited /\ orders'[i].recorded = orders[i].recorded

LEMMA MovesRow ==
  ASSUME TypeInv, NEW u \in User, NEW n \in Int
  PROVE  /\ account' = [account EXCEPT ![u].frozen = @ + n] => Moves(u, 0, n, 0)
         /\ account' = [account EXCEPT ![u].frozen = @ - n] => Moves(u, 0, -n, 0)
         /\ account' = [account EXCEPT ![u].balance = @ + n] => Moves(u, n, 0, 0)
         /\ account' = [account EXCEPT ![u].journal = @ + n] => Moves(u, 0, 0, n)
<1>1. /\ account \in [User -> Account] /\ account[u] \in Account
      /\ account[u].balance \in Int /\ account[u].frozen \in Int /\ account[u].journal \in Int
  BY DEF TypeInv, TypeOK, Account
<1>2. ASSUME account' = [account EXCEPT ![u].frozen = @ + n] PROVE Moves(u, 0, n, 0)
  BY <1>1, <1>2 DEF Moves, Account
<1>3. ASSUME account' = [account EXCEPT ![u].frozen = @ - n] PROVE Moves(u, 0, -n, 0)
  BY <1>1, <1>3 DEF Moves, Account
<1>4. ASSUME account' = [account EXCEPT ![u].balance = @ + n] PROVE Moves(u, n, 0, 0)
  BY <1>1, <1>4 DEF Moves, Account
<1>5. ASSUME account' = [account EXCEPT ![u].journal = @ + n] PROVE Moves(u, 0, 0, n)
  BY <1>1, <1>5 DEF Moves, Account
<1> QED
  BY <1>2, <1>3, <1>4, <1>5

LEMMA StepsTo ==
  ASSUME TypeInv, NEW p \in Process, NEW step \in Step, GoTo(p, step)
  PROVE  Steps(p, step)
BY Goes DEF TypeInv, Steps

LEMMA ReturnLeaves ==
  ASSUME TypeInv, NEW p \in Process, Return(p)
  PROVE  Leaves(p)
BY Returns DEF TypeInv, Leaves, Steps, Ends

LEMMA SubscribeDoes ==
  ASSUME TypeInv, NEW p \in Call, NEW u \in User, NEW a \in Amount, NEW r \in AutoRenew,
         NEW t \in Text, Subscribe(p, u, a, r, t)
  PROVE  /\ job[p] = NoJob /\ p \in Process /\ Others(p)
         /\ job'[p].op = "subscribe" /\ job'[p].user = u /\ job'[p].amount = a
         /\ job'[p].step \in {"getLock", "lock"} /\ job'[p].interest = 0
         /\ job'[p].order = 0
<1>1. p \in Process /\ job \in [Process -> Job]
  BY DEF Process, TypeInv, TypeOK
<1>2. PICK j \in Job : /\ job' = [job EXCEPT ![p] = j]
                       /\ j.op = "subscribe" /\ j.user = u /\ j.amount = a
                       /\ j.step \in {"getLock", "lock"} /\ j.interest = 0 /\ j.order = 0
  BY SubscribeBegins
<1>3. job'[p] = j /\ Others(p)
  BY <1>1, <1>2 DEF Others
<1> QED
  BY <1>1, <1>2, <1>3 DEF Subscribe

LEMMA AcquireDoes ==
  ASSUME TypeInv, NEW p \in Process, Acquires(p)
  PROVE  /\ Subscribes(p, job[p]) /\ job[p].step \in {"getLock", "lock", "mark"}
         /\ \E step \in {"lock", "mark", "product", "clear"} : Steps(p, step)
         /\ UNCHANGED <<day, maintenance, product, account, orders, run, faults, crashes>>
<1>1. Subscribes(p, job[p]) /\ job[p].step \in {"getLock", "lock", "mark"}
  BY AtStep DEF Acquires, MakeMutex, Lock, Mark
<1>2. CASE MakeMutex(p)
  <2> DEFINE j == [job[p] EXCEPT !.step = "lock", !.mutex = p]
  <2>1. job[p] \in Job /\ job \in [Process -> Job]
    BY DEF TypeInv, TypeOK
  <2>2. Kept(job[p], j) /\ j.step = "lock"
    BY <2>1 DEF Job, Kept
  <2>3. job' = [job EXCEPT ![p] = j]
    BY <1>2 DEF MakeMutex
  <2> HIDE DEF j
  <2>4. job'[p] = j /\ Others(p)
    BY <2>1, <2>3 DEF Others
  <2>5. Steps(p, "lock")
    BY <2>2, <2>4 DEF Steps
  <2> QED
    BY <1>1, <1>2, <2>5 DEF MakeMutex
<1>3. CASE Lock(p) \/ Mark(p)
  <2>1. GoTo(p, "mark") \/ GoTo(p, "product") \/ Return(p)
    BY <1>3 DEF Lock, Mark
  <2>2. /\ GoTo(p, "mark") => Steps(p, "mark")
        /\ GoTo(p, "product") => Steps(p, "product")
    BY StepsTo DEF Step
  <2>3. Return(p) => Steps(p, "clear")
    BY <1>1, ReturnLeaves DEF Leaves, Subscribes
  <2> QED
    BY <1>1, <1>3, <2>1, <2>2, <2>3 DEF Lock, Mark
<1> QED
  BY <1>2, <1>3 DEF Acquires

LEMMA ClearDoes ==
  ASSUME TypeInv, NEW p \in Process, ClearLock(p)
  PROVE  Ends(p)
BY DEF ClearLock, TypeInv, TypeOK, Ends, Others

LEMMA ReadDoes ==
  ASSUME TypeInv, NEW p \in Process, ReadProduct(p) \/ ReadAccount(p)
  PROVE  /\ Subscribes(p, job[p])
         /\ \/ Steps(p, "clear")
            \/ ReadProduct(p) /\ Steps(p, "account") /\ QuotaAllows(product.sold, job[p].amount)
            \/ ReadAccount(p) /\ Steps(p, "freeze")
               /\ Covers(account[job[p].user], job[p].amount)
<1>1. Subscribes(p, job[p])
  BY AtStep DEF ReadProduct, ReadAccount
<1>2. /\ GoTo(p, "account") => Steps(p, "account")
      /\ GoTo(p, "freeze") => Steps(p, "freeze")
  BY StepsTo DEF Step
<1>3. Return(p) => Steps(p, "clear")
  BY <1>1, ReturnLeaves DEF Leaves, Subscribes
<1> QED
  BY <1>1, <1>2, <1>3 DEF ReadProduct, ReadAccount

LEMMA FreezeDoes ==
  ASSUME TypeInv, NEW p \in Process, Freeze(p)
  PROVE  /\ Subscribes(p, job[p]) /\ job[p].amount \in Nat
         /\ Steps(p, "create") /\ Moves(job[p].user, 0, job[p].amount, 0)
<1> DEFINE j == [job[p] EXCEPT !.step = "create", !.today = day]
<1>1. /\ Subscribes(p, job[p]) /\ job[p] \in Job /\ job[p].amount \in Nat
      /\ job[p].user \in User
  BY AtStep, JobFields DEF Freeze, Subscribes, TypeInv
<1>2. job' = [job EXCEPT ![p] = j]
  BY DEF Freeze
<1>3. j.step = "create" /\ Kept(job[p], j)
  BY <1>1 DEF Job, Kept
<1> HIDE DEF j
<1>4. job'[p] = j /\ Others(p)
  BY <1>2 DEF Others, TypeInv, TypeOK
<1>5. Moves(job[p].user, 0, job[p].amount, 0)
  <2>1. account' = [account EXCEPT ![job[p].user].frozen = @ + job[p].amount]
    BY DEF Freeze, FreezeBalance
  <2>2. job[p].amount \in Int
    BY <1>1
  <2> QED
    BY <1>1, <2>1, <2>2, MovesRow
<1> QED
  BY <1>1, <1>3, <1>4, <1>5 DEF Steps

LEMMA CreateDoes ==
  ASSUME TypeInv, NEW p \in Process, CreateOrder(p)
  PROVE  /\ Subscribes(p, job[p]) /\ Steps(p, "quota")
         /\ orders' = Append(orders, NewOrder(job[p]))
<1>1. Steps(p, "quota")
  BY StepsTo DEF CreateOrder, Step
<1> QED
  BY <1>1, AtStep DEF CreateOrder

LEMMA CreateFailsDoes ==
  ASSUME TypeInv, NEW p \in Process, CreateOrderFails(p)
  PROVE  /\ Subscribes(p, job[p]) /\ job[p].amount \in Nat /\ Steps(p, "clear") /\ faults' > 0
         /\ account' = account \/ Moves(job[p].user, 0, -job[p].amount, 0)
<1>1. Subscribes(p, job[p]) /\ job[p].amount \in Nat /\ job[p].user \in User
  BY AtStep, JobFields DEF CreateOrderFails, Subscribes, TypeInv
<1>2. Steps(p, "clear")
  BY <1>1, ReturnLeaves DEF CreateOrderFails, Leaves, Subscribes
<1>3. faults' > 0
  BY WealthAssumption DEF CreateOrderFails, TypeInv, TypeOK
<1>4. account' = account \/ Moves(job[p].user, 0, -job[p].amount, 0)
  BY <1>1, MovesRow DEF CreateOrderFails, UnfreezeBalance
<1> QED
  BY <1>1, <1>2, <1>3, <1>4

LEMMA QuotaDoes ==
  ASSUME TypeInv, NEW p \in Process, UpdateProductSoldQuota(p)
  PROVE  /\ Subscribes(p, job[p]) /\ job[p].amount \in Nat /\ Steps(p, "book")
         /\ product'.sold = product.sold + job[p].amount \/ product' = product
<1>1. Subscribes(p, job[p]) /\ job[p].amount \in Nat
  BY AtStep, JobFields DEF UpdateProductSoldQuota, TypeInv
<1>2. Steps(p, "book")
  BY StepsTo DEF UpdateProductSoldQuota, Step
<1>3. product'.sold = product.sold + job[p].amount \/ product' = product
  BY DEF UpdateProductSoldQuota, TypeInv, TypeOK
<1> QED
  BY <1>1, <1>2, <1>3

LEMMA BookSubscriptionDoes ==
  ASSUME TypeInv, NEW p \in Process, BookSubscription(p)
  PROVE  /\ Subscribes(p, job[p]) /\ job[p].amount \in Nat /\ Steps(p, "clear")
         /\ Moves(job[p].user, 0, 0, -job[p].amount)
<1>1. Subscribes(p, job[p]) /\ job[p].amount \in Nat /\ job[p].user \in User
  BY AtStep, JobFields DEF BookSubscription, Subscribes, TypeInv
<1>2. Steps(p, "clear")
  BY <1>1, ReturnLeaves DEF BookSubscription, Leaves, Subscribes
<1>3. -job[p].amount \in Int
  BY <1>1
<1>4. Moves(job[p].user, 0, 0, -job[p].amount)
  BY <1>1, <1>3, MovesRow DEF BookSubscription, CreateJournalRecord
<1> QED
  BY <1>1, <1>2, <1>4

LEMMA RedeemDoes ==
  ASSUME TypeInv, NEW p \in Call, NEW id \in OrderIds, Redeem(p, id)
  PROVE  /\ p \in Process /\ job[p] = NoJob /\ Others(p)
         /\ IsOpen(orders[id]) /\ ~maintenance
         /\ job'[p].op = "redeem" /\ job'[p].step = "unfreeze" /\ job'[p].order = id
         /\ job'[p].user = orders[id].user /\ job'[p].amount = orders[id].amount
         /\ job'[p].paid = orders[id].paid
         /\ \/ job'[p].close = Settled /\ job'[p].interest = orders[id].accrued
            \/ job'[p].close = Redeemed /\ job'[p].interest = 0
<1> DEFINE o == orders[id]
           j == [NoJob EXCEPT !.op = "redeem", !.step = "unfreeze", !.user = o.user,
                              !.amount = o.amount, !.order = id, !.paid = o.paid,
                              !.interest = DueToCustomer(o),
                              !.close = IF day > o.end THEN Settled ELSE Redeemed]
<1>1. p \in Process /\ job \in [Process -> Job]
  BY DEF Process, TypeInv, TypeOK
<1>2. job' = [job EXCEPT ![p] = j]
  BY DEF Redeem
<1>3. /\ j.op = "redeem" /\ j.step = "unfreeze" /\ j.order = id /\ j.user = o.user
      /\ j.amount = o.amount /\ j.paid = o.paid /\ j.interest = DueToCustomer(o)
      /\ j.close = IF day > o.end THEN Settled ELSE Redeemed
  BY DEF NoJob
<1>4. \/ j.close = Settled /\ j.interest = o.accrued
      \/ j.close = Redeemed /\ j.interest = 0
  BY <1>3 DEF DueToCustomer
<1> HIDE DEF j, o
<1>5. job'[p] = j /\ Others(p)
  BY <1>1, <1>2 DEF Others
<1>6. job[p] = NoJob /\ IsOpen(orders[id]) /\ ~maintenance
  BY DEF Redeem, Redeemable
<1> QED
  BY <1>1, <1>3, <1>4, <1>5, <1>6 DEF o

LEMMA UnfreezeDoes ==
  ASSUME TypeInv, NEW p \in Process, Unfreeze(p)
  PROVE  /\ EndsOrder(p, job[p]) /\ job[p].op # "renew" /\ Steps(p, "bookPrincipal")
         /\ Moves(job[p].user, 0, -job[p].amount, 0)
         /\ LET i == job[p].order IN
            /\ Writes(i) /\ orders'[i].status = orders[i].status
            /\ orders'[i].accrued = orders[i].accrued /\ orders'[i].paid = orders[i].paid
            /\ orders'[i].returned = orders[i].returned + 1
            /\ orders'[i].payments = orders[i].payments
            /\ orders'[i].credited = orders[i].credited
            /\ orders'[i].recorded = orders[i].recorded
<1> DEFINE i == job[p].order
           o == [orders[i] EXCEPT !.returned = @ + 1]
<1>1. EndsOrder(p, job[p]) /\ job[p].op # "renew"
  BY AtStep DEF Unfreeze
<1>2. i \in OrderIds /\ job[p].user \in User /\ job[p].amount \in Int
  BY <1>1, EndsFacts
<1>3. orders[i] \in Order /\ orders[i].returned + 1 \in Nat
  BY <1>2, OrderFields DEF TypeInv
<1>4. o \in Order
  BY <1>3, RowTyped DEF Order, Status
<1>5. orders' = [orders EXCEPT ![i] = o]
  BY DEF Unfreeze
<1>6. /\ o.user = orders[i].user /\ o.amount = orders[i].amount /\ o.start = orders[i].start
      /\ o.end = orders[i].end /\ o.status = orders[i].status
      /\ o.accrued = orders[i].accrued /\ o.paid = orders[i].paid
      /\ o.returned = orders[i].returned + 1
      /\ o.payments = orders[i].payments /\ o.credited = orders[i].credited
      /\ o.recorded = orders[i].recorded
  BY <1>3 DEF Order
<1> HIDE DEF o, i
<1>7. /\ Len(orders') = Len(orders) /\ orders'[i] = o
      /\ \A k \in OrderIds \ {i} : orders'[k] = orders[k]
  BY <1>2, <1>4, <1>5, RowRewritten DEF TypeInv
<1>8. Steps(p, "bookPrincipal")
  BY StepsTo DEF Unfreeze, Step
<1>9. Moves(job[p].user, 0, -job[p].amount, 0)
  BY <1>2, MovesRow DEF Unfreeze, UnfreezeBalance
<1> QED
  BY <1>1, <1>6, <1>7, <1>8, <1>9 DEF Writes, i

LEMMA BookDoes ==
  ASSUME TypeInv, NEW p \in Process, BookPrincipal(p) \/ BookInterest(p) \/ JournalLost(p)
  PROVE  /\ EndsOrder(p, job[p])
         /\ \/ /\ job[p].step = "bookPrincipal" /\ job[p].op # "renew"
               /\ Steps(p, AfterPrincipal(job[p]))
            \/ job[p].step = "bookInterest" /\ Steps(p, AfterInterest(job[p]))
         /\ BookPrincipal(p) => /\ job[p].step = "bookPrincipal"
                                /\ Moves(job[p].user, 0, 0, job[p].amount)
         /\ BookInterest(p) =>
              /\ job[p].step = "bookInterest"
              /\ Moves(job[p].user, 0, 0, Interest(job[p].amount, job[p].interest))
         /\ JournalLost(p) => account' = account /\ faults' > 0
<1>1. /\ EndsOrder(p, job[p])
      /\ job[p].step = "bookPrincipal" => job[p].op # "renew"
  BY AtStep DEF BookPrincipal, BookInterest, JournalLost
<1>2. /\ job[p].user \in User /\ job[p].amount \in Int
      /\ Interest(job[p].amount, job[p].interest) \in Int
  BY <1>1, EndsFacts
<1>3. \/ job[p].step = "bookPrincipal" /\ GoTo(p, AfterPrincipal(job[p]))
      \/ job[p].step = "bookInterest" /\ GoTo(p, AfterInterest(job[p]))
  BY DEF BookPrincipal, BookInterest, JournalLost
<1>4. AfterPrincipal(job[p]) \in Step /\ AfterInterest(job[p]) \in Step
  BY DEF AfterPrincipal, AfterInterest, Step
<1>5. \/ job[p].step = "bookPrincipal" /\ Steps(p, AfterPrincipal(job[p]))
      \/ job[p].step = "bookInterest" /\ Steps(p, AfterInterest(job[p]))
  BY <1>3, <1>4, StepsTo
<1>6. ASSUME BookPrincipal(p)
      PROVE  job[p].step = "bookPrincipal" /\ Moves(job[p].user, 0, 0, job[p].amount)
  BY <1>2, <1>6, MovesRow DEF BookPrincipal, CreateJournalRecord
<1>7. ASSUME BookInterest(p)
      PROVE  /\ job[p].step = "bookInterest"
             /\ Moves(job[p].user, 0, 0, Interest(job[p].amount, job[p].interest))
  BY <1>2, <1>7, MovesRow DEF BookInterest, CreateJournalRecord
<1>8. ASSUME JournalLost(p) PROVE account' = account /\ faults' > 0
  BY <1>8 DEF JournalLost, Fails, TypeInv, TypeOK
<1> QED
  BY <1>1, <1>5, <1>6, <1>7, <1>8

LEMMA PayDoes ==
  ASSUME TypeInv, NEW p \in Process, PayInterest(p)
  PROVE  /\ EndsOrder(p, job[p]) /\ job[p].step = "pay" /\ Steps(p, "bookInterest")
         /\ Moves(job[p].user, Interest(job[p].amount, job[p].interest), 0, 0)
         /\ LET i == job[p].order IN
            /\ Writes(i) /\ orders'[i].status = orders[i].status
            /\ orders'[i].accrued = orders[i].accrued /\ orders'[i].paid = orders[i].paid
            /\ orders'[i].returned = orders[i].returned
            /\ orders'[i].payments = orders[i].payments + 1
            /\ orders'[i].credited = orders[i].credited + job[p].interest
            /\ orders'[i].recorded = orders[i].recorded
<1> DEFINE i == job[p].order
           o == [orders[i] EXCEPT !.payments = @ + 1, !.credited = @ + job[p].interest]
<1>1. EndsOrder(p, job[p]) /\ job[p].step = "pay"
  BY AtStep DEF PayInterest
<1>2. /\ i \in OrderIds /\ job[p].user \in User /\ job[p].interest \in Nat
      /\ Interest(job[p].amount, job[p].interest) \in Int
  BY <1>1, EndsFacts
<1>3. /\ orders[i] \in Order /\ orders[i].payments + 1 \in Nat
      /\ orders[i].credited + job[p].interest \in Nat /\ Pending \in Status
  BY <1>2, OrderFields DEF TypeInv, Status
<1>4. o \in Order
  BY <1>3, RowTyped
<1>5. orders' = [orders EXCEPT ![i] = o]
  <2>1. i \in DOMAIN orders
    BY <1>2 DEF OrderIds, TypeInv, TypeOK
  <2> QED
    BY <2>1 DEF PayInterest, TypeInv, TypeOK
<1>6. /\ o.user = orders[i].user /\ o.amount = orders[i].amount /\ o.start = orders[i].start
      /\ o.end = orders[i].end /\ o.status = orders[i].status
      /\ o.accrued = orders[i].accrued /\ o.paid = orders[i].paid
      /\ o.returned = orders[i].returned
      /\ o.payments = orders[i].payments + 1
      /\ o.credited = orders[i].credited + job[p].interest
      /\ o.recorded = orders[i].recorded
  BY <1>3 DEF Order
<1> HIDE DEF o, i
<1>7. /\ Len(orders') = Len(orders) /\ orders'[i] = o
      /\ \A k \in OrderIds \ {i} : orders'[k] = orders[k]
  BY <1>2, <1>4, <1>5, RowRewritten DEF TypeInv
<1>8. Steps(p, "bookInterest")
  BY StepsTo DEF PayInterest, Step
<1>9. Moves(job[p].user, Interest(job[p].amount, job[p].interest), 0, 0)
  BY <1>2, MovesRow DEF PayInterest, AddBalance
<1> QED
  BY <1>1, <1>6, <1>7, <1>8, <1>9 DEF Writes, i

LEMMA RenewedDoes ==
  ASSUME TypeInv, NEW p \in Process, CreateRenewedOrder(p)
  PROVE  /\ EndsOrder(p, job[p]) /\ job[p].op = "renew" /\ job[p].step = "renew"
         /\ Steps(p, "link") /\ orders' = Append(orders, NewOrder(job[p]))
<1> DEFINE j == [job[p] EXCEPT !.step = "link", !.made = Len(orders) + 1]
<1>1. EndsOrder(p, job[p]) /\ job[p].op = "renew" /\ job[p] \in Job /\ job[p].step = "renew"
  BY AtStep, JobFields DEF CreateRenewedOrder, TypeInv
<1>2. job' = [job EXCEPT ![p] = j]
  BY DEF CreateRenewedOrder
<1>3. j.step = "link" /\ Kept(job[p], j)
  BY <1>1 DEF Job, Kept
<1> HIDE DEF j
<1>4. job'[p] = j /\ Others(p)
  BY <1>2 DEF Others, TypeInv, TypeOK
<1> QED
  BY <1>1, <1>3, <1>4 DEF Steps, CreateRenewedOrder

LEMMA LinkDoes ==
  ASSUME TypeInv, NEW p \in Process, LinkRenewedOrder(p)
  PROVE  /\ EndsOrder(p, job[p]) /\ job[p].op = "renew" /\ job[p].step = "link"
         /\ Steps(p, "close")
         /\ LET i == job[p].order IN
            /\ Writes(i) /\ orders'[i].status = orders[i].status
            /\ orders'[i].accrued = orders[i].accrued /\ orders'[i].paid = orders[i].paid
            /\ SameCounts(i)
<1> DEFINE i == job[p].order
           o == [orders[i] EXCEPT !.to = job[p].made]
<1>1. EndsOrder(p, job[p]) /\ job[p].op = "renew" /\ job[p].step = "link"
  BY AtStep DEF LinkRenewedOrder
<1>2. i \in OrderIds /\ job[p].made \in Nat
  BY <1>1, EndsFacts
<1>3. orders[i] \in Order /\ Pending \in Status
  BY <1>2, OrderFields DEF TypeInv, Status
<1>4. o \in Order
  BY <1>2, <1>3, RowTyped
<1>5. orders' = [orders EXCEPT ![i] = o]
  BY DEF LinkRenewedOrder
<1>6. /\ o.user = orders[i].user /\ o.amount = orders[i].amount /\ o.start = orders[i].start
      /\ o.end = orders[i].end /\ o.status = orders[i].status
      /\ o.accrued = orders[i].accrued /\ o.paid = orders[i].paid
      /\ o.returned = orders[i].returned /\ o.payments = orders[i].payments
      /\ o.credited = orders[i].credited /\ o.recorded = orders[i].recorded
  BY <1>3 DEF Order
<1> HIDE DEF o, i
<1>7. /\ Len(orders') = Len(orders) /\ orders'[i] = o
      /\ \A k \in OrderIds \ {i} : orders'[k] = orders[k]
  BY <1>2, <1>4, <1>5, RowRewritten DEF TypeInv
<1>8. Steps(p, "close")
  BY StepsTo DEF LinkRenewedOrder, Step
<1> QED
  BY <1>1, <1>6, <1>7, <1>8 DEF Writes, SameCounts, i

LEMMA CloseDoes ==
  ASSUME TypeInv, NEW p \in Process, Close(p)
  PROVE  /\ EndsOrder(p, job[p]) /\ job[p].step = "close" /\ Ends(p)
         /\ LET i == job[p].order  j == job[p] IN
            /\ Writes(i) /\ SameCounts(i) /\ orders'[i].accrued = 0
            /\ orders'[i].status = IF j.op = "redeem" THEN j.close ELSE Settled
            /\ orders'[i].paid = IF j.op # "redeem" THEN orders[i].paid + j.interest
                                 ELSE IF j.interest > 0 THEN j.interest ELSE j.paid
<1> DEFINE i == job[p].order
           o == Closed(orders[i], job[p])
<1>1. EndsOrder(p, job[p]) /\ job[p].step = "close" /\ job[p] \in Job
  BY AtStep, JobFields DEF Close, TypeInv
<1>2. i \in OrderIds /\ job[p].op # "subscribe"
  BY <1>1, EndsFacts
<1>3. orders[i] \in Order
  BY <1>2, OrderFields DEF TypeInv
<1>4. orders' = [orders EXCEPT ![i] = o]
  BY DEF Close
<1>5. /\ o \in Order
      /\ o.start = orders[i].start /\ o.end = orders[i].end
      /\ o.user = orders[i].user /\ o.amount = orders[i].amount
      /\ o.returned = orders[i].returned /\ o.payments = orders[i].payments
      /\ o.credited = orders[i].credited /\ o.recorded = orders[i].recorded
      /\ o.accrued = 0
      /\ o.status = IF job[p].op = "redeem" THEN job[p].close ELSE Settled
      /\ o.paid = IF job[p].op # "redeem" THEN orders[i].paid + job[p].interest
                  ELSE IF job[p].interest > 0 THEN job[p].interest ELSE job[p].paid
  BY <1>1, <1>3, ClosedTyped
<1> HIDE DEF o, i
<1>6. /\ Len(orders') = Len(orders) /\ orders'[i] = o
      /\ \A k \in OrderIds \ {i} : orders'[k] = orders[k]
  BY <1>2, <1>4, <1>5, RowRewritten DEF TypeInv
<1>7. Ends(p)
  BY <1>2, ReturnLeaves DEF Close, Leaves
<1> QED
  BY <1>1, <1>5, <1>6, <1>7 DEF Writes, SameCounts, i

LEMMA FailDoes ==
  ASSUME TypeInv, NEW p \in Process, StatementFails(p)
  PROVE  Leaves(p) /\ faults' > 0
<1>1. faults' > 0
  BY DEF StatementFails, Fails, TypeInv, TypeOK
<1> QED
  BY <1>1, ReturnLeaves DEF StatementFails

LEMMA ListRow ==
  ASSUME NEW ids
  PROVE  /\ \A x \in List(ids) :
              /\ x.order \in ids /\ x.accrued = orders[x.order].accrued
              /\ x.days = day - orders[x.order].start
         /\ \A x, y \in List(ids) : x.order = y.order => x = y
<1> DEFINE row(i) == [order |-> i, renew |-> orders[i].renew, accrued |-> orders[i].accrued,
                      paid |-> orders[i].paid, days |-> day - orders[i].start]
<1>1. List(ids) = {row(i) : i \in ids}
  BY DEF List
<1>2. \A i : row(i).order = i /\ row(i).accrued = orders[i].accrued
             /\ row(i).days = day - orders[i].start
  OBVIOUS
<1> HIDE DEF row
<1> QED
  BY <1>1, <1>2

\* The lists of s became todo; those of the other schedulers did not change.
Enters(s, phase, todo) ==
  /\ run'[s].phase = phase /\ run'[s].todo = todo
  /\ \A t \in Scheduler \ {s} : run'[t] = run[t]

LEMMA ListDoes ==
  ASSUME TypeInv, NEW s \in Scheduler,
         StartRun(s) \/ ListActiveOrders(s) \/ ListExpiredOrders(s)
  PROVE  \E phase \in {"activate", "accrue", "settle"}, ids \in SUBSET OrderIds :
         \E todo \in SUBSET List(ids) :
           /\ Enters(s, phase, todo)
           /\ run[s].phase \in {"activate", "accrue"} => maintenance' = maintenance
           /\ run[s].phase = "idle" => StartRun(s)
           /\ phase = "activate" => \A i \in ids : orders[i].status = Pending
           /\ phase = "accrue" => \A i \in ids : Accrues(orders[i])
           /\ phase = "settle" => \A i \in ids : Matured(orders[i])
<1>1. ASSUME NEW phase \in {"activate", "accrue", "settle"}, NEW ids \in SUBSET OrderIds,
             Enter(s, phase, ids)
      PROVE  \E todo \in SUBSET List(ids) : Enters(s, phase, todo)
  <2>1. PICK todo \in {List(ids), {}} :
          run' = [run EXCEPT ![s] = [phase |-> phase, day |-> day, todo |-> todo]]
    BY <1>1 DEF Enter
  <2>2. Enters(s, phase, todo)
    BY <2>1 DEF Enters, TypeInv, TypeOK
  <2> QED
    BY <2>2
<1>2. CASE StartRun(s)
  <2> DEFINE ids == {i \in OrderIds : orders[i].status = Pending /\ orders[i].start <= day}
  <2>1. Enter(s, "activate", ids) /\ run[s].phase = "idle"
    BY <1>2 DEF StartRun, Between
  <2>2. \E todo \in SUBSET List(ids) : Enters(s, "activate", todo)
    BY <1>1, <2>1
  <2> QED
    BY <1>2, <2>1, <2>2
<1>3. CASE ListActiveOrders(s)
  <2> DEFINE ids == {i \in OrderIds : Accrues(orders[i])}
  <2>1. Enter(s, "accrue", ids) /\ run[s].phase = "activate" /\ maintenance' = maintenance
    BY <1>3 DEF ListActiveOrders, Between
  <2>2. \E todo \in SUBSET List(ids) : Enters(s, "accrue", todo)
    BY <1>1, <2>1
  <2> QED
    BY <2>1, <2>2
<1>4. CASE ListExpiredOrders(s)
  <2> DEFINE ids == {i \in OrderIds : Matured(orders[i])}
  <2>1. Enter(s, "settle", ids) /\ run[s].phase = "accrue" /\ maintenance' = maintenance
    BY <1>4 DEF ListExpiredOrders, Between
  <2>2. \E todo \in SUBSET List(ids) : Enters(s, "settle", todo)
    BY <1>1, <2>1
  <2> QED
    BY <2>1, <2>2
<1> QED
  BY <1>2, <1>3, <1>4

\* The next order of the list is taken off it.
LEMMA DoneDoes ==
  ASSUME TypeInv, NEW s \in Scheduler, run' = Done(s)
  PROVE  Enters(s, run[s].phase, run[s].todo \ {NextListed(s)})
<1>1. run[s] \in Run /\ run \in [Scheduler -> Run]
  BY RunFields DEF TypeInv, TypeOK
<1> QED
  BY <1>1 DEF Done, Enters, Run

LEMMA ActivateDoes ==
  ASSUME TypeInv, NEW s \in Scheduler, ActivateOrder(s)
  PROVE  /\ job[s] = NoJob /\ run[s].phase = "activate"
         /\ NextListed(s) \in run[s].todo /\ NextListed(s).order \in OrderIds
         /\ Enters(s, run[s].phase, run[s].todo \ {NextListed(s)})
         /\ LET i == NextListed(s).order IN
            \/ orders' = orders
            \/ /\ Writes(i) /\ SameCounts(i) /\ orders'[i].status = Running
               /\ orders'[i].accrued = orders[i].accrued /\ orders'[i].paid = orders[i].paid
<1> DEFINE i == NextListed(s).order
           o == [orders[i] EXCEPT !.status = Running]
<1>1. NextListed(s) \in run[s].todo /\ i \in OrderIds
  BY NextListedFacts DEF ActivateOrder
<1>2. orders[i] \in Order /\ Running \in Status /\ 0 \in Nat
  BY <1>1, OrderFields DEF TypeInv, Status
<1>3. o \in Order
  BY <1>2, RowTyped
<1>4. orders' = [orders EXCEPT ![i] = o] \/ orders' = orders
  BY DEF ActivateOrder
<1>5. /\ o.user = orders[i].user /\ o.amount = orders[i].amount /\ o.start = orders[i].start
      /\ o.end = orders[i].end /\ o.status = Running
      /\ o.accrued = orders[i].accrued /\ o.paid = orders[i].paid
      /\ o.returned = orders[i].returned /\ o.payments = orders[i].payments
      /\ o.credited = orders[i].credited /\ o.recorded = orders[i].recorded
  BY <1>2 DEF Order
<1> HIDE DEF o, i
<1>6. orders' # orders =>
        /\ Len(orders') = Len(orders) /\ orders'[i] = o
        /\ \A k \in OrderIds \ {i} : orders'[k] = orders[k]
  BY <1>1, <1>3, <1>4, RowRewritten DEF TypeInv
<1>7. Enters(s, run[s].phase, run[s].todo \ {NextListed(s)})
  BY DoneDoes DEF ActivateOrder
<1>8. job[s] = NoJob /\ run[s].phase = "activate"
  BY DEF ActivateOrder, Between
<1> QED
  BY <1>1, <1>5, <1>6, <1>7, <1>8 DEF Writes, SameCounts, i

LEMMA AccrueDoes ==
  ASSUME TypeInv, NEW s \in Scheduler, UpdateInterestAccrued(s)
  PROVE  /\ s \in Process /\ job[s] = NoJob /\ run[s].phase = "accrue"
         /\ NextListed(s) \in run[s].todo /\ NextListed(s).order \in OrderIds
         /\ Enters(s, run[s].phase, run[s].todo \ {NextListed(s)})
         /\ LET x == NextListed(s)  i == x.order IN
            \/ orders' = orders /\ job' = job
            \/ /\ Writes(i) /\ SameCounts(i) /\ orders'[i].status = orders[i].status
               /\ orders'[i].accrued = x.days /\ orders'[i].paid = orders[i].paid
               /\ IF x.days > x.accrued
                  THEN /\ Others(s) /\ job'[s].op = "accrue" /\ job'[s].step = "record"
                       /\ job'[s].order = i /\ job'[s].interest = x.days - x.accrued
                       /\ job'[s].user = NoUser
                  ELSE job' = job
<1> DEFINE x == NextListed(s)
           i == x.order
           o == [orders[i] EXCEPT !.accrued = x.days]
           j == [NoJob EXCEPT !.op = "accrue", !.step = "record",
                              !.order = i, !.interest = x.days - x.accrued]
<1>1. x \in run[s].todo /\ i \in OrderIds /\ x.days \in Nat
  BY NextListedFacts DEF UpdateInterestAccrued
<1>2. orders[i] \in Order /\ Pending \in Status
  BY <1>1, OrderFields DEF TypeInv, Status
<1>3. o \in Order
  BY <1>1, <1>2, RowTyped
<1>4. \/ /\ orders' = [orders EXCEPT ![i] = o]
         /\ job' = IF x.days > x.accrued THEN [job EXCEPT ![s] = j] ELSE job
      \/ orders' = orders /\ job' = job
  <2> HIDE DEF o, j
  <2> QED
    BY Zenon DEF UpdateInterestAccrued, o, j
<1>5. /\ o.user = orders[i].user /\ o.amount = orders[i].amount /\ o.start = orders[i].start
      /\ o.end = orders[i].end /\ o.status = orders[i].status
      /\ o.accrued = x.days /\ o.paid = orders[i].paid
      /\ o.returned = orders[i].returned /\ o.payments = orders[i].payments
      /\ o.credited = orders[i].credited /\ o.recorded = orders[i].recorded
  BY <1>2 DEF Order
<1>6. /\ j.op = "accrue" /\ j.step = "record" /\ j.order = i
      /\ j.interest = x.days - x.accrued /\ j.user = NoUser
  BY DEF NoJob
<1>7. Enters(s, run[s].phase, run[s].todo \ {x})
  BY DoneDoes DEF UpdateInterestAccrued
<1>8. job[s] = NoJob /\ run[s].phase = "accrue" /\ s \in Process /\ job \in [Process -> Job]
  BY DEF UpdateInterestAccrued, Between, Process, TypeInv, TypeOK
<1> HIDE DEF o, i, j, x
<1>9. job' = [job EXCEPT ![s] = j] => job'[s] = j /\ Others(s)
  BY <1>8 DEF Others
<1>10. orders' = [orders EXCEPT ![i] = o] =>
        /\ Len(orders') = Len(orders) /\ orders'[i] = o
        /\ \A k \in OrderIds \ {i} : orders'[k] = orders[k]
  BY <1>1, <1>3, RowRewritten DEF TypeInv
<1>11. \/ orders' = orders /\ job' = job
       \/ /\ Writes(i) /\ SameCounts(i) /\ orders'[i].status = orders[i].status
          /\ orders'[i].accrued = x.days /\ orders'[i].paid = orders[i].paid
          /\ IF x.days > x.accrued
             THEN /\ Others(s) /\ job'[s].op = "accrue" /\ job'[s].step = "record"
                  /\ job'[s].order = i /\ job'[s].interest = x.days - x.accrued
                  /\ job'[s].user = NoUser
             ELSE job' = job
  <2>1. CASE orders' = orders /\ job' = job
    BY <2>1
  <2>2. CASE /\ orders' = [orders EXCEPT ![i] = o]
             /\ job' = IF x.days > x.accrued THEN [job EXCEPT ![s] = j] ELSE job
    <3>1. Writes(i) /\ SameCounts(i) /\ orders'[i].status = orders[i].status
          /\ orders'[i].accrued = x.days /\ orders'[i].paid = orders[i].paid
      BY <1>5, <1>10, <2>2 DEF Writes, SameCounts
    <3>2. CASE x.days > x.accrued
      BY <1>6, <1>9, <2>2, <3>1, <3>2
    <3>3. CASE ~(x.days > x.accrued)
      BY <2>2, <3>1, <3>3
    <3> QED
      BY <3>2, <3>3
  <2> QED
    BY <1>4, <2>1, <2>2
<1> QED
  BY <1>1, <1>7, <1>8, <1>11 DEF i, x

LEMMA RecordDoes ==
  ASSUME TypeInv, NEW s \in Scheduler, RecordDailyInterest(s)
  PROVE  /\ s \in Process /\ Records(s, job[s]) /\ Ends(s)
         /\ LET i == job[s].order IN
            /\ Writes(i) /\ orders'[i].status = orders[i].status
            /\ orders'[i].accrued = orders[i].accrued /\ orders'[i].paid = orders[i].paid
            /\ orders'[i].returned = orders[i].returned
            /\ orders'[i].payments = orders[i].payments
            /\ orders'[i].credited = orders[i].credited
            /\ orders'[i].recorded = orders[i].recorded + job[s].interest
<1> DEFINE i == job[s].order
           o == [orders[i] EXCEPT !.recorded = @ + job[s].interest]
<1>1. s \in Process /\ Records(s, job[s])
  BY AtStep DEF RecordDailyInterest, Process
<1>2. i \in OrderIds /\ job[s].interest \in Nat
  BY <1>1, JobFields DEF Records, TypeInv
<1>3. orders[i] \in Order /\ orders[i].recorded + job[s].interest \in Nat /\ Pending \in Status
  BY <1>2, OrderFields DEF TypeInv, Status
<1>4. o \in Order
  BY <1>3, RowTyped
<1>5. orders' = [orders EXCEPT ![i] = o]
  BY DEF RecordDailyInterest, DailyAmount
<1>6. /\ o.user = orders[i].user /\ o.amount = orders[i].amount /\ o.start = orders[i].start
      /\ o.end = orders[i].end /\ o.status = orders[i].status
      /\ o.accrued = orders[i].accrued /\ o.paid = orders[i].paid
      /\ o.returned = orders[i].returned /\ o.payments = orders[i].payments
      /\ o.credited = orders[i].credited
      /\ o.recorded = orders[i].recorded + job[s].interest
  BY <1>3 DEF Order
<1> HIDE DEF o, i
<1>7. /\ Len(orders') = Len(orders) /\ orders'[i] = o
      /\ \A k \in OrderIds \ {i} : orders'[k] = orders[k]
  BY <1>2, <1>4, <1>5, RowRewritten DEF TypeInv
<1>8. Ends(s)
  BY <1>1, ReturnLeaves DEF RecordDailyInterest, Leaves, Records
<1> QED
  BY <1>1, <1>6, <1>7, <1>8 DEF Writes, i

LEMMA RepayDoes ==
  ASSUME TypeInv, NEW s \in Scheduler, SettleOrder(s) \/ RenewOrder(s)
  PROVE  /\ s \in Process /\ job[s] = NoJob /\ run[s].phase = "settle"
         /\ NextListed(s) \in run[s].todo /\ NextListed(s).order \in OrderIds
         /\ Enters(s, run[s].phase, run[s].todo \ {NextListed(s)})
         /\ LET x == NextListed(s)  i == x.order IN
            \/ job' = job
            \/ /\ Others(s) /\ job'[s].order = i /\ job'[s].user = orders[i].user
               /\ job'[s].amount = orders[i].amount /\ job'[s].close = Settled
               /\ job'[s].paid = 0
               /\ \/ /\ job'[s].op = "settle" /\ job'[s].step = "unfreeze"
                     /\ orders[i].status = Running /\ job'[s].interest = orders[i].accrued
                  \/ /\ job'[s].op = "renew" /\ job'[s].interest = x.accrued
                     /\ job'[s].step = IF x.accrued > 0 THEN "pay" ELSE "renew"
<1> DEFINE x == NextListed(s)
           i == x.order
           step == IF x.accrued > 0 THEN "pay" ELSE "renew"
<1>1. x \in run[s].todo /\ i \in OrderIds /\ x.accrued \in Nat
  BY NextListedFacts DEF SettleOrder, RenewOrder
<1>2. s \in Process /\ job[s] = NoJob /\ run[s].phase = "settle"
  BY DEF SettleOrder, RenewOrder, Between, Process
<1>3. Enters(s, run[s].phase, run[s].todo \ {x})
  BY DoneDoes DEF SettleOrder, RenewOrder
<1>4. \/ job' = job
      \/ /\ orders[i].status = Running
         /\ job' = [job EXCEPT ![s] = Repayment("settle", "unfreeze", i, orders[i].accrued)]
      \/ job' = [job EXCEPT ![s] = Repayment("renew", step, i, x.accrued)]
  <2>1. CASE SettleOrder(s)
    BY <2>1, Zenon DEF SettleOrder
  <2>2. CASE RenewOrder(s)
    BY <2>2, Zenon DEF RenewOrder
  <2> QED
    BY <2>1, <2>2
<1>5. orders[i].accrued \in Nat /\ step \in {"pay", "renew"}
  BY <1>1, OrderFields DEF TypeInv
<1> HIDE DEF i, x
<1>6. ASSUME orders[i].status = Running,
             job' = [job EXCEPT ![s] = Repayment("settle", "unfreeze", i, orders[i].accrued)]
      PROVE  /\ Others(s) /\ job'[s].order = i /\ job'[s].user = orders[i].user
             /\ job'[s].amount = orders[i].amount /\ job'[s].close = Settled
             /\ job'[s].paid = 0 /\ job'[s].op = "settle" /\ job'[s].step = "unfreeze"
             /\ job'[s].interest = orders[i].accrued
  <2> DEFINE j == Repayment("settle", "unfreeze", i, orders[i].accrued)
  <2>1. /\ j \in Job /\ j.op = "settle" /\ j.step = "unfreeze" /\ j.order = i
        /\ j.user = orders[i].user /\ j.amount = orders[i].amount /\ j.close = Settled
        /\ j.interest = orders[i].accrued /\ j.paid = 0
    BY <1>1, <1>5, RepaymentTyped
  <2> HIDE DEF j
  <2>2. job' = [job EXCEPT ![s] = j]
    BY <1>6 DEF j
  <2>3. job'[s] = j /\ Others(s)
    BY <1>2, <2>1, <2>2, Put DEF TypeInv
  <2> QED
    BY <2>1, <2>3
<1>7. ASSUME job' = [job EXCEPT ![s] = Repayment("renew", step, i, x.accrued)]
      PROVE  /\ Others(s) /\ job'[s].order = i /\ job'[s].user = orders[i].user
             /\ job'[s].amount = orders[i].amount /\ job'[s].close = Settled
             /\ job'[s].paid = 0 /\ job'[s].op = "renew" /\ job'[s].step = step
             /\ job'[s].interest = x.accrued
  <2> DEFINE j == Repayment("renew", step, i, x.accrued)
  <2> HIDE DEF step
  <2>1. /\ j \in Job /\ j.op = "renew" /\ j.step = step /\ j.order = i
        /\ j.user = orders[i].user /\ j.amount = orders[i].amount /\ j.close = Settled
        /\ j.interest = x.accrued /\ j.paid = 0
    BY <1>1, <1>5, RepaymentTyped
  <2> HIDE DEF j
  <2>2. job' = [job EXCEPT ![s] = j]
    BY <1>7 DEF j
  <2>3. job'[s] = j /\ Others(s)
    BY <1>2, <2>1, <2>2, Put DEF TypeInv
  <2> QED
    BY <2>1, <2>3
<1>8. \/ job' = job
      \/ /\ Others(s) /\ job'[s].order = i /\ job'[s].user = orders[i].user
         /\ job'[s].amount = orders[i].amount /\ job'[s].close = Settled
         /\ job'[s].paid = 0
         /\ \/ /\ job'[s].op = "settle" /\ job'[s].step = "unfreeze"
               /\ orders[i].status = Running /\ job'[s].interest = orders[i].accrued
            \/ /\ job'[s].op = "renew" /\ job'[s].interest = x.accrued
               /\ job'[s].step = step
  <2> HIDE DEF step
  <2> QED
    BY <1>4, <1>6, <1>7
<1> QED
  BY <1>1, <1>2, <1>3, <1>8 DEF i, x

LEMMA EndRunDoes ==
  ASSUME TypeInv, NEW s \in Scheduler, EndRun(s)
  PROVE  /\ job[s] = NoJob /\ Enters(s, "idle", {})
<1>1. run[s] \in Run /\ run \in [Scheduler -> Run] /\ run[s].todo = {}
  BY RunFields DEF EndRun, TypeInv, TypeOK
<1> QED
  BY <1>1 DEF EndRun, Between, Enters, Run

LEMMA RestartDoes ==
  ASSUME TypeInv, Restart
  PROVE  /\ \A p \in Process : job'[p] = NoJob
         /\ \A s \in Scheduler : run'[s].phase = "idle" /\ run'[s].todo = {}
         /\ crashes' > 0
BY DEF Restart, TypeInv, TypeOK

-----------------------------------------------------------------------------
\* Interest within the term

\* No order, no job and no list carries the interest of a whole term; the lists
\* matter because the scheduler writes, and pays, what it listed.
ShortRows == \A i \in OrderIds : orders[i].accrued < Duration
ShortJobs == \A p \in Process : job[p].interest < Duration
ShortLists ==
  \A s \in Scheduler : \A x \in run[s].todo :
    x.accrued < Duration /\ (run[s].phase = "accrue" => x.days < Duration)
Short == ShortRows /\ ShortJobs /\ ShortLists

LEMMA JobsShort ==
  ASSUME TypeInv, ShortJobs, NEW p \in Process,
         (\E step \in Step : Steps(p, step)) \/ Leaves(p) \/ Ends(p)
  PROVE  ShortJobs'
<1>1. Others(p) /\ (job'[p].interest = job[p].interest \/ job'[p] = NoJob)
  BY DEF Steps, Leaves, Ends, Kept
<1>2. NoJob.interest = 0 /\ 0 < Duration
  BY WealthAssumption DEF NoJob
<1> QED
  BY <1>1, <1>2 DEF ShortJobs, Others

LEMMA RowsShort ==
  ASSUME TypeInv, ShortRows,
         \/ orders' = orders
         \/ \E i \in OrderIds : /\ Writes(i)
                                /\ orders'[i].accrued \in {orders[i].accrued, 0}
         \/ \E p \in Process : /\ job[p].user \in User /\ orders' = Append(orders, NewOrder(job[p]))
  PROVE  ShortRows'
<1>1. Len(orders) \in Nat /\ 0 < Duration
  BY WealthAssumption DEF TypeInv, TypeOK
<1>2. CASE orders' = orders
  BY <1>2 DEF ShortRows, OrderIds
<1>3. ASSUME NEW i \in OrderIds, Writes(i), orders'[i].accrued \in {orders[i].accrued, 0}
      PROVE  ShortRows'
  BY <1>1, <1>3 DEF Writes, ShortRows, OrderIds
<1>4. ASSUME NEW p \in Process, job[p].user \in User, orders' = Append(orders, NewOrder(job[p]))
      PROVE  ShortRows'
  <2>1. NewOrder(job[p]) \in Order /\ NewOrder(job[p]).accrued = 0
    BY <1>4, JobFields, NewOrderTyped DEF TypeInv
  <2>2. /\ Len(orders') = Len(orders) + 1 /\ orders'[Len(orders) + 1] = NewOrder(job[p])
        /\ \A k \in OrderIds : orders'[k] = orders[k]
    BY <1>4, <2>1, RowAppended DEF TypeInv
  <2> QED
    BY <1>1, <2>1, <2>2 DEF ShortRows, OrderIds
<1> QED
  BY <1>2, <1>3, <1>4

\* The steps of a request or of a repayment.
LEMMA ShortWork ==
  ASSUME TypeInv, Short, NEW p \in Process, Advance(p) \/ Disturb(p)
  PROVE  Short'
<1>1. ASSUME (\E step \in Step : Steps(p, step)) \/ Leaves(p) \/ Ends(p), run' = run,
             \/ orders' = orders
             \/ \E i \in OrderIds : /\ Writes(i)
                                    /\ orders'[i].accrued \in {orders[i].accrued, 0}
             \/ job[p].user \in User /\ orders' = Append(orders, NewOrder(job[p]))
      PROVE  Short'
  BY <1>1, JobsShort, RowsShort DEF Short, ShortLists
<1>16. CASE Acquires(p)
  <2>1. \E step \in Step : Steps(p, step)
    BY <1>16, AcquireDoes DEF Step
  <2> QED
    BY <1>1, <1>16, <2>1, AcquireDoes
<1>2. CASE ClearLock(p)
  BY <1>1, <1>2, ClearDoes DEF ClearLock
<1>3. CASE ReadProduct(p) \/ ReadAccount(p)
  <2>1. \E step \in Step : Steps(p, step)
    BY <1>3, ReadDoes DEF Step
  <2> QED
    BY <1>1, <1>3, <2>1 DEF ReadProduct, ReadAccount
<1>4. CASE Freeze(p)
  <2>1. \E step \in Step : Steps(p, step)
    BY <1>4, FreezeDoes DEF Step
  <2> QED
    BY <1>1, <1>4, <2>1 DEF Freeze
<1>5. CASE CreateOrder(p)
  <2>1. \E step \in Step : Steps(p, step)
    BY <1>5, CreateDoes DEF Step
  <2> QED
    BY <1>1, <1>5, <2>1, CreateDoes DEF CreateOrder, Subscribes
<1>6. CASE UpdateProductSoldQuota(p)
  <2>1. \E step \in Step : Steps(p, step)
    BY <1>6, QuotaDoes DEF Step
  <2> QED
    BY <1>1, <1>6, <2>1 DEF UpdateProductSoldQuota
<1>7. CASE BookSubscription(p)
  <2>1. \E step \in Step : Steps(p, step)
    BY <1>7, BookSubscriptionDoes DEF Step
  <2> QED
    BY <1>1, <1>7, <2>1 DEF BookSubscription
<1>8. CASE Unfreeze(p)
  <2>1. \E step \in Step : Steps(p, step)
    BY <1>8, UnfreezeDoes DEF Step
  <2> QED
    BY <1>1, <1>8, <2>1, UnfreezeDoes DEF Unfreeze, EndsOrder
<1>9. CASE BookPrincipal(p) \/ BookInterest(p) \/ JournalLost(p)
  <2>1. \E step \in Step : Steps(p, step)
    BY <1>9, BookDoes DEF Step, AfterPrincipal, AfterInterest
  <2> QED
    BY <1>1, <1>9, <2>1 DEF BookPrincipal, BookInterest, JournalLost
<1>10. CASE PayInterest(p)
  <2>1. \E step \in Step : Steps(p, step)
    BY <1>10, PayDoes DEF Step
  <2> QED
    BY <1>1, <1>10, <2>1, PayDoes DEF PayInterest, EndsOrder
<1>11. CASE CreateRenewedOrder(p)
  <2>1. \E step \in Step : Steps(p, step)
    BY <1>11, RenewedDoes DEF Step
  <2> QED
    BY <1>1, <1>11, <2>1, RenewedDoes DEF CreateRenewedOrder, EndsOrder
<1>12. CASE LinkRenewedOrder(p)
  <2>1. \E step \in Step : Steps(p, step)
    BY <1>12, LinkDoes DEF Step
  <2> QED
    BY <1>1, <1>12, <2>1, LinkDoes DEF LinkRenewedOrder, EndsOrder
<1>13. CASE Close(p)
  BY <1>1, <1>13, CloseDoes DEF Close, EndsOrder
<1>14. CASE CreateOrderFails(p)
  <2>1. \E step \in Step : Steps(p, step)
    BY <1>14, CreateFailsDoes DEF Step
  <2> QED
    BY <1>1, <1>14, <2>1 DEF CreateOrderFails
<1>15. CASE StatementFails(p)
  BY <1>1, <1>15, FailDoes DEF StatementFails
<1> QED
  BY <1>2, <1>3, <1>4, <1>5, <1>6, <1>7, <1>8, <1>9, <1>10, <1>11, <1>12, <1>13, <1>14, <1>15,
     <1>16 DEF Advance, Disturb, Acquires

\* One order less on the list of s, or none.
LEMMA ListsShort ==
  ASSUME TypeInv, ShortLists, NEW s \in Scheduler, NEW phase, NEW todo,
         Enters(s, phase, todo),
         \A x \in todo : x.accrued < Duration /\ (phase = "accrue" => x.days < Duration)
  PROVE  ShortLists'
BY DEF ShortLists, Enters

LEMMA ShortServe ==
  ASSUME TypeInv, Short, NEW p \in Call, Serve(p)
  PROVE  Short'
<1>1. CASE \E u \in User, a \in Amount, r \in AutoRenew, t \in Text : Subscribe(p, u, a, r, t)
  <2>1. PICK u \in User, a \in Amount, r \in AutoRenew, t \in Text : Subscribe(p, u, a, r, t)
    BY <1>1
  <2>2. Others(p) /\ job'[p].interest = 0
    BY <2>1, SubscribeDoes
  <2>3. UNCHANGED <<orders, run>>
    BY <2>1 DEF Subscribe
  <2>4. 0 < Duration
    BY WealthAssumption
  <2> QED
    BY <2>2, <2>3, <2>4 DEF Short, ShortRows, ShortJobs, ShortLists, Others, OrderIds
<1>2. CASE \E id \in OrderIds : Redeem(p, id)
  <2>1. PICK id \in OrderIds : Redeem(p, id)
    BY <1>2
  <2>2. /\ Others(p)
        /\ job'[p].interest = 0 \/ job'[p].interest = orders[id].accrued
    BY <2>1, RedeemDoes
  <2>3. UNCHANGED <<orders, run>>
    BY <2>1 DEF Redeem
  <2>4. 0 < Duration
    BY WealthAssumption
  <2> QED
    BY <2>2, <2>3, <2>4 DEF Short, ShortRows, ShortJobs, ShortLists, Others, OrderIds
<1> QED
  BY <1>1, <1>2 DEF Serve

LEMMA ShortDaily ==
  ASSUME TypeInv, Short, NEW s \in Scheduler, Daily(s)
  PROVE  Short'
<1> DEFINE x == NextListed(s)
<1>1. CASE StartRun(s) \/ ListActiveOrders(s) \/ ListExpiredOrders(s)
  <2>1. PICK phase \in {"activate", "accrue", "settle"}, ids \in SUBSET OrderIds :
          \E todo \in SUBSET List(ids) :
            /\ Enters(s, phase, todo)
            /\ phase = "accrue" => \A i \in ids : Accrues(orders[i])
    BY <1>1, ListDoes
  <2>2. PICK todo \in SUBSET List(ids) : Enters(s, phase, todo)
    BY <2>1
  <2>3. ASSUME NEW y \in todo
        PROVE  y.accrued < Duration /\ (phase = "accrue" => y.days < Duration)
    <3>1. y.order \in ids /\ y.accrued = orders[y.order].accrued
          /\ y.days = day - orders[y.order].start
      BY ListRow
    <3> QED
      BY <2>1, <3>1 DEF Short, ShortRows, Accrues
  <2>4. ShortLists'
    BY <2>2, <2>3, ListsShort DEF Short
  <2>5. UNCHANGED <<orders, job>>
    BY <1>1 DEF StartRun, ListActiveOrders, ListExpiredOrders
  <2> QED
    BY <2>4, <2>5 DEF Short, ShortRows, ShortJobs, OrderIds
<1>2. CASE ActivateOrder(s)
  <2>1. /\ Enters(s, run[s].phase, run[s].todo \ {x}) /\ x.order \in OrderIds
        /\ \/ orders' = orders
           \/ Writes(x.order) /\ orders'[x.order].accrued = orders[x.order].accrued
    BY <1>2, ActivateDoes
  <2>2. ShortLists'
    BY <2>1, ListsShort DEF Short, ShortLists
  <2>3. ShortRows'
    BY <2>1, RowsShort DEF Short
  <2> QED
    BY <1>2, <2>2, <2>3 DEF Short, ShortJobs, ActivateOrder
<1>3. CASE UpdateInterestAccrued(s)
  <2>1. /\ s \in Process /\ run[s].phase = "accrue" /\ x \in run[s].todo /\ x.order \in OrderIds
        /\ Enters(s, run[s].phase, run[s].todo \ {x})
        /\ \/ orders' = orders /\ job' = job
           \/ /\ Writes(x.order) /\ orders'[x.order].accrued = x.days
              /\ \/ job' = job
                 \/ Others(s) /\ job'[s].interest = x.days - x.accrued
    BY <1>3, AccrueDoes
  <2>2. x.days < Duration /\ x.accrued \in Nat /\ x.days \in Nat /\ Duration \in Nat
    BY <2>1, RunFields, WealthAssumption DEF Short, ShortLists, TypeInv
  <2> HIDE DEF x
  <2>3. ShortLists'
    BY <2>1, ListsShort DEF Short, ShortLists
  <2>4. ShortRows'
    BY <2>1, <2>2 DEF Short, ShortRows, Writes, OrderIds
  <2>5. ShortJobs'
    BY <2>1, <2>2 DEF Short, ShortJobs, Others
  <2> QED
    BY <2>3, <2>4, <2>5 DEF Short
<1>4. CASE RecordDailyInterest(s)
  <2>1. /\ s \in Process /\ Ends(s) /\ job[s].order \in OrderIds /\ Writes(job[s].order)
        /\ orders'[job[s].order].accrued = orders[job[s].order].accrued
    BY <1>4, RecordDoes DEF Records
  <2>2. ShortRows' /\ ShortJobs'
    BY <2>1, RowsShort, JobsShort DEF Short
  <2> QED
    BY <1>4, <2>2 DEF Short, ShortLists, RecordDailyInterest
<1>5. CASE SettleOrder(s) \/ RenewOrder(s)
  <2>1. /\ s \in Process /\ x \in run[s].todo /\ x.order \in OrderIds
        /\ Enters(s, run[s].phase, run[s].todo \ {x})
        /\ \/ job' = job
           \/ /\ Others(s)
              /\ job'[s].interest \in {orders[x.order].accrued, x.accrued}
    BY <1>5, RepayDoes
  <2>2. x.accrued < Duration /\ orders[x.order].accrued < Duration
    BY <2>1 DEF Short, ShortLists, ShortRows
  <2> HIDE DEF x
  <2>3. ShortLists'
    BY <2>1, ListsShort DEF Short, ShortLists
  <2>4. ShortJobs'
    BY <2>1, <2>2 DEF Short, ShortJobs, Others
  <2> QED
    BY <1>5, <2>3, <2>4 DEF Short, ShortRows, SettleOrder, RenewOrder, OrderIds
<1>6. CASE EndRun(s)
  <2>1. ShortLists'
    BY <1>6, EndRunDoes, ListsShort DEF Short
  <2> QED
    BY <1>6, <2>1 DEF Short, ShortRows, ShortJobs, EndRun, OrderIds
<1> QED
  BY <1>1, <1>2, <1>3, <1>4, <1>5, <1>6 DEF Daily

LEMMA ShortNext ==
  ASSUME TypeInv, Short, [Next]_vars
  PROVE  Short'
<1>1. CASE UNCHANGED vars
  BY <1>1 DEF vars, Short, ShortRows, ShortJobs, ShortLists, OrderIds
<1>2. CASE Midnight \/ EndMaintenance \/ ChangeProduct \/ LastDay
  <2>1. UNCHANGED <<orders, job, run>>
    BY <1>2 DEF Midnight, EndMaintenance, ChangeProduct, LastDay, vars
  <2> QED
    BY <2>1 DEF Short, ShortRows, ShortJobs, ShortLists, OrderIds
<1>3. CASE Restart
  <2>1. /\ \A p \in Process : job'[p] = NoJob
        /\ \A s \in Scheduler : run'[s].todo = {}
    BY <1>3, RestartDoes
  <2>2. NoJob.interest = 0 /\ 0 < Duration
    BY WealthAssumption DEF NoJob
  <2> QED
    BY <1>3, <2>1, <2>2 DEF Restart, Short, ShortRows, ShortJobs, ShortLists, OrderIds
<1> QED
  BY <1>1, <1>2, <1>3, ShortServe, ShortWork, ShortDaily DEF Next

\* No order accrues, and no operation is about to pay, a whole term's interest or
\* more: with any number of schedulers and requests, whatever overlaps, fails or
\* is late.  The days are counted when the orders are listed and written later.
THEOREM InterestStaysWithinTerm == Spec => []InterestWithinTerm
<1>1. Init => Short
  <2>1. NoJob.interest = 0 /\ 0 < Duration
    BY WealthAssumption DEF NoJob
  <2> QED
    BY <2>1 DEF Init, Short, ShortRows, ShortJobs, ShortLists, OrderIds
<1>2. Short => InterestWithinTerm
  BY DEF Short, ShortRows, ShortJobs, InterestWithinTerm
<1> QED
  BY <1>1, <1>2, Typed, ShortNext, PTL DEF Spec

-----------------------------------------------------------------------------
\* Subscriptions against the balance and the quota

\* The requests that have compared with the balance of u and not frozen yet, and
\* those that have compared with the quota and not yet increased what is sold.
Checked(u) == {p \in Call : job[p].step = "freeze" /\ job[p].user = u}
Allots(j) == j.step \in {"account", "freeze", "create", "quota"}
Allotting == {p \in Call : Allots(job[p])}
Asked == [p \in Call |-> job[p].amount]

\* A step of p lowers no available balance and sells nothing, the two steps of a
\* subscription that do so apart, and what it checks is there.
Continues(p) ==
  /\ Others(p)
  /\ job'[p].step = "freeze" =>
       /\ Subscribes(p, job[p]) /\ Kept(job[p], job'[p]) /\ account' = account
       /\ Covers(account[job[p].user], job[p].amount)
  /\ Allots(job'[p]) =>
       /\ Subscribes(p, job[p]) /\ Kept(job[p], job'[p]) /\ product'.sold = product.sold
       /\ Allots(job[p]) \/ QuotaAllows(product.sold, job[p].amount)
  /\ Freeze(p) \/ \A u \in User : Available(u)' >= Available(u)
  /\ UpdateProductSoldQuota(p) \/ product'.sold = product.sold

LEMMA MovesUp ==
  ASSUME TypeInv, NEW u \in User, NEW b \in Nat, NEW f \in Nat, NEW n, Moves(u, b, -f, n)
  PROVE  \A v \in User : Available(v)' >= Available(v)
<1>1. \A v \in User : account[v].balance \in Int /\ account[v].frozen \in Int
  BY DEF TypeInv, TypeOK, Account
<1> QED
  BY <1>1 DEF Moves, Available

LEMMA AccountSame ==
  ASSUME TypeInv, account' = account
  PROVE  \A v \in User : Available(v)' >= Available(v)
<1>1. \A v \in User : account[v].balance \in Int /\ account[v].frozen \in Int
  BY DEF TypeInv, TypeOK, Account
<1> QED
  BY <1>1 DEF Available

LEMMA WorkContinues ==
  ASSUME TypeInv, NEW p \in Process, Advance(p) \/ Disturb(p)
  PROVE  Continues(p)
<1> USE DEF Allots
<1>14. CASE Acquires(p)
  <2>1. /\ Subscribes(p, job[p]) /\ account' = account /\ product' = product
        /\ \E step \in {"lock", "mark", "product", "clear"} : Steps(p, step)
    BY <1>14, AcquireDoes
  <2> QED
    BY <2>1, AccountSame DEF Steps, Continues
<1>1. CASE ClearLock(p)
  <2>1. Ends(p) /\ account' = account /\ product' = product
    BY <1>1, ClearDoes DEF ClearLock
  <2> QED
    BY <2>1, AccountSame DEF Ends, NoJob, Continues
<1>2. CASE ReadProduct(p) \/ ReadAccount(p)
  <2>1. account' = account /\ product' = product
    BY <1>2 DEF ReadProduct, ReadAccount
  <2>2. /\ Subscribes(p, job[p]) /\ job[p].step \in {"product", "account"}
        /\ \/ Steps(p, "clear")
           \/ /\ job[p].step = "product" /\ Steps(p, "account")
              /\ QuotaAllows(product.sold, job[p].amount)
           \/ /\ job[p].step = "account" /\ Steps(p, "freeze")
              /\ Covers(account[job[p].user], job[p].amount)
    BY <1>2, ReadDoes DEF ReadProduct, ReadAccount
  <2> QED
    BY <2>1, <2>2, AccountSame DEF Steps, Subscribes, Continues
<1>3. CASE Freeze(p)
  <2>1. Subscribes(p, job[p]) /\ Steps(p, "create") /\ job[p].step = "freeze" /\ product' = product
    BY <1>3, FreezeDoes DEF Freeze
  <2> QED
    BY <1>3, <2>1 DEF Steps, Subscribes, Continues
<1>4. CASE CreateOrder(p)
  <2>1. /\ Subscribes(p, job[p]) /\ Steps(p, "quota") /\ job[p].step = "create"
        /\ account' = account /\ product' = product
    BY <1>4, CreateDoes DEF CreateOrder
  <2> QED
    BY <2>1, AccountSame DEF Steps, Subscribes, Continues
<1>5. CASE CreateOrderFails(p)
  <2>1. /\ Subscribes(p, job[p]) /\ Steps(p, "clear") /\ job[p].step = "create"
        /\ product' = product /\ job[p].user \in User /\ job[p].amount \in Nat
        /\ account' = account \/ Moves(job[p].user, 0, -job[p].amount, 0)
    BY <1>5, CreateFailsDoes DEF CreateOrderFails, Subscribes
  <2>2. \A u \in User : Available(u)' >= Available(u)
    BY <2>1, MovesUp, AccountSame
  <2> QED
    BY <2>1, <2>2 DEF Steps, Continues
<1>6. CASE UpdateProductSoldQuota(p)
  <2>1. /\ Subscribes(p, job[p]) /\ Steps(p, "book") /\ job[p].step = "quota"
        /\ account' = account
    BY <1>6, QuotaDoes DEF UpdateProductSoldQuota
  <2> QED
    BY <1>6, <2>1, AccountSame DEF Steps, Subscribes, Continues
<1>7. CASE BookSubscription(p)
  <2>1. /\ Subscribes(p, job[p]) /\ Steps(p, "clear") /\ job[p].user \in User
        /\ Moves(job[p].user, 0, 0, -job[p].amount) /\ product' = product
    BY <1>7, BookSubscriptionDoes DEF BookSubscription, Subscribes
  <2>2. Moves(job[p].user, 0, -0, -job[p].amount)
    BY <2>1
  <2>3. \A u \in User : Available(u)' >= Available(u)
    BY <2>1, <2>2, MovesUp
  <2> QED
    BY <2>1, <2>3 DEF Steps, Continues
<1>8. CASE Unfreeze(p)
  <2>1. /\ EndsOrder(p, job[p]) /\ Steps(p, "bookPrincipal") /\ product' = product
        /\ Moves(job[p].user, 0, -job[p].amount, 0)
    BY <1>8, UnfreezeDoes DEF Unfreeze
  <2>2. job[p].user \in User /\ job[p].amount \in Nat
    BY <2>1, EndsFacts
  <2>3. \A u \in User : Available(u)' >= Available(u)
    BY <2>1, <2>2, MovesUp
  <2> QED
    BY <2>1, <2>3 DEF Steps, EndsOrder, Ending, Kept, Continues
<1>9. CASE BookPrincipal(p) \/ BookInterest(p) \/ JournalLost(p)
  <2>1. /\ EndsOrder(p, job[p]) /\ product' = product
        /\ Steps(p, AfterPrincipal(job[p])) \/ Steps(p, AfterInterest(job[p]))
        /\ \/ account' = account
           \/ \E n : Moves(job[p].user, 0, 0, n)
    BY <1>9, BookDoes DEF BookPrincipal, BookInterest, JournalLost
  <2>2. job[p].user \in User
    BY <2>1, EndsFacts
  <2>3. \A u \in User : Available(u)' >= Available(u)
    <3>1. ASSUME NEW n, Moves(job[p].user, 0, 0, n) PROVE Moves(job[p].user, 0, -0, n)
      BY <3>1
    <3> QED
      BY <2>1, <2>2, <3>1, MovesUp, AccountSame
  <2> QED
    BY <2>1, <2>3 DEF Steps, EndsOrder, Ending, Kept, AfterPrincipal, AfterInterest, Continues
<1>10. CASE PayInterest(p)
  <2>1. /\ EndsOrder(p, job[p]) /\ Steps(p, "bookInterest") /\ product' = product
        /\ Moves(job[p].user, Interest(job[p].amount, job[p].interest), 0, 0)
    BY <1>10, PayDoes DEF PayInterest
  <2>2. job[p].user \in User /\ Interest(job[p].amount, job[p].interest) \in Nat
    BY <2>1, EndsFacts
  <2>3. Moves(job[p].user, Interest(job[p].amount, job[p].interest), -0, 0)
    BY <2>1
  <2>4. \A u \in User : Available(u)' >= Available(u)
    BY <2>2, <2>3, MovesUp
  <2> QED
    BY <2>1, <2>4 DEF Steps, EndsOrder, Ending, Kept, Continues
<1>11. CASE CreateRenewedOrder(p) \/ LinkRenewedOrder(p)
  <2>1. /\ EndsOrder(p, job[p])
        /\ Steps(p, "link") \/ Steps(p, "close")
        /\ account' = account /\ product' = product
    BY <1>11, RenewedDoes, LinkDoes DEF CreateRenewedOrder, LinkRenewedOrder
  <2> QED
    BY <2>1, AccountSame DEF Steps, EndsOrder, Ending, Kept, Continues
<1>12. CASE Close(p)
  <2>1. Ends(p) /\ account' = account /\ product' = product
    BY <1>12, CloseDoes DEF Close
  <2> QED
    BY <2>1, AccountSame DEF Ends, NoJob, Continues
<1>13. CASE StatementFails(p)
  <2>1. Leaves(p) /\ account' = account /\ product' = product
    BY <1>13, FailDoes DEF StatementFails
  <2> QED
    BY <2>1, AccountSame DEF Leaves, Ends, Steps, NoJob, Continues
<1> QED
  BY <1>1, <1>2, <1>3, <1>4, <1>5, <1>6, <1>7, <1>8, <1>9, <1>10, <1>11, <1>12, <1>13, <1>14
     DEF Advance, Disturb, Acquires

LEMMA RedeemContinues ==
  ASSUME TypeInv, NEW p \in Call, NEW id \in OrderIds, Redeem(p, id)
  PROVE  Continues(p)
<1>1. /\ Others(p) /\ job'[p].op = "redeem" /\ job'[p].step = "unfreeze"
      /\ account' = account /\ product' = product
  BY RedeemDoes DEF Redeem
<1> QED
  BY <1>1, AccountSame DEF Continues, Allots

LEMMA DailyContinues ==
  ASSUME TypeInv, NEW s \in Scheduler, Daily(s)
  PROVE  \/ job' = job /\ account' = account /\ product' = product
         \/ Continues(s)
<1> USE DEF Allots
<1>1. CASE \/ StartRun(s) \/ ListActiveOrders(s) \/ ListExpiredOrders(s)
           \/ ActivateOrder(s) \/ EndRun(s)
  BY <1>1 DEF StartRun, ListActiveOrders, ListExpiredOrders, ActivateOrder, EndRun
<1>2. CASE UpdateInterestAccrued(s)
  <2>1. account' = account /\ product' = product
    BY <1>2 DEF UpdateInterestAccrued
  <2>2. \/ job' = job
        \/ Others(s) /\ job'[s].op = "accrue" /\ job'[s].step = "record"
    BY <1>2, AccrueDoes
  <2> QED
    BY <2>1, <2>2, AccountSame DEF Continues
<1>3. CASE RecordDailyInterest(s)
  <2>1. Ends(s) /\ account' = account /\ product' = product
    BY <1>3, RecordDoes DEF RecordDailyInterest
  <2> QED
    BY <2>1, AccountSame DEF Ends, NoJob, Continues
<1>4. CASE SettleOrder(s) \/ RenewOrder(s)
  <2>1. account' = account /\ product' = product
    BY <1>4 DEF SettleOrder, RenewOrder
  <2>2. \/ job' = job
        \/ /\ Others(s) /\ job'[s].op \in {"settle", "renew"}
           /\ job'[s].step \in {"unfreeze", "pay", "renew"}
    BY <1>4, RepayDoes
  <2> QED
    BY <2>1, <2>2, AccountSame DEF Continues
<1> QED
  BY <1>1, <1>2, <1>3, <1>4 DEF Daily

\* Every step is a new subscription, the continuation of some job, a restart or
\* none of a job's.
LEMMA NextKinds ==
  ASSUME TypeInv, [Next]_vars
  PROVE  \/ \E p \in Call, u \in User, a \in Amount, r \in AutoRenew, t \in Text : Subscribe(p, u, a, r, t)
         \/ \E p \in Process : Continues(p)
         \/ job' = job /\ account' = account /\ product'.sold = product.sold
         \/ Restart
<1>1. CASE UNCHANGED vars
  BY <1>1 DEF vars
<1>2. ASSUME NEW p \in Call, Serve(p)
      PROVE  \/ \E u \in User, a \in Amount, r \in AutoRenew, t \in Text : Subscribe(p, u, a, r, t)
             \/ p \in Process /\ Continues(p)
  BY <1>2, RedeemContinues DEF Serve, Process
<1>3. ASSUME NEW s \in Scheduler, Daily(s)
      PROVE  \/ s \in Process /\ Continues(s)
             \/ job' = job /\ account' = account /\ product'.sold = product.sold
  BY <1>3, DailyContinues DEF Process
<1>4. CASE Midnight \/ EndMaintenance \/ ChangeProduct \/ LastDay
  BY <1>4 DEF Midnight, EndMaintenance, ChangeProduct, LastDay, vars, TypeInv, TypeOK
<1> QED
  BY <1>1, <1>2, <1>3, <1>4, WorkContinues DEF Next

LEMMA InitKinds ==
  ASSUME Init
  PROVE  \A p \in Process : job[p].step = "idle" /\ job[p].op = "none"
BY DEF Init, NoJob

\* MaxAmount for each of k requests. The provers add and compare such products
\* through the facts of AtMost; none of them is asked to multiply.
AtMost(k) == k * MaxAmount
Spare == AtMost(Cardinality(Call) - 1)

LEMMA AtMostFacts ==
  /\ \A k \in Int : AtMost(k) \in Int /\ AtMost(k) = AtMost(k - 1) + MaxAmount
  /\ \A k \in Int, m \in Int : k <= m => AtMost(k) <= AtMost(m)
  /\ AtMost(0) = 0 /\ Spare \in Int /\ Cardinality(Call) \in Nat
<1>1. MaxAmount \in Nat /\ IsFiniteSet(Call)
  BY WealthAssumption
<1>2. \A k \in Int : AtMost(k) \in Int /\ AtMost(k) = AtMost(k - 1) + MaxAmount
  BY <1>1 DEF AtMost
<1>3. \A k \in Int, m \in Int : k <= m => AtMost(k) <= AtMost(m)
  <2>1. ASSUME NEW k \in Int, NEW m \in Int, k <= m PROVE AtMost(k) <= AtMost(m)
    <3>1. (m - k) * MaxAmount >= 0 /\ m * MaxAmount = k * MaxAmount + (m - k) * MaxAmount
      BY <1>1, <2>1
    <3>2. k * MaxAmount \in Int /\ m * MaxAmount \in Int
      BY <1>1
    <3>3. \A x, y, z \in Int : z >= 0 /\ y = x + z => x <= y
      OBVIOUS
    <3>4. k * MaxAmount <= m * MaxAmount
      BY <1>1, <3>1, <3>2, <3>3
    <3> QED
      BY <3>4 DEF AtMost
  <2> QED
    BY <2>1
<1>4. AtMost(0) = 0 /\ Cardinality(Call) \in Nat
  BY <1>1, FS_CardinalityType DEF AtMost
<1> QED
  BY <1>2, <1>3, <1>4 DEF Spare

\* What is left of a balance, or of a quota, bears what the requests of S, which
\* have checked it, will still take: they are Spare short at most, or one of them
\* checked last and found what it asks for.
Borne(left, S, asked) ==
  \/ left + Spare >= AtMost(Cardinality(S))
  \/ \E p \in S : left + Spare >= asked[p] + AtMost(Cardinality(S) - 1)

LEMMA Subsets ==
  ASSUME NEW S \in SUBSET Call
  PROVE  /\ IsFiniteSet(S) /\ Cardinality(S) \in Nat /\ Cardinality(S) <= Cardinality(Call)
         /\ \A T \in SUBSET S : Cardinality(T) <= Cardinality(S)
         /\ \A p \in S : Cardinality(S \ {p}) = Cardinality(S) - 1
<1>1. IsFiniteSet(Call)
  BY WealthAssumption
<1>2. IsFiniteSet(S) /\ Cardinality(S) <= Cardinality(Call)
  BY <1>1, FS_Subset
<1> QED
  BY <1>2, FS_Subset, FS_CardinalityType, FS_RemoveElement

\* A request that checks: the others may all have checked before it.
LEMMA BorneCheck ==
  ASSUME NEW S \in SUBSET Call, NEW asked \in [Call -> Nat], NEW left \in Int,
         NEW p \in S, left >= asked[p]
  PROVE  Borne(left, S, asked)
<1>1. Cardinality(S) - 1 <= Cardinality(Call) - 1 /\ Cardinality(S) \in Nat
  BY Subsets, AtMostFacts
<1>2. /\ AtMost(Cardinality(S) - 1) <= Spare /\ Spare \in Int
      /\ AtMost(Cardinality(S) - 1) \in Int
  BY <1>1, AtMostFacts DEF Spare
<1>3. asked[p] \in Nat
  OBVIOUS
<1>4. left + Spare >= asked[p] + AtMost(Cardinality(S) - 1)
  BY <1>2, <1>3
<1> QED
  BY <1>4 DEF Borne

\* A request that takes what it asked for, or gives up: it is among the checked
\* ones no more.
LEMMA BorneTake ==
  ASSUME NEW S \in SUBSET Call, NEW asked \in [Call -> Nat], NEW left \in Int,
         NEW new \in Int, NEW p \in S, new >= left - asked[p], asked[p] <= MaxAmount,
         Borne(left, S, asked)
  PROVE  Borne(new, S \ {p}, asked)
<1> DEFINE k == Cardinality(S)
<1>1. /\ k \in Nat /\ Cardinality(S \ {p}) = k - 1 /\ Spare \in Int /\ MaxAmount \in Nat
      /\ \A q \in Call : asked[q] \in Nat
      /\ p \in Call
  BY Subsets, AtMostFacts, WealthAssumption
<1> HIDE DEF k
<1>6. k \in Int /\ k - 1 \in Int
  BY <1>1
<1>5. AtMost(k) \in Int /\ AtMost(k) = AtMost(k - 1) + MaxAmount
  BY <1>6, AtMostFacts
<1>7. /\ AtMost(k - 1) \in Int /\ AtMost(k - 1) = AtMost(k - 1 - 1) + MaxAmount
  BY <1>6, AtMostFacts
<1>8. AtMost(k - 1 - 1) \in Int
  BY <1>6, AtMostFacts
<1>2. /\ AtMost(k) \in Int /\ AtMost(k - 1) \in Int /\ AtMost(k - 1 - 1) \in Int
      /\ AtMost(k) = AtMost(k - 1) + MaxAmount
      /\ AtMost(k - 1) = AtMost(k - 1 - 1) + MaxAmount
  BY <1>5, <1>7, <1>8
<1>3. CASE left + Spare >= AtMost(k)
  BY <1>1, <1>2, <1>3 DEF Borne
<1>4. ASSUME NEW q \in S, left + Spare >= asked[q] + AtMost(k - 1)
      PROVE  Borne(new, S \ {p}, asked)
  <2>1. CASE q = p
    <3>1. new + Spare >= AtMost(k - 1)
      BY <1>1, <1>2, <1>4, <2>1
    <3> QED
      BY <1>1, <3>1 DEF Borne
  <2>2. CASE q # p
    <3>1. new + Spare >= asked[q] + AtMost(k - 1 - 1)
      BY <1>1, <1>2, <1>4
    <3> QED
      BY <1>1, <2>2, <3>1 DEF Borne
  <2> QED
    BY <2>1, <2>2
<1> QED
  BY <1>3, <1>4 DEF Borne, k

\* Fewer requests are to take, and no less is left.
LEMMA BorneFewer ==
  ASSUME NEW S \in SUBSET Call, NEW asked \in [Call -> Nat], NEW left \in Int,
         NEW new \in Int, new >= left, NEW T \in SUBSET S, NEW other,
         \A p \in T : other[p] = asked[p], Borne(left, S, asked)
  PROVE  Borne(new, T, other)
<1>1. /\ T \in SUBSET Call /\ Cardinality(T) \in Nat /\ Cardinality(S) \in Nat
      /\ Cardinality(T) <= Cardinality(S) /\ Spare \in Int
      /\ \A q \in S : asked[q] \in Nat
  BY Subsets, AtMostFacts
<1>2. AtMost(Cardinality(T)) <= AtMost(Cardinality(S))
      /\ AtMost(Cardinality(T)) \in Int /\ AtMost(Cardinality(S)) \in Int
  BY <1>1, AtMostFacts
<1>3. CASE left + Spare >= AtMost(Cardinality(S))
  <2>1. new + Spare >= AtMost(Cardinality(T))
    BY <1>1, <1>2, <1>3
  <2> QED
    BY <2>1 DEF Borne
<1>4. ASSUME NEW q \in S, left + Spare >= asked[q] + AtMost(Cardinality(S) - 1)
      PROVE  Borne(new, T, other)
  <2>1. CASE q \in T
    <3>1. /\ Cardinality(T) - 1 \in Int /\ Cardinality(S) - 1 \in Int
          /\ Cardinality(T) - 1 <= Cardinality(S) - 1
      BY <1>1
    <3>2. /\ AtMost(Cardinality(T) - 1) <= AtMost(Cardinality(S) - 1)
          /\ AtMost(Cardinality(T) - 1) \in Int /\ AtMost(Cardinality(S) - 1) \in Int
      BY <3>1, AtMostFacts
    <3>3. new + Spare >= other[q] + AtMost(Cardinality(T) - 1)
      BY <1>1, <1>4, <2>1, <3>2
    <3> QED
      BY <2>1, <3>3 DEF Borne
  <2>2. CASE q \notin T
    <3>1. T \in SUBSET (S \ {q}) /\ S \ {q} \in SUBSET Call
      BY <2>2
    <3>2. Cardinality(T) <= Cardinality(S) - 1
      BY <3>1, Subsets
    <3>3. /\ AtMost(Cardinality(T)) <= AtMost(Cardinality(S) - 1)
          /\ AtMost(Cardinality(S) - 1) \in Int
      BY <1>1, <3>2, AtMostFacts
    <3>4. new + Spare >= AtMost(Cardinality(T))
      BY <1>1, <1>2, <1>4, <3>3
    <3> QED
      BY <3>4 DEF Borne
  <2> QED
    BY <2>1, <2>2
<1> QED
  BY <1>3, <1>4 DEF Borne

\* What the invariant says of the overrun.
LEMMA BorneBounds ==
  ASSUME NEW S \in SUBSET Call, NEW asked \in [Call -> Nat], NEW left \in Int,
         Borne(left, S, asked)
  PROVE  left + Spare >= 0
<1>1. Cardinality(S) \in Nat /\ Spare \in Int /\ \A q \in S : asked[q] \in Nat
  BY Subsets, AtMostFacts
<1>2. AtMost(Cardinality(S)) \in Int /\ AtMost(Cardinality(S)) >= 0
  BY <1>1, AtMostFacts
<1>3. ASSUME NEW q \in S, left + Spare >= asked[q] + AtMost(Cardinality(S) - 1)
      PROVE  left + Spare >= 0
  <2>1. Cardinality(S \ {q}) \in Nat /\ Cardinality(S \ {q}) = Cardinality(S) - 1
    BY Subsets
  <2>2. AtMost(Cardinality(S) - 1) \in Int /\ AtMost(Cardinality(S) - 1) >= 0
    BY <2>1, AtMostFacts
  <2> QED
    BY <1>1, <1>3, <2>2
<1> QED
  BY <1>1, <1>2, <1>3 DEF Borne

FreezesBorne == \A u \in User : Borne(Available(u), Checked(u), Asked)
SalesBorne == Borne(TotalQuota - product.sold, Allotting, Asked)

LEMMA AskedTyped ==
  ASSUME TypeInv
  PROVE  /\ Asked \in [Call -> Nat] /\ \A u \in User : Checked(u) \in SUBSET Call
         /\ Allotting \in SUBSET Call
         /\ \A u \in User : Available(u) \in Int
         /\ TotalQuota - product.sold \in Int
<1>1. \A p \in Call : job[p].amount \in Nat
  BY JobFields DEF TypeInv, Process
<1>2. \A u \in User : account[u].balance \in Int /\ account[u].frozen \in Int
  BY DEF TypeInv, TypeOK, Account
<1>3. TotalQuota \in Nat /\ product.sold \in Nat
  BY WealthAssumption DEF TypeInv, TypeOK
<1> QED
  BY <1>1, <1>2, <1>3 DEF Asked, Checked, Allotting, Available

LEMMA AskedTypedNext ==
  ASSUME TypeInv'
  PROVE  /\ Asked' \in [Call -> Nat] /\ \A u \in User : Checked(u)' \in SUBSET Call
         /\ Allotting' \in SUBSET Call
         /\ \A u \in User : Available(u)' \in Int
         /\ TotalQuota - product'.sold \in Int
<1>1. \A p \in Call : job'[p].amount \in Nat
  BY DEF TypeInv, TypeOK, Job, Process
<1>2. \A u \in User : account'[u].balance \in Int /\ account'[u].frozen \in Int
  BY DEF TypeInv, TypeOK, Account
<1>3. TotalQuota \in Nat /\ product'.sold \in Nat
  BY WealthAssumption DEF TypeInv, TypeOK
<1> QED
  BY <1>1, <1>2, <1>3 DEF Asked, Checked, Allotting, Available

\* A step at which no request begins to wait for its freeze.
LEMMA FreezesFewer ==
  ASSUME TypeInv, TypeInv', FreezesBorne, NEW u \in User, Available(u)' >= Available(u),
         \A q \in Call : job'[q].step = "freeze" /\ job'[q].user = u => job'[q] = job[q]
  PROVE  Borne(Available(u)', Checked(u)', Asked')
<1>1. Checked(u)' \in SUBSET Checked(u) /\ \A q \in Checked(u)' : Asked'[q] = Asked[q]
  BY DEF Checked, Asked
<1>2. Borne(Available(u), Checked(u), Asked)
  BY DEF FreezesBorne
<1>3. /\ Checked(u) \in SUBSET Call /\ Asked \in [Call -> Nat]
      /\ Available(u) \in Int /\ Available(u)' \in Int
  BY AskedTyped, AskedTypedNext
<1> QED
  BY <1>1, <1>2, <1>3, BorneFewer

LEMMA FreezesBorneNext ==
  ASSUME TypeInv, TypeInv', FreezesBorne, [Next]_vars
  PROVE  FreezesBorne'
<1>1. ASSUME NEW p \in Process, Continues(p), Freeze(p), NEW u \in User
      PROVE  Borne(Available(u)', Checked(u)', Asked')
  <2>1. /\ Subscribes(p, job[p]) /\ Steps(p, "create") /\ job[p].step = "freeze"
        /\ Moves(job[p].user, 0, job[p].amount, 0) /\ job[p].amount \in Nat
    BY <1>1, FreezeDoes DEF Freeze
  <2>2. \A v \in User : account[v].balance \in Int /\ account[v].frozen \in Int
    BY DEF TypeInv, TypeOK, Account
  <2>3. p \in Call /\ job[p].user \in User /\ job[p].amount <= MaxAmount
    BY <2>1, WealthAssumption DEF Subscribes
  <2>4. CASE u = job[p].user
    <3>1. Available(u)' = Available(u) - job[p].amount
      BY <2>1, <2>2, <2>4 DEF Moves, Available
    <3>2. Checked(u)' = Checked(u) \ {p} /\ p \in Checked(u) /\ Asked' = Asked
      BY <2>1, <2>3, <2>4 DEF Checked, Asked, Steps, Others, Kept, Process
    <3>3. Asked[p] = job[p].amount /\ Borne(Available(u), Checked(u), Asked)
      BY <2>3 DEF Asked, FreezesBorne
    <3>4. /\ Checked(u) \in SUBSET Call /\ Asked \in [Call -> Nat]
          /\ Available(u) \in Int /\ Available(u)' \in Int
      BY AskedTyped, AskedTypedNext
    <3>5. Available(u)' >= Available(u) - Asked[p] /\ Asked[p] <= MaxAmount
      BY <2>3, <3>1, <3>3, <3>4
    <3> QED
      BY <3>2, <3>3, <3>4, <3>5, BorneTake
  <2>5. CASE u # job[p].user
    <3>1. account'[u] = account[u]
      BY <2>1, <2>5 DEF Moves
    <3>2. Available(u)' >= Available(u)
      BY <2>2, <3>1 DEF Available
    <3>3. \A q \in Call : job'[q].step = "freeze" /\ job'[q].user = u => job'[q] = job[q]
      BY <2>1 DEF Steps, Others, Process
    <3> QED
      BY <3>2, <3>3, FreezesFewer
  <2> QED
    BY <2>4, <2>5
<1>2. ASSUME NEW p \in Process, Continues(p), ~Freeze(p), NEW u \in User
      PROVE  Borne(Available(u)', Checked(u)', Asked')
  <2>1. Available(u)' >= Available(u)
    BY <1>2 DEF Continues
  <2>2. CASE job'[p].step = "freeze" /\ job'[p].user = u
    <3>1. /\ Subscribes(p, job[p]) /\ Kept(job[p], job'[p]) /\ account' = account
          /\ Covers(account[job[p].user], job[p].amount)
      BY <1>2, <2>2 DEF Continues
    <3>2. p \in Call /\ job[p].user = u /\ job'[p].amount = job[p].amount
      BY <2>2, <3>1 DEF Subscribes, Kept
    <3>3. /\ Checked(u)' \in SUBSET Call /\ Asked' \in [Call -> Nat] /\ Available(u)' \in Int
      BY AskedTypedNext
    <3>4. p \in Checked(u)' /\ Asked'[p] = job[p].amount
      BY <2>2, <3>2 DEF Checked, Asked
    <3>5. Available(u)' >= Asked'[p]
      BY <3>1, <3>2, <3>4 DEF Available, Covers
    <3> QED
      BY <3>3, <3>4, <3>5, BorneCheck
  <2>3. CASE ~(job'[p].step = "freeze" /\ job'[p].user = u)
    <3>1. \A q \in Call : job'[q].step = "freeze" /\ job'[q].user = u => job'[q] = job[q]
      BY <1>2, <2>3 DEF Continues, Others, Process
    <3> QED
      BY <2>1, <3>1, FreezesFewer
  <2> QED
    BY <2>2, <2>3
<1>3. ASSUME NEW p \in Call, NEW v \in User, NEW a \in Amount, NEW r \in AutoRenew,
             NEW t \in Text, Subscribe(p, v, a, r, t), NEW u \in User
      PROVE  Borne(Available(u)', Checked(u)', Asked')
  <2>1. Others(p) /\ job'[p].step # "freeze" /\ account' = account
    BY <1>3, SubscribeDoes DEF Subscribe
  <2>2. \A q \in Call : job'[q].step = "freeze" /\ job'[q].user = u => job'[q] = job[q]
    BY <2>1 DEF Others, Process
  <2> QED
    BY <2>1, <2>2, AccountSame, FreezesFewer
<1>4. ASSUME job' = job, account' = account, NEW u \in User
      PROVE  Borne(Available(u)', Checked(u)', Asked')
  BY <1>4, AccountSame, FreezesFewer
<1>5. ASSUME Restart, NEW u \in User
      PROVE  Borne(Available(u)', Checked(u)', Asked')
  <2>1. account' = account
    BY <1>5 DEF Restart
  <2>2. \A q \in Call : job'[q].step # "freeze"
    BY <1>5, RestartDoes DEF NoJob, Process
  <2> QED
    BY <2>1, <2>2, AccountSame, FreezesFewer
<1> QED
  BY <1>1, <1>2, <1>3, <1>4, <1>5, NextKinds DEF FreezesBorne

LEMMA StartsBorne ==
  ASSUME NEW left \in Nat, NEW asked
  PROVE  Borne(left, {}, asked)
<1>1. Cardinality({}) = 0 /\ AtMost(0) = 0 /\ Spare \in Int
  BY FS_EmptySet, AtMostFacts
<1>2. Cardinality(Call) # 0 /\ Cardinality(Call) \in Nat
  BY WealthAssumption, FS_EmptySet, AtMostFacts
<1>3. Spare >= AtMost(0)
  BY <1>2, AtMostFacts DEF Spare
<1> QED
  BY <1>1, <1>3 DEF Borne

\* What is frozen beyond the balance is at most what all requests but one can ask
\* for, whatever the mutexes, amounts, failures and restarts; nothing is, if the
\* server takes one request at a time.
THEOREM FreezesWithinOverlap == Spec => []FrozenWithinOverlap
<1>1. Init => FreezesBorne
  <2>1. ASSUME Init, NEW u \in User PROVE Borne(Available(u), Checked(u), Asked)
    <3>1. Available(u) = Opening /\ Opening \in Nat
      BY <2>1, WealthAssumption DEF Init, Available
    <3>2. Checked(u) = {}
      BY <2>1, InitKinds DEF Checked, Process
    <3> QED
      BY <3>1, <3>2, StartsBorne
  <2> QED
    BY <2>1 DEF FreezesBorne
<1>2. TypeInv /\ TypeInv' /\ FreezesBorne /\ [Next]_vars => FreezesBorne'
  BY FreezesBorneNext
<1>3. TypeInv /\ FreezesBorne => FrozenWithinOverlap
  <2>1. ASSUME TypeInv, FreezesBorne, NEW u \in User
        PROVE  account[u].frozen <= account[u].balance + (Cardinality(Call) - 1) * MaxAmount
    <3>1. Available(u) + Spare >= 0
      BY <2>1, AskedTyped, BorneBounds DEF FreezesBorne
    <3>2. account[u].balance \in Int /\ account[u].frozen \in Int /\ Spare \in Int
      BY <2>1, AtMostFacts DEF TypeInv, TypeOK, Account
    <3>3. account[u].frozen <= account[u].balance + Spare
      BY <3>1, <3>2 DEF Available
    <3> QED
      BY <3>3 DEF Spare, AtMost
  <2> QED
    BY <2>1 DEF FrozenWithinOverlap
<1> QED
  BY <1>1, <1>2, <1>3, Typed, PTL DEF Spec

\* A step at which no request begins to count on the quota.
LEMMA SalesFewer ==
  ASSUME TypeInv, TypeInv', SalesBorne, product'.sold = product.sold,
         \A q \in Call : Allots(job'[q]) => Allots(job[q]) /\ job'[q].amount = job[q].amount
  PROVE  SalesBorne'
<1>1. Allotting' \in SUBSET Allotting /\ \A q \in Allotting' : Asked'[q] = Asked[q]
  BY DEF Allotting, Asked, Allots
<1>2. /\ Allotting \in SUBSET Call /\ Asked \in [Call -> Nat]
      /\ TotalQuota - product.sold \in Int
  BY AskedTyped
<1>3. TotalQuota - product'.sold >= TotalQuota - product.sold
  BY <1>2
<1>4. Borne(TotalQuota - product'.sold, Allotting', Asked')
  BY <1>1, <1>2, <1>3, BorneFewer DEF SalesBorne
<1> QED
  BY <1>4 DEF SalesBorne

LEMMA SalesBorneNext ==
  ASSUME TypeInv, TypeInv', SalesBorne, [Next]_vars
  PROVE  SalesBorne'
<1>1. ASSUME NEW p \in Process, UpdateProductSoldQuota(p)
      PROVE  SalesBorne'
  <2>1. /\ Subscribes(p, job[p]) /\ Steps(p, "book") /\ job[p].step = "quota"
        /\ job[p].amount \in Nat
        /\ product'.sold = product.sold + job[p].amount \/ product' = product
    BY <1>1, QuotaDoes DEF UpdateProductSoldQuota
  <2>2. p \in Call /\ job[p].amount <= MaxAmount
    BY <2>1, WealthAssumption DEF Subscribes
  <2>3. Allotting' = Allotting \ {p} /\ p \in Allotting /\ Asked' = Asked
    BY <2>1, <2>2 DEF Allotting, Allots, Asked, Steps, Others, Kept, Process
  <2>4. /\ Allotting \in SUBSET Call /\ Asked \in [Call -> Nat]
        /\ TotalQuota - product.sold \in Int /\ TotalQuota - product'.sold \in Int
        /\ product.sold \in Int /\ TotalQuota \in Int
    BY AskedTyped, AskedTypedNext, WealthAssumption DEF TypeInv, TypeOK
  <2>5. Asked[p] = job[p].amount
    BY <2>2 DEF Asked
  <2>6. TotalQuota - product'.sold >= TotalQuota - product.sold - Asked[p]
    BY <2>1, <2>4, <2>5
  <2>7. Borne(TotalQuota - product'.sold, Allotting \ {p}, Asked)
    BY <2>2, <2>3, <2>4, <2>5, <2>6, BorneTake DEF SalesBorne
  <2> QED
    BY <2>3, <2>7 DEF SalesBorne
<1>2. ASSUME NEW p \in Process, Continues(p), ~UpdateProductSoldQuota(p)
      PROVE  SalesBorne'
  <2>1. product'.sold = product.sold
    BY <1>2 DEF Continues
  <2>2. CASE Allots(job'[p]) /\ ~Allots(job[p])
    <3>1. /\ Subscribes(p, job[p]) /\ Kept(job[p], job'[p])
          /\ QuotaAllows(product.sold, job[p].amount)
      BY <1>2, <2>2 DEF Continues
    <3>2. p \in Allotting' /\ Asked'[p] = job[p].amount
      BY <2>2, <3>1 DEF Allotting, Asked, Subscribes, Kept
    <3>3. /\ Allotting' \in SUBSET Call /\ Asked' \in [Call -> Nat]
          /\ TotalQuota - product'.sold \in Int
      BY AskedTypedNext
    <3>4. TotalQuota \in Nat /\ product.sold \in Nat /\ job[p].amount \in Nat
      BY WealthAssumption, JobFields DEF TypeInv, TypeOK
    <3>5. TotalQuota - product'.sold >= Asked'[p]
      BY <2>1, <3>1, <3>2, <3>4 DEF QuotaAllows
    <3>6. Borne(TotalQuota - product'.sold, Allotting', Asked')
      BY <3>2, <3>3, <3>5, BorneCheck
    <3> QED
      BY <3>6 DEF SalesBorne
  <2>3. CASE ~(Allots(job'[p]) /\ ~Allots(job[p]))
    <3>1. ASSUME NEW q \in Call, Allots(job'[q])
          PROVE  Allots(job[q]) /\ job'[q].amount = job[q].amount
      BY <1>2, <2>3, <3>1 DEF Continues, Others, Process, Kept
    <3> QED
      BY <2>1, <3>1, SalesFewer
  <2> QED
    BY <2>2, <2>3
<1>3. ASSUME NEW p \in Call, NEW u \in User, NEW a \in Amount, NEW r \in AutoRenew,
             NEW t \in Text, Subscribe(p, u, a, r, t)
      PROVE  SalesBorne'
  <2>1. Others(p) /\ ~Allots(job'[p]) /\ product' = product
    BY <1>3, SubscribeDoes DEF Subscribe, Allots
  <2>2. ASSUME NEW q \in Call, Allots(job'[q])
        PROVE  Allots(job[q]) /\ job'[q].amount = job[q].amount
    BY <2>1, <2>2 DEF Others, Process
  <2> QED
    BY <2>1, <2>2, SalesFewer
<1>4. CASE job' = job /\ product'.sold = product.sold
  BY <1>4, SalesFewer
<1>5. CASE Restart
  <2>1. product' = product
    BY <1>5 DEF Restart
  <2>2. \A q \in Call : ~Allots(job'[q])
    BY <1>5, RestartDoes DEF Allots, NoJob, Process
  <2> QED
    BY <2>1, <2>2, SalesFewer
<1> QED
  BY <1>1, <1>2, <1>3, <1>4, <1>5, NextKinds

\* What is sold beyond the quota is at most what all requests but one can ask
\* for, over all customers; nothing is, if the server takes one request at a time.
THEOREM SellsWithinOverlap == Spec => []SoldWithinOverlap
<1>1. Init => SalesBorne
  <2>1. ASSUME Init PROVE SalesBorne
    <3>1. TotalQuota - product.sold = TotalQuota /\ TotalQuota \in Nat
      BY <2>1, WealthAssumption DEF Init
    <3>2. Allotting = {}
      BY <2>1, InitKinds DEF Allotting, Allots, Process
    <3> QED
      BY <3>1, <3>2, StartsBorne DEF SalesBorne
  <2> QED
    BY <2>1
<1>2. TypeInv /\ TypeInv' /\ SalesBorne /\ [Next]_vars => SalesBorne'
  BY SalesBorneNext
<1>3. TypeInv /\ SalesBorne => SoldWithinOverlap
  <2>1. ASSUME TypeInv, SalesBorne PROVE SoldWithinOverlap
    <3>1. TotalQuota - product.sold + Spare >= 0
      BY <2>1, AskedTyped, BorneBounds DEF SalesBorne
    <3>2. TotalQuota \in Int /\ product.sold \in Int /\ Spare \in Int
      BY <2>1, AtMostFacts, WealthAssumption DEF TypeInv, TypeOK
    <3>3. product.sold <= TotalQuota + Spare
      BY <3>1, <3>2
    <3> QED
      BY <3>3 DEF SoldWithinOverlap, Spare, AtMost
  <2> QED
    BY <2>1
<1> QED
  BY <1>1, <1>2, <1>3, Typed, PTL DEF Spec

-----------------------------------------------------------------------------
\* The journal and the available balance

\* No statement has failed and no restart has ended a call.
Undisturbed == faults = 0 /\ crashes = 0

\* What a job has taken from the available balance, or added to it, and not
\* journalled yet.
OutOf(u, j) == IF j.user = u /\ j.step \in {"create", "quota", "book"} THEN j.amount ELSE 0
InOf(u, j) ==
  IF j.user # u THEN 0
  ELSE IF j.step = "bookPrincipal" THEN j.amount
  ELSE IF j.step = "bookInterest" THEN Interest(j.amount, j.interest) ELSE 0
Out(u) == [p \in Process |-> OutOf(u, job[p])]
In(u) == [p \in Process |-> InOf(u, job[p])]

\* The available balance and what the journal will still take from it are the
\* opening balance, the journal and what it will still add.
Explained == \A u \in User :
  /\ IsFiniteSet(Units(Out(u))) /\ IsFiniteSet(Units(In(u)))
  /\ Available(u) + Total(Out(u)) = Opening + account[u].journal + Total(In(u))

LEMMA Calmed ==
  ASSUME TypeInv, [Next]_vars, Undisturbed'
  PROVE  Undisturbed
<1>1. faults \in Nat /\ crashes \in Nat
  BY DEF TypeInv, TypeOK
<1>2. ASSUME faults' = faults \/ faults' = faults + 1 \/ faults' = faults + 2,
             crashes' = crashes \/ crashes' = crashes + 1
      PROVE  Undisturbed
  BY <1>1, <1>2 DEF Undisturbed
<1>3. ASSUME NEW p \in Process, Advance(p) PROVE Undisturbed
  <2>1. crashes' = crashes /\ (faults' = faults \/ faults' = faults + 1)
    BY <1>3 DEF Advance, MakeMutex, Lock, Mark, ClearLock, ReadProduct, ReadAccount, Freeze, CreateOrder,
       UpdateProductSoldQuota, BookSubscription, Unfreeze, BookPrincipal, PayInterest,
       BookInterest, CreateRenewedOrder, LinkRenewedOrder, Close, Fails
  <2> QED
    BY <1>2, <2>1
<1>4. ASSUME NEW p \in Process, Disturb(p) PROVE Undisturbed
  <2>1. crashes' = crashes /\ (faults' = faults + 1 \/ faults' = faults + 2)
    BY <1>4 DEF Disturb, CreateOrderFails, JournalLost, StatementFails, Fails
  <2> QED
    BY <1>2, <2>1
<1>5. ASSUME NEW s \in Scheduler, Daily(s) PROVE Undisturbed
  <2>1. crashes' = crashes /\ (faults' = faults \/ faults' = faults + 1)
    BY <1>5 DEF Daily, StartRun, ActivateOrder, ListActiveOrders, UpdateInterestAccrued,
       RecordDailyInterest, ListExpiredOrders, SettleOrder, RenewOrder, EndRun, Enter, Fails
  <2> QED
    BY <1>2, <2>1
<1>6. ASSUME NEW p \in Call, Serve(p) PROVE Undisturbed
  <2>1. crashes' = crashes /\ faults' = faults
    BY <1>6 DEF Serve, Subscribe, Redeem
  <2> QED
    BY <1>2, <2>1
<1>7. CASE Midnight \/ EndMaintenance \/ ChangeProduct \/ Restart \/ LastDay \/ UNCHANGED vars
  <2>1. faults' = faults /\ (crashes' = crashes \/ crashes' = crashes + 1)
    BY <1>7 DEF Midnight, EndMaintenance, ChangeProduct, Restart, LastDay, vars
  <2> QED
    BY <1>2, <2>1
<1> QED
  BY <1>3, <1>4, <1>5, <1>6, <1>7 DEF Next

LEMMA FlowTyped ==
  ASSUME NEW j \in Job, NEW u
  PROVE  OutOf(u, j) \in Nat /\ InOf(u, j) \in Nat
<1>1. j.amount \in Nat /\ j.interest \in Nat
  BY DEF Job
<1>2. Interest(j.amount, j.interest) \in Nat
  BY <1>1, InterestNat
<1> QED
  BY <1>1, <1>2 DEF OutOf, InOf

\* A step of p changes the sums by what it changes of the terms of p.
LEMMA FlowStep ==
  ASSUME TypeInv, TypeInv', NEW p \in Process, Others(p), NEW u,
         IsFiniteSet(Units(Out(u))), IsFiniteSet(Units(In(u)))
  PROVE  /\ Total(Out(u)) \in Nat /\ Total(Out(u))' \in Nat
         /\ Total(In(u)) \in Nat /\ Total(In(u))' \in Nat
         /\ IsFiniteSet(Units(Out(u)))' /\ IsFiniteSet(Units(In(u)))'
         /\ Total(Out(u))' + OutOf(u, job[p]) = Total(Out(u)) + OutOf(u, job'[p])
         /\ Total(In(u))' + InOf(u, job[p]) = Total(In(u)) + InOf(u, job'[p])
<1> DEFINE f == Out(u)
           g == [q \in Process |-> OutOf(u, job'[q])]
           h == In(u)
           k == [q \in Process |-> InOf(u, job'[q])]
<1>1. (\A q \in Process : job[q] \in Job) /\ (\A q \in Process : job'[q] \in Job)
  BY DEF TypeInv, TypeOK
<1>2. f \in [Process -> Nat] /\ g \in [Process -> Nat]
      /\ h \in [Process -> Nat] /\ k \in [Process -> Nat]
  BY <1>1, FlowTyped DEF Out, In
<1>3. /\ \A q \in Process \ {p} : g[q] = f[q] /\ k[q] = h[q]
      /\ f[p] = OutOf(u, job[p]) /\ g[p] = OutOf(u, job'[p])
      /\ h[p] = InOf(u, job[p]) /\ k[p] = InOf(u, job'[p])
  BY DEF Out, In, Others
<1>4. /\ Total(Out(u))' = Total(g) /\ Total(In(u))' = Total(k)
      /\ Units(Out(u))' = Units(g) /\ Units(In(u))' = Units(k)
  BY DEF Total, Units, Out, In, OutOf, InOf
<1> HIDE DEF f, g, h, k
<1>5. /\ IsFiniteSet(Units(g)) /\ Total(f) \in Nat /\ Total(g) \in Nat
      /\ Total(g) + f[p] = Total(f) + g[p]
  <2>1. IsFiniteSet(Units(f))
    BY DEF f
  <2> QED
    BY <1>2, <1>3, <2>1, TotalStep
<1>6. /\ IsFiniteSet(Units(k)) /\ Total(h) \in Nat /\ Total(k) \in Nat
      /\ Total(k) + h[p] = Total(h) + k[p]
  <2>1. IsFiniteSet(Units(h))
    BY DEF h
  <2> QED
    BY <1>2, <1>3, <2>1, TotalStep
<1>7. f = Out(u) /\ h = In(u)
  BY DEF f, h
<1> QED
  BY <1>3, <1>4, <1>5, <1>6, <1>7

\* A step of p changes both sides of the equation alike.
Balanced(p) ==
  /\ Others(p)
  /\ \A u \in User :
       Available(u)' + OutOf(u, job'[p]) + InOf(u, job[p]) + account[u].journal
         = Available(u) + OutOf(u, job[p]) + InOf(u, job'[p]) + account'[u].journal

LEMMA ExplainedStep ==
  ASSUME TypeInv, TypeInv', Explained, NEW p \in Process, Balanced(p)
  PROVE  Explained'
<1>1. ASSUME NEW u \in User
      PROVE  /\ IsFiniteSet(Units(Out(u)))' /\ IsFiniteSet(Units(In(u)))'
             /\ Available(u)' + Total(Out(u))'
                  = Opening + account'[u].journal + Total(In(u))'
  <2>1. /\ Total(Out(u)) \in Nat /\ Total(Out(u))' \in Nat
        /\ Total(In(u)) \in Nat /\ Total(In(u))' \in Nat
        /\ IsFiniteSet(Units(Out(u)))' /\ IsFiniteSet(Units(In(u)))'
        /\ Total(Out(u))' + OutOf(u, job[p]) = Total(Out(u)) + OutOf(u, job'[p])
        /\ Total(In(u))' + InOf(u, job[p]) = Total(In(u)) + InOf(u, job'[p])
    BY FlowStep DEF Balanced, Explained
  <2>2. Available(u) + Total(Out(u)) = Opening + account[u].journal + Total(In(u))
    BY DEF Explained
  <2>3. /\ account[u].balance \in Int /\ account[u].frozen \in Int
        /\ account[u].journal \in Int
        /\ account'[u].balance \in Int /\ account'[u].frozen \in Int
        /\ account'[u].journal \in Int /\ Opening \in Int
    BY WealthAssumption DEF TypeInv, TypeOK, Account
  <2>4. Available(u) \in Int /\ Available(u)' \in Int
    BY <2>3 DEF Available
  <2>5. job[p] \in Job /\ job'[p] \in Job
    BY DEF TypeInv, TypeOK
  <2>6. /\ OutOf(u, job[p]) \in Int /\ OutOf(u, job'[p]) \in Int
        /\ InOf(u, job[p]) \in Int /\ InOf(u, job'[p]) \in Int
    BY <2>5, FlowTyped
  <2>7. Available(u)' + OutOf(u, job'[p]) + InOf(u, job[p]) + account[u].journal
         = Available(u) + OutOf(u, job[p]) + InOf(u, job'[p]) + account'[u].journal
    BY DEF Balanced
  <2>8. Available(u)' + Total(Out(u))' = Opening + account'[u].journal + Total(In(u))'
    <3> DEFINE o == Total(Out(u))
               q == Total(Out(u))'
               i == Total(In(u))
               k == Total(In(u))'
               a == Available(u)
               b == Available(u)'
               x == OutOf(u, job[p])
               y == OutOf(u, job'[p])
               v == InOf(u, job[p])
               w == InOf(u, job'[p])
               m == account[u].journal
               n == account'[u].journal
    <3>1. /\ o \in Int /\ q \in Int /\ i \in Int /\ k \in Int /\ a \in Int /\ b \in Int
          /\ x \in Int /\ y \in Int /\ v \in Int /\ w \in Int
          /\ m \in Int /\ n \in Int /\ Opening \in Int
      BY <2>1, <2>3, <2>4, <2>6
    <3>2. q + x = o + y /\ k + v = i + w
      BY <2>1
    <3>3. a + o = Opening + m + i
      BY <2>2
    <3>4. b + y + v + m = a + x + w + n
      BY <2>7
    <3> HIDE DEF o, q, i, k, a, b, x, y, v, w, m, n
    <3>5. b + q = Opening + n + k
      BY <3>1, <3>2, <3>3, <3>4
    <3> QED
      BY <3>5 DEF b, q, k, n
  <2> QED
    BY <2>1, <2>8
<1>2. ASSUME NEW u \in User
      PROVE  (/\ IsFiniteSet(Units(Out(u))) /\ IsFiniteSet(Units(In(u)))
              /\ Available(u) + Total(Out(u)) = Opening + account[u].journal + Total(In(u)))'
  BY <1>1
<1> QED
  BY <1>2 DEF Explained

\* Money neither moves nor waits.
LEMMA NothingMoves ==
  ASSUME TypeInv, NEW p \in Process, Others(p), account' = account,
         \A u \in User : OutOf(u, job'[p]) = OutOf(u, job[p]) /\ InOf(u, job'[p]) = InOf(u, job[p])
  PROVE  Balanced(p)
BY DEF Balanced, Available

LEMMA BalancedWork ==
  ASSUME TypeInv, NEW p \in Process, Advance(p) \/ Disturb(p), Undisturbed'
  PROVE  Balanced(p)
<1>1. job[p] \in Job /\ job[p].amount \in Nat /\ job[p].interest \in Nat
  BY JobFields DEF TypeInv
<1>2. /\ \A v \in User : account[v].balance \in Int /\ account[v].frozen \in Int
                        /\ account[v].journal \in Int
      /\ Interest(job[p].amount, job[p].interest) \in Nat
  BY <1>1, InterestNat DEF TypeInv, TypeOK, Account
<1> USE DEF OutOf, InOf
<1>3. \A u \in User : NoJob.user # u
  BY WealthAssumption DEF NoJob
<1>18. CASE Acquires(p)
  <2>1. account' = account /\ job[p].step \in {"getLock", "lock", "mark"}
    BY <1>18, AcquireDoes
  <2>2. \E step \in {"lock", "mark", "product", "clear"} : Steps(p, step)
    BY <1>18, AcquireDoes
  <2> QED
    BY <2>1, <2>2, NothingMoves DEF Steps
<1>4. CASE ClearLock(p)
  <2>1. Ends(p) /\ account' = account /\ job[p].step = "clear"
    BY <1>4, ClearDoes DEF ClearLock
  <2> QED
    BY <1>3, <2>1, NothingMoves DEF Ends
<1>5. CASE ReadProduct(p) \/ ReadAccount(p)
  <2>1. account' = account /\ job[p].step \in {"product", "account"}
    BY <1>5 DEF ReadProduct, ReadAccount
  <2>2. Steps(p, "clear") \/ Steps(p, "account") \/ Steps(p, "freeze")
    BY <1>5, ReadDoes
  <2> QED
    BY <2>1, <2>2, NothingMoves DEF Steps
<1>6. CASE Freeze(p)
  <2>1. Steps(p, "create") /\ job[p].step = "freeze" /\ Moves(job[p].user, 0, job[p].amount, 0)
    BY <1>6, FreezeDoes DEF Freeze
  <2> QED
    BY <1>1, <1>2, <2>1 DEF Steps, Kept, Moves, Balanced, Available
<1>7. CASE CreateOrder(p)
  <2>1. Steps(p, "quota") /\ account' = account /\ job[p].step = "create"
    BY <1>7, CreateDoes DEF CreateOrder
  <2> QED
    BY <2>1, NothingMoves DEF Steps, Kept
<1>8. CASE UpdateProductSoldQuota(p)
  <2>1. Steps(p, "book") /\ account' = account /\ job[p].step = "quota"
    BY <1>8, QuotaDoes DEF UpdateProductSoldQuota
  <2> QED
    BY <2>1, NothingMoves DEF Steps, Kept
<1>9. CASE BookSubscription(p)
  <2>1. Steps(p, "clear") /\ job[p].step = "book" /\ Moves(job[p].user, 0, 0, -job[p].amount)
    BY <1>9, BookSubscriptionDoes DEF BookSubscription
  <2> QED
    BY <1>1, <1>2, <2>1 DEF Steps, Kept, Moves, Balanced, Available
<1>10. CASE Unfreeze(p)
  <2>1. /\ Steps(p, "bookPrincipal") /\ job[p].step = "unfreeze"
        /\ Moves(job[p].user, 0, -job[p].amount, 0)
    BY <1>10, UnfreezeDoes DEF Unfreeze
  <2>2. \A u \in User :
          /\ OutOf(u, job'[p]) = 0 /\ OutOf(u, job[p]) = 0 /\ InOf(u, job[p]) = 0
          /\ InOf(u, job'[p]) = IF u = job[p].user THEN job[p].amount ELSE 0
    BY <2>1 DEF Steps, Kept
  <2>3. \A u \in User :
          /\ account'[u].journal = account[u].journal
          /\ Available(u)' = Available(u) + (IF u = job[p].user THEN job[p].amount ELSE 0)
    BY <1>1, <1>2, <2>1 DEF Moves, Available
  <2> HIDE DEF OutOf, InOf
  <2> QED
    BY <1>1, <1>2, <2>1, <2>2, <2>3 DEF Steps, Balanced, Available
<1>11. CASE BookPrincipal(p)
  <2>1. /\ Steps(p, AfterPrincipal(job[p])) /\ job[p].step = "bookPrincipal"
        /\ Moves(job[p].user, 0, 0, job[p].amount)
    BY <1>11, BookDoes
  <2>2. Steps(p, "pay") \/ Steps(p, "close")
    BY <2>1 DEF AfterPrincipal
  <2> QED
    BY <1>1, <1>2, <2>1, <2>2 DEF Steps, Kept, Moves, Balanced, Available
<1>12. CASE BookInterest(p)
  <2>1. /\ Steps(p, AfterInterest(job[p])) /\ job[p].step = "bookInterest"
        /\ Moves(job[p].user, 0, 0, Interest(job[p].amount, job[p].interest))
    BY <1>12, BookDoes
  <2>2. Steps(p, "renew") \/ Steps(p, "close")
    BY <2>1 DEF AfterInterest
  <2> QED
    BY <1>1, <1>2, <2>1, <2>2 DEF Steps, Kept, Moves, Balanced, Available
<1>13. CASE PayInterest(p)
  <2>1. /\ Steps(p, "bookInterest") /\ job[p].step = "pay"
        /\ Moves(job[p].user, Interest(job[p].amount, job[p].interest), 0, 0)
    BY <1>13, PayDoes
  <2> QED
    BY <1>1, <1>2, <2>1 DEF Steps, Kept, Moves, Balanced, Available
<1>14. CASE CreateRenewedOrder(p)
  <2>1. Steps(p, "link") /\ job[p].step = "renew" /\ account' = account
    BY <1>14, RenewedDoes DEF CreateRenewedOrder
  <2> QED
    BY <2>1, NothingMoves DEF Steps
<1>15. CASE LinkRenewedOrder(p)
  <2>1. Steps(p, "close") /\ job[p].step = "link" /\ account' = account
    BY <1>15, LinkDoes DEF LinkRenewedOrder
  <2> QED
    BY <2>1, NothingMoves DEF Steps
<1>16. CASE Close(p)
  <2>1. Ends(p) /\ job[p].step = "close" /\ account' = account
    BY <1>16, CloseDoes DEF Close
  <2> QED
    BY <1>3, <2>1, NothingMoves DEF Ends
<1>17. CASE Disturb(p)
  <2>1. faults' > 0
    BY <1>17, CreateFailsDoes, BookDoes, FailDoes DEF Disturb
  <2> QED
    BY <2>1 DEF Undisturbed
<1> QED
  BY <1>4, <1>5, <1>6, <1>7, <1>8, <1>9, <1>10, <1>11, <1>12, <1>13, <1>14, <1>15, <1>16, <1>17,
     <1>18 DEF Advance, Acquires

LEMMA BalancedDaily ==
  ASSUME TypeInv, NEW s \in Scheduler, Daily(s)
  PROVE  \/ job' = job /\ account' = account
         \/ s \in Process /\ Balanced(s)
<1> USE DEF OutOf, InOf
<1>1. NoJob.step = "idle"
  BY DEF NoJob
<1>2. CASE \/ StartRun(s) \/ ListActiveOrders(s) \/ ListExpiredOrders(s)
           \/ ActivateOrder(s) \/ EndRun(s)
  BY <1>2 DEF StartRun, ListActiveOrders, ListExpiredOrders, ActivateOrder, EndRun
<1>3. CASE UpdateInterestAccrued(s)
  <2>1. account' = account
    BY <1>3 DEF UpdateInterestAccrued
  <2>2. \/ job' = job
        \/ Others(s) /\ job'[s].step = "record"
    BY <1>3, AccrueDoes
  <2>3. job[s].step = "idle" /\ s \in Process
    BY <1>1, <1>3, AccrueDoes
  <2> QED
    BY <2>1, <2>2, <2>3, NothingMoves
<1>4. CASE RecordDailyInterest(s)
  <2>1. /\ Ends(s) /\ s \in Process /\ account' = account /\ job[s].step = "record"
    BY <1>4, RecordDoes DEF RecordDailyInterest
  <2> QED
    BY <2>1, NothingMoves DEF Ends, NoJob
<1>5. CASE SettleOrder(s) \/ RenewOrder(s)
  <2>1. account' = account
    BY <1>5 DEF SettleOrder, RenewOrder
  <2>2. \/ job' = job
        \/ Others(s) /\ job'[s].step \in {"unfreeze", "pay", "renew"}
    BY <1>5, RepayDoes
  <2>3. job[s].step = "idle" /\ s \in Process
    BY <1>1, <1>5, RepayDoes
  <2> QED
    BY <2>1, <2>2, <2>3, NothingMoves
<1> QED
  BY <1>2, <1>3, <1>4, <1>5 DEF Daily

LEMMA BalancedServe ==
  ASSUME TypeInv, NEW p \in Call, Serve(p)
  PROVE  p \in Process /\ Balanced(p)
<1> USE DEF OutOf, InOf
<1>3. NoJob.step = "idle"
  BY DEF NoJob
<1>1. CASE \E u \in User, a \in Amount, r \in AutoRenew, t \in Text : Subscribe(p, u, a, r, t)
  <2>2. PICK u \in User, a \in Amount, r \in AutoRenew, t \in Text : Subscribe(p, u, a, r, t)
    BY <1>1
  <2>1. /\ p \in Process /\ job[p].step = "idle" /\ Others(p)
        /\ job'[p].step \in {"getLock", "lock"} /\ account' = account
    BY <1>3, <2>2, SubscribeDoes DEF Subscribe
  <2> QED
    BY <2>1, NothingMoves
<1>2. CASE \E id \in OrderIds : Redeem(p, id)
  <2>1. /\ p \in Process /\ job[p].step = "idle" /\ Others(p)
        /\ job'[p].step = "unfreeze" /\ account' = account
    BY <1>2, <1>3, RedeemDoes DEF Redeem
  <2> QED
    BY <2>1, NothingMoves
<1> QED
  BY <1>1, <1>2 DEF Serve

LEMMA ExplainedNext ==
  ASSUME TypeInv, Undisturbed => Explained, [Next]_vars
  PROVE  Undisturbed' => Explained'
<1> SUFFICES ASSUME Undisturbed' PROVE Explained'
  OBVIOUS
<1>1. Explained /\ TypeInv'
  BY Calmed, TypeNext
<1>2. ASSUME NEW p \in Process, Balanced(p) PROVE Explained'
  BY <1>1, <1>2, ExplainedStep
<1>3. CASE job' = job /\ account' = account
  <2>1. \A u \in User :
          /\ Units(Out(u))' = Units(Out(u)) /\ Units(In(u))' = Units(In(u))
          /\ Total(Out(u))' = Total(Out(u)) /\ Total(In(u))' = Total(In(u))
          /\ Available(u)' = Available(u)
    BY <1>3 DEF Total, Units, Out, In, OutOf, InOf, Available
  <2>2. \A u \in User :
          (/\ IsFiniteSet(Units(Out(u))) /\ IsFiniteSet(Units(In(u)))
           /\ Available(u) + Total(Out(u)) = Opening + account[u].journal + Total(In(u)))'
    BY <1>1, <1>3, <2>1 DEF Explained
  <2> QED
    BY <2>2 DEF Explained
<1>4. CASE Midnight \/ EndMaintenance \/ ChangeProduct \/ LastDay \/ UNCHANGED vars
  <2>1. job' = job /\ account' = account
    BY <1>4 DEF Midnight, EndMaintenance, ChangeProduct, LastDay, vars
  <2> QED
    BY <1>3, <2>1
<1>5. CASE Restart
  <2>1. crashes' > 0
    BY <1>5, RestartDoes
  <2> QED
    BY <2>1 DEF Undisturbed
<1> QED
  BY <1>2, <1>3, <1>4, <1>5, BalancedWork, BalancedDaily, BalancedServe DEF Next, Process

LEMMA ExplainedInit ==
  ASSUME Init
  PROVE  Explained
<1>1. ASSUME NEW u \in User
      PROVE  /\ IsFiniteSet(Units(Out(u))) /\ Total(Out(u)) = 0
             /\ IsFiniteSet(Units(In(u))) /\ Total(In(u)) = 0
  <2>1. /\ Out(u) \in [Process -> Nat] /\ \A p \in Process : Out(u)[p] = 0
        /\ In(u) \in [Process -> Nat] /\ \A p \in Process : In(u)[p] = 0
    BY InitKinds DEF Out, In, OutOf, InOf
  <2> QED
    BY <2>1, TotalZero
<1>2. \A u \in User : Available(u) = Opening /\ account[u].journal = 0
  BY WealthAssumption DEF Init, Available
<1> QED
  BY <1>1, <1>2, WealthAssumption DEF Explained

\* As long as no statement fails and the server is not restarted, the journal
\* explains the available balance of a customer on whose account nothing is under
\* way: for any number of requests and schedulers at work on the same orders, at
\* any hour.
THEOREM JournalExplains == Spec => [](Undisturbed => JournalExplainsBalance)
<1>1. Init => (Undisturbed => Explained)
  BY ExplainedInit
<1>2. TypeInv /\ (Undisturbed => Explained) => (Undisturbed => JournalExplainsBalance)
  <2> SUFFICES ASSUME TypeInv, Explained, NEW u \in User, Quiet(u)
               PROVE  Available(u) = Opening + account[u].journal
    BY DEF JournalExplainsBalance
  <2>1. \A p \in Process : OutOf(u, job[p]) = 0 /\ InOf(u, job[p]) = 0
    BY DEF Quiet, OutOf, InOf
  <2>2. Total(Out(u)) = 0 /\ Total(In(u)) = 0
    <3>1. /\ Out(u) \in [Process -> Nat] /\ \A p \in Process : Out(u)[p] = 0
          /\ In(u) \in [Process -> Nat] /\ \A p \in Process : In(u)[p] = 0
      BY <2>1 DEF Out, In
    <3> QED
      BY <3>1, TotalZero
  <2>3. Available(u) \in Int /\ account[u].journal \in Int /\ Opening \in Int
    <3>1. account[u] \in Account
      BY DEF TypeInv, TypeOK
    <3> QED
      BY <3>1, WealthAssumption DEF Account, Available
  <2> QED
    BY <2>2, <2>3 DEF Explained
<1> QED
  BY <1>1, <1>2, Typed, ExplainedNext, PTL DEF Spec

-----------------------------------------------------------------------------
\* One operation at a time ends an order

\* One process runs the scheduler, its runs are over by 00:01, and the redemptions
\* that began before midnight are over when it starts.
OneScheduler == Prompt /\ \A s, t \in Scheduler : s = t

\* No two redemptions of one order overlap; Redeem takes no lock that would see to it.
OneRedemption == \A p, q \in Call :
  Redeeming(p) /\ Redeeming(q) /\ job[p].order = job[q].order => p = q

\* A run is on only during maintenance, when no redemption is; an order is listed
\* once, and not again while it is worked on; what is listed is still so; and an
\* operation that ends an order works on an open one.
Windows ==
  \A s \in Scheduler :
    /\ job[s] # NoJob => run[s].phase # "idle"
    /\ run[s].phase # "idle" => maintenance /\ \A p \in Call : ~Redeeming(p)
    /\ run[s].phase = "idle" => run[s].todo = {}
ListedOnce ==
  \A s \in Scheduler : \A x \in run[s].todo :
    /\ x.order # job[s].order
    /\ \A y \in run[s].todo : x.order = y.order => x = y
ListedStill ==
  \A s \in Scheduler : \A x \in run[s].todo :
    /\ run[s].phase = "activate" => orders[x.order].status = Pending
    /\ run[s].phase \in {"accrue", "settle"} =>
         orders[x.order].status = Running /\ x.accrued = orders[x.order].accrued
EndsOpen ==
  \A p \in Process :
    /\ job[p].op \in Ending => IsOpen(orders[job[p].order])
    /\ job[p].op \in {"settle", "renew"} => orders[job[p].order].status = Running
Apart == Windows /\ ListedOnce /\ ListedStill /\ EndsOpen

\* The steps of a job other than its last leave the status and the interest of
\* the orders alone.
Works(p) ==
  /\ Others(p) /\ run' = run /\ maintenance' = maintenance
  /\ job[p] # NoJob
  /\ Kept(job[p], job'[p]) \/ job'[p] = NoJob
  /\ \A k \in OrderIds : /\ orders'[k].status = orders[k].status
                         /\ orders'[k].accrued = orders[k].accrued

LEMMA RowsStill ==
  ASSUME TypeInv,
         \/ orders' = orders
         \/ \E i \in OrderIds : /\ Writes(i) /\ orders'[i].status = orders[i].status
                                /\ orders'[i].accrued = orders[i].accrued
         \/ \E p \in Process : /\ job[p].user \in User
                               /\ orders' = Append(orders, NewOrder(job[p]))
  PROVE  \A k \in OrderIds : /\ orders'[k].status = orders[k].status
                             /\ orders'[k].accrued = orders[k].accrued
<1>1. CASE orders' = orders
  BY <1>1
<1>2. ASSUME NEW i \in OrderIds, Writes(i), orders'[i].status = orders[i].status,
             orders'[i].accrued = orders[i].accrued
      PROVE  \A k \in OrderIds : /\ orders'[k].status = orders[k].status
                                 /\ orders'[k].accrued = orders[k].accrued
  BY <1>2 DEF Writes
<1>3. ASSUME NEW p \in Process, job[p].user \in User,
             orders' = Append(orders, NewOrder(job[p]))
      PROVE  \A k \in OrderIds : orders'[k] = orders[k]
  <2>1. NewOrder(job[p]) \in Order
    BY <1>3, JobFields, NewOrderTyped DEF TypeInv
  <2> QED
    BY <1>3, <2>1, RowAppended DEF TypeInv
<1> QED
  BY <1>1, <1>2, <1>3

LEMMA WorkWorks ==
  ASSUME TypeInv, NEW p \in Process, Advance(p) \/ Disturb(p), ~Close(p)
  PROVE  Works(p)
<1>1. ASSUME (\E step : Steps(p, step)) \/ Leaves(p) \/ Ends(p),
             run' = run, maintenance' = maintenance, job[p].step # "idle",
             \/ orders' = orders
             \/ \E i \in OrderIds : /\ Writes(i) /\ orders'[i].status = orders[i].status
                                    /\ orders'[i].accrued = orders[i].accrued
             \/ job[p].user \in User /\ orders' = Append(orders, NewOrder(job[p]))
      PROVE  Works(p)
  <2>1. Others(p) /\ (Kept(job[p], job'[p]) \/ job'[p] = NoJob)
    BY <1>1 DEF Steps, Leaves, Ends
  <2>2. \A k \in OrderIds : /\ orders'[k].status = orders[k].status
                            /\ orders'[k].accrued = orders[k].accrued
    BY <1>1, RowsStill
  <2>3. job[p] # NoJob
    BY <1>1 DEF NoJob
  <2> QED
    BY <1>1, <2>1, <2>2, <2>3 DEF Works
<1>15. CASE Acquires(p)
  BY <1>1, <1>15, AcquireDoes
<1>2. CASE ClearLock(p)
  BY <1>1, <1>2, ClearDoes DEF ClearLock
<1>3. CASE ReadProduct(p) \/ ReadAccount(p)
  <2>1. \E step : Steps(p, step)
    BY <1>3, ReadDoes
  <2> QED
    BY <1>1, <1>3, <2>1 DEF ReadProduct, ReadAccount
<1>4. CASE Freeze(p)
  BY <1>1, <1>4, FreezeDoes DEF Freeze
<1>5. CASE CreateOrder(p)
  BY <1>1, <1>5, CreateDoes DEF CreateOrder, Subscribes
<1>6. CASE UpdateProductSoldQuota(p)
  BY <1>1, <1>6, QuotaDoes DEF UpdateProductSoldQuota
<1>7. CASE BookSubscription(p)
  BY <1>1, <1>7, BookSubscriptionDoes DEF BookSubscription
<1>8. CASE Unfreeze(p)
  BY <1>1, <1>8, UnfreezeDoes DEF Unfreeze, EndsOrder
<1>9. CASE BookPrincipal(p) \/ BookInterest(p) \/ JournalLost(p)
  <2>1. /\ (\E step : Steps(p, step)) /\ job[p].step \in {"bookPrincipal", "bookInterest"}
    BY <1>9, BookDoes
  <2> QED
    BY <1>1, <1>9, <2>1 DEF BookPrincipal, BookInterest, JournalLost
<1>10. CASE PayInterest(p)
  BY <1>1, <1>10, PayDoes DEF PayInterest, EndsOrder
<1>11. CASE CreateRenewedOrder(p)
  BY <1>1, <1>11, RenewedDoes DEF CreateRenewedOrder, EndsOrder
<1>12. CASE LinkRenewedOrder(p)
  BY <1>1, <1>12, LinkDoes DEF LinkRenewedOrder, EndsOrder
<1>13. CASE CreateOrderFails(p)
  BY <1>1, <1>13, CreateFailsDoes DEF CreateOrderFails
<1>14. CASE StatementFails(p)
  BY <1>1, <1>14, FailDoes DEF StatementFails
<1> QED
  BY <1>2, <1>3, <1>4, <1>5, <1>6, <1>7, <1>8, <1>9, <1>10, <1>11, <1>12, <1>13, <1>14, <1>15
     DEF Advance, Disturb, Acquires

\* A listed row, and the row of a job, exist.
LEMMA RowsExist ==
  ASSUME TypeInv
  PROVE  /\ \A s \in Scheduler : \A x \in run[s].todo : x.order \in OrderIds
         /\ \A p \in Process : job[p].op \in Ending => job[p].order \in OrderIds
         /\ \A p \in Process : job[p].op = "redeem" => p \in Call
         /\ \A p \in Process : job[p].op \in {"settle", "renew", "accrue"} => p \in Scheduler
         /\ Call \cap Scheduler = {} /\ NoJob.op = "none" /\ NoJob.order = 0
<1>1. \A p \in Process : Fits(p, job[p])
  BY DEF TypeInv, Jobs
<1>2. NoJob.op = "none" /\ NoJob.order = 0
  BY DEF NoJob
<1> QED
  BY <1>1, <1>2, WealthAssumption
     DEF Fits, Subscribes, EndsOrder, Records, Ending, TypeInv, Lists

LEMMA ApartWork ==
  ASSUME TypeInv, Apart, NEW p \in Process, Works(p)
  PROVE  Apart'
<1> USE RowsExist
<1>1. /\ \A q \in Process \ {p} : job'[q] = job[q]
      /\ \/ job'[p] = NoJob
         \/ job'[p].op = job[p].op /\ job'[p].order = job[p].order
      /\ job[p] # NoJob /\ run' = run /\ maintenance' = maintenance
      /\ \A k \in OrderIds : /\ orders'[k].status = orders[k].status
                             /\ orders'[k].accrued = orders[k].accrued
  BY DEF Works, Others, Kept
<1>2. Windows'
  BY <1>1 DEF Apart, Windows, Redeeming, Process
<1>3. ListedOnce'
  <2>1. \A s \in Scheduler : job'[s].order \in {job[s].order, 0}
    BY <1>1 DEF Process
  <2>2. 0 \notin OrderIds
    BY DEF OrderIds, TypeInv, TypeOK
  <2> QED
    BY <1>1, <2>1, <2>2 DEF Apart, ListedOnce
<1>4. ListedStill'
  BY <1>1 DEF Apart, ListedStill
<1>5. EndsOpen'
  <2>1. ASSUME NEW q \in Process, job'[q].op \in Ending
        PROVE  job'[q].op = job[q].op /\ job'[q].order = job[q].order
    BY <1>1, <2>1 DEF Ending
  <2>2. ASSUME NEW q \in Process, job'[q].op \in Ending
        PROVE  /\ IsOpen(orders'[job'[q].order])
               /\ job'[q].op \in {"settle", "renew"} => orders'[job'[q].order].status = Running
    BY <1>1, <2>1, <2>2 DEF Apart, EndsOpen, IsOpen
  <2> QED
    BY <2>2 DEF EndsOpen, Ending, IsOpen
<1> QED
  BY <1>2, <1>3, <1>4, <1>5 DEF Apart

\* The last step: nobody else works on the order, and it is on no list.
LEMMA ApartClose ==
  ASSUME TypeInv, OneScheduler, OneRedemption, Apart, NEW p \in Process, Close(p)
  PROVE  Apart'
<1> DEFINE i == job[p].order
<1>1. /\ job[p].op \in Ending /\ i \in OrderIds /\ Ends(p)
      /\ \A k \in OrderIds \ {i} : orders'[k] = orders[k]
      /\ run' = run /\ maintenance' = maintenance
  BY CloseDoes DEF Close, EndsOrder, Writes
<1>2. ASSUME NEW q \in Process, q # p, job[q].op \in Ending PROVE job[q].order # i
  <2>1. CASE p \in Call
    <3>1. Redeeming(p)
      BY <1>1, <2>1, RowsExist DEF Ending, Redeeming
    <3>2. \A s \in Scheduler : job[s].op = "none"
      BY <2>1, <3>1, RowsExist DEF Apart, Windows
    <3>3. q \in Call /\ Redeeming(q)
      BY <1>2, <3>2, RowsExist DEF Ending, Redeeming, Process
    <3> QED
      BY <1>2, <2>1, <3>1, <3>3 DEF OneRedemption
  <2>2. CASE p \in Scheduler
    <3>1. job[p] # NoJob
      BY <1>1, RowsExist DEF Ending
    <3>2. \A r \in Call : ~Redeeming(r)
      BY <2>2, <3>1 DEF Apart, Windows
    <3>3. q \in Scheduler
      BY <1>2, <3>2, RowsExist DEF Ending, Redeeming, Process
    <3> QED
      BY <1>2, <2>2, <3>3 DEF OneScheduler
  <2> QED
    BY <2>1, <2>2 DEF Process
<1>3. ASSUME NEW s \in Scheduler, NEW x \in run[s].todo PROVE x.order # i
  <2>1. CASE p \in Call
    <3>1. Redeeming(p)
      BY <1>1, <2>1, RowsExist DEF Ending, Redeeming
    <3> QED
      BY <1>3, <2>1, <3>1 DEF Apart, Windows
  <2>2. CASE p \in Scheduler
    BY <1>3, <2>2 DEF OneScheduler, Apart, ListedOnce
  <2> QED
    BY <2>1, <2>2 DEF Process
<1> HIDE DEF i
<1>4. job'[p] = NoJob /\ \A q \in Process \ {p} : job'[q] = job[q]
  BY <1>1 DEF Ends, Others
<1>5. Windows'
  BY <1>1, <1>4, RowsExist DEF Apart, Windows, Redeeming, Process
<1>6. ListedOnce'
  <2>1. \A s \in Scheduler : job'[s].order \in {job[s].order, 0}
    BY <1>4, RowsExist DEF Process
  <2>2. 0 \notin OrderIds
    BY DEF OrderIds, TypeInv, TypeOK
  <2> QED
    BY <1>1, <2>1, <2>2, RowsExist DEF Apart, ListedOnce
<1>7. ListedStill'
  BY <1>1, <1>3, RowsExist DEF Apart, ListedStill
<1>8. EndsOpen'
  <2>1. ASSUME NEW q \in Process, job'[q].op \in Ending
        PROVE  /\ IsOpen(orders'[job'[q].order])
               /\ job'[q].op \in {"settle", "renew"} => orders'[job'[q].order].status = Running
    <3>1. q # p
      BY <1>4, <2>1, RowsExist DEF Ending
    <3>2. job'[q] = job[q]
      BY <1>4, <3>1
    <3>3. orders'[job[q].order] = orders[job[q].order]
      BY <1>1, <1>2, <2>1, <3>1, <3>2, RowsExist
    <3> QED
      BY <2>1, <3>2, <3>3 DEF Apart, EndsOpen
  <2> QED
    BY <2>1 DEF EndsOpen, Ending
<1> QED
  BY <1>5, <1>6, <1>7, <1>8 DEF Apart

LEMMA ApartServe ==
  ASSUME TypeInv, Apart, NEW p \in Call, Serve(p)
  PROVE  Apart'
<1>1. /\ p \in Process /\ p \notin Scheduler /\ Others(p)
      /\ UNCHANGED <<orders, run, maintenance>>
      /\ \/ job'[p].op = "subscribe"
         \/ /\ job'[p].op = "redeem" /\ job'[p].order \in OrderIds
            /\ IsOpen(orders[job'[p].order]) /\ ~maintenance
  <2>1. p \notin Scheduler
    BY WealthAssumption
  <2>2. CASE \E u \in User, a \in Amount, r \in AutoRenew, t \in Text : Subscribe(p, u, a, r, t)
    <3>1. PICK u \in User, a \in Amount, r \in AutoRenew, t \in Text : Subscribe(p, u, a, r, t)
      BY <2>2
    <3> QED
      BY <2>1, <3>1, SubscribeDoes DEF Subscribe
  <2>3. CASE \E id \in OrderIds : Redeem(p, id)
    <3>1. PICK id \in OrderIds : Redeem(p, id)
      BY <2>3
    <3>2. /\ Others(p) /\ job'[p].op = "redeem" /\ job'[p].order = id
          /\ IsOpen(orders[id]) /\ ~maintenance
      BY <3>1, RedeemDoes DEF Redeem, Redeemable
    <3> QED
      BY <2>1, <3>1, <3>2 DEF Redeem, Process
  <2> QED
    BY <2>2, <2>3 DEF Serve
<1>2. /\ \A q \in Process \ {p} : job'[q] = job[q]
      /\ \A s \in Scheduler : job'[s] = job[s]
  BY <1>1 DEF Others, Process
<1>3. Windows'
  BY <1>1, <1>2 DEF Apart, Windows, Redeeming, Process
<1>4. ListedOnce' /\ ListedStill'
  BY <1>1, <1>2 DEF Apart, ListedOnce, ListedStill
<1>5. EndsOpen'
  BY <1>1, <1>2 DEF Apart, EndsOpen, Ending
<1> QED
  BY <1>3, <1>4, <1>5 DEF Apart

\* What a list loses leaves it in order.
LEMMA ShorterList ==
  ASSUME TypeInv, Apart, NEW s \in Scheduler, OneScheduler,
         Enters(s, run[s].phase, run[s].todo \ {NextListed(s)}), run[s].todo # {}
  PROVE  /\ NextListed(s) \in run[s].todo
         /\ \A t \in Scheduler : /\ run'[t].phase = run[t].phase
                                 /\ run'[t].todo \subseteq run[t].todo
                                 /\ \A x \in run'[t].todo : x.order # NextListed(s).order
<1>1. NextListed(s) \in run[s].todo
  BY NextListedIn
<1>2. \A t \in Scheduler : t = s
  BY DEF OneScheduler
<1>3. run'[s].phase = run[s].phase /\ run'[s].todo = run[s].todo \ {NextListed(s)}
  BY DEF Enters
<1>4. \A x \in run'[s].todo : x.order # NextListed(s).order
  BY <1>1, <1>3 DEF Apart, ListedOnce
<1> QED
  BY <1>1, <1>2, <1>3, <1>4

LEMMA ApartLists ==
  ASSUME TypeInv, OneScheduler, Apart, NEW s \in Scheduler,
         StartRun(s) \/ ListActiveOrders(s) \/ ListExpiredOrders(s)
  PROVE  Apart'
<1>1. PICK phase \in {"activate", "accrue", "settle"}, ids \in SUBSET OrderIds :
        \E todo \in SUBSET List(ids) :
          /\ Enters(s, phase, todo)
          /\ run[s].phase = "idle" => StartRun(s)
          /\ phase = "activate" => \A i \in ids : orders[i].status = Pending
          /\ phase = "accrue" => \A i \in ids : Accrues(orders[i])
          /\ phase = "settle" => \A i \in ids : Matured(orders[i])
  BY ListDoes
<1>2. PICK todo \in SUBSET List(ids) :
        /\ Enters(s, phase, todo)
        /\ run[s].phase = "idle" => StartRun(s)
        /\ phase = "activate" => \A i \in ids : orders[i].status = Pending
        /\ phase \in {"accrue", "settle"} => \A i \in ids : orders[i].status = Running
  BY <1>1 DEF Accrues, Matured
<1>3. /\ \A t \in Scheduler : t = s
      /\ run'[s].phase = phase /\ run'[s].todo = todo
      /\ UNCHANGED <<orders, job, maintenance>> /\ job[s] = NoJob
  BY <1>2 DEF OneScheduler, Enters, StartRun, ListActiveOrders, ListExpiredOrders, Between
<1>4. \A x \in todo : /\ x.order \in ids /\ x.accrued = orders[x.order].accrued
                      /\ \A y \in todo : x.order = y.order => x = y
  BY ListRow
<1>5. maintenance /\ \A p \in Call : ~Redeeming(p)
  BY <1>2, <1>3 DEF StartRun, OneScheduler, Apart, Windows
<1>6. Windows'
  BY <1>3, <1>5 DEF Windows, Redeeming
<1>7. ListedOnce'
  <2>1. \A x \in todo : x.order # 0
    BY <1>4 DEF OrderIds
  <2> QED
    BY <1>3, <1>4, <2>1, RowsExist DEF ListedOnce
<1>8. ListedStill'
  BY <1>2, <1>3, <1>4 DEF ListedStill
<1>9. EndsOpen'
  BY <1>3 DEF Apart, EndsOpen, IsOpen
<1> QED
  BY <1>6, <1>7, <1>8, <1>9 DEF Apart

LEMMA ApartDaily ==
  ASSUME TypeInv, OneScheduler, Apart, NEW s \in Scheduler, Daily(s)
  PROVE  Apart'
<1> DEFINE x == NextListed(s)
<1> USE RowsExist
<1>1. \A t \in Scheduler : t = s
  BY DEF OneScheduler
<1>2. 0 \notin OrderIds
  BY DEF OrderIds, TypeInv, TypeOK
<1>3. CASE ActivateOrder(s)
  <2>1. /\ job[s] = NoJob /\ run[s].phase = "activate" /\ x \in run[s].todo
        /\ job' = job /\ maintenance' = maintenance
        /\ \A k \in OrderIds \ {x.order} : orders'[k] = orders[k]
        /\ \A t \in Scheduler : /\ run'[t].phase = run[t].phase
                                /\ run'[t].todo \subseteq run[t].todo
                                /\ \A y \in run'[t].todo : y.order # x.order
    BY <1>3, ActivateDoes, ShorterList DEF ActivateOrder, Writes
  <2> HIDE DEF x
  <2>2. Windows'
    BY <1>1, <2>1 DEF Apart, Windows, Redeeming
  <2>3. ListedOnce'
    BY <1>1, <2>1 DEF Apart, ListedOnce
  <2>4. ListedStill'
    BY <1>1, <2>1 DEF Apart, ListedStill
  <2>5. \A p \in Process : job[p].op \notin Ending
    <3>1. \A p \in Call : job[p].op # "redeem"
      BY <2>1 DEF Apart, Windows, Redeeming
    <3> QED
      BY <1>1, <2>1, <3>1 DEF Process, Ending
  <2>6. EndsOpen'
    BY <2>1, <2>5 DEF EndsOpen, Ending
  <2> QED
    BY <2>2, <2>3, <2>4, <2>6 DEF Apart
<1>4. CASE UpdateInterestAccrued(s)
  <2>1. /\ s \in Process /\ job[s] = NoJob /\ run[s].phase = "accrue" /\ x \in run[s].todo
        /\ x.order \in OrderIds
        /\ maintenance' = maintenance
        /\ \A k \in OrderIds \ {x.order} : orders'[k] = orders[k]
        /\ orders'[x.order].status = orders[x.order].status
        /\ \/ job' = job
           \/ Others(s) /\ job'[s].op = "accrue" /\ job'[s].order = x.order
        /\ \A t \in Scheduler : /\ run'[t].phase = run[t].phase
                                /\ run'[t].todo \subseteq run[t].todo
                                /\ \A y \in run'[t].todo : y.order # x.order
    <3>1. /\ s \in Process /\ job[s] = NoJob /\ run[s].phase = "accrue" /\ x \in run[s].todo
          /\ x.order \in OrderIds
          /\ \A t \in Scheduler : /\ run'[t].phase = run[t].phase
                                  /\ run'[t].todo \subseteq run[t].todo
                                  /\ \A y \in run'[t].todo : y.order # x.order
      BY <1>4, AccrueDoes, ShorterList
    <3>2. /\ \A k \in OrderIds \ {x.order} : orders'[k] = orders[k]
          /\ orders'[x.order].status = orders[x.order].status
          /\ \/ job' = job
             \/ Others(s) /\ job'[s].op = "accrue" /\ job'[s].order = x.order
      BY <1>4, AccrueDoes DEF Writes
    <3>3. maintenance' = maintenance
      BY <1>4 DEF UpdateInterestAccrued
    <3> QED
      BY <3>1, <3>2, <3>3
  <2> HIDE DEF x
  <2>2. \A q \in Process \ {s} : job'[q] = job[q]
    BY <2>1 DEF Others
  <2>3. Windows'
    BY <1>1, <2>1, <2>2 DEF Apart, Windows, Redeeming, Process
  <2>4. ListedOnce'
    BY <1>1, <2>1 DEF Apart, ListedOnce
  <2>5. ListedStill'
    BY <1>1, <2>1 DEF Apart, ListedStill
  <2>6. EndsOpen'
    <3>1. ASSUME NEW q \in Process PROVE job'[q].op \notin Ending
      <4>1. CASE q = s
        BY <2>1, <4>1 DEF Ending
      <4>2. CASE q # s
        BY <1>1, <2>1, <2>2, <4>2 DEF Apart, Windows, Redeeming, Process, Ending
      <4> QED
        BY <4>1, <4>2
    <3> QED
      BY <3>1 DEF EndsOpen, Ending
  <2> QED
    BY <2>3, <2>4, <2>5, <2>6 DEF Apart
<1>5. CASE RecordDailyInterest(s)
  <2>1. /\ s \in Process /\ Records(s, job[s]) /\ Ends(s) /\ Writes(job[s].order)
        /\ orders'[job[s].order].status = orders[job[s].order].status
        /\ orders'[job[s].order].accrued = orders[job[s].order].accrued
    BY <1>5, RecordDoes
  <2>2. run' = run /\ maintenance' = maintenance
    BY <1>5 DEF RecordDailyInterest
  <2>3. \A k \in OrderIds : /\ orders'[k].status = orders[k].status
                            /\ orders'[k].accrued = orders[k].accrued
    BY <2>1, RowsStill DEF Records
  <2>4. Works(s)
    BY <2>1, <2>2, <2>3 DEF Works, Ends, Records
  <2> QED
    BY <2>1, <2>4, ApartWork
<1>6. CASE SettleOrder(s) \/ RenewOrder(s)
  <2>1. /\ s \in Process /\ job[s] = NoJob /\ run[s].phase = "settle" /\ x \in run[s].todo
        /\ orders' = orders /\ maintenance' = maintenance
        /\ \/ job' = job
           \/ Others(s) /\ job'[s].op \in {"settle", "renew"} /\ job'[s].order = x.order
        /\ \A t \in Scheduler : /\ run'[t].phase = run[t].phase
                                /\ run'[t].todo \subseteq run[t].todo
                                /\ \A y \in run'[t].todo : y.order # x.order
    <3>1. /\ s \in Process /\ job[s] = NoJob /\ run[s].phase = "settle" /\ x \in run[s].todo
          /\ \A t \in Scheduler : /\ run'[t].phase = run[t].phase
                                  /\ run'[t].todo \subseteq run[t].todo
                                  /\ \A y \in run'[t].todo : y.order # x.order
      BY <1>6, RepayDoes, ShorterList
    <3>2. /\ \/ job' = job
             \/ Others(s) /\ job'[s].op \in {"settle", "renew"} /\ job'[s].order = x.order
      BY <1>6, RepayDoes
    <3>3. orders' = orders /\ maintenance' = maintenance
      BY <1>6 DEF SettleOrder, RenewOrder
    <3> QED
      BY <3>1, <3>2, <3>3
  <2> HIDE DEF x
  <2>2. \A q \in Process \ {s} : job'[q] = job[q]
    BY <2>1 DEF Others
  <2>3. Windows'
    BY <1>1, <2>1, <2>2 DEF Apart, Windows, Redeeming, Process
  <2>4. ListedOnce'
    BY <1>1, <2>1 DEF Apart, ListedOnce
  <2>5. ListedStill'
    BY <1>1, <2>1 DEF Apart, ListedStill
  <2>6. orders[x.order].status = Running
    BY <2>1 DEF Apart, ListedStill
  <2>7. EndsOpen'
    <3>1. ASSUME NEW q \in Process
          PROVE  /\ job'[q].op \in Ending => IsOpen(orders[job'[q].order])
                 /\ job'[q].op \in {"settle", "renew"} =>
                      orders[job'[q].order].status = Running
      <4>1. CASE job'[q] = job[q]
        BY <4>1 DEF Apart, EndsOpen
      <4>2. CASE q = s /\ job' # job
        BY <2>1, <2>6, <4>2 DEF Ending, IsOpen
      <4> QED
        BY <2>2, <4>1, <4>2
    <3> QED
      BY <2>1, <3>1 DEF EndsOpen, Ending, IsOpen
  <2> QED
    BY <2>3, <2>4, <2>5, <2>7 DEF Apart
<1>7. CASE EndRun(s)
  <2>1. /\ job[s] = NoJob /\ run'[s].phase = "idle" /\ run'[s].todo = {}
        /\ UNCHANGED <<orders, job, maintenance>>
    BY <1>7, EndRunDoes DEF EndRun, Enters
  <2> QED
    BY <1>1, <2>1 DEF Apart, Windows, ListedOnce, ListedStill, EndsOpen, IsOpen
<1> QED
  BY <1>3, <1>4, <1>5, <1>6, <1>7, ApartLists DEF Daily

LEMMA ApartCalendar ==
  ASSUME TypeInv, OneScheduler, Apart,
         Midnight \/ EndMaintenance \/ ChangeProduct \/ LastDay \/ UNCHANGED vars
  PROVE  Apart'
<1>1. UNCHANGED <<orders, job, run>>
  BY DEF Midnight, EndMaintenance, ChangeProduct, LastDay, vars
<1>2. \A s \in Scheduler : run[s].phase # "idle" => maintenance'
  <2>1. CASE Midnight
    BY <2>1 DEF Midnight
  <2>2. CASE EndMaintenance
    BY <2>2 DEF EndMaintenance, OneScheduler, Between
  <2>3. CASE ChangeProduct \/ LastDay \/ UNCHANGED vars
    BY <2>3 DEF ChangeProduct, LastDay, vars, Apart, Windows
  <2> QED
    BY <2>1, <2>2, <2>3
<1>3. Windows'
  BY <1>1, <1>2 DEF Apart, Windows, Redeeming
<1> QED
  BY <1>1, <1>3 DEF Apart, ListedOnce, ListedStill, EndsOpen, IsOpen

LEMMA ApartRestart ==
  ASSUME TypeInv, Restart
  PROVE  Apart'
<1>1. /\ \A p \in Process : job'[p] = NoJob
      /\ \A s \in Scheduler : run'[s].phase = "idle" /\ run'[s].todo = {}
  BY RestartDoes
<1>2. /\ \A s \in Scheduler : job'[s] = NoJob
      /\ \A p \in Call : job'[p] = NoJob
  BY <1>1 DEF Process
<1>3. Windows' /\ ListedOnce' /\ ListedStill'
  BY <1>1, <1>2 DEF Windows, ListedOnce, ListedStill
<1>4. EndsOpen'
  BY <1>1, RowsExist DEF EndsOpen, Ending
<1> QED
  BY <1>3, <1>4 DEF Apart

LEMMA ApartNext ==
  ASSUME TypeInv, OneScheduler, OneRedemption, Apart, [Next]_vars
  PROVE  Apart'
<1>1. ASSUME NEW p \in Process, Advance(p) \/ Disturb(p) PROVE Apart'
  BY <1>1, WorkWorks, ApartWork, ApartClose
<1> QED
  BY <1>1, ApartServe, ApartDaily, ApartCalendar, ApartRestart DEF Next

LEMMA KeptApart ==
  ASSUME OneScheduler
  PROVE  Spec /\ []OneRedemption => []Apart
<1>1. Init => Apart
  <2> SUFFICES ASSUME Init PROVE Apart
    OBVIOUS
  <2>1. /\ \A p \in Process : job[p] = NoJob
        /\ \A s \in Scheduler : run[s].phase = "idle" /\ run[s].todo = {}
    BY DEF Init
  <2>2. NoJob.op = "none"
    BY DEF NoJob
  <2>3. Windows /\ ListedOnce /\ ListedStill
    BY <2>1 DEF Windows, ListedOnce, ListedStill, Process
  <2>4. EndsOpen
    BY <2>1, <2>2 DEF EndsOpen, Ending
  <2> QED
    BY <2>3, <2>4 DEF Apart
<1>2. TypeInv /\ OneRedemption /\ Apart /\ [Next]_vars => Apart'
  BY ApartNext
<1> QED
  BY <1>1, <1>2, Typed, PTL DEF Spec

LEMMA StatusStays ==
  ASSUME TypeInv, Apart, [Next]_vars, NEW i \in OrderIds, ~IsOpen(orders[i])
  PROVE  orders'[i].status = orders[i].status
<1>1. CASE orders' = orders
  BY <1>1
<1>2. ASSUME NEW p \in Process, Advance(p) \/ Disturb(p)
      PROVE  orders'[i].status = orders[i].status
  <2>1. CASE Close(p)
    <3>1. /\ job[p].op \in Ending
          /\ \A k \in OrderIds \ {job[p].order} : orders'[k] = orders[k]
      BY <2>1, CloseDoes DEF EndsOrder, Writes
    <3>2. IsOpen(orders[job[p].order])
      BY <3>1 DEF Apart, EndsOpen
    <3> QED
      BY <3>1, <3>2
  <2>2. CASE ~Close(p)
    BY <1>2, <2>2, WorkWorks DEF Works
  <2> QED
    BY <2>1, <2>2
<1>3. ASSUME NEW s \in Scheduler, Daily(s)
      PROVE  orders'[i].status = orders[i].status
  <2>1. CASE ActivateOrder(s)
    <3>1. /\ run[s].phase = "activate" /\ NextListed(s) \in run[s].todo
          /\ \/ orders' = orders
             \/ \A k \in OrderIds \ {NextListed(s).order} : orders'[k] = orders[k]
      BY <2>1, ActivateDoes DEF Writes
    <3>2. IsOpen(orders[NextListed(s).order])
      BY <3>1 DEF Apart, ListedStill, IsOpen
    <3> QED
      BY <3>1, <3>2
  <2>2. CASE UpdateInterestAccrued(s)
    BY <2>2, AccrueDoes DEF Writes
  <2>3. CASE RecordDailyInterest(s)
    BY <2>3, RecordDoes DEF Writes
  <2>4. CASE ~ActivateOrder(s) /\ ~UpdateInterestAccrued(s) /\ ~RecordDailyInterest(s)
    BY <1>1, <1>3, <2>4 DEF Daily, StartRun, ListActiveOrders, ListExpiredOrders,
       SettleOrder, RenewOrder, EndRun
  <2> QED
    BY <2>1, <2>2, <2>3, <2>4
<1>4. ASSUME NEW p \in Call, Serve(p) PROVE orders' = orders
  BY <1>4 DEF Serve, Subscribe, Redeem
<1>5. CASE Midnight \/ EndMaintenance \/ ChangeProduct \/ Restart \/ LastDay \/ UNCHANGED vars
  BY <1>1, <1>5 DEF Midnight, EndMaintenance, ChangeProduct, Restart, LastDay, vars
<1> QED
  BY <1>1, <1>2, <1>3, <1>4, <1>5 DEF Next

\* An order that ended keeps its status for good, through statements that fail and
\* restarts, given one scheduler in its window and no two redemptions of one order
\* at a time: no statement looks at the status it overwrites.
THEOREM ClosedStays ==
  ASSUME OneScheduler
  PROVE  Spec /\ []OneRedemption => ClosedStaysClosed
<1>1. TypeInv /\ Apart /\ [Next]_vars =>
        [\A i \in OrderIds : ~IsOpen(orders[i]) => orders'[i].status = orders[i].status]_vars
  BY StatusStays
<1>2. Spec /\ []OneRedemption => []Apart
  BY KeptApart
<1> QED
  BY <1>1, <1>2, Typed, PTL DEF Spec, ClosedStaysClosed

-----------------------------------------------------------------------------
\* What an order gives back and pays

\* Nothing was given back or paid.
Fresh(o) == o.returned = 0 /\ o.payments = 0 /\ o.credited = 0 /\ o.paid = 0

\* How far an operation that ends the order o has come, by the step of its job.
Progress(j, o) ==
  /\ o.returned = IF j.step = "unfreeze" \/ j.op = "renew" THEN 0 ELSE 1
  /\ IF j.step \in {"unfreeze", "bookPrincipal", "pay"}
     THEN o.payments = 0 /\ o.credited = 0
     ELSE o.payments <= 1 /\ o.credited = j.interest
  /\ o.paid = 0 /\ j.paid = 0 /\ j.amount = o.amount /\ j.user = o.user
  /\ \/ j.close = Settled /\ j.interest = o.accrued
     \/ j.close = Redeemed /\ j.interest = 0 /\ j.op = "redeem"

On(j, i) == j.op \in Ending /\ j.order = i

Progresses == \A p \in Process :
  job[p].op \in Ending => Progress(job[p], orders[job[p].order])
Untouched == \A i \in OrderIds :
  IsOpen(orders[i]) /\ (\A p \in Process : ~On(job[p], i)) => Fresh(orders[i])

\* What an order that ended was paid is what it had accrued and was recorded.
Accounted(o) ==
  /\ o.returned <= 1 /\ o.payments <= 1
  /\ o.status = Redeemed => o.credited = 0
  /\ o.status = Settled => o.recorded = o.paid /\ o.credited = o.paid
Ended == \A i \in OrderIds : ~IsOpen(orders[i]) => Accounted(orders[i])

\* The interest of an order, and what a list would make it, is of days that were;
\* a list never takes interest back.
Elapsed ==
  /\ \A i \in OrderIds : orders[i].accrued = 0 \/ orders[i].accrued + orders[i].start <= day
  /\ \A s \in Scheduler : \A x \in run[s].todo :
       x.days + orders[x.order].start <= day /\ x.accrued <= x.days

\* The daily records are behind the interest by what is being recorded.
Recording(j, i) == j.step = "record" /\ j.order = i
Recorded ==
  /\ \A s \in Scheduler : job[s].step = "record" =>
       LET o == orders[job[s].order] IN IsOpen(o) /\ o.recorded + job[s].interest = o.accrued
  /\ \A i \in OrderIds : IsOpen(orders[i]) /\ (\A s \in Scheduler : ~Recording(job[s], i)) =>
       orders[i].recorded = orders[i].accrued

Ledger == Progresses /\ Untouched /\ Ended /\ Elapsed /\ Recorded

\* Two operations that end orders are about two orders, and none runs while the
\* scheduler writes a daily record.
LEMMA Alone ==
  ASSUME TypeInv, OneScheduler, OneRedemption, Apart,
         NEW p \in Process, NEW q \in Process, p # q, job[p].op \in Ending, job[q].op \in Ending
  PROVE  job[p].order # job[q].order
<1> USE RowsExist
<1>1. CASE p \in Call /\ q \in Call
  BY <1>1 DEF OneRedemption, Redeeming, Ending
<1>2. CASE p \in Scheduler /\ q \in Scheduler
  BY <1>2 DEF OneScheduler
<1>3. ASSUME NEW s \in Scheduler, NEW c \in Call, job[s].op \in Ending, job[c].op \in Ending
      PROVE  FALSE
  <2>1. c \in Process /\ Redeeming(c) /\ job[s] # NoJob
    BY <1>3 DEF Ending, Redeeming, Process
  <2> QED
    BY <2>1 DEF Apart, Windows
<1> QED
  BY <1>1, <1>2, <1>3 DEF Process

LEMMA NobodyEnds ==
  ASSUME TypeInv, OneScheduler, Apart, NEW s \in Scheduler, run[s].phase # "idle",
         job[s].op \notin Ending
  PROVE  \A q \in Process : job[q].op \notin Ending
<1>1. \A c \in Call : ~Redeeming(c)
  BY DEF Apart, Windows
<1>2. \A t \in Scheduler : t = s
  BY DEF OneScheduler
<1> QED
  BY <1>1, <1>2, RowsExist DEF Process, Ending, Redeeming

LEMMA Added ==
  ASSUME TypeInv, NEW p \in Process, job[p].user \in User,
         orders' = Append(orders, NewOrder(job[p]))
  PROVE  LET n == Len(orders) + 1 IN
         /\ n \notin OrderIds /\ OrderIds' = OrderIds \cup {n}
         /\ \A k \in OrderIds : orders'[k] = orders[k]
         /\ Fresh(orders'[n]) /\ IsOpen(orders'[n]) /\ orders'[n].accrued = 0
         /\ orders'[n].recorded = 0
         /\ orders'[n].user = job[p].user /\ orders'[n].amount = job[p].amount
<1> DEFINE n == Len(orders) + 1
<1>1. NewOrder(job[p]) \in Order
  BY JobFields, NewOrderTyped DEF TypeInv
<1>2. /\ Len(orders') = n /\ orders'[n] = NewOrder(job[p])
      /\ \A k \in OrderIds : orders'[k] = orders[k]
  BY <1>1, RowAppended DEF TypeInv
<1>3. Len(orders) \in Nat
  BY DEF TypeInv, TypeOK
<1>4. n \notin OrderIds /\ OrderIds' = OrderIds \cup {n}
  BY <1>2, <1>3 DEF OrderIds
<1>5. LET o == NewOrder(job[p]) IN
      /\ Fresh(o) /\ IsOpen(o) /\ o.accrued = 0 /\ o.recorded = 0
      /\ o.user = job[p].user /\ o.amount = job[p].amount
  BY DEF NewOrder, Fresh, IsOpen
<1> QED
  BY <1>2, <1>4, <1>5

\* A job that changes no order but its own, which it takes one step on, or adds one.
LEMMA LedgerWork ==
  ASSUME TypeInv, OneScheduler, OneRedemption, Apart, Ledger,
         NEW p \in Process, Others(p), run' = run, day' = day,
         job[p].step # "record", job'[p].step # "record",
         \/ job'[p].op = job[p].op /\ job'[p].order = job[p].order
         \/ job'[p] = NoJob /\ job[p].op \notin Ending,
         OrderIds \subseteq OrderIds',
         \A k \in OrderIds : ~On(job[p], k) => orders'[k] = orders[k],
         \A k \in OrderIds : On(job[p], k) =>
           /\ Progress(job'[p], orders'[k])
           /\ orders'[k].status = orders[k].status /\ orders'[k].accrued = orders[k].accrued
           /\ orders'[k].recorded = orders[k].recorded /\ orders'[k].start = orders[k].start,
         \A k \in OrderIds' \ OrderIds :
           /\ Fresh(orders'[k]) /\ IsOpen(orders'[k])
           /\ orders'[k].accrued = 0 /\ orders'[k].recorded = 0
  PROVE  Ledger'
<1> USE RowsExist
<1>1. /\ \A q \in Process \ {p} : job'[q] = job[q]
      /\ \A q \in Process : /\ job'[q].op \in Ending <=> job[q].op \in Ending
                            /\ job'[q].op \in Ending => job'[q].order = job[q].order
      /\ \A s \in Scheduler : job'[s].step = "record" => s # p /\ job'[s] = job[s]
      /\ \A s \in Scheduler : job[s].step = "record" => s # p /\ job'[s] = job[s]
  BY DEF Others, Ending, Process
<1>2. ASSUME NEW k \in OrderIds
      PROVE  /\ orders'[k].status = orders[k].status /\ orders'[k].accrued = orders[k].accrued
             /\ orders'[k].recorded = orders[k].recorded /\ orders'[k].start = orders[k].start
             /\ IsOpen(orders'[k]) <=> IsOpen(orders[k])
  BY <1>2 DEF IsOpen
<1>3. Progresses'
  <2>1. ASSUME NEW q \in Process, job'[q].op \in Ending
        PROVE  Progress(job'[q], orders'[job'[q].order])
    <3>1. job[q].op \in Ending /\ job'[q].order = job[q].order /\ job[q].order \in OrderIds
      BY <1>1, <2>1
    <3>2. CASE q = p
      BY <3>1, <3>2 DEF On
    <3>3. CASE q # p
      <4>1. ~On(job[p], job[q].order)
        BY <3>1, <3>3, Alone DEF On
      <4>2. orders'[job[q].order] = orders[job[q].order] /\ job'[q] = job[q]
        BY <1>1, <3>1, <3>3, <4>1
      <4> QED
        BY <3>1, <4>2 DEF Ledger, Progresses
    <3> QED
      BY <3>2, <3>3
  <2> QED
    BY <2>1 DEF Progresses, Progress
<1>4. Untouched'
  <2>1. ASSUME NEW i \in OrderIds', IsOpen(orders'[i]),
               \A q \in Process : ~On(job'[q], i)
        PROVE  Fresh(orders'[i])
    <3>1. CASE i \in OrderIds
      <4>1. \A q \in Process : ~On(job[q], i)
        BY <1>1, <2>1 DEF On
      <4>2. orders'[i] = orders[i]
        BY <3>1, <4>1
      <4> QED
        BY <2>1, <3>1, <4>1, <4>2 DEF Ledger, Untouched
    <3>2. CASE i \notin OrderIds
      BY <2>1, <3>2
    <3> QED
      BY <3>1, <3>2
  <2> QED
    BY <2>1 DEF Untouched, On, Fresh, IsOpen
<1>5. Ended'
  <2>1. ASSUME NEW i \in OrderIds', ~IsOpen(orders'[i]) PROVE Accounted(orders'[i])
    <3>1. i \in OrderIds /\ ~IsOpen(orders[i])
      BY <1>2, <2>1
    <3>2. ~On(job[p], i)
      BY <3>1 DEF On, Apart, EndsOpen
    <3> QED
      BY <3>1, <3>2 DEF Ledger, Ended
  <2> QED
    BY <2>1 DEF Ended, Accounted, IsOpen
<1>6. Elapsed'
  BY <1>2 DEF Ledger, Elapsed
<1>7. Recorded'
  <2>1. ASSUME NEW s \in Scheduler, job'[s].step = "record"
        PROVE  LET o == orders'[job'[s].order] IN
               IsOpen(o) /\ o.recorded + job'[s].interest = o.accrued
    <3>1. job'[s] = job[s] /\ job[s].order \in OrderIds
      BY <1>1, <2>1, AtStep DEF Process, Records
    <3> QED
      BY <1>2, <2>1, <3>1 DEF Ledger, Recorded
  <2>2. ASSUME NEW i \in OrderIds', IsOpen(orders'[i]),
               \A s \in Scheduler : ~Recording(job'[s], i)
        PROVE  orders'[i].recorded = orders'[i].accrued
    <3>1. CASE i \in OrderIds
      <4>1. \A s \in Scheduler : ~Recording(job[s], i)
        BY <1>1, <2>2 DEF Recording
      <4> QED
        BY <1>2, <2>2, <3>1, <4>1 DEF Ledger, Recorded
    <3>2. CASE i \notin OrderIds
      BY <2>2, <3>2
    <3> QED
      BY <3>1, <3>2
  <2> QED
    BY <2>1, <2>2 DEF Recorded, Recording, IsOpen
<1> QED
  BY <1>3, <1>4, <1>5, <1>6, <1>7 DEF Ledger

\* The steps of a subscription are about no order that exists; those of an operation
\* that ends an order, other than the last, are about that order.
LEMMA LedgerSubscribes ==
  ASSUME TypeInv, OneScheduler, OneRedemption, Apart, Ledger,
         NEW p \in Process, Subscribes(p, job[p]), run' = run, day' = day,
         \/ \E step \in Placed : Steps(p, step)
         \/ Ends(p),
         orders' = orders \/ orders' = Append(orders, NewOrder(job[p]))
  PROVE  Ledger'
<1>1. /\ Others(p) /\ job[p].step # "record" /\ job'[p].step # "record"
      /\ job[p].op \notin Ending
      /\ \/ job'[p].op = job[p].op /\ job'[p].order = job[p].order
         \/ job'[p] = NoJob
  BY DEF Subscribes, Steps, Ends, Kept, Placed, Ending, NoJob
<1>2. CASE orders' = orders
  <2>1. OrderIds' = OrderIds
    BY <1>2 DEF OrderIds
  <2> QED
    BY <1>1, <1>2, <2>1, LedgerWork DEF On
<1>3. CASE orders' = Append(orders, NewOrder(job[p]))
  <2>1. job[p].user \in User
    BY DEF Subscribes
  <2> QED
    BY <1>1, <1>3, <2>1, Added, LedgerWork DEF On
<1> QED
  BY <1>2, <1>3

LEMMA LedgerEnds ==
  ASSUME TypeInv, OneScheduler, OneRedemption, Apart, Ledger,
         NEW p \in Process, EndsOrder(p, job[p]), run' = run, day' = day,
         NEW step \in Step \ {"record"}, Steps(p, step),
         LET i == job[p].order IN
         /\ Progress(job'[p], orders'[i])
         /\ \/ orders' = orders
            \/ orders' = Append(orders, NewOrder(job[p]))
            \/ /\ Writes(i) /\ orders'[i].status = orders[i].status
               /\ orders'[i].accrued = orders[i].accrued
               /\ orders'[i].recorded = orders[i].recorded
  PROVE  Ledger'
<1> DEFINE i == job[p].order
<1>1. /\ Others(p) /\ job[p].step # "record" /\ job'[p].step # "record"
      /\ job'[p].op = job[p].op /\ job'[p].order = job[p].order
      /\ i \in OrderIds /\ job[p].user \in User
      /\ \A k \in OrderIds : On(job[p], k) <=> k = i
  BY DEF EndsOrder, Steps, Kept, Returning, Renewing, On
<1>2. CASE orders' = orders
  <2>1. OrderIds' = OrderIds
    BY <1>2 DEF OrderIds
  <2> QED
    BY <1>1, <1>2, <2>1, LedgerWork
<1>3. CASE orders' = Append(orders, NewOrder(job[p]))
  <2>1. \A k \in OrderIds : orders'[k] = orders[k]
    BY <1>1, <1>3, Added
  <2>2. \A k \in OrderIds' \ OrderIds : /\ Fresh(orders'[k]) /\ IsOpen(orders'[k])
                                        /\ orders'[k].accrued = 0 /\ orders'[k].recorded = 0
    BY <1>1, <1>3, Added
  <2>3. OrderIds \subseteq OrderIds'
    BY <1>1, <1>3, Added
  <2> QED
    BY <1>1, <2>1, <2>2, <2>3, LedgerWork
<1>4. CASE /\ Writes(i) /\ orders'[i].status = orders[i].status
           /\ orders'[i].accrued = orders[i].accrued
           /\ orders'[i].recorded = orders[i].recorded
  <2>1. OrderIds' = OrderIds
    BY <1>4 DEF OrderIds, Writes
  <2>2. \A k \in OrderIds : k # i => orders'[k] = orders[k]
    BY <1>4 DEF Writes
  <2>3. orders'[i].start = orders[i].start
    BY <1>4 DEF Writes
  <2> HIDE DEF i
  <2> QED
    BY <1>1, <1>4, <2>1, <2>2, <2>3, LedgerWork DEF i
<1> QED
  BY <1>2, <1>3, <1>4

LEMMA LedgerAdvance ==
  ASSUME TypeInv, OneScheduler, OneRedemption, Apart, Ledger,
         NEW p \in Process, Advance(p), ~Close(p)
  PROVE  Ledger'
<1> DEFINE i == job[p].order
<1>1. run' = run /\ day' = day
  BY DEF Advance, MakeMutex, Lock, Mark, ClearLock, ReadProduct, ReadAccount, Freeze, CreateOrder,
         UpdateProductSoldQuota, BookSubscription, Unfreeze, BookPrincipal, PayInterest,
         BookInterest, CreateRenewedOrder, LinkRenewedOrder
<1>10. CASE Acquires(p)
  <2>1. Subscribes(p, job[p]) /\ orders' = orders
    BY <1>10, AcquireDoes
  <2>2. \E step \in Placed : Steps(p, step)
    BY <1>10, AcquireDoes DEF Placed
  <2> QED
    BY <1>1, <2>1, <2>2, LedgerSubscribes
<1>2. CASE \/ ClearLock(p) \/ ReadProduct(p) \/ ReadAccount(p) \/ Freeze(p) \/ CreateOrder(p)
           \/ UpdateProductSoldQuota(p) \/ BookSubscription(p)
  <2>1. Subscribes(p, job[p])
    BY <1>2, AtStep DEF ClearLock, ReadProduct, ReadAccount, Freeze, CreateOrder,
         UpdateProductSoldQuota, BookSubscription
  <2>2. orders' = orders \/ orders' = Append(orders, NewOrder(job[p]))
    BY <1>2 DEF ClearLock, ReadProduct, ReadAccount, Freeze, CreateOrder,
         UpdateProductSoldQuota, BookSubscription
  <2>3. (\E step \in Placed : Steps(p, step)) \/ Ends(p)
    <3>1. {"account", "freeze", "create", "quota", "book", "clear"} \subseteq Placed
      BY DEF Placed
    <3> QED
      BY <1>2, <3>1, ClearDoes, ReadDoes, FreezeDoes, CreateDoes, QuotaDoes, BookSubscriptionDoes
  <2> QED
    BY <1>1, <2>1, <2>2, <2>3, LedgerSubscribes
<1>3. ASSUME EndsOrder(p, job[p])
      PROVE  /\ Progress(job[p], orders[i]) /\ i \in OrderIds
             /\ orders[i].returned \in Nat /\ orders[i].payments \in Nat
             /\ orders[i].credited \in Nat /\ job[p].interest \in Nat
  BY <1>3, OrderFields, EndsFacts DEF Ledger, Progresses, EndsOrder, TypeInv
<1>4. {"unfreeze", "bookPrincipal", "pay", "bookInterest", "renew", "link", "close"}
        \subseteq Step \ {"record"}
  BY DEF Step
<1>5. CASE Unfreeze(p)
  <2>1. EndsOrder(p, job[p]) /\ job[p].step = "unfreeze" /\ Steps(p, "bookPrincipal")
    BY <1>5, UnfreezeDoes DEF Unfreeze
  <2>2. Progress(job'[p], orders'[i])
    BY <1>3, <1>5, <2>1, UnfreezeDoes DEF Progress, Steps, Kept, Writes
  <2> QED
    BY <1>1, <1>4, <1>5, <2>1, <2>2, UnfreezeDoes, LedgerEnds
<1>6. CASE BookPrincipal(p) \/ BookInterest(p)
  <2>1. EndsOrder(p, job[p]) /\ orders' = orders
    BY <1>6, BookDoes DEF BookPrincipal, BookInterest
  <2>2. \/ /\ job[p].step = "bookPrincipal" /\ job[p].op # "renew"
           /\ Steps(p, AfterPrincipal(job[p]))
        \/ job[p].step = "bookInterest" /\ Steps(p, AfterInterest(job[p]))
    BY <1>6, BookDoes
  <2>3. PICK step \in Step \ {"record"} : /\ Steps(p, step) /\ Progress(job'[p], orders'[i])
    <3>1. CASE job[p].step = "bookPrincipal" /\ job[p].interest > 0
      <4>1. Steps(p, "pay") /\ job[p].op # "renew"
        BY <2>2, <3>1 DEF AfterPrincipal
      <4> QED
        BY <1>3, <1>4, <2>1, <3>1, <4>1 DEF Progress, Steps, Kept
    <3>2. CASE job[p].step = "bookPrincipal" /\ ~(job[p].interest > 0)
      <4>1. Steps(p, "close") /\ job[p].op # "renew"
        BY <2>2, <3>2 DEF AfterPrincipal
      <4> QED
        BY <1>3, <1>4, <2>1, <3>2, <4>1 DEF Progress, Steps, Kept
    <3>3. CASE job[p].step = "bookInterest"
      <4>1. PICK step \in {"renew", "close"} : Steps(p, step)
        BY <2>2, <3>3 DEF AfterInterest
      <4> QED
        BY <1>3, <1>4, <2>1, <3>3, <4>1 DEF Progress, Steps, Kept
    <3> QED
      BY <2>2, <3>1, <3>2, <3>3
  <2> QED
    BY <1>1, <2>1, <2>3, LedgerEnds
<1>7. CASE PayInterest(p)
  <2>1. EndsOrder(p, job[p]) /\ job[p].step = "pay" /\ Steps(p, "bookInterest")
    BY <1>7, PayDoes
  <2>2. Progress(job'[p], orders'[i])
    BY <1>3, <1>7, <2>1, PayDoes DEF Progress, Steps, Kept, Writes
  <2> QED
    BY <1>1, <1>4, <1>7, <2>1, <2>2, PayDoes, LedgerEnds
<1>8. CASE CreateRenewedOrder(p)
  <2>1. /\ EndsOrder(p, job[p]) /\ job[p].step = "renew" /\ Steps(p, "link")
        /\ orders' = Append(orders, NewOrder(job[p]))
    BY <1>8, RenewedDoes
  <2>2. orders'[i] = orders[i]
    BY <1>3, <2>1, Added DEF EndsOrder
  <2>3. Progress(job'[p], orders'[i])
    BY <1>3, <2>1, <2>2 DEF Progress, Steps, Kept
  <2> QED
    BY <1>1, <1>4, <2>1, <2>3, LedgerEnds
<1>9. CASE LinkRenewedOrder(p)
  <2>1. EndsOrder(p, job[p]) /\ job[p].step = "link" /\ Steps(p, "close")
    BY <1>9, LinkDoes
  <2>2. Progress(job'[p], orders'[i])
    BY <1>3, <1>9, <2>1, LinkDoes DEF Progress, Steps, Kept, Writes, SameCounts
  <2>3. /\ Writes(i) /\ orders'[i].status = orders[i].status
        /\ orders'[i].accrued = orders[i].accrued /\ orders'[i].recorded = orders[i].recorded
    BY <1>9, LinkDoes DEF SameCounts
  <2> QED
    BY <1>1, <1>4, <2>1, <2>2, <2>3, LedgerEnds
<1> QED
  BY <1>2, <1>5, <1>6, <1>7, <1>8, <1>9, <1>10 DEF Advance, Acquires

\* The last step: what was paid is what had accrued, and all of it was recorded.
LEMMA LedgerClose ==
  ASSUME TypeInv, OneScheduler, OneRedemption, Apart, Ledger, NEW p \in Process, Close(p)
  PROVE  Ledger'
<1> USE RowsExist
<1> DEFINE i == job[p].order
<1>1. /\ EndsOrder(p, job[p]) /\ job[p].op \in Ending /\ job[p].step = "close" /\ Ends(p)
      /\ i \in OrderIds /\ Writes(i) /\ SameCounts(i) /\ orders'[i].accrued = 0
      /\ run' = run /\ day' = day /\ OrderIds' = OrderIds
  BY CloseDoes DEF Close, EndsOrder, Writes, OrderIds
<1>2. /\ orders[i].paid \in Nat /\ orders[i].recorded \in Nat /\ orders[i].credited \in Nat
      /\ job[p].interest \in Nat
  BY <1>1, OrderFields, EndsFacts DEF TypeInv
<1>3. Progress(job[p], orders[i])
  BY <1>1 DEF Ledger, Progresses
<1>4. /\ orders'[i].status = IF job[p].op = "redeem" THEN job[p].close ELSE Settled
      /\ orders'[i].paid = IF job[p].op # "redeem" THEN orders[i].paid + job[p].interest
                           ELSE IF job[p].interest > 0 THEN job[p].interest ELSE job[p].paid
  BY CloseDoes
<1>5. orders[i].recorded = orders[i].accrued
  <2>1. IsOpen(orders[i])
    BY <1>1 DEF Apart, EndsOpen
  <2>2. \A s \in Scheduler : job[s].step # "record"
    <3>1. ASSUME NEW s \in Scheduler, job[s].step = "record" PROVE FALSE
      <4>1. s \in Process /\ job[s].op = "accrue" /\ job[s] # NoJob
        BY <3>1, AtStep DEF Process, Records, NoJob
      <4>2. run[s].phase # "idle" /\ job[s].op \notin Ending
        BY <4>1 DEF Apart, Windows, Ending
      <4> QED
        BY <1>1, <4>2, NobodyEnds
    <3> QED
      BY <3>1
  <2> QED
    BY <1>1, <2>1, <2>2 DEF Ledger, Recorded, Recording
<1>6. orders'[i].paid = job[p].interest
  BY <1>2, <1>3, <1>4 DEF Progress
<1>7. ~IsOpen(orders'[i]) /\ Accounted(orders'[i])
  <2>1. orders'[i].status \in {Settled, Redeemed}
    BY <1>3, <1>4 DEF Progress
  <2>2. ~IsOpen(orders'[i])
    BY <2>1 DEF IsOpen, Settled, Redeemed, Pending, Running
  <2>3. orders'[i].status = Redeemed => orders'[i].credited = 0
    BY <1>1, <1>3, <1>4 DEF Progress, SameCounts, Settled, Redeemed
  <2>4. orders'[i].status = Settled =>
          orders'[i].recorded = orders'[i].paid /\ orders'[i].credited = orders'[i].paid
    BY <1>1, <1>3, <1>4, <1>5, <1>6 DEF Progress, SameCounts, Settled, Redeemed
  <2>5. orders'[i].returned <= 1 /\ orders'[i].payments <= 1
    BY <1>1, <1>3 DEF Progress, SameCounts
  <2> QED
    BY <2>2, <2>3, <2>4, <2>5 DEF Accounted
<1>8. /\ \A k \in OrderIds \ {i} : orders'[k] = orders[k]
      /\ job'[p] = NoJob /\ \A q \in Process \ {p} : job'[q] = job[q]
      /\ NoJob.step # "record" /\ orders'[i].start = orders[i].start
      /\ \A q \in Process : q # p /\ job[q].op \in Ending => job[q].order # i
  BY <1>1, Alone DEF Writes, Ends, Others, NoJob
<1> HIDE DEF i
<1>9. Progresses'
  <2>1. ASSUME NEW q \in Process, job'[q].op \in Ending
        PROVE  Progress(job'[q], orders'[job'[q].order])
    <3>1. q # p /\ job'[q] = job[q]
      BY <1>8, <2>1 DEF Ending
    <3>2. orders'[job[q].order] = orders[job[q].order]
      BY <1>8, <2>1, <3>1
    <3> QED
      BY <2>1, <3>1, <3>2 DEF Ledger, Progresses
  <2> QED
    BY <2>1 DEF Progresses, Progress
<1>10. Untouched'
  <2>1. ASSUME NEW k \in OrderIds', IsOpen(orders'[k]), \A q \in Process : ~On(job'[q], k)
        PROVE  Fresh(orders'[k])
    <3>1. k \in OrderIds /\ k # i /\ orders'[k] = orders[k]
      BY <1>1, <1>7, <1>8, <2>1
    <3>2. \A q \in Process : ~On(job[q], k)
      BY <1>8, <2>1, <3>1 DEF On, i
    <3> QED
      BY <2>1, <3>1, <3>2 DEF Ledger, Untouched
  <2> QED
    BY <2>1 DEF Untouched, On, Fresh, IsOpen
<1>11. Ended'
  <2>1. ASSUME NEW k \in OrderIds', ~IsOpen(orders'[k]) PROVE Accounted(orders'[k])
    BY <1>1, <1>7, <1>8, <2>1 DEF Ledger, Ended
  <2> QED
    BY <2>1 DEF Ended, Accounted, IsOpen
<1>12. Elapsed'
  <2>1. \A k \in OrderIds' : orders'[k].start = orders[k].start
                             /\ orders'[k].accrued \in {0, orders[k].accrued}
    BY <1>1, <1>8
  <2> QED
    BY <1>1, <2>1 DEF Ledger, Elapsed
<1>13. Recorded'
  <2>1. \A s \in Scheduler : job'[s].step = "record" =>
          s # p /\ job'[s] = job[s] /\ job[s].order # i
    <3>1. ASSUME NEW s \in Scheduler, job'[s].step = "record"
          PROVE  s # p /\ job'[s] = job[s] /\ job[s].order # i
      <4>1. s \in Process /\ s # p /\ job'[s] = job[s]
        BY <1>8, <3>1 DEF Process
      <4>2. job[s].op = "accrue" /\ job[s] # NoJob
        BY <3>1, <4>1, AtStep DEF Records
      <4>3. run[s].phase # "idle" /\ job[s].op \notin Ending
        BY <4>2 DEF Apart, Windows, Ending
      <4> QED
        BY <1>1, <4>3, NobodyEnds
    <3> QED
      BY <3>1
  <2>2. ASSUME NEW s \in Scheduler, job'[s].step = "record"
        PROVE  LET o == orders'[job'[s].order] IN
               IsOpen(o) /\ o.recorded + job'[s].interest = o.accrued
    <3>1. job'[s] = job[s] /\ job[s].order # i /\ job[s].order \in OrderIds
      BY <2>1, <2>2, AtStep DEF Process, Records
    <3> QED
      BY <1>8, <2>2, <3>1 DEF Ledger, Recorded
  <2>3. ASSUME NEW k \in OrderIds', IsOpen(orders'[k]), \A s \in Scheduler : ~Recording(job'[s], k)
        PROVE  orders'[k].recorded = orders'[k].accrued
    <3>1. k \in OrderIds /\ k # i /\ orders'[k] = orders[k]
      BY <1>1, <1>7, <1>8, <2>3
    <3>2. \A s \in Scheduler : ~Recording(job[s], k)
      BY <1>1, <1>8, <2>3 DEF Recording, Process
    <3> QED
      BY <2>3, <3>1, <3>2 DEF Ledger, Recorded
  <2> QED
    BY <2>2, <2>3 DEF Recorded, Recording, IsOpen
<1> QED
  BY <1>9, <1>10, <1>11, <1>12, <1>13 DEF Ledger

\* A job begins, and takes its order over as it was left: untouched.
LEMMA LedgerBegins ==
  ASSUME TypeInv, Ledger, NEW p \in Process, Others(p), job[p] = NoJob,
         orders' = orders, day' = day, \A s \in Scheduler : run'[s].todo \subseteq run[s].todo,
         job'[p].step # "record",
         job'[p].op \in Ending => Progress(job'[p], orders[job'[p].order])
  PROVE  Ledger'
<1>1. /\ \A q \in Process \ {p} : job'[q] = job[q]
      /\ job[p].op = "none" /\ job[p].step # "record"
      /\ \A s \in Scheduler : job'[s].step = "record" => job'[s] = job[s]
      /\ \A s \in Scheduler : job[s].step = "record" => job'[s] = job[s]
      /\ OrderIds' = OrderIds
  BY DEF Others, NoJob, Process, OrderIds
<1>2. Progresses'
  <2>1. ASSUME NEW q \in Process, job'[q].op \in Ending
        PROVE  Progress(job'[q], orders'[job'[q].order])
    <3>1. CASE q = p
      BY <2>1, <3>1
    <3>2. CASE q # p
      BY <1>1, <2>1, <3>2 DEF Ledger, Progresses
    <3> QED
      BY <3>1, <3>2
  <2> QED
    BY <2>1 DEF Progresses, Progress
<1>3. Untouched'
  <2>1. ASSUME NEW i \in OrderIds, IsOpen(orders[i]), \A q \in Process : ~On(job'[q], i)
        PROVE  Fresh(orders[i])
    <3>1. \A q \in Process : ~On(job[q], i)
      BY <1>1, <2>1 DEF On, Ending
    <3> QED
      BY <2>1, <3>1 DEF Ledger, Untouched
  <2> QED
    BY <1>1, <2>1 DEF Untouched, On, Fresh, IsOpen
<1>4. Ended'
  BY <1>1 DEF Ledger, Ended, Accounted, IsOpen
<1>5. Elapsed'
  BY <1>1 DEF Ledger, Elapsed
<1>6. Recorded'
  BY <1>1 DEF Ledger, Recorded, Recording, IsOpen
<1> QED
  BY <1>2, <1>3, <1>4, <1>5, <1>6 DEF Ledger

LEMMA LedgerServe ==
  ASSUME TypeInv, OneRedemption', Apart, Ledger, NEW p \in Call, Serve(p)
  PROVE  Ledger'
<1> USE RowsExist
<1>1. CASE \E u \in User, a \in Amount, r \in AutoRenew, t \in Text : Subscribe(p, u, a, r, t)
  <2>1. /\ p \in Process /\ job[p] = NoJob /\ Others(p) /\ job'[p].op = "subscribe"
        /\ job'[p].step \in {"getLock", "lock"}
    BY <1>1, SubscribeDoes
  <2>2. UNCHANGED <<orders, day, run>>
    BY <1>1 DEF Subscribe
  <2> QED
    BY <2>1, <2>2, LedgerBegins DEF Ending
<1>2. ASSUME NEW id \in OrderIds, Redeem(p, id)
      PROVE  Ledger'
  <2>1. /\ p \in Process /\ job[p] = NoJob /\ Others(p) /\ IsOpen(orders[id]) /\ ~maintenance
        /\ job'[p].op = "redeem" /\ job'[p].step = "unfreeze" /\ job'[p].order = id
        /\ job'[p].user = orders[id].user /\ job'[p].amount = orders[id].amount
        /\ job'[p].paid = orders[id].paid
        /\ \/ job'[p].close = Settled /\ job'[p].interest = orders[id].accrued
           \/ job'[p].close = Redeemed /\ job'[p].interest = 0
    BY <1>2, RedeemDoes
  <2>2. UNCHANGED <<orders, day, run>>
    BY <1>2 DEF Redeem
  <2>3. ASSUME NEW q \in Process, On(job[q], id) PROVE FALSE
    <3>1. q # p /\ job'[q] = job[q]
      BY <2>1, <2>3 DEF On, Ending, Others
    <3>2. CASE q \in Scheduler
      BY <2>1, <2>3, <3>2 DEF On, Ending, Apart, Windows
    <3>3. CASE q \in Call
      <4>1. Redeeming(q)' /\ Redeeming(p)' /\ job'[q].order = job'[p].order
        BY <2>1, <2>3, <3>1, <3>3 DEF On, Ending, Redeeming
      <4> QED
        BY <3>1, <3>3, <4>1 DEF OneRedemption, Redeeming
    <3> QED
      BY <3>2, <3>3 DEF Process
  <2>4. Fresh(orders[id])
    BY <2>1, <2>3 DEF Ledger, Untouched
  <2>5. Progress(job'[p], orders[id])
    BY <2>1, <2>4 DEF Progress, Fresh
  <2> QED
    BY <2>1, <2>2, <2>5, LedgerBegins
<1> QED
  BY <1>1, <1>2 DEF Serve

\* While nobody ends an order, the rows that are open stay as untouched as they were.
LEMMA LedgerDay ==
  ASSUME Ledger, OrderIds' = OrderIds,
         \A q \in Process : job[q].op \notin Ending /\ job'[q].op \notin Ending,
         \A k \in OrderIds :
           \/ orders'[k] = orders[k]
           \/ IsOpen(orders[k]) /\ IsOpen(orders'[k]) /\ (Fresh(orders[k]) => Fresh(orders'[k]))
  PROVE  Progresses' /\ Untouched' /\ Ended'
<1>1. Progresses'
  BY DEF Progresses
<1>2. ASSUME NEW k \in OrderIds, IsOpen(orders'[k]) PROVE Fresh(orders'[k])
  <2>1. \A q \in Process : ~On(job[q], k)
    BY DEF On
  <2> QED
    BY <1>2, <2>1 DEF Ledger, Untouched
<1>3. Untouched'
  BY <1>2 DEF Untouched, Fresh, IsOpen
<1>4. \A k \in OrderIds : ~IsOpen(orders'[k]) => Accounted(orders'[k])
  BY DEF Ledger, Ended
<1>5. Ended'
  BY <1>4 DEF Ended, Accounted, IsOpen
<1> QED
  BY <1>1, <1>3, <1>5

LEMMA LedgerLists ==
  ASSUME TypeInv, TypeInv', OneScheduler, Ledger, NEW s \in Scheduler,
         StartRun(s) \/ ListActiveOrders(s) \/ ListExpiredOrders(s)
  PROVE  Ledger'
<1>1. PICK phase \in {"activate", "accrue", "settle"}, ids \in SUBSET OrderIds :
        \E todo \in SUBSET List(ids) : Enters(s, phase, todo)
  BY ListDoes
<1>2. PICK todo \in SUBSET List(ids) : Enters(s, phase, todo)
  BY <1>1
<1>3. UNCHANGED <<orders, job, day>> /\ OrderIds' = OrderIds
  BY DEF StartRun, ListActiveOrders, ListExpiredOrders, OrderIds
<1>4. \A x \in run'[s].todo :
        /\ x.order \in OrderIds /\ x.accrued = orders[x.order].accrued
        /\ x.days = day - orders[x.order].start
  BY <1>2, ListRow DEF Enters
<1>5. \A x \in run'[s].todo : x.days \in Nat /\ x.accrued \in Nat
  <2>1. TypeOK'
    BY DEF TypeInv
  <2>2. run'[s].todo \subseteq Listed
    BY <2>1 DEF TypeOK, Run
  <2> QED
    BY <2>2 DEF Listed
<1>6. \A x \in run'[s].todo : x.days + orders[x.order].start <= day /\ x.accrued <= x.days
  <2>1. ASSUME NEW x \in run'[s].todo
        PROVE  x.days + orders[x.order].start <= day /\ x.accrued <= x.days
    <3>1. x.order \in OrderIds /\ x.accrued \in Nat /\ x.days \in Nat
      BY <1>4, <1>5
    <3>2. orders[x.order].accrued = 0 \/ orders[x.order].accrued + orders[x.order].start <= day
      BY <3>1 DEF Ledger, Elapsed
    <3>3. orders[x.order].start \in Nat /\ day \in Nat
      BY <3>1, OrderFields DEF TypeInv, TypeOK
    <3> QED
      BY <1>4, <3>1, <3>2, <3>3
  <2> QED
    BY <2>1
<1>7. Elapsed'
  BY <1>3, <1>6 DEF Ledger, Elapsed, OneScheduler
<1>8. Progresses' /\ Untouched' /\ Ended' /\ Recorded'
  BY <1>3 DEF Ledger, Progresses, Progress, Untouched, On, Fresh, Ended, Accounted, IsOpen,
       Recorded, Recording
<1> QED
  BY <1>7, <1>8 DEF Ledger

LEMMA LedgerActivate ==
  ASSUME TypeInv, OneScheduler, Apart, Ledger, NEW s \in Scheduler, ActivateOrder(s)
  PROVE  Ledger'
<1> USE RowsExist
<1> DEFINE x == NextListed(s)  i == x.order
<1>1. /\ job[s] = NoJob /\ run[s].phase = "activate" /\ x \in run[s].todo /\ i \in OrderIds
      /\ job' = job /\ day' = day
      /\ \A t \in Scheduler : run'[t].todo \subseteq run[t].todo
  BY ActivateDoes, ShorterList DEF ActivateOrder
<1>2. \/ orders' = orders
      \/ /\ Writes(i) /\ SameCounts(i) /\ orders'[i].status = Running
         /\ orders'[i].accrued = orders[i].accrued /\ orders'[i].paid = orders[i].paid
  BY ActivateDoes
<1>3. \A q \in Process : job[q].op \notin Ending
  BY <1>1, NobodyEnds DEF Ending
<1>4. orders[i].status = Pending
  BY <1>1 DEF Apart, ListedStill
<1> HIDE DEF x, i
<1>5. OrderIds' = OrderIds
  BY <1>2 DEF Writes, OrderIds
<1>6. \A k \in OrderIds : \/ orders'[k] = orders[k]
                          \/ /\ IsOpen(orders[k]) /\ IsOpen(orders'[k])
                             /\ Fresh(orders[k]) => Fresh(orders'[k])
  BY <1>1, <1>2, <1>4 DEF Writes, SameCounts, IsOpen, Fresh
<1>7. \A k \in OrderIds : /\ orders'[k].accrued = orders[k].accrued
                          /\ orders'[k].recorded = orders[k].recorded
                          /\ orders'[k].start = orders[k].start
                          /\ IsOpen(orders'[k]) <=> IsOpen(orders[k])
  BY <1>1, <1>2, <1>4 DEF Writes, SameCounts, IsOpen
<1>8. Progresses' /\ Untouched' /\ Ended'
  BY <1>1, <1>3, <1>5, <1>6, LedgerDay
<1>9. Elapsed'
  BY <1>1, <1>5, <1>7 DEF Ledger, Elapsed
<1>10. Recorded'
  <2>1. ASSUME NEW t \in Scheduler, job'[t].step = "record"
        PROVE  LET o == orders'[job'[t].order] IN
               IsOpen(o) /\ o.recorded + job'[t].interest = o.accrued
    <3>1. job[t].order \in OrderIds
      BY <1>1, <2>1, AtStep DEF Process, Records
    <3> QED
      BY <1>1, <1>7, <2>1, <3>1 DEF Ledger, Recorded
  <2>2. ASSUME NEW k \in OrderIds, IsOpen(orders'[k]), \A t \in Scheduler : ~Recording(job'[t], k)
        PROVE  orders'[k].recorded = orders'[k].accrued
    BY <1>1, <1>7, <2>2 DEF Ledger, Recorded
  <2> QED
    BY <1>5, <2>1, <2>2 DEF Recorded, Recording, IsOpen
<1> QED
  BY <1>8, <1>9, <1>10 DEF Ledger

\* The listed order still has the interest it was listed with: what is written and
\* what is left to record make up the difference.
LEMMA LedgerAccrue ==
  ASSUME TypeInv, OneScheduler, Apart, Ledger, NEW s \in Scheduler, UpdateInterestAccrued(s)
  PROVE  Ledger'
<1> USE RowsExist
<1> DEFINE x == NextListed(s)  i == x.order
<1>1. /\ s \in Process /\ job[s] = NoJob /\ run[s].phase = "accrue" /\ x \in run[s].todo
      /\ i \in OrderIds /\ day' = day
      /\ \A t \in Scheduler : run'[t].todo \subseteq run[t].todo
  BY AccrueDoes, ShorterList DEF UpdateInterestAccrued
<1>2. \/ orders' = orders /\ job' = job
      \/ /\ Writes(i) /\ SameCounts(i) /\ orders'[i].status = orders[i].status
         /\ orders'[i].accrued = x.days /\ orders'[i].paid = orders[i].paid
         /\ IF x.days > x.accrued
            THEN /\ Others(s) /\ job'[s].op = "accrue" /\ job'[s].step = "record"
                 /\ job'[s].order = i /\ job'[s].interest = x.days - x.accrued
            ELSE job' = job
  BY AccrueDoes
<1>3. \A q \in Process : job[q].op \notin Ending
  BY <1>1, NobodyEnds DEF Ending
<1>4. orders[i].status = Running /\ x.accrued = orders[i].accrued
  BY <1>1 DEF Apart, ListedStill
<1>5. /\ x.days \in Nat /\ x.accrued \in Nat /\ x.accrued <= x.days
      /\ x.days + orders[i].start <= day
  BY <1>1, NextListedFacts DEF Ledger, Elapsed
<1>6. \A t \in Scheduler : t = s /\ job[t].step = "idle"
  BY <1>1 DEF OneScheduler, NoJob
<1>7. \A k \in OrderIds : IsOpen(orders[k]) => orders[k].recorded = orders[k].accrued
  BY <1>6 DEF Ledger, Recorded, Recording
<1> HIDE DEF x, i
<1>8. CASE orders' = orders /\ job' = job
  <2>1. OrderIds' = OrderIds
    BY <1>8 DEF OrderIds
  <2>2. Elapsed' /\ Recorded'
    BY <1>1, <1>8, <2>1 DEF Ledger, Elapsed, Recorded, Recording, IsOpen
  <2> QED
    BY <1>3, <1>8, <2>1, <2>2, LedgerDay DEF Ledger
<1>9. CASE /\ Writes(i) /\ SameCounts(i) /\ orders'[i].status = orders[i].status
           /\ orders'[i].accrued = x.days /\ orders'[i].paid = orders[i].paid
           /\ IF x.days > x.accrued
              THEN /\ Others(s) /\ job'[s].op = "accrue" /\ job'[s].step = "record"
                   /\ job'[s].order = i /\ job'[s].interest = x.days - x.accrued
              ELSE job' = job
  <2>1. OrderIds' = OrderIds /\ (\A k \in OrderIds \ {i} : orders'[k] = orders[k])
        /\ orders'[i].start = orders[i].start
    BY <1>9 DEF OrderIds, Writes
  <2>2. \A q \in Process : job'[q].op \notin Ending
    <3>1. CASE x.days > x.accrued
      BY <1>3, <1>9, <3>1 DEF Others, Ending
    <3>2. CASE ~(x.days > x.accrued)
      BY <1>3, <1>9, <3>2
    <3> QED
      BY <3>1, <3>2
  <2>3. \A k \in OrderIds : \/ orders'[k] = orders[k]
                            \/ /\ IsOpen(orders[k]) /\ IsOpen(orders'[k])
                               /\ Fresh(orders[k]) => Fresh(orders'[k])
    BY <1>1, <1>4, <1>9, <2>1 DEF SameCounts, IsOpen, Fresh
  <2>4. Progresses' /\ Untouched' /\ Ended'
    BY <1>3, <2>1, <2>2, <2>3, LedgerDay
  <2>5. Elapsed'
    BY <1>1, <1>5, <1>9, <2>1 DEF Ledger, Elapsed
  <2>6. orders'[i].recorded = x.accrued /\ IsOpen(orders'[i])
    BY <1>1, <1>4, <1>7, <1>9 DEF SameCounts, IsOpen
  <2>7. CASE x.days > x.accrued
    <3>1. /\ \A t \in Scheduler : job'[t].step = "record" => t = s
          /\ Recording(job'[s], i) /\ job'[s].interest = x.days - x.accrued
          /\ orders'[i].recorded + job'[s].interest = orders'[i].accrued
      BY <1>5, <1>6, <1>9, <2>6, <2>7 DEF Recording
    <3>2. ASSUME NEW k \in OrderIds, IsOpen(orders'[k]), \A t \in Scheduler : ~Recording(job'[t], k)
          PROVE  orders'[k].recorded = orders'[k].accrued
      BY <1>7, <2>1, <3>1, <3>2
    <3>3. Recorded'
      BY <2>1, <2>6, <3>1, <3>2 DEF Recorded, Recording, IsOpen
    <3> QED
      BY <2>4, <2>5, <3>3 DEF Ledger
  <2>8. CASE ~(x.days > x.accrued)
    <3>1. job' = job /\ orders'[i].recorded = orders'[i].accrued
      BY <1>5, <1>9, <2>6, <2>8
    <3>2. ASSUME NEW k \in OrderIds, IsOpen(orders'[k])
          PROVE  orders'[k].recorded = orders'[k].accrued
      BY <1>7, <2>1, <3>1, <3>2
    <3>3. Recorded'
      BY <1>6, <2>1, <3>1, <3>2 DEF Recorded, IsOpen
    <3> QED
      BY <2>4, <2>5, <3>3 DEF Ledger
  <2> QED
    BY <2>7, <2>8
<1> QED
  BY <1>2, <1>8, <1>9

LEMMA LedgerRecord ==
  ASSUME TypeInv, OneScheduler, Apart, Ledger, NEW s \in Scheduler, RecordDailyInterest(s)
  PROVE  Ledger'
<1> USE RowsExist
<1> DEFINE i == job[s].order
<1>1. /\ s \in Process /\ job[s].op = "accrue" /\ i \in OrderIds /\ Ends(s)
      /\ job[s].step = "record" /\ day' = day /\ run' = run
  BY RecordDoes DEF Records, RecordDailyInterest
<1>2. /\ Writes(i) /\ orders'[i].status = orders[i].status
      /\ orders'[i].accrued = orders[i].accrued /\ orders'[i].paid = orders[i].paid
      /\ orders'[i].returned = orders[i].returned
      /\ orders'[i].payments = orders[i].payments
      /\ orders'[i].credited = orders[i].credited
      /\ orders'[i].recorded = orders[i].recorded + job[s].interest
  BY RecordDoes
<1>3. /\ OrderIds' = OrderIds /\ \A k \in OrderIds \ {i} : orders'[k] = orders[k]
      /\ orders'[i].start = orders[i].start
  BY <1>2 DEF Writes, OrderIds
<1>4. \A q \in Process : job[q].op \notin Ending
  <2>1. run[s].phase # "idle" /\ job[s].op \notin Ending
    BY <1>1 DEF Apart, Windows, Ending, NoJob
  <2> QED
    BY <2>1, NobodyEnds
<1>5. /\ \A q \in Process : job'[q].op \notin Ending
      /\ \A t \in Scheduler : t = s /\ job'[t] = NoJob
  BY <1>1, <1>4 DEF Ends, Others, Ending, OneScheduler
<1>6. IsOpen(orders[i]) /\ orders'[i].recorded = orders'[i].accrued
  BY <1>1, <1>2 DEF Ledger, Recorded
<1>7. \A k \in OrderIds \ {i} : IsOpen(orders[k]) => orders[k].recorded = orders[k].accrued
  BY <1>5 DEF Ledger, Recorded, Recording
<1> HIDE DEF i
<1>8. \A k \in OrderIds : \/ orders'[k] = orders[k]
                          \/ /\ IsOpen(orders[k]) /\ IsOpen(orders'[k])
                             /\ Fresh(orders[k]) => Fresh(orders'[k])
  BY <1>2, <1>3, <1>6 DEF IsOpen, Fresh
<1>9. Progresses' /\ Untouched' /\ Ended'
  BY <1>3, <1>4, <1>5, <1>8, LedgerDay
<1>10. Elapsed'
  BY <1>1, <1>2, <1>3 DEF Ledger, Elapsed
<1>11. Recorded'
  <2>1. \A k \in OrderIds : IsOpen(orders'[k]) => orders'[k].recorded = orders'[k].accrued
    BY <1>3, <1>6, <1>7
  <2>2. \A t \in Scheduler : job'[t].step # "record"
    BY <1>5 DEF NoJob
  <2> QED
    BY <1>3, <2>1, <2>2 DEF Recorded, IsOpen
<1> QED
  BY <1>9, <1>10, <1>11 DEF Ledger

LEMMA LedgerRepay ==
  ASSUME TypeInv, OneScheduler, Apart, Ledger, NEW s \in Scheduler,
         SettleOrder(s) \/ RenewOrder(s)
  PROVE  Ledger'
<1> USE RowsExist
<1> DEFINE x == NextListed(s)  i == x.order
<1>1. /\ s \in Process /\ job[s] = NoJob /\ run[s].phase = "settle" /\ x \in run[s].todo
      /\ i \in OrderIds /\ orders' = orders /\ day' = day
      /\ \A t \in Scheduler : run'[t].todo \subseteq run[t].todo
  BY RepayDoes, ShorterList DEF SettleOrder, RenewOrder
<1>2. \/ job' = job
      \/ /\ Others(s) /\ job'[s].order = i /\ job'[s].user = orders[i].user
         /\ job'[s].amount = orders[i].amount /\ job'[s].close = Settled
         /\ job'[s].paid = 0
         /\ \/ /\ job'[s].op = "settle" /\ job'[s].step = "unfreeze"
               /\ orders[i].status = Running /\ job'[s].interest = orders[i].accrued
            \/ /\ job'[s].op = "renew" /\ job'[s].interest = x.accrued
               /\ job'[s].step = IF x.accrued > 0 THEN "pay" ELSE "renew"
  BY RepayDoes
<1>3. orders[i].status = Running /\ x.accrued = orders[i].accrued /\ x.accrued \in Nat
  BY <1>1, NextListedFacts DEF Apart, ListedStill
<1>4. Fresh(orders[i])
  <2>1. \A q \in Process : ~On(job[q], i)
    BY <1>1, NobodyEnds DEF Ending, On
  <2> QED
    BY <1>1, <1>3, <2>1 DEF Ledger, Untouched, IsOpen
<1> HIDE DEF x, i
<1>5. CASE job' = job
  <2>1. Others(s) /\ job'[s].op \notin Ending /\ job'[s].step # "record"
    BY <1>1, <1>5 DEF Others, Ending, NoJob
  <2> QED
    BY <1>1, <2>1, LedgerBegins
<1>6. CASE job' # job
  <2>1. /\ Others(s) /\ job'[s].order = i /\ job'[s].step # "record"
        /\ Progress(job'[s], orders[i])
    <3>1. CASE job'[s].op = "settle"
      BY <1>2, <1>4, <1>6, <3>1 DEF Progress, Fresh
    <3>2. CASE job'[s].op # "settle"
      <4>1. /\ job'[s].op = "renew" /\ job'[s].interest = x.accrued
            /\ job'[s].step = IF x.accrued > 0 THEN "pay" ELSE "renew"
        BY <1>2, <1>6, <3>2
      <4> QED
        BY <1>2, <1>3, <1>4, <1>6, <4>1 DEF Progress, Fresh
    <3> QED
      BY <3>1, <3>2
  <2> QED
    BY <1>1, <2>1, LedgerBegins
<1> QED
  BY <1>5, <1>6

LEMMA LedgerDaily ==
  ASSUME TypeInv, TypeInv', OneScheduler, Apart, Ledger, NEW s \in Scheduler, Daily(s)
  PROVE  Ledger'
<1>1. CASE EndRun(s)
  <2>1. /\ job[s] = NoJob /\ UNCHANGED <<orders, job, day>>
        /\ run'[s].todo = {} /\ \A t \in Scheduler : t = s
    BY <1>1, EndRunDoes DEF EndRun, Enters, OneScheduler
  <2>2. /\ s \in Process /\ Others(s) /\ job'[s].op \notin Ending /\ job'[s].step # "record"
        /\ \A t \in Scheduler : run'[t].todo \subseteq run[t].todo
    BY <2>1 DEF Others, Ending, NoJob, Process
  <2> QED
    BY <2>1, <2>2, LedgerBegins
<1> QED
  BY <1>1, LedgerLists, LedgerActivate, LedgerAccrue, LedgerRecord, LedgerRepay DEF Daily

LEMMA LedgerCalendar ==
  ASSUME TypeInv, Ledger, UNCHANGED <<orders, job, run>>, day' \in Nat, day' >= day
  PROVE  Ledger'
<1>1. OrderIds' = OrderIds
  BY DEF OrderIds
<1>2. Elapsed'
  <2>1. ASSUME NEW i \in OrderIds
        PROVE  orders[i].accrued = 0 \/ orders[i].accrued + orders[i].start <= day'
    <3>1. orders[i].accrued \in Nat /\ orders[i].start \in Nat /\ day \in Nat
      BY <2>1, OrderFields DEF TypeInv, TypeOK
    <3> QED
      BY <2>1, <3>1 DEF Ledger, Elapsed
  <2>2. ASSUME NEW s \in Scheduler, NEW x \in run[s].todo
        PROVE  x.days + orders[x.order].start <= day' /\ x.accrued <= x.days
    <3>1. /\ x.order \in OrderIds /\ x.days \in Nat /\ orders[x.order].start \in Nat
          /\ day \in Nat
      BY <2>2, RowsExist, RunFields, OrderFields DEF TypeInv, TypeOK
    <3> QED
      BY <2>2, <3>1 DEF Ledger, Elapsed
  <2> QED
    BY <1>1, <2>1, <2>2 DEF Elapsed
<1>3. Progresses' /\ Untouched' /\ Ended' /\ Recorded'
  BY <1>1 DEF Ledger, Progresses, Progress, Untouched, On, Fresh, Ended, Accounted, IsOpen,
       Recorded, Recording
<1> QED
  BY <1>2, <1>3 DEF Ledger

\* A statement that fails, and a restart, end the calm and are not considered.
LEMMA LedgerNext ==
  ASSUME TypeInv, TypeInv', OneScheduler, OneRedemption, OneRedemption', Apart,
         Undisturbed => Ledger, [Next]_vars
  PROVE  Undisturbed' => Ledger'
<1> SUFFICES ASSUME Undisturbed' PROVE Ledger'
  OBVIOUS
<1>1. Ledger
  BY Calmed
<1>2. CASE \E p \in Call : Serve(p)
  BY <1>1, <1>2, LedgerServe
<1>3. ASSUME NEW p \in Process, Advance(p) PROVE Ledger'
  BY <1>1, <1>3, LedgerAdvance, LedgerClose
<1>4. ASSUME NEW p \in Process, Disturb(p) PROVE FALSE
  <2>1. faults' > 0
    BY <1>4, CreateFailsDoes, BookDoes, FailDoes DEF Disturb
  <2> QED
    BY <2>1 DEF Undisturbed
<1>5. CASE \E s \in Scheduler : Daily(s)
  BY <1>1, <1>5, LedgerDaily
<1>6. CASE Midnight \/ EndMaintenance \/ ChangeProduct \/ LastDay \/ UNCHANGED vars
  <2>1. UNCHANGED <<orders, job, run>> /\ day' \in {day, day + 1} /\ day \in Nat
    BY <1>6 DEF Midnight, EndMaintenance, ChangeProduct, LastDay, vars, TypeInv, TypeOK
  <2> QED
    BY <1>1, <2>1, LedgerCalendar
<1>7. CASE Restart
  BY <1>7, RestartDoes DEF Undisturbed
<1> QED
  BY <1>2, <1>3, <1>4, <1>5, <1>6, <1>7 DEF Next

LEMMA LedgerInit ==
  ASSUME Init
  PROVE  Ledger
<1>1. /\ OrderIds = {} /\ \A p \in Process : job[p].op = "none" /\ job[p].step = "idle"
      /\ \A s \in Scheduler : run[s].todo = {}
  BY DEF Init, NoJob, OrderIds
<1>2. \A s \in Scheduler : job[s].step = "idle"
  BY <1>1 DEF Process
<1> QED
  BY <1>1, <1>2 DEF Ledger, Progresses, Untouched, Ended, Elapsed, Recorded, Ending

LEMMA KeptLedger ==
  ASSUME OneScheduler
  PROVE  Spec /\ []OneRedemption => [](Undisturbed => Ledger)
<1>1. Init => (Undisturbed => Ledger)
  BY LedgerInit
<1>2. TypeInv /\ TypeInv' /\ OneRedemption /\ OneRedemption' /\ Apart
        /\ (Undisturbed => Ledger) /\ [Next]_vars => (Undisturbed => Ledger)'
  BY LedgerNext
<1> QED
  BY <1>1, <1>2, Typed, KeptApart, PTL DEF Spec

\* An order is untouched, in the hands of the one operation that ends it, or accounted for.
LEMMA OncePerOrder ==
  ASSUME TypeInv, Ledger, NEW i \in OrderIds
  PROVE  orders[i].returned <= 1 /\ orders[i].payments <= 1
<1>1. CASE ~IsOpen(orders[i])
  BY <1>1 DEF Ledger, Ended, Accounted
<1>2. CASE IsOpen(orders[i]) /\ \A p \in Process : ~On(job[p], i)
  BY <1>2 DEF Ledger, Untouched, Fresh
<1>3. ASSUME NEW p \in Process, On(job[p], i)
      PROVE  orders[i].returned <= 1 /\ orders[i].payments <= 1
  <2>1. Progress(job[p], orders[i])
    BY <1>3 DEF Ledger, Progresses, On
  <2> QED
    BY <2>1 DEF Progress
<1> QED
  BY <1>1, <1>2, <1>3

\* An order gives its principal back at most once, whether its customer redeems it
\* or the scheduler settles it: given one scheduler in its window, no two
\* redemptions of one order at a time, and no statement that fails.
THEOREM ReturnsPrincipalOnce ==
  ASSUME OneScheduler
  PROVE  Spec /\ []OneRedemption => [](Undisturbed => PrincipalReturnedOnce)
<1>1. TypeInv /\ (Undisturbed => Ledger) => (Undisturbed => PrincipalReturnedOnce)
  BY OncePerOrder DEF PrincipalReturnedOnce
<1> QED
  BY <1>1, Typed, KeptLedger, PTL

\* On the same terms, an order pays its interest in at most one payment.
THEOREM PaysInterestOnce ==
  ASSUME OneScheduler
  PROVE  Spec /\ []OneRedemption => [](Undisturbed => InterestPaidOnce)
<1>1. TypeInv /\ (Undisturbed => Ledger) => (Undisturbed => InterestPaidOnce)
  BY OncePerOrder DEF InterestPaidOnce
<1> QED
  BY <1>1, Typed, KeptLedger, PTL

\* On the same terms, an order redeemed before the end of its term has paid no interest.
THEOREM EarlyForfeits ==
  ASSUME OneScheduler
  PROVE  Spec /\ []OneRedemption => [](Undisturbed => EarlyRedemptionForfeits)
<1>1. (Undisturbed => Ledger) => (Undisturbed => EarlyRedemptionForfeits)
  BY DEF Ledger, Ended, Accounted, EarlyRedemptionForfeits, IsOpen, Redeemed, Pending, Running
<1> QED
  BY <1>1, KeptLedger, PTL

\* On the same terms, the daily records of an order add up to what it has accrued
\* and, once it is settled, to what it was paid.
THEOREM RecordsAddUp ==
  ASSUME OneScheduler
  PROVE  Spec /\ []OneRedemption => [](Undisturbed => DailyRecordsAddUp)
<1>1. (Undisturbed => Ledger) => (Undisturbed => DailyRecordsAddUp)
  <2> SUFFICES ASSUME Ledger, NEW i \in OrderIds,
                      \A s \in Scheduler : job[s].step = "record" => job[s].order # i
               PROVE  /\ IsOpen(orders[i]) => orders[i].recorded = orders[i].accrued
                      /\ orders[i].status = Settled => /\ orders[i].recorded = orders[i].paid
                                                       /\ orders[i].credited = orders[i].paid
    BY DEF DailyRecordsAddUp
  <2>1. IsOpen(orders[i]) => orders[i].recorded = orders[i].accrued
    BY DEF Ledger, Recorded, Recording
  <2>2. orders[i].status = Settled => ~IsOpen(orders[i])
    BY DEF IsOpen, Settled, Pending, Running
  <2> QED
    BY <2>1, <2>2 DEF Ledger, Ended, Accounted
<1> QED
  BY <1>1, KeptLedger, PTL
-----------------------------------------------------------------------------
\* What is frozen and the open orders

\* The principal of the open order i of u.
OwnedOf(u, i) ==
  IF i \in OrderIds
  THEN IF orders[i].user = u /\ IsOpen(orders[i]) THEN orders[i].amount ELSE 0
  ELSE 0

\* What a job has frozen for an order it has not placed yet; and what is no longer
\* frozen, or is now for the next order, of an order it has not closed yet.
PlacingOf(u, j) == IF j.user = u /\ j.step = "create" THEN j.amount ELSE 0
Released(j) == \/ j.op \in {"redeem", "settle"} /\ j.step # "unfreeze"
               \/ j.op = "renew" /\ j.step \in {"link", "close"}
ReleasedOf(u, j) == IF j.user = u /\ Released(j) THEN j.amount ELSE 0

Owned(u) == [i \in Nat |-> OwnedOf(u, i)]
ToPlace(u) == [p \in Process |-> PlacingOf(u, job[p])]
ToClose(u) == [p \in Process |-> ReleasedOf(u, job[p])]

Backed == \A u \in User :
  /\ IsFiniteSet(Units(Owned(u))) /\ IsFiniteSet(Units(ToPlace(u)))
  /\ IsFiniteSet(Units(ToClose(u)))
  /\ account[u].frozen + Total(ToClose(u)) = Total(Owned(u)) + Total(ToPlace(u))

LEMMA ShareTyped ==
  ASSUME NEW j \in Job, NEW u
  PROVE  PlacingOf(u, j) \in Nat /\ ReleasedOf(u, j) \in Nat
<1>1. j.amount \in Nat
  BY DEF Job
<1> QED
  BY <1>1 DEF PlacingOf, ReleasedOf

LEMMA OwnedTyped ==
  ASSUME TypeInv, NEW u, NEW i
  PROVE  OwnedOf(u, i) \in Nat
<1>1. i \in OrderIds => orders[i].amount \in Nat
  BY OrderFields DEF TypeInv
<1> QED
  BY <1>1 DEF OwnedOf

LEMMA OwnedTypedNext ==
  ASSUME TypeInv', NEW u, NEW i
  PROVE  OwnedOf(u, i)' \in Nat
<1>1. TypeOK'
  BY DEF TypeInv
<1>2. ASSUME i \in OrderIds' PROVE orders'[i].amount \in Nat
  <2>1. orders' \in Seq(Order) /\ i \in 1 .. Len(orders')
    BY <1>1, <1>2 DEF TypeOK, OrderIds
  <2>2. orders'[i] \in Order
    BY <2>1
  <2> QED
    BY <2>2 DEF Order
<1> QED
  BY <1>2 DEF OwnedOf

\* A step of p about the order i changes the sums by what it changes of their terms.
LEMMA ShareStep ==
  ASSUME TypeInv, TypeInv', NEW p \in Process, Others(p), NEW u, NEW i \in Nat,
         \A k \in Nat \ {i} : OwnedOf(u, k)' = OwnedOf(u, k),
         IsFiniteSet(Units(Owned(u))), IsFiniteSet(Units(ToPlace(u))),
         IsFiniteSet(Units(ToClose(u)))
  PROVE  /\ Total(Owned(u)) \in Nat /\ Total(Owned(u))' \in Nat
         /\ Total(ToPlace(u)) \in Nat /\ Total(ToPlace(u))' \in Nat
         /\ Total(ToClose(u)) \in Nat /\ Total(ToClose(u))' \in Nat
         /\ IsFiniteSet(Units(Owned(u)))' /\ IsFiniteSet(Units(ToPlace(u)))'
         /\ IsFiniteSet(Units(ToClose(u)))'
         /\ Total(Owned(u))' + OwnedOf(u, i) = Total(Owned(u)) + OwnedOf(u, i)'
         /\ Total(ToPlace(u))' + PlacingOf(u, job[p]) = Total(ToPlace(u)) + PlacingOf(u, job'[p])
         /\ Total(ToClose(u))' + ReleasedOf(u, job[p]) = Total(ToClose(u)) + ReleasedOf(u, job'[p])
<1> DEFINE a == Owned(u)
           b == [k \in Nat |-> OwnedOf(u, k)']
           f == ToPlace(u)
           g == [q \in Process |-> PlacingOf(u, job'[q])]
           h == ToClose(u)
           m == [q \in Process |-> ReleasedOf(u, job'[q])]
<1>1. (\A q \in Process : job[q] \in Job) /\ (\A q \in Process : job'[q] \in Job)
  BY DEF TypeInv, TypeOK
<1>2. /\ f \in [Process -> Nat] /\ g \in [Process -> Nat]
      /\ h \in [Process -> Nat] /\ m \in [Process -> Nat]
  BY <1>1, ShareTyped DEF ToPlace, ToClose
<1>3. a \in [Nat -> Nat] /\ b \in [Nat -> Nat]
  <2>1. \A k \in Nat : OwnedOf(u, k) \in Nat
    BY OwnedTyped
  <2>2. \A k \in Nat : OwnedOf(u, k)' \in Nat
    BY OwnedTypedNext
  <2> QED
    BY <2>1, <2>2 DEF Owned
<1>4. /\ \A q \in Process \ {p} : g[q] = f[q] /\ m[q] = h[q]
      /\ f[p] = PlacingOf(u, job[p]) /\ g[p] = PlacingOf(u, job'[p])
      /\ h[p] = ReleasedOf(u, job[p]) /\ m[p] = ReleasedOf(u, job'[p])
  BY DEF ToPlace, ToClose, Others
<1>5. /\ \A k \in Nat \ {i} : b[k] = a[k]
      /\ a[i] = OwnedOf(u, i) /\ b[i] = OwnedOf(u, i)'
  BY DEF Owned
<1>6. /\ Total(Owned(u))' = Total(b) /\ Units(Owned(u))' = Units(b)
      /\ Total(ToPlace(u))' = Total(g) /\ Units(ToPlace(u))' = Units(g)
      /\ Total(ToClose(u))' = Total(m) /\ Units(ToClose(u))' = Units(m)
  BY DEF Total, Units, Owned, ToPlace, ToClose, PlacingOf, ReleasedOf, Released
<1>7. IsFiniteSet(Units(a)) /\ IsFiniteSet(Units(f)) /\ IsFiniteSet(Units(h))
  OBVIOUS
<1>8. a = Owned(u) /\ f = ToPlace(u) /\ h = ToClose(u)
  OBVIOUS
<1> HIDE DEF a, b, f, g, h, m
<1>9. /\ IsFiniteSet(Units(b)) /\ Total(a) \in Nat /\ Total(b) \in Nat
      /\ Total(b) + a[i] = Total(a) + b[i]
  BY <1>3, <1>5, <1>7, TotalStep
<1>10. /\ IsFiniteSet(Units(g)) /\ Total(f) \in Nat /\ Total(g) \in Nat
       /\ Total(g) + f[p] = Total(f) + g[p]
  <2>1. /\ f \in [Process -> Nat] /\ g \in [Process -> Nat] /\ IsFiniteSet(Units(f))
        /\ \A q \in Process \ {p} : g[q] = f[q]
    BY <1>2, <1>4, <1>7
  <2> QED
    BY <2>1, TotalStep
<1>11. /\ IsFiniteSet(Units(m)) /\ Total(h) \in Nat /\ Total(m) \in Nat
       /\ Total(m) + h[p] = Total(h) + m[p]
  <2>1. /\ h \in [Process -> Nat] /\ m \in [Process -> Nat] /\ IsFiniteSet(Units(h))
        /\ \A q \in Process \ {p} : m[q] = h[q]
    BY <1>2, <1>4, <1>7
  <2> QED
    BY <2>1, TotalStep
<1>12. /\ Total(Owned(u)) \in Nat /\ Total(Owned(u))' \in Nat
       /\ IsFiniteSet(Units(Owned(u)))'
       /\ Total(Owned(u))' + OwnedOf(u, i) = Total(Owned(u)) + OwnedOf(u, i)'
  BY <1>5, <1>6, <1>8, <1>9
<1>13. /\ Total(ToPlace(u)) \in Nat /\ Total(ToPlace(u))' \in Nat
       /\ IsFiniteSet(Units(ToPlace(u)))'
       /\ Total(ToPlace(u))' + PlacingOf(u, job[p])
            = Total(ToPlace(u)) + PlacingOf(u, job'[p])
  BY <1>4, <1>6, <1>8, <1>10
<1>14. /\ Total(ToClose(u)) \in Nat /\ Total(ToClose(u))' \in Nat
       /\ IsFiniteSet(Units(ToClose(u)))'
       /\ Total(ToClose(u))' + ReleasedOf(u, job[p])
            = Total(ToClose(u)) + ReleasedOf(u, job'[p])
  BY <1>4, <1>6, <1>8, <1>11
<1> QED
  BY <1>12, <1>13, <1>14

\* A step of p about the order i changes both sides of the equation alike.
Shares(p, i) ==
  /\ Others(p)
  /\ \A u \in User :
       /\ \A k \in Nat \ {i} : OwnedOf(u, k)' = OwnedOf(u, k)
       /\ account'[u].frozen + ReleasedOf(u, job'[p]) + OwnedOf(u, i) + PlacingOf(u, job[p])
            = account[u].frozen + ReleasedOf(u, job[p]) + OwnedOf(u, i)' + PlacingOf(u, job'[p])

LEMMA BackedStep ==
  ASSUME TypeInv, TypeInv', Backed, NEW p \in Process, NEW i \in Nat, Shares(p, i)
  PROVE  Backed'
<1>1. ASSUME NEW u \in User
      PROVE  /\ IsFiniteSet(Units(Owned(u)))' /\ IsFiniteSet(Units(ToPlace(u)))'
             /\ IsFiniteSet(Units(ToClose(u)))'
             /\ account'[u].frozen + Total(ToClose(u))' = Total(Owned(u))' + Total(ToPlace(u))'
  <2>1. /\ Total(Owned(u)) \in Nat /\ Total(Owned(u))' \in Nat
        /\ Total(ToPlace(u)) \in Nat /\ Total(ToPlace(u))' \in Nat
        /\ Total(ToClose(u)) \in Nat /\ Total(ToClose(u))' \in Nat
        /\ IsFiniteSet(Units(Owned(u)))' /\ IsFiniteSet(Units(ToPlace(u)))'
        /\ IsFiniteSet(Units(ToClose(u)))'
        /\ Total(Owned(u))' + OwnedOf(u, i) = Total(Owned(u)) + OwnedOf(u, i)'
        /\ Total(ToPlace(u))' + PlacingOf(u, job[p]) = Total(ToPlace(u)) + PlacingOf(u, job'[p])
        /\ Total(ToClose(u))' + ReleasedOf(u, job[p]) = Total(ToClose(u)) + ReleasedOf(u, job'[p])
    BY ShareStep DEF Shares, Backed
  <2>2. account[u].frozen + Total(ToClose(u)) = Total(Owned(u)) + Total(ToPlace(u))
    BY DEF Backed
  <2>3. account[u].frozen \in Int /\ account'[u].frozen \in Int
    BY DEF TypeInv, TypeOK, Account
  <2>4. job[p] \in Job /\ job'[p] \in Job
    BY DEF TypeInv, TypeOK
  <2>5. /\ PlacingOf(u, job[p]) \in Nat /\ PlacingOf(u, job'[p]) \in Nat
        /\ ReleasedOf(u, job[p]) \in Nat /\ ReleasedOf(u, job'[p]) \in Nat
        /\ OwnedOf(u, i) \in Nat /\ OwnedOf(u, i)' \in Nat
    BY <2>4, ShareTyped, OwnedTyped, OwnedTypedNext
  <2>6. account'[u].frozen + ReleasedOf(u, job'[p]) + OwnedOf(u, i) + PlacingOf(u, job[p])
          = account[u].frozen + ReleasedOf(u, job[p]) + OwnedOf(u, i)' + PlacingOf(u, job'[p])
    BY DEF Shares
  <2>7. account'[u].frozen + Total(ToClose(u))' = Total(Owned(u))' + Total(ToPlace(u))'
    <3> DEFINE a == account[u].frozen
               b == account'[u].frozen
               o == Total(Owned(u))
               q == Total(Owned(u))'
               f == Total(ToPlace(u))
               g == Total(ToPlace(u))'
               h == Total(ToClose(u))
               m == Total(ToClose(u))'
               x == OwnedOf(u, i)
               y == OwnedOf(u, i)'
               v == PlacingOf(u, job[p])
               w == PlacingOf(u, job'[p])
               r == ReleasedOf(u, job[p])
               s == ReleasedOf(u, job'[p])
    <3>1. /\ a \in Int /\ b \in Int /\ o \in Int /\ q \in Int /\ f \in Int /\ g \in Int
          /\ h \in Int /\ m \in Int /\ x \in Int /\ y \in Int /\ v \in Int /\ w \in Int
          /\ r \in Int /\ s \in Int
      BY <2>1, <2>3, <2>5
    <3>2. q + x = o + y /\ g + v = f + w /\ m + r = h + s
      BY <2>1
    <3>3. a + h = o + f
      BY <2>2
    <3>4. b + s + x + v = a + r + y + w
      BY <2>6
    <3> HIDE DEF a, b, o, q, f, g, h, m, x, y, v, w, r, s
    <3>5. b + m = q + g
      BY <3>1, <3>2, <3>3, <3>4
    <3> QED
      BY <3>5 DEF b, m, q, g
  <2> QED
    BY <2>1, <2>7
<1>2. ASSUME NEW u \in User
      PROVE  (/\ IsFiniteSet(Units(Owned(u))) /\ IsFiniteSet(Units(ToPlace(u)))
              /\ IsFiniteSet(Units(ToClose(u)))
              /\ account[u].frozen + Total(ToClose(u)) = Total(Owned(u)) + Total(ToPlace(u)))'
  BY <1>1
<1> QED
  BY <1>2 DEF Backed

\* No order is placed or closed.
SameOwned ==
  /\ OrderIds' = OrderIds
  /\ \A k \in OrderIds : /\ orders'[k].user = orders[k].user
                         /\ orders'[k].amount = orders[k].amount
                         /\ IsOpen(orders'[k]) <=> IsOpen(orders[k])

LEMMA SharesRows ==
  ASSUME TypeInv, TypeInv', NEW p \in Process, Others(p), SameOwned,
         \A u \in User :
           account'[u].frozen + ReleasedOf(u, job'[p]) + PlacingOf(u, job[p])
             = account[u].frozen + ReleasedOf(u, job[p]) + PlacingOf(u, job'[p])
  PROVE  Shares(p, 0)
<1>1. \A u \in User : \A k \in Nat : OwnedOf(u, k)' = OwnedOf(u, k)
  BY DEF SameOwned, OwnedOf, IsOpen
<1>2. 0 \notin OrderIds
  BY DEF OrderIds
<1>3. \A u \in User : OwnedOf(u, 0) = 0 /\ OwnedOf(u, 0)' = 0
  BY <1>1, <1>2 DEF OwnedOf
<1>4. job[p] \in Job /\ job'[p] \in Job
  BY DEF TypeInv, TypeOK
<1>5. \A u \in User : /\ account[u].frozen \in Int /\ account'[u].frozen \in Int
                      /\ PlacingOf(u, job[p]) \in Nat /\ PlacingOf(u, job'[p]) \in Nat
                      /\ ReleasedOf(u, job[p]) \in Nat /\ ReleasedOf(u, job'[p]) \in Nat
  BY <1>4, ShareTyped DEF TypeInv, TypeOK, Account
<1> QED
  BY <1>1, <1>3, <1>5 DEF Shares

LEMMA SharesNothing ==
  ASSUME TypeInv, TypeInv', NEW p \in Process, Others(p), SameOwned,
         \A u \in User : account'[u].frozen = account[u].frozen,
         \A u \in User : /\ ReleasedOf(u, job'[p]) = ReleasedOf(u, job[p])
                         /\ PlacingOf(u, job'[p]) = PlacingOf(u, job[p])
  PROVE  Shares(p, 0)
<1>1. \A u \in User :
        account'[u].frozen + ReleasedOf(u, job'[p]) + PlacingOf(u, job[p])
          = account[u].frozen + ReleasedOf(u, job[p]) + PlacingOf(u, job'[p])
  OBVIOUS
<1> QED
  BY <1>1, SharesRows

\* An order is placed: it is open, and somebody's.
LEMMA SharesPlaced ==
  ASSUME TypeInv, TypeInv', NEW p \in Process, Others(p), job[p].user \in User,
         orders' = Append(orders, NewOrder(job[p])), account' = account,
         \A u \in User :
           ReleasedOf(u, job'[p]) + PlacingOf(u, job[p])
             = ReleasedOf(u, job[p]) + PlacingOf(u, job'[p])
                 + (IF job[p].user = u THEN job[p].amount ELSE 0)
  PROVE  \E i \in Nat : Shares(p, i)
<1>1. Len(orders) + 1 \in Nat
  BY DEF TypeInv, TypeOK
<1>2. PICK n \in Nat : n = Len(orders) + 1
  BY <1>1
<1>3. /\ n \notin OrderIds /\ OrderIds' = OrderIds \cup {n}
      /\ \A k \in OrderIds : orders'[k] = orders[k]
      /\ IsOpen(orders'[n])
      /\ orders'[n].user = job[p].user /\ orders'[n].amount = job[p].amount
  BY <1>2, Added
<1>4. \A u \in User :
        /\ OwnedOf(u, n) = 0
        /\ OwnedOf(u, n)' = IF job[p].user = u THEN job[p].amount ELSE 0
        /\ \A k \in Nat \ {n} : OwnedOf(u, k)' = OwnedOf(u, k)
  BY <1>3 DEF OwnedOf, IsOpen
<1>5. job[p] \in Job /\ job'[p] \in Job /\ job[p].amount \in Nat
  BY JobFields DEF TypeInv, TypeOK
<1>6. \A u \in User : /\ account[u].frozen \in Int /\ account'[u].frozen = account[u].frozen
                      /\ PlacingOf(u, job[p]) \in Nat /\ PlacingOf(u, job'[p]) \in Nat
                      /\ ReleasedOf(u, job[p]) \in Nat /\ ReleasedOf(u, job'[p]) \in Nat
  BY <1>5, ShareTyped DEF TypeInv, TypeOK, Account
<1>7. ASSUME NEW u \in User
      PROVE  account'[u].frozen + ReleasedOf(u, job'[p]) + OwnedOf(u, n) + PlacingOf(u, job[p])
        = account[u].frozen + ReleasedOf(u, job[p]) + OwnedOf(u, n)' + PlacingOf(u, job'[p])
  <2> DEFINE d == IF job[p].user = u THEN job[p].amount ELSE 0
             v == PlacingOf(u, job[p])
             w == PlacingOf(u, job'[p])
             r == ReleasedOf(u, job[p])
             s == ReleasedOf(u, job'[p])
             a == account[u].frozen
  <2>1. /\ d \in Nat /\ v \in Nat /\ w \in Nat /\ r \in Nat /\ s \in Nat /\ a \in Int
        /\ s + v = r + w + d
    BY <1>5, <1>6
  <2>2. OwnedOf(u, n) = 0 /\ OwnedOf(u, n)' = d /\ account'[u].frozen = a
    BY <1>4, <1>6
  <2> HIDE DEF d, v, w, r, s, a
  <2>3. a + s + 0 + v = a + r + d + w
    BY <2>1
  <2> QED
    BY <2>2, <2>3 DEF v, w, r, s, a
<1> QED
  BY <1>4, <1>7 DEF Shares

LEMMA SharesClose ==
  ASSUME TypeInv, TypeInv', Apart, Ledger, NEW p \in Process, Close(p)
  PROVE  \E i \in Nat : Shares(p, i)
<1>1. job[p].order \in Nat
  BY CloseDoes DEF EndsOrder, OrderIds
<1>2. PICK i \in Nat : i = job[p].order
  BY <1>1
<1>3. /\ EndsOrder(p, job[p]) /\ job[p].op \in Ending /\ job[p].step = "close" /\ Ends(p)
      /\ i \in OrderIds /\ Writes(i) /\ account' = account
      /\ orders'[i].status = IF job[p].op = "redeem" THEN job[p].close ELSE Settled
  BY <1>2, CloseDoes DEF Close, EndsOrder
<1>4. Progress(job[p], orders[i]) /\ IsOpen(orders[i])
  BY <1>2, <1>3 DEF Ledger, Progresses, Apart, EndsOpen
<1>5. ~IsOpen(orders'[i])
  BY <1>3, <1>4 DEF Progress, IsOpen, Settled, Redeemed, Pending, Running
<1>6. /\ \A k \in OrderIds \ {i} : orders'[k] = orders[k]
      /\ OrderIds' = OrderIds /\ i \in Nat /\ Others(p) /\ job'[p] = NoJob
      /\ orders[i].user = job[p].user /\ orders[i].amount = job[p].amount
  BY <1>3, <1>4 DEF Writes, OrderIds, Ends, Progress
<1>7. Released(job[p]) /\ ~Released(NoJob) /\ NoJob.step # "create"
  BY <1>3 DEF Released, Ending, NoJob
<1>8. \A u \in User :
        /\ OwnedOf(u, i) = ReleasedOf(u, job[p]) /\ OwnedOf(u, i)' = 0
        /\ \A k \in Nat \ {i} : OwnedOf(u, k)' = OwnedOf(u, k)
        /\ PlacingOf(u, job[p]) = 0 /\ PlacingOf(u, job'[p]) = 0
        /\ ReleasedOf(u, job'[p]) = 0
  BY <1>3, <1>4, <1>5, <1>6, <1>7 DEF OwnedOf, ReleasedOf, PlacingOf, IsOpen
<1>9. job[p] \in Job
  BY DEF TypeInv, TypeOK
<1>10. \A u \in User : /\ account[u].frozen \in Int /\ account'[u].frozen = account[u].frozen
                      /\ ReleasedOf(u, job[p]) \in Nat
  BY <1>3, <1>9, ShareTyped DEF TypeInv, TypeOK, Account
<1>11. \A u \in User :
        account'[u].frozen + ReleasedOf(u, job'[p]) + OwnedOf(u, i) + PlacingOf(u, job[p])
          = account[u].frozen + ReleasedOf(u, job[p]) + OwnedOf(u, i)' + PlacingOf(u, job'[p])
  BY <1>8, <1>10
<1> QED
  BY <1>6, <1>8, <1>11 DEF Shares

LEMMA SameOwnedRows ==
  ASSUME TypeInv,
         \/ orders' = orders
         \/ \E i \in OrderIds : Writes(i) /\ (IsOpen(orders'[i]) <=> IsOpen(orders[i]))
  PROVE  SameOwned
BY DEF SameOwned, Writes, OrderIds

LEMMA SharesAdvance ==
  ASSUME TypeInv, TypeInv', Apart, Ledger, NEW p \in Process, Advance(p)
  PROVE  \E i \in Nat : Shares(p, i)
<1>1. /\ job[p] \in Job /\ job[p].amount \in Nat /\ NoJob.op = "none" /\ NoJob.step = "idle"
      /\ \A u \in User : account[u].frozen \in Int
  BY JobFields DEF TypeInv, TypeOK, Account, NoJob
<1> USE DEF PlacingOf, ReleasedOf, Released
<1>2. CASE \/ Acquires(p) \/ ClearLock(p) \/ ReadProduct(p) \/ ReadAccount(p)
           \/ UpdateProductSoldQuota(p) \/ BookSubscription(p)
  <2>1. /\ Subscribes(p, job[p]) /\ orders' = orders /\ job[p].step # "create"
        /\ \A u \in User : account'[u].frozen = account[u].frozen
    <3>1. /\ Subscribes(p, job[p]) /\ orders' = orders /\ job[p].step # "create"
      BY <1>2, AtStep, AcquireDoes DEF ClearLock, ReadProduct, ReadAccount,
           UpdateProductSoldQuota, BookSubscription
    <3>2. CASE BookSubscription(p)
      <4>1. Moves(job[p].user, 0, 0, -job[p].amount)
        BY <3>2, BookSubscriptionDoes
      <4> QED
        BY <1>1, <3>1, <4>1 DEF Moves
    <3>3. CASE ~BookSubscription(p)
      BY <1>2, <3>1, <3>3, AcquireDoes
         DEF ClearLock, ReadProduct, ReadAccount, UpdateProductSoldQuota
    <3> QED
      BY <3>2, <3>3
  <2>2. Ends(p) \/ \E step \in Step \ {"create"} : Steps(p, step)
    BY <1>2, AcquireDoes, ClearDoes, ReadDoes, QuotaDoes, BookSubscriptionDoes DEF Step
  <2>3. /\ Others(p) /\ job[p].op = "subscribe" /\ job'[p].op \in {"none", "subscribe"}
        /\ job'[p].step # "create"
    BY <1>1, <2>1, <2>2 DEF Ends, Steps, Kept, Subscribes
  <2>4. \A u \in User : /\ ReleasedOf(u, job'[p]) = ReleasedOf(u, job[p])
                        /\ PlacingOf(u, job'[p]) = PlacingOf(u, job[p])
    BY <2>1, <2>3
  <2> HIDE DEF PlacingOf, ReleasedOf
  <2> QED
    BY <2>1, <2>3, <2>4, SameOwnedRows, SharesNothing
<1>3. CASE Freeze(p)
  <2>1. /\ Subscribes(p, job[p]) /\ Steps(p, "create") /\ job[p].step = "freeze"
        /\ Moves(job[p].user, 0, job[p].amount, 0) /\ orders' = orders
    BY <1>3, FreezeDoes DEF Freeze
  <2>2. \A u \in User :
          account'[u].frozen + ReleasedOf(u, job'[p]) + PlacingOf(u, job[p])
            = account[u].frozen + ReleasedOf(u, job[p]) + PlacingOf(u, job'[p])
    BY <1>1, <2>1 DEF Steps, Kept, Moves, Subscribes
  <2> HIDE DEF PlacingOf, ReleasedOf
  <2> QED
    BY <2>1, <2>2, SameOwnedRows, SharesRows DEF Steps
<1>4. CASE CreateOrder(p)
  <2>1. /\ Subscribes(p, job[p]) /\ Steps(p, "quota") /\ job[p].step = "create"
        /\ account' = account /\ orders' = Append(orders, NewOrder(job[p]))
    BY <1>4, CreateDoes DEF CreateOrder
  <2>2. \A u \in User :
           ReleasedOf(u, job'[p]) + PlacingOf(u, job[p])
             = ReleasedOf(u, job[p]) + PlacingOf(u, job'[p])
                 + (IF job[p].user = u THEN job[p].amount ELSE 0)
    BY <1>1, <2>1 DEF Steps, Kept, Subscribes
  <2> HIDE DEF PlacingOf, ReleasedOf
  <2> QED
    BY <2>1, <2>2, SharesPlaced DEF Steps, Subscribes
<1>5. CASE Unfreeze(p)
  <2>1. /\ EndsOrder(p, job[p]) /\ job[p].op # "renew" /\ Steps(p, "bookPrincipal")
        /\ job[p].step = "unfreeze" /\ Moves(job[p].user, 0, -job[p].amount, 0)
    BY <1>5, UnfreezeDoes DEF Unfreeze
  <2>2. SameOwned
    <3>1. /\ job[p].order \in OrderIds /\ Writes(job[p].order)
          /\ orders'[job[p].order].status = orders[job[p].order].status
      BY <1>5, <2>1, UnfreezeDoes DEF EndsOrder
    <3> QED
      BY <3>1, SameOwnedRows DEF IsOpen
  <2>3. \A u \in User :
          account'[u].frozen + ReleasedOf(u, job'[p]) + PlacingOf(u, job[p])
            = account[u].frozen + ReleasedOf(u, job[p]) + PlacingOf(u, job'[p])
    BY <1>1, <2>1 DEF Steps, Kept, Moves, EndsOrder, Ending
  <2> HIDE DEF PlacingOf, ReleasedOf
  <2> QED
    BY <2>1, <2>2, <2>3, SharesRows DEF Steps
<1>6. CASE BookPrincipal(p) \/ BookInterest(p) \/ PayInterest(p) \/ LinkRenewedOrder(p)
  <2>1. EndsOrder(p, job[p]) /\ \A u \in User : account'[u].frozen = account[u].frozen
    <3>1. CASE BookPrincipal(p)
      <4>1. EndsOrder(p, job[p]) /\ Moves(job[p].user, 0, 0, job[p].amount)
        BY <3>1, BookDoes
      <4> QED
        BY <1>1, <4>1 DEF Moves
    <3>2. CASE BookInterest(p)
      <4>1. EndsOrder(p, job[p]) /\ Moves(job[p].user, 0, 0, Interest(job[p].amount, job[p].interest))
        BY <3>2, BookDoes
      <4> QED
        BY <1>1, <4>1 DEF Moves
    <3>3. CASE PayInterest(p)
      <4>1. EndsOrder(p, job[p]) /\ Moves(job[p].user, Interest(job[p].amount, job[p].interest), 0, 0)
        BY <3>3, PayDoes
      <4> QED
        BY <1>1, <4>1 DEF Moves
    <3>4. CASE LinkRenewedOrder(p)
      BY <3>4, LinkDoes DEF LinkRenewedOrder
    <3> QED
      BY <1>6, <3>1, <3>2, <3>3, <3>4
  <2>2. SameOwned
    <3>1. CASE BookPrincipal(p) \/ BookInterest(p)
      BY <3>1, SameOwnedRows DEF BookPrincipal, BookInterest
    <3>2. CASE PayInterest(p) \/ LinkRenewedOrder(p)
      <4>1. /\ job[p].order \in OrderIds /\ Writes(job[p].order)
            /\ orders'[job[p].order].status = orders[job[p].order].status
        BY <2>1, <3>2, PayDoes, LinkDoes DEF EndsOrder
      <4> QED
        BY <4>1, SameOwnedRows DEF IsOpen
    <3> QED
      BY <1>6, <3>1, <3>2
  <2>3. \/ /\ job[p].op \in {"redeem", "settle"} /\ job[p].step \in {"bookPrincipal", "bookInterest", "pay"}
           /\ \E step \in {"pay", "close", "bookInterest"} : Steps(p, step)
        \/ /\ job[p].op = "renew" /\ job[p].step = "bookInterest" /\ Steps(p, "renew")
        \/ /\ job[p].op = "renew" /\ job[p].step = "pay" /\ Steps(p, "bookInterest")
        \/ /\ job[p].op = "renew" /\ job[p].step = "link" /\ Steps(p, "close")
    <3>1. CASE BookPrincipal(p)
      <4>1. /\ job[p].step = "bookPrincipal" /\ job[p].op # "renew"
            /\ Steps(p, "pay") \/ Steps(p, "close")
        BY <3>1, BookDoes DEF AfterPrincipal, BookPrincipal
      <4> QED
        BY <2>1, <4>1 DEF EndsOrder, Ending
    <3>2. CASE BookInterest(p)
      <4>1. job[p].step = "bookInterest" /\ Steps(p, AfterInterest(job[p]))
        BY <3>2, BookDoes DEF BookInterest
      <4>2. Steps(p, IF job[p].op = "renew" THEN "renew" ELSE "close")
        BY <4>1 DEF AfterInterest
      <4> QED
        BY <2>1, <4>1, <4>2 DEF EndsOrder, Ending
    <3>3. CASE PayInterest(p)
      BY <2>1, <3>3, PayDoes DEF EndsOrder, Ending
    <3>4. CASE LinkRenewedOrder(p)
      BY <3>4, LinkDoes
    <3> QED
      BY <1>6, <3>1, <3>2, <3>3, <3>4
  <2>4. \A u \in User : /\ ReleasedOf(u, job'[p]) = ReleasedOf(u, job[p])
                        /\ PlacingOf(u, job'[p]) = PlacingOf(u, job[p])
    BY <2>3 DEF Steps, Kept
  <2>5. Others(p)
    BY <2>3 DEF Steps
  <2> HIDE DEF PlacingOf, ReleasedOf
  <2> QED
    BY <2>1, <2>2, <2>4, <2>5, SharesNothing
<1>7. CASE CreateRenewedOrder(p)
  <2>1. /\ EndsOrder(p, job[p]) /\ job[p].op = "renew" /\ job[p].step = "renew"
        /\ Steps(p, "link") /\ orders' = Append(orders, NewOrder(job[p])) /\ account' = account
    BY <1>7, RenewedDoes DEF CreateRenewedOrder
  <2>2. \A u \in User :
           ReleasedOf(u, job'[p]) + PlacingOf(u, job[p])
             = ReleasedOf(u, job[p]) + PlacingOf(u, job'[p])
                 + (IF job[p].user = u THEN job[p].amount ELSE 0)
    BY <1>1, <2>1 DEF Steps, Kept
  <2> HIDE DEF PlacingOf, ReleasedOf
  <2> QED
    BY <2>1, <2>2, SharesPlaced DEF Steps, EndsOrder
<1> QED
  BY <1>2, <1>3, <1>4, <1>5, <1>6, <1>7, SharesClose DEF Advance, Acquires

LEMMA SharesServe ==
  ASSUME TypeInv, TypeInv', NEW p \in Call, Serve(p)
  PROVE  p \in Process /\ \E i \in Nat : Shares(p, i)
<1>1. /\ p \in Process /\ Others(p) /\ job[p].op = "none" /\ job[p].step = "idle"
      /\ orders' = orders /\ account' = account
      /\ job'[p].step # "create"
      /\ \/ job'[p].op = "subscribe"
         \/ job'[p].op = "redeem" /\ job'[p].step = "unfreeze"
  <2>1. NoJob.op = "none" /\ NoJob.step = "idle"
    BY DEF NoJob
  <2>2. CASE \E u \in User, a \in Amount, r \in AutoRenew, t \in Text : Subscribe(p, u, a, r, t)
    <3>1. PICK u \in User, a \in Amount, r \in AutoRenew, t \in Text : Subscribe(p, u, a, r, t)
      BY <2>2
    <3> QED
      BY <2>1, <3>1, SubscribeDoes DEF Subscribe
  <2>3. CASE \E id \in OrderIds : Redeem(p, id)
    BY <2>1, <2>3, RedeemDoes DEF Redeem
  <2> QED
    BY <2>2, <2>3 DEF Serve
<1>2. \A u \in User : /\ ReleasedOf(u, job'[p]) = ReleasedOf(u, job[p])
                      /\ PlacingOf(u, job'[p]) = PlacingOf(u, job[p])
  BY <1>1 DEF ReleasedOf, Released, PlacingOf
<1> QED
  BY <1>1, <1>2, SameOwnedRows, SharesNothing

LEMMA SharesDaily ==
  ASSUME TypeInv, TypeInv', OneScheduler, Apart, NEW s \in Scheduler, Daily(s)
  PROVE  s \in Process /\ \E i \in Nat : Shares(s, i)
<1>1. s \in Process /\ account' = account
  BY DEF Process, Daily, StartRun, ActivateOrder, ListActiveOrders, UpdateInterestAccrued,
     RecordDailyInterest, ListExpiredOrders, SettleOrder, RenewOrder, EndRun
<1>2. SameOwned
  <2>1. CASE ActivateOrder(s)
    <3> DEFINE i == NextListed(s).order
    <3>1. /\ i \in OrderIds /\ NextListed(s) \in run[s].todo /\ run[s].phase = "activate"
          /\ orders' = orders \/ (Writes(i) /\ orders'[i].status = Running)
      BY <2>1, ActivateDoes
    <3>2. orders[i].status = Pending
      BY <3>1 DEF Apart, ListedStill
    <3> HIDE DEF i
    <3> QED
      BY <3>1, <3>2, SameOwnedRows DEF IsOpen
  <2>2. CASE UpdateInterestAccrued(s)
    <3> DEFINE i == NextListed(s).order
    <3>1. /\ i \in OrderIds
          /\ orders' = orders \/ (Writes(i) /\ orders'[i].status = orders[i].status)
      BY <2>2, AccrueDoes
    <3> HIDE DEF i
    <3> QED
      BY <3>1, SameOwnedRows DEF IsOpen
  <2>3. CASE RecordDailyInterest(s)
    <3> DEFINE i == job[s].order
    <3>1. i \in OrderIds /\ Writes(i) /\ orders'[i].status = orders[i].status
      BY <2>3, RecordDoes DEF Records
    <3> HIDE DEF i
    <3> QED
      BY <3>1, SameOwnedRows DEF IsOpen
  <2>4. CASE ~(ActivateOrder(s) \/ UpdateInterestAccrued(s) \/ RecordDailyInterest(s))
    BY <2>4, SameOwnedRows DEF Daily, StartRun, ListActiveOrders, ListExpiredOrders,
       SettleOrder, RenewOrder, EndRun
  <2> QED
    BY <2>1, <2>2, <2>3, <2>4
<1>3. /\ Others(s)
      /\ \A u \in User : /\ ReleasedOf(u, job'[s]) = ReleasedOf(u, job[s])
                         /\ PlacingOf(u, job'[s]) = PlacingOf(u, job[s])
  <2>1. NoJob.op = "none" /\ NoJob.step = "idle"
    BY DEF NoJob
  <2> USE DEF ReleasedOf, Released, PlacingOf
  <2>2. CASE job' = job
    BY <2>2 DEF Others
  <2>3. CASE UpdateInterestAccrued(s)
    <3>1. \/ job' = job
          \/ Others(s) /\ job[s] = NoJob /\ job'[s].op = "accrue" /\ job'[s].step = "record"
      BY <2>3, AccrueDoes
    <3> QED
      BY <2>1, <2>2, <3>1
  <2>4. CASE RecordDailyInterest(s)
    <3>1. Ends(s) /\ job[s].op = "accrue" /\ job[s].step = "record"
      BY <2>4, RecordDoes DEF Records
    <3> QED
      BY <2>1, <3>1 DEF Ends
  <2>5. CASE SettleOrder(s) \/ RenewOrder(s)
    <3>1. \/ job' = job
          \/ /\ Others(s) /\ job[s] = NoJob
             /\ \/ job'[s].op = "settle" /\ job'[s].step = "unfreeze"
                \/ job'[s].op = "renew" /\ job'[s].step \in {"pay", "renew"}
      BY <2>5, RepayDoes
    <3> QED
      BY <2>1, <2>2, <3>1
  <2> QED
    BY <2>2, <2>3, <2>4, <2>5
       DEF Daily, StartRun, ActivateOrder, ListActiveOrders, ListExpiredOrders, EndRun
<1> QED
  BY <1>1, <1>2, <1>3, SharesNothing

LEMMA BackedNext ==
  ASSUME TypeInv, TypeInv', OneScheduler, Apart, Undisturbed => Ledger,
         Undisturbed => Backed, [Next]_vars
  PROVE  Undisturbed' => Backed'
<1> SUFFICES ASSUME Undisturbed' PROVE Backed'
  OBVIOUS
<1>1. Ledger /\ Backed
  BY Calmed
<1>2. ASSUME NEW p \in Process, \E i \in Nat : Shares(p, i) PROVE Backed'
  BY <1>1, <1>2, BackedStep
<1>3. CASE \E p \in Call : Serve(p)
  BY <1>2, <1>3, SharesServe
<1>4. CASE \E p \in Process : Advance(p)
  BY <1>1, <1>2, <1>4, SharesAdvance
<1>5. ASSUME NEW p \in Process, Disturb(p) PROVE FALSE
  <2>1. faults' > 0
    BY <1>5, CreateFailsDoes, BookDoes, FailDoes DEF Disturb
  <2> QED
    BY <2>1 DEF Undisturbed
<1>6. CASE \E s \in Scheduler : Daily(s)
  BY <1>2, <1>6, SharesDaily
<1>7. CASE Midnight \/ EndMaintenance \/ ChangeProduct \/ LastDay \/ UNCHANGED vars
  <2>1. UNCHANGED <<orders, job, account>>
    BY <1>7 DEF Midnight, EndMaintenance, ChangeProduct, LastDay, vars
  <2>2. \A u \in User :
          /\ Units(Owned(u))' = Units(Owned(u)) /\ Total(Owned(u))' = Total(Owned(u))
          /\ Units(ToPlace(u))' = Units(ToPlace(u)) /\ Total(ToPlace(u))' = Total(ToPlace(u))
          /\ Units(ToClose(u))' = Units(ToClose(u)) /\ Total(ToClose(u))' = Total(ToClose(u))
    BY <2>1 DEF Total, Units, Owned, OwnedOf, OrderIds, IsOpen, ToPlace, PlacingOf, ToClose,
       ReleasedOf, Released
  <2>3. \A u \in User :
          (/\ IsFiniteSet(Units(Owned(u))) /\ IsFiniteSet(Units(ToPlace(u)))
           /\ IsFiniteSet(Units(ToClose(u)))
           /\ account[u].frozen + Total(ToClose(u)) = Total(Owned(u)) + Total(ToPlace(u)))'
    BY <1>1, <2>1, <2>2 DEF Backed
  <2> QED
    BY <2>3 DEF Backed
<1>8. CASE Restart
  BY <1>8, RestartDoes DEF Undisturbed
<1> QED
  BY <1>3, <1>4, <1>5, <1>6, <1>7, <1>8 DEF Next

LEMMA BackedInit ==
  ASSUME Init
  PROVE  Backed
<1>1. OrderIds = {} /\ \A p \in Process : job[p].step = "idle" /\ job[p].op = "none"
  <2>1. OrderIds = {}
    BY DEF Init, OrderIds
  <2> QED
    BY <2>1, InitKinds
<1>2. ASSUME NEW u \in User
      PROVE  /\ IsFiniteSet(Units(Owned(u))) /\ Total(Owned(u)) = 0
             /\ IsFiniteSet(Units(ToPlace(u))) /\ Total(ToPlace(u)) = 0
             /\ IsFiniteSet(Units(ToClose(u))) /\ Total(ToClose(u)) = 0
  <2>1. /\ Owned(u) \in [Nat -> Nat] /\ \A i \in Nat : Owned(u)[i] = 0
        /\ ToPlace(u) \in [Process -> Nat] /\ \A p \in Process : ToPlace(u)[p] = 0
        /\ ToClose(u) \in [Process -> Nat] /\ \A p \in Process : ToClose(u)[p] = 0
    BY <1>1 DEF Owned, OwnedOf, ToPlace, PlacingOf, ToClose, ReleasedOf, Released
  <2> QED
    BY <2>1, TotalZero
<1>3. \A u \in User : account[u].frozen = 0
  BY DEF Init
<1> QED
  BY <1>2, <1>3 DEF Backed

\* The units of a customer's open orders are the principal of those orders.
LEMMA PrincipalIsOwned ==
  ASSUME TypeInv, NEW u \in User
  PROVE  Principal({i \in OrderIds : orders[i].user = u /\ IsOpen(orders[i])}) = Total(Owned(u))
<1> DEFINE ids == {i \in OrderIds : orders[i].user = u /\ IsOpen(orders[i])}
           cells == UNION {{i} \X (1 .. orders[i].amount) : i \in ids}
<1>1. \A i \in OrderIds : i \in Nat /\ orders[i].amount \in Nat
  BY OrderFields DEF OrderIds, TypeInv
<1>2. cells = {e \in Nat \X (Nat \ {0}) : e[1] \in ids /\ e[2] <= orders[e[1]].amount}
  <2>1. ASSUME NEW e \in cells
        PROVE  e \in Nat \X (Nat \ {0}) /\ e[1] \in ids /\ e[2] <= orders[e[1]].amount
    <3>1. PICK i \in ids : e \in {i} \X (1 .. orders[i].amount)
      BY <2>1
    <3>2. i \in OrderIds /\ orders[i].amount \in Nat /\ i \in Nat
      BY <1>1, <3>1
    <3> QED
      BY <3>1, <3>2
  <2>2. ASSUME NEW e \in Nat \X (Nat \ {0}), e[1] \in ids, e[2] <= orders[e[1]].amount
        PROVE  e \in cells
    <3>1. e \in {e[1]} \X (1 .. orders[e[1]].amount)
      BY <1>1, <2>2
    <3> QED
      BY <2>2, <3>1
  <2> QED
    BY <2>1, <2>2
<1>3. Units(Owned(u)) = {e \in Nat \X (Nat \ {0}) : e[2] <= OwnedOf(u, e[1])}
  BY DEF Units, Owned
<1>4. \A i \in Nat : OwnedOf(u, i) = IF i \in ids THEN orders[i].amount ELSE 0
  BY DEF OwnedOf
<1> HIDE DEF ids, cells
<1>5. cells = Units(Owned(u))
  <2>1. ASSUME NEW e \in Nat \X (Nat \ {0})
        PROVE  (e[1] \in ids /\ e[2] <= orders[e[1]].amount) <=> e[2] <= OwnedOf(u, e[1])
    BY <1>4, <2>1
  <2> QED
    BY <1>2, <1>3, <2>1
<1> QED
  BY <1>5 DEF Principal, Total, ids, cells

\* As long as no statement fails, what is frozen on the account of a customer for
\* whom nothing is under way is the principal of his open orders, on the same terms:
\* subscribing, redeeming, settling and renewing, whatever they overlap with.
THEOREM FreezesOpenOrders ==
  ASSUME OneScheduler
  PROVE  Spec /\ []OneRedemption => [](Undisturbed => PrincipalIsFrozen)
<1>1. Init => (Undisturbed => Backed)
  BY BackedInit
<1>2. TypeInv /\ TypeInv' /\ Apart /\ (Undisturbed => Ledger) /\ (Undisturbed => Backed)
        /\ [Next]_vars => (Undisturbed => Backed)'
  BY BackedNext
<1>3. TypeInv /\ (Undisturbed => Backed) => (Undisturbed => PrincipalIsFrozen)
  <2> SUFFICES ASSUME TypeInv, Backed, NEW u \in User, Quiet(u)
               PROVE  account[u].frozen = Total(Owned(u))
    BY PrincipalIsOwned DEF PrincipalIsFrozen
  <2>1. \A p \in Process : PlacingOf(u, job[p]) = 0 /\ ReleasedOf(u, job[p]) = 0
    BY AtStep DEF Quiet, PlacingOf, ReleasedOf, Released, Subscribes
  <2>2. Total(ToPlace(u)) = 0 /\ Total(ToClose(u)) = 0
    <3>1. /\ ToPlace(u) \in [Process -> Nat] /\ \A p \in Process : ToPlace(u)[p] = 0
          /\ ToClose(u) \in [Process -> Nat] /\ \A p \in Process : ToClose(u)[p] = 0
      BY <2>1 DEF ToPlace, ToClose
    <3> QED
      BY <3>1, TotalZero
  <2>3. account[u].frozen \in Int /\ Total(Owned(u)) \in Nat
    BY FS_CardinalityType DEF TypeInv, TypeOK, Account, Backed, Total
  <2> QED
    BY <2>2, <2>3 DEF Backed
<1> QED
  BY <1>1, <1>2, <1>3, Typed, KeptApart, KeptLedger, PTL DEF Spec
=============================================================================
