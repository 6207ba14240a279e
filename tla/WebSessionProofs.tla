--------------------------- MODULE WebSessionProofs ---------------------------
(***************************************************************************)
(* Proofs about WebSession, for any number of customers, requests and      *)
(* wrong codes.  What the tab stores or is about to be told is true of     *)
(* somebody the browser has met: of m, the customers met, and r, the       *)
(* statuses each has had, both of which only grow.                         *)
(***************************************************************************)
EXTENDS WebSession, TLAPS

GoodToken(t, m) == t \in m \cup {NoUser, Undefined}
GoodOwner(o, m) == o \in m \cup {NoUser}

GoodUser(u, m, r) ==
  /\ GoodOwner(u.id, m) /\ GoodOwner(u.email, m)
  /\ u.status = "ABSENT" => u = NoStored
  /\ u.status # "ABSENT" => \E v \in m : u.status \in r[v]
  /\ u.status = "ACTIVE" => u.id \in User /\ "ACTIVE" \in r[u.id]

GoodCall(c, m, r) ==
  /\ GoodToken(c.as, m) /\ GoodOwner(c.email, m)
  /\ c.kind \in {"login", "send", "verify"} => c.as \in m
  /\ c.stage = "checked" => c.as \in m /\ c.kind \in {"verify", "contact"}
  /\ c.stage = "checked" /\ c.kind = "verify" => c.seen < MaxAttempts
  /\ c.reply \in Status => c.as \in m /\ c.reply \in r[c.as]
  /\ c.reply = "data" => c.as \in m

GoodCalls(calls, m, r) ==
  \A c \in Call : calls[c] # NoCall => GoodCall(calls[c], m, r)

Good ==
  /\ GoodToken(token, met) /\ GoodToken(memory, met)
  /\ GoodUser(user, met, reached)
  /\ GoodOwner(pending, met) /\ GoodOwner(form.email, met)
  /\ GoodCalls(call, met, reached)
  /\ \A u \in User : account[u] \in reached[u]

Inv == TypeOK /\ Good /\ DashboardIsEarned

Grown(m, r, m1, r1) == m \subseteq m1 /\ \A v \in User : r[v] \subseteq r1[v]

-----------------------------------------------------------------------------
\* What grows keeps what is true of it.

LEMMA GoodGrows ==
  ASSUME NEW m \in SUBSET User, NEW r \in [User -> SUBSET Status],
         NEW m1 \in SUBSET User, NEW r1 \in [User -> SUBSET Status],
         Grown(m, r, m1, r1)
  PROVE  /\ \A t : GoodToken(t, m) => GoodToken(t, m1)
         /\ \A o : GoodOwner(o, m) => GoodOwner(o, m1)
         /\ \A u : GoodUser(u, m, r) => GoodUser(u, m1, r1)
         /\ \A c : GoodCall(c, m, r) => GoodCall(c, m1, r1)
<1>1. \A v \in m : v \in m1 /\ v \in User /\ r[v] \subseteq r1[v]
  BY DEF Grown
<1>2. \A t : GoodToken(t, m) => GoodToken(t, m1)
  BY <1>1 DEF GoodToken
<1>3. \A o : GoodOwner(o, m) => GoodOwner(o, m1)
  BY <1>1 DEF GoodOwner
<1>4. \A u : GoodUser(u, m, r) => GoodUser(u, m1, r1)
  BY <1>1, <1>3 DEF GoodUser, Grown
<1>5. \A c : GoodCall(c, m, r) => GoodCall(c, m1, r1)
  BY <1>1, <1>2, <1>3 DEF GoodCall
<1> QED
  BY <1>2, <1>3, <1>4, <1>5

\* The calls of a step: one of them changed, what they rest on grown.
LEMMA CallsKept ==
  ASSUME Inv, NEW m1 \in SUBSET User, NEW r1 \in [User -> SUBSET Status],
         Grown(met, reached, m1, r1),
         NEW c \in Call, NEW x \in Request \cup {NoCall},
         x # NoCall => GoodCall(x, m1, r1)
  PROVE  LET calls == [call EXCEPT ![c] = x] IN
         /\ calls \in [Call -> Request \cup {NoCall}]
         /\ GoodCalls(calls, m1, r1)
<1> DEFINE calls == [call EXCEPT ![c] = x]
<1>1. call \in [Call -> Request \cup {NoCall}]
  BY DEF Inv, TypeOK
<1>2. calls \in [Call -> Request \cup {NoCall}]
  BY <1>1
<1>3. \A d \in Call : calls[d] # NoCall => GoodCall(calls[d], m1, r1)
  <2> SUFFICES ASSUME NEW d \in Call, calls[d] # NoCall
               PROVE  GoodCall(calls[d], m1, r1)
    OBVIOUS
  <2>1. CASE d = c
    BY <1>1, <2>1
  <2>2. CASE d # c
    <3>1. calls[d] = call[d]
      BY <1>1, <2>2
    <3>2. GoodCall(call[d], met, reached)
      BY <3>1 DEF Inv, Good, GoodCalls
    <3> QED
      BY <3>1, <3>2, GoodGrows DEF Inv, TypeOK
  <2> QED
    BY <2>1, <2>2
<1> QED
  BY <1>2, <1>3 DEF GoodCalls

\* A request has the fields of Request.
LEMMA CallFields ==
  ASSUME TypeOK, NEW c \in Call, call[c] # NoCall
  PROVE  /\ call[c] \in Request
         /\ call[c].as \in Token /\ call[c].email \in Owner
         /\ call[c].kind \in Kind /\ call[c].right \in BOOLEAN
         /\ call[c].here \in BOOLEAN /\ call[c].seen \in 0..MaxAttempts
         /\ call[c].stage \in {"asked", "checked", "answered"}
         /\ call[c].reply \in Status \cup {"none", "refused", "sent", "limited", "data"}
<1>1. call[c] \in Request
  BY DEF TypeOK
<1> QED
  BY <1>1 DEF Request

\* A new request is good when whoever it is for is known.
LEMMA NewCallGood ==
  ASSUME NEW kind \in Kind, NEW as, NEW email, NEW right \in BOOLEAN,
         NEW m \in SUBSET User, NEW r,
         GoodToken(as, m), GoodOwner(email, m),
         kind \in {"login", "send", "verify"} => as \in m
  PROVE  /\ NewCall(kind, as, email, right) \in Request
         /\ GoodCall(NewCall(kind, as, email, right), m, r)
<1> DEFINE n == NewCall(kind, as, email, right)
<1>1. /\ n.kind = kind /\ n.as = as /\ n.email = email /\ n.right = right
      /\ n.stage = "asked" /\ n.seen = 0 /\ n.reply = "none" /\ n.here = TRUE
  BY DEF NewCall
<1>2. as \in Token /\ email \in Owner
  BY DEF GoodToken, GoodOwner, Token, Owner
<1>3. n \in Request
  <2>1. 0 \in 0..MaxAttempts
    BY AttemptAssumption
  <2>2. n.right \in BOOLEAN /\ n.here \in BOOLEAN
    BY <1>1
  <2> QED
    BY <1>1, <1>2, <2>1, <2>2 DEF NewCall, Request
<1>4. "none" \notin Status
  BY DEF Status
<1>5. GoodCall(n, m, r)
  BY <1>1, <1>4 DEF GoodCall
<1> QED
  BY <1>3, <1>5

-----------------------------------------------------------------------------
\* Pages.

\* The requests of a page that was left are what they were.
LEMMA LeftKeeps ==
  ASSUME NEW calls \in [Call -> Request \cup {NoCall}], NEW m, NEW r,
         GoodCalls(calls, m, r)
  PROVE  /\ Left(calls) \in [Call -> Request \cup {NoCall}]
         /\ GoodCalls(Left(calls), m, r)
<1> DEFINE l == Left(calls)
<1>1. \A c \in Call : calls[c] # NoCall =>
        /\ l[c] = [calls[c] EXCEPT !.here = FALSE] /\ calls[c] \in Request
  BY DEF Left
<1>2. \A c \in Call : calls[c] = NoCall => l[c] = NoCall
  BY DEF Left
<1>3. \A c \in Call : calls[c] # NoCall =>
        /\ l[c] \in Request
        /\ l[c].as = calls[c].as /\ l[c].email = calls[c].email
        /\ l[c].kind = calls[c].kind /\ l[c].stage = calls[c].stage
        /\ l[c].seen = calls[c].seen /\ l[c].reply = calls[c].reply
  <2>1. ASSUME NEW x \in Request
        PROVE  [x EXCEPT !.here = FALSE] \in Request
    BY Zenon DEF Request
  <2>2. ASSUME NEW x \in Request, NEW y, y = [x EXCEPT !.here = FALSE]
        PROVE  /\ y.as = x.as /\ y.email = x.email /\ y.kind = x.kind
               /\ y.stage = x.stage /\ y.seen = x.seen /\ y.reply = x.reply
    BY <2>2 DEF Request
  <2>3. SUFFICES ASSUME NEW c \in Call, calls[c] # NoCall
                 PROVE  /\ l[c] \in Request
                        /\ l[c].as = calls[c].as /\ l[c].email = calls[c].email
                        /\ l[c].kind = calls[c].kind /\ l[c].stage = calls[c].stage
                        /\ l[c].seen = calls[c].seen /\ l[c].reply = calls[c].reply
    OBVIOUS
  <2>4. calls[c] \in Request /\ l[c] = [calls[c] EXCEPT !.here = FALSE]
    BY <1>1, <2>3
  <2> HIDE DEF l
  <2>5. l[c] \in Request
    BY <2>1, <2>4, Zenon
  <2> QED
    BY <2>2, <2>4, <2>5
<1>4. l \in [Call -> Request \cup {NoCall}]
  BY <1>2, <1>3 DEF Left
<1>5. \A c \in Call : l[c] # NoCall => GoodCall(l[c], m, r)
  BY <1>2, <1>3 DEF GoodCalls, GoodCall
<1> QED
  BY <1>4, <1>5 DEF GoodCalls

\* A page that asks for the customer's record adds one good request.
LEMMA AsksKeeps ==
  ASSUME NEW calls \in [Call -> Request \cup {NoCall}], NEW m \in SUBSET User, NEW r,
         GoodCalls(calls, m, r), NEW p, NEW t, GoodToken(t, m),
         NEW asked \in Asks(calls, p, t)
  PROVE  asked \in [Call -> Request \cup {NoCall}] /\ GoodCalls(asked, m, r)
<1>1. CASE p \notin DOMAIN OpenKind
  BY <1>1 DEF Asks
<1>2. CASE p \in DOMAIN OpenKind
  <2>1. OpenKind[p] \in {"me-contact", "me-approval", "assets"}
    BY <1>2 DEF OpenKind
  <2>2. PICK c \in Call : asked = [calls EXCEPT ![c] = NewCall(OpenKind[p], t, NoUser, TRUE)]
    BY <1>2 DEF Asks
  <2>3. /\ NewCall(OpenKind[p], t, NoUser, TRUE) \in Request
        /\ GoodCall(NewCall(OpenKind[p], t, NoUser, TRUE), m, r)
    <3>1. OpenKind[p] \in Kind /\ OpenKind[p] \notin {"login", "send", "verify"}
      BY <2>1 DEF Kind
    <3>2. GoodOwner(NoUser, m)
      BY DEF GoodOwner
    <3> QED
      BY <3>1, <3>2, NewCallGood
  <2> QED
    BY <2>2, <2>3 DEF GoodCalls
<1> QED
  BY <1>1, <1>2

\* Only a stored ACTIVE customer lands on the dashboard.
LEMMA LandingEarned ==
  ASSUME NEW p \in Page, NEW t, NEW u \in StoredUser, NEW m, NEW r, GoodUser(u, m, r)
  PROVE  /\ Landing(p, t, u) \in Page
         /\ Landing(p, t, u) \in Dashboard => u.id \in User /\ "ACTIVE" \in r[u.id]
<1>1. u.status \in Status \cup {"ABSENT"}
  BY DEF StoredUser
<1>2. Home(u.status) \in {"activation", "contact-info", "pending-approval", "dashboard"}
  BY DEF Home
<1>3. Home(u.status) = "dashboard" => u.status = "ACTIVE" \/ u = NoStored
  BY <1>1 DEF Home, Status, GoodUser
<1>4. Landing(p, t, u) \in Page
  BY <1>2 DEF Landing, Page, Dashboard
<1>5. Landing(p, t, u) \in Dashboard => Home(u.status) = "dashboard" /\ u # NoStored
  BY <1>2 DEF Landing, Page, Dashboard
<1> QED
  BY <1>3, <1>4, <1>5 DEF GoodUser

\* Mounting a page on good storage leaves everything good.
LEMMA MountKeeps ==
  ASSUME Inv, NEW p \in Page, NEW t \in Token, NEW u \in StoredUser, NEW e \in Owner,
         NEW calls \in [Call -> Request \cup {NoCall}],
         GoodToken(t, met), GoodUser(u, met, reached), GoodOwner(e, met),
         GoodCalls(calls, met, reached), Mount(p, t, u, e, calls),
         memory' \in Token, GoodToken(memory', met),
         cache' \in [Key -> [owner: Owner, fresh: BOOLEAN]],
         visits' \in 0..MaxVisits, UNCHANGED <<server, met>>
  PROVE  Inv'
<1> DEFINE to == Landing(p, t, u)
           t1 == IF Keeps(p, t, u) THEN t ELSE NoUser
           email == ActivationEmail(u, e)
<1>1. /\ token' = t1 /\ user' = u /\ page' = to
      /\ pending' = IF to = "activation" THEN email ELSE e
      /\ form' = [EmptyForm EXCEPT !.email = IF to = "activation" THEN email ELSE NoUser]
      /\ shown' = IF to \in Dashboard \cup {"index"} THEN u.id ELSE NoUser
      /\ call' \in Asks(calls, to, t1)
  BY DEF Mount
<1>2. to \in Page /\ (to \in Dashboard => u.id \in User /\ "ACTIVE" \in reached[u.id])
  BY LandingEarned
<1>3. met \in SUBSET User /\ GoodToken(t1, met) /\ t1 \in Token
  BY DEF Inv, TypeOK, GoodToken, Token
<1>4. /\ GoodOwner(u.id, met) /\ GoodOwner(email, met)
      /\ u.id \in Owner /\ email \in Owner
  BY <1>3 DEF GoodUser, GoodOwner, ActivationEmail, Owner
<1>5. form'.email = (IF to = "activation" THEN email ELSE NoUser) /\ form' \in Form
  BY <1>1, <1>4 DEF EmptyForm, Form, Owner
<1>6. call' \in [Call -> Request \cup {NoCall}] /\ GoodCalls(call', met, reached)
  <2> HIDE DEF to, t1
  <2> QED
    BY <1>1, <1>3, AsksKeeps
<1>7. TypeOK'
  BY <1>1, <1>2, <1>3, <1>4, <1>5, <1>6 DEF Inv, TypeOK, server, Owner
<1>8. GoodOwner(pending', met) /\ GoodOwner(form'.email, met)
  BY <1>1, <1>4, <1>5 DEF GoodOwner
<1>9. Good'
  BY <1>1, <1>3, <1>6, <1>8 DEF Inv, Good, server
<1>10. DashboardIsEarned'
  BY <1>1, <1>2 DEF DashboardIsEarned, server
<1> QED
  BY <1>7, <1>9, <1>10 DEF Inv

\* Navigation keeps everything good.
LEMMA VisitKeeps ==
  ASSUME Inv, NEW p \in Page, NEW t \in Token, NEW u \in StoredUser, NEW e \in Owner,
         NEW calls \in [Call -> Request \cup {NoCall}],
         GoodToken(t, met), GoodUser(u, met, reached), GoodOwner(e, met),
         GoodCalls(calls, met, reached), Visit(p, t, u, e, calls),
         visits' \in 0..MaxVisits, UNCHANGED <<server, memory, cache, met>>
  PROVE  Inv'
<1>1. CASE p = page
  <2>1. /\ token' = t /\ user' = u /\ pending' = e /\ call' = calls
        /\ UNCHANGED <<page, form, shown>>
    BY <1>1 DEF Visit, tab
  <2>2. TypeOK'
    BY <2>1 DEF Inv, TypeOK, server
  <2>3. Good'
    BY <2>1 DEF Inv, Good, server
  <2>4. DashboardIsEarned'
    BY <2>1 DEF Inv, DashboardIsEarned, server
  <2> QED
    BY <2>2, <2>3, <2>4 DEF Inv
<1>2. CASE p # page
  <2>1. Mount(p, t, u, e, Left(calls))
    BY <1>2 DEF Visit
  <2>2. Left(calls) \in [Call -> Request \cup {NoCall}]
    BY LeftKeeps
  <2>3. GoodCalls(Left(calls), met, reached)
    BY LeftKeeps
  <2>4. /\ memory' \in Token /\ GoodToken(memory', met)
        /\ cache' \in [Key -> [owner: Owner, fresh: BOOLEAN]]
        /\ UNCHANGED <<server, met>>
    BY DEF Inv, TypeOK, Good
  <2> HIDE DEF GoodCalls
  <2> QED
    BY <2>1, <2>2, <2>3, <2>4, MountKeeps
<1> QED
  BY <1>1, <1>2

\* A step that changes requests, the server and the customers met, and neither
\* what is stored nor what is shown.
LEMMA ServerKeeps ==
  ASSUME Inv, UNCHANGED <<storage, memory, cache, tab, visits>>,
         account' \in [User -> Status], code' \in [User -> {"none", "live", "expired"}],
         attempts' \in [User -> 0..MaxAttempts],
         met' \in SUBSET User, reached' \in [User -> SUBSET Status],
         Grown(met, reached, met', reached'),
         \A u \in User : account'[u] \in reached'[u],
         call' \in [Call -> Request \cup {NoCall}], GoodCalls(call', met', reached')
  PROVE  Inv'
<1>1. TypeOK'
  BY DEF Inv, TypeOK, storage, tab
<1>2. /\ GoodToken(token, met') /\ GoodToken(memory, met')
      /\ GoodUser(user, met', reached')
      /\ GoodOwner(pending, met') /\ GoodOwner(form.email, met')
  BY GoodGrows DEF Inv, Good, TypeOK
<1>3. Good'
  BY <1>2 DEF Good, storage, tab
<1>4. DashboardIsEarned'
  BY DEF Inv, DashboardIsEarned, tab, Grown
<1> QED
  BY <1>1, <1>3, <1>4 DEF Inv

\* As before, with one request changed and the server left alone.
LEMMA ReplyKeeps ==
  ASSUME Inv, UNCHANGED <<server, storage, memory, cache, tab, visits>>,
         met' \in SUBSET User, met \subseteq met',
         NEW c \in Call, NEW x \in Request \cup {NoCall},
         x # NoCall => GoodCall(x, met', reached),
         call' = [call EXCEPT ![c] = x]
  PROVE  Inv'
<1>1. /\ account' = account /\ code' = code /\ attempts' = attempts
      /\ reached' = reached
  BY DEF server
<1>2. Grown(met, reached, met', reached)
  BY DEF Grown
<1>3. reached \in [User -> SUBSET Status]
  BY DEF Inv, TypeOK
<1>4. call' \in [Call -> Request \cup {NoCall}] /\ GoodCalls(call', met', reached)
  BY <1>2, <1>3, CallsKept
<1>5. /\ account' \in [User -> Status] /\ code' \in [User -> {"none", "live", "expired"}]
      /\ attempts' \in [User -> 0..MaxAttempts]
      /\ \A u \in User : account'[u] \in reached'[u]
  BY <1>1 DEF Inv, Good, TypeOK
<1> QED
  BY <1>1, <1>2, <1>3, <1>4, <1>5, ServerKeeps

\* As before, for a request that is sent.
LEMMA AskKeeps ==
  ASSUME Inv, UNCHANGED <<server, storage, memory, cache, tab, visits>>,
         met' \in SUBSET User, met \subseteq met',
         NEW kind \in Kind, NEW as, NEW email, NEW right \in BOOLEAN,
         GoodToken(as, met'), GoodOwner(email, met'),
         kind \in {"login", "send", "verify"} => as \in met',
         Ask(kind, as, email, right)
  PROVE  Inv'
<1>1. PICK c \in Call : call' = [call EXCEPT ![c] = NewCall(kind, as, email, right)]
  BY DEF Ask
<1>2. /\ NewCall(kind, as, email, right) \in Request
      /\ GoodCall(NewCall(kind, as, email, right), met', reached)
  BY NewCallGood
<1> QED
  BY <1>1, <1>2, ReplyKeeps

\* As before, for a request that is answered and one that is settled.
LEMMA AnswerKeeps ==
  ASSUME Inv, UNCHANGED <<server, client>>, NEW c \in Call, call[c] # NoCall,
         NEW reply \in Status \cup {"none", "refused", "sent", "limited", "data"},
         Reply(c, reply),
         reply \in Status => call[c].as \in met /\ reply \in reached[call[c].as],
         reply = "data" => call[c].as \in met
  PROVE  Inv'
<1> DEFINE x == [call[c] EXCEPT !.stage = "answered", !.reply = reply]
<1>1. call' = [call EXCEPT ![c] = x]
  BY DEF Reply, Inv, TypeOK
<1>2. /\ x \in Request
      /\ x.as = call[c].as /\ x.email = call[c].email /\ x.kind = call[c].kind
      /\ x.stage = "answered" /\ x.reply = reply
  BY CallFields DEF Request, Inv
<1>3. GoodCall(call[c], met, reached)
  BY DEF Inv, Good, GoodCalls
<1>4. GoodCall(x, met, reached)
  BY <1>2, <1>3 DEF GoodCall
<1>5. met' = met /\ met \in SUBSET User /\ UNCHANGED <<storage, memory, cache, tab, visits>>
  BY DEF client, Inv, TypeOK
<1> HIDE DEF x
<1> QED
  BY <1>1, <1>2, <1>4, <1>5, ReplyKeeps

LEMMA SettledKeeps ==
  ASSUME Inv, NEW c \in Call
  PROVE  Settled(c) \in [Call -> Request \cup {NoCall}] /\ GoodCalls(Settled(c), met, reached)
BY DEF Settled, Inv, TypeOK, Good, GoodCalls

-----------------------------------------------------------------------------
\* The customer and time.

LEMMA BrowseKeeps ==
  ASSUME Inv, NEW p \in Page, Browse(p)
  PROVE  Inv'
<1>1. visits' \in 0..MaxVisits
  BY AttemptAssumption DEF Browse, Inv, TypeOK
<1>2. Visit(p, token, user, pending, call) /\ UNCHANGED <<server, memory, cache, met>>
  BY DEF Browse
<1> QED
  BY <1>1, <1>2, VisitKeeps DEF Inv, TypeOK, Good

\* No customer is stored.
LEMMA NoStoredGood ==
  ASSUME NEW m, NEW r
  PROVE  NoStored \in StoredUser /\ GoodUser(NoStored, m, r)
BY DEF NoStored, StoredUser, Owner, GoodUser, GoodOwner, Status

LEMMA LogoutKeeps ==
  ASSUME Inv, Logout
  PROVE  Inv'
<1>1. /\ token' = NoUser /\ user' = NoStored /\ page' = "index" /\ form' = EmptyForm
      /\ shown' = NoUser /\ call' \in {call, Left(call)}
      /\ UNCHANGED <<server, pending, memory, cache, visits, met>>
  BY DEF Logout
<1>2. call' \in [Call -> Request \cup {NoCall}] /\ GoodCalls(call', met, reached)
  BY <1>1, LeftKeeps DEF Inv, TypeOK, Good
<1>3. EmptyForm \in Form /\ EmptyForm.email = NoUser
  BY DEF EmptyForm, Form, Owner
<1>4. TypeOK'
  BY <1>1, <1>2, <1>3, NoStoredGood DEF Inv, TypeOK, server, Page, Token, Owner
<1>5. Good'
  BY <1>1, <1>2, <1>3, NoStoredGood DEF Inv, Good, server, GoodToken, GoodOwner
<1>6. DashboardIsEarned'
  BY <1>1 DEF DashboardIsEarned, Dashboard
<1> QED
  BY <1>4, <1>5, <1>6 DEF Inv

LEMMA ReloadKeeps ==
  ASSUME Inv, Reload
  PROVE  Inv'
<1> DEFINE calls == [c \in Call |-> NoCall]
<1>1. /\ Mount(page, token, user, pending, calls)
      /\ memory' = token /\ cache' = [k \in Key |-> NoEntry]
      /\ UNCHANGED <<server, met>>
  BY DEF Reload
<1>2. visits' \in 0..MaxVisits
  BY AttemptAssumption DEF Reload, Inv, TypeOK
<1>3. calls \in [Call -> Request \cup {NoCall}] /\ GoodCalls(calls, met, reached)
  BY DEF GoodCalls
<1>4. cache' \in [Key -> [owner: Owner, fresh: BOOLEAN]]
  BY <1>1 DEF NoEntry, Owner
<1> HIDE DEF calls
<1> QED
  BY <1>1, <1>2, <1>3, <1>4, MountKeeps DEF Inv, TypeOK, Good

LEMMA CustomerKeeps ==
  ASSUME Inv,
         \/ \E u \in User : SubmitLogin(u)
         \/ HandleSendCode
         \/ \E right \in BOOLEAN : HandleVerify(right)
         \/ HandleSubmit \/ HandleRefresh
         \/ \E k \in Key : UseQuery(k)
  PROVE  Inv'
<1>1. /\ met \in SUBSET User /\ form.email \in Owner
      /\ GoodToken(token, met) /\ GoodToken(memory, met) /\ GoodOwner(form.email, met)
  BY DEF Inv, TypeOK, Good, Form
<1>2. \A m : GoodOwner(NoUser, m)
  BY DEF GoodOwner
<1>3. ASSUME NEW u \in User, SubmitLogin(u) PROVE Inv'
  <2>1. met' = met \cup {u} /\ GoodToken(u, met')
    BY <1>3 DEF SubmitLogin, GoodToken
  <2>2. "login" \in Kind
    BY DEF Kind
  <2> QED
    BY <1>1, <1>2, <1>3, <2>1, <2>2, AskKeeps DEF SubmitLogin
<1>4. ASSUME HandleSendCode PROVE Inv'
  <2>1. form.email \in User /\ met' = met \cup {form.email} /\ GoodToken(form.email, met')
    BY <1>1, <1>4 DEF HandleSendCode, GoodToken, Owner
  <2>2. "send" \in Kind
    BY DEF Kind
  <2> QED
    BY <1>1, <1>2, <1>4, <2>1, <2>2, AskKeeps DEF HandleSendCode
<1>5. ASSUME NEW right \in BOOLEAN, HandleVerify(right) PROVE Inv'
  <2>1. form.email \in User /\ met' = met \cup {form.email} /\ GoodToken(form.email, met')
    BY <1>1, <1>5 DEF HandleVerify, GoodToken, Owner
  <2>2. "verify" \in Kind
    BY DEF Kind
  <2> QED
    BY <1>1, <1>2, <1>5, <2>1, <2>2, AskKeeps DEF HandleVerify
<1>6. ASSUME HandleSubmit PROVE Inv'
  <2>1. "contact" \in Kind /\ "contact" \notin {"login", "send", "verify"}
    BY DEF Kind
  <2> QED
    BY <1>1, <1>6, <2>1, AskKeeps DEF HandleSubmit
<1>7. ASSUME HandleRefresh PROVE Inv'
  <2>1. "me-approval" \in Kind /\ "me-approval" \notin {"login", "send", "verify"}
    BY DEF Kind
  <2> QED
    BY <1>1, <1>2, <1>7, <2>1, AskKeeps DEF HandleRefresh
<1>8. ASSUME NEW k \in Key, UseQuery(k) PROVE Inv'
  <2>1. k \in Kind /\ k \notin {"login", "send", "verify"}
    BY KeyAssumption DEF Kind
  <2> QED
    BY <1>1, <1>2, <1>8, <2>1, AskKeeps DEF UseQuery
<1> QED
  BY <1>3, <1>4, <1>5, <1>6, <1>7, <1>8

LEMMA TimeKeeps ==
  ASSUME Inv,
         \/ \E u \in User : CodeExpires(u)
         \/ CountdownEnds \/ MoveOn \/ Poll
         \/ \E k \in Key : EntryAges(k)
         \/ \E u \in User, status \in Status : Review(u, status)
  PROVE  Inv'
<1>1. ASSUME NEW u \in User, CodeExpires(u) PROVE Inv'
  <2>1. code' \in [User -> {"none", "live", "expired"}]
    BY <1>1 DEF CodeExpires, Inv, TypeOK
  <2>2. Grown(met, reached, met, reached)
    BY DEF Grown
  <2> QED
    BY <1>1, <2>1, <2>2, ServerKeeps DEF CodeExpires, Inv, TypeOK, Good
<1>2. ASSUME CountdownEnds PROVE Inv'
  <2>1. /\ form' = [form EXCEPT !.counting = FALSE]
        /\ UNCHANGED <<server, storage, memory, cache, page, shown, call, visits, met>>
    BY <1>2 DEF CountdownEnds
  <2>2. form' \in Form /\ form'.email = form.email
    BY <2>1 DEF Inv, TypeOK, Form
  <2>3. TypeOK' /\ Good' /\ DashboardIsEarned'
    BY <2>1, <2>2 DEF Inv, TypeOK, Good, DashboardIsEarned, server, storage
  <2> QED
    BY <2>3 DEF Inv
<1>3. ASSUME MoveOn PROVE Inv'
  <2>1. /\ Visit("contact-info", token, user, pending, call)
        /\ UNCHANGED <<server, memory, cache, visits, met>>
    BY <1>3 DEF MoveOn
  <2>2. "contact-info" \in Page
    BY DEF Page
  <2> QED
    BY <2>1, <2>2, VisitKeeps DEF Inv, TypeOK, Good
<1>4. ASSUME NEW k \in Key, EntryAges(k) PROVE Inv'
  <2>1. cache' \in [Key -> [owner: Owner, fresh: BOOLEAN]]
    <3>1. cache \in [Key -> [owner: Owner, fresh: BOOLEAN]]
      BY DEF Inv, TypeOK
    <3>2. NoEntry \in [owner: Owner, fresh: BOOLEAN]
      BY DEF NoEntry, Owner
    <3>3. [cache[k] EXCEPT !.fresh = FALSE] \in [owner: Owner, fresh: BOOLEAN]
      BY <3>1
    <3>4. \/ cache' = [cache EXCEPT ![k] = [cache[k] EXCEPT !.fresh = FALSE]]
          \/ cache' = [cache EXCEPT ![k] = NoEntry]
      BY <1>4, <3>1 DEF EntryAges
    <3> QED
      BY <3>1, <3>2, <3>3, <3>4
  <2>2. UNCHANGED <<server, storage, memory, tab, call, visits, met>>
    BY <1>4 DEF EntryAges
  <2>3. TypeOK' /\ Good' /\ DashboardIsEarned'
    BY <2>1, <2>2 DEF Inv, TypeOK, Good, DashboardIsEarned, server, storage, tab
  <2> QED
    BY <2>3 DEF Inv
<1>5. ASSUME NEW u \in User, NEW status \in Status, Review(u, status) PROVE Inv'
  <2>1. /\ account' = [account EXCEPT ![u] = status]
        /\ reached' = [reached EXCEPT ![u] = @ \cup {status}]
        /\ UNCHANGED <<code, attempts, storage, memory, cache, tab, call, visits, met>>
    BY <1>5 DEF Review
  <2>2. /\ account' \in [User -> Status] /\ reached' \in [User -> SUBSET Status]
        /\ Grown(met, reached, met, reached')
        /\ \A v \in User : account'[v] \in reached'[v]
    BY <2>1 DEF Inv, TypeOK, Good, Grown
  <2>3. GoodCalls(call, met, reached')
    BY <2>2, GoodGrows DEF Inv, TypeOK, Good, GoodCalls
  <2> QED
    BY <2>1, <2>2, <2>3, ServerKeeps DEF Inv, TypeOK
<1>6. ASSUME Poll PROVE Inv'
  <2>1. CASE token = NoUser
    <3>1. /\ Visit("login", token, user, pending, call)
          /\ UNCHANGED <<server, memory, cache, visits, met>>
      BY <1>6, <2>1 DEF Poll
    <3>2. "login" \in Page
      BY DEF Page
    <3> QED
      BY <3>1, <3>2, VisitKeeps DEF Inv, TypeOK, Good
  <2>2. CASE token # NoUser
    <3>1. /\ Ask("assets", token, NoUser, TRUE)
          /\ UNCHANGED <<server, storage, memory, cache, tab, visits, met>>
      BY <1>6, <2>2 DEF Poll
    <3>2. "assets" \in Kind /\ "assets" \notin {"login", "send", "verify"}
      BY DEF Kind
    <3>3. /\ GoodToken(token, met) /\ GoodOwner(NoUser, met) /\ met \in SUBSET User
      BY DEF Inv, TypeOK, Good, GoodOwner
    <3> QED
      BY <3>1, <3>2, <3>3, AskKeeps
  <2> QED
    BY <2>1, <2>2
<1> QED
  BY <1>1, <1>2, <1>3, <1>4, <1>5, <1>6

-----------------------------------------------------------------------------
\* The server.

\* The statements that answer and leave the server's rows alone.
LEMMA AnsweredKeeps ==
  ASSUME Inv, NEW c \in Call,
         \/ AnswerLogin(c) \/ LimitSend(c) \/ AnswerMe(c) \/ AnswerQuery(c) \/ Fail(c)
  PROVE  Inv'
<1> DEFINE Known == {"none", "refused", "sent", "limited", "data"}
<1>1. /\ met \subseteq User /\ account \in [User -> Status]
      /\ \A u \in User : account[u] \in reached[u]
  BY DEF Inv, TypeOK, Good
<1>2. call[c] # NoCall => GoodCall(call[c], met, reached)
  BY DEF Inv, Good, GoodCalls
<1>3. "sent" \notin Status /\ "limited" \notin Status /\ "refused" \notin Status /\ "data" \notin Status
  BY DEF Status
<1>4. call[c] # NoCall /\ call[c].as \in User => call[c].as \in met
  BY <1>2, NameAssumption DEF GoodCall, GoodToken
<1>5. ASSUME AnswerLogin(c) PROVE Inv'
  <2>1. /\ call[c] # NoCall /\ call[c].kind = "login"
        /\ Reply(c, account[call[c].as]) /\ UNCHANGED <<server, client>>
    BY <1>5 DEF AnswerLogin, Asked
  <2>2. call[c].as \in met /\ call[c].as \in User
    BY <1>1, <1>2, <2>1 DEF GoodCall
  <2>3. account[call[c].as] # "data" /\ account[call[c].as] \in reached[call[c].as]
    BY <1>1, <1>3, <2>2
  <2> QED
    BY <1>1, <2>1, <2>2, <2>3, AnswerKeeps
<1>6. ASSUME LimitSend(c) PROVE Inv'
  BY <1>3, <1>6, AnswerKeeps DEF LimitSend, Asked
<1>7. ASSUME AnswerMe(c) PROVE Inv'
  <2>1. /\ call[c] # NoCall /\ call[c].as \in User
        /\ Reply(c, account[call[c].as]) /\ UNCHANGED <<server, client>>
    BY <1>7 DEF AnswerMe, Asked, Admits
  <2>2. account[call[c].as] # "data" /\ account[call[c].as] \in reached[call[c].as]
    BY <1>1, <1>3, <2>1
  <2> QED
    BY <1>1, <1>4, <2>1, <2>2, AnswerKeeps
<1>8. ASSUME AnswerQuery(c) PROVE Inv'
  <2>1. /\ call[c] # NoCall /\ call[c].as \in User
        /\ Reply(c, "data") /\ UNCHANGED <<server, client>>
    BY <1>8 DEF AnswerQuery, Asked, Admits
  <2> QED
    BY <1>3, <1>4, <2>1, AnswerKeeps
<1>9. ASSUME Fail(c) PROVE Inv'
  BY <1>3, <1>9, AnswerKeeps DEF Fail
<1> QED
  BY <1>5, <1>6, <1>7, <1>8, <1>9

\* A handler that read the row has not written yet.
LEMMA CheckedKeeps ==
  ASSUME Inv, NEW c \in Call, call[c] # NoCall, NEW n \in 0..MaxAttempts,
         call[c].as \in met, call[c].kind \in {"verify", "contact"},
         call[c].kind = "verify" => n < MaxAttempts,
         call' = [call EXCEPT ![c] = [call[c] EXCEPT !.stage = "checked", !.seen = n]],
         UNCHANGED <<server, client>>
  PROVE  Inv'
<1> DEFINE x == [call[c] EXCEPT !.stage = "checked", !.seen = n]
<1>1. /\ x \in Request
      /\ x.as = call[c].as /\ x.email = call[c].email /\ x.kind = call[c].kind
      /\ x.stage = "checked" /\ x.reply = call[c].reply /\ x.seen = n
  BY CallFields DEF Request, Inv
<1>2. GoodCall(call[c], met, reached)
  BY DEF Inv, Good, GoodCalls
<1>3. GoodCall(x, met, reached)
  BY <1>1, <1>2 DEF GoodCall
<1>4. met' = met /\ met \in SUBSET User /\ UNCHANGED <<storage, memory, cache, tab, visits>>
  BY DEF client, Inv, TypeOK
<1>5. call' = [call EXCEPT ![c] = x]
  OBVIOUS
<1> HIDE DEF x
<1> QED
  BY <1>1, <1>3, <1>4, <1>5, ReplyKeeps

LEMMA ReadKeeps ==
  ASSUME Inv, NEW c \in Call, ReadForVerify(c) \/ ReadForContact(c)
  PROVE  Inv'
<1>1. /\ met \subseteq User /\ attempts \in [User -> 0..MaxAttempts]
      /\ call \in [Call -> Request \cup {NoCall}]
  BY DEF Inv, TypeOK
<1>2. call[c] # NoCall
  BY DEF ReadForVerify, ReadForContact, Asked
<1>3. GoodCall(call[c], met, reached) /\ call[c] \in Request
  BY <1>2, CallFields DEF Inv, Good, GoodCalls
<1>4. ASSUME ReadForVerify(c) PROVE Inv'
  <2>1. /\ call[c].kind = "verify" /\ attempts[call[c].as] < MaxAttempts
        /\ call' = [call EXCEPT ![c] = [call[c] EXCEPT !.stage = "checked",
                                                       !.seen = attempts[call[c].as]]]
        /\ UNCHANGED <<server, client>>
    BY <1>1, <1>4 DEF ReadForVerify, Asked, MayVerify
  <2>2. call[c].as \in met /\ attempts[call[c].as] \in 0..MaxAttempts
    BY <1>1, <1>3, <2>1 DEF GoodCall
  <2> QED
    BY <1>2, <2>1, <2>2, CheckedKeeps
<1>5. ASSUME ReadForContact(c) PROVE Inv'
  <2>1. /\ call[c].kind = "contact" /\ call[c].as \in User
        /\ call' = [call EXCEPT ![c] = [call[c] EXCEPT !.stage = "checked"]]
        /\ UNCHANGED <<server, client>>
    BY <1>1, <1>5 DEF ReadForContact, Asked, Admits
  <2>2. call[c].as \in met
    BY <1>3, <2>1, NameAssumption DEF GoodCall, GoodToken
  <2>3. call[c].seen \in 0..MaxAttempts
    BY <1>2, CallFields DEF Inv
  <2>4. [call[c] EXCEPT !.stage = "checked"]
          = [call[c] EXCEPT !.stage = "checked", !.seen = call[c].seen]
    BY <1>3 DEF Request
  <2> QED
    BY <1>2, <2>1, <2>2, <2>3, <2>4, CheckedKeeps
<1> QED
  BY <1>4, <1>5

\* The handlers that write a row: the status is told only once it is one the
\* customer has had.
LEMMA WriteKeeps ==
  ASSUME Inv, NEW c \in Call,
         AnswerSend(c) \/ WriteVerified(c) \/ WriteAttempt(c) \/ WriteContact(c)
  PROVE  Inv'
<1> DEFINE u == call[c].as
<1>1. /\ met \subseteq User /\ account \in [User -> Status]
      /\ attempts \in [User -> 0..MaxAttempts]
      /\ code \in [User -> {"none", "live", "expired"}]
      /\ reached \in [User -> SUBSET Status]
      /\ \A v \in User : account[v] \in reached[v]
      /\ call \in [Call -> Request \cup {NoCall}]
  BY DEF Inv, TypeOK, Good
<1>2. call[c] # NoCall
  BY DEF AnswerSend, WriteVerified, WriteAttempt, WriteContact, Asked, Checked
<1>3. GoodCall(call[c], met, reached) /\ call[c] \in Request
  BY <1>2, CallFields DEF Inv, Good, GoodCalls
<1>4. u \in met /\ u \in User /\ u \in Token
  BY <1>1, <1>3 DEF AnswerSend, WriteVerified, WriteAttempt, WriteContact, Asked, Checked, GoodCall, Token
<1>5. "sent" \notin Status /\ "refused" \notin Status /\ "sent" # "data" /\ "refused" # "data"
  BY DEF Status
<1>6. 0 \in 0..MaxAttempts
  BY AttemptAssumption
\* Where the reply is about a status, the customer has it afterwards.
<1>7. ASSUME NEW reply \in Status \cup {"sent", "refused"}, Reply(c, reply),
             UNCHANGED client,
             account' \in [User -> Status], code' \in [User -> {"none", "live", "expired"}],
             attempts' \in [User -> 0..MaxAttempts],
             reached' \in [User -> SUBSET Status],
             \A v \in User : reached[v] \subseteq reached'[v] /\ account'[v] \in reached'[v],
             reply \in Status => reply \in reached'[u]
      PROVE  Inv'
  <2> DEFINE x == [call[c] EXCEPT !.stage = "answered", !.reply = reply]
  <2>1. call' = [call EXCEPT ![c] = x]
    BY <1>1, <1>7 DEF Reply
  <2>2. /\ x \in Request
        /\ x.as = u /\ x.email = call[c].email /\ x.kind = call[c].kind
        /\ x.stage = "answered" /\ x.reply = reply
    BY <1>3, <1>7 DEF Request
  <2>3. Grown(met, reached, met, reached')
    BY <1>7 DEF Grown
  <2>4. GoodCall(call[c], met, reached')
    BY <1>1, <1>3, <1>7, <2>3, GoodGrows
  <2>5. reply # "data"
    BY <1>5, <1>7 DEF Status
  <2>6. GoodCall(x, met, reached')
    BY <1>4, <1>7, <2>2, <2>4, <2>5 DEF GoodCall
  <2>7. met' = met /\ UNCHANGED <<storage, memory, cache, tab, visits>>
    BY <1>7 DEF client
  <2> HIDE DEF x
  <2>8. call' \in [Call -> Request \cup {NoCall}] /\ GoodCalls(call', met, reached')
    BY <1>1, <1>7, <2>1, <2>2, <2>3, <2>6, CallsKept
  <2> QED
    BY <1>1, <1>7, <2>3, <2>7, <2>8, ServerKeeps
<1>8. ASSUME AnswerSend(c) PROVE Inv'
  <2>1. /\ Reply(c, "sent") /\ UNCHANGED <<account, reached, client>>
        /\ code' \in {code, [code EXCEPT ![u] = "live"]}
        /\ attempts' \in {attempts, [attempts EXCEPT ![u] = 0]}
    BY <1>8 DEF AnswerSend
  <2> QED
    BY <1>1, <1>5, <1>6, <1>7, <2>1
<1>9. ASSUME WriteVerified(c) PROVE Inv'
  <2>1. /\ Reply(c, "EMAIL_VERIFIED") /\ UNCHANGED client
        /\ account' = [account EXCEPT ![u] = "EMAIL_VERIFIED"]
        /\ reached' = [reached EXCEPT ![u] = reached[u] \cup {"EMAIL_VERIFIED"}]
        /\ code' = [code EXCEPT ![u] = "none"]
        /\ attempts' = [attempts EXCEPT ![u] = 0]
    BY <1>1, <1>4, <1>9 DEF WriteVerified
  <2>2. "EMAIL_VERIFIED" \in Status
    BY DEF Status
  <2>3. reached' \in [User -> SUBSET Status] /\ account' \in [User -> Status]
    BY <1>1, <2>1, <2>2
  <2>4. \A v \in User : reached[v] \subseteq reached'[v] /\ account'[v] \in reached'[v]
    BY <1>1, <1>4, <2>1
  <2>5. /\ "EMAIL_VERIFIED" \in reached'[u]
        /\ code' \in [User -> {"none", "live", "expired"}]
        /\ attempts' \in [User -> 0..MaxAttempts]
    BY <1>1, <1>4, <1>6, <2>1
  <2> QED
    BY <1>7, <2>1, <2>2, <2>3, <2>4, <2>5
<1>10. ASSUME WriteAttempt(c) PROVE Inv'
  <2>1. /\ Reply(c, "refused") /\ UNCHANGED <<account, code, reached, client>>
        /\ attempts' = [attempts EXCEPT ![u] = call[c].seen + 1]
        /\ call[c].stage = "checked" /\ call[c].kind = "verify"
    BY <1>10 DEF WriteAttempt, Checked
  <2>2. call[c].seen < MaxAttempts /\ call[c].seen \in 0..MaxAttempts
    BY <1>2, <1>3, <2>1, CallFields DEF GoodCall, Inv
  <2>3. call[c].seen + 1 \in 0..MaxAttempts
    BY <2>2, AttemptAssumption
  <2>4. attempts' \in [User -> 0..MaxAttempts]
    BY <1>1, <2>1, <2>3
  <2> QED
    BY <1>1, <1>5, <1>7, <2>1, <2>4
<1>11. ASSUME WriteContact(c) PROVE Inv'
  <2>1. /\ Reply(c, "INFO_SUBMITTED") /\ UNCHANGED <<code, attempts, client>>
        /\ account' = [account EXCEPT ![u] = "INFO_SUBMITTED"]
        /\ reached' = [reached EXCEPT ![u] = reached[u] \cup {"INFO_SUBMITTED"}]
    BY <1>1, <1>4, <1>11 DEF WriteContact
  <2>2. "INFO_SUBMITTED" \in Status
    BY DEF Status
  <2>3. reached' \in [User -> SUBSET Status] /\ account' \in [User -> Status]
    BY <1>1, <2>1, <2>2
  <2>4. \A v \in User : reached[v] \subseteq reached'[v] /\ account'[v] \in reached'[v]
    BY <1>1, <1>4, <2>1
  <2>5. "INFO_SUBMITTED" \in reached'[u]
    BY <1>1, <1>4, <2>1
  <2> QED
    BY <1>1, <1>7, <2>1, <2>2, <2>3, <2>4, <2>5
<1> QED
  BY <1>8, <1>9, <1>10, <1>11

-----------------------------------------------------------------------------
\* Answers reach the tab.

\* The customer of an answer with a status is stored with that status.
LEMMA SignedGood ==
  ASSUME TypeOK, NEW u \in met, NEW status \in Status, status \in reached[u]
  PROVE  Signed(u, status) \in StoredUser /\ GoodUser(Signed(u, status), met, reached)
<1>1. u \in User /\ "ABSENT" \notin Status
  BY DEF TypeOK, Status
<1> QED
  BY <1>1 DEF Signed, StoredUser, Owner, GoodUser, GoodOwner

\* Answers that lead to a page.
LEMMA LeadKeeps ==
  ASSUME Inv, NEW c \in Call, LoggedIn(c) \/ ReviewLoaded(c) \/ ContactSubmitted(c)
  PROVE  Inv'
<1> DEFINE r == call[c]
<1>1. /\ token \in Token /\ user \in StoredUser /\ pending \in Owner /\ page \in Page
      /\ visits \in 0..MaxVisits /\ met \subseteq User
      /\ GoodToken(token, met) /\ GoodUser(user, met, reached) /\ GoodOwner(pending, met)
  BY DEF Inv, TypeOK, Good
<1>2. /\ r # NoCall /\ r.reply \in Status /\ UNCHANGED <<server, memory, cache, visits, met>>
  BY DEF LoggedIn, ReviewLoaded, ContactSubmitted, Answered, Status
<1>3. r.as \in met /\ r.as \in User /\ r.reply \in reached[r.as] /\ GoodOwner(r.email, met)
  BY <1>1, <1>2 DEF Inv, Good, GoodCalls, GoodCall
<1>4. /\ Settled(c) \in [Call -> Request \cup {NoCall}]
      /\ GoodCalls(Settled(c), met, reached)
  BY SettledKeeps
<1>5. {"activation", "dashboard", "index", "contact-info", "pending-approval"} \subseteq Page
  BY DEF Page, Dashboard
<1>6. ASSUME LoggedIn(c) PROVE Inv'
  <2> DEFINE t == IF r.reply = "ACTIVE" THEN r.as ELSE Undefined
  <2>1. t \in Token /\ GoodToken(t, met)
    BY <1>3 DEF Token, GoodToken
  <2>2. Signed(r.as, r.reply) \in StoredUser /\ GoodUser(Signed(r.as, r.reply), met, reached)
    BY <1>2, <1>3, SignedGood DEF Inv
  <2>3. r.as \in Owner /\ GoodOwner(r.as, met)
    BY <1>3 DEF Owner, GoodOwner
  <2>4. \/ Visit("activation", t, Signed(r.as, r.reply), r.as, Settled(c))
        \/ Visit("dashboard", t, Signed(r.as, r.reply), pending, Settled(c))
    BY <1>6 DEF LoggedIn
  <2> HIDE DEF t, r
  <2> QED
    BY <1>1, <1>2, <1>4, <1>5, <2>1, <2>2, <2>3, <2>4, VisitKeeps
<1>7. ASSUME ReviewLoaded(c) PROVE Inv'
  <2>1. \/ /\ r.reply = "ACTIVE"
           /\ Visit("index", token, Signed(r.as, "ACTIVE"), pending, Settled(c))
        \/ Visit("contact-info", token, user, pending, Settled(c))
        \/ Visit(page, token, user, pending, Settled(c))
    BY <1>7 DEF ReviewLoaded
  <2>2. r.reply = "ACTIVE" =>
          /\ Signed(r.as, "ACTIVE") \in StoredUser
          /\ GoodUser(Signed(r.as, "ACTIVE"), met, reached)
    BY <1>2, <1>3, SignedGood DEF Inv
  <2> HIDE DEF r
  <2> QED
    BY <1>1, <1>2, <1>4, <1>5, <2>1, <2>2, VisitKeeps
<1>8. ASSUME ContactSubmitted(c) PROVE Inv'
  <2> DEFINE u == [id |-> user.id, email |-> r.email, status |-> "INFO_SUBMITTED"]
  <2>1. r.reply = "INFO_SUBMITTED" /\ Visit("pending-approval", token, u, pending, Settled(c))
    BY <1>8 DEF ContactSubmitted
  <2>2. r.email \in Owner
    BY <1>2, CallFields DEF Inv
  <2>3. u \in StoredUser
    BY <1>1, <2>2 DEF StoredUser, Status
  <2>4. GoodUser(u, met, reached)
    BY <1>1, <1>3, <2>1 DEF GoodUser
  <2> HIDE DEF u
  <2> QED
    BY <1>1, <1>2, <1>4, <1>5, <2>1, <2>3, <2>4, VisitKeeps
<1> QED
  BY <1>6, <1>7, <1>8

\* A refusal that signs the customer out.
LEMMA ExpelledKeeps ==
  ASSUME Inv, NEW c \in Call, Expelled(c)
  PROVE  Inv'
<1>1. /\ pending \in Owner /\ GoodOwner(pending, met) /\ visits \in 0..MaxVisits
      /\ "login" \in Page /\ NoUser \in Token /\ GoodToken(NoUser, met)
  BY DEF Inv, TypeOK, Good, Page, Token, GoodToken
<1>2. /\ Settled(c) \in [Call -> Request \cup {NoCall}]
      /\ GoodCalls(Settled(c), met, reached)
  BY SettledKeeps
<1>3. NoStored \in StoredUser /\ GoodUser(NoStored, met, reached)
  BY NoStoredGood
<1>4. /\ Visit("login", NoUser, NoStored, pending, Settled(c))
      /\ visits' = visits /\ UNCHANGED <<server, memory, cache, met>>
  BY DEF Expelled
<1> QED
  BY <1>1, <1>2, <1>3, <1>4, VisitKeeps

\* Answers that stay on the page.
LEMMA StayKeeps ==
  ASSUME Inv, NEW c \in Call,
         \/ CodeSent(c) \/ Verified(c) \/ ContactLoaded(c)
         \/ \E k \in Key : Fetched(c, k)
         \/ AssetsLoaded(c) \/ Refused(c)
  PROVE  Inv'
<1> DEFINE r == call[c]
<1>1. /\ form \in Form /\ met \subseteq User /\ GoodOwner(form.email, met)
      /\ cache \in [Key -> [owner: Owner, fresh: BOOLEAN]]
  BY DEF Inv, TypeOK, Good
<1>2. r # NoCall /\ GoodCall(r, met, reached) /\ UNCHANGED <<server, visits, met>>
  BY DEF CodeSent, Verified, ContactLoaded, Fetched, AssetsLoaded, Refused, Answered,
         client, Inv, Good, GoodCalls
<1>3. call' = Settled(c)
  BY DEF CodeSent, Verified, ContactLoaded, Fetched, AssetsLoaded, Refused
<1>4. call' \in [Call -> Request \cup {NoCall}] /\ GoodCalls(call', met, reached)
  BY <1>3, SettledKeeps
\* The page stays, and what is stored stays good.
<1>5. ASSUME UNCHANGED <<page, shown>>,
             token' \in Token, user' \in StoredUser, pending' \in Owner, memory' \in Token,
             cache' \in [Key -> [owner: Owner, fresh: BOOLEAN]], form' \in Form,
             GoodToken(token', met), GoodToken(memory', met), GoodUser(user', met, reached),
             GoodOwner(pending', met), GoodOwner(form'.email, met)
      PROVE  Inv'
  <2>1. TypeOK'
    BY <1>2, <1>4, <1>5 DEF Inv, TypeOK, server
  <2>2. Good'
    BY <1>2, <1>4, <1>5 DEF Inv, Good, server
  <2>3. DashboardIsEarned'
    BY <1>2, <1>5 DEF Inv, DashboardIsEarned, server
  <2> QED
    BY <2>1, <2>2, <2>3 DEF Inv
<1>6. ASSUME UNCHANGED <<storage, memory, cache, page, shown>>, form' \in Form,
             GoodOwner(form'.email, met)
      PROVE  Inv'
  BY <1>5, <1>6 DEF storage, Inv, TypeOK, Good
<1>7. ASSUME CodeSent(c) PROVE Inv'
  <2>1. /\ UNCHANGED <<storage, memory, cache, page, shown>>
        /\ form' \in {form, [form EXCEPT !.counting = TRUE,
                                         !.sent = form.sent \/ r.reply = "sent"]}
    BY <1>1, <1>7 DEF CodeSent, Form
  <2>2. form' \in Form /\ form'.email = form.email
    BY <1>1, <2>1 DEF Form
  <2> QED
    BY <1>1, <1>6, <2>1, <2>2
<1>8. ASSUME Verified(c) PROVE Inv'
  <2>1. /\ memory' = r.as /\ token' = r.as /\ user' = Signed(r.as, "EMAIL_VERIFIED")
        /\ pending' = NoUser /\ r.reply = "EMAIL_VERIFIED"
        /\ UNCHANGED <<cache, page, shown>>
        /\ form' = [form EXCEPT !.activated = form.activated \/ r.here]
    BY <1>1, <1>8 DEF Verified, Form
  <2>2. "EMAIL_VERIFIED" \in Status
    BY DEF Status
  <2>3. r.as \in met /\ r.as \in User /\ "EMAIL_VERIFIED" \in reached[r.as]
    BY <1>1, <1>2, <2>1, <2>2 DEF GoodCall
  <2>4. user' \in StoredUser /\ GoodUser(user', met, reached)
    BY <2>1, <2>2, <2>3, SignedGood DEF Inv
  <2>5. r.here \in BOOLEAN
    BY <1>2, CallFields DEF Inv
  <2>6. form' \in Form /\ form'.email = form.email
    BY <1>1, <2>1, <2>5 DEF Form
  <2> HIDE DEF r
  <2>7. token' \in Token /\ memory' \in Token /\ GoodToken(token', met) /\ GoodToken(memory', met)
    BY <2>1, <2>3 DEF Token, GoodToken
  <2>8. pending' \in Owner /\ GoodOwner(pending', met) /\ GoodOwner(form'.email, met)
    BY <1>1, <2>1, <2>6 DEF Owner, GoodOwner
  <2> QED
    BY <1>1, <1>5, <2>1, <2>4, <2>6, <2>7, <2>8
<1>9. ASSUME ContactLoaded(c) PROVE Inv'
  <2>1. /\ UNCHANGED <<storage, memory, cache, page, shown>> /\ r.reply \in Status
        /\ form' \in {form, [form EXCEPT !.email = r.as]}
    BY <1>9 DEF ContactLoaded
  <2>2. r.as \in met /\ r.as \in User
    BY <1>1, <1>2, <2>1 DEF GoodCall
  <2>3. form' \in Form /\ form'.email \in {form.email, r.as}
    BY <1>1, <2>1, <2>2 DEF Form, Owner
  <2> QED
    BY <1>1, <1>6, <2>1, <2>2, <2>3 DEF GoodOwner
<1>10. ASSUME NEW k \in Key, Fetched(c, k) PROVE Inv'
  <2>1. /\ UNCHANGED <<storage, memory, tab>> /\ r.reply = "data"
        /\ cache' = [cache EXCEPT ![k] = [owner |-> r.as, fresh |-> TRUE]]
    BY <1>10 DEF Fetched
  <2>2. r.as \in Owner
    BY <1>1, <1>2, <2>1 DEF GoodCall, Owner
  <2>3. cache' \in [Key -> [owner: Owner, fresh: BOOLEAN]]
    BY <1>1, <2>1, <2>2
  <2> QED
    BY <1>5, <2>1, <2>3 DEF storage, tab, Inv, TypeOK, Good
<1>11. ASSUME AssetsLoaded(c) \/ Refused(c) PROVE Inv'
  <2>1. UNCHANGED <<storage, memory, cache, tab>>
    BY <1>11 DEF AssetsLoaded, Refused, client
  <2> QED
    BY <1>1, <1>6, <2>1 DEF tab
<1> QED
  BY <1>7, <1>8, <1>9, <1>10, <1>11

-----------------------------------------------------------------------------
\* The theorems.

LEMMA InvStarts == Init => Inv
<1> SUFFICES ASSUME Init PROVE Inv
  OBVIOUS
<1>1. 0 \in 0..MaxAttempts /\ 0 \in 0..MaxVisits
  BY AttemptAssumption
<1>2. account \in [User -> Status] /\ reached \in [User -> SUBSET Status]
  BY StartAssumption DEF Init, Status
<1>3. EmptyForm \in Form /\ EmptyForm.email = NoUser
  BY DEF EmptyForm, Form, Owner
<1>4. cache \in [Key -> [owner: Owner, fresh: BOOLEAN]]
  BY DEF Init, NoEntry, Owner
<1>5. TypeOK
  BY <1>1, <1>2, <1>3, <1>4, NoStoredGood DEF Init, TypeOK, Token, Owner, Page
<1>6. Good
  BY <1>3, NoStoredGood DEF Init, Good, GoodToken, GoodOwner, GoodCalls
<1>7. DashboardIsEarned
  BY DEF Init, DashboardIsEarned, Dashboard
<1> QED
  BY <1>5, <1>6, <1>7 DEF Inv

LEMMA InvIsKept == Inv /\ [Next]_vars => Inv'
<1> SUFFICES ASSUME Inv, [Next]_vars PROVE Inv'
  OBVIOUS
<1>1. CASE UNCHANGED vars
  <2>1. UNCHANGED <<server, storage, memory, cache, tab, call, visits, met>>
    BY <1>1 DEF vars
  <2>2. TypeOK' /\ Good' /\ DashboardIsEarned'
    BY <2>1 DEF Inv, TypeOK, Good, DashboardIsEarned, server, storage, tab
  <2> QED
    BY <2>2 DEF Inv
<1>2. CASE \E p \in Page : Browse(p)
  BY <1>2, BrowseKeeps
<1>3. CASE Logout \/ Reload
  BY <1>3, LogoutKeeps, ReloadKeeps
<1>4. CASE \/ \E u \in User : SubmitLogin(u)
           \/ HandleSendCode
           \/ \E right \in BOOLEAN : HandleVerify(right)
           \/ HandleSubmit \/ HandleRefresh
           \/ \E k \in Key : UseQuery(k)
  BY <1>4, CustomerKeeps
<1>5. CASE \/ \E u \in User : CodeExpires(u)
           \/ CountdownEnds \/ MoveOn \/ Poll
           \/ \E k \in Key : EntryAges(k)
           \/ \E u \in User, status \in Status : Review(u, status)
  BY <1>5, TimeKeeps
<1>6. ASSUME NEW c \in Call,
             \/ AnswerLogin(c) \/ AnswerSend(c) \/ LimitSend(c)
             \/ ReadForVerify(c) \/ WriteVerified(c) \/ WriteAttempt(c)
             \/ AnswerMe(c) \/ ReadForContact(c) \/ WriteContact(c)
             \/ AnswerQuery(c) \/ Fail(c)
      PROVE  Inv'
  BY <1>6, AnsweredKeeps, ReadKeeps, WriteKeeps
<1>7. ASSUME NEW c \in Call,
             \/ LoggedIn(c) \/ CodeSent(c) \/ Verified(c) \/ ContactLoaded(c)
             \/ ReviewLoaded(c) \/ ContactSubmitted(c)
             \/ \E k \in Key : Fetched(c, k)
             \/ AssetsLoaded(c) \/ Expelled(c) \/ Refused(c)
      PROVE  Inv'
  BY <1>7, LeadKeeps, StayKeeps, ExpelledKeeps
<1> QED
  BY <1>1, <1>2, <1>3, <1>4, <1>5, <1>6, <1>7 DEF Next

\* Every variable keeps its type; a customer's wrong codes never exceed the limit
\* although each is written from the number read before (activation_service.go).
THEOREM WebTyped == Spec => []TypeOK
<1>1. Inv => TypeOK
  BY DEF Inv
<1> QED
  BY <1>1, InvStarts, InvIsKept, PTL DEF Spec

\* The dashboard is shown only to a customer the operator has once let in, for
\* any number of customers and requests (DashboardLayout.tsx).
THEOREM DashboardsAreEarned == Spec => []DashboardIsEarned
<1>1. Inv => DashboardIsEarned
  BY DEF Inv
<1> QED
  BY <1>1, InvStarts, InvIsKept, PTL DEF Spec

\* In a browser of one customer the status stored is one he has had
\* (Activation.tsx, ContactInfo.tsx, PendingApproval.tsx).
THEOREM StatusesAreReal == Spec => []StoredStatusIsReal
<1>1. Inv => StoredStatusIsReal
  <2> SUFFICES ASSUME Inv, NEW u \in User, met \subseteq {u}
               PROVE  /\ user.id \in {u, NoUser}
                      /\ user.status # "ABSENT" => user.status \in reached[u]
    BY DEF StoredStatusIsReal
  <2>1. GoodUser(user, met, reached)
    BY DEF Inv, Good
  <2>2. user.id \in {u, NoUser}
    BY <2>1 DEF GoodUser, GoodOwner
  <2>3. user.status # "ABSENT" => user.status \in reached[u]
    BY <2>1 DEF GoodUser
  <2> QED
    BY <2>2, <2>3
<1> QED
  BY <1>1, InvStarts, InvIsKept, PTL DEF Spec
=============================================================================
