----------------------------- MODULE WebSession -----------------------------
(***************************************************************************)
(* One browser tab of the web front end: signing in, activating an         *)
(* account, the review of a customer and the deposit page, with the user   *)
(* rows of the server.  What the tab knows is in four places with four     *)
(* lives: localStorage (token, user, pending) survives a reload, the token *)
(* manager and the query cache live as long as the document, a form as     *)
(* long as its page.  Nothing ties an answer to the page that asked: it is *)
(* delivered after the page was left, to storage and to the router alike.  *)
(***************************************************************************)
EXTENDS Naturals

CONSTANTS
  User,         \* customers who use the tab; a token stands for its owner
  Call,         \* requests in flight at once
  Key,          \* what the query client keeps: "address", "deposits"
  MaxAttempts,  \* wrong activation codes before the lockout
  NoUser,       \* no customer, no token, no address
  Undefined,    \* the text "undefined", stored as a token
  NoCall,       \* no request
  Start,        \* bound: the statuses customers start in
  MaxVisits     \* bound: pages opened or reloaded by the customer

ASSUME NameAssumption ==
  /\ NoUser \notin User /\ Undefined \notin User /\ NoUser # Undefined
ASSUME KeyAssumption == Key \subseteq {"address", "deposits"}
ASSUME StartAssumption ==
  Start \subseteq {"PENDING", "EMAIL_VERIFIED", "INFO_SUBMITTED", "ACTIVE"}
ASSUME AttemptAssumption == MaxAttempts \in Nat \ {0} /\ MaxVisits \in Nat

VARIABLES
  account,   \* server: users.status
  code,      \* server: the activation code, locked out ones included
  attempts,  \* server: users.activation_attempts
  token, user, pending,  \* localStorage: token, user, pendingActivationEmail
  memory,    \* tokenManager.state.accessToken
  cache,     \* the query client, by query key
  page, form,  \* the page shown and the state of its component
  shown,     \* the customer named in the header
  call,      \* requests, answered ones included until they are delivered
  visits,
  met,       \* history: customers the browser has dealt with
  reached    \* history: the statuses each customer has had

server == <<account, code, attempts, reached>>
storage == <<token, user, pending>>
tab == <<page, form, shown>>
vars == <<server, storage, memory, cache, tab, call, visits, met>>

Status == {"PENDING", "EMAIL_VERIFIED", "INFO_SUBMITTED", "ACTIVE"}
Dashboard == {"dashboard", "deposit"}
Page == Dashboard \cup {"index", "login", "activation", "contact-info", "pending-approval"}
Kind == Key \cup {"login", "send", "verify", "contact", "me-contact", "me-approval",
                "assets"}

Token == User \cup {NoUser, Undefined}
Owner == User \cup {NoUser}
StoredUser == [id: Owner, email: Owner, status: Status \cup {"ABSENT"}]
NoStored == [id |-> NoUser, email |-> NoUser, status |-> "ABSENT"]
Form == [email: Owner, sent: BOOLEAN, counting: BOOLEAN, activated: BOOLEAN]
EmptyForm == [email |-> NoUser, sent |-> FALSE, counting |-> FALSE, activated |-> FALSE]
NoEntry == [owner |-> NoUser, fresh |-> FALSE]
Request == [kind: Kind, as: Token, email: Owner, right: BOOLEAN,
            stage: {"asked", "checked", "answered"}, seen: 0..MaxAttempts,
            reply: Status \cup {"none", "refused", "sent", "limited", "data"},
            here: BOOLEAN]

TypeOK ==
  /\ account \in [User -> Status]
  /\ code \in [User -> {"none", "live", "expired"}]
  /\ attempts \in [User -> 0..MaxAttempts]
  /\ token \in Token /\ user \in StoredUser /\ pending \in Owner
  /\ memory \in Token
  /\ cache \in [Key -> [owner: Owner, fresh: BOOLEAN]]
  /\ page \in Page /\ form \in Form /\ shown \in Owner
  /\ call \in [Call -> Request \cup {NoCall}]
  /\ visits \in 0..MaxVisits
  /\ met \in SUBSET User /\ reached \in [User -> SUBSET Status]

Init ==
  /\ account \in [User -> Start]
  /\ code = [u \in User |-> "none"]
  /\ attempts = [u \in User |-> 0]
  /\ token = NoUser /\ user = NoStored /\ pending = NoUser
  /\ memory = NoUser
  /\ cache = [k \in Key |-> NoEntry]
  /\ page = "index" /\ form = EmptyForm /\ shown = NoUser
  /\ call = [c \in Call |-> NoCall]
  /\ visits = 0
  /\ met = {}
  /\ reached = [u \in User |-> {account[u]}]

-----------------------------------------------------------------------------
\* Pages.

\* Mistake: a customer under review is let in.
BugHome(status) ==
  CASE status = "PENDING" -> "activation"
    [] status = "EMAIL_VERIFIED" -> "contact-info"
    [] OTHER -> "dashboard"

\* Where the layout of the dashboard sends a customer of a status.
Home(status) ==
  CASE status = "PENDING" -> "activation"
    [] status = "EMAIL_VERIFIED" -> "contact-info"
    [] status = "INFO_SUBMITTED" -> "pending-approval"
    [] OTHER -> "dashboard"

\* A token without a user is given up by the layout.
Keeps(p, t, u) == ~(p \in Dashboard /\ t # NoUser /\ u = NoStored)

\* The page a navigation ends on: the effects of the layout and of Login move on.
Landing(p, t, u) ==
  CASE p \in Dashboard /\ (t = NoUser \/ u = NoStored) -> "login"
    [] p \in Dashboard /\ Home(u.status) # "dashboard" -> Home(u.status)
    [] p = "login" /\ t # NoUser -> "index"
    [] OTHER -> p

\* The email Activation works for: the stored customer's, or the one kept.
ActivationEmail(u, e) == IF u.email # NoUser THEN u.email ELSE e

\* A request is sent. Answers are delivered to any page, but a component that
\* was left shows none (here).
NewCall(kind, as, email, right) ==
  [kind |-> kind, as |-> as, email |-> email, right |-> right, stage |-> "asked",
   seen |-> 0, reply |-> "none", here |-> TRUE]

Left(calls) ==
  [c \in Call |-> IF calls[c] = NoCall THEN NoCall ELSE [calls[c] EXCEPT !.here = FALSE]]

\* The pages of the review ask for the customer's own record when they open,
\* the overview for his assets.
OpenKind == [p \in {"contact-info", "pending-approval", "dashboard"} |->
               CASE p = "contact-info" -> "me-contact"
                 [] p = "pending-approval" -> "me-approval"
                 [] p = "dashboard" -> "assets"]

Asks(calls, p, t) ==
  IF p \notin DOMAIN OpenKind THEN {calls}
  ELSE {[calls EXCEPT ![c] = NewCall(OpenKind[p], t, NoUser, TRUE)] :
          c \in {d \in Call : calls[d] = NoCall}}

\* A page is mounted with storage holding t, u and e: its effects run at once.
Mount(p, t, u, e, calls) ==
  LET to == Landing(p, t, u)
      t1 == IF Keeps(p, t, u) THEN t ELSE NoUser
      email == ActivationEmail(u, e)
  IN  /\ token' = t1 /\ user' = u
      /\ page' = to
      /\ pending' = IF to = "activation" THEN email ELSE e
      /\ form' = [EmptyForm EXCEPT !.email = IF to = "activation" THEN email ELSE NoUser]
      /\ shown' = IF to \in Dashboard \cup {"index"} THEN u.id ELSE NoUser
      /\ call' \in Asks(calls, to, t1)

\* Navigation leaves one page for another; to the page shown it mounts nothing.
Visit(p, t, u, e, calls) ==
  IF p = page
  THEN /\ token' = t /\ user' = u /\ pending' = e
       /\ call' = calls
       /\ UNCHANGED tab
  ELSE Mount(p, t, u, e, Left(calls))

\* A component has at most one request of a kind: its button is disabled meanwhile.
Busy(kind) == \E c \in Call : call[c] # NoCall /\ call[c].here /\ call[c].kind = kind
Ask(kind, as, email, right) ==
  \E c \in Call :
    /\ call[c] = NoCall
    /\ call' = [call EXCEPT ![c] = NewCall(kind, as, email, right)]
-----------------------------------------------------------------------------
\* The customer.

Browse(p) ==
  /\ visits < MaxVisits /\ p # page
  /\ visits' = visits + 1
  /\ Visit(p, token, user, pending, call)
  /\ UNCHANGED <<server, memory, cache, met>>

\* The header offers it to the customer it names.
Logout ==
  /\ shown # NoUser
  /\ token' = NoUser /\ user' = NoStored
  /\ page' = "index" /\ form' = EmptyForm /\ shown' = NoUser
  /\ call' = IF page = "index" THEN call ELSE Left(call)
  /\ UNCHANGED <<server, pending, memory, cache, visits, met>>

\* A reload starts a new document: the token manager reads localStorage.
Reload ==
  /\ visits < MaxVisits
  /\ visits' = visits + 1
  /\ Mount(page, token, user, pending, [c \in Call |-> NoCall])
  /\ memory' = token
  /\ cache' = [k \in Key |-> NoEntry]
  /\ UNCHANGED <<server, met>>

SubmitLogin(u) ==
  /\ page = "login" /\ ~Busy("login")
  /\ Ask("login", u, NoUser, TRUE)
  /\ met' = met \cup {u}
  /\ UNCHANGED <<server, storage, memory, cache, tab, visits>>

HandleSendCode ==
  /\ page = "activation" /\ ~form.activated /\ ~Busy("send")
  /\ form.email # NoUser
  /\ form.sent => ~form.counting
  /\ Ask("send", form.email, NoUser, TRUE)
  /\ met' = met \cup {form.email}
  /\ UNCHANGED <<server, storage, memory, cache, tab, visits>>

\* With the code of the mail, or another one.
HandleVerify(right) ==
  /\ page = "activation" /\ ~form.activated /\ ~Busy("verify")
  /\ form.email # NoUser
  /\ Ask("verify", form.email, NoUser, right)
  /\ met' = met \cup {form.email}
  /\ UNCHANGED <<server, storage, memory, cache, tab, visits>>

\* The form is shown once the customer's record has been asked for. Without a
\* token in the token manager the service refuses and nothing is sent.
HandleSubmit ==
  /\ page = "contact-info" /\ ~Busy("me-contact") /\ ~Busy("contact")
  /\ memory # NoUser
  /\ Ask("contact", memory, form.email, TRUE)
  /\ UNCHANGED <<server, storage, memory, cache, tab, visits, met>>

HandleRefresh ==
  /\ page = "pending-approval" /\ ~Busy("me-approval")
  /\ Ask("me-approval", token, NoUser, TRUE)
  /\ UNCHANGED <<server, storage, memory, cache, tab, visits, met>>

\* A component of the deposit page is mounted, or retried: the query client
\* fetches unless it has a fresh entry or a fetch under way, whoever asked.
UseQuery(k) ==
  /\ page = "deposit" /\ token # NoUser
  /\ ~cache[k].fresh
  /\ \A c \in Call : call[c] # NoCall => call[c].kind # k
  /\ Ask(k, token, NoUser, TRUE)
  /\ UNCHANGED <<server, storage, memory, cache, tab, visits, met>>

-----------------------------------------------------------------------------
\* Time.

\* A code, or the lockout after too many wrong ones, runs out.
CodeExpires(u) ==
  /\ code[u] = "live"
  /\ code' = [code EXCEPT ![u] = "expired"]
  /\ UNCHANGED <<account, attempts, reached, storage, memory, cache, tab, call, visits, met>>

CountdownEnds ==
  /\ form.counting
  /\ form' = [form EXCEPT !.counting = FALSE]
  /\ UNCHANGED <<server, storage, memory, cache, page, shown, call, visits, met>>

\* The page of a verified customer moves on by itself.
MoveOn ==
  /\ page = "activation" /\ form.activated
  /\ Visit("contact-info", token, user, pending, call)
  /\ UNCHANGED <<server, memory, cache, visits, met>>

\* The overview asks again every minute, whatever is still under way.
Poll ==
  /\ page = "dashboard"
  /\ IF token = NoUser
     THEN Visit("login", token, user, pending, call)
     ELSE Ask("assets", token, NoUser, TRUE) /\ UNCHANGED <<storage, tab>>
  /\ UNCHANGED <<server, memory, cache, visits, met>>

\* An entry gets stale, and is dropped some time after its last use.
EntryAges(k) ==
  /\ cache[k].owner # NoUser
  /\ \/ cache[k].fresh /\ cache' = [cache EXCEPT ![k].fresh = FALSE]
     \/ page # "deposit" /\ cache' = [cache EXCEPT ![k] = NoEntry]
  /\ UNCHANGED <<server, storage, memory, tab, call, visits, met>>

\* The operator decides on a customer under review.
Review(u, status) ==
  /\ account[u] = "INFO_SUBMITTED" /\ status \in {"ACTIVE", "EMAIL_VERIFIED"}
  /\ account' = [account EXCEPT ![u] = status]
  /\ reached' = [reached EXCEPT ![u] = @ \cup {status}]
  /\ UNCHANGED <<code, attempts, storage, memory, cache, tab, call, visits, met>>

-----------------------------------------------------------------------------
\* The server.

Asked(c, kind) == call[c] # NoCall /\ call[c].stage = "asked" /\ call[c].kind = kind
Checked(c, kind) == call[c] # NoCall /\ call[c].stage = "checked" /\ call[c].kind = kind
Reply(c, reply) ==
  call' = [call EXCEPT ![c] = [@ EXCEPT !.stage = "answered", !.reply = reply]]
client == <<storage, memory, cache, tab, visits, met>>

\* What the middleware lets through: a customer under review sees only the
\* endpoints of the review.
Admits(as, review) ==
  /\ as \in User
  /\ \/ account[as] = "ACTIVE"
     \/ review /\ account[as] \in {"EMAIL_VERIFIED", "INFO_SUBMITTED"}

\* The right password is accepted in any status; only ACTIVE gets a token.
AnswerLogin(c) ==
  /\ Asked(c, "login")
  /\ Reply(c, account[call[c].as])
  /\ UNCHANGED <<server, client>>

AnswerSend(c) ==
  LET u == call[c].as IN
  /\ Asked(c, "send")
  /\ IF account[u] = "ACTIVE" THEN UNCHANGED <<code, attempts>>
     ELSE /\ code' = [code EXCEPT ![u] = "live"]
          /\ attempts' = [attempts EXCEPT ![u] = 0]
  /\ Reply(c, "sent")
  /\ UNCHANGED <<account, reached, client>>

\* The limits per address and per client; their windows are left out.
LimitSend(c) ==
  /\ Asked(c, "send")
  /\ Reply(c, "limited")
  /\ UNCHANGED <<server, client>>

\* Mistake: the lockout is forgotten.
BugMayVerify(u) == account[u] # "ACTIVE" /\ code[u] = "live"

MayVerify(u) == account[u] # "ACTIVE" /\ code[u] = "live" /\ attempts[u] < MaxAttempts

\* VerifyActivationCode reads the row, checks, and writes in a later statement.
ReadForVerify(c) ==
  /\ Asked(c, "verify") /\ MayVerify(call[c].as)
  /\ call' = [call EXCEPT ![c] = [@ EXCEPT !.stage = "checked",
                                            !.seen = attempts[call[c].as]]]
  /\ UNCHANGED <<server, client>>

WriteVerified(c) ==
  LET u == call[c].as IN
  /\ Checked(c, "verify") /\ call[c].right
  /\ account' = [account EXCEPT ![u] = "EMAIL_VERIFIED"]
  /\ reached' = [reached EXCEPT ![u] = @ \cup {"EMAIL_VERIFIED"}]
  /\ code' = [code EXCEPT ![u] = "none"]
  /\ attempts' = [attempts EXCEPT ![u] = 0]
  /\ Reply(c, "EMAIL_VERIFIED")
  /\ UNCHANGED client

WriteAttempt(c) ==
  LET u == call[c].as IN
  /\ Checked(c, "verify") /\ ~call[c].right
  /\ attempts' = [attempts EXCEPT ![u] = call[c].seen + 1]
  /\ Reply(c, "refused")
  /\ UNCHANGED <<account, code, reached, client>>

AnswerMe(c) ==
  /\ Asked(c, "me-contact") \/ Asked(c, "me-approval")
  /\ Admits(call[c].as, TRUE)
  /\ Reply(c, account[call[c].as])
  /\ UNCHANGED <<server, client>>

\* SubmitContactInfo too checks the status it read and writes later.
ReadForContact(c) ==
  /\ Asked(c, "contact") /\ Admits(call[c].as, TRUE)
  /\ account[call[c].as] = "EMAIL_VERIFIED"
  /\ call' = [call EXCEPT ![c] = [@ EXCEPT !.stage = "checked"]]
  /\ UNCHANGED <<server, client>>

WriteContact(c) ==
  LET u == call[c].as IN
  /\ Checked(c, "contact")
  /\ account' = [account EXCEPT ![u] = "INFO_SUBMITTED"]
  /\ reached' = [reached EXCEPT ![u] = @ \cup {"INFO_SUBMITTED"}]
  /\ Reply(c, "INFO_SUBMITTED")
  /\ UNCHANGED <<code, attempts, client>>

AnswerQuery(c) ==
  /\ \E k \in Key \cup {"assets"} : Asked(c, k)
  /\ Admits(call[c].as, FALSE)
  /\ Reply(c, "data")
  /\ UNCHANGED <<server, client>>

\* A request is refused, fails, or its answer is lost after it was carried out.
Fail(c) ==
  /\ call[c] # NoCall /\ call[c].reply # "refused"
  /\ Reply(c, "refused")
  /\ UNCHANGED <<server, client>>

-----------------------------------------------------------------------------
\* Answers reach the tab.

Answered(c, kind) == call[c] # NoCall /\ call[c].stage = "answered" /\ call[c].kind = kind
Settled(c) == [call EXCEPT ![c] = NoCall]
Signed(u, status) == [id |-> u, email |-> u, status |-> status]

\* Only an ACTIVE customer's answer has a token; the others store its absence.
LoggedIn(c) ==
  LET r == call[c]
      t == IF r.reply = "ACTIVE" THEN r.as ELSE Undefined
  IN  /\ Answered(c, "login") /\ r.reply \in Status
      /\ IF r.reply = "PENDING"
         THEN Visit("activation", t, Signed(r.as, r.reply), r.as, Settled(c))
         ELSE Visit("dashboard", t, Signed(r.as, r.reply), pending, Settled(c))
      /\ UNCHANGED <<server, memory, cache, visits, met>>

CodeSent(c) ==
  /\ Answered(c, "send") /\ call[c].reply \in {"sent", "limited"}
  /\ call' = Settled(c)
  /\ form' = IF ~call[c].here THEN form
             ELSE [form EXCEPT !.counting = TRUE,
                               !.sent = @ \/ call[c].reply = "sent"]
  /\ UNCHANGED <<server, storage, memory, cache, page, shown, visits, met>>

Verified(c) ==
  LET u == call[c].as IN
  /\ Answered(c, "verify") /\ call[c].reply = "EMAIL_VERIFIED"
  /\ call' = Settled(c)
  /\ memory' = u /\ token' = u
  /\ user' = Signed(u, "EMAIL_VERIFIED") /\ pending' = NoUser
  /\ form' = [form EXCEPT !.activated = @ \/ call[c].here]
  /\ UNCHANGED <<server, cache, page, shown, visits, met>>

ContactLoaded(c) ==
  /\ Answered(c, "me-contact") /\ call[c].reply \in Status
  /\ call' = Settled(c)
  /\ form' = IF call[c].here THEN [form EXCEPT !.email = call[c].as] ELSE form
  /\ UNCHANGED <<server, storage, memory, cache, page, shown, visits, met>>

\* The status decides where the customer goes, and only ACTIVE is stored.
ReviewLoaded(c) ==
  LET r == call[c] IN
  /\ Answered(c, "me-approval") /\ r.reply \in Status
  /\ CASE r.reply = "ACTIVE" ->
            Visit("index", token, Signed(r.as, "ACTIVE"), pending, Settled(c))
       [] r.reply = "EMAIL_VERIFIED" ->
            Visit("contact-info", token, user, pending, Settled(c))
       [] OTHER -> Visit(page, token, user, pending, Settled(c))
  /\ UNCHANGED <<server, memory, cache, visits, met>>

\* Mistake: the answer is not looked at.
BugContactSubmitted(c) ==
  /\ Answered(c, "contact")
  /\ Visit("pending-approval", token,
           [id |-> user.id, email |-> call[c].email, status |-> "INFO_SUBMITTED"],
           pending, Settled(c))
  /\ UNCHANGED <<server, memory, cache, visits, met>>

\* The id is the stored customer's, the email the one the form was sent with.
ContactSubmitted(c) ==
  /\ Answered(c, "contact") /\ call[c].reply = "INFO_SUBMITTED"
  /\ Visit("pending-approval", token,
           [id |-> user.id, email |-> call[c].email, status |-> "INFO_SUBMITTED"],
           pending, Settled(c))
  /\ UNCHANGED <<server, memory, cache, visits, met>>

Fetched(c, k) ==
  /\ Answered(c, k) /\ call[c].reply = "data"
  /\ call' = Settled(c)
  /\ cache' = [cache EXCEPT ![k] = [owner |-> call[c].as, fresh |-> TRUE]]
  /\ UNCHANGED <<server, storage, memory, tab, visits, met>>

AssetsLoaded(c) ==
  /\ Answered(c, "assets") /\ call[c].reply = "data"
  /\ call' = Settled(c)
  /\ UNCHANGED <<server, client>>

\* The refusal of a token signs out whoever is signed in when it arrives.
Expelled(c) ==
  /\ Answered(c, "assets") /\ call[c].reply = "refused"
  /\ Visit("login", NoUser, NoStored, pending, Settled(c))
  /\ UNCHANGED <<server, memory, cache, visits, met>>

Refused(c) ==
  /\ call[c] # NoCall /\ call[c].reply = "refused"
  /\ call' = Settled(c)
  /\ UNCHANGED <<server, client>>

Next ==
  \/ \E p \in Page : Browse(p)
  \/ Logout \/ Reload
  \/ \E u \in User : SubmitLogin(u)
  \/ HandleSendCode
  \/ \E right \in BOOLEAN : HandleVerify(right)
  \/ HandleSubmit \/ HandleRefresh
  \/ \E k \in Key : UseQuery(k)
  \/ \E u \in User : CodeExpires(u)
  \/ CountdownEnds \/ MoveOn \/ Poll
  \/ \E k \in Key : EntryAges(k)
  \/ \E u \in User, status \in Status : Review(u, status)
  \/ \E c \in Call :
       \/ AnswerLogin(c) \/ AnswerSend(c) \/ LimitSend(c)
       \/ ReadForVerify(c) \/ WriteVerified(c) \/ WriteAttempt(c)
       \/ AnswerMe(c) \/ ReadForContact(c) \/ WriteContact(c)
       \/ AnswerQuery(c) \/ Fail(c)
       \/ LoggedIn(c) \/ CodeSent(c) \/ Verified(c) \/ ContactLoaded(c)
       \/ ReviewLoaded(c) \/ ContactSubmitted(c)
       \/ \E k \in Key : Fetched(c, k)
       \/ AssetsLoaded(c) \/ Expelled(c) \/ Refused(c)

Spec == Init /\ [][Next]_vars

-----------------------------------------------------------------------------
\* Properties.

\* The dashboard is shown only to a customer the operator has once let in,
\* whatever answers arrive late and in whichever order.
DashboardIsEarned ==
  page \in Dashboard => shown \in User /\ "ACTIVE" \in reached[shown]

\* In a browser only one customer uses, the status stored is one the server has
\* given him, although pages store statuses that no answer contained, answers
\* are delivered late, and the token sent may be an older one than the one stored.
StoredStatusIsReal ==
  \A u \in User : met \subseteq {u} =>
    /\ user.id \in {u, NoUser}
    /\ user.status # "ABSENT" => user.status \in reached[u]

\* The deposit page shows the address the server gave the customer signed in.
AddressIsOwn ==
  page = "deposit" /\ "address" \in Key
    => cache["address"].owner \in {NoUser, token}
=============================================================================
