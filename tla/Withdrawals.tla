----------------------------- MODULE Withdrawals -----------------------------
(***************************************************************************)
(* The withdrawal, address and security pages of one customer, with the    *)
(* whitelist of addresses, the second factor and the withdrawal endpoint   *)
(* of the server.  A page works on what it has fetched: the list of        *)
(* addresses as it was, the ones among them it takes to be available, and  *)
(* its own flag for the second factor.  Answers arrive in any order, and   *)
(* the freeze of an address ends by itself.                                *)
(***************************************************************************)
CONSTANTS
  Address,      \* withdrawal addresses, a wallet and its row alike
  Amount,       \* positive amounts
  Call,         \* requests in flight at once
  None,         \* no address, no amount, no request
  HasWealth,    \* whether the customer has an account of type WEALTH
  BehindProxy,  \* whether the pages call through the Vercel function
  Start         \* bound: the rows addresses start with

VARIABLES
  row,        \* server: withdrawal_address_whitelist
  enabled,    \* server: users.two_factor_enabled
  secret,     \* server: users.two_factor_secret, and whether the app has it
  page,       \* the page shown
  list, seen, \* the addresses fetched, and the verified ones among them
  addresses,  \* Withdraw: the ones available when they were fetched
  selectedId, selectedAddress,  \* Withdraw: both; Addresses: the one to verify
  amount, calculating,          \* Withdraw: amount and isCalculatingFee
  twoFactorEnabled,             \* the page's flag
  open,       \* the dialogs open
  target,     \* the address a delete dialog is about
  call,       \* requests, answered ones included until they are delivered
  confirmed   \* history: the address the confirmed summary showed

server == <<row, enabled, secret>>
selection == <<addresses, selectedId, selectedAddress>>
sheet == <<amount, calculating>>
tab == <<page, list, seen, selection, sheet, twoFactorEnabled, open, target, confirmed>>
vars == <<server, tab, call>>

Page == {"other", "withdraw", "addresses", "security"}
Dialog == {"confirm", "code", "add", "delete", "verify", "setup", "disable"}
\* A row is listed under a network of the withdrawal page, or under a coin's code.
Absent == [at |-> "absent", verified |-> FALSE, frozen |-> FALSE, network |-> FALSE]
Row == [at: {"listed", "deleted"}, verified: BOOLEAN, frozen: BOOLEAN, network: BOOLEAN]
         \cup {Absent}
Kind == {"list", "me", "fee", "withdraw", "history", "add", "delete", "verify", "primary",
         "setup", "enable", "disable"}
Request == [kind: Kind, by: Kind \cup {"mount"},
            arg: Address \cup {None}, shown: Address \cup {None},
            right: BOOLEAN, reply: {"none", "ok", "failed"},
            ids: SUBSET Address, verified: SUBSET Address, flag: BOOLEAN,
            here: BOOLEAN]

TypeOK ==
  /\ row \in [Address -> Row] /\ enabled \in BOOLEAN
  /\ secret \in {"none", "unknown", "known"}
  /\ page \in Page
  /\ list \in SUBSET Address /\ seen \in SUBSET Address
  /\ addresses \in SUBSET Address
  /\ selectedId \in Address \cup {None} /\ selectedAddress \in Address \cup {None}
  /\ amount \in Amount \cup {None} /\ calculating \in BOOLEAN
  /\ twoFactorEnabled \in BOOLEAN
  /\ open \in SUBSET Dialog /\ target \in Address \cup {None}
  /\ call \in [Call -> Request \cup {None}]
  /\ confirmed \in Address \cup {None}

Init ==
  /\ row \in [Address -> Row \cap Start]
  /\ \/ enabled = FALSE /\ secret \in {"none", "unknown"}
     \/ enabled = TRUE /\ secret = "known"
  /\ page = "other"
  /\ list = {} /\ seen = {} /\ addresses = {}
  /\ selectedId = None /\ selectedAddress = None
  /\ amount = None /\ calculating = FALSE
  /\ twoFactorEnabled = FALSE
  /\ open = {} /\ target = None
  /\ call = [c \in Call |-> None]
  /\ confirmed = None

-----------------------------------------------------------------------------
\* Requests. One that carries a code says whether it is right, one that adds an
\* address whether it is under a network.

NewCall(kind, by, arg, shown, right) ==
  [kind |-> kind, by |-> by, arg |-> arg, shown |-> shown, right |-> right,
   reply |-> "none", ids |-> {}, verified |-> {}, flag |-> FALSE, here |-> TRUE]
Ask(kind, arg, shown, right) ==
  \E c \in Call :
    /\ call[c] = None
    /\ call' = [call EXCEPT ![c] = NewCall(kind, kind, arg, shown, right)]
\* The flag a handler keeps from its request to the end of what it awaits.
Busy(by) == \E c \in Call : call[c] # None /\ call[c].here /\ call[c].by = by

\* What a page asks for when it is mounted.
Asks == [p \in Page |-> CASE p = "other" -> {}
                          [] p = "security" -> {"me"}
                          [] OTHER -> {"list", "me"}]

-----------------------------------------------------------------------------
\* The customer.

\* A page is mounted afresh; the answers of the one left find no component.
Open(p) ==
  /\ p # page /\ page' = p
  /\ \E slot \in [Asks[p] -> Call] :
       /\ \A k \in Asks[p] : call[slot[k]] = None
       /\ \A k, l \in Asks[p] : slot[k] = slot[l] => k = l
       /\ call' = [c \in Call |->
            IF call[c] # None THEN [call[c] EXCEPT !.here = FALSE]
            ELSE IF \E k \in Asks[p] : slot[k] = c
            THEN NewCall(CHOOSE k \in Asks[p] : slot[k] = c, "mount", None, None, FALSE)
            ELSE None]
  /\ list' = {} /\ seen' = {} /\ addresses' = {}
  /\ selectedId' = None /\ selectedAddress' = None
  /\ amount' = None /\ calculating' = FALSE
  /\ twoFactorEnabled' = FALSE /\ open' = {} /\ target' = None
  /\ confirmed' = None
  /\ UNCHANGED server

\* A dialog is modal: the page under it cannot be used.
On(p) == page = p /\ open = {}

\* The effect of a new amount asks for its fee, whatever is still under way. The
\* fee itself is data; the first answer already ends the waiting.
EnterAmount(x) ==
  /\ On("withdraw") /\ list # {} /\ x # amount /\ amount' = x
  /\ IF x = None THEN call' = call /\ calculating' = calculating
     ELSE Ask("fee", None, None, FALSE) /\ calculating' = TRUE
  /\ UNCHANGED <<server, page, list, seen, selection, twoFactorEnabled, open, target, confirmed>>

\* Whether an address may be clicked is decided at the click, by comparing the
\* frozenUntil of the list with the browser's clock: frozen stands for that, so
\* the browser's clock is taken to agree with the server's. Whether it is found
\* among the available ones was decided when the list was fetched.
HandleAddressChange(a) ==
  /\ On("withdraw") /\ a \in seen /\ row[a].network /\ ~row[a].frozen
  /\ selectedId' = a
  /\ selectedAddress' = IF a \in addresses THEN a ELSE selectedAddress
  /\ UNCHANGED <<server, page, list, seen, addresses, sheet, twoFactorEnabled, open, target,
                 call, confirmed>>

OpenDialog(d) == open' = open \cup {d}
Close(d) ==
  /\ d \in open /\ (d = "add" => "verify" \notin open)
  /\ open' = open \ {d}
  /\ UNCHANGED <<server, page, list, seen, selection, sheet, twoFactorEnabled, target, call,
                 confirmed>>

Review ==
  /\ On("withdraw") /\ list # {} /\ amount # None /\ ~calculating
  /\ OpenDialog("confirm")
  /\ UNCHANGED <<server, page, list, seen, selection, sheet, twoFactorEnabled, target, call,
                 confirmed>>

HandleSubmitWithdrawal(shown, right) ==
  IF selectedId = None \/ amount = None THEN call' = call
  ELSE Ask("withdraw", selectedId, shown, right)

\* The click closes the summary.
Confirm ==
  /\ "confirm" \in open /\ ~Busy("withdraw")
  /\ confirmed' = selectedAddress
  /\ IF twoFactorEnabled THEN open' = {"code"} /\ call' = call
     ELSE open' = {} /\ HandleSubmitWithdrawal(selectedAddress, FALSE)
  /\ UNCHANGED <<server, page, list, seen, selection, sheet, twoFactorEnabled, target>>

\* The dialog of the code stays open until a withdrawal is accepted.
HandleVerify2FAAndSubmit(right) ==
  /\ "code" \in open /\ ~Busy("withdraw")
  /\ HandleSubmitWithdrawal(confirmed, right)
  /\ UNCHANGED <<server, tab>>

OpenDelete(a) ==
  /\ \/ On("withdraw") /\ row[a].network
     \/ On("addresses")
  /\ a \in list
  /\ OpenDialog("delete") /\ target' = a
  /\ UNCHANGED <<server, page, list, seen, selection, sheet, twoFactorEnabled, call, confirmed>>

\* The request remembers the selection its handler was created with.
HandleDeleteAddress ==
  /\ "delete" \in open /\ target # None
  /\ page = "withdraw" => ~Busy("delete")
  /\ open' = open \ {"delete"}
  /\ target' = IF page = "addresses" THEN None ELSE target
  /\ Ask("delete", target, selectedId, FALSE)
  /\ UNCHANGED <<server, page, list, seen, selection, sheet, twoFactorEnabled, confirmed>>

OpenAdd ==
  /\ On("withdraw") \/ On("addresses")
  /\ OpenDialog("add")
  /\ UNCHANGED <<server, page, list, seen, selection, sheet, twoFactorEnabled, target, call,
                 confirmed>>

HandleAddAddress(a) ==
  /\ "add" \in open /\ "verify" \notin open /\ twoFactorEnabled
  /\ ~Busy("add") /\ ~Busy("verify")
  /\ Ask("add", a, None, page = "withdraw")
  /\ UNCHANGED <<server, tab>>

OpenVerify(a) ==
  /\ On("addresses") /\ a \in list \ seen
  /\ OpenDialog("verify") /\ selectedId' = a
  /\ UNCHANGED <<server, page, list, seen, addresses, selectedAddress, sheet, twoFactorEnabled,
                 target, call, confirmed>>

HandleVerifyAddress(right) ==
  /\ "verify" \in open /\ selectedId # None
  /\ ~Busy("add") /\ ~Busy("verify")
  /\ Ask("verify", selectedId, None, right)
  /\ UNCHANGED <<server, tab>>

HandleSetPrimary(a) ==
  /\ On("addresses") /\ a \in seen
  /\ Ask("primary", a, None, FALSE)
  /\ UNCHANGED <<server, tab>>

HandleSetup ==
  /\ On("security") /\ ~twoFactorEnabled
  /\ \A by \in {"mount", "setup", "enable", "disable"} : ~Busy(by)
  /\ Ask("setup", None, None, FALSE)
  /\ UNCHANGED <<server, tab>>

HandleEnable(right) ==
  /\ "setup" \in open /\ ~Busy("setup") /\ ~Busy("enable")
  /\ Ask("enable", None, None, right)
  /\ UNCHANGED <<server, tab>>

OpenDisable ==
  /\ On("security") /\ twoFactorEnabled
  /\ \A by \in {"mount", "setup", "enable", "disable"} : ~Busy(by)
  /\ OpenDialog("disable")
  /\ UNCHANGED <<server, page, list, seen, selection, sheet, twoFactorEnabled, target, call,
                 confirmed>>

HandleDisable(right) ==
  /\ "disable" \in open /\ ~Busy("disable")
  /\ Ask("disable", None, None, right)
  /\ UNCHANGED <<server, tab>>

\* Four hours have passed since the address was added.
Thaw(a) ==
  /\ row[a].frozen
  /\ row' = [row EXCEPT ![a] = [@ EXCEPT !.frozen = FALSE]]
  /\ UNCHANGED <<enabled, secret, tab, call>>

-----------------------------------------------------------------------------
\* The server.

Asked(c, kind) == call[c] # None /\ call[c].reply = "none" /\ call[c].kind = kind
Reply(c, reply) == call' = [call EXCEPT ![c] = [@ EXCEPT !.reply = reply]]
Answer(c, ok) == Reply(c, IF ok THEN "ok" ELSE "failed")

\* A code of the customer's app, checked with the secret stored.
CodeFits(c) == call[c].right /\ secret = "known"
Listed(a) == row[a].at = "listed"

AnswerList(c) ==
  LET ids == {a \in Address : Listed(a)} IN
  /\ Asked(c, "list")
  /\ call' = [call EXCEPT ![c] = [@ EXCEPT !.reply = "ok", !.ids = ids,
                                    !.verified = {a \in ids : row[a].verified}]]
  /\ UNCHANGED <<server, tab>>

AnswerMe(c) ==
  /\ Asked(c, "me")
  /\ call' = [call EXCEPT ![c] = [@ EXCEPT !.reply = "ok", !.flag = enabled]]
  /\ UNCHANGED <<server, tab>>

AnswerRead(c) ==
  /\ Asked(c, "fee") \/ Asked(c, "history")
  /\ Reply(c, "ok")
  /\ UNCHANGED <<server, tab>>

\* Refused as well when the balance or the custody service does not allow it.
AnswerWithdraw(c) ==
  /\ Asked(c, "withdraw")
  /\ \E funded \in BOOLEAN :
       Answer(c, /\ enabled => CodeFits(c)
                 /\ HasWealth /\ funded
                 /\ Listed(call[c].arg) /\ ~row[call[c].arg].frozen)
  /\ UNCHANGED <<server, tab>>

\* A wallet is unique per customer, deleted rows included.
AnswerAdd(c) ==
  LET a == call[c].arg IN
  /\ Asked(c, "add")
  /\ Answer(c, row[a].at = "absent")
  /\ row' = IF row[a].at # "absent" THEN row
            ELSE [row EXCEPT ![a] = [at |-> "listed", verified |-> FALSE, frozen |-> TRUE,
                                     network |-> call[c].right]]
  /\ UNCHANGED <<enabled, secret, tab>>

AnswerDelete(c) ==
  LET a == call[c].arg
      ok == ~BehindProxy /\ Listed(a)
  IN  /\ Asked(c, "delete")
      /\ Answer(c, ok)
      /\ row' = IF ok THEN [row EXCEPT ![a] = [@ EXCEPT !.at = "deleted"]] ELSE row
      /\ UNCHANGED <<enabled, secret, tab>>

\* Without a second factor any token is accepted.
AnswerVerify(c) ==
  LET a == call[c].arg
      ok == Listed(a) /\ (enabled => CodeFits(c))
  IN  /\ Asked(c, "verify")
      /\ Answer(c, ok)
      /\ row' = IF ok THEN [row EXCEPT ![a] = [@ EXCEPT !.verified = TRUE]] ELSE row
      /\ UNCHANGED <<enabled, secret, tab>>

\* Which address is the primary one is written, and read by nothing.
AnswerPrimary(c) ==
  /\ Asked(c, "primary")
  /\ Answer(c, Listed(call[c].arg))
  /\ UNCHANGED <<server, tab>>

\* A second setup overwrites the secret; what the first one answers is void.
Void(calls) ==
  [c \in Call |-> IF calls[c] = None THEN None
                  ELSE [calls[c] EXCEPT !.flag = @ /\ calls[c].kind # "setup"]]

\* Setup does not look whether the second factor is on.
AnswerSetup(c) ==
  /\ Asked(c, "setup")
  /\ secret' = "unknown"
  /\ call' = [Void(call) EXCEPT ![c] = [@ EXCEPT !.reply = "ok", !.flag = TRUE]]
  /\ UNCHANGED <<row, enabled, tab>>

AnswerEnable(c) ==
  /\ Asked(c, "enable")
  /\ Answer(c, CodeFits(c))
  /\ enabled' = (enabled \/ CodeFits(c))
  /\ UNCHANGED <<row, secret, tab>>

AnswerDisable(c) ==
  /\ Asked(c, "disable")
  /\ IF CodeFits(c)
     THEN /\ enabled' = FALSE /\ secret' = "none"
          /\ call' = [Void(call) EXCEPT ![c] = [@ EXCEPT !.reply = "ok"]]
     ELSE Answer(c, FALSE) /\ UNCHANGED <<enabled, secret>>
  /\ UNCHANGED <<row, tab>>

\* A request fails before it is carried out, or its answer is lost after that.
Fail(c) ==
  /\ call[c] # None /\ call[c].reply # "failed"
  /\ Reply(c, "failed")
  /\ UNCHANGED <<server, tab>>

-----------------------------------------------------------------------------
\* Answers reach the page that asked.

Answered(c, kind, reply) ==
  call[c] # None /\ call[c].kind = kind /\ call[c].reply = reply /\ call[c].here
Settled(c) == [call EXCEPT ![c] = None]
\* A handler awaits a list before it is done.
Relist(c) ==
  [call EXCEPT ![c] = NewCall("list", call[c].by, call[c].arg, call[c].shown, FALSE)]
\* After its list a delete clears the selection it knew, if that was deleted.
Clears(r) == page = "withdraw" /\ r.by = "delete" /\ r.shown = r.arg

ListLoaded(c) ==
  LET r == call[c]
      available == {a \in r.verified : ~row[a].frozen}
  IN  /\ Answered(c, "list", "ok")
      /\ list' = r.ids /\ seen' = r.verified
      /\ IF page # "withdraw" THEN UNCHANGED selection
         ELSE /\ addresses' = available
              /\ \E a \in IF available = {} \/ Clears(r) THEN {None} ELSE available :
                   selectedId' = a /\ selectedAddress' = a
      /\ call' = Settled(c)
      /\ UNCHANGED <<server, page, sheet, twoFactorEnabled, open, target, confirmed>>

ListFailed(c) ==
  /\ Answered(c, "list", "failed")
  /\ IF Clears(call[c]) THEN selectedId' = None /\ selectedAddress' = None
     ELSE UNCHANGED <<selectedId, selectedAddress>>
  /\ call' = Settled(c)
  /\ UNCHANGED <<server, page, list, seen, addresses, sheet, twoFactorEnabled, open, target,
                 confirmed>>

MeLoaded(c) ==
  /\ Answered(c, "me", "ok")
  /\ twoFactorEnabled' = call[c].flag
  /\ call' = Settled(c)
  /\ UNCHANGED <<server, page, list, seen, selection, sheet, open, target, confirmed>>

FeeLoaded(c) ==
  /\ Answered(c, "fee", "ok") \/ Answered(c, "fee", "failed")
  /\ calculating' = FALSE
  /\ call' = Settled(c)
  /\ UNCHANGED <<server, page, list, seen, selection, amount, twoFactorEnabled, open, target,
                 confirmed>>

Withdrawn(c) ==
  /\ Answered(c, "withdraw", "ok")
  /\ amount' = None
  /\ open' = open \ {"confirm", "code"}
  /\ call' = [call EXCEPT ![c] = NewCall("history", "withdraw", None, None, FALSE)]
  /\ UNCHANGED <<server, page, list, seen, selection, calculating, twoFactorEnabled, target,
                 confirmed>>

\* The address page asks for the code of an address it has just added.
Added(c) ==
  /\ Answered(c, "add", "ok")
  /\ IF page = "withdraw" THEN open' = open \ {"add"} /\ UNCHANGED selectedId
     ELSE open' = open \cup {"verify"} /\ selectedId' = call[c].arg
  /\ call' = Relist(c)
  /\ UNCHANGED <<server, page, list, seen, addresses, selectedAddress, sheet,
                 twoFactorEnabled, target, confirmed>>

Deleted(c) ==
  /\ Answered(c, "delete", "ok")
  /\ open' = open \ {"delete"} /\ target' = None
  /\ call' = Relist(c)
  /\ UNCHANGED <<server, page, list, seen, selection, sheet, twoFactorEnabled, confirmed>>

Verified(c) ==
  /\ Answered(c, "verify", "ok")
  /\ open' = open \ {"verify"}
  /\ call' = Relist(c)
  /\ UNCHANGED <<server, page, list, seen, selection, sheet, twoFactorEnabled, target, confirmed>>

PrimarySet(c) ==
  /\ Answered(c, "primary", "ok")
  /\ call' = Relist(c)
  /\ UNCHANGED <<server, tab>>

\* The customer reads the secret into his app, if he does so at all.
SetupShown(c) ==
  /\ Answered(c, "setup", "ok")
  /\ OpenDialog("setup")
  /\ secret' \in IF call[c].flag THEN {secret, "known"} ELSE {secret}
  /\ call' = Settled(c)
  /\ UNCHANGED <<row, enabled, page, list, seen, selection, sheet, twoFactorEnabled, target,
                 confirmed>>

Switched(c) ==
  /\ \/ Answered(c, "enable", "ok") /\ twoFactorEnabled' = TRUE /\ open' = open \ {"setup"}
     \/ Answered(c, "disable", "ok") /\ twoFactorEnabled' = FALSE /\ open' = open \ {"disable"}
  /\ call' = Settled(c)
  /\ UNCHANGED <<server, page, list, seen, selection, sheet, target, confirmed>>

\* The other failures show a message; an answer to a page that was left nothing.
Dropped(c) ==
  /\ call[c] # None /\ call[c].reply # "none"
  /\ \/ ~call[c].here
     \/ call[c].kind = "history"
     \/ call[c].reply = "failed" /\ call[c].kind \notin {"list", "fee"}
  /\ call' = Settled(c)
  /\ UNCHANGED <<server, tab>>

Next ==
  \/ \E p \in Page : Open(p)
  \/ \E x \in Amount \cup {None} : EnterAmount(x)
  \/ \E d \in Dialog : Close(d)
  \/ Review \/ Confirm \/ HandleDeleteAddress \/ OpenAdd \/ HandleSetup \/ OpenDisable
  \/ \E a \in Address :
       \/ HandleAddressChange(a) \/ OpenDelete(a) \/ HandleAddAddress(a)
       \/ OpenVerify(a) \/ HandleSetPrimary(a) \/ Thaw(a)
  \/ \E right \in BOOLEAN :
       \/ HandleVerify2FAAndSubmit(right) \/ HandleVerifyAddress(right)
       \/ HandleEnable(right) \/ HandleDisable(right)
  \/ \E c \in Call :
       \/ AnswerList(c) \/ AnswerMe(c) \/ AnswerRead(c) \/ AnswerWithdraw(c)
       \/ AnswerAdd(c) \/ AnswerDelete(c) \/ AnswerVerify(c) \/ AnswerPrimary(c)
       \/ AnswerSetup(c) \/ AnswerEnable(c) \/ AnswerDisable(c) \/ Fail(c)
       \/ ListLoaded(c) \/ ListFailed(c) \/ MeLoaded(c) \/ FeeLoaded(c)
       \/ Withdrawn(c) \/ Added(c) \/ Deleted(c) \/ Verified(c) \/ PrimarySet(c)
       \/ SetupShown(c) \/ Switched(c) \/ Dropped(c)

Spec == Init /\ [][Next]_vars

-----------------------------------------------------------------------------
\* Properties.

Sent(c) == call[c] # None /\ call[c].kind = "withdraw"

\* The customer confirms a summary that shows an address, and the withdrawal is
\* sent to that address: the one shown and the id sent are kept apart by the page.
ConfirmedAddressIsSent == \A c \in Call : Sent(c) => call[c].arg = call[c].shown

\* No withdrawal is asked for to an address that is not verified or still frozen,
\* though the server looks only at the freeze and the page at what it once fetched.
\* "Still frozen" is by the one clock that browser and server are taken to share.
SentIsVerified ==
  \A c \in Call : Sent(c) => row[call[c].arg].verified /\ ~row[call[c].arg].frozen
=============================================================================
