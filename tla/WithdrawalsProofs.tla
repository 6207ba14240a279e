-------------------------- MODULE WithdrawalsProofs --------------------------
(***************************************************************************)
(* Proofs about Withdrawals, for any number of addresses, amounts and      *)
(* requests.  First the types, then that what the page has fetched about   *)
(* an address stays true of its row, then what the summary shows.          *)
(***************************************************************************)
EXTENDS Withdrawals, TLAPS

Calls == [Call -> Request \cup {None}]

LEMMA NewCallTyped ==
  ASSUME NEW kind \in Kind, NEW by \in Kind \cup {"mount"},
         NEW arg \in Address \cup {None}, NEW shown \in Address \cup {None},
         NEW right \in BOOLEAN
  PROVE  NewCall(kind, by, arg, shown, right) \in Request
BY DEF NewCall, Request

LEMMA AskTyped ==
  ASSUME call \in Calls, NEW kind \in Kind,
         NEW arg \in Address \cup {None}, NEW shown \in Address \cup {None},
         NEW right \in BOOLEAN, Ask(kind, arg, shown, right)
  PROVE  call' \in Calls
<1>1. NewCall(kind, kind, arg, shown, right) \in Request
  BY NewCallTyped
<1> QED
  BY <1>1 DEF Ask, Calls

LEMMA CallFields ==
  ASSUME call \in Calls, NEW c \in Call, call[c] # None
  PROVE  /\ call[c] \in Request
         /\ call[c].kind \in Kind /\ call[c].by \in Kind \cup {"mount"}
         /\ call[c].arg \in Address \cup {None}
         /\ call[c].shown \in Address \cup {None}
         /\ call[c].right \in BOOLEAN /\ call[c].flag \in BOOLEAN /\ call[c].here \in BOOLEAN
         /\ call[c].ids \in SUBSET Address /\ call[c].verified \in SUBSET Address
<1>1. call[c] \in Request
  BY DEF Calls
<1> QED
  BY <1>1 DEF Request

LEMMA PutTyped ==
  ASSUME call \in Calls, NEW c \in Call, NEW x \in Request \cup {None}
  PROVE  [call EXCEPT ![c] = x] \in Calls
BY DEF Calls

LEMMA ReplyTyped ==
  ASSUME call \in Calls, NEW c \in Call, call[c] # None,
         NEW reply \in {"none", "ok", "failed"}, Reply(c, reply)
  PROVE  call' \in Calls
<1>1. [call[c] EXCEPT !.reply = reply] \in Request
  BY CallFields DEF Request
<1> QED
  BY <1>1, PutTyped DEF Reply

LEMMA RelistTyped ==
  ASSUME call \in Calls, NEW c \in Call, call[c] # None
  PROVE  Relist(c) \in Calls /\ Settled(c) \in Calls
<1>1. NewCall("list", call[c].by, call[c].arg, call[c].shown, FALSE) \in Request
  BY CallFields, NewCallTyped DEF Kind
<1> QED
  BY <1>1, PutTyped DEF Relist, Settled

LEMMA VoidTyped ==
  ASSUME call \in Calls
  PROVE  /\ Void(call) \in Calls
         /\ \A c \in Call : call[c] = None => Void(call)[c] = None
         /\ \A c \in Call : call[c] # None =>
              /\ Void(call)[c] \in Request
              /\ Void(call)[c] = [call[c] EXCEPT !.flag = @ /\ call[c].kind # "setup"]
<1>1. ASSUME NEW c \in Call, call[c] # None
      PROVE  [call[c] EXCEPT !.flag = @ /\ call[c].kind # "setup"] \in Request
  <2>1. call[c] \in Request /\ (call[c].flag /\ call[c].kind # "setup") \in BOOLEAN
    BY <1>1, CallFields
  <2> QED
    BY <2>1, Zenon DEF Request
<1> QED
  BY <1>1 DEF Void, Calls

LEMMA RowKeeps ==
  ASSUME NEW r \in Row, r.at # "absent"
  PROVE  /\ [r EXCEPT !.frozen = FALSE] \in Row
         /\ [r EXCEPT !.verified = TRUE] \in Row
         /\ [r EXCEPT !.at = "deleted"] \in Row
<1>1. r \in [at: {"listed", "deleted"}, verified: BOOLEAN, frozen: BOOLEAN, network: BOOLEAN]
  BY DEF Row, Absent
<1> QED
  BY <1>1 DEF Row

LEMMA RowFacts ==
  ASSUME NEW r \in Row
  PROVE  /\ r.frozen => r.at # "absent"
         /\ r.verified => r.at # "absent"
<1>1. CASE r = Absent
  BY <1>1 DEF Absent
<1>2. CASE r # Absent
  BY <1>2 DEF Row
<1> QED
  BY <1>1, <1>2

-----------------------------------------------------------------------------
\* Types.

\* A step that leaves the types of the rows and of the requests alone.
LEMMA TypeStep ==
  ASSUME call' \in Calls, row' \in [Address -> Row],
         enabled' \in BOOLEAN, secret' \in {"none", "unknown", "known"},
         page' \in Page, list' \in SUBSET Address, seen' \in SUBSET Address,
         addresses' \in SUBSET Address,
         selectedId' \in Address \cup {None}, selectedAddress' \in Address \cup {None},
         amount' \in Amount \cup {None}, calculating' \in BOOLEAN,
         twoFactorEnabled' \in BOOLEAN, open' \in SUBSET Dialog,
         target' \in Address \cup {None}, confirmed' \in Address \cup {None}
  PROVE  TypeOK'
BY DEF TypeOK, Calls

LEMMA TypeInit == Init => TypeOK
BY DEF Init, TypeOK, Page

LEMMA TypeNext == TypeOK /\ [Next]_vars => TypeOK'
<1> SUFFICES ASSUME TypeOK, [Next]_vars PROVE TypeOK'
  OBVIOUS
<1> USE DEF server, tab, selection, sheet
<1>0. call \in Calls
  BY DEF TypeOK, Calls
<1>1. ASSUME NEW p \in Page, Open(p) PROVE TypeOK'
  <2>1. call' \in Calls
    <3>1. \A k \in Asks[p] : NewCall(k, "mount", None, None, FALSE) \in Request
      <4>1. \A k \in Asks[p] : k \in Kind
        BY DEF Asks, Kind, Page
      <4> QED
        BY <4>1, NewCallTyped
    <3>2. \A c \in Call : call[c] # None => [call[c] EXCEPT !.here = FALSE] \in Request
      BY <1>0, CallFields DEF Request
    <3>3. PICK slot \in [Asks[p] -> Call] :
            call' = [c \in Call |->
              IF call[c] # None THEN [call[c] EXCEPT !.here = FALSE]
              ELSE IF \E k \in Asks[p] : slot[k] = c
              THEN NewCall(CHOOSE k \in Asks[p] : slot[k] = c, "mount", None, None, FALSE)
              ELSE None]
      BY <1>1 DEF Open
    <3>4. ASSUME NEW c \in Call, \E k \in Asks[p] : slot[k] = c
          PROVE  NewCall(CHOOSE k \in Asks[p] : slot[k] = c, "mount", None, None, FALSE)
                   \in Request
      BY <3>1, <3>4
    <3>5. \A c \in Call : call'[c] \in Request \cup {None}
      BY <3>2, <3>3, <3>4
    <3>6. call' = [c \in Call |-> call'[c]]
      BY <3>3
    <3> QED
      BY <3>5, <3>6 DEF Calls
  <2> QED
    BY <1>0, <1>1, <2>1, TypeStep DEF TypeOK, Open
<1>2. ASSUME NEW x \in Amount \cup {None}, EnterAmount(x) PROVE TypeOK'
  <2>1. call' \in Calls
    BY <1>0, <1>2, AskTyped DEF TypeOK, EnterAmount, Kind
  <2>2. amount' = x /\ calculating' \in BOOLEAN
    BY <1>2 DEF EnterAmount, TypeOK
  <2> QED
    BY <1>2, <2>1, <2>2, TypeStep DEF TypeOK, EnterAmount
<1>3. ASSUME NEW d \in Dialog, Close(d) PROVE TypeOK'
  BY <1>0, <1>3, TypeStep DEF TypeOK, Close
<1>4. ASSUME Review PROVE TypeOK'
  BY <1>0, <1>4, TypeStep DEF TypeOK, Review, OpenDialog, Dialog
<1>5. ASSUME Confirm PROVE TypeOK'
  <2>1. call' \in Calls
    BY <1>0, <1>5, AskTyped DEF TypeOK, Confirm, HandleSubmitWithdrawal, Kind
  <2> QED
    BY <1>0, <1>5, <2>1, TypeStep DEF TypeOK, Confirm, Dialog
<1>6. ASSUME HandleDeleteAddress PROVE TypeOK'
  <2>1. call' \in Calls
    BY <1>0, <1>6, AskTyped DEF TypeOK, HandleDeleteAddress, Kind
  <2> QED
    BY <1>0, <1>6, <2>1, TypeStep DEF TypeOK, HandleDeleteAddress
<1>7. ASSUME OpenAdd PROVE TypeOK'
  BY <1>0, <1>7, TypeStep DEF TypeOK, OpenAdd, OpenDialog, Dialog
<1>8. ASSUME HandleSetup PROVE TypeOK'
  <2>1. call' \in Calls
    BY <1>0, <1>8, AskTyped DEF TypeOK, HandleSetup, Kind
  <2> QED
    BY <1>0, <1>8, <2>1, TypeStep DEF TypeOK, HandleSetup
<1>9. ASSUME OpenDisable PROVE TypeOK'
  BY <1>0, <1>9, TypeStep DEF TypeOK, OpenDisable, OpenDialog, Dialog
<1>10. ASSUME NEW a \in Address, HandleAddressChange(a) PROVE TypeOK'
  BY <1>0, <1>10, TypeStep DEF TypeOK, HandleAddressChange
<1>11. ASSUME NEW a \in Address, OpenDelete(a) PROVE TypeOK'
  BY <1>0, <1>11, TypeStep DEF TypeOK, OpenDelete, OpenDialog, Dialog
<1>12. ASSUME NEW a \in Address, HandleAddAddress(a) PROVE TypeOK'
  <2>1. call' \in Calls
    BY <1>0, <1>12, AskTyped DEF TypeOK, HandleAddAddress, Kind
  <2> QED
    BY <1>0, <1>12, <2>1, TypeStep DEF TypeOK, HandleAddAddress
<1>13. ASSUME NEW a \in Address, OpenVerify(a) PROVE TypeOK'
  BY <1>0, <1>13, TypeStep DEF TypeOK, OpenVerify, OpenDialog, Dialog
<1>14. ASSUME NEW a \in Address, HandleSetPrimary(a) PROVE TypeOK'
  <2>1. call' \in Calls
    BY <1>0, <1>14, AskTyped DEF TypeOK, HandleSetPrimary, Kind
  <2> QED
    BY <1>0, <1>14, <2>1, TypeStep DEF TypeOK, HandleSetPrimary
<1>15. ASSUME NEW a \in Address, Thaw(a) PROVE TypeOK'
  <2>1. row' \in [Address -> Row]
    BY <1>15, RowFacts, RowKeeps DEF TypeOK, Thaw
  <2> QED
    BY <1>0, <1>15, <2>1, TypeStep DEF TypeOK, Thaw
<1>16. ASSUME NEW right \in BOOLEAN, HandleVerify2FAAndSubmit(right) PROVE TypeOK'
  <2>1. call' \in Calls
    BY <1>0, <1>16, AskTyped DEF TypeOK, HandleVerify2FAAndSubmit, HandleSubmitWithdrawal, Kind
  <2> QED
    BY <1>0, <1>16, <2>1, TypeStep DEF TypeOK, HandleVerify2FAAndSubmit
<1>17. ASSUME NEW right \in BOOLEAN, HandleVerifyAddress(right) PROVE TypeOK'
  <2>1. call' \in Calls
    BY <1>0, <1>17, AskTyped DEF TypeOK, HandleVerifyAddress, Kind
  <2> QED
    BY <1>0, <1>17, <2>1, TypeStep DEF TypeOK, HandleVerifyAddress
<1>18. ASSUME NEW right \in BOOLEAN, HandleEnable(right) PROVE TypeOK'
  <2>1. call' \in Calls
    BY <1>0, <1>18, AskTyped DEF TypeOK, HandleEnable, Kind
  <2> QED
    BY <1>0, <1>18, <2>1, TypeStep DEF TypeOK, HandleEnable
<1>19. ASSUME NEW right \in BOOLEAN, HandleDisable(right) PROVE TypeOK'
  <2>1. call' \in Calls
    BY <1>0, <1>19, AskTyped DEF TypeOK, HandleDisable, Kind
  <2> QED
    BY <1>0, <1>19, <2>1, TypeStep DEF TypeOK, HandleDisable
<1>20. ASSUME NEW c \in Call, AnswerList(c) PROVE TypeOK'
  <2> DEFINE ids == {a \in Address : Listed(a)}
             new == [call[c] EXCEPT !.reply = "ok", !.ids = ids,
                                    !.verified = {a \in ids : row[a].verified}]
  <2>1. call' \in Calls
    <3>1. call[c] \in Request /\ call' = [call EXCEPT ![c] = new]
      BY <1>0, <1>20, CallFields DEF AnswerList, Asked
    <3>2. ids \in SUBSET Address /\ {a \in ids : row[a].verified} \in SUBSET Address
      OBVIOUS
    <3>3. new \in Request
      BY <3>1, <3>2, Zenon DEF Request
    <3> QED
      BY <1>0, <3>1, <3>3, PutTyped
  <2> QED
    BY <1>0, <1>20, <2>1, CallFields, TypeStep DEF TypeOK, AnswerList, Asked
<1>21. ASSUME NEW c \in Call, AnswerMe(c) PROVE TypeOK'
  <2>1. call' \in Calls
    <3>1. /\ call[c] \in Request /\ enabled \in BOOLEAN
          /\ call' = [call EXCEPT ![c] = [@ EXCEPT !.reply = "ok", !.flag = enabled]]
      BY <1>0, <1>21, CallFields DEF AnswerMe, Asked, TypeOK
    <3>2. [call[c] EXCEPT !.reply = "ok", !.flag = enabled] \in Request
      BY <3>1, Zenon DEF Request
    <3> QED
      BY <1>0, <3>1, <3>2, PutTyped
  <2> QED
    BY <1>0, <1>21, <2>1, CallFields, TypeStep DEF TypeOK, AnswerMe, Asked
<1>22. ASSUME NEW c \in Call, AnswerRead(c) PROVE TypeOK'
  <2>1. call' \in Calls
    BY <1>0, <1>22, ReplyTyped DEF AnswerRead, Answer, Asked
  <2> QED
    BY <1>0, <1>22, <2>1, CallFields, TypeStep DEF TypeOK, AnswerRead, Asked
<1>23. ASSUME NEW c \in Call, AnswerWithdraw(c) PROVE TypeOK'
  <2>1. call' \in Calls
    BY <1>0, <1>23, ReplyTyped DEF AnswerWithdraw, Answer, Asked
  <2> QED
    BY <1>0, <1>23, <2>1, CallFields, TypeStep DEF TypeOK, AnswerWithdraw, Asked
<1>24. ASSUME NEW c \in Call, AnswerAdd(c) PROVE TypeOK'
  <2>1. row' \in [Address -> Row]
    <3>1. [at |-> "listed", verified |-> FALSE, frozen |-> TRUE, network |-> call[c].right]
            \in Row
      BY <1>0, <1>24, CallFields DEF AnswerAdd, Asked, Row
    <3> QED
      BY <1>24, <3>1 DEF TypeOK, AnswerAdd
  <2>2. call' \in Calls
    BY <1>0, <1>24, ReplyTyped DEF AnswerAdd, Answer, Asked
  <2> QED
    BY <1>24, <2>1, <2>2, TypeStep DEF TypeOK, AnswerAdd
<1>25. ASSUME NEW c \in Call, AnswerDelete(c) PROVE TypeOK'
  <2>1. row' \in [Address -> Row]
    BY <1>25, RowKeeps DEF TypeOK, AnswerDelete, Row, Listed
  <2>2. call' \in Calls
    BY <1>0, <1>25, ReplyTyped DEF AnswerDelete, Answer, Asked
  <2> QED
    BY <1>25, <2>1, <2>2, TypeStep DEF TypeOK, AnswerDelete
<1>26. ASSUME NEW c \in Call, AnswerVerify(c) PROVE TypeOK'
  <2>1. row' \in [Address -> Row]
    BY <1>26, RowKeeps DEF TypeOK, AnswerVerify, Row, Listed
  <2>2. call' \in Calls
    BY <1>0, <1>26, ReplyTyped DEF AnswerVerify, Answer, Asked
  <2> QED
    BY <1>26, <2>1, <2>2, TypeStep DEF TypeOK, AnswerVerify
<1>27. ASSUME NEW c \in Call, AnswerPrimary(c) PROVE TypeOK'
  <2>1. call' \in Calls
    BY <1>0, <1>27, ReplyTyped DEF AnswerPrimary, Answer, Asked
  <2> QED
    BY <1>0, <1>27, <2>1, CallFields, TypeStep DEF TypeOK, AnswerPrimary, Asked
<1>28. ASSUME NEW c \in Call, AnswerSetup(c) PROVE TypeOK'
  <2>1. call' \in Calls
    <3>1. Void(call) \in Calls /\ Void(call)[c] \in Request
      BY <1>0, <1>28, VoidTyped DEF AnswerSetup, Asked
    <3>2. [Void(call)[c] EXCEPT !.reply = "ok", !.flag = TRUE] \in Request
      BY <3>1 DEF Request
    <3> QED
      BY <1>28, <3>1, <3>2 DEF AnswerSetup, Calls
  <2> QED
    BY <1>0, <1>28, <2>1, CallFields, TypeStep DEF TypeOK, AnswerSetup, Asked
<1>29. ASSUME NEW c \in Call, AnswerEnable(c) PROVE TypeOK'
  <2>1. call' \in Calls
    BY <1>0, <1>29, ReplyTyped DEF AnswerEnable, Answer, Asked
  <2> QED
    BY <1>0, <1>29, <2>1, CallFields, TypeStep DEF TypeOK, AnswerEnable, Asked
<1>30. ASSUME NEW c \in Call, AnswerDisable(c) PROVE TypeOK'
  <2>1. call' \in Calls
    BY <1>0, <1>30, VoidTyped, ReplyTyped DEF AnswerDisable, Answer, Asked, Calls, Request
  <2> QED
    BY <1>0, <1>30, <2>1, CallFields, TypeStep DEF TypeOK, AnswerDisable, Asked
<1>31. ASSUME NEW c \in Call, Fail(c) PROVE TypeOK'
  <2>1. call' \in Calls
    BY <1>0, <1>31, ReplyTyped DEF Fail, Answer, Asked
  <2> QED
    BY <1>0, <1>31, <2>1, CallFields, TypeStep DEF TypeOK, Fail
<1>32. ASSUME NEW c \in Call, ListLoaded(c) PROVE TypeOK'
  <2>1. call' \in Calls
    BY <1>0, <1>32, RelistTyped DEF ListLoaded, Answered
  <2> QED
    BY <1>0, <1>32, <2>1, CallFields, TypeStep DEF TypeOK, ListLoaded, Answered
<1>33. ASSUME NEW c \in Call, ListFailed(c) PROVE TypeOK'
  <2>1. call' \in Calls
    BY <1>0, <1>33, RelistTyped DEF ListFailed, Answered
  <2> QED
    BY <1>0, <1>33, <2>1, CallFields, TypeStep DEF TypeOK, ListFailed
<1>34. ASSUME NEW c \in Call, MeLoaded(c) PROVE TypeOK'
  <2>1. call' \in Calls
    BY <1>0, <1>34, RelistTyped DEF MeLoaded, Answered
  <2> QED
    BY <1>0, <1>34, <2>1, CallFields, TypeStep DEF TypeOK, MeLoaded, Answered
<1>35. ASSUME NEW c \in Call, FeeLoaded(c) PROVE TypeOK'
  <2>1. call' \in Calls
    BY <1>0, <1>35, RelistTyped DEF FeeLoaded, Answered
  <2> QED
    BY <1>0, <1>35, <2>1, CallFields, TypeStep DEF TypeOK, FeeLoaded
<1>36. ASSUME NEW c \in Call, Withdrawn(c) PROVE TypeOK'
  <2>1. call' \in Calls
    BY <1>0, <1>36, NewCallTyped, PutTyped DEF Withdrawn, Kind
  <2> QED
    BY <1>0, <1>36, <2>1, CallFields, TypeStep DEF TypeOK, Withdrawn
<1>37. ASSUME NEW c \in Call, Added(c) PROVE TypeOK'
  <2>1. call' \in Calls
    BY <1>0, <1>37, RelistTyped DEF Added, Answered
  <2> QED
    BY <1>0, <1>37, <2>1, CallFields, TypeStep DEF TypeOK, Added, Answered, Dialog
<1>38. ASSUME NEW c \in Call, Deleted(c) PROVE TypeOK'
  <2>1. call' \in Calls
    BY <1>0, <1>38, RelistTyped DEF Deleted, Answered
  <2> QED
    BY <1>0, <1>38, <2>1, CallFields, TypeStep DEF TypeOK, Deleted
<1>39. ASSUME NEW c \in Call, Verified(c) PROVE TypeOK'
  <2>1. call' \in Calls
    BY <1>0, <1>39, RelistTyped DEF Verified, Answered
  <2> QED
    BY <1>0, <1>39, <2>1, CallFields, TypeStep DEF TypeOK, Verified
<1>40. ASSUME NEW c \in Call, PrimarySet(c) PROVE TypeOK'
  <2>1. call' \in Calls
    BY <1>0, <1>40, RelistTyped DEF PrimarySet, Answered
  <2> QED
    BY <1>0, <1>40, <2>1, CallFields, TypeStep DEF TypeOK, PrimarySet
<1>41. ASSUME NEW c \in Call, SetupShown(c) PROVE TypeOK'
  <2>1. call' \in Calls
    BY <1>0, <1>41, RelistTyped DEF SetupShown, Answered
  <2> QED
    BY <1>0, <1>41, <2>1, CallFields, TypeStep DEF TypeOK, SetupShown, OpenDialog, Dialog
<1>42. ASSUME NEW c \in Call, Switched(c) PROVE TypeOK'
  <2>1. call' \in Calls
    BY <1>0, <1>42, RelistTyped DEF Switched, Answered
  <2>2. twoFactorEnabled' \in BOOLEAN /\ open' \in SUBSET Dialog
    BY <1>42 DEF TypeOK, Switched
  <2> QED
    BY <1>42, <2>1, <2>2, TypeStep DEF TypeOK, Switched
<1>43. ASSUME NEW c \in Call, Dropped(c) PROVE TypeOK'
  <2>1. call' \in Calls
    BY <1>0, <1>43, RelistTyped DEF Dropped, Answered
  <2> QED
    BY <1>0, <1>43, <2>1, CallFields, TypeStep DEF TypeOK, Dropped
<1>44. CASE UNCHANGED vars
  BY <1>44 DEF TypeOK, vars
<1> QED
  BY <1>1, <1>2, <1>3, <1>4, <1>5, <1>6, <1>7, <1>8, <1>9, <1>10, <1>11, <1>12, <1>13, <1>14, <1>15, <1>16, <1>17, <1>18, <1>19, <1>20, <1>21, <1>22, <1>23, <1>24, <1>25, <1>26, <1>27, <1>28, <1>29, <1>30, <1>31, <1>32, <1>33, <1>34, <1>35, <1>36, <1>37, <1>38, <1>39, <1>40, <1>41, <1>42, <1>43, <1>44 DEF Next

-----------------------------------------------------------------------------
\* Rows only ripen: a verified address stays so, and its freeze only ends.

Usable(r) == r.verified /\ ~r.frozen
Ripens ==
  \A a \in Address :
    /\ row[a].verified => row'[a].verified
    /\ Usable(row[a]) => Usable(row'[a])

LEMMA RowStep == TypeOK /\ [Next]_vars => Ripens
<1> SUFFICES ASSUME TypeOK, [Next]_vars PROVE Ripens
  OBVIOUS
<1> USE DEF server, tab
<1>1. ASSUME NEW p \in Page, Open(p) PROVE Ripens
  BY <1>1 DEF Open, Ripens
<1>2. ASSUME NEW x \in Amount \cup {None}, EnterAmount(x) PROVE Ripens
  BY <1>2 DEF EnterAmount, Ripens
<1>3. ASSUME NEW d \in Dialog, Close(d) PROVE Ripens
  BY <1>3 DEF Close, Ripens
<1>4. ASSUME Review PROVE Ripens
  BY <1>4 DEF Review, Ripens
<1>5. ASSUME Confirm PROVE Ripens
  BY <1>5 DEF Confirm, Ripens
<1>6. ASSUME HandleDeleteAddress PROVE Ripens
  BY <1>6 DEF HandleDeleteAddress, Ripens
<1>7. ASSUME OpenAdd PROVE Ripens
  BY <1>7 DEF OpenAdd, Ripens
<1>8. ASSUME HandleSetup PROVE Ripens
  BY <1>8 DEF HandleSetup, Ripens
<1>9. ASSUME OpenDisable PROVE Ripens
  BY <1>9 DEF OpenDisable, Ripens
<1>10. ASSUME NEW a \in Address, HandleAddressChange(a) PROVE Ripens
  BY <1>10 DEF HandleAddressChange, Ripens
<1>11. ASSUME NEW a \in Address, OpenDelete(a) PROVE Ripens
  BY <1>11 DEF OpenDelete, Ripens
<1>12. ASSUME NEW a \in Address, HandleAddAddress(a) PROVE Ripens
  BY <1>12 DEF HandleAddAddress, Ripens
<1>13. ASSUME NEW a \in Address, OpenVerify(a) PROVE Ripens
  BY <1>13 DEF OpenVerify, Ripens
<1>14. ASSUME NEW a \in Address, HandleSetPrimary(a) PROVE Ripens
  BY <1>14 DEF HandleSetPrimary, Ripens
<1>15. ASSUME NEW a \in Address, Thaw(a) PROVE Ripens
  BY <1>15 DEF TypeOK, Thaw, Ripens, Usable, Row, Absent
<1>16. ASSUME NEW right \in BOOLEAN, HandleVerify2FAAndSubmit(right) PROVE Ripens
  BY <1>16 DEF HandleVerify2FAAndSubmit, Ripens
<1>17. ASSUME NEW right \in BOOLEAN, HandleVerifyAddress(right) PROVE Ripens
  BY <1>17 DEF HandleVerifyAddress, Ripens
<1>18. ASSUME NEW right \in BOOLEAN, HandleEnable(right) PROVE Ripens
  BY <1>18 DEF HandleEnable, Ripens
<1>19. ASSUME NEW right \in BOOLEAN, HandleDisable(right) PROVE Ripens
  BY <1>19 DEF HandleDisable, Ripens
<1>20. ASSUME NEW c \in Call, AnswerList(c) PROVE Ripens
  BY <1>20 DEF AnswerList, Ripens
<1>21. ASSUME NEW c \in Call, AnswerMe(c) PROVE Ripens
  BY <1>21 DEF AnswerMe, Ripens
<1>22. ASSUME NEW c \in Call, AnswerRead(c) PROVE Ripens
  BY <1>22 DEF AnswerRead, Ripens
<1>23. ASSUME NEW c \in Call, AnswerWithdraw(c) PROVE Ripens
  BY <1>23 DEF AnswerWithdraw, Ripens
<1>24. ASSUME NEW c \in Call, AnswerAdd(c) PROVE Ripens
  <2>1. row[call[c].arg].verified => row[call[c].arg].at # "absent" \/ call[c].arg \notin Address
    BY RowFacts DEF TypeOK
  <2> QED
    BY <1>24, <2>1 DEF TypeOK, AnswerAdd, Ripens, Usable
<1>25. ASSUME NEW c \in Call, AnswerDelete(c) PROVE Ripens
  BY <1>25 DEF TypeOK, AnswerDelete, Ripens, Usable, Row, Absent
<1>26. ASSUME NEW c \in Call, AnswerVerify(c) PROVE Ripens
  BY <1>26 DEF TypeOK, AnswerVerify, Ripens, Usable, Row, Absent
<1>27. ASSUME NEW c \in Call, AnswerPrimary(c) PROVE Ripens
  BY <1>27 DEF AnswerPrimary, Ripens
<1>28. ASSUME NEW c \in Call, AnswerSetup(c) PROVE Ripens
  BY <1>28 DEF AnswerSetup, Ripens
<1>29. ASSUME NEW c \in Call, AnswerEnable(c) PROVE Ripens
  BY <1>29 DEF AnswerEnable, Ripens
<1>30. ASSUME NEW c \in Call, AnswerDisable(c) PROVE Ripens
  BY <1>30 DEF AnswerDisable, Ripens
<1>31. ASSUME NEW c \in Call, Fail(c) PROVE Ripens
  BY <1>31 DEF Fail, Ripens
<1>32. ASSUME NEW c \in Call, ListLoaded(c) PROVE Ripens
  BY <1>32 DEF ListLoaded, Ripens
<1>33. ASSUME NEW c \in Call, ListFailed(c) PROVE Ripens
  BY <1>33 DEF ListFailed, Ripens
<1>34. ASSUME NEW c \in Call, MeLoaded(c) PROVE Ripens
  BY <1>34 DEF MeLoaded, Ripens
<1>35. ASSUME NEW c \in Call, FeeLoaded(c) PROVE Ripens
  BY <1>35 DEF FeeLoaded, Ripens
<1>36. ASSUME NEW c \in Call, Withdrawn(c) PROVE Ripens
  BY <1>36 DEF Withdrawn, Ripens
<1>37. ASSUME NEW c \in Call, Added(c) PROVE Ripens
  BY <1>37 DEF Added, Ripens
<1>38. ASSUME NEW c \in Call, Deleted(c) PROVE Ripens
  BY <1>38 DEF Deleted, Ripens
<1>39. ASSUME NEW c \in Call, Verified(c) PROVE Ripens
  BY <1>39 DEF Verified, Ripens
<1>40. ASSUME NEW c \in Call, PrimarySet(c) PROVE Ripens
  BY <1>40 DEF PrimarySet, Ripens
<1>41. ASSUME NEW c \in Call, SetupShown(c) PROVE Ripens
  BY <1>41 DEF SetupShown, Ripens
<1>42. ASSUME NEW c \in Call, Switched(c) PROVE Ripens
  BY <1>42 DEF Switched, Ripens
<1>43. ASSUME NEW c \in Call, Dropped(c) PROVE Ripens
  BY <1>43 DEF Dropped, Ripens
<1>44. CASE UNCHANGED vars
  BY <1>44 DEF vars, Ripens
<1> QED
  BY <1>1, <1>2, <1>3, <1>4, <1>5, <1>6, <1>7, <1>8, <1>9, <1>10, <1>11, <1>12, <1>13, <1>14, <1>15, <1>16, <1>17, <1>18, <1>19, <1>20, <1>21, <1>22, <1>23, <1>24, <1>25, <1>26, <1>27, <1>28, <1>29, <1>30, <1>31, <1>32, <1>33, <1>34, <1>35, <1>36, <1>37, <1>38, <1>39, <1>40, <1>41, <1>42, <1>43, <1>44 DEF Next

-----------------------------------------------------------------------------
\* What a request holds after a step, it held before, but for a new withdrawal
\* and for a list just read.

Kept(c) == call[c] # None /\ call'[c].kind = call[c].kind /\ call'[c].arg = call[c].arg
             /\ call'[c].shown = call[c].shown
Submitted(c) ==
  /\ selectedId # None /\ call'[c].arg = selectedId
  /\ \/ "confirm" \in open /\ call'[c].shown = selectedAddress
     \/ "code" \in open /\ call'[c].shown = confirmed
CallStep ==
  \A c \in Call : call'[c] # None =>
    /\ call'[c].kind = "withdraw" => Kept(c) \/ Submitted(c)
    /\ \/ call[c] # None /\ call'[c].verified \subseteq call[c].verified
       \/ \A a \in call'[c].verified : row[a].verified

\* A step that replaces one request.
LEMMA OneCall ==
  ASSUME call \in Calls, NEW c \in Call, NEW x, call' = [call EXCEPT ![c] = x],
         x # None =>
           /\ x.kind = "withdraw" =>
                \/ call[c] # None /\ x.kind = call[c].kind /\ x.arg = call[c].arg
                     /\ x.shown = call[c].shown
                \/ /\ selectedId # None /\ x.arg = selectedId
                   /\ \/ "confirm" \in open /\ x.shown = selectedAddress
                      \/ "code" \in open /\ x.shown = confirmed
           /\ \/ call[c] # None /\ x.verified \subseteq call[c].verified
              \/ \A a \in x.verified : row[a].verified
  PROVE  CallStep
<1> SUFFICES ASSUME NEW d \in Call, call'[d] # None
             PROVE  /\ call'[d].kind = "withdraw" => Kept(d) \/ Submitted(d)
                    /\ \/ call[d] # None /\ call'[d].verified \subseteq call[d].verified
                       \/ \A a \in call'[d].verified : row[a].verified
  BY DEF CallStep
<1>1. CASE d = c
  BY <1>1 DEF Calls, Kept, Submitted
<1>2. CASE d # c
  BY <1>2 DEF Calls, Kept
<1> QED
  BY <1>1, <1>2

LEMMA AskStep ==
  ASSUME call \in Calls, NEW kind, NEW arg, NEW shown, NEW right,
         Ask(kind, arg, shown, right),
         kind = "withdraw" => /\ selectedId # None /\ arg = selectedId
                             /\ \/ "confirm" \in open /\ shown = selectedAddress
                                \/ "code" \in open /\ shown = confirmed
  PROVE  CallStep
<1>1. PICK c \in Call : call[c] = None
                         /\ call' = [call EXCEPT ![c] = NewCall(kind, kind, arg, shown, right)]
  BY DEF Ask
<1> QED
  BY <1>1, OneCall DEF NewCall

LEMMA ReplyStep ==
  ASSUME call \in Calls, NEW c \in Call, call[c] # None, NEW reply, Reply(c, reply)
  PROVE  CallStep
<1>1. call[c] \in Request
  BY DEF Calls
<1> DEFINE x == [call[c] EXCEPT !.reply = reply]
<1>2. x.kind = call[c].kind /\ x.arg = call[c].arg /\ x.shown = call[c].shown
        /\ x.verified = call[c].verified
  BY <1>1 DEF Request
<1> HIDE DEF x
<1> QED
  BY <1>2, OneCall DEF Reply, x

LEMMA SettledStep ==
  ASSUME call \in Calls, NEW c \in Call, call' = Settled(c)
  PROVE  CallStep
BY OneCall DEF Settled

LEMMA RelistStep ==
  ASSUME call \in Calls, NEW c \in Call, call' = Relist(c)
  PROVE  CallStep
BY OneCall DEF Relist, NewCall

LEMMA VoidStep ==
  ASSUME call \in Calls, NEW c \in Call, call[c] # None, NEW x,
         x.kind = Void(call)[c].kind, x.arg = Void(call)[c].arg,
         x.shown = Void(call)[c].shown, x.verified = Void(call)[c].verified,
         call' = [Void(call) EXCEPT ![c] = x]
  PROVE  CallStep
<1>1. ASSUME NEW d \in Call, call[d] # None
      PROVE  /\ Void(call)[d].kind = call[d].kind /\ Void(call)[d].arg = call[d].arg
             /\ Void(call)[d].shown = call[d].shown
             /\ Void(call)[d].verified = call[d].verified
  <2>1. ASSUME NEW r \in Request, NEW y, NEW b, y = [r EXCEPT !.flag = @ /\ b]
        PROVE  /\ y.kind = r.kind /\ y.arg = r.arg
               /\ y.shown = r.shown /\ y.verified = r.verified
    BY <2>1 DEF Request
  <2>2. call[d] \in Request
    BY <1>1, CallFields
  <2>3. Void(call)[d] = [call[d] EXCEPT !.flag = @ /\ call[d].kind # "setup"]
    BY <1>1, VoidTyped
  <2> QED
    BY <2>1, <2>2, <2>3
<1>2. ASSUME NEW d \in Call, call'[d] # None
      PROVE  /\ call[d] # None /\ Kept(d)
             /\ call'[d].verified = call[d].verified
  <2>1. CASE d = c
    BY <1>1, <2>1, VoidTyped DEF Calls, Kept
  <2>2. CASE d # c
    <3>1. call'[d] = Void(call)[d]
      BY <2>2, VoidTyped DEF Calls
    <3>2. call[d] # None
      BY <1>2, <3>1, VoidTyped
    <3> QED
      BY <1>1, <3>1, <3>2 DEF Kept
  <2> QED
    BY <2>1, <2>2
<1> QED
  BY <1>2 DEF CallStep

LEMMA SameStep ==
  ASSUME call' = call
  PROVE  CallStep
BY DEF CallStep, Kept

LEMMA AllCallsStep == TypeOK /\ [Next]_vars => CallStep
<1> SUFFICES ASSUME TypeOK, [Next]_vars PROVE CallStep
  OBVIOUS
<1> USE DEF server, tab
<1>0. call \in Calls
  BY DEF TypeOK, Calls
<1>1. ASSUME NEW p \in Page, Open(p) PROVE CallStep
  <2>1. ASSUME NEW c \in Call, call'[c] # None
        PROVE  \/ call[c] # None /\ call'[c] = [call[c] EXCEPT !.here = FALSE]
               \/ \E k \in Asks[p] : call'[c] = NewCall(k, "mount", None, None, FALSE)
    BY <1>1, <2>1 DEF Open
  <2>2. ASSUME NEW c \in Call, call[c] # None, call'[c] = [call[c] EXCEPT !.here = FALSE]
        PROVE  Kept(c) /\ call'[c].verified = call[c].verified
    BY <1>0, <2>2 DEF Calls, Request, Kept
  <2>3. \A k \in Asks[p] : k # "withdraw"
    BY DEF Asks, Page
  <2>4. ASSUME NEW c \in Call, NEW k \in Asks[p],
               call'[c] = NewCall(k, "mount", None, None, FALSE)
        PROVE  call'[c].kind # "withdraw" /\ call'[c].verified = {}
    BY <2>3, <2>4 DEF NewCall
  <2> QED
    BY <2>1, <2>2, <2>4 DEF CallStep
<1>2. ASSUME NEW x \in Amount \cup {None}, EnterAmount(x) PROVE CallStep
  BY <1>0, <1>2, AskStep, SameStep DEF EnterAmount
<1>3. ASSUME NEW d \in Dialog, Close(d) PROVE CallStep
  BY <1>3, SameStep DEF Close
<1>4. ASSUME Review PROVE CallStep
  BY <1>4, SameStep DEF Review
<1>5. ASSUME Confirm PROVE CallStep
  BY <1>0, <1>5, AskStep, SameStep DEF Confirm, HandleSubmitWithdrawal
<1>6. ASSUME HandleDeleteAddress PROVE CallStep
  BY <1>0, <1>6, AskStep, SameStep DEF HandleDeleteAddress
<1>7. ASSUME OpenAdd PROVE CallStep
  BY <1>7, SameStep DEF OpenAdd
<1>8. ASSUME HandleSetup PROVE CallStep
  BY <1>0, <1>8, AskStep, SameStep DEF HandleSetup
<1>9. ASSUME OpenDisable PROVE CallStep
  BY <1>9, SameStep DEF OpenDisable
<1>10. ASSUME NEW a \in Address, HandleAddressChange(a) PROVE CallStep
  BY <1>10, SameStep DEF HandleAddressChange
<1>11. ASSUME NEW a \in Address, OpenDelete(a) PROVE CallStep
  BY <1>11, SameStep DEF OpenDelete
<1>12. ASSUME NEW a \in Address, HandleAddAddress(a) PROVE CallStep
  BY <1>0, <1>12, AskStep, SameStep DEF HandleAddAddress
<1>13. ASSUME NEW a \in Address, OpenVerify(a) PROVE CallStep
  BY <1>13, SameStep DEF OpenVerify
<1>14. ASSUME NEW a \in Address, HandleSetPrimary(a) PROVE CallStep
  BY <1>0, <1>14, AskStep, SameStep DEF HandleSetPrimary
<1>15. ASSUME NEW a \in Address, Thaw(a) PROVE CallStep
  BY <1>15, SameStep DEF Thaw
<1>16. ASSUME NEW right \in BOOLEAN, HandleVerify2FAAndSubmit(right) PROVE CallStep
  BY <1>0, <1>16, AskStep, SameStep DEF HandleVerify2FAAndSubmit, HandleSubmitWithdrawal
<1>17. ASSUME NEW right \in BOOLEAN, HandleVerifyAddress(right) PROVE CallStep
  BY <1>0, <1>17, AskStep, SameStep DEF HandleVerifyAddress
<1>18. ASSUME NEW right \in BOOLEAN, HandleEnable(right) PROVE CallStep
  BY <1>0, <1>18, AskStep, SameStep DEF HandleEnable
<1>19. ASSUME NEW right \in BOOLEAN, HandleDisable(right) PROVE CallStep
  BY <1>0, <1>19, AskStep, SameStep DEF HandleDisable
<1>20. ASSUME NEW c \in Call, AnswerList(c) PROVE CallStep
  <2>1. call[c] \in Request
    BY <1>0, <1>20 DEF AnswerList, Asked, Calls
  <2> DEFINE known == {a \in {b \in Address : Listed(b)} : row[a].verified}
             x == [call[c] EXCEPT !.reply = "ok", !.ids = {b \in Address : Listed(b)},
                                  !.verified = known]
  <2>2. x.kind # "withdraw" /\ x.verified = known
    BY <1>20, <2>1 DEF AnswerList, Asked, Request
  <2>3. \A a \in known : row[a].verified
    OBVIOUS
  <2>4. call' = [call EXCEPT ![c] = x]
    BY <1>20 DEF AnswerList
  <2> HIDE DEF x, known
  <2> QED
    BY <1>0, <2>2, <2>3, <2>4, OneCall
<1>21. ASSUME NEW c \in Call, AnswerMe(c) PROVE CallStep
  <2>1. call[c] \in Request
    BY <1>0, <1>21 DEF AnswerMe, Asked, Calls
  <2> DEFINE x == [call[c] EXCEPT !.reply = "ok", !.flag = enabled]
  <2>2. x.kind = call[c].kind /\ x.verified = call[c].verified /\ x.kind # "withdraw"
    BY <1>21, <2>1 DEF AnswerMe, Asked, Request
  <2> HIDE DEF x
  <2>3. call' = [call EXCEPT ![c] = x] /\ call[c] # None
    BY <1>21 DEF AnswerMe, Asked, x
  <2> QED
    BY <1>0, <2>2, <2>3, OneCall
<1>22. ASSUME NEW c \in Call, AnswerRead(c) PROVE CallStep
  BY <1>0, <1>22, ReplyStep DEF AnswerRead, Answer, Asked
<1>23. ASSUME NEW c \in Call, AnswerWithdraw(c) PROVE CallStep
  BY <1>0, <1>23, ReplyStep DEF AnswerWithdraw, Answer, Asked
<1>24. ASSUME NEW c \in Call, AnswerAdd(c) PROVE CallStep
  BY <1>0, <1>24, ReplyStep DEF AnswerAdd, Answer, Asked
<1>25. ASSUME NEW c \in Call, AnswerDelete(c) PROVE CallStep
  BY <1>0, <1>25, ReplyStep DEF AnswerDelete, Answer, Asked
<1>26. ASSUME NEW c \in Call, AnswerVerify(c) PROVE CallStep
  BY <1>0, <1>26, ReplyStep DEF AnswerVerify, Answer, Asked
<1>27. ASSUME NEW c \in Call, AnswerPrimary(c) PROVE CallStep
  BY <1>0, <1>27, ReplyStep DEF AnswerPrimary, Answer, Asked
<1>28. ASSUME NEW c \in Call, AnswerSetup(c) PROVE CallStep
  <2>1. call[c] # None /\ Void(call)[c] \in Request
    BY <1>0, <1>28, VoidTyped DEF AnswerSetup, Asked
  <2> QED
    BY <1>0, <1>28, <2>1, VoidStep DEF AnswerSetup, Request
<1>29. ASSUME NEW c \in Call, AnswerEnable(c) PROVE CallStep
  BY <1>0, <1>29, ReplyStep DEF AnswerEnable, Answer, Asked
<1>30. ASSUME NEW c \in Call, AnswerDisable(c) PROVE CallStep
  <2>1. call[c] # None /\ Void(call)[c] \in Request
    BY <1>0, <1>30, VoidTyped DEF AnswerDisable, Asked
  <2>2. CASE CodeFits(c)
    BY <1>0, <1>30, <2>1, <2>2, VoidStep DEF AnswerDisable, Request
  <2>3. CASE ~CodeFits(c)
    BY <1>0, <1>30, <2>1, <2>3, ReplyStep DEF AnswerDisable, Answer
  <2> QED
    BY <2>2, <2>3
<1>31. ASSUME NEW c \in Call, Fail(c) PROVE CallStep
  BY <1>0, <1>31, ReplyStep DEF Fail, Answer, Asked
<1>32. ASSUME NEW c \in Call, ListLoaded(c) PROVE CallStep
  BY <1>0, <1>32, SettledStep DEF ListLoaded
<1>33. ASSUME NEW c \in Call, ListFailed(c) PROVE CallStep
  BY <1>0, <1>33, SettledStep DEF ListFailed
<1>34. ASSUME NEW c \in Call, MeLoaded(c) PROVE CallStep
  BY <1>0, <1>34, SettledStep DEF MeLoaded
<1>35. ASSUME NEW c \in Call, FeeLoaded(c) PROVE CallStep
  BY <1>0, <1>35, SettledStep DEF FeeLoaded
<1>36. ASSUME NEW c \in Call, Withdrawn(c) PROVE CallStep
  BY <1>0, <1>36, OneCall DEF Withdrawn, NewCall
<1>37. ASSUME NEW c \in Call, Added(c) PROVE CallStep
  BY <1>0, <1>37, RelistStep DEF Added
<1>38. ASSUME NEW c \in Call, Deleted(c) PROVE CallStep
  BY <1>0, <1>38, RelistStep DEF Deleted
<1>39. ASSUME NEW c \in Call, Verified(c) PROVE CallStep
  BY <1>0, <1>39, RelistStep DEF Verified
<1>40. ASSUME NEW c \in Call, PrimarySet(c) PROVE CallStep
  BY <1>0, <1>40, RelistStep DEF PrimarySet
<1>41. ASSUME NEW c \in Call, SetupShown(c) PROVE CallStep
  BY <1>0, <1>41, SettledStep DEF SetupShown
<1>42. ASSUME NEW c \in Call, Switched(c) PROVE CallStep
  BY <1>0, <1>42, SettledStep DEF Switched
<1>43. ASSUME NEW c \in Call, Dropped(c) PROVE CallStep
  BY <1>0, <1>43, SettledStep DEF Dropped
<1>44. CASE UNCHANGED vars
  BY <1>44, SameStep DEF vars
<1> QED
  BY <1>1, <1>2, <1>3, <1>4, <1>5, <1>6, <1>7, <1>8, <1>9, <1>10, <1>11, <1>12, <1>13, <1>14, <1>15, <1>16, <1>17, <1>18, <1>19, <1>20, <1>21, <1>22, <1>23, <1>24, <1>25, <1>26, <1>27, <1>28, <1>29, <1>30, <1>31, <1>32, <1>33, <1>34, <1>35, <1>36, <1>37, <1>38, <1>39, <1>40, <1>41, <1>42, <1>43, <1>44 DEF Next

-----------------------------------------------------------------------------
\* What the page has fetched about an address is still true of its row.

Known ==
  /\ \A a \in seen : row[a].verified
  /\ \A a \in addresses : Usable(row[a])
  /\ page = "withdraw" /\ selectedId # None => Usable(row[selectedId])
  /\ "confirm" \in open \/ "code" \in open => page = "withdraw"

CallsKnown ==
  \A c \in Call : call[c] # None =>
    /\ \A a \in call[c].verified : row[a].verified
    /\ call[c].kind = "withdraw" => call[c].arg \in Address /\ Usable(row[call[c].arg])

Inv == TypeOK /\ Known /\ CallsKnown

\* A step that opens no summary and leaves what was fetched and selected.
LEMMA QuietStep ==
  ASSUME TypeOK, Known, Ripens, UNCHANGED <<page, seen, addresses, selectedId>>,
         \A d \in {"confirm", "code"} : d \in open' => d \in open
  PROVE  Known'
BY DEF TypeOK, Known, Ripens

LEMMA KnownNext == Inv /\ [Next]_vars => Known'
<1> SUFFICES ASSUME Inv, [Next]_vars PROVE Known'
  OBVIOUS
<1> USE DEF server, tab, selection
<1>0. TypeOK /\ Known /\ Ripens
  BY RowStep DEF Inv
<1>1. ASSUME NEW p \in Page, Open(p) PROVE Known'
  BY <1>1 DEF Open, Known
<1>2. ASSUME NEW x \in Amount \cup {None}, EnterAmount(x) PROVE Known'
  BY <1>0, <1>2, QuietStep DEF EnterAmount
<1>3. ASSUME NEW d \in Dialog, Close(d) PROVE Known'
  BY <1>0, <1>3, QuietStep DEF Close
<1>4. ASSUME Review PROVE Known'
  BY <1>0, <1>4 DEF Known, TypeOK, Review, On, OpenDialog
<1>5. ASSUME Confirm PROVE Known'
  BY <1>0, <1>5 DEF Known, Confirm
<1>6. ASSUME HandleDeleteAddress PROVE Known'
  BY <1>0, <1>6, QuietStep DEF HandleDeleteAddress
<1>7. ASSUME OpenAdd PROVE Known'
  BY <1>0, <1>7, QuietStep DEF OpenAdd, OpenDialog
<1>8. ASSUME HandleSetup PROVE Known'
  BY <1>0, <1>8, QuietStep DEF HandleSetup
<1>9. ASSUME OpenDisable PROVE Known'
  BY <1>0, <1>9, QuietStep DEF OpenDisable, OpenDialog
<1>10. ASSUME NEW a \in Address, HandleAddressChange(a) PROVE Known'
  BY <1>0, <1>10 DEF Known, HandleAddressChange, On, Usable
<1>11. ASSUME NEW a \in Address, OpenDelete(a) PROVE Known'
  BY <1>0, <1>11, QuietStep DEF OpenDelete, OpenDialog
<1>12. ASSUME NEW a \in Address, HandleAddAddress(a) PROVE Known'
  BY <1>0, <1>12, QuietStep DEF HandleAddAddress
<1>13. ASSUME NEW a \in Address, OpenVerify(a) PROVE Known'
  BY <1>0, <1>13 DEF Known, OpenVerify, On, OpenDialog
<1>14. ASSUME NEW a \in Address, HandleSetPrimary(a) PROVE Known'
  BY <1>0, <1>14, QuietStep DEF HandleSetPrimary
<1>15. ASSUME NEW a \in Address, Thaw(a) PROVE Known'
  BY <1>0, <1>15, QuietStep DEF Thaw
<1>16. ASSUME NEW right \in BOOLEAN, HandleVerify2FAAndSubmit(right) PROVE Known'
  BY <1>0, <1>16, QuietStep DEF HandleVerify2FAAndSubmit
<1>17. ASSUME NEW right \in BOOLEAN, HandleVerifyAddress(right) PROVE Known'
  BY <1>0, <1>17, QuietStep DEF HandleVerifyAddress
<1>18. ASSUME NEW right \in BOOLEAN, HandleEnable(right) PROVE Known'
  BY <1>0, <1>18, QuietStep DEF HandleEnable
<1>19. ASSUME NEW right \in BOOLEAN, HandleDisable(right) PROVE Known'
  BY <1>0, <1>19, QuietStep DEF HandleDisable
<1>20. ASSUME NEW c \in Call, AnswerList(c) PROVE Known'
  BY <1>0, <1>20, QuietStep DEF AnswerList
<1>21. ASSUME NEW c \in Call, AnswerMe(c) PROVE Known'
  BY <1>0, <1>21, QuietStep DEF AnswerMe
<1>22. ASSUME NEW c \in Call, AnswerRead(c) PROVE Known'
  BY <1>0, <1>22, QuietStep DEF AnswerRead
<1>23. ASSUME NEW c \in Call, AnswerWithdraw(c) PROVE Known'
  BY <1>0, <1>23, QuietStep DEF AnswerWithdraw
<1>24. ASSUME NEW c \in Call, AnswerAdd(c) PROVE Known'
  BY <1>0, <1>24, QuietStep DEF AnswerAdd
<1>25. ASSUME NEW c \in Call, AnswerDelete(c) PROVE Known'
  BY <1>0, <1>25, QuietStep DEF AnswerDelete
<1>26. ASSUME NEW c \in Call, AnswerVerify(c) PROVE Known'
  BY <1>0, <1>26, QuietStep DEF AnswerVerify
<1>27. ASSUME NEW c \in Call, AnswerPrimary(c) PROVE Known'
  BY <1>0, <1>27, QuietStep DEF AnswerPrimary
<1>28. ASSUME NEW c \in Call, AnswerSetup(c) PROVE Known'
  BY <1>0, <1>28, QuietStep DEF AnswerSetup
<1>29. ASSUME NEW c \in Call, AnswerEnable(c) PROVE Known'
  BY <1>0, <1>29, QuietStep DEF AnswerEnable
<1>30. ASSUME NEW c \in Call, AnswerDisable(c) PROVE Known'
  BY <1>0, <1>30, QuietStep DEF AnswerDisable
<1>31. ASSUME NEW c \in Call, Fail(c) PROVE Known'
  BY <1>0, <1>31, QuietStep DEF Fail
<1>32. ASSUME NEW c \in Call, ListLoaded(c) PROVE Known'
  <2>1. \A a \in call[c].verified : row[a].verified /\ a \in Address
    BY <1>32, CallFields DEF Inv, CallsKnown, TypeOK, Calls, ListLoaded, Answered
  <2>2. row' = row /\ page' = page /\ open' = open /\ seen' = call[c].verified
    BY <1>32 DEF ListLoaded
  <2>3. CASE page = "withdraw"
    <3> DEFINE available == {a \in call[c].verified : ~row[a].frozen}
    <3>1. addresses' = available /\ (selectedId' = None \/ selectedId' \in available)
      BY <1>32, <2>3 DEF ListLoaded
    <3>2. \A a \in available : Usable(row[a])
      BY <2>1 DEF Usable
    <3> HIDE DEF available
    <3> QED
      BY <1>0, <2>1, <2>2, <3>1, <3>2 DEF Known
  <2>4. CASE page # "withdraw"
    BY <1>0, <1>32, <2>1, <2>2, <2>4 DEF ListLoaded, Known
  <2> QED
    BY <2>3, <2>4
<1>33. ASSUME NEW c \in Call, ListFailed(c) PROVE Known'
  BY <1>0, <1>33 DEF Known, ListFailed
<1>34. ASSUME NEW c \in Call, MeLoaded(c) PROVE Known'
  BY <1>0, <1>34, QuietStep DEF MeLoaded
<1>35. ASSUME NEW c \in Call, FeeLoaded(c) PROVE Known'
  BY <1>0, <1>35, QuietStep DEF FeeLoaded
<1>36. ASSUME NEW c \in Call, Withdrawn(c) PROVE Known'
  BY <1>0, <1>36, QuietStep DEF Withdrawn
<1>37. ASSUME NEW c \in Call, Added(c) PROVE Known'
  BY <1>0, <1>37 DEF Known, TypeOK, Ripens, Added
<1>38. ASSUME NEW c \in Call, Deleted(c) PROVE Known'
  BY <1>0, <1>38, QuietStep DEF Deleted
<1>39. ASSUME NEW c \in Call, Verified(c) PROVE Known'
  BY <1>0, <1>39, QuietStep DEF Verified
<1>40. ASSUME NEW c \in Call, PrimarySet(c) PROVE Known'
  BY <1>0, <1>40, QuietStep DEF PrimarySet
<1>41. ASSUME NEW c \in Call, SetupShown(c) PROVE Known'
  BY <1>0, <1>41, QuietStep DEF SetupShown, OpenDialog
<1>42. ASSUME NEW c \in Call, Switched(c) PROVE Known'
  BY <1>0, <1>42, QuietStep DEF Switched
<1>43. ASSUME NEW c \in Call, Dropped(c) PROVE Known'
  BY <1>0, <1>43, QuietStep DEF Dropped
<1>44. CASE UNCHANGED vars
  BY <1>0, <1>44, QuietStep DEF vars
<1> QED
  BY <1>1, <1>2, <1>3, <1>4, <1>5, <1>6, <1>7, <1>8, <1>9, <1>10, <1>11, <1>12, <1>13, <1>14, <1>15, <1>16, <1>17, <1>18, <1>19, <1>20, <1>21, <1>22, <1>23, <1>24, <1>25, <1>26, <1>27, <1>28, <1>29, <1>30, <1>31, <1>32, <1>33, <1>34, <1>35, <1>36, <1>37, <1>38, <1>39, <1>40, <1>41, <1>42, <1>43, <1>44 DEF Next

LEMMA CallsNext == Inv /\ [Next]_vars => CallsKnown'
<1> SUFFICES ASSUME Inv, [Next]_vars, NEW c \in Call, call'[c] # None
             PROVE  /\ \A a \in call'[c].verified : row'[a].verified
                    /\ call'[c].kind = "withdraw"
                         => call'[c].arg \in Address /\ Usable(row'[call'[c].arg])
  BY DEF CallsKnown
<1>1. TypeOK /\ Known /\ CallsKnown /\ Ripens /\ CallStep /\ TypeOK'
  BY RowStep, AllCallsStep, TypeNext DEF Inv
<1>2. call'[c].verified \subseteq Address
  BY <1>1 DEF TypeOK, Request
<1>3. \A a \in call'[c].verified : row[a].verified
  BY <1>1 DEF CallStep, CallsKnown
<1>4. ASSUME call'[c].kind = "withdraw"
      PROVE  call'[c].arg \in Address /\ Usable(row[call'[c].arg])
  <2>1. CASE Kept(c)
    BY <1>1, <1>4, <2>1 DEF Kept, CallsKnown
  <2>2. CASE Submitted(c)
    BY <1>1, <2>2 DEF Submitted, Known, TypeOK
  <2> QED
    BY <1>1, <1>4, <2>1, <2>2 DEF CallStep
<1> QED
  BY <1>1, <1>2, <1>3, <1>4 DEF Ripens

LEMMA InvInit == Init => Inv
BY TypeInit DEF Init, Inv, Known, CallsKnown

LEMMA InvNext == Inv /\ [Next]_vars => Inv'
BY TypeNext, KnownNext, CallsNext DEF Inv

\* The types of the pages, of the requests and of the rows.
THEOREM WithdrawalsTyped == Spec => []TypeOK
BY TypeInit, TypeNext, PTL DEF Spec

\* Whatever was fetched when, and however late the answers are, no withdrawal is
\* asked for to an address that is not verified or is frozen, if the clocks of
\* browser and server agree.
THEOREM WithdrawalsAreVerified == Spec => []SentIsVerified
<1>1. Inv => SentIsVerified
  BY DEF Inv, CallsKnown, SentIsVerified, Sent, Usable
<1> QED
  BY <1>1, InvInit, InvNext, PTL DEF Spec

-----------------------------------------------------------------------------
\* The address confirmed is the one sent to unless a freeze ends while the page
\* is open, or a list arrives while the code is asked for.

Calm ==
  /\ page = "withdraw" => \A a \in Address : row[a].frozen => row'[a].frozen
  /\ "code" \in open /\ page' = page => selectedId' = selectedId

Paired ==
  /\ page = "withdraw" => /\ selectedId = selectedAddress
                          /\ addresses = {a \in seen : ~row[a].frozen}
  /\ "code" \in open => confirmed = selectedId

LEMMA QuietPair ==
  ASSUME Inv, Paired, Ripens, Calm,
         UNCHANGED <<page, seen, addresses, selectedId, selectedAddress, confirmed>>,
         "code" \in open' => "code" \in open
  PROVE  Paired'
<1>1. ASSUME page = "withdraw", NEW a \in seen
      PROVE  row'[a].frozen <=> row[a].frozen
  <2>1. a \in Address /\ row[a].verified
    BY DEF Inv, TypeOK, Known
  <2>2. row[a].frozen => row'[a].frozen
    BY <1>1, <2>1 DEF Calm
  <2>3. ~row[a].frozen => ~row'[a].frozen
    BY <2>1 DEF Ripens, Usable
  <2> QED
    BY <2>2, <2>3
<1> QED
  BY <1>1 DEF Paired

LEMMA PairedNext == Inv /\ Paired /\ [Next]_vars /\ Calm => Paired'
<1> SUFFICES ASSUME Inv, Paired, [Next]_vars, Calm PROVE Paired'
  OBVIOUS
<1> USE DEF server, tab, selection
<1>0. TypeOK /\ Known /\ Ripens
  BY RowStep DEF Inv
<1>1. ASSUME NEW p \in Page, Open(p) PROVE Paired'
  BY <1>1 DEF Open, Paired
<1>2. ASSUME NEW x \in Amount \cup {None}, EnterAmount(x) PROVE Paired'
  BY <1>0, <1>2, QuietPair DEF EnterAmount
<1>3. ASSUME NEW d \in Dialog, Close(d) PROVE Paired'
  BY <1>0, <1>3, QuietPair DEF Close
<1>4. ASSUME Review PROVE Paired'
  BY <1>0, <1>4, QuietPair DEF TypeOK, Review, OpenDialog
<1>5. ASSUME Confirm PROVE Paired'
  BY <1>0, <1>5 DEF Known, Paired, Confirm
<1>6. ASSUME HandleDeleteAddress PROVE Paired'
  BY <1>0, <1>6, QuietPair DEF HandleDeleteAddress
<1>7. ASSUME OpenAdd PROVE Paired'
  BY <1>0, <1>7, QuietPair DEF OpenAdd, OpenDialog
<1>8. ASSUME HandleSetup PROVE Paired'
  BY <1>0, <1>8, QuietPair DEF HandleSetup
<1>9. ASSUME OpenDisable PROVE Paired'
  BY <1>0, <1>9, QuietPair DEF OpenDisable, OpenDialog
<1>10. ASSUME NEW a \in Address, HandleAddressChange(a) PROVE Paired'
  BY <1>0, <1>10 DEF Paired, HandleAddressChange, On
<1>11. ASSUME NEW a \in Address, OpenDelete(a) PROVE Paired'
  BY <1>0, <1>11, QuietPair DEF OpenDelete, OpenDialog
<1>12. ASSUME NEW a \in Address, HandleAddAddress(a) PROVE Paired'
  BY <1>0, <1>12, QuietPair DEF HandleAddAddress
<1>13. ASSUME NEW a \in Address, OpenVerify(a) PROVE Paired'
  BY <1>0, <1>13 DEF Paired, OpenVerify, On, OpenDialog
<1>14. ASSUME NEW a \in Address, HandleSetPrimary(a) PROVE Paired'
  BY <1>0, <1>14, QuietPair DEF HandleSetPrimary
<1>15. ASSUME NEW a \in Address, Thaw(a) PROVE Paired'
  BY <1>0, <1>15, QuietPair DEF Thaw
<1>16. ASSUME NEW right \in BOOLEAN, HandleVerify2FAAndSubmit(right) PROVE Paired'
  BY <1>0, <1>16, QuietPair DEF HandleVerify2FAAndSubmit
<1>17. ASSUME NEW right \in BOOLEAN, HandleVerifyAddress(right) PROVE Paired'
  BY <1>0, <1>17, QuietPair DEF HandleVerifyAddress
<1>18. ASSUME NEW right \in BOOLEAN, HandleEnable(right) PROVE Paired'
  BY <1>0, <1>18, QuietPair DEF HandleEnable
<1>19. ASSUME NEW right \in BOOLEAN, HandleDisable(right) PROVE Paired'
  BY <1>0, <1>19, QuietPair DEF HandleDisable
<1>20. ASSUME NEW c \in Call, AnswerList(c) PROVE Paired'
  BY <1>0, <1>20, QuietPair DEF AnswerList
<1>21. ASSUME NEW c \in Call, AnswerMe(c) PROVE Paired'
  BY <1>0, <1>21, QuietPair DEF AnswerMe
<1>22. ASSUME NEW c \in Call, AnswerRead(c) PROVE Paired'
  BY <1>0, <1>22, QuietPair DEF AnswerRead
<1>23. ASSUME NEW c \in Call, AnswerWithdraw(c) PROVE Paired'
  BY <1>0, <1>23, QuietPair DEF AnswerWithdraw
<1>24. ASSUME NEW c \in Call, AnswerAdd(c) PROVE Paired'
  BY <1>0, <1>24, QuietPair DEF AnswerAdd
<1>25. ASSUME NEW c \in Call, AnswerDelete(c) PROVE Paired'
  BY <1>0, <1>25, QuietPair DEF AnswerDelete
<1>26. ASSUME NEW c \in Call, AnswerVerify(c) PROVE Paired'
  BY <1>0, <1>26, QuietPair DEF AnswerVerify
<1>27. ASSUME NEW c \in Call, AnswerPrimary(c) PROVE Paired'
  BY <1>0, <1>27, QuietPair DEF AnswerPrimary
<1>28. ASSUME NEW c \in Call, AnswerSetup(c) PROVE Paired'
  BY <1>0, <1>28, QuietPair DEF AnswerSetup
<1>29. ASSUME NEW c \in Call, AnswerEnable(c) PROVE Paired'
  BY <1>0, <1>29, QuietPair DEF AnswerEnable
<1>30. ASSUME NEW c \in Call, AnswerDisable(c) PROVE Paired'
  BY <1>0, <1>30, QuietPair DEF AnswerDisable
<1>31. ASSUME NEW c \in Call, Fail(c) PROVE Paired'
  BY <1>0, <1>31, QuietPair DEF Fail
<1>32. ASSUME NEW c \in Call, ListLoaded(c) PROVE Paired'
  <2>1. row' = row /\ page' = page /\ open' = open /\ confirmed' = confirmed
        /\ seen' = call[c].verified
    BY <1>32 DEF ListLoaded
  <2>2. CASE page = "withdraw"
    <3>1. addresses' = {a \in call[c].verified : ~row[a].frozen} /\ selectedId' = selectedAddress'
      BY <1>32, <2>2 DEF ListLoaded
    <3> QED
      BY <2>1, <3>1 DEF Paired, Calm
  <2>3. CASE page # "withdraw"
    BY <2>1, <2>3 DEF Paired, Calm
  <2> QED
    BY <2>2, <2>3
<1>33. ASSUME NEW c \in Call, ListFailed(c) PROVE Paired'
  BY <1>0, <1>33 DEF Paired, Calm, ListFailed, Clears
<1>34. ASSUME NEW c \in Call, MeLoaded(c) PROVE Paired'
  BY <1>0, <1>34, QuietPair DEF MeLoaded
<1>35. ASSUME NEW c \in Call, FeeLoaded(c) PROVE Paired'
  BY <1>0, <1>35, QuietPair DEF FeeLoaded
<1>36. ASSUME NEW c \in Call, Withdrawn(c) PROVE Paired'
  BY <1>0, <1>36, QuietPair DEF Withdrawn
<1>37. ASSUME NEW c \in Call, Added(c) PROVE Paired'
  BY <1>0, <1>37, QuietPair DEF Known, Paired, Added, Inv
<1>38. ASSUME NEW c \in Call, Deleted(c) PROVE Paired'
  BY <1>0, <1>38, QuietPair DEF Deleted
<1>39. ASSUME NEW c \in Call, Verified(c) PROVE Paired'
  BY <1>0, <1>39, QuietPair DEF Verified
<1>40. ASSUME NEW c \in Call, PrimarySet(c) PROVE Paired'
  BY <1>0, <1>40, QuietPair DEF PrimarySet
<1>41. ASSUME NEW c \in Call, SetupShown(c) PROVE Paired'
  BY <1>0, <1>41, QuietPair DEF SetupShown, OpenDialog
<1>42. ASSUME NEW c \in Call, Switched(c) PROVE Paired'
  BY <1>0, <1>42, QuietPair DEF Switched
<1>43. ASSUME NEW c \in Call, Dropped(c) PROVE Paired'
  BY <1>0, <1>43, QuietPair DEF Dropped
<1>44. CASE UNCHANGED vars
  BY <1>0, <1>44, QuietPair DEF vars
<1> QED
  BY <1>1, <1>2, <1>3, <1>4, <1>5, <1>6, <1>7, <1>8, <1>9, <1>10, <1>11, <1>12, <1>13, <1>14, <1>15, <1>16, <1>17, <1>18, <1>19, <1>20, <1>21, <1>22, <1>23, <1>24, <1>25, <1>26, <1>27, <1>28, <1>29, <1>30, <1>31, <1>32, <1>33, <1>34, <1>35, <1>36, <1>37, <1>38, <1>39, <1>40, <1>41, <1>42, <1>43, <1>44 DEF Next

LEMMA ConfirmedNext ==
  Inv /\ Paired /\ ConfirmedAddressIsSent /\ [Next]_vars => ConfirmedAddressIsSent'
<1> SUFFICES ASSUME Inv, Paired, ConfirmedAddressIsSent, [Next]_vars,
                    NEW c \in Call, Sent(c)'
             PROVE  call'[c].arg = call'[c].shown
  BY DEF ConfirmedAddressIsSent
<1>1. CallStep /\ Known
  BY AllCallsStep DEF Inv
<1>2. CASE Kept(c)
  BY <1>2 DEF Kept, Sent, ConfirmedAddressIsSent
<1>3. CASE Submitted(c)
  BY <1>1, <1>3 DEF Submitted, Known, Paired
<1> QED
  BY <1>1, <1>2, <1>3 DEF CallStep, Sent

\* A customer who confirms a summary sends to the address it showed, provided no
\* address thaws while the page is open and the selection stands still while the
\* code is asked for.  The run shows that without this it does not hold.
THEOREM ConfirmedIsSentWhenCalm ==
  Spec /\ [][Calm]_vars => []ConfirmedAddressIsSent
<1> DEFINE I == Inv /\ Paired /\ ConfirmedAddressIsSent
<1>1. Init => I
  BY InvInit DEF Init, Paired, ConfirmedAddressIsSent, Sent
<1>2. I /\ [Next]_vars /\ [Calm]_vars => I'
  <2>1. CASE UNCHANGED vars
    BY <2>1, InvNext DEF vars, server, tab, selection, Paired, ConfirmedAddressIsSent, Sent
  <2>2. CASE Calm
    BY <2>2, InvNext, PairedNext, ConfirmedNext
  <2> QED
    BY <2>1, <2>2
<1>3. I => ConfirmedAddressIsSent
  OBVIOUS
<1> HIDE DEF I
<1> QED
  BY <1>1, <1>2, <1>3, PTL DEF Spec
=============================================================================
