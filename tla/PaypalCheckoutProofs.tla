------------------------ MODULE PaypalCheckoutProofs -------------------------
(***************************************************************************)
(* Theorems about PaypalCheckout, for every number of browsers and of      *)
(* orders at PayPal.                                                       *)
(***************************************************************************)
EXTENDS PaypalCheckout, TLAPS

\* The row that was read had a number only if the row has one now; what is captured
\* is a number the row held; and without an overlap the first start is alone.
VisitInv(v) ==
  LET c == visit[v]
  IN  /\ c.saw # NoNumber => bill.number # NoNumber
      /\ c.at = "link" => bill.number # NoNumber
      /\ c.at \in {"capture", "apply"} => c.number \in everStored
      /\ c.at = "apply" => paypal[c.number] = "captured"
      /\ ~overlapped /\ WillStore(v) =>
           everStored = {} /\ \A u \in Visits : WillStore(u) => u = v

\* A link is given out only when the row has a number, and without an overlap the
\* row never had another one.
RowInv ==
  /\ links # {} => bill.number # NoNumber
  /\ bill.number = NoNumber => everStored = {}
  /\ bill.number # NoNumber => bill.number \in everStored
  /\ ~overlapped => \A m, n \in everStored : m = n

IInv == /\ PaypalTypeOK /\ RowInv /\ CapturedWasStored /\ PaidByCapture
        /\ \A v \in Visits : VisitInv(v)

\* What no step undoes.
Grows == /\ bill.number # NoNumber => bill'.number # NoNumber
         /\ everStored \subseteq everStored'
         /\ \A n \in Numbers : paypal[n] = "captured" => paypal'[n] = "captured"

\* A visit that does not move keeps its invariant when nothing new is stored and no
\* other start without a number begins.
LEMMA Stable ==
  ASSUME NEW v \in Visits, PaypalTypeOK, VisitInv(v), visit'[v] = visit[v], Grows,
         UNCHANGED <<everStored, overlapped>>,
         \A u \in Visits : WillStore(u)' => WillStore(u)
  PROVE  VisitInv(v)'
BY DEF VisitInv, WillStore, Grows, PaypalTypeOK, Visit, Away

LEMMA AwayInv == ASSUME NEW v \in Visits, visit'[v] = Away PROVE VisitInv(v)'
BY DEF VisitInv, Away, WillStore

LEMMA AwayTyped == Away \in Visit
BY DEF Away, Visit

LEMMA InitIInv == PaypalInit => IInv
<1> SUFFICES ASSUME PaypalInit PROVE IInv
  OBVIOUS
<1>1. PaypalTypeOK
  <2>1. bill \in Bills
    BY DEF PaypalInit, Bills, Optional
  <2>2. visit \in [Visits -> Visit]
    BY AwayTyped DEF PaypalInit
  <2>3. overlapped \in BOOLEAN
    BY DEF PaypalInit
  <2> QED  BY <2>1, <2>2, <2>3, PaypalAssumption DEF PaypalInit, PaypalTypeOK
<1>2. RowInv /\ CapturedWasStored /\ PaidByCapture
  BY DEF PaypalInit, RowInv, CapturedWasStored, PaidByCapture, Captured
<1>3. \A v \in Visits : VisitInv(v)
  BY DEF PaypalInit, VisitInv, WillStore, Away
<1> QED  BY <1>1, <1>2, <1>3 DEF IInv

\* The steps of the requests that start a payment.
LEMMA StartSteps ==
  ASSUME IInv, NEW v \in Visits,
         StartVisit(v) \/ CreatePaypalOrder(v) \/ StoreNumber(v) \/ AnswerLink(v)
  PROVE  IInv'
<1> USE PaypalAssumption DEF VisitAt
<1>0. /\ PaypalTypeOK /\ RowInv /\ CapturedWasStored /\ PaidByCapture
      /\ \A u \in Visits : VisitInv(u)
      /\ bill \in Bills /\ visit \in [Visits -> Visit] /\ visit[v] \in Visit
      /\ links \subseteq Numbers /\ everStored \subseteq Numbers
      /\ paypal \in [Numbers -> {"none", "created", "approved", "captured"}]
      /\ overlapped \in BOOLEAN /\ visitFaults \in 0..MaxVisitFaults
  BY DEF IInv, PaypalTypeOK
<1>1. CASE StartVisit(v)
  <2>1. /\ visit' = [visit EXCEPT ![v] = [at |-> "create", saw |-> bill.number, number |-> NoNumber]]
        /\ UNCHANGED <<bill, paypal, links, everStored, visitFaults>>
        /\ overlapped' = (\/ overlapped
                          \/ bill.number = NoNumber /\ \E u \in Visits : WillStore(u))
    BY <1>1 DEF StartVisit
  <2>2. /\ visit' \in [Visits -> Visit]
        /\ visit'[v] = [at |-> "create", saw |-> bill.number, number |-> NoNumber]
        /\ \A u \in Visits \ {v} : visit'[u] = visit[u]
    BY <1>0, <2>1 DEF Visit, Bills, Optional
  <2>3. PaypalTypeOK'
    BY <1>0, <2>1, <2>2 DEF PaypalTypeOK
  <2>4. RowInv' /\ CapturedWasStored' /\ PaidByCapture'
    BY <1>0, <2>1 DEF RowInv, CapturedWasStored, PaidByCapture, Captured
  <2>5. ASSUME NEW u \in Visits PROVE VisitInv(u)'
    <3>1. CASE u = v
      <4>1. ~overlapped' /\ WillStore(v)' =>
              everStored' = {} /\ \A w \in Visits : WillStore(w)' => w = v
        BY <1>0, <2>1, <2>2 DEF WillStore, RowInv
      <4> QED  BY <2>1, <2>2, <3>1, <4>1 DEF VisitInv
    <3>2. CASE u # v
      <4>1. ~overlapped' /\ WillStore(u)' =>
              everStored' = {} /\ \A w \in Visits : WillStore(w)' => w = u
        BY <1>0, <2>1, <2>2, <3>2 DEF WillStore, VisitInv
      <4> QED  BY <1>0, <2>1, <2>2, <3>2, <4>1 DEF VisitInv
    <3> QED  BY <3>1, <3>2
  <2> QED  BY <2>3, <2>4, <2>5 DEF IInv
<1>2. CASE CreatePaypalOrder(v)
  <2>1. PICK n \in Numbers :
          /\ paypal[n] = "none" /\ paypal' = [paypal EXCEPT ![n] = "created"]
          /\ visit' = [visit EXCEPT ![v].at = "store", ![v].number = n]
    BY <1>2 DEF CreatePaypalOrder
  <2>2. visit[v].at = "create" /\ UNCHANGED <<bill, links, past, visitFaults>>
    BY <1>2 DEF CreatePaypalOrder
  <2>3. /\ visit' \in [Visits -> Visit]
        /\ visit'[v].at = "store" /\ visit'[v].saw = visit[v].saw
        /\ \A u \in Visits \ {v} : visit'[u] = visit[u]
    BY <1>0, <2>1, <2>2 DEF Visit, Away
  <2>4. PaypalTypeOK'
    BY <1>0, <2>1, <2>2, <2>3 DEF PaypalTypeOK, past
  <2>5. RowInv' /\ CapturedWasStored' /\ PaidByCapture' /\ Grows
    BY <1>0, <2>1, <2>2 DEF RowInv, CapturedWasStored, PaidByCapture, Captured, past, Grows
  <2>6. \A u \in Visits : WillStore(u)' => WillStore(u)
    BY <2>2, <2>3 DEF WillStore
  <2>7. VisitInv(v)'
    BY <1>0, <2>2, <2>3, <2>6 DEF VisitInv, WillStore, past
  <2> QED  BY <1>0, <2>2, <2>3, <2>4, <2>5, <2>6, <2>7, Stable DEF IInv, past
<1>3. CASE StoreNumber(v)
  <2>1. /\ visit[v].at = "store" /\ visit' = [visit EXCEPT ![v].at = "link"]
        /\ UNCHANGED <<paypal, links, overlapped, visitFaults>>
    BY <1>3 DEF StoreNumber, Proceed
  <2>2. /\ visit' \in [Visits -> Visit] /\ visit[v].number \in Numbers
        /\ visit'[v].at = "link" /\ visit'[v].saw = visit[v].saw
        /\ \A u \in Visits \ {v} : visit'[u] = visit[u]
    BY <1>0, <2>1 DEF Visit, Away
  <2>3. CASE visit[v].saw # NoNumber
    <3>1. UNCHANGED <<bill, everStored>>
      BY <1>3, <2>3 DEF StoreNumber
    <3>2. PaypalTypeOK' /\ RowInv' /\ CapturedWasStored' /\ PaidByCapture' /\ Grows
      BY <1>0, <2>1, <2>2, <3>1
         DEF PaypalTypeOK, RowInv, CapturedWasStored, PaidByCapture, Captured, Grows
    <3>3. \A u \in Visits : WillStore(u)' => WillStore(u)
      BY <2>1, <2>2 DEF WillStore
    <3>4. VisitInv(v)'
      BY <1>0, <2>2, <2>3, <3>1 DEF VisitInv, WillStore
    <3> QED  BY <1>0, <2>1, <2>2, <3>1, <3>2, <3>3, <3>4, Stable DEF IInv
  <2>4. CASE visit[v].saw = NoNumber
    <3>1. /\ bill' = [bill EXCEPT !.number = visit[v].number]
          /\ everStored' = everStored \cup {visit[v].number}
      BY <1>3, <2>4 DEF StoreNumber
    <3>2. bill' \in Bills /\ bill'.number = visit[v].number /\ bill'.number # NoNumber
          /\ bill'.status = bill.status /\ bill'.paidBy = bill.paidBy
      BY <1>0, <2>2, <3>1 DEF Bills, Optional
    <3>3. PaypalTypeOK'
      BY <1>0, <2>1, <2>2, <3>1, <3>2 DEF PaypalTypeOK
    <3>4. WillStore(v)
      BY <2>1, <2>4 DEF WillStore
    <3>5. RowInv' /\ CapturedWasStored' /\ PaidByCapture'
      BY <1>0, <2>1, <3>1, <3>2, <3>4
         DEF RowInv, CapturedWasStored, PaidByCapture, Captured, VisitInv
    <3>6. ASSUME NEW u \in Visits PROVE VisitInv(u)'
      <4>1. overlapped \/ ~WillStore(u)'
        BY <1>0, <2>1, <2>2, <3>4 DEF VisitInv, WillStore
      <4>2. CASE u = v
        BY <2>1, <2>2, <3>2, <4>1, <4>2 DEF VisitInv
      <4>3. CASE u # v
        BY <1>0, <2>1, <2>2, <3>1, <3>2, <4>1, <4>3 DEF VisitInv
      <4> QED  BY <4>2, <4>3
    <3> QED  BY <3>3, <3>5, <3>6 DEF IInv
  <2> QED  BY <2>3, <2>4
<1>4. CASE AnswerLink(v)
  <2>1. /\ visit[v].at = "link" /\ visit' = [visit EXCEPT ![v] = Away]
        /\ links' = links \cup {visit[v].number}
        /\ UNCHANGED <<bill, paypal, past, visitFaults>>
    BY <1>4 DEF AnswerLink, Leave
  <2>2. /\ visit' \in [Visits -> Visit] /\ visit[v].number \in Numbers
        /\ visit'[v] = Away /\ \A u \in Visits \ {v} : visit'[u] = visit[u]
    BY <1>0, <2>1, AwayTyped DEF Visit, Away
  <2>3. PaypalTypeOK'
    BY <1>0, <2>1, <2>2 DEF PaypalTypeOK, past
  <2>4. RowInv' /\ CapturedWasStored' /\ PaidByCapture' /\ Grows
    BY <1>0, <2>1 DEF RowInv, CapturedWasStored, PaidByCapture, Captured, past, Grows, VisitInv
  <2>5. \A u \in Visits : WillStore(u)' => WillStore(u)
    BY <2>2 DEF WillStore, Away
  <2> QED  BY <1>0, <2>1, <2>2, <2>3, <2>4, <2>5, AwayInv, Stable DEF IInv, past
<1> QED  BY <1>1, <1>2, <1>3, <1>4

\* The payer who comes back, and requests that end half way.
LEMMA ReturnSteps ==
  ASSUME IInv, NEW v \in Visits,
         \/ \E n \in Numbers : ReturnFromPaypal(v, n)
         \/ Capture(v) \/ ApplyCapture(v) \/ VisitFails(v)
  PROVE  IInv'
<1> USE PaypalAssumption DEF VisitAt
<1>0. /\ PaypalTypeOK /\ RowInv /\ CapturedWasStored /\ PaidByCapture
      /\ \A u \in Visits : VisitInv(u)
      /\ bill \in Bills /\ visit \in [Visits -> Visit] /\ visit[v] \in Visit
      /\ links \subseteq Numbers /\ everStored \subseteq Numbers
      /\ paypal \in [Numbers -> {"none", "created", "approved", "captured"}]
      /\ overlapped \in BOOLEAN /\ visitFaults \in 0..MaxVisitFaults
  BY DEF IInv, PaypalTypeOK
<1>q. ASSUME visit' \in [Visits -> Visit], \A u \in Visits \ {v} : visit'[u] = visit[u],
             ~WillStore(v)', VisitInv(v)', Grows, UNCHANGED <<links, past>>,
             bill' \in Bills, bill'.number = bill.number, PaidByCapture',
             paypal' \in [Numbers -> {"none", "created", "approved", "captured"}],
             CapturedWasStored', visitFaults' \in 0..MaxVisitFaults
      PROVE  IInv'
  <2>1. PaypalTypeOK'
    BY <1>0, <1>q DEF PaypalTypeOK, past
  <2>2. RowInv'
    BY <1>0, <1>q DEF RowInv, past
  <2>3. \A u \in Visits : WillStore(u)' => WillStore(u)
    BY <1>q DEF WillStore
  <2> QED  BY <1>0, <1>q, <2>1, <2>2, <2>3, Stable DEF IInv, past
<1>1. ASSUME NEW n \in Numbers, ReturnFromPaypal(v, n) PROVE IInv'
  <2>1. /\ n \in links /\ bill.number \in {NoNumber, n}
        /\ visit' = [visit EXCEPT ![v] = [at |-> "capture", saw |-> bill.number, number |-> n]]
        /\ UNCHANGED <<bill, paypal, links, past, visitFaults>>
    BY <1>1 DEF ReturnFromPaypal
  <2>2. n \in everStored
    BY <1>0, <2>1 DEF RowInv
  <2>3. /\ visit' \in [Visits -> Visit]
        /\ visit'[v] = [at |-> "capture", saw |-> bill.number, number |-> n]
        /\ \A u \in Visits \ {v} : visit'[u] = visit[u]
    BY <1>0, <2>1 DEF Visit, Bills, Optional
  <2>4. ~WillStore(v)' /\ VisitInv(v)'
    BY <2>1, <2>2, <2>3 DEF WillStore, VisitInv, past
  <2>5. Grows /\ PaidByCapture' /\ CapturedWasStored'
    BY <1>0, <2>1 DEF Grows, PaidByCapture, CapturedWasStored, Captured, past
  <2> QED  BY <1>0, <1>q, <2>1, <2>3, <2>4, <2>5
<1>2. CASE Capture(v)
  <2>1. visit[v].at = "capture" /\ UNCHANGED <<bill, links, past, visitFaults>>
    BY <1>2 DEF Capture
  <2>2. visit[v].number \in everStored /\ visit[v].number \in Numbers
    BY <1>0, <2>1 DEF VisitInv, Visit, Away
  <2>3. CASE paypal[visit[v].number] = "approved"
    <3>1. /\ paypal' = [paypal EXCEPT ![visit[v].number] = "captured"]
          /\ visit' = [visit EXCEPT ![v].at = "apply"]
      BY <1>2, <2>3 DEF Capture, Proceed
    <3>2. /\ visit' \in [Visits -> Visit]
          /\ visit'[v] = [visit[v] EXCEPT !.at = "apply"]
          /\ visit'[v].at = "apply" /\ visit'[v].number = visit[v].number
          /\ visit'[v].saw = visit[v].saw
          /\ \A u \in Visits \ {v} : visit'[u] = visit[u]
      BY <1>0, <2>1, <3>1 DEF Visit, Away
    <3>3. ~WillStore(v)' /\ VisitInv(v)'
      BY <1>0, <2>1, <2>2, <3>1, <3>2 DEF WillStore, VisitInv, past
    <3>4. Grows /\ PaidByCapture' /\ CapturedWasStored'
      BY <1>0, <2>1, <2>2, <3>1 DEF Grows, PaidByCapture, CapturedWasStored, Captured, past
    <3> QED  BY <1>0, <1>q, <2>1, <3>1, <3>2, <3>3, <3>4
  <2>4. CASE paypal[visit[v].number] # "approved"
    <3>1. visit' = [visit EXCEPT ![v] = Away] /\ UNCHANGED paypal
      BY <1>2, <2>4 DEF Capture, Leave
    <3>2. /\ visit' \in [Visits -> Visit] /\ visit'[v] = Away
          /\ \A u \in Visits \ {v} : visit'[u] = visit[u]
      BY <1>0, <3>1, AwayTyped
    <3>3. ~WillStore(v)' /\ VisitInv(v)'
      BY <3>2, AwayInv DEF WillStore, Away
    <3>4. Grows /\ PaidByCapture' /\ CapturedWasStored'
      BY <1>0, <2>1, <3>1 DEF Grows, PaidByCapture, CapturedWasStored, Captured, past
    <3> QED  BY <1>0, <1>q, <2>1, <3>1, <3>2, <3>3, <3>4
  <2> QED  BY <2>3, <2>4
<1>3. CASE ApplyCapture(v)
  <2>1. /\ visit[v].at = "apply" /\ visit' = [visit EXCEPT ![v] = Away]
        /\ UNCHANGED <<paypal, links, past, visitFaults>>
        /\ Settle(visit[v].number)
    BY <1>3 DEF ApplyCapture, Leave
  <2>2. /\ visit' \in [Visits -> Visit] /\ visit'[v] = Away
        /\ \A u \in Visits \ {v} : visit'[u] = visit[u]
    BY <1>0, <2>1, AwayTyped
  <2>3. visit[v].number \in Captured
    BY <1>0, <2>1 DEF VisitInv, Captured, Visit, Away
  <2>4. bill' \in Bills /\ bill'.number = bill.number /\ PaidByCapture'
    BY <1>0, <2>1, <2>3 DEF Settle, Bills, Optional, PaidByCapture, Captured
  <2>5. ~WillStore(v)' /\ VisitInv(v)'
    BY <2>2, AwayInv DEF WillStore, Away
  <2>6. Grows /\ CapturedWasStored'
    BY <1>0, <2>1, <2>4 DEF Grows, CapturedWasStored, Captured, past
  <2> QED  BY <1>0, <1>q, <2>1, <2>2, <2>4, <2>5, <2>6
<1>4. CASE VisitFails(v)
  <2>1. /\ visit' = [visit EXCEPT ![v] = Away] /\ visitFaults' \in 0..MaxVisitFaults
        /\ UNCHANGED <<bill, paypal, links, past>>
    BY <1>0, <1>4 DEF VisitFails, Leave
  <2>2. /\ visit' \in [Visits -> Visit] /\ visit'[v] = Away
        /\ \A u \in Visits \ {v} : visit'[u] = visit[u]
    BY <1>0, <2>1, AwayTyped
  <2>3. ~WillStore(v)' /\ VisitInv(v)'
    BY <2>2, AwayInv DEF WillStore, Away
  <2>4. Grows /\ PaidByCapture' /\ CapturedWasStored'
    BY <1>0, <2>1 DEF Grows, PaidByCapture, CapturedWasStored, Captured, past
  <2> QED  BY <1>0, <1>q, <2>1, <2>2, <2>3, <2>4
<1> QED  BY <1>1, <1>2, <1>3, <1>4

\* The payer at PayPal, notices, the query of the worker and the close.
LEMMA WorldSteps ==
  ASSUME IInv,
         \/ \E n \in Numbers : Approve(n) \/ NoticeArrives(n)
         \/ QueryStored \/ CloseBill
  PROVE  IInv'
<1>0. /\ PaypalTypeOK /\ RowInv /\ CapturedWasStored /\ PaidByCapture
      /\ \A u \in Visits : VisitInv(u)
      /\ bill \in Bills
      /\ paypal \in [Numbers -> {"none", "created", "approved", "captured"}]
  BY DEF IInv, PaypalTypeOK
<1>q. ASSUME UNCHANGED <<links, visit, past, visitFaults>>,
             bill' \in Bills, bill'.number = bill.number, PaidByCapture', Grows,
             paypal' \in [Numbers -> {"none", "created", "approved", "captured"}],
             CapturedWasStored'
      PROVE  IInv'
  <2>1. PaypalTypeOK' /\ RowInv'
    BY <1>0, <1>q DEF PaypalTypeOK, RowInv, past
  <2>2. \A u \in Visits : VisitInv(u)'
    BY <1>0, <1>q, Stable DEF past, WillStore
  <2> QED  BY <1>q, <2>1, <2>2 DEF IInv
<1>1. ASSUME NEW n \in Numbers, Approve(n) PROVE IInv'
  <2>1. /\ paypal[n] = "created" /\ paypal' = [paypal EXCEPT ![n] = "approved"]
        /\ UNCHANGED <<bill, links, visit, past, visitFaults>>
    BY <1>1 DEF Approve
  <2>2. Captured' = Captured
    BY <1>0, <2>1 DEF Captured
  <2>3. PaidByCapture' /\ CapturedWasStored'
    BY <1>0, <2>1, <2>2 DEF PaidByCapture, CapturedWasStored, past
  <2>4. Grows
    BY <1>0, <2>1 DEF Grows, past
  <2>5. paypal' \in [Numbers -> {"none", "created", "approved", "captured"}]
    BY <1>0, <2>1
  <2> QED  BY <1>0, <1>q, <2>1, <2>3, <2>4, <2>5
<1>2. ASSUME NEW n \in Numbers, paypal[n] = "captured", Settle(n),
             UNCHANGED <<paypal, links, visit, past, visitFaults>>
      PROVE  IInv'
  <2>1. bill' \in Bills /\ bill'.number = bill.number
    BY <1>0, <1>2 DEF Settle, Bills, Optional
  <2>2. Captured' = Captured /\ n \in Captured
    BY <1>0, <1>2 DEF Captured
  <2>3. PaidByCapture' /\ CapturedWasStored'
    BY <1>0, <1>2, <2>2 DEF Settle, Bills, PaidByCapture, CapturedWasStored, past
  <2>4. Grows
    BY <1>0, <1>2, <2>1 DEF Grows, past
  <2> QED  BY <1>0, <1>q, <1>2, <2>1, <2>3, <2>4
<1>3. ASSUME NEW n \in Numbers, NoticeArrives(n) PROVE IInv'
  BY <1>2, <1>3 DEF NoticeArrives
<1>4. CASE QueryStored
  <2>1. bill.number \in Numbers
    BY <1>0, <1>4 DEF QueryStored, Bills, Optional
  <2> QED  BY <1>2, <1>4, <2>1 DEF QueryStored
<1>5. CASE CloseBill
  <2>1. /\ bill' = [bill EXCEPT !.status = "closed"]
        /\ UNCHANGED <<paypal, links, visit, past, visitFaults>>
    BY <1>5 DEF CloseBill
  <2>2. bill' \in Bills /\ bill'.number = bill.number /\ bill'.status = "closed"
    BY <1>0, <2>1 DEF Bills
  <2>3. PaidByCapture' /\ CapturedWasStored'
    BY <1>0, <2>1, <2>2 DEF PaidByCapture, CapturedWasStored, Captured, past
  <2>4. Grows
    BY <1>0, <2>1, <2>2 DEF Grows, past
  <2> QED  BY <1>0, <1>q, <2>1, <2>2, <2>3, <2>4
<1> QED  BY <1>1, <1>3, <1>4, <1>5

LEMMA NextIInv == IInv /\ [PaypalNext]_paypalVars => IInv'
<1> SUFFICES ASSUME IInv, [PaypalNext]_paypalVars PROVE IInv'
  OBVIOUS
<1>1. CASE UNCHANGED paypalVars
  BY <1>1 DEF paypalVars, past, IInv, PaypalTypeOK, RowInv, CapturedWasStored, PaidByCapture,
              Captured, VisitInv, WillStore
<1>2. CASE PaypalNext
  BY <1>2, StartSteps, ReturnSteps, WorldSteps DEF PaypalNext, VisitStep
<1> QED  BY <1>1, <1>2

LEMMA Invariant == PaypalSpec => []IInv
BY InitIInv, NextIInv, PTL DEF PaypalSpec

\* Type correctness of every reachable state.
THEOREM TypeCorrect == PaypalSpec => []PaypalTypeOK
<1>1. IInv => PaypalTypeOK
  BY DEF IInv
<1> QED  BY Invariant, <1>1, PTL

\* StartPayment and CompletePaypalPayment never capture a number the row did not hold.
THEOREM CapturedStored == PaypalSpec => []CapturedWasStored
<1>1. IInv => CapturedWasStored
  BY DEF IInv
<1> QED  BY Invariant, <1>1, PTL

\* Unless two first starts overlap, the payer is charged at most once.
THEOREM Charged == PaypalSpec => []ChargedOnce
<1>1. IInv => ChargedOnce
  BY DEF IInv, RowInv, CapturedWasStored, ChargedOnce
<1> QED  BY Invariant, <1>1, PTL

\* The order is paid by money that was captured.
THEOREM PaidCaptured == PaypalSpec => []PaidByCapture
<1>1. IInv => PaidByCapture
  BY DEF IInv
<1> QED  BY Invariant, <1>1, PTL

=============================================================================
