-------------------------- MODULE HodlInvoiceProofs --------------------------
(***************************************************************************)
(* What the store says of an invoice has happened at the node, for any     *)
(* number of invoices, of calls and waits in flight, and of restarts.      *)
(***************************************************************************)
EXTENDS HodlInvoice, SequenceTheorems, TLAPS

\* The node has come past state s, or is there.
Passed(s, now) ==
  /\ s = "held" => now \in {"held", "confirmed", "cancelled"}
  /\ s = "confirmed" => now = "confirmed"
  /\ s = "cancelled" => now = "cancelled"

\* The state of the store that shows node state s, and what it claims of it.
Claims(status) ==
  CASE status = "settled" -> "confirmed"
    [] status = "cancelled" -> "cancelled"
    [] status = "paid" -> "held"
    [] OTHER -> "none"

\* A call that was served finds the node where the request has brought it, and
\* an update that has not been read has happened.
CallsServed ==
  \A c \in HodlCalls :
    /\ hodlCall[c].pc # "idle" => hodlCall[c].h \in Invoices
    /\ hodlCall[c].pc = "served" => Passed(Result[hodlCall[c].op], node[hodlCall[c].h])

UpdatesHappened ==
  \A w \in Waiters :
    /\ wait[w].updates # <<>> \/ wait[w].answer # "none" \/ wait[w].listening \/ wait[w].timer =>
         wait[w].h \in Invoices
    /\ \A i \in 1..Len(wait[w].updates) : Passed(wait[w].updates[i], node[wait[w].h])

HodlInv ==
  /\ HodlTypeOK
  /\ CallsServed
  /\ UpdatesHappened
  /\ StatusHappened
  /\ PaidIsConfirmed

\* The node moves forward only.
NodeForward == \A h \in Invoices, s \in NodeStates : Passed(s, node[h]) => Passed(s, node'[h])

-----------------------------------------------------------------------------
LEMMA StatusClaims ==
  ASSUME store \in [Invoices -> HodlStatus \cup {"none"}]
  PROVE  StatusHappened <=> \A h \in Invoices : Passed(Claims(store[h]), node[h])
  BY DEF StatusHappened, Passed, Claims, HodlStatus

LEMMA ResultStates ==
  ASSUME NEW op \in Operations
  PROVE  Result[op] \in NodeStates /\ Accepts[op] \subseteq NodeStates
  BY DEF Operations, Result, Accepts, NodeStates

\* A node that keeps still, or that moves on where it may.
LEMMA StillForward == UNCHANGED node => NodeForward
  BY DEF NodeForward

LEMMA MoveForward ==
  ASSUME HodlTypeOK, NEW h \in Invoices, NEW s \in NodeStates, node' = [node EXCEPT ![h] = s],
         \/ s = "open" /\ node[h] = "none"
         \/ s = "held" /\ node[h] = "open"
         \/ s = "confirmed" /\ node[h] \in {"held", "confirmed"}
         \/ s = "cancelled" /\ node[h] \in {"open", "held", "cancelled"}
  PROVE  NodeForward
  BY DEF NodeForward, Passed, HodlTypeOK

WaitType == [h : Invoices \cup {None}, timer : BOOLEAN, listening : BOOLEAN,
             answer : {"none", "paid", "unpaid"}, updates : Seq(NodeStates)]

\* A wait whose updates have happened and whose answer is true.
WaitSound(r) ==
  /\ r \in WaitType
  /\ r.updates # <<>> \/ r.answer # "none" \/ r.listening \/ r.timer => r.h \in Invoices
  /\ \A i \in 1..Len(r.updates) : Passed(r.updates[i], node[r.h])
  /\ r.answer = "paid" => node[r.h] = "confirmed"

WaitsSound == \A w \in Waiters : WaitSound(wait[w])

LEMMA WaitsOf == HodlTypeOK => (UpdatesHappened /\ PaidIsConfirmed <=> WaitsSound)
  BY DEF HodlTypeOK, WaitsSound, WaitSound, UpdatesHappened, PaidIsConfirmed, WaitType

\* The node tells every subscription.
LEMMA BecomesSound ==
  ASSUME HodlTypeOK, WaitsSound, NEW h \in Invoices, NEW s \in NodeStates, NodeBecomes(h, s),
         NodeForward
  PROVE  WaitsSound' /\ wait' \in [Waiters -> WaitType] /\ node' \in [Invoices -> NodeStates]
<1>1. node' \in [Invoices -> NodeStates] /\ node'[h] = s
  BY DEF NodeBecomes, HodlTypeOK
<1>2. Passed(s, node'[h])
  BY <1>1 DEF Passed
<1>3. ASSUME NEW w \in Waiters
      PROVE  wait'[w] \in WaitType /\ WaitSound(wait[w])'
  <2> DEFINE r == wait[w]
  <2>1. /\ r \in WaitType /\ r.updates \in Seq(NodeStates)
        /\ r.updates # <<>> \/ r.answer # "none" \/ r.listening \/ r.timer => r.h \in Invoices
        /\ \A i \in 1..Len(r.updates) : Passed(r.updates[i], node[r.h])
        /\ r.answer = "paid" => node[r.h] = "confirmed"
    BY DEF WaitsSound, WaitSound, WaitType
  <2>2. \A i \in 1..Len(r.updates) : r.updates[i] \in NodeStates /\ r.h \in Invoices
    BY <2>1
  <2>3. \A i \in 1..Len(r.updates) : Passed(r.updates[i], node'[r.h])
    BY <2>1, <2>2 DEF NodeForward
  <2>4. r.answer = "paid" => node'[r.h] = "confirmed"
    <3>1. r.answer = "paid" => r.h \in Invoices /\ Passed("confirmed", node[r.h])
      BY <2>1 DEF Passed
    <3>2. "confirmed" \in NodeStates
      BY DEF NodeStates
    <3> QED
      BY <3>1, <3>2 DEF NodeForward, Passed
  <2>5. CASE ~(r.listening /\ r.h = h /\ node[h] # s)
    <3>1. wait'[w] = r
      BY <2>5 DEF NodeBecomes
    <3> HIDE DEF r
    <3> QED
      BY <2>1, <2>3, <2>4, <3>1 DEF WaitSound
  <2>6. CASE r.listening /\ r.h = h /\ node[h] # s
    <3> DEFINE q == [r EXCEPT !.updates = Append(r.updates, s)]
    <3>1. wait'[w] = q
      BY <2>6 DEF NodeBecomes
    <3>2. /\ q.updates = Append(r.updates, s) /\ q.h = h /\ q.answer = r.answer
          /\ q \in WaitType
      BY <2>1, <2>6 DEF WaitType
    <3>3. \A i \in 1..Len(q.updates) : Passed(q.updates[i], node'[q.h])
      <4>1. Len(q.updates) = Len(r.updates) + 1 /\ Len(r.updates) \in Nat
        BY <2>1, <3>2
      <4>2. \A i \in 1..Len(q.updates) :
              q.updates[i] = IF i <= Len(r.updates) THEN r.updates[i] ELSE s
        BY <2>1, <3>2, <4>1
      <4> HIDE DEF q, r
      <4> QED
        BY <1>2, <2>3, <2>6, <3>2, <4>1, <4>2
    <3>4. q.answer = "paid" => node'[q.h] = "confirmed"
      BY <2>4, <2>6, <3>2
    <3> HIDE DEF q, r
    <3> QED
      BY <3>1, <3>2, <3>3, <3>4 DEF WaitSound
  <2> QED
    BY <2>5, <2>6
<1>4. wait' \in [Waiters -> WaitType]
  BY <1>3 DEF NodeBecomes
<1>5. WaitsSound'
  BY <1>3 DEF WaitsSound
<1> QED
  BY <1>1, <1>4, <1>5

\* One wait is replaced by a sound one and the node keeps still.
LEMMA WaitSet ==
  ASSUME HodlTypeOK, WaitsSound, NEW w \in Waiters, NEW r, WaitSound(r), UNCHANGED node,
         wait' = [wait EXCEPT ![w] = r]
  PROVE  WaitsSound' /\ wait' \in [Waiters -> WaitType]
<1>1. r \in WaitType /\ wait \in [Waiters -> WaitType]
  BY DEF WaitSound, HodlTypeOK, WaitType
<1>2. \A v \in Waiters : wait'[v] = IF v = w THEN r ELSE wait[v]
  BY <1>1
<1>3. WaitsSound'
  BY <1>2 DEF WaitsSound, WaitSound
<1> QED
  BY <1>1, <1>3

-----------------------------------------------------------------------------
CallType == [pc : {"idle", "sent", "served"}, op : Operations, h : Invoices \cup {None}]

CallSound(r) ==
  /\ r \in CallType
  /\ r.pc # "idle" => r.h \in Invoices
  /\ r.pc = "served" => Passed(Result[r.op], node[r.h])

CallsSound == \A c \in HodlCalls : CallSound(hodlCall[c])

StoreSound == \A h \in Invoices : Passed(Claims(store[h]), node[h])

LEMMA CallsOf == HodlTypeOK => (CallsServed <=> CallsSound)
  BY DEF HodlTypeOK, CallsServed, CallsSound, CallSound, CallType

LEMMA StoreOf == HodlTypeOK => (StatusHappened <=> StoreSound)
  BY StatusClaims DEF HodlTypeOK, StoreSound

LEMMA InvParts == HodlInv <=> HodlTypeOK /\ CallsSound /\ WaitsSound /\ StoreSound
  BY CallsOf, StoreOf, WaitsOf DEF HodlInv

LEMMA NextParts == HodlTypeOK' /\ CallsSound' /\ WaitsSound' /\ StoreSound' => HodlInv'
  BY InvParts, PTL

LEMMA ClaimStates == \A h : Claims(h) \in NodeStates
  BY DEF Claims, NodeStates

\* What held of calls and of the store holds of a node that has moved on.
LEMMA CallsForward ==
  ASSUME HodlTypeOK, CallsSound, NodeForward, UNCHANGED hodlCall
  PROVE  CallsSound'
<1> SUFFICES ASSUME NEW c \in HodlCalls PROVE CallSound(hodlCall[c])'
  BY DEF CallsSound
<1>1. hodlCall[c] \in CallType /\ CallSound(hodlCall[c])
  BY DEF CallsSound, CallSound
<1>2. Result[hodlCall[c].op] \in NodeStates
  BY <1>1, ResultStates DEF CallType
<1> QED
  BY <1>1, <1>2 DEF CallSound, NodeForward

LEMMA CallSet ==
  ASSUME HodlTypeOK, CallsSound, NodeForward, NEW c \in HodlCalls, NEW r, CallSound(r)',
         hodlCall' = [hodlCall EXCEPT ![c] = r]
  PROVE  CallsSound' /\ hodlCall' \in [HodlCalls -> CallType]
<1>1. hodlCall \in [HodlCalls -> CallType] /\ r \in CallType
  BY DEF CallSound, HodlTypeOK, CallType
<1>2. \A d \in HodlCalls : hodlCall'[d] = IF d = c THEN r ELSE hodlCall[d]
  BY <1>1
<1>3. ASSUME NEW d \in HodlCalls
      PROVE  CallSound(hodlCall[d])'
  <2>1. CASE d = c
    <3>1. hodlCall'[d] = r
      BY <1>2, <2>1
    <3> QED
      BY <3>1 DEF CallSound
  <2>2. CASE d # c
    <3>1. hodlCall'[d] = hodlCall[d] /\ hodlCall[d] \in CallType /\ CallSound(hodlCall[d])
      BY <1>1, <1>2, <2>2 DEF CallsSound
    <3>2. Result[hodlCall[d].op] \in NodeStates
      BY <3>1, ResultStates DEF CallType
    <3> QED
      BY <3>1, <3>2 DEF CallSound, NodeForward
  <2> QED
    BY <2>1, <2>2
<1> QED
  BY <1>1, <1>3 DEF CallsSound

LEMMA IdleSound == CallSound(HodlIdle)'
  BY DEF CallSound, HodlIdle, CallType, Operations

LEMMA StoreForward ==
  ASSUME StoreSound, NodeForward, UNCHANGED store
  PROVE  StoreSound'
  BY ClaimStates DEF StoreSound, NodeForward

\* An entry is replaced by one whose claim is true, and keeps its preimage.
LEMMA StoreUpdated ==
  ASSUME HodlTypeOK, StoreSound, UNCHANGED <<node, preimages>>, NEW h \in Invoices,
         NEW s \in HodlStatus, UpdateStatus(h, s), Passed(Claims(s), node[h])
  PROVE  /\ StoreSound' /\ store' \in [Invoices -> HodlStatus \cup {"none"}]
         /\ preimages' = {g \in Invoices : store'[g] # "none"}
<1>1. \A g \in Invoices :
        store'[g] = IF g = h /\ store[g] # "none" THEN s ELSE store[g]
  BY DEF UpdateStatus, HodlTypeOK
<1>2. StoreSound'
  BY <1>1 DEF StoreSound
<1>3. store' \in [Invoices -> HodlStatus \cup {"none"}]
  BY DEF UpdateStatus, HodlTypeOK
<1>4. preimages' = {g \in Invoices : store'[g] # "none"}
  BY <1>1 DEF HodlTypeOK, HodlStatus
<1> QED
  BY <1>2, <1>3, <1>4

LEMMA TypeParts ==
  /\ node' \in [Invoices -> NodeStates]
  /\ store' \in [Invoices -> HodlStatus \cup {"none"}]
  /\ preimages' = {g \in Invoices : store'[g] # "none"}
  /\ offered' \in SUBSET Invoices
  /\ hodlCall' \in [HodlCalls -> CallType]
  /\ wait' \in [Waiters -> WaitType]
  /\ crashes' \in 0..MaxCrashes
  => HodlTypeOK'
  BY DEF HodlTypeOK, CallType, WaitType

LEMMA TypeHas ==
  HodlTypeOK =>
    /\ node \in [Invoices -> NodeStates]
    /\ store \in [Invoices -> HodlStatus \cup {"none"}]
    /\ preimages = {g \in Invoices : store[g] # "none"}
    /\ offered \in SUBSET Invoices
    /\ hodlCall \in [HodlCalls -> CallType]
    /\ wait \in [Waiters -> WaitType]
    /\ crashes \in 0..MaxCrashes
  BY DEF HodlTypeOK, CallType, WaitType

-----------------------------------------------------------------------------
\* The node.
LEMMA NodeMoves ==
  ASSUME HodlInv, NEW h \in Invoices, PayerPays(h) \/ NodeExpires(h)
  PROVE  HodlInv' /\ UNCHANGED preimages
<1> USE InvParts
<1>1. PICK s \in {"held", "cancelled"} :
        /\ NodeBecomes(h, s)
        /\ s = "held" => node[h] = "open"
        /\ s = "cancelled" => node[h] \in {"open", "held"}
  BY DEF PayerPays, NodeExpires
<1>2. UNCHANGED <<store, preimages, offered, hodlCall, crashes>>
  BY DEF PayerPays, NodeExpires
<1>3. NodeForward
  BY <1>1, MoveForward DEF NodeBecomes, NodeStates
<1>4. WaitsSound' /\ wait' \in [Waiters -> WaitType] /\ node' \in [Invoices -> NodeStates]
  BY <1>1, <1>3, BecomesSound DEF NodeStates
<1>5. CallsSound' /\ StoreSound'
  BY <1>2, <1>3, CallsForward, StoreForward
<1>6. HodlTypeOK'
  BY <1>2, <1>4, TypeHas, TypeParts
<1>7. HodlInv'
  BY <1>4, <1>5, <1>6, NextParts
<1> QED
  BY <1>2, <1>7

LEMMA ServesInv ==
  ASSUME HodlInv, NEW c \in HodlCalls, NodeServes(c)
  PROVE  HodlInv' /\ UNCHANGED preimages
<1> USE InvParts
<1> DEFINE r == hodlCall[c]
           s == Result[r.op]
           q == [r EXCEPT !.pc = "served"]
<1>1. r \in CallType /\ r.pc = "sent" /\ r.h \in Invoices /\ r.op \in Operations
  BY DEF NodeServes, CallsSound, CallSound, CallType
<1>2. /\ NodeBecomes(r.h, s) /\ node[r.h] \in Accepts[r.op]
      /\ UNCHANGED <<store, preimages, offered, crashes>>
  BY DEF NodeServes
<1>3. s \in NodeStates
  BY <1>1, ResultStates
<1>4. NodeForward
  <2>1. \/ s = "open" /\ node[r.h] = "none"
        \/ s = "confirmed" /\ node[r.h] \in {"held", "confirmed"}
        \/ s = "cancelled" /\ node[r.h] \in {"open", "held", "cancelled"}
    BY <1>1, <1>2 DEF Operations, Result, Accepts
  <2>2. node' = [node EXCEPT ![r.h] = s]
    BY <1>2 DEF NodeBecomes
  <2> HIDE DEF s, r
  <2> QED
    BY <1>1, <1>3, <2>1, <2>2, MoveForward
<1>5. WaitsSound' /\ wait' \in [Waiters -> WaitType] /\ node' \in [Invoices -> NodeStates]
  <2> HIDE DEF s, r
  <2> QED
    BY <1>1, <1>2, <1>3, <1>4, BecomesSound
<1>6. hodlCall' = [hodlCall EXCEPT ![c] = q]
  BY TypeHas DEF NodeServes
<1>7. /\ q \in CallType /\ q.pc = "served" /\ q.h \in Invoices /\ Result[q.op] = s /\ q.h = r.h
  BY <1>1 DEF CallType
<1>8. node'[r.h] = s
  BY <1>1, <1>2, TypeHas DEF NodeBecomes
<1> HIDE DEF q, r, s
<1>9. \A x : x = q => CallSound(x)'
  BY <1>7, <1>8 DEF CallSound, Passed
<1>10. CallsSound' /\ hodlCall' \in [HodlCalls -> CallType]
  <2>1. PICK x : x = q
    OBVIOUS
  <2> QED
    BY <1>4, <1>6, <1>9, <2>1, CallSet
<1>11. StoreSound'
  BY <1>2, <1>4, StoreForward
<1>12. HodlTypeOK'
  BY <1>2, <1>5, <1>10, TypeHas, TypeParts
<1> QED
  BY <1>2, <1>5, <1>10, <1>11, <1>12, NextParts

-----------------------------------------------------------------------------
\* The calls of this process.
LEMMA SendsInv ==
  ASSUME HodlInv, NEW c \in HodlCalls, NEW h \in Invoices,
         CreateHodl(c, h) \/ SettleHodl(c, h) \/ CancelHodl(c, h)
  PROVE  HodlInv' /\ UNCHANGED preimages
<1> USE InvParts
<1>1. PICK op \in Operations :
        /\ hodlCall' = [hodlCall EXCEPT ![c] = [pc |-> "sent", op |-> op, h |-> h]]
        /\ UNCHANGED <<node, offered, wait, crashes, store, preimages>>
  BY DEF CreateHodl, SettleHodl, CancelHodl, Send, Operations
<1>2. CallSound([pc |-> "sent", op |-> op, h |-> h])'
  BY DEF CallSound, CallType
<1>3. NodeForward
  BY <1>1, StillForward
<1>4. CallsSound' /\ hodlCall' \in [HodlCalls -> CallType]
  BY <1>1, <1>2, <1>3, CallSet
<1>5. StoreSound' /\ WaitsSound'
  BY <1>1, <1>3, StoreForward DEF WaitsSound, WaitSound
<1>6. HodlTypeOK'
  BY <1>1, <1>4, TypeHas, TypeParts
<1> QED
  BY <1>1, <1>4, <1>5, <1>6, NextParts

\* A call that ends leaves the node, the waits and the other calls alone.
LEMMA EndsInv ==
  ASSUME HodlInv, NEW c \in HodlCalls, hodlCall' = [hodlCall EXCEPT ![c] = HodlIdle],
         UNCHANGED <<node, wait, crashes>>,
         StoreSound', store' \in [Invoices -> HodlStatus \cup {"none"}],
         preimages' = {g \in Invoices : store'[g] # "none"}, offered' \in SUBSET Invoices
  PROVE  HodlInv'
<1> USE InvParts
<1>1. CallsSound' /\ hodlCall' \in [HodlCalls -> CallType]
  BY IdleSound, StillForward, CallSet
<1>2. WaitsSound'
  BY DEF WaitsSound, WaitSound
<1>3. HodlTypeOK'
  BY <1>1, TypeHas, TypeParts
<1> QED
  BY <1>1, <1>2, <1>3, NextParts

\* A call ends; only a cancellation that the node has carried out drops a preimage.
LEMMA ReturnsInv ==
  ASSUME HodlInv, NEW c \in HodlCalls,
         CreateReturns(c) \/ SettleReturns(c) \/ CancelReturns(c) \/ CallFails(c)
  PROVE  HodlInv' /\ \A h \in Invoices : h \in preimages /\ h \notin preimages' =>
                                            node[h] = "cancelled"
<1> USE InvParts
<1> DEFINE r == hodlCall[c]
<1>1. /\ hodlCall' = [hodlCall EXCEPT ![c] = HodlIdle] /\ UNCHANGED <<node, wait, crashes>>
      /\ r \in CallType /\ r.h \in Invoices
  BY DEF CreateReturns, SettleReturns, CancelReturns, CallFails, Answered, CallsSound, CallSound
<1>2. r.pc = "served" => Passed(Result[r.op], node[r.h])
  BY DEF CallsSound, CallSound
<1>3. CASE CreateReturns(c)
  <2>1. /\ store' = [store EXCEPT ![r.h] = "pending"]
        /\ preimages' = preimages \cup {r.h} /\ offered' = offered \cup {r.h}
    BY <1>3 DEF CreateReturns
  <2> HIDE DEF r
  <2>2. /\ store' \in [Invoices -> HodlStatus \cup {"none"}] /\ offered' \in SUBSET Invoices
        /\ preimages' = {g \in Invoices : store'[g] # "none"}
    BY <1>1, <2>1, TypeHas DEF HodlStatus
  <2>3. StoreSound'
    BY <1>1, <2>1, TypeHas DEF StoreSound, Claims, Passed
  <2> QED
    BY <1>1, <2>1, <2>2, <2>3, EndsInv
<1>4. CASE SettleReturns(c)
  <2>1. /\ UpdateStatus(r.h, "settled") /\ UNCHANGED <<preimages, offered>>
        /\ r.pc = "served" /\ r.op = "settle"
    BY <1>4 DEF SettleReturns, Answered
  <2>2. Passed(Claims("settled"), node[r.h])
    BY <1>2, <2>1 DEF Claims, Result
  <2> HIDE DEF r
  <2>3. /\ StoreSound' /\ store' \in [Invoices -> HodlStatus \cup {"none"}]
        /\ preimages' = {g \in Invoices : store'[g] # "none"}
    BY <1>1, <2>1, <2>2, StoreUpdated DEF HodlStatus
  <2> QED
    BY <1>1, <2>1, <2>3, EndsInv, TypeHas
<1>5. CASE CancelReturns(c)
  <2>1. /\ store' = [store EXCEPT ![r.h] = "none"] /\ preimages' = preimages \ {r.h}
        /\ UNCHANGED offered /\ r.pc = "served" /\ r.op = "cancel"
    BY <1>5 DEF CancelReturns, Answered
  <2>2. node[r.h] = "cancelled"
    BY <1>2, <2>1 DEF Result, Passed
  <2> HIDE DEF r
  <2>3. /\ store' \in [Invoices -> HodlStatus \cup {"none"}]
        /\ preimages' = {g \in Invoices : store'[g] # "none"}
    BY <1>1, <2>1, TypeHas
  <2>4. StoreSound'
    BY <1>1, <2>1, TypeHas DEF StoreSound, Claims, Passed
  <2> QED
    BY <1>1, <2>1, <2>2, <2>3, <2>4, EndsInv, TypeHas
<1>6. CASE CallFails(c)
  <2>1. UNCHANGED <<store, preimages, offered>>
    BY <1>6 DEF CallFails
  <2>2. StoreSound'
    BY <1>1, <2>1, StillForward, StoreForward
  <2> QED
    BY <1>1, <2>1, <2>2, EndsInv, TypeHas
<1> QED
  BY <1>3, <1>4, <1>5, <1>6

-----------------------------------------------------------------------------
\* The waits.  A step replaces one of them by a sound one.
LEMMA WaitsInv ==
  ASSUME HodlInv, NEW w \in Waiters, NEW r, WaitSound(r), wait' = [wait EXCEPT ![w] = r],
         UNCHANGED <<node, preimages, offered, hodlCall, crashes>>,
         StoreSound', store' \in [Invoices -> HodlStatus \cup {"none"}],
         preimages' = {g \in Invoices : store'[g] # "none"}
  PROVE  HodlInv'
<1> USE InvParts
<1>1. WaitsSound' /\ wait' \in [Waiters -> WaitType]
  BY WaitSet
<1>2. CallsSound'
  BY StillForward, CallsForward
<1>3. HodlTypeOK'
  BY <1>1, TypeHas, TypeParts
<1> QED
  BY <1>1, <1>2, <1>3, NextParts

LEMMA ResolvedType ==
  ASSUME NEW r \in WaitType, NEW answer \in {"paid", "unpaid"}
  PROVE  LET q == Resolved(r, answer)
             s == [q EXCEPT !.listening = FALSE, !.updates = <<>>]
         IN /\ q \in WaitType /\ q.h = r.h /\ q.updates = r.updates /\ ~q.timer
            /\ q.listening = r.listening /\ (q.answer = "paid" => "paid" \in {answer, r.answer})
            /\ s \in WaitType /\ s.h = r.h /\ s.updates = <<>> /\ s.answer = q.answer
<1> DEFINE q == Resolved(r, answer)
           s == [q EXCEPT !.listening = FALSE, !.updates = <<>>]
<1>1. /\ q \in WaitType /\ q.h = r.h /\ q.updates = r.updates /\ ~q.timer
      /\ q.listening = r.listening /\ (q.answer = "paid" => "paid" \in {answer, r.answer})
  BY DEF Resolved, WaitType
<1>2. <<>> \in Seq(NodeStates)
  OBVIOUS
<1> HIDE DEF q
<1>3. s \in WaitType /\ s.h = r.h /\ s.updates = <<>> /\ s.answer = q.answer
  BY <1>1, <1>2 DEF WaitType
<1> QED
  BY <1>1, <1>3 DEF q

\* An update that is read has happened: what it writes into the store is true,
\* and only a confirmation answers "paid".
LEMMA UpdateSound ==
  ASSUME NEW r, WaitSound(r), r.updates # <<>>
  PROVE  WaitSound(AfterUpdate(r, Head(r.updates))) /\ r.h \in Invoices
         /\ Head(r.updates) \in NodeStates /\ Passed(Head(r.updates), node[r.h])
<1> DEFINE u == Head(r.updates)
<1>1. /\ r \in WaitType /\ r.h \in Invoices /\ r.updates \in Seq(NodeStates)
      /\ \A i \in 1..Len(r.updates) : Passed(r.updates[i], node[r.h])
      /\ r.answer = "paid" => node[r.h] = "confirmed"
  BY DEF WaitSound, WaitType
<1>2. u = r.updates[1] /\ u \in NodeStates /\ Passed(u, node[r.h])
  BY <1>1
<1>3. Len(Tail(r.updates)) = Len(r.updates) - 1 /\ Tail(r.updates) \in Seq(NodeStates)
  BY <1>1
<1>4. \A i \in 1..Len(Tail(r.updates)) : Passed(Tail(r.updates)[i], node[r.h])
  <2> SUFFICES ASSUME NEW i \in 1..Len(Tail(r.updates))
               PROVE  Passed(Tail(r.updates)[i], node[r.h])
    OBVIOUS
  <2>1. Tail(r.updates)[i] = r.updates[i + 1] /\ i + 1 \in 1..Len(r.updates)
    BY <1>1, <1>3
  <2> QED
    BY <1>1, <2>1
<1> HIDE DEF u
<1>5. WaitSound(AfterUpdate(r, u))
  <2>1. CASE u = "confirmed"
    <3> DEFINE q == [Resolved(r, "paid") EXCEPT !.listening = FALSE, !.updates = <<>>]
    <3>1. q \in WaitType /\ q.updates = <<>> /\ q.h = r.h
      BY <1>1, ResolvedType
    <3>2. node[r.h] = "confirmed"
      BY <1>2, <2>1 DEF Passed
    <3>3. AfterUpdate(r, u) = q
      BY <2>1 DEF AfterUpdate
    <3> HIDE DEF q
    <3> QED
      BY <1>1, <3>1, <3>2, <3>3 DEF WaitSound
  <2>2. CASE u = "cancelled"
    <3> DEFINE q == [Resolved(r, "unpaid") EXCEPT !.listening = FALSE, !.updates = <<>>]
    <3>1. /\ q \in WaitType /\ q.updates = <<>> /\ q.h = r.h
          /\ q.answer = "paid" => r.answer = "paid"
      BY <1>1, ResolvedType
    <3>2. AfterUpdate(r, u) = q
      BY <2>2 DEF AfterUpdate
    <3> HIDE DEF q
    <3> QED
      BY <1>1, <3>1, <3>2 DEF WaitSound
  <2>3. CASE u \notin {"confirmed", "cancelled"}
    <3> DEFINE q == [r EXCEPT !.updates = Tail(r.updates)]
    <3>1. q \in WaitType /\ q.updates = Tail(r.updates) /\ q.h = r.h /\ q.answer = r.answer
      BY <1>1, <1>3 DEF WaitType
    <3>2. AfterUpdate(r, u) = q
      BY <2>3 DEF AfterUpdate
    <3> HIDE DEF q
    <3> QED
      BY <1>1, <1>4, <3>1, <3>2 DEF WaitSound
  <2> QED
    BY <2>1, <2>2, <2>3
<1> QED
  BY <1>1, <1>2, <1>5 DEF u

LEMMA UpdatedInv ==
  ASSUME HodlInv, NEW w \in Waiters, InvoiceUpdated(w)
  PROVE  HodlInv' /\ UNCHANGED preimages
<1> USE InvParts
<1> DEFINE r == wait[w]
           u == Head(r.updates)
<1>1. /\ r.updates # <<>> /\ UNCHANGED <<node, preimages, offered, hodlCall, crashes>>
      /\ wait' = [wait EXCEPT ![w] = AfterUpdate(r, u)]
  BY TypeHas DEF InvoiceUpdated
<1>2. WaitSound(r)
  BY DEF WaitsSound
<1>3. WaitSound(AfterUpdate(r, u)) /\ r.h \in Invoices /\ Passed(u, node[r.h])
  <2> HIDE DEF r
  <2> QED
    BY <1>1, <1>2, UpdateSound DEF u
<1>4. /\ StoreSound' /\ store' \in [Invoices -> HodlStatus \cup {"none"}]
      /\ preimages' = {g \in Invoices : store'[g] # "none"}
  <2>1. ASSUME NEW s \in {"paid", "cancelled"}, UpdateStatus(r.h, s),
               s = "paid" => u = "held", s = "cancelled" => u = "cancelled"
        PROVE  /\ StoreSound' /\ store' \in [Invoices -> HodlStatus \cup {"none"}]
               /\ preimages' = {g \in Invoices : store'[g] # "none"}
    <3>1. Passed(Claims(s), node[r.h]) /\ s \in HodlStatus
      BY <1>3, <2>1 DEF Claims, Passed, HodlStatus
    <3> HIDE DEF r, u
    <3> QED
      BY <1>1, <1>3, <2>1, <3>1, StoreUpdated
  <2>2. CASE UNCHANGED store
    BY <1>1, <2>2, StillForward, StoreForward, TypeHas
  <2>3. UNCHANGED store \/ (u = "held" /\ UpdateStatus(r.h, "paid"))
          \/ (u = "cancelled" /\ UpdateStatus(r.h, "cancelled"))
    BY DEF InvoiceUpdated
  <2> QED
    BY <2>1, <2>2, <2>3
<1> HIDE DEF r, u
<1> QED
  BY <1>1, <1>3, <1>4, WaitsInv

LEMMA WaitingInv ==
  ASSUME HodlInv, NEW w \in Waiters,
         \/ \E h \in Invoices : RoutePayment(w, h)
         \/ RouteTimeout(w)
         \/ SubscriptionFails(w)
  PROVE  HodlInv' /\ UNCHANGED preimages
<1> USE InvParts
<1>1. UNCHANGED <<node, store, preimages, offered, hodlCall, crashes>>
  BY DEF RoutePayment, RouteTimeout, SubscriptionFails
<1>2. WaitSound(wait[w])
  BY DEF WaitsSound
<1>3. PICK r : WaitSound(r) /\ wait' = [wait EXCEPT ![w] = r]
  <2>1. ASSUME NEW h \in Invoices, RoutePayment(w, h)
        PROVE  \E r : WaitSound(r) /\ wait' = [wait EXCEPT ![w] = r]
    <3> DEFINE q == [h |-> h, timer |-> TRUE, listening |-> TRUE,
                     answer |-> "none", updates |-> <<node[h]>>]
    <3>1. node[h] \in NodeStates
      BY TypeHas
    <3>2. q \in WaitType /\ Len(q.updates) = 1 /\ q.updates[1] = node[h] /\ q.h = h
      BY <3>1 DEF WaitType
    <3>3. q.answer = "none" /\ Passed(node[h], node[h])
      BY DEF Passed
    <3>4. wait' = [wait EXCEPT ![w] = q]
      BY <2>1 DEF RoutePayment
    <3> HIDE DEF q
    <3>5. WaitSound(q)
      BY <3>2, <3>3 DEF WaitSound
    <3> QED
      BY <3>4, <3>5
  <2>2. CASE RouteTimeout(w)
    <3> DEFINE q == Resolved(wait[w], "unpaid")
    <3>1. wait[w] \in WaitType
      BY TypeHas
    <3>2. /\ q \in WaitType /\ q.h = wait[w].h /\ q.updates = wait[w].updates
          /\ q.answer = "paid" => wait[w].answer = "paid"
          /\ q.listening = wait[w].listening /\ ~q.timer
      BY <3>1, ResolvedType
    <3>3. wait[w].timer = TRUE /\ wait' = [wait EXCEPT ![w] = q]
      BY <2>2, <3>1 DEF RouteTimeout, WaitType
    <3> HIDE DEF q
    <3>4. WaitSound(q)
      BY <1>2, <3>2, <3>3 DEF WaitSound
    <3> QED
      BY <3>3, <3>4
  <2>3. CASE SubscriptionFails(w)
    <3> DEFINE q == [Resolved(wait[w], "unpaid") EXCEPT !.listening = FALSE, !.updates = <<>>]
    <3>1. wait[w] \in WaitType /\ wait[w].listening
      BY <2>3, TypeHas DEF SubscriptionFails
    <3>2. /\ q \in WaitType /\ q.h = wait[w].h /\ q.updates = <<>>
          /\ q.answer = "paid" => wait[w].answer = "paid"
      <4> DEFINE r == wait[w]
      <4>1. r \in WaitType
        BY <3>1
      <4> HIDE DEF r
      <4>2. /\ q \in WaitType /\ q.h = r.h /\ q.updates = <<>>
            /\ q.answer = "paid" => r.answer = "paid"
        BY <4>1, ResolvedType DEF r
      <4> QED
        BY <4>2 DEF r
    <3>3. wait[w].h \in Invoices /\ wait' = [wait EXCEPT ![w] = q]
      BY <1>2, <2>3, <3>1 DEF SubscriptionFails, WaitSound
    <3> HIDE DEF q
    <3>4. WaitSound(q)
      BY <1>2, <3>2, <3>3 DEF WaitSound
    <3> QED
      BY <3>3, <3>4
  <2> QED
    BY <2>1, <2>2, <2>3
<1>4. StoreSound'
  BY <1>1, StillForward, StoreForward
<1> QED
  BY <1>1, <1>3, <1>4, WaitsInv, TypeHas

-----------------------------------------------------------------------------
\* A restart forgets every entry, every call and every wait.
LEMMA CrashInv ==
  ASSUME HodlInv, Crash
  PROVE  HodlInv'
<1> USE InvParts
<1>1. StoreSound'
  BY DEF Crash, StoreSound, Claims, Passed
<1>2. \A c \in HodlCalls : hodlCall'[c] = HodlIdle
  BY DEF Crash
<1>3. CallsSound'
  BY <1>2 DEF CallsSound, CallSound, HodlIdle, CallType, Operations
<1>4. /\ NoWait \in WaitType /\ Len(NoWait.updates) = 0 /\ NoWait.updates = <<>>
      /\ NoWait.answer = "none" /\ ~NoWait.listening /\ ~NoWait.timer
  BY DEF NoWait, WaitType
<1>5. \A w \in Waiters : wait'[w] = NoWait
  BY DEF Crash
<1>6. WaitsSound'
  BY <1>4, <1>5 DEF WaitsSound, WaitSound
<1>7. HodlTypeOK'
  <2>1. HodlIdle \in CallType
    BY DEF HodlIdle, CallType, Operations
  <2> QED
    BY <1>4, <2>1, TypeHas, TypeParts, HodlAssumption DEF Crash
<1> QED
  BY <1>1, <1>3, <1>6, <1>7, NextParts

LEMMA InitInv == HodlInit => HodlInv
<1> SUFFICES ASSUME HodlInit PROVE HodlInv
  OBVIOUS
<1>1. HodlTypeOK
  BY HodlAssumption
  DEF HodlInit, HodlTypeOK, NodeStates, HodlStatus, HodlIdle, NoWait, Operations
<1>2. CallsServed
  BY DEF HodlInit, CallsServed, HodlIdle
<1>3. UpdatesHappened /\ PaidIsConfirmed
  BY DEF HodlInit, UpdatesHappened, PaidIsConfirmed, NoWait
<1>4. StatusHappened
  BY DEF HodlInit, StatusHappened
<1> QED
  BY <1>1, <1>2, <1>3, <1>4 DEF HodlInv

\* A step, and what it may do to a preimage.
KeptOr(h) == h \in preimages /\ h \notin preimages' => node[h] = "cancelled" \/ crashes' # crashes

LEMMA StepInv == HodlInv /\ [HodlNext]_hodlVars => HodlInv' /\ \A h \in Invoices : KeptOr(h)
<1> SUFFICES ASSUME HodlInv, [HodlNext]_hodlVars
             PROVE  HodlInv' /\ \A h \in Invoices : KeptOr(h)
  OBVIOUS
<1> USE DEF KeptOr
<1>1. CASE Crash
  <2>1. crashes \in Nat /\ crashes' = crashes + 1
    BY <1>1, HodlAssumption DEF Crash, HodlInv, HodlTypeOK
  <2> QED
    BY <1>1, <2>1, CrashInv
<1>2. CASE UNCHANGED hodlVars
  <2>1. HodlTypeOK' /\ CallsServed' /\ UpdatesHappened' /\ StatusHappened' /\ PaidIsConfirmed'
    BY <1>2 DEF hodlVars, HodlInv, HodlTypeOK, CallsServed, UpdatesHappened, StatusHappened,
                PaidIsConfirmed
  <2> QED
    BY <1>2, <2>1 DEF HodlInv, hodlVars
<1>3. CASE \E h \in Invoices : PayerPays(h) \/ NodeExpires(h)
  BY <1>3, NodeMoves
<1>4. CASE \E c \in HodlCalls : \/ NodeServes(c) \/ CreateReturns(c) \/ SettleReturns(c)
                                \/ CancelReturns(c) \/ CallFails(c)
  BY <1>4, ServesInv, ReturnsInv
<1>5. CASE \E c \in HodlCalls, h \in Invoices :
             CreateHodl(c, h) \/ SettleHodl(c, h) \/ CancelHodl(c, h)
  BY <1>5, SendsInv
<1>6. CASE \/ \E w \in Waiters, h \in Invoices : RoutePayment(w, h)
           \/ \E w \in Waiters : InvoiceUpdated(w) \/ RouteTimeout(w) \/ SubscriptionFails(w)
  BY <1>6, WaitingInv, UpdatedInv
<1> QED
  BY <1>1, <1>2, <1>3, <1>4, <1>5, <1>6 DEF HodlNext

LEMMA Invariant == HodlSpec => []HodlInv
  BY InitInv, StepInv, PTL DEF HodlSpec

\* Every value stays of its type, and the store keeps a preimage exactly for
\* the hashes it has an entry of: pendingHodls and preimages never part.
THEOREM TypeCorrect == HodlSpec => []HodlTypeOK
<1>1. HodlInv => HodlTypeOK
  BY DEF HodlInv
<1> QED
  BY <1>1, Invariant, PTL

\* Late updates, lost answers and a cancellation beside a settlement leave the
\* store with a status that the node has reached.
THEOREM StatusHappenedAlways == HodlSpec => []StatusHappened
<1>1. HodlInv => StatusHappened
  BY DEF HodlInv
<1> QED
  BY <1>1, Invariant, PTL

\* routePayment answers "paid" only for a payment the node has confirmed,
\* whatever the timer and the other waits do.
THEOREM PaidIsConfirmedAlways == HodlSpec => []PaidIsConfirmed
<1>1. HodlInv => PaidIsConfirmed
  BY DEF HodlInv
<1> QED
  BY <1>1, Invariant, PTL

\* The preimage of a payment the node may still hold is dropped by a restart only.
THEOREM PreimageKeptAlways == HodlSpec => PreimageKept
<1>1. HodlInv /\ [HodlNext]_hodlVars =>
        [\A h \in Invoices : h \in preimages /\ h \notin preimages'
           => node[h] = "cancelled" \/ crashes' # crashes]_hodlVars
  BY StepInv DEF KeptOr
<1> QED
  BY <1>1, Invariant, PTL DEF HodlSpec, PreimageKept
=============================================================================
