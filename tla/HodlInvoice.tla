----------------------------- MODULE HodlInvoice -----------------------------
(***************************************************************************)
(* HODL invoices (src/src/payments/hodl): the in-memory store of this      *)
(* process, the Lightning node that holds the payments, and the calls      *)
(* between them.  A call to the node takes effect there in one step and is *)
(* answered in a later one; the answer may be lost.  The node also sends   *)
(* every change of an invoice, in order, to each subscription on it, and   *)
(* these updates and the answers overtake each other.                      *)
(***************************************************************************)
EXTENDS Integers, Sequences

CONSTANTS Invoices,   \* payment hashes
          HodlCalls,  \* slots for concurrent create, settle and cancel calls
          Waiters,    \* slots for concurrent routePayment calls
          MaxCrashes, \* bound: restarts of the process
          None

ASSUME HodlAssumption == None \notin Invoices /\ MaxCrashes \in Nat

VARIABLES
  node,       \* node[h]: the invoice at the Lightning node
  store,      \* store[h]: its status in pendingHodls, "none" if there is no entry
  preimages,  \* the hashes whose preimage the store has
  offered,    \* the hashes whose invoice was returned to the caller
  hodlCall,   \* hodlCall[c]: what call c waits for
  wait,       \* wait[w]: the routePayment call in slot w
  crashes

hodlVars == <<node, store, preimages, offered, hodlCall, wait, crashes>>

NodeStates == {"none", "open", "held", "confirmed", "cancelled"}
HodlStatus == {"pending", "paid", "settled", "cancelled"}
Operations == {"create", "settle", "cancel"}

HodlIdle == [pc |-> "idle", op |-> "create", h |-> None]
NoWait == [h |-> None, timer |-> FALSE, listening |-> FALSE, answer |-> "none", updates |-> <<>>]

HodlInit ==
  /\ node = [h \in Invoices |-> "none"]
  /\ store = [h \in Invoices |-> "none"]
  /\ preimages = {}
  /\ offered = {}
  /\ hodlCall = [c \in HodlCalls |-> HodlIdle]
  /\ wait = [w \in Waiters |-> NoWait]
  /\ crashes = 0

\* hodlStore.updateStatus: nothing happens to a hash without an entry.
UpdateStatus(h, status) ==
  store' = [store EXCEPT ![h] = IF @ = "none" THEN @ ELSE status]

-----------------------------------------------------------------------------
\* The Lightning node.

\* The invoice h becomes s and every subscription on it is told so.
NodeBecomes(h, s) ==
  /\ node' = [node EXCEPT ![h] = s]
  /\ wait' = [w \in Waiters |->
       IF wait[w].listening /\ wait[w].h = h /\ node[h] # s
       THEN [wait[w] EXCEPT !.updates = Append(@, s)] ELSE wait[w]]

PayerPays(h) ==
  /\ node[h] = "open"
  /\ h \in offered
  /\ NodeBecomes(h, "held")
  /\ UNCHANGED <<store, preimages, offered, hodlCall, crashes>>

\* An invoice that is not settled in time is cancelled and a payer refunded.
NodeExpires(h) ==
  /\ node[h] \in {"open", "held"}
  /\ NodeBecomes(h, "cancelled")
  /\ UNCHANGED <<store, preimages, offered, hodlCall, crashes>>

\* What a request does at the node, and from which states.  The invoice is asked for with
\* createInvoice and a hash as its id: what the code takes the answer for, a hold invoice of that
\* hash, is what the node makes here.
Accepts == [create |-> {"none"}, settle |-> {"held", "confirmed"},
            cancel |-> {"open", "held", "cancelled"}]
Result == [create |-> "open", settle |-> "confirmed", cancel |-> "cancelled"]

NodeServes(c) ==
  LET r == hodlCall[c] IN
  /\ r.pc = "sent"
  /\ node[r.h] \in Accepts[r.op]
  /\ NodeBecomes(r.h, Result[r.op])
  /\ hodlCall' = [hodlCall EXCEPT ![c].pc = "served"]
  /\ UNCHANGED <<store, preimages, offered, crashes>>

-----------------------------------------------------------------------------
\* createHodlInvoice, settleHodlInvoice, cancelHodlInvoice.

Send(c, op, h) ==
  /\ hodlCall[c].pc = "idle"
  /\ hodlCall' = [hodlCall EXCEPT ![c] = [pc |-> "sent", op |-> op, h |-> h]]
  /\ UNCHANGED <<node, offered, wait, crashes>>

\* The hash is that of a preimage just drawn.
CreateHodl(c, h) ==
  /\ node[h] = "none"
  /\ \A d \in HodlCalls : hodlCall[d].h # h
  /\ Send(c, "create", h)
  /\ UNCHANGED <<store, preimages>>

\* Neither the status nor the node is looked at, only the preimage.
SettleHodl(c, h) ==
  /\ h \in preimages
  /\ Send(c, "settle", h)
  /\ UNCHANGED <<store, preimages>>

\* A fault: the entry is deleted before the node has been asked.
CancelDeletesFirst(c, h) ==
  /\ Send(c, "cancel", h)
  /\ store' = [store EXCEPT ![h] = "none"]
  /\ preimages' = preimages \ {h}

CancelHodl(c, h) ==
  /\ Send(c, "cancel", h)
  /\ UNCHANGED <<store, preimages>>

Answered(c) ==
  /\ hodlCall[c].pc = "served"
  /\ hodlCall' = [hodlCall EXCEPT ![c] = HodlIdle]
  /\ UNCHANGED <<node, wait, crashes>>

CreateReturns(c) ==
  LET h == hodlCall[c].h IN
  /\ hodlCall[c].op = "create"
  /\ Answered(c)
  /\ store' = [store EXCEPT ![h] = "pending"]
  /\ preimages' = preimages \cup {h}
  /\ offered' = offered \cup {h}

SettleReturns(c) ==
  /\ hodlCall[c].op = "settle"
  /\ Answered(c)
  /\ UpdateStatus(hodlCall[c].h, "settled")
  /\ UNCHANGED <<preimages, offered>>

CancelReturns(c) ==
  LET h == hodlCall[c].h IN
  /\ hodlCall[c].op = "cancel"
  /\ Answered(c)
  /\ store' = [store EXCEPT ![h] = "none"]
  /\ preimages' = preimages \ {h}
  /\ UNCHANGED offered

\* A fault: the status is written although the call failed.
FailsButWrites(c) ==
  /\ hodlCall[c].pc \in {"sent", "served"}
  /\ hodlCall' = [hodlCall EXCEPT ![c] = HodlIdle]
  /\ UpdateStatus(hodlCall[c].h, IF hodlCall[c].op = "settle" THEN "settled" ELSE "pending")
  /\ UNCHANGED <<node, preimages, offered, wait, crashes>>

\* The request was refused, or the request or its answer was lost: the catch
\* clause returns null or false and writes nothing.
CallFails(c) ==
  /\ hodlCall[c].pc \in {"sent", "served"}
  /\ hodlCall' = [hodlCall EXCEPT ![c] = HodlIdle]
  /\ UNCHANGED <<node, store, preimages, offered, wait, crashes>>

-----------------------------------------------------------------------------
\* routePayment: a subscription and a timer race for one answer.

RoutePayment(w, h) ==
  /\ ~wait[w].listening
  /\ store[h] # "none"
  /\ wait' = [wait EXCEPT ![w] = [h |-> h, timer |-> TRUE, listening |-> TRUE,
                                  answer |-> "none", updates |-> <<node[h]>>]]
  /\ UNCHANGED <<node, store, preimages, offered, hodlCall, crashes>>

\* resolve: only the first answer counts.
Resolved(r, answer) == [r EXCEPT !.timer = FALSE,
                                 !.answer = IF @ = "none" THEN answer ELSE @]

\* A fault: a held payment stops the timer although nothing is resolved yet.
AfterUpdateUntimed(r, update) ==
  CASE update = "confirmed" -> [Resolved(r, "paid") EXCEPT !.listening = FALSE, !.updates = <<>>]
    [] update = "cancelled" -> [Resolved(r, "unpaid") EXCEPT !.listening = FALSE, !.updates = <<>>]
    [] update = "held"      -> [r EXCEPT !.timer = FALSE, !.updates = Tail(@)]
    [] OTHER                -> [r EXCEPT !.updates = Tail(@)]

\* A fault: a payment that is only held is reported as paid.
AfterUpdateEarly(r, update) ==
  CASE update \in {"held", "confirmed"} ->
         [Resolved(r, "paid") EXCEPT !.listening = FALSE, !.updates = <<>>]
    [] update = "cancelled" -> [Resolved(r, "unpaid") EXCEPT !.listening = FALSE, !.updates = <<>>]
    [] OTHER                -> [r EXCEPT !.updates = Tail(@)]

\* The wait after an update: a confirmation or a cancellation ends it.
AfterUpdate(r, update) ==
  CASE update = "confirmed" -> [Resolved(r, "paid") EXCEPT !.listening = FALSE, !.updates = <<>>]
    [] update = "cancelled" -> [Resolved(r, "unpaid") EXCEPT !.listening = FALSE, !.updates = <<>>]
    [] OTHER                -> [r EXCEPT !.updates = Tail(@)]

InvoiceUpdated(w) ==
  LET update == Head(wait[w].updates) IN
  /\ wait[w].updates # <<>>
  /\ wait' = [wait EXCEPT ![w] = AfterUpdate(@, update)]
  /\ CASE update = "held"      -> UpdateStatus(wait[w].h, "paid")
       [] update = "cancelled" -> UpdateStatus(wait[w].h, "cancelled")
       [] OTHER                -> UNCHANGED store
  /\ UNCHANGED <<node, preimages, offered, hodlCall, crashes>>

\* The timer answers; the subscription stays.
RouteTimeout(w) ==
  /\ wait[w].timer
  /\ wait' = [wait EXCEPT ![w] = Resolved(@, "unpaid")]
  /\ UNCHANGED <<node, store, preimages, offered, hodlCall, crashes>>

SubscriptionFails(w) ==
  /\ wait[w].listening
  /\ wait' = [wait EXCEPT ![w] =
                [Resolved(@, "unpaid") EXCEPT !.listening = FALSE, !.updates = <<>>]]
  /\ UNCHANGED <<node, store, preimages, offered, hodlCall, crashes>>

\* The maps of the store are all there is: a restart finds them empty.
Crash ==
  /\ crashes < MaxCrashes
  /\ crashes' = crashes + 1
  /\ store' = [h \in Invoices |-> "none"]
  /\ preimages' = {}
  /\ hodlCall' = [c \in HodlCalls |-> HodlIdle]
  /\ wait' = [w \in Waiters |-> NoWait]
  /\ UNCHANGED <<node, offered>>

-----------------------------------------------------------------------------
HodlNext ==
  \/ \E h \in Invoices : PayerPays(h) \/ NodeExpires(h)
  \/ \E c \in HodlCalls : \/ NodeServes(c)
                          \/ CreateReturns(c)
                          \/ SettleReturns(c)
                          \/ CancelReturns(c)
                          \/ CallFails(c)
  \/ \E c \in HodlCalls, h \in Invoices : CreateHodl(c, h) \/ SettleHodl(c, h) \/ CancelHodl(c, h)
  \/ \E w \in Waiters, h \in Invoices : RoutePayment(w, h)
  \/ \E w \in Waiters : InvoiceUpdated(w) \/ RouteTimeout(w) \/ SubscriptionFails(w)
  \/ Crash

\* setTimeout fires, whatever else happens.
HodlFairness == \A w \in Waiters : WF_hodlVars(RouteTimeout(w))

HodlSpec == HodlInit /\ [][HodlNext]_hodlVars /\ HodlFairness

-----------------------------------------------------------------------------
\* A preimage is kept exactly as long as the entry of its invoice.
HodlTypeOK ==
  /\ node \in [Invoices -> NodeStates]
  /\ store \in [Invoices -> HodlStatus \cup {"none"}]
  /\ preimages = {h \in Invoices : store[h] # "none"}
  /\ offered \in SUBSET Invoices
  /\ hodlCall \in [HodlCalls -> [pc : {"idle", "sent", "served"}, op : Operations,
                                 h : Invoices \cup {None}]]
  /\ wait \in [Waiters -> [h : Invoices \cup {None}, timer : BOOLEAN, listening : BOOLEAN,
                           answer : {"none", "paid", "unpaid"}, updates : Seq(NodeStates)]]
  /\ crashes \in 0..MaxCrashes

\* What the store says of an invoice has happened at the node: settled and
\* cancelled are final there as well, and what is paid was held.  Late updates,
\* lost answers and a cancellation beside a settlement do not break this.
StatusHappened ==
  \A h \in Invoices :
    /\ store[h] = "settled" => node[h] = "confirmed"
    /\ store[h] = "cancelled" => node[h] = "cancelled"
    /\ store[h] = "paid" => node[h] \in {"held", "confirmed", "cancelled"}

\* routePayment answers "paid" only for a payment the node has confirmed.
PaidIsConfirmed == \A w \in Waiters : wait[w].answer = "paid" => node[wait[w].h] = "confirmed"

\* A preimage is dropped only when the node has given the payment back: what a
\* running process has on hold, it can settle.
PreimageKept ==
  [][\A h \in Invoices : h \in preimages /\ h \notin preimages'
       => node[h] = "cancelled" \/ crashes' # crashes]_hodlVars

\* A routePayment call is answered, or the process restarts.
RouteAnswered ==
  \A w \in Waiters : wait[w].listening ~> wait[w].answer # "none" \/ ~wait[w].listening
=============================================================================
