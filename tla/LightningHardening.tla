-------------------------- MODULE LightningHardening --------------------------
(***************************************************************************)
(* The Lightning hardening class (security/lightningHardening.ts): the     *)
(* single-use invoices and their pruning, the multisig treasury, the hot   *)
(* wallet's sweeps and the penalty transactions handed to the watchtowers. *)
(* A call that awaits is a beginning, which tests, and a later step, which *)
(* acts on what was tested.                                                *)
(***************************************************************************)
EXTENDS Integers, FiniteSets, Sequences

CONSTANTS
  Hashes,      \* payment hashes
  TxIds,       \* ids of proposed spends
  Signers,     \* signers of the treasury
  Threshold,   \* 3 in executeIfThresholdMet
  Channels,
  Towers,      \* watchtower URLs
  Fees,        \* fee estimates, in the units of the wallet
  MaxCalls,    \* bound on concurrent calls on one spend, and on sweeps
  MaxPenalties \* bound on the penalty transactions of a channel

ASSUME LightningAssumption ==
  Threshold \in Nat /\ MaxCalls \in Nat /\ MaxPenalties \in Nat /\ Fees \subseteq Nat

VARIABLES
  invoices,    \* invoices: age class and paid flag of the stored invoices
  paidHashes,  \* paidHashes
  marked,      \* times markInvoicePaid answered TRUE, up to 2 (history)
  spends,      \* pendingTransactions, with the calls that are broadcasting them
  wallet,      \* hotWalletBalance
  sweeps,      \* amounts of the sweeps waiting for their fee estimate
  towers,      \* watchtowers
  penalty,     \* number of the channel's lastPenaltyTx, 0 when it has none; -1 no channel
  sending,     \* calls of preSignPenaltyTx: towers still to be sent to
  held         \* the penalty transactions a tower has received

lightningVars == <<invoices, paidHashes, marked, spends, wallet, sweeps, towers, penalty, sending, held>>
invoiceVars == <<invoices, paidHashes, marked>>
towerVars == <<towers, penalty, sending, held>>

\* Within the hour, past it, and past the day after which it is pruned.
Ages == {"valid", "expired", "old"}
NoSpend == [stage |-> "none", signatures |-> {}, calls |-> 0, sent |-> 0]

LightningInit ==
  /\ invoices = <<>> /\ paidHashes = {} /\ marked = [h \in Hashes |-> 0]
  /\ spends = [t \in TxIds |-> NoSpend]
  /\ wallet = 0 /\ sweeps = <<>>
  /\ towers = {} /\ penalty = [c \in Channels |-> -1]
  /\ sending = {} /\ held = [w \in Towers |-> {}]

-----------------------------------------------------------------------------
\* The nonce makes the hash one that was never used.
GenerateUniqueInvoice(h) ==
  /\ h \notin DOMAIN invoices /\ marked[h] = 0 /\ h \notin paidHashes
  /\ invoices' = [g \in DOMAIN invoices \cup {h} |->
                    IF g = h THEN [age |-> "valid", paid |-> FALSE] ELSE invoices[g]]
  /\ UNCHANGED <<paidHashes, marked>>

TimePasses(h) ==
  /\ h \in DOMAIN invoices /\ invoices[h].age # "old"
  /\ invoices' = [invoices EXCEPT ![h].age = IF @ = "valid" THEN "expired" ELSE "old"]
  /\ UNCHANGED <<paidHashes, marked>>

MarkInvoicePaid(h) ==
  /\ h \in DOMAIN invoices /\ ~invoices[h].paid /\ invoices[h].age = "valid"
  /\ invoices' = [invoices EXCEPT ![h].paid = TRUE]
  /\ paidHashes' = paidHashes \cup {h}
  /\ marked' = [marked EXCEPT ![h] = IF @ = 2 THEN 2 ELSE @ + 1]

\* Paid invoices are pruned too; paidHashes keeps them.
PruneExpiredInvoices ==
  LET old == {h \in DOMAIN invoices : invoices[h].age = "old"}
  IN /\ old # {}
     /\ invoices' = [h \in DOMAIN invoices \ old |-> invoices[h]]
     /\ UNCHANGED <<paidHashes, marked>>

IsInvoiceReplayable(h) == h \notin paidHashes

-----------------------------------------------------------------------------
ProposeSpend(t) ==
  /\ spends[t].stage = "none"
  /\ spends' = [spends EXCEPT ![t].stage = "pending"]

\* Any identifier with a well-formed signature is a signer; a later signature replaces his.
AddSignature(t, s) ==
  /\ spends[t].stage = "pending"
  /\ spends' = [spends EXCEPT ![t].signatures = @ \cup {s}]

\* Up to the await of the broadcast: the spend stays pending.
ExecuteIfThresholdMet(t) ==
  /\ spends[t].stage = "pending"
  /\ Cardinality(spends[t].signatures) >= Threshold
  /\ spends[t].calls + spends[t].sent < MaxCalls
  /\ spends' = [spends EXCEPT ![t].calls = @ + 1]

\* A fault: the executed spend is not deleted.
BroadcastKeeps(t) ==
  /\ spends[t].calls > 0
  /\ spends' = [spends EXCEPT ![t].calls = @ - 1, ![t].sent = @ + 1]

BroadcastDone(t) ==
  /\ spends[t].calls > 0
  /\ spends' = [spends EXCEPT ![t].calls = @ - 1, ![t].sent = @ + 1, ![t].stage = "deleted"]

-----------------------------------------------------------------------------
\* The balance is tested, the fee estimate awaited, and amount and fee are taken off.
SweepBegins(amount) ==
  /\ amount <= wallet
  /\ Len(sweeps) < MaxCalls
  /\ sweeps' = Append(sweeps, amount) /\ UNCHANGED wallet
SweepDebits(i, fee) ==
  /\ i \in DOMAIN sweeps
  /\ wallet' = wallet - (sweeps[i] + fee)
  /\ sweeps' = [j \in 1..Len(sweeps) - 1 |-> IF j < i THEN sweeps[j] ELSE sweeps[j + 1]]
\* Fewer than two oracles answer: nothing is debited.
SweepFails(i) ==
  /\ i \in DOMAIN sweeps
  /\ sweeps' = [j \in 1..Len(sweeps) - 1 |-> IF j < i THEN sweeps[j] ELSE sweeps[j + 1]]
  /\ UNCHANGED wallet

-----------------------------------------------------------------------------
RegisterWatchtower(w) ==
  /\ towers' = towers \cup {w} /\ UNCHANGED <<penalty, sending, held>>

\* monitorChannelLiquidity adds a channel it does not know.
MonitorChannelLiquidity(c) ==
  /\ penalty' = [penalty EXCEPT ![c] = IF @ = -1 THEN 0 ELSE @]
  /\ UNCHANGED <<towers, sending, held>>

\* preSignPenaltyTx replaces the channel's penalty before it sends it out.
PreSignPenaltyTx(c) ==
  /\ penalty[c] \in 0..MaxPenalties - 1
  /\ penalty' = [penalty EXCEPT ![c] = @ + 1]
  /\ sending' = sending \cup {[channel |-> c, tx |-> penalty[c] + 1, done |-> {}]}
  /\ UNCHANGED <<towers, held>>

\* One tower of the loop; a tower registered meanwhile is still reached, and a tower that
\* cannot be reached is passed over.
SendToWatchtower(call, w, reached) ==
  /\ call \in sending /\ w \in towers \ call.done
  /\ held' = IF reached THEN [held EXCEPT ![w] = @ \cup {<<call.channel, call.tx>>}] ELSE held
  /\ sending' = (sending \ {call}) \cup {[call EXCEPT !.done = @ \cup {w}]}
  /\ UNCHANGED <<towers, penalty>>
PreSignReturns(call) ==
  /\ call \in sending /\ towers \subseteq call.done
  /\ sending' = sending \ {call} /\ UNCHANGED <<towers, penalty, held>>

-----------------------------------------------------------------------------
LightningNext ==
  \/ /\ \/ \E h \in Hashes : GenerateUniqueInvoice(h) \/ TimePasses(h) \/ MarkInvoicePaid(h)
        \/ PruneExpiredInvoices
     /\ UNCHANGED <<spends, wallet, sweeps, towerVars>>
  \/ /\ \E t \in TxIds :
          \/ ProposeSpend(t) \/ ExecuteIfThresholdMet(t) \/ BroadcastDone(t)
          \/ \E s \in Signers : AddSignature(t, s)
     /\ UNCHANGED <<invoiceVars, wallet, sweeps, towerVars>>
  \/ /\ \/ \E amount \in 0..1 : SweepBegins(amount)
        \/ \E i \in 1..MaxCalls : SweepFails(i) \/ \E fee \in Fees : SweepDebits(i, fee)
     /\ UNCHANGED <<invoiceVars, spends, towerVars>>
  \/ /\ \/ \E w \in Towers : RegisterWatchtower(w)
        \/ \E c \in Channels : MonitorChannelLiquidity(c) \/ PreSignPenaltyTx(c)
        \/ \E call \in sending : PreSignReturns(call) \/
             \E w \in Towers, reached \in BOOLEAN : SendToWatchtower(call, w, reached)
     /\ UNCHANGED <<invoiceVars, spends, wallet, sweeps>>

LightningSpec == LightningInit /\ [][LightningNext]_lightningVars

LightningTypeOK ==
  /\ DOMAIN invoices \subseteq Hashes
  /\ \A h \in DOMAIN invoices : invoices[h] \in [age : Ages, paid : BOOLEAN]
  /\ paidHashes \subseteq Hashes /\ marked \in [Hashes -> 0..2]
  /\ spends \in [TxIds -> [stage : {"none", "pending", "deleted"}, signatures : SUBSET Signers,
                           calls : 0..MaxCalls, sent : 0..MaxCalls]]
  /\ wallet \in Int /\ sweeps \in Seq(Int)
  /\ towers \subseteq Towers
  /\ penalty \in [Channels -> -1..MaxPenalties]
  /\ sending \subseteq [channel : Channels, tx : 1..MaxPenalties, done : SUBSET Towers]
  /\ held \in [Towers -> SUBSET (Channels \X (1..MaxPenalties))]

\* An invoice is accepted as paid at most once, and once accepted it is never again called
\* replayable, whether or not the hourly pruning has removed it meanwhile.
SingleUse ==
  \A h \in Hashes : /\ marked[h] <= 1
                    /\ marked[h] = 1 <=> ~IsInvoiceReplayable(h)

\* No broadcast of a treasury spend begins after one of it has ended: two calls may broadcast
\* the same spend, but only while both are in progress (the deletion follows the await).
NoBroadcastAfterOne ==
  [][\A t \in TxIds : spends'[t].calls > spends[t].calls => spends[t].sent = 0]_lightningVars
=============================================================================
