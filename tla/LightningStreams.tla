--------------------------- MODULE LightningStreams ---------------------------
(***************************************************************************)
(* The Lightning facade (payments/lightning-v2.ts): payments streamed tick *)
(* by tick from an asynchronous generator, whose consumer may stop asking  *)
(* at any tick, and the hash-locked contracts.  The client is Strike's,    *)
(* whose payInvoice answers, LND's (payments/lnd.ts), whose payInvoice may *)
(* throw, or none.                                                         *)
(***************************************************************************)
EXTENDS Naturals

CONSTANTS
  Streams,     \* calls of streamPayment, each with an id of its own
  NumTicks,    \* floor of durationMs / intervalMs
  Contracts,   \* calls of createHTLC, each with a secret of its own
  MaxStreamMs  \* bound on the milliseconds in which contracts are created

ASSUME StreamAssumption == NumTicks \in Nat /\ MaxStreamMs \in Nat

VARIABLES
  client,         \* strike, lnd or none
  stream,         \* where each generator is, and the payments it has begun
  activeStreams,  \* for each id true, false or no entry
  stoppedStreams, \* streams stopStream was called for (history)
  clock,          \* Date.now()
  creating,       \* contracts whose createHTLC awaits the invoice, with the ms of their id
  htlcStore       \* for each ms, of which the ids are made, the contract and its status

contractVars == <<clock, creating, htlcStore>>
streamVars == <<client, stream, activeStreams, stoppedStreams, contractVars>>

NoContract == [of |-> {}, status |-> "none"]

StreamInit ==
  /\ client \in {"strike", "lnd", "none"}
  /\ stream = [s \in Streams |-> [at |-> "none", begun |-> 0]]
  /\ activeStreams = [s \in Streams |-> "no entry"] /\ stoppedStreams = {}
  /\ clock = 0 /\ creating = {} /\ htlcStore = [t \in 0 .. MaxStreamMs |-> NoContract]

\* The head of the loop: the next payment begins, or the generator is done and its entry goes.
Loop(s, active) ==
  IF stream[s].begun < NumTicks /\ active
  THEN /\ stream' = [stream EXCEPT ![s] = [at |-> "paying", begun |-> @.begun + 1]]
       /\ activeStreams' = [activeStreams EXCEPT ![s] = "true"]
  ELSE /\ stream' = [stream EXCEPT ![s].at = "done"]
       /\ activeStreams' = [activeStreams EXCEPT ![s] = "no entry"]

\* The first call of next.
StreamPayment(s) ==
  /\ stream[s].at = "none" /\ Loop(s, TRUE)
  /\ UNCHANGED <<client, stoppedStreams, contractVars>>
\* payInvoice answers, with success or without, and the tick is yielded.
TickYielded(s) ==
  /\ stream[s].at = "paying" /\ stream' = [stream EXCEPT ![s].at = "yielded"]
  /\ UNCHANGED <<client, activeStreams, stoppedStreams, contractVars>>
\* payInvoice throws, or the consumer leaves its loop: nothing after the yield is run.
TickThrows(s) ==
  /\ \/ stream[s].at = "paying" /\ client = "lnd"
     \/ stream[s].at = "yielded"
  /\ stream' = [stream EXCEPT ![s].at = "left"]
  /\ UNCHANGED <<client, activeStreams, stoppedStreams, contractVars>>
NextTick(s) ==
  /\ stream[s].at = "yielded" /\ stream' = [stream EXCEPT ![s].at = "resting"]
  /\ UNCHANGED <<client, activeStreams, stoppedStreams, contractVars>>
IntervalEnds(s) ==
  /\ stream[s].at = "resting" /\ Loop(s, activeStreams[s] = "true")
  /\ UNCHANGED <<client, stoppedStreams, contractVars>>
\* An entry is made for a stream that is over, too, and stays.
StopStream(s) ==
  /\ stream[s].at # "none"
  /\ activeStreams' = [activeStreams EXCEPT ![s] = "false"] /\ stoppedStreams' = stoppedStreams \cup {s}
  /\ UNCHANGED <<client, stream, contractVars>>

StreamClock ==
  /\ clock < MaxStreamMs /\ clock' = clock + 1
  /\ UNCHANGED <<client, stream, activeStreams, stoppedStreams, creating, htlcStore>>
Stored(t, c) == htlcStore' = [htlcStore EXCEPT ![t] = [of |-> {c}, status |-> "pending"]]
\* The id is taken before the invoice is awaited; a contract of the same millisecond is replaced.
CreateHTLC(c) ==
  /\ \A t \in DOMAIN htlcStore : c \notin htlcStore[t].of
  /\ \A k \in creating : k.of # c
  /\ IF client = "lnd" THEN creating' = creating \cup {[of |-> c, ms |-> clock]} /\ UNCHANGED htlcStore
     ELSE Stored(clock, c) /\ UNCHANGED creating
  /\ UNCHANGED <<client, stream, activeStreams, stoppedStreams, clock>>
\* The invoice was made or not: a failure is only logged.
HTLCCreated(k) ==
  /\ k \in creating /\ creating' = creating \ {k} /\ Stored(k.ms, k.of)
  /\ UNCHANGED <<client, stream, activeStreams, stoppedStreams, clock>>
\* The status is looked at neither by settleHTLC, given the preimage of c, nor by cancelHTLC.
SettleHTLC(t, c) ==
  /\ htlcStore[t].of = {c} /\ htlcStore' = [htlcStore EXCEPT ![t].status = "settled"]
  /\ UNCHANGED <<client, stream, activeStreams, stoppedStreams, clock, creating>>
CancelHTLC(t) ==
  /\ htlcStore[t].of # {} /\ htlcStore' = [htlcStore EXCEPT ![t].status = "cancelled"]
  /\ UNCHANGED <<client, stream, activeStreams, stoppedStreams, clock, creating>>

StreamNext ==
  \/ StreamClock
  \/ \E s \in Streams : \/ StreamPayment(s) \/ TickYielded(s) \/ TickThrows(s)
                        \/ NextTick(s) \/ IntervalEnds(s) \/ StopStream(s)
  \/ \E c \in Contracts : CreateHTLC(c) \/ \E t \in DOMAIN htlcStore : SettleHTLC(t, c)
  \/ \E k \in creating : HTLCCreated(k)
  \/ \E t \in DOMAIN htlcStore : CancelHTLC(t)

StreamSpec == StreamInit /\ [][StreamNext]_streamVars

StreamTypeOK ==
  /\ \A s \in Streams : /\ stream[s].at \in {"none", "paying", "yielded", "resting", "done", "left"}
                        /\ stream[s].begun \in 0 .. NumTicks
                        /\ activeStreams[s] \in {"true", "false", "no entry"}
  /\ \A k \in creating : k.of \in Contracts /\ k.ms \in 0 .. clock
  /\ \A t \in DOMAIN htlcStore : htlcStore[t].of \subseteq Contracts

\* Wherever a stream is when it is stopped, at a payment, a tick or a rest, no further payment of
\* it begins; a stream that was not stopped and ran to its end has made all its payments.
NoTickAfterStop ==
  [][\A s \in Streams : /\ s \in stoppedStreams => stream'[s].begun = stream[s].begun
                        /\ stream'[s].at = "done" /\ s \notin stoppedStreams => stream'[s].begun = NumTicks]_streamVars
=============================================================================
