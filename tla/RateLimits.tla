------------------------------ MODULE RateLimits ------------------------------
(***************************************************************************)
(* The rate limiters of the network (security/networkHardening.ts) and the *)
(* flood detector of the channels (security/lightningHardening.ts).  Three *)
(* keep the times of the calls of a sliding window, the relay limiter      *)
(* counts in a fixed window which it restarts.  They share nothing, so a   *)
(* behaviour is one of one limiter, for one address, peer or channel.      *)
(***************************************************************************)
EXTENDS Integers, Sequences, FiniteSets, Filters

CONSTANTS
  WindowTicks,  \* length of every window in ticks of the clock
  MaxCount,     \* for each limiter, the calls it admits in a window
  MaxTick,      \* bound on the clock
  MaxRefused    \* bound on the requests a relay window counts

VARIABLES
  limiter,      \* the limiter this behaviour is about
  tick,         \* Date.now()
  times,        \* identityRateLimiter, viewChangeHistory, htlcWindows
  relay,        \* relayStats of the peer
  admitted      \* times of the admitted, or unflagged, calls (history)

rateVars == <<limiter, tick, times, relay, admitted>>

Sliding == {"identities", "viewChanges", "htlcs"}
Limiters == Sliding \cup {"relay"}

ASSUME RateAssumption ==
  WindowTicks \in Nat /\ MaxCount \in [Limiters -> Nat] /\ MaxTick \in Nat /\ MaxRefused \in Nat

NoStats == [known |-> FALSE, requestCount |-> 0, lastReset |-> 0]

RateInit ==
  /\ limiter \in Limiters
  /\ tick = 0 /\ times = <<>> /\ relay = NoStats /\ admitted = <<>>

Tick ==
  /\ tick < MaxTick /\ tick' = tick + 1
  /\ UNCHANGED <<limiter, times, relay, admitted>>

\* ts > now - windowMs, the filter of the two limiters, is now - ts < windowMs, the detector's.
InWindow == tick - WindowTicks + 1 .. tick

\* A fault: the limit is tested against the calls already in the window with >.
AdmitOneMore ==
  /\ limiter \in {"identities", "viewChanges"}
  /\ LET recent == Kept(times, InWindow)
     IN IF Len(recent) > MaxCount[limiter]
        THEN times' \in {times, recent} /\ UNCHANGED admitted
        ELSE times' = Append(recent, tick) /\ admitted' = Append(admitted, tick)
  /\ UNCHANGED <<limiter, tick, relay>>

\* rateLimitNewIdentities and rateLimitViewChanges.  A refused call is not recorded; the view
\* changes keep the filtered list then, the identities the unfiltered one.
RateLimit ==
  /\ limiter \in {"identities", "viewChanges"}
  /\ LET recent == Kept(times, InWindow)
     IN IF Len(recent) >= MaxCount[limiter]
        THEN /\ times' = IF limiter = "viewChanges" THEN recent ELSE times
             /\ UNCHANGED admitted
        ELSE times' = Append(recent, tick) /\ admitted' = Append(admitted, tick)
  /\ UNCHANGED <<limiter, tick, relay>>

\* Every HTLC is recorded, the flagged ones too.
DetectHTLCFlood ==
  /\ limiter = "htlcs"
  /\ times' = Kept(Append(times, tick), InWindow)
  /\ Len(times') <= MaxCount["htlcs"] + MaxRefused
  /\ admitted' = IF Len(times') > MaxCount["htlcs"] THEN admitted ELSE Append(admitted, tick)
  /\ UNCHANGED <<limiter, tick, relay>>

\* The window restarts with the first request after its end; refused requests count too.
RateLimitRelay ==
  /\ limiter = "relay"
  /\ LET stats == IF relay.known THEN relay ELSE [NoStats EXCEPT !.known = TRUE, !.lastReset = tick]
         fresh == IF tick - stats.lastReset > WindowTicks
                  THEN [stats EXCEPT !.requestCount = 0, !.lastReset = tick] ELSE stats
     IN /\ relay' = [fresh EXCEPT !.requestCount = @ + 1]
        /\ relay'.requestCount <= MaxCount["relay"] + MaxRefused
        /\ admitted' = IF relay'.requestCount <= MaxCount["relay"]
                       THEN Append(admitted, tick) ELSE admitted
  /\ UNCHANGED <<limiter, tick, times>>

RateNext == Tick \/ RateLimit \/ DetectHTLCFlood \/ RateLimitRelay

RateSpec == RateInit /\ [][RateNext]_rateVars

RateTypeOK ==
  /\ limiter \in Limiters /\ tick \in 0..MaxTick
  /\ times \in Seq(0..MaxTick) /\ admitted \in Seq(0..MaxTick)
  /\ relay \in [known : BOOLEAN, requestCount : 0..MaxCount["relay"] + MaxRefused,
                lastReset : 0..MaxTick]

AdmittedFrom(t, length) ==
  Cardinality({i \in DOMAIN admitted : admitted[i] \in t..t + length - 1})

\* No window of the configured length, wherever it begins, holds more admitted calls than the
\* limit.  The fixed window of the relay lasts a tick longer and restarts, and lets through
\* twice its limit across a restart, never more.
WindowsBounded ==
  \A t \in 0..MaxTick :
    IF limiter = "relay" THEN AdmittedFrom(t, WindowTicks + 1) <= 2 * MaxCount["relay"]
    ELSE AdmittedFrom(t, WindowTicks) <= MaxCount[limiter]
=============================================================================
