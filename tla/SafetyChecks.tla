----------------------------- MODULE SafetyChecks -----------------------------
(***************************************************************************)
(* The checks of the hardening services that keep no state: the median of  *)
(* the fee oracles (security/lightningHardening.ts), protocol versions,    *)
(* clocks, leaders, peers and messages (security/networkHardening.ts).     *)
(* A behaviour is one call of one of them on one input.                    *)
(***************************************************************************)
EXTENDS Integers, Sequences, FiniteSets, Functions

CONSTANTS
  OracleFees,   \* fees an oracle may answer with; 0 is no usable answer
  Versions,     \* parts of a version, NotANumber among them
  NotANumber,
  MinVersion,   \* protocolVersion
  Instants,     \* values of a timestamp
  MaxInstants,  \* bound on the timestamps of a call
  Leaders,      \* nodes that may have led
  LedCounts,    \* how often a node may have led in the history given
  EnoughHistory,\* 20 in detectLeaderBias
  PeerAsns,     \* autonomous systems of the connected peers
  Offered,      \* protocols a peer may propose, by what they contain
  MaxAttempts,  \* bound on the attempts of a backoff
  Pinned,       \* peers whose certificates may be pinned
  Certs,        \* certificates
  FiveMinutes,  \* the window of a STUN nonce, in instants
  HopCounts,    \* lengths of a route
  Timings, Sums,\* delays and amounts of the payments of a history
  Histories     \* lengths of such a history

ASSUME ChecksAssumption ==
  /\ OracleFees \subseteq Nat /\ LedCounts \subseteq Nat /\ IsFiniteSet(Leaders)
  /\ Versions \ {NotANumber} \subseteq Nat /\ MinVersion \in [1 .. 3 -> Nat]
  /\ Instants \subseteq Int /\ MaxInstants \in Nat /\ MaxAttempts \in Nat
  /\ Timings \subseteq Nat /\ Histories \subseteq Nat

VARIABLES
  check,        \* the check that was called, "none" before
  input, answer

checkVars == <<check, input, answer>>

ChecksInit == check = "none" /\ input = <<>> /\ answer = <<>>
Called(c, i, a) == check = "none" /\ check' = c /\ input' = i /\ answer' = a

\* The variance of the values of f, times the square of their number.
Squares(f) == [i \in DOMAIN f |-> f[i] * f[i]]
Spread(f) == Cardinality(DOMAIN f) * SumFunction(Squares(f)) - SumFunction(f) * SumFunction(f)

\* getSecureFeeEstimate: the floored median of the two or three usable answers.
Usable(fees) == {o \in DOMAIN fees : fees[o] > 0}
\* A fault: the answers are taken in the order they came in.
MiddleAsAnswered(fees) == fees[2]
Middle(fees) == CHOOSE f \in Range(fees) : /\ Cardinality({o \in DOMAIN fees : fees[o] <= f}) >= 2
                                           /\ Cardinality({o \in DOMAIN fees : fees[o] >= f}) >= 2
GetSecureFeeEstimate(fees) ==
  CASE Cardinality(Usable(fees)) = 3 -> <<Middle(fees)>>
    [] Cardinality(Usable(fees)) = 2 -> <<SumFunctionOnSet(fees, Usable(fees)) \div 2>>
    [] OTHER -> <<>>
DetectFeeManipulation(proposed, median) == proposed > median * 5

\* enforceMinProtocolVersion: the first part that is more or less decides; one that is not a number is neither.
More(a, b) == a # NotANumber /\ a > b
Less(a, b) == a # NotANumber /\ a < b
EnforceMinProtocolVersion(v) ==
  \/ \A i \in 1 .. 3 : ~Less(v[i], MinVersion[i])
  \/ \E i \in 1 .. 3 : More(v[i], MinVersion[i]) /\ \A k \in 1 .. i - 1 : ~Less(v[k], MinVersion[k])

\* detectClockManipulation.  Outliers of more than three standard deviations take eleven intervals.
Abs(n) == IF n < 0 THEN -n ELSE n
DetectClockManipulation(ts) ==
  LET n == Len(ts) - 1
      intervals == [i \in 1 .. n |-> ts[i + 1] - ts[i]]
      sum == SumFunction(intervals)
      outliers == {i \in 1 .. n : (n * intervals[i] - sum) * (n * intervals[i] - sum) > 9 * Spread(intervals)}
  IN  CASE n < 2 -> "none"
        [] n >= 2 /\ \E i \in 1 .. n : intervals[i] < 0 -> "time_regression"
        [] OTHER -> IF Cardinality(Range(intervals)) = 1 /\ n > 5 THEN "artificial_precision"
                    ELSE IF 10 * Cardinality(outliers) > n THEN "temporal_anomaly" ELSE "none"
ValidateTimestamp(message, local, tolerance) == Abs(message - local) <= tolerance

\* detectLeaderBias: chi squared over the nodes that have led at all, against the value for nine
\* degrees of freedom, in tenths: the spread of the counts over their sum.
DetectLeaderBias(counts) ==
  LET led == [l \in {x \in Leaders : counts[x] > 0} |-> counts[l]]
  IN  SumFunction(led) >= EnoughHistory /\ 10 * Spread(led) > 169 * SumFunction(led)

\* detectEclipse: the autonomous systems of the peers, "unknown" among them.
DetectEclipse(asns) == Cardinality(Range(asns)) = 1

\* negotiateSecureHandshake.
NegotiateSecureHandshake(proposed) ==
  {"noise-xx", "yamux"} \subseteq proposed /\ proposed \cap {"plaintext", "secio", "tls1.0", "tls1.1"} = {}

\* exponentialBackoff in seconds, without the jitter of a tenth.
ExponentialBackoff(attempt, base, max) == IF base * 2^attempt > max THEN max ELSE base * 2^attempt

\* verifyStake, enforceMessageSizeLimit, requireRelayDeposit: an amount against a limit, and what is missing or too much.
VerifyStake(stake, min) == [valid |-> stake >= min, deficit |-> IF stake >= min THEN 0 ELSE min - stake]
EnforceMessageSizeLimit(size, max) == [accepted |-> size <= max, excess |-> IF size <= max THEN 0 ELSE size - max]
\* No deposit is ever written, and a reputation of zero, as one that is not known, counts as one.
RequireRelayDeposit(required) == required <= 0
ReputationGateDHT(reputation, min) == (IF reputation = 0 THEN 10 ELSE reputation) >= min

\* pinBootstrapCerts and enforceMTLS: a peer without a pin passes with any certificate.
PinBootstrapCerts(pins, peers, certs) ==
  [p \in DOMAIN pins \cup (peers \cap DOMAIN certs) |->
     IF p \in peers \cap DOMAIN certs THEN certs[p] ELSE pins[p]]
EnforceMTLS(pins, p, cert) == p \in DOMAIN pins => pins[p] = cert

\* signDHTEntry signs for the node it is given, verifyDHTEntry tests for the node the entry names.
\* A key of type Ed25519, which the comments ask for, takes no digest: signing throws.
NoSignature == <<>>
SignDHTEntry(keyType, node, entry) ==
  IF keyType = "ed25519" THEN NoSignature ELSE <<entry.key, entry.value, node>>
VerifyDHTEntry(entry, signature) == signature = <<entry.key, entry.value, entry.node>>

\* validateSTUN, and verifyTURNServer with the time of the clock in halves of a second.
ValidateSTUN(nonceFits, sent, now) == nonceFits /\ Abs(now - sent) <= FiveMinutes
VerifyTURNServer(scheme, expiry, now) == scheme \in {"turn", "turns"} /\ expiry # NotANumber /\ 2 * expiry >= now

\* batchVerify: the indices of the valid messages and of the others.
BatchVerify(results) ==
  [valid |-> {i \in DOMAIN results : results[i] = "verified"}, invalid |-> {i \in DOMAIN results : results[i] # "verified"}]

\* validateBOLT4Compliance (security/lightningHardening.ts).
ValidateBOLT4Compliance(onion, hops, version) == onion /\ hops \in 1 .. 20 /\ version = 0

\* detectRoutingCorrelation: the standard deviation of the delays below a tenth of their mean, and the
\* amounts below three for ten payments.  Without any delay the quotient is not a number, and below nothing.
DetectRoutingCorrelation(payments) ==
  LET n == Len(payments)
      delays == [i \in 1 .. n |-> payments[i][1]]
  IN  /\ n >= 5 /\ SumFunction(delays) > 0
      /\ 100 * Spread(delays) < SumFunction(delays) * SumFunction(delays)
      /\ 10 * Cardinality({payments[i][2] : i \in 1 .. n}) < 3 * n

ChecksNext ==
  \/ \E first, second \in [Pinned -> Certs], one, two \in SUBSET Pinned, p \in Pinned, cert \in Certs :
       LET pins == PinBootstrapCerts(PinBootstrapCerts(<<>>, one, first), two, second)
       IN  Called("pins", <<first, one, second, two, p, cert>>, EnforceMTLS(pins, p, cert))
  \/ \E keyType \in {"rsa", "ed25519"}, node, named \in Pinned, signed, sent \in Instants :
       LET entry(v) == [key |-> "k", value |-> v, node |-> named]
           signature == SignDHTEntry(keyType, node, entry(signed))
       IN  Called("dht", <<keyType, node, named, signed, sent>>,
                  signature # NoSignature /\ VerifyDHTEntry(entry(sent), signature))
  \/ \E fits \in BOOLEAN, sent, now \in Instants : Called("stun", <<fits, sent, now>>, ValidateSTUN(fits, sent, now))
  \/ \E scheme \in {"turn", "turns", "http", "none"}, e \in Instants \cup {NotANumber}, now \in Instants :
       Called("turn", <<scheme, e, now>>, VerifyTURNServer(scheme, e, now))
  \/ \E n \in 0 .. 3 : \E r \in [1 .. n -> {"verified", "refused", "throws"}] : Called("batch", r, BatchVerify(r))
  \/ \E onion \in BOOLEAN, hops \in HopCounts, v \in {0, 1} :
       Called("bolt4", <<onion, hops, v>>, ValidateBOLT4Compliance(onion, hops, v))
  \/ \E n \in Histories : \E ps \in [1 .. n -> Timings \X Sums] :
       Called("correlation", ps, DetectRoutingCorrelation(ps))
  \/ \E fees \in [1 .. 3 -> OracleFees], proposed \in OracleFees :
       Called("fee", <<fees, proposed>>, GetSecureFeeEstimate(fees))
  \/ \E v \in [1 .. 3 -> Versions] : Called("version", v, EnforceMinProtocolVersion(v))
  \/ \E n \in 1 .. MaxInstants : \E ts \in [1 .. n -> Instants] : Called("clock", ts, DetectClockManipulation(ts))
  \/ \E m, l \in Instants, t \in Instants : Called("timestamp", <<m, l, t>>, ValidateTimestamp(m, l, t))
  \/ \E counts \in [Leaders -> LedCounts] : Called("bias", counts, DetectLeaderBias(counts))
  \/ \E n \in 0 .. 3 : \E asns \in [1 .. n -> PeerAsns] : Called("eclipse", asns, DetectEclipse(asns))
  \/ \E p \in SUBSET Offered : Called("handshake", p, NegotiateSecureHandshake(p))
  \/ \E a \in 0 .. MaxAttempts : Called("backoff", a, ExponentialBackoff(a, 1, 30))
  \/ \E s, m \in Instants : Called("stake", <<s, m>>, VerifyStake(s, m))
  \/ \E s, m \in Instants : Called("size", <<s, m>>, EnforceMessageSizeLimit(s, m))
  \/ \E r \in Instants : Called("deposit", r, RequireRelayDeposit(r))
  \/ \E r, m \in 0 .. 10 : Called("gate", <<r, m>>, ReputationGateDHT(r, m))

ChecksSpec == ChecksInit /\ [][ChecksNext]_checkVars

-----------------------------------------------------------------------------
\* The reference for versions: equal, or more at the first part that differs.
NotBelow(v, min) ==
  v = min \/ \E i \in 1 .. 3 : v[i] > min[i] /\ \A k \in 1 .. i - 1 : v[k] = min[k]

\* With three answers no single oracle moves the fee out of what the two others span, and with two
\* the fee lies between them; a fee is only called manipulated when it is five times an answer.
FeeWithinAnswers ==
  check = "fee" /\ answer # <<>> =>
    LET us == Usable(input[1])
    IN  /\ Cardinality(us) >= 2
        /\ \A o \in us : Cardinality(us) = 3 =>
             \E p, q \in us \ {o} : input[1][p] <= answer[1] /\ answer[1] <= input[1][q]
        /\ \E p, q \in us : input[1][p] <= answer[1] /\ answer[1] <= input[1][q]
        /\ DetectFeeManipulation(input[2], answer[1]) => \E p \in us : input[2] > 5 * input[1][p]

\* A version of numbers is accepted when it is not below the minimum.
VersionNotBelow ==
  check = "version" /\ NotANumber \notin Range(input) => (answer <=> NotBelow(input, MinVersion))

\* A clock that goes back is reported, and one that never does is not reported as anomalous on
\* fewer than twelve timestamps.
ClockReported ==
  check = "clock" /\ Len(input) \in 3 .. 11 =>
    /\ answer = "time_regression" <=> \E i, j \in DOMAIN input : i < j /\ input[j] < input[i]
    /\ answer # "temporal_anomaly"

\* A history of payments is reported for an amount that comes four times, with a delay.
RepeatsReported ==
  check = "correlation" /\ answer =>
    \E i, j, k, l \in DOMAIN input : /\ Cardinality({i, j, k, l}) = 4 /\ input[i][1] > 0
                                    /\ \A q \in {j, k, l} : input[i][2] = input[q][2]

\* What the checks promise of every input: an answer worth its name from oracles, versions, clocks
\* and histories of payments that are partly missing, malformed or out of order.
ChecksKeepTheirWord == FeeWithinAnswers /\ VersionNotBelow /\ ClockReported /\ RepeatsReported

ChecksTypeOK == check \in {"none", "fee", "version", "clock", "timestamp", "bias", "eclipse", "handshake",
                           "backoff", "stake", "size", "deposit", "gate", "pins", "dht", "stun", "turn",
                           "batch", "bolt4", "correlation"}
=============================================================================
