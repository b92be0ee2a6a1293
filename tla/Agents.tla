-------------------------------- MODULE Agents --------------------------------
(***************************************************************************)
(* The agents: the lifecycle they share (agents/base.ts), the loop of the  *)
(* security, routing and DAO agents, whose timer schedules the next cycle  *)
(* when one ends, and the treasury agent, which drains a queue of splits.  *)
(* start, stop, pause and resume may come at any await of a cycle.  What a *)
(* cycle fetches and calls is given by the user of the agent and may fail; *)
(* an 'error' event has a listener, without one recordError would throw.   *)
(***************************************************************************)
EXTENDS Naturals, Sequences, FiniteSets, Filters

CONSTANTS
  Items,         \* what a cycle works on: transactions, jobs, splits
  Proposals,     \* and proposals, among them
  JobWorkers,    \* workers a job may be matched with
  Slots,         \* cycles, drains and direct calls in progress at once
  DaoQuorum,     \* quorum of a proposal; its threshold is one half
  MaxBallots,    \* bound on the votes on a proposal
  MaxTimers,     \* bound on the timers pending
  MaxBeats       \* bound on the intervals of the heartbeat

VARIABLES
  agentKind,     \* the agent's class
  agentStatus,   \* _status
  beats,         \* intervals that beat
  beatHandle,    \* _heartbeatInterval is one of them
  timers,        \* timers pending
  timerHandle,   \* the last of them is scanTimer, routeTimer or pollTimer
  cycles,        \* what is in progress
  crossed,       \* started again without a stop, or before a cycle or drain had ended (history)
  interrupted,   \* paused or failed since it was started (history)
  threats,       \* threatLog: how many of an item are not resolved: none, one or more
  matched,       \* matchHistory, as pairs
  proposals,     \* proposals as the source and the callers of vote share them; executed is history
  splits,        \* for each split its status, and how often the DAO was credited (history)
  pendingQueue

lifeVars == <<agentKind, agentStatus, beats, beatHandle, timers, timerHandle, crossed, interrupted>>
dataVars == <<threats, matched, proposals, splits, pendingQueue>>
agentVars == <<lifeVars, cycles, dataVars>>

ASSUME AgentAssumption == IsFiniteSet(Slots) /\ MaxBeats \in Nat /\ MaxTimers \in Nat

Free == [op |-> "none"]
OneMore(n) == IF n = 2 THEN 2 ELSE n + 1   \* counts none, one and more

AgentInit ==
  /\ agentKind \in {"security", "routing", "dao", "treasury"}
  /\ agentStatus = "idle" /\ beats = 0 /\ beatHandle = FALSE
  /\ timers = 0 /\ timerHandle = FALSE /\ cycles = [s \in Slots |-> Free]
  /\ crossed = FALSE /\ interrupted = FALSE
  /\ threats = [i \in Items |-> 0] /\ matched = {}
  /\ proposals \in [Proposals -> [status : {"active"}, large : IF agentKind = "dao" THEN BOOLEAN ELSE {FALSE},
                                  yes : {0}, no : {0}, expired : {FALSE}, executed : {FALSE}]]
  /\ splits = [i \in Items |-> [status |-> "none", credited |-> 0]] /\ pendingQueue = <<>>

Looping == {s \in Slots : cycles[s].op \in {"cycle", "drain"} /\ cycles[s].loop}
Counted(b) == IF b THEN 1 ELSE 0

\* processSplit begins: the next split of a call, or the call is over.
Process(loop, rest) == IF rest = <<>> THEN Free
                       ELSE [op |-> "drain", loop |-> loop, now |-> Head(rest), rest |-> Tail(rest), step |-> "persist"]
Processing(ss, rest) == IF rest = <<>> THEN ss ELSE [ss EXCEPT ![Head(rest)].status = "processing"]

\* A fault: the queue is drained of all it holds.
DrainAll == pendingQueue
DrainQueue == Kept(pendingQueue, {i \in Items : splits[i].status = "pending"})

\* start: an interval and a timer of before are forgotten, not cleared.
Start ==
  /\ agentStatus # "working" /\ beats < MaxBeats /\ timers < MaxTimers
  /\ agentStatus' = "working" /\ interrupted' = FALSE
  /\ beats' = beats + 1 /\ beatHandle' = TRUE
  /\ crossed' = (crossed \/ agentStatus \in {"paused", "error"} \/ Looping # {})
  /\ IF agentKind = "treasury"
     THEN /\ \E s \in Slots : /\ cycles[s] = Free
                              /\ cycles' = [cycles EXCEPT ![s] = Process(TRUE, DrainQueue)]
          /\ splits' = Processing(splits, DrainQueue) /\ UNCHANGED <<timers, timerHandle>>
     ELSE timers' = timers + 1 /\ timerHandle' = TRUE /\ UNCHANGED <<cycles, splits>>
  /\ UNCHANGED <<agentKind, threats, matched, proposals, pendingQueue>>
\* stop and onStop.
Stop ==
  /\ agentStatus # "stopped" /\ agentStatus' = "stopped"
  /\ beats' = beats - Counted(beatHandle) /\ beatHandle' = FALSE
  /\ timers' = timers - Counted(timerHandle) /\ timerHandle' = FALSE
  /\ UNCHANGED <<agentKind, crossed, interrupted, cycles, dataVars>>
Pause ==
  /\ agentStatus = "working" /\ agentStatus' = "paused" /\ interrupted' = TRUE
  /\ UNCHANGED <<agentKind, beats, beatHandle, timers, timerHandle, crossed, cycles, dataVars>>
Resume ==
  /\ agentStatus = "paused" /\ agentStatus' = "working"
  /\ UNCHANGED <<agentKind, beats, beatHandle, timers, timerHandle, crossed, interrupted, cycles, dataVars>>

\* scan, routeCycle and poll do nothing unless the agent works.
CycleBegins(s, loop) ==
  cycles' = IF agentStatus = "working" THEN [cycles EXCEPT ![s] = [op |-> "cycle", loop |-> loop, step |-> "fetch"]]
            ELSE cycles
\* The oldest timer fires; a cycle that did nothing is not followed by another.
TimerFires(s) ==
  /\ timers > 0 /\ cycles[s] = Free
  /\ timers' = timers - 1 /\ timerHandle' = (timerHandle /\ timers > 1)
  /\ CycleBegins(s, TRUE)
  /\ UNCHANGED <<agentKind, agentStatus, beats, beatHandle, crossed, interrupted, dataVars>>
CalledDirectly(s) ==
  /\ agentKind # "treasury" /\ agentStatus = "working" /\ cycles[s] = Free
  /\ CycleBegins(s, FALSE) /\ UNCHANGED <<lifeVars, dataVars>>
\* What is to be done, and the workers available then.
Fetched(s, items, workers) ==
  /\ cycles[s].op = "cycle" /\ cycles[s].step = "fetch"
  /\ cycles' = [cycles EXCEPT ![s] = [op |-> "cycle", loop |-> @.loop, step |-> "work", left |-> items, free |-> workers]]
  /\ UNCHANGED <<lifeVars, dataVars>>
\* recordError, whatever the status was; the loop ends.
CycleFails(s) ==
  /\ cycles[s].op = "cycle" /\ cycles' = [cycles EXCEPT ![s] = Free]
  /\ agentStatus' = "error" /\ interrupted' = TRUE
  /\ UNCHANGED <<agentKind, beats, beatHandle, timers, timerHandle, crossed, dataVars>>
CycleEnds(s) ==
  LET again == cycles[s].loop /\ agentStatus = "working"
  IN  /\ cycles[s].op = "cycle" /\ cycles[s].step = "work" /\ cycles[s].left = {}
      /\ again => timers < MaxTimers
      /\ timers' = timers + Counted(again) /\ timerHandle' = (timerHandle \/ again)
      /\ cycles' = [cycles EXCEPT ![s] = Free]
      /\ UNCHANGED <<agentKind, agentStatus, beats, beatHandle, crossed, interrupted, dataVars>>

\* One of the things fetched is worked on, up to the await of the callback.
Work(s, i) ==
  /\ cycles[s].op = "cycle" /\ cycles[s].step = "work" /\ i \in cycles[s].left
  /\ UNCHANGED <<lifeVars, splits, pendingQueue>>
Worked(s, i) == cycles' = [cycles EXCEPT ![s].left = @ \ {i}]

\* A payment or a drop that is still there is logged by every scan.
LogThreat(s, i) ==
  /\ agentKind = "security" /\ Work(s, i) /\ Worked(s, i)
  /\ threats' = [threats EXCEPT ![i] = OneMore(@)] /\ UNCHANGED <<matched, proposals>>
ResolveThreat(i) ==
  /\ threats[i] > 0
  /\ \E n \in IF threats[i] = 1 THEN {0} ELSE {1, 2} : threats' = [threats EXCEPT ![i] = n]
  /\ UNCHANGED <<lifeVars, cycles, matched, proposals, splits, pendingQueue>>

\* A worker is taken for the jobs that follow in the cycle only; a job whose attempts are spent,
\* or that no worker can pay for, is left.
MatchJob(s, j) ==
  /\ agentKind = "routing" /\ Work(s, j)
  /\ \/ Worked(s, j) /\ UNCHANGED matched
     \/ \E w \in cycles[s].free :
          /\ cycles' = [cycles EXCEPT ![s].left = @ \ {j}, ![s].free = @ \ {w}]
          /\ matched' = matched \cup {<<j, w>>}
  /\ UNCHANGED <<threats, proposals>>
RouteManually(j, w) ==
  /\ agentKind = "routing" /\ matched' = matched \cup {<<j, w>>}
  /\ UNCHANGED <<lifeVars, cycles, threats, proposals, splits, pendingQueue>>

Total(p) == p.yes + p.no
Ratio(p) == Total(p) > 0 /\ 2 * p.yes >= Total(p)
\* evaluate: a proposal that has passed is executed, or put before a human, every time.
Evaluate(p) ==
  LET q == IF p.expired /\ p.status = "active"
           THEN [p EXCEPT !.status = IF Ratio(p) THEN "passed" ELSE "rejected"] ELSE p
  IN  CASE q.status # "passed" -> q
        [] q.status = "passed" /\ q.large -> q
        [] OTHER -> [q EXCEPT !.executed = TRUE]
EvaluateProposal(s, i) ==
  /\ agentKind = "dao" /\ Work(s, i) /\ Worked(s, i)
  /\ proposals' = [proposals EXCEPT ![i] = Evaluate(@)]
  /\ UNCHANGED <<threats, matched>>
\* vote: the status of the agent is not asked, nor the time.
ProposalVote(i, yes) ==
  LET voted == [proposals[i] EXCEPT !.yes = @ + Counted(yes), !.no = @ + Counted(~yes)]
  IN  /\ agentKind = "dao" /\ proposals[i].status = "active" /\ Total(proposals[i]) < MaxBallots
      /\ proposals' = [proposals EXCEPT ![i] =
           IF Ratio(voted) /\ Total(voted) >= DaoQuorum
           THEN Evaluate([voted EXCEPT !.status = "passed"]) ELSE voted]
      /\ UNCHANGED <<lifeVars, cycles, threats, matched, splits, pendingQueue>>
ProposalExpires(i) ==
  /\ agentKind = "dao" /\ proposals' = [proposals EXCEPT ![i].expired = TRUE]
  /\ UNCHANGED <<lifeVars, cycles, threats, matched, splits, pendingQueue>>

\* queueSplit: a working agent processes the split at once, whatever it is at.
QueueSplit(s, i) ==
  /\ agentKind = "treasury" /\ splits[i].status = "none" /\ cycles[s] = Free
  /\ pendingQueue' = Append(pendingQueue, i)
  /\ splits' = [splits EXCEPT ![i].status = IF agentStatus = "working" THEN "processing" ELSE "pending"]
  /\ cycles' = [cycles EXCEPT ![s] = IF agentStatus = "working" THEN Process(FALSE, <<i>>) ELSE Free]
  /\ UNCHANGED <<lifeVars, threats, matched, proposals>>

\* The awaits of processSplit.  A split that fails stays in the queue and is not tried again, the
\* drain goes on to the next.
SplitStep(s, step, ok) ==
  LET i == cycles[s].now
      at == [splits EXCEPT ![i].status = IF ok THEN @ ELSE "failed"]
      next == [persist |-> "credit", credit |-> "notify"]
      after == Processing(at, cycles[s].rest)
  IN  /\ cycles[s].op = "drain" /\ cycles[s].step = step
      /\ CASE ~ok ->
                /\ agentStatus' = "error" /\ interrupted' = TRUE /\ splits' = after
                /\ cycles' = [cycles EXCEPT ![s] = Process(@.loop, @.rest)] /\ UNCHANGED pendingQueue
           [] ok /\ step # "notify" ->
                /\ splits' = IF step = "credit" THEN [splits EXCEPT ![i].credited = @ + 1] ELSE splits
                /\ cycles' = [cycles EXCEPT ![s].step = next[step]]
                /\ UNCHANGED <<agentStatus, interrupted, pendingQueue>>
           [] ok /\ step = "notify" ->
                /\ splits' = [after EXCEPT ![i].status = "settled"]
                /\ pendingQueue' = Kept(pendingQueue, Items \ {i})
                /\ cycles' = [cycles EXCEPT ![s] = Process(@.loop, @.rest)]
                /\ UNCHANGED <<agentStatus, interrupted>>
      /\ UNCHANGED <<agentKind, beats, beatHandle, timers, timerHandle, crossed, threats, matched, proposals>>

AgentNext ==
  \/ Start \/ Stop \/ Pause \/ Resume
  \/ \E i \in Items : ResolveThreat(i) \/ \E w \in JobWorkers : RouteManually(i, w)
  \/ \E i \in Proposals : ProposalExpires(i) \/ \E yes \in BOOLEAN : ProposalVote(i, yes)
  \/ \E s \in Slots :
       \/ TimerFires(s) \/ CalledDirectly(s) \/ CycleFails(s) \/ CycleEnds(s)
       \/ \E items \in SUBSET IF agentKind = "dao" THEN Proposals ELSE Items,
             workers \in IF agentKind = "routing" THEN SUBSET JobWorkers ELSE {{}} : Fetched(s, items, workers)
       \/ \E i \in Items : LogThreat(s, i) \/ MatchJob(s, i) \/ QueueSplit(s, i)
       \/ \E i \in Proposals : EvaluateProposal(s, i)
       \/ \E step \in {"persist", "credit", "notify"}, ok \in BOOLEAN : SplitStep(s, step, ok)

AgentSpec == AgentInit /\ [][AgentNext]_agentVars

AgentTypeOK ==
  /\ agentStatus \in {"idle", "working", "paused", "error", "stopped"}
  /\ beats \in 0 .. MaxBeats /\ timers \in 0 .. MaxTimers
  /\ (beatHandle => beats > 0) /\ (timerHandle => timers > 0)
  /\ \A i \in Items : splits[i].status \in {"none", "pending", "processing", "settled", "failed"}
  /\ matched \subseteq Items \X JobWorkers

\* Work is done twice only when an agent was started again without a stop or before it had come to
\* rest: else it has one heartbeat and one loop, and credits a split once.  The loop is there as
\* long as nobody paused the agent and no cycle failed.
OneLoop ==
  /\ ~crossed => beats = Counted(beatHandle) /\ timers + Cardinality(Looping) <= 1
  /\ agentStatus = "working" /\ ~interrupted /\ agentKind # "treasury" => timers + Cardinality(Looping) >= 1
CreditedOnce ==
  \A i \in Items : /\ ~crossed => splits[i].credited <= 1
                   /\ splits[i].status = "settled" => splits[i].credited >= 1
\* A proposal is executed below its quorum only after its end, and a large payment never.
QuorumOrEnd ==
  \A i \in Proposals : proposals[i].executed =>
     ~proposals[i].large /\ (proposals[i].expired \/ Total(proposals[i]) >= DaoQuorum)

\* What a start, a stop or a failure at any await of an agent's work leaves true.
DoneOnce == OneLoop /\ CreditedOnce /\ QuorumOrEnd
=============================================================================
