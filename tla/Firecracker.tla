------------------------------ MODULE Firecracker ------------------------------
(***************************************************************************)
(* The Firecracker hardening (security/firecrackerHardening.ts): the VMs   *)
(* it tracks, the limit on their number with its evictions, and the timers *)
(* that kill processes.  VMs are tracked by id; timers and unfinished      *)
(* calls act on the id, or on the process they found when they began.      *)
(***************************************************************************)
EXTENDS Naturals, FiniteSetsExt

CONSTANTS
  Guests,     \* VM ids, which the caller chooses and may use again
  Pids,       \* process ids; each is used once
  NoPid,
  Limits,     \* values of enforceVMLimit's maxVMs, the initial one among them
  MaxAtOnce   \* bound on the evictions and unregistrations of one id in progress

ASSUME FirecrackerAssumption ==
  NoPid \notin Pids /\ NoPid \notin Guests /\ IsFiniteSet(Pids) /\ MaxAtOnce \in Nat

VARIABLES
  vmLimit,    \* maxVMs
  activeVMs,  \* activeVMs: the process tracked for each id
  guestOf,    \* the id each process was registered under, or NoPid (history)
  running,    \* processes that have not ended
  toEvict,    \* for each id, the evictions in progress that have still to signal it
  evicting,   \* timers of evictions, five seconds after the signal, by id and process
  deadlines,  \* processes with a timer of enforceResourceLimits
  closing,    \* for each id the calls of unregisterVM in progress
  dismissed   \* processes unregisterVM was called for (history)

firecrackerVars == <<vmLimit, activeVMs, guestOf, running, toEvict, evicting, deadlines,
                     closing, dismissed>>

Tracked(v) == activeVMs[v] # NoPid
TrackedVMs == {v \in Guests : Tracked(v)}
InProgress(v) == toEvict[v] + closing[v] + MapThenSumSet(LAMBDA p : evicting[v][p], Pids)

FirecrackerInit ==
  /\ vmLimit \in Limits
  /\ activeVMs = [v \in Guests |-> NoPid]
  /\ guestOf = [p \in Pids |-> NoPid] /\ running = {}
  /\ toEvict = [v \in Guests |-> 0] /\ evicting = [v \in Guests |-> [p \in Pids |-> 0]]
  /\ deadlines = {} /\ closing = [v \in Guests |-> 0] /\ dismissed = {}

\* The limit is asked also when the id is known and its entry only replaced.
RegisterVM(v, p) ==
  /\ Cardinality(TrackedVMs) < vmLimit /\ guestOf[p] = NoPid
  /\ activeVMs' = [activeVMs EXCEPT ![v] = p]
  /\ guestOf' = [guestOf EXCEPT ![p] = v] /\ running' = running \cup {p}
  /\ UNCHANGED <<vmLimit, toEvict, evicting, deadlines, closing, dismissed>>

GuestEnds(p) ==
  /\ p \in running /\ running' = running \ {p}
  /\ UNCHANGED <<vmLimit, activeVMs, guestOf, toEvict, evicting, deadlines, closing, dismissed>>

\* The ids an eviction is to go through.
ToEvict(idle) ==
  /\ idle \subseteq TrackedVMs /\ \A v \in idle : InProgress(v) < MaxAtOnce
  /\ toEvict' = [v \in Guests |-> IF v \in idle THEN toEvict[v] + 1 ELSE toEvict[v]]

\* evictIdleVMs chooses among the VMs by the time of their last activity, which
\* monitorResources renews: here any of them.
EvictIdleVMs(idle) ==
  /\ ToEvict(idle)
  /\ UNCHANGED <<vmLimit, activeVMs, guestOf, running, evicting, deadlines, closing, dismissed>>

\* The excess is evicted, or as much of it as was idle for a millisecond.
EnforceVMLimit(max, idle) ==
  /\ vmLimit' = max
  /\ idle = {} \/ Cardinality(TrackedVMs) >= max + Cardinality(idle)
  /\ ToEvict(idle)
  /\ UNCHANGED <<activeVMs, guestOf, running, evicting, deadlines, closing, dismissed>>

\* A fault: the entry goes with the signal.
EvictNextAtOnce(v) ==
  /\ toEvict[v] > 0 /\ toEvict' = [toEvict EXCEPT ![v] = @ - 1]
  /\ IF Tracked(v) /\ activeVMs[v] \in running
     THEN evicting' = [evicting EXCEPT ![v][activeVMs[v]] = @ + 1]
     ELSE UNCHANGED evicting
  /\ activeVMs' = [activeVMs EXCEPT ![v] = NoPid]
  /\ UNCHANGED <<vmLimit, guestOf, running, deadlines, closing, dismissed>>

\* The id is looked up again.  kill fails for a process that has ended: its entry stays.
EvictNext(v) ==
  /\ toEvict[v] > 0 /\ toEvict' = [toEvict EXCEPT ![v] = @ - 1]
  /\ IF Tracked(v) /\ activeVMs[v] \in running
     THEN evicting' = [evicting EXCEPT ![v][activeVMs[v]] = @ + 1]
     ELSE UNCHANGED evicting
  /\ UNCHANGED <<vmLimit, activeVMs, guestOf, running, deadlines, closing, dismissed>>

\* The process is killed, and the id forgotten, whatever process it stands for by now.
EvictionTimer(v, p) ==
  /\ evicting[v][p] > 0 /\ evicting' = [evicting EXCEPT ![v][p] = @ - 1]
  /\ running' = running \ {p}
  /\ activeVMs' = [activeVMs EXCEPT ![v] = NoPid]
  /\ UNCHANGED <<vmLimit, guestOf, toEvict, deadlines, closing, dismissed>>

\* The limits themselves are files of the cgroup; the timer kills the process it was set for,
\* and the entry stays.
EnforceResourceLimits(v) ==
  /\ Tracked(v) /\ deadlines' = deadlines \cup {activeVMs[v]}
  /\ UNCHANGED <<vmLimit, activeVMs, guestOf, running, toEvict, evicting, closing, dismissed>>
DeadlinePasses(p) ==
  /\ p \in deadlines /\ deadlines' = deadlines \ {p} /\ running' = running \ {p}
  /\ UNCHANGED <<vmLimit, activeVMs, guestOf, toEvict, evicting, closing, dismissed>>

\* unregisterVM cleans up, ignoring what fails there, and then forgets the id; it kills nothing.
UnregisterVM(v) ==
  /\ Tracked(v) /\ InProgress(v) < MaxAtOnce
  /\ closing' = [closing EXCEPT ![v] = @ + 1] /\ dismissed' = dismissed \cup {activeVMs[v]}
  /\ UNCHANGED <<vmLimit, activeVMs, guestOf, running, toEvict, evicting, deadlines>>
UnregisterEnds(v) ==
  /\ closing[v] > 0 /\ closing' = [closing EXCEPT ![v] = @ - 1]
  /\ activeVMs' = [activeVMs EXCEPT ![v] = NoPid]
  /\ UNCHANGED <<vmLimit, guestOf, running, toEvict, evicting, deadlines, dismissed>>

FirecrackerNext ==
  \/ \E v \in Guests :
       \/ EvictNext(v) \/ EnforceResourceLimits(v) \/ UnregisterVM(v) \/ UnregisterEnds(v)
       \/ \E p \in Pids : RegisterVM(v, p) \/ EvictionTimer(v, p)
  \/ \E p \in Pids : GuestEnds(p) \/ DeadlinePasses(p)
  \/ \E idle \in SUBSET Guests : EvictIdleVMs(idle) \/ \E max \in Limits : EnforceVMLimit(max, idle)

FirecrackerSpec == FirecrackerInit /\ [][FirecrackerNext]_firecrackerVars

FirecrackerTypeOK ==
  /\ vmLimit \in Limits
  /\ activeVMs \in [Guests -> Pids \cup {NoPid}] /\ guestOf \in [Pids -> Guests \cup {NoPid}]
  /\ running \subseteq Pids /\ deadlines \subseteq Pids /\ dismissed \subseteq Pids
  /\ toEvict \in [Guests -> Nat] /\ closing \in [Guests -> Nat]
  /\ evicting \in [Guests -> [Pids -> Nat]] /\ \A v \in Guests : InProgress(v) <= MaxAtOnce

\* A process that still runs is tracked, unless it was unregistered (which kills nothing) or its
\* id was used for another process as well: an eviction forgets an id only with its process
\* killed, but it does so five seconds late and by id.
TrackedUntilGone ==
  \A p \in running : activeVMs[guestOf[p]] = p \/ p \in dismissed
                     \/ \E q \in Pids \ {p} : guestOf[q] = guestOf[p]
=============================================================================
