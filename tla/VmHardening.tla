------------------------------ MODULE VmHardening ------------------------------
(***************************************************************************)
(* The Firecracker manager (security/firecracker/): it registers a VM and  *)
(* hardens it by a sequence of measures, each of which runs commands on    *)
(* the host and may fail.  Calls overlap: a VM may be hardened twice at    *)
(* once, or be unregistered while it is hardened.                          *)
(***************************************************************************)
EXTENDS Naturals, FiniteSets

CONSTANTS
  HardIds,      \* VM ids
  HardPids,     \* their processes; each is registered once
  NoHardPid,
  HardLimit     \* maxVMs

ASSUME HardeningAssumption == NoHardPid \notin HardPids

VARIABLES
  managed,      \* vms: the process of each registered id
  measures,     \* the measures in force for each process
  hardening,    \* calls of harden in progress: the process and the next step
  leaving,      \* ids that a call of unregister is at
  flushed       \* processes whose rules unregister has flushed (history)

hardeningVars == <<managed, measures, hardening, leaving, flushed>>

\* The steps of harden that change something.  The kernel and the image are verified first; the
\* rules begin with the default policies.
Steps == <<"seccomp", "deny", "allow", "limits", "devices", "pinned", "cache">>
Rules == {"deny", "allow"}

HardeningInit ==
  /\ managed = [v \in HardIds |-> NoHardPid]
  /\ measures = [p \in HardPids |-> {}]
  /\ hardening = {} /\ leaving = {} /\ flushed = {}

Register(v, p) ==
  /\ Cardinality({w \in HardIds : managed[w] # NoHardPid}) < HardLimit
  /\ measures[p] = {} /\ p \notin flushed /\ (\A w \in HardIds : managed[w] # p)
  /\ \A c \in hardening : c.pid # p
  /\ managed' = [managed EXCEPT ![v] = p]
  /\ UNCHANGED <<measures, hardening, leaving, flushed>>

\* The rules are flushed, not the default policies; the flush, as the unmounting, may fail.
UnregisterBegins(v, ok) ==
  /\ managed[v] # NoHardPid
  /\ measures' = IF ok THEN [measures EXCEPT ![managed[v]] = @ \ {"allow"}] ELSE measures
  /\ flushed' = flushed \cup {managed[v]} /\ leaving' = leaving \cup {v}
  /\ UNCHANGED <<managed, hardening>>
\* The entry that goes is the one the id has by then, of whatever process.
Unregistered(v) ==
  /\ v \in leaving /\ leaving' = leaving \ {v}
  /\ managed' = [managed EXCEPT ![v] = NoHardPid]
  /\ UNCHANGED <<measures, hardening, flushed>>

\* validateKernelVersion and verifyRootfsImage pass.
HardenBegins(v) ==
  /\ managed[v] # NoHardPid
  /\ hardening' = hardening \cup {[pid |-> managed[v], step |-> 1]}
  /\ UNCHANGED <<managed, measures, leaving, flushed>>

\* enforceSeccompProfile, the commands of setupIptablesRules, enforceResourceLimits: a step that
\* fails ends the call and undoes nothing.  configureMinimalDevices writes its file and then
\* always fails: chmod is given the literal name /dev/ttyS*, which no shell expands.
HardenStep(c, ok) ==
  /\ c \in hardening
  /\ measures' = IF ok THEN [measures EXCEPT ![c.pid] = @ \cup {Steps[c.step]}] ELSE measures
  /\ hardening' = (hardening \ {c}) \cup
       IF ok /\ Steps[c.step] # "devices" THEN {[c EXCEPT !.step = @ + 1]} ELSE {}
  /\ UNCHANGED <<managed, leaving, flushed>>

HardeningNext ==
  \/ \E v \in HardIds :
       \/ HardenBegins(v) \/ Unregistered(v)
       \/ \E p \in HardPids : Register(v, p)
       \/ \E ok \in BOOLEAN : UnregisterBegins(v, ok)
  \/ \E c \in hardening, ok \in BOOLEAN : HardenStep(c, ok)

HardeningSpec == HardeningInit /\ [][HardeningNext]_hardeningVars

HardeningTypeOK ==
  /\ managed \in [HardIds -> HardPids \cup {NoHardPid}]
  /\ measures \in [HardPids -> SUBSET {Steps[i] : i \in DOMAIN Steps}]
  /\ hardening \subseteq [pid : HardPids, step : DOMAIN Steps]
  /\ flushed \subseteq HardPids /\ leaving \subseteq HardIds

\* However hardenings and unregistrations overlap and fail, a VM is hardened by a prefix of the
\* measures, the flushed rules excepted: it never accepts traffic before its default is to drop
\* it, and has its limits only after its system calls are filtered and its rules set.
HardenedByPrefix ==
  \A p \in HardPids : \A i, j \in DOMAIN Steps :
    i < j /\ Steps[j] \in measures[p] =>
      Steps[i] \in measures[p] \/ (Steps[i] = "allow" /\ p \in flushed)
=============================================================================
