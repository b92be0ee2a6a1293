------------------------------ MODULE HostCalls ------------------------------
(***************************************************************************)
(* What FirecrackerHardening does to the host for a VM by a sequence of    *)
(* commands (security/firecrackerHardening.ts): the seccomp filter in a    *)
(* temporary file, the overlay of the root image, the cores, the network   *)
(* policy, the devices, the end of the VM.  Every path is made of the VM's *)
(* id, which is the overlay's task too, and two calls for one id may       *)
(* overlap between any two of their commands, or outlive the entry of the  *)
(* VM they are for.                                                        *)
(***************************************************************************)
EXTENDS Naturals, Sequences

CONSTANTS
  VmNames,    \* ids of the VMs
  Callers,    \* calls that may be in progress at once
  Cores,      \* sets of cores a VM may be pinned to
  NoCores,
  MaxEntries, \* bound on the registrations of an id
  MaxMounts,  \* bound on the mounts of an overlay
  MaxRules    \* bound on the rules of a chain

ASSUME HostAssumption == VmNames # {} /\ MaxEntries \in Nat

VARIABLES
  kind,       \* the kind of calls this behaviour is about: two kinds share only the registration
  entry,      \* the last entry of each id in activeVMs, and whether it is still there
  calls,      \* for each caller the call in progress and the command that comes next
  filterFile, \* ids whose /tmp/seccomp-id.json exists
  kept,       \* ids whose file could not be written or removed (history)
  mounts,     \* what is mounted at merge of the id's overlay, the last on top
  returned,   \* ids createReadOnlyOverlay has returned a path for
  unsealed,   \* ids whose last remount failed (history)
  processCores, \* the cores of the id's processes
  cgroupCores,  \* the cores of its cgroup
  mixed,      \* ids two calls of pinCPU have overlapped for, or one failed half way (history)
  chain,      \* the OUTPUT chain of the network namespace of each process: its policy and its rules
  usbClosed   \* /dev/bus/usb of the host has lost its permissions

filterVars == <<filterFile, kept>>
overlayVars == <<mounts, returned, unsealed>>
coreVars == <<processCores, cgroupCores, mixed>>
hostVars == <<kind, entry, calls, filterVars, overlayVars, coreVars, chain, usbClosed>>

\* The processes of an id are numbered by the registration that brought them.
Processes == 1 .. MaxEntries

Idle == [op |-> "none", vm |-> CHOOSE v \in VmNames : TRUE, step |-> 0, cores |-> NoCores,
         entry |-> 0, process |-> 0]
Busy(v, op) == {c \in Callers : calls[c].op = op /\ calls[c].vm = v}

Kinds == {"seccomp", "overlay", "pin", "policy", "devices"}
Open == [policy |-> "accept", rules |-> <<>>]

HostInit ==
  /\ kind \in Kinds
  /\ entry = [v \in VmNames |-> [there |-> FALSE, number |-> 0, process |-> 0, recorded |-> NoCores]]
  /\ calls = [c \in Callers |-> Idle]
  /\ filterFile = {} /\ kept = {}
  /\ mounts = [v \in VmNames |-> <<>>] /\ returned = {} /\ unsealed = {}
  /\ processCores = [v \in VmNames |-> [p \in Processes |-> NoCores]]
  /\ cgroupCores = [v \in VmNames |-> NoCores] /\ mixed = {}
  /\ chain = [v \in VmNames |-> [p \in Processes |-> Open]]
  /\ usbClosed = FALSE

\* A new entry, whether there was one or not, for a new process or for the one of the entry before.
RegisterGuest(v, p) ==
  /\ entry[v].number < MaxEntries
  /\ p \in {entry[v].number + 1, entry[v].process} \cap Processes
  /\ entry' = [entry EXCEPT ![v] = [there |-> TRUE, number |-> @.number + 1, process |-> p, recorded |-> NoCores]]
  /\ UNCHANGED <<kind, calls, filterVars, overlayVars, coreVars, chain, usbClosed>>

\* All but the overlay ask for the VM first.  The policy is for the process that a file names,
\* which others write: it may be an earlier one of the id.
CallBegins(c, op, v, cs, p) ==
  /\ calls[c] = Idle /\ op \in {kind, "unregister"}
  /\ op # "overlay" => entry[v].there
  /\ p \in IF op = "policy" THEN 1 .. entry[v].number ELSE {entry[v].process}
  /\ calls' = [calls EXCEPT ![c] = [op |-> op, vm |-> v, step |-> 1, cores |-> cs,
                                    entry |-> entry[v].number, process |-> p]]
  /\ mixed' = IF op = "pin" /\ Busy(v, "pin") # {} THEN mixed \cup {v} ELSE mixed
  /\ UNCHANGED <<kind, entry, filterVars, overlayVars, processCores, cgroupCores, chain, usbClosed>>

At(c, op, step) == calls[c].op = op /\ calls[c].step = step
\* The call goes on, or throws and leaves what it has done.
Goes(c, ok) ==
  /\ calls' = IF ok THEN [calls EXCEPT ![c].step = @ + 1] ELSE [calls EXCEPT ![c] = Idle]
  /\ UNCHANGED <<kind, entry>>
Returns(c) == calls' = [calls EXCEPT ![c] = Idle] /\ UNCHANGED kind

\* enforceSeccompProfile: a write that fails may leave a file.
FilterWritten(c, ok) ==
  /\ At(c, "seccomp", 1) /\ Goes(c, ok)
  /\ \/ filterFile' = filterFile \cup {calls[c].vm}
     \/ ~ok /\ UNCHANGED filterFile
  /\ kept' = IF ok THEN kept ELSE kept \cup {calls[c].vm}
  /\ UNCHANGED <<overlayVars, coreVars, chain, usbClosed>>
\* Whether the filter is loaded or not, the finally comes next.
FilterLoaded(c) ==
  /\ At(c, "seccomp", 2) /\ Goes(c, TRUE)
  /\ UNCHANGED <<filterVars, overlayVars, coreVars, chain, usbClosed>>
\* The failure of the removal is swallowed; that of a file another call has removed too.
FilterRemoved(c, ok) ==
  /\ At(c, "seccomp", 3) /\ Returns(c)
  /\ filterFile' = IF ok THEN filterFile \ {calls[c].vm} ELSE filterFile
  /\ kept' = IF ok THEN kept ELSE kept \cup {calls[c].vm}
  /\ UNCHANGED <<entry, overlayVars, coreVars, chain, usbClosed>>

\* createReadOnlyOverlay: mount puts an overlay above what is there, remount,ro changes the one on top.
OverlayMounted(c, ok) ==
  /\ At(c, "overlay", 1) /\ Goes(c, ok) /\ Len(mounts[calls[c].vm]) < MaxMounts
  /\ mounts' = IF ok THEN [mounts EXCEPT ![calls[c].vm] = Append(@, "rw")] ELSE mounts
  /\ UNCHANGED <<filterVars, returned, unsealed, coreVars, chain, usbClosed>>
OverlayRemounted(c, ok) ==
  LET v == calls[c].vm
  IN  /\ At(c, "overlay", 2) /\ Returns(c)
      /\ mounts' = IF ok THEN [mounts EXCEPT ![v][Len(mounts[v])] = "ro"] ELSE mounts
      /\ returned' = IF ok THEN returned \cup {v} ELSE returned
      /\ unsealed' = IF ok THEN unsealed \ {v} ELSE unsealed \cup {v}
      /\ UNCHANGED <<entry, filterVars, coreVars, chain, usbClosed>>

\* pinCPU, to the first two physical cores when disableHyperthreading calls it: the process, the
\* cgroup, and the entry the call began with.
ProcessPinned(c, ok) ==
  /\ At(c, "pin", 1) /\ Goes(c, ok)
  /\ processCores' = IF ok THEN [processCores EXCEPT ![calls[c].vm][calls[c].process] = calls[c].cores]
                     ELSE processCores
  /\ UNCHANGED <<filterVars, overlayVars, cgroupCores, mixed, chain, usbClosed>>
CgroupPinned(c, ok) ==
  /\ At(c, "pin", 2) /\ Goes(c, ok)
  /\ cgroupCores' = IF ok THEN [cgroupCores EXCEPT ![calls[c].vm] = calls[c].cores] ELSE cgroupCores
  /\ mixed' = IF ok THEN mixed ELSE mixed \cup {calls[c].vm}
  /\ UNCHANGED <<filterVars, overlayVars, processCores, chain, usbClosed>>
PinRecorded(c) ==
  LET v == calls[c].vm
  IN  /\ At(c, "pin", 3) /\ Returns(c)
      /\ entry' = IF entry[v].number = calls[c].entry THEN [entry EXCEPT ![v].recorded = calls[c].cores]
                  ELSE entry
      /\ UNCHANGED <<filterVars, overlayVars, coreVars, chain, usbClosed>>

\* setupIptablesRules: the default policies, then the rules that accept, then those that drop the
\* private ranges, each appended to what an earlier call has left.
PolicySet(c, ok) ==
  /\ At(c, "policy", 1) /\ Goes(c, ok)
  /\ chain' = IF ok THEN [chain EXCEPT ![calls[c].vm][calls[c].process].policy = "drop"] ELSE chain
  /\ UNCHANGED <<filterVars, overlayVars, coreVars, usbClosed>>
RuleAppended(c, ok) ==
  /\ calls[c].op = "policy" /\ calls[c].step \in {2, 3}
  /\ Len(chain[calls[c].vm][calls[c].process].rules) < MaxRules
  /\ IF calls[c].step = 3 THEN Returns(c) /\ UNCHANGED entry ELSE Goes(c, ok)
  /\ chain' = IF ok THEN [chain EXCEPT ![calls[c].vm][calls[c].process].rules =
                            Append(@, IF calls[c].step = 2 THEN "accept" ELSE "drop")] ELSE chain
  /\ UNCHANGED <<filterVars, overlayVars, coreVars, usbClosed>>

\* configureMinimalDevices: the host's USB bus is closed for every VM; the chmod of the literal
\* name /dev/ttyS* then fails.
DevicesClosed(c, ok) ==
  /\ At(c, "devices", 1) /\ Goes(c, FALSE)
  /\ usbClosed' = (usbClosed \/ ok)
  /\ UNCHANGED <<filterVars, overlayVars, coreVars, chain>>

\* A fault: the chain is given back as it was found.
Reset(old) == Open
\* unregisterVM flushes the rules; the policies stay.
Flushed(old) == [policy |-> old.policy, rules |-> <<>>]

\* umount is given the directory above the one that is mounted and fails, and the removal after it
\* is not tried.
RulesFlushed(c, ok) ==
  /\ At(c, "unregister", 1) /\ Goes(c, TRUE)
  /\ chain' = IF ok THEN [chain EXCEPT ![calls[c].vm][calls[c].process] = Flushed(@)] ELSE chain
  /\ UNCHANGED <<filterVars, overlayVars, coreVars, usbClosed>>
\* The entry that goes is the one there is by then.
GuestUnregistered(c) ==
  /\ At(c, "unregister", 2) /\ Returns(c)
  /\ entry' = [entry EXCEPT ![calls[c].vm].there = FALSE]
  /\ UNCHANGED <<filterVars, overlayVars, coreVars, chain, usbClosed>>

HostNext ==
  \/ \E v \in VmNames, p \in Processes : RegisterGuest(v, p)
  \/ \E c \in Callers :
       \/ \E v \in VmNames :
            \E op \in Kinds \cup {"unregister"}, cs \in Cores \cup {NoCores}, p \in Processes \cup {0} :
              (op = "pin" <=> cs # NoCores) /\ CallBegins(c, op, v, cs, p)
       \/ FilterLoaded(c) \/ PinRecorded(c) \/ GuestUnregistered(c)
       \/ \E ok \in BOOLEAN :
            \/ FilterWritten(c, ok) \/ FilterRemoved(c, ok) \/ OverlayMounted(c, ok) \/ OverlayRemounted(c, ok)
            \/ ProcessPinned(c, ok) \/ CgroupPinned(c, ok) \/ PolicySet(c, ok) \/ RuleAppended(c, ok)
            \/ DevicesClosed(c, ok) \/ RulesFlushed(c, ok)

HostSpec == HostInit /\ [][HostNext]_hostVars

HostTypeOK ==
  /\ kind \in Kinds /\ usbClosed \in BOOLEAN
  /\ filterFile \cup kept \cup returned \cup unsealed \cup mixed \subseteq VmNames
  /\ \A v \in VmNames :
       /\ mounts[v] \in Seq({"rw", "ro"}) /\ entry[v].process <= entry[v].number
       /\ \A p \in Processes : chain[v][p].rules \in Seq({"accept", "drop"})
       /\ cgroupCores[v] \in Cores \cup {NoCores}

\* Whatever calls overlap, fail half way or outlive the entry they began with: a namespace has
\* rules only under a default drop; an overlay that was returned is read-only when nobody mounts
\* it again, unless the last remount failed; a filter's file is there only while a call uses it,
\* unless it could not be written or removed.  Cores on record are the process's and the cgroup's
\* as long as no two calls that pin the id overlap, nor one fails.
RulesUnderDrop == \A v \in VmNames, p \in Processes : chain[v][p].rules # <<>> => chain[v][p].policy = "drop"
OverlaysSealed ==
  \A v \in returned \ unsealed : Busy(v, "overlay") = {} => mounts[v][Len(mounts[v])] = "ro"
FiltersRemoved == \A v \in filterFile \ kept : Busy(v, "seccomp") # {}
CoresAsRecorded ==
  \A v \in VmNames \ mixed :
    entry[v].recorded # NoCores /\ Busy(v, "pin") = {} =>
      entry[v].recorded = cgroupCores[v] /\ entry[v].recorded = processCores[v][entry[v].process]
HostAsLeft == RulesUnderDrop /\ OverlaysSealed /\ FiltersRemoved /\ CoresAsRecorded
=============================================================================
