---------------------------- MODULE MachinesProofs ----------------------------
(***************************************************************************)
(* What holds of the parts that run on one machine, for every number of    *)
(* vms, GPUs, processes, peers, topics, callers and rows: each part by an  *)
(* invariant of its own, and the whole, whose parts share no state, as     *)
(* its parts.                                                              *)
(***************************************************************************)
EXTENDS MCMachines, FoldLemmas, FiniteSetTheorems, WellFoundedInduction, TLAPS

(***************************************************************************)
(* Sandbox.  A launch in flight raises overlap when it begins, so that     *)
(* overlap bounds the launches in flight, and a creation finds fewer vms   *)
(* registered than the limit.                                              *)
(***************************************************************************)
MachineRecord == [task : Tasks \cup {NoVm}, stage : {"none", "launching", "created", "failed"},
                  state : {"none", "running", "stopped", "error"}, process : {"none", "alive", "dead"},
                  timer : {"none", "pending", "fired"}, ran : Nat]

SandboxShape ==
  /\ machine \in [VmIds -> MachineRecord]
  /\ \A v \in VmIds : machine[v].stage \in {"launching", "created"} \/ machine[v].timer = "pending" =>
       machine[v].task \in Tasks
  /\ vms \in [Tasks -> VmIds \cup {NoVm}]
  /\ overlap \in Nat

\* What a step that neither begins nor ends a launch leaves of the vms.
SameLaunches(m, n) ==
  /\ n \in [VmIds -> MachineRecord]
  /\ \A q \in VmIds : /\ n[q].stage = m[q].stage /\ n[q].task = m[q].task
                      /\ n[q].timer = "pending" => m[q].timer = "pending"

OverlapBounds ==
  /\ Cardinality(Launching) <= overlap
  /\ overlap = 0 => RegisteredTasks = {}
  /\ overlap > 0 => Cardinality(RegisteredTasks) + Cardinality(Launching) <= MaxVMs + overlap - 1

SandboxInv == SandboxShape /\ OverlapBounds

LEMMA AtMostOneMore ==
  ASSUME NEW S, IsFiniteSet(S), NEW x, NEW T \in SUBSET (S \cup {x})
  PROVE  Cardinality(T) \in Nat /\ Cardinality(T) <= Cardinality(S) + 1
<1>1. /\ IsFiniteSet(S \cup {x})
      /\ Cardinality(S \cup {x}) = IF x \in S THEN Cardinality(S) ELSE Cardinality(S) + 1
  BY FS_AddElement
<1>2. IsFiniteSet(T) /\ Cardinality(T) <= Cardinality(S \cup {x})
  BY <1>1, FS_Subset
<1>3. Cardinality(S) \in Nat /\ Cardinality(T) \in Nat
  BY <1>2, FS_CardinalityType
<1> QED
  BY <1>1, <1>2, <1>3

LEMMA CountsFinite ==
  /\ IsFiniteSet(RegisteredTasks) /\ Cardinality(RegisteredTasks) \in Nat
  /\ IsFiniteSet(Launching) /\ Cardinality(Launching) \in Nat
<1>1. RegisteredTasks \subseteq Tasks /\ Launching \subseteq VmIds
  BY DEF RegisteredTasks, Launching
<1> QED
  BY <1>1, SandboxAssumption, FS_Subset, FS_CardinalityType

\* An update of one field of a vm, other than its stage and its task.
LEMMA FieldEdits ==
  ASSUME NEW m \in [VmIds -> MachineRecord], NEW v \in VmIds
  PROVE  /\ \A x \in {"none", "running", "stopped", "error"} : SameLaunches(m, [m EXCEPT ![v].state = x])
         /\ \A x \in {"none", "alive", "dead"} : SameLaunches(m, [m EXCEPT ![v].process = x])
         /\ SameLaunches(m, [m EXCEPT ![v].timer = "fired"])
         /\ SameLaunches(m, [m EXCEPT ![v].ran = @ + 1])
<1>1. ASSUME NEW r \in MachineRecord, r.stage = m[v].stage, r.task = m[v].task,
             r.timer = "pending" => m[v].timer = "pending"
      PROVE  SameLaunches(m, [m EXCEPT ![v] = r])
  BY <1>1 DEF SameLaunches
<1>2. PICK s : s = m[v]
  OBVIOUS
<1>3. s \in MachineRecord
  BY <1>2
<1>4. ASSUME NEW x \in {"none", "running", "stopped", "error"}
      PROVE  SameLaunches(m, [m EXCEPT ![v].state = x])
  <2> DEFINE r == [s EXCEPT !.state = x]
  <2>1. r \in MachineRecord /\ r.stage = s.stage /\ r.task = s.task /\ (r.timer = "pending" => s.timer = "pending")
    BY <1>3 DEF MachineRecord
  <2>2. [m EXCEPT ![v].state = x] = [m EXCEPT ![v] = r]
    BY <1>2
  <2> HIDE DEF r
  <2> QED
    BY <1>1, <1>2, <2>1, <2>2
<1>5. ASSUME NEW x \in {"none", "alive", "dead"}
      PROVE  SameLaunches(m, [m EXCEPT ![v].process = x])
  <2> DEFINE r == [s EXCEPT !.process = x]
  <2>1. r \in MachineRecord /\ r.stage = s.stage /\ r.task = s.task /\ (r.timer = "pending" => s.timer = "pending")
    BY <1>3 DEF MachineRecord
  <2>2. [m EXCEPT ![v].process = x] = [m EXCEPT ![v] = r]
    BY <1>2
  <2> HIDE DEF r
  <2> QED
    BY <1>1, <1>2, <2>1, <2>2
<1>6. SameLaunches(m, [m EXCEPT ![v].timer = "fired"])
  <2> DEFINE r == [s EXCEPT !.timer = "fired"]
  <2>1. r \in MachineRecord /\ r.stage = s.stage /\ r.task = s.task /\ (r.timer = "pending" => s.timer = "pending")
    BY <1>3 DEF MachineRecord
  <2>2. [m EXCEPT ![v].timer = "fired"] = [m EXCEPT ![v] = r]
    BY <1>2
  <2> HIDE DEF r
  <2> QED
    BY <1>1, <1>2, <2>1, <2>2
<1>7. SameLaunches(m, [m EXCEPT ![v].ran = @ + 1])
  <2> DEFINE k == s.ran + 1
             r == [s EXCEPT !.ran = k]
  <2>1. [m EXCEPT ![v].ran = @ + 1] = [m EXCEPT ![v] = r]
    BY <1>2
  <2>2. k \in Nat
    BY <1>3 DEF MachineRecord
  <2> HIDE DEF k
  <2>3. r \in MachineRecord /\ r.stage = s.stage /\ r.task = s.task /\ (r.timer = "pending" => s.timer = "pending")
    BY <1>3, <2>2 DEF MachineRecord
  <2> HIDE DEF r
  <2> QED
    BY <1>1, <1>2, <2>1, <2>3
<1> QED
  BY <1>4, <1>5, <1>6, <1>7

\* Registering no more tasks and launching no more vms keeps the bounds.
LEMMA FewerVms ==
  ASSUME OverlapBounds, SandboxShape, overlap' = overlap,
         RegisteredTasks' \subseteq RegisteredTasks, Launching' \subseteq Launching
  PROVE  OverlapBounds'
<1>1. /\ Cardinality(RegisteredTasks') <= Cardinality(RegisteredTasks)
      /\ Cardinality(Launching') <= Cardinality(Launching)
  BY CountsFinite, FS_Subset
<1>2. Cardinality(RegisteredTasks') \in Nat /\ Cardinality(Launching') \in Nat
  BY CountsFinite, FS_Subset, FS_CardinalityType
<1>3. Cardinality(RegisteredTasks) \in Nat /\ Cardinality(Launching) \in Nat /\ overlap \in Nat
      /\ MaxVMs \in Nat
  BY CountsFinite, SandboxAssumption DEF SandboxShape
<1>4. overlap' = 0 => RegisteredTasks' = {}
  BY DEF OverlapBounds
<1> QED
  BY <1>1, <1>2, <1>3, <1>4 DEF OverlapBounds

LEMMA CreateStep ==
  ASSUME SandboxInv, NEW t \in Tasks, NEW v \in VmIds, CreateVM(t, v)
  PROVE  SandboxInv'
<1> DEFINE r == [Undrawn EXCEPT !.task = t, !.stage = "launching", !.process = "alive"]
<1>1. r \in MachineRecord /\ r.stage = "launching" /\ r.task = t
  BY DEF Undrawn, MachineRecord
<1>2. /\ machine' = [machine EXCEPT ![v] = r] /\ vms' = vms
      /\ Cardinality(RegisteredTasks) < MaxVMs /\ machine[v] = Undrawn
      /\ overlap' = IF Cardinality(Launching) + 1 > overlap THEN Cardinality(Launching) + 1 ELSE overlap
  BY DEF CreateVM
<1>3. machine[v].stage # "launching"
  BY <1>2 DEF Undrawn
<1> HIDE DEF r
<1>4. Launching' = Launching \cup {v} /\ v \notin Launching
  BY <1>1, <1>2, <1>3 DEF SandboxInv, SandboxShape, Launching
<1>5. Cardinality(Launching') = Cardinality(Launching) + 1
  BY <1>4, CountsFinite, FS_AddElement
<1>6. RegisteredTasks' = RegisteredTasks
  BY <1>2 DEF RegisteredTasks, HasVm
<1>7. SandboxShape'
  BY <1>1, <1>2, CountsFinite DEF SandboxInv, SandboxShape
<1>8. Cardinality(RegisteredTasks) \in Nat /\ Cardinality(Launching) \in Nat /\ overlap \in Nat
      /\ MaxVMs \in Nat
  BY CountsFinite, SandboxAssumption DEF SandboxInv, SandboxShape
<1>9. OverlapBounds'
  BY <1>2, <1>5, <1>6, <1>8 DEF OverlapBounds
<1> QED
  BY <1>7, <1>9 DEF SandboxInv

LEMMA LaunchedStep ==
  ASSUME SandboxInv, NEW v \in VmIds, Launched(v)
  PROVE  SandboxInv'
<1> DEFINE t == machine[v].task
<1>1. /\ machine[v].stage = "launching" /\ vms' = [vms EXCEPT ![t] = v] /\ overlap' = overlap
      /\ machine' = [machine EXCEPT ![v].stage = "created", ![v].state = "running", ![v].timer = "pending"]
  BY DEF Launched
<1>2. t \in Tasks
  BY <1>1 DEF SandboxInv, SandboxShape
<1> DEFINE r == [machine[v] EXCEPT !.stage = "created", !.state = "running", !.timer = "pending"]
<1>3. /\ r \in MachineRecord /\ r.stage = "created" /\ r.task = t
      /\ machine' = [machine EXCEPT ![v] = r]
  BY <1>1 DEF SandboxInv, SandboxShape, MachineRecord
<1> HIDE DEF t, r
<1>4. Launching' = Launching \ {v} /\ v \in Launching
  BY <1>1, <1>3 DEF SandboxInv, SandboxShape, Launching
<1>5. Cardinality(Launching') = Cardinality(Launching) - 1
  BY <1>4, CountsFinite, FS_RemoveElement
<1>6. RegisteredTasks' \subseteq RegisteredTasks \cup {t}
  BY <1>1, <1>2 DEF SandboxInv, SandboxShape, RegisteredTasks, HasVm
<1>7. Cardinality(RegisteredTasks') <= Cardinality(RegisteredTasks) + 1 /\ Cardinality(RegisteredTasks') \in Nat
  BY <1>6, CountsFinite, AtMostOneMore
<1>9. SandboxShape'
  BY <1>1, <1>2, <1>3 DEF SandboxInv, SandboxShape
<1>10. Cardinality(RegisteredTasks) \in Nat /\ Cardinality(Launching) \in Nat /\ overlap \in Nat
       /\ MaxVMs \in Nat
  BY CountsFinite, SandboxAssumption DEF SandboxInv, SandboxShape
<1>11. Cardinality(Launching) > 0
  BY <1>4, CountsFinite, FS_EmptySet
<1>12. overlap > 0
  BY <1>10, <1>11 DEF SandboxInv, OverlapBounds
<1>13. OverlapBounds'
  BY <1>1, <1>5, <1>7, <1>10, <1>12 DEF SandboxInv, OverlapBounds
<1> QED
  BY <1>9, <1>13 DEF SandboxInv

\* The other steps register nothing and launch nothing.
LEMMA QuietStep ==
  ASSUME SandboxInv, overlap' = overlap, SameLaunches(machine, machine'),
         vms' \in [Tasks -> VmIds \cup {NoVm}], \A t \in Tasks : vms'[t] # NoVm => vms[t] # NoVm
  PROVE  SandboxInv'
<1>1. RegisteredTasks' \subseteq RegisteredTasks /\ Launching' \subseteq Launching
  BY DEF RegisteredTasks, HasVm, Launching, SameLaunches
<1>2. SandboxShape'
  BY DEF SandboxInv, SandboxShape, SameLaunches
<1> QED
  BY <1>1, <1>2, FewerVms DEF SandboxInv

\* What destroyVM does to the entries before its await.
LEMMA DestroyedEntries ==
  ASSUME SandboxInv, NEW t \in Tasks, Destroyed(t)
  PROVE  vms' \in [Tasks -> VmIds \cup {NoVm}] /\ \A q \in Tasks : vms'[q] # NoVm => vms[q] # NoVm
<1>1. vms' = vms \/ vms' = [vms EXCEPT ![t] = NoVm]
  BY DEF Destroyed
<1> QED
  BY <1>1 DEF SandboxInv, SandboxShape

LEMMA SandboxStepInv == SandboxInv /\ [SandboxNext]_sandboxVars => SandboxInv'
<1> SUFFICES ASSUME SandboxInv, [SandboxNext]_sandboxVars PROVE SandboxInv'
  OBVIOUS
<1>0. /\ machine \in [VmIds -> MachineRecord] /\ vms \in [Tasks -> VmIds \cup {NoVm}]
      /\ SameLaunches(machine, machine)
  BY DEF SandboxInv, SandboxShape, SameLaunches
<1>1. ASSUME NEW t \in Tasks, DestroyVM(t) PROVE SandboxInv'
  <2>1. PICK w \in VmIds : machine' = [machine EXCEPT ![w].state = "stopped"]
    BY <1>0, <1>1 DEF DestroyVM, Destroyed, HasVm
  <2>2. SameLaunches(machine, machine')
    BY <1>0, <2>1, FieldEdits
  <2>3. Destroyed(t) /\ overlap' = overlap
    BY <1>1 DEF DestroyVM
  <2> QED
    BY <2>2, <2>3, DestroyedEntries, QuietStep
<1>2. ASSUME NEW t \in Tasks, DestroyEnds(t) PROVE SandboxInv'
  BY <1>0, <1>2, QuietStep DEF DestroyEnds
<1>3. ASSUME NEW t \in Tasks, ExecuteInVM(t) PROVE SandboxInv'
  <2>1. PICK w \in VmIds : machine' = [machine EXCEPT ![w].ran = @ + 1]
    BY <1>0, <1>3 DEF ExecuteInVM, HasVm
  <2>2. SameLaunches(machine, machine')
    BY <1>0, <2>1, FieldEdits
  <2> QED
    BY <1>0, <1>3, <2>2, QuietStep DEF ExecuteInVM
<1>4. ASSUME NEW v \in VmIds, LaunchFails(v) PROVE SandboxInv'
  <2> DEFINE r == [machine[v] EXCEPT !.stage = "failed"]
  <2>1. /\ r \in MachineRecord /\ r.stage = "failed" /\ machine' = [machine EXCEPT ![v] = r]
        /\ r.task = machine[v].task /\ r.timer = machine[v].timer
    BY <1>0, <1>4 DEF LaunchFails, MachineRecord
  <2>2. vms' = vms /\ overlap' = overlap
    BY <1>4 DEF LaunchFails
  <2> HIDE DEF r
  <2>3. Launching' \subseteq Launching /\ SandboxShape' /\ RegisteredTasks' = RegisteredTasks
    BY <2>1, <2>2 DEF SandboxInv, SandboxShape, Launching, RegisteredTasks, HasVm
  <2> QED
    BY <2>2, <2>3, FewerVms DEF SandboxInv
<1>5. ASSUME NEW v \in VmIds, Timeout(v) PROVE SandboxInv'
  <2> DEFINE t == machine[v].task
             m == [machine EXCEPT ![v].timer = "fired"]
  <2>1. SameLaunches(machine, m)
    BY <1>0, FieldEdits
  <2>2. overlap' = overlap
    BY <1>5 DEF Timeout
  <2>3. CASE HasVm(t) /\ t \in Tasks
    <3>1. PICK w \in VmIds : machine' = [m EXCEPT ![w].state = "stopped"]
      BY <1>0, <1>5, <2>3 DEF Timeout, HasVm
    <3>2. Destroyed(t)
      BY <1>5, <2>3 DEF Timeout
    <3> HIDE DEF m, t
    <3>3. SameLaunches(m, machine')
      <4>1. m \in [VmIds -> MachineRecord]
        BY <2>1 DEF SameLaunches
      <4>2. SameLaunches(m, [m EXCEPT ![w].state = "stopped"])
        BY <4>1, FieldEdits
      <4> QED
        BY <3>1, <4>2
    <3>4. SameLaunches(machine, machine')
      BY <2>1, <3>3 DEF SameLaunches
    <3> QED
      BY <2>2, <2>3, <3>2, <3>4, DestroyedEntries, QuietStep
  <2>4. CASE ~HasVm(t)
    <3>1. machine' = m /\ vms' = vms
      BY <1>5, <2>4 DEF Timeout
    <3> HIDE DEF m, t
    <3> QED
      BY <1>0, <2>1, <2>2, <3>1, QuietStep
  <2>5. t \in Tasks
    BY <1>5 DEF Timeout, SandboxInv, SandboxShape
  <2> QED
    BY <2>3, <2>4, <2>5
<1>6. ASSUME NEW v \in VmIds, CommandEnds(v) PROVE SandboxInv'
  BY <1>0, <1>6, QuietStep DEF CommandEnds
<1>7. ASSUME NEW v \in VmIds, NEW code \in {0, 1}, ProcessExits(v, code) PROVE SandboxInv'
  <2> DEFINE m == [machine EXCEPT ![v].process = "dead"]
             t == machine[v].task
             state == IF code = 0 THEN "stopped" ELSE "error"
  <2>1. SameLaunches(machine, m)
    BY <1>0, FieldEdits
  <2>2. overlap' = overlap /\ vms' = vms
    BY <1>7 DEF ProcessExits
  <2>3. CASE machine[v].stage = "created" /\ HasVm(t)
    <3>1. PICK w \in VmIds : machine' = [m EXCEPT ![w].state = state]
      BY <1>0, <1>7, <2>3 DEF ProcessExits, HasVm, SandboxInv, SandboxShape
    <3>2. state \in {"none", "running", "stopped", "error"}
      OBVIOUS
    <3> HIDE DEF m, state
    <3>3. SameLaunches(m, machine')
      <4>1. m \in [VmIds -> MachineRecord]
        BY <2>1 DEF SameLaunches
      <4>2. SameLaunches(m, [m EXCEPT ![w].state = state])
        BY <3>2, <4>1, FieldEdits
      <4> QED
        BY <3>1, <4>2
    <3>4. SameLaunches(machine, machine')
      BY <2>1, <3>3 DEF SameLaunches
    <3> QED
      BY <1>0, <2>2, <3>4, QuietStep
  <2>4. CASE ~(machine[v].stage = "created" /\ HasVm(t))
    <3>1. machine' = m
      BY <1>7, <2>4 DEF ProcessExits
    <3> HIDE DEF m
    <3> QED
      BY <1>0, <2>1, <2>2, <3>1, QuietStep
  <2> QED
    BY <2>3, <2>4
<1>8. CASE UNCHANGED sandboxVars
  BY <1>0, <1>8, QuietStep DEF sandboxVars
<1> QED
  BY <1>1, <1>2, <1>3, <1>4, <1>5, <1>6, <1>7, <1>8, CreateStep, LaunchedStep DEF SandboxNext

LEMMA SandboxInitInv == SandboxInit => SandboxInv
<1> SUFFICES ASSUME SandboxInit PROVE SandboxInv
  OBVIOUS
<1>1. RegisteredTasks = {} /\ Launching = {}
  BY DEF SandboxInit, RegisteredTasks, HasVm, Launching, Undrawn
<1>2. Undrawn \in MachineRecord /\ Undrawn.stage = "none" /\ Undrawn.timer = "none"
  BY DEF Undrawn, MachineRecord
<1>3. SandboxShape
  BY <1>2 DEF SandboxInit, SandboxShape
<1>4. OverlapBounds
  BY <1>1, FS_EmptySet DEF SandboxInit, OverlapBounds
<1> QED
  BY <1>3, <1>4 DEF SandboxInv

LEMMA SandboxInvariant == SandboxSpec => []SandboxInv
BY SandboxInitInv, SandboxStepInv, PTL DEF SandboxSpec

\* createVM tests the limit before it awaits the launch: the manager goes past its limit by as
\* many vms as launches were in flight at once besides the first, and never otherwise.
THEOREM LimitPassedByOverlapAlways == SandboxSpec => []LimitPassedByOverlap
<1>1. SandboxInv => LimitPassedByOverlap
  <2> SUFFICES ASSUME SandboxInv PROVE LimitPassedByOverlap
    OBVIOUS
  <2>1. Cardinality(RegisteredTasks) \in Nat /\ Cardinality(Launching) \in Nat /\ overlap \in Nat
        /\ MaxVMs \in Nat
    BY CountsFinite, SandboxAssumption DEF SandboxInv, SandboxShape
  <2>2. overlap = 0 => Cardinality(RegisteredTasks) = 0
    BY FS_EmptySet DEF SandboxInv, OverlapBounds
  <2> QED
    BY <2>1, <2>2 DEF SandboxInv, OverlapBounds, LimitPassedByOverlap
<1> QED
  BY <1>1, SandboxInvariant, PTL

\* What SandboxInv leaves open.  A timer fires once, so that the destructions in progress are
\* bounded by those that were called for and the timers that have fired.
Fired == {v \in VmIds : machine[v].timer = "fired"}

MachinesBounded ==
  \A v \in VmIds : /\ machine[v].ran <= MaxRuns
                   /\ machine[v].stage = "launching" => machine[v].timer = "none"
DestroyingBounded ==
  /\ destroying \in [Tasks -> Nat]
  /\ \A t \in Tasks : destroying[t] <= MaxDestroys + Cardinality(Fired)
OthersTyped == useMock \in BOOLEAN /\ commands \subseteq VmIds /\ overlap <= Cardinality(VmIds)

SandboxTyped == MachinesBounded /\ DestroyingBounded /\ OthersTyped

LEMMA FiredFinite ==
  /\ IsFiniteSet(Fired) /\ Cardinality(Fired) \in Nat /\ Cardinality(Fired) <= Cardinality(VmIds)
  /\ Cardinality(VmIds) \in Nat
<1>1. Fired \subseteq VmIds
  BY DEF Fired
<1> QED
  BY <1>1, SandboxAssumption, FS_Subset, FS_CardinalityType

\* Fields that no step but those named leaves changed.
SameRuns(m, n) == \A q \in VmIds : n[q].ran = m[q].ran /\ n[q].timer = m[q].timer
                                   /\ (n[q].stage = m[q].stage \/ n[q].stage # "launching")

LEMMA QuietMachines ==
  ASSUME MachinesBounded, SameRuns(machine, machine')
  PROVE  MachinesBounded' /\ Fired' = Fired
<1>1. MachinesBounded'
  BY DEF MachinesBounded, SameRuns
<1>2. Fired' = Fired
  BY DEF Fired, SameRuns
<1> QED
  BY <1>1, <1>2

LEMMA SameDestroying ==
  ASSUME DestroyingBounded, destroying' = destroying, Fired' = Fired
  PROVE  DestroyingBounded'
BY DEF DestroyingBounded

LEMMA CreateTyped ==
  ASSUME SandboxInv, SandboxTyped, NEW t \in Tasks, NEW v \in VmIds, CreateVM(t, v)
  PROVE  SandboxTyped'
<1> DEFINE r == [Undrawn EXCEPT !.task = t, !.stage = "launching", !.process = "alive"]
<1>1. /\ machine[v] = Undrawn /\ machine' = [machine EXCEPT ![v] = r]
      /\ UNCHANGED <<useMock, vms, destroying, commands>>
      /\ overlap' = overlap \/ overlap' = Cardinality(Launching) + 1
  BY DEF CreateVM
<1>2. r.ran = 0 /\ r.timer = "none" /\ r.stage = "launching"
  BY DEF Undrawn
<1>3. machine \in [VmIds -> MachineRecord]
  BY DEF SandboxInv, SandboxShape
<1> HIDE DEF r
<1>4. machine'[v] = r /\ \A q \in VmIds : q # v => machine'[q] = machine[q]
  BY <1>1, <1>3
<1>5. machine[v].timer = "none" /\ machine[v].stage = "none"
  BY <1>1 DEF Undrawn
<1>6. MachinesBounded'
  BY <1>2, <1>4, SandboxAssumption DEF SandboxTyped, MachinesBounded
<1>7. Fired' = Fired
  <2>1. \A q \in VmIds : machine'[q].timer = machine[q].timer
    BY <1>2, <1>4, <1>5
  <2> QED
    BY <2>1 DEF Fired
<1>8. Cardinality(Launching) + 1 <= Cardinality(VmIds)
  <2>1. v \notin Launching /\ Launching \subseteq VmIds \ {v}
    BY <1>5 DEF Launching
  <2>2. IsFiniteSet(VmIds \ {v}) /\ Cardinality(VmIds \ {v}) = Cardinality(VmIds) - 1
    BY SandboxAssumption, FS_RemoveElement
  <2>3. Cardinality(Launching) <= Cardinality(VmIds \ {v})
    BY <2>1, <2>2, FS_Subset
  <2> QED
    BY <2>2, <2>3, CountsFinite, FiredFinite
<1>9. DestroyingBounded'
  BY <1>1, <1>7, SameDestroying DEF SandboxTyped
<1>10. OthersTyped'
  BY <1>1, <1>8 DEF SandboxTyped, OthersTyped
<1> QED
  BY <1>6, <1>9, <1>10 DEF SandboxTyped

LEMMA LaunchTyped ==
  ASSUME SandboxInv, SandboxTyped, NEW v \in VmIds, Launched(v) \/ LaunchFails(v)
  PROVE  SandboxTyped'
<1>1. /\ machine \in [VmIds -> MachineRecord] /\ machine[v].stage = "launching"
      /\ UNCHANGED <<useMock, destroying, commands, overlap>>
  BY DEF SandboxInv, SandboxShape, Launched, LaunchFails
<1>2. machine[v].timer = "none"
  BY <1>1 DEF SandboxTyped, MachinesBounded
<1>3. PICK r : /\ machine' = [machine EXCEPT ![v] = r] /\ r.ran = machine[v].ran
               /\ r.stage # "launching" /\ r.timer # "fired"
  <2>1. CASE Launched(v)
    <3> DEFINE r == [machine[v] EXCEPT !.stage = "created", !.state = "running", !.timer = "pending"]
    <3>1. machine' = [machine EXCEPT ![v] = r]
      BY <1>1, <2>1 DEF Launched
    <3>2. r.ran = machine[v].ran /\ r.stage = "created" /\ r.timer = "pending"
      BY <1>1 DEF MachineRecord
    <3> HIDE DEF r
    <3> QED
      BY <3>1, <3>2
  <2>2. CASE LaunchFails(v)
    <3> DEFINE r == [machine[v] EXCEPT !.stage = "failed"]
    <3>1. machine' = [machine EXCEPT ![v] = r]
      BY <1>1, <2>2 DEF LaunchFails
    <3>2. r.ran = machine[v].ran /\ r.stage = "failed" /\ r.timer = machine[v].timer
      BY <1>1 DEF MachineRecord
    <3> HIDE DEF r
    <3> QED
      BY <1>2, <3>1, <3>2
  <2> QED
    BY <2>1, <2>2
<1>4. machine'[v] = r /\ \A q \in VmIds : q # v => machine'[q] = machine[q]
  BY <1>1, <1>3
<1>5. MachinesBounded'
  BY <1>3, <1>4 DEF SandboxTyped, MachinesBounded
<1>6. Fired' = Fired
  BY <1>2, <1>3, <1>4 DEF Fired
<1>7. DestroyingBounded' /\ OthersTyped'
  BY <1>1, <1>6, SameDestroying DEF SandboxTyped, OthersTyped
<1> QED
  BY <1>5, <1>7 DEF SandboxTyped

\* One destruction more, of a task whose destructions have room for it.
LEMMA MoreDestroying ==
  ASSUME NEW t \in Tasks, DestroyingBounded, Destroyed(t), Cardinality(Fired) <= Cardinality(Fired'),
         \/ destroying[t] < MaxDestroys
         \/ Cardinality(Fired') = Cardinality(Fired) + 1
  PROVE  DestroyingBounded'
<1>1. destroying \in [Tasks -> Nat] /\ MaxDestroys \in Nat /\ Cardinality(Fired) \in Nat
  BY SandboxAssumption, FiredFinite DEF DestroyingBounded
<1>2. Cardinality(Fired') \in Nat
  <2>1. Fired' \subseteq VmIds
    BY DEF Fired
  <2> QED
    BY <2>1, SandboxAssumption, FS_Subset, FS_CardinalityType
<1>3. PICK k \in Nat : k = destroying[t]
  BY <1>1
<1>4. destroying' = destroying \/ destroying' = [destroying EXCEPT ![t] = k + 1]
  BY <1>3 DEF Destroyed
<1>5. k + 1 \in Nat /\ k + 1 <= MaxDestroys + Cardinality(Fired')
  BY <1>1, <1>2, <1>3 DEF DestroyingBounded
<1>6. \A q \in Tasks : destroying[q] <= MaxDestroys + Cardinality(Fired')
  BY <1>1, <1>2 DEF DestroyingBounded
<1> QED
  BY <1>1, <1>4, <1>5, <1>6 DEF DestroyingBounded

LEMMA TimeoutTyped ==
  ASSUME SandboxInv, SandboxTyped, NEW v \in VmIds, Timeout(v)
  PROVE  SandboxTyped'
<1> DEFINE t == machine[v].task
<1>1. /\ machine \in [VmIds -> MachineRecord] /\ machine[v].timer = "pending" /\ t \in Tasks
      /\ UNCHANGED <<useMock, commands, overlap>> /\ vms \in [Tasks -> VmIds \cup {NoVm}]
  BY DEF SandboxInv, SandboxShape, Timeout
<1>2. PICK m : m = [machine EXCEPT ![v].timer = "fired"]
  OBVIOUS
<1>3. /\ m \in [VmIds -> MachineRecord]
      /\ \A q \in VmIds : /\ m[q].ran = machine[q].ran /\ m[q].stage = machine[q].stage
                          /\ m[q].timer = IF q = v THEN "fired" ELSE machine[q].timer
  <2> DEFINE r == [machine[v] EXCEPT !.timer = "fired"]
  <2>1. r \in MachineRecord /\ r.ran = machine[v].ran /\ r.stage = machine[v].stage /\ r.timer = "fired"
    BY <1>1 DEF MachineRecord
  <2>2. m = [machine EXCEPT ![v] = r]
    BY <1>2
  <2> HIDE DEF r
  <2> QED
    BY <1>1, <2>1, <2>2
<1>4. machine' = m \/ \E w \in VmIds : machine' = [m EXCEPT ![w].state = "stopped"]
  BY <1>1, <1>2 DEF Timeout, HasVm
<1>5. \A q \in VmIds : /\ machine'[q].ran = machine[q].ran /\ machine'[q].stage = machine[q].stage
                       /\ machine'[q].timer = IF q = v THEN "fired" ELSE machine[q].timer
  <2>1. ASSUME NEW w \in VmIds, machine' = [m EXCEPT ![w].state = "stopped"], NEW q \in VmIds
        PROVE  machine'[q].ran = m[q].ran /\ machine'[q].stage = m[q].stage /\ machine'[q].timer = m[q].timer
    BY <1>3, <2>1 DEF MachineRecord
  <2> QED
    BY <1>3, <1>4, <2>1
<1>6. MachinesBounded'
  BY <1>1, <1>5 DEF SandboxTyped, MachinesBounded
<1>7. Fired' = Fired \cup {v} /\ v \notin Fired
  BY <1>1, <1>5 DEF Fired
<1>8. Cardinality(Fired') = Cardinality(Fired) + 1 /\ Cardinality(Fired) \in Nat
  BY <1>7, FiredFinite, FS_AddElement
<1>9. DestroyingBounded'
  <2>1. CASE Destroyed(t)
    BY <1>1, <1>8, <2>1, MoreDestroying DEF SandboxTyped
  <2>2. CASE destroying' = destroying
    <3>1. destroying \in [Tasks -> Nat] /\ MaxDestroys \in Nat
      BY SandboxAssumption DEF SandboxTyped, DestroyingBounded
    <3> QED
      BY <1>8, <2>2, <3>1 DEF SandboxTyped, DestroyingBounded
  <2> QED
    BY <2>1, <2>2 DEF Timeout
<1>10. OthersTyped'
  BY <1>1 DEF SandboxTyped, OthersTyped
<1> QED
  BY <1>6, <1>9, <1>10 DEF SandboxTyped

LEMMA SandboxTypedStep == SandboxInv /\ SandboxTyped /\ [SandboxNext]_sandboxVars => SandboxTyped'
<1> SUFFICES ASSUME SandboxInv, SandboxTyped, [SandboxNext]_sandboxVars PROVE SandboxTyped'
  OBVIOUS
<1>0. /\ machine \in [VmIds -> MachineRecord] /\ vms \in [Tasks -> VmIds \cup {NoVm}]
      /\ MachinesBounded /\ DestroyingBounded /\ OthersTyped
  BY DEF SandboxInv, SandboxShape, SandboxTyped
<1>1. ASSUME SameRuns(machine, machine'), destroying' = destroying, UNCHANGED <<useMock, overlap>>,
             commands' \subseteq VmIds
      PROVE  SandboxTyped'
  <2>1. MachinesBounded' /\ Fired' = Fired
    BY <1>0, <1>1, QuietMachines
  <2>2. DestroyingBounded'
    BY <1>0, <1>1, <2>1, SameDestroying
  <2>3. OthersTyped'
    BY <1>0, <1>1 DEF OthersTyped
  <2> QED
    BY <2>1, <2>2, <2>3 DEF SandboxTyped
<1>2. SameRuns(machine, machine)
  BY DEF SameRuns
<1>3. ASSUME NEW w \in VmIds, NEW x, machine' = [machine EXCEPT ![w].state = x]
      PROVE  SameRuns(machine, machine')
  BY <1>0, <1>3 DEF SameRuns, MachineRecord
<1>4. ASSUME NEW t \in Tasks, DestroyVM(t) PROVE SandboxTyped'
  <2>1. /\ vms[t] \in VmIds /\ machine' = [machine EXCEPT ![vms[t]].state = "stopped"]
        /\ destroying[t] < MaxDestroys /\ Destroyed(t) /\ UNCHANGED <<useMock, commands, overlap>>
    BY <1>0, <1>4 DEF DestroyVM, Destroyed, HasVm
  <2>2. SameRuns(machine, machine')
    BY <1>3, <2>1
  <2>3. MachinesBounded' /\ Fired' = Fired
    BY <1>0, <2>2, QuietMachines
  <2>4. Cardinality(Fired) <= Cardinality(Fired')
    BY <2>3, FiredFinite
  <2>5. DestroyingBounded'
    BY <1>0, <2>1, <2>4, MoreDestroying
  <2>6. OthersTyped'
    BY <1>0, <2>1 DEF OthersTyped
  <2> QED
    BY <2>3, <2>5, <2>6 DEF SandboxTyped
<1>5. ASSUME NEW t \in Tasks, DestroyEnds(t) PROVE SandboxTyped'
  <2>1. /\ destroying[t] > 0 /\ destroying' = [destroying EXCEPT ![t] = @ - 1]
        /\ UNCHANGED <<useMock, machine, commands, overlap>>
    BY <1>5 DEF DestroyEnds
  <2>2. MachinesBounded' /\ Fired' = Fired
    BY <1>0, <1>2, <2>1, QuietMachines
  <2>3. DestroyingBounded'
    <3>1. PICK k \in Nat : k = destroying[t] - 1 /\ k <= MaxDestroys + Cardinality(Fired)
      BY <1>0, <2>1, SandboxAssumption, FiredFinite DEF DestroyingBounded
    <3>2. destroying' = [destroying EXCEPT ![t] = k]
      BY <2>1, <3>1
    <3> QED
      BY <1>0, <2>2, <3>1, <3>2 DEF DestroyingBounded
  <2>4. OthersTyped'
    BY <1>0, <2>1 DEF OthersTyped
  <2> QED
    BY <2>2, <2>3, <2>4 DEF SandboxTyped
<1>6. ASSUME NEW t \in Tasks, ExecuteInVM(t) PROVE SandboxTyped'
  <2>1. PICK w \in VmIds : w = vms[t]
    BY <1>0, <1>6 DEF ExecuteInVM, HasVm
  <2>2. /\ machine[w].ran < MaxRuns /\ machine' = [machine EXCEPT ![w].ran = @ + 1]
        /\ commands' = commands \cup {w} /\ UNCHANGED <<useMock, destroying, overlap>>
    BY <1>6, <2>1 DEF ExecuteInVM
  <2>3. machine[w].ran \in Nat
    BY <1>0 DEF MachineRecord
  <2>4. PICK k \in Nat : k = machine[w].ran + 1 /\ k <= MaxRuns
    BY <2>2, <2>3, SandboxAssumption
  <2>5. \A q \in VmIds : /\ machine'[q].stage = machine[q].stage /\ machine'[q].timer = machine[q].timer
                         /\ machine'[q].ran = IF q = w THEN k ELSE machine[q].ran
    BY <1>0, <2>2, <2>4 DEF MachineRecord
  <2>6. MachinesBounded'
    BY <1>0, <2>4, <2>5 DEF MachinesBounded
  <2>7. Fired' = Fired
    BY <2>5 DEF Fired
  <2>8. DestroyingBounded' /\ OthersTyped'
    BY <1>0, <2>2, <2>7, SameDestroying DEF OthersTyped
  <2> QED
    BY <2>6, <2>8 DEF SandboxTyped
<1>7. ASSUME NEW v \in VmIds, NEW code \in {0, 1}, ProcessExits(v, code) PROVE SandboxTyped'
  <2>1. UNCHANGED <<useMock, destroying, commands, overlap>>
    BY <1>7 DEF ProcessExits
  <2>2. PICK m : m = [machine EXCEPT ![v].process = "dead"]
    OBVIOUS
  <2>3. m \in [VmIds -> MachineRecord] /\ SameRuns(machine, m)
    <3> DEFINE r == [machine[v] EXCEPT !.process = "dead"]
    <3>1. r \in MachineRecord /\ r.ran = machine[v].ran /\ r.stage = machine[v].stage /\ r.timer = machine[v].timer
      BY <1>0 DEF MachineRecord
    <3>2. m = [machine EXCEPT ![v] = r]
      BY <2>2
    <3> HIDE DEF r
    <3> QED
      BY <1>0, <3>1, <3>2 DEF SameRuns
  <2>4. machine[v].stage = "created" => machine[v].task \in Tasks
    BY DEF SandboxInv, SandboxShape
  <2>5. machine' = m \/ \E w \in VmIds, x \in {"stopped", "error"} : machine' = [m EXCEPT ![w].state = x]
    BY <1>0, <1>7, <2>2, <2>4 DEF ProcessExits, HasVm
  <2>6. ASSUME NEW w \in VmIds, NEW x \in {"stopped", "error"}, machine' = [m EXCEPT ![w].state = x]
        PROVE  SameRuns(machine, machine')
    <3>1. SameRuns(m, machine')
      BY <2>3, <2>6 DEF SameRuns, MachineRecord
    <3> QED
      BY <2>3, <3>1 DEF SameRuns
  <2>7. SameRuns(machine, machine')
    BY <2>3, <2>5, <2>6
  <2>8. commands' \subseteq VmIds
    BY <1>0, <2>1 DEF OthersTyped
  <2> QED
    BY <1>1, <2>1, <2>7, <2>8
<1>8. ASSUME NEW v \in VmIds, CommandEnds(v) PROVE SandboxTyped'
  BY <1>0, <1>1, <1>2, <1>8 DEF CommandEnds, OthersTyped
<1>9. CASE UNCHANGED sandboxVars
  BY <1>0, <1>1, <1>2, <1>9 DEF sandboxVars, OthersTyped
<1> QED
  BY <1>4, <1>5, <1>6, <1>7, <1>8, <1>9, CreateTyped, LaunchTyped, TimeoutTyped DEF SandboxNext

\* The vms of the sandbox manager keep their shape (sandbox/): none runs more than MaxRuns commands,
\* no more launches overlap than there are ids, and a task has no more destructions in progress than
\* were called for or timers have fired.
THEOREM SandboxTypeCorrect == SandboxSpec => []SandboxTypeOK
<1>1. ASSUME SandboxInit PROVE SandboxTyped
  <2>1. \A v \in VmIds : machine[v].ran = 0 /\ machine[v].stage = "none" /\ machine[v].timer = "none"
    BY <1>1 DEF SandboxInit, Undrawn
  <2>2. MachinesBounded
    BY <2>1, SandboxAssumption DEF MachinesBounded
  <2>3. DestroyingBounded
    BY <1>1, SandboxAssumption, FiredFinite DEF SandboxInit, DestroyingBounded
  <2>4. OthersTyped
    BY <1>1, FiredFinite DEF SandboxInit, OthersTyped
  <2> QED
    BY <2>2, <2>3, <2>4 DEF SandboxTyped
<1>2. ASSUME SandboxInv, SandboxTyped PROVE SandboxTypeOK
  <2>1. overlap \in 0..Cardinality(VmIds)
    BY <1>2, FiredFinite DEF SandboxInv, SandboxShape, SandboxTyped, OthersTyped
  <2>2. destroying \in [Tasks -> 0..MaxDestroys + Cardinality(VmIds)]
    <3>1. \A t \in Tasks : destroying[t] \in 0..MaxDestroys + Cardinality(VmIds)
      BY <1>2, FiredFinite, SandboxAssumption DEF SandboxTyped, DestroyingBounded
    <3> QED
      BY <1>2, <3>1 DEF SandboxTyped, DestroyingBounded
  <2>3. machine \in [VmIds -> [task : Tasks \cup {NoVm}, stage : {"none", "launching", "created", "failed"},
                               state : {"none", "running", "stopped", "error"},
                               process : {"none", "alive", "dead"},
                               timer : {"none", "pending", "fired"}, ran : 0..MaxRuns]]
    <3>1. ASSUME NEW v \in VmIds
          PROVE  machine[v] \in [task : Tasks \cup {NoVm}, stage : {"none", "launching", "created", "failed"},
                                 state : {"none", "running", "stopped", "error"},
                                 process : {"none", "alive", "dead"},
                                 timer : {"none", "pending", "fired"}, ran : 0..MaxRuns]
      <4>1. machine[v] \in MachineRecord /\ machine[v].ran <= MaxRuns
        BY <1>2 DEF SandboxInv, SandboxShape, SandboxTyped, MachinesBounded
      <4>2. machine[v].ran \in 0..MaxRuns
        BY <4>1, SandboxAssumption DEF MachineRecord
      <4> QED
        BY <4>1, <4>2 DEF MachineRecord
    <3> QED
      BY <1>2, <3>1 DEF SandboxInv, SandboxShape
  <2> QED
    BY <1>2, <2>1, <2>2, <2>3 DEF SandboxInv, SandboxShape, SandboxTyped, OthersTyped, SandboxTypeOK
<1> QED
  BY <1>1, <1>2, SandboxInvariant, SandboxTypedStep, PTL DEF SandboxSpec

-----------------------------------------------------------------------------
(***************************************************************************)
(* Jailer.  A GPU leaves boundDevices only when a VM that named it is      *)
(* stopped, and a VM keeps its GPU and stays stopped for ever, so that     *)
(* BoundAsNamed is inductive beside the types; on hardware a GPU that is   *)
(* bound stays with vfio-pci because only a failed binding takes one away, *)
(* and that is tried for GPUs that are not bound.                          *)
(***************************************************************************)
Holding(j) == jails[j].status \in {"creating", "running"} /\ jails[j].gpu \in Gpus \ bound

JailerInv ==
  /\ JailerTypeOK
  /\ \A j \in Jails : Holding(j) => \E k \in Jails \ {j} : jails[k].gpu = jails[j].gpu /\ jails[k].stopped
  /\ \A g \in bound \ direct : \E j \in Jails : jails[j].gpu = g /\ ~jails[j].stopped
  /\ simulationMode \/ bound \subseteq onHost

\* A VM goes on: it keeps its GPU and is no more stopped than before.
THEOREM JailGoesOn ==
  ASSUME JailerInv, NEW j \in Jails, NEW r \in JailType,
         jails' = [jails EXCEPT ![j] = r], UNCHANGED <<simulationMode, bound, onHost, direct>>,
         cleaning' \in BOOLEAN,
         r.gpu = jails[j].gpu, r.stopped = jails[j].stopped,
         r.status \in {"creating", "running"} => jails[j].status \in {"creating", "running"}
  PROVE  JailerInv'
<1>1. JailerTypeOK'
  BY DEF JailerInv, JailerTypeOK
<1>2. \A k \in Jails : /\ jails'[k].gpu = jails[k].gpu /\ jails'[k].stopped = jails[k].stopped
                       /\ jails'[k].status \in {"creating", "running"} =>
                            jails[k].status \in {"creating", "running"}
  BY DEF JailerInv, JailerTypeOK
<1>3. \A k \in Jails : Holding(k)' => Holding(k)
  BY <1>2 DEF Holding
<1>4. ASSUME NEW k \in Jails, Holding(k)'
      PROVE  \E q \in Jails \ {k} : jails'[q].gpu = jails'[k].gpu /\ jails'[q].stopped
  BY <1>2, <1>3, <1>4 DEF JailerInv
<1>5. ASSUME NEW g \in bound \ direct PROVE \E q \in Jails : jails'[q].gpu = g /\ ~jails'[q].stopped
  BY <1>2 DEF JailerInv
<1> QED
  BY <1>1, <1>4, <1>5 DEF JailerInv

LEMMA StopVMStep ==
  ASSUME JailerInv, NEW j \in Jails, StopVM(j)
  PROVE  JailerInv'
<1> DEFINE process == IF jails[j].handled /\ jails[j].process = "alive" THEN "signalled" ELSE jails[j].process
           r == [jails[j] EXCEPT !.status = "stopped", !.stopped = TRUE, !.handled = FALSE,
                                 !.process = process]
           g == jails[j].gpu
<1>1. jails[j] \in JailType
  BY DEF JailerInv, JailerTypeOK
<1>2. process \in {"none", "alive", "signalled", "dead"}
  BY <1>1 DEF JailType
<1>3. jails' = [jails EXCEPT ![j] = r] /\ bound' = bound \ {g} /\ UNCHANGED <<simulationMode, onHost, cleaning, direct>>
  BY DEF StopVM, JailStopped
<1> HIDE DEF process
<1>4. r \in JailType /\ r.status = "stopped" /\ r.stopped /\ r.gpu = g
  BY <1>1, <1>2 DEF JailType
<1> HIDE DEF r, g
<1>5. jails'[j] = r /\ \A k \in Jails : k # j => jails'[k] = jails[k]
  BY <1>3 DEF JailerInv, JailerTypeOK
<1>6. JailerTypeOK'
  BY <1>3, <1>4 DEF JailerInv, JailerTypeOK
<1>7. ASSUME NEW k \in Jails, Holding(k)'
      PROVE  \E q \in Jails \ {k} : jails'[q].gpu = jails'[k].gpu /\ jails'[q].stopped
  <2>1. k # j /\ jails'[k] = jails[k]
    BY <1>4, <1>5, <1>7 DEF Holding
  <2>2. CASE jails[k].gpu = g
    BY <1>4, <1>5, <2>1, <2>2
  <2>3. CASE jails[k].gpu # g
    <3>1. Holding(k)
      BY <1>3, <1>7, <2>1, <2>3 DEF Holding
    <3>2. PICK q \in Jails \ {k} : jails[q].gpu = jails[k].gpu /\ jails[q].stopped
      BY <3>1 DEF JailerInv
    <3>3. jails'[q].stopped /\ jails'[q].gpu = jails[q].gpu
      BY <1>4, <1>5, <3>2 DEF g
    <3> QED
      BY <2>1, <3>2, <3>3
  <2> QED
    BY <2>2, <2>3
<1>8. ASSUME NEW h \in bound' \ direct PROVE \E q \in Jails : jails'[q].gpu = h /\ ~jails'[q].stopped
  <2>1. h \in bound \ direct /\ h # g
    BY <1>3
  <2>2. PICK q \in Jails : jails[q].gpu = h /\ ~jails[q].stopped
    BY <2>1 DEF JailerInv
  <2>3. q # j
    BY <2>1, <2>2 DEF g
  <2> QED
    BY <1>5, <2>2, <2>3
<1>9. simulationMode' \/ bound' \subseteq onHost'
  BY <1>3 DEF JailerInv
<1> QED
  BY <1>3, <1>6, <1>7, <1>8, <1>9 DEF JailerInv

\* What a creation makes of its entry, and of the GPU it names.
LEMMA CreateMicroVMStep ==
  ASSUME JailerInv, NEW j \in Jails, NEW g \in Gpus \cup {NoGpu}, NEW ok \in BOOLEAN,
         CreateMicroVM(j, g, ok)
  PROVE  JailerInv'
<1>1. NoJail \in JailType /\ NoJail.stopped = FALSE /\ NoJail.status = "none" /\ NoJail.gpu = NoGpu
  BY DEF NoJail, JailType
<1>2. PICK r \in JailType :
        /\ jails' = [jails EXCEPT ![j] = r] /\ r.gpu = g /\ ~r.stopped
        /\ ~ok => r.status = "failed"
  <2> DEFINE jail == [NoJail EXCEPT !.gpu = g, !.status = IF ok THEN "creating" ELSE "failed"]
             r == IF ok /\ g = NoGpu THEN Running(jail) ELSE jail
  <2>1. /\ jail \in JailType /\ jail.gpu = g /\ ~jail.stopped
        /\ ~ok => jail.status = "failed"
    BY DEF NoJail, JailType
  <2>2. simulationMode \in BOOLEAN
    BY DEF JailerInv, JailerTypeOK
  <2>3. jails' = [jails EXCEPT ![j] = r]
    BY DEF CreateMicroVM
  <2> HIDE DEF jail
  <2>4. Running(jail) \in JailType /\ Running(jail).gpu = g /\ ~Running(jail).stopped
    BY <2>1, <2>2 DEF Running, JailType
  <2> QED
    BY <2>1, <2>3, <2>4
<1>3. /\ UNCHANGED <<simulationMode, cleaning, direct>> /\ jails[j] = NoJail
      /\ bound \subseteq bound' /\ bound' \subseteq bound \cup ({g} \cap Gpus)
      /\ ok /\ g \in Gpus => g \in bound'
      /\ onHost' \subseteq Gpus
      /\ simulationMode \/ bound' \subseteq onHost'
  <2>1. JailerTypeOK /\ (simulationMode \/ bound \subseteq onHost)
    BY DEF JailerInv
  <2>2. CASE g = NoGpu
    BY <2>1, <2>2, JailerAssumption DEF CreateMicroVM, JailerTypeOK
  <2>3. CASE g # NoGpu
    <3>1. BindVFIO(g, ok) /\ UNCHANGED <<simulationMode, cleaning, direct>> /\ jails[j] = NoJail
      BY <2>3 DEF CreateMicroVM
    <3> QED
      BY <2>1, <2>3, <3>1 DEF BindVFIO, JailerTypeOK
  <2> QED
    BY <2>2, <2>3
<1>4. jails'[j] = r /\ \A k \in Jails : k # j => jails'[k] = jails[k]
  BY <1>2 DEF JailerInv, JailerTypeOK
<1>5. JailerTypeOK'
  BY <1>2, <1>3 DEF JailerInv, JailerTypeOK
<1>6. ASSUME NEW k \in Jails, Holding(k)'
      PROVE  \E q \in Jails \ {k} : jails'[q].gpu = jails'[k].gpu /\ jails'[q].stopped
  <2>1. k # j
    BY <1>2, <1>3, <1>4, <1>6 DEF Holding
  <2>2. Holding(k)
    BY <1>3, <1>4, <1>6, <2>1 DEF Holding
  <2>3. PICK q \in Jails \ {k} : jails[q].gpu = jails[k].gpu /\ jails[q].stopped
    BY <2>2 DEF JailerInv
  <2>4. q # j
    BY <1>1, <1>3, <2>3
  <2> QED
    BY <1>4, <2>1, <2>3, <2>4
<1>7. ASSUME NEW h \in bound' \ direct PROVE \E q \in Jails : jails'[q].gpu = h /\ ~jails'[q].stopped
  <2>1. CASE h = g
    BY <1>2, <1>4, <2>1
  <2>2. CASE h # g
    <3>1. h \in bound \ direct
      BY <1>3, <2>2
    <3>2. PICK q \in Jails : jails[q].gpu = h /\ ~jails[q].stopped
      BY <3>1 DEF JailerInv
    <3>3. h # NoGpu
      BY <3>1, JailerAssumption DEF JailerInv, JailerTypeOK
    <3>4. q # j
      BY <1>1, <1>3, <3>2, <3>3
    <3> QED
      BY <1>4, <3>2, <3>4
  <2> QED
    BY <2>1, <2>2
<1> QED
  BY <1>3, <1>5, <1>6, <1>7 DEF JailerInv

LEMMA JailerStepInv == JailerInv /\ [JailerNext]_jailerVars => JailerInv'
<1> SUFFICES ASSUME JailerInv, [JailerNext]_jailerVars PROVE JailerInv'
  OBVIOUS
<1>0. ASSUME NEW j \in Jails PROVE jails[j] \in JailType /\ simulationMode \in BOOLEAN
  BY DEF JailerInv, JailerTypeOK
<1>1. ASSUME UNCHANGED <<simulationMode, jails, bound, onHost, direct>>, cleaning' \in BOOLEAN PROVE JailerInv'
  BY <1>1 DEF JailerInv, JailerTypeOK, Holding
<1>2. ASSUME NEW j \in Jails, VMCreated(j) PROVE JailerInv'
  <2> DEFINE r == Running(jails[j])
  <2>1. r \in JailType /\ r.gpu = jails[j].gpu /\ r.stopped = jails[j].stopped
    BY <1>0 DEF Running, JailType
  <2>2. /\ jails' = [jails EXCEPT ![j] = r] /\ UNCHANGED <<simulationMode, bound, onHost, cleaning, direct>>
        /\ jails[j].status = "creating"
    BY <1>2 DEF VMCreated
  <2>3. cleaning' \in BOOLEAN
    BY <2>2 DEF JailerInv, JailerTypeOK
  <2> HIDE DEF r
  <2> QED
    BY <2>1, <2>2, <2>3, JailGoesOn
<1>3. ASSUME NEW j \in Jails, CreateThrows(j) PROVE JailerInv'
  <2> DEFINE r == [jails[j] EXCEPT !.status = "failed"]
  <2>1. /\ r \in JailType /\ r.gpu = jails[j].gpu /\ r.stopped = jails[j].stopped
        /\ r.status = "failed"
    BY <1>0 DEF JailType
  <2>2. /\ jails' = [jails EXCEPT ![j] = r] /\ UNCHANGED <<simulationMode, bound, onHost, cleaning, direct>>
    BY <1>3 DEF CreateThrows
  <2>3. cleaning' \in BOOLEAN
    BY <2>2 DEF JailerInv, JailerTypeOK
  <2> HIDE DEF r
  <2> QED
    BY <2>1, <2>2, <2>3, JailGoesOn
<1>4. ASSUME NEW j \in Jails, NEW code \in {0, 1}, JailProcessEnds(j, code) PROVE JailerInv'
  <2> DEFINE status == IF code = 0 THEN jails[j].status ELSE "error"
             r == [jails[j] EXCEPT !.process = "dead", !.status = status]
  <2>1. jails' = [jails EXCEPT ![j] = r] /\ UNCHANGED <<simulationMode, bound, onHost, cleaning, direct>>
    BY <1>4 DEF JailProcessEnds
  <2>2. /\ status \in {"none", "creating", "failed", "running", "stopped", "error"}
        /\ status \in {"creating", "running"} => jails[j].status \in {"creating", "running"}
    BY <1>0 DEF JailType
  <2> HIDE DEF status
  <2>3. r \in JailType /\ r.gpu = jails[j].gpu /\ r.stopped = jails[j].stopped /\ r.status = status
    BY <1>0, <2>2 DEF JailType
  <2>4. cleaning' \in BOOLEAN
    BY <2>1 DEF JailerInv, JailerTypeOK
  <2> HIDE DEF r
  <2> QED
    BY <2>1, <2>2, <2>3, <2>4, JailGoesOn
<1>5. CASE CleanupBegins \/ CleanupEnds \/ UNCHANGED jailerVars
  BY <1>1, <1>5 DEF CleanupBegins, CleanupEnds, jailerVars, JailerInv, JailerTypeOK
<1>6. \A j \in Jails : CleanupStops(j) => StopVM(j)
  BY DEF CleanupStops
<1>7. ASSUME NEW g \in Gpus, NEW ok \in BOOLEAN, BindDirectly(g, ok) PROVE JailerInv'
  <2>1. /\ UNCHANGED <<simulationMode, jails, cleaning>> /\ direct' = direct \cup {g}
        /\ bound \subseteq bound' /\ bound' \subseteq bound \cup {g}
        /\ onHost' \subseteq Gpus
        /\ simulationMode \/ bound' \subseteq onHost'
    BY <1>7 DEF BindDirectly, BindVFIO, JailerInv, JailerTypeOK
  <2> QED
    BY <2>1 DEF JailerInv, JailerTypeOK, Holding
<1> QED
  BY <1>2, <1>3, <1>4, <1>5, <1>6, <1>7, StopVMStep, CreateMicroVMStep DEF JailerNext

LEMMA JailerInitInv == JailerInit => JailerInv
<1>1. NoJail \in JailType /\ NoJail.status = "none"
  BY DEF NoJail, JailType
<1> QED
  BY <1>1 DEF JailerInit, JailerInv, JailerTypeOK, Holding

LEMMA JailerInvariant == JailerSpec => []JailerInv
BY JailerInitInv, JailerStepInv, PTL DEF JailerSpec

\* bindVFIO counts a GPU as bound whoever has it, and stopVM forgets it whoever else has it: a
\* running VM has lost its GPU only to the end of another VM with the same GPU, a GPU stays bound
\* only for a VM nobody has stopped or because somebody bound it directly, and on hardware vfio-pci has every GPU that is counted.
THEOREM BoundAsNamedAlways == JailerSpec => []BoundAsNamed
<1>1. JailerInv => BoundAsNamed
  BY DEF JailerInv, JailerTypeOK, Holding, BoundAsNamed, VerifyPassthrough
<1> QED
  BY <1>1, JailerInvariant, PTL

\* The jailer keeps its shape (vm/jailer.ts): only GPUs are bound, and only GPUs are on the host.
THEOREM JailerTypeCorrect == JailerSpec => []JailerTypeOK
<1>1. JailerInv => JailerTypeOK
  BY DEF JailerInv
<1> QED
  BY <1>1, JailerInvariant, PTL

-----------------------------------------------------------------------------
(***************************************************************************)
(* Firecracker.  What forgets an id late, the timer of an eviction or the  *)
(* end of an unregistration, was begun for a process of that id: the timer *)
(* is that process's own, and the unregistration's was dismissed.          *)
(***************************************************************************)
FirecrackerShape ==
  /\ activeVMs \in [Guests -> Pids \cup {NoPid}] /\ guestOf \in [Pids -> Guests \cup {NoPid}]
  /\ running \subseteq Pids /\ dismissed \subseteq Pids
  /\ evicting \in [Guests -> [Pids -> Nat]] /\ closing \in [Guests -> Nat]

RunningIsKnown == \A p \in running : guestOf[p] # NoPid
TrackedIsOf == \A v \in Guests : Tracked(v) => guestOf[activeVMs[v]] = v
EvictedIsOf == \A v \in Guests, p \in Pids : evicting[v][p] > 0 => guestOf[p] = v
ClosedWasDismissed == \A v \in Guests : closing[v] > 0 => \E p \in dismissed : guestOf[p] = v

FirecrackerInv ==
  /\ FirecrackerShape /\ RunningIsKnown /\ TrackedIsOf /\ EvictedIsOf /\ ClosedWasDismissed
  /\ TrackedUntilGone

\* No registration, and every process that runs has its entry or a reason to have none.
THEOREM NoRegistration ==
  ASSUME FirecrackerInv, FirecrackerShape', guestOf' = guestOf,
         running' \subseteq running, dismissed \subseteq dismissed',
         \A v \in Guests : activeVMs'[v] \in {activeVMs[v], NoPid},
         EvictedIsOf', ClosedWasDismissed',
         \A p \in running' : activeVMs[guestOf[p]] = p =>
           activeVMs'[guestOf[p]] = p \/ p \in dismissed' \/ \E q \in Pids \ {p} : guestOf[q] = guestOf[p]
  PROVE  FirecrackerInv'
<1>1. RunningIsKnown'
  BY DEF FirecrackerInv, RunningIsKnown
<1>2. TrackedIsOf'
  BY DEF FirecrackerInv, TrackedIsOf, Tracked
<1>3. TrackedUntilGone'
  BY DEF FirecrackerInv, TrackedUntilGone
<1> QED
  BY <1>1, <1>2, <1>3 DEF FirecrackerInv

LEMMA RegisterVMStep ==
  ASSUME FirecrackerInv, NEW v \in Guests, NEW p \in Pids, RegisterVM(v, p)
  PROVE  FirecrackerInv'
<1> USE FirecrackerAssumption
<1>1. /\ activeVMs' = [activeVMs EXCEPT ![v] = p] /\ guestOf' = [guestOf EXCEPT ![p] = v]
      /\ running' = running \cup {p} /\ guestOf[p] = NoPid
      /\ UNCHANGED <<evicting, closing, dismissed>>
  BY DEF RegisterVM
<1>2. FirecrackerShape'
  BY <1>1 DEF FirecrackerInv, FirecrackerShape
<1>3. guestOf'[p] = v /\ (\A q \in Pids : q # p => guestOf'[q] = guestOf[q])
  BY <1>1 DEF FirecrackerInv, FirecrackerShape
<1>4. activeVMs'[v] = p /\ (\A w \in Guests : w # v => activeVMs'[w] = activeVMs[w])
  BY <1>1 DEF FirecrackerInv, FirecrackerShape
<1>5. RunningIsKnown'
  BY <1>1, <1>3 DEF FirecrackerInv, FirecrackerShape, RunningIsKnown
<1>6. TrackedIsOf'
  <2> SUFFICES ASSUME NEW w \in Guests, Tracked(w)' PROVE guestOf'[activeVMs'[w]] = w
    BY DEF TrackedIsOf
  <2>1. CASE w = v
    BY <1>3, <1>4, <2>1
  <2>2. CASE w # v
    <3>1. activeVMs'[w] = activeVMs[w] /\ Tracked(w) /\ activeVMs[w] \in Pids
      BY <1>4, <2>2 DEF Tracked, FirecrackerInv, FirecrackerShape
    <3>2. guestOf[activeVMs[w]] = w
      BY <3>1 DEF FirecrackerInv, TrackedIsOf
    <3>3. activeVMs[w] # p
      BY <1>1, <3>2
    <3> QED
      BY <1>3, <3>1, <3>2, <3>3
  <2> QED
    BY <2>1, <2>2
<1>7. EvictedIsOf'
  BY <1>1, <1>3 DEF FirecrackerInv, FirecrackerShape, EvictedIsOf
<1>8. ClosedWasDismissed'
  <2> SUFFICES ASSUME NEW w \in Guests, closing[w] > 0 PROVE \E q \in dismissed : guestOf'[q] = w
    BY <1>1 DEF ClosedWasDismissed
  <2>1. PICK q \in dismissed : guestOf[q] = w
    BY DEF FirecrackerInv, ClosedWasDismissed
  <2>2. q \in Pids /\ q # p
    BY <1>1, <2>1 DEF FirecrackerInv, FirecrackerShape
  <2> QED
    BY <1>3, <2>1, <2>2
<1>9. TrackedUntilGone'
  <2> SUFFICES ASSUME NEW r \in running'
               PROVE  activeVMs'[guestOf'[r]] = r \/ r \in dismissed'
                      \/ \E q \in Pids \ {r} : guestOf'[q] = guestOf'[r]
    BY DEF TrackedUntilGone
  <2>1. CASE r = p
    BY <1>3, <1>4, <2>1
  <2>2. CASE r # p
    <3>1. r \in running /\ r \in Pids /\ guestOf'[r] = guestOf[r]
      BY <1>1, <1>3, <2>2 DEF FirecrackerInv, FirecrackerShape
    <3>2. guestOf[r] \in Guests
      BY <3>1 DEF FirecrackerInv, FirecrackerShape, RunningIsKnown
    <3>3. CASE guestOf[r] = v
      BY <1>3, <2>2, <3>1, <3>3
    <3>4. CASE guestOf[r] # v
      <4>1. activeVMs'[guestOf[r]] = activeVMs[guestOf[r]]
        BY <1>4, <3>2, <3>4
      <4>2. CASE activeVMs[guestOf[r]] = r \/ r \in dismissed
        BY <1>1, <3>1, <4>1, <4>2
      <4>3. CASE \E q \in Pids \ {r} : guestOf[q] = guestOf[r]
        <5>1. PICK q \in Pids \ {r} : guestOf[q] = guestOf[r]
          BY <4>3
        <5>2. q # p
          BY <1>1, <3>2, <5>1
        <5> QED
          BY <1>3, <3>1, <5>1, <5>2
      <4> QED
        BY <3>1, <4>2, <4>3 DEF FirecrackerInv, TrackedUntilGone
    <3> QED
      BY <3>3, <3>4
  <2> QED
    BY <2>1, <2>2
<1> QED
  BY <1>2, <1>5, <1>6, <1>7, <1>8, <1>9 DEF FirecrackerInv

\* One timer less.
LEMMA EvictingLess ==
  ASSUME FirecrackerShape, NEW v \in Guests, NEW p \in Pids, evicting[v][p] > 0,
         evicting' = [evicting EXCEPT ![v][p] = @ - 1]
  PROVE  /\ evicting' \in [Guests -> [Pids -> Nat]]
         /\ \A w \in Guests, q \in Pids : evicting'[w][q] > 0 => evicting[w][q] > 0
<1>1. evicting[v] \in [Pids -> Nat] /\ evicting[v][p] \in Nat
  BY DEF FirecrackerShape
<1> DEFINE k == evicting[v][p] - 1
           f == [evicting[v] EXCEPT ![p] = k]
<1>2. k \in Nat /\ evicting' = [evicting EXCEPT ![v] = f]
  BY <1>1
<1> HIDE DEF k
<1>3. f \in [Pids -> Nat] /\ \A q \in Pids : f[q] > 0 => evicting[v][q] > 0
  BY <1>1, <1>2
<1> HIDE DEF f
<1> QED
  BY <1>2, <1>3 DEF FirecrackerShape

LEMMA FirecrackerStepInv == FirecrackerInv /\ [FirecrackerNext]_firecrackerVars => FirecrackerInv'
<1> SUFFICES ASSUME FirecrackerInv, [FirecrackerNext]_firecrackerVars PROVE FirecrackerInv'
  OBVIOUS
<1> USE FirecrackerAssumption
<1>0. /\ FirecrackerShape /\ EvictedIsOf /\ ClosedWasDismissed
      /\ \A v \in Guests : Tracked(v) => activeVMs[v] \in Pids /\ guestOf[activeVMs[v]] = v
  BY DEF FirecrackerInv, TrackedIsOf, Tracked, FirecrackerShape
<1>1. ASSUME guestOf' = guestOf, running' \subseteq running, UNCHANGED <<activeVMs, evicting, closing, dismissed>>
      PROVE  FirecrackerInv'
  <2>1. FirecrackerShape' /\ EvictedIsOf' /\ ClosedWasDismissed'
    BY <1>0, <1>1 DEF FirecrackerShape, EvictedIsOf, ClosedWasDismissed
  <2> QED
    BY <1>1, <2>1, NoRegistration
<1>2. ASSUME NEW v \in Guests, EvictNext(v) PROVE FirecrackerInv'
  <2>1. CASE Tracked(v) /\ activeVMs[v] \in running
    <3>1. PICK p \in Pids : p = activeVMs[v]
      BY <1>0, <2>1
    <3>2. /\ evicting' = [evicting EXCEPT ![v][p] = @ + 1] /\ UNCHANGED <<guestOf, running, activeVMs, closing, dismissed>>
          /\ guestOf[p] = v
      BY <1>0, <1>2, <2>1, <3>1 DEF EvictNext
    <3>3. /\ evicting' \in [Guests -> [Pids -> Nat]]
          /\ \A w \in Guests, q \in Pids : (w # v \/ q # p) => evicting'[w][q] = evicting[w][q]
      <4>1. evicting[v] \in [Pids -> Nat] /\ evicting[v][p] \in Nat
        BY <1>0 DEF FirecrackerShape
      <4> DEFINE k == evicting[v][p] + 1
                 f == [evicting[v] EXCEPT ![p] = k]
      <4>2. k \in Nat /\ evicting' = [evicting EXCEPT ![v] = f]
        BY <3>2, <4>1
      <4> HIDE DEF k
      <4>3. f \in [Pids -> Nat] /\ \A q \in Pids : q # p => f[q] = evicting[v][q]
        BY <4>1, <4>2
      <4> HIDE DEF f
      <4> QED
        BY <1>0, <4>2, <4>3 DEF FirecrackerShape
    <3>4. FirecrackerShape' /\ ClosedWasDismissed'
      BY <1>0, <3>2, <3>3 DEF FirecrackerShape, ClosedWasDismissed
    <3>5. EvictedIsOf'
      BY <1>0, <3>2, <3>3 DEF EvictedIsOf
    <3> QED
      BY <3>2, <3>4, <3>5, NoRegistration
  <2>2. CASE ~(Tracked(v) /\ activeVMs[v] \in running)
    BY <1>1, <1>2, <2>2 DEF EvictNext
  <2> QED
    BY <2>1, <2>2
<1>3. ASSUME NEW v \in Guests, NEW p \in Pids, EvictionTimer(v, p) PROVE FirecrackerInv'
  <2>1. /\ evicting[v][p] > 0 /\ evicting' = [evicting EXCEPT ![v][p] = @ - 1]
        /\ running' = running \ {p} /\ activeVMs' = [activeVMs EXCEPT ![v] = NoPid]
        /\ UNCHANGED <<guestOf, closing, dismissed>>
    BY <1>3 DEF EvictionTimer
  <2>2. /\ evicting' \in [Guests -> [Pids -> Nat]]
        /\ \A w \in Guests, q \in Pids : evicting'[w][q] > 0 => evicting[w][q] > 0
    BY <1>0, <2>1, EvictingLess
  <2>3. FirecrackerShape' /\ ClosedWasDismissed' /\ EvictedIsOf'
    BY <1>0, <2>1, <2>2 DEF FirecrackerShape, ClosedWasDismissed, EvictedIsOf
  <2>4. /\ \A w \in Guests : activeVMs'[w] \in {activeVMs[w], NoPid}
        /\ \A w \in Guests \ {v} : activeVMs'[w] = activeVMs[w]
    BY <1>0, <2>1 DEF FirecrackerShape
  <2>5. guestOf[p] = v
    BY <1>0, <2>1 DEF EvictedIsOf
  <2>6. ASSUME NEW r \in running'
        PROVE  activeVMs'[guestOf[r]] = activeVMs[guestOf[r]] \/ \E q \in Pids \ {r} : guestOf[q] = guestOf[r]
    <3>1. r # p /\ guestOf[r] \in Guests
      BY <2>1, <2>6 DEF FirecrackerInv, FirecrackerShape, RunningIsKnown
    <3> QED
      BY <2>4, <2>5, <3>1
  <2> QED
    BY <2>1, <2>3, <2>4, <2>6, NoRegistration
<1>4. ASSUME NEW v \in Guests, UnregisterVM(v) PROVE FirecrackerInv'
  <2> DEFINE p == activeVMs[v]
  <2>1. /\ Tracked(v) /\ closing' = [closing EXCEPT ![v] = @ + 1] /\ dismissed' = dismissed \cup {p}
        /\ UNCHANGED <<activeVMs, guestOf, running, evicting>>
    BY <1>4 DEF UnregisterVM
  <2>2. p \in Pids /\ guestOf[p] = v
    BY <1>0, <2>1
  <2> HIDE DEF p
  <2>3. FirecrackerShape' /\ EvictedIsOf'
    BY <1>0, <2>1, <2>2 DEF FirecrackerShape, EvictedIsOf
  <2>4. ClosedWasDismissed'
    BY <1>0, <2>1, <2>2 DEF FirecrackerShape, ClosedWasDismissed
  <2> QED
    BY <2>1, <2>3, <2>4, NoRegistration
<1>5. ASSUME NEW v \in Guests, UnregisterEnds(v) PROVE FirecrackerInv'
  <2>1. /\ closing[v] > 0 /\ closing' = [closing EXCEPT ![v] = @ - 1]
        /\ activeVMs' = [activeVMs EXCEPT ![v] = NoPid]
        /\ UNCHANGED <<guestOf, running, evicting, dismissed>>
    BY <1>5 DEF UnregisterEnds
  <2>2. closing' \in [Guests -> Nat] /\ \A w \in Guests : closing'[w] > 0 => closing[w] > 0
    BY <1>0, <2>1 DEF FirecrackerShape
  <2>3. FirecrackerShape' /\ ClosedWasDismissed' /\ EvictedIsOf'
    BY <1>0, <2>1, <2>2 DEF FirecrackerShape, ClosedWasDismissed, EvictedIsOf
  <2>4. /\ \A w \in Guests : activeVMs'[w] \in {activeVMs[w], NoPid}
        /\ \A w \in Guests \ {v} : activeVMs'[w] = activeVMs[w]
    BY <1>0, <2>1 DEF FirecrackerShape
  <2>5. PICK d \in dismissed : guestOf[d] = v
    BY <1>0, <2>1 DEF ClosedWasDismissed
  <2>6. d \in Pids
    BY <1>0 DEF FirecrackerShape
  <2>7. ASSUME NEW r \in running
        PROVE  activeVMs'[guestOf[r]] = activeVMs[guestOf[r]] \/ r \in dismissed
               \/ \E q \in Pids \ {r} : guestOf[q] = guestOf[r]
    <3>1. guestOf[r] \in Guests
      BY DEF FirecrackerInv, FirecrackerShape, RunningIsKnown
    <3> QED
      BY <2>4, <2>5, <2>6, <3>1
  <2> QED
    BY <2>1, <2>3, <2>4, <2>7, NoRegistration
<1>6. ASSUME NEW v \in Guests, EnforceResourceLimits(v) PROVE FirecrackerInv'
  BY <1>1, <1>6 DEF EnforceResourceLimits
<1>7. ASSUME NEW p \in Pids, GuestEnds(p) \/ DeadlinePasses(p) PROVE FirecrackerInv'
  BY <1>1, <1>7 DEF GuestEnds, DeadlinePasses
<1>8. ASSUME NEW idle \in SUBSET Guests, EvictIdleVMs(idle) \/ \E max \in Limits : EnforceVMLimit(max, idle)
      PROVE  FirecrackerInv'
  BY <1>1, <1>8 DEF EvictIdleVMs, EnforceVMLimit
<1>9. CASE UNCHANGED firecrackerVars
  BY <1>1, <1>9 DEF firecrackerVars
<1> QED
  BY <1>2, <1>3, <1>4, <1>5, <1>6, <1>7, <1>8, <1>9, RegisterVMStep DEF FirecrackerNext

LEMMA FirecrackerInitInv == FirecrackerInit => FirecrackerInv
BY FirecrackerAssumption
   DEF FirecrackerInit, FirecrackerInv, FirecrackerShape, RunningIsKnown, TrackedIsOf, EvictedIsOf,
       ClosedWasDismissed, TrackedUntilGone, Tracked

LEMMA FirecrackerInvariant == FirecrackerSpec => []FirecrackerInv
BY FirecrackerInitInv, FirecrackerStepInv, PTL DEF FirecrackerSpec

\* evictIdleVMs forgets an id five seconds after the signal and unregisterVM after its clean-up,
\* by id: a process that still runs has lost its entry only to its own unregistration or to
\* another process of its id.
THEOREM TrackedUntilGoneAlways == FirecrackerSpec => []TrackedUntilGone
<1>1. FirecrackerInv => TrackedUntilGone
  BY DEF FirecrackerInv
<1> QED
  BY <1>1, FirecrackerInvariant, PTL

\* What FirecrackerInv leaves open: the bound on what is in progress for an id, where a signal
\* only turns an eviction that has still to come into a timer.
Timers(v) == SumOver(evicting[v], Pids)
Pending(v) == toEvict[v] + closing[v] + Timers(v)

FirecrackerTyped ==
  /\ vmLimit \in Limits /\ toEvict \in [Guests -> Nat] /\ deadlines \subseteq Pids
  /\ \A v \in Guests : Pending(v) <= MaxAtOnce

LEMMA TimersAreAdded ==
  ASSUME NEW f
  PROVE  MapThenSumSet(LAMBDA p : f[p], Pids) = SumOver(f, Pids)
BY DEF MapThenSumSet, MapThenFoldSet, SumOver, AddsUp, Picked

LEMMA InProgressIsPending == ASSUME NEW v PROVE InProgress(v) = Pending(v)
<1> DEFINE f == evicting[v]
<1>1. InProgress(v) = toEvict[v] + closing[v] + MapThenSumSet(LAMBDA p : f[p], Pids)
  BY DEF InProgress
<1>2. Pending(v) = toEvict[v] + closing[v] + SumOver(f, Pids)
  BY DEF Pending, Timers
<1> HIDE DEF f
<1> QED
  BY <1>1, <1>2, TimersAreAdded

\* One entry of a function changed, its sum changes by as much.
LEMMA OneTimer ==
  ASSUME NEW f \in [Pids -> Nat], NEW p \in Pids, NEW k \in Nat
  PROVE  /\ SumOver(f, Pids) \in Nat /\ SumOver([f EXCEPT ![p] = k], Pids) \in Nat
         /\ SumOver([f EXCEPT ![p] = k], Pids) + f[p] = SumOver(f, Pids) + k
<1> DEFINE g == [f EXCEPT ![p] = k]
<1>1. /\ g[p] = k /\ \A q \in Pids \ {p} : f[q] = g[q]
      /\ \A q \in Pids : f[q] \in Nat /\ g[q] \in Nat
  OBVIOUS
<1> HIDE DEF g
<1>2. IsFiniteSet(Pids) /\ IsFiniteSet(Pids \ {p})
  BY FirecrackerAssumption, FS_Subset
<1>3. /\ SumOver(f, Pids) = f[p] + SumOver(f, Pids \ {p})
      /\ SumOver(g, Pids) = g[p] + SumOver(g, Pids \ {p})
  BY <1>1, <1>2, SumRemove
<1>4. SumOver(f, Pids \ {p}) = SumOver(g, Pids \ {p})
  BY <1>1, <1>2, SumSame
<1>5. SumOver(f, Pids \ {p}) \in Nat
  BY <1>1, <1>2, SumType
<1>6. SumOver(f, Pids) \in Nat /\ SumOver(g, Pids) \in Nat /\ SumOver(g, Pids) + f[p] = SumOver(f, Pids) + k
  BY <1>1, <1>3, <1>4, <1>5
<1> QED
  BY <1>6 DEF g

LEMMA TimersCount == FirecrackerShape => \A v \in Guests : Timers(v) \in Nat
<1> SUFFICES ASSUME FirecrackerShape, NEW v \in Guests PROVE Timers(v) \in Nat
  OBVIOUS
<1>1. \A p \in Pids : evicting[v][p] \in Nat
  BY DEF FirecrackerShape
<1> QED
  BY <1>1, FirecrackerAssumption, SumType DEF Timers

\* One timer more or less.
LEMMA TimerChanges ==
  ASSUME FirecrackerShape, NEW v \in Guests, NEW p \in Pids, NEW k \in Nat,
         evicting' = [evicting EXCEPT ![v][p] = k]
  PROVE  /\ \A w \in Guests \ {v} : Timers(w)' = Timers(w)
         /\ Timers(v)' \in Nat /\ Timers(v)' + evicting[v][p] = Timers(v) + k
<1>1. evicting[v] \in [Pids -> Nat]
  BY DEF FirecrackerShape
<1> DEFINE f == [evicting[v] EXCEPT ![p] = k]
<1>2. evicting'[v] = f /\ \A w \in Guests \ {v} : evicting'[w] = evicting[w]
  BY DEF FirecrackerShape
<1>3. SumOver(f, Pids) \in Nat /\ SumOver(f, Pids) + evicting[v][p] = SumOver(evicting[v], Pids) + k
  BY <1>1, OneTimer
<1> HIDE DEF f
<1> QED
  BY <1>2, <1>3 DEF Timers

LEMMA SamePending ==
  ASSUME FirecrackerTyped, UNCHANGED <<toEvict, evicting, closing>>, vmLimit' \in Limits,
         deadlines' \subseteq Pids
  PROVE  FirecrackerTyped'
BY DEF FirecrackerTyped, Pending, Timers

LEMMA EvictionsTyped ==
  ASSUME FirecrackerShape, FirecrackerTyped, NEW idle \in SUBSET Guests, ToEvict(idle),
         UNCHANGED <<evicting, closing, deadlines>>, vmLimit' \in Limits
  PROVE  FirecrackerTyped'
<1>1. /\ toEvict' = [v \in Guests |-> IF v \in idle THEN toEvict[v] + 1 ELSE toEvict[v]]
      /\ \A v \in idle : Pending(v) < MaxAtOnce
  BY InProgressIsPending DEF ToEvict
<1>2. toEvict' \in [Guests -> Nat]
  BY <1>1 DEF FirecrackerTyped
<1>3. ASSUME NEW v \in Guests PROVE Pending(v)' <= MaxAtOnce
  <2>1. Timers(v)' = Timers(v) /\ Timers(v) \in Nat /\ toEvict[v] \in Nat /\ closing[v] \in Nat
    BY TimersCount DEF FirecrackerTyped, FirecrackerShape, Timers
  <2>2. Pending(v) <= MaxAtOnce
    BY DEF FirecrackerTyped
  <2> QED
    BY <1>1, <2>1, <2>2, FirecrackerAssumption DEF Pending
<1> QED
  BY <1>2, <1>3 DEF FirecrackerTyped

LEMMA EvictNextTyped ==
  ASSUME FirecrackerInv, FirecrackerTyped, NEW v \in Guests, EvictNext(v)
  PROVE  FirecrackerTyped'
<1>1. FirecrackerShape
  BY DEF FirecrackerInv
<1>2. /\ toEvict[v] > 0 /\ toEvict' = [toEvict EXCEPT ![v] = @ - 1]
      /\ UNCHANGED <<vmLimit, deadlines, closing>>
  BY DEF EvictNext
<1>3. /\ toEvict' \in [Guests -> Nat] /\ toEvict'[v] = toEvict[v] - 1 /\ toEvict[v] \in Nat
      /\ \A w \in Guests \ {v} : toEvict'[w] = toEvict[w]
  BY <1>2 DEF FirecrackerTyped
<1>4. /\ \A w \in Guests \ {v} : Timers(w)' = Timers(w)
      /\ Timers(v)' \in Nat /\ Timers(v)' <= Timers(v) + 1
  <2>1. CASE Tracked(v) /\ activeVMs[v] \in running
    <3>1. PICK p \in Pids : p = activeVMs[v]
      BY <1>1, <2>1 DEF FirecrackerShape
    <3>2. evicting[v][p] \in Nat
      BY <1>1 DEF FirecrackerShape
    <3>3. PICK k \in Nat : k = evicting[v][p] + 1
      BY <3>2
    <3>4. evicting' = [evicting EXCEPT ![v][p] = k]
      BY <2>1, <3>1, <3>3 DEF EvictNext
    <3>5. /\ \A w \in Guests \ {v} : Timers(w)' = Timers(w)
          /\ Timers(v)' \in Nat /\ Timers(v)' + evicting[v][p] = Timers(v) + k
      BY <1>1, <3>4, TimerChanges
    <3> QED
      BY <1>1, <3>2, <3>3, <3>5, TimersCount
  <2>2. CASE ~(Tracked(v) /\ activeVMs[v] \in running)
    <3>1. evicting' = evicting
      BY <2>2 DEF EvictNext
    <3> QED
      BY <1>1, <3>1, TimersCount DEF Timers
  <2> QED
    BY <2>1, <2>2
<1>5. ASSUME NEW w \in Guests PROVE Pending(w)' <= MaxAtOnce
  <2>1. closing[w] \in Nat /\ Timers(w) \in Nat /\ Pending(w) <= MaxAtOnce /\ toEvict[w] \in Nat
    BY <1>1, TimersCount DEF FirecrackerShape, FirecrackerTyped
  <2> QED
    BY <1>2, <1>3, <1>4, <2>1, FirecrackerAssumption DEF Pending
<1> QED
  BY <1>2, <1>3, <1>5 DEF FirecrackerTyped

LEMMA EvictionTimerTyped ==
  ASSUME FirecrackerInv, FirecrackerTyped, NEW v \in Guests, NEW p \in Pids, EvictionTimer(v, p)
  PROVE  FirecrackerTyped'
<1>1. FirecrackerShape
  BY DEF FirecrackerInv
<1>2. /\ evicting[v][p] > 0 /\ evicting' = [evicting EXCEPT ![v][p] = @ - 1]
      /\ UNCHANGED <<vmLimit, deadlines, closing, toEvict>>
  BY DEF EvictionTimer
<1>3. evicting[v][p] \in Nat
  BY <1>1 DEF FirecrackerShape
<1>4. PICK k \in Nat : k = evicting[v][p] - 1
  BY <1>2, <1>3
<1>5. evicting' = [evicting EXCEPT ![v][p] = k]
  BY <1>2, <1>4
<1>6. /\ \A w \in Guests \ {v} : Timers(w)' = Timers(w)
      /\ Timers(v)' \in Nat /\ Timers(v)' + evicting[v][p] = Timers(v) + k
  BY <1>1, <1>5, TimerChanges
<1>7. ASSUME NEW w \in Guests PROVE Pending(w)' <= MaxAtOnce
  <2>1. /\ closing[w] \in Nat /\ Timers(w) \in Nat /\ Timers(v) \in Nat
        /\ Pending(w) <= MaxAtOnce /\ toEvict[w] \in Nat
    BY <1>1, TimersCount DEF FirecrackerShape, FirecrackerTyped
  <2> QED
    BY <1>2, <1>3, <1>4, <1>6, <2>1, FirecrackerAssumption DEF Pending
<1> QED
  BY <1>2, <1>7 DEF FirecrackerTyped

\* The calls of unregisterVM: one more where one may still begin, or one less.
LEMMA ClosingTyped ==
  ASSUME FirecrackerInv, FirecrackerTyped, NEW v \in Guests, UnregisterVM(v) \/ UnregisterEnds(v)
  PROVE  FirecrackerTyped'
<1>1. FirecrackerShape
  BY DEF FirecrackerInv
<1>2. UNCHANGED <<vmLimit, deadlines, toEvict, evicting>>
  BY DEF UnregisterVM, UnregisterEnds
<1>3. \/ closing' = [closing EXCEPT ![v] = @ + 1] /\ Pending(v) < MaxAtOnce
      \/ closing' = [closing EXCEPT ![v] = @ - 1]
  BY InProgressIsPending DEF UnregisterVM, UnregisterEnds
<1>4. ASSUME NEW w \in Guests PROVE Pending(w)' <= MaxAtOnce
  <2>1. /\ closing[w] \in Nat /\ Timers(w) \in Nat /\ Timers(w)' = Timers(w)
        /\ Pending(w) <= MaxAtOnce /\ toEvict[w] \in Nat
    BY <1>1, <1>2, TimersCount DEF FirecrackerShape, FirecrackerTyped, Timers
  <2>2. \/ closing'[w] = closing[w] \/ closing'[w] = closing[w] - 1
        \/ closing'[w] = closing[w] + 1 /\ Pending(w) < MaxAtOnce
    <3>1. closing \in [Guests -> Nat]
      BY <1>1 DEF FirecrackerShape
    <3>2. CASE w = v
      <4>1. \/ closing'[v] = closing[v] + 1 /\ Pending(v) < MaxAtOnce
            \/ closing'[v] = closing[v] - 1
        BY <1>3, <3>1
      <4> QED
        BY <3>2, <4>1
    <3>3. CASE w # v
      BY <1>3, <3>1, <3>3
    <3> QED
      BY <3>2, <3>3
  <2> QED
    BY <1>2, <2>1, <2>2, FirecrackerAssumption DEF Pending
<1> QED
  BY <1>2, <1>4 DEF FirecrackerTyped

LEMMA FirecrackerTypedStep ==
  FirecrackerInv /\ FirecrackerTyped /\ [FirecrackerNext]_firecrackerVars => FirecrackerTyped'
<1> SUFFICES ASSUME FirecrackerInv, FirecrackerTyped, [FirecrackerNext]_firecrackerVars PROVE FirecrackerTyped'
  OBVIOUS
<1>0. vmLimit \in Limits /\ deadlines \subseteq Pids /\ FirecrackerShape
  BY DEF FirecrackerTyped, FirecrackerInv
<1>1. ASSUME NEW v \in Guests, EvictNext(v) PROVE FirecrackerTyped'
  BY <1>1, EvictNextTyped
<1>2. ASSUME NEW v \in Guests, EnforceResourceLimits(v) PROVE FirecrackerTyped'
  <2>1. activeVMs[v] \in Pids
    BY <1>0, <1>2 DEF EnforceResourceLimits, Tracked, FirecrackerShape
  <2> QED
    BY <1>0, <1>2, <2>1, SamePending DEF EnforceResourceLimits
<1>3. ASSUME NEW v \in Guests, UnregisterVM(v) \/ UnregisterEnds(v) PROVE FirecrackerTyped'
  BY <1>3, ClosingTyped
<1>4. ASSUME NEW v \in Guests, NEW p \in Pids, RegisterVM(v, p) PROVE FirecrackerTyped'
  BY <1>0, <1>4, SamePending DEF RegisterVM
<1>5. ASSUME NEW v \in Guests, NEW p \in Pids, EvictionTimer(v, p) PROVE FirecrackerTyped'
  BY <1>5, EvictionTimerTyped
<1>6. ASSUME NEW p \in Pids, GuestEnds(p) \/ DeadlinePasses(p) PROVE FirecrackerTyped'
  BY <1>0, <1>6, SamePending DEF GuestEnds, DeadlinePasses
<1>7. ASSUME NEW idle \in SUBSET Guests, EvictIdleVMs(idle) PROVE FirecrackerTyped'
  BY <1>0, <1>7, EvictionsTyped DEF EvictIdleVMs
<1>8. ASSUME NEW idle \in SUBSET Guests, NEW max \in Limits, EnforceVMLimit(max, idle) PROVE FirecrackerTyped'
  BY <1>0, <1>8, EvictionsTyped DEF EnforceVMLimit
<1>9. CASE UNCHANGED firecrackerVars
  BY <1>0, <1>9, SamePending DEF firecrackerVars
<1> QED
  BY <1>1, <1>2, <1>3, <1>4, <1>5, <1>6, <1>7, <1>8, <1>9 DEF FirecrackerNext

LEMMA FirecrackerTypedInit == FirecrackerInit => FirecrackerTyped
<1> SUFFICES ASSUME FirecrackerInit PROVE FirecrackerTyped
  OBVIOUS
<1>1. ASSUME NEW v \in Guests PROVE Pending(v) <= MaxAtOnce
  <2>1. toEvict[v] = 0 /\ closing[v] = 0 /\ \A p \in Pids : evicting[v][p] = 0
    BY DEF FirecrackerInit
  <2>2. Timers(v) = 0
    BY <2>1, FirecrackerAssumption, SumZero DEF Timers
  <2> QED
    BY <2>1, <2>2, FirecrackerAssumption DEF Pending
<1> QED
  BY <1>1 DEF FirecrackerInit, FirecrackerTyped

\* The Firecracker hardening keeps its shape (security/firecrackerHardening.ts): of no id are more
\* evictions and unregistrations in progress at once than MaxAtOnce.
THEOREM FirecrackerTypeCorrect == FirecrackerSpec => []FirecrackerTypeOK
<1>1. FirecrackerInv /\ FirecrackerTyped => FirecrackerTypeOK
  BY InProgressIsPending DEF FirecrackerInv, FirecrackerShape, FirecrackerTyped, FirecrackerTypeOK
<1>2. FirecrackerSpec => []FirecrackerTyped
  BY FirecrackerInvariant, FirecrackerTypedInit, FirecrackerTypedStep, PTL DEF FirecrackerSpec
<1> QED
  BY <1>1, <1>2, FirecrackerInvariant, PTL

-----------------------------------------------------------------------------
(***************************************************************************)
(* VmHardening.  A call of harden that has come to a step has all steps    *)
(* before it in force, but for rules that were flushed; measures leave in  *)
(* no other way.                                                           *)
(***************************************************************************)
HardeningShape ==
  /\ managed \in [HardIds -> HardPids \cup {NoHardPid}]
  /\ measures \in [HardPids -> SUBSET {Steps[i] : i \in 1 .. 7}]
  /\ hardening \subseteq [pid : HardPids, step : 1 .. 5]
  /\ flushed \subseteq HardPids /\ leaving \subseteq HardIds

InForce(i, p) == Steps[i] \in measures[p] \/ (Steps[i] = "allow" /\ p \in flushed)

CallsByPrefix == \A c \in hardening : \A i \in 1 .. 7 : i < c.step => InForce(i, c.pid)

HardeningInv == HardeningShape /\ CallsByPrefix /\ HardenedByPrefix

LEMMA StepsDiffer ==
  /\ DOMAIN Steps = 1 .. 7 /\ Steps[5] = "devices"
  /\ \A i, j \in 1 .. 7 : Steps[i] = Steps[j] => i = j
BY DEF Steps

LEMMA HardenStepInv ==
  ASSUME HardeningInv, NEW c \in hardening, NEW ok \in BOOLEAN, HardenStep(c, ok)
  PROVE  HardeningInv'
<1> DEFINE p == c.pid
           k == c.step
           next == [c EXCEPT !.step = @ + 1]
<1>1. p \in HardPids /\ k \in 1 .. 5 /\ k \in 1 .. 7
  BY DEF HardeningInv, HardeningShape
<1>2. /\ measures' = IF ok THEN [measures EXCEPT ![p] = measures[p] \cup {Steps[k]}] ELSE measures
      /\ hardening' = (hardening \ {c}) \cup IF ok /\ Steps[k] # "devices" THEN {next} ELSE {}
      /\ UNCHANGED <<managed, leaving, flushed>>
  BY DEF HardenStep
<1>3. next.pid = p /\ next.step = k + 1
  BY DEF HardeningInv, HardeningShape
<1>4. Steps[k] # "devices" => next \in [pid : HardPids, step : 1 .. 5]
  <2> SUFFICES ASSUME Steps[k] # "devices" PROVE next \in [pid : HardPids, step : 1 .. 5]
    OBVIOUS
  <2>1. k # 5
    BY StepsDiffer
  <2>2. k + 1 \in 1 .. 5
    BY <1>1, <2>1
  <2> QED
    BY <1>1, <2>2 DEF HardeningInv, HardeningShape
<1>5. \A i \in 1 .. 7 : i < k => InForce(i, p)
  BY DEF HardeningInv, CallsByPrefix
<1>6. c \in [pid : HardPids, step : 1 .. 5]
  BY DEF HardeningInv, HardeningShape
<1> HIDE DEF next, p, k
<1>7. /\ \A q \in HardPids : q # p => measures'[q] = measures[q]
      /\ measures'[p] = IF ok THEN measures[p] \cup {Steps[k]} ELSE measures[p]
  BY <1>1, <1>2 DEF HardeningInv, HardeningShape
<1>8. \A q \in HardPids, i \in 1 .. 7 : InForce(i, q) => InForce(i, q)'
  BY <1>2, <1>7 DEF InForce
<1>9. HardeningShape'
  <2>1. measures' \in [HardPids -> SUBSET {Steps[i] : i \in 1 .. 7}]
    BY <1>1, <1>2 DEF HardeningInv, HardeningShape
  <2>2. hardening' \subseteq [pid : HardPids, step : 1 .. 5]
    BY <1>2, <1>4 DEF HardeningInv, HardeningShape
  <2> QED
    BY <1>2, <2>1, <2>2 DEF HardeningInv, HardeningShape
<1>10. CallsByPrefix'
  <2> SUFFICES ASSUME NEW d \in hardening', NEW i \in 1 .. 7, i < d.step PROVE InForce(i, d.pid)'
    BY DEF CallsByPrefix
  <2>1. CASE d \in hardening
    <3>1. d.pid \in HardPids /\ InForce(i, d.pid)
      BY <2>1 DEF HardeningInv, HardeningShape, CallsByPrefix
    <3> QED
      BY <1>8, <3>1
  <2>2. CASE d \notin hardening
    <3>1. ok /\ d.pid = p /\ d.step = k + 1
      BY <1>2, <1>3, <2>2
    <3>2. CASE i = k
      BY <1>7, <3>1, <3>2 DEF InForce
    <3>3. CASE i # k
      <4>1. i < k
        BY <1>1, <3>1, <3>3
      <4> QED
        BY <1>1, <1>5, <1>8, <3>1, <4>1
    <3> QED
      BY <3>2, <3>3
  <2> QED
    BY <2>1, <2>2
<1>11. HardenedByPrefix'
  <2> SUFFICES ASSUME NEW q \in HardPids, NEW i \in 1 .. 7, NEW j \in 1 .. 7, i < j, Steps[j] \in measures'[q]
               PROVE  InForce(i, q)'
    BY StepsDiffer DEF HardenedByPrefix, InForce
  <2>1. CASE Steps[j] \in measures[q]
    <3>1. InForce(i, q)
      BY <2>1, StepsDiffer DEF HardeningInv, HardenedByPrefix, InForce
    <3> QED
      BY <1>8, <3>1
  <2>2. CASE Steps[j] \notin measures[q]
    <3>1. q = p /\ Steps[j] = Steps[k]
      BY <1>7, <2>2
    <3>2. i < k
      BY <1>1, <3>1, StepsDiffer
    <3> QED
      BY <1>1, <1>5, <1>8, <3>1, <3>2
  <2> QED
    BY <2>1, <2>2
<1> QED
  BY <1>9, <1>10, <1>11 DEF HardeningInv

LEMMA UnregisterBeginsInv ==
  ASSUME HardeningInv, NEW v \in HardIds, NEW ok \in BOOLEAN, UnregisterBegins(v, ok)
  PROVE  HardeningInv'
<1> DEFINE p == managed[v]
<1>1. p \in HardPids
  BY DEF UnregisterBegins, HardeningInv, HardeningShape
<1>2. /\ measures' = IF ok THEN [measures EXCEPT ![p] = measures[p] \ {"allow"}] ELSE measures
      /\ flushed' = flushed \cup {p} /\ leaving' = leaving \cup {v} /\ UNCHANGED <<managed, hardening>>
  BY DEF UnregisterBegins
<1> HIDE DEF p
<1>3. /\ \A q \in HardPids : measures'[q] \subseteq measures[q]
      /\ \A q \in HardPids : q # p => measures'[q] = measures[q]
      /\ \A x \in measures[p] : x \in measures'[p] \/ x = "allow"
  BY <1>1, <1>2 DEF HardeningInv, HardeningShape
<1>4. \A q \in HardPids, i \in 1 .. 7 : InForce(i, q) => InForce(i, q)'
  BY <1>2, <1>3 DEF InForce
<1>5. HardeningShape'
  BY <1>1, <1>2 DEF HardeningInv, HardeningShape
<1>6. CallsByPrefix'
  BY <1>2, <1>4 DEF HardeningInv, HardeningShape, CallsByPrefix
<1>7. HardenedByPrefix'
  <2> SUFFICES ASSUME NEW q \in HardPids, NEW i \in 1 .. 7, NEW j \in 1 .. 7, i < j, Steps[j] \in measures'[q]
               PROVE  InForce(i, q)'
    BY StepsDiffer DEF HardenedByPrefix, InForce
  <2>1. Steps[j] \in measures[q]
    BY <1>3
  <2>2. InForce(i, q)
    BY <2>1, StepsDiffer DEF HardeningInv, HardenedByPrefix, InForce
  <2> QED
    BY <1>4, <2>2
<1> QED
  BY <1>5, <1>6, <1>7 DEF HardeningInv

LEMMA HardeningNextInv == HardeningInv /\ [HardeningNext]_hardeningVars => HardeningInv'
<1> SUFFICES ASSUME HardeningInv, [HardeningNext]_hardeningVars PROVE HardeningInv'
  OBVIOUS
<1>1. ASSUME UNCHANGED <<measures, flushed>>, hardening' = hardening,
             managed' \in [HardIds -> HardPids \cup {NoHardPid}], leaving' \subseteq HardIds
      PROVE  HardeningInv'
  BY <1>1 DEF HardeningInv, HardeningShape, CallsByPrefix, HardenedByPrefix, InForce
<1>2. ASSUME NEW v \in HardIds, HardenBegins(v) PROVE HardeningInv'
  <2> DEFINE c == [pid |-> managed[v], step |-> 1]
  <2>1. hardening' = hardening \cup {c} /\ UNCHANGED <<managed, measures, leaving, flushed>>
    BY <1>2 DEF HardenBegins
  <2>2. c \in [pid : HardPids, step : 1 .. 5] /\ \A i \in 1 .. 7 : ~(i < c.step)
    BY <1>2 DEF HardenBegins, HardeningInv, HardeningShape
  <2> HIDE DEF c
  <2> QED
    BY <2>1, <2>2 DEF HardeningInv, HardeningShape, CallsByPrefix, HardenedByPrefix, InForce
<1>3. ASSUME NEW v \in HardIds, Unregistered(v) PROVE HardeningInv'
  BY <1>1, <1>3 DEF Unregistered, HardeningInv, HardeningShape
<1>4. ASSUME NEW v \in HardIds, NEW p \in HardPids, Register(v, p) PROVE HardeningInv'
  BY <1>1, <1>4 DEF Register, HardeningInv, HardeningShape
<1>5. CASE UNCHANGED hardeningVars
  BY <1>1, <1>5 DEF hardeningVars, HardeningInv, HardeningShape
<1> QED
  BY <1>2, <1>3, <1>4, <1>5, HardenStepInv, UnregisterBeginsInv DEF HardeningNext

LEMMA HardeningInvariant == HardeningSpec => []HardeningInv
<1>1. HardeningInit => HardeningInv
  BY DEF HardeningInit, HardeningInv, HardeningShape, CallsByPrefix, HardenedByPrefix
<1> QED
  BY <1>1, HardeningNextInv, PTL DEF HardeningSpec

\* harden runs its commands in order and stops at one that fails: however calls overlap with one
\* another and with unregister, what is in force is a prefix, the flushed rules excepted.
THEOREM HardenedByPrefixAlways == HardeningSpec => []HardenedByPrefix
<1>1. HardeningInv => HardenedByPrefix
  BY DEF HardeningInv
<1> QED
  BY <1>1, HardeningInvariant, PTL

\* The manager keeps its shape (security/firecracker/): a call of harden is always at one of its
\* steps, for a process.
THEOREM HardeningTypeCorrect == HardeningSpec => []HardeningTypeOK
<1>1. HardeningInv => HardeningTypeOK
  <2> SUFFICES ASSUME HardeningInv PROVE HardeningTypeOK
    OBVIOUS
  <2>1. DOMAIN Steps = 1 .. 7
    BY DEF Steps
  <2>2. hardening \subseteq [pid : HardPids, step : 1 .. 7]
    BY DEF HardeningInv, HardeningShape
  <2> QED
    BY <2>1, <2>2 DEF HardeningInv, HardeningShape, HardeningTypeOK
<1> QED
  BY <1>1, HardeningInvariant, PTL

-----------------------------------------------------------------------------
(***************************************************************************)
(* MeshInference.  A job that was asked of a peer keeps the records of the *)
(* peers it was estimated with, so that its estimate is within its budget  *)
(* whatever is announced before the answer; the charge is the estimate's   *)
(* sum for fewer tokens, and without the treasury's tenth.                 *)
(***************************************************************************)
Peer == [peerId : GpuPeers, serves : BOOLEAN, reputation : 0 .. 10, load : 0 .. 10,
         latency : Nat, price : Nat, nodeId : NodeIds \cup {NoNodeId}]
Verifier == [nodeId : NodeIds \cup {NoNodeId}, price : Nat]
Selection == [primary : [peerId : GpuPeers, price : Nat], verifiers : Seq(Verifier)]
Job == [budget : Nat, verify : BOOLEAN, minPeers : Nat]

EstimatesHold ==
  \A j \in Jobs : jobs[j].phase = "asked" =>
    /\ jobs[j].selection \in Selection /\ jobs[j].job \in Job
    /\ jobs[j].job.budget # 0 => CalculateCost(jobs[j].selection) <= jobs[j].job.budget

InferenceInv ==
  /\ gpuPeers \in Seq(Peer) /\ jobs = [j \in Jobs |-> jobs[j]]
  /\ EstimatesHold /\ WithinBudget

\* The cost of the verifiers is a sum over their places, and no less for more tokens.
Shares(vs, t) == [i \in DOMAIN vs |-> (vs[i].price * t) \div 5]
SharesAddUp(h, vs, t) ==
  h = [s \in SUBSET DOMAIN vs |->
         IF s = {} THEN 0 ELSE (vs[Picked(s)].price * t) \div 5 + h[s \ {Picked(s)}]]

THEOREM VerifierCostIsSum ==
  ASSUME NEW vs, NEW t
  PROVE  VerifierCost(vs, t) = SumOver(Shares(vs, t), DOMAIN vs)
<1>1. VerifierCost(vs, t) = (CHOOSE h : SharesAddUp(h, vs, t))[DOMAIN vs]
  BY DEF VerifierCost, FoldSeq, FoldFunction, FoldFunctionOnSet, MapThenFoldSet, SharesAddUp, Picked
<1>2. ASSUME NEW h PROVE SharesAddUp(h, vs, t) <=> AddsUp(h, Shares(vs, t), DOMAIN vs)
  <2>1. ASSUME NEW s \in SUBSET DOMAIN vs, s # {}
        PROVE  Shares(vs, t)[Picked(s)] = (vs[Picked(s)].price * t) \div 5
    <3>1. Picked(s) \in DOMAIN vs
      BY <2>1 DEF Picked
    <3> QED
      BY <3>1 DEF Shares
  <2>2. [s \in SUBSET DOMAIN vs |->
           IF s = {} THEN 0 ELSE (vs[Picked(s)].price * t) \div 5 + h[s \ {Picked(s)}]]
        = [s \in SUBSET DOMAIN vs |->
             IF s = {} THEN 0 ELSE Shares(vs, t)[Picked(s)] + h[s \ {Picked(s)}]]
    BY <2>1
  <2> QED
    BY <2>2 DEF SharesAddUp, AddsUp
<1>3. (CHOOSE h : SharesAddUp(h, vs, t)) = (CHOOSE h : AddsUp(h, Shares(vs, t), DOMAIN vs))
  BY <1>2
<1> QED
  BY <1>1, <1>3 DEF SumOver

LEMMA MoreTokensCostMore ==
  ASSUME NEW p \in Nat, NEW t \in Nat, NEW u \in Nat, t <= u
  PROVE  /\ p * t \in Nat /\ p * u \in Nat /\ p * t <= p * u
         /\ (p * t) \div 5 \in Nat /\ (p * u) \div 5 \in Nat /\ (p * t) \div 5 <= (p * u) \div 5
<1>1. PICK d \in Nat : u = t + d
  <2>1. u - t \in Nat /\ u = t + (u - t)
    OBVIOUS
  <2> QED
    BY <2>1
<1>2. p * u = p * t + p * d /\ p * d \in Nat /\ p * t \in Nat
  BY <1>1
<1>3. ASSUME NEW a \in Nat, NEW b \in Nat, a <= b
      PROVE  a \div 5 \in Nat /\ b \div 5 \in Nat /\ a \div 5 <= b \div 5
  BY <1>3
<1>4. p * t \in Nat /\ p * u \in Nat /\ p * t <= p * u
  BY <1>2
<1> QED
  BY <1>3, <1>4

LEMMA VerifierCostGrows ==
  ASSUME NEW vs \in Seq(Verifier), NEW t \in Nat, NEW u \in Nat, t <= u
  PROVE  /\ VerifierCost(vs, t) \in Nat /\ VerifierCost(vs, u) \in Nat
         /\ VerifierCost(vs, t) <= VerifierCost(vs, u)
<1> DEFINE D == DOMAIN vs
<1>1. IsFiniteSet(D)
  BY FS_Interval
<1>2. ASSUME NEW i \in D
      PROVE  /\ Shares(vs, t)[i] \in Nat /\ Shares(vs, u)[i] \in Nat
             /\ Shares(vs, t)[i] <= Shares(vs, u)[i]
  <2>1. vs[i].price \in Nat
    <3>1. vs[i] \in Verifier
      OBVIOUS
    <3> QED
      BY <3>1 DEF Verifier
  <2>2. Shares(vs, t)[i] = (vs[i].price * t) \div 5 /\ Shares(vs, u)[i] = (vs[i].price * u) \div 5
    BY DEF Shares
  <2> QED
    BY <2>1, <2>2, MoreTokensCostMore
<1> HIDE DEF D
<1>3. /\ SumOver(Shares(vs, t), D) \in Nat /\ SumOver(Shares(vs, u), D) \in Nat
      /\ SumOver(Shares(vs, t), D) <= SumOver(Shares(vs, u), D)
  BY <1>1, <1>2, SumType, SumAtMost
<1> QED
  BY <1>3, VerifierCostIsSum DEF D

\* Verifiers with node ids of their own are each the first one that has theirs.
LEMMA ChargedAtOwnPrices ==
  ASSUME NEW vs \in Seq(Verifier), NEW t, DistinctNodes(vs)
  PROVE  VerifierCharge(vs, t) = VerifierCost(vs, t)
<1>1. ASSUME NEW i \in DOMAIN vs PROVE FirstNamed(vs, vs[i].nodeId) = vs[i]
  <2> DEFINE First(k) == vs[k].nodeId = vs[i].nodeId /\ \A m \in 1 .. k - 1 : vs[m].nodeId # vs[i].nodeId
  <2>1. \A k \in DOMAIN vs : First(k) => k = i
    BY DEF DistinctNodes
  <2>2. ASSUME NEW m \in 1 .. i - 1 PROVE vs[m].nodeId # vs[i].nodeId
    <3>1. m \in DOMAIN vs /\ m # i
      OBVIOUS
    <3> QED
      BY <3>1 DEF DistinctNodes
  <2>3. First(i)
    BY <2>2
  <2>4. FirstNamed(vs, vs[i].nodeId) = vs[CHOOSE k \in DOMAIN vs : First(k)]
    BY DEF FirstNamed
  <2> HIDE DEF First
  <2>5. (CHOOSE k \in DOMAIN vs : First(k)) = i
    BY <2>1, <2>3
  <2> QED
    BY <2>4, <2>5
<1>2. vs = [i \in DOMAIN vs |-> vs[i]]
  OBVIOUS
<1>3. [i \in DOMAIN vs |-> FirstNamed(vs, vs[i].nodeId)] = [i \in DOMAIN vs |-> vs[i]]
  BY <1>1
<1> QED
  BY <1>2, <1>3 DEF VerifierCharge

\* The charge: the peer's price and, for the verifiers of a job that asks for them, theirs.
LEMMA ChargeIs ==
  ASSUME NEW s \in Selection, NEW t \in Nat, NEW asked, asked.selection = s,
         DistinctNodes(Answer(asked, t).verifiers)
  PROVE  Answer(asked, t).cost \in {t * s.primary.price, t * s.primary.price + VerifierCost(s.verifiers, t)}
<1>1. s.verifiers \in Seq(Verifier)
  BY DEF Selection
<1>2. CASE asked.job.verify
  <2>1. /\ Answer(asked, t).cost = t * s.primary.price + VerifierCharge(s.verifiers, t)
        /\ Answer(asked, t).verifiers = s.verifiers
    BY <1>2 DEF Answer, PriceAsked
  <2> QED
    BY <1>1, <2>1, ChargedAtOwnPrices
<1>3. CASE ~asked.job.verify
  BY <1>3 DEF Answer, PriceAsked
<1> QED
  BY <1>2, <1>3

\* An answer of no more tokens than the job allows costs no more than the estimate, if no two of
\* its verifiers go by one node id.
LEMMA ChargeWithinEstimate ==
  ASSUME NEW s \in Selection, NEW job \in Job, NEW t \in Nat, t <= MaxTokens,
         NEW asked, asked.selection = s, asked.job = job, DistinctNodes(Answer(asked, t).verifiers)
  PROVE  Answer(asked, t).cost <= CalculateCost(s)
<1>1. MaxTokens \in Nat /\ s.primary.price \in Nat /\ s.verifiers \in Seq(Verifier)
  BY InferenceAssumption DEF Selection
<1>2. PICK p \in Nat : p = s.primary.price
  BY <1>1
<1>3. PICK v \in Nat, w \in Nat :
        v = VerifierCost(s.verifiers, t) /\ w = VerifierCost(s.verifiers, MaxTokens) /\ v <= w
  BY <1>1, VerifierCostGrows
<1>4. PICK a \in Nat, b \in Nat : a = p * t /\ b = p * MaxTokens /\ a <= b
  BY <1>1, MoreTokensCostMore
<1>5. t * p = a /\ MaxTokens * p = b
  BY <1>1, <1>4
<1>6. Answer(asked, t).cost \in {a, a + v}
  BY <1>2, <1>3, <1>5, ChargeIs
<1>7. CalculateCost(s) = (11 * (b + w) + 9) \div 10
  BY <1>2, <1>3, <1>5 DEF CalculateCost
<1>8. ASSUME NEW n \in Nat PROVE n <= (11 * n + 9) \div 10
  BY <1>8
<1>9. b + w <= (11 * (b + w) + 9) \div 10
  <2>1. b + w \in Nat
    OBVIOUS
  <2> QED
    BY <1>8, <2>1
<1>10. PICK c \in Int : c = (11 * (b + w) + 9) \div 10
  OBVIOUS
<1> QED
  BY <1>3, <1>4, <1>6, <1>7, <1>9, <1>10

LEMMA EstimateIsNumber ==
  ASSUME NEW s \in Selection
  PROVE  CalculateCost(s) \in Int
<1>1. MaxTokens \in Nat /\ s.primary.price \in Nat /\ s.verifiers \in Seq(Verifier) /\ MaxTokens <= MaxTokens
  BY InferenceAssumption DEF Selection
<1>2. PICK w \in Nat : w = VerifierCost(s.verifiers, MaxTokens)
  BY <1>1, VerifierCostGrows
<1>3. PICK b \in Nat : b = MaxTokens * s.primary.price
  BY <1>1
<1>4. CalculateCost(s) = (11 * (b + w) + 9) \div 10
  BY <1>2, <1>3 DEF CalculateCost
<1> QED
  BY <1>4

LEMMA ChargeIsNumber ==
  ASSUME NEW s \in Selection, NEW t \in Nat, NEW asked, asked.selection = s,
         DistinctNodes(Answer(asked, t).verifiers)
  PROVE  Answer(asked, t).cost \in Int
<1>1. s.primary.price \in Nat /\ s.verifiers \in Seq(Verifier) /\ t <= t
  BY DEF Selection
<1>2. PICK v \in Nat : v = VerifierCost(s.verifiers, t)
  BY <1>1, VerifierCostGrows
<1>3. PICK a \in Nat : a = t * s.primary.price
  BY <1>1
<1>4. Answer(asked, t).cost \in {a, a + v}
  BY <1>2, <1>3, ChargeIs
<1> QED
  BY <1>4

\* What the router selects are peers of the table as they are.
LEMMA SelectedArePeers ==
  ASSUME gpuPeers \in Seq(Peer), NEW job \in Job, NEW s \in SelectPeers(job)
  PROVE  s \in Selection
<1> DEFINE able == {i \in DOMAIN gpuPeers : CanHandleJob(gpuPeers[i], job)}
           count == IF job.minPeers # 0 THEN job.minPeers ELSE DefaultVerifiers
           verifiers(o) == [i \in {k \in 1 .. count : k + 1 \in DOMAIN o} |-> Terms(gpuPeers[o[i + 1]])]
           primary(o) == [peerId |-> gpuPeers[o[1]].peerId, price |-> gpuPeers[o[1]].price]
<1>1. /\ able # {}
      /\ \E o \in SortPeers(able) : s = [primary |-> primary(o), verifiers |-> verifiers(o)]
  BY DEF SelectPeers
<1>2. PICK o \in SortPeers(able) : s = [primary |-> primary(o), verifiers |-> verifiers(o)]
  BY <1>1
<1>3. \A i \in able : gpuPeers[i] \in Peer
  OBVIOUS
<1>4. IsFiniteSet(able) /\ Cardinality(able) \in Nat /\ Cardinality(able) # 0
  <2>1. IsFiniteSet(DOMAIN gpuPeers) /\ able \subseteq DOMAIN gpuPeers
    BY FS_Interval
  <2> HIDE DEF able
  <2> QED
    BY <1>1, <2>1, FS_Subset, FS_CardinalityType, FS_EmptySet
<1>5. o \in [1 .. Cardinality(able) -> able]
  <2> HIDE DEF able
  <2> QED
    BY <1>2 DEF SortPeers
<1> HIDE DEF able
<1>6. PICK n \in Nat \ {0} : n = Cardinality(able)
  BY <1>4
<1>7. o \in [1 .. n -> able]
  BY <1>5, <1>6
<1>8. primary(o) \in [peerId : GpuPeers, price : Nat]
  <2>1. gpuPeers[o[1]] \in Peer
    BY <1>3, <1>7
  <2> QED
    BY <2>1 DEF Peer
<1> HIDE DEF primary
<1>9. verifiers(o) \in Seq(Verifier)
  <2>1. PICK c \in Nat : c = count
    BY InferenceAssumption DEF Job
  <2>2. PICK m \in Nat : {k \in 1 .. c : k + 1 \in 1 .. n} = 1 .. m
    <3>1. CASE c <= n - 1
      <4>1. {k \in 1 .. c : k + 1 \in 1 .. n} = 1 .. c
        BY <3>1
      <4> QED
        BY <4>1
    <3>2. CASE ~(c <= n - 1)
      <4>1. {k \in 1 .. c : k + 1 \in 1 .. n} = 1 .. (n - 1) /\ n - 1 \in Nat
        BY <3>2
      <4> QED
        BY <4>1
    <3> QED
      BY <3>1, <3>2
  <2>3. \A i \in 1 .. m : Terms(gpuPeers[o[i + 1]]) \in Verifier
    <3> SUFFICES ASSUME NEW i \in 1 .. m PROVE Terms(gpuPeers[o[i + 1]]) \in Verifier
      OBVIOUS
    <3>1. i + 1 \in 1 .. n
      BY <2>2
    <3>2. o[i + 1] \in able
      BY <1>7, <3>1
    <3>3. gpuPeers[o[i + 1]] \in Peer
      BY <1>3, <3>2
    <3> QED
      BY <3>3 DEF Peer, Terms, Verifier
  <2>4. verifiers(o) = [i \in 1 .. m |-> Terms(gpuPeers[o[i + 1]])]
    <3>1. DOMAIN o = 1 .. n
      BY <1>7
    <3> QED
      BY <2>1, <2>2, <3>1
  <2> HIDE DEF verifiers, count
  <2>5. [i \in 1 .. m |-> Terms(gpuPeers[o[i + 1]])] \in Seq(Verifier)
    BY <2>3
  <2> QED
    BY <2>4, <2>5
<1> HIDE DEF verifiers
<1> QED
  BY <1>2, <1>8, <1>9 DEF Selection

\* A step that changes one job, to one that was not asked or to one with an estimate that holds,
\* and to no charge above the budget.
LEMMA OneJob ==
  ASSUME InferenceInv, NEW j \in Jobs, NEW r, jobs' = [jobs EXCEPT ![j] = r], UNCHANGED gpuPeers,
         r.phase = "asked" => /\ r.selection \in Selection /\ r.job \in Job
                              /\ r.job.budget # 0 => CalculateCost(r.selection) <= r.job.budget,
         r.phase = "done" /\ r.job.budget # 0 /\ r.tokens <= MaxTokens /\ DistinctNodes(r.verifiers)
           => r.cost <= r.job.budget
  PROVE  InferenceInv'
<1>1. /\ jobs' = [k \in Jobs |-> jobs'[k]] /\ jobs'[j] = r
      /\ \A k \in Jobs \ {j} : jobs'[k] = jobs[k]
  BY DEF InferenceInv
<1>2. EstimatesHold'
  BY <1>1 DEF InferenceInv, EstimatesHold
<1>3. WithinBudget'
  BY <1>1 DEF InferenceInv, WithinBudget
<1> QED
  BY <1>1, <1>2, <1>3 DEF InferenceInv

LEMMA AskedInv ==
  ASSUME InferenceInv, NEW j \in Jobs, NEW job \in JobSpecs, RouteInference(j, job)
  PROVE  InferenceInv'
<1>1. job \in Job
  BY InferenceAssumption DEF Job
<1> DEFINE selection == CHOOSE s \in SelectPeers(job) : TRUE
           r == CASE SelectPeers(job) = {} /\ fallbackToLocal -> [phase |-> "local"]
                  [] SelectPeers(job) = {} /\ ~fallbackToLocal -> NoAnswer
                  [] OTHER -> IF job.budget # 0 /\ CalculateCost(selection) > job.budget THEN NoAnswer
                              ELSE [phase |-> "asked", job |-> job, selection |-> selection]
<1>2. jobs' = [jobs EXCEPT ![j] = r] /\ UNCHANGED gpuPeers
  BY DEF RouteInference
<1>3. \/ r.phase \in {"local", "failed"}
      \/ /\ SelectPeers(job) # {} /\ r = [phase |-> "asked", job |-> job, selection |-> selection]
         /\ ~(job.budget # 0 /\ CalculateCost(selection) > job.budget)
  <2> HIDE DEF selection
  <2>1. CASE SelectPeers(job) = {}
    BY <2>1 DEF NoAnswer
  <2>2. CASE SelectPeers(job) # {}
    BY <2>2 DEF NoAnswer
  <2> QED
    BY <2>1, <2>2
<1> HIDE DEF r
<1>4. CASE r.phase \in {"local", "failed"}
  BY <1>2, <1>4, OneJob
<1>5. CASE /\ SelectPeers(job) # {} /\ r = [phase |-> "asked", job |-> job, selection |-> selection]
           /\ ~(job.budget # 0 /\ CalculateCost(selection) > job.budget)
  <2>1. selection \in SelectPeers(job)
    BY <1>5
  <2> HIDE DEF selection
  <2>2. selection \in Selection
    BY <1>1, <2>1, SelectedArePeers DEF InferenceInv
  <2>3. CalculateCost(selection) \in Int
    BY <2>2, EstimateIsNumber
  <2>4. job.budget # 0 => CalculateCost(selection) <= job.budget
    <3>1. job.budget \in Nat
      BY <1>1 DEF Job
    <3> QED
      BY <1>5, <2>3, <3>1
  <2>5. r.phase = "asked" /\ r.job = job /\ r.selection = selection
    BY <1>5
  <2> QED
    BY <1>1, <1>2, <2>2, <2>4, <2>5, OneJob
<1> QED
  BY <1>3, <1>4, <1>5

LEMMA AnswerInv ==
  ASSUME InferenceInv, NEW j \in Jobs, NEW server, NEW tokens \in Generated,
         PeerAnswers(j, server, tokens)
  PROVE  InferenceInv'
<1> DEFINE asked == jobs[j]
           r == Answer(asked, tokens)
<1>1. /\ jobs' = [jobs EXCEPT ![j] = r] /\ UNCHANGED gpuPeers
      /\ asked.phase = "asked" /\ tokens \in Nat
  BY InferenceAssumption DEF PeerAnswers
<1>2. /\ asked.selection \in Selection /\ asked.job \in Job
      /\ asked.job.budget # 0 => CalculateCost(asked.selection) <= asked.job.budget
  BY <1>1 DEF InferenceInv, EstimatesHold
<1>3. r.phase = "done" /\ r.job = asked.job /\ r.tokens = tokens
  BY DEF Answer
<1>4. r.job.budget # 0 /\ r.tokens <= MaxTokens /\ DistinctNodes(r.verifiers) => r.cost <= r.job.budget
  <2> SUFFICES ASSUME r.job.budget # 0, r.tokens <= MaxTokens, DistinctNodes(r.verifiers)
               PROVE  r.cost <= r.job.budget
    OBVIOUS
  <2>1. PICK s \in Selection, job \in Job : s = asked.selection /\ job = asked.job
    BY <1>2
  <2>2. r.cost <= CalculateCost(s)
    BY <1>1, <1>3, <2>1, ChargeWithinEstimate
  <2>3. CalculateCost(s) <= job.budget
    BY <1>2, <1>3, <2>1
  <2>4. r.cost \in Int /\ CalculateCost(s) \in Int /\ job.budget \in Int
    BY <2>1, <1>1, EstimateIsNumber, ChargeIsNumber DEF Job
  <2> QED
    BY <1>3, <2>1, <2>2, <2>3, <2>4
<1> HIDE DEF r
<1> QED
  BY <1>1, <1>3, <1>4, OneJob

LEMMA InferenceStepInv == InferenceInv /\ [InferenceNext]_inferenceVars => InferenceInv'
<1> SUFFICES ASSUME InferenceInv, [InferenceNext]_inferenceVars PROVE InferenceInv'
  OBVIOUS
<1>0. ASSUME UNCHANGED jobs, gpuPeers' \in Seq(Peer) PROVE InferenceInv'
  <2>1. EstimatesHold' /\ WithinBudget'
    BY <1>0 DEF InferenceInv, EstimatesHold, WithinBudget
  <2> QED
    BY <1>0, <2>1 DEF InferenceInv
<1>1. ASSUME NEW p \in GpuPeers, NEW profile \in Announced \cup {AnnounceSelf}, HandlePeerDiscovery(p, profile)
      PROVE  InferenceInv'
  <2> DEFINE peer == [peerId |-> p, serves |-> profile.serves, reputation |-> profile.reputation,
                      load |-> profile.load, latency |-> profile.latency, price |-> profile.price,
                      nodeId |-> profile.nodeId]
  <2>1. profile \in Profile
    <3>1. AnnounceSelf \in Profile
      BY DEF AnnounceSelf, Profile
    <3> QED
      BY <3>1, InferenceAssumption
  <2>2. peer \in Peer
    BY <2>1 DEF Profile, Peer
  <2>3. /\ gpuPeers' = IF PositionOf(p) = {} THEN Append(gpuPeers, peer)
                       ELSE [gpuPeers EXCEPT ![CHOOSE i \in PositionOf(p) : TRUE] = peer]
        /\ UNCHANGED jobs
    BY <1>1 DEF HandlePeerDiscovery
  <2> HIDE DEF peer
  <2>4. gpuPeers \in Seq(Peer)
    BY DEF InferenceInv
  <2>5. CASE PositionOf(p) = {}
    BY <1>0, <2>2, <2>3, <2>4, <2>5
  <2>6. CASE PositionOf(p) # {}
    <3>1. PICK i \in DOMAIN gpuPeers : gpuPeers' = [gpuPeers EXCEPT ![i] = peer]
      BY <2>3, <2>6 DEF PositionOf
    <3>2. gpuPeers' \in Seq(Peer)
      BY <2>2, <2>4, <3>1
    <3> QED
      BY <1>0, <2>3, <3>2
  <2> QED
    BY <2>5, <2>6
<1>3. ASSUME NEW silent, HealthCheckPeers(silent) PROVE InferenceInv'
  <2>1. gpuPeers' \in Seq(Peer)
    BY <1>3, KeptCounts DEF HealthCheckPeers, InferenceInv
  <2> QED
    BY <1>0, <1>3, <2>1 DEF HealthCheckPeers
<1>4. ASSUME NEW j \in Jobs, NEW job \in JobSpecs, RouteInference(j, job) PROVE InferenceInv'
  BY <1>4, AskedInv
<1>5. ASSUME NEW j \in Jobs, NEW server \in {"llama", "ollama"}, NEW tokens \in Generated,
             PeerAnswers(j, server, tokens)
      PROVE  InferenceInv'
  BY <1>5, AnswerInv
<1>6. ASSUME NEW j \in Jobs, PeerFails(j) \/ \E ok \in BOOLEAN : LocalAnswers(j, ok) PROVE InferenceInv'
  <2>1. PICK r : jobs' = [jobs EXCEPT ![j] = r] /\ r.phase \in {"failed", "answered locally"} /\ UNCHANGED gpuPeers
    BY <1>6 DEF PeerFails, LocalAnswers, NoAnswer
  <2> QED
    BY <2>1, OneJob
<1>7. CASE UNCHANGED inferenceVars
  <2>1. UNCHANGED <<gpuPeers, jobs>>
    BY <1>7 DEF inferenceVars
  <2> QED
    BY <1>0, <2>1 DEF InferenceInv
<1> QED
  BY <1>1, <1>3, <1>4, <1>5, <1>6, <1>7 DEF InferenceNext

LEMMA InferenceInvariant == InferenceSpec => []InferenceInv
<1>1. InferenceInit => InferenceInv
  BY DEF InferenceInit, InferenceInv, EstimatesHold, WithinBudget, Unasked
<1> QED
  BY <1>1, InferenceStepInv, PTL DEF InferenceSpec

\* The estimate of selectPeers bounds the charge of executeWithConsensus and of executeDirect,
\* whatever the peers announce between the two: a job is charged more than its budget only for
\* more tokens than it allows, or when two of its verifiers go by one node id, whose prices
\* executeWithConsensus (mesh-llm/adapter.ts) does not tell apart.
THEOREM WithinBudgetAlways == InferenceSpec => []WithinBudget
<1>1. InferenceInv => WithinBudget
  BY DEF InferenceInv
<1> QED
  BY <1>1, InferenceInvariant, PTL

\* What InferenceInv leaves open: no peer is in the table twice, so that the table is no longer
\* than the peers are many.
Phases == {"none", "failed", "local", "answered locally", "asked", "done"}
PeersApart == \A i, k \in DOMAIN gpuPeers : gpuPeers[i].peerId = gpuPeers[k].peerId => i = k

InferenceTyped ==
  /\ strategy \in Strategies /\ fallbackToLocal \in BOOLEAN
  /\ PeersApart /\ \A j \in Jobs : jobs[j].phase \in Phases

\* What is in one place of a sequence at most is in one place at most of what a filter keeps.
LEMMA KeptOnce ==
  ASSUME NEW T, NEW s \in Seq(T), NEW K, NEW P,
         \A i, k \in DOMAIN s : s[i] \in P /\ s[k] \in P => i = k
  PROVE  \A i, k \in DOMAIN Kept(s, K) : Kept(s, K)[i] \in P /\ Kept(s, K)[k] \in P => i = k
<1>1. PICK q : q = Kept(s, K)
  OBVIOUS
<1>2. q \in Seq(T) /\ Count(q, P) = Count(s, P \cap K)
  BY <1>1, KeptCounts
<1>3. Count(s, P) <= 1 /\ Count(s, P) \in Nat
  <2>1. CASE Places(s, P) = {}
    <3>1. Count(s, P) = 0
      BY <2>1, FS_EmptySet DEF Count
    <3> QED
      BY <3>1
  <2>2. CASE Places(s, P) # {}
    <3>1. PICK i : Places(s, P) = {i}
      BY <2>2 DEF Places
    <3>2. Count(s, P) = 1
      BY <3>1, FS_Singleton DEF Count
    <3> QED
      BY <3>2
  <2> QED
    BY <2>1, <2>2
<1>4. Count(q, P) <= 1
  <2>1. P \cap K \subseteq P
    OBVIOUS
  <2>2. Count(s, P \cap K) <= Count(s, P) /\ Count(s, P \cap K) \in Nat
    BY <2>1, CountMore, CountType
  <2> QED
    BY <1>2, <1>3, <2>2
<1>5. ASSUME NEW i \in DOMAIN q, NEW k \in DOMAIN q, q[i] \in P, q[k] \in P, i # k PROVE FALSE
  <2>1. {i, k} \subseteq Places(q, P)
    BY <1>5 DEF Places
  <2>2. IsFiniteSet(Places(q, P))
    BY <1>2, CountType
  <2>3. IsFiniteSet({i}) /\ Cardinality({i}) = 1
    BY FS_Singleton
  <2>4. Cardinality({i, k}) = 2
    <3>1. k \notin {i} /\ {i} \cup {k} = {i, k}
      BY <1>5
    <3>2. Cardinality({i} \cup {k}) = Cardinality({i}) + 1
      BY <2>3, <3>1, FS_AddElement
    <3>3. Cardinality({i} \cup {k}) = 2
      BY <2>3, <3>2
    <3> QED
      BY <3>1, <3>3, Zenon
  <2>5. Cardinality({i, k}) <= Cardinality(Places(q, P))
    BY <2>1, <2>2, FS_Subset
  <2>6. Count(q, P) \in Nat
    BY <1>2, CountType
  <2>7. PICK m \in Nat : m = Cardinality(Places(q, P))
    BY <2>6 DEF Count
  <2>8. m <= 1
    BY <1>4, <2>7 DEF Count
  <2> QED
    BY <2>4, <2>5, <2>7, <2>8
<1> QED
  BY <1>1, <1>5

\* A step that leaves the peers' ids where they are.
LEMMA SameIds ==
  ASSUME PeersApart, gpuPeers \in Seq(Peer), NEW i \in DOMAIN gpuPeers, NEW r,
         r.peerId = gpuPeers[i].peerId, gpuPeers' = [gpuPeers EXCEPT ![i] = r]
  PROVE  PeersApart'
<1>1. /\ DOMAIN gpuPeers' = DOMAIN gpuPeers
      /\ \A k \in DOMAIN gpuPeers : gpuPeers'[k] = IF k = i THEN r ELSE gpuPeers[k]
  OBVIOUS
<1>2. \A k \in DOMAIN gpuPeers : gpuPeers'[k].peerId = gpuPeers[k].peerId
  BY <1>1
<1> QED
  BY <1>1, <1>2 DEF PeersApart

LEMMA DiscoveryApart ==
  ASSUME InferenceInv, PeersApart, NEW p \in GpuPeers, NEW profile, HandlePeerDiscovery(p, profile)
  PROVE  PeersApart'
<1> DEFINE peer == [peerId |-> p, serves |-> profile.serves, reputation |-> profile.reputation,
                    load |-> profile.load, latency |-> profile.latency, price |-> profile.price,
                      nodeId |-> profile.nodeId]
<1>1. /\ gpuPeers' = IF PositionOf(p) = {} THEN Append(gpuPeers, peer)
                     ELSE [gpuPeers EXCEPT ![CHOOSE i \in PositionOf(p) : TRUE] = peer]
      /\ gpuPeers \in Seq(Peer) /\ peer.peerId = p
  BY DEF HandlePeerDiscovery, InferenceInv
<1> HIDE DEF peer
<1>2. CASE PositionOf(p) = {}
  <2>1. PICK n \in Nat : n = Len(gpuPeers)
    BY <1>1
  <2>2. /\ DOMAIN gpuPeers = 1 .. n /\ DOMAIN gpuPeers' = 1 .. (n + 1)
        /\ gpuPeers'[n + 1] = peer /\ \A i \in 1 .. n : gpuPeers'[i] = gpuPeers[i]
    BY <1>1, <1>2, <2>1
  <2>3. \A i \in 1 .. n : gpuPeers[i].peerId # p
    BY <1>2, <2>2 DEF PositionOf
  <2>4. ASSUME NEW i \in 1 .. (n + 1), NEW k \in 1 .. (n + 1), gpuPeers'[i].peerId = gpuPeers'[k].peerId
        PROVE  i = k
    <3>0. gpuPeers'[n + 1].peerId = p /\ \A m \in 1 .. n : gpuPeers'[m].peerId # p
      BY <1>1, <2>2, <2>3
    <3>1. CASE i = n + 1
      BY <2>4, <3>0, <3>1
    <3>2. CASE k = n + 1
      BY <2>4, <3>0, <3>2
    <3>3. CASE i # n + 1 /\ k # n + 1
      <4>1. i \in 1 .. n /\ k \in 1 .. n
        BY <3>3
      <4>2. gpuPeers[i].peerId = gpuPeers[k].peerId
        BY <2>2, <2>4, <4>1
      <4> QED
        BY <2>2, <4>1, <4>2 DEF PeersApart
    <3> QED
      BY <3>1, <3>2, <3>3
  <2> QED
    BY <2>2, <2>4 DEF PeersApart
<1>3. CASE PositionOf(p) # {}
  <2>1. PICK i \in PositionOf(p) : gpuPeers' = [gpuPeers EXCEPT ![i] = peer]
    BY <1>1, <1>3
  <2>2. i \in DOMAIN gpuPeers /\ gpuPeers[i].peerId = p
    BY DEF PositionOf
  <2> QED
    BY <1>1, <2>1, <2>2, SameIds
<1> QED
  BY <1>2, <1>3

LEMMA HealthCheckApart ==
  ASSUME InferenceInv, PeersApart, NEW silent, HealthCheckPeers(silent)
  PROVE  PeersApart'
<1>1. PICK K : gpuPeers' = Kept(gpuPeers, K)
  BY DEF HealthCheckPeers
<1>2. gpuPeers \in Seq(Peer) /\ gpuPeers' \in Seq(Peer)
  BY <1>1, KeptCounts DEF InferenceInv
<1>3. ASSUME NEW i \in DOMAIN gpuPeers', NEW k \in DOMAIN gpuPeers',
             gpuPeers'[i].peerId = gpuPeers'[k].peerId
      PROVE  i = k
  <2>1. PICK p : p = gpuPeers'[i].peerId
    OBVIOUS
  <2>2. PICK P : P = {x \in Peer : x.peerId = p}
    OBVIOUS
  <2>3. gpuPeers'[i] \in P /\ gpuPeers'[k] \in P
    BY <1>2, <1>3, <2>1, <2>2
  <2>4. \A m, n \in DOMAIN gpuPeers : gpuPeers[m] \in P /\ gpuPeers[n] \in P => m = n
    BY <2>2 DEF PeersApart
  <2>5. \A m, n \in DOMAIN Kept(gpuPeers, K) : Kept(gpuPeers, K)[m] \in P /\ Kept(gpuPeers, K)[n] \in P => m = n
    BY <1>2, <2>4, KeptOnce
  <2> QED
    BY <1>1, <1>3, <2>3, <2>5
<1> QED
  BY <1>3 DEF PeersApart

LEMMA SameTable ==
  ASSUME InferenceTyped, UNCHANGED <<strategy, fallbackToLocal, gpuPeers>>,
         \A j \in Jobs : jobs'[j].phase \in Phases
  PROVE  InferenceTyped'
BY DEF InferenceTyped, PeersApart

\* A step of one job.
LEMMA JobTyped ==
  ASSUME InferenceInv, InferenceTyped, NEW j \in Jobs, NEW r, r.phase \in Phases,
         jobs' = [jobs EXCEPT ![j] = r], UNCHANGED <<strategy, fallbackToLocal, gpuPeers>>
  PROVE  InferenceTyped'
<1>1. \A k \in Jobs : jobs'[k] = IF k = j THEN r ELSE jobs[k]
  BY DEF InferenceInv
<1>2. \A k \in Jobs : jobs'[k].phase \in Phases
  BY <1>1 DEF InferenceTyped
<1> QED
  BY <1>2, SameTable

LEMMA InferenceTypedStep ==
  InferenceInv /\ InferenceTyped /\ [InferenceNext]_inferenceVars => InferenceTyped'
<1> SUFFICES ASSUME InferenceInv, InferenceTyped, [InferenceNext]_inferenceVars PROVE InferenceTyped'
  OBVIOUS
<1>0. ASSUME UNCHANGED <<strategy, fallbackToLocal, jobs>>, PeersApart' PROVE InferenceTyped'
  BY <1>0 DEF InferenceTyped
<1>1. PeersApart /\ gpuPeers \in Seq(Peer)
  BY DEF InferenceTyped, InferenceInv
<1>2. ASSUME NEW p \in GpuPeers, NEW profile, HandlePeerDiscovery(p, profile) PROVE InferenceTyped'
  <2>1. PeersApart'
    BY <1>1, <1>2, DiscoveryApart
  <2> QED
    BY <1>0, <1>2, <2>1 DEF HandlePeerDiscovery
<1>4. ASSUME NEW silent, HealthCheckPeers(silent) PROVE InferenceTyped'
  <2>1. PeersApart'
    BY <1>1, <1>4, HealthCheckApart
  <2> QED
    BY <1>0, <1>4, <2>1 DEF HealthCheckPeers
<1>5. ASSUME NEW j \in Jobs, NEW job, RouteInference(j, job) PROVE InferenceTyped'
  <2>1. PICK r : jobs' = [jobs EXCEPT ![j] = r] /\ r.phase \in {"local", "failed", "asked"}
    <3> DEFINE selection == CHOOSE s \in SelectPeers(job) : TRUE
               r == CASE SelectPeers(job) = {} /\ fallbackToLocal -> [phase |-> "local"]
                      [] SelectPeers(job) = {} /\ ~fallbackToLocal -> NoAnswer
                      [] OTHER -> IF job.budget # 0 /\ CalculateCost(selection) > job.budget THEN NoAnswer
                                  ELSE [phase |-> "asked", job |-> job, selection |-> selection]
    <3>1. jobs' = [jobs EXCEPT ![j] = r]
      BY <1>5 DEF RouteInference
    <3> HIDE DEF selection
    <3>2. r.phase \in {"local", "failed", "asked"}
      <4>1. CASE SelectPeers(job) = {}
        <5>1. r \in {[phase |-> "local"], NoAnswer}
          BY <4>1
        <5> HIDE DEF r
        <5> QED
          BY <5>1 DEF NoAnswer
      <4>2. CASE SelectPeers(job) # {}
        BY <4>2 DEF NoAnswer
      <4> QED
        BY <4>1, <4>2
    <3> HIDE DEF r
    <3> QED
      BY <3>1, <3>2
  <2>2. r.phase \in Phases
    BY <2>1 DEF Phases
  <2>3. UNCHANGED <<strategy, fallbackToLocal, gpuPeers>>
    BY <1>5 DEF RouteInference
  <2> QED
    BY <2>1, <2>2, <2>3, JobTyped
<1>6. ASSUME NEW j \in Jobs, NEW server, NEW tokens, PeerAnswers(j, server, tokens) PROVE InferenceTyped'
  <2>1. PICK r : r = Answer(jobs[j], tokens)
    OBVIOUS
  <2>2. r.phase = "done" /\ "done" \in Phases
    BY <2>1 DEF Answer, Phases
  <2>3. jobs' = [jobs EXCEPT ![j] = r]
    BY <1>6, <2>1 DEF PeerAnswers
  <2>4. UNCHANGED <<strategy, fallbackToLocal, gpuPeers>>
    BY <1>6 DEF PeerAnswers
  <2> QED
    BY <2>2, <2>3, <2>4, JobTyped
<1>7. ASSUME NEW j \in Jobs, PeerFails(j) \/ \E ok \in BOOLEAN : LocalAnswers(j, ok) PROVE InferenceTyped'
  <2>1. UNCHANGED <<strategy, fallbackToLocal, gpuPeers>>
    BY <1>7 DEF PeerFails, LocalAnswers
  <2>2. \A r \in {NoAnswer, [phase |-> "answered locally"]} : r.phase \in Phases
    <3>1. NoAnswer.phase = "failed" /\ [phase |-> "answered locally"].phase = "answered locally"
      BY DEF NoAnswer
    <3>2. "failed" \in Phases /\ "answered locally" \in Phases
      BY DEF Phases
    <3> QED
      BY <3>1, <3>2, Zenon
  <2>3. PICK r \in {NoAnswer, [phase |-> "answered locally"]} : jobs' = [jobs EXCEPT ![j] = r]
    <3>1. CASE PeerFails(j)
      BY <3>1 DEF PeerFails
    <3>2. ASSUME NEW ok \in BOOLEAN, LocalAnswers(j, ok)
          PROVE  \E r \in {NoAnswer, [phase |-> "answered locally"]} : jobs' = [jobs EXCEPT ![j] = r]
      <4>1. jobs' = [jobs EXCEPT ![j] = IF ok THEN [phase |-> "answered locally"] ELSE NoAnswer]
        BY <3>2 DEF LocalAnswers
      <4>2. CASE ok
        BY <4>1, <4>2
      <4>3. CASE ~ok
        BY <4>1, <4>3
      <4> QED
        BY <4>2, <4>3
    <3> QED
      BY <1>7, <3>1, <3>2
  <2>4. r.phase \in Phases
    BY <2>2, <2>3
  <2> QED
    BY <2>1, <2>3, <2>4, JobTyped
<1>8. CASE UNCHANGED inferenceVars
  <2>1. PeersApart'
    BY <1>1, <1>8 DEF inferenceVars, PeersApart
  <2> QED
    BY <1>0, <1>8, <2>1 DEF inferenceVars
<1> QED
  BY <1>2, <1>4, <1>5, <1>6, <1>7, <1>8 DEF InferenceNext

LEMMA InferenceTypedInit == InferenceInit => InferenceTyped
<1> SUFFICES ASSUME InferenceInit PROVE InferenceTyped
  OBVIOUS
<1>1. PeersApart
  BY DEF InferenceInit, PeersApart
<1>2. \A j \in Jobs : jobs[j].phase \in Phases
  BY DEF InferenceInit, Unasked, Phases
<1> QED
  BY <1>1, <1>2 DEF InferenceInit, InferenceTyped

LEMMA TableBounded ==
  ASSUME InferenceInv, PeersApart
  PROVE  Len(gpuPeers) <= Cardinality(GpuPeers)
<1>1. gpuPeers \in Seq(Peer)
  BY DEF InferenceInv
<1>2. PICK n \in Nat : n = Len(gpuPeers)
  BY <1>1
<1>3. DOMAIN gpuPeers = 1 .. n /\ \A i \in 1 .. n : gpuPeers[i].peerId \in GpuPeers
  <2>1. DOMAIN gpuPeers = 1 .. n /\ \A i \in 1 .. n : gpuPeers[i] \in Peer
    BY <1>1, <1>2
  <2> QED
    BY <2>1 DEF Peer
<1>4. PICK f : f = [i \in 1 .. n |-> gpuPeers[i].peerId]
  OBVIOUS
<1>5. f \in Injection(1 .. n, GpuPeers)
  <2>1. f \in [1 .. n -> GpuPeers] /\ \A i, k \in 1 .. n : f[i] = f[k] => i = k
    BY <1>3, <1>4 DEF PeersApart
  <2> QED
    BY <2>1 DEF Injection, IsInjective
<1>6. Cardinality(1 .. n) <= Cardinality(GpuPeers)
  BY <1>5, InferenceAssumption, FS_Injection
<1>7. Cardinality(1 .. n) = n
  <2>1. 1 \in Int /\ n \in Int
    OBVIOUS
  <2> QED
    BY <2>1, FS_Interval
<1> QED
  BY <1>2, <1>6, <1>7

\* The table of GPU peers holds no peer twice and so never more than there are (mesh-llm/adapter.ts),
\* and every job is in a phase of its life.
THEOREM InferenceTypeCorrect == InferenceSpec => []InferenceTypeOK
<1>1. ASSUME InferenceInv, InferenceTyped PROVE InferenceTypeOK
  <2>1. PeersApart /\ gpuPeers \in Seq(Peer)
    BY <1>1 DEF InferenceTyped, InferenceInv
  <2>2. Len(gpuPeers) <= Cardinality(GpuPeers)
    BY <1>1, <2>1, TableBounded
  <2>3. ASSUME NEW i \in DOMAIN gpuPeers
        PROVE  PositionOf(gpuPeers[i].peerId) = {i}
    BY <2>1 DEF PositionOf, PeersApart
  <2> QED
    BY <1>1, <2>2, <2>3 DEF InferenceTyped, InferenceTypeOK, Phases
<1>2. InferenceSpec => []InferenceTyped
  BY InferenceInvariant, InferenceTypedInit, InferenceTypedStep, PTL DEF InferenceSpec
<1> QED
  BY <1>1, <1>2, InferenceInvariant, PTL

-----------------------------------------------------------------------------
(***************************************************************************)
(* MeshNode.  The listener of a topic is added with its entry, which is    *)
(* made once, so that no second node gets one; on the first node the topic *)
(* of an entry, and of a call that awaits, is subscribed unless the        *)
(* transport has dropped it.                                               *)
(***************************************************************************)
Wanted(t) == handlers[t] > 0 \/ \E c \in Subscribers : awaiting[c] = t

OneListener(t) ==
  /\ handlers[t] = 0 => \A n \in MeshNodes : listeners[n][t] = 0
  /\ \A n \in MeshNodes : listeners[n][t] <= 1
  /\ \A n, k \in MeshNodes : listeners[n][t] > 0 /\ listeners[k][t] > 0 => n = k

FirstNode(t) ==
  /\ starts = 0 => stopping = 0 /\ ~Wanted(t)
  /\ starts = 1 /\ 1 \in nodesUp => present = 1 /\ stopping = 0 /\ (handlers[t] > 0 => listeners[1][t] = 1)
  /\ starts = 1 /\ Wanted(t) => t \in subscribed[1] \/ t \in dropped

MeshInv == MeshTypeOK /\ \A t \in Topics : OneListener(t) /\ FirstNode(t)

LEMMA NodeStartInv ==
  ASSUME MeshInv, NodeStart
  PROVE  MeshInv'
<1>1. /\ starts' = starts + 1 /\ present' = starts + 1 /\ nodesUp' = nodesUp \cup {starts + 1}
      /\ UNCHANGED <<stopping, handlers, listeners, subscribed, awaiting, carrier, dropped>>
      /\ starts < MaxStarts /\ starts \in Nat /\ MaxStarts \in Nat
  BY MeshAssumption DEF NodeStart, MeshInv, MeshTypeOK
<1>2. MeshTypeOK'
  BY <1>1 DEF MeshInv, MeshTypeOK
<1>3. ASSUME NEW t \in Topics PROVE OneListener(t)' /\ FirstNode(t)'
  <2>1. OneListener(t)'
    BY <1>1 DEF MeshInv, OneListener
  <2>2. (Wanted(t)' <=> Wanted(t)) /\ (handlers[t] > 0 => Wanted(t))
    BY <1>1 DEF Wanted
  <2>3. starts = 0 => stopping = 0 /\ ~Wanted(t)
    BY DEF MeshInv, FirstNode
  <2>4. FirstNode(t)'
    BY <1>1, <2>2, <2>3 DEF FirstNode
  <2> QED
    BY <2>1, <2>4
<1> QED
  BY <1>2, <1>3 DEF MeshInv

LEMMA StopInv ==
  ASSUME MeshInv, StopBegins \/ StopEnds
  PROVE  MeshInv'
<1>1. /\ UNCHANGED <<starts, handlers, listeners, subscribed, awaiting, carrier, dropped>>
      /\ nodesUp' \subseteq nodesUp /\ present' \in {0, present}
      /\ stopping' \in 0 .. MaxStarts
      /\ MaxStarts \in Nat /\ stopping \in Nat /\ starts \in Nat /\ (starts = 0 => present = 0)
  BY MeshAssumption DEF StopBegins, StopEnds, MeshInv, MeshTypeOK
<1>2. MeshTypeOK'
  BY <1>1 DEF MeshInv, MeshTypeOK
<1>3. ASSUME NEW t \in Topics PROVE OneListener(t)' /\ FirstNode(t)'
  <2>1. OneListener(t)'
    BY <1>1 DEF MeshInv, OneListener
  <2>2. Wanted(t)' <=> Wanted(t)
    BY <1>1 DEF Wanted
  <2>3. FirstNode(t)
    BY DEF MeshInv
  <2>4. starts = 0 => stopping' = 0
    BY <1>1, <2>3 DEF StopBegins, StopEnds, FirstNode
  <2>5. ~(starts = 1 /\ 1 \in nodesUp')
    <3> SUFFICES ASSUME starts = 1, 1 \in nodesUp' PROVE FALSE
      OBVIOUS
    <3>1. 1 \in nodesUp /\ present = 1 /\ stopping = 0
      BY <1>1, <2>3 DEF FirstNode
    <3> QED
      BY <3>1 DEF StopBegins, StopEnds
  <2>6. FirstNode(t)'
    BY <1>1, <2>2, <2>3, <2>4, <2>5 DEF FirstNode
  <2> QED
    BY <2>1, <2>6
<1> QED
  BY <1>2, <1>3 DEF MeshInv

\* A node of this moment joins a topic, for the caller that begins to await it or for nobody.
LEMMA JoinsInv ==
  ASSUME MeshInv, NEW n \in 0 .. starts, NEW t \in Topics, Joins(n, t),
         UNCHANGED <<nodeVars, handlers, listeners>>, carrier' \in 0 .. starts,
         \/ UNCHANGED awaiting
         \/ \E c \in Subscribers : awaiting' = [awaiting EXCEPT ![c] = t]
  PROVE  MeshInv'
<1>1. /\ n \in nodesUp /\ n \in MeshNodes /\ starts \in Nat /\ starts # 0
      /\ starts = 1 => n = 1
      /\ subscribed' = [subscribed EXCEPT ![n] = subscribed[n] \cup {t}] /\ dropped' = dropped \ {t}
      /\ UNCHANGED <<starts, present, stopping, nodesUp, handlers, listeners>>
  BY MeshAssumption DEF Joins, nodeVars, MeshInv, MeshTypeOK, MeshNodes
<1>2. awaiting' \in [Subscribers -> Topics \cup {NoTopic}]
  BY DEF MeshInv, MeshTypeOK
<1>3. /\ subscribed' \in [MeshNodes -> SUBSET Topics]
      /\ subscribed'[n] = subscribed[n] \cup {t} /\ \A k \in MeshNodes : k # n => subscribed'[k] = subscribed[k]
  BY <1>1 DEF MeshInv, MeshTypeOK
<1>4. MeshTypeOK'
  BY <1>1, <1>2, <1>3 DEF MeshInv, MeshTypeOK
<1>5. ASSUME NEW q \in Topics PROVE OneListener(q)' /\ FirstNode(q)'
  <2>1. OneListener(q)'
    BY <1>1 DEF MeshInv, OneListener
  <2>2. q # t => (Wanted(q)' => Wanted(q))
    BY <1>1 DEF MeshInv, MeshTypeOK, Wanted
  <2>3. FirstNode(q)
    BY DEF MeshInv
  <2>4. starts = 1 /\ Wanted(q)' => q \in subscribed'[1] \/ q \in dropped'
    BY <1>1, <1>3, <2>2, <2>3 DEF FirstNode
  <2>5. FirstNode(q)'
    BY <1>1, <2>3, <2>4 DEF FirstNode
  <2> QED
    BY <2>1, <2>5
<1> QED
  BY <1>4, <1>5 DEF MeshInv

LEMMA SubscribeEndsInv ==
  ASSUME MeshInv, NEW c \in Subscribers, SubscribeEnds(c)
  PROVE  MeshInv'
<1>1. PICK t \in Topics : t = awaiting[c]
  BY DEF SubscribeEnds, MeshInv, MeshTypeOK
<1> DEFINE m == IF handlers[t] = 0 /\ present = 0 THEN 1 ELSE IF handlers[t] = 0 THEN 2 ELSE handlers[t] + 1
           adds == handlers[t] = 0 /\ present # 0
<1>2. /\ awaiting' = [awaiting EXCEPT ![c] = NoTopic] /\ handlers' = [handlers EXCEPT ![t] = m]
      /\ UNCHANGED <<starts, present, stopping, nodesUp, carrier, subscribed, dropped>>
  BY <1>1 DEF SubscribeEnds, FirstHandler, nodeVars
<1>3. listeners' = IF adds THEN [listeners EXCEPT ![present][t] = @ + 1] ELSE listeners
  BY <1>1 DEF SubscribeEnds, FirstHandler
<1>4. m \in Nat /\ m > 0
  BY DEF MeshInv, MeshTypeOK
<1>5. adds => present \in MeshNodes
  BY MeshAssumption DEF MeshInv, MeshTypeOK, MeshNodes
<1>6. Wanted(t) /\ OneListener(t) /\ FirstNode(t)
  BY <1>1 DEF MeshInv, Wanted
<1>7. listeners \in [MeshNodes -> [Topics -> Nat]] /\ handlers \in [Topics -> Nat]
  BY DEF MeshInv, MeshTypeOK
<1> HIDE DEF m
<1>8. /\ listeners' \in [MeshNodes -> [Topics -> Nat]]
      /\ \A n \in MeshNodes : \A q \in Topics :
           listeners'[n][q] = IF adds /\ n = present /\ q = t THEN listeners[n][q] + 1 ELSE listeners[n][q]
  <2>1. CASE adds
    BY <1>3, <1>5, <1>7, <2>1
  <2>2. CASE ~adds
    BY <1>3, <1>7, <2>2
  <2> QED
    BY <2>1, <2>2
<1>9. handlers' \in [Topics -> Nat] /\ \A q \in Topics : handlers'[q] = IF q = t THEN m ELSE handlers[q]
  BY <1>2, <1>4, <1>7
<1>10. awaiting' \in [Subscribers -> Topics \cup {NoTopic}]
  BY <1>2 DEF MeshInv, MeshTypeOK
<1>11. MeshTypeOK'
  BY <1>2, <1>8, <1>9, <1>10 DEF MeshInv, MeshTypeOK
<1>12. OneListener(t)'
  <2>1. handlers'[t] # 0
    BY <1>4, <1>9
  <2>2. CASE adds
    <3>1. \A n \in MeshNodes : listeners[n][t] = 0
      BY <1>6, <2>2 DEF OneListener
    <3>2. \A n \in MeshNodes : listeners'[n][t] = IF n = present THEN 1 ELSE 0
      BY <1>8, <2>2, <3>1
    <3> QED
      BY <2>1, <3>2 DEF OneListener
  <2>3. CASE ~adds
    <3>1. \A n \in MeshNodes : listeners'[n][t] = listeners[n][t]
      BY <1>8, <2>3
    <3> QED
      BY <1>6, <2>1, <3>1 DEF OneListener
  <2> QED
    BY <2>2, <2>3
<1>13. FirstNode(t)'
  <2>1. starts # 0
    BY <1>6 DEF FirstNode
  <2>2. ASSUME starts = 1, 1 \in nodesUp PROVE listeners'[1][t] = 1
    <3>1. present = 1 /\ 1 \in MeshNodes
      BY <1>6, <2>2, MeshAssumption DEF FirstNode, MeshInv, MeshTypeOK, MeshNodes
    <3>2. CASE adds
      BY <1>6, <1>8, <3>1, <3>2 DEF OneListener
    <3>3. CASE ~adds
      <4>1. handlers[t] # 0 /\ handlers[t] \in Nat
        BY <1>7, <3>1, <3>3
      <4>2. listeners[1][t] = 1
        BY <1>6, <2>2, <4>1 DEF FirstNode
      <4> QED
        BY <1>8, <3>1, <3>3, <4>2
    <3> QED
      BY <3>2, <3>3
  <2>3. starts = 1 => t \in subscribed[1] \/ t \in dropped
    BY <1>6 DEF FirstNode
  <2> QED
    BY <1>2, <1>6, <2>1, <2>2, <2>3 DEF FirstNode
<1>14. ASSUME NEW q \in Topics, q # t PROVE OneListener(q)' /\ FirstNode(q)'
  <2>1. handlers'[q] = handlers[q] /\ \A n \in MeshNodes : listeners'[n][q] = listeners[n][q]
    BY <1>8, <1>9, <1>14
  <2>2. Wanted(q)' => Wanted(q)
    BY <1>2, <2>1, MeshAssumption DEF MeshInv, MeshTypeOK, Wanted
  <2>3. OneListener(q) /\ FirstNode(q)
    BY DEF MeshInv
  <2>4. starts = 1 => 1 \in MeshNodes
    BY MeshAssumption DEF MeshInv, MeshTypeOK, MeshNodes
  <2>5. OneListener(q)'
    BY <2>1, <2>3 DEF OneListener
  <2>6. FirstNode(q)'
    BY <1>2, <2>1, <2>2, <2>3, <2>4 DEF FirstNode
  <2> QED
    BY <2>5, <2>6
<1> QED
  BY <1>11, <1>12, <1>13, <1>14 DEF MeshInv

LEMMA UnsubscribeInv ==
  ASSUME MeshInv, NEW t \in Topics, TransportUnsubscribe(t)
  PROVE  MeshInv'
<1>1. /\ carrier \in MeshNodes /\ starts \in Nat /\ starts # 0
      /\ subscribed' = [subscribed EXCEPT ![carrier] = subscribed[carrier] \ {t}] /\ dropped' = dropped \cup {t}
      /\ UNCHANGED <<starts, present, stopping, nodesUp, handlers, listeners, awaiting, carrier>>
  BY MeshAssumption DEF TransportUnsubscribe, nodeVars, MeshInv, MeshTypeOK, MeshNodes
<1>2. /\ subscribed' \in [MeshNodes -> SUBSET Topics]
      /\ \A k \in MeshNodes : \A q \in subscribed[k] : q \in subscribed'[k] \/ q = t
  BY <1>1 DEF MeshInv, MeshTypeOK
<1>3. MeshTypeOK'
  BY <1>1, <1>2 DEF MeshInv, MeshTypeOK
<1>4. starts = 1 => 1 \in MeshNodes
  BY MeshAssumption DEF MeshInv, MeshTypeOK, MeshNodes
<1>5. ASSUME NEW q \in Topics PROVE OneListener(q)' /\ FirstNode(q)'
  <2>1. OneListener(q)'
    BY <1>1 DEF MeshInv, OneListener
  <2>2. (Wanted(q)' <=> Wanted(q)) /\ FirstNode(q)
    BY <1>1 DEF MeshInv, Wanted
  <2>3. FirstNode(q)'
    BY <1>1, <1>2, <1>4, <2>2 DEF FirstNode
  <2> QED
    BY <2>1, <2>3
<1> QED
  BY <1>3, <1>5 DEF MeshInv

LEMMA MeshStepInv == MeshInv /\ [MeshNext]_meshVars => MeshInv'
<1> SUFFICES ASSUME MeshInv, [MeshNext]_meshVars PROVE MeshInv'
  OBVIOUS
<1>1. present \in 0 .. starts /\ carrier \in 0 .. starts /\ starts \in Nat /\ Experts \in Topics
  BY MeshAssumption DEF MeshInv, MeshTypeOK
<1>2. ASSUME NEW c \in Subscribers, NEW t \in Topics, SubscribeBegins(c, t) PROVE MeshInv'
  BY <1>1, <1>2, JoinsInv DEF SubscribeBegins
<1>3. CASE RouterAttach
  BY <1>1, <1>3, JoinsInv DEF RouterAttach
<1>4. ASSUME NEW t \in Topics, TransportSubscribe(t) PROVE MeshInv'
  BY <1>1, <1>4, JoinsInv DEF TransportSubscribe
<1>5. CASE TransportAttach \/ UNCHANGED meshVars
  <2>1. /\ UNCHANGED <<starts, present, stopping, nodesUp, handlers, listeners, subscribed, awaiting, dropped>>
        /\ carrier' \in 0 .. starts
    BY <1>1, <1>5 DEF TransportAttach, nodeVars, meshVars
  <2> QED
    BY <2>1 DEF MeshInv, MeshTypeOK, OneListener, FirstNode, Wanted
<1> QED
  BY <1>2, <1>3, <1>4, <1>5, NodeStartInv, StopInv, SubscribeEndsInv, UnsubscribeInv DEF MeshNext

LEMMA MeshInvariant == MeshSpec => []MeshInv
<1>1. MeshInit => MeshInv
  <2> SUFFICES ASSUME MeshInit PROVE MeshInv
    OBVIOUS
  <2>1. MeshTypeOK
    BY MeshAssumption DEF MeshInit, MeshTypeOK
  <2>2. ASSUME NEW t \in Topics PROVE OneListener(t) /\ FirstNode(t)
    <3>1. ~Wanted(t)
      BY MeshAssumption DEF MeshInit, Wanted
    <3> QED
      BY <3>1 DEF MeshInit, OneListener, FirstNode
  <2> QED
    BY <2>1, <2>2 DEF MeshInv
<1> QED
  BY <1>1, MeshStepInv, PTL DEF MeshSpec

\* subscribe adds a listener with the first handler of a topic only (mesh/libp2p.ts): no handler is
\* handed a message twice, through stops and further starts; and while the first node runs, and
\* there is no other, every message of a topic with a handler is handed over until the transport
\* has unsubscribed the topic.
THEOREM HandledOnceAlways == MeshSpec => []HandledOnce
<1>1. ASSUME MeshInv PROVE HandledOnce
  <2> SUFFICES ASSUME NEW t \in Topics
               PROVE  /\ \A n \in Hears(t) : Hears(t) = {n} /\ listeners[n][t] = 1
                      /\ starts = 1 /\ nodesUp = {1} /\ handlers[t] > 0 /\ t \notin dropped => Hears(t) = {1}
    BY DEF HandledOnce
  <2>1. OneListener(t) /\ FirstNode(t)
    BY <1>1 DEF MeshInv
  <2>2. /\ nodesUp \subseteq MeshNodes /\ listeners \in [MeshNodes -> [Topics -> Nat]]
    BY <1>1, MeshAssumption DEF MeshInv, MeshTypeOK, MeshNodes
  <2>3. \A n \in MeshNodes : listeners[n][t] \in Nat
    BY <2>2
  <2>4. ASSUME NEW n \in Hears(t) PROVE Hears(t) = {n} /\ listeners[n][t] = 1
    BY <2>1, <2>2, <2>3 DEF Hears, OneListener
  <2>5. ASSUME starts = 1, nodesUp = {1}, handlers[t] > 0, t \notin dropped PROVE Hears(t) = {1}
    BY <2>1, <2>5 DEF Hears, FirstNode, Wanted
  <2> QED
    BY <2>4, <2>5
<1> QED
  BY <1>1, MeshInvariant, PTL

\* The mesh node keeps its shape (mesh/libp2p.ts): the node of the wrapper is the last one made or
\* none, no more nodes run than were made, and a subscriber awaits one topic or none.
THEOREM MeshTypeCorrect == MeshSpec => []MeshTypeOK
<1>1. MeshInv => MeshTypeOK
  BY DEF MeshInv
<1> QED
  BY <1>1, MeshInvariant, PTL

-----------------------------------------------------------------------------
(***************************************************************************)
(* MeshTables.  Once the timer of a table has run it runs in every minute, *)
(* and a minute begins when that of the last one has run: an entry is at   *)
(* most one minute older than the table's lifetime while the timer is due, *)
(* and not older than that afterwards.                                     *)
(***************************************************************************)
TableInv ==
  /\ TableTypeOK
  /\ due \/ timed => opened /\ which # "discovered"
  /\ timed => \A i \in Known : Fresh(i)

LEMMA AgesAreNumbers ==
  ASSUME TableInv
  PROVE  /\ MaxAge \in Nat /\ Unknown = MaxAge + 1 /\ Lifetime \in Nat
         /\ \A i \in Ids : age[i] \in 0 .. Unknown
         /\ BestScore \in ExpertScores /\ LocalExpert \in Ids /\ MeshIds \subseteq Ids
BY TableAssumption DEF TableInv, TableTypeOK, Unknown, Lifetime, BestScore, Ids

LEMMA RenewedInv ==
  ASSUME TableInv, NEW i \in Ids, NEW s \in ExpertScores, Renewed(i, s)
  PROVE  TableInv'
<1>1. /\ age' = [age EXCEPT ![i] = 0] /\ scoreOf' = [scoreOf EXCEPT ![i] = s]
      /\ UNCHANGED <<which, opened, due, timed>>
  BY DEF Renewed, timerVars
<1>2. age \in [Ids -> 0 .. Unknown] /\ 0 \in 0 .. Unknown /\ age' \in [Ids -> 0 .. Unknown]
  BY <1>1, AgesAreNumbers DEF TableInv, TableTypeOK
<1>3. TableTypeOK'
  BY <1>1, <1>2 DEF TableInv, TableTypeOK
<1>4. Lifetime' = Lifetime
  BY <1>1 DEF Lifetime
<1>5. ASSUME timed', NEW k \in Known' PROVE Fresh(k)'
  <2>1. k \in Ids /\ age'[k] # Unknown
    BY DEF Known
  <2>2. CASE k = i
    BY <1>1, <1>2, <1>4, <2>2, AgesAreNumbers DEF Fresh
  <2>3. CASE k # i
    <3>1. age'[k] = age[k] /\ k \in Known
      BY <1>1, <1>2, <2>1, <2>3 DEF Known
    <3>2. Fresh(k)
      BY <1>1, <1>5, <3>1 DEF TableInv
    <3> QED
      BY <1>1, <1>4, <3>1, <3>2 DEF Fresh
  <2> QED
    BY <2>2, <2>3
<1> QED
  BY <1>1, <1>3, <1>5 DEF TableInv

LEMMA MinuteInv ==
  ASSUME TableInv, Minute
  PROVE  TableInv'
<1>1. /\ ~due /\ due' = (opened /\ which # "discovered")
      /\ age' = [i \in Ids |-> IF age[i] < MaxAge THEN age[i] + 1 ELSE age[i]]
      /\ UNCHANGED <<which, scoreOf, opened, timed>>
  BY DEF Minute
<1>2. ASSUME NEW i \in Ids
      PROVE  age'[i] \in 0 .. Unknown /\ age'[i] <= age[i] + 1 /\ (age'[i] # Unknown => age[i] # Unknown)
  BY <1>1, AgesAreNumbers
<1>3. TableTypeOK'
  <2>1. age' \in [Ids -> 0 .. Unknown]
    BY <1>1, <1>2
  <2>2. opened' \in BOOLEAN /\ due' \in BOOLEAN /\ timed' \in BOOLEAN
    BY <1>1 DEF TableInv, TableTypeOK
  <2>3. which' \in Tables /\ scoreOf' \in [Ids -> ExpertScores]
    BY <1>1 DEF TableInv, TableTypeOK
  <2> QED
    BY <2>1, <2>2, <2>3 DEF TableTypeOK
<1>4. ASSUME timed', NEW k \in Known' PROVE Fresh(k)'
  <2>1. k \in Ids /\ k \in Known /\ timed
    BY <1>1, <1>2, <1>4 DEF Known
  <2>2. age[k] <= Lifetime /\ Lifetime' = Lifetime
    BY <1>1, <2>1 DEF TableInv, Fresh, Lifetime
  <2>3. due'
    BY <1>1, <2>1 DEF TableInv
  <2>4. age'[k] <= Lifetime + 1
    <3>1. PICK a \in Nat, b \in Nat : a = age[k] /\ b = age'[k]
      BY <1>2, <2>1, AgesAreNumbers
    <3>2. b <= a + 1 /\ a <= Lifetime /\ Lifetime \in Nat
      BY <1>2, <2>1, <2>2, <3>1, AgesAreNumbers
    <3> QED
      BY <3>1, <3>2
  <2> QED
    BY <2>2, <2>3, <2>4 DEF Fresh
<1> QED
  BY <1>1, <1>3, <1>4 DEF TableInv

LEMMA CleanInv ==
  ASSUME TableInv, Clean
  PROVE  TableInv'
<1>1. /\ due \/ which = "discovered"
      /\ due' = FALSE /\ timed' = (timed \/ due)
      /\ age' = [i \in Ids |-> IF i \in Old THEN Unknown ELSE age[i]]
      /\ UNCHANGED <<which, scoreOf, opened>>
  BY DEF Clean
<1>2. TableTypeOK'
  <2>1. age' \in [Ids -> 0 .. Unknown]
    BY <1>1, AgesAreNumbers
  <2>2. due' \in BOOLEAN /\ timed' \in BOOLEAN
    BY <1>1
  <2> QED
    BY <1>1, <2>1, <2>2 DEF TableInv, TableTypeOK
<1>3. ASSUME NEW k \in Known' PROVE Fresh(k)'
  <2>1. k \in Ids /\ k \notin Old /\ age'[k] = age[k] /\ k \in Known
    BY <1>1 DEF Known
  <2>2. age[k] <= Lifetime
    BY <2>1, AgesAreNumbers DEF Old
  <2> QED
    BY <1>1, <2>1, <2>2 DEF Fresh, Lifetime
<1> QED
  BY <1>1, <1>2, <1>3 DEF TableInv

LEMMA TableStepInv == TableInv /\ [TableNext]_tableVars => TableInv'
<1> SUFFICES ASSUME TableInv, [TableNext]_tableVars PROVE TableInv'
  OBVIOUS
<1>1. ASSUME NEW i \in MeshIds, NEW s \in ExpertScores, Hear(i, s) PROVE TableInv'
  BY <1>1, AgesAreNumbers, RenewedInv DEF Hear
<1>2. CASE RegisterLocalExpert
  BY <1>2, AgesAreNumbers, RenewedInv DEF RegisterLocalExpert
<1>3. ASSUME NEW i \in Ids, NEW s \in ExpertScores, UpdateExpertLoad(i, s) PROVE TableInv'
  BY <1>3, RenewedInv DEF UpdateExpertLoad
<1>4. CASE Attach \/ UNCHANGED tableVars
  <2>1. UNCHANGED <<which, age, scoreOf, due, timed>> /\ opened' \in BOOLEAN /\ (opened => opened')
    BY <1>4 DEF Attach, tableVars, timerVars, TableInv, TableTypeOK
  <2> QED
    BY <2>1 DEF TableInv, TableTypeOK, Known, Fresh, Lifetime
<1> QED
  BY <1>1, <1>2, <1>3, <1>4, MinuteInv, CleanInv DEF TableNext

LEMMA TableInvariant == TableSpec => []TableInv
<1>1. TableInit => TableInv
  <2> SUFFICES ASSUME TableInit PROVE TableInv
    OBVIOUS
  <2>1. Unknown \in 0 .. Unknown /\ BestScore \in ExpertScores
    BY TableAssumption DEF Unknown, BestScore
  <2> QED
    BY <2>1 DEF TableInit, TableInv, TableTypeOK
<1> QED
  BY <1>1, TableStepInv, PTL DEF TableSpec

\* The experts that route names (mesh/routing.ts) and the peers of the older protocol
\* (mesh/protocol.ts) were heard of within the lifetime of their table, or a minute more while the
\* timer of the minute is due, once the timer that attach or start set has run for the first time.
THEOREM RoutesAreFreshAlways == TableSpec => []RoutesAreFresh
<1>1. TableInv => RoutesAreFresh
  <2> SUFFICES ASSUME TableInv, timed PROVE RoutesAreFresh
    BY DEF RoutesAreFresh
  <2>1. \A i \in Known : Fresh(i)
    BY DEF TableInv
  <2>2. ASSUME NEW c \in SUBSET Known, NEW r \in Route(c), NEW i \in r.alternatives \cup {r.chosen}
        PROVE  Fresh(i)
    <3>1. i \in c
      BY DEF Route
    <3> QED
      BY <2>1, <3>1
  <2> QED
    BY <2>1, <2>2 DEF RoutesAreFresh, RouteToExpert
<1> QED
  BY <1>1, TableInvariant, PTL

\* The tables of peers keep their shape (mesh/discovery.ts): what is in one is of its ids, heard of
\* no longer ago than is told apart, and an expert has a score of those announced.
THEOREM TableTypeCorrect == TableSpec => []TableTypeOK
<1>1. TableInv => TableTypeOK
  BY DEF TableInv
<1> QED
  BY <1>1, TableInvariant, PTL

-----------------------------------------------------------------------------
(***************************************************************************)
(* DaoOrgs.  The slug of a creation in flight belongs to that creation     *)
(* alone: the first insert waits for another transaction with the slug,    *)
(* and fails when its row is there.  It has no row before the COMMIT, and  *)
(* no answer before the creation ends.                                     *)
(***************************************************************************)
Creation == [step : {"inserted", "owned", "committed"}, slug : Slugs, owner : Users]

OrgsShape ==
  /\ orgs \in [Slugs -> Users \cup {"none"}] /\ teams \in [Teams -> Slugs \cup {"none"}]
  /\ orgMembers \in [Slugs -> [Users -> OrgRoles \cup {"none"}]]
  /\ inserting \in [Creators -> Creation \cup {NoCreation}]
  /\ answers \in [Slugs -> Nat]

Creating(c) == inserting[c].step # "none"
Committed(c) == inserting[c].step = "committed"

Fits(c) ==
  LET s == inserting[c].slug
  IN  /\ Committed(c) => orgs[s] # "none" /\ answers[s] = 0 /\ s \notin unanswered
      /\ ~Committed(c) => orgs[s] = "none"
Alone(c) == \A d \in Creators : Creating(d) /\ inserting[d].slug = inserting[c].slug => d = c

RowsOf(s) ==
  /\ orgs[s] # "none" => s \in ownerChanged \/ orgMembers[s][orgs[s]] = "owner"
  /\ orgs[s] = "none" => GetMembers(s) = {} /\ ListByOrg(s) = {}
AnswersOf(s) ==
  /\ orgs[s] = "none" => answers[s] = 0 /\ s \notin unanswered
  /\ answers[s] <= 1 /\ (answers[s] = 1 => s \notin unanswered)
  /\ orgs[s] # "none" => \/ answers[s] = 1 \/ s \in unanswered
                         \/ \E c \in Creators : Committed(c) /\ inserting[c].slug = s

OrgsInv ==
  /\ OrgsShape
  /\ \A c \in Creators : Creating(c) => Fits(c) /\ Alone(c)
  /\ \A s \in Slugs : RowsOf(s) /\ AnswersOf(s)

LEMMA CreationFacts ==
  ASSUME OrgsShape, NEW c \in Creators
  PROVE  /\ Creating(c) => inserting[c] \in Creation
         /\ inserting[c] \in Creation => Creating(c)
         /\ Committed(c) => Creating(c)
BY DEF OrgsShape, Creating, Committed, NoCreation, Creation

\* A creation before its COMMIT goes on, begins or ends.
LEMMA CreationOnly ==
  ASSUME OrgsInv, NEW c \in Creators, NEW r \in Creation \cup {NoCreation},
         inserting' = [inserting EXCEPT ![c] = r], ~Committed(c), r.step # "committed",
         UNCHANGED <<orgs, orgMembers, teams, answers, unanswered, ownerChanged>>,
         r \in Creation =>
           /\ orgs[r.slug] = "none"
           /\ \A d \in Creators : Creating(d) /\ inserting[d].slug = r.slug => d = c
  PROVE  OrgsInv'
<1>1. OrgsShape'
  BY DEF OrgsInv, OrgsShape
<1>2. inserting'[c] = r /\ \A d \in Creators : d # c => inserting'[d] = inserting[d]
  BY DEF OrgsInv, OrgsShape
<1>3. NoCreation.step = "none"
  BY DEF NoCreation
<1>4. ASSUME NEW d \in Creators, Creating(d)' PROVE Fits(d)' /\ Alone(d)'
  <2>1. CASE d = c
    <3>1. r \in Creation
      BY <1>2, <1>3, <1>4, <2>1 DEF Creating
    <3>2. Fits(d)'
      BY <1>2, <2>1, <3>1 DEF Fits, Committed
    <3>3. Alone(d)'
      BY <1>2, <2>1, <3>1 DEF Alone, Creating
    <3> QED
      BY <3>2, <3>3
  <2>2. CASE d # c
    <3>1. Creating(d) /\ inserting'[d] = inserting[d] /\ Fits(d) /\ Alone(d)
      BY <1>2, <1>4, <2>2 DEF Creating, OrgsInv
    <3>2. Fits(d)'
      BY <3>1 DEF Fits, Committed
    <3>3. ASSUME NEW e \in Creators, Creating(e)', inserting'[e].slug = inserting[d].slug PROVE e = d
      <4>1. CASE e = c
        <5>1. r \in Creation /\ r.slug = inserting[d].slug
          BY <1>2, <1>3, <3>3, <4>1 DEF Creating
        <5> QED
          BY <2>2, <3>1, <5>1
      <4>2. CASE e # c
        BY <1>2, <3>1, <3>3, <4>2 DEF Alone, Creating
      <4> QED
        BY <4>1, <4>2
    <3>4. Alone(d)'
      BY <3>1, <3>3 DEF Alone
    <3> QED
      BY <3>2, <3>4
  <2> QED
    BY <2>1, <2>2
<1>5. ASSUME NEW s \in Slugs PROVE RowsOf(s)' /\ AnswersOf(s)'
  <2>1. RowsOf(s) /\ AnswersOf(s)
    BY DEF OrgsInv
  <2>2. RowsOf(s)'
    BY <2>1 DEF RowsOf, GetMembers, IsMember, ListByOrg
  <2>3. \A d \in Creators : Committed(d) => inserting'[d] = inserting[d]
    BY <1>2
  <2>4. AnswersOf(s)'
    BY <2>1, <2>3 DEF AnswersOf, Committed
  <2> QED
    BY <2>2, <2>4
<1> QED
  BY <1>1, <1>4, <1>5 DEF OrgsInv

LEMMA CommitOrgStep ==
  ASSUME OrgsInv, NEW c \in Creators, CommitOrg(c)
  PROVE  OrgsInv'
<1>1. inserting[c].step = "owned" /\ Creating(c) /\ ~Committed(c)
  BY DEF CommitOrg, Creating, Committed
<1>2. inserting[c] \in Creation
  BY <1>1, CreationFacts DEF OrgsInv
<1>3. PICK s \in Slugs, u \in Users : s = inserting[c].slug /\ u = inserting[c].owner
  BY <1>2 DEF Creation
<1> DEFINE r == [inserting[c] EXCEPT !.step = "committed"]
<1>4. r \in Creation /\ r.slug = s /\ r.step = "committed"
  BY <1>2, <1>3 DEF Creation
<1>5. /\ orgs' = [orgs EXCEPT ![s] = u] /\ orgMembers' = [orgMembers EXCEPT ![s][u] = "owner"]
      /\ inserting' = [inserting EXCEPT ![c] = r]
      /\ UNCHANGED <<teams, teamMembers, answers, unanswered, ownerChanged>>
  BY <1>3 DEF CommitOrg
<1> HIDE DEF r
<1>6. orgs[s] = "none" /\ u # "none" /\ Alone(c)
  BY <1>1, <1>3, OrgsAssumption DEF OrgsInv, Fits
<1> DEFINE f == [orgMembers[s] EXCEPT ![u] = "owner"]
<1>7. f \in [Users -> OrgRoles \cup {"none"}] /\ f[u] = "owner"
  BY DEF OrgsInv, OrgsShape, OrgRoles
<1>8. orgMembers' = [orgMembers EXCEPT ![s] = f]
  BY <1>5
<1> HIDE DEF f
<1>9. /\ orgs'[s] = u /\ orgMembers'[s] = f /\ inserting'[c] = r
      /\ \A q \in Slugs \ {s} : orgs'[q] = orgs[q] /\ orgMembers'[q] = orgMembers[q]
      /\ \A d \in Creators \ {c} : inserting'[d] = inserting[d]
  BY <1>5, <1>8 DEF OrgsInv, OrgsShape
<1>10. OrgsShape'
  <2>1. inserting' \in [Creators -> Creation \cup {NoCreation}]
    BY <1>4, <1>5 DEF OrgsInv, OrgsShape
  <2> QED
    BY <1>5, <1>7, <1>8, <2>1 DEF OrgsInv, OrgsShape
<1>11. answers[s] = 0 /\ s \notin unanswered
  BY <1>6 DEF OrgsInv, AnswersOf
<1>12. \A d \in Creators : (Creating(d)' <=> Creating(d)) /\ inserting'[d].slug = inserting[d].slug
  BY <1>1, <1>3, <1>4, <1>9 DEF Creating
<1>13. ASSUME NEW d \in Creators, Creating(d)' PROVE Fits(d)' /\ Alone(d)'
  <2>1. Creating(d) /\ Fits(d) /\ Alone(d)
    BY <1>12, <1>13 DEF OrgsInv
  <2>2. Alone(d)'
    BY <1>12, <2>1 DEF Alone
  <2>3. CASE d = c
    <3>0. inserting'[d].slug = s /\ Committed(d)'
      BY <1>4, <1>9, <2>3 DEF Committed
    <3>1. Fits(d)'
      BY <1>5, <1>6, <1>9, <1>11, <3>0 DEF Fits
    <3> QED
      BY <2>2, <3>1
  <2>4. CASE d # c
    <3>1. inserting[d] \in Creation /\ inserting[d].slug # s
      BY <1>3, <1>6, <2>1, <2>4, CreationFacts DEF OrgsInv, Alone
    <3>2. inserting[d].slug \in Slugs \ {s}
      BY <3>1 DEF Creation
    <3>3. Fits(d)'
      BY <1>5, <1>9, <2>1, <2>4, <3>2 DEF Fits, Committed
    <3> QED
      BY <2>2, <3>3
  <2> QED
    BY <2>3, <2>4
<1>14. ASSUME NEW q \in Slugs PROVE RowsOf(q)' /\ AnswersOf(q)'
  <2>1. CASE q = s
    <3>1. RowsOf(s)'
      BY <1>6, <1>7, <1>9 DEF RowsOf
    <3>2. Committed(c)' /\ inserting'[c].slug = s
      BY <1>4, <1>9 DEF Committed
    <3>3. AnswersOf(s)'
      BY <1>5, <1>6, <1>9, <1>11, <3>2 DEF AnswersOf
    <3> QED
      BY <2>1, <3>1, <3>3
  <2>2. CASE q # s
    <3>1. RowsOf(q) /\ AnswersOf(q)
      BY DEF OrgsInv
    <3>2. RowsOf(q)'
      BY <1>5, <1>9, <2>2, <3>1 DEF RowsOf, GetMembers, IsMember, ListByOrg
    <3>3. \A d \in Creators : Committed(d) => inserting'[d] = inserting[d]
      BY <1>1, <1>9
    <3>4. AnswersOf(q)'
      BY <1>5, <1>9, <2>2, <3>1, <3>3 DEF AnswersOf, Committed
    <3> QED
      BY <3>2, <3>4
  <2> QED
    BY <2>1, <2>2
<1> QED
  BY <1>10, <1>13, <1>14 DEF OrgsInv

LEMMA CommitAnsweredStep ==
  ASSUME OrgsInv, NEW c \in Creators, NEW ok \in BOOLEAN, CommitAnswered(c, ok)
  PROVE  OrgsInv'
<1>1. Committed(c) /\ Creating(c)
  BY DEF CommitAnswered, Creating, Committed
<1>2. PICK s \in Slugs : s = inserting[c].slug
  BY <1>1, CreationFacts DEF OrgsInv, Creation
<1>3. /\ answers' = IF ok THEN [answers EXCEPT ![s] = @ + 1] ELSE answers
      /\ unanswered' = IF ok THEN unanswered ELSE unanswered \cup {s}
      /\ inserting' = [inserting EXCEPT ![c] = NoCreation]
      /\ UNCHANGED <<orgs, orgMembers, teams, teamMembers, ownerChanged>>
  BY <1>2 DEF CommitAnswered
<1>4. orgs[s] # "none" /\ answers[s] = 0 /\ s \notin unanswered /\ Alone(c)
  BY <1>1, <1>2 DEF OrgsInv, Fits
<1>5. /\ answers'[s] = IF ok THEN 1 ELSE 0
      /\ \A q \in Slugs \ {s} : answers'[q] = answers[q]
      /\ answers' \in [Slugs -> Nat]
  <2>1. answers \in [Slugs -> Nat]
    BY DEF OrgsInv, OrgsShape
  <2>2. CASE ok
    BY <1>3, <1>4, <2>1, <2>2
  <2>3. CASE ~ok
    BY <1>3, <1>4, <2>1, <2>3
  <2> QED
    BY <2>2, <2>3
<1>6. inserting'[c] = NoCreation /\ \A d \in Creators \ {c} : inserting'[d] = inserting[d]
  BY <1>3 DEF OrgsInv, OrgsShape
<1>7. OrgsShape'
  BY <1>3, <1>5 DEF OrgsInv, OrgsShape
<1>8. \A d \in Creators : Creating(d)' => d # c /\ Creating(d) /\ inserting'[d] = inserting[d]
  BY <1>6 DEF Creating, NoCreation
<1>9. ASSUME NEW d \in Creators, Creating(d)' PROVE Fits(d)' /\ Alone(d)'
  <2>1. d # c /\ Creating(d) /\ inserting'[d] = inserting[d] /\ Fits(d) /\ Alone(d)
    BY <1>8, <1>9 DEF OrgsInv
  <2>2. inserting[d].slug \in Slugs \ {s}
    BY <1>2, <1>4, <2>1, CreationFacts DEF OrgsInv, Creation, Alone
  <2>3. Fits(d)'
    BY <1>3, <1>5, <2>1, <2>2 DEF Fits, Committed
  <2>4. Alone(d)'
    BY <1>8, <2>1 DEF Alone
  <2> QED
    BY <2>3, <2>4
<1>10. ASSUME NEW q \in Slugs PROVE RowsOf(q)' /\ AnswersOf(q)'
  <2>1. RowsOf(q) /\ AnswersOf(q)
    BY DEF OrgsInv
  <2>2. RowsOf(q)'
    BY <1>3, <2>1 DEF RowsOf, GetMembers, IsMember, ListByOrg
  <2>3. CASE q = s
    <3>1. AnswersOf(s)'
      BY <1>3, <1>4, <1>5 DEF AnswersOf
    <3> QED
      BY <2>2, <2>3, <3>1
  <2>4. CASE q # s
    <3>1. \A d \in Creators : Committed(d) /\ inserting[d].slug = q => inserting'[d] = inserting[d]
      BY <1>2, <1>6, <2>4
    <3>2. answers'[q] = answers[q] /\ (q \in unanswered' <=> q \in unanswered) /\ orgs'[q] = orgs[q]
      BY <1>3, <1>5, <2>4
    <3>3. AnswersOf(q)'
      BY <2>1, <3>1, <3>2 DEF AnswersOf, Committed
    <3> QED
      BY <2>2, <3>3
  <2> QED
    BY <2>3, <2>4
<1> QED
  BY <1>7, <1>9, <1>10 DEF OrgsInv

\* Rows of organisations, their members and their teams change, creations and answers do not.
LEMMA OnlyRows ==
  ASSUME OrgsInv, UNCHANGED <<orgs, inserting, answers, unanswered>>, OrgsShape',
         \A s \in Slugs : RowsOf(s)'
  PROVE  OrgsInv'
<1>1. ASSUME NEW d \in Creators, Creating(d)' PROVE Fits(d)' /\ Alone(d)'
  <2>1. Creating(d) /\ Fits(d) /\ Alone(d)
    BY <1>1 DEF OrgsInv, Creating
  <2> QED
    BY <2>1 DEF Fits, Alone, Creating, Committed
<1>2. ASSUME NEW s \in Slugs PROVE AnswersOf(s)'
  <2>1. AnswersOf(s)
    BY DEF OrgsInv
  <2> QED
    BY <2>1 DEF AnswersOf, Committed
<1> QED
  BY <1>1, <1>2 DEF OrgsInv

\* A membership row is written or deleted; that of the owner is noted.
LEMMA MemberWritten ==
  ASSUME OrgsInv, NEW s \in Slugs, NEW u \in Users, NEW role \in OrgRoles \cup {"none"},
         orgMembers' = [orgMembers EXCEPT ![s][u] = role], role = "none" \/ orgs[s] # "none",
         ownerChanged' = IF u = orgs[s] THEN ownerChanged \cup {s} ELSE ownerChanged,
         UNCHANGED <<orgs, teams, inserting, answers, unanswered>>
  PROVE  OrgsInv'
<1> DEFINE f == [orgMembers[s] EXCEPT ![u] = role]
<1>1. f \in [Users -> OrgRoles \cup {"none"}] /\ f[u] = role /\ \A q \in Users : q # u => f[q] = orgMembers[s][q]
  BY DEF OrgsInv, OrgsShape
<1>2. orgMembers' = [orgMembers EXCEPT ![s] = f]
  OBVIOUS
<1> HIDE DEF f
<1>3. orgMembers'[s] = f /\ \A q \in Slugs \ {s} : orgMembers'[q] = orgMembers[q]
  BY <1>2 DEF OrgsInv, OrgsShape
<1>4. OrgsShape'
  BY <1>1, <1>2 DEF OrgsInv, OrgsShape
<1>5. ASSUME NEW q \in Slugs PROVE RowsOf(q)'
  <2>1. RowsOf(q)
    BY DEF OrgsInv
  <2>2. ListByOrg(q)' = ListByOrg(q)
    BY DEF ListByOrg
  <2>3. CASE q = s
    <3>1. orgs[s] = "none" => GetMembers(s)' = {}
      BY <1>1, <1>3, <2>1, <2>3 DEF RowsOf, GetMembers, IsMember
    <3>2. orgs[s] # "none" /\ orgs[s] # u => orgs[s] \in Users /\ orgMembers'[s][orgs[s]] = orgMembers[s][orgs[s]]
      BY <1>1, <1>3 DEF OrgsInv, OrgsShape
    <3> QED
      BY <2>1, <2>2, <2>3, <3>1, <3>2 DEF RowsOf
  <2>4. CASE q # s
    <3>1. GetMembers(q)' = GetMembers(q) /\ orgMembers'[q] = orgMembers[q]
      BY <1>3, <2>4 DEF GetMembers, IsMember
    <3> QED
      BY <2>1, <2>2, <3>1 DEF RowsOf
  <2> QED
    BY <2>3, <2>4
<1> QED
  BY <1>4, <1>5, OnlyRows

LEMMA OrgsStepInv == OrgsInv /\ [OrgsNext]_orgVars => OrgsInv'
<1> SUFFICES ASSUME OrgsInv, [OrgsNext]_orgVars PROVE OrgsInv'
  OBVIOUS
<1>1. ASSUME NEW c \in Creators, NEW s \in Slugs, NEW u \in Users, CreateOrg(c, s, u) PROVE OrgsInv'
  <2> DEFINE r == [step |-> "inserted", slug |-> s, owner |-> u]
  <2>1. /\ orgs[s] = "none" /\ s \notin InFlightSlugs /\ inserting' = [inserting EXCEPT ![c] = r]
        /\ inserting[c] = NoCreation
        /\ UNCHANGED <<orgs, orgMembers, teams, answers, unanswered, ownerChanged>>
    BY <1>1 DEF CreateOrg, UnseenRow
  <2>2. r \in Creation /\ r.slug = s /\ r.step # "committed" /\ ~Committed(c)
    BY <2>1 DEF Creation, Committed, NoCreation
  <2>3. ASSUME NEW d \in Creators, Creating(d), inserting[d].slug = s PROVE FALSE
    <3>1. ~Uncommitted(d)
      BY <2>1, <2>3 DEF InFlightSlugs
    <3>2. Committed(d)
      BY <2>3, <3>1, CreationFacts DEF OrgsInv, Creation, Uncommitted, Committed
    <3> QED
      BY <2>1, <2>3, <3>2 DEF OrgsInv, Fits
  <2> HIDE DEF r
  <2> QED
    BY <2>1, <2>2, <2>3, CreationOnly
<1>2. ASSUME NEW c \in Creators, InsertOwner(c) PROVE OrgsInv'
  <2> DEFINE r == [inserting[c] EXCEPT !.step = "owned"]
  <2>1. /\ inserting' = [inserting EXCEPT ![c] = r] /\ Creating(c) /\ ~Committed(c)
        /\ UNCHANGED <<orgs, orgMembers, teams, answers, unanswered, ownerChanged>>
    BY <1>2 DEF InsertOwner, Creating, Committed
  <2>2. r \in Creation /\ r.slug = inserting[c].slug /\ r.step # "committed"
    BY <2>1, CreationFacts DEF OrgsInv, Creation
  <2> HIDE DEF r
  <2>3. orgs[r.slug] = "none" /\ \A d \in Creators : Creating(d) /\ inserting[d].slug = r.slug => d = c
    BY <2>1, <2>2 DEF OrgsInv, Fits, Alone
  <2> QED
    BY <2>1, <2>2, <2>3, CreationOnly
<1>3. ASSUME NEW c \in Creators, RollbackOrg(c) PROVE OrgsInv'
  <2>1. NoCreation \notin Creation /\ NoCreation.step # "committed" /\ ~Committed(c)
    BY <1>3 DEF NoCreation, Creation, RollbackOrg, Uncommitted, Committed
  <2> QED
    BY <1>3, <2>1, CreationOnly DEF RollbackOrg
<1>4. ASSUME NEW s \in Slugs, NEW u \in Users, RemoveMember(s, u) PROVE OrgsInv'
  BY <1>4, MemberWritten DEF RemoveMember
<1>5. ASSUME NEW s \in Slugs, NEW u \in Users, NEW role \in OrgRoles, AddMember(s, u, role) PROVE OrgsInv'
  BY <1>5, MemberWritten DEF AddMember
<1>6. ASSUME NEW t \in Teams, NEW s \in Slugs, CreateTeam(t, s) PROVE OrgsInv'
  <2>1. /\ orgs[s] # "none" /\ teams' = [teams EXCEPT ![t] = s]
        /\ UNCHANGED <<orgs, orgMembers, inserting, answers, unanswered, ownerChanged>>
    BY <1>6 DEF CreateTeam
  <2>2. OrgsShape'
    BY <2>1 DEF OrgsInv, OrgsShape
  <2>3. \A q \in Slugs : q # s => ListByOrg(q)' \subseteq ListByOrg(q)
    BY <2>1 DEF OrgsInv, OrgsShape, ListByOrg
  <2>4. \A q \in Slugs : RowsOf(q)'
    BY <2>1, <2>3 DEF OrgsInv, RowsOf, GetMembers, IsMember
  <2> QED
    BY <2>1, <2>2, <2>4, OnlyRows
<1>7. ASSUME UNCHANGED <<orgs, orgMembers, teams, inserting, answers, unanswered, ownerChanged>> PROVE OrgsInv'
  <2>1. OrgsShape'
    BY <1>7 DEF OrgsInv, OrgsShape
  <2>2. \A q \in Slugs : RowsOf(q)'
    BY <1>7 DEF OrgsInv, RowsOf, GetMembers, IsMember, ListByOrg
  <2> QED
    BY <1>7, <2>1, <2>2, OnlyRows
<1>8. ASSUME NEW t \in Teams, NEW u \in Users,
             RemoveTeamMember(t, u) \/ \E role \in TeamRoles : AddTeamMember(t, u, role)
      PROVE  OrgsInv'
  BY <1>7, <1>8 DEF RemoveTeamMember, AddTeamMember
<1>9. CASE UNCHANGED orgVars
  BY <1>7, <1>9 DEF orgVars
<1> QED
  BY <1>1, <1>2, <1>3, <1>4, <1>5, <1>6, <1>8, <1>9, CommitOrgStep, CommitAnsweredStep DEF OrgsNext

LEMMA OrgsInvariant == OrgsSpec => []OrgsInv
<1>1. OrgsInit => OrgsInv
  <2> SUFFICES ASSUME OrgsInit PROVE OrgsInv
    OBVIOUS
  <2>1. OrgsShape
    BY DEF OrgsInit, OrgsShape
  <2>2. \A c \in Creators : ~Creating(c)
    BY DEF OrgsInit, Creating, NoCreation
  <2>3. \A s \in Slugs : RowsOf(s) /\ AnswersOf(s)
    BY OrgsAssumption DEF OrgsInit, RowsOf, AnswersOf, GetMembers, IsMember, ListByOrg
  <2> QED
    BY <2>1, <2>2, <2>3 DEF OrgsInv
<1> QED
  BY <1>1, OrgsStepInv, PTL DEF OrgsSpec

\* create makes the organisation and its owner's membership in one transaction
\* (dao/modules/org-crud.ts), and the slug lets one creation of several in: the rows come together
\* and are answered with success once, or not at all when the answer of the COMMIT is lost.
THEOREM OwnedFromTheStartAlways == OrgsSpec => []OwnedFromTheStart
<1>1. OrgsInv => OwnedFromTheStart
  BY DEF OrgsInv, RowsOf, AnswersOf, Committed, OwnedFromTheStart
<1> QED
  BY <1>1, OrgsInvariant, PTL

\* The members of the teams, which OrgsInv says nothing of, and whose owner's row was written.
TeamsTyped ==
  teamMembers \in [Teams -> [Users -> TeamRoles \cup {"none"}]] /\ ownerChanged \subseteq Slugs

\* Organisations and teams keep their shape (dao/modules/org-crud.ts, team-crud.ts): a member has a
\* role of those there are.
THEOREM OrgsTypeCorrect == OrgsSpec => []OrgsTypeOK
<1>1. OrgsInit => TeamsTyped
  BY DEF OrgsInit, TeamsTyped
<1>2. TeamsTyped /\ [OrgsNext]_orgVars => TeamsTyped'
  <2> SUFFICES ASSUME TeamsTyped, [OrgsNext]_orgVars PROVE TeamsTyped'
    OBVIOUS
  <2>1. ASSUME UNCHANGED <<teamMembers, ownerChanged>> PROVE TeamsTyped'
    BY <2>1 DEF TeamsTyped
  <2>2. ASSUME NEW t \in Teams, NEW u \in Users, NEW role \in TeamRoles \cup {"none"},
               teamMembers' = [teamMembers EXCEPT ![t][u] = role], ownerChanged' = ownerChanged
        PROVE  TeamsTyped'
    <3>1. PICK f \in [Users -> TeamRoles \cup {"none"}] : f = [teamMembers[t] EXCEPT ![u] = role]
      BY DEF TeamsTyped
    <3>2. teamMembers' = [teamMembers EXCEPT ![t] = f]
      BY <2>2, <3>1
    <3> QED
      BY <2>2, <3>2 DEF TeamsTyped
  <2>3. ASSUME NEW s \in Slugs, teamMembers' = teamMembers, ownerChanged' \subseteq ownerChanged \cup {s}
        PROVE  TeamsTyped'
    BY <2>3 DEF TeamsTyped
  <2>4. ASSUME NEW s \in Slugs, NEW u \in Users, RemoveMember(s, u) PROVE TeamsTyped'
    BY <2>3, <2>4 DEF RemoveMember
  <2>5. ASSUME NEW s \in Slugs, NEW u \in Users, NEW role, AddMember(s, u, role) PROVE TeamsTyped'
    BY <2>3, <2>5 DEF AddMember
  <2>6. ASSUME NEW t \in Teams, NEW u \in Users, RemoveTeamMember(t, u) PROVE TeamsTyped'
    BY <2>2, <2>6 DEF RemoveTeamMember
  <2>7. ASSUME NEW t \in Teams, NEW u \in Users, NEW role \in TeamRoles, AddTeamMember(t, u, role) PROVE TeamsTyped'
    BY <2>2, <2>7 DEF AddTeamMember
  <2>8. ASSUME NEW c, NEW s, NEW u, CreateOrg(c, s, u) PROVE TeamsTyped'
    BY <2>1, <2>8 DEF CreateOrg
  <2>9. ASSUME NEW c, InsertOwner(c) \/ CommitOrg(c) \/ RollbackOrg(c) \/ \E ok \in BOOLEAN : CommitAnswered(c, ok)
        PROVE  TeamsTyped'
    BY <2>1, <2>9 DEF InsertOwner, CommitOrg, CommitAnswered, RollbackOrg
  <2>10. ASSUME NEW t, NEW s, CreateTeam(t, s) PROVE TeamsTyped'
    BY <2>1, <2>10 DEF CreateTeam
  <2>11. CASE UNCHANGED orgVars
    BY <2>1, <2>11 DEF orgVars
  <2> QED
    BY <2>4, <2>5, <2>6, <2>7, <2>8, <2>9, <2>10, <2>11 DEF OrgsNext
<1>3. OrgsInv /\ TeamsTyped => OrgsTypeOK
  BY DEF OrgsInv, OrgsShape, TeamsTyped, OrgsTypeOK
<1> QED
  BY <1>1, <1>2, <1>3, OrgsInvariant, PTL DEF OrgsSpec

-----------------------------------------------------------------------------
(***************************************************************************)
(* DaoNodes.  A row, once there, keeps its shape whatever is written to it. *)
(***************************************************************************)
NodeRow == [here : {TRUE}, mesh : NodeMeshIds \cup {"none"}, owner : Owners \cup {"none"},
            reputation : 0 .. 10, stake : Stakes \cup {0}, earned : Nat]

RowsInv == nodeRows \in [NodeRows -> NodeRow \cup {NoNode}]

LEMMA RowOf ==
  ASSUME RowsInv, NEW n \in NodeRows, HasRow(n)
  PROVE  nodeRows[n] \in NodeRow
BY DEF RowsInv, HasRow, NoNode

LEMMA NodesStepInv == RowsInv /\ [NodesNext]_rowVars => RowsInv'
<1> SUFFICES ASSUME RowsInv, [NodesNext]_rowVars PROVE RowsInv'
  OBVIOUS
<1>1. ASSUME NEW n \in NodeRows, NEW r \in NodeRow, nodeRows' = [nodeRows EXCEPT ![n] = r] PROVE RowsInv'
  BY <1>1 DEF RowsInv
<1>2. ASSUME NEW n \in NodeRows, NEW m \in NodeMeshIds \cup {"none"}, NEW o \in Owners \cup {"none"},
             RegisterNode(n, m, o)
      PROVE  RowsInv'
  <2> DEFINE r == [here |-> TRUE, mesh |-> m, owner |-> o, reputation |-> 5, stake |-> 0, earned |-> 0]
  <2>1. r \in NodeRow
    BY DEF NodeRow
  <2>2. nodeRows' = [nodeRows EXCEPT ![n] = r]
    BY <1>2 DEF RegisterNode
  <2> HIDE DEF r
  <2> QED
    BY <1>1, <2>1, <2>2
<1>3. ASSUME NEW n \in NodeRows, NEW s \in Scores, NEW k \in Stakes \cup {Undefined}, UpdateReputation(n, s, k)
      PROVE  RowsInv'
  <2> DEFINE stake == IF k = Undefined THEN nodeRows[n].stake ELSE k
             r == [nodeRows[n] EXCEPT !.reputation = s, !.stake = stake]
  <2>1. HasRow(n) /\ s \in 0 .. 10 /\ nodeRows' = [nodeRows EXCEPT ![n] = r]
    BY <1>3 DEF UpdateReputation
  <2>2. nodeRows[n] \in NodeRow
    BY <2>1, RowOf
  <2>3. stake \in Stakes \cup {0}
    BY <2>2 DEF NodeRow
  <2> HIDE DEF stake
  <2>4. r \in NodeRow
    BY <2>1, <2>2, <2>3 DEF NodeRow
  <2> HIDE DEF r
  <2> QED
    BY <1>1, <2>1, <2>4
<1>4. ASSUME NEW n \in NodeRows, RecordEarnings(n, 1) PROVE RowsInv'
  <2> DEFINE e == nodeRows[n].earned + 1
             r == [nodeRows[n] EXCEPT !.earned = e]
  <2>1. HasRow(n) /\ nodeRows' = [nodeRows EXCEPT ![n] = r]
    BY <1>4 DEF RecordEarnings
  <2>2. nodeRows[n] \in NodeRow
    BY <2>1, RowOf
  <2>3. e \in Nat
    <3>1. PICK k \in Nat : k = nodeRows[n].earned
      BY <2>2 DEF NodeRow
    <3> QED
      BY <3>1
  <2> HIDE DEF e
  <2>4. r \in NodeRow
    BY <2>2, <2>3 DEF NodeRow
  <2> HIDE DEF r
  <2> QED
    BY <1>1, <2>1, <2>4
<1>5. ASSUME nodeRows' = nodeRows PROVE RowsInv'
  BY <1>5 DEF RowsInv
<1>6. \A n \in NodeRows, d \in Daos : LeaveDAO(n, d) => nodeRows' = nodeRows
  BY DEF LeaveDAO
<1>7. \A n, d, role, s : JoinDAO(n, d, role, s) => nodeRows' = nodeRows
  BY DEF JoinDAO
<1>8. \A o, d, role : LinkOrgToDAO(o, d, role) => nodeRows' = nodeRows
  BY DEF LinkOrgToDAO
<1>9. CASE UNCHANGED rowVars
  BY <1>5, <1>9 DEF rowVars
<1> QED
  BY <1>2, <1>3, <1>4, <1>5, <1>6, <1>7, <1>8, <1>9 DEF NodesNext

LEMMA NodesInvariant == NodesSpec => []RowsInv
<1>1. NodesInit => RowsInv
  BY DEF NodesInit, RowsInv
<1> QED
  BY <1>1, NodesStepInv, PTL DEF NodesSpec

\* The DAOs of the organisations, which RowsInv says nothing of.
OrgDaosTyped == orgDaos \in [Owners -> [Daos -> {"none", "owner", "member"}]]

\* The rows of nodes keep their shape (dao/modules/node-crud.ts): a reputation is within its range
\* and nothing earned is lost below zero.
THEOREM NodesTypeCorrect == NodesSpec => []NodesTypeOK
<1>1. NodesInit => OrgDaosTyped
  BY DEF NodesInit, OrgDaosTyped
<1>2. OrgDaosTyped /\ [NodesNext]_rowVars => OrgDaosTyped'
  <2> SUFFICES ASSUME OrgDaosTyped, [NodesNext]_rowVars PROVE OrgDaosTyped'
    OBVIOUS
  <2>1. ASSUME NEW o \in Owners, NEW d \in Daos, NEW role \in {"owner", "member"}, LinkOrgToDAO(o, d, role)
        PROVE  OrgDaosTyped'
    <3>1. PICK f \in [Daos -> {"none", "owner", "member"}] : f = [orgDaos[o] EXCEPT ![d] = role]
      BY DEF OrgDaosTyped
    <3>2. orgDaos' = [orgDaos EXCEPT ![o] = f]
      BY <2>1, <3>1 DEF LinkOrgToDAO
    <3> QED
      BY <3>2 DEF OrgDaosTyped
  <2>2. \/ orgDaos' = orgDaos
        \/ \E o \in Owners, d \in Daos, role \in {"owner", "member"} : LinkOrgToDAO(o, d, role)
    BY DEF NodesNext, RegisterNode, UpdateReputation, RecordEarnings, JoinDAO, LeaveDAO, rowVars
  <2> QED
    BY <2>1, <2>2 DEF OrgDaosTyped
<1>3. RowsInv /\ OrgDaosTyped => NodesTypeOK
  <2> SUFFICES ASSUME RowsInv, OrgDaosTyped, NEW n \in NodeRows, HasRow(n)
               PROVE  nodeRows[n].reputation \in 0 .. 10 /\ nodeRows[n].earned \in Nat
    BY DEF NodesTypeOK, OrgDaosTyped
  <2>1. nodeRows[n] \in NodeRow
    BY RowOf
  <2> QED
    BY <2>1 DEF NodeRow
<1> QED
  BY <1>1, <1>2, <1>3, NodesInvariant, PTL DEF NodesSpec

-----------------------------------------------------------------------------
(***************************************************************************)
(* HostCalls.  Four invariants, one for each kind of calls: each says what *)
(* a call has done by its step, and what is left when no call is at a step *)
(* that matters.  A step of another kind disturbs none of it (Quiet).      *)
(***************************************************************************)
HostCall == [op : Kinds \cup {"none", "unregister"}, vm : VmNames, step : 0 .. 3, cores : Cores \cup {NoCores},
             entry : 0 .. MaxEntries, process : 0 .. MaxEntries]
GuestEntry == [there : BOOLEAN, number : 0 .. MaxEntries, process : 0 .. MaxEntries, recorded : Cores \cup {NoCores}]
ChainOf == [policy : {"accept", "drop"}, rules : Seq({"accept", "drop"})]

HostShape ==
  /\ kind \in Kinds /\ usbClosed \in BOOLEAN
  /\ calls \in [Callers -> HostCall]
  /\ entry \in [VmNames -> GuestEntry]
  /\ filterFile \subseteq VmNames /\ kept \subseteq VmNames
  /\ returned \subseteq VmNames /\ unsealed \subseteq VmNames /\ mixed \subseteq VmNames
  /\ mounts \in [VmNames -> Seq({"rw", "ro"})]
  /\ processCores \in [VmNames -> [Processes -> Cores \cup {NoCores}]]
  /\ cgroupCores \in [VmNames -> Cores \cup {NoCores}]
  /\ chain \in [VmNames -> [Processes -> ChainOf]]

EntriesInOrder ==
  /\ \A v \in VmNames : entry[v].process <= entry[v].number /\ (entry[v].there => entry[v].process # 0)
  /\ \A c \in Callers : calls[c].op \notin {"none", "overlay"} => calls[c].process # 0

FilterInv ==
  \A v \in filterFile \ kept :
    \E c \in Callers : calls[c].op = "seccomp" /\ calls[c].vm = v /\ calls[c].step \in {2, 3}

Remounting(v) == \E c \in Callers : calls[c].op = "overlay" /\ calls[c].vm = v /\ calls[c].step = 2
OverlayInv ==
  /\ \A c \in Callers : calls[c].op = "overlay" /\ calls[c].step = 2 => mounts[calls[c].vm] # <<>>
  /\ \A v \in returned \ unsealed : ~Remounting(v) => mounts[v][Len(mounts[v])] = "ro"

PolicyInv ==
  /\ \A c \in Callers : calls[c].op = "policy" /\ calls[c].step \in {2, 3} =>
       chain[calls[c].vm][calls[c].process].policy = "drop"
  /\ RulesUnderDrop

\* What the one call that pins an id has done, x, and what is on record while it has done nothing.
Pinned(v, x) ==
  /\ x.step \in {1, 2, 3}
  /\ x.step \in {2, 3} => processCores[v][x.process] = x.cores
  /\ x.step = 3 => cgroupCores[v] = x.cores
  /\ x.entry <= entry[v].number
  /\ x.entry = entry[v].number => x.process = entry[v].process
  /\ x.entry # entry[v].number => entry[v].recorded = NoCores
Agreed(v) ==
  entry[v].recorded # NoCores =>
    entry[v].recorded = cgroupCores[v] /\ entry[v].recorded = processCores[v][entry[v].process]
PinsOf(v) ==
  /\ \A c, d \in Busy(v, "pin") : c = d
  /\ \A c \in Busy(v, "pin") : Pinned(v, calls[c])
  /\ (\A c \in Busy(v, "pin") : calls[c].step = 1) => Agreed(v)
PinInv == \A v \in VmNames \ mixed : PinsOf(v)

THEOREM IdleCall == Idle \in HostCall /\ Idle.op = "none" /\ Idle.step = 0
<1>1. (CHOOSE v \in VmNames : TRUE) \in VmNames
  BY HostAssumption
<1> QED
  BY <1>1, HostAssumption DEF Idle, HostCall

\* What a step does to the call of c: it goes on to its next command, or is over.
Advanced(c) ==
  /\ calls' \in [Callers -> HostCall]
  /\ \A d \in Callers \ {c} : calls'[d] = calls[d]
  /\ calls'[c].op = calls[c].op /\ calls'[c].vm = calls[c].vm /\ calls'[c].cores = calls[c].cores
  /\ calls'[c].entry = calls[c].entry /\ calls'[c].process = calls[c].process
  /\ calls'[c].step = calls[c].step + 1
Over(c) ==
  /\ calls' \in [Callers -> HostCall]
  /\ \A d \in Callers \ {c} : calls'[d] = calls[d]
  /\ calls'[c] = Idle

LEMMA CallMoves ==
  ASSUME HostShape, NEW c \in Callers, NEW ok \in BOOLEAN
  PROVE  /\ Goes(c, ok) /\ ok /\ calls[c].step \in {1, 2} => Advanced(c)
         /\ Goes(c, ok) /\ ~ok => Over(c)
         /\ Returns(c) => Over(c)
<1>1. ASSUME Goes(c, ok), ok, calls[c].step \in {1, 2} PROVE Advanced(c)
  <2>1. calls' = [calls EXCEPT ![c].step = calls[c].step + 1]
    BY <1>1 DEF Goes
  <2>2. PICK y \in HostCall : y = calls[c]
    BY DEF HostShape
  <2>3. y.step \in {1, 2}
    BY <1>1, <2>2
  <2> DEFINE z == [y EXCEPT !.step = y.step + 1]
  <2>4. /\ z \in HostCall /\ z.op = y.op /\ z.vm = y.vm /\ z.cores = y.cores
        /\ z.entry = y.entry /\ z.process = y.process /\ z.step = y.step + 1
    BY <2>3 DEF HostCall
  <2>5. calls' = [calls EXCEPT ![c] = z]
    BY <2>1, <2>2
  <2> HIDE DEF z
  <2>6. calls' \in [Callers -> HostCall] /\ calls'[c] = z /\ \A d \in Callers \ {c} : calls'[d] = calls[d]
    BY <2>4, <2>5 DEF HostShape
  <2> QED
    BY <2>2, <2>4, <2>6 DEF Advanced
<1>2. PICK i \in HostCall : i = Idle
  BY IdleCall
<1>3. ASSUME calls' = [calls EXCEPT ![c] = i] PROVE Over(c)
  BY <1>2, <1>3 DEF Over, HostShape
<1> QED
  BY <1>1, <1>2, <1>3 DEF Goes, Returns

\* The steps of each kind.
FilterStep(c) == FilterLoaded(c) \/ \E ok \in BOOLEAN : FilterWritten(c, ok) \/ FilterRemoved(c, ok)
OverlayStep(c) == \E ok \in BOOLEAN : OverlayMounted(c, ok) \/ OverlayRemounted(c, ok)
PinStep(c) == PinRecorded(c) \/ \E ok \in BOOLEAN : ProcessPinned(c, ok) \/ CgroupPinned(c, ok)
PolicyStep(c) == \E ok \in BOOLEAN : PolicySet(c, ok) \/ RuleAppended(c, ok)
DeviceStep(c) == \E ok \in BOOLEAN : DevicesClosed(c, ok)
EndStep(c) == GuestUnregistered(c) \/ \E ok \in BOOLEAN : RulesFlushed(c, ok)
BeginStep(c) ==
  \E v \in VmNames, op \in Kinds \cup {"unregister"}, cs \in Cores \cup {NoCores}, p \in Processes \cup {0} :
    CallBegins(c, op, v, cs, p)

LEMMA HostSteps ==
  ASSUME [HostNext]_hostVars
  PROVE  \/ UNCHANGED hostVars
         \/ \E v \in VmNames, p \in Processes : RegisterGuest(v, p)
         \/ \E c \in Callers : \/ BeginStep(c) \/ FilterStep(c) \/ OverlayStep(c) \/ PinStep(c)
                               \/ PolicyStep(c) \/ DeviceStep(c) \/ EndStep(c)
<1>1. CASE HostNext
  <2>1. ASSUME NEW c \in Callers, NEW ok \in BOOLEAN,
               \/ FilterWritten(c, ok) \/ FilterRemoved(c, ok) \/ OverlayMounted(c, ok) \/ OverlayRemounted(c, ok)
               \/ ProcessPinned(c, ok) \/ CgroupPinned(c, ok) \/ PolicySet(c, ok) \/ RuleAppended(c, ok)
               \/ DevicesClosed(c, ok) \/ RulesFlushed(c, ok)
        PROVE  FilterStep(c) \/ OverlayStep(c) \/ PinStep(c) \/ PolicyStep(c) \/ DeviceStep(c) \/ EndStep(c)
    BY <2>1 DEF FilterStep, OverlayStep, PinStep, PolicyStep, DeviceStep, EndStep
  <2>2. ASSUME NEW c \in Callers, FilterLoaded(c) \/ PinRecorded(c) \/ GuestUnregistered(c)
        PROVE  FilterStep(c) \/ PinStep(c) \/ EndStep(c)
    BY <2>2 DEF FilterStep, PinStep, EndStep
  <2>3. ASSUME NEW c \in Callers, NEW v \in VmNames, NEW op \in Kinds \cup {"unregister"},
               NEW cs \in Cores \cup {NoCores}, NEW p \in Processes \cup {0}, CallBegins(c, op, v, cs, p)
        PROVE  BeginStep(c)
    BY <2>3 DEF BeginStep
  <2> QED
    BY <1>1, <2>1, <2>2, <2>3 DEF HostNext
<1> QED
  BY <1>1

\* The call that begins.
LEMMA CallBegun ==
  ASSUME HostShape, EntriesInOrder, NEW c \in Callers, NEW v \in VmNames, NEW op \in Kinds \cup {"unregister"},
         NEW cs \in Cores \cup {NoCores}, NEW p \in Processes \cup {0}, CallBegins(c, op, v, cs, p)
  PROVE  /\ calls' \in [Callers -> HostCall]
         /\ \A d \in Callers \ {c} : calls'[d] = calls[d]
         /\ calls[c].op = "none" /\ calls'[c].op = op /\ calls'[c].vm = v /\ calls'[c].step = 1
         /\ calls'[c].entry = entry[v].number /\ calls'[c].process = p
         /\ op # "overlay" => p # 0
         /\ op = "pin" => p = entry[v].process
<1> DEFINE x == [op |-> op, vm |-> v, step |-> 1, cores |-> cs, entry |-> entry[v].number, process |-> p]
<1>1. entry[v] \in GuestEntry
  BY DEF HostShape
<1>2. entry[v].number \in 0 .. MaxEntries
  BY <1>1 DEF GuestEntry
<1>3. x \in HostCall
  BY <1>2, HostAssumption DEF HostCall, Processes
<1>4. /\ x.op = op /\ x.vm = v /\ x.step = 1 /\ x.entry = entry[v].number /\ x.process = p
  OBVIOUS
<1>5. calls[c] = Idle /\ calls' = [calls EXCEPT ![c] = x]
  BY DEF CallBegins
<1> HIDE DEF x
<1>6. calls' \in [Callers -> HostCall] /\ calls'[c] = x /\ \A d \in Callers \ {c} : calls'[d] = calls[d]
  BY <1>3, <1>5 DEF HostShape
<1>7. op # "overlay" => p # 0
  <2>1. ASSUME op # "overlay" PROVE entry[v].there /\ entry[v].process # 0
    BY <2>1 DEF CallBegins, EntriesInOrder
  <2>2. p \in IF op = "policy" THEN 1 .. entry[v].number ELSE {entry[v].process}
    BY DEF CallBegins
  <2> QED
    BY <1>2, <2>1, <2>2
<1>8. op = "pin" => p = entry[v].process
  BY DEF CallBegins
<1> QED
  BY <1>4, <1>5, <1>6, <1>7, <1>8, IdleCall

\* The step of a caller of a kind moves its own call only.
LEMMA KindMoves ==
  ASSUME HostShape, NEW c \in Callers
  PROVE  /\ FilterStep(c) => calls[c].op = "seccomp" /\ (Advanced(c) \/ Over(c))
         /\ OverlayStep(c) => calls[c].op = "overlay" /\ (Advanced(c) \/ Over(c))
         /\ PinStep(c) => calls[c].op = "pin" /\ (Advanced(c) \/ Over(c))
         /\ PolicyStep(c) => calls[c].op = "policy" /\ (Advanced(c) \/ Over(c))
         /\ DeviceStep(c) => calls[c].op = "devices" /\ Over(c)
         /\ EndStep(c) => calls[c].op = "unregister" /\ (Advanced(c) \/ Over(c))
<1>1. ASSUME NEW ok \in BOOLEAN, Goes(c, ok), calls[c].step \in {1, 2} PROVE Advanced(c) \/ Over(c)
  BY <1>1, CallMoves
<1>2. ASSUME Returns(c) PROVE Over(c)
  <2>1. TRUE \in BOOLEAN
    OBVIOUS
  <2> QED
    BY <1>2, <2>1, CallMoves
<1>3. FilterStep(c) => calls[c].op = "seccomp" /\ (Advanced(c) \/ Over(c))
  BY <1>1, <1>2 DEF FilterStep, FilterLoaded, FilterWritten, FilterRemoved, At
<1>4. OverlayStep(c) => calls[c].op = "overlay" /\ (Advanced(c) \/ Over(c))
  BY <1>1, <1>2 DEF OverlayStep, OverlayMounted, OverlayRemounted, At
<1>5. PinStep(c) => calls[c].op = "pin" /\ (Advanced(c) \/ Over(c))
  BY <1>1, <1>2 DEF PinStep, PinRecorded, ProcessPinned, CgroupPinned, At
<1>6. ASSUME PolicyStep(c) PROVE calls[c].op = "policy" /\ (Advanced(c) \/ Over(c))
  <2>1. PICK ok \in BOOLEAN : PolicySet(c, ok) \/ RuleAppended(c, ok)
    BY <1>6 DEF PolicyStep
  <2>2. CASE PolicySet(c, ok)
    BY <1>1, <2>2 DEF PolicySet, At
  <2>3. CASE RuleAppended(c, ok)
    BY <1>1, <1>2, <2>3 DEF RuleAppended
  <2> QED
    BY <2>1, <2>2, <2>3
<1>7. ASSUME DeviceStep(c) PROVE calls[c].op = "devices" /\ Over(c)
  <2>1. calls[c].op = "devices" /\ Goes(c, FALSE) /\ FALSE \in BOOLEAN
    BY <1>7 DEF DeviceStep, DevicesClosed, At
  <2> QED
    BY <2>1, CallMoves
<1>8. EndStep(c) => calls[c].op = "unregister" /\ (Advanced(c) \/ Over(c))
  BY <1>1, <1>2 DEF EndStep, GuestUnregistered, RulesFlushed, At
<1> QED
  BY <1>3, <1>4, <1>5, <1>6, <1>7, <1>8

\* The calls of a kind are as they were, or begin.
Quiet(op) ==
  \A c \in Callers : /\ calls[c].op = op => calls'[c] = calls[c]
                     /\ calls'[c].op = op => calls'[c] = calls[c] \/ calls'[c].step = 1

LEMMA MovesQuietly ==
  ASSUME HostShape, NEW c \in Callers, Advanced(c) \/ Over(c)
  PROVE  \A op \in Kinds : op # calls[c].op => Quiet(op)
<1> SUFFICES ASSUME NEW op \in Kinds, op # calls[c].op PROVE Quiet(op)
  OBVIOUS
<1>1. calls'[c].op # op /\ \A d \in Callers \ {c} : calls'[d] = calls[d]
  BY IdleCall DEF Advanced, Over, Kinds
<1> QED
  BY <1>1 DEF Quiet

LEMMA BeginsQuietly ==
  ASSUME HostShape, EntriesInOrder, NEW c \in Callers, BeginStep(c), NEW op \in Kinds
  PROVE  Quiet(op)
<1>1. PICK v \in VmNames, o \in Kinds \cup {"unregister"}, cs \in Cores \cup {NoCores}, p \in Processes \cup {0} :
        CallBegins(c, o, v, cs, p)
  BY DEF BeginStep
<1>2. calls[c].op = "none" /\ calls'[c].step = 1 /\ \A d \in Callers \ {c} : calls'[d] = calls[d]
  BY <1>1, CallBegun
<1> QED
  BY <1>2 DEF Quiet, Kinds

LEMMA FilterPreserved ==
  ASSUME HostShape, EntriesInOrder, FilterInv, [HostNext]_hostVars
  PROVE  FilterInv'
<1>1. ASSUME Quiet("seccomp"), UNCHANGED filterVars PROVE FilterInv'
  BY <1>1 DEF Quiet, filterVars, FilterInv
<1>2. ASSUME NEW c \in Callers, FilterStep(c) PROVE FilterInv'
  <2>1. calls[c].op = "seccomp" /\ calls[c].vm \in VmNames
    BY <1>2, KindMoves DEF HostShape, HostCall
  <2>2. ASSUME NEW ok \in BOOLEAN, FilterWritten(c, ok) PROVE FilterInv'
    <3>1. calls[c].step = 1 /\ Goes(c, ok)
      BY <2>2 DEF FilterWritten, At
    <3>2. CASE ok
      <4>1. kept' = kept /\ filterFile' = filterFile \cup {calls[c].vm}
        BY <2>2, <3>2 DEF FilterWritten
      <4>2. Advanced(c)
        BY <3>1, <3>2, CallMoves
      <4>3. calls'[c].op = "seccomp" /\ calls'[c].vm = calls[c].vm /\ calls'[c].step = 2
        BY <2>1, <3>1, <4>2 DEF Advanced
      <4>4. \A d \in Callers : d # c => calls'[d] = calls[d]
        BY <4>2 DEF Advanced
      <4> QED
        BY <3>1, <4>1, <4>3, <4>4 DEF FilterInv
    <3>3. CASE ~ok
      <4>1. kept' = kept \cup {calls[c].vm} /\ filterFile' \subseteq filterFile \cup {calls[c].vm}
        BY <2>2, <3>3 DEF FilterWritten
      <4>2. \A d \in Callers : d # c => calls'[d] = calls[d]
        BY <3>1, <3>3, CallMoves DEF Over
      <4> QED
        BY <3>1, <4>1, <4>2 DEF FilterInv
    <3> QED
      BY <3>2, <3>3
  <2>3. ASSUME FilterLoaded(c) PROVE FilterInv'
    <3>1. calls[c].step = 2 /\ Goes(c, TRUE) /\ TRUE \in BOOLEAN
      BY <2>3 DEF FilterLoaded, At
    <3>2. Advanced(c)
      BY <3>1, CallMoves
    <3> QED
      BY <2>3, <3>1, <3>2 DEF FilterLoaded, filterVars, Advanced, FilterInv
  <2>4. ASSUME NEW ok \in BOOLEAN, FilterRemoved(c, ok) PROVE FilterInv'
    <3>1. Over(c)
      BY <2>4, CallMoves DEF FilterRemoved
    <3>2. filterFile' \ kept' = (filterFile \ kept) \ {calls[c].vm}
      BY <2>4 DEF FilterRemoved
    <3> QED
      BY <3>1, <3>2 DEF Over, FilterInv
  <2> QED
    BY <1>2, <2>2, <2>3, <2>4 DEF FilterStep
<1>3. ASSUME NEW v, NEW p, RegisterGuest(v, p) PROVE FilterInv'
  BY <1>3 DEF RegisterGuest, filterVars, FilterInv
<1>4. ASSUME UNCHANGED hostVars PROVE FilterInv'
  BY <1>4 DEF hostVars, filterVars, FilterInv
<1>5. ASSUME NEW c \in Callers, BeginStep(c) PROVE FilterInv'
  <2>1. "seccomp" \in Kinds /\ UNCHANGED filterVars
    BY <1>5 DEF BeginStep, CallBegins, Kinds
  <2> QED
    BY <1>1, <1>5, <2>1, BeginsQuietly
<1>6. ASSUME NEW c \in Callers, OverlayStep(c) \/ PinStep(c) \/ PolicyStep(c) \/ DeviceStep(c) \/ EndStep(c)
      PROVE  FilterInv'
  <2>1. calls[c].op # "seccomp" /\ (Advanced(c) \/ Over(c)) /\ "seccomp" \in Kinds
    BY <1>6, KindMoves DEF Kinds
  <2>2. Quiet("seccomp")
    BY <2>1, MovesQuietly
  <2>3. OverlayStep(c) \/ PinStep(c) => UNCHANGED filterVars
    BY DEF OverlayStep, OverlayMounted, OverlayRemounted, PinStep, PinRecorded, ProcessPinned, CgroupPinned
  <2>4. PolicyStep(c) \/ DeviceStep(c) \/ EndStep(c) => UNCHANGED filterVars
    BY DEF PolicyStep, PolicySet, RuleAppended, DeviceStep, DevicesClosed, EndStep, GuestUnregistered, RulesFlushed
  <2> QED
    BY <1>1, <1>6, <2>2, <2>3, <2>4
<1> QED
  BY <1>2, <1>3, <1>4, <1>5, <1>6, HostSteps

\* The mount on top of the stack is changed in its place.
LEMMA TopChanged ==
  ASSUME NEW m \in Seq({"rw", "ro"}), m # <<>>
  PROVE  LET n == [m EXCEPT ![Len(m)] = "ro"] IN n \in Seq({"rw", "ro"}) /\ Len(n) = Len(m) /\ n[Len(n)] = "ro"
<1> DEFINE n == [m EXCEPT ![Len(m)] = "ro"]
<1>1. Len(m) \in 1 .. Len(m) /\ m \in [1 .. Len(m) -> {"rw", "ro"}] /\ Len(m) \in Nat
  OBVIOUS
<1>2. n \in [1 .. Len(m) -> {"rw", "ro"}] /\ n[Len(m)] = "ro"
  BY <1>1
<1> QED
  BY <1>1, <1>2

\* What one command does to the mounts of its id.
LEMMA MountsOfStep ==
  ASSUME HostShape, OverlayInv, NEW c \in Callers, OverlayStep(c)
  PROVE  \E v \in VmNames, n \in Seq({"rw", "ro"}) :
           /\ v = calls[c].vm /\ mounts' = [mounts EXCEPT ![v] = n]
           /\ mounts[v] # <<>> => n # <<>>
           /\ \/ Advanced(c) /\ calls[c].step = 1 /\ n # <<>> /\ UNCHANGED <<returned, unsealed>>
              \/ Over(c) /\ calls[c].step = 1 /\ n = mounts[v] /\ UNCHANGED <<returned, unsealed>>
              \/ Over(c) /\ n[Len(n)] = "ro" /\ returned' = returned \cup {v} /\ unsealed' = unsealed \ {v}
              \/ Over(c) /\ n = mounts[v] /\ UNCHANGED returned /\ unsealed' = unsealed \cup {v}
<1>1. PICK v \in VmNames : v = calls[c].vm
  BY DEF HostShape, HostCall
<1>2. PICK m \in Seq({"rw", "ro"}) : m = mounts[v]
  BY DEF HostShape
<1>3. mounts = [mounts EXCEPT ![v] = m]
  BY <1>2 DEF HostShape
<1>4. PICK ok \in BOOLEAN : OverlayMounted(c, ok) \/ OverlayRemounted(c, ok)
  BY DEF OverlayStep
<1>5. CASE OverlayMounted(c, ok)
  <2>1. calls[c].step = 1 /\ Goes(c, ok) /\ UNCHANGED <<returned, unsealed>>
    BY <1>5 DEF OverlayMounted, At
  <2>2. CASE ok
    <3>1. Append(m, "rw") \in Seq({"rw", "ro"}) /\ Append(m, "rw") # <<>>
      OBVIOUS
    <3>2. mounts' = [mounts EXCEPT ![v] = Append(m, "rw")]
      BY <1>1, <1>2, <1>5, <2>2 DEF OverlayMounted
    <3>3. Advanced(c)
      BY <2>1, <2>2, CallMoves
    <3> QED
      BY <1>1, <2>1, <3>1, <3>2, <3>3
  <2>3. CASE ~ok
    <3>1. mounts' = mounts /\ Over(c)
      BY <1>5, <2>1, <2>3, CallMoves DEF OverlayMounted
    <3> QED
      BY <1>1, <1>2, <1>3, <2>1, <3>1
  <2> QED
    BY <2>2, <2>3
<1>6. CASE OverlayRemounted(c, ok)
  <2>1. calls[c].op = "overlay" /\ calls[c].step = 2 /\ Returns(c)
    BY <1>6 DEF OverlayRemounted, At
  <2>2. m # <<>> /\ Over(c)
    BY <1>1, <1>2, <2>1, CallMoves DEF OverlayInv
  <2>3. CASE ok
    <3>1. PICK n \in Seq({"rw", "ro"}) : n = [m EXCEPT ![Len(m)] = "ro"] /\ Len(n) = Len(m) /\ n[Len(n)] = "ro"
      BY <2>2, TopChanged
    <3>2. mounts' = [mounts EXCEPT ![v] = n] /\ returned' = returned \cup {v} /\ unsealed' = unsealed \ {v}
      BY <1>1, <1>2, <1>6, <2>3, <3>1 DEF OverlayRemounted
    <3>3. n # <<>>
      BY <2>2, <3>1
    <3> QED
      BY <1>1, <2>2, <3>1, <3>2, <3>3
  <2>4. CASE ~ok
    <3>1. mounts' = mounts /\ returned' = returned /\ unsealed' = unsealed \cup {v}
      BY <1>1, <1>6, <2>4 DEF OverlayRemounted
    <3> QED
      BY <1>1, <1>2, <1>3, <2>2, <3>1
  <2> QED
    BY <2>3, <2>4
<1> QED
  BY <1>4, <1>5, <1>6

LEMMA OverlayPreserved ==
  ASSUME HostShape, EntriesInOrder, OverlayInv, [HostNext]_hostVars
  PROVE  OverlayInv'
<1>1. ASSUME Quiet("overlay"), UNCHANGED overlayVars, HostShape PROVE OverlayInv'
  <2>1. \A v : Remounting(v)' <=> Remounting(v)
    BY <1>1 DEF Quiet, Remounting
  <2>2. UNCHANGED <<mounts, returned, unsealed>>
    BY <1>1 DEF overlayVars
  <2>3. \A c \in Callers : calls'[c].op = "overlay" /\ calls'[c].step = 2 => calls'[c] = calls[c]
    BY <1>1 DEF Quiet
  <2> QED
    BY <2>1, <2>2, <2>3 DEF OverlayInv
<1>2. ASSUME NEW c \in Callers, OverlayStep(c) PROVE OverlayInv'
  <2>1. PICK v \in VmNames, n \in Seq({"rw", "ro"}) :
           /\ v = calls[c].vm /\ mounts' = [mounts EXCEPT ![v] = n]
           /\ mounts[v] # <<>> => n # <<>>
           /\ \/ Advanced(c) /\ calls[c].step = 1 /\ n # <<>> /\ UNCHANGED <<returned, unsealed>>
              \/ Over(c) /\ calls[c].step = 1 /\ n = mounts[v] /\ UNCHANGED <<returned, unsealed>>
              \/ Over(c) /\ n[Len(n)] = "ro" /\ returned' = returned \cup {v} /\ unsealed' = unsealed \ {v}
              \/ Over(c) /\ n = mounts[v] /\ UNCHANGED returned /\ unsealed' = unsealed \cup {v}
    BY <1>2, MountsOfStep
  <2>2. mounts'[v] = n /\ \A w \in VmNames : w # v => mounts'[w] = mounts[w]
    BY <2>1 DEF HostShape
  <2>3. \A d \in Callers : d # c => calls'[d] = calls[d]
    BY <2>1 DEF Advanced, Over
  <2>4. calls[c].op = "overlay"
    BY <1>2, KindMoves
  <2>5. ASSUME NEW d \in Callers, calls'[d].op = "overlay", calls'[d].step = 2 PROVE mounts'[calls'[d].vm] # <<>>
    <3>1. CASE d # c
      <4>1. calls'[d] = calls[d] /\ mounts[calls[d].vm] # <<>> /\ calls[d].vm \in VmNames
        BY <2>3, <2>5, <3>1 DEF OverlayInv, HostShape, HostCall
      <4> QED
        BY <2>1, <2>2, <4>1
    <3>2. CASE d = c
      <4>1. Advanced(c) /\ n # <<>>
        BY <2>1, <2>5, <3>2, IdleCall DEF Over
      <4> QED
        BY <2>1, <2>2, <3>2, <4>1 DEF Advanced
    <3> QED
      BY <3>1, <3>2
  <2>6. ASSUME NEW w \in returned' \ unsealed', ~Remounting(w)' PROVE mounts'[w][Len(mounts'[w])] = "ro"
    <3>1. CASE w # v
      <4>1. w \in returned \ unsealed /\ w \in VmNames
        BY <2>1, <2>6, <3>1 DEF HostShape
      <4>2. ~Remounting(w)
        BY <2>1, <2>3, <2>6, <3>1 DEF Remounting
      <4> QED
        BY <2>2, <3>1, <4>1, <4>2 DEF OverlayInv
    <3>2. CASE w = v
      <4>1. CASE Advanced(c) /\ calls[c].step = 1
        <5>1. calls'[c].op = "overlay" /\ calls'[c].vm = w /\ calls'[c].step = 2
          BY <2>1, <2>4, <3>2, <4>1 DEF Advanced
        <5> QED
          BY <2>6, <5>1 DEF Remounting
      <4>2. CASE Over(c) /\ calls[c].step = 1 /\ n = mounts[v] /\ UNCHANGED <<returned, unsealed>>
        <5>1. ~Remounting(w)
          BY <2>3, <2>6, <4>2 DEF Remounting
        <5> QED
          BY <2>2, <2>6, <3>2, <4>2, <5>1 DEF OverlayInv
      <4>3. CASE n[Len(n)] = "ro"
        BY <2>2, <3>2, <4>3
      <4>4. CASE unsealed' = unsealed \cup {v}
        BY <2>6, <3>2, <4>4
      <4> QED
        BY <2>1, <4>1, <4>2, <4>3, <4>4
    <3> QED
      BY <3>1, <3>2
  <2> QED
    BY <2>5, <2>6 DEF OverlayInv
<1>3. ASSUME NEW v, NEW p, RegisterGuest(v, p) PROVE OverlayInv'
  BY <1>3 DEF RegisterGuest, overlayVars, OverlayInv, Remounting
<1>4. ASSUME UNCHANGED hostVars PROVE OverlayInv'
  BY <1>4 DEF hostVars, overlayVars, OverlayInv, Remounting
<1>5. ASSUME NEW c \in Callers, BeginStep(c) PROVE OverlayInv'
  <2>1. "overlay" \in Kinds /\ UNCHANGED overlayVars
    BY <1>5 DEF BeginStep, CallBegins, Kinds
  <2> QED
    BY <1>1, <1>5, <2>1, BeginsQuietly
<1>6. ASSUME NEW c \in Callers, FilterStep(c) \/ PinStep(c) \/ PolicyStep(c) \/ DeviceStep(c) \/ EndStep(c)
      PROVE  OverlayInv'
  <2>1. calls[c].op # "overlay" /\ (Advanced(c) \/ Over(c)) /\ "overlay" \in Kinds
    BY <1>6, KindMoves DEF Kinds
  <2>2. Quiet("overlay")
    BY <2>1, MovesQuietly
  <2>3. FilterStep(c) \/ PinStep(c) => UNCHANGED overlayVars
    BY DEF FilterStep, FilterLoaded, FilterWritten, FilterRemoved, PinStep, PinRecorded, ProcessPinned, CgroupPinned
  <2>4. PolicyStep(c) \/ DeviceStep(c) \/ EndStep(c) => UNCHANGED overlayVars
    BY DEF PolicyStep, PolicySet, RuleAppended, DeviceStep, DevicesClosed, EndStep, GuestUnregistered, RulesFlushed
  <2> QED
    BY <1>1, <1>6, <2>2, <2>3, <2>4
<1> QED
  BY <1>2, <1>3, <1>4, <1>5, <1>6, HostSteps

\* What one command does to the chain of its process, if the process is one of the id's.
ChainSet(v, p, n) ==
  /\ \A w \in VmNames, q \in Processes : (w # v \/ q # p) => chain'[w][q] = chain[w][q]
  /\ p \in Processes => chain'[v][p] = n

LEMMA ChainUpdated ==
  ASSUME HostShape, NEW v \in VmNames, NEW p, NEW n \in ChainOf, chain' = [chain EXCEPT ![v][p] = n]
  PROVE  ChainSet(v, p, n) /\ chain' \in [VmNames -> [Processes -> ChainOf]]
<1>1. PICK r \in [Processes -> ChainOf] : r = chain[v]
  BY DEF HostShape
<1>2. [r EXCEPT ![p] = n] \in [Processes -> ChainOf]
  OBVIOUS
<1>3. chain' = [chain EXCEPT ![v] = [r EXCEPT ![p] = n]]
  BY <1>1
<1>4. /\ chain' \in [VmNames -> [Processes -> ChainOf]]
      /\ chain'[v] = [r EXCEPT ![p] = n] /\ \A w \in VmNames : w # v => chain'[w] = chain[w]
  BY <1>2, <1>3 DEF HostShape
<1> QED
  BY <1>1, <1>4 DEF ChainSet

LEMMA ChainOfStep ==
  ASSUME HostShape, PolicyInv, EntriesInOrder, NEW c \in Callers, PolicyStep(c) \/ EndStep(c)
  PROVE  \/ UNCHANGED chain /\ ~Advanced(c)
         \/ UNCHANGED chain /\ calls[c].op = "unregister"
         \/ \E v \in VmNames, p \in Processes, n \in ChainOf :
              /\ v = calls[c].vm /\ p = calls[c].process /\ chain' = [chain EXCEPT ![v][p] = n]
              /\ n.policy = IF calls[c].op = "policy" THEN "drop" ELSE chain[v][p].policy
              /\ calls[c].op = "unregister" => n.rules = <<>>
<1>1. PICK v \in VmNames, p \in 0 .. MaxEntries : v = calls[c].vm /\ p = calls[c].process
  BY DEF HostShape, HostCall
<1>2. calls[c].op \in {"policy", "unregister"}
  BY KindMoves
<1>3. p \in Processes
  BY <1>1, <1>2, HostAssumption DEF EntriesInOrder, Processes
<1>4. PICK old \in ChainOf : old = chain[v][p]
  BY <1>3 DEF HostShape
<1>5. ASSUME NEW n \in ChainOf, chain' = [chain EXCEPT ![v][p] = n],
             n.policy = IF calls[c].op = "policy" THEN "drop" ELSE chain[v][p].policy,
             calls[c].op = "unregister" => n.rules = <<>>
      PROVE  \E w \in VmNames, q \in Processes, m \in ChainOf :
              /\ w = calls[c].vm /\ q = calls[c].process /\ chain' = [chain EXCEPT ![w][q] = m]
              /\ m.policy = IF calls[c].op = "policy" THEN "drop" ELSE chain[w][q].policy
              /\ calls[c].op = "unregister" => m.rules = <<>>
  BY <1>1, <1>3, <1>5
<1>6. ASSUME NEW ok \in BOOLEAN, PolicySet(c, ok)
      PROVE  \/ UNCHANGED chain /\ ~Advanced(c)
             \/ \E n \in ChainOf : n.policy = "drop" /\ chain' = [chain EXCEPT ![v][p] = n]
  <2>1. CASE ok
    <3>1. PICK n \in ChainOf : n = [old EXCEPT !.policy = "drop"] /\ n.policy = "drop"
      <4>1. [old EXCEPT !.policy = "drop"] \in ChainOf /\ [old EXCEPT !.policy = "drop"].policy = "drop"
        BY DEF ChainOf
      <4> QED
        BY <4>1
    <3>2. chain' = [chain EXCEPT ![v][p].policy = "drop"]
      BY <1>1, <1>6, <2>1 DEF PolicySet
    <3>3. [chain EXCEPT ![v][p].policy = "drop"] = [chain EXCEPT ![v][p] = n]
      BY <1>4, <3>1
    <3> QED
      BY <3>1, <3>2, <3>3
  <2>2. CASE ~ok
    <3>1. UNCHANGED chain /\ Over(c)
      BY <1>6, <2>2, CallMoves DEF PolicySet
    <3> QED
      BY <1>2, <3>1, IdleCall DEF Over, Advanced
  <2> QED
    BY <2>1, <2>2
<1>7. ASSUME NEW ok \in BOOLEAN, RuleAppended(c, ok)
      PROVE  \/ UNCHANGED chain /\ ~Advanced(c)
             \/ \E n \in ChainOf : n.policy = "drop" /\ chain' = [chain EXCEPT ![v][p] = n]
  <2>1. calls[c].op = "policy" /\ calls[c].step \in {2, 3} /\ old.policy = "drop"
    BY <1>1, <1>4, <1>7 DEF RuleAppended, PolicyInv
  <2>2. CASE ok
    <3>1. PICK e \in {"accept", "drop"} : e = IF calls[c].step = 2 THEN "accept" ELSE "drop"
      OBVIOUS
    <3>2. PICK r \in Seq({"accept", "drop"}) : r = old.rules
      BY DEF ChainOf
    <3>3. Append(r, e) \in Seq({"accept", "drop"})
      OBVIOUS
    <3>4. PICK n \in ChainOf : n = [old EXCEPT !.rules = Append(r, e)] /\ n.policy = "drop"
      <4> DEFINE a == Append(r, e)
      <4>1. a \in Seq({"accept", "drop"})
        BY <3>3
      <4> HIDE DEF a
      <4>2. [old EXCEPT !.rules = a] \in ChainOf /\ [old EXCEPT !.rules = a].policy = "drop"
        BY <2>1, <4>1 DEF ChainOf
      <4> QED
        BY <4>2 DEF a
    <3>5. chain' = [chain EXCEPT ![v][p].rules = Append(@, e)]
      BY <1>1, <1>7, <2>2, <3>1 DEF RuleAppended
    <3>6. [chain EXCEPT ![v][p].rules = Append(@, e)] = [chain EXCEPT ![v][p] = n]
      BY <1>4, <3>2, <3>4
    <3> QED
      BY <3>4, <3>5, <3>6
  <2>3. CASE ~ok
    <3>1. UNCHANGED chain
      BY <1>7, <2>3 DEF RuleAppended
    <3>2. Over(c)
      BY <1>7, <2>3, CallMoves DEF RuleAppended
    <3> QED
      BY <1>2, <3>1, <3>2, IdleCall DEF Over, Advanced
  <2> QED
    BY <2>2, <2>3
<1>8. ASSUME NEW ok \in BOOLEAN, RulesFlushed(c, ok)
      PROVE  \/ UNCHANGED chain
             \/ \E n \in ChainOf : /\ n.policy = chain[v][p].policy /\ n.rules = <<>>
                                   /\ chain' = [chain EXCEPT ![v][p] = n]
  <2>1. CASE ok
    <3>1. Flushed(old) \in ChainOf /\ Flushed(old).policy = old.policy /\ Flushed(old).rules = <<>>
      BY DEF Flushed, ChainOf
    <3>2. chain' = [chain EXCEPT ![v][p] = Flushed(@)]
      BY <1>1, <1>8, <2>1 DEF RulesFlushed
    <3>3. [chain EXCEPT ![v][p] = Flushed(@)] = [chain EXCEPT ![v][p] = Flushed(old)]
      BY <1>4
    <3> QED
      BY <1>4, <3>1, <3>2, <3>3
  <2>2. CASE ~ok
    BY <1>8, <2>2 DEF RulesFlushed
  <2> QED
    BY <2>1, <2>2
<1>9. CASE PolicyStep(c)
  <2>1. calls[c].op = "policy"
    BY <1>9, KindMoves
  <2>2. PICK ok \in BOOLEAN : PolicySet(c, ok) \/ RuleAppended(c, ok)
    BY <1>9 DEF PolicyStep
  <2>3. \/ UNCHANGED chain /\ ~Advanced(c)
        \/ \E n \in ChainOf : n.policy = "drop" /\ chain' = [chain EXCEPT ![v][p] = n]
    BY <1>6, <1>7, <2>2
  <2> QED
    BY <1>5, <2>1, <2>3
<1>10. CASE EndStep(c)
  <2>1. calls[c].op = "unregister"
    BY <1>10, KindMoves
  <2>2. CASE GuestUnregistered(c)
    BY <2>1, <2>2 DEF GuestUnregistered
  <2>3. ASSUME NEW ok \in BOOLEAN, RulesFlushed(c, ok)
        PROVE  \/ UNCHANGED chain
               \/ \E n \in ChainOf : /\ n.policy = chain[v][p].policy /\ n.rules = <<>>
                                     /\ chain' = [chain EXCEPT ![v][p] = n]
    BY <1>8, <2>3
  <2> QED
    BY <1>5, <1>10, <2>1, <2>2, <2>3 DEF EndStep
<1> QED
  BY <1>9, <1>10

LEMMA PolicyPreserved ==
  ASSUME HostShape, EntriesInOrder, PolicyInv, [HostNext]_hostVars
  PROVE  PolicyInv'
<1>1. ASSUME Quiet("policy"), UNCHANGED chain PROVE PolicyInv'
  BY <1>1 DEF Quiet, PolicyInv, RulesUnderDrop
<1>2. ASSUME NEW c \in Callers, PolicyStep(c) \/ EndStep(c) PROVE PolicyInv'
  <2>1. /\ calls[c].op \in {"policy", "unregister"} /\ (Advanced(c) \/ Over(c))
    BY <1>2, KindMoves
  <2>2. \A d \in Callers : d # c => calls'[d] = calls[d]
    BY <2>1 DEF Advanced, Over
  <2>3. CASE UNCHANGED chain /\ ~Advanced(c)
    <3>1. calls'[c].op = "none"
      BY <2>1, <2>3, IdleCall DEF Over
    <3> QED
      BY <2>2, <2>3, <3>1 DEF PolicyInv, RulesUnderDrop
  <2>4. CASE UNCHANGED chain /\ calls[c].op = "unregister"
    <3>1. calls'[c].op # "policy"
      BY <2>1, <2>4, IdleCall DEF Advanced, Over
    <3> QED
      BY <2>2, <2>4, <3>1 DEF PolicyInv, RulesUnderDrop
  <2>5. ASSUME NEW v \in VmNames, NEW p \in Processes, NEW n \in ChainOf,
               v = calls[c].vm, p = calls[c].process, chain' = [chain EXCEPT ![v][p] = n],
               n.policy = IF calls[c].op = "policy" THEN "drop" ELSE chain[v][p].policy,
               calls[c].op = "unregister" => n.rules = <<>>
        PROVE  PolicyInv'
    <3>1. ChainSet(v, p, n)
      BY <2>5, ChainUpdated
    <3>2. ASSUME NEW w \in VmNames, NEW q \in Processes, chain[w][q].policy = "drop"
          PROVE  chain'[w][q].policy = "drop"
      BY <2>5, <3>1, <3>2 DEF ChainSet
    <3>3. ASSUME NEW w \in VmNames, NEW q \in Processes, chain'[w][q].rules # <<>>
          PROVE  chain'[w][q].policy = "drop"
      BY <2>1, <2>5, <3>1, <3>3 DEF ChainSet, PolicyInv, RulesUnderDrop
    <3>4. ASSUME NEW d \in Callers, calls'[d].op = "policy", calls'[d].step \in {2, 3}
          PROVE  chain'[calls'[d].vm][calls'[d].process].policy = "drop"
      <4>1. CASE d # c
        <5>1. PICK x \in HostCall : x = calls[d]
          BY DEF HostShape
        <5>2. calls'[d] = x /\ x.op = "policy" /\ x.step \in {2, 3} /\ x.vm \in VmNames
          BY <2>2, <3>4, <4>1, <5>1 DEF HostCall
        <5>3. x.process \in Processes
          BY <5>1, <5>2, HostAssumption DEF EntriesInOrder, HostCall, Processes
        <5> QED
          BY <3>2, <5>1, <5>2, <5>3 DEF PolicyInv
      <4>2. CASE d = c
        <5>1. Advanced(c) /\ calls[c].op = "policy"
          BY <2>1, <3>4, <4>2, IdleCall DEF Over, Advanced
        <5> QED
          BY <2>5, <3>1, <4>2, <5>1 DEF Advanced, ChainSet
      <4> QED
        BY <4>1, <4>2
    <3> QED
      BY <3>3, <3>4 DEF PolicyInv, RulesUnderDrop
  <2> QED
    BY <1>2, <2>3, <2>4, <2>5, ChainOfStep
<1>3. ASSUME NEW v, NEW p, RegisterGuest(v, p) PROVE PolicyInv'
  BY <1>3 DEF RegisterGuest, PolicyInv, RulesUnderDrop
<1>4. ASSUME UNCHANGED hostVars PROVE PolicyInv'
  BY <1>4 DEF hostVars, PolicyInv, RulesUnderDrop
<1>5. ASSUME NEW c \in Callers, BeginStep(c) PROVE PolicyInv'
  <2>1. "policy" \in Kinds /\ UNCHANGED chain
    BY <1>5 DEF BeginStep, CallBegins, Kinds
  <2> QED
    BY <1>1, <1>5, <2>1, BeginsQuietly
<1>6. ASSUME NEW c \in Callers, FilterStep(c) \/ OverlayStep(c) \/ PinStep(c) \/ DeviceStep(c)
      PROVE  PolicyInv'
  <2>1. calls[c].op # "policy" /\ (Advanced(c) \/ Over(c)) /\ "policy" \in Kinds
    BY <1>6, KindMoves DEF Kinds
  <2>2. Quiet("policy")
    BY <2>1, MovesQuietly
  <2>3. FilterStep(c) \/ PinStep(c) => UNCHANGED chain
    BY DEF FilterStep, FilterLoaded, FilterWritten, FilterRemoved, PinStep, PinRecorded, ProcessPinned, CgroupPinned
  <2>4. OverlayStep(c) \/ DeviceStep(c) => UNCHANGED chain
    BY DEF OverlayStep, OverlayMounted, OverlayRemounted, DeviceStep, DevicesClosed
  <2> QED
    BY <1>1, <1>6, <2>2, <2>3, <2>4
<1> QED
  BY <1>2, <1>3, <1>4, <1>5, <1>6, HostSteps

\* An id whose calls, entry and cores a step leaves alone.
LEMMA PinsStay ==
  ASSUME HostShape, NEW v \in VmNames, PinsOf(v), Busy(v, "pin")' = Busy(v, "pin"),
         \A c \in Busy(v, "pin") : calls'[c] = calls[c],
         entry'[v].number = entry[v].number, entry'[v].process = entry[v].process,
         entry'[v].recorded = entry[v].recorded,
         processCores'[v] = processCores[v], cgroupCores'[v] = cgroupCores[v]
  PROVE  PinsOf(v)'
<1>1. Agreed(v)' <=> Agreed(v)
  BY DEF Agreed
<1>2. ASSUME NEW c \in Busy(v, "pin") PROVE Pinned(v, calls[c])'
  BY <1>2 DEF Pinned, PinsOf
<1> QED
  BY <1>1, <1>2 DEF PinsOf

\* The steps of other kinds.
LEMMA PinsOfOthers ==
  ASSUME HostShape, PinInv, NEW c \in Callers, Advanced(c) \/ Over(c), calls[c].op # "pin", UNCHANGED coreVars,
         UNCHANGED entry \/ GuestUnregistered(c)
  PROVE  PinInv'
<1>1. calls'[c].op # "pin" /\ \A d \in Callers : d # c => calls'[d] = calls[d]
  BY IdleCall DEF Advanced, Over
<1>2. \A v \in VmNames : entry'[v].number = entry[v].number /\ entry'[v].process = entry[v].process
                         /\ entry'[v].recorded = entry[v].recorded
  <2>1. CASE UNCHANGED entry
    BY <2>1
  <2>2. CASE GuestUnregistered(c)
    <3>1. entry' = [entry EXCEPT ![calls[c].vm].there = FALSE]
      BY <2>2 DEF GuestUnregistered
    <3> QED
      BY <3>1 DEF HostShape, GuestEntry
  <2> QED
    BY <2>1, <2>2
<1>3. UNCHANGED <<processCores, cgroupCores, mixed>>
  BY DEF coreVars
<1>4. ASSUME NEW v \in VmNames \ mixed' PROVE PinsOf(v)'
  <2>1. PinsOf(v)
    BY <1>3, <1>4 DEF PinInv
  <2>2. Busy(v, "pin")' = Busy(v, "pin") /\ \A d \in Busy(v, "pin") : calls'[d] = calls[d]
    BY <1>1 DEF Busy
  <2> QED
    BY <1>2, <1>3, <2>1, <2>2, PinsStay
<1> QED
  BY <1>4 DEF PinInv

LEMMA PinStepInv ==
  ASSUME HostShape, EntriesInOrder, PinInv, NEW c \in Callers, PinStep(c)
  PROVE  PinInv'
<1>1. PICK v \in VmNames : v = calls[c].vm
  BY DEF HostShape, HostCall
<1>2. PICK x \in HostCall : x = calls[c] /\ x.op = "pin" /\ x.vm = v
  BY <1>1, KindMoves DEF HostShape
<1>3. x.process \in Processes
  BY <1>2, HostAssumption DEF HostCall, EntriesInOrder, Processes
<1>4. \A d \in Callers : d # c => calls'[d] = calls[d]
  BY KindMoves DEF Advanced, Over
<1>5. calls'[c].op = "pin" => calls'[c].vm = v
  BY <1>2, KindMoves, IdleCall DEF Advanced, Over
<1>6. ASSUME NEW w \in VmNames \ mixed', w # v,
             mixed \subseteq mixed', entry'[w] = entry[w], processCores'[w] = processCores[w],
             cgroupCores'[w] = cgroupCores[w]
      PROVE  PinsOf(w)'
  <2>1. PinsOf(w)
    BY <1>6 DEF PinInv
  <2>2. Busy(w, "pin")' = Busy(w, "pin") /\ \A d \in Busy(w, "pin") : calls'[d] = calls[d]
    BY <1>2, <1>4, <1>5, <1>6 DEF Busy
  <2> QED
    BY <1>6, <2>1, <2>2, PinsStay
<1>7. ASSUME v \notin mixed
      PROVE  /\ Busy(v, "pin") = {c} /\ Pinned(v, x) /\ (x.step = 1 => Agreed(v))
             /\ calls'[c].op = "pin" => Busy(v, "pin")' = {c}
             /\ calls'[c].op # "pin" => Busy(v, "pin")' = {}
  <2>1. c \in Busy(v, "pin") /\ PinsOf(v)
    BY <1>2, <1>7 DEF Busy, PinInv
  <2>2. Busy(v, "pin") = {c}
    BY <2>1 DEF PinsOf
  <2>3. \A d \in Callers : d # c => d \notin Busy(v, "pin")'
    BY <1>4, <2>2 DEF Busy
  <2> QED
    BY <1>2, <1>5, <2>1, <2>2, <2>3 DEF PinsOf, Busy
<1>8. ASSUME NEW ok \in BOOLEAN, ProcessPinned(c, ok) PROVE PinInv'
  <2>1. x.step = 1 /\ Goes(c, ok) /\ UNCHANGED <<entry, cgroupCores, mixed>>
    BY <1>2, <1>8 DEF ProcessPinned, At, Goes
  <2>2. CASE ok
    <3>1. Advanced(c)
      BY <1>2, <2>1, <2>2, CallMoves
    <3>2. processCores' = [processCores EXCEPT ![v][x.process] = x.cores]
      BY <1>2, <1>8, <2>2 DEF ProcessPinned
    <3>3. PICK r \in [Processes -> Cores \cup {NoCores}] : r = processCores[v]
      BY DEF HostShape
    <3>4. processCores'[v] = [r EXCEPT ![x.process] = x.cores]
      BY <3>2, <3>3 DEF HostShape
    <3>5. processCores'[v][x.process] = x.cores
      BY <1>3, <3>3, <3>4
    <3>6. \A w \in VmNames : w # v => processCores'[w] = processCores[w]
      BY <3>2 DEF HostShape
    <3>7. ASSUME v \notin mixed PROVE PinsOf(v)'
      <4>1. Busy(v, "pin")' = {c} /\ Pinned(v, x)
        BY <1>2, <1>7, <3>1, <3>7 DEF Advanced
      <4>2. /\ calls'[c].step = 2 /\ calls'[c].process = x.process /\ calls'[c].cores = x.cores
            /\ calls'[c].entry = x.entry
        BY <1>2, <2>1, <3>1 DEF Advanced
      <4>3. Pinned(v, calls[c])'
        BY <2>1, <3>5, <4>1, <4>2 DEF Pinned
      <4> QED
        BY <4>1, <4>2, <4>3 DEF PinsOf
    <3> QED
      BY <1>6, <2>1, <3>6, <3>7 DEF PinInv
  <2>3. CASE ~ok
    <3>1. Over(c) /\ UNCHANGED processCores
      BY <1>8, <2>1, <2>3, CallMoves DEF ProcessPinned
    <3>2. calls'[c].op # "pin"
      BY <3>1, IdleCall DEF Over
    <3>3. ASSUME v \notin mixed PROVE PinsOf(v)'
      <4>1. Busy(v, "pin")' = {} /\ Agreed(v)
        BY <1>7, <2>1, <3>2, <3>3
      <4>2. Agreed(v)'
        BY <2>1, <3>1, <4>1 DEF Agreed
      <4> QED
        BY <4>1, <4>2 DEF PinsOf
    <3> QED
      BY <1>6, <2>1, <3>1, <3>3 DEF PinInv
  <2> QED
    BY <2>2, <2>3
<1>9. ASSUME NEW ok \in BOOLEAN, CgroupPinned(c, ok) PROVE PinInv'
  <2>1. x.step = 2 /\ Goes(c, ok) /\ UNCHANGED <<entry, processCores>>
    BY <1>2, <1>9 DEF CgroupPinned, At, Goes
  <2>2. CASE ok
    <3>1. Advanced(c)
      BY <1>2, <2>1, <2>2, CallMoves
    <3>2. cgroupCores' = [cgroupCores EXCEPT ![v] = x.cores] /\ mixed' = mixed
      BY <1>2, <1>9, <2>2 DEF CgroupPinned
    <3>3. cgroupCores'[v] = x.cores /\ \A w \in VmNames : w # v => cgroupCores'[w] = cgroupCores[w]
      BY <3>2 DEF HostShape
    <3>4. ASSUME v \notin mixed PROVE PinsOf(v)'
      <4>1. Busy(v, "pin")' = {c} /\ Pinned(v, x)
        BY <1>2, <1>7, <3>1, <3>4 DEF Advanced
      <4>2. /\ calls'[c].step = 3 /\ calls'[c].process = x.process /\ calls'[c].cores = x.cores
            /\ calls'[c].entry = x.entry
        BY <1>2, <2>1, <3>1 DEF Advanced
      <4>3. Pinned(v, calls[c])'
        BY <2>1, <3>3, <4>1, <4>2 DEF Pinned
      <4> QED
        BY <4>1, <4>2, <4>3 DEF PinsOf
    <3> QED
      BY <1>6, <2>1, <3>2, <3>3, <3>4 DEF PinInv
  <2>3. CASE ~ok
    <3>1. UNCHANGED cgroupCores /\ mixed' = mixed \cup {v}
      BY <1>1, <1>9, <2>3 DEF CgroupPinned
    <3> QED
      BY <1>6, <2>1, <3>1 DEF PinInv
  <2> QED
    BY <2>2, <2>3
<1>10. ASSUME PinRecorded(c) PROVE PinInv'
  <2>1. x.step = 3 /\ Returns(c) /\ UNCHANGED <<processCores, cgroupCores, mixed>>
    BY <1>2, <1>10 DEF PinRecorded, At, coreVars
  <2>2. Over(c)
    <3>1. TRUE \in BOOLEAN
      OBVIOUS
    <3> QED
      BY <2>1, <3>1, CallMoves
  <2>3. calls'[c].op # "pin"
    BY <2>2, IdleCall DEF Over
  <2>4. entry' = IF entry[v].number = x.entry THEN [entry EXCEPT ![v].recorded = x.cores] ELSE entry
    BY <1>2, <1>10 DEF PinRecorded
  <2>5. PICK e \in GuestEntry : e = entry[v]
    BY DEF HostShape
  <2>6. \A w \in VmNames : w # v => entry'[w] = entry[w]
    BY <2>4 DEF HostShape
  <2>7. ASSUME v \notin mixed PROVE PinsOf(v)'
    <3>1. Busy(v, "pin")' = {} /\ Pinned(v, x)
      BY <1>7, <2>3, <2>7
    <3>2. CASE entry[v].number = x.entry
      <4>1. entry'[v] = [e EXCEPT !.recorded = x.cores]
        BY <2>4, <2>5, <3>2 DEF HostShape
      <4>2. entry'[v].recorded = x.cores /\ entry'[v].process = entry[v].process
        BY <2>5, <4>1 DEF GuestEntry
      <4>3. Agreed(v)'
        BY <2>1, <3>1, <3>2, <4>2 DEF Agreed, Pinned
      <4> QED
        BY <3>1, <4>3 DEF PinsOf
    <3>3. CASE entry[v].number # x.entry
      <4>1. Agreed(v)'
        BY <2>4, <3>1, <3>3 DEF Agreed, Pinned
      <4> QED
        BY <3>1, <4>1 DEF PinsOf
    <3> QED
      BY <3>2, <3>3
  <2> QED
    BY <1>6, <2>1, <2>6, <2>7 DEF PinInv
<1> QED
  BY <1>8, <1>9, <1>10 DEF PinStep

\* A new entry has no cores on record, and every call in progress is of an entry before it.
LEMMA RegistersUnpinned ==
  ASSUME HostShape, PinInv, NEW v \in VmNames, NEW p \in Processes, RegisterGuest(v, p)
  PROVE  PinInv'
<1>1. PICK n \in 0 .. MaxEntries : n = entry[v].number
  BY DEF HostShape, GuestEntry
<1>2. entry'[v].number = n + 1 /\ entry'[v].recorded = NoCores /\ \A w \in VmNames : w # v => entry'[w] = entry[w]
  BY <1>1 DEF RegisterGuest, HostShape
<1>3. UNCHANGED <<calls, processCores, cgroupCores, mixed>>
  BY DEF RegisterGuest, coreVars
<1>4. ASSUME NEW w \in VmNames \ mixed' PROVE PinsOf(w)'
  <2>1. PinsOf(w) /\ Busy(w, "pin")' = Busy(w, "pin")
    BY <1>3, <1>4 DEF PinInv, Busy
  <2>2. CASE w # v
    BY <1>2, <1>3, <2>1, <2>2, PinsStay
  <2>3. CASE w = v
    <3>1. Agreed(v)'
      BY <1>2 DEF Agreed
    <3>2. ASSUME NEW c \in Busy(v, "pin") PROVE Pinned(v, calls[c])'
      <4>1. Pinned(v, calls[c]) /\ calls[c].entry \in 0 .. MaxEntries
        BY <2>1, <2>3, <3>2 DEF PinsOf, HostShape, HostCall, Busy
      <4>2. calls[c].entry <= n /\ calls[c].entry # n + 1 /\ calls[c].entry <= n + 1
        BY <1>1, <4>1, HostAssumption DEF Pinned
      <4> QED
        BY <1>2, <1>3, <4>1, <4>2 DEF Pinned
    <3> QED
      BY <1>3, <2>1, <2>3, <3>1, <3>2 DEF PinsOf
  <2> QED
    BY <2>2, <2>3
<1> QED
  BY <1>4 DEF PinInv

LEMMA BeginsPinning ==
  ASSUME HostShape, EntriesInOrder, PinInv, NEW c \in Callers, BeginStep(c)
  PROVE  PinInv'
<1>1. PICK v \in VmNames, op \in Kinds \cup {"unregister"}, cs \in Cores \cup {NoCores}, p \in Processes \cup {0} :
        CallBegins(c, op, v, cs, p)
  BY DEF BeginStep
<1>2. UNCHANGED <<entry, processCores, cgroupCores>> /\ mixed' = IF op = "pin" /\ Busy(v, "pin") # {} THEN mixed \cup {v} ELSE mixed
  BY <1>1 DEF CallBegins
<1>3. /\ \A d \in Callers : d # c => calls'[d] = calls[d]
      /\ calls[c].op = "none" /\ calls'[c].op = op /\ calls'[c].vm = v /\ calls'[c].step = 1
      /\ calls'[c].entry = entry[v].number /\ calls'[c].process = p /\ (op = "pin" => p = entry[v].process)
  BY <1>1, CallBegun
<1>4. ASSUME NEW w \in VmNames \ mixed' PROVE PinsOf(w)'
  <2>1. PinsOf(w)
    BY <1>2, <1>4 DEF PinInv
  <2>2. CASE w # v \/ op # "pin"
    <3>1. Busy(w, "pin")' = Busy(w, "pin") /\ \A d \in Busy(w, "pin") : calls'[d] = calls[d]
      BY <1>3, <2>2 DEF Busy
    <3> QED
      BY <1>2, <2>1, <3>1, PinsStay
  <2>3. CASE w = v /\ op = "pin"
    <3>1. Busy(v, "pin") = {}
      BY <1>2, <1>4, <2>3
    <3>2. Busy(v, "pin")' = {c}
      BY <1>3, <2>3, <3>1 DEF Busy
    <3>3. entry[v].number \in 0 .. MaxEntries
      BY DEF HostShape, GuestEntry
    <3>4. Pinned(v, calls[c])'
      BY <1>2, <1>3, <2>3, <3>3, HostAssumption DEF Pinned
    <3>5. Agreed(v)'
      <4>1. Agreed(v)
        BY <2>1, <2>3, <3>1 DEF PinsOf
      <4> QED
        BY <1>2, <4>1 DEF Agreed
    <3> QED
      BY <2>3, <3>2, <3>4, <3>5 DEF PinsOf
  <2> QED
    BY <2>2, <2>3
<1> QED
  BY <1>4 DEF PinInv

LEMMA PinPreserved ==
  ASSUME HostShape, EntriesInOrder, PinInv, [HostNext]_hostVars
  PROVE  PinInv'
<1>1. ASSUME UNCHANGED hostVars PROVE PinInv'
  BY <1>1 DEF hostVars, coreVars, PinInv, PinsOf, Pinned, Agreed, Busy
<1>2. ASSUME NEW c \in Callers, FilterStep(c) \/ OverlayStep(c) \/ PolicyStep(c) \/ DeviceStep(c) \/ EndStep(c)
      PROVE  PinInv'
  <2>1. calls[c].op # "pin" /\ (Advanced(c) \/ Over(c))
    BY <1>2, KindMoves
  <2>2. FilterStep(c) \/ OverlayStep(c) => UNCHANGED <<entry, coreVars>>
    BY DEF FilterStep, FilterLoaded, FilterWritten, FilterRemoved, OverlayStep, OverlayMounted, OverlayRemounted, Goes
  <2>3. PolicyStep(c) \/ DeviceStep(c) => UNCHANGED <<entry, coreVars>>
    BY DEF PolicyStep, PolicySet, RuleAppended, DeviceStep, DevicesClosed, Goes
  <2>4. EndStep(c) => UNCHANGED coreVars /\ (UNCHANGED entry \/ GuestUnregistered(c))
    BY DEF EndStep, GuestUnregistered, RulesFlushed, Goes
  <2> QED
    BY <1>2, <2>1, <2>2, <2>3, <2>4, PinsOfOthers
<1> QED
  BY <1>1, <1>2, PinStepInv, RegistersUnpinned, BeginsPinning, HostSteps

\* The calls and the entries.
CallsShape == calls \in [Callers -> HostCall] /\ entry \in [VmNames -> GuestEntry]

LEMMA CallsPreserved ==
  ASSUME HostShape, EntriesInOrder, [HostNext]_hostVars
  PROVE  CallsShape' /\ EntriesInOrder'
<1>1. ASSUME UNCHANGED <<calls, entry>> PROVE CallsShape' /\ EntriesInOrder'
  BY <1>1 DEF CallsShape, EntriesInOrder, HostShape
<1>2. ASSUME NEW v \in VmNames, NEW p \in Processes, RegisterGuest(v, p) PROVE CallsShape' /\ EntriesInOrder'
  <2>1. PICK n \in 0 .. MaxEntries, q \in 0 .. MaxEntries :
          n = entry[v].number /\ q = entry[v].process /\ q <= n
    BY DEF HostShape, GuestEntry, EntriesInOrder
  <2>2. n + 1 \in 0 .. MaxEntries /\ p \in 0 .. MaxEntries /\ p <= n + 1 /\ p # 0
    BY <1>2, <2>1, HostAssumption DEF RegisterGuest, Processes
  <2> DEFINE e == [there |-> TRUE, number |-> n + 1, process |-> p, recorded |-> NoCores]
  <2>3. e \in GuestEntry /\ e.process <= e.number /\ e.process # 0
    BY <2>2 DEF GuestEntry
  <2>4. entry' = [entry EXCEPT ![v] = e]
    BY <1>2, <2>1 DEF RegisterGuest
  <2> HIDE DEF e
  <2>5. entry' \in [VmNames -> GuestEntry] /\ entry'[v] = e /\ \A w \in VmNames : w # v => entry'[w] = entry[w]
    BY <2>3, <2>4 DEF HostShape
  <2>6. UNCHANGED calls
    BY <1>2 DEF RegisterGuest
  <2> QED
    BY <2>3, <2>5, <2>6 DEF CallsShape, EntriesInOrder, HostShape
<1>3. ASSUME NEW c \in Callers, BeginStep(c) PROVE CallsShape' /\ EntriesInOrder'
  <2>1. PICK v \in VmNames, op \in Kinds \cup {"unregister"}, cs \in Cores \cup {NoCores}, p \in Processes \cup {0} :
          CallBegins(c, op, v, cs, p)
    BY <1>3 DEF BeginStep
  <2>2. /\ calls' \in [Callers -> HostCall] /\ \A d \in Callers : d # c => calls'[d] = calls[d]
        /\ calls'[c].op # "overlay" => calls'[c].process # 0
    <3>1. /\ calls' \in [Callers -> HostCall] /\ \A d \in Callers \ {c} : calls'[d] = calls[d]
          /\ calls'[c].op = op /\ calls'[c].process = p /\ (op # "overlay" => p # 0)
      BY <2>1, CallBegun
    <3> QED
      BY <3>1
  <2>3. UNCHANGED entry
    BY <2>1 DEF CallBegins
  <2> QED
    BY <2>2, <2>3 DEF CallsShape, EntriesInOrder, HostShape
<1>4. ASSUME NEW c \in Callers,
             FilterStep(c) \/ OverlayStep(c) \/ PinStep(c) \/ PolicyStep(c) \/ DeviceStep(c) \/ EndStep(c)
      PROVE  /\ calls' \in [Callers -> HostCall]
             /\ \A d \in Callers : calls'[d].op \notin {"none", "overlay"} => calls'[d].process # 0
  <2>1. Advanced(c) \/ Over(c)
    BY <1>4, KindMoves
  <2> QED
    BY <2>1, IdleCall DEF Advanced, Over, EntriesInOrder
<1>5. ASSUME NEW c \in Callers, FilterStep(c) \/ OverlayStep(c) \/ PolicyStep(c) \/ DeviceStep(c)
      PROVE  UNCHANGED entry
  <2>1. FilterStep(c) \/ OverlayStep(c) => UNCHANGED entry
    BY DEF FilterStep, FilterLoaded, FilterWritten, FilterRemoved, OverlayStep, OverlayMounted, OverlayRemounted, Goes
  <2>2. PolicyStep(c) \/ DeviceStep(c) => UNCHANGED entry
    BY DEF PolicyStep, PolicySet, RuleAppended, DeviceStep, DevicesClosed, Goes
  <2> QED
    BY <1>5, <2>1, <2>2
<1>6. ASSUME NEW c \in Callers, PinStep(c) \/ EndStep(c)
      PROVE  /\ entry' \in [VmNames -> GuestEntry]
             /\ \A v \in VmNames : /\ entry'[v].process = entry[v].process /\ entry'[v].number = entry[v].number
                                   /\ entry'[v].there => entry[v].there
  <2>1. PICK v \in VmNames, x \in Cores \cup {NoCores} : v = calls[c].vm /\ x = calls[c].cores
    BY DEF HostShape, HostCall
  <2>2. PICK e \in GuestEntry : e = entry[v]
    BY DEF HostShape
  <2>3. \/ UNCHANGED entry
        \/ entry' = [entry EXCEPT ![v] = [e EXCEPT !.recorded = x]]
        \/ entry' = [entry EXCEPT ![v] = [e EXCEPT !.there = FALSE]]
    <3>1. CASE PinStep(c)
      BY <2>1, <2>2, <3>1 DEF PinStep, PinRecorded, ProcessPinned, CgroupPinned, Goes
    <3>2. CASE EndStep(c)
      BY <2>1, <2>2, <3>2 DEF EndStep, GuestUnregistered, RulesFlushed, Goes
    <3> QED
      BY <1>6, <3>1, <3>2
  <2>4. /\ [e EXCEPT !.recorded = x] \in GuestEntry /\ [e EXCEPT !.there = FALSE] \in GuestEntry
        /\ [e EXCEPT !.recorded = x].process = e.process /\ [e EXCEPT !.there = FALSE].process = e.process
        /\ [e EXCEPT !.recorded = x].number = e.number /\ [e EXCEPT !.there = FALSE].number = e.number
        /\ [e EXCEPT !.recorded = x].there = e.there /\ ~[e EXCEPT !.there = FALSE].there
    BY DEF GuestEntry
  <2>5. ASSUME NEW f \in GuestEntry, entry' = [entry EXCEPT ![v] = f], f.process = e.process, f.number = e.number,
               f.there => e.there
        PROVE  /\ entry' \in [VmNames -> GuestEntry]
               /\ \A w \in VmNames : /\ entry'[w].process = entry[w].process /\ entry'[w].number = entry[w].number
                                     /\ entry'[w].there => entry[w].there
    BY <2>2, <2>5 DEF HostShape
  <2>6. CASE UNCHANGED entry
    BY <2>6 DEF HostShape
  <2> QED
    BY <2>3, <2>4, <2>5, <2>6
<1>7. ASSUME UNCHANGED hostVars PROVE CallsShape' /\ EntriesInOrder'
  BY <1>1, <1>7 DEF hostVars
<1>8. ASSUME NEW c \in Callers, FilterStep(c) \/ OverlayStep(c) \/ PolicyStep(c) \/ DeviceStep(c)
      PROVE  CallsShape' /\ EntriesInOrder'
  BY <1>4, <1>5, <1>8 DEF CallsShape, EntriesInOrder, HostShape
<1>9. ASSUME NEW c \in Callers, PinStep(c) \/ EndStep(c) PROVE CallsShape' /\ EntriesInOrder'
  BY <1>4, <1>6, <1>9 DEF CallsShape, EntriesInOrder
<1> QED
  BY <1>2, <1>3, <1>7, <1>8, <1>9, HostSteps

\* What the calls change.
PathsShape ==
  /\ kind \in Kinds /\ usbClosed \in BOOLEAN
  /\ filterFile \subseteq VmNames /\ kept \subseteq VmNames
  /\ returned \subseteq VmNames /\ unsealed \subseteq VmNames /\ mixed \subseteq VmNames
  /\ mounts \in [VmNames -> Seq({"rw", "ro"})]
  /\ processCores \in [VmNames -> [Processes -> Cores \cup {NoCores}]]
  /\ cgroupCores \in [VmNames -> Cores \cup {NoCores}]
  /\ chain \in [VmNames -> [Processes -> ChainOf]]

LEMMA PathsPreserved ==
  ASSUME HostShape, EntriesInOrder, OverlayInv, PolicyInv, [HostNext]_hostVars
  PROVE  PathsShape'
<1>1. PathsShape
  BY DEF HostShape, PathsShape
<1>2. ASSUME UNCHANGED <<kind, filterVars, overlayVars, coreVars, chain, usbClosed>> PROVE PathsShape'
  BY <1>1, <1>2 DEF PathsShape, filterVars, overlayVars, coreVars
<1>3. \A c \in Callers : calls[c].vm \in VmNames /\ calls[c].cores \in Cores \cup {NoCores}
  BY DEF HostShape, HostCall
<1>4. ASSUME NEW c \in Callers, FilterStep(c) PROVE PathsShape'
  <2>1. filterFile' \subseteq filterFile \cup {calls[c].vm} /\ kept' \subseteq kept \cup {calls[c].vm}
    BY <1>4 DEF FilterStep, FilterLoaded, FilterWritten, FilterRemoved, filterVars
  <2>2. UNCHANGED <<kind, overlayVars, coreVars, chain, usbClosed>>
    BY <1>4 DEF FilterStep, FilterLoaded, FilterWritten, FilterRemoved, Goes, Returns
  <2> QED
    BY <1>1, <1>3, <2>1, <2>2 DEF PathsShape, overlayVars, coreVars
<1>5. ASSUME NEW c \in Callers, OverlayStep(c) PROVE PathsShape'
  <2>1. PICK v \in VmNames, n \in Seq({"rw", "ro"}) :
          /\ mounts' = [mounts EXCEPT ![v] = n]
          /\ returned' \subseteq returned \cup {v} /\ unsealed' \subseteq unsealed \cup {v}
    BY <1>5, MountsOfStep
  <2>2. UNCHANGED <<kind, filterVars, coreVars, chain, usbClosed>>
    BY <1>5 DEF OverlayStep, OverlayMounted, OverlayRemounted, Goes, Returns
  <2> QED
    BY <1>1, <2>1, <2>2 DEF PathsShape, filterVars, coreVars
<1>6. ASSUME NEW c \in Callers, PinStep(c) PROVE PathsShape'
  <2>1. UNCHANGED <<kind, filterVars, overlayVars, chain, usbClosed>>
    BY <1>6 DEF PinStep, PinRecorded, ProcessPinned, CgroupPinned, Goes, Returns
  <2>2. mixed' \subseteq mixed \cup {calls[c].vm}
    BY <1>6 DEF PinStep, PinRecorded, ProcessPinned, CgroupPinned, coreVars
  <2>3. PICK v \in VmNames, x \in Cores \cup {NoCores} : v = calls[c].vm /\ x = calls[c].cores
    BY <1>3
  <2>4. PICK r \in [Processes -> Cores \cup {NoCores}] : r = processCores[v]
    BY DEF HostShape
  <2>5. [r EXCEPT ![calls[c].process] = x] \in [Processes -> Cores \cup {NoCores}]
    OBVIOUS
  <2>6. processCores' = processCores \/ processCores' = [processCores EXCEPT ![v] = [r EXCEPT ![calls[c].process] = x]]
    BY <1>6, <2>3, <2>4 DEF PinStep, PinRecorded, ProcessPinned, CgroupPinned, coreVars
  <2>7. processCores' \in [VmNames -> [Processes -> Cores \cup {NoCores}]]
    BY <2>5, <2>6 DEF HostShape
  <2>8. cgroupCores' = cgroupCores \/ cgroupCores' = [cgroupCores EXCEPT ![v] = x]
    BY <1>6, <2>3 DEF PinStep, PinRecorded, ProcessPinned, CgroupPinned, coreVars
  <2>9. cgroupCores' \in [VmNames -> Cores \cup {NoCores}]
    BY <2>8 DEF HostShape
  <2> QED
    BY <1>1, <1>3, <2>1, <2>2, <2>7, <2>9 DEF PathsShape, filterVars, overlayVars
<1>7. ASSUME NEW c \in Callers, PolicyStep(c) \/ EndStep(c) PROVE PathsShape'
  <2>1. UNCHANGED <<kind, filterVars, overlayVars, coreVars, usbClosed>>
    <3>1. PolicyStep(c) => UNCHANGED <<kind, filterVars, overlayVars, coreVars, usbClosed>>
      BY DEF PolicyStep, PolicySet, RuleAppended, Goes, Returns
    <3>2. EndStep(c) => UNCHANGED <<kind, filterVars, overlayVars, coreVars, usbClosed>>
      BY DEF EndStep, GuestUnregistered, RulesFlushed, Goes, Returns
    <3> QED
      BY <1>7, <3>1, <3>2
  <2>2. \/ UNCHANGED chain
        \/ \E v \in VmNames, p \in Processes, n \in ChainOf : chain' = [chain EXCEPT ![v][p] = n]
    BY <1>7, ChainOfStep
  <2>3. chain' \in [VmNames -> [Processes -> ChainOf]]
    BY <2>2, ChainUpdated DEF HostShape
  <2> QED
    BY <1>1, <2>1, <2>3 DEF PathsShape, filterVars, overlayVars, coreVars
<1>8. ASSUME NEW c \in Callers, DeviceStep(c) PROVE PathsShape'
  <2>1. UNCHANGED <<kind, filterVars, overlayVars, coreVars, chain>>
    BY <1>8 DEF DeviceStep, DevicesClosed, Goes
  <2>2. usbClosed' \in BOOLEAN
    BY <1>8 DEF DeviceStep, DevicesClosed
  <2> QED
    BY <1>1, <2>1, <2>2 DEF PathsShape, filterVars, overlayVars, coreVars
<1>9. ASSUME NEW c \in Callers, BeginStep(c) PROVE PathsShape'
  <2>1. PICK v \in VmNames : mixed' \subseteq mixed \cup {v}
    BY <1>9 DEF BeginStep, CallBegins
  <2>2. UNCHANGED <<kind, filterVars, overlayVars, processCores, cgroupCores, chain, usbClosed>>
    BY <1>9 DEF BeginStep, CallBegins
  <2> QED
    BY <1>1, <2>1, <2>2 DEF PathsShape, filterVars, overlayVars
<1>10. ASSUME NEW v, NEW p, RegisterGuest(v, p) PROVE PathsShape'
  BY <1>2, <1>10 DEF RegisterGuest
<1>11. ASSUME UNCHANGED hostVars PROVE PathsShape'
  BY <1>2, <1>11 DEF hostVars
<1> QED
  BY <1>4, <1>5, <1>6, <1>7, <1>8, <1>9, <1>10, <1>11, HostSteps

HostInv == HostShape /\ EntriesInOrder /\ FilterInv /\ OverlayInv /\ PolicyInv /\ PinInv

LEMMA HostInvariant == HostSpec => []HostInv
<1>1. HostInit => HostInv
  <2> SUFFICES ASSUME HostInit PROVE HostInv
    OBVIOUS
  <2>1. calls \in [Callers -> HostCall] /\ \A c \in Callers : calls[c].op = "none"
    BY IdleCall DEF HostInit
  <2>2. 0 \in 0 .. MaxEntries
    BY HostAssumption
  <2>3. entry \in [VmNames -> GuestEntry]
    BY <2>2 DEF HostInit, GuestEntry
  <2>4. <<>> \in Seq({"rw", "ro"}) /\ <<>> \in Seq({"accept", "drop"})
    OBVIOUS
  <2>5. Open \in ChainOf /\ Open.rules = <<>>
    BY <2>4 DEF Open, ChainOf
  <2>6. chain \in [VmNames -> [Processes -> ChainOf]] /\ \A v \in VmNames, p \in Processes : chain[v][p] = Open
    BY <2>5 DEF HostInit
  <2>7. HostShape
    BY <2>1, <2>3, <2>4, <2>6 DEF HostInit, HostShape
  <2>8. EntriesInOrder
    BY <2>1 DEF HostInit, EntriesInOrder
  <2>9. FilterInv /\ OverlayInv
    BY <2>1 DEF HostInit, FilterInv, OverlayInv
  <2>10. PolicyInv
    BY <2>1, <2>5, <2>6 DEF PolicyInv, RulesUnderDrop
  <2>11. PinInv
    BY <2>1 DEF HostInit, PinInv, PinsOf, Agreed, Busy
  <2> QED
    BY <2>7, <2>8, <2>9, <2>10, <2>11 DEF HostInv
<1>2. HostInv /\ [HostNext]_hostVars => HostInv'
  <2> SUFFICES ASSUME HostInv, [HostNext]_hostVars PROVE HostInv'
    OBVIOUS
  <2>1. HostShape'
    BY CallsPreserved, PathsPreserved DEF HostInv, HostShape, CallsShape, PathsShape
  <2> QED
    BY <2>1, CallsPreserved, FilterPreserved, OverlayPreserved, PolicyPreserved, PinPreserved DEF HostInv
<1> QED
  BY <1>1, <1>2, PTL DEF HostSpec

\* The comments of security/firecrackerHardening.ts say of an id what its calls did: the rules of a
\* chain come under a default of drop, an overlay that was returned is read-only when nobody mounts
\* it again, a filter's file is gone with the call, the cores on record are the process's and the
\* cgroup's.  The exceptions are those that HostAsLeft names: a last remount that failed, a file
\* that could not be written or removed, calls of pinCPU that overlapped or failed half way.
THEOREM HostAsLeftAlways == HostSpec => []HostAsLeft
<1>1. HostInv => HostAsLeft
  <2> SUFFICES ASSUME HostInv PROVE HostAsLeft
    OBVIOUS
  <2>1. RulesUnderDrop
    BY DEF HostInv, PolicyInv
  <2>2. OverlaysSealed
    BY DEF HostInv, OverlayInv, OverlaysSealed, Remounting, Busy
  <2>3. FiltersRemoved
    BY DEF HostInv, FilterInv, FiltersRemoved, Busy
  <2>4. CoresAsRecorded
    BY DEF HostInv, PinInv, PinsOf, Agreed, CoresAsRecorded
  <2> QED
    BY <2>1, <2>2, <2>3, <2>4 DEF HostAsLeft
<1> QED
  BY <1>1, HostInvariant, PTL

\* What a VM changes on the host keeps its shape (security/firecrackerHardening.ts): mounts, chains,
\* cores and filters are those of VMs, and a process is no later than the entry it is in.
THEOREM HostTypeCorrect == HostSpec => []HostTypeOK
<1>1. HostInv => HostTypeOK
  <2> SUFFICES ASSUME HostInv PROVE HostTypeOK
    OBVIOUS
  <2>1. \A v \in VmNames, p \in Processes : chain[v][p].rules \in Seq({"accept", "drop"})
    BY DEF HostInv, HostShape, ChainOf
  <2> QED
    BY <2>1 DEF HostInv, HostShape, EntriesInOrder, HostTypeOK
<1> QED
  BY <1>1, HostInvariant, PTL

-----------------------------------------------------------------------------
(***************************************************************************)
(* CodeDedup.  A call in flight is counted in the total before it is       *)
(* counted among the blocks or the duplicates; a clear leaves those in     *)
(* flight to be counted later.                                             *)
(***************************************************************************)
IngestCall == [op : {"ingest"}, code : Codes, model : BOOLEAN]

DedupShape ==
  /\ threshold \in Thresholds /\ modelLoaded \in BOOLEAN
  /\ blocks \in Seq(Vectors)
  /\ dedupStats \in [total : Nat, duplicates : Nat] /\ strays \in Nat
  /\ ingests \in [Ingesters -> IngestCall \cup {NotIngesting}]

CallsCounted == dedupStats.total + strays = dedupStats.duplicates + Len(blocks) + Cardinality(InFlight)
RegistryKept ==
  /\ registered \subseteq handedOut
  /\ \A b \in handedOut \ registered : \E other \in handedOut : other.ms = b.ms /\ other # b

DedupInv == DedupShape /\ CallsCounted /\ RegistryKept

LEMMA FlightsFinite == IsFiniteSet(InFlight) /\ Cardinality(InFlight) \in Nat
<1>1. InFlight \subseteq Ingesters
  BY DEF InFlight
<1> QED
  BY <1>1, DedupAssumption, FS_Subset, FS_CardinalityType

LEMMA IngestBeginsStep ==
  ASSUME DedupInv, NEW c \in Ingesters, NEW code \in Codes, IngestBegins(c, code)
  PROVE  DedupInv'
<1>1. UNCHANGED <<threshold, modelLoaded, blocks, strays, registered, handedOut>> /\ ingests[c] = NotIngesting
  BY DEF IngestBegins, registryVars
<1>2. RegistryKept'
  BY <1>1 DEF DedupInv, RegistryKept
<1>3. PICK t \in Nat, d \in Nat : t = dedupStats.total /\ d = dedupStats.duplicates
                                  /\ dedupStats = [total |-> t, duplicates |-> d]
  BY DEF DedupInv, DedupShape
<1>4. PICK n \in Nat : n = Len(blocks)
  BY DEF DedupInv, DedupShape
<1>5. Len(blocks)' = n /\ t + strays = d + n + Cardinality(InFlight) /\ strays \in Nat
  BY <1>1, <1>3, <1>4 DEF DedupInv, DedupShape, CallsCounted
<1>6. CASE code \in codeToId
  <2>1. dedupStats' = [total |-> t + 1, duplicates |-> d + 1] /\ ingests' = ingests
    BY <1>3, <1>6 DEF IngestBegins
  <2>2. InFlight' = InFlight
    BY <2>1 DEF InFlight
  <2>3. DedupShape'
    BY <1>1, <2>1 DEF DedupInv, DedupShape
  <2>4. CallsCounted'
    BY <1>1, <1>4, <1>5, <2>1, <2>2, FlightsFinite DEF CallsCounted
  <2> QED
    BY <1>2, <2>3, <2>4 DEF DedupInv
<1>7. CASE code \notin codeToId
  <2> DEFINE call == [op |-> "ingest", code |-> code, model |-> modelLoaded]
  <2>1. call \in IngestCall /\ call.op = "ingest"
    BY DEF DedupInv, DedupShape, IngestCall
  <2>2. dedupStats' = [total |-> t + 1, duplicates |-> d] /\ ingests' = [ingests EXCEPT ![c] = call]
    BY <1>3, <1>7 DEF IngestBegins
  <2> HIDE DEF call
  <2>3. InFlight' = InFlight \cup {c} /\ c \notin InFlight
    <3>1. c \notin InFlight
      BY <1>1 DEF InFlight, NotIngesting
    <3>2. \A q \in Ingesters : q \in InFlight' <=> q \in InFlight \cup {c}
      BY <2>1, <2>2 DEF InFlight, DedupInv, DedupShape
    <3> QED
      BY <3>1, <3>2 DEF InFlight
  <2>4. Cardinality(InFlight') = Cardinality(InFlight) + 1
    BY <2>3, FlightsFinite, FS_AddElement
  <2>5. DedupShape'
    BY <1>1, <2>1, <2>2 DEF DedupInv, DedupShape
  <2>6. CallsCounted'
    BY <1>1, <1>4, <1>5, <2>2, <2>4, FlightsFinite DEF CallsCounted
  <2> QED
    BY <1>2, <2>5, <2>6 DEF DedupInv
<1> QED
  BY <1>6, <1>7

LEMMA IngestEndsStep ==
  ASSUME DedupInv, NEW c \in Ingesters, NEW fails \in BOOLEAN, IngestEnds(c, fails)
  PROVE  DedupInv'
<1>1. UNCHANGED <<threshold, modelLoaded, strays, registered, handedOut>> /\ ingests[c].op = "ingest"
      /\ ingests' = [ingests EXCEPT ![c] = NotIngesting]
  BY DEF IngestEnds, registryVars
<1>2. RegistryKept'
  BY <1>1 DEF DedupInv, RegistryKept
<1>3. PICK t \in Nat, d \in Nat : t = dedupStats.total /\ d = dedupStats.duplicates
                                  /\ dedupStats = [total |-> t, duplicates |-> d]
  BY DEF DedupInv, DedupShape
<1>4. PICK n \in Nat : n = Len(blocks)
  BY DEF DedupInv, DedupShape
<1>5. t + strays = d + n + Cardinality(InFlight) /\ strays \in Nat
  BY <1>3, <1>4 DEF DedupInv, DedupShape, CallsCounted
<1>6. PICK v \in Vectors : v = Embedded(ingests[c], fails)
  <2>1. PICK call \in IngestCall : call = ingests[c]
    BY <1>1 DEF DedupInv, DedupShape, NotIngesting
  <2>2. call.code \in Codes /\ (call.model /\ ~fails) \in BOOLEAN
    BY DEF IngestCall
  <2>3. <<call.code, call.model /\ ~fails>> \in Vectors
    BY <2>2, Zenon DEF Vectors
  <2> QED
    BY <2>1, <2>3 DEF Embedded
<1>7. Cardinality(InFlight)' = Cardinality(InFlight) - 1
  <2>1. c \in InFlight
    BY <1>1 DEF InFlight
  <2>2. \A q \in Ingesters : q \in InFlight' <=> q \in InFlight \ {c}
    BY <1>1 DEF InFlight, DedupInv, DedupShape, NotIngesting
  <2>3. InFlight' = InFlight \ {c}
    BY <2>2 DEF InFlight
  <2> QED
    BY <2>1, <2>3, FlightsFinite, FS_RemoveElement
<1>8. CASE FindSimilar(v) # {}
  <2>1. dedupStats' = [total |-> t, duplicates |-> d + 1] /\ blocks' = blocks
    BY <1>3, <1>6, <1>8 DEF IngestEnds
  <2>2. DedupShape'
    BY <1>1, <2>1 DEF DedupInv, DedupShape
  <2>4. CallsCounted'
    BY <1>1, <1>4, <1>5, <1>7, <2>1, FlightsFinite DEF CallsCounted
  <2> QED
    BY <1>2, <2>2, <2>4 DEF DedupInv
<1>9. CASE FindSimilar(v) = {}
  <2>1. dedupStats' = dedupStats /\ blocks' = Append(blocks, v)
    BY <1>6, <1>9 DEF IngestEnds
  <2>2. blocks' \in Seq(Vectors) /\ Len(blocks') = n + 1
    BY <1>4, <2>1 DEF DedupInv, DedupShape
  <2>3. DedupShape'
    BY <1>1, <2>1, <2>2 DEF DedupInv, DedupShape
  <2>4. CallsCounted'
    <3>1. dedupStats'.total = t /\ dedupStats'.duplicates = d /\ strays' = strays
      BY <1>1, <1>3, <2>1
    <3> QED
      BY <1>5, <1>7, <2>2, <3>1, FlightsFinite DEF CallsCounted
  <2> QED
    BY <1>2, <2>3, <2>4 DEF DedupInv
<1> QED
  BY <1>8, <1>9

LEMMA RegisterCodeStep ==
  ASSUME DedupInv, NEW code \in Codes, RegisterCode(code)
  PROVE  DedupInv'
<1>1. UNCHANGED <<threshold, modelLoaded, blocks, dedupStats, ingests, strays>>
  BY DEF RegisterCode
<1>2. DedupShape' /\ CallsCounted'
  BY <1>1 DEF DedupInv, DedupShape, CallsCounted, InFlight
<1>3. PICK x : x = [ms |-> ms, code |-> code] /\ x.ms = ms /\ x.code = code
  <2>1. [ms |-> ms, code |-> code].ms = ms /\ [ms |-> ms, code |-> code].code = code
    OBVIOUS
  <2> QED
    BY <2>1
<1>4. /\ \A b \in registered : b.code # code
      /\ registered' = {b \in registered : b.ms # ms} \cup {x} /\ handedOut' = handedOut \cup {x}
  BY <1>3 DEF RegisterCode
<1>5. RegistryKept'
  BY <1>3, <1>4 DEF DedupInv, RegistryKept
<1> QED
  BY <1>2, <1>5 DEF DedupInv

LEMMA DedupStepInv == DedupInv /\ [DedupNext]_dedupVars => DedupInv'
<1> SUFFICES ASSUME DedupInv, [DedupNext]_dedupVars PROVE DedupInv'
  OBVIOUS
<1>1. ASSUME UNCHANGED <<blocks, dedupStats, ingests, strays, registered, handedOut>>,
             threshold' \in Thresholds, modelLoaded' \in BOOLEAN
      PROVE  DedupInv'
  BY <1>1 DEF DedupInv, DedupShape, CallsCounted, RegistryKept, InFlight
<1>2. threshold \in Thresholds /\ modelLoaded \in BOOLEAN
  BY DEF DedupInv, DedupShape
<1>3. CASE \E ok \in BOOLEAN : InitializeModel(ok)
  BY <1>1, <1>2, <1>3 DEF InitializeModel, registryVars
<1>4. CASE \E t \in Thresholds : SetThreshold(t)
  BY <1>1, <1>2, <1>4 DEF SetThreshold, registryVars
<1>5. CASE Millisecond
  BY <1>1, <1>2, <1>5 DEF Millisecond
<1>6. CASE UNCHANGED dedupVars
  BY <1>1, <1>2, <1>6 DEF dedupVars, registryVars
<1>7. CASE ClearBlocks
  <2>1. /\ blocks' = <<>> /\ dedupStats' = [total |-> 0, duplicates |-> 0] /\ strays' = Cardinality(InFlight)
        /\ UNCHANGED <<threshold, modelLoaded, ingests, registered, handedOut>>
    BY <1>7 DEF ClearBlocks, StatsCleared, registryVars
  <2>2. InFlight' = InFlight
    BY <2>1 DEF InFlight
  <2>3. DedupShape'
    BY <2>1, FlightsFinite DEF DedupInv, DedupShape
  <2>4. CallsCounted'
    BY <2>1, <2>2, FlightsFinite DEF CallsCounted
  <2>5. RegistryKept'
    BY <2>1 DEF DedupInv, RegistryKept
  <2> QED
    BY <2>3, <2>4, <2>5 DEF DedupInv
<1>8. ASSUME NEW code \in Codes, RegisterCode(code) \/ \E c \in Ingesters : IngestBegins(c, code)
      PROVE  DedupInv'
  BY <1>8, IngestBeginsStep, RegisterCodeStep
<1>9. ASSUME NEW c \in Ingesters, NEW fails \in BOOLEAN, IngestEnds(c, fails) PROVE DedupInv'
  BY <1>9, IngestEndsStep
<1> QED
  BY <1>3, <1>4, <1>5, <1>6, <1>7, <1>8, <1>9 DEF DedupNext

LEMMA DedupInvariant == DedupSpec => []DedupInv
<1>1. DedupInit => DedupInv
  <2> SUFFICES ASSUME DedupInit PROVE DedupInv
    OBVIOUS
  <2>1. InFlight = {}
    BY DEF DedupInit, InFlight, NotIngesting
  <2>2. Cardinality(InFlight) = 0
    BY <2>1, FS_EmptySet
  <2>3. DedupShape
    <3>1. modelLoaded \in BOOLEAN
      BY Zenon DEF DedupInit
    <3>2. blocks \in Seq(Vectors) /\ dedupStats \in [total : Nat, duplicates : Nat]
      BY DEF DedupInit
    <3> QED
      BY <3>1, <3>2 DEF DedupInit, DedupShape
  <2>4. RegistryKept
    BY DEF DedupInit, RegistryKept
  <2>5. CallsCounted
    BY <2>2 DEF DedupInit, CallsCounted
  <2> QED
    BY <2>3, <2>4, <2>5 DEF DedupInv
<1> QED
  BY <1>1, DedupStepInv, PTL DEF DedupSpec

\* However the calls of ingest interleave with one another and with clear, a call ends in a block
\* or a duplicate (code-registry/semantic-dedup.ts); code/registry.ts loses a block only to another
\* one of the same millisecond.
THEOREM IngestsCountedAlways == DedupSpec => []IngestsCounted
<1>1. DedupInv => IngestsCounted
  BY DEF DedupInv, CallsCounted, RegistryKept, IngestsCounted
<1> QED
  BY <1>1, DedupInvariant, PTL

\* What DedupInv leaves open: the codes with an entry, and the bound on the calls.
DedupTyped == codeToId \subseteq Codes /\ dedupStats.total <= MaxIngests

LEMMA DedupTypedStep == DedupInv /\ DedupTyped /\ [DedupNext]_dedupVars => DedupTyped'
<1> SUFFICES ASSUME DedupInv, DedupTyped, [DedupNext]_dedupVars PROVE DedupTyped'
  OBVIOUS
<1>1. /\ dedupStats \in [total : Nat, duplicates : Nat] /\ MaxIngests \in Nat
      /\ ingests \in [Ingesters -> IngestCall \cup {NotIngesting}]
  BY DedupAssumption DEF DedupInv, DedupShape
<1>2. ASSUME UNCHANGED <<codeToId, dedupStats>> PROVE DedupTyped'
  BY <1>2 DEF DedupTyped
<1>3. CASE ClearBlocks
  BY <1>1, <1>3 DEF ClearBlocks, StatsCleared, DedupTyped
<1>4. ASSUME NEW c \in Ingesters, NEW code \in Codes, IngestBegins(c, code) PROVE DedupTyped'
  <2>1. codeToId' = codeToId /\ dedupStats.total < MaxIngests
    BY <1>4 DEF IngestBegins
  <2>2. dedupStats'.total = dedupStats.total + 1
    BY <1>1, <1>4 DEF IngestBegins
  <2> QED
    BY <1>1, <2>1, <2>2 DEF DedupTyped
<1>5. ASSUME NEW c \in Ingesters, NEW fails \in BOOLEAN, IngestEnds(c, fails) PROVE DedupTyped'
  <2>1. ingests[c] \in IngestCall
    BY <1>1, <1>5 DEF IngestEnds, NotIngesting
  <2>2. ingests[c].code \in Codes
    BY <2>1 DEF IngestCall
  <2>3. \/ dedupStats' = [dedupStats EXCEPT !.duplicates = @ + 1] /\ codeToId' = codeToId
        \/ codeToId' = codeToId \cup {ingests[c].code} /\ dedupStats' = dedupStats
    BY <1>5 DEF IngestEnds
  <2>4. dedupStats'.total = dedupStats.total
    BY <1>1, <2>3
  <2> QED
    BY <2>2, <2>3, <2>4 DEF DedupTyped
<1>6. ASSUME NEW t, SetThreshold(t) PROVE DedupTyped'
  BY <1>2, <1>6 DEF SetThreshold
<1>7. ASSUME NEW code, RegisterCode(code) PROVE DedupTyped'
  BY <1>2, <1>7 DEF RegisterCode
<1>8. CASE (\E ok \in BOOLEAN : InitializeModel(ok)) \/ Millisecond \/ UNCHANGED dedupVars
  BY <1>2, <1>8 DEF InitializeModel, Millisecond, dedupVars
<1> QED
  BY <1>3, <1>4, <1>5, <1>6, <1>7, <1>8 DEF DedupNext

\* The stores of code keep their shape (code-registry/semantic-dedup.ts, code/registry.ts): no more
\* calls are counted than were made, and every registered id was handed out.
THEOREM DedupTypeCorrect == DedupSpec => []DedupTypeOK
<1>1. DedupInit => DedupTyped
  BY DedupAssumption DEF DedupInit, DedupTyped
<1>2. ASSUME DedupInv, DedupTyped PROVE DedupTypeOK
  <2>3. dedupStats.total \in 0 .. MaxIngests
    BY <1>2, DedupAssumption DEF DedupInv, DedupShape, DedupTyped
  <2>4. \A c \in Ingesters : ingests[c].op \in {"none", "ingest"}
    BY <1>2 DEF DedupInv, DedupShape, IngestCall, NotIngesting
  <2> QED
    BY <1>2, <2>3, <2>4 DEF DedupInv, DedupShape, RegistryKept, DedupTyped, DedupTypeOK
<1> QED
  BY <1>1, <1>2, DedupTypedStep, DedupInvariant, PTL DEF DedupSpec

-----------------------------------------------------------------------------
(***************************************************************************)
(* The parts together.  They share no state, so that every step of the     *)
(* whole is a step of a part or leaves it alone, and what was proved of a  *)
(* part holds of the whole.                                                *)
(***************************************************************************)
THEOREM StepOfPart ==
  ASSUME [MachinesNext]_allVars
  PROVE  /\ [SandboxNext]_sandboxVars /\ [JailerNext]_jailerVars /\ [FirecrackerNext]_firecrackerVars
         /\ [HardeningNext]_hardeningVars /\ [HostNext]_hostVars /\ [MeshNext]_meshVars
         /\ [TableNext]_tableVars /\ [DedupNext]_dedupVars /\ [OrgsNext]_orgVars /\ [NodesNext]_rowVars
         /\ [InferenceNext]_inferenceVars
<1>1. CASE UNCHANGED allVars
  BY <1>1 DEF allVars
<1>2. CASE MachinesNext
  BY <1>2 DEF MachinesNext
<1> QED
  BY <1>1, <1>2

\* Each part of a behaviour of the whole is a behaviour of the part.
THEOREM PartsBehave ==
  MachinesSpec => /\ SandboxSpec /\ JailerSpec /\ FirecrackerSpec /\ HardeningSpec /\ HostSpec
                  /\ MeshSpec /\ TableSpec /\ DedupSpec /\ OrgsSpec /\ NodesSpec /\ InferenceSpec
<1>1. MachinesInit => /\ SandboxInit /\ JailerInit /\ FirecrackerInit /\ HardeningInit /\ HostInit
                      /\ MeshInit /\ TableInit /\ DedupInit /\ OrgsInit /\ NodesInit /\ InferenceInit
  BY DEF MachinesInit
<1>2. [MachinesNext]_allVars =>
        /\ [SandboxNext]_sandboxVars /\ [JailerNext]_jailerVars /\ [FirecrackerNext]_firecrackerVars
        /\ [HardeningNext]_hardeningVars /\ [HostNext]_hostVars /\ [MeshNext]_meshVars
        /\ [TableNext]_tableVars /\ [DedupNext]_dedupVars /\ [OrgsNext]_orgVars /\ [NodesNext]_rowVars
        /\ [InferenceNext]_inferenceVars
  BY StepOfPart
<1> QED
  BY <1>1, <1>2, PTL
     DEF MachinesSpec, SandboxSpec, JailerSpec, FirecrackerSpec, HardeningSpec, HostSpec, MeshSpec,
         TableSpec, DedupSpec, OrgsSpec, NodesSpec, InferenceSpec

\* The guests of the Firecracker manager, on a machine that runs the other parts too: hardened in
\* the order of harden, and tracked until the process is gone.
THEOREM GuestsAccountedAlways == MachinesSpec => []GuestsAccounted
<1>1. HardenedByPrefix /\ TrackedUntilGone => GuestsAccounted
  BY DEF GuestsAccounted
<1> QED
  BY <1>1, PartsBehave, HardenedByPrefixAlways, TrackedUntilGoneAlways, PTL

\* What was proved of the sandboxes, the jails, the host commands, the mesh node, its tables and the
\* registers of code and of organisations holds of the machine that runs them all.
THEOREM MachineSafe ==
  MachinesSpec => [](/\ LimitPassedByOverlap /\ BoundAsNamed /\ HostAsLeft /\ HandledOnce
                     /\ RoutesAreFresh /\ OwnedFromTheStart /\ IngestsCounted)
BY PartsBehave, LimitPassedByOverlapAlways, BoundAsNamedAlways, HostAsLeftAlways, HandledOnceAlways,
   RoutesAreFreshAlways, OwnedFromTheStartAlways, IngestsCountedAlways, PTL

\* Which part a behaviour is about never changes.
FocusKnown ==
  focus \in {"sandbox", "jailer", "firecracker", "hardening", "host", "inference", "mesh", "tables",
             "dedup", "orgs", "nodes"}

LEMMA FocusKept == MachinesSpec => []FocusKnown
<1>1. MachinesInit => FocusKnown
  BY DEF MachinesInit, FocusKnown
<1>2. FocusKnown /\ [MachinesNext]_allVars => FocusKnown'
  BY DEF MachinesNext, allVars, FocusKnown
<1> QED
  BY <1>1, <1>2, PTL DEF MachinesSpec

\* No job is charged more than its budget for the tokens it allows (mesh-llm/adapter.ts,
\* mesh-llm/routing.ts), and the state of every part keeps its shape.
THEOREM ChargesBoundedAlways == MachinesSpec => []ChargesBounded
<1>1. /\ FocusKnown /\ SandboxTypeOK /\ JailerTypeOK /\ FirecrackerTypeOK /\ HardeningTypeOK
      /\ HostTypeOK /\ InferenceTypeOK /\ MeshTypeOK /\ TableTypeOK /\ DedupTypeOK /\ OrgsTypeOK
      /\ NodesTypeOK
      => MachinesTypesOK
  BY DEF FocusKnown, MachinesTypesOK
<1>2. MachinesTypesOK /\ WithinBudget => ChargesBounded
  BY DEF ChargesBounded
<1> QED
  BY <1>1, <1>2, FocusKept, PartsBehave, SandboxTypeCorrect, JailerTypeCorrect,
     FirecrackerTypeCorrect, HardeningTypeCorrect, HostTypeCorrect, InferenceTypeCorrect,
     MeshTypeCorrect, TableTypeCorrect, DedupTypeCorrect, OrgsTypeCorrect, NodesTypeCorrect,
     WithinBudgetAlways, PTL
=============================================================================
