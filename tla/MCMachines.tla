------------------------------- MODULE MCMachines -------------------------------
(***************************************************************************)
(* The parts that run on one machine: sandboxes, VMs and their host, the   *)
(* mesh node and what it serves, and the registers of code and of the DAO  *)
(* database.  They share no state and call one another nowhere, so that a  *)
(* behaviour is one of one of them, the one in focus, and the others stay  *)
(* in their initial states.                                                *)
(***************************************************************************)
EXTENDS Sandbox, Jailer, Firecracker, VmHardening, HostCalls, MeshInference, MeshNode,
        MeshTables, CodeDedup, DaoOrgs, DaoNodes

CONSTANTS k1, k2

VARIABLE focus

\* A share of nothing, which is refused, besides the default.
MCSplits == {[worker |-> 0, platform |-> 50, treasury |-> 50]}

\* Embeddings of the model and of the hashes have little in common; the likeness of a vector to
\* itself is one but for rounding.
MCLikeness ==
  [p \in (Codes \X BOOLEAN) \X (Codes \X BOOLEAN) |->
     CASE p[1][2] # p[2][2] -> 30
       [] p[1] = p[2] -> IF p[1][1] = k1 THEN 100 ELSE 99
       [] OTHER -> IF p[1][2] THEN 80 ELSE 94]

\* Two of the three go by the same node id.
MCAnnounced ==
  {[serves |-> TRUE, reputation |-> 5, load |-> 2, latency |-> 100, price |-> 3, nodeId |-> "one"],
   [serves |-> TRUE, reputation |-> 9, load |-> 5, latency |-> 50, price |-> 1, nodeId |-> "one"],
   [serves |-> TRUE, reputation |-> 9, load |-> 5, latency |-> 50, price |-> 1, nodeId |-> "two"]}
MCJobSpecs ==
  {[budget |-> 0, verify |-> FALSE, minPeers |-> 0], [budget |-> 20, verify |-> TRUE, minPeers |-> 2]}

allVars ==
  <<focus, sandboxVars, jailerVars, firecrackerVars, hardeningVars, hostVars, inferenceVars,
    meshVars, tableVars, dedupVars, orgVars, rowVars>>

\* The choices an initial state leaves open matter to the part in focus only.
MachinesInit ==
  /\ focus \in {"sandbox", "jailer", "firecracker", "hardening", "host", "inference", "mesh",
               "tables", "dedup", "orgs", "nodes"}
  /\ SandboxInit
  /\ JailerInit
  /\ FirecrackerInit
  /\ HardeningInit
  /\ HostInit
  /\ InferenceInit
  /\ MeshInit
  /\ TableInit
  /\ DedupInit
  /\ OrgsInit
  /\ NodesInit
  /\ focus # "sandbox" => useMock
  /\ focus # "jailer" => simulationMode
  /\ focus # "firecracker" => vmLimit = 1
  /\ focus # "tables" => which = "experts"
  /\ focus # "host" => kind = "pin"
  /\ focus # "inference" => strategy = "closest"
  /\ fallbackToLocal <=> strategy = "closest"
  /\ focus # "dedup" => threshold = 94

MachinesNext ==
  \/ /\ focus = "sandbox" /\ SandboxNext
     /\ UNCHANGED <<focus, jailerVars, firecrackerVars, hardeningVars, hostVars, inferenceVars,
                    meshVars, tableVars, dedupVars, orgVars, rowVars>>
  \/ /\ focus = "jailer" /\ JailerNext
     /\ UNCHANGED <<focus, sandboxVars, firecrackerVars, hardeningVars, hostVars, inferenceVars,
                    meshVars, tableVars, dedupVars, orgVars, rowVars>>
  \/ /\ focus = "firecracker" /\ FirecrackerNext
     /\ UNCHANGED <<focus, sandboxVars, jailerVars, hardeningVars, hostVars, inferenceVars,
                    meshVars, tableVars, dedupVars, orgVars, rowVars>>
  \/ /\ focus = "hardening" /\ HardeningNext
     /\ UNCHANGED <<focus, sandboxVars, jailerVars, firecrackerVars, hostVars, inferenceVars,
                    meshVars, tableVars, dedupVars, orgVars, rowVars>>
  \/ /\ focus = "host" /\ HostNext
     /\ UNCHANGED <<focus, sandboxVars, jailerVars, firecrackerVars, hardeningVars, inferenceVars,
                    meshVars, tableVars, dedupVars, orgVars, rowVars>>
  \/ /\ focus = "inference" /\ InferenceNext
     /\ UNCHANGED <<focus, sandboxVars, jailerVars, firecrackerVars, hardeningVars, hostVars,
                    meshVars, tableVars, dedupVars, orgVars, rowVars>>
  \/ /\ focus = "mesh" /\ MeshNext
     /\ UNCHANGED <<focus, sandboxVars, jailerVars, firecrackerVars, hardeningVars, hostVars,
                    inferenceVars, tableVars, dedupVars, orgVars, rowVars>>
  \/ /\ focus = "tables" /\ TableNext
     /\ UNCHANGED <<focus, sandboxVars, jailerVars, firecrackerVars, hardeningVars, hostVars,
                    inferenceVars, meshVars, dedupVars, orgVars, rowVars>>
  \/ /\ focus = "dedup" /\ DedupNext
     /\ UNCHANGED <<focus, sandboxVars, jailerVars, firecrackerVars, hardeningVars, hostVars,
                    inferenceVars, meshVars, tableVars, orgVars, rowVars>>
  \/ /\ focus = "orgs" /\ OrgsNext
     /\ UNCHANGED <<focus, sandboxVars, jailerVars, firecrackerVars, hardeningVars, hostVars,
                    inferenceVars, meshVars, tableVars, dedupVars, rowVars>>
  \/ /\ focus = "nodes" /\ NodesNext
     /\ UNCHANGED <<focus, sandboxVars, jailerVars, firecrackerVars, hardeningVars, hostVars,
                    inferenceVars, meshVars, tableVars, dedupVars, orgVars>>

MachinesSpec == MachinesInit /\ [][MachinesNext]_allVars /\ SandboxFairness

MachinesTypesOK ==
  CASE focus = "sandbox" -> SandboxTypeOK
    [] focus = "jailer" -> JailerTypeOK
    [] focus = "firecracker" -> FirecrackerTypeOK
    [] focus = "hardening" -> HardeningTypeOK
    [] focus = "host" -> HostTypeOK
    [] focus = "inference" -> InferenceTypeOK
    [] focus = "mesh" -> MeshTypeOK
    [] focus = "tables" -> TableTypeOK
    [] focus = "dedup" -> DedupTypeOK
    [] focus = "orgs" -> OrgsTypeOK
    [] focus = "nodes" -> NodesTypeOK

\* A guest is hardened in the order of harden (security/firecracker/manager.ts) and tracked until
\* its process is gone (security/firecrackerHardening.ts).
GuestsAccounted == HardenedByPrefix /\ TrackedUntilGone

\* Every part keeps its state in shape, and a job is charged no more than its budget unless its peer
\* reports more tokens than the job allows or two of its verifiers go by one node id
\* (mesh-llm/adapter.ts, mesh-llm/routing.ts).
ChargesBounded == MachinesTypesOK /\ WithinBudget
===============================================================================
