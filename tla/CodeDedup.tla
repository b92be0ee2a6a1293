------------------------------- MODULE CodeDedup -------------------------------
(***************************************************************************)
(* The store of code blocks that are told apart by their embeddings        *)
(* (code-registry/semantic-dedup.ts) and the registry of code blocks by    *)
(* their hash (code/registry.ts, and code-registry/ast-dedup.ts, which is  *)
(* the same but for the chunks).  An embedding is computed across an       *)
(* await, so that calls of ingest interleave; register runs in one turn of *)
(* the event loop.  Look-ups and searches change nothing and are left out. *)
(***************************************************************************)
EXTENDS Integers, Sequences, FiniteSets

CONSTANTS
  Codes,          \* pieces of code; two of them differ in more than the spaces at their ends
  Likeness,       \* cosine of two embeddings in hundredths, each a code and what computed it
  Thresholds,     \* values of the threshold; the first of a behaviour is the constructor's
  Ingesters,      \* callers of ingest, each awaiting one call at a time
  MaxIngests,     \* bound on the calls of ingest since the last clear
  MaxMs           \* bound on the milliseconds in which code is registered

Vectors == Codes \X BOOLEAN

ASSUME DedupAssumption ==
  /\ Likeness \in [Vectors \X Vectors -> Int] /\ Thresholds \subseteq Int
  /\ IsFiniteSet(Ingesters) /\ MaxIngests \in Nat

VARIABLES
  threshold,      \* THRESHOLD
  modelLoaded,    \* the transformer is there; else embeddings are made of hashes
  blocks,         \* embeddings: vectors in the order of insertion
  codeToId,       \* codes with an entry in codeToId
  dedupStats,     \* total and duplicates
  ingests,        \* the call each caller awaits
  strays,         \* calls of ingest that were in flight at the last clear (history)
  ms,             \* Date.now()
  registered,     \* blocks of the registry: id block-ms, code
  handedOut       \* blocks register has made (history)

registryVars == <<ms, registered, handedOut>>
dedupVars == <<threshold, modelLoaded, blocks, codeToId, dedupStats, ingests, strays, registryVars>>

NotIngesting == [op |-> "none"]
InFlight == {c \in Ingesters : ingests[c].op = "ingest"}

DedupInit ==
  /\ threshold \in Thresholds /\ modelLoaded = FALSE
  /\ blocks = <<>> /\ codeToId = {} /\ dedupStats = [total |-> 0, duplicates |-> 0]
  /\ ingests = [c \in Ingesters |-> NotIngesting] /\ strays = 0
  /\ ms = 0 /\ registered = {} /\ handedOut = {}

\* initialize: embeddings computed before it stay as they are.  A second call may fail, and the
\* model is not used any more.
InitializeModel(ok) ==
  /\ modelLoaded' = ok
  /\ UNCHANGED <<threshold, blocks, codeToId, dedupStats, ingests, strays, registryVars>>
\* 0 and 1 are the least and the greatest; the constructor takes 0 for no threshold.
SetThreshold(t) ==
  /\ threshold' = t
  /\ UNCHANGED <<modelLoaded, blocks, codeToId, dedupStats, ingests, strays, registryVars>>
\* A fault: the duplicates are not cleared.
TotalCleared == [dedupStats EXCEPT !.total = 0]
StatsCleared == [total |-> 0, duplicates |-> 0]
\* clear, with calls in flight or without: what they count later was never in the total.
ClearBlocks ==
  /\ blocks' = <<>> /\ codeToId' = {} /\ dedupStats' = StatsCleared
  /\ strays' = Cardinality(InFlight)
  /\ UNCHANGED <<threshold, modelLoaded, ingests, registryVars>>

\* The best of the blocks that reach the threshold; those of equal likeness share the place.
FindSimilar(v) ==
  LET near == {i \in DOMAIN blocks : Likeness[<<v, blocks[i]>>] >= threshold}
  IN  {i \in near : \A k \in near : Likeness[<<v, blocks[k]>>] <= Likeness[<<v, blocks[i]>>]}

\* ingest up to its await: the hash is looked up first.
IngestBegins(c, code) ==
  /\ ingests[c] = NotIngesting /\ dedupStats.total < MaxIngests
  /\ IF code \in codeToId
     THEN /\ dedupStats' = [total |-> dedupStats.total + 1, duplicates |-> dedupStats.duplicates + 1]
          /\ UNCHANGED ingests
     ELSE /\ dedupStats' = [dedupStats EXCEPT !.total = @ + 1]
          /\ ingests' = [ingests EXCEPT ![c] = [op |-> "ingest", code |-> code, model |-> modelLoaded]]
  /\ UNCHANGED <<threshold, modelLoaded, blocks, codeToId, strays, registryVars>>

\* generateEmbedding: a model that fails gives way to the hashes.
Embedded(call, fails) == <<call.code, call.model /\ ~fails>>
IngestEnds(c, fails) ==
  LET call == ingests[c]
  IN  /\ call.op = "ingest" /\ (fails => call.model)
      /\ IF FindSimilar(Embedded(call, fails)) # {}
         THEN /\ dedupStats' = [dedupStats EXCEPT !.duplicates = @ + 1] /\ UNCHANGED <<blocks, codeToId>>
         ELSE /\ blocks' = Append(blocks, Embedded(call, fails))
              /\ codeToId' = codeToId \cup {call.code} /\ UNCHANGED dedupStats
      /\ ingests' = [ingests EXCEPT ![c] = NotIngesting]
      /\ UNCHANGED <<threshold, modelLoaded, strays, registryVars>>

Millisecond == /\ ms < MaxMs /\ ms' = ms + 1
               /\ UNCHANGED <<threshold, modelLoaded, blocks, codeToId, dedupStats, ingests, strays, registered, handedOut>>
\* register: the second block of a millisecond takes the place of the first.
RegisterCode(code) ==
  /\ \A b \in registered : b.code # code
  /\ LET block == [ms |-> ms, code |-> code]
     IN  /\ registered' = {b \in registered : b.ms # ms} \cup {block}
         /\ handedOut' = handedOut \cup {block}
  /\ UNCHANGED <<threshold, modelLoaded, blocks, codeToId, dedupStats, ingests, strays, ms>>

DedupNext ==
  \/ (\E ok \in BOOLEAN : InitializeModel(ok)) \/ ClearBlocks \/ Millisecond
  \/ \E t \in Thresholds : SetThreshold(t)
  \/ \E code \in Codes :
       \/ RegisterCode(code)
       \/ \E c \in Ingesters : IngestBegins(c, code)
  \/ \E c \in Ingesters, fails \in BOOLEAN : IngestEnds(c, fails)

DedupSpec == DedupInit /\ [][DedupNext]_dedupVars

DedupTypeOK ==
  /\ threshold \in Thresholds /\ modelLoaded \in BOOLEAN
  /\ blocks \in Seq(Vectors)
  /\ codeToId \subseteq Codes /\ dedupStats.total \in 0 .. MaxIngests
  /\ \A c \in Ingesters : ingests[c].op \in {"none", "ingest"}
  /\ registered \subseteq handedOut

\* However calls overlap with one another and with clear, a call of ingest ends in a block or a
\* duplicate, but the total forgets those in flight at a clear, so that more duplicates than calls
\* may be reported (code-registry/semantic-dedup.ts).  A block of the registry that register handed
\* out is lost only to another one of the same millisecond (code/registry.ts).
IngestsCounted ==
  /\ dedupStats.total + strays = dedupStats.duplicates + Len(blocks) + Cardinality(InFlight)
  /\ \A b \in handedOut \ registered : \E other \in handedOut : other.ms = b.ms /\ other # b
=============================================================================
