------------------------------- MODULE Memory -------------------------------
(***************************************************************************)
(* The vector store of a competition (src/memory/store.py,                 *)
(* src/tools/rag.py) and the four nodes of phase 2 that fill and           *)
(* consolidate it.  Every run of the competition works on the same store,  *)
(* one run after the other; within a run two of the nodes run beside each  *)
(* other.  Nothing is ever deleted from the store, and a run that fails    *)
(* leaves in it what it has indexed.                                       *)
(*                                                                         *)
(* A source is what a search finds (title, text, url), or a notebook.  A   *)
(* text is the set of sources it quotes, and so are the names in a         *)
(* document's source field and what its key findings are about.            *)
(***************************************************************************)
EXTENDS PhaseGraph, FiniteSets, FiniteSetsExt, Functions

CONSTANTS
    Sources,   \* the sources each search can find, by researcher
    NResults,  \* _QUERY_N_RESULTS
    MaxRuns    \* bound: runs of the competition

Researchers == {"literature_researcher", "web_researcher", "competition_analyst"}
Manager == "memory_manager"
Members == Researchers \cup {Manager}
Phase == "phase2_research"

AllSources == UNION {Sources[n] : n \in Researchers}

ASSUME SourcesAssumption == DOMAIN Sources = Researchers /\ IsFiniteSet(AllSources)
ASSUME BoundsAssumption == NResults \in Nat \ {0} /\ MaxRuns \in Nat

VARIABLES
    docs,       \* the collection: the documents by id, ids counted from 1
    runs,       \* runs begun
    todo, ran,  \* nodes of the current superstep
    step,       \* where each node is
    found,      \* _sources (_kernels) of each researcher
    candidates, \* _candidates: the ids the manager's query returned
    reports,    \* the reports of the run: pairs of a source and findings
    indexed     \* history: the source each id was given for

memory_vars == <<docs, runs, todo, ran, step, found, candidates, reports, indexed>>

\* IndexDocument
Documents == [text : SUBSET AllSources, source : SUBSET AllSources,
              key_findings : SUBSET AllSources]

TypeOK ==
    /\ DOMAIN docs = 1..Cardinality(DOMAIN docs)
    /\ \A id \in DOMAIN docs : docs[id] \in Documents
    /\ runs \in 0..MaxRuns
    /\ todo \subseteq Members /\ ran \subseteq Members
    /\ step \in [Members -> {"ask", "answer", "report"}]
    /\ found \in [Researchers -> Seq(AllSources)]
    /\ candidates \in Seq(DOMAIN docs)
    /\ reports \subseteq AllSources \X SUBSET AllSources
    /\ DOMAIN indexed = DOMAIN docs

MemoryInit ==
    /\ docs = <<>> /\ indexed = <<>>
    /\ runs = 0 /\ todo = {} /\ ran = {}
    /\ step = [n \in Members |-> "ask"]
    /\ found = [n \in Researchers |-> <<>>]
    /\ candidates = <<>>
    /\ reports = {}

\* The orders of a set.
Orders(S) == {f \in [1..Cardinality(S) -> S] : IsInjective(f)}

\* A run reaches phase 2; its graph has new nodes.
Begin ==
    /\ runs < MaxRuns /\ todo = {}
    /\ runs' = runs + 1
    /\ todo' = Entry(Phase) /\ ran' = {}
    /\ step' = [n \in Members |-> "ask"]
    /\ found' = [n \in Researchers |-> <<>>]
    /\ candidates' = <<>> /\ reports' = {}
    /\ UNCHANGED <<docs, indexed>>

-----------------------------------------------------------------------------
(* The researchers                                                         *)

\* _build_messages: the search, whose result waits for the answer.
Search(n) ==
    /\ n \in todo \cap Researchers /\ step[n] = "ask"
    /\ \E S \in SUBSET Sources[n] : \E sources \in Orders(S) :
           found' = [found EXCEPT ![n] = sources]
    /\ step' = [step EXCEPT ![n] = "answer"]
    /\ UNCHANGED <<docs, runs, todo, ran, candidates, reports, indexed>>

\* An answer is the index of each extraction, in the model's order: what an
\* extraction says is about the source its index names.
Answers(sources) == [1..Len(sources) -> 1..Len(sources)]

\* _validate_indices_cover_sources; ValueError otherwise.
Covers(answer, sources) == Range(answer) = 1..Len(sources)

\* Mutant: the extractions are taken to be in the order of the sources.
BuildInOrder(sources, answer) ==
    [i \in 1..Len(sources) |->
        [text |-> {sources[i]}, source |-> {sources[i]},
         key_findings |-> {sources[answer[i]]}]]

\* The documents, in the order of the sources.
BuildIndexDocuments(sources, answer) ==
    [i \in 1..Len(sources) |->
        LET position == CHOOSE p \in DOMAIN answer : answer[p] = i
        IN  [text |-> {sources[i]}, source |-> {sources[i]},
             key_findings |-> {sources[answer[position]]}]]

\* Under new uuids.
IndexNew(new, sources) ==
    /\ docs' = docs \o new
    /\ indexed' = indexed \o sources

Extract(n) ==
    /\ n \in todo \cap Researchers /\ step[n] = "answer"
    /\ \E answer \in Answers(found[n]) :
         LET new == BuildIndexDocuments(found[n], answer)
         IN  /\ Covers(answer, found[n])
             /\ IndexNew(new, found[n])
             /\ reports' = reports \cup
                  {<<found[n][i], new[i].key_findings>> : i \in 1..Len(found[n])}
    /\ step' = [step EXCEPT ![n] = "report"]
    /\ UNCHANGED <<runs, todo, ran, found, candidates>>

-----------------------------------------------------------------------------
(* memory_manager                                                          *)

\* The most similar documents first; any order, since texts change.
Query ==
    /\ Manager \in todo /\ step[Manager] = "ask"
    /\ LET n == IF Cardinality(DOMAIN docs) < NResults THEN Cardinality(DOMAIN docs)
                ELSE NResults
       IN  \E window \in kSubset(n, DOMAIN docs) : candidates' \in Orders(window)
    /\ step' = [step EXCEPT ![Manager] = "answer"]
    /\ UNCHANGED <<docs, runs, todo, ran, found, reports, indexed>>

\* _validate_cluster_indices and _validate_clusters_partition_candidates: the
\* answers that are not refused.
Partitions(S) ==
    {P \in SUBSET ((SUBSET S) \ {{}}) :
        UNION P = S /\ \A c, d \in P : c # d => c \cap d = {}}

TextsOf(cluster) == UNION {docs[candidates[i]].text : i \in cluster}
SourcesOf(cluster) == UNION {docs[candidates[i]].source : i \in cluster}

\* Mutant: the index counts from zero.
CanonicalIdNext(cluster) == candidates[(Min(cluster) % Len(candidates)) + 1]

CanonicalId(cluster) == candidates[Min(cluster)]

\* The merged documents replace the canonical ones; the model's findings are
\* about the cluster.
BuildConsolidated(clusters) ==
    {<<CanonicalId(c),
       [text |-> TextsOf(c), source |-> SourcesOf(c), key_findings |-> TextsOf(c)]>> :
       c \in clusters}

Upsert(consolidated) ==
    /\ docs' = [id \in DOMAIN docs |->
                   IF \E new \in consolidated : new[1] = id
                   THEN (CHOOSE new \in consolidated : new[1] = id)[2]
                   ELSE docs[id]]
    /\ UNCHANGED indexed

Consolidate ==
    /\ Manager \in todo /\ step[Manager] = "answer"
    /\ \E clusters \in Partitions(DOMAIN candidates) :
         Upsert(BuildConsolidated(clusters))
    /\ step' = [step EXCEPT ![Manager] = "report"]
    /\ UNCHANGED <<runs, todo, ran, found, candidates, reports>>

-----------------------------------------------------------------------------

\* The report is written, the node returns.
Report(n) ==
    LET done == ran \cup {n}
    IN  /\ n \in todo /\ step[n] = "report"
        /\ \/ todo # {n} /\ todo' = todo \ {n} /\ ran' = done
           \/ todo = {n} /\ todo' = Successors(Phase, done) /\ ran' = {}
        /\ UNCHANGED <<docs, runs, step, found, candidates, reports, indexed>>

\* A search or the store raises, an answer is refused, a report cannot be
\* written: the run is over.
Fail ==
    /\ todo # {}
    /\ todo' = {} /\ ran' = {}
    /\ UNCHANGED <<docs, runs, step, found, candidates, reports, indexed>>

MemoryNext ==
    \/ Begin \/ Query \/ Consolidate \/ Fail
    \/ \E n \in Members : Search(n) \/ Extract(n) \/ Report(n)

MemorySpec == MemoryInit /\ [][MemoryNext]_memory_vars

-----------------------------------------------------------------------------
(* Properties                                                              *)

\* Nothing is forgotten: whatever was indexed under an id is still quoted by
\* the document of that id, however often consolidations merged it.
NothingForgotten == \A id \in DOMAIN docs : indexed[id] \in docs[id].text

\* A document names the sources it quotes, and its findings are about them,
\* and so are the findings a report prints under a source; in whatever order
\* the model answered and whichever documents were merged.
Attributed ==
    /\ \A id \in DOMAIN docs :
         docs[id].source = docs[id].text /\ docs[id].key_findings = docs[id].text
    /\ \A pair \in reports : pair[2] = {pair[1]}

\* Why both hold in every state.
MemoryInv ==
    /\ docs \in Seq(Documents) /\ indexed \in Seq(AllSources)
    /\ Len(docs) = Len(indexed)
    /\ found \in [Researchers -> Seq(AllSources)]
    /\ DOMAIN candidates \subseteq Nat
    /\ \A i \in DOMAIN candidates : candidates[i] \in DOMAIN docs
    /\ NothingForgotten /\ Attributed
=============================================================================
