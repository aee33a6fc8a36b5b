---- MODULE KnowledgeBase ----
(***************************************************************************)
(* K8sKnowledgeBase (internal/rag/knowledge.go): what it writes into the   *)
(* metadata of the documents it ingests, and which metadata its queries    *)
(* ask for.  Of the metadata, only what a query looks at is kept.          *)
(***************************************************************************)

IngestSecurityGuidelines == [category |-> "security", namespace |-> "security"]
IngestBestPractices == [category |-> "best_practice", namespace |-> "best_practices"]
IngestIncident == [category |-> "incident", namespace |-> "incidents"]
IngestRunbook == [category |-> "runbook", namespace |-> "runbooks"]

Knowledge == {IngestSecurityGuidelines, IngestBestPractices, IngestIncident, IngestRunbook}

----
(* The filters. *)

QuerySecurity == [namespace |-> "security"]

\* Mutant: the category where the namespace is compared.
ByCategoryName == [namespace |-> "incident"]

QueryIncidents == [namespace |-> "incidents"]
QueryRunbooks == [namespace |-> "runbooks"]

\* Nothing that is ingested has this category.
QueryPerformance == [category |-> "performance"]

QueryAll == [key \in {} |-> ""]

\* metadata->>'key' = value, for each key of the filter.
Matches(filter, metadata) == \A key \in DOMAIN filter : metadata[key] = filter[key]
====
