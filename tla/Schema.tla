-------------------------------- MODULE Schema --------------------------------
(***************************************************************************)
(* The migrations of db/schema.rs, statement by statement.  A statement is   *)
(* what matters when it is run a second time: CREATE ... IF NOT EXISTS does  *)
(* nothing then, ALTER TABLE ... ADD COLUMN fails.  Indexes, triggers and    *)
(* pragmas are left out: each may be run again.                              *)
(***************************************************************************)
EXTENDS Sequences

Create(table) == [table |-> table, column |-> ""]
Add(table, column) == [table |-> table, column |-> column]
CreateAll(tables) == [i \in DOMAIN tables |-> Create(tables[i])]
AddAll(table, columns) == [i \in DOMAIN columns |-> Add(table, columns[i])]

SCHEMA_V1 == CreateAll(<<
    "schema_version", "sessions", "messages", "memories", "memory_links", "memories_fts",
    "experiences", "skills", "user_profile", "tasks", "scheduled_tasks",
    "pending_confirmations", "audit_log", "inference_cache">>)

SCHEMA_V2 == CreateAll(<<"experiments", "experiment_config">>)

SCHEMA_V3 == CreateAll(<<"events">>)

SCHEMA_V4 == CreateAll(<<"checkpoints">>)

SCHEMA_V5 == CreateAll(<<"knowledge_nodes", "knowledge_edges">>)

SCHEMA_V6 == <<Add("memories", "expires_at"), Add("experiences", "expires_at"),
               Add("skills", "expires_at")>>

SCHEMA_V7 == AddAll("experiments", <<"prescreened">>)

\* One index.
SCHEMA_V8 == <<>>

SCHEMA_V9 == AddAll("experiments", <<
    "reliability_decay", "variance_amplification", "graceful_degradation", "stability_delta">>)

SCHEMA_V10 == CreateAll(<<"heuristics">>)

SCHEMA_V11 == AddAll("heuristics", <<"stability">>)

SCHEMA_V12 == AddAll("heuristics", <<
    "review_status", "importance", "volatility", "freshness", "source_confidence",
    "last_reviewed_at", "next_review_at", "review_count", "stale_count">>)

\* A build without the embeddings feature compiles an empty statement.
SCHEMA_V13(embeddings) == IF embeddings THEN CreateAll(<<"vec_memories">>) ELSE <<>>

SCHEMA_V14 == AddAll("experiments", <<
    "tier_t1", "tier_t2", "tier_t3", "tier_t4", "tier_t5", "tier_t6">>)

SCHEMA_V15 == AddAll("experiments", <<"pass_at_k_t_steps", "pass_at_k_t_seconds">>)

SCHEMA_V16 == AddAll("experiments", <<"frontier_bucket_scores", "frontier_inject_scores">>)

MIGRATIONS(embeddings) == <<
    SCHEMA_V1, SCHEMA_V2, SCHEMA_V3, SCHEMA_V4, SCHEMA_V5, SCHEMA_V6, SCHEMA_V7, SCHEMA_V8,
    SCHEMA_V9, SCHEMA_V10, SCHEMA_V11, SCHEMA_V12, SCHEMA_V13(embeddings), SCHEMA_V14,
    SCHEMA_V15, SCHEMA_V16>>

\* The table that a build with the embeddings feature keeps its vectors in.
VecMemories == Create("vec_memories")
==============================================================================
