-------------------------- MODULE MCSemanticCache --------------------------
(***************************************************************************)
(* Three queries and a document of two sentences; three embeddings, of which *)
(* b is similar to both a and c, in three of four buckets: c's bucket is   *)
(* beside a's, around the end, but not beside b's.                         *)
(***************************************************************************)
EXTENDS SemanticCache, TLC

CONSTANTS q1, q2, q3, d1, a, b, c

MCQueries == {q1, q2, q3}
MCDocuments == {d1}
MCEmbeddings == {a, b, c}

MCBucketOf == (a :> 0) @@ (b :> 1) @@ (c :> 3)

MCSimilarity ==
  [p \in MCEmbeddings \X MCEmbeddings |->
     IF p[1] = p[2] THEN 100
     ELSE IF {p[1], p[2]} = {a, b} THEN 96
     ELSE IF {p[1], p[2]} = {b, c} THEN 95 ELSE 10]

\* Queries come from the deterministic embedder; the document may be indexed
\* again with another first sentence.
MCReindexed ==
  (q1 :> {a}) @@ (q2 :> {b}) @@ (q3 :> {c}) @@ (<<d1, 0>> :> {b, c}) @@ (<<d1, 1>> :> {a})

\* Every key always has the same embedding.
MCStable ==
  (q1 :> {a}) @@ (q2 :> {b}) @@ (q3 :> {c}) @@ (<<d1, 0>> :> {c}) @@ (<<d1, 1>> :> {a})
=============================================================================
