-------------------------------- MODULE MCIngest --------------------------------
(***************************************************************************)
(* Instances of Ingest for TLC.                                             *)
(***************************************************************************)
EXTENDS Ingest, Schema, TLC

CONSTANTS
    p1, plain,              \* plain was compiled without the embeddings feature
    d1, d2, n1, n2, t1, t2

Programs == {p1, plain}

\* The release whose last migration was the ninth.
EarlyVersions == 9
EarlyBuilds == [p \in Processes |-> SubSeq(MIGRATIONS(p # plain), 1, EarlyVersions)]

Symmetry == Permutations(Names) \cup Permutations(Paragraphs)
================================================================================
