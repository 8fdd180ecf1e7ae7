----------------------------- MODULE MCPageRanges -----------------------------
(* Two chunks of memory with page 6 between them missing. Both limits of low   *)
(* memory fall inside the first chunk.                                         *)
EXTENDS PageRanges, TLC
MCChunks == (2 :> 4) @@ (7 :> 1)
MCFlags == {{}, {"CONTIG"}, {"ALIGN64K"}, {"LOWER16MB"}, {"LOWER1MB", "CONTIG"}}
=============================================================================
