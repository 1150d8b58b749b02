----------------------------- MODULE MCRawChunk -----------------------------
(* Instances of RawChunk for TLC.  Chunk and gap identifiers are uuid4      *)
(* values the code only compares, so permuting them changes nothing.       *)
EXTENDS RawChunk, TLC

Symmetry == Permutations(Chunks) \cup Permutations(Gaps)
=============================================================================
