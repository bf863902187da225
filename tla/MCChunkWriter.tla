--------------------------- MODULE MCChunkWriter ---------------------------
(* ChunkWriter for TLC. *)
EXTENDS ChunkWriter

(* Two pages of two bytes: part of the first, and the end of the chunk.    *)
Ends == {<<0, 1>>, <<3, 4>>}
=============================================================================
