------------------------------ MODULE MCChunking ------------------------------
(***************************************************************************)
(* An instance of Chunking: a chunk size of a few characters, sentences    *)
(* that are empty, short, of the size of the overlap and longer than a     *)
(* chunk.                                                                  *)
(***************************************************************************)
EXTENDS Chunking

MCLengths == 0..9
=============================================================================
