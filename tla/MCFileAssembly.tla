--------------------------- MODULE MCFileAssembly ---------------------------
(* Instances of FileAssembly for TLC. *)
EXTENDS FileAssembly

MCUsers == 1..Segments
=============================================================================
