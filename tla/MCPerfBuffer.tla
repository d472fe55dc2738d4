---------------------------- MODULE MCPerfBuffer ----------------------------
(***************************************************************************)
(* PerfBuffer on two CPUs with rings of two or three records.              *)
(***************************************************************************)
EXTENDS PerfBuffer, TLC

MCSymmetry == Permutations(Cpus)
=============================================================================
