-------------------------- MODULE MCMonitorPipeline --------------------------
(***************************************************************************)
(* MonitorPipeline on small instances.  The bounds are in the .cfg files;  *)
(* monitors are interchangeable, so safety runs may use Symmetry.          *)
(***************************************************************************)
EXTENDS MonitorPipeline, TLC

Symmetry == Permutations(Monitors)

=============================================================================
