----------------------------- MODULE MCPlotting -----------------------------
(* Plots of up to two of three files, one of which does not exist. *)
EXTENDS Plotting
=============================================================================
