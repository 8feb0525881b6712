--------------------------- MODULE MCRenderFlights ---------------------------
(* RenderFlights for TLC.  Callers and keys are interchangeable; flights are  *)
(* not, because Lead takes a fixed one of those that are free.                *)
EXTENDS RenderFlights, TLC

Symmetric == Permutations(Callers) \cup Permutations(FlightKeys)
=============================================================================
