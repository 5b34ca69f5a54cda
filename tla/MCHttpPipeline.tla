--------------------------- MODULE MCHttpPipeline ---------------------------
(* Model checking of HttpPipeline: requests are interchangeable.           *)
EXTENDS HttpPipeline, TLC

Symmetry == Permutations(Requests)

=============================================================================
