--------------------------- MODULE MCGenerations ---------------------------
(* The counters at the limit of their width: two bits instead of 63.        *)
EXTENDS Generations
=============================================================================
