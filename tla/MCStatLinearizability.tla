------------------------ MODULE MCStatLinearizability ------------------------
(* Model-checking instance of StatLinearizability. *)
EXTENDS StatLinearizability, MCBitBucketFS
=============================================================================
