--------------------------- MODULE MCLivePipeline ---------------------------
(* Instances of LivePipeline for TLC; the .cfg files give the bounds.        *)
EXTENDS LivePipeline
=============================================================================
