--------------------------- MODULE MCPatchStream ---------------------------
(* Instances of PatchStream for TLC.                                       *)
EXTENDS PatchStream
=============================================================================
