--------------------------- MODULE MCStreamServer ---------------------------
(* StreamServer with the constants that the .cfg files give *)
EXTENDS StreamServer
=============================================================================
