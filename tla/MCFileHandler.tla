--------------------------- MODULE MCFileHandler ---------------------------
(* Model-checking instances of FileHandler *)
EXTENDS FileHandler
MCKeys == {1}
MCPages == {<<1, 2>>}
MCAddresses == {1, 2}
=============================================================================
