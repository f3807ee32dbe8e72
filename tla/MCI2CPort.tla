----------------------------- MODULE MCI2CPort -----------------------------
(* Model-checking instances of I2CPort *)
EXTENDS I2CPort
=============================================================================
