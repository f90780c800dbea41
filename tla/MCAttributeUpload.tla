--------------------------- MODULE MCAttributeUpload ---------------------------
(* Model values for AttributeUpload: up to four entries in batches of two give no *)
(* batch, full batches only, and a partial last one; with two names two entries  *)
(* of a call may be about the same attribute.                                    *)
EXTENDS AttributeUpload

CONSTANTS k1, k2
TwoKeys == {k1, k2}
================================================================================
