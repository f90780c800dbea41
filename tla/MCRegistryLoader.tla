--------------------------- MODULE MCRegistryLoader ---------------------------
(* Model values for RegistryLoader: five entries in batches of two, so that  *)
(* the last of three batches is partial, and a second and a third run.       *)
EXTENDS RegistryLoader

CONSTANT loader
Single == {loader}
================================================================================
