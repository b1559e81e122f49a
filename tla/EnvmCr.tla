-------------------------------- MODULE EnvmCr --------------------------------
(***************************************************************************)
(* The register of the eNVM's frequency range, which the programming        *)
(* services and the eNVM driver both change for the time they run.           *)
(***************************************************************************)
VARIABLE envm  \* whose setting ENVM_CR holds: "design" or "programming"

EnvmSettings == {"design", "programming"}
=============================================================================
