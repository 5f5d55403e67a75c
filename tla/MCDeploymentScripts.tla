------------------------ MODULE MCDeploymentScripts ------------------------
(* Instances of DeploymentScripts for TLC. *)
EXTENDS DeploymentScripts
=============================================================================
