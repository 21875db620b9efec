------------------------------ MODULE MCMsAudits ------------------------------
(* The instance of MCMicroservices with its audits. *)
EXTENDS MCMicroservices, MsAudits
=============================================================================
