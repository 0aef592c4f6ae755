------------------------------ MODULE MCOpenVAS ------------------------------
(***************************************************************************)
(* A small instance of OpenVAS and Container, see MCOpenVAS.cfg.           *)
(***************************************************************************)
EXTENDS OpenVAS
=============================================================================
