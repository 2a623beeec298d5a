---------------------------- MODULE MCRemoteTab -----------------------------
(* A restored tab with folders too deep to walk.                           *)
EXTENDS RemoteTab

CONSTANT deep

OneDeep == {deep}
=============================================================================
