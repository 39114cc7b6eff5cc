---------------------------- MODULE MCRpcClient ----------------------------
(***************************************************************************)
(* Instances of RpcClient for TLC; the constants are in MCRpcClient.cfg.   *)
(***************************************************************************)
EXTENDS RpcClient
=============================================================================
