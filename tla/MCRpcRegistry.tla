---------------------------- MODULE MCRpcRegistry ----------------------------
(***************************************************************************)
(* Methods that leave the registry alone, and methods that use it.         *)
(***************************************************************************)
EXTENDS RpcRegistry

AllNestedUses == SUBSET {"register", "unregister"}
=============================================================================
