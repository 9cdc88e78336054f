---------------------------- MODULE MCTenantPool ----------------------------
(* Small instances of TenantPool.                                           *)
EXTENDS TenantPool, TLC
=============================================================================
