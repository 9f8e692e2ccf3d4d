-------------------------- MODULE MCProxyShutdown --------------------------
(***************************************************************************)
(* Queries of one profile from two devices.                                *)
(***************************************************************************)
EXTENDS ProxyShutdown

CONSTANTS q1, q2, q3, home, phone, laptop

MCProfileOf(q) == home
MCDeviceOf(q)  == IF q = q2 THEN laptop ELSE phone
=============================================================================
