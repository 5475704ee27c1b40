-------------------------- MODULE MCConnectionPool --------------------------
(* Instances of ConnectionPool for TLC: two passes of the Stream or Consumer *)
(* reconciler and one of the KeyValue or ObjectStore reconciler.             *)
EXTENDS ConnectionPool
=============================================================================
