--------------------------------- MODULE MCRun ---------------------------------
(* Run with the servers of nexus: REST, gRPC and argus-registry.            *)
EXTENDS Run
=============================================================================
