--------------------------- MODULE MCEndpointTail ---------------------------
(* A small instance of EndpointTail for TLC.                               *)
EXTENDS EndpointTail
=============================================================================
