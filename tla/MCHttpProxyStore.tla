-------------------------- MODULE MCHttpProxyStore --------------------------
(* Instances of HttpProxyStore for TLC. *)
EXTENDS HttpProxyStore

MCOffsets == {-1, 0, 1, 5}
=============================================================================
