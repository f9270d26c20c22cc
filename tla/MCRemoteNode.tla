---------------------------- MODULE MCRemoteNode ----------------------------
(* Model values for RemoteNode; the node and its remote end are instanced  *)
(* by the cfg files.                                                       *)
EXTENDS RemoteNode

\* codes the remote end may write: its VERIFY, a ping and a request for data
MCRemoteCodes == {"VERIFY", "PING", "GET_REQ"}

\* only a PONG can fault a node that never pinged
MCRemoteCodesPong == {"VERIFY", "PONG"}
=============================================================================
