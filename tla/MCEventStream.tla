---------------------------- MODULE MCEventStream ----------------------------
(* A page that reconnects while its previous connection is still being torn *)
(* down, on a server with one thread for streams.                           *)
EXTENDS EventStream
=============================================================================
