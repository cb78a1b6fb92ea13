-------------------------------- MODULE MCWsHub --------------------------------
(* Two connections, a stream of one, three events, one crash of the hub. *)
EXTENDS WsHub

===============================================================================
