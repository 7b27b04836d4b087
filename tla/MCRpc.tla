--------------------------------- MODULE MCRpc ---------------------------------
(* A small instance of Rpc for TLC.                                        *)
EXTENDS Rpc

RpcCalls == <<"subscribe", "work", "unsubscribe">>
===============================================================================
