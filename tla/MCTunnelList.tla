---------------------------- MODULE MCTunnelList ----------------------------
(* Two tabs; a plain tunnel and one with a password, both of the first.     *)
EXTENDS TunnelList

CONSTANTS s1, s2, plain, secret

MCHome == [t \in Tunnels |-> s1]
=============================================================================
