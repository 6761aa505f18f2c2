------------------------------- MODULE MCDhcp -------------------------------
(* A small instance of Dhcp. *)
EXTENDS Dhcp

CONSTANTS a, b

MCServers == {a, b}
=============================================================================
