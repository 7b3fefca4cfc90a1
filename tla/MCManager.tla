------------------------------ MODULE MCManager ------------------------------
(***************************************************************************)
(* Instance: two reports of a host named a, and one without a name, whose  *)
(* hostname is a too and whose hostname and address make a_ip.             *)
(***************************************************************************)
EXTENDS Manager

CONSTANTS a, a_ip, r1, r2, r3

MCName == [r \in Requests |-> IF r = r3 THEN NoName ELSE a]
MCInfoHostname == [r \in Requests |-> a]
MCInfoName == [r \in Requests |-> a_ip]
=============================================================================
