--------------------------- MODULE MCGrpcServer ---------------------------
(***************************************************************************)
(* Instance: two calls report as host a, one of them in host_info alone,   *)
(* one as b, one as c, and one call carries no host name.                  *)
(***************************************************************************)
EXTENDS GrpcServer

CONSTANTS a, b, c, r1, r2, r3, r4, r5

MCName == r1 :> a @@ r2 :> NoName @@ r3 :> b @@ r4 :> c @@ r5 :> NoName

MCInfoHostname == r1 :> a @@ r2 :> a @@ r3 :> b @@ r4 :> NoName @@ r5 :> NoName
=============================================================================
