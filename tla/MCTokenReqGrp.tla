----------------------------- MODULE MCTokenReqGrp -----------------------------
(* Two threads settle a group of three requests in every order, for every plan *)
(* of calls: each request granted, failed, or raced by both.                   *)
EXTENDS TokenReqGrp
===============================================================================
