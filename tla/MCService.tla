------------------------------- MODULE MCService -------------------------------
(* The service through two starts or so; see the configurations for the bounds. *)
EXTENDS Service
================================================================================
