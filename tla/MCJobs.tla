------------------------------- MODULE MCJobs -------------------------------
(* Instances of Jobs for TLC. *)
EXTENDS Jobs

CONSTANTS s1, s2, s3, b1
===============================================================================
