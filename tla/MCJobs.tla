------------------------------ MODULE MCJobs ------------------------------
(* Small instances of Jobs for TLC.                                         *)
EXTENDS Jobs
============================================================================
