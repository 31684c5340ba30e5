-------------------------- MODULE MCProcessingJobs --------------------------
(***************************************************************************)
(* A small instance of ProcessingJobs, and what a restart tells the reader *)
(* of a job.                                                               *)
(***************************************************************************)
EXTENDS ProcessingJobs, TLC

(* startup: "Processing was interrupted because the server restarted.  The *)
(* invoice was not recorded; upload it again."                             *)
InterruptedIsUnrecorded == interrupted \cap recorded = {}
=============================================================================
