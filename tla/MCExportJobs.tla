---------------------------- MODULE MCExportJobs ----------------------------
(* Instances of ExportJobs for TLC; the .cfg files give the bounds.          *)
EXTENDS ExportJobs
=============================================================================
