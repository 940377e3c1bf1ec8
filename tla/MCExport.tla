------------------------------ MODULE MCExport ------------------------------
(* Constants for the runs of Export: the requests that take part are model  *)
(* values of the configuration.                                             *)
EXTENDS Export
=============================================================================
