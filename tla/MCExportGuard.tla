--------------------------- MODULE MCExportGuard ---------------------------
(* A small instance of the export guards for TLC.                          *)
EXTENDS ExportGuard
=============================================================================
