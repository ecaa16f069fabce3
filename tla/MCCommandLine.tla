--------------------------- MODULE MCCommandLine ----------------------------
(* The command line with a small number of revisions of the input. *)
EXTENDS CommandLineProps
=============================================================================
