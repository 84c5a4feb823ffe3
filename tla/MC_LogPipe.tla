------------------------------ MODULE MC_LogPipe ------------------------------
(***************************************************************************)
(* Two log categories, up to three headers, three sends and three         *)
(* numbered messages: enough for a header to wait through a failed send,  *)
(* a DATA send between two LOG sends, and two headers in one message.     *)
(***************************************************************************)
EXTENDS LogPipe, TLC

MCCategories == {"PARSER", "SYNTH"}

=============================================================================
