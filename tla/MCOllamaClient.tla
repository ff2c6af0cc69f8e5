--------------------------- MODULE MCOllamaClient ---------------------------
(* OllamaClient for TLC: three attempts of four seconds each in polls that *)
(* last from one budget (six seconds) to three requests.                   *)
EXTENDS OllamaClient

\* 2 and 4 seconds, as in the code.
MCBackoff == [n \in 1 .. Attempts |-> 2 ^ n]

=============================================================================
