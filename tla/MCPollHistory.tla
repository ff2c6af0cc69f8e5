--------------------------- MODULE MCPollHistory ---------------------------
(***************************************************************************)
(* Instances of PollHistory for TLC, with the events of MCPollLoop.        *)
(***************************************************************************)
EXTENDS PollHistory, MCPollLoop

=============================================================================
