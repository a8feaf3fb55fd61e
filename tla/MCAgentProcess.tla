--------------------------- MODULE MCAgentProcess ---------------------------
(* A small instance of AgentProcess, and of the ControlSession in it. *)
EXTENDS AgentProcess

\* The beginning of config.py's schedule.
ShortSchedule == <<1, 2>>
==============================================================================
