------------------------ MODULE MCWorkspaceRegistry ------------------------
(* An instance of WorkspaceRegistry for TLC. *)
EXTENDS WorkspaceRegistry
=============================================================================
