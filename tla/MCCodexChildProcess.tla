------------------------ MODULE MCCodexChildProcess ------------------------
(* A small instance of CodexChildProcess for TLC. *)
EXTENDS CodexChildProcess, TLC

MCShared == {None, 1}

=============================================================================
