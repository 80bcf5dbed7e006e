------------------------------ MODULE MCDaemon ------------------------------
(* Two raw values for away, one for present and one without a mapping. *)
EXTENDS Daemon

MCRaws == {0, 1, 2, 3}
MCPresentValues == {1}
MCAwayValues == {2, 3}
=============================================================================
