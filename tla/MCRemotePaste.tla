--------------------------- MODULE MCRemotePaste ---------------------------
(* Small instances of RemotePaste: one file paste and one commit replay    *)
(* contend for a destination.                                              *)
EXTENDS RemotePaste

CONSTANTS file, replay

TwoLeases == {file, replay}
OneReplay == {replay}
=============================================================================
