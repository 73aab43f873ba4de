--------------------------- MODULE MCServerStart ---------------------------
(* ServerStart with a name that fits into sun_path.                        *)
EXTENDS ServerStart

MCWhere == "/tmp/mawim.control.socket"
=============================================================================
