----------------------------- MODULE MCSession -----------------------------
(***************************************************************************)
(* The instance of Session for TLC: two hosts, so that a redirection can   *)
(* name another one or the same; one disconnect reason next to "none       *)
(* given"; a timeout of one round, so that a cookie can be fresh, in use  *)
(* and too old.  Ages saturate above the timeout, and nothing else counts: *)
(* the number of connections in a run is not bounded.                      *)
(***************************************************************************)
EXTENDS Session

MCHosts == {"first", "second"}
MCReasons == {"IdleTimeout"}
=============================================================================
