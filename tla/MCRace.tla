------------------------------- MODULE MCRace -------------------------------
(* Race as mux_timeout.cpp and select.cpp run it, three times. *)
EXTENDS Race
=============================================================================
