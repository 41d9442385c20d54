---------------------------- MODULE MCGeocoding ----------------------------
(* An instance of Geocoding for TLC: a second of three ticks. *)
EXTENDS Geocoding
=============================================================================
