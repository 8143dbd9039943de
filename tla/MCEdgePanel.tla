---------------------------- MODULE MCEdgePanel ----------------------------
(* Two workspace folders and one file; a log of two lines.  Three events   *)
(* reach an event during a listing, a listing during a refresh, a view     *)
(* that is closed and opened again, and a full ring buffer.                *)
EXTENDS EdgePanel
=============================================================================
