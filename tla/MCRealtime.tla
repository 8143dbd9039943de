----------------------------- MODULE MCRealtime -----------------------------
(* Small instances of the realtime session for TLC. *)
EXTENDS RealtimeSession, TLC

MCLoadedChunks == <<>>

MCOldLines == <<1>>

PulseSymmetry == Permutations(Pulses)

=============================================================================
