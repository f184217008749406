-------------------------- MODULE MCRaopRtpMirror --------------------------
(* Three streams and a prefix read in up to three parts, so that a stream can *)
(* end with any part of a prefix read and be followed by another.            *)
EXTENDS RaopRtpMirror
=============================================================================
