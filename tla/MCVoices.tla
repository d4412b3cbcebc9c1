------------------------------ MODULE MCVoices ------------------------------
(***************************************************************************)
(* A small instance of Voices: two chatty channels, a quiet one and a      *)
(* locked one.                                                             *)
(***************************************************************************)
EXTENDS Voices

CONSTANTS chatty1, chatty2, quiet, locked
=============================================================================
