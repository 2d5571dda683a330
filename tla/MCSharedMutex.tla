-------------------------- MODULE MCSharedMutex --------------------------
(* SharedMutex for TLC: a few threads, halves of a word just wide enough. *)
EXTENDS SharedMutex
=============================================================================
