---------------------------- MODULE MCScopedRows ----------------------------
EXTENDS ScopedRows

MCThread == 0..(MaxThreads - 1)

(* More rows than threads, a single row, as many as threads, and two:      *)
(* three waits, after which `passed` may be what a slow spinner saw first. *)
MCOutSize == <<4, 1, 3, 2>>
=============================================================================
