----------------------------- MODULE MCSpinMutex -----------------------------
(* Small instances of SpinMutex: three threads, numbered as thread ids are. *)
EXTENDS SpinMutex

MCThreads == 1 .. 3
==============================================================================
