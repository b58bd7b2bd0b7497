---------------------------- MODULE MCLoggerQueue ----------------------------
(* TLC instance of LoggerQueue.                                              *)
EXTENDS LoggerQueue

CONSTANTS t1, t2   \* model values of the threads
=============================================================================
