-------------------------- MODULE MCWorkerSupervision --------------------------
(* Background units, one slice and two operation ids are model values of the  *)
(* configurations.                                                            *)
EXTENDS WorkerSupervision
=============================================================================
