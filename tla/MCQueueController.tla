-------------------------- MODULE MCQueueController --------------------------
(***************************************************************************)
(* Model-checking instance of QueueController.                             *)
(***************************************************************************)
EXTENDS QueueController
=============================================================================
