---------------------------- MODULE MCDocumentScan ----------------------------
(* Instances of DocumentScan for TLC. *)
EXTENDS DocumentScan

\* Two processes that run with the default workerId.
CONSTANTS w1, w2, defaultId
MCIdentity == [w \in {w1, w2} |-> defaultId]
===============================================================================
