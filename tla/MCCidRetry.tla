---------------------------- MODULE MCCidRetry ----------------------------
(* Instances of CidRetry for TLC.                                          *)
EXTENDS CidRetry

(* Everything the server can send to port 5060.                            *)
AnyServer == {"OkRegister", "OkCall", "JsonReply"}

(* A registrar that accepts the terminal and never answers a report.       *)
Registrar == {"OkRegister"}
===========================================================================
