---------------------------- MODULE MCCriticTurn ----------------------------
(***************************************************************************)
(* Two models and one effort a request may name or leave out.              *)
(***************************************************************************)
EXTENDS CriticTurn, TLC
=============================================================================
