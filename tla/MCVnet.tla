------------------------------- MODULE MCVnet -------------------------------
(* Two cards of any type, of which any may fail to initialise.             *)
EXTENDS Vnet
=============================================================================
