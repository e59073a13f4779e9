------------------------------- MODULE MCGC -------------------------------
(* GriftGC on every graph over N slots whose objects come in four shapes:  *)
(* a leaf; a link to slot 0 beside an index past the end; a link to every  *)
(* slot, itself included; and one that lists a child twice, so that its    *)
(* children do not fit one batch.  Any of the links may dangle.            *)
EXTENDS GriftGC, TLC

MCValue == {"leaf", "pair", "wide", "twice"}
MCChildren == "leaf" :> << >> @@ "pair" :> <<0, 7>>
              @@ "wide" :> <<0, 1, 2>> @@ "twice" :> <<2, 2, 1>>
=============================================================================
