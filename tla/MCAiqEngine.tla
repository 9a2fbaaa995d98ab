---------------------------- MODULE MCAiqEngine ----------------------------
(***************************************************************************)
(* Instances of AiqEngine: a sensor with one gain that takes effect in the  *)
(* frame it is written in (digitalGainLag 0), after the exposure.          *)
(***************************************************************************)
EXTENDS AiqEngine

Digital == {"digital"}
LagZero == [g \in Digital |-> ExposureLag]
Both    == BOOLEAN

=============================================================================
