----------------------- MODULE MCExtensionSupervisor -----------------------
(* Model checking of ExtensionSupervisor on one extension with two views.  *)
EXTENDS ExtensionSupervisor, TLC

CONSTANTS v1, v2, g1, g2

TwoViews == {v1, v2}
OneView  == {v1}
TwoPgids == {g1, g2}
=============================================================================
