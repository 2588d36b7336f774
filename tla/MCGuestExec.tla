----------------------------- MODULE MCGuestExec -----------------------------
(* GuestExec with a caller whose input goes on while the command ends.      *)
EXTENDS GuestExec

MCExecMixes == {{"input"}}
=============================================================================
