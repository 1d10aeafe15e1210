-------------------------- MODULE MCRuntimeManaged --------------------------
(* RuntimeControl in a deployment that sets no variable of WhatsApp, whose   *)
(* administrator saves WhatsApp's settings.                                  *)
EXTENDS RuntimeControl

Changes == {[feature |-> "whatsapp", on |-> TRUE, cfg |-> <<1, 1>>]}
Nothing == Empty
=============================================================================
