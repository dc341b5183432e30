------------------------------ MODULE MCPolling ------------------------------
(***************************************************************************)
(* Instances of InboundPolling for TLC: a reply with a Message-ID, a       *)
(* bounce without, a mail of a stranger, and an opt-out over WhatsApp.     *)
(***************************************************************************)
EXTENDS InboundPolling

CONSTANTS m0, m1, m2, c1, b1

MCOld == <<m0>>
MCBizOf == [m \in Messages |-> b1]
MCKindOf == [m \in Messages |->
    CASE m = m0 -> "ignored" [] m = m1 -> "replied"
      [] m = m2 -> "bounced" [] m = c1 -> "opted_out"]
=============================================================================
