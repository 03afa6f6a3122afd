----------------------------- MODULE MCAxiDmac -----------------------------
EXTENDS AxiDmac
MCCaps == [mem : SUBSET {"src", "dest"}, cyclic : BOOLEAN, irq : {"IRQ_ENABLED", "IRQ_DISABLED"}]
=============================================================================
