-------------------------- MODULE MCPeripheralBus --------------------------
EXTENDS PeripheralBus

To(reg, we, value) == [target |-> "dma", reg |-> reg, we |-> we, value |-> value]

\* Jobs of one word and of two, aligned or not, a length with a bit above its
\* width, starts, aborts and acknowledgements with and without their bit, polls,
\* and accesses that go elsewhere.
MCAccesses ==
  {To("src", TRUE, 0), To("src", TRUE, 2), To("len", TRUE, 13),
   To("ctrl", TRUE, 1), To("ctrl", TRUE, 2), To("irq_ack", TRUE, 1),
   To("stat", FALSE, 0),
   [target |-> "mem", reg |-> "none", we |-> FALSE, value |-> 0],
   [target |-> "other", reg |-> "none", we |-> TRUE, value |-> 1]}
=============================================================================
