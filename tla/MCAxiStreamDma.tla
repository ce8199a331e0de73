--------------------------- MODULE MCAxiStreamDma ---------------------------
EXTENDS AxiStreamDma

\* Two weights and one activation, then one weight and six bytes of
\* activations, a count that wraps and never ends; the second configuration
\* is unaligned and its addresses wrap too.
MCConfigs ==
  {[wgt |-> 0, act |-> 8, res |-> 4, lenWgt |-> 8, lenAct |-> 4],
   [wgt |-> 14, act |-> 12, res |-> 12, lenWgt |-> 4, lenAct |-> 6]}
=============================================================================
