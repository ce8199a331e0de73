----------------------------- MODULE MCDataPort -----------------------------
EXTENDS DataPort

Read(a) == [req |-> TRUE, we |-> FALSE, addr |-> a, data |-> AnyData]
Write(a) == {[req |-> TRUE, we |-> TRUE, addr |-> a, data |-> d] : d \in Data}

\* Address 16 and 20 are the two words of the RAM, 24 is 16 again, and 0 is
\* outside of the page.  soc_top ties the MAC ports off; here all four are in
\* use.
MCCpu == {NoRequest} \cup Write(16)
MCMac == {NoRequest, Read(20)}
MCDma == {NoRequest, Read(24), Read(0)}
=============================================================================
