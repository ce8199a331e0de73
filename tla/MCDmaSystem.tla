---------------------------- MODULE MCDmaSystem ----------------------------
EXTENDS DmaSystem

(* The map: one page of 16 bytes at 16 with the four words of the RAM, and *)
(* the local window from 48 up.                                            *)
ReadAt(a) == [req |-> TRUE, we |-> FALSE, addr |-> a, data |-> AnyData]
WriteAt(a) == {[req |-> TRUE, we |-> TRUE, addr |-> a, data |-> d] : d \in Data}

\* Empty, partial and whole-word lengths, forwards and backwards overlaps,
\* and a misaligned address.
CopyJobs ==
  {[src |-> 16, dst |-> 20, len |-> 8], [src |-> 20, dst |-> 16, len |-> 8],
   [src |-> 16, dst |-> 24, len |-> 0], [src |-> 16, dst |-> 24, len |-> 5],
   [src |-> 24, dst |-> 16, len |-> 3], [src |-> 18, dst |-> 16, len |-> 4]}

OneJob == {[src |-> 16, dst |-> 24, len |-> 5]}
OneConfig == {[wgt |-> 20, act |-> 24, res |-> 24, lenWgt |-> 4, lenAct |-> 4]}
CoreTraffic == {ReadAt(16)} \cup WriteAt(20)
LocalJob == {[src |-> 16, dst |-> 48, len |-> 4]}
OneOrLocalJob == OneJob \cup LocalJob
AnyBeat == [valid : BOOLEAN, last : BOOLEAN, data : Data]
NoResults == {[valid |-> FALSE, last |-> TRUE, data |-> AnyData]}
Both == BOOLEAN
Never == {FALSE}
CoreStores == WriteAt(20)
NoCoreTraffic == {}
=============================================================================
