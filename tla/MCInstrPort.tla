---------------------------- MODULE MCInstrPort ----------------------------
EXTENDS InstrPort, TLC

\* Two words; the byte addresses 8..11 are those of word 0 again.
MCRom == 0 :> "w0" @@ 1 :> "w1"
MCWord == {"w0", "w1"}
=============================================================================
