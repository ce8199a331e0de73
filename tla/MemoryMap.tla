----------------------------- MODULE MemoryMap -----------------------------
(***************************************************************************)
(* The data-side address map of the SoC, as soc_top.v and mem_subsystem.v  *)
(* decode it, and the request record that travels on every memory port.    *)
(*                                                                         *)
(* An address is a byte address below AddrMod (2^32 in the chip).  The     *)
(* system SRAM answers to one page of RamPage bytes (bits 31:20 equal to   *)
(* 12'h100) and holds RamDepth words, so that its words repeat inside the  *)
(* page.  Everything from LocalBase (32'hC000_0000) up is the window of    *)
(* the local accelerator buffers, which soc_top.v keeps away from the      *)
(* memory subsystem.                                                       *)
(***************************************************************************)
EXTENDS Integers

CONSTANTS
  AddrMod,    \* number of byte addresses, 2^32 in the chip
  RamPage,    \* bytes in the page the system SRAM answers to, 2^20
  RamTag,     \* number of that page, 16#100
  RamDepth,   \* 32-bit words in the system SRAM, 2048
  LocalBase,  \* first byte of the local buffer windows, 16#C0000000
  Data        \* the words a memory location can hold

ASSUME MapAssumption ==
  /\ AddrMod \in Nat \ {0} /\ AddrMod % 4 = 0
  /\ RamPage \in Nat \ {0} /\ RamPage % 4 = 0
  /\ RamTag \in Nat
  /\ RamDepth \in Nat \ {0}
  /\ LocalBase \in Nat
  /\ (RamTag + 1) * RamPage <= LocalBase
  /\ LocalBase < AddrMod
  /\ Data # {}

Addr == 0 .. AddrMod - 1

RamWord == 0 .. RamDepth - 1

\* mem_subsystem: sel_ram = (arb_addr[31:20] == 12'h100)
InRam(a) == a \div RamPage = RamTag

\* mem_subsystem: .sram_addr(arb_addr[12:2])
RamIndex(a) == (a \div 4) % RamDepth

\* soc_top: dma_m_addr[31:28] < 4'hC keeps a request out of this window
InLocal(a) == a >= LocalBase

\* dma_master: src_addr_i[1:0] != 0 rejects an address
Aligned(a) == a % 4 = 0

\* 32-bit "+ 4" of the address counters
NextAddr(a) == (a + 4) % AddrMod

\* The request half of a memory port: req, we, addr, wdata.
Request == [req : BOOLEAN, we : BOOLEAN, addr : Addr, data : Data]

AnyData == CHOOSE d \in Data : TRUE

NoRequest == [req |-> FALSE, we |-> FALSE, addr |-> 0, data |-> AnyData]
=============================================================================
