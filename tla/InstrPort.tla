----------------------------- MODULE InstrPort -----------------------------
(***************************************************************************)
(* rtl/core/mem_subsystem.v, instruction side, and rtl/core/boot_rom.v:    *)
(* the fetch port in front of the boot ROM.  The ROM itself is             *)
(* combinational; a granted fetch captures its word in instr_data_q.       *)
(*                                                                         *)
(* One step is one rising clock edge.  fetch is the request of the         *)
(* prefetch buffer in this cycle, dataAddr the address on the data port,   *)
(* which shares the ROM's address multiplexer, and outstanding the queue   *)
(* of the addresses accepted and not answered yet, oldest first.           *)
(***************************************************************************)
EXTENDS Integers, Sequences

CONSTANTS
  RomDepth,   \* words in the ROM, 1024
  PcMod,      \* number of byte addresses, 2^32
  RomWord,       \* the words the ROM can hold
  Rom         \* the firmware image

RomIndex(a) == (a \div 4) % RomDepth

Pc == 0 .. PcMod - 1

ASSUME RomAssumption ==
  /\ RomDepth \in Nat \ {0}
  /\ PcMod \in Nat \ {0}
  /\ Rom \in [0..RomDepth - 1 -> RomWord]
  /\ RomWord # {}

VARIABLES
  instrRvalid, instrPending, instrAddrQ, instrDataQ,
  fetch, dataAddr,
  outstanding

fetchRegs == <<instrRvalid, instrPending, instrAddrQ, instrDataQ>>
fetchVars == <<fetchRegs, fetch, dataAddr, outstanding>>

\* Mutant of InstrGnt: a fetch is granted while another one is pending.
InstrGntAlways == fetch.req

InstrGnt == fetch.req /\ ~instrPending

\* The ROM is looked up at the captured address while a fetch is pending, at
\* the live fetch address otherwise, and for the data port when nobody fetches.
RomData ==
  Rom[RomIndex(IF instrPending THEN instrAddrQ
               ELSE IF fetch.req THEN fetch.addr ELSE dataAddr)]

Accept ==
  /\ InstrGnt
  /\ instrPending' = TRUE
  /\ instrAddrQ' = fetch.addr
  /\ instrDataQ' = RomData

\* Mutant of Release: the data register follows the live address.
ReleaseLive ==
  /\ ~InstrGnt
  /\ instrPending' = FALSE
  /\ instrDataQ' = IF fetch.req THEN Rom[RomIndex(fetch.addr)] ELSE instrDataQ
  /\ UNCHANGED instrAddrQ

Release ==
  /\ ~InstrGnt
  /\ instrPending' = FALSE
  /\ UNCHANGED <<instrAddrQ, instrDataQ>>

FetchTick ==
  /\ instrRvalid' = instrPending
  /\ Accept \/ Release

\* Reset clears the data register to the zero word.
ZeroWord == CHOOSE w \in RomWord : TRUE

FetchInit0 ==
  /\ instrRvalid = FALSE /\ instrPending = FALSE
  /\ instrAddrQ = 0 /\ instrDataQ = ZeroWord

FetchReset ==
  /\ instrRvalid' = FALSE /\ instrPending' = FALSE
  /\ instrAddrQ' = 0 /\ instrDataQ' = ZeroWord

-----------------------------------------------------------------------------
(* The prefetch buffer may change its mind about the address in every      *)
(* cycle; nothing about it is assumed.                                     *)

FetchRequest == [req : BOOLEAN, addr : Pc]

FetchCoreTick == fetch' \in FetchRequest /\ dataAddr' \in Pc

Unanswered == IF instrRvalid THEN Tail(outstanding) ELSE outstanding

FetchInit ==
  /\ FetchInit0
  /\ fetch \in {f \in FetchRequest : ~f.req} /\ dataAddr \in Pc
  /\ outstanding = <<>>

FetchEdge ==
  /\ FetchTick /\ FetchCoreTick
  /\ outstanding' = IF InstrGnt THEN Append(Unanswered, fetch.addr) ELSE Unanswered

FetchResetEdge == FetchReset /\ FetchCoreTick /\ outstanding' = <<>>

FetchNext == FetchEdge \/ FetchResetEdge

FetchSpec == FetchInit /\ [][FetchNext]_fetchVars

-----------------------------------------------------------------------------
\* Every register stays within its width.
FetchTypeOK ==
  /\ instrRvalid \in BOOLEAN /\ instrPending \in BOOLEAN
  /\ instrAddrQ \in Pc /\ instrDataQ \in RomWord
  /\ fetch \in FetchRequest /\ dataAddr \in Pc
  /\ outstanding \in Seq(Pc)

\* The word that comes with a response is the ROM's word at the oldest address
\* accepted, however the live address has moved since: a newer address never
\* overwrites the response for the older request (mem_subsystem.v:50-53).
FetchesItsWord ==
  instrRvalid =>
    outstanding # <<>> /\ instrDataQ = Rom[RomIndex(Head(outstanding))]

\* There is one response slot: at most one fetch is accepted and unanswered,
\* and each accepted fetch is pending or being answered, so none is lost.
OneFetchInFlight ==
  /\ ~(instrPending /\ instrRvalid)
  /\ Len(outstanding) = IF instrPending \/ instrRvalid THEN 1 ELSE 0
=============================================================================
