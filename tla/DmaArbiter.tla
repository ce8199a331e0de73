----------------------------- MODULE DmaArbiter -----------------------------
(***************************************************************************)
(* rtl/core/dma_arbiter.v: two clients, the stream DMA of the accelerator  *)
(* and the programmed-copy DMA, share the one DMA port of mem_subsystem.   *)
(* Grants alternate when both ask.  The owner of every granted read is     *)
(* kept in a two-entry queue, and the memory's in-order responses are      *)
(* routed by the head of that queue.                                       *)
(*                                                                         *)
(* One step is one rising clock edge.  streamIn and copyIn are the request *)
(* registers of the clients, which the arbiter sees combinationally, and   *)
(* flight is the memory on the other side: the owners of the reads it has  *)
(* accepted and not answered, oldest first.  The memory may take any       *)
(* number of cycles, but it answers in order.  passed counts, for each     *)
(* client, the grants the other one was given while this one waited.       *)
(***************************************************************************)
EXTENDS Integers, Sequences

CONSTANT ClientRequest   \* what a client can have on its request port

ASSUME ClientAssumption ==
  \A r \in ClientRequest : r.req \in BOOLEAN /\ r.we \in BOOLEAN

VARIABLES
  nextStream,   \* next_stream_q
  owner,        \* read_owner_stream_q[0:1]
  ownerCount,   \* read_owner_count_q, two bits
  streamIn, copyIn, flight, passed

vars == <<nextStream, owner, ownerCount, streamIn, copyIn, flight, passed>>

SelectStream == streamIn.req /\ (~copyIn.req \/ nextStream)

Selected == IF SelectStream THEN streamIn ELSE copyIn

MemReq == (streamIn.req \/ copyIn.req) /\ ~(ownerCount = 2 /\ ~Selected.we)

\* What the arbiter drives onto the memory port.
MemRequest == [Selected EXCEPT !.req = MemReq]

StreamGnt(gnt) == gnt /\ SelectStream
CopyGnt(gnt) == gnt /\ ~SelectStream /\ copyIn.req

StreamRvalid(rvalid) == rvalid /\ ownerCount # 0 /\ owner[0]
\* Mutant of CopyRvalid: the owner is not looked at.
CopyRvalidAny(rvalid) == rvalid /\ ownerCount # 0

CopyRvalid(rvalid) == rvalid /\ ownerCount # 0 /\ ~owner[0]

ReadPush(gnt) == MemReq /\ gnt /\ ~Selected.we

Init0 ==
  /\ nextStream = FALSE
  /\ owner = [i \in 0..1 |-> FALSE]
  /\ ownerCount = 0

\* Mutant of TurnOver: the client that was granted keeps the turn.
TurnKept(gnt) ==
  nextStream' = IF MemReq /\ gnt THEN SelectStream ELSE nextStream

TurnOver(gnt) ==
  nextStream' = IF MemReq /\ gnt THEN ~SelectStream ELSE nextStream

PushOwner(gnt, rvalid) ==
  /\ ReadPush(gnt) /\ ~rvalid
  /\ owner' = IF ownerCount = 0 THEN [owner EXCEPT ![0] = SelectStream]
                                ELSE [owner EXCEPT ![1] = SelectStream]
  /\ ownerCount' = (ownerCount + 1) % 4

\* Mutant of PopOwner: the second entry is not moved to the head.
PopOwnerInPlace(gnt, rvalid) ==
  /\ ~ReadPush(gnt) /\ rvalid
  /\ ownerCount' = (ownerCount + 3) % 4
  /\ UNCHANGED owner

PopOwner(gnt, rvalid) ==
  /\ ~ReadPush(gnt) /\ rvalid
  /\ owner' = IF ownerCount > 1 THEN [owner EXCEPT ![0] = owner[1]] ELSE owner
  /\ ownerCount' = (ownerCount + 3) % 4

ReplaceOwner(gnt, rvalid) ==
  /\ ReadPush(gnt) /\ rvalid
  /\ owner' = IF ownerCount = 1
                THEN [owner EXCEPT ![0] = SelectStream]
                ELSE [owner EXCEPT ![0] = owner[1], ![1] = SelectStream]
  /\ UNCHANGED ownerCount

KeepOwners(gnt, rvalid) ==
  /\ ~ReadPush(gnt) /\ ~rvalid
  /\ UNCHANGED <<owner, ownerCount>>

\* The always block: gnt is mem_gnt_i and rvalid is mem_rvalid_i in this cycle.
Tick(gnt, rvalid) ==
  /\ TurnOver(gnt)
  /\ \/ PushOwner(gnt, rvalid)
     \/ PopOwner(gnt, rvalid)
     \/ ReplaceOwner(gnt, rvalid)
     \/ KeepOwners(gnt, rvalid)

Reset ==
  /\ nextStream' = FALSE
  /\ owner' = [i \in 0..1 |-> FALSE]
  /\ ownerCount' = 0

-----------------------------------------------------------------------------
(* The memory: it can only grant what is requested and answer what it has  *)
(* accepted; a read it accepts joins the end of the queue.                 *)

Unanswered(rvalid) == IF rvalid THEN Tail(flight) ELSE flight

MemoryTick(gnt, rvalid) ==
  /\ gnt => MemReq
  /\ rvalid => flight # <<>>
  /\ flight' = IF ReadPush(gnt) THEN Append(Unanswered(rvalid), SelectStream)
                                ELSE Unanswered(rvalid)

\* The clients may ask for anything; one that drops its request, or is
\* granted, stops waiting.
PassedTick(gnt) ==
  passed' =
    [stream |-> IF streamIn.req /\ streamIn'.req /\ ~StreamGnt(gnt)
                  THEN passed.stream + (IF CopyGnt(gnt) THEN 1 ELSE 0) ELSE 0,
     copy |-> IF copyIn.req /\ copyIn'.req /\ ~CopyGnt(gnt)
                THEN passed.copy + (IF StreamGnt(gnt) THEN 1 ELSE 0) ELSE 0]

ClientTick(gnt) ==
  /\ streamIn' \in ClientRequest
  /\ copyIn' \in ClientRequest
  /\ PassedTick(gnt)

Init ==
  /\ Init0
  /\ flight = <<>>
  /\ passed = [stream |-> 0, copy |-> 0]
  /\ streamIn \in {r \in ClientRequest : ~r.req}
  /\ copyIn \in {r \in ClientRequest : ~r.req}

ResetAll ==
  /\ Reset
  /\ flight' = <<>>
  /\ ClientTick(FALSE)
  /\ ~streamIn'.req /\ ~copyIn'.req

Next ==
  \/ \E gnt, rvalid \in BOOLEAN :
       Tick(gnt, rvalid) /\ MemoryTick(gnt, rvalid) /\ ClientTick(gnt)
  \/ ResetAll

Spec == Init /\ [][Next]_vars

-----------------------------------------------------------------------------
\* The registers hold what they are meant to (three values of the two-bit count
\* are used); the flight is a queue of owners.
TypeOK ==
  /\ nextStream \in BOOLEAN
  /\ owner \in [0..1 -> BOOLEAN]
  /\ ownerCount \in 0..2
  /\ streamIn \in ClientRequest
  /\ copyIn \in ClientRequest
  /\ flight \in Seq(BOOLEAN)
  /\ passed \in [stream : Nat, copy : Nat]

\* The queue of owners is the queue of reads in flight, as long and in the same
\* order.  A response routed by the head entry therefore reaches the client
\* that made the read (dma_arbiter.v:1-3).
OwnersMatchFlight ==
  /\ ownerCount = Len(flight)
  /\ \A i \in 1..Len(flight) : owner[i - 1] = flight[i]

\* A client that keeps asking loses at most one grant to the other one,
\* whatever the memory does and however the other client toggles its request
\* (dma_arbiter.v:33,60-61).
AtMostOnePassed == passed.stream <= 1 /\ passed.copy <= 1
=============================================================================
