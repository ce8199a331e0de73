------------------------- MODULE DmaArbiter_proofs -------------------------
(***************************************************************************)
(* Invariants of the arbiter for every set of client requests: it routes   *)
(* in order, its queue does not overflow, and it is fair.                  *)
(***************************************************************************)
EXTENDS DmaArbiter, TLAPS

\* The strengthening AtMostOnePassed needs: the client that has been passed
\* over holds the turn.
TurnIsOwed ==
  /\ passed.stream = 1 => streamIn.req /\ nextStream
  /\ passed.copy = 1 => copyIn.req /\ ~nextStream

IInv == TypeOK /\ OwnersMatchFlight /\ AtMostOnePassed /\ TurnIsOwed

LEMMA InitInvariant == Init => IInv
BY DEF Init, Init0, IInv, TypeOK, OwnersMatchFlight, AtMostOnePassed, TurnIsOwed

\* The registers after an ordinary clock edge, one case per arm of the case
\* statement of dma_arbiter.v:63-85.
LEMMA TickKeepsOrder ==
  ASSUME IInv, NEW gnt \in BOOLEAN, NEW rvalid \in BOOLEAN,
         Tick(gnt, rvalid), MemoryTick(gnt, rvalid), ClientTick(gnt)
  PROVE  /\ nextStream' \in BOOLEAN
         /\ owner' \in [0..1 -> BOOLEAN]
         /\ ownerCount' \in 0..2
         /\ flight' \in Seq(BOOLEAN)
         /\ OwnersMatchFlight'
<1> USE DEF IInv, TypeOK, OwnersMatchFlight
<1>1. /\ SelectStream \in BOOLEAN /\ MemReq \in BOOLEAN
      /\ Selected.we \in BOOLEAN /\ ReadPush(gnt) \in BOOLEAN
  BY ClientAssumption DEF SelectStream, Selected, MemReq, ReadPush
<1>2. ReadPush(gnt) => ownerCount < 2
  BY <1>1 DEF ReadPush, MemReq
<1>3. rvalid => flight # <<>> /\ ownerCount > 0
  BY DEF MemoryTick
<1>4. rvalid => /\ Tail(flight) \in Seq(BOOLEAN)
                /\ Len(Tail(flight)) = ownerCount - 1
                /\ \A i \in 1..(ownerCount - 1) : Tail(flight)[i] = owner[i]
  BY <1>3
<1>5. nextStream' \in BOOLEAN
  BY <1>1 DEF Tick, TurnOver
<1>6. CASE PushOwner(gnt, rvalid)
  <2>1. ReadPush(gnt) /\ ~rvalid /\ ownerCount' = ownerCount + 1
    BY <1>6, <1>2 DEF PushOwner
  <2>2. ownerCount = 0 \/ ownerCount = 1
    BY <1>2, <2>1
  <2>3. owner' = [owner EXCEPT ![ownerCount] = SelectStream]
    BY <1>6, <2>2 DEF PushOwner
  <2>4. flight' = Append(flight, SelectStream)
    BY <2>1 DEF MemoryTick, Unanswered
  <2> QED BY <1>1, <1>5, <2>1, <2>2, <2>3, <2>4
<1>7. CASE PopOwner(gnt, rvalid)
  <2>1. ~ReadPush(gnt) /\ rvalid /\ ownerCount' = ownerCount - 1
    BY <1>7, <1>3 DEF PopOwner
  <2>2. owner' = IF ownerCount > 1 THEN [owner EXCEPT ![0] = owner[1]] ELSE owner
    BY <1>7 DEF PopOwner
  <2>3. flight' = Tail(flight)
    BY <2>1 DEF MemoryTick, Unanswered
  <2> QED BY <1>3, <1>4, <1>5, <2>1, <2>2, <2>3
<1>8. CASE ReplaceOwner(gnt, rvalid)
  <2>1. ReadPush(gnt) /\ rvalid /\ ownerCount' = ownerCount /\ ownerCount = 1
    BY <1>8, <1>2, <1>3 DEF ReplaceOwner
  <2>2. owner' = [owner EXCEPT ![0] = SelectStream]
    BY <1>8, <2>1 DEF ReplaceOwner
  <2>3. flight' = Append(Tail(flight), SelectStream)
    BY <2>1 DEF MemoryTick, Unanswered
  <2>4. flight' \in Seq(BOOLEAN) /\ Len(flight') = 1 /\ flight'[1] = SelectStream
    <3>1. Tail(flight) \in Seq(BOOLEAN) /\ Len(Tail(flight)) = 0
      BY <1>4, <2>1
    <3>2. \A t \in Seq(BOOLEAN), b \in BOOLEAN :
            Len(t) = 0 => /\ Append(t, b) \in Seq(BOOLEAN)
                          /\ Len(Append(t, b)) = 1 /\ Append(t, b)[1] = b
      OBVIOUS
    <3> QED BY <1>1, <2>3, <3>1, <3>2
  <2>5. owner' \in [0..1 -> BOOLEAN] /\ owner'[0] = SelectStream
    BY <1>1, <2>2
  <2> QED BY <1>5, <2>1, <2>4, <2>5
<1>9. CASE KeepOwners(gnt, rvalid)
  <2>1. ~ReadPush(gnt) /\ ~rvalid /\ UNCHANGED <<owner, ownerCount>>
    BY <1>9 DEF KeepOwners
  <2>2. flight' = flight
    BY <2>1 DEF MemoryTick, Unanswered
  <2> QED BY <1>5, <2>1, <2>2
<1> QED BY <1>6, <1>7, <1>8, <1>9 DEF Tick

\* A grant to the other client hands the turn to the one that waits.
LEMMA TickIsFair ==
  ASSUME IInv, NEW gnt \in BOOLEAN, NEW rvalid \in BOOLEAN,
         Tick(gnt, rvalid), MemoryTick(gnt, rvalid), ClientTick(gnt)
  PROVE  /\ streamIn' \in ClientRequest /\ copyIn' \in ClientRequest
         /\ passed' \in [stream : Nat, copy : Nat]
         /\ AtMostOnePassed' /\ TurnIsOwed'
<1> USE DEF IInv, TypeOK, AtMostOnePassed, TurnIsOwed
<1>1. streamIn.req \in BOOLEAN /\ copyIn.req \in BOOLEAN /\ SelectStream \in BOOLEAN
  BY ClientAssumption DEF SelectStream
<1>2. nextStream' = IF gnt THEN ~SelectStream ELSE nextStream
  BY DEF Tick, TurnOver, MemoryTick
<1>3. gnt => streamIn.req \/ copyIn.req
  BY DEF MemoryTick, MemReq
<1>4. /\ passed'.stream = IF streamIn.req /\ streamIn'.req /\ ~StreamGnt(gnt)
            THEN passed.stream + (IF CopyGnt(gnt) THEN 1 ELSE 0) ELSE 0
      /\ passed'.copy = IF copyIn.req /\ copyIn'.req /\ ~CopyGnt(gnt)
            THEN passed.copy + (IF StreamGnt(gnt) THEN 1 ELSE 0) ELSE 0
      /\ passed' = [stream |-> passed'.stream, copy |-> passed'.copy]
  BY DEF ClientTick, PassedTick
<1>5. passed'.stream \in 0..1 /\ (passed'.stream = 1 => streamIn'.req /\ nextStream')
  BY <1>1, <1>2, <1>4 DEF StreamGnt, CopyGnt, SelectStream
<1>6. passed'.copy \in 0..1 /\ (passed'.copy = 1 => copyIn'.req /\ ~nextStream')
  <2>1. CASE gnt /\ SelectStream
    <3>1. nextStream' = FALSE /\ StreamGnt(gnt) /\ ~CopyGnt(gnt)
      BY <1>2, <2>1 DEF StreamGnt, CopyGnt
    <3>2. copyIn.req => passed.copy = 0
      BY <2>1 DEF SelectStream
    <3> QED BY <1>1, <1>4, <3>1, <3>2
  <2>2. CASE gnt /\ ~SelectStream
    BY <1>1, <1>2, <1>3, <1>4, <2>2 DEF StreamGnt, CopyGnt, SelectStream
  <2>3. CASE ~gnt
    BY <1>1, <1>2, <1>4, <2>3 DEF StreamGnt, CopyGnt, SelectStream
  <2> QED BY <1>1, <2>1, <2>2, <2>3
<1>7. streamIn' \in ClientRequest /\ copyIn' \in ClientRequest
  BY DEF ClientTick
<1> QED BY <1>4, <1>5, <1>6, <1>7

LEMMA NextInvariant == IInv /\ [Next]_vars => IInv'
<1> SUFFICES ASSUME IInv, [Next]_vars PROVE IInv'
  OBVIOUS
<1>1. ASSUME NEW gnt \in BOOLEAN, NEW rvalid \in BOOLEAN,
             Tick(gnt, rvalid), MemoryTick(gnt, rvalid), ClientTick(gnt)
      PROVE  IInv'
  BY <1>1, TickKeepsOrder, TickIsFair DEF IInv, TypeOK
<1>2. CASE ResetAll
  <2>1. /\ nextStream' = FALSE /\ owner' = [i \in 0..1 |-> FALSE]
        /\ ownerCount' = 0 /\ flight' = <<>>
        /\ streamIn' \in ClientRequest /\ copyIn' \in ClientRequest
        /\ passed' = [stream |-> 0, copy |-> 0]
    BY <1>2 DEF ResetAll, Reset, ClientTick, PassedTick, StreamGnt, CopyGnt
  <2>2. OwnersMatchFlight'
    BY <2>1 DEF OwnersMatchFlight
  <2>3. TypeOK' /\ AtMostOnePassed' /\ TurnIsOwed'
    BY <2>1 DEF TypeOK, AtMostOnePassed, TurnIsOwed
  <2> QED BY <2>2, <2>3 DEF IInv
<1>3. CASE UNCHANGED vars
  BY <1>3 DEF vars, IInv, TypeOK, OwnersMatchFlight, AtMostOnePassed, TurnIsOwed
<1> QED BY <1>1, <1>2, <1>3 DEF Next

LEMMA SpecInvariant == Spec => []IInv
BY InitInvariant, NextInvariant, PTL DEF Spec

\* The registers keep their types, and the two-entry queue of
\* dma_arbiter.v:31-32 does not overflow, whatever clients and memory do.
THEOREM TypeCorrect == Spec => []TypeOK
<1>1. IInv => TypeOK
  BY DEF IInv
<1> QED BY <1>1, SpecInvariant, PTL

\* Responses are routed to the client whose read they answer, through
\* the two-entry queue of dma_arbiter.v:31-32.
THEOREM ResponsesRouted == Spec => []OwnersMatchFlight
<1>1. IInv => OwnersMatchFlight
  BY DEF IInv
<1> QED BY <1>1, SpecInvariant, PTL

\* A waiting client is passed over at most once (dma_arbiter.v:33,60-61).
THEOREM BoundedBypass == Spec => []AtMostOnePassed
<1>1. IInv => AtMostOnePassed
  BY DEF IInv
<1> QED BY <1>1, SpecInvariant, PTL
=============================================================================
