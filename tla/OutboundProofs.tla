--------------------------- MODULE OutboundProofs ---------------------------
(***************************************************************************)
(* Proofs about OutboundSend, for every set of sends, every assignment of  *)
(* messages and ciphertexts to them, and every value of the limits.        *)
(***************************************************************************)
EXTENDS OutboundSend, HistoryStoreProofs
-----------------------------------------------------------------------------
(***************************************************************************)
(* The inductive invariant.  AtMostOncePerEpoch is not inductive: what     *)
(* keeps a second send of a message from the transport is the reservation  *)
(* the first one made, so the invariant speaks of reservations from the    *)
(* moment they are made.  A reservation stands in its epoch as a row or as *)
(* a fence (ReservationStands), which is what the next claim runs into.    *)
(***************************************************************************)
Holding == {s \in Send : at[s] \in {"send", "sending", "persist"}} \cup dispatched

Stands(s) == \/ KeyOf[s] \in tombstones
             \/ KeyOf[s] \in Live /\ records[KeyOf[s]].body = BodyOf[s]

ReservationUnique ==
    \A s, t \in Holding : KeyOf[s] = KeyOf[t] /\ sendEpoch[s] = sendEpoch[t] => s = t
ReservationStands == \A s \in Holding : sendEpoch[s] = epoch => Stands(s)
DispatchedWentOn == \A s \in dispatched : at[s] \in {"sending", "persist", "done"}

(***************************************************************************)
(* The idempotency key of a record is used by the one send that persisted  *)
(* an outcome under it, and that send has finished.                        *)
(***************************************************************************)
IdemOfFinished == \A k \in DOMAIN idem : \E t \in dispatched : KeyOf[t] = k /\ at[t] = "done"

ReserveInv == ReservationUnique /\ ReservationStands /\ DispatchedWentOn

SendInv == IInv /\ SendTypeOK /\ ReserveInv
           /\ IdemOfFinished /\ PersistedWithinEpoch
-----------------------------------------------------------------------------
(***************************************************************************)
(* A claim that reserves finds neither row nor fence of its key, and       *)
(* leaves the row with its own body.                                       *)
(***************************************************************************)
LEMMA ClaimStores ==
    ASSUME NEW s \in Send, IInv, Reserves(s),
           ArchiveBatch(sendEpoch[s], Reservation(s))
    PROVE  /\ IInv' /\ HistoryGoesOn /\ UNCHANGED idem
           /\ sendEpoch[s] = epoch
           /\ KeyOf[s] \notin Live /\ KeyOf[s] \notin tombstones
           /\ Live' = Live \cup {KeyOf[s]}
           /\ \A k \in Live : records'[k] = records[k]
           /\ records'[KeyOf[s]].body = BodyOf[s]
           /\ records'[KeyOf[s]].state = "prepared"
<1>1. PICK it \in Item : it = [key |-> KeyOf[s], body |-> BodyOf[s], state |-> "prepared"]
  BY SendType DEF Item, InitialState
<1>2. Stored(<<it>>) # {} /\ ArchiveBatch(sendEpoch[s], <<it>>)
  BY <1>1 DEF Reserves, Reservation
<1>3. it.key = KeyOf[s] /\ it.body = BodyOf[s] /\ it.state = "prepared"
  BY <1>1
<1>4. QED
  BY <1>2, <1>3, OneItemStored DEF Reserves

(***************************************************************************)
(* The other devices and the clock.  They never use an idempotency key.    *)
(***************************************************************************)
LEMMA OthersMove ==
    ASSUME IInv, Others
    PROVE  /\ IInv'
           /\ HistoryGoesOn \/ HistoryEnds
           /\ DOMAIN idem' \subseteq DOMAIN idem
           /\ \A k \in Live' : /\ k \in Live
                               /\ \/ records'[k] = records[k]
                                  \/ records'[k].state \in NewState
<1>1. ASSUME NEW k \in Live, NEW st \in NewState,
             PatchApplied(k, st, records[k].revision, NoIdem)
      PROVE  /\ IInv' /\ HistoryGoesOn /\ UNCHANGED idem
             /\ \A j \in Live' : /\ j \in Live
                                 /\ records'[j] = records[j] \/ records'[j].state \in NewState
  <2>1. k \in Key /\ st \in DeliveryState /\ records[k].revision \in Nat
    BY NewStateType DEF IInv, TypeOK, Record
  <2>2. UNCHANGED idem
    BY <1>1 DEF PatchApplied, Remember, idemVars
  <2>3. QED
    BY <1>1, <2>1, <2>2, PatchGoesOn
<1>2. ASSUME NEW k \in IdemKey, AgeIdempotency(k)
      PROVE  /\ IInv' /\ HistoryGoesOn /\ UNCHANGED <<idem, records>>
  <2>1. IInv'
    BY <1>2, ClockInv DEF Clock
  <2>2. UNCHANGED <<epoch, records, tombstones, idem>>
    BY <1>2 DEF AgeIdempotency, ownerVars
  <2>3. QED
    BY <2>1, <2>2 DEF HistoryGoesOn, Live
<1>3. QED
  BY <1>1, <1>2, DeleteGoesOn, DeleteAllEnds DEF Others, Live
-----------------------------------------------------------------------------
(***************************************************************************)
(* A send moves the history only by claiming and by persisting, and never  *)
(* ends an epoch.                                                          *)
(***************************************************************************)
LEMMA SendMoves ==
    ASSUME IInv, SendTypeOK, NEW s \in Send, SendStep(s)
    PROVE  IInv' /\ HistoryGoesOn
<1>1. KeyOf[s] \in Key /\ KeyOf[s] \in IdemKey
  BY SendType, OneIdemKeyPerRecord
<1>2. CASE Claim(s)
  BY <1>2, ClaimStores DEF Claim
<1>3. CASE PersistOutcome(s)
  <2>1. state[s] \in DeliveryState
    BY <1>3 DEF PersistOutcome, SendTypeOK, Outcome, DeliveryState
  <2>2. PatchApplied(KeyOf[s], state[s], 1, KeyOf[s])
    BY <1>3 DEF PersistOutcome
  <2>3. QED
    BY <1>1, <2>1, <2>2, PatchGoesOn
<1>4. CASE PersistReplayed(s)
  <2>1. Replay(KeyOf[s], PatchRequest(KeyOf[s], state[s], 1))
    BY <1>4 DEF PersistReplayed
  <2>2. IInv'
    BY <1>1, <2>1, ReplayInv
  <2>3. UNCHANGED <<epoch, records, tombstones>>
    BY <2>1 DEF Replay, ownerVars
  <2>4. QED
    BY <2>2, <2>3 DEF HistoryGoesOn, Live
<1>5. CASE UNCHANGED vars
  BY <1>5, StutterInv DEF vars, ownerVars, HistoryGoesOn, Live
<1>6. QED
  BY <1>2, <1>3, <1>4, <1>5
     DEF SendStep, Negotiate, ClaimFails, Dispatch, Deliver, Answer, PersistFails

LEMMA NextMoves ==
    ASSUME IInv, SendTypeOK, [SendNext]_worldVars
    PROVE  IInv' /\ (HistoryGoesOn \/ HistoryEnds)
<1>1. CASE UNCHANGED worldVars
  <2>1. UNCHANGED vars
    BY <1>1 DEF worldVars
  <2>2. QED
    BY <2>1, StutterInv DEF vars, ownerVars, HistoryGoesOn, Live
<1>2. QED
  BY <1>1, SendMoves, OthersMove DEF SendNext
-----------------------------------------------------------------------------
(***************************************************************************)
(* The types of the sends, one step per action.                            *)
(***************************************************************************)
LEMMA SendTypeStep ==
    ASSUME IInv, IInv', SendTypeOK, DispatchedWentOn, [SendNext]_worldVars
    PROVE  SendTypeOK'
<1> USE DEF SendTypeOK, Outcome
<1>1. epoch \in Nat /\ epoch' \in Nat /\ epoch <= epoch'
  <2>1. HistoryGoesOn \/ HistoryEnds
    BY NextMoves
  <2>2. QED
    BY <2>1 DEF IInv, TypeOK, HistoryGoesOn, HistoryEnds
<1>2. sendEpoch \in [Send -> 0..epoch']
  BY <1>1
<1>3. CASE UNCHANGED <<sendVars, overstated>>
  BY <1>2, <1>3 DEF sendVars
<1>4. ASSUME NEW s \in Send, SendStep(s)
      PROVE  SendTypeOK'
  <2>1. CASE Negotiate(s)
    BY <1>1, <1>2, <2>1 DEF Negotiate, vars, ownerVars
  <2>2. CASE Claim(s)
    BY <1>2, <2>2 DEF Claim, Return
  <2>3. CASE ClaimFails(s)
    BY <1>2, <2>3 DEF ClaimFails, NotClaimed
  <2>4. CASE Dispatch(s)
    BY <1>2, <2>4 DEF Dispatch, DispatchedWentOn
  <2>5. CASE Deliver(s)
    BY <1>2, <2>5 DEF Deliver
  <2>6. CASE Answer(s)
    BY <1>2, <2>6 DEF Answer, Answers
  <2>7. ASSUME at[s] = "persist", NEW r, Finish(s, r)
        PROVE  SendTypeOK'
    BY <1>2, <2>7 DEF Finish, Return, Confirms
  <2>8. QED
    BY <1>4, <2>1, <2>2, <2>3, <2>4, <2>5, <2>6, <2>7
       DEF SendStep, PersistOutcome, PersistReplayed, PersistFails
<1>5. QED
  BY <1>3, <1>4 DEF SendNext, Others, worldVars
-----------------------------------------------------------------------------
(***************************************************************************)
(* The reservations.                                                       *)
(***************************************************************************)
LEMMA HoldingKept ==
    ASSUME IInv, SendTypeOK, ReserveInv, HistoryGoesOn \/ HistoryEnds,
           Holding' \subseteq Holding, \A s \in Holding : sendEpoch'[s] = sendEpoch[s]
    PROVE  ReservationUnique' /\ ReservationStands'
<1>1. ReservationUnique'
  BY DEF ReservationUnique, ReserveInv
<1>2. ASSUME HistoryGoesOn PROVE ReservationStands'
  BY <1>2 DEF ReserveInv, ReservationStands, Stands, HistoryGoesOn
<1>3. ASSUME HistoryEnds PROVE ReservationStands'
  <2>1. Holding \subseteq Send
    BY DEF Holding, SendTypeOK
  <2>2. \A s \in Holding' : sendEpoch'[s] \in 0..epoch
    BY <2>1 DEF SendTypeOK
  <2>3. \A s \in Holding' : sendEpoch'[s] # epoch'
    BY <1>3, <2>2 DEF HistoryEnds, IInv, TypeOK
  <2>4. QED
    BY <2>3 DEF ReservationStands
<1>4. QED
  BY <1>1, <1>2, <1>3

(***************************************************************************)
(* A claim that reserves makes the only reservation of its key in this     *)
(* epoch: any other would have left a row or a fence.                      *)
(***************************************************************************)
LEMMA ClaimReserves ==
    ASSUME IInv, SendTypeOK, ReserveInv, NEW s \in Send, Claim(s)
    PROVE  ReserveInv'
<1>1. /\ HistoryGoesOn
      /\ sendEpoch[s] = epoch
      /\ KeyOf[s] \notin Live /\ KeyOf[s] \notin tombstones
      /\ KeyOf[s] \in Live' /\ records'[KeyOf[s]].body = BodyOf[s]
  BY ClaimStores DEF Claim
<1>2. /\ UNCHANGED <<sendEpoch, dispatched>>
      /\ at[s] = "claim" /\ at'[s] \in {"send", "done"}
      /\ \A t \in Send : t # s => at'[t] = at[t]
  BY DEF Claim, Return, SendTypeOK
<1>3. Holding' \subseteq Holding \cup {s} /\ Holding' \subseteq Send
  BY <1>2 DEF Holding, SendTypeOK
<1>4. s \notin Holding /\ s \notin dispatched
  BY <1>2 DEF Holding, ReserveInv, DispatchedWentOn
<1>5. \A t \in Holding : sendEpoch[t] = epoch => KeyOf[t] # KeyOf[s]
  BY <1>1 DEF ReserveInv, ReservationStands, Stands
<1>6. ReservationUnique'
  BY <1>1, <1>2, <1>3, <1>5 DEF ReservationUnique, ReserveInv
<1>7. ReservationStands'
  BY <1>1, <1>2, <1>3 DEF ReservationStands, ReserveInv, Stands, HistoryGoesOn
<1>8. DispatchedWentOn'
  BY <1>2, <1>4 DEF DispatchedWentOn, ReserveInv, SendTypeOK
<1>9. QED
  BY <1>6, <1>7, <1>8 DEF ReserveInv

LEMMA ReserveStep ==
    ASSUME IInv, SendTypeOK, ReserveInv, [SendNext]_worldVars
    PROVE  ReserveInv'
<1>1. HistoryGoesOn \/ HistoryEnds
  BY NextMoves
<1>2. dispatched \subseteq Holding /\ Holding \subseteq Send
  BY DEF Holding, SendTypeOK
<1>3. CASE UNCHANGED <<sendVars, overstated>>
  <2>1. UNCHANGED <<at, sendEpoch, dispatched>>
    BY <1>3 DEF sendVars
  <2>2. QED
    BY <1>1, <2>1, HoldingKept DEF ReserveInv, DispatchedWentOn, Holding
<1>4. ASSUME NEW s \in Send, SendStep(s)
      PROVE  ReserveInv'
  <2>1. CASE Claim(s)
    BY <2>1, ClaimReserves
  <2>2. CASE Negotiate(s)
    <3>1. /\ at[s] = "idle" /\ at'[s] = "claim" /\ dispatched' = dispatched
          /\ \A t \in Send : t # s => at'[t] = at[t] /\ sendEpoch'[t] = sendEpoch[t]
      BY <2>2 DEF Negotiate, SendTypeOK
    <3>2. s \notin Holding
      BY <3>1 DEF Holding, ReserveInv, DispatchedWentOn
    <3>3. Holding' \subseteq Holding /\ DispatchedWentOn'
      BY <1>2, <3>1, <3>2 DEF Holding, ReserveInv, DispatchedWentOn
    <3>4. QED
      BY <1>1, <1>2, <3>1, <3>2, <3>3, HoldingKept DEF ReserveInv
  <2>3. ASSUME UNCHANGED sendEpoch, at[s] # "idle",
               \A t \in Send : t # s => at'[t] = at[t],
               at'[s] \in {"sending", "persist", "done"} \/ UNCHANGED at,
               dispatched' \subseteq dispatched \cup {s},
               s \in dispatched' => at'[s] \in {"sending", "persist", "done"},
               s \in Holding' => s \in Holding
        PROVE  ReserveInv'
    <3>1. Holding' \subseteq Holding /\ DispatchedWentOn'
      BY <1>2, <2>3 DEF Holding, ReserveInv, DispatchedWentOn
    <3>2. QED
      BY <1>1, <2>3, <3>1, HoldingKept DEF ReserveInv
  <2>4. CASE ClaimFails(s)
    <3>1. s \notin dispatched
      BY <2>4 DEF ClaimFails, ReserveInv, DispatchedWentOn
    <3>2. QED
      BY <2>3, <2>4, <3>1 DEF ClaimFails, NotClaimed, SendTypeOK, Holding
  <2>5. CASE Dispatch(s)
    BY <2>3, <2>5 DEF Dispatch, SendTypeOK, Holding
  <2>6. CASE Deliver(s)
    <3>1. s \in dispatched /\ UNCHANGED <<at, sendEpoch, dispatched>>
      BY <2>6 DEF Deliver, SendTypeOK
    <3>2. QED
      BY <1>1, <3>1, HoldingKept DEF ReserveInv, DispatchedWentOn, Holding
  <2>7. CASE Answer(s)
    BY <2>3, <2>7 DEF Answer, SendTypeOK, Holding
  <2>8. ASSUME at[s] = "persist", NEW r, Finish(s, r)
        PROVE  ReserveInv'
    <3>1. /\ UNCHANGED <<sendEpoch, dispatched>> /\ at'[s] = "done"
          /\ \A t \in Send : t # s => at'[t] = at[t]
      BY <2>8 DEF Finish, Return, SendTypeOK
    <3>2. s \in dispatched /\ s \in Holding
      BY <2>8 DEF SendTypeOK, Holding
    <3>3. QED
      BY <2>3, <2>8, <3>1, <3>2
  <2>9. QED
    BY <1>4, <2>1, <2>2, <2>4, <2>5, <2>6, <2>7, <2>8
       DEF SendStep, PersistOutcome, PersistReplayed, PersistFails
<1>5. QED
  BY <1>3, <1>4 DEF SendNext, Others, worldVars
-----------------------------------------------------------------------------
(***************************************************************************)
(* Persisting.  A patch of its own that is confirmed leaves the state it   *)
(* names; only a replayed answer can confirm another, and the send that    *)
(* first got that answer has finished, so it is not this one, and at most  *)
(* once tells it was dispatched under another epoch.                       *)
(***************************************************************************)
LEMMA FinishedStays ==
    ASSUME SendTypeOK, DispatchedWentOn, [SendNext]_worldVars
    PROVE  \A t \in dispatched :
               /\ t \in dispatched' /\ sendEpoch'[t] = sendEpoch[t]
               /\ at[t] = "done" => at'[t] = "done"
<1>1. CASE UNCHANGED <<sendVars, overstated>>
  BY <1>1 DEF sendVars
<1>2. ASSUME NEW s \in Send, SendStep(s), NEW t \in dispatched
      PROVE  /\ t \in dispatched' /\ sendEpoch'[t] = sendEpoch[t]
             /\ at[t] = "done" => at'[t] = "done"
  <2>1. t \in Send /\ at[t] \in {"sending", "persist", "done"}
    BY DEF SendTypeOK, DispatchedWentOn
  <2>2. dispatched \subseteq dispatched'
    BY <1>2 DEF SendStep, Negotiate, Claim, ClaimFails, Dispatch, Deliver, Answer,
                PersistOutcome, PersistReplayed, PersistFails, Finish
  <2>3. sendEpoch'[t] = sendEpoch[t]
    BY <1>2, <2>1 DEF SendStep, Negotiate, Claim, ClaimFails, Dispatch, Deliver, Answer,
                PersistOutcome, PersistReplayed, PersistFails, Finish, SendTypeOK
  <2>4. at[t] = "done" => at'[t] = "done"
    BY <1>2, <2>1 DEF SendStep, Negotiate, Claim, ClaimFails, NotClaimed, Dispatch, Deliver,
                Answer, PersistOutcome, PersistReplayed, PersistFails, Finish, Return, SendTypeOK
  <2>5. QED
    BY <2>2, <2>3, <2>4
<1>3. QED
  BY <1>1, <1>2 DEF SendNext, Others, worldVars

LEMMA IdemStep ==
    ASSUME IInv, SendTypeOK, ReserveInv, IdemOfFinished, [SendNext]_worldVars
    PROVE  IdemOfFinished'
<1>1. ASSUME DOMAIN idem' \subseteq DOMAIN idem
      PROVE  IdemOfFinished'
  BY <1>1, FinishedStays DEF IdemOfFinished, ReserveInv
<1>2. ASSUME NEW s \in Send, PersistOutcome(s)
      PROVE  IdemOfFinished'
  <2>1. DOMAIN idem' \subseteq DOMAIN idem \cup {KeyOf[s]}
    BY <1>2 DEF PersistOutcome, PatchApplied, Remember, With, Without, idemVars
  <2>2. s \in dispatched /\ s \in dispatched' /\ at'[s] = "done"
    BY <1>2 DEF PersistOutcome, Finish, Return, SendTypeOK
  <2>3. QED
    BY <2>1, <2>2, FinishedStays DEF IdemOfFinished, ReserveInv
<1>3. ASSUME NEW s \in Send, PersistReplayed(s)
      PROVE  IdemOfFinished'
  BY <1>1, <1>3 DEF PersistReplayed, Replay, Without
<1>4. ASSUME NEW s \in Send, Claim(s)
      PROVE  IdemOfFinished'
  BY <1>1, <1>4 DEF Claim, ArchiveBatch, idemVars
<1>5. CASE UNCHANGED vars
  BY <1>1, <1>5 DEF vars, idemVars
<1>6. CASE Others
  BY <1>1, <1>6, OthersMove
<1>7. QED
  BY <1>2, <1>3, <1>4, <1>5, <1>6
     DEF SendNext, SendStep, Negotiate, ClaimFails, Dispatch, Deliver, Answer,
         PersistFails, worldVars

LEMMA OverstatedStep ==
    ASSUME IInv, SendTypeOK, ReserveInv, IdemOfFinished, PersistedWithinEpoch,
           [SendNext]_worldVars
    PROVE  PersistedWithinEpoch'
<1>1. ASSUME NEW s \in overstated
      PROVE  \E t \in dispatched' : KeyOf[t] = KeyOf[s] /\ sendEpoch'[t] # sendEpoch'[s]
  <2>1. s \in dispatched
    BY DEF SendTypeOK
  <2>2. PICK t \in dispatched : KeyOf[t] = KeyOf[s] /\ sendEpoch[t] # sendEpoch[s]
    BY DEF PersistedWithinEpoch
  <2>3. QED
    BY <2>1, <2>2, FinishedStays DEF ReserveInv
<1>2. ASSUME overstated' \subseteq overstated
      PROVE  PersistedWithinEpoch'
  BY <1>1, <1>2 DEF PersistedWithinEpoch
<1>3. ASSUME NEW s \in Send, PersistOutcome(s)
      PROVE  PersistedWithinEpoch'
  <2>1. KeyOf[s] \in Key /\ KeyOf[s] \in IdemKey /\ state[s] \in DeliveryState
    BY <1>3, SendType, OneIdemKeyPerRecord
       DEF PersistOutcome, SendTypeOK, Outcome, DeliveryState
  <2>2. KeyOf[s] \in DOMAIN records' /\ records'[KeyOf[s]].state = state[s]
    BY <1>3, <2>1, PatchGoesOn DEF PersistOutcome, Live
  <2>3. overstated' = overstated
    BY <1>3, <2>2 DEF PersistOutcome, Finish
  <2>4. QED
    BY <1>2, <2>3
<1>4. ASSUME NEW s \in Send, PersistReplayed(s)
      PROVE  PersistedWithinEpoch'
  <2>1. at[s] = "persist" /\ s \in dispatched /\ KeyOf[s] \in DOMAIN idem
    BY <1>4 DEF PersistReplayed, Replay, Unexpired, SendTypeOK
  <2>2. PICK t \in dispatched : KeyOf[t] = KeyOf[s] /\ at[t] = "done"
    BY <2>1 DEF IdemOfFinished
  <2>3. sendEpoch[t] # sendEpoch[s]
    BY <2>1, <2>2 DEF ReserveInv, ReservationUnique, Holding
  <2>4. t \in dispatched' /\ sendEpoch'[t] # sendEpoch'[s]
    BY <2>1, <2>3, FinishedStays DEF ReserveInv
  <2>5. overstated' \subseteq overstated \cup {s}
    BY <1>4 DEF PersistReplayed, Finish
  <2>6. QED
    BY <1>1, <2>2, <2>4, <2>5 DEF PersistedWithinEpoch
<1>5. ASSUME NEW s \in Send, PersistFails(s)
      PROVE  PersistedWithinEpoch'
  BY <1>2, <1>5 DEF PersistFails, Finish, Confirms
<1>6. CASE UNCHANGED overstated
  BY <1>2, <1>6
<1>7. QED
  BY <1>3, <1>4, <1>5, <1>6
     DEF SendNext, SendStep, Others, Negotiate, Claim, ClaimFails, Dispatch, Deliver,
         Answer, worldVars
-----------------------------------------------------------------------------
LEMMA SendInvInit == SendInit => SendInv
<1> SUFFICES ASSUME SendInit PROVE SendInv
  OBVIOUS
<1>1. IInv
  BY InitInv DEF SendInit
<1>2. SendTypeOK
  BY DEF SendInit, SendTypeOK, Outcome, Init
<1>3. Holding = {} /\ dispatched = {}
  BY DEF SendInit, Holding
<1>4. ReserveInv /\ IdemOfFinished /\ PersistedWithinEpoch
  BY <1>3 DEF SendInit, Init, Empty, ReserveInv, ReservationUnique, ReservationStands,
              DispatchedWentOn, IdemOfFinished, PersistedWithinEpoch
<1>5. QED
  BY <1>1, <1>2, <1>4 DEF SendInv

LEMMA SendInvStep == SendInv /\ [SendNext]_worldVars => SendInv'
<1> SUFFICES ASSUME SendInv, [SendNext]_worldVars PROVE SendInv'
  OBVIOUS
<1>1. IInv /\ SendTypeOK /\ ReserveInv /\ IdemOfFinished /\ PersistedWithinEpoch
  BY DEF SendInv
<1>2. IInv'
  BY <1>1, NextMoves
<1>3. SendTypeOK'
  BY <1>1, <1>2, SendTypeStep DEF ReserveInv
<1>4. ReserveInv' /\ IdemOfFinished' /\ PersistedWithinEpoch'
  BY <1>1, ReserveStep, IdemStep, OverstatedStep
<1>5. QED
  BY <1>2, <1>3, <1>4 DEF SendInv

THEOREM SendInvariant == SendSpec => []SendInv
BY SendInvInit, SendInvStep, PTL DEF SendSpec

(***************************************************************************)
(* The sends are well typed in every reachable state.                      *)
(***************************************************************************)
THEOREM SendTypeCorrect == SendSpec => []SendTypeOK
<1>1. SendInv => SendTypeOK
  BY DEF SendInv
<1>2. QED
  BY <1>1, SendInvariant, PTL

(***************************************************************************)
(* sendOutboundOnce keeps its name: however many calls carry a message,    *)
(* and whatever is lost, crashes or is deleted between their steps, one at *)
(* most reaches the transport under one epoch of the history.              *)
(***************************************************************************)
THEOREM SentAtMostOnce == SendSpec => []AtMostOncePerEpoch
<1>1. SendInv => AtMostOncePerEpoch
  BY DEF SendInv, ReserveInv, ReservationUnique, Holding, AtMostOncePerEpoch
<1>2. QED
  BY <1>1, SendInvariant, PTL

(***************************************************************************)
(* What was handed to the transport stays in the history with the very     *)
(* ciphertext that was sent, or fenced, for as long as its epoch lasts.    *)
(***************************************************************************)
THEOREM SentIsKept == SendSpec => []DispatchedIsKept
<1>1. SendInv => DispatchedIsKept
  BY DEF SendInv, ReserveInv, ReservationStands, Stands, Holding, DispatchedIsKept
<1>2. QED
  BY <1>1, SendInvariant, PTL

(***************************************************************************)
(* persistOutcome reports "persisted" of a state that is not stored only   *)
(* to a message dispatched under two epochs.                               *)
(***************************************************************************)
THEOREM OverstatedOnlyAcrossEpochs == SendSpec => []PersistedWithinEpoch
<1>1. SendInv => PersistedWithinEpoch
  BY DEF SendInv
<1>2. QED
  BY <1>1, SendInvariant, PTL
-----------------------------------------------------------------------------
(***************************************************************************)
(* "accepted" in the result of a send needs the delivery of that send.     *)
(***************************************************************************)
AcceptedResults == \A s \in Send : state[s] = "accepted" => s \in delivered
AcceptedRows == \A k \in Live : records[k].state = "accepted" =>
                    \E s \in delivered : KeyOf[s] = k

LEMMA ResultsStep ==
    ASSUME SendTypeOK, AcceptedResults, [SendNext]_worldVars
    PROVE  AcceptedResults' /\ delivered \subseteq delivered'
<1> USE DEF AcceptedResults
<1>1. CASE UNCHANGED <<state, delivered>>
  BY <1>1
<1>2. ASSUME NEW s \in Send, UNCHANGED delivered,
             \A t \in Send : t # s => state'[t] = state[t],
             state'[s] = "accepted" => s \in delivered
      PROVE  AcceptedResults' /\ delivered \subseteq delivered'
  BY <1>2
<1>3. ASSUME NEW s \in Send, SendStep(s)
      PROVE  AcceptedResults' /\ delivered \subseteq delivered'
  <2>1. CASE Claim(s) \/ ClaimFails(s)
    BY <1>1, <1>2, <2>1 DEF Claim, ClaimFails, Return, SendTypeOK
  <2>2. CASE Deliver(s)
    BY <2>2 DEF Deliver
  <2>3. CASE Answer(s)
    BY <1>2, <2>3 DEF Answer, Answers, SendTypeOK
  <2>4. ASSUME NEW r, Finish(s, r)
        PROVE  AcceptedResults' /\ delivered \subseteq delivered'
    BY <1>2, <2>4 DEF Finish, Return, SendTypeOK
  <2>5. QED
    BY <1>1, <1>3, <2>1, <2>2, <2>3, <2>4
       DEF SendStep, Negotiate, Dispatch, PersistOutcome, PersistReplayed, PersistFails
<1>4. QED
  BY <1>1, <1>3 DEF SendNext, Others, worldVars, sendVars

LEMMA RowsStep ==
    ASSUME "accepted" \notin NewState,
           IInv, SendTypeOK, AcceptedResults, AcceptedRows, [SendNext]_worldVars
    PROVE  AcceptedRows'
<1> USE DEF AcceptedRows
<1>1. delivered \subseteq delivered'
  BY ResultsStep
<1>2. ASSUME \A k \in Live' : k \in Live /\ (\/ records'[k] = records[k]
                                             \/ records'[k].state # "accepted")
      PROVE  AcceptedRows'
  BY <1>1, <1>2
<1>3. ASSUME NEW s \in Send, Claim(s)
      PROVE  AcceptedRows'
  <2>1. /\ Live' = Live \cup {KeyOf[s]}
        /\ \A k \in Live : records'[k] = records[k]
        /\ KeyOf[s] \notin Live /\ records'[KeyOf[s]].state # "accepted"
    BY <1>3, ClaimStores DEF Claim
  <2>2. QED
    BY <1>1, <2>1
<1>4. ASSUME NEW s \in Send, PersistOutcome(s)
      PROVE  AcceptedRows'
  <2>1. KeyOf[s] \in Key /\ KeyOf[s] \in IdemKey /\ state[s] \in DeliveryState
    BY <1>4, SendType, OneIdemKeyPerRecord
       DEF PersistOutcome, SendTypeOK, Outcome, DeliveryState
  <2>2. /\ KeyOf[s] \in Live /\ Live' = Live
        /\ records'[KeyOf[s]].state = state[s]
        /\ \A j \in Live : j # KeyOf[s] => records'[j] = records[j]
    BY <1>4, <2>1, PatchGoesOn DEF PersistOutcome
  <2>3. state[s] = "accepted" => s \in delivered
    BY DEF AcceptedResults
  <2>4. QED
    BY <1>1, <2>2, <2>3
<1>5. CASE Others
  BY <1>2, <1>5, OthersMove
<1>6. CASE UNCHANGED records
  BY <1>1, <1>6 DEF Live
<1>7. QED
  BY <1>3, <1>4, <1>5, <1>6
     DEF SendNext, SendStep, Negotiate, ClaimFails, Dispatch, Deliver, Answer,
         PersistReplayed, Replay, PersistFails, worldVars, vars, ownerVars

(***************************************************************************)
(* "accepted", in a row or in the result of a send, is never said of a     *)
(* message that Message Box did not receive, as long as the other devices  *)
(* do not themselves patch a row to "accepted" (they have not sent it).    *)
(***************************************************************************)
THEOREM AcceptedMeansDelivered ==
    "accepted" \notin NewState => (SendSpec => []AcceptedWasDelivered)
<1> SUFFICES ASSUME "accepted" \notin NewState
             PROVE  SendSpec => []AcceptedWasDelivered
  OBVIOUS
<1>1. SendInit => AcceptedResults /\ AcceptedRows
  BY DEF SendInit, Init, Empty, Live, AcceptedResults, AcceptedRows
<1>2. SendInv /\ AcceptedResults /\ AcceptedRows /\ [SendNext]_worldVars
        => (AcceptedResults /\ AcceptedRows)'
  BY ResultsStep, RowsStep DEF SendInv
<1>3. AcceptedResults /\ AcceptedRows => AcceptedWasDelivered
  BY DEF AcceptedResults, AcceptedRows, AcceptedWasDelivered
<1>4. QED
  BY <1>1, <1>2, <1>3, SendInvariant, PTL DEF SendSpec
=============================================================================
