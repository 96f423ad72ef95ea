---------------------------- MODULE OutboundSend ----------------------------
(***************************************************************************)
(* Sending through Message Box at most once (sendOutboundOnce): reserve    *)
(* the message in the history as "prepared", hand it to the transport, and *)
(* patch the outcome, with the owner's history (HistoryStore) as the       *)
(* attempt store.                                                          *)
(*                                                                         *)
(* Every send is a process that makes one call.  Several may carry the     *)
(* same message: two tabs, or an application that calls again after an     *)
(* ambiguous answer with the message id of the first call.  They share the *)
(* record key; the ciphertext is fresh unless a body prepared before is    *)
(* submitted again.  Every request may be lost, and so may every response; *)
(* a send that crashes just takes no further step.  Meanwhile other        *)
(* devices delete, clear and patch.                                        *)
(***************************************************************************)
EXTENDS HistoryStore

CONSTANTS
    Send,      \* the calls of sendOutboundOnce
    KeyOf,     \* the record key of each call's message
    BodyOf     \* the ciphertext each call prepared

ASSUME SendType == KeyOf \in [Send -> Key] /\ BodyOf \in [Send -> Body]

\* `outbound_state_${recordKey}`: one idempotency key for each record key
ASSUME OneIdemKeyPerRecord == IdemKey = Key

VARIABLES
    at,          \* where each send is
    sendEpoch,   \* the epoch capabilities() told it
    state,       \* the state it will persist, and at the end return
    persisted,   \* statePersisted of its result
    dispatched,  \* the sends that called the transport
    inFlight,    \* those of them Message Box may still receive
    delivered,   \* those Message Box has received
    overstated   \* (history variable) told "persisted" of a state not stored

sendVars  == <<at, sendEpoch, state, persisted, dispatched, inFlight, delivered>>
worldVars == <<vars, sendVars, overstated>>

Outcome == {"accepted", "unknown", "failed"}

SendInit ==
    /\ Init
    /\ at = [s \in Send |-> "idle"]
    /\ sendEpoch = [s \in Send |-> 0]
    /\ state = [s \in Send |-> "none"]
    /\ persisted = [s \in Send |-> FALSE]
    /\ dispatched = {} /\ inFlight = {} /\ delivered = {}
    /\ overstated = {}

Return(s, result) ==
    /\ at' = [at EXCEPT ![s] = "done"]
    /\ state' = [state EXCEPT ![s] = result]
-----------------------------------------------------------------------------
(***************************************************************************)
(* claimPrepared: read the epoch, then archive the one record under it.    *)
(***************************************************************************)
Negotiate(s) ==
    /\ at[s] = "idle"
    /\ at' = [at EXCEPT ![s] = "claim"]
    /\ sendEpoch' = [sendEpoch EXCEPT ![s] = epoch]
    /\ UNCHANGED <<vars, state, persisted, dispatched, inFlight, delivered, overstated>>

Reservation(s) ==
    <<[key |-> KeyOf[s], body |-> BodyOf[s], state |-> "prepared"]>>

Reserves(s) == sendEpoch[s] = epoch /\ Stored(Reservation(s)) # {}

\* outcome "alreadyPresent": the same immutable record is there already
Existing(s) ==
    /\ sendEpoch[s] = epoch
    /\ KeyOf[s] \in Live /\ records[KeyOf[s]].body = BodyOf[s]

\* Only the outcome "stored" lets the send go on; if the response is lost
\* the call fails although the reservation stands.
Claim(s) ==
    /\ at[s] = "claim"
    /\ Reserves(s)
    /\ ArchiveBatch(sendEpoch[s], Reservation(s))
    /\ \/ at' = [at EXCEPT ![s] = "send"] /\ UNCHANGED state
       \/ Return(s, "failed")
    /\ UNCHANGED <<sendEpoch, persisted, dispatched, inFlight, delivered, overstated>>

\* (mutant) a committed response is taken for a reservation
MutCommitted(s) == [at EXCEPT ![s] = "send"]

\* (mutant) a failed claim is persisted like the outcome of a dispatch
MutPersistFailure(s) == [at EXCEPT ![s] = "persist"]

NotClaimed(s) == [at EXCEPT ![s] = "done"]

\* Refused, already present, or a request or response got lost.
ClaimFails(s) ==
    /\ at[s] = "claim"
    /\ at' = NotClaimed(s)
    /\ \E result \in {"failed"} \cup (IF Existing(s) THEN {"unknown"} ELSE {}) :
         state' = [state EXCEPT ![s] = result]
    /\ UNCHANGED <<vars, sendEpoch, persisted, dispatched, inFlight, delivered, overstated>>
-----------------------------------------------------------------------------
(***************************************************************************)
(* The one call of transport.sendMessage.  Message Box may take the        *)
(* message long after the call has failed or timed out.                    *)
(***************************************************************************)
Dispatch(s) ==
    /\ at[s] = "send"
    /\ at' = [at EXCEPT ![s] = "sending"]
    /\ dispatched' = dispatched \cup {s}
    /\ inFlight' = inFlight \cup {s}
    /\ UNCHANGED <<vars, sendEpoch, state, persisted, delivered, overstated>>

Deliver(s) ==
    /\ s \in inFlight
    /\ inFlight' = inFlight \ {s}
    /\ delivered' = delivered \cup {s}
    /\ UNCHANGED <<vars, at, sendEpoch, state, persisted, dispatched, overstated>>

\* (mutant) an answer that names no message is taken for success
MutAnyAnswerAccepts(s) == {"accepted"}

\* What the call may come back with: success once it was delivered, the
\* typed refusal of a paid route if it was not, anything unclear any time.
Answers(s) ==
    {"unknown"} \cup (IF s \in delivered THEN {"accepted"} ELSE {"failed"})

Answer(s) ==
    /\ at[s] = "sending"
    /\ \E a \in Answers(s) :
         /\ state' = [state EXCEPT ![s] = a]
         /\ inFlight' = IF a = "failed" THEN inFlight \ {s} ELSE inFlight
    /\ at' = [at EXCEPT ![s] = "persist"]
    /\ UNCHANGED <<vars, sendEpoch, persisted, dispatched, delivered, overstated>>
-----------------------------------------------------------------------------
(***************************************************************************)
(* persistOutcome: patch the reservation, made at revision 1, under the    *)
(* record's idempotency key.  Only a response with revision 2 counts as    *)
(* confirmation; 0 stands for an error or a lost response.                 *)
(***************************************************************************)
\* (mutant) any response counts
MutAnyResponse(revision) == TRUE

Confirms(revision) == revision = 2

Finish(s, revision) ==
    /\ persisted' = [persisted EXCEPT ![s] = Confirms(revision)]
    /\ Return(s, IF state[s] = "accepted" /\ ~Confirms(revision)
                 THEN "unknown" ELSE state[s])
    /\ overstated' =
         IF Confirms(revision) /\ ~(/\ KeyOf[s] \in DOMAIN records'
                                    /\ records'[KeyOf[s]].state = state[s])
         THEN overstated \cup {s} ELSE overstated
    /\ UNCHANGED <<sendEpoch, dispatched, inFlight, delivered>>

PersistOutcome(s) ==
    /\ at[s] = "persist"
    /\ PatchApplied(KeyOf[s], state[s], 1, KeyOf[s])
    /\ \E revision \in {0, 2} : Finish(s, revision)

PersistReplayed(s) ==
    /\ at[s] = "persist"
    /\ Replay(KeyOf[s], PatchRequest(KeyOf[s], state[s], 1))
    /\ \E revision \in {0, idem[KeyOf[s]].result.revision} : Finish(s, revision)

\* Refused (gone, patched by another, key used otherwise), or lost.
PersistFails(s) ==
    /\ at[s] = "persist"
    /\ UNCHANGED vars
    /\ Finish(s, 0)
-----------------------------------------------------------------------------
SendStep(s) ==
    \/ Negotiate(s) \/ Claim(s) \/ ClaimFails(s)
    \/ Dispatch(s) \/ Deliver(s) \/ Answer(s)
    \/ PersistOutcome(s) \/ PersistReplayed(s) \/ PersistFails(s)

\* The owner's other devices, and the clock that ages idempotency rows.
Others ==
    /\ \/ \E k \in Key : DeleteRecord(k, NoIdem)
       \/ DeleteAll(0, NoIdem)
       \/ \E k \in Live, s \in NewState : PatchApplied(k, s, records[k].revision, NoIdem)
       \/ \E k \in IdemKey : AgeIdempotency(k)
    /\ UNCHANGED <<sendVars, overstated>>

SendNext == Others \/ \E s \in Send : SendStep(s)

SendSpec == SendInit /\ [][SendNext]_worldVars
-----------------------------------------------------------------------------
(***************************************************************************)
(* Properties                                                              *)
(***************************************************************************)

(***************************************************************************)
(* The variables of the sends have their types.  What is still in flight   *)
(* was dispatched and has not arrived, only a dispatched send has an       *)
(* outcome to persist, and nobody is told "persisted" before the end.      *)
(***************************************************************************)
SendTypeOK ==
    /\ at \in [Send -> {"idle", "claim", "send", "sending", "persist", "done"}]
    /\ sendEpoch \in [Send -> 0..epoch]
    /\ state \in [Send -> Outcome \cup {"none"}]
    /\ persisted \in [Send -> BOOLEAN]
    /\ dispatched \subseteq Send
    /\ inFlight \cup delivered \cup overstated \subseteq dispatched
    /\ inFlight \cap delivered = {}
    /\ \A s \in Send :
         /\ at[s] \in {"sending", "persist"} => s \in dispatched
         /\ at[s] = "persist" => state[s] \in Outcome
         /\ persisted[s] => at[s] = "done" /\ s \in dispatched

(***************************************************************************)
(* A logical message is dispatched at most once for as long as the history *)
(* it was reserved in lasts: of all calls with the same message, whatever  *)
(* their ciphertexts, crashes, lost responses and deletions between them,  *)
(* one at most reaches the transport under one epoch.                      *)
(***************************************************************************)
AtMostOncePerEpoch ==
    \A s, t \in dispatched :
        KeyOf[s] = KeyOf[t] /\ sendEpoch[s] = sendEpoch[t] => s = t

(***************************************************************************)
(* What was sent is kept: while the epoch it was reserved in lasts, a      *)
(* dispatched message is in the history with the very ciphertext that was  *)
(* sent, or its owner has deleted it.                                      *)
(***************************************************************************)
DispatchedIsKept ==
    \A s \in dispatched :
        sendEpoch[s] = epoch =>
            \/ KeyOf[s] \in tombstones
            \/ KeyOf[s] \in Live /\ records[KeyOf[s]].body = BodyOf[s]

(***************************************************************************)
(* A record says "accepted" only of a message that Message Box received,   *)
(* and a send that returns "accepted" was received itself.                 *)
(***************************************************************************)
AcceptedWasDelivered ==
    /\ \A k \in Live : records[k].state = "accepted" =>
           \E s \in delivered : KeyOf[s] = k
    /\ \A s \in Send : state[s] = "accepted" => s \in delivered

(***************************************************************************)
(* A send is told "persisted" of a state that is not stored only if two    *)
(* sends of its message were dispatched under different epochs: neither    *)
(* lost responses nor concurrent patches and deletions can do it.          *)
(***************************************************************************)
PersistedWithinEpoch ==
    \A s \in overstated :
        \E t \in dispatched : KeyOf[t] = KeyOf[s] /\ sendEpoch[t] # sendEpoch[s]

(***************************************************************************)
(* What PRD.md:204 says of the result: statePersisted is true only when    *)
(* the attempt store confirms the state the helper returns.                *)
(***************************************************************************)
PersistedIsStored == overstated = {}
=============================================================================
