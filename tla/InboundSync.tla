----------------------------- MODULE InboundSync ----------------------------
(***************************************************************************)
(* Archive before acknowledge (syncPending): a bounded pass over the       *)
(* owner's mailboxes at Message Box that archives every message it reads   *)
(* into the owner's history (HistoryStore), and tells Message Box to drop  *)
(* a message only when the history has confirmed it.                       *)
(*                                                                         *)
(* Every device of the owner runs passes of its own, over and over, with   *)
(* or without acknowledgement.  Each listing, each archive call and each   *)
(* acknowledgement is one request; between any two of them messages        *)
(* arrive, other devices archive and acknowledge, and the owner deletes    *)
(* records or the whole history.  Requests and responses may be lost, and  *)
(* a pass may be cancelled or die at any point.                            *)
(*                                                                         *)
(* Message Box is external: it lists a mailbox in order of arrival, honours *)
(* the limit, and an acknowledgement drops, at one host, the owner's       *)
(* messages with the given ids.  Malformed pages count as lost ones.       *)
(***************************************************************************)
EXTENDS HistoryStore

CONSTANTS
    Device,        \* the owner's devices
    Acknowledging, \* those that pass acknowledgeAfterArchive
    Message,       \* the messages that may arrive
    IdOf,          \* messageId of each message
    MailboxOf,     \* the mailbox, a message box at a host, it is in
    KeyOf,         \* its canonical record key
    BodyOf,        \* its encrypted body
    HostOf,        \* the host of each mailbox
    Visit,         \* the mailboxes in the order a pass visits them
    PageSize,      \* pageSize
    MaxPages,      \* maxPages
    MaxMessages,   \* maxMessages
    MaxMishaps     \* bound of the model: requests lost and passes cancelled

Mailbox == {Visit[i] : i \in DOMAIN Visit}

ASSUME InboundType ==
    /\ Visit \in Seq(Mailbox) /\ Visit # <<>>
    /\ Acknowledging \subseteq Device
    /\ MailboxOf \in [Message -> Mailbox]
    /\ KeyOf \in [Message -> Key] /\ BodyOf \in [Message -> Body]
    /\ DOMAIN IdOf = Message /\ DOMAIN HostOf = Mailbox
ASSUME InboundLimits ==
    {PageSize, MaxPages, MaxMessages} \subseteq Nat \ {0} /\ MaxMishaps \in Nat

VARIABLES
    arrival,   \* each message's number in the order of arrival at its mailbox,
               \* or 0 while it has not arrived
    pass,      \* the current or last pass of each device
    mishaps,   \* requests lost and passes cancelled
    ackEpoch   \* (history variable) epoch under which a message was dropped, or 0

inboundVars == <<arrival, pass, mishaps, ackEpoch>>
everything  == <<vars, inboundVars>>

(***************************************************************************)
(* The local variables of syncPending; page is what is left of the page.   *)
(* cache is archiveCache: the body archived under each key in this pass.   *)
(* owed and disturbed are history variables: what was pending when the     *)
(* pass began, and whether another device has since acknowledged anything. *)
(***************************************************************************)
NoPass ==
    [at |-> "idle", epoch |-> 0, visit |-> 1, offset |-> 0, page |-> {},
     next |-> 0, more |-> FALSE, failed |-> FALSE, acks |-> {}, cache |-> Empty,
     pages |-> 0, read |-> 0, incomplete |-> FALSE, owed |-> {},
     disturbed |-> FALSE]

Pass ==
    [at : {"idle", "list", "archive", "acknowledge", "done"}, epoch : Nat,
     visit : DOMAIN Visit, offset : Nat, page : SUBSET Message,
     next : Nat, more : BOOLEAN, failed : BOOLEAN, acks : SUBSET Message,
     cache : UNION {[K -> Body] : K \in SUBSET Key},
     pages : 0..MaxPages, read : 0..MaxMessages, incomplete : BOOLEAN,
     owed : SUBSET Message, disturbed : BOOLEAN]

InboundInit ==
    /\ Init
    /\ arrival = [m \in Message |-> 0]
    /\ pass = [d \in Device |-> NoPass]
    /\ mishaps = 0
    /\ ackEpoch = [m \in Message |-> 0]

Arrived == {m \in Message : arrival[m] # 0}
Pending == {m \in Arrived : ackEpoch[m] = 0}

\* What a listing of the mailbox shows, and each message's place in it.
Waiting(b) == {m \in Pending : MailboxOf[m] = b}
Place(m) == Cardinality({n \in Waiting(MailboxOf[m]) : arrival[n] <= arrival[m]})

Mishap == mishaps < MaxMishaps /\ mishaps' = mishaps + 1

Arrive(m) ==
    /\ m \notin Arrived
    /\ arrival' = [arrival EXCEPT
         ![m] = Cardinality({n \in Arrived : MailboxOf[n] = MailboxOf[m]}) + 1]
    /\ UNCHANGED <<vars, pass, mishaps, ackEpoch>>
-----------------------------------------------------------------------------
(***************************************************************************)
(* Moving through the pass.                                                *)
(***************************************************************************)
\* (mutant) one page too many
MutHasBudget(p) == p.pages <= MaxPages /\ p.read < MaxMessages

HasBudget(p) == p.pages < MaxPages /\ p.read < MaxMessages

\* What of a pass its result still tells.
Finished(p) == [NoPass EXCEPT !.at = "done", !.epoch = p.epoch, !.owed = p.owed,
                              !.incomplete = p.incomplete, !.disturbed = p.disturbed]

\* Out of the loop over one mailbox and on to the next.
LeaveBox(p) ==
    LET q == [p EXCEPT !.incomplete = @ \/ ~HasBudget(p)] IN
    IF p.visit = Len(Visit) THEN Finished(q)
    ELSE [q EXCEPT !.at = "list", !.visit = @ + 1, !.offset = 0, !.next = 0,
                   !.page = {}, !.more = FALSE, !.failed = FALSE, !.acks = {}]

\* (mutant) a mailbox left in the middle is not reported
MutGiveUpBox(p) == LeaveBox(p)

GiveUpBox(p) == LeaveBox([p EXCEPT !.incomplete = TRUE])

\* (mutant) messages archived beside a failed one are not acknowledged
MutEndPage(p) ==
    CASE p.failed -> GiveUpBox(p)
      [] ~p.failed /\ p.acks # {} -> [p EXCEPT !.at = "acknowledge"]
      [] ~p.failed /\ p.acks = {} /\ p.more -> [p EXCEPT !.at = "list", !.offset = p.next]
      [] OTHER -> LeaveBox(p)

\* After the last message of a page: acknowledge, give up, go on, or leave.
EndPage(p) ==
    CASE p.acks # {} -> [p EXCEPT !.at = "acknowledge"]
      [] p.acks = {} /\ p.failed -> GiveUpBox(p)
      [] p.acks = {} /\ ~p.failed /\ p.more -> [p EXCEPT !.at = "list", !.offset = p.next]
      [] OTHER -> LeaveBox(p)

\* The messages of a page are processed in the order they are listed in.
Incoming(d) == CHOOSE m \in pass[d].page :
                   \A n \in pass[d].page : arrival[m] <= arrival[n]

\* (mutant) a message is acknowledged whatever came of its archive call
MutAcked(d, ok) == IF d \in Acknowledging THEN {Incoming(d)} ELSE {}

Acked(d, ok) == IF ok /\ d \in Acknowledging THEN {Incoming(d)} ELSE {}

\* The pass of d after the next message of its page was archived or not.
AfterMessage(d, p, ok) ==
    LET q == [p EXCEPT !.page = @ \ {Incoming(d)}, !.read = @ + 1, !.failed = @ \/ ~ok,
                       !.acks = @ \cup Acked(d, ok)]
    IN  IF q.page = {} THEN EndPage(q) ELSE q
-----------------------------------------------------------------------------
(***************************************************************************)
(* The pass begins with the epoch the history reports.                     *)
(***************************************************************************)
Start(d) ==
    /\ pass[d].at \in {"idle", "done"}
    /\ pass' = [pass EXCEPT ![d] = [NoPass EXCEPT !.at = "list", !.epoch = epoch,
                                                  !.owed = Pending]]
    /\ UNCHANGED <<vars, arrival, mishaps, ackEpoch>>

Limit(p) == Smaller(PageSize, MaxMessages - p.read)

List(d) ==
    LET p == pass[d]
        box == Waiting(Visit[p.visit])
        end == Smaller(p.offset + Limit(p), Cardinality(box))
        q == [p EXCEPT !.pages = @ + 1]
    IN  /\ p.at = "list" /\ HasBudget(p)
        /\ pass' = [pass EXCEPT ![d] =
             IF end <= p.offset THEN LeaveBox(q)
             ELSE [q EXCEPT !.at = "archive",
                            !.page = {m \in box : Place(m) \in (p.offset + 1)..end},
                            !.next = end, !.more = end < Cardinality(box),
                            !.failed = FALSE, !.acks = {}]]
        /\ UNCHANGED <<vars, arrival, mishaps, ackEpoch>>

OutOfBudget(d) ==
    /\ pass[d].at = "list" /\ ~HasBudget(pass[d])
    /\ pass' = [pass EXCEPT ![d] = LeaveBox(@)]
    /\ UNCHANGED <<vars, arrival, mishaps, ackEpoch>>

ListFails(d) ==
    /\ pass[d].at = "list" /\ HasBudget(pass[d])
    /\ Mishap
    /\ pass' = [pass EXCEPT ![d] = GiveUpBox(@)]
    /\ UNCHANGED <<vars, arrival, ackEpoch>>
-----------------------------------------------------------------------------
(***************************************************************************)
(* One message of the page.  A key archived before in this pass, from      *)
(* another host, is not archived again: the copy counts as archived if its *)
(* body is the same, as a conflict if not.                                 *)
(***************************************************************************)
Archiving(d) == pass[d].at = "archive"
Cached(d) == KeyOf[Incoming(d)] \in DOMAIN pass[d].cache

Inbound(m) == <<[key |-> KeyOf[m], body |-> BodyOf[m], state |-> "received"]>>

\* outcome "alreadyPresent"
Present(m) == KeyOf[m] \in Live /\ records[KeyOf[m]].body = BodyOf[m]

ArchiveCached(d) ==
    /\ Archiving(d) /\ Cached(d)
    /\ LET p == pass[d] IN
       pass' = [pass EXCEPT ![d] =
                  AfterMessage(d, p, p.cache[KeyOf[Incoming(d)]] = BodyOf[Incoming(d)])]
    /\ UNCHANGED <<vars, arrival, mishaps, ackEpoch>>

Confirmed(d) ==
    LET p == pass[d]
        m == Incoming(d)
    IN  pass' = [pass EXCEPT ![d] =
          AfterMessage(d, [p EXCEPT !.cache = With(@, KeyOf[m], BodyOf[m])], TRUE)]

Unconfirmed(d) == pass' = [pass EXCEPT ![d] = AfterMessage(d, @, FALSE)]

\* The record is stored or already there; its confirmation may get lost.
Archive(d) ==
    /\ Archiving(d) /\ ~Cached(d)
    /\ \/ Stored(Inbound(Incoming(d))) # {} /\ ArchiveBatch(pass[d].epoch, Inbound(Incoming(d)))
       \/ pass[d].epoch = epoch /\ Present(Incoming(d)) /\ UNCHANGED vars
    /\ \/ Confirmed(d) /\ UNCHANGED mishaps
       \/ Unconfirmed(d) /\ Mishap
    /\ UNCHANGED <<arrival, ackEpoch>>

\* Epoch changed, deleted, conflict, no room.
ArchiveRefused(d) ==
    /\ Archiving(d) /\ ~Cached(d)
    /\ \/ pass[d].epoch # epoch
       \/ ~Present(Incoming(d)) /\ Stored(Inbound(Incoming(d))) = {}
    /\ Unconfirmed(d)
    /\ UNCHANGED <<vars, arrival, mishaps, ackEpoch>>

ArchiveLost(d) ==
    /\ Archiving(d) /\ ~Cached(d)
    /\ Mishap
    /\ Unconfirmed(d)
    /\ UNCHANGED <<vars, arrival, ackEpoch>>
-----------------------------------------------------------------------------
(***************************************************************************)
(* acknowledgeMessage names a host and message ids, and no message box.    *)
(* The loop starts over at offset 0, as the pages behind have moved up.    *)
(***************************************************************************)
Dropped(d) ==
    LET p == pass[d] IN
    {m \in Pending : /\ HostOf[MailboxOf[m]] = HostOf[Visit[p.visit]]
                     /\ \E a \in p.acks : IdOf[a] = IdOf[m]}

Drop(d) ==
    ackEpoch' = [m \in Message |-> IF m \in Dropped(d) THEN pass[d].epoch ELSE ackEpoch[m]]

\* The passes once d has dropped messages and its own pass is q.
AfterDrop(d, q) ==
    [e \in Device |->
        IF e = d THEN q
        ELSE IF pass[e].at \in {"idle", "done"} THEN pass[e]
        ELSE [pass[e] EXCEPT !.disturbed = TRUE]]

AfterAck(p) ==
    IF p.failed THEN GiveUpBox(p)
    ELSE [p EXCEPT !.at = "list", !.offset = 0, !.next = 0, !.more = FALSE, !.acks = {}]

Acknowledge(d) ==
    /\ pass[d].at = "acknowledge"
    /\ Dropped(d) # {}
    /\ Drop(d)
    /\ \/ pass' = AfterDrop(d, AfterAck(pass[d])) /\ UNCHANGED mishaps
       \/ pass' = AfterDrop(d, GiveUpBox(pass[d])) /\ Mishap
    /\ UNCHANGED <<vars, arrival>>

\* Nothing with these ids is left there, or the request got lost.
AcknowledgeFails(d) ==
    /\ pass[d].at = "acknowledge"
    /\ \/ Dropped(d) = {} /\ UNCHANGED mishaps
       \/ Dropped(d) # {} /\ Mishap
    /\ pass' = [pass EXCEPT ![d] = GiveUpBox(@)]
    /\ UNCHANGED <<vars, arrival, ackEpoch>>

\* An abort signal, or the device dies: no result is returned.
Cancel(d) ==
    /\ pass[d].at \notin {"idle", "done"}
    /\ Mishap
    /\ pass' = [pass EXCEPT ![d] = NoPass]
    /\ UNCHANGED <<vars, arrival, ackEpoch>>
-----------------------------------------------------------------------------
PassStep(d) ==
    \/ Start(d)
    \/ List(d) \/ OutOfBudget(d)
    \/ ArchiveCached(d) \/ Archive(d) \/ ArchiveRefused(d)
    \/ Acknowledge(d) \/ AcknowledgeFails(d)

Trouble(d) == ListFails(d) \/ ArchiveLost(d) \/ Cancel(d)

\* The owner deletes a record, or everything.
OwnerDeletes ==
    /\ \/ \E k \in Live : DeleteRecord(k, NoIdem)
       \/ DeleteAll(0, NoIdem)
    /\ UNCHANGED inboundVars

InboundNext ==
    \/ OwnerDeletes
    \/ \E m \in Message : Arrive(m)
    \/ \E d \in Device : PassStep(d) \/ Trouble(d)

InboundSpec == InboundInit /\ [][InboundNext]_everything

(***************************************************************************)
(* Applications repeat their passes, and a pass that has begun goes on.    *)
(* No message need arrive and no owner need delete.                        *)
(***************************************************************************)
FairInboundSpec ==
    InboundSpec /\ \A d \in Acknowledging : WF_everything(PassStep(d))
-----------------------------------------------------------------------------
(***************************************************************************)
(* Properties                                                              *)
(***************************************************************************)

(***************************************************************************)
(* A pass stays within its pages and messages, speaks only of messages     *)
(* that have arrived, and, if it acknowledges, never leaves offset 0; no   *)
(* two messages have arrived at a mailbox as the same one.                 *)
(***************************************************************************)
InboundTypeOK ==
    /\ pass \in [Device -> Pass]
    /\ \A d \in Device :
         LET p == pass[d] IN
         /\ p.epoch <= epoch
         /\ p.read + Cardinality(p.page) <= MaxMessages
         /\ p.page \cup p.acks \cup p.owed \subseteq Arrived
         /\ d \in Acknowledging => p.offset = 0
    /\ mishaps \in 0..MaxMishaps
    /\ arrival \in [Message -> Nat] /\ ackEpoch \in [Message -> 0..epoch]
    /\ \A m, n \in Arrived : MailboxOf[m] = MailboxOf[n] /\ arrival[m] = arrival[n] => m = n

\* The history holds the message itself, or its owner has deleted it.
Kept(m) == KeyOf[m] \in tombstones \/ Present(m)

(***************************************************************************)
(* Archive before acknowledge: what Message Box was told to drop is in the *)
(* history with that very body, or its owner has deleted it there.  (In an *)
(* epoch that delete-all has ended nothing is kept.)  Lost responses,      *)
(* copies with another body, refusals beside successes on one page, stale  *)
(* epochs and other devices' passes do not matter.                         *)
(***************************************************************************)
AckedIsKept == \A m \in Message : ackEpoch[m] = epoch => Kept(m)

\* Of all messages pending when p began each is in the history, or was deleted
\* there, or was dropped by a device that had archived it before a delete-all.
MissedNothing(p) ==
    p.at = "done" /\ ~p.incomplete /\ p.epoch = epoch =>
        \A m \in p.owed : Kept(m) \/ ackEpoch[m] \in 1..(epoch - 1)

(***************************************************************************)
(* A pass that reports itself complete has missed nothing, if it           *)
(* acknowledges, or if no other device acknowledged while it ran: neither  *)
(* refusals, nor used up budgets, nor mail and acknowledgements between    *)
(* its pages make it pass over a message in silence.                       *)
(***************************************************************************)
CompleteMissedNothing ==
    \A d \in Device :
        d \in Acknowledging \/ ~pass[d].disturbed => MissedNothing(pass[d])

(***************************************************************************)
(* What PRD.md:632 asks of every pass: no offset is advanced across rows   *)
(* deleted by acknowledgement, and partial success is not called complete. *)
(***************************************************************************)
CompleteIsComplete == \A d \in Device : MissedNothing(pass[d])

(***************************************************************************)
(* A message the history would take does not wait for ever: in the end     *)
(* each one is dropped from Message Box, unless a whole page of messages   *)
(* that the history refuses lies before it in its mailbox.                 *)
(***************************************************************************)
Welcome(m) ==
    Present(m) \/ (KeyOf[m] \notin Live \cup tombstones /\ Room > 0)

Drains ==
    <>[](\A b \in Mailbox :
           \/ \A m \in Waiting(b) : ~Welcome(m)
           \/ /\ Cardinality(Waiting(b)) >= PageSize
              /\ \A m \in Waiting(b) : Place(m) <= PageSize => ~Welcome(m))
=============================================================================
