--------------------------- MODULE RequestPipeline --------------------------
(***************************************************************************)
(* One request's way through the middleware of createServiceApp: gates,    *)
(* admission, address allowance, body, readiness or authentication, replay *)
(* window, identity allowance, route.  What runs between two awaits is one *)
(* action: the body is read, the database probed, the signature verified   *)
(* and the repository called while other requests go on and clients leave. *)
(*                                                                         *)
(* A request is what the middleware tells apart of it.  The answer is left *)
(* out but for the 429, the authentication middleware is external, and so  *)
(* is the repository: each may come to any result.                         *)
(***************************************************************************)
EXTENDS FixedWindow, Sequences

CONSTANTS
    Slot,              \* the requests in progress at one time
    Call,              \* the requests clients make
    Address,           \* network addresses, however they are spelled
    Proxy,             \* trustedProxy, or NoAddress
    NoAddress,         \* stands for an absent or unusable address
    Owner,             \* identity keys
    Nobody,            \* stands for the absence of a verified identity
    RequestId,         \* x-bsv-auth-request-id values
    MaxConcurrent,     \* maxConcurrentRequests
    AddressLimit,      \* preAuthRatePerMinPerIp
    IdentityLimit,     \* authRatePerMinPerIdentity
    ReplayLimit,       \* REPLAY_CACHE_LIMIT
    MaxWindow          \* bound of the model on the rate-limit windows

\* archive, mutation and feed are the routes that need a verified owner.
Route == {"healthz", "ready", "handshake", "archive", "mutation", "feed"}

CallType ==
    [route  : Route,
     origin : {"none", "allowed", "preflight", "foreign"},   \* Origin, OPTIONS
     fits   : BOOLEAN,              \* the declared length is within the bound
     socket : Address,              \* the peer of the connection
     hop    : Address \cup {NoAddress},   \* the rightmost X-Forwarded-For hop
     id     : RequestId,
     signed : BOOLEAN,              \* signature and request id are present
     signer : Owner,                \* whose signature it is, if it verifies
     claim  : Owner \cup {Nobody},  \* the owner named in body, query, path or rows
     flaw   : {"none", "bounds", "shape"}]   \* what is wrong with the input

ASSUME SlotsFinite  == IsFiniteSet(Slot)
ASSUME CallsTyped   == Call \subseteq CallType
ASSUME ProxyType    == Proxy \in Address \cup {NoAddress}
\* told and passed speak of both, which the code keeps in two Maps (KeysApart).
ASSUME NobodyNew    == Nobody \notin Owner \cup Address /\ NoAddress \notin Address
ASSUME KeysApart    == Owner \cap Address = {}
ASSUME PipelineLimits ==
    {MaxConcurrent, AddressLimit, IdentityLimit, MaxBuckets, ReplayLimit}
        \subseteq Nat \ {0} /\ MaxWindow \in Nat

VARIABLES
    req,         \* the request in each slot
    active,      \* AdmissionTracker: slots held
    draining,    \* AdmissionTracker: no new work
    addresses,   \* the buckets of the address limiter
    identities,  \* the buckets of the identity limiter
    seenIds,     \* the replay window, in order of insertion
    window,      \* the number of the current rate-limit window
    verified,    \* checkReadiness: the schema versions are known
    told,        \* (history variable) the identity or address that the last
                 \* answer told to wait (429), or Nobody
    passed,      \* (history variable) requests each identity, and each address,
                 \* got past its limiter in this window, up to
                 \* one more than it may
    fresh        \* (history variable) the last ids to pass the replay window

pipelineVars == <<req, active, draining, addresses, identities, seenIds,
                  window, verified, told, passed, fresh>>

\* holds: the request has a slot of the admission bound, as its client is
\* still there for the answer.
Free == [at |-> "free"]
Busy(s) == req[s].at # "free"

PipelineInit ==
    /\ req = [s \in Slot |-> Free]
    /\ active = 0 /\ draining = FALSE
    /\ addresses = <<>> /\ identities = <<>> /\ seenIds = <<>>
    /\ window = 0
    /\ verified = FALSE
    /\ told = Nobody
    /\ passed = [k \in Owner \cup Address |-> 0]
    /\ fresh = <<>>
-----------------------------------------------------------------------------
(***************************************************************************)
(* The gates before admission answer at once and leave nothing behind: a   *)
(* foreign origin (403), the preflight of an allowed one (204), a declared *)
(* length beyond the bound (413), and liveness (200).                      *)
(***************************************************************************)
AllowedOrigin(c) == c.origin \in {"none", "allowed"}
PassesGates(c) == AllowedOrigin(c) /\ c.fits /\ c.route # "healthz"

\* No slot, no bucket, no await: told is all that can change.
AtOnce(who) ==
    /\ told' = who
    /\ UNCHANGED <<req, active, draining, addresses, identities, seenIds,
                   window, verified, passed, fresh>>

TurnAway(c) == ~PassesGates(c) /\ AtOnce(Nobody)

\* tryAcquire
HasRoom == ~draining /\ active < MaxConcurrent

RejectFull(c) == PassesGates(c) /\ ~HasRoom /\ AtOnce(Nobody)

(***************************************************************************)
(* resolveRateLimitIpKey: the peer's address, unless the peer is the one   *)
(* trusted proxy and names a usable hop.  Addresses are compared in their  *)
(* canonical spelling, so that one host has one bucket.                    *)
(***************************************************************************)
AddressKey(c) ==
    IF c.socket = Proxy /\ c.hop # NoAddress THEN c.hop ELSE c.socket

\* The slot is taken and, with the 429, given back.
Throttle(c) ==
    /\ PassesGates(c) /\ HasRoom
    /\ ~Allows(addresses, AddressKey(c), AddressLimit, window)
    /\ AtOnce(AddressKey(c))

CountedUpTo(n, key) == [passed EXCEPT ![key] = IF @ < n THEN @ + 1 ELSE @]

Admit(s, c) ==
    /\ PassesGates(c) /\ HasRoom
    /\ ~Busy(s)
    /\ Allows(addresses, AddressKey(c), AddressLimit, window)
    /\ addresses' = Consume(addresses, AddressKey(c), window)
    /\ passed' = CountedUpTo(AddressLimit + 1, AddressKey(c))
    /\ active' = active + 1
    /\ req' = [req EXCEPT ![s] = [at |-> "reading", call |-> c, holds |-> TRUE]]
    /\ told' = Nobody
    /\ UNCHANGED <<draining, identities, seenIds, window, verified, fresh>>
-----------------------------------------------------------------------------
(***************************************************************************)
(* The response is written, or its connection closes: the slot is given    *)
(* back, once.                                                             *)
(***************************************************************************)
\* (mutant) the released flag is not consulted
MutActiveAfter(s) == IF active > 0 THEN active - 1 ELSE 0

ActiveAfter(s) == IF req[s].holds THEN active - 1 ELSE active

Answered(s, who) ==
    /\ req' = [req EXCEPT ![s] = Free]
    /\ active' = ActiveAfter(s)
    /\ told' = who

\* Any answer but 429
Answer(s) == Answered(s, Nobody)

\* Only the authentication still looks at what the request says.
GoesOn(s, stage) ==
    /\ req' = [req EXCEPT ![s] =
                  IF stage = "authenticating" THEN [@ EXCEPT !.at = stage]
                  ELSE [at |-> stage, holds |-> @.holds]]
    /\ told' = Nobody
    /\ UNCHANGED active

\* assertEarlyBatchBounds: more records than a batch may have
OutOfBounds(c) == c.route = "archive" /\ c.flaw = "bounds"

\* The body does not arrive or is no JSON.
Unreadable(s) ==
    /\ req[s].at = "reading"
    /\ Answer(s)
    /\ UNCHANGED <<draining, addresses, identities, seenIds, window, verified,
                   passed, fresh>>

Signed(c) == c.route = "handshake" \/ c.signed

(***************************************************************************)
(* The body is there.  /ready asks for the verified schema, then for the   *)
(* database; any other route goes on to the authentication middleware if   *)
(* it is signed.                                                           *)
(***************************************************************************)
Read(s) ==
    LET c == req[s].call IN
    /\ req[s].at = "reading"
    /\ IF c.route = "ready"
       THEN IF verified THEN GoesOn(s, "probing") ELSE Answer(s)
       ELSE IF ~OutOfBounds(c) /\ Signed(c) THEN GoesOn(s, "authenticating")
       ELSE Answer(s)
    /\ UNCHANGED <<draining, addresses, identities, seenIds, window, verified,
                   passed, fresh>>

Probed(s) ==
    /\ req[s].at = "probing"
    /\ Answer(s)
    /\ UNCHANGED <<draining, addresses, identities, seenIds, window, verified,
                   passed, fresh>>

\* The middleware answers a handshake itself, and refuses what does not verify.
Unverified(s) ==
    /\ req[s].at = "authenticating"
    /\ Answer(s)
    /\ UNCHANGED <<draining, addresses, identities, seenIds, window, verified,
                   passed, fresh>>
-----------------------------------------------------------------------------
(***************************************************************************)
(* The request is verified.  From here to the route handler nothing        *)
(* awaits: the replay window, then the allowance of the verified identity, *)
(* then the checks of the route itself.                                    *)
(***************************************************************************)
AsSet(seq) == {seq[i] : i \in DOMAIN seq}
Last(seq, n) == IF Len(seq) > n THEN SubSeq(seq, Len(seq) - n + 1, Len(seq)) ELSE seq

Verifies(s) == req[s].at = "authenticating" /\ req[s].call.route # "handshake"

Replayed(s) ==
    /\ Verifies(s)
    /\ req[s].call.id \in AsSet(seenIds)
    /\ Answer(s)
    /\ UNCHANGED <<draining, addresses, identities, seenIds, window, verified,
                   passed, fresh>>

\* (mutant) the id just added counts against the limit as well
MutRemembered(id) == Last(Append(seenIds, id), ReplayLimit - 1)

\* The id is added, and the oldest one dropped when there are too many.
Remembered(id) == Last(Append(seenIds, id), ReplayLimit)

\* The id is new.  fresh keeps one id more than the replay window does.
PassesReplay(s) ==
    /\ Verifies(s)
    /\ req[s].call.id \notin AsSet(seenIds)
    /\ seenIds' = Remembered(req[s].call.id)
    /\ fresh' = Last(Append(fresh, req[s].call.id), ReplayLimit + 1)

\* (mutant) one bucket for everybody
MutIdentityKey(c) == CHOOSE o \in Owner : TRUE

IdentityKey(c) == c.signer

OverAllowance(s) ==
    /\ PassesReplay(s)
    /\ ~Allows(identities, IdentityKey(req[s].call), IdentityLimit, window)
    /\ Answered(s, req[s].call.signer)
    /\ UNCHANGED <<draining, addresses, identities, window, verified, passed>>

\* assertNoOwnerOverride, assertArchiveOwnership: another owner is named, or an
\* archived row is not the caller's own.
Claims(c) == c.claim \notin {Nobody, c.signer}

\* What the validators of the routes refuse: query, body, path, ids and cursors.
BadArchive(c)  == c.route = "archive" /\ c.flaw # "none"
BadMutation(c) == c.route = "mutation" /\ c.flaw # "none"
BadFeed(c)     == c.route = "feed" /\ c.flaw # "none"
Refused(c) == Claims(c) \/ BadArchive(c) \/ BadMutation(c) \/ BadFeed(c)

Routed(s) ==
    LET c == req[s].call IN
    /\ PassesReplay(s)
    /\ Allows(identities, IdentityKey(c), IdentityLimit, window)
    /\ identities' = Consume(identities, IdentityKey(c), window)
    /\ passed' = CountedUpTo(IdentityLimit + 1, c.signer)
    /\ IF Refused(c) THEN Answer(s) ELSE GoesOn(s, "handling")
    /\ UNCHANGED <<draining, addresses, window, verified>>

\* The repository call settles: its result, or mapRepositoryError's status.
Handled(s) ==
    /\ req[s].at = "handling"
    /\ Answer(s)
    /\ UNCHANGED <<draining, addresses, identities, seenIds, window, verified,
                   passed, fresh>>
-----------------------------------------------------------------------------
(***************************************************************************)
(* The client goes away.  The connection's close gives the slot back while *)
(* the request runs on, except that a body which was still being read will *)
(* not come.                                                               *)
(***************************************************************************)
Disconnected(s) ==
    IF req[s].at \in {"free", "reading"} THEN Free
    ELSE [req[s] EXCEPT !.holds = FALSE]

Disconnect(s) ==
    /\ Busy(s) /\ req[s].holds
    /\ req' = [req EXCEPT ![s] = Disconnected(s)]
    /\ active' = ActiveAfter(s)
    /\ told' = Nobody
    /\ UNCHANGED <<draining, addresses, identities, seenIds, window, verified,
                   passed, fresh>>

NextWindow ==
    /\ window < MaxWindow
    /\ window' = window + 1
    /\ passed' = [k \in DOMAIN passed |-> 0]
    /\ told' = Nobody
    /\ UNCHANGED <<req, active, draining, addresses, identities, seenIds,
                   verified, fresh>>

Incoming ==
    \E c \in Call : \/ TurnAway(c) \/ RejectFull(c) \/ Throttle(c)
                    \/ \E s \in Slot : Admit(s, c)

Serve(s) ==
    \/ Unreadable(s) \/ Read(s) \/ Probed(s) \/ Unverified(s)
    \/ Replayed(s) \/ OverAllowance(s) \/ Routed(s) \/ Handled(s)
-----------------------------------------------------------------------------
(***************************************************************************)
(* The pipeline on its own: the service around it begins and ends its      *)
(* drain and verifies the schema, or fails to, whenever it likes.          *)
(***************************************************************************)
Surroundings ==
    /\ draining' \in BOOLEAN
    /\ verified' \in BOOLEAN
    /\ told' = Nobody
    /\ UNCHANGED <<req, active, addresses, identities, seenIds, window, passed, fresh>>

PipelineNext ==
    \/ Incoming
    \/ \E s \in Slot : Serve(s) \/ Disconnect(s)
    \/ NextWindow
    \/ Surroundings

PipelineSpec == PipelineInit /\ [][PipelineNext]_pipelineVars
-----------------------------------------------------------------------------
(***************************************************************************)
(* Properties                                                              *)
(***************************************************************************)

(***************************************************************************)
(* Types and sizes; the admission count is the number of requests that     *)
(* hold a slot, however they end and however often that is reported.       *)
(***************************************************************************)
PipelineTypeOK ==
    /\ \A s \in Slot : req[s].at \in {"free", "reading", "probing",
                                      "authenticating", "handling"}
    /\ active = Cardinality({s \in Slot : Busy(s) /\ req[s].holds})
    /\ active <= MaxConcurrent
    /\ Cardinality(DOMAIN addresses) <= MaxBuckets
    /\ Cardinality(DOMAIN identities) <= MaxBuckets
    /\ Len(seenIds) <= ReplayLimit
    /\ told \in Owner \cup Address \cup {Nobody}

(***************************************************************************)
(* An answer 429 is earned: the identity, or address, it goes to has had   *)
(* its whole allowance of this window.  Nobody else's requests use it up,  *)
(* and neither do replays of its own requests.                             *)
(***************************************************************************)
DenialEarned ==
    told # Nobody =>
        passed[told] >= (IF told \in Owner THEN IdentityLimit ELSE AddressLimit)

(***************************************************************************)
(* An allowance is kept: while the limiter has room for all the keys of    *)
(* this window, none of them gets more.  Keys left over from earlier       *)
(* windows do not count against the room.                                  *)
(***************************************************************************)
WithinAllowance(keys, limit) ==
    Cardinality({k \in keys : passed[k] > 0}) <= MaxBuckets =>
        \A k \in keys : passed[k] <= limit

AllowanceKept ==
    WithinAllowance(Address, AddressLimit) /\ WithinAllowance(Owner, IdentityLimit)

(***************************************************************************)
(* A request id passes the replay window again only after ReplayLimit      *)
(* others, whatever is authenticated at the same time.                     *)
(***************************************************************************)
ReplayWindowHolds ==
    \A i, j \in DOMAIN fresh : fresh[i] = fresh[j] => i = j
=============================================================================
