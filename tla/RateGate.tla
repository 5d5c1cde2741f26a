------------------------------ MODULE RateGate ------------------------------
(***************************************************************************)
(* The gate in front of every request of the gateway: GatewayHandler.      *)
(* _dispatch with _concurrency_acquire, _ratelimit_check and               *)
(* _concurrency_release, run by the handler threads of the server, and     *)
(* _ratelimit_reset, run by start_proxy while handlers of the gateway it   *)
(* replaces may still be at work.                                          *)
(*                                                                         *)
(* Time is counted in ticks, TicksPerSecond of them a second, so that a    *)
(* hit has an age that is not a whole number of seconds.  A handler reads  *)
(* the clock before it takes _ratelimit_lock: `clk[h]` may be behind the   *)
(* clock values other handlers have used by the time it checks.            *)
(***************************************************************************)
EXTENDS Integers, Sequences, FiniteSets, SequencesExt

CONSTANTS
    Handlers,        \* the handler threads
    Clients,         \* client identities (_ratelimit_identity)
    NoClient,
    Limit,           \* max_concurrent_requests, 0 = no limit
    RPM,             \* rate_limit_rpm, 0 = off
    Window,          \* the sliding window, 60 seconds, in ticks
    TicksPerSecond,
    MaxTracked,      \* _RATELIMIT_MAX_TRACKED
    MaxTime,         \* bound on the clock
    MaxResets        \* bound on _ratelimit_reset calls

ASSUME GateConfig ==
    /\ IsFiniteSet(Handlers)
    /\ NoClient \notin Clients
    /\ {Limit, RPM, MaxTime, MaxResets} \subseteq Nat
    /\ {Window, TicksPerSecond, MaxTracked} \subseteq Nat \ {0}

VARIABLES
    now,      \* time.monotonic()
    active,   \* _concurrency_active
    order,    \* the identities in _ratelimit_hits, least recently seen first
    hits,     \* the deque of each identity, empty when it is not in the table
    pc,       \* where each handler is
    ident,    \* the client of a handler that is about to check
    clk,      \* the clock it read for that
    told,     \* what the last step answered, if the gate turned it away
    resets,   \* how often the gate was reset
    strays,   \* history: the handlers at work that lived through a reset
    clean,    \* history: no stray has given back a slot that was not its own
    recent,   \* history: each client's admissions in the window ending at the
              \* latest clock value it was admitted with, as pairs of that
              \* value and a number that tells equal ones apart
    others    \* history: the clients seen since each client was last seen

vars == <<now, active, order, hits, pc, ident, clk, told, resets, strays, clean, recent, others>>
rate == <<order, hits, recent, others>>

(* Where a handler is: with no request, with its slot, being served, and on  *)
(* its way to the finally of _dispatch.                                      *)
Stages == {"idle", "check", "serve", "linger", "release"}

(* The handlers at work for the gateway that runs now. *)
Holders == {h \in Handlers \ strays : pc[h] # "idle"}

NotTold == [code |-> 0, id |-> NoClient, at |-> 0, retry |-> 0]

Init ==
    /\ now = 0
    /\ active = 0
    /\ order = <<>>
    /\ hits = [c \in Clients |-> <<>>]
    /\ pc = [h \in Handlers |-> "idle"]
    /\ ident = [h \in Handlers |-> NoClient]
    /\ clk = [h \in Handlers |-> 0]
    /\ told = NotTold
    /\ resets = 0
    /\ strays = {}
    /\ clean = TRUE
    /\ recent = [c \in Clients |-> {}]
    /\ others = [c \in Clients |-> {}]

-----------------------------------------------------------------------------
(* The concurrency slots *)

(* A faulty variant: one request too many. *)
HasSlotOrOneMore == Limit > 0 => active =< Limit

HasSlot == Limit > 0 => active < Limit

Acquire(h, c) ==
    /\ pc[h] = "idle"
    /\ HasSlot
    /\ active' = active + 1
    /\ pc' = [pc EXCEPT ![h] = "check"]
    /\ ident' = [ident EXCEPT ![h] = c]
    /\ clk' = [clk EXCEPT ![h] = now]
    /\ told' = NotTold
    /\ UNCHANGED <<now, rate, resets, strays, clean>>

(* 503, Retry-After: 1 *)
Overloaded(h) ==
    /\ pc[h] = "idle"
    /\ ~HasSlot
    /\ told' = [code |-> 503, id |-> NoClient, at |-> 0, retry |-> 1]
    /\ UNCHANGED <<now, active, rate, pc, ident, clk, resets, strays, clean>>

(* Faulty variants: no guard against a counter that was reset; no release. *)
ReleasedBelowZero == active - 1
NeverReleased == active

Released == IF active > 0 THEN active - 1 ELSE active

(* The finally of _dispatch: whatever became of the request. *)
Release(h) ==
    /\ pc[h] = "release"
    /\ active' = Released
    /\ pc' = [pc EXCEPT ![h] = "idle"]
    /\ told' = NotTold
    /\ strays' = strays \ {h}
    /\ clean' = (Holders \subseteq {h} \/ (clean /\ (h \notin strays \/ active = 0)))
    /\ UNCHANGED <<now, rate, ident, clk, resets>>

-----------------------------------------------------------------------------
(* The sliding window *)

(* The hits left when the expired ones at the head have been popped.  Those  *)
(* further back stay: hits need not be in the order of their stamps.         *)
Live(s, t) ==
    LET fresh == {i \in DOMAIN s : t - s[i] < Window}
    IN  IF fresh = {} THEN <<>> ELSE SubSeq(s, Min(fresh), Len(s))

(* A faulty variant: `>` for `>=`. *)
AdmitsOneMore(s, t) == RPM = 0 \/ Len(Live(s, t)) =< RPM

Admits(s, t) == RPM = 0 \/ Len(Live(s, t)) < RPM

(* max(1, int(60 - (now - hits[0])) + 1), in seconds; int() truncates. *)
Truncated(ticks) ==
    IF ticks >= 0 THEN ticks \div TicksPerSecond ELSE -((-ticks) \div TicksPerSecond)

(* A faulty variant: the truncated second is not made up for. *)
RetryTooEarly(s, t) == Max({1, Truncated(Window - (t - Head(s)))})

RetryAfter(s, t) == Max({1, Truncated(Window - (t - Head(s))) + 1})

(* move_to_end of an identity that was there or has just been added *)
SeenLast(c) ==
    LET place == CHOOSE i \in DOMAIN order : order[i] = c
    IN  Append(IF c \in ToSet(order) THEN RemoveAt(order, place) ELSE order, c)

(* A faulty variant: nothing is evicted. *)
KeptAll(s) == s

(* popitem(last=False) while the table is over its limit *)
Kept(s) == SubSeq(s, Len(s) - Min({Len(s), MaxTracked}) + 1, Len(s))

(* History: who was seen since, and the admissions that must be remembered.  *)
(* A client is entitled to be remembered while fewer than MaxTracked others  *)
(* have been seen since.                                                     *)
SeenSince(c) == [d \in Clients |-> IF d = c THEN {} ELSE others[d] \cup {c}]

Admission(c, t) == <<t, Cardinality({a \in recent[c] : a[1] = t})>>

Remembered(c, t) ==
    LET all == recent[c] \cup {Admission(c, t)}
    IN  {a \in all : \A b \in all : b[1] - a[1] < Window}

Entitled(c, log) ==
    [d \in Clients |-> IF Cardinality(SeenSince(c)[d]) >= MaxTracked THEN {} ELSE log[d]]

Pass(h) ==
    LET c == ident[h]
        t == clk[h]
    IN
    /\ Admits(hits[c], t)
    /\ pc' = [pc EXCEPT ![h] = "serve"]
    /\ told' = NotTold
    /\ IF RPM = 0 THEN UNCHANGED rate
       ELSE /\ order' = Kept(SeenLast(c))
            /\ hits' = [d \in Clients |-> IF d \notin ToSet(order') THEN <<>>
                                          ELSE IF d = c THEN Append(Live(hits[c], t), t)
                                          ELSE hits[d]]
            /\ others' = SeenSince(c)
            /\ recent' = Entitled(c, [recent EXCEPT ![c] = Remembered(c, t)])

(* A faulty variant: the 429 returns before the try of the finally. *)
RejectAndKeepSlot(h) ==
    LET c == ident[h]
        t == clk[h]
    IN
    /\ ~Admits(hits[c], t)
    /\ pc' = [pc EXCEPT ![h] = "idle"]
    /\ told' = [code |-> 429, id |-> c, at |-> t, retry |-> RetryAfter(Live(hits[c], t), t)]
    /\ UNCHANGED rate

Reject(h) ==
    LET c == ident[h]
        t == clk[h]
    IN
    /\ ~Admits(hits[c], t)
    /\ pc' = [pc EXCEPT ![h] = "release"]
    /\ order' = SeenLast(c)
    /\ hits' = [hits EXCEPT ![c] = Live(hits[c], t)]
    /\ told' = [code |-> 429, id |-> c, at |-> t, retry |-> RetryAfter(hits'[c], t)]
    /\ others' = SeenSince(c)
    /\ recent' = Entitled(c, recent)

Check(h) ==
    /\ pc[h] = "check"
    /\ Pass(h) \/ Reject(h)
    /\ ident' = [ident EXCEPT ![h] = NoClient]
    /\ clk' = [clk EXCEPT ![h] = 0]
    /\ UNCHANGED <<now, active, resets, strays, clean>>

Move(h, from, to) ==
    /\ pc[h] = from
    /\ pc' = [pc EXCEPT ![h] = to]
    /\ told' = NotTold
    /\ UNCHANGED <<now, active, rate, ident, clk, resets, strays, clean>>

(* _handle returns or raises. *)
Serve(h) == Move(h, "serve", "release")

(* _handle goes on for as long as others like: a WebSocket of /v1/responses  *)
(* waits for messages without a timeout, an upstream may keep an event       *)
(* stream alive, and nothing bounds a client that does not send its body or  *)
(* does not read its answer.                                                 *)
Linger(h) == Move(h, "serve", "linger")

(* The other side has closed or has gone on at last. *)
Leave(h) == Move(h, "linger", "release")

-----------------------------------------------------------------------------
(* _ratelimit_reset: start_proxy is bringing up a new gateway.  stop_gateway *)
(* has closed the old one's socket, but its handlers are daemon threads that *)
(* nobody joined.                                                            *)
Reset ==
    /\ resets < MaxResets
    /\ resets' = resets + 1
    /\ active' = 0
    /\ order' = <<>>
    /\ hits' = [c \in Clients |-> <<>>]
    /\ recent' = [c \in Clients |-> {}]
    /\ others' = [c \in Clients |-> {}]
    /\ strays' = {h \in Handlers : pc[h] # "idle"}
    /\ clean' = TRUE
    /\ told' = NotTold
    /\ UNCHANGED <<now, pc, ident, clk>>

Tick ==
    /\ now < MaxTime
    /\ now' = now + 1
    /\ told' = NotTold
    /\ UNCHANGED <<active, rate, pc, ident, clk, resets, strays, clean>>

Work(h) == Check(h) \/ Serve(h) \/ Release(h)

Next ==
    \/ \E h \in Handlers :
          \/ \E c \in Clients : Acquire(h, c)
          \/ Overloaded(h)
          \/ Work(h) \/ Linger(h) \/ Leave(h)
    \/ Reset \/ Tick

Spec == Init /\ [][Next]_vars

(* Threads are scheduled, and a request that is being served ends or turns   *)
(* out to linger.  One that lingers need not end, and none need ever arrive. *)
FairSpec == Spec /\ WF_vars(\E h \in Handlers : Work(h))

-----------------------------------------------------------------------------
(* Properties *)

(* Every variable has its type. *)
TypeOK ==
    /\ now \in Nat
    /\ active \in Nat
    /\ order \in Seq(Clients)
    /\ hits \in [Clients -> Seq(Nat)]
    /\ pc \in [Handlers -> Stages]
    /\ ident \in [Handlers -> Clients \cup {NoClient}]
    /\ clk \in [Handlers -> Nat]
    /\ told \in [code : {0, 429, 503}, id : Clients \cup {NoClient}, at : Nat, retry : Nat]
    /\ resets \in Nat
    /\ strays \subseteq Handlers
    /\ clean \in BOOLEAN
    /\ recent \in [Clients -> SUBSET (Nat \X Nat)]
    /\ others \in [Clients -> SUBSET Clients]

(* A slot that is counted is held by a handler of the gateway that runs now: *)
(* whatever resets and the releases of strays do, no slot is lost for good.  *)
NoPhantomSlots == active =< Cardinality(Holders)

(* Until a stray gives back a slot it no longer has, every handler at work   *)
(* for the gateway is counted, so at most Limit are; and once the gateway    *)
(* has been idle, that is so again.                                          *)
ExactWhenClean ==
    clean => /\ active = Cardinality(Holders)
             /\ Limit > 0 => Cardinality(Holders) =< Limit

(* No client is granted more than RPM requests in the window that ends at    *)
(* the latest clock value it was admitted with, although handlers check with *)
(* clocks they read in another order, for as long as fewer than MaxTracked   *)
(* other clients were seen since its own last request.                       *)
QuotaHolds == RPM > 0 => \A c \in Clients : Cardinality(recent[c]) =< RPM

(* A client that was turned away, retries when it was told to and has no     *)
(* other request in between is let through.                                  *)
RetryAfterSuffices ==
    told.code = 429 => Admits(hits[told.id], told.at + told.retry * TicksPerSecond)

(* The table of identities stays within its limit, and only an identity that *)
(* is in it has hits.                                                        *)
TableBounded ==
    /\ Len(order) =< MaxTracked
    /\ \A c \in Clients : hits[c] # <<>> => c \in ToSet(order)

Lingering == {h \in Holders : pc[h] = "linger"}

(* A full gate does not stay full unless requests that linger hold all of    *)
(* its slots: every other request gives its slot back, also one that was     *)
(* turned away by its quota, and none is lost to a reset.                    *)
Recovers ==
    (Limit > 0 /\ active >= Limit) ~> (active < Limit \/ Cardinality(Lingering) >= Limit)

(* README.md:21 and launcher.py:648 call max_concurrent_requests the limit   *)
(* of the requests in flight.  A stray that gives its slot back after a reset*)
(* gives back one of the new gateway's.                                      *)
InFlightWithinLimit == Limit > 0 => Cardinality(Holders) =< Limit
=============================================================================
