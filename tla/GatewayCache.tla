---------------------------- MODULE GatewayCache ----------------------------
(***************************************************************************)
(* The caching path of launcher.py's GatewayHandler._handle: concurrent    *)
(* handler threads of one ThreadingHTTPServer that share _cache_store and  *)
(* the singleflight table _cache_inflight.                                 *)
(*                                                                         *)
(* Each request runs once, in a thread of its own.  A step of a thread is  *)
(* what it does between two points at which another thread can be seen to  *)
(* intervene: a `with _cache_lock` block, a fetch from the upstream, an    *)
(* Event.set, the end of an Event.wait.  A function that reads the clock   *)
(* and then takes the lock is two steps: its `clk` is the clock read at    *)
(* the end of the step before.  A threading.Event is named by the request that *)
(* created it, so inflight maps a key to a request.                        *)
(***************************************************************************)
EXTENDS CacheStore

CONSTANTS
    Requests,       \* the requests of the run
    NoRequest,
    NoEntry,
    Menu,           \* what a request may ask: [auth, vary, prompt, ctl]
    StreamPrompts,  \* the prompts whose JSON says "stream": true
    CacheStreams,   \* cache_stream_enabled
    Sizes,          \* the body sizes an upstream may answer with
    MaxTime,        \* bound on the clock
    MaxClears       \* bound on _cache_clear calls (restarts of the proxy)

ASSUME GatewayConfig ==
    /\ NoRequest \notin Requests
    /\ \A q \in Menu : q.ctl \in {"normal", "refresh", "no-store"}
    /\ CacheStreams \in BOOLEAN
    /\ Sizes \subseteq Nat
    /\ {MaxTime, MaxClears} \subseteq Nat

VARIABLES
    now,       \* time.time()
    cache,     \* _cache_store and _cache_bytes
    inflight,  \* _cache_inflight: key -> request that owns the event
    fired,     \* the requests whose event is set
    era,       \* history: how often the cache was cleared
    req,       \* what each request asks
    pc,        \* where each thread is
    frame,     \* the locals of each thread
    sent       \* what the last step sent to a client, if anything

vars == <<now, cache, inflight, fired, era, req, pc, frame, sent>>

(* A faulty variant: all credentials share one namespace. *)
SharedKeyOf(q) == <<q.vary, q.prompt>>

(* _cache_key_for_request: the credential, the vary headers and the request. *)
(* A prompt stands for all bodies with the same canonical JSON; the key is   *)
(* their SHA-256, taken to be injective.                                     *)
KeyOf(q) == <<q.auth, q.vary, q.prompt>>
Keys == { KeyOf(q) : q \in Menu }
Key(r) == KeyOf(req[r])

Streams(r) == req[r].prompt \in StreamPrompts

Kinds == {"MISS", "SWR", "SIE"}
Leading == {"fetch", "put", "end", "pop"}
Stages == {"idle", "lookup", "begin", "wait", "relook", "pass", "done"} \cup Leading

(* How a fetch can end: `ok` a complete 200 that is not an event stream,     *)
(* `gone` the same but the client has closed and writing to it raises, `sse` *)
(* a complete 200 event stream, `cut` one that the upstream or the client    *)
(* broke off, `other` a 4xx, `fail` a 429, a 5xx or no answer.               *)
Outcomes == {"ok", "gone", "sse", "cut", "other", "fail"}

(* The locals: the clock read last, the branch of _handle, the stale entry   *)
(* of the SIE branch, the event waited for and how the fetch went.  History: *)
(* the era in which the thread became leader and, of a request that asks to  *)
(* refresh, the entry that had been stored when it arrived.                  *)
NewFrame ==
    [clk |-> 0, kind |-> "MISS", held |-> NoEntry, waits |-> NoRequest,
     got |-> "none", led |-> 0, seen |-> NoEntry]

Nothing == [to |-> NoRequest, tag |-> "none", entry |-> NoEntry, at |-> 0]

Init ==
    /\ now = 0
    /\ cache = EmptyCache
    /\ inflight = [k \in Keys |-> NoRequest]
    /\ fired = {}
    /\ era = 0
    /\ req \in [Requests -> Menu]
    /\ pc = [r \in Requests |-> "idle"]
    /\ frame = [r \in Requests |-> NewFrame]
    /\ sent = Nothing

-----------------------------------------------------------------------------
(* The steps of a request *)

Goto(r, stage) == pc' = [pc EXCEPT ![r] = stage]

Exit(r) ==
    /\ Goto(r, "done")
    /\ frame' = [frame EXCEPT ![r] = NewFrame]

Answer(r, tag, e) == sent' = [to |-> r, tag |-> tag, entry |-> e, at |-> frame[r].clk]
Silent == sent' = Nothing

(* The branches at the top of the caching path. *)
FirstStage(r) ==
    IF (Streams(r) /\ ~CacheStreams) \/ req[r].ctl = "no-store" THEN "pass"
    ELSE IF req[r].ctl = "refresh" THEN "begin"
    ELSE "lookup"

(* The entry of k, if it was stored by a fetch that is over. *)
Settled(k) ==
    IF Holds(cache.lru, k) /\ Get(cache.lru, k).by # inflight[k]
    THEN Get(cache.lru, k) ELSE NoEntry

Arrive(r) ==
    /\ pc[r] = "idle"
    /\ Goto(r, FirstStage(r))
    /\ frame' = [frame EXCEPT
          ![r].clk = now,
          ![r].seen = IF req[r].ctl = "refresh" THEN Settled(Key(r)) ELSE NoEntry]
    /\ Silent
    /\ UNCHANGED <<now, cache, inflight, fired, era, req>>

(* kind, entry = _cache_lookup(key).  A hit is answered and the thread done; *)
(* a stale entry is answered before the background refresh starts, which it  *)
(* does not if the client has gone, as writing the headers raises.           *)
LookupHit(r) ==
    /\ Classify(cache.lru, Key(r), frame[r].clk) = "HIT"
    /\ Answer(r, "HIT", Get(cache.lru, Key(r)))
    /\ Exit(r)

LookupStale(r) ==
    /\ Classify(cache.lru, Key(r), frame[r].clk) = "STALE"
    /\ Answer(r, "STALE", Get(cache.lru, Key(r)))
    /\ \/ Exit(r)
       \/ /\ Goto(r, "begin")
          /\ frame' = [frame EXCEPT ![r].kind = "SWR"]

LookupSie(r) ==
    /\ Classify(cache.lru, Key(r), frame[r].clk) = "SIE"
    /\ Goto(r, "begin")
    /\ frame' = [frame EXCEPT ![r].kind = "SIE", ![r].held = Get(cache.lru, Key(r))]
    /\ Silent

LookupMiss(r) ==
    /\ Classify(cache.lru, Key(r), frame[r].clk) = "MISS"
    /\ Goto(r, "begin")
    /\ Silent
    /\ UNCHANGED frame

Lookup(r) ==
    /\ pc[r] = "lookup"
    /\ cache' = AfterLookup(cache, Key(r), frame[r].clk)
    /\ LookupHit(r) \/ LookupStale(r) \/ LookupSie(r) \/ LookupMiss(r)
    /\ UNCHANGED <<now, inflight, fired, era, req>>

(* A faulty variant: every caller is told that it is the leader. *)
FreeForAll(k) == TRUE

(* _cache_inflight_begin when the key has no event: r becomes the leader. *)
Free(k) == inflight[k] = NoRequest

Lead(r) ==
    /\ pc[r] = "begin" /\ Free(Key(r))
    /\ inflight' = [inflight EXCEPT ![Key(r)] = r]
    /\ frame' = [frame EXCEPT ![r].led = era]
    /\ Goto(r, "fetch")
    /\ Silent
    /\ UNCHANGED <<now, cache, fired, era, req>>

(* ... and when it has one: r waits for it, unless it was only to refresh. *)
Follow(r) ==
    /\ pc[r] = "begin" /\ ~Free(Key(r))
    /\ IF frame[r].kind = "SWR" THEN Exit(r)
       ELSE /\ Goto(r, "wait")
            /\ frame' = [frame EXCEPT ![r].waits = inflight[Key(r)]]
    /\ Silent
    /\ UNCHANGED <<now, cache, inflight, fired, era, req>>

(* ev.wait(timeout=90) returns, because the event is set or on its timeout. *)
Resume(r) ==
    /\ pc[r] = "wait"
    /\ Goto(r, "relook")
    /\ frame' = [frame EXCEPT ![r].waits = NoRequest, ![r].clk = now]
    /\ Silent
    /\ UNCHANGED <<now, cache, inflight, fired, era, req>>

Wake(r)    == frame[r].waits \in fired /\ Resume(r)
TimeOut(r) == frame[r].waits \notin fired /\ Resume(r)

(* The follower looks again: a hit is answered; otherwise the held stale     *)
(* entry is, or the request is passed through.                               *)
Relook(r) ==
    LET found == Classify(cache.lru, Key(r), frame[r].clk) IN
    /\ pc[r] = "relook"
    /\ cache' = AfterLookup(cache, Key(r), frame[r].clk)
    /\ \/ found = "HIT" /\ Answer(r, "HIT", Get(cache.lru, Key(r))) /\ Exit(r)
       \/ found # "HIT" /\ frame[r].kind = "SIE" /\ Answer(r, "SIE", frame[r].held) /\ Exit(r)
       \/ found # "HIT" /\ frame[r].kind = "MISS" /\ Goto(r, "pass") /\ Silent /\ UNCHANGED frame
    /\ UNCHANGED <<now, inflight, fired, era, req>>

(* Which outcomes go to _cache_put: a complete 200; of event streams only    *)
(* the ones _proxy_upstream captured while it relayed them.                  *)
Cacheable(r, o) ==
    \/ o = "ok"
    \/ o = "sse" /\ frame[r].kind = "MISS" /\ Streams(r)

(* What the leader sends its client: a background refresh has none; the SIE  *)
(* leader falls back on the entry it holds; else the answer is relayed.      *)
FetchAnswer(r, o) ==
    \/ frame[r].kind = "SWR" /\ o # "gone" /\ Silent
    \/ frame[r].kind = "SIE" /\ o \notin {"ok", "other"} /\ Answer(r, "SIE", frame[r].held)
    \/ frame[r].kind = "SIE" /\ o \in {"ok", "other"} /\ Answer(r, "MISS", NoEntry)
    \/ frame[r].kind = "MISS" /\ Answer(r, "MISS", NoEntry)

(* A faulty variant: a fetch that raises leaves without the finally clause.  *)
FetchWithoutFinally(r, o) ==
    /\ pc[r] = "fetch"
    /\ FetchAnswer(r, o)
    /\ IF o \in {"gone", "fail"} THEN Exit(r)
       ELSE /\ Goto(r, IF Cacheable(r, o) THEN "put" ELSE "end")
            /\ frame' = [frame EXCEPT ![r].got = o, ![r].clk = now]
    /\ UNCHANGED <<now, cache, inflight, fired, era, req>>

(* _proxy_upstream (MISS) or _fetch_upstream_once (SWR, SIE) has returned or *)
(* raised; what is stored, _cache_put stamps with the clock it reads now.    *)
Fetch(r, o) ==
    /\ pc[r] = "fetch"
    /\ FetchAnswer(r, o)
    /\ IF Cacheable(r, o)
       THEN Goto(r, "put") /\ frame' = [frame EXCEPT ![r].got = o, ![r].clk = now]
       ELSE Goto(r, "end") /\ UNCHANGED frame
    /\ UNCHANGED <<now, cache, inflight, fired, era, req>>

Made(r, size, life) ==
    [key |-> Key(r), size |-> size, born |-> frame[r].clk, exp |-> frame[r].clk + life,
     by |-> r, body |-> frame[r].got, era |-> frame[r].led]

Put(r) ==
    /\ pc[r] = "put"
    /\ \E size \in Sizes, life \in Lifetimes :
          cache' = IF Storable(size) THEN AfterPut(cache, Made(r, size, life)) ELSE cache
    /\ Goto(r, "end")
    /\ Silent
    /\ UNCHANGED <<now, inflight, fired, era, req, frame>>

(* A faulty variant: the event is removed but never set. *)
EndWithoutSet(r) ==
    /\ pc[r] = "end"
    /\ Goto(r, "pop")
    /\ Silent
    /\ UNCHANGED <<now, cache, inflight, fired, era, req, frame>>

(* _cache_inflight_end sets the event first ... *)
EndSet(r) ==
    /\ pc[r] = "end"
    /\ fired' = fired \cup {r}
    /\ Goto(r, "pop")
    /\ Silent
    /\ UNCHANGED <<now, cache, inflight, era, req, frame>>

(* Faulty variants: whatever event the key has is removed; none is. *)
OwnsWhatever(r, k) == TRUE

EndWithoutPop(r) ==
    /\ pc[r] = "pop"
    /\ Exit(r)
    /\ Silent
    /\ UNCHANGED <<now, cache, inflight, fired, era, req>>

(* ... then, under the lock, removes it if it is still the key's event. *)
Owns(r, k) == inflight[k] = r

EndPop(r) ==
    /\ pc[r] = "pop"
    /\ inflight' = IF Owns(r, Key(r)) THEN [inflight EXCEPT ![Key(r)] = NoRequest] ELSE inflight
    /\ Exit(r)
    /\ Silent
    /\ UNCHANGED <<now, cache, fired, era, req>>

(* _proxy_upstream(cache_tag="BYPASS"): nothing is read or stored. *)
Pass(r) ==
    /\ pc[r] = "pass"
    /\ Answer(r, "BYPASS", NoEntry)
    /\ Exit(r)
    /\ UNCHANGED <<now, cache, inflight, fired, era, req>>

-----------------------------------------------------------------------------
(* The environment *)

(* _cache_clear, on every start and stop of the proxy and from the panel's    *)
(* cache_clear.  The handler threads go on: they are daemons, which           *)
(* stop_gateway does not join.                                                *)
Clear ==
    /\ era < MaxClears
    /\ era' = era + 1
    /\ cache' = EmptyCache
    /\ inflight' = [k \in Keys |-> NoRequest]
    /\ Silent
    /\ UNCHANGED <<now, fired, req, pc, frame>>

Tick ==
    /\ now < MaxTime
    /\ now' = now + 1
    /\ Silent
    /\ UNCHANGED <<cache, inflight, fired, era, req, pc, frame>>

(* The run is over when every request is: each is made once. *)
Over ==
    /\ \A r \in Requests : pc[r] = "done"
    /\ UNCHANGED vars

Progress(r) ==
    \/ Lookup(r) \/ Lead(r) \/ Follow(r) \/ Wake(r) \/ Relook(r)
    \/ \E o \in Outcomes : Fetch(r, o)
    \/ Put(r) \/ EndSet(r) \/ EndPop(r) \/ Pass(r)

Next ==
    \/ \E r \in Requests : Arrive(r) \/ TimeOut(r) \/ Progress(r)
    \/ Clear \/ Tick \/ Over

Spec == Init /\ [][Next]_vars

(* Some thread that can take a step takes one, and a fetch ends (http.client *)
(* has a 600 s timeout); but no request need arrive and no wait need be      *)
(* rescued by its timeout.  As every request is made once, this is as strong *)
(* as fairness to each thread.                                               *)
FairSpec == Spec /\ WF_vars(\E r \in Requests : Progress(r))

-----------------------------------------------------------------------------
(* Properties *)

EntryType ==
    [key : Keys, size : Sizes, born : Nat, exp : Nat,
     by : Requests, body : Outcomes, era : Nat]

FrameType ==
    [clk : Nat, kind : Kinds, held : EntryType \cup {NoEntry},
     waits : Requests \cup {NoRequest}, got : Outcomes \cup {"none"}, led : Nat,
     seen : EntryType \cup {NoEntry}]

SentType ==
    [to : Requests \cup {NoRequest}, tag : {"none", "HIT", "STALE", "SIE", "MISS", "BYPASS"},
     entry : EntryType \cup {NoEntry}, at : Nat]

(* Every variable has its type.  (CacheCoherent says what the byte counter is.) *)
TypeOK ==
    /\ now \in Nat
    /\ DOMAIN cache = {"lru", "bytes"}
    /\ cache.lru \in Seq(EntryType)
    /\ inflight \in [Keys -> Requests \cup {NoRequest}]
    /\ fired \subseteq Requests
    /\ era \in Nat
    /\ req \in [Requests -> Menu]
    /\ pc \in [Requests -> Stages]
    /\ frame \in [Requests -> FrameType]
    /\ sent \in SentType

(* The byte counter is the sum of the stored sizes, no key is stored twice,  *)
(* and the configured limits hold: after any interleaving of the lookups     *)
(* that delete, the puts that replace and evict, and the clears.             *)
CacheCoherent ==
    /\ cache.bytes = Bytes(cache.lru)
    /\ \A i, j \in DOMAIN cache.lru : cache.lru[i].key = cache.lru[j].key => i = j
    /\ Len(cache.lru) =< MaxEntries
    /\ MaxTotal > 0 => cache.bytes =< MaxTotal
    /\ \A i \in DOMAIN cache.lru : MaxBody > 0 => cache.lru[i].size =< MaxBody

(* What a client is answered from the cache was fetched on behalf of a       *)
(* request with the same credential, vary headers and prompt, was a complete *)
(* 200, and did not come from a request that said no-store.                  *)
OwnAnswers ==
    LET r == sent.to
        e == sent.entry
    IN  e # NoEntry =>
            /\ req[e.by].auth = req[r].auth
            /\ req[e.by].vary = req[r].vary
            /\ req[e.by].prompt = req[r].prompt
            /\ req[e.by].ctl # "no-store"
            /\ e.body \in {"ok", "sse"}

(* A HIT is younger than the TTL and a STALE answer than the TTL plus the    *)
(* stale-while-revalidate window, at the clock value the lookup used.        *)
FreshAnswers ==
    LET age == sent.at - sent.entry.born IN
    /\ sent.tag = "HIT" => age < TTL
    /\ sent.tag = "STALE" => age < TTL + SWR

(* At most one thread fetches for a key, except across a clear, which lets   *)
(* the leaders it finds run on beside the new ones.                          *)
Singleflight ==
    \A r, q \in Requests :
        /\ {pc[r], pc[q]} \subseteq Leading
        /\ Key(r) = Key(q)
        /\ frame[r].led = frame[q].led
        => r = q

(* Every event in the singleflight table belongs to a leader of that key     *)
(* which has still to remove it: no key is blocked for good.                 *)
InflightLive ==
    \A k \in Keys : inflight[k] # NoRequest =>
        /\ pc[inflight[k]] \in Leading
        /\ Key(inflight[k]) = k

(* A waiter's event is set, or its owner has still to set it: also when a    *)
(* clear took the event out of the table in between.                         *)
NoLostWakeup ==
    \A r \in Requests : pc[r] = "wait" =>
        frame[r].waits \in fired \/ pc[frame[r].waits] \in Leading \ {"pop"}

(* An event leaves the table only by a clear or by the thread that owns it:  *)
(* a leader that ends after a clear does not remove its successor's.         *)
PopsOwnEvent ==
    [][\A k \in Keys :
         inflight[k] # NoRequest /\ inflight'[k] # inflight[k]
         => era' # era \/ pc'[inflight[k]] = "done"]_vars

(* Between two clears a stored answer is only ever replaced by one that was  *)
(* produced later: no slow leader overwrites a newer answer.                 *)
NoRegress ==
    [][\A k \in Keys :
         Holds(cache.lru, k) /\ Holds(cache'.lru, k)
         => LET old == Get(cache.lru, k)
                new == Get(cache'.lru, k)
            IN  old.era = new.era => new.born >= old.born]_vars

(* The evictions a put causes never take the entry that was just put.        *)
PutSurvives ==
    [][\A r \in Requests :
         pc[r] = "put" /\ pc'[r] = "end" /\ cache' # cache
         => Holds(cache'.lru, Key(r)) /\ Get(cache'.lru, Key(r)).by = r]_vars

(* The gateway comes to rest: every request that arrives is over in the end. *)
(* No follower waits on a leader that failed, lost its client or was cut off *)
(* by a clear, even if the 90 s timeout of the wait never comes.             *)
Answered ==
    []<>(\A r \in Requests : pc[r] \in {"idle", "done"})
-----------------------------------------------------------------------------
(* What comments in _handle say of its answers, and its code does not do *)

(* launcher.py:2714 and 2727 say an entry is only answered as SIE while it   *)
(* is in its stale-if-error window.  It was when it was looked up, but it is *)
(* answered after a wait or a fetch.                                         *)
SieWithinWindow ==
    sent.tag = "SIE" => sent.at < SieUntil(sent.entry)

(* launcher.py:2563 says a refresh does not read the cache.  A refresh that  *)
(* finds another one in flight looks the key up after it.                    *)
RefreshIsNew ==
    [][\A r \in Requests :
         sent'.to = r /\ sent'.tag = "HIT" /\ req[r].ctl = "refresh"
         => sent'.entry # frame[r].seen]_vars
=============================================================================
