----------------------------- MODULE CacheStore -----------------------------
(***************************************************************************)
(* The response cache of the gateway as a data structure: launcher.py's    *)
(* _cache_store (an OrderedDict, least recently used first) together with  *)
(* its separately kept byte counter _cache_bytes.                          *)
(*                                                                         *)
(* Each operator is the body of one `with _cache_lock` block: it maps the  *)
(* cache before the block to the cache after it.  Time is a parameter, as  *)
(* the code reads the clock before it takes the lock.                      *)
(*                                                                         *)
(* The counter is updated the way the code updates it (subtract the old    *)
(* size, add the new one, subtract each victim's), never recomputed from   *)
(* the entries, so that drift between the two is visible.                  *)
(***************************************************************************)
EXTENDS Integers, Sequences, SequencesExt

CONSTANTS
    TTL,          \* ttl_seconds
    Jitter,       \* ttl_jitter_seconds
    SWR,          \* stale_while_revalidate_seconds, 0 = off
    SIE,          \* stale_if_error_seconds, 0 = off
    MaxEntries,   \* max_entries, 0 = store nothing
    MaxBody,      \* max_body_bytes, 0 = no limit
    MaxTotal      \* max_total_bytes, 0 = no limit

(* What _gateway_set_config_from_settings guarantees of the configuration. *)
ASSUME CacheConfig ==
    /\ TTL \in Nat \ {0}
    /\ {Jitter, SWR, SIE, MaxEntries, MaxBody, MaxTotal} \subseteq Nat

EmptyCache == [lru |-> <<>>, bytes |-> 0]

(* A cached response has a key, a size, the time it was put (`born`) and the *)
(* time it expires (`exp`).  Three more fields are history: the request whose *)
(* fetch produced the body (`by`), how that fetch went (`body`) and the clear *)
(* era in which it became its key's leader (`era`).                          *)

StaleUntil(e) == e.exp + SWR
SieUntil(e)   == e.exp + SIE
HardUntil(e)  == Max({StaleUntil(e), SieUntil(e)})

-----------------------------------------------------------------------------
(* The OrderedDict *)

Holds(s, k)   == \E i \in DOMAIN s : s[i].key = k
Index(s, k)   == CHOOSE i \in DOMAIN s : s[i].key = k
Get(s, k)     == s[Index(s, k)]
Without(s, k) == IF Holds(s, k) THEN RemoveAt(s, Index(s, k)) ELSE s

Bytes(s) ==
    LET upTo[i \in 0 .. Len(s)] == IF i = 0 THEN 0 ELSE upTo[i - 1] + s[i].size
    IN  upTo[Len(s)]

SizeOf(s, k) == IF Holds(s, k) THEN Get(s, k).size ELSE 0

Delete(c, k) ==
    [lru |-> Without(c.lru, k), bytes |-> c.bytes - SizeOf(c.lru, k)]

MoveToEnd(c, k) ==
    [c EXCEPT !.lru = Append(Without(c.lru, k), Get(c.lru, k))]

-----------------------------------------------------------------------------
(* _cache_lookup: classify the entry of key k at clock t *)

(* A faulty variant, for the runs that must notice it: whatever is kept hits. *)
ClassifyUnexpired(s, k, t) ==
    IF Holds(s, k) /\ HardUntil(Get(s, k)) > t THEN "HIT" ELSE "MISS"

Classify(s, k, t) ==
    LET e == Get(s, k) IN
    IF ~Holds(s, k) \/ HardUntil(e) =< t     THEN "MISS"
    ELSE IF e.exp > t                        THEN "HIT"
    ELSE IF SWR > 0 /\ StaleUntil(e) > t      THEN "STALE"
    ELSE IF SIE > 0 /\ SieUntil(e) > t        THEN "SIE"
    ELSE "MISS"

(* A miss drops what was there (hard-expired); anything else is refreshed as *)
(* the most recently used.                                                   *)
AfterLookup(c, k, t) ==
    IF Classify(c.lru, k, t) = "MISS" THEN Delete(c, k) ELSE MoveToEnd(c, k)

-----------------------------------------------------------------------------
(* _cache_put *)

(* The early returns: what is refused leaves the cache as it was. *)
Storable(size) ==
    /\ MaxEntries > 0
    /\ MaxBody > 0 => size =< MaxBody
    /\ MaxTotal > 0 => size =< MaxTotal

(* The lifetimes the jitter can leave: TTL less a random 0..min(jitter, TTL-1). *)
(* A faulty variant: the jitter is not kept below the TTL.                    *)
UnboundedLifetimes == { TTL - j : j \in 0 .. Jitter }

Lifetimes == { TTL - j : j \in 0 .. Min({Jitter, TTL - 1}) }

(* A faulty variant: popitem() without last=False. *)
DropNewest(c, n) ==
    [lru   |-> SubSeq(c.lru, 1, Len(c.lru) - n),
     bytes |-> c.bytes - Bytes(SubSeq(c.lru, Len(c.lru) - n + 1, Len(c.lru)))]

(* popitem(last=False), n times *)
DropOldest(c, n) ==
    [lru   |-> SubSeq(c.lru, n + 1, Len(c.lru)),
     bytes |-> c.bytes - Bytes(SubSeq(c.lru, 1, n))]

(* The two eviction loops: each drops the fewest oldest entries that end it. *)
EvictByCount(c) ==
    DropOldest(c, IF Len(c.lru) > MaxEntries THEN Len(c.lru) - MaxEntries ELSE 0)

Fits(c) == c.lru = <<>> \/ c.bytes =< MaxTotal

EvictByBytes(c) ==
    IF MaxTotal = 0 THEN c
    ELSE DropOldest(c, Min({n \in 0 .. Len(c.lru) : Fits(DropOldest(c, n))}))

(* A faulty variant: the replaced value's bytes stay in the counter. *)
InsertOnTop(c, e) ==
    [lru   |-> Append(Without(c.lru, e.key), e), bytes |-> c.bytes + e.size]

(* Forget the old value's bytes, then append: pop and move_to_end in one. *)
Insert(c, e) ==
    [lru   |-> Append(Without(c.lru, e.key), e),
     bytes |-> c.bytes - SizeOf(c.lru, e.key) + e.size]

AfterPut(c, e) == EvictByBytes(EvictByCount(Insert(c, e)))
=============================================================================
