------------------------------ MODULE WsBridge ------------------------------
(***************************************************************************)
(* The WebSocket side of /v1/responses: _handle_responses_websocket with   *)
(* _ws_recv_message, _iter_sse_data_strings and the sanitiser, one session *)
(* per client connection, over the cache and the singleflight table it     *)
(* shares with the other sessions (its keys, "/v1/responses#ws", are not   *)
(* those of the HTTP path).                                                *)
(*                                                                         *)
(* A client takes its model from the list the gateway shows it.  `script`  *)
(* is what it sends: frames, with the messages they amount to.  The        *)
(* cache's limits and expiry are CacheStore's; here an entry may go at any *)
(* time.                                                                   *)
(***************************************************************************)
EXTENDS Requests, SseBlocks

CONSTANTS
    Sessions,        \* client connections
    NoEvent,
    None,            \* no body, entry or capture
    Worlds,          \* what the clients may send, with their cache control (normal,
                     \* refresh, no-store or bypass), and the models of the upstream
    Streams,         \* the event streams the upstream may answer with, in chunks
    MaxLines,        \* max_body_bytes, in data lines
    MaxClears        \* bound on _cache_clear

IsControl(f) == f.op \in {"ping", "pong"}
IsData(f)    == ~IsControl(f) /\ f.op # "close"

(* Of the first i frames: the messages that are complete, and the fragments  *)
(* of the one that is not.                                                   *)
Complete(frames, i) == Cardinality({j \in 1 .. i : IsData(frames[j]) /\ frames[j].fin})
Begun(frames, i) ==
    Cardinality({j \in 1 .. i : /\ IsData(frames[j])
                                /\ \A k \in j .. i : IsData(frames[k]) => ~frames[k].fin})

(* What a client sends: its messages, each in one frame or in several, with  *)
(* control frames between any two of them.                                   *)
Carries(frames, messages) ==
    \A i \in DOMAIN frames : IsData(frames[i]) =>
        LET c == Complete(frames, i - 1)
            n == Begun(frames, i - 1) + 1
            m == messages[c + 1]
        IN  /\ c < Len(messages) /\ n =< Len(m.data)
            /\ frames[i] = [op   |-> IF n = 1 THEN m.op ELSE "cont",
                            data |-> m.data[n],
                            fin  |-> n = Len(m.data)]

ClientFrames ==
    [op : {"text", "binary", "cont", "ping", "pong", "close"}, data : STRING, fin : BOOLEAN]

ClientMessages == [op : {"text", "binary"}, data : Seq(STRING)]

Scripts == [frames : Seq(ClientFrames), messages : Seq(ClientMessages)]

(* If the upstream has a model under a name that stands for another one, it  *)
(* has that one as well.                                                     *)
ASSUME WsConfig ==
    /\ NoEvent \notin Sessions \X Nat
    /\ MaxClears \in Nat /\ MaxLines \in Nat
    /\ Streams \subseteq Seq(Seq(Symbols))
    /\ \A w \in Worlds : \A s \in Sessions :
          w.script[s] \in Scripts /\ Carries(w.script[s].frames, w.script[s].messages)
    /\ \A w \in Worlds : w.models \subseteq Models /\ \A m \in w.models : Target(m) \in w.models

VARIABLES
    models,          \* the upstream's models
    script, header,  \* of each session, fixed
    pc,              \* where each session is
    inbox,           \* the frames still to come
    part,            \* the message being assembled: its opcode and payloads
    handled,         \* history: the messages received
    frame,           \* the locals of the request being served
    store,           \* the cache
    inflight,        \* _cache_inflight: the event of each key
    set,             \* the events that are set
    gone,            \* the clients whose connection is broken
    clears           \* how often the cache was cleared

vars == <<models, script, header, pc, inbox, part, handled, frame, store, inflight,
          set, gone, clears>>
given == <<models, script, header>>
shared == <<store, inflight, set>>

(* A request no upstream would take as it is, but for its model. *)
Request(m) ==
    [model |-> m, effort |-> "none", verbosity |-> "low", generate |-> TRUE,
     tools |-> Tools, choice |-> "image_generation"]

BodyFor(m) == Sanitised(Request(m))

Keys == {BodyFor(m) : m \in UNION {Listed(w.models) : w \in Worlds}}

NoPart == [op |-> "none", data |-> <<>>]

(* n numbers the requests of a session; the event a leader creates has its   *)
(* name.  got, era are history: what the upstream sent, the clears before.   *)
Idle(n) ==
    [n |-> n, body |-> None, ev |-> NoEvent, lead |-> FALSE,
     got |-> <<>>, up |-> <<>>, buf |-> <<>>, sent |-> <<>>, cap |-> None, ok |-> TRUE,
     entry |-> None, era |-> 0]

Init ==
    /\ \E w \in Worlds : models = w.models /\ script = w.script /\ header = w.header
    /\ pc = [s \in Sessions |-> "recv"]
    /\ inbox = [s \in Sessions |-> script[s].frames]
    /\ part = [s \in Sessions |-> NoPart]
    /\ handled = [s \in Sessions |-> <<>>]
    /\ frame = [s \in Sessions |-> Idle(0)]
    /\ store = [k \in Keys |-> None]
    /\ inflight = [k \in Keys |-> NoEvent]
    /\ set = {}
    /\ gone = {}
    /\ clears = 0

(* The stream cache's switches are on; the client's headers decide. *)
MayRead(s) == header[s] \in {"normal", "no-store"}
MayWrite(s) == header[s] \in {"normal", "refresh"}

Goto(s, label, f) ==
    /\ pc' = [pc EXCEPT ![s] = label]
    /\ frame' = [frame EXCEPT ![s] = f]

Done(s) == Goto(s, "recv", Idle(frame[s].n))

-----------------------------------------------------------------------------
(* _ws_recv_message and what becomes of a message *)

(* A faulty variant: the last frame names the opcode. *)
LastNames(p, f) == [op |-> f.op, data |-> Append(p.data, f.data)]

(* The first frame of a message names its opcode, the others continue it. *)
Assembled(p, f) ==
    [op   |-> IF f.op = "cont" THEN p.op ELSE f.op,
     data |-> Append(p.data, f.data)]

(* ping is answered, pong ignored, in the midst of a message as elsewhere. *)
RecvControl(s) ==
    /\ pc[s] = "recv" /\ inbox[s] # <<>> /\ s \notin gone
    /\ IsControl(Head(inbox[s]))
    /\ inbox' = [inbox EXCEPT ![s] = Tail(@)]
    /\ UNCHANGED <<given, pc, part, handled, frame, shared, gone, clears>>

RecvFragment(s) ==
    /\ pc[s] = "recv" /\ inbox[s] # <<>> /\ s \notin gone
    /\ LET f == Head(inbox[s]) IN
         /\ IsData(f) /\ ~f.fin
         /\ part' = [part EXCEPT ![s] = Assembled(part[s], f)]
    /\ inbox' = [inbox EXCEPT ![s] = Tail(@)]
    /\ UNCHANGED <<given, pc, handled, frame, shared, gone, clears>>

(* The last frame of a message.  Only a text message that is response.create *)
(* starts a request; the others are ignored or answered with an error.       *)
RecvMessage(s) ==
    /\ pc[s] = "recv" /\ inbox[s] # <<>> /\ s \notin gone
    /\ LET f == Head(inbox[s])
           m == Assembled(part[s], f)
       IN  /\ IsData(f) /\ f.fin
           /\ handled' = [handled EXCEPT ![s] = Append(@, m)]
           /\ IF m.op = "text" /\ m.data \in {<<"create">>, <<"cre", "ate">>}
              THEN \E id \in Listed(models) :
                     Goto(s, IF MayRead(s) THEN "lookup" ELSE "fetch",
                          [Idle(frame[s].n + 1) EXCEPT !.body = BodyFor(id), !.era = clears])
              ELSE UNCHANGED <<pc, frame>>
    /\ inbox' = [inbox EXCEPT ![s] = Tail(@)]
    /\ part' = [part EXCEPT ![s] = NoPart]
    /\ UNCHANGED <<given, shared, gone, clears>>

(* A close frame, the end of the input or a broken connection. *)
RecvEnd(s) ==
    /\ pc[s] = "recv"
    /\ s \notin gone /\ inbox[s] # <<>> => Head(inbox[s]).op = "close"
    /\ pc' = [pc EXCEPT ![s] = "closed"]
    /\ UNCHANGED <<given, inbox, part, handled, frame, shared, gone, clears>>

ClientGoes(s) ==
    /\ s \notin gone /\ pc[s] # "closed"
    /\ gone' = gone \cup {s}
    /\ UNCHANGED <<given, pc, inbox, part, handled, frame, shared, clears>>

-----------------------------------------------------------------------------
(* The cache and the singleflight *)

Key(s) == frame[s].body

(* A faulty variant: the last line is taken for the empty one at the end. *)
ReplayButLast(entry) == [i \in 1 .. Len(entry.lines) - 1 |-> <<entry.lines[i]>>]

(* One message per captured line; a broken connection ends it. *)
Replay(entry) == [i \in DOMAIN entry.lines |-> <<entry.lines[i]>>]

Hit(s, label) ==
    /\ pc[s] = label /\ store[Key(s)] # None
    /\ Goto(s, "replayed", [frame[s] EXCEPT !.entry = store[Key(s)],
                                            !.sent = Replay(store[Key(s)])])
    /\ UNCHANGED <<given, inbox, part, handled, shared, gone, clears>>

Replayed(s) ==
    /\ pc[s] = "replayed"
    /\ Done(s)
    /\ UNCHANGED <<given, inbox, part, handled, shared, gone, clears>>

(* Only a fresh entry is a hit.  A request that may write goes on to the     *)
(* singleflight table, one that may only read to the upstream.               *)
Miss(s) ==
    /\ pc[s] = "lookup" /\ store[Key(s)] = None
    /\ Goto(s, IF MayWrite(s) THEN "begin" ELSE "fetch", frame[s])
    /\ UNCHANGED <<given, inbox, part, handled, shared, gone, clears>>

EventOf(s) == <<s, frame[s].n>>

(* A faulty variant: the event of another leader is replaced. *)
AlwaysLeads(s) == TRUE

Leads(s) == inflight[Key(s)] = NoEvent

Begin(s) ==
    /\ pc[s] = "begin"
    /\ IF Leads(s)
       THEN /\ inflight' = [inflight EXCEPT ![Key(s)] = EventOf(s)]
            /\ Goto(s, "fetch", [frame[s] EXCEPT !.ev = EventOf(s), !.lead = TRUE, !.era = clears])
       ELSE /\ Goto(s, "wait", [frame[s] EXCEPT !.ev = inflight[Key(s)]])
            /\ UNCHANGED inflight
    /\ UNCHANGED <<given, inbox, part, handled, store, set, gone, clears>>

Woken(s) ==
    /\ pc[s] = "wait" /\ frame[s].ev \in set
    /\ Goto(s, "relook", [frame[s] EXCEPT !.ev = NoEvent])
    /\ UNCHANGED <<given, inbox, part, handled, shared, gone, clears>>

(* ev.wait(timeout=90) *)
WaitTimesOut(s) ==
    /\ pc[s] = "wait" /\ frame[s].ev \notin set
    /\ Goto(s, "relook", [frame[s] EXCEPT !.ev = NoEvent])
    /\ UNCHANGED <<given, inbox, part, handled, shared, gone, clears>>

(* No second attempt to lead: the follower fetches on its own. *)
MissAgain(s) ==
    /\ pc[s] = "relook" /\ store[Key(s)] = None
    /\ Goto(s, "fetch", frame[s])
    /\ UNCHANGED <<given, inbox, part, handled, shared, gone, clears>>

-----------------------------------------------------------------------------
(* The upstream's answer *)

(* Every way out of the fetch passes the `finally`. *)
Finish(s, f) ==
    IF f.lead THEN Goto(s, "end", [f EXCEPT !.got = <<>>, !.up = <<>>, !.buf = <<>>,
                                            !.sent = <<>>, !.cap = None])
              ELSE Done(s)

(* A faulty variant: the `continue` skips the release of the followers. *)
ErrorLeaves(s) == Done(s)

ErrorEnds(s) == Finish(s, frame[s])

(* No connection, or an answer that is no event stream: an error message, on *)
(* 403 and 429 also the monitor's wake-up.                                   *)
FetchFails(s) ==
    /\ pc[s] = "fetch"
    /\ ErrorEnds(s)
    /\ UNCHANGED <<given, inbox, part, handled, shared, gone, clears>>

FetchStreams(s) ==
    /\ pc[s] = "fetch"
    /\ \E q \in Streams :
         Goto(s, "stream", [frame[s] EXCEPT !.up = q, !.cap = IF MayWrite(s) THEN <<>> ELSE None])
    /\ UNCHANGED <<given, inbox, part, handled, shared, gone, clears>>

(* A faulty variant: the limit is noticed a chunk late. *)
CapturedPast(cap, msgs) ==
    IF cap = None \/ Len(cap) > MaxLines THEN None ELSE cap \o FlattenSeq(msgs)

(* The captured lines, dropped for good once they are too many. *)
Captured(cap, msgs) ==
    LET lines == FlattenSeq(msgs) IN
    IF cap = None \/ Len(cap) + Len(lines) > MaxLines THEN None ELSE cap \o lines

Streaming(s) == pc[s] = "stream" /\ frame[s].ok

(* The next chunk is read when the buffer has no complete block any more. *)
ReadChunk(s) ==
    /\ Streaming(s) /\ frame[s].up # <<>> /\ Breaks(frame[s].buf) = {}
    /\ LET chunk == Head(frame[s].up) IN
       Goto(s, "stream", [frame[s] EXCEPT !.up = Tail(@), !.buf = @ \o chunk,
                                          !.got = @ \o chunk])
    /\ UNCHANGED <<given, inbox, part, handled, shared, gone, clears>>

(* A message is sent, then captured; a write to a client that is gone fails, *)
(* and nothing more is relayed.                                              *)
Relayed(s, f, msgs) ==
    IF msgs # <<>> /\ s \in gone THEN [f EXCEPT !.ok = FALSE]
    ELSE [f EXCEPT !.sent = @ \o msgs, !.cap = Captured(@, msgs)]

(* The first blank line ends a block. *)
EmitBlock(s) ==
    /\ Streaming(s)
    /\ LET f == frame[s] IN \E i \in Breaks(f.buf) :
         /\ \A j \in Breaks(f.buf) : i =< j
         /\ Goto(s, "stream", Relayed(s, [f EXCEPT !.buf = Rest(f.buf, i)],
                                      Message(Block(f.buf, i))))
    /\ UNCHANGED <<given, inbox, part, handled, shared, gone, clears>>

(* A faulty variant: an answer that did not complete is kept as well. *)
WorthAnyway(f) == f.ok /\ f.cap # None

(* Any event whose type ends with .completed will do.  A message of several  *)
(* lines would be no known event.                                            *)
Worth(f) ==
    /\ f.ok /\ f.cap # None
    /\ {<<"part">>, <<"completed">>} \cap ToSet(f.sent) # {}
    /\ <<"failed">> \notin ToSet(f.sent)

(* The stream ends, also by an exception of the read: what is left in the    *)
(* buffer is an event too.  An answer that is complete goes into the cache.  *)
StreamEnds(s) ==
    /\ pc[s] = "stream"
    /\ frame[s].ok => Breaks(frame[s].buf) = {}
    /\ LET f == IF frame[s].ok
                THEN Relayed(s, [frame[s] EXCEPT !.buf = <<>>], Message(frame[s].buf))
                ELSE frame[s]
       IN  IF Worth(f) THEN Goto(s, "put", f) ELSE Finish(s, f)
    /\ UNCHANGED <<given, inbox, part, handled, shared, gone, clears>>

Put(s) ==
    /\ pc[s] = "put"
    /\ store' = [store EXCEPT ![Key(s)] = [lines |-> frame[s].cap, events |-> frame[s].sent]]
    /\ Finish(s, frame[s])
    /\ UNCHANGED <<given, inbox, part, handled, inflight, set, gone, clears>>

(* _cache_inflight_end: the event is set, then removed if it still is there. *)
EndSet(s) ==
    /\ pc[s] = "end"
    /\ set' = set \cup {frame[s].ev}
    /\ Goto(s, "pop", frame[s])
    /\ UNCHANGED <<given, inbox, part, handled, store, inflight, gone, clears>>

EndPop(s) ==
    /\ pc[s] = "pop"
    /\ inflight' = [inflight EXCEPT ![Key(s)] = IF @ = frame[s].ev THEN NoEvent ELSE @]
    /\ Done(s)
    /\ UNCHANGED <<given, inbox, part, handled, store, set, gone, clears>>

-----------------------------------------------------------------------------
(* What the others do to the cache *)

(* An entry expires or is evicted. *)
Expire(k) ==
    /\ store[k] # None
    /\ store' = [store EXCEPT ![k] = None]
    /\ UNCHANGED <<given, pc, inbox, part, handled, frame, inflight, set, gone, clears>>

(* _cache_clear *)
Clear ==
    /\ clears < MaxClears
    /\ clears' = clears + 1
    /\ store' = [k \in DOMAIN store |-> None]
    /\ inflight' = [k \in DOMAIN store |-> NoEvent]
    /\ UNCHANGED <<given, pc, inbox, part, handled, frame, set, gone>>

Serve(s) ==
    \/ Hit(s, "lookup") \/ Hit(s, "relook") \/ Replayed(s) \/ Miss(s) \/ Begin(s)
    \/ Woken(s) \/ MissAgain(s) \/ FetchFails(s) \/ FetchStreams(s)
    \/ ReadChunk(s) \/ EmitBlock(s) \/ StreamEnds(s) \/ Put(s) \/ EndSet(s) \/ EndPop(s)

Recv(s) == RecvControl(s) \/ RecvFragment(s) \/ RecvMessage(s) \/ RecvEnd(s)

Next ==
    \/ \E s \in Sessions : Recv(s) \/ Serve(s) \/ WaitTimesOut(s) \/ ClientGoes(s)
    \/ \E k \in DOMAIN store : Expire(k)
    \/ Clear

Spec == Init /\ [][Next]_vars

(* Each session's thread goes on while it serves a request: an upstream      *)
(* connection has a timeout.  Nothing is assumed of the 90 s of a wait.      *)
FairSpec == Spec /\ \A s \in Sessions : WF_vars(Serve(s))

-----------------------------------------------------------------------------
(* Properties *)

Messages == Seq(Seq(Data))

FrameOK(f) ==
    /\ f.n \in Nat /\ f.era \in Nat
    /\ f.body \in {None} \cup DOMAIN store
    /\ f.ev \in {NoEvent} \cup (Sessions \X Nat)
    /\ {f.lead, f.ok} \subseteq BOOLEAN
    /\ f.sent \in Messages
    /\ f.cap = None \/ (f.cap \in Seq(Data) /\ Len(f.cap) =< MaxLines)

(* Every variable has its type, and no capture is over its limit. *)
TypeOK ==
    /\ \A s \in Sessions : FrameOK(frame[s])
    /\ pc \in [Sessions -> {"recv", "lookup", "replayed", "begin", "wait", "relook", "fetch",
                            "stream", "put", "end", "pop", "closed"}]
    /\ inflight \in [DOMAIN store -> {NoEvent} \cup (Sessions \X Nat)]
    /\ gone \subseteq Sessions

(* What the client sent is what was received: the fragments of a message are *)
(* put together, whatever control frames come between them.                  *)
MessagesArriveWhole ==
    \A s \in Sessions : IsPrefix(handled[s], script[s].messages)

(* Where the chunks of the stream are cut makes no difference to what the    *)
(* client has been sent.                                                     *)
ChunksMakeNoDifference ==
    \A s \in Sessions :
        Streaming(s) /\ Breaks(frame[s].buf) = {} => frame[s].sent = Events(frame[s].got)

(* An answer is in the cache only if it, or a part of it, was completed and  *)
(* no event of it says that it has failed, and it is all that the client was *)
(* sent, in that order.                                                      *)
KeptAsSent ==
    \A k \in DOMAIN store : store[k] # None =>
        /\ {"part", "completed"} \cap ToSet(store[k].lines) # {}
        /\ <<"failed">> \notin ToSet(store[k].events)
        /\ store[k].lines = FlattenSeq(store[k].events)

(* A client that is answered from the cache gets the messages the first one  *)
(* got, no more and no fewer, if each was a single line (an entry keeps      *)
(* lines: a message of several is replayed as several messages).             *)
ReplayIsTheStream ==
    \A s \in Sessions :
        /\ pc[s] = "replayed"
        /\ \A e \in ToSet(frame[s].entry.events) : Len(e) = 1
        => frame[s].sent = frame[s].entry.events

(* Among the requests that began since the cache was last cleared, at most   *)
(* one leads the fetch of a key.                                             *)
OneLeader ==
    \A s, u \in Sessions :
        /\ s # u /\ frame[s].lead /\ frame[u].lead
        /\ frame[s].era = frame[u].era
        /\ {pc[s], pc[u]} \subseteq {"fetch", "stream", "put", "end"}
        => Key(s) # Key(u)

(* A model taken from the gateway's list, in either spelling and with its    *)
(* effort, reaches the upstream as a request it accepts.                     *)
UpstreamAccepts ==
    \A s \in Sessions : pc[s] = "fetch" => Accepts(models, frame[s].body)

(* Every request is served, also a follower's whose leader fails or loses    *)
(* its client; nobody has to wait for the 90 s.                              *)
RequestsEnd ==
    \A s \in Sessions : (pc[s] \notin {"recv", "closed"}) ~> (pc[s] \in {"recv", "closed"})
=============================================================================
