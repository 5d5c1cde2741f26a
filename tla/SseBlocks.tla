----------------------------- MODULE SseBlocks -----------------------------
(***************************************************************************)
(* _iter_sse_data_strings: the data of the events of a text/event-stream,  *)
(* read in chunks of any size.  A stream is a sequence of symbols: "cr",   *)
(* "lf", a data line (a member of Data, its type) or "other", any other    *)
(* line.  The message of an event is the sequence of its data lines.       *)
(* "part" is the completion of a part of an answer                         *)
(* (response.web_search_call.completed), "completed" that of the answer.   *)
(***************************************************************************)
EXTENDS Naturals, Sequences, FiniteSets, SequencesExt, FiniteSetsExt

Data == {"delta", "part", "completed", "failed"}
Symbols == Data \cup {"cr", "lf", "other"}

(* The data lines of a block, and its message, if it has one. *)
DataLines(block) ==
    FlattenSeq([i \in DOMAIN block |-> IF block[i] \in Data THEN <<block[i]>> ELSE <<>>])

Message(block) == IF DataLines(block) = <<>> THEN <<>> ELSE <<DataLines(block)>>

(* Where the text has a blank line. *)
Blank == {<<"lf", "lf">>, <<"cr", "lf", "cr", "lf">>}

Breaks(q) == {i \in DOMAIN q : \E sep \in Blank : IsPrefix(sep, SubSeq(q, i, Len(q)))}

(* The block before the blank line at i, and what follows that. *)
Block(buf, i) == SubSeq(buf, 1, i - 1)

(* A faulty variant: what the chunk brought of the next block goes as well. *)
NothingLeft(buf, i) == <<>>

Rest(buf, i) == SubSeq(buf, i + (IF buf[i] = "lf" THEN 2 ELSE 4), Len(buf))

-----------------------------------------------------------------------------
(* The reference, for the text as a whole: every blank line ends an event,   *)
(* whose message is the data lines since the blank line before it.           *)
Events(q) ==
    LET blanks == Breaks(q)
        since(b) == Max({1} \cup {p \in blanks : p < b})
    IN  FlattenSeq([b \in DOMAIN q |->
            IF b \in blanks THEN Message(SubSeq(q, since(b), b - 1)) ELSE <<>>])
=============================================================================
