--------------------------- MODULE RecordingText ---------------------------
(***************************************************************************)
(* The text form of a session recording: SessionRecording::to_text and     *)
(* from_text of src/src/eventlog.rs.  A line is a record of its keyword,   *)
(* the block it is about and what it says; the payloads of set-sizes,      *)
(* set-settings and the start-tuning events are kept in tables of blocks   *)
(* that the event lines refer to by number.                                *)
(***************************************************************************)
EXTENDS Integers, SequencesExt, FiniteSetsExt

CONSTANT MaxBlock  \* MAX_BLOCK, the largest block number from_text accepts

ASSUME AssumeMaxBlock == MaxBlock \in Nat

Line(keyword, block, says) == [keyword |-> keyword, block |-> block, says |-> says]

(* The table an event's payload goes to.                                   *)
BlockKind(e) == CASE e.call = "set_sizes"    -> "sizes"
                  [] e.call = "set_settings" -> "settings"
                  [] e.call = "start_tuning" -> "meander"
                  [] OTHER -> "none"

OfKind(events, kind) == SelectSeq(events, LAMBDA e : BlockKind(e) = kind)

(* Block 0 of the sizes and the settings is what the router was built      *)
(* with; the meander blocks start with the first event.                    *)
Table(rec, kind) ==
    LET payloads == [i \in DOMAIN OfKind(rec.events, kind) |-> OfKind(rec.events, kind)[i].value]
    IN  CASE kind = "sizes"    -> <<rec.sizes>> \o payloads
          [] kind = "settings" -> <<rec.settings>> \o payloads
          [] kind = "meander"  -> payloads

BlockLines(rec, kind) ==
    [b \in DOMAIN Table(rec, kind) |-> Line(kind, b - 1, Table(rec, kind)[b])]

(* Mutant of BlockOf: the meander counter advances before the event.       *)
BlockOfEarly(events, i) ==
    IF BlockKind(events[i]) = "none" THEN 0
    ELSE Len(OfKind(SubSeq(events, 1, i), BlockKind(events[i])))

(* The block number the writer counts up to at event i.                    *)
BlockOf(events, i) ==
    LET n == Len(OfKind(SubSeq(events, 1, i), BlockKind(events[i])))
    IN  CASE BlockKind(events[i]) = "none" -> 0
          [] BlockKind(events[i]) = "meander" -> n - 1
          [] OTHER -> n

Blank(e) == IF BlockKind(e) = "none" THEN e ELSE [e EXCEPT !.value = 0]

EventLines(events) ==
    [i \in DOMAIN events |-> Line("event", BlockOf(events, i), Blank(events[i]))]

(* A commit is a line of its own, what it added and updated follows.       *)
NoDiff == [added |-> <<>>, updated |-> <<>>]
DiffLines(diff) ==
    <<Line("commit", 0, <<>>)>>
      \o [i \in DOMAIN diff.added |-> Line("added", 0, diff.added[i])]
      \o [i \in DOMAIN diff.updated |-> Line("updated", 0, diff.updated[i])]

(* SessionRecording::to_text *)
ToText(rec) ==
    BlockLines(rec, "settings") \o BlockLines(rec, "sizes") \o BlockLines(rec, "meander")
      \o EventLines(rec.events)
      \o FlattenSeq([i \in DOMAIN rec.results |-> DiffLines(rec.results[i])])
----------------------------------------------------------------------------
With(text, keyword) == SelectSeq(text, LAMBDA l : l.keyword = keyword)

(* parse_recording and resolve_block: a block may be defined anywhere in   *)
(* the file, an undefined or too large one is an error.                    *)
Defined(text, keyword, block) ==
    \E l \in ToSet(With(text, keyword)) : l.block = block

Block(text, keyword, block) ==
    (CHOOSE l \in ToSet(With(text, keyword)) : l.block = block).says

(* commit_at: a line of a commit goes to the last one begun.               *)
Gathered(results, l) ==
    LET last == Len(results)
    IN  CASE l.keyword = "commit"  -> Append(results, NoDiff)
          [] l.keyword = "added"   -> [results EXCEPT ![last].added = Append(@, l.says)]
          [] l.keyword = "updated" -> [results EXCEPT ![last].updated = Append(@, l.says)]
          [] OTHER -> results

Readable(text) ==
    /\ \A l \in ToSet(text) : l.keyword \in {"settings", "sizes", "meander", "event"}
                               => l.block <= MaxBlock
    /\ \A l \in ToSet(With(text, "event")) :
         BlockKind(l.says) # "none" => Defined(text, BlockKind(l.says), l.block)
    /\ \A i \in DOMAIN text : text[i].keyword \in {"added", "updated"}
                               => \E j \in 1 .. i : text[j].keyword = "commit"

FromText(text) ==
    LET events == With(text, "event")
        Resolved(l) == IF BlockKind(l.says) = "none" THEN l.says
                       ELSE [l.says EXCEPT !.value = Block(text, BlockKind(l.says), l.block)]
    IN  [settings |-> Block(text, "settings", 0),
         sizes    |-> Block(text, "sizes", 0),
         events   |-> [i \in DOMAIN events |-> Resolved(events[i])],
         results  |-> FoldLeft(Gathered, <<>>, text)]
=============================================================================
