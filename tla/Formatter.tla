----------------------------- MODULE Formatter -----------------------------
(***************************************************************************)
(* JSONFormatter, XMLFormatter and TableFormatter behind the Formatter     *)
(* interface.  A client opens and closes sections, dumps values, writes    *)
(* to the stream dump_stream hands out, flushes and resets, in any order   *)
(* that nests.  Text is output as tokens: brackets, commas, keys, tags and *)
(* escaped values.  Indentation, line breaks and rulers are left out.      *)
(*                                                                         *)
(* The members of the object are the record f, and every method a function *)
(* from the object to the object it leaves; members only one of the        *)
(* classes has keep their initial value in the others.                     *)
(***************************************************************************)
EXTENDS Escape

CONSTANTS
    Folded,      \* what to_lower_underscore makes of each name
    SectionCall, \* sections a client opens: records [name, what, deco]
    DumpCall,    \* values a client dumps: records [how, name, deco, text]
    LargeSize,   \* LARGE_SIZE, the buffer of dump_format_va
    MaxEscaped,  \* bound on the length of the texts escaped by themselves
    MaxCalls     \* bound on the number of calls of a behaviour

Kind == {"json", "xml", "table-kv"}

VARIABLES
    f,       \* the formatter
    out,     \* what has been flushed since the last reset
    asked,   \* history: the calls made since the last reset
    stale,   \* history: a reset left something of the document before it
    escaped, \* the text last passed to the escapers by themselves
    calls    \* number of calls made

vars == <<f, out, asked, stale, escaped, calls>>

\* Formatter::create and the constructors.  m_stack is m_stack of JSON,
\* m_sections of XML and m_section of table; pending with name and text is
\* m_is_pending_string, m_pending_name and m_pending_string of JSON, a
\* non-empty m_pending_string_name of XML and m_pending_name of table.
create(kind) ==
    [kind |-> kind, ss |-> <<>>, stack |-> <<>>, pending |-> FALSE, name |-> "", text |-> <<>>,
     header |-> FALSE, vec |-> <<>>, cnt |-> [k \in {} |-> 0], open |-> 0, broken |-> FALSE]

Put(s, tokens) == [s EXCEPT !.ss = @ \o tokens]
Pop(s) == [s EXCEPT !.stack = Front(@)]
Dropped(s) == [s EXCEPT !.pending = FALSE, !.text = <<>>]

-----------------------------------------------------------------------------
(* JSONFormatter *)

\* A comma before every element of a section but the first.
print_comma(s) == IF Last(s.stack).size > 0 THEN Put(s, << <<",">> >>) ELSE s

\* print_name after its finish_pending_string: nothing at the top, a key in an
\* object, and the section counts the element.
json_name(s, n, deco) ==
    IF s.stack = <<>> THEN s
    ELSE LET key == IF Last(s.stack).is_array THEN <<>> ELSE << <<"key", n, deco>> >>
         IN  [Put(print_comma(s), key) EXCEPT !.stack[Len(s.stack)].size = @ + 1]

json_value(s, n, quoted, text) ==
    Put(json_name(s, n, ""),
        << IF quoted THEN <<"str", json_stream_escaper(text)>> ELSE <<"num", text>> >>)

\* finish_pending_string: the stream's text becomes a string value.
json_finish(s) ==
    IF s.pending THEN json_value(Dropped(s), s.name, TRUE, s.text) ELSE s

json_add_value(s, n, quoted, text) == json_value(json_finish(s), n, quoted, text)

json_open_section(s, n, deco, is_array) ==
    LET named == json_name(json_finish(s), n, deco)
        opened == Put(named, << IF is_array THEN <<"[">> ELSE <<"{">> >>)
    IN  [opened EXCEPT !.stack = Append(@, [name |-> n, is_array |-> is_array, size |-> 0])]

\* close_section without its finish_pending_string.
json_close_section_unfinished(s) ==
    Pop(Put(s, << IF Last(s.stack).is_array THEN <<"]">> ELSE <<"}">> >>))
json_close_section(s) ==
    LET done == json_finish(s)
    IN  Pop(Put(done, << IF Last(done.stack).is_array THEN <<"]">> ELSE <<"}">> >>))

json_dump_stream(s, n) == [json_finish(s) EXCEPT !.pending = TRUE, !.name = n]

\* reset leaves m_is_pending_string and m_pending_name.
json_reset(s) == [s EXCEPT !.stack = <<>>, !.ss = <<>>, !.text = <<>>]

-----------------------------------------------------------------------------
(* XMLFormatter *)

Tag(n, deco) == << <<"<", n, deco>> >>
EndTag(n) == << <<"</", n>> >>
Escaped(text) == << <<"text", xml_stream_escaper(text)>> >>

\* finish_pending_string, the first thing print_spaces does.
xml_finish(s) ==
    IF s.pending THEN Put(Dropped(s), Escaped(s.text) \o EndTag(s.name)) ELSE s

\* add_value, dump_string, dump_string_with_attrs, dump_format_va.
xml_value(s, n, deco, text) ==
    Put(xml_finish(s), Tag(Folded[n], deco) \o Escaped(text) \o EndTag(Folded[n]))

\* The section is remembered by its own name, the tags have the folded one.
xml_open_section(s, n, deco) ==
    [Put(xml_finish(s), Tag(Folded[n], deco)) EXCEPT
        !.stack = Append(@, [name |-> n, is_array |-> FALSE, size |-> 0])]
xml_close_section(s) ==
    LET done == xml_finish(s) IN Pop(Put(done, EndTag(Folded[Last(done.stack).name])))

\* The tag is written at once, the text and the end tag when it is finished.
xml_dump_stream(s, n) ==
    [Put(xml_finish(s), Tag(n, "")) EXCEPT !.pending = TRUE, !.name = n]

\* output_header writes the declaration once, whatever is pending; output_footer
\* closes what is open.
output_header(s) == IF s.header THEN s ELSE [Put(s, << <<"<?xml">> >>) EXCEPT !.header = TRUE]
output_footer(s) == FoldLeft(LAMBDA r, e : xml_close_section(r), s, s.stack)

xml_reset(s) == [Dropped(s) EXCEPT !.stack = <<>>, !.ss = <<>>, !.header = FALSE]

-----------------------------------------------------------------------------
(* TableFormatter with key-value output *)

Column(path, n) == [path |-> path, name |-> n]
Count(s, column) == IF column \in DOMAIN s.cnt THEN s.cnt[column] ELSE 0
SetCount(s, column, k) ==
    [s EXCEPT !.cnt = [c \in DOMAIN s.cnt \cup {column} |-> IF c = column THEN k ELSE s.cnt[c]]]

\* get_section_name: the innermost section first, numbered while one is open.
SectionName(s, n) ==
    LET path == Reverse([i \in 1..Len(s.stack) |-> s.stack[i].name])
        column == Column(path, n)
    IN  [column |-> column, number |-> IF s.open = 0 THEN -1 ELSE Count(s, column)]

\* m_vec_index: a new row when the first column's key is repeated.
RowFor(s, n) ==
    LET plain == [column |-> Column(<<>>, n), number |-> -1] IN
    IF s.vec = <<>> THEN << <<>> >>
    ELSE IF Last(s.vec) # <<>> /\ Last(s.vec)[1].name = plain THEN Append(s.vec, <<>>)
    ELSE s.vec

\* dump_string and its kin once nothing is pending.
table_push(s, n, deco, text) ==
    LET rows == RowFor(s, n)
        named == SectionName(s, n)
        cell == [name |-> named, deco |-> deco, text |-> text]
        pushed == [s EXCEPT !.vec = [rows EXCEPT ![Len(rows)] = Append(@, cell)]]
    IN  IF s.open = 0 THEN pushed ELSE SetCount(pushed, named.column, named.number + 1)

table_finish(s) == IF s.pending THEN table_push(Dropped(s), s.name, "", s.text) ELSE s
table_value(s, n, deco, text) == table_push(table_finish(s), n, deco, text)

\* Sections do not finish a pending string.
table_open_section(s, n) ==
    [s EXCEPT !.stack = Append(@, [name |-> n, is_array |-> FALSE, size |-> 0]), !.open = @ + 1]
table_close_section(s) ==
    LET closed == [s EXCEPT !.open = @ - 1] IN
    IF s.stack = <<>> THEN closed
    ELSE Pop(SetCount(closed, Column(<<>>, Last(s.stack).name), 0))

table_dump_stream(s, n) == [table_finish(s) EXCEPT !.pending = TRUE, !.name = n]

\* Sizing the columns reads row i - 1 at every column of row i, and writes
\* column_name[i] of a vector that has row i's length: both need that many.
Overruns(vec) ==
    \E i \in 2..Len(vec) : \E j \in 1..Len(vec[i]) :
        \/ j > Len(vec[i - 1])
        \/ vec[i - 1][j] # vec[i][j] /\ i > Len(vec[i])

\* reset leaves m_vec, m_section and m_pending_name.
table_reset(s) == [s EXCEPT !.ss = <<>>, !.text = <<>>, !.cnt = [k \in {} |-> 0], !.open = 0]

-----------------------------------------------------------------------------
(* The client *)

Init ==
    /\ f \in {create(k) : k \in Kind}
    /\ out = <<>> /\ asked = <<>> /\ stale = FALSE /\ escaped = <<>> /\ calls = 0

Call == ~f.broken /\ calls < MaxCalls /\ calls' = calls + 1 /\ UNCHANGED escaped
Asked(what, n, deco, text) ==
    asked' = Append(asked, [what |-> what, name |-> n, deco |-> deco, text |-> text])

\* The sections the client has open, outermost first.
Opened ==
    LET step(open, c) == CASE c.what \in {"array", "object"} -> Append(open, c)
                           [] c.what = "close" -> Front(open)
                           [] OTHER -> open
    IN  FoldLeft(step, <<>>, asked)

\* A document of JSON and XML has one root section, and values only inside it.
MayOpen == f.kind = "table-kv" \/ Opened # <<>> \/ asked = <<>>
MayDump == f.kind = "table-kv" \/ Opened # <<>>

\* open_array_section, open_object_section, with a name space or attributes.
open_section(n, what, deco) ==
    /\ Call /\ MayOpen
    /\ f' = CASE f.kind = "json" -> json_open_section(f, n, IF deco = "ns" THEN deco ELSE "", what = "array")
              [] f.kind = "xml" -> xml_open_section(f, n, deco)
              [] OTHER -> table_open_section(f, n)
    /\ Asked(what, n, deco, <<>>)
    /\ UNCHANGED <<out, stale>>

close_section ==
    /\ Call /\ Opened # <<>>
    /\ f' = CASE f.kind = "json" -> json_close_section(f)
              [] f.kind = "xml" -> xml_close_section(f)
              [] OTHER -> table_close_section(f)
    /\ Asked("close", Last(Opened).name, "", <<>>)
    /\ UNCHANGED <<out, stale>>

Value(n, quoted, deco, text) ==
    /\ f' = CASE f.kind = "json" -> json_add_value(f, n, quoted, text)
              [] f.kind = "xml" -> xml_value(f, n, deco, text)
              [] OTHER -> table_value(f, n, deco, text)
    /\ Asked(IF quoted THEN "string" ELSE "number", n, deco, text)
    /\ UNCHANGED <<out, stale>>

dump_unsigned(n, deco, text) == Call /\ MayDump /\ Value(n, FALSE, deco, text)
dump_string(n, deco, text) == Call /\ MayDump /\ Value(n, TRUE, deco, text)

\* What vsnprintf leaves of a text in the buffer.
Cut(text) == SubSeq(text, 1, IF Len(text) < LargeSize THEN Len(text) ELSE LargeSize - 1)

\* dump_format, dump_format_ns and dump_format_unquoted: JSON and table print
\* the buffer; XML prints as much of it as the whole text
\* is long, past its end when that does not fit.
dump_format(n, deco, text) ==
    /\ Call /\ MayDump
    /\ IF f.kind = "xml" /\ Len(text) >= LargeSize
       THEN f' = [f EXCEPT !.broken = TRUE] /\ UNCHANGED <<out, asked, stale>>
       ELSE Value(n, TRUE, deco, Cut(text))

\* dump_stream, and the client's << to the stream until its next call.
dump_stream(n, text) ==
    /\ Call /\ MayDump
    /\ LET s == CASE f.kind = "json" -> json_dump_stream(f, n)
                  [] f.kind = "xml" -> xml_dump_stream(f, n)
                  [] OTHER -> table_dump_stream(f, n)
       IN  f' = [s EXCEPT !.text = @ \o text]
    /\ Asked("stream", n, "", text)
    /\ UNCHANGED <<out, stale>>

finish_pending_string(s) ==
    CASE s.kind = "json" -> json_finish(s) [] s.kind = "xml" -> xml_finish(s) [] OTHER -> table_finish(s)

\* What a formatter with nothing pending prints when it is flushed.
Printed(s) == IF s.kind = "table-kv" THEN FlattenSeq(s.vec) ELSE s.ss

flush ==
    /\ Call
    /\ LET s == finish_pending_string(f) IN
       IF Overruns(s.vec)
       THEN f' = [f EXCEPT !.broken = TRUE] /\ UNCHANGED out
       ELSE /\ out' = out \o Printed(s)
            /\ f' = [s EXCEPT !.ss = <<>>, !.vec = <<>>]
    /\ UNCHANGED <<asked, stale>>

\* A reset starts another document.
reset ==
    /\ Call
    /\ f' = CASE f.kind = "json" -> json_reset(f) [] f.kind = "xml" -> xml_reset(f) [] OTHER -> table_reset(f)
    /\ out' = <<>> /\ asked' = <<>>
    /\ stale' = (f'.pending \/ f'.stack # <<>> \/ f'.vec # <<>>)

header == Call /\ f.kind = "xml" /\ asked = <<>> /\ f' = output_header(f) /\ UNCHANGED <<out, asked, stale>>

footer ==
    /\ Call /\ f.kind = "xml"
    /\ f' = output_footer(f)
    /\ asked' = asked \o [i \in 1..Len(Opened) |->
                            [what |-> "close", name |-> Reverse(Opened)[i].name, deco |-> "", text |-> <<>>]]
    /\ UNCHANGED <<out, stale>>

\* The escapers are also called by themselves, on any text.
escape(text) == calls = 0 /\ calls' = MaxCalls /\ escaped' = text /\ UNCHANGED <<f, out, asked, stale>>

Stop == (f.broken \/ calls = MaxCalls) /\ UNCHANGED vars

Next ==
    \/ \E c \in SectionCall : open_section(c.name, c.what, c.deco)
    \/ \E c \in DumpCall :
        \/ c.how = "number" /\ dump_unsigned(c.name, c.deco, c.text)
        \/ c.how = "string" /\ dump_string(c.name, c.deco, c.text)
        \/ c.how = "format" /\ dump_format(c.name, c.deco, c.text)
        \/ c.how = "stream" /\ dump_stream(c.name, c.text)
    \/ close_section \/ flush \/ reset \/ header \/ footer
    \/ \E text \in BoundedSeq(Char, MaxEscaped) : escape(text)
    \/ Stop

Spec == Init /\ [][Next]_vars

-----------------------------------------------------------------------------
(* What a reader makes of the output, the reference for the formatters. *)

\* A JSON reader: the grammar's rules on what may follow what, and the values
\* with their keys ("" where there is none).
ReadJsonTokens(tokens) ==
    LET event(k, what, text) == [what |-> what, key |-> k, text |-> text]
        top(r) == IF r.stack = <<>> THEN "none" ELSE Last(r.stack)
        mayStart(r) == CASE top(r) = "none" -> r.prev = "start"
                         [] top(r) = "[" -> r.prev \in {"[", ","}
                         [] OTHER -> r.prev = "key"
        key(r) == IF r.prev = "key" THEN r.key ELSE <<"", "">>
        read(r, t) ==
            CASE t[1] = "," -> [r EXCEPT !.ok = @ /\ r.prev \in {"value"} /\ top(r) # "none", !.prev = ","]
              [] t[1] = "key" -> [r EXCEPT !.ok = @ /\ top(r) = "{" /\ r.prev \in {"{", ","},
                                           !.prev = "key", !.key = <<t[2], t[3]>>]
              [] t[1] \in {"{", "["} -> [r EXCEPT !.ok = @ /\ mayStart(r), !.prev = t[1],
                                                  !.stack = Append(@, t[1]),
                                                  !.events = Append(@, event(key(r), t[1], <<>>))]
              [] t[1] \in {"}", "]"} -> [r EXCEPT !.ok = @ /\ <<top(r), t[1]>> \in {<<"{", "}">>, <<"[", "]">>}
                                                          /\ r.prev \in {top(r), "value"},
                                                  !.prev = "value", !.stack = Front(@),
                                                  !.events = Append(@, event(<<"", "">>, "close", <<>>))]
              [] OTHER -> [r EXCEPT !.ok = @ /\ mayStart(r), !.prev = "value",
                                    !.events = Append(@, event(key(r), "value",
                                        IF t[1] = "str" THEN ReadJson(t[2]) ELSE t[2]))]
    IN  FoldLeft(read, [ok |-> TRUE, prev |-> "start", key |-> <<"", "">>, stack |-> <<>>, events |-> <<>>], tokens)

\* The same events from the calls: keys inside objects only, and a name space
\* only in the key of a section.
AskedOfJson ==
    LET add(r, c) ==
            LET inObject == r.open # <<>> /\ Last(r.open) = "object"
                section == c.what \in {"array", "object"}
                key == IF ~inObject \/ c.what = "close" THEN <<"", "">>
                       ELSE <<c.name, IF section /\ c.deco = "ns" THEN "ns" ELSE "">>
                what == CASE c.what = "array" -> "[" [] c.what = "object" -> "{"
                          [] c.what = "close" -> "close" [] OTHER -> "value"
            IN  [open |-> CASE section -> Append(r.open, c.what) [] c.what = "close" -> Front(r.open) [] OTHER -> r.open,
                 events |-> Append(r.events, [what |-> what, key |-> key, text |-> c.text])]
    IN  FoldLeft(add, [open |-> <<>>, events |-> <<>>], asked).events

\* The tags and texts an XML reader has to see.
AskedOfXml ==
    LET tags(c) ==
            LET n == IF c.what = "stream" THEN c.name ELSE Folded[c.name] IN
            CASE c.what \in {"array", "object"} -> Tag(n, c.deco)
              [] c.what = "close" -> EndTag(n)
              [] OTHER -> Tag(n, c.deco) \o << <<"text", c.text>> >> \o EndTag(n)
    IN  FlattenSeq([i \in 1..Len(asked) |-> tags(asked[i])])

\* A flush at any time prints, after what has been flushed before, a document
\* that reads back as exactly the calls since the last reset: brackets, commas,
\* keys and tags where they belong, every value once, in order, with its name,
\* the text of a stream included even when a section is closed or the output is
\* flushed before the stream is finished.  It holds unless a reset left part of
\* the document before it (JSON and table: formatter.cc:142-148, 589-595).
OutputFaithful ==
    ~stale /\ ~f.broken =>
        LET printed == out \o Printed(finish_pending_string(f)) IN
        CASE f.kind = "json" ->
                LET read == ReadJsonTokens(printed) IN read.ok /\ read.events = AskedOfJson
          [] f.kind = "xml" ->
                LET body == SelectSeq(printed, LAMBDA t : t[1] # "<?xml") IN
                /\ [i \in 1..Len(body) |-> IF body[i][1] = "text" THEN <<"text", ReadXml(body[i][2])>>
                                           ELSE body[i]] = AskedOfXml
                /\ \A i \in 2..Len(printed) : printed[i][1] # "<?xml"
          [] OTHER ->
                LET values == SelectSeq(asked, LAMBDA c : c.what \in {"string", "number", "stream"}) IN
                /\ Len(printed) = Len(values)
                /\ \A i \in 1..Len(values) :
                    /\ printed[i].name.column.name = values[i].name
                    /\ printed[i].deco = values[i].deco /\ printed[i].text = values[i].text

\* A text that was escaped reads back as it was, and the attribute escapers fill
\* exactly the buffer their length functions ask for (escape.cc:36-271).
EscapesReadBack == Readable(escaped)

\* Refuted: a reset leaves nothing of the document before it.
ResetForgets == ~stale

\* Refuted: no flush and no format reads or writes outside its buffers.
StaysInBounds == ~f.broken

=============================================================================
