------------------------------- MODULE Escape -------------------------------
(***************************************************************************)
(* Escaping of text for XML and JSON output, as functions from sequences   *)
(* of characters to sequences of characters.  The alphabet has every       *)
(* character that is treated specially and one of each class treated       *)
(* alike: "x" the plain ones, "ctl" the control characters (0x01), "del"   *)
(* 0x7f, "nul" the terminator of a C string.                               *)
(***************************************************************************)
EXTENDS Integers, Sequences, SequencesExt

Char == {"<", "&", ">", "'", "\"", "\\", "tab", "newline", "ctl", "del", "nul", "x"}

\* The two digits of "%02x".
Hex == [nul |-> <<"0", "0">>, ctl |-> <<"0", "1">>, del |-> <<"7", "f">>]

\* What a function that stops at the terminator sees.
CString(s) ==
    LET ends == {i \in 1..Len(s) : s[i] = "nul"} IN
    IF ends = {} THEN s ELSE SubSeq(s, 1, (CHOOSE i \in ends : \A j \in ends : i <= j) - 1)

Each(s, f(_)) == FlattenSeq([i \in 1..Len(s) |-> f(s[i])])

-----------------------------------------------------------------------------
(* XML *)

\* The escaper that leaves ampersands as they are.
xml_char_keeps_ampersand(c) ==
    CASE c = "<"  -> <<"&", "l", "t", ";">>
      [] c = ">"  -> <<"&", "g", "t", ";">>
      [] c = "'"  -> <<"&", "a", "p", "o", "s", ";">>
      [] c = "\"" -> <<"&", "q", "u", "o", "t", ";">>
      [] c \in DOMAIN Hex -> <<"&", "#", "x">> \o Hex[c] \o <<";">>
      [] OTHER -> <<c>>

\* The body of the loops: five named entities, control characters in
\* hexadecimal except tab and newline, anything else as it is.
xml_char(c) ==
    CASE c = "<"  -> <<"&", "l", "t", ";">>
      [] c = "&"  -> <<"&", "a", "m", "p", ";">>
      [] c = ">"  -> <<"&", "g", "t", ";">>
      [] c = "'"  -> <<"&", "a", "p", "o", "s", ";">>
      [] c = "\"" -> <<"&", "q", "u", "o", "t", ";">>
      [] c \in DOMAIN Hex -> <<"&", "#", "x">> \o Hex[c] \o <<";">>
      [] OTHER -> <<c>>

\* operator<< of xml_stream_escaper, and escape_xml_attr into a buffer that the
\* caller sized with escape_xml_attr_len.
xml_stream_escaper(s) == Each(s, xml_char)
escape_xml_attr(s) == Each(CString(s), xml_char) \o <<"nul">>
escape_xml_attr_len(s) ==
    LET size(n, c) == n + CASE c \in {"<", ">"} -> 4 [] c = "&" -> 5 [] c \in {"'", "\""} -> 6
                            [] c \in {"ctl", "del"} -> 6 [] OTHER -> 1
    IN  FoldLeft(size, 0, CString(s)) + 1

-----------------------------------------------------------------------------
(* JSON *)

json_char(c) ==
    CASE c = "\"" -> <<"\\", "\"">>
      [] c = "\\" -> <<"\\", "\\">>
      [] c = "tab" -> <<"\\", "t">>
      [] c = "newline" -> <<"\\", "n">>
      [] c \in DOMAIN Hex -> <<"\\", "u", "0", "0">> \o Hex[c]
      [] OTHER -> <<c>>

json_stream_escaper(s) == Each(s, json_char)
escape_json_attr(s) == Each(s, json_char) \o <<"nul">>
escape_json_attr_len(s) ==
    LET size(n, c) == n + CASE c \in {"\"", "\\", "tab", "newline"} -> 2
                            [] c \in {"nul", "ctl", "del"} -> 6 [] OTHER -> 1
    IN  FoldLeft(size, 0, s) + 1

-----------------------------------------------------------------------------
(* What a reader of the output does, the reference for the escapers. *)

FromHex(digits) == CHOOSE c \in DOMAIN Hex : Hex[c] = digits
Drop(s, n) == SubSeq(s, n + 1, Len(s))

\* Entities are read from "&" to the next ";"; "<" and a stray "&" are errors.
Entity(name) ==
    CASE name = <<"l", "t">> -> "<" [] name = <<"g", "t">> -> ">"
      [] name = <<"a", "m", "p">> -> "&"
      [] name = <<"a", "p", "o", "s">> -> "'" [] name = <<"q", "u", "o", "t">> -> "\""
      [] Len(name) = 4 /\ SubSeq(name, 1, 2) = <<"#", "x">> -> FromHex(Drop(name, 2))
      [] OTHER -> "error"

ReadXml(s) ==
    LET read(r, c) ==
            CASE r.in /\ c = ";" -> [text |-> Append(r.text, Entity(r.name)), in |-> FALSE, name |-> <<>>]
              [] r.in /\ c # ";" -> [r EXCEPT !.name = Append(@, c)]
              [] ~r.in /\ c = "&" -> [r EXCEPT !.in = TRUE]
              [] OTHER -> [r EXCEPT !.text = Append(@, IF c = "<" THEN "error" ELSE c)]
        end == FoldLeft(read, [text |-> <<>>, in |-> FALSE, name |-> <<>>], s)
    IN  IF end.in THEN <<"error">> ELSE end.text

\* Escapes are read from "\" on, two or six characters long; a quote and a
\* control character inside a string are errors.
JsonEscape(e) ==
    CASE e[2] \in {"\"", "\\"} -> e[2] [] e[2] = "t" -> "tab" [] e[2] = "n" -> "newline"
      [] e[2] = "u" -> FromHex(SubSeq(e, 5, 6)) [] OTHER -> "error"

ReadJson(s) ==
    LET raw == {"\"", "tab", "newline"} \cup DOMAIN Hex
        read(r, c) ==
            LET e == Append(r.escape, c) IN
            CASE r.escape = <<>> /\ c # "\\" -> [r EXCEPT !.text = Append(@, IF c \in raw THEN "error" ELSE c)]
              [] r.escape # <<>> /\ (e[2] # "u" \/ Len(e) = 6) ->
                    [text |-> Append(r.text, JsonEscape(e)), escape |-> <<>>]
              [] OTHER -> [r EXCEPT !.escape = e]
        end == FoldLeft(read, [text |-> <<>>, escape |-> <<>>], s)
    IN  IF end.escape # <<>> THEN <<"error">> ELSE end.text

\* Escaped text reads back as the text it came from, and the lengths computed
\* for the buffers of the attribute escapers are exactly what those write
\* (escape.cc:36-271).
Readable(s) ==
    /\ ReadXml(xml_stream_escaper(s)) = s
    /\ ReadXml(Front(escape_xml_attr(s))) = CString(s)
    /\ Len(escape_xml_attr(s)) = escape_xml_attr_len(s)
    /\ ReadJson(json_stream_escaper(s)) = s
    /\ ReadJson(Front(escape_json_attr(s))) = s
    /\ Len(escape_json_attr(s)) = escape_json_attr_len(s)

=============================================================================
