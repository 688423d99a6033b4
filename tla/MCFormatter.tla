---------------------------- MODULE MCFormatter ----------------------------
(* Constants for model checking Formatter. *)
EXTENDS Formatter

\* A name that to_lower_underscore changes, and one that it leaves alone.
MCFolded == [A |-> "a", b |-> "b"]

MCSections ==
    {[name |-> "A", what |-> "array", deco |-> ""],
     [name |-> "b", what |-> "object", deco |-> "ns"],
     [name |-> "A", what |-> "object", deco |-> "attrs"]}

\* Texts that need escaping, and one that does not fit the buffer of dump_format.
MCDumps ==
    {[how |-> "number", name |-> "b", deco |-> "", text |-> <<"7">>],
     [how |-> "string", name |-> "A", deco |-> "attrs", text |-> <<"&", "\"">>],
     [how |-> "format", name |-> "b", deco |-> "ns", text |-> <<"x">>],
     [how |-> "format", name |-> "A", deco |-> "", text |-> <<"x", "<", "x">>],
     [how |-> "stream", name |-> "A", deco |-> "", text |-> <<"\\", "ctl">>]}

=============================================================================
