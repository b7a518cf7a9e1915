---------------------------- MODULE ConfigFile ----------------------------
(***************************************************************************)
(* What a configuration file is to its author: a sequence of settings, and *)
(* the tokens they are written with, each followed by one character of     *)
(* white space (docs/ircreborn.tex:34-127).  The parsers see the tokens only; Intended *)
(* says what they should make of them.                                     *)
(***************************************************************************)
EXTENDS ThemeTree

CONSTANTS
    Registrations,  \* path, type and default of the nodes client_main registers
    IntOf           \* what sscanf("%i") makes of the strings that are numbers

Word(w)   == [kind |-> "word", value |-> w]
Text(s)   == [kind |-> "string", value |-> s]
Number(n) == [kind |-> "number", value |-> n]
Colour(c) == [kind |-> "colour", value |-> c]
Short     == [kind |-> "short", value |-> Null]  \* a colour of three digits
Quote     == [kind |-> "quote", value |-> Null]  \* a string that is never closed
Long      == [kind |-> "long", value |-> Null]   \* a word of more than 238 characters
End       == [kind |-> "end", value |-> Null]

\* The characters of a token: "#RRGGBBAA", "#RGB", a word, or a string in its quotes.
Size(token) ==
    CASE token.kind = "colour"             -> 9
      [] token.kind = "short"              -> 4
      [] token.kind = "long"               -> 239
      [] token.kind \in {"word", "number"} -> Len(token.value)
      [] token.kind \in {"string", "quote"} -> 6
      [] token.kind = "end"                -> 0

IsWord(token, w) == token.kind = "word" /\ token.value = w

Block(inside) == <<Word("{")>> \o FlattenSeq(inside) \o <<Word("}")>>

\* A setting: an option (key, value), a server (name, options), a theme (its
\* branches, each a name and leaves), or tokens that mean nothing.
Written(setting) ==
    CASE setting.kind = "option"  -> <<Word(setting.key), setting.value>>
      [] setting.kind = "server"  ->
            <<Word("server"), setting.name>>
                \o Block([k \in DOMAIN setting.options |->
                            <<Word(setting.options[k].key), setting.options[k].value>>])
      [] setting.kind = "theme"   ->
            <<Word("theme")>>
                \o Block([k \in DOMAIN setting.branches |->
                            <<Word(setting.branches[k].name)>>
                                \o Block([i \in DOMAIN setting.branches[k].leaves |->
                                            <<Word(setting.branches[k].leaves[i].name),
                                              Colour(setting.branches[k].leaves[i].colour)>>])])
      [] setting.kind = "raw"     -> setting.tokens

Tokens(settings) == FlattenSeq([k \in DOMAIN settings |-> Written(settings[k])])

-----------------------------------------------------------------------------
(* What the settings mean                                                  *)

OfKind(settings, kind) == SelectSeq(settings, LAMBDA s : s.kind = kind)

\* The value of the last option with this key.
LastOption(options, key, default) ==
    FoldLeft(LAMBDA v, o : IF o.key = key THEN o.value.value ELSE v, default, options)

LastNumber(options, key, default) ==
    LET last == LastOption(options, key, Null)
    IN IF last = Null THEN default ELSE IntOf[last]

Leaves(settings) ==
    FlattenSeq([k \in DOMAIN OfKind(settings, "theme") |->
        LET branches == OfKind(settings, "theme")[k].branches
        IN FlattenSeq([j \in DOMAIN branches |->
            [i \in DOMAIN branches[j].leaves |->
                [path |-> <<branches[j].name, branches[j].leaves[i].name>>,
                 colour |-> branches[j].leaves[i].colour]]])])

LeafRegistrations == {r \in Range(Registrations) : r.type = "rgba"}
LeafPaths == {r.path : r \in LeafRegistrations}
DefaultColour(path) == (CHOOSE r \in LeafRegistrations : r.path = path).value

Intended(settings) ==
    [nickname_width |-> LastNumber(OfKind(settings, "option"), "nick_width", 320),
     servers |-> [k \in DOMAIN OfKind(settings, "server") |->
        LET s == OfKind(settings, "server")[k]
        IN [name |-> s.name.value,
            host |-> LastOption(s.options, "host", Garbage),
            port |-> LastNumber(s.options, "port", Garbage),
            nick |-> LastOption(s.options, "nick", Null)]],
     colours |-> [p \in LeafPaths |->
        FoldLeft(LAMBDA c, l : IF l.path = p THEN l.colour ELSE c,
                 DefaultColour(p), Leaves(settings))]]

UnknownLeaves(settings) ==
    Len(SelectSeq(Leaves(settings), LAMBDA l : l.path \notin LeafPaths))
=============================================================================
