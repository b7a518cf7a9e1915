----------------------------- MODULE MCStartup -----------------------------
(* Files cut anywhere in the last tokens of their last setting, with and    *)
(* without a last newline, for each command line.                          *)
EXTENDS Startup

CONSTANTS red, blue, black, white, home, away, me

MCRegistrations ==
    <<[path |-> <<"common">>, type |-> "branch", value |-> Null],
      [path |-> <<"common", "primary_color">>, type |-> "rgba", value |-> black],
      [path |-> <<"common", "text_color">>, type |-> "rgba", value |-> white]>>

MCIntOf ==
    [n \in {"5", "80", "100", "7000", "65536", "70000"} |->
        CASE n = "5" -> 5 [] n = "80" -> 80 [] n = "100" -> 100 [] n = "7000" -> 7000
          [] n = "65536" -> 65536 [] n = "70000" -> 70000]

MCCommandLines ==
    {<<>>, <<"--config", "--server">>, <<"--verbose", "--server">>, <<"--verbose">>,
     <<"--listen-port">>, <<"--server", "--listen-port", "7000">>,
     <<"--listen-port", "65536", "--server">>,
     <<"--listen-port", "7000", "--listen-port", "x", "--server">>,
     <<"--server", "--config", "x">>}

Option(key, value) == [kind |-> "option", key |-> key, value |-> value]
Server(name, options) == [kind |-> "server", name |-> name, options |-> options]
Theme(branches) == [kind |-> "theme", branches |-> branches]
Raw(tokens) == [kind |-> "raw", tokens |-> tokens]
Common(leaves) == [name |-> "common", leaves |-> leaves]
Leaf(name, colour) == [name |-> name, colour |-> colour]

Host == Option("host", Text(home))
Port == Option("port", Number("5"))

Widths == {Option("nick_width", Number("100")), Option("nick_width", Text(me))}

Servers ==
    {Server(Text(home), o) : o \in
        {<<Host, Port>>, <<Port, Host, Option("nick", Text(me)), Option("host", Text(away))>>,
         <<Port>>, <<Host, Option("nick", Number("5")), Port>>,
         <<Host, Port, Option("nick", Quote)>>, <<Host, Option("port", Text(me))>>}}
    \cup {Server(Number("5"), <<Host, Port>>)}

Themes ==
    {Theme(b) : b \in
        {<<Common(<<Leaf("primary_color", red), Leaf("text_color", blue)>>)>>,
         <<Common(<<Leaf("primary_color", red), Leaf("text_color", blue),
                    Leaf("primary_color", blue), Leaf("text_color", red)>>)>>,
         <<Common(<<Leaf("shadow", red), Leaf("text_color", blue)>>)>>,
         <<Common(<<Leaf("shadow", red)>>), Common(<<Leaf("text_color", blue)>>)>>,
         <<[name |-> "window", leaves |-> <<Leaf("shadow", blue)>>],
           Common(<<Leaf("primary_color", red)>>)>>,
         <<Common(<<Leaf("shadow", red)>>), [name |-> "window", leaves |-> <<Leaf("text_color", blue)>>]>>,
         <<[name |-> "window", leaves |-> <<Leaf("common", red), Leaf("text_color", blue)>>]>>,
         <<Common(<<Leaf("shadow", red), Leaf("frame", red), Leaf("text_color", blue)>>)>>}}

\* As many unknown leaves as tree has room for, and one more.
LongThemes ==
    {Theme(<<Common([i \in 1 .. n |-> Leaf("shadow", red)] \o <<Leaf("text_color", blue)>>)>>) :
        n \in {31, 32}}

\* A leaf without its colour, with one of three digits, at the end of the block and
\* before another leaf, and with a word in its place.
Unpainted ==
    {Raw(<<Word("theme"), Word("{"), Word("common"), Word("{"), Word("text_color")>> \o tokens
            \o <<Word("}"), Word("}")>>) :
        tokens \in {<<>>, <<Short>>, <<Short, Word("primary_color"), Colour(red)>>,
                    <<Word("frame_box"), Word("{"), Word("}"), Word("}"), Word("x")>>}}

Others ==
    {Raw(<<Long>>), Server(Text(home), <<Host, Option("port", Long)>>),
     Raw(<<Word("colour")>>), Raw(<<Word("theme"), Word("x")>>), Raw(<<Word("server"), Text(me)>>),
     Raw(<<Word("theme"), Word("{"), Word("{"), Word("}"), Word("x"), Word("}")>>),
     Raw(<<Word("default_nick")>>), Raw(<<Word("nick_width")>>), Option("listen", Number("70000")),
     Option("listen", Number("80")), Option("listen", Text(me))}

Settings == Widths \cup Servers \cup Themes \cup Unpainted \cup Others

\* Files of one setting, and of a good one and another.
MCFiles ==
    {<<>>} \cup {<<s>> : s \in Settings \cup LongThemes}
        \cup {<<Server(Text(home), <<Host, Port>>), s>> : s \in Widths \cup Servers}
        \cup {<<Theme(<<Common(<<Leaf("shadow", red), Leaf("text_color", blue)>>)>>), s>> :
                s \in Themes \cup Widths}
        \cup {<<Option("listen", Number("80")), s>> : s \in Others}
=============================================================================
