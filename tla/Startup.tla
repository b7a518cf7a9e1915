------------------------------ MODULE Startup ------------------------------
(***************************************************************************)
(* From the command line to a running client or a listening server: the    *)
(* arguments, the registration of the theme, the two configuration         *)
(* parsers, the colours looked up for the widgets, and the memory given    *)
(* back when the client ends.  A loop that no longer ends is the mode      *)
(* "hung"; a wild pointer or a double free is "crashed", a write over what  *)
(* malloc keeps before or behind a block "corrupted", and neither goes on. *)
(***************************************************************************)
EXTENDS ConfigFile

CONSTANTS
    TreeSize,      \* names the theme parser has room for (64 in config.cc)
    CommandLines,  \* the argv[1..] to start with
    Files,         \* the settings a file may be written from
    MaxCut         \* bound: tokens of its last setting that a file may lack

VARIABLES
    argv, arg,     \* the command line and the argument to look at next
    args,          \* the args_* variables
    settings,      \* what the author of the file meant
    file,          \* its tokens and whether white space follows the last
    pos,           \* parse_pos: the next token
    heap,          \* the theme nodes
    registered,    \* how many nodes client_main has registered
    config,        \* client_config_t or server_config_t
    server,        \* the server block being read
    block,         \* tree, tree_pos and depth of the theme block being read, and
                   \* whether parse_pos has passed the beginning of the token at pos
    colours,       \* what the widgets got
    overruns,      \* the blocks of memory written outside of so far
    mode           \* where the program is

vars == <<argv, arg, args, settings, file, pos, heap, registered, config, server, block,
          colours, overruns, mode>>
input   == <<argv, arg, args, settings, file, registered, colours>>
outside == <<input, overruns>>

Ended == {"running", "listening", "exited", "died", "crashed", "corrupted", "hung"}

NoBlock  == [tree |-> <<>>, tree_pos |-> 0, depth |-> 0, cut |-> FALSE]
NoServer == [name |-> Null, host |-> Null, port |-> Null, nick |-> Null]
NewConfig ==
    [nickname_width |-> 320, servers |-> <<>>, theme |-> 0, listen_port |-> 10010]

\* A file may end anywhere in its last setting, or in the last MaxCut tokens of a
\* long one: where it ends earlier is a file of fewer settings.
Cuts(written) ==
    LET whole == Len(Tokens(written))
        least == IF written = <<>> THEN 0 ELSE Len(Tokens(Front(written)))
    IN Max({least, whole - MaxCut}) .. whole

Init ==
    /\ argv \in CommandLines
    /\ arg = 1
    /\ args = [server |-> FALSE, config_path |-> Null, listen_port |-> 0, verbose |-> FALSE]
    /\ settings \in Files
    /\ \E n \in Cuts(settings), newline \in BOOLEAN :
        file = [tokens |-> SubSeq(Tokens(settings), 1, n), newline |-> newline]
    /\ pos = 1
    /\ heap = theme_tree_init
    /\ registered = 0
    /\ config = NewConfig
    /\ server = NoServer
    /\ block = NoBlock
    /\ colours = <<>>
    /\ overruns = {}
    /\ mode = "arguments"

-----------------------------------------------------------------------------
(* parse_args                                                              *)

\* An option with a value takes the next argument; argv[argc] is null.
Value == IF arg < Len(argv) THEN argv[arg + 1] ELSE Null

ParseArgument ==
    /\ mode = "arguments"
    /\ arg <= Len(argv)
    /\ args' = CASE argv[arg] = "--server" -> [args EXCEPT !.server = TRUE]
                 [] argv[arg] = "--verbose" -> [args EXCEPT !.verbose = TRUE]
                 [] argv[arg] = "--config" -> [args EXCEPT !.config_path = Value]
                 [] argv[arg] = "--listen-port" /\ Value \in DOMAIN IntOf ->
                        [args EXCEPT !.listen_port = IntOf[Value]]
                 [] OTHER -> args
    /\ arg' = arg + IF argv[arg] \in {"--config", "--listen-port"} THEN 2 ELSE 1
    /\ mode' = IF argv[arg] = "--listen-port" /\ Value = Null THEN "crashed" ELSE mode
    /\ UNCHANGED <<argv, settings, file, pos, heap, registered, config, server, block, colours,
                   overruns>>

EnterMain ==
    /\ mode = "arguments"
    /\ arg > Len(argv)
    /\ mode' = IF args.server THEN "server_file" ELSE "registering"
    /\ UNCHANGED <<outside, pos, heap, config, server, block>>

-----------------------------------------------------------------------------
(* client_main before the file is read                                     *)

\* A node and its default, set through the tree again.
Register ==
    /\ mode = "registering"
    /\ registered < Len(Registrations)
    /\ LET r    == Registrations[registered + 1]
           more == register_theme_node(heap, r.path, r.type)
       IN IF Parent(heap, r.path) = 0
          THEN mode' = "hung" /\ UNCHANGED <<heap, registered>>
          ELSE /\ heap' = IF r.type = "rgba" THEN set_node_rgb(more, 1, r.path, r.value) ELSE more
               /\ registered' = registered + 1
               /\ UNCHANGED mode
    /\ UNCHANGED <<argv, arg, args, settings, file, pos, config, server, block, colours, overruns>>

OpenFile ==
    /\ mode = "registering"
    /\ registered = Len(Registrations)
    /\ \E unset \in {Null, Garbage} : heap' = duplicate_node(heap, 1, unset)
    /\ config' = [config EXCEPT !.theme = Len(heap) + 1]
    /\ mode' = "top"
    /\ UNCHANGED <<outside, pos, server, block>>

-----------------------------------------------------------------------------
(* Reading tokens                                                          *)

At(p) == IF p <= Len(file.tokens) THEN file.tokens[p] ELSE End

\* What is left of a token when its first characters are taken: no known word.
Rest == Word("rest")
Here == IF block.cut THEN Rest ELSE At(pos)

\* get_token(0), the message and die.  A word that nothing follows is read for ever;
\* a long one does not fit into the 255 bytes of the message.
UnknownToken ==
    /\ mode' = IF pos > Len(file.tokens) \/ (pos = Len(file.tokens) /\ ~file.newline) THEN "hung"
               ELSE IF Here = Long THEN "corrupted"
               ELSE "died"
    /\ overruns' = overruns \cup (IF mode' = "corrupted" THEN {"error"} ELSE {})

\* The string at p, the wild pointer -1 if there is none, and the next place.
NoString == "-1"
read_string(p) == IF At(p).kind = "string" THEN [value |-> At(p).value, next |-> p + 1]
                                           ELSE [value |-> NoString, next |-> p]
Unclosed(p) == At(p).kind = "quote"

\* Mutant: the digits are looked at and not taken.
read_int_peeks(p) ==
    IF At(p).kind = "number" THEN {[value |-> IntOf[At(p).value], next |-> p]}
                             ELSE {[value |-> v, next |-> p] : v \in {0, Garbage}}

\* The number at p; without digits whatever the buffer held.
read_int(p) ==
    IF At(p).kind = "number" THEN {[value |-> IntOf[At(p).value], next |-> p + 1]}
                             ELSE {[value |-> v, next |-> p] : v \in {0, Garbage}}

-----------------------------------------------------------------------------
(* cfgparser_parse_client_config, outside of blocks                        *)

\* Nothing but white space: the loop is entered all the same.
Blank == file.tokens = <<>> /\ file.newline

EndOfFile ==
    /\ mode = "top"
    /\ Here = End
    /\ mode' = IF Blank THEN "hung" ELSE "colours"
    /\ UNCHANGED <<outside, pos, heap, config, server, block>>

ReadNicknameWidth ==
    /\ mode = "top"
    /\ IsWord(Here, "nick_width")
    /\ \E n \in read_int(pos + 1) :
        /\ config' = [config EXCEPT !.nickname_width = n.value]
        /\ pos' = n.next
    /\ UNCHANGED <<outside, heap, server, block, mode>>


EnterServer ==
    /\ mode = "top"
    /\ IsWord(Here, "server")
    /\ LET name == read_string(pos + 1)
       IN /\ server' = [name |-> name.value, host |-> Garbage, port |-> Garbage, nick |-> Null]
          /\ pos' = IF IsWord(At(name.next), "{") THEN name.next + 1 ELSE name.next
          /\ mode' = IF Unclosed(pos + 1) THEN "hung"
                     ELSE IF IsWord(At(name.next), "{") THEN "server" ELSE "died"
    /\ UNCHANGED <<outside, heap, config, block>>

EnterTheme ==
    /\ mode = "top"
    /\ IsWord(Here, "theme")
    /\ IF IsWord(At(pos + 1), "{")
       THEN /\ mode' = "theme"
            /\ pos' = pos + 2
            /\ block' = [NoBlock EXCEPT !.tree = [i \in 0..TreeSize - 1 |-> Null], !.depth = 1]
       ELSE mode' = "died" /\ UNCHANGED <<pos, block>>
    /\ UNCHANGED <<outside, heap, config, server>>

UnknownAtTop ==
    /\ mode = "top"
    /\ Here # End
    /\ ~(Here.kind = "word" /\ Here.value \in {"nick_width", "server", "theme"})
    /\ UnknownToken
    /\ UNCHANGED <<input, pos, heap, config, server, block>>

-----------------------------------------------------------------------------
(* A server block                                                          *)

ReadServerString(key) ==
    /\ mode = "server"
    /\ IsWord(Here, key)
    /\ server' = [server EXCEPT ![key] = read_string(pos + 1).value]
    /\ pos' = read_string(pos + 1).next
    /\ mode' = IF Unclosed(pos + 1) THEN "hung" ELSE mode
    /\ UNCHANGED <<outside, heap, config, block>>

ReadServerPort ==
    /\ mode = "server"
    /\ IsWord(Here, "port")
    /\ \E n \in read_int(pos + 1) :
        /\ server' = [server EXCEPT !.port = n.value]
        /\ pos' = n.next
    /\ UNCHANGED <<outside, heap, config, block, mode>>

\* With --verbose the log reads the strings host and name, whatever they are.
LeaveServer ==
    /\ mode = "server"
    /\ IsWord(Here, "}")
    /\ config' = [config EXCEPT !.servers = Append(@, server)]
    /\ pos' = pos + 1
    /\ server' = NoServer
    /\ LET logged == IF args.verbose THEN {server.host, server.name} ELSE {}
       IN \E lucky \in BOOLEAN :
            mode' = IF NoString \in logged \/ (Garbage \in logged /\ ~lucky) THEN "crashed" ELSE "top"
    /\ UNCHANGED <<outside, heap, block>>

UnknownInServer ==
    /\ mode = "server"
    /\ ~(Here.kind = "word" /\ Here.value \in {"host", "port", "nick", "}"})
    /\ UnknownToken
    /\ UNCHANGED <<input, pos, heap, config, server, block>>

-----------------------------------------------------------------------------
(* A theme block                                                           *)

CloseBranch ==
    /\ mode = "theme"
    /\ IsWord(Here, "}")
    /\ block' = [block EXCEPT !.depth = @ - 1, !.tree_pos = @ - 1]
    /\ pos' = pos + 1
    /\ mode' = IF block'.depth > 0 THEN mode ELSE "top"
    /\ UNCHANGED <<outside, heap, config, server>>

OpenBranch ==
    /\ mode = "theme"
    /\ IsWord(Here, "{")
    /\ block' = [block EXCEPT !.depth = @ + 1]
    /\ pos' = pos + 1
    /\ UNCHANGED <<outside, heap, config, server, mode>>

\* From the root along tree[0..n], passing over names that no child has.
NodeAt(tree, n) ==
    LET into(name) == [node \in DOMAIN heap |->
            IF heap[node].type = "branch" /\ Child(heap, name)[node] # 0
            THEN Child(heap, name)[node] ELSE node]
        at[i \in 0..n + 1] == IF i = 0 THEN config.theme ELSE into(tree[i - 1])[at[i - 1]]
    IN at[n + 1]

NameEnds == pos < Len(file.tokens) \/ file.newline

\* Nine characters are a colour, whatever they are: what is no "#RRGGBBAA" leaves
\* some of the colour as malloc returned it, and can end inside of a token.  sscanf
\* writes an unsigned int for each component, so three bytes behind the four.
read_rgba(p) ==
    LET from(q) == MapThenSumSet(LAMBDA k : Size(At(k)) + 1, p .. q - 1)
        last    == Max({q \in p .. Len(file.tokens) + 1 : from(q) <= 9})
        taken   == 9 - from(last)
    IN  [value |-> IF At(p).kind = "colour" THEN At(p).value ELSE Garbage,
         next  |-> IF taken >= Size(At(last)) THEN last + 1 ELSE last,
         cut   |-> 0 < taken /\ taken < Size(At(last)),
         spilt |-> At(p).kind \in {"colour", "short"}]

\* A name is put behind those of the branches around it.  If the path ends
\* at a leaf, its colour is read; else nothing more is, and the name stays in tree
\* until a brace closes.
ReadName ==
    /\ mode = "theme"
    /\ Here # End /\ ~IsWord(Here, "}") /\ ~IsWord(Here, "{")
    /\ IF ~NameEnds \/ block.tree_pos \notin DOMAIN block.tree
       THEN /\ mode' = IF NameEnds THEN "corrupted" ELSE "hung"
            /\ overruns' = overruns \cup (IF NameEnds THEN {"tree"} ELSE {})
            /\ UNCHANGED <<pos, heap, block>>
       ELSE LET tree == [block.tree EXCEPT ![block.tree_pos] = Here.value]
                node == NodeAt(tree, block.tree_pos)
                leaf == heap[node].type = "rgba"
                rgba == read_rgba(pos + 1)
            IN /\ heap' = IF leaf THEN [heap EXCEPT ![node].value = rgba.value] ELSE heap
               /\ pos' = IF leaf THEN rgba.next ELSE pos + 1
               /\ block' = [block EXCEPT !.tree = tree,
                                         !.tree_pos = IF leaf THEN @ ELSE @ + 1,
                                         !.cut = leaf /\ rgba.cut]
               /\ overruns' = overruns \cup (IF leaf /\ rgba.spilt THEN {"rgba"} ELSE {})
               /\ UNCHANGED mode
    /\ UNCHANGED <<input, config, server>>

EndInTheme ==
    /\ mode = "theme"
    /\ Here = End
    /\ mode' = "hung"
    /\ UNCHANGED <<outside, pos, heap, config, server, block>>

-----------------------------------------------------------------------------
(* client_main after the file is read, and at its end                      *)

\* The widgets take the colours of the theme and the servers' buttons their
\* names; a path that came from the command line is given to free.
SetUpWidgets ==
    /\ mode = "colours"
    /\ colours' = [p \in LeafPaths |-> heap[get_theme_node(heap, config.theme, p)].value]
    /\ mode' = IF args.config_path # Null \/ \E s \in Range(config.servers) : s.name = NoString
               THEN "crashed" ELSE "running"
    /\ UNCHANGED <<argv, arg, args, settings, file, pos, heap, registered, config, server, block,
                   overruns>>

\* The pointers of a server that client_config_free frees.
ServerPointers(s) == {s.host, s.name, s.nick}

\* The user ends the client: client_config_free.  What malloc left in a
\* pointer may happen to be 0, and then nothing is freed.
Exit ==
    /\ mode = "running"
    /\ LET wild == UNION {ServerPointers(s) : s \in Range(config.servers)}
       IN \E lucky \in BOOLEAN :
            mode' = IF NoString \in wild \/ (Garbage \in wild /\ ~lucky)
                       \/ ~FreesValid(heap, config.theme)
                    THEN "crashed" ELSE "freeing"
    /\ heap' = free_node(heap, config.theme)
    /\ UNCHANGED <<outside, pos, config, server, block>>

theme_tree_fini ==
    /\ mode = "freeing"
    /\ mode' = IF FreesValid(heap, 1) THEN "exited" ELSE "crashed"
    /\ heap' = free_node(heap, 1)
    /\ UNCHANGED <<outside, pos, config, server, block>>

-----------------------------------------------------------------------------
(* cfgparser_parse_server_config                                           *)

Listen ==
    /\ mode = "server_file"
    /\ IsWord(Here, "listen")
    /\ \E n \in read_int(pos + 1) :
        /\ config' = [config EXCEPT !.listen_port = n.value]
        /\ pos' = n.next
    /\ UNCHANGED <<outside, heap, server, block, mode>>

\* The option is recognised but its value is not: see UnknownInServerFile.
DefaultNick ==
    /\ mode = "server_file"
    /\ IsWord(Here, "default_nick")
    /\ pos' = pos + 1
    /\ UNCHANGED <<outside, heap, config, server, block, mode>>

\* Nothing takes the token away: the loop sees it again and again.
UnknownInServerFile ==
    /\ mode = "server_file"
    /\ Here # End
    /\ ~(Here.kind = "word" /\ Here.value \in {"listen", "default_nick"})
    /\ mode' = "hung"
    /\ UNCHANGED <<outside, pos, heap, config, server, block>>

EndOfServerFile ==
    /\ mode = "server_file"
    /\ Here = End
    /\ mode' = "listening"
    /\ UNCHANGED <<outside, pos, heap, config, server, block>>

\* The port server_main binds: 16 bits of it reach the socket.
BoundPort == (IF args.listen_port # 0 THEN args.listen_port ELSE config.listen_port) % 65536

-----------------------------------------------------------------------------
Next ==
    \/ ParseArgument \/ EnterMain
    \/ Register \/ OpenFile
    \/ EndOfFile \/ ReadNicknameWidth \/ EnterServer \/ EnterTheme \/ UnknownAtTop
    \/ \E key \in {"host", "nick"} : ReadServerString(key)
    \/ ReadServerPort \/ LeaveServer \/ UnknownInServer
    \/ CloseBranch \/ OpenBranch \/ ReadName \/ EndInTheme
    \/ SetUpWidgets \/ Exit \/ theme_tree_fini
    \/ Listen \/ DefaultNick \/ UnknownInServerFile \/ EndOfServerFile

Spec == Init /\ [][Next]_vars

\* The program runs; only the user's decision to leave is not urged.
FairSpec == Spec /\ WF_vars(Next /\ mode # "running")

-----------------------------------------------------------------------------
(* Properties                                                              *)

TakesValue(a) == a \in {"--config", "--listen-port"}

\* The places of argv that hold options and not the values of options.
OptionPlaces ==
    {k \in DOMAIN argv :
        \E starts \in SUBSET (1..k) :
            /\ {1, k} \subseteq starts
            /\ \A j \in 1..k : j \in starts <=>
                    \/ j = 1
                    \/ j - 1 \in starts /\ ~TakesValue(argv[j - 1])
                    \/ j - 2 \in starts /\ TakesValue(argv[j - 2])}

PortOptions == {k \in OptionPlaces \ {Len(argv)} :
                    argv[k] = "--listen-port" /\ argv[k + 1] \in DOMAIN IntOf}

IsOption(s, keys) == s.kind = "option" /\ s.key \in keys /\ s.value.kind = "number"

IsServer(s) ==
    /\ s.kind = "server"
    /\ s.name.kind = "string"
    /\ {"host", "port"} \subseteq {o.key : o \in Range(s.options)}
    /\ \A o \in Range(s.options) :
        o.value.kind = IF o.key = "port" THEN "number" ELSE "string"

Branches == {r.path[1] : r \in {r \in Range(Registrations) : r.type = "branch"}}

\* An unknown leaf leaves its name and its colour in tree, and those of the branches
\* around it, when the branch closes: no other branch may follow it in the block if
\* its own is known, and none may have its name.
LeavesNoTrace(branches) ==
    \A j \in DOMAIN branches :
        LET names == {l.name : l \in Range(branches[j].leaves)}
            known == {p[2] : p \in {p \in LeafPaths : p[1] = branches[j].name}}
        IN  /\ names \cap Branches = {}
            /\ names \subseteq known \/ branches[j].name \notin Branches
                    \/ \A k \in j + 1 .. Len(branches) : branches[k].name = branches[j].name

\* Unknown leaves have filled tree.
TreeFull == 2 * UnknownLeaves(settings) + 2 > TreeSize

\* The file is whole and follows the documentation.  Branches and leaves the program
\* does not know are allowed, as long as their names fit into tree and mislead nobody.
Documented ==
    /\ file.tokens = Tokens(settings)
    /\ ~Blank
    /\ ~TreeFull
    /\ \A s \in Range(settings) :
        IF args.server THEN IsOption(s, {"listen"})
        ELSE \/ IsOption(s, {"nick_width"})
             \/ IsServer(s)
             \/ s.kind = "theme" /\ LeavesNoTrace(s.branches)


\* A known leaf, wherever the word stands, has a whole colour behind it.
ColoursWhole ==
    \A k \in DOMAIN file.tokens :
        (\E p \in LeafPaths : IsWord(file.tokens[k], Last(p))) => At(k + 1).kind = "colour"

\* Every brace but that of the theme opens behind a name that is no known leaf's.
BlocksNamed ==
    \A k \in 2 .. Len(file.tokens) :
        IsWord(file.tokens[k], "{") =>
            /\ file.tokens[k - 1].kind \in {"word", "string"}
            /\ file.tokens[k - 1].value \notin {"{", "}"} \cup {Last(p) : p \in LeafPaths}


Braces(w) == Len(SelectSeq(file.tokens, LAMBDA t : IsWord(t, w)))

\* Nothing is open at the end of the file: no block, no string, no word; and no
\* brace is eaten for a colour that is missing or too short.
Finished ==
    /\ file.newline \/ file.tokens = <<>> \/ Documented
    /\ ~Blank
    /\ Braces("{") = Braces("}")
    /\ ~\E t \in Range(file.tokens) : t.kind = "quote"
    /\ ColoursWhole

Understood ==
    \A k \in DOMAIN file.tokens :
        \/ IsWord(file.tokens[k], "listen") \/ IsWord(file.tokens[k], "default_nick")
        \/ k > 1 /\ file.tokens[k].kind = "number" /\ IsWord(file.tokens[k - 1], "listen")

\* The program gets through its file, good or bad: the client if nothing is
\* open at its end and known leaves have their colours, the server if it holds no
\* word it does not know.  Otherwise get_token, read_string and the server's loop
\* may not end (config.cc:59, config.cc:118, config.cc:154, config.cc:326).
StartupEnds ==
    [](mode \in {"registering", "server_file"} /\ (IF args.server THEN Understood ELSE Finished)
        => <>(mode \in Ended \ {"hung"}))
=============================================================================
