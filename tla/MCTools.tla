------------------------------ MODULE MCTools ------------------------------
(* The programs of userland, each run on its own: every text over a few     *)
(* bytes, from standard input in pieces of every size, from a file, and     *)
(* from several; small stores for the programs that change files.  Beside   *)
(* them, net_task with the processes that ask it for sockets and scans, and *)
(* the loader that starts programs.                                         *)
EXTENDS MCFilters, Codecs, Pages, FileTools, Net, Loader

Encoded64(x) == Encode64End(FoldLeft(Encode64Byte, Start(Options("base64")), x)).out
Encoded32(x) == Encode32End(FoldLeft(Encode32Byte, Start(Options("base32")), x)).out
Coded(prog, enc(_), texts) ==
    {[prog |-> prog, args |-> <<"-d">>, fs |-> [stdin |-> enc(x)], sink |-> "file", plain |-> x] : x \in texts}

Pairs == {<<u, SP, v, NL>> : u, v \in {"a", "b", "c"}}
Expressions == Texts({"2", "-", "*", "(", ")"}, 4) \cup {<<"3">> \o x \o <<"2">> : x \in Texts({"-", "/", "+", "2", "%"}, 3)}
Calls(prog, args, texts) == {[prog |-> prog, args |-> a, fs |-> [e |-> x, f |-> <<"2", "p">>], sink |-> "file", plain |-> <<>>] : a \in args, x \in texts}
Rpn == {[prog |-> "dc", args |-> <<"-z", "-e", "e">>,
         fs |-> [e |-> a \o <<SP>> \o b \o <<op, "p">>], sink |-> "file", plain |-> a \o <<op>> \o b] :
            a, b \in {<<"2">>, <<"3">>, <<"0">>, <<"1", "0">>}, op \in Operators}

MCCodeJobs ==
    Piped("base64", {<<>>, <<"-h">>}, Texts({0, 171}, 5)) \cup Filed("base64", {<<"-z", "f", "g">>, <<"none">>}, {<<7>>})
    \cup Coded("base64", Encoded64, Texts({0, 254}, 4) \cup {<<1, 2, 3, 4, 250, 6, 7>>})
    \cup Piped("base32", {<<>>, <<"-h">>, <<"-z", "-">>}, Texts({0, 171}, 5) \cup Texts({203}, 6)) 
    \cup Coded("base32", Encoded32, Texts({1, 254}, 1) \cup {<<1, 254, 77, 200, 9>>, <<255, 3, 77>>, <<7, 8>>, <<9, 200, 3, 1>>})
    \cup {[j EXCEPT !.args = <<"-d", "-">>] : j \in Coded("base32", Encoded32, {<<1>>})}
    \cup Piped("dos2unix", {<<>>, <<"-q", "-">>, <<"-", "-">>, <<"-h">>}, Texts({"a", CR, NL}, 4))
    \cup Piped("unix2dos", {<<>>, <<"-q", "-">>, <<"-h">>}, Texts({"a", CR, NL}, 4))
    \cup Piped("tsort", {<<>>, <<"-h">>, <<"-">>}, Texts({"a", "b", SP}, 4))
    \cup {[prog |-> "tsort", args |-> <<"f">>, fs |-> [f |-> x \o y \o z], sink |-> "file"] : x, y, z \in Pairs}
    \cup {[prog |-> "tsort", args |-> <<"f">>, fs |-> [f |-> <<"a", SP, "b", SP, "c", SP, "1", SP, "a", SP, "c">>], sink |-> "file"]}
    \cup Filed("tsort", {<<"none">>}, {<<>>})
    \cup Piped("column", {<<"-t">>, <<"-s", "b">>, <<"-s-", "-">>, <<"-t", "-s">>, <<"-h">>}, Texts({"a", "b", SP, NL}, 3))
    \cup Filed("column", {<<"f">>, <<"f", "none", "d", "f">>}, Texts({"a", SP, NL}, 5))
    \cup Calls("bc", {<<"e">>}, Expressions) \cup Piped("bc", {<<>>, <<"-z">>}, Texts({"2", "+", NL}, 4))
    \cup Calls("bc", {<<"-e", "e", "f">>, <<"e", "-h", "f">>, <<"f", "-e">>}, {<<"1", "/", "0">>, <<"-", "2", "*", "9", "/", "-", "1">>, <<"2", "^", "3">>,
           <<"-","2","^","9","/","-","1">>})
    \cup Rpn \cup Calls("dc", {<<"e", "f">>, <<"-h">>}, Texts({"2", "+", "r", "p"}, 3) \cup Texts({"1", "d", "n", "f"}, 4) \cup {<<"1", "c", "+">>, <<"_", "9", "q">>, <<"_", "2", "d", "*", "p">>})
    \cup {[j EXCEPT !.args = <<>>] : j \in {[prog |-> "dc", fs |-> [stdin |-> x], sink |-> "file", plain |-> <<>>, args |-> <<>>] : x \in Texts({"2", SP, "p", "q"}, 4)}}

Both(prog, args, texts) ==
    {[prog |-> prog, args |-> a, fs |-> [f |-> x, g |-> y, stdin |-> y], sink |-> "file"] : a \in args, x, y \in texts}
Keyed == {Concat(ls) : ls \in Texts({<<"a", SP, "1", NL>>, <<"b", SP, "2", NL>>, <<"1", SP, "b", NL>>}, 2)} \cup {<<"a", NL, "c3", NL>>, <<"b", TAB>>}
MCPageJobs ==
    Piped("rev", {<<>>, <<"-x">>, <<"-h">>}, Texts({"a", "b", NL}, 3) \cup {<<"c3", "a9", "a">>})
    \cup Piped("fold", {<<"-w", "2">>, <<"-s", "-w", "3">>, <<"-w", "1">>, <<"-h">>}, Texts({"a", SP, NL}, 5) \cup {<<"a", "c3", "a9", "b">>})
    \cup Piped("expand", {<<"-t", "2">>, <<"-t", "3">>}, Texts({"a", TAB, NL}, 4))
    \cup Piped("unexpand", {<<"-t", "2">>, <<"-t", "3">>}, Texts({"a", SP, NL}, 5) \cup {<<"c3", "a9", SP, SP, "a", TAB>>})
    \cup Piped("nl", {<<>>, <<"-ba">>, <<"-w", "0", "-bt">>}, Texts({"a", NL}, 3))
    \cup UNION {Filed(prog, {<<"f">>, <<"g", "-x", "f">>, <<"none">>, <<"d">>, <<"-w", "x">>, <<"-t", "0", "f">>}, {<<"a", NL>>, <<"c3">>, <<"a", "b", "a", "b", "a", "b", "a">>}) :
                    prog \in {"rev", "fold", "expand", "unexpand", "nl"}}
    \cup Both("paste", {<<"f", "g">>, <<"-d", "b", "f", "g">>, <<"f", "-x">>, <<"-h", "f">>, <<"f">>, <<"f", "none">>}, Texts({"a", NL}, 2) \cup {<<"c3">>})
    \cup Both("comm", {<<"f", "g">>, <<"-12", "f", "g">>, <<"-3", "f", "g", "f">>, <<"f", "-h">>, <<"f">>, <<"d", "g">>}, Texts({"a", "b", NL}, 2))
    \cup Both("comm", {<<"f", "g">>}, {Printed(ls) : ls \in Texts({<<"a">>, <<"b">>}, 3)})
    \cup Both("diff", {<<"f", "g">>, <<"g">>, <<"f", "none">>}, Texts({"a", NL}, 3))
    \cup Both("cmp", {<<"f", "g">>, <<"g">>, <<"f", "none">>, <<"-h", "f">>, <<"f", "d">>}, Texts({"a", "b", NL}, 2))
    \cup Both("join", {<<"f", "g">>, <<"-v", "1", "f", "-">>, <<"-1", "2", "-v", "2", "f", "g">>, <<"-j", "2", "-t", SP, "f", "g">>}, Keyed)
    \cup Both("join", {<<"-2", "0", "f", "none">>, <<"-x">>, <<"-1">>, <<"f">>, <<"-h">>, <<>>}, {<<"a", NL>>})

\* The file programs.
Store_(f, g) == ("f" :> Regular(f)) @@ ("g" :> Regular(g)) @@ ("d" :> Folder)
OnlyF(f) == ("f" :> Regular(f)) @@ ("d" :> Folder)
Run(prog, args, stores) == {[prog |-> prog, args |-> a, files |-> fs0, stdin |-> <<"a", "b", NL>>, rand |-> "t"] : a \in args, fs0 \in stores}
Letters == {<<"a", "b", "a", "b", "b">>, <<"a">>, <<>>}
TwoFiles == {Store_(x, y) : x \in Letters, y \in {<<>>, <<"1", "2", "3">>}}
OneFile(texts) == {OnlyF(x) : x \in texts}
Diffed(x, y) == DiffLines([files |-> <<"f", "g">>], Lines(x), Lines(y)).out
MCTasks ==
    Run("cp", {<<"f", "g">>, <<"f", "f">>, <<"f", "none/f">>, <<"d", "g">>, <<"x", "g">>, <<"f">>}, TwoFiles)
    \cup Run("mv", {<<"f", "g">>, <<"f", "x">>, <<"d", "g">>, <<"f", "f">>, <<"x", "f">>, <<"f">>}, TwoFiles)
    \cup Run("rm", {<<"f", "x", "d", "g">>, <<>>}, TwoFiles)
    \cup Run("touch", {<<"f", "x", "d">>, <<>>}, TwoFiles)
    \cup Run("tee", {<<"f">>, <<"-a", "f">>, <<"x">>, <<"g", "f">>, <<>>}, TwoFiles)
    \cup Run("ln", {<<"-s", "f", "g">>, <<"-sf", "f", "x">>, <<"-f", "-v", "f", "g">>, <<"f", "g">>, <<"-s", "f", "d">>, <<"-h", "f">>, <<"-s", "f">>, <<"f">>}, TwoFiles)
    \cup Run("dd", {<<"if=f", "of=g", "bs=2">>, <<"if=f", "of=g", "bs=3", "count=1", "status=none">>, <<"if=f", "of=g", "ibs=1", "obs=3", "seek=1">>,
                    <<"if=f", "of=g", "bs=3", "skip=1", "conv=notrunc">>, <<"if=f", "of=g", "count=0", "bs=0">>, <<"if=f", "bs=2">>, <<"bs=3", "skip=1", "of=g">>,
                    <<"bs=x">>, <<"-h">>, <<"if=none", "of=g">>, <<"if=f", "of=d">>, <<"if=d", "of=g">>}, TwoFiles)
    \cup Run("truncate", {<<"-s", "3", "f", "g">>, <<"-s", "0", "f", "x">>, <<"-c", "-s", "1k", "x", "d", "f">>, <<"-s2", "x">>, <<"-sx", "f">>, <<"-s", "x", "f">>, <<"-s">>, <<"-h">>,
                          <<"-c", "f">>, <<"-s", "1">>, <<>>}, TwoFiles)
    \cup Run("shred", {<<"-n", "1", "f">>, <<"-n", "0", "-z", "f">>, <<"-n", "1", "-u", "f", "x", "g">>, <<"f", "-v">>, <<"-h">>, <<"-z">>, <<"-n">>, <<"-n", "2", "d">>}, TwoFiles)
    \cup Run("mktemp", {<<>>, <<"-d">>, <<"t", "-x">>}, TwoFiles \cup {("t" :> Regular(<<"a">>))})
    \cup Run("logger", {<<"a", "b">>, <<"-s", "a">>, <<"-s">>, <<"-h">>, <<>>, <<"a", "b", "a", "b", "a">>},
             TwoFiles \cup {("log" :> Regular(<<"a", NL>>))})
    \cup Run("logrotate", {<<>>, <<"-f">>, <<"-v", "f">>, <<"-f", "d">>, <<"-h">>},
             TwoFiles \cup {("log" :> Regular(x)) : x \in {<<"a", NL>>, <<"a", "b", "a", "b", NL>>, [i \in 1..26 |-> "a"]}} \cup {("log" :> Regular(<<"a", "b", "b", NL>>)) @@ ("log.1" :> Regular(<<"1">>))})
    \cup Run("split", {<<"-b", "2", "f">>, <<"-l", "1", "f", "p">>, <<"-l", "2", "f">>, <<"-b", "0", "f">>, <<"f", "-x">>, <<"-h">>, <<"-b", "x">>, <<"x">>, <<"d">>, <<"-l", "0", "f">>, <<"-b">>},
             OneFile({<<"a", NL, "b", NL, "a">>, <<"a", CR, NL, "b">>, <<NL, NL, NL, "a", "b", "a", "b">>, <<"c3", "a">>, <<>>}))
    \cup Run("csplit", {<<"f", "2">>, <<"f", "3">>, <<"f", "/b/">>, <<"-f", "p", "f", "//">>, <<"-n", "3", "f", "2">>, <<"-n", "x", "f">>, <<"-n", "0", "f", "2">>, <<"f", "1">>, <<"-h", "f">>, <<"f">>, <<"-f", "p">>, <<"x", "1">>, <<"-f", "none/f", "f">>},
             OneFile({<<"a", NL, "b", NL, "a">>, <<"b", NL, "a", "b", "a", "b", "a", "b", NL, "b">>, <<"b", NL, "b", NL, "b", NL>>, <<>>}))
    \cup UNION {Run("patch", {<<"f", "diff">>, <<"-i", "diff", "f">>}, {("f" :> Regular(x)) @@ ("g" :> Regular(y)) @@ ("diff" :> Regular(Diffed(x, y)))}) :
                  x, y \in {Printed(ls) : ls \in Texts({<<"a">>, <<"b">>}, 2)}}
    \cup Run("patch", {<<"-i", "diff">>, <<"x", "diff">>, <<"f", "x">>, <<"f">>, <<"-i">>, <<>>, <<"d", "diff">>, <<"f", "d">>},
             {OnlyF(<<"a", NL>>) @@ ("diff" :> Regular(x)) : x \in {<<"+++", "f", NL, "@@", "2", NL, "+ ", "b", NL>>, <<"+ ", "a">>, <<"c3">>}})

\* What the loader finds on disk: three programs as the build makes them, and
\* one whose file was damaged since.
Calling == [text |-> <<Num(5), Ref("text", 0), Ref("data", 4)>>, data |-> <<Ref("text", 4), Ref("data", 0)>>, bss |-> 1, cut |-> 1]
TextOnly == [text |-> <<Ref("text", 4), Num(3)>>, data |-> <<>>, bss |-> 0, cut |-> 0]
Large == [text |-> <<Num(1), Num(2), Num(3), Num(4), Num(5), Num(6), Num(7), Num(8)>>, data |-> <<>>, bss |-> 0, cut |-> 3]
LoadFile == Built(Calling).file
Damaged ==
    {[img |-> Calling, file |-> f] : f \in
        {[LoadFile EXCEPT !.magic = FALSE], [LoadFile EXCEPT !.count = @ + 1], [LoadFile EXCEPT !.count = 40], [LoadFile EXCEPT !.elf = FALSE],
         [LoadFile EXCEPT !.short = 4], [LoadFile EXCEPT !.tail = [@ EXCEPT ![Len(@)] = 28]]}}
MCImageFiles == {Built(i) : i \in {Calling, TextOnly, Large}} \cup Damaged
MCArgLists == {<< <<97>> >>, << <<97>>, <<>> >>, << <<98, 97>>, <<97>>, <<97, 97, 97>> >>}

\* A behaviour is of a text program, of a file program, of the network or of
\* the loader; except on its own side, net_task has failed to start.
TextIdle ==
    /\ job = [prog |-> "none", args |-> <<>>, fs |-> <<>>, sink |-> "file"]
    /\ s = Start([Options("none") EXCEPT !.exit = 0]) /\ todo = <<>> /\ left = <<>> /\ phase = "exit"
FileIdle ==
    /\ task = [prog |-> "none", args |-> <<>>, files |-> <<>>, stdin |-> <<>>, rand |-> ""]
    /\ files = <<>> /\ p = Fresh(Ends(NoOptions, 0)) /\ calls = <<>> /\ faults = 0

VARIABLE side
ToolsInit ==
    /\ LoaderInit
    /\ \/ side = "text" /\ (Init \/ CodeInit \/ PageInit) /\ FileIdle /\ NetStart("failed")
       \/ side = "files" /\ FileInit /\ TextIdle /\ NetStart("failed")
       \/ side = "net" /\ NetInit /\ TextIdle /\ FileIdle
       \/ side = "load" /\ TextIdle /\ FileIdle /\ NetStart("failed")
ToolsNext ==
    /\ \/ side = "text" /\ (Next \/ CodeNext \/ PageNext) /\ UNCHANGED <<fileVars, netVars, loadVars>>
       \/ side = "files" /\ FileNext /\ UNCHANGED <<vars, netVars, loadVars>>
       \/ side = "net" /\ NetNext /\ UNCHANGED <<vars, fileVars, loadVars>>
       \/ side = "load" /\ LoaderNext /\ UNCHANGED <<vars, fileVars, netVars>>
    /\ UNCHANGED side
\* The fairness of NetSpec, on its side.
ToolsFairness ==
    /\ WF_netVars(side = "net" /\ NetStep) /\ WF_netVars(side = "net" /\ QueueScan)
    /\ SF_netVars(side = "net" /\ Section(TRUE)) /\ SF_netVars(side = "net" /\ Associated(TRUE))
    /\ WF_netVars(side = "net" /\ Joins) /\ SF_netVars(side = "net" /\ LeaseGiven)
ToolsSpec == ToolsInit /\ [][ToolsNext]_<<vars, fileVars, netVars, loadVars, side>> /\ ToolsFairness
=============================================================================
