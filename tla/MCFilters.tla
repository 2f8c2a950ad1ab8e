----------------------------- MODULE MCFilters -----------------------------
(* Small runs of the text programs: every text over a few bytes, from       *)
(* standard input in pieces of every size, from a file, and from several.   *)
EXTENDS Filters

Texts(B, n) == UNION {[1..k -> B] : k \in 0..n}
Piped(prog, args, texts) ==
    {[prog |-> prog, args |-> a, fs |-> [stdin |-> x], sink |-> "file"] : a \in args, x \in texts}
Filed(prog, args, texts) ==
    {[prog |-> prog, args |-> a, fs |-> [f |-> x, g |-> <<"a", NL>>], sink |-> "file"] : a \in args, x \in texts}

Several == {<<"f", "none", "g">>, <<"g", "d", "f">>}
Small == Texts({"a", NL}, 3)
MCJobs ==
    {[j EXCEPT !.sink = k] : j \in Piped("cat", {<<>>}, Texts({"a", "b"}, 3))
                                   \cup Filed("cat", Several, Texts({"b"}, 3)), k \in {"file", "pipe"}}
    \cup Piped("wc", {<<>>}, Texts({"a", SP, NL}, 4)) \cup Filed("wc", Several \cup {<<"f">>}, Texts({"a", SP, NL}, 3))
    \cup Piped("head", {<<"-n", "2">>, <<"-n1">>, <<"-n", "0">>, <<>>}, Texts({"a", NL}, 4))
    \cup Filed("head", {<<"-n1", "f", "g">>, <<"-n", "f">>}, Small)
    \cup Piped("tail", {<<"-n", "2">>, <<"-n", "">>, <<>>}, Texts({"a", "b", NL}, 4) \cup Texts({"a", NL}, 6))
    \cup Filed("tail", {<<"-n1", "f", "none", "g">>}, Small)
    \cup Piped("grep", {<<"ab">>, <<"">>, <<>>}, Texts({"a", "b", NL}, 4))
    \cup Filed("grep", {<<"a">> \o x : x \in Several \cup {<<"f">>}}, Small)
    \cup Filed("look", {<<"a", "f">>, <<"-f", "ab", "f", "g">>, <<"", "f">>, <<"a">>, <<>>, <<"-f">>, <<"-h">>},
               Texts({"a", "B", NL}, 4))
    \cup Piped("uniq", {<<>>, <<"-cd">>, <<"-c">>, <<"-h">>}, Texts({"a", "c3", NL}, 4) \cup Texts({"a", NL}, 5))
    \cup Filed("uniq", {<<"-d", "-z", "f", "g">>, <<"none">>}, Small)
    \cup Piped("cut", {<<"-d", "b", "-f", "2">>}, Texts({"a", "b", CR, NL}, 4)) \cup Piped("cut", {<<"-d-", "-f2">>, <<"-h">>}, Small)
    \cup Filed("cut", {<<"-f0", "-f", "0", "f", "g", "-d">>, <<"none">>}, Texts({"a", TAB, NL}, 4))
    \cup Piped("tr", {<<"-d", "a-b">>, <<"-d", "\\na">>, <<"-d", "a-">>, <<"-d">>, <<"-h">>, <<>>, <<"a-z", "A-Z">>,
                      <<"A-Z", "a-z">>, <<"a">>}, Texts({"a", "b", "-", NL}, 3))
    \cup Piped("strings", {<<"-n", "2">>, <<"-n", "0">>}, Texts({"a", TAB, NL}, 4))
    \cup Filed("strings", {<<"f", "-n">>, <<"none">>, <<"-n", "x", "f", "g">>}, Texts({"a", "c3"}, 4))
    \cup Piped("sort", {<<"-n">>, <<"-rn">>}, Texts({"1", "0", NL}, 5)) \cup Piped("sort", {<<>>, <<"-r">>}, Texts({"1", "0", NL}, 4))
    \cup Piped("sort", {<<"-n">>, <<"-n", "-h">>}, Texts({"1", "-", SP, NL}, 3))
    \cup Filed("sort", {<<"-n", "-r", "f">>, <<"none">>, <<"f", "g">>}, Texts({"1", "a", NL}, 3))
    \cup Piped("tac", {<<>>, <<"-h">>, <<"-">>}, Texts({"a", NL}, 5))
    \cup Filed("tac", {<<"f", "-z", "none", "g">>}, Texts({"b", NL}, 5))
    \cup Piped("fmt", {<<"-w", "3">>, <<"-s", "-w", "3">>}, Texts({"a", SP, NL}, 5)) \cup Piped("fmt", {<<"-3">>, <<"-w3", "-">>, <<"-h">>, <<"-w">>}, Small)
    \cup Filed("fmt", {<<"-w", "f", "none", "g">>, <<"-z", "-s", "f">>, <<"-z">>, <<"-w", "0", "f">>}, Texts({"a", SP, CR, NL}, 3))
============================================================================
