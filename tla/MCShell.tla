------------------------------ MODULE MCShell ------------------------------
(* What is typed at, and written in scripts for, the two shells. *)
EXTENDS Shell

MCBin == {<<"g">>, <<"f">>, <<"h">>, <<"f", "o">>, <<"b", "a", "d">>}
MCPrograms == (<<"g">> :> "gen") @@ (<<"f">> :> "filter") @@ (<<"h">> :> "head")
MCDir == (<<"o", "b">> :> SP) @@ (<<"d", "a">> :> "/")
MCOpenable == {<<"o">>, <<"o", ";">>}
MCKeys == {"g", "f", "o", "d", "/", "|", SP, NL, TAB, "BS", "^A", "^W", "^U", "^K", "^D", "ESC", "[", "D", "3", "late"}

Commands ==
    { <<"g">>, <<"x">>, <<"g", SP, "a">>, <<"g", ">", "o">>, <<"g", SP, ">", ">", SP, "o", SP, "a">>, <<"g", ">", "d">>, <<"g", ">">>,
      <<"g", SP, "a", SP, "a", SP, "a">>, <<"\"", "g", "\"", SP, "'", ";", "|", "'">>, <<"\"", "\"">>, <<"x", ">", "o">>, <<>>,
      <<"cd">>, <<"cd", SP, "a">>, <<"exit">>, <<"help">>, <<"sudo", SP, "g">>, <<"sudo", SP>>, <<"sudo">>, <<"'", "g">> }
Pipelines ==
    { <<"g", "|", "f">>, <<"g", SP, "|", SP, "f", "|", "f">>, <<"g", "|", "h">>, <<"g", "|", "f", "|", "h">>, <<"g", ">", "o", "|", "f">>,
      <<"g", "|", "x">>, <<"x", "|", "f">>, <<"g", "|", SP>>, <<"g", "|", "f", ">", "d">>, <<"g", "|", "f", ">", "o">>,
      <<"g", ">", "d", "|", "f">>, <<"g", "|", "b", "a", "d">>, <<"g", ">", "o", "|", "b", "a", "d">>, <<"g", "|", "f", "|", "f", "|", "f">>,
      <<"g", "|", "x", "|", "f">>, <<"g", ">", "\"", "o", ";", "\"", "|", "f">>, <<"g", "|", "h", "|", "f">> }
Background == { <<"g", "&">>, <<"g", SP, ">", "o", SP, "&">>, <<"&">> }

Script(lines) == Front(Concat([i \in DOMAIN lines |-> Append(lines[i], NL)]))
Seq2(a, b) == a \o <<";">> \o b
MCSessions ==
    UNION {
      { [kind |-> "edit", input |-> <<>>] },
      { [kind |-> "script", input |-> Script(<<a, b>>)] : a \in Commands \cup Pipelines, b \in {<<"g">>, <<"#", "g">>, <<"g", CR>>} },
      { [kind |-> "script", input |-> Script(<<Seq2(a, b)>>)] : a \in Commands \cup Background, b \in Commands \cup Pipelines },
      { [kind |-> "script", input |-> Script(<<a, b, c>>)] : a \in Background, b \in Background, c \in {<<"g", "|", "f">>} },
      { [kind |-> "script", input |-> [i \in 1..n |-> "g"]] : n \in {LINE + 1, SCRIPT_MAX + 1} },
      { [kind |-> "kernel", input |-> <<a, b>>] : a \in Commands \cup Pipelines, b \in {<<"g">>, <<"x", "BS", "g">>} },
      { [kind |-> "kernel", input |-> <<Seq2(a, b)>>] : a \in Commands, b \in Commands \cup Pipelines },
      { [kind |-> "kernel", input |-> <<c>>] : c \in {<<"g", "^C">>, <<"g", "\\", SP, "a">>, <<"\"", "\\", "\"", "\"">>, <<"|", "g">>} }
    }
=============================================================================
