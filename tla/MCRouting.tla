----------------------------- MODULE MCRouting -----------------------------
(* Small instances of Routing for TLC: the shipped profiles, one- and two-     *)
(* symbol keys, and files that clash in each of the ways files can.           *)
EXTENDS Routing

MCSymbols == {"/", ".git", "__git__", "info/refs", "a", "p", "g", "h", "v"}
MCRank == [s \in MCSymbols |->
  CASE s = ".git" -> 1 [] s = "/" -> 2 [] s = "__git__" -> 3 [] s = "a" -> 4 [] s = "g" -> 5
    [] s = "h" -> 6 [] s = "info/refs" -> 7 [] s = "p" -> 8 [] s = "v" -> 9]

File(name, aliases, git) == [name |-> name, aliases |-> aliases, git |-> git, parses |-> TRUE]

Anthropic == File(<<"a">>, <<>>, FALSE)
Api == [prefix |-> <<"a", "p">>, strip |-> <<"/", "v">>]
Github == File(<<"g", "h">>, <<Api>>, TRUE)
Plain(prefix) == [prefix |-> prefix, strip |-> None]

MCBuilds == {
  <<>>,
  <<Anthropic, Github>>,
  <<Github, File(<<"/", "a", "/">>, <<Plain(<<"/", "v", "/">>), Plain(<<"p">>)>>, TRUE)>>,
  <<Anthropic, File(<<"/", "a">>, <<>>, FALSE)>>,
  <<Github, File(<<"a", "p">>, <<>>, FALSE)>>,
  <<File(<<"a">>, <<Plain(<<"p">>)>>, FALSE), File(<<"h">>, <<Plain(<<"p", "/">>)>>, FALSE)>>,
  <<File(<<"a">>, <<Plain(<<"a">>)>>, FALSE)>>,
  <<File(<<"a">>, <<Plain(<<"__git__", "a">>)>>, TRUE)>>,
  <<File(<<"a">>, <<Plain(<<"__git__", "p">>), Plain(<<"/">>)>>, TRUE)>>,
  <<Anthropic, File(<<"/">>, <<>>, FALSE)>>,
  <<[Anthropic EXCEPT !.parses = FALSE]>>}

Set == [admin |-> "set", phantom |-> "set", named |-> FALSE, tokens |-> "missing"]

MCSettings == [admin : {"set", "empty", "unset"}, phantom : {"set", "empty", "unset"},
               named : BOOLEAN, tokens : {"missing", "readable", "unreadable"}]

\* Any path of up to five symbols of the keys and the slash, and paths around the
\* shape of git with one or two leading slashes.
Short == UNION {[1..n -> {"/", "a", "p", "v"}] : n \in 0..5}
          \cup {<<"g", "h">> \o s : s \in UNION {[1..n -> {"/", "a", "h"}] : n \in 0..3}}
Segments == {<<>>, <<"a">>, <<"g", "h">>, <<"a", ".git">>, <<"__git__", "a">>, <<"__git__", "g", "h">>}
Tails == {<<>>, <<".git", "/", "info/refs">>, <<".git", ".git", "/", "info/refs">>,
          <<"/", "info/refs">>, <<".git", "/", "a">>, <<".git", "/", "info/refs", "/">>}
MCPaths ==
  {<<"/">> \o s : s \in Short}
  \cup {l \o x \o <<"/">> \o y \o z :
          l \in {<<"/">>, <<"/", "/">>, <<"/", "a", "/">>}, x \in Segments, y \in Segments, z \in Tails}

ShippedBuild == {<<Anthropic, Github>>}
PlainSetting == {Set}
ShortPaths == {<<"/">> \o s : s \in UNION {[1..n -> {"/", "g", "h", "a"}] : n \in 0..4}}
=============================================================================
