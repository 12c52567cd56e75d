----------------------------- MODULE MCHttp -----------------------------
(* The pages of src/html, the requests of its scripts, and damaged ones.     *)
EXTENDS Http

MCWord == {"POST", "api$", "events", "blob", "banner", "valueChanged", "other",
           "index", "html", "js", "Host", "Content-Length", "g"}
MCFiles == {<<"/", "index", ".", "html">>, <<"/", "events", ".", "js">>}
MCDirectories == {<<"/", ".">>}
MCPaths ==
  MCFiles \cup MCDirectories
    \cup {Api(<<name>>) : name \in {"events", "blob", "banner", "valueChanged", "other"}}
    \cup {<<"/">>, <<"g">>, <<"/", ".", ".", "/", "g">>, <<"/", "g", "SP", "g">>}
Host == [name |-> <<"Host">>, value |-> <<"g", "SP">>, more |-> <<"g">>]
LengthHeader(digits) == [name |-> <<"Content-Length">>, value |-> digits, more |-> <<>>]
MCHeaderLists ==
  {<<Host>>} \cup {<<Host, LengthHeader(d)>> : d \in {<<"0">>, <<"1">>, <<"0", "2">>}}
MCBodies == {<<>>, <<"g", "LF">>}
MCBadUris == {<<"/", "%", "2">>, <<"/", "%", "g", "g">>, <<"/", "%", "2", "g">>,
              <<"%", "+", "F">>, <<"%", "-", "F">>, <<"/", "%">>}
MCNoisyPaths == {Api(<<"valueChanged">>)}
MCNoise == {"g", "H", "0", "3", "-", ".", "/", ":", "(", "SP", "HT", "CR", "LF", "ctl", "high"}
=============================================================================
