------------------------------- MODULE MCMessages -------------------------------
\* Small instance of Messages: bytes of 8 and 16 values, names of at most 7 characters,
\* texts of a few letters with three methods, one of which ends another.
EXTENDS Messages

MCContents == UNION {[1..n -> {0, 1, 7}] : n \in 0..3}
MCMss == [v \in {4, 6} |-> IF v = 4 THEN 60 ELSE 40]

MCNames == {<<97>>, <<98, 46>>}
MCFold == [c \in {"G", "E", "_", "L", "K", "U", "H", "o", "O", ":", "h", "t", "/", "a", "\r"} |->
             IF c = "H" THEN "h" ELSE IF c = "O" THEN "o" ELSE c]
MCMethods == <<<<"G", "E", "_">>, <<"L", "K", "_">>, <<"U", "L", "K", "_">>>>
MCHostKey == <<"H", "o", ":">>
MCHostHeaders == {<<"H", "o", ":">>, <<"H", "O", ":">>, <<"h", "o", ":">>}
MCScheme == <<"h", "t", ":">>
MCSlashes == <<"/", "/">>
MCPaths == {<<"/">>, <<"h", "t", ":", "/">>, <<"/", "G", "E">>}
MCHosts == {<<"a">>, <<"a", "G">>}
MCBodies == {<<"\r">>, <<"\r", "G", "E", "_", "a">>, <<"\r", "L", "K", "_", "h">>,
             <<"a", "G", "E">>, <<"\r", "H", "o", ":">>, <<"\r", "a", "H", "o">>}
MCBehind == {[i \in 1..9 |-> "a"],
             <<"_", "a", "a", "\r">> \o [i \in 1..5 |-> "a"],
             <<"o", ":">> \o [i \in 1..7 |-> "a"]}

MCMessageBodies == UNION {[1..n -> {0, 1, 2, 4, 12}] : n \in 1..5}
=============================================================================
