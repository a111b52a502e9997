------------------------------ MODULE MCHRoute ------------------------------
(* An instance of HRoute: the folders en, en-us, en-us-x, fr and de of the *)
(* files, a nested alias, a default language whose folder the bindings     *)
(* reach without asking for it.                                            *)
EXTENDS HRoute

En == <<5>>
EnUs == <<5, Dash, 9>>
EnUsX == <<5, Dash, 9, Dash, 9>>
EnX == <<5, 9>>
Fr == <<6>>
De == <<7>>

MCRoots == {"dir", "http", "icons", "extra"}
MCFolders == [r \in MCRoots |->
    CASE r = "http" -> {En, EnUs, EnUsX, EnX, Fr, De}
      [] r = "dir" -> {En, Fr}
      [] OTHER -> {}]
FileNames(ns) == [n \in ns |-> IF Last(n) = "d" THEN "dir" ELSE "file"]
MCTree == [r \in MCRoots |-> [p \in MCFolders[r] \cup {Root} |->
    IF r = "http" THEN
        CASE p = Root -> FileNames({<<"a">>, <<"b">>, <<"d">>, <<"d", "index.html">>, <<"d", "a">>})
          [] p = En -> FileNames({<<"a">>, <<"d">>})
          [] p = EnUs -> FileNames({<<"b">>, <<"d">>, <<"d", "index.html">>})
          [] p = EnX -> FileNames({<<"a">>})
          [] OTHER -> FileNames({<<"a">>})
    ELSE IF r = "dir" THEN FileNames(CASE p = Root -> {<<"b">>} [] p = En -> {<<"a">>}
                                       [] OTHER -> {<<"a">>, <<"c">>})
    ELSE IF r = "icons" THEN FileNames({<<"a">>, <<"d">>, <<"d", "a">>})
    ELSE FileNames({<<"a">>})]]

MCDefinitions == {<<>>, <<Fr>>, <<EnUs \o <<Dash, 8>>, De>>}
MCAliases == <<[prefix |-> <<"i">>, root |-> "icons"], [prefix |-> <<"i", "d">>, root |-> "extra"]>>
(* The languages only matter to the files of the http root.                *)
FileUrls == {<<"">>, <<"a">>, <<"b">>, <<"d">>, <<"d", "">>, <<"", "a">>, <<"d", "..", "a">>, <<"..", "a">>}
OtherUrls == {<<"i">>, <<"i", "a">>, <<"i", "b">>, <<"i", "d", "a">>, <<"api", "x", "y">>, <<"api", "x">>,
              <<"opa">>, <<"opa", "p">>, <<"opa", "#", "p">>, <<"a", "b">>}
Plain == [upgrade |-> "", connection |-> {}, key |-> FALSE, version |-> 0, protocols |-> <<>>]
Upgrade == [upgrade |-> "websocket", connection |-> {"keep-alive", "upgrade"}, key |-> TRUE,
            version |-> 13, protocols |-> <<"other", "x-afb-ws-json1">>]
MCHeaders == {Plain, Upgrade, [Upgrade EXCEPT !.connection = {"close"}], [Upgrade EXCEPT !.version = 8],
              [Upgrade EXCEPT !.protocols = <<"other">>]}

Key(n, c) == [name |-> n, case |-> c]
Text(key, piece) == [key |-> key, piece |-> piece, file |-> ""]
File(key, file) == [key |-> key, piece |-> "", file |-> file]
MCParts == {Text(Key("k", "lower"), "1"), Text(Key("k", "upper"), "2"), File(Key("k", "lower"), "f"),
            File(Key("l", "lower"), "f"), File(Key("l", "upper"), "g")}
MCBodies == UNION {[1..n -> MCParts] : n \in 0..2} \cup [1..3 -> {p \in MCParts : p.file = ""}]
MCArgs == <<[key |-> Key("k", "upper"), value |-> <<"0">>]>>

Get(url, lang, headers, validated) ==
    [url |-> url, lang |-> lang, method |-> "get", http |-> "1.1", headers |-> headers,
     validated |-> validated, args |-> <<>>, type |-> "none", parts |-> <<>>, complete |-> TRUE]
Post(url, type, parts, complete) ==
    [Get(url, <<>>, Plain, TRUE) EXCEPT !.method = "post", !.args = MCArgs, !.type = type,
                                        !.parts = parts, !.complete = complete]

MCRequests ==
    {Get(u, l, Plain, TRUE) : u \in FileUrls, l \in MCDefinitions}
    \cup {Get(u, <<>>, Plain, TRUE) : u \in OtherUrls}
    \cup {Get(<<"api">>, <<>>, h, v) : h \in MCHeaders, v \in BOOLEAN}
    \cup {[Get(<<"api">>, <<>>, Upgrade, TRUE) EXCEPT !.http = "1.0"]}
    \cup {Post(u, "form", <<>>, TRUE) : u \in OtherUrls}
    \cup {Post(<<"api", "x", "y">>, t, <<>>, TRUE) : t \in {"none", "other"}}
    \cup {Post(<<"api", "x", "y">>, "json", <<Text(TextKey, "1"), Text(TextKey, "2")>>, TRUE)}
    \cup {Post(<<"api", "x", "y">>, "form", b, TRUE) : b \in MCBodies}
    \cup {Post(<<"api", "x", "y">>, "form", <<p>>, FALSE) : p \in MCParts}
MCBeyond == {<<"">>, <<"a">>, <<"b">>}
MCFiles == {<<"a">>, <<"b">>, <<"c">>, <<"..", "a">>}
MCRootApi == <<"api">>
MCRootBase == <<"opa">>
MCDefault == <<Fr>>
=============================================================================
