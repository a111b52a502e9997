------------------------------- MODULE HRoute -------------------------------
(***************************************************************************)
(* Which handler answers a HTTP request, and with which file: the list of  *)
(* the handlers of the server (afb-hsrv.c, main.c), the aliases and the    *)
(* redirection of the pages (afb-hswitch.c), the localised files           *)
(* (afb-hreq.c) and the files of the bindings (afb-common.c).              *)
(*                                                                         *)
(* A url, always with a first '/', is the sequence of the names that       *)
(* follow it: "/" is <<"">>, "/a/" is <<"a", "">>, the empty tail is <<>>. *)
(* All the requests are handled by the main loop; the handlers of two      *)
(* requests share the roots only, so one request is followed at a time.    *)
(***************************************************************************)
EXTENDS LocaleRoot, HreqData

CONSTANTS
    RootApi, RootBase,  \* prefixes of the apis and of the single page
    Aliases,            \* the configured aliases, in their order: prefix and root
    HttpRoot, RootDir,  \* the roots of the other files and of the bindings
    DefaultLocale,      \* default_locale: <<>> if none
    Requests,           \* url, languages, method, headers, arguments, and the
                        \* parts of the body
    Beyond,             \* what may be read after the end of a url
    Files               \* paths opened by the bindings

ASSUME RootsAssumption ==
    /\ RootDir # HttpRoot
    /\ \A i \in DOMAIN Aliases : Aliases[i].root \in Roots \ {HttpRoot, RootDir}
    /\ {HttpRoot, RootDir} \subseteq Roots
    /\ \A q \in Requests : q.url # <<>> /\ q.lang \in Definitions
ASSUME IndexAssumption ==
    \A r \in Roots : \A p \in DOMAIN Tree[r] : \A n \in DOMAIN Tree[r][p] :
        Last(n) = "index.html" => Tree[r][p][n] = "file"

VARIABLES
    loc,                \* the roots
    reply,              \* the request handled and its reply, or NoReply
    post,               \* the request posted and its parts to come, or NoPost
    data,               \* hreq->data
    files               \* the temporary files

vars == <<loc, reply, post, data, files>>
postVars == <<post, data, files>>

-----------------------------------------------------------------------------
(* The handlers.                                                           *)

MutNewHandler(handlers, h) ==
    LET after == {i \in DOMAIN handlers : h.priority <= handlers[i].priority}
    IN  InsertAt(handlers, Cardinality(after) + 1, h)

(* new_handler: after the handlers of a higher priority, and after those   *)
(* of the same priority whose prefix is as long.                           *)
new_handler(handlers, h) ==
    LET after(i) == \/ h.priority < handlers[i].priority
                    \/ h.priority = handlers[i].priority /\ Len(h.prefix) <= Len(handlers[i].prefix)
        first == CHOOSE i \in 1..Len(handlers) + 1 :
                    /\ i = Len(handlers) + 1 \/ ~after(i)
                    /\ \A k \in 1..i - 1 : after(k)
    IN  InsertAt(handlers, first, h)

Handler(kind, prefix, priority, root, relax) ==
    [kind |-> kind, prefix |-> prefix, priority |-> priority, root |-> root, relax |-> relax]

(* init_http_server.                                                       *)
Handlers ==
    FoldLeft(new_handler, <<>>,
        <<Handler("websocket", RootApi, 20, RootDir, FALSE), Handler("apis", RootApi, 10, RootDir, FALSE)>>
        \o [i \in DOMAIN Aliases |-> Handler("alias", Aliases[i].prefix, 0, Aliases[i].root, FALSE)]
        \o <<Handler("alias", <<>>, -10, HttpRoot, TRUE), Handler("page", RootBase, -20, RootDir, FALSE)>>)

(* A path without the '/' that repeat the first.                           *)
Unslashed(path) ==
    LET firsts == {i \in DOMAIN path : path[i] # "" \/ i = Len(path)}
    IN  IF path = <<>> THEN path
        ELSE SubSeq(path, CHOOSE i \in firsts : \A k \in firsts : i <= k, Len(path))

(* afb_hreq_unprefix.                                                      *)
HasPrefix(url, prefix) == Len(prefix) <= Len(url) /\ SubSeq(url, 1, Len(prefix)) = prefix
Unprefixed(url, prefix) == Unslashed(SubSeq(url, Len(prefix) + 1, Len(url)))

-----------------------------------------------------------------------------
(* The replies.                                                            *)

NotHandled == [kind |-> "none"]
Error(status) == [kind |-> "error", status |-> status]
Redirect(to) == [kind |-> "redirect", to |-> to]

(* The index of a directory.                                               *)
WithIndex(path) ==
    IF path = <<>> \/ Last(path) # "" THEN Append(path, "index.html")
    ELSE Append(Front(path), "index.html")

(* afb_hreq_redirect_to_ending_slash_if_needed.                            *)
NeedsSlash(q) == Last(q.url) # ""

(* afb_hreq_reply_locale_file_if_exist, with the index of directories; the *)
(* content of a file is not told from its absence of change.               *)
FileReply(r, R, s, q, path) ==
    LET Found(p) == do_open(r, ListOf(R, s), ListOf(R, R.default_search), p)
        Reply(p) == LET o == Found(p)
                    IN  CASE o.kind = "none" -> NotHandled
                          [] o.kind \in {"error", "special"} -> Error(403)
                          [] OTHER -> [kind |-> o.kind, root |-> r, place |-> o.place, path |-> p]
    IN  IF Found(path).kind # "dir" THEN Reply(path)
        ELSE IF NeedsSlash(q) THEN Redirect(Append(q.url, ""))
        ELSE Reply(WithIndex(path))

(* The end of the use of a search just made.                               *)
ReleaseSearch(R) == locale_search_unref(R, R.lru[1])

(* handle_alias: what it makes of the root, and its reply.  Without tail,  *)
(* the name is read after the end of the url.                              *)
handle_alias(L, q, h, tail) ==
    LET R == locale_root_search(L[h.root], h.root, q.lang)
        paths == IF tail = <<>> THEN Beyond ELSE {tail}
        Missed(p) == IF p = NotHandled /\ ~h.relax THEN Error(404) ELSE p
    IN  IF q.method # "get"
        THEN {[loc |-> L, reply |-> IF h.relax THEN NotHandled ELSE Error(405)]}
        ELSE {[loc |-> [L EXCEPT ![h.root] = ReleaseSearch(R)],
               reply |-> Missed(FileReply(h.root, R, R.lru[1], q, p))] : p \in paths}

(* afb_hswitch_apis: two names are needed, whatever the '/' between them;  *)
(* the session may fail to be given (afb_hreq_init_context).               *)
afb_hswitch_apis(L, q, tail) ==
    LET names == SelectSeq(tail, LAMBDA n : n # "")
    IN  {[loc |-> L, reply |-> p] :
           p \in IF Len(names) < 2 THEN {NotHandled}
                 ELSE {Error(500), [kind |-> "call", api |-> names[1], verb |-> names[2]]}}

(* afb_hswitch_one_page_api_redirect: the string ends with the url when    *)
(* there is no tail.                                                       *)
one_page(L, q, prefix, tail) ==
    {[loc |-> L,
      reply |-> IF tail # <<>> /\ Head(tail) = "#" THEN NotHandled
                ELSE IF tail = <<>> THEN Redirect(q.url)
                ELSE Redirect(SubSeq(q.url, 1, Len(q.url) - Len(tail)) \o <<"#!">> \o tail)]}

(* check_websocket_upgrade: the headers say that it is an upgrade, then    *)
(* its version and its protocol are known, "" being no header; the socket  *)
(* of the connection or its client may fail to be there.                   *)
IsUpgrade(h) ==
    h.upgrade = "websocket" /\ "upgrade" \in h.connection /\ h.key /\ h.version # 0

search_proto(protocols) == protocols = <<>> \/ Contains(protocols, "x-afb-ws-json1")

check_websocket_upgrade(h) ==
    IF ~IsUpgrade(h) THEN {NotHandled}
    ELSE IF h.version # 13 THEN {Error(426)}
    ELSE IF ~search_proto(h.protocols) THEN {Error(412)}
    ELSE {Error(500), [kind |-> "upgraded"]}

(* afb_hswitch_websocket_switch, with a session or without, then           *)
(* afb_websock_check_upgrade.                                              *)
websocket_switch(L, q, tail) ==
    {[loc |-> L, reply |-> p] :
        p \in IF tail # <<>> THEN {NotHandled}
              ELSE {Error(500)} \cup
                   (IF ~q.validated THEN {Error(401)}
                    ELSE IF q.method # "get" \/ q.http # "1.1" THEN {NotHandled}
                    ELSE check_websocket_upgrade(q.headers))}

Handle(L, q, h) ==
    LET tail == Unprefixed(q.url, h.prefix)
    IN  CASE h.kind = "websocket" -> websocket_switch(L, q, tail)
          [] h.kind = "apis" -> afb_hswitch_apis(L, q, tail)
          [] h.kind = "alias" -> handle_alias(L, q, h, tail)
          [] h.kind = "page" -> one_page(L, q, h.prefix, tail)

(* access_handler: the handlers whose prefix is there, until one replies.  *)
Results(q) ==
    LET Try(outs, h) ==
          UNION {IF o.reply.kind # "none" \/ ~HasPrefix(q.url, h.prefix) THEN {o}
                 ELSE Handle(o.loc, q, h) : o \in outs}
        end == FoldLeft(Try, {[loc |-> loc, reply |-> NotHandled]}, Handlers)
    IN  {[o EXCEPT !.reply = IF o.reply = NotHandled THEN Error(404) ELSE o.reply] : o \in end}

-----------------------------------------------------------------------------
NoPost == [request |-> <<>>, parts |-> <<>>]
NoReply == [request |-> [path |-> <<>>, lang |-> <<>>], reply |-> NotHandled]

Replied(request, r, o) ==
    reply' = [request |-> request,
              reply |-> [kind |-> o.kind, root |-> r, place |-> o.place, path |-> request.path]]

Idle == reply = NoReply /\ post = NoPost

(* The handlers are looked for when the request is complete.               *)
Scan(q) ==
    \E o \in Results(q) :
        /\ loc' = o.loc
        /\ reply' = [request |-> q, reply |-> o.reply]

(* access_handler, first call: an empty post is handled as a get; the body *)
(* of the others is waited for, when it is a form or a json text.          *)
Request(q) ==
    /\ Idle
    /\ IF q.method = "get" \/ q.type = "none"
       THEN Scan([q EXCEPT !.method = "get"]) /\ UNCHANGED post
       ELSE /\ UNCHANGED loc
            /\ IF q.type \in {"form", "json"}
               THEN post' = [request |-> q, parts |-> q.parts] /\ UNCHANGED reply
               ELSE reply' = [request |-> q, reply |-> Error(415)] /\ UNCHANGED post
    /\ UNCHANGED <<data, files>>

(* The next part of the body, as the value of a form or as text.           *)
PostPart ==
    /\ post # NoPost /\ post.parts # <<>>
    /\ \E r \in postproc(data, files, Head(post.parts)) :
        /\ data' = r.data
        /\ files' = r.files
        /\ IF r.ok THEN post' = [post EXCEPT !.parts = Tail(@)] /\ UNCHANGED reply
           ELSE post' = NoPost /\ reply' = [request |-> post.request, reply |-> Error(500)]
    /\ UNCHANGED loc

(* The end of the body: a form cut in the middle is refused.               *)
PostEnd ==
    /\ post # NoPost /\ post.parts = <<>>
    /\ IF post.request.type = "form" /\ ~post.request.complete
       THEN reply' = [request |-> post.request, reply |-> Error(400)] /\ UNCHANGED loc
       ELSE Scan(post.request)
    /\ post' = NoPost
    /\ UNCHANGED <<data, files>>

(* end_handler and afb_hreq_unref, or the return to the binding.           *)
End ==
    /\ reply # NoReply
    /\ reply' = NoReply
    /\ files' = Unlinked(data, files)
    /\ data' = <<>>
    /\ UNCHANGED <<loc, post>>

(* afb_common_rootdir_open_locale, for a binding: locale_root_open.        *)
rootdir_open_locale(path, lang) ==
    LET R == locale_root_search(loc[RootDir], RootDir, lang)
        o == do_open(RootDir, ListOf(R, R.lru[1]), ListOf(R, R.default_search), path)
    IN  /\ Idle
        /\ loc' = [loc EXCEPT ![RootDir] = ReleaseSearch(R)]
        /\ Replied([path |-> path, lang |-> lang], RootDir, o)
        /\ UNCHANGED postVars

(* The same without languages: the default search is the one.              *)
rootdir_open(path) ==
    LET R == loc[RootDir]
        list == ListOf(R, R.default_search)
    IN  /\ Idle
        /\ Replied([path |-> path, lang |-> DefaultLocale], RootDir, do_open(RootDir, list, list, path))
        /\ UNCHANGED <<loc, postVars>>

(* afb_common_rootdir_set.                                                 *)
RootDirSet ==
    LET R == locale_root_create
        S == locale_root_search(R, RootDir, DefaultLocale)
    IN  IF DefaultLocale = <<>> THEN R
        ELSE ReleaseSearch(locale_root_set_default_search(S, S.lru[1]))

(* afb_hsrv_add_alias: the reference of the handler is the one that stays. *)
AliasRoot == locale_root_unref(locale_root_addref(locale_root_create))

Init ==
    /\ loc = [r \in Roots |-> IF r = RootDir THEN RootDirSet ELSE AliasRoot]
    /\ reply = NoReply
    /\ post = NoPost /\ data = <<>> /\ files = {}

Next ==
    \/ \E q \in Requests : Request(q)
    \/ PostPart
    \/ PostEnd
    \/ \E p \in Files, l \in Definitions : rootdir_open_locale(p, l)
    \/ \E p \in Files : rootdir_open(p)
    \/ End

Spec == Init /\ [][Next]_vars

-----------------------------------------------------------------------------
(* Properties.                                                             *)

(* The counts of the searches are their uses by the cache and as default   *)
(* search, the cache has one search for a definition, and the root counts  *)
(* its searches: a request leaves nothing behind it, and what is evicted   *)
(* from the cache while it is the default search stays.                    *)
SearchesAreCounted ==
    \A r \in Roots :
        LET R == loc[r]
            live == {s \in Ids : R.search[s].refcount # 0}
            InLru(s) == {i \in 1..LRU_COUNT : R.lru[i] = s}
        IN  /\ R.refcount = 1
            /\ R.intcount = Cardinality(live) + 1
            /\ \A s \in Ids : R.search[s].refcount
                    = Cardinality(InLru(s)) + (IF R.default_search = s THEN 1 ELSE 0)
            /\ \A i, k \in 1..LRU_COUNT :
                    i # k /\ R.lru[i] # NoSearch /\ R.lru[k] # NoSearch
                        => R.search[R.lru[i]].definition # R.search[R.lru[k]].definition

(* f is tag or tag cut before one of its '-'.                              *)
IsCut(f, tag) == \E j \in 1..Len(tag) : SubSeq(tag, 1, j) = f /\ (j = Len(tag) \/ tag[j + 1] = Dash)

(* The longest folder of a language.                                       *)
Best(r, tag) == {f \in Folders[r] : IsCut(f, tag) /\ \A g \in Folders[r] : IsCut(g, tag) => Len(g) <= Len(f)}

(* The folders of the root r that are looked at for some languages.        *)
CutsOf(r, tags) == {f \in Folders[r] : \E t \in ToSet(tags) : IsCut(f, t)}

(* The place p has the path asked.                                         *)
Holds(p, f) == Open(p.root, f, p.path) \notin {"none", "error"}

(* A file comes from the folder of one of the languages asked, from the    *)
(* best folder of the first language if it is there; from a folder of the  *)
(* default languages of the bindings only if no folder asked has it; and   *)
(* from the root only if none of these folders has it, when a language     *)
(* that was asked has a folder at all: locale-root.c:609 looks for the     *)
(* default ones after the others only.  Nothing is found above the root.   *)
(* The searches kept by the cache, their dichotomy and the links to the    *)
(* parents are for that.                                                   *)
ServedForItsLanguages ==
    LET p == reply.reply
        asked == reply.request.lang
        own == CutsOf(p.root, asked)
        default == IF p.root = RootDir /\ own # {} THEN CutsOf(p.root, DefaultLocale) ELSE {}
    IN  /\ p.kind # "above"
        /\ p.kind \in {"file", "dir", "special"} =>
             /\ p.place # Root => p.place \in own \cup default
             /\ \A i \in DOMAIN asked : \A f \in Best(p.root, asked[i]) :
                    Holds(p, f) => \E k \in 1..i : p.place \in Best(p.root, asked[k])
             /\ p.place \notin own => \A f \in own : ~Holds(p, f)
             /\ p.place = Root => \A f \in default : ~Holds(p, f)

(* "This search is used as fallback when other search are failing."        *)
(* (locale-root.c:571): what a folder of the default languages has is not  *)
(* missing for a binding, nor taken from the root.  locale-root.c:594      *)
(* forgets them when no language asked has a folder.                       *)
DefaultIsFallback ==
    LET p == reply.reply
    IN  "root" \in DOMAIN p =>
          (p.root = RootDir /\ p.place = Root /\ p.kind \in {"none", "file", "dir", "special"}
             => \A f \in CutsOf(RootDir, DefaultLocale) : ~Holds(p, f))

(* The errors of a body, and of the session.                               *)
Refusals == {Error(s) : s \in {400, 415, 500}}

(* A directory is what a url without its last '/' finds, under an alias;   *)
(* nothing is known of the name that is read after the end of a url.       *)
NamesADirectory(url) ==
    \E h \in ToSet(Handlers) :
        /\ h.kind = "alias" /\ HasPrefix(url, h.prefix)
        /\ LET tail == Unprefixed(url, h.prefix)
           IN  tail = <<>> \/ \E f \in DOMAIN Tree[h.root] : Open(h.root, f, tail) = "dir"

(* A url with an api and a verb is a call, a file is served under the      *)
(* alias of the longest prefix of its url, and a redirection leads to a    *)
(* directory, to the page with the rest of the url, or, from the name of   *)
(* the page, nowhere else.                                                 *)
RoutedByPrefix ==
    "url" \in DOMAIN reply.request =>
        LET url == reply.request.url
            p == reply.reply
            of == {i \in DOMAIN Aliases : HasPrefix(url, Aliases[i].prefix)}
        IN  /\ HasPrefix(url, RootApi) /\ Len(url) >= Len(RootApi) + 2
                 /\ url[Len(RootApi) + 1] # "" /\ url[Len(RootApi) + 2] # ""
                 => p.kind = "call" \/ p \in Refusals
            /\ p.kind = "file" =>
                 IF of = {} THEN p.root = HttpRoot
                 ELSE \E i \in of : /\ p.root = Aliases[i].root
                                    /\ \A k \in of : Len(Aliases[k].prefix) <= Len(Aliases[i].prefix)
            /\ p.kind = "redirect" =>
                 \/ p.to = Append(url, "") /\ NamesADirectory(url)
                 \/ /\ HasPrefix(url, RootBase)
                    /\ p.to = RootBase \o <<"#!">> \o SubSeq(url, Len(RootBase) + 1, Len(url))
                 \/ p.to = url /\ url = RootBase

(* "We will produce "/pre/#!dir/page"" (afb-hswitch.c:66): the page is     *)
(* reached after a redirection, and not only asked again.  The terminator  *)
(* that afb-hswitch.c:71 copies with "/pre" hides the "#!".                *)
RedirectsToThePage ==
    reply.reply.kind = "redirect" /\ HasPrefix(reply.request.url, RootBase) =>
        Contains(reply.reply.to, "#!")

(* The parts posted under a name.                                          *)
PartsOf(q, name) == SelectSeq(q.parts, LAMBDA part : part.key.name = name)

(* A verb called with a body gets all of it, and only it: for each name,   *)
(* the pieces in their order, or the file in a temporary file of its own,  *)
(* by its name and in json alike, before the arguments of the url.  The    *)
(* temporary files are those of the request: the end of the request, after *)
(* an error too, leaves none.                                              *)
ArgumentsAreComplete ==
    /\ files = {data[i].path : i \in DOMAIN data} \ {NoPath}
    /\ \A i, k \in DOMAIN data : data[i].path = data[k].path /\ i # k => data[i].path = NoPath
    /\ reply.reply.kind = "call" /\ reply.request.method = "post" =>
        \A i \in DOMAIN reply.request.parts :
            LET q == reply.request
                part == q.parts[i]
                same == PartsOf(q, part.key.name)
                arg == req_get(data, q.args, part.key)
            IN  /\ IF part.file # "" THEN arg.value = <<part.file>> /\ arg.path # NoPath
                   ELSE arg.value = [k \in DOMAIN same |-> same[k].piece] /\ arg.path = NoPath
                /\ req_json(data, q.args)[same[1].key] = arg
=============================================================================
