------------------------------ MODULE HreqData ------------------------------
(***************************************************************************)
(* The arguments of a HTTP request (afb-hreq.c): those of its url and the  *)
(* data posted, that come in pieces, as the values of a form, as files,    *)
(* kept in temporary files, or as one text.                                *)
(*                                                                         *)
(* A key has a name, the same whatever its case, and a case.  A value is   *)
(* the sequence of the pieces received, none for NULL; the value of a file *)
(* is its name.                                                            *)
(***************************************************************************)
EXTENDS Integers, Sequences, FiniteSets, SequencesExt

(* The path of a value that is not a file.                                 *)
NoPath == 0

(* An argument that is not there.                                          *)
NoArg == [value |-> <<>>, path |-> NoPath]

(* The key of the text posted without form.                                *)
TextKey == [name |-> "", case |-> "lower"]

MutSameKey(a, b) == a = b

(* strcasecmp.                                                             *)
SameKey(a, b) == a.name = b.name

(* get_data: the place of a key in the list, 0 if it is not there.         *)
IndexOf(data, key) ==
    LET hits == {i \in DOMAIN data : SameKey(data[i].key, key)}
    IN  IF hits = {} THEN 0 ELSE CHOOSE i \in hits : \A k \in hits : i <= k

(* get_data with create: a new key is the first.                           *)
get_data(data, key) ==
    IF IndexOf(data, key) # 0 THEN data
    ELSE <<[key |-> key, value |-> <<>>, path |-> NoPath]>> \o data

(* What a piece makes of the data D and of the temporary files F.          *)
Piece(ok, D, F) == [ok |-> ok, data |-> D, files |-> F]

(* afb_hreq_post_add: nothing is added to a file.                          *)
afb_hreq_post_add(data, files, key, piece) ==
    LET D == get_data(data, key)
        i == IndexOf(D, key)
    IN  {IF D[i].path # NoPath THEN Piece(FALSE, D, files)
         ELSE Piece(TRUE, [D EXCEPT ![i].value = Append(@, piece)], files)}

(* opentempfile: a new file (external), or none.                           *)
opentempfile(files) ==
    {NoPath, CHOOSE p \in 1..Cardinality(files) + 1 : p \notin files}

(* afb_hreq_post_add_file: the pieces of a file have the same name; the    *)
(* file may fail to be created, opened again or written.                   *)
afb_hreq_post_add_file(data, files, key, file) ==
    LET D == get_data(data, key)
        i == IndexOf(D, key)
        Opened(p) == [D EXCEPT ![i].value = <<file>>, ![i].path = p]
    IN  IF D[i].value = <<>>
        THEN {Piece(ok /\ p # NoPath, Opened(p), files \cup ({p} \ {NoPath})) :
                  ok \in BOOLEAN, p \in opentempfile(files)}
        ELSE IF D[i].value # <<file>> \/ D[i].path = NoPath THEN {Piece(FALSE, D, files)}
        ELSE {Piece(ok, D, files) : ok \in BOOLEAN}

(* postproc, and the piece of a text without form.                         *)
postproc(data, files, part) ==
    IF part.file # "" THEN afb_hreq_post_add_file(data, files, part.key, part.file)
    ELSE afb_hreq_post_add(data, files, part.key, part.piece)

Unlinked(data, files) == files \ {data[i].path : i \in DOMAIN data}

(* req_get: what is posted, or the argument of the url.                    *)
req_get(data, args, key) ==
    LET i == IndexOf(data, key)
        k == IndexOf(args, key)
    IN  IF i # 0 THEN [value |-> data[i].value, path |-> data[i].path]
        ELSE IF k # 0 THEN [value |-> args[k].value, path |-> NoPath]
        ELSE NoArg

(* req_json: the arguments of the url, replaced by what is posted under    *)
(* the very same key.                                                      *)
req_json(data, args) ==
    [key \in {data[i].key : i \in DOMAIN data} \cup {args[i].key : i \in DOMAIN args} |->
        IF \E i \in DOMAIN data : data[i].key = key
        THEN LET i == CHOOSE k \in DOMAIN data : data[k].key = key
             IN  [value |-> data[i].value, path |-> data[i].path]
        ELSE LET i == CHOOSE k \in DOMAIN args : args[k].key = key
             IN  [value |-> args[i].value, path |-> NoPath]]
=============================================================================
