--------------------------- MODULE MCStaticServing ---------------------------
(***************************************************************************)
(* Instances of StaticServing.                                             *)
(***************************************************************************)
EXTENDS StaticServing

MCRequest(method, path, etags, since) ==
  [method |-> method, path |-> path, headers_size |-> 1, content_length |-> -1,
   if_none_match |-> etags, if_modified_since |-> since]

\* Connections are alike.
MCSymmetry == Permutations(Conns)

MCRoot == <<".", "public">>

\* An hour's worth of local time behind GMT, on the scale of the files' times.
MCWestOfGMT == -1

\* Two files that fit the cache one at a time or together, and an empty one.
MCFiles == {[size |-> 0, mtime |-> 1], [size |-> 1, mtime |-> 1], [size |-> 3, mtime |-> 2]}

\* Two paths, one of them with conditions, and a request that is refused.
MCRequests ==
  {MCRequest("GET", <<"/">>, {}, NoDate),
   MCRequest("GET", <<"/", "a", "?", "b">>, {<<1, 1>>}, 1),
   MCRequest("PUT", <<"/", "..">>, {}, NoDate)}

\* With a date only.
MCDateRequests == {MCRequest("HEAD", <<"/", "a">>, {}, 1)}
===============================================================================
