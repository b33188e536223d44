------------------------------ MODULE HttpRules ------------------------------
(***************************************************************************)
(* What the message callback asks of a request before it answers: the      *)
(* request line and the headers that matter (src/http_request.cpp),        *)
(* RequestValidator (src/request_validator.cpp) and                        *)
(* ConditionalRequestHandler (src/http/conditional_request_handler.cpp).   *)
(* Pure functions; the ASSUMEs compare them with other definitions of the  *)
(* same thing on all small inputs.                                         *)
(*                                                                         *)
(* A path is a sequence of tokens: "/", names, ".", "..", and "?" and "#", *)
(* which begin what is cut off.  A time is in seconds, as in an HTTP date  *)
(* and in the weak ETag, which is the size of the file and its time.       *)
(***************************************************************************)
EXTENDS Integers, SequencesExt

CONSTANTS Names,           \* names a path is made of
          MaxPath,         \* length of the paths the ASSUMEs look at
          MaxHeadersSize,  \* max_headers_size_
          MaxRequestSize,  \* max_request_size_
          ZoneOffset       \* seconds the local zone is ahead of GMT

Tokens == Names \cup {"/", ".", "..", "?", "#"}

NoPath == <<"no path">>
NoDate == -1

\* The text before the first occurrence of a token.
Before(p, mark) ==
  IF mark \in Range(p) THEN SubSeq(p, 1, SelectInSeq(p, LAMBDA t : t = mark) - 1) ELSE p

\* What getline finds between slashes, empty parts left out.
Parts(p) == SelectSeq(p, LAMBDA t : t # "/")

\* One part onto the stack of NormalizePath; NoPath once it was left by "..".
PushPart(parts, t) ==
  IF parts = NoPath \/ t = "." THEN parts
  ELSE IF t = ".." THEN IF parts = <<>> THEN NoPath ELSE Front(parts)
  ELSE Append(parts, t)

\* NormalizePath: the parts of the normalised path, or NoPath for an empty
\* string; "." is the empty sequence of parts.
NormalizePath(p) ==
  IF p = <<>> THEN NoPath
  ELSE FoldLeft(PushPart, <<>>, Parts(Before(Before(p, "?"), "#")))

\* The elements of std::filesystem::path::lexically_normal: an empty last
\* element stands for a trailing slash, and no elements become ".".
LexicallyNormal(e) ==
  LET kept == FoldLeft(PushPart, <<>>, SelectSeq(e, LAMBDA t : t # ""))
  IN  IF kept = <<>> THEN <<".">>
      ELSE IF Last(e) \in {"", "."} THEN Append(kept, "") ELSE kept

\* root / path: the slash of the root goes into the join; "." as a path
\* normalises to a trailing slash.
Join(root, parts) ==
  (IF Last(root) = "" THEN Front(root) ELSE root) \o (IF parts = <<>> THEN <<".">> ELSE parts)

\* IsPathWithinRoot: element by element, the root is a prefix.
IsPathWithinRoot(root, parts) ==
  IsPrefix(LexicallyNormal(root), LexicallyNormal(Join(root, parts)))

\* ValidatePath: whether the path may be served.
ValidatePath(root, p) ==
  /\ NormalizePath(p) # NoPath
  /\ IsPathWithinRoot(root, NormalizePath(p))

\* ParseRequestLine: "/" is the index page.
ParsePath(p) == IF p = <<"/">> THEN <<"/", "index.html">> ELSE p

AllowedMethods == {"GET", "POST", "HEAD", "OPTIONS"}

\* ValidateRequest, as the status the callback makes of its result: -1 is
\* "none yet".  A Content-Length that is missing or not a number is -1.
ValidateRequest(root, r) ==
  IF r.method \notin AllowedMethods THEN 405
  ELSE IF ~ValidatePath(root, ParsePath(r.path)) THEN 403
  ELSE IF r.headers_size > MaxHeadersSize \/ r.content_length > MaxRequestSize THEN 413
  ELSE -1

\* GenerateWeakETag; a list of ETags is a set of these, with "*" as <<>>.
ETag(file) == <<file.size, file.mtime>>

\* CheckIfNoneMatch: "*", or a list that holds the ETag, with W/ or without.
CheckIfNoneMatch(r, file) == {<<>>, ETag(file)} \cap r.if_none_match # {}

\* ParseHttpDate: mktime takes the fields, which are in GMT, for local time.
ParseHttpDate(date) == date - ZoneOffset

\* CheckIfModifiedSince; no date, or none that can be parsed, is NoDate.
CheckIfModifiedSince(r, file) ==
  r.if_modified_since # NoDate /\ file.mtime <= ParseHttpDate(r.if_modified_since)

\* ShouldReturn304: either header is enough.
ShouldReturn304(r, file) ==
  /\ r.method \in {"GET", "HEAD"}
  /\ CheckIfNoneMatch(r, file) \/ CheckIfModifiedSince(r, file)
-------------------------------------------------------------------------------
(* The same by other means *)

\* Paths as texts: two names never touch.
SmallPaths ==
  {p \in UNION {[1 .. n -> Tokens] : n \in 0 .. MaxPath} :
     \A n \in 1 .. Len(p) - 1 : ~({p[n], p[n + 1]} \subseteq Names \cup {".", ".."})}

\* How deep below the root a walk along the first n parts has come.
Depth(w, n) == Cardinality({k \in 1 .. n : w[k] \in Names})
                 - Cardinality({k \in 1 .. n : w[k] = ".."})

Walk(p) == Parts(Before(Before(p, "?"), "#"))

\* The names of a walk that are not left again.
Left(w) == LET stays == {n \in 1 .. Len(w) : /\ w[n] \in Names
                                           /\ \A m \in n .. Len(w) : Depth(w, m) >= Depth(w, n)}
           IN  [n \in 1 .. Cardinality(stays) |->
                  w[CHOOSE k \in stays : Cardinality({j \in stays : j <= k}) = n]]

\* NormalizePath gives the directory the path leads to, and refuses exactly
\* the paths that leave the root on their way, wherever they end.
ASSUME NormalizeAssumption ==
  \A p \in SmallPaths :
    LET w == Walk(p)
    IN  NormalizePath(p) =
          IF p = <<>> \/ \E n \in 1 .. Len(w) : Depth(w, n) < 0 THEN NoPath ELSE Left(w)

\* IsPathWithinRoot refuses nothing that NormalizePath lets through, whether
\* the root is written with a leading "./" or not; a root with a trailing
\* slash, and the root ".", it refuses all files of.
ASSUME RootAssumption ==
  \A p \in SmallPaths : NormalizePath(p) \notin {NoPath, <<>>} =>
    /\ \A root \in {<<".", "public">>, <<"public">>, <<"/", "srv", "www">>} : ValidatePath(root, p)
    /\ \A root \in {<<".", "public", "">>, <<".">>} : ~ValidatePath(root, p)
===============================================================================
