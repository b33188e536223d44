---------------------------- MODULE StaticServing ----------------------------
(***************************************************************************)
(* From a request to the bytes on the wire: HttpResponse                   *)
(* (src/http_response.cpp) looks at the file, StaticResourceManager        *)
(* (src/static_resource_manager.cpp) maps and caches it, BufferChain       *)
(* (include/buffer_chain.h) queues header and body, HandleWrite sends what *)
(* the socket takes.                                                       *)
(*                                                                         *)
(* Each connection is handled by a thread of its own; files come, change   *)
(* and go meanwhile.  A file is replaced as a whole, never truncated under *)
(* a mapping.  A byte is a triple: <<0, code, length>> is a header,        *)
(* <<-1, code, 0>> the page for an error, <<r, n, 0>> byte n of resource   *)
(* r.  The limit on the output is in ConnectionReactor.                    *)
(***************************************************************************)
EXTENDS HttpRules

CONSTANTS Conns,
          Requests,     \* the requests clients send
          Root,         \* static_root, as path elements
          Files,        \* what may be on disk: records [size, mtime]
          max_cache_size_,
          MaxIov,       \* nodes one writev takes
          MaxResources, \* bounds the mappings made
          MaxResponses, \* bounds the requests on a connection
          MaxChanges,   \* bounds the changes on disk
          None

VARIABLES
  disk,      \* the file at each path, or None
  changes,
  resources, \* every StaticResource made: [path, size]
  lru_list_, \* of resources, the most recent first
  cache_map_,
  current_cache_size_,
  pc,        \* per connection: what its thread does next
  request,
  code_,
  file_body_,
  buffer_queue_,
  total_bytes_,
  responses, \* history: [code, path, body] of each response sent
  stream,    \* history: the bytes a client is to read, response after response
  written    \* history: bytes the socket has taken

diskVars == <<disk, changes>>
cacheVars == <<resources, lru_list_, cache_map_, current_cache_size_>>
chainVars == <<buffer_queue_, total_bytes_>>
historyVars == <<responses, stream, written>>
staticVars == <<diskVars, cacheVars, chainVars, pc, request, code_, file_body_, historyVars>>

Target(r) == NormalizePath(ParsePath(r.path))
Targets == {Target(r) : r \in Requests}
Paths == Targets \ {NoPath}
Ids == 1 .. MaxResources
Bytes == Int \X Int \X Int

ASSUME StaticAssumption ==
  /\ max_cache_size_ \in Nat /\ MaxIov \in Nat /\ MaxResources \in Nat
  /\ \A f \in Files : f.size \in Nat
  /\ None \notin Files /\ None \notin Ids /\ None \notin Requests

StaticTypeOK ==
  /\ disk \in [Paths -> Files \cup {None}]
  /\ resources \in Seq([path : Paths, size : Nat])
  /\ Len(resources) <= MaxResources
  /\ lru_list_ \in Seq(DOMAIN resources)
  /\ current_cache_size_ \in Nat
  /\ pc \in [Conns -> {"idle", "init", "exists", "find", "load", "send", "closing"}]
  /\ request \in [Conns -> Requests \cup {None}]
  /\ code_ \in [Conns -> Int]
  /\ file_body_ \in [Conns -> DOMAIN resources \cup {None}]
  /\ buffer_queue_ \in [Conns -> Seq([data : Seq(Bytes), offset : Nat])]
  /\ total_bytes_ \in [Conns -> Nat]
  /\ responses \in [Conns -> Seq([code : Int, path : Targets, body : Seq(Bytes)])]
  /\ stream \in [Conns -> Seq(Bytes)]
  /\ written \in [Conns -> Nat]

StaticInit ==
  /\ disk \in [Paths -> Files \cup {None}]
  /\ changes = 0
  /\ resources = <<>>
  /\ lru_list_ = <<>>
  /\ cache_map_ = <<>>
  /\ current_cache_size_ = 0
  /\ pc = [c \in Conns |-> "idle"]
  /\ request = [c \in Conns |-> None]
  /\ code_ = [c \in Conns |-> -1]
  /\ file_body_ = [c \in Conns |-> None]
  /\ buffer_queue_ = [c \in Conns |-> <<>>]
  /\ total_bytes_ = [c \in Conns |-> 0]
  /\ responses = [c \in Conns |-> <<>>]
  /\ stream = [c \in Conns |-> <<>>]
  /\ written = [c \in Conns |-> 0]
-------------------------------------------------------------------------------
(* HttpResponse *)

PathOf(c) == Target(request[c])

Goto(c, from, to) == pc[c] = from /\ pc' = [pc EXCEPT ![c] = to]

\* The callback parses and validates a request, and begins its response.
Receive(c, r) ==
  /\ Goto(c, "idle", "init")
  /\ Len(responses[c]) < MaxResponses
  /\ request' = [request EXCEPT ![c] = r]
  /\ code_' = [code_ EXCEPT ![c] = ValidateRequest(Root, r)]
  /\ file_body_' = [file_body_ EXCEPT ![c] = None]
  /\ UNCHANGED <<diskVars, cacheVars, chainVars, historyVars>>

\* The end of HttpResponse::Init: the conditional headers against the file.
CheckConditions(c) ==
  /\ Goto(c, "init", "exists")
  /\ code_' = [code_ EXCEPT ![c] =
       IF /\ @ = -1
          /\ disk[PathOf(c)] # None
          /\ ShouldReturn304(request[c], disk[PathOf(c)])
       THEN 304 ELSE @]
  /\ UNCHANGED <<diskVars, cacheVars, chainVars, request, file_body_, historyVars>>

\* MakeResponse looks whether the file is there, unless the code is settled.
CheckExists(c) ==
  LET code == IF code_[c] # -1 THEN code_[c] ELSE IF disk[PathOf(c)] # None THEN 200 ELSE 404
  IN  /\ Goto(c, "exists", IF code = 200 THEN "find" ELSE "send")
      /\ code_' = [code_ EXCEPT ![c] = code]
      /\ UNCHANGED <<diskVars, cacheVars, chainVars, request, file_body_, historyVars>>
-------------------------------------------------------------------------------
(* StaticResourceManager *)

\* The iterator the map holds.
PlaceOf(r) == CHOOSE n \in 1 .. Len(lru_list_) : lru_list_[n] = r

\* GetResource, the first critical section: a hit moves to the front.
FindCached(c) ==
  LET p   == PathOf(c)
      hit == cache_map_[p]
  IN  /\ \/ /\ Goto(c, "find", "send")
            /\ p \in DOMAIN cache_map_
            /\ lru_list_' = <<hit>> \o RemoveAt(lru_list_, PlaceOf(hit))
            /\ file_body_' = [file_body_ EXCEPT ![c] = hit]
         \/ /\ Goto(c, "find", "load")
            /\ p \notin DOMAIN cache_map_
            /\ UNCHANGED <<lru_list_, file_body_>>
      /\ UNCHANGED <<diskVars, chainVars, resources, cache_map_, current_cache_size_,
                     request, code_, historyVars>>

\* The bytes some resources hold together.
SizeSum(ids) == Cardinality(UNION {{r} \X (1 .. resources[r].size) : r \in ids})

\* The last k of the list, and how many Evict_ takes to make room for size.
Oldest(k) == SubSeq(lru_list_, Len(lru_list_) - k + 1, Len(lru_list_))
Evictions(size) ==
  Min({k \in 0 .. Len(lru_list_) :
         \/ current_cache_size_ - SizeSum(Range(Oldest(k))) + size <= max_cache_size_
         \/ k = Len(lru_list_)})

\* Load_ maps no file that is missing or empty.
Loadable(p) == disk[p] # None /\ disk[p].size > 0

\* The rest of GetResource: a new resource takes the place of the oldest ones.
Insert(c, size) ==
  LET p    == PathOf(c)
      r    == Len(resources) + 1
      k    == Evictions(size)
      left == DOMAIN cache_map_ \ {resources[i].path : i \in Range(Oldest(k))}
  IN  /\ r \in Ids
      /\ resources' = Append(resources, [path |-> p, size |-> size])
      /\ lru_list_' = <<r>> \o SubSeq(lru_list_, 1, Len(lru_list_) - k)
      /\ cache_map_' = [q \in left \cup {p} |-> IF q = p THEN r ELSE cache_map_[q]]
      /\ current_cache_size_' = current_cache_size_ - SizeSum(Range(Oldest(k))) + size
      /\ file_body_' = [file_body_ EXCEPT ![c] = r]

\* Mutant: without the double check.
LoadResourceUnchecked(c) ==
  LET p == PathOf(c)
  IN  /\ Goto(c, "load", "send")
      /\ IF ~Loadable(p)
         THEN /\ code_' = [code_ EXCEPT ![c] = 404]
              /\ UNCHANGED <<cacheVars, file_body_>>
         ELSE /\ Insert(c, disk[p].size)
              /\ UNCHANGED code_
      /\ UNCHANGED <<diskVars, chainVars, request, historyVars>>

\* The second critical section: somebody else may have loaded the file; it may
\* be gone, or be empty, or the system may refuse to open or to map it, and
\* then the response is a 404.
LoadResource(c) ==
  LET p == PathOf(c)
  IN  /\ Goto(c, "load", "send")
      /\ \/ /\ p \in DOMAIN cache_map_
            /\ file_body_' = [file_body_ EXCEPT ![c] = cache_map_[p]]
            /\ UNCHANGED <<cacheVars, code_>>
         \/ /\ p \notin DOMAIN cache_map_
            /\ code_' = [code_ EXCEPT ![c] = 404]
            /\ UNCHANGED <<cacheVars, file_body_>>
         \/ /\ p \notin DOMAIN cache_map_
            /\ Loadable(p)
            /\ Insert(c, disk[p].size)
            /\ UNCHANGED code_
      /\ UNCHANGED <<diskVars, chainVars, request, historyVars>>
-------------------------------------------------------------------------------
(* BufferChain *)

\* The bytes the first k nodes have left, together.
Unsent(node) == node.offset + 1 .. Len(node.data)
LeftIn(q, k) == Cardinality(UNION {{m} \X Unsent(q[m]) : m \in 1 .. k})

\* Append: an empty string makes no node.
Node(data) == IF data = <<>> THEN <<>> ELSE <<[data |-> data, offset |-> 0]>>

Body(c) == IF file_body_[c] # None
           THEN [n \in 1 .. resources[file_body_[c]].size |-> <<file_body_[c], n, 0>>]
           ELSE IF code_[c] = 304 THEN <<>> ELSE << <<-1, code_[c], 0>> >>

\* GetBodyLen.
GetBodyLen(c) == IF file_body_[c] # None THEN resources[file_body_[c]].size
                 ELSE IF code_[c] = 304 THEN 0 ELSE 1

\* Both Sends, and Shutdown after an error; the response is gone and the parser
\* is reset.
SendResponse(c) ==
  LET header == << <<0, code_[c], GetBodyLen(c)>> >>
  IN  /\ Goto(c, "send", IF code_[c] >= 400 THEN "closing" ELSE "idle")
      /\ buffer_queue_' = [buffer_queue_ EXCEPT ![c] = @ \o Node(header) \o Node(Body(c))]
      /\ total_bytes_' = [total_bytes_ EXCEPT ![c] = @ + Len(header) + Len(Body(c))]
      /\ responses' = [responses EXCEPT ![c] =
           Append(@, [code |-> code_[c], path |-> PathOf(c), body |-> Body(c)])]
      /\ stream' = [stream EXCEPT ![c] = @ \o << <<0, code_[c], Len(Body(c))>> >> \o Body(c)]
      /\ request' = [request EXCEPT ![c] = None]
      /\ code_' = [code_ EXCEPT ![c] = -1]
      /\ file_body_' = [file_body_ EXCEPT ![c] = None]
      /\ UNCHANGED <<diskVars, cacheVars, written>>

\* The nodes that n bytes use up.
UsedUp(q, n) == Max({k \in 0 .. Len(q) : LeftIn(q, k) <= n})

\* Mutant: a second partial write forgets the first.
AdvanceReset(q, n) ==
  LET k    == UsedUp(q, n)
      rest == SubSeq(q, k + 1, Len(q))
  IN  IF rest = <<>> THEN <<>>
      ELSE [rest EXCEPT ![1].offset = n - LeftIn(q, k)]

\* Advance: whole nodes go, and the next one remembers how far it got.
Advance(q, n) ==
  LET k    == UsedUp(q, n)
      rest == SubSeq(q, k + 1, Len(q))
  IN  IF rest = <<>> THEN <<>>
      ELSE [rest EXCEPT ![1].offset = @ + n - LeftIn(q, k)]

\* What GetIov offers to one writev.
IovSize(q) == LeftIn(q, Min({MaxIov, Len(q)}))

\* HandleWrite: the socket takes n bytes of what is offered.
HandleWrite(c, n) ==
  /\ n \in 1 .. IovSize(buffer_queue_[c])
  /\ buffer_queue_' = [buffer_queue_ EXCEPT ![c] = Advance(@, n)]
  /\ total_bytes_' = [total_bytes_ EXCEPT ![c] = @ - n]
  /\ written' = [written EXCEPT ![c] = @ + n]
  /\ UNCHANGED <<diskVars, cacheVars, pc, request, code_, file_body_, responses, stream>>

\* Somebody puts a file in place, or removes one.
ChangeFile(p, f) ==
  /\ changes < MaxChanges
  /\ changes' = changes + 1
  /\ disk[p] # f
  /\ disk' = [disk EXCEPT ![p] = f]
  /\ UNCHANGED <<cacheVars, chainVars, pc, request, code_, file_body_, historyVars>>

StaticNext ==
  \/ \E c \in Conns :
       \/ \E r \in Requests : Receive(c, r)
       \/ CheckConditions(c) \/ CheckExists(c) \/ FindCached(c) \/ LoadResource(c)
       \/ SendResponse(c)
       \/ \E n \in 1 .. IovSize(buffer_queue_[c]) : HandleWrite(c, n)
  \/ \E p \in Paths, f \in Files \cup {None} : ChangeFile(p, f)

StaticSpec == StaticInit /\ [][StaticNext]_staticVars
-------------------------------------------------------------------------------
\* The cache keeps its books, with two threads that miss the same path at
\* once: the map and the list hold the same resources, each path once, the
\* size is their sum, and it is above the limit only for a single resource
\* (GetResource between its two critical sections, Evict_).
CacheConsistent ==
  /\ StaticTypeOK
  /\ DOMAIN cache_map_ = {resources[i].path : i \in Range(lru_list_)}
  /\ \A n \in 1 .. Len(lru_list_) : cache_map_[resources[lru_list_[n]].path] = lru_list_[n]
  /\ \A m, n \in 1 .. Len(lru_list_) : lru_list_[m] = lru_list_[n] => m = n
  /\ current_cache_size_ = SizeSum(Range(lru_list_))
  /\ current_cache_size_ > max_cache_size_ => Len(lru_list_) = 1

\* What a client reads is its responses, in order and unharmed, whatever
\* pieces the socket takes and whatever happens to the files and the cache
\* meanwhile: every header announces the length of the body that follows, a
\* 200 is followed by the whole of one file of the path asked for, and what
\* has been written and what the chain still holds make up the stream.
StreamIntact ==
  \A c \in Conns :
    LET q == buffer_queue_[c]
    IN
    /\ total_bytes_[c] = LeftIn(q, Len(q))
    /\ written[c] + LeftIn(q, Len(q)) = Len(stream[c])
    /\ \A m \in 1 .. Len(q) : \A i \in Unsent(q[m]) :
         q[m].data[i] = stream[c][written[c] + LeftIn(q, m - 1) + i - q[m].offset]
    /\ \A n \in 1 .. Len(responses[c]) :
         LET a == responses[c][n]
         IN  a.code = 200 => \E r \in DOMAIN resources :
               /\ resources[r].path = a.path
               /\ a.body = [k \in 1 .. resources[r].size |-> <<r, k, 0>>]

\* What the comment in ShouldReturn304 says: If-None-Match takes precedence.
\* A request whose ETags do not match is not answered with a 304.
IfNoneMatchFirst ==
  \A c \in Conns :
    code_[c] = 304 /\ pc[c] = "exists" /\ changes = 0 /\ request[c].if_none_match # {}
      => CheckIfNoneMatch(request[c], disk[PathOf(c)])

\* What the comment in ParseHttpDate says: the time is taken to be GMT.  A
\* file changed after the date of the client is not answered with a 304.
DatesAreGMT ==
  \A c \in Conns :
    code_[c] = 304 /\ pc[c] = "exists" /\ changes = 0 /\ request[c].if_none_match = {}
      => disk[PathOf(c)].mtime <= request[c].if_modified_since
===============================================================================
