---------------------------- MODULE ResponsePages ----------------------------
(***************************************************************************)
(* Paged answers of callTool (tool_response_pagination.py), the TTL/LRU    *)
(* cache the later pages come from (tool_response_cache.py), and the part  *)
(* of callTool between them (proxy_mcp.py).  A client whose answer was     *)
(* split asks for the rest as the answer's hint says; meanwhile other      *)
(* calls fill the cache, the clock runs and an administrator edits the     *)
(* client's limits.                                                        *)
(***************************************************************************)
EXTENDS Integers, Sequences, FiniteSets

CONSTANTS
  Clients,     \* owners of cache entries (_response_cache_owner)
  Tools,       \* tools of the upstreams
  Spellings,   \* ways to write a tool's name that decode alike
  OwnParams,   \* [Tools -> SUBSET ArgKeys]: parameters the tool itself declares
  Limits,      \* limits an administrator may give a client
  Responses,   \* what an upstream may answer: lengths of text blocks, and
               \*   whether there are blocks that are not text
  Fresh,       \* ways a client asks for a response: tool, its name, route, limit
  Shapes,      \* ways it asks for a page: tool name, route, limit, the place of
               \*   the fields, and whether an outdated offset stands elsewhere
  Strays,      \* pages asked for without regard to the hint: tool, name, offset
  MaxEntries,  \* max_entries
  TTL,         \* ttl_s
  SuffixLen,   \* length of the truncation mark
  None,        \* a field that is absent
  NoCall,      \* no call in flight
  MaxEvents,   \* bound: calls that are not follow-ups, and edits of limits
  MaxTime      \* bound: ticks of the clock

ArgKeys == {"responseCacheId", "responseOffset", "responseLimit"}

Routes == {"callTool", "shortcut"}

ASSUME PagesAssumption ==
  /\ OwnParams \in [Tools -> SUBSET ArgKeys]
  /\ Limits \subseteq [page : Nat, hard : Nat]
  /\ Responses \subseteq [blocks : Seq(Nat), mixed : BOOLEAN]
  /\ Fresh \subseteq [tool : Tools, name : Spellings, via : Routes,
                     limit : (Nat \ {0}) \cup {None}]
  /\ Shapes \subseteq [name : Spellings, via : Routes, limit : (Nat \ {0}) \cup {None},
                      place : 1..4, old : BOOLEAN]
  /\ \A s \in Shapes : s.via = "shortcut" => s.place > 2
  /\ Strays \subseteq [tool : Tools, name : Spellings, offset : Nat]
  /\ MaxEntries \in Nat \ {0}
  /\ {TTL, SuffixLen, MaxEvents, MaxTime} \subseteq Nat
  /\ None \notin Nat

VARIABLES
  now,     \* time.monotonic()
  limits,  \* the effective settings of each client
  entries, \* _entries: cached responses, least recently used first
  calls,   \* the callTool in flight of each client
  reader,  \* what each client has put together of its last response
  events,  \* how many events of the environment there were
  texts,   \* history: the responses, in the order they were produced
  used     \* history: ids of all entries ever, least recently used first

vars == <<now, limits, entries, calls, reader, events, texts, used>>

-----------------------------------------------------------------------------
(***************************************************************************)
(* Texts.  A character is known by the response, the block and the place   *)
(* it comes from, so that two texts are equal only if nothing was lost,    *)
(* repeated or mixed up.                                                   *)
(***************************************************************************)

Least(a, b) == IF a <= b THEN a ELSE b
Most(a, b) == IF a >= b THEN a ELSE b

Block(v, b, n) == [i \in 1..n |-> <<v, b, i>>]
NewLine(v) == <<v, 0, 0>>
Mark == [i \in 1..SuffixLen |-> <<0, 0, i>>]

\* _join_text_blocks: the blocks of response v with a newline between two.
JoinTextBlocks(v, blocks) ==
  LET to[n \in 0..Len(blocks)] ==
        IF n = 0 THEN <<>>
        ELSE IF n = 1 THEN Block(v, 1, blocks[1])
        ELSE to[n - 1] \o <<NewLine(v)>> \o Block(v, n, blocks[n])
  IN to[Len(blocks)]

\* _truncate_text
TruncateText(text, max) ==
  IF max <= 0 \/ Len(text) <= max THEN text
  ELSE SubSeq(text, 1, Most(0, max - SuffixLen)) \o Mark

\* _truncate_blocks: every text block is cut by itself.
TruncateBlocks(v, blocks, max) ==
  [b \in 1..Len(blocks) |-> TruncateText(Block(v, b, blocks[b]), max)]

\* _page_size
PageSize(lim) == IF lim.page > 0 THEN lim.page ELSE lim.hard

\* entry.text[offset : offset + limit]
Slice(text, offset, limit) == SubSeq(text, offset + 1, Least(offset + limit, Len(text)))

-----------------------------------------------------------------------------
(***************************************************************************)
(* Requests.  A pagination field may stand beside "arguments" or inside,   *)
(* under its namespaced or its bare name; a shortcut has one flat object.  *)
(***************************************************************************)

Places == <<"top_ns", "top_bare", "arg_ns", "arg_bare">>
NoFields == [k \in ArgKeys |-> None]
NoArgs == [p \in {Places[i] : i \in 1..4} |-> NoFields]

\* Mutant of Carried: the value inside "arguments" wins.
MutCarried(args, k, declared) ==
  LET at == {i \in 1..4 : /\ args[Places[i]][k] # None
                          /\ ~(i = 4 /\ k \in declared)}
  IN IF at = {} THEN None
     ELSE args[Places[CHOOSE i \in at : \A j \in at : j <= i]][k]

\* parse_call_tool_pagination over peel_pagination_params: the first place that
\* carries the field; a bare name the tool declares is left to the tool.
Carried(args, k, declared) ==
  LET at == {i \in 1..4 : /\ args[Places[i]][k] # None
                          /\ ~(i = 4 /\ k \in declared)}
  IN IF at = {} THEN None
     ELSE args[Places[CHOOSE i \in at : \A j \in at : i <= j]][k]

\* wrap_hot_tool_as_call_tool: what is peeled off a shortcut's flat object
\* moves beside "arguments" under its bare name.
WrapHotTool(args, declared) ==
  [NoArgs EXCEPT
    !["top_bare"] = [k \in ArgKeys |-> Carried(args, k, declared)],
    !["arg_bare"] = [k \in ArgKeys |-> IF k \in declared THEN args["arg_bare"][k]
                                       ELSE None]]

\* Fields of a request for a page.
PageFields(id, offset, limit) ==
  [responseCacheId |-> id, responseOffset |-> offset, responseLimit |-> limit]

-----------------------------------------------------------------------------
\* "part" is a page asked for outside a reading, "cut" a truncated answer,
\* "lost" a missing id, "rejected" a page refused although the hint was followed.
Modes == {"idle", "reading", "done", "part", "cut", "lost", "failed", "rejected"}

Reader == [mode : Modes, id : Nat, off : Nat, text : Seq(Nat \X Nat \X Nat)]

NoReader == [mode |-> "idle", id |-> 0, off |-> 0, text |-> <<>>]

Arguments == [{Places[i] : i \in 1..4} -> [ArgKeys -> Nat \cup {None}]]

Call == [tool : Tools, name : Spellings, args : Arguments, via : Routes,
         at : {"schema", "upstream"}, eff : Limits, limit : Nat \cup {None},
         meant : Nat \cup {None}, follows : BOOLEAN]

Entry == [id : Nat, owner : Clients, tool : Tools, name : Spellings, created : Nat]

\* A response as it was produced.
Response == [owner : Clients, tool : Tools, text : Seq(Nat \X Nat \X Nat), created : Nat]

\* Types; the cache stays within max_entries, under different ids.
TypeOK ==
  /\ now \in 0..MaxTime
  /\ limits \in [Clients -> Limits]
  /\ entries \in Seq(Entry)
  /\ \A a, b \in 1..Len(entries) : entries[a].id = entries[b].id => a = b
  /\ Len(entries) <= MaxEntries
  /\ calls \in [Clients -> Call \cup {NoCall}]
  /\ reader \in [Clients -> Reader]
  /\ events \in 0..MaxEvents
  /\ texts \in Seq(Response)
  /\ used \in Seq(Nat)

Init ==
  /\ now = 0
  /\ \E l \in Limits : limits = [c \in Clients |-> l]
  /\ entries = <<>>
  /\ calls = [c \in Clients |-> NoCall]
  /\ reader = [c \in Clients |-> NoReader]
  /\ events = 0
  /\ texts = <<>>
  /\ used = <<>>

-----------------------------------------------------------------------------
(***************************************************************************)
(* The cache.  The id of an entry is a random token; the number of the     *)
(* response stands for it.                                                 *)
(***************************************************************************)

\* The elements of a sequence at the given positions, in their order.
Selected(s, at) ==
  LET to[n \in 0..Len(s)] ==
        IF n = 0 THEN <<>>
        ELSE IF n \in at THEN Append(to[n - 1], s[n])
        ELSE to[n - 1]
  IN to[Len(s)]

\* _purge_expired_unlocked
Unexpired(e) == now - e.created <= TTL
Purged(es) == Selected(es, {e \in 1..Len(es) : Unexpired(es[e])})

\* put: append, then drop from the front what exceeds max_entries.
Put(e) ==
  LET all == Append(Purged(entries), e)
      extra == Len(all) - MaxEntries
  IN SubSeq(all, Most(0, extra) + 1, Len(all))

\* Mutant of Found: any caller that knows the id may read it.
MutFound(id, c) == \E e \in 1..Len(Purged(entries)) : Purged(entries)[e].id = id

\* get: the entry is there and belongs to the caller.
Found(id, c) ==
  \E e \in 1..Len(Purged(entries)) :
    Purged(entries)[e].id = id /\ Purged(entries)[e].owner = c

\* Mutant of Touched: get leaves the order alone.
MutTouched(es, id) == es

\* move_to_end
Touched(es, id) ==
  Append(Selected(es, {e \in 1..Len(es) : es[e].id # id}),
         es[CHOOSE e \in 1..Len(es) : es[e].id = id])

EntryOf(id) ==
  entries[CHOOSE e \in 1..Len(entries) : entries[e].id = id]

\* entry.text
TextOf(id) == texts[id].text

\* History: ids by their last successful use, evicted or not; id, used before, is
\* used again.
UsedLast(us, id) ==
  LET at == CHOOSE u \in 1..Len(us) : us[u] = id
  IN [u \in 1..Len(us) |-> IF u < at THEN us[u] ELSE IF u < Len(us) THEN us[u + 1] ELSE id]

-----------------------------------------------------------------------------
(***************************************************************************)
(* Clients                                                                 *)
(***************************************************************************)

\* The call enters _call_tool_impl, which reads the client's limits and
\* identity and then waits for the tool's schema.
Receive(c, tool, name, via, args, meant, follows) ==
  /\ calls[c] = NoCall
  /\ calls' = [calls EXCEPT ![c] =
       [tool |-> tool, name |-> name, args |-> args, via |-> via, at |-> "schema",
        eff |-> limits[c], limit |-> None, meant |-> meant, follows |-> follows]]
  /\ UNCHANGED <<now, limits, entries, texts, used>>

\* The arguments of a call for a new response.  A tool that declares one of the
\* field names is given a value of its own under it.
FreshArgs(f) ==
  [NoArgs EXCEPT
    !["arg_ns"] = [NoFields EXCEPT !["responseLimit"] = f.limit],
    !["arg_bare"] = [k \in ArgKeys |-> IF k \in OwnParams[f.tool] THEN 0 ELSE None]]

AskFresh(c) ==
  /\ events < MaxEvents
  /\ reader[c].mode # "reading"
  /\ \E f \in Fresh : Receive(c, f.tool, f.name, f.via, FreshArgs(f), None, FALSE)
  /\ events' = events + 1
  /\ reader' = [reader EXCEPT ![c] = NoReader]

\* Names the hint allows: the namespaced ones, or the bare ones of a tool that
\* declares none of them.
HintPlaces(tool) ==
  IF OwnParams[tool] = {} THEN {1, 2, 3, 4} ELSE {1, 3}

\* The arguments of a request for the next page, as the hint asks for it; an
\* outdated offset may still stand where it does not count.
HintArgs(r, s) ==
  LET wrong == [NoFields EXCEPT !["responseOffset"] = 0]
  IN [q \in {Places[i] : i \in 1..4} |->
        IF q = Places[s.place] THEN PageFields(r.id, r.off, s.limit)
        ELSE IF s.old /\ s.place < 3 /\ q = "arg_ns" THEN wrong
        ELSE NoFields]

Follow(c) ==
  /\ reader[c].mode = "reading"
  /\ \E s \in Shapes :
       LET r == reader[c]
       IN /\ s.place \in HintPlaces(texts[r.id].tool)
          /\ Receive(c, texts[r.id].tool, s.name, s.via, HintArgs(r, s), r.id, TRUE)
  /\ UNCHANGED <<events, reader>>

\* A page asked for without regard to the hint: any id that was ever given out,
\* with any tool and offset.
StrayArgs(id, s) == [NoArgs EXCEPT !["top_ns"] = PageFields(id, s.offset, None)]

AskStray(c) ==
  /\ events < MaxEvents
  /\ reader[c].mode # "reading"
  /\ \E id \in 1..Len(texts), s \in Strays :
       Receive(c, s.tool, s.name, "callTool", StrayArgs(id, s), id, FALSE)
  /\ events' = events + 1
  /\ reader' = [reader EXCEPT ![c] = NoReader]

-----------------------------------------------------------------------------
(***************************************************************************)
(* callTool                                                                *)
(***************************************************************************)

End(c) == calls' = [calls EXCEPT ![c] = NoCall]

\* The arguments as callTool sees them.
Args(call, declared) ==
  IF call.via = "shortcut" THEN WrapHotTool(call.args, declared) ELSE call.args

\* _declared_params_for_composite: what the tool declares, or nothing when the
\* upstream does not answer.  A shortcut brings the schema along.
Declared(call) ==
  IF call.via = "shortcut" THEN {OwnParams[call.tool]}
  ELSE {OwnParams[call.tool], {}}

\* No cache id: the call goes on to the upstream.
Forward(c, declared) ==
  LET call == calls[c]
      args == Args(call, declared)
  IN /\ Carried(args, "responseCacheId", declared) = None
     /\ calls' = [calls EXCEPT ![c] =
          [call EXCEPT !.at = "upstream",
                       !.limit = Carried(args, "responseLimit", declared)]]
     /\ UNCHANGED <<reader, entries, used>>

\* "responseCacheId is missing or expired"
Miss(c, declared) ==
  LET call == calls[c]
      id == Carried(Args(call, declared), "responseCacheId", declared)
  IN /\ id # None
     /\ ~Found(id, c)
     /\ entries' = Purged(entries)
     /\ reader' = [reader EXCEPT ![c].mode = "lost"]
     /\ End(c)
     /\ UNCHANGED used

\* _same_tool_name
SameToolName(call, e) == call.tool = e.tool

\* Mutant of HasMore: one page too many at the end.
MutHasMore(offset, returned, total) == offset + returned <= total

HasMore(offset, returned, total) == offset + returned < total

\* What a client does with a page: append it, and go on where it ended.
TakePage(r, id, page, offset, total) ==
  [r EXCEPT !.mode = IF HasMore(offset, Len(page), total) THEN "reading" ELSE "done",
            !.id = id, !.off = offset + Len(page), !.text = @ \o page]

\* paginate_from_cache
ServePage(c, declared) ==
  LET call == calls[c]
      args == Args(call, declared)
      id == Carried(args, "responseCacheId", declared)
      off == Carried(args, "responseOffset", declared)
      offset == IF off = None THEN 0 ELSE off
      lim == Carried(args, "responseLimit", declared)
      page == PageSize(call.eff)
      e == EntryOf(id)
      text == TextOf(id)
      limit == IF lim = None THEN page ELSE Least(lim, page)
      taken == IF call.follows THEN reader[c] ELSE NoReader
  IN /\ id # None
     /\ Found(id, c)
     /\ entries' = Touched(Purged(entries), id)
     /\ used' = UsedLast(used, id)
     /\ reader' = [reader EXCEPT ![c] =
          IF page <= 0 THEN [taken EXCEPT !.mode = "done", !.id = id, !.text = text]
          ELSE IF ~SameToolName(call, e) \/ offset >= Len(text)
            THEN [taken EXCEPT !.mode = IF call.follows THEN "rejected" ELSE "failed"]
          ELSE IF call.follows
            THEN TakePage(taken, id, Slice(text, offset, limit), offset, Len(text))
          ELSE [taken EXCEPT !.mode = "part", !.id = id,
                             !.text = Slice(text, offset, limit)]]
     /\ End(c)

\* The schema is known, or given up on, and the request is parsed.
Parse(c) ==
  /\ calls[c] # NoCall
  /\ calls[c].at = "schema"
  /\ \E declared \in Declared(calls[c]) :
       \/ Forward(c, declared)
       \/ Miss(c, declared)
       \/ ServePage(c, declared)
  /\ UNCHANGED <<now, limits, events, texts>>

\* paginate_call_tool_response on the upstream's answer, under the limits read
\* when the call came in.
Respond(c) ==
  /\ calls[c] # NoCall
  /\ calls[c].at = "upstream"
  /\ \E r \in Responses :
       LET call == calls[c]
           v == Len(texts) + 1
           page == PageSize(call.eff)
           hard == call.eff.hard
           text == JoinTextBlocks(v, r.blocks)
           limit == IF call.limit = None THEN page ELSE Least(call.limit, page)
           cut == [NoReader EXCEPT !.mode = "cut", !.id = v]
           whole == [NoReader EXCEPT !.mode = "done", !.id = v, !.text = text]
           Kept(max) == TruncateBlocks(v, r.blocks, max) = TruncateBlocks(v, r.blocks, 0)
           large == page > 0 /\ ~r.mixed /\ Len(text) > page
           max == IF page <= 0 THEN hard
                  ELSE IF r.mixed THEN (IF hard > 0 THEN hard ELSE page)
                  ELSE hard
       IN /\ texts' = Append(texts, [owner |-> c, tool |-> call.tool,
                                     text |-> text, created |-> now])
          /\ entries' = IF large
               THEN Put([id |-> v, owner |-> c, tool |-> call.tool, name |-> call.name,
                         created |-> now])
               ELSE entries
          /\ used' = IF large THEN Append(used, v) ELSE used
          /\ reader' = [reader EXCEPT ![c] =
               IF large THEN TakePage(NoReader, v, Slice(text, 0, limit), 0, Len(text))
               ELSE IF Kept(max) THEN whole ELSE cut]
  /\ End(c)
  /\ UNCHANGED <<now, limits, events>>

\* The tool is disabled for the client, the server is unknown, the upstream
\* fails or the deadline passes.
Fail(c) ==
  /\ calls[c] # NoCall
  /\ reader' = [reader EXCEPT ![c].mode = "failed"]
  /\ End(c)
  /\ UNCHANGED <<now, limits, entries, events, texts, used>>

\* PATCH of a client's llm_limits
EditLimits(c) ==
  /\ events < MaxEvents
  /\ events' = events + 1
  /\ \E l \in Limits : limits' = [limits EXCEPT ![c] = l]
  /\ UNCHANGED <<now, entries, calls, reader, texts, used>>

Tick ==
  /\ now < MaxTime
  /\ now' = now + 1
  /\ UNCHANGED <<limits, entries, calls, reader, events, texts, used>>

Next ==
  \/ Tick
  \/ \E c \in Clients :
       \/ AskFresh(c) \/ Follow(c) \/ AskStray(c)
       \/ Parse(c) \/ Respond(c) \/ Fail(c)
       \/ EditLimits(c)

Spec == Init /\ [][Next]_vars

-----------------------------------------------------------------------------
\* A client that followed the hints to the end holds the upstream's text, all of
\* it, once, and of one response of the tool it called, whatever happened to the
\* cache, its limits and the spelling of the tool in between; and following the
\* hint is never answered as a wrong tool or an offset past the end.
HintLeadsToWholeText ==
  \A c \in Clients :
    /\ reader[c].mode # "rejected"
    /\ reader[c].mode = "done" => reader[c].text = TextOf(reader[c].id)

\* No client holds a character of a response that was fetched for another one
\* (_response_cache_owner), whichever ids, tools and offsets it tries.
PagesStayWithOwner ==
  \A c \in Clients : \A i \in 1..Len(reader[c].text) :
    texts[reader[c].text[i][1]].owner = c

WasCached(id) == \E u \in 1..Len(used) : used[u] = id

\* How many entries were used after id was.
UsedSince(id) ==
  Len(used) - (CHOOSE u \in 1..Len(used) : used[u] = id)

\* "missing or expired" is said only of an id that is another client's, was never
\* given out, is older than ttl_s, or has max_entries others used after it; and
\* to a call that names no id only when the tool's own parameter could not be
\* told apart because its schema was out of reach.
MissIsHonest ==
  [][\A c \in Clients :
       (calls[c] # NoCall /\ calls'[c] = NoCall /\ reader'[c].mode = "lost") =>
         LET id == calls[c].meant IN
         IF id = None
           THEN OwnParams[calls[c].tool] # {} /\ calls[c].via = "callTool"
           ELSE \/ ~WasCached(id)
                \/ texts[id].owner # c
                \/ now - texts[id].created > TTL
                \/ UsedSince(id) >= MaxEntries]_vars

\* Every answer a client gets while it reads either ends the reading or moves it
\* forward in the same response, down to pages of one character: a text of n
\* characters is read in at most n answers.
ReadingAdvances ==
  [][\A c \in Clients :
       (reader[c].mode = "reading" /\ calls[c] # NoCall /\ calls'[c] = NoCall) =>
         \/ reader'[c].mode # "reading"
         \/ reader'[c].id = reader[c].id /\ reader'[c].off > reader[c].off]_vars

-----------------------------------------------------------------------------
(***************************************************************************)
(* Why the properties hold.                                                *)
(***************************************************************************)

\* A cache entry is of the response it names.
Matches(e, ts, t) ==
  /\ e.id \in 1..Len(ts)
  /\ e.owner = ts[e.id].owner
  /\ e.tool = ts[e.id].tool
  /\ e.created = ts[e.id].created
  /\ e.created <= t

EntryInv == \A e \in 1..Len(entries) : Matches(entries[e], texts, now)

\* The characters of a response bear its number.
TextInv ==
  \A v \in 1..Len(texts) : \A i \in 1..Len(texts[v].text) : texts[v].text[i][1] = v

\* A client reads a response of its own, and holds its beginning up to where the
\* next page starts.
Reads(c, r, ts) ==
  /\ r.mode # "rejected"
  /\ r.mode = "reading" =>
       /\ r.id \in 1..Len(ts)
       /\ ts[r.id].owner = c
       /\ r.off < Len(ts[r.id].text)
       /\ r.text = SubSeq(ts[r.id].text, 1, r.off)
  /\ r.mode = "done" => r.id \in 1..Len(ts) /\ r.text = ts[r.id].text
  /\ \A i \in 1..Len(r.text) :
       r.text[i][1] \in 1..Len(ts) /\ ts[r.text[i][1]].owner = c

ReadInv == \A c \in Clients : Reads(c, reader[c], texts)

\* A call for the next page says what the hint says; any other one starts afresh.
Asks(k, r, ts) ==
  /\ k.follows =>
       /\ k.at = "schema"
       /\ r.mode = "reading"
       /\ k.tool = ts[r.id].tool
       /\ \E s \in Shapes :
            s.place \in HintPlaces(k.tool) /\ k.via = s.via /\ k.args = HintArgs(r, s)
  /\ ~k.follows => r = NoReader

CallInv == \A c \in Clients : calls[c] # NoCall => Asks(calls[c], reader[c], texts)

PagesInv == TypeOK /\ EntryInv /\ TextInv /\ ReadInv /\ CallInv

\* What a call says of a response is what its client means.
Means(k, r) ==
  /\ k.follows => k.meant = r.id
  /\ ~k.follows =>
       \/ \E s \in Strays : k.meant \in Nat /\ k.args = StrayArgs(k.meant, s)
       \/ \E f \in Fresh : /\ k.meant = None /\ k.tool = f.tool /\ k.via = f.via
                          /\ k.args = FreshArgs(f)

MeantInv == \A c \in Clients : calls[c] # NoCall => Means(calls[c], reader[c])

\* The cache holds what was used last: its entries stand in the order of their use,
\* and what is gone expired or has max_entries others used after it.
Recent(es, us, ts, t) ==
  /\ \A u, w \in 1..Len(us) : us[u] = us[w] => u = w
  /\ \A u \in 1..Len(us) : us[u] \in 1..Len(ts)
  /\ \A e \in 1..Len(es) : \E u \in 1..Len(us) : us[u] = es[e].id
  /\ \A a, b \in 1..Len(es) : \A u, w \in 1..Len(us) :
       a < b /\ us[u] = es[a].id /\ us[w] = es[b].id => u < w
  /\ \A u \in 1..Len(us) :
       \/ \E e \in 1..Len(es) : es[e].id = us[u]
       \/ t - ts[us[u]].created > TTL
       \/ Len(us) - u >= MaxEntries

UseInv == Recent(entries, used, texts, now)

CacheInv == PagesInv /\ MeantInv /\ UseInv
=============================================================================
