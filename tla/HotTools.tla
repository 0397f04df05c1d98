------------------------------- MODULE HotTools -------------------------------
(***************************************************************************)
(* Popular shortcuts: tools/list offers the most called upstream tools     *)
(* under their own names (_verified_hot_tools in proxy_mcp.py), and        *)
(* tools/call accepts such a name (_as_hot_call_tool_args).  Both look a   *)
(* tool up upstream, awaiting the answer, and prune it from the statistics *)
(* when the answer is that it is gone; counts, upstreams and the client's  *)
(* disabled tools change meanwhile.  The statistics are the counters of    *)
(* ToolCallStats below their cap; one key stands for one tool, whatever    *)
(* its spelling.                                                           *)
(***************************************************************************)
EXTENDS Integers, FiniteSets, SequencesExt

CONSTANTS
  Composites,  \* composite tool names; numbers, in the names' order
  Slots,       \* HOT_TOOL_SLOTS
  NoList,      \* no tools/list is being served
  NoCall,      \* no call is being served
  MaxCount     \* bound: calls counted per tool

ASSUME HotAssumption ==
  /\ Composites \subseteq Nat /\ IsFiniteSet(Composites)
  /\ Slots \in Nat \ {0} /\ MaxCount \in Nat

\* ToolRowOutcome
Outcomes == {"found", "missing", "error"}

VARIABLES
  counts,    \* ToolCallStatsStore._counts; 0 is no entry
  upstream,  \* what a lookup of the tool would come to now
  disabled,  \* the client's disabled_tools
  list,      \* the tools/list being served
  call,      \* the call being served, of a shortcut or through callTool
  offered,   \* the shortcuts of the last tools/list the client got
  steady,    \* history: tools counted and allowed when the list began, found since
  gone       \* history: tools that were ever missing

hotVars == <<counts, upstream, disabled, list, call, offered, steady, gone>>

List == [ranked : Seq(Composites), next : Nat \ {0}, out : Seq(Composites),
         disabled : SUBSET Composites, answer : Outcomes \union {"none"}]

Call == [tool : Composites, answer : Outcomes \union {"none", "allowed"}]

\* Types; a list never has more shortcuts than there are slots.
HotTypeOK ==
  /\ counts \in [Composites -> 0..MaxCount]
  /\ upstream \in [Composites -> Outcomes]
  /\ disabled \in SUBSET Composites
  /\ list \in List \union {NoList}
  /\ list # NoList => Len(list.out) <= Slots
  /\ call \in Call \union {NoCall}
  /\ offered \in SUBSET Composites
  /\ steady \in SUBSET Composites
  /\ gone \in SUBSET Composites

HotInit ==
  /\ counts = [t \in Composites |-> 0]
  /\ upstream = [t \in Composites |-> "found"]
  /\ disabled = {}
  /\ list = NoList /\ call = NoCall /\ offered = {} /\ steady = {} /\ gone = {}

\* The tools that have been called.
Called == {t \in Composites : counts[t] > 0}

\* Called more often, or as often and earlier in the names' order.
Before(t) ==
  {o \in Called : counts[o] > counts[t] \/ (counts[o] = counts[t] /\ o < t)}

\* ranked_keys: by count, then by name.
RankedKeys ==
  [i \in 1..Cardinality(Called) |-> CHOOSE t \in Called : Cardinality(Before(t)) = i - 1]

\* top_keys: the first Slots of them, disabled or unavailable ones too.
TopKeys == {t \in Called : Cardinality(Before(t)) < Slots}

\* ToolCallStatsStore.remove
Pruned(t) == [counts EXCEPT ![t] = 0]

-----------------------------------------------------------------------------
(***************************************************************************)
(* tools/list                                                              *)
(***************************************************************************)

\* Mutant of StartList: only the top keys are looked at.
MutStartList ==
  /\ list = NoList
  /\ list' = [ranked |-> SubSeq(RankedKeys, 1, Cardinality(TopKeys)), next |-> 1,
              out |-> <<>>, disabled |-> disabled, answer |-> "none"]
  /\ steady' = {t \in Composites : counts[t] > 0 /\ upstream[t] = "found"} \ disabled
  /\ UNCHANGED <<counts, upstream, disabled, call, offered, gone>>

\* The ranking and the client's policy are read once, before the first lookup.
StartList ==
  /\ list = NoList
  /\ list' = [ranked |-> RankedKeys, next |-> 1, out |-> <<>>,
              disabled |-> disabled, answer |-> "none"]
  /\ steady' = {t \in Composites : counts[t] > 0 /\ upstream[t] = "found"} \ disabled
  /\ UNCHANGED <<counts, upstream, disabled, call, offered, gone>>

\* The loop is not over: a slot is free and a ranked tool is left.
MoreToList == /\ list # NoList
              /\ Len(list.out) < Slots
              /\ list.next <= Len(list.ranked)

\* The next tool is looked up, unless the client may not use it.
LookUp ==
  /\ MoreToList /\ list.answer = "none"
  /\ LET t == list.ranked[list.next]
     IN list' = IF t \in list.disabled THEN [list EXCEPT !.next = @ + 1]
                                       ELSE [list EXCEPT !.answer = upstream[t]]
  /\ UNCHANGED <<counts, upstream, disabled, call, offered, steady, gone>>

\* Mutant of TakeAnswer: whatever is not found is pruned.
MutTakeAnswer ==
  /\ MoreToList /\ list.answer # "none"
  /\ LET t == list.ranked[list.next]
     IN /\ list' = [list EXCEPT !.next = @ + 1, !.answer = "none",
                                !.out = IF list.answer = "found" THEN Append(@, t) ELSE @]
        /\ counts' = IF list.answer # "found" THEN Pruned(t) ELSE counts
  /\ UNCHANGED <<upstream, disabled, call, offered, steady, gone>>

\* The answer arrives: offer the tool, prune it, or skip it.
TakeAnswer ==
  /\ MoreToList /\ list.answer # "none"
  /\ LET t == list.ranked[list.next]
     IN /\ list' = [list EXCEPT !.next = @ + 1, !.answer = "none",
                                !.out = IF list.answer = "found" THEN Append(@, t) ELSE @]
        /\ counts' = IF list.answer = "missing" THEN Pruned(t) ELSE counts
  /\ UNCHANGED <<upstream, disabled, call, offered, steady, gone>>

FinishList ==
  /\ list # NoList /\ ~MoreToList
  /\ offered' = ToSet(list.out)
  /\ list' = NoList
  /\ UNCHANGED <<counts, upstream, disabled, call, steady, gone>>

-----------------------------------------------------------------------------
(***************************************************************************)
(* tools/call                                                              *)
(***************************************************************************)

\* A client calls a shortcut it was offered.  A name that is not among the top
\* keys is an unknown tool: nothing happens.
CallShortcut(t) ==
  /\ call = NoCall
  /\ t \in offered \intersect TopKeys
  /\ call' = [tool |-> t, answer |-> "none"]
  /\ UNCHANGED <<counts, upstream, disabled, list, offered, steady, gone>>

LookUpCall ==
  /\ call # NoCall /\ call.answer = "none"
  /\ call' = [call EXCEPT !.answer = upstream[call.tool]]
  /\ UNCHANGED <<counts, upstream, disabled, list, offered, steady, gone>>

\* A shortcut that is gone is pruned, one that cannot be asked about is an
\* unknown tool this time; one that is found becomes a callTool if the client
\* may use it.
TakeCallAnswer ==
  /\ call # NoCall /\ call.answer \in Outcomes
  /\ counts' = IF call.answer = "missing" THEN Pruned(call.tool) ELSE counts
  /\ call' = IF call.answer = "found" /\ call.tool \notin disabled
               THEN [call EXCEPT !.answer = "allowed"] ELSE NoCall
  /\ UNCHANGED <<upstream, disabled, list, offered, steady, gone>>

\* callTool by composite name: the policy is read before the first await.
CallTool(t) ==
  /\ call = NoCall
  /\ t \notin disabled
  /\ call' = [tool |-> t, answer |-> "allowed"]
  /\ UNCHANGED <<counts, upstream, disabled, list, offered, steady, gone>>

\* record_success
Counted(t) == IF counts[t] < MaxCount THEN [counts EXCEPT ![t] = @ + 1] ELSE counts

\* The call itself: counted when the upstream answers, also that it knows no
\* such tool (propagate_tool_errors is off by default); pruned when the server
\* is unknown or disabled by now; neither when the upstream cannot be reached.
FinishCall ==
  /\ call # NoCall /\ call.answer = "allowed"
  /\ \/ counts' = Counted(call.tool)
     \/ upstream[call.tool] = "missing" /\ counts' = Pruned(call.tool)
     \/ UNCHANGED counts
  /\ call' = NoCall
  /\ UNCHANGED <<upstream, disabled, list, offered, steady, gone>>

-----------------------------------------------------------------------------
(***************************************************************************)
(* Upstreams and administrators.                                           *)
(***************************************************************************)

UpstreamChanges(t, o) ==
  /\ upstream[t] # o
  /\ upstream' = [upstream EXCEPT ![t] = o]
  /\ steady' = steady \ {t}
  /\ gone' = IF o = "missing" THEN gone \union {t} ELSE gone
  /\ UNCHANGED <<counts, disabled, list, call, offered>>

\* PATCH /clients/{id}: the tool is disabled, or enabled again.
EditPolicy(t) ==
  /\ disabled' = IF t \in disabled THEN disabled \ {t} ELSE disabled \union {t}
  /\ UNCHANGED <<counts, upstream, list, call, offered, steady, gone>>

HotNext ==
  \/ StartList \/ LookUp \/ TakeAnswer \/ FinishList
  \/ LookUpCall \/ TakeCallAnswer \/ FinishCall
  \/ \E t \in Composites : CallShortcut(t) \/ CallTool(t) \/ EditPolicy(t)
  \/ \E t \in Composites, o \in Outcomes : UpstreamChanges(t, o)

HotSpec == HotInit /\ [][HotNext]_hotVars

-----------------------------------------------------------------------------
(***************************************************************************)
(* Properties.                                                             *)
(***************************************************************************)

\* "a flaky or timed-out upstream must not wipe the popular-tool shortcut": a
\* tool that was never missing upstream never loses its count, however lists,
\* calls and outages interleave.
OutageKeepsCount ==
  [][\A t \in Composites : t \notin gone => counts'[t] >= counts[t]]_hotVars

\* A list offers the most popular tools: one that had been called and was allowed
\* when the list began, and was found from then to its end, is left out only when
\* every slot went to a tool ranked above it.
OffersMostPopular ==
  [][FinishList =>
       \A t \in steady \ offered' :
         /\ Len(list.out) = Slots
         /\ \A other \in offered' : \E i, j \in 1..Len(list.ranked) :
              i < j /\ list.ranked[i] = other /\ list.ranked[j] = t]_hotVars

-----------------------------------------------------------------------------
(***************************************************************************)
(* Why the properties hold.                                                *)
(***************************************************************************)

\* Only a tool that was missing is known, or about to be known, to be missing.
GoneInv ==
  /\ \A t \in Composites : upstream[t] = "missing" => t \in gone
  /\ list # NoList /\ list.answer = "missing" => list.ranked[list.next] \in gone
  /\ call # NoCall /\ call.answer = "missing" => call.tool \in gone

\* A list has offered exactly what the client may use and was found among the
\* ranked tools it is past; the steady ones are ranked, and in none of the
\* cases in which a tool is passed over.
OfferInv ==
  /\ \A t \in steady : upstream[t] = "found"
  /\ list # NoList =>
       /\ steady \subseteq ToSet(list.ranked) \ list.disabled
       /\ list.answer \in {"missing", "error"} => list.ranked[list.next] \notin steady
       /\ \A i \in 1..Len(list.ranked) :
            i < list.next /\ list.ranked[i] \in steady => list.ranked[i] \in ToSet(list.out)
       /\ \A t \in ToSet(list.out) :
            \E i \in 1..Len(list.ranked) : i < list.next /\ list.ranked[i] = t

HotInv == HotTypeOK /\ GoneInv /\ OfferInv
=============================================================================
