--------------------------- MODULE RequestOptions ---------------------------
(***************************************************************************)
(* From the JSON of a request to what the block manager caches for it:     *)
(* nanovllm/entrypoints/protocol.py, which collects cache controls from    *)
(* five places, and nanovllm/engine/sequence.py, which reads the result.   *)
(* A chat request is normalised twice, before and after its messages are   *)
(* visited.                                                                *)
(*                                                                         *)
(* An optional number is a sequence of at most one, a flag is "absent",    *)
(* "true", "false" or, if it is neither, "bad"; "5m" and "1h" are numbers. *)
(* A message counts as the lengths, in tokens, of the prefixes that it and *)
(* its content blocks mark, in the order in which they are visited.        *)
(***************************************************************************)
EXTENDS Integers, Sequences, SequencesExt, Queues

CONSTANTS
  Payloads,         \* the requests a client may send
  MaxBreakpoints    \* MAX_CACHE_BREAKPOINTS

(* The slice of the last 0, [-0:], would keep all.                         *)
ASSUME BreakpointsAssumption == MaxBreakpoints \in Nat \ {0}
(* What int() and the tokenizer return are integers.                       *)
ASSUME PayloadsAssumption ==
  \A p \in Payloads :
    /\ {p.breakpoints, p.control.breakpoints, p.prefix, p.control.prefix} \subseteq Seq(Int)
    /\ p.promptTokens \in Int
    /\ p.messages \in Seq(Seq(Int))
    /\ {p.enabled, p.disable, p.control.noStore, p.control.disable}
         \subseteq {"absent", "true", "false", "bad"}

VARIABLES
  payload,    \* the request
  options,    \* what cache_options_from_payload returned
  marks,      \* breakpoint_tokens of chat_prompt_and_cache_options
  visited,    \* how many messages of a chat have been visited
  pc          \* received, marking, ready or refused (400)

vars == <<payload, options, marks, visited, pc>>

NoControl ==
  [noStoreType |-> FALSE, noStore |-> "absent", disable |-> "absent", ttl |-> << >>,
   ttlSeconds |-> << >>, breakpoints |-> << >>, prefix |-> << >>]
NoOptions == [enabled |-> TRUE, ttl |-> << >>, breakpoints |-> {}]

Init ==
  /\ payload \in Payloads
  /\ options = NoOptions
  /\ marks = << >>
  /\ visited = 0
  /\ pc = "received"

-----------------------------------------------------------------------------
(* cache_options_from_payload                                              *)

(* `or' takes a ttl of 0 for none.                                         *)
ControlTtl(c) ==
  LET given == IF c.ttl \in {<< >>, <<0>>} THEN c.ttlSeconds ELSE c.ttl
  IN  IF given = << >> THEN <<300>> ELSE given
Ttl(p) == IF p.ttl # << >> THEN p.ttl ELSE ControlTtl(p.control)

MaxTokensOf(p) ==
  CASE p.maxTokens # << >> -> p.maxTokens[1]
    [] p.maxTokens = << >> /\ p.nestedMaxTokens # << >> -> p.nestedMaxTokens[1]
    [] OTHER -> 64

(* What raises a ValueError: a flag that is read and is none, a negative   *)
(* number where one is checked.                                            *)
Malformed(p) ==
  \/ "bad" \in {p.enabled, p.control.noStore, p.control.disable}
  \/ p.enabled = "absent" /\ p.disable = "bad"
  \/ p.ttl = << >> /\ ControlTtl(p.control)[1] < 0
  \/ MaxTokensOf(p) < 0

(* The mutant lets the flags at the top level decide.                      *)
EnabledAtTop(p) == IF p.enabled # "absent" THEN p.enabled = "true" ELSE p.disable # "true"
Enabled(p) ==
  /\ EnabledAtTop(p)
  /\ ~p.control.noStoreType
  /\ "true" \notin {p.control.noStore, p.control.disable}

(* A cache_control that says nothing of breakpoints marks the whole prompt.*)
Explicit(p) == p.breakpoints \o p.control.breakpoints
GivenPrefix(p) == IF p.prefix # << >> THEN p.prefix ELSE p.control.prefix
Breakpoints(p) ==
  Explicit(p) \o
    CASE GivenPrefix(p) # << >> -> GivenPrefix(p)
      [] GivenPrefix(p) = << >> /\ Explicit(p) = << >> /\ p.control # NoControl ->
           <<p.promptTokens>>
      [] OTHER -> << >>

(* The largest positive ones, sorted: a set here; the mutant keeps the     *)
(* smallest.                                                               *)
Positive(lengths) == {n \in ToSet(lengths) : n > 0}
Largest(S) == {n \in S : Cardinality({k \in S : k > n}) < MaxBreakpoints}
NormalizedDown(lengths) ==
  LET S == Positive(lengths)
  IN  {n \in S : Cardinality({k \in S : k < n}) < MaxBreakpoints}
Normalized(lengths) == Largest(Positive(lengths))

Ordered(S) == Sorted(S, {e \in S \X S : e[1] < e[2]})

Refuse ==
  /\ pc = "received" /\ Malformed(payload)
  /\ pc' = "refused"
  /\ UNCHANGED <<payload, options, marks, visited>>

ParseOptions ==
  /\ pc = "received" /\ ~Malformed(payload)
  /\ options' = [enabled |-> Enabled(payload), ttl |-> Ttl(payload),
                 breakpoints |-> Normalized(Breakpoints(payload))]
  /\ marks' = IF payload.chat THEN Ordered(options'.breakpoints) ELSE << >>
  /\ pc' = IF payload.chat THEN "marking" ELSE "ready"
  /\ UNCHANGED <<payload, visited>>

-----------------------------------------------------------------------------
(* chat_prompt_and_cache_options                                           *)

MarkMessage ==
  /\ pc = "marking" /\ visited < Len(payload.messages)
  /\ visited' = visited + 1
  /\ marks' = marks \o payload.messages[visited']
  /\ UNCHANGED <<payload, options, pc>>

MarkingDone ==
  /\ pc = "marking" /\ visited = Len(payload.messages)
  /\ options' = [options EXCEPT !.breakpoints = Normalized(marks)]
  /\ pc' = "ready"
  /\ UNCHANGED <<payload, marks, visited>>

Next == Refuse \/ ParseOptions \/ MarkMessage \/ MarkingDone

Spec == Init /\ [][Next]_vars

-----------------------------------------------------------------------------
(* What the sequence makes of the options: max_cacheable_tokens            *)

MaxCacheable(upTo) ==
  LET eligible == {n \in options.breakpoints : n <= upTo}
  IN  CASE options.breakpoints = {} -> upTo
        [] eligible # {} -> Max(eligible)
        [] OTHER -> 0

-----------------------------------------------------------------------------
(* Properties                                                              *)

(* All positive lengths the request marks, wherever it does.               *)
Marked(p) ==
  Positive(Breakpoints(p))
    \cup UNION {Positive(p.messages[i]) : i \in IF p.chat THEN DOMAIN p.messages ELSE {}}

(* Of all marks of a request, at most four survive, and none is dropped    *)
(* for a shorter one, in whatever order and in however many steps they are *)
(* collected and capped; what the sequence then lets the cache have ends   *)
(* at a surviving mark, and as long as a prompt reaches it at the longest  *)
(* that the request has (protocol.py:128, 249, sequence.py:116).           *)
LongestMarksSurvive ==
  pc = "ready" =>
    LET all == Marked(payload)
        kept == options.breakpoints
    IN  /\ kept \subseteq all
        /\ Cardinality(kept) = Min({Cardinality(all), MaxBreakpoints})
        /\ \A n \in all \ kept, k \in kept : n < k
        /\ all # {} =>
             /\ MaxCacheable(Max(all)) = Max(all)
             /\ \A n \in 0..Max(all) : MaxCacheable(n) \in all \cup {0} /\ MaxCacheable(n) <= n

(* A request that says no to the cache, at the top or in its               *)
(* cache_control, is not cached, whatever else it says: only an explicit   *)
(* cache_enabled outweighs the disable_cache beside it.  No other request  *)
(* loses the cache by way of the flags it has (protocol.py:150).           *)
NoStoreIsRespected ==
  pc = "ready" =>
    LET no == \/ payload.control.noStoreType
              \/ payload.control.noStore = "true" \/ payload.control.disable = "true"
              \/ payload.enabled = "false"
              \/ payload.enabled = "absent" /\ payload.disable = "true"
    IN  options.enabled = ~no
=============================================================================
