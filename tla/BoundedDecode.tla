--------------------------- MODULE BoundedDecode ---------------------------
(***************************************************************************)
(* Autoregressive decoding over a bounded key/value cache:                 *)
(* CachedDecodeRuntime with BoundedStaticKVDecodePolicy                    *)
(* (framework/runtime), over a decode graph that keeps its cache in a      *)
(* TransformerKVCache, as the text decoder of voxtral_realtime uses them.  *)
(*                                                                         *)
(* Two cursors advance side by side: the policy's, which says what a step  *)
(* does, and the graph cache's own, which says what is exported when the   *)
(* graph has to grow.  A full cache is a ring.                             *)
(*                                                                         *)
(* Data.  The key and value of a token are its position; all layers of the *)
(* model do the same.  An attention mask is the set of slots it leaves     *)
(* visible.  Positions are bounded by MaxPosition, far below their 64 bits.*)
(***************************************************************************)
EXTENDS Integers

CONSTANTS
    SlidingWindows,     \* config.text.sliding_window of the models
    MinCacheSteps,      \* the smallest cache of an offline run
    StreamCacheSteps,   \* the caches live streams are configured with
    Prompts,            \* lengths a prompt may have
    MaxPosition,        \* bound: where decoding stops
    NoGraph,            \* graph_ == nullptr
    Unwritten           \* a slot that holds zeros

ASSUME StepsAssumption ==
    /\ SlidingWindows \subseteq Nat \ {0}
    /\ MinCacheSteps \in Nat \ {0}
    /\ StreamCacheSteps \subseteq Nat \ {0}
    /\ Prompts \subseteq Nat \ {0}
    /\ MaxPosition \in Nat
    /\ Unwritten \notin Int

VARIABLES
    config,     \* the policy's bounds: sliding_window, min_cache_steps
    graph,      \* the decode graph, its cache and its attention mask, or NoGraph
    cursor,     \* the policy's cursor
    attended    \* history: the positions the last step attended to, {} before it

vars == <<config, graph, cursor, attended>>

Lesser(a, b)  == IF a < b THEN a ELSE b
Greater(a, b) == IF a < b THEN b ELSE a

Policy(window, least) == [sliding_window |-> window, min_cache_steps |-> least]

Offline == {Policy(w, MinCacheSteps) : w \in SlidingWindows}

\* A live stream has both bounds at the same value.
Stream == {Policy(n, n) : n \in StreamCacheSteps}

-----------------------------------------------------------------------------
(* The policy: capacity and cursor.                                         *)

\* What has to fit: the required steps, within the bounds.
Wanted(c, required) ==
    Greater(Lesser(Greater(required, 1), c.sliding_window),
            Lesser(c.min_cache_steps, c.sliding_window))

\* What the bucket is after k rounds.
Doubling[k \in Nat] == IF k = 0 THEN 1 ELSE 2 * Doubling[k - 1]

\* No bucket takes more rounds than the window has steps.
PowersOf2(c) == {Doubling[k] : k \in 0..c.sliding_window}

Bucket(c, required) ==
    CHOOSE b \in PowersOf2(c) : b >= Wanted(c, required) /\ b < 2 * Wanted(c, required)

\* Mutated: the cache grows by what is required.
ExactSteps(c, required) == Wanted(c, required)

\* The first power of two that is large enough, cut at the window.
target_cache_steps(c, required) == Lesser(Bucket(c, required), c.sliding_window)

NoCursor == [valid_steps |-> 0, absolute_end |-> 0, cache_steps |-> 0]

\* Mutated: a full ring is written from its start over and over.
SlotOfFill(c) == c.valid_steps % c.cache_steps

\* next_step: the slots are filled in order, then the ring turns.
cache_slot(c) ==
    IF c.valid_steps < c.cache_steps THEN c.valid_steps
    ELSE c.absolute_end % c.cache_steps

\* advance_after_direct_append of the cursor, by one step.
AdvanceCursor(c) ==
    [c EXCEPT !.valid_steps = IF @ < c.cache_steps THEN @ + 1 ELSE @,
              !.absolute_end = @ + 1]

-----------------------------------------------------------------------------
(* The graph and its cache.                                                 *)

\* A new graph has an empty cache, and everything masked.
DecodeStepGraph(steps) ==
    [cache_steps |-> steps, valid_steps |-> 0, current_end |-> 0,
     slots |-> [s \in 0..(steps - 1) |-> Unwritten],
     visible |-> {}, prefix_uploaded |-> FALSE]

\* A state is what prefill hands over, or a graph exports: the valid slots in order.
export_state(g) ==
    [valid_steps |-> g.valid_steps, current_end |-> g.current_end,
     key |-> [s \in 0..(g.valid_steps - 1) |-> g.slots[s]]]

PrefillState(prompt) ==
    [valid_steps |-> prompt, current_end |-> prompt, key |-> [s \in 0..(prompt - 1) |-> s]]

\* The state goes to the first slots, and the mask is to be uploaded anew.
import_state(g, state) ==
    [g EXCEPT !.valid_steps = state.valid_steps, !.current_end = state.current_end,
              !.slots = [s \in DOMAIN g.slots |->
                            IF s < state.valid_steps THEN state.key[s] ELSE Unwritten],
              !.prefix_uploaded = FALSE]

ImportCursor(state, steps) ==
    [valid_steps |-> state.valid_steps, absolute_end |-> state.current_end,
     cache_steps |-> steps]

\* write_attention_mask: first all valid slots, then one more at each step until the
\* cache is full.
Masked(g, c) ==
    [g EXCEPT !.prefix_uploaded = TRUE,
              !.visible =
                  IF ~g.prefix_uploaded THEN 0..(c.valid_steps - 1) \cup {cache_slot(c)}
                  ELSE IF c.valid_steps < c.cache_steps THEN @ \cup {cache_slot(c)}
                  ELSE @]

\* The graph writes the token's key and value into its slot, before the attention.
Written(g, c) == [g EXCEPT !.slots[cache_slot(c)] = c.absolute_end]

\* Mutated: the graph's cursor is left to the policy's.
KeepCache(g, c) == g

\* The graph's own cursor stops when the ring is full.
AdvanceCache(g, c) ==
    IF c.valid_steps < c.cache_steps
    THEN [g EXCEPT !.valid_steps = @ + 1, !.current_end = @ + 1]
    ELSE g

-----------------------------------------------------------------------------
Init ==
    /\ config \in Offline
    /\ graph = NoGraph
    /\ cursor = NoCursor
    /\ attended = {}

\* generate or begin_stream: a new runtime, a graph for the prompt, and the state
\* of the prefill imported, which is refused when the prompt exceeds the cache.
Begin(c, prompt) ==
    LET steps == target_cache_steps(c, prompt)
        state == PrefillState(prompt) IN
    /\ config' = c
    /\ attended' = {}
    /\ \/ /\ prompt <= steps
          /\ graph' = import_state(DecodeStepGraph(steps), state)
          /\ cursor' = ImportCursor(state, steps)
       \/ /\ prompt > steps
          /\ graph' = DecodeStepGraph(steps)
          /\ cursor' = NoCursor

\* The prefill fails, or the graph cannot be built: the new runtime has none.
BeginFails(c) ==
    /\ config' = c
    /\ graph' = NoGraph
    /\ cursor' = NoCursor
    /\ attended' = {}

\* grow_for_next_step: the graph and the cursor the step runs with.
Ready ==
    LET steps == target_cache_steps(config, cursor.valid_steps + 1)
        state == export_state(graph) IN
    IF graph.cache_steps >= steps THEN [graph |-> graph, cursor |-> cursor]
    ELSE [graph  |-> import_state(DecodeStepGraph(steps), state),
          cursor |-> ImportCursor(state, steps)]

CanStep == graph # NoGraph /\ cursor.cache_steps > 0

\* stream_step, or one token of generate: the cache grows, the step runs, both
\* cursors advance.
Step ==
    /\ CanStep /\ cursor.absolute_end < MaxPosition
    /\ LET r == Ready
           g == Written(Masked(r.graph, r.cursor), r.cursor) IN
       /\ graph' = AdvanceCache(g, r.cursor)
       /\ cursor' = AdvanceCursor(r.cursor)
       /\ attended' = {g.slots[s] : s \in g.visible}
    /\ UNCHANGED config

\* A step throws after the cache has grown: before the mask is written, or from the
\* computation, with the slot written or not.  No cursor advances, and the caller
\* may try again.
StepFails ==
    /\ CanStep /\ cursor.absolute_end < MaxPosition
    /\ LET r == Ready
           m == Masked(r.graph, r.cursor) IN
       /\ graph' \in {r.graph, m, Written(m, r.cursor)}
       /\ cursor' = r.cursor
    /\ attended' = {}
    /\ UNCHANGED config

Next ==
    \/ \E c \in Offline \cup Stream : (\E prompt \in Prompts : Begin(c, prompt)) \/ BeginFails(c)
    \/ Step \/ StepFails

Spec == Init /\ [][Next]_vars

-----------------------------------------------------------------------------
\* What prefill lets the token at a position attend to (make_text_mask): itself and
\* the positions before it, up to the window.
Window(position, window) == Greater(0, position - window + 1)..position

\* Decoding attends to what prefill would: through growth, failed steps and any
\* number of turns of the ring, a step sees exactly the latest positions of the
\* window, its own among them, and none that was never written.
AttendsToTheWindow ==
    attended # {} => attended = Window(cursor.absolute_end - 1, config.sliding_window)

\* Tokens get consecutive positions, also across the growth of the cache, where the
\* position comes from the graph's own cursor.
PositionsAreConsecutive ==
    [][attended' # {} /\ cursor' # cursor
          => cursor'.absolute_end = cursor.absolute_end + 1]_vars

\* The graph of a live stream is built once, in begin_stream, and never again; that of
\* an offline run grows a handful of times and never past its window, since a growth
\* doubles the cache or reaches the window (the comments on the two configurations,
\* text_decoder.cpp:987-1006).
RebuildsAreRare ==
    [][CanStep /\ (Step \/ StepFails) /\ graph'.cache_steps # graph.cache_steps
          => /\ config \notin Stream
             /\ graph'.cache_steps <= config.sliding_window
             /\ \/ graph'.cache_steps >= 2 * graph.cache_steps
                \/ graph'.cache_steps = config.sliding_window]_vars
=============================================================================
