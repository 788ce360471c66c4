------------------------------- MODULE Stream -------------------------------
(***************************************************************************)
(* One reply of a model, read chunk by chunk, and where it is cut off:     *)
(* print_agent_response of the console, and the collector of an episode    *)
(* that runs beside others (episode/parallel_console.py), which reads the  *)
(* whole reply first and lets the console read it afterwards.              *)
(*                                                                         *)
(* A chunk is the sizes of what it holds; the console scrubs leaked chat   *)
(* template tokens out of what it counts, the collector does not.          *)
(***************************************************************************)
EXTENDS Naturals

CONSTANTS
  ChunkSize,     \* sizes of the parts of a chunk, in characters
  Cap,           \* STREAM_OUTPUT_CAP, in tokens
  ReasoningCap   \* REASONING_OUTPUT_CAP, in tokens

VARIABLES
  direct,    \* the console reads the stream itself: no other episode runs
  at,        \* "streaming", "collected" or "over"
  stopped,   \* _stop
  got,       \* _collect's counts
  cut,       \* whether it broke off
  read,      \* the console's counts over the same chunks
  outcome,   \* what the episode gets: "none", "reply", "stopped", "too long"
  scrubbed,  \* history: the characters scrubbed
  fragments  \* history: the pieces of tool calls seen

streamVars == <<direct, at, stopped, got, cut, read, outcome, scrubbed, fragments>>

\* A token is four characters.
OverCap(chars, cap) == chars \div 4 > cap

\* What a chunk adds: `leaked` characters of each text are scrubbed, and the
\* arguments come in pieces of tool calls.
Chunk ==
  {c \in [reasoning : ChunkSize, leakedReasoning : ChunkSize, content : ChunkSize,
          leakedContent : ChunkSize, pieces : ChunkSize, arguments : ChunkSize] :
     /\ c.leakedReasoning <= c.reasoning /\ c.leakedContent <= c.content
     /\ c.pieces = 0 => c.arguments = 0}

\* The console's reader.  Reasoning has a cap of its own until an answer has
\* begun, which is looked at before this chunk's answer is.
Reads(r, c) ==
  LET thought == c.reasoning - c.leakedReasoning
      said == c.content - c.leakedContent
      reasoning == r.reasoning + thought
      streamed == r.streamed + thought + said + c.arguments
  IN [reasoning |-> reasoning, streamed |-> streamed,
      begun |-> r.begun \/ said > 0 \/ c.pieces > 0,
      over |-> \/ r.over
               \/ ~r.begun /\ OverCap(reasoning, ReasoningCap)
               \/ OverCap(streamed, Cap)]

\* The collector's: a piece of a tool call counts one more.
Collects(g, c) ==
  [reasoning |-> g.reasoning + c.reasoning,
   answer |-> g.answer + c.content + c.pieces + c.arguments]

Breaks(g) ==
  \/ OverCap(g.reasoning + g.answer, Cap)
  \/ g.answer = 0 /\ OverCap(g.reasoning, ReasoningCap)

StreamInit ==
  /\ direct \in BOOLEAN /\ at = "streaming" /\ stopped = FALSE
  /\ got = [reasoning |-> 0, answer |-> 0] /\ cut = FALSE
  /\ read = [reasoning |-> 0, streamed |-> 0, begun |-> FALSE, over |-> FALSE]
  /\ outcome = "none" /\ scrubbed = 0 /\ fragments = 0

\* A chunk arrives; `direct`, the console raises where it crosses a cap, else
\* the collector stops asking for more.
Receive(c) ==
  /\ at = "streaming" /\ ~(direct /\ stopped)
  /\ read' = Reads(read, c)
  /\ scrubbed' = scrubbed + c.leakedReasoning + c.leakedContent
  /\ fragments' = fragments + c.pieces
  /\ IF direct
       THEN /\ at' = IF read'.over THEN "over" ELSE at
            /\ outcome' = IF read'.over THEN "too long" ELSE outcome
            /\ UNCHANGED <<got, cut>>
       ELSE /\ got' = Collects(got, c) /\ cut' = Breaks(got')
            /\ at' = IF cut' THEN "collected" ELSE at
            /\ UNCHANGED outcome
  /\ UNCHANGED <<direct, stopped>>

StreamEnds ==
  /\ at = "streaming"
  /\ at' = IF direct THEN "over" ELSE "collected"
  /\ outcome' = IF direct THEN "reply" ELSE outcome
  /\ UNCHANGED <<direct, stopped, got, cut, read, scrubbed, fragments>>

\* The console breaks at its next chunk; the collector does not look.
BreakOff ==
  /\ at = "streaming" /\ direct /\ stopped
  /\ at' = "over" /\ outcome' = "stopped"
  /\ UNCHANGED <<direct, stopped, got, cut, read, scrubbed, fragments>>

\* The console reads what was collected, under the render lock.
Replay ==
  /\ at = "collected" /\ at' = "over"
  /\ \/ outcome' = IF read.over THEN "too long" ELSE "reply"
     \/ stopped /\ outcome' = "stopped"
  /\ UNCHANGED <<direct, stopped, got, cut, read, scrubbed, fragments>>

Stop ==
  /\ stopped' = TRUE
  /\ UNCHANGED <<direct, at, got, cut, read, outcome, scrubbed, fragments>>

StreamNext ==
  \/ \E c \in Chunk : Receive(c)
  \/ StreamEnds \/ BreakOff \/ Replay \/ Stop

StreamSpec == StreamInit /\ [][StreamNext]_streamVars

(***************************************************************************)
(* Properties.                                                             *)
(***************************************************************************)
\* "The collector stops where the console's own output caps would stop the
\* stream ... the replay crosses the same cap" (parallel_console.py:6-8) holds
\* of replies without leaked tokens and tool calls: whatever else is passed on
\* as a whole reply was not broken off.  A reply with either is shortened
\* before the console's cap, and its tool calls with it.
PassedOnWhole == outcome = "reply" /\ cut => scrubbed + fragments > 0

\* The collector lets nothing grow that the console would have stopped: a
\* reply it read to its end is within the cap of a whole reply.
CollectedWithinCap == at = "collected" /\ ~cut => ~OverCap(read.streamed, Cap)
=============================================================================
