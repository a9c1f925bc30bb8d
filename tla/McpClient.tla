------------------------------ MODULE McpClient ------------------------------
(***************************************************************************)
(* The MCP client of the oracles, oracles/mcp_client.py: one child process *)
(* asked one request at a time over its standard streams, a thread that    *)
(* moves the child's lines into a queue, and a timeout.                    *)
(*                                                                         *)
(* The server is any process that answers requests with something it could *)
(* answer: late, twice, beside notifications and requests of its own,      *)
(* without content, in bytes that are not text, or not at all; that closes *)
(* its input or its output, ignores the signal to terminate, exits at any  *)
(* point, or leaves its streams to a process it started.  It may write for *)
(* ever.                                                                   *)
(*                                                                         *)
(* A message is cut down to what decides whose answer it is and whether it *)
(* is one.  Time is counted in ticks, and passes only while the client has *)
(* nothing to do but wait for a line.                                      *)
(***************************************************************************)
EXTENDS Naturals, Sequences

CONSTANTS
  Asks,        \* what a request can ask: a method and its arguments
  Initialize,  \* the handshake, one of them
  Payloads,    \* the results
  Replies,     \* Replies[ask]: the results the server may give
  Timeout,     \* DEFAULT_TIMEOUT, in ticks
  MaxCalls,    \* bound: requests in a session, the handshake among them
  MaxLines,    \* bound: lines written in a session and not yet read by the client, at a time
  Chatter,     \* bound: the kinds of line it writes that answer nothing
  NoLine, EOF

ASSUME AskAssumption == Initialize \in Asks /\ Replies \in [Asks -> SUBSET Payloads]
ASSUME BoundAssumption == Timeout \in Nat \ {0} /\ MaxCalls \in Nat \ {0} /\ MaxLines \in Nat

VARIABLES
  proc,     \* the child: "none", "running", "terminated" by a signal it may ignore, "exited"
  hearing,  \* the far end of its standard input is open, in it or in a process it started
  speaking, \* so is the far end of its standard output
  pipe,     \* the lines written to it and not read by the pump
  pump,     \* the thread: "none", "reading", "ended" with the stream, or "dead" of an error
  lines,    \* the queue between the thread and the client
  sent,     \* the requests written so far: request i asks sent[i]
  pc,       \* where the client is
  idle,     \* ticks since the present wait for a line began, 0 while there is none
  reply,    \* the line the last request was answered with
  ending    \* how the session ended: "none" yet, "left" by its caller, an "error"
            \* of this module's, or another exception that was "raised" in it

childVars  == <<proc, hearing, speaking, pipe>>
wireVars   == <<pump, lines>>
clientVars == <<sent, pc, idle, reply, ending>>
mcpVars    == <<childVars, wireVars, clientVars>>

Ids == 1 .. MaxCalls

(* A response to request id; the error of one, or the result of a tool     *)
(* that is not an object, which call_tool takes for one; the result of one *)
(* whose content is null or whose text is no string; a request of the      *)
(* server's own, whose ids are its own count; a notification, or a line   *)
(* that is not JSON; and bytes that are not UTF-8.                         *)
Line ==
  [kind : {"response"}, id : Ids, ask : Asks, payload : Payloads]
  \cup [kind : {"error", "malformed"}, id : Ids]
  \cup [kind : {"request"}, id : Ids]
  \cup [kind : {"other", "undecodable"}]

McpTypeOK ==
  /\ proc \in {"none", "running", "terminated", "exited"}
  /\ hearing \in BOOLEAN
  /\ speaking \in BOOLEAN
  /\ pipe \in Seq(Line)
  /\ pump \in {"none", "reading", "ended", "dead"}
  /\ lines \in Seq(Line \cup {EOF})
  /\ sent \in Seq(Asks) /\ Len(sent) <= MaxCalls
  /\ pc \in {"out", "started", "waiting", "greeted", "ready", "closing", "reaping"}
  /\ idle \in 0 .. Timeout
  /\ reply \in Line \cup {NoLine}
  /\ ending \in {"none", "left", "error", "raised"}

McpInit ==
  /\ proc = "none" /\ hearing = FALSE /\ speaking = FALSE /\ pipe = << >>
  /\ pump = "none" /\ lines = << >>
  /\ sent = << >> /\ pc = "out" /\ idle = 0
  /\ reply = NoLine /\ ending = "none"

-----------------------------------------------------------------------------
(* The client.                                                             *)

(* A failure leaves the `with` block with an McpError, through close.      *)
Raise ==
  /\ pc' = "closing"
  /\ ending' = "error"
  /\ idle' = 0
  /\ UNCHANGED <<childVars, wireVars, sent, reply>>

(* No known runtime, a path outside the grammar, no file, no process.      *)
NotStarted ==
  /\ pc = "out" /\ ending = "none"
  /\ Raise

Launch ==
  /\ pc = "out" /\ ending = "none"
  /\ proc' = "running" /\ hearing' = TRUE /\ speaking' = TRUE
  /\ pump' = "reading"
  /\ pc' = "started"
  /\ UNCHANGED <<pipe, lines, sent, idle, reply, ending>>

(* request, up to its wait.  A request the child cannot be handed fails.   *)
Request(ask) ==
  /\ hearing
  /\ Len(sent) < MaxCalls
  /\ sent' = Append(sent, ask)
  /\ pc' = "waiting"
  /\ idle' = 0
  /\ reply' = NoLine
  /\ UNCHANGED <<childVars, wireVars, ending>>

Handshake == pc = "started" /\ Request(Initialize)

Call(ask) == pc = "ready" /\ ask # Initialize /\ Request(ask)

(* notifications/initialized                                               *)
Notify ==
  /\ pc = "greeted" /\ hearing
  /\ pc' = "ready"
  /\ UNCHANGED <<childVars, wireVars, sent, idle, reply, ending>>

(* The child has closed its end, or is gone.                               *)
SendFails ==
  /\ pc \in {"started", "greeted"} /\ ~hearing
  /\ Raise

CallFails ==
  /\ pc = "ready" /\ ~hearing
  /\ Raise

Current == Len(sent)

(* A defect to check against: whatever has an id is taken for the answer.  *)
AnswersAny(line) == line.kind \in {"response", "error", "malformed"}

Answers(line) == line.kind \in {"response", "error", "malformed"} /\ line.id = Current

(* _receive: one line of the queue.  What is not the answer is skipped,    *)
(* and the wait begins again.                                              *)
Skip ==
  /\ pc = "waiting" /\ lines # << >>
  /\ Head(lines) # EOF /\ ~Answers(Head(lines))
  /\ lines' = Tail(lines)
  /\ idle' = 0
  /\ UNCHANGED <<childVars, pump, sent, pc, reply, ending>>

Answered ==
  /\ pc = "waiting" /\ lines # << >>
  /\ Head(lines) # EOF /\ Answers(Head(lines)) /\ Head(lines).kind = "response"
  /\ lines' = Tail(lines)
  /\ reply' = Head(lines)
  /\ pc' = IF Current = 1 THEN "greeted" ELSE "ready"
  /\ idle' = 0
  /\ UNCHANGED <<childVars, pump, sent, ending>>

AnsweredWithError ==
  /\ pc = "waiting" /\ lines # << >>
  /\ Head(lines) # EOF /\ Answers(Head(lines)) /\ Head(lines).kind = "error"
  /\ lines' = Tail(lines)
  /\ pc' = "closing" /\ ending' = "error"
  /\ idle' = 0
  /\ UNCHANGED <<childVars, pump, sent, reply>>

(* call_tool joins the texts of a content it takes for a list of them, and *)
(* what it raises where it is none is not an McpError.                     *)
AnsweredAmiss ==
  /\ pc = "waiting" /\ lines # << >>
  /\ Head(lines) # EOF /\ Answers(Head(lines)) /\ Head(lines).kind = "malformed"
  /\ lines' = Tail(lines)
  /\ pc' = "closing" /\ ending' = "raised"
  /\ idle' = 0
  /\ UNCHANGED <<childVars, pump, sent, reply>>

StreamEnded ==
  /\ pc = "waiting" /\ lines # << >> /\ Head(lines) = EOF
  /\ lines' = Tail(lines)
  /\ pc' = "closing" /\ ending' = "error"
  /\ idle' = 0
  /\ UNCHANGED <<childVars, pump, sent, reply>>

(* A defect to check against: the wait for a line is without a timeout.    *)
TimedOutNever == FALSE /\ UNCHANGED mcpVars

TimedOut ==
  /\ pc = "waiting" /\ lines = << >> /\ idle = Timeout
  /\ Raise

(* The body of the `with` block ends, by itself or by an exception.        *)
Leave ==
  /\ pc = "ready"
  /\ pc' = "closing" /\ ending' = "left"
  /\ UNCHANGED <<childVars, wireVars, sent, idle, reply>>

(* close: the child's input is closed and the child told to terminate, ... *)
Terminate ==
  /\ pc = "closing"
  /\ pc' = "reaping"
  /\ proc' = IF proc = "running" THEN "terminated" ELSE proc
  /\ hearing' = FALSE
  /\ UNCHANGED <<speaking, pipe, wireVars, sent, idle, reply, ending>>

(* A defect to check against: nobody waits for the child.                  *)
ReapedUnseen ==
  /\ pc = "reaping"
  /\ pc' = "out"
  /\ UNCHANGED <<childVars, wireVars, sent, idle, reply, ending>>

(* ... waited for, ...                                                     *)
Reaped ==
  /\ pc = "reaping" /\ proc \in {"none", "exited"}
  /\ pc' = "out"
  /\ UNCHANGED <<childVars, wireVars, sent, idle, reply, ending>>

(* ... and killed where it has not exited in the time close gives it.      *)
Kill ==
  /\ pc = "reaping" /\ proc = "terminated"
  /\ proc' = "exited" /\ speaking' \in {speaking, FALSE}
  /\ UNCHANGED <<hearing, pipe, wireVars, clientVars>>

-----------------------------------------------------------------------------
(* The thread that moves lines.  It decodes ahead of the line it is at, so *)
(* bytes that are not text end it with the lines before them unread, and   *)
(* then nothing marks the end of the stream.                               *)

PumpLine ==
  /\ pump = "reading" /\ pipe # << >> /\ Head(pipe).kind # "undecodable"
  /\ lines' = Append(lines, Head(pipe))
  /\ pipe' = Tail(pipe)
  /\ UNCHANGED <<proc, hearing, speaking, pump, clientVars>>

PumpDies ==
  /\ pump = "reading" /\ \E i \in DOMAIN pipe : pipe[i].kind = "undecodable"
  /\ pump' = "dead"
  /\ UNCHANGED <<childVars, lines, clientVars>>

PumpEnds ==
  /\ pump = "reading" /\ pipe = << >> /\ ~speaking
  /\ lines' = Append(lines, EOF)
  /\ pump' = "ended"
  /\ UNCHANGED <<childVars, clientVars>>

-----------------------------------------------------------------------------
(* The server and the clock.  What a child leaves its streams to may go on *)
(* holding them, and writing, when the child is gone.                      *)

Says(line) ==
  /\ speaking /\ pc # "out" /\ Len(pipe) + Len(lines) < MaxLines
  /\ pipe' = Append(pipe, line)
  /\ UNCHANGED <<proc, hearing, speaking, wireVars, clientVars>>

SaysAnswer ==
  \E id \in DOMAIN sent :
    \/ \E payload \in Replies[sent[id]] :
         Says([kind |-> "response", id |-> id, ask |-> sent[id], payload |-> payload])
    \/ Says([kind |-> "error", id |-> id])
    \/ sent[id] # Initialize /\ Says([kind |-> "malformed", id |-> id])

SaysElse ==
  \/ "request" \in Chatter /\ \E id \in Ids : Says([kind |-> "request", id |-> id])
  \/ \E kind \in {"other", "undecodable"} \cap Chatter : Says([kind |-> kind])

Speaks == SaysAnswer \/ SaysElse

StopsHearing ==
  /\ hearing
  /\ hearing' = FALSE
  /\ UNCHANGED <<proc, speaking, pipe, wireVars, clientVars>>

StopsSpeaking ==
  /\ speaking
  /\ speaking' = FALSE
  /\ UNCHANGED <<proc, hearing, pipe, wireVars, clientVars>>

Exits ==
  /\ proc \in {"running", "terminated"}
  /\ proc' = "exited"
  /\ hearing' \in {hearing, FALSE} /\ speaking' \in {speaking, FALSE}
  /\ UNCHANGED <<pipe, wireVars, clientVars>>

(* A defect to check against: a wait outlives its timeout.                 *)
TickPastTimeout ==
  /\ pc = "waiting" /\ lines = << >> /\ idle <= Timeout
  /\ idle' = idle + 1
  /\ UNCHANGED <<childVars, wireVars, sent, pc, reply, ending>>

Tick ==
  /\ pc = "waiting" /\ lines = << >> /\ idle < Timeout
  /\ idle' = idle + 1
  /\ UNCHANGED <<childVars, wireVars, sent, pc, reply, ending>>

-----------------------------------------------------------------------------
(* What the client does of itself; what its caller decides is when to      *)
(* call and to leave.                                                      *)
Client ==
  \/ NotStarted \/ Launch \/ Handshake \/ Notify \/ SendFails
  \/ Skip \/ Answered \/ AnsweredWithError \/ AnsweredAmiss \/ StreamEnded \/ TimedOut
  \/ Terminate \/ Reaped \/ Kill

Pump == PumpLine \/ PumpDies \/ PumpEnds

Server == Speaks \/ StopsHearing \/ StopsSpeaking \/ Exits

McpNext == Client \/ (\E ask \in Asks : Call(ask)) \/ CallFails \/ Leave \/ Pump \/ Server \/ Tick

(* The client and the thread run and time passes; the server owes nothing, *)
(* and nothing makes the caller call or leave.                             *)
McpSpec ==
  /\ McpInit /\ [][McpNext]_mcpVars
  /\ WF_mcpVars(Client) /\ WF_mcpVars(Pump) /\ WF_mcpVars(Tick)

-----------------------------------------------------------------------------
(* Properties.                                                             *)

(* "A judgement never leaves a server running behind it": whatever state   *)
(* the child was in, and however the session ended.                        *)
NoServerLeft == pc = "out" => proc \in {"none", "exited"}

(* What a call returns is the server's answer to what that call asked, and *)
(* not to an earlier one, whatever the server says twice, late or of its   *)
(* own; the handshake is answered before anything is asked.                *)
ReturnsOwnAnswer ==
  /\ reply # NoLine =>
       reply.ask = sent[Current] /\ reply.payload \in Replies[sent[Current]]
  /\ \A i \in DOMAIN sent : sent[i] = Initialize <=> i = 1

=============================================================================
